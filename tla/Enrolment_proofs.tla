-------------------------- MODULE Enrolment_proofs --------------------------
(***************************************************************************)
(* For any machines, tokens and data keys, and however many keys are       *)
(* minted, requests are in flight and answers are lost: who can open what, *)
(* while some machine of the group holds the History Key.                  *)
(*                                                                         *)
(* The server compares version numbers only, so that the argument is about *)
(* every key that could still be presented to it: those that the machines  *)
(* hold and those in authenticated requests that have not taken effect.    *)
(* Each of them follows the recovery key, which the server replaces in the *)
(* same transaction as the version: it is of an older version, or is that  *)
(* very key (Follows).  The keys of rotations in flight are the exception; *)
(* each is known to the machine that minted it and to no other (Secret).   *)
(***************************************************************************)
EXTENDS Enrolment, TLAPS

-----------------------------------------------------------------------------
(* Types *)

Keys == [hk : Nat, version : Nat]
Ops == {"none", "register", "init", "activate", "readmit", "revoke", "dek", "rotate"}
Steps == {"idle", "registering", "form", "initing", "self", "activating", "returning", "readmit",
          "readmitting", "approving", "revoking", "rewrap", "list", "rotating", "uploading"}
Requests == [op : Ops, by : Machine, target : Machine, key : Keys,
             devices : SUBSET Machine, deks : SUBSET Dek, token : Token \cup {Boot}]
Procedures == [step : Steps, key : Keys, deks : SUBSET Dek, req : Requests]

\* The server's tables, the requests and the machines hold what their columns and
\* fields are for; versions and keys have no bound here.
TypeOK ==
  /\ standing \in [Machine -> {"absent", "pending", "active", "revoked"}]
  /\ hkWraps \in [Machine -> Keys] /\ hkVersion \in Nat
  /\ dekWraps \in [Dek -> Keys]
  /\ recovery \in [phrase : Nat, key : Keys]
  /\ tokens \in [Token -> {"unminted", "open", "claimed"}]
  /\ flight \subseteq Requests
  /\ proc \in [Machine -> Procedures]
  /\ cached \in [Machine -> Keys]
  /\ minted \in Nat /\ lapses \in Nat
  /\ shown \subseteq Nat
  /\ known \in [Machine -> SUBSET Nat]
  /\ out \subseteq Machine
  /\ emptied \in BOOLEAN

\* What the constructors of procedures and requests build, and what Send and Answer
\* do to the machine that waits.
LEMMA NoKeyIsKey == NoKey \in Keys
  BY DEF NoKey, Keys

LEMMA IdleIs ==
  ASSUME NEW m \in Machine
  PROVE  /\ NoRequest(m) \in Requests /\ NoRequest(m).op = "none"
         /\ Idle(m) = [step |-> "idle", key |-> NoKey, deks |-> {}, req |-> NoRequest(m)]
         /\ Idle(m) \in Procedures
<1>1. NoRequest(m) \in Requests
  BY NoKeyIsKey DEF NoRequest, Request, Requests, Ops
<1>2. NoRequest(m).op = "none"
  BY DEF NoRequest, Request
<1>3. Idle(m) = [step |-> "idle", key |-> NoKey, deks |-> {}, req |-> NoRequest(m)]
  BY DEF Idle
<1>4. Idle(m) \in Procedures
  BY <1>1, <1>3, NoKeyIsKey DEF Procedures, Steps
<1> QED
  BY <1>1, <1>2, <1>3, <1>4

LEMMA AtIs ==
  ASSUME NEW m \in Machine, NEW step \in Steps, NEW key \in Keys
  PROVE  /\ At(m, step, key) = [step |-> step, key |-> key, deks |-> {}, req |-> NoRequest(m)]
         /\ At(m, step, key) \in Procedures
<1>1. At(m, step, key) = [step |-> step, key |-> key, deks |-> {}, req |-> NoRequest(m)]
  <2>1. [Idle(m) EXCEPT !.step = step]
          = [step |-> step, key |-> NoKey, deks |-> {}, req |-> NoRequest(m)]
    BY DEF Idle
  <2>2. At(m, step, key)
          = [[step |-> step, key |-> NoKey, deks |-> {}, req |-> NoRequest(m)]
               EXCEPT !.key = key]
    BY <2>1 DEF At
  <2> QED
    BY <2>2
<1>2. NoRequest(m) \in Requests
  BY IdleIs
<1> QED
  BY <1>1, <1>2 DEF Procedures

LEMMA SendIs ==
  ASSUME TypeOK, NEW m \in Machine, NEW step \in Steps, NEW key \in Keys, NEW r \in Requests,
         Send(m, step, key, r)
  PROVE  /\ flight' = flight \cup {r} /\ flight' \subseteq Requests
         /\ proc' = [proc EXCEPT ![m] = [step |-> step, key |-> key, deks |-> {}, req |-> r]]
         /\ proc' \in [Machine -> Procedures]
<1> DEFINE p == [step |-> step, key |-> key, deks |-> {}, req |-> r]
<1>1. [At(m, step, key) EXCEPT !.req = r] = p
  <2>1. At(m, step, key) = [step |-> step, key |-> key, deks |-> {}, req |-> NoRequest(m)]
    BY AtIs
  <2>2. [[step |-> step, key |-> key, deks |-> {}, req |-> NoRequest(m)] EXCEPT !.req = r] = p
    OBVIOUS
  <2> QED
    BY <2>1, <2>2, Zenon
<1>2. p \in Procedures
  BY DEF Procedures
<1>3. proc' = [proc EXCEPT ![m] = p]
  BY <1>1 DEF Send
<1>4. proc' \in [Machine -> Procedures]
  <2> HIDE DEF p
  <2> QED
    BY <1>2, <1>3 DEF TypeOK
<1>5. flight' = flight \cup {r} /\ flight' \subseteq Requests
  BY DEF Send, TypeOK
<1> QED
  BY <1>3, <1>4, <1>5

LEMMA AnswerIs ==
  ASSUME TypeOK, NEW r \in flight, NEW next \in Procedures, Answer(r, next)
  PROVE  /\ flight' = flight \ {r} /\ flight' \subseteq Requests
         /\ proc' \in [Machine -> Procedures]
         /\ \A m \in Machine :
              proc'[m] = proc[m] \/ (m = r.by /\ proc[m].req = r /\ proc'[m] = next)
<1>1. r.by \in Machine
  BY DEF TypeOK, Requests
<1> QED
  BY <1>1 DEF Answer, TypeOK

LEMMA RequestIs ==
  ASSUME NEW op \in Ops, NEW m \in Machine, NEW x \in Machine, NEW k \in Keys,
         NEW ms \in SUBSET Machine, NEW ds \in SUBSET Dek, NEW t \in Token \cup {Boot}
  PROVE  Request(op, m, x, k, ms, ds, t) \in Requests
  BY DEF Request, Requests

\* The types of what the actions read.
LEMMA KeysHeld ==
  ASSUME TypeOK, NEW m \in Machine
  PROVE  /\ proc[m] \in Procedures /\ proc[m].key \in Keys /\ proc[m].key.version \in Nat
         /\ proc[m].deks \subseteq Dek /\ proc[m].req \in Requests
         /\ cached[m] \in Keys /\ hkWraps[m] \in Keys /\ Resolved(m) \in Keys
         /\ recovery.key \in Keys /\ RecoverHK \in Keys /\ known[m] \subseteq Nat
  BY NoKeyIsKey DEF TypeOK, Procedures, Keys, Resolved, UnwrapHK, RecoverHK

LEMMA RequestHeld ==
  ASSUME TypeOK, NEW r \in flight
  PROVE  /\ r \in Requests /\ r.by \in Machine /\ r.target \in Machine /\ r.key \in Keys
         /\ r.key.hk \in Nat /\ r.key.version \in Nat
         /\ r.devices \subseteq Machine /\ r.deks \subseteq Dek
  BY DEF TypeOK, Requests, Keys

LEMMA FreshIs ==
  ASSUME TypeOK, NEW v \in Nat
  PROVE  Fresh(v) \in Keys /\ Fresh(v).hk = minted + 1 /\ Fresh(v).version = v
  BY DEF TypeOK, Fresh, Keys

LEMMA TypesInit == Init => TypeOK
<1> SUFFICES ASSUME Init PROVE TypeOK
  OBVIOUS
<1>1. \A m \in Machine : Idle(m) \in Procedures
  BY IdleIs
<1> QED
  BY <1>1, NoKeyIsKey DEF Init, TypeOK, NoRecovery

LEMMA TypesStep == TypeOK /\ [Next]_vars => TypeOK'
<1> SUFFICES ASSUME TypeOK, [Next]_vars PROVE TypeOK'
  OBVIOUS
<1> USE DEF TypeOK
<1>1. ASSUME NEW m \in Machine, NEW t \in Token, MintToken(m, t) \/ RevokeToken(m, t)
      PROVE  TypeOK'
  BY <1>1 DEF MintToken, RevokeToken, machines, history
<1>2. ASSUME NEW t \in Token, Expire(t) PROVE TypeOK'
  BY <1>2 DEF Expire, machines, history
<1>3. ASSUME NEW m \in Machine, NEW x \in Machine, Approve(m, x) PROVE TypeOK'
  <2>1. Activate(m, x, Resolved(m)) \in Requests
    BY KeysHeld, RequestIs DEF Activate, Ops
  <2>2. flight' \subseteq Requests /\ proc' \in [Machine -> Procedures]
    BY <1>3, <2>1, SendIs, NoKeyIsKey DEF Approve, Steps
  <2>3. cached' \in [Machine -> Keys]
    BY <1>3, KeysHeld DEF Approve, Resolve
  <2> QED
    BY <1>3, <2>2, <2>3 DEF Approve, db, history
<1>4. ASSUME NEW m \in Machine, NEW x \in Machine, StartRevoke(m, x) PROVE TypeOK'
  <2>1. Revoke(m, x) \in Requests
    BY NoKeyIsKey, RequestIs DEF Revoke, Ops
  <2>2. flight' \subseteq Requests /\ proc' \in [Machine -> Procedures]
    BY <1>4, <2>1, SendIs, KeysHeld DEF StartRevoke, Steps
  <2>3. cached' \in [Machine -> Keys]
    BY <1>4, KeysHeld DEF StartRevoke, Resolve
  <2> QED
    BY <1>4, <2>2, <2>3 DEF StartRevoke, db, history
<1>5. ASSUME NEW m \in Machine, ReWrap(m) PROVE TypeOK'
  <2>1. [proc[m] EXCEPT !.step = "list", !.deks = Stored] \in Procedures
    BY KeysHeld DEF Procedures, Steps, Stored
  <2> QED
    BY <1>5, <2>1 DEF ReWrap, db, history
<1>6. ASSUME NEW m \in Machine, SendRotate(m) PROVE TypeOK'
  <2> DEFINE new == Fresh(proc[m].key.version + 1)
  <2>1. new \in Keys /\ new.hk = minted + 1
    BY KeysHeld, FreshIs
  <2>2. Rotate(m, new, Active, proc[m].deks) \in Requests
    BY <2>1, KeysHeld, RequestIs DEF Rotate, Ops, Active
  <2> HIDE DEF new
  <2>3. /\ Send(m, "rotating", NoKey, Rotate(m, new, Active, proc[m].deks))
        /\ minted' = new.hk /\ known' = [known EXCEPT ![m] = @ \cup {new.hk}]
        /\ UNCHANGED <<db, cached, lapses, shown, out, emptied>>
    BY <1>6 DEF SendRotate, new
  <2>4. flight' \subseteq Requests /\ proc' \in [Machine -> Procedures]
    BY <2>2, <2>3, SendIs, NoKeyIsKey DEF Steps
  <2>5. known' \in [Machine -> SUBSET Nat]
    BY <2>1, <2>3
  <2> QED
    BY <2>1, <2>3, <2>4, <2>5 DEF db
<1>7. ASSUME NEW m \in Machine, NEW d \in Dek, SendUpload(m, d) PROVE TypeOK'
  <2>1. Upload(m, d, Resolved(m)) \in Requests
    BY KeysHeld, RequestIs DEF Upload, Ops
  <2>2. flight' \subseteq Requests /\ proc' \in [Machine -> Procedures]
    BY <1>7, <2>1, SendIs, NoKeyIsKey DEF SendUpload, Steps
  <2>3. cached' \in [Machine -> Keys]
    BY <1>7, KeysHeld DEF SendUpload, Resolve
  <2> QED
    BY <1>7, <2>2, <2>3 DEF SendUpload, db, history
<1>8. ASSUME NEW m \in Machine, NEW t \in Token \cup {Boot}, Setup(m, t) PROVE TypeOK'
  <2>1. Register(m, t) \in Requests
    BY NoKeyIsKey, RequestIs DEF Register, Ops
  <2>2. flight' \subseteq Requests /\ proc' \in [Machine -> Procedures]
    BY <1>8, <2>1, SendIs, NoKeyIsKey DEF Setup, Steps
  <2> QED
    BY <1>8, <2>2, NoKeyIsKey DEF Setup, Forget, db, history
<1>9. ASSUME NEW m \in Machine, Bootstrap(m) PROVE TypeOK'
  <2> DEFINE new == Fresh(1)
  <2>1. new \in Keys /\ new.hk = minted + 1
    BY FreshIs
  <2>2. InitRecovery(m, new) \in Requests
    BY <2>1, RequestIs DEF InitRecovery, Ops
  <2> HIDE DEF new
  <2>3. /\ Send(m, "initing", new, InitRecovery(m, new))
        /\ minted' = new.hk /\ known' = [known EXCEPT ![m] = @ \cup {new.hk}]
        /\ UNCHANGED <<db, cached, lapses, shown, out, emptied>>
    BY <1>9 DEF Bootstrap, new
  <2>4. flight' \subseteq Requests /\ proc' \in [Machine -> Procedures]
    BY <2>1, <2>2, <2>3, SendIs DEF Steps
  <2>5. known' \in [Machine -> SUBSET Nat]
    BY <2>1, <2>3
  <2> QED
    BY <2>1, <2>3, <2>4, <2>5 DEF db
<1>10. ASSUME NEW m \in Machine, SelfActivate(m) PROVE TypeOK'
  <2>1. Activate(m, m, proc[m].key) \in Requests
    BY KeysHeld, RequestIs DEF Activate, Ops
  <2>2. flight' \subseteq Requests /\ proc' \in [Machine -> Procedures]
    BY <1>10, <2>1, SendIs, KeysHeld DEF SelfActivate, Steps
  <2> QED
    BY <1>10, <2>2 DEF SelfActivate, db, history
<1>11. ASSUME NEW m \in Machine, NEW t \in Token, Recover(m, t) PROVE TypeOK'
  <2>1. Register(m, t) \in Requests
    BY NoKeyIsKey, RequestIs DEF Register, Ops
  <2>2. flight' \subseteq Requests /\ proc' \in [Machine -> Procedures]
    BY <1>11, <2>1, SendIs, KeysHeld DEF Recover, Steps
  <2>3. known' \in [Machine -> SUBSET Nat] /\ out' \subseteq Machine
    BY <1>11 DEF Recover, Keys
  <2> QED
    BY <1>11, <2>2, <2>3, NoKeyIsKey DEF Recover, Forget, RecoveryToken
<1>12. ASSUME NEW m \in Machine, SendReadmit(m) PROVE TypeOK'
  <2>1. Readmit(m, proc[m].key) \in Requests
    BY KeysHeld, RequestIs DEF Readmit, Ops
  <2>2. flight' \subseteq Requests /\ proc' \in [Machine -> Procedures]
    BY <1>12, <2>1, SendIs, KeysHeld DEF SendReadmit, Steps
  <2> QED
    BY <1>12, <2>2 DEF SendReadmit, db, history
<1>13. ASSUME NEW r \in flight, HandleRegister(r) PROVE TypeOK'
  <2> DEFINE next == IF proc[r.by].step = "returning" THEN At(r.by, "readmit", proc[r.by].key)
                     ELSE IF r.token = Boot THEN At(r.by, "form", NoKey) ELSE Idle(r.by)
  <2>1. next \in Procedures
    BY RequestHeld, KeysHeld, AtIs, IdleIs, NoKeyIsKey DEF Steps
  <2> HIDE DEF next
  <2>2. flight' \subseteq Requests /\ proc' \in [Machine -> Procedures]
    <3>1. Answer(r, next)
      BY <1>13 DEF HandleRegister, next
    <3> QED
      BY <2>1, <3>1, AnswerIs
  <2>3. standing' \in [Machine -> {"absent", "pending", "active", "revoked"}]
    BY <1>13 DEF HandleRegister
  <2>4. tokens' \in [Token -> {"unminted", "open", "claimed"}]
    BY <1>13 DEF HandleRegister, RedeemToken
  <2> QED
    BY <1>13, <2>2, <2>3, <2>4 DEF HandleRegister
<1>14. ASSUME NEW r \in flight, HandleInitRecovery(r) PROVE TypeOK'
  <2>1. flight' \subseteq Requests /\ proc' \in [Machine -> Procedures]
    <3>1. At(r.by, "self", r.key) \in Procedures
      BY RequestHeld, AtIs DEF Steps
    <3> QED
      BY <1>14, <3>1, AnswerIs DEF HandleInitRecovery
  <2>2. recovery' \in [phrase : Nat, key : Keys]
    BY <1>14, RequestHeld DEF HandleInitRecovery
  <2> QED
    BY <1>14, <2>1, <2>2 DEF HandleInitRecovery, history
<1>15. ASSUME NEW r \in flight, HandleActivate(r) PROVE TypeOK'
  <2>1. flight' \subseteq Requests /\ proc' \in [Machine -> Procedures]
    BY <1>15, RequestHeld, IdleIs, AnswerIs DEF HandleActivate
  <2>2. /\ hkVersion' \in Nat /\ hkWraps' \in [Machine -> Keys]
        /\ standing' \in [Machine -> {"absent", "pending", "active", "revoked"}]
    BY <1>15, RequestHeld DEF HandleActivate
  <2>3. known' \in [Machine -> SUBSET Nat] /\ out' \subseteq Machine /\ shown' \subseteq Nat
    BY <1>15, RequestHeld DEF HandleActivate, Printed
  <2> QED
    BY <1>15, <2>1, <2>2, <2>3 DEF HandleActivate
<1>16. ASSUME NEW r \in flight, HandleReadmit(r) PROVE TypeOK'
  <2>1. flight' \subseteq Requests /\ proc' \in [Machine -> Procedures]
    BY <1>16, RequestHeld, IdleIs, AnswerIs DEF HandleReadmit
  <2>2. /\ hkWraps' \in [Machine -> Keys]
        /\ standing' \in [Machine -> {"absent", "pending", "active", "revoked"}]
    BY <1>16, RequestHeld DEF HandleReadmit
  <2>3. known' \in [Machine -> SUBSET Nat] /\ out' \subseteq Machine
    BY <1>16, RequestHeld DEF HandleReadmit
  <2> QED
    BY <1>16, <2>1, <2>2, <2>3 DEF HandleReadmit
<1>17. ASSUME NEW r \in flight, HandleRevoke(r) PROVE TypeOK'
  <2>1. flight' \subseteq Requests /\ proc' \in [Machine -> Procedures]
    <3>1. At(r.by, "rewrap", proc[r.by].key) \in Procedures
      BY RequestHeld, KeysHeld, AtIs DEF Steps
    <3> QED
      BY <1>17, <3>1, AnswerIs DEF HandleRevoke
  <2>2. /\ hkWraps' \in [Machine -> Keys]
        /\ standing' \in [Machine -> {"absent", "pending", "active", "revoked"}]
    BY <1>17, NoKeyIsKey DEF HandleRevoke
  <2>3. emptied' \in BOOLEAN
    BY <1>17 DEF HandleRevoke
  <2> QED
    BY <1>17, <2>1, <2>2, <2>3 DEF HandleRevoke
<1>18. ASSUME NEW r \in flight, HandleUpload(r) PROVE TypeOK'
  <2>1. flight' \subseteq Requests /\ proc' \in [Machine -> Procedures]
    BY <1>18, RequestHeld, IdleIs, AnswerIs DEF HandleUpload
  <2>2. dekWraps' \in [Dek -> Keys]
    BY <1>18, RequestHeld DEF HandleUpload
  <2> QED
    BY <1>18, <2>1, <2>2 DEF HandleUpload, history
<1>19. ASSUME NEW r \in flight, HandleRotate(r) PROVE TypeOK'
  <2>1. flight' \subseteq Requests /\ proc' \in [Machine -> Procedures]
    BY <1>19, RequestHeld, IdleIs, AnswerIs DEF HandleRotate
  <2>2. hkWraps' \in [Machine -> Keys] /\ dekWraps' \in [Dek -> Keys] /\ hkVersion' \in Nat
    BY <1>19, RequestHeld, NoKeyIsKey DEF HandleRotate
  <2>3. recovery' \in [phrase : Nat, key : Keys]
    BY <1>19, RequestHeld DEF HandleRotate
  <2>4. known' \in [Machine -> SUBSET Nat] /\ out' \subseteq Machine
    BY <1>19, RequestHeld DEF HandleRotate
  <2>5. cached' \in [Machine -> Keys]
    BY <1>19, RequestHeld DEF HandleRotate
  <2> QED
    BY <1>19, <2>1, <2>2, <2>3, <2>4, <2>5 DEF HandleRotate
<1>20. ASSUME NEW r \in flight, Fails(r) PROVE TypeOK'
  <2>1. flight' \subseteq Requests /\ proc' \in [Machine -> Procedures]
    BY <1>20, RequestHeld, IdleIs, AnswerIs DEF Fails
  <2> QED
    BY <1>20, <2>1 DEF Fails, db, history
<1>21. ASSUME NEW m \in Machine, Stop(m) \/ GiveUp(m) PROVE TypeOK'
  BY <1>21, IdleIs DEF Stop, GiveUp, db, history
<1>22. ASSUME NEW m \in Machine, Restart(m) PROVE TypeOK'
  BY <1>22, IdleIs, NoKeyIsKey DEF Restart, Forget, db, history
<1>23. CASE UNCHANGED vars
  BY <1>23 DEF vars, db, machines, history
<1> QED
  BY <1>1, <1>2, <1>3, <1>4, <1>5, <1>6, <1>7, <1>8, <1>9, <1>10, <1>11, <1>12, <1>13, <1>14,
     <1>15, <1>16, <1>17, <1>18, <1>19, <1>20, <1>21, <1>22, <1>23
     DEF Next, Server, Handle, Daemon, CommandLine

-----------------------------------------------------------------------------
(* The inductive invariant *)

\* A key that the server would accept at its current version is the current key.
Follows(k, rv) ==
  \/ k = NoKey
  \/ /\ rv # NoRecovery
     /\ k.version >= 1 /\ k.version <= rv.key.version
     /\ k.version = rv.key.version => k = rv.key

\* The recovery key is of the server's version from the first activation on, and the
\* wraps are of it; before the first rotation it is the key that its phrase names.
ServerOK ==
  /\ recovery = NoRecovery => hkVersion = 0
  /\ recovery # NoRecovery =>
       /\ recovery.key.version >= 1
       /\ hkVersion = recovery.key.version \/ (hkVersion = 0 /\ recovery.key.version = 1)
       /\ recovery.key.version = 1 => recovery.phrase = recovery.key.hk
  /\ hkVersion # 0 <=> Wrapped # {}
  /\ \A m \in Machine : hkWraps[m] \in {NoKey, recovery.key}
  /\ \A d \in Dek : dekWraps[d] # NoKey => hkVersion # 0 /\ dekWraps[d] = recovery.key
  /\ \A p \in shown : p = recovery.phrase /\ hkVersion # 0

\* Only the key of a first setup, not yet accepted, is not the group's.  A rotation
\* starts from a key; the key of a first setup is of version 1 until it is activated.
ProcOK(m) ==
  /\ proc[m].step = "initing" => proc[m].req.op = "init"
  /\ proc[m].step # "initing" => Follows(proc[m].key, recovery)
  /\ proc[m].step = "self" => proc[m].key.version = 1
  /\ proc[m].step = "activating" => proc[m].req.key.version = 1
  /\ proc[m].step \in {"rewrap", "list"} \/ proc[m].req.op = "revoke" => proc[m].key.version >= 1

\* What a request in flight carries: a rotation counts its sender among the
\* machines that stay.
RequestOK(r) ==
  /\ r.op \in {"activate", "readmit", "dek"} => Follows(r.key, recovery)
  /\ r.op = "activate" => r.key # NoKey
  /\ r.op = "init" => r.key.version = 1
  /\ r.op = "rotate" => r.key.version >= 2 /\ r.by \in r.devices

MachinesOK == \A m \in Machine : Follows(cached[m], recovery) /\ ProcOK(m)
FlightOK == \A r \in flight : RequestOK(r)

\* Keys that more than one party may come to know.
Circulates(n) ==
  \/ n = 0 \/ n = recovery.key.hk
  \/ \E m \in Machine : n = cached[m].hk \/ n = proc[m].key.hk
  \/ \E r \in flight : r.op # "rotate" /\ n = r.key.hk

\* No key exists that was not minted, so that the next one is new to everybody.
MintedOK ==
  /\ recovery.key.hk <= minted
  /\ \A m \in Machine : /\ cached[m].hk <= minted /\ proc[m].key.hk <= minted
                        /\ \A n \in known[m] : n <= minted
  /\ \A r \in flight : r.key.hk <= minted

\* The key of a rotation in flight is with the machine that minted it alone.
Secret(r) ==
  /\ r.key.hk # 0 /\ r.key.hk # recovery.key.hk
  /\ \A m \in Machine : /\ cached[m].hk # r.key.hk /\ proc[m].key.hk # r.key.hk
                        /\ m # r.by => r.key.hk \notin known[m]
  /\ \A s \in flight : s.key.hk = r.key.hk => s = r

SecretsOK == \A r \in flight : r.op = "rotate" => Secret(r)

HeldOK == MachinesOK /\ FlightOK /\ MintedOK /\ SecretsOK

\* A machine that a rotation left out does not know the current key.
OutOK == \A m \in out : recovery # NoRecovery /\ recovery.key.hk \notin known[m]

Formed == ServerOK /\ HeldOK /\ OutOK

\* A key that circulates is minted, and is not that of a rotation in flight.
LEMMA CirculatingKeys ==
  ASSUME TypeOK, HeldOK, NEW n \in Nat, Circulates(n)
  PROVE  n <= minted /\ \A r \in flight : r.op = "rotate" => r.key.hk # n
<1>1. n <= minted
  BY DEF TypeOK, HeldOK, MintedOK, Circulates
<1>2. ASSUME NEW r \in flight, r.op = "rotate", r.key.hk = n PROVE FALSE
  <2>1. Secret(r)
    BY <1>2 DEF HeldOK, SecretsOK
  <2> QED
    BY <1>2, <2>1 DEF Secret, Circulates
<1> QED
  BY <1>1, <1>2

\* A step that replaces no key of the server and lets nothing circulate that did not
\* circulate keeps what is said of the machines and the requests.
LEMMA HeldKeeps ==
  ASSUME TypeOK, TypeOK', HeldOK, recovery' = recovery, minted' = minted,
         \A m \in Machine : cached'[m] = cached[m]
            \/ (Follows(cached'[m], recovery) /\ Circulates(cached'[m].hk)),
         \A m \in Machine : proc'[m] = proc[m] \/ (ProcOK(m)' /\ Circulates(proc'[m].key.hk)),
         \A m \in Machine : \A n \in known'[m] : n \in known[m] \/ Circulates(n),
         \A r \in flight' : r \in flight
            \/ (RequestOK(r) /\ r.op # "rotate" /\ Circulates(r.key.hk))
  PROVE  HeldOK'
<1>1. MachinesOK'
  BY DEF HeldOK, MachinesOK, ProcOK
<1>2. FlightOK'
  BY DEF HeldOK, FlightOK, RequestOK
<1>3. /\ \A m \in Machine : /\ cached'[m].hk \in Nat /\ proc'[m].key.hk \in Nat
                            /\ known'[m] \subseteq Nat
      /\ \A r \in flight' : r.key.hk \in Nat
  BY DEF TypeOK, Keys, Procedures, Requests
<1>4. MintedOK'
  <2>1. \A m \in Machine : cached'[m].hk <= minted /\ proc'[m].key.hk <= minted
    BY <1>3, CirculatingKeys DEF HeldOK, MintedOK
  <2>2. \A m \in Machine : \A n \in known'[m] : n <= minted
    BY <1>3, CirculatingKeys DEF HeldOK, MintedOK
  <2>3. \A r \in flight' : r.key.hk <= minted
    BY <1>3, CirculatingKeys DEF HeldOK, MintedOK
  <2> QED
    BY <2>1, <2>2, <2>3 DEF HeldOK, MintedOK
<1>5. ASSUME NEW r \in flight', r.op = "rotate" PROVE Secret(r)'
  <2>1. r \in flight /\ Secret(r)
    BY <1>5 DEF HeldOK, SecretsOK
  <2>2. \A n \in Nat : Circulates(n) => r.key.hk # n
    BY <1>5, <2>1, CirculatingKeys
  <2>3. \A m \in Machine : cached'[m].hk # r.key.hk /\ proc'[m].key.hk # r.key.hk
    BY <1>3, <2>1, <2>2 DEF Secret
  <2>4. \A m \in Machine : m # r.by => r.key.hk \notin known'[m]
    BY <1>3, <2>1, <2>2 DEF Secret
  <2>5. \A s \in flight' : s.key.hk = r.key.hk => s = r
    BY <1>3, <2>1, <2>2 DEF Secret
  <2> QED
    BY <2>1, <2>3, <2>4, <2>5 DEF Secret
<1>6. SecretsOK'
  BY <1>5 DEF SecretsOK
<1> QED
  BY <1>1, <1>2, <1>4, <1>6 DEF HeldOK

\* What a machine can open follows the recovery key and circulates.
LEMMA OpenKeys ==
  ASSUME TypeOK, ServerOK, MachinesOK, NEW m \in Machine
  PROVE  /\ Follows(NoKey, recovery) /\ Circulates(NoKey.hk) /\ NoKey.version = 0
         /\ Follows(Resolved(m), recovery) /\ Circulates(Resolved(m).hk)
         /\ Follows(RecoverHK, recovery) /\ Circulates(RecoverHK.hk)
         /\ proc[m].step # "initing" => Follows(proc[m].key, recovery)
         /\ Circulates(proc[m].key.hk) /\ Circulates(recovery.key.hk)
<1>1. Follows(NoKey, recovery) /\ NoKey.hk = 0 /\ NoKey.version = 0
  BY DEF Follows, NoKey
<1>2. Follows(recovery.key, recovery)
  BY <1>1, KeysHeld DEF ServerOK, Follows, Keys, NoRecovery
<1>3. Circulates(0) /\ Circulates(recovery.key.hk) /\ Circulates(proc[m].key.hk)
  BY DEF Circulates
<1>4. Resolved(m) \in {cached[m], NoKey, recovery.key}
  BY DEF ServerOK, Resolved, UnwrapHK
<1>5. Follows(Resolved(m), recovery) /\ Circulates(Resolved(m).hk)
  BY <1>1, <1>2, <1>3, <1>4 DEF MachinesOK, Circulates
<1>6. Follows(RecoverHK, recovery) /\ Circulates(RecoverHK.hk)
  BY <1>1, <1>2, <1>3 DEF RecoverHK
<1> QED
  BY <1>1, <1>3, <1>5, <1>6 DEF MachinesOK, ProcOK

LEMMA VersionOfKey ==
  ASSUME NEW k \in Keys, NEW rv, Follows(k, rv), k # NoKey
  PROVE  k.version >= 1
  BY DEF Follows

\* Steps that leave the server's keys alone, and those that let nobody else know the
\* current one.
LEMMA ServerKeeps ==
  ASSUME ServerOK, UNCHANGED <<recovery, hkVersion, hkWraps, dekWraps, shown>>
  PROVE  ServerOK'
  BY DEF ServerOK, Wrapped

LEMMA OutKeeps ==
  ASSUME OutOK, UNCHANGED recovery, out' \subseteq out,
         \A m \in out' : \A n \in known'[m] : n \in known[m] \/ n # recovery.key.hk
  PROVE  OutOK'
  BY DEF OutOK

\* A request that carries a key that its sender can open.
LEMMA SendKeeps ==
  ASSUME TypeOK, TypeOK', HeldOK, NEW m \in Machine, NEW step \in Steps, NEW key \in Keys,
         NEW r \in Requests, Send(m, step, key, r), UNCHANGED <<recovery, minted>>,
         step \notin {"initing", "rewrap", "list"},
         Follows(key, recovery), Circulates(key.hk),
         RequestOK(r), r.op # "rotate", Circulates(r.key.hk),
         step = "self" => key.version = 1,
         step = "activating" => r.key.version = 1,
         r.op = "revoke" => key.version >= 1,
         \A x \in Machine : cached'[x] = cached[x]
            \/ (Follows(cached'[x], recovery) /\ Circulates(cached'[x].hk)),
         \A x \in Machine : \A n \in known'[x] : n \in known[x] \/ Circulates(n)
  PROVE  HeldOK'
<1>1. /\ proc'[m] = [step |-> step, key |-> key, deks |-> {}, req |-> r]
      /\ \A x \in Machine \ {m} : proc'[x] = proc[x]
      /\ flight' = flight \cup {r}
  BY SendIs DEF TypeOK
<1>2. ProcOK(m)'
  BY <1>1 DEF ProcOK
<1>3. \A x \in Machine : proc'[x] = proc[x] \/ (ProcOK(x)' /\ Circulates(proc'[x].key.hk))
  BY <1>1, <1>2
<1> QED
  BY <1>1, <1>3, HeldKeeps

\* An answer after which its sender goes on with a key it had, or with none.
LEMMA AnswerKeeps ==
  ASSUME TypeOK, TypeOK', HeldOK, NEW r \in flight, NEW step \in Steps, NEW key \in Keys,
         NEW next \in Procedures, Answer(r, next), UNCHANGED <<recovery, minted, cached>>,
         next = [step |-> step, key |-> key, deks |-> {}, req |-> NoRequest(r.by)],
         step \notin {"initing", "self", "activating"},
         proc[r.by].req = r =>
            /\ Follows(key, recovery) /\ Circulates(key.hk)
            /\ step \in {"rewrap", "list"} => key.version >= 1,
         \A x \in Machine : \A n \in known'[x] : n \in known[x] \/ Circulates(n)
  PROVE  HeldOK'
<1>1. /\ flight' = flight \ {r}
      /\ \A m \in Machine :
           proc'[m] = proc[m] \/ (m = r.by /\ proc[m].req = r /\ proc'[m] = next)
  BY AnswerIs
<1>2. NoRequest(r.by).op = "none"
  BY RequestHeld, IdleIs
<1>3. ASSUME NEW m \in Machine, proc'[m] # proc[m]
      PROVE  ProcOK(m)' /\ Circulates(proc'[m].key.hk)
  BY <1>1, <1>2, <1>3 DEF ProcOK
<1> QED
  BY <1>1, <1>3, HeldKeeps

\* A request that carries a key minted for it: setup's or a rotation's.
LEMMA MintKeeps ==
  ASSUME TypeOK, TypeOK', HeldOK, NEW me \in Machine, NEW step \in Steps, NEW key \in Keys,
         NEW r \in Requests, Send(me, step, key, r),
         UNCHANGED <<recovery, cached>>, minted' = minted + 1, r.key.hk = minted + 1,
         known' = [known EXCEPT ![me] = @ \cup {r.key.hk}],
         RequestOK(r), r.by = me,
         \/ r.op = "rotate" /\ step = "rotating" /\ key = NoKey
         \/ r.op = "init" /\ step = "initing" /\ key = r.key
  PROVE  HeldOK'
<1>1. /\ proc'[me] = [step |-> step, key |-> key, deks |-> {}, req |-> r]
      /\ \A x \in Machine \ {me} : proc'[x] = proc[x]
      /\ flight' = flight \cup {r}
  BY SendIs DEF TypeOK
<1>2. MachinesOK'
  <2>1. ProcOK(me)'
    BY <1>1 DEF ProcOK, Follows
  <2> QED
    BY <1>1, <2>1 DEF HeldOK, MachinesOK, ProcOK
<1>3. FlightOK'
  BY <1>1 DEF HeldOK, FlightOK, RequestOK
<1>4. /\ minted \in Nat /\ recovery.key.hk \in Nat /\ NoKey.hk = 0
      /\ \A x \in Machine : /\ cached[x].hk \in Nat /\ proc[x].key.hk \in Nat
                            /\ known[x] \subseteq Nat
      /\ \A s \in flight : s.key.hk \in Nat
  BY DEF TypeOK, Keys, Procedures, Requests, NoKey
<1>5. /\ recovery.key.hk <= minted
      /\ \A x \in Machine : /\ cached[x].hk <= minted /\ proc[x].key.hk <= minted
                            /\ \A n \in known[x] : n <= minted
      /\ \A s \in flight : s.key.hk <= minted
  BY DEF HeldOK, MintedOK
<1>6. /\ \A x \in Machine : known'[x] = IF x = me THEN known[x] \cup {minted + 1} ELSE known[x]
      /\ \A x \in Machine : \/ proc'[x].key.hk = proc[x].key.hk
                            \/ proc'[x].key.hk = 0
                            \/ r.op = "init" /\ proc'[x].key.hk = minted + 1
  <2>1. \A x \in Machine : known'[x] = IF x = me THEN known[x] \cup {minted + 1} ELSE known[x]
    BY DEF TypeOK
  <2>2. proc'[me].key.hk = 0 \/ (r.op = "init" /\ proc'[me].key.hk = minted + 1)
    BY <1>1, <1>4
  <2> QED
    BY <1>1, <2>1, <2>2
<1>7. MintedOK'
  BY <1>1, <1>4, <1>5, <1>6 DEF MintedOK
<1>8. ASSUME NEW o \in flight', o.op = "rotate" PROVE Secret(o)'
  <2>1. CASE o = r
    <3>1. o.key.hk = minted + 1 /\ o.by = me /\ r.op # "init"
      BY <1>8, <2>1
    <3>2. \A x \in Machine : cached'[x].hk # o.key.hk
      BY <3>1, <1>4, <1>5
    <3>3. \A x \in Machine : proc'[x].key.hk # o.key.hk
      BY <3>1, <1>4, <1>5, <1>6
    <3>4. \A x \in Machine : x # o.by => o.key.hk \notin known'[x]
      BY <3>1, <1>4, <1>5, <1>6
    <3>5. o.key.hk # 0 /\ o.key.hk # recovery'.key.hk
      BY <2>1, <1>4, <1>5
    <3>6. \A q \in flight' : q.key.hk = o.key.hk => q = o
      BY <2>1, <1>1, <1>4, <1>5
    <3> QED
      BY <3>2, <3>3, <3>4, <3>5, <3>6 DEF Secret
  <2>2. CASE o # r
    <3>1. o \in flight /\ Secret(o)
      BY <2>2, <1>1, <1>8 DEF HeldOK, SecretsOK
    <3>2. o.key.hk # 0 /\ o.key.hk \in Nat /\ o.key.hk <= minted
      BY <3>1, <1>4, <1>5 DEF Secret
    <3>3. \A x \in Machine : cached'[x].hk # o.key.hk /\ proc'[x].key.hk # o.key.hk
      BY <3>1, <3>2, <1>4, <1>6 DEF Secret
    <3>4. \A x \in Machine : x # o.by => o.key.hk \notin known'[x]
      BY <3>1, <3>2, <1>4, <1>6 DEF Secret
    <3>5. \A q \in flight' : q.key.hk = o.key.hk => q = o
      BY <3>1, <1>1, <1>4, <1>5 DEF Secret
    <3> QED
      BY <3>1, <3>3, <3>4, <3>5 DEF Secret
  <2> QED
    BY <2>1, <2>2
<1>9. SecretsOK'
  BY <1>8 DEF SecretsOK
<1> QED
  BY <1>2, <1>3, <1>7, <1>9 DEF HeldOK

LEMMA FormedInit == Init => Formed
<1> SUFFICES ASSUME Init PROVE Formed
  OBVIOUS
<1> USE DEF Init
<1>1. NoKey.hk = 0 /\ NoKey.version = 0 /\ recovery.key = NoKey /\ Follows(NoKey, recovery)
  BY DEF NoKey, NoRecovery, Follows
<1>2. ServerOK
  BY <1>1 DEF ServerOK, Wrapped
<1>3. \A m \in Machine : proc[m].step = "idle" /\ proc[m].key = NoKey /\ proc[m].req.op = "none"
  BY IdleIs
<1>4. MachinesOK
  BY <1>1, <1>3 DEF MachinesOK, ProcOK
<1>5. FlightOK /\ MintedOK /\ SecretsOK /\ OutOK
  BY <1>1, <1>3 DEF FlightOK, MintedOK, SecretsOK, OutOK
<1> QED
  BY <1>2, <1>4, <1>5 DEF Formed, HeldOK

\* Every step keeps it, unless it deletes the last wrap.
LEMMA FormedStep ==
  ASSUME TypeOK, TypeOK', Formed, ~emptied, [Next]_vars, ~emptied'
  PROVE  Formed'
<1>0. ServerOK /\ MachinesOK /\ FlightOK /\ HeldOK /\ OutOK
  BY DEF Formed, HeldOK
<1>24. ASSUME UNCHANGED <<recovery, hkVersion, hkWraps, dekWraps, shown, out, known>>, HeldOK'
      PROVE  Formed'
  BY <1>0, <1>24, ServerKeeps, OutKeeps DEF Formed
<1>25. ASSUME UNCHANGED <<recovery, hkVersion, hkWraps, dekWraps, shown, out, known, minted,
                         flight>>,
             \A m \in Machine : cached'[m] = cached[m] \/ cached'[m] = NoKey,
             \A m \in Machine : proc'[m] = proc[m] \/ proc'[m] = Idle(m)
      PROVE  Formed'
  <2>1. \A m \in Machine : proc'[m] = proc[m] \/ (ProcOK(m)' /\ Circulates(proc'[m].key.hk))
    BY <1>25, <1>0, OpenKeys, IdleIs DEF ProcOK
  <2>2. HeldOK'
    BY <1>25, <2>1, <1>0, OpenKeys, HeldKeeps
  <2> QED
    BY <1>25, <1>24, <2>2
<1>1. ASSUME NEW m \in Machine, NEW t \in Token, MintToken(m, t) \/ RevokeToken(m, t)
      PROVE  Formed'
  BY <1>1, <1>25 DEF MintToken, RevokeToken, machines, history
<1>2. ASSUME NEW t \in Token, Expire(t) PROVE Formed'
  BY <1>2, <1>25 DEF Expire, machines, history
<1>3. ASSUME NEW m \in Machine, NEW x \in Machine, Approve(m, x) PROVE Formed'
  <2> DEFINE r == Activate(m, x, Resolved(m))
  <2>1. r \in Requests /\ r.op = "activate" /\ r.key = Resolved(m)
    BY KeysHeld, RequestIs DEF Activate, Request, Ops
  <2>2. RequestOK(r)
    BY <1>3, <1>0, <2>1, OpenKeys DEF RequestOK, Approve, CanResolve
  <2>3. \A y \in Machine : cached'[y] = cached[y]
            \/ (Follows(cached'[y], recovery) /\ Circulates(cached'[y].hk))
    BY <1>3, <1>0, OpenKeys DEF Approve, Resolve, TypeOK
  <2> HIDE DEF r
  <2>4. /\ Send(m, "approving", NoKey, r)
        /\ UNCHANGED <<recovery, hkVersion, hkWraps, dekWraps, shown, out, known, minted>>
    BY <1>3 DEF Approve, r, db, history
  <2>5. HeldOK'
    BY <1>0, <2>1, <2>2, <2>3, <2>4, OpenKeys, NoKeyIsKey, SendKeeps DEF Steps
  <2> QED
    BY <1>24, <2>4, <2>5
<1>4. ASSUME NEW m \in Machine, NEW x \in Machine, StartRevoke(m, x) PROVE Formed'
  <2> DEFINE r == Revoke(m, x)
  <2>1. r \in Requests /\ r.op = "revoke" /\ r.key = NoKey
    BY NoKeyIsKey, RequestIs DEF Revoke, Request, Ops
  <2>2. RequestOK(r)
    BY <2>1 DEF RequestOK
  <2>3. \A y \in Machine : cached'[y] = cached[y]
            \/ (Follows(cached'[y], recovery) /\ Circulates(cached'[y].hk))
    BY <1>4, <1>0, OpenKeys DEF StartRevoke, Resolve, TypeOK
  <2> HIDE DEF r
  <2>4. /\ Send(m, "revoking", Resolved(m), r) /\ Resolved(m) # NoKey
        /\ UNCHANGED <<recovery, hkVersion, hkWraps, dekWraps, shown, out, known, minted>>
    BY <1>4 DEF StartRevoke, CanResolve, r, db, history
  <2>5. Resolved(m) \in Keys /\ Resolved(m).version >= 1
    BY <1>0, <2>4, KeysHeld, OpenKeys, VersionOfKey
  <2>6. HeldOK'
    BY <1>0, <2>1, <2>2, <2>3, <2>4, <2>5, OpenKeys, SendKeeps DEF Steps
  <2> QED
    BY <1>24, <2>4, <2>6
<1>5. ASSUME NEW m \in Machine, ReWrap(m) PROVE Formed'
  <2>1. /\ UNCHANGED <<recovery, hkVersion, hkWraps, dekWraps, shown, out, known, minted, flight,
                       cached>>
        /\ proc[m].step = "rewrap"
        /\ \A x \in Machine \ {m} : proc'[x] = proc[x]
        /\ proc'[m].step = "list" /\ proc'[m].key = proc[m].key /\ proc'[m].req = proc[m].req
    BY <1>5, KeysHeld DEF ReWrap, TypeOK, Procedures, db, history
  <2>2. ProcOK(m)
    BY <1>0 DEF MachinesOK
  <2>3. ProcOK(m)' /\ Circulates(proc'[m].key.hk)
    BY <1>0, <2>1, <2>2, OpenKeys DEF ProcOK
  <2>4. HeldOK'
    BY <1>0, <2>1, <2>3, HeldKeeps
  <2> QED
    BY <1>24, <2>1, <2>4
<1>6. ASSUME NEW m \in Machine, SendRotate(m) PROVE Formed'
  <2> DEFINE new == Fresh(proc[m].key.version + 1)
             r == Rotate(m, new, Active, proc[m].deks)
  <2>1. proc[m].step = "list" /\ MaySign(m)
    BY <1>6 DEF SendRotate
  <2>2. proc[m].key.version >= 1
    BY <1>0, <2>1 DEF MachinesOK, ProcOK
  <2>3. new \in Keys /\ new.hk = minted + 1 /\ new.version = proc[m].key.version + 1
    BY KeysHeld, FreshIs
  <2> HIDE DEF new
  <2>4. /\ r \in Requests /\ r.op = "rotate" /\ r.key = new /\ r.by = m /\ r.devices = Active
    BY <2>3, KeysHeld, RequestIs DEF Rotate, Request, Ops, Active
  <2>5. RequestOK(r)
    BY <2>1, <2>2, <2>3, <2>4, KeysHeld DEF RequestOK, Active, MaySign
  <2> HIDE DEF r
  <2>6. /\ Send(m, "rotating", NoKey, r)
        /\ UNCHANGED <<recovery, hkVersion, hkWraps, dekWraps, shown, out, cached>>
        /\ minted' = new.hk /\ known' = [known EXCEPT ![m] = @ \cup {new.hk}]
    BY <1>6 DEF SendRotate, db, new, r
  <2>7. HeldOK'
    BY <1>0, <2>3, <2>4, <2>5, <2>6, NoKeyIsKey, MintKeeps DEF Steps
  <2>8. OutOK'
    <3>1. minted + 1 # recovery.key.hk
      BY <1>0 DEF HeldOK, MintedOK, TypeOK, Keys
    <3> QED
      BY <1>0, <2>3, <2>6, <3>1, OutKeeps DEF TypeOK
  <2> QED
    BY <1>0, <2>6, <2>7, <2>8, ServerKeeps DEF Formed
<1>7. ASSUME NEW m \in Machine, NEW d \in Dek, SendUpload(m, d) PROVE Formed'
  <2> DEFINE r == Upload(m, d, Resolved(m))
  <2>1. r \in Requests /\ r.op = "dek" /\ r.key = Resolved(m)
    BY KeysHeld, RequestIs DEF Upload, Request, Ops
  <2>2. RequestOK(r)
    BY <1>0, <2>1, OpenKeys DEF RequestOK
  <2>3. \A y \in Machine : cached'[y] = cached[y]
            \/ (Follows(cached'[y], recovery) /\ Circulates(cached'[y].hk))
    BY <1>7, <1>0, OpenKeys DEF SendUpload, Resolve, TypeOK
  <2> HIDE DEF r
  <2>4. /\ Send(m, "uploading", NoKey, r)
        /\ UNCHANGED <<recovery, hkVersion, hkWraps, dekWraps, shown, out, known, minted>>
    BY <1>7 DEF SendUpload, r, db, history
  <2>5. HeldOK'
    BY <1>0, <2>1, <2>2, <2>3, <2>4, OpenKeys, NoKeyIsKey, SendKeeps DEF Steps
  <2> QED
    BY <1>24, <2>4, <2>5
<1>8. ASSUME NEW m \in Machine, NEW t \in Token \cup {Boot}, Setup(m, t) PROVE Formed'
  <2> DEFINE r == Register(m, t)
  <2>1. r \in Requests /\ r.op = "register" /\ r.key = NoKey
    BY NoKeyIsKey, RequestIs DEF Register, Request, Ops
  <2>2. RequestOK(r)
    BY <2>1 DEF RequestOK
  <2>3. \A y \in Machine : cached'[y] = cached[y] \/ cached'[y] = NoKey
    BY <1>8 DEF Setup, Forget, TypeOK
  <2> HIDE DEF r
  <2>4. /\ Send(m, "registering", NoKey, r)
        /\ UNCHANGED <<recovery, hkVersion, hkWraps, dekWraps, shown, out, known, minted>>
    BY <1>8 DEF Setup, r, db, history
  <2>5. HeldOK'
    BY <1>0, <2>1, <2>2, <2>3, <2>4, OpenKeys, NoKeyIsKey, SendKeeps DEF Steps
  <2> QED
    BY <1>24, <2>4, <2>5
<1>9. ASSUME NEW m \in Machine, Bootstrap(m) PROVE Formed'
  <2> DEFINE new == Fresh(1)
             r == InitRecovery(m, new)
  <2>1. new \in Keys /\ new.hk = minted + 1 /\ new.version = 1
    BY FreshIs
  <2> HIDE DEF new
  <2>2. r \in Requests /\ r.op = "init" /\ r.key = new /\ r.by = m
    BY <2>1, RequestIs DEF InitRecovery, Request, Ops
  <2>3. RequestOK(r)
    BY <2>1, <2>2 DEF RequestOK
  <2> HIDE DEF r
  <2>4. /\ Send(m, "initing", new, r)
        /\ UNCHANGED <<recovery, hkVersion, hkWraps, dekWraps, shown, out, cached>>
        /\ minted' = new.hk /\ known' = [known EXCEPT ![m] = @ \cup {new.hk}]
    BY <1>9 DEF Bootstrap, db, new, r
  <2>5. HeldOK'
    BY <1>0, <2>1, <2>2, <2>3, <2>4, MintKeeps DEF Steps
  <2>6. OutOK'
    <3>1. minted + 1 # recovery.key.hk
      BY <1>0 DEF HeldOK, MintedOK, TypeOK, Keys
    <3> QED
      BY <1>0, <2>1, <2>4, <3>1, OutKeeps DEF TypeOK
  <2> QED
    BY <1>0, <2>4, <2>5, <2>6, ServerKeeps DEF Formed
<1>10. ASSUME NEW m \in Machine, SelfActivate(m) PROVE Formed'
  <2> DEFINE r == Activate(m, m, proc[m].key)
  <2>1. r \in Requests /\ r.op = "activate" /\ r.key = proc[m].key
    BY KeysHeld, RequestIs DEF Activate, Request, Ops
  <2>2. proc[m].key.version = 1 /\ Follows(proc[m].key, recovery)
    BY <1>0, <1>10 DEF SelfActivate, MachinesOK, ProcOK
  <2>3. RequestOK(r)
    BY <1>0, <2>1, <2>2, OpenKeys DEF RequestOK
  <2> HIDE DEF r
  <2>4. /\ Send(m, "activating", proc[m].key, r) /\ UNCHANGED cached
        /\ UNCHANGED <<recovery, hkVersion, hkWraps, dekWraps, shown, out, known, minted>>
    BY <1>10 DEF SelfActivate, r, db, history
  <2>5. HeldOK'
    BY <1>0, <2>1, <2>2, <2>3, <2>4, OpenKeys, KeysHeld, SendKeeps DEF Steps
  <2> QED
    BY <1>24, <2>4, <2>5
<1>11. ASSUME NEW m \in Machine, NEW t \in Token, Recover(m, t) PROVE Formed'
  <2> DEFINE r == Register(m, t)
  <2>1. r \in Requests /\ r.op = "register" /\ r.key = NoKey
    BY NoKeyIsKey, RequestIs DEF Register, Request, Ops
  <2>2. RequestOK(r)
    BY <2>1 DEF RequestOK
  <2>3. \A y \in Machine : cached'[y] = cached[y] \/ cached'[y] = NoKey
    BY <1>11 DEF Recover, Forget, TypeOK
  <2>4. /\ \A y \in Machine : \A n \in known'[y] : n \in known[y] \/ n = recovery.key.hk
        /\ \A y \in Machine \ {m} : known'[y] = known[y]
        /\ out' = out \ {m}
    BY <1>11 DEF Recover, TypeOK
  <2> HIDE DEF r
  <2>5. /\ Send(m, "returning", RecoverHK, r)
        /\ UNCHANGED <<recovery, hkVersion, hkWraps, dekWraps, shown, minted>>
    BY <1>11 DEF Recover, r
  <2>6. HeldOK'
    BY <1>0, <2>1, <2>2, <2>3, <2>4, <2>5, OpenKeys, KeysHeld, SendKeeps DEF Steps
  <2>7. OutOK'
    BY <1>0, <2>4, <2>5, OutKeeps DEF TypeOK
  <2> QED
    BY <1>0, <2>5, <2>6, <2>7, ServerKeeps DEF Formed
<1>12. ASSUME NEW m \in Machine, SendReadmit(m) PROVE Formed'
  <2> DEFINE r == Readmit(m, proc[m].key)
  <2>1. r \in Requests /\ r.op = "readmit" /\ r.key = proc[m].key
    BY KeysHeld, RequestIs DEF Readmit, Request, Ops
  <2>2. Follows(proc[m].key, recovery)
    BY <1>0, <1>12 DEF SendReadmit, MachinesOK, ProcOK
  <2>3. RequestOK(r)
    BY <2>1, <2>2 DEF RequestOK
  <2> HIDE DEF r
  <2>4. /\ Send(m, "readmitting", proc[m].key, r) /\ UNCHANGED cached
        /\ UNCHANGED <<recovery, hkVersion, hkWraps, dekWraps, shown, out, known, minted>>
    BY <1>12 DEF SendReadmit, r, db, history
  <2>5. HeldOK'
    BY <1>0, <2>1, <2>2, <2>3, <2>4, OpenKeys, KeysHeld, SendKeeps DEF Steps
  <2> QED
    BY <1>24, <2>4, <2>5
<1>13. ASSUME NEW r \in flight, HandleRegister(r) PROVE Formed'
  <2> DEFINE step == IF proc[r.by].step = "returning" THEN "readmit"
                     ELSE IF r.token = Boot THEN "form" ELSE "idle"
             key == IF proc[r.by].step = "returning" THEN proc[r.by].key ELSE NoKey
             next == [step |-> step, key |-> key, deks |-> {}, req |-> NoRequest(r.by)]
  <2>1. r.by \in Machine /\ key \in Keys /\ step \in {"readmit", "form", "idle"}
    BY RequestHeld, KeysHeld, NoKeyIsKey
  <2>2. next \in Procedures
    BY <2>1, IdleIs DEF Procedures, Steps
  <2>3. next = IF proc[r.by].step = "returning" THEN At(r.by, "readmit", proc[r.by].key)
               ELSE IF r.token = Boot THEN At(r.by, "form", NoKey) ELSE Idle(r.by)
    BY <2>1, KeysHeld, NoKeyIsKey, AtIs, IdleIs DEF Steps
  <2>4. Answer(r, next)
    BY <1>13, <2>3 DEF HandleRegister
  <2>5. Follows(key, recovery) /\ Circulates(key.hk)
    BY <1>0, <2>1, OpenKeys
  <2> HIDE DEF step, key
  <2>6. UNCHANGED <<recovery, hkVersion, hkWraps, dekWraps, shown, out, known, minted, cached>>
    BY <1>13 DEF HandleRegister
  <2>7. HeldOK'
    BY <1>0, <2>1, <2>2, <2>4, <2>5, <2>6, AnswerKeeps DEF Steps
  <2> QED
    BY <1>24, <2>6, <2>7
<1>14. ASSUME NEW r \in flight, HandleInitRecovery(r) PROVE Formed'
  <2>1. r.by \in Machine /\ RequestOK(r) /\ r.key \in Keys
    BY <1>0, RequestHeld DEF FlightOK
  <2>2. /\ recovery = NoRecovery /\ recovery' = [phrase |-> r.key.hk, key |-> r.key]
        /\ Answer(r, At(r.by, "self", r.key)) /\ r.op = "init"
        /\ UNCHANGED <<hkVersion, hkWraps, dekWraps, shown, out, known, minted, cached>>
    BY <1>14 DEF HandleInitRecovery, RecoveryFree, history
  <2>3. /\ r.key.version = 1 /\ recovery' # NoRecovery
        /\ recovery'.key = r.key /\ recovery'.phrase = r.key.hk
    BY <2>1, <2>2 DEF RequestOK, NoRecovery, NoKey
  <2>4. At(r.by, "self", r.key)
          = [step |-> "self", key |-> r.key, deks |-> {}, req |-> NoRequest(r.by)]
    BY <2>1, AtIs DEF Steps
  <2>5. /\ flight' = flight \ {r}
        /\ \A m \in Machine : \/ proc'[m] = proc[m]
                              \/ m = r.by /\ proc'[m] = At(r.by, "self", r.key)
    BY <2>1, <2>2, AnswerIs, AtIs DEF Steps
  <2>6. ServerOK'
    <3>1. hkVersion = 0 /\ Wrapped = {} /\ shown = {} /\ \A d \in Dek : dekWraps[d] = NoKey
      BY <1>0, <2>2 DEF ServerOK
    <3>2. Wrapped' = {} /\ \A m \in Machine : hkWraps'[m] = NoKey
      BY <2>2, <3>1 DEF Wrapped
    <3> QED
      BY <2>2, <2>3, <3>1, <3>2 DEF ServerOK
  <2>7. \A k \in Keys : Follows(k, recovery) => Follows(k, recovery')
    BY <2>2 DEF Follows
  <2>8. MachinesOK'
    <3>1. Follows(r.key, recovery') /\ NoRequest(r.by).op = "none"
      BY <2>1, <2>3, IdleIs DEF Follows
    <3>2. ASSUME NEW m \in Machine PROVE ProcOK(m)'
      <4>1. CASE proc'[m] = proc[m]
        BY <1>0, <2>7, <4>1, KeysHeld DEF MachinesOK, ProcOK
      <4>2. CASE m = r.by /\ proc'[m] = At(r.by, "self", r.key)
        BY <2>3, <2>4, <3>1, <4>2 DEF ProcOK
      <4> QED
        BY <2>5, <4>1, <4>2
    <3> QED
      BY <1>0, <2>2, <2>7, <3>2, KeysHeld DEF MachinesOK
  <2>9. FlightOK'
    BY <1>0, <2>5, <2>7, RequestHeld DEF FlightOK, RequestOK
  <2>10. MintedOK'
    BY <1>0, <2>2, <2>3, <2>4, <2>5 DEF HeldOK, MintedOK
  <2>11. SecretsOK'
    BY <1>0, <2>2, <2>3, <2>4, <2>5 DEF HeldOK, SecretsOK, Secret
  <2>12. OutOK'
    BY <1>0, <2>2 DEF OutOK
  <2> QED
    BY <2>6, <2>8, <2>9, <2>10, <2>11, <2>12 DEF Formed, HeldOK
<1>15. ASSUME NEW r \in flight, HandleActivate(r) PROVE Formed'
  <2>1. r.by \in Machine /\ r.target \in Machine /\ RequestOK(r) /\ r.key \in Keys
    BY <1>0, RequestHeld DEF FlightOK
  <2>2. Follows(r.key, recovery) /\ r.key # NoKey /\ r.op = "activate"
    BY <1>15, <2>1 DEF HandleActivate, RequestOK
  <2>3. /\ UNCHANGED <<recovery, dekWraps, minted, cached>>
        /\ Answer(r, Idle(r.by)) /\ hkVersion' = r.key.version
        /\ hkWraps' = [hkWraps EXCEPT ![r.target] = r.key]
        /\ out' = out \ {r.target}
        /\ shown' = shown \cup Printed(r)
        /\ known' = [known EXCEPT ![r.target] = @ \cup {r.key.hk}]
        /\ PinsVersion(r)
    BY <1>15 DEF HandleActivate
  \* Whether the group is formed or is being formed, the key is the recovery key.
  <2>4. recovery # NoRecovery /\ r.key = recovery.key /\ r.key.version >= 1
    BY <1>0, <2>1, <2>2, <2>3, KeysHeld DEF ServerOK, Follows, PinsVersion, Keys
  <2>5. ServerOK'
    <3>1. \A p \in shown' : p = recovery.phrase
      <4>1. ASSUME proc[r.by].req = r, proc[r.by].step = "activating"
            PROVE  r.key.hk = recovery.phrase
        BY <1>0, <2>1, <2>4, <4>1 DEF MachinesOK, ProcOK, ServerOK
      <4> QED
        BY <1>0, <2>3, <4>1 DEF Printed, ServerOK
    <3>2. Wrapped' # {} /\ \A m \in Machine : hkWraps'[m] \in {NoKey, recovery.key}
      BY <1>0, <2>1, <2>2, <2>3, <2>4 DEF ServerOK, Wrapped, TypeOK
    <3> QED
      BY <1>0, <2>3, <2>4, <3>1, <3>2, RequestHeld DEF ServerOK
  <2>6. /\ \A y \in Machine : \A n \in known'[y] : n \in known[y] \/ n = recovery.key.hk
        /\ \A y \in Machine \ {r.target} : known'[y] = known[y]
    BY <2>1, <2>3, <2>4 DEF TypeOK
  <2>7. HeldOK'
    BY <1>0, <2>1, <2>3, <2>6, OpenKeys, NoKeyIsKey, IdleIs, AnswerKeeps DEF Steps
  <2>8. OutOK'
    BY <1>0, <2>3, <2>6, OutKeeps DEF TypeOK
  <2> QED
    BY <2>5, <2>7, <2>8 DEF Formed
<1>16. ASSUME NEW r \in flight, HandleReadmit(r) PROVE Formed'
  <2>1. r.by \in Machine /\ RequestOK(r) /\ r.key \in Keys
    BY <1>0, RequestHeld DEF FlightOK
  <2>2. Follows(r.key, recovery)
    BY <1>16, <2>1 DEF HandleReadmit, RequestOK
  <2>3. /\ UNCHANGED <<recovery, hkVersion, dekWraps, shown, minted, cached>>
        /\ Answer(r, Idle(r.by)) /\ r.key.version = hkVersion
        /\ hkWraps' = [hkWraps EXCEPT ![r.by] = r.key]
        /\ out' = out \ {r.by}
        /\ known' = [known EXCEPT ![r.by] = @ \cup {r.key.hk}]
    BY <1>16 DEF HandleReadmit
  <2>4. r.key \in {NoKey, recovery.key} /\ (hkVersion = 0 <=> r.key = NoKey)
    BY <1>0, <2>1, <2>2, <2>3, KeysHeld DEF ServerOK, Follows, NoKey, Keys
  <2>5. ServerOK'
    <3>1. \A m \in Machine : hkWraps'[m] \in {NoKey, recovery.key}
      BY <1>0, <2>1, <2>3, <2>4 DEF ServerOK, TypeOK
    <3>2. hkVersion # 0 <=> Wrapped' # {}
      BY <1>0, <2>1, <2>3, <2>4 DEF ServerOK, Wrapped, TypeOK
    <3> QED
      BY <1>0, <2>3, <3>1, <3>2 DEF ServerOK
  <2>6. /\ \A y \in Machine : \A n \in known'[y] : n \in known[y] \/ Circulates(n)
        /\ \A y \in Machine \ {r.by} : known'[y] = known[y]
    BY <1>0, <2>1, <2>3, <2>4, OpenKeys DEF TypeOK
  <2>7. HeldOK'
    BY <1>0, <2>1, <2>3, <2>6, OpenKeys, NoKeyIsKey, IdleIs, AnswerKeeps DEF Steps
  <2>8. OutOK'
    BY <1>0, <2>3, <2>6, OutKeeps DEF TypeOK
  <2> QED
    BY <2>5, <2>7, <2>8 DEF Formed
<1>17. ASSUME NEW r \in flight, HandleRevoke(r) PROVE Formed'
  <2>1. r.by \in Machine /\ r.target \in Machine /\ proc[r.by].key \in Keys
    BY RequestHeld, KeysHeld
  <2>2. /\ UNCHANGED <<recovery, hkVersion, dekWraps, shown, out, known, minted, cached>>
        /\ Answer(r, At(r.by, "rewrap", proc[r.by].key)) /\ r.op = "revoke"
        /\ hkWraps' = [hkWraps EXCEPT ![r.target] = NoKey]
        /\ Wrapped # {r.target}
    BY <1>17 DEF HandleRevoke
  <2>3. ServerOK'
    <3>1. \A m \in Machine : hkWraps'[m] \in {NoKey, recovery.key}
      BY <1>0, <2>2 DEF ServerOK, TypeOK
    <3>2. Wrapped' = Wrapped \ {r.target}
      BY <2>1, <2>2 DEF Wrapped, TypeOK
    <3>3. Wrapped' # {} <=> Wrapped # {}
      BY <2>2, <3>2
    <3> QED
      BY <1>0, <2>2, <3>1, <3>3 DEF ServerOK
  <2>4. proc[r.by].req = r => /\ Follows(proc[r.by].key, recovery) /\ Circulates(proc[r.by].key.hk)
                              /\ proc[r.by].key.version >= 1
    BY <1>0, <2>1, <2>2, OpenKeys DEF MachinesOK, ProcOK
  <2>5. HeldOK'
    BY <1>0, <2>1, <2>2, <2>4, AtIs, AnswerKeeps DEF Steps
  <2>6. OutOK'
    BY <1>0, <2>2, OutKeeps
  <2> QED
    BY <2>3, <2>5, <2>6 DEF Formed
<1>18. ASSUME NEW r \in flight, HandleUpload(r) PROVE Formed'
  <2>1. r.by \in Machine /\ RequestOK(r) /\ r.key \in Keys
    BY <1>0, RequestHeld DEF FlightOK
  <2>2. /\ UNCHANGED <<recovery, hkVersion, hkWraps, shown, out, known, minted, cached>>
        /\ Answer(r, Idle(r.by)) /\ r.key.version = hkVersion /\ r.op = "dek"
        /\ \A d \in Dek : dekWraps'[d] \in {r.key, dekWraps[d]}
    BY <1>18 DEF HandleUpload, history
  <2>3. r.key # NoKey => hkVersion # 0 /\ r.key = recovery.key
    BY <1>0, <2>1, <2>2, KeysHeld DEF RequestOK, ServerOK, Follows, Keys
  <2>4. ServerOK'
    <3>1. \A d \in Dek : dekWraps'[d] # NoKey => hkVersion # 0 /\ dekWraps'[d] = recovery.key
      BY <1>0, <2>2, <2>3 DEF ServerOK
    <3> QED
      BY <1>0, <2>2, <3>1 DEF ServerOK, Wrapped
  <2>5. HeldOK'
    BY <1>0, <2>1, <2>2, OpenKeys, NoKeyIsKey, IdleIs, AnswerKeeps DEF Steps
  <2>6. OutOK'
    BY <1>0, <2>2, OutKeeps
  <2> QED
    BY <2>4, <2>5, <2>6 DEF Formed
<1>19. ASSUME NEW r \in flight, HandleRotate(r) PROVE Formed'
  <2>1. /\ r.by \in Machine /\ RequestOK(r) /\ r.key \in Keys /\ r.key.version \in Nat
        /\ r.devices \subseteq Machine
    BY <1>0, RequestHeld DEF FlightOK
  <2>2. /\ r.op = "rotate" /\ r.key.version = hkVersion + 1 /\ hkVersion' = r.key.version
        /\ r.devices \subseteq Active /\ recovery # NoRecovery
        /\ hkWraps' = [m \in Machine |-> IF m \in r.devices THEN r.key ELSE NoKey]
        /\ dekWraps' = [d \in Dek |-> IF d \in Stored THEN r.key ELSE NoKey]
        /\ recovery' = [recovery EXCEPT !.key = r.key]
        /\ known' = [m \in Machine |->
                       IF m \in r.devices THEN known[m] \cup {r.key.hk} ELSE known[m]]
        /\ out' = Machine \ Active
        /\ cached' = IF proc[r.by].req = r THEN [cached EXCEPT ![r.by] = r.key] ELSE cached
        /\ Answer(r, Idle(r.by)) /\ UNCHANGED <<minted, shown>>
    BY <1>19 DEF HandleRotate, Survives
  <2>3. r.key.version >= 2 /\ r.by \in r.devices /\ Secret(r)
    BY <1>0, <2>1, <2>2 DEF RequestOK, HeldOK, SecretsOK
  <2>4. /\ recovery'.key = r.key /\ recovery'.phrase = recovery.phrase
        /\ recovery' # NoRecovery /\ r.key # NoKey
    BY <2>2, <2>3 DEF TypeOK, NoRecovery, NoKey
  <2>5. recovery.key.version = hkVersion /\ hkVersion \in Nat
    BY <1>0, <2>2, <2>3 DEF ServerOK, TypeOK
  <2>6. /\ flight' = flight \ {r}
        /\ \A m \in Machine : proc'[m] = proc[m] \/ proc'[m] = Idle(m)
        /\ \A m \in Machine : cached'[m] = cached[m] \/ cached'[m] = r.key
    BY <2>1, <2>2, AnswerIs, IdleIs DEF TypeOK
  <2>7. /\ \A m \in Machine : /\ Idle(m).key = NoKey /\ Idle(m).step = "idle"
                            /\ Idle(m).req.op = "none"
        /\ NoKey.hk = 0
    BY IdleIs DEF NoKey
  <2>8. ServerOK'
    <3>1. r.by \in Wrapped'
      BY <2>1, <2>2, <2>3, <2>4 DEF Wrapped
    <3>2. /\ \A m \in Machine : hkWraps'[m] \in {NoKey, r.key}
          /\ \A d \in Dek : dekWraps'[d] \in {NoKey, r.key}
      BY <2>2
    <3>3. \A p \in shown : p = recovery.phrase
      BY <1>0 DEF ServerOK
    <3> QED
      BY <2>1, <2>2, <2>3, <2>4, <3>1, <3>2, <3>3 DEF ServerOK
  \* Every key that was of the current version is now of an older one.
  <2>9. \A k \in Keys : Follows(k, recovery) => Follows(k, recovery')
    <3> SUFFICES ASSUME NEW k \in Keys, Follows(k, recovery), k # NoKey
                 PROVE  Follows(k, recovery')
      BY DEF Follows
    <3>1. k.version >= 1 /\ k.version <= hkVersion /\ k.version \in Nat
      BY <2>5 DEF Follows, Keys
    <3> QED
      BY <2>1, <2>2, <2>4, <2>5, <3>1 DEF Follows
  <2>10. MachinesOK'
    <3>1. Follows(r.key, recovery') /\ Follows(NoKey, recovery')
      BY <2>1, <2>3, <2>4 DEF Follows
    <3>2. ASSUME NEW m \in Machine PROVE ProcOK(m)'
      <4>1. CASE proc'[m] = proc[m]
        BY <1>0, <2>9, <4>1, KeysHeld DEF MachinesOK, ProcOK
      <4>2. CASE proc'[m] = Idle(m)
        BY <2>7, <3>1, <4>2 DEF ProcOK
      <4> QED
        BY <2>6, <4>1, <4>2
    <3>3. \A m \in Machine : Follows(cached'[m], recovery')
      BY <1>0, <2>6, <2>9, <3>1, KeysHeld DEF MachinesOK
    <3> QED
      BY <3>2, <3>3 DEF MachinesOK
  <2>11. FlightOK'
    BY <1>0, <2>6, <2>9, RequestHeld DEF FlightOK, RequestOK
  <2>12. r.key.hk <= minted /\ minted \in Nat
    BY <1>0 DEF HeldOK, MintedOK, TypeOK
  <2>13. MintedOK'
    <3>1. \A m \in Machine : cached'[m].hk <= minted /\ proc'[m].key.hk <= minted
      BY <1>0, <2>6, <2>7, <2>12 DEF HeldOK, MintedOK
    <3>2. \A m \in Machine : \A n \in known'[m] : n <= minted
      BY <1>0, <2>2, <2>12 DEF HeldOK, MintedOK
    <3> QED
      BY <1>0, <2>2, <2>4, <2>6, <2>12, <3>1, <3>2 DEF HeldOK, MintedOK
  <2>14. ASSUME NEW s \in flight', s.op = "rotate" PROVE Secret(s)'
    <3>1. s \in flight /\ s # r /\ Secret(s) /\ s.key.hk # r.key.hk
      BY <1>0, <2>6, <2>14 DEF HeldOK, SecretsOK, Secret
    <3>2. \A m \in Machine : cached'[m].hk # s.key.hk /\ proc'[m].key.hk # s.key.hk
      BY <2>6, <2>7, <3>1 DEF Secret
    <3>3. \A m \in Machine : m # s.by => s.key.hk \notin known'[m]
      BY <2>2, <3>1 DEF Secret
    <3> QED
      BY <2>4, <2>6, <3>1, <3>2, <3>3 DEF Secret
  <2>15. OutOK'
    BY <2>1, <2>2, <2>3, <2>4 DEF OutOK, Secret
  <2> QED
    BY <2>8, <2>10, <2>11, <2>13, <2>14, <2>15 DEF Formed, HeldOK, SecretsOK
<1>20. ASSUME NEW r \in flight, Fails(r) PROVE Formed'
  <2>1. r.by \in Machine
    BY RequestHeld
  <2>2. /\ UNCHANGED <<recovery, hkVersion, hkWraps, dekWraps, shown, out, known, minted, cached>>
        /\ Answer(r, Idle(r.by))
    BY <1>20 DEF Fails, db, history
  <2>3. HeldOK'
    BY <1>0, <2>1, <2>2, OpenKeys, NoKeyIsKey, IdleIs, AnswerKeeps DEF Steps
  <2> QED
    BY <1>24, <2>2, <2>3
<1>21. ASSUME NEW m \in Machine, Stop(m) \/ GiveUp(m) PROVE Formed'
  BY <1>21, <1>25 DEF Stop, GiveUp, db, history, TypeOK
<1>22. ASSUME NEW m \in Machine, Restart(m) PROVE Formed'
  BY <1>22, <1>25 DEF Restart, Forget, db, history, TypeOK
<1>23. CASE UNCHANGED vars
  BY <1>23, <1>25 DEF vars, db, machines, history
<1> QED
  BY <1>1, <1>2, <1>3, <1>4, <1>5, <1>6, <1>7, <1>8, <1>9, <1>10, <1>11, <1>12, <1>13, <1>14,
     <1>15, <1>16, <1>17, <1>18, <1>19, <1>20, <1>21, <1>22, <1>23
     DEF Next, Server, Handle, Daemon, CommandLine

-----------------------------------------------------------------------------
(* The theorems *)

\* Once the last wrap is deleted nothing is promised any more.
GroupInv == TypeOK /\ (~emptied => Formed)

LEMMA GroupInit == Init => GroupInv
  BY TypesInit, FormedInit DEF GroupInv

LEMMA GroupStep == GroupInv /\ [Next]_vars => GroupInv'
<1> SUFFICES ASSUME GroupInv, [Next]_vars PROVE GroupInv'
  OBVIOUS
<1>1. TypeOK /\ TypeOK'
  BY TypesStep DEF GroupInv
<1>2. emptied => emptied'
  <2>1. ASSUME NEW r \in flight, Handle(r) \/ Fails(r) PROVE emptied => emptied'
    BY <2>1 DEF Handle, Fails, history, HandleRegister, HandleInitRecovery, HandleActivate,
                HandleReadmit, HandleRevoke, HandleUpload, HandleRotate
  <2>2. ASSUME NEW m \in Machine, Daemon(m) PROVE emptied => emptied'
    BY <2>2 DEF Daemon, history, MintToken, RevokeToken, Approve, StartRevoke, ReWrap, SendRotate,
                SendUpload, Stop, GiveUp, Restart
  <2>3. ASSUME NEW m \in Machine, CommandLine(m) PROVE emptied => emptied'
    BY <2>3 DEF CommandLine, history, Setup, Bootstrap, SelfActivate, Recover, SendReadmit
  <2>4. ASSUME NEW t \in Token, Expire(t) PROVE emptied => emptied'
    BY <2>4 DEF Expire, history
  <2> QED
    BY <2>1, <2>2, <2>3, <2>4 DEF Next, Server, vars, history
<1> QED
  BY <1>1, <1>2, FormedStep DEF GroupInv

\* Whatever is lost, dies or is refused, the tables of the server and the machines'
\* keys, requests and procedures stay well formed (server/handlers.go, syncer/enroll.go).
THEOREM EnrolmentTypes == Spec => []TypeOK
<1> QED
  BY TypesInit, TypesStep, PTL DEF Spec

LEMMA Always == Spec => []GroupInv
  BY GroupInit, GroupStep, PTL DEF Spec

\* Setup, approve, revoke, recover and uploads of any number of machines, in any order
\* and with requests that take effect after their sender gave up: comparing versions
\* is enough for the server to store wraps of one key (handleActivate, handlePostDEK,
\* handleRotate), as long as it stores any.
THEOREM GroupHasOneKey == Spec => []OneGroupKey
<1>1. GroupInv => OneGroupKey
  <2> SUFFICES ASSUME GroupInv, ~emptied PROVE OneGroupKey
    BY DEF OneGroupKey
  <2>1. ServerOK
    BY DEF GroupInv, Formed
  <2>2. hkVersion # 0 => recovery.key = Current
    BY <2>1, KeysHeld DEF ServerOK, Current, Keys, TypeOK, GroupInv
  <2>3. hkVersion = 0 => \A m \in Machine : hkWraps[m] = NoKey
    BY <2>1 DEF ServerOK, Wrapped
  <2> QED
    BY <2>1, <2>2, <2>3 DEF ServerOK, OneGroupKey
<1> QED
  BY <1>1, Always, PTL

\* A rotation (Syncer.Revoke, handleRotate) leaves a machine that it was not for without the
\* current key, until somebody lets it in or its user has the recovery phrase.
THEOREM RotationLocksOut == Spec => []OutsidersLockedOut
<1>1. GroupInv => OutsidersLockedOut
  BY DEF GroupInv, Formed, OutOK, OutsidersLockedOut
<1> QED
  BY <1>1, Always, PTL

\* The phrase that setup printed opens the current key after any rotations: a recovery
\* key is written once and each rotation replaces its wrap (handleInitRecovery,
\* handleRotate).
THEOREM PhraseIsKept == Spec => []PhraseOpens
<1>1. GroupInv => PhraseOpens
  <2> SUFFICES ASSUME GroupInv, ~emptied, NEW p \in shown
               PROVE  recovery = [phrase |-> p, key |-> Current]
    BY DEF PhraseOpens
  <2>1. ServerOK /\ TypeOK
    BY DEF GroupInv, Formed
  <2>2. p = recovery.phrase /\ recovery.key.version = hkVersion
    BY <2>1 DEF ServerOK
  <2>3. recovery.key = Current
    BY <2>1, <2>2 DEF TypeOK, Keys, Current
  <2> QED
    BY <2>1, <2>2, <2>3 DEF TypeOK
<1> QED
  BY <1>1, Always, PTL
=============================================================================
