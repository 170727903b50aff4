----------------------------- MODULE Enrolment -----------------------------
(***************************************************************************)
(* How machines join and leave one user's group (cli/enroll.go,            *)
(* syncer/enroll.go, server/handlers.go, server/server.go).                *)
(*                                                                         *)
(* The server keeps, per machine, its standing and the group's History Key *)
(* (HK) sealed to it; the data keys (DEKs) sealed under the HK; the HK     *)
(* sealed to the recovery phrase; and the enrolment tokens.  It can open   *)
(* none of them: it compares version numbers.  The machines run setup,     *)
(* approve, revoke, recover and uploads of DEKs, each a sequence of        *)
(* requests.  A handler authenticates a request in one transaction and     *)
(* acts on it in another, so a request is first signed and accepted into   *)
(* flight, then takes effect, perhaps after the machine that sent it gave  *)
(* up, died or was revoked.                                                *)
(*                                                                         *)
(* Cryptography is its algebra: a key [hk, version] sealed to a machine is *)
(* opened by that machine and by no other (cryptobox/historykey.go, dek.go)*)
(***************************************************************************)
EXTENDS Naturals, FiniteSets

CONSTANTS Machine,    \* machines, which are devices of the group when enrolled
          Token,      \* enrolment tokens that may be minted
          Boot,       \* the server's configured token
          Dek,        \* data keys that may be uploaded
          MaxHK,      \* bound: how many History Keys are ever minted
          MaxFlight,  \* bound: how many requests are in flight at once
          MaxLapses   \* bound: how many answers are lost and daemons restarted

ASSUME BootAssumption == Boot \notin Token
ASSUME BoundsAssumption == MaxHK \in Nat /\ MaxFlight \in Nat /\ MaxLapses \in Nat

VARIABLES
  \* the server's database
  standing,   \* devices: "absent", "pending", "active" or "revoked"
  hkWraps,    \* hk_wraps: the HK sealed to each machine, or NoKey
  hkVersion,  \* meta: the current version, 0 before the group is formed
  dekWraps,   \* dek_wraps: the key each DEK is sealed under, or NoKey
  recovery,   \* the write-once recovery key: whose phrase, sealed key
  tokens,     \* "unminted", "open" or "claimed"
  flight,     \* authenticated requests that have not taken effect
  \* the machines
  proc,       \* the procedure a machine is in the middle of
  cached,     \* Syncer.hk and hkVersion, in RAM
  minted,     \* how many HKs were minted
  lapses,     \* how many answers were lost and daemons restarted
  \* history
  shown,      \* recovery phrases that setup has printed
  known,      \* HKs each machine has ever been able to open
  out,        \* machines that were outside the group when it last rotated
  emptied     \* the last HK wrap was once deleted

db == <<standing, hkWraps, hkVersion, dekWraps, recovery, tokens>>
machines == <<proc, cached, minted, lapses>>
history == <<shown, known, out, emptied>>
vars == <<db, flight, machines, history>>

NoKey == [hk |-> 0, version |-> 0]
Key == [hk : 0..MaxHK, version : Nat]

NoRecovery == [phrase |-> 0, key |-> NoKey]

\* A request as the server sees it: who signed it and what it asks for.
Request(op, m, target, key, devices, deks, token) ==
  [op |-> op, by |-> m, target |-> target, key |-> key,
   devices |-> devices, deks |-> deks, token |-> token]

NoRequest(m) == Request("none", m, m, NoKey, {}, {}, Boot)

Activate(m, target, key) == Request("activate", m, target, key, {}, {}, Boot)
Readmit(m, key) == Request("readmit", m, m, key, {}, {}, Boot)
Revoke(m, target) == Request("revoke", m, target, NoKey, {}, {}, Boot)
InitRecovery(m, key) == Request("init", m, m, key, {}, {}, Boot)
Upload(m, d, key) == Request("dek", m, m, key, {}, {d}, Boot)
Rotate(m, key, devices, deks) == Request("rotate", m, m, key, devices, deks, Boot)
Register(m, token) == Request("register", m, m, NoKey, {}, {}, token)

\* A procedure: where it is, the key it works with, the request it waits for.
Idle(m) == [step |-> "idle", key |-> NoKey, deks |-> {}, req |-> NoRequest(m)]
At(m, step, key) == [Idle(m) EXCEPT !.step = step, !.key = key]

Init ==
  /\ standing = [m \in Machine |-> "absent"]
  /\ hkWraps = [m \in Machine |-> NoKey]
  /\ hkVersion = 0
  /\ dekWraps = [d \in Dek |-> NoKey]
  /\ recovery = NoRecovery
  /\ tokens = [t \in Token |-> "unminted"]
  /\ flight = {}
  /\ proc = [m \in Machine |-> Idle(m)]
  /\ cached = [m \in Machine |-> NoKey]
  /\ minted = 0
  /\ lapses = 0
  /\ shown = {}
  /\ known = [m \in Machine |-> {}]
  /\ out = {}
  /\ emptied = FALSE

Active == {m \in Machine : standing[m] = "active"}
HasActiveDevice == Active # {}
Wrapped == {m \in Machine : hkWraps[m] # NoKey}
Stored == {d \in Dek : dekWraps[d] # NoKey}
IsIdle(m) == proc[m].step = "idle"

\* Bootstrap, Revoke: hk is fresh, never a key that exists.
CanMint == minted < MaxHK
Fresh(version) == [hk |-> minted + 1, version |-> version]

\* requireSignature: an active signer, unless a handler vouches otherwise.
MaySign(m) == standing[m] = "active"

\* While no device is active the server takes the word of a pending one, for the
\* recovery key and for itself.
BootstrapSelfKeyAny(m) == ~HasActiveDevice /\ standing[m] = "pending"
BootstrapSelfKey(m, target) == target = m /\ BootstrapSelfKeyAny(m)

\* A stored token admits until it is claimed, cancelled or too old; the server's
\* own only while no device is active.
Usable(t) == tokens[t] = "open"
IsBootstrapToken(t) == t = Boot /\ ~HasActiveDevice
TenantForToken(t) == IsBootstrapToken(t) \/ (t # Boot /\ Usable(t))

\* What m, and nobody else, opens of the wraps; and which key opens a DEK.
UnwrapHK(m) == hkWraps[m]
UnwrapDEK(d, key) == dekWraps[d] = key

\* m sends r, the server authenticates it, and m waits in the given step.
Send(m, step, key, r) ==
  /\ Cardinality(flight) < MaxFlight
  /\ proc' = [proc EXCEPT ![m] = [At(m, step, key) EXCEPT !.req = r]]
  /\ flight' = flight \cup {r}

\* r is answered with success: its sender, if it still waits, goes on.
Answer(r, next) ==
  /\ flight' = flight \ {r}
  /\ proc' = IF proc[r.by].req = r THEN [proc EXCEPT ![r.by] = next] ELSE proc

(***************************************************************************)
(* The machine's side of a running daemon.                                 *)
(***************************************************************************)
\* resolveHK: the cached key, else the one the server keeps for us.
Resolved(m) == IF cached[m] # NoKey THEN cached[m] ELSE UnwrapHK(m)
CanResolve(m) == MaySign(m) /\ Resolved(m) # NoKey
Resolve(m) == cached' = [cached EXCEPT ![m] = Resolved(m)]

MintToken(m, t) ==
  /\ MaySign(m) /\ tokens[t] = "unminted"
  /\ tokens' = [tokens EXCEPT ![t] = "open"]
  /\ UNCHANGED <<standing, hkWraps, hkVersion, dekWraps, recovery, flight, machines, history>>

\* A member cancels it.
RevokeToken(m, t) ==
  /\ MaySign(m) /\ Usable(t)
  /\ tokens' = [tokens EXCEPT ![t] = "claimed"]
  /\ UNCHANGED <<standing, hkWraps, hkVersion, dekWraps, recovery, flight, machines, history>>

\* Half an hour passes.
Expire(t) ==
  /\ Usable(t)
  /\ tokens' = [tokens EXCEPT ![t] = "claimed"]
  /\ UNCHANGED <<standing, hkWraps, hkVersion, dekWraps, recovery, flight, machines, history>>

\* The browser offers the pending machines for approval, and to revoke the
\* others that are not revoked.
Approve(m, target) ==
  /\ IsIdle(m) /\ CanResolve(m) /\ standing[target] = "pending"
  /\ Resolve(m)
  /\ Send(m, "approving", NoKey, Activate(m, target, Resolved(m)))
  /\ UNCHANGED <<db, minted, lapses, history>>

StartRevoke(m, target) ==
  /\ IsIdle(m) /\ CanResolve(m)
  /\ target # m /\ standing[target] \in {"pending", "active"}
  /\ Resolve(m)
  /\ Send(m, "revoking", Resolved(m), Revoke(m, target))
  /\ UNCHANGED <<db, minted, lapses, history>>

\* reWrapAllDEKs: every DEK must open under the key the procedure resolved.
ReWrap(m) ==
  /\ proc[m].step = "rewrap" /\ MaySign(m)
  /\ \A d \in Stored : UnwrapDEK(d, proc[m].key)
  /\ proc' = [proc EXCEPT ![m].step = "list", ![m].deks = Stored]
  /\ UNCHANGED <<db, flight, cached, minted, lapses, history>>

SendRotate(m) ==
  LET new == Fresh(proc[m].key.version + 1) IN
  /\ proc[m].step = "list" /\ MaySign(m) /\ CanMint
  /\ Send(m, "rotating", NoKey, Rotate(m, new, Active, proc[m].deks))
  /\ minted' = new.hk
  /\ known' = [known EXCEPT ![m] = @ \cup {new.hk}]
  /\ UNCHANGED <<db, cached, lapses, shown, out, emptied>>

\* ensurePushDEK: a new epoch's DEK, sealed under the cached key.
SendUpload(m, d) ==
  /\ IsIdle(m) /\ CanResolve(m) /\ dekWraps[d] = NoKey
  /\ Resolve(m)
  /\ Send(m, "uploading", NoKey, Upload(m, d, Resolved(m)))
  /\ UNCHANGED <<db, minted, lapses, history>>

(***************************************************************************)
(* yore setup and yore recover: the daemon is stopped meanwhile, and the   *)
(* next one starts with nothing cached.                                    *)
(***************************************************************************)
Forget(m) == cached' = [cached EXCEPT ![m] = NoKey]

Setup(m, t) ==
  /\ IsIdle(m) /\ ~MaySign(m) /\ TenantForToken(t)
  /\ Forget(m)
  /\ Send(m, "registering", NoKey, Register(m, t))
  /\ UNCHANGED <<db, minted, lapses, history>>

\* Bootstrap: the recovery key goes first.
Bootstrap(m) ==
  LET new == Fresh(1) IN
  /\ proc[m].step = "form" /\ (MaySign(m) \/ BootstrapSelfKeyAny(m)) /\ CanMint
  /\ Send(m, "initing", new, InitRecovery(m, new))
  /\ minted' = new.hk
  /\ known' = [known EXCEPT ![m] = @ \cup {new.hk}]
  /\ UNCHANGED <<db, cached, lapses, shown, out, emptied>>

SelfActivate(m) ==
  /\ proc[m].step = "self" /\ (MaySign(m) \/ BootstrapSelfKey(m, m))
  /\ Send(m, "activating", proc[m].key, Activate(m, m, proc[m].key))
  /\ UNCHANGED <<db, cached, minted, lapses, history>>

\* The phrase proves itself by opening the recovery wrap.
RecoverHK == IF recovery.phrase \in shown THEN recovery.key ELSE NoKey

\* Whoever signs with the phrase may mint a token.
RecoveryToken(t) ==
  /\ tokens[t] = "unminted"
  /\ tokens' = [tokens EXCEPT ![t] = "open"]

\* The phrase opens the key and mints a token, with which m registers.
Recover(m, t) ==
  /\ IsIdle(m) /\ RecoverHK # NoKey
  /\ Forget(m)
  /\ RecoveryToken(t)
  /\ Send(m, "returning", RecoverHK, Register(m, t))
  /\ known' = [known EXCEPT ![m] = @ \cup {recovery.key.hk}]
  /\ out' = out \ {m}
  /\ UNCHANGED <<standing, hkWraps, hkVersion, dekWraps, recovery, minted, lapses, shown, emptied>>

SendReadmit(m) ==
  /\ proc[m].step = "readmit"
  /\ Send(m, "readmitting", proc[m].key, Readmit(m, proc[m].key))
  /\ UNCHANGED <<db, cached, minted, lapses, history>>

(***************************************************************************)
(* The handlers' transactions.                                             *)
(***************************************************************************)
\* Whether the token is the server's was decided when the request arrived.
RedeemToken(t) ==
  /\ t # Boot => Usable(t)
  /\ tokens' = [u \in Token |-> IF u = t THEN "claimed" ELSE tokens[u]]

HandleRegister(r) ==
  /\ r.op = "register"
  /\ RedeemToken(r.token)
  /\ standing[r.by] \in {"absent", "revoked"}
  /\ standing' = [standing EXCEPT ![r.by] = "pending"]
  /\ Answer(r, IF proc[r.by].step = "returning" THEN At(r.by, "readmit", proc[r.by].key)
               ELSE IF r.token = Boot THEN At(r.by, "form", NoKey)
               ELSE Idle(r.by))
  /\ UNCHANGED <<hkWraps, hkVersion, dekWraps, recovery, cached, minted, lapses, shown, known, out, emptied>>

\* Mutant: a recovery key may be replaced.
RecoveryFree_Always == TRUE

RecoveryFree == recovery = NoRecovery

HandleInitRecovery(r) ==
  /\ r.op = "init" /\ RecoveryFree
  /\ recovery' = [phrase |-> r.key.hk, key |-> r.key]
  /\ Answer(r, At(r.by, "self", r.key))
  /\ UNCHANGED <<standing, hkWraps, hkVersion, dekWraps, tokens, cached, minted, lapses, history>>

\* Mutant: the version of an activation is not compared.
PinsVersion_Never(r) == TRUE

\* The first wrap pins the version, every later one must be of that version.
PinsVersion(r) == Wrapped # {} => r.key.version = hkVersion

\* setup prints its phrase when it learns that the group is formed.
Printed(r) ==
  IF proc[r.by].req = r /\ proc[r.by].step = "activating" THEN {r.key.hk} ELSE {}

HandleActivate(r) ==
  /\ r.op = "activate"
  /\ standing[r.target] \in {"pending", "active"}
  /\ PinsVersion(r)
  /\ hkVersion' = r.key.version
  /\ hkWraps' = [hkWraps EXCEPT ![r.target] = r.key]
  /\ standing' = [standing EXCEPT ![r.target] = "active"]
  /\ known' = [known EXCEPT ![r.target] = @ \cup {r.key.hk}]
  /\ out' = out \ {r.target}
  /\ shown' = shown \cup Printed(r)
  /\ Answer(r, Idle(r.by))
  /\ UNCHANGED <<dekWraps, recovery, tokens, cached, minted, lapses, emptied>>

HandleReadmit(r) ==
  /\ r.op = "readmit"
  /\ standing[r.by] \in {"pending", "active"} /\ r.key.version = hkVersion
  /\ hkWraps' = [hkWraps EXCEPT ![r.by] = r.key]
  /\ standing' = [standing EXCEPT ![r.by] = "active"]
  /\ known' = [known EXCEPT ![r.by] = @ \cup {r.key.hk}]
  /\ out' = out \ {r.by}
  /\ Answer(r, Idle(r.by))
  /\ UNCHANGED <<hkVersion, dekWraps, recovery, tokens, cached, minted, lapses, shown, emptied>>

HandleRevoke(r) ==
  /\ r.op = "revoke" /\ standing[r.target] # "absent"
  /\ standing' = [standing EXCEPT ![r.target] = "revoked"]
  /\ hkWraps' = [hkWraps EXCEPT ![r.target] = NoKey]
  /\ emptied' = (emptied \/ Wrapped = {r.target})
  /\ Answer(r, At(r.by, "rewrap", proc[r.by].key))
  /\ UNCHANGED <<hkVersion, dekWraps, recovery, tokens, cached, minted, lapses, shown, known, out>>

\* Idempotent by key id.
HandleUpload(r) ==
  /\ r.op = "dek" /\ r.key.version = hkVersion
  /\ dekWraps' = [d \in Dek |-> IF d \in r.deks \ Stored THEN r.key ELSE dekWraps[d]]
  /\ Answer(r, Idle(r.by))
  /\ UNCHANGED <<standing, hkWraps, hkVersion, recovery, tokens, cached, minted, lapses, history>>

\* Mutant: a rotation may wrap the new key for a machine that has been revoked.
Survives_Any(r) == r.devices # {}

\* The rotation is for machines that are active when it takes effect.
Survives(r) == r.devices # {} /\ r.devices \subseteq Active

\* All HK wraps are replaced, all DEK wraps are overwritten, the phrase follows.
HandleRotate(r) ==
  /\ r.op = "rotate" /\ r.key.version = hkVersion + 1
  /\ Survives(r)
  /\ r.deks = Stored /\ recovery # NoRecovery
  /\ hkVersion' = r.key.version
  /\ hkWraps' = [m \in Machine |-> IF m \in r.devices THEN r.key ELSE NoKey]
  /\ dekWraps' = [d \in Dek |-> IF d \in Stored THEN r.key ELSE NoKey]
  /\ recovery' = [recovery EXCEPT !.key = r.key]
  /\ known' = [m \in Machine |-> IF m \in r.devices THEN known[m] \cup {r.key.hk} ELSE known[m]]
  /\ out' = Machine \ Active
  /\ cached' = IF proc[r.by].req = r THEN [cached EXCEPT ![r.by] = r.key] ELSE cached
  /\ Answer(r, Idle(r.by))
  /\ UNCHANGED <<standing, tokens, minted, lapses, shown, emptied>>

Handle(r) ==
  \/ HandleRegister(r) \/ HandleInitRecovery(r) \/ HandleActivate(r)
  \/ HandleReadmit(r) \/ HandleRevoke(r) \/ HandleUpload(r) \/ HandleRotate(r)

\* A handler's transaction refuses, or the server dies before it commits.
Fails(r) ==
  /\ Answer(r, Idle(r.by))
  /\ UNCHANGED <<db, cached, minted, lapses, history>>

\* A machine learns that it was refused, or dies, before it sends its next
\* request; what it did so far stays.
Stop(m) ==
  /\ ~IsIdle(m) /\ proc[m].req \notin flight
  /\ proc' = [proc EXCEPT ![m] = Idle(m)]
  /\ UNCHANGED <<db, flight, cached, minted, lapses, history>>

\* The answer does not come: the procedure ends, and what it sent may still
\* take effect.
GiveUp(m) ==
  /\ proc[m].req \in flight /\ lapses < MaxLapses
  /\ proc' = [proc EXCEPT ![m] = Idle(m)]
  /\ lapses' = lapses + 1
  /\ UNCHANGED <<db, flight, cached, minted, history>>

\* The daemon stops, or is killed, and starts again.
Restart(m) ==
  /\ cached[m] # NoKey /\ lapses < MaxLapses
  /\ Forget(m)
  /\ proc' = [proc EXCEPT ![m] = Idle(m)]
  /\ lapses' = lapses + 1
  /\ UNCHANGED <<db, flight, minted, history>>

Daemon(m) ==
  \/ \E t \in Token : MintToken(m, t) \/ RevokeToken(m, t)
  \/ \E target \in Machine : Approve(m, target) \/ StartRevoke(m, target)
  \/ ReWrap(m) \/ SendRotate(m)
  \/ \E d \in Dek : SendUpload(m, d)
  \/ Stop(m) \/ GiveUp(m) \/ Restart(m)

CommandLine(m) ==
  \/ \E t \in Token \cup {Boot} : Setup(m, t)
  \/ Bootstrap(m) \/ SelfActivate(m)
  \/ \E t \in Token : Recover(m, t)
  \/ SendReadmit(m)

Server ==
  \/ \E r \in flight : Handle(r) \/ Fails(r)
  \/ \E t \in Token : Expire(t)

Next == Server \/ \E m \in Machine : Daemon(m) \/ CommandLine(m)

Spec == Init /\ [][Next]_vars

\* Requests are answered, a machine that can go on does, every cycle of its sync
\* loop tries to upload what is new, and the server does not fail every time it
\* could accept that.  Nothing makes a daemon restart.
FairSpec ==
  /\ Spec
  /\ WF_vars(Server)
  /\ \A m \in Machine :
       /\ WF_vars(ReWrap(m) \/ SendRotate(m) \/ Stop(m))
       /\ SF_vars(\E d \in Dek : SendUpload(m, d))
       /\ SF_vars(\E r \in flight : r.by = m /\ HandleUpload(r))

(***************************************************************************)
(* Properties                                                              *)
(***************************************************************************)
Current == [hk |-> recovery.key.hk, version |-> hkVersion]

\* The server compares versions and cannot compare keys, yet while some machine
\* holds the History Key every wrap it stores is of one key: each machine's,
\* each data key's and the recovery phrase's.
OneGroupKey ==
  ~emptied =>
    /\ \A m \in Machine : hkWraps[m] \in {NoKey, Current}
    /\ \A d \in Dek : dekWraps[d] \in {NoKey, Current}
    /\ hkVersion # 0 => recovery.key = Current

\* A machine that was outside the group when it last rotated, and was not let in
\* since, has never been able to open the current key.
OutsidersLockedOut ==
  ~emptied => \A m \in out : recovery.key.hk \notin known[m]

\* The phrase that setup showed its user opens the current key for good.
PhraseOpens ==
  ~emptied => \A p \in shown : recovery = [phrase |-> p, key |-> Current]

\* Members that stay go on writing after a rotation (docs/protocol.md, "Revoke and
\* rotate": "only the HK-wrap cache is invalidated client-side"): a data key that a
\* member tries to upload is stored in the end, unless it is revoked meanwhile.  The
\* code does not keep it under FairSpec: nothing invalidates the key that a member
\* has resolved (resolveHK).
MembersKeepWriting ==
  \A m \in Machine, d \in Dek :
    proc[m].step = "uploading" /\ d \in proc[m].req.deks ~> d \in Stored \/ ~MaySign(m)
============================================================================
