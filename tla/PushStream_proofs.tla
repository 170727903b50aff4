---------------------------- MODULE PushStream_proofs ----------------------------
(***************************************************************************)
(* Proofs about PushStream.  The invariant says what the running cycle     *)
(* knows: everything up to its watermark is covered, its body is exactly   *)
(* what may be uploaded of the rows it considered, and a request on the    *)
(* network leaves no gap when it is applied, however late.                 *)
(***************************************************************************)
EXTENDS PushStream, TLAPS

Busy == pc \in {"send", "wait", "bank"}

\* Which part of the history the cycle works on.
CycleInv ==
    /\ Busy => /\ last \in (wm + 1)..Len(hist)
               /\ body = {k \in (wm + 1)..last : Pushable(k)}
    /\ pc \in {"send", "wait"} => cut \in body
    /\ pc = "bank" => cut \in body \/ body = {}

Covered(k) == IsPrompt(k) \/ \E s \in Servers : k \in DOMAIN stream[s]

\* Whatever lies below a watermark is covered.
CoverInv ==
    ~replaced =>
        /\ mark <= Len(hist) /\ \A k \in 1..mark : Covered(k)
        /\ pc # "idle" => wm <= Len(hist) /\ \A k \in 1..wm : Covered(k)
        /\ pc = "bank" => Leading(cut) \subseteq DOMAIN stream[sy.server]

\* Applying a request leaves no gap.
GapInv ==
    ~replaced =>
        /\ \A s \in Servers : \A k \in DOMAIN stream[s] :
            k \in DOMAIN hist /\ \A j \in 1..k : Covered(j)
        /\ \A m \in net : \A k \in DOMAIN m.recs :
            k \in DOMAIN hist /\ \A j \in 1..k : Covered(j) \/ j \in DOMAIN m.recs

\* Prompts that may be uploaded are prompts somebody allowed to be uploaded.
Allowed(n) == n \in Prompts => n \in consented \cup exposed

ConsentInv ==
    /\ prompts => \A k \in DOMAIN hist : Allowed(hist[k])
    /\ pc # "idle" /\ sy.prompts => \A k \in DOMAIN hist : Allowed(hist[k])
    /\ \A m \in net : \A k \in DOMAIN m.recs : Allowed(m.recs[k])

-------------------------------------------------------------------------------
(* Types *)

LEMMA Start == Init => TypeOK
  <1> SUFFICES ASSUME Init
               PROVE  TypeOK
    OBVIOUS
  <1>1. \A s \in Servers : DOMAIN stream[s] = {}
    BY DEF Init, NoRecords
  <1>2. replaced \in BOOLEAN /\ DOMAIN stream = Servers
    BY DEF Init
  <1> QED
    BY <1>1, <1>2 DEF Init, TypeOK

LEMMA PromptsAreNat == \A h : PromptsOf(h) \subseteq Nat
  BY PushAssumption DEF PromptsOf

\* Every step keeps the types, and what the cycle knows about the history.
LEMMA TypesKept ==
    ASSUME TypeOK, CycleInv, [Next]_vars
    PROVE  TypeOK' /\ CycleInv'
  <1> USE DEF Busy, store, cycle, ghosts, IsPrompt
  <1>1. CASE UNCHANGED vars
    BY <1>1 DEF vars, TypeOK, CycleInv, Pushable
  <1>2. CASE Record
    <2>1. born' \in Nat
      BY <1>2 DEF TypeOK, Record
    <2>2. hist' \in Seq(Nat) /\ Len(hist') = Len(hist) + 1
          /\ \A k \in 1..Len(hist) : hist'[k] = hist[k]
      BY <1>2, <2>1 DEF TypeOK, Record
    <2>3. TypeOK'
      <3>1. consented' \subseteq Nat
        BY <1>2, PromptsAreNat DEF TypeOK, Record
      <3>2. exposed' \subseteq Nat
        BY <1>2, <2>1 DEF TypeOK, Record
      <3> QED
        BY <1>2, <2>1, <2>2, <3>1, <3>2 DEF TypeOK, Record
    <2>4. CycleInv'
      BY <1>2, <2>2 DEF TypeOK, Record, CycleInv, Pushable
    <2> QED
      BY <2>3, <2>4
  <1>3. CASE Backup
    BY <1>3 DEF Backup, TypeOK, CycleInv, Pushable
  <1>4. CASE Restore
    BY <1>4, PromptsAreNat DEF Restore, TypeOK, CycleInv
  <1>5. ASSUME NEW s \in Servers, NEW p \in BOOLEAN, Configure(s, p)  PROVE TypeOK' /\ CycleInv'
    BY <1>5, PromptsAreNat DEF Configure, TypeOK, CycleInv, Pushable
  <1>6. CASE Begin
    BY <1>6 DEF Begin, TypeOK, CycleInv
  <1>7. CASE Done
    BY <1>7 DEF Done, TypeOK, CycleInv
  <1>8. CASE Seal
    <2>1. BatchEnd \in Nat /\ BatchEnd <= Len(hist)
      BY PushAssumption DEF TypeOK, BatchEnd
    <2>2. PICK to \in (wm + 1)..BatchEnd :
            /\ body' = Sealed(to) /\ last' = to
            /\ \/ body' # {} /\ pc' = "send" /\ cut' \in body' /\ \A k \in body' : k <= cut'
               \/ body' = {} /\ pc' = "bank" /\ cut' = 0
      BY <1>8 DEF Seal
    <2>3. to \in Nat /\ body' \subseteq Nat
      BY <2>1, <2>2 DEF TypeOK, Sealed
    <2>4. TypeOK'
      BY <1>8, <2>2, <2>3 DEF Seal, TypeOK
    <2> QED
      BY <1>8, <2>1, <2>2, <2>4 DEF Seal, TypeOK, CycleInv, Sealed, Pushable
  <1>9. CASE Send
    <2>1. Request.server \in Servers /\ DOMAIN Request.recs = Leading(cut)
          /\ \A k \in DOMAIN Request.recs : Request.recs[k] = hist[k]
      BY DEF TypeOK, Request
    <2>2. \A k \in DOMAIN Request.recs : Request.recs[k] \in Nat
      BY <1>9, <2>1 DEF Send, TypeOK, CycleInv, Leading
    <2> QED
      BY <1>9, <2>1, <2>2 DEF Send, TypeOK, CycleInv, Pushable
  <1>10. CASE Refused
    <2>1. Halved \subseteq body
      BY DEF Halved
    <2> QED
      BY <1>10, <2>1 DEF Refused, TypeOK, CycleInv, Pushable
  <1>11. CASE Bank
    BY <1>11 DEF Bank, Banked, TypeOK, CycleInv
  <1>12. CASE GiveUp
    BY <1>12 DEF GiveUp, TypeOK, CycleInv
  <1>13. ASSUME NEW m \in net, Deliver(m)  PROVE TypeOK' /\ CycleInv'
    <2>1. m.server \in Servers /\ \A k \in DOMAIN m.recs : m.recs[k] \in Nat
      BY DEF TypeOK
    <2>2. \A k \in DOMAIN Stored(stream[m.server], m.recs) : Stored(stream[m.server], m.recs)[k] \in Nat
      BY <2>1 DEF Stored, TypeOK
    <2>3. TypeOK'
      BY <1>13, <2>1, <2>2 DEF Deliver, TypeOK
    <2> QED
      BY <1>13, <2>3 DEF Deliver, CycleInv, TypeOK, Pushable
  <1>14. ASSUME NEW m \in net, LoseRequest(m)  PROVE TypeOK' /\ CycleInv'
    BY <1>14 DEF LoseRequest, TypeOK, CycleInv, Pushable
  <1> QED
    BY <1>1, <1>2, <1>3, <1>4, <1>5, <1>6, <1>7, <1>8, <1>9, <1>10, <1>11, <1>12, <1>13, <1>14
    DEF Next, PushStep

LEMMA CycleKnows == Spec => [](TypeOK /\ CycleInv)
  <1>1. Init => TypeOK /\ CycleInv
    BY Start DEF Init, CycleInv, Busy
  <1> QED
    BY <1>1, TypesKept, PTL DEF Spec

\* Type correctness of stores, cycles, requests and streams.
THEOREM PushTypes == Spec => []TypeOK
  BY CycleKnows, PTL

-------------------------------------------------------------------------------
(* The watermark and the stream *)

\* What an applied request adds.
LEMMA StoredDomain ==
    ASSUME NEW old, NEW recs
    PROVE  DOMAIN Stored(old, recs) = DOMAIN old \cup DOMAIN recs
  BY DEF Stored

\* Unless data.db is replaced, what is covered stays covered.
LEMMA CoverKept ==
    ASSUME TypeOK, CycleInv, CoverInv, [Next]_vars
    PROVE  CoverInv'
  <1> SUFFICES ASSUME ~replaced'
               PROVE  CoverInv'
    BY DEF CoverInv
  <1> USE DEF store, cycle, ghosts, IsPrompt
  <1>1. CASE UNCHANGED vars
    BY <1>1 DEF vars, CoverInv, Covered, Leading
  <1>2. CASE Record
    <2>1. Len(hist') = Len(hist) + 1 /\ \A k \in 1..Len(hist) : hist'[k] = hist[k]
      BY <1>2 DEF TypeOK, Record
    <2> QED
      BY <1>2, <2>1 DEF Record, TypeOK, CoverInv, Covered, Leading
  <1>3. CASE Backup \/ Restore
    BY <1>3 DEF Backup, Restore, CoverInv, Covered, Leading
  <1>4. ASSUME NEW s \in Servers, NEW p \in BOOLEAN, Configure(s, p)  PROVE CoverInv'
    <2>1. \A k : Covered(k)' = Covered(k)
      BY <1>4 DEF Configure, Covered
    <2>2. Leading(cut)' = Leading(cut)
      BY <1>4 DEF Configure, Leading
    <2> QED
      BY <1>4, <2>1, <2>2 DEF Configure, CoverInv
  <1>5. CASE Begin
    BY <1>5 DEF Begin, TypeOK, CoverInv, Covered
  <1>6. CASE Done \/ GiveUp
    BY <1>6 DEF Done, GiveUp, CoverInv, Covered
  <1>7. CASE Seal
    <2>1. pc' = "bank" => Leading(cut)' = {}
      BY <1>7 DEF Seal, Leading
    <2> QED
      BY <1>7, <2>1 DEF Seal, CoverInv, Covered
  <1>8. CASE Send
    BY <1>8 DEF Send, CoverInv, Covered
  <1>9. CASE Refused
    BY <1>9 DEF Refused, CoverInv, Covered
  <1>10. CASE Bank
    <2>0. /\ last \in (wm + 1)..Len(hist) /\ body = {k \in (wm + 1)..last : Pushable(k)}
          /\ wm \in Nat /\ Len(hist) \in Nat
      BY <1>10 DEF Bank, TypeOK, CycleInv, Busy
    <2>a. Leading(cut) = body \/ cut \in body
      BY <1>10 DEF Bank, CycleInv, Leading
    <2>b. Banked \in (wm + 1)..last
      <3>1. body \subseteq (wm + 1)..last /\ last \in (wm + 1)..last
        BY <2>0
      <3> QED
        BY <3>1, <2>a DEF Banked
    <2>1. Banked <= Len(hist) /\ Banked \in Nat
      BY <2>0, <2>b
    <2>2. ASSUME NEW k \in 1..Banked  PROVE Covered(k)
      <3>1. CASE k <= wm
        BY <3>1, <1>10 DEF Bank, TypeOK, CoverInv
      <3>2. CASE wm < k
        <4>1. k \in (wm + 1)..last
          BY <3>2, <2>0, <2>b
        <4>2. CASE Pushable(k)
          <5>1. k \in Leading(cut)
            BY <4>1, <4>2, <2>0 DEF Banked, Leading
          <5> QED
            BY <5>1, <1>10 DEF Bank, CoverInv, Covered, TypeOK
        <4>3. CASE ~Pushable(k)
          BY <4>3 DEF Pushable, Covered
        <4> QED
          BY <4>2, <4>3
      <3> QED
        BY <3>1, <3>2, <2>1 DEF TypeOK
    <2> QED
      BY <1>10, <2>1, <2>2 DEF Bank, CoverInv, Covered
  <1>11. ASSUME NEW m \in net, Deliver(m)  PROVE CoverInv'
    <2>1. m.server \in Servers
      BY DEF TypeOK
    <2>a. stream'[m.server] = Stored(stream[m.server], m.recs)
      BY <1>11, <2>1 DEF Deliver, TypeOK
    <2>b. \A s \in Servers \ {m.server} : stream'[s] = stream[s]
      BY <1>11 DEF Deliver, TypeOK
    <2>c. DOMAIN stream'[m.server] = DOMAIN stream[m.server] \cup DOMAIN m.recs
      BY <2>a, StoredDomain
    <2>2. \A s \in Servers : DOMAIN stream[s] \subseteq DOMAIN stream'[s]
      BY <2>b, <2>c
    <2>3. DOMAIN m.recs \subseteq DOMAIN stream'[m.server]
      BY <2>c
    <2>4. \A k : Covered(k) => Covered(k)'
      BY <1>11, <2>2 DEF Deliver, Covered, TypeOK
    <2>5. pc' = "bank" => Leading(cut) \subseteq DOMAIN stream'[sy.server]
      <3>1. CASE pc' = pc
        BY <3>1, <2>2, <1>11 DEF Deliver, CoverInv, TypeOK
      <3>2. CASE m = Request
        BY <3>2, <2>3 DEF Request
      <3> QED
        BY <3>1, <3>2, <1>11 DEF Deliver
    <2> QED
      BY <1>11, <2>4, <2>5 DEF Deliver, CoverInv, Leading
  <1>12. ASSUME NEW m \in net, LoseRequest(m)  PROVE CoverInv'
    BY <1>12 DEF LoseRequest, CoverInv, Covered, Leading
  <1> QED
    BY <1>1, <1>2, <1>3, <1>4, <1>5, <1>6, <1>7, <1>8, <1>9, <1>10, <1>11, <1>12
    DEF Next, PushStep

LEMMA CoverStart == Init => CoverInv
  BY DEF Init, CoverInv

LEMMA WatermarkCovers == Spec => [](TypeOK /\ CycleInv /\ CoverInv)
  <1>1. Init => TypeOK /\ CycleInv /\ CoverInv
    BY Start, CoverStart DEF Init, CycleInv, Busy
  <1>2. TypeOK /\ CycleInv /\ CoverInv /\ [Next]_vars => (TypeOK /\ CycleInv /\ CoverInv)'
    BY TypesKept, CoverKept
  <1> QED
    BY <1>1, <1>2, PTL DEF Spec

\* Until data.db is replaced, the watermark never passes a command that no
\* server has, wherever the configuration points in between.
THEOREM WatermarkSkipsNothing == Spec => []NothingSkipped
  <1>1. TypeOK /\ CoverInv => NothingSkipped
    BY DEF CoverInv, Covered, NothingSkipped, TypeOK
  <1> QED
    BY <1>1, WatermarkCovers, PTL

-------------------------------------------------------------------------------
(* The order in which records appear *)

\* Until data.db is replaced, requests leave no gap.
LEMMA GapsKept ==
    ASSUME TypeOK, CycleInv, CoverInv, GapInv, [Next]_vars
    PROVE  GapInv'
  <1> SUFFICES ASSUME ~replaced'
               PROVE  GapInv'
    BY DEF GapInv
  <1> USE DEF store, cycle, ghosts
  <1>1. ASSUME UNCHANGED <<hist, stream, replaced>>, net' \subseteq net  PROVE GapInv'
    BY <1>1 DEF GapInv, Covered, IsPrompt
  <1>2. CASE Record
    <2>1. DOMAIN hist = 1..Len(hist) /\ DOMAIN hist' = 1..(Len(hist) + 1)
          /\ Len(hist) \in Nat /\ \A k \in 1..Len(hist) : hist'[k] = hist[k]
      BY <1>2 DEF TypeOK, Record
    <2>2. \A k \in 1..Len(hist) : Covered(k)' = Covered(k)
      BY <1>2, <2>1 DEF Record, Covered, IsPrompt
    <2> QED
      BY <1>2, <2>1, <2>2 DEF Record, GapInv
  <1>3. CASE Send
    <2>1. /\ last \in (wm + 1)..Len(hist) /\ body = {k \in (wm + 1)..last : Pushable(k)}
          /\ wm \in Nat /\ cut \in body /\ \A k \in 1..wm : Covered(k)
      BY <1>3 DEF Send, TypeOK, CycleInv, CoverInv, Busy
    <2>2. DOMAIN Request.recs = Leading(cut)
      BY DEF Request
    <2>3. Leading(cut) \subseteq DOMAIN hist
      BY <2>1 DEF Leading, TypeOK
    <2>4. ASSUME NEW k \in Leading(cut), NEW j \in 1..k
          PROVE  Covered(j) \/ j \in Leading(cut)
      <3>1. j \in 1..wm \/ j \in (wm + 1)..last
        BY <2>1 DEF Leading
      <3>2. CASE j \in (wm + 1)..last /\ Pushable(j)
        BY <2>1, <3>2 DEF Leading
      <3>3. CASE ~Pushable(j)
        BY <3>3 DEF Pushable, Covered
      <3> QED
        BY <2>1, <3>1, <3>2, <3>3
    <2>5. net' = net \cup {Request} /\ UNCHANGED <<hist, stream, replaced>>
      BY <1>3 DEF Send
    <2>6. \A k : Covered(k)' = Covered(k)
      BY <2>5 DEF Covered, IsPrompt
    <2> QED
      BY <2>2, <2>3, <2>4, <2>5, <2>6 DEF GapInv
  <1>4. ASSUME NEW m \in net, Deliver(m)  PROVE GapInv'
    <2>1. m.server \in Servers /\ UNCHANGED <<hist, replaced>> /\ net' \subseteq net
      BY <1>4 DEF Deliver, TypeOK
    <2>2. stream'[m.server] = Stored(stream[m.server], m.recs)
          /\ \A s \in Servers \ {m.server} : stream'[s] = stream[s]
      BY <1>4, <2>1 DEF Deliver, TypeOK
    <2>3. DOMAIN stream'[m.server] = DOMAIN stream[m.server] \cup DOMAIN m.recs
      BY <2>2, StoredDomain
    <2>4. \A s \in Servers : DOMAIN stream[s] \subseteq DOMAIN stream'[s]
      BY <2>2, <2>3
    <2>5. \A k : Covered(k) => Covered(k)'
      BY <2>1, <2>4 DEF Covered, IsPrompt
    <2>6. \A j \in DOMAIN m.recs : Covered(j)'
      BY <2>1, <2>3 DEF Covered
    <2>7. ASSUME NEW s \in Servers, NEW k \in DOMAIN stream'[s]
          PROVE  k \in DOMAIN hist' /\ \A j \in 1..k : Covered(j)'
      <3>1. k \in DOMAIN stream[s] \/ k \in DOMAIN m.recs
        BY <2>2, <2>3
      <3> QED
        BY <3>1, <2>1, <2>5, <2>6 DEF GapInv
    <2>8. ASSUME NEW n \in net', NEW k \in DOMAIN n.recs
          PROVE  k \in DOMAIN hist' /\ \A j \in 1..k : Covered(j)' \/ j \in DOMAIN n.recs
      BY <2>1, <2>5 DEF GapInv
    <2> QED
      BY <2>7, <2>8 DEF GapInv
  <1>5. ASSUME NEW m \in net, LoseRequest(m)  PROVE GapInv'
    BY <1>5, <1>1 DEF LoseRequest
  <1>6. ASSUME NEW s \in Servers, NEW p \in BOOLEAN, Configure(s, p)  PROVE GapInv'
    BY <1>6, <1>1 DEF Configure
  <1>7. CASE Backup \/ Begin \/ Done \/ Seal \/ Refused \/ Bank \/ GiveUp \/ UNCHANGED vars
    BY <1>7, <1>1 DEF Backup, Begin, Done, Seal, Refused, Bank, GiveUp, vars
  <1> QED
    BY <1>2, <1>3, <1>4, <1>5, <1>6, <1>7 DEF Next, PushStep, Restore

\* Until data.db is replaced, no server shows a record before every command that
\* precedes it is on a server: one server's readers never skip a command.
THEOREM StreamHasNoGaps == Spec => []NoGaps
  <1> DEFINE IInv == TypeOK /\ CycleInv /\ CoverInv /\ GapInv
  <1>1. Init => IInv
    <2>1. ASSUME Init  PROVE GapInv
      BY <2>1 DEF Init, GapInv, NoRecords
    <2> QED
      BY <2>1, Start, CoverStart DEF Init, CycleInv, Busy
  <1>2. IInv /\ [Next]_vars => IInv'
    BY TypesKept, CoverKept, GapsKept
  <1>3. IInv => NoGaps
    BY DEF GapInv, NoGaps, Covered
  <1> QED
    BY <1>1, <1>2, <1>3, PTL DEF Spec

-------------------------------------------------------------------------------
(* Prompts *)

\* A prompt that was sealed was in the store under a setting that allowed it.
LEMMA ConsentKept ==
    ASSUME TypeOK, CycleInv, ConsentInv, PromptsNeedConsent, [Next]_vars
    PROVE  ConsentInv' /\ PromptsNeedConsent'
  <1> USE DEF store, cycle, ghosts
  <1>1. ASSUME UNCHANGED <<hist, consented, exposed, prompts, stream>>, net' \subseteq net,
               pc' = "idle" \/ (pc # "idle" /\ sy' = sy)
        PROVE  ConsentInv' /\ PromptsNeedConsent'
    BY <1>1 DEF ConsentInv, PromptsNeedConsent, Allowed
  <1>2. CASE Record
    <2>1. /\ DOMAIN hist' = DOMAIN hist \cup {Len(hist) + 1} /\ DOMAIN hist = 1..Len(hist)
          /\ hist'[Len(hist) + 1] = born' /\ \A k \in 1..Len(hist) : hist'[k] = hist[k]
      BY <1>2 DEF TypeOK, Record
    <2>2. prompts => \A k \in DOMAIN hist' : Allowed(hist[k])'
      BY <1>2, <2>1 DEF Record, PromptsOf, Allowed
    <2>3. pc # "idle" /\ sy.prompts => \A k \in DOMAIN hist' : Allowed(hist[k])'
      BY <1>2, <2>1 DEF Record, ConsentInv, Allowed
    <2> QED
      BY <1>2, <2>2, <2>3 DEF Record, ConsentInv, PromptsNeedConsent, Allowed
  <1>3. CASE Restore
    <2>1. prompts => \A k \in DOMAIN hist' : Allowed(hist[k])'
      BY <1>3 DEF Restore, PromptsOf, Allowed
    <2> QED
      BY <1>3, <2>1 DEF Restore, ConsentInv, PromptsNeedConsent, Allowed
  <1>4. ASSUME NEW s \in Servers, NEW p \in BOOLEAN, Configure(s, p)
        PROVE  ConsentInv' /\ PromptsNeedConsent'
    <2>1. p => \A k \in DOMAIN hist : Allowed(hist[k])'
      BY <1>4 DEF Configure, PromptsOf, Allowed
    <2> QED
      BY <1>4, <2>1 DEF Configure, ConsentInv, PromptsNeedConsent, Allowed
  <1>5. CASE Begin
    BY <1>5 DEF Begin, ConsentInv, PromptsNeedConsent, Allowed
  <1>6. CASE Send
    <2>1. \A k \in Leading(cut) : k \in DOMAIN hist /\ (hist[k] \in Prompts => sy.prompts)
      BY <1>6 DEF Send, TypeOK, CycleInv, Busy, Leading, Pushable, IsPrompt
    <2>2. DOMAIN Request.recs = Leading(cut) /\ \A k \in Leading(cut) : Request.recs[k] = hist[k]
      BY DEF Request
    <2>3. \A k \in DOMAIN Request.recs : Allowed(Request.recs[k])
      BY <1>6, <2>1, <2>2 DEF Send, ConsentInv, Allowed
    <2> QED
      BY <1>6, <2>3 DEF Send, ConsentInv, PromptsNeedConsent, Allowed
  <1>7. ASSUME NEW m \in net, Deliver(m)  PROVE ConsentInv' /\ PromptsNeedConsent'
    <2>1. m.server \in Servers /\ DOMAIN stream' = Servers
      BY <1>7 DEF Deliver, TypeOK
    <2>2. ASSUME NEW s \in Servers, NEW k \in DOMAIN stream'[s]
          PROVE  Allowed(stream'[s][k])
      <3>1. CASE s # m.server
        BY <3>1, <2>2, <1>7 DEF Deliver, TypeOK, PromptsNeedConsent, Allowed
      <3>2. CASE s = m.server
        <4>1. stream'[s] = Stored(stream[s], m.recs)
          BY <3>2, <1>7 DEF Deliver, TypeOK
        <4>2. \/ k \in DOMAIN stream[s] /\ stream'[s][k] = stream[s][k]
              \/ k \in DOMAIN m.recs /\ stream'[s][k] = m.recs[k]
          BY <2>2, <4>1 DEF Stored
        <4> QED
          BY <2>2, <4>2 DEF PromptsNeedConsent, ConsentInv, Allowed
      <3> QED
        BY <3>1, <3>2
    <2>3. PromptsNeedConsent'
      BY <1>7, <2>2 DEF Deliver, PromptsNeedConsent, Allowed
    <2> QED
      BY <1>7, <2>3 DEF Deliver, ConsentInv, Allowed
  <1>8. ASSUME NEW m \in net, LoseRequest(m)  PROVE ConsentInv' /\ PromptsNeedConsent'
    BY <1>8 DEF LoseRequest, ConsentInv, PromptsNeedConsent, Allowed
  <1>9. CASE Backup \/ UNCHANGED vars
    BY <1>9 DEF Backup, vars, ConsentInv, PromptsNeedConsent, Allowed
  <1>10. CASE Done \/ Seal \/ Refused \/ Bank \/ GiveUp
    BY <1>10, <1>1 DEF Done, Seal, Refused, Bank, GiveUp
  <1> QED
    BY <1>2, <1>3, <1>4, <1>5, <1>6, <1>7, <1>8, <1>9, <1>10 DEF Next, PushStep

\* Whatever is reconfigured, restored or delivered late, a prompt on a server
\* was in the store while a setting in force allowed its upload.
THEOREM PromptsAreConsented == Spec => []PromptsNeedConsent
  <1> DEFINE IInv == TypeOK /\ CycleInv /\ ConsentInv /\ PromptsNeedConsent
  <1>1. Init => IInv
    <2>1. ASSUME Init  PROVE ConsentInv /\ PromptsNeedConsent
      <3>1. DOMAIN hist = {} /\ net = {} /\ \A s \in Servers : DOMAIN stream[s] = {}
        BY <2>1 DEF Init, NoRecords
      <3> QED
        BY <2>1, <3>1 DEF Init, ConsentInv, PromptsNeedConsent
    <2> QED
      BY <2>1, Start DEF Init, CycleInv, Busy
  <1>2. IInv /\ [Next]_vars => IInv'
    BY TypesKept, ConsentKept
  <1> QED
    BY <1>1, <1>2, PTL DEF Spec
===============================================================================
