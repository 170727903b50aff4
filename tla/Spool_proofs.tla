------------------------------ MODULE Spool_proofs ------------------------------
(***************************************************************************)
(* The spool's guarantees, for any number of writers.                      *)
(*                                                                         *)
(* The invariant says what a name and a place in Append stand for: only a  *)
(* call that has returned nil has a .jsonl name, now or on the disk, and   *)
(* by then its whole line is synced.  So what Drain finds is whole, and    *)
(* what it has in hand when it is about to unlink was delivered, or its    *)
(* read failed.                                                            *)
(***************************************************************************)
EXTENDS Spool, TLAPS

\* A published file, in the cache or on the disk, belongs to a call that returned.
NamesInv == \A w \in Writers : file[w] = "jsonl" \/ onDisk[w] = "jsonl" => wpc[w] = "ok"

\* What was synced is whole, and it is synced before it is renamed.
SyncInv ==
    /\ \A w \in Writers : wpc[w] \in {"rename", "ok"} => w \in synced
    /\ \A w \in synced : wpc[w] \notin {"create", "write"}
    /\ \A w \in Writers : wpc[w] = "sync" \/ w \in synced => line[w] = "whole"

\* Drain only looks at published files, and unlinks what it has delivered or
\* could not read.
DrainInv ==
    /\ dpc = "files" \/ dpc = "unlink" => \A w \in todo : file[w] = "jsonl"
    /\ dpc = "unlink" => cur \in delivered \cup unread /\ cur \notin todo

IInv == TypeOK /\ NamesInv /\ SyncInv /\ DrainInv /\ NeverTorn /\ AckedSurvives

\* Each lemma below is the whole invariant across one action.
USE DEF IInv, TypeOK, Names, Lines, NamesInv, SyncInv, DrainInv, NeverTorn, AckedSurvives, disk, drain, history

LEMMA InitInv == Init => IInv
  BY SpoolAssumption DEF Init

LEMMA CreateInv == ASSUME IInv, NEW w \in Writers, Create(w)  PROVE IInv'
  BY DEF Create

LEMMA WriteInv == ASSUME IInv, NEW w \in Writers, NEW l \in Lines, Write(w, l)  PROVE IInv'
  BY DEF Write

LEMMA SyncKeeps == ASSUME IInv, NEW w \in Writers, Sync(w)  PROVE IInv'
  BY DEF Sync

LEMMA RenameInv == ASSUME IInv, NEW w \in Writers, Rename(w)  PROVE IInv'
  BY DEF Rename

LEMMA FailInv == ASSUME IInv, NEW w \in Writers, Fail(w)  PROVE IInv'
  BY DEF Fail

LEMMA DieInv == ASSUME IInv, NEW w \in Writers, Die(w)  PROVE IInv'
  BY DEF Die

LEMMA GlobInv == ASSUME IInv, Glob  PROVE IInv'
  BY DEF Glob, Named

LEMMA ReadFileInv == ASSUME IInv, NEW w \in Writers, ReadFile(w)  PROVE IInv'
  <1>1. wpc[w] = "ok" /\ line[w] = "whole"
    BY DEF ReadFile
  <1> QED
    BY <1>1 DEF ReadFile

LEMMA UnlinkInv == ASSUME IInv, Unlink  PROVE IInv'
  BY DEF Unlink

LEMMA StartSweepInv == ASSUME IInv, StartSweep  PROVE IInv'
  BY DEF StartSweep, Named

LEMMA SweepStatInv == ASSUME IInv, NEW w \in Writers, SweepStat(w)  PROVE IInv'
  BY DEF SweepStat

LEMMA SweepRemoveInv == ASSUME IInv, SweepRemove  PROVE IInv'
  BY DEF SweepRemove

LEMMA StopDrainInv == ASSUME IInv, StopDrain  PROVE IInv'
  BY DEF StopDrain

LEMMA AgeInv == ASSUME IInv, NEW w \in Writers, Age(w)  PROVE IInv'
  BY DEF Age

LEMMA FlushInv == ASSUME IInv, NEW w \in Writers, Flush(w)  PROVE IInv'
  BY DEF Flush

LEMMA LosePowerInv == ASSUME IInv, LosePower  PROVE IInv'
  BY DEF LosePower, Named

LEMMA StutterInv == ASSUME IInv, UNCHANGED vars  PROVE IInv'
  BY DEF vars

HIDE DEF IInv, TypeOK, Names, Lines, NamesInv, SyncInv, DrainInv, NeverTorn, AckedSurvives, disk, drain, history

LEMMA Inductive == IInv /\ [Next]_vars => IInv'
  <1> SUFFICES ASSUME IInv, [Next]_vars  PROVE IInv'
    OBVIOUS
  <1>1. ASSUME NEW w \in Writers, AppendStep(w)  PROVE IInv'
    BY <1>1, CreateInv, WriteInv, SyncKeeps, RenameInv, FailInv, DieInv DEF AppendStep
  <1>2. ASSUME NEW w \in Writers, Age(w) \/ Flush(w)  PROVE IInv'
    BY <1>2, AgeInv, FlushInv
  <1>3. CASE DrainStep
    BY <1>3, GlobInv, ReadFileInv, SweepStatInv, UnlinkInv, StartSweepInv, SweepRemoveInv, StopDrainInv
       DEF DrainStep
  <1>4. CASE LosePower
    BY <1>4, LosePowerInv
  <1>5. CASE UNCHANGED vars
    BY <1>5, StutterInv
  <1> QED
    BY <1>1, <1>2, <1>3, <1>4, <1>5 DEF Next

LEMMA Invariant == Spec => []IInv
  BY InitInv, Inductive, PTL DEF Spec

\* The variables stay in their types.
THEOREM SpoolTypes == Spec => []TypeOK
  <1>1. IInv => TypeOK
    BY DEF IInv
  <1> QED
    BY <1>1, Invariant, PTL

\* No drain comes to the end of a file that does not hold its whole record.
THEOREM DrainsWholeFiles == Spec => []NeverTorn
  <1>1. IInv => NeverTorn
    BY DEF IInv
  <1> QED
    BY <1>1, Invariant, PTL

\* A record whose Append returned nil is spooled or delivered, or its new name
\* was lost with the power, or a drain's read of its file failed.
THEOREM RecordsSurvive == Spec => []AckedSurvives
  <1>1. IInv => AckedSurvives
    BY DEF IInv
  <1> QED
    BY <1>1, Invariant, PTL

-------------------------------------------------------------------------------
(* Refinement *)

\* Every step publishes one record, delivers one or fails to read it, removes
\* one after that, settles one on the disk, loses power, or does not show.
LEMMA StepRefines == IInv /\ [Next]_vars => [Promise!Next]_(Promise!vars)
  <1> SUFFICES ASSUME IInv, [Next]_vars  PROVE [Promise!Next]_(Promise!vars)
    OBVIOUS
  <1> DEFINE published == {w \in Writers : wpc[w] = "ok"}
  <1> DEFINE durable == {w \in Writers : onDisk[w] = "jsonl"}
  <1> DEFINE Same == /\ published' = published /\ Named("jsonl")' = Named("jsonl")
                     /\ durable' = durable /\ delivered' = delivered /\ unread' = unread
  <1>0. Same => [Promise!Next]_(Promise!vars)
    BY DEF Promise!vars
  <1>1. ASSUME NEW w \in Writers, AppendStep(w)  PROVE [Promise!Next]_(Promise!vars)
    <2>1. CASE Create(w)
      BY <2>1, <1>0 DEF Create, Named, disk, history, IInv, TypeOK, NamesInv
    <2>2. ASSUME NEW l \in Lines, Write(w, l)  PROVE Same
      BY <2>2 DEF Write, Named, disk, history, IInv, TypeOK, NamesInv
    <2>3. CASE Sync(w)
      BY <2>3, <1>0 DEF Sync, Named, disk, history, IInv, TypeOK, NamesInv
    <2>4. CASE Rename(w)
      <3>1. /\ w \notin published /\ published' = published \cup {w}
            /\ Named("jsonl")' = Named("jsonl") \cup {w}
            /\ durable' = durable /\ delivered' = delivered /\ unread' = unread
        BY <2>4 DEF Rename, Named, disk, history, IInv, TypeOK, NamesInv
      <3> QED
        BY <3>1 DEF Promise!Next, Promise!Publish
    <2>5. CASE Fail(w)
      BY <2>5, <1>0 DEF Fail, Named, disk, history, IInv, TypeOK, NamesInv
    <2>6. CASE Die(w)
      BY <2>6, <1>0 DEF Die, Named, disk, history, IInv, TypeOK, NamesInv
    <2> QED
      BY <1>1, <1>0, <2>1, <2>2, <2>3, <2>4, <2>5, <2>6 DEF AppendStep
  <1>2. ASSUME NEW w \in Writers, Age(w) \/ Flush(w)  PROVE [Promise!Next]_(Promise!vars)
    <2>1. CASE Age(w)
      BY <2>1, <1>0 DEF Age, Named, disk, history
    <2>2. CASE Flush(w)
      <3>1. /\ published' = published /\ Named("jsonl")' = Named("jsonl")
            /\ delivered' = delivered /\ unread' = unread
            /\ durable' = IF w \in Named("jsonl") THEN durable \cup {w} ELSE durable \ {w}
        BY <2>2 DEF Flush, Named, disk, history, IInv, TypeOK
      <3> QED
        BY <3>1 DEF Promise!Next, Promise!Settle
    <2> QED
      BY <1>2, <2>1, <2>2
  <1>3. CASE DrainStep
    <2>1. ASSUME NEW w \in Writers, ReadFile(w)  PROVE [Promise!Next]_(Promise!vars)
      <3>1. line[w] = "whole" /\ w \in Named("jsonl")
        BY <2>1 DEF ReadFile, Named, disk, IInv, TypeOK, NamesInv, DrainInv, SyncInv
      <3>2. /\ published' = published /\ Named("jsonl")' = Named("jsonl")
            /\ durable' = durable
            /\ \/ delivered' = delivered \cup {w} /\ unread' = unread
               \/ unread' = unread \cup {w} /\ delivered' = delivered
        BY <2>1, <3>1 DEF ReadFile, Named, disk
      <3> QED
        BY <3>1, <3>2 DEF Promise!Next, Promise!Deliver, Promise!FailRead
    <2>2. CASE Unlink
      <3>1. /\ cur \in Writers /\ cur \in delivered \cup unread
            /\ published' = published /\ Named("jsonl")' = Named("jsonl") \ {cur}
            /\ durable' = durable /\ delivered' = delivered /\ unread' = unread
        BY <2>2 DEF Unlink, Named, disk, history, IInv, TypeOK, DrainInv
      <3> QED
        BY <3>1 DEF Promise!Next, Promise!Remove
    <2>3. CASE SweepRemove
      BY <2>3, <1>0 DEF SweepRemove, Named, disk, history, IInv, TypeOK
    <2>4. ASSUME NEW w \in Writers, SweepStat(w)  PROVE Same
      BY <2>4 DEF SweepStat, Named, disk, history
    <2>5. CASE Glob \/ StartSweep \/ StopDrain
      BY <2>5, <1>0 DEF Glob, StartSweep, StopDrain, Named, disk, history
    <2> QED
      BY <1>0, <1>3, <2>1, <2>2, <2>3, <2>4, <2>5 DEF DrainStep
  <1>4. CASE LosePower
    <2>1. published' = published /\ delivered' = delivered /\ unread' = unread /\ MayLosePower
      BY <1>4 DEF LosePower, IInv, TypeOK
    <2>2. Named("jsonl")' = durable /\ durable' = durable
      BY <1>4 DEF LosePower, Named, disk
    <2> QED
      BY <2>1, <2>2 DEF Promise!Next, Promise!LosePower
  <1>5. CASE UNCHANGED vars
    BY <1>5, <1>0 DEF vars, Named
  <1> QED
    BY <1>1, <1>2, <1>3, <1>4, <1>5 DEF Next

\* The spool keeps its promise.
THEOREM SpoolRefinement == Spec => KeepsPromise
  <1>1. Init => Promise!Init
    BY DEF Init, Promise!Init, Named
  <1> QED
    BY <1>1, StepRefines, Invariant, PTL DEF Spec, KeepsPromise, Promise!Spec
===============================================================================
