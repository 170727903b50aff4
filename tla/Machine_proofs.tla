----------------------------- MODULE Machine_proofs -----------------------------
(***************************************************************************)
(* The safety properties of Machine, for every value of its constants.     *)
(*                                                                         *)
(* The parts share no variable, so each has an inductive invariant of its  *)
(* own and PartSteps gives every step of the machine as a step of the part *)
(* or a stutter of it.  None of the properties is inductive as it stands:  *)
(*                                                                         *)
(*   BackupInv    the newest name is of the last backup, or a later one,   *)
(*                and no prune under way means to remove it;               *)
(*   ReachInv     one daemon holds the home, and the path is its socket's; *)
(*   ExchangeInv  where each request and its answer are: in the client, in *)
(*                its connection, or lost, and how often it was applied;   *)
(*   IndexInv     the indexes say what the records given to this daemon    *)
(*                say, which it was given in their order, and what a       *)
(*                second pull has yet to come to it will be given;         *)
(*   CaptureInv   what the state files and the hooks under way hold is of  *)
(*                the turn and the command they say, or known as blurred; *)
(*   ConfigInv    the shape of each agent's files, what a run is about to  *)
(*                write, and which files a removal is done with.           *)
(*                                                                         *)
(* Each was checked with TLC on the instance of the run `parts` before it  *)
(* was proved.                                                             *)
(***************************************************************************)
EXTENDS Machine, FiniteSetTheorems, TLAPS

\* A step of the machine is a step of each part, or leaves it alone.
LEMMA PartSteps ==
  ASSUME [Next]_vars
  PROVE  /\ [Config!Next]_configVars /\ [Capture!Next]_captureVars
         /\ [Life!Next]_lifeVars /\ [Index!Next]_indexVars /\ [Backup!Next]_backupVars
BY DEF Next, vars

(***************************************************************************)
(* Backups                                                                 *)
(***************************************************************************)
BackupTypeOK ==
  /\ clock \in Nat /\ taken \in Nat /\ latest \in Nat
  /\ \A b \in data : b.ts \in Nat /\ b.of \in Nat
  /\ job.pc \in {"idle", "writing", "pruning", "removing"}

\* The newest backup by its name is no older than the last one whose name was not
\* behind another, and no prune means to remove it.
BackupInv ==
  /\ BackupTypeOK
  /\ latest <= taken
  /\ job.pc # "removing" => job.prune = {}
  /\ latest # 0 => \E b \in data : /\ b.of >= latest
                                   /\ \A o \in data : o.ts <= b.ts
                                   /\ b \notin job.prune

LEMMA BackupInit == Backup!Init => BackupInv
BY DEF Backup!Init, Backup!Idle, BackupInv, BackupTypeOK

LEMMA SameCardinality == \A S : Backup!Cardinality(S) = Cardinality(S)
BY DEF Backup!Cardinality, Cardinality

\* The newest names are not among those to prune.
LEMMA NewestNotPruned ==
  ASSUME NEW b \in data, BackupTypeOK, \A o \in data : o.ts <= b.ts
  PROVE  b \notin Backup!BackupsToPrune
<1>1. {o \in data : o.ts > b.ts} = {}
  BY DEF BackupTypeOK
<1>2. Keep \in Nat \ {0}
  BY BackupAssumption DEF Backup!BackupAssumption
<1>3. Cardinality({o \in data : o.ts > b.ts}) = 0
  BY <1>1, FS_EmptySet
<1> QED
  BY <1>2, <1>3, SameCardinality DEF Backup!BackupsToPrune

LEMMA BackupStep ==
  ASSUME BackupInv, [Backup!Next]_backupVars
  PROVE  BackupInv'
<1> USE DEF BackupInv, BackupTypeOK, Backup!Idle
<1>1. CASE Backup!Tick
  <2>1. clock' \in Nat
    BY <1>1 DEF Backup!Tick
  <2> QED
    BY <1>1, <2>1 DEF Backup!Tick
<1>2. CASE Backup!WriteBackupFile
  BY <1>2 DEF Backup!WriteBackupFile
<1>3. CASE Backup!BackupFails
  BY <1>3 DEF Backup!BackupFails
<1>4. CASE Backup!Rename
  <2> DEFINE new == [ts |-> clock, of |-> taken]
  <2>1. /\ data' = {b \in data : b.ts # clock} \cup {new} /\ job'.prune = {}
        /\ latest' = IF \A b \in data : b.ts <= clock THEN taken ELSE latest
        /\ UNCHANGED <<clock, taken>> /\ job'.pc = "pruning"
    BY <1>4 DEF Backup!Rename
  <2>2. BackupTypeOK' /\ latest' <= taken'
    BY <2>1
  <2>3. CASE \A b \in data : b.ts <= clock
    <3>1. new \in data' /\ new.of >= latest' /\ \A o \in data' : o.ts <= new.ts
      BY <2>1, <2>3
    <3> QED
      BY <2>1, <2>2, <3>1
  <2>4. CASE ~ \A b \in data : b.ts <= clock
    <3>1. latest' = latest
      BY <2>1, <2>4
    <3>2. ASSUME latest # 0
          PROVE  \E b \in data' : b.of >= latest /\ \A o \in data' : o.ts <= b.ts
      <4>1. PICK b \in data : b.of >= latest /\ \A o \in data : o.ts <= b.ts
        BY <3>2
      <4>2. b.ts > clock
        BY <2>4, <4>1
      <4>3. b \in data' /\ \A o \in data' : o.ts <= b.ts
        BY <2>1, <4>1, <4>2
      <4> QED
        BY <4>1, <4>3
    <3> QED
      BY <2>1, <2>2, <3>1, <3>2
  <2> QED
    BY <2>3, <2>4
<1>5. CASE Backup!ListBackups
  <2>1. ASSUME latest # 0
        PROVE  \E b \in data : /\ b.of >= latest
                               /\ \A o \in data : o.ts <= b.ts
                               /\ b \notin Backup!BackupsToPrune
    BY <2>1, NewestNotPruned
  <2> QED
    BY <1>5, <2>1 DEF Backup!ListBackups
<1>6. CASE Backup!PruneBackups
  <2>1. CASE job.prune = {}
    BY <1>6, <2>1 DEF Backup!PruneBackups
  <2>2. CASE job.prune # {}
    <3>1. PICK x \in job.prune : /\ job' = [job EXCEPT !.prune = @ \ {x}]
                                 /\ data' \in {data, data \ {x}}
      BY <1>6, <2>2 DEF Backup!PruneBackups
    <3>2. UNCHANGED <<clock, taken, latest>> /\ job.pc = "removing"
      BY <1>6 DEF Backup!PruneBackups
    <3>3. job'.pc = job.pc /\ job'.prune \subseteq job.prune
      BY <3>1
    <3>4. data' \subseteq data /\ \A b \in data : b \notin job.prune => b \in data'
      BY <3>1
    <3> QED
      BY <3>2, <3>3, <3>4
  <2> QED
    BY <2>1, <2>2
<1>7. CASE Backup!Dies
  BY <1>7 DEF Backup!Dies
<1>8. CASE UNCHANGED backupVars
  BY <1>8 DEF backupVars
<1> QED
  BY <1>1, <1>2, <1>3, <1>4, <1>5, <1>6, <1>7, <1>8
     DEF Backup!Next, Backup!DoBackup, Backup!BackupTenant

\* The last backup that was not named behind another one stays, whatever dies or
\* fails between the rename and the end of a prune (doBackup, backupTenant,
\* pruneBackups), for any number of backups to keep.
THEOREM LatestBackupKept == Spec => []LatestKept
<1>1. Init => BackupInv
  BY BackupInit DEF Init
<1>2. BackupInv /\ [Next]_vars => BackupInv'
  BY PartSteps, BackupStep
<1>3. BackupInv => LatestKept
  BY DEF BackupInv, LatestKept, Backup!LatestKept
<1> QED
  BY <1>1, <1>2, <1>3, PTL DEF Spec

(***************************************************************************)
(* DaemonLife                                                              *)
(***************************************************************************)
Phases == {"spawned", "locked", "listening", "serving", "closing", "gone"}
Daemons == [phase : Phases, home : Nat, stop : BOOLEAN]
Conns == [to : Nat, inbox : Seq(Nat), outbox : Seq(Nat), late : BOOLEAN]
Pcs == {"new", "dialing", "ready", "send", "wait", "redial", "redialing"}
Clients == [pc : Pcs, req : Nat, again : BOOLEAN, conn : Conns]

Holding == {"locked", "listening", "serving", "closing"}
Bound == {"listening", "serving"}

\* There is one directory, at most one daemon has its lock, and the path is the
\* socket of the one that listens.
OneDaemon ==
  /\ home = 1
  /\ \A k \in DOMAIN daemons : daemons[k].phase \in Holding => daemons[k].home = 1
  /\ \A j, k \in DOMAIN daemons :
       daemons[j].phase \in Holding /\ daemons[k].phase \in Holding => j = k
  /\ \A k \in DOMAIN daemons : daemons[k].phase \in Bound => path = k

ReachInv ==
  /\ daemons \in Seq(Daemons) /\ home \in {1, 2} /\ path \in Nat /\ meddled \in Nat
  /\ meddled = 0 => OneDaemon

\* The requests in v's connection, and those it may still hear of.
Queued(v) == {v.conn.inbox[i] : i \in DOMAIN v.conn.inbox}
Held(v) == Queued(v) \cup ({v.req} \ {0})
Asking(v) == v.pc \in {"send", "wait", "redial", "redialing"}
Allowed(op) == IF op = "query" THEN 2 ELSE 1

\* Where the answer to client v's request may be, unless one ran out of time.
AnswerOK(v) ==
  /\ ~v.conn.late /\ v.pc # "wait" => v.conn.inbox = <<>> /\ v.conn.outbox = <<>>
  /\ ~v.conn.late /\ v.pc = "wait" =>
       \/ v.conn.inbox = <<v.req>> /\ v.conn.outbox = <<>>
       \/ v.conn.inbox = <<>> /\ v.conn.outbox \in {<<>>, <<v.req>>}

\* How often client v's request, one of rs, was carried out (ap) when it can be once
\* more: it was written and not read, or is about to be written.
AskOK(v, rs, ap) ==
  /\ v.req # 0
  /\ v.pc # "wait" => v.req \notin Queued(v)
  /\ v.pc \in {"redial", "redialing"} => v.again
  /\ v.again => rs[v.req] = "query"
  /\ ap[v.req] <= (IF v.again THEN 2 ELSE 1)
  /\ v.pc # "wait" \/ v.req \in Queued(v) => ap[v.req] < (IF v.again THEN 2 ELSE 1)

SendOK(v, rs, ap) ==
  /\ v.conn.to = 0 => v.conn.inbox = <<>>
  /\ \A i, j \in DOMAIN v.conn.inbox : i # j => v.conn.inbox[i] # v.conn.inbox[j]
  /\ Held(v) \subseteq DOMAIN rs
  /\ \A n \in Queued(v) : ap[n] < Allowed(rs[n])
  /\ Asking(v) => AskOK(v, rs, ap)

ExchangeInv ==
  /\ client \in [Client -> Clients]
  /\ reqs \in Seq(Op) /\ applied \in Seq(Nat) /\ Len(applied) = Len(reqs)
  /\ \A c \in Client : AnswerOK(client[c]) /\ SendOK(client[c], reqs, applied)
  /\ \A c, d \in Client : c # d => Held(client[c]) \cap Held(client[d]) = {}
  /\ \A n \in DOMAIN reqs : applied[n] <= Allowed(reqs[n])
  /\ answer.is = answer.to \/ answer.late

LEMMA ReachInit == Life!Init => ReachInv
BY DEF Life!Init, ReachInv, OneDaemon, Daemons

LEMMA UpdatedSeq ==
  ASSUME NEW S, NEW s \in Seq(S), NEW k \in DOMAIN s, NEW d \in S
  PROVE  /\ [s EXCEPT ![k] = d] \in Seq(S) /\ DOMAIN [s EXCEPT ![k] = d] = DOMAIN s
         /\ Len([s EXCEPT ![k] = d]) = Len(s)
         /\ [s EXCEPT ![k] = d][k] = d
         /\ \A j \in DOMAIN s : j # k => [s EXCEPT ![k] = d][j] = s[j]
OBVIOUS

\* One daemon changes.
Changed(k, phase, h) ==
  /\ daemons' \in Seq(Daemons) /\ DOMAIN daemons' = DOMAIN daemons
  /\ \A j \in DOMAIN daemons : j # k => daemons'[j] = daemons[j]
  /\ daemons'[k].phase = phase /\ daemons'[k].home = h

LEMMA DaemonSet ==
  ASSUME daemons \in Seq(Daemons), NEW k \in DOMAIN daemons, NEW d \in Daemons,
         daemons' = [daemons EXCEPT ![k] = d]
  PROVE  Changed(k, d.phase, d.home)
BY UpdatedSeq DEF Changed

LEMMA PhaseSet ==
  ASSUME daemons \in Seq(Daemons), NEW k \in DOMAIN daemons, NEW p \in Phases, Life!Phase(k, p)
  PROVE  Changed(k, p, IF p = "gone" THEN 0 ELSE daemons[k].home)
<1>1. daemons[k] \in Daemons
  OBVIOUS
<1>2. CASE p = "gone"
  <2> DEFINE d == [Life!Spawned EXCEPT !.phase = p]
  <2>1. d \in Daemons /\ d.phase = p /\ d.home = 0
    BY <1>2 DEF Life!Spawned, Daemons, Phases
  <2>2. daemons' = [daemons EXCEPT ![k] = d]
    BY <1>2 DEF Life!Phase
  <2> HIDE DEF d
  <2>3. Changed(k, d.phase, d.home)
    BY <2>1, <2>2, DaemonSet
  <2> QED
    BY <1>2, <2>1, <2>3
<1>3. CASE p # "gone"
  <2> DEFINE d == [daemons[k] EXCEPT !.phase = p]
  <2>1. d \in Daemons /\ d.phase = p /\ d.home = daemons[k].home
    BY <1>1 DEF Daemons
  <2>2. daemons' = [daemons EXCEPT ![k] = d]
    BY <1>3 DEF Life!Phase
  <2> HIDE DEF d
  <2>3. Changed(k, d.phase, d.home)
    BY <2>1, <2>2, DaemonSet
  <2> QED
    BY <1>3, <2>1, <2>3
<1> QED
  BY <1>2, <1>3

\* What the change of one daemon must respect.
LEMMA ReachChanged ==
  ASSUME ReachInv, NEW k \in DOMAIN daemons, NEW p, NEW h, Changed(k, p, h),
         UNCHANGED <<home, meddled>>, path' \in Nat,
         meddled = 0 =>
           /\ p \in Holding =>
                h = 1 /\ \A j \in DOMAIN daemons : daemons[j].phase \in Holding => j = k
           /\ p \in Bound => path' = k
           /\ \A j \in DOMAIN daemons : daemons[j].phase \in Bound => j = k \/ path' = j
  PROVE  ReachInv'
<1> USE DEF Changed
<1>1. /\ daemons' \in Seq(Daemons) /\ home' \in {1, 2} /\ path' \in Nat /\ meddled' \in Nat
  BY DEF ReachInv
<1>2. ASSUME meddled' = 0
      PROVE  OneDaemon'
  <2>1. OneDaemon
    BY <1>2 DEF ReachInv
  <2>2. home' = 1 /\ \A j \in DOMAIN daemons' : daemons'[j].phase \in Holding => daemons'[j].home = 1
    BY <1>2, <2>1 DEF OneDaemon
  <2>3. ASSUME NEW i \in DOMAIN daemons', NEW j \in DOMAIN daemons',
               daemons'[i].phase \in Holding, daemons'[j].phase \in Holding
        PROVE  i = j
    BY <1>2, <2>1, <2>3 DEF OneDaemon
  <2>4. \A j \in DOMAIN daemons' : daemons'[j].phase \in Bound => path' = j
    BY <1>2, <2>1 DEF OneDaemon
  <2> QED
    BY <2>2, <2>3, <2>4 DEF OneDaemon
<1> QED
  BY <1>1, <1>2 DEF ReachInv

\* Nothing that matters here changes.
LEMMA ReachSame ==
  ASSUME ReachInv, UNCHANGED <<home, path, meddled>>, daemons' \in Seq(Daemons),
         \A j \in DOMAIN daemons' :
            \/ daemons'[j].phase = "spawned"
            \/ /\ j \in DOMAIN daemons
               /\ daemons'[j].phase = daemons[j].phase /\ daemons'[j].home = daemons[j].home
  PROVE  ReachInv'
<1>1. \A j \in DOMAIN daemons' : daemons'[j].phase \in Holding =>
        j \in DOMAIN daemons /\ daemons'[j].phase = daemons[j].phase /\ daemons'[j].home = daemons[j].home
  BY DEF Holding
<1>2. Bound \subseteq Holding
  BY DEF Holding, Bound
<1>3. home' \in {1, 2} /\ path' \in Nat /\ meddled' \in Nat /\ (meddled' = 0 => OneDaemon)
  BY DEF ReachInv
<1>4. OneDaemon => OneDaemon'
  BY <1>1, <1>2 DEF OneDaemon
<1> QED
  BY <1>3, <1>4 DEF ReachInv

LEMMA ReachStep ==
  ASSUME ReachInv, [Life!Next]_lifeVars
  PROVE  ReachInv'
<1>0. /\ daemons \in Seq(Daemons) /\ home \in {1, 2} /\ path \in Nat /\ meddled \in Nat
      /\ \A k \in DOMAIN daemons : k \in Nat /\ daemons[k] \in Daemons
  BY DEF ReachInv
<1> USE DEF Holding, Bound
<1>a. meddled = 0 =>
        /\ \A j, k \in DOMAIN daemons : daemons[j].phase \in Holding /\ daemons[k].phase \in Holding => j = k
        /\ \A k \in DOMAIN daemons : daemons[k].phase \in Holding => daemons[k].home = 1
        /\ \A k \in DOMAIN daemons : daemons[k].phase \in Bound => path = k
  BY DEF ReachInv, OneDaemon
<1>b. \A k \in DOMAIN daemons : daemons[k].phase \in Bound => daemons[k].phase \in Holding
  OBVIOUS
<1>1. ASSUME NEW k \in DOMAIN daemons, Life!RunOpen(k)
      PROVE  ReachInv'
  <2>0. UNCHANGED <<home, path, meddled>>
    BY <1>1 DEF Life!RunOpen
  <2>1. CASE Life!Locked(home)
    <3>1. Life!Phase(k, "gone")
      BY <1>1, <2>1 DEF Life!RunOpen
    <3>2. Changed(k, "gone", 0)
      BY <1>0, <3>1, PhaseSet DEF Phases
    <3> QED
      BY <1>0, <1>a, <2>0, <3>2, ReachChanged
  <2>2. CASE ~Life!Locked(home)
    <3> DEFINE d == [daemons[k] EXCEPT !.phase = "locked", !.home = home]
    <3>1. daemons' = [daemons EXCEPT ![k] = d]
      BY <1>0, <1>1, <2>2 DEF Life!RunOpen
    <3>2. d \in Daemons /\ d.phase = "locked" /\ d.home = home
      <4>1. home \in Nat
        BY <1>0
      <4> QED
        BY <1>0, <4>1 DEF Daemons, Phases
    <3> HIDE DEF d
    <3>3. Changed(k, "locked", home)
      BY <1>0, <3>1, <3>2, DaemonSet
    <3>4. meddled = 0 => home = 1 /\ \A j \in DOMAIN daemons : daemons[j].phase \notin Holding
      BY <2>2 DEF Life!Locked, Life!Procs, Life!Holds, ReachInv, OneDaemon, Holding
    <3>5. meddled = 0 => \A j \in DOMAIN daemons : ~daemons[j].phase \in Bound
      BY <1>b, <3>4
    <3> QED
      BY <1>0, <2>0, <3>3, <3>4, <3>5, ReachChanged
  <2> QED
    BY <2>1, <2>2
<1>2. ASSUME NEW k \in DOMAIN daemons, Life!RunListen(k)
      PROVE  ReachInv'
  <2>1. /\ daemons[k].phase = "locked" /\ path' = k /\ Life!Phase(k, "listening")
        /\ UNCHANGED <<home, meddled>>
    BY <1>2 DEF Life!RunListen
  <2>2. Changed(k, "listening", daemons[k].home) /\ daemons[k].phase \in Holding
    BY <1>0, <2>1, PhaseSet DEF Phases
  <2>3. meddled = 0 => /\ daemons[k].home = 1 
                       /\ \A j \in DOMAIN daemons : daemons[j].phase \in Holding => j = k
    BY <1>a, <2>2
  <2> QED
    BY <1>0, <1>b, <2>1, <2>2, <2>3, ReachChanged
<1>3. ASSUME NEW k \in DOMAIN daemons, Life!RunServe(k)
      PROVE  ReachInv'
  <2>1. /\ daemons[k].phase = "listening" /\ UNCHANGED <<home, meddled>>
        /\ \/ Life!Phase(k, "serving") /\ path' = path
           \/ Life!Phase(k, "gone") /\ path' = 0
    BY <1>3 DEF Life!RunServe
  <2>2. daemons[k].phase \in Holding /\ daemons[k].phase \in Bound
    BY <2>1
  <2>3. meddled = 0 => /\ daemons[k].home = 1 /\ path = k
                       /\ \A j \in DOMAIN daemons : daemons[j].phase \in Holding => j = k
    BY <1>a, <2>2
  <2>4. \/ Changed(k, "serving", daemons[k].home) /\ path' = path
        \/ Changed(k, "gone", 0) /\ path' = 0
    BY <1>0, <2>1, PhaseSet DEF Phases
  <2> QED
    BY <1>0, <1>b, <2>1, <2>3, <2>4, ReachChanged
<1>4. ASSUME NEW k \in DOMAIN daemons,
             \/ Life!SocketWatch(k) \/ Life!Shutdown(k) \/ Life!ShutdownEnds(k) \/ Life!Killed(k)
      PROVE  ReachInv'
  <2>1. CASE Life!SocketWatch(k)
    <3> DEFINE d == [daemons[k] EXCEPT !.stop = TRUE]
    <3>1. daemons' = [daemons EXCEPT ![k] = d] /\ UNCHANGED <<home, path, meddled>>
      BY <1>0, <2>1 DEF Life!SocketWatch
    <3>2. d \in Daemons /\ d.phase = daemons[k].phase /\ d.home = daemons[k].home
      BY <1>0 DEF Daemons
    <3> HIDE DEF d
    <3>3. Changed(k, daemons[k].phase, daemons[k].home)
      BY <1>0, <3>1, <3>2, DaemonSet
    <3> QED
      BY <3>1, <3>3, ReachSame DEF Changed
  <2>2. CASE Life!Shutdown(k)
    <3>1. /\ daemons[k].phase = "serving" /\ Life!Phase(k, "closing") /\ path' = 0
          /\ UNCHANGED <<home, meddled>>
      BY <2>2 DEF Life!Shutdown
    <3>2. Changed(k, "closing", daemons[k].home) /\ daemons[k].phase \in Holding
      BY <1>0, <3>1, PhaseSet DEF Phases
    <3>3. meddled = 0 => /\ daemons[k].home = 1
                         /\ \A j \in DOMAIN daemons : daemons[j].phase \in Holding => j = k
      BY <1>a, <3>2
    <3> QED
      BY <1>0, <1>b, <3>1, <3>2, <3>3, ReachChanged
  <2>3. CASE Life!ShutdownEnds(k)
    <3>1. /\ daemons[k].phase = "closing" /\ Life!Phase(k, "gone") /\ path' \in {0, path}
          /\ UNCHANGED <<home, meddled>>
      BY <2>3 DEF Life!ShutdownEnds, Life!SocketLive
    <3>2. Changed(k, "gone", 0) /\ daemons[k].phase \in Holding
      BY <1>0, <3>1, PhaseSet DEF Phases
    <3>3. meddled = 0 => \A j \in DOMAIN daemons : daemons[j].phase \in Holding => j = k
      BY <1>a, <3>2
    <3> QED
      BY <1>0, <1>b, <3>1, <3>2, <3>3, ReachChanged
  <2>4. CASE Life!Killed(k)
    <3>1. Life!Phase(k, "gone") /\ UNCHANGED <<home, path, meddled>>
      BY <2>4 DEF Life!Killed
    <3>2. Changed(k, "gone", 0)
      BY <1>0, <3>1, PhaseSet DEF Phases
    <3> QED
      BY <1>0, <1>a, <3>1, <3>2, ReachChanged
  <2> QED
    BY <1>4, <2>1, <2>2, <2>3, <2>4
<1>5. ASSUME NEW c \in Client, Life!EnsureRunning(c)
      PROVE  ReachInv'
  <2>1. UNCHANGED <<home, path, meddled>> /\ daemons' \in {daemons, Append(daemons, Life!Spawned)}
    BY <1>5 DEF Life!EnsureRunning, Life!SpawnDaemon
  <2>2. CASE daemons' = Append(daemons, Life!Spawned)
    <3>1. Life!Spawned \in Daemons /\ Life!Spawned.phase = "spawned"
      BY DEF Daemons, Phases, Life!Spawned
    <3>2. /\ daemons' \in Seq(Daemons) /\ DOMAIN daemons' = 1..Len(daemons) + 1
          /\ \A j \in DOMAIN daemons' : \/ j \in DOMAIN daemons /\ daemons'[j] = daemons[j]
                                        \/ daemons'[j] = Life!Spawned
      BY <1>0, <2>2, <3>1
    <3> QED
      BY <2>1, <3>1, <3>2, ReachSame
  <2>3. CASE daemons' = daemons
    BY <1>0, <2>1, <2>3, ReachSame
  <2> QED
    BY <2>1, <2>2, <2>3
<1>6. ASSUME NEW c \in Client, Life!Dispatch(c)
      PROVE  ReachInv'
  <2>1. UNCHANGED <<home, path, meddled>>
    BY <1>6 DEF Life!Dispatch
  <2>2. CASE daemons' = daemons
    BY <1>0, <2>1, <2>2, ReachSame
  <2>3. CASE daemons' # daemons
    <3> DEFINE k == client[c].conn.to
               d == [daemons[k] EXCEPT !.stop = TRUE]
    <3>1. daemons' = [daemons EXCEPT ![k].stop = TRUE]
      BY <1>6, <2>3 DEF Life!Dispatch
    <3>2. k \in DOMAIN daemons /\ daemons' = [daemons EXCEPT ![k] = d]
      BY <1>0, <2>3, <3>1
    <3>3. d \in Daemons /\ d.phase = daemons[k].phase /\ d.home = daemons[k].home
      BY <1>0, <3>2 DEF Daemons
    <3> HIDE DEF d, k
    <3>4. Changed(k, daemons[k].phase, daemons[k].home)
      BY <1>0, <3>2, <3>3, DaemonSet
    <3> QED
      BY <2>1, <3>2, <3>4, ReachSame DEF Changed
  <2> QED
    BY <2>2, <2>3
<1>7. ASSUME NEW c \in Client,
             \/ Life!Dial(c) \/ Life!GiveUp(c) \/ Life!Roundtrip(c) \/ Life!ExchangeWrite(c)
             \/ Life!ExchangeRead(c) \/ Life!Deadline(c)
      PROVE  ReachInv'
  <2>1. UNCHANGED <<daemons, home, path, meddled>>
    BY <1>7 DEF Life!Dial, Life!GiveUp, Life!Roundtrip, Life!ExchangeWrite, Life!ExchangeRead,
                Life!Deadline
  <2> QED
    BY <1>0, <2>1, ReachSame
<1>8. CASE Life!RemoveSocket \/ Life!MoveDirectory
  <2>1. /\ daemons' = daemons /\ home' \in {1, 2} /\ path' = 0 /\ meddled' = meddled + 1
    BY <1>0, <1>8 DEF Life!RemoveSocket, Life!MoveDirectory
  <2> QED
    BY <1>0, <2>1 DEF ReachInv
<1>9. CASE UNCHANGED lifeVars
  BY <1>9 DEF lifeVars, ReachInv, OneDaemon
<1> QED
  BY <1>1, <1>2, <1>3, <1>4, <1>5, <1>6, <1>7, <1>8, <1>9 DEF Life!Next, Life!Procs

\* Unless somebody else touches the socket or the directory, no start, race, stop or
\* crash (Run, shutdown, socketWatchLoop) leaves a daemon serving where no client can
\* reach it, however many are started.
THEOREM ServingIsReachable == Spec => []Reachable
<1>1. Init => ReachInv
  BY ReachInit DEF Init
<1>2. ReachInv /\ [Next]_vars => ReachInv'
  BY PartSteps, ReachStep
<1>3. ReachInv => Reachable
  BY DEF ReachInv, OneDaemon, Bound, Reachable, Life!Reachable, Life!Procs
<1> QED
  BY <1>1, <1>2, <1>3, PTL DEF Spec

LEMMA Appended ==
  ASSUME NEW S, NEW q \in Seq(S), NEW x \in S
  PROVE  /\ Append(q, x) \in Seq(S) /\ DOMAIN Append(q, x) = DOMAIN q \cup {Len(q) + 1}
         /\ \A i \in DOMAIN q : Append(q, x)[i] = q[i]
         /\ Append(q, x)[Len(q) + 1] = x /\ Len(q) + 1 \notin DOMAIN q
OBVIOUS

LEMMA Tailed ==
  ASSUME NEW S, NEW q \in Seq(S), q # <<>>
  PROVE  /\ Tail(q) \in Seq(S) /\ Head(q) = q[1] /\ 1 \in DOMAIN q
         /\ \A i \in DOMAIN Tail(q) : i + 1 \in DOMAIN q /\ Tail(q)[i] = q[i + 1] /\ i \in Nat \ {0}
OBVIOUS

LEMMA TailOfOne == \A x : Tail(<<x>>) = <<>> /\ Head(<<x>>) = x
OBVIOUS

LEMMA ExchangeInit == Life!Init => ExchangeInv
<1>1. ASSUME Life!Init
      PROVE  ExchangeInv
  <2> DEFINE v == [pc |-> "new", req |-> 0, again |-> FALSE, conn |-> Life!Conn]
  <2>1. /\ client = [c \in Client |-> v] /\ reqs = <<>> /\ applied = <<>>
        /\ answer.is = answer.to
    BY <1>1 DEF Life!Init
  <2>2. v \in Clients /\ v.conn.inbox = <<>> /\ v.conn.outbox = <<>> /\ v.req = 0 /\ v.pc = "new"
    BY DEF Clients, Conns, Pcs, Life!Conn
  <2> HIDE DEF v
  <2>3. Queued(v) = {} /\ Held(v) = {}
    BY <2>2 DEF Queued, Held
  <2>4. AnswerOK(v) /\ SendOK(v, <<>>, <<>>)
    BY <2>2, <2>3 DEF AnswerOK, SendOK, Asking
  <2> QED
    BY <2>1, <2>2, <2>3, <2>4 DEF ExchangeInv
<1> QED
  BY <1>1

\* One client changes, and makes no new request.
LEMMA OneClient ==
  ASSUME ExchangeInv, NEW c \in Client, NEW v \in Clients, client' = [client EXCEPT ![c] = v],
         UNCHANGED <<reqs, applied>>, AnswerOK(v), SendOK(v, reqs, applied),
         Held(v) \subseteq Held(client[c]), answer'.is = answer'.to \/ answer'.late
  PROVE  ExchangeInv'
<1>1. /\ client' \in [Client -> Clients] /\ client'[c] = v
      /\ \A d \in Client : d # c => client'[d] = client[d]
  BY DEF ExchangeInv
<1>2. \A d \in Client : AnswerOK(client'[d]) /\ SendOK(client'[d], reqs, applied)
  BY <1>1 DEF ExchangeInv
<1>3. ASSUME NEW d \in Client, NEW e \in Client, d # e
      PROVE  Held(client'[d]) \cap Held(client'[e]) = {}
  <2>1. Held(client[d]) \cap Held(client[e]) = {}
    BY <1>3 DEF ExchangeInv
  <2>2. \A f \in Client : Held(client'[f]) \subseteq Held(client[f])
    BY <1>1
  <2> QED
    BY <2>1, <2>2
<1> QED
  BY <1>1, <1>2, <1>3 DEF ExchangeInv

\* A connection just made.
LEMMA FreshConnection ==
  ASSUME NEW rs, NEW ap, NEW u \in Clients, SendOK(u, rs, ap), path \in Nat, NEW p \in Pcs,
         \/ u.pc \in {"new", "dialing"} /\ p = "ready"
         \/ u.pc \in {"redial", "redialing"} /\ p = "send"
  PROVE  LET v == [u EXCEPT !.conn = [Life!Conn EXCEPT !.to = path], !.pc = p] IN
           /\ v \in Clients /\ AnswerOK(v) /\ SendOK(v, rs, ap) /\ Held(v) \subseteq Held(u)
<1> DEFINE v == [u EXCEPT !.conn = [Life!Conn EXCEPT !.to = path], !.pc = p]
<1>1. /\ v \in Clients /\ v.conn.inbox = <<>> /\ v.conn.outbox = <<>>
      /\ v.req = u.req /\ v.again = u.again /\ v.pc = p
  <2> DEFINE k == [Life!Conn EXCEPT !.to = path]
  <2>0. Life!Conn \in Conns /\ Life!Conn.inbox = <<>> /\ Life!Conn.outbox = <<>>
    BY DEF Life!Conn, Conns
  <2>1. k \in Conns /\ k.inbox = <<>> /\ k.outbox = <<>>
    BY <2>0 DEF Conns
  <2> HIDE DEF k
  <2>2. v = [u EXCEPT !.conn = k, !.pc = p]
    BY DEF k
  <2> HIDE DEF v
  <2> QED
    BY <2>1, <2>2 DEF Clients
<1> HIDE DEF v
<1>2. Queued(v) = {} /\ Held(v) \subseteq Held(u)
  BY <1>1 DEF Queued, Held
<1>3. AnswerOK(v)
  BY <1>1 DEF AnswerOK
<1>4. Asking(v) => AskOK(v, rs, ap)
  BY <1>1, <1>2 DEF SendOK, AskOK, Asking
<1>5. SendOK(v, rs, ap)
  BY <1>1, <1>2, <1>4 DEF SendOK
<1> QED
  BY <1>1, <1>2, <1>3, <1>5 DEF v

LEMMA DialKeeps ==
  ASSUME ReachInv, ExchangeInv, NEW c \in Client, Life!EnsureRunning(c) \/ Life!Dial(c) \/ Life!GiveUp(c)
  PROVE  ExchangeInv'
<1>0. /\ client \in [Client -> Clients] /\ client[c] \in Clients /\ path \in Nat
      /\ AnswerOK(client[c]) /\ SendOK(client[c], reqs, applied)
      /\ answer.is = answer.to \/ answer.late
  BY DEF ReachInv, ExchangeInv
<1>1. UNCHANGED <<reqs, applied, answer>>
  BY DEF Life!EnsureRunning, Life!Dial, Life!GiveUp
<1>2. ASSUME NEW p \in Pcs, client' = [client EXCEPT ![c] =
               [client[c] EXCEPT !.conn = [Life!Conn EXCEPT !.to = path], !.pc = p]],
             \/ client[c].pc \in {"new", "dialing"} /\ p = "ready"
             \/ client[c].pc \in {"redial", "redialing"} /\ p = "send"
      PROVE  ExchangeInv'
  <2> DEFINE v == [client[c] EXCEPT !.conn = [Life!Conn EXCEPT !.to = path], !.pc = p]
  <2>1. /\ v \in Clients /\ AnswerOK(v) /\ SendOK(v, reqs, applied) /\ Held(v) \subseteq Held(client[c])
    BY <1>0, <1>2, FreshConnection
  <2>2. client' = [client EXCEPT ![c] = v]
    BY <1>2
  <2> HIDE DEF v
  <2> QED
    BY <1>0, <1>1, <2>1, <2>2, OneClient
<1>3. ASSUME NEW p \in Pcs, NEW a \in BOOLEAN,
             client' = [client EXCEPT ![c] = [client[c] EXCEPT !.pc = p, !.again = a]],
             \/ client[c].pc \in {"new", "dialing", "redialing"} /\ p \in {"new", "dialing", "ready"}
             \/ client[c].pc = "redial" /\ p = "redialing" /\ a = client[c].again
      PROVE  ExchangeInv'
  <2> DEFINE v == [client[c] EXCEPT !.pc = p, !.again = a]
  <2>1. /\ v \in Clients /\ v.pc = p /\ v.again = a /\ v.req = client[c].req /\ v.conn = client[c].conn
    BY <1>0 DEF Clients
  <2>2. client' = [client EXCEPT ![c] = v]
    BY <1>3
  <2> HIDE DEF v
  <2>3. Queued(v) = Queued(client[c]) /\ Held(v) = Held(client[c])
    BY <2>1 DEF Queued, Held
  <2>4. AnswerOK(v)
    BY <1>0, <1>3, <2>1 DEF AnswerOK
  <2>5. SendOK(v, reqs, applied)
    BY <1>0, <1>3, <2>1, <2>3 DEF SendOK, AskOK, Asking
  <2> QED
    BY <1>0, <1>1, <2>1, <2>2, <2>3, <2>4, <2>5, OneClient
<1>4. CASE Life!EnsureRunning(c)
  <2>1. CASE Life!CanDial
    <3>1. client' = [client EXCEPT ![c] = [client[c] EXCEPT
             !.conn = [Life!Conn EXCEPT !.to = path],
             !.pc = IF client[c].pc = "new" THEN "ready" ELSE "send"]]
      BY <1>0, <1>4, <2>1 DEF Life!EnsureRunning, Life!Connected
    <3>2. client[c].pc \in {"new", "redial"}
      BY <1>4 DEF Life!EnsureRunning
    <3> QED
      BY <1>2, <3>1, <3>2 DEF Pcs
  <2>2. CASE ~Life!CanDial
    <3>1. client' = [client EXCEPT ![c] = [client[c] EXCEPT
             !.pc = IF client[c].pc = "new" THEN "dialing" ELSE "redialing",
             !.again = client[c].again]]
      BY <1>0, <1>4, <2>2 DEF Life!EnsureRunning, Clients
    <3>2. client[c].pc \in {"new", "redial"} /\ client[c].again \in BOOLEAN
      BY <1>0, <1>4 DEF Life!EnsureRunning, Clients
    <3> QED
      BY <1>3, <3>1, <3>2 DEF Pcs
  <2> QED
    BY <2>1, <2>2
<1>5. CASE Life!Dial(c)
  <2>1. client' = [client EXCEPT ![c] = [client[c] EXCEPT
           !.conn = [Life!Conn EXCEPT !.to = path],
           !.pc = IF client[c].pc = "dialing" THEN "ready" ELSE "send"]]
    BY <1>0, <1>5 DEF Life!Dial, Life!Connected
  <2>2. client[c].pc \in {"dialing", "redialing"}
    BY <1>5 DEF Life!Dial
  <2> QED
    BY <1>2, <2>1, <2>2 DEF Pcs
<1>6. CASE Life!GiveUp(c)
  <2>1. client' = [client EXCEPT ![c] = [client[c] EXCEPT
           !.pc = IF client[c].pc = "dialing" THEN "new" ELSE "ready", !.again = FALSE]]
    BY <1>0, <1>6 DEF Life!GiveUp
  <2>2. client[c].pc \in {"dialing", "redialing"}
    BY <1>6 DEF Life!GiveUp
  <2> QED
    BY <1>3, <2>1, <2>2 DEF Pcs
<1> QED
  BY <1>4, <1>5, <1>6

\* The connection is gone: asked once more, or reported.
LEMMA LostKeeps ==
  ASSUME ExchangeInv, NEW c \in Client, Life!Lost(c), client[c].pc \in {"send", "wait"},
         client[c].conn.to = 0, client[c].conn.outbox = <<>> \/ client[c].pc = "send",
         UNCHANGED <<reqs, applied, answer>>
  PROVE  ExchangeInv'
<1> DEFINE u == client[c]
<1>0. /\ client \in [Client -> Clients] /\ u \in Clients
      /\ AnswerOK(u) /\ SendOK(u, reqs, applied) /\ reqs \in Seq(Op)
      /\ answer.is = answer.to \/ answer.late
  BY DEF ExchangeInv
<1>1. u.conn.inbox = <<>> /\ Queued(u) = {}
  BY <1>0 DEF SendOK, Queued
<1>2. AskOK(u, reqs, applied) /\ u.req \in DOMAIN reqs
  BY <1>0 DEF SendOK, Asking, AskOK, Held
<1>3. CASE ~u.again /\ Life!Resumable(reqs[u.req])
  <2> DEFINE v == [u EXCEPT !.pc = "redial", !.again = TRUE]
  <2>1. /\ v \in Clients /\ v.pc = "redial" /\ v.again /\ v.req = u.req /\ v.conn = u.conn
    BY <1>0 DEF Clients, Pcs
  <2>2. client' = [client EXCEPT ![c] = v]
    BY <1>0, <1>3 DEF Life!Lost
  <2>3. reqs[u.req] = "query"
    <3>1. reqs[u.req] \in Op
      BY <1>0, <1>2
    <3> QED
      BY <1>3, <3>1, LifeAssumption DEF Life!LifeAssumption, Life!Resumable
  <2> HIDE DEF v
  <2>4. Queued(v) = {} /\ Held(v) = Held(u)
    BY <1>1, <2>1 DEF Queued, Held
  <2>5. AnswerOK(v)
    BY <1>0, <1>1, <2>1 DEF AnswerOK
  <2>6. AskOK(v, reqs, applied)
    <3>1. applied[u.req] <= 1 
      BY <1>2, <1>3 DEF AskOK
    <3>2. applied[u.req] \in Nat
      BY <1>2 DEF ExchangeInv
    <3> QED
      BY <1>2, <2>1, <2>3, <2>4, <3>1, <3>2 DEF AskOK
  <2>7. SendOK(v, reqs, applied)
    BY <1>0, <1>1, <2>1, <2>4, <2>6 DEF SendOK
  <2> QED
    BY <1>0, <2>1, <2>2, <2>4, <2>5, <2>7, OneClient
<1>4. CASE ~(~u.again /\ Life!Resumable(reqs[u.req]))
  <2> DEFINE v == [u EXCEPT !.pc = "ready"]
  <2>1. /\ v \in Clients /\ v.pc = "ready" /\ v.req = u.req /\ v.conn = u.conn
    BY <1>0 DEF Clients, Pcs
  <2>2. client' = [client EXCEPT ![c] = v]
    BY <1>0, <1>4 DEF Life!Lost
  <2> HIDE DEF v
  <2>3. Queued(v) = {} /\ Held(v) = Held(u)
    BY <1>1, <2>1 DEF Queued, Held
  <2>4. AnswerOK(v)
    BY <1>0, <1>1, <2>1 DEF AnswerOK
  <2>5. SendOK(v, reqs, applied)
    BY <1>0, <1>1, <2>1, <2>3 DEF SendOK, Asking
  <2> QED
    BY <1>0, <2>1, <2>2, <2>3, <2>4, <2>5, OneClient
<1> QED
  BY <1>3, <1>4

LEMMA WriteKeeps ==
  ASSUME ExchangeInv, NEW c \in Client, Life!ExchangeWrite(c)
  PROVE  ExchangeInv'
<1> DEFINE u == client[c]
<1>0. /\ client \in [Client -> Clients] /\ u \in Clients
      /\ AnswerOK(u) /\ SendOK(u, reqs, applied)
      /\ answer.is = answer.to \/ answer.late
  BY DEF ExchangeInv
<1>1. u.pc = "send" /\ UNCHANGED <<reqs, applied, answer>>
  BY DEF Life!ExchangeWrite
<1>2. CASE u.conn.to = 0
  BY <1>1, <1>2, LostKeeps DEF Life!ExchangeWrite
<1>3. CASE u.conn.to # 0
  <2> DEFINE k == [u.conn EXCEPT !.inbox = Append(@, u.req)]
             v == [u EXCEPT !.conn = k, !.pc = "wait"]
  <2>1. client' = [client EXCEPT ![c] = v]
    BY <1>0, <1>3 DEF Life!ExchangeWrite
  <2>2. u.conn \in Conns /\ u.req \in Nat
    BY <1>0 DEF Clients
  <2>3. /\ k \in Conns /\ k.to = u.conn.to /\ k.inbox = Append(u.conn.inbox, u.req)
        /\ k.outbox = u.conn.outbox /\ k.late = u.conn.late
    <3>1. u.conn.inbox \in Seq(Nat)
      BY <2>2 DEF Conns
    <3>2. Append(u.conn.inbox, u.req) \in Seq(Nat)
      BY <2>2, <3>1, Appended
    <3> QED
      BY <2>2, <3>2 DEF Conns
  <2> HIDE DEF k
  <2>4. /\ v \in Clients /\ v.pc = "wait" /\ v.req = u.req /\ v.again = u.again /\ v.conn = k
    BY <1>0, <2>3 DEF Clients, Pcs
  <2> HIDE DEF v
  <2>5. u.conn.inbox \in Seq(Nat)
    BY <2>2 DEF Conns
  <2>6. Queued(v) = Queued(u) \cup {u.req}
    <3> DEFINE q == Append(u.conn.inbox, u.req)
    <3>1. /\ DOMAIN q = DOMAIN u.conn.inbox \cup {Len(u.conn.inbox) + 1}
          /\ \A i \in DOMAIN u.conn.inbox : q[i] = u.conn.inbox[i]
          /\ q[Len(u.conn.inbox) + 1] = u.req
      <4>1. PICK b \in Seq(Nat), x \in Nat : b = u.conn.inbox /\ x = u.req
        BY <2>2, <2>5
      <4>2. /\ DOMAIN Append(b, x) = DOMAIN b \cup {Len(b) + 1}
            /\ \A i \in DOMAIN b : Append(b, x)[i] = b[i]
            /\ Append(b, x)[Len(b) + 1] = x /\ Len(b) + 1 \notin DOMAIN b
        BY Appended
      <4> QED
        BY <4>1, <4>2
    <3>2. v.conn.inbox = q
      BY <2>3, <2>4
    <3> HIDE DEF q
    <3> QED
      BY <3>1, <3>2 DEF Queued
  <2>7. AskOK(u, reqs, applied) /\ u.req # 0 /\ u.req \notin Queued(u)
    BY <1>0, <1>1 DEF SendOK, Asking, AskOK
  <2>8. Held(v) = Held(u)
    BY <2>4, <2>6, <2>7 DEF Held
  <2>9. AnswerOK(v)
    BY <1>0, <1>1, <2>2, <2>3, <2>4 DEF AnswerOK
  <2>10. AskOK(v, reqs, applied)
    BY <1>1, <2>4, <2>7 DEF AskOK
  <2>11. \A n \in Queued(v) : applied[n] < Allowed(reqs[n])
    <3>1. u.req \in DOMAIN reqs /\ applied[u.req] \in Nat
      BY <1>0, <2>7 DEF SendOK, Held, ExchangeInv
    <3>2. applied[u.req] < Allowed(reqs[u.req])
      BY <1>1, <2>7, <3>1 DEF AskOK, Allowed
    <3> QED
      BY <1>0, <2>6, <3>2 DEF SendOK
  <2>12. \A i, j \in DOMAIN v.conn.inbox : i # j => v.conn.inbox[i] # v.conn.inbox[j]
    <3>1. \A i \in DOMAIN u.conn.inbox : u.conn.inbox[i] # u.req
      BY <2>7 DEF Queued
    <3>2. \A i, j \in DOMAIN u.conn.inbox : i # j => u.conn.inbox[i] # u.conn.inbox[j]
      BY <1>0 DEF SendOK
    <3> DEFINE q == Append(u.conn.inbox, u.req)
    <3>3. /\ DOMAIN q = DOMAIN u.conn.inbox \cup {Len(u.conn.inbox) + 1}
          /\ \A i \in DOMAIN u.conn.inbox : q[i] = u.conn.inbox[i]
          /\ q[Len(u.conn.inbox) + 1] = u.req /\ Len(u.conn.inbox) + 1 \notin DOMAIN u.conn.inbox
      <4>1. PICK b \in Seq(Nat), x \in Nat : b = u.conn.inbox /\ x = u.req
        BY <2>2, <2>5
      <4>2. /\ DOMAIN Append(b, x) = DOMAIN b \cup {Len(b) + 1}
            /\ \A i \in DOMAIN b : Append(b, x)[i] = b[i]
            /\ Append(b, x)[Len(b) + 1] = x /\ Len(b) + 1 \notin DOMAIN b
        BY Appended
      <4> QED
        BY <4>1, <4>2
    <3>4. v.conn.inbox = q
      BY <2>3, <2>4
    <3> HIDE DEF q
    <3> QED
      BY <3>1, <3>2, <3>3, <3>4
  <2>13. SendOK(v, reqs, applied)
    BY <1>0, <1>3, <2>3, <2>4, <2>8, <2>10, <2>11, <2>12 DEF SendOK
  <2> QED
    BY <1>0, <1>1, <2>1, <2>4, <2>8, <2>9, <2>13, OneClient
<1> QED
  BY <1>2, <1>3

LEMMA ReadKeeps ==
  ASSUME ExchangeInv, NEW c \in Client, Life!ExchangeRead(c)
  PROVE  ExchangeInv'
<1> DEFINE u == client[c]
<1>0. /\ client \in [Client -> Clients] /\ u \in Clients
      /\ AnswerOK(u) /\ SendOK(u, reqs, applied)
  BY DEF ExchangeInv
<1>1. u.pc = "wait" /\ UNCHANGED <<reqs, applied>>
  BY DEF Life!ExchangeRead
<1>2. CASE /\ u.conn.outbox # <<>>
           /\ answer' = [to |-> u.req, is |-> Head(u.conn.outbox), late |-> u.conn.late]
           /\ client' = [client EXCEPT ![c].conn.outbox = Tail(@), ![c].pc = "ready"]
  <2> DEFINE k == [u.conn EXCEPT !.outbox = Tail(@)]
             v == [u EXCEPT !.conn = k, !.pc = "ready"]
  <2>1. client' = [client EXCEPT ![c] = v]
    BY <1>0, <1>2
  <2>2. u.conn \in Conns
    BY <1>0 DEF Clients
  <2>3. /\ k \in Conns /\ k.to = u.conn.to /\ k.inbox = u.conn.inbox
        /\ k.outbox = Tail(u.conn.outbox) /\ k.late = u.conn.late
    <3>1. u.conn.outbox \in Seq(Nat)
      BY <2>2 DEF Conns
    <3>2. Tail(u.conn.outbox) \in Seq(Nat)
      BY <1>2, <3>1, Tailed
    <3> QED
      BY <2>2, <3>2 DEF Conns
  <2> HIDE DEF k
  <2>4. v \in Clients /\ v.pc = "ready" /\ v.req = u.req /\ v.conn = k
    BY <1>0, <2>3 DEF Clients, Pcs
  <2> HIDE DEF v
  <2>5. Queued(v) = Queued(u) /\ Held(v) = Held(u)
    BY <2>3, <2>4 DEF Queued, Held
  <2>6. ~u.conn.late => u.conn.inbox = <<>> /\ u.conn.outbox = <<u.req>>
    BY <1>0, <1>1, <1>2 DEF AnswerOK
  <2>7. AnswerOK(v)
    BY <2>3, <2>4, <2>6, TailOfOne DEF AnswerOK
  <2>8. SendOK(v, reqs, applied)
    BY <1>0, <2>3, <2>4, <2>5 DEF SendOK, Asking
  <2>9. answer'.is = answer'.to \/ answer'.late
    BY <1>2, <2>6
  <2> QED
    BY <1>1, <2>1, <2>4, <2>5, <2>7, <2>8, <2>9, OneClient
<1>3. CASE u.conn.to = 0 /\ u.conn.outbox = <<>> /\ Life!Lost(c) /\ UNCHANGED answer
  BY <1>1, <1>3, LostKeeps
<1> QED
  BY <1>2, <1>3 DEF Life!ExchangeRead

LEMMA DeadlineKeeps ==
  ASSUME ExchangeInv, NEW c \in Client, Life!Deadline(c)
  PROVE  ExchangeInv'
<1> DEFINE u == client[c]
           k == [u.conn EXCEPT !.late = TRUE]
           v == [u EXCEPT !.conn = k, !.pc = "ready"]
<1>0. /\ client \in [Client -> Clients] /\ u \in Clients
      /\ SendOK(u, reqs, applied) /\ (answer.is = answer.to \/ answer.late)
  BY DEF ExchangeInv
<1>1. client' = [client EXCEPT ![c] = v] /\ UNCHANGED <<reqs, applied, answer>>
  BY <1>0 DEF Life!Deadline
<1>2. u.conn \in Conns
  BY <1>0 DEF Clients
<1>3. k \in Conns /\ k.to = u.conn.to /\ k.inbox = u.conn.inbox /\ k.late
  BY <1>2 DEF Conns
<1> HIDE DEF k
<1>4. v \in Clients /\ v.pc = "ready" /\ v.req = u.req /\ v.conn = k
  BY <1>0, <1>3 DEF Clients, Pcs
<1> HIDE DEF v
<1>5. Queued(v) = Queued(u) /\ Held(v) = Held(u)
  BY <1>3, <1>4 DEF Queued, Held
<1>6. AnswerOK(v) /\ SendOK(v, reqs, applied)
  BY <1>0, <1>3, <1>4, <1>5 DEF AnswerOK, SendOK, Asking
<1> QED
  BY <1>0, <1>1, <1>4, <1>5, <1>6, OneClient

\* What client v may send depends on the requests it holds only.
LEMMA SendAgrees ==
  ASSUME NEW v, NEW rs, NEW ap, NEW rs2, NEW ap2, SendOK(v, rs, ap),
         Held(v) \subseteq DOMAIN rs2,
         \A n \in Held(v) : rs2[n] = rs[n] /\ ap2[n] = ap[n]
  PROVE  SendOK(v, rs2, ap2)
<1>1. Queued(v) \subseteq Held(v)
  BY DEF Held
<1>2. \A n \in Queued(v) : ap2[n] < Allowed(rs2[n])
  BY <1>1 DEF SendOK
<1>3. ASSUME Asking(v)
      PROVE  AskOK(v, rs2, ap2)
  <2>1. AskOK(v, rs, ap)
    BY <1>3 DEF SendOK
  <2>2. v.req \in Held(v)
    BY <2>1 DEF AskOK, Held
  <2> QED
    BY <2>1, <2>2 DEF AskOK
<1> QED
  BY <1>2, <1>3 DEF SendOK

LEMMA RoundtripKeeps ==
  ASSUME ExchangeInv, NEW c \in Client, Life!Roundtrip(c)
  PROVE  ExchangeInv'
<1> DEFINE u == client[c]
           n == Len(reqs) + 1
           v == [u EXCEPT !.pc = "send", !.req = n, !.again = FALSE]
<1>0. /\ client \in [Client -> Clients] /\ u \in Clients
      /\ AnswerOK(u) /\ SendOK(u, reqs, applied) /\ u.pc = "ready"
      /\ reqs \in Seq(Op) /\ applied \in Seq(Nat) /\ Len(applied) = Len(reqs)
      /\ n \in Nat /\ n \notin DOMAIN reqs /\ n # 0
  BY DEF ExchangeInv, Life!Roundtrip
<1>1. PICK op \in Op : /\ reqs' = Append(reqs, op) /\ applied' = Append(applied, 0)
                       /\ client' = [client EXCEPT ![c] = v]
  BY <1>0 DEF Life!Roundtrip
<1>2. /\ reqs' \in Seq(Op) /\ applied' \in Seq(Nat) /\ Len(applied') = Len(reqs')
      /\ DOMAIN reqs' = DOMAIN reqs \cup {n} /\ applied'[n] = 0 /\ reqs'[n] \in Op
      /\ \A i \in DOMAIN reqs : reqs'[i] = reqs[i] /\ applied'[i] = applied[i]
  <2> HIDE DEF v, u
  <2> QED
    BY <1>0, <1>1
<1>3. v \in Clients /\ v.pc = "send" /\ v.req = n /\ v.again = FALSE /\ v.conn = u.conn
  BY <1>0 DEF Clients, Pcs
<1>4. /\ client' \in [Client -> Clients] /\ client'[c] = v /\ answer' = answer
      /\ \A d \in Client : d # c => client'[d] = client[d]
  BY <1>0, <1>1, <1>3 DEF Life!Roundtrip
<1> HIDE DEF v, n
<1>5. Queued(v) = Queued(u) /\ Held(v) = Queued(u) \cup {n} /\ Queued(u) \subseteq Held(u)
  BY <1>0, <1>3 DEF Queued, Held
<1>6. AnswerOK(v)
  BY <1>0, <1>3 DEF AnswerOK
<1>7. Held(u) \subseteq DOMAIN reqs
  BY <1>0 DEF SendOK
<1>8. SendOK(v, reqs', applied')
  <2>1. \A i \in Queued(v) : applied'[i] < Allowed(reqs'[i])
    BY <1>0, <1>2, <1>5, <1>7 DEF SendOK
  <2>2. AskOK(v, reqs', applied')
    BY <1>0, <1>2, <1>3, <1>5, <1>7 DEF AskOK
  <2> QED
    BY <1>0, <1>2, <1>3, <1>5, <1>7, <2>1, <2>2 DEF SendOK
<1>9. \A d \in Client : AnswerOK(client'[d]) /\ SendOK(client'[d], reqs', applied')
  <2> TAKE d \in Client
  <2>1. CASE d = c
    BY <1>4, <1>6, <1>8, <2>1
  <2>2. CASE d # c
    <3>1. AnswerOK(client[d]) /\ SendOK(client[d], reqs, applied)
      BY DEF ExchangeInv
    <3>2. Held(client[d]) \subseteq DOMAIN reqs
      BY <3>1 DEF SendOK
    <3>3. SendOK(client[d], reqs', applied')
      BY <1>2, <3>1, <3>2, SendAgrees
    <3> QED
      BY <1>4, <2>2, <3>1, <3>3
  <2> QED
    BY <2>1, <2>2
<1>10. ASSUME NEW d \in Client, NEW e \in Client, d # e
       PROVE  Held(client'[d]) \cap Held(client'[e]) = {}
  <2>1. Held(client[d]) \cap Held(client[e]) = {}
    BY <1>10 DEF ExchangeInv
  <2>2. Held(client[d]) \subseteq DOMAIN reqs /\ Held(client[e]) \subseteq DOMAIN reqs
    BY DEF ExchangeInv, SendOK
  <2>3. CASE d = c
    BY <1>0, <1>4, <1>5, <1>10, <2>1, <2>2, <2>3
  <2>4. CASE e = c
    BY <1>0, <1>4, <1>5, <1>10, <2>1, <2>2, <2>4
  <2>5. CASE d # c /\ e # c
    BY <1>4, <2>1, <2>5
  <2> QED
    BY <2>3, <2>4, <2>5
<1>11. \A i \in DOMAIN reqs' : applied'[i] <= Allowed(reqs'[i])
  <2>1. \A i \in DOMAIN reqs : applied[i] <= Allowed(reqs[i])
    BY DEF ExchangeInv
  <2>2. applied'[n] <= Allowed(reqs'[n])
    BY <1>2 DEF Allowed
  <2> QED
    BY <1>2, <2>1, <2>2
<1>12. answer'.is = answer'.to \/ answer'.late
  BY <1>4 DEF ExchangeInv
<1> QED
  BY <1>2, <1>4, <1>9, <1>10, <1>11, <1>12 DEF ExchangeInv

LEMMA DispatchKeeps ==
  ASSUME ExchangeInv, NEW c \in Client, Life!Dispatch(c)
  PROVE  ExchangeInv'
<1> DEFINE u == client[c]
           n == Head(u.conn.inbox)
           k == [u.conn EXCEPT !.inbox = Tail(@), !.outbox = Append(@, n)]
           v == [u EXCEPT !.conn = k]
<1>0. /\ client \in [Client -> Clients] /\ u \in Clients
      /\ AnswerOK(u) /\ SendOK(u, reqs, applied)
      /\ reqs \in Seq(Op) /\ applied \in Seq(Nat) /\ Len(applied) = Len(reqs)
      /\ u.conn.inbox # <<>> /\ u.conn.to # 0
  BY DEF ExchangeInv, Life!Dispatch
<1>1. /\ client' = [client EXCEPT ![c] = v] /\ applied' = [applied EXCEPT ![n] = @ + 1]
      /\ UNCHANGED <<reqs, answer>>
  BY <1>0 DEF Life!Dispatch
<1>2. u.conn \in Conns /\ u.conn.inbox \in Seq(Nat) /\ u.conn.outbox \in Seq(Nat)
  BY <1>0 DEF Clients, Conns
<1>3. /\ Tail(u.conn.inbox) \in Seq(Nat) /\ n = u.conn.inbox[1] /\ 1 \in DOMAIN u.conn.inbox
      /\ \A i \in DOMAIN Tail(u.conn.inbox) :
           /\ i + 1 \in DOMAIN u.conn.inbox /\ Tail(u.conn.inbox)[i] = u.conn.inbox[i + 1]
           /\ i \in Nat \ {0}
  <2> HIDE DEF u
  <2> QED
    BY <1>0, <1>2, Tailed
<1>4. n \in Nat /\ Append(u.conn.outbox, n) \in Seq(Nat)
  <2>1. n \in Nat
    BY <1>2, <1>3
  <2> HIDE DEF u, n
  <2> QED
    BY <1>2, <2>1, Appended
<1>5. /\ k \in Conns /\ k.to = u.conn.to /\ k.inbox = Tail(u.conn.inbox)
      /\ k.outbox = Append(u.conn.outbox, n) /\ k.late = u.conn.late
  <2> HIDE DEF n, u
  <2> QED
    BY <1>2, <1>3, <1>4 DEF Conns
<1> HIDE DEF k, n
<1>6. v \in Clients /\ v.pc = u.pc /\ v.req = u.req /\ v.again = u.again /\ v.conn = k
  BY <1>0, <1>5 DEF Clients
<1>7. /\ client' \in [Client -> Clients] /\ client'[c] = v
      /\ \A d \in Client : d # c => client'[d] = client[d]
  BY <1>0, <1>1, <1>6
<1> HIDE DEF v, u
<1>8. n \in Queued(u) /\ Queued(v) \subseteq Queued(u) \ {n}
  <2>1. \A i, j \in DOMAIN u.conn.inbox : i # j => u.conn.inbox[i] # u.conn.inbox[j]
    BY <1>0 DEF SendOK
  <2>2. \A i \in DOMAIN Tail(u.conn.inbox) : Tail(u.conn.inbox)[i] # n
    BY <1>3, <2>1
  <2>3. n \in Queued(u)
    BY <1>3 DEF Queued
  <2>4. ASSUME NEW x \in Queued(v)
        PROVE  x \in Queued(u) /\ x # n
    <3> DEFINE q == Tail(u.conn.inbox)
    <3>1. v.conn.inbox = q
      BY <1>5, <1>6
    <3> HIDE DEF q
    <3>2. PICK i \in DOMAIN q : x = q[i]
      BY <2>4, <3>1 DEF Queued
    <3>3. q[i] # n /\ q[i] \in Queued(u)
      BY <1>3, <2>2 DEF Queued, q
    <3> QED
      BY <3>2, <3>3
  <2> QED
    BY <2>3, <2>4
<1>9. Held(v) \subseteq Held(u) /\ n \in Held(u)
  BY <1>6, <1>8 DEF Held
<1>10. /\ n \in DOMAIN applied /\ applied[n] \in Nat /\ applied'[n] = applied[n] + 1
       /\ applied' \in Seq(Nat) /\ Len(applied') = Len(applied)
       /\ \A i \in DOMAIN reqs : i # n => applied'[i] = applied[i]
       /\ applied[n] < Allowed(reqs[n])
  <2>1. n \in DOMAIN applied /\ applied[n] \in Nat /\ applied[n] < Allowed(reqs[n])
    BY <1>0, <1>8, <1>9 DEF SendOK
  <2> QED
    BY <1>0, <1>1, <2>1
<1>11. AnswerOK(v)
  <2>1. ~u.conn.late => /\ u.pc = "wait" /\ u.conn.inbox = <<u.req>> /\ u.conn.outbox = <<>>
    BY <1>0 DEF AnswerOK
  <2>2. ~u.conn.late => n = u.req
    BY <1>3, <2>1
  <2>3. ~u.conn.late => k.inbox = <<>> /\ k.outbox = <<u.req>>
    <3>1. \A x : Append(<<>>, x) = <<x>>
      OBVIOUS
    <3>2. ~u.conn.late => k.inbox = <<>>
      BY <1>5, <2>1, TailOfOne
    <3>3. ~u.conn.late => k.outbox = Append(<<>>, u.req)
      BY <1>5, <2>1, <2>2
    <3> QED
      BY <3>1, <3>2, <3>3
  <2> QED
    BY <1>5, <1>6, <2>1, <2>3 DEF AnswerOK
<1>12. SendOK(v, reqs, applied')
  <2>1. \A i, j \in DOMAIN v.conn.inbox : i # j => v.conn.inbox[i] # v.conn.inbox[j]
    <3>1. \A i, j \in DOMAIN u.conn.inbox : i # j => u.conn.inbox[i] # u.conn.inbox[j]
      BY <1>0 DEF SendOK
    <3>2. \A i, j \in DOMAIN Tail(u.conn.inbox) : i # j => i + 1 # j + 1
      BY <1>3
    <3> DEFINE q == Tail(u.conn.inbox)
    <3>3. v.conn.inbox = q
      BY <1>5, <1>6
    <3>4. \A i, j \in DOMAIN q : i # j => q[i] # q[j]
      BY <1>3, <3>1, <3>2
    <3> HIDE DEF q
    <3> QED
      BY <3>3, <3>4
  <2>2. Held(v) \subseteq DOMAIN reqs /\ Queued(v) \subseteq DOMAIN reqs
    BY <1>0, <1>9 DEF SendOK, Held
  <2>3. \A i \in Queued(v) : applied'[i] < Allowed(reqs[i])
    BY <1>0, <1>8, <1>10, <2>2 DEF SendOK
  <2>4. ASSUME Asking(v)
        PROVE  AskOK(v, reqs, applied')
    <3>1. AskOK(u, reqs, applied)
      BY <1>0, <1>6, <2>4 DEF SendOK, Asking
    <3>2. CASE u.req = n
      <4>1. u.pc = "wait" /\ u.req \notin Queued(v)
        BY <1>8, <3>1, <3>2 DEF AskOK
      <4>2. applied[n] < (IF u.again THEN 2 ELSE 1)
        BY <1>8, <3>1, <3>2 DEF AskOK
      <4>3. applied'[n] <= (IF u.again THEN 2 ELSE 1)
        BY <1>10, <4>2
      <4> QED
        BY <1>6, <3>1, <3>2, <4>1, <4>3 DEF AskOK
    <3>3. CASE u.req # n
      <4>1. u.req \in DOMAIN reqs
        BY <1>0, <3>1 DEF SendOK, Held, AskOK
      <4>2. applied'[u.req] = applied[u.req]
        BY <1>10, <3>3, <4>1
      <4> QED
        BY <1>6, <1>8, <3>1, <4>2 DEF AskOK
    <3> QED
      BY <3>2, <3>3
  <2> QED
    BY <1>0, <1>5, <1>6, <2>1, <2>2, <2>3, <2>4 DEF SendOK
<1>13. \A d \in Client : AnswerOK(client'[d]) /\ SendOK(client'[d], reqs, applied')
  <2> TAKE d \in Client
  <2>1. CASE d = c
    BY <1>7, <1>11, <1>12, <2>1
  <2>2. CASE d # c
    <3>1. AnswerOK(client[d]) /\ SendOK(client[d], reqs, applied)
      BY DEF ExchangeInv
    <3>2. Held(client[d]) \cap Held(u) = {}
      BY <2>2 DEF ExchangeInv, u
    <3>3. Held(client[d]) \subseteq DOMAIN reqs /\ n \notin Held(client[d])
      BY <1>9, <3>1, <3>2 DEF SendOK
    <3>4. SendOK(client[d], reqs, applied')
      BY <1>10, <3>1, <3>3, SendAgrees
    <3> QED
      BY <1>7, <2>2, <3>1, <3>4
  <2> QED
    BY <2>1, <2>2
<1>14. ASSUME NEW d \in Client, NEW e \in Client, d # e
       PROVE  Held(client'[d]) \cap Held(client'[e]) = {}
  <2>1. Held(client[d]) \cap Held(client[e]) = {}
    BY <1>14 DEF ExchangeInv
  <2>2. \A f \in Client : Held(client'[f]) \subseteq Held(client[f])
    BY <1>7, <1>9 DEF u
  <2> QED
    BY <2>1, <2>2
<1>15. \A i \in DOMAIN reqs : applied'[i] <= Allowed(reqs[i])
  <2>1. \A i \in DOMAIN reqs : applied[i] <= Allowed(reqs[i])
    BY DEF ExchangeInv
  <2>2. applied'[n] <= Allowed(reqs[n])
    BY <1>10 DEF Allowed
  <2> QED
    BY <1>10, <2>1, <2>2
<1>16. answer.is = answer.to \/ answer.late
  BY DEF ExchangeInv
<1> QED
  BY <1>0, <1>1, <1>7, <1>10, <1>13, <1>14, <1>15, <1>16 DEF ExchangeInv

\* A daemon that goes takes its connections with it.
LEMMA CutKeeps ==
  ASSUME ExchangeInv, NEW k, Life!Cut(k), UNCHANGED <<reqs, applied, answer>>
  PROVE  ExchangeInv'
<1>0. client \in [Client -> Clients]
  BY DEF ExchangeInv
<1>1. PICK unanswered : client' = [c \in Client |->
        IF client[c].conn.to # k THEN client[c]
        ELSE [client[c] EXCEPT !.conn.to = 0, !.conn.inbox = <<>>,
                               !.conn.outbox = IF c \in unanswered THEN <<>> ELSE @]]
  BY DEF Life!Cut
<1>2. ASSUME NEW c \in Client
      PROVE  /\ client'[c] \in Clients /\ AnswerOK(client'[c])
             /\ SendOK(client'[c], reqs, applied) /\ Held(client'[c]) \subseteq Held(client[c])
  <2>0. client[c] \in Clients /\ AnswerOK(client[c]) /\ SendOK(client[c], reqs, applied)
    BY DEF ExchangeInv
  <2>1. CASE client'[c] = client[c]
    BY <2>0, <2>1
  <2>2. CASE client'[c] # client[c]
    <3> DEFINE u == client[c]
               o == IF c \in unanswered THEN <<>> ELSE u.conn.outbox
               m == [u.conn EXCEPT !.to = 0, !.inbox = <<>>, !.outbox = o]
               v == [u EXCEPT !.conn = m]
    <3>1. client'[c] = v
      BY <1>1, <2>0, <2>2
    <3>2. u.conn \in Conns /\ o \in Seq(Nat)
      BY <2>0 DEF Clients, Conns
    <3>3. o \in {<<>>, u.conn.outbox}
      OBVIOUS
    <3> HIDE DEF o
    <3>4. m \in Conns /\ m.inbox = <<>> /\ m.outbox = o /\ m.late = u.conn.late
      <4>1. <<>> \in Seq(Nat)
        OBVIOUS
      <4> HIDE DEF u
      <4> QED
        BY <3>2, <4>1 DEF Conns
    <3> HIDE DEF m
    <3>5. v \in Clients /\ v.pc = u.pc /\ v.req = u.req /\ v.again = u.again /\ v.conn = m
      BY <2>0, <3>4 DEF Clients
    <3> HIDE DEF v, u
    <3>6. Queued(v) = {} /\ Held(v) \subseteq Held(u)
      BY <3>4, <3>5 DEF Queued, Held
    <3>7. AnswerOK(v)
      BY <2>0, <3>3, <3>4, <3>5 DEF AnswerOK, u
    <3>8. Asking(v) => AskOK(v, reqs, applied)
      BY <2>0, <3>5, <3>6 DEF SendOK, Asking, AskOK, u
    <3>9. SendOK(v, reqs, applied)
      BY <2>0, <3>4, <3>5, <3>6, <3>8 DEF SendOK, u
    <3> QED
      BY <3>1, <3>5, <3>6, <3>7, <3>9 DEF u
  <2> QED
    BY <2>1, <2>2
<1>3. client' \in [Client -> Clients]
  BY <1>1, <1>2
<1>4. ASSUME NEW d \in Client, NEW e \in Client, d # e
      PROVE  Held(client'[d]) \cap Held(client'[e]) = {}
  <2>1. Held(client[d]) \cap Held(client[e]) = {}
    BY <1>4 DEF ExchangeInv
  <2> QED
    BY <1>2, <2>1
<1> QED
  BY <1>2, <1>3, <1>4 DEF ExchangeInv

LEMMA ExchangeStep ==
  ASSUME ReachInv, ExchangeInv, [Life!Next]_lifeVars
  PROVE  ExchangeInv'
<1>1. ASSUME NEW k \in DOMAIN daemons,
             \/ Life!RunOpen(k) \/ Life!RunListen(k) \/ Life!RunServe(k) \/ Life!SocketWatch(k)
             \/ Life!Shutdown(k) \/ Life!ShutdownEnds(k) \/ Life!Killed(k)
      PROVE  ExchangeInv'
  <2>1. UNCHANGED <<reqs, applied, answer>> /\ (client' = client \/ Life!Cut(k))
    BY <1>1 DEF Life!RunOpen, Life!RunListen, Life!RunServe, Life!SocketWatch, Life!Shutdown,
                Life!ShutdownEnds, Life!Killed
  <2>2. CASE client' = client
    BY <2>1, <2>2 DEF ExchangeInv
  <2>3. CASE Life!Cut(k)
    BY <2>1, <2>3, CutKeeps
  <2> QED
    BY <2>1, <2>2, <2>3
<1>2. ASSUME NEW c \in Client,
             \/ Life!EnsureRunning(c) \/ Life!Dial(c) \/ Life!GiveUp(c) \/ Life!Roundtrip(c)
             \/ Life!ExchangeWrite(c) \/ Life!ExchangeRead(c) \/ Life!Deadline(c) \/ Life!Dispatch(c)
      PROVE  ExchangeInv'
  BY <1>2, DialKeeps, RoundtripKeeps, WriteKeeps, ReadKeeps, DeadlineKeeps, DispatchKeeps
<1>3. CASE Life!RemoveSocket \/ Life!MoveDirectory \/ UNCHANGED lifeVars
  <2>1. UNCHANGED <<client, reqs, applied, answer>>
    BY <1>3 DEF Life!RemoveSocket, Life!MoveDirectory, lifeVars
  <2> QED
    BY <2>1 DEF ExchangeInv
<1> QED
  BY <1>1, <1>2, <1>3 DEF Life!Next, Life!Procs

\* An answer belongs to the request it is returned for unless an earlier request on the
\* connection ran out of time (exchange, lostConn), and a request is carried out at most
\* once, a query at most twice (resumable, reconnect), for any number of clients,
\* daemons and requests.
THEOREM ExchangesMatch == Spec => []Exchanges
<1>1. Init => ReachInv /\ ExchangeInv
  BY ReachInit, ExchangeInit DEF Init
<1>2. ReachInv /\ ExchangeInv /\ [Next]_vars => (ReachInv /\ ExchangeInv)'
  BY PartSteps, ReachStep, ExchangeStep
<1>3. ExchangeInv => Exchanges
  BY DEF ExchangeInv, Exchanges, Life!Exchanges, Allowed
<1> QED
  BY <1>1, <1>2, <1>3, PTL DEF Spec

(***************************************************************************)
(* RecordIndexes                                                           *)
(***************************************************************************)
\* What this daemon has folded of a stream since it started or dropped the cache.
Given(s) == (1..folded[s]) \ missed[s]

StreamsOK ==
  /\ stream \in [Index!Streams -> Seq(Index!Kinds)]
  /\ folded \in [Index!Streams -> Nat] /\ missed \in [Index!Streams -> SUBSET Nat]
  /\ \A s \in Index!Streams : folded[s] <= Len(stream[s]) /\ missed[s] \subseteq 1..folded[s]

\* The rows in hand continue what was folded; a delete may have passed some of them.
BatchOK ==
  /\ batch.from \in Nat /\ batch.to \in Nat
  /\ batch.from <= folded["local"] /\ batch.to <= Len(stream["local"])
  /\ batch # Index!NoBatch => Given("local") \subseteq 1..batch.from

\* What remote.db holds is of the streams' beginnings; nothing of it is folded before
\* the first cycle.
CacheOK ==
  /\ cached \in Nat /\ cached <= Len(stream["remote"]) /\ held \subseteq 1..cached
  /\ hydrated \in BOOLEAN
  /\ ~hydrated => folded["remote"] = 0

\* Nothing of the remote streams was passed, and nothing will be.
Fresh == missed["remote"] = {} /\ (hydrated \/ cached = 0)

\* A target only one machine ever tagged has its tag as the last operation given says;
\* of the other machines, also one that a second pull has yet to come to.
TagsOK ==
  \A t \in Index!Targets :
    /\ Index!Ops("remote", t) = {} =>
         (t \in tagged <=>
            Index!LastAdds(stream["local"], Index!OpsOn(stream["local"], Given("local"), t)))
    /\ Index!Ops("local", t) = {} =>
         LET ops == Index!OpsOn(stream["remote"], Given("remote"), t) IN
           /\ ops # {} => (t \in tagged <=> Index!LastAdds(stream["remote"], ops))
           /\ ops = {} /\ t \in tagged => Index!Ops("remote", t) # {} /\ Fresh

\* The same of another machine's prompt, unless this machine deleted it.
PromptsOK ==
  \A p \in Foreign : Index!Tombstone(p) \notin Index!Recorded("local") =>
    LET q == stream["remote"]
        said == p \in Index!PromptsIn(q, Given("remote"))
        gone == p \in Index!DeletedIn(q, Given("remote"))
    IN  /\ gone => p \notin known
        /\ said /\ ~gone => p \in known
        /\ ~said /\ p \in known => p \in Index!PromptsIn(q, DOMAIN q) /\ Fresh

\* Each machine records its own prompts, and the others a tombstone after its prompt.
OrderOK ==
  /\ \A i \in DOMAIN stream["local"] :
       stream["local"][i].type = "prompt" => stream["local"][i].on \notin Foreign
  /\ \A p \in Foreign : LET q == stream["remote"] IN
       /\ p \in Index!DeletedIn(q, DOMAIN q) => p \in Index!PromptsIn(q, DOMAIN q)
       /\ \A i, j \in DOMAIN q : q[i] = Index!Said(p) /\ q[j] = Index!Tombstone(p) => i < j
  /\ \A x \in deleting : Index!Tombstone(x) \in Index!Recorded("local")

IndexInv == StreamsOK /\ BatchOK /\ CacheOK /\ TagsOK /\ PromptsOK /\ OrderOK

LEMMA RecordKinds ==
  \A r \in Index!Kinds :
    /\ r.type \in {"tag", "prompt", "delete"}
    /\ r.type = "prompt" => r = Index!Said(r.on) /\ r.on \in Prompt
    /\ r.type = "delete" => r = Index!Tombstone(r.on) /\ r.on \in Row \cup Prompt
BY DEF Index!Kinds, Index!Tag, Index!Said, Index!Tombstone

LEMMA KindOf ==
  \A x : /\ Index!Said(x).type = "prompt" /\ Index!Said(x).on = x
         /\ Index!Tombstone(x).type = "delete" /\ Index!Tombstone(x).on = x
BY DEF Index!Said, Index!Tombstone

\* StreamsOK, in the form the steps use.
LEMMA StreamFacts ==
  ASSUME StreamsOK
  PROVE  /\ "local" \in Index!Streams /\ "remote" \in Index!Streams
         /\ \A s \in Index!Streams : s = "local" \/ s = "remote"
         /\ \A s \in Index!Streams :
              /\ stream[s] \in Seq(Index!Kinds) /\ Len(stream[s]) \in Nat
              /\ DOMAIN stream[s] = 1..Len(stream[s])
              /\ \A i \in DOMAIN stream[s] : stream[s][i] \in Index!Kinds
              /\ folded[s] \in Nat /\ folded[s] <= Len(stream[s]) /\ missed[s] \subseteq 1..folded[s]
BY DEF StreamsOK, Index!Streams

LEMMA IndexInit == Index!Init => IndexInv
<1>1. ASSUME Index!Init
      PROVE  IndexInv
  <2>0. "remote" \in Index!Streams /\ "local" \in Index!Streams
    BY DEF Index!Streams
  <2>1. /\ stream = [s \in Index!Streams |-> <<>>] /\ folded = [s \in Index!Streams |-> 0]
        /\ missed = [s \in Index!Streams |-> {}] /\ batch = Index!NoBatch /\ deleting = {}
        /\ held = {} /\ cached = 0 /\ hydrated = FALSE /\ tagged = {} /\ known = {}
    BY <1>1 DEF Index!Init
  <2>2. \A s \in Index!Streams :
          stream[s] = <<>> /\ folded[s] = 0 /\ missed[s] = {} /\ DOMAIN stream[s] = {} /\ Given(s) = {}
    BY <2>1 DEF Given
  <2>3. StreamsOK /\ BatchOK /\ CacheOK
    <3>0. \A X : <<>> \in Seq(X) /\ Len(<<>>) = 0
      OBVIOUS
    <3>1. \A s \in Index!Streams : Len(stream[s]) = 0 /\ stream[s] \in Seq(Index!Kinds)
      BY <2>2, <3>0
    <3>2. StreamsOK
      BY <2>1, <2>2, <3>1 DEF StreamsOK
    <3>3. BatchOK
      BY <2>0, <2>1, <2>2, <3>1 DEF BatchOK, Index!NoBatch
    <3>4. cached \in Nat /\ cached <= Len(stream["remote"]) /\ folded["remote"] = 0
      BY <2>0, <2>1, <2>2, <3>1
    <3>5. held \subseteq 1..cached /\ hydrated \in BOOLEAN
      BY <2>1
    <3>6. CacheOK
      BY <3>4, <3>5 DEF CacheOK
    <3> QED
      BY <3>2, <3>3, <3>6
  <2>4. \A q, t : /\ Index!OpsOn(q, {}, t) = {} /\ ~Index!LastAdds(q, {})
                  /\ Index!PromptsIn(q, {}) = {} /\ Index!DeletedIn(q, {}) = {}
    BY DEF Index!OpsOn, Index!LastAdds, Index!PromptsIn, Index!DeletedIn
  <2>5. TagsOK
    BY <2>0, <2>1, <2>2, <2>4 DEF TagsOK
  <2>6. PromptsOK
    BY <2>0, <2>1, <2>2, <2>4 DEF PromptsOK
  <2>7. OrderOK
    BY <2>0, <2>1, <2>2, <2>4 DEF OrderOK
  <2> QED
    BY <2>3, <2>5, <2>6, <2>7 DEF IndexInv
<1> QED
  BY <1>1

\* Folding later records onto an index that agrees with those in G makes it agree with
\* all of them, if it is about t at all; otherwise it leaves t alone.
LEMMA TagsFolded ==
  ASSUME NEW q, NEW G \in SUBSET Nat, NEW I \in SUBSET Nat, \A g \in G, i \in I : g < i,
         NEW have, NEW t \in Index!Targets
  PROVE  /\ Index!OpsOn(q, I, t) = {} =>
              /\ t \in Index!ApplyTags(q, I, have) <=> t \in have
              /\ Index!OpsOn(q, G \cup I, t) = Index!OpsOn(q, G, t)
         /\ Index!OpsOn(q, I, t) # {} =>
              (t \in Index!ApplyTags(q, I, have) <=> Index!LastAdds(q, Index!OpsOn(q, G \cup I, t)))
<1> DEFINE ops == Index!OpsOn(q, I, t)
           old == Index!OpsOn(q, G, t)
           both == Index!OpsOn(q, G \cup I, t)
<1>1. both = old \cup ops /\ ops \subseteq I /\ old \subseteq G
  BY DEF Index!OpsOn
<1>2. t \in Index!ApplyTags(q, I, have) <=> IF ops = {} THEN t \in have ELSE Index!LastAdds(q, ops)
  BY DEF Index!ApplyTags
<1> HIDE DEF ops, old, both
<1>3. ASSUME ops # {}
      PROVE  Index!LastAdds(q, ops) <=> Index!LastAdds(q, both)
  <2>1. PICK x \in ops : TRUE
    BY <1>3
  <2>2. \A g \in old, i \in ops : g < i /\ g \in Nat /\ i \in Nat
    BY <1>1
  <2>3. ASSUME NEW m \in ops, q[m].add, \A j \in ops : j <= m
        PROVE  \A j \in both : j <= m
    BY <1>1, <2>2, <2>3
  <2>4. ASSUME NEW m \in both, q[m].add, \A j \in both : j <= m
        PROVE  m \in ops /\ \A j \in ops : j <= m
    <3>1. m \notin old
      BY <1>1, <2>1, <2>2, <2>4
    <3> QED
      BY <1>1, <2>4, <3>1
  <2> QED
    BY <1>1, <2>3, <2>4 DEF Index!LastAdds
<1> QED
  BY <1>1, <1>2, <1>3 DEF ops, old, both

\* The same of a prompt, whose tombstone comes after it.
LEMMA PromptsFolded ==
  ASSUME NEW q, NEW G \in SUBSET Nat, NEW I \in SUBSET Nat, \A g \in G, i \in I : g < i,
         NEW have, NEW p,
         \A i, j \in G \cup I :
           q[i].type = "prompt" /\ q[i].on = p /\ q[j].type = "delete" /\ q[j].on = p => i < j
  PROVE  LET new == Index!Drop(q, I, Index!ApplyPrompts(q, I, have))
             said == p \in Index!PromptsIn(q, G)
             gone == p \in Index!DeletedIn(q, G)
             saidNow == p \in Index!PromptsIn(q, G \cup I)
             goneNow == p \in Index!DeletedIn(q, G \cup I)
         IN  /\ said => saidNow
             /\ goneNow /\ (gone => p \notin have) => p \notin new
             /\ saidNow /\ ~goneNow /\ (said => p \in have) => p \in new
             /\ p \in new /\ ~saidNow => p \in have
             /\ ~goneNow => ~gone
<1> DEFINE new == Index!Drop(q, I, Index!ApplyPrompts(q, I, have))
           saidIn(S) == \E i \in S : q[i].type = "prompt" /\ q[i].on = p
           goneIn(S) == \E i \in S : q[i].type = "delete" /\ q[i].on = p
<1>1. \A S : (p \in Index!PromptsIn(q, S) <=> saidIn(S)) /\ (p \in Index!DeletedIn(q, S) <=> goneIn(S))
  BY DEF Index!PromptsIn, Index!DeletedIn
<1>2. p \in new <=> (p \in have \/ saidIn(I)) /\ ~goneIn(I)
  BY <1>1 DEF Index!Drop, Index!ApplyPrompts
<1>3. (saidIn(G \cup I) <=> saidIn(G) \/ saidIn(I)) /\ (goneIn(G \cup I) <=> goneIn(G) \/ goneIn(I))
  OBVIOUS
<1>4. ~(goneIn(G) /\ saidIn(I))
  <2>1. ASSUME NEW j \in G, q[j].type = "delete" /\ q[j].on = p,
               NEW i \in I, q[i].type = "prompt" /\ q[i].on = p
        PROVE  FALSE
    <3>1. i < j
      BY <2>1
    <3>2. j < i
      BY <2>1
    <3>3. i \in Nat /\ j \in Nat
      OBVIOUS
    <3> QED
      BY <3>1, <3>2, <3>3
  <2> QED
    BY <2>1
<1> HIDE DEF saidIn, goneIn, new
<1>5. /\ saidIn(G) => saidIn(G \cup I)
      /\ goneIn(G \cup I) /\ (goneIn(G) => p \notin have) => p \notin new
      /\ saidIn(G \cup I) /\ ~goneIn(G \cup I) /\ (saidIn(G) => p \in have) => p \in new
      /\ p \in new /\ ~saidIn(G \cup I) => p \in have
      /\ ~goneIn(G \cup I) => ~goneIn(G)
  BY <1>2, <1>3, <1>4
<1> QED
  BY <1>1, <1>5 DEF new

\* What PromptsOK says of one prompt; a local tombstone excuses it.
ForeignOK(p) ==
  LET q == stream["remote"]
      said == p \in Index!PromptsIn(q, Given("remote"))
      gone == p \in Index!DeletedIn(q, Given("remote"))
  IN  /\ gone => p \notin known
      /\ said /\ ~gone => p \in known
      /\ ~said /\ p \in known => p \in Index!PromptsIn(q, DOMAIN q) /\ Fresh

\* The local stream says nothing of another machine's prompt that this one did not delete.
LEMMA LocalSilent ==
  ASSUME StreamsOK, OrderOK, NEW p \in Foreign,
         Index!Tombstone(p) \notin Index!Recorded("local"),
         NEW I, I \subseteq DOMAIN stream["local"]
  PROVE  /\ p \notin Index!PromptsIn(stream["local"], I)
         /\ p \notin Index!DeletedIn(stream["local"], I)
<1>1. \A i \in I : stream["local"][i] \in Index!Kinds
  BY StreamFacts
<1>2. \A i \in I : stream["local"][i].type = "prompt" => stream["local"][i].on # p
  BY DEF OrderOK
<1>3. \A i \in I : stream["local"][i].type = "delete" => stream["local"][i].on # p
  BY <1>1, RecordKinds DEF Index!Recorded
<1> QED
  BY <1>2, <1>3 DEF Index!PromptsIn, Index!DeletedIn

\* A step that gives the daemon the records I of one stream, all after those it was given.
LEMMA FoldStep ==
  ASSUME IndexInv, NEW s \in Index!Streams, NEW I, I \subseteq DOMAIN stream[s],
         \A g \in Given(s), i \in I : g < i,
         Index!Fold(stream[s], I), stream' = stream,
         Given(s)' = Given(s) \cup I, \A o \in Index!Streams \ {s} : Given(o)' = Given(o),
         Fresh => Fresh'
  PROVE  TagsOK' /\ PromptsOK'
<1>0. /\ "local" \in Index!Streams /\ "remote" \in Index!Streams /\ s \in {"local", "remote"}
      /\ \A o \in Index!Streams : Given(o) \subseteq DOMAIN stream[o] /\ DOMAIN stream[o] \subseteq Nat
  <2>1. \A o \in Index!Streams : /\ DOMAIN stream[o] = 1..Len(stream[o]) /\ Len(stream[o]) \in Nat
                                 /\ folded[o] \in Nat /\ folded[o] <= Len(stream[o])
    BY StreamFacts DEF IndexInv
  <2> QED
    BY <2>1, StreamFacts DEF IndexInv, Given
<1>1. Given(s) \in SUBSET Nat /\ I \in SUBSET Nat
  BY <1>0
<1>2. /\ tagged' = Index!ApplyTags(stream[s], I, tagged)
      /\ known' = Index!Drop(stream[s], I, Index!ApplyPrompts(stream[s], I, known))
  BY DEF Index!Fold
<1> DEFINE S == stream[s]
           G == Given(s)
<1>8. ASSUME NEW t \in Index!Targets
      PROVE  /\ Index!OpsOn(S, I, t) = {} =>
                  (t \in tagged' <=> t \in tagged) /\ Index!OpsOn(S, G \cup I, t) = Index!OpsOn(S, G, t)
             /\ Index!OpsOn(S, I, t) # {} =>
                  (t \in tagged' <=> Index!LastAdds(S, Index!OpsOn(S, G \cup I, t)))
  <2>1. \A g \in G, i \in I : g < i
    OBVIOUS
  <2>2. tagged' = Index!ApplyTags(S, I, tagged) /\ G \in SUBSET Nat
    BY <1>1, <1>2
  <2> HIDE DEF S, G
  <2>3. /\ Index!OpsOn(S, I, t) = {} =>
             /\ t \in Index!ApplyTags(S, I, tagged) <=> t \in tagged
             /\ Index!OpsOn(S, G \cup I, t) = Index!OpsOn(S, G, t)
        /\ Index!OpsOn(S, I, t) # {} =>
             (t \in Index!ApplyTags(S, I, tagged) <=> Index!LastAdds(S, Index!OpsOn(S, G \cup I, t)))
    BY <1>1, <2>1, <2>2, TagsFolded
  <2> QED
    BY <2>2, <2>3
<1>3. ASSUME NEW t \in Index!Targets, Index!Ops("remote", t) = {}
      PROVE  t \in tagged' <=>
               Index!LastAdds(stream["local"], Index!OpsOn(stream["local"], Given("local")', t))
  <2>0. t \in tagged <=>
          Index!LastAdds(stream["local"], Index!OpsOn(stream["local"], Given("local"), t))
    BY <1>3 DEF IndexInv, TagsOK
  <2>1. CASE s = "local"
    <3> DEFINE L == stream["local"]
               H == Given("local")
    <3>1. /\ Index!OpsOn(L, I, t) = {} =>
               (t \in tagged' <=> t \in tagged) /\ Index!OpsOn(L, H \cup I, t) = Index!OpsOn(L, H, t)
          /\ Index!OpsOn(L, I, t) # {} =>
               (t \in tagged' <=> Index!LastAdds(L, Index!OpsOn(L, H \cup I, t)))
      BY <1>8, <2>1
    <3>2. Given("local")' = H \cup I /\ (t \in tagged <=> Index!LastAdds(L, Index!OpsOn(L, H, t)))
      BY <2>0, <2>1
    <3> HIDE DEF L, H
    <3>3. t \in tagged' <=> Index!LastAdds(L, Index!OpsOn(L, H \cup I, t))
      BY <3>1, <3>2
    <3> QED
      BY <3>2, <3>3 DEF L
  <2>2. CASE s = "remote"
    <3>1. Index!OpsOn(stream[s], I, t) = {}
      BY <1>3, <2>2 DEF Index!Ops, Index!OpsOn
    <3>2. t \in tagged' <=> t \in tagged
      BY <1>8, <3>1
    <3> QED
      BY <1>0, <2>0, <2>2, <3>2
  <2> QED
    BY <1>0, <2>1, <2>2
<1>4. ASSUME NEW t \in Index!Targets, Index!Ops("local", t) = {}
      PROVE  LET ops == Index!OpsOn(stream["remote"], Given("remote")', t) IN
               /\ ops # {} => (t \in tagged' <=> Index!LastAdds(stream["remote"], ops))
               /\ ops = {} /\ t \in tagged' => Index!Ops("remote", t) # {} /\ Fresh'
  <2> DEFINE old == Index!OpsOn(stream["remote"], Given("remote"), t)
             ops == Index!OpsOn(stream["remote"], Given("remote")', t)
  <2>0. /\ old # {} => (t \in tagged <=> Index!LastAdds(stream["remote"], old))
        /\ old = {} /\ t \in tagged => Index!Ops("remote", t) # {} /\ Fresh
    BY <1>4 DEF IndexInv, TagsOK
  <2>1. CASE s = "remote"
    <3>0. ops = Index!OpsOn(S, G \cup I, t) /\ old = Index!OpsOn(S, G, t) /\ S = stream["remote"]
      BY <2>1
    <3>1. CASE Index!OpsOn(stream[s], I, t) = {}
      <4>1. (t \in tagged' <=> t \in tagged) /\ ops = old
        BY <1>8, <3>0, <3>1
      <4> QED
        BY <2>0, <4>1
    <3>2. CASE Index!OpsOn(stream[s], I, t) # {}
      <4>1. t \in tagged' <=> Index!LastAdds(stream["remote"], ops)
        <5>1. t \in tagged' <=> Index!LastAdds(S, Index!OpsOn(S, G \cup I, t))
          BY <1>8, <3>2
        <5> HIDE DEF ops, S, G
        <5> QED
          BY <3>0, <5>1
      <4>2. ops # {}
        BY <2>1, <3>2 DEF Index!OpsOn
      <4> QED
        BY <4>1, <4>2
    <3> QED
      BY <3>1, <3>2
  <2>2. CASE s = "local"
    <3>1. Index!OpsOn(stream[s], I, t) = {}
      BY <1>4, <2>2 DEF Index!Ops, Index!OpsOn
    <3>2. (t \in tagged' <=> t \in tagged) /\ ops = old
      BY <1>0, <1>8, <2>2, <3>1
    <3> QED
      BY <2>0, <3>2
  <2> QED
    BY <1>0, <2>1, <2>2
<1>5. TagsOK'
  BY <1>3, <1>4 DEF TagsOK, Index!Ops
<1>6. ASSUME NEW p \in Foreign, Index!Tombstone(p) \notin Index!Recorded("local")
      PROVE  ForeignOK(p)'
  <2>0. ForeignOK(p)
    BY <1>6 DEF IndexInv, PromptsOK, ForeignOK
  <2>1. CASE s = "remote"
    <3> DEFINE q == stream["remote"]
               H == Given("remote")
    <3>1. \A i, j \in H \cup I :
            q[i].type = "prompt" /\ q[i].on = p /\ q[j].type = "delete" /\ q[j].on = p => i < j
      <4>1. H \cup I \subseteq DOMAIN q
        BY <1>0, <2>1
      <4>2. \A i \in DOMAIN q : q[i] \in Index!Kinds
        BY StreamFacts DEF IndexInv
      <4>3. \A i, j \in DOMAIN q : q[i] = Index!Said(p) /\ q[j] = Index!Tombstone(p) => i < j
        BY DEF IndexInv, OrderOK
      <4> QED
        BY <4>1, <4>2, <4>3, RecordKinds
    <3>2. known' = Index!Drop(q, I, Index!ApplyPrompts(q, I, known)) /\ Given("remote")' = H \cup I
      BY <1>2, <2>1
    <3>3. H \in SUBSET Nat /\ \A g \in H, i \in I : g < i
      BY <1>1, <2>1
    <3> HIDE DEF q, H
    <3>4. /\ p \in Index!PromptsIn(q, H) => p \in Index!PromptsIn(q, H \cup I)
          /\ p \in Index!DeletedIn(q, H \cup I) /\ (p \in Index!DeletedIn(q, H) => p \notin known) => p \notin known'
          /\ p \in Index!PromptsIn(q, H \cup I) /\ p \notin Index!DeletedIn(q, H \cup I)
             /\ (p \in Index!PromptsIn(q, H) => p \in known) => p \in known'
          /\ p \in known' /\ p \notin Index!PromptsIn(q, H \cup I) => p \in known
          /\ p \notin Index!DeletedIn(q, H \cup I) => p \notin Index!DeletedIn(q, H)
      BY <1>1, <3>1, <3>2, <3>3, PromptsFolded
    <3>5. /\ p \in Index!DeletedIn(q, H) => p \notin known
          /\ p \in Index!PromptsIn(q, H) /\ p \notin Index!DeletedIn(q, H) => p \in known
          /\ p \notin Index!PromptsIn(q, H) /\ p \in known => p \in Index!PromptsIn(q, DOMAIN q) /\ Fresh
      BY <2>0 DEF ForeignOK, q, H
    <3>6. /\ p \in Index!DeletedIn(q, H \cup I) => p \notin known'
          /\ p \in Index!PromptsIn(q, H \cup I) /\ p \notin Index!DeletedIn(q, H \cup I) => p \in known'
          /\ p \notin Index!PromptsIn(q, H \cup I) /\ p \in known' =>
               p \in Index!PromptsIn(q, DOMAIN q) /\ Fresh'
      BY <3>4, <3>5
    <3> QED
      BY <3>2, <3>6 DEF ForeignOK, q
  <2>2. CASE s = "local"
    <3>1. /\ p \notin Index!PromptsIn(stream["local"], I)
          /\ p \notin Index!DeletedIn(stream["local"], I)
      BY <1>6, <2>2, LocalSilent DEF IndexInv
    <3>2. p \in known' <=> p \in known
      BY <1>2, <2>2, <3>1 DEF Index!Drop, Index!ApplyPrompts
    <3>3. Given("remote")' = Given("remote")
      BY <1>0, <2>2
    <3> QED
      BY <2>0, <3>2, <3>3 DEF ForeignOK
  <2> QED
    BY <1>0, <2>1, <2>2
<1>7. PromptsOK'
  BY <1>6 DEF PromptsOK, ForeignOK, Index!Recorded
<1> QED
  BY <1>5, <1>7

\* A step that gives it nothing, and may append to a stream.
LEMMA QuietStep ==
  ASSUME IndexInv, UNCHANGED <<tagged, known>>,
         \A s \in Index!Streams : /\ Given(s)' = Given(s)
                                  /\ DOMAIN stream[s] \subseteq DOMAIN stream'[s]
                                  /\ \A i \in DOMAIN stream[s] : stream'[s][i] = stream[s][i],
         Fresh => Fresh'
  PROVE  TagsOK' /\ PromptsOK'
<1>0. /\ "local" \in Index!Streams /\ "remote" \in Index!Streams
      /\ \A o \in Index!Streams : Given(o) \subseteq DOMAIN stream[o]
  <2>1. \A o \in Index!Streams : /\ DOMAIN stream[o] = 1..Len(stream[o]) /\ Len(stream[o]) \in Nat
                                 /\ folded[o] \in Nat /\ folded[o] <= Len(stream[o])
    BY StreamFacts DEF IndexInv
  <2> QED
    BY <2>1, StreamFacts DEF IndexInv, Given
<1>1. \A o \in Index!Streams : \A i \in Given(o) : i \in DOMAIN stream[o] /\ stream'[o][i] = stream[o][i]
  BY <1>0
<1>2. \A o \in Index!Streams : \A t :
        /\ Index!OpsOn(stream'[o], Given(o)', t) = Index!OpsOn(stream[o], Given(o), t)
        /\ Index!LastAdds(stream'[o], Index!OpsOn(stream[o], Given(o), t)) <=>
             Index!LastAdds(stream[o], Index!OpsOn(stream[o], Given(o), t))
  <2> TAKE o \in Index!Streams
  <2> TAKE t
  <2>1. Given(o)' = Given(o)
    OBVIOUS
  <2>2. Index!OpsOn(stream'[o], Given(o), t) = Index!OpsOn(stream[o], Given(o), t)
    BY <1>1 DEF Index!OpsOn
  <2>3. \A i \in Index!OpsOn(stream[o], Given(o), t) : stream'[o][i] = stream[o][i]
    BY <1>1 DEF Index!OpsOn
  <2>4. Index!LastAdds(stream'[o], Index!OpsOn(stream[o], Given(o), t)) <=>
          Index!LastAdds(stream[o], Index!OpsOn(stream[o], Given(o), t))
    BY <2>3 DEF Index!LastAdds
  <2> QED
    BY <2>1, <2>2, <2>4
<1>3. \A o \in Index!Streams : \A t :
        Index!OpsOn(stream[o], DOMAIN stream[o], t) \subseteq Index!OpsOn(stream'[o], DOMAIN stream'[o], t)
  BY DEF Index!OpsOn
<1>4. ASSUME NEW t \in Index!Targets, Index!OpsOn(stream'["remote"], DOMAIN stream'["remote"], t) = {}
      PROVE  t \in tagged' <=>
               Index!LastAdds(stream'["local"], Index!OpsOn(stream'["local"], Given("local")', t))
  <2>1. Index!OpsOn(stream["remote"], DOMAIN stream["remote"], t) = {}
    BY <1>0, <1>3, <1>4
  <2>2. t \in tagged <=>
          Index!LastAdds(stream["local"], Index!OpsOn(stream["local"], Given("local"), t))
    BY <2>1 DEF IndexInv, TagsOK, Index!Ops
  <2>3. Index!OpsOn(stream'["local"], Given("local")', t) = Index!OpsOn(stream["local"], Given("local"), t)
    BY <1>0, <1>2
  <2>4. Index!LastAdds(stream'["local"], Index!OpsOn(stream["local"], Given("local"), t)) <=>
          Index!LastAdds(stream["local"], Index!OpsOn(stream["local"], Given("local"), t))
    BY <1>0, <1>2
  <2>5. t \in tagged' <=> t \in tagged
    OBVIOUS
  <2> QED
    BY <2>2, <2>3, <2>4, <2>5
<1>5. ASSUME NEW t \in Index!Targets, Index!OpsOn(stream'["local"], DOMAIN stream'["local"], t) = {}
      PROVE  LET ops == Index!OpsOn(stream'["remote"], Given("remote")', t) IN
               /\ ops # {} => (t \in tagged' <=> Index!LastAdds(stream'["remote"], ops))
               /\ ops = {} /\ t \in tagged' =>
                    Index!OpsOn(stream'["remote"], DOMAIN stream'["remote"], t) # {} /\ Fresh'
  <2> DEFINE old == Index!OpsOn(stream["remote"], Given("remote"), t)
  <2>1. Index!OpsOn(stream["local"], DOMAIN stream["local"], t) = {}
    BY <1>0, <1>3, <1>5
  <2>2. /\ old # {} => (t \in tagged <=> Index!LastAdds(stream["remote"], old))
        /\ old = {} /\ t \in tagged =>
             Index!OpsOn(stream["remote"], DOMAIN stream["remote"], t) # {} /\ Fresh
    BY <2>1 DEF IndexInv, TagsOK, Index!Ops
  <2>3. Index!OpsOn(stream'["remote"], Given("remote")', t) = old
    BY <1>0, <1>2
  <2>4. Index!LastAdds(stream'["remote"], old) <=> Index!LastAdds(stream["remote"], old)
    BY <1>0, <1>2
  <2>5. Index!OpsOn(stream["remote"], DOMAIN stream["remote"], t) # {} =>
          Index!OpsOn(stream'["remote"], DOMAIN stream'["remote"], t) # {}
    BY <1>0, <1>3
  <2>6. t \in tagged' <=> t \in tagged
    OBVIOUS
  <2> HIDE DEF old
  <2> QED
    BY <2>2, <2>3, <2>4, <2>5, <2>6
<1>6. TagsOK'
  BY <1>4, <1>5 DEF TagsOK, Index!Ops
<1>7. ASSUME NEW p \in Foreign, Index!Tombstone(p) \notin Index!Recorded("local")'
      PROVE  ForeignOK(p)'
  <2> DEFINE q == stream["remote"]
             z == stream'["remote"]
             H == Given("remote")
  <2>1. ForeignOK(p)
    <3>1. Index!Tombstone(p) \notin Index!Recorded("local")
      BY <1>0, <1>7 DEF Index!Recorded
    <3> QED
      BY <3>1 DEF IndexInv, PromptsOK, ForeignOK
  <2>2. /\ p \in Index!DeletedIn(q, H) => p \notin known
        /\ p \in Index!PromptsIn(q, H) /\ p \notin Index!DeletedIn(q, H) => p \in known
        /\ p \notin Index!PromptsIn(q, H) /\ p \in known => p \in Index!PromptsIn(q, DOMAIN q) /\ Fresh
    BY <2>1 DEF ForeignOK
  <2>3. Given("remote")' = H /\ \A i \in H : z[i] = q[i]
    BY <1>0, <1>1
  <2>4. DOMAIN q \subseteq DOMAIN z /\ \A i \in DOMAIN q : z[i] = q[i]
    BY <1>0
  <2> HIDE DEF q, z, H
  <2>5. /\ p \in Index!PromptsIn(z, H) <=> p \in Index!PromptsIn(q, H)
        /\ p \in Index!DeletedIn(z, H) <=> p \in Index!DeletedIn(q, H)
    BY <2>3 DEF Index!PromptsIn, Index!DeletedIn
  <2>6. p \in Index!PromptsIn(q, DOMAIN q) => p \in Index!PromptsIn(z, DOMAIN z)
    BY <2>4 DEF Index!PromptsIn
  <2>7. /\ p \in Index!DeletedIn(z, H) => p \notin known'
        /\ p \in Index!PromptsIn(z, H) /\ p \notin Index!DeletedIn(z, H) => p \in known'
        /\ p \notin Index!PromptsIn(z, H) /\ p \in known' => p \in Index!PromptsIn(z, DOMAIN z) /\ Fresh'
    BY <2>2, <2>5, <2>6
  <2> QED
    BY <2>3, <2>7 DEF ForeignOK, z
<1>8. PromptsOK'
  BY <1>7 DEF PromptsOK, ForeignOK
<1> QED
  BY <1>6, <1>8

\* A record appended to a stream leaves the rest of the invariant's sequence facts true.
LEMMA AppendedStep ==
  ASSUME IndexInv, NEW s \in Index!Streams, NEW r \in Index!Kinds,
         stream' = [stream EXCEPT ![s] = Append(@, r)],
         UNCHANGED <<folded, batch, held, cached, hydrated, tagged, known, missed>>
  PROVE  /\ StreamsOK' /\ BatchOK' /\ CacheOK' /\ TagsOK' /\ PromptsOK'
         /\ \A o \in Index!Streams : o # s => stream'[o] = stream[o]
         /\ DOMAIN stream'[s] = DOMAIN stream[s] \cup {Len(stream[s]) + 1}
         /\ \A i \in DOMAIN stream[s] : stream'[s][i] = stream[s][i] /\ i < Len(stream[s]) + 1
         /\ stream'[s][Len(stream[s]) + 1] = r
<1>0. stream \in [Index!Streams -> Seq(Index!Kinds)]
  BY DEF IndexInv, StreamsOK
<1>1. \A o \in Index!Streams : /\ stream[o] \in Seq(Index!Kinds) /\ Len(stream[o]) \in Nat
                               /\ DOMAIN stream[o] = 1..Len(stream[o])
  BY StreamFacts DEF IndexInv
<1>2. stream'[s] = Append(stream[s], r) /\ \A o \in Index!Streams : o # s => stream'[o] = stream[o]
  BY <1>0
<1>3. Append(stream[s], r) \in Seq(Index!Kinds) /\ Len(Append(stream[s], r)) = Len(stream[s]) + 1
  BY <1>1
<1>4. /\ DOMAIN stream'[s] = DOMAIN stream[s] \cup {Len(stream[s]) + 1}
      /\ \A i \in DOMAIN stream[s] : stream'[s][i] = stream[s][i] /\ i < Len(stream[s]) + 1
      /\ stream'[s][Len(stream[s]) + 1] = r
  BY <1>1, <1>2, <1>3
<1>5. \A o \in Index!Streams : /\ Len(stream[o]) <= Len(stream'[o])
                               /\ DOMAIN stream[o] \subseteq DOMAIN stream'[o]
                               /\ \A i \in DOMAIN stream[o] : stream'[o][i] = stream[o][i]
  <2> TAKE o \in Index!Streams
  <2>1. CASE o = s
    BY <1>1, <1>2, <1>3, <1>4, <2>1
  <2>2. CASE o # s
    BY <1>1, <1>2, <2>2
  <2> QED
    BY <2>1, <2>2
<1>6. stream' \in [Index!Streams -> Seq(Index!Kinds)] /\ \A o \in Index!Streams : Len(stream'[o]) \in Nat
  <2>1. stream' \in [Index!Streams -> Seq(Index!Kinds)]
    BY <1>0, <1>2, <1>3
  <2> QED
    BY <2>1
<1>7. StreamsOK'
  <2>1. \A o \in Index!Streams : folded[o] \in Nat /\ folded[o] <= Len(stream[o]) /\ missed[o] \subseteq 1..folded[o]
    BY StreamFacts DEF IndexInv
  <2>2. \A o \in Index!Streams : folded[o] <= Len(stream'[o])
    BY <1>1, <1>5, <1>6, <2>1
  <2>3. folded \in [Index!Streams -> Nat] /\ missed \in [Index!Streams -> SUBSET Nat]
    BY DEF IndexInv, StreamsOK
  <2> QED
    BY <1>6, <2>1, <2>2, <2>3 DEF StreamsOK
<1>8. BatchOK' /\ CacheOK'
  <2>1. "local" \in Index!Streams /\ "remote" \in Index!Streams
    BY DEF Index!Streams
  <2> QED
    BY <1>1, <1>5, <1>6, <2>1 DEF IndexInv, BatchOK, CacheOK, Given
<1>9. \A o \in Index!Streams : Given(o)' = Given(o)
  BY DEF Given
<1>10. Fresh => Fresh'
  BY DEF Fresh
<1>11. TagsOK' /\ PromptsOK'
  BY <1>5, <1>9, <1>10, QuietStep
<1> QED
  BY <1>2, <1>4, <1>7, <1>8, <1>11

LEMMA RecordKeeps ==
  ASSUME IndexInv, NEW s \in Index!Streams, Index!Record(s)
  PROVE  IndexInv'
<1>1. PICK r \in Index!Kinds : Index!MayRecord(s, r) /\ stream' = [stream EXCEPT ![s] = Append(@, r)]
  BY DEF Index!Record
<1>2. UNCHANGED <<folded, batch, deleting, held, cached, hydrated, tagged, known, missed>>
  BY DEF Index!Record, Index!cache, Index!index
<1> DEFINE n == Len(stream[s]) + 1
<1>3. /\ StreamsOK' /\ BatchOK' /\ CacheOK' /\ TagsOK' /\ PromptsOK'
      /\ \A o \in Index!Streams : o # s => stream'[o] = stream[o]
      /\ DOMAIN stream'[s] = DOMAIN stream[s] \cup {n}
      /\ \A i \in DOMAIN stream[s] : stream'[s][i] = stream[s][i] /\ i < n
      /\ stream'[s][n] = r
  BY <1>1, <1>2, AppendedStep
<1>4. /\ "local" \in Index!Streams /\ "remote" \in Index!Streams /\ s \in {"local", "remote"}
      /\ \A o \in Index!Streams : \A i \in DOMAIN stream[o] : stream[o][i] \in Index!Kinds
  BY StreamFacts DEF IndexInv
<1> HIDE DEF n
<1>5. \A i \in DOMAIN stream'["local"] :
        stream'["local"][i].type = "prompt" => stream'["local"][i].on \notin Foreign
  <2>0. \A i \in DOMAIN stream["local"] :
          stream["local"][i].type = "prompt" => stream["local"][i].on \notin Foreign
    BY DEF IndexInv, OrderOK
  <2>1. CASE s = "remote"
    BY <1>3, <1>4, <2>0, <2>1
  <2>2. CASE s = "local"
    <3>1. r.type = "prompt" => r.on \notin Foreign
      BY <1>1, <2>2 DEF Index!MayRecord, Index!Own
    <3> QED
      BY <1>3, <2>0, <2>2, <3>1
  <2> QED
    BY <1>4, <2>1, <2>2
<1>6. \A x \in deleting : Index!Tombstone(x) \in Index!Recorded("local")'
  <2>1. \A x \in deleting : Index!Tombstone(x) \in Index!Recorded("local")
    BY DEF IndexInv, OrderOK
  <2>2. Index!Recorded("local") \subseteq Index!Recorded("local")'
    BY <1>3, <1>4 DEF Index!Recorded
  <2> QED
    BY <2>1, <2>2
<1>7. ASSUME NEW p \in Foreign
      PROVE  LET z == stream'["remote"] IN
               /\ p \in Index!DeletedIn(z, DOMAIN z) => p \in Index!PromptsIn(z, DOMAIN z)
               /\ \A i, j \in DOMAIN z : z[i] = Index!Said(p) /\ z[j] = Index!Tombstone(p) => i < j
  <2> DEFINE q == stream["remote"]
             z == stream'["remote"]
  <2>0. /\ p \in Index!DeletedIn(q, DOMAIN q) => p \in Index!PromptsIn(q, DOMAIN q)
        /\ \A i, j \in DOMAIN q : q[i] = Index!Said(p) /\ q[j] = Index!Tombstone(p) => i < j
    BY DEF IndexInv, OrderOK
  <2>1. CASE s = "local"
    BY <1>3, <1>4, <2>0, <2>1
  <2>2. CASE s = "remote"
    <3>1. /\ DOMAIN z = DOMAIN q \cup {n} /\ z[n] = r /\ \A i \in DOMAIN q : z[i] = q[i] /\ i < n
      BY <1>3, <2>2
    <3>2. r.type = "delete" /\ r.on = p => Index!Said(p) \in Index!Recorded("remote")
      BY <1>1, <2>2, IndexAssumption DEF Index!MayRecord, Index!IndexAssumption
    <3>3. Index!Said(p) \in Index!Recorded("remote") => p \in Index!PromptsIn(z, DOMAIN z)
      BY <3>1, KindOf DEF Index!Recorded, Index!PromptsIn
    <3>4. p \in Index!PromptsIn(q, DOMAIN q) => p \in Index!PromptsIn(z, DOMAIN z)
      BY <3>1 DEF Index!PromptsIn
    <3>5. p \in Index!DeletedIn(z, DOMAIN z) =>
            p \in Index!DeletedIn(q, DOMAIN q) \/ (r.type = "delete" /\ r.on = p)
      BY <3>1 DEF Index!DeletedIn
    <3>6. p \in Index!DeletedIn(z, DOMAIN z) => p \in Index!PromptsIn(z, DOMAIN z)
      BY <2>0, <3>2, <3>3, <3>4, <3>5
    <3>7. r = Index!Said(p) => \A j \in DOMAIN q : q[j] # Index!Tombstone(p)
      <4>1. ASSUME r = Index!Said(p), NEW j \in DOMAIN q, q[j] = Index!Tombstone(p)
            PROVE  FALSE
        <5>1. p \in Index!DeletedIn(q, DOMAIN q)
          BY <4>1, KindOf DEF Index!DeletedIn
        <5>2. PICK i \in DOMAIN q : q[i].type = "prompt" /\ q[i].on = p
          BY <2>0, <5>1 DEF Index!PromptsIn
        <5>3. q[i] = r
          BY <1>4, <4>1, <5>2, RecordKinds
        <5>4. r \in Index!Recorded("remote")
          BY <5>3 DEF Index!Recorded
        <5>5. r.type = "prompt"
          BY <4>1, KindOf
        <5> QED
          BY <1>1, <2>2, <5>4, <5>5 DEF Index!MayRecord
      <4> QED
        BY <4>1
    <3>8. Index!Said(p) # Index!Tombstone(p)
      BY KindOf
    <3>9. DOMAIN q = 1..Len(q) /\ Len(q) \in Nat /\ n = Len(q) + 1
      BY <2>2, StreamFacts DEF IndexInv, n
    <3> HIDE DEF q, z
    <3>10. ASSUME NEW i \in DOMAIN z, NEW j \in DOMAIN z, z[i] = Index!Said(p), z[j] = Index!Tombstone(p)
           PROVE  i < j
      <4>1. CASE i \in DOMAIN q /\ j \in DOMAIN q
        BY <2>0, <3>1, <3>10, <4>1
      <4>2. CASE i \in DOMAIN q /\ j = n
        BY <3>1, <4>2
      <4>3. CASE i = n /\ j \in DOMAIN q
        BY <3>1, <3>7, <3>10, <4>3
      <4>4. CASE i = n /\ j = n
        BY <3>8, <3>10, <4>4
      <4> QED
        BY <3>1, <4>1, <4>2, <4>3, <4>4
    <3> QED
      BY <3>6, <3>10 DEF z
  <2> QED
    BY <1>4, <2>1, <2>2
<1>8. OrderOK'
  BY <1>2, <1>5, <1>6, <1>7 DEF OrderOK
<1> QED
  BY <1>3, <1>8 DEF IndexInv

LEMMA DeleteKeeps ==
  ASSUME IndexInv, NEW x \in Row \cup Prompt, Index!Delete(x)
  PROVE  IndexInv'
<1> DEFINE r == Index!Tombstone(x)
           n == Len(stream["local"]) + 1
<1>1. /\ stream' = [stream EXCEPT !["local"] = Append(@, r)] /\ deleting' = deleting \cup {x}
      /\ UNCHANGED <<folded, batch, held, cached, hydrated, tagged, known, missed>>
  BY DEF Index!Delete, Index!cache, Index!index
<1>2. r \in Index!Kinds
  BY DEF Index!Kinds
<1>3. "local" \in Index!Streams /\ "remote" \in Index!Streams
  BY DEF Index!Streams
<1>4. r.type = "delete"
  BY KindOf
<1> HIDE DEF r
<1>5. /\ StreamsOK' /\ BatchOK' /\ CacheOK' /\ TagsOK' /\ PromptsOK'
      /\ stream'["remote"] = stream["remote"]
      /\ DOMAIN stream'["local"] = DOMAIN stream["local"] \cup {n}
      /\ \A i \in DOMAIN stream["local"] : stream'["local"][i] = stream["local"][i]
      /\ stream'["local"][n] = r
  BY <1>1, <1>2, <1>3, AppendedStep
<1> HIDE DEF n
<1>6. \A i \in DOMAIN stream'["local"] :
        stream'["local"][i].type = "prompt" => stream'["local"][i].on \notin Foreign
  BY <1>4, <1>5 DEF IndexInv, OrderOK
<1>7. \A y \in deleting' : Index!Tombstone(y) \in Index!Recorded("local")'
  <2>1. Index!Recorded("local") \subseteq Index!Recorded("local")' /\ r \in Index!Recorded("local")'
    BY <1>5 DEF Index!Recorded
  <2>2. \A y \in deleting : Index!Tombstone(y) \in Index!Recorded("local")
    BY DEF IndexInv, OrderOK
  <2> QED
    BY <1>1, <2>1, <2>2 DEF r
<1>8. OrderOK'
  BY <1>5, <1>6, <1>7 DEF IndexInv, OrderOK
<1> QED
  BY <1>5, <1>8 DEF IndexInv

LEMMA DeleteDropKeeps ==
  ASSUME IndexInv, NEW x \in Row \cup Prompt, Index!DeleteDrop(x)
  PROVE  IndexInv'
<1>0. /\ "local" \in Index!Streams /\ "remote" \in Index!Streams
      /\ \A s \in Index!Streams : /\ Len(stream[s]) \in Nat /\ folded[s] \in Nat
                                  /\ folded[s] <= Len(stream[s]) /\ missed[s] \subseteq 1..folded[s]
      /\ folded \in [Index!Streams -> Nat] /\ missed \in [Index!Streams -> SUBSET Nat]
  BY StreamFacts DEF IndexInv, StreamsOK
<1>1. /\ x \in deleting /\ deleting' = deleting \ {x} /\ known' = known \ {x}
      /\ UNCHANGED <<stream, batch, held, cached, hydrated, tagged>>
  BY DEF Index!DeleteDrop, Index!cache
<1>2. /\ \A s \in Index!Streams : /\ folded'[s] \in Nat /\ folded'[s] <= Len(stream[s])
                                  /\ missed'[s] \subseteq 1..folded'[s] /\ Given(s)' = Given(s)
      /\ folded["local"] <= folded'["local"]
      /\ folded'["remote"] = folded["remote"] /\ missed'["remote"] = missed["remote"]
      /\ folded' \in [Index!Streams -> Nat] /\ missed' \in [Index!Streams -> SUBSET Nat]
  <2>1. CASE UNCHANGED <<folded, missed>>
    BY <1>0, <2>1 DEF Given
  <2>2. CASE /\ folded' = [folded EXCEPT !["local"] = Len(stream["local"])]
             /\ missed' = [missed EXCEPT !["local"] = @ \cup (folded["local"] + 1..Len(stream["local"]))]
    <3>1. /\ folded'["local"] = Len(stream["local"])
          /\ missed'["local"] = missed["local"] \cup (folded["local"] + 1..Len(stream["local"]))
          /\ \A s \in Index!Streams : s # "local" => folded'[s] = folded[s] /\ missed'[s] = missed[s]
      BY <1>0, <2>2
    <3>2. folded' \in [Index!Streams -> Nat] /\ missed' \in [Index!Streams -> SUBSET Nat]
      BY <1>0, <2>2
    <3>3. missed'["local"] \subseteq 1..folded'["local"] /\ Given("local")' = Given("local")
      BY <1>0, <3>1 DEF Given
    <3>4. \A s \in Index!Streams : s # "local" => Given(s)' = Given(s)
      BY <3>1 DEF Given
    <3> QED
      BY <1>0, <3>1, <3>2, <3>3, <3>4
  <2> QED
    BY <2>1, <2>2 DEF Index!DeleteDrop
<1>3. StreamsOK'
  BY <1>0, <1>1, <1>2 DEF IndexInv, StreamsOK
<1>4. BatchOK'
  BY <1>0, <1>1, <1>2 DEF IndexInv, BatchOK
<1>5. CacheOK'
  BY <1>1, <1>2 DEF IndexInv, CacheOK
<1>6. TagsOK'
  BY <1>0, <1>1, <1>2 DEF IndexInv, TagsOK, Index!Ops, Fresh
<1>7. PromptsOK'
  <2>1. ASSUME NEW p \in Foreign, Index!Tombstone(p) \notin Index!Recorded("local")
        PROVE  ForeignOK(p)'
    <3>1. p \in known' <=> p \in known
      BY <1>1, <2>1 DEF IndexInv, OrderOK
    <3>2. ForeignOK(p)
      BY <2>1 DEF IndexInv, PromptsOK, ForeignOK
    <3> QED
      BY <1>0, <1>1, <1>2, <3>1, <3>2 DEF ForeignOK, Fresh
  <2> QED
    BY <1>1, <2>1 DEF PromptsOK, ForeignOK, Index!Recorded
<1>8. OrderOK'
  BY <1>1 DEF IndexInv, OrderOK, Index!Recorded
<1> QED
  BY <1>3, <1>4, <1>5, <1>6, <1>7, <1>8 DEF IndexInv

LEMMA FoldRowsKeeps ==
  ASSUME IndexInv, Index!FoldRows
  PROVE  IndexInv'
<1> DEFINE I == batch.from + 1..batch.to
           n == IF batch.to > folded["local"] THEN batch.to ELSE folded["local"]
<1>0. /\ "local" \in Index!Streams /\ "remote" \in Index!Streams
      /\ folded \in [Index!Streams -> Nat] /\ missed \in [Index!Streams -> SUBSET Nat]
      /\ \A s \in Index!Streams : s = "local" \/ s = "remote"
      /\ \A s \in Index!Streams : /\ Len(stream[s]) \in Nat /\ DOMAIN stream[s] = 1..Len(stream[s])
                                  /\ folded[s] \in Nat /\ folded[s] <= Len(stream[s])
                                  /\ missed[s] \subseteq 1..folded[s]
  BY StreamFacts DEF IndexInv, StreamsOK
<1>1. /\ batch.from \in Nat /\ batch.to \in Nat /\ batch.from <= folded["local"]
      /\ batch.to <= Len(stream["local"]) /\ Given("local") \subseteq 1..batch.from
  BY DEF IndexInv, BatchOK, Index!FoldRows
<1>2. /\ Index!Fold(stream["local"], I) /\ batch' = Index!NoBatch
      /\ folded' = [folded EXCEPT !["local"] = n]
      /\ missed' = [missed EXCEPT !["local"] = @ \ I]
      /\ UNCHANGED <<stream, deleting, held, cached, hydrated>>
  BY DEF Index!FoldRows, Index!cache
<1>3. n \in Nat /\ n <= Len(stream["local"]) /\ folded["local"] <= n /\ batch.to <= n
      /\ (n = batch.to \/ n = folded["local"])
  BY <1>0, <1>1
<1> HIDE DEF n
<1>4. folded'["local"] = n /\ missed'["local"] = missed["local"] \ I
  BY <1>0, <1>2
<1>5. folded'["remote"] = folded["remote"] /\ missed'["remote"] = missed["remote"]
  BY <1>0, <1>2
<1>6. Given("local")' = Given("local") \cup I
  <2>1. \A k \in Nat : k >= 1 /\ k <= n /\ ~(k >= batch.from + 1 /\ k <= batch.to) => k <= folded["local"]
    BY <1>0, <1>1, <1>3
  <2>2. Given("local")' = (1..n) \ (missed["local"] \ I)
    BY <1>4 DEF Given
  <2>3. (1..n) \ (missed["local"] \ I) = ((1..folded["local"]) \ missed["local"]) \cup I
    BY <1>0, <1>1, <1>3, <2>1
  <2> QED
    BY <2>2, <2>3 DEF Given
<1>7. \A o \in Index!Streams \ {"local"} : Given(o)' = Given(o)
  BY <1>0, <1>5 DEF Given
<1>8. I \subseteq DOMAIN stream["local"] /\ \A g \in Given("local"), i \in I : g < i
  BY <1>0, <1>1
<1>9. Fresh => Fresh'
  BY <1>2, <1>5 DEF Fresh
<1>10. TagsOK' /\ PromptsOK'
  <2> HIDE DEF I
  <2> QED
    BY <1>0, <1>2, <1>6, <1>7, <1>8, <1>9, FoldStep
<1>11. StreamsOK'
  <2>1. folded' \in [Index!Streams -> Nat] /\ missed' \in [Index!Streams -> SUBSET Nat]
    BY <1>0, <1>2, <1>3
  <2>2. missed'["local"] \subseteq 1..folded'["local"]
    BY <1>0, <1>3, <1>4
  <2> QED
    BY <1>0, <1>2, <1>3, <1>4, <1>5, <2>1, <2>2 DEF IndexInv, StreamsOK
<1>12. BatchOK'
  BY <1>0, <1>2, <1>3, <1>4 DEF BatchOK, Index!NoBatch
<1>13. CacheOK'
  BY <1>2, <1>5 DEF IndexInv, CacheOK
<1>14. OrderOK'
  BY <1>2 DEF IndexInv, OrderOK, Index!Recorded
<1> QED
  BY <1>10, <1>11, <1>12, <1>13, <1>14 DEF IndexInv

\* remote.db afterwards, of the streams' beginnings as before.
LEMMA StoredPage ==
  ASSUME StreamsOK, CacheOK, Index!StorePage, folded["remote"] <= Len(stream["remote"])
  PROVE  /\ cached' \in Nat /\ cached' <= Len(stream["remote"]) /\ held' \subseteq 1..cached'
<1>1. Len(stream["remote"]) \in Nat /\ folded["remote"] \in Nat
  BY StreamFacts
<1>2. CASE UNCHANGED <<held, cached>>
  BY <1>2 DEF CacheOK
<1>3. CASE /\ held' = Index!Newest(held \cup (folded["remote"] + 1..Len(stream["remote"])))
           /\ cached' = Len(stream["remote"])
  <2>1. held' \subseteq held \cup (folded["remote"] + 1..Len(stream["remote"]))
    BY <1>3 DEF Index!Newest
  <2>2. held \subseteq 1..Len(stream["remote"])
    BY <1>1 DEF CacheOK
  <2>3. folded["remote"] + 1..Len(stream["remote"]) \subseteq 1..Len(stream["remote"])
    BY <1>1
  <2>4. cached' = Len(stream["remote"])
    BY <1>3
  <2>5. held' \subseteq 1..Len(stream["remote"])
    BY <2>1, <2>2, <2>3
  <2> QED
    BY <1>1, <2>4, <2>5
<1> QED
  BY <1>2, <1>3 DEF Index!StorePage

\* A step that gives the daemon remote records, up to n, and passes over others.
LEMMA RemoteFolded ==
  ASSUME IndexInv, NEW I, NEW n \in Nat, n <= Len(stream["remote"]),
         I \subseteq 1..Len(stream["remote"]), \A g \in Given("remote"), i \in I : g < i,
         Index!Fold(stream["remote"], I), folded' = [folded EXCEPT !["remote"] = n],
         NEW M \in SUBSET (1..n), missed' = [missed EXCEPT !["remote"] = M],
         (1..n) \ M = Given("remote") \cup I,
         UNCHANGED <<stream, batch, deleting>>, hydrated' = TRUE,
         Fresh => M = {},
         cached' \in Nat, cached' <= Len(stream["remote"]), held' \subseteq 1..cached'
  PROVE  IndexInv'
<1>0. /\ "local" \in Index!Streams /\ "remote" \in Index!Streams
      /\ folded \in [Index!Streams -> Nat] /\ missed \in [Index!Streams -> SUBSET Nat]
      /\ \A s \in Index!Streams : s = "local" \/ s = "remote"
      /\ \A s \in Index!Streams : /\ Len(stream[s]) \in Nat /\ DOMAIN stream[s] = 1..Len(stream[s])
                                  /\ folded[s] <= Len(stream[s]) /\ missed[s] \subseteq 1..folded[s]
  BY StreamFacts DEF IndexInv, StreamsOK
<1>1. /\ folded'["remote"] = n /\ missed'["remote"] = M
      /\ folded'["local"] = folded["local"] /\ missed'["local"] = missed["local"]
      /\ folded' \in [Index!Streams -> Nat] /\ missed' \in [Index!Streams -> SUBSET Nat]
  BY <1>0
<1>2. Given("remote")' = Given("remote") \cup I /\ Given("local")' = Given("local")
  BY <1>1 DEF Given
<1>3. Fresh => Fresh'
  BY <1>1 DEF Fresh
<1>4. \A o \in Index!Streams \ {"remote"} : Given(o)' = Given(o)
  BY <1>0, <1>2
<1>5. TagsOK' /\ PromptsOK'
  <2>1. I \subseteq DOMAIN stream["remote"] /\ stream' = stream
    BY <1>0
  <2> QED
    BY <1>0, <1>2, <1>3, <1>4, <2>1, FoldStep
<1>6. StreamsOK'
  BY <1>0, <1>1 DEF IndexInv, StreamsOK
<1>7. BatchOK'
  BY <1>1, <1>2 DEF IndexInv, BatchOK
<1>8. CacheOK'
  BY DEF CacheOK
<1>9. OrderOK'
  BY DEF IndexInv, OrderOK, Index!Recorded
<1> QED
  BY <1>5, <1>6, <1>7, <1>8, <1>9 DEF IndexInv

LEMMA FoldRemoteKeeps ==
  ASSUME IndexInv, Index!FoldRemote
  PROVE  IndexInv'
<1> DEFINE n == Len(stream["remote"])
           I == folded["remote"] + 1..n
           M == missed["remote"]
<1>0. /\ n \in Nat /\ folded["remote"] \in Nat /\ folded["remote"] <= n /\ M \subseteq 1..folded["remote"]
      /\ missed \in [Index!Streams -> SUBSET Nat] /\ "remote" \in Index!Streams
  BY StreamFacts DEF IndexInv, StreamsOK
<1>1. /\ hydrated /\ Index!StorePage /\ Index!Fold(stream["remote"], I)
      /\ folded' = [folded EXCEPT !["remote"] = n]
      /\ UNCHANGED <<stream, batch, deleting, hydrated, missed>>
  BY DEF Index!FoldRemote, Index!Pulled
<1>2. cached' \in Nat /\ cached' <= n /\ held' \subseteq 1..cached'
  BY <1>0, <1>1, StoredPage DEF IndexInv
<1>3. missed' = [missed EXCEPT !["remote"] = M] /\ (Fresh => M = {})
  BY <1>0, <1>1 DEF Fresh
<1>4. /\ I \subseteq 1..n /\ M \in SUBSET (1..n) /\ \A g \in Given("remote"), i \in I : g < i
      /\ (1..n) \ M = Given("remote") \cup I
  BY <1>0 DEF Given
<1>5. hydrated' = TRUE
  BY <1>1 DEF IndexInv, CacheOK
<1>6. n <= Len(stream["remote"]) /\ I \subseteq 1..Len(stream["remote"])
      /\ cached' <= Len(stream["remote"]) /\ UNCHANGED <<stream, batch, deleting>>
  BY <1>0, <1>1, <1>2, <1>4
<1> HIDE DEF I, M, n
<1> QED
  BY <1>0, <1>1, <1>2, <1>3, <1>4, <1>5, <1>6, RemoteFolded

\* A step that folds nothing and touches only the cache.
LEMMA CacheStep ==
  ASSUME IndexInv, UNCHANGED <<stream, folded, batch, deleting, tagged, known, missed>>,
         cached' \in Nat, cached' <= Len(stream["remote"]), held' \subseteq 1..cached',
         hydrated' \in BOOLEAN, hydrated => hydrated', hydrated' \/ cached' = cached
  PROVE  IndexInv'
<1>1. \A s \in Index!Streams : Given(s)' = Given(s)
  BY DEF Given
<1>2. Fresh => Fresh'
  BY DEF Fresh
<1>3. TagsOK' /\ PromptsOK'
  BY <1>1, <1>2, QuietStep
<1>4. StreamsOK' /\ BatchOK' /\ CacheOK' /\ OrderOK'
  BY DEF IndexInv, StreamsOK, BatchOK, CacheOK, OrderOK, Given, Index!Recorded
<1> QED
  BY <1>3, <1>4 DEF IndexInv

LEMMA HydrateKeeps ==
  ASSUME IndexInv, Index!Hydrate
  PROVE  IndexInv'
<1>0. /\ ~hydrated /\ hydrated' = TRUE /\ UNCHANGED <<stream, batch, deleting>>
  BY DEF Index!Hydrate
<1>1. /\ folded["remote"] = 0 /\ cached \in Nat /\ cached <= Len(stream["remote"])
      /\ held \subseteq 1..cached /\ Len(stream["remote"]) \in Nat
  BY <1>0, StreamFacts DEF IndexInv, CacheOK
<1>2. CASE /\ Index!Fold(stream["remote"], held)
           /\ folded' = [folded EXCEPT !["remote"] = cached]
           /\ missed' = [missed EXCEPT !["remote"] = (1..cached) \ held]
           /\ UNCHANGED <<held, cached>>
  <2> DEFINE M == (1..cached) \ held
  <2>1. Given("remote") = {}
    BY <1>1 DEF Given
  <2>2. held \subseteq 1..Len(stream["remote"])
    BY <1>1
  <2>3. M \in SUBSET (1..cached) /\ (1..cached) \ M = Given("remote") \cup held
    BY <1>1, <2>1
  <2>4. Fresh => M = {}
    BY <1>0 DEF Fresh
  <2>5. \A g \in Given("remote"), i \in held : g < i
    BY <2>1
  <2> HIDE DEF M
  <2>6. missed' = [missed EXCEPT !["remote"] = M]
    BY <1>2 DEF M
  <2>7. cached' \in Nat /\ cached' <= Len(stream["remote"]) /\ held' \subseteq 1..cached'
    BY <1>1, <1>2
  <2> QED
    BY <1>0, <1>1, <1>2, <2>2, <2>3, <2>4, <2>5, <2>6, <2>7, RemoteFolded
<1>3. CASE UNCHANGED <<folded, tagged, known, held, cached, missed>>
  BY <1>0, <1>1, <1>3, CacheStep
<1>4. CASE held' = {} /\ cached' = 0 /\ UNCHANGED <<folded, tagged, known, missed>>
  BY <1>0, <1>1, <1>4, CacheStep
<1> QED
  BY <1>2, <1>3, <1>4 DEF Index!Hydrate, Index!index

LEMMA PullAgainKeeps ==
  ASSUME IndexInv, Index!PullAgain
  PROVE  IndexInv'
<1>0. /\ "local" \in Index!Streams /\ "remote" \in Index!Streams
      /\ folded \in [Index!Streams -> Nat] /\ missed \in [Index!Streams -> SUBSET Nat]
      /\ \A s \in Index!Streams : s = "local" \/ s = "remote"
      /\ \A s \in Index!Streams : /\ Len(stream[s]) \in Nat /\ DOMAIN stream[s] = 1..Len(stream[s])
                                  /\ folded[s] \in Nat
                                  /\ folded[s] <= Len(stream[s]) /\ missed[s] \subseteq 1..folded[s]
  BY StreamFacts DEF IndexInv, StreamsOK
<1>1. /\ held' = {} /\ cached' = 0 /\ hydrated' = FALSE
      /\ folded' = [folded EXCEPT !["remote"] = 0] /\ missed' = [missed EXCEPT !["remote"] = {}]
      /\ UNCHANGED <<stream, batch, deleting, tagged, known>>
  BY DEF Index!PullAgain, Index!index
<1>2. /\ folded'["remote"] = 0 /\ missed'["remote"] = {}
      /\ folded'["local"] = folded["local"] /\ missed'["local"] = missed["local"]
      /\ folded' \in [Index!Streams -> Nat] /\ missed' \in [Index!Streams -> SUBSET Nat]
  BY <1>0, <1>1
<1>3. Given("remote")' = {} /\ Given("local")' = Given("local") /\ Fresh'
  BY <1>1, <1>2 DEF Given, Fresh
<1>4. StreamsOK' /\ BatchOK' /\ CacheOK'
  <2>1. StreamsOK'
    BY <1>0, <1>1, <1>2 DEF IndexInv, StreamsOK
  <2>2. BatchOK'
    BY <1>1, <1>2, <1>3 DEF IndexInv, BatchOK
  <2>3. CacheOK'
    <3>1. cached' \in Nat /\ cached' <= Len(stream'["remote"]) /\ folded'["remote"] = 0
      BY <1>0, <1>1, <1>2
    <3>2. held' \subseteq 1..cached' /\ hydrated' \in BOOLEAN
      BY <1>1
    <3> QED
      BY <3>1, <3>2 DEF CacheOK
  <2> QED
    BY <2>1, <2>2, <2>3
<1>5. \A q, t : /\ Index!OpsOn(q, {}, t) = {} /\ Index!PromptsIn(q, {}) = {} /\ Index!DeletedIn(q, {}) = {}
  BY DEF Index!OpsOn, Index!PromptsIn, Index!DeletedIn
<1>6. Given("remote") \subseteq DOMAIN stream["remote"]
  BY <1>0 DEF Given
<1>7. TagsOK'
  <2>1. ASSUME NEW t \in Index!Targets, Index!Ops("remote", t) = {}
        PROVE  t \in tagged' <=>
                 Index!LastAdds(stream'["local"], Index!OpsOn(stream'["local"], Given("local")', t))
    BY <1>1, <1>3, <2>1 DEF IndexInv, TagsOK
  <2>2. ASSUME NEW t \in Index!Targets, Index!Ops("local", t) = {}, t \in tagged
        PROVE  Index!Ops("remote", t) # {}
    <3>1. CASE Index!OpsOn(stream["remote"], Given("remote"), t) = {}
      BY <2>2, <3>1 DEF IndexInv, TagsOK
    <3>2. CASE Index!OpsOn(stream["remote"], Given("remote"), t) # {}
      BY <1>6, <3>2 DEF Index!Ops, Index!OpsOn
    <3> QED
      BY <3>1, <3>2
  <2> QED
    BY <1>1, <1>3, <1>5, <2>1, <2>2 DEF TagsOK, Index!Ops
<1>8. PromptsOK'
  <2>1. ASSUME NEW p \in Foreign, Index!Tombstone(p) \notin Index!Recorded("local"), p \in known
        PROVE  p \in Index!PromptsIn(stream["remote"], DOMAIN stream["remote"])
    <3>1. CASE p \in Index!PromptsIn(stream["remote"], Given("remote"))
      BY <1>6, <3>1 DEF Index!PromptsIn
    <3>2. CASE p \notin Index!PromptsIn(stream["remote"], Given("remote"))
      BY <2>1, <3>2 DEF IndexInv, PromptsOK
    <3> QED
      BY <3>1, <3>2
  <2> QED
    BY <1>1, <1>3, <1>5, <2>1 DEF PromptsOK, Index!Recorded
<1>9. OrderOK'
  BY <1>1 DEF IndexInv, OrderOK, Index!Recorded
<1> QED
  BY <1>4, <1>7, <1>8, <1>9 DEF IndexInv

LEMMA RestartKeeps ==
  ASSUME IndexInv, Index!Restart
  PROVE  IndexInv'
<1> DEFINE q == stream["local"]
           len == Len(stream["local"])
<1>0. /\ "local" \in Index!Streams /\ "remote" \in Index!Streams
      /\ \A s \in Index!Streams : s = "local" \/ s = "remote"
      /\ \A s \in Index!Streams : /\ Len(stream[s]) \in Nat /\ DOMAIN stream[s] = 1..Len(stream[s])
      /\ \A i \in DOMAIN q : q[i] \in Index!Kinds
  BY StreamFacts DEF IndexInv
<1>1. PICK k \in 0..len, scans \in SUBSET {"tag", "prompt"} :
        /\ tagged' = Index!Seed(k, scans).tags /\ known' = Index!Seed(k, scans).prompts
        /\ missed' = [s \in Index!Streams |-> IF s = "local" THEN Index!Seed(k, scans).passed ELSE {}]
  <2>1. PICK seed \in {Index!Seed(k, scans) : k \in 0..len, scans \in SUBSET {"tag", "prompt"}} :
          /\ tagged' = seed.tags /\ known' = seed.prompts
          /\ missed' = [s \in Index!Streams |-> IF s = "local" THEN seed.passed ELSE {}]
    BY DEF Index!Restart
  <2>2. PICK k \in 0..len, scans \in SUBSET {"tag", "prompt"} : seed = Index!Seed(k, scans)
    BY <2>1
  <2> QED
    BY <2>1, <2>2
<1>2. /\ folded' = [s \in Index!Streams |-> IF s = "local" THEN Len(stream[s]) ELSE 0]
      /\ batch' = Index!NoBatch /\ deleting' = {} /\ hydrated' = FALSE
      /\ UNCHANGED <<stream, held, cached>>
  BY DEF Index!Restart
<1> DEFINE tail == k + 1..len
           all == 1..len
           past == {i \in 1..k : q[i].type \notin scans}
<1>3. /\ tagged' = Index!ApplyTags(q, IF "tag" \in scans THEN all ELSE tail, {})
      /\ known' = Index!Drop(q, tail, Index!PromptsIn(q, tail))
                  \cup (IF "prompt" \in scans THEN Index!PromptsIn(q, all) ELSE {})
      /\ missed' = [s \in Index!Streams |-> IF s = "local" THEN past ELSE {}]
  BY <1>1 DEF Index!Seed
<1>4. /\ folded'["local"] = len /\ folded'["remote"] = 0 /\ missed'["local"] = past /\ missed'["remote"] = {}
  BY <1>0, <1>2, <1>3
<1>5. past \subseteq 1..len /\ k \in Nat /\ k <= len /\ len \in Nat
  BY <1>0
<1>6. Given("local")' = all \ past /\ Given("remote")' = {}
  BY <1>4 DEF Given
<1>7. StreamsOK'
  <2>1. /\ folded' \in [Index!Streams -> Nat] /\ missed' \in [Index!Streams -> SUBSET Nat]
    BY <1>0, <1>2, <1>3, <1>5
  <2>2. stream' \in [Index!Streams -> Seq(Index!Kinds)]
    BY <1>2 DEF IndexInv, StreamsOK
  <2>3. \A s \in Index!Streams : folded'[s] <= Len(stream[s]) /\ missed'[s] \subseteq 1..folded'[s]
    BY <1>0, <1>4, <1>5
  <2> QED
    BY <1>2, <2>1, <2>2, <2>3 DEF StreamsOK
<1>8. BatchOK' /\ CacheOK'
  <2>1. BatchOK'
    BY <1>0, <1>2, <1>4 DEF BatchOK, Index!NoBatch
  <2>2. CacheOK'
    BY <1>2, <1>4 DEF IndexInv, CacheOK
  <2> QED
    BY <2>1, <2>2
<1>9. ASSUME NEW t \in Index!Targets
      PROVE  /\ t \in tagged' <=> Index!LastAdds(q, Index!OpsOn(q, Given("local")', t))
             /\ Index!Ops("local", t) = {} => t \notin tagged'
  <2> DEFINE I == IF "tag" \in scans THEN all ELSE tail
  <2>1. \A J : t \in Index!ApplyTags(q, J, {}) <=> Index!LastAdds(q, Index!OpsOn(q, J, t))
    BY DEF Index!ApplyTags, Index!LastAdds
  <2>2. \A i \in all : (i \in I /\ q[i].type = "tag") <=> (i \in all \ past /\ q[i].type = "tag")
    <3>1. CASE "tag" \in scans
      BY <3>1
    <3>2. CASE "tag" \notin scans
      BY <1>5, <3>2
    <3> QED
      BY <3>1, <3>2
  <2>3. I \subseteq all
    BY <1>5
  <2>4. Index!OpsOn(q, I, t) = Index!OpsOn(q, all \ past, t)
    BY <2>2, <2>3 DEF Index!OpsOn
  <2>5. Index!OpsOn(q, I, t) \subseteq Index!Ops("local", t)
    BY <1>0, <2>3 DEF Index!Ops, Index!OpsOn
  <2> QED
    BY <1>3, <1>6, <2>1, <2>4, <2>5 DEF Index!LastAdds
<1>10. \A t : Index!OpsOn(stream["remote"], {}, t) = {}
  BY DEF Index!OpsOn
<1>11. TagsOK'
  BY <1>2, <1>6, <1>9, <1>10 DEF TagsOK, Index!Ops
<1>12. \A p \in Foreign : p \notin known'
  <2>1. \A i \in all : q[i].type = "prompt" => q[i].on \notin Foreign
    BY <1>0 DEF IndexInv, OrderOK
  <2>2. tail \subseteq all
    BY <1>5
  <2>3. \A p \in Foreign : p \notin Index!PromptsIn(q, tail) /\ p \notin Index!PromptsIn(q, all)
    BY <2>1, <2>2 DEF Index!PromptsIn
  <2> QED
    BY <1>3, <2>3 DEF Index!Drop
<1>13. \A z : Index!PromptsIn(z, {}) = {} /\ Index!DeletedIn(z, {}) = {}
  BY DEF Index!PromptsIn, Index!DeletedIn
<1>14. PromptsOK'
  BY <1>6, <1>12, <1>13 DEF PromptsOK
<1>15. OrderOK'
  BY <1>2 DEF IndexInv, OrderOK, Index!Recorded
<1> QED
  BY <1>7, <1>8, <1>11, <1>14, <1>15 DEF IndexInv

LEMMA IndexStep ==
  ASSUME IndexInv, [Index!Next]_indexVars
  PROVE  IndexInv'
<1>1. CASE \E s \in Index!Streams : Index!Record(s)
  BY <1>1, RecordKeeps
<1>2. CASE Index!ReadRows
  <2>1. /\ batch' = [from |-> folded["local"], to |-> Len(stream["local"])]
        /\ UNCHANGED <<stream, folded, deleting, held, cached, hydrated, tagged, known, missed>>
    BY <1>2 DEF Index!ReadRows, Index!cache, Index!index
  <2>2. folded["local"] \in Nat /\ Len(stream["local"]) \in Nat
    BY StreamFacts DEF IndexInv
  <2>3. BatchOK'
    BY <2>1, <2>2 DEF BatchOK, Given
  <2>4. TagsOK' /\ PromptsOK'
    BY <2>1 DEF IndexInv, TagsOK, PromptsOK, Given, Fresh, Index!Ops, Index!Recorded
  <2>5. StreamsOK' /\ CacheOK' /\ OrderOK'
    BY <2>1 DEF IndexInv, StreamsOK, CacheOK, OrderOK, Index!Recorded
  <2> QED
    BY <2>3, <2>4, <2>5 DEF IndexInv
<1>3. CASE Index!FoldRows
  BY <1>3, FoldRowsKeeps
<1>4. CASE \E x \in Row \cup Prompt : Index!Delete(x) \/ Index!DeleteDrop(x)
  BY <1>4, DeleteKeeps, DeleteDropKeeps
<1>5. CASE Index!CachePage
  <2>1. /\ hydrated /\ Index!StorePage
        /\ UNCHANGED <<stream, folded, batch, deleting, hydrated, tagged, known, missed>>
    BY <1>5 DEF Index!CachePage, Index!Pulled, Index!index
  <2>2. cached' \in Nat /\ cached' <= Len(stream["remote"]) /\ held' \subseteq 1..cached'
    BY <2>1, StoredPage, StreamFacts DEF IndexInv
  <2>3. hydrated' \in BOOLEAN
    BY <2>1 DEF IndexInv, CacheOK
  <2> QED
    BY <2>1, <2>2, <2>3, CacheStep
<1>6. CASE Index!FoldRemote
  BY <1>6, FoldRemoteKeeps
<1>7. CASE Index!Hydrate
  BY <1>7, HydrateKeeps
<1>8. CASE Index!PullAgain
  BY <1>8, PullAgainKeeps
<1>9. CASE Index!Restart
  BY <1>9, RestartKeeps
<1>10. CASE UNCHANGED indexVars
  <2>1. UNCHANGED <<stream, folded, batch, deleting, held, cached, hydrated, tagged, known, missed>>
    BY <1>10 DEF indexVars
  <2>2. StreamsOK' /\ BatchOK' /\ CacheOK' /\ OrderOK'
    BY <2>1 DEF IndexInv, StreamsOK, BatchOK, CacheOK, OrderOK, Given, Index!Recorded
  <2>3. TagsOK' /\ PromptsOK'
    BY <2>1 DEF IndexInv, TagsOK, PromptsOK, Given, Fresh, Index!Ops, Index!Recorded
  <2> QED
    BY <2>2, <2>3 DEF IndexInv
<1> QED
  BY <1>1, <1>2, <1>3, <1>4, <1>5, <1>6, <1>7, <1>8, <1>9, <1>10 DEF Index!Next

\* Once a daemon is at the end of both streams, through whatever restarts, deletes, lost
\* caches and second pulls (foldRows, deleteRecord, foldRemote, attach, hydrate), the last
\* word it was given of the only machine that ever tagged a target decides its tag, and
\* another machine's prompt, unless deleted here, is known just when it was given the
\* prompt and not its tombstone: for any number of records and any remote_keep.
THEOREM IndexesSettleCaughtUp == Spec => []IndexesSettle
<1>1. Init => IndexInv
  BY IndexInit DEF Init
<1>2. IndexInv /\ [Next]_vars => IndexInv'
  BY PartSteps, IndexStep
<1>3. ASSUME IndexInv, Index!CaughtUp
      PROVE  /\ \A s \in Index!Streams, t \in Index!Targets :
                  (\A o \in Index!Streams \ {s} : Index!Ops(o, t) = {}) =>
                    (t \in tagged <=> Index!LastAdds(stream[s], Index!Ops(s, t) \ missed[s]))
             /\ \A p \in Foreign :
                  Index!Tombstone(p) \notin Index!Recorded("local") =>
                    (p \in known <=>
                       /\ p \in Index!PromptsIn(stream["remote"], Index!Heard("remote"))
                       /\ p \notin Index!DeletedIn(stream["remote"], Index!Heard("remote")))
  <2>0. /\ "local" \in Index!Streams /\ "remote" \in Index!Streams
        /\ \A s \in Index!Streams : s = "local" \/ s = "remote"
        /\ \A s \in Index!Streams : DOMAIN stream[s] = 1..Len(stream[s])
    BY <1>3, StreamFacts DEF IndexInv
  <2>1. \A s \in Index!Streams : Given(s) = Index!Heard(s) /\ (missed[s] = {} => Given(s) = DOMAIN stream[s])
    BY <1>3, <2>0 DEF Given, Index!Heard, Index!CaughtUp
  <2>2. \A s \in Index!Streams : \A t : Index!OpsOn(stream[s], Given(s), t) = Index!Ops(s, t) \ missed[s]
    BY <2>1 DEF Index!Heard, Index!Ops, Index!OpsOn
  <2>3. ASSUME NEW s \in Index!Streams, NEW t \in Index!Targets,
               \A o \in Index!Streams \ {s} : Index!Ops(o, t) = {}
        PROVE  t \in tagged <=> Index!LastAdds(stream[s], Index!Ops(s, t) \ missed[s])
    <3>1. CASE s = "local"
      <4>1. Index!Ops("remote", t) = {}
        BY <2>0, <2>3, <3>1
      <4> QED
        BY <1>3, <2>2, <3>1, <4>1 DEF IndexInv, TagsOK
    <3>2. CASE s = "remote"
      <4> DEFINE ops == Index!OpsOn(stream["remote"], Given("remote"), t)
      <4>1. Index!Ops("local", t) = {}
        BY <2>0, <2>3, <3>2
      <4>2. /\ ops # {} => (t \in tagged <=> Index!LastAdds(stream["remote"], ops))
            /\ ops = {} /\ t \in tagged => Index!Ops("remote", t) # {} /\ Fresh
        BY <1>3, <4>1 DEF IndexInv, TagsOK
      <4>3. Fresh => ops = Index!Ops("remote", t)
        BY <2>0, <2>1 DEF Fresh, Index!Ops
      <4>4. ops = Index!Ops("remote", t) \ missed["remote"]
        BY <2>0, <2>2
      <4>5. ops = {} => ~Index!LastAdds(stream["remote"], ops)
        BY DEF Index!LastAdds
      <4> HIDE DEF ops
      <4> QED
        BY <3>2, <4>2, <4>3, <4>4, <4>5
    <3> QED
      BY <2>0, <3>1, <3>2
  <2>4. ASSUME NEW p \in Foreign, Index!Tombstone(p) \notin Index!Recorded("local")
        PROVE  p \in known <=>
                 /\ p \in Index!PromptsIn(stream["remote"], Index!Heard("remote"))
                 /\ p \notin Index!DeletedIn(stream["remote"], Index!Heard("remote"))
    <3>1. ForeignOK(p)
      BY <1>3, <2>4 DEF IndexInv, PromptsOK, ForeignOK
    <3>2. Given("remote") = Index!Heard("remote") /\ (Fresh => Given("remote") = DOMAIN stream["remote"])
      BY <2>0, <2>1 DEF Fresh
    <3> QED
      BY <3>1, <3>2 DEF ForeignOK
  <2> QED
    BY <2>3, <2>4
<1>4. IndexInv => IndexesSettle
  BY <1>3 DEF IndexesSettle, Index!IndexesSettle
<1> QED
  BY <1>1, <1>2, <1>4, PTL DEF Spec

(***************************************************************************)
(* AgentCapture                                                            *)
(***************************************************************************)
Sessions == Agent \X Id
Name(s) == Capture!Session(s[1], s[2])
Named(s) == Name(s) # Capture!None

Asked == Cardinality(DOMAIN asked)
Ran == Cardinality(DOMAIN tools)

Hooks == [kind : {"prompt", "pre", "post"}, n : Nat, a : Agent, id : Id,
          pc : {"begun", "written", "loaded", "stamped"}, start : Nat, prompt : Nat]
Tools == [s : Sessions, text : Text, turn : Nat, state : {"runs", "ended", "over"}]

CaptureTypes ==
  /\ Asked \in Nat /\ asked \in [1..Asked -> Sessions]
  /\ Ran \in Nat /\ tools \in [1..Ran -> Tools]
  /\ turn \in [Sessions -> Nat]
  /\ promptFile \in [{Capture!Session(a, i) : a \in Agent, i \in Id} -> Nat]
  /\ startFile \in [{Capture!CmdStartPath(a, i, t) : a \in Agent, i \in Id, t \in Text} -> Nat]
  /\ hooks \subseteq Hooks
  /\ records \subseteq [n : Nat, prompt : Nat, start : Nat]

\* The prompt a session works on was refused, or its id is in the session's file or
\* about to be written there.
TurnsOK ==
  \A s \in Sessions :
    /\ turn[s] <= Asked
    /\ turn[s] # 0 => asked[turn[s]] = s
    /\ \/ turn[s] \in untraced \cup {0}
       \/ Named(s) /\ promptFile[Name(s)] = turn[s]
       \/ \E h \in hooks : h.kind = "prompt" /\ h.pc = "begun" /\ h.n = turn[s]

\* A session's file names a prompt of that session, with its record made or on its way.
PromptFileOK ==
  \A s \in Sessions : Named(s) /\ promptFile[Name(s)] # 0 =>
    LET p == promptFile[Name(s)] IN
      /\ p <= turn[s] /\ asked[p] = s
      /\ \/ p \in prompts \cup untraced
         \/ \E h \in hooks : h.kind = "prompt" /\ h.pc = "written" /\ h.n = p

\* A start file was written for a command of the session and text it is named by.
StartFileOK ==
  \A c \in DOMAIN startFile : startFile[c] # 0 =>
    /\ startFile[c] <= Ran
    /\ c = <<Name(tools[startFile[c]].s), tools[startFile[c]].text>>
    /\ Named(tools[startFile[c]].s)

\* A prompt, and a start, that command n may be recorded with.
PromptFits(n, p) ==
  p # 0 => /\ p <= Asked /\ asked[p] = tools[n].s
           /\ p = tools[n].turn \/ tools[n].turn \in untraced \/ n \in overtaken
           /\ p \in prompts \cup untraced \/ n \in overtaken
StartFits(n, k) ==
  k # 0 => /\ k <= Ran /\ tools[k].s = tools[n].s /\ tools[k].text = tools[n].text
           /\ k = n \/ n \in blurred

\* Hooks know whose they are, a command has one hook after it, and that hook holds
\* what fits its command.
HookOK(h) ==
  /\ h.kind = "prompt" =>
       /\ h.n \in 1..Asked /\ asked[h.n] = <<h.a, h.id>> /\ turn[<<h.a, h.id>>] = h.n
       /\ h.pc \in {"begun", "written"}
  /\ h.kind = "pre" =>
       h.n \in 1..Ran /\ tools[h.n].s = <<h.a, h.id>> /\ tools[h.n].state = "runs"
  /\ h.kind = "post" =>
       /\ h.n \in 1..Ran /\ tools[h.n].s = <<h.a, h.id>> /\ tools[h.n].state = "ended"
       /\ PromptFits(h.n, h.prompt) /\ StartFits(h.n, h.start)
       /\ h.pc \in {"begun", "loaded", "stamped"}
HooksOK ==
  /\ \A h \in hooks : HookOK(h)
  /\ \A h, k \in hooks : h.kind = "post" /\ k.kind = "post" /\ h.n = k.n => h = k

\* Until the next prompt comes, a command in hand is of its session's turn, and no
\* prompt's hook runs beside it.
InHandOK ==
  \A n \in 1..Ran : tools[n].state # "over" /\ n \notin overtaken =>
    /\ tools[n].turn = turn[tools[n].s]
    /\ \A h \in hooks : h.kind = "prompt" => <<h.a, h.id>> # tools[n].s

\* Two commands in hand of one text in one session are blurred, and one that is not
\* has its stamp to come, in its file or taken.
StampsOK ==
  /\ \A m, n \in 1..Ran :
       /\ m # n /\ tools[m].state # "over" /\ tools[n].state # "over"
       /\ tools[m].s = tools[n].s /\ tools[m].text = tools[n].text
       => m \in blurred
  /\ \A n \in 1..Ran : tools[n].state # "over" /\ n \notin blurred /\ Capture!HasPreHook(tools[n].s[1])
                       /\ Named(tools[n].s) =>
       \/ \E h \in hooks : h.n = n /\ \/ h.kind = "pre"
                                      \/ h.kind = "post" /\ h.pc # "begun"
       \/ startFile[<<Name(tools[n].s), tools[n].text>>] = n

RecordsOK ==
  \A r \in records : r.n \in 1..Ran /\ PromptFits(r.n, r.prompt) /\ StartFits(r.n, r.start)

CaptureInv ==
  /\ CaptureTypes /\ TurnsOK /\ PromptFileOK /\ StartFileOK
  /\ HooksOK /\ InHandOK /\ StampsOK /\ RecordsOK

LEMMA FirstOf == \A n \in Nat : Cardinality(1..n) = n /\ Capture!Cardinality(1..n) = n
<1>1. \A S : Capture!Cardinality(S) = Cardinality(S)
  BY DEF Capture!Cardinality, Cardinality
<1>2. \A n \in Nat : Cardinality(1..n) = n
  <2> TAKE n \in Nat
  <2>1. Cardinality(1..n) = IF 1 > n THEN 0 ELSE n - 1 + 1
    BY FS_Interval
  <2> QED
    BY <2>1
<1> QED
  BY <1>1, <1>2

LEMMA SameSize == \A S : Capture!Cardinality(S) = Cardinality(S)
BY DEF Capture!Cardinality, Cardinality

\* Sessions that have a name have different ones.
LEMMA NamesDiffer ==
  /\ \A s, u \in Sessions : Named(s) /\ Name(s) = Name(u) => s = u
  /\ \A a \in Agent, i \in Id : Name(<<a, i>>) = Capture!Session(a, i)
<1>1. \A s \in Sessions : s \in Agent \X Id /\ s = <<s[1], s[2]>> /\ s[1] \in Agent /\ s[2] \in Id
  BY DEF Sessions
<1>2. Agent \subseteq {"claude", "codex", "cursor", "devin", "opencode"}
  BY CaptureAssumption DEF Capture!CaptureAssumption
<1>3. ASSUME NEW a \in Agent, NEW b \in Agent, NEW i, NEW j, Capture!Session(a, i) # Capture!None,
             Capture!Session(a, i) = Capture!Session(b, j)
      PROVE  a = b /\ i = j
  <2> DEFINE tag(x) == IF x = "claude" THEN "" ELSE x
  <2>1. \A x \in Agent : \A y : Capture!Session(x, y) \in {<<tag(x), y>>, Capture!None}
    BY <1>2 DEF Capture!Session, Capture!CodexSession, Capture!CursorSession,
      Capture!DevinSession, Capture!OpenCodeSession
  <2>2. \A x, y \in Agent : tag(x) = tag(y) => x = y
    BY <1>2
  <2> HIDE DEF tag
  <2>3. <<tag(a), i>> = <<tag(b), j>>
    BY <1>3, <2>1
  <2>4. tag(a) = tag(b) /\ i = j
    BY <2>3
  <2> QED
    BY <2>2, <2>4
<1> QED
  BY <1>1, <1>3 DEF Name, Named

LEMMA CaptureInit == Capture!Init => CaptureInv
<1> SUFFICES ASSUME Capture!Init
             PROVE  CaptureInv
  OBVIOUS
<1>1. asked = <<>> /\ tools = <<>> /\ Asked = 0 /\ Ran = 0
  BY FS_EmptySet DEF Capture!Init, Asked, Ran
<1>2. 1..Asked = {} /\ 1..Ran = {}
  BY <1>1
<1>3. CaptureTypes
  BY <1>1, <1>2 DEF Capture!Init, CaptureTypes, Sessions
<1>4. TurnsOK /\ PromptFileOK /\ StartFileOK
  <2>1. \A s \in Sessions : turn[s] = 0
    BY DEF Capture!Init, Sessions
  <2>2. \A s \in Sessions : promptFile[Name(s)] = 0
    BY DEF Capture!Init, Sessions, Name
  <2>3. \A c \in DOMAIN startFile : startFile[c] = 0
    BY DEF Capture!Init
  <2> QED
    BY <1>1, <2>1, <2>2, <2>3 DEF TurnsOK, PromptFileOK, StartFileOK
<1>5. HooksOK /\ RecordsOK
  BY DEF Capture!Init, HooksOK, RecordsOK
<1>6. InHandOK /\ StampsOK
  BY <1>2 DEF InHandOK, StampsOK
<1> QED
  BY <1>3, <1>4, <1>5, <1>6 DEF CaptureInv

\* What prompts and commands are does not change, and what is remembered of them grows.
Grows ==
  /\ Asked <= Asked' /\ \A n \in 1..Asked : asked'[n] = asked[n]
  /\ Ran <= Ran'
  /\ \A n \in 1..Ran : /\ tools'[n].s = tools[n].s /\ tools'[n].text = tools[n].text
                       /\ tools'[n].turn = tools[n].turn
  /\ prompts \subseteq prompts' /\ untraced \subseteq untraced'
  /\ overtaken \subseteq overtaken' /\ blurred \subseteq blurred'

\* A step that leaves prompts, their files and their hooks alone.
LEMMA PromptsLeft ==
  ASSUME CaptureInv, UNCHANGED <<asked, turn, promptFile, prompts>>, untraced \subseteq untraced',
         {h \in hooks : h.kind = "prompt"} = {h \in hooks' : h.kind = "prompt"}
  PROVE  TurnsOK' /\ PromptFileOK'
<1>1. Asked' = Asked
  BY DEF Asked
<1>2. \A h : h.kind = "prompt" => (h \in hooks <=> h \in hooks')
  OBVIOUS
<1>3. TurnsOK'
  BY <1>1, <1>2 DEF CaptureInv, TurnsOK
<1>4. PromptFileOK'
  BY <1>1, <1>2 DEF CaptureInv, PromptFileOK
<1> QED
  BY <1>3, <1>4

\* A step that leaves commands, their files and their hooks alone.
LEMMA CommandsLeft ==
  ASSUME CaptureInv, UNCHANGED <<tools, startFile, blurred>>,
         {h \in hooks : h.kind # "prompt"} = {h \in hooks' : h.kind # "prompt"}
  PROVE  StartFileOK' /\ StampsOK'
<1>1. Ran' = Ran
  BY DEF Ran
<1>2. \A h : h.kind # "prompt" => (h \in hooks <=> h \in hooks')
  OBVIOUS
<1>3. StartFileOK'
  BY <1>1 DEF CaptureInv, StartFileOK
<1>4. StampsOK'
  BY <1>1, <1>2 DEF CaptureInv, StampsOK
<1> QED
  BY <1>3, <1>4

\* What a command was recorded with, or its hook holds, keeps fitting it.
LEMMA FitsStay ==
  ASSUME CaptureTypes, CaptureTypes', Grows, NEW n \in 1..Ran
  PROVE  /\ n \in 1..Ran'
         /\ \A p \in Nat : PromptFits(n, p) => PromptFits(n, p)'
         /\ \A k \in Nat : StartFits(n, k) => StartFits(n, k)'
<1>0. Asked \in Nat /\ Ran \in Nat /\ Asked' \in Nat /\ Ran' \in Nat
  BY DEF CaptureTypes
<1>1. n \in 1..Ran'
  BY <1>0 DEF Grows
<1>2. ASSUME NEW p \in Nat, PromptFits(n, p)
      PROVE  PromptFits(n, p)'
  <2>1. CASE p = 0
    BY <2>1 DEF PromptFits
  <2>2. CASE p # 0
    <3>1. p \in 1..Asked
      BY <1>0, <1>2, <2>2 DEF PromptFits
    <3> QED
      BY <1>0, <1>2, <2>2, <3>1 DEF Grows, PromptFits
  <2> QED
    BY <2>1, <2>2
<1>3. ASSUME NEW k \in Nat, StartFits(n, k)
      PROVE  StartFits(n, k)'
  <2>1. CASE k = 0
    BY <2>1 DEF StartFits
  <2>2. CASE k # 0
    <3>1. k \in 1..Ran
      BY <1>0, <1>3, <2>2 DEF StartFits
    <3> QED
      BY <1>0, <1>3, <2>2, <3>1 DEF Grows, StartFits
  <2> QED
    BY <2>1, <2>2
<1> QED
  BY <1>1, <1>2, <1>3

LEMMA RecordsStay ==
  ASSUME CaptureInv, CaptureTypes', Grows, UNCHANGED records
  PROVE  RecordsOK'
<1>1. SUFFICES ASSUME NEW r \in records
               PROVE  r.n \in 1..Ran' /\ PromptFits(r.n, r.prompt)' /\ StartFits(r.n, r.start)'
  BY DEF RecordsOK
<1>2. /\ r.n \in 1..Ran /\ r.prompt \in Nat /\ r.start \in Nat
      /\ PromptFits(r.n, r.prompt) /\ StartFits(r.n, r.start)
  BY DEF CaptureInv, CaptureTypes, RecordsOK
<1> QED
  BY <1>2, FitsStay DEF CaptureInv

\* A hook keeps its word while its prompt is its session's last and its command does
\* not come or go.
LEMMA HookStays ==
  ASSUME CaptureInv, CaptureTypes', Grows, NEW h \in hooks,
         h.kind = "prompt" => turn'[<<h.a, h.id>>] = turn[<<h.a, h.id>>],
         h.kind # "prompt" => tools'[h.n].state = tools[h.n].state
  PROVE  HookOK(h)'
<1>0. HookOK(h) /\ CaptureTypes /\ h \in Hooks /\ h.prompt \in Nat /\ h.start \in Nat
  BY DEF CaptureInv, HooksOK, CaptureTypes, Hooks
<1>1. Asked \in Nat /\ Ran \in Nat /\ Asked' \in Nat /\ Ran' \in Nat
  BY DEF CaptureTypes, CaptureInv
<1>2. CASE h.kind = "prompt"
  BY <1>0, <1>1, <1>2 DEF HookOK, Grows
<1>3. CASE h.kind = "pre"
  BY <1>0, <1>1, <1>3 DEF HookOK, Grows
<1>4. CASE h.kind = "post"
  <2>1. /\ h.n \in 1..Ran /\ tools[h.n].s = <<h.a, h.id>> /\ tools[h.n].state = "ended"
        /\ PromptFits(h.n, h.prompt) /\ StartFits(h.n, h.start)
        /\ h.pc \in {"begun", "loaded", "stamped"}
    BY <1>0, <1>4 DEF HookOK
  <2>2. /\ h.n \in 1..Ran' /\ PromptFits(h.n, h.prompt)' /\ StartFits(h.n, h.start)'
    BY <1>0, <2>1, FitsStay
  <2> QED
    BY <1>4, <2>1, <2>2 DEF HookOK, Grows
<1> QED
  BY <1>0, <1>2, <1>3, <1>4 DEF Hooks

LEMMA SubmitKeeps ==
  ASSUME CaptureInv, NEW a \in Agent, NEW id \in Id, Capture!Submit(a, id)
  PROVE  CaptureInv'
<1>q. PICK q : q = Asked + 1
  OBVIOUS
<1>n. PICK new : new = Capture!Hook("prompt", q, a, id)
  OBVIOUS
<1>0. /\ CaptureTypes /\ Asked \in Nat /\ <<a, id>> \in Sessions
      /\ \A s \in Sessions : s = <<s[1], s[2]>> /\ s[1] \in Agent /\ s[2] \in Id
  BY DEF CaptureInv, CaptureTypes, Sessions
<1>1. /\ \A h \in hooks : h.a = a /\ h.id = id => h.kind = "post"
      /\ asked' = [k \in 1..q |-> IF k = q THEN <<a, id>> ELSE asked[k]]
      /\ turn' = [turn EXCEPT ![<<a, id>>] = q]
      /\ hooks' = hooks \cup {new}
      /\ overtaken' = overtaken \cup {n \in DOMAIN tools : tools[n].state # "over" /\ tools[n].s = <<a, id>>}
      /\ UNCHANGED <<tools, promptFile, startFile, prompts, records, untraced, blurred>>
  BY <1>q, <1>n, SameSize DEF Capture!Submit, Capture!Of, Capture!Running, Asked
<1>2. /\ new.kind = "prompt" /\ new.n = q /\ new.a = a /\ new.id = id /\ new.pc = "begun"
      /\ new \in Hooks
  BY <1>0, <1>q, <1>n DEF Capture!Hook, Hooks
<1>3. Asked' = q /\ Ran' = Ran
  BY <1>q, <1>0, <1>1, FirstOf DEF Asked, Ran
<1>4. /\ \A n \in 1..Asked : asked'[n] = asked[n] /\ asked[n] \in Sessions
      /\ asked'[q] = <<a, id>> /\ q \in Nat /\ q > Asked
  BY <1>q, <1>0, <1>1 DEF CaptureTypes
<1>5. CaptureTypes'
  <2>1. asked' \in [1..q -> Sessions]
    BY <1>q, <1>0, <1>1 DEF CaptureTypes
  <2> QED
    BY <1>0, <1>1, <1>2, <1>3, <1>4, <2>1 DEF CaptureTypes
<1>6. Grows
  BY <1>q, <1>0, <1>1, <1>3, <1>4 DEF Grows, CaptureTypes
<1>7. turn' \in [Sessions -> Nat] /\ turn'[<<a, id>>] = q
      /\ \A s \in Sessions : s # <<a, id>> => turn'[s] = turn[s]
  BY <1>0, <1>1, <1>4 DEF CaptureTypes
<1>8. TurnsOK'
  <2> SUFFICES ASSUME NEW s \in Sessions
               PROVE  /\ turn'[s] <= Asked'
                      /\ turn'[s] # 0 => asked'[turn'[s]] = s
                      /\ \/ turn'[s] \in untraced' \cup {0}
                         \/ Named(s) /\ promptFile'[Name(s)] = turn'[s]
                         \/ \E h \in hooks' : h.kind = "prompt" /\ h.pc = "begun" /\ h.n = turn'[s]
    BY DEF TurnsOK
  <2>1. CASE s = <<a, id>>
    BY <1>1, <1>2, <1>3, <1>4, <1>7, <2>1
  <2>2. CASE s # <<a, id>>
    <3>1. /\ turn[s] \in Nat /\ turn[s] <= Asked
          /\ turn[s] # 0 => asked[turn[s]] = s
          /\ \/ turn[s] \in untraced \cup {0}
             \/ Named(s) /\ promptFile[Name(s)] = turn[s]
             \/ \E h \in hooks : h.kind = "prompt" /\ h.pc = "begun" /\ h.n = turn[s]
      BY <1>0 DEF CaptureInv, TurnsOK, CaptureTypes
    <3> QED
      BY <1>0, <1>1, <1>3, <1>4, <1>7, <2>2, <3>1
  <2> QED
    BY <2>1, <2>2
<1>9. PromptFileOK'
  <2> SUFFICES ASSUME NEW s \in Sessions, Named(s), promptFile[Name(s)] # 0
               PROVE  LET p == promptFile[Name(s)] IN
                        /\ p <= turn'[s] /\ asked'[p] = s
                        /\ \/ p \in prompts \cup untraced
                           \/ \E h \in hooks' : h.kind = "prompt" /\ h.pc = "written" /\ h.n = p
    BY <1>1 DEF PromptFileOK
  <2> DEFINE p == promptFile[Name(s)]
  <2>1. /\ p <= turn[s] /\ asked[p] = s /\ turn[s] <= Asked /\ turn[s] \in Nat
        /\ \/ p \in prompts \cup untraced
           \/ \E h \in hooks : h.kind = "prompt" /\ h.pc = "written" /\ h.n = p
    BY <1>0 DEF CaptureInv, PromptFileOK, TurnsOK, CaptureTypes
  <2>2. p \in Nat
    BY <1>0 DEF CaptureTypes, Name
  <2> HIDE DEF p
  <2>3. p \in 1..Asked
    BY <1>0, <2>1, <2>2 DEF p
  <2> QED
    BY <1>0, <1>1, <1>4, <1>7, <2>1, <2>3 DEF p
<1>10. StartFileOK' /\ StampsOK'
  <2>1. {h \in hooks : h.kind # "prompt"} = {h \in hooks' : h.kind # "prompt"}
    BY <1>1, <1>2
  <2> QED
    BY <1>1, <2>1, CommandsLeft
<1>11. HooksOK'
  <2>1. ASSUME NEW h \in hooks
        PROVE  HookOK(h)'
    <3>1. h.kind = "prompt" => <<h.a, h.id>> \in Sessions /\ <<h.a, h.id>> # <<a, id>>
      BY <1>0, <1>1 DEF CaptureTypes, Hooks, Sessions
    <3> QED
      BY <1>1, <1>5, <1>6, <1>7, <3>1, HookStays
  <2>2. HookOK(new)'
    BY <1>0, <1>2, <1>3, <1>4, <1>7 DEF HookOK
  <2>3. \A h, k \in hooks : h.kind = "post" /\ k.kind = "post" /\ h.n = k.n => h = k
    BY DEF CaptureInv, HooksOK
  <2>4. \A h \in hooks' : h \in hooks \/ h = new
    BY <1>1
  <2>5. ASSUME NEW h \in hooks'
        PROVE  HookOK(h)'
    BY <2>1, <2>2, <2>4
  <2>6. \A h, k \in hooks' : h.kind = "post" /\ k.kind = "post" /\ h.n = k.n => h = k
    BY <1>2, <2>3, <2>4
  <2> QED
    BY <2>5, <2>6 DEF HooksOK
<1>12. InHandOK'
  <2> SUFFICES ASSUME NEW n \in 1..Ran, tools[n].state # "over", n \notin overtaken'
               PROVE  /\ tools[n].turn = turn'[tools[n].s]
                      /\ \A h \in hooks' : h.kind = "prompt" => <<h.a, h.id>> # tools[n].s
    BY <1>1, <1>3 DEF InHandOK
  <2>1. /\ n \notin overtaken /\ tools[n].s # <<a, id>> /\ tools[n].s \in Sessions
    BY <1>0, <1>1 DEF CaptureTypes, Tools
  <2>2. /\ tools[n].turn = turn[tools[n].s]
        /\ \A h \in hooks : h.kind = "prompt" => <<h.a, h.id>> # tools[n].s
    BY <2>1 DEF CaptureInv, InHandOK
  <2> QED
    BY <1>1, <1>2, <1>7, <2>1, <2>2
<1>13. RecordsOK'
  BY <1>1, <1>5, <1>6, RecordsStay
<1> QED
  BY <1>5, <1>8, <1>9, <1>10, <1>11, <1>12, <1>13 DEF CaptureInv

\* The hook of a prompt.
LEMMA PromptHookKeeps ==
  ASSUME CaptureInv, NEW h \in hooks, h.kind = "prompt",
         \/ Capture!PromptRefused(h) \/ Capture!WritePromptState(h)
         \/ Capture!SpoolPrompt(h) \/ Capture!HookDies(h)
  PROVE  CaptureInv'
<1>n. PICK new : new = [h EXCEPT !.pc = "written"]
  OBVIOUS
<1>s. PICK s : s = <<h.a, h.id>>
  OBVIOUS
<1>0. /\ CaptureTypes /\ h \in Hooks /\ HookOK(h) /\ TurnsOK /\ PromptFileOK
      /\ s \in Sessions /\ Name(s) = Capture!Session(h.a, h.id)
  BY <1>s DEF CaptureInv, CaptureTypes, HooksOK, Hooks, Sessions, Name
<1>1. /\ h.n \in 1..Asked /\ asked[h.n] = s /\ turn[s] = h.n /\ h.pc \in {"begun", "written"}
      /\ h.n \in Nat /\ Asked \in Nat
  BY <1>0, <1>s DEF HookOK, CaptureTypes
<1>2. /\ new \in Hooks /\ new.kind = "prompt" /\ new.n = h.n /\ new.a = h.a /\ new.id = h.id
      /\ new.pc = "written"
  BY <1>0, <1>n DEF Hooks
<1>3. /\ UNCHANGED <<asked, turn, tools, startFile, records, overtaken, blurred>>
      /\ \/ /\ hooks' = hooks \ {h} /\ untraced' = untraced \cup {h.n}
            /\ UNCHANGED <<promptFile, prompts>>
         \/ /\ h.pc = "begun" /\ Named(s) /\ promptFile' = [promptFile EXCEPT ![Name(s)] = h.n]
            /\ hooks' = (hooks \ {h}) \cup {new} /\ UNCHANGED <<prompts, untraced>>
         \/ /\ h.pc = "written" /\ hooks' = hooks \ {h} /\ prompts' = prompts \cup {h.n}
            /\ UNCHANGED <<promptFile, untraced>>
  <2>1. CASE Capture!PromptRefused(h)
    BY <2>1 DEF Capture!PromptRefused
  <2>2. CASE Capture!WritePromptState(h)
    BY <2>2, <1>n, <1>0, <1>s DEF Capture!WritePromptState, Capture!PromptStatePath, Named
  <2>3. CASE Capture!SpoolPrompt(h)
    BY <2>3 DEF Capture!SpoolPrompt
  <2>4. CASE Capture!HookDies(h)
    BY <2>4 DEF Capture!HookDies
  <2> QED
    BY <2>1, <2>2, <2>3, <2>4
<1>4. Asked' = Asked /\ Ran' = Ran /\ prompts \subseteq prompts' /\ untraced \subseteq untraced'
  BY <1>3 DEF Asked, Ran
<1>5. Grows
  BY <1>0, <1>3, <1>4 DEF Grows, CaptureTypes
<1>6. \A k \in hooks' : k \in hooks \ {h} \/ k = new
  BY <1>3
<1>7. CaptureTypes'
  <2>1. promptFile' \in [{Capture!Session(a, i) : a \in Agent, i \in Id} -> Nat]
    BY <1>0, <1>1, <1>3 DEF CaptureTypes
  <2>2. hooks' \subseteq Hooks
    BY <1>0, <1>2, <1>6 DEF CaptureTypes
  <2> QED
    BY <1>0, <1>3, <1>4, <2>1, <2>2 DEF CaptureTypes
<1>8. StartFileOK' /\ StampsOK'
  <2>1. {k \in hooks : k.kind # "prompt"} = {k \in hooks' : k.kind # "prompt"}
    BY <1>2, <1>3
  <2> QED
    BY <1>3, <2>1, CommandsLeft
<1>9. RecordsOK'
  BY <1>3, <1>5, <1>7, RecordsStay
<1>10. HooksOK'
  <2>1. ASSUME NEW k \in hooks
        PROVE  HookOK(k)'
    BY <1>3, <1>5, <1>7, HookStays
  <2>2. HookOK(new)'
    BY <1>1, <1>2, <1>3, <1>4, <1>s DEF HookOK
  <2>3. ASSUME NEW k \in hooks'
        PROVE  HookOK(k)'
    BY <1>6, <2>1, <2>2
  <2>4. \A j, k \in hooks' : j.kind = "post" /\ k.kind = "post" /\ j.n = k.n => j = k
    BY <1>2, <1>6 DEF CaptureInv, HooksOK
  <2> QED
    BY <2>3, <2>4 DEF HooksOK
<1>11. InHandOK'
  <2>1. \A k \in hooks' : k.kind = "prompt" =>
          \E j \in hooks : j.kind = "prompt" /\ <<j.a, j.id>> = <<k.a, k.id>>
    BY <1>2, <1>6
  <2> QED
    BY <1>3, <1>4, <2>1 DEF CaptureInv, InHandOK
<1>12. ASSUME NEW u \in Sessions
       PROVE  /\ turn[u] \in Nat /\ turn[u] <= Asked /\ (turn[u] # 0 => asked[turn[u]] = u)
              /\ \/ turn[u] \in untraced \cup {0}
                 \/ Named(u) /\ promptFile[Name(u)] = turn[u]
                 \/ \E k \in hooks : k.kind = "prompt" /\ k.pc = "begun" /\ k.n = turn[u]
              /\ Named(u) => (Name(u) = Name(s) <=> u = s)
              /\ Name(u) \in DOMAIN promptFile
  <2>1. Named(u) => (Name(u) = Name(s) <=> u = s)
    BY <1>0, NamesDiffer
  <2>2. Name(u) \in DOMAIN promptFile
    BY <1>0 DEF Name, Sessions, CaptureTypes
  <2> QED
    BY <1>0, <2>1, <2>2 DEF TurnsOK, CaptureTypes
<1>13. TurnsOK'
  <2> SUFFICES ASSUME NEW u \in Sessions
               PROVE  \/ turn[u] \in untraced' \cup {0}
                      \/ Named(u) /\ promptFile'[Name(u)] = turn[u]
                      \/ \E k \in hooks' : k.kind = "prompt" /\ k.pc = "begun" /\ k.n = turn[u]
    BY <1>3, <1>4, <1>12 DEF TurnsOK
  <2>1. CASE turn[u] = h.n
    <3>1. u = s
      BY <1>1, <1>12, <2>1
    <3> QED
      BY <1>0, <1>1, <1>2, <1>3, <1>12, <2>1, <3>1
  <2>2. CASE turn[u] # h.n
    <3>1. u # s
      BY <1>1, <2>2
    <3>2. Named(u) => promptFile'[Name(u)] = promptFile[Name(u)]
      BY <1>0, <1>3, <1>12, <3>1 DEF CaptureTypes
    <3>3. \A k \in hooks : k.n = turn[u] => k \in hooks'
      BY <1>3, <2>2
    <3> QED
      BY <1>4, <1>12, <3>2, <3>3
  <2> QED
    BY <2>1, <2>2
<1>14. PromptFileOK'
  <2> SUFFICES ASSUME NEW u \in Sessions, Named(u), promptFile'[Name(u)] # 0
               PROVE  LET p == promptFile'[Name(u)] IN
                        /\ p <= turn[u] /\ asked[p] = u
                        /\ \/ p \in prompts' \cup untraced'
                           \/ \E k \in hooks' : k.kind = "prompt" /\ k.pc = "written" /\ k.n = p
    BY <1>3 DEF PromptFileOK
  <2>1. CASE h.pc = "begun" /\ promptFile' = [promptFile EXCEPT ![Name(s)] = h.n] /\ new \in hooks'
             /\ u = s
    <3>1. promptFile'[Name(u)] = h.n
      BY <1>12, <2>1
    <3> QED
      BY <1>1, <1>2, <2>1, <3>1
  <2>2. CASE promptFile'[Name(u)] = promptFile[Name(u)]
    <3>1. PICK p : p = promptFile[Name(u)]
      OBVIOUS
    <3>2. /\ p <= turn[u] /\ asked[p] = u
          /\ \/ p \in prompts \cup untraced
             \/ \E k \in hooks : k.kind = "prompt" /\ k.pc = "written" /\ k.n = p
      BY <1>0, <2>2, <3>1 DEF PromptFileOK
    <3>3. \A k \in hooks : k.pc = "written" /\ k.n = p => k \in hooks' \/ p \in prompts' \cup untraced'
      BY <1>3
    <3> QED
      BY <1>4, <2>2, <3>1, <3>2, <3>3
  <2> QED
    BY <1>0, <1>3, <1>12, <2>1, <2>2
<1> QED
  BY <1>7, <1>8, <1>9, <1>10, <1>11, <1>13, <1>14 DEF CaptureInv

LEMMA RunToolKeeps ==
  ASSUME CaptureInv, NEW a \in Agent, NEW id \in Id, NEW t \in Text, Capture!RunTool(a, id, t)
  PROVE  CaptureInv'
<1>m. PICK m : m = Ran + 1
  OBVIOUS
<1>n. PICK new : new = Capture!Hook("pre", m, a, id)
  OBVIOUS
<1>s. PICK s : s = <<a, id>>
  OBVIOUS
<1>0. /\ CaptureTypes /\ s \in Sessions /\ s[1] = a /\ TurnsOK /\ StartFileOK
      /\ Ran \in Nat /\ Asked \in Nat /\ m \in Nat /\ m \notin 1..Ran
  BY <1>m, <1>s DEF CaptureInv, CaptureTypes, Sessions
<1>1. PICK mine : mine = [s |-> s, text |-> t, turn |-> turn[s], state |-> "runs"]
  OBVIOUS
<1>2. PICK beside : beside = {n \in 1..Ran : tools[n].state # "over" /\ tools[n].s = s /\ tools[n].text = t}
  OBVIOUS
<1>3. /\ \A h \in hooks : h.kind = "prompt" => <<h.a, h.id>> # s
      /\ tools' = [k \in 1..m |-> IF k = m THEN mine ELSE tools[k]]
      /\ hooks' = IF Capture!HasPreHook(a) THEN hooks \cup {new} ELSE hooks
      /\ blurred' = IF beside = {} THEN blurred ELSE (blurred \cup beside) \cup {m}
      /\ UNCHANGED <<asked, turn, promptFile, startFile, prompts, records, untraced, overtaken>>
  <2>1. DOMAIN tools = 1..Ran
    BY <1>0 DEF CaptureTypes
  <2>2. Capture!Beside(a, id, t) = beside
    BY <1>2, <1>s, <2>1 DEF Capture!Beside, Capture!Running
  <2>3. \A h \in hooks : h.kind = "prompt" => <<h.a, h.id>> # s
    BY <1>s DEF Capture!RunTool, Capture!Of
  <2>4. Capture!Cardinality(DOMAIN tools) + 1 = m
    BY <1>m, SameSize DEF Ran
  <2>5. tools' = [k \in 1..m |-> IF k = m THEN mine ELSE tools[k]]
    BY <1>1, <1>s, <2>4 DEF Capture!RunTool
  <2>6. hooks' = IF Capture!HasPreHook(a) THEN hooks \cup {new} ELSE hooks
    BY <1>n, <2>4 DEF Capture!RunTool
  <2>7. blurred' = IF beside = {} THEN blurred ELSE (blurred \cup beside) \cup {m}
    BY <2>2, <2>4 DEF Capture!RunTool
  <2> QED
    BY <2>3, <2>5, <2>6, <2>7 DEF Capture!RunTool
<1>4. Ran' = m /\ Asked' = Asked
  BY <1>0, <1>3, FirstOf DEF Ran, Asked
<1>5. /\ \A n \in 1..Ran : tools'[n] = tools[n] /\ tools[n] \in Tools
      /\ tools'[m] = mine /\ \A n \in 1..m : n \in 1..Ran \/ n = m
      /\ mine \in Tools /\ mine.s = s /\ mine.text = t /\ mine.turn = turn[s] /\ mine.state = "runs"
  BY <1>0, <1>1, <1>3, <1>m DEF CaptureTypes, Tools
<1>6. /\ new \in Hooks /\ new.kind = "pre" /\ new.n = m /\ new.a = a /\ new.id = id
      /\ \A k \in hooks' : k \in hooks \/ k = new
      /\ hooks \subseteq hooks'
  BY <1>0, <1>3, <1>n DEF Capture!Hook, Hooks
<1>7. CaptureTypes'
  <2>1. tools' \in [1..m -> Tools]
    BY <1>3, <1>5
  <2>2. hooks' \subseteq Hooks
    BY <1>0, <1>6 DEF CaptureTypes
  <2> QED
    BY <1>0, <1>3, <1>4, <2>1, <2>2 DEF CaptureTypes
<1>8. Grows
  BY <1>0, <1>3, <1>4, <1>5, <1>m DEF Grows, CaptureTypes
<1>9. TurnsOK' /\ PromptFileOK'
  <2>1. {h \in hooks : h.kind = "prompt"} = {h \in hooks' : h.kind = "prompt"}
    BY <1>6
  <2> QED
    BY <1>3, <2>1, PromptsLeft
<1>10. StartFileOK'
  <2> SUFFICES ASSUME NEW c \in DOMAIN startFile, startFile[c] # 0
               PROVE  /\ startFile[c] <= m
                      /\ c = <<Name(tools'[startFile[c]].s), tools'[startFile[c]].text>>
                      /\ Named(tools'[startFile[c]].s)
    BY <1>3, <1>4 DEF StartFileOK
  <2>1. startFile[c] \in 1..Ran
    BY <1>0 DEF StartFileOK, CaptureTypes
  <2> QED
    BY <1>0, <1>m, <1>5, <2>1 DEF StartFileOK
<1>11. RecordsOK'
  BY <1>3, <1>7, <1>8, RecordsStay
<1>12. HooksOK'
  <2>0. \A h \in hooks : h.kind # "prompt" => tools'[h.n].state = tools[h.n].state
    <3> TAKE h \in hooks
    <3>0. HookOK(h) /\ h.kind \in {"prompt", "pre", "post"}
      BY <1>0 DEF CaptureInv, HooksOK, CaptureTypes, Hooks
    <3>1. h.kind # "prompt" => h.n \in 1..Ran
      BY <3>0 DEF HookOK
    <3> QED
      BY <1>5, <3>1
  <2>1. ASSUME NEW k \in hooks
        PROVE  HookOK(k)'
    BY <1>3, <1>7, <1>8, <2>0, HookStays
  <2>2. HookOK(new)'
    BY <1>0, <1>m, <1>4, <1>5, <1>6, <1>s DEF HookOK
  <2>3. ASSUME NEW k \in hooks'
        PROVE  HookOK(k)'
    BY <1>6, <2>1, <2>2
  <2>4. \A j, k \in hooks' : j.kind = "post" /\ k.kind = "post" /\ j.n = k.n => j = k
    BY <1>6 DEF CaptureInv, HooksOK
  <2> QED
    BY <2>3, <2>4 DEF HooksOK
<1>13. InHandOK'
  <2>1. \A h \in hooks' : h.kind = "prompt" => h \in hooks
    BY <1>6
  <2> SUFFICES ASSUME NEW n \in 1..m, tools'[n].state # "over", n \notin overtaken
               PROVE  /\ tools'[n].turn = turn[tools'[n].s]
                      /\ \A h \in hooks : h.kind = "prompt" => <<h.a, h.id>> # tools'[n].s
    BY <1>3, <1>4, <2>1 DEF InHandOK
  <2>2. CASE n \in 1..Ran
    BY <1>5, <2>2 DEF CaptureInv, InHandOK
  <2>3. CASE n = m
    BY <1>3, <1>5, <2>3
  <2> QED
    BY <1>5, <2>2, <2>3
<1>14. StampsOK'
  <2>1. ASSUME NEW j \in 1..m, NEW n \in 1..m, j # n, tools'[j].state # "over",
               tools'[n].state # "over", tools'[j].s = tools'[n].s, tools'[j].text = tools'[n].text
        PROVE  j \in blurred'
    <3>1. CASE j \in 1..Ran /\ n \in 1..Ran
      BY <1>3, <1>5, <2>1, <3>1 DEF CaptureInv, StampsOK
    <3>2. CASE j \in 1..Ran /\ n = m
      <4>1. j \in beside
        BY <1>2, <1>5, <2>1, <3>2
      <4> QED
        BY <1>3, <4>1
    <3>3. CASE j = m /\ n \in 1..Ran
      <4>1. n \in beside
        BY <1>2, <1>5, <2>1, <3>3
      <4> QED
        BY <1>3, <3>3, <4>1
    <3> QED
      BY <1>5, <2>1, <3>1, <3>2, <3>3
  <2>2. ASSUME NEW n \in 1..m, tools'[n].state # "over", n \notin blurred',
               Capture!HasPreHook(tools'[n].s[1]), Named(tools'[n].s)
        PROVE  \/ \E h \in hooks' : h.n = n /\ (h.kind = "pre" \/ (h.kind = "post" /\ h.pc # "begun"))
               \/ startFile[<<Name(tools'[n].s), tools'[n].text>>] = n
    <3>1. CASE n \in 1..Ran
      <4>1. tools'[n] = tools[n] /\ n \notin blurred
        BY <1>3, <1>5, <2>2, <3>1
      <4>2. \/ \E h \in hooks : h.n = n /\ (h.kind = "pre" \/ (h.kind = "post" /\ h.pc # "begun"))
            \/ startFile[<<Name(tools[n].s), tools[n].text>>] = n
        BY <2>2, <3>1, <4>1 DEF CaptureInv, StampsOK
      <4> QED
        BY <1>6, <4>1, <4>2
    <3>2. CASE n = m
      <4>1. new \in hooks'
        BY <1>0, <1>3, <1>5, <2>2, <3>2
      <4> QED
        BY <1>6, <3>2, <4>1
    <3> QED
      BY <1>5, <3>1, <3>2
  <2> QED
    BY <1>3, <1>4, <2>1, <2>2 DEF StampsOK
<1> QED
  BY <1>7, <1>9, <1>10, <1>11, <1>12, <1>13, <1>14 DEF CaptureInv

LEMMA PathsKnown ==
  ASSUME CaptureTypes
  PROVE  \A k \in 1..Ran : <<Name(tools[k].s), tools[k].text>> \in DOMAIN startFile
<1> TAKE k \in 1..Ran
<1>1. /\ tools[k].s \in Sessions /\ tools[k].text \in Text
      /\ DOMAIN startFile = {Capture!CmdStartPath(a, i, t) : a \in Agent, i \in Id, t \in Text}
  BY DEF CaptureTypes, Tools
<1>2. /\ tools[k].s[1] \in Agent /\ tools[k].s[2] \in Id
      /\ Name(tools[k].s) = Capture!Session(tools[k].s[1], tools[k].s[2])
  BY <1>1 DEF Sessions, Name
<1> QED
  BY <1>1, <1>2 DEF Capture!CmdStartPath

\* One command's state is set.
LEMMA StateSet ==
  ASSUME CaptureTypes, NEW n \in 1..Ran, NEW v \in {"runs", "ended", "over"},
         tools' = [tools EXCEPT ![n].state = v]
  PROVE  /\ Ran' = Ran /\ tools' \in [1..Ran -> Tools]
         /\ tools'[n].state = v
         /\ \A k \in 1..Ran :
              /\ tools'[k].s = tools[k].s /\ tools'[k].text = tools[k].text
              /\ tools'[k].turn = tools[k].turn
              /\ k # n => tools'[k].state = tools[k].state
<1>1. DOMAIN tools = 1..Ran /\ DOMAIN tools' = 1..Ran /\ \A k \in 1..Ran : tools[k] \in Tools
  BY DEF CaptureTypes
<1>2. PICK r : r = [tools[n] EXCEPT !.state = v]
  OBVIOUS
<1>3. /\ r \in Tools /\ r.s = tools[n].s /\ r.text = tools[n].text /\ r.turn = tools[n].turn
      /\ r.state = v
  BY <1>1, <1>2 DEF Tools
<1>4. \A k \in 1..Ran : tools'[k] = IF k = n THEN r ELSE tools[k]
  BY <1>1, <1>2
<1>5. tools' \in [1..Ran -> Tools]
  BY <1>1, <1>3, <1>4
<1> QED
  BY <1>1, <1>3, <1>4, <1>5 DEF Ran

\* A step of a command or of its hooks.
LEMMA CommandStep ==
  ASSUME CaptureInv, CaptureTypes', Ran' = Ran,
         UNCHANGED <<asked, turn, promptFile, prompts, untraced, overtaken>>, blurred \subseteq blurred',
         {h \in hooks : h.kind = "prompt"} = {h \in hooks' : h.kind = "prompt"},
         \A n \in 1..Ran : /\ tools'[n].s = tools[n].s /\ tools'[n].text = tools[n].text
                           /\ tools'[n].turn = tools[n].turn
                           /\ tools[n].state = "over" => tools'[n].state = "over"
  PROVE  /\ Grows /\ TurnsOK' /\ PromptFileOK' /\ InHandOK'
         /\ \A m, n \in 1..Ran :
              /\ m # n /\ tools'[m].state # "over" /\ tools'[n].state # "over"
              /\ tools'[m].s = tools'[n].s /\ tools'[m].text = tools'[n].text
              => m \in blurred'
<1>1. Asked' = Asked /\ Asked \in Nat /\ Ran \in Nat
  BY DEF Asked, CaptureInv, CaptureTypes
<1>2. Grows
  BY <1>1 DEF Grows
<1>3. TurnsOK' /\ PromptFileOK'
  BY PromptsLeft
<1>4. \A h : h.kind = "prompt" => (h \in hooks <=> h \in hooks')
  OBVIOUS
<1>5. InHandOK'
  BY <1>4 DEF CaptureInv, InHandOK
<1>6. \A m, n \in 1..Ran :
        /\ m # n /\ tools[m].state # "over" /\ tools[n].state # "over"
        /\ tools[m].s = tools[n].s /\ tools[m].text = tools[n].text
        => m \in blurred
  BY DEF CaptureInv, StampsOK
<1>7. ASSUME NEW m \in 1..Ran, NEW n \in 1..Ran, m # n,
             tools'[m].state # "over", tools'[n].state # "over",
             tools'[m].s = tools'[n].s, tools'[m].text = tools'[n].text
      PROVE  m \in blurred'
  <2>1. tools[m].state # "over" /\ tools[n].state # "over"
    BY <1>7
  <2>2. tools[m].s = tools[n].s /\ tools[m].text = tools[n].text
    BY <1>7
  <2> QED
    BY <1>6, <1>7, <2>1, <2>2
<1> QED
  BY <1>2, <1>3, <1>5, <1>7

LEMMA ToolEndsKeeps ==
  ASSUME CaptureInv, NEW n \in DOMAIN tools, Capture!ToolEnds(n)
  PROVE  CaptureInv'
<1>n. PICK new : new = Capture!Hook("post", n, tools[n].s[1], tools[n].s[2])
  OBVIOUS
<1>0. /\ CaptureTypes /\ n \in 1..Ran /\ Ran \in Nat /\ Asked \in Nat /\ n \in Nat
      /\ \A k \in 1..Ran : tools[k] \in Tools /\ tools[k].s \in Sessions
      /\ \A h \in hooks : HookOK(h)
  BY DEF CaptureInv, CaptureTypes, Tools, HooksOK
<1>1. /\ tools[n].state = "runs" /\ \A h \in hooks : h.n = n => h.kind = "prompt"
      /\ \/ tools' = [tools EXCEPT ![n].state = "ended"] /\ hooks' = hooks \cup {new}
         \/ tools' = [tools EXCEPT ![n].state = "over"] /\ hooks' = hooks
      /\ UNCHANGED <<asked, turn, promptFile, startFile, prompts, records, untraced, overtaken, blurred>>
  BY <1>n DEF Capture!ToolEnds
<1>2. /\ new \in Hooks /\ new.kind = "post" /\ new.n = n /\ <<new.a, new.id>> = tools[n].s
      /\ new.pc = "begun" /\ new.prompt = 0 /\ new.start = 0
  BY <1>0, <1>n DEF Capture!Hook, Hooks, Sessions
<1>3. /\ Ran' = Ran /\ tools' \in [1..Ran -> Tools] /\ tools'[n].state \in {"ended", "over"}
      /\ new \in hooks' => new \in hooks \/ tools'[n].state = "ended"
      /\ \A k \in 1..Ran :
           /\ tools'[k].s = tools[k].s /\ tools'[k].text = tools[k].text
           /\ tools'[k].turn = tools[k].turn
           /\ k # n => tools'[k].state = tools[k].state
  <2>1. CASE tools' = [tools EXCEPT ![n].state = "ended"]
    BY <1>0, <2>1, StateSet
  <2>2. CASE tools' = [tools EXCEPT ![n].state = "over"] /\ hooks' = hooks
    BY <1>0, <2>2, StateSet
  <2> QED
    BY <1>1, <2>1, <2>2
<1>4. /\ hooks \subseteq hooks' /\ \A h \in hooks' : h \in hooks \/ h = new
      /\ new \notin hooks
  BY <1>1, <1>2
<1>5. CaptureTypes'
  <2>1. hooks' \subseteq Hooks
    BY <1>0, <1>2, <1>4 DEF CaptureTypes
  <2>2. Asked' = Asked
    BY <1>1 DEF Asked
  <2> QED
    BY <1>0, <1>1, <1>3, <2>1, <2>2 DEF CaptureTypes
<1>6. /\ Grows /\ TurnsOK' /\ PromptFileOK' /\ InHandOK'
      /\ \A j, k \in 1..Ran :
           /\ j # k /\ tools'[j].state # "over" /\ tools'[k].state # "over"
           /\ tools'[j].s = tools'[k].s /\ tools'[j].text = tools'[k].text
           => j \in blurred'
  <2>1. {h \in hooks : h.kind = "prompt"} = {h \in hooks' : h.kind = "prompt"}
    BY <1>2, <1>4
  <2>2. \A k \in 1..Ran : tools[k].state = "over" => tools'[k].state = "over"
    BY <1>1, <1>3
  <2> QED
    BY <1>1, <1>3, <1>5, <2>1, <2>2, CommandStep
<1>7. StartFileOK'
  <2>1. \A c \in DOMAIN startFile : startFile[c] # 0 => startFile[c] \in 1..Ran
    BY <1>0 DEF CaptureInv, StartFileOK, CaptureTypes
  <2> QED
    BY <1>1, <1>3, <2>1 DEF CaptureInv, StartFileOK
<1>8. HooksOK'
  <2>1. ASSUME NEW k \in hooks
        PROVE  HookOK(k)'
    <3>1. k.kind # "prompt" => k.n # n /\ k.n \in 1..Ran
      <4>1. HookOK(k) /\ k.kind \in {"prompt", "pre", "post"}
        BY <1>0 DEF CaptureTypes, Hooks
      <4> QED
        BY <1>1, <4>1 DEF HookOK
    <3> QED
      BY <1>1, <1>3, <1>5, <1>6, <3>1, HookStays
  <2>2. ASSUME new \in hooks'
        PROVE  HookOK(new)'
    BY <1>0, <1>2, <1>3, <1>4, <2>2 DEF HookOK, PromptFits, StartFits
  <2>3. ASSUME NEW k \in hooks'
        PROVE  HookOK(k)'
    BY <1>4, <2>1, <2>2, <2>3
  <2>4. \A j, k \in hooks : j.kind = "post" /\ k.kind = "post" /\ j.n = k.n => j = k
    BY DEF CaptureInv, HooksOK
  <2>5. \A j, k \in hooks' : j.kind = "post" /\ k.kind = "post" /\ j.n = k.n => j = k
    BY <1>1, <1>2, <1>4, <2>4
  <2> QED
    BY <2>3, <2>5 DEF HooksOK
<1>9. StampsOK'
  <2>1. ASSUME NEW k \in 1..Ran, tools'[k].state # "over", k \notin blurred',
               Capture!HasPreHook(tools'[k].s[1]), Named(tools'[k].s)
        PROVE  \/ \E h \in hooks' : h.n = k /\ (h.kind = "pre" \/ (h.kind = "post" /\ h.pc # "begun"))
               \/ startFile[<<Name(tools'[k].s), tools'[k].text>>] = k
    <3>1. tools[k].state # "over" /\ k \notin blurred /\ tools'[k].s = tools[k].s
          /\ tools'[k].text = tools[k].text
      BY <1>1, <1>3, <2>1
    <3>2. \/ \E h \in hooks : h.n = k /\ (h.kind = "pre" \/ (h.kind = "post" /\ h.pc # "begun"))
          \/ startFile[<<Name(tools[k].s), tools[k].text>>] = k
      BY <2>1, <3>1 DEF CaptureInv, StampsOK
    <3> QED
      BY <1>4, <3>1, <3>2
  <2> QED
    BY <1>1, <1>3, <1>6, <2>1 DEF StampsOK
<1>10. RecordsOK'
  BY <1>1, <1>5, <1>6, RecordsStay
<1> QED
  BY <1>5, <1>6, <1>7, <1>8, <1>9, <1>10 DEF CaptureInv

\* The hook before a command.
LEMMA PreHookKeeps ==
  ASSUME CaptureInv, NEW h \in hooks, h.kind = "pre", Capture!SaveCmdStart(h) \/ Capture!HookDies(h)
  PROVE  CaptureInv'
<1>n. PICK n : n = h.n
  OBVIOUS
<1>p. PICK place : place = <<Name(tools[n].s), tools[n].text>>
  OBVIOUS
<1>0. /\ CaptureTypes /\ h \in Hooks /\ HookOK(h) /\ StartFileOK /\ StampsOK
      /\ Ran \in Nat /\ \A k \in 1..Ran : tools[k] \in Tools /\ tools[k].s \in Sessions
  BY DEF CaptureInv, CaptureTypes, Tools, HooksOK
<1>1. /\ n \in 1..Ran /\ n \in Nat /\ tools[n].s = <<h.a, h.id>> /\ tools[n].state = "runs"
      /\ h.a \in Agent /\ h.id \in Id /\ tools[n].text \in Text
      /\ Name(tools[n].s) = Capture!Session(h.a, h.id)
  BY <1>0, <1>n DEF HookOK, Hooks, Tools, Name
<1>2. /\ hooks' = hooks \ {h}
      /\ \/ /\ startFile' = IF Named(tools[n].s) THEN [startFile EXCEPT ![place] = n] ELSE startFile
            /\ blurred' = blurred
         \/ startFile' = startFile /\ blurred' = blurred \cup {n}
      /\ UNCHANGED <<asked, turn, tools, promptFile, prompts, records, untraced, overtaken>>
  <2>1. CASE Capture!SaveCmdStart(h)
    BY <2>1, <1>1, <1>n, <1>p DEF Capture!SaveCmdStart, Capture!CmdStartPath, Named, Capture!None
  <2>2. CASE Capture!HookDies(h)
    BY <2>2, <1>n DEF Capture!HookDies
  <2> QED
    BY <2>1, <2>2
<1>3. Ran' = Ran /\ Asked' = Asked
  BY <1>2 DEF Ran, Asked
<1>4. /\ \A k \in 1..Ran : <<Name(tools[k].s), tools[k].text>> \in DOMAIN startFile
      /\ place \in DOMAIN startFile
  BY <1>0, <1>1, <1>p, PathsKnown
<1>5. CaptureTypes'
  <2>1. startFile' \in [{Capture!CmdStartPath(a, i, t) : a \in Agent, i \in Id, t \in Text} -> Nat]
    <3> DEFINE X == {Capture!CmdStartPath(a, i, t) : a \in Agent, i \in Id, t \in Text}
    <3>1. startFile \in [X -> Nat] /\ n \in Nat
      BY <1>0, <1>1 DEF CaptureTypes
    <3> HIDE DEF X
    <3>2. startFile' \in [X -> Nat]
      BY <1>2, <3>1
    <3> QED
      BY <3>2 DEF X
  <2> QED
    BY <1>0, <1>2, <1>3, <2>1 DEF CaptureTypes
<1>6. /\ Grows /\ TurnsOK' /\ PromptFileOK' /\ InHandOK'
      /\ \A j, k \in 1..Ran :
           /\ j # k /\ tools'[j].state # "over" /\ tools'[k].state # "over"
           /\ tools'[j].s = tools'[k].s /\ tools'[j].text = tools'[k].text
           => j \in blurred'
  <2>1. {k \in hooks : k.kind = "prompt"} = {k \in hooks' : k.kind = "prompt"}
    BY <1>2
  <2>2. blurred \subseteq blurred'
    BY <1>2
  <2> QED
    BY <1>2, <1>3, <1>5, <2>1, <2>2, CommandStep
<1>7. StartFileOK'
  <2> SUFFICES ASSUME NEW c \in DOMAIN startFile, startFile'[c] # 0
               PROVE  /\ startFile'[c] <= Ran
                      /\ c = <<Name(tools[startFile'[c]].s), tools[startFile'[c]].text>>
                      /\ Named(tools[startFile'[c]].s)
    BY <1>2, <1>3 DEF StartFileOK
  <2>1. CASE startFile'[c] = startFile[c]
    BY <1>0, <2>1 DEF StartFileOK
  <2>2. CASE startFile'[c] = n /\ c = place /\ Named(tools[n].s)
    BY <1>0, <1>1, <1>p, <2>2
  <2> QED
    BY <1>2, <1>4, <2>1, <2>2
<1>8. HooksOK'
  <2>1. \A k \in hooks' : k \in hooks
    BY <1>2
  <2>2. ASSUME NEW k \in hooks'
        PROVE  HookOK(k)'
    BY <1>2, <1>5, <1>6, <2>1, HookStays
  <2> QED
    BY <2>1, <2>2 DEF HooksOK, CaptureInv
<1>9. StampsOK'
  <2>1. ASSUME NEW k \in 1..Ran, tools[k].state # "over", k \notin blurred',
               Capture!HasPreHook(tools[k].s[1]), Named(tools[k].s)
        PROVE  \/ \E g \in hooks' : g.n = k /\ (g.kind = "pre" \/ (g.kind = "post" /\ g.pc # "begun"))
               \/ startFile'[<<Name(tools[k].s), tools[k].text>>] = k
    <3>1. /\ k \notin blurred
          /\ \/ \E g \in hooks : g.n = k /\ (g.kind = "pre" \/ (g.kind = "post" /\ g.pc # "begun"))
             \/ startFile[<<Name(tools[k].s), tools[k].text>>] = k
      BY <1>0, <1>2, <2>1 DEF StampsOK
    <3>2. CASE k = n
      BY <1>2, <1>4, <1>p, <2>1, <3>2
    <3>3. CASE k # n
      <4>1. <<Name(tools[k].s), tools[k].text>> # place
        <5>1. tools[k].s = tools[n].s /\ tools[k].text = tools[n].text => k \in blurred
          BY <1>0, <1>1, <2>1, <3>3 DEF StampsOK
        <5>2. Name(tools[k].s) = Name(tools[n].s) => tools[k].s = tools[n].s
          BY <1>0, <1>1, <2>1, NamesDiffer
        <5> QED
          BY <1>p, <3>1, <5>1, <5>2
      <4>2. startFile'[<<Name(tools[k].s), tools[k].text>>] = startFile[<<Name(tools[k].s), tools[k].text>>]
        BY <1>2, <1>4, <4>1
      <4>3. \A g \in hooks : g.n = k => g \in hooks'
        BY <1>2, <1>n, <3>3
      <4> QED
        BY <3>1, <4>2, <4>3
    <3> QED
      BY <3>2, <3>3
  <2> QED
    BY <1>2, <1>3, <1>6, <2>1 DEF StampsOK
<1>10. RecordsOK'
  BY <1>2, <1>5, <1>6, RecordsStay
<1> QED
  BY <1>5, <1>6, <1>7, <1>8, <1>9, <1>10 DEF CaptureInv

\* The hook after a command, before it makes the record.
LEMMA PostHookKeeps ==
  ASSUME CaptureInv, NEW h \in hooks, Capture!LoadCmdStart(h) \/ Capture!StampPrompt(h)
  PROVE  CaptureInv'
<1>n. PICK n : n = h.n
  OBVIOUS
<1>s. PICK s : s = <<h.a, h.id>>
  OBVIOUS
<1>p. PICK place : place = <<Name(s), tools[n].text>>
  OBVIOUS
<1>l. PICK loaded : loaded = [h EXCEPT !.pc = "loaded",
                                       !.start = IF Capture!HasPreHook(h.a) /\ Named(s)
                                                   THEN startFile[place] ELSE h.start]
  OBVIOUS
<1>m. PICK stamped : stamped = [h EXCEPT !.pc = "stamped",
                                         !.prompt = IF Named(s) THEN promptFile[Name(s)] ELSE 0]
  OBVIOUS
<1>0. /\ CaptureTypes /\ h \in Hooks /\ HookOK(h) /\ h.kind = "post"
      /\ TurnsOK /\ PromptFileOK /\ StartFileOK /\ StampsOK /\ InHandOK
      /\ Ran \in Nat /\ Asked \in Nat /\ \A k \in 1..Ran : tools[k] \in Tools /\ tools[k].s \in Sessions
      /\ \A k \in hooks : HookOK(k)
  <2>1. h.kind = "post"
    BY DEF Capture!LoadCmdStart, Capture!StampPrompt
  <2>2. CaptureTypes /\ TurnsOK /\ PromptFileOK /\ StartFileOK /\ StampsOK /\ InHandOK /\ HooksOK
    BY DEF CaptureInv
  <2>3. h \in Hooks /\ HookOK(h) /\ \A k \in hooks : HookOK(k)
    BY <2>2 DEF CaptureTypes, HooksOK
  <2>4. Ran \in Nat /\ Asked \in Nat /\ \A k \in 1..Ran : tools[k] \in Tools
    BY <2>2 DEF CaptureTypes
  <2>5. \A k \in 1..Ran : tools[k].s \in Sessions
    BY <2>4 DEF Tools
  <2> QED
    BY <2>1, <2>2, <2>3, <2>4, <2>5
<1>1. /\ n \in 1..Ran /\ n \in Nat /\ tools[n].s = s /\ tools[n].state = "ended"
      /\ PromptFits(n, h.prompt) /\ StartFits(n, h.start)
      /\ s \in Sessions /\ s[1] = h.a /\ Name(s) = Capture!Session(h.a, h.id)
      /\ Name(s) \in DOMAIN promptFile
  BY <1>0, <1>n, <1>s DEF HookOK, Hooks, Name, Sessions, CaptureTypes
<1>2. /\ \A k \in 1..Ran : <<Name(tools[k].s), tools[k].text>> \in DOMAIN startFile
      /\ place \in DOMAIN startFile
  BY <1>0, <1>1, <1>p, PathsKnown
<1>3. /\ startFile[place] \in Nat /\ promptFile[Name(s)] \in Nat
  BY <1>0, <1>1, <1>2 DEF CaptureTypes
<1>4. /\ loaded \in Hooks /\ loaded.kind = "post" /\ loaded.n = n /\ <<loaded.a, loaded.id>> = s
      /\ loaded.pc = "loaded" /\ loaded.prompt = h.prompt
      /\ loaded.start = IF Capture!HasPreHook(h.a) /\ Named(s) THEN startFile[place] ELSE h.start
  BY <1>0, <1>l, <1>n, <1>s, <1>3 DEF Hooks
<1>5. /\ stamped \in Hooks /\ stamped.kind = "post" /\ stamped.n = n /\ <<stamped.a, stamped.id>> = s
      /\ stamped.pc = "stamped" /\ stamped.start = h.start
      /\ stamped.prompt = IF Named(s) THEN promptFile[Name(s)] ELSE 0
  BY <1>0, <1>m, <1>n, <1>s, <1>3 DEF Hooks
<1>6. PICK new \in {loaded, stamped} :
        /\ hooks' = (hooks \ {h}) \cup {new}
        /\ \/ /\ new = loaded /\ h.pc = "begun"
              /\ startFile' = IF Capture!HasPreHook(h.a) /\ Named(s)
                                THEN [startFile EXCEPT ![place] = 0] ELSE startFile
           \/ new = stamped /\ h.pc = "loaded" /\ startFile' = startFile
  <2>1. CASE Capture!LoadCmdStart(h)
    <3>1. Capture!CmdStartPath(h.a, h.id, tools[h.n].text) = place
      BY <1>1, <1>n, <1>p DEF Capture!CmdStartPath
    <3>2. Capture!Session(h.a, h.id) # Capture!None <=> Named(s)
      BY <1>1 DEF Named
    <3>3. CASE Capture!HasPreHook(h.a) /\ Named(s)
      BY <2>1, <1>l, <3>1, <3>2, <3>3 DEF Capture!LoadCmdStart
    <3>4. CASE ~(Capture!HasPreHook(h.a) /\ Named(s))
      <4>1. loaded = [h EXCEPT !.pc = "loaded"]
        BY <1>0, <1>l, <3>4 DEF Hooks
      <4> QED
        BY <2>1, <3>1, <3>2, <3>4, <4>1 DEF Capture!LoadCmdStart
    <3> QED
      BY <3>3, <3>4
  <2>2. CASE Capture!StampPrompt(h)
    <3>1. Capture!LoadPromptState(h.a, h.id) = IF Named(s) THEN promptFile[Name(s)] ELSE 0
      BY <1>1 DEF Capture!LoadPromptState, Capture!PromptStatePath, Named
    <3> QED
      BY <2>2, <1>m, <3>1 DEF Capture!StampPrompt
  <2> QED
    BY <2>1, <2>2
<1>7. UNCHANGED <<asked, turn, tools, promptFile, prompts, records, untraced, overtaken, blurred>>
  BY DEF Capture!LoadCmdStart, Capture!StampPrompt
<1>8. /\ Ran' = Ran /\ Asked' = Asked
      /\ new \in Hooks /\ new.kind = "post" /\ new.n = n /\ <<new.a, new.id>> = s
      /\ new.pc \in {"loaded", "stamped"} /\ new.prompt \in Nat /\ new.start \in Nat
      /\ \A k \in hooks' : k \in hooks \ {h} \/ k = new
      /\ \A k \in hooks : k.n # n => k \in hooks'
  BY <1>4, <1>5, <1>6, <1>7, <1>n DEF Ran, Asked, Hooks
<1>9. CaptureTypes'
  <2>1. startFile' \in [{Capture!CmdStartPath(a, i, t) : a \in Agent, i \in Id, t \in Text} -> Nat]
    <3> DEFINE X == {Capture!CmdStartPath(a, i, t) : a \in Agent, i \in Id, t \in Text}
    <3>1. startFile \in [X -> Nat]
      BY <1>0 DEF CaptureTypes
    <3> HIDE DEF X
    <3>2. startFile' \in [X -> Nat]
      BY <1>6, <3>1
    <3> QED
      BY <3>2 DEF X
  <2>2. hooks' \subseteq Hooks
    BY <1>0, <1>8 DEF CaptureTypes
  <2> QED
    BY <1>0, <1>7, <1>8, <2>1, <2>2 DEF CaptureTypes
<1>10. /\ Grows /\ TurnsOK' /\ PromptFileOK' /\ InHandOK'
       /\ \A j, k \in 1..Ran :
            /\ j # k /\ tools'[j].state # "over" /\ tools'[k].state # "over"
            /\ tools'[j].s = tools'[k].s /\ tools'[j].text = tools'[k].text
            => j \in blurred'
  <2>1. {k \in hooks : k.kind = "prompt"} = {k \in hooks' : k.kind = "prompt"}
    BY <1>0, <1>6, <1>8
  <2> QED
    BY <1>7, <1>8, <1>9, <2>1, CommandStep
<1>11. StartFileOK'
  <2>1. \A c \in DOMAIN startFile : startFile'[c] # 0 => startFile'[c] = startFile[c]
    BY <1>2, <1>6
  <2>2. DOMAIN startFile' = DOMAIN startFile
    BY <1>6
  <2> QED
    BY <1>0, <1>7, <1>8, <2>1, <2>2 DEF StartFileOK
\* The prompt it found is its turn's, and recorded.
<1>12. PromptFits(n, new.prompt)
  <2>1. CASE new.prompt = h.prompt
    BY <1>1, <2>1
  <2>2. CASE new.prompt # h.prompt /\ new.prompt # 0
    <3>1. PICK p : p = promptFile[Name(s)]
      OBVIOUS
    <3>2. Named(s) /\ new.prompt = p /\ p # 0 /\ p \in Nat
      BY <1>3, <1>4, <1>5, <1>6, <2>2, <3>1
    <3>3. /\ p <= turn[s] /\ asked[p] = s
          /\ \/ p \in prompts \cup untraced
             \/ \E k \in hooks : k.kind = "prompt" /\ k.pc = "written" /\ k.n = p
      BY <1>0, <1>1, <3>1, <3>2 DEF PromptFileOK
    <3>4. /\ turn[s] <= Asked /\ turn[s] \in Nat /\ (turn[s] # 0 => asked[turn[s]] = s)
          /\ \/ turn[s] \in untraced \cup {0}
             \/ promptFile[Name(s)] = turn[s]
             \/ \E k \in hooks : k.kind = "prompt" /\ k.pc = "begun" /\ k.n = turn[s]
      BY <1>0, <1>1 DEF TurnsOK, CaptureTypes
    <3>5. turn[s] # 0 /\ p <= Asked
      BY <1>0, <3>2, <3>3, <3>4
    <3>6. ASSUME n \notin overtaken
          PROVE  /\ p = tools[n].turn \/ tools[n].turn \in untraced
                 /\ p \in prompts \cup untraced
      <4>1. tools[n].turn = turn[s] /\ \A k \in hooks : k.kind = "prompt" => <<k.a, k.id>> # s
        BY <1>0, <1>1, <3>6 DEF InHandOK
      <4>2. \A k \in hooks : k.kind = "prompt" => asked[k.n] # s
        BY <1>0, <4>1 DEF HookOK
      <4> QED
        BY <3>1, <3>3, <3>4, <3>5, <4>1, <4>2
    <3> QED
      BY <1>1, <3>2, <3>3, <3>5, <3>6 DEF PromptFits
  <2>3. CASE new.prompt = 0
    BY <2>3 DEF PromptFits
  <2> QED
    BY <2>1, <2>2, <2>3
\* The start it took is of the same text, and its own unless two ran side by side.
<1>13. StartFits(n, new.start)
  <2>1. CASE new.start = h.start
    BY <1>1, <2>1
  <2>2. CASE new.start # h.start /\ new.start # 0
    <3>1. PICK k : k = startFile[place]
      OBVIOUS
    <3>2. /\ Named(s) /\ Capture!HasPreHook(h.a) /\ new.start = k /\ k # 0 /\ h.pc = "begun"
      BY <1>4, <1>5, <1>6, <2>2, <3>1
    <3>3. k <= Ran /\ place = <<Name(tools[k].s), tools[k].text>> /\ Named(tools[k].s) /\ k \in 1..Ran
      BY <1>0, <1>2, <1>3, <3>1, <3>2 DEF StartFileOK
    <3>4. tools[k].s = s /\ tools[k].text = tools[n].text
      <4>1. Name(tools[k].s) = Name(s) /\ tools[k].text = tools[n].text
        BY <1>p, <3>3
      <4> QED
        BY <1>0, <1>1, <3>3, <4>1, NamesDiffer
    <3>5. k = n \/ n \in blurred
      <4> SUFFICES ASSUME n \notin blurred
                   PROVE  k = n
        OBVIOUS
      <4>1. \/ \E g \in hooks : g.n = n /\ (g.kind = "pre" \/ (g.kind = "post" /\ g.pc # "begun"))
            \/ startFile[<<Name(tools[n].s), tools[n].text>>] = n
        BY <1>0, <1>1, <3>2 DEF StampsOK
      <4>2. \A g \in hooks : g.n = n => g.kind # "pre"
        BY <1>0, <1>1 DEF HookOK
      <4>3. \A g \in hooks : g.n = n /\ g.kind = "post" => g = h
        BY <1>0, <1>n DEF CaptureInv, HooksOK
      <4> QED
        BY <1>1, <1>p, <3>1, <3>2, <4>1, <4>2, <4>3
    <3> QED
      BY <1>1, <3>2, <3>3, <3>4, <3>5 DEF StartFits
  <2>3. CASE new.start = 0
    BY <2>3 DEF StartFits
  <2> QED
    BY <2>1, <2>2, <2>3
<1>14. HooksOK'
  <2>1. ASSUME NEW k \in hooks
        PROVE  HookOK(k)'
    BY <1>7, <1>9, <1>10, HookStays
  <2>2. HookOK(new)'
    <3>1. PromptFits(n, new.prompt)' /\ StartFits(n, new.start)' /\ n \in 1..Ran'
      BY <1>0, <1>1, <1>8, <1>9, <1>10, <1>12, <1>13, FitsStay
    <3> QED
      BY <1>1, <1>7, <1>8, <3>1 DEF HookOK
  <2>3. ASSUME NEW k \in hooks'
        PROVE  HookOK(k)'
    BY <1>8, <2>1, <2>2
  <2>4. \A j, k \in hooks : j.kind = "post" /\ k.kind = "post" /\ j.n = k.n => j = k
    BY DEF CaptureInv, HooksOK
  <2>5. \A j, k \in hooks' : j.kind = "post" /\ k.kind = "post" /\ j.n = k.n => j = k
    BY <1>0, <1>n, <1>8, <2>4
  <2> QED
    BY <2>3, <2>5 DEF HooksOK
<1>15. StampsOK'
  <2>1. ASSUME NEW k \in 1..Ran, tools[k].state # "over", k \notin blurred,
               Capture!HasPreHook(tools[k].s[1]), Named(tools[k].s)
        PROVE  \/ \E g \in hooks' : g.n = k /\ (g.kind = "pre" \/ (g.kind = "post" /\ g.pc # "begun"))
               \/ startFile'[<<Name(tools[k].s), tools[k].text>>] = k
    <3>1. \/ \E g \in hooks : g.n = k /\ (g.kind = "pre" \/ (g.kind = "post" /\ g.pc # "begun"))
          \/ startFile[<<Name(tools[k].s), tools[k].text>>] = k
      BY <1>0, <2>1 DEF StampsOK
    <3>2. CASE k = n
      BY <1>6, <1>8, <3>2
    <3>3. CASE k # n
      <4>1. <<Name(tools[k].s), tools[k].text>> # place
        <5>1. tools[k].s = tools[n].s /\ tools[k].text = tools[n].text => k \in blurred
          BY <1>0, <1>1, <2>1, <3>3 DEF StampsOK
        <5>2. Name(tools[k].s) = Name(tools[n].s) => tools[k].s = tools[n].s
          BY <1>0, <1>1, <2>1, NamesDiffer
        <5> QED
          BY <1>p, <1>1, <2>1, <5>1, <5>2
      <4>2. startFile'[<<Name(tools[k].s), tools[k].text>>] = startFile[<<Name(tools[k].s), tools[k].text>>]
        BY <1>2, <1>6, <4>1
      <4>3. \A g \in hooks : g.n = k => g \in hooks'
        BY <1>8, <3>3
      <4> QED
        BY <3>1, <4>2, <4>3
    <3> QED
      BY <3>2, <3>3
  <2> QED
    BY <1>7, <1>8, <1>10, <2>1 DEF StampsOK
<1>16. RecordsOK'
  BY <1>7, <1>9, <1>10, RecordsStay
<1> QED
  BY <1>9, <1>10, <1>11, <1>14, <1>15, <1>16 DEF CaptureInv

\* The hook after a command makes the record, or is killed.
LEMMA PostHookEnds ==
  ASSUME CaptureInv, NEW h \in hooks, h.kind = "post", Capture!SpoolCommand(h) \/ Capture!HookDies(h)
  PROVE  CaptureInv'
<1>n. PICK n : n = h.n
  OBVIOUS
<1>r. PICK new : new = [n |-> h.n, prompt |-> h.prompt, start |-> h.start]
  OBVIOUS
<1>0. /\ CaptureTypes /\ h \in Hooks /\ HookOK(h) /\ StartFileOK /\ StampsOK /\ Ran \in Nat
      /\ \A k \in hooks : HookOK(k)
  BY DEF CaptureInv, CaptureTypes, HooksOK
<1>1. /\ n \in 1..Ran /\ n \in Nat /\ h.prompt \in Nat /\ h.start \in Nat
      /\ PromptFits(n, h.prompt) /\ StartFits(n, h.start)
  BY <1>0, <1>n DEF HookOK, Hooks
<1>2. /\ hooks' = hooks \ {h} /\ tools' = [tools EXCEPT ![n].state = "over"]
      /\ UNCHANGED <<asked, turn, promptFile, startFile, prompts, untraced, overtaken, blurred>>
      /\ records' = records \cup {new} \/ records' = records
  BY <1>n, <1>r DEF Capture!SpoolCommand, Capture!HookDies
<1>3. /\ Ran' = Ran /\ tools' \in [1..Ran -> Tools] /\ tools'[n].state = "over"
      /\ \A k \in 1..Ran :
           /\ tools'[k].s = tools[k].s /\ tools'[k].text = tools[k].text
           /\ tools'[k].turn = tools[k].turn
           /\ k # n => tools'[k].state = tools[k].state
  BY <1>0, <1>1, <1>2, StateSet
<1>4. CaptureTypes'
  <2>1. Asked' = Asked
    BY <1>2 DEF Asked
  <2>2. new \in [n : Nat, prompt : Nat, start : Nat]
    BY <1>1, <1>n, <1>r
  <2> QED
    BY <1>0, <1>2, <1>3, <2>1, <2>2 DEF CaptureTypes
<1>5. /\ Grows /\ TurnsOK' /\ PromptFileOK' /\ InHandOK'
      /\ \A j, k \in 1..Ran :
           /\ j # k /\ tools'[j].state # "over" /\ tools'[k].state # "over"
           /\ tools'[j].s = tools'[k].s /\ tools'[j].text = tools'[k].text
           => j \in blurred'
  <2>1. {k \in hooks : k.kind = "prompt"} = {k \in hooks' : k.kind = "prompt"}
    BY <1>2
  <2>2. \A k \in 1..Ran : tools[k].state = "over" => tools'[k].state = "over"
    BY <1>3
  <2> QED
    BY <1>2, <1>3, <1>4, <2>1, <2>2, CommandStep
<1>6. StartFileOK'
  <2>1. \A c \in DOMAIN startFile : startFile[c] # 0 => startFile[c] \in 1..Ran
    BY <1>0 DEF StartFileOK, CaptureTypes
  <2> QED
    BY <1>0, <1>2, <1>3, <2>1 DEF StartFileOK
<1>7. HooksOK'
  <2>1. \A k \in hooks' : k \in hooks /\ (k.kind # "prompt" => k.n \in 1..Ran /\ k.n # n)
    <3> TAKE k \in hooks'
    <3>1. k \in hooks /\ k # h /\ HookOK(k) /\ k.kind \in {"prompt", "pre", "post"}
      BY <1>0, <1>2 DEF CaptureTypes, Hooks
    <3>2. k.kind = "post" => k.n # n
      BY <1>n, <3>1 DEF CaptureInv, HooksOK
    <3>3. k.kind = "pre" => k.n # n
      BY <1>0, <1>n, <3>1 DEF HookOK
    <3> QED
      BY <3>1, <3>2, <3>3 DEF HookOK
  <2>2. ASSUME NEW k \in hooks'
        PROVE  HookOK(k)'
    BY <1>2, <1>3, <1>4, <1>5, <2>1, HookStays
  <2> QED
    BY <2>1, <2>2 DEF HooksOK, CaptureInv
<1>8. StampsOK'
  <2>1. ASSUME NEW k \in 1..Ran, tools'[k].state # "over", k \notin blurred,
               Capture!HasPreHook(tools'[k].s[1]), Named(tools'[k].s)
        PROVE  \/ \E g \in hooks' : g.n = k /\ (g.kind = "pre" \/ (g.kind = "post" /\ g.pc # "begun"))
               \/ startFile[<<Name(tools'[k].s), tools'[k].text>>] = k
    <3>1. k # n /\ tools[k].state # "over" /\ tools'[k].s = tools[k].s /\ tools'[k].text = tools[k].text
      BY <1>3, <2>1
    <3>2. \/ \E g \in hooks : g.n = k /\ (g.kind = "pre" \/ (g.kind = "post" /\ g.pc # "begun"))
          \/ startFile[<<Name(tools[k].s), tools[k].text>>] = k
      BY <1>0, <2>1, <3>1 DEF StampsOK
    <3>3. \A g \in hooks : g.n = k => g \in hooks'
      BY <1>2, <1>n, <3>1
    <3> QED
      BY <3>1, <3>2, <3>3
  <2> QED
    BY <1>2, <1>3, <1>5, <2>1 DEF StampsOK
<1>9. RecordsOK'
  <2>1. ASSUME NEW r \in records
        PROVE  r.n \in 1..Ran' /\ PromptFits(r.n, r.prompt)' /\ StartFits(r.n, r.start)'
    <3>1. /\ r.n \in 1..Ran /\ r.prompt \in Nat /\ r.start \in Nat
          /\ PromptFits(r.n, r.prompt) /\ StartFits(r.n, r.start)
      BY <1>0 DEF CaptureInv, CaptureTypes, RecordsOK
    <3> QED
      BY <1>0, <1>4, <1>5, <3>1, FitsStay
  <2>2. new.n \in 1..Ran' /\ PromptFits(new.n, new.prompt)' /\ StartFits(new.n, new.start)'
    <3>1. new.n = n /\ new.prompt = h.prompt /\ new.start = h.start
      BY <1>n, <1>r
    <3> QED
      BY <1>0, <1>1, <1>4, <1>5, <3>1, FitsStay
  <2>3. ASSUME NEW r \in records'
        PROVE  r.n \in 1..Ran' /\ PromptFits(r.n, r.prompt)' /\ StartFits(r.n, r.start)'
    BY <1>2, <2>1, <2>2, <2>3
  <2> QED
    BY <2>3 DEF RecordsOK
<1> QED
  BY <1>4, <1>5, <1>6, <1>7, <1>8, <1>9 DEF CaptureInv

LEMMA CaptureStep ==
  ASSUME CaptureInv, [Capture!Next]_captureVars
  PROVE  CaptureInv'
<1>1. CASE UNCHANGED captureVars
  BY <1>1 DEF captureVars, CaptureInv, CaptureTypes, TurnsOK, PromptFileOK, StartFileOK, HooksOK,
    HookOK, InHandOK, StampsOK, RecordsOK, PromptFits, StartFits, Asked, Ran
<1>2. ASSUME NEW a \in Agent, NEW id \in Id, Capture!Submit(a, id)
      PROVE  CaptureInv'
  BY <1>2, SubmitKeeps
<1>3. ASSUME NEW a \in Agent, NEW id \in Id, NEW t \in Text, Capture!RunTool(a, id, t)
      PROVE  CaptureInv'
  BY <1>3, RunToolKeeps
<1>4. ASSUME NEW n \in DOMAIN tools, Capture!ToolEnds(n)
      PROVE  CaptureInv'
  BY <1>4, ToolEndsKeeps
<1>5. ASSUME NEW h \in hooks, Capture!PromptRefused(h) \/ Capture!WritePromptState(h) \/ Capture!SpoolPrompt(h)
      PROVE  CaptureInv'
  BY <1>5, PromptHookKeeps
     DEF Capture!PromptRefused, Capture!WritePromptState, Capture!SpoolPrompt
<1>6. ASSUME NEW h \in hooks, Capture!SaveCmdStart(h)
      PROVE  CaptureInv'
  BY <1>6, PreHookKeeps DEF Capture!SaveCmdStart
<1>7. ASSUME NEW h \in hooks, Capture!LoadCmdStart(h) \/ Capture!StampPrompt(h)
      PROVE  CaptureInv'
  BY <1>7, PostHookKeeps
<1>8. ASSUME NEW h \in hooks, Capture!SpoolCommand(h)
      PROVE  CaptureInv'
  BY <1>8, PostHookEnds DEF Capture!SpoolCommand
<1>9. ASSUME NEW h \in hooks, Capture!HookDies(h)
      PROVE  CaptureInv'
  <2>1. h.kind \in {"prompt", "pre", "post"}
    BY DEF CaptureInv, CaptureTypes, Hooks
  <2> QED
    BY <1>9, <2>1, PromptHookKeeps, PreHookKeeps, PostHookEnds
<1> QED
  BY <1>1, <1>2, <1>3, <1>4, <1>5, <1>6, <1>7, <1>8, <1>9 DEF Capture!Next

\* A command is traced to a prompt of its own session and turn, and its duration
\* measured from its own start (recordPrompt, stampPrompt, saveCmdStart, loadCmdStart)
\* unless a hook failed, the turn was overtaken or two alike ran side by side, for any
\* agents, sessions and texts and any number of prompts and commands.
THEOREM RecordsOfOwnTurn == Spec => []RecordsOwnTurn
<1>1. Init => CaptureInv
  BY CaptureInit DEF Init
<1>2. CaptureInv /\ [Next]_vars => CaptureInv'
  BY PartSteps, CaptureStep
<1>3. CaptureInv => RecordsOwnTurn
  BY DEF CaptureInv, RecordsOK, PromptFits, StartFits, RecordsOwnTurn, Capture!RecordsOwnTurn
<1> QED
  BY <1>1, <1>2, <1>3, PTL DEF Spec

(***************************************************************************)
(* AgentConfig                                                             *)
(***************************************************************************)
Events == {"PreToolUse", "PostToolUse", "PostToolUseFailure", "UserPromptSubmit",
           "afterShellExecution", "beforeSubmitPrompt", "plugin"}
Blocks == [ev : Events, cmds : SUBSET (Bins \cup {Config!Theirs})]
Docs == [is : {"document", "absent", "torn"}, own : Nat, blocks : SUBSET Blocks,
         mcp : Bins \cup {Config!Nobody}, altered : SUBSET ({"hooks", "mcp"} \X Bins)]

\* The steps of a plan, and the files that a plan's steps are still to come to.
Steps(a, verb) ==
  IF verb = "init"
    THEN CASE a = "claude" -> {"claude", "mcp"}
           [] a = "cursor" -> {"cursor", "mcp"}
           [] a = "opencode" -> {"plugin", "opencode mcp"}
           [] a = "codex" -> {"codex", "codex mcp"}
           [] a = "devin" -> {"devin"}
    ELSE CASE a = "claude" -> {"no claude", "no mcp"}
           [] a = "cursor" -> {"no cursor", "no mcp"}
           [] a = "opencode" -> {"no plugin", "no opencode mcp"}
           [] a = "codex" -> {"no codex"}
           [] a = "devin" -> {"no devin"}
Left(todo) == {Config!FileOf(todo[i]) : i \in DOMAIN todo}

\* Where agent a's files have yore's commands: in blocks of its installer's events, in
\* three agents alone in their block, in Codex in both events or in neither unless the
\* text was altered, which no other agent's is.  The plugin holds nothing else.
EventsOf(a) ==
  CASE a = "claude" -> Config!ClaudeEvents
    [] a = "cursor" -> Config!CursorEvents
    [] a = "opencode" -> {"plugin"}
    [] a = "codex" -> Config!CodexEvents
    [] a = "devin" -> Config!DevinEvents
Shape(a, f, doc) ==
  /\ doc \in Docs
  /\ f = "mcp" => doc.blocks = {}
  /\ f = "hooks" /\ a \notin {"codex", "devin"} => doc.mcp = Config!Nobody
  /\ \A b \in doc.blocks, bin \in Bins : bin \in b.cmds =>
       b.ev \in EventsOf(a) /\ (a \in {"cursor", "opencode", "codex"} => b.cmds = {bin})
  /\ a # "codex" => doc.altered = {}
  /\ a = "codex" => \A bin \in Bins : <<"hooks", bin>> \notin doc.altered =>
       (Config!Block("PostToolUse", {bin}) \in doc.blocks
         <=> Config!Block("UserPromptSubmit", {bin}) \in doc.blocks)
  /\ a = "opencode" /\ f = "hooks" => Config!OwnPart(doc) = Config!OwnPart(Config!Absent)

\* Nothing in doc starts bin but what was altered.
Clean(doc, bin) ==
  /\ <<"hooks", bin>> \in doc.altered \/ \A b \in doc.blocks : bin \notin b.cmds
  /\ <<"mcp", bin>> \in doc.altered \/ doc.mcp # bin

Todos(a) == Seq(Steps(a, "init") \cup Steps(a, "uninit"))
Outs == [do : {"write", "leave", "stop", "remove"}, doc : Docs]
RunRecs(a) ==
  [verb : {"none", "init", "uninit"}, bin : Bins \cup {Config!Nobody}, todo : Todos(a),
   out : Outs, saw : Docs, pc : {"idle", "read", "write", "fill", "remove"}, alone : BOOLEAN]

\* A run holds steps of its own plan, and when it is to write, a document that keeps
\* what is not yore's of the one it read.
RunOK(a, r) ==
  /\ r \in RunRecs(a)
  /\ r.pc = "idle" => ~r.alone
  /\ r.pc # "idle" => r.verb # "none" /\ r.bin \in Bins /\ r.todo \in Seq(Steps(a, r.verb))
  /\ r.pc \in {"write", "fill"} =>
       /\ r.todo # <<>> /\ Shape(a, Config!FileOf(Head(r.todo)), r.out.doc)
       /\ r.out.doc.is = "document" /\ Config!OwnPart(r.out.doc) = Config!OwnPart(r.saw)
       /\ r.verb = "uninit" => Clean(r.out.doc, r.bin)
  /\ r.pc = "remove" => r.todo # <<>> /\ Head(r.todo) = "no plugin"

FilesOK ==
  /\ agent \in Agents
  /\ file \in [Config!Files -> Docs]
  /\ \A f \in Config!Files : Shape(agent, f, file[f])
  /\ agent \in {"codex", "devin"} => file["mcp"] = Config!Absent
  /\ owned \in [Config!Files -> [own : Nat, hooks : SUBSET Events]]
  /\ agent = "opencode" => owned["hooks"] = Config!OwnPart(Config!Absent)
RunsOK == DOMAIN run = Runs /\ \A p \in Runs : RunOK(agent, run[p])
AloneOK == \A p, q \in Runs : run[p].alone /\ q # p => run[q].pc = "idle"

\* A removal that nothing overlapped has left no trace in the files it is done with.
UndoneOK ==
  \A p \in Runs, f \in Config!Files : run[p].alone /\ run[p].verb = "uninit" =>
    \/ file[f] = Config!Torn
    \/ Clean(file[f], run[p].bin)
    \/ f \in Left(run[p].todo)

ConfigInv == FilesOK /\ RunsOK /\ AloneOK /\ UndoneOK /\ Config!OthersKept

LEMMA AgentsAre ==
  /\ \A a \in Agents : a \in {"claude", "cursor", "opencode", "codex", "devin"}
  /\ \A a \in Agents : EventsOf(a) \subseteq Events
  /\ Config!Theirs \notin Bins /\ Config!Nobody \notin Bins
<1>1. /\ \A a \in Agents : a \in {"claude", "cursor", "opencode", "codex", "devin"}
      /\ Config!Theirs \notin Bins /\ Config!Nobody \notin Bins
  BY ConfigAssumption DEF Config!AgentsAssumption, Config!BinsAssumption
<1> QED
  BY <1>1 DEF EventsOf, Events, Config!ClaudeEvents, Config!CursorEvents, Config!CodexEvents,
    Config!DevinEvents

LEMMA PlainDocs ==
  /\ Config!Empty \in Docs /\ Config!Absent \in Docs /\ Config!Torn \in Docs
  /\ Config!Empty.is = "document" /\ Config!Absent.is = "absent" /\ Config!Torn.is = "torn"
  /\ \A d \in {Config!Empty, Config!Absent, Config!Torn} :
       d.own = 0 /\ d.blocks = {} /\ d.mcp = Config!Nobody /\ d.altered = {}
BY DEF Config!Empty, Config!Absent, Config!Torn, Docs

LEMMA PlainShape ==
  \A a, f : \A d \in {Config!Empty, Config!Absent, Config!Torn} : Shape(a, f, d)
<1>1. \A d \in {Config!Empty, Config!Absent, Config!Torn} :
        d \in Docs /\ d.own = 0 /\ d.blocks = {} /\ d.mcp = Config!Nobody /\ d.altered = {}
  BY PlainDocs
<1>2. \A d \in {Config!Empty, Config!Absent, Config!Torn} :
        Config!OwnPart(d) = Config!OwnPart(Config!Absent)
  BY <1>1 DEF Config!OwnPart
<1> QED
  BY <1>1, <1>2 DEF Shape

\* A document with other blocks, or another entry.
LEMMA DocWith ==
  ASSUME NEW doc \in Docs
  PROVE  /\ \A B \in SUBSET Blocks :
              LET new == [doc EXCEPT !.blocks = B] IN
                new \in Docs /\ new.is = doc.is /\ new.own = doc.own /\ new.blocks = B
                /\ new.mcp = doc.mcp /\ new.altered = doc.altered
         /\ \A m \in Bins \cup {Config!Nobody} :
              LET new == [doc EXCEPT !.mcp = m] IN
                new \in Docs /\ new.is = doc.is /\ new.own = doc.own /\ new.blocks = doc.blocks
                /\ new.mcp = m /\ new.altered = doc.altered
         /\ LET new == Config!Content(doc) IN
              new \in Docs /\ new.is = "document" /\ new.own = doc.own /\ new.blocks = doc.blocks
              /\ new.mcp = doc.mcp /\ new.altered = doc.altered
BY DEF Docs, Config!Content

WithBlocks(doc, N) == [doc EXCEPT !.blocks = doc.blocks \cup N]
WithMcp(doc, m) == [doc EXCEPT !.mcp = m]

\* What is not yore's among blocks: only the blocks with somebody else's command count.
LEMMA OwnPartSame ==
  ASSUME NEW c, NEW d, c.own = d.own,
         \A e : (\E b \in c.blocks : b.ev = e /\ Config!Theirs \in b.cmds)
                  <=> (\E b \in d.blocks : b.ev = e /\ Config!Theirs \in b.cmds)
  PROVE  Config!OwnPart(c) = Config!OwnPart(d)
<1>1. {b.ev : b \in {x \in c.blocks : Config!Theirs \in x.cmds}}
        = {b.ev : b \in {x \in d.blocks : Config!Theirs \in x.cmds}}
  OBVIOUS
<1> QED
  BY <1>1 DEF Config!OwnPart

\* The blocks an installer adds hold its own command and nothing else.
LEMMA BlocksAdded ==
  ASSUME NEW a \in Agents, a # "opencode", NEW doc, Shape(a, "hooks", doc), NEW bin \in Bins, NEW N,
         \A b \in N : b \in Blocks /\ b.ev \in EventsOf(a) /\ b.cmds = {bin},
         a = "codex" => \A ev \in EventsOf(a) : Config!Block(ev, {bin}) \in N
  PROVE  /\ Shape(a, "hooks", WithBlocks(doc, N))
         /\ Config!OwnPart(WithBlocks(doc, N)) = Config!OwnPart(doc)
         /\ WithBlocks(doc, N).is = doc.is
<1>n. PICK new : new = WithBlocks(doc, N)
  OBVIOUS
<1>0. doc \in Docs /\ doc.blocks \cup N \in SUBSET Blocks
  BY DEF Shape, Docs
<1>1. /\ new \in Docs /\ new.is = doc.is /\ new.own = doc.own /\ new.mcp = doc.mcp
      /\ new.blocks = doc.blocks \cup N /\ new.altered = doc.altered
  BY <1>n, <1>0, DocWith DEF WithBlocks
<1>2. Config!OwnPart(new) = Config!OwnPart(doc)
  BY <1>1, AgentsAre, OwnPartSame
<1>3. \A b \in new.blocks, x \in Bins : x \in b.cmds =>
        b.ev \in EventsOf(a) /\ (a \in {"cursor", "opencode", "codex"} => b.cmds = {x})
  BY <1>1 DEF Shape
<1>4. ASSUME a = "codex", NEW x \in Bins, <<"hooks", x>> \notin new.altered
      PROVE  Config!Block("PostToolUse", {x}) \in new.blocks
               <=> Config!Block("UserPromptSubmit", {x}) \in new.blocks
  <2>1. CASE x = bin
    BY <1>1, <1>4, <2>1 DEF EventsOf, Config!CodexEvents
  <2>2. CASE x # bin
    <3>1. \A ev : Config!Block(ev, {x}) \notin N
      BY <2>2 DEF Config!Block
    <3> QED
      BY <1>1, <1>4, <3>1 DEF Shape
  <2> QED
    BY <2>1, <2>2
<1>5. Shape(a, "hooks", new)
  BY <1>1, <1>2, <1>3, <1>4 DEF Shape
<1> QED
  BY <1>n, <1>1, <1>2, <1>5

\* Blocks that hold yore's command and nothing else may go.
LEMMA BlocksGone ==
  ASSUME NEW a \in Agents, a # "opencode", NEW doc, Shape(a, "hooks", doc), NEW bin \in Bins, NEW R,
         \A b \in R : b.cmds = {bin},
         a = "codex" => R = {} \/ R = Config!CodexHooksBlock(bin),
         NEW new, new \in Docs, new.own = doc.own, new.mcp \in {doc.mcp, Config!Nobody},
         new.blocks = doc.blocks \ R, new.altered = doc.altered
  PROVE  Shape(a, "hooks", new) /\ Config!OwnPart(new) = Config!OwnPart(doc)
<1>1. Config!OwnPart(new) = Config!OwnPart(doc)
  BY AgentsAre, OwnPartSame
<1>2. \A b \in new.blocks, x \in Bins : x \in b.cmds =>
        b.ev \in EventsOf(a) /\ (a \in {"cursor", "opencode", "codex"} => b.cmds = {x})
  BY DEF Shape
<1>3. ASSUME a = "codex", NEW x \in Bins, <<"hooks", x>> \notin new.altered
      PROVE  Config!Block("PostToolUse", {x}) \in new.blocks
               <=> Config!Block("UserPromptSubmit", {x}) \in new.blocks
  <2>1. \A ev \in {"PostToolUse", "UserPromptSubmit"} :
          Config!Block(ev, {x}) \in R <=> R # {} /\ x = bin
    BY <1>3 DEF Config!CodexHooksBlock, Config!CodexEvents, Config!Block
  <2> QED
    BY <1>3, <2>1 DEF Shape
<1> QED
  BY <1>1, <1>2, <1>3 DEF Shape

\* A command is cut out of the blocks that others share.
LEMMA CommandCut ==
  ASSUME NEW a \in {"claude", "devin"}, a \in Agents, NEW doc, Shape(a, "hooks", doc), NEW bin \in Bins,
         NEW new, new = Config!RemoveHookCmd(doc, EventsOf(a), bin)
  PROVE  /\ Shape(a, "hooks", new) /\ Config!OwnPart(new) = Config!OwnPart(doc) /\ new.is = doc.is
         /\ new.mcp = doc.mcp /\ \A b \in new.blocks : bin \notin b.cmds
<1>h. PICK hit : hit = {b \in doc.blocks : b.ev \in EventsOf(a) /\ bin \in b.cmds}
  OBVIOUS
<1> DEFINE cut(b) == [b EXCEPT !.cmds = @ \ {bin}]
<1>c. PICK rest : rest = {cut(b) : b \in {x \in hit : x.cmds # {bin}}}
  OBVIOUS
<1>0. doc \in Docs /\ doc.blocks \subseteq Blocks /\ a # "codex" /\ a # "opencode"
  BY DEF Shape, Docs
<1>1. \A b \in Blocks : cut(b) \in Blocks /\ cut(b).ev = b.ev /\ cut(b).cmds = b.cmds \ {bin}
  BY DEF Blocks
<1>2. new = [doc EXCEPT !.blocks = (doc.blocks \ hit) \cup rest]
  BY <1>h, <1>c DEF Config!RemoveHookCmd
<1> HIDE DEF cut
<1>3. \A b \in rest : \E x \in hit : /\ x.cmds # {bin} /\ b = cut(x) /\ b \in Blocks
                                     /\ b.ev = x.ev /\ b.cmds = x.cmds \ {bin}
  BY <1>0, <1>1, <1>c, <1>h
<1>4. (doc.blocks \ hit) \cup rest \in SUBSET Blocks
  BY <1>0, <1>3
<1>5. /\ new \in Docs /\ new.is = doc.is /\ new.own = doc.own /\ new.mcp = doc.mcp
      /\ new.blocks = (doc.blocks \ hit) \cup rest /\ new.altered = doc.altered
  BY <1>0, <1>2, <1>4, DocWith
<1>6. Config!OwnPart(new) = Config!OwnPart(doc)
  <2>1. ASSUME NEW b \in doc.blocks, Config!Theirs \in b.cmds
        PROVE  \E x \in new.blocks : x.ev = b.ev /\ Config!Theirs \in x.cmds
    <3>1. CASE b \in hit
      <4>1. b.cmds # {bin}
        BY <2>1, AgentsAre
      <4>2. cut(b) \in rest
        BY <1>c, <3>1, <4>1
      <4>3. cut(b).ev = b.ev /\ Config!Theirs \in cut(b).cmds
        BY <1>0, <1>1, <2>1, AgentsAre
      <4> QED
        BY <1>5, <4>2, <4>3
    <3>2. CASE b \notin hit
      BY <1>5, <2>1, <3>2
    <3> QED
      BY <3>1, <3>2
  <2>2. ASSUME NEW b \in new.blocks, Config!Theirs \in b.cmds
        PROVE  \E x \in doc.blocks : x.ev = b.ev /\ Config!Theirs \in x.cmds
    BY <1>3, <1>5, <1>h, <2>2
  <2> QED
    BY <1>5, <2>1, <2>2, OwnPartSame
<1>7. \A b \in new.blocks, x \in Bins : x \in b.cmds => b.ev \in EventsOf(a)
  BY <1>3, <1>5, <1>h DEF Shape
<1>8. \A b \in new.blocks : bin \notin b.cmds
  <2> TAKE b \in new.blocks
  <2>1. CASE b \in rest
    BY <1>3, <2>1
  <2>2. CASE b \in doc.blocks \ hit
    BY <1>h, <2>2 DEF Shape
  <2> QED
    BY <1>5, <2>1, <2>2
<1>9. new.mcp = Config!Nobody \/ a = "devin"
  BY <1>5 DEF Shape
<1>10. Shape(a, "hooks", new)
  BY <1>0, <1>5, <1>7, <1>9 DEF Shape
<1> QED
  BY <1>5, <1>6, <1>8, <1>10

LEMMA McpIs ==
  ASSUME NEW doc \in Docs, NEW m \in Bins \cup {Config!Nobody}
  PROVE  /\ WithMcp(doc, m) \in Docs /\ WithMcp(doc, m).is = doc.is
         /\ WithMcp(doc, m).own = doc.own /\ WithMcp(doc, m).blocks = doc.blocks
         /\ WithMcp(doc, m).mcp = m /\ WithMcp(doc, m).altered = doc.altered
BY DocWith DEF WithMcp

\* The entry for the MCP server is set or cleared.
LEMMA McpSet ==
  ASSUME NEW a, NEW f, f = "hooks" => a \in {"codex", "devin"}, NEW doc, Shape(a, f, doc), NEW m \in Bins \cup {Config!Nobody}
  PROVE  /\ Shape(a, f, WithMcp(doc, m))
         /\ Config!OwnPart(WithMcp(doc, m)) = Config!OwnPart(doc)
<1>n. PICK new : new = WithMcp(doc, m)
  OBVIOUS
<1>1. doc \in Docs
  BY DEF Shape
<1>2. /\ new \in Docs /\ new.is = doc.is /\ new.own = doc.own /\ new.blocks = doc.blocks
      /\ new.mcp = m /\ new.altered = doc.altered
  BY <1>n, <1>1, McpIs
<1>3. Config!OwnPart(new) = Config!OwnPart(doc)
  BY <1>2 DEF Config!OwnPart
<1>4. Shape(a, f, new)
  BY <1>2, <1>3 DEF Shape
<1> QED
  BY <1>n, <1>2, <1>3, <1>4

\* A reader's view of a file.
LEMMA ContentIs ==
  ASSUME NEW a, NEW f, NEW c, Shape(a, f, c)
  PROVE  LET doc == Config!Content(c) IN
           /\ Shape(a, f, doc) /\ Config!OwnPart(doc) = Config!OwnPart(c) /\ doc.is = "document"
           /\ doc.blocks = c.blocks /\ doc.mcp = c.mcp /\ doc \in Docs /\ doc.own = c.own
           /\ doc.altered = c.altered
<1> DEFINE doc == Config!Content(c)
<1>1. c \in Docs
  BY DEF Shape
<1>2. /\ doc \in Docs /\ doc.is = "document" /\ doc.own = c.own /\ doc.blocks = c.blocks
      /\ doc.mcp = c.mcp /\ doc.altered = c.altered
  BY <1>1, DocWith
<1> HIDE DEF doc
<1>3. Config!OwnPart(doc) = Config!OwnPart(c)
  BY <1>2 DEF Config!OwnPart
<1>4. Shape(a, f, doc)
  BY <1>2, <1>3 DEF Shape
<1> QED
  BY <1>2, <1>3, <1>4 DEF doc

(***************************************************************************)
(* What each step of a plan makes of the file it reads.                    *)
(***************************************************************************)
\* It keeps what is not yore's, and a removal leaves nothing that starts bin.
GoodDoc(a, step, c, bin, new) ==
  /\ Shape(a, Config!FileOf(step), new) /\ new.is = "document"
  /\ Config!OwnPart(new) = Config!OwnPart(c)
  /\ step \in Steps(a, "uninit") => Clean(new, bin)
GoodOutcome(a, step, c, bin, out) ==
  /\ out \in Outs
  /\ out.do = "write" => GoodDoc(a, step, c, bin, out.doc)
  /\ out.do = "remove" => step = "no plugin"
  /\ out.do = "stop" => step \notin Steps(a, "uninit")
  /\ out.do = "leave" /\ step \in Steps(a, "uninit") => c = Config!Torn \/ Clean(c, bin)

LEMMA Outcomes ==
  ASSUME NEW a, NEW step, NEW c, NEW bin
  PROVE  /\ step \notin Steps(a, "uninit") \/ c = Config!Torn \/ Clean(c, bin) =>
              GoodOutcome(a, step, c, bin, Config!Leave)
         /\ step \notin Steps(a, "uninit") => GoodOutcome(a, step, c, bin, Config!Stop)
         /\ step = "no plugin" => GoodOutcome(a, step, c, bin, Config!Remove)
         /\ \A new : GoodDoc(a, step, c, bin, new) =>
              GoodOutcome(a, step, c, bin, Config!Write(new))
<1>1. ASSUME NEW new, GoodDoc(a, step, c, bin, new)
      PROVE  new \in Docs
  BY <1>1 DEF GoodDoc, Shape
<1> QED
  BY <1>1, PlainDocs DEF GoodOutcome, Outs, Config!Leave, Config!Stop, Config!Remove, Config!Write

\* An edit that is only written when it changed something.
LEMMA EditOutcome ==
  ASSUME NEW a, NEW step, NEW f, NEW c, Shape(a, f, c), NEW bin, NEW new,
         GoodDoc(a, step, c, bin, new)
  PROVE  GoodOutcome(a, step, c, bin, Config!IfChanged(Config!Content(c), new))
<1>1. CASE new = Config!Content(c)
  <2>1. Clean(new, bin) => Clean(c, bin)
    BY <1>1, ContentIs DEF Clean
  <2> QED
    BY <1>1, <2>1, Outcomes DEF Config!IfChanged, GoodDoc
<1>2. CASE new # Config!Content(c)
  BY <1>2, Outcomes DEF Config!IfChanged
<1> QED
  BY <1>1, <1>2

LEMMA HooksMerged ==
  ASSUME NEW a \in {"claude", "devin"}, a \in Agents, NEW doc, Shape(a, "hooks", doc), NEW bin \in Bins,
         NEW new, new = Config!MergeHookInto(doc, EventsOf(a), bin)
  PROVE  Shape(a, "hooks", new) /\ Config!OwnPart(new) = Config!OwnPart(doc) /\ new.is = doc.is
<1>1. PICK N : N = {Config!Block(ev, {bin}) :
                      ev \in {e \in EventsOf(a) : ~Config!HookCmdPresent(doc, e, bin)}}
  OBVIOUS
<1>2. \A b \in N : b \in Blocks /\ b.ev \in EventsOf(a) /\ b.cmds = {bin}
  BY <1>1, AgentsAre DEF Config!Block, Blocks
<1>3. new = WithBlocks(doc, N)
  BY <1>1 DEF Config!MergeHookInto, WithBlocks
<1>4. a \in Agents /\ a # "opencode" /\ a # "codex"
  OBVIOUS
<1>5. /\ Shape(a, "hooks", WithBlocks(doc, N)) /\ WithBlocks(doc, N).is = doc.is
      /\ Config!OwnPart(WithBlocks(doc, N)) = Config!OwnPart(doc)
  BY <1>2, <1>4, BlocksAdded
<1> QED
  BY <1>3, <1>5

LEMMA ClaudeInstalled ==
  ASSUME "claude" \in Agents, NEW c, Shape("claude", "hooks", c), NEW bin \in Bins
  PROVE  GoodOutcome("claude", "claude", c, bin, Config!InitClaudeCode(c, bin))
<1>1. PICK new : new = Config!MergeClaudeHook(Config!Content(c), bin)
  OBVIOUS
<1>2. Shape("claude", "hooks", Config!Content(c)) /\ Config!Content(c).is = "document"
      /\ Config!OwnPart(Config!Content(c)) = Config!OwnPart(c)
  BY ContentIs
<1>3. new = Config!MergeHookInto(Config!Content(c), EventsOf("claude"), bin)
  BY <1>1 DEF Config!MergeClaudeHook, EventsOf
<1>4. Shape("claude", "hooks", new) /\ new.is = "document" /\ Config!OwnPart(new) = Config!OwnPart(c)
  BY <1>2, <1>3, HooksMerged
<1>5. "claude" \notin Steps("claude", "uninit") /\ Config!FileOf("claude") = "hooks"
  BY DEF Steps, Config!FileOf
<1>6. GoodDoc("claude", "claude", c, bin, new)
  BY <1>4, <1>5 DEF GoodDoc
<1>7. Config!InitClaudeCode(c, bin) \in {Config!Stop, Config!Write(new)}
  BY <1>1 DEF Config!InitClaudeCode
<1> QED
  BY <1>5, <1>6, <1>7, Outcomes

LEMMA McpRegistered ==
  ASSUME NEW a \in Agents, NEW step \in {"mcp", "opencode mcp"}, NEW c, Shape(a, "mcp", c),
         NEW bin \in Bins
  PROVE  /\ step = "mcp" => GoodOutcome(a, step, c, bin, Config!RegisterMcpAt(c, bin))
         /\ step = "opencode mcp" => GoodOutcome(a, step, c, bin, Config!RegisterOpenCodeMcp(c, bin))
<1>0. step \notin Steps(a, "uninit") /\ Config!FileOf(step) = "mcp"
  BY AgentsAre DEF Steps, Config!FileOf
<1>1. PICK doc : doc = Config!Content(c)
  OBVIOUS
<1>2. Shape(a, "mcp", doc) /\ doc.is = "document" /\ Config!OwnPart(doc) = Config!OwnPart(c)
  BY <1>1, ContentIs
<1>3. PICK set : set = WithMcp(doc, bin)
  OBVIOUS
<1>4. Shape(a, "mcp", set) /\ set.is = "document" /\ Config!OwnPart(set) = Config!OwnPart(c)
  <2>1. PICK f : f = "mcp"
    OBVIOUS
  <2>2. f # "hooks" /\ Shape(a, f, doc) /\ bin \in Bins \cup {Config!Nobody}
    BY <1>2, <2>1
  <2>3. Shape(a, f, set)
    BY <1>3, <2>2, McpSet
  <2>4. Config!OwnPart(set) = Config!OwnPart(doc)
    BY <1>3, <2>2, McpSet
  <2>5. set.is = doc.is
    BY <1>3, <2>2, McpIs DEF Shape
  <2> QED
    BY <1>2, <2>1, <2>3, <2>4, <2>5
<1>5. GoodDoc(a, step, c, bin, set) /\ GoodDoc(a, step, c, bin, doc)
  BY <1>0, <1>2, <1>4 DEF GoodDoc
<1>6. /\ Config!MergeMcpServer(doc, bin) \in {set, doc}
      /\ Config!MergeOpenCodeMcp(doc, bin) \in {set, doc}
  BY <1>3 DEF Config!MergeMcpServer, Config!MergeOpenCodeMcp, WithMcp
<1>7. GoodOutcome(a, step, c, bin, Config!IfChanged(doc, set))
  BY <1>1, <1>5, EditOutcome
<1>8. GoodOutcome(a, step, c, bin, Config!IfChanged(doc, doc))
  BY <1>1, <1>5, EditOutcome
<1>9. GoodOutcome(a, step, c, bin, Config!Leave)
  BY <1>0, Outcomes
<1> QED
  BY <1>1, <1>6, <1>7, <1>8, <1>9 DEF Config!RegisterMcpAt, Config!RegisterOpenCodeMcp

LEMMA CursorInstalled ==
  ASSUME "cursor" \in Agents, NEW c, Shape("cursor", "hooks", c), NEW bin \in Bins
  PROVE  GoodOutcome("cursor", "cursor", c, bin, Config!InstallCursorHooks(c, bin))
<1>0. "cursor" \notin Steps("cursor", "uninit") /\ Config!FileOf("cursor") = "hooks"
  BY DEF Steps, Config!FileOf
<1>1. PICK doc : doc = Config!Content(c)
  OBVIOUS
<1>2. /\ Shape("cursor", "hooks", doc) /\ doc.is = "document" /\ doc \in Docs
      /\ Config!OwnPart(doc) = Config!OwnPart(c)
  BY <1>1, ContentIs
<1>3. PICK N : N = {Config!Block(ev, {bin}) : ev \in EventsOf("cursor")}
  OBVIOUS
<1>4. \A b \in N : b \in Blocks /\ b.ev \in EventsOf("cursor") /\ b.cmds = {bin}
  BY <1>3, AgentsAre DEF Config!Block, Blocks
<1>5. PICK new : new = WithBlocks(doc, N)
  OBVIOUS
<1>6. new = Config!MergeCursorHooks(doc, bin)
  BY <1>3, <1>5 DEF Config!MergeCursorHooks, Config!MergeCursorHook, EventsOf, WithBlocks
<1>8. Shape("cursor", "hooks", new) /\ Config!OwnPart(new) = Config!OwnPart(doc) /\ new.is = doc.is
  BY <1>2, <1>4, <1>5, BlocksAdded
<1>10. GoodDoc("cursor", "cursor", c, bin, new)
  BY <1>0, <1>2, <1>8 DEF GoodDoc
<1>11. GoodOutcome("cursor", "cursor", c, bin, Config!IfChanged(doc, new))
  BY <1>1, <1>10, EditOutcome
<1> QED
  BY <1>0, <1>1, <1>6, <1>11, Outcomes DEF Config!InstallCursorHooks

LEMMA PluginInstalled ==
  ASSUME "opencode" \in Agents, NEW c, Shape("opencode", "hooks", c), NEW bin \in Bins
  PROVE  GoodOutcome("opencode", "plugin", c, bin, Config!InstallOpenCodePlugin(bin))
<1>0. "plugin" \notin Steps("opencode", "uninit") /\ Config!FileOf("plugin") = "hooks"
  BY DEF Steps, Config!FileOf
<1>1. PICK new : new = Config!PluginScript(bin)
  OBVIOUS
<1>2. PICK B : B = {Config!Block("plugin", {bin})}
  OBVIOUS
<1>3. B \in SUBSET Blocks /\ \A b \in B : b.ev = "plugin" /\ b.cmds = {bin}
  BY <1>2 DEF Config!Block, Blocks, Events
<1>4. /\ new \in Docs /\ new.is = "document" /\ new.own = 0 /\ new.mcp = Config!Nobody
      /\ new.blocks = B /\ new.altered = {}
  BY <1>1, <1>2, <1>3, PlainDocs, DocWith DEF Config!PluginScript
<1>5. Config!OwnPart(new) = Config!OwnPart(Config!Absent)
  BY <1>3, <1>4, AgentsAre, PlainDocs, OwnPartSame
<1>6. Shape("opencode", "hooks", new)
  BY <1>3, <1>4, <1>5 DEF Shape, EventsOf
<1>7. GoodDoc("opencode", "plugin", c, bin, new)
  BY <1>0, <1>4, <1>5, <1>6 DEF GoodDoc, Shape
<1> QED
  BY <1>1, <1>7, Outcomes DEF Config!InstallOpenCodePlugin

LEMMA CodexInstalled ==
  ASSUME "codex" \in Agents, NEW c, Shape("codex", "hooks", c), NEW bin \in Bins
  PROVE  /\ GoodOutcome("codex", "codex", c, bin, Config!InstallCodexHooks(c, bin))
         /\ GoodOutcome("codex", "codex mcp", c, bin, Config!RegisterCodexMcp(c, bin))
<1>0. \A s \in {"codex", "codex mcp"} : s \notin Steps("codex", "uninit") /\ Config!FileOf(s) = "hooks"
  BY DEF Steps, Config!FileOf
<1>1. PICK doc : doc = Config!Content(c)
  OBVIOUS
<1>2. /\ Shape("codex", "hooks", doc) /\ doc.is = "document" /\ doc \in Docs
      /\ Config!OwnPart(doc) = Config!OwnPart(c)
  BY <1>1, ContentIs
<1>3. PICK N : N = Config!CodexHooksBlock(bin)
  OBVIOUS
<1>4. /\ \A b \in N : b \in Blocks /\ b.ev \in EventsOf("codex") /\ b.cmds = {bin}
      /\ \A ev \in EventsOf("codex") : Config!Block(ev, {bin}) \in N
  <2>1. EventsOf("codex") = Config!CodexEvents /\ EventsOf("codex") \subseteq Events
    BY AgentsAre DEF EventsOf
  <2> QED
    <3>1. \A ev \in Events : Config!Block(ev, {bin}) \in Blocks
                             /\ Config!Block(ev, {bin}).ev = ev /\ Config!Block(ev, {bin}).cmds = {bin}
      BY DEF Config!Block, Blocks
    <3>2. N = {Config!Block(ev, {bin}) : ev \in EventsOf("codex")}
      BY <1>3, <2>1 DEF Config!CodexHooksBlock
    <3>3. ASSUME NEW b \in N
          PROVE  b \in Blocks /\ b.ev \in EventsOf("codex") /\ b.cmds = {bin}
      <4>1. PICK ev \in EventsOf("codex") : b = Config!Block(ev, {bin})
        BY <3>2
      <4> QED
        BY <2>1, <3>1, <4>1
    <3> QED
      BY <3>2, <3>3
<1>5. PICK new : new = WithBlocks(doc, N)
  OBVIOUS
<1>8. Shape("codex", "hooks", new) /\ Config!OwnPart(new) = Config!OwnPart(doc) /\ new.is = doc.is
  BY <1>2, <1>4, <1>5, BlocksAdded
<1>9. GoodDoc("codex", "codex", c, bin, new)
  BY <1>0, <1>2, <1>8 DEF GoodDoc
<1>10. Config!InstallCodexHooks(c, bin) \in {Config!Leave, Config!Write(new)}
  BY <1>1, <1>3, <1>5 DEF Config!InstallCodexHooks, WithBlocks
<1>11. PICK set : set = WithMcp(doc, bin)
  OBVIOUS
<1>12. Shape("codex", "hooks", set) /\ set.is = "document" /\ Config!OwnPart(set) = Config!OwnPart(c)
  BY <1>2, <1>11, McpSet, McpIs
<1>13. GoodDoc("codex", "codex mcp", c, bin, set)
  BY <1>0, <1>12 DEF GoodDoc
<1>14. Config!RegisterCodexMcp(c, bin) \in {Config!Leave, Config!Write(set)}
  BY <1>1, <1>11 DEF Config!RegisterCodexMcp, WithMcp
<1> QED
  BY <1>0, <1>9, <1>10, <1>13, <1>14, Outcomes

LEMMA DevinInstalled ==
  ASSUME "devin" \in Agents, NEW c, Shape("devin", "hooks", c), NEW bin \in Bins
  PROVE  GoodOutcome("devin", "devin", c, bin, Config!InitDevin(c, bin))
<1>0. "devin" \notin Steps("devin", "uninit") /\ Config!FileOf("devin") = "hooks"
  BY DEF Steps, Config!FileOf
<1>1. PICK doc : doc = Config!Content(c)
  OBVIOUS
<1>2. /\ Shape("devin", "hooks", doc) /\ doc.is = "document"
      /\ Config!OwnPart(doc) = Config!OwnPart(c)
  BY <1>1, ContentIs
<1>3. PICK mid : mid = Config!MergeHookInto(doc, EventsOf("devin"), bin)
  OBVIOUS
<1>4. Shape("devin", "hooks", mid) /\ Config!OwnPart(mid) = Config!OwnPart(c) /\ mid.is = "document"
  BY <1>2, <1>3, HooksMerged
<1>5. PICK set : set = WithMcp(mid, bin)
  OBVIOUS
<1>6. Shape("devin", "hooks", set) /\ Config!OwnPart(set) = Config!OwnPart(c) /\ set.is = "document"
  <2>1. mid \in Docs
    BY <1>4 DEF Shape
  <2> QED
    BY <1>4, <1>5, <2>1, McpSet, McpIs
<1>7. PICK new \in {mid, set} : new = Config!MergeDevinConfig(doc, bin)
  BY <1>3, <1>5 DEF Config!MergeDevinConfig, Config!MergeMcpServer, EventsOf, WithMcp
<1>8. GoodDoc("devin", "devin", c, bin, new)
  BY <1>0, <1>4, <1>6, <1>7 DEF GoodDoc
<1>9. GoodOutcome("devin", "devin", c, bin, Config!IfChanged(doc, new))
  BY <1>1, <1>8, EditOutcome
<1> QED
  BY <1>0, <1>1, <1>7, <1>9, Outcomes DEF Config!InitDevin

\* A removal's edit, which passes over a file that is absent or cannot be read.
LEMMA EditJSON ==
  ASSUME NEW a, NEW step, NEW c, NEW bin \in Bins, NEW new, GoodDoc(a, step, c, bin, new)
  PROVE  GoodOutcome(a, step, c, bin, Config!EditJSONFile(c, new))
<1>1. Clean(Config!Absent, bin)
  BY PlainDocs, AgentsAre DEF Clean
<1>2. CASE c \in {Config!Absent, Config!Torn}
  BY <1>1, <1>2, Outcomes DEF Config!EditJSONFile
<1>3. CASE c \notin {Config!Absent, Config!Torn}
  <2>1. CASE new = c
    BY <1>3, <2>1, Outcomes DEF Config!EditJSONFile, Config!IfChanged, GoodDoc
  <2>2. CASE new # c
    BY <1>3, <2>2, Outcomes DEF Config!EditJSONFile, Config!IfChanged
  <2> QED
    BY <2>1, <2>2
<1> QED
  BY <1>2, <1>3

LEMMA ClaudeRemoved ==
  ASSUME "claude" \in Agents, NEW c, Shape("claude", "hooks", c), NEW bin \in Bins
  PROVE  GoodOutcome("claude", "no claude", c, bin, Config!UninitClaude(c, bin))
<1>0. Config!FileOf("no claude") = "hooks"
  BY DEF Config!FileOf
<1>1. PICK doc : doc = Config!Content(c)
  OBVIOUS
<1>2. Shape("claude", "hooks", doc) /\ doc.is = "document" /\ Config!OwnPart(doc) = Config!OwnPart(c)
  BY <1>1, ContentIs
<1>3. PICK cut : cut = Config!RemoveHookCmd(doc, EventsOf("claude"), bin)
  OBVIOUS
<1>4. /\ Shape("claude", "hooks", cut) /\ Config!OwnPart(cut) = Config!OwnPart(c)
      /\ cut.is = "document" /\ \A b \in cut.blocks : bin \notin b.cmds
  BY <1>2, <1>3, CommandCut
<1>5. cut.mcp # bin
  BY <1>4, AgentsAre DEF Shape
<1>6. GoodDoc("claude", "no claude", c, bin, cut)
  BY <1>0, <1>4, <1>5 DEF GoodDoc, Clean
<1>7. Config!UninitClaude(c, bin) = Config!EditJSONFile(c, cut)
  BY <1>1, <1>3 DEF Config!UninitClaude, EventsOf
<1> QED
  BY <1>6, <1>7, EditJSON

LEMMA DevinRemoved ==
  ASSUME "devin" \in Agents, NEW c, Shape("devin", "hooks", c), NEW bin \in Bins
  PROVE  GoodOutcome("devin", "no devin", c, bin, Config!UninitDevin(c, bin))
<1>0. Config!FileOf("no devin") = "hooks"
  BY DEF Config!FileOf
<1>1. PICK doc : doc = Config!Content(c)
  OBVIOUS
<1>2. Shape("devin", "hooks", doc) /\ doc.is = "document" /\ Config!OwnPart(doc) = Config!OwnPart(c)
  BY <1>1, ContentIs
<1>3. PICK cut : cut = Config!RemoveHookCmd(doc, EventsOf("devin"), bin)
  OBVIOUS
<1>4. /\ Shape("devin", "hooks", cut) /\ Config!OwnPart(cut) = Config!OwnPart(c)
      /\ cut.is = "document" /\ \A b \in cut.blocks : bin \notin b.cmds
  BY <1>2, <1>3, CommandCut
<1>5. PICK new : new = WithMcp(cut, Config!Nobody)
  OBVIOUS
<1>6. /\ Shape("devin", "hooks", new) /\ Config!OwnPart(new) = Config!OwnPart(c)
      /\ new.is = "document" /\ new.blocks = cut.blocks /\ new.mcp = Config!Nobody
  <2>1. cut \in Docs /\ Config!Nobody \in Bins \cup {Config!Nobody}
    BY <1>4 DEF Shape
  <2>2. Shape("devin", "hooks", new) /\ Config!OwnPart(new) = Config!OwnPart(c)
    BY <1>4, <1>5, <2>1, McpSet
  <2>3. new.is = cut.is /\ new.blocks = cut.blocks /\ new.mcp = Config!Nobody
    BY <1>5, <2>1, McpIs
  <2> QED
    BY <1>4, <2>2, <2>3
<1>7. GoodDoc("devin", "no devin", c, bin, new)
  BY <1>0, <1>4, <1>6, AgentsAre DEF GoodDoc, Clean
<1>8. Config!UninitDevin(c, bin) = Config!EditJSONFile(c, new)
  BY <1>1, <1>3, <1>5 DEF Config!UninitDevin, Config!RemoveMcpServer, EventsOf, WithMcp
<1> QED
  BY <1>7, <1>8, EditJSON

LEMMA McpRemoved ==
  ASSUME NEW a \in Agents, NEW step \in {"no mcp", "no opencode mcp"}, NEW c, Shape(a, "mcp", c),
         NEW bin \in Bins
  PROVE  /\ step = "no mcp" => GoodOutcome(a, step, c, bin,
               Config!EditJSONFile(c, Config!RemoveMcpServer(Config!Content(c))))
         /\ step = "no opencode mcp" => GoodOutcome(a, step, c, bin,
               Config!EditJSONFile(c, Config!RemoveOpenCodeMcp(Config!Content(c))))
<1>0. PICK f : f = "mcp"
  OBVIOUS
<1>1. PICK doc : doc = Config!Content(c)
  OBVIOUS
<1>2. PICK new : new = WithMcp(doc, Config!Nobody)
  OBVIOUS
<1>3. /\ f # "hooks" /\ Shape(a, f, doc) /\ doc \in Docs
      /\ doc.is = "document" /\ Config!OwnPart(doc) = Config!OwnPart(c)
  BY <1>0, <1>1, ContentIs
<1>4. /\ Shape(a, f, new) /\ Config!OwnPart(new) = Config!OwnPart(doc) /\ new.is = doc.is
      /\ new.mcp = Config!Nobody
  <2>1. Config!Nobody \in Bins \cup {Config!Nobody}
    OBVIOUS
  <2>2. Shape(a, f, new)
    BY <1>2, <1>3, <2>1, McpSet
  <2>3. Config!OwnPart(new) = Config!OwnPart(doc)
    BY <1>2, <1>3, <2>1, McpSet
  <2>4. new.is = doc.is /\ new.mcp = Config!Nobody
    BY <1>2, <1>3, <2>1, McpIs
  <2> QED
    BY <2>2, <2>3, <2>4
<1>5. new.blocks = {}
  BY <1>0, <1>4 DEF Shape
<1>6. Config!FileOf(step) = f
  BY <1>0 DEF Config!FileOf
<1>7. GoodDoc(a, step, c, bin, new)
  BY <1>3, <1>4, <1>5, <1>6, AgentsAre DEF GoodDoc, Clean
<1>8. GoodOutcome(a, step, c, bin, Config!EditJSONFile(c, new))
  BY <1>7, EditJSON
<1> QED
  BY <1>1, <1>2, <1>8 DEF Config!RemoveMcpServer, Config!RemoveOpenCodeMcp, WithMcp

LEMMA CursorRemoved ==
  ASSUME "cursor" \in Agents, NEW c, Shape("cursor", "hooks", c), NEW bin \in Bins
  PROVE  GoodOutcome("cursor", "no cursor", c, bin, Config!UninitCursor(c, bin))
<1>0. Config!FileOf("no cursor") = "hooks"
  BY DEF Config!FileOf
<1>1. PICK doc : doc = Config!Content(c)
  OBVIOUS
<1>2. /\ Shape("cursor", "hooks", doc) /\ doc.is = "document" /\ doc \in Docs
      /\ Config!OwnPart(doc) = Config!OwnPart(c)
  BY <1>1, ContentIs
<1>3. PICK R : R = {b \in doc.blocks : b.ev \in Config!CursorEvents /\ b.cmds = {bin}}
  OBVIOUS
<1>4. PICK new : new = [doc EXCEPT !.blocks = doc.blocks \ R]
  OBVIOUS
<1>5. doc.blocks \ R \in SUBSET Blocks
  BY <1>2 DEF Docs
<1>6. /\ new \in Docs /\ new.is = doc.is /\ new.own = doc.own /\ new.mcp = doc.mcp
      /\ new.blocks = doc.blocks \ R /\ new.altered = doc.altered
  BY <1>2, <1>4, <1>5, DocWith
<1>7. \A b \in R : b.cmds = {bin}
  BY <1>3
<1>8. Shape("cursor", "hooks", new) /\ Config!OwnPart(new) = Config!OwnPart(doc)
  <2>1. PICK a \in Agents : a = "cursor"
    OBVIOUS
  <2>2. a # "opencode" /\ a # "codex" /\ Shape(a, "hooks", doc)
    BY <1>2, <2>1
  <2>3. new.mcp \in {doc.mcp, Config!Nobody}
    BY <1>6
  <2>4. Shape(a, "hooks", new) /\ Config!OwnPart(new) = Config!OwnPart(doc)
    BY <1>6, <1>7, <2>2, <2>3, BlocksGone
  <2> QED
    BY <2>1, <2>4
<1>9. \A b \in new.blocks : bin \notin b.cmds
  BY <1>2, <1>3, <1>6 DEF Shape, EventsOf
<1>10. new.mcp # bin
  BY <1>8, AgentsAre DEF Shape
<1>11. GoodDoc("cursor", "no cursor", c, bin, new)
  BY <1>0, <1>2, <1>6, <1>8, <1>9, <1>10 DEF GoodDoc, Clean
<1>12. doc.blocks \ R = {b \in doc.blocks : ~(b.ev \in Config!CursorEvents /\ b.cmds = {bin})}
  BY <1>3
<1>13. Config!UninitCursor(c, bin) = Config!EditJSONFile(c, new)
  BY <1>1, <1>4, <1>12 DEF Config!UninitCursor, Config!RemoveCursorHook
<1> QED
  BY <1>11, <1>13, EditJSON

LEMMA PluginRemoved ==
  ASSUME NEW a, NEW c, NEW bin \in Bins
  PROVE  GoodOutcome(a, "no plugin", c, bin, Config!UninitOpenCode(c))
<1>1. Clean(Config!Absent, bin)
  BY PlainDocs, AgentsAre DEF Clean
<1> QED
  BY <1>1, Outcomes DEF Config!UninitOpenCode

LEMMA CodexRemoved ==
  ASSUME "codex" \in Agents, NEW c, Shape("codex", "hooks", c), NEW bin \in Bins
  PROVE  GoodOutcome("codex", "no codex", c, bin, Config!UninitCodex(c, bin))
<1>0. Config!FileOf("no codex") = "hooks"
  BY DEF Config!FileOf
<1>1. PICK doc : doc = Config!Content(c)
  OBVIOUS
<1>2. /\ Shape("codex", "hooks", doc) /\ doc.is = "document" /\ doc \in Docs
      /\ Config!OwnPart(doc) = Config!OwnPart(c)
  BY <1>1, ContentIs
<1>3. PICK R : R = IF /\ Config!CodexHooksBlock(bin) \subseteq doc.blocks
                       /\ <<"hooks", bin>> \notin doc.altered
                     THEN Config!CodexHooksBlock(bin) ELSE {}
  OBVIOUS
<1>4. PICK m : m = IF doc.mcp = bin /\ <<"mcp", bin>> \notin doc.altered
                     THEN Config!Nobody ELSE doc.mcp
  OBVIOUS
<1>5. PICK mid : mid = [doc EXCEPT !.blocks = doc.blocks \ R]
  OBVIOUS
<1>6. PICK new : new = WithMcp(mid, m)
  OBVIOUS
<1>7. doc.blocks \ R \in SUBSET Blocks /\ m \in Bins \cup {Config!Nobody}
  BY <1>2, <1>4 DEF Docs
<1>8. /\ mid \in Docs /\ mid.is = doc.is /\ mid.own = doc.own /\ mid.mcp = doc.mcp
      /\ mid.blocks = doc.blocks \ R /\ mid.altered = doc.altered
  BY <1>2, <1>5, <1>7, DocWith
<1>9. \A b \in R : b.cmds = {bin}
  BY <1>3 DEF Config!CodexHooksBlock, Config!Block
<1>10. Shape("codex", "hooks", mid) /\ Config!OwnPart(mid) = Config!OwnPart(doc)
  <2>1. R = {} \/ R = Config!CodexHooksBlock(bin)
    BY <1>3
  <2>2. mid.mcp \in {doc.mcp, Config!Nobody}
    BY <1>8
  <2>3. PICK a \in Agents : a = "codex"
    OBVIOUS
  <2>4. a # "opencode" /\ Shape(a, "hooks", doc)
    BY <1>2, <2>3
  <2>5. Shape(a, "hooks", mid)
    BY <1>8, <1>9, <2>1, <2>2, <2>4, BlocksGone
  <2>6. Config!OwnPart(mid) = Config!OwnPart(doc)
    <3>1. \A b \in R : Config!Theirs \notin b.cmds
      BY <1>9, AgentsAre
    <3>2. \A e : (\E b \in mid.blocks : b.ev = e /\ Config!Theirs \in b.cmds)
                  <=> (\E b \in doc.blocks : b.ev = e /\ Config!Theirs \in b.cmds)
      BY <1>8, <3>1
    <3> QED
      BY <1>8, <3>2, OwnPartSame
  <2> QED
    BY <2>3, <2>5, <2>6
<1>11. /\ Shape("codex", "hooks", new) /\ Config!OwnPart(new) = Config!OwnPart(mid)
       /\ new.is = mid.is /\ new.blocks = mid.blocks /\ new.mcp = m
       /\ new.altered = mid.altered
  <2>1. Shape("codex", "hooks", new)
    BY <1>6, <1>7, <1>10, McpSet
  <2>2. Config!OwnPart(new) = Config!OwnPart(mid)
    BY <1>6, <1>7, <1>10, McpSet
  <2>3. /\ new.is = mid.is /\ new.blocks = mid.blocks /\ new.mcp = m
        /\ new.altered = mid.altered
    BY <1>6, <1>7, <1>8, McpIs
  <2> QED
    BY <2>1, <2>2, <2>3
<1>12. <<"hooks", bin>> \in new.altered \/ \A b \in new.blocks : bin \notin b.cmds
  <2> SUFFICES ASSUME <<"hooks", bin>> \notin doc.altered,
                      NEW b \in doc.blocks, b \notin R, bin \in b.cmds  PROVE FALSE
    BY <1>8, <1>11
  <2>1. b \in Blocks /\ b.ev \in Config!CodexEvents /\ b.cmds = {bin}
    BY <1>2 DEF Shape, Docs, EventsOf
  <2>2. b = Config!Block(b.ev, {bin})
    BY <2>1 DEF Blocks, Config!Block
  <2>3. Config!Block("PostToolUse", {bin}) \in doc.blocks
          /\ Config!Block("UserPromptSubmit", {bin}) \in doc.blocks
    BY <1>2, <2>1, <2>2 DEF Shape, Config!CodexEvents
  <2>4. b \in Config!CodexHooksBlock(bin)
    BY <2>1, <2>2 DEF Config!CodexHooksBlock
  <2>5. Config!CodexHooksBlock(bin) \subseteq doc.blocks
    BY <2>3 DEF Config!CodexHooksBlock, Config!CodexEvents
  <2> QED
    BY <1>3, <2>4, <2>5
<1>13. <<"mcp", bin>> \in new.altered \/ new.mcp # bin
  BY <1>4, <1>8, <1>11, AgentsAre
<1>14. GoodDoc("codex", "no codex", c, bin, new)
  BY <1>0, <1>2, <1>8, <1>10, <1>11, <1>12, <1>13 DEF GoodDoc, Clean
<1>15. new = [doc EXCEPT !.blocks = doc.blocks \ R, !.mcp = m]
  BY <1>4, <1>5, <1>6, <1>2 DEF WithMcp, Docs
<1>16. CASE c = Config!Absent
  <2>1. Clean(c, bin)
    BY <1>16, PlainDocs, AgentsAre DEF Clean
  <2> QED
    BY <1>16, <2>1, Outcomes DEF Config!UninitCodex
<1>17. CASE c # Config!Absent
  <2>1. Config!UninitCodex(c, bin) = Config!IfChanged(doc, new)
    BY <1>1, <1>3, <1>4, <1>15, <1>17 DEF Config!UninitCodex
  <2> QED
    BY <1>1, <1>14, <2>1, EditOutcome
<1> QED
  BY <1>16, <1>17

LEMMA OutcomeOf ==
  ASSUME NEW c, NEW bin
  PROVE  /\ Config!Outcome("claude", c, bin) = Config!InitClaudeCode(c, bin)
         /\ Config!Outcome("cursor", c, bin) = Config!InstallCursorHooks(c, bin)
         /\ Config!Outcome("plugin", c, bin) = Config!InstallOpenCodePlugin(bin)
         /\ Config!Outcome("codex", c, bin) = Config!InstallCodexHooks(c, bin)
         /\ Config!Outcome("codex mcp", c, bin) = Config!RegisterCodexMcp(c, bin)
         /\ Config!Outcome("devin", c, bin) = Config!InitDevin(c, bin)
         /\ Config!Outcome("mcp", c, bin) = Config!RegisterMcpAt(c, bin)
         /\ Config!Outcome("opencode mcp", c, bin) = Config!RegisterOpenCodeMcp(c, bin)
         /\ Config!Outcome("no claude", c, bin) = Config!UninitClaude(c, bin)
         /\ Config!Outcome("no cursor", c, bin) = Config!UninitCursor(c, bin)
         /\ Config!Outcome("no plugin", c, bin) = Config!UninitOpenCode(c)
         /\ Config!Outcome("no codex", c, bin) = Config!UninitCodex(c, bin)
         /\ Config!Outcome("no devin", c, bin) = Config!UninitDevin(c, bin)
         /\ Config!Outcome("no mcp", c, bin)
              = Config!EditJSONFile(c, Config!RemoveMcpServer(Config!Content(c)))
         /\ Config!Outcome("no opencode mcp", c, bin)
              = Config!EditJSONFile(c, Config!RemoveOpenCodeMcp(Config!Content(c)))
BY DEF Config!Outcome

LEMMA FileOfStep ==
  ASSUME NEW a \in Agents, NEW verb \in {"init", "uninit"}, NEW step \in Steps(a, verb)
  PROVE  /\ Config!FileOf(step) \in Config!Files
         /\ a \in {"codex", "devin"} => Config!FileOf(step) = "hooks"
         /\ step = "no plugin" => a = "opencode" /\ Config!FileOf(step) = "hooks"
BY AgentsAre DEF Steps, Config!FileOf, Config!Files

\* Every step of every agent's plans.
LEMMA StepOutcome ==
  ASSUME NEW a \in Agents, NEW verb \in {"init", "uninit"}, NEW step \in Steps(a, verb),
         NEW c, Shape(a, Config!FileOf(step), c), NEW bin \in Bins
  PROVE  GoodOutcome(a, step, c, bin, Config!Outcome(step, c, bin))
<1>0. a \in {"claude", "cursor", "opencode", "codex", "devin"}
  BY AgentsAre
<1>1. CASE step \in {"mcp", "opencode mcp", "no mcp", "no opencode mcp"}
  <2>1. Shape(a, "mcp", c)
    BY <1>1 DEF Config!FileOf
  <2>2. CASE step = "mcp"
    <3>1. GoodOutcome(a, step, c, bin, Config!RegisterMcpAt(c, bin))
      BY <2>1, <2>2, McpRegistered
    <3> QED
      BY <2>2, <3>1, OutcomeOf
  <2>3. CASE step = "opencode mcp"
    <3>1. GoodOutcome(a, step, c, bin, Config!RegisterOpenCodeMcp(c, bin))
      BY <2>1, <2>3, McpRegistered
    <3> QED
      BY <2>3, <3>1, OutcomeOf
  <2>4. CASE step = "no mcp"
    <3>1. GoodOutcome(a, step, c, bin, Config!EditJSONFile(c, Config!RemoveMcpServer(Config!Content(c))))
      BY <2>1, <2>4, McpRemoved
    <3> QED
      BY <2>4, <3>1, OutcomeOf
  <2>5. CASE step = "no opencode mcp"
    <3>1. GoodOutcome(a, step, c, bin, Config!EditJSONFile(c, Config!RemoveOpenCodeMcp(Config!Content(c))))
      BY <2>1, <2>5, McpRemoved
    <3> QED
      BY <2>5, <3>1, OutcomeOf
  <2> QED
    BY <1>1, <2>2, <2>3, <2>4, <2>5
<1>2. CASE step \notin {"mcp", "opencode mcp", "no mcp", "no opencode mcp"}
  <2>1. Shape(a, "hooks", c)
    BY <1>2 DEF Config!FileOf
  <2>2. CASE a = "claude"
    <3>0. "claude" \in Agents /\ Shape("claude", "hooks", c)
      BY <2>1, <2>2
    <3>1. GoodOutcome(a, "claude", c, bin, Config!InitClaudeCode(c, bin))
      BY <2>2, <3>0, ClaudeInstalled
    <3>2. GoodOutcome(a, "no claude", c, bin, Config!UninitClaude(c, bin))
      BY <2>2, <3>0, ClaudeRemoved
    <3>3. step \in {"claude", "no claude"}
      BY <1>2, <2>2 DEF Steps
    <3> QED
      BY <3>1, <3>2, <3>3, OutcomeOf
  <2>3. CASE a = "cursor"
    <3>0. "cursor" \in Agents /\ Shape("cursor", "hooks", c)
      BY <2>1, <2>3
    <3>1. GoodOutcome(a, "cursor", c, bin, Config!InstallCursorHooks(c, bin))
      BY <2>3, <3>0, CursorInstalled
    <3>2. GoodOutcome(a, "no cursor", c, bin, Config!UninitCursor(c, bin))
      BY <2>3, <3>0, CursorRemoved
    <3>3. step \in {"cursor", "no cursor"}
      BY <1>2, <2>3 DEF Steps
    <3> QED
      BY <3>1, <3>2, <3>3, OutcomeOf
  <2>4. CASE a = "opencode"
    <3>0. "opencode" \in Agents /\ Shape("opencode", "hooks", c)
      BY <2>1, <2>4
    <3>1. GoodOutcome(a, "plugin", c, bin, Config!InstallOpenCodePlugin(bin))
      BY <2>4, <3>0, PluginInstalled
    <3>2. GoodOutcome(a, "no plugin", c, bin, Config!UninitOpenCode(c))
      BY <2>4, <3>0, PluginRemoved
    <3>3. step \in {"plugin", "no plugin"}
      BY <1>2, <2>4 DEF Steps
    <3> QED
      BY <3>1, <3>2, <3>3, OutcomeOf
  <2>5. CASE a = "codex"
    <3>0. "codex" \in Agents /\ Shape("codex", "hooks", c)
      BY <2>1, <2>5
    <3>1. GoodOutcome(a, "codex", c, bin, Config!InstallCodexHooks(c, bin))
      BY <2>5, <3>0, CodexInstalled
    <3>2. GoodOutcome(a, "codex mcp", c, bin, Config!RegisterCodexMcp(c, bin))
      BY <2>5, <3>0, CodexInstalled
    <3>3. GoodOutcome(a, "no codex", c, bin, Config!UninitCodex(c, bin))
      BY <2>5, <3>0, CodexRemoved
    <3>4. step \in {"codex", "codex mcp", "no codex"}
      BY <1>2, <2>5 DEF Steps
    <3> QED
      BY <3>1, <3>2, <3>3, <3>4, OutcomeOf
  <2>6. CASE a = "devin"
    <3>0. "devin" \in Agents /\ Shape("devin", "hooks", c)
      BY <2>1, <2>6
    <3>1. GoodOutcome(a, "devin", c, bin, Config!InitDevin(c, bin))
      BY <2>6, <3>0, DevinInstalled
    <3>2. GoodOutcome(a, "no devin", c, bin, Config!UninitDevin(c, bin))
      BY <2>6, <3>0, DevinRemoved
    <3>3. step \in {"devin", "no devin"}
      BY <1>2, <2>6 DEF Steps
    <3> QED
      BY <3>1, <3>2, <3>3, OutcomeOf
  <2> QED
    BY <1>0, <2>2, <2>3, <2>4, <2>5, <2>6
<1> QED
  BY <1>1, <1>2

\* A plan has the steps of its agent, and an uninit comes to every file its agent
\* has entries in.
LEMMA PlanIs ==
  ASSUME agent \in Agents, NEW verb \in {"init", "uninit"}
  PROVE  /\ Config!Plan(verb) \in Seq(Steps(agent, verb))
         /\ verb = "uninit" => \A f \in Config!Files :
              f \in Left(Config!Plan(verb)) \/ (agent \in {"codex", "devin"} /\ f = "mcp")
<1>1. \A S, x, y : x \in S /\ y \in S => <<x, y>> \in Seq(S) /\ <<x>> \in Seq(S)
  OBVIOUS
<1>2. CASE verb = "init"
  <2>1. \E x, y \in Steps(agent, verb) : Config!Plan(verb) = <<x, y>> \/ Config!Plan(verb) = <<x>>
    BY <1>2, AgentsAre DEF Steps, Config!Plan, Config!RunInitCursor, Config!RunInitOpenCode,
      Config!RunInitCodex
  <2> QED
    BY <1>1, <1>2, <2>1
<1>3. CASE verb = "uninit"
  <2>0. \A x, y : /\ Left(<<x, y>>) = {Config!FileOf(x), Config!FileOf(y)}
                  /\ Left(<<x>>) = {Config!FileOf(x)}
    BY DEF Left
  <2>f. /\ \A x \in {"no mcp", "no opencode mcp"} : Config!FileOf(x) = "mcp"
        /\ \A x \in {"no claude", "no cursor", "no plugin", "no codex", "no devin"} :
             Config!FileOf(x) = "hooks"
    BY DEF Config!FileOf
  <2>1. CASE agent \in {"claude", "cursor", "opencode"}
    <3>1. PICK x \in Steps(agent, verb), y \in Steps(agent, verb) :
            /\ Config!Plan(verb) = <<x, y>> /\ y \in {"no mcp", "no opencode mcp"}
            /\ x \in {"no claude", "no cursor", "no plugin"}
      BY <1>3, <2>1 DEF Steps, Config!Plan
    <3>2. Config!Plan(verb) \in Seq(Steps(agent, verb))
      <4>1. <<x, y>> \in Seq(Steps(agent, verb))
        BY <1>1
      <4> QED
        BY <3>1, <4>1
    <3>3. Left(Config!Plan(verb)) = {"hooks", "mcp"}
      <4>1. Config!FileOf(x) = "hooks" /\ Config!FileOf(y) = "mcp"
        BY <2>f, <3>1
      <4>2. Left(<<x, y>>) = {Config!FileOf(x), Config!FileOf(y)}
        BY <2>0
      <4> QED
        BY <3>1, <4>1, <4>2
    <3> QED
      BY <3>2, <3>3 DEF Config!Files
  <2>2. CASE agent \in {"codex", "devin"}
    <3>1. PICK x \in Steps(agent, verb) :
            Config!Plan(verb) = <<x>> /\ x \in {"no codex", "no devin"}
      BY <1>3, <2>2 DEF Steps, Config!Plan
    <3>2. Config!Plan(verb) \in Seq(Steps(agent, verb))
      <4>1. <<x>> \in Seq(Steps(agent, verb))
        BY <1>1
      <4> QED
        BY <3>1, <4>1
    <3>3. Left(Config!Plan(verb)) = {"hooks"}
      <4>1. Config!FileOf(x) = "hooks"
        BY <2>f, <3>1
      <4>2. Left(<<x>>) = {Config!FileOf(x)}
        BY <2>0
      <4> QED
        BY <3>1, <4>1, <4>2
    <3> QED
      BY <2>2, <3>2, <3>3 DEF Config!Files
  <2> QED
    BY <2>1, <2>2, AgentsAre
<1> QED
  BY <1>2, <1>3

LEMMA LeftOf ==
  /\ Left(<<>>) = {}
  /\ \A S : \A todo \in Seq(S) : todo # <<>> =>
       /\ Left(todo) \subseteq {Config!FileOf(Head(todo))} \cup Left(Tail(todo))
       /\ Head(todo) \in S /\ Tail(todo) \in Seq(S)
<1>1. Left(<<>>) = {}
  BY DEF Left
<1>2. ASSUME NEW S, NEW todo \in Seq(S), todo # <<>>
      PROVE  Left(todo) \subseteq {Config!FileOf(Head(todo))} \cup Left(Tail(todo))
  <2>1. SUFFICES ASSUME NEW i \in DOMAIN todo, i # 1
                 PROVE  \E j \in DOMAIN Tail(todo) : todo[i] = Tail(todo)[j]
    BY <1>2 DEF Left
  <2>2. i - 1 \in DOMAIN Tail(todo) /\ Tail(todo)[i - 1] = todo[i]
    BY <1>2, <2>1
  <2> QED
    BY <2>2
<1> QED
  BY <1>1, <1>2

(***************************************************************************)
(* Runs.                                                                   *)
(***************************************************************************)
RunPcs == {"idle", "read", "write", "fill", "remove"}

\* A run moved on in its step, passing over it, about to act, done with it, overlapped.
AtPc(r, pc) == [r EXCEPT !.pc = pc]
Passing(r) == [r EXCEPT !.todo = Tail(r.todo)]
Acting(r, o, c) == [r EXCEPT !.out = o, !.saw = c, !.pc = o.do]
Done(r) == [r EXCEPT !.pc = "read", !.todo = Tail(r.todo)]
Overlapped(r) == [r EXCEPT !.alone = FALSE]
Same(n, r) == n.verb = r.verb /\ n.bin = r.bin

LEMMA RunFields ==
  ASSUME NEW a, NEW r \in RunRecs(a)
  PROVE  /\ r.verb \in {"none", "init", "uninit"} /\ r.bin \in Bins \cup {Config!Nobody}
         /\ r.todo \in Todos(a) /\ r.out \in Outs /\ r.saw \in Docs /\ r.pc \in RunPcs
         /\ r.alone \in BOOLEAN
BY DEF RunRecs, RunPcs

LEMMA AtPcIs ==
  ASSUME NEW a, NEW r \in RunRecs(a), NEW pc \in RunPcs
  PROVE  /\ AtPc(r, pc) \in RunRecs(a) /\ Same(AtPc(r, pc), r) /\ AtPc(r, pc).todo = r.todo
         /\ AtPc(r, pc).out = r.out /\ AtPc(r, pc).saw = r.saw /\ AtPc(r, pc).pc = pc
         /\ AtPc(r, pc).alone = r.alone
BY DEF RunRecs, RunPcs, AtPc, Same

LEMMA PassingIs ==
  ASSUME NEW a, NEW r \in RunRecs(a), Tail(r.todo) \in Todos(a)
  PROVE  /\ Passing(r) \in RunRecs(a) /\ Same(Passing(r), r) /\ Passing(r).todo = Tail(r.todo)
         /\ Passing(r).pc = r.pc /\ Passing(r).alone = r.alone
<1>1. PICK t : t = Tail(r.todo)
  OBVIOUS
<1>2. PICK n : n = [r EXCEPT !.todo = t]
  OBVIOUS
<1>3. n \in RunRecs(a) /\ Same(n, r) /\ n.todo = t /\ n.pc = r.pc /\ n.alone = r.alone
  BY <1>1, <1>2 DEF RunRecs, Same
<1>4. n = Passing(r)
  BY <1>1, <1>2 DEF Passing
<1> QED
  BY <1>1, <1>3, <1>4

LEMMA DoneIs ==
  ASSUME NEW a, NEW r \in RunRecs(a), Tail(r.todo) \in Todos(a)
  PROVE  /\ Done(r) \in RunRecs(a) /\ Same(Done(r), r) /\ Done(r).todo = Tail(r.todo)
         /\ Done(r).pc = "read" /\ Done(r).alone = r.alone
<1>1. PICK t : t = Tail(r.todo)
  OBVIOUS
<1>2. PICK n : n = [r EXCEPT !.pc = "read", !.todo = t]
  OBVIOUS
<1>3. n \in RunRecs(a) /\ Same(n, r) /\ n.todo = t /\ n.pc = "read" /\ n.alone = r.alone
  BY <1>1, <1>2 DEF RunRecs, Same
<1>4. n = Done(r)
  BY <1>1, <1>2 DEF Done
<1> QED
  BY <1>1, <1>3, <1>4

LEMMA ActingIs ==
  ASSUME NEW a, NEW r \in RunRecs(a), NEW o \in Outs, o.do \in RunPcs, NEW c \in Docs
  PROVE  /\ Acting(r, o, c) \in RunRecs(a) /\ Same(Acting(r, o, c), r)
         /\ Acting(r, o, c).todo = r.todo /\ Acting(r, o, c).out = o /\ Acting(r, o, c).saw = c
         /\ Acting(r, o, c).pc = o.do /\ Acting(r, o, c).alone = r.alone
<1>1. PICK x : x = [r EXCEPT !.out = o]
  OBVIOUS
<1>2. PICK y : y = [x EXCEPT !.saw = c]
  OBVIOUS
<1>3. PICK pc : pc = o.do
  OBVIOUS
<1>4. PICK z : z = [y EXCEPT !.pc = pc]
  OBVIOUS
<1>5. x \in RunRecs(a) /\ Same(x, r) /\ x.todo = r.todo /\ x.out = o /\ x.alone = r.alone
  BY <1>1 DEF RunRecs, Same
<1>6. /\ y \in RunRecs(a) /\ Same(y, r) /\ y.todo = r.todo /\ y.out = o /\ y.saw = c
      /\ y.alone = r.alone
  BY <1>2, <1>5 DEF RunRecs, Same
<1>7. /\ z \in RunRecs(a) /\ Same(z, r) /\ z.todo = r.todo /\ z.out = o /\ z.saw = c
      /\ z.pc = pc /\ z.alone = r.alone
  BY <1>3, <1>4, <1>6 DEF RunRecs, Same, RunPcs
<1>8. z = Acting(r, o, c)
  BY <1>1, <1>2, <1>3, <1>4 DEF Acting
<1> QED
  BY <1>3, <1>7, <1>8

LEMMA OverlappedIs ==
  ASSUME NEW a, NEW r \in RunRecs(a)
  PROVE  /\ Overlapped(r) \in RunRecs(a) /\ Same(Overlapped(r), r) /\ Overlapped(r).todo = r.todo
         /\ Overlapped(r).out = r.out /\ Overlapped(r).saw = r.saw /\ Overlapped(r).pc = r.pc
         /\ ~Overlapped(r).alone
BY DEF RunRecs, Overlapped, Same

LEMMA IdleIs ==
  ASSUME NEW a
  PROVE  /\ Config!Idle \in RunRecs(a) /\ RunOK(a, Config!Idle)
         /\ Config!Idle.pc = "idle" /\ ~Config!Idle.alone
<1>1. <<>> \in Todos(a) /\ Config!Leave \in Outs
  BY PlainDocs DEF Todos, Outs, Config!Leave
<1>2. /\ Config!Idle \in RunRecs(a) /\ Config!Idle.pc = "idle" /\ ~Config!Idle.alone
  BY <1>1, PlainDocs DEF Config!Idle, RunRecs
<1> QED
  BY <1>2 DEF RunOK

\* What one run does to itself, whichever file it changes.
LEMMA OneRun ==
  ASSUME RunsOK, AloneOK, UndoneOK, agent' = agent, NEW p \in Runs, run[p].pc # "idle",
         NEW n, run' = [run EXCEPT ![p] = n], RunOK(agent, n), n.alone => run[p].alone,
         n.alone /\ n.verb = "uninit" => \A f \in Config!Files :
           file'[f] = Config!Torn \/ Clean(file'[f], n.bin) \/ f \in Left(n.todo)
  PROVE  RunsOK' /\ AloneOK' /\ UndoneOK'
<1>1. /\ DOMAIN run' = Runs /\ run'[p] = n
      /\ \A q \in Runs : q # p => run'[q] = run[q] /\ ~run[q].alone
  BY DEF RunsOK, AloneOK
<1>2. RunsOK'
  BY <1>1 DEF RunsOK
<1>3. AloneOK'
  BY <1>1 DEF AloneOK
<1>4. ASSUME NEW q \in Runs, NEW f \in Config!Files, run'[q].alone, run'[q].verb = "uninit"
      PROVE  file'[f] = Config!Torn \/ Clean(file'[f], run'[q].bin) \/ f \in Left(run'[q].todo)
  BY <1>1, <1>4
<1>5. UndoneOK'
  BY <1>4 DEF UndoneOK
<1> QED
  BY <1>2, <1>3, <1>5

\* A file becomes d: cut short, known to have lost something, or with what it had.
LEMMA OneFile ==
  ASSUME FilesOK, Config!OthersKept, agent' = agent, owned' = owned, lost \subseteq lost',
         NEW g \in Config!Files, agent \in {"codex", "devin"} => g = "hooks",
         NEW d, Shape(agent, g, d), file' = [file EXCEPT ![g] = d],
         d = Config!Torn \/ g \in lost' \/ Config!OwnPart(d) = owned[g]
  PROVE  /\ FilesOK' /\ Config!OthersKept' /\ file'[g] = d
         /\ \A f \in Config!Files : f # g => file'[f] = file[f]
<1>1. PICK X : X = Config!Files
  OBVIOUS
<1>2. d \in Docs /\ file \in [X -> Docs]
  BY <1>1 DEF Shape, FilesOK
<1>3. file' \in [X -> Docs] /\ file'[g] = d /\ \A f \in X : f # g => file'[f] = file[f]
  BY <1>1, <1>2
<1>4. \A f \in Config!Files : Shape(agent, f, file'[f])
  BY <1>1, <1>3 DEF FilesOK
<1>5. agent \in {"codex", "devin"} => file'["mcp"] = Config!Absent
  BY <1>1, <1>3 DEF FilesOK, Config!Files
<1>6. FilesOK'
  BY <1>1, <1>3, <1>4, <1>5 DEF FilesOK
<1>7. ASSUME NEW f \in Config!Files, file'[f] # Config!Torn, f \notin lost'
      PROVE  Config!OwnPart(file'[f]) = owned'[f]
  BY <1>1, <1>3, <1>7 DEF Config!OthersKept
<1>8. Config!OthersKept'
  BY <1>7 DEF Config!OthersKept
<1> QED
  BY <1>1, <1>3, <1>6, <1>8

LEMMA ConfigInit ==
  ASSUME Config!Init
  PROVE  ConfigInv
<1> DEFINE fresh == [Config!Empty EXCEPT !.own = 1]
<1>1. /\ fresh \in Docs /\ fresh.own = 1 /\ fresh.blocks = {} /\ fresh.mcp = Config!Nobody
      /\ fresh.altered = {}
  BY PlainDocs DEF Docs
<1> HIDE DEF fresh
<1>2. \A a, f : ~(a = "opencode" /\ f = "hooks") => Shape(a, f, fresh)
  BY <1>1 DEF Shape
<1>3. \A d \in {Config!Absent, fresh} :
        /\ d \in Docs /\ d.blocks = {} /\ d.own \in Nat
        /\ Config!OwnPart(d) = [own |-> d.own, hooks |-> {}]
  <2>1. \A d \in {Config!Absent, fresh} : d \in Docs /\ d.blocks = {} /\ d.own \in Nat
    BY <1>1, PlainDocs
  <2>2. \A d \in {Config!Absent, fresh} : Config!OwnPart(d) = [own |-> d.own, hooks |-> {}]
    BY <2>1 DEF Config!OwnPart
  <2> QED
    BY <2>1, <2>2
<1>4. /\ agent \in Agents /\ \A f \in Config!Files : file[f] \in {Config!Absent, fresh}
      /\ file \in [Config!Files -> {Config!Absent, fresh}]
      /\ agent = "opencode" => file["hooks"] = Config!Absent
      /\ agent \in {"codex", "devin"} => file["mcp"] = Config!Absent
      /\ run = [p \in Runs |-> Config!Idle]
      /\ owned = [f \in Config!Files |-> [own |-> file[f].own, hooks |-> {}]]
  BY DEF Config!Init, fresh
<1>5. FilesOK
  <2>1. file \in [Config!Files -> Docs]
    BY <1>3, <1>4
  <2>2. \A f \in Config!Files : Shape(agent, f, file[f])
    BY <1>2, <1>4, PlainShape
  <2>3. owned \in [Config!Files -> [own : Nat, hooks : SUBSET Events]]
    BY <1>3, <1>4
  <2>4. agent = "opencode" => owned["hooks"] = Config!OwnPart(Config!Absent)
    BY <1>3, <1>4 DEF Config!Files
  <2> QED
    BY <1>4, <2>1, <2>2, <2>3, <2>4 DEF FilesOK
<1>6. RunsOK /\ AloneOK /\ UndoneOK
  BY <1>4, IdleIs DEF RunsOK, AloneOK, UndoneOK
<1>7. Config!OthersKept
  BY <1>3, <1>4 DEF Config!OthersKept
<1> QED
  BY <1>5, <1>6, <1>7 DEF ConfigInv

\* What is known of a run that is under way, and of the step it is at.
LEMMA AtStep ==
  ASSUME ConfigInv, NEW p \in Runs, run[p].pc # "idle"
  PROVE  /\ run[p] \in RunRecs(agent) /\ RunOK(agent, run[p])
         /\ run[p].verb \in {"init", "uninit"} /\ run[p].bin \in Bins
         /\ run[p].todo \in Seq(Steps(agent, run[p].verb))
         /\ run[p].todo # <<>> =>
              /\ Head(run[p].todo) \in Steps(agent, run[p].verb)
              /\ Tail(run[p].todo) \in Seq(Steps(agent, run[p].verb))
              /\ Tail(run[p].todo) \in Todos(agent)
              /\ Config!FileOf(Head(run[p].todo)) \in Config!Files
              /\ agent \in {"codex", "devin"} => Config!FileOf(Head(run[p].todo)) = "hooks"
<1>1. RunOK(agent, run[p])
  BY DEF ConfigInv, RunsOK
<1>2. run[p] \in RunRecs(agent) /\ run[p].verb \in {"none", "init", "uninit"}
  BY <1>1, RunFields DEF RunOK
<1>3. /\ run[p].verb \in {"init", "uninit"} /\ run[p].bin \in Bins
      /\ run[p].todo \in Seq(Steps(agent, run[p].verb))
  BY <1>1, <1>2 DEF RunOK
<1>4. ASSUME run[p].todo # <<>>
      PROVE  /\ Head(run[p].todo) \in Steps(agent, run[p].verb)
             /\ Tail(run[p].todo) \in Seq(Steps(agent, run[p].verb))
  BY <1>3, <1>4, LeftOf
<1>5. \A S, T : \A t \in Seq(S) : S \subseteq T => t \in Seq(T)
  OBVIOUS
<1>6. Steps(agent, run[p].verb) \subseteq Steps(agent, "init") \cup Steps(agent, "uninit")
  BY <1>3
<1>7. run[p].todo # <<>> => Tail(run[p].todo) \in Todos(agent)
  <2>1. PICK S : S = Steps(agent, run[p].verb)
    OBVIOUS
  <2>2. PICK T : T = Steps(agent, "init") \cup Steps(agent, "uninit")
    OBVIOUS
  <2>3. S \subseteq T
    BY <1>6, <2>1, <2>2
  <2>4. run[p].todo # <<>> => Tail(run[p].todo) \in Seq(S)
    BY <1>4, <2>1
  <2>5. run[p].todo # <<>> => Tail(run[p].todo) \in Seq(T)
    BY <1>5, <2>3, <2>4
  <2> QED
    BY <2>2, <2>5 DEF Todos
<1>8. agent \in Agents
  BY DEF ConfigInv, FilesOK
<1> QED
  BY <1>1, <1>2, <1>3, <1>4, <1>7, <1>8, FileOfStep

LEMMA StepRead ==
  ASSUME ConfigInv, NEW p \in Runs, Config!Read(p)
  PROVE  ConfigInv'
<1>r. PICK r : r = run[p]
  OBVIOUS
<1>s. PICK step : step = Head(r.todo)
  OBVIOUS
<1>c. PICK c : c = file[Config!FileOf(step)]
  OBVIOUS
<1>o. PICK out : out = Config!Outcome(step, c, r.bin)
  OBVIOUS
<1>0. /\ run[p].pc = "read" /\ run[p].todo # <<>>
      /\ agent' = agent /\ file' = file /\ owned' = owned /\ lost' = lost
  BY DEF Config!Read
<1>1. /\ r \in RunRecs(agent) /\ RunOK(agent, r) /\ r.verb \in {"init", "uninit"} /\ r.bin \in Bins
      /\ r.todo \in Seq(Steps(agent, r.verb)) /\ step \in Steps(agent, r.verb)
      /\ Tail(r.todo) \in Seq(Steps(agent, r.verb)) /\ Tail(r.todo) \in Todos(agent)
      /\ Config!FileOf(step) \in Config!Files /\ r.pc = "read" /\ r.todo # <<>>
  BY <1>r, <1>s, <1>0, AtStep
<1>2. agent \in Agents /\ Shape(agent, Config!FileOf(step), c) /\ c \in Docs
  BY <1>c, <1>1 DEF ConfigInv, FilesOK, Shape
<1>3. GoodOutcome(agent, step, c, r.bin, out)
  BY <1>o, <1>1, <1>2, StepOutcome
<1>4. FilesOK' /\ Config!OthersKept'
  BY <1>0 DEF ConfigInv, FilesOK, Config!OthersKept
<1>5. /\ out.do = "stop" => run' = [run EXCEPT ![p] = Config!Idle]
      /\ out.do = "leave" => run' = [run EXCEPT ![p] = Passing(r)]
      /\ out.do \notin {"stop", "leave"} => run' = [run EXCEPT ![p] = Acting(r, out, c)]
  <2>1. out = Config!Outcome(Head(run[p].todo), file[Config!FileOf(Head(run[p].todo))], run[p].bin)
    BY <1>r, <1>s, <1>c, <1>o
  <2>2. ASSUME out.do = "stop"
        PROVE  run' = [run EXCEPT ![p] = Config!Idle]
    BY <2>1, <2>2 DEF Config!Read
  <2>3. ASSUME out.do = "leave"
        PROVE  run' = [run EXCEPT ![p] = Passing(r)]
    <3>1. run' = [run EXCEPT ![p] = [run[p] EXCEPT !.todo = Tail(run[p].todo)]]
      BY <2>1, <2>3 DEF Config!Read
    <3> QED
      BY <1>r, <3>1 DEF Passing
  <2>4. ASSUME out.do \notin {"stop", "leave"}
        PROVE  run' = [run EXCEPT ![p] = Acting(r, out, c)]
    <3>1. run' = [run EXCEPT ![p] = [run[p] EXCEPT !.out = out,
                    !.saw = file[Config!FileOf(Head(run[p].todo))], !.pc = out.do]]
      BY <2>1, <2>4 DEF Config!Read
    <3> QED
      BY <1>r, <1>s, <1>c, <3>1 DEF Acting
  <2> QED
    BY <2>2, <2>3, <2>4
<1>6. RunsOK /\ AloneOK /\ UndoneOK /\ run[p].pc # "idle"
  BY <1>0 DEF ConfigInv
<1>7. out \in Outs /\ out.do \in {"write", "leave", "stop", "remove"}
  BY <1>3 DEF GoodOutcome, Outs
<1>8. CASE out.do = "stop"
  <2>1. run' = [run EXCEPT ![p] = Config!Idle]
    BY <1>5, <1>8
  <2> QED
    BY <1>0, <1>4, <1>6, <2>1, IdleIs, OneRun DEF ConfigInv
<1>9. CASE out.do = "leave"
  <2>1. PICK n : n = Passing(r)
    OBVIOUS
  <2>2. run' = [run EXCEPT ![p] = n]
    BY <1>5, <1>9, <2>1
  <2>3. /\ n \in RunRecs(agent) /\ Same(n, r) /\ n.todo = Tail(r.todo)
        /\ n.pc = r.pc /\ n.alone = r.alone
    BY <1>1, <2>1, PassingIs
  <2>4. RunOK(agent, n)
    BY <1>1, <2>3 DEF Same, RunOK
  <2>5. ASSUME n.alone, n.verb = "uninit", NEW f \in Config!Files
        PROVE  file'[f] = Config!Torn \/ Clean(file'[f], n.bin) \/ f \in Left(n.todo)
    <3>1. file[f] = Config!Torn \/ Clean(file[f], r.bin) \/ f \in Left(r.todo)
      BY <1>r, <2>3, <2>5 DEF Same, ConfigInv, UndoneOK
    <3>2. Left(r.todo) \subseteq {Config!FileOf(step)} \cup Left(Tail(r.todo))
      BY <1>s, <1>1, LeftOf
    <3>3. c = Config!Torn \/ Clean(c, r.bin)
      BY <1>1, <1>3, <1>9, <2>3, <2>5 DEF Same, GoodOutcome
    <3> QED
      BY <1>0, <1>c, <2>3, <3>1, <3>2, <3>3 DEF Same
  <2>6. RunsOK' /\ AloneOK' /\ UndoneOK'
    BY <1>r, <1>0, <1>6, <2>2, <2>3, <2>4, <2>5, OneRun
  <2> QED
    BY <1>4, <2>6 DEF ConfigInv
<1>10. CASE out.do \in {"write", "remove"}
  <2>1. PICK n : n = Acting(r, out, c)
    OBVIOUS
  <2>2. run' = [run EXCEPT ![p] = n]
    BY <1>5, <1>10, <2>1
  <2>3. /\ n \in RunRecs(agent) /\ Same(n, r) /\ n.todo = r.todo
        /\ n.out = out /\ n.saw = c /\ n.pc = out.do /\ n.alone = r.alone
    BY <1>1, <1>2, <1>7, <1>10, <2>1, ActingIs DEF RunPcs
  <2>4. /\ out.do = "write" => GoodDoc(agent, step, c, r.bin, out.doc)
        /\ out.do = "remove" => step = "no plugin"
    BY <1>3 DEF GoodOutcome
  <2>5. RunOK(agent, n)
    BY <1>1, <1>s, <1>10, <2>3, <2>4 DEF Same, RunOK, GoodDoc
  <2>6. ASSUME n.alone, n.verb = "uninit", NEW f \in Config!Files
        PROVE  file'[f] = Config!Torn \/ Clean(file'[f], n.bin) \/ f \in Left(n.todo)
    BY <1>r, <1>0, <2>3, <2>6 DEF Same, ConfigInv, UndoneOK
  <2>7. RunsOK' /\ AloneOK' /\ UndoneOK'
    BY <1>r, <1>0, <1>6, <2>2, <2>3, <2>5, <2>6, OneRun
  <2> QED
    BY <1>4, <2>7 DEF ConfigInv
<1> QED
  BY <1>7, <1>8, <1>9, <1>10

\* A step that is done with its file, which is now without bin if this is a removal.
LEMMA StepDone ==
  ASSUME ConfigInv, NEW p \in Runs, run[p].pc # "idle", run[p].todo # <<>>, agent' = agent,
         run' = [run EXCEPT ![p].pc = "read", ![p].todo = Tail(@)],
         NEW g, g = Config!FileOf(Head(run[p].todo)),
         \A f \in Config!Files : f # g => file'[f] = file[f],
         run[p].verb = "uninit" => file'[g] = Config!Torn \/ Clean(file'[g], run[p].bin)
  PROVE  RunsOK' /\ AloneOK' /\ UndoneOK'
<1>r. PICK r : r = run[p]
  OBVIOUS
<1>n. PICK n : n = Done(r)
  OBVIOUS
<1>1. /\ r \in RunRecs(agent) /\ RunOK(agent, r) /\ r.verb \in {"init", "uninit"} /\ r.bin \in Bins
      /\ r.todo \in Seq(Steps(agent, r.verb)) /\ r.todo # <<>>
      /\ Tail(r.todo) \in Seq(Steps(agent, r.verb)) /\ Tail(r.todo) \in Todos(agent)
  BY <1>r, AtStep
<1>2. run' = [run EXCEPT ![p] = n]
  BY <1>r, <1>n DEF ConfigInv, RunsOK, Done
<1>3. /\ n \in RunRecs(agent) /\ Same(n, r) /\ n.todo = Tail(r.todo)
      /\ n.pc = "read" /\ n.alone = r.alone
  BY <1>n, <1>1, DoneIs
<1>4. RunOK(agent, n)
  BY <1>1, <1>3 DEF Same, RunOK
<1>5. ASSUME n.alone, n.verb = "uninit", NEW f \in Config!Files
      PROVE  file'[f] = Config!Torn \/ Clean(file'[f], n.bin) \/ f \in Left(n.todo)
  <2>1. file[f] = Config!Torn \/ Clean(file[f], r.bin) \/ f \in Left(r.todo)
    BY <1>r, <1>3, <1>5 DEF Same, ConfigInv, UndoneOK
  <2>2. Left(r.todo) \subseteq {g} \cup Left(Tail(r.todo))
    BY <1>r, <1>1, LeftOf
  <2> QED
    BY <1>r, <1>3, <1>5, <2>1, <2>2 DEF Same
<1> QED
  BY <1>r, <1>2, <1>3, <1>4, <1>5, OneRun DEF ConfigInv

\* A run that was overlapped keeps everything else.
LEMMA OverlappedOK ==
  ASSUME NEW a, NEW r, RunOK(a, r)
  PROVE  RunOK(a, Overlapped(r)) /\ ~Overlapped(r).alone /\ Overlapped(r).pc = r.pc
<1>1. /\ Overlapped(r) \in RunRecs(a) /\ Same(Overlapped(r), r) /\ Overlapped(r).todo = r.todo
      /\ Overlapped(r).out = r.out /\ Overlapped(r).saw = r.saw /\ Overlapped(r).pc = r.pc
      /\ ~Overlapped(r).alone
  BY OverlappedIs DEF RunOK
<1>2. PICK n : n = Overlapped(r)
  OBVIOUS
<1> QED
  BY <1>1, <1>2 DEF RunOK, Same

Started(verb, bin, todo, alone) ==
  [Config!Idle EXCEPT !.verb = verb, !.bin = bin, !.todo = todo, !.pc = "read", !.alone = alone]

LEMMA StartedIs ==
  ASSUME NEW a, NEW verb \in {"init", "uninit"}, NEW bin \in Bins, NEW todo \in Todos(a),
         NEW alone \in BOOLEAN
  PROVE  LET n == Started(verb, bin, todo, alone) IN
           /\ n \in RunRecs(a) /\ n.verb = verb /\ n.bin = bin /\ n.todo = todo
           /\ n.pc = "read" /\ n.alone = alone
<1>1. PICK n : n = Started(verb, bin, todo, alone)
  OBVIOUS
<1>2. n = [verb |-> verb, bin |-> bin, todo |-> todo, out |-> Config!Leave, saw |-> Config!Absent,
           pc |-> "read", alone |-> alone]
  BY <1>1 DEF Started, Config!Idle
<1>3. Config!Leave \in Outs
  BY PlainDocs DEF Outs, Config!Leave
<1>4. n \in RunRecs(a)
  BY <1>2, <1>3, PlainDocs DEF RunRecs
<1>5. n.verb = verb /\ n.bin = bin /\ n.todo = todo /\ n.pc = "read" /\ n.alone = alone
  BY <1>2
<1> QED
  BY <1>1, <1>4, <1>5

LEMMA BeginKeeps ==
  ASSUME ConfigInv, NEW p \in Runs, Config!Begin(p)
  PROVE  ConfigInv'
<1>1. /\ run[p].pc = "idle"
      /\ agent' = agent /\ file' = file /\ owned' = owned /\ lost' = lost
  BY DEF Config!Begin
<1>2. PICK alone \in BOOLEAN : alone = \A o \in Runs \ {p} : run[o].pc = "idle"
  OBVIOUS
<1>3. PICK verb \in {"init", "uninit"}, bin \in Bins :
        run' = [q \in Runs |->
          IF q = p THEN [Config!Idle EXCEPT !.verb = verb, !.bin = bin, !.todo = Config!Plan(verb),
                                            !.pc = "read",
                                            !.alone = \A o \in Runs \ {p} : run[o].pc = "idle"]
          ELSE [run[q] EXCEPT !.alone = FALSE]]
  BY DEF Config!Begin
<1>4. agent \in Agents /\ \A q \in Runs : RunOK(agent, run[q])
  BY DEF ConfigInv, FilesOK, RunsOK
<1>5. PICK todo : todo = Config!Plan(verb)
  OBVIOUS
<1>6. /\ todo \in Seq(Steps(agent, verb)) /\ todo \in Todos(agent)
      /\ verb = "uninit" => \A f \in Config!Files :
           f \in Left(todo) \/ (agent \in {"codex", "devin"} /\ f = "mcp")
  <2>1. todo \in Seq(Steps(agent, verb))
    BY <1>4, <1>5, PlanIs
  <2>2. PICK T : T = Steps(agent, "init") \cup Steps(agent, "uninit")
    OBVIOUS
  <2>3. \A S : S \subseteq T => \A t \in Seq(S) : t \in Seq(T)
    OBVIOUS
  <2>4. Steps(agent, verb) \subseteq T
    BY <2>2
  <2> QED
    BY <1>4, <1>5, <2>1, <2>2, <2>3, <2>4, PlanIs DEF Todos
<1>7. PICK n : n = Started(verb, bin, todo, alone)
  OBVIOUS
<1>8. /\ n \in RunRecs(agent) /\ n.verb = verb /\ n.bin = bin /\ n.todo = todo
      /\ n.pc = "read" /\ n.alone = alone
  BY <1>6, <1>7, StartedIs
<1>9. DOMAIN run' = Runs /\ run'[p] = n /\ \A q \in Runs : q # p => run'[q] = Overlapped(run[q])
  <2>1. DOMAIN run' = Runs /\ \A q \in Runs : q # p => run'[q] = Overlapped(run[q])
    BY <1>3 DEF Overlapped
  <2>2. run'[p] = n
    BY <1>2, <1>3, <1>5, <1>7 DEF Started
  <2> QED
    BY <2>1, <2>2
<1>10. RunOK(agent, n)
  BY <1>6, <1>8 DEF RunOK
<1>11. \A q \in Runs : q # p => /\ RunOK(agent, run'[q]) /\ ~run'[q].alone
                               /\ run'[q].pc = run[q].pc
  BY <1>4, <1>9, OverlappedOK
<1>12. RunsOK'
  BY <1>1, <1>9, <1>10, <1>11 DEF RunsOK
<1>13. AloneOK'
  BY <1>2, <1>8, <1>9, <1>11 DEF AloneOK
<1>14. ASSUME NEW q \in Runs, NEW f \in Config!Files, run'[q].alone, run'[q].verb = "uninit"
       PROVE  file'[f] = Config!Torn \/ Clean(file'[f], run'[q].bin) \/ f \in Left(run'[q].todo)
  <2>1. q = p /\ verb = "uninit"
    BY <1>8, <1>9, <1>11, <1>14
  <2>2. f \in Left(todo) \/ file[f] = Config!Absent
    BY <1>6, <2>1 DEF ConfigInv, FilesOK
  <2>3. Clean(Config!Absent, bin)
    BY PlainDocs, AgentsAre DEF Clean
  <2> QED
    BY <1>1, <1>8, <1>9, <2>1, <2>2, <2>3
<1>15. UndoneOK'
  BY <1>14 DEF UndoneOK
<1>16. FilesOK' /\ Config!OthersKept'
  BY <1>1 DEF ConfigInv, FilesOK, Config!OthersKept
<1> QED
  BY <1>12, <1>13, <1>15, <1>16 DEF ConfigInv

LEMMA TruncateKeeps ==
  ASSUME ConfigInv, NEW p \in Runs, Config!Truncate(p)
  PROVE  ConfigInv'
<1>r. PICK r : r = run[p]
  OBVIOUS
<1>g. PICK g : g = Config!FileOf(Head(r.todo))
  OBVIOUS
<1>1. /\ run[p].pc = "write" /\ agent' = agent /\ owned' = owned /\ lost' = lost
      /\ file' = [file EXCEPT ![g] = Config!Torn]
  BY <1>r, <1>g DEF Config!Truncate
<1>2. /\ r \in RunRecs(agent) /\ RunOK(agent, r) /\ r.todo # <<>> /\ r.pc = "write"
  BY <1>r, <1>1, AtStep DEF RunOK
<1>3. g \in Config!Files /\ (agent \in {"codex", "devin"} => g = "hooks")
  BY <1>r, <1>g, <1>1, <1>2, AtStep
<1>4. /\ FilesOK' /\ Config!OthersKept' /\ file'[g] = Config!Torn
      /\ \A f \in Config!Files : f # g => file'[f] = file[f]
  <2>1. Shape(agent, g, Config!Torn)
    BY PlainShape
  <2> QED
    BY <1>1, <1>3, <2>1, OneFile DEF ConfigInv
<1>5. PICK n : n = AtPc(r, "fill")
  OBVIOUS
<1>6. run' = [run EXCEPT ![p] = n]
  BY <1>r, <1>5 DEF Config!Truncate, AtPc
<1>7. /\ n \in RunRecs(agent) /\ Same(n, r) /\ n.todo = r.todo /\ n.out = r.out /\ n.saw = r.saw
      /\ n.pc = "fill" /\ n.alone = r.alone
  BY <1>2, <1>5, AtPcIs DEF RunPcs
<1>8. RunOK(agent, n)
  BY <1>2, <1>7 DEF RunOK, Same
<1>9. ASSUME n.alone, n.verb = "uninit", NEW f \in Config!Files
      PROVE  file'[f] = Config!Torn \/ Clean(file'[f], n.bin) \/ f \in Left(n.todo)
  BY <1>r, <1>4, <1>7, <1>9 DEF ConfigInv, UndoneOK, Same
<1>10. RunsOK' /\ AloneOK' /\ UndoneOK'
  BY <1>r, <1>1, <1>6, <1>7, <1>8, <1>9, OneRun DEF ConfigInv
<1> QED
  BY <1>4, <1>10 DEF ConfigInv

LEMMA FillKeeps ==
  ASSUME ConfigInv, NEW p \in Runs, Config!Fill(p)
  PROVE  ConfigInv'
<1>r. PICK r : r = run[p]
  OBVIOUS
<1>g. PICK g : g = Config!FileOf(Head(r.todo))
  OBVIOUS
<1>d. PICK d : d = r.out.doc
  OBVIOUS
<1>1. /\ run[p].pc = "fill" /\ agent' = agent /\ owned' = owned
      /\ file' = [file EXCEPT ![g] = d]
      /\ lost' = IF Config!OwnPart(r.saw) = owned[g] THEN lost ELSE lost \cup {g}
      /\ run' = [run EXCEPT ![p].pc = "read", ![p].todo = Tail(@)]
  BY <1>r, <1>g, <1>d DEF Config!Fill
<1>2. /\ RunOK(agent, r) /\ r.todo # <<>> /\ r.pc = "fill"
      /\ Shape(agent, g, d) /\ Config!OwnPart(d) = Config!OwnPart(r.saw)
      /\ r.verb = "uninit" => Clean(d, r.bin)
  BY <1>r, <1>g, <1>d, <1>1, AtStep DEF RunOK
<1>3. g \in Config!Files /\ (agent \in {"codex", "devin"} => g = "hooks")
  BY <1>r, <1>g, <1>1, <1>2, AtStep
<1>4. /\ FilesOK' /\ Config!OthersKept' /\ file'[g] = d
      /\ \A f \in Config!Files : f # g => file'[f] = file[f]
  BY <1>1, <1>2, <1>3, OneFile DEF ConfigInv
<1>5. RunsOK' /\ AloneOK' /\ UndoneOK'
  <2>1. /\ run[p].pc # "idle" /\ run[p].todo # <<>> /\ agent' = agent
        /\ g = Config!FileOf(Head(run[p].todo))
        /\ run' = [run EXCEPT ![p].pc = "read", ![p].todo = Tail(@)]
    BY <1>r, <1>g, <1>1, <1>2
  <2>2. /\ \A f \in Config!Files : f # g => file'[f] = file[f]
        /\ run[p].verb = "uninit" => Clean(file'[g], run[p].bin)
    BY <1>r, <1>2, <1>4
  <2> QED
    BY <2>1, <2>2, StepDone
<1> QED
  BY <1>4, <1>5 DEF ConfigInv

LEMMA UnlinkKeeps ==
  ASSUME ConfigInv, NEW p \in Runs, Config!Unlink(p)
  PROVE  ConfigInv'
<1>r. PICK r : r = run[p]
  OBVIOUS
<1>g. PICK g : g = Config!FileOf(Head(r.todo))
  OBVIOUS
<1>1. /\ run[p].pc = "remove" /\ agent' = agent /\ owned' = owned /\ lost' = lost
      /\ file' = [file EXCEPT ![g] = Config!Absent]
      /\ run' = [run EXCEPT ![p].pc = "read", ![p].todo = Tail(@)]
  BY <1>r, <1>g DEF Config!Unlink
<1>2. /\ RunOK(agent, r) /\ r.todo # <<>> /\ Head(r.todo) = "no plugin"
      /\ r.verb \in {"init", "uninit"} /\ Head(r.todo) \in Steps(agent, r.verb) /\ r.bin \in Bins
  BY <1>r, <1>1, AtStep DEF RunOK
<1>3. agent = "opencode" /\ g = "hooks" /\ g \in Config!Files
  BY <1>g, <1>2, FileOfStep DEF ConfigInv, FilesOK
<1>4. /\ FilesOK' /\ Config!OthersKept' /\ file'[g] = Config!Absent
      /\ \A f \in Config!Files : f # g => file'[f] = file[f]
  <2>1. Shape(agent, g, Config!Absent)
    BY PlainShape
  <2>2. Config!OwnPart(Config!Absent) = owned[g]
    BY <1>3 DEF ConfigInv, FilesOK
  <2> QED
    BY <1>1, <1>3, <2>1, <2>2, OneFile DEF ConfigInv
<1>5. Clean(Config!Absent, r.bin)
  BY <1>2, PlainDocs, AgentsAre DEF Clean
<1>6. RunsOK' /\ AloneOK' /\ UndoneOK'
  <2>1. /\ run[p].pc # "idle" /\ run[p].todo # <<>> /\ agent' = agent
        /\ g = Config!FileOf(Head(run[p].todo))
        /\ run' = [run EXCEPT ![p].pc = "read", ![p].todo = Tail(@)]
    BY <1>r, <1>g, <1>1, <1>2
  <2>2. /\ \A f \in Config!Files : f # g => file'[f] = file[f]
        /\ Clean(file'[g], run[p].bin)
    BY <1>r, <1>4, <1>5
  <2> QED
    BY <2>1, <2>2, StepDone
<1> QED
  BY <1>4, <1>6 DEF ConfigInv

\* A document cut short keeps its shape: a text that lost its end counts as altered.
LEMMA PrefixIs ==
  ASSUME NEW doc, Shape("codex", "hooks", doc), NEW kept, kept \subseteq Config!Texts(doc),
         NEW cut, cut \subseteq kept
  PROVE  Shape("codex", "hooks", Config!Prefix(doc, kept, cut))
<1>0. doc \in Docs /\ kept \subseteq {"hooks", "mcp"} \X Bins
  BY DEF Shape, Config!Texts
<1>b. PICK B : B = {b \in doc.blocks : \A bin \in Bins : bin \in b.cmds =>
                      /\ <<"hooks", bin>> \in kept
                      /\ <<"hooks", bin>> \in cut => b.ev = "PostToolUse"}
  OBVIOUS
<1>m. PICK m : m = IF <<"mcp", doc.mcp>> \in kept THEN doc.mcp ELSE Config!Nobody
  OBVIOUS
<1>a. PICK alt : alt = (doc.altered \cap kept) \cup cut
  OBVIOUS
<1>n. PICK new : new = [doc EXCEPT !.blocks = B, !.mcp = m, !.altered = alt]
  OBVIOUS
<1>1. B \in SUBSET Blocks /\ m \in Bins \cup {Config!Nobody}
      /\ alt \in SUBSET ({"hooks", "mcp"} \X Bins)
  BY <1>0, <1>b, <1>m, <1>a DEF Docs
<1>2. new \in Docs /\ new.blocks = B /\ new.altered = alt
  BY <1>0, <1>n, <1>1 DEF Docs
<1>3. \A b \in B, bin \in Bins : bin \in b.cmds => b.ev \in EventsOf("codex") /\ b.cmds = {bin}
  BY <1>b DEF Shape
<1>4. ASSUME NEW bin \in Bins, <<"hooks", bin>> \notin alt
      PROVE  Config!Block("PostToolUse", {bin}) \in B
               <=> Config!Block("UserPromptSubmit", {bin}) \in B
  <2>1. \A ev : Config!Block(ev, {bin}) \in B
          <=> Config!Block(ev, {bin}) \in doc.blocks /\ <<"hooks", bin>> \in kept
    BY <1>b, <1>a, <1>4 DEF Config!Block
  <2>2. <<"hooks", bin>> \in kept => <<"hooks", bin>> \notin doc.altered
    BY <1>a, <1>4
  <2> QED
    BY <2>1, <2>2 DEF Shape
<1>5. Shape("codex", "hooks", new)
  BY <1>2, <1>3, <1>4 DEF Shape
<1> QED
  BY <1>5, <1>b, <1>m, <1>a, <1>n DEF Config!Prefix

LEMMA DieCuts ==
  ASSUME ConfigInv, NEW p \in Runs, Config!Die(p)
  PROVE  FilesOK' /\ Config!OthersKept'
<1>1. agent' = agent /\ owned' = owned /\ lost \subseteq lost'
  BY DEF Config!Die
<1>2. CASE file' = file
  BY <1>1, <1>2 DEF ConfigInv, FilesOK, Config!OthersKept
<1>3. CASE file' # file
  <2>1. PICK g : g = Config!FileOf(Head(run[p].todo))
    OBVIOUS
  <2>2. PICK doc : doc = run[p].out.doc
    OBVIOUS
  <2>3. /\ run[p].pc = "fill" /\ agent = "codex" /\ g \in lost'
        /\ \E kept \in SUBSET Config!Texts(doc) : \E cut \in {{}} \cup {{t} : t \in kept} :
             file' = [file EXCEPT ![g] = Config!Prefix(doc, kept, cut)]
    BY <1>3, <2>1, <2>2 DEF Config!Die
  <2>4. PICK d : /\ file' = [file EXCEPT ![g] = d]
                 /\ \E kept \in SUBSET Config!Texts(doc) : \E cut \in SUBSET kept :
                      d = Config!Prefix(doc, kept, cut)
    BY <2>3
  <2>5. run[p].todo # <<>> /\ Shape(agent, g, doc)
    BY <2>1, <2>2, <2>3, AtStep DEF RunOK
  <2>6. g = "hooks" /\ g \in Config!Files
    BY <2>1, <2>3, <2>5, AtStep
  <2>7. Shape(agent, g, d)
    BY <2>3, <2>4, <2>5, <2>6, PrefixIs
  <2> QED
    BY <1>1, <2>3, <2>4, <2>6, <2>7, OneFile DEF ConfigInv
<1> QED
  BY <1>2, <1>3

LEMMA RunEnds ==
  ASSUME ConfigInv, NEW p \in Runs, Config!Finish(p) \/ Config!Die(p)
  PROVE  ConfigInv'
<1>1. /\ run[p].pc # "idle" /\ agent' = agent /\ run' = [run EXCEPT ![p] = Config!Idle]
  BY DEF Config!Finish, Config!Die
<1>2. FilesOK' /\ Config!OthersKept'
  BY DieCuts DEF Config!Finish, ConfigInv, FilesOK, Config!OthersKept
<1>3. RunsOK' /\ AloneOK' /\ UndoneOK'
  BY <1>1, IdleIs, OneRun DEF ConfigInv
<1> QED
  BY <1>2, <1>3 DEF ConfigInv

\* The owner's save of a file it can read, d in place of what was there.
LEMMA SavedFile ==
  ASSUME FilesOK, Config!OthersKept, agent' = agent, lost' = lost,
         NEW g \in Config!Files, file[g] # Config!Torn,
         ~(agent = "opencode" /\ g = "hooks"), ~(agent \in {"codex", "devin"} /\ g = "mcp"),
         NEW d, Shape(agent, g, d), file' = [file EXCEPT ![g] = d],
         NEW o \in [own : Nat, hooks : SUBSET Events], owned' = [owned EXCEPT ![g] = o],
         Config!OwnPart(file[g]) = owned[g] => Config!OwnPart(d) = o
  PROVE  FilesOK' /\ Config!OthersKept'
<1>1. PICK X : X = Config!Files
  OBVIOUS
<1>2. PICK O : O = [own : Nat, hooks : SUBSET Events]
  OBVIOUS
<1>3. d \in Docs /\ file \in [X -> Docs] /\ owned \in [X -> O] /\ o \in O
  BY <1>1, <1>2 DEF Shape, FilesOK
<1>4. /\ file' \in [X -> Docs] /\ file'[g] = d /\ \A f \in X : f # g => file'[f] = file[f]
      /\ owned' \in [X -> O] /\ owned'[g] = o /\ \A f \in X : f # g => owned'[f] = owned[f]
  BY <1>1, <1>3
<1>5. \A f \in Config!Files : Shape(agent, f, file'[f])
  BY <1>1, <1>4 DEF FilesOK
<1>6. /\ agent \in {"codex", "devin"} => file'["mcp"] = Config!Absent
      /\ agent = "opencode" => owned'["hooks"] = Config!OwnPart(Config!Absent)
  BY <1>1, <1>4 DEF FilesOK, Config!Files
<1>7. FilesOK'
  BY <1>1, <1>2, <1>4, <1>5, <1>6 DEF FilesOK
<1>8. ASSUME NEW f \in Config!Files, file'[f] # Config!Torn, f \notin lost'
      PROVE  Config!OwnPart(file'[f]) = owned'[f]
  BY <1>1, <1>4, <1>8 DEF Config!OthersKept
<1>9. Config!OthersKept'
  BY <1>8 DEF Config!OthersKept
<1> QED
  BY <1>7, <1>9

\* Another hook of the owner's, in a block of its own or beside yore's.
InOwnBlock(doc, ev, d) ==
  d = [doc EXCEPT !.blocks = doc.blocks \cup {Config!Block(ev, {Config!Theirs})}]
BesideYores(a, doc, ev, d) ==
  /\ a \in {"claude", "devin"}
  /\ \E b \in doc.blocks : /\ b.ev = ev
       /\ d = [doc EXCEPT !.blocks = (doc.blocks \ {b}) \cup
                            {[b EXCEPT !.cmds = b.cmds \cup {Config!Theirs}]}]

LEMMA HookSaved ==
  ASSUME NEW a \in Agents, a # "opencode", NEW doc, Shape(a, "hooks", doc), NEW ev \in Events, NEW d,
         InOwnBlock(doc, ev, d) \/ BesideYores(a, doc, ev, d)
  PROVE  /\ Shape(a, "hooks", d) /\ Config!OwnPart(d).own = doc.own
         /\ Config!OwnPart(d).hooks = Config!OwnPart(doc).hooks \cup {ev}
<1>0. doc \in Docs /\ doc.blocks \subseteq Blocks
  BY DEF Shape, Docs
<1>1. PICK gone, new :
        /\ d = [doc EXCEPT !.blocks = (doc.blocks \ gone) \cup {new}]
        /\ new \in Blocks /\ new.ev = ev /\ Config!Theirs \in new.cmds
        /\ \A b \in gone : b.ev = ev
        /\ \A x \in Bins : x \in new.cmds =>
             a \in {"claude", "devin"} /\ \E b \in doc.blocks : b.ev = ev /\ x \in b.cmds
        /\ a = "codex" => gone = {} /\ new.cmds = {Config!Theirs}
  <2>1. CASE InOwnBlock(doc, ev, d)
    <3>1. PICK new : new = Config!Block(ev, {Config!Theirs})
      OBVIOUS
    <3>2. new \in Blocks /\ new.ev = ev /\ new.cmds = {Config!Theirs}
      BY <3>1 DEF Config!Block, Blocks
    <3>3. PICK gone : gone = {}
      OBVIOUS
    <3>4. d = [doc EXCEPT !.blocks = (doc.blocks \ gone) \cup {new}]
      BY <2>1, <3>1, <3>3 DEF InOwnBlock
    <3>5. \A x \in Bins : x \notin new.cmds
      BY <3>2, AgentsAre
    <3>6. /\ Config!Theirs \in new.cmds /\ \A b \in gone : b.ev = ev
          /\ \A x \in Bins : x \in new.cmds =>
               a \in {"claude", "devin"} /\ \E b \in doc.blocks : b.ev = ev /\ x \in b.cmds
          /\ a = "codex" => gone = {} /\ new.cmds = {Config!Theirs}
      BY <3>2, <3>3, <3>5
    <3> QED
      BY <3>2, <3>4, <3>6
  <2>2. CASE BesideYores(a, doc, ev, d)
    <3>1. PICK b \in doc.blocks : /\ b.ev = ev /\ a \in {"claude", "devin"}
            /\ d = [doc EXCEPT !.blocks = (doc.blocks \ {b}) \cup
                                 {[b EXCEPT !.cmds = b.cmds \cup {Config!Theirs}]}]
      BY <2>2 DEF BesideYores
    <3>2. PICK new : new = [b EXCEPT !.cmds = b.cmds \cup {Config!Theirs}]
      OBVIOUS
    <3>3. new \in Blocks /\ new.ev = ev /\ new.cmds = b.cmds \cup {Config!Theirs}
      BY <1>0, <3>1, <3>2 DEF Blocks
    <3>4. PICK gone : gone = {b}
      OBVIOUS
    <3>5. /\ d = [doc EXCEPT !.blocks = (doc.blocks \ gone) \cup {new}]
          /\ \A x \in gone : x.ev = ev
      BY <3>1, <3>2, <3>4
    <3>6. \A x \in Bins : x \in new.cmds => x \in b.cmds
      BY <3>3, AgentsAre
    <3>7. \A x \in Bins : x \in new.cmds =>
            a \in {"claude", "devin"} /\ \E y \in doc.blocks : y.ev = ev /\ x \in y.cmds
      BY <3>1, <3>6
    <3>8. a # "codex" /\ Config!Theirs \in new.cmds
      BY <3>1, <3>3
    <3> QED
      BY <3>3, <3>5, <3>7, <3>8
  <2> QED
    BY <2>1, <2>2
<1>2. (doc.blocks \ gone) \cup {new} \in SUBSET Blocks
  BY <1>0, <1>1
<1>3. /\ d \in Docs /\ d.own = doc.own /\ d.mcp = doc.mcp /\ d.altered = doc.altered
      /\ d.blocks = (doc.blocks \ gone) \cup {new}
  BY <1>0, <1>1, <1>2, DocWith
<1>4. \A b \in d.blocks, x \in Bins : x \in b.cmds =>
        b.ev \in EventsOf(a) /\ (a \in {"cursor", "opencode", "codex"} => b.cmds = {x})
  BY <1>1, <1>3 DEF Shape
<1>5. ASSUME a = "codex", NEW x \in Bins, <<"hooks", x>> \notin d.altered
      PROVE  Config!Block("PostToolUse", {x}) \in d.blocks
               <=> Config!Block("UserPromptSubmit", {x}) \in d.blocks
  <2>1. \A e : Config!Block(e, {x}) # new
    BY <1>1, <1>5, AgentsAre DEF Config!Block
  <2> QED
    BY <1>1, <1>3, <1>5, <2>1 DEF Shape
<1>6. Shape(a, "hooks", d)
  BY <1>3, <1>4, <1>5 DEF Shape
<1>7. {b.ev : b \in {x \in d.blocks : Config!Theirs \in x.cmds}}
        = {b.ev : b \in {x \in doc.blocks : Config!Theirs \in x.cmds}} \cup {ev}
  BY <1>1, <1>3
<1> QED
  BY <1>3, <1>6, <1>7 DEF Config!OwnPart

LEMMA SaveKeeps ==
  ASSUME ConfigInv, NEW g \in Config!Files, Config!Save(g)
  PROVE  ConfigInv'
<1>c. PICK doc : doc = Config!Content(file[g])
  OBVIOUS
<1>w. PICK was : was = owned[g]
  OBVIOUS
<1>0. /\ file[g] # Config!Torn /\ agent' = agent /\ lost' = lost
      /\ ~(agent = "opencode" /\ g = "hooks") /\ ~(agent \in {"codex", "devin"} /\ g = "mcp")
      /\ run' = [p \in Runs |-> [run[p] EXCEPT !.alone = FALSE]]
  BY DEF Config!Save
<1>1. agent \in Agents /\ FilesOK /\ Config!OthersKept
  BY DEF ConfigInv, FilesOK
<1>2. /\ Shape(agent, g, doc) /\ Config!OwnPart(doc) = Config!OwnPart(file[g]) /\ doc \in Docs
  <2>1. Shape(agent, g, file[g])
    BY DEF ConfigInv, FilesOK
  <2> QED
    BY <1>c, <2>1, ContentIs
<1>3. was \in [own : Nat, hooks : SUBSET Events]
  BY <1>1, <1>w DEF FilesOK
<1>4. PICK d, o :
        /\ Shape(agent, g, d) /\ file' = [file EXCEPT ![g] = d]
        /\ o \in [own : Nat, hooks : SUBSET Events] /\ owned' = [owned EXCEPT ![g] = o]
        /\ Config!OwnPart(doc) = was => Config!OwnPart(d) = o
  <2>1. CASE /\ file' = [file EXCEPT ![g] = [doc EXCEPT !.own = @ + 1]]
             /\ owned' = [owned EXCEPT ![g].own = @ + 1]
    <3>1. PICK d : d = [doc EXCEPT !.own = doc.own + 1]
      OBVIOUS
    <3>2. PICK o : o = [was EXCEPT !.own = was.own + 1]
      OBVIOUS
    <3>3. /\ d \in Docs /\ d.own = doc.own + 1 /\ d.blocks = doc.blocks /\ d.mcp = doc.mcp
          /\ d.altered = doc.altered
      BY <1>2, <3>1 DEF Docs
    <3>4. o = [own |-> was.own + 1, hooks |-> was.hooks] /\ o \in [own : Nat, hooks : SUBSET Events]
      BY <1>3, <3>2
    <3>5. Shape(agent, g, d)
      BY <1>0, <1>2, <3>3 DEF Shape
    <3>6. Config!OwnPart(doc) = was => Config!OwnPart(d) = o
      <4>1. PICK H : H = {b.ev : b \in {x \in doc.blocks : Config!Theirs \in x.cmds}}
        OBVIOUS
      <4>2. /\ Config!OwnPart(doc) = [own |-> doc.own, hooks |-> H]
            /\ Config!OwnPart(d) = [own |-> doc.own + 1, hooks |-> H]
        BY <3>3, <4>1 DEF Config!OwnPart
      <4> QED
        BY <3>4, <4>2
    <3>7. file' = [file EXCEPT ![g] = d] /\ owned' = [owned EXCEPT ![g] = o]
      BY <1>w, <2>1, <3>1, <3>2
    <3> QED
      BY <3>4, <3>5, <3>6, <3>7
  <2>2. ASSUME NEW ev \in Config!OwnHooks, g = "hooks",
               \/ file' = [file EXCEPT ![g] = [doc EXCEPT !.blocks =
                             @ \cup {Config!Block(ev, {Config!Theirs})}]]
               \/ \E b \in doc.blocks :
                    /\ b.ev = ev /\ agent \in {"claude", "devin"}
                    /\ file' = [file EXCEPT ![g] = [doc EXCEPT !.blocks =
                                 (@ \ {b}) \cup {[b EXCEPT !.cmds = @ \cup {Config!Theirs}]}]],
               owned' = [owned EXCEPT ![g].hooks = @ \cup {ev}]
        PROVE  \E d, o :
                 /\ Shape(agent, g, d) /\ file' = [file EXCEPT ![g] = d]
                 /\ o \in [own : Nat, hooks : SUBSET Events] /\ owned' = [owned EXCEPT ![g] = o]
                 /\ Config!OwnPart(doc) = was => Config!OwnPart(d) = o
    <3>1. PICK d :
            /\ file' = [file EXCEPT ![g] = d]
            /\ InOwnBlock(doc, ev, d) \/ BesideYores(agent, doc, ev, d)
      BY <2>2 DEF InOwnBlock, BesideYores
    <3>2. ev \in Events /\ agent # "opencode" /\ Shape(agent, "hooks", doc)
      BY <1>0, <1>2, <2>2 DEF Config!OwnHooks, Events
    <3>3. /\ Shape(agent, g, d) /\ Config!OwnPart(d).own = doc.own
          /\ Config!OwnPart(d).hooks = Config!OwnPart(doc).hooks \cup {ev}
      BY <1>1, <2>2, <3>1, <3>2, HookSaved
    <3>4. PICK o : o = [was EXCEPT !.hooks = was.hooks \cup {ev}]
      OBVIOUS
    <3>5. /\ o = [own |-> was.own, hooks |-> was.hooks \cup {ev}]
          /\ o \in [own : Nat, hooks : SUBSET Events]
      BY <1>3, <3>2, <3>4
    <3>6. Config!OwnPart(doc) = was => Config!OwnPart(d) = o
      <4>1. /\ Config!OwnPart(doc).own = doc.own
            /\ Config!OwnPart(d)
                 = [own |-> Config!OwnPart(d).own, hooks |-> Config!OwnPart(d).hooks]
        BY DEF Config!OwnPart
      <4> QED
        BY <3>3, <3>5, <4>1
    <3>7. owned' = [owned EXCEPT ![g] = o]
      BY <1>w, <2>2, <3>4
    <3> QED
      BY <3>1, <3>3, <3>5, <3>6, <3>7
  <2>4. ASSUME NEW t \in Config!Texts(doc), agent = "codex", owned' = owned,
               file' = [file EXCEPT ![g] = [doc EXCEPT !.altered = @ \cup {t}]]
        PROVE  \E d, o :
                 /\ Shape(agent, g, d) /\ file' = [file EXCEPT ![g] = d]
                 /\ o \in [own : Nat, hooks : SUBSET Events] /\ owned' = [owned EXCEPT ![g] = o]
                 /\ Config!OwnPart(doc) = was => Config!OwnPart(d) = o
    <3>1. PICK d : d = [doc EXCEPT !.altered = doc.altered \cup {t}]
      OBVIOUS
    <3>2. t \in {"hooks", "mcp"} \X Bins
      BY DEF Config!Texts
    <3>3. /\ d \in Docs /\ d.own = doc.own /\ d.blocks = doc.blocks /\ d.mcp = doc.mcp
          /\ d.altered = doc.altered \cup {t}
      BY <1>2, <3>1, <3>2 DEF Docs
    <3>4. Shape(agent, g, d)
      BY <1>2, <2>4, <3>3 DEF Shape
    <3>5. Config!OwnPart(d) = Config!OwnPart(doc)
      BY <3>3 DEF Config!OwnPart
    <3>6. owned' = [owned EXCEPT ![g] = was]
      BY <1>1, <1>w, <2>4 DEF FilesOK
    <3>7. file' = [file EXCEPT ![g] = d]
      BY <2>4, <3>1
    <3> QED
      BY <1>3, <3>4, <3>5, <3>6, <3>7
  <2>3. \/ \E t \in Config!Texts(doc) :
             /\ agent = "codex"
             /\ file' = [file EXCEPT ![g] = [doc EXCEPT !.altered = @ \cup {t}]]
             /\ owned' = owned
        \/ /\ file' = [file EXCEPT ![g] = [doc EXCEPT !.own = @ + 1]]
           /\ owned' = [owned EXCEPT ![g].own = @ + 1]
        \/ \E ev \in Config!OwnHooks :
             /\ g = "hooks"
             /\ \/ file' = [file EXCEPT ![g] = [doc EXCEPT !.blocks =
                              @ \cup {Config!Block(ev, {Config!Theirs})}]]
                \/ \E b \in doc.blocks :
                     /\ b.ev = ev /\ agent \in {"claude", "devin"}
                     /\ file' = [file EXCEPT ![g] = [doc EXCEPT !.blocks =
                                  (@ \ {b}) \cup {[b EXCEPT !.cmds = @ \cup {Config!Theirs}]}]]
             /\ owned' = [owned EXCEPT ![g].hooks = @ \cup {ev}]
    BY <1>c DEF Config!Save
  <2> QED
    BY <2>1, <2>2, <2>3, <2>4
<1>5. FilesOK' /\ Config!OthersKept'
  BY <1>0, <1>1, <1>2, <1>4, <1>w, SavedFile
<1>6. DOMAIN run' = Runs /\ \A p \in Runs : run'[p] = Overlapped(run[p])
  BY <1>0 DEF Overlapped
<1>7. \A p \in Runs : RunOK(agent, run'[p]) /\ ~run'[p].alone
  BY <1>6, OverlappedOK DEF ConfigInv, RunsOK
<1>8. RunsOK' /\ AloneOK' /\ UndoneOK'
  BY <1>0, <1>6, <1>7 DEF RunsOK, AloneOK, UndoneOK
<1> QED
  BY <1>5, <1>8 DEF ConfigInv

LEMMA ConfigStep ==
  ASSUME ConfigInv, [Config!Next]_configVars
  PROVE  ConfigInv'
<1>1. CASE UNCHANGED configVars
  BY <1>1 DEF configVars, ConfigInv, FilesOK, RunsOK, AloneOK, UndoneOK, Config!OthersKept
<1>2. ASSUME NEW p \in Runs, Config!Begin(p)
      PROVE  ConfigInv'
  BY <1>2, BeginKeeps
<1>3. ASSUME NEW p \in Runs, Config!Read(p)
      PROVE  ConfigInv'
  BY <1>3, StepRead
<1>4. ASSUME NEW p \in Runs, Config!Truncate(p)
      PROVE  ConfigInv'
  BY <1>4, TruncateKeeps
<1>5. ASSUME NEW p \in Runs, Config!Fill(p)
      PROVE  ConfigInv'
  BY <1>5, FillKeeps
<1>6. ASSUME NEW p \in Runs, Config!Unlink(p)
      PROVE  ConfigInv'
  BY <1>6, UnlinkKeeps
<1>7. ASSUME NEW p \in Runs, Config!Finish(p) \/ Config!Die(p)
      PROVE  ConfigInv'
  BY <1>7, RunEnds
<1>8. ASSUME NEW f \in Config!Files, Config!Save(f)
      PROVE  ConfigInv'
  BY <1>8, SaveKeeps
<1> QED
  BY <1>1, <1>2, <1>3, <1>4, <1>5, <1>6, <1>7, <1>8 DEF Config!Next

\* The settings and hooks that are not yore's are kept by every order of installs and
\* removals (init.go, uninit.go and the agents' installers), overlapping or killed
\* between two files, unless a write was cut short or overlapped a save: for any
\* binaries and any number of runs and saves.
THEOREM OthersAreKept == Spec => []OthersKept
<1>1. Init => ConfigInv
  BY ConfigInit DEF Init
<1>2. ConfigInv /\ [Next]_vars => ConfigInv'
  BY PartSteps, ConfigStep
<1>3. ConfigInv => OthersKept
  BY DEF ConfigInv, OthersKept
<1> QED
  BY <1>1, <1>2, <1>3, PTL DEF Spec

LEMMA FinishedIsClean ==
  ASSUME ConfigInv, NEW p \in Runs, run[p].verb = "uninit", run[p].alone, Config!Finish(p),
         NEW f \in Config!Files, file[f] # Config!Torn
  PROVE  /\ run[p].bin \in UNION {b.cmds : b \in Config!Content(file[f]).blocks} =>
              agent = "codex" /\ <<"hooks", run[p].bin>> \in file[f].altered
         /\ Config!Content(file[f]).mcp = run[p].bin =>
              agent = "codex" /\ <<"mcp", run[p].bin>> \in file[f].altered
<1>1. run[p].todo = <<>>
  BY DEF Config!Finish
<1>2. f \notin Left(run[p].todo)
  BY <1>1, LeftOf
<1>3. Clean(file[f], run[p].bin)
  BY <1>2 DEF ConfigInv, UndoneOK
<1>4. Config!Content(file[f]).blocks = file[f].blocks /\ Config!Content(file[f]).mcp = file[f].mcp
  BY ContentIs DEF ConfigInv, FilesOK
<1>5. file[f].altered # {} => agent = "codex"
  BY DEF ConfigInv, FilesOK, Shape
<1> QED
  BY <1>3, <1>4, <1>5 DEF Clean

\* An uninit that nothing overlapped ends with no hook and no MCP entry of its binary in
\* any file it can read, whatever installs of whatever binaries came before, except the
\* text in Codex's file that no longer stands as yore wrote it (uninit.go).
THEOREM RemovalLeavesNothing == Spec => LeavesNothing
<1>1. Init => ConfigInv
  BY ConfigInit DEF Init
<1>2. ConfigInv /\ [Next]_vars => ConfigInv'
  BY PartSteps, ConfigStep
<1>3. ConfigInv /\ [Next]_vars =>
        [\A p \in Runs : run[p].verb = "uninit" /\ run[p].alone /\ Config!Finish(p) =>
           \A f \in Config!Files : file[f] # Config!Torn =>
             /\ run[p].bin \in UNION {b.cmds : b \in Config!Content(file[f]).blocks} =>
                  agent = "codex" /\ <<"hooks", run[p].bin>> \in file[f].altered
             /\ Config!Content(file[f]).mcp = run[p].bin =>
                  agent = "codex" /\ <<"mcp", run[p].bin>> \in file[f].altered]_(Config!vars)
  BY FinishedIsClean
<1> QED
  BY <1>1, <1>2, <1>3, PTL DEF Spec, LeavesNothing, Config!LeavesNothing
================================================================================
