-------------------------------- MODULE Backups --------------------------------
(***************************************************************************)
(* Rotating backups of a database: the daemon's of data.db                 *)
(* (daemon/backup.go) and the server's of each tenant (server/backup.go).  *)
(*                                                                         *)
(* One goroutine writes a snapshot to a temporary file, renames it to a    *)
(* name that holds the wall clock's time, and removes all but the newest   *)
(* names.  The process may die between any two of these, removals may      *)
(* fail, and the clock may be set back.                                    *)
(***************************************************************************)
EXTENDS Naturals, FiniteSets

CONSTANTS Keep,      \* how many backups to keep
          MaxTime,   \* bound: readings of the clock
          MaxBackup, \* bound: snapshots taken
          MaxSetBack \* bound: how often the clock is set back

BackupAssumption == Keep \in Nat \ {0} /\ {MaxTime, MaxBackup, MaxSetBack} \subseteq Nat

VARIABLES
  who,     \* "daemon" or "server"
  clock,   \* the wall clock
  data,    \* backups in the directory: the time in the name and the snapshot in the file
  temps,   \* temporary files: the snapshots they belong to
  taken,   \* snapshots taken so far
  job,     \* what the goroutine is doing, and the files it still means to remove
  setBack, \* how often the clock was set back
  \* history
  latest   \* the snapshot that was renamed last while no name was ahead of the clock

bvars == <<who, clock, data, temps, taken, job, setBack, latest>>

Idle == [pc |-> "idle", prune |-> {}]

Init ==
  /\ who \in {"daemon", "server"}
  /\ clock = 1 /\ data = {} /\ temps = {} /\ taken = 0 /\ job = Idle /\ setBack = 0 /\ latest = 0

Tick ==
  /\ \/ clock < MaxTime /\ clock' = clock + 1 /\ UNCHANGED setBack
     \/ setBack < MaxSetBack /\ setBack' = setBack + 1 /\ clock' \in 1..(clock - 1)
  /\ UNCHANGED <<who, data, temps, taken, job, latest>>

\* doBackup, backupTenant: the temporary file.
WriteBackupFile ==
  /\ job.pc = "idle" /\ taken < MaxBackup
  /\ taken' = taken + 1 /\ temps' = temps \cup {taken + 1}
  /\ job' = [Idle EXCEPT !.pc = "writing"]
  /\ UNCHANGED <<who, clock, data, setBack, latest>>

\* The snapshot or its rename fails, and the file is removed.
BackupFails ==
  /\ job.pc = "writing"
  /\ temps' = temps \ {taken} /\ job' = Idle
  /\ UNCHANGED <<who, clock, data, taken, setBack, latest>>

\* A name that is there already, for the same millisecond, is replaced.
Rename ==
  /\ job.pc = "writing"
  /\ temps' = temps \ {taken}
  /\ data' = {b \in data : b.ts # clock} \cup {[ts |-> clock, of |-> taken]}
  /\ latest' = IF \A b \in data : b.ts <= clock THEN taken ELSE latest
  /\ job' = [Idle EXCEPT !.pc = "pruning"]
  /\ UNCHANGED <<who, clock, taken, setBack>>

DoBackup == who = "daemon" /\ Rename
BackupTenant == who = "server" /\ Rename

\* Mutant: the order of the names is taken the wrong way round.
BackupsToPrune_Newest == {b \in data : Cardinality({o \in data : o.ts < b.ts}) >= Keep}

\* All but the newest Keep by the time in their names.
BackupsToPrune == {b \in data : Cardinality({o \in data : o.ts > b.ts}) >= Keep}
TempsToPrune == IF who = "server" THEN temps ELSE {}

\* The directory is listed once; the server's prune takes old temporary files too.
ListBackups ==
  /\ job.pc = "pruning"
  /\ job' = [pc |-> "removing", prune |-> BackupsToPrune]
  /\ temps' = temps \ TempsToPrune
  /\ UNCHANGED <<who, clock, data, taken, setBack, latest>>

\* One file after the other; a failure does not stop the rest.
PruneBackups ==
  /\ job.pc = "removing"
  /\ IF job.prune = {} THEN job' = Idle /\ UNCHANGED data
     ELSE \E b \in job.prune : /\ job' = [job EXCEPT !.prune = @ \ {b}]
                               /\ data' \in {data, data \ {b}}
  /\ UNCHANGED <<who, clock, temps, taken, setBack, latest>>

Dies ==
  /\ job # Idle /\ job' = Idle
  /\ UNCHANGED <<who, clock, data, temps, taken, setBack, latest>>

Next == \/ Tick \/ WriteBackupFile \/ BackupFails \/ DoBackup \/ BackupTenant
        \/ ListBackups \/ PruneBackups \/ Dies

Spec == Init /\ [][Next]_bvars

\* The last backup that was not named behind another one stays, whatever dies or
\* fails between the rename and the end of a prune and however the clock moves.
LatestKept ==
  latest # 0 => \E b \in data : b.of >= latest
================================================================================
