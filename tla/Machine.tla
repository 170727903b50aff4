-------------------------------- MODULE Machine --------------------------------
(***************************************************************************)
(* The parts of one machine that do not share state with the history: what *)
(* yore writes into agents' configurations, what their hooks record, the   *)
(* daemon's life, its indexes and its backups.  A behaviour plays one of   *)
(* them; the others stay as they start.                                    *)
(***************************************************************************)
EXTENDS Naturals, Sequences, FiniteSets

CONSTANTS
  Parts,                                                         \* those to play
  Agents, Bins, Within, Runs, MaxRun, MaxSave,                   \* AgentConfig
  Agent, Id, NoId, Text, MaxPrompt, MaxTool,                     \* AgentCapture
  Client, Op, MaxDaemon, MaxReq, MaxMeddle,                      \* DaemonLife
  Row, SessionOf, AutoRow, Prompt, Foreign, PromptOf,            \* RecordIndexes
  RemoteKeep, MaxOps,
  Keep, MaxTime, MaxBackup, MaxSetBack                           \* Backups

VARIABLES part,
  agent, file, run, runs, saves, owned, lost,
  asked, turn, tools, promptFile, startFile, hooks, prompts, records, untraced, overtaken, blurred,
  daemons, home, path, client, reqs, applied, answer, meddled,
  stream, folded, batch, deleting, held, cached, hydrated, tagged, known, missed,
  who, clock, data, temps, taken, job, setBack, latest

Config == INSTANCE AgentConfig
Capture == INSTANCE AgentCapture
Life == INSTANCE DaemonLife
Index == INSTANCE RecordIndexes
Backup == INSTANCE Backups

ASSUME ConfigAssumption ==
  Config!AgentsAssumption /\ Config!BinsAssumption /\ Config!BoundsAssumption
ASSUME CaptureAssumption == Capture!CaptureAssumption
ASSUME LifeAssumption == Life!LifeAssumption
ASSUME IndexAssumption == Index!IndexAssumption
ASSUME BackupAssumption == Backup!BackupAssumption

configVars == <<agent, file, run, runs, saves, owned, lost>>
captureVars == <<asked, turn, tools, promptFile, startFile, hooks, prompts, records, untraced,
                 overtaken, blurred>>
lifeVars == <<daemons, home, path, client, reqs, applied, answer, meddled>>
indexVars == <<stream, folded, batch, deleting, held, cached, hydrated, tagged, known, missed>>
backupVars == <<who, clock, data, temps, taken, job, setBack, latest>>
vars == <<part, configVars, captureVars, lifeVars, indexVars, backupVars>>

Init ==
  /\ part \in Parts
  /\ Config!Init /\ Capture!Init /\ Life!Init /\ Index!Init /\ Backup!Init

Next ==
  \/ part = "config" /\ Config!Next
     /\ UNCHANGED <<part, captureVars, lifeVars, indexVars, backupVars>>
  \/ part = "capture" /\ Capture!Next
     /\ UNCHANGED <<part, configVars, lifeVars, indexVars, backupVars>>
  \/ part = "life" /\ Life!Next
     /\ UNCHANGED <<part, configVars, captureVars, indexVars, backupVars>>
  \/ part = "index" /\ Index!Next
     /\ UNCHANGED <<part, configVars, captureVars, lifeVars, backupVars>>
  \/ part = "backup" /\ Backup!Next
     /\ UNCHANGED <<part, configVars, captureVars, lifeVars, indexVars>>

Spec == Init /\ [][Next]_vars

\* The code does not keep these two (README.md, section 6): no run checks them.
OwnAnswer == Life!OwnAnswer
DeletedPromptsGone == Index!DeletedPromptsGone

OthersKept == Config!OthersKept
LeavesNothing == Config!LeavesNothing
RecordsOwnTurn == Capture!RecordsOwnTurn
Reachable == Life!Reachable
Exchanges == Life!Exchanges
IndexesSettle == Index!IndexesSettle
LatestKept == Backup!LatestKept
================================================================================
