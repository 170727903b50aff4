--------------------------------- MODULE Spool ---------------------------------
(***************************************************************************)
(* The spool directory (internal/spool): `yore record` processes write one *)
(* file each under a .tmp name, sync it and rename it to .jsonl; the one   *)
(* process that has the store open drains the .jsonl files and sweeps old  *)
(* .tmp files.  Processes are killed at any step, a suspended writer may   *)
(* resume after its file is old enough to be swept, and the power may fail.*)
(*                                                                         *)
(* The directory is never synced, so a file's name reaches the disk when   *)
(* the kernel writes it back, not when open, rename or unlink returns.     *)
(***************************************************************************)
CONSTANTS
    Writers,        \* the calls of Append, each with its own file name
    NoFile,
    MayLosePower

ASSUME SpoolAssumption == NoFile \notin Writers /\ MayLosePower \in BOOLEAN

VARIABLES
    file,           \* the name under which each writer's file is found
    line,           \* how much of its record the file holds
    wpc,            \* where each call of Append is
    synced,         \* the files whose content is on the disk
    onDisk,         \* the name under which each file would be found after power loss
    old,            \* the .tmp files older than tmpTTL
    dpc, todo, cur, \* Drain: where it is, the names it globbed, the file in hand
    delivered,      \* the records passed to fn
    torn,           \* history variable: files consumed that held no whole record
    unread,         \* history variable: files consumed whose read failed
    unflushed       \* history variable: published files whose name the power loss took

vars == <<file, line, wpc, synced, onDisk, old, dpc, todo, cur, delivered, torn, unread, unflushed>>
disk == <<synced, onDisk>>
drain == <<dpc, todo, cur>>
history == <<delivered, torn, unread, unflushed>>

Names == {"none", "tmp", "jsonl"}

Lines == {"empty", "part", "whole"}

Named(n) == {w \in Writers : file[w] = n}

Init ==
    /\ file = [w \in Writers |-> "none"] /\ onDisk = file
    /\ line = [w \in Writers |-> "empty"]
    /\ wpc = [w \in Writers |-> "create"]
    /\ synced = {} /\ old = {}
    /\ dpc = "idle" /\ todo = {} /\ cur = NoFile
    /\ delivered = {} /\ torn = {} /\ unread = {} /\ unflushed = {}

-------------------------------------------------------------------------------
(* Append *)

\* Mutant: the file is created under the name that Drain collects.
Create_InPlace(w) ==
    /\ wpc[w] = "create"
    /\ file' = [file EXCEPT ![w] = "jsonl"]
    /\ wpc' = [wpc EXCEPT ![w] = "write"]
    /\ UNCHANGED <<line, disk, old, drain, history>>

\* OpenFile with O_EXCL under the .tmp name.
Create(w) ==
    /\ wpc[w] = "create"
    /\ file' = [file EXCEPT ![w] = "tmp"]
    /\ wpc' = [wpc EXCEPT ![w] = "write"]
    /\ UNCHANGED <<line, disk, old, drain, history>>

\* The write may reach the file in parts; each renews its modification time.
Write(w, l) ==
    /\ wpc[w] = "write"
    /\ line' = [line EXCEPT ![w] = l]
    /\ wpc' = [wpc EXCEPT ![w] = IF l = "whole" THEN "sync" ELSE "write"]
    /\ old' = old \ {w}
    /\ UNCHANGED <<file, disk, drain, history>>

Sync(w) ==
    /\ wpc[w] = "sync"
    /\ synced' = synced \cup {w}
    /\ wpc' = [wpc EXCEPT ![w] = "rename"]
    /\ UNCHANGED <<file, line, onDisk, old, drain, history>>

\* Mutant: the error of a rename whose file was swept is ignored.
Rename_IgnoresError(w) ==
    /\ wpc[w] = "rename"
    /\ wpc' = [wpc EXCEPT ![w] = "ok"]
    /\ file' = IF file[w] = "tmp" THEN [file EXCEPT ![w] = "jsonl"] ELSE file
    /\ UNCHANGED <<line, disk, old, drain, history>>

\* Append returns nil.
Rename(w) ==
    /\ wpc[w] = "rename" /\ file[w] = "tmp"
    /\ file' = [file EXCEPT ![w] = "jsonl"]
    /\ wpc' = [wpc EXCEPT ![w] = "ok"]
    /\ UNCHANGED <<line, disk, old, drain, history>>

\* A step of Append fails, the rename also because the file was swept.  The
\* .tmp file is removed, unless that fails too; its error is ignored.
Fail(w) ==
    /\ wpc[w] \in {"create", "write", "sync", "rename"}
    /\ wpc' = [wpc EXCEPT ![w] = "failed"]
    /\ file' \in {file, [file EXCEPT ![w] = "none"]}
    /\ UNCHANGED <<line, disk, old, drain, history>>

\* The process is killed.
Die(w) ==
    /\ wpc[w] \in {"create", "write", "sync", "rename"}
    /\ wpc' = [wpc EXCEPT ![w] = "failed"]
    /\ UNCHANGED <<file, line, disk, old, drain, history>>

-------------------------------------------------------------------------------
(* Drain and sweepTmp *)

Glob ==
    /\ dpc = "idle"
    /\ dpc' = "files" /\ todo' = Named("jsonl")
    /\ UNCHANGED <<file, line, wpc, disk, old, cur, history>>

\* Mutant: a file is removed without being read.
ReadFile_Skips(w) ==
    /\ dpc = "files" /\ w \in todo
    /\ todo' = todo \ {w} /\ cur' = w /\ dpc' = "unlink"
    /\ UNCHANGED <<file, line, wpc, disk, old, history>>

\* drainFile: a whole line is delivered, a torn one dropped.  Any error of the
\* read is taken for a torn tail as well, so Drain goes on to unlink the file.
ReadFile(w) ==
    /\ dpc = "files" /\ w \in todo
    /\ todo' = todo \ {w} /\ cur' = w /\ dpc' = "unlink"
    /\ \/ line[w] = "whole" /\ delivered' = delivered \cup {w} /\ UNCHANGED <<torn, unread>>
       \/ line[w] # "whole" /\ torn' = torn \cup {w} /\ UNCHANGED <<delivered, unread>>
       \/ unread' = unread \cup {w} /\ UNCHANGED <<delivered, torn>>
    /\ UNCHANGED <<file, line, wpc, disk, old, unflushed>>

Unlink ==
    /\ dpc = "unlink"
    /\ file' = [file EXCEPT ![cur] = "none"]
    /\ dpc' = "files" /\ cur' = NoFile
    /\ UNCHANGED <<line, wpc, disk, old, todo, history>>

\* The files are done: sweepTmp globs the .tmp names.
StartSweep ==
    /\ dpc = "files" /\ todo = {}
    /\ dpc' = "sweep" /\ todo' = Named("tmp")
    /\ UNCHANGED <<file, line, wpc, disk, old, cur, history>>

\* Stat: an old file is going to be removed, any other is passed over.
SweepStat(w) ==
    /\ dpc = "sweep" /\ w \in todo
    /\ todo' = todo \ {w}
    /\ \/ file[w] = "tmp" /\ w \in old /\ cur' = w /\ dpc' = "remove"
       \/ ~(file[w] = "tmp" /\ w \in old) /\ UNCHANGED <<cur, dpc>>
    /\ UNCHANGED <<file, line, wpc, disk, old, history>>

\* The .tmp name is removed if there still is one.
SweepRemove ==
    /\ dpc = "remove"
    /\ file' = IF file[cur] = "tmp" THEN [file EXCEPT ![cur] = "none"] ELSE file
    /\ dpc' = "sweep" /\ cur' = NoFile
    /\ UNCHANGED <<line, wpc, disk, old, todo, history>>

\* Drain returns, is stopped by an error of open or unlink, or is killed.
StopDrain ==
    /\ dpc # "idle"
    /\ dpc' = "idle" /\ todo' = {} /\ cur' = NoFile
    /\ UNCHANGED <<file, line, wpc, disk, old, history>>

-------------------------------------------------------------------------------
(* The file system *)

\* tmpTTL passes since a .tmp file was last written, its writer suspended or dead.
Age(w) ==
    /\ file[w] = "tmp" /\ w \notin old
    /\ old' = old \cup {w}
    /\ UNCHANGED <<file, line, wpc, disk, drain, history>>

\* The kernel writes a directory entry back.
Flush(w) ==
    /\ onDisk' = [onDisk EXCEPT ![w] = file[w]]
    /\ UNCHANGED <<file, line, wpc, synced, old, drain, history>>

\* Every process is gone, the names are those on the disk, and what was not
\* synced may be there in part.
LosePower ==
    /\ MayLosePower
    /\ file' = onDisk
    /\ line' \in [Writers -> Lines] /\ \A w \in synced : line'[w] = line[w]
    /\ wpc' = [w \in Writers |-> IF wpc[w] = "ok" THEN "ok" ELSE "failed"]
    /\ unflushed' = unflushed \cup {w \in Named("jsonl") : onDisk[w] # "jsonl"}
    /\ dpc' = "idle" /\ todo' = {} /\ cur' = NoFile
    /\ UNCHANGED <<disk, old, delivered, torn, unread>>

AppendStep(w) ==
    \/ Create(w)
    \/ \E l \in Lines : Write(w, l)
    \/ Sync(w) \/ Rename(w) \/ Fail(w) \/ Die(w)

DrainStep ==
    \/ Glob
    \/ \E w \in Writers : ReadFile(w) \/ SweepStat(w)
    \/ Unlink \/ StartSweep \/ SweepRemove \/ StopDrain

Next ==
    \/ \E w \in Writers : AppendStep(w) \/ Age(w) \/ Flush(w)
    \/ DrainStep
    \/ LosePower

Spec == Init /\ [][Next]_vars

-------------------------------------------------------------------------------
(* Properties *)

\* Every variable has its type, and Drain has a file in hand exactly when it is
\* about to remove one.
TypeOK ==
    /\ file \in [Writers -> Names] /\ onDisk \in [Writers -> Names]
    /\ line \in [Writers -> Lines]
    /\ wpc \in [Writers -> {"create", "write", "sync", "rename", "ok", "failed"}]
    /\ synced \subseteq Writers /\ old \subseteq Writers
    /\ dpc \in {"idle", "files", "unlink", "sweep", "remove"} /\ todo \subseteq Writers
    /\ IF dpc \in {"unlink", "remove"} THEN cur \in Writers ELSE cur = NoFile
    /\ delivered \subseteq Writers /\ torn \subseteq Writers
    /\ unread \subseteq Writers /\ unflushed \subseteq Writers

\* Drain's comment: "a file [Append] wrote cannot be torn".  No drain comes to
\* the end of a file that does not hold its whole record, whoever died and
\* whenever the power failed.
NeverTorn == torn = {}

\* A record whose Append returned nil is in the spool or was delivered, unless
\* the power failed before its new name had been written back, or the disk
\* failed the one read of its file that a drain made.
AckedSurvives ==
    \A w \in Writers : wpc[w] = "ok" =>
        file[w] = "jsonl" \/ w \in delivered \/ w \in unflushed \/ w \in unread

\* Sweeping, dying writers and failing steps do not show: the spool implements
\* one that publishes in one step and removes only what was delivered or could
\* not be read.
Promise ==
    INSTANCE SpoolPromise WITH
        published <- {w \in Writers : wpc[w] = "ok"},
        spooled <- Named("jsonl"),
        durable <- {w \in Writers : onDisk[w] = "jsonl"}

KeepsPromise == Promise!Spec
===============================================================================
