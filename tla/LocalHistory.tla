----------------------------- MODULE LocalHistory -----------------------------
(***************************************************************************)
(* How a command gets from `yore record` into the searchable corpus of one *)
(* machine, and how it leaves again: the spool directory, the store, and   *)
(* the daemon's ingest loop, delete handlers, warm snapshot, shutdown,     *)
(* crash and restart.                                                      *)
(*                                                                         *)
(* One action is one step no other goroutine or process can see inside: a  *)
(* file rename or unlink, a bbolt transaction, or a section under s.mu.    *)
(* The daemon's goroutines interleave at these steps.  Everything the      *)
(* daemon holds in RAM is lost by Crash; files, store and snapshot stay.   *)
(***************************************************************************)
EXTENDS LocalStore, FiniteSets

CONSTANTS
    Files,      \* spool file names in name order (bounds the calls of spool.Append)
    Imports,    \* ids that only `yore import` writes, with the daemon down
    Foreign,    \* ids of other hosts' commands, which a client may also delete
    Conns,      \* client connections whose handler may run OpDelete
    MaxDeletes, \* bounds the tombstones written
    Faulty,     \* whether reads, unlinks and transactions may fail
    NoSnap      \* no usable corpus.snap

ASSUME HistoryAssumption ==
    /\ Files \subseteq Nat
    /\ Imports \subseteq Ids /\ Foreign \subseteq Ids /\ Imports \cap Foreign = {}
    /\ MaxDeletes \in Nat
    /\ Faulty \in BOOLEAN
    /\ NoSnap \notin [lastSeq : Nat, recs : SUBSET Nat]

VARIABLES
    content,  \* the id written to each spool file so far, NoId if unused
    spool,    \* the .jsonl files on disk
    hist,     \* the store's committed history
    snap,     \* corpus.snap
    phase,    \* "down", "starting", "up", "stopping"
    wake,     \* the buffered(1) wake channel
    armed,    \* whether the 75ms straggler timer runs
    ipc,      \* where the ingest goroutine is (see IngestSteps)
    todo,     \* the globbed files Drain has not reached
    drained,  \* the files Drain has delivered and unlinked, in order
    applied,  \* how many of them the open transaction has appended
    work,     \* the open transaction's copy of the history
    from,     \* the lastSeq that refreshCorpus read
    rows,     \* the rows that refreshCorpus read, keyed by seq
    corpus,   \* the seqs of the corpus's records
    lastSeq,  \* the highest seq folded in
    deleting, \* per connection: the id whose tombstone is committed but whose
              \* row has not been dropped from the corpus yet, NoId otherwise
    shown,    \* ids that a query answer may have shown to some client
    lost,     \* history variable: files unlinked by a drain that never committed,
              \* or could not read them
    skipped,  \* history variable: seqs that deleteRecord moved lastSeq past
    unread,   \* history variable: seqs that this daemon's failed reads would have folded
    stale     \* history variable: deleted rows that a snapshot kept

disk == <<content, spool, hist, snap>>
ingest == <<ipc, todo, drained, applied, work, from, rows>>
ram == <<corpus, lastSeq>>
history == <<lost, skipped, unread, stale>>
vars == <<content, spool, hist, snap, phase, wake, armed, ipc, todo, drained,
          applied, work, from, rows, corpus, lastSeq, deleting, shown,
          lost, skipped, unread, stale>>

IngestSteps == {"idle", "drain", "append", "refresh", "since", "fold"}

DrainedSet == {drained[k] : k \in DOMAIN drained}

NoRows == [k \in {} |-> 0]

IdsOf(seqs) == {hist[n].id : n \in seqs}

Alive == phase # "down"

-------------------------------------------------------------------------------
(* Producers: the shell hook, OpRecord, the importer *)

Published(i) == \E f \in Files : content[f] = i

\* spool.Append: the rename that publishes one record (Spool shows why one
\* atomic step is enough).  A command or a prompt is recorded once.  A tag op
\* sent by OpRecord may be sent again on a fresh connection when the answer is
\* lost, which writes the same id to a second file.
SpoolAppend(f, i) ==
    /\ content[f] = NoId
    /\ i \notin Imports \cup Foreign
    /\ i \in Commands => ~Published(i)
    /\ content' = [content EXCEPT ![f] = i]
    /\ spool' = spool \cup {f}
    /\ UNCHANGED <<hist, snap, phase, wake, armed, ingest, ram, deleting, shown, history>>

\* OpPing and the tail of OpRecord: a non-blocking send on a buffered channel.
WakeIngest ==
    /\ phase = "up"
    /\ wake' = TRUE
    /\ UNCHANGED <<disk, phase, armed, ingest, ram, deleting, shown, history>>

\* `yore import` holds the store lock, so no daemon runs.  It appends whole
\* batches; one row at a time shows every prefix a killed import can leave.
Import(i) ==
    /\ phase = "down"
    /\ i \in Imports
    /\ hist' = AppendOne(hist, RecordRow(i))
    /\ UNCHANGED <<content, spool, snap, phase, wake, armed, ingest, ram, deleting, shown, history>>

-------------------------------------------------------------------------------
(* The ingest goroutine *)

\* Mutant: the wake is consumed without a timer to act on it.
TakeWake_NoTimer ==
    /\ phase = "up" /\ ipc = "idle" /\ wake
    /\ wake' = FALSE
    /\ UNCHANGED <<disk, phase, armed, ingest, ram, deleting, shown, history>>

\* ingestLoop takes a wake; a timer that already runs covers it.
TakeWake ==
    /\ phase = "up" /\ ipc = "idle" /\ wake
    /\ wake' = FALSE
    /\ armed' = TRUE
    /\ UNCHANGED <<disk, phase, ingest, ram, deleting, shown, history>>

\* The timer fires: IngestSpool globs the spool directory.  The select may
\* still pick the timer after shutdown closed the done channel.
StartIngest ==
    /\ phase \in {"up", "stopping"} /\ ipc = "idle" /\ armed
    /\ armed' = FALSE
    /\ ipc' = "drain"
    /\ todo' = spool
    /\ UNCHANGED <<disk, phase, wake, drained, applied, work, from, rows, ram, deleting, shown, history>>

\* Mutant: all globbed files are unlinked with the first one delivered.
DrainFile_UnlinksAll ==
    /\ ipc = "drain"
    /\ \E f \in todo :
        /\ \A g \in todo : f <= g
        /\ todo' = {}
        /\ drained' = Append(drained, f)
        /\ spool' = spool \ todo
    /\ UNCHANGED <<content, hist, snap, phase, wake, armed, ipc, applied, work, from, rows,
                   ram, deleting, shown, history>>

\* Drain reads the next file in name order, delivers its record to a slice in
\* RAM and unlinks it.  A read that fails is taken for a torn tail: the file is
\* unlinked all the same.  A crash between the read and the unlink is a crash
\* before both.
DrainFile ==
    /\ ipc = "drain"
    /\ \E f \in todo :
        /\ \A g \in todo : f <= g
        /\ todo' = todo \ {f}
        /\ \/ drained' = Append(drained, f) /\ lost' = lost
           \/ Faulty /\ drained' = drained /\ lost' = lost \cup {f}
        /\ spool' = spool \ {f}
    /\ UNCHANGED <<content, hist, snap, phase, wake, armed, ipc, applied, work, from, rows,
                   ram, deleting, shown, skipped, unread, stale>>

\* A file cannot be opened or unlinked, or the transaction fails: IngestSpool
\* returns the error and the drained slice is garbage.
IngestFails ==
    /\ Faulty
    /\ \/ ipc = "drain" /\ todo # {}
       \/ ipc = "append"
    /\ lost' = lost \cup DrainedSet
    /\ ipc' = "idle" /\ todo' = {} /\ drained' = << >> /\ applied' = 0 /\ work' = << >>
    /\ UNCHANGED <<disk, phase, wake, armed, from, rows, ram, deleting, shown, skipped, unread, stale>>

\* Nothing was drained: done.  Otherwise AppendBatch opens the one write
\* transaction.
DrainDone ==
    /\ ipc = "drain" /\ todo = {}
    /\ IF drained = << >> THEN ipc' = "idle" /\ work' = work
                          ELSE ipc' = "append" /\ work' = hist
    /\ UNCHANGED <<disk, phase, wake, armed, todo, drained, applied, from, rows, ram,
                   deleting, shown, history>>

AppendNext ==
    /\ ipc = "append" /\ applied < Len(drained)
    /\ work' = AppendOne(work, RecordRow(content[drained[applied + 1]]))
    /\ applied' = applied + 1
    /\ UNCHANGED <<disk, phase, wake, armed, ipc, todo, drained, from, rows, ram,
                   deleting, shown, history>>

\* Mutant: the corpus is never refreshed.
Commit_NoRefresh ==
    /\ ipc = "append" /\ applied = Len(drained)
    /\ hist' = work
    /\ ipc' = "idle"
    /\ drained' = << >> /\ applied' = 0 /\ work' = << >>
    /\ UNCHANGED <<content, spool, snap, phase, wake, armed, todo, from, rows, ram,
                   deleting, shown, history>>

\* The transaction commits.  At startup, and when every record was a
\* duplicate, the corpus is not refreshed.
Commit ==
    /\ ipc = "append" /\ applied = Len(drained)
    /\ hist' = work
    /\ ipc' = IF phase = "starting" \/ Len(work) = Len(hist) THEN "idle" ELSE "refresh"
    /\ drained' = << >> /\ applied' = 0 /\ work' = << >>
    /\ UNCHANGED <<content, spool, snap, phase, wake, armed, todo, from, rows, ram,
                   deleting, shown, history>>

\* refreshCorpus reads s.lastSeq without the lock, then the store.
ReadLastSeq ==
    /\ ipc = "refresh"
    /\ from' = lastSeq
    /\ ipc' = "since"
    /\ UNCHANGED <<disk, phase, wake, armed, todo, drained, applied, work, rows, ram,
                   deleting, shown, history>>

\* The read fails: refreshCorpus returns, and the rows wait for the next batch
\* that has anything new in it.
ReadFails ==
    /\ Faulty
    /\ ipc = "since"
    /\ unread' = unread \cup (from + 1)..Len(hist)
    /\ ipc' = "idle"
    /\ from' = 0
    /\ UNCHANGED <<disk, phase, wake, armed, todo, drained, applied, work, rows, ram,
                   deleting, shown, lost, skipped, stale>>

ReadRows ==
    /\ ipc = "since"
    /\ rows' = Since(hist, from)
    /\ ipc' = IF from < Len(hist) THEN "fold" ELSE "idle"
    /\ from' = 0
    /\ UNCHANGED <<disk, phase, wake, armed, todo, drained, applied, work, ram,
                   deleting, shown, history>>

\* Mutant: tombstones in the rows are ignored.
Deleted_Ignored(rs) == {}

\* The ids that a run of rows tombstones.
Deleted(rs) == {rs[k].target : k \in DOMAIN rs} \ {NoId}

\* What foldRows makes of corpus c and lastSeq n when handed rs.  Records are
\* appended in seq order, so a set of seqs stands for the slice as long as the
\* rows lie above it (FoldsAbove).
FoldCorpus(c, rs) ==
    {k \in c : hist[k].id \notin Deleted(rs)}
      \cup {k \in DOMAIN rs : IsCommand(rs[k]) /\ rs[k].id \notin Deleted(rs)}

FoldLastSeq(n, rs) ==
    CHOOSE m \in {n} \cup DOMAIN rs : \A k \in {n} \cup DOMAIN rs : k <= m

FoldRows ==
    /\ ipc = "fold"
    /\ corpus' = FoldCorpus(corpus, rows)
    /\ lastSeq' = FoldLastSeq(lastSeq, rows)
    /\ shown' = shown \cup IdsOf(corpus')
    /\ rows' = NoRows
    /\ ipc' = "idle"
    /\ UNCHANGED <<disk, phase, wake, armed, todo, drained, applied, work, from, deleting, history>>

-------------------------------------------------------------------------------
(* deleteRecord, on a connection's goroutine *)

Tombstones == {n \in DOMAIN hist : hist[n].target # NoId}

\* store.Append needs bbolt's write lock, which an open AppendBatch holds.  A
\* client names an id it was shown; it may repeat a delete whose answer it lost.
DeleteAppend(c, i) ==
    /\ phase \in {"up", "stopping"}
    /\ ipc # "append"
    /\ deleting[c] = NoId
    /\ i \in shown
    /\ Cardinality(Tombstones) < MaxDeletes
    /\ hist' = AppendOne(hist, Tombstone(i))
    /\ deleting' = [deleting EXCEPT ![c] = i]
    /\ UNCHANGED <<content, spool, snap, phase, wake, armed, ingest, ram, shown, history>>

\* Records the ingest goroutine has committed and not folded in yet.
Unfolded == {n \in (lastSeq + 1)..Len(hist) : hist[n].id # NoId}

\* Mutant: the handler never returns.
DeleteDrop_Hangs(c) ==
    /\ deleting[c] # NoId
    /\ lastSeq' = LastSeq(hist)
    /\ corpus' = {n \in corpus : hist[n].id # deleting[c]}
    /\ skipped' = skipped \cup Unfolded
    /\ UNCHANGED <<disk, phase, wake, armed, ingest, deleting, shown, lost, unread, stale>>

\* Under s.mu: account for the tombstone's seq, unless it cannot be read, then
\* rebuild the corpus.
DeleteDrop(c) ==
    /\ deleting[c] # NoId
    /\ \/ /\ lastSeq' = IF Len(hist) > lastSeq THEN LastSeq(hist) ELSE lastSeq
          /\ skipped' = skipped \cup Unfolded
       \/ Faulty /\ UNCHANGED <<lastSeq, skipped>>
    /\ corpus' = {n \in corpus : hist[n].id # deleting[c]}
    /\ deleting' = [deleting EXCEPT ![c] = NoId]
    /\ UNCHANGED <<disk, phase, wake, armed, ingest, shown, lost, unread, stale>>

-------------------------------------------------------------------------------
(* Snapshot, start, stop, crash *)

SnapshotOfCorpus == [lastSeq |-> lastSeq, recs |-> corpus]

\* Deleted rows the corpus still holds although lastSeq is past the tombstone.
Overtaken == {n \in corpus : \E m \in DOMAIN hist : m <= lastSeq /\ hist[m].target = hist[n].id}

\* snapshotNow: corpus and lastSeq are copied under one read lock and written
\* by rename; a crash in between is a crash before.
TakeSnapshot ==
    /\ phase \in {"up", "stopping"}
    /\ snap' = SnapshotOfCorpus
    /\ stale' = stale \cup Overtaken
    /\ UNCHANGED <<content, spool, hist, phase, wake, armed, ingest, ram, deleting, shown, lost, skipped, unread>>

\* The snapshot file is deleted, or does not decode.
SnapshotUnusable ==
    /\ phase = "down" /\ snap # NoSnap
    /\ snap' = NoSnap
    /\ UNCHANGED <<content, spool, hist, phase, wake, armed, ingest, ram, deleting, shown, history>>

\* Run opens the store, listens, and drains the spool once before serving.
Start ==
    /\ phase = "down"
    /\ phase' = "starting"
    /\ ipc' = "drain"
    /\ todo' = spool
    /\ UNCHANGED <<disk, wake, armed, drained, applied, work, from, rows, ram, deleting, shown, history>>

\* loadCorpus: the snapshot with the store's tail folded in, or a full scan.
LoadCorpus ==
    /\ phase = "starting" /\ ipc = "idle"
    /\ IF snap # NoSnap /\ snap.lastSeq <= LastSeq(hist)
       THEN LET tail == Since(hist, snap.lastSeq) IN
            /\ corpus' = FoldCorpus(snap.recs, tail)
            /\ lastSeq' = FoldLastSeq(snap.lastSeq, tail)
       ELSE corpus' = All(hist) /\ lastSeq' = LastSeq(hist)
    /\ shown' = shown \cup IdsOf(corpus')
    /\ phase' = "up"
    /\ UNCHANGED <<disk, wake, armed, ingest, deleting, history>>

\* OpShutdown, a signal, the idle timer or a lost socket.
Stop ==
    /\ phase = "up"
    /\ phase' = "stopping"
    /\ UNCHANGED <<disk, wake, armed, ingest, ram, deleting, shown, history>>

RamLost ==
    /\ phase' = "down"
    /\ wake' = FALSE /\ armed' = FALSE
    /\ ipc' = "idle" /\ todo' = {} /\ drained' = << >> /\ applied' = 0 /\ work' = << >>
    /\ from' = 0 /\ rows' = NoRows
    /\ corpus' = {} /\ lastSeq' = 0
    /\ deleting' = [c \in Conns |-> NoId]
    /\ unread' = {}

\* shutdown: once every goroutine has returned, write the last snapshot (its
\* failure is only logged) and close the store.
Finish ==
    /\ phase = "stopping" /\ ipc = "idle" /\ \A c \in Conns : deleting[c] = NoId
    /\ \/ snap' = SnapshotOfCorpus /\ stale' = stale \cup Overtaken
       \/ Faulty /\ UNCHANGED <<snap, stale>>
    /\ RamLost
    /\ UNCHANGED <<content, spool, hist, shown, lost, skipped>>

\* The daemon is killed; so is one whose start failed.
Crash ==
    /\ Alive
    /\ lost' = lost \cup DrainedSet
    /\ RamLost
    /\ UNCHANGED <<disk, shown, skipped, stale>>

-------------------------------------------------------------------------------

Init ==
    /\ content = [f \in Files |-> NoId] /\ spool = {} /\ hist = << >> /\ snap = NoSnap
    /\ phase = "down" /\ wake = FALSE /\ armed = FALSE
    /\ ipc = "idle" /\ todo = {} /\ drained = << >> /\ applied = 0 /\ work = << >>
    /\ from = 0 /\ rows = NoRows
    /\ corpus = {} /\ lastSeq = 0
    /\ deleting = [c \in Conns |-> NoId] /\ shown = Foreign
    /\ lost = {} /\ skipped = {} /\ unread = {} /\ stale = {}

IngestStep ==
    \/ TakeWake \/ StartIngest \/ DrainFile \/ DrainDone \/ AppendNext \/ Commit
    \/ ReadLastSeq \/ ReadRows \/ FoldRows

Next ==
    \/ \E f \in Files, i \in Ids : SpoolAppend(f, i)
    \/ WakeIngest
    \/ \E i \in Imports : Import(i)
    \/ IngestStep
    \/ IngestFails \/ ReadFails
    \/ \E c \in Conns, i \in Ids : DeleteAppend(c, i)
    \/ \E c \in Conns : DeleteDrop(c)
    \/ TakeSnapshot \/ SnapshotUnusable
    \/ Start \/ LoadCorpus \/ Stop \/ Finish \/ Crash

Spec == Init /\ [][Next]_vars

-------------------------------------------------------------------------------
(* Properties *)

Serving == phase \in {"up", "stopping"}

TypeOK ==
    /\ content \in [Files -> Ids \cup {NoId}] /\ spool \subseteq Files
    /\ hist \in Seq(Row) /\ work \in Seq(Row)
    /\ snap \in [lastSeq : Nat, recs : SUBSET Nat] \cup {NoSnap}
    /\ phase \in {"down", "starting", "up", "stopping"}
    /\ wake \in BOOLEAN /\ armed \in BOOLEAN
    /\ ipc \in IngestSteps /\ todo \subseteq Files /\ drained \in Seq(Files) /\ applied \in Nat
    /\ from \in Nat /\ DOMAIN rows \subseteq Nat /\ \A k \in DOMAIN rows : rows[k] \in Row
    /\ corpus \subseteq Nat /\ lastSeq \in Nat
    /\ deleting \in [Conns -> Ids \cup {NoId}] /\ shown \subseteq Ids
    /\ lost \subseteq Files /\ skipped \subseteq Nat /\ unread \subseteq Nat /\ stale \subseteq Nat

\* Retried submissions, re-imports and re-drained files never store a record
\* twice (store.appendOne: "A record whose ID is already indexed is a no-op").
StoredOnce ==
    \A m, n \in DOMAIN hist : hist[m].id = hist[n].id /\ hist[m].id # NoId => m = n

\* The live set this machine computes from its DeletedMs marks is the one
\* every other machine computes by replaying the raw stream it is sent.
ReplayAgrees == All(hist) = Replayed(hist)

\* Whatever is retried, re-imported, drained twice or interrupted, the stream says
\* each thing once, and a replay of it agrees with the marks.
StreamConsistent == StoredOnce /\ ReplayAgrees

\* A published record is on disk, in the running drain or in the store.  There
\* are two places it can vanish: when the drain's read of its file fails, and
\* between Drain's unlink and AppendBatch's commit.
LostOnlyInDrain ==
    \A f \in Files : content[f] # NoId =>
        f \in spool \cup DrainedSet \cup lost \/ Indexed(hist, content[f])

\* No crash, failed write or restart leaves corpus.snap ahead of the store:
\* loadCorpus's "should never happen" branch is dead.
SnapshotNotAhead == snap # NoSnap => snap.lastSeq <= LastSeq(hist)

\* The rows refreshCorpus is about to append lie above the whole corpus, so
\* the corpus stays in ascending seq without duplicates (daemon.go: "live
\* records in ascending seq"), however deletes and folds interleave.
FoldsAbove == ipc = "fold" => \A k \in DOMAIN rows, n \in corpus : n < k

\* Every live command is searchable or still on the ingest goroutine's way to
\* it, but for two: one that a delete moved lastSeq past, and one that a failed
\* read left above lastSeq, where the next read begins.
CorpusMissesOnlySkipped ==
    Serving => \A n \in All(hist) :
        \/ n \in corpus \cup skipped
        \/ n \in unread /\ n > lastSeq
        \/ ipc = "refresh" /\ n > lastSeq
        \/ ipc = "since" /\ n > from
        \/ ipc = "fold" /\ n \in DOMAIN rows

\* A deleted command is searchable only until its own delete request drops it;
\* a snapshot taken after another delete overtook it is the only exception.
CorpusShowsOnlyStale ==
    Serving => \A n \in corpus : hist[n].dead =>
        n \in stale \/ \E c \in Conns : deleting[c] = hist[n].id

\* Rows keep their seq and their identity and deletion is final: what was
\* uploaded up to a seq stays what is stored up to that seq.
HistoryAppendOnly ==
    [][\A n \in DOMAIN hist :
        /\ n \in DOMAIN hist'
        /\ hist'[n].id = hist[n].id /\ hist'[n].target = hist[n].target
        /\ hist[n].dead => hist'[n].dead]_hist

\* The store and the spool keep the promise of HistoryPromise: batches are
\* recorded as a whole and once, DeletedMs marks are exactly the deletions, and
\* no crash, retry or re-import makes a deleted command live again.
Promise == INSTANCE HistoryPromise WITH
    accepted <- Imports \cup ({content[f] : f \in Files} \ {NoId}),
    recorded <- IdsOf(DOMAIN hist) \ {NoId},
    deleted <- TombstonedIds(hist),
    live <- IdsOf(All(hist))

KeepsPromise == Promise!PromiseSpec

-------------------------------------------------------------------------------
(* Liveness, with Faulty = FALSE *)

\* The Go scheduler runs every goroutine that can take a step.  ingestLoop's
\* select picks at random among a pending wake and a fired timer, so wakes that
\* keep coming cannot keep the timer from being chosen: strong fairness.
Fairness ==
    /\ WF_vars(IngestStep) /\ SF_vars(StartIngest)
    /\ WF_vars(LoadCorpus) /\ WF_vars(Finish)
    /\ \A c \in Conns : WF_vars(DeleteDrop(c))

FairSpec == Spec /\ Fairness

\* A wake is never lost: every file on disk when the daemon is woken gets
\* drained, even if the wake arrives while a drain is under way or the timer
\* already runs (ingestLoop: "a drain in flight or already scheduled covers any
\* further wakes").
WakeIsHonoured ==
    \A f \in Files : (phase = "up" /\ wake /\ f \in spool) ~> (f \notin spool \/ phase # "up")

\* A live command of the store becomes searchable, unless a delete overtakes it.
CommandsBecomeSearchable ==
    \A n \in 1..(Cardinality(Files) + MaxDeletes) :
        (phase = "up" /\ n \in All(hist)) ~> (phase # "up" \/ n \in corpus \cup skipped \/ n \notin All(hist))

\* shutdown's wg.Wait returns whatever the ingest goroutine and the delete
\* handlers were doing: the daemon does not hang holding the store lock.
ShutdownCompletes == (phase = "stopping") ~> (phase = "down")

-------------------------------------------------------------------------------
(* What a comment of the code claims and the code does not do *)

\* snapshot.go on loadCorpus: "the store's rows above it are folded in (via
\* Since) so the corpus is always current".  Here: an idle daemon's corpus
\* holds every live command of the store.
CorpusCurrent == phase = "up" /\ ipc = "idle" => All(hist) \subseteq corpus
===============================================================================
