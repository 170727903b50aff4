# yore in TLA+

yore records shell commands, keeps them in a local database, makes them
searchable at once, and replicates them, end-to-end encrypted, to the user's
other machines through a server that sees ciphertext only.  This directory
models the parts of it whose correctness depends on the order in which
processes, goroutines, crashes and messages happen, checks them with TLC and
proves their central properties with TLAPS.  Source paths below are relative to
`src/internal/` unless they start with `src/`.

## 1. Inventory

How the parts interact:

    shell hook -> yore record -> spool file -> daemon (one per user) -> data.db
                                                 |  ^                    (bbolt)
    panel, browser, MCP -- unix socket ----------+  |
                                                 RAM corpus, corpus.snap
                                                 |
                                          sync loop <-- HTTPS --> server (bbolt)
                                                 |
                                            remote.db (ciphertext of other hosts)

| component | state | operations | what is hard | correct if |
|---|---|---|---|---|
| spool (`spool/`) | `.tmp` and `.jsonl` files | Append, Drain, sweepTmp | writers die or are suspended at any step, a drainer sweeps under them, power fails | nothing torn is consumed, an acknowledged record is delivered |
| local store (`store/`, `rec/`) | buckets history, ids, meta | AppendBatch, MarkDeleted, IngestSpool, Since, All, BackupTo | one write transaction at a time; idempotence by id; the spool is drained outside the transaction | each id once, deletion final, the raw stream tells every replayer the same |
| local pipeline (`daemon/daemon.go`, `snapshot.go`) | corpus, lastSeq, wake channel, timer, corpus.snap | OpRecord, OpPing, ingest, refresh, OpDelete, snapshot, start, shutdown | the ingest goroutine and delete handlers interleave; lastSeq and corpus are read and written at different moments; crashes between a transaction and the RAM update | every live command is searchable, no deleted one is, the snapshot never lies |
| matcher and filter (`match/`, `daemon/query.go`) | previous query, length and match set | Parse, Match, Filter.Apply | match sets are indices into a slice others rebuild; a query changes its folding while it is typed | the incremental answer is the full scan's |
| tag and prompt indexes (`daemon/tags.go`, `prompts.go`) | maps by record id and by session | fold, drop, snapshot, seed at start | the same op may be replayed, hosts' clocks order them, tombstones arrive before or after | the index is a function of the set of records |
| sync client (`syncer/syncer.go`, `client.go`) | upload watermark, cached keys | Push, PullCiphertext, OpenRecords | lost answers, halved batches, crash between acknowledgement and watermark, rotation under a cached key | every record reaches the server once, in order |
| remote cache (`daemon/remote.go`, `rstore/`) | cursors, remote corpus, latches, remote.db | syncOnce, hydrate, attach, doSync, revoked/accepted | two goroutines run cycles, a third path swaps the server; cache writes fail and are ignored; tombstones race their targets | what is searchable is what the current server sent, nothing twice, nothing skipped |
| sync server (`server/`, `wire/`) | groups, devices, wraps, DEKs, streams, tokens, nonces | the handlers of the sync API, each one or more bbolt transactions | handlers check in one transaction and write in another; retried requests; first-write-wins | one group, append-only streams, no request accepted twice |
| enrolment and rotation (`syncer/enroll.go`, `cli/enroll.go`) | recovery key, device and history keys | setup, approve, revoke, rotate, recover | several machines run multi-request procedures at once, any request's answer may be lost, the process may be killed | every active device can open the current history key, a revoked one cannot |
| request signing (`reqsign/`, `server` nonce cache) | nonces with expiry | Sign, Verify | retention against validity window, clock skew | a captured request is accepted once |
| daemon lifecycle (`daemon/client.go`, `log.go`) | socket, store lock, log | Dial, spawn, retry, idle exit, watchdog | two clients start a daemon at once, a stopping daemon accepts a connection, the socket is replaced | one daemon, a resumable request is answered once |
| backups (`daemon/backup.go`, `server/backup.go`) | dated files | back up, prune | a crash between write and prune | never fewer than one good backup |
| panel (`tui/search/`) | query, sequence number, rows, cursor | key, answer, delete | answers arrive after the query they belong to was replaced | rows shown belong to the query shown |
| browser (`tui/browse/`) | panes, pages, selections, pending deletes | key, mouse, answer, tick | pages, refreshes and deletes race | a deleted row does not come back, a page is never spliced into another list |
| importer (`importer/`, `cli/importcmd.go`) | none | parse, assign ids | metafied bytes, multi-line entries, re-import | a re-import is a no-op |
| cryptography (`cryptobox/`) | none | seal, open, wrap, unwrap | none here: stateless | round trips |
| redaction, risk (`redact/`, `risk/`) | none | classify, rewrite | none: stateless pattern tables | |
| command line (`cli/`), agent hooks, shell hooks, MCP, config, secret, TUI helpers | configuration files | one request each | none beyond the daemon's | |

`PROJECT.json` lists the same components with the files they consist of, and
the hazards at the lines where they bite.

## 2. Plan

In the order of how much of what yore promises depends on it; all of it but
point 8 and the end of point 9 is done.

1. **Local recording pipeline**: `LocalStore`, `LocalHistory`, with the abstract
   `HistoryPromise`.
2. **Search as you type**: `Match`, `SearchFilter`.
3. **Spool**: `Spool` at the grain of file-system calls, with the abstract
   `SpoolPromise`; it justifies the one-step `SpoolAppend` of `LocalHistory`.
4. **Sync**: `PushStream`, one machine's upload against a server that loses
   answers; `RemoteCache`, the download side with its cache on disk, revocation
   and the switch to another server.
5. **Enrolment and key rotation**: `Enrolment`, several machines running setup,
   approve, revoke, rotate and recover against the server's transactions.
6. **One machine beside its history**, composed in `Machine`: `DaemonLife`,
   `RecordIndexes`, `Backups`, `AgentConfig`, `AgentCapture`.
7. **What the user looks at**, composed in `Screens`: `Browser`, `Panes`,
   `DevicesView`, `Explorer`, `SearchPanel`.
8. **Replication**, several machines' stores and caches through one server, with
   the abstract specification "every machine searches the same set".
9. **Proofs**: points 1 to 7 are done.  Left is point 8, once it is written.

## 3. What is modelled

### `LocalStore`, `LocalHistory`: from the prompt to the corpus

`LocalStore` is the bbolt database as operators on one sequence of rows: a
row's position is its seq.  A row keeps the id, the id it tombstones and whether
`DeletedMs` is set; texts, times and hosts do not decide anything here.

`LocalHistory` composes four kinds of actors over it.

| actor | actions | code |
|---|---|---|
| producers | `SpoolAppend`, `WakeIngest`, `Import` | `cli/record.go` spoolRecord, OpRecord and OpPing in `daemon/daemon.go` dispatch, `cli/importcmd.go` |
| ingest goroutine | `TakeWake`, `StartIngest`, `DrainFile`, `IngestFails`, `DrainDone`, `AppendNext`, `Commit`, `ReadLastSeq`, `ReadRows`, `ReadFails`, `FoldRows` | ingestLoop, doIngest, refreshCorpus, foldRows; `store/store.go` IngestSpool, AppendBatch; `spool/spool.go` Drain |
| delete handlers | `DeleteAppend`, `DeleteDrop` | deleteRecord, dropFromCorpus |
| life cycle | `TakeSnapshot`, `SnapshotUnusable`, `Start`, `LoadCorpus`, `Stop`, `Finish`, `Crash` | `daemon/snapshot.go`, Run, serve, shutdown |

An action is what nobody else can see inside: a rename or an unlink, a bbolt
transaction, a section under `s.mu`.  The one write transaction of a drain is
split (`AppendNext`, `Commit`) on a private copy of the history, so that a crash
or an error in it is a real case; while it is open `DeleteAppend` waits, as it
does for bbolt's write lock.  The corpus is a set of seqs; `FoldsAbove` is what
makes a set enough, because it says rows are only ever appended above it.

Reads fail too (`Faulty`): `DrainFile` may take a published file for a torn tail
and unlink it undelivered, `ReadFails` leaves committed rows unfolded, and
`DeleteDrop` may not learn the store's last seq.

Four history variables record what went wrong so that the invariants can say
"only then": `lost` (files unlinked by a drain that did not read them or never
committed), `skipped` (rows a delete moved `lastSeq` past), `unread` (rows whose
read failed) and `stale` (deleted rows that a snapshot kept).

`HistoryPromise` is the same without files, transactions or a daemon: accepted,
recorded, deleted and live ids.

### `Match`, `SearchFilter`: search as you type

`Match` is the matcher on sequences of abstract characters, with
`unicode.ToLower` as a constant function, so the Kelvin sign (which lower-cases
to an ASCII k) is a member of the alphabet rather than a special case.
`SearchFilter` is one connection's Filter on a corpus that grows and is rebuilt
by deletes: `AppendRow`, `DropRow`, `Query`.  `FullScan` is the reference
definition that the incremental answers are compared with.

### `Spool`, `SpoolPromise`: the handoff directory

Each call of Append is a writer that creates, writes in parts, syncs and
renames its file, fails or dies anywhere; one drainer globs, reads, unlinks,
then sweeps temporary files older than tmpTTL (`Age` makes a suspended
writer's file old).  A file's name in memory (`file`) and on the disk
(`onDisk`) differ until `Flush`, because nothing syncs the directory.  `ReadFile`
is drainFile: any error of the read ends it as an unfinished line does, so a whole
record may be consumed and not delivered.  The history variable `unread` names those
files, in `SpoolPromise` too: the promise is delivery of what can be read.

### `PushStream`: from the local store to the server

`Begin`, `Done`, `Seal`, `Send`, `Refused`, `Bank` and `GiveUp` are the steps of
`Syncer.Push` and `pushWithBackoff`; `Deliver` is handlePush's transaction and
`LoseRequest` one that never happens.  A request outlives its client: `GiveUp`
leaves it in `net`, where it may be delivered later, after the same rows were
sent again in other batches.  Sizes are abstracted to where a body may end
(`MayEnd`) and to the answer "too large" (`Refused`, any number of halvings).
`Configure` is an edit of config.toml that `attach` picks up while a cycle may
be running on the syncer it began with; `Backup` and `Restore` replace data.db,
history and watermark together.  A row is its number; `Prompts` names the rows
that `pushable` leaves out unless the cycle's syncer allows them.  History
variables record that data.db was replaced (`replaced`), which prompts a setting
in force allowed (`consented`) and which were recorded under a cycle that still
allowed them (`exposed`).

### `RemoteCache`: from the server to the other machines' history in RAM

One machine's `remoteCache` and its file remote.db, against servers whose
streams grow.  A record is its server and seq; what it says matters only as far
as it is a command or a tombstone for one.

| code | actions |
|---|---|
| `syncOnce` | `Begin`, `ListHosts`, `PullHost`, `PullDone`, `BankHost`, `FoldPulled`, `GiveUp` |
| `hydrate` | `HydrateNone`, `HydrateRead`, `HydrateFold`, `HydrateDrop` |
| `onRevoked`, in the two halves the code orders | `Refused`, `Purge` |
| `attach`, with another server and with the same | `Attach`, `Reattach` |
| `newRemote`, the daemon's end | `Start`, `Crash` |

syncMu allows one cycle at a time.  `Attach` does not take it: it waits for the
loop's own cycle only because the same goroutine runs both, so it may come
between any two steps of a cycle that `yore sync` asked for over a connection
(`runner`).  `BankHost` is rstore's Append, one transaction per host, whose
failure is ignored.  Opening a record works if it came from the cycle's server;
`HydrateDrop` is every way in which it fails.  RAM is a sequence per host,
because `pruneLocked` evicts what stands first.

The last part of `onRevoked`, closing and removing the file, is one step with
the detachment before it, `onAccepted` one with the fold before it, and removing
the file always works.  `remote_keep` is fixed in each behaviour, and a server
lists its hosts in the step that clones the cursors.

Three history variables mark what the properties except: `mixed` (another
server was attached in the middle of a cycle, or a cycle wrote to a file that
held another server's records), `gap` (rows that the file's cursor passed
without their being stored) and `early` (commands whose tombstone was folded
before them).

### `Enrolment`: who may open what

The server's tables are functions from machines, tokens and data keys; a key is
a number and a version, sealed to a machine or under another key, and opened by
nobody else.  A machine is idle or in the middle of one procedure (`proc`), which
waits for one request at a time.  Handlers authenticate a request in one
transaction and act in another, so sending and taking effect are two actions and
`flight` holds what is between them.

| code | actions |
|---|---|
| `cli/enroll.go` setup | `Setup`, `HandleRegister`, `Bootstrap`, `HandleInitRecovery`, `SelfActivate`, `HandleActivate` |
| `cli/enroll.go` recover | `Recover`, `HandleRegister`, `SendReadmit`, `HandleReadmit` |
| `syncer/enroll.go` approve | `Approve`, `HandleActivate` |
| revoke with its rotation | `StartRevoke`, `HandleRevoke`, `ReWrap`, `SendRotate`, `HandleRotate` |
| ensurePushDEK | `SendUpload`, `HandleUpload` |
| tokens | `MintToken`, `RevokeToken`, `Expire` |
| refusals, lost answers, restarts | `Fails`, `Stop`, `GiveUp`, `Restart` |

History variables: `known` (keys a machine could ever open), `out` (machines
outside the group at its last rotation), `shown` (phrases printed) and `emptied`
(the last wrap of the key was deleted, after which a first activation pins any
version again: the properties claim nothing from there on).  The three invariants are
proved in `Enrolment_proofs`.

### `DaemonLife`, `RecordIndexes`, `Backups`: around the history

`DaemonLife` is the hand-over between daemons.  `RunOpen` takes the store's lock,
`RunListen` binds the socket's name, `RunServe` serves; `Shutdown` closes the
listener and `ShutdownEnds` waits for handlers, unlinks the name if it is still
its own and lets the lock go; `Killed` may come at any step.  `SocketWatch` is
the watchdog.  A client dials, spawns once (`EnsureRunning`), writes a request
(`ExchangeWrite`), reads (`ExchangeRead`), and on a broken connection tries once
more if the operation is `Resumable`; at its `Deadline` it returns an error and
keeps the connection.  A connection is the queue of requests that are still
unanswered, so that an answer which arrives late is the next one's.

`RecordIndexes` folds two streams, the machine's own and the one pulled from the
others, into the tag index and the prompt index.

| code | actions |
|---|---|
| refreshCorpus, foldRows | `ReadRows`, `FoldRows` |
| deleteRecord, around its lock | `Delete`, `DeleteDrop` |
| `syncOnce` with rstore's Append and its trim | `CachePage`, `FoldRemote` |
| `hydrate` | `Hydrate` |
| `attach` to another server | `PullAgain` |
| the start, with its two seed scans | `Restart`, `Seed` |

A fold is over a set of positions, since a trimmed cache is a stream with holes.
The history variable `missed` names the records that were passed and never folded
by the running daemon.

`Backups` is both backup loops, the daemon's and the server's (`who`): a copy
under a temporary name, its rename to a name made of the time, and the two
prunes, with a failure or a crash between any two, and a clock that is set back.

### `AgentConfig`, `AgentCapture`: the agents' hooks

`AgentConfig` is `yore init` and `yore uninit` for five agents.  A file is absent
or holds entries: hooks (an event and a command), the MCP entry, and what others
put there.  `Begin` starts a run, `Read`, `Truncate`, `Fill` and `Unlink` are what
it does to one file, `Die` ends it anywhere, `Save` is an agent or its user saving
the file.  Each agent's own merge, removal and tests for "already installed" are
operators (`MergeClaudeHook`, `RemoveHookCmd`, `CodexHooksInstalled`, ...).  Codex's
file is edited as text: `altered` names the texts of yore's that a save laid out
otherwise or a write cut short, and `UninitCodex` takes out only those that stand
as they were appended.

`AgentCapture` is one session whose prompt, pre and post hooks run as processes
of their own and meet in two state files: the session's prompt id and the start
of a command.  `Submit`, `RunTool` and `ToolEnds` are the agent; `Hook` is each
program's steps (`WritePromptState`, `SpoolPrompt`, `SaveCmdStart`,
`LoadCmdStart`, `LoadPromptState`, `StampPrompt`, `SpoolCommand`); `HookDies` is
an agent that kills a hook.

`Machine` composes these five parts.  They share no state, so each behaviour plays
one of them, and what holds of a part alone holds of the machine; `MCMachine` gives
its constants values for TLC.

### `Browser`: the table

The rows held, the period's slice of them, the cursor and the marks; the
questions in flight (`net`), each with its number and, once the daemon computed
it, its answer.  The daemon's corpus changes underneath by records, deletes and
tags of this and other shells.  Keys, deletes and tags (one row or the marked
ones, one call after another), filters, hosts, sync, the stats sample and the
warm loop are actions; `removeRows`, `withoutGone`, `settleGone`, `pruneChecked`
and `applyPeriodFilter` are operators that every handler applies where the code
calls them.  `scene` says which of the browser's functions a behaviour uses, so
that each combination which interacts is explored without all at once.

### `Panes`: geometry and the mouse

`Geometry` is what applyLayout derives from the view, the focus, the zoom, the
size and the remembered ratios; `geo` is what it derived last.  Every key and
click that calls applyLayout sets one to the other, those that do not leave it.
`SplitAt` and `RatioOf` are the integer arithmetic of panes.go.  `Press`,
`Motion` and `Release` hit-test against `geo`.

### `DevicesView`, `Explorer`, `SearchPanel`

`DevicesView`: the group's machines and tokens at the server, the lists held, and
the calls out, each of which acts (`Act`), fetches (`Fetch`) and is applied, in any
order, without numbers.  A question on screen is answered by the next key; a
minted token stays until it is dismissed.

`Explorer`: from a sample, the period and the names picked, the hosts, agents,
prompts and commands listed.  `RecomputeStats` is the whole derivation, applied
by every action that calls recomputeStats; `SortRows` is a stable sort: by a key,
and in the list's natural order where keys agree.

`SearchPanel`: the question being typed, the numbered queries out, the window
over the rows applied, vim's sub-mode and the key list.

`Screens` plays the table, the panes, the devices view, the explorer or the panel in
each behaviour: as modelled they share no state.  `MCScreens` gives it values for TLC
and plays the devices view twice, with two machines and with two tokens.

## 4. Runs

| run | module | question | bounds | result |
|---|---|---|---|---|
| races | MCLocalHistory | what can a search miss or show under every interleaving of ingest, two deletes, imports, snapshots, stops and crashes with failing I/O; does the store keep its promise | 2 files, two spooled commands, a tag op, an imported command, 2 connections, 2 tombstones | holds |
| live | MCLocalHistory | are wakes honoured, commands found, shutdowns completed | 2 files, 2 commands, one foreign id, 1 connection, 1 tombstone | holds |
| missed | MCLocalHistory | one claim of a comment, section 6 | 2 files | violated |
| filter_plain | MCSearchFilter | are incremental answers right, whatever is deleted in between | 5 characters, 4 commands, queries up to 3 characters, 3 rows | holds |
| spool | Spool | is a torn file ever consumed, an acknowledged record lost; does the spool implement the abstract one | 2 writers, power loss, failing reads | holds |
| push | PushStream | may a reader's cursor pass a command that shows up later, the watermark one that no server has; do prompts leave without consent; does every command arrive | 3 rows, the second a prompt, batches of 2, 2 requests in flight, one server, restores, edits of sync_prompts | holds |
| cache | MCRemoteCache | is what a search of other machines finds the attached server's, complete, each record once and without the deleted; does a revocation take the ciphertext off the disk | 2 servers, 2 other hosts, 3 rows, remote_keep of 1 and of 2 | holds |
| cache_unstored | RemoteCache | one claim of a comment | 1 server, no remote_keep | violated |
| enrolment | MCEnrolment | does the group ever hold two keys, can a machine that was put out open the current one, does the printed phrase go on opening it | 3 machines, a token and the server's own, a data key, 2 group keys, 2 requests in flight, 1 lost answer or restart | holds |
| rotated | Enrolment | does a member that stays go on writing after a rotation, one claim of the protocol | 2 machines, a data key, 2 group keys, 1 request in flight, nothing lost | violated |
| machine | MCMachine | do overlapping edits of agents' files keep what others wrote and leave nothing behind; are commands traced to their own prompt and start; is a serving daemon reachable, a request carried out at most as often as it may be; do the indexes settle; is the last backup kept | 5 agents, 3 runs of which 2 overlap, 1 save; 2 prompts, 2 commands; 2 clients, 3 daemons, 2 requests each; 2 local and 2 pulled records, a remote_keep of 1; 2 backups kept of 5, 4 instants | holds |
| screens | MCScreens | does a deleted row come back, a mark outlive its row, an old answer stay; do the panes tile the frame and a seam follow the pointer; is a minted token kept on screen; do the explorer's lists agree with what is picked; does the panel settle | 2 records, 2 or 3 questions, a sample, an edit; widths 13 and 26, heights 5 and 14, 2 keys and 2 drags; 2 calls out; 2 samples; 2 questions in the panel | holds |

Why the bounds are enough.  Two deletes are what it takes for one to overtake
another's snapshot; two files make a drain with one file done and one in hand, or
one that arrives after the glob; one record in both files is a duplicate in one
batch and across batches.  Connections are interchangeable, so `races` checks
one of each pair of states (`AnyConn`).  `MaxDeletes` and `Files` bound only how
often producers act, not the interleavings of what they started.  For the
filter, three rows allow a delete followed by two appends (shorter, equal and
longer than before), and queries of up to three characters cover a term that
changes its folding and a second term.  A spool writer meets only the drainer,
so the second writer is there for drains that hold a file of each kind.  For
uploads, a body of two rows can be halved and sent as its first record alone,
which is what distinguishes the part sent from the part sealed; the third row
makes a second batch; two requests in flight are a retry that its predecessor
overtakes (`MaxInFlight`).  Several servers with a cycle that goes on with the
old one are covered by the proofs, which hold for any set of servers.

For the cache, two hosts are what it takes for a tombstone to be on another
stream than its target, so that the two are pulled, stored and trimmed apart.
With three rows and a remote_keep of 1, the tombstone can be trimmed while its
target stays; with a remote_keep of 2, two rows are both to be kept, so one that
is missing shows.  Servers are interchangeable (`AnyServer`).  A state in which
two servers' records have met is followed to the end of its cycle and not
further (the constraint `FollowMixes`): from there on the properties of the
cache claim nothing, and `RevocationHolds` is proved without that bound.

For enrolment, the third machine is the one that is put out while the other two
approve, rotate and upload at once; the second key is the rotation's; two
requests in flight are one that overtakes another, and one lapse is a rotation
whose answer never came.  A state in which the last wrap is gone is not followed
further (`FollowHeld`).

For the parts of `Machine`: two runs of init or uninit that overlap and one
after them is what leaves a torn or doubled entry; two commands of one text in a
session share a start file; three daemons are one that stops, one that takes over
and one that finds the lock taken; two records in each stream are a tag and its
removal, or a prompt and its tombstone, folded together, apart, again and from the
other stream, and with a remote_keep of 1 the first of two is trimmed; with two
backups kept, five are made, some named behind others.  `MCInit` starts Codex
without a file and Cursor with both; the other agents' may be there or not.

For the screens: two rows are the one under the cursor and the one that moves
when it goes; two questions overtake each other, and the third of one scene comes
with nothing but keys (`Asks`).  A width of 13 is below two panes' minimum, 26 above; a
height of 5 leaves the least middle region, 14 lets every clamp but the largest act;
two keys reach each view and zoom, and two drags move a seam and its neighbour.
Presses are enumerated at the corners of panes and at both cells of each seam
(`Col`, `Row`), drags along one line (`Track`).  Two calls are out at once where a
fetch overtakes an action; two samples with different agents and prompts move
every row of the explorer's lists.

`enrolment`, `rotated`, `machine` and `screens` disable the deadlock check: there every
actor may be done, or its bound used up.

## 5. Fairness

`live`, `push` and `rotated` assume some.  In `live`, goroutines that can take a step take one (weak
fairness on the ingest goroutine's steps, `LoadCorpus`, `Finish` and each
`DeleteDrop`): Go's scheduler is preemptive and none of these steps waits for a
client.  `StartIngest` needs strong fairness: ingestLoop's select chooses at
random between a pending wake and a fired timer, so an endless stream of wakes
disables the timer's case again and again without starving it.  Nothing is
assumed of producers, deletes, stops, snapshots or crashes.  I/O errors are
switched off there, since a disk that always fails fulfils no promise.

In `push` the interval tick starts cycles (weak fairness of `Begin`) and
the cycle's deadline ends them (`GiveUp`).  `Seal`, `Send`, `Bank` and an
acknowledged `Deliver` are strongly fair: keys, requests and the meta write may
fail any number of times, but what is attempted again and again succeeds again
and again, and no record exceeds the server's limit.  A request is processed or
dropped in the end.  Nothing is assumed of edits, restores and records.

In `rotated` the server answers (weak fairness), a machine in the middle of a
rotation goes on, each cycle of the sync loop tries to upload (strong fairness of
`SendUpload`), and an upload that could be accepted again and again is accepted in
the end.  Nothing is assumed of procedures a user starts, nor of restarts: those
would refresh the key.

## 6. Where a comment and the code disagree

Three runs check a claim and find it violated; `PROJECT.json` quotes the lines.

* *missed*: a delete moves `lastSeq` past rows committed but not folded in; they
  stay unsearchable, across restarts, until a start without a snapshot.
* *cache_unstored*: a failed write to remote.db, or a failed opening, leaves its
  rows in RAM only; the next write moves the stored cursor past them and after a
  restart they are never pulled again.
* *rotated*: resolveHK returns the key it resolved first for the life of the
  Syncer; after another member rotated, this one's data keys and approvals are
  refused until its daemon restarts or its sync settings change.

Some statements are written down in a module, are false of the code, and are in
no run; named as an INVARIANT they give the trace at once.

* `PushedMeansStored` (`PushStream`): the watermark belongs to data.db and not to
  a server, so rows uploaded to one server are never uploaded to the next
  (`src/docs/architecture.md:859-861`: "conflict-free and eventually consistent by
  construction").
* `NarrowingIsSafe` (`SearchFilter`, with the Kelvin sign in `Chars` and `Upper` and
  the commands `MCKelvinCommands`): extending a query can turn byte folding into
  Unicode folding and so widen it (`match/filter.go:39`: "a row that failed it
  cannot pass a narrower query").
* `OwnAnswer` (`DaemonLife`): a request that runs out of time leaves its answer on
  the connection, because lostConn does not count a timeout
  (`daemon/client.go:295-336`); the next request reads it
  (`daemon/client.go:274-276`: "writes one request and reads one response").
* `DeletedPromptsGone` (`RecordIndexes`): Run seeds the prompt index from every
  local prompt record, deleted ones included, so a deleted prompt is shown again
  after a restart (`daemon/prompts.go:83`).
* `GeoCurrent` (`Panes`): the stats screen's key and esc, and the esc of the search
  box, change what is drawn without applyLayout (`tui/browse/model.go:2159`, `1048`,
  `964`); after a, s, s the browse view is under the explorer's panes
  (`tui/browse/mouse.go:9-11`: "can never disagree").

Other claims appear as the exceptions that the properties that hold have to make:

* `LostOnlyInDrain`: Drain unlinks before the batch commits, so a crash, a
  failed unlink or a failed transaction in that window loses records
  (`store/store.go:281` says it "at most reprocesses harmlessly").
* `LostOnlyInDrain`, `AckedSurvives` and `KeepsPromise` of `Spool`: drainFile takes
  every error of ReadBytes for a torn tail (`spool/spool.go:152-156`), so a published
  record that cannot be read once is unlinked with its file.
* `CorpusMissesOnlySkipped`: when `Since` fails, refreshCorpus returns
  (`daemon/daemon.go:538-541`), and the rows are not searchable until the next batch
  with anything new reads them again.
* `CorpusShowsOnlyStale`: a snapshot taken between a delete's transaction and
  its drop, with another delete having advanced `lastSeq`, brings the row back
  after a crash (`daemon/snapshot.go:73` says a snapshot "already reflects every
  deletion").
* `AnswersRight` (`MissesOnlyAfterDrop`): a delete followed by an append leaves the filter
  trusting indices into the corpus before the delete (`daemon/daemon.go:742`
  says filters "recover via their shrink-fallback rescan").
* `AckedSurvives`: without a sync of the directory, a power failure can undo the
  rename that published an acknowledged record (`spool/spool.go:8`).
* `NothingSkipped` and `NoGaps`: a restored data.db assigns seqs again that the
  server already holds; it skips the new rows and acknowledges them.
* `PromptsNeedConsent`: a cycle running while sync_prompts is switched off goes
  on under the old setting (`syncer/syncer.go:57` says prompts then "stay in the
  local store").
* `RamFaithful`: a server attached during a cycle that a connection asked for gets
  the old server's records and cursors folded in (`daemon/remote.go:405-408` says
  they "must never be mixed"); so may a remote.db that could not be opened at the
  start and is opened later, since hydrate does not look at it again.
* `DeletedStaysGone`: the cache is not always "live-only"
  (`daemon/remote.go:677`).  A tombstone whose target is pulled by a later cycle
  has no effect on it, and one that was trimmed from remote.db before its target
  brings the target back at the next start.
* `OneGroupKey`: after the last wrap of the key is deleted, an activation that was
  in flight pins an old version again.
* `DeletedStayGone`: a deleted row of another machine comes back with the next
  query, because OpDelete reaches neither its owner nor the remote cache
  (`daemon/daemon.go:743-763`; `src/docs/architecture.md:339-341` says an answer newer
  than the mark "reflects the tombstones").
* `LeavesNothing`: Codex's blocks are taken out only where they stand verbatim, as
  `cli/uninit.go:331-333` says; text that was laid out otherwise, or cut short, stays
  and may still start yore.
* `IndexesSettle`: tag operations, prompts and tombstones that remote_keep has trimmed,
  or that remote.db could not store, are gone after a restart
  (`rstore/rstore.go:173-178`, `198-221`), as if they had never been recorded; a delete
  moves `lastSeq` past records that nobody has folded (`daemon/daemon.go:757-759`),
  which take effect at the next start; a seed scan that fails is only logged
  (`daemon/daemon.go:200-221`).
* `RecordsOwnTurn`: a prompt whose hook was refused or killed leaves the one before
  it in the state file, and the next commands are traced to that one.

And, met while modelling and outside what the properties speak of:

* A setup that is interrupted between its registration and its activation cannot be
  repeated: the recovery key is installed, so the next attempt gets 409
  (`cli/enroll.go:219-222`).  An answer to the activation that is lost means that the
  phrase is never shown.
* Approving while another member is between listing the devices and rotating leaves
  the new device active and without a wrap; a data key uploaded between
  reWrapAllDEKs and the rotation makes the rotation fail after the revocation.
* os.WriteFile truncates an agent's settings before it fills them: a kill in between
  leaves them empty or torn, and a save by the agent between read and write is
  overwritten (`src/docs/architecture.md:631-632` says init "preserves unrelated
  configuration").  claude's init returns early when its hooks are there, so an MCP
  registration that failed once is not repaired.
* Ordering the explorer's commands keeps the cursor's index and not its row, because
  sortBy changes the order before reorder looks the row up
  (`tui/browse/columns.go:861-877`; `879-881` says the opposite).
* A list fetched in the devices view before an action may be applied after the
  action's own fetch; a failed refresh while the approve question is up empties the
  list that the verification code is read from.
* Enter in the panel takes a row of the previous question while the answer to the
  present one is under way.
* A drag whose button is released in the stats screen never ends.

## 7. Proofs

Every theorem holds for all values of the constants that satisfy the named
assumptions.

**`LocalHistory_proofs`.**  The
inductive invariant `IInv` strengthens the checked invariants with what they
silently rely on: where published files are and which ids they carry
(`SpoolInv`), that the open transaction extends the store (`BatchInv`), that the
corpus, the snapshot and the rows in flight are views of a prefix of the
history, in that order, and lack of it only what a failed read left (`ViewInv`),
that an id a client was shown lies below
every fold to come (`ShownInv`: this is why a delete cannot race the fold of its
own target), that a pending drop has a committed tombstone (`DeletingInv`), and
completeness and cleanness of the snapshot (`CompleteInv`, `SnapshotClean`).
Each action is one lemma.  What appending and stamping do to a history is
proved once, ahead of the actions, and cited.  `HistoryOnlyGrows` and
`Refinement` follow from the same invariant, with one step per action: every
step is a step of `HistoryPromise` or a stutter.

**`SearchFilter_proofs`.**  `AnswersMatch` needs only that remembered rows exist
(`InRange`).  `AnswersComplete` rests on `Narrowing`: under `PlainFolding` (no
character outside ASCII lower-cases into ASCII) a query that extends another
matches no more, because every term of the shorter one is a prefix of a term of
the longer.  Without `PlainFolding` it is false: see `NarrowingIsSafe` in section 6.

**`Spool_proofs`.**  `NamesInv` ties a writer's step to its file's name,
`SyncInv` the published names to complete, synced content (so power loss cannot
tear one), `DrainInv` the drainer's file in hand to what it has delivered or could
not read.

**`PushStream_proofs`.**  Four theorems for any set of servers, any batches and
any edits.  `CycleInv` says that a running cycle's body is every pushable row of
the stretch it considers.  `CoverInv`: until data.db is replaced, every command
up to the watermark, in RAM and on disk, and every record an acknowledgement
was received for is in some stream.  `GapInv`: every request still on the
network starts where the streams, together with its own records, have no hole,
however late it is delivered.  `ConsentInv` follows a prompt from the store
through bodies and requests to the streams.  `WatermarkSkipsNothing`,
`StreamHasNoGaps` and `PromptsAreConsented` follow.

**`RemoteCache_proofs`.**  Five theorems for any servers, hosts, streams and
remote_keep.  `StandingInv` adds to `RevocationHolds` that a latch
exists only in a running daemon and that a refusal about to be acted on was
recorded, or another server attached meanwhile.  It needs nothing of the
cycle's data.  The other four rest on `CacheInv`, which adds what ties RAM, the
cursors, a running pull and remote.db to the streams:

* `Warm`: RAM is empty until remote.db was read, and a cycle works for the attached
  server.  All that follows is claimed only while this is so (`~mixed`): after an
  `Attach` in the middle of a cycle it is false.
* `DiskOK`: in a file that holds one server's rows the cursor stands at the last of
  them, and a row missing below it is one a failed write lost (`gap`) or older than
  the newest remote_keep.  The file may be of a server that is not attached, so it is
  claimed for each.
* `PullOK`: a pull starts at the cursors in RAM and gets at least as far as the file.
* `RamOK`: RAM has each host's rows once, in ascending order, below its cursor and at
  most remote_keep of them: `RamFaithful`.
* `CompleteOK`: every command below a cursor is searchable, deleted, evicted or in `gap`:
  `CacheComplete`.
* `DeletedOK`: a deleted command that is or will be searchable is `Late`.  The set of
  tombstones is in RAM only, so the proof follows each from the stream through the file
  or the pull to the drop of its target: `DeletedStaysGone`.

**`Machine_proofs`.**  Seven theorems.  `PartSteps` makes each step of the machine a
step of every part or a stutter of it, and each part has an invariant of its own.

* `BackupInv`: `LatestKept` is lost if a prune can remove the newest name, so the
  invariant says that no prune under way has it on its list, and that the newest name
  is of the last backup not named behind another, or of a later one.
* `ReachInv`: of all daemons at most one holds the home, it holds the present one, and
  once it is bound the path is its socket.  `Reachable` needs all of it, because a
  loser of the lock must be known not to touch the path.
* `ExchangeInv`: no request is in the hands of two clients or twice in one connection;
  a request still queued may be applied once more; and of a client that is waiting, its
  request is in the connection, or its answer is, unless one ran out of time.
  `Exchanges` follows.
* `IndexInv`: `Given` are the records folded so far and not `missed`.  A target that
  only one machine ever tagged has what the last operation given says (`TagsOK`);
  another machine's prompt is there once it was given, unless its tombstone was
  (`PromptsOK`), which no stream has before the prompt (`OrderOK`).  A batch in
  hand (`BatchOK`) starts no later than `lastSeq`, also when a delete moved `lastSeq`
  meanwhile, so folding it never puts an older word over a newer one; what remote.db
  holds and lacks (`CacheOK`) decides what a restart is given.  The lemmas `TagsFolded`
  and `PromptsFolded` say what one fold over a set of positions does to either index.
  `IndexesSettle` is the first two when everything is folded.
* `CaptureInv`: the state files hold the newest prompt and start of the session and
  text they are named for, unless marked overtaken or blurred, and so does what a hook
  has already read: `RecordsOwnTurn`.
* `ConfigInv`: the shape of each agent's documents, what a run is about to write, and
  which files a removal is done with.  Every outcome of a step of a plan keeps what is
  not yore's (`GoodOutcome`), and one of a removal leaves nothing that starts the
  program.  Only the shape makes the second true: an installer takes its blocks out
  only if they are exactly its own, which for Codex holds because its two hooks are
  written and removed together, and where they are not, a write was cut short and the
  text is in `altered`.  `OthersKept` and `LeavesNothing` follow.  Assumed is
  that the agents are among the five that init has subcommands for.

**`Enrolment_proofs`.**  The server compares version numbers and can compare no
keys, so the argument is about every key that could still be presented to it:
those that machines hold (`MachinesOK`) and those in authenticated requests that
have not taken effect (`FlightOK`).  Each of them `Follows` the recovery key, which
the server replaces together with the version: it is of an older version, and then
every handler refuses it, or it is that very key.  `ServerOK` says what the tables
hold; `MintedOK`, that no key is minted twice; `SecretsOK`, that the key of a
rotation in flight is known to nobody but the machine that minted it, which is
what keeps a machine locked out (`OutOK`) when the rotation lands after any delay.
All of it is claimed until the last wrap is deleted (`emptied`).  `GroupHasOneKey`,
`RotationLocksOut` and `PhraseIsKept` follow for any machines, tokens and data keys
and without any of the run's bounds on keys, requests and lapses.

**`Screens_proofs`.**  Ten theorems, for any records, terminal sizes, machines, texts
and agents.  `PartSteps` is that of `Machine_proofs`; each part has an invariant of
its own.

* `PanelInv` (search panel): the newest question is out, or was the one answered and
  then the rows are its own; requests have numbers of their own; the window is around
  the cursor and wastes no line (`WindowFits`).  `PanelSettles` follows.
* `MintInv` (devices view): at most one mint is out, and then none was shown yet, so
  that no answer can take a token off the screen: `MintedKept`.
* `BrowserInv`: `LatestOK`, the newest request is out or its answer is the table;
  `BulkOK`, what a batch of deletes is done with is not the daemon's any more; `GoneOK`,
  an answer still to be applied that holds a deleted record of this machine is numbered
  no higher than the guard that takes it out, for the rows and for the sample each.  A
  guard may be dropped once an answer above it is applied: the numbers above it were
  asked after the delete, and what is still out below it is stale by then.
  `DeletedStayGone`, `SampleForgets`, `MarksShown`, `SliceAgrees` and
  `AnswersQuestion` follow.  The cursor is an index and its row an element of a set, so
  `SliceAgrees` rests on `Places`: in a finite ordered set each position has one element.
* `PaneTypes`, `GeoInv` (panes): every ratio kept is a number, and the geometry that
  is held tiles the frame.  Each way of laying out was shown to tile for any sizes
  within the frame (`BrowseTiles`, `DevicesTiles`, `AgentTiles`, `ZoomTiles`,
  `FullTiles`), and the sizes computed are such whatever the terminal and the ratios
  (`SplitWithin`, `SizesFit`).  `PanesTile` follows.  It says nothing of which view's
  geometry is held: that the code does not keep (section 6).
* `SeamFollows` is proved for terminals of up to a thousand columns and rows
  (`Modest`), from `RoundTrip`: a ratio is kept in thousandths, so the comment of
  ratioOf and splitAt ("round-trip") holds up to there and not beyond, where two
  cells may share a ratio.  `SeamFresh` says that the explorer's inner seam is measured
  against the lists that are on screen.
* `AgentInv` (explorer): the sidebars, the list and both cursors agree.  The step that
  needs an argument is a new order: the prompt drilled into is in the new list because
  a list has every element kept (`InOrderLists`), it is the same prompt because no two
  listed have an id in common (`PromptsComputed`), and so the commands under it are as
  many as before.  `ListsFollow` follows.

Only model-checked: the liveness properties (fairness and ENABLED are beyond the
prover) and the claims that are violated.

## 8. Not modelled

Rendering, formatting, flag parsing, logging and its rotation, pattern tables
(redaction, risk), cryptographic primitives, request signing, the importer's
parsers, the MCP server, the keychain and configuration files have no behaviour
over time beyond one call, or repeat a pattern that is modelled (a write by
rename).  `s.mu`, `rc.mu` and bbolt's locks are not modelled as locks
that somebody holds: a section under one is a step, and a transaction excludes
others by its guard, so that a deadlock by taking two in the wrong order would not
show.  `Explorer` takes no sample without any command: its rows are nil, and
recomputeStats then returns and leaves the lists as they were
(`tui/browse/model.go:1516-1518`).  Of the modelled components these parts are left
out: in the store the schema check, counts and the copy of a hot backup; in the remote cache searching,
host counts, the reported state, the push debounce and edits of remote_keep; in
the daemon hosts and status; in the matcher highlighting, fuzzy matching, scopes,
dedupe, sorting and windows; on the server other tenants, nonces, rate limits and
pages; in enrolment prompts, pinned certificates and what is printed; in the
browser column widths, the stats screen's figures, the clipboard, flashes, the
help panel and preferences on disk; in the agents' hooks the shape of their input.
