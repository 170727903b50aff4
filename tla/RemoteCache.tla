------------------------------ MODULE RemoteCache ------------------------------
(***************************************************************************)
(* The other machines' history on one machine (daemon/remote.go, rstore).  *)
(* A cycle warms RAM from remote.db once per daemon, asks the server for   *)
(* every host's rows above a cursor, banks the ciphertext with the cursor  *)
(* in remote.db, one transaction per host, and folds the opened records    *)
(* into RAM.  Keys are unwrapped with the server's help and only open what *)
(* came from the same server.                                              *)
(*                                                                         *)
(* Cycles are serialized by syncMu, whoever asks for them.  attach, which  *)
(* applies an edit of config.toml, runs on the sync loop's goroutine under *)
(* rc.mu only: it may come between two steps of a cycle that a             *)
(* connection's OpSync started.  Requests and remote.db may fail at any    *)
(* step, the daemon may die at any step.                                   *)
(***************************************************************************)
EXTENDS Naturals, SequencesExt, FiniteSetsExt

CONSTANTS
    Servers,
    Off,            \* no server is configured
    Hosts,          \* the other machines, numbered in the order of their ids
    Keeps,          \* the values of remote_keep to consider, 0 for no bound
    MaxRows         \* bounds the rows that the servers receive

ASSUME RemoteAssumption ==
    Off \notin Servers /\ Hosts \subseteq Nat /\ Keeps \subseteq Nat /\ MaxRows \in Nat

VARIABLES
    keep,           \* remote_keep, which is not edited
    stream,         \* per server and host: its rows
    revoked,        \* the servers that refuse this device
    up,             \* whether the daemon runs
    sy,             \* the attached syncer's server
    ram,            \* per host: the searchable records, oldest first
    cursors,        \* per host: the last seq pulled
    hydrated,       \* whether remote.db was read, or given up
    latch,          \* revokedLatch
    meta,           \* data.db's meta key revoked_by_server
    rs,             \* whether remote.db is open
    disk,           \* remote.db: per host its sealed records and its cursor
    pc, runner,     \* where the running cycle is, and on whose goroutine
    csy,            \* its syncer's server
    kept,           \* what it read of remote.db
    base,           \* the cursors its pull starts from
    next,           \* the cursors its pull has reached
    todo,           \* the hosts it has yet to pull, and then to bank
    mixed,          \* history variable: another server was attached during a cycle,
                    \* or a file with another server's records written to unread
    gap,            \* history variable: rows that remote.db's cursors passed unstored
    early           \* history variable: commands whose tombstone was folded before them

local == <<kept, base, next, todo>>
cycle == <<pc, runner, csy, local>>
cache == <<ram, cursors, hydrated>>
standing == <<latch, meta>>
ghosts == <<mixed, gap, early>>
vars == <<keep, stream, revoked, up, sy, ram, cursors, hydrated, latch, meta, rs, disk,
          pc, runner, csy, kept, base, next, todo, mixed, gap, early>>

\* A row of a stream names the command that it tombstones, or is a command.
Command == << >>

\* A pulled record is <<server, seq>>: whose keys open it, and where it was.
Zero == [h \in Hosts |-> 0]
Nothing == [h \in Hosts |-> {}]
EmptyFile == [recs |-> Nothing, cur |-> Zero]
EmptyRam == [h \in Hosts |-> << >>]

Init ==
    /\ keep \in Keeps
    /\ stream = [s \in Servers |-> [h \in Hosts |-> << >>]] /\ revoked = {}
    /\ up = FALSE /\ sy = Off
    /\ ram = EmptyRam /\ cursors = Zero /\ hydrated = FALSE
    /\ latch = FALSE /\ meta = FALSE /\ rs = FALSE /\ disk = EmptyFile
    /\ pc = "idle" /\ runner = "loop" /\ csy = Off
    /\ kept = EmptyFile /\ base = Zero /\ next = Zero /\ todo = {}
    /\ mixed = FALSE /\ gap = {} /\ early = {}

-------------------------------------------------------------------------------
(* The servers, as other machines and their users fill them *)

\* Each host pushes its rows in order, tombstones for any host's commands among
\* them; who writes one has seen its target.
Grow(s, h, row) ==
    /\ MapThenSumSet(LAMBDA x : Len(stream[x[1]][x[2]]), Servers \X Hosts) < MaxRows
    /\ stream' = [stream EXCEPT ![s][h] = Append(@, row)]
    /\ UNCHANGED <<keep, revoked, up, sy, cache, standing, rs, disk, cycle, ghosts>>

CommandsOn(s) ==
    {x \in Hosts \X (1..MaxRows) : x[2] \in DOMAIN stream[s][x[1]] /\ stream[s][x[1]][x[2]] = Command}

\* This device is revoked, or enrolled again.
ChangeStanding(s) ==
    /\ revoked' = IF s \in revoked THEN revoked \ {s} ELSE revoked \cup {s}
    /\ UNCHANGED <<keep, stream, up, sy, cache, standing, rs, disk, cycle, ghosts>>

-------------------------------------------------------------------------------
(* Configuration and life cycle *)

NoCycle ==
    /\ pc' = "idle" /\ runner' = "loop" /\ csy' = Off
    /\ kept' = EmptyFile /\ base' = Zero /\ next' = Zero /\ todo' = {}

\* newRemote, with the server that config.toml names by then.  A recorded
\* revocation removes the file, which may then fail to open.
Start(s) ==
    /\ ~up /\ up' = TRUE
    /\ sy' = s
    /\ disk' = IF s # Off /\ meta THEN EmptyFile ELSE disk
    /\ rs' \in {FALSE, s # Off}
    /\ gap' = IF disk' = EmptyFile THEN {} ELSE gap
    /\ mixed' = (mixed /\ disk' # EmptyFile)
    /\ UNCHANGED <<keep, stream, revoked, cache, standing, cycle, early>>

\* The daemon stops or is killed.
Crash ==
    /\ up /\ up' = FALSE
    /\ sy' = Off /\ rs' = FALSE /\ latch' = FALSE
    /\ ram' = EmptyRam /\ cursors' = Zero /\ hydrated' = FALSE
    /\ NoCycle
    /\ early' = {}
    /\ UNCHANGED <<keep, stream, revoked, meta, disk, mixed, gap>>

\* The sync loop's goroutine reloads before its own cycle, never within it.
LoopIsFree == up /\ (pc = "idle" \/ runner = "conn")

\* Mutant: the cursors into the old server's streams are kept.
Attach_KeepsCursors(s) ==
    /\ LoopIsFree /\ s # sy /\ sy' = s
    /\ ram' = EmptyRam /\ cursors' = cursors /\ hydrated' = FALSE
    /\ latch' = FALSE /\ meta' = FALSE
    /\ disk' \in {disk, IF rs THEN EmptyFile ELSE disk}
    /\ rs' \in {rs, rs \/ s # Off}
    /\ gap' = IF disk' = EmptyFile THEN {} ELSE gap
    /\ mixed' = (pc # "idle" \/ (mixed /\ disk' # EmptyFile))
    /\ early' = {}
    /\ UNCHANGED <<keep, stream, revoked, up, cycle>>

\* attach with another server, or none: what came from the old one goes.
\* remote.db is reset if it is open, opened if it is not; both may fail.
Attach(s) ==
    /\ LoopIsFree /\ s # sy /\ sy' = s
    /\ ram' = EmptyRam /\ cursors' = Zero /\ hydrated' = FALSE
    /\ latch' = FALSE /\ meta' = FALSE
    /\ disk' \in {disk, IF rs THEN EmptyFile ELSE disk}
    /\ rs' \in {rs, rs \/ s # Off}
    /\ gap' = IF disk' = EmptyFile THEN {} ELSE gap
    /\ mixed' = (pc # "idle" \/ (mixed /\ disk' # EmptyFile))
    /\ early' = {}
    /\ UNCHANGED <<keep, stream, revoked, up, cycle>>

\* Mutant: a refused device gets its file back.
Reattach_IgnoresLatch ==
    /\ LoopIsFree /\ sy # Off /\ ~rs
    /\ rs' = TRUE
    /\ UNCHANGED <<keep, stream, revoked, up, sy, cache, standing, disk, cycle, ghosts>>

\* attach for any other edit: a closed remote.db is opened, unless the server
\* refused this device.
Reattach ==
    /\ LoopIsFree /\ sy # Off /\ ~latch /\ ~rs
    /\ rs' = TRUE
    /\ UNCHANGED <<keep, stream, revoked, up, sy, cache, standing, disk, cycle, ghosts>>

-------------------------------------------------------------------------------
(* Folding *)

\* SetToSortSeq and SelectSeq, whose definitions the provers cannot expand: the
\* numbers in S in order, and what a sequence has at the places in P, in its order.
Ascending(S) ==
    [n \in 1..Cardinality(S) |-> CHOOSE x \in S : Cardinality({y \in S : y <= x}) = n]
At(q, P) == [n \in 1..Cardinality(P) |-> q[Ascending(P)[n]]]

\* The commands that tombstones among the records name.
Targets(recs) ==
    UNION {{<<r[1], stream[r[1]][g][r[2]]>> :
                r \in {q \in recs[g] : stream[q[1]][g][q[2]] # Command}} : g \in Hosts}

\* Where a sequence of a host's records has one that no tombstone among recs names.
Live(q, h, recs) == {i \in DOMAIN q : <<q[i][1], <<h, q[i][2]>>>> \notin Targets(recs)}

\* The commands among a host's records, which the cycle's server sent, in order.
Commands(recs, h) ==
    LET seqs == {r[2] : r \in {q \in recs[h] : stream[q[1]][h][q[2]] = Command}}
    IN  [n \in 1..Cardinality(seqs) |-> <<csy, Ascending(seqs)[n]>>]

\* Mutant: a tombstone removes what the cache holds, not what came with it.
Folded_HeldOnly(recs) ==
    [h \in Hosts |-> At(ram[h], Live(ram[h], h, recs)) \o Commands(recs, h)]

\* foldRemote: tombstones delete from the batch they came in and from the cache.
Folded(recs) ==
    [h \in Hosts |-> LET all == ram[h] \o Commands(recs, h) IN At(all, Live(all, h, recs))]

\* pruneLocked evicts the leading records of a host.
Pruned(q) == IF keep = 0 \/ Len(q) <= keep THEN q ELSE SubSeq(q, Len(q) - keep + 1, Len(q))

\* Targets of these records that lie above the cursors the fold ends with.
Ahead(recs, cur) == {t \in Targets(recs) : t[2][2] > cur[t[2][1]]}

-------------------------------------------------------------------------------
(* A cycle *)

Begin(r) ==
    /\ up /\ pc = "idle" /\ sy # Off /\ ~latch
    /\ pc' = "hydrate" /\ runner' = r /\ csy' = sy
    /\ UNCHANGED <<keep, stream, revoked, up, sy, cache, standing, rs, disk, local, ghosts>>

\* There is nothing to warm up from.
HydrateNone ==
    /\ pc = "hydrate" /\ (hydrated \/ ~rs)
    /\ hydrated' = TRUE
    /\ pc' = "list"
    /\ UNCHANGED <<keep, stream, revoked, up, sy, ram, cursors, standing, rs, disk, runner, csy, local, ghosts>>

HydrateRead ==
    /\ pc = "hydrate" /\ ~hydrated /\ rs
    /\ kept' = disk
    /\ pc' = "open"
    /\ UNCHANGED <<keep, stream, revoked, up, sy, cache, standing, rs, disk, runner, csy, base, next, todo, ghosts>>

HydrateFold ==
    /\ pc = "open"
    /\ \A h \in Hosts : \A r \in kept.recs[h] : r[1] = csy /\ csy \notin revoked
    /\ ram' = Folded(kept.recs) /\ cursors' = kept.cur /\ hydrated' = TRUE
    /\ kept' = EmptyFile
    /\ pc' = "list"
    /\ early' = early \cup Ahead(kept.recs, kept.cur)
    /\ UNCHANGED <<keep, stream, revoked, up, sy, standing, rs, disk, runner, csy, base, next, todo, mixed, gap>>

\* Something did not open, for whatever reason: the file is thrown away.
HydrateDrop ==
    /\ pc = "open" /\ \E h \in Hosts : kept.recs[h] # {}
    /\ disk' = EmptyFile
    /\ cursors' = Zero /\ hydrated' = TRUE
    /\ kept' = EmptyFile
    /\ pc' = "list"
    /\ gap' = {}
    /\ UNCHANGED <<keep, stream, revoked, up, sy, ram, standing, rs, runner, csy, base, next, todo, mixed, early>>

\* The cursors are cloned, and the server lists the hosts that have a stream.
ListHosts ==
    /\ pc = "list" /\ csy \notin revoked
    /\ base' = cursors /\ next' = cursors
    /\ todo' = {h \in Hosts : stream[csy][h] # << >>}
    /\ pc' = "pull"
    /\ UNCHANGED <<keep, stream, revoked, up, sy, cache, standing, rs, disk, runner, csy, kept, ghosts>>

\* The seq of the last row above the cursor, or the cursor.
Reached(h) == IF Len(stream[csy][h]) > next[h] THEN Len(stream[csy][h]) ELSE next[h]

\* Every page of a host's stream: the last one has no successor.
PullHost ==
    /\ pc = "pull" /\ todo # {} /\ csy \notin revoked
    /\ LET h == Min(todo) IN
        /\ next' = [next EXCEPT ![h] = Reached(h)]
        /\ todo' = todo \ {h}
    /\ UNCHANGED <<keep, stream, revoked, up, sy, cache, standing, rs, disk, pc, runner, csy, kept, base, ghosts>>

PullDone ==
    /\ pc = "pull" /\ todo = {}
    /\ todo' = {h \in Hosts : next[h] > base[h]}
    /\ pc' = "bank"
    /\ UNCHANGED <<keep, stream, revoked, up, sy, cache, standing, rs, disk, runner, csy, kept, base, next, ghosts>>

\* Mutant: a pull starts at the last row it has.
Fresh_Inclusive(h) == {<<csy, k>> : k \in {j \in base[h]..next[h] : j > 0}}

Fresh(h) == {<<csy, k>> : k \in (base[h] + 1)..next[h]}

\* Append puts records at their seqs and trims the stream to the newest.
Appended(recs, new) ==
    LET all == {r \in recs : \A n \in new : n[2] # r[2]} \cup new
    IN  {r \in all : keep = 0 \/ Cardinality({q \in all : q[2] > r[2]}) < keep}

\* cacheCiphertext for one host, the hosts in any order: records and cursor in
\* one transaction, or nothing, which is ignored.
BankHost(h, ok) ==
    /\ pc = "bank" /\ h \in todo /\ (ok => rs)
    /\ disk' = IF ok THEN [recs |-> [disk.recs EXCEPT ![h] = Appended(@, Fresh(h))],
                           cur |-> [disk.cur EXCEPT ![h] = next[h]]]
                     ELSE disk
    /\ gap' = IF ok THEN gap \cup {<<csy, <<h, k>>>> : k \in (disk.cur[h] + 1)..base[h]} ELSE gap
    /\ mixed' = (mixed \/ (ok /\ \E g \in Hosts : \E r \in disk.recs[g] : r[1] # csy))
    /\ todo' = todo \ {h}
    /\ UNCHANGED <<keep, stream, revoked, up, sy, cache, standing, rs, pc, runner, csy, kept, base, next, early>>

\* The cycle's end: the server served us, so a recorded revocation is history.
FoldPulled ==
    /\ pc = "bank" /\ todo = {}
    /\ LET fresh == [h \in Hosts |-> Fresh(h)]
           all == Folded(fresh)
       IN  /\ ram' = [h \in Hosts |-> Pruned(all[h])]
           /\ early' = early \cup Ahead(fresh, next)
    /\ cursors' = next
    /\ meta' = FALSE
    /\ NoCycle
    /\ UNCHANGED <<keep, stream, revoked, up, sy, hydrated, latch, rs, disk, mixed, gap>>

\* A request, remote.db or the deadline fails; the next cycle starts over.
GiveUp ==
    /\ pc \notin {"idle", "purge"}
    /\ NoCycle
    /\ UNCHANGED <<keep, stream, revoked, up, sy, cache, standing, rs, disk, ghosts>>

\* A request is refused because this device is revoked: that is recorded first.
Refused ==
    /\ pc \in {"hydrate", "list", "pull", "bank"} /\ csy \in revoked
    /\ meta' = TRUE
    /\ pc' = "purge"
    /\ UNCHANGED <<keep, stream, revoked, up, sy, cache, latch, rs, disk, runner, csy, local, ghosts>>

\* Then remote.db is detached and removed, and no further cycle may run.
Purge ==
    /\ pc = "purge"
    /\ rs' = FALSE /\ cursors' = Zero /\ latch' = TRUE
    /\ disk' = EmptyFile /\ gap' = {}
    /\ NoCycle
    /\ UNCHANGED <<keep, stream, revoked, up, sy, ram, hydrated, meta, mixed, early>>

SyncOnce ==
    \/ HydrateNone \/ HydrateRead \/ HydrateFold \/ HydrateDrop
    \/ ListHosts \/ PullHost \/ PullDone
    \/ \E h \in Hosts, ok \in BOOLEAN : BankHost(h, ok)
    \/ FoldPulled \/ GiveUp \/ Refused \/ Purge

Next ==
    \/ \E s \in Servers, h \in Hosts : \E row \in {Command} \cup CommandsOn(s) : Grow(s, h, row)
    \/ \E s \in Servers : ChangeStanding(s)
    \/ \E s \in Servers \cup {Off} : Start(s) \/ Attach(s)
    \/ Crash \/ Reattach
    \/ \E r \in {"loop", "conn"} : Begin(r)
    \/ SyncOnce

Spec == Init /\ [][Next]_vars

-------------------------------------------------------------------------------
(* Properties *)

Row == {Command} \cup (Hosts \X Nat)
Banked == [recs : [Hosts -> SUBSET (Servers \X Nat)], cur : [Hosts -> Nat]]

\* A file holds finitely many records, so that they can be put in order; a cycle runs
\* for a server and within a daemon.
TypeOK ==
    /\ keep \in Nat
    /\ stream \in [Servers -> [Hosts -> Seq(Row)]]
    /\ up \in BOOLEAN /\ sy \in Servers \cup {Off} /\ csy \in Servers \cup {Off}
    /\ ram \in [Hosts -> Seq(Servers \X Nat)] /\ cursors \in [Hosts -> Nat]
    /\ hydrated \in BOOLEAN /\ latch \in BOOLEAN /\ meta \in BOOLEAN /\ rs \in BOOLEAN
    /\ disk \in Banked /\ kept \in Banked
    /\ \A h \in Hosts : IsFiniteSet(disk.recs[h]) /\ IsFiniteSet(kept.recs[h])
    /\ base \in [Hosts -> Nat] /\ next \in [Hosts -> Nat] /\ todo \subseteq Hosts
    /\ mixed \in BOOLEAN
    /\ pc # "idle" => csy \in Servers /\ up

\* Whatever fails, dies or is re-pointed, a search sees records of the attached
\* server only, each once and oldest first, which is what lets pruneLocked evict
\* the leading ones, and no more of a host than remote_keep.  Excepted are another
\* server attached in the middle of a cycle that a connection asked for, and a
\* remote.db that could not be opened at the start and was opened later, unread,
\* with another server's records in it.
RamFaithful ==
    \A h \in Hosts :
        /\ keep > 0 => Len(ram[h]) <= keep \/ mixed
        /\ ~mixed => \A i \in DOMAIN ram[h] :
                        /\ ram[h][i][1] = sy
                        /\ \A j \in 1..(i - 1) : ram[h][j][2] < ram[h][i][2]

\* The commands of the attached server that a pulled tombstone names.
DeletedOn(s) ==
    UNION {{stream[s][g][j] : j \in DOMAIN stream[s][g] \cap 1..cursors[g]} : g \in Hosts}

Searchable(h, k) == <<sy, k>> \in Range(ram[h])

Evicted(h, k) == keep > 0 /\ cursors[h] >= k + keep

\* A live command that the cursors say was pulled, and that no search finds.
Missed(h, k) ==
    /\ k <= cursors[h] /\ <<h, k>> \in CommandsOn(sy)
    /\ ~Searchable(h, k) /\ <<h, k>> \notin DeletedOn(sy) /\ ~Evicted(h, k)

\* What the cursors say was pulled is searchable, unless it is deleted or older
\* than the newest remote_keep rows: a cursor never moves past a command that this
\* machine then does not have.  Excepted are the rows that remote.db's cursor
\* passed while writing to it failed.
CacheComplete ==
    sy # Off /\ ~mixed =>
        \A h \in Hosts : \A k \in 1..MaxRows : Missed(h, k) => <<sy, <<h, k>>>> \in gap

\* A command whose tombstone was pulled does not come back.  Excepted are a
\* tombstone folded by an earlier cycle than its target, and one that remote.db no
\* longer holds, trimmed as an old row or never written, when the target is read
\* from it again.
DeletedStaysGone ==
    sy # Off /\ ~mixed => \A h \in Hosts : \A k \in 1..MaxRows :
        Searchable(h, k) /\ <<h, k>> \in DeletedOn(sy) =>
            \/ <<sy, <<h, k>>>> \in early
            \/ \E g \in Hosts : \E j \in 1..cursors[g] :
                stream[sy][g][j] = <<h, k>> /\ <<sy, j>> \notin disk.recs[g]

\* Once a server has refused this device, the group's ciphertext is off the disk
\* and nothing brings it back while the daemon runs, and the next start knows.
\* Excepted is the record of it when another server is attached meanwhile.
RevocationHolds ==
    latch => ~rs /\ disk = EmptyFile /\ pc = "idle" /\ (meta \/ mixed)

-------------------------------------------------------------------------------
(* What a comment claims and the code does not do *)

\* remote.go says that a remote.db that cannot be opened "costs a full re-pull" and
\* that "a write failure costs a re-pull next time and nothing more": neither makes
\* a command unsearchable for good.
FailureCostsARepull ==
    sy # Off /\ ~mixed => \A h \in Hosts : \A k \in 1..MaxRows : ~Missed(h, k)
===============================================================================
