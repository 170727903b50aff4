------------------------------ MODULE RecordIndexes ------------------------------
(***************************************************************************)
(* The daemon's tag and prompt indexes (daemon/tags.go, prompts.go): two   *)
(* maps in memory that are folded from tag and prompt records of this      *)
(* machine's store and of the other machines' streams.                     *)
(*                                                                         *)
(* Neither index looks at times or at who wrote a record: what is folded   *)
(* later wins.  A start folds the local store anew and then, with the      *)
(* first cycle, what remote.db still holds of the remote streams; a cache  *)
(* that cannot be opened, or is another server's, is dropped and pulled    *)
(* again from its beginning, over what the indexes already hold.           *)
(*                                                                         *)
(* Some records are passed without being folded: those that remote.db has  *)
(* trimmed or could not store, before a restart; those a delete moves      *)
(* lastSeq past; those of a start's scan that failed.  The history         *)
(* variable `missed` names them.                                           *)
(*                                                                         *)
(* A tag operation puts the one tag on a command or a session, or takes it *)
(* off; a prompt record brings a prompt; a tombstone names a prompt or a   *)
(* command.  Commands themselves are left out: to the indexes and to       *)
(* remote_keep they are one more record, as a command's tombstone is.      *)
(***************************************************************************)
EXTENDS Naturals, Sequences, FiniteSets

CONSTANTS Row,      \* command rows
          SessionOf,\* the session each ran in
          AutoRow,  \* those whose directory an auto_tags rule names
          Prompt,   \* prompts, and which of them other machines record
          Foreign,
          PromptOf, \* the prompt each row's id names
          RemoteKeep, \* remote_keep: how many records remote.db holds, 0 for no bound
          MaxOps    \* bound: records in each stream

Streams == {"local", "remote"}
Sessions == {SessionOf[r] : r \in Row}
Targets == Row \cup Sessions

IndexAssumption ==
  /\ Foreign \subseteq Prompt /\ AutoRow \subseteq Row /\ MaxOps \in [Streams -> Nat]
  /\ Row \cap Sessions = {} /\ Row \cap Prompt = {} /\ PromptOf \in [Row -> Prompt]
  /\ RemoteKeep \in Nat

VARIABLES
  stream,    \* the records of each stream, in the order of their seqs
  folded,    \* how far this daemon is in each: lastSeq, and the pull cursor
  batch,     \* the local rows read but not folded: those above from, up to to
  deleting,  \* tombstones stored whose handler has not dropped the id yet
  held,      \* the remote records that remote.db holds
  cached,    \* the cursor it holds
  hydrated,  \* whether this daemon has folded them, or given up
  tagged,    \* commands and sessions the index has the tag on
  known,     \* prompts the index has
  missed     \* history variable: records passed, but never folded

vars == <<stream, folded, batch, deleting, held, cached, hydrated, tagged, known, missed>>
index == <<tagged, known>>
cache == <<held, cached, hydrated>>

Tag(on, add) == [type |-> "tag", on |-> on, add |-> add]
Said(p) == [type |-> "prompt", on |-> p, add |-> TRUE]
Tombstone(x) == [type |-> "delete", on |-> x, add |-> FALSE]
Kinds == {Tag(t, a) : t \in Targets, a \in BOOLEAN} \cup {Said(p) : p \in Prompt}
         \cup {Tombstone(x) : x \in Row \cup Prompt}

\* The records of each machine: its own prompts once, and the others' tombstones.
Recorded(s) == {stream[s][i] : i \in DOMAIN stream[s]}
Own(s) == IF s = "remote" THEN Foreign ELSE Prompt \ Foreign
MayRecord(s, r) ==
  \/ r.type = "tag"
  \/ r.type = "prompt" /\ r.on \in Own(s) /\ r \notin Recorded(s)
  \/ /\ r.type = "delete" /\ s = "remote" /\ r \notin Recorded(s)
     /\ r.on \in Row \/ Said(r.on) \in Recorded(s)

(***************************************************************************)
(* Folding the records of q at the positions I, in their order.            *)
(***************************************************************************)
OpsOn(q, I, t) == {i \in I : q[i].type = "tag" /\ q[i].on = t}
LastAdds(q, ops) == \E i \in ops : q[i].add /\ \A j \in ops : j <= i
PromptsIn(q, I) == {q[i].on : i \in {k \in I : q[k].type = "prompt"}}
DeletedIn(q, I) == {q[i].on : i \in {k \in I : q[k].type = "delete"}}

\* tagIndex.apply: the last operation on a target decides.
ApplyTags(q, I, have) ==
  {t \in Targets : IF OpsOn(q, I, t) = {} THEN t \in have ELSE LastAdds(q, OpsOn(q, I, t))}

ApplyPrompts(q, I, have) == have \cup PromptsIn(q, I)

\* Mutant: the other machines' tombstones are passed over.
Drop_Never(q, I, have) == have

\* promptIndex.drop, after the prompts of the same batch went in.
Drop(q, I, have) == have \ DeletedIn(q, I)

Fold(q, I) ==
  /\ tagged' = ApplyTags(q, I, tagged)
  /\ known' = Drop(q, I, ApplyPrompts(q, I, known))

NoBatch == [from |-> 0, to |-> 0]

Init ==
  /\ stream = [s \in Streams |-> <<>>] /\ folded = [s \in Streams |-> 0]
  /\ batch = NoBatch /\ deleting = {}
  /\ held = {} /\ cached = 0 /\ hydrated = FALSE
  /\ tagged = {} /\ known = {} /\ missed = [s \in Streams |-> {}]

\* A machine records something; this one deletes through its daemon only (Delete).
Record(s) ==
  /\ Len(stream[s]) < MaxOps[s]
  /\ \E r \in Kinds : MayRecord(s, r) /\ stream' = [stream EXCEPT ![s] = Append(@, r)]
  /\ UNCHANGED <<folded, batch, deleting, cache, index, missed>>

(***************************************************************************)
(* The local store.                                                        *)
(***************************************************************************)
\* refreshCorpus reads the rows above lastSeq, on the ingest goroutine and without
\* the lock.  (When store.Since fails, nothing happens until the next wake.)
ReadRows ==
  /\ batch = NoBatch /\ folded["local"] < Len(stream["local"])
  /\ batch' = [from |-> folded["local"], to |-> Len(stream["local"])]
  /\ UNCHANGED <<stream, folded, deleting, cache, index, missed>>

\* foldRows, under the lock; a delete may have moved lastSeq meanwhile.
FoldRows ==
  /\ batch # NoBatch
  /\ LET I == batch.from + 1..batch.to IN
       /\ Fold(stream["local"], I)
       /\ folded' = [folded EXCEPT !["local"] = IF batch.to > @ THEN batch.to ELSE @]
       /\ missed' = [missed EXCEPT !["local"] = @ \ I]
  /\ batch' = NoBatch
  /\ UNCHANGED <<stream, deleting, cache>>

\* deleteRecord stores a tombstone for a command or a prompt of either machine, ...
Delete(x) ==
  /\ Len(stream["local"]) < MaxOps["local"] /\ x \notin deleting
  /\ x \in Row \/ \E s \in Streams : Said(x) \in Recorded(s)
  /\ stream' = [stream EXCEPT !["local"] = Append(@, Tombstone(x))]
  /\ deleting' = deleting \cup {x}
  /\ UNCHANGED <<folded, batch, cache, index, missed>>

\* ... and under the lock moves lastSeq to the store's, past rows nobody has folded;
\* unless LastSeq fails.
DeleteDrop(x) ==
  /\ x \in deleting /\ deleting' = deleting \ {x}
  /\ \/ /\ folded' = [folded EXCEPT !["local"] = Len(stream["local"])]
        /\ missed' = [missed EXCEPT !["local"] = @ \cup (folded["local"] + 1..Len(stream["local"]))]
     \/ UNCHANGED <<folded, missed>>
  /\ known' = known \ {x}
  /\ UNCHANGED <<stream, batch, cache, tagged>>

(***************************************************************************)
(* The remote streams.                                                     *)
(***************************************************************************)
\* The newest RemoteKeep of some positions.
Newest(I) == {i \in I : RemoteKeep = 0 \/ Cardinality({j \in I : j > i}) < RemoteKeep}

\* rstore.Append of the page pulled, which it then trims; or nothing, as remote.db is
\* not open or the write fails, which is only logged.
StorePage ==
  \/ /\ held' = Newest(held \cup (folded["remote"] + 1..Len(stream["remote"])))
     /\ cached' = Len(stream["remote"])
  \/ UNCHANGED <<held, cached>>

Pulled == hydrated /\ folded["remote"] < Len(stream["remote"])

\* A cycle stores what it pulled, and then fails or dies with the daemon ...
CachePage ==
  /\ Pulled /\ StorePage
  /\ UNCHANGED <<stream, folded, batch, deleting, hydrated, index, missed>>

\* ... or opens and folds it.
FoldRemote ==
  /\ Pulled /\ StorePage
  /\ Fold(stream["remote"], folded["remote"] + 1..Len(stream["remote"]))
  /\ folded' = [folded EXCEPT !["remote"] = Len(stream["remote"])]
  /\ UNCHANGED <<stream, batch, deleting, hydrated, missed>>

\* The first cycle of a daemon folds what the cache holds at once; or remote.db is not
\* open and it goes without; or its records do not open and it is reset.
Hydrate ==
  /\ ~hydrated /\ hydrated' = TRUE
  /\ \/ /\ Fold(stream["remote"], held)
        /\ folded' = [folded EXCEPT !["remote"] = cached]
        /\ missed' = [missed EXCEPT !["remote"] = (1..cached) \ held]
        /\ UNCHANGED <<held, cached>>
     \/ UNCHANGED <<folded, index, held, cached, missed>>
     \/ held' = {} /\ cached' = 0 /\ UNCHANGED <<folded, index, missed>>
  /\ UNCHANGED <<stream, batch, deleting>>

\* attach to another server, where the other machines store the same records anew:
\* cache and cursors are dropped, what the indexes hold stays.  (A reset that fails is
\* RemoteCache's subject.)
PullAgain ==
  /\ held' = {} /\ cached' = 0 /\ hydrated' = FALSE
  /\ folded' = [folded EXCEPT !["remote"] = 0]
  /\ missed' = [missed EXCEPT !["remote"] = {}]
  /\ UNCHANGED <<stream, batch, deleting, index>>

(***************************************************************************)
(* A start.  loadCorpus folds the rows above the snapshot's, k; then       *)
(* TagRecords and PromptRecords fold every such record of the store,       *)
(* tombstones aside.  A scan that fails is only logged.                    *)
(***************************************************************************)
Seed(k, scans) ==
  LET q == stream["local"]
      tail == k + 1..Len(q)
      all == 1..Len(q)
  IN  [tags |-> ApplyTags(q, IF "tag" \in scans THEN all ELSE tail, {}),
       prompts |-> Drop(q, tail, PromptsIn(q, tail))
                     \cup (IF "prompt" \in scans THEN PromptsIn(q, all) ELSE {}),
       passed |-> {i \in 1..k : q[i].type \notin scans}]

Restart ==
  /\ \E seed \in {Seed(k, scans) : k \in 0..Len(stream["local"]), scans \in SUBSET {"tag", "prompt"}} :
       /\ tagged' = seed.tags /\ known' = seed.prompts
       /\ missed' = [s \in Streams |-> IF s = "local" THEN seed.passed ELSE {}]
  /\ folded' = [s \in Streams |-> IF s = "local" THEN Len(stream[s]) ELSE 0]
  /\ batch' = NoBatch /\ deleting' = {} /\ hydrated' = FALSE
  /\ UNCHANGED <<stream, held, cached>>

Next ==
  \/ \E s \in Streams : Record(s)
  \/ ReadRows \/ FoldRows
  \/ \E x \in Row \cup Prompt : Delete(x) \/ DeleteDrop(x)
  \/ CachePage \/ FoldRemote \/ Hydrate \/ PullAgain
  \/ Restart

Spec == Init /\ [][Next]_vars

(***************************************************************************)
(* Reading.                                                                *)
(***************************************************************************)
Effective(r) == r \in tagged \/ SessionOf[r] \in tagged \/ r \in AutoRow
Count == Cardinality({r \in Row : Effective(r)})
HydratePrompt(r) == IF PromptOf[r] \in known THEN {PromptOf[r]} ELSE {}

(***************************************************************************)
(* Properties.                                                             *)
(***************************************************************************)
Ops(s, t) == OpsOn(stream[s], DOMAIN stream[s], t)
CaughtUp == \A s \in Streams : folded[s] = Len(stream[s])
Heard(s) == DOMAIN stream[s] \ missed[s]

\* Once a daemon is at the end of both streams, through whatever starts, deletes, pages,
\* lost caches and second pulls, the tag is on a command or session that only one machine
\* ever tagged just when the last word this daemon was given of that machine says so;
\* and another machine's prompt, unless deleted here, is there just when the daemon was
\* given it and not its tombstone.  It is given every record but those it `missed`.
IndexesSettle ==
  CaughtUp =>
    /\ \A s \in Streams, t \in Targets :
         (\A o \in Streams \ {s} : Ops(o, t) = {}) =>
           (t \in tagged <=> LastAdds(stream[s], Ops(s, t) \ missed[s]))
    /\ \A p \in Foreign :
         Tombstone(p) \notin Recorded("local") =>
           (p \in known <=> /\ p \in PromptsIn(stream["remote"], Heard("remote"))
                            /\ p \notin DeletedIn(stream["remote"], Heard("remote")))

\* prompts.go says of drop that it "removes prompt records for the given ids (a
\* tombstone applied to a prompt ...)": a deleted prompt is not shown again.  The code
\* does not keep it: a restart seeds the index with the local prompts, deleted ones too.
DeletedPromptsGone ==
  CaughtUp => \A p \in Prompt, s \in Streams :
    Tombstone(p) \in Recorded(s) => \A r \in Row : p \notin HydratePrompt(r)
================================================================================
