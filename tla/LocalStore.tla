------------------------------ MODULE LocalStore ------------------------------
(***************************************************************************)
(* The bbolt database of one machine (internal/store), as operators on its *)
(* history bucket.                                                         *)
(*                                                                         *)
(* A history is a sequence of rows; the seq that NextSequence hands out is *)
(* a row's position, because no transaction ever deletes a row.  The ids   *)
(* bucket is written in the same transaction as the row and never changed  *)
(* afterwards, so it is the inverse of the history (Indexed).  A row keeps *)
(* what the daemon's behaviour depends on: its id, the id it tombstones    *)
(* and whether DeletedMs is set.  Tombstones are written with a fresh ULID *)
(* nobody else can name, so they all carry NoId.                           *)
(***************************************************************************)
EXTENDS Naturals, Sequences

CONSTANTS
    Ids,        \* record ids: ULIDs, or the deterministic ids of an import
    Commands,   \* the ids of command records; the rest are tag or prompt records
    NoId        \* no id: "" in TargetID, and the unnameable id of a tombstone

ASSUME IdsAssumption == Commands \subseteq Ids /\ NoId \notin Ids

Row == [id : Ids \cup {NoId}, target : Ids \cup {NoId}, dead : BOOLEAN]

RecordRow(i) == [id |-> i, target |-> NoId, dead |-> FALSE]

Tombstone(i) == [id |-> NoId, target |-> i, dead |-> FALSE]

\* Mutant: DeletedMs is not looked at.
IsCommand_Deleted(r) == r.id \in Commands

\* IsCommand: tombstones, tag ops and prompts are no commands, and a deleted
\* command is no longer live.
IsCommand(r) == r.id \in Commands /\ ~r.dead

Indexed(h, i) == \E n \in DOMAIN h : h[n].id = i

\* What a tombstone does to the row it names, if that row is in this store.
Stamped(h, i) ==
    [n \in DOMAIN h |-> IF i # NoId /\ h[n].id = i THEN [h[n] EXCEPT !.dead = TRUE]
                                                   ELSE h[n]]

\* Mutant: the target is not marked.
AppendOne_NoStamp(h, r) == IF r.id # NoId /\ Indexed(h, r.id) THEN h ELSE Append(h, r)

\* appendOne inside a transaction: a known id is a no-op.
AppendOne(h, r) ==
    IF r.id # NoId /\ Indexed(h, r.id) THEN h ELSE Append(Stamped(h, r.target), r)

LastSeq(h) == Len(h)

\* Mutant: the row after n is not returned.
Since_SkipsOne(h, n) == [k \in (n + 2)..Len(h) |-> h[k]]

\* The raw stream above seq n, keyed by seq, tombstones and deleted rows included.
Since(h, n) == [k \in (n + 1)..Len(h) |-> h[k]]

\* The live commands, by seq.
All(h) == {n \in DOMAIN h : IsCommand(h[n])}

\* The same set, as a machine that only replays the raw stream computes it.
TombstonedIds(h) == {h[n].target : n \in DOMAIN h} \ {NoId}

Replayed(h) == {n \in DOMAIN h : h[n].id \in Commands \ TombstonedIds(h)}
===============================================================================
