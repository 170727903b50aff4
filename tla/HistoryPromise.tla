---------------------------- MODULE HistoryPromise ----------------------------
(***************************************************************************)
(* What the local history promises, without files, transactions or a       *)
(* daemon: a record that was accepted may be recorded, once; a recorded    *)
(* command is live until somebody deletes it; nothing brings it back.      *)
(*                                                                         *)
(* It does not promise that every accepted record is recorded, because the *)
(* code does not keep that promise (see LostOnlyInDrain in LocalHistory).  *)
(***************************************************************************)
CONSTANTS Ids, Commands, Imports, Foreign

VARIABLES
    accepted, \* ids handed to the spool, and whatever the importer may bring
    recorded, \* ids in the store
    deleted,  \* ids with a tombstone
    live      \* ids of the commands a search may return

pvars == <<accepted, recorded, deleted, live>>

PromiseInit ==
    accepted = Imports /\ recorded = {} /\ deleted = {} /\ live = {}

Accept(i) ==
    /\ accepted' = accepted \cup {i}
    /\ UNCHANGED <<recorded, deleted, live>>

\* A batch is recorded as a whole and every command in it becomes live.
Record(batch) ==
    /\ batch \subseteq accepted \ recorded
    /\ recorded' = recorded \cup batch
    /\ live' = live \cup (batch \cap Commands)
    /\ UNCHANGED <<accepted, deleted>>

Delete(i) ==
    /\ i \in recorded \cup Foreign
    /\ deleted' = deleted \cup {i}
    /\ live' = live \ {i}
    /\ UNCHANGED <<accepted, recorded>>

PromiseNext ==
    \/ \E i \in Ids : Accept(i) \/ Delete(i)
    \/ \E batch \in SUBSET (accepted \ recorded) : Record(batch)

PromiseSpec == PromiseInit /\ [][PromiseNext]_pvars

\* Deleting is final: a recorded command is live exactly if nobody deleted it.
LiveUnlessDeleted == live = (recorded \cap Commands) \ deleted
===============================================================================
