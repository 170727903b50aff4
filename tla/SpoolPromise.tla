------------------------------ MODULE SpoolPromise ------------------------------
(***************************************************************************)
(* What the spool (internal/spool) promises: a record is published in one  *)
(* step, and it is not taken away before it has been delivered, or a read  *)
(* of it has failed.  Names reach the disk later, and a loss of power      *)
(* leaves those that did.                                                  *)
(***************************************************************************)
CONSTANTS
    Writers,        \* the calls of spool.Append, one record each
    MayLosePower

VARIABLES
    published,      \* the records whose Append returned nil
    spooled,        \* the records a drain would find
    durable,        \* those it would find after a loss of power
    delivered,      \* the records handed to the store
    unread          \* those that could not be read when they were to be handed on

vars == <<published, spooled, durable, delivered, unread>>

Init == published = {} /\ spooled = {} /\ durable = {} /\ delivered = {} /\ unread = {}

Publish(w) ==
    /\ w \notin published
    /\ published' = published \cup {w}
    /\ spooled' = spooled \cup {w}
    /\ UNCHANGED <<durable, delivered, unread>>

Deliver(w) ==
    /\ w \in spooled
    /\ delivered' = delivered \cup {w}
    /\ UNCHANGED <<published, spooled, durable, unread>>

FailRead(w) ==
    /\ w \in spooled
    /\ unread' = unread \cup {w}
    /\ UNCHANGED <<published, spooled, durable, delivered>>

Remove(w) ==
    /\ w \in delivered \cup unread
    /\ spooled' = spooled \ {w}
    /\ UNCHANGED <<published, durable, delivered, unread>>

Settle(w) ==
    /\ durable' = IF w \in spooled THEN durable \cup {w} ELSE durable \ {w}
    /\ UNCHANGED <<published, spooled, delivered, unread>>

LosePower ==
    /\ MayLosePower
    /\ spooled' = durable
    /\ UNCHANGED <<published, durable, delivered, unread>>

Next ==
    \/ \E w \in Writers : Publish(w) \/ Deliver(w) \/ FailRead(w) \/ Remove(w) \/ Settle(w)
    \/ LosePower

Spec == Init /\ [][Next]_vars
===============================================================================
