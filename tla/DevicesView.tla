------------------------------ MODULE DevicesView ------------------------------
(***************************************************************************)
(* The browser's devices view (tui/browse/devices.go): the machines of the *)
(* group over the enrolment tokens, what the keys ask of the daemon, and   *)
(* the answers.  Every call runs in a goroutine on a connection of its own *)
(* and its answer carries no number: answers are applied as they come.  An *)
(* action is followed by a fetch of the list it changes, in the same call. *)
(*                                                                         *)
(* A list is drawn in the order of its column; a row here is its rank.     *)
(***************************************************************************)
EXTENDS Naturals, FiniteSets

CONSTANTS Device,    \* machines that may be in the group
          Self,      \* this one
          Token,     \* tokens that may be minted
          MaxOut     \* bound: calls that are out at once, no two of them alike

IdAssumption == /\ Device \subseteq Nat /\ Token \subseteq Nat /\ Self \in Device
                       /\ IsFiniteSet(Device) /\ IsFiniteSet(Token)
OutAssumption == MaxOut \in Nat

VARIABLES
  group,        \* the server's: status of each machine, "" while it is unknown
  issued,       \* the server's: state of each token
  calls,        \* those that are out
  devices, tokens,             \* the lists held: status of each row's machine, token
  devSel, tokSel,
  pane, zoomed,                \* "devices" or "tokens" has the focus; it fills the frame
  refreshing,
  minting, minted,             \* a mint is out; tokens on screen, at most one
  confirm                      \* the question armed, or NoQuestion

server == <<group, issued>>
lists == <<devices, tokens, devSel, tokSel, refreshing>>
mint == <<minting, minted>>
look == <<pane, zoomed>>
vars == <<server, calls, lists, mint, look, confirm>>

Status == {"pending", "active", "revoked"}
State == {"open", "claimed", "revoked"}
NoQuestion == [kind |-> "none", id |-> 0, approve |-> FALSE]
Question(kind, id, approve) == [kind |-> kind, id |-> id, approve |-> approve]
Empty == [i \in {} |-> ""]

(* A call: what it asks, of which id, how far it is ("asked", then        *)
(* "acted", then "answered"), and what it brings back.                    *)
Call(op, id) == [op |-> op, id |-> id, at |-> IF op \in {"devices", "tokens"} THEN "acted" ELSE "asked",
                 rows |-> Empty]
Send(cs) == Cardinality(calls) + Cardinality(cs) <= MaxOut /\ cs \cap calls = {}
            /\ calls' = calls \cup cs
RefreshDevices == {Call("devices", 0), Call("tokens", 0)}

Init ==
  /\ group \in [Device -> {"", "pending", "active"}] /\ group[Self] = "active"
  /\ issued \in [Token -> {"", "open", "claimed"}]
  /\ devices = Empty /\ tokens = Empty /\ devSel = 0 /\ tokSel = 0
  /\ pane = "devices" /\ zoomed = FALSE /\ refreshing = FALSE
  /\ minting = FALSE /\ minted = {} /\ confirm = NoQuestion
  /\ calls = RefreshDevices

(* Elsewhere: a machine enrols, with a token that it claims; another       *)
(* member approves or revokes.                                             *)
Elsewhere ==
  /\ UNCHANGED <<calls, lists, mint, look, confirm>>
  /\ \/ \E d \in Device, t \in Token :
          /\ group[d] = "" /\ issued[t] = "open"
          /\ group' = [group EXCEPT ![d] = "pending"] /\ issued' = [issued EXCEPT ![t] = "claimed"]
     \/ \E d \in Device \ {Self} : group[d] \in {"pending", "active"} /\ UNCHANGED issued
          /\ group' = [group EXCEPT ![d] = IF @ = "pending" THEN "active" ELSE "revoked"]

--------------------------------------------------------------------------------
(* The daemon's side of a call: the action, which may fail, then the fetch *)
(* of the list, which may fail too.                                        *)
Replace(c, d) == calls' = (calls \ {c}) \cup {d}

Act == \E c \in calls :
  /\ c.at = "asked" /\ UNCHANGED <<lists, mint, look, confirm>>
  /\ \/ Replace(c, [c EXCEPT !.at = IF c.op = "mint" THEN "failed" ELSE "acted"]) /\ UNCHANGED server
     \/ /\ Replace(c, [c EXCEPT !.at = "acted"])
        /\ CASE c.op = "approve" ->
                  /\ group' = [group EXCEPT ![c.id] = IF @ = "pending" THEN "active" ELSE @]
                  /\ UNCHANGED issued
             [] c.op = "revoke" -> group' = [group EXCEPT ![c.id] = "revoked"] /\ UNCHANGED issued
             [] c.op = "revokeToken" ->
                  /\ issued' = [issued EXCEPT ![c.id] = IF @ = "open" THEN "revoked" ELSE @]
                  /\ UNCHANGED group
             [] OTHER -> /\ issued[c.id] = "" /\ issued' = [issued EXCEPT ![c.id] = "open"]
                         /\ UNCHANGED group

Known(f) == [i \in {j \in DOMAIN f : f[j] # ""} |-> f[i]]

Fetch == \E c \in calls :
  /\ c.at = "acted" /\ UNCHANGED <<server, lists, mint, look, confirm>>
  /\ IF c.op = "mint" THEN Replace(c, [c EXCEPT !.at = "answered"])
     ELSE \/ Replace(c, [c EXCEPT !.at = "answered"])
          \/ Replace(c, [c EXCEPT !.at = "answered",
                           !.rows = Known(IF c.op \in {"tokens", "revokeToken"} THEN issued ELSE group)])

Taken(c) == c \in calls /\ c.at = "answered" /\ calls' = calls \ {c}
Kept(sel, rows) == IF sel >= Cardinality(DOMAIN rows) THEN 0 ELSE sel

ApplyDevices == \E c \in calls :
  /\ c.op \in {"devices", "approve", "revoke"} /\ Taken(c)
  /\ devices' = c.rows /\ devSel' = Kept(devSel, c.rows) /\ refreshing' = FALSE
  /\ UNCHANGED <<server, tokens, tokSel, mint, look, confirm>>

ApplyTokens == \E c \in calls :
  /\ c.op \in {"tokens", "revokeToken"} /\ Taken(c)
  /\ tokens' = c.rows /\ tokSel' = Kept(tokSel, c.rows)
  /\ UNCHANGED <<server, devices, devSel, refreshing, mint, look, confirm>>

(* The plaintext is put on screen and the list beneath it fetched again.   *)
ApplyMinted == \E c \in calls :
  /\ c.op = "mint" /\ minting' = FALSE
  /\ \/ c.at = "failed" /\ calls' = calls \ {c} /\ UNCHANGED minted
     \/ c.at = "answered" /\ minted' = {c.id} /\ calls' = (calls \ {c}) \cup {Call("tokens", 0)}
  /\ UNCHANGED <<server, devices, tokens, devSel, tokSel, refreshing, look, confirm>>

--------------------------------------------------------------------------------
(* The row the cursor is on, at most one. *)
RowAt(sel, rows) == {r \in DOMAIN rows : Cardinality({q \in DOMAIN rows : q < r}) = sel}

Answered ==
  /\ confirm # NoQuestion /\ confirm' = NoQuestion
  /\ \/ UNCHANGED calls
     \/ Send({Call(CASE confirm.kind = "tokens" -> "revokeToken"
                               [] confirm.approve -> "approve" [] OTHER -> "revoke", confirm.id)})
  /\ UNCHANGED <<server, lists, mint, look>>

Free == confirm = NoQuestion /\ UNCHANGED server

Dismiss == Free /\ minted # {} /\ minted' = {}
           /\ UNCHANGED <<calls, lists, minting, look, confirm>>

(* Leaving and coming back fetches both lists; S does so where one is on   *)
(* screen.                                                                 *)
EnterDevices ==
  /\ Free /\ Send(RefreshDevices)
  /\ pane' = "devices" /\ zoomed' = FALSE /\ UNCHANGED <<lists, mint, confirm>>
Refresh ==
  /\ Free /\ ~refreshing /\ refreshing' = TRUE /\ Send(RefreshDevices)
  /\ UNCHANGED <<devices, tokens, devSel, tokSel, mint, look, confirm>>

Look == /\ Free /\ UNCHANGED <<calls, lists, mint, confirm>>
        /\ \/ pane' = (IF pane = "devices" THEN "tokens" ELSE "devices") /\ UNCHANGED zoomed
           \/ zoomed' = ~zoomed /\ UNCHANGED pane

(* A click aims at the other pane where it is on screen, question or not.  *)
Click == /\ ~zoomed /\ pane' \in {"devices", "tokens"} /\ UNCHANGED zoomed
         /\ UNCHANGED <<server, calls, lists, mint, confirm>>

(* Keys move the cursor of the list with the focus, the wheel that of a    *)
(* list on screen, a question armed or not.                                *)
MoveDevCursor ==
  /\ UNCHANGED <<server, calls, devices, tokens, refreshing, mint, look, confirm>>
  /\ \/ /\ ~zoomed \/ pane = "tokens"
        /\ tokSel' \in 0..Cardinality(DOMAIN tokens) /\ UNCHANGED devSel
        /\ RowAt(tokSel', tokens) # {}
     \/ /\ ~zoomed \/ pane = "devices"
        /\ devSel' \in 0..Cardinality(DOMAIN devices) /\ UNCHANGED tokSel
        /\ RowAt(devSel', devices) # {}

MintAllowed_OverToken == ~minting
MintAllowed == ~minting /\ minted = {}

Mint ==
  /\ Free /\ MintAllowed /\ minting' = TRUE
  /\ \E t \in Token : /\ issued[t] = "" /\ \A c \in calls : c.op = "mint" => c.id # t
                      /\ Send({Call("mint", t)})
  /\ UNCHANGED <<lists, minted, look, confirm>>

Approve ==
  /\ Free /\ pane = "devices"
  /\ \E d \in RowAt(devSel, devices) : devices[d] = "pending" /\ confirm' = Question("devices", d, TRUE)
  /\ UNCHANGED <<calls, lists, mint, look>>

Revoke ==
  /\ Free /\ UNCHANGED <<calls, lists, mint, look>>
  /\ \/ pane = "tokens" /\ \E t \in RowAt(tokSel, tokens) :
          tokens[t] = "open" /\ confirm' = Question("tokens", t, FALSE)
     \/ pane = "devices" /\ \E d \in RowAt(devSel, devices) :
          devices[d] # "revoked" /\ d # Self /\ confirm' = Question("devices", d, FALSE)

Next == \/ Elsewhere \/ Act \/ Fetch \/ ApplyDevices \/ ApplyTokens \/ ApplyMinted
        \/ Answered \/ Dismiss \/ EnterDevices \/ Refresh \/ Look \/ Click \/ MoveDevCursor
        \/ Mint \/ Approve \/ Revoke
Spec == Init /\ [][Next]_vars

--------------------------------------------------------------------------------
(* A minted token's plaintext "exists nowhere else and can never be shown  *)
(* again": whatever is in flight, it stays on screen until the user        *)
(* dismisses it.                                                           *)
MintedKept == [][minted # {} => minted' \in {minted, {}}]_vars
================================================================================
