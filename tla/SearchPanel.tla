------------------------------ MODULE SearchPanel ------------------------------
(***************************************************************************)
(* The panel that the shell's search key opens (tui/search/model.go): the  *)
(* question being typed, the queries it issues, each answered by the       *)
(* daemon on a goroutine, and the window over the rows of the last answer  *)
(* applied.  An answer carries the number of its question; here also what  *)
(* the question was, and how many rows came back.                          *)
(***************************************************************************)
EXTENDS Integers

CONSTANTS Text,       \* what may be typed
          Vim,        \* the vim keymap is on
          Pinned,     \* --executor was given
          RowCount,   \* how many rows an answer may have
          Visible,    \* how many the panel may have room for
          HelpLines,  \* the length of the key list
          MaxAsk      \* bound: questions asked

PanelAssumption ==
  /\ Vim \in BOOLEAN /\ Pinned \in BOOLEAN
  /\ RowCount \subseteq Nat /\ Visible \subseteq Nat \ {0} /\ {HelpLines, MaxAsk} \subseteq Nat

VARIABLES
  ask,              \* what the panel now asks for
  seq, appliedSeq,
  queries,          \* those out, with their answer once there is one
  rows,             \* of the answer applied: the question it answers, how many rows
  failed,           \* lastErr
  sel, top, visible,
  normal,           \* vim's navigation sub-mode
  help, helpTop,    \* the key list covers the rows
  done              \* "", "accepted" or "cancelled"

asked == <<ask, seq, queries>>
shown == <<rows, failed, appliedSeq>>
window == <<sel, top, visible>>
mode == <<normal, help, helpTop, done>>
vars == <<asked, shown, window, mode>>

Scope == {"local", "all", "session", "cwd", "workspace"}
InitialScope(s) == IF s \in Scope THEN s ELSE "local"
NextScope(s) ==
  CASE s = "local" -> "all" [] s = "all" -> "session" [] s = "session" -> "cwd"
    [] s = "cwd" -> "workspace" [] OTHER -> "local"

Unanswered == -1
Clamped(v, lo, hi) == IF v > hi THEN (IF hi < lo THEN lo ELSE hi) ELSE IF v < lo THEN lo ELSE v

(* The window moves as little as keeps row s in it and no room is wasted.  *)
WindowTop(s, t, n, v) ==
  LET low == IF s < t THEN s ELSE t
      held == IF s >= low + v THEN s - v + 1 ELSE low
  IN  IF held > n - v THEN Clamped(n - v, 0, n) ELSE held
ClampWindow(s, t, n, v) == sel' = s /\ top' = WindowTop(s, t, n, v) /\ visible' = v

IssueQuery(q) ==
  /\ seq < MaxAsk /\ seq' = seq + 1 /\ ask' = q
  /\ queries' = queries \cup {[seq |-> seq + 1, ask |-> q, n |-> Unanswered]}

Init ==
  /\ \E t \in Text, s \in {"", "workspace"}, hide \in BOOLEAN :
       ask = [q |-> t, scope |-> InitialScope(s), dedupe |-> TRUE, frecency |-> FALSE,
              fuzzy |-> FALSE, humanOnly |-> hide /\ ~Pinned]
  /\ seq = 1 /\ appliedSeq = 0 /\ queries = {[seq |-> 1, ask |-> ask, n |-> Unanswered]}
  /\ rows = [ask |-> ask, n |-> 0] /\ failed = FALSE
  /\ sel = 0 /\ top = 0 /\ visible \in Visible
  /\ normal = FALSE /\ help = FALSE /\ helpTop = 0 /\ done = ""

--------------------------------------------------------------------------------
(* The daemon answers, or the call fails; the answer waits to be applied.  *)
Failure == -2
Answer == \E c \in queries :
  /\ done = "" /\ c.n = Unanswered
  /\ \E n \in RowCount \cup {Failure} : queries' = (queries \ {c}) \cup {[c EXCEPT !.n = n]}
  /\ UNCHANGED <<ask, seq, shown, window, mode>>

Stale_Never(c) == FALSE
Stale(c) == c.seq <= appliedSeq

ApplyResult == \E c \in queries :
  /\ done = "" /\ c.n # Unanswered /\ queries' = queries \ {c}
  /\ UNCHANGED <<ask, seq, mode>>
  /\ IF Stale(c) THEN UNCHANGED <<shown, window>>
     ELSE /\ appliedSeq' = c.seq
          /\ failed' = (c.n = Failure)
          /\ IF failed' THEN UNCHANGED <<rows, window>>
             ELSE rows' = [ask |-> c.ask, n |-> c.n] /\ ClampWindow(0, 0, c.n, visible)

Resize ==
  /\ done = "" /\ \E v \in Visible \ {visible} : ClampWindow(sel, top, rows.n, v)
  /\ UNCHANGED <<asked, shown, mode>>

--------------------------------------------------------------------------------
(* Keys: the list swallows them while it is up, then vim's sub-mode.       *)
Open == done = "" /\ ~help
Finish(how) == done' = how /\ UNCHANGED <<asked, shown, window, normal, help, helpTop>>

Escape ==
  /\ Open
  /\ IF Vim /\ ~normal
       THEN normal' = TRUE /\ UNCHANGED <<asked, shown, window, help, helpTop, done>>
       ELSE Finish("cancelled")

(* enter takes the row under the cursor, or the text where there are none. *)
Accept == Open /\ Finish("accepted")

(* ctrl+c leaves the panel from anywhere. *)
Cancel == done = "" /\ Finish("cancelled")

Asking(q) == Open /\ IssueQuery(q) /\ UNCHANGED <<shown, window, mode>>

CycleScope == Asking([ask EXCEPT !.scope = NextScope(@)])
ToggleOption ==
  /\ ~normal
  /\ \/ Asking([ask EXCEPT !.dedupe = ~@])
     \/ Asking([ask EXCEPT !.frecency = ~@])
     \/ Asking([ask EXCEPT !.fuzzy = ~@])
ToggleHideAgents == ~Pinned /\ Asking([ask EXCEPT !.humanOnly = ~@])
Type == ~normal /\ \E t \in Text \ {ask.q} : Asking([ask EXCEPT !.q = t])

HandleNormalKey ==
  /\ Open /\ normal /\ normal' = FALSE /\ UNCHANGED <<asked, shown, window, help, helpTop, done>>

(* up and down, and in the sub-mode g and G. *)
MoveSel ==
  /\ Open /\ UNCHANGED <<asked, shown, mode>>
  /\ \/ rows.n > 0 /\ \E d \in {-1, 1} :
          ClampWindow(Clamped(sel + d, 0, rows.n - 1), top, rows.n, visible)
     \/ normal /\ ClampWindow(0, 0, rows.n, visible)
     \/ normal /\ rows.n > 0 /\ ClampWindow(rows.n - 1, top, rows.n, visible)

HelpMaxTop == Clamped(HelpLines - visible, 0, HelpLines)
OpenHelp == Open /\ help' = TRUE /\ helpTop' = 0 /\ UNCHANGED <<asked, shown, window, normal, done>>
HandleHelpKey ==
  /\ done = "" /\ help /\ UNCHANGED <<asked, shown, window, normal, done>>
  /\ \/ help' = FALSE /\ helpTop' = 0
     \/ \E d \in {-1, 0, 1} : helpTop' = Clamped(helpTop + d, 0, HelpMaxTop) /\ UNCHANGED help

Next == \/ Answer \/ ApplyResult \/ Resize \/ Escape \/ Accept \/ Cancel
        \/ CycleScope \/ ToggleOption \/ ToggleHideAgents \/ Type \/ HandleNormalKey
        \/ MoveSel \/ OpenHelp \/ HandleHelpKey
Spec == Init /\ [][Next]_vars

--------------------------------------------------------------------------------
(* Once every answer is in, the rows on screen are those of the question   *)
(* on screen, in whatever order the answers came, unless the panel says    *)
(* that its last query failed; and whatever came back and however the      *)
(* terminal was resized, the cursor is on a row and in the window, with no *)
(* line left empty under the last row while rows are hidden above.         *)
PanelSettles ==
  /\ queries = {} /\ ~failed => rows.ask = ask
  /\ sel \in 0..Clamped(rows.n - 1, 0, rows.n)
  /\ top <= sel /\ sel < top + visible
  /\ top > 0 => top + visible <= rows.n
================================================================================
