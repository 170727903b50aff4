----------------------------- MODULE Screens_proofs ----------------------------
(***************************************************************************)
(* What the screens never do, for any records, sizes, machines, texts,     *)
(* agents and bounds.  A behaviour plays one part, so that a step of the   *)
(* screens is a step of each part or leaves it alone (PartSteps), and each *)
(* part's invariant is proved on its own steps:                            *)
(*                                                                         *)
(*   - search panel: the newest question is out or answered, requests have *)
(*     numbers of their own, and the window is around the cursor           *)
(*     (PanelInv);                                                         *)
(*   - devices view: at most one mint is out, and then no token is on      *)
(*     screen (MintInv);                                                   *)
(*   - browser: the newest request, the delete under way and the guards of *)
(*     the records deleted say which answers may still be applied          *)
(*     (BrowserInv);                                                       *)
(*   - panes: sizes are positive, ratios are numbers, and the geometry     *)
(*     held tiles the frame (PaneTypes, GeoInv); a dragged seam comes back *)
(*     where it was put (SeamFresh, RoundTrip);                            *)
(*   - explorer: each list is laid out from what it is derived of, and the *)
(*     cursors are on its rows (AgentInv).                                 *)
(***************************************************************************)
EXTENDS Screens, FiniteSetTheorems, SequenceTheorems, TLAPS

\* A step of the screens is a step of each part, or leaves it alone.
LEMMA PartSteps ==
  ASSUME [ScreensNext]_screenVars
  PROVE  /\ [Next]_vars /\ [Pane!Next]_paneVars /\ [Machines!Next]_deviceVars
         /\ [Panel!Next]_panelVars /\ [Agents!Next]_agentVars
<1>1. UNCHANGED tableVars => UNCHANGED vars
  BY DEF vars, tableVars, daemon, table, question, warming, reported, sample, guard, batch
<1>2. /\ Next \/ UNCHANGED tableVars
      /\ Pane!Next \/ UNCHANGED paneVars
      /\ Machines!Next \/ UNCHANGED deviceVars
      /\ Panel!Next \/ UNCHANGED panelVars
      /\ Agents!Next \/ UNCHANGED agentVars
  <2>1. CASE ScreensNext
    BY <2>1 DEF ScreensNext
  <2>2. CASE UNCHANGED screenVars
    BY <2>2 DEF screenVars
  <2> QED
    BY <2>1, <2>2
<1> QED
  BY <1>1, <1>2

(***************************************************************************)
(* SearchPanel                                                             *)
(***************************************************************************)
\* The newest question is the one on screen: it is out, or its answer was applied.
NumbersOK ==
  /\ panelSeq \in Nat /\ applied \in 0..panelSeq
  /\ \A c \in queries : c.seq \in 1..panelSeq /\ c.seq # applied
  /\ \A c \in queries : c.seq = panelSeq => c.ask = ask
  /\ \/ \E c \in queries : c.seq = panelSeq
     \/ applied = panelSeq /\ (failed \/ panelRows.ask = ask)
AnswersOK ==
  /\ \A c, d \in queries : c.seq = d.seq => c = d
  /\ \A c \in queries : c = [seq |-> c.seq, ask |-> c.ask, n |-> c.n]
  /\ \A c \in queries : c.n \in Nat \cup {Panel!Unanswered, Panel!Failure}

\* The cursor is on a row and in the window, which wastes no line.
WindowOK ==
  /\ panelRows.n \in Nat /\ panelSel \in Nat /\ top \in Nat /\ visible \in Nat \ {0}
  /\ panelSel = 0 \/ panelSel < panelRows.n
  /\ top <= panelSel /\ panelSel < top + visible
  /\ top > 0 => top + visible <= panelRows.n

PanelInv == NumbersOK /\ AnswersOK /\ WindowOK

LEMMA WindowFits ==
  ASSUME NEW s \in Nat, NEW t \in Nat, NEW n \in Nat, NEW v \in Nat \ {0}, s = 0 \/ s < n
  PROVE  LET new == Panel!WindowTop(s, t, n, v) IN
         /\ new \in Nat /\ new <= s /\ s < new + v
         /\ new > 0 => new + v <= n
<1>1. CASE s < t
  BY <1>1 DEF Panel!WindowTop, Panel!Clamped
<1>2. CASE ~(s < t) /\ s >= t + v
  BY <1>2 DEF Panel!WindowTop, Panel!Clamped
<1>3. CASE ~(s < t) /\ ~(s >= t + v)
  BY <1>3 DEF Panel!WindowTop, Panel!Clamped
<1> QED
  BY <1>1, <1>2, <1>3

LEMMA PanelInit == Panel!Init => PanelInv
<1> SUFFICES ASSUME Panel!Init PROVE PanelInv
  OBVIOUS
<1>1. /\ panelSeq = 1 /\ applied = 0 /\ queries = {[seq |-> 1, ask |-> ask, n |-> Panel!Unanswered]}
      /\ panelRows = [ask |-> ask, n |-> 0] /\ panelSel = 0 /\ top = 0 /\ visible \in Visible
  BY DEF Panel!Init
<1>2. visible \in Nat \ {0}
  BY <1>1, PanelAssumption DEF Panel!PanelAssumption
<1> QED
  BY <1>1, <1>2 DEF PanelInv, NumbersOK, AnswersOK, WindowOK

\* A new question is out, numbered above all others.
LEMMA PanelAsks ==
  ASSUME PanelInv, NEW q, Panel!Asking(q)
  PROVE  PanelInv'
<1> DEFINE new == [seq |-> panelSeq + 1, ask |-> q, n |-> Panel!Unanswered]
<1>1. /\ panelSeq' = panelSeq + 1 /\ ask' = q /\ queries' = queries \cup {new}
      /\ UNCHANGED <<panelRows, failed, applied, panelSel, top, visible>>
  BY DEF Panel!Asking, Panel!IssueQuery, Panel!shown, Panel!window
<1>2. new.seq = panelSeq + 1 /\ new.ask = q /\ new.n = Panel!Unanswered
      /\ new = [seq |-> new.seq, ask |-> new.ask, n |-> new.n]
  OBVIOUS
<1>3. \A c \in queries' : c = new \/ c \in queries
  BY <1>1
<1>4. new \in queries'
  BY <1>1
<1> HIDE DEF new
<1>5. NumbersOK'
  BY <1>1, <1>2, <1>3, <1>4 DEF PanelInv, NumbersOK
<1>6. AnswersOK'
  BY <1>1, <1>2, <1>3, <1>4 DEF PanelInv, NumbersOK, AnswersOK
<1>7. WindowOK'
  BY <1>1 DEF PanelInv, WindowOK
<1> QED
  BY <1>5, <1>6, <1>7 DEF PanelInv

LEMMA PanelAnswers ==
  ASSUME PanelInv, Panel!Answer
  PROVE  PanelInv'
<1>1. PICK c \in queries : 
        /\ \E n \in RowCount \cup {Panel!Failure} : queries' = (queries \ {c}) \cup {[c EXCEPT !.n = n]}
        /\ UNCHANGED <<ask, panelSeq, panelRows, failed, applied, panelSel, top, visible>>
  BY DEF Panel!Answer, Panel!shown, Panel!window
<1>2. PICK n \in RowCount \cup {Panel!Failure} : queries' = (queries \ {c}) \cup {[c EXCEPT !.n = n]}
  BY <1>1
<1>3. n \in Nat \cup {Panel!Unanswered, Panel!Failure}
  BY PanelAssumption DEF Panel!PanelAssumption
<1>4. c = [seq |-> c.seq, ask |-> c.ask, n |-> c.n]
  BY DEF PanelInv, AnswersOK
<1>5. PICK d : d = [c EXCEPT !.n = n]
  OBVIOUS
<1>6. d.seq = c.seq /\ d.ask = c.ask /\ d.n = n /\ d = [seq |-> d.seq, ask |-> d.ask, n |-> d.n]
  BY <1>4, <1>5
<1>7. queries' = (queries \ {c}) \cup {d}
  BY <1>2, <1>5
<1>8. NumbersOK'
  BY <1>1, <1>6, <1>7 DEF PanelInv, NumbersOK
<1>9. AnswersOK'
  BY <1>1, <1>3, <1>6, <1>7 DEF PanelInv, AnswersOK
<1>10. WindowOK'
  BY <1>1 DEF PanelInv, WindowOK
<1> QED
  BY <1>8, <1>9, <1>10 DEF PanelInv

\* An answer overtaken is dropped; the newest is the one to the question on screen.
LEMMA PanelApplies ==
  ASSUME PanelInv, Panel!ApplyResult
  PROVE  PanelInv'
<1>1. PICK c \in queries :
        /\ c.n # Panel!Unanswered /\ queries' = queries \ {c}
        /\ UNCHANGED <<ask, panelSeq>>
        /\ IF Panel!Stale(c) THEN UNCHANGED <<panelRows, failed, applied, panelSel, top, visible>>
           ELSE /\ applied' = c.seq
                /\ failed' = (c.n = Panel!Failure)
                /\ IF failed' THEN UNCHANGED <<panelRows, panelSel, top, visible>>
                   ELSE /\ panelRows' = [ask |-> c.ask, n |-> c.n]
                        /\ Panel!ClampWindow(0, 0, c.n, visible)
  BY DEF Panel!ApplyResult, Panel!shown, Panel!window
<1>2. AnswersOK'
  BY <1>1 DEF PanelInv, AnswersOK
<1>3. CASE Panel!Stale(c)
  <2>1. c.seq < panelSeq
    BY <1>3 DEF Panel!Stale, PanelInv, NumbersOK
  <2>2. NumbersOK'
    BY <1>1, <1>3, <2>1 DEF PanelInv, NumbersOK
  <2>3. WindowOK'
    BY <1>1, <1>3 DEF PanelInv, WindowOK
  <2> QED
    BY <1>2, <2>2, <2>3 DEF PanelInv
<1>4. CASE ~Panel!Stale(c)
  <2>1. applied' = c.seq /\ failed' = (c.n = Panel!Failure)
        /\ (~failed' => panelRows' = [ask |-> c.ask, n |-> c.n])
    BY <1>1, <1>4
  <2>2. \A d \in queries' : d.seq # c.seq
    BY <1>1 DEF PanelInv, AnswersOK
  <2>3. NumbersOK'
    <3>1. CASE c.seq = panelSeq
      BY <1>1, <2>1, <2>2, <3>1 DEF PanelInv, NumbersOK
    <3>2. CASE c.seq # panelSeq
      <4>1. \E d \in queries : d.seq = panelSeq
        BY <1>4, <3>2 DEF PanelInv, NumbersOK, Panel!Stale
      <4> QED
        BY <1>1, <2>1, <2>2, <3>2, <4>1 DEF PanelInv, NumbersOK
    <3> QED
      BY <3>1, <3>2
  <2>4. WindowOK'
    <3>1. CASE failed'
      BY <1>1, <1>4, <3>1 DEF PanelInv, WindowOK
    <3>2. CASE ~failed'
      <4>1. c.n \in Nat
        BY <1>1, <2>1, <3>2 DEF PanelInv, AnswersOK
      <4>2. panelSel' = 0 /\ top' = Panel!WindowTop(0, 0, c.n, visible) /\ visible' = visible
            /\ panelRows'.n = c.n
        BY <1>1, <1>4, <3>2 DEF Panel!ClampWindow
      <4>3. visible \in Nat \ {0}
        BY DEF PanelInv, WindowOK
      <4> QED
        BY <4>1, <4>2, <4>3, WindowFits DEF WindowOK
    <3> QED
      BY <3>1, <3>2
  <2> QED
    BY <1>2, <2>3, <2>4 DEF PanelInv
<1> QED
  BY <1>3, <1>4

\* What moves the window only.
LEMMA PanelMoves ==
  ASSUME PanelInv, NEW s \in Nat, NEW t \in Nat, NEW v \in Nat \ {0}, s = 0 \/ s < panelRows.n,
         Panel!ClampWindow(s, t, panelRows.n, v),
         UNCHANGED <<ask, panelSeq, queries, panelRows, failed, applied>>
  PROVE  PanelInv'
<1>1. NumbersOK' /\ AnswersOK'
  BY DEF PanelInv, NumbersOK, AnswersOK
<1>2. panelRows.n \in Nat
  BY DEF PanelInv, WindowOK
<1>3. WindowOK'
  BY <1>2, WindowFits DEF WindowOK, Panel!ClampWindow
<1> QED
  BY <1>1, <1>3 DEF PanelInv

LEMMA PanelStep ==
  ASSUME PanelInv, [Panel!Next]_panelVars
  PROVE  PanelInv'
<1>1. ASSUME UNCHANGED <<ask, panelSeq, queries, panelRows, failed, applied, panelSel, top, visible>>
      PROVE  PanelInv'
  BY <1>1 DEF PanelInv, NumbersOK, AnswersOK, WindowOK
<1> USE DEF Panel!asked, Panel!shown, Panel!window, Panel!Finish, panelVars
<1>2. CASE Panel!Resize
  <2>1. PICK v \in Visible : Panel!ClampWindow(panelSel, top, panelRows.n, v)
    BY <1>2 DEF Panel!Resize
  <2>2. v \in Nat \ {0}
    BY PanelAssumption DEF Panel!PanelAssumption
  <2>3. UNCHANGED <<ask, panelSeq, queries, panelRows, failed, applied>>
    BY <1>2 DEF Panel!Resize
  <2>4. panelSel \in Nat /\ top \in Nat /\ (panelSel = 0 \/ panelSel < panelRows.n)
    BY DEF PanelInv, WindowOK
  <2> QED
    BY <2>1, <2>2, <2>3, <2>4, PanelMoves
<1>3. CASE Panel!MoveSel
  <2>1. UNCHANGED <<ask, panelSeq, queries, panelRows, failed, applied>>
    BY <1>3 DEF Panel!MoveSel
  <2>2. panelRows.n \in Nat /\ panelSel \in Nat /\ top \in Nat /\ visible \in Nat \ {0}
    BY DEF PanelInv, WindowOK
  <2>3. \E s \in Nat, t \in Nat : /\ s = 0 \/ s < panelRows.n
                                  /\ Panel!ClampWindow(s, t, panelRows.n, visible)
    <3>1. CASE panelRows.n > 0 /\ \E d \in {-1, 1} :
                 Panel!ClampWindow(Panel!Clamped(panelSel + d, 0, panelRows.n - 1), top,
                                   panelRows.n, visible)
      <4>1. PICK d \in {-1, 1} :
              Panel!ClampWindow(Panel!Clamped(panelSel + d, 0, panelRows.n - 1), top,
                                panelRows.n, visible)
        BY <3>1
      <4>2. /\ Panel!Clamped(panelSel + d, 0, panelRows.n - 1) \in Nat
            /\ Panel!Clamped(panelSel + d, 0, panelRows.n - 1) < panelRows.n
        BY <2>2, <3>1 DEF Panel!Clamped
      <4> QED
        BY <2>2, <4>1, <4>2
    <3>2. CASE Panel!ClampWindow(0, 0, panelRows.n, visible)
      BY <3>2
    <3>3. CASE panelRows.n > 0 /\ Panel!ClampWindow(panelRows.n - 1, top, panelRows.n, visible)
      <4>1. panelRows.n - 1 \in Nat /\ panelRows.n - 1 < panelRows.n
        BY <2>2, <3>3
      <4> QED
        BY <2>2, <3>3, <4>1
    <3> QED
      BY <1>3, <3>1, <3>2, <3>3 DEF Panel!MoveSel
  <2> QED
    BY <2>1, <2>2, <2>3, PanelMoves
<1>4. CASE Panel!CycleScope
  BY <1>4, PanelAsks DEF Panel!CycleScope
<1>5. CASE Panel!ToggleOption
  BY <1>5, PanelAsks DEF Panel!ToggleOption
<1>6. CASE Panel!ToggleHideAgents
  BY <1>6, PanelAsks DEF Panel!ToggleHideAgents
<1>7. CASE Panel!Type
  BY <1>7, PanelAsks DEF Panel!Type
<1>8. CASE Panel!Escape \/ Panel!Accept \/ Panel!Cancel \/ Panel!HandleNormalKey
           \/ Panel!OpenHelp \/ Panel!HandleHelpKey
  BY <1>1, <1>8 DEF Panel!Escape, Panel!Accept, Panel!Cancel, Panel!HandleNormalKey,
    Panel!OpenHelp, Panel!HandleHelpKey
<1>9. CASE UNCHANGED panelVars
  BY <1>1, <1>9
<1> QED
  BY <1>2, <1>3, <1>4, <1>5, <1>6, <1>7, <1>8, <1>9, PanelAnswers, PanelApplies DEF Panel!Next

\* Once every answer is in, the rows on screen answer the question on screen or the
\* panel says that its last query failed (applyResult), and the cursor is on a row and in
\* a window that wastes no line (clampWindow), for any answers, sizes and keys.
THEOREM PanelAlwaysSettles == ScreensSpec => []PanelSettles
<1>1. ScreensInit => PanelInv
  BY PanelInit DEF ScreensInit
<1>2. PanelInv /\ [ScreensNext]_screenVars => PanelInv'
  BY PartSteps, PanelStep
<1>3. PanelInv => PanelSettles
  <2> SUFFICES ASSUME PanelInv PROVE PanelSettles
    OBVIOUS
  <2>1. queries = {} /\ ~failed => panelRows.ask = ask
    BY DEF PanelInv, NumbersOK
  <2>2. panelSel \in 0..Panel!Clamped(panelRows.n - 1, 0, panelRows.n)
    BY DEF PanelInv, WindowOK, Panel!Clamped
  <2> QED
    BY <2>1, <2>2 DEF PanelInv, WindowOK, PanelSettles, Panel!PanelSettles
<1> QED
  BY <1>1, <1>2, <1>3, PTL DEF ScreensSpec

(***************************************************************************)
(* DevicesView                                                             *)
(***************************************************************************)
\* At most one mint is out, and then no token is on screen.
MintInv ==
  /\ \A c \in calls : c = [op |-> c.op, id |-> c.id, at |-> c.at, rows |-> c.rows]
  /\ \A c, d \in calls : c.op = "mint" /\ d.op = "mint" => c = d
  /\ \A c \in calls : c.op = "mint" => minting /\ minted = {}

LEMMA NewCall ==
  \A op, id : LET c == Machines!Call(op, id) IN
    /\ c = [op |-> c.op, id |-> c.id, at |-> c.at, rows |-> c.rows] /\ c.op = op
BY DEF Machines!Call

\* A call goes on, or new ones are out that are no mints.
LEMMA CallsGoOn ==
  ASSUME MintInv, UNCHANGED <<minting, minted>>,
         \/ \E c \in calls : \E at, rows_ :
              \/ Machines!Replace(c, [c EXCEPT !.at = at])
              \/ Machines!Replace(c, [c EXCEPT !.at = at, !.rows = rows_])
         \/ \E new : /\ calls' \subseteq calls \cup new
                     /\ \A c \in new : /\ c = [op |-> c.op, id |-> c.id, at |-> c.at, rows |-> c.rows]
                                       /\ c.op # "mint"
  PROVE  MintInv'
<1>1. ASSUME NEW c \in calls, NEW d, calls' = (calls \ {c}) \cup {d}, d.op = c.op,
             d = [op |-> d.op, id |-> d.id, at |-> d.at, rows |-> d.rows]
      PROVE  MintInv'
  BY <1>1 DEF MintInv
<1>2. ASSUME NEW c \in calls, NEW at, NEW rows_,
             \/ Machines!Replace(c, [c EXCEPT !.at = at])
             \/ Machines!Replace(c, [c EXCEPT !.at = at, !.rows = rows_])
      PROVE  MintInv'
  <2>1. c = [op |-> c.op, id |-> c.id, at |-> c.at, rows |-> c.rows]
    BY DEF MintInv
  <2>2. \E d : /\ calls' = (calls \ {c}) \cup {d} /\ d.op = c.op
               /\ d = [op |-> d.op, id |-> d.id, at |-> d.at, rows |-> d.rows]
    <3>1. CASE Machines!Replace(c, [c EXCEPT !.at = at])
      <4>1. PICK d : d = [c EXCEPT !.at = at]
        OBVIOUS
      <4>2. d.op = c.op /\ d = [op |-> d.op, id |-> d.id, at |-> d.at, rows |-> d.rows]
        BY <2>1, <4>1
      <4> QED
        BY <3>1, <4>1, <4>2 DEF Machines!Replace
    <3>2. CASE Machines!Replace(c, [c EXCEPT !.at = at, !.rows = rows_])
      <4>1. PICK d : d = [c EXCEPT !.at = at, !.rows = rows_]
        OBVIOUS
      <4>2. d.op = c.op /\ d = [op |-> d.op, id |-> d.id, at |-> d.at, rows |-> d.rows]
        BY <2>1, <4>1
      <4> QED
        BY <3>2, <4>1, <4>2 DEF Machines!Replace
    <3> QED
      BY <1>2, <3>1, <3>2
  <2> QED
    BY <1>1, <2>2
<1>3. ASSUME NEW new, calls' \subseteq calls \cup new,
             \A c \in new : /\ c = [op |-> c.op, id |-> c.id, at |-> c.at, rows |-> c.rows]
                            /\ c.op # "mint"
      PROVE  MintInv'
  BY <1>3 DEF MintInv
<1> QED
  BY <1>2, <1>3

LEMMA MintInit == Machines!Init => MintInv
<1> SUFFICES ASSUME Machines!Init PROVE MintInv
  OBVIOUS
<1>1. \A c \in calls : c = Machines!Call("devices", 0) \/ c = Machines!Call("tokens", 0)
  BY DEF Machines!Init, Machines!RefreshDevices
<1>2. \A c \in calls : /\ c = [op |-> c.op, id |-> c.id, at |-> c.at, rows |-> c.rows]
                      /\ c.op \in {"devices", "tokens"}
  BY <1>1, NewCall
<1> QED
  BY <1>2 DEF MintInv

LEMMA MintStep ==
  ASSUME MintInv, [Machines!Next]_deviceVars
  PROVE  MintInv' /\ (minted # {} => minted' \in {minted, {}})
<1> USE DEF Machines!server, Machines!lists, Machines!mint, Machines!look, deviceVars
<1>1. ASSUME UNCHANGED <<minting, minted>>, MintInv'
      PROVE  MintInv' /\ (minted # {} => minted' \in {minted, {}})
  BY <1>1
<1>2. ASSUME UNCHANGED <<minting, minted, calls>>
      PROVE  MintInv' /\ (minted # {} => minted' \in {minted, {}})
  BY <1>2 DEF MintInv
<1>3. CASE Machines!Act
  <2>1. PICK c \in calls : /\ UNCHANGED <<minting, minted>>
                           /\ \/ Machines!Replace(c, [c EXCEPT !.at = IF c.op = "mint" THEN "failed" ELSE "acted"])
                              \/ Machines!Replace(c, [c EXCEPT !.at = "acted"])
    BY <1>3 DEF Machines!Act
  <2>2. \E at : Machines!Replace(c, [c EXCEPT !.at = at])
    BY <2>1
  <2>3. MintInv'
    BY <2>1, <2>2, CallsGoOn
  <2> QED
    BY <1>1, <2>1, <2>3
<1>4. CASE Machines!Fetch
  <2>1. PICK c \in calls :
          /\ UNCHANGED <<minting, minted>>
          /\ \/ Machines!Replace(c, [c EXCEPT !.at = "answered"])
             \/ \E got : Machines!Replace(c, [c EXCEPT !.at = "answered", !.rows = got])
    BY <1>4 DEF Machines!Fetch
  <2>2. \E at, got : \/ Machines!Replace(c, [c EXCEPT !.at = at])
                     \/ Machines!Replace(c, [c EXCEPT !.at = at, !.rows = got])
    BY <2>1
  <2>3. MintInv'
    BY <2>1, <2>2, CallsGoOn
  <2> QED
    BY <1>1, <2>1, <2>3
<1>5. CASE Machines!ApplyDevices \/ Machines!ApplyTokens
  <2>1. calls' \subseteq calls \cup {} /\ UNCHANGED <<minting, minted>>
    BY <1>5 DEF Machines!ApplyDevices, Machines!ApplyTokens, Machines!Taken
  <2>2. \E new : calls' \subseteq calls \cup new /\ new = {}
    BY <2>1
  <2>3. MintInv'
    BY <2>1, <2>2, CallsGoOn
  <2> QED
    BY <1>1, <2>1, <2>3
\* Before it came there was none on screen.
<1>6. CASE Machines!ApplyMinted
  <2>1. PICK c \in calls :
          /\ c.op = "mint" /\ minting' = FALSE
          /\ \/ calls' = calls \ {c} /\ minted' = minted
             \/ calls' = (calls \ {c}) \cup {Machines!Call("tokens", 0)}
    BY <1>6 DEF Machines!ApplyMinted
  <2>2. minted = {}
    BY <2>1 DEF MintInv
  <2>3. \A d \in calls' : (d \in calls /\ d.op # "mint") \/ d = Machines!Call("tokens", 0)
    BY <2>1 DEF MintInv
  <2>4. MintInv'
    BY <2>3, NewCall DEF MintInv
  <2> QED
    BY <2>2, <2>4
<1>7. ASSUME NEW op1, NEW id1, NEW op2, NEW id2, op1 # "mint", op2 # "mint",
             calls' = calls \cup {Machines!Call(op1, id1), Machines!Call(op2, id2)},
             UNCHANGED <<minting, minted>>
      PROVE  MintInv' /\ (minted # {} => minted' \in {minted, {}})
  <2>1. PICK new : new = {Machines!Call(op1, id1), Machines!Call(op2, id2)}
    OBVIOUS
  <2>2. \A c \in new : /\ c = [op |-> c.op, id |-> c.id, at |-> c.at, rows |-> c.rows]
                      /\ c.op # "mint"
    BY <1>7, <2>1, NewCall
  <2>3. calls' \subseteq calls \cup new
    BY <1>7, <2>1
  <2>4. MintInv'
    BY <1>7, <2>2, <2>3, CallsGoOn
  <2> QED
    BY <1>1, <1>7, <2>4
<1>8. CASE Machines!Answered
  <2>1. CASE UNCHANGED calls
    BY <1>2, <1>8, <2>1 DEF Machines!Answered
  <2>2. CASE ~UNCHANGED calls
    <3>1. PICK op \in {"revokeToken", "approve", "revoke"} :
            calls' = calls \cup {Machines!Call(op, confirm.id)}
      BY <1>8, <2>2 DEF Machines!Answered, Machines!Send
    <3>2. op # "mint" /\ UNCHANGED <<minting, minted>>
      BY <1>8 DEF Machines!Answered
    <3>3. {Machines!Call(op, confirm.id)} = {Machines!Call(op, confirm.id), Machines!Call(op, confirm.id)}
      OBVIOUS
    <3> QED
      BY <1>7, <3>1, <3>2, <3>3
  <2> QED
    BY <2>1, <2>2
<1>9. CASE Machines!EnterDevices \/ Machines!Refresh
  <2>1. calls' = calls \cup {Machines!Call("devices", 0), Machines!Call("tokens", 0)}
        /\ UNCHANGED <<minting, minted>>
    BY <1>9 DEF Machines!EnterDevices, Machines!Refresh, Machines!Send, Machines!RefreshDevices
  <2> QED
    BY <1>7, <2>1
<1>10. CASE Machines!Dismiss
  BY <1>10 DEF Machines!Dismiss, MintInv
<1>11. CASE Machines!Elsewhere \/ Machines!Look \/ Machines!Click \/ Machines!MoveDevCursor
            \/ Machines!Approve \/ Machines!Revoke
  BY <1>2, <1>11 DEF Machines!Elsewhere, Machines!Look, Machines!Click, Machines!MoveDevCursor,
    Machines!Approve, Machines!Revoke
<1>12. CASE Machines!Mint
  <2>1. PICK t : /\ minting' = TRUE /\ minted' = minted /\ ~minting /\ minted = {}
                 /\ calls' = calls \cup {Machines!Call("mint", t)}
    BY <1>12 DEF Machines!Mint, Machines!MintAllowed, Machines!Send
  <2>2. \A c \in calls' : (c \in calls /\ c.op # "mint") \/ c = Machines!Call("mint", t)
    BY <2>1 DEF MintInv
  <2>3. MintInv'
    BY <2>1, <2>2, NewCall DEF MintInv
  <2> QED
    BY <2>1, <2>3
<1>13. CASE UNCHANGED deviceVars
  BY <1>2, <1>13
<1> QED
  BY <1>3, <1>4, <1>5, <1>6, <1>8, <1>9, <1>10, <1>11, <1>12, <1>13 DEF Machines!Next

\* A minted token's plaintext stays on screen until the user dismisses it, whatever is in
\* flight (applyMinted), for any machines, tokens and calls at once.
THEOREM MintedIsKept == ScreensSpec => MintedKept
<1>1. ScreensInit => MintInv
  BY MintInit DEF ScreensInit
<1>2. MintInv /\ [ScreensNext]_screenVars =>
        MintInv' /\ [minted # {} => minted' \in {minted, {}}]_Machines!vars
  BY PartSteps, MintStep
<1> QED
  BY <1>1, <1>2, PTL DEF ScreensSpec, MintedKept, Machines!MintedKept

(***************************************************************************)
(* Positions in an ordered set                                             *)
(***************************************************************************)
\* Those that come before x in S, in the order R.
BeforeIn(S, R, x) == {y \in S : <<y, x>> \in R}

\* How many elements of a finite set come before x in the strict order R says where x
\* is: each place has one element.
LEMMA Places ==
  ASSUME NEW S, IsFiniteSet(S), NEW R,
         \A x \in S : <<x, x>> \notin R,
         \A x, y, z \in S : <<x, y>> \in R /\ <<y, z>> \in R => <<x, z>> \in R,
         \A x, y \in S : x = y \/ <<x, y>> \in R \/ <<y, x>> \in R
  PROVE  /\ Cardinality(S) \in Nat
         /\ \A x \in S : Cardinality(BeforeIn(S, R, x)) \in 0..(Cardinality(S) - 1)
         /\ \A i \in 0..(Cardinality(S) - 1) :
              \E x \in S : Cardinality(BeforeIn(S, R, x)) = i
         /\ \A x, y \in S : Cardinality(BeforeIn(S, R, x)) = Cardinality(BeforeIn(S, R, y))
                             => x = y
<1> DEFINE n == Cardinality(S)
           place == [x \in S |-> Cardinality(BeforeIn(S, R, x))]
<1>1. n \in Nat
  BY FS_CardinalityType
<1>2. ASSUME NEW x \in S
      PROVE  place[x] \in 0..(n - 1)
  <2>1. BeforeIn(S, R, x) \in SUBSET S /\ BeforeIn(S, R, x) # S
    BY DEF BeforeIn
  <2>2. IsFiniteSet(BeforeIn(S, R, x)) /\ Cardinality(BeforeIn(S, R, x)) <= n /\ Cardinality(BeforeIn(S, R, x)) # n
    BY <2>1, FS_Subset
  <2>3. Cardinality(BeforeIn(S, R, x)) \in Nat
    BY <2>2, FS_CardinalityType
  <2> QED
    BY <1>1, <2>2, <2>3
<1>3. ASSUME NEW x \in S, NEW y \in S, <<x, y>> \in R
      PROVE  place[x] # place[y]
  <2>1. BeforeIn(S, R, x) \in SUBSET BeforeIn(S, R, y) /\ x \in BeforeIn(S, R, y) /\ x \notin BeforeIn(S, R, x)
    BY <1>3 DEF BeforeIn
  <2>2. IsFiniteSet(BeforeIn(S, R, y))
    BY FS_Subset DEF BeforeIn
  <2> QED
    BY <2>1, <2>2, FS_Subset
<1>4. place \in [S -> 0..(n - 1)]
  BY <1>2
<1>5. \A x, y \in S : place[x] = place[y] => x = y
  BY <1>3
<1>6. place \in Injection(S, 0..(n - 1))
  BY <1>4, <1>5 DEF Injection, IsInjective
<1>7. IsFiniteSet(0..(n - 1)) /\ Cardinality(0..(n - 1)) = n
  <2>1. \A m \in Nat : 0 \in Int /\ m - 1 \in Int /\ (IF 0 > m - 1 THEN 0 ELSE m - 1 - 0 + 1) = m
    OBVIOUS
  <2>2. \A m \in Nat : IsFiniteSet(0..(m - 1)) /\ Cardinality(0..(m - 1)) = m
    BY <2>1, FS_Interval
  <2> QED
    BY <1>1, <2>2
<1>8. place \in Surjection(S, 0..(n - 1))
  BY <1>6, <1>7, FS_Injection
<1>9. \A i \in 0..(n - 1) : \E x \in S : place[x] = i
  BY <1>8 DEF Surjection
<1> QED
  BY <1>1, <1>2, <1>5, <1>9

\* Of numbers, the greatest first.
LEMMA Ranks ==
  ASSUME NEW S, IsFiniteSet(S), S \subseteq Nat
  PROVE  /\ Cardinality(S) \in Nat /\ (S # {} => Cardinality(S) > 0)
         /\ \A x \in S : IndexOf(S, x) \in 0..(Cardinality(S) - 1)
         /\ \A i \in 0..(Cardinality(S) - 1) : At(S, i) \in S /\ IndexOf(S, At(S, i)) = i
<1> DEFINE R == {p \in Nat \X Nat : p[1] > p[2]}
<1>1. \A x, y \in S : <<x, y>> \in R <=> x > y
  OBVIOUS
<1>2. \A x \in S : {y \in S : y > x} = BeforeIn(S, R, x)
  BY <1>1 DEF BeforeIn
<1>3. /\ \A x \in S : <<x, x>> \notin R
      /\ \A x, y, z \in S : <<x, y>> \in R /\ <<y, z>> \in R => <<x, z>> \in R
      /\ \A x, y \in S : x = y \/ <<x, y>> \in R \/ <<y, x>> \in R
  BY <1>1
<1> HIDE DEF R
<1>4. /\ Cardinality(S) \in Nat
      /\ \A x \in S : Cardinality(BeforeIn(S, R, x)) \in 0..(Cardinality(S) - 1)
      /\ \A i \in 0..(Cardinality(S) - 1) :
           \E x \in S : Cardinality(BeforeIn(S, R, x)) = i
      /\ \A x, y \in S : Cardinality(BeforeIn(S, R, x)) = Cardinality(BeforeIn(S, R, y))
                          => x = y
  BY <1>3, Places
<1>5. \A x \in S : IndexOf(S, x) = Cardinality(BeforeIn(S, R, x))
  BY <1>2 DEF IndexOf
<1>6. \A x \in S : IndexOf(S, x) \in 0..(Cardinality(S) - 1)
  BY <1>4, <1>5
<1>7. \A i \in 0..(Cardinality(S) - 1) : \E x \in S : IndexOf(S, x) = i
  BY <1>4, <1>5
<1>8. \A i \in 0..(Cardinality(S) - 1) : At(S, i) \in S /\ IndexOf(S, At(S, i)) = i
  BY <1>7 DEF At, IndexOf
<1>9. ASSUME NEW x \in S PROVE Cardinality(S) > 0
  <2>1. IndexOf(S, x) \in 0..(Cardinality(S) - 1)
    BY <1>6
  <2> QED
    BY <1>4, <2>1
<1> QED
  BY <1>4, <1>6, <1>8, <1>9

(***************************************************************************)
(* Browser                                                                 *)
(***************************************************************************)
Known == born \cup Remote

MsgOK(m) ==
  /\ m = [kind |-> m.kind, seq |-> m.seq, req |-> m.req, done |-> m.done, rows |-> m.rows,
          tags |-> m.tags, state |-> m.state]
  /\ m.kind \in {"query", "hosts", "stats", "sync"} /\ m.seq \in Nat
  /\ m.rows \subseteq Known
  /\ m.kind = "query" => m.seq \in 1..seq
  /\ m.kind = "stats" => m.seq \in 1..statsSeq

BrowserTypes ==
  /\ born \subseteq Rec /\ corpus \subseteq born /\ allRows \subseteq Known
  /\ \A m \in net : MsgOK(m)
  /\ sel \in Nat /\ seq \in Nat \ {0} /\ appliedSeq \in 0..seq /\ appliedStats \in Nat
  /\ statsSeq \in Nat /\ goneSeq \in Nat /\ goneStats \in Nat

\* The newest question is the one the keys ask: it is out, or its answer was applied.
LatestOK ==
  /\ \A m \in net : m.kind = "query" /\ m.seq = seq => m.req.ask = asking
  /\ \/ appliedSeq < seq /\ \E m \in net : m.kind = "query" /\ m.seq = seq
     \/ appliedSeq = seq /\ (lastErr \/ answered.ask = asking)

BulkOK ==
  /\ bulk = [verb |-> bulk.verb, todo |-> bulk.todo, asked |-> bulk.asked, done |-> bulk.done,
             stop |-> bulk.stop]
  /\ bulk.todo \subseteq Known /\ bulk.done \subseteq Known
  /\ bulk.verb = "delete" => bulk.done \cap corpus = {}

\* What was deleted is known and not the daemon's any more.  An answer that is still to
\* be applied has of it only another machine's, or what the guard will take out.
Behind(m, last, mark) ==
  m.seq > last =>
    m.rows \cap deleted \subseteq Remote \cup (IF Covers(mark, m.seq) THEN gone ELSE {})
GoneOK ==
  /\ deleted \subseteq Known /\ deleted \cap corpus = {}
  /\ \A m \in net : m.kind = "query" => Behind(m, appliedSeq, goneSeq)
  /\ \A m \in net : m.kind = "stats" => Behind(m, appliedStats, goneStats)

BrowserInv ==
  /\ BrowserTypes /\ LatestOK /\ BulkOK /\ GoneOK
  /\ DeletedStayGone /\ MarksShown /\ SliceAgrees

LEMMA SliceIs ==
  \A all, p : /\ Slice(all, p) \subseteq all /\ Slice(all, p) \subseteq all
              /\ \A s : Slice(all \ s, p) = Slice(all, p) \ s
BY DEF Slice

LEMMA RowsOK ==
  ASSUME BrowserTypes, SliceAgrees
  PROVE  /\ rows \subseteq allRows /\ rows \subseteq Rec /\ rows \subseteq Known
         /\ IsFiniteSet(rows) /\ rows \subseteq Nat
         /\ Cardinality(rows) \in Nat /\ (rows # {} => HasSel)
         /\ HasSel => Selected \in rows
<1>1. rows \subseteq allRows /\ rows \subseteq Known /\ (rows # {} => HasSel)
  BY SliceIs DEF SliceAgrees, BrowserTypes
<1>2. rows \subseteq Rec /\ rows \subseteq Nat
  BY <1>1, RecAssumption DEF BrowserTypes, Known
<1>3. IsFiniteSet(rows)
  BY <1>2, RecAssumption, FS_Subset
<1>4. /\ Cardinality(rows) \in Nat
      /\ \A i \in 0..(Cardinality(rows) - 1) : At(rows, i) \in rows
  BY <1>2, <1>3, Ranks
<1>5. HasSel => Selected \in rows
  BY <1>4 DEF HasSel, Selected, BrowserTypes
<1> QED
  BY <1>1, <1>2, <1>3, <1>4, <1>5

LEMMA NewMsg ==
  \A kind, n, req : LET m == Msg(kind, n, req) IN
    /\ m = [kind |-> m.kind, seq |-> m.seq, req |-> m.req, done |-> m.done, rows |-> m.rows,
            tags |-> m.tags, state |-> m.state]
    /\ m.kind = kind /\ m.seq = n /\ m.req = req /\ m.rows = {}
BY DEF Msg

LEMMA BrowserInit == Init => BrowserInv
<1> SUFFICES ASSUME Init PROVE BrowserInv
  OBVIOUS
<1>1. /\ born \subseteq Rec /\ corpus \subseteq born
  BY RecAssumption DEF Init
<1>2. /\ allRows = {} /\ rows = {} /\ allTagged = {} /\ rowTagged = {} /\ sel = 0 /\ checked = {}
      /\ seq = 1 /\ appliedSeq = 0 /\ statsSeq = 0 /\ appliedStats = 0
      /\ gone = {} /\ goneSeq = 0 /\ goneStats = 0 /\ deleted = {} /\ bulk = NoBulk
      /\ net = {Msg("query", 1, BuildReq), HostsReq}
  BY DEF Init
<1>3. \A m \in net :
        \/ m.kind = "query" /\ m.seq = 1 /\ m.req = BuildReq /\ m.rows = {}
        \/ m.kind = "hosts" /\ m.seq = 0 /\ m.rows = {}
  BY <1>2, NewMsg DEF HostsReq
<1>4. \A m \in net : m = [kind |-> m.kind, seq |-> m.seq, req |-> m.req, done |-> m.done,
                          rows |-> m.rows, tags |-> m.tags, state |-> m.state]
  BY <1>2, NewMsg DEF HostsReq
<1>5. \E m \in net : m.kind = "query" /\ m.seq = 1
  BY <1>2, NewMsg
<1>6. BrowserTypes
  BY <1>1, <1>2, <1>3, <1>4 DEF BrowserTypes, MsgOK
<1>7. LatestOK
  BY <1>2, <1>3, <1>5 DEF LatestOK, BuildReq
<1>8. BulkOK
  BY <1>2 DEF BulkOK, NoBulk
<1>9. GoneOK
  BY <1>2, <1>3 DEF GoneOK, Behind
<1>10. DeletedStayGone /\ MarksShown /\ SliceAgrees
  BY <1>2, SliceIs DEF DeletedStayGone, MarksShown, SliceAgrees, Slice
<1> QED
  BY <1>6, <1>7, <1>8, <1>9, <1>10 DEF BrowserInv

\* What an action that leaves the messages and the numbers alone must keep of them.
LEMMA MessagesStay ==
  ASSUME BrowserInv, UNCHANGED <<born, net, seq, appliedSeq, statsSeq, appliedStats>>
  PROVE  \A m \in net : MsgOK(m)'
BY DEF BrowserInv, BrowserTypes, MsgOK, Known

(* Another shell's command, and what goes on at the daemon. *)
LEMMA RecordKeeps ==
  ASSUME BrowserInv, NEW r \in Rec, Record(r)
  PROVE  BrowserInv'
<1> USE DEF Record, table, question, warming, reported, sample, guard, batch
<1>1. Known' = Known \cup {r} /\ r \notin Known /\ born' = born \cup {r} /\ corpus' = corpus \cup {r}
  BY DEF Known
<1>2. BrowserTypes'
  <2>1. \A m \in net : MsgOK(m)'
    BY <1>1 DEF BrowserInv, BrowserTypes, MsgOK
  <2> QED
    BY <1>1, <2>1 DEF BrowserInv, BrowserTypes
<1>3. LatestOK' /\ DeletedStayGone' /\ MarksShown' /\ SliceAgrees'
  BY DEF BrowserInv, LatestOK, DeletedStayGone, MarksShown, SliceAgrees, HasSel
<1>4. BulkOK'
  BY <1>1 DEF BrowserInv, BulkOK
<1>5. GoneOK'
  BY <1>1 DEF BrowserInv, GoneOK, Behind
<1> QED
  BY <1>2, <1>3, <1>4, <1>5 DEF BrowserInv

\* Nothing that the invariant is about changes.
LEMMA NothingMoves ==
  ASSUME BrowserInv,
         UNCHANGED <<born, corpus, net, table, period, asking, seq, appliedSeq, answered, lastErr,
                     sample, guard, bulk>>
  PROVE  BrowserInv'
<1> USE DEF table, sample, guard
<1>1. BrowserTypes'
  <2>1. \A m \in net : MsgOK(m)'
    BY MessagesStay
  <2> QED
    BY <2>1 DEF BrowserInv, BrowserTypes, Known
<1>2. LatestOK' /\ DeletedStayGone' /\ MarksShown' /\ SliceAgrees'
  BY DEF BrowserInv, LatestOK, DeletedStayGone, MarksShown, SliceAgrees, HasSel
<1>3. BulkOK' /\ GoneOK'
  BY DEF BrowserInv, BulkOK, GoneOK, Behind, Known
<1> QED
  BY <1>1, <1>2, <1>3 DEF BrowserInv

LEMMA AnswerKeeps ==
  ASSUME BrowserInv, NEW m \in net, Answer(m)
  PROVE  BrowserInv'
<1> USE DEF table, question, warming, reported, sample, guard, batch
<1>1. PICK a : a = [m EXCEPT !.done = TRUE, !.rows = Matching(m.req), !.tags = tagged,
                             !.state = remoteState]
  OBVIOUS
<1>2. net' = (net \ {m}) \cup {a}
  BY <1>1 DEF Answer
<1>3. UNCHANGED <<born, corpus, table, question, seq, appliedSeq, answered, lastErr, sample, guard, bulk>>
  BY DEF Answer
<1>4. MsgOK(m)
  BY DEF BrowserInv, BrowserTypes
<1>5. Matching(m.req) \subseteq corpus \cup Remote
  BY DEF Matching, Cached
<1>6. /\ a = [kind |-> a.kind, seq |-> a.seq, req |-> a.req, done |-> a.done, rows |-> a.rows,
              tags |-> a.tags, state |-> a.state]
      /\ a.kind = m.kind /\ a.seq = m.seq /\ a.req = m.req /\ a.rows = Matching(m.req)
  BY <1>1, <1>4 DEF MsgOK
<1> HIDE DEF table, question, warming, reported, sample, guard, batch
<1>7. MsgOK(a)
  BY <1>4, <1>5, <1>6 DEF BrowserInv, BrowserTypes, MsgOK, Known
<1> USE DEF table, question, warming, reported, sample, guard, batch
<1>8. BrowserTypes'
  <2>1. \A d \in net' : MsgOK(d)
    BY <1>2, <1>7 DEF BrowserInv, BrowserTypes
  <2>2. \A d : MsgOK(d) => MsgOK(d)'
    BY <1>3 DEF MsgOK, Known
  <2> QED
    BY <1>3, <2>1, <2>2 DEF BrowserInv, BrowserTypes, Known
<1>9. LatestOK'
  BY <1>2, <1>3, <1>6 DEF BrowserInv, LatestOK
<1>10. DeletedStayGone' /\ MarksShown' /\ SliceAgrees'
  BY <1>3 DEF BrowserInv, DeletedStayGone, MarksShown, SliceAgrees, HasSel
<1>11. BulkOK'
  BY <1>3 DEF BrowserInv, BulkOK, Known
<1>12. GoneOK'
  <2>1. a.rows \cap deleted \subseteq Remote
    BY <1>5, <1>6 DEF BrowserInv, GoneOK
  <2> QED
    BY <1>2, <1>3, <2>1 DEF BrowserInv, GoneOK, Behind, Known
<1> QED
  BY <1>8, <1>9, <1>10, <1>11, <1>12 DEF BrowserInv

\* A message that is new, has nothing in it and asks what the keys ask.
FreshMsg(d) ==
  /\ d = [kind |-> d.kind, seq |-> d.seq, req |-> d.req, done |-> d.done, rows |-> d.rows,
          tags |-> d.tags, state |-> d.state]
  /\ d.kind \in {"query", "hosts", "stats", "sync"} /\ d.seq \in Nat /\ d.rows = {}
  /\ d.kind = "query" => d.seq = seq + 1 /\ seq' = seq + 1 /\ d.req.ask = asking'
  /\ d.kind = "stats" => d.seq \in 1..statsSeq'

(* Messages are sent and dropped, and the table keeps its rows. *)
LEMMA MessagesMove ==
  ASSUME BrowserInv,
         UNCHANGED <<born, corpus, allRows, rows, allTagged, rowTagged, sel, period, appliedSeq,
                     answered, lastErr, appliedStats, guard, bulk>>,
         checked' \subseteq checked, statsSeq' \in Nat, statsSeq' >= statsSeq,
         \A d \in net' : d \in net \/ FreshMsg(d),
         \/ /\ UNCHANGED <<seq, asking>>
            /\ \A d \in net : d.kind = "query" /\ d.seq > appliedSeq => d \in net'
         \/ /\ seq' = seq + 1
            /\ \E d \in net' : d.kind = "query" /\ d.seq = seq'
  PROVE  BrowserInv'
<1> USE DEF guard
<1>1. seq' \in Nat /\ seq' >= seq /\ seq \in Nat
  BY DEF BrowserInv, BrowserTypes
<1>2. \A d \in net' : MsgOK(d)'
  <2>1. ASSUME NEW d, MsgOK(d) PROVE MsgOK(d)'
    BY <1>1, <2>1 DEF BrowserInv, BrowserTypes, MsgOK, Known
  <2>2. ASSUME NEW d, FreshMsg(d) PROVE MsgOK(d)'
    BY <1>1, <2>2 DEF BrowserInv, BrowserTypes, MsgOK, FreshMsg
  <2> QED
    BY <2>1, <2>2 DEF BrowserInv, BrowserTypes
<1>3. BrowserTypes'
  BY <1>1, <1>2 DEF BrowserInv, BrowserTypes, Known
<1>4. LatestOK'
  <2>1. CASE /\ UNCHANGED <<seq, asking>>
             /\ \A d \in net : d.kind = "query" /\ d.seq > appliedSeq => d \in net'
    BY <1>1, <2>1 DEF BrowserInv, LatestOK, FreshMsg
  <2>2. CASE seq' = seq + 1 /\ \E d \in net' : d.kind = "query" /\ d.seq = seq'
    <3>1. \A d \in net' : d.kind = "query" /\ d.seq = seq' => d.req.ask = asking'
      BY <1>1, <2>2 DEF BrowserInv, BrowserTypes, MsgOK, FreshMsg
    <3>2. appliedSeq' < seq'
      BY <2>2 DEF BrowserInv, BrowserTypes
    <3> QED
      BY <2>2, <3>1, <3>2 DEF LatestOK
  <2> QED
    BY <2>1, <2>2
<1>5. DeletedStayGone' /\ MarksShown' /\ SliceAgrees'
  BY DEF BrowserInv, DeletedStayGone, MarksShown, SliceAgrees, HasSel
<1>6. BulkOK'
  BY DEF BrowserInv, BulkOK, Known
<1>7. GoneOK'
  BY DEF BrowserInv, GoneOK, Behind, Known, FreshMsg
<1> QED
  BY <1>3, <1>4, <1>5, <1>6, <1>7 DEF BrowserInv

\* The messages that are sent are fresh.
LEMMA SentAreFresh ==
  ASSUME BrowserInv, statsSeq' \in Nat
  PROVE  /\ FreshMsg(HostsReq) /\ FreshMsg(SyncReq)
         /\ statsSeq' > 0 => FreshMsg(StatsReq(statsSeq'))
         /\ \A req : seq' = seq + 1 /\ req.ask = asking' => FreshMsg(Msg("query", seq + 1, req))
<1>1. seq \in Nat
  BY DEF BrowserInv, BrowserTypes
<1> QED
  BY <1>1, NewMsg DEF FreshMsg, HostsReq, SyncReq, StatsReq

LEMMA DropStaleKeeps ==
  ASSUME BrowserInv, NEW m \in net, DropStale(m)
  PROVE  BrowserInv'
<1> USE DEF table, question, sample, guard, batch
<1>1. UNCHANGED <<born, corpus, allRows, rows, allTagged, rowTagged, sel, checked, period,
                  asking, seq, appliedSeq, answered, lastErr, statsSeq, appliedStats, guard, bulk>>
      /\ net' = net \ {m}
  BY DEF DropStale, daemon
<1>2. m.kind = "query" => ~(m.seq > appliedSeq)
  BY DEF DropStale, Stale, BrowserInv, BrowserTypes, MsgOK
<1>3. statsSeq' \in Nat /\ statsSeq' >= statsSeq
  BY <1>1 DEF BrowserInv, BrowserTypes
<1> QED
  BY <1>1, <1>2, <1>3, MessagesMove

LEMMA ApplyHostsKeeps ==
  ASSUME BrowserInv, NEW m \in net, NEW ok \in BOOLEAN, ApplyHosts(m, ok)
  PROVE  BrowserInv'
<1> USE DEF table, guard, batch
<1>1. UNCHANGED <<born, corpus, allRows, rows, allTagged, rowTagged, sel, checked, period,
                  asking, seq, appliedSeq, answered, lastErr, appliedStats, guard, bulk>>
      /\ m.kind = "hosts"
  BY DEF ApplyHosts, daemon
<1>2. \/ statsSeq' = statsSeq + 1 /\ net' = (net \ {m}) \cup {StatsReq(statsSeq')}
      \/ statsSeq' = statsSeq /\ net' = net \ {m}
  BY DEF ApplyHosts
<1>3. statsSeq' \in Nat /\ statsSeq' >= statsSeq /\ (statsSeq' # statsSeq => statsSeq' > 0)
  BY <1>2 DEF BrowserInv, BrowserTypes
<1>4. \A d \in net' : d \in net \/ FreshMsg(d)
  BY <1>2, <1>3, SentAreFresh DEF BrowserInv, BrowserTypes
<1>5. \A d \in net : d.kind = "query" => d \in net'
  BY <1>1, <1>2
<1> QED
  BY <1>1, <1>3, <1>4, <1>5, MessagesMove

LEMMA ApplySyncKeeps ==
  ASSUME BrowserInv, NEW m \in net, NEW ok \in BOOLEAN, ApplySync(m, ok)
  PROVE  BrowserInv'
<1> USE DEF table, question, guard, batch
<1>1. UNCHANGED <<born, corpus, allRows, rows, allTagged, rowTagged, sel, checked, period,
                  asking, appliedSeq, answered, lastErr, appliedStats, guard, bulk>>
      /\ m.kind = "sync"
  BY DEF ApplySync, daemon
<1>2. CASE ok
  <2>1. seq' = seq + 1 /\ (statsSeq' = statsSeq + 1 \/ statsSeq' = statsSeq)
    BY <1>2 DEF ApplySync, RefreshQuery
  <2>2. statsSeq' \in Nat /\ statsSeq' >= statsSeq /\ (statsSeq' # statsSeq => statsSeq' > 0)
    BY <2>1 DEF BrowserInv, BrowserTypes
  <2>3. \A d \in net' : \/ d \in net \/ d = Msg("query", seq + 1, BuildReq) \/ d = HostsReq
                        \/ d = StatsReq(statsSeq') /\ statsSeq' # statsSeq
    BY <1>2 DEF ApplySync, RefreshQuery, BrowserInv, BrowserTypes
  <2>4. Msg("query", seq + 1, BuildReq) \in net'
    BY <1>2 DEF ApplySync, RefreshQuery
  <2>5. BuildReq.ask = asking'
    BY <1>1 DEF BuildReq
  <2>6. \A d \in net' : d \in net \/ FreshMsg(d)
    BY <2>1, <2>2, <2>3, <2>5, SentAreFresh
  <2>7. \E d \in net' : d.kind = "query" /\ d.seq = seq'
    BY <2>1, <2>4, NewMsg
  <2> QED
    BY <1>1, <2>1, <2>2, <2>6, <2>7, MessagesMove
<1>3. CASE ~ok
  <2>1. net' = net \ {m} /\ UNCHANGED <<seq, statsSeq>>
    BY <1>3 DEF ApplySync
  <2>2. statsSeq' \in Nat /\ statsSeq' >= statsSeq
    BY <2>1 DEF BrowserInv, BrowserTypes
  <2> QED
    BY <1>1, <2>1, <2>2, MessagesMove
<1> QED
  BY <1>2, <1>3

LEMMA OnHostsTickKeeps ==
  ASSUME BrowserInv, OnHostsTick
  PROVE  BrowserInv'
<1> USE DEF table, question, sample, guard, batch
<1>1. UNCHANGED <<born, corpus, allRows, rows, allTagged, rowTagged, sel, checked, period,
                  asking, appliedSeq, answered, lastErr, statsSeq, appliedStats, guard, bulk>>
  BY DEF OnHostsTick, daemon
<1>2. statsSeq' \in Nat /\ statsSeq' >= statsSeq
  BY <1>1 DEF BrowserInv, BrowserTypes
<1>3. CASE seq' = seq /\ (net' = net \/ net' = net \cup {HostsReq})
  BY <1>1, <1>2, <1>3, SentAreFresh, MessagesMove
<1>4. CASE RefreshQuery(net)
  <2>1. seq' = seq + 1 /\ net' = net \cup {Msg("query", seq + 1, BuildReq), HostsReq}
    BY <1>4 DEF RefreshQuery
  <2>2. BuildReq.ask = asking'
    BY <1>1 DEF BuildReq
  <2>3. \A d \in net' : d \in net \/ FreshMsg(d)
    BY <1>2, <2>1, <2>2, SentAreFresh
  <2>4. \E d \in net' : d.kind = "query" /\ d.seq = seq'
    BY <2>1, NewMsg
  <2> QED
    BY <1>1, <1>2, <2>1, <2>3, <2>4, MessagesMove
<1> QED
  BY <1>3, <1>4 DEF OnHostsTick

LEMMA IssueQueryKeeps ==
  ASSUME BrowserInv, NEW ask_, NEW i, IssueQuery(ask_, i)
  PROVE  BrowserInv'
<1> USE DEF sample, guard, batch
<1>1. UNCHANGED <<born, corpus, allRows, rows, allTagged, rowTagged, sel, period,
                  appliedSeq, answered, lastErr, statsSeq, appliedStats, guard, bulk>>
      /\ checked' \subseteq checked
  BY DEF IssueQuery, ClearChecked, daemon
<1>2. statsSeq' \in Nat /\ statsSeq' >= statsSeq
  BY <1>1 DEF BrowserInv, BrowserTypes
<1>3. seq' = seq + 1 /\ net' = net \cup {Msg("query", seq + 1, [ask |-> ask_, host |-> HostAt(i)])}
      /\ asking' = ask_
  BY DEF IssueQuery, Ask
<1>4. \A d \in net' : d \in net \/ FreshMsg(d)
  <2>1. FreshMsg(Msg("query", seq + 1, [ask |-> ask_, host |-> HostAt(i)]))
    BY <1>2, <1>3, SentAreFresh
  <2> QED
    BY <1>3, <2>1
<1>5. \E d \in net' : d.kind = "query" /\ d.seq = seq'
  BY <1>3, NewMsg
<1> QED
  BY <1>1, <1>2, <1>3, <1>4, <1>5, MessagesMove

LEMMA OpenViewKeeps ==
  ASSUME BrowserInv, NEW v, NEW more, OpenView(v, more)
  PROVE  BrowserInv'
<1> USE DEF question, guard, batch
<1>1. UNCHANGED <<born, corpus, allRows, rows, allTagged, rowTagged, sel, period, asking, seq,
                  appliedSeq, answered, lastErr, appliedStats, guard, bulk>>
      /\ checked' \subseteq checked
  BY DEF OpenView, ClearChecked, daemon
<1>2. \/ statsSeq' = statsSeq + 1 /\ net' = net \cup {StatsReq(statsSeq')}
      \/ statsSeq' = statsSeq /\ net' = net
  BY DEF OpenView
<1>3. statsSeq' \in Nat /\ statsSeq' >= statsSeq /\ (statsSeq' # statsSeq => statsSeq' > 0)
  BY <1>2 DEF BrowserInv, BrowserTypes
<1>4. \A d \in net' : d \in net \/ FreshMsg(d)
  BY <1>2, <1>3, SentAreFresh DEF BrowserInv, BrowserTypes
<1> QED
  BY <1>1, <1>2, <1>3, <1>4, MessagesMove

LEMMA SyncNowKeeps ==
  ASSUME BrowserInv, SyncNow
  PROVE  BrowserInv'
<1> USE DEF table, question, sample, guard, batch
<1>1. UNCHANGED <<born, corpus, allRows, rows, allTagged, rowTagged, sel, checked, period,
                  asking, seq, appliedSeq, answered, lastErr, statsSeq, appliedStats, guard, bulk>>
      /\ net' = net \cup {SyncReq}
  BY DEF SyncNow, daemon
<1>2. statsSeq' \in Nat /\ statsSeq' >= statsSeq
  BY <1>1 DEF BrowserInv, BrowserTypes
<1> QED
  BY <1>1, <1>2, SentAreFresh, MessagesMove

LEMMA ApplyStatsKeeps ==
  ASSUME BrowserInv, NEW m \in net, NEW ok \in BOOLEAN, ApplyStats(m, ok)
  PROVE  BrowserInv'
<1> USE DEF table, question, batch
<1>1. UNCHANGED <<born, corpus, allRows, rows, allTagged, rowTagged, sel, checked, period,
                  asking, seq, appliedSeq, answered, lastErr, statsSeq, bulk, goneSeq, deleted>>
      /\ m.kind = "stats" /\ net' = net \ {m} /\ appliedStats' = m.seq /\ m.seq > appliedStats
  BY DEF ApplyStats, daemon, guard, Stale, BrowserInv, BrowserTypes, MsgOK
<1>2. MsgOK(m)
  BY DEF BrowserInv, BrowserTypes
<1>3. \/ goneStats' = goneStats /\ gone' = gone
      \/ goneStats' = goneStats /\ gone = {} /\ gone' = {}
      \/ goneStats' = goneStats /\ m.seq <= goneStats /\ gone' = IF goneSeq = 0 /\ goneStats = 0 THEN {} ELSE gone
      \/ goneStats' = 0 /\ m.seq > goneStats /\ gone' = IF goneSeq = 0 THEN {} ELSE gone
  BY <1>1, <1>2 DEF ApplyStats, guard, Settle, SettleGone, BrowserInv, BrowserTypes, MsgOK
<1>4. BrowserTypes'
  <2>1. \A d \in net' : MsgOK(d)'
    BY <1>1 DEF BrowserInv, BrowserTypes, MsgOK, Known
  <2>2. appliedStats' \in Nat /\ goneStats' \in Nat
    BY <1>1, <1>2, <1>3 DEF BrowserInv, BrowserTypes, MsgOK
  <2> QED
    BY <1>1, <2>1, <2>2 DEF BrowserInv, BrowserTypes, Known
<1>5. LatestOK'
  BY <1>1 DEF BrowserInv, LatestOK
<1>6. DeletedStayGone' /\ MarksShown' /\ SliceAgrees'
  BY <1>1 DEF BrowserInv, DeletedStayGone, MarksShown, SliceAgrees, HasSel
<1>7. BulkOK'
  BY <1>1 DEF BrowserInv, BulkOK, Known
<1>8. GoneOK'
  <2>1. deleted' \subseteq Known' /\ deleted' \cap corpus' = {}
    BY <1>1 DEF BrowserInv, GoneOK, Known
  <2>2. ASSUME NEW d \in net', d.kind = "query"
        PROVE  Behind(d, appliedSeq, goneSeq)'
    <3>1. Behind(d, appliedSeq, goneSeq)
      BY <1>1, <2>2 DEF BrowserInv, GoneOK
    <3>2. goneSeq # 0 => gone' = gone
      BY <1>3
    <3> QED
      BY <1>1, <3>1, <3>2 DEF Behind, Covers
  <2>3. ASSUME NEW d \in net', d.kind = "stats"
        PROVE  Behind(d, appliedStats, goneStats)'
    <3>1. Behind(d, appliedStats, goneStats)
      BY <1>1, <2>3 DEF BrowserInv, GoneOK
    <3>2. d.seq \in Nat /\ m.seq \in Nat /\ appliedStats \in Nat /\ goneStats \in Nat
      BY <1>1, <1>2 DEF BrowserInv, BrowserTypes, MsgOK
    <3>3. SUFFICES ASSUME d.seq > m.seq
                   PROVE  d.rows \cap deleted \subseteq Remote \cup
                            (IF Covers(goneStats', d.seq) THEN gone' ELSE {})
      BY <1>1 DEF Behind
    <3>4. d.rows \cap deleted \subseteq Remote \cup (IF Covers(goneStats, d.seq) THEN gone ELSE {})
      BY <1>1, <3>1, <3>2, <3>3 DEF Behind
    <3> QED
      BY <1>3, <3>2, <3>3, <3>4 DEF Covers
  <2> QED
    BY <2>1, <2>2, <2>3 DEF GoneOK
<1> QED
  BY <1>4, <1>5, <1>6, <1>7, <1>8 DEF BrowserInv

\* An answer replaces the rows under a cursor that stays on its record.
LEMMA ApplyResultKeeps ==
  ASSUME BrowserInv, NEW m \in net, NEW ok \in BOOLEAN, ApplyResult(m, ok)
  PROVE  BrowserInv'
<1>1. /\ UNCHANGED <<born, corpus, period, asking, seq, statsSeq, appliedStats, bulk>>
      /\ m.kind = "query" /\ appliedSeq' = m.seq /\ lastErr' = ~ok
  BY DEF ApplyResult, daemon, question, sample, batch
<1>2. MsgOK(m)
  BY DEF BrowserInv, BrowserTypes
<1>3. m.seq \in 1..seq /\ m.seq > appliedSeq /\ m.rows \subseteq Known
      /\ seq \in Nat /\ appliedSeq \in Nat /\ goneSeq \in Nat /\ goneStats \in Nat
  BY <1>1, <1>2 DEF ApplyResult, Stale, MsgOK, BrowserInv, BrowserTypes
<1>4. \A d \in net' : (d \in net /\ d # m) \/ (d.kind = "hosts" /\ d.seq = 0 /\ d.rows = {}
          /\ d = [kind |-> d.kind, seq |-> d.seq, req |-> d.req, done |-> d.done, rows |-> d.rows,
                  tags |-> d.tags, state |-> d.state])
  BY NewMsg DEF ApplyResult, HostsReq
<1>5. \A d \in net : d # m => d \in net'
  BY DEF ApplyResult
<1>6. \A d \in net' : MsgOK(d)'
  BY <1>1, <1>4 DEF BrowserInv, BrowserTypes, MsgOK, Known
<1>7. BulkOK'
  BY <1>1 DEF BrowserInv, BulkOK, Known
<1>8. CASE ~ok
  <2>1. UNCHANGED <<allRows, rows, allTagged, rowTagged, sel, checked, gone, goneSeq, goneStats,
                    deleted, answered>>
    BY <1>8 DEF ApplyResult, table, guard
  <2>2. BrowserTypes'
    BY <1>1, <1>3, <1>6, <2>1 DEF BrowserInv, BrowserTypes, Known
  <2>3. LatestOK'
    <3>1. \A d \in net' : d.kind = "query" /\ d.seq = seq' => d.req.ask = asking'
      BY <1>1, <1>4 DEF BrowserInv, LatestOK
    <3>2. CASE m.seq = seq
      BY <1>1, <1>8, <3>1, <3>2 DEF LatestOK
    <3>3. CASE m.seq # seq
      <4>1. PICK d \in net : d.kind = "query" /\ d.seq = seq
        BY <1>3 DEF BrowserInv, LatestOK
      <4>2. d \in net' /\ appliedSeq' < seq'
        BY <1>1, <1>3, <1>5, <3>3, <4>1
      <4> QED
        BY <1>1, <3>1, <4>1, <4>2 DEF LatestOK
    <3> QED
      BY <3>2, <3>3
  <2>4. DeletedStayGone' /\ MarksShown' /\ SliceAgrees'
    BY <1>1, <2>1 DEF BrowserInv, DeletedStayGone, MarksShown, SliceAgrees, HasSel
  <2>5. GoneOK'
    <3>1. \A d \in net' : d.kind = "query" => Behind(d, appliedSeq, goneSeq)'
      BY <1>1, <1>2, <1>3, <1>4, <2>1 DEF BrowserInv, BrowserTypes, GoneOK, Behind, MsgOK
    <3>2. \A d \in net' : d.kind = "stats" => Behind(d, appliedStats, goneStats)'
      BY <1>1, <1>4, <2>1 DEF BrowserInv, GoneOK, Behind
    <3> QED
      BY <1>1, <2>1, <3>1, <3>2 DEF BrowserInv, GoneOK, Known
  <2> QED
    BY <1>7, <2>2, <2>3, <2>4, <2>5 DEF BrowserInv
<1>9. CASE ok
  <2>1. PICK all : all = WithoutGone(goneSeq, m.seq, m.rows)
    OBVIOUS
  <2>2. /\ allRows' = all /\ allTagged' = m.tags \cap all
        /\ rows' = Slice(all, period) /\ rowTagged' = m.tags \cap Slice(all, period)
        /\ checked' = checked \cap rows'
        /\ sel' = IF HasSel /\ Selected \in rows' THEN IndexOf(rows', Selected) ELSE 0
        /\ goneSeq' = (IF gone = {} THEN goneSeq ELSE Settle(goneSeq, m.seq))
        /\ UNCHANGED <<goneStats, deleted>>
        /\ gone' = (IF goneSeq' = 0 /\ goneStats' = 0 THEN {} ELSE gone)
        /\ answered' = m.req
    BY <1>9, <2>1 DEF ApplyResult, ApplyPeriodFilter, PruneChecked, SettleGone
  <2>3. all \subseteq Known /\ all \subseteq m.rows
    BY <1>3, <2>1 DEF WithoutGone
  <2>4. rows' \subseteq all /\ rows' \subseteq Rec /\ rows' \subseteq Nat
    BY <2>2, <2>3, SliceIs, RecAssumption DEF BrowserInv, BrowserTypes, Known
  <2>5. IsFiniteSet(rows')
    BY <2>4, RecAssumption, FS_Subset
  <2>6. /\ Cardinality(rows') \in Nat /\ (rows' # {} => Cardinality(rows') > 0)
        /\ \A x \in rows' : IndexOf(rows', x) \in 0..(Cardinality(rows') - 1)
    BY <2>4, <2>5, Ranks
  <2>7. sel' \in Nat /\ (rows' # {} => sel' < Cardinality(rows'))
    BY <2>2, <2>6
  <2>8. BrowserTypes'
    <3>1. goneSeq' \in Nat /\ goneStats' \in Nat
      BY <1>3, <2>2 DEF Settle
    <3> QED
      BY <1>1, <1>3, <1>6, <2>2, <2>3, <2>7, <3>1 DEF BrowserInv, BrowserTypes, Known
  <2>9. LatestOK'
    BY <1>1, <1>3, <1>4, <1>5, <2>2 DEF BrowserInv, LatestOK
  <2>10. DeletedStayGone'
    <3>1. Behind(m, appliedSeq, goneSeq)
      BY <1>1 DEF BrowserInv, GoneOK
    <3> QED
      BY <1>3, <2>1, <2>2, <2>3, <3>1 DEF Behind, DeletedStayGone, WithoutGone
  <2>11. MarksShown' /\ SliceAgrees'
    <3>1. MarksShown'
      BY <2>2 DEF MarksShown
    <3>2. rows' = Slice(allRows', period') /\ rowTagged' = allTagged' \cap rows'
      BY <1>1, <2>2, SliceIs
    <3> QED
      BY <2>7, <3>1, <3>2 DEF SliceAgrees, HasSel
  <2>12. GoneOK'
    <3>1. deleted' \subseteq Known' /\ deleted' \cap corpus' = {}
      BY <1>1, <2>2 DEF BrowserInv, GoneOK, Known
    <3>2. ASSUME NEW d \in net', d.kind = "query"
          PROVE  Behind(d, appliedSeq, goneSeq)'
      <4>1. CASE d \notin net
        BY <1>4, <3>2, <4>1 DEF Behind
      <4>2. CASE d \in net
        <5>1. Behind(d, appliedSeq, goneSeq) /\ d.seq \in Nat
          BY <3>2, <4>2 DEF BrowserInv, BrowserTypes, GoneOK, MsgOK
        <5>2. SUFFICES ASSUME d.seq > m.seq
                       PROVE  d.rows \cap deleted \subseteq Remote \cup
                                (IF Covers(goneSeq', d.seq) THEN gone' ELSE {})
          BY <1>1, <2>2 DEF Behind
        <5>3. d.rows \cap deleted \subseteq Remote \cup (IF Covers(goneSeq, d.seq) THEN gone ELSE {})
          BY <1>3, <5>1, <5>2 DEF Behind
        <5>4. CASE gone = {} \/ goneSeq' = goneSeq
          BY <2>2, <5>3, <5>4 DEF Covers
        <5>5. CASE gone # {} /\ goneSeq' # goneSeq
          <6>1. m.seq > goneSeq
            BY <2>2, <5>5 DEF Settle
          <6> QED
            BY <1>3, <5>1, <5>2, <5>3, <6>1 DEF Covers
        <5> QED
          BY <5>4, <5>5
      <4> QED
        BY <4>1, <4>2
    <3>3. ASSUME NEW d \in net', d.kind = "stats"
          PROVE  Behind(d, appliedStats, goneStats)'
      <4>1. d \in net
        BY <1>4, <3>3
      <4>2. Behind(d, appliedStats, goneStats)
        BY <3>3, <4>1 DEF BrowserInv, GoneOK
      <4>3. goneStats # 0 => gone' = gone
        BY <2>2
      <4> QED
        BY <1>1, <2>2, <4>2, <4>3 DEF Behind, Covers
    <3> QED
      BY <3>1, <3>2, <3>3 DEF GoneOK
  <2> QED
    BY <1>7, <2>8, <2>9, <2>10, <2>11, <2>12 DEF BrowserInv
<1> QED
  BY <1>8, <1>9

\* The cursor, the marks and the period; nothing is sent or deleted.
LEMMA TableKeeps ==
  ASSUME BrowserInv,
         UNCHANGED <<born, corpus, net, allRows, allTagged, asking, seq, appliedSeq, answered,
                     lastErr, statsSeq, appliedStats, guard, bulk>>,
         sel' \in Nat, MarksShown', SliceAgrees'
  PROVE  BrowserInv'
<1> USE DEF guard
<1>1. \A m \in net : MsgOK(m)'
  BY MessagesStay
<1>2. BrowserTypes'
  BY <1>1 DEF BrowserInv, BrowserTypes, Known
<1>3. LatestOK' /\ DeletedStayGone' /\ BulkOK' /\ GoneOK'
  BY DEF BrowserInv, LatestOK, DeletedStayGone, BulkOK, GoneOK, Behind, Known
<1> QED
  BY <1>2, <1>3 DEF BrowserInv

LEMMA MoveSelKeeps ==
  ASSUME BrowserInv, NEW i \in 0..Cardinality(Rec), MoveSel(i)
  PROVE  BrowserInv'
<1>1. Cardinality(Rec) \in Nat
  BY RecAssumption, FS_CardinalityType
<1>2. UNCHANGED <<born, corpus, net, allRows, rows, allTagged, rowTagged, checked, period, asking,
                  seq, appliedSeq, answered, lastErr, statsSeq, appliedStats, guard, bulk>>
      /\ sel' = i /\ i < Cardinality(rows)
  BY DEF MoveSel, daemon, question, sample, batch
<1>3. sel' \in Nat
  BY <1>1, <1>2
<1>4. MarksShown' /\ SliceAgrees'
  BY <1>2 DEF BrowserInv, MarksShown, SliceAgrees, HasSel
<1> QED
  BY <1>2, <1>3, <1>4, TableKeeps

\* The cursor is brought back onto a row of the new rows.
LEMMA ClampSel ==
  ASSUME BrowserInv, rows' \subseteq Known,
         sel' = IF sel < Cardinality(rows') THEN sel
                ELSE IF rows' = {} THEN 0 ELSE Cardinality(rows') - 1
  PROVE  sel' \in Nat /\ (rows' # {} => sel' < Cardinality(rows'))
<1>1. rows' \subseteq Rec /\ rows' \subseteq Nat
  BY RecAssumption DEF BrowserInv, BrowserTypes, Known
<1>2. IsFiniteSet(rows')
  BY <1>1, RecAssumption, FS_Subset
<1>3. Cardinality(rows') \in Nat /\ (rows' # {} => Cardinality(rows') > 0)
  BY <1>1, <1>2, Ranks
<1>4. sel \in Nat
  BY DEF BrowserInv, BrowserTypes
<1> QED
  BY <1>3, <1>4

LEMMA SetPeriodKeeps ==
  ASSUME BrowserInv, NEW p, SetPeriod(p)
  PROVE  BrowserInv'
<1>1. UNCHANGED <<born, corpus, net, allRows, allTagged, asking, seq, appliedSeq, answered,
                  lastErr, statsSeq, appliedStats, guard, bulk>>
      /\ period' = p /\ checked' = {}
      /\ rows' = Slice(allRows, p) /\ rowTagged' = allTagged \cap Slice(allRows, p)
      /\ sel' = IF sel < Cardinality(rows') THEN sel
                ELSE IF rows' = {} THEN 0 ELSE Cardinality(rows') - 1
  BY DEF SetPeriod, ClearChecked, ApplyPeriodFilter, daemon, sample, batch
<1>2. rows' \subseteq Known
  BY <1>1, SliceIs DEF BrowserInv, BrowserTypes
<1>3. sel' \in Nat /\ (rows' # {} => sel' < Cardinality(rows'))
  BY <1>1, <1>2, ClampSel
<1>4. MarksShown' /\ SliceAgrees'
  BY <1>1, <1>3 DEF MarksShown, SliceAgrees, HasSel
<1> QED
  BY <1>1, <1>3, <1>4, TableKeeps

LEMMA MarkKeeps ==
  ASSUME BrowserInv, NEW marks, marks \subseteq rows, Mark(marks)
  PROVE  BrowserInv'
<1>1. UNCHANGED <<born, corpus, net, allRows, rows, allTagged, rowTagged, sel, period, asking,
                  seq, appliedSeq, answered, lastErr, statsSeq, appliedStats, guard, bulk>>
      /\ checked' = marks
  BY DEF Mark, daemon, question, sample, batch
<1>2. sel' \in Nat /\ MarksShown' /\ SliceAgrees'
  BY <1>1 DEF BrowserInv, BrowserTypes, MarksShown, SliceAgrees, HasSel
<1> QED
  BY <1>1, <1>2, TableKeeps

\* Nothing is answered or asked: the messages and the numbers stay.
LEMMA QuestionStays ==
  ASSUME BrowserInv,
         UNCHANGED <<born, net, asking, seq, appliedSeq, answered, statsSeq, appliedStats>>,
         lastErr => lastErr', corpus' \subseteq corpus, allRows' \subseteq allRows, sel' \in Nat,
         goneSeq' \in Nat, goneStats' \in Nat
  PROVE  BrowserTypes' /\ LatestOK'
<1>1. \A m \in net : MsgOK(m)'
  BY MessagesStay
<1>2. BrowserTypes'
  BY <1>1 DEF BrowserInv, BrowserTypes, Known
<1>3. LatestOK'
  BY DEF BrowserInv, LatestOK
<1> QED
  BY <1>2, <1>3

\* A delete that was seen to succeed takes its rows out, and is guarded against every
\* answer to a question asked before.
LEMMA RemoveRowsKeeps ==
  ASSUME BrowserInv, NEW ids, RemoveRows(ids), ids \subseteq Known, ids \cap corpus' = {},
         UNCHANGED <<born, net, period, asking, seq, appliedSeq, answered, statsSeq, appliedStats>>,
         lastErr => lastErr', corpus' \subseteq corpus, checked' \subseteq checked \ ids, BulkOK'
  PROVE  BrowserInv'
<1>1. /\ goneSeq' = (IF ids = {} THEN goneSeq ELSE seq)
      /\ goneStats' = (IF ids = {} THEN goneStats ELSE statsSeq)
      /\ gone' = (IF goneSeq' = 0 /\ goneStats' = 0 THEN {} ELSE gone \cup ids)
      /\ deleted' = deleted \cup ids
      /\ allRows' = allRows \ ids /\ allTagged' = allTagged \ ids
      /\ rows' = rows \ ids /\ rowTagged' = rowTagged \ ids
      /\ sel' = IF sel < Cardinality(rows') THEN sel
                ELSE IF rows' = {} THEN 0 ELSE Cardinality(rows') - 1
  BY DEF RemoveRows
<1>2. BrowserTypes /\ SliceAgrees /\ MarksShown /\ GoneOK
  BY DEF BrowserInv
<1>3. rows \subseteq Known
  BY <1>2, RowsOK
<1>4. sel' \in Nat /\ (rows' # {} => sel' < Cardinality(rows'))
  <2>1. rows' \subseteq Known
    BY <1>1, <1>3
  <2> QED
    BY <1>1, <2>1, ClampSel
<1>5. BrowserTypes' /\ LatestOK'
  <2>1. goneSeq' \in Nat /\ goneStats' \in Nat /\ allRows' \subseteq allRows
    BY <1>1, <1>2 DEF BrowserTypes
  <2> QED
    BY <1>4, <2>1, QuestionStays
<1>6. DeletedStayGone'
  BY <1>1 DEF BrowserInv, DeletedStayGone
<1>7. MarksShown'
  BY <1>1, <1>2 DEF MarksShown
<1>8. SliceAgrees'
  BY <1>1, <1>2, <1>4, SliceIs DEF SliceAgrees, HasSel
<1>9. GoneOK'
  <2>1. deleted' \subseteq Known' /\ deleted' \cap corpus' = {}
    BY <1>1, <1>2 DEF GoneOK, Known
  <2>2. ASSUME NEW d \in net', d.kind = "query"
        PROVE  Behind(d, appliedSeq, goneSeq)'
    <3>1. Behind(d, appliedSeq, goneSeq) /\ d.seq \in 1..seq /\ seq \in Nat /\ seq # 0
      BY <1>2, <2>2 DEF GoneOK, BrowserTypes, MsgOK
    <3>2. CASE ids = {}
      BY <1>1, <3>1, <3>2 DEF Behind, Covers
    <3>3. CASE ids # {}
      BY <1>1, <3>1, <3>3 DEF Behind, Covers
    <3> QED
      BY <3>2, <3>3
  <2>3. ASSUME NEW d \in net', d.kind = "stats"
        PROVE  Behind(d, appliedStats, goneStats)'
    <3>1. Behind(d, appliedStats, goneStats) /\ d.seq \in 1..statsSeq /\ statsSeq \in Nat
      BY <1>2, <2>3 DEF GoneOK, BrowserTypes, MsgOK
    <3>2. CASE ids = {}
      BY <1>1, <3>1, <3>2 DEF Behind, Covers
    <3>3. CASE ids # {}
      BY <1>1, <3>1, <3>3 DEF Behind, Covers
    <3> QED
      BY <3>2, <3>3
  <2> QED
    BY <2>1, <2>2, <2>3 DEF GoneOK
<1> QED
  BY <1>5, <1>6, <1>7, <1>8, <1>9 DEF BrowserInv

\* A call of the worker or a key changes nothing the table shows but its tags.
LEMMA RowsStay ==
  ASSUME BrowserInv,
         UNCHANGED <<born, net, period, asking, seq, appliedSeq, answered, statsSeq, appliedStats,
                     allRows, rows, sel, checked, guard>>,
         lastErr => lastErr', corpus' \subseteq corpus, rowTagged' = allTagged' \cap rows, BulkOK'
  PROVE  BrowserInv'
<1> USE DEF guard
<1>1. BrowserTypes' /\ LatestOK'
  BY QuestionStays DEF BrowserInv, BrowserTypes
<1>2. DeletedStayGone' /\ MarksShown' /\ SliceAgrees'
  BY DEF BrowserInv, DeletedStayGone, MarksShown, SliceAgrees, HasSel
<1>3. GoneOK'
  BY DEF BrowserInv, GoneOK, Behind, Known
<1> QED
  BY <1>1, <1>2, <1>3 DEF BrowserInv

LEMMA TagLocalIs ==
  ASSUME BrowserInv, NEW verb, NEW ids, TagLocal(verb, ids)
  PROVE  rowTagged' = allTagged' \cap rows
<1>1. rows \subseteq allRows /\ rowTagged = allTagged \cap rows
  BY RowsOK DEF BrowserInv, SliceAgrees
<1> QED
  BY <1>1 DEF TagLocal

LEMMA DoDeleteKeeps ==
  ASSUME BrowserInv, NEW how \in Outcome, DoDelete(how)
  PROVE  BrowserInv'
<1>1. /\ checked = {} /\ rows # {} /\ DaemonDelete(Selected, how)
      /\ UNCHANGED <<born, net, period, asking, seq, appliedSeq, answered, statsSeq, appliedStats,
                     checked, bulk>>
  BY DEF DoDelete, Confirmed, question, sample
<1>2. Selected \in rows /\ rows \subseteq Known
  BY <1>1, RowsOK DEF BrowserInv
<1>3. corpus' \subseteq corpus /\ (how # "failed" => Selected \notin corpus')
  BY <1>1 DEF DaemonDelete
<1>4. BulkOK'
  BY <1>1, <1>3 DEF BrowserInv, BulkOK, Known
<1>5. CASE how = "ok"
  <2>1. RemoveRows({Selected}) /\ lastErr' = lastErr
    BY <1>5 DEF DoDelete
  <2>2. {Selected} \subseteq Known /\ {Selected} \cap corpus' = {}
    BY <1>2, <1>3, <1>5
  <2>3. checked' \subseteq checked \ {Selected}
    BY <1>1
  <2> QED
    BY <1>1, <1>3, <1>4, <2>1, <2>2, <2>3, RemoveRowsKeeps
<1>6. CASE how # "ok"
  <2>1. lastErr' = TRUE /\ UNCHANGED <<allRows, rows, allTagged, rowTagged, sel, guard>>
    BY <1>6 DEF DoDelete
  <2>2. rowTagged' = allTagged' \cap rows
    BY <2>1 DEF BrowserInv, SliceAgrees
  <2> QED
    BY <1>1, <1>3, <1>4, <2>1, <2>2, RowsStay
<1> QED
  BY <1>5, <1>6

LEMMA SubmitTagKeeps ==
  ASSUME BrowserInv, NEW verb, NEW how \in Outcome, SubmitTag(verb, how)
  PROVE  BrowserInv'
<1>1. /\ UNCHANGED <<born, corpus, net, period, asking, seq, appliedSeq, answered, statsSeq,
                     appliedStats, allRows, rows, sel, checked, guard, bulk>>
      /\ lastErr => lastErr'
  BY DEF SubmitTag, Confirmed, question, sample
<1>2. rowTagged' = allTagged' \cap rows
  <2>1. CASE how = "ok"
    BY <2>1, TagLocalIs DEF SubmitTag
  <2>2. CASE how # "ok"
    BY <2>2 DEF SubmitTag, BrowserInv, SliceAgrees
  <2> QED
    BY <2>1, <2>2
<1>3. BulkOK' /\ corpus' \subseteq corpus
  BY <1>1 DEF BrowserInv, BulkOK, Known
<1> QED
  BY <1>1, <1>2, <1>3, RowsStay

LEMMA StartBulkKeeps ==
  ASSUME BrowserInv, NEW verb, NEW ids, ids \subseteq checked, StartBulk(verb, ids)
  PROVE  BrowserInv'
<1>1. /\ UNCHANGED <<born, corpus, net, period, asking, seq, appliedSeq, answered, statsSeq,
                     appliedStats, allRows, rows, allTagged, rowTagged, sel, checked, lastErr, guard>>
      /\ bulk' = IF ids = {} THEN NoBulk
                 ELSE [verb |-> verb, todo |-> ids, asked |-> ids, done |-> {}, stop |-> FALSE]
  BY DEF StartBulk, Confirmed, daemon, table, question, sample
<1>2. ids \subseteq Known
  BY RowsOK DEF BrowserInv, MarksShown
<1>3. BulkOK'
  BY <1>1, <1>2 DEF BulkOK, NoBulk, Known
<1>4. corpus' \subseteq corpus /\ rowTagged' = allTagged' \cap rows
  BY <1>1 DEF BrowserInv, SliceAgrees
<1> QED
  BY <1>1, <1>3, <1>4, RowsStay

LEMMA BulkCallKeeps ==
  ASSUME BrowserInv, NEW r \in Rec, NEW how \in Outcome, BulkDelete(r, how) \/ BulkTag(r, how)
  PROVE  BrowserInv'
<1>1. /\ UNCHANGED <<born, net, period, asking, seq, appliedSeq, answered, statsSeq,
                     appliedStats, allRows, rows, allTagged, rowTagged, sel, checked, lastErr, guard>>
      /\ r \in bulk.todo
      /\ bulk' = [bulk EXCEPT !.todo = bulk.todo \ {r},
                              !.done = IF how = "ok" THEN bulk.done \cup {r} ELSE bulk.done]
  BY DEF BulkDelete, BulkTag, BulkCall, table, question, sample
<1>2. /\ corpus' \subseteq corpus
      /\ bulk.verb = "delete" /\ how = "ok" => r \notin corpus'
  <2>1. CASE BulkDelete(r, how)
    BY <2>1 DEF BulkDelete, DaemonDelete
  <2>2. CASE BulkTag(r, how)
    BY <2>2 DEF BulkTag
  <2> QED
    BY <2>1, <2>2
<1>3. bulk = [verb |-> bulk.verb, todo |-> bulk.todo, asked |-> bulk.asked, done |-> bulk.done,
              stop |-> bulk.stop]
  BY DEF BrowserInv, BulkOK
<1>4. /\ bulk'.verb = bulk.verb /\ bulk'.todo = bulk.todo \ {r}
      /\ bulk'.done = (IF how = "ok" THEN bulk.done \cup {r} ELSE bulk.done)
      /\ bulk' = [verb |-> bulk'.verb, todo |-> bulk'.todo, asked |-> bulk'.asked,
                  done |-> bulk'.done, stop |-> bulk'.stop]
  BY <1>1, <1>3
<1>5. BulkOK'
  BY <1>1, <1>2, <1>4 DEF BrowserInv, BulkOK, Known
<1>6. rowTagged' = allTagged' \cap rows
  BY <1>1 DEF BrowserInv, SliceAgrees
<1> QED
  BY <1>1, <1>2, <1>5, <1>6, RowsStay

LEMMA CancelBulkKeeps ==
  ASSUME BrowserInv, CancelBulk
  PROVE  BrowserInv'
<1>1. /\ UNCHANGED <<born, corpus, net, period, asking, seq, appliedSeq, answered, statsSeq,
                     appliedStats, allRows, rows, allTagged, rowTagged, sel, checked, lastErr, guard>>
      /\ bulk' = [bulk EXCEPT !.stop = TRUE]
  BY DEF CancelBulk, daemon, table, question, sample
<1>2. BulkOK'
  BY <1>1 DEF BrowserInv, BulkOK, Known
<1>3. rowTagged' = allTagged' \cap rows /\ corpus' \subseteq corpus
  BY <1>1 DEF BrowserInv, SliceAgrees
<1> QED
  BY <1>1, <1>2, <1>3, RowsStay

LEMMA BulkDoneKeeps ==
  ASSUME BrowserInv, ApplyBulkDelete \/ ApplyBulkTag
  PROVE  BrowserInv'
<1>1. /\ UNCHANGED <<born, corpus, net, period, asking, seq, appliedSeq, answered, statsSeq,
                     appliedStats>>
      /\ bulk' = NoBulk /\ (lastErr => lastErr')
  BY DEF ApplyBulkDelete, ApplyBulkTag, BulkDone, daemon, question, sample
<1>2. BulkOK' /\ corpus' \subseteq corpus
  BY <1>1 DEF BulkOK, NoBulk
<1>3. CASE ApplyBulkDelete
  <2>1. RemoveRows(bulk.done) /\ checked' \subseteq checked \ bulk.done /\ bulk.verb = "delete"
    BY <1>3 DEF ApplyBulkDelete
  <2>2. bulk.done \subseteq Known /\ bulk.done \cap corpus' = {}
    BY <1>1, <2>1 DEF BrowserInv, BulkOK
  <2> QED
    BY <1>1, <1>2, <2>1, <2>2, RemoveRowsKeeps
<1>4. CASE ApplyBulkTag
  <2>1. TagLocal(bulk.verb, bulk.done) /\ UNCHANGED <<allRows, rows, sel, checked, guard>>
    BY <1>4 DEF ApplyBulkTag
  <2>2. rowTagged' = allTagged' \cap rows
    BY <2>1, TagLocalIs
  <2> QED
    BY <1>1, <1>2, <2>1, <2>2, RowsStay
<1> QED
  BY <1>3, <1>4

LEMMA BrowserStep ==
  ASSUME BrowserInv, [Next]_vars
  PROVE  BrowserInv'
<1>1. ASSUME NEW m \in net, NEW ok \in BOOLEAN, Deliver(m, ok)
      PROVE  BrowserInv'
  BY <1>1, ApplyResultKeeps, DropStaleKeeps, ApplyHostsKeeps, ApplyStatsKeeps, ApplySyncKeeps
    DEF Deliver
<1>2. CASE Converge \/ FoldTags \/ CloseView \/ UNCHANGED vars
  BY <1>2, NothingMoves DEF Converge, FoldTags, CloseView, vars, daemon, question, batch
<1>3. CASE \/ \E i \in 0..2 : MoveHost(i)
           \/ Search \/ ToggleHideAgents
           \/ \E axis \in {"tag", "exec"} : ToggleFilter(axis) \/ SubmitFilterEntry(axis)
  BY <1>3, IssueQueryKeeps DEF MoveHost, Search, ToggleHideAgents, ToggleFilter, SubmitFilterEntry
<1>4. CASE ToggleChecked \/ ToggleCheckAll \/ Escape
  <2>1. HasSel => Selected \in rows
    BY RowsOK DEF BrowserInv
  <2>2. checked \subseteq rows
    BY DEF BrowserInv, MarksShown
  <2>3. \E marks : marks \subseteq rows /\ Mark(marks)
    <3>1. CASE ToggleChecked
      <4>1. Mark(IF Selected \in checked THEN checked \ {Selected} ELSE checked \cup {Selected}) /\ HasSel
        BY <3>1 DEF ToggleChecked
      <4>2. (IF Selected \in checked THEN checked \ {Selected} ELSE checked \cup {Selected}) \subseteq rows
        BY <2>1, <2>2, <4>1
      <4> QED
        BY <4>1, <4>2
    <3>2. CASE ToggleCheckAll
      <4>1. Mark(IF rows \subseteq checked THEN {} ELSE rows)
        BY <3>2 DEF ToggleCheckAll
      <4>2. (IF rows \subseteq checked THEN {} ELSE rows) \subseteq rows
        OBVIOUS
      <4> QED
        BY <4>1, <4>2
    <3>3. CASE Escape
      <4>1. Mark({}) /\ {} \subseteq rows
        BY <3>3 DEF Escape
      <4> QED
        BY <4>1
    <3> QED
      BY <1>4, <3>1, <3>2, <3>3
  <2> QED
    BY <2>3, MarkKeeps
<1>5. CASE ToggleStats \/ ToggleAgents
  BY <1>5, OpenViewKeeps DEF ToggleStats, ToggleAgents
<1>6. CASE DeleteChecked \/ \E verb \in {"tag", "untag"} : TagChecked(verb)
  <2>1. CASE DeleteChecked
    BY <2>1, StartBulkKeeps DEF DeleteChecked
  <2>2. ASSUME NEW verb \in {"tag", "untag"}, TagChecked(verb)
        PROVE  BrowserInv'
    <3>1. StartBulk(verb, IF verb = "untag" THEN checked \cap allTagged ELSE checked)
      BY <2>2 DEF TagChecked
    <3>2. (IF verb = "untag" THEN checked \cap allTagged ELSE checked) \subseteq checked
      OBVIOUS
    <3> QED
      BY <3>1, <3>2, StartBulkKeeps
  <2> QED
    BY <1>6, <2>1, <2>2
<1>7. CASE \E r \in Rec, how \in Outcome : BulkDelete(r, how) \/ BulkTag(r, how)
  BY <1>7, BulkCallKeeps
<1> QED
  BY <1>1, <1>2, <1>3, <1>4, <1>5, <1>6, <1>7, RecordKeeps, AnswerKeeps, OnHostsTickKeeps,
    MoveSelKeeps, SetPeriodKeeps, SyncNowKeeps, DoDeleteKeeps, SubmitTagKeeps, CancelBulkKeeps,
    BulkDoneKeeps DEF Next

LEMMA BrowserHolds == ScreensSpec => []BrowserInv
<1>1. ScreensInit => BrowserInv
  BY BrowserInit DEF ScreensInit
<1>2. BrowserInv /\ [ScreensNext]_screenVars => BrowserInv'
  BY PartSteps, BrowserStep
<1> QED
  BY <1>1, <1>2, PTL DEF ScreensSpec

\* A record of this machine whose delete the browser saw succeed never comes back to the
\* table (gone, withoutGone), for any records, questions in flight and batches.
THEOREM DeletedNeverReturn == ScreensSpec => []DeletedStayGone
<1>1. BrowserInv => DeletedStayGone
  BY DEF BrowserInv
<1> QED
  BY <1>1, BrowserHolds, PTL

\* Nor to the sample behind the stats screen and the explorer (applyStats).
THEOREM SampleAlwaysForgets == ScreensSpec => SampleForgets
<1>1. ASSUME BrowserInv, [Next]_vars, statsRows' # statsRows
      PROVE  statsRows' \cap deleted \subseteq Remote
  <2>1. PICK m \in net : ApplyStats(m, TRUE)
    <3> USE DEF sample
    <3>1. CASE \E m \in net, ok \in BOOLEAN : Deliver(m, ok)
      <4>1. \E m \in net, ok \in BOOLEAN : ApplyStats(m, ok)
        BY <1>1, <3>1 DEF Deliver, ApplyResult, DropStale, ApplyHosts, ApplySync
      <4> QED
        BY <1>1, <4>1 DEF ApplyStats
    <3>2. CASE \/ \E r \in Rec : Record(r)
               \/ Converge \/ FoldTags \/ OnHostsTick \/ Search \/ ToggleHideAgents
               \/ \E m \in net : Answer(m)
               \/ \E i \in 0..Cardinality(Rec) : MoveSel(i)
               \/ \E i \in 0..2 : MoveHost(i)
               \/ \E axis \in {"tag", "exec"} : ToggleFilter(axis) \/ SubmitFilterEntry(axis)
      BY <1>1, <3>2 DEF Record, Converge, FoldTags, Answer, OnHostsTick, MoveSel, IssueQuery,
                        MoveHost, Search, ToggleFilter, SubmitFilterEntry, ToggleHideAgents
    <3>3. CASE \/ \E p \in {"all", "recent"} : SetPeriod(p)
               \/ ToggleStats \/ ToggleAgents \/ CloseView \/ SyncNow
               \/ ToggleChecked \/ ToggleCheckAll \/ Escape
      BY <1>1, <3>3 DEF SetPeriod, OpenView, ToggleStats, ToggleAgents, CloseView, SyncNow, Mark,
                        ToggleChecked, ToggleCheckAll, Escape
    <3>4. CASE \/ \E how \in Outcome : DoDelete(how)
               \/ \E verb \in {"tag", "untag"}, how \in Outcome : SubmitTag(verb, how)
               \/ DeleteChecked \/ \E verb \in {"tag", "untag"} : TagChecked(verb)
               \/ \E r \in Rec, how \in Outcome : BulkDelete(r, how) \/ BulkTag(r, how)
               \/ CancelBulk \/ ApplyBulkDelete \/ ApplyBulkTag
      BY <1>1, <3>4 DEF Confirmed, DoDelete, SubmitTag, StartBulk, DeleteChecked, TagChecked,
                        BulkCall, BulkDelete, BulkTag, CancelBulk, BulkDone, ApplyBulkDelete,
                        ApplyBulkTag
    <3>5. Next
      BY <1>1 DEF vars
    <3> QED
      BY <3>1, <3>2, <3>3, <3>4, <3>5 DEF Next
  <2>2. m.kind = "stats" /\ ~Stale(m) /\ statsRows' = WithoutGone(goneStats, m.seq, m.rows)
    BY <2>1 DEF ApplyStats
  <2>3. Behind(m, appliedStats, goneStats) /\ m.seq > appliedStats
    BY <1>1, <2>1, <2>2 DEF BrowserInv, GoneOK, Stale, BrowserTypes, MsgOK
  <2> QED
    BY <2>2, <2>3 DEF Behind, WithoutGone
<1>2. BrowserInv /\ [ScreensNext]_screenVars =>
        [statsRows' # statsRows => statsRows' \cap deleted \subseteq Remote]_vars
  BY <1>1, PartSteps
<1> QED
  BY <1>2, BrowserHolds, PTL DEF ScreensSpec, SampleForgets

\* A mark is never on a record the table does not show (pruneChecked), so the delete or
\* tag behind it is of a row that the user looked at.
THEOREM MarksAreShown == ScreensSpec => []MarksShown
<1>1. BrowserInv => MarksShown
  BY DEF BrowserInv
<1> QED
  BY <1>1, BrowserHolds, PTL

\* The table is the period's slice of what it holds, tags included, and the cursor is on a
\* row whenever there is one (applyPeriodFilter, removeRows, applyTagLocal, clampSel).
THEOREM SliceAlwaysAgrees == ScreensSpec => []SliceAgrees
<1>1. BrowserInv => SliceAgrees
  BY DEF BrowserInv
<1> QED
  BY <1>1, BrowserHolds, PTL

\* Once every question was answered, in whatever order, the table is an answer to what the
\* keys ask, unless the last answer was an error (applyResult).
THEOREM TableAnswers == ScreensSpec => []AnswersQuestion
<1>1. BrowserInv => AnswersQuestion
  BY DEF BrowserInv, LatestOK, AnswersQuestion
<1> QED
  BY <1>1, BrowserHolds, PTL

(***************************************************************************)
(* Panes                                                                   *)
(***************************************************************************)
PaneTypes ==
  /\ width \in Nat \ {0} /\ height \in Nat \ {0} /\ hostRows \in Nat \ {0}
  /\ onView \in Pane!View /\ focus \in Pane!Pane /\ apane \in Pane!Pane /\ dpane \in {0, 1}
  /\ splits \in [Pane!Split -> Nat]

\* The seams of a geometry are numbers, and the devices view has its own two panes.
SeamsOf(g) ==
  /\ g.vDiv \in Int /\ g.hDiv \in Int /\ g.hDiv2 \in Int
  /\ onView = "devices" => \A i \in {2, 3, 4} : g.p[i] = Pane!Nowhere

GeoInv == PanesTile /\ SeamsOf(geo)

\* Five rectangles of a frame w wide and mid high that are inside it, apart and as large.
InFrame(r, w, mid) ==
  /\ r.x \in Nat /\ r.y \in Nat /\ r.w \in Nat /\ r.h \in Nat
  /\ r.w > 0 /\ r.h > 0 => r.x + r.w <= w /\ r.y >= 1 /\ r.y + r.h <= 1 + mid
Beside(r, s) == r.w > 0 /\ r.h > 0 /\ s.w > 0 /\ s.h > 0 => Pane!Apart(r, s)
Tiles(p, w, mid) ==
  /\ \A i \in Pane!Pane : InFrame(p[i], w, mid)
  /\ \A i, j \in Pane!Pane : i < j => Beside(p[i], p[j])
  /\ p[0].w * p[0].h + p[1].w * p[1].h + p[2].w * p[2].h + p[3].w * p[3].h + p[4].w * p[4].h
       = w * mid

LEMMA TilesTile ==
  ASSUME Tiles(geo.p, width, Pane!Mid)
  PROVE  PanesTile
<1> DEFINE p == geo.p
<1>1. \A i \in Pane!Pane : InFrame(p[i], width, Pane!Mid)
  BY DEF Tiles
<1>2. \A i \in Pane!Live : LET r == p[i] IN
        r.x >= 0 /\ r.x + r.w <= width /\ r.y >= 1 /\ r.y + r.h <= 1 + Pane!Mid
  BY <1>1 DEF Pane!Live, InFrame
<1>3. ASSUME NEW i \in Pane!Live, NEW j \in Pane!Live, i # j
      PROVE  Pane!Apart(p[i], p[j])
  <2>1. i < j \/ j < i
    BY <1>3 DEF Pane!Live, Pane!Pane
  <2>2. Beside(p[i], p[j]) \/ Beside(p[j], p[i])
    BY <2>1 DEF Tiles, Pane!Live
  <2> QED
    BY <2>2 DEF Beside, Pane!Apart, Pane!Live
<1>4. ASSUME NEW i \in Pane!Pane
      PROVE  Pane!Area(i) = p[i].w * p[i].h
  <2>1. p[i].w \in Nat /\ p[i].h \in Nat
    BY <1>1 DEF InFrame
  <2>2. CASE i \in Pane!Live
    BY <2>2 DEF Pane!Area
  <2>3. CASE i \notin Pane!Live
    <3>1. p[i].w = 0 \/ p[i].h = 0
      BY <2>1, <2>3 DEF Pane!Live
    <3>2. \A a, b \in Nat : a = 0 \/ b = 0 => a * b = 0
      OBVIOUS
    <3> QED
      BY <2>1, <2>3, <3>1, <3>2 DEF Pane!Area
  <2> QED
    BY <2>2, <2>3
<1>5. Pane!Area(0) + Pane!Area(1) + Pane!Area(2) + Pane!Area(3) + Pane!Area(4) = width * Pane!Mid
  BY <1>4 DEF Tiles, Pane!Pane
<1> QED
  BY <1>2, <1>3, <1>5 DEF PanesTile, Pane!PanesTile

\* A seam leaves something before it and does not go past the end.
LEMMA SplitWithin ==
  ASSUME NEW ratio \in Nat, NEW total \in Nat \ {0}, NEW floor \in Nat, NEW fallback \in Int
  PROVE  Pane!SplitAt(ratio, total, floor, fallback) \in 1..total
<1> DEFINE v == IF ratio > 0 THEN (total * ratio + Pane!RatioFull \div 2) \div Pane!RatioFull
                ELSE fallback
<1>1. v \in Int
  <2>1. total * ratio \in Nat
    OBVIOUS
  <2>2. \A a \in Nat : (a + 1000 \div 2) \div 1000 \in Int
    OBVIOUS
  <2> QED
    BY <2>1, <2>2 DEF Pane!RatioFull
<1> HIDE DEF v
<1>2. Pane!HigherOf(1, Pane!LowerOf(Pane!HigherOf(v, floor), total - floor)) \in 1..total
  BY <1>1 DEF Pane!HigherOf, Pane!LowerOf
<1> QED
  BY <1>2 DEF Pane!SplitAt, v

\* The areas of two parts of a stretch.
LEMMA AreaSplits ==
  ASSUME NEW a \in Nat, NEW b \in Nat, NEW m \in Nat
  PROVE  /\ (a + b) * m = a * m + b * m /\ m * (a + b) = m * a + m * b
         /\ a * m \in Nat /\ b * m \in Nat /\ m * a \in Nat /\ m * b \in Nat
OBVIOUS

LEMMA FiveTile ==
  ASSUME NEW p, NEW w \in Nat, NEW mid \in Nat,
         InFrame(p[0], w, mid), InFrame(p[1], w, mid), InFrame(p[2], w, mid),
         InFrame(p[3], w, mid), InFrame(p[4], w, mid),
         Beside(p[0], p[1]), Beside(p[0], p[2]), Beside(p[0], p[3]), Beside(p[0], p[4]),
         Beside(p[1], p[2]), Beside(p[1], p[3]), Beside(p[1], p[4]),
         Beside(p[2], p[3]), Beside(p[2], p[4]), Beside(p[3], p[4]),
         p[0].w * p[0].h + p[1].w * p[1].h + p[2].w * p[2].h + p[3].w * p[3].h
           + p[4].w * p[4].h = w * mid
  PROVE  Tiles(p, w, mid)
<1>1. \A i \in Pane!Pane : i = 0 \/ i = 1 \/ i = 2 \/ i = 3 \/ i = 4
  BY DEF Pane!Pane
<1>2. \A i \in Pane!Pane : InFrame(p[i], w, mid)
  BY <1>1
<1>3. \A i, j \in Pane!Pane : i < j =>
        \/ i = 0 /\ (j = 1 \/ j = 2 \/ j = 3 \/ j = 4)
        \/ i = 1 /\ (j = 2 \/ j = 3 \/ j = 4)
        \/ i = 2 /\ (j = 3 \/ j = 4)
        \/ i = 3 /\ j = 4
  BY <1>1
<1>4. \A i, j \in Pane!Pane : i < j => Beside(p[i], p[j])
  BY <1>3
<1> QED
  BY <1>2, <1>4 DEF Tiles

LEMMA BrowseTiles ==
  ASSUME NEW w \in Nat, NEW mid \in Nat, NEW leftW \in 1..w, NEW tableH \in 1..mid
  PROVE  Tiles(Pane!BrowseGeom(w, mid, leftW, tableH).p, w, mid)
<1> DEFINE p == Pane!BrowseGeom(w, mid, leftW, tableH).p
<1>1. /\ p[0] = Pane!Rect(0, 1, leftW, mid) /\ p[1] = Pane!Rect(leftW, 1, w - leftW, tableH)
      /\ p[2] = Pane!Rect(leftW, 1 + tableH, w - leftW, mid - tableH)
      /\ p[3] = Pane!Nowhere /\ p[4] = Pane!Nowhere
  BY DEF Pane!BrowseGeom, Pane!Layout, Pane!Parked, Pane!Pane, Pane!FocusHosts, Pane!FocusTable
<1>2. PICK r \in Nat, b \in Nat : w = leftW + r /\ mid = tableH + b
  <2>1. w - leftW \in Nat /\ mid - tableH \in Nat
    OBVIOUS
  <2>2. w = leftW + (w - leftW) /\ mid = tableH + (mid - tableH)
    OBVIOUS
  <2> QED
    BY <2>1, <2>2
<1>3. w - leftW = r /\ mid - tableH = b /\ leftW \in Nat /\ tableH \in Nat
  BY <1>2
<1>4. leftW * mid + r * tableH + r * b = w * mid
  BY <1>2, <1>3, AreaSplits
<1> HIDE DEF p
<1> USE DEF Pane!Rect, Pane!Nowhere
<1>5. /\ InFrame(p[0], w, mid) /\ InFrame(p[1], w, mid) /\ InFrame(p[2], w, mid)
      /\ InFrame(p[3], w, mid) /\ InFrame(p[4], w, mid)
  BY <1>1, <1>2, <1>3 DEF InFrame
<1>6. /\ Beside(p[0], p[1]) /\ Beside(p[0], p[2]) /\ Beside(p[0], p[3]) /\ Beside(p[0], p[4])
      /\ Beside(p[1], p[2]) /\ Beside(p[1], p[3]) /\ Beside(p[1], p[4])
      /\ Beside(p[2], p[3]) /\ Beside(p[2], p[4]) /\ Beside(p[3], p[4])
  BY <1>1, <1>2, <1>3 DEF Beside, Pane!Apart
<1>7. p[0].w * p[0].h + p[1].w * p[1].h + p[2].w * p[2].h + p[3].w * p[3].h
           + p[4].w * p[4].h = w * mid
  <2>1. p[3].w * p[3].h = 0 /\ p[4].w * p[4].h = 0
    BY <1>1
  <2>2. p[0].w * p[0].h = leftW * mid /\ p[1].w * p[1].h = r * tableH /\ p[2].w * p[2].h = r * b
    BY <1>1, <1>3
  <2>3. leftW * mid \in Nat /\ r * tableH \in Nat /\ r * b \in Nat
    BY <1>2, <1>3, AreaSplits
  <2> QED
    BY <1>4, <2>1, <2>2, <2>3
<1>8. Tiles(p, w, mid)
  BY <1>5, <1>6, <1>7, FiveTile
<1> QED
  BY <1>8 DEF p


LEMMA DevicesTiles ==
  ASSUME NEW w \in Nat, NEW mid \in Nat, NEW topH \in 1..mid
  PROVE  Tiles(Pane!DevicesGeom(w, mid, topH).p, w, mid)
<1> DEFINE p == Pane!DevicesGeom(w, mid, topH).p
<1>1. /\ p[0] = Pane!Rect(0, 1, w, topH) /\ p[1] = Pane!Rect(0, 1 + topH, w, mid - topH)
      /\ p[2] = Pane!Nowhere /\ p[3] = Pane!Nowhere /\ p[4] = Pane!Nowhere
  BY DEF Pane!DevicesGeom, Pane!Layout, Pane!Parked, Pane!Pane
<1>2. PICK b \in Nat : mid = topH + b
  <2>1. mid - topH \in Nat /\ mid = topH + (mid - topH)
    OBVIOUS
  <2> QED
    BY <2>1
<1>3. mid - topH = b /\ topH \in Nat
  BY <1>2
<1>4. w * topH + w * b = w * mid
  BY <1>2, <1>3, AreaSplits
<1> HIDE DEF p
<1> USE DEF Pane!Rect, Pane!Nowhere
<1>5. /\ InFrame(p[0], w, mid) /\ InFrame(p[1], w, mid) /\ InFrame(p[2], w, mid)
      /\ InFrame(p[3], w, mid) /\ InFrame(p[4], w, mid)
  BY <1>1, <1>2, <1>3 DEF InFrame
<1>6. /\ Beside(p[0], p[1]) /\ Beside(p[0], p[2]) /\ Beside(p[0], p[3]) /\ Beside(p[0], p[4])
      /\ Beside(p[1], p[2]) /\ Beside(p[1], p[3]) /\ Beside(p[1], p[4])
      /\ Beside(p[2], p[3]) /\ Beside(p[2], p[4]) /\ Beside(p[3], p[4])
  BY <1>1, <1>2, <1>3 DEF Beside, Pane!Apart
<1>7. p[0].w * p[0].h + p[1].w * p[1].h + p[2].w * p[2].h + p[3].w * p[3].h
           + p[4].w * p[4].h = w * mid
  <2>1. p[2].w * p[2].h = 0 /\ p[3].w * p[3].h = 0 /\ p[4].w * p[4].h = 0
    BY <1>1
  <2>2. p[0].w * p[0].h = w * topH /\ p[1].w * p[1].h = w * b
    BY <1>1, <1>3
  <2>3. w * topH \in Nat /\ w * b \in Nat
    BY <1>2, <1>3, AreaSplits
  <2> QED
    BY <1>4, <2>1, <2>2, <2>3
<1>8. Tiles(p, w, mid)
  BY <1>5, <1>6, <1>7, FiveTile
<1> QED
  BY <1>8 DEF p

LEMMA AgentTiles ==
  ASSUME NEW w \in Nat, NEW mid \in Nat, NEW leftW \in 1..w, NEW topH \in 1..mid,
         NEW hostsH \in 0..(topH - 1)
  PROVE  Tiles(Pane!AgentGeom(w, mid, leftW, topH, hostsH).p, w, mid)
<1> DEFINE p == Pane!AgentGeom(w, mid, leftW, topH, hostsH).p
<1>1. /\ p[0] = Pane!Rect(0, 1, leftW, topH - hostsH)
      /\ p[1] = Pane!Rect(0, 1 + topH - hostsH, leftW, hostsH)
      /\ p[2] = Pane!Rect(leftW, 1, w - leftW, topH)
      /\ p[3] = Pane!Rect(leftW, 1 + topH, w - leftW, mid - topH)
      /\ p[4] = Pane!Rect(0, 1 + topH, leftW, mid - topH)
  BY DEF Pane!AgentGeom, Pane!Layout, Pane!Parked, Pane!Pane, Pane!ApAgents, Pane!ApHosts,
         Pane!ApPrompts, Pane!ApCommands
<1>2. PICK r \in Nat, b \in Nat, a \in Nat :
        w = leftW + r /\ mid = topH + b /\ topH = a + hostsH
  <2>1. w - leftW \in Nat /\ mid - topH \in Nat /\ topH - hostsH \in Nat
    OBVIOUS
  <2>2. w = leftW + (w - leftW) /\ mid = topH + (mid - topH) /\ topH = (topH - hostsH) + hostsH
    OBVIOUS
  <2> QED
    BY <2>1, <2>2
<1>3. /\ w - leftW = r /\ mid - topH = b /\ topH - hostsH = a /\ 1 + topH - hostsH = 1 + a
      /\ leftW \in Nat /\ topH \in Nat /\ hostsH \in Nat
  BY <1>2
<1>4. leftW * a + leftW * hostsH + r * topH + r * b + leftW * b = w * mid
  <2>1. w * mid = leftW * mid + r * mid
    BY <1>2, <1>3, AreaSplits
  <2>2. leftW * mid = leftW * topH + leftW * b /\ r * mid = r * topH + r * b
    BY <1>2, <1>3, AreaSplits
  <2>3. leftW * topH = leftW * a + leftW * hostsH
    BY <1>2, <1>3, AreaSplits
  <2>4. /\ leftW * a \in Nat /\ leftW * hostsH \in Nat /\ leftW * b \in Nat
        /\ r * topH \in Nat /\ r * b \in Nat
    BY <1>2, <1>3, AreaSplits
  <2> QED
    BY <2>1, <2>2, <2>3, <2>4
<1> HIDE DEF p
<1> USE DEF Pane!Rect, Pane!Nowhere
<1>5. /\ InFrame(p[0], w, mid) /\ InFrame(p[1], w, mid) /\ InFrame(p[2], w, mid)
      /\ InFrame(p[3], w, mid) /\ InFrame(p[4], w, mid)
  BY <1>1, <1>2, <1>3 DEF InFrame
<1>6. /\ Beside(p[0], p[1]) /\ Beside(p[0], p[2]) /\ Beside(p[0], p[3]) /\ Beside(p[0], p[4])
      /\ Beside(p[1], p[2]) /\ Beside(p[1], p[3]) /\ Beside(p[1], p[4])
      /\ Beside(p[2], p[3]) /\ Beside(p[2], p[4]) /\ Beside(p[3], p[4])
  BY <1>1, <1>2, <1>3 DEF Beside, Pane!Apart
<1>7. p[0].w * p[0].h + p[1].w * p[1].h + p[2].w * p[2].h + p[3].w * p[3].h
           + p[4].w * p[4].h = w * mid
  <2>1. /\ p[0].w * p[0].h = leftW * a /\ p[1].w * p[1].h = leftW * hostsH
        /\ p[2].w * p[2].h = r * topH /\ p[3].w * p[3].h = r * b /\ p[4].w * p[4].h = leftW * b
    BY <1>1, <1>3
  <2> QED
    BY <1>4, <2>1
<1>8. Tiles(p, w, mid)
  BY <1>5, <1>6, <1>7, FiveTile
<1> QED
  BY <1>8 DEF p

\* The pane in front and the details beside it, in a zoom with details.
LEMMA ZoomTiles ==
  ASSUME NEW w \in Nat, NEW mid \in Nat, NEW detailW \in 1..w,
         NEW m \in Pane!Pane, NEW d \in Pane!Pane, m < d
  PROVE  Tiles(Pane!ZoomDetailGeom(w, mid, detailW, m, d).p, w, mid)
<1> DEFINE p == Pane!ZoomDetailGeom(w, mid, detailW, m, d).p
<1>1. \A i \in Pane!Pane :
        p[i] = IF i = m THEN Pane!Rect(0, 1, w - detailW, mid)
               ELSE IF i = d THEN Pane!Rect(w - detailW, 1, detailW, mid) ELSE Pane!Nowhere
  BY DEF Pane!ZoomDetailGeom, Pane!Layout, Pane!Parked
<1>2. PICK l \in Nat : w = l + detailW
  <2>1. w - detailW \in Nat /\ w = (w - detailW) + detailW
    OBVIOUS
  <2> QED
    BY <2>1
<1>3. w - detailW = l /\ detailW \in Nat
  BY <1>2
<1>4. l * mid + detailW * mid = w * mid /\ l * mid \in Nat /\ detailW * mid \in Nat
  BY <1>2, <1>3, AreaSplits
<1> HIDE DEF p
<1> USE DEF Pane!Rect, Pane!Nowhere
<1>5. \A i \in Pane!Pane : InFrame(p[i], w, mid)
  BY <1>1, <1>2, <1>3 DEF InFrame
<1>6. \A i, j \in Pane!Pane : i < j => Beside(p[i], p[j])
  BY <1>1, <1>2, <1>3 DEF Beside, Pane!Apart, Pane!Pane
<1>7. p[0].w * p[0].h + p[1].w * p[1].h + p[2].w * p[2].h + p[3].w * p[3].h
           + p[4].w * p[4].h = w * mid
  <2>1. \A i \in Pane!Pane : p[i].w * p[i].h = IF i = m THEN l * mid
                                               ELSE IF i = d THEN detailW * mid ELSE 0
    <3>1. ASSUME NEW i \in Pane!Pane
          PROVE  p[i].w * p[i].h = IF i = m THEN l * mid
                                   ELSE IF i = d THEN detailW * mid ELSE 0
      <4>1. CASE i = m
        BY <1>1, <1>3, <4>1
      <4>2. CASE i # m /\ i = d
        BY <1>1, <4>2
      <4>3. CASE i # m /\ i # d
        <5>1. p[i].w = 0 /\ p[i].h = 0
          BY <1>1, <4>3
        <5> QED
          BY <4>3, <5>1
      <4> QED
        BY <4>1, <4>2, <4>3
    <3> QED
      BY <3>1
  <2> DEFINE a(i) == p[i].w * p[i].h
  <2>2. a(0) + a(1) + a(2) + a(3) + a(4) = l * mid + detailW * mid
    <3>1. \A i \in 0..4 : a(i) = IF i = m THEN l * mid ELSE IF i = d THEN detailW * mid ELSE 0
      BY <2>1 DEF Pane!Pane
    <3> HIDE DEF a
    <3>2. m \in 0..4 /\ d \in 0..4 /\ m # d
      BY DEF Pane!Pane
    <3> QED
      BY <1>4, <3>1, <3>2
  <2> QED
    BY <1>4, <2>2
<1>8. Tiles(p, w, mid)
  BY <1>5, <1>6, <1>7 DEF Tiles
<1> QED
  BY <1>8 DEF p

LEMMA FullTiles ==
  ASSUME NEW w \in Nat, NEW mid \in Nat, NEW f \in Pane!Pane
  PROVE  Tiles(Pane!FullFrame(f, w, mid).p, w, mid)
<1> DEFINE p == Pane!FullFrame(f, w, mid).p
<1>1. \A i \in Pane!Pane : p[i] = IF i = f THEN Pane!Rect(0, 1, w, mid) ELSE Pane!Nowhere
  BY DEF Pane!FullFrame, Pane!Layout, Pane!Parked
<1> HIDE DEF p
<1> USE DEF Pane!Rect, Pane!Nowhere
<1>2. \A i \in Pane!Pane : InFrame(p[i], w, mid)
  BY <1>1 DEF InFrame
<1>3. \A i, j \in Pane!Pane : i < j => Beside(p[i], p[j])
  BY <1>1 DEF Beside, Pane!Apart, Pane!Pane
<1>4. p[0].w * p[0].h + p[1].w * p[1].h + p[2].w * p[2].h + p[3].w * p[3].h
           + p[4].w * p[4].h = w * mid
  <2> DEFINE a(i) == p[i].w * p[i].h
  <2>1. \A i \in 0..4 : a(i) = IF i = f THEN w * mid ELSE 0
    <3>1. ASSUME NEW i \in Pane!Pane
          PROVE  a(i) = IF i = f THEN w * mid ELSE 0
      <4>1. CASE i = f
        BY <1>1, <4>1
      <4>2. CASE i # f
        <5>1. p[i].w = 0 /\ p[i].h = 0
          BY <1>1, <4>2
        <5> QED
          BY <4>2, <5>1
      <4> QED
        BY <4>1, <4>2
    <3> QED
      BY <3>1 DEF Pane!Pane
  <2>2. w * mid \in Nat /\ f \in 0..4
    BY AreaSplits DEF Pane!Pane
  <2>3. a(0) + a(1) + a(2) + a(3) + a(4) = w * mid
    <3> HIDE DEF a
    <3> QED
      BY <2>1, <2>2
  <2> QED
    BY <2>3
<1>5. Tiles(p, w, mid)
  BY <1>2, <1>3, <1>4 DEF Tiles
<1> QED
  BY <1>5 DEF p

LEMMA MidTall ==
  ASSUME height \in Nat
  PROVE  Pane!Mid \in Nat /\ Pane!Mid >= 3
BY DEF Pane!Mid, Pane!HigherOf

\* Thousandths of a stretch, rounded down.
LEMMA PartOf ==
  ASSUME NEW n \in Nat, NEW k \in Nat
  PROVE  (n * k) \div Pane!RatioFull \in Int
<1>1. n * k \in Nat
  OBVIOUS
<1>2. \A a \in Nat : a \div 1000 \in Int
  OBVIOUS
<1> QED
  BY <1>1, <1>2 DEF Pane!RatioFull

\* The sizes that the geometry is made of leave something on both sides of a seam, or all of it on one.
LEMMA SizesFit ==
  ASSUME PaneTypes
  PROVE  /\ Pane!LeftW \in 1..width /\ Pane!TableH \in 1..Pane!Mid
         /\ Pane!AgentTopH \in 1..Pane!Mid
         /\ Pane!AgentHostsH \in 0..(Pane!AgentTopH - 1)
         /\ Pane!DetailW \in 1..width
<1>1. /\ width \in Nat \ {0} /\ height \in Nat \ {0} /\ hostRows \in Nat \ {0}
      /\ \A s \in Pane!Split : splits[s] \in Nat
  BY DEF PaneTypes
<1>2. Pane!Mid \in Nat \ {0} /\ Pane!Mid >= 3
  BY <1>1, MidTall
<1>3. /\ splits["BrowseLeft"] \in Nat /\ splits["BrowseTop"] \in Nat /\ splits["AgentTop"] \in Nat
      /\ splits["AgentHosts"] \in Nat /\ splits["ZoomDetail"] \in Nat
  BY <1>1 DEF Pane!Split
<1>4. Pane!LeftW \in 1..width
  <2>1. Pane!LowerOf(Pane!HigherOf(10, Pane!LowerOf(24, width - 12)), width - 1) \in Int
    BY <1>1 DEF Pane!LowerOf, Pane!HigherOf
  <2> QED
    BY <1>1, <1>3, <2>1, SplitWithin DEF Pane!LeftW, Pane!MinPaneCols
<1>5. Pane!TableH \in 1..Pane!Mid
  <2> DEFINE third == Pane!ClampRatio(Pane!Mid \div 3, 5, 12)
             rest == Pane!Mid - Pane!HigherOf(3, Pane!LowerOf(third, Pane!Mid - 4))
  <2>1. third \in Int
    BY <1>2 DEF Pane!ClampRatio, Pane!HigherOf, Pane!LowerOf
  <2>2. rest \in Int
    <3> HIDE DEF third
    <3> QED
      BY <1>2, <2>1 DEF Pane!HigherOf, Pane!LowerOf
  <2>3. Pane!TableH = Pane!SplitAt(splits["BrowseTop"], Pane!Mid, 4, rest)
    BY DEF Pane!TableH, Pane!MinPaneRows
  <2> HIDE DEF rest
  <2> QED
    BY <1>2, <1>3, <2>2, <2>3, SplitWithin
<1>6. Pane!AgentTopH \in 1..Pane!Mid
  <2>1. (Pane!Mid * 550) \div Pane!RatioFull \in Int
    BY <1>2, PartOf
  <2>2. PICK f \in Int : Pane!AgentTopH = Pane!SplitAt(splits["AgentTop"], Pane!Mid, 4, f)
    BY <2>1 DEF Pane!AgentTopH, Pane!MinPaneRows
  <2> QED
    BY <1>2, <1>3, <2>2, SplitWithin
<1>7. Pane!AgentHostsH \in 0..(Pane!AgentTopH - 1)
  <2> DEFINE content == Pane!HigherOf(3, Pane!LowerOf(hostRows + 2, Pane!AgentTopH \div 2))
  <2>1. Pane!AgentTopH \in Nat \ {0}
    BY <1>2, <1>6
  <2>2. Pane!AgentTopH - content \in Int
    BY <1>1, <2>1 DEF Pane!HigherOf, Pane!LowerOf
  <2>3. Pane!AgentHostsH = Pane!AgentTopH
                             - Pane!SplitAt(splits["AgentHosts"], Pane!AgentTopH, 3,
                                            Pane!AgentTopH - content)
    BY DEF Pane!AgentHostsH
  <2> HIDE DEF content
  <2>4. Pane!SplitAt(splits["AgentHosts"], Pane!AgentTopH, 3, Pane!AgentTopH - content)
          \in 1..Pane!AgentTopH
    BY <1>3, <2>1, <2>2, SplitWithin
  <2> QED
    BY <2>1, <2>3, <2>4
<1>8. Pane!DetailW \in 1..width
  <2>1. (width * 340) \div Pane!RatioFull \in Int
    BY <1>1, PartOf
  <2> QED
    BY <1>1, <1>3, <2>1, SplitWithin DEF Pane!DetailW, Pane!MinPaneCols
<1> QED
  BY <1>4, <1>5, <1>6, <1>7, <1>8

LEMMA TiledOK ==
  ASSUME PaneTypes
  PROVE  Tiles(Pane!Tiled.p, width, Pane!Mid) /\ SeamsOf(Pane!Tiled)
<1>1. /\ width \in Nat \ {0} /\ Pane!Mid \in Nat \ {0}
      /\ \A s \in Pane!Split : splits[s] \in Nat
  BY MidTall DEF PaneTypes
<1>2. splits["AgentLeft"] \in Nat /\ splits["DevicesTop"] \in Nat
  BY <1>1 DEF Pane!Split
<1>3. CASE onView = "agents"
  <2> DEFINE leftW == Pane!SplitAt(splits["AgentLeft"], width, Pane!MinPaneCols,
                                   (width * 260) \div Pane!RatioFull)
  <2>1. (width * 260) \div Pane!RatioFull \in Int
    BY <1>1, PartOf
  <2>2. leftW \in 1..width
    BY <1>1, <1>2, <2>1, SplitWithin DEF Pane!MinPaneCols
  <2>3. Pane!Tiled = Pane!AgentGeom(width, Pane!Mid, leftW, Pane!AgentTopH, Pane!AgentHostsH)
    BY <1>3 DEF Pane!Tiled
  <2> HIDE DEF leftW
  <2>4. SeamsOf(Pane!Tiled)
    <3>1. Pane!AgentTopH \in Int /\ Pane!AgentHostsH \in Int /\ leftW \in Int
      BY <1>1, <2>2, SizesFit
    <3>2. /\ Pane!Tiled.vDiv = leftW /\ Pane!Tiled.hDiv = 1 + Pane!AgentTopH
          /\ Pane!Tiled.hDiv2 = 1 + Pane!AgentTopH - Pane!AgentHostsH
      BY <2>3 DEF Pane!AgentGeom, Pane!Layout
    <3> QED
      BY <1>3, <3>1, <3>2 DEF SeamsOf
  <2>5. Tiles(Pane!Tiled.p, width, Pane!Mid)
    BY <1>1, <2>2, <2>3, SizesFit, AgentTiles
  <2> QED
    BY <2>4, <2>5
<1>4. CASE onView = "devices"
  <2> DEFINE topH == Pane!SplitAt(splits["DevicesTop"], Pane!Mid, Pane!MinPaneRows,
                                  (Pane!Mid * 400) \div Pane!RatioFull)
  <2>1. (Pane!Mid * 400) \div Pane!RatioFull \in Int
    BY <1>1, PartOf
  <2>2. topH \in 1..Pane!Mid
    BY <1>1, <1>2, <2>1, SplitWithin DEF Pane!MinPaneRows
  <2>3. Pane!Tiled = Pane!DevicesGeom(width, Pane!Mid, topH)
    BY <1>4 DEF Pane!Tiled
  <2> HIDE DEF topH
  <2>4. SeamsOf(Pane!Tiled)
    <3>1. topH \in Int
      BY <2>2
    <3>2. /\ Pane!Tiled.vDiv = -1 /\ Pane!Tiled.hDiv = 1 + topH /\ Pane!Tiled.hDiv2 = -1
      BY <2>3 DEF Pane!DevicesGeom, Pane!Layout
    <3>3. \A i \in {2, 3, 4} : Pane!Tiled.p[i] = Pane!Nowhere
      BY <2>3 DEF Pane!DevicesGeom, Pane!Layout, Pane!Parked, Pane!Pane
    <3> QED
      BY <3>1, <3>2, <3>3 DEF SeamsOf
  <2>5. Tiles(Pane!Tiled.p, width, Pane!Mid)
    BY <1>1, <2>2, <2>3, DevicesTiles
  <2> QED
    BY <2>4, <2>5
<1>5. CASE onView # "agents" /\ onView # "devices"
  <2>1. Pane!Tiled = Pane!BrowseGeom(width, Pane!Mid, Pane!LeftW, Pane!TableH)
    BY <1>5 DEF Pane!Tiled
  <2>2. SeamsOf(Pane!Tiled)
    <3>1. Pane!LeftW \in Int /\ Pane!TableH \in Int
      BY SizesFit
    <3>2. /\ Pane!Tiled.vDiv = Pane!LeftW /\ Pane!Tiled.hDiv = 1 + Pane!TableH
          /\ Pane!Tiled.hDiv2 = -1
      BY <2>1 DEF Pane!BrowseGeom, Pane!Layout
    <3> QED
      BY <1>5, <3>1, <3>2 DEF SeamsOf
  <2>3. Tiles(Pane!Tiled.p, width, Pane!Mid)
    BY <1>1, <2>1, SizesFit, BrowseTiles
  <2> QED
    BY <2>2, <2>3
<1> QED
  BY <1>3, <1>4, <1>5

LEMMA GeometryOK ==
  ASSUME PaneTypes
  PROVE  Tiles(Pane!Geometry.p, width, Pane!Mid) /\ SeamsOf(Pane!Geometry)
<1>1. width \in Nat /\ Pane!Mid \in Nat
  BY MidTall DEF PaneTypes
<1>2. CASE Pane!ZoomDetailActive
  <2>1. Pane!Geometry = Pane!ZoomDetailGeom(width, Pane!Mid, Pane!DetailW, Pane!Paired[1],
                                            Pane!Paired[2])
    BY <1>2 DEF Pane!Geometry
  <2>2. /\ Pane!Paired[1] \in Pane!Pane /\ Pane!Paired[2] \in Pane!Pane
        /\ Pane!Paired[1] < Pane!Paired[2]
    BY DEF Pane!Paired, Pane!Pane, Pane!ZoomDetailAgentPane, Pane!ApCommands, Pane!ApPrompts,
           Pane!ApInfo, Pane!FocusTable, Pane!FocusDetail
  <2>3. onView # "devices"
    BY <1>2 DEF Pane!ZoomDetailActive, Pane!ZoomHasDetail
  <2>4. Pane!DetailW \in 1..width
    BY SizesFit
  <2>5. /\ Pane!Geometry.vDiv = width - Pane!DetailW /\ Pane!Geometry.hDiv = -1
        /\ Pane!Geometry.hDiv2 = -1
    BY <2>1 DEF Pane!ZoomDetailGeom, Pane!Layout
  <2>6. SeamsOf(Pane!Geometry)
    BY <1>1, <2>3, <2>4, <2>5 DEF SeamsOf
  <2>7. Tiles(Pane!Geometry.p, width, Pane!Mid)
    BY <1>1, <2>1, <2>2, <2>4, ZoomTiles
  <2> QED
    BY <2>6, <2>7
<1>3. CASE ~Pane!ZoomDetailActive /\ zoom
  <2>1. Pane!Geometry = Pane!FullFrame(Pane!Focused, width, Pane!Mid)
    BY <1>3 DEF Pane!Geometry
  <2>2. Pane!Focused \in Pane!Pane /\ (onView = "devices" => Pane!Focused \in {0, 1})
    BY DEF Pane!Focused, PaneTypes, Pane!Pane
  <2>3. Pane!Geometry.vDiv = -1 /\ Pane!Geometry.hDiv = -1 /\ Pane!Geometry.hDiv2 = -1
    BY <2>1 DEF Pane!FullFrame, Pane!Layout
  <2>4. onView = "devices" => \A i \in {2, 3, 4} : Pane!Geometry.p[i] = Pane!Nowhere
    BY <2>1, <2>2 DEF Pane!FullFrame, Pane!Layout, Pane!Parked, Pane!Pane
  <2>5. SeamsOf(Pane!Geometry)
    BY <2>3, <2>4 DEF SeamsOf
  <2>6. Tiles(Pane!Geometry.p, width, Pane!Mid)
    BY <1>1, <2>1, <2>2, FullTiles
  <2> QED
    BY <2>5, <2>6
<1>4. CASE ~Pane!ZoomDetailActive /\ ~zoom
  BY <1>4, TiledOK DEF Pane!Geometry
<1> QED
  BY <1>2, <1>3, <1>4

\* Whatever is on screen, a geometry just computed tiles the frame.
LEMMA GeometryTiles == PaneTypes /\ geo = Pane!Geometry => GeoInv
<1> SUFFICES ASSUME PaneTypes, geo = Pane!Geometry PROVE GeoInv
  OBVIOUS
<1>1. Tiles(geo.p, width, Pane!Mid) /\ SeamsOf(geo)
  BY GeometryOK
<1>2. PanesTile
  BY <1>1, TilesTile
<1> QED
  BY <1>1, <1>2 DEF GeoInv

LEMMA PaneInit ==
  ASSUME Pane!Init
  PROVE  PaneTypes /\ GeoInv
<1>1. PaneTypes
  <2>1. Width \subseteq Nat \ {0} /\ Height \subseteq Nat \ {0} /\ HostRows \subseteq Nat \ {0}
    BY PanesAssumption DEF Pane!SizeAssumption, Pane!RowsAssumption
  <2>2. splits \in [Pane!Split -> Nat]
    BY DEF Pane!Init, Pane!WithDefaults
  <2> QED
    BY <2>1, <2>2 DEF PaneTypes, Pane!Init, Pane!Pane, Pane!FocusTable, Pane!ApPrompts
<1> QED
  BY <1>1, GeometryTiles DEF Pane!Init

\* A ratio kept is one between its bounds.
LEMMA RatioKept ==
  ASSUME PaneTypes, SeamsOf(geo), NEW k, NEW x \in Int, NEW y \in Int, NEW s \in Pane!Dragged(k, x, y)
  PROVE  s[1] \in Pane!Split /\ s[2] \in Nat
<1>1. width \in Nat \ {0} /\ Pane!Mid \in Nat \ {0} /\ geo.hDiv \in Int
  BY MidTall DEF PaneTypes, SeamsOf
<1>2. ASSUME NEW cells \in Int, NEW total \in Int
      PROVE  Pane!RatioOf(cells, total) \in Int
  <2>1. CASE total < 1
    BY <2>1 DEF Pane!RatioOf
  <2>2. CASE total >= 1
    <3>1. 1000 * cells + total \div 2 \in Int
      BY <2>2
    <3>2. \A a \in Int : a \div total \in Int
      BY <2>2
    <3> QED
      BY <2>2, <3>1, <3>2 DEF Pane!RatioOf, Pane!RatioFull
  <2> QED
    BY <2>1, <2>2
<1>3. ASSUME NEW v \in Int, NEW lo \in Nat, NEW hi \in Nat
      PROVE  Pane!ClampRatio(v, lo, hi) \in Nat
  BY DEF Pane!ClampRatio, Pane!HigherOf, Pane!LowerOf
<1>4. /\ Pane!ColRatio(x) \in Nat
      /\ Pane!ClampRatio(Pane!RatioFull - Pane!RatioOf(x, width), 120, 600) \in Nat
      /\ Pane!RowRatio(y, Pane!Mid) \in Nat /\ Pane!RowRatio(y, geo.hDiv - 1) \in Nat
  <2>1. /\ Pane!RatioOf(x, width) \in Int /\ Pane!RatioOf(y - 1, Pane!Mid) \in Int
        /\ Pane!RatioOf(y - 1, geo.hDiv - 1) \in Int
    <3>1. y - 1 \in Int /\ geo.hDiv - 1 \in Int /\ width \in Int /\ Pane!Mid \in Int
      BY <1>1
    <3>2. Pane!RatioOf(x, width) \in Int
      BY <1>2, <3>1
    <3>3. Pane!RatioOf(y - 1, Pane!Mid) \in Int
      BY <1>2, <3>1
    <3>4. Pane!RatioOf(y - 1, geo.hDiv - 1) \in Int
      BY <1>2, <3>1
    <3> QED
      BY <3>2, <3>3, <3>4
  <2>2. Pane!RatioFull - Pane!RatioOf(x, width) \in Int
    BY <2>1 DEF Pane!RatioFull
  <2>3. Pane!ColRatio(x) \in Nat
    <3>1. \A v \in Int : Pane!ClampRatio(v, 120, 600) \in Nat
      BY <1>3
    <3> QED
      BY <2>1, <3>1 DEF Pane!ColRatio
  <2>4. Pane!ClampRatio(Pane!RatioFull - Pane!RatioOf(x, width), 120, 600) \in Nat
    BY <1>3, <2>2
  <2>5. Pane!RowRatio(y, Pane!Mid) \in Nat /\ Pane!RowRatio(y, geo.hDiv - 1) \in Nat
    BY <1>3, <2>1 DEF Pane!RowRatio
  <2> QED
    BY <2>3, <2>4, <2>5
<1>5. \/ s = <<"ZoomDetail", Pane!ClampRatio(Pane!RatioFull - Pane!RatioOf(x, width), 120, 600)>>
      \/ s = <<"AgentLeft", Pane!ColRatio(x)>> \/ s = <<"BrowseLeft", Pane!ColRatio(x)>>
      \/ s = <<"AgentTop", Pane!RowRatio(y, Pane!Mid)>>
      \/ s = <<"DevicesTop", Pane!RowRatio(y, Pane!Mid)>>
      \/ s = <<"BrowseTop", Pane!RowRatio(y, Pane!Mid)>>
      \/ s = <<"AgentHosts", Pane!RowRatio(y, geo.hDiv - 1)>>
  BY DEF Pane!Dragged
<1> QED
  BY <1>4, <1>5 DEF Pane!Split

LEMMA DividerKeeps ==
  ASSUME PaneTypes, SeamsOf(geo), NEW k, NEW x \in Int, NEW y \in Int, Pane!MoveDivider(k, x, y)
  PROVE  PaneTypes'
<1>1. splits' \in [Pane!Split -> Nat]
  <2>1. CASE UNCHANGED splits
    BY <2>1 DEF PaneTypes
  <2>2. CASE \E s \in Pane!Dragged(k, x, y) : splits' = [splits EXCEPT ![s[1]] = s[2]]
    BY <2>2, RatioKept DEF PaneTypes
  <2> QED
    BY <2>1, <2>2 DEF Pane!MoveDivider
<1> QED
  BY <1>1 DEF PaneTypes, Pane!MoveDivider, Pane!screen, Pane!shown

LEMMA AgentPaneKeeps ==
  ASSUME PaneTypes, NEW i \in Pane!Pane, Pane!SetAgentPane(i), UNCHANGED Pane!screen,
         UNCHANGED splits
  PROVE  PaneTypes'
BY DEF PaneTypes, Pane!SetAgentPane, Pane!screen

LEMMA PressTyped ==
  ASSUME PaneTypes, GeoInv, Pane!Press
  PROVE  PaneTypes'
<1>1. PICK c \in Pane!Col \X Pane!Row :
        \/ Pane!MoveDivider(Pane!SeamAt(c[1], c[2]), c[1], c[2])
        \/ Pane!FocusAt(c[1], c[2])
  BY DEF Pane!Press
<1>2. c[1] \in Int /\ c[2] \in Int /\ SeamsOf(geo)
  <2>1. width \in Nat /\ height \in Nat
    BY DEF PaneTypes
  <2>2. Pane!Col \subseteq 0..(width - 1) /\ Pane!Row \subseteq 0..(height - 1)
    BY DEF Pane!Col, Pane!Row
  <2>3. c[1] \in Pane!Col /\ c[2] \in Pane!Row
    BY <1>1
  <2>4. c[1] \in 0..(width - 1) /\ c[2] \in 0..(height - 1)
    BY <2>2, <2>3
  <2>5. c[1] \in Int /\ c[2] \in Int
    BY <2>1, <2>4
  <2> QED
    BY <2>5 DEF GeoInv
<1>3. CASE Pane!MoveDivider(Pane!SeamAt(c[1], c[2]), c[1], c[2])
  BY <1>2, <1>3, DividerKeeps
<1>4. CASE Pane!FocusAt(c[1], c[2])
  <2>1. UNCHANGED Pane!screen /\ UNCHANGED splits
    BY <1>4 DEF Pane!FocusAt
  <2>2. PICK i \in Pane!PaneAt(c[1], c[2]) :
          CASE onView = "agents" -> Pane!SetAgentPane(i)
            [] onView = "devices" -> dpane' = i /\ UNCHANGED <<onView, focus, apane>>
            [] OTHER -> focus' = i /\ UNCHANGED <<onView, dpane, apane>>
    BY <1>4 DEF Pane!FocusAt
  <2>3. i \in Pane!Pane /\ Pane!Contains(geo.p[i], c[1], c[2])
    BY <2>2 DEF Pane!PaneAt
  <2>4. CASE onView = "agents"
    BY <2>1, <2>2, <2>3, <2>4, AgentPaneKeeps
  <2>5. CASE onView = "devices"
    <3>1. i \in {0, 1}
      <4>1. ~Pane!Contains(Pane!Nowhere, c[1], c[2])
        BY DEF Pane!Contains, Pane!Nowhere, Pane!Rect
      <4>2. i \notin {2, 3, 4}
        BY <1>2, <2>3, <2>5, <4>1 DEF SeamsOf
      <4> QED
        BY <2>3, <4>2 DEF Pane!Pane
    <3> QED
      BY <2>1, <2>2, <2>5, <3>1 DEF PaneTypes, Pane!screen
  <2>6. CASE onView # "agents" /\ onView # "devices"
    BY <2>1, <2>2, <2>3, <2>6 DEF PaneTypes, Pane!screen
  <2> QED
    BY <2>4, <2>5, <2>6
<1> QED
  BY <1>1, <1>3, <1>4

LEMMA MotionTyped ==
  ASSUME PaneTypes, GeoInv, Pane!Motion
  PROVE  PaneTypes'
<1>1. PICK c \in Pane!Track(drag) : Pane!MoveDivider(drag, c[1], c[2])
  BY DEF Pane!Motion
<1>2. c[1] \in Int /\ c[2] \in Int
  <2>1. width \in Nat /\ height \in Nat
    BY DEF PaneTypes
  <2> QED
    BY <1>1, <2>1 DEF Pane!Track
<1> QED
  BY <1>1, <1>2, DividerKeeps DEF GeoInv

LEMMA FocusTyped ==
  ASSUME PaneTypes, Pane!CycleFocus
  PROVE  PaneTypes'
<1>1. UNCHANGED Pane!screen /\ UNCHANGED splits
  BY DEF Pane!CycleFocus, Pane!Keys
<1>2. CASE \E d \in {1, 4} : Pane!SetAgentPane((apane + d) % 5)
  <2>1. \A d \in {1, 4} : (apane + d) % 5 \in Pane!Pane
    BY DEF PaneTypes, Pane!Pane
  <2> QED
    BY <1>1, <1>2, <2>1, AgentPaneKeeps
<1>3. CASE dpane' = 1 - dpane /\ UNCHANGED <<onView, focus, apane>>
  <2>1. dpane' \in {0, 1}
    BY <1>3 DEF PaneTypes
  <2> QED
    BY <1>1, <1>3, <2>1 DEF PaneTypes, Pane!screen
<1>4. CASE \E d \in {1, 2} : focus' = (focus + d) % 3 /\ UNCHANGED <<onView, dpane, apane>>
  <2>1. \A d \in {1, 2} : (focus + d) % 3 \in Pane!Pane
    BY DEF PaneTypes, Pane!Pane
  <2>2. focus' \in Pane!Pane
    BY <1>4, <2>1
  <2> QED
    BY <1>1, <1>4, <2>2 DEF PaneTypes, Pane!screen
<1> QED
  BY <1>2, <1>3, <1>4 DEF Pane!CycleFocus

LEMMA PaneTyped ==
  ASSUME PaneTypes, GeoInv, Pane!Next
  PROVE  PaneTypes'
<1>1. CASE Pane!Resize
  <2>1. width' \in Nat \ {0} /\ height' \in Nat \ {0}
    BY <1>1, PanesAssumption DEF Pane!SizeAssumption, Pane!Resize
  <2> QED
    BY <1>1, <2>1 DEF PaneTypes, Pane!Resize, Pane!shown
<1>2. CASE Pane!RecomputeStats
  <2>1. hostRows' \in Nat \ {0}
    BY <1>2, PanesAssumption DEF Pane!RowsAssumption, Pane!RecomputeStats
  <2> QED
    BY <1>2, <2>1 DEF PaneTypes, Pane!RecomputeStats, Pane!shown
<1>3. CASE Pane!Search \/ Pane!ToggleStats \/ Pane!LeaveDevices \/ Pane!LeaveAgents
           \/ Pane!ToggleZoom \/ Pane!ToggleZoomDetail \/ Pane!ZoomDevices
  BY <1>3 DEF PaneTypes, Pane!Search, Pane!ToggleStats, Pane!LeaveDevices, Pane!LeaveAgents,
              Pane!ToggleZoom, Pane!ToggleZoomDetail, Pane!ZoomDevices, Pane!Keys, Pane!screen,
              Pane!View
<1>4. CASE Pane!LeaveSearch
  BY <1>4 DEF PaneTypes, Pane!LeaveSearch, Pane!screen, Pane!Pane, Pane!FocusTable
<1>5. CASE Pane!ToggleAgents
  BY <1>5 DEF PaneTypes, Pane!ToggleAgents, Pane!Keys, Pane!screen, Pane!View, Pane!Pane,
              Pane!ApPrompts
<1>6. CASE Pane!EnterDevices
  BY <1>6 DEF PaneTypes, Pane!EnterDevices, Pane!Keys, Pane!screen, Pane!View
<1>7. CASE Pane!CycleFocus
  BY <1>7, FocusTyped
<1>8. CASE Pane!Press
  BY <1>8, PressTyped
<1>9. CASE Pane!Motion
  BY <1>9, MotionTyped
<1>10. CASE Pane!Release
  BY <1>10 DEF PaneTypes, Pane!Release, Pane!screen, Pane!shown
<1> QED
  BY <1>1, <1>2, <1>3, <1>4, <1>5, <1>6, <1>7, <1>8, <1>9, <1>10 DEF Pane!Next

\* The geometry is computed afresh, or held on a screen of the same size.
GeoHeld ==
  /\ UNCHANGED <<geo, width, height, splits, zoom>>
  /\ \A v \in {"devices", "agents"} : onView' = v => onView = v

LEMMA GeoMoves ==
  ASSUME Pane!Next
  PROVE  geo' = Pane!Geometry' \/ GeoHeld
<1> USE DEF Pane!ApplyLayout
<1>1. CASE Pane!Resize \/ Pane!RecomputeStats \/ Pane!ToggleAgents \/ Pane!EnterDevices
           \/ Pane!LeaveDevices \/ Pane!LeaveAgents \/ Pane!ToggleZoom \/ Pane!ToggleZoomDetail
           \/ Pane!ZoomDevices
  BY <1>1 DEF Pane!Resize, Pane!RecomputeStats, Pane!ToggleAgents, Pane!EnterDevices,
              Pane!LeaveDevices, Pane!LeaveAgents, Pane!ToggleZoom, Pane!ToggleZoomDetail,
              Pane!ZoomDevices
<1>2. CASE Pane!Search \/ Pane!LeaveSearch \/ Pane!ToggleStats \/ Pane!Release
  BY <1>2 DEF GeoHeld, Pane!Search, Pane!LeaveSearch, Pane!ToggleStats, Pane!Release, Pane!Keys,
              Pane!screen, Pane!shown
<1>3. ASSUME NEW i, Pane!SetAgentPane(i), UNCHANGED Pane!screen, UNCHANGED splits
      PROVE  geo' = Pane!Geometry' \/ GeoHeld
  BY <1>3 DEF Pane!SetAgentPane, GeoHeld, Pane!screen
<1>4. ASSUME NEW k, NEW x, NEW y, Pane!MoveDivider(k, x, y)
      PROVE  geo' = Pane!Geometry' \/ GeoHeld
  BY <1>4 DEF Pane!MoveDivider, GeoHeld, Pane!screen, Pane!shown
<1>5. CASE Pane!CycleFocus
  <2>1. UNCHANGED Pane!screen /\ UNCHANGED splits
    BY <1>5 DEF Pane!CycleFocus, Pane!Keys
  <2>2. \/ \E i : Pane!SetAgentPane(i)
        \/ geo' = Pane!Geometry'
    BY <1>5 DEF Pane!CycleFocus
  <2> QED
    BY <1>3, <2>1, <2>2
<1>6. CASE Pane!Press
  <2>1. PICK c : Pane!MoveDivider(Pane!SeamAt(c[1], c[2]), c[1], c[2]) \/ Pane!FocusAt(c[1], c[2])
    BY <1>6 DEF Pane!Press
  <2>2. CASE Pane!FocusAt(c[1], c[2])
    <3>1. UNCHANGED Pane!screen /\ UNCHANGED splits
      BY <2>2 DEF Pane!FocusAt
    <3>2. \/ \E i : Pane!SetAgentPane(i)
          \/ geo' = Pane!Geometry'
      BY <2>2 DEF Pane!FocusAt
    <3> QED
      BY <1>3, <3>1, <3>2
  <2> QED
    BY <1>4, <2>1, <2>2
<1>7. CASE Pane!Motion
  BY <1>4, <1>7 DEF Pane!Motion
<1> QED
  BY <1>1, <1>2, <1>5, <1>6, <1>7 DEF Pane!Next

LEMMA SameFrame ==
  ASSUME GeoInv, GeoHeld
  PROVE  GeoInv'
<1>1. Pane!Mid' = Pane!Mid /\ Pane!Live' = Pane!Live
  BY DEF GeoHeld, Pane!Mid, Pane!Live
<1>2. \A i : Pane!Area(i)' = Pane!Area(i)
  BY <1>1 DEF GeoHeld, Pane!Area
<1>3. PanesTile'
  <2>1. /\ Pane!Area(0)' = Pane!Area(0) /\ Pane!Area(1)' = Pane!Area(1)
        /\ Pane!Area(2)' = Pane!Area(2) /\ Pane!Area(3)' = Pane!Area(3)
        /\ Pane!Area(4)' = Pane!Area(4)
    BY <1>2
  <2> QED
    BY <1>1, <2>1 DEF GeoInv, GeoHeld, PanesTile, Pane!PanesTile
<1>4. SeamsOf(geo)'
  BY DEF GeoInv, GeoHeld, SeamsOf
<1> QED
  BY <1>3, <1>4 DEF GeoInv

LEMMA PaneStep ==
  ASSUME PaneTypes, GeoInv, [Pane!Next]_paneVars
  PROVE  PaneTypes' /\ GeoInv'
<1>1. CASE Pane!Next
  <2>1. PaneTypes'
    BY <1>1, PaneTyped
  <2>2. CASE geo' = Pane!Geometry'
    <3>1. (PaneTypes /\ geo = Pane!Geometry)' => GeoInv'
      BY GeometryTiles, PTL
    <3> QED
      BY <2>1, <2>2, <3>1
  <2>3. CASE GeoHeld
    BY <2>1, <2>3, SameFrame
  <2> QED
    BY <1>1, <2>1, <2>2, <2>3, GeoMoves
<1>2. CASE UNCHANGED paneVars
  <2>1. GeoHeld /\ PaneTypes'
    BY <1>2 DEF paneVars, PaneTypes, GeoHeld
  <2> QED
    BY <2>1, SameFrame
<1> QED
  BY <1>1, <1>2

\* In every view, however the terminal is resized and the seams are dragged, the
\* panes that the mouse hits fill the middle of the screen and do not overlap.
THEOREM PanesAlwaysTile == ScreensSpec => []PanesTile
<1> DEFINE Inv == PaneTypes /\ GeoInv
<1>1. ScreensInit => Inv
  BY PaneInit DEF ScreensInit
<1>2. Inv /\ [ScreensNext]_screenVars => Inv'
  BY PaneStep, PartSteps
<1>3. Inv => PanesTile
  BY DEF GeoInv
<1> QED
  BY <1>1, <1>2, <1>3, PTL DEF ScreensSpec

(***************************************************************************)
(* Seams                                                                   *)
(***************************************************************************)
\* In the explorer, not zoomed, the seam under the agents is where its lists end.
SeamFresh == onView = "agents" /\ ~zoom => geo.hDiv = 1 + Pane!AgentTopH

LEMMA SeamLaid == geo = Pane!Geometry => SeamFresh
BY DEF SeamFresh, Pane!Geometry, Pane!ZoomDetailActive, Pane!Tiled, Pane!AgentGeom, Pane!Layout

LEMMA SeamInit ==
  ASSUME Pane!Init
  PROVE  SeamFresh
BY SeamLaid DEF Pane!Init

LEMMA SeamFreshStep ==
  ASSUME SeamFresh, [Pane!Next]_paneVars
  PROVE  SeamFresh'
<1>1. CASE geo' = Pane!Geometry'
  <2>1. (geo = Pane!Geometry)' => SeamFresh'
    BY SeamLaid, PTL
  <2> QED
    BY <1>1, <2>1
<1>2. CASE GeoHeld
  <2>1. Pane!AgentTopH' = Pane!AgentTopH
    BY <1>2 DEF GeoHeld, Pane!AgentTopH, Pane!Mid
  <2> QED
    BY <1>2, <2>1 DEF GeoHeld, SeamFresh
<1>3. CASE UNCHANGED paneVars
  BY <1>2, <1>3 DEF paneVars, GeoHeld
<1> QED
  BY <1>1, <1>2, <1>3, GeoMoves

\* A ratio is a division rounded to the nearest, ...
LEMMA RatioIs ==
  ASSUME NEW t \in Nat \ {0}, NEW c \in Nat
  PROVE  /\ Pane!RatioOf(c, t) \in Nat
         /\ t * Pane!RatioOf(c, t) <= 1000 * c + t \div 2
         /\ 1000 * c + t \div 2 < t * Pane!RatioOf(c, t) + t
<1> DEFINE a == 1000 * c + t \div 2
<1>1. a \in Nat
  OBVIOUS
<1>2. \A n \in Nat : n \div t \in Nat /\ t * (n \div t) <= n /\ n < t * (n \div t) + t
  OBVIOUS
<1>3. Pane!RatioOf(c, t) = a \div t
  BY DEF Pane!RatioOf, Pane!RatioFull
<1> QED
  BY <1>1, <1>2, <1>3

\* ... fine enough up to a thousand cells to lead back to the cell it was taken of.
ThereAndBack(t, c) ==
  /\ (t * Pane!RatioOf(c, t) + 500) \div 1000 \in {c, c + 1}
  /\ (t * (1000 - Pane!RatioOf(c, t)) + 500) \div 1000 = t - c

LEMMA RoundTrip ==
  ASSUME NEW t \in Nat \ {0}, t <= 1000, NEW c \in Nat, c <= t
  PROVE  ThereAndBack(t, c)
<1> DEFINE r == Pane!RatioOf(c, t)
           p == t * r
<1>1. r \in Nat /\ p <= 1000 * c + t \div 2 /\ 1000 * c + t \div 2 < p + t
  BY RatioIs
<1>2. p \in Nat
  BY <1>1, AreaSplits
<1>3. t * (1000 - r) = 1000 * t - p
  BY <1>1
<1> HIDE DEF p
<1>4. (p + 500) \div 1000 \in {c, c + 1}
  BY <1>1, <1>2
<1>5. (1000 * t - p + 500) \div 1000 = t - c
  BY <1>1, <1>2
<1> QED
  BY <1>3, <1>4, <1>5 DEF p, ThereAndBack

\* A seam put at a cell that the minimums allow is drawn there, from either side.
LEMMA SeamBack ==
  ASSUME NEW t \in Nat \ {0}, t <= 1000, NEW floor \in Nat \ {0}, NEW c \in floor..(t - floor),
         NEW fallback
  PROVE  /\ Pane!RatioOf(c, t) > 0
              => Pane!SplitAt(Pane!RatioOf(c, t), t, floor, fallback) \in {c, c + 1}
         /\ 1000 - Pane!RatioOf(c, t) > 0
              => Pane!SplitAt(1000 - Pane!RatioOf(c, t), t, floor, fallback) = t - c
<1>1. c \in Nat /\ c <= t
  OBVIOUS
<1>2. /\ (t * Pane!RatioOf(c, t) + 500) \div 1000 \in {c, c + 1}
      /\ (t * (1000 - Pane!RatioOf(c, t)) + 500) \div 1000 = t - c
  <2>1. ThereAndBack(t, c)
    BY <1>1, RoundTrip
  <2> QED
    BY <2>1 DEF ThereAndBack
<1>3. \A v \in {c, c + 1} :
        Pane!HigherOf(1, Pane!LowerOf(Pane!HigherOf(v, floor), t - floor)) \in {c, c + 1}
  BY DEF Pane!HigherOf, Pane!LowerOf
<1>4. Pane!HigherOf(1, Pane!LowerOf(Pane!HigherOf(t - c, floor), t - floor)) = t - c
  BY DEF Pane!HigherOf, Pane!LowerOf
<1>5. 1000 \div 2 = 500
  OBVIOUS
<1>6. ASSUME Pane!RatioOf(c, t) > 0
      PROVE  Pane!SplitAt(Pane!RatioOf(c, t), t, floor, fallback)
               = Pane!HigherOf(1, Pane!LowerOf(Pane!HigherOf((t * Pane!RatioOf(c, t) + 500)
                                                               \div 1000, floor), t - floor))
  BY <1>5, <1>6 DEF Pane!SplitAt, Pane!RatioFull
<1>7. ASSUME 1000 - Pane!RatioOf(c, t) > 0
      PROVE  Pane!SplitAt(1000 - Pane!RatioOf(c, t), t, floor, fallback)
               = Pane!HigherOf(1, Pane!LowerOf(Pane!HigherOf((t * (1000 - Pane!RatioOf(c, t)) + 500)
                                                               \div 1000, floor), t - floor))
  BY <1>5, <1>7 DEF Pane!SplitAt, Pane!RatioFull
<1> QED
  BY <1>2, <1>3, <1>4, <1>6, <1>7

\* Where the seams of a geometry just computed are.
SeamsLaid ==
  /\ zoom => geo.hDiv = -1 /\ geo.hDiv2 = -1
  /\ Pane!ZoomDetailActive => geo.vDiv = width - Pane!DetailW
  /\ zoom /\ ~Pane!ZoomDetailActive => geo.vDiv = -1
  /\ ~zoom /\ onView = "agents" =>
       /\ geo.vDiv = Pane!SplitAt(splits["AgentLeft"], width, 12, (width * 260) \div 1000)
       /\ geo.hDiv = 1 + Pane!AgentTopH /\ geo.hDiv2 = 1 + Pane!AgentTopH - Pane!AgentHostsH
  /\ ~zoom /\ onView = "devices" =>
       /\ geo.vDiv = -1 /\ geo.hDiv2 = -1
       /\ geo.hDiv = 1 + Pane!SplitAt(splits["DevicesTop"], Pane!Mid, 4, (Pane!Mid * 400) \div 1000)
  /\ ~zoom /\ onView \notin {"agents", "devices"} =>
       geo.vDiv = Pane!LeftW /\ geo.hDiv = 1 + Pane!TableH /\ geo.hDiv2 = -1

LEMMA SeamsComputed == geo = Pane!Geometry => SeamsLaid
<1> SUFFICES ASSUME geo = Pane!Geometry PROVE SeamsLaid
  OBVIOUS
<1> USE DEF Pane!Layout
<1>1. CASE Pane!ZoomDetailActive
  <2>1. zoom
    BY <1>1 DEF Pane!ZoomDetailActive
  <2> QED
    BY <1>1, <2>1 DEF SeamsLaid, Pane!Geometry, Pane!ZoomDetailGeom
<1>2. CASE ~Pane!ZoomDetailActive /\ zoom
  BY <1>2 DEF SeamsLaid, Pane!Geometry, Pane!FullFrame
<1>3. CASE ~Pane!ZoomDetailActive /\ ~zoom
  <2>1. geo = Pane!Tiled
    BY <1>3 DEF Pane!Geometry
  <2>2. CASE onView = "agents"
    BY <1>3, <2>1, <2>2 DEF SeamsLaid, Pane!Tiled, Pane!AgentGeom, Pane!MinPaneCols, Pane!RatioFull
  <2>3. CASE onView = "devices"
    BY <1>3, <2>1, <2>3 DEF SeamsLaid, Pane!Tiled, Pane!DevicesGeom, Pane!MinPaneRows,
                            Pane!RatioFull
  <2>4. CASE onView \notin {"agents", "devices"}
    BY <1>3, <2>1, <2>4 DEF SeamsLaid, Pane!Tiled, Pane!BrowseGeom
  <2> QED
    BY <2>2, <2>3, <2>4
<1> QED
  BY <1>1, <1>2, <1>3

\* A seam k dragged, and a cell (x, y) whose share of the axis is the ratio kept.
Followed(k, x, y) ==
  /\ x \in Int /\ y \in Int /\ width \in 1..1000 /\ Pane!Mid \in 1..1000
  /\ UNCHANGED <<width, height, onView, zoom>>
  /\ (Pane!ZoomDetailActive' <=> Pane!ZoomDetailActive)
  /\ geo.hDiv \in Int /\ SeamsLaid' /\ Pane!Free(k, x, y)
  /\ \E s \in Pane!Dragged(k, x, y) : splits'[s[1]] = Pane!Share(k, x, y)

LEMMA VertFollows ==
  ASSUME NEW x, NEW y, Followed("vert", x, y)
  PROVE  Pane!On("vert", geo', x, y)
<1>1. /\ width \in Nat \ {0} /\ width <= 1000 /\ x \in 12..(width - 12)
      /\ Pane!Share("vert", x, y) \in 120..600
  BY DEF Followed, Pane!Free, Pane!MinPaneCols
<1>2. CASE Pane!ZoomDetailActive
  <2>1. splits'["ZoomDetail"] = 1000 - Pane!RatioOf(x, width) /\ 1000 - Pane!RatioOf(x, width) > 0
    BY <1>1, <1>2 DEF Followed, Pane!Dragged, Pane!Share, Pane!RatioFull
  <2>2. Pane!DetailW' = width - x
    BY <1>1, <2>1, SeamBack DEF Pane!DetailW, Pane!MinPaneCols, Followed
  <2>3. geo'.vDiv = x
    BY <1>1, <1>2, <2>2 DEF Followed, SeamsLaid
  <2> QED
    BY <2>3 DEF Pane!On, Pane!NearSeam, Followed
<1>3. CASE ~Pane!ZoomDetailActive /\ (zoom \/ onView = "devices")
  <2>1. geo'.vDiv = -1
    BY <1>3 DEF Followed, SeamsLaid
  <2> QED
    BY <2>1 DEF Pane!On
<1>4. CASE ~zoom /\ onView = "agents"
  <2>1. splits'["AgentLeft"] = Pane!RatioOf(x, width) /\ Pane!RatioOf(x, width) > 0
    BY <1>1, <1>4 DEF Followed, Pane!Dragged, Pane!Share, Pane!ZoomDetailActive
  <2>2. geo'.vDiv \in {x, x + 1}
    BY <1>1, <1>4, <2>1, SeamBack DEF Followed, SeamsLaid
  <2> QED
    BY <1>1, <2>2 DEF Pane!On, Pane!NearSeam
<1>5. CASE ~zoom /\ onView \notin {"agents", "devices"}
  <2>1. splits'["BrowseLeft"] = Pane!RatioOf(x, width) /\ Pane!RatioOf(x, width) > 0
    BY <1>1, <1>5 DEF Followed, Pane!Dragged, Pane!Share, Pane!ZoomDetailActive
  <2>2. geo'.vDiv \in {x, x + 1}
    BY <1>1, <1>5, <2>1, SeamBack DEF Followed, SeamsLaid, Pane!LeftW, Pane!MinPaneCols
  <2> QED
    BY <1>1, <2>2 DEF Pane!On, Pane!NearSeam
<1> QED
  BY <1>2, <1>3, <1>4, <1>5

LEMMA HorizFollows ==
  ASSUME NEW x, NEW y, Followed("horiz", x, y)
  PROVE  Pane!On("horiz", geo', x, y)
<1>1. /\ Pane!Mid \in Nat \ {0} /\ Pane!Mid <= 1000 /\ y - 1 \in 4..(Pane!Mid - 4)
      /\ Pane!Share("horiz", x, y) \in 200..800 /\ Pane!Mid' = Pane!Mid /\ y \in Int
  BY DEF Followed, Pane!Free, Pane!MinPaneRows, Pane!Mid
<1>2. Pane!Share("horiz", x, y) = Pane!RatioOf(y - 1, Pane!Mid)
  BY DEF Pane!Share
<1>3. ASSUME geo'.hDiv \in {1 + (y - 1), 1 + ((y - 1) + 1)}
      PROVE  Pane!On("horiz", geo', x, y)
  BY <1>1, <1>3 DEF Pane!On, Pane!NearSeam
<1>4. CASE zoom
  <2>1. geo'.hDiv = -1
    BY <1>4 DEF Followed, SeamsLaid
  <2> QED
    BY <2>1 DEF Pane!On
<1>5. CASE ~zoom /\ onView = "agents"
  <2>1. splits'["AgentTop"] = Pane!RatioOf(y - 1, Pane!Mid) /\ Pane!RatioOf(y - 1, Pane!Mid) > 0
    BY <1>1, <1>2, <1>5 DEF Followed, Pane!Dragged
  <2>2. Pane!AgentTopH' \in {y - 1, (y - 1) + 1}
    BY <1>1, <2>1, SeamBack DEF Pane!AgentTopH, Pane!MinPaneRows
  <2>3. geo'.hDiv = 1 + Pane!AgentTopH'
    BY <1>5 DEF Followed, SeamsLaid
  <2> QED
    BY <1>3, <2>2, <2>3
<1>6. CASE ~zoom /\ onView = "devices"
  <2>1. splits'["DevicesTop"] = Pane!RatioOf(y - 1, Pane!Mid) /\ Pane!RatioOf(y - 1, Pane!Mid) > 0
    BY <1>1, <1>2, <1>6 DEF Followed, Pane!Dragged
  <2>2. Pane!SplitAt(splits'["DevicesTop"], Pane!Mid, 4, (Pane!Mid * 400) \div 1000)
          \in {y - 1, (y - 1) + 1}
    BY <1>1, <2>1, SeamBack
  <2>3. geo'.hDiv = 1 + Pane!SplitAt(splits'["DevicesTop"], Pane!Mid, 4, (Pane!Mid * 400) \div 1000)
    BY <1>1, <1>6 DEF Followed, SeamsLaid
  <2> QED
    BY <1>3, <2>2, <2>3
<1>7. CASE ~zoom /\ onView \notin {"agents", "devices"}
  <2>1. splits'["BrowseTop"] = Pane!RatioOf(y - 1, Pane!Mid) /\ Pane!RatioOf(y - 1, Pane!Mid) > 0
    BY <1>1, <1>2, <1>7 DEF Followed, Pane!Dragged
  <2>2. Pane!TableH' \in {y - 1, (y - 1) + 1}
    BY <1>1, <2>1, SeamBack DEF Pane!TableH, Pane!MinPaneRows
  <2>3. geo'.hDiv = 1 + Pane!TableH'
    BY <1>7 DEF Followed, SeamsLaid
  <2> QED
    BY <1>3, <2>2, <2>3
<1> QED
  BY <1>4, <1>5, <1>6, <1>7

\* The hosts' seam divides what the held geometry gives the explorer's lists.
LEMMA HostsFollow ==
  ASSUME PaneTypes, SeamFresh, NEW x, NEW y, Followed("hosts", x, y),
         splits'["AgentTop"] = splits["AgentTop"]
  PROVE  Pane!On("hosts", geo', x, y)
<1>1. CASE zoom \/ onView # "agents"
  <2>1. geo'.hDiv2 = -1
    BY <1>1 DEF Followed, SeamsLaid
  <2> QED
    BY <2>1 DEF Pane!On
<1>2. CASE ~zoom /\ onView = "agents"
  <2> DEFINE t == Pane!AgentTopH
  <2>1. t \in 1..Pane!Mid
    BY SizesFit
  <2>2. t \in Nat \ {0} /\ t <= 1000
    BY <2>1 DEF Followed
  <2>3. geo.hDiv = 1 + t
    BY <1>2 DEF SeamFresh
  <2>4. y - 1 \in 3..(t - 3) /\ Pane!Share("hosts", x, y) \in 200..800
        /\ Pane!Share("hosts", x, y) = Pane!RatioOf(y - 1, geo.hDiv - 1)
    <3>1. y - 1 \in 3..(geo.hDiv - 4) /\ Pane!Share("hosts", x, y) \in 200..800
      BY DEF Followed, Pane!Free
    <3>2. geo.hDiv - 4 = t - 3
      BY <2>2, <2>3
    <3>3. Pane!Share("hosts", x, y) = Pane!RatioOf(y - 1, geo.hDiv - 1)
      BY DEF Pane!Share
    <3> QED
      BY <3>1, <3>2, <3>3
  <2>5. splits'["AgentHosts"] = Pane!RatioOf(y - 1, t) /\ Pane!RatioOf(y - 1, t) > 0
    <3>1. geo.hDiv - 1 = t
      BY <2>2, <2>3
    <3>2. splits'["AgentHosts"] = Pane!Share("hosts", x, y)
      BY DEF Followed, Pane!Dragged
    <3> QED
      BY <2>4, <3>1, <3>2
  <2>6. Pane!AgentTopH' = t
    BY DEF Pane!AgentTopH, Followed, Pane!Mid
  <2>7. PICK f : Pane!AgentHostsH' = t - Pane!SplitAt(splits'["AgentHosts"], t, 3, f)
    BY <2>6 DEF Pane!AgentHostsH
  <2> HIDE DEF t
  <2>8. Pane!SplitAt(splits'["AgentHosts"], t, 3, f) \in {y - 1, (y - 1) + 1}
    BY <2>2, <2>4, <2>5, SeamBack
  <2>9. geo'.hDiv2 = 1 + Pane!AgentTopH' - Pane!AgentHostsH'
    BY <1>2 DEF Followed, SeamsLaid
  <2>10. y \in Int
    BY DEF Followed
  <2>11. geo'.hDiv2 = 1 + Pane!SplitAt(splits'["AgentHosts"], t, 3, f)
    BY <2>2, <2>6, <2>7, <2>8, <2>9, <2>10
  <2> QED
    BY <2>8, <2>10, <2>11 DEF Pane!On, Pane!NearSeam
<1> QED
  BY <1>1, <1>2

\* Up to a thousand cells of a terminal.
Modest == \A n \in Width \cup Height : n <= 1000

\* What the resizes leave a terminal at.
Sized == width \in Width /\ height \in Height

LEMMA SizedInit ==
  ASSUME Pane!Init
  PROVE  Sized
BY DEF Sized, Pane!Init

LEMMA SizedStep ==
  ASSUME Sized, [Pane!Next]_paneVars
  PROVE  Sized'
<1>1. CASE Pane!Resize
  BY <1>1 DEF Sized, Pane!Resize
<1>2. CASE UNCHANGED <<width, height>>
  BY <1>2 DEF Sized
<1>3. CASE UNCHANGED paneVars
  BY <1>2, <1>3 DEF paneVars
<1>4. ASSUME Pane!Next, ~Pane!Resize
      PROVE  UNCHANGED <<width, height>>
  <2> USE DEF Pane!screen, Pane!Keys
  <2>1. CASE Pane!Press
    BY <2>1 DEF Pane!Press, Pane!MoveDivider, Pane!FocusAt
  <2>2. CASE Pane!Motion
    BY <2>2 DEF Pane!Motion, Pane!MoveDivider
  <2>3. CASE Pane!RecomputeStats \/ Pane!LeaveSearch \/ Pane!Release
    BY <2>3 DEF Pane!RecomputeStats, Pane!LeaveSearch, Pane!Release
  <2> QED
    BY <1>4, <2>1, <2>2, <2>3
       DEF Pane!Next, Pane!Search, Pane!ToggleAgents, Pane!ToggleStats, Pane!EnterDevices,
           Pane!LeaveDevices, Pane!LeaveAgents, Pane!ToggleZoom, Pane!ToggleZoomDetail,
           Pane!ZoomDevices, Pane!CycleFocus
<1> QED
  BY <1>1, <1>2, <1>3, <1>4

\* Only the mouse drags: a press on a seam and the motion after it.
LEMMA OnlyDrags ==
  ASSUME Pane!Next, drags' # drags
  PROVE  \E cx, cy : Pane!MoveDivider(drag', cx, cy)
<1> USE DEF Pane!Stroke, Pane!Keys
<1>1. CASE Pane!Press
  BY <1>1 DEF Pane!Press, Pane!FocusAt
<1>2. CASE Pane!Motion
  BY <1>2 DEF Pane!Motion
<1> QED
  BY <1>1, <1>2 DEF Pane!Next, Pane!Resize, Pane!RecomputeStats, Pane!Search, Pane!LeaveSearch,
     Pane!ToggleAgents, Pane!ToggleStats, Pane!EnterDevices, Pane!LeaveDevices, Pane!LeaveAgents,
     Pane!ToggleZoom, Pane!ToggleZoomDetail, Pane!ZoomDevices, Pane!CycleFocus, Pane!Release

\* A seam that is dragged keeps a ratio of its own name and lays out afresh.
LEMMA DragLays ==
  ASSUME NEW k, NEW cx, NEW cy, Pane!MoveDivider(k, cx, cy),
         NEW x, NEW y, NEW s \in Pane!Dragged(k, x, y)
  PROVE  /\ k \in {"vert", "horiz", "hosts"} /\ geo' = Pane!Geometry'
         /\ k = "hosts" => splits'["AgentTop"] = splits["AgentTop"]
<1>1. k \in {"vert", "horiz", "hosts"} /\ (k = "hosts" => geo.hDiv > 1)
  BY DEF Pane!Dragged
<1>2. Pane!Dragged(k, cx, cy) # {}
  <2>1. CASE k = "vert"
    <3>1. \E e : Pane!Dragged(k, cx, cy) = {e}
      <4>1. CASE Pane!ZoomDetailActive
        BY <2>1, <4>1, Zenon DEF Pane!Dragged
      <4>2. CASE ~Pane!ZoomDetailActive
        BY <2>1, <4>2, Zenon DEF Pane!Dragged
      <4> QED
        BY <4>1, <4>2
    <3> QED
      BY <3>1
  <2>2. CASE k = "horiz"
    BY <2>2 DEF Pane!Dragged
  <2>3. CASE k = "hosts"
    BY <1>1, <2>3 DEF Pane!Dragged
  <2> QED
    BY <1>1, <2>1, <2>2, <2>3
<1>3. PICK s2 \in Pane!Dragged(k, cx, cy) :
        splits' = [splits EXCEPT ![s2[1]] = s2[2]] /\ Pane!ApplyLayout
  BY <1>2 DEF Pane!MoveDivider
<1>4. k = "hosts" => s2[1] = "AgentHosts"
  BY DEF Pane!Dragged
<1>5. k = "hosts" => splits'["AgentTop"] = splits["AgentTop"]
  BY <1>3, <1>4
<1> QED
  BY <1>1, <1>3, <1>5 DEF Pane!ApplyLayout

LEMMA SeamStep ==
  ASSUME Modest, PaneTypes, GeoInv, SeamFresh, Sized, [Pane!Next]_paneVars, drags' # drags,
         NEW c \in Pane!Track(drag'), Pane!Free(drag', c[1], c[2]),
         NEW s \in Pane!Dragged(drag', c[1], c[2]),
         splits'[s[1]] = Pane!Share(drag', c[1], c[2])
  PROVE  Pane!On(drag', geo', c[1], c[2])
<1> DEFINE x == c[1]
           y == c[2]
<1>1. PICK cx, cy : Pane!MoveDivider(drag', cx, cy)
  BY OnlyDrags DEF paneVars
<1>2. /\ drag' \in {"vert", "horiz", "hosts"} /\ geo' = Pane!Geometry'
      /\ drag' = "hosts" => splits'["AgentTop"] = splits["AgentTop"]
  BY <1>1, DragLays
<1>3. SeamsLaid'
  <2>1. (geo = Pane!Geometry)' => SeamsLaid'
    BY SeamsComputed, PTL
  <2> QED
    BY <1>2, <2>1
<1>4. /\ UNCHANGED <<width, height, onView, focus, apane, zoom, zoomDetail>>
  BY <1>1 DEF Pane!MoveDivider, Pane!screen, Pane!shown
<1>5. Pane!ZoomDetailActive' <=> Pane!ZoomDetailActive
  BY <1>4 DEF Pane!ZoomDetailActive, Pane!ZoomHasDetail
<1>6. x \in Int /\ y \in Int
  <2>1. width \in Nat /\ height \in Nat
    BY DEF PaneTypes
  <2> QED
    BY <2>1 DEF Pane!Track
<1>7. width \in 1..1000 /\ Pane!Mid \in 1..1000
  <2>1. width <= 1000 /\ height <= 1000
    BY DEF Modest, Sized
  <2>2. width \in Nat \ {0} /\ height \in Nat \ {0}
    BY DEF PaneTypes
  <2> QED
    BY <2>1, <2>2 DEF Pane!Mid, Pane!HigherOf
<1>8. Followed(drag', x, y)
  BY <1>3, <1>4, <1>5, <1>6, <1>7 DEF Followed, GeoInv, SeamsOf
<1> QED
  BY <1>2, <1>8, VertFollows, HorizFollows, HostsFollow

\* A seam dragged to a cell comes back on that cell, in every view and zoomed
\* with details, on a terminal of up to a thousand columns and rows: a ratio is
\* kept in thousandths, and on a longer axis two cells may share one.
THEOREM SeamAlwaysFollows ==
  ASSUME Modest
  PROVE  ScreensSpec => SeamFollows
<1> DEFINE Inv == PaneTypes /\ GeoInv /\ SeamFresh /\ Sized
           Follows == drags' # drags => \A c \in Pane!Track(drag') :
                        /\ Pane!Free(drag', c[1], c[2])
                        /\ \E s \in Pane!Dragged(drag', c[1], c[2]) :
                             splits'[s[1]] = Pane!Share(drag', c[1], c[2])
                             /\ s[2] = splits'[s[1]]
                        => Pane!On(drag', geo', c[1], c[2])
<1>1. ScreensInit => Inv
  BY PaneInit, SeamInit, SizedInit DEF ScreensInit
<1>2. Inv /\ [ScreensNext]_screenVars => Inv'
  BY PaneStep, SeamFreshStep, SizedStep, PartSteps
<1>3. Inv /\ [ScreensNext]_screenVars => Follows
  <2> SUFFICES ASSUME Inv, [ScreensNext]_screenVars, drags' # drags,
                      NEW c \in Pane!Track(drag'), Pane!Free(drag', c[1], c[2]),
                      NEW s \in Pane!Dragged(drag', c[1], c[2]),
                      splits'[s[1]] = Pane!Share(drag', c[1], c[2])
               PROVE  Pane!On(drag', geo', c[1], c[2])
    OBVIOUS
  <2>1. [Pane!Next]_paneVars
    BY PartSteps
  <2> QED
    BY <2>1, SeamStep
<1> QED
  BY <1>1, <1>2, <1>3, PTL DEF ScreensSpec, SeamFollows, Pane!SeamFollows

(***************************************************************************)
(* Explorer                                                                *)
(***************************************************************************)
LEMMA AgentCardinality == \A S : Agents!Cardinality(S) = Cardinality(S)
BY DEF Agents!Cardinality, Cardinality

LEMMA AgentFinite == \A S : Agents!IsFiniteSet(S) <=> IsFiniteSet(S)
BY DEF Agents!IsFiniteSet, IsFiniteSet

\* A strict order of a set in which any two differ.
Ordered(S, R) ==
  /\ \A x \in S : <<x, x>> \notin R
  /\ \A x, y, z \in S : <<x, y>> \in R /\ <<y, z>> \in R => <<x, z>> \in R
  /\ \A x, y \in S : x = y \/ <<x, y>> \in R \/ <<y, x>> \in R

\* A list that has each element of a set, and nothing else.
IsListOf(list, S) ==
  /\ list \in Seq(S) /\ Len(list) \in Nat /\ Len(list) = Cardinality(S)
  /\ DOMAIN list = 1..Len(list)
  /\ \A i \in 1..Len(list) : list[i] \in S
  /\ \A x \in S : \E i \in 1..Len(list) : list[i] = x

LEMMA InOrderLists ==
  ASSUME NEW S, IsFiniteSet(S), NEW R, Ordered(S, R)
  PROVE  IsListOf(Agents!InOrder(S, R), S)
<1> DEFINE n == Cardinality(S)
           place(x) == Cardinality(BeforeIn(S, R, x))
           list == Agents!InOrder(S, R)
<1>1. /\ n \in Nat
      /\ \A x \in S : place(x) \in 0..(n - 1)
      /\ \A i \in 0..(n - 1) : \E x \in S : place(x) = i
      /\ \A x, y \in S : place(x) = place(y) => x = y
  BY Places DEF Ordered
<1>2. list = [i \in 1..n |-> CHOOSE x \in S : place(x) = i - 1]
  BY DEF Agents!InOrder, BeforeIn, Agents!Cardinality, Cardinality
<1> HIDE DEF place, n, list
<1>3. ASSUME NEW i \in 1..n
      PROVE  list[i] \in S /\ place(list[i]) = i - 1
  <2>1. i - 1 \in 0..(n - 1)
    BY <1>1
  <2>2. list[i] = CHOOSE x \in S : place(x) = i - 1
    BY <1>2
  <2> QED
    BY <1>1, <2>1, <2>2
<1>4. ASSUME NEW x \in S
      PROVE  \E i \in 1..n : list[i] = x
  <2>1. place(x) \in 0..(n - 1)
    BY <1>1
  <2>2. place(x) + 1 \in 1..n /\ (place(x) + 1) - 1 = place(x)
    BY <1>1, <2>1
  <2>3. place(list[place(x) + 1]) = place(x) /\ list[place(x) + 1] \in S
    BY <1>3, <2>2
  <2>4. list[place(x) + 1] = x
    BY <1>1, <2>3
  <2> QED
    BY <2>2, <2>4
<1>5. list \in [1..n -> S]
  BY <1>2, <1>3
<1>6. list \in Seq(S) /\ Len(list) = n /\ DOMAIN list = 1..n
  BY <1>1, <1>5
<1> QED
  BY <1>1, <1>3, <1>4, <1>6 DEF IsListOf, list, n

\* Rows sorted by a number of theirs, and naturally where that is the same.
LEMMA SortedLists ==
  ASSUME NEW S, IsFiniteSet(S), NEW N, Ordered(S, N), NEW sort, NEW key,
         \A x \in S : key[x] \in Nat
  PROVE  IsListOf(Agents!SortRows(S, N, sort, key), S)
<1> DEFINE R == {r \in S \X S : CASE key[r[1]] = key[r[2]] -> r \in N
                                  [] key[r[1]] # key[r[2]] /\ sort.desc -> key[r[1]] > key[r[2]]
                                  [] OTHER -> key[r[1]] < key[r[2]]}
<1>1. ASSUME NEW x \in S, NEW y \in S
      PROVE  <<x, y>> \in R <=> \/ key[x] = key[y] /\ <<x, y>> \in N
                                \/ key[x] > key[y] /\ sort.desc
                                \/ key[x] < key[y] /\ ~sort.desc
  <2>1. key[x] \in Nat /\ key[y] \in Nat
    OBVIOUS
  <2>2. <<x, y>> \in R <=> CASE key[x] = key[y] -> <<x, y>> \in N
                             [] key[x] # key[y] /\ sort.desc -> key[x] > key[y]
                             [] OTHER -> key[x] < key[y]
    OBVIOUS
  <2> HIDE DEF R
  <2>3. CASE key[x] = key[y]
    BY <2>1, <2>2, <2>3
  <2>4. CASE key[x] # key[y] /\ sort.desc
    BY <2>1, <2>2, <2>4
  <2>5. CASE key[x] # key[y] /\ ~sort.desc
    BY <2>1, <2>2, <2>5
  <2> QED
    BY <2>3, <2>4, <2>5
<1> HIDE DEF R
<1>2. ASSUME NEW x \in S
      PROVE  <<x, x>> \notin R
  <2>1. key[x] \in Nat
    OBVIOUS
  <2>2. <<x, x>> \notin N
    BY DEF Ordered
  <2> QED
    BY <1>1, <2>1, <2>2
<1>3. ASSUME NEW x \in S, NEW y \in S, NEW z \in S, <<x, y>> \in R, <<y, z>> \in R
      PROVE  <<x, z>> \in R
  <2>1. key[x] \in Nat /\ key[y] \in Nat /\ key[z] \in Nat
    OBVIOUS
  <2>2. <<x, y>> \in N /\ <<y, z>> \in N => <<x, z>> \in N
    BY DEF Ordered
  <2> QED
    BY <1>1, <1>3, <2>1, <2>2
<1>4. ASSUME NEW x \in S, NEW y \in S
      PROVE  x = y \/ <<x, y>> \in R \/ <<y, x>> \in R
  <2>1. key[x] \in Nat /\ key[y] \in Nat
    OBVIOUS
  <2> QED
    BY <1>1, <2>1 DEF Ordered
<1>5. Ordered(S, R)
  BY <1>2, <1>3, <1>4 DEF Ordered
<1> QED
  BY <1>5, InOrderLists DEF Agents!SortRows, R

\* The greatest of some numbers is one of them.
LEMMA LastIsOne ==
  ASSUME NEW T, IsFiniteSet(T), T \subseteq Nat, T # {}
  PROVE  Agents!LastOf(T) \in T
<1> DEFINE R == {p \in Nat \X Nat : p[1] > p[2]}
<1>1. Ordered(T, R)
  BY DEF Ordered
<1>3. /\ Cardinality(T) \in Nat
      /\ \A x \in T : Cardinality(BeforeIn(T, R, x)) \in 0..(Cardinality(T) - 1)
      /\ \A i \in 0..(Cardinality(T) - 1) : \E x \in T : Cardinality(BeforeIn(T, R, x)) = i
      /\ \A x, y \in T : Cardinality(BeforeIn(T, R, x)) = Cardinality(BeforeIn(T, R, y))
                          => x = y
  <2> HIDE DEF R
  <2> QED
    BY <1>1, Places DEF Ordered
<1>4. 0 \in 0..(Cardinality(T) - 1)
  <2>1. PICK x \in T : TRUE
    OBVIOUS
  <2>2. Cardinality(BeforeIn(T, R, x)) \in 0..(Cardinality(T) - 1)
    BY <1>3
  <2> QED
    BY <1>3, <2>2
<1>5. PICK x \in T : Cardinality(BeforeIn(T, R, x)) = 0
  BY <1>3, <1>4
<1>6. BeforeIn(T, R, x) = {}
  <2>1. IsFiniteSet(BeforeIn(T, R, x))
    BY FS_Subset DEF BeforeIn
  <2> QED
    BY <1>5, <2>1, FS_EmptySet
<1>7. ASSUME NEW y \in T PROVE y <= x
  <2>1. <<y, x>> \notin R
    BY <1>6 DEF BeforeIn
  <2>2. y \in Nat /\ x \in Nat
    OBVIOUS
  <2> QED
    BY <2>1, <2>2
<1> QED
  BY <1>7 DEF Agents!LastOf

\* Of a prompt listed: what it may be listed for is its own.
OwnInstants(q) == {c \in Cmd : PromptOf[c] = q} \cup ({q} \cap Prompt)

ListedPrompts(S) ==
  /\ IsFiniteSet(S)
  /\ \A x \in S : x.id \in Prompt /\ x.cmds \subseteq Cmd /\ x.last \in OwnInstants(x.id)
  /\ \A x, y \in S : x.id = y.id => x = y

LEMMA AgentConstants ==
  /\ Cmd \subseteq Nat /\ Prompt \subseteq Nat /\ Cmd \cap Prompt = {}
  /\ IsFiniteSet(Cmd) /\ IsFiniteSet(Prompt)
  /\ PromptOf \in [Cmd -> Prompt] /\ Key \in [Cmd -> Nat]
  /\ \A s \in Samples : s[1] \subseteq Cmd /\ s[2] \subseteq Prompt
BY ExplorerAssumption, AgentFinite DEF Agents!ExplorerAssumption

LEMMA PromptsComputed ==
  ASSUME NEW ran \in SUBSET Cmd, NEW prompts \in SUBSET Prompt, NEW p, NEW agent
  PROVE  ListedPrompts(Agents!ComputePrompts(ran, prompts, p, agent))
<1> DEFINE listed == Agents!Picked(Agents!InPeriod(prompts, p), agent)
                     \cup {PromptOf[c] : c \in Agents!Picked(Agents!InPeriod(ran, p), agent)}
           held(q) == Agents!CmdsOf(q, ran, p, agent)
                        \cup (listed \cap prompts \cap Agents!InPeriod({q}, p))
           row(q) == [id |-> q, cmds |-> Agents!CmdsOf(q, ran, p, agent),
                      last |-> Agents!LastOf(held(q))]
           S == Agents!ComputePrompts(ran, prompts, p, agent)
<1>1. S = {row(q) : q \in listed}
  BY DEF Agents!ComputePrompts
<1>2. listed \subseteq Prompt
  BY AgentConstants DEF Agents!Picked, Agents!InPeriod
<1>3. IsFiniteSet(listed)
  BY <1>2, AgentConstants, FS_Subset
<1>4. ASSUME NEW q \in listed
      PROVE  /\ Agents!CmdsOf(q, ran, p, agent) \subseteq Cmd
             /\ held(q) # {} /\ held(q) \subseteq OwnInstants(q)
  <2>1. Agents!CmdsOf(q, ran, p, agent) \subseteq {c \in Cmd : PromptOf[c] = q}
    BY DEF Agents!CmdsOf, Agents!Picked, Agents!InPeriod
  <2>2. Agents!InPeriod({q}, p) \subseteq {q}
    BY DEF Agents!InPeriod
  <2>3. held(q) \subseteq OwnInstants(q)
    BY <2>1, <2>2 DEF OwnInstants
  <2>4. CASE q \in Agents!Picked(Agents!InPeriod(prompts, p), agent)
    <3>1. q \in listed \cap prompts \cap Agents!InPeriod({q}, p)
      BY <2>4 DEF Agents!Picked, Agents!InPeriod
    <3> QED
      BY <2>1, <2>3, <3>1
  <2>5. CASE \E c \in Agents!Picked(Agents!InPeriod(ran, p), agent) : q = PromptOf[c]
    <3>1. Agents!CmdsOf(q, ran, p, agent) # {}
      BY <2>5 DEF Agents!CmdsOf
    <3> QED
      BY <2>1, <2>3, <3>1
  <2> QED
    BY <2>4, <2>5
<1> HIDE DEF listed, held, S
<1>5. ASSUME NEW q \in listed
      PROVE  Agents!LastOf(held(q)) \in OwnInstants(q)
  <2>1. OwnInstants(q) \subseteq Nat /\ IsFiniteSet(OwnInstants(q))
    <3>1. IsFiniteSet({c \in Cmd : PromptOf[c] = q}) /\ IsFiniteSet({q} \cap Prompt)
      BY AgentConstants, FS_Subset
    <3> QED
      BY <3>1, AgentConstants, FS_Union DEF OwnInstants
  <2>2. IsFiniteSet(held(q)) /\ held(q) \subseteq Nat /\ held(q) # {}
    BY <1>4, <2>1, FS_Subset
  <2>3. Agents!LastOf(held(q)) \in held(q)
    BY <2>2, LastIsOne
  <2> QED
    BY <1>4, <2>3
<1>6. IsFiniteSet(S)
  <2> DEFINE f == [q \in listed |-> row(q)]
  <2>1. f \in [listed -> S] /\ \A x \in S : \E q \in listed : f[q] = x
    BY <1>1
  <2>2. f \in Surjection(listed, S)
    BY <2>1 DEF Surjection
  <2> QED
    BY <1>3, <2>2, FS_Surjection
<1>7. ASSUME NEW x \in S
      PROVE  x.id \in Prompt /\ x.cmds \subseteq Cmd /\ x.last \in OwnInstants(x.id)
  <2>1. PICK q \in listed : x = row(q)
    BY <1>1
  <2> QED
    BY <1>2, <1>4, <1>5, <2>1
<1>8. ASSUME NEW x \in S, NEW y \in S, x.id = y.id
      PROVE  x = y
  <2>1. PICK q \in listed : x = row(q)
    BY <1>1
  <2>2. PICK r \in listed : y = row(r)
    BY <1>1
  <2>3. q = r
    BY <1>8, <2>1, <2>2
  <2> QED
    BY <2>1, <2>2, <2>3
<1> QED
  BY <1>6, <1>7, <1>8 DEF ListedPrompts, S

KeptPrompts(ran, prompts, p, host, agent, q) ==
  {x \in Agents!ComputePrompts(Agents!HostOnly(ran, host), Agents!HostOnly(prompts, host), p,
                               agent) : q => x.id \in Matched}

\* The prompt list is made of the prompts computed that the text keeps, each once.
LEMMA PromptsListed ==
  ASSUME NEW ran \in SUBSET Cmd, NEW prompts \in SUBSET Prompt, NEW p, NEW host, NEW agent,
         NEW q, NEW sort
  PROVE  /\ ListedPrompts(KeptPrompts(ran, prompts, p, host, agent, q))
         /\ IsListOf(Agents!Prompts(ran, prompts, p, host, agent, q, sort),
                     KeptPrompts(ran, prompts, p, host, agent, q))
<1> DEFINE S == Agents!ComputePrompts(Agents!HostOnly(ran, host),
                                      Agents!HostOnly(prompts, host), p, agent)
           K == KeptPrompts(ran, prompts, p, host, agent, q)
           N == {r \in K \X K : r[1].last > r[2].last}
           key == [x \in K |-> IF sort.col = "time" THEN x.last ELSE Agents!Cardinality(x.cmds)]
<1>1. ListedPrompts(S)
  <2>1. Agents!HostOnly(ran, host) \in SUBSET Cmd /\ Agents!HostOnly(prompts, host) \in SUBSET Prompt
    BY DEF Agents!HostOnly
  <2> QED
    BY <2>1, PromptsComputed
<1>2. K \subseteq S
  BY DEF KeptPrompts
<1>3. Agents!Prompts(ran, prompts, p, host, agent, q, sort) = Agents!SortRows(K, N, sort, key)
  BY DEF Agents!Prompts, Agents!FilterPrompts, KeptPrompts
<1> HIDE DEF K, S
<1>4. ListedPrompts(K)
  BY <1>1, <1>2, FS_Subset DEF ListedPrompts
<1>5. \A x \in K : x.last \in Nat
  BY <1>4, AgentConstants DEF ListedPrompts, OwnInstants
<1>6. \A x, y \in K : x.last = y.last => x = y
  <2>1. \A a, b \in Prompt : \A t \in OwnInstants(a) : t \in OwnInstants(b) => a = b
    BY AgentConstants DEF OwnInstants
  <2> QED
    BY <1>4, <2>1 DEF ListedPrompts
<1>7. Ordered(K, N)
  <2>1. \A x, y \in K : <<x, y>> \in N <=> x.last > y.last
    OBVIOUS
  <2> HIDE DEF N
  <2> QED
    BY <1>5, <1>6, <2>1 DEF Ordered
<1>8. \A x \in K : key[x] \in Nat
  <2>1. ASSUME NEW x \in K PROVE Agents!Cardinality(x.cmds) \in Nat
    <3>1. x.cmds \subseteq Cmd
      BY <1>4 DEF ListedPrompts
    <3> QED
      BY <3>1, AgentConstants, AgentCardinality, FS_Subset, FS_CardinalityType
  <2> QED
    BY <1>5, <2>1
<1>9. IsFiniteSet(K)
  BY <1>4 DEF ListedPrompts
<1> HIDE DEF N, key
<1>10. IsListOf(Agents!SortRows(K, N, sort, key), K)
  BY <1>7, <1>8, <1>9, SortedLists
<1> QED
  BY <1>3, <1>4, <1>10 DEF K

Shown(cmds, q) == {c \in cmds : q => c \in Matched}

\* How many commands the drill-down lists, in whatever order.
VisibleCount(list, at, q) ==
  IF at \in 0..(Len(list) - 1) THEN Cardinality(Shown(list[at + 1].cmds, q)) ELSE 0

LEMMA VisibleListed ==
  ASSUME NEW S, ListedPrompts(S), NEW list, IsListOf(list, S), NEW at \in Nat, NEW q, NEW sort
  PROVE  /\ Len(Agents!VisibleCmdsOf(list, at, q, sort)) = VisibleCount(list, at, q)
         /\ VisibleCount(list, at, q) \in Nat
<1>1. CASE at \notin 0..(Len(list) - 1)
  <2>1. Agents!VisibleCmdsOf(list, at, q, sort) = <<>>
    BY <1>1 DEF Agents!VisibleCmdsOf
  <2>2. VisibleCount(list, at, q) = 0
    BY <1>1 DEF VisibleCount
  <2> QED
    BY <2>1, <2>2
<1>2. CASE at \in 0..(Len(list) - 1)
  <2> DEFINE K == Shown(list[at + 1].cmds, q)
             N == {r \in K \X K : r[1] < r[2]}
             key == [c \in K |-> IF sort.col = "time" THEN c ELSE Key[c]]
  <2>1. Agents!VisibleCmdsOf(list, at, q, sort) = Agents!SortRows(K, N, sort, key)
    BY <1>2 DEF Agents!VisibleCmdsOf, Shown
  <2>2. VisibleCount(list, at, q) = Cardinality(K)
    BY <1>2 DEF VisibleCount
  <2>3. K \subseteq Cmd
    <3>1. at + 1 \in 1..Len(list)
      BY <1>2 DEF IsListOf
    <3>2. list[at + 1] \in S
      BY <3>1 DEF IsListOf
    <3> QED
      BY <3>2 DEF ListedPrompts, Shown
  <2> HIDE DEF K
  <2>4. IsFiniteSet(K) /\ K \subseteq Nat /\ \A c \in K : Key[c] \in Nat
    BY <2>3, AgentConstants, FS_Subset
  <2>5. Ordered(K, N)
    BY <2>4 DEF Ordered
  <2>6. \A c \in K : key[c] \in Nat
    BY <2>4
  <2> HIDE DEF N, key
  <2>7. IsListOf(Agents!SortRows(K, N, sort, key), K)
    BY <2>4, <2>5, <2>6, SortedLists
  <2> QED
    BY <2>1, <2>2, <2>7 DEF IsListOf
<1> QED
  BY <1>1, <1>2

LEMMA ClampFacts ==
  ASSUME NEW i \in Nat, NEW n \in Nat
  PROVE  /\ Agents!ClampIndex(i, n) \in Nat
         /\ Agents!ClampIndex(Agents!ClampIndex(i, n), n) = Agents!ClampIndex(i, n)
         /\ i < n \/ (i = 0 /\ n = 0) <=> i = Agents!ClampIndex(i, n)
BY DEF Agents!ClampIndex

\* A sidebar's cursor stands on the name picked, if that is still listed.
LEMMA RowFollows ==
  ASSUME NEW names, NEW name, NEW h, h = Agents!Released(names, name)
  PROVE  IF Agents!RowOf(names, h) = 0 THEN h = 0 ELSE names[Agents!RowOf(names, h)] = h
<1>1. ASSUME NEW x, Agents!RowOf(names, x) # 0
      PROVE  names[Agents!RowOf(names, x)] = x
  BY <1>1 DEF Agents!RowOf, Agents!IndexIn
<1>2. h = name \/ h = 0
  BY DEF Agents!Released
<1>3. Agents!RowOf(names, h) = 0 => h = 0
  BY DEF Agents!Released
<1> QED
  BY <1>1, <1>3

AgentTypes ==
  /\ sampleRows \in SUBSET Cmd /\ promptRows \in SUBSET Prompt
  /\ promptSel \in Nat /\ drillSel \in Nat

\* The prompts kept of what is on screen, and the list of them.
KeptNow == KeptPrompts(sampleRows, promptRows, window, hostFilter, agentFilter, promptQ)

CursorsOn ==
  /\ promptSel = Agents!ClampIndex(promptSel, Len(filteredPrompts))
  /\ drillSel = Agents!ClampIndex(drillSel, VisibleCount(filteredPrompts, promptSel, cmdQ))
SidebarsOn ==
  /\ IF hostRow = 0 THEN hostFilter = 0 ELSE agentHosts[hostRow] = hostFilter
  /\ IF agentRow = 0 THEN agentFilter = 0 ELSE agents[agentRow] = agentFilter
Current == filteredPrompts = Agents!ApplyPromptFilter(promptQ, promptSort)

AgentInv == AgentTypes /\ SidebarsOn /\ Current /\ CursorsOn

NowListed ==
  /\ ListedPrompts(KeptNow) /\ IsListOf(filteredPrompts, KeptNow)
  /\ Len(Agents!VisibleCmds) = VisibleCount(filteredPrompts, promptSel, cmdQ)
  /\ VisibleCount(filteredPrompts, promptSel, cmdQ) \in Nat /\ Len(filteredPrompts) \in Nat

LEMMA ListedNow == AgentTypes /\ Current => NowListed
<1> SUFFICES ASSUME AgentTypes, Current PROVE NowListed
  OBVIOUS
<1>1. ListedPrompts(KeptNow) /\ IsListOf(filteredPrompts, KeptNow)
  BY PromptsListed DEF AgentTypes, Current, KeptNow, Agents!ApplyPromptFilter
<1>2. promptSel \in Nat
  BY DEF AgentTypes
<1>3. /\ Len(Agents!VisibleCmds) = VisibleCount(filteredPrompts, promptSel, cmdQ)
      /\ VisibleCount(filteredPrompts, promptSel, cmdQ) \in Nat
  BY <1>1, <1>2, VisibleListed DEF Agents!VisibleCmds
<1> QED
  BY <1>1, <1>3 DEF IsListOf, NowListed

LEMMA AgentListsFollow == AgentInv => ListsFollow
BY ListedNow DEF NowListed, AgentInv, SidebarsOn, Current, CursorsOn, ListsFollow, Agents!ListsFollow

LEMMA RecomputeKeeps ==
  ASSUME NEW ran \in SUBSET Cmd, NEW prompts \in SUBSET Prompt, NEW p, NEW host, NEW agent,
         NEW psel \in Nat, NEW dsel \in Nat,
         Agents!RecomputeStats(ran, prompts, p, host, agent, psel, dsel),
         sampleRows' = ran, promptRows' = prompts, window' = p,
         UNCHANGED <<promptQ, cmdQ, promptSort, cmdSort>>
  PROVE  AgentInv'
<1>1. PICK hostNames, agentNames, h, a :
        /\ h = Agents!Released(hostNames, host) /\ a = Agents!Released(agentNames, agent)
        /\ agentHosts' = hostNames /\ hostFilter' = h /\ hostRow' = Agents!RowOf(hostNames, h)
        /\ agents' = agentNames /\ agentFilter' = a /\ agentRow' = Agents!RowOf(agentNames, a)
        /\ filteredPrompts' = Agents!Prompts(ran, prompts, p, h, a, promptQ, promptSort)
        /\ promptSel' = Agents!ClampIndex(psel, Len(filteredPrompts'))
        /\ drillSel' = Agents!ClampIndex(dsel, Len(Agents!VisibleCmdsOf(filteredPrompts', promptSel',
                                                                       cmdQ, cmdSort)))
  BY Zenon DEF Agents!RecomputeStats
<1>2. SidebarsOn'
  BY <1>1, RowFollows DEF SidebarsOn
<1>3. Current'
  BY <1>1 DEF Current, Agents!ApplyPromptFilter
<1> DEFINE K == KeptPrompts(ran, prompts, p, h, a, promptQ)
<1>4. ListedPrompts(K) /\ IsListOf(filteredPrompts', K)
  BY <1>1, PromptsListed
<1> HIDE DEF K
<1>5. /\ promptSel' \in Nat
      /\ promptSel' = Agents!ClampIndex(promptSel', Len(filteredPrompts'))
  <2>1. Len(filteredPrompts') \in Nat
    BY <1>4 DEF IsListOf
  <2> QED
    BY <1>1, <2>1, ClampFacts
<1>6. PICK n \in Nat : /\ n = VisibleCount(filteredPrompts', promptSel', cmdQ)
                       /\ n = Len(Agents!VisibleCmdsOf(filteredPrompts', promptSel', cmdQ, cmdSort))
  BY <1>4, <1>5, VisibleListed
<1>7. drillSel' \in Nat /\ drillSel' = Agents!ClampIndex(drillSel', n)
  <2>1. drillSel' = Agents!ClampIndex(dsel, n)
    BY <1>1, <1>6
  <2> QED
    BY <2>1, ClampFacts
<1>8. CursorsOn'
  BY <1>5, <1>6, <1>7 DEF CursorsOn
<1>9. AgentTypes'
  BY <1>5, <1>7 DEF AgentTypes
<1> QED
  BY <1>2, <1>3, <1>8, <1>9 DEF AgentInv

LEMMA AgentInit ==
  ASSUME Agents!Init
  PROVE  AgentInv
<1> USE DEF Agents!Init
<1>1. AgentTypes /\ SidebarsOn
  BY DEF AgentTypes, SidebarsOn
<1>2. KeptNow = {}
  BY DEF KeptNow, KeptPrompts, Agents!ComputePrompts, Agents!HostOnly, Agents!Picked,
         Agents!InPeriod
<1>3. IsListOf(Agents!ApplyPromptFilter(promptQ, promptSort), KeptNow)
  BY <1>1, PromptsListed DEF AgentTypes, KeptNow, Agents!ApplyPromptFilter
<1>4. Current
  <2> DEFINE list == Agents!ApplyPromptFilter(promptQ, promptSort)
  <2>1. list \in Seq(KeptNow) /\ Len(list) = Cardinality(KeptNow)
    BY <1>3 DEF IsListOf
  <2>2. Cardinality(KeptNow) = 0
    BY <1>2, FS_EmptySet
  <2> HIDE DEF list
  <2>3. list = <<>>
    BY <2>1, <2>2, EmptySeq
  <2> QED
    BY <2>3 DEF Current, list
<1>5. CursorsOn
  <2>1. Len(filteredPrompts) = 0
    OBVIOUS
  <2>2. VisibleCount(filteredPrompts, promptSel, cmdQ) = 0
    BY <2>1 DEF VisibleCount
  <2> QED
    BY <2>1, <2>2, ClampFacts DEF CursorsOn
<1> QED
  BY <1>1, <1>4, <1>5 DEF AgentInv

\* The prompt that was drilled into is found again, and shows as many commands.
LEMMA ReorderKeeps ==
  ASSUME AgentInv, Agents!ReorderPrompts
  PROVE  AgentInv'
<1> USE DEF Agents!Untouched, Agents!sample, Agents!picked, Agents!sidebars, Agents!texts
<1>1. /\ UNCHANGED <<sampleRows, promptRows, window, hostFilter, agentFilter, hostRow, agentRow,
                     agentHosts, agents, drillSel, promptQ, cmdQ>>
      /\ filteredPrompts' = Agents!ApplyPromptFilter(promptQ, promptSort')
  BY DEF Agents!ReorderPrompts
<1>2. Current' /\ SidebarsOn'
  BY <1>1 DEF Current, Agents!ApplyPromptFilter, AgentInv, SidebarsOn
<1>3. /\ ListedPrompts(KeptNow) /\ IsListOf(filteredPrompts, KeptNow)
      /\ Len(filteredPrompts) \in Nat
  BY ListedNow DEF AgentInv, NowListed
<1>4. IsListOf(filteredPrompts', KeptNow)
  BY <1>1, PromptsListed DEF AgentInv, AgentTypes, KeptNow, Agents!ApplyPromptFilter
<1>5. Len(filteredPrompts') = Len(filteredPrompts) /\ Len(filteredPrompts) \in Nat
  BY <1>3, <1>4 DEF IsListOf
<1>6. /\ promptSel \in Nat /\ drillSel \in Nat
      /\ promptSel < Len(filteredPrompts) \/ (promptSel = 0 /\ Len(filteredPrompts) = 0)
  BY <1>3, ClampFacts DEF AgentInv, AgentTypes, CursorsOn
<1>7. /\ promptSel' \in Nat
      /\ promptSel' < Len(filteredPrompts) \/ (promptSel' = 0 /\ Len(filteredPrompts) = 0)
      /\ VisibleCount(filteredPrompts', promptSel', cmdQ)
           = VisibleCount(filteredPrompts, promptSel, cmdQ)
  <2>1. CASE promptSel < Len(filteredPrompts)
    <3>1. promptSel + 1 \in 1..Len(filteredPrompts)
      BY <1>5, <1>6, <2>1
    <3>2. PICK x \in KeptNow : x = filteredPrompts[promptSel + 1]
      BY <1>3, <3>1 DEF IsListOf
    <3>3. Agents!DrilledPrompt = {x.id}
      BY <2>1, <3>2 DEF Agents!DrilledPrompt
    <3>4. \E i \in DOMAIN filteredPrompts' : {filteredPrompts'[i].id} = Agents!DrilledPrompt
      <4>1. PICK i \in 1..Len(filteredPrompts') : filteredPrompts'[i] = x
        BY <1>4 DEF IsListOf
      <4> QED
        BY <1>4, <3>3, <4>1 DEF IsListOf
    <3>5. PICK j \in DOMAIN filteredPrompts' :
            {filteredPrompts'[j].id} = Agents!DrilledPrompt /\ promptSel' = j - 1
      BY <3>4 DEF Agents!ReorderPrompts
    <3>6. j \in 1..Len(filteredPrompts) /\ filteredPrompts'[j] \in KeptNow
      BY <1>4, <1>5, <3>5 DEF IsListOf
    <3>7. filteredPrompts'[j] = x
      <4>1. filteredPrompts'[j].id = x.id
        BY <3>3, <3>5
      <4> QED
        BY <1>3, <3>6, <4>1 DEF ListedPrompts
    <3>8. promptSel' \in 0..(Len(filteredPrompts) - 1) /\ promptSel' + 1 = j
      BY <1>5, <3>5, <3>6
    <3>9. VisibleCount(filteredPrompts', promptSel', cmdQ) = Cardinality(Shown(x.cmds, cmdQ))
      BY <1>5, <3>7, <3>8 DEF VisibleCount
    <3>10. VisibleCount(filteredPrompts, promptSel, cmdQ) = Cardinality(Shown(x.cmds, cmdQ))
      <4>1. promptSel \in 0..(Len(filteredPrompts) - 1)
        BY <1>5, <1>6, <2>1
      <4> QED
        BY <3>2, <4>1 DEF VisibleCount
    <3>11. promptSel' \in Nat /\ promptSel' < Len(filteredPrompts)
      BY <1>5, <3>8
    <3> QED
      BY <3>9, <3>10, <3>11
  <2>2. CASE promptSel = 0 /\ Len(filteredPrompts) = 0
    <3>1. DOMAIN filteredPrompts' = {}
      BY <1>4, <1>5, <2>2 DEF IsListOf
    <3>2. promptSel' = Agents!ClampIndex(promptSel, Len(filteredPrompts'))
      BY <3>1 DEF Agents!ReorderPrompts
    <3>3. promptSel' = 0
      BY <1>5, <2>2, <3>2 DEF Agents!ClampIndex
    <3>4. 0 \notin 0..(0 - 1)
      OBVIOUS
    <3>5. /\ VisibleCount(filteredPrompts', promptSel', cmdQ) = 0
          /\ VisibleCount(filteredPrompts, promptSel, cmdQ) = 0
      BY <1>5, <2>2, <3>3, <3>4 DEF VisibleCount
    <3> QED
      BY <2>2, <3>3, <3>5
  <2> QED
    BY <1>6, <2>1, <2>2
<1>8. CursorsOn'
  <2>1. promptSel' = Agents!ClampIndex(promptSel', Len(filteredPrompts'))
    BY <1>5, <1>7, ClampFacts
  <2> QED
    BY <1>1, <1>7, <2>1 DEF AgentInv, CursorsOn
<1>9. AgentTypes'
  BY <1>1, <1>6, <1>7 DEF AgentInv, AgentTypes
<1> QED
  BY <1>2, <1>8, <1>9 DEF AgentInv

LEMMA CursorsKeep ==
  ASSUME AgentInv, Agents!SelectPrompt \/ Agents!SetDrill \/ Agents!SetFilter \/ Agents!ReorderCmds
  PROVE  AgentInv'
<1> USE DEF Agents!Untouched, Agents!sample, Agents!picked, Agents!sidebars, Agents!texts,
            Agents!sorts, Agents!cursors
<1>1. UNCHANGED <<sampleRows, promptRows, window, hostFilter, agentFilter, hostRow, agentRow,
                  agentHosts, agents>>
  BY DEF Agents!SelectPrompt, Agents!SetDrill, Agents!SetFilter, Agents!ReorderCmds
<1>2. SidebarsOn' /\ sampleRows' \in SUBSET Cmd /\ promptRows' \in SUBSET Prompt
  BY <1>1 DEF AgentInv, AgentTypes, SidebarsOn
<1>3. /\ promptSel \in Nat /\ drillSel \in Nat /\ Len(filteredPrompts) \in Nat
      /\ VisibleCount(filteredPrompts, promptSel, cmdQ) \in Nat
      /\ Len(Agents!VisibleCmds) = VisibleCount(filteredPrompts, promptSel, cmdQ)
      /\ ListedPrompts(KeptNow) /\ IsListOf(filteredPrompts, KeptNow)
  BY ListedNow DEF AgentInv, AgentTypes, NowListed
<1>4. \A n \in Nat : 0 = Agents!ClampIndex(0, n)
  BY DEF Agents!ClampIndex
<1>5. ASSUME NEW n \in Nat, NEW i \in 0..(n - 1)
      PROVE  i \in Nat /\ i = Agents!ClampIndex(i, n)
  BY <1>5 DEF Agents!ClampIndex
<1>6. ASSUME UNCHANGED <<filteredPrompts, promptQ, promptSort>>
      PROVE  Current'
  BY <1>1, <1>6 DEF AgentInv, Current, Agents!ApplyPromptFilter
<1>7. CASE Agents!SelectPrompt
  <2>1. PICK i \in 0..(Len(filteredPrompts) - 1) :
          promptSel' = i /\ drillSel' = IF i = promptSel THEN drillSel ELSE 0
    BY <1>7 DEF Agents!SelectPrompt
  <2>2. UNCHANGED <<filteredPrompts, promptQ, promptSort, cmdQ, cmdSort>>
    BY <1>7 DEF Agents!SelectPrompt
  <2>3. promptSel' \in Nat /\ promptSel' = Agents!ClampIndex(promptSel', Len(filteredPrompts))
    BY <1>3, <1>5, <2>1
  <2>4. VisibleCount(filteredPrompts, promptSel', cmdQ) \in Nat
    BY <1>3, <2>3, VisibleListed
  <2>5. /\ drillSel' \in Nat
        /\ drillSel' = Agents!ClampIndex(drillSel', VisibleCount(filteredPrompts, promptSel', cmdQ))
    <3>1. CASE i = promptSel
      BY <1>3, <2>1, <3>1 DEF AgentInv, CursorsOn
    <3>2. CASE i # promptSel
      BY <1>4, <2>1, <2>4, <3>2
    <3> QED
      BY <3>1, <3>2
  <2> QED
    BY <1>2, <1>6, <2>2, <2>3, <2>5 DEF AgentInv, AgentTypes, CursorsOn
<1>8. CASE Agents!SetDrill
  <2>1. PICK i \in 0..(Len(Agents!VisibleCmds) - 1) : drillSel' = i
    BY <1>8 DEF Agents!SetDrill
  <2>2. UNCHANGED <<filteredPrompts, promptSel, promptQ, promptSort, cmdQ, cmdSort>>
    BY <1>8 DEF Agents!SetDrill
  <2>3. /\ drillSel' \in Nat
        /\ drillSel' = Agents!ClampIndex(drillSel', VisibleCount(filteredPrompts, promptSel, cmdQ))
    BY <1>3, <1>5, <2>1
  <2> QED
    BY <1>2, <1>3, <1>6, <2>2, <2>3 DEF AgentInv, AgentTypes, CursorsOn
<1>9. CASE Agents!SetFilter
  <2>1. CASE /\ promptQ' = ~promptQ
             /\ filteredPrompts' = Agents!ApplyPromptFilter(promptQ', promptSort)
             /\ promptSel' = 0 /\ drillSel' = 0 /\ UNCHANGED <<cmdQ, promptSort>>
    <3>1. Current'
      BY <1>1, <2>1 DEF Current, Agents!ApplyPromptFilter
    <3>2. AgentTypes'
      BY <1>2, <2>1 DEF AgentTypes
    <3>3. (AgentTypes /\ Current)' => NowListed'
      BY ListedNow, PTL
    <3>4. CursorsOn'
      BY <1>4, <2>1, <3>1, <3>2, <3>3 DEF CursorsOn, NowListed
    <3> QED
      BY <1>2, <3>1, <3>2, <3>4 DEF AgentInv
  <2>2. CASE /\ cmdQ' = ~cmdQ /\ drillSel' = 0
             /\ UNCHANGED <<promptQ, filteredPrompts, promptSel, promptSort>>
    <3>1. VisibleCount(filteredPrompts, promptSel, cmdQ') \in Nat
      BY <1>3, VisibleListed
    <3>2. 0 = Agents!ClampIndex(0, VisibleCount(filteredPrompts, promptSel, cmdQ'))
      BY <1>4, <3>1
    <3> QED
      BY <1>2, <1>3, <1>6, <2>2, <3>2 DEF AgentInv, AgentTypes, CursorsOn
  <2> QED
    BY <1>9, <2>1, <2>2 DEF Agents!SetFilter
<1>10. CASE Agents!ReorderCmds
  <2>1. UNCHANGED <<filteredPrompts, promptSel, drillSel, promptQ, promptSort, cmdQ>>
    BY <1>10 DEF Agents!ReorderCmds
  <2> QED
    BY <1>2, <1>6, <2>1 DEF AgentInv, AgentTypes, CursorsOn
<1> QED
  BY <1>7, <1>8, <1>9, <1>10

LEMMA AgentStep ==
  ASSUME AgentInv, [Agents!Next]_agentVars
  PROVE  AgentInv'
<1> USE DEF Agents!sample, Agents!texts, Agents!sorts
<1>1. sampleRows \in SUBSET Cmd /\ promptRows \in SUBSET Prompt /\ promptSel \in Nat /\ drillSel \in Nat
  BY DEF AgentInv, AgentTypes
<1>2. CASE Agents!ApplyStats
  <2>1. PICK s \in Samples :
          /\ sampleRows' = s[1] /\ promptRows' = s[2]
          /\ Agents!RecomputeStats(s[1], s[2], window, hostFilter, agentFilter, promptSel, drillSel)
    BY <1>2 DEF Agents!ApplyStats
  <2>2. s[1] \in SUBSET Cmd /\ s[2] \in SUBSET Prompt
    BY AgentConstants
  <2>3. UNCHANGED <<window, promptQ, cmdQ, promptSort, cmdSort>>
    BY <1>2 DEF Agents!ApplyStats
  <2> QED
    BY <1>1, <2>1, <2>2, <2>3, RecomputeKeeps
<1>3. CASE Agents!SetPeriod
  BY <1>1, <1>3, RecomputeKeeps DEF Agents!SetPeriod
<1>4. CASE Agents!ToggleAgents
  BY <1>1, <1>4, RecomputeKeeps DEF Agents!ToggleAgents
<1>5. CASE Agents!SelectAgentHost
  BY <1>1, <1>5, RecomputeKeeps DEF Agents!SelectAgentHost
<1>6. CASE Agents!SelectAgent
  BY <1>1, <1>6, RecomputeKeeps DEF Agents!SelectAgent
<1>7. CASE Agents!SelectPrompt \/ Agents!SetDrill \/ Agents!SetFilter \/ Agents!ReorderCmds
  BY <1>7, CursorsKeep
<1>8. CASE Agents!ReorderPrompts
  BY <1>8, ReorderKeeps
<1>9. CASE UNCHANGED agentVars
  BY <1>9 DEF agentVars, AgentInv, AgentTypes, SidebarsOn, Current, CursorsOn, VisibleCount,
              Agents!ApplyPromptFilter
<1> QED
  BY <1>2, <1>3, <1>4, <1>5, <1>6, <1>7, <1>8, <1>9 DEF Agents!Next

\* Whatever samples, periods and picks move the explorer's rows, its sidebars stand
\* on what its lists are filtered by, the prompts listed are those, and both cursors
\* are on a row where there is one.
THEOREM ListsAlwaysFollow == ScreensSpec => []ListsFollow
<1>1. ScreensInit => AgentInv
  BY AgentInit DEF ScreensInit
<1>2. AgentInv /\ [ScreensNext]_screenVars => AgentInv'
  BY AgentStep, PartSteps
<1> QED
  BY <1>1, <1>2, AgentListsFollow, PTL DEF ScreensSpec
================================================================================
