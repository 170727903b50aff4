--------------------------------- MODULE Panes ---------------------------------
(***************************************************************************)
(* The browser's pane geometry (tui/browse/panes.go) and the mouse that    *)
(* hit-tests against it (mouse.go): where each pane sits, the seams        *)
(* between them, the ratio a dragged seam is remembered as, and the keys   *)
(* that change which panes are laid out.                                   *)
(*                                                                         *)
(* The geometry is computed when applyLayout runs and held until the next  *)
(* time it does; the renderers read the view, the focus and the zoom, the  *)
(* mouse reads the geometry held.  A width or a height is a number of      *)
(* cells, a ratio is in thousandths of an axis, and 0 is "auto".           *)
(***************************************************************************)
EXTENDS Integers

CONSTANTS Width, Height, \* sizes the terminal may have
          HostRows,      \* how many rows the explorer's host list may have
          MaxKey,        \* bound: keys, clicks and resizes
          MaxDrag        \* bound: cells a seam is dragged to

SizeAssumption == Width \subseteq Nat \ {0} /\ Height \subseteq Nat \ {0}
RowsAssumption == HostRows \subseteq Nat \ {0} /\ {MaxKey, MaxDrag} \subseteq Nat

VARIABLES
  width, height, hosts,        \* the terminal; rows of the explorer's host list
  view, focus, dpane, apane,   \* what is on screen, and the pane with the focus in each
  zoom, zoomDetail, infoCmd,   \* infoCmd: the details pane shows a command, not a prompt
  searching,                   \* the search box has the keys
  splits,                      \* remembered ratios
  drag,                        \* the seam being dragged
  geo,                         \* the geometry the mouse hits
  keys, drags                  \* how many of each so far

screen == <<width, height, hosts>>
shown == <<view, focus, dpane, apane, zoom, zoomDetail, infoCmd, searching>>
vars == <<screen, shown, splits, drag, geo, keys, drags>>

Pane == 0..4
FocusHosts == 0    FocusTable == 1    FocusDetail == 2
ApAgents == 0  ApHosts == 1  ApPrompts == 2  ApCommands == 3  ApInfo == 4
View == {"browse", "stats", "devices", "agents"}
Seam == {"none", "vert", "horiz", "hosts"}
Split == {"BrowseLeft", "BrowseTop", "AgentLeft", "AgentTop", "AgentHosts", "DevicesTop",
          "ZoomDetail"}

LowerOf(a, b) == IF a < b THEN a ELSE b
HigherOf(a, b) == IF a > b THEN a ELSE b
ClampRatio(v, lo, hi) == HigherOf(lo, LowerOf(v, hi))

RatioFull == 1000
MinPaneCols == 12
MinPaneRows == 4

RatioOf(cells, total) == IF total < 1 THEN 0 ELSE (RatioFull * cells + total \div 2) \div total

SplitAt_Truncating(ratio, total, floor, fallback) ==
  LET v == IF ratio > 0 THEN (total * ratio) \div RatioFull ELSE fallback
  IN  HigherOf(1, LowerOf(HigherOf(v, floor), total - floor))
SplitAt(ratio, total, floor, fallback) ==
  LET v == IF ratio > 0 THEN (total * ratio + RatioFull \div 2) \div RatioFull ELSE fallback
  IN  HigherOf(1, LowerOf(HigherOf(v, floor), total - floor))

(* Defaults a browser opens with: the browse view's own sizing stays auto. *)
WithDefaults == [s \in Split |->
  CASE s = "AgentLeft" -> 260 [] s = "AgentTop" -> 550 [] s = "DevicesTop" -> 400
    [] s = "ZoomDetail" -> 340 [] OTHER -> 0]

--------------------------------------------------------------------------------
(* Geometry of each view. *)
Rect(x, y, w, h) == [x |-> x, y |-> y, w |-> w, h |-> h]
Nowhere == Rect(0, 0, 0, 0)
Contains(r, x, y) == x \in r.x..(r.x + r.w - 1) /\ y \in r.y..(r.y + r.h - 1)

Parked(f) == [i \in Pane |-> IF i \in DOMAIN f THEN f[i] ELSE Nowhere]
Layout(p, vDiv, hDiv, hDivFrom, hDiv2) ==
  [p |-> Parked(p), vDiv |-> vDiv, hDiv |-> hDiv, hDivFrom |-> hDivFrom, hDiv2 |-> hDiv2]

BrowseGeom(w, mid, leftW, tableH) ==
  Layout([i \in 0..2 |->
            CASE i = FocusHosts -> Rect(0, 1, leftW, mid)
              [] i = FocusTable -> Rect(leftW, 1, w - leftW, tableH)
              [] OTHER -> Rect(leftW, 1 + tableH, w - leftW, mid - tableH)],
         leftW, 1 + tableH, leftW, -1)

DevicesGeom(w, mid, topH) ==
  Layout([i \in 0..1 |-> IF i = 0 THEN Rect(0, 1, w, topH) ELSE Rect(0, 1 + topH, w, mid - topH)],
         -1, 1 + topH, 0, -1)

AgentGeom_Overlapping(w, mid, leftW, topH, hostsH) ==
  Layout([i \in Pane |->
            CASE i = ApAgents -> Rect(0, 1, leftW, topH)
              [] i = ApHosts -> Rect(0, 1 + topH - hostsH, leftW, hostsH)
              [] i = ApPrompts -> Rect(leftW, 1, w - leftW, topH)
              [] i = ApCommands -> Rect(leftW, 1 + topH, w - leftW, mid - topH)
              [] OTHER -> Rect(0, 1 + topH, leftW, mid - topH)],
         leftW, 1 + topH, 0, 1 + topH - hostsH)
AgentGeom(w, mid, leftW, topH, hostsH) ==
  Layout([i \in Pane |->
            CASE i = ApAgents -> Rect(0, 1, leftW, topH - hostsH)
              [] i = ApHosts -> Rect(0, 1 + topH - hostsH, leftW, hostsH)
              [] i = ApPrompts -> Rect(leftW, 1, w - leftW, topH)
              [] i = ApCommands -> Rect(leftW, 1 + topH, w - leftW, mid - topH)
              [] OTHER -> Rect(0, 1 + topH, leftW, mid - topH)],
         leftW, 1 + topH, 0, 1 + topH - hostsH)

ZoomDetailGeom(w, mid, detailW, mainIdx, detailIdx) ==
  Layout([i \in {mainIdx, detailIdx} |->
            IF i = mainIdx THEN Rect(0, 1, w - detailW, mid) ELSE Rect(w - detailW, 1, detailW, mid)],
         w - detailW, -1, -1, -1)

FullFrame(i, w, mid) == Layout([j \in {i} |-> Rect(0, 1, w, mid)], -1, -1, -1, -1)

--------------------------------------------------------------------------------
(* What applyLayout derives from the state. *)
Mid == HigherOf(3, height - 3)

TableH ==
  LET third == ClampRatio(Mid \div 3, 5, 12)
  IN  SplitAt(splits["BrowseTop"], Mid, MinPaneRows, Mid - HigherOf(3, LowerOf(third, Mid - 4)))

LeftW == SplitAt(splits["BrowseLeft"], width, MinPaneCols,
                 LowerOf(HigherOf(10, LowerOf(24, width - 12)), width - 1))

AgentTopH == SplitAt(splits["AgentTop"], Mid, MinPaneRows, (Mid * 550) \div RatioFull)

AgentHostsH ==
  LET content == HigherOf(3, LowerOf(hosts + 2, AgentTopH \div 2))
  IN  AgentTopH - SplitAt(splits["AgentHosts"], AgentTopH, 3, AgentTopH - content)

ZoomHasDetail ==
  \/ view = "browse" /\ focus \in {FocusTable, FocusDetail}
  \/ view = "agents" /\ apane \in {ApPrompts, ApCommands, ApInfo}
ZoomDetailActive == zoom /\ zoomDetail /\ ZoomHasDetail
ZoomDetailAgentPane == IF infoCmd THEN ApCommands ELSE ApPrompts
DetailW == SplitAt(splits["ZoomDetail"], width, MinPaneCols, (width * 340) \div RatioFull)

Focused == CASE view = "agents" -> apane [] view = "devices" -> dpane [] OTHER -> focus
Paired == IF view = "agents" THEN <<ZoomDetailAgentPane, ApInfo>> ELSE <<FocusTable, FocusDetail>>

Tiled ==
  CASE view = "agents" ->
         AgentGeom(width, Mid,
                   SplitAt(splits["AgentLeft"], width, MinPaneCols, (width * 260) \div RatioFull),
                   AgentTopH, AgentHostsH)
    [] view = "devices" ->
         DevicesGeom(width, Mid,
                     SplitAt(splits["DevicesTop"], Mid, MinPaneRows, (Mid * 400) \div RatioFull))
    [] OTHER -> BrowseGeom(width, Mid, LeftW, TableH)

Geometry ==
  IF ZoomDetailActive THEN ZoomDetailGeom(width, Mid, DetailW, Paired[1], Paired[2])
  ELSE IF zoom THEN FullFrame(Focused, width, Mid)
  ELSE Tiled

ApplyLayout == geo' = Geometry'

--------------------------------------------------------------------------------
Init ==
  /\ width \in Width /\ height \in Height /\ hosts \in HostRows
  /\ view \in View /\ focus = FocusTable /\ dpane = 0 /\ apane = ApPrompts
  /\ zoom = FALSE /\ zoomDetail = FALSE /\ infoCmd = FALSE /\ searching = FALSE
  /\ splits = WithDefaults /\ drag = "none" /\ geo = Geometry
  /\ keys = 0 /\ drags = 0

Stroke == keys < MaxKey /\ keys' = keys + 1 /\ UNCHANGED drags

Resize ==
  /\ Stroke /\ \E w \in Width, h \in Height : width' = w /\ height' = h
  /\ UNCHANGED <<hosts, shown, splits, drag>> /\ ApplyLayout

(* A sample whose host list is longer or shorter. *)
RecomputeStats ==
  /\ Stroke /\ \E n \in HostRows \ {hosts} : hosts' = n
  /\ UNCHANGED <<width, height, shown, splits, drag>> /\ ApplyLayout

(* The keys reach the view: no search box is open. *)
Keys == ~searching /\ Stroke /\ UNCHANGED <<screen, splits, drag>>

Unzoomed == zoom' = FALSE /\ zoomDetail' = FALSE

Search == Keys /\ view = "browse" /\ searching' = TRUE
          /\ UNCHANGED <<view, focus, dpane, apane, zoom, zoomDetail, infoCmd, geo>>
LeaveSearch ==
  /\ Stroke /\ searching /\ searching' = FALSE
  /\ focus' = IF focus = FocusHosts THEN FocusTable ELSE focus
  /\ UNCHANGED <<screen, view, dpane, apane, zoom, zoomDetail, infoCmd, splits, drag, geo>>

ToggleAgents ==
  /\ Keys /\ view \in {"browse", "stats", "agents"} /\ Unzoomed
  /\ IF view = "agents"
       THEN view' = "browse" /\ UNCHANGED <<apane, infoCmd>>
       ELSE view' = "agents" /\ apane' = ApPrompts /\ infoCmd' = FALSE
  /\ UNCHANGED <<focus, dpane, searching>> /\ ApplyLayout

(* s, and esc in the stats screen; neither lays anything out. *)
ToggleStats ==
  /\ Keys /\ view # "devices" /\ view' = IF view = "stats" THEN "browse" ELSE "stats"
  /\ UNCHANGED <<focus, dpane, apane, zoom, zoomDetail, infoCmd, searching, geo>>

EnterDevices ==
  /\ Keys /\ view # "devices" /\ view' = "devices" /\ dpane' = 0 /\ Unzoomed
  /\ UNCHANGED <<focus, apane, infoCmd, searching>> /\ ApplyLayout

LeaveDevices ==
  /\ Keys /\ view = "devices" /\ view' = "browse" /\ Unzoomed
  /\ UNCHANGED <<focus, dpane, apane, infoCmd, searching>> /\ ApplyLayout

LeaveAgents ==
  /\ Keys /\ view = "agents" /\ ~zoom /\ view' = "browse"
  /\ UNCHANGED <<focus, dpane, apane, zoom, zoomDetail, infoCmd, searching>> /\ ApplyLayout

(* z, and the esc that backs out of a zoom. *)
ToggleZoom ==
  /\ Keys /\ view \in {"browse", "agents"}
  /\ zoom' = ~(zoom /\ ~zoomDetail)
  /\ zoomDetail' = FALSE
  /\ UNCHANGED <<view, focus, dpane, apane, infoCmd, searching>> /\ ApplyLayout

ToggleZoomDetail ==
  /\ Keys /\ view \in {"browse", "agents"} /\ ZoomHasDetail
  /\ zoom' = ~(zoom /\ zoomDetail) /\ zoomDetail' = zoom'
  /\ UNCHANGED <<view, focus, dpane, apane, infoCmd, searching>> /\ ApplyLayout

ZoomDevices ==
  /\ Keys /\ view = "devices" /\ zoom' = ~zoom
  /\ UNCHANGED <<view, focus, dpane, apane, zoomDetail, infoCmd, searching>> /\ ApplyLayout

(* Focus lands on pane i: tab, shift+tab, or a click. *)
SetAgentPane(i) ==
  /\ apane' = i
  /\ infoCmd' = IF i = apane \/ i = ApInfo THEN infoCmd ELSE i = ApCommands
  /\ UNCHANGED <<view, focus, dpane, zoom, zoomDetail, searching>>
  /\ IF i = apane THEN UNCHANGED geo ELSE ApplyLayout

CycleFocus ==
  /\ Keys /\ view # "stats"
  /\ \/ view = "agents" /\ \E d \in {1, 4} : SetAgentPane((apane + d) % 5)
     \/ view = "devices" /\ dpane' = 1 - dpane
        /\ UNCHANGED <<view, focus, apane, zoom, zoomDetail, infoCmd, searching>>
        /\ ApplyLayout
     \/ view = "browse" /\ \E d \in {1, 2} : focus' = (focus + d) % 3 /\ UNCHANGED <<view, dpane, apane, zoom, zoomDetail, infoCmd, searching>>
        /\ ApplyLayout

--------------------------------------------------------------------------------
(* The mouse; the stats screen ignores it. *)
NearSeam(v, seam) == seam >= 0 /\ v \in {seam, seam - 1}

SeamAt(x, y) ==
  CASE y < 1 \/ y > Mid -> "none"
    [] NearSeam(x, geo.vDiv) -> "vert"
    [] NearSeam(y, geo.hDiv) /\ x >= geo.hDivFrom -> "horiz"
    [] NearSeam(y, geo.hDiv2) /\ x < geo.vDiv -> "hosts"
    [] OTHER -> "none"

PaneAt(x, y) == {i \in Pane : Contains(geo.p[i], x, y)}

ColRatio(x) == ClampRatio(RatioOf(x, width), 120, 600)
RowRatio(y, total) == ClampRatio(RatioOf(y - 1, total), 200, 800)

(* The ratio that dragging seam k to a cell sets: {} when there is none. *)
Dragged(k, x, y) ==
  CASE k = "vert" /\ ZoomDetailActive ->
         {<<"ZoomDetail", ClampRatio(RatioFull - RatioOf(x, width), 120, 600)>>}
    [] k = "vert" /\ ~ZoomDetailActive ->
         {<<IF view = "agents" THEN "AgentLeft" ELSE "BrowseLeft", ColRatio(x)>>}
    [] k = "horiz" ->
         {<<CASE view = "agents" -> "AgentTop" [] view = "devices" -> "DevicesTop"
              [] OTHER -> "BrowseTop", RowRatio(y, Mid)>>}
    [] k = "hosts" /\ geo.hDiv > 1 -> {<<"AgentHosts", RowRatio(y, geo.hDiv - 1)>>}
    [] OTHER -> {}

(* Cells worth pressing: the corners of the panes and both cells of a      *)
(* seam.  Worth dragging seam k to: one on each line it may come to.       *)
Col == {0, width - 1, geo.vDiv - 1, geo.vDiv} \cap 0..(width - 1)
Row == {0, 1, Mid, geo.hDiv - 1, geo.hDiv, geo.hDiv2 - 1, geo.hDiv2} \cap 0..(height - 1)
Track(k) == IF k = "vert" THEN (0..(width - 1)) \X {1} ELSE {0} \X (0..(height - 1))

MoveDivider(k, x, y) ==
  /\ drags < MaxDrag /\ drags' = drags + 1 /\ UNCHANGED <<screen, shown, keys>>
  /\ IF Dragged(k, x, y) = {}
       THEN UNCHANGED <<splits, geo>>
       ELSE \E s \in Dragged(k, x, y) : splits' = [splits EXCEPT ![s[1]] = s[2]] /\ ApplyLayout

(* A left press: grab the seam, or focus the pane. *)
FocusAt(x, y) ==
  /\ Stroke /\ UNCHANGED <<screen, splits, drag>>
  /\ \E i \in PaneAt(x, y) :
       CASE view = "agents" -> SetAgentPane(i)
         [] view = "devices" -> dpane' = i /\ UNCHANGED <<view, focus, apane, zoom, zoomDetail, infoCmd, searching>>
              /\ ApplyLayout
         [] OTHER -> focus' = i /\ UNCHANGED <<view, dpane, apane, zoom, zoomDetail, infoCmd, searching>>
              /\ ApplyLayout

Press ==
  /\ view # "stats"
  /\ \E c \in Col \X Row : LET k == SeamAt(c[1], c[2]) IN
       IF k # "none" THEN drag' = k /\ MoveDivider(k, c[1], c[2]) ELSE FocusAt(c[1], c[2])

Motion ==
  /\ view # "stats" /\ drag # "none" /\ UNCHANGED drag
  /\ \E c \in Track(drag) : MoveDivider(drag, c[1], c[2])

Release == view # "stats" /\ drag # "none" /\ drag' = "none"
           /\ Stroke /\ UNCHANGED <<screen, shown, splits, geo>>

Next == \/ Resize \/ RecomputeStats \/ Search \/ LeaveSearch
        \/ ToggleAgents \/ ToggleStats \/ EnterDevices \/ LeaveDevices \/ LeaveAgents
        \/ ToggleZoom \/ ToggleZoomDetail \/ ZoomDevices \/ CycleFocus
        \/ Press \/ Motion \/ Release
Spec == Init /\ [][Next]_vars

--------------------------------------------------------------------------------
(* Whatever the size of the terminal and wherever the seams were dragged,  *)
(* the panes the mouse hits lie inside the middle region, do not overlap   *)
(* and together have its area: each of its cells is in exactly one pane.   *)
Live == {i \in Pane : geo.p[i].w > 0 /\ geo.p[i].h > 0}
Area(i) == IF i \in Live THEN geo.p[i].w * geo.p[i].h ELSE 0
Apart(a, b) == \/ a.x + a.w <= b.x \/ b.x + b.w <= a.x
               \/ a.y + a.h <= b.y \/ b.y + b.h <= a.y
PanesTile ==
  /\ \A i \in Live : LET r == geo.p[i] IN
       r.x >= 0 /\ r.x + r.w <= width /\ r.y >= 1 /\ r.y + r.h <= 1 + Mid
  /\ \A i, j \in Live : i # j => Apart(geo.p[i], geo.p[j])
  /\ Area(0) + Area(1) + Area(2) + Area(3) + Area(4) = width * Mid

(* Cells that a seam may be dragged to: no minimum of panes.go stops it.   *)
Share(k, x, y) ==
  CASE k = "vert" -> IF ZoomDetailActive THEN RatioFull - RatioOf(x, width) ELSE RatioOf(x, width)
    [] k = "horiz" -> RatioOf(y - 1, Mid)
    [] OTHER -> RatioOf(y - 1, geo.hDiv - 1)
Free(k, x, y) ==
  CASE k = "vert" -> x \in MinPaneCols..(width - MinPaneCols) /\ Share(k, x, y) \in 120..600
    [] k = "horiz" -> y - 1 \in MinPaneRows..(Mid - MinPaneRows) /\ Share(k, x, y) \in 200..800
    [] OTHER -> y - 1 \in 3..(geo.hDiv - 4) /\ Share(k, x, y) \in 200..800
On(k, g, x, y) ==
  CASE k = "vert" -> g.vDiv < 0 \/ NearSeam(x, g.vDiv)
    [] k = "horiz" -> g.hDiv < 0 \/ NearSeam(y, g.hDiv)
    [] OTHER -> g.hDiv2 < 0 \/ NearSeam(y, g.hDiv2)

(* A seam dragged to a cell comes back on that cell ("ratioOf and splitAt  *)
(* round-trip"), so that the pointer does not lose it: the ratio that is   *)
(* kept reproduces the position, in every view and zoomed with details.    *)
SeamFollows ==
  [][drags' # drags => \A c \in Track(drag') :
       /\ Free(drag', c[1], c[2])
       /\ \E s \in Dragged(drag', c[1], c[2]) : splits'[s[1]] = Share(drag', c[1], c[2])
                                              /\ s[2] = splits'[s[1]]
       => On(drag', geo', c[1], c[2])]_vars

(* The mouse hits the panes that are drawn: "the mouse and the renderer    *)
(* can never disagree about where a pane is" (mouse.go).  The stats screen *)
(* has no panes and ignores the mouse.  The code does not keep it: a, s, s *)
(* leaves the explorer's panes under the browse view.                      *)
GeoCurrent == view # "stats" => geo = Geometry
================================================================================
