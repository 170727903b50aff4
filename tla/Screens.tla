-------------------------------- MODULE Screens --------------------------------
(***************************************************************************)
(* What the user looks at: the browser's table with the requests it has in *)
(* flight, its panes and the mouse, its devices view, its agent explorer,  *)
(* and the search panel.  They share no state as modelled: a behaviour     *)
(* plays one of them, and the others stay as they start.                   *)
(***************************************************************************)
EXTENDS Browser, Sequences

CONSTANTS
  Parts,                                                    \* those to play
  Width, Height, HostRows, MaxKey, MaxDrag,                 \* Panes
  Device, Self, Token, MaxOut,                              \* DevicesView
  Text, Vim, Pinned, RowCount, Visible, HelpLines, PanelAsk, \* SearchPanel
  Cmd, Prompt, AgentOf, HostOf, PromptOf, Key, Cutoff, Matched,
  Samples, AgentSample                                      \* Explorer

VARIABLES part,
  width, height, hostRows, onView, focus, dpane, apane, zoom, zoomDetail, infoCmd, searching,
  splits, drag, geo, keys, drags,
  group, issued, calls, devices, tokens, devSel, tokSel, refreshing, minting, minted, pane,
  zoomed, confirm,
  ask, panelSeq, applied, queries, panelRows, failed, panelSel, top, visible, normal, help,
  helpTop, done,
  sampleRows, promptRows, samples, window, hostFilter, agentFilter, hostRow, agentRow,
  agentHosts, agents, filteredPrompts, promptSel, drillSel, promptQ, cmdQ, promptSort, cmdSort

Pane == INSTANCE Panes WITH hosts <- hostRows, view <- onView
Machines == INSTANCE DevicesView
Panel == INSTANCE SearchPanel WITH
  seq <- panelSeq, appliedSeq <- applied, rows <- panelRows, sel <- panelSel, MaxAsk <- PanelAsk
Agents == INSTANCE Explorer WITH
  statsRows <- sampleRows, period <- window, MaxSample <- AgentSample

ASSUME PanesAssumption == Pane!SizeAssumption /\ Pane!RowsAssumption
ASSUME DevicesAssumption == Machines!IdAssumption /\ Machines!OutAssumption
ASSUME PanelAssumption == Panel!PanelAssumption
ASSUME ExplorerAssumption == Agents!ExplorerAssumption

paneVars == <<width, height, hostRows, onView, focus, dpane, apane, zoom, zoomDetail, infoCmd,
              searching, splits, drag, geo, keys, drags>>
deviceVars == <<group, issued, calls, devices, tokens, devSel, tokSel, refreshing, minting,
                minted, pane, zoomed, confirm>>
panelVars == <<ask, panelSeq, applied, queries, panelRows, failed, panelSel, top, visible,
               normal, help, helpTop, done>>
agentVars == <<sampleRows, promptRows, samples, window, hostFilter, agentFilter, hostRow,
               agentRow, agentHosts, agents, filteredPrompts, promptSel, drillSel, promptQ,
               cmdQ, promptSort, cmdSort>>
tableVars == <<scene, born, corpus, tagStore, tagged, remoteState, net, allRows, rows, allTagged,
               rowTagged, sel, checked, period, asking, hosts, hostSel, seq, appliedSeq, answered,
               lastErr, hostsTicks, ticking, cacheState, hostsRemote, statsRows, statsSeq,
               appliedStats, view, gone, goneSeq, goneStats, deleted, bulk, edits>>
screenVars == <<part, tableVars, paneVars, deviceVars, panelVars, agentVars>>

ScreensInit ==
  /\ part \in Parts
  /\ Init /\ Pane!Init /\ Machines!Init /\ Panel!Init /\ Agents!Init

ScreensNext ==
  \/ part = "table" /\ Next /\ UNCHANGED <<part, paneVars, deviceVars, panelVars, agentVars>>
  \/ part = "panes" /\ Pane!Next
     /\ UNCHANGED <<part, tableVars, deviceVars, panelVars, agentVars>>
  \/ part = "machines" /\ Machines!Next
     /\ UNCHANGED <<part, tableVars, paneVars, panelVars, agentVars>>
  \/ part = "search" /\ Panel!Next
     /\ UNCHANGED <<part, tableVars, paneVars, deviceVars, agentVars>>
  \/ part = "agents" /\ Agents!Next
     /\ UNCHANGED <<part, tableVars, paneVars, deviceVars, panelVars>>

ScreensSpec == ScreensInit /\ [][ScreensNext]_screenVars

\* The code does not keep GeoCurrent (README.md, section 6): no run checks it.
GeoCurrent == Pane!GeoCurrent

PanesTile == Pane!PanesTile
SeamFollows == Pane!SeamFollows
MintedKept == Machines!MintedKept
PanelSettles == Panel!PanelSettles
ListsFollow == Agents!ListsFollow
================================================================================
