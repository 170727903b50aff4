------------------------------- MODULE MCScreens -------------------------------
(***************************************************************************)
(* Screens, for TLC.  A behaviour that plays one part starts the others in *)
(* one of their initial states.  The devices view is played twice, with    *)
(* two machines and a token and with one machine and two tokens.           *)
(***************************************************************************)
EXTENDS Screens, TLC

AllScenes == {{"hosts"}, {"warming"}, {"sync"}, {"marks", "filters", "tags"},
              {"marks", "search", "shells"}, {"marks", "period", "tags"},
              {"marks", "views", "search"}}

\* A third question where nothing but the user asks them.
Asks == [s \in AllScenes |-> IF "shells" \in s THEN 3 ELSE 2]

\* Agent 1 ran commands 2 and 4, agent 2 command 5; hosts 1 and 2.
MCAgentOf == <<1, 1, 2, 1, 2>>
MCHostOf == <<1, 1, 1, 2, 2>>
MCPromptOf == 2 :> 1 @@ 4 :> 1 @@ 5 :> 3
MCKey == 2 :> 7 @@ 4 :> 2 @@ 5 :> 1
MCSamples == {<<{2}, {1}>>, <<{5}, {1, 3}>>, <<{2, 4}, {3}>>, <<{2, 4, 5}, {1}>>}

Tokens == INSTANCE DevicesView WITH Device <- {1}, Self <- 1, Token <- {1, 2}
ASSUME Tokens!IdAssumption

MCInit ==
  /\ part \in Parts
  /\ Init /\ (part # "table" => scene = {"sync"})
  /\ Pane!Init /\ hostRows = 2 /\ <<width, height>> \in {<<13, 5>>, <<26, 14>>}
  /\ (part # "panes" => height = 14 /\ onView = "browse")
  /\ IF part = "tokens" THEN Tokens!Init /\ \A t \in {1, 2} : issued[t] = ""
     ELSE /\ Machines!Init /\ issued[1] = (IF group[2] = "" THEN "open" ELSE "claimed")
          /\ (part # "machines" => group[2] = "")
  /\ Panel!Init
  /\ (part # "search" => ask.q = "" /\ ask.scope = "local" /\ ~ask.humanOnly /\ visible = 1)
  /\ Agents!Init

MCNext ==
  \/ part # "tokens" /\ ScreensNext
  \/ part = "tokens" /\ Tokens!Next
     /\ UNCHANGED <<part, tableVars, paneVars, panelVars, agentVars>>

MCSpec == MCInit /\ [][MCNext]_screenVars
================================================================================
