CONSTANTS
  Rec = {1, 2}
  Early = {1}
  Remote = {}
  AgentRun = {2}
  Recent = {2}
  Wordy = {1}
  Scenes <- AllScenes
  MaxAsk <- Asks
  MaxSample = 1
  MaxEdit = 1
  MaxTick = 2
  Parts = {"table", "panes", "machines", "tokens", "search", "agents"}
  Width = {13, 26}
  Height = {5, 14}
  HostRows = {2, 5}
  MaxKey = 2
  MaxDrag = 2
  Device = {1, 2}
  Self = 1
  Token = {1}
  MaxOut = 2
  Text = {"", "m"}
  Vim = TRUE
  Pinned = FALSE
  RowCount = {0, 3}
  Visible = {1, 2}
  HelpLines = 3
  PanelAsk = 2
  Cmd = {2, 4, 5}
  Prompt = {1, 3}
  AgentOf <- MCAgentOf
  HostOf <- MCHostOf
  PromptOf <- MCPromptOf
  Key <- MCKey
  Cutoff = 3
  Matched = {2, 3}
  Samples <- MCSamples
  AgentSample = 1
SPECIFICATION MCSpec
INVARIANTS DeletedStayGone MarksShown SliceAgrees AnswersQuestion
  PanesTile PanelSettles ListsFollow
PROPERTIES SampleForgets SeamFollows MintedKept
CHECK_DEADLOCK FALSE
