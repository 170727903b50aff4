CONSTANTS
  p1 = p1
  p2 = p2
  c1 = c1
  c2 = c2
  Parts = {"config", "capture", "life", "index", "backup"}
  Agents = {"claude", "cursor", "opencode", "codex", "devin"}
  Bins = {"yore", "/opt/yore"}
  Within <- MCWithin
  Runs = {p1, p2}
  MaxRun = 3
  MaxSave = 1
  Agent = {"claude", "devin"}
  Id = {"s"}
  NoId = ""
  Text = {"make"}
  MaxPrompt = 2
  MaxTool = 2
  Client = {c1, c2}
  Op = {"query", "shutdown"}
  MaxDaemon = 3
  MaxReq = 2
  MaxMeddle = 1
  Row = {"r1"}
  SessionOf <- MCSessionOf
  AutoRow = {}
  Prompt = {"q1", "q2"}
  Foreign = {"q2"}
  PromptOf <- MCPromptOf
  RemoteKeep = 1
  MaxOps <- MCMaxOps
  Keep = 2
  MaxTime = 4
  MaxBackup = 5
  MaxSetBack = 1
SPECIFICATION MCSpec
SYMMETRY Symmetry
INVARIANTS OthersKept RecordsOwnTurn Reachable Exchanges IndexesSettle LatestKept
PROPERTY LeavesNothing
CHECK_DEADLOCK FALSE
