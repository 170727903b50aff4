CONSTANTS
    Servers = {s1}
    MaxRows = 3
    Prompts = {2}
    BatchLimit = 2
    MaxInFlight = 2
    NoBackup = NoBackup
SPECIFICATION FairSpec
INVARIANTS NothingSkipped NoGaps PromptsNeedConsent
PROPERTY CommandsReachServer
