CONSTANTS
    Ids = {a, b, x}
    Commands = {a, b, x}
    Imports = {}
    Foreign = {x}
    Files = {1, 2}
    Conns = {c1}
    MaxDeletes = 1
    Faulty = FALSE
    NoId = NoId
    NoSnap = NoSnap
SPECIFICATION FairSpec
PROPERTIES WakeIsHonoured CommandsBecomeSearchable ShutdownCompletes
