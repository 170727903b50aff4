CONSTANTS
    Ids = {a, b}
    Commands = {a, b}
    Imports = {}
    Foreign = {}
    Files = {1, 2}
    Conns = {c1}
    MaxDeletes = 1
    Faulty = FALSE
    NoId = NoId
    NoSnap = NoSnap
SPECIFICATION Spec
INVARIANT CorpusCurrent
