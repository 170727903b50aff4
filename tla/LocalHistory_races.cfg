CONSTANTS
    Ids = {a, c, t, b}
    Commands = {a, c, b}
    Imports = {b}
    Foreign = {}
    Files = {1, 2}
    Conns = {c1, c2}
    MaxDeletes = 2
    Faulty = TRUE
    NoId = NoId
    NoSnap = NoSnap
SYMMETRY AnyConn
SPECIFICATION Spec
INVARIANTS LostOnlyInDrain CorpusMissesOnlySkipped CorpusShowsOnlyStale StreamConsistent
PROPERTIES KeepsPromise
