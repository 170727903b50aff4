CONSTANTS
    Writers = {w1, w2}
    NoFile = NoFile
    MayLosePower = TRUE
SPECIFICATION Spec
INVARIANTS NeverTorn AckedSurvives
PROPERTY KeepsPromise
