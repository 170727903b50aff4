CONSTANTS
  Machine = {m1, m2, m3}
  Token = {t1}
  Boot = boot
  Dek = {d1}
  MaxHK = 2
  MaxFlight = 2
  MaxLapses = 1
SPECIFICATION Spec
SYMMETRY AnyMachine
CONSTRAINT FollowHeld
INVARIANTS OneGroupKey OutsidersLockedOut PhraseOpens
CHECK_DEADLOCK FALSE
