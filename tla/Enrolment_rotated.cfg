CONSTANTS
  Machine = {m1, m2}
  Token = {t1}
  Boot = boot
  Dek = {d1}
  MaxHK = 2
  MaxFlight = 1
  MaxLapses = 0
SPECIFICATION FairSpec
PROPERTY MembersKeepWriting
CHECK_DEADLOCK FALSE
