SPECIFICATION FairSpec
CONSTANTS
  NoDevice = NoDevice
  Device = {d1}
  Surat = {s1}
  Call = {c1, c2}
  Ahead = 1
  MaxClock = 4
  MaxOps = 1
  MaxFaults = 1
INVARIANTS
  IInv
  LostOnlyWhenLate
PROPERTIES
  NoOlderContent
  SyncEnds
CHECK_DEADLOCK FALSE
