SPECIFICATION Spec
CONSTANTS
  d1 = d1
  d2 = d2
  o1 = o1
  o2 = o2
  o3 = o3
  s1 = s1
  s2 = s2
  NoUser = NoUser
  NoTx = NoTx
  Device = {d1, d2}
  User = {u1}
  Surat = {s1}
  Op = {o1, o2}
  OpDevice <- TwoDevices
  OpSurat <- OneSurat
  Request = {r1, r2}
  Skew <- Ahead
  MaxBatch = 2
  MaxClock = 1
  MaxFaults = 0
  MaxWeb = 1
INVARIANTS
  AppliedOnce
  NewestLoggedWins
  IInv
PROPERTIES
  NoStaleOverwrite
SYMMETRY RequestSymmetry
CHECK_DEADLOCK FALSE
