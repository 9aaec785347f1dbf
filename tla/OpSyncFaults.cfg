SPECIFICATION Spec
CONSTANTS
  d1 = d1
  d2 = d2
  o1 = o1
  o2 = o2
  o3 = o3
  s1 = s1
  s2 = s2
  NoUser = NoUser
  NoTx = NoTx
  Device = {d1}
  User = {u1}
  Surat = {s1}
  Op = {o1, o2}
  OpDevice <- OneDevice
  OpSurat <- OneSurat
  Request = {r1, r2}
  Skew <- InStep
  MaxBatch = 2
  MaxClock = 1
  MaxFaults = 1
  MaxWeb = 0
INVARIANTS
  SyncedImpliesLogged
PROPERTIES
  ExactlyOnceEdits
SYMMETRY FullSymmetry
CHECK_DEADLOCK FALSE
