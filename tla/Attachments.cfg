SPECIFICATION Spec
CONSTANTS
  NoAtt = NoAtt
  NoSurat = NoSurat
  Surat = {s1}
  Att = {a1, a2, a3}
  Request = {r1, r2}
  Depth = 1
  MaxEdits = 2
  MaxFaults = 1
INVARIANTS
  IInv
  NoVersionLost
  VersionsListed
  RowsHaveFiles
  NoStrayFiles
  IndexCurrent
SYMMETRY Symmetry
CHECK_DEADLOCK FALSE
