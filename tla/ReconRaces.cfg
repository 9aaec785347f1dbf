SPECIFICATION Spec
CONSTANTS
  NoSurat = NoSurat
  NoKey = NoKey
  Surat = {s1, s2}
  Key = {k1, k2}
  Merger = {m1, m2}
  MaxHand = 2
INVARIANTS
  IInv
  DetectedPairsQueued
PROPERTY
  ResolvedOnce
SYMMETRY Symmetry
CHECK_DEADLOCK FALSE
