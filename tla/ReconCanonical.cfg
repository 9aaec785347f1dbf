SPECIFICATION Spec
CONSTANTS
  NoSurat = NoSurat
  NoKey = NoKey
  Surat = {s1, s2}
  Key = {k1}
  Merger = {m1, m2}
  MaxHand = 0
INVARIANT
  CanonicalStaysAlive
CHECK_DEADLOCK FALSE
