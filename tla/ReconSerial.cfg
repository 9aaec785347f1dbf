SPECIFICATION Spec
CONSTANTS
  NoSurat = NoSurat
  NoKey = NoKey
  Surat = {s1, s2, s3}
  Key = {k1, k2}
  Merger = {m1}
  MaxHand = 0
INVARIANTS
  OneGroupIfSerial
  OneVerdictIfSerial
  GroupKeysIfUnedited
SYMMETRY SuratSymmetry
CHECK_DEADLOCK FALSE
