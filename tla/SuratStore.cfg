SPECIFICATION Spec
CONSTANTS
  None = None
  Surat = {s1, s2}
  Keluar = {s1, s2}
  Nomor = {n1, n2}
  Tx = {t1, t2}
  MaxTx = 4
INVARIANTS
  IInv
  NomorUnique
  LogReadsOn
  LastEntryIsTrue
SYMMETRY Symmetry
CHECK_DEADLOCK FALSE
