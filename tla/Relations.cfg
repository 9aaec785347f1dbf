SPECIFICATION Spec
CONSTANTS
  None = None
  Surat = {s1, s2, s3, s4}
  Secret = {s3}
  Ref = {e1, e2, e3}
  Cc = {c1, c2, c3}
  Request = {r1, r2}
  Explicit = {2}
  Depth = 2
  MaxEdits = 3
INVARIANTS
  IInv
  ThreadIsNeighbourhood
  TembusanInOrder
PROPERTY
  LinkEndsWereLive
SYMMETRY Symmetry
CHECK_DEADLOCK FALSE
