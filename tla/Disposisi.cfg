SPECIFICATION Spec
CONSTANTS
  None = None
  Surat = {s1}
  Secret = {s1}
  User = {camat, staf}
  Active = {staf}
  Assigner = {camat}
  Writer = {staf}
  Reader = {camat, staf}
  Overseer = {camat}
  Viewer = {camat, staf}
  Row = {e1, e2}
  Request = {r1, r2}
  Limit = 1
  MaxEdits = 2
  MaxFaults = 1
INVARIANTS
  CardIInv
  Notified
PROPERTIES
  Promised
  LifecycleUnlessOvertaken
SYMMETRY Symmetry
CHECK_DEADLOCK FALSE
