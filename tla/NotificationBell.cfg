SPECIFICATION FairSpec
CONSTANTS
  None = None
  User = {camat, staf}
  Assigner = {camat}
  Writer = {camat}
  Watcher = {staf}
  Row = {e1, e2}
  Fetch = {f1, f2}
  BellLimit = 1
  MaxClicks = 2
  MaxErrors = 1
INVARIANTS
  IInv
PROPERTIES
  Reaches
  BellSettles
CHECK_DEADLOCK FALSE
