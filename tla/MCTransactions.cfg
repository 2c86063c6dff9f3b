SPECIFICATION Spec
CONSTANTS
  Calls = {c1, c2, c3}
  Statements = 2
  None = None
SYMMETRY CallSymmetry
INVARIANTS TypeOK AcknowledgedIsKept FailedLeavesNothing IdleConnectionIsClean
PROPERTY PinnedIsPrivate
CHECK_DEADLOCK FALSE
