CONSTANTS
  Limits = {0, 5, 7}
  Levels = {"READ UNCOMMITTED", "REPEATABLE READ"}
  None = None
SPECIFICATION Spec
INVARIANT TypeOK
INVARIANT LimitOwnOrNone
INVARIANT IsolationExact
INVARIANT AutocommitKept
