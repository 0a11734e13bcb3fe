CONSTANTS
  Dbc = {c1}
  Stmt = {s1, s2}
  Desc = {d1, d2}
  Implicit = Implicit
  Practices = {"pool_reset"}
  MaxNodes = 2
SPECIFICATION Spec
SYMMETRY Symmetry
CHECK_DEADLOCK FALSE
INVARIANT MemorySafe
