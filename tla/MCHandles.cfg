CONSTANTS
  Dbc = {c1, c2}
  Stmt = {s1, s2, s3}
  Desc = {d1, d2}
  Implicit = Implicit
  Practices = {"no_memory"}
  MaxNodes = 2
SPECIFICATION Spec
SYMMETRY Symmetry
CHECK_DEADLOCK FALSE
INVARIANT TypeOK
INVARIANT MemorySafe
INVARIANT AssociationsExact
INVARIANT UsableDescriptors
INVARIANT ListsExact
INVARIANT NothingOutlivesItsConnection
PROPERTY ImplementsDescriptorUse
