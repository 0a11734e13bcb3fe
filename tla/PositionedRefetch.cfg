CONSTANTS
  MaxRow = 4
  MaxArray = 2
  Practices = {"refetch"}
SPECIFICATION Spec
INVARIANT NamedRowsOnly
