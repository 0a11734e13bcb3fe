CONSTANTS
  MaxRow = 4
  MaxArray = 2
  Practices = {}
SPECIFICATION Spec
INVARIANT TypeOK
INVARIANT NamedRowsOnly
INVARIANT SuccessMeansChanged
INVARIANT MemorySafe
PROPERTY NextRowsetFollows
