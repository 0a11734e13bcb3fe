CONSTANTS
  MaxRows = 4
  MaxArray = 2
  Offsets = {0, 1}
  Limits = {0, 2, 3}
  Prefetch = {1, 2}
  Practices = {}
SPECIFICATION Spec
INVARIANT TypeOK
INVARIANT RowsetExact
INVARIANT EndOfData
INVARIANT StatusExact
INVARIANT MemorySafe
PROPERTY ImplementsRowsetCursor
