CONSTANTS
  Stmts = {s1, s2}
  MaxResults = 3
  Practices = {}
SPECIFICATION Spec
INVARIANT TypeOK
INVARIANT OwnResults
INVARIANT RowCountExact
INVARIANT ConnectionFree
PROPERTY ImplementsResultQueues
