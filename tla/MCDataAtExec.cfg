CONSTANTS
  Stmts = {s1, s2}
  Descs = {d1}
  Apd <- OneDesc
  NumParams = 2
  Buffers = {1, 2, 3}
  Pieces = {"a"}
  MaxPieces = 2
  Rows = {1, 2}
  Practices = {}
SPECIFICATION Spec
INVARIANT TypeOK
INVARIANT MemorySafe
INVARIANT SentAsGiven
