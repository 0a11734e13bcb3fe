CONSTANTS
  Stmt = {s1, s2}
  Limits = {0, 5}
  MaxSets = 2
  None = None
  Practices = {"batches", "cancel"}
SPECIFICATION FairSpec
INVARIANT TypeOK
INVARIANT LockDiscipline
INVARIANT QueryIntact
INVARIANT LimitHonoured
INVARIANT LimitCacheExact
INVARIANT StatusExact
PROPERTY LockReleased
