SPECIFICATION Spec
CONSTANTS
  Procs = {p1, p2}
  MaxSubs = 3
INVARIANTS TypeOK RegistryIsExact LaterQueriesSkipIt
PROPERTIES UnsubscribeIsSettled NobodyIsSkipped
