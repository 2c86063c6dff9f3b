SPECIFICATION FairSpec
CONSTANTS
  Conns = {c1, c2}
  Txs = {t1, t2}
  StatementsSurvive = FALSE
  None = None
INVARIANTS TypeOK PinHasOwner
PROPERTIES EndedStaysEnded DriverCallsReturn
