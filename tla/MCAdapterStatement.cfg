SPECIFICATION FairSpec
CONSTANTS
  Conns = {c1}
  Txs = {t1}
  StatementsSurvive = TRUE
  None = None
PROPERTIES DriverCallsReturn
