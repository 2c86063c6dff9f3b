SPECIFICATION FairSpec
CONSTANTS
  g1 = g1
  g2 = g2
  g3 = g3
  Procs = {g1, g2, g3}
  Names = {}
  Public = public
  Rows = {r0}
  NoRows = r0
  Shapes = {h0}
  NoShape = h0
  BackupIds = {b1}
  MaxVersion = 0
  Roles <- BackupRoles
  Contexts = {"background"}
  EngineFaults = FALSE
  None = None
PROPERTIES EveryCallReturns
CHECK_DEADLOCK FALSE
