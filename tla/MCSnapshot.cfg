SPECIFICATION Spec
CONSTANTS
  g1 = g1
  g2 = g2
  g3 = g3
  Procs = {g1, g2, g3}
  Names = {n1}
  Public = public
  Rows = {r0, r1}
  NoRows = r0
  Shapes = {h0}
  NoShape = h0
  BackupIds = {b1}
  MaxVersion = 0
  Roles <- SnapshotRoles
  Contexts = {"live"}
  EngineFaults = FALSE
  None = None
INVARIANTS TypeOK LocksFollowCalls TransactionsArePinned BackupExcludesTopology BackupIsConsistent RestoreIsExact PublishedIsAttached
PROPERTIES LinearizableStore
