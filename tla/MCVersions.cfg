SPECIFICATION MemorySpec
CONSTANTS
  g1 = g1
  g2 = g2
  g3 = g3
  Procs = {g1, g2}
  Names = {n1, n2}
  Public = public
  Rows = {r0}
  NoRows = r0
  Shapes = {h0, h1}
  NoShape = h0
  BackupIds = {b1}
  MaxVersion = 2
  Roles <- VersionRoles
  Contexts = {"background"}
  EngineFaults = TRUE
  Buffers = {m1, m2, m3}
  None = None
INVARIANTS FaultsAreContained PublicDefinitionKept BackupsAreImmutable
PROPERTIES PublicIsRepeatable
