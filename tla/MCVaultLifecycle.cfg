SPECIFICATION Spec
CONSTANTS
  Processes = {p1, p2}
  Passphrases = {w1, w2}
  Keys = {k1, k2, k3}
  DeviceIds = {i1, i2}
  None = None
  MaxFailures = 3
INVARIANTS
  AbsentOrComplete
  ReportedVaultRemains
  SchemaMatchesVersion
PROPERTIES
  DeviceIdentityFixed
  MigrationCompletes
