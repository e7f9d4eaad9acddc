SPECIFICATION Spec
CONSTANTS
  Devices = {d1, d2}
  EventIds = {e1, e2, e3}
  NoHash = NoHash
  NoClient = NoClient
  SnapshotLimit = 3
  MaxPackages = 1
  MaxFailures = 2
SYMMETRY Symmetry
INVARIANTS
  MembersCanRead
