SPECIFICATION Spec
CONSTANTS
  Devices = {d1, d2, d3}
  EventIds = {e1, e2}
  NoHash = NoHash
  NoClient = NoClient
  SnapshotLimit = 2
  MaxPackages = 1
  MaxFailures = 1
SYMMETRY Symmetry
INVARIANTS
  ChainsAgree
