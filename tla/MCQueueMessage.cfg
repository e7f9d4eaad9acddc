CONSTANTS
  Processes = {p1, p2}
  Channels = {c1, c2}
  Messages = {m1, m2, m3, m4, m5}
  None = None
SPECIFICATION Spec
INVARIANTS
  TypeOK
  RefersToQueued
  SenderChainUnbroken
SYMMETRY Symmetry
CHECK_DEADLOCK FALSE
