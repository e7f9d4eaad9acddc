SPECIFICATION ReaderSpec
CONSTANTS
  e1 = e1
  e2 = e2
  e3 = e3
  c1 = c1
  c2 = c2
  d1 = d1
  b1 = b1
  b2 = b2
  EventIds = {e1, e2, e3}
  Channels = {c1, c2}
  Devices = {d1}
  Bodies = {b1, b2}
  Requests <- MixedRequests
  MinTtl = 1
  MaxTtl = 3
  InstanceMaxTtl = 2
  NoEvent = NoEvent
  Handlers = {h1, h2}
  MaxTime = 1
  MaxRestarts = 1
  MaxCursor = 1
SYMMETRY HandlerSymmetry
INVARIANTS
  IndexesAgree
  SequenceNumbering
  OneReceiptPerRequest
  SenderOrder
  LiveEventsRetained
  CursorMissesNothingInOneLife
PROPERTY ListingExact
