SPECIFICATION FairSpec
CONSTANTS
  EventIds = {e1, e2, e3}
  Channels = {c1}
  Devices = {d1, d2}
  b1 = b1
  d1 = d1
  Bodies = {b1}
  Requests <- Submissions
  MinTtl = 1
  MaxTtl = 1
  InstanceMaxTtl = 1
  NoEvent = NoEvent
  OutboxLimit = 2
  MaxRowid = 3
  MaxTime = 1
  MaxDisturbances = 2
INVARIANTS
  TypeOK
  OutboxComplete
  FlushOwnsVault
PROPERTIES
  ImplementsOrderedOutbox
  ConfirmedUnlessExpired
