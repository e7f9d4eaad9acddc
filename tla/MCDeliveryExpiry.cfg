SPECIFICATION FairSpec
CONSTANTS
  EventIds = {e1, e2}
  Channels = {c1}
  Devices = {d1}
  b1 = b1
  d1 = d1
  Bodies = {b1}
  Requests <- Submissions
  MinTtl = 1
  MaxTtl = 1
  InstanceMaxTtl = 1
  NoEvent = NoEvent
  OutboxLimit = 1
  MaxRowid = 3
  MaxTime = 1
  MaxDisturbances = 1
PROPERTY EventuallyConfirmed
