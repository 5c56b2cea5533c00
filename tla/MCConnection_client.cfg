CONSTANTS
  MaxObjects = 2
  IdModulus = 3
  ChannelMax = 2
  t1 = t1
  Tags = {t1}
  AutoAck = {}
  MaxDeliveries = 2
  MaxPublished = 1
  MaxWire = 1
  Timed = TRUE
SPECIFICATION FairSpec
INVARIANTS ValidMeansConnected NeverMisrouted NoChannelLeaks
PROPERTY StopEndsConsuming
