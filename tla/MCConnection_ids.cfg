CONSTANTS
  MaxObjects = 2
  IdModulus = 3
  ChannelMax = 2
  t1 = t1
  Tags = {t1}
  AutoAck = {}
  MaxDeliveries = 0
  MaxPublished = 0
  MaxWire = 1
  Timed = TRUE
SPECIFICATION Spec
PROPERTIES ThrowsWhenDead RefusedAtMax
