CONSTANTS
  MaxObjects = 1
  IdModulus = 2
  ChannelMax = 1
  t1 = t1
  Tags = {t1}
  AutoAck = {t1}
  MaxDeliveries = 1
  MaxPublished = 0
  MaxWire = 1
  Timed = TRUE
SPECIFICATION Spec
PROPERTY AckIsHarmless
