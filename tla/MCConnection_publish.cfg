CONSTANTS
  MaxObjects = 1
  IdModulus = 2
  ChannelMax = 1
  t1 = t1
  Tags = {t1}
  AutoAck = {}
  MaxDeliveries = 0
  MaxPublished = 1
  MaxWire = 1
  Timed = TRUE
SPECIFICATION Spec
PROPERTY OkMeansTransmitted
