CONSTANTS
  p1 = p1
  Pushers = {p1, p2}
  p2 = p2
  MaxResponses = 3
  MaxFaults = 3
SPECIFICATION FairSpec
INVARIANTS ResponsesInOrder QueueOfChannel ConsumesWhenServed
PROPERTIES Reconnects ResponsesLeave
