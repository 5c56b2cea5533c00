CONSTANTS
  p1 = p1
  Pushers = {p1}
  p2 = p2
  MaxResponses = 1
  MaxFaults = 1
SPECIFICATION Spec
INVARIANT NeverCrashes
