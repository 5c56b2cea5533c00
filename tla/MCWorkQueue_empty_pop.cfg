CONSTANTS
  ThreadNumber = 2
  MaxItems = 1
  Readers = {r1}
  r1 = r1
  JoinsFirst = TRUE
SPECIFICATION Spec
INVARIANT NoWorkerThrows
