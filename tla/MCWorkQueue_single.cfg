CONSTANTS
  ThreadNumber = 1
  MaxItems = 3
  Readers = {r1}
  r1 = r1
  JoinsFirst = TRUE
SPECIFICATION FairSpec
INVARIANTS OwnerIsSafe SingleWorkerKeepsOrder
PROPERTIES InputsAnswered CallsReturn
