CONSTANTS
  ThreadNumber = 2
  MaxItems = 3
  Readers = {r1}
  r1 = r1
  JoinsFirst = FALSE
SPECIFICATION Spec
INVARIANTS JoinedMeansGone ItemsConserved
