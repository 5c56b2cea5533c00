CONSTANTS
  EndsAlone = TRUE
  Cancellable = TRUE
  JoinsFirst = FALSE
  CreateMayFail = TRUE
SPECIFICATION Spec
INVARIANTS RunSeenByStart RunningIsTruthful
PROPERTY StartReturnsRunning
