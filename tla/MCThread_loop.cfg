CONSTANTS
  EndsAlone = FALSE
  Cancellable = TRUE
  JoinsFirst = TRUE
  CreateMayFail = FALSE
SPECIFICATION FairSpec
INVARIANT NeverTerminates
PROPERTIES ImplementsLife CallsReturn
