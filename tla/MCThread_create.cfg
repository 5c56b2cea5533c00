CONSTANTS
  EndsAlone = FALSE
  Cancellable = TRUE
  JoinsFirst = TRUE
  CreateMayFail = TRUE
SPECIFICATION FairSpec
PROPERTY StartReturns
