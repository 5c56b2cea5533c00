CONSTANTS
  h1 = h1
  p1 = p1
  Headers = {h1}
  Params = {p1}
  Methods = {"GET", "POST"}
  Urls = {"u1"}
  Routes <- Handlers
  MaxRequests = 2
  MaxPieces = 2
  Users = {"u1", "u2"}
  MaxOthers = 2
  Ids = {"i1", "i2"}
  Names = {"n1", "name"}
  MaxFailures = 2
  MaxRenames = 1
  MaxMessages = 1
  MaxCallbacks = 2
  MaxSessions = 2
  MaxEvents = 2
  Nodes = {"a", "b"}
  MaxActions = 2
  MaxNodes = 2
  MaxCluster = 1
  Subjects = {"http", "jira", "elasticsearch", "slack", "irc"}
SPECIFICATION ServicesSpec
INVARIANTS RequestsAreSeparate ServedOnce CodeTells AnsweredMeansTrue BulkOnceInOrder StopsConnecting
PROPERTIES ServesAtMostOnce
CHECK_DEADLOCK FALSE
