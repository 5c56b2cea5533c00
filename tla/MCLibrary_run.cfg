CONSTANTS
  k1 = k1
  f1 = f1
  f2 = f2
  w1 = w1
  w2 = w2
  c1 = c1
  d1 = d1
  d2 = d2
  Writes = {w1, w2}
  Custom = {c1}
  MaxFaults = 2
  Keys = {k1}
  Fields = {f1, f2}
  Interval = 1
  ErrorReplies = FALSE
  MaxClock = 2
  MaxForeign = 1
  MaxLosses = 1
  Consoles = {d1, d2}
  Words = {"w1", "w2"}
  MaxLines = 1
  NoConsole = NoConsole
  StringProps = {"reply_to", "expiration"}
  NumberProps = {"priority"}
  Values <- PropertyValues
  MaxSets = 2
  Threads = {"t1", "t2"}
  Waits = {1, 999, 1000}
  Now = {1, 999999}
  MaxPosts = 2
  Secrets = {"s1", "s2"}
  Algorithms = {"HS256", "HS384"}
  ByteStrings <- SomeBytes
  Texts <- SomeTexts
  JsonValues <- SomeValues
  Subjects = {"redis", "mysql", "postgresql", "console", "message", "semaphore", "token", "text", "bytes", "json"}
SPECIFICATION LibrarySpec
INVARIANTS TrueMeansDone NoneDanglesOrLeaks RegisteredIsPrepared CompletionsOnce SameForTheConsumer DeadlineIsExact WrittenIsRead TextsHold
PROPERTIES TransactionIsAtomic
CHECK_DEADLOCK FALSE
