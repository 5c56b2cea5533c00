---------------------------- MODULE LibraryProofs ----------------------------
(***************************************************************************)
(* Theorems about the parts of the library that share nothing, for all     *)
(* values of their constants.  The library runs one of its parts, as the   *)
(* specification of that part says, so that each property is proved of     *)
(* the part alone.                                                         *)
(***************************************************************************)
EXTENDS Library, SequenceTheorems, FiniteSetTheorems, WellFoundedInduction, TLAPS

\* Each part of the library behaves as its own specification says.
THEOREM LibraryRunsItsParts ==
  LibrarySpec => /\ Redis!Spec /\ MySQL!Spec /\ Spec /\ Console!Spec /\ Message!Spec
                 /\ Semaphore!Spec /\ JsonWebToken!Spec
<1>1. LibraryInit => /\ Redis!Init /\ MySQL!Init /\ Init /\ Console!Init /\ Message!Init
                     /\ Semaphore!Init /\ JsonWebToken!Init
  BY DEF LibraryInit
<1>2. [LibraryNext]_vars =>
        /\ [Redis!Next]_(Redis!redisVars) /\ [MySQL!Next]_(MySQL!mysqlVars) /\ [Next]_pgVars
        /\ [Console!Next]_(Console!consoleVars) /\ [Message!Next]_(Message!messageVars)
        /\ [Semaphore!Next]_(Semaphore!semaphoreVars)
        /\ [JsonWebToken!Next]_(JsonWebToken!tokenVars)
  BY DEF LibraryNext, Tools, vars, toolV, redisV, mysqlV, consoleV, messageV, semaphoreV,
         tokenV, Redis!redisVars, MySQL!mysqlVars, Console!consoleVars, Console!generator,
         Message!messageVars, Semaphore!semaphoreVars, JsonWebToken!tokenVars
<1> QED
  BY <1>1, <1>2, PTL DEF LibrarySpec, Redis!Spec, MySQL!Spec, Spec, Console!Spec,
     Message!Spec, Semaphore!Spec, JsonWebToken!Spec

\* One of them does its work and the inputs stay.
LEMMA InputStays ==
  LibrarySpec => [](subject = "bytes" => input \in ByteStrings)
<1>1. LibraryInit => (subject = "bytes" => input \in ByteStrings)
  BY DEF LibraryInit
<1>2. (subject = "bytes" => input \in ByteStrings) /\ [LibraryNext]_vars
        => (subject = "bytes" => input \in ByteStrings)'
  BY DEF LibraryNext, vars
<1> QED
  BY <1>1, <1>2, PTL DEF LibrarySpec

-----------------------------------------------------------------------------
(* Semaphore *)

\* Quotient and remainder, of the seconds in nanoseconds.
LEMMA Carries ==
  ASSUME NEW n \in Nat
  PROVE  /\ n \div 1000000000 \in Nat /\ n % 1000000000 \in Nat /\ n % 1000000000 < 1000000000
         /\ n = 1000000000 * (n \div 1000000000) + (n % 1000000000)
  BY SMT

\* The sum of the quotients is the quotient of the sum: ms milliseconds and us
\* microseconds are seconds s and a rest r each, n nanoseconds in all.
LEMMA SumOfParts ==
  ASSUME NEW ms \in Nat, NEW s1 \in Nat, NEW r1 \in Nat, ms = 1000 * s1 + r1,
         NEW us \in Nat, NEW s2 \in Nat, NEW r2 \in Nat, us = 1000000 * s2 + r2,
         NEW n \in Nat, NEW s3 \in Nat, NEW r3 \in Nat,
         n = r1 * 1000000 + r2 * 1000, n = 1000000000 * s3 + r3
  PROVE  (s1 + s3 + s2) * 1000000000 + r3 = us * 1000 + ms * 1000000
  BY SMT

\* The deadline that wait() computes is the present plus the wait, to the
\* nanosecond, and its nanoseconds are less than a second.
LEMMA DeadlineExact ==
  ASSUME NEW time_ms \in Nat, NEW now \in Nat, NEW d, d = Semaphore!Deadline(time_ms, now)
  PROVE  /\ d \in [sec : Nat, nsec : Nat]
         /\ d.nsec < 1000000000
         /\ d.sec * 1000000000 + d.nsec = now * 1000 + time_ms * 1000000
<1> DEFINE s1 == time_ms \div 1000  r1 == time_ms % 1000
           s2 == now \div 1000000   r2 == now % 1000000
           n == r1 * 1000000 + r2 * 1000
           s3 == n \div 1000000000  r3 == n % 1000000000
<1>1. s1 \in Nat /\ r1 \in Nat /\ time_ms = 1000 * s1 + r1
  BY SMT
<1>2. s2 \in Nat /\ r2 \in Nat /\ now = 1000000 * s2 + r2
  BY SMT
<1>3. d = [sec |-> s1 + s3 + s2, nsec |-> r3]
  BY SMT DEF Semaphore!Deadline
<1> HIDE DEF s1, r1, s2, r2
<1>4. n \in Nat /\ n = r1 * 1000000 + r2 * 1000
  BY SMT, <1>1, <1>2
<1> HIDE DEF n
<1>5. s3 \in Nat /\ r3 \in Nat /\ r3 < 1000000000 /\ n = 1000000000 * s3 + r3
  BY SMT, <1>4, Carries
<1> HIDE DEF s3, r3
<1>6. (s1 + s3 + s2) * 1000000000 + r3 = now * 1000 + time_ms * 1000000
  BY SMT, <1>1, <1>2, <1>4, <1>5, SumOfParts
<1> QED
  BY SMT, <1>1, <1>2, <1>3, <1>5, <1>6

-----------------------------------------------------------------------------
WaitInv ==
  /\ until \in [Threads -> [sec : Nat, nsec : Nat]]
  /\ due \in [Threads -> Nat]
  /\ waiting \in [Threads -> {"none", "forever", "timed"}]
  /\ Semaphore!DeadlineIsExact

LEMMA WaitStep ==
  ASSUME WaitInv, [Semaphore!Next]_Semaphore!semaphoreVars
  PROVE  WaitInv'
<1>1. CASE \E num \in 1..MaxPosts : Semaphore!Post(num)
  BY SMT, <1>1 DEF Semaphore!Post, WaitInv, Semaphore!DeadlineIsExact
<1>2. ASSUME NEW t \in Threads, Semaphore!Wait(t) PROVE WaitInv'
  BY SMT, <1>2 DEF Semaphore!Wait, WaitInv, Semaphore!DeadlineIsExact
<1>3. ASSUME NEW t \in Threads, Semaphore!Pass(t) \/ Semaphore!GiveUp(t) PROVE WaitInv'
  BY SMT, <1>3 DEF Semaphore!Pass, Semaphore!GiveUp, WaitInv, Semaphore!DeadlineIsExact
<1>4. ASSUME NEW t \in Threads, NEW time_ms \in Waits, NEW now \in Now,
             Semaphore!TimedWait(t, time_ms, now)
      PROVE  WaitInv'
  <2> DEFINE d == Semaphore!Deadline(time_ms, now)
             e == now * 1000 + time_ms * 1000000
  <2>1. time_ms \in Nat /\ now \in Nat /\ e \in Nat
    BY LibraryAssumption DEF Semaphore!SemaphoreConstants
  <2>2. d \in [sec : Nat, nsec : Nat] /\ d.nsec < 1000000000 /\ d.sec * 1000000000 + d.nsec = e
    BY SMT, <2>1, DeadlineExact
  <2>3. /\ waiting' = [waiting EXCEPT ![t] = "timed"]
        /\ until' = [until EXCEPT ![t] = d] /\ due' = [due EXCEPT ![t] = e]
    BY SMT, <1>4 DEF Semaphore!TimedWait
  <2> HIDE DEF d, e
  <2> QED
    BY SMT, <2>1, <2>2, <2>3 DEF WaitInv, Semaphore!DeadlineIsExact
<1>5. CASE UNCHANGED Semaphore!semaphoreVars
  BY SMT, <1>5 DEF Semaphore!semaphoreVars, WaitInv, Semaphore!DeadlineIsExact
<1> QED
  BY SMT, <1>1, <1>2, <1>3, <1>4, <1>5 DEF Semaphore!Next

\* Every timed wait has its exact deadline (semaphore.cpp:77-86), whatever the
\* clock shows and however many milliseconds it waits: the carry into the seconds
\* neither fails nor happens twice.
THEOREM DeadlineIsExactHolds == LibrarySpec => []DeadlineIsExact
<1>1. Semaphore!Init => WaitInv
  BY SMT DEF Semaphore!Init, WaitInv, Semaphore!DeadlineIsExact
<1>2. WaitInv /\ [Semaphore!Next]_(Semaphore!semaphoreVars) => WaitInv'
  BY WaitStep
<1>3. WaitInv => DeadlineIsExact
  BY DEF WaitInv, DeadlineIsExact
<1> QED
  BY <1>1, <1>2, <1>3, LibraryRunsItsParts, PTL DEF Semaphore!Spec

-----------------------------------------------------------------------------
(* Base64 *)

\* The four digits that base64_encode_priv() makes of three bytes (base64.cpp:63)
\* are digits, and base64_decode_priv() makes the same bytes of them (base64.cpp:128).
THEOREM GroupIsRead ==
  \A x, y, z \in Base64!Bytes :
    /\ \A i \in 1..4 : Base64!DigitsOf(<<x, y, z>>)[i] \in Base64!Digits
    /\ Base64!BytesOf(Base64!DigitsOf(<<x, y, z>>)) = <<x, y, z>>
<1> SUFFICES ASSUME NEW x \in Base64!Bytes, NEW y \in Base64!Bytes, NEW z \in Base64!Bytes
             PROVE  /\ \A i \in 1..4 : Base64!DigitsOf(<<x, y, z>>)[i] \in Base64!Digits
                    /\ Base64!BytesOf(Base64!DigitsOf(<<x, y, z>>)) = <<x, y, z>>
  OBVIOUS
<1>0. x \in 0..255 /\ y \in 0..255 /\ z \in 0..255
  BY DEF Base64!Bytes
<1> DEFINE a == x \div 4
           b == (x % 4) * 16 + y \div 16
           c == (y % 16) * 4 + z \div 64
           d == z % 64
<1>1. a \in 0..63 /\ b \in 0..63 /\ c \in 0..63 /\ d \in 0..63
  BY <1>0
<1>2. (a * 4 + ((b \div 16) % 4)) % 256 = x
  <2>1. b \div 16 = x % 4
    BY <1>0
  <2>2. (x % 4) % 4 = x % 4 /\ a * 4 + (x % 4) = x
    BY <1>0
  <2> HIDE DEF a, b
  <2> QED
    BY <1>0, <2>1, <2>2
<1>3. ((b % 16) * 16 + ((c \div 4) % 16)) % 256 = y
  <2>1. b % 16 = y \div 16
    BY <1>0
  <2>2. c \div 4 = y % 16 /\ (y % 16) % 16 = y % 16
    BY <1>0
  <2>3. (y \div 16) * 16 + (y % 16) = y
    BY <1>0
  <2> HIDE DEF b, c
  <2>4. y \div 16 \in Nat /\ y % 16 \in Nat
    BY <1>0
  <2>5. ((y \div 16) * 16 + ((c \div 4) % 16)) % 256 = y
    BY <1>0, <2>2, <2>3
  <2> QED
    BY <1>0, <2>1, <2>5
<1>4. ((c % 4) * 64 + d) % 256 = z
  <2>1. c % 4 = z \div 64
    BY <1>0
  <2>2. (z \div 64) * 64 + d = z
    BY <1>0
  <2> HIDE DEF c, d
  <2> QED
    BY <1>0, <2>1, <2>2
<1>5. Base64!DigitsOf(<<x, y, z>>) = <<a, b, c, d>>
  BY DEF Base64!DigitsOf
<1>6. Base64!BytesOf(<<a, b, c, d>>) =
        <<(a * 4 + ((b \div 16) % 4)) % 256, ((b % 16) * 16 + ((c \div 4) % 16)) % 256,
          ((c % 4) * 64 + d) % 256>>
  BY DEF Base64!BytesOf
<1> HIDE DEF a, b, c, d
<1>7. \A i \in 1..4 : <<a, b, c, d>>[i] \in 0..63
  BY <1>1
<1>8. Base64!BytesOf(<<a, b, c, d>>) = <<x, y, z>>
  BY ONLY <1>2, <1>3, <1>4, <1>6
<1>9. \A i \in 1..4 : <<a, b, c, d>>[i] \in Base64!Digits
  BY <1>7 DEF Base64!Digits
<1> QED
  BY ONLY <1>5, <1>8, <1>9, Zenon

-----------------------------------------------------------------------------
(* MySQLClient *)

\* A handle that is not connected has no session and one that is has at most one;
\* the test of the ping is inverted, so that the handle is only closed when the
\* server answers, which it does not while a result has unread rows.
HandleInv ==
  /\ m_conn \in {"null", "init", "open"} /\ m_result \in {"none", "rows"}
  /\ sessions \in {0, 1} /\ (m_conn # "open" => sessions = 0)
  /\ place = "disconnect" => m_result = "none"
  /\ place = "connect" => m_conn = "null"

LEMMA HandleStep ==
  ASSUME HandleInv, [MySQL!Next]_(MySQL!mysqlVars)
  PROVE  HandleInv'
<1> USE DEF HandleInv
<1>1. CASE \/ \E q \in MySQL!Query : MySQL!Exec(q)
           \/ MySQL!CheckConnection \/ MySQL!FreeResult
           \/ MySQL!DescribeCrashes \/ MySQL!QueryThrows \/ MySQL!ServerToggles
  BY <1>1 DEF MySQL!Exec, MySQL!CheckConnection, MySQL!FreeResult, MySQL!DescribeCrashes,
              MySQL!QueryThrows, MySQL!ServerToggles
<1>2. CASE MySQL!Ping
  BY <1>2 DEF MySQL!Ping, MySQL!PingLeadsTo, MySQL!Answers, MySQL!AfterCheck
<1>3. CASE MySQL!Disconnect \/ MySQL!Destroy
  BY <1>3 DEF MySQL!Disconnect, MySQL!Destroy, MySQL!Closes, MySQL!SessionEnds, MySQL!Alive
<1>4. CASE MySQL!Connect \/ MySQL!ConnectThrows
  BY <1>4 DEF MySQL!Connect, MySQL!ConnectThrows, MySQL!AfterCheck
<1>5. CASE MySQL!QueryReturns
  BY <1>5 DEF MySQL!QueryReturns
<1>6. CASE MySQL!QueryUnanswered \/ MySQL!ConnectionLost
  BY <1>6 DEF MySQL!QueryUnanswered, MySQL!ConnectionLost, MySQL!SessionEnds, MySQL!Alive
<1>7. CASE UNCHANGED MySQL!mysqlVars
  BY <1>7 DEF MySQL!mysqlVars
<1> QED
  BY <1>1, <1>2, <1>3, <1>4, <1>5, <1>6, <1>7 DEF MySQL!Next

LEMMA HandleHolds == MySQL!Spec => []HandleInv
<1>1. MySQL!Init => HandleInv
  BY DEF MySQL!Init, HandleInv
<1> QED
  BY <1>1, HandleStep, PTL DEF MySQL!Spec

\* No reconnection closes a MySQL handle under the reader of its result
\* (mysqlclient.cpp:100-118), whenever connections are lost, and the server has no
\* session for a client without a connected handle, and never two.
THEOREM NoneDanglesOrLeaksHolds == LibrarySpec => []NoneDanglesOrLeaks
<1>1. HandleInv => NoneDanglesOrLeaks
  BY DEF HandleInv, NoneDanglesOrLeaks, MySQL!ResultNeverDangles, MySQL!NoSessionLeaks
<1> QED
  BY <1>1, HandleHolds, LibraryRunsItsParts, PTL

-----------------------------------------------------------------------------
(* JsonWebToken *)

\* The text that get() returns.
TextOf(final) ==
  << JsonWebToken!Part(jwt.alg, FALSE, TRUE),
     JsonWebToken!Part(final, dashes.payload, TRUE),
     JsonWebToken!Part(<<jwt.alg, jwt.secret, <<jwt.alg, final>>>>, dashes.signature, FALSE) >>

\* What became of a text on its way is seen in its header.
Spoilt == JsonWebToken!HeaderError(token) # "none" /\ ~JsonWebToken!Kept

\* What is carried is the text that get() returned, or a spoilt one; and what
\* read_and_verify() made of it.
TokenInv ==
  /\ answer \in {"none"} \cup JsonWebToken!GetStatuses \cup JsonWebToken!ReadStatuses
  /\ jwt.alg \in Algorithms /\ (answer \notin JsonWebToken!ReadStatuses => read = JsonWebToken!Nothing)
  /\ DOMAIN dashes = {"payload", "signature"}
  /\ dashes = [payload |-> dashes.payload, signature |-> dashes.signature]
  /\ dashes.payload \in BOOLEAN /\ dashes.signature \in BOOLEAN
  /\ answer = "GENERATED" => token = TextOf(jwt.payload \cup set) \/ Spoilt
  /\ JsonWebToken!ReadIsWritten

\* A text as it was written: it is read, unless another secret or algorithm, or a
\* character that the decoder does not know, is in the way.
LEMMA ReadsWritten ==
  ASSUME TokenInv, answer = "GENERATED", JsonWebToken!ReadAndVerify,
         token = TextOf(jwt.payload \cup set)
  PROVE  TokenInv'
<1> DEFINE final == jwt.payload \cup set
           h == <<jwt.alg, final>>
           sent == <<jwt.alg, jwt.secret, h>>
           mine == <<"HS256", secret, h>>
<1>1. /\ UNCHANGED <<jwt, set, dashes, token, secret>>
      /\ token = << JsonWebToken!Part(jwt.alg, FALSE, TRUE),
                    JsonWebToken!Part(final, dashes.payload, TRUE),
                    JsonWebToken!Part(sent, dashes.signature, FALSE) >>
  BY DEF JsonWebToken!ReadAndVerify, TextOf
<1>2. /\ token[1].value = jwt.alg /\ token[2].value = final /\ Len(token) = 3
      /\ JsonWebToken!Parses(token[1]) /\ (JsonWebToken!Parses(token[2]) <=> ~dashes.payload)
      /\ token[3] = JsonWebToken!Part(sent, dashes.signature, FALSE)
      /\ token[1] = JsonWebToken!Part(jwt.alg, FALSE, TRUE)
  BY <1>1 DEF JsonWebToken!Part, JsonWebToken!Parses, TokenInv
<1>3. JsonWebToken!Expected(token) = JsonWebToken!Part(mine, dashes.signature, TRUE)
  BY <1>2 DEF JsonWebToken!Expected, JsonWebToken!Hmac
<1>4. JsonWebToken!Expected(token) = token[3]
        <=> jwt.alg = "HS256" /\ jwt.secret = secret /\ ~dashes.signature
  <2>1. mine = sent <=> jwt.alg = "HS256" /\ jwt.secret = secret
    OBVIOUS
  <2> HIDE DEF mine, sent
  <2>2. JsonWebToken!Part(mine, dashes.signature, TRUE)
          = JsonWebToken!Part(sent, dashes.signature, FALSE)
          <=> mine = sent /\ ~dashes.signature
    BY DEF JsonWebToken!Part, TokenInv
  <2> QED
    BY <1>2, <1>3, <2>1, <2>2
<1>5. jwt.alg \in Algorithms /\ jwt.alg # "incomplete"
  BY LibraryAssumption DEF TokenInv, JsonWebToken!TokenConstants
<1>6. answer' = IF dashes.payload THEN "JSON_PARSE_ERROR"
                ELSE IF JsonWebToken!Expected(token) # token[3]
                     THEN "INVALID_SIGNATURE" ELSE "OK"
  BY <1>2, <1>5 DEF JsonWebToken!ReadAndVerify, JsonWebToken!Verdict, JsonWebToken!HeaderError
<1>7. read' = [alg |-> jwt.alg, payload |-> IF ~dashes.payload THEN final ELSE {}]
  BY <1>2, <1>5 DEF JsonWebToken!ReadAndVerify, JsonWebToken!HeaderError
<1>8. /\ answer' \in JsonWebToken!ReadStatuses
      /\ answer' \notin {"INVALID_STRING", "INVALID_HEADER", "INVALID_ALGORITHM"}
      /\ JsonWebToken!Kept'
  BY <1>1, <1>2, <1>6 DEF JsonWebToken!ReadStatuses, JsonWebToken!Kept
<1>9. answer' = "OK" <=> /\ jwt.alg = "HS256" /\ jwt.secret = secret
                         /\ ~dashes.payload /\ ~dashes.signature
  BY <1>4, <1>6
<1>10. dashes = [payload |-> FALSE, signature |-> FALSE]
        <=> ~dashes.payload /\ ~dashes.signature
  BY DEF TokenInv
<1> HIDE DEF sent, mine, h
<1>11. JsonWebToken!ReadIsWritten'
  BY <1>1, <1>7, <1>8, <1>9, <1>10 DEF JsonWebToken!ReadIsWritten
<1>12. answer' # "GENERATED"
  BY <1>6
<1> QED
  BY <1>1, <1>8, <1>11, <1>12 DEF TokenInv

\* A text whose header was spoilt is refused before anything of it is taken.
LEMMA ReadsSpoilt ==
  ASSUME TokenInv, answer = "GENERATED", JsonWebToken!ReadAndVerify, Spoilt
  PROVE  TokenInv'
<1>1. UNCHANGED <<jwt, set, dashes, token, secret>>
  BY DEF JsonWebToken!ReadAndVerify
<1>2. read = JsonWebToken!Nothing
  BY DEF TokenInv, JsonWebToken!ReadStatuses
<1>3. ~JsonWebToken!Kept /\ JsonWebToken!HeaderError(token) # "none"
  BY DEF Spoilt
<1>4. /\ answer' \in {"INVALID_STRING", "JSON_PARSE_ERROR", "INVALID_HEADER", "INVALID_ALGORITHM"}
      /\ read' = JsonWebToken!Nothing
  BY <1>2, <1>3 DEF JsonWebToken!ReadAndVerify, JsonWebToken!Verdict, JsonWebToken!HeaderError
<1>5. ~JsonWebToken!Kept'
  BY <1>1, <1>3 DEF JsonWebToken!Kept
<1>6. JsonWebToken!ReadIsWritten'
  BY <1>4, <1>5 DEF JsonWebToken!ReadIsWritten
<1>7. answer' \in JsonWebToken!ReadStatuses /\ answer' # "GENERATED"
  BY <1>4 DEF JsonWebToken!ReadStatuses
<1> QED
  BY <1>1, <1>6, <1>7 DEF TokenInv

\* What happens on the way is seen in the header.
LEMMA GarbleSpoils ==
  ASSUME TokenInv, JsonWebToken!Garble
  PROVE  Spoilt'
<1>1. UNCHANGED jwt
  BY DEF JsonWebToken!Garble
<1>2. /\ jwt.alg \in Algorithms /\ "unknown" \notin Algorithms /\ "incomplete" \notin Algorithms
  BY LibraryAssumption DEF TokenInv, JsonWebToken!TokenConstants
<1>3. CASE token' = <<token[1], token[2]>>
  <2>1. Len(token') = 2
    BY <1>3
  <2> QED
    BY <2>1 DEF Spoilt, JsonWebToken!Kept, JsonWebToken!HeaderError
<1>4. ASSUME NEW v \in {"unknown", "incomplete"}, NEW special \in BOOLEAN,
             token' = <<JsonWebToken!Part(v, special, TRUE), token[2], token[3]>>
      PROVE  Spoilt'
  <2>1. token'[1].value = v
    BY <1>4 DEF JsonWebToken!Part
  <2>2. JsonWebToken!Part(jwt.alg, FALSE, TRUE).value = jwt.alg
    BY DEF JsonWebToken!Part
  <2>3. (~JsonWebToken!Kept)'
    BY <1>1, <1>2, <2>1, <2>2 DEF JsonWebToken!Kept, JsonWebToken!Part
  <2>4. (JsonWebToken!HeaderError(token) # "none")'
    BY <1>2, <2>1 DEF JsonWebToken!HeaderError
  <2> QED
    BY <2>3, <2>4 DEF Spoilt
<1> QED
  BY <1>3, <1>4 DEF JsonWebToken!Garble

LEMMA TokenStep ==
  ASSUME TokenInv, [JsonWebToken!Next]_(JsonWebToken!tokenVars)
  PROVE  TokenInv'
<1>1. CASE \E claim \in JsonWebToken!Reserved : JsonWebToken!SetClaim(claim)
  BY <1>1 DEF JsonWebToken!SetClaim, TokenInv, JsonWebToken!ReadIsWritten,
              JsonWebToken!ReadStatuses, JsonWebToken!GetStatuses
<1>2. CASE JsonWebToken!Get
  <2>1. UNCHANGED <<jwt, set, dashes, secret, read>> /\ answer' \in JsonWebToken!GetStatuses
        /\ answer = "none"
    BY <1>2 DEF JsonWebToken!Get, JsonWebToken!GetStatuses
  <2>2. answer' = "GENERATED" => token' = TextOf(jwt.payload \cup set)'
    BY <1>2, <2>1 DEF JsonWebToken!Get, JsonWebToken!Hmac, JsonWebToken!Signed, TextOf
  <2>3. answer \notin JsonWebToken!ReadStatuses /\ answer' \notin JsonWebToken!ReadStatuses
    BY <2>1 DEF JsonWebToken!GetStatuses, JsonWebToken!ReadStatuses
  <2> QED
    BY <2>1, <2>2, <2>3 DEF TokenInv, JsonWebToken!ReadIsWritten
<1>3. CASE JsonWebToken!Garble
  <2>1. UNCHANGED <<jwt, set, dashes, secret, read, answer>> /\ answer = "GENERATED"
    BY <1>3 DEF JsonWebToken!Garble
  <2>2. answer \notin JsonWebToken!ReadStatuses
    BY <2>1 DEF JsonWebToken!ReadStatuses
  <2>3. Spoilt'
    BY <1>3, GarbleSpoils
  <2> QED
    BY <2>1, <2>2, <2>3 DEF TokenInv, JsonWebToken!ReadIsWritten
<1>4. CASE JsonWebToken!ReadAndVerify
  <2>1. answer = "GENERATED"
    BY <1>4 DEF JsonWebToken!ReadAndVerify
  <2> QED
    BY <1>4, <2>1, ReadsWritten, ReadsSpoilt DEF TokenInv
<1>5. CASE UNCHANGED JsonWebToken!tokenVars
  BY <1>5 DEF JsonWebToken!tokenVars, TokenInv, JsonWebToken!ReadIsWritten, TextOf,
              Spoilt, JsonWebToken!Kept
<1> QED
  BY <1>1, <1>2, <1>3, <1>4, <1>5 DEF JsonWebToken!Next

LEMMA TokenHolds == JsonWebToken!Spec => []JsonWebToken!ReadIsWritten
<1>1. JsonWebToken!Init => TokenInv
  BY DEF JsonWebToken!Init, TokenInv, JsonWebToken!ReadIsWritten, JsonWebToken!ReadStatuses
<1>2. TokenInv => JsonWebToken!ReadIsWritten
  BY DEF TokenInv
<1> QED
  BY <1>1, <1>2, TokenStep, PTL DEF JsonWebToken!Spec

-----------------------------------------------------------------------------
(* Base64, of all sequences of bytes *)

\* A set of numbers has its least number.
LEMMA Least ==
  ASSUME NEW S, S \subseteq Nat, S # {}
  PROVE  LET m == CHOOSE k \in S : \A l \in S : k <= l
         IN  m \in S /\ \A l \in S : m <= l
<1>1. PICK x \in S : \A y \in S : ~(<<y, x>> \in OpToRel(<, Nat))
  BY NatLessThanWellFounded, WFMin
<1>2. ASSUME NEW y \in S PROVE x <= y
  <2>1. x \in Nat /\ y \in Nat
    OBVIOUS
  <2>2. y < x => <<y, x>> \in OpToRel(<, Nat)
    BY ONLY <2>1 DEF OpToRel
  <2>3. ~(<<y, x>> \in OpToRel(<, Nat))
    BY ONLY <1>1, y \in S
  <2>4. ~(y < x)
    BY ONLY <2>2, <2>3
  <2> QED
    BY ONLY <2>1, <2>4
<1> QED
  BY <1>2

\* Quotients and remainders by the sizes of the groups.
LEMMA Division ==
  \A x \in Nat :
    /\ x \div 3 \in Nat /\ x % 3 \in 0..2 /\ x = 3 * (x \div 3) + (x % 3)
    /\ x \div 4 \in Nat /\ x % 4 \in 0..3 /\ x = 4 * (x \div 4) + (x % 4)
    /\ x \div 6 \in Nat /\ 6 * (x \div 6) <= x /\ x <= 6 * (x \div 6) + 5
    /\ x \div 8 \in Nat /\ 8 * (x \div 8) <= x /\ x <= 8 * (x \div 8) + 7
  BY SMT

LEMMA PlaceOfDigit ==
  ASSUME NEW q \in Nat, NEW i \in 1..4
  PROVE  (4 * q + i - 1) \div 4 = q /\ (4 * q + i - 1) % 4 = i - 1
  BY SMT

\* The number of digits of so many bytes, and of bytes of so many digits.
LEMMA DigitsAndBytes ==
  ASSUME NEW length \in Nat, NEW n, n = (length * 8 + 5) \div 6
  PROVE  /\ n \in Nat /\ (n * 6) \div 8 = length
         /\ \A m \in 0..n : (m * 6) \div 8 \in 0..length
<1>1. n \in Nat /\ 6 * n <= length * 8 + 5 /\ length * 8 + 5 <= 6 * n + 5
  BY SMT, Division
<1>2. \A m \in 0..n : (m * 6) \div 8 \in Nat /\ 8 * ((m * 6) \div 8) <= m * 6
                      /\ m * 6 <= 8 * ((m * 6) \div 8) + 7
  BY SMT, <1>1, Division
<1> QED
  BY SMT, <1>1, <1>2

\* The digits of a text of base64, and the bytes they are of.
DigitAt(bytes, k) ==
  Base64!DigitsOf(Base64!GroupOf(bytes, k, 3, 4, 0))[1 + ((k - 1) % 4)]
ByteAt(digits, k) ==
  Base64!BytesOf(Base64!GroupOf(digits, k, 4, 3, 255))[1 + ((k - 1) % 3)]
ByteOr0(bytes, k) == IF k <= Len(bytes) THEN bytes[k] ELSE 0

LEMMA DigitIs ==
  ASSUME NEW bytes \in Seq(Base64!Bytes), NEW q \in Nat
  PROVE  LET x == ByteOr0(bytes, 3 * q + 1)
             y == ByteOr0(bytes, 3 * q + 2)
             z == ByteOr0(bytes, 3 * q + 3)
         IN  /\ x \in Base64!Bytes /\ y \in Base64!Bytes /\ z \in Base64!Bytes
             /\ \A i \in 1..4 :
                  DigitAt(bytes, 4 * q + i) = Base64!DigitsOf(<<x, y, z>>)[i]
<1> DEFINE x == ByteOr0(bytes, 3 * q + 1)
           y == ByteOr0(bytes, 3 * q + 2)
           z == ByteOr0(bytes, 3 * q + 3)
<1>1. Len(bytes) \in Nat /\ \A k \in 1..Len(bytes) : bytes[k] \in Base64!Bytes
  BY LenProperties, ElementOfSeq
<1>2. x \in Base64!Bytes /\ y \in Base64!Bytes /\ z \in Base64!Bytes
  <2>1. ASSUME NEW k \in Nat, k >= 1 PROVE ByteOr0(bytes, k) \in Base64!Bytes
    <3>1. 0 \in Base64!Bytes
      BY DEF Base64!Bytes
    <3> QED
      BY <1>1, <2>1, <3>1 DEF ByteOr0
  <2>2. /\ 3 * q + 1 \in Nat /\ 3 * q + 2 \in Nat /\ 3 * q + 3 \in Nat
        /\ 3 * q + 1 >= 1 /\ 3 * q + 2 >= 1 /\ 3 * q + 3 >= 1
    OBVIOUS
  <2> QED
    BY <2>1, <2>2
<1>3. ASSUME NEW i \in 1..4
      PROVE  DigitAt(bytes, 4 * q + i) = Base64!DigitsOf(<<x, y, z>>)[i]
  <2> DEFINE g == Base64!GroupOf(bytes, 4 * q + i, 3, 4, 0)
  <2>1. (4 * q + i - 1) \div 4 = q /\ 1 + ((4 * q + i - 1) % 4) = i
    BY PlaceOfDigit
  <2>2. g = [j \in 1..3 |-> IF q * 3 + j <= Len(bytes) THEN bytes[q * 3 + j] ELSE 0]
    BY <2>1 DEF Base64!GroupOf
  <2>3. q * 3 = 3 * q
    OBVIOUS
  <2>4. g[1] = x /\ g[2] = y /\ g[3] = z
    BY <2>2, <2>3 DEF ByteOr0
  <2> HIDE DEF g, x, y, z
  <2>5. Base64!DigitsOf(g) = Base64!DigitsOf(<<x, y, z>>)
    BY <2>4 DEF Base64!DigitsOf
  <2> QED
    BY <2>1, <2>5 DEF DigitAt, g
<1> QED
  BY <1>2, <1>3

\* A digit is one of the 64.
LEMMA DigitsInRange ==
  ASSUME NEW bytes \in Seq(Base64!Bytes), NEW k \in Nat, k >= 1
  PROVE  DigitAt(bytes, k) \in 0..63
<1> DEFINE q == (k - 1) \div 4
           i == 1 + ((k - 1) % 4)
           x == ByteOr0(bytes, 3 * q + 1)
           y == ByteOr0(bytes, 3 * q + 2)
           z == ByteOr0(bytes, 3 * q + 3)
           d == Base64!DigitsOf(<<x, y, z>>)
<1>1. q \in Nat /\ i \in 1..4 /\ k = 4 * q + i
  <2>1. k - 1 \in Nat
    OBVIOUS
  <2> QED
    BY <2>1, Division
<1>2. /\ x \in Base64!Bytes /\ y \in Base64!Bytes /\ z \in Base64!Bytes
      /\ \A l \in 1..4 : DigitAt(bytes, 4 * q + l) = d[l]
  <2>1. bytes \in Seq(Base64!Bytes) /\ q \in Nat
    BY <1>1
  <2> HIDE DEF q, i
  <2> QED
    BY ONLY <2>1, DigitIs, Zenon
<1>3. \A l \in 1..4 : d[l] \in 0..63
  <2> HIDE DEF x, y, z
  <2> QED
    BY ONLY <1>2, GroupIsRead DEF Base64!Digits, d
<1> HIDE DEF q, i, d, x, y, z
<1>4. DigitAt(bytes, 4 * q + i) = d[i] /\ d[i] \in 0..63
  BY <1>1, <1>2, <1>3
<1> QED
  BY ONLY <1>1, <1>4

\* What the decoder makes of the first m digits: all the bytes they complete.
LEMMA BytesRead ==
  ASSUME NEW bytes \in Seq(Base64!Bytes), NEW m \in Nat,
         NEW digits \in [1..m -> Base64!Bytes],
         \A k \in 1..m : digits[k] = DigitAt(bytes, k),
         NEW k \in 1..Len(bytes), k <= (m * 6) \div 8
  PROVE  ByteAt(digits, k) = bytes[k]
<1> DEFINE q == (k - 1) \div 3
           j == 1 + ((k - 1) % 3)
           g == Base64!GroupOf(digits, k, 4, 3, 255)
           x == ByteOr0(bytes, 3 * q + 1)
           y == ByteOr0(bytes, 3 * q + 2)
           z == ByteOr0(bytes, 3 * q + 3)
           d == Base64!DigitsOf(<<x, y, z>>)
<1>1. Len(bytes) \in Nat /\ k \in Nat /\ k >= 1 /\ k <= Len(bytes)
  BY LenProperties
<1>2. q \in Nat /\ j \in 1..3 /\ k = 3 * q + j
  <2>1. k - 1 \in Nat
    BY <1>1
  <2>2. /\ (k - 1) \div 3 \in Nat /\ (k - 1) % 3 \in 0..2
        /\ k - 1 = 3 * ((k - 1) \div 3) + ((k - 1) % 3)
    BY ONLY <2>1, Division
  <2> QED
    BY ONLY <2>1, <2>2, k \in Nat
<1>3. 4 * q + j + 1 <= m
  <2>1. 8 * ((m * 6) \div 8) <= m * 6 /\ (m * 6) \div 8 \in Nat
    BY Division, m * 6 \in Nat
  <2> HIDE DEF q, j
  <2> QED
    BY <1>1, <1>2, <2>1
<1>4. Len(digits) = m
  BY LenProperties
<1>5. g = [i \in 1..4 |-> IF q * 4 + i <= m THEN digits[q * 4 + i] ELSE 255]
  BY <1>4 DEF Base64!GroupOf
<1>6. /\ x \in Base64!Bytes /\ y \in Base64!Bytes /\ z \in Base64!Bytes
      /\ \A i \in 1..4 : DigitAt(bytes, 4 * q + i) = d[i]
  <2>1. bytes \in Seq(Base64!Bytes) /\ q \in Nat
    BY <1>2
  <2> HIDE DEF q, j, g
  <2> QED
    BY ONLY <2>1, DigitIs, Zenon
<1>7. Base64!BytesOf(d) = <<x, y, z>>
  <2> HIDE DEF x, y, z
  <2> QED
    BY ONLY <1>6, GroupIsRead, Zenon DEF d
<1>8. <<x, y, z>>[j] = bytes[k]
  <2>1. ByteOr0(bytes, 3 * q + j) = bytes[k]
    BY <1>1, <1>2 DEF ByteOr0
  <2> HIDE DEF q
  <2>2. CASE j = 1
    BY <2>1, <2>2
  <2>3. CASE j = 2
    BY <2>1, <2>3
  <2>4. CASE j = 3
    BY <2>1, <2>4
  <2> QED
    BY <1>2, <2>2, <2>3, <2>4
<1> HIDE DEF q, j, g, d, x, y, z
<1>9. \A i \in 1..(j + 1) : g[i] = d[i]
  <2> SUFFICES ASSUME NEW i \in 1..(j + 1) PROVE g[i] = d[i]
    OBVIOUS
  <2>1. i \in 1..4 /\ q * 4 + i = 4 * q + i /\ 4 * q + i <= m /\ 4 * q + i \in 1..m
    BY <1>2, <1>3
  <2>2. g[i] = digits[4 * q + i]
    BY <1>5, <2>1
  <2> QED
    BY <1>6, <2>1, <2>2
<1>10. Base64!BytesOf(g)[j] = Base64!BytesOf(d)[j]
  <2>1. CASE j = 1
    <3>1. g[1] = d[1] /\ g[2] = d[2]
      BY <1>9, <2>1
    <3> QED
      BY <2>1, <3>1 DEF Base64!BytesOf
  <2>2. CASE j = 2
    <3>1. g[2] = d[2] /\ g[3] = d[3]
      BY <1>9, <2>2
    <3> QED
      BY <2>2, <3>1 DEF Base64!BytesOf
  <2>3. CASE j = 3
    <3>1. g[3] = d[3] /\ g[4] = d[4]
      BY <1>9, <2>3
    <3> QED
      BY <2>3, <3>1 DEF Base64!BytesOf
  <2> QED
    BY <1>2, <2>1, <2>2, <2>3
<1> QED
  BY <1>7, <1>8, <1>10 DEF j, g, ByteAt

\* The text of a sequence of bytes: its digits, then the padding.
LEMMA TextIs ==
  ASSUME NEW bytes \in Seq(Base64!Bytes), NEW url \in BOOLEAN,
         NEW n, n = (Len(bytes) * 8 + 5) \div 6,
         NEW chars, chars = Base64!Encode(bytes, url)
  PROVE  /\ n \in Nat /\ Len(chars) \in Nat /\ n <= Len(chars)
         /\ \A k \in 1..n : chars[k] = Base64!Character(DigitAt(bytes, k), url)
         /\ \A k \in (n + 1)..Len(chars) : chars[k] = 66
<1> DEFINE p == (4 - (n % 4)) % 4
           s == [k \in 1..n |-> Base64!Character(DigitAt(bytes, k), url)]
           e == [k \in 1..p |-> 66]
<1>1. Len(bytes) \in Nat
  BY LenProperties
<1>2. n \in Nat
  BY <1>1, DigitsAndBytes
<1>3. p \in Nat
  <2>1. n % 4 \in 0..3
    BY <1>2, Division
  <2> QED
    BY <2>1
<1>4. s \in Seq(0..66)
  <2>1. \A k \in 1..n : s[k] \in 0..66
    <3> SUFFICES ASSUME NEW k \in 1..n PROVE Base64!Character(DigitAt(bytes, k), url) \in 0..66
      OBVIOUS
    <3>1. k \in Nat /\ k >= 1
      BY <1>2
    <3>2. DigitAt(bytes, k) \in 0..63
      BY <3>1, DigitsInRange
    <3>3. \A d \in 0..63 : Base64!Character(d, url) \in 0..66
      <4> SUFFICES ASSUME NEW d \in 0..63 PROVE Base64!Character(d, url) \in 0..66
        OBVIOUS
      <4>1. d \in 0..66 /\ d + 2 \in 0..66
        OBVIOUS
      <4> QED
        BY ONLY <4>1, Zenon DEF Base64!Character
    <3> QED
      BY <3>2, <3>3
  <2> QED
    BY <1>2, <2>1
<1>5. e \in Seq(0..66)
  BY <1>3
<1>6. Len(s) = n /\ Len(e) = p
  BY <1>2, <1>3
<1>7. chars = s \o e
  BY DEF Base64!Encode, DigitAt, Base64!Equals
<1>8. Len(chars) = n + p /\ \A k \in 1..(n + p) : chars[k] = IF k <= n THEN s[k] ELSE e[k - n]
  <2> HIDE DEF s, e, p
  <2>1. Len(s \o e) = Len(s) + Len(e)
    BY ONLY <1>4, <1>5, ConcatProperties
  <2>2. \A k \in 1..(Len(s) + Len(e)) : (s \o e)[k] = IF k <= Len(s) THEN s[k] ELSE e[k - Len(s)]
    BY ONLY <1>4, <1>5, ConcatProperties
  <2> QED
    BY ONLY <1>6, <1>7, <2>1, <2>2
<1>9. \A k \in 1..p : e[k] = 66
  OBVIOUS
<1>10. \A k \in 1..n : s[k] = Base64!Character(DigitAt(bytes, k), url)
  OBVIOUS
<1> HIDE DEF s, e, p
<1> QED
  BY <1>2, <1>3, <1>8, <1>9, <1>10

\* The first m characters are those of the first m digits of the bytes, and the
\* next, if there is one, is none of base64.
Spells(chars, m, bytes, url) ==
  /\ Len(chars) \in Nat
  /\ m \in 0..((Len(bytes) * 8 + 5) \div 6) /\ m <= Len(chars)
  /\ \A k \in 1..m : /\ Base64!IsBase64(chars[k])
                     /\ Base64!Find(chars[k], url) = DigitAt(bytes, k)
  /\ m < Len(chars) => ~Base64!IsBase64(chars[m + 1])

\* What is read of a text whose first m characters are digits of bytes, the next
\* one being none, if there is one: the bytes these digits complete.
LEMMA DecodedIs ==
  ASSUME NEW bytes \in Seq(Base64!Bytes), NEW url \in BOOLEAN, NEW chars, NEW m,
         Spells(chars, m, bytes, url)
  PROVE  /\ (m * 6) \div 8 \in 0..Len(bytes)
         /\ Base64!Decode(chars, url) = [k \in 1..((m * 6) \div 8) |-> bytes[k]]
<1> USE DEF Spells
<1> DEFINE stop == {k \in 1..Len(chars) : ~Base64!IsBase64(chars[k])}
           least == CHOOSE k \in stop : \A l \in stop : k <= l
           n == IF stop = {} THEN Len(chars) ELSE least - 1
           digits == [k \in 1..m |-> Base64!Find(chars[k], url)]
<1>1. Len(bytes) \in Nat
  BY LenProperties
<1>2. (m * 6) \div 8 \in 0..Len(bytes) /\ m \in Nat
  BY <1>1, DigitsAndBytes
<1>3. n = m
  <2>1. CASE m < Len(chars)
    <3>1. m + 1 \in stop /\ \A k \in stop : m + 1 <= k
      BY <2>1
    <3>2. stop \subseteq Nat /\ stop # {}
      BY <3>1
    <3>3. least \in stop /\ \A k \in stop : least <= k
      BY <3>2, Least
    <3>4. least \in Nat
      BY <3>2, <3>3
    <3> HIDE DEF stop, least
    <3>5. least = m + 1
      BY <3>1, <3>3, <3>4
    <3>6. n = least - 1
      BY <3>2
    <3> HIDE DEF n
    <3> QED
      BY <3>5, <3>6, <1>2
  <2>2. CASE m = Len(chars)
    <3>1. stop = {}
      BY <2>2
    <3> QED
      BY <2>2, <3>1
  <2> QED
    BY <2>1, <2>2
<1>4. /\ digits \in [1..m -> Base64!Bytes]
      /\ \A k \in 1..m : digits[k] = DigitAt(bytes, k)
  <2>1. \A k \in 1..m : digits[k] = DigitAt(bytes, k)
    OBVIOUS
  <2>2. \A k \in 1..m : DigitAt(bytes, k) \in Base64!Bytes
    <3> SUFFICES ASSUME NEW k \in 1..m PROVE DigitAt(bytes, k) \in Base64!Bytes
      OBVIOUS
    <3>1. k \in Nat /\ k >= 1
      OBVIOUS
    <3>2. DigitAt(bytes, k) \in 0..63
      BY <3>1, DigitsInRange
    <3> QED
      BY <3>2 DEF Base64!Bytes
  <2>3. digits = [k \in 1..m |-> digits[k]]
    OBVIOUS
  <2> HIDE DEF digits
  <2> QED
    BY ONLY <2>1, <2>2, <2>3
<1>5. Base64!Decode(chars, url)
        = [k \in 1..((m * 6) \div 8) |-> ByteAt(digits, k)]
  <2>1. Base64!Decode(chars, url)
          = [k \in 1..((n * 6) \div 8) |->
               ByteAt([l \in 1..n |-> Base64!Find(chars[l], url)], k)]
    BY DEF Base64!Decode, ByteAt
  <2> HIDE DEF n
  <2> QED
    BY ONLY <1>3, <2>1
<1>6. ASSUME NEW k \in 1..((m * 6) \div 8)
      PROVE  ByteAt(digits, k) = bytes[k]
  <2>1. k \in 1..Len(bytes) /\ k <= (m * 6) \div 8
    BY <1>1, <1>2
  <2> HIDE DEF digits
  <2>2. bytes \in Seq(Base64!Bytes)
    OBVIOUS
  <2>3. /\ m \in Nat /\ digits \in [1..m -> Base64!Bytes]
        /\ \A l \in 1..m : digits[l] = DigitAt(bytes, l)
    BY ONLY <1>2, <1>4
  <2> QED
    BY ONLY <2>1, <2>2, <2>3, BytesRead, Zenon
<1> QED
  BY <1>2, <1>5, <1>6

\* What the decoder finds of a character of the encoder.
LEMMA CharacterIs ==
  ASSUME NEW d \in 0..63, NEW url \in BOOLEAN, NEW c, c = Base64!Character(d, url)
  PROVE  /\ ~url \/ d < 62 => c = d /\ Base64!IsBase64(c) /\ Base64!Find(c, url) = d
         /\ url /\ ~(d < 62) => c \in {64, 65} /\ ~Base64!IsBase64(c)
<1>1. ~url \/ d < 62 => c = d
  BY DEF Base64!Character
<1>2. url /\ ~(d < 62) => c \in {64, 65}
  BY DEF Base64!Character
<1>3. ~url => Base64!Find(d, url) = d
  BY DEF Base64!Find
<1>4. d < 62 => Base64!Find(d, url) = d
  BY DEF Base64!Find
<1>5. Base64!IsBase64(d) /\ ~Base64!IsBase64(64) /\ ~Base64!IsBase64(65)
  BY DEF Base64!IsBase64
<1> QED
  BY <1>1, <1>2, <1>3, <1>4, <1>5

\* A sequence cut after its last element is itself.
LEMMA WholeSeq ==
  ASSUME NEW bytes \in Seq(Base64!Bytes)
  PROVE  bytes = [k \in 1..Len(bytes) |-> bytes[k]]
  BY LenProperties

\* base64_decode() reads the bytes base64_encode() was given, of any number.
LEMMA PlainIsRead ==
  ASSUME NEW bytes \in Seq(Base64!Bytes), NEW url \in BOOLEAN, ~url
  PROVE  Base64!Decode(Base64!Encode(bytes, url), url) = bytes
<1> DEFINE n == (Len(bytes) * 8 + 5) \div 6
           chars == Base64!Encode(bytes, url)
<1>1. /\ n \in Nat /\ Len(chars) \in Nat /\ n <= Len(chars)
      /\ \A k \in 1..n : chars[k] = Base64!Character(DigitAt(bytes, k), url)
      /\ \A k \in (n + 1)..Len(chars) : chars[k] = 66
  BY TextIs
<1>2. Len(bytes) \in Nat /\ (n * 6) \div 8 = Len(bytes)
  BY LenProperties, DigitsAndBytes
<1>3. n \in 0..((Len(bytes) * 8 + 5) \div 6)
  BY <1>1
<1> HIDE DEF chars
<1>4. \A k \in 1..n : /\ Base64!IsBase64(chars[k])
                      /\ Base64!Find(chars[k], url) = DigitAt(bytes, k)
  <2> SUFFICES ASSUME NEW k \in 1..n
               PROVE  /\ Base64!IsBase64(chars[k])
                      /\ Base64!Find(chars[k], url) = DigitAt(bytes, k)
    OBVIOUS
  <2>1. k \in Nat /\ k >= 1
    BY <1>1
  <2>2. DigitAt(bytes, k) \in 0..63
    BY <2>1, DigitsInRange
  <2>3. chars[k] = Base64!Character(DigitAt(bytes, k), url)
    BY <1>1
  <2>4. url \in BOOLEAN /\ ~url
    OBVIOUS
  <2> QED
    BY ONLY <2>2, <2>3, <2>4, CharacterIs
<1>5. n < Len(chars) => ~Base64!IsBase64(chars[n + 1])
  <2>1. n < Len(chars) => chars[n + 1] = 66
    <3> HIDE DEF n
    <3> QED
      BY ONLY <1>1
  <2>2. ~Base64!IsBase64(66)
    BY DEF Base64!IsBase64
  <2> QED
    BY <2>1, <2>2
<1>6. Base64!Decode(chars, url) = [k \in 1..((n * 6) \div 8) |-> bytes[k]]
  <2>1. bytes \in Seq(Base64!Bytes) /\ url \in BOOLEAN
    OBVIOUS
  <2> QED
    <3>1. Spells(chars, n, bytes, url)
      BY ONLY <1>1, <1>3, <1>4, <1>5 DEF Spells
    <3> HIDE DEF n
    <3> QED
      BY ONLY <2>1, <3>1, DecodedIs
<1>7. Base64!Decode(chars, url) = bytes
  <2> HIDE DEF n
  <2> QED
    BY <1>2, <1>6, WholeSeq
<1> QED
  BY <1>7 DEF chars

\* base64_urldecode() reads it up to the first of the two digits it does not know.
LEMMA UrlIsRead ==
  ASSUME NEW bytes \in Seq(Base64!Bytes), NEW url \in BOOLEAN, url
  PROVE  LET chars == Base64!Encode(bytes, url)
             rd == Base64!Decode(chars, url)
             special == {k \in 1..Len(chars) : chars[k] \in {64, 65}}
             reach  == IF special = {} THEN Len(chars) ELSE (CHOOSE k \in special :
                         \A l \in special : k <= l) - 1
         IN  /\ rd = SubSeq(bytes, 1, Len(rd))
             /\ special = {} => rd = bytes
             /\ special # {} => Len(rd) = (reach * 6) \div 8
<1> DEFINE n == (Len(bytes) * 8 + 5) \div 6
           chars == Base64!Encode(bytes, url)
           rd == Base64!Decode(chars, url)
           special == {k \in 1..Len(chars) : chars[k] \in {64, 65}}
           first == CHOOSE k \in special : \A l \in special : k <= l
           reach  == IF special = {} THEN Len(chars) ELSE first - 1
           m == IF special = {} THEN n ELSE first - 1
           size == (m * 6) \div 8
<1>1. special = {k \in 1..Len(chars) : chars[k] \in {64, 65}}
  OBVIOUS
<1>2. m = IF special = {} THEN n ELSE first - 1
  OBVIOUS
<1>3. n = (Len(bytes) * 8 + 5) \div 6
  OBVIOUS
<1>4. bytes \in Seq(Base64!Bytes) /\ url \in BOOLEAN
  OBVIOUS
<1>5. chars = Base64!Encode(bytes, url) /\ rd = Base64!Decode(chars, url)
  OBVIOUS
<1>6. reach = IF special = {} THEN Len(chars) ELSE first - 1
  OBVIOUS
<1>7. size = (m * 6) \div 8
  OBVIOUS
<1>8. first = CHOOSE k \in special : \A l \in special : k <= l
  OBVIOUS
<1> HIDE DEF n, chars, special, first, reach, m, size, rd
<1>9. /\ n \in Nat /\ Len(chars) \in Nat /\ n <= Len(chars)
      /\ \A k \in 1..n : chars[k] = Base64!Character(DigitAt(bytes, k), url)
      /\ \A k \in (n + 1)..Len(chars) : chars[k] = 66
  BY ONLY <1>3, <1>4, <1>5, TextIs
<1>10. Len(bytes) \in Nat /\ (n * 6) \div 8 = Len(bytes)
  BY ONLY <1>3, <1>4, LenProperties, DigitsAndBytes
<1>11. \A k \in 1..n : DigitAt(bytes, k) \in 0..63
  <2> SUFFICES ASSUME NEW k \in 1..n PROVE DigitAt(bytes, k) \in 0..63
    OBVIOUS
  <2>1. k \in Nat /\ k >= 1
    BY <1>9
  <2> QED
    BY <2>1, DigitsInRange
<1>12. special # {} => first \in special /\ \A l \in special : first <= l
  <2>1. special \subseteq Nat
    BY ONLY <1>9, <1>1
  <2> QED
    BY ONLY <2>1, <1>8, Least
<1>13. special \subseteq 1..n
  BY ONLY <1>9, <1>1
<1>14. /\ m \in 0..n /\ m <= Len(chars)
       /\ special # {} => m = first - 1 /\ first \in 1..n
  <2>1. CASE special = {}
    BY ONLY <1>9, <1>2, <2>1
  <2>2. CASE special # {}
    <3>1. first \in 1..n /\ m = first - 1
      BY ONLY <1>12, <1>13, <1>2, <2>2
    <3> QED
      BY ONLY <1>9, <3>1
  <2> QED
    BY <2>1, <2>2
<1>15. \A k \in 1..m : /\ Base64!IsBase64(chars[k])
                       /\ Base64!Find(chars[k], url) = DigitAt(bytes, k)
  <2> SUFFICES ASSUME NEW k \in 1..m
               PROVE  /\ Base64!IsBase64(chars[k])
                      /\ Base64!Find(chars[k], url) = DigitAt(bytes, k)
    OBVIOUS
  <2>1. k \in 1..n /\ k \in 1..Len(chars) /\ ~(k \in special)
    <3>1. k \in 1..n /\ k \in 1..Len(chars)
      BY ONLY k \in 1..m, <1>9, <1>14
    <3>2. special # {} => k < first
      BY ONLY k \in 1..m, <1>9, <1>14
    <3>3. ASSUME k \in special PROVE FALSE
      <4>1. first <= k /\ k < first
        BY ONLY <3>2, <3>3, <1>12
      <4> QED
        BY ONLY <4>1, <1>14, <3>1, <3>3
    <3> QED
      BY <3>1, <3>3
  <2>2. chars[k] = Base64!Character(DigitAt(bytes, k), url) /\ DigitAt(bytes, k) \in 0..63
    BY ONLY <1>9, <1>11, <2>1
  <2>3. ~(chars[k] \in {64, 65})
    BY ONLY <1>1, <2>1
  <2>4. url /\ DigitAt(bytes, k) < 62
          => Base64!IsBase64(chars[k]) /\ Base64!Find(chars[k], url) = DigitAt(bytes, k)
    BY ONLY <2>2, <1>4, CharacterIs
  <2>5. url /\ ~(DigitAt(bytes, k) < 62) => chars[k] \in {64, 65}
    BY ONLY <2>2, <1>4, CharacterIs
  <2> QED
    BY <2>3, <2>4, <2>5
<1>16. m < Len(chars) => ~Base64!IsBase64(chars[m + 1])
  <2>1. ~Base64!IsBase64(64) /\ ~Base64!IsBase64(65) /\ ~Base64!IsBase64(66)
    BY ONLY 64 \in Int DEF Base64!IsBase64
  <2>2. m < Len(chars) => chars[m + 1] \in {64, 65, 66}
    <3>1. CASE special = {}
      BY ONLY <1>9, <1>2, <3>1
    <3>2. CASE special # {}
      <4>1. m = first - 1 /\ first \in 1..n /\ first \in special
        BY ONLY <1>12, <1>14, <3>2
      <4>2. chars[first] \in {64, 65}
        BY ONLY <1>1, <4>1
      <4>3. m + 1 = first
        BY ONLY <1>9, <4>1
      <4> QED
        BY ONLY <4>2, <4>3
    <3> QED
      BY <3>1, <3>2
  <2> QED
    BY ONLY <2>1, <2>2
<1>17. m \in 0..((Len(bytes) * 8 + 5) \div 6)
  BY ONLY <1>14, <1>3
<1>18. size \in 0..Len(bytes) /\ rd = [k \in 1..size |-> bytes[k]]
  <2>1. /\ (m * 6) \div 8 \in 0..Len(bytes)
        /\ Base64!Decode(chars, url) = [k \in 1..((m * 6) \div 8) |-> bytes[k]]
    <3>1. Spells(chars, m, bytes, url)
      BY ONLY <1>9, <1>14, <1>15, <1>16, <1>17 DEF Spells
    <3> QED
      BY ONLY <1>4, <3>1, DecodedIs
  <2> QED
    BY ONLY <1>5, <1>7, <2>1
<1>19. Len(rd) = size
  BY ONLY <1>10, <1>18
<1>20. rd = SubSeq(bytes, 1, size)
  BY ONLY <1>10, <1>18
<1>21. special = {} => rd = bytes
  BY ONLY <1>10, <1>2, <1>4, <1>7, <1>18, WholeSeq
<1>22. special # {} => Len(rd) = (reach * 6) \div 8
  BY ONLY <1>2, <1>6, <1>7, <1>19
<1> QED
  BY <1>19, <1>20, <1>21, <1>22 DEF chars, rd, special, reach, first

\* Of any bytes, of any length.
LEMMA BytesHold ==
  ASSUME NEW bytes \in Seq(Base64!Bytes)
  PROVE  Base64!DecodedIsEncoded(bytes)
<1>1. bytes \in Seq(Base64!Bytes)
  BY DEF Base64!Bytes
<1> QED
  BY <1>1, PlainIsRead, UrlIsRead DEF Base64!DecodedIsEncoded

\* What one side writes, the other reads: the fields of a token that verifies, and
\* the bytes of a text of base64 (jsonwebtokens.h:106, base64.cpp:36, 93).
THEOREM WrittenIsReadHolds == LibrarySpec => []WrittenIsRead
<1>1. subject = "bytes" /\ input \in ByteStrings => Base64!DecodedIsEncoded(input)
  BY LibraryAssumption, BytesHold
<1> DEFINE InputIs == subject = "bytes" => input \in ByteStrings
<1>2. LibrarySpec => []InputIs
  BY InputStays, PTL
<1>3. InputIs /\ JsonWebToken!ReadIsWritten => WrittenIsRead
  BY <1>1 DEF WrittenIsRead
<1> QED
  BY <1>2, <1>3, LibraryRunsItsParts, TokenHolds, PTL

-----------------------------------------------------------------------------
(* RedisClient, of a server that refuses no command without a reason *)

\* The value of the key the call is about.
TheValue == store[call.key]

\* Where a call may be, by its operation.
Underway ==
  \/ at = Redis!First[call.op]
  \/ call.op = "hset" /\ at \in {"DEL", "HSET"}
  \/ call.op \in {"set", "hset"} /\ at = "EXPIRE" /\ call.expire

\* What a call has done when it is about to send its next command.
DoneSoFar ==
  /\ at = Redis!First[call.op] => TheValue = found
  /\ call.op = "hset" /\ at = "HSET" /\ context = "ok" => TheValue.type # "string"
  /\ call.op = "set" /\ at = "EXPIRE" => TheValue.type = "string"
  /\ call.op = "hset" /\ at = "EXPIRE" => call.field \in TheValue.fields

CallInv ==
  /\ store \in [Keys -> Redis!Value] /\ call \in Redis!Call
  /\ at \in Redis!Command \cup {"idle", "destroyed", "crashed"}
  /\ at \in Redis!Command => Underway /\ returned = "none"
  /\ at \in Redis!Command /\ ~touched => DoneSoFar
  /\ Redis!TrueMeansDone

\* The commands.
LEMMA Commands ==
  /\ Redis!Command = {"TYPE", "GET", "SET", "DEL", "EXPIRE", "HDEL", "HGET", "HKEYS", "HSET"}
  /\ Redis!Op = {"type", "get", "set", "del", "expire", "hset", "hdel", "hget", "hkeys"}
  /\ Redis!First["type"] = "TYPE" /\ Redis!First["get"] = "GET" /\ Redis!First["set"] = "SET"
  /\ Redis!First["del"] = "DEL" /\ Redis!First["expire"] = "EXPIRE"
  /\ Redis!First["hset"] = "TYPE" /\ Redis!First["hdel"] = "HDEL"
  /\ Redis!First["hget"] = "HGET" /\ Redis!First["hkeys"] = "HKEYS"
<1>1. /\ Redis!Op = {"type", "get", "set", "del", "expire", "hset", "hdel", "hget", "hkeys"}
      /\ Redis!First["type"] = "TYPE" /\ Redis!First["get"] = "GET" /\ Redis!First["set"] = "SET"
      /\ Redis!First["del"] = "DEL" /\ Redis!First["expire"] = "EXPIRE"
      /\ Redis!First["hset"] = "TYPE" /\ Redis!First["hdel"] = "HDEL"
      /\ Redis!First["hget"] = "HGET" /\ Redis!First["hkeys"] = "HKEYS"
  BY DEF Redis!Op, Redis!First
<1> QED
  BY <1>1 DEF Redis!Command

\* A value has its fields, and only a hash has any.
LEMMA ValueIs ==
  ASSUME NEW v \in Redis!Value
  PROVE  /\ v.type \in {"none", "string", "hash"} /\ v.fields \in SUBSET Fields
         /\ v.expires \in BOOLEAN
         /\ v = [type |-> v.type, fields |-> v.fields, expires |-> v.expires]
         /\ v.type = "hash" <=> v.fields # {}
         /\ v.type = "none" <=> v = Redis!Absent
<1>1. CASE v = Redis!Absent
  BY <1>1 DEF Redis!Absent
<1>2. CASE v \in [type: {"string"}, fields: {{}}, expires: BOOLEAN]
  BY <1>2 DEF Redis!Absent
<1>3. CASE v \in [type: {"hash"}, fields: (SUBSET Fields) \ {{}}, expires: BOOLEAN]
  BY <1>3 DEF Redis!Absent
<1> QED
  BY <1>1, <1>2, <1>3 DEF Redis!Value

\* A command keeps a value a value.
LEMMA AfterIsValue ==
  ASSUME NEW v \in Redis!Value, NEW f \in Fields, NEW c \in Redis!Command
  PROVE  Redis!After(c, v, f) \in Redis!Value
<1>1. /\ v.type \in {"none", "string", "hash"} /\ v.fields \in SUBSET Fields
      /\ v.expires \in BOOLEAN
      /\ v = [type |-> v.type, fields |-> v.fields, expires |-> v.expires]
      /\ v.type = "hash" <=> v.fields # {}
      /\ v.type = "none" <=> v = Redis!Absent
  BY ValueIs
<1>2. Redis!Absent \in Redis!Value
  BY DEF Redis!Value
<1>3. \A b \in BOOLEAN : [type |-> "string", fields |-> {}, expires |-> b] \in Redis!Value
  BY DEF Redis!Value
<1>4. \A b \in BOOLEAN : \A s \in SUBSET Fields :
        s # {} => [type |-> "hash", fields |-> s, expires |-> b] \in Redis!Value
  BY DEF Redis!Value
<1>5. CASE c = "EXPIRE" /\ v # Redis!Absent
  <2>1. Redis!After(c, v, f) = [type |-> v.type, fields |-> v.fields, expires |-> TRUE]
    BY <1>1, <1>5 DEF Redis!After
  <2>2. (v.type = "string" /\ v.fields = {}) \/ (v.type = "hash" /\ v.fields # {})
    BY <1>1, <1>5
  <2> QED
    BY <1>1, <1>3, <1>4, <2>1, <2>2
<1>6. CASE c = "HSET" /\ v.type # "string"
  <2>1. Redis!After(c, v, f) = [type |-> "hash", fields |-> v.fields \cup {f}, expires |-> v.expires]
    BY <1>1, <1>6 DEF Redis!After
  <2> QED
    BY <1>1, <1>4, <2>1
<1>7. CASE c = "HDEL" /\ v.type = "hash"
  <2>1. [v EXCEPT !.fields = @ \ {f}]
          = [type |-> "hash", fields |-> v.fields \ {f}, expires |-> v.expires]
    BY <1>1, <1>7
  <2>2. ~(v.fields \subseteq {f}) => [v EXCEPT !.fields = @ \ {f}] \in Redis!Value
    BY <1>1, <1>4, <2>1
  <2> QED
    BY <1>2, <1>7, <2>2 DEF Redis!After
<1> QED
  BY <1>2, <1>3, <1>5, <1>6, <1>7 DEF Redis!After

\* What each command does of which a call tells more than that it was answered.
LEMMA CommandEffects ==
  ASSUME NEW v \in Redis!Value, NEW f \in Fields
  PROVE  /\ \A c \in {"TYPE", "GET", "HGET", "HKEYS"} : Redis!After(c, v, f) = v
         /\ Redis!After("SET", v, f).type = "string" /\ Redis!After("SET", v, f).expires = FALSE
         /\ Redis!After("DEL", v, f) = Redis!Absent /\ Redis!Absent.type = "none"
         /\ f \notin Redis!After("HDEL", v, f).fields
         /\ v.type # "string" => f \in Redis!After("HSET", v, f).fields
         /\ Redis!After("EXPIRE", v, f) = Redis!Absent \/ Redis!After("EXPIRE", v, f).expires
         /\ v.type = "string" => /\ Redis!After("EXPIRE", v, f).type = "string"
                                 /\ Redis!After("EXPIRE", v, f).expires = TRUE
         /\ f \in v.fields => /\ f \in Redis!After("EXPIRE", v, f).fields
                              /\ Redis!After("EXPIRE", v, f).expires
<1>1. /\ v.type \in {"none", "string", "hash"} /\ v.fields \in SUBSET Fields
      /\ v.expires \in BOOLEAN
      /\ v = [type |-> v.type, fields |-> v.fields, expires |-> v.expires]
      /\ v.type = "hash" <=> v.fields # {}
      /\ v.type = "none" <=> v = Redis!Absent
  BY ValueIs
<1>2. v.type = "hash" \/ v.fields = {}
  BY <1>1
<1>3. Redis!Absent.type = "none" /\ Redis!Absent.fields = {}
  BY DEF Redis!Absent
<1>4. \A c \in {"TYPE", "GET", "HGET", "HKEYS"} : Redis!After(c, v, f) = v
  BY DEF Redis!After
<1>5. Redis!After("SET", v, f).type = "string" /\ Redis!After("SET", v, f).expires = FALSE
  BY DEF Redis!After
<1>6. Redis!After("DEL", v, f) = Redis!Absent
  BY DEF Redis!After
<1>7. f \notin Redis!After("HDEL", v, f).fields
  BY <1>1, <1>2, <1>3 DEF Redis!After
<1>8. v.type # "string" => f \in Redis!After("HSET", v, f).fields
  BY <1>1 DEF Redis!After
<1>9. v # Redis!Absent =>
        Redis!After("EXPIRE", v, f) = [type |-> v.type, fields |-> v.fields, expires |-> TRUE]
  BY <1>1 DEF Redis!After
<1>10. v = Redis!Absent => Redis!After("EXPIRE", v, f) = Redis!Absent
  BY <1>1 DEF Redis!After
<1> QED
  BY <1>3, <1>4, <1>5, <1>6, <1>7, <1>8, <1>9, <1>10

\* Where a call goes from a command, and what it returns where.
LEMMA CallMoves ==
  ASSUME NEW r, NEW seen, Redis!Goes(at, r, seen),
         call \in Redis!Call, at \in Redis!Command, Underway, call' = call
  PROVE  /\ at' \in {"idle", "HSET", "DEL", "EXPIRE"}
         /\ at' # "idle" => Underway' /\ returned' = "none" /\ at' # Redis!First[call.op]
         /\ at' = "HSET" => (at = "TYPE" /\ Redis!RightType(seen)) \/ at = "DEL"
         /\ at' = "EXPIRE" => r # "null" /\ \/ call.op = "set" /\ at = "SET"
                                            \/ call.op = "hset" /\ at = "HSET"
         /\ returned' = "true" =>
              /\ r # "null"
              /\ call.op \notin {"set", "hset"} => at = Redis!First[call.op]
              /\ call.op = "set" => at = IF call.expire THEN "EXPIRE" ELSE "SET"
              /\ call.op = "hset" => at = IF call.expire THEN "EXPIRE" ELSE "HSET"
<1>1. call.op \in Redis!Op /\ (call.expire => call.op \in {"set", "hset"})
  BY DEF Redis!Call
<1>2. CASE call.op = "hset" /\ at = "TYPE"
  <2>1. at' = (IF Redis!RightType(seen) THEN "HSET" ELSE "DEL") /\ returned' = "none"
    BY <1>2 DEF Redis!Goes
  <2> QED
    BY <1>2, <2>1, Commands DEF Underway
<1>3. CASE call.op = "hset" /\ at = "DEL"
  <2>1. at' = "HSET" /\ returned' = "none"
    BY <1>3 DEF Redis!Goes
  <2> QED
    BY <1>3, <2>1, Commands DEF Underway
<1>4. CASE ~(call.op = "hset" /\ at \in {"TYPE", "DEL"}) /\ Redis!Fails(r)
  <2>1. at' = "idle" /\ returned' = "false"
    BY <1>4 DEF Redis!Goes, Redis!Returns
  <2> QED
    BY <2>1
<1>5. CASE /\ ~(call.op = "hset" /\ at \in {"TYPE", "DEL"}) /\ ~Redis!Fails(r)
           /\ at \in {"SET", "HSET"} /\ call.expire
  <2>1. at' = "EXPIRE" /\ returned' = "none"
    BY <1>5 DEF Redis!Goes
  <2>2. (call.op = "set" /\ at = "SET") \/ (call.op = "hset" /\ at = "HSET")
    BY <1>1, <1>5, Commands DEF Underway
  <2> QED
    BY <1>5, <2>1, <2>2, Commands DEF Underway, Redis!Fails
<1>6. CASE /\ ~(call.op = "hset" /\ at \in {"TYPE", "DEL"}) /\ ~Redis!Fails(r)
           /\ ~(at \in {"SET", "HSET"} /\ call.expire)
  <2>1. at' = "idle" /\ r # "null"
    BY <1>6 DEF Redis!Goes, Redis!Returns, Redis!Fails
  <2>2. call.op \notin {"set", "hset"} => at = Redis!First[call.op]
    BY DEF Underway
  <2>3. call.op = "set" => at = IF call.expire THEN "EXPIRE" ELSE "SET"
    BY <1>6, Commands DEF Underway
  <2>4. call.op = "hset" => at = IF call.expire THEN "EXPIRE" ELSE "HSET"
    BY <1>6, Commands DEF Underway
  <2> QED
    BY <2>1, <2>2, <2>3, <2>4
<1> QED
  BY <1>2, <1>3, <1>4, <1>5, <1>6

\* A command was answered.
LEMMA AnsweredStep ==
  ASSUME CallInv, Redis!Answered, UNCHANGED <<call, found, touched>>
  PROVE  CallInv'
<1> DEFINE v == TheValue
           w == TheValue'
           f == call.field
           r == Redis!Reply(at, v, f)
<1>1. /\ call \in Redis!Call /\ call.key \in Keys /\ f \in Fields /\ call.op \in Redis!Op
      /\ call.expire \in BOOLEAN
  BY DEF CallInv, Redis!Call
<1>2. /\ at \in Redis!Command /\ Underway /\ context = "ok" /\ context' = "ok"
      /\ store \in [Keys -> Redis!Value]
  BY DEF CallInv, Redis!Answered
<1>3. v \in Redis!Value /\ Redis!After(at, v, f) \in Redis!Value
  BY <1>1, <1>2, AfterIsValue DEF TheValue
<1>4. store' = [store EXCEPT ![call.key] = Redis!After(at, v, f)] /\ w = Redis!After(at, v, f)
  BY <1>1, <1>2 DEF Redis!Answered, Redis!Executes, TheValue
<1>5. store' \in [Keys -> Redis!Value]
  BY <1>2, <1>3, <1>4
<1>6. Redis!Goes(at, r, v.type) /\ call' = call
  BY DEF Redis!Answered, TheValue
<1> HIDE DEF v, w, f, r
<1>7. /\ at' \in {"idle", "HSET", "DEL", "EXPIRE"}
      /\ at' # "idle" => Underway' /\ returned' = "none" /\ at' # Redis!First[call.op]
      /\ at' = "HSET" => (at = "TYPE" /\ Redis!RightType(v.type)) \/ at = "DEL"
      /\ at' = "EXPIRE" => \/ call.op = "set" /\ at = "SET"
                           \/ call.op = "hset" /\ at = "HSET"
      /\ returned' = "true" =>
           /\ call.op \notin {"set", "hset"} => at = Redis!First[call.op]
           /\ call.op = "set" => at = IF call.expire THEN "EXPIRE" ELSE "SET"
           /\ call.op = "hset" => at = IF call.expire THEN "EXPIRE" ELSE "HSET"
  BY <1>1, <1>2, <1>6, CallMoves
<1>8. /\ at \in {"TYPE", "GET", "HGET", "HKEYS"} => w = v
      /\ at = "SET" => w.type = "string" /\ w.expires = FALSE
      /\ at = "DEL" => w = Redis!Absent /\ w.type = "none"
      /\ at = "HDEL" => f \notin w.fields
      /\ at = "HSET" /\ v.type # "string" => f \in w.fields
      /\ at = "EXPIRE" => /\ w = Redis!Absent \/ w.expires
                          /\ v.type = "string" => w.type = "string" /\ w.expires = TRUE
                          /\ f \in v.fields => f \in w.fields /\ w.expires
  <2>1. f \in Fields
    BY <1>1
  <2>2. /\ \A c \in {"TYPE", "GET", "HGET", "HKEYS"} : Redis!After(c, v, f) = v
        /\ Redis!After("SET", v, f).type = "string" /\ Redis!After("SET", v, f).expires = FALSE
        /\ Redis!After("DEL", v, f) = Redis!Absent /\ Redis!Absent.type = "none"
        /\ f \notin Redis!After("HDEL", v, f).fields
        /\ v.type # "string" => f \in Redis!After("HSET", v, f).fields
        /\ Redis!After("EXPIRE", v, f) = Redis!Absent \/ Redis!After("EXPIRE", v, f).expires
        /\ v.type = "string" => /\ Redis!After("EXPIRE", v, f).type = "string"
                                /\ Redis!After("EXPIRE", v, f).expires = TRUE
        /\ f \in v.fields => /\ f \in Redis!After("EXPIRE", v, f).fields
                             /\ Redis!After("EXPIRE", v, f).expires
    BY ONLY <2>1, <1>3, CommandEffects
  <2> QED
    BY ONLY <2>2, <1>4, Zenon
<1>9. ~touched => DoneSoFar
  BY <1>2 DEF CallInv
<1>10. ASSUME ~touched', at' \in Redis!Command PROVE DoneSoFar'
  <2>1. at' = "HSET" => w.type # "string"
    <3>1. at = "TYPE" /\ Redis!RightType(v.type) => w.type # "string"
      BY <1>1, <1>8 DEF Redis!RightType
    <3>2. at = "DEL" => w.type # "string"
      BY <1>8
    <3> QED
      BY <1>7, <3>1, <3>2
  <2>2. at' = "EXPIRE" /\ call.op = "set" => w.type = "string"
    BY <1>7, <1>8
  <2>3. at' = "EXPIRE" /\ call.op = "hset" => f \in w.fields
    <3>1. call.op = "hset" /\ at = "HSET" => v.type # "string"
      BY <1>2, <1>9, <1>10 DEF DoneSoFar, v
    <3> QED
      BY <1>7, <1>8, <3>1
  <2>4. at' # Redis!First[call.op]
    BY <1>7, <1>10, Commands
  <2> QED
    BY <1>6, <2>1, <2>2, <2>3, <2>4 DEF DoneSoFar, w, f
<1>11. Redis!TrueMeansDone'
  <2> SUFFICES ASSUME returned' = "true", ~touched'
               PROVE  CASE call.op = "set" -> w.type = "string" /\ w.expires = call.expire
                        [] call.op = "hset" -> f \in w.fields /\ (call.expire => w.expires)
                        [] call.op = "del" -> w = Redis!Absent
                        [] call.op = "hdel" -> f \notin w.fields
                        [] call.op = "expire" -> w = Redis!Absent \/ w.expires
                        [] OTHER -> w = found
    BY <1>6 DEF Redis!TrueMeansDone, TheValue, w, f
  <2>1. CASE call.op = "set" /\ call.expire = FALSE
    BY <1>1, <1>7, <1>8, <2>1
  <2>2. CASE call.op = "set" /\ call.expire = TRUE
    <3>1. v.type = "string" /\ at = "EXPIRE"
      BY <1>7, <1>9, <2>2 DEF DoneSoFar, v
    <3> QED
      BY <1>8, <2>2, <3>1
  <2>3. CASE call.op = "hset" /\ ~call.expire
    <3>1. v.type # "string" /\ at = "HSET"
      BY <1>2, <1>7, <1>9, <2>3 DEF DoneSoFar, v
    <3> QED
      BY <1>8, <2>3, <3>1
  <2>4. CASE call.op = "hset" /\ call.expire
    <3>1. f \in v.fields /\ at = "EXPIRE"
      BY <1>7, <1>9, <2>4 DEF DoneSoFar, v, f
    <3> QED
      BY <1>8, <2>4, <3>1
  <2>5. CASE call.op \in {"del", "hdel", "expire"}
    BY <1>1, <1>7, <1>8, <2>5, Commands
  <2>6. CASE call.op \in {"type", "get", "hget", "hkeys"}
    <3>1. at \in {"TYPE", "GET", "HGET", "HKEYS"} /\ at = Redis!First[call.op]
      BY <1>7, <2>6, Commands
    <3>2. w = v /\ v = found
      BY <1>9, <1>8, <3>1 DEF DoneSoFar, v
    <3> QED
      BY <2>6, <3>2
  <2> QED
    BY <1>1, <2>1, <2>2, <2>3, <2>4, <2>5, <2>6, Commands
<1> QED
  BY <1>1, <1>5, <1>6, <1>7, <1>10, <1>11, Commands DEF CallInv

\* A command was not: the call goes on, or returns false, with a context in error.
LEMMA UnansweredStep ==
  ASSUME CallInv, Redis!Unanswered, UNCHANGED <<call, found, touched>>
  PROVE  CallInv'
<1>1. call \in Redis!Call /\ call.key \in Keys /\ call.field \in Fields
  BY DEF CallInv, Redis!Call
<1>2. /\ at \in Redis!Command /\ Underway /\ store \in [Keys -> Redis!Value]
      /\ context' = "err" /\ Redis!Goes(at, "null", "") /\ call' = call
  BY DEF CallInv, Redis!Unanswered
<1>3. /\ at' \in {"idle", "HSET", "DEL"}
      /\ at' # "idle" => Underway' /\ returned' = "none" /\ at' # Redis!First[call.op]
      /\ returned' # "true"
  <2>1. "null" = "null" /\ ~("null" # "null")
    OBVIOUS
  <2> QED
    BY <1>1, <1>2, <2>1, CallMoves
<1>4. store' \in [Keys -> Redis!Value]
  <2>1. Redis!After(at, store[call.key], call.field) \in Redis!Value
    BY <1>1, <1>2, AfterIsValue
  <2> QED
    BY <1>2, <2>1 DEF Redis!Unanswered, Redis!Executes
<1>5. at' \in Redis!Command => DoneSoFar'
  BY <1>2, <1>3, Commands DEF DoneSoFar
<1>6. Redis!TrueMeansDone'
  BY <1>3 DEF Redis!TrueMeansDone
<1> QED
  BY <1>1, <1>2, <1>3, <1>4, <1>5, <1>6, Commands DEF CallInv

\* Nothing else disturbs a call, except the writes of others, of which touched tells.
LEMMA CallStep == ASSUME ~ErrorReplies PROVE CallInv /\ [Redis!Next]_(Redis!redisVars) => CallInv'
<1> SUFFICES ASSUME CallInv, [Redis!Next]_(Redis!redisVars) PROVE CallInv'
  OBVIOUS
<1>1. ASSUME NEW c \in Redis!Call, Redis!StartCall(c) PROVE CallInv'
  <2>1. /\ call' = c /\ found' = store[c.key] /\ touched' = FALSE /\ store' = store
        /\ returned' \in {"none", "false"}
        /\ \/ at' \in {"idle", "crashed"}
           \/ at' = Redis!First[c.op] /\ returned' = "none"
    BY <1>1 DEF Redis!StartCall, Redis!CallConnected, Redis!CallBlocked, Redis!CallRefused,
       Redis!CallConnects, Redis!CallCrashes, Redis!Enter, Redis!Returns
  <2>2. c.op \in Redis!Op /\ Redis!First[c.op] \in Redis!Command /\ store \in [Keys -> Redis!Value]
    BY Commands DEF CallInv, Redis!Call
  <2>3. Redis!First[c.op] \notin {"HSET", "idle", "crashed"}
        /\ (c.op \in {"set", "hset"} => Redis!First[c.op] # "EXPIRE")
    BY <2>2, Commands
  <2>4. at' \in Redis!Command => Underway' /\ DoneSoFar'
    BY <2>1, <2>3, Commands DEF Underway, DoneSoFar, TheValue
  <2>5. Redis!TrueMeansDone'
    BY <2>1 DEF Redis!TrueMeansDone
  <2> QED
    BY <1>1, <2>1, <2>2, <2>4, <2>5, Commands DEF CallInv
<1>2. CASE Redis!CommandStep
  BY <1>2, AnsweredStep, UnansweredStep DEF Redis!CommandStep, Redis!RefusedForNow
<1>3. CASE Redis!Destroy
  <2>1. CallInv /\ UNCHANGED <<store, call, returned, found, touched>> /\ at' = "destroyed"
    BY <1>3 DEF Redis!Destroy
  <2>2. Redis!TrueMeansDone'
    BY <2>1 DEF CallInv, Redis!TrueMeansDone
  <2> QED
    BY <2>1, <2>2, Commands DEF CallInv
<1>4. CASE UNCHANGED <<store, call, at, returned, found, touched, context>>
  <2>1. UNCHANGED TheValue /\ (DoneSoFar => DoneSoFar')
    BY <1>4 DEF TheValue, DoneSoFar
  <2>2. (Underway => Underway') /\ (Redis!TrueMeansDone => Redis!TrueMeansDone')
    BY <1>4 DEF Underway, Redis!TrueMeansDone
  <2> QED
    BY <1>4, <2>1, <2>2 DEF CallInv
<1>5. ASSUME NEW k \in Keys, Redis!OthersWrite(k) \/ Redis!KeyExpires(k) PROVE CallInv'
  <2>1. PICK v \in Redis!Value :
          store' = [store EXCEPT ![k] = v] /\ touched' = (touched \/ k = call.key)
    BY <1>5 DEF Redis!OthersWrite, Redis!KeyExpires, Redis!Changes, Redis!Value
  <2>2. UNCHANGED <<call, at, returned, found, context>>
    BY <1>5 DEF Redis!OthersWrite, Redis!KeyExpires
  <2>3. store' \in [Keys -> Redis!Value] /\ (~touched' => ~touched /\ UNCHANGED TheValue)
    BY <2>1, <2>2 DEF CallInv, TheValue, Redis!Call
  <2>4. ~touched' /\ DoneSoFar => DoneSoFar'
    BY <2>2, <2>3 DEF DoneSoFar
  <2>5. Underway => Underway'
    BY <2>2 DEF Underway
  <2>6. Redis!TrueMeansDone'
    BY <2>2, <2>3 DEF CallInv, Redis!TrueMeansDone, TheValue
  <2> QED
    BY <2>2, <2>3, <2>4, <2>5, <2>6 DEF CallInv
<1>6. CASE Redis!LinkLost \/ Redis!ServerStops \/ Redis!ServerStarts \/ Redis!Tick
  BY <1>4, <1>6 DEF Redis!LinkLost, Redis!ServerStops, Redis!ServerStarts, Redis!Tick
<1>7. CASE UNCHANGED Redis!redisVars
  BY <1>4, <1>7 DEF Redis!redisVars
<1> QED
  BY <1>1, <1>2, <1>3, <1>5, <1>6, <1>7 DEF Redis!Next, Redis!Environment

LEMMA CallBegins == Redis!Init => CallInv
<1> SUFFICES ASSUME Redis!Init PROVE CallInv
  OBVIOUS
<1>1. /\ store \in [Keys -> Redis!Value] /\ at = "idle" /\ returned = "none"
      /\ call \in [op: {"get"}, key: Keys, field: Fields, expire: {FALSE}]
  BY DEF Redis!Init
<1>2. call \in Redis!Call
  BY <1>1, Commands DEF Redis!Call
<1> QED
  BY <1>1, <1>2, Commands DEF CallInv, Redis!TrueMeansDone

\* A call that returned true did what it was asked, on any keys and fields and with
\* any losses: every command of it was answered (redisclient.cpp:86, 118-256).  The
\* assumption is what HSET needs: an error is a reply like any other.
THEOREM TrueMeansDoneHolds ==
  ASSUME ~ErrorReplies PROVE LibrarySpec => []TrueMeansDone
<1>2. CallInv => TrueMeansDone
  BY DEF CallInv, TrueMeansDone
<1>3. Redis!Spec => []CallInv
  BY CallBegins, CallStep, PTL DEF Redis!Spec
<1> QED
  BY <1>2, <1>3, LibraryRunsItsParts, PTL

\* A step from a context in error leaves it so and no call succeeds.
THEOREM BrokenForGoodHolds == LibrarySpec => BrokenForGood
<1> DEFINE Stays == context = "err" /\ at' # "destroyed" =>
                      context' = "err" /\ (returned' = "true" => returned = "true")
<1>1. [Redis!Next]_(Redis!redisVars) => [Stays]_(Redis!redisVars)
  <2> SUFFICES ASSUME Redis!Next, context = "err", at' # "destroyed"
               PROVE  context' = "err" /\ (returned' = "true" => returned = "true")
    OBVIOUS
  <2>1. ASSUME NEW c \in Redis!Call, Redis!StartCall(c)
        PROVE  context' = "err" /\ returned' = "none"
    BY <2>1 DEF Redis!StartCall, Redis!CallConnected, Redis!CallBlocked, Redis!CallRefused,
       Redis!CallConnects, Redis!CallCrashes, Redis!Disconnected
  <2>2. CASE Redis!CommandStep
    <3>1. context' = "err" /\ Redis!Goes(at, "null", "")
      BY <2>2 DEF Redis!CommandStep, Redis!Answered, Redis!RefusedForNow, Redis!Unanswered
    <3>2. returned' \in {"none", "false"}
      BY <3>1 DEF Redis!Goes, Redis!Fails, Redis!Returns
    <3> QED
      BY <3>1, <3>2
  <2>3. CASE Redis!Destroy
    BY <2>3 DEF Redis!Destroy
  <2>4. CASE Redis!Environment
    BY <2>4 DEF Redis!Environment, Redis!OthersWrite, Redis!KeyExpires, Redis!LinkLost,
       Redis!ServerStops, Redis!ServerStarts, Redis!Tick
  <2> QED
    BY <2>1, <2>2, <2>3, <2>4 DEF Redis!Next
<1>2. Redis!Spec => Redis!BrokenForGood
  BY <1>1, PTL DEF Redis!Spec, Redis!BrokenForGood
<1> QED
  BY <1>2, LibraryRunsItsParts DEF BrokenForGood

\* What hset() found in a hash is there still, and it deletes it only in vain.
HashInv ==
  call.op = "hset" /\ found.type = "hash" /\ ~touched =>
    found.fields \subseteq TheValue.fields /\ (at = "DEL" => context = "err")

\* The commands that hset() sends lose no field, the deletion apart.
LEMMA FieldsStay ==
  ASSUME NEW v \in Redis!Value, NEW f \in Fields, NEW c \in {"TYPE", "HSET", "EXPIRE"}
  PROVE  v.fields \subseteq Redis!After(c, v, f).fields
<1>1. /\ v.type \in {"none", "string", "hash"}
      /\ v = [type |-> v.type, fields |-> v.fields, expires |-> v.expires]
  BY ValueIs
<1>2. CASE c = "TYPE"
  BY <1>2 DEF Redis!After
<1>3. CASE c = "HSET"
  <2>1. v.type # "string" => Redis!After(c, v, f)
          = [type |-> "hash", fields |-> v.fields \cup {f}, expires |-> v.expires]
    BY <1>1, <1>3 DEF Redis!After
  <2>2. v.type = "string" => Redis!After(c, v, f) = v
    BY <1>3 DEF Redis!After
  <2> QED
    BY <2>1, <2>2
<1>4. CASE c = "EXPIRE"
  <2>1. v # Redis!Absent => Redis!After(c, v, f)
          = [type |-> v.type, fields |-> v.fields, expires |-> TRUE]
    BY <1>1, <1>4 DEF Redis!After
  <2>2. v = Redis!Absent => Redis!After(c, v, f) = v
    BY <1>4 DEF Redis!After
  <2> QED
    BY <2>1, <2>2
<1> QED
  BY <1>2, <1>3, <1>4

LEMMA HashStep ==
  ASSUME ~ErrorReplies
  PROVE  CallInv /\ HashInv /\ [Redis!Next]_(Redis!redisVars) => HashInv'
<1> SUFFICES ASSUME CallInv, HashInv, [Redis!Next]_(Redis!redisVars),
                    call'.op = "hset", found'.type = "hash", ~touched'
             PROVE  found'.fields \subseteq TheValue'.fields /\ (at' = "DEL" => context' = "err")
  BY DEF HashInv
<1>1. ASSUME NEW c \in Redis!Call, Redis!StartCall(c)
      PROVE  found'.fields \subseteq TheValue'.fields /\ (at' = "DEL" => context' = "err")
  <2>1. /\ call' = c /\ found' = store[c.key] /\ store' = store
        /\ at' \in {"idle", "crashed"} \/ at' = Redis!First[c.op]
    BY <1>1 DEF Redis!StartCall, Redis!CallConnected, Redis!CallBlocked, Redis!CallRefused,
       Redis!CallConnects, Redis!CallCrashes, Redis!Enter, Redis!Returns
  <2> QED
    BY <2>1, Commands DEF TheValue
<1>2. CASE Redis!CommandStep
  <2>1. UNCHANGED <<call, found, touched>> /\ at \in Redis!Command
    BY <1>2 DEF Redis!CommandStep, Redis!Answered, Redis!RefusedForNow, Redis!Unanswered
  <2>2. found.fields \subseteq TheValue.fields /\ (at = "DEL" => context = "err")
    BY <2>1 DEF HashInv
  <2>3. /\ call \in Redis!Call /\ call.key \in Keys /\ call.field \in Fields
        /\ TheValue \in Redis!Value /\ Underway /\ DoneSoFar /\ store \in [Keys -> Redis!Value]
    BY <2>1 DEF CallInv, Redis!Call, TheValue
  <2>4. at \in {"TYPE", "DEL", "HSET", "EXPIRE"}
    BY <2>1, <2>3, Commands DEF Underway
  <2>5. at # "DEL" => TheValue.fields \subseteq Redis!After(at, TheValue, call.field).fields
    BY <2>3, <2>4, FieldsStay
  <2>6. Redis!Executes(at) => TheValue' = Redis!After(at, TheValue, call.field)
    BY <2>1, <2>3 DEF Redis!Executes, TheValue
  <2>7. store' = store => TheValue' = TheValue
    BY <2>1 DEF TheValue
  <2>8. CASE Redis!Answered
    <3>1. at # "DEL" /\ Redis!Executes(at)
      BY <2>2, <2>8 DEF Redis!Answered
    <3>2. at' # "DEL"
      <4>1. at = "TYPE" => TheValue.type = "hash"
        BY <2>1, <2>3, Commands DEF DoneSoFar
      <4> QED
        BY <2>1, <2>3, <2>8, <3>1, <4>1, CallMoves DEF Redis!Answered, Redis!Goes,
           Redis!RightType, Redis!Returns, TheValue
    <3> QED
      BY <2>1, <2>2, <2>5, <2>6, <3>1, <3>2
  <2>9. CASE Redis!Unanswered
    <3>1. context' = "err"
      BY <2>9 DEF Redis!Unanswered
    <3>2. store' = store \/ (at # "DEL" /\ Redis!Executes(at))
      BY <2>2, <2>9 DEF Redis!Unanswered
    <3> QED
      BY <2>1, <2>2, <2>5, <2>6, <2>7, <3>1, <3>2
  <2> QED
    BY <1>2, <2>8, <2>9 DEF Redis!CommandStep, Redis!RefusedForNow
<1>3. CASE Redis!Destroy
  BY <1>3 DEF Redis!Destroy, HashInv, TheValue
<1>4. ASSUME NEW k \in Keys, Redis!OthersWrite(k) \/ Redis!KeyExpires(k)
      PROVE  found'.fields \subseteq TheValue'.fields /\ (at' = "DEL" => context' = "err")
  <2>1. PICK v : store' = [store EXCEPT ![k] = v] /\ touched' = (touched \/ k = call.key)
    BY <1>4 DEF Redis!OthersWrite, Redis!KeyExpires, Redis!Changes
  <2>2. UNCHANGED <<call, at, found, context>>
    BY <1>4 DEF Redis!OthersWrite, Redis!KeyExpires
  <2>3. ~touched /\ UNCHANGED TheValue
    BY <2>1, <2>2 DEF CallInv, TheValue, Redis!Call
  <2> QED
    BY <2>2, <2>3 DEF HashInv
<1>5. CASE UNCHANGED <<store, call, at, found, touched, context>>
  BY <1>5 DEF HashInv, TheValue
<1>6. CASE Redis!LinkLost \/ Redis!ServerStops \/ Redis!ServerStarts \/ Redis!Tick
           \/ UNCHANGED Redis!redisVars
  BY <1>5, <1>6 DEF Redis!LinkLost, Redis!ServerStops, Redis!ServerStarts, Redis!Tick,
     Redis!redisVars
<1> QED
  BY <1>1, <1>2, <1>3, <1>4, <1>6 DEF Redis!Next, Redis!Environment

\* hset() on a hash loses no field, wherever its commands fail (redisclient.cpp:175).
THEOREM HsetKeepsHashHolds ==
  ASSUME ~ErrorReplies PROVE LibrarySpec => []HsetKeepsHash
<1>1. Redis!Init => CallInv /\ HashInv
  <2>1. Redis!Init => HashInv
    BY DEF Redis!Init, HashInv
  <2> QED
    BY <2>1, CallBegins
<1>2. HashInv => HsetKeepsHash
  BY DEF HashInv, HsetKeepsHash, Redis!HsetKeepsHash, TheValue
<1>3. Redis!Spec => [](CallInv /\ HashInv)
  BY <1>1, CallStep, HashStep, PTL DEF Redis!Spec
<1> QED
  BY <1>2, <1>3, LibraryRunsItsParts, PTL

-----------------------------------------------------------------------------
(* Message *)

\* What is stored is stored again as it is: it has no Nul.
LEMMA StoredAgain ==
  ASSUME NEW p, NEW v \in Seq(STRING)
  PROVE  Message!Stored(p, Message!Stored(p, v)) = Message!Stored(p, v)
<1> DEFINE nuls == {i \in 1..Len(v) : v[i] = "nul"}
           IsFirst(i) == v[i] = "nul" /\ \A j \in 1..(i - 1) : v[j] # "nul"
           first == CHOOSE i \in DOMAIN v : IsFirst(i)
           s == SubSeq(v, 1, first - 1)
<1>1. Len(v) \in Nat /\ DOMAIN v = 1..Len(v) /\ \A i \in 1..Len(v) : v[i] \in STRING
  BY LenProperties, ElementOfSeq
<1>2. CASE p \in StringProps /\ Message!Contains(v, "nul")
  <2>1. nuls # {} /\ nuls \subseteq Nat
    BY <1>1, <1>2 DEF Message!Contains
  <2>2. PICK m \in nuls : \A l \in nuls : m <= l
    BY <2>1, Least
  <2>3. m \in DOMAIN v /\ IsFirst(m)
    <3>1. m \in 1..Len(v) /\ v[m] = "nul"
      BY <2>2
    <3>2. ASSUME NEW j \in 1..(m - 1) PROVE v[j] # "nul"
      <4>1. j \in 1..Len(v) /\ ~(m <= j)
        BY <1>1, <3>1
      <4> QED
        BY <2>2, <4>1
    <3> QED
      BY <1>1, <3>1, <3>2
  <2>4. first \in DOMAIN v /\ IsFirst(first)
    BY <2>3
  <2> HIDE DEF first
  <2>5. Len(s) = first - 1 /\ \A j \in 1..Len(s) : s[j] # "nul"
    BY <1>1, <2>4
  <2>6. Message!Stored(p, v) = s
    BY <1>2 DEF Message!Stored, Message!Nul, first
  <2> HIDE DEF s
  <2>7. ~Message!Contains(s, "nul")
    BY <2>5 DEF Message!Contains
  <2> QED
    BY <2>6, <2>7 DEF Message!Stored, Message!Nul
<1>3. CASE ~(p \in StringProps /\ Message!Contains(v, "nul"))
  BY <1>3 DEF Message!Stored, Message!Nul
<1> QED
  BY <1>2, <1>3

\* The blocks: one at least for each string that is set, one at most for each call
\* of a setter but the first of each property.
BlocksInv ==
  /\ blocks \in [Message!Props -> Nat] /\ flags \subseteq Message!Props
  /\ IsFiniteSet(flags) /\ sets \in Nat /\ Cardinality(flags) <= sets
  /\ \A p \in Message!Props :
       IF p \in flags \cap StringProps
       THEN blocks[p] >= 1 /\ blocks[p] + Cardinality(flags) <= sets + 1
       ELSE blocks[p] = 0

MessageInv ==
  /\ stage \in {"none", "made", "published", "delivered", "gone"}
  /\ stage # "gone" => BlocksInv
  /\ DOMAIN props = Message!Props
  /\ \A p \in flags : Message!Stored(p, props[p]) = props[p]
  /\ stage = "published" =>
       wire = [p \in Message!Props |-> Message!Get(flags, props, p)]
  /\ stage = "delivered" =>
       got_blocks = [p \in Message!Props |-> IF p \in got_flags \cap StringProps THEN 1 ELSE 0]
  /\ Message!SameForTheConsumer /\ Message!FreedOnce

\* A setter allocates one block, if it does, and sets one flag, if it was not set.
LEMMA SetStep ==
  ASSUME MessageInv, NEW p \in Message!Props, NEW v \in Values, Message!Set(p, v)
  PROVE  BlocksInv'
<1> DEFINE n == Cardinality(flags)
           b == Message!Allocates(blocks, p)
<1>1. BlocksInv /\ flags' = flags \cup {p} /\ blocks' = b /\ sets' = sets + 1
  BY DEF MessageInv, Message!Set
<1>2. n \in Nat /\ IsFiniteSet(flags')
  BY <1>1, FS_CardinalityType, FS_AddElement DEF BlocksInv
<1>3. Cardinality(flags') = IF p \in flags THEN n ELSE n + 1
  BY <1>1, FS_AddElement DEF BlocksInv
<1>4. b = IF p \in StringProps THEN [blocks EXCEPT ![p] = blocks[p] + 1] ELSE blocks
  BY DEF Message!Allocates
<1>5. b \in [Message!Props -> Nat]
  BY <1>1, <1>4 DEF BlocksInv
<1> HIDE DEF b, n
<1>6. Cardinality(flags') <= sets'
  BY <1>1, <1>2, <1>3 DEF BlocksInv, n
<1>7. ASSUME NEW q \in Message!Props
      PROVE  IF q \in flags' \cap StringProps
             THEN b[q] >= 1 /\ b[q] + Cardinality(flags') <= sets' + 1
             ELSE b[q] = 0
  <2>1. /\ blocks[q] \in Nat /\ sets \in Nat /\ n <= sets
        /\ IF q \in flags \cap StringProps
           THEN blocks[q] >= 1 /\ blocks[q] + n <= sets + 1
           ELSE blocks[q] = 0
    BY <1>1 DEF BlocksInv, n
  <2>2. CASE q = p /\ p \in StringProps
    <3>1. b[q] = blocks[q] + 1 /\ q \in flags' \cap StringProps
      BY <1>1, <1>4, <2>2 DEF BlocksInv
    <3> QED
      BY <1>1, <1>2, <1>3, <2>1, <2>2, <3>1
  <2>3. CASE ~(q = p /\ p \in StringProps)
    <3>1. b[q] = blocks[q] /\ (q \in flags' \cap StringProps <=> q \in flags \cap StringProps)
      BY <1>1, <1>4, <2>3 DEF BlocksInv
    <3> QED
      BY <1>1, <1>2, <1>3, <2>1, <3>1
  <2> QED
    BY <2>2, <2>3
<1> QED
  BY <1>1, <1>2, <1>5, <1>6, <1>7 DEF BlocksInv

LEMMA MessageStep == MessageInv /\ [Message!Next]_(Message!messageVars) => MessageInv'
<1> SUFFICES ASSUME MessageInv, [Message!Next]_(Message!messageVars) PROVE MessageInv'
  OBVIOUS
<1>1. CASE /\ UNCHANGED <<flags, props, blocks, wire, got_flags, got, got_blocks, sets>>
           /\ stage' = stage \/ (stage' = "made" /\ stage \in {"none", "made"})
  <2>1. stage' \notin {"published", "delivered", "gone"} \/ stage' = stage
    BY <1>1
  <2>2. stage' # "gone" => BlocksInv'
    BY <1>1 DEF MessageInv, BlocksInv
  <2> QED
    BY <1>1, <2>1, <2>2 DEF MessageInv, Message!SameForTheConsumer, Message!FreedOnce
<1>2. CASE Message!Publish
  <2>1. /\ UNCHANGED <<flags, props, blocks, got_flags, got, got_blocks, sets>>
        /\ stage' \in {"made", "published"} /\ stage = "made"
        /\ wire' = [p \in Message!Props |-> Message!Get(flags, props, p)]
    BY <1>2 DEF Message!Publish
  <2>2. BlocksInv'
    BY <2>1 DEF MessageInv, BlocksInv
  <2>3. wire' = [p \in Message!Props |-> Message!Get(flags, props, p)]'
    BY <2>1 DEF Message!Get
  <2> QED
    BY <2>1, <2>2, <2>3 DEF MessageInv, Message!SameForTheConsumer, Message!FreedOnce
<1>3. CASE Message!Deliver
  <2>1. /\ stage = "published" /\ stage' = "delivered" /\ UNCHANGED <<flags, props, blocks, sets>>
        /\ got_flags' = flags
        /\ got' = [p \in Message!Props |->
                     IF p \in flags THEN Message!Stored(p, wire[p]) ELSE Message!Default]
        /\ got_blocks' = [p \in Message!Props |-> IF p \in flags \cap StringProps THEN 1 ELSE 0]
    BY <1>3 DEF Message!Deliver, Message!Copies
  <2>2. BlocksInv'
    BY <2>1 DEF MessageInv, BlocksInv
  <2>3. ASSUME NEW p \in Message!Props
        PROVE  Message!Get(got_flags', got', p) = Message!Get(flags', props', p)
    <3>1. CASE p \in flags
      <4>1. wire[p] = props[p] /\ got'[p] = Message!Stored(p, wire[p])
        BY <2>1, <3>1 DEF MessageInv, Message!Get
      <4>2. Message!Stored(p, props[p]) = props[p]
        BY <3>1 DEF MessageInv
      <4> QED
        BY <2>1, <3>1, <4>1, <4>2 DEF Message!Get
    <3>2. CASE p \notin flags
      BY <2>1, <3>2 DEF Message!Get
    <3> QED
      BY <3>1, <3>2
  <2>4. \A p \in got_flags' \cap StringProps : got_blocks'[p] = 1
    BY <2>1 DEF Message!Props
  <2>5. Message!SameForTheConsumer'
    BY <2>3, <2>4 DEF Message!SameForTheConsumer
  <2>6. Message!FreedOnce'
    BY <2>1 DEF Message!FreedOnce
  <2>7. \A p \in flags' : Message!Stored(p, props'[p]) = props'[p]
    BY <2>1 DEF MessageInv
  <2> QED
    BY <2>1, <2>2, <2>5, <2>6, <2>7 DEF MessageInv
<1>4. CASE Message!Destroy
  <2>1. /\ stage = "delivered" /\ stage' = "gone" /\ UNCHANGED <<flags, props, got_flags, sets>>
        /\ blocks' = Message!Frees(flags, blocks)
        /\ got_blocks' = Message!Frees(got_flags, got_blocks)
    BY <1>4 DEF Message!Destroy
  <2>2. BlocksInv
       /\ got_blocks = [p \in Message!Props |-> IF p \in got_flags \cap StringProps THEN 1 ELSE 0]
    BY <2>1 DEF MessageInv
  <2>3. got_blocks' = Message!NoBlocks
    <3>1. \A p \in Message!Props : got_blocks'[p] = 0
      BY <2>1, <2>2 DEF Message!Frees
    <3> QED
      BY <2>1, <3>1 DEF Message!Frees, Message!NoBlocks
  <2>4. \A p \in Message!Props :
          /\ blocks'[p] >= 0
          /\ sets <= Cardinality(flags) => blocks'[p] = 0
    <3> SUFFICES ASSUME NEW p \in Message!Props
                 PROVE  /\ blocks'[p] >= 0
                        /\ sets <= Cardinality(flags) => blocks'[p] = 0
      OBVIOUS
    <3>1. /\ blocks[p] \in Nat /\ sets \in Nat /\ Cardinality(flags) \in Nat
          /\ IF p \in flags \cap StringProps
             THEN blocks[p] >= 1 /\ blocks[p] + Cardinality(flags) <= sets + 1
             ELSE blocks[p] = 0
      BY <2>2, FS_CardinalityType DEF BlocksInv
    <3>2. blocks'[p] = IF p \in flags \cap StringProps THEN blocks[p] - 1 ELSE blocks[p]
      BY <2>1 DEF Message!Frees
    <3> QED
      BY <3>1, <3>2
  <2>5. sets' <= Cardinality(flags') => blocks' = Message!NoBlocks
    BY <2>1, <2>4 DEF Message!Frees, Message!NoBlocks
  <2>6. Message!FreedOnce'
    <3>1. Message!NoBlocks' = Message!NoBlocks /\ Message!Props' = Message!Props
      BY DEF Message!NoBlocks, Message!Props
    <3>2. \A p \in Message!Props : blocks'[p] >= 0
      BY <2>4
    <3>3. Message!Cardinality(flags') = Cardinality(flags')
      BY DEF Message!Cardinality, Cardinality
    <3> QED
      BY ONLY <2>3, <2>5, <3>1, <3>2, <3>3 DEF Message!FreedOnce
  <2>7. \A p \in flags' : Message!Stored(p, props'[p]) = props'[p]
    BY <2>1 DEF MessageInv
  <2> QED
    BY <2>1, <2>6, <2>7 DEF MessageInv, Message!SameForTheConsumer
<1>5. ASSUME NEW p \in Message!Props, NEW v \in Values, Message!Set(p, v) PROVE MessageInv'
  <2>1. /\ stage = "made" /\ stage' = "made" /\ flags' = flags \cup {p}
        /\ props' = [props EXCEPT ![p] = Message!Stored(p, v)]
    BY <1>5 DEF Message!Set
  <2>2. BlocksInv'
    BY <1>5, SetStep
  <2>3. Message!Stored(p, Message!Stored(p, v)) = Message!Stored(p, v)
    <3>1. v \in Seq(STRING)
      BY LibraryAssumption DEF Message!MessageConstants
    <3> QED
      BY <3>1, StoredAgain
  <2>4. \A q \in flags' : Message!Stored(q, props'[q]) = props'[q]
    BY <2>1, <2>3 DEF MessageInv
  <2>5. DOMAIN props' = Message!Props
    BY <2>1 DEF MessageInv
  <2> QED
    BY <2>1, <2>2, <2>4, <2>5 DEF MessageInv, Message!SameForTheConsumer, Message!FreedOnce
<1>6. CASE Message!Make \/ Message!QueueCall \/ Message!DropChannel
           \/ UNCHANGED Message!messageVars
  BY <1>1, <1>6 DEF Message!Make, Message!QueueCall, Message!DropChannel, Message!messageVars
<1> QED
  BY <1>2, <1>3, <1>4, <1>5, <1>6 DEF Message!Next

\* The consumer's getters return what the publisher's do, of any properties and values,
\* and no message frees a block twice (message.cpp:66-125).
THEOREM SameForTheConsumerHolds == LibrarySpec => []SameForTheConsumer
<1>1. Message!Init => MessageInv
  <2> SUFFICES ASSUME Message!Init PROVE MessageInv
    OBVIOUS
  <2>1. /\ stage = "none" /\ flags = {} /\ blocks = Message!NoBlocks /\ sets = 0
        /\ DOMAIN props = Message!Props
    BY DEF Message!Init, Message!Unset
  <2>2. BlocksInv
    BY <2>1, FS_EmptySet DEF BlocksInv, Message!NoBlocks
  <2> QED
    BY <2>1, <2>2 DEF MessageInv, Message!SameForTheConsumer, Message!FreedOnce
<1>2. MessageInv => SameForTheConsumer
  BY DEF MessageInv, SameForTheConsumer
<1>3. Message!Spec => []MessageInv
  BY <1>1, MessageStep, PTL DEF Message!Spec
<1> QED
  BY <1>2, <1>3, LibraryRunsItsParts, PTL

-----------------------------------------------------------------------------
(* Console *)

\* A console that was started stays so, one at most is at a tab, and no completion
\* is twice in a list.
StartedInv ==
  /\ DOMAIN pc = Consoles /\ g_console_thread \in Consoles \cup {NoConsole}
  /\ asked \in Consoles \cup {NoConsole}
  /\ g_console_thread \in Consoles => pc[g_console_thread] # "none"
  /\ asked \in Consoles => pc[asked] # "none"
  /\ \A c, d \in Consoles : pc[c] = "tab" /\ pc[d] = "tab" => c = d
  /\ m_completions \in [Consoles -> Seq(Words)]
  /\ \A c \in Consoles : \A i, j \in 1..Len(m_completions[c]) :
       m_completions[c][i] = m_completions[c][j] => i = j

\* What was offered is what fits among the first completions of the console asked.
WalkInv ==
  LET m == m_completions[asked] IN
  /\ list_index \in 0..Len(m)
  /\ \A i \in 1..Len(offered) : \E j \in 1..list_index : offered[i] = m[j]
  /\ \A j \in 1..list_index : m[j] \in text => \E i \in 1..Len(offered) : offered[i] = m[j]
  /\ \A w \in before : \E j \in 1..Len(m) : m[j] = w

ConsoleInv ==
  /\ StartedInv /\ offered \in Seq(Words) /\ list_index \in Nat
  /\ asked = NoConsole =>
       (\A c \in Consoles : pc[c] # "tab") /\ offered = <<>> /\ before = {}
  /\ asked = g_console_thread /\ asked \in Consoles => WalkInv
  /\ Console!CompletionsOnce

\* The functions of the console, expanded.
LEMMA RangeIs ==
  ASSUME NEW S, NEW s \in Seq(S)
  PROVE  /\ \A w : w \in Console!Range(s) <=> \E i \in 1..Len(s) : s[i] = w
         /\ DOMAIN s = 1..Len(s) /\ Len(s) \in Nat /\ \A i \in 1..Len(s) : s[i] \in S
<1>1. DOMAIN s = 1..Len(s) /\ Len(s) \in Nat /\ \A i \in 1..Len(s) : s[i] \in S
  BY LenProperties, ElementOfSeq
<1> QED
  BY <1>1 DEF Console!Range

\* One word is looked at: the next of the list, which was not offered yet.
LEMMA GenerateStep ==
  ASSUME ConsoleInv, NEW c \in Consoles, pc[c] = "tab",
         g_console_thread \in Consoles,
         list_index < Len(m_completions[g_console_thread]),
         LET word == m_completions[g_console_thread][list_index + 1] IN
           /\ offered' = IF word \in text THEN Append(offered, word) ELSE offered
           /\ list_index' = list_index + 1,
         UNCHANGED <<pc, text, asked, before, g_console_thread, m_completions>>
  PROVE  ConsoleInv'
<1> DEFINE m == m_completions[g_console_thread]
           word == m[list_index + 1]
<1>1. /\ m \in Seq(Words) /\ Len(m) \in Nat /\ \A i \in 1..Len(m) : m[i] \in Words
      /\ \A i, j \in 1..Len(m) : m[i] = m[j] => i = j
  BY RangeIs DEF ConsoleInv, StartedInv
<1>2. StartedInv'
  BY DEF ConsoleInv, StartedInv
<1>3. offered \in Seq(Words) /\ Len(offered) \in Nat /\ \A i \in 1..Len(offered) : offered[i] \in Words
  BY RangeIs DEF ConsoleInv
<1>4. asked # NoConsole
  BY DEF ConsoleInv

<1>5. list_index \in Nat /\ list_index + 1 \in 1..Len(m) /\ word \in Words
  BY <1>1 DEF ConsoleInv
<1>6. offered' \in Seq(Words) /\ list_index' \in Nat
  BY <1>3, <1>5
<1>7. CASE asked # g_console_thread
  BY <1>2, <1>4, <1>6, <1>7 DEF ConsoleInv, Console!CompletionsOnce
<1>8. CASE asked = g_console_thread
  <2>1. /\ \A i \in 1..Len(offered) : \E j \in 1..list_index : offered[i] = m[j]
        /\ \A j \in 1..list_index : m[j] \in text => \E i \in 1..Len(offered) : offered[i] = m[j]
        /\ \A w \in before : \E j \in 1..Len(m) : m[j] = w
    BY <1>8 DEF ConsoleInv, WalkInv
  <2>2. \A i, j \in 1..Len(offered) : offered[i] = offered[j] => i = j
    BY <1>3, <1>8, RangeIs DEF ConsoleInv, Console!CompletionsOnce
  <2> HIDE DEF m, word
  <2>3. /\ \A i \in 1..Len(offered') : \E j \in 1..(list_index + 1) : offered'[i] = m[j]
        /\ \A j \in 1..(list_index + 1) :
             m[j] \in text => \E i \in 1..Len(offered') : offered'[i] = m[j]
        /\ \A i, j \in 1..Len(offered') : offered'[i] = offered'[j] => i = j
    <3>1. CASE word \notin text
      <4>1. offered' = offered /\ \A j \in 1..(list_index + 1) :
                                   j \in 1..list_index \/ m[j] \notin text
        BY <1>5, <3>1 DEF word, m
      <4>2. \A j \in 1..list_index : j \in 1..(list_index + 1)
        BY <1>5
      <4> QED
        BY <2>1, <2>2, <4>1, <4>2
    <3>2. CASE word \in text
      <4>1. /\ Len(offered') = Len(offered) + 1 /\ offered'[Len(offered) + 1] = word
            /\ \A i \in 1..Len(offered) : offered'[i] = offered[i]
        <5>1. offered' = Append(offered, word)
          BY <3>2 DEF word, m
        <5> QED
          BY <1>3, <1>5, <5>1
      <4>2. word = m[list_index + 1]
        BY DEF word, m
      <4>3. \A i \in 1..Len(offered') : i \in 1..Len(offered) \/ i = Len(offered) + 1
        BY <1>3, <4>1
      <4>4. \A j \in 1..(list_index + 1) : j \in 1..list_index \/ j = list_index + 1
        BY <1>5
      <4>5. \A j \in 1..list_index : j \in 1..(list_index + 1)
        BY <1>5
      <4>6. \A i \in 1..Len(offered) : i \in 1..Len(offered')
        BY <1>3, <4>1
      <4>7. Len(offered) + 1 \in 1..Len(offered') /\ list_index + 1 \in 1..(list_index + 1)
        BY <1>3, <1>5, <4>1
      <4>8. \A i \in 1..Len(offered') : \E j \in 1..(list_index + 1) : offered'[i] = m[j]
        BY <2>1, <4>1, <4>2, <4>3, <4>5, <4>7
      <4>9. \A j \in 1..(list_index + 1) :
              m[j] \in text => \E i \in 1..Len(offered') : offered'[i] = m[j]
        BY <2>1, <4>1, <4>2, <4>4, <4>6, <4>7
      <4>10. \A i \in 1..Len(offered) : offered[i] # word
        <5> SUFFICES ASSUME NEW i \in 1..Len(offered), offered[i] = word PROVE FALSE
          OBVIOUS
        <5>1. PICK j \in 1..list_index : offered[i] = m[j]
          BY <2>1
        <5>2. j \in 1..Len(m) /\ j # list_index + 1
          BY <1>1, <1>5 DEF m
        <5> QED
          BY <1>1, <1>5, <4>2, <5>1, <5>2 DEF m
      <4>11. \A i, j \in 1..Len(offered') : offered'[i] = offered'[j] => i = j
        BY <2>2, <4>1, <4>3, <4>10
      <4> QED
        BY <4>8, <4>9, <4>11
    <3> QED
      BY <3>1, <3>2
  <2>4. WalkInv'
    <3>1. m_completions'[asked'] = m /\ list_index' = list_index + 1
      BY <1>8 DEF m
    <3>2. list_index' \in 0..Len(m)
      BY <1>1, <1>5, <3>1 DEF m
    <3>3. text' = text /\ before' = before
      OBVIOUS
    <3>4. /\ list_index' \in 0..Len(m)
          /\ \A i \in 1..Len(offered') : \E j \in 1..list_index' : offered'[i] = m[j]
          /\ \A j \in 1..list_index' : m[j] \in text' => \E i \in 1..Len(offered') : offered'[i] = m[j]
          /\ \A w \in before' : \E j \in 1..Len(m) : m[j] = w
      BY ONLY <2>1, <2>3, <3>1, <3>2, <3>3
    <3> QED
      BY ONLY <3>1, <3>4 DEF WalkInv
  <2>5. Console!CompletionsOnce'
    <3>1. DOMAIN offered' = 1..Len(offered')
      BY <1>6, RangeIs
    <3>2. pc'[c] = "tab"
      OBVIOUS
    <3> QED
      BY <2>3, <3>1, <3>2 DEF Console!CompletionsOnce
  <2> QED
    BY <1>2, <1>4, <1>6, <2>4, <2>5 DEF ConsoleInv
<1> QED
  BY <1>7, <1>8

\* A completion is added at the end of a list that has it not.
LEMMA AddStep ==
  ASSUME ConsoleInv, NEW c \in Consoles, NEW w \in Words, Console!AddCompletion(c, w)
  PROVE  ConsoleInv'
<1> DEFINE m == m_completions[c]
           n == IF w \in Console!Range(m) THEN m ELSE Append(m, w)
<1>1. /\ m_completions' = [m_completions EXCEPT ![c] = n]
      /\ UNCHANGED <<pc, g_console_thread, text, list_index, asked, before, offered>>
  BY DEF Console!AddCompletion, Console!generator
<1>2. /\ m \in Seq(Words) /\ Len(m) \in Nat /\ \A i \in 1..Len(m) : m[i] \in Words
      /\ \A i, j \in 1..Len(m) : m[i] = m[j] => i = j
      /\ w \in Console!Range(m) <=> \E i \in 1..Len(m) : m[i] = w
  BY RangeIs DEF ConsoleInv, StartedInv
<1>3. /\ n \in Seq(Words) /\ Len(n) \in Nat /\ Len(m) <= Len(n)
      /\ \A i \in 1..Len(m) : n[i] = m[i]
      /\ \A i, j \in 1..Len(n) : n[i] = n[j] => i = j
  <2>1. CASE w \in Console!Range(m)
    BY <1>2, <2>1
  <2>2. CASE w \notin Console!Range(m)
    <3>1. n = Append(m, w)
      BY <2>2
    <3> HIDE DEF m, n
    <3>2. /\ n \in Seq(Words) /\ Len(n) = Len(m) + 1 /\ n[Len(m) + 1] = w
          /\ \A i \in 1..Len(m) : n[i] = m[i] /\ n[i] # w
      BY <1>2, <2>2, <3>1
    <3>3. \A i \in 1..Len(n) : i \in 1..Len(m) \/ i = Len(m) + 1
      BY <1>2, <3>2
    <3>4. \A i, j \in 1..Len(n) : n[i] = n[j] => i = j
      BY <1>2, <3>2, <3>3
    <3> QED
      BY <1>2, <3>2, <3>4
  <2> QED
    BY <2>1, <2>2
<1>4. \A d \in Consoles : m_completions'[d] = IF d = c THEN n ELSE m_completions[d]
  BY <1>1 DEF ConsoleInv, StartedInv
<1> HIDE DEF n
<1>5. StartedInv'
  <2>1. m_completions' \in [Consoles -> Seq(Words)]
    BY <1>1, <1>3 DEF ConsoleInv, StartedInv
  <2>2. \A d \in Consoles : \A i, j \in 1..Len(m_completions'[d]) :
          m_completions'[d][i] = m_completions'[d][j] => i = j
    BY <1>3, <1>4 DEF ConsoleInv, StartedInv
  <2> QED
    BY <1>1, <2>1, <2>2 DEF ConsoleInv, StartedInv
<1>6. Console!CompletionsOnce'
  BY <1>1 DEF ConsoleInv, Console!CompletionsOnce
<1>7. ASSUME asked \in Consoles, asked = g_console_thread PROVE WalkInv'
  <2> DEFINE before_ == m_completions[asked]
             after == m_completions'[asked]
  <2>1. /\ Len(before_) \in Nat /\ Len(after) \in Nat /\ Len(before_) <= Len(after)
        /\ \A i \in 1..Len(before_) : after[i] = before_[i]
    <3>1. before_ \in Seq(Words) /\ Len(before_) \in Nat
      BY <1>7, RangeIs DEF ConsoleInv, StartedInv
    <3>2. after = IF asked = c THEN n ELSE before_
      BY <1>4, <1>7
    <3>3. asked = c => before_ = m
      OBVIOUS
    <3> HIDE DEF m, before_, after
    <3> QED
      BY <1>3, <3>1, <3>2, <3>3
  <2>2. /\ list_index \in 0..Len(before_)
        /\ \A i \in 1..Len(offered) : \E j \in 1..list_index : offered[i] = before_[j]
        /\ \A j \in 1..list_index :
             before_[j] \in text => \E i \in 1..Len(offered) : offered[i] = before_[j]
        /\ \A v \in before : \E j \in 1..Len(before_) : before_[j] = v
    BY <1>7 DEF ConsoleInv, WalkInv
  <2> HIDE DEF before_, after
  <2>3. \A j \in 1..list_index : j \in 1..Len(before_)
    BY <2>1, <2>2
  <2>4. \A j \in 1..Len(before_) : j \in 1..Len(after)
    BY <2>1
  <2>5. /\ list_index \in 0..Len(after)
        /\ \A i \in 1..Len(offered) : \E j \in 1..list_index : offered[i] = after[j]
        /\ \A j \in 1..list_index :
             after[j] \in text => \E i \in 1..Len(offered) : offered[i] = after[j]
        /\ \A v \in before : \E j \in 1..Len(after) : after[j] = v
    BY <2>1, <2>2, <2>3, <2>4
  <2>6. m_completions'[asked'] = after
    BY <1>1 DEF after
  <2> QED
    BY <1>1, <2>5, <2>6 DEF WalkInv
<1> QED
  BY <1>1, <1>5, <1>6, <1>7 DEF ConsoleInv

LEMMA ConsoleStep == ConsoleInv /\ [Console!Next]_(Console!consoleVars) => ConsoleInv'
<1> SUFFICES ASSUME ConsoleInv, [Console!Next]_(Console!consoleVars) PROVE ConsoleInv'
  OBVIOUS
<1>0. NoConsole \notin Consoles
  BY LibraryAssumption DEF Console!ConsoleConstants
<1>1. ASSUME NEW c \in Consoles, Console!Start(c) PROVE ConsoleInv'
  <2>1. /\ pc[c] = "none" /\ g_console_thread' = c /\ pc' = [pc EXCEPT ![c] = "line"]
        /\ UNCHANGED <<m_completions, text, list_index, asked, before, offered>>
    BY <1>1 DEF Console!Start, Console!generator
  <2>2. asked' # g_console_thread'
    BY <1>0, <2>1 DEF ConsoleInv, StartedInv
  <2>3. StartedInv'
    BY <2>1 DEF ConsoleInv, StartedInv
  <2> QED
    BY <2>1, <2>2, <2>3 DEF ConsoleInv, StartedInv, Console!CompletionsOnce
<1>2. CASE UNCHANGED <<pc, g_console_thread, m_completions, text, list_index, asked, before,
                       offered>>
  BY <1>2 DEF ConsoleInv, StartedInv, WalkInv, Console!CompletionsOnce
<1>3. ASSUME NEW c \in Consoles, Console!Line(c) PROVE ConsoleInv'
  <2>1. CASE UNCHANGED <<pc, g_console_thread>>
    BY <1>2, <1>3, <2>1 DEF Console!Line, Console!generator
  <2>2. CASE pc' = [pc EXCEPT ![c] = "ended"] /\ g_console_thread' = NoConsole
    <3>1. UNCHANGED <<m_completions, text, list_index, asked, before, offered>>
      BY <1>3 DEF Console!Line, Console!generator
    <3>2. StartedInv'
      BY <1>0, <2>2, <3>1 DEF ConsoleInv, StartedInv
    <3>3. asked' = NoConsole => \A d \in Consoles : pc'[d] # "tab"
      BY <2>2, <3>1 DEF ConsoleInv, StartedInv
    <3>4. Console!CompletionsOnce'
      BY <2>2, <3>1 DEF ConsoleInv, Console!CompletionsOnce
    <3> QED
      BY <1>0, <2>2, <3>1, <3>2, <3>3, <3>4 DEF ConsoleInv
  <2> QED
    BY <1>3, <2>1, <2>2 DEF Console!Line
<1>4. ASSUME NEW c \in Consoles, Console!Tab(c) PROVE ConsoleInv'
  <2>1. CASE g_console_thread = NoConsole
    BY <1>2, <1>4, <2>1 DEF Console!Tab, Console!generator
  <2>2. CASE g_console_thread # NoConsole
    <3>1. /\ pc[c] = "line" /\ \A d \in Consoles : pc[d] # "tab"
          /\ pc' = [pc EXCEPT ![c] = "tab"] /\ list_index' = 0 /\ offered' = <<>>
          /\ asked' = g_console_thread /\ g_console_thread \in Consoles
          /\ before' = Console!Range(m_completions[g_console_thread])
          /\ UNCHANGED <<g_console_thread, m_completions>>
      BY <1>4, <2>2 DEF Console!Tab, ConsoleInv, StartedInv
    <3>2. StartedInv'
      BY <3>1 DEF ConsoleInv, StartedInv
    <3>3. pc'[c] = "tab" /\ offered' \in Seq(Words) /\ list_index' \in Nat
      BY <3>1 DEF ConsoleInv, StartedInv
    <3>4. WalkInv'
      <4> DEFINE m == m_completions[g_console_thread]
      <4>1. m \in Seq(Words)
        BY <3>1 DEF ConsoleInv, StartedInv
      <4>2. Len(m) \in Nat /\ \A w \in before' : \E j \in 1..Len(m) : m[j] = w
        BY <3>1, <4>1, RangeIs
      <4>3. m_completions'[asked'] = m /\ Len(offered') = 0
        BY <3>1
      <4> HIDE DEF m
      <4> QED
        BY <3>1, <4>2, <4>3 DEF WalkInv
    <3>5. Console!CompletionsOnce'
      BY <3>1, <3>3 DEF Console!CompletionsOnce
    <3> QED
      BY <1>0, <3>1, <3>2, <3>3, <3>4, <3>5 DEF ConsoleInv
  <2> QED
    BY <2>1, <2>2
<1>5. ASSUME NEW c \in Consoles, Console!Generate(c) PROVE ConsoleInv'
  <2>1. pc[c] = "tab" /\ UNCHANGED <<g_console_thread, m_completions>>
    BY <1>5 DEF Console!Generate
  <2>2. CASE g_console_thread = NoConsole
    <3>1. /\ pc' = [pc EXCEPT ![c] = "ended"]
          /\ UNCHANGED <<text, list_index, asked, before, offered>>
      BY <1>5, <2>2 DEF Console!Generate, Console!generator
    <3>2. StartedInv'
      BY <1>0, <2>1, <3>1 DEF ConsoleInv, StartedInv
    <3>3. asked # NoConsole
      BY <2>1 DEF ConsoleInv
    <3> QED
      BY <2>1, <2>2, <3>1, <3>2, <3>3 DEF ConsoleInv, Console!CompletionsOnce
  <2>3. CASE /\ g_console_thread # NoConsole
             /\ list_index < Len(m_completions[g_console_thread])
    <3>1. /\ g_console_thread \in Consoles
          /\ LET word == m_completions[g_console_thread][list_index + 1] IN
               /\ offered' = IF word \in text THEN Append(offered, word) ELSE offered
               /\ list_index' = list_index + 1
          /\ UNCHANGED <<pc, text, asked, before>>
      <4>1. ~(list_index >= Len(m_completions[g_console_thread]))
        <5>1. /\ g_console_thread \in Consoles /\ list_index \in Nat
              /\ m_completions[g_console_thread] \in Seq(Words)
          BY <2>3 DEF ConsoleInv, StartedInv
        <5>2. Len(m_completions[g_console_thread]) \in Nat
          BY <5>1, RangeIs
        <5> QED
          BY <2>3, <5>1, <5>2
      <4> QED
        BY <1>5, <2>3, <4>1 DEF Console!Generate, Console!NextIndex, ConsoleInv, StartedInv
    <3> QED
      BY <2>1, <2>3, <3>1, GenerateStep
  <2>4. CASE /\ g_console_thread # NoConsole
             /\ ~(list_index < Len(m_completions[g_console_thread]))
    <3>1. /\ g_console_thread \in Consoles /\ pc' = [pc EXCEPT ![c] = "line"]
          /\ UNCHANGED <<text, list_index, asked, before, offered>>
      BY <1>5, <2>4 DEF Console!Generate, Console!generator, ConsoleInv, StartedInv
    <3>2. StartedInv'
      BY <2>1, <3>1 DEF ConsoleInv, StartedInv
    <3>3. asked # NoConsole
      BY <2>1 DEF ConsoleInv
    <3>4. ASSUME asked = g_console_thread PROVE WalkInv' /\ before \cap text \subseteq Console!Range(offered)
      <4> DEFINE m == m_completions[asked]
      <4>1. /\ list_index \in 0..Len(m)
            /\ \A j \in 1..list_index : m[j] \in text => \E i \in 1..Len(offered) : offered[i] = m[j]
            /\ \A w \in before : \E j \in 1..Len(m) : m[j] = w
        BY <3>1, <3>4 DEF ConsoleInv, WalkInv
      <4>2. m \in Seq(Words)
        BY <3>1, <3>4 DEF ConsoleInv, StartedInv
      <4>3. Len(m) \in Nat
        BY <4>2, RangeIs
      <4>4. list_index = Len(m)
        BY <2>4, <3>4, <4>1, <4>3
      <4>5. \A w \in before \cap text : \E i \in 1..Len(offered) : offered[i] = w
        BY <4>1, <4>4
      <4>6. before \cap text \subseteq Console!Range(offered)
        BY <4>5, RangeIs DEF ConsoleInv
      <4>7. WalkInv
        BY <3>1, <3>4 DEF ConsoleInv
      <4> QED
        BY <2>1, <3>1, <4>6, <4>7 DEF WalkInv
    <3>5. Console!CompletionsOnce'
      BY <2>1, <3>1, <3>4 DEF ConsoleInv, Console!CompletionsOnce
    <3> QED
      BY <2>1, <3>1, <3>2, <3>3, <3>4, <3>5 DEF ConsoleInv
  <2> QED
    BY <2>2, <2>3, <2>4
<1>6. ASSUME NEW c \in Consoles, Console!Stop(c) PROVE ConsoleInv'
  BY <1>2, <1>6 DEF Console!Stop, Console!generator
<1>7. CASE UNCHANGED Console!consoleVars
  BY <1>2, <1>7 DEF Console!consoleVars
<1> QED
  BY <1>1, <1>3, <1>4, <1>5, <1>6, <1>7, AddStep DEF Console!Next

\* Each completion that fits is offered, once, to any number of consoles and with any
\* completions, although others are added meanwhile (console.cpp:68, 92, 125).
THEOREM CompletionsOnceHolds == LibrarySpec => []CompletionsOnce
<1>1. Console!Init => ConsoleInv
  <2> SUFFICES ASSUME Console!Init PROVE ConsoleInv
    OBVIOUS
  <2>1. NoConsole \notin Consoles
    BY LibraryAssumption DEF Console!ConsoleConstants
  <2>2. /\ pc = [c \in Consoles |-> "none"] /\ g_console_thread = NoConsole
        /\ m_completions = [c \in Consoles |-> <<>>] /\ asked = NoConsole
        /\ list_index = 0 /\ before = {} /\ offered = <<>>
    BY DEF Console!Init
  <2>3. \A c \in Consoles : m_completions[c] = <<>> /\ Len(m_completions[c]) = 0
    BY <2>2
  <2>4. StartedInv
    BY <2>1, <2>2, <2>3 DEF StartedInv
  <2>5. Console!CompletionsOnce
    BY <2>2 DEF Console!CompletionsOnce
  <2> QED
    BY <2>1, <2>2, <2>4, <2>5 DEF ConsoleInv
<1>2. ConsoleInv => CompletionsOnce
  BY DEF ConsoleInv, CompletionsOnce
<1>3. Console!Spec => []ConsoleInv
  BY <1>1, ConsoleStep, PTL DEF Console!Spec
<1> QED
  BY <1>2, <1>3, LibraryRunsItsParts, PTL
=============================================================================
