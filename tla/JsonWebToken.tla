---------------------------- MODULE JsonWebToken ----------------------------
(***************************************************************************)
(* A JsonWebToken that is written by get(), carried as text and read back  *)
(* by JWTDecoder::read_and_verify().  A part of the text is what it        *)
(* encodes, and whether the digits 62 and 63 of base64 are among its       *)
(* characters (see Base64); that a part is split off again is Text's.      *)
(* HMAC and jsoncpp are external.                                          *)
(***************************************************************************)
EXTENDS Naturals, Sequences

CONSTANTS Secrets, Algorithms  \* HS256 is one

\* The names of no algorithm.
TokenConstants == Algorithms \cap {"unknown", "incomplete"} = {}

VARIABLES
  jwt,     \* the token: its algorithm, its payload (the names of the claims), its secret
  set,     \* the flags of the reserved claims: m_subject_set, ...
  dashes,  \* do the digits 62, 63 occur in the text of the payload, of the signature?
  text,    \* what get() returned, or what came of it: a sequence of parts
  status,  \* of get() or read_and_verify()
  secret,  \* that of the token read into
  read     \* its algorithm and payload

tokenVars == <<jwt, set, dashes, text, status, secret, read>>

Reserved == {"iss", "exp", "iat", "sub"}
Claims == Reserved \cup {"data"}
Nothing == [alg |-> "none", payload |-> {}]
GetStatuses == {"CLAIM_IN_PAYLOAD", "GENERATED"}
ReadStatuses == {"INVALID_STRING", "INVALID_HEADER", "INVALID_ALGORITHM",
                 "JSON_PARSE_ERROR", "INVALID_SIGNATURE", "OK"}

TypeOK ==
  /\ jwt \in [alg : Algorithms, payload : SUBSET Claims, secret : Secrets]
  /\ set \subseteq Reserved
  /\ dashes \in [payload : BOOLEAN, signature : BOOLEAN]
  /\ Len(text) \in {0, 2, 3}
  /\ status \in GetStatuses \cup ReadStatuses \cup {"none"}
  /\ secret \in Secrets
  /\ read \in [alg : Algorithms \cup {"none"}, payload : SUBSET Claims]

-----------------------------------------------------------------------------
\* issuedAt() sets the flag of the issuer.
FlagOf(claim) == IF claim = "iat" THEN "iss" ELSE claim

\* subject(), issuer(), expirationTime(), issuedAt()
SetClaim(claim) ==
  /\ status = "none" /\ set' = set \cup {FlagOf(claim)}
  /\ UNCHANGED <<jwt, dashes, text, status, secret, read>>

\* hmac_sha256(secret, payload), ...: different for different arguments.
Hmac(alg, key, signed) == <<alg, key, signed>>

\* A part is encoded with the alphabet of base64_urlencode() or of base64_encode().
Part(value, special, url) ==
  [value |-> value, chars |-> IF special THEN (IF url THEN "-_" ELSE "+/") ELSE "plain"]

\* What sign() is given: the texts of the header and of the final payload.
Signed(payload, final) == <<jwt.alg, final>>

\* JsonWebToken::get(); the signature is written by base64_encode().
Get ==
  /\ status = "none"
  /\ IF jwt.payload \cap Reserved # {}
     THEN status' = "CLAIM_IN_PAYLOAD" /\ UNCHANGED text
     ELSE LET final == jwt.payload \cup set
              signed == Signed(jwt.payload, final)
          IN  /\ status' = "GENERATED"
              /\ text' = << Part(jwt.alg, FALSE, TRUE), Part(final, dashes.payload, TRUE),
                            Part(Hmac(jwt.alg, jwt.secret, signed), dashes.signature, FALSE) >>
  /\ UNCHANGED <<jwt, set, dashes, secret, read>>

\* The text is the one that get() wrote.
Kept == Len(text) = 3 /\ text[1] = Part(jwt.alg, FALSE, TRUE)

\* The text is changed on its way, or another program wrote it: it has a part less, or
\* a header that names no known algorithm, or lacks alg or typ, in JSON whose text has
\* "-" or "_" perhaps.
Garble ==
  /\ status = "GENERATED" /\ Kept
  /\ \/ text' = <<text[1], text[2]>>
     \/ \E h \in {"unknown", "incomplete"}, special \in BOOLEAN :
          text' = <<Part(h, special, TRUE), text[2], text[3]>>
  /\ UNCHANGED <<jwt, set, dashes, status, secret, read>>

\* base64_urldecode() stops at "-" and "_"; what is left is no JSON.
Parses(part) == part.chars # "-_"

\* The signature read_and_verify() computes: always that of HS256, url-encoded.
Expected(parts) ==
  LET hmac == Hmac("HS256", secret, <<parts[1].value, parts[2].value>>)
  IN  Part(hmac, dashes.signature, TRUE)

\* What is wrong with the string, or with its header.
HeaderError(parts) ==
  IF Len(parts) # 3 THEN "INVALID_STRING"
  ELSE IF ~Parses(parts[1]) THEN "JSON_PARSE_ERROR"
  ELSE IF parts[1].value = "incomplete" THEN "INVALID_HEADER"
  ELSE IF parts[1].value \notin Algorithms THEN "INVALID_ALGORITHM" ELSE "none"

\* ... and with the rest of it.
Verdict(parts) ==
  IF HeaderError(parts) # "none" THEN HeaderError(parts)
  ELSE IF ~Parses(parts[2]) THEN "JSON_PARSE_ERROR"
  ELSE IF Expected(parts) # parts[3] THEN "INVALID_SIGNATURE" ELSE "OK"

\* JWTDecoder::read_and_verify(): the claims are looked for in a payload that was
\* never read, so that no validator is called after the signature.
ReadAndVerify ==
  /\ status = "GENERATED" /\ status' = Verdict(text)
  /\ read' = IF HeaderError(text) # "none" THEN read
             ELSE [alg |-> text[1].value,
                   payload |-> IF Parses(text[2]) THEN text[2].value ELSE {}]
  /\ UNCHANGED <<jwt, set, dashes, text, secret>>

-----------------------------------------------------------------------------
Init ==
  /\ jwt \in [alg : Algorithms, payload : {{}, {"data"}, {"data", "exp"}}, secret : Secrets]
  /\ set = {} /\ text = <<>> /\ status = "none" /\ secret \in Secrets
  /\ dashes \in [payload : BOOLEAN, signature : BOOLEAN]
  /\ read = Nothing

Next == Get \/ Garble \/ ReadAndVerify \/ \E claim \in Reserved : SetClaim(claim)

Spec == Init /\ [][Next]_tokenVars

-----------------------------------------------------------------------------
(***************************************************************************)
(* Properties                                                              *)
(***************************************************************************)

\* Between get() and read_and_verify(): exactly the tokens of HS256 with the same
\* secret and no digit 62 or 63 in payload and signature are read back, with the
\* payload and the reserved claims they were written with; the status tells what is
\* wrong with a string or a header, and neither algorithm nor payload is taken then.
ReadIsWritten ==
  status \in ReadStatuses =>
    /\ status = "OK" <=> /\ Kept /\ jwt.alg = "HS256" /\ jwt.secret = secret
                         /\ dashes = [payload |-> FALSE, signature |-> FALSE]
    /\ status = "OK" => read = [alg |-> jwt.alg, payload |-> jwt.payload \cup set]
    /\ ~Kept => read = Nothing
    /\ status \in {"INVALID_STRING", "INVALID_HEADER", "INVALID_ALGORITHM"} => ~Kept

\* Refuted: a token read with its own secret is accepted.
WrittenIsAccepted ==
  status \in ReadStatuses /\ Kept /\ secret = jwt.secret => status = "OK"
=============================================================================
