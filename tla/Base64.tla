------------------------------- MODULE Base64 -------------------------------
(***************************************************************************)
(* base64_encode(), base64_urlencode() and the two decoders, as functions  *)
(* on sequences of bytes.  A character is a number: that of its digit for  *)
(* the 62 digits the alphabets share, 62 and 63 for "+" and "/", 64 and 65 *)
(* for "-" and "_", Equals for "=".                                        *)
(***************************************************************************)
EXTENDS Integers, Sequences

Bytes == 0..255
Digits == 0..63
Equals == 66
Characters == 0..Equals

\* chars[d], of the alphabet of base64url_chars or of base64_chars.
Character(d, url) == IF url /\ d >= 62 THEN d + 2 ELSE d

\* is_base64(), for both alphabets: it knows "+" and "/" only.
IsBase64(c) == c < 64

\* (unsigned char) chars.find(c): npos becomes 255.
Find(c, url) ==
  CASE c < 62 -> c
    [] c \in {62, 63} -> IF url THEN 255 ELSE c
    [] c \in {64, 65} -> IF url THEN c - 2 ELSE 255
    [] OTHER -> 255

-----------------------------------------------------------------------------
\* A mutant: the third byte is shifted by one bit less.
DigitsOf_Shift(b) ==
  << b[1] \div 4, (b[1] % 4) * 16 + b[2] \div 16, ((b[2] % 16) * 4 + b[3] \div 32) % 64,
     b[3] % 64 >>

\* The four digits of three bytes, and the three bytes of four digits, in the
\* width of an unsigned char.
DigitsOf(b) ==
  << b[1] \div 4,
     (b[1] % 4) * 16 + b[2] \div 16,
     (b[2] % 16) * 4 + b[3] \div 64,
     b[3] % 64 >>

BytesOf(d) ==
  << (d[1] * 4 + ((d[2] \div 16) % 4)) % 256,
     ((d[2] % 16) * 16 + ((d[3] \div 4) % 16)) % 256,
     ((d[3] % 4) * 64 + d[4]) % 256 >>

\* The group of n elements of s that the k-th element of what comes out of it
\* belongs to, m elements at a time; what is missing at the end is none.
GroupOf(s, k, n, m, none) ==
  LET first == ((k - 1) \div m) * n
  IN  [i \in 1..n |-> IF first + i <= Len(s) THEN s[first + i] ELSE none]

\* base64_encode_priv(): a last group of i bytes gives i + 1 digits, then "=".
Encode(bytes, url) ==
  LET n == (Len(bytes) * 8 + 5) \div 6
      digit(k) == DigitsOf(GroupOf(bytes, k, 3, 4, 0))[1 + ((k - 1) % 4)]
  IN  [k \in 1..n |-> Character(digit(k), url)]
        \o [k \in 1..((4 - (n % 4)) % 4) |-> Equals]

\* The loop of base64_decode_priv() ends before the first character that is not
\* of the alphabet; a last group of i characters gives i - 1 bytes.
Decode(text, url) ==
  LET stop == {k \in 1..Len(text) : ~IsBase64(text[k])}
      n == IF stop = {} THEN Len(text) ELSE (CHOOSE k \in stop : \A l \in stop : k <= l) - 1
      read == [k \in 1..n |-> Find(text[k], url)]
  IN  [k \in 1..((n * 6) \div 8) |-> BytesOf(GroupOf(read, k, 4, 3, 255))[1 + ((k - 1) % 3)]]

-----------------------------------------------------------------------------
(***************************************************************************)
(* Properties, of the bytes given                                          *)
(***************************************************************************)

\* What base64_encode() writes, of any length and with any bytes, base64_decode()
\* reads; base64_urlencode() and base64_urldecode() agree up to the first "-" or
\* "_", where the decoder stops (base64.cpp:30, 102).
DecodedIsEncoded(bytes) ==
  /\ Decode(Encode(bytes, FALSE), FALSE) = bytes
  /\ LET text == Encode(bytes, TRUE)
         read == Decode(text, TRUE)
         special == {k \in 1..Len(text) : text[k] \in {64, 65}}
         before == IF special = {} THEN Len(text) ELSE (CHOOSE k \in special :
                     \A l \in special : k <= l) - 1
     IN  /\ read = SubSeq(bytes, 1, Len(read))
         /\ special = {} => read = bytes
         /\ special # {} => Len(read) = (before * 6) \div 8

\* Refuted: base64_urldecode() reads what base64_urlencode() writes.
UrlDecodedIsEncoded(bytes) == Decode(Encode(bytes, TRUE), TRUE) = bytes
=============================================================================
