-------------------------------- MODULE Text --------------------------------
(***************************************************************************)
(* The helpers of stringutils.cpp and http::Server::parse_post_data(), as  *)
(* functions on sequences of characters.                                   *)
(***************************************************************************)
EXTENDS Naturals, Sequences, SequencesExt

CONSTANTS
  Separators,  \* the characters of IF_WORD_SEPARATOR
  Spaces       \* those of isspace()

\* str_split(): what is after the last delimiter is dropped if it is empty.
SplitAt(str, delim) ==
  LET step(r, c) == IF c = delim THEN Append(r, <<>>) ELSE [r EXCEPT ![Len(r)] = Append(@, c)]
      items == FoldLeft(step, <<<<>>>>, str)
  IN  IF Last(items) = <<>> THEN Front(items) ELSE items

\* src.find(pattern), 0 for npos.
FindIn(str, pattern) ==
  LET at == {i \in 1..(Len(str) - Len(pattern) + 1) :
               SubSeq(str, i, i + Len(pattern) - 1) = pattern}
  IN  IF at = {} THEN 0 ELSE CHOOSE i \in at : \A j \in at : i <= j

\* replace(): the first one; FALSE is returned if there is none.
ReplaceFirst(str, from, to) ==
  LET i == FindIn(str, from)
  IN  IF i = 0 THEN str ELSE SubSeq(str, 1, i - 1) \o to \o SubSeq(str, i + Len(from), Len(str))

\* A mutant: one pass from the left to the right.
RECURSIVE RemoveSubstr_Once(_, _)
RemoveSubstr_Once(str, pattern) ==
  LET i == FindIn(str, pattern)
  IN  IF i = 0 THEN str
      ELSE SubSeq(str, 1, i - 1)
             \o RemoveSubstr_Once(SubSeq(str, i + Len(pattern), Len(str)), pattern)

\* str_remove_substr(): the search starts anew after each; not for an empty
\* pattern, with which it never ends.
RECURSIVE RemoveSubstr(_, _)
RemoveSubstr(str, pattern) ==
  IF FindIn(str, pattern) = 0 THEN str
  ELSE RemoveSubstr(ReplaceFirst(str, pattern, <<>>), pattern)

\* count_words()
CountWords(str) ==
  LET step(r, c) == [n |-> IF c \in Separators /\ ~r.sep THEN r.n + 1 ELSE r.n,
                     sep |-> c \in Separators]
  IN  FoldLeft(step, [n |-> 1, sep |-> FALSE], str).n

\* The end of split_string_to_words(): a word no separator follows.
WordsEnd(r) == IF r.sep THEN r.words ELSE Append(r.words, r.buf)

\* split_string_to_words()
SplitToWords(str) ==
  LET step(r, c) ==
        IF c \in Separators
        THEN [words |-> IF r.sep THEN r.words ELSE Append(r.words, r.buf),
              buf |-> IF r.sep THEN r.buf ELSE <<>>, sep |-> TRUE]
        ELSE [r EXCEPT !.buf = Append(@, c), !.sep = FALSE]
  IN  WordsEnd(FoldLeft(step, [words |-> <<>>, buf |-> <<>>, sep |-> FALSE], str))

\* trim()
Trim(str) ==
  LET word == {i \in DOMAIN str : str[i] \notin Spaces}
  IN  IF word = {} THEN <<>>
      ELSE SubSeq(str, CHOOSE i \in word : \A j \in word : i <= j,
                       CHOOSE i \in word : \A j \in word : i >= j)

\* A key and a value, and neither is empty.
IsPair(kv) == Len(kv) = 2 /\ kv[1] # <<>> /\ kv[2] # <<>>

\* Server::parse_post_data(): whether the data is a form; the last value of a key.
ParsePostData(data) ==
  LET fields == SplitAt(data, "&")
      kv(i) == SplitAt(fields[i], "=")
      keys == {kv(i)[1] : i \in DOMAIN fields}
      last(k) == CHOOSE i \in DOMAIN fields :
                   /\ kv(i)[1] = k
                   /\ \A j \in DOMAIN fields : kv(j)[1] = k => j <= i
  IN  IF \E i \in DOMAIN fields : fields[i] = <<>> \/ ~IsPair(kv(i))
      THEN [ok |-> FALSE]
      ELSE [ok |-> TRUE, post |-> [k \in keys |-> kv(last(k))[2]]]

-----------------------------------------------------------------------------
(***************************************************************************)
(* Properties, of the text given                                           *)
(***************************************************************************)

\* count_words() counts the words split_string_to_words() finds, and one more after
\* a separator at the end (stringutils.cpp:54, 72); no word has a separator.
WordsAreCounted(str) ==
  /\ CountWords(str) = Len(SplitToWords(str))
                         + (IF str # <<>> /\ Last(str) \in Separators THEN 1 ELSE 0)
  /\ \A i \in DOMAIN SplitToWords(str) : \A j \in DOMAIN SplitToWords(str)[i] :
       SplitToWords(str)[i][j] \notin Separators

\* Nothing str_remove_substr() leaves joins to the pattern, as the tokens rely on.
NothingIsLeft(str, pattern) == FindIn(RemoveSubstr(str, pattern), pattern) = 0

\* A form that is accepted, written again field by field, is what was posted but
\* for fields whose key comes again and a last "&" or "=" (httpserver.cpp:199).
FormIsWhatWasPosted(data) ==
  LET form == ParsePostData(data)
      field(k) == k \o <<"=">> \o form.post[k]
  IN  form.ok =>
        /\ \A k \in DOMAIN form.post : FindIn(data, field(k)) # 0
        /\ Len(SelectSeq(data, LAMBDA c : c = "=")) <= 2 * Len(SplitAt(data, "&"))
        /\ Cardinality(DOMAIN form.post) <= Len(SplitAt(data, "&"))

\* Refuted: a form that is accepted has one "=" in each field.
OneEqualsEach(data) ==
  ParsePostData(data).ok =>
    Len(SelectSeq(data, LAMBDA c : c = "=")) = Len(SplitAt(data, "&"))
=============================================================================
