------------------------------ MODULE MCLibrary ------------------------------
(***************************************************************************)
(* The library for TLC, with the inputs of its pure functions; and those   *)
(* of the functions that are recursive.                                    *)
(***************************************************************************)
EXTENDS Library

CONSTANTS k1, f1, f2, w1, w2, c1, d1, d2

LuaJson == INSTANCE LuaJson WITH MaxRecursion <- 3, SlotsPerLevel <- 2
Text == INSTANCE Text WITH Separators <- {" ", "."}, Spaces <- {" "}

-----------------------------------------------------------------------------
\* The values of the properties of a message.
PropertyValues == {<<"a">>, <<"b", "nul", "c">>}

\* The inputs: texts of up to five characters, bytes that give the digits at the
\* ends of the alphabets, JSON values with up to four levels.
UpTo(n, S) == UNION {[1..k -> S] : k \in 0..n}
SomeTexts == UpTo(4, {"a", "b", " ", "."}) \cup UpTo(6, {"a", "=", "&"})
SomeBytes == UpTo(4, {0, 62, 251, 255})

Scalars == {<<"null">>, <<"int", 7>>, <<"bool", TRUE>>, <<"string", "s">>}
Over(S, n) == {<<"array", a>> : a \in UpTo(n, S)}
                \cup {<<"object", o>> : o \in UNION {[K -> S] : K \in {{}, {"k"}, {"l"}}}}
Pairs == {<<"object", o>> : o \in [{"k", "l"} -> Scalars]}
Level2 == Over(Scalars, 2) \cup Pairs
Level3 == Over(Level2, 1)
SomeValues == Scalars \cup Level2 \cup Level3 \cup Over(Level3, 1)
            \cup {<<"array", <<a, b>>>> : a \in {<<"int", 7>>, <<"string", "s">>}, b \in Level3}

-----------------------------------------------------------------------------
\* Of every text: words are counted as they are split (stringutils.cpp:54, 72),
\* nothing that is removed is left (stringutils.cpp:46), and a form is what was
\* posted (httpserver.cpp:199).  JSON is the same in Lua and back with room on the
\* stack (luahelper.cpp:215, 269, 299), and integers are in their width.
TextsHold ==
  /\ subject = "text" =>
       /\ Text!WordsAreCounted(input)
       /\ \A p \in {<<"a">>, <<"a", "b">>, <<"=", "a">>} : Text!NothingIsLeft(input, p)
       /\ Text!FormIsWhatWasPosted(input)
  /\ subject = "json" =>
       /\ LuaJson!ReadIsPushed(input) /\ LuaJson!SlotsSuffice(input)
       /\ input = <<"null">> =>
            \A n \in 0..255 : LuaJson!ReadInteger(LuaJson!WriteInteger(n)[2], 8, FALSE) = n

\* Refuted.
NullStays == subject = "json" => LuaJson!NullStays(input)
OneEqualsEach == subject = "text" => Text!OneEqualsEach(input)
=============================================================================
