------------------------------ MODULE LuaJson -------------------------------
(***************************************************************************)
(* LuaHelper: the values that cross the border between C++ and Lua.  A     *)
(* JSON value is <<"null">>, <<"int", n>>, <<"real", n>>, <<"bool", b>>,   *)
(* <<"string", s>>, <<"array", seq>> or <<"object", f>>, with f a function *)
(* on the names; a Lua value is <<"nil">>, <<"number", n>>,                *)
(* <<"boolean", b>>, <<"string", s>>, <<"userdata">> or <<"table", t>>     *)
(* with t a function on the keys <<"number", n>> and <<"string", s>>.      *)
(***************************************************************************)
EXTENDS Integers, Sequences, FiniteSets, FiniteSetsExt

CONSTANTS
  MaxRecursion,  \* 16 in the code
  SlotsPerLevel  \* 2 in the code

Nested(v) == v[1] \in {"array", "object"}
Elements(v) == {v[2][k] : k \in DOMAIN v[2]}

\* push_json_value_getdepth()
RECURSIVE Depth(_)
Depth(v) == IF Nested(v) THEN 1 + Max({Depth(e) : e \in Elements(v)} \cup {0}) ELSE 1

\* The integer read<T>() finds, of w bits: (T) lua_tointeger().
ReadInteger(n, w, signed) ==
  LET m == n % 2^w IN IF signed /\ m >= 2^(w - 1) THEN m - 2^w ELSE m

\* write<T>(): lua_Integer is wide enough for what it is given here.
WriteInteger(n) == <<"number", n>>

\* A table never holds a nil: setting a key to nil leaves it out.
Table(t) == LET kept == {k \in DOMAIN t : t[k] # <<"nil">>} IN <<"table", [k \in kept |-> t[k]]>>

\* lua_rawseti(L, -2, it.index() + 1)
IndexOf(i) == <<"number", i>>

\* push_json_value_helper(): a null is the value at nullindex, which write() puts
\* at the top of the stack: whatever is there.
RECURSIVE Push(_, _)
Push(v, top) ==
  CASE v[1] \in {"int", "real"} -> WriteInteger(v[2])
    [] v[1] = "bool" -> <<"boolean", v[2]>>
    [] v[1] = "string" -> v
    [] v[1] = "array" ->
         Table([k \in {IndexOf(i) : i \in DOMAIN v[2]} |->
                  Push(v[2][CHOOSE i \in DOMAIN v[2] : IndexOf(i) = k], top)])
    [] v[1] = "object" -> Table([k \in {<<"string", n>> : n \in DOMAIN v[2]} |->
                                   Push(v[2][k[2]], top)])
    [] OTHER -> top

\* The slots of the stack push_json_value_helper() uses: a table is there while its
\* elements are made, and of an object the name too.
RECURSIVE Slots(_)
Slots(v) ==
  IF Nested(v)
  THEN 1 + Max({Slots(e) + (IF v[1] = "object" THEN 1 ELSE 0) : e \in Elements(v)} \cup {0})
  ELSE 1

-----------------------------------------------------------------------------
Failed == [ok |-> FALSE, value |-> <<"null">>]
ReadAs(v) == [ok |-> TRUE, value |-> v]

\* A table whose keys are numbers from 1 on becomes an array, null where there is
\* none; one of strings an object; one of both is refused; an empty one is null.
TableAs(t) ==
  LET keys == DOMAIN t
      numbers == {k[2] : k \in {l \in keys : l[1] = "number"}}
  IN  CASE keys = {} -> ReadAs(<<"null">>)
        [] numbers # {} /\ Cardinality(numbers) < Cardinality(keys) -> Failed
        [] numbers # {} /\ Cardinality(numbers) = Cardinality(keys) ->
             IF \E n \in numbers : n < 1 THEN Failed
             ELSE ReadAs(<<"array", [i \in 1..Max(numbers) |->
                    IF i \in numbers THEN t[<<"number", i>>] ELSE <<"null">>]>>)
        [] OTHER -> ReadAs(<<"object", [n \in {k[2] : k \in keys} |-> t[<<"string", n>>]]>>)

\* read_json_value(); numbers become real.
RECURSIVE Read(_, _)
Read(v, recursion) ==
  CASE recursion > MaxRecursion -> Failed
    [] recursion <= MaxRecursion /\ v[1] = "table" ->
         LET element == [k \in DOMAIN v[2] |-> Read(v[2][k], recursion + 1)]
         IN  IF \E k \in DOMAIN v[2] : ~element[k].ok THEN Failed
             ELSE TableAs([k \in DOMAIN v[2] |-> element[k].value])
    [] recursion <= MaxRecursion /\ v[1] = "number" -> ReadAs(<<"real", v[2]>>)
    [] recursion <= MaxRecursion /\ v[1] = "boolean" -> ReadAs(<<"bool", v[2]>>)
    [] recursion <= MaxRecursion /\ v[1] = "string" -> ReadAs(v)
    [] recursion <= MaxRecursion /\ v[1] = "nil" -> ReadAs(<<"null">>)
    [] OTHER -> Failed

\* The strings of a vector, written by write() and read by read(): an entry that
\* is no string is read as "".
WriteStrings(s) == Table([k \in {IndexOf(i) : i \in DOMAIN s} |-> <<"string", s[k[2]]>>])
ReadStrings(v) == [k \in DOMAIN v[2] |-> IF v[2][k][1] = "string" THEN v[2][k][2] ELSE ""]

-----------------------------------------------------------------------------
(***************************************************************************)
(* Properties, of the JSON value given                                     *)
(***************************************************************************)

RECURSIVE HasNull(_)
HasNull(v) == v[1] = "null" \/ (Nested(v) /\ \E e \in Elements(v) : HasNull(e))

\* The value as it is without integers and without empty arrays and objects.
RECURSIVE Plain(_)
Plain(v) ==
  CASE v[1] = "int" -> <<"real", v[2]>>
    [] Nested(v) /\ Elements(v) = {} -> <<"null">>
    [] Nested(v) /\ Elements(v) # {} -> <<v[1], [k \in DOMAIN v[2] |-> Plain(v[2][k])]>>
    [] OTHER -> v

\* A JSON value without null that is written to Lua and read back is the same, its
\* numbers real and its empty arrays and objects null, exactly if it is not
\* deeper than read_json_value() goes (luahelper.cpp:215, 299).
ReadIsPushed(v) ==
  ~HasNull(v) =>
    Read(Push(v, <<"nil">>), 1) = IF Depth(v) <= MaxRecursion THEN ReadAs(Plain(v)) ELSE Failed

\* The slots push_json_value() asks for are enough (luahelper.cpp:277).
SlotsSuffice(v) == Slots(v) <= Depth(v) * SlotsPerLevel

\* Refuted: a value with a null is read back, whatever is on the stack.
NullStays(v) == HasNull(v) => Read(Push(v, <<"userdata">>), 1).ok
=============================================================================
