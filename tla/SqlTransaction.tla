--------------------------- MODULE SqlTransaction ---------------------------
(***************************************************************************)
(* What begin(), commit() and rollback() of a database client promise      *)
(* (database.h:54-67): what is written between the first and one of the    *)
(* others is there to stay all at once, at commit(), or not at all.  The   *)
(* work of a transaction may be lost at any time, with its session.        *)
(***************************************************************************)
CONSTANT Writes

VARIABLES open, work, durable

Init == open = FALSE /\ work = {} /\ durable = {}

Begin == ~open /\ open' = TRUE /\ work' = {} /\ UNCHANGED durable

Write(w) ==
  /\ w \notin work \cup durable
  /\ IF open THEN work' = work \cup {w} /\ UNCHANGED durable
             ELSE durable' = durable \cup {w} /\ UNCHANGED work
  /\ UNCHANGED open

Lose == work' = {} /\ UNCHANGED <<open, durable>>

Commit == open /\ open' = FALSE /\ work' = {} /\ durable' \in {durable, durable \cup work}

Rollback == open /\ open' = FALSE /\ work' = {} /\ UNCHANGED durable

Next == Begin \/ (\E w \in Writes : Write(w)) \/ Lose \/ Commit \/ Rollback

Spec == Init /\ [][Next]_<<open, work, durable>>
=============================================================================
