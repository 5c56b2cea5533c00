----------------------------- MODULE AtMostOnce ------------------------------
(***************************************************************************)
(* What a call over a network promises: its request is carried out at most *)
(* once, by a service that may do so when the call has ended without an    *)
(* answer, and a call that says "served" ended when that had been done.    *)
(***************************************************************************)
EXTENDS Naturals

CONSTANT Request  \* the numbers of the requests, in the order they are made

VARIABLES
  asked,    \* the number of requests made
  calling,  \* does the call of the last one go on?
  pending,  \* the requests that may still be carried out
  times,    \* how often each was
  outcome   \* what the last call said: none, served, unknown

Init ==
  /\ asked = 0 /\ calling = FALSE /\ pending = {} /\ outcome = "none"
  /\ times = [i \in Request |-> 0]

Ask ==
  /\ ~calling /\ asked + 1 \in Request
  /\ asked' = asked + 1 /\ calling' = TRUE /\ outcome' = "none"
  /\ pending' = pending \cup {asked + 1}
  /\ UNCHANGED times

\* The service carries a request out, whether or not its call goes on.
Serve ==
  \E i \in pending :
    /\ pending' = pending \ {i} /\ times' = [times EXCEPT ![i] = @ + 1]
    /\ UNCHANGED <<asked, calling, outcome>>

\* The service refuses a request, or loses it.
Lose ==
  \E i \in pending : pending' = pending \ {i} /\ UNCHANGED <<asked, calling, times, outcome>>

\* The call ends: with an answer, or without one; the request may be taken back.
Return ==
  /\ calling /\ ~calling'
  /\ outcome' \in (IF times[asked] > 0 THEN {"served", "unknown"} ELSE {"unknown"})
  /\ pending' \in {pending, pending \ {asked}}
  /\ UNCHANGED <<asked, times>>

Next == Ask \/ Serve \/ Lose \/ Return

Spec == Init /\ [][Next]_<<asked, calling, pending, times, outcome>>
=============================================================================
