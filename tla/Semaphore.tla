------------------------------ MODULE Semaphore -----------------------------
(***************************************************************************)
(* The Semaphore over sem_t: threads post and wait, without end or for     *)
(* some milliseconds.  sem_t and the clock are external.                   *)
(***************************************************************************)
EXTENDS Integers, FiniteSets

CONSTANTS
  Threads,
  Waits,     \* values of time_ms
  Now,       \* values of the clock, in microseconds
  MaxPosts   \* bound: posts

SemaphoreConstants == Waits \subseteq Nat /\ Now \subseteq Nat /\ MaxPosts \in Nat

VARIABLES
  value,     \* of the semaphore
  posts,     \* how often it was posted
  waiting,   \* of a thread: none, forever or timed
  until,     \* wait_time: seconds and nanoseconds
  due,       \* when its wait() should end, in nanoseconds
  passed     \* the waits that returned true

semaphoreVars == <<value, posts, waiting, until, due, passed>>

TypeOK ==
  /\ value \in 0..MaxPosts /\ posts \in 0..MaxPosts
  /\ waiting \in [Threads -> {"none", "forever", "timed"}]
  /\ until \in [Threads -> [sec : Nat, nsec : Nat]] /\ due \in [Threads -> Nat]
  /\ passed \in Nat

-----------------------------------------------------------------------------
\* A mutant: the nanoseconds are not carried.
Deadline_NoCarry(time_ms, now) ==
  [sec |-> time_ms \div 1000 + now \div 1000000,
   nsec |-> (time_ms % 1000) * 1000000 + (now % 1000000) * 1000]

\* wait_time, of wait(time_ms) at the time now.
Deadline(time_ms, now) ==
  LET nsec == (time_ms % 1000) * 1000000 + (now % 1000000) * 1000
  IN  [sec |-> time_ms \div 1000 + nsec \div 1000000000 + now \div 1000000,
       nsec |-> nsec % 1000000000]

\* post(num)
Post(num) ==
  /\ posts + num <= MaxPosts /\ posts' = posts + num /\ value' = value + num
  /\ UNCHANGED <<waiting, until, due, passed>>

\* wait() begins
Wait(t) ==
  /\ waiting[t] = "none" /\ waiting' = [waiting EXCEPT ![t] = "forever"]
  /\ UNCHANGED <<value, posts, until, due, passed>>

\* wait(time_ms) begins
TimedWait(t, time_ms, now) ==
  /\ waiting[t] = "none" /\ waiting' = [waiting EXCEPT ![t] = "timed"]
  /\ until' = [until EXCEPT ![t] = Deadline(time_ms, now)]
  /\ due' = [due EXCEPT ![t] = now * 1000 + time_ms * 1000000]
  /\ UNCHANGED <<value, posts, passed>>

\* sem_wait() or sem_timedwait() has decremented.
Pass(t) ==
  /\ waiting[t] # "none" /\ value > 0 /\ value' = value - 1 /\ passed' = passed + 1
  /\ waiting' = [waiting EXCEPT ![t] = "none"]
  /\ UNCHANGED <<posts, until, due>>

\* sem_timedwait() ends with ETIMEDOUT or EINTR: wait() returns false.
GiveUp(t) ==
  /\ waiting[t] = "timed" /\ waiting' = [waiting EXCEPT ![t] = "none"]
  /\ UNCHANGED <<value, posts, until, due, passed>>

Init ==
  /\ value = 0 /\ posts = 0 /\ waiting = [t \in Threads |-> "none"]
  /\ until = [t \in Threads |-> [sec |-> 0, nsec |-> 0]] /\ due = [t \in Threads |-> 0]
  /\ passed = 0

Next ==
  \/ \E num \in 1..MaxPosts : Post(num)
  \/ \E t \in Threads :
       \/ Wait(t) \/ Pass(t) \/ GiveUp(t)
       \/ \E time_ms \in Waits, now \in Now : TimedWait(t, time_ms, now)

Spec == Init /\ [][Next]_semaphoreVars

-----------------------------------------------------------------------------
(***************************************************************************)
(* Properties                                                              *)
(***************************************************************************)

\* A timed wait ends when it should, to the nanosecond, and sem_timedwait() takes
\* its wait_time, whose nanoseconds are less than a second (semaphore.cpp:84).
DeadlineIsExact ==
  \A t \in Threads : waiting[t] = "timed" =>
    /\ until[t].nsec < 1000000000
    /\ until[t].sec * 1000000000 + until[t].nsec = due[t]
=============================================================================
