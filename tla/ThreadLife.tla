----------------------------- MODULE ThreadLife -----------------------------
(***************************************************************************)
(* What winterwind's class Thread (include/core/utils/threads.h) promises  *)
(* to its clients, without the mutexes and flags that realise it.  A       *)
(* worker is absent, being started, running its run(), or ended; it is     *)
(* reaped (joined) before another one can be created.  The stop request    *)
(* is cleared only while no worker exists.                                 *)
(***************************************************************************)
CONSTANTS EndsAlone,   \* run() may return although nobody asked it to stop
          Cancellable  \* run() contains a pthread cancellation point

VARIABLES life,        \* "absent", "starting", "running" or "ended"
          stopping,    \* what is_stopping() returns
          killed       \* the worker was hard-killed

lifeVars == <<life, stopping, killed>>

TypeOK == /\ life \in {"absent", "starting", "running", "ended"}
          /\ stopping \in BOOLEAN
          /\ killed \in BOOLEAN

Init == life = "absent" /\ stopping = FALSE /\ killed = FALSE

\* start() forgets stop requests made for an earlier worker.
Forget == /\ life = "absent"
          /\ stopping' = FALSE
          /\ UNCHANGED <<life, killed>>

Create == /\ life = "absent"
          /\ life' = "starting"
          /\ UNCHANGED <<stopping, killed>>

\* The worker calls ThreadStarted().
Announce == /\ life = "starting"
            /\ life' = "running"
            /\ UNCHANGED <<stopping, killed>>

Stop == stopping' = TRUE /\ UNCHANGED <<life, killed>>

\* A worker can be killed only once start() has seen it announced.
Kill == /\ life \in {"running", "ended"}
        /\ killed' = TRUE
        /\ UNCHANGED <<life, stopping>>

End == /\ life = "running"
       /\ EndsAlone \/ stopping \/ (killed /\ Cancellable)
       /\ life' = "ended"
       /\ UNCHANGED <<stopping, killed>>

Reap == /\ life = "ended"
        /\ life' = "absent"
        /\ killed' = FALSE
        /\ UNCHANGED stopping

Next == Forget \/ Create \/ Announce \/ Stop \/ Kill \/ End \/ Reap

Spec == Init /\ [][Next]_lifeVars
=============================================================================
