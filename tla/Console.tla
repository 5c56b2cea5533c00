------------------------------ MODULE Console ------------------------------
(***************************************************************************)
(* ConsoleThreads, their completions, and the one readline they share.     *)
(*                                                                         *)
(* A console reads lines and hands them to its handler; at a tab, readline *)
(* calls the generator, which asks the console in g_console_thread for one *)
(* completion at a time, while other threads add completions.  readline    *)
(* is external; the threads are those of Thread.                           *)
(***************************************************************************)
EXTENDS Naturals, Sequences, SequencesExt

CONSTANTS
  Consoles,
  Words,      \* the completions
  MaxLines,   \* bound: lines typed on a console
  NoConsole   \* the null pointer

ConsoleConstants == NoConsole \notin Consoles /\ MaxLines \in Nat

VARIABLES
  pc,                \* of run(): none, line, tab, ended
  stopping,
  g_console_thread,
  m_completions,
  text,              \* the completions that begin with what is typed
  list_index,        \* static, of the generator
  asked,             \* the console the generator began with
  before, offered,   \* its completions then, and those that were given
  typed, enqueued,   \* the lines typed, and those handed to the handler
  failed             \* an assertion failed

consoleVars == <<pc, stopping, g_console_thread, m_completions, text, list_index, asked,
                 before, offered, typed, enqueued, failed>>

generator == <<text, list_index, asked, before, offered>>

TypeOK ==
  /\ pc \in [Consoles -> {"none", "line", "tab", "ended"}]
  /\ stopping \in [Consoles -> BOOLEAN]
  /\ g_console_thread \in Consoles \cup {NoConsole}
  /\ \A c \in Consoles : Range(m_completions[c]) \subseteq Words
  /\ list_index \in 0..Len(offered) + Cardinality(Words)
  /\ typed \in [Consoles -> 0..MaxLines] /\ failed \in BOOLEAN

-----------------------------------------------------------------------------
Start(c) ==
  /\ pc[c] = "none" /\ g_console_thread' = c /\ pc' = [pc EXCEPT ![c] = "line"]
  /\ UNCHANGED <<stopping, m_completions, generator, typed, enqueued, failed>>

\* readline() returns a line with text, one without, or none at the end of the
\* file, of which run() takes no notice; stop() is noticed after that.
Line(c) ==
  /\ pc[c] = "line"
  /\ \/ /\ typed[c] < MaxLines /\ typed' = [typed EXCEPT ![c] = @ + 1]
        /\ enqueued' = [enqueued EXCEPT ![c] = Append(@, typed[c] + 1)]
     \/ UNCHANGED <<typed, enqueued>>
  /\ \/ stopping[c] /\ pc' = [pc EXCEPT ![c] = "ended"] /\ g_console_thread' = NoConsole
     \/ ~stopping[c] /\ UNCHANGED <<pc, g_console_thread>>
  /\ UNCHANGED <<stopping, m_completions, generator, failed>>

\* A tab at the start of the line, after the beginning of the words of w.
Tab(c) ==
  /\ pc[c] = "line" /\ \A d \in Consoles : pc[d] # "tab"
  /\ \E w \in SUBSET Words :
       IF g_console_thread = NoConsole THEN failed' = TRUE /\ UNCHANGED <<pc, generator>>
       ELSE /\ pc' = [pc EXCEPT ![c] = "tab"]
            /\ text' = w /\ list_index' = 0 /\ offered' = <<>>
            /\ asked' = g_console_thread
            /\ before' = Range(m_completions[g_console_thread])
            /\ UNCHANGED failed
  /\ UNCHANGED <<stopping, g_console_thread, m_completions, typed, enqueued>>

\* A mutant: what was given is looked at again.
NextIndex_Again(given) == IF given THEN list_index ELSE list_index + 1

NextIndex(given) == list_index + 1

\* One get_completion() of console_rl_generator(), under the lock of the console:
\* the word is given when it fits; there is none behind the last.
Generate(c) ==
  LET g == g_console_thread IN
  /\ pc[c] = "tab"
  /\ \/ g = NoConsole /\ failed' = TRUE /\ pc' = [pc EXCEPT ![c] = "ended"] /\ UNCHANGED generator
     \/ /\ g # NoConsole /\ list_index < Len(m_completions[g])
        /\ LET word == m_completions[g][list_index + 1] IN
           /\ offered' = IF word \in text THEN Append(offered, word) ELSE offered
           /\ list_index' = NextIndex(word \in text)
        /\ UNCHANGED <<pc, text, asked, before, failed>>
     \/ /\ g # NoConsole /\ list_index >= Len(m_completions[g])
        /\ pc' = [pc EXCEPT ![c] = "line"] /\ UNCHANGED <<generator, failed>>
  /\ UNCHANGED <<stopping, g_console_thread, m_completions, typed, enqueued>>

\* add_completion(), by any thread.
AddCompletion(c, w) ==
  /\ m_completions' =
       [m_completions EXCEPT ![c] = IF w \in Range(@) THEN @ ELSE Append(@, w)]
  /\ UNCHANGED <<pc, stopping, g_console_thread, generator, typed, enqueued, failed>>

Stop(c) ==
  /\ ~stopping[c] /\ stopping' = [stopping EXCEPT ![c] = TRUE]
  /\ UNCHANGED <<pc, g_console_thread, m_completions, generator, typed, enqueued, failed>>

-----------------------------------------------------------------------------
Init ==
  /\ pc = [c \in Consoles |-> "none"] /\ stopping = [c \in Consoles |-> FALSE]
  /\ g_console_thread = NoConsole /\ m_completions = [c \in Consoles |-> <<>>]
  /\ text = {} /\ list_index = 0 /\ asked = NoConsole /\ before = {} /\ offered = <<>>
  /\ typed = [c \in Consoles |-> 0] /\ enqueued = [c \in Consoles |-> <<>>] /\ failed = FALSE

Next ==
  \E c \in Consoles :
    \/ Start(c) \/ Line(c) \/ Tab(c) \/ Generate(c) \/ Stop(c)
    \/ \E w \in Words : AddCompletion(c, w)

Spec == Init /\ [][Next]_consoleVars

-----------------------------------------------------------------------------
(***************************************************************************)
(* Properties                                                              *)
(***************************************************************************)

\* At a tab, every completion the console had then that fits is offered, and none
\* twice, although completions are added between the calls of the generator; unless
\* another console takes the place of the one that was asked.
CompletionsOnce ==
  asked = g_console_thread =>
    /\ \A i, j \in DOMAIN offered : offered[i] = offered[j] => i = j
    /\ (\A c \in Consoles : pc[c] # "tab") => before \cap text \subseteq Range(offered)

\* Refuted with two consoles: the generator has a console to ask.
GeneratorHasConsole == ~failed
=============================================================================
