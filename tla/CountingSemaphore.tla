------------------------- MODULE CountingSemaphore -------------------------
(***************************************************************************)
(* What rtos::semaphore promises to its callers, without lists, wake-ups   *)
(* or critical sections: a counter bounded by max_value, and calls to      *)
(* wait() that return either with one unit taken or, when the caller was   *)
(* interrupted or its timeout is over, with an error and nothing taken.    *)
(***************************************************************************)
EXTENDS Integers

CONSTANTS Threads, MaxValue, InitialValue,
          Killable   \* threads that may be destroyed while they wait

VARIABLES value,     \* units that can be taken
          waiting,   \* threads inside wait() or timed_wait()
          excused    \* threads whose wait may fail

vars == <<value, waiting, excused>>

Init ==
  /\ value = InitialValue
  /\ waiting = {}
  /\ excused = {}

Enter(t) ==
  /\ t \notin waiting
  /\ value = 0
  /\ waiting' = waiting \union {t}
  /\ UNCHANGED value

Take(t) ==
  /\ value > 0
  /\ value' = value - 1
  /\ waiting' = waiting \ {t}

Fail(t) ==
  /\ t \in waiting
  /\ t \in excused
  /\ waiting' = waiting \ {t}
  /\ UNCHANGED value

\* A thread destroyed in the middle of a wait takes nothing.
Leave(t) ==
  /\ t \in waiting
  /\ waiting' = waiting \ {t}
  /\ UNCHANGED value

Post ==
  /\ value < MaxValue
  /\ value' = value + 1
  /\ UNCHANGED waiting

Reset ==
  /\ value' = InitialValue
  /\ UNCHANGED waiting

\* Interrupts and the clock change who is excused, and nothing else.
Excuse == UNCHANGED <<value, waiting>>

Next ==
  \/ \E t \in Threads : Enter(t) \/ Take(t) \/ Fail(t)
  \/ \E t \in Killable : Leave(t)
  \/ Post
  \/ Reset
  \/ Excuse

Spec == Init /\ [][Next]_vars
=============================================================================
