------------------------------- MODULE Timers ------------------------------
(***************************************************************************)
(* rtos::timer (os-timer.cpp).  start() and stop() reach the clock list in *)
(* a critical section and write state_ outside it, the timer's function    *)
(* runs in the clock interrupt, which also moves a periodic timer in the   *)
(* list.  A timer is used by one thread, its controller, and is started    *)
(* again while it runs only if it is in Restarted: start() then writes the *)
(* timestamp of a node that is in the list.                                *)
(***************************************************************************)
EXTENDS Clocks

CONSTANTS Periods,     \* passed to start()
          Periodic,    \* timers of type run::periodic, the others run once
          Controller,  \* the thread that uses each timer
          Restarted    \* timers that are started while they run

ASSUME TimersAssumption ==
  /\ Periods \subseteq Nat /\ Periodic \subseteq Timers
  /\ Restarted \subseteq Timers /\ Controller \in [Timers -> Threads]

VARIABLES state,    \* state_ of each timer
          period    \* period_

timerVars == <<state, period>>

TimersInit ==
  /\ state = [tm \in Timers |-> "initialized"]
  /\ period = [tm \in Timers |-> 0]

\* start() and stop(), with the timer they are called on.
TimerCalls == [kind : {"timer"}, timed : {FALSE}, timer : Timers]

Linked(tm) == tm \in ToSet(clockList)

\* Mutant: the tick in progress is taken off the period.
StartStampShort(t, tm, p) ==
  /\ At(t, "app")
  /\ state[tm] # "destroyed"
  /\ Linked(tm) => tm \in Restarted
  /\ period' = [period EXCEPT ![tm] = p - 1]
  /\ SetStamp(tm, p - 1)
  /\ Begin(t, "starting", [kind |-> "timer", timed |-> FALSE, timer |-> tm])
  /\ UNCHANGED <<clockList, checking, suspended, state>>

\* The period and the timestamp are written before the critical section.
StartStamp(t, tm, p) ==
  /\ At(t, "app")
  /\ state[tm] # "destroyed"
  /\ Linked(tm) => tm \in Restarted
  /\ LET ticks == IF p = 0 THEN 1 ELSE p
     IN  period' = [period EXCEPT ![tm] = ticks] /\ SetStamp(tm, ticks)
  /\ Begin(t, "starting", [kind |-> "timer", timed |-> FALSE, timer |-> tm])
  /\ UNCHANGED <<clockList, checking, suspended, state>>

StartLink(t) ==
  /\ At(t, "starting")
  /\ LET tm == call[t].timer
     IN  clockList' = LinkStamp(Unlink(clockList, tm), tm, stamp)
  /\ Goto(t, "started")
  /\ UNCHANGED <<stamp, checking, suspended, call, timerVars>>

\* state_, which the interrupt may have written in between.
StartMark(t) ==
  /\ At(t, "started")
  /\ state' = [state EXCEPT ![call[t].timer] = "running"]
  /\ Return(t)
  /\ UNCHANGED <<clockVars, suspended, period>>

\* stop() of a timer that is running; EAGAIN changes nothing.
StopTest(t, tm) ==
  /\ At(t, "app")
  /\ state[tm] = "running"
  /\ Begin(t, "stopping", [kind |-> "timer", timed |-> FALSE, timer |-> tm])
  /\ UNCHANGED <<clockVars, suspended, timerVars>>

\* Mutant: state_ says it all, the node is left where it is.
StopUnlinkNothing(t) ==
  /\ At(t, "stopping")
  /\ Goto(t, "stopped")
  /\ UNCHANGED <<clockVars, suspended, call, timerVars>>

\* The timestamp of a node outside the list means nothing: the model keeps 0.
StopUnlink(t) ==
  /\ At(t, "stopping")
  /\ clockList' = Unlink(clockList, call[t].timer)
  /\ SetStamp(call[t].timer, 0)
  /\ Goto(t, "stopped")
  /\ UNCHANGED <<checking, suspended, call, timerVars>>

StopMark(t) ==
  /\ At(t, "stopped")
  /\ state' = [state EXCEPT ![call[t].timer] = "stopped"]
  /\ Return(t)
  /\ UNCHANGED <<clockVars, suspended, period>>

\* The destructor: unlinks the node if state_ says that the timer runs.
Destroy(t, tm) ==
  /\ At(t, "app")
  /\ state[tm] # "destroyed"
  /\ state' = [state EXCEPT ![tm] = "destroyed"]
  /\ clockList' = IF state[tm] = "running" THEN Unlink(clockList, tm)
                  ELSE clockList
  /\ SetStamp(tm, IF state[tm] = "running" THEN 0 ELSE stamp[tm])
  /\ UNCHANGED <<checking, threadVars, period>>

Construct(t, tm) ==
  /\ At(t, "app")
  /\ state[tm] = "destroyed"
  /\ state' = [state EXCEPT ![tm] = "initialized"]
  /\ period' = [period EXCEPT ![tm] = 0]
  /\ UNCHANGED <<clockVars, threadVars>>

\* timer_node::action and internal_interrupt_service_routine up to the call
\* of the function: a periodic timer goes back into the list first.
Expire(tm) ==
  /\ checking /\ HeadDue
  /\ tm = Head(clockList)
  /\ IF tm \in Periodic
     THEN /\ SetStamp(tm, stamp[tm] + period[tm])
          /\ clockList' = LinkStamp(Tail(clockList), tm, stamp')
          /\ UNCHANGED state
     ELSE /\ SetStamp(tm, 0)
          /\ clockList' = Tail(clockList)
          /\ state' = [state EXCEPT ![tm] = "completed"]
  /\ UNCHANGED <<checking, period>>
=============================================================================
