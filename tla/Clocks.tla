------------------------------- MODULE Clocks ------------------------------
(***************************************************************************)
(* rtos::clock (os-clocks.cpp) and its list of timestamps (os-lists.cpp).  *)
(* The list holds the nodes of threads that sleep with a timeout and of    *)
(* running timers, the earliest first.  The clock interrupt advances the   *)
(* counter and acts on the head as long as it is due, one critical section *)
(* per node; the threads do not run until it has finished.                 *)
(*                                                                         *)
(* A timestamp is kept relative to the counter: `stamp' is what is left,   *)
(* 0 or less when it is due, so the clock may run for ever.  The module    *)
(* has no next-state relation: Alarms composes it with its users.          *)
(***************************************************************************)
EXTENDS KernelLists, FiniteSets

CONSTANTS Threads, Timers,
          Durations,   \* passed to sleep_for(), timed_wait() and the like
          Slept,       \* passed to update_for_slept_time()
          MaxLate,     \* bound: how late start() may link its node
          NoCall

ASSUME NodesAssumption ==
  /\ IsFiniteSet(Threads) /\ IsFiniteSet(Timers)
  /\ Threads \intersect Timers = {}
ASSUME DurationsAssumption ==
  Durations \subseteq Nat /\ Slept \subseteq Nat /\ MaxLate \in Nat

VARIABLES clockList,   \* steady_list_
          stamp,       \* timestamp of each node, less the clock's counter
          checking,    \* the clock interrupt is looking at the list
          suspended,   \* threads in state::suspended
          pc,          \* where each thread is
          call         \* the call it is in, with its arguments

clockVars == <<clockList, stamp, checking>>
threadVars == <<suspended, pc, call>>

Nodes == Threads \union Timers

SleepCalls == [kind : {"sleep_for", "wait_for"}, timed : {TRUE}]

ClocksInit ==
  /\ clockList = <<>>
  /\ stamp = [n \in Nodes |-> 0]
  /\ checking = FALSE
  /\ suspended = {}
  /\ pc = [t \in Threads |-> "app"]
  /\ call = [t \in Threads |-> NoCall]

\* A thread that can run, outside the clock interrupt.
At(t, label) == pc[t] = label /\ t \notin suspended /\ ~ checking

Goto(t, label) == pc' = [pc EXCEPT ![t] = label]

Begin(t, label, c) == Goto(t, label) /\ call' = [call EXCEPT ![t] = c]

Return(t) == Begin(t, "app", NoCall)

\* A thread is in a call with a timeout.
Timed(t) == call[t] # NoCall /\ call[t].timed

SetStamp(n, v) == stamp' = [stamp EXCEPT ![n] = v]

\* clock_timestamps_list::link, with s the timestamps: behind the nodes that
\* are not later; the tail is compared first, then the head, and the search
\* goes back from the tail.
LinkStamp(list, n, s) ==
  IF list # <<>> /\ s[n] < s[list[Len(list)]] /\ s[n] < s[list[1]]
  THEN <<n>> \o list
  ELSE LET after == CHOOSE i \in 0..Len(list) :
                      /\ i = 0 => list = <<>>
                      /\ i # 0 => s[n] >= s[list[i]]
                      /\ \A j \in (i + 1)..Len(list) : s[n] < s[list[j]]
       IN  InsertAt(list, after + 1, n)
-----------------------------------------------------------------------------
\* A timestamp that was computed and not yet passed to link().
Unlinked(n) ==
  /\ n \notin ToSet(clockList)
  /\ \E t \in Threads : pc[t] = "starting" /\ call[t].timer = n

\* The counter advances by d, and the list is about to be looked at:
\* os_systick_handler with d = 1, update_for_slept_time(d) after a sleep.
\* Outside the list a thread's timestamp only says whether its timeout is
\* over: 0 will do.
Advance(d) ==
  /\ ~ checking
  /\ \A tm \in Timers : Unlinked(tm) => stamp[tm] - d >= -MaxLate
  /\ stamp' = [n \in Nodes |->
                 IF n \in ToSet(clockList) \/ (n \in Timers /\ Unlinked(n))
                 THEN stamp[n] - d
                 ELSE IF n \in Threads /\ stamp[n] > d THEN stamp[n] - d
                 ELSE 0]
  /\ checking' = TRUE
  /\ UNCHANGED <<clockList, threadVars>>

HeadDue == clockList # <<>> /\ stamp[Head(clockList)] <= 0

\* timeout_thread_node::action.
WakeThread ==
  /\ checking /\ HeadDue
  /\ Head(clockList) \in Threads
  /\ clockList' = Tail(clockList)
  /\ suspended' = suspended \ {Head(clockList)}
  /\ UNCHANGED <<stamp, checking, pc, call>>

\* Mutant of CheckEnds: one node per interrupt.
CheckEndsEarly ==
  /\ checking
  /\ checking' = FALSE
  /\ UNCHANGED <<clockList, stamp, threadVars>>

CheckEnds ==
  /\ checking /\ ~ HeadDue
  /\ checking' = FALSE
  /\ UNCHANGED <<clockList, stamp, threadVars>>
-----------------------------------------------------------------------------
\* sleep_for() and wait_for(): the timestamp is computed first.
SleepCall(t, kind, d) ==
  /\ At(t, "app")
  /\ Begin(t, "loop", [kind |-> kind, timed |-> TRUE])
  /\ SetStamp(t, d)
  /\ UNCHANGED <<clockList, checking, suspended>>

IsSleep(t) == call[t] # NoCall /\ call[t].kind \in {"sleep_for", "wait_for"}

\* Mutant: a timestamp that is over is not linked any more.
SleepSuspendsUnlinked(t) ==
  /\ At(t, "loop") /\ IsSleep(t)
  /\ clockList' = IF stamp[t] > 0 THEN LinkStamp(clockList, t, stamp)
                  ELSE clockList
  /\ suspended' = suspended \union {t}
  /\ Goto(t, "asleep")
  /\ UNCHANGED <<stamp, checking, call>>

\* internal_wait_until_, which does not look at the clock again.
SleepSuspends(t) ==
  /\ At(t, "loop") /\ IsSleep(t)
  /\ clockList' = LinkStamp(clockList, t, stamp)
  /\ suspended' = suspended \union {t}
  /\ Goto(t, "asleep")
  /\ UNCHANGED <<stamp, checking, call>>

SleepUnlinks(t) ==
  /\ At(t, "asleep") /\ IsSleep(t)
  /\ clockList' = Unlink(clockList, t)
  /\ Goto(t, "woken")
  /\ UNCHANGED <<stamp, checking, suspended, call>>

SleepReturns(t) ==
  /\ At(t, "woken") /\ IsSleep(t)
  /\ stamp[t] <= 0 \/ call[t].kind = "wait_for"
  /\ Return(t)
  /\ SetStamp(t, 0)
  /\ UNCHANGED <<clockList, checking, suspended>>

SleepsOn(t) ==
  /\ At(t, "woken") /\ IsSleep(t)
  /\ stamp[t] > 0 /\ call[t].kind = "sleep_for"
  /\ Goto(t, "loop")
  /\ UNCHANGED <<clockVars, suspended, call>>

\* thread::resume() by somebody else.
ResumedAnyway(t) ==
  /\ t \in suspended /\ ~ checking
  /\ suspended' = suspended \ {t}
  /\ UNCHANGED <<clockVars, pc, call>>
=============================================================================
