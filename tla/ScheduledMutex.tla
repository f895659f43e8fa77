--------------------------- MODULE ScheduledMutex ---------------------------
(***************************************************************************)
(* Mutex under the scheduler of os-core.cpp: one thread runs, and only it  *)
(* takes steps.  The clock tick and the yields switch to a most urgent of  *)
(* the runnable threads.  A thread may run below a more urgent one that is *)
(* ready: unlock() lowers its inherited priority without a yield, and what *)
(* resume() asks for under the lock of the scheduler is refused.           *)
(***************************************************************************)
EXTENDS Mutex

CONSTANT Sleepers      \* threads that may block elsewhere, even as owners

VARIABLE current       \* scheduler::current_thread_

scheduledVars == <<vars, current>>

MostUrgent ==
  {t \in Threads : Runnable(t) /\ \A u \in Threads :
                                    Runnable(u) => Priority[t] >= Priority[u]}

ScheduledInit == Init /\ current \in MostUrgent

\* priority_inherited() and priority() end with this_thread::yield(), unless
\* nothing changes or the inherited priority is below the assigned one.
Yields(t) ==
  LET r == raise[t] IN
  /\ pc[t] = "store"
  /\ IF r.site = "restore" THEN r.prio \notin {0, assigned[r.owner]}
     ELSE r.prio # inherited[r.owner] /\ r.prio >= assigned[r.owner]

Run ==
  /\ ThreadStep(current)
  /\ IF Yields(current) THEN current' \in MostUrgent' ELSE UNCHANGED current

\* suspend() of a thread that waits for something else than a mutex.
Sleep ==
  /\ current \in Sleepers
  /\ At(current, "app")
  /\ suspended' = suspended \union {current}
  /\ UNCHANGED <<mx, held, acquired, waiters, assigned, inherited, interrupted,
                 patience, pc, wants, raise, fault, current>>

\* reschedule(), by the tick or by the running thread that has suspended.
Switch == current' \in MostUrgent /\ UNCHANGED vars

ScheduledNext ==
  Run \/ Sleep \/ Switch \/ (InterruptStep /\ UNCHANGED current)

ScheduledSpec == ScheduledInit /\ [][ScheduledNext]_scheduledVars
-----------------------------------------------------------------------------
\* lock() blocks until the mutex becomes available: while threads queue for a
\* mutex that has no owner, one of its callers is awake and will try again.
FreeMutexIsTaken ==
  \A m \in Mutexes :
    mx[m].owner = NoThread /\ waiters[m] # <<>> => OnTheWay(m) # {}
-----------------------------------------------------------------------------
\* What the documentation promises besides, and three threads or two protocols
\* break (README, `Known divergences'): an owner is as urgent as who waits for
\* it, or as its ceiling; a boost ends with the last mutex; owner_ is not null
\* where it is used.
OwnerInherits ==
  \A m \in Mutexes : \A t \in ToSet(waiters[m]) :
    mx[m].owner \notin {t, NoThread} => Priority[mx[m].owner] >= Priority[t]

CeilingHolds ==
  \A m \in Mutexes :
    LET o == mx[m].owner IN
    Protocol[m] = "protect" /\ o # NoThread
    /\ ~ (pc[o] \in Raising /\ raise[o].site = "self")
    => Priority[o] >= Ceiling[m]

BoostEnds == \A t \in Threads : acquired[t] = 0 => inherited[t] = 0

OwnerExists == fault # "null"
=============================================================================
