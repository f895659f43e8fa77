----------------------------- MODULE Semaphore -----------------------------
(***************************************************************************)
(* rtos::semaphore (os-semaphore.cpp) with the parts of the kernel that    *)
(* its calls reach: the waiting list, the clock timeout list, the          *)
(* suspended state of the threads, thread::resume(), interrupt(), kill().  *)
(*                                                                         *)
(* An interrupts::critical_section is one action.  Between two of them any *)
(* other runnable thread, an interrupt service routine or the clock may    *)
(* run: the threads are the equal priority threads of a preemptive         *)
(* scheduler, or threads whose relative speed is not known; Prio is only   *)
(* the order in which they are queued.  Interrupt routines do not nest.    *)
(***************************************************************************)
EXTENDS KernelLists, FiniteSets

CONSTANTS Threads,        \* the threads that use the semaphore
          Prio,           \* their effective priority
          MaxValue,       \* max_value_
          InitialValue,   \* initial_value_
          Timeouts,       \* durations passed to timed_wait(), in ticks
          Interruptible,  \* threads that may be told interrupt(true)
          Killable,       \* threads that may be destroyed
          NoThread

ASSUME ThreadsAssumption == IsFiniteSet(Threads) /\ NoThread \notin Threads
ASSUME PrioAssumption == Prio \in [Threads -> Nat]
ASSUME ValueAssumption ==
  MaxValue \in Nat \ {0} /\ InitialValue \in 0..MaxValue
ASSUME TimeoutsAssumption == Timeouts \subseteq Nat
ASSUME SubsetsAssumption ==
  Interruptible \subseteq Threads /\ Killable \subseteq Threads

VARIABLES count,        \* count_
          list,         \* list_, the waiting threads
          suspended,    \* threads in state::suspended
          timers,       \* threads with a node in the clock list
          left,         \* ticks until timeout_timestamp, Forever for wait()
          interrupted,  \* threads with interrupted_ set
          pc,           \* where each thread is
          popped        \* the thread resume_one() unlinked, per caller

vars == <<count, list, suspended, timers, left, interrupted, pc, popped>>

Forever == -1

Init ==
  /\ count = InitialValue
  /\ list = <<>>
  /\ suspended = {}
  /\ timers = {}
  /\ left = [t \in Threads |-> Forever]
  /\ interrupted = {}
  /\ pc = [t \in Threads |-> "app"]
  /\ popped = [t \in Threads |-> NoThread]

Goto(t, label) == pc' = [pc EXCEPT ![t] = label]

\* A runnable thread at the given place.
At(t, label) == pc[t] = label /\ t \notin suspended

Return(t) == Goto(t, "app") /\ left' = [left EXCEPT ![t] = Forever]

TryWaitSucceeds == count > 0 /\ count' = count - 1

TryWaitFails == count <= 0 /\ UNCHANGED count
-----------------------------------------------------------------------------
\* try_wait(), or the test before the loop of wait() and timed_wait().
AcquireAtOnce(t) ==
  /\ At(t, "app")
  /\ TryWaitSucceeds
  /\ UNCHANGED <<list, suspended, timers, left, interrupted, pc, popped>>

\* The same test, failing: the caller makes its nodes and enters the loop.
Enter(t, timeout) ==
  /\ At(t, "app")
  /\ TryWaitFails
  /\ Goto(t, "loop")
  /\ left' = [left EXCEPT ![t] = timeout]
  /\ UNCHANGED <<list, suspended, timers, interrupted, popped>>

LoopAcquire(t) ==
  /\ At(t, "loop")
  /\ TryWaitSucceeds
  /\ Return(t)
  /\ UNCHANGED <<list, suspended, timers, interrupted, popped>>

\* Mutant: sleeps on the strength of an earlier test.
LoopSuspendUntested(t) ==
  /\ At(t, "loop")
  /\ list' = Link(list, t, Prio)
  /\ suspended' = suspended \union {t}
  /\ timers' = IF left[t] = Forever THEN timers ELSE timers \union {t}
  /\ Goto(t, "asleep")
  /\ UNCHANGED <<count, left, interrupted, popped>>

\* internal_link_node, in the same critical section as the failed test.
LoopSuspend(t) ==
  /\ At(t, "loop")
  /\ TryWaitFails
  /\ list' = Link(list, t, Prio)
  /\ suspended' = suspended \union {t}
  /\ timers' = IF left[t] = Forever THEN timers ELSE timers \union {t}
  /\ Goto(t, "asleep")
  /\ UNCHANGED <<left, interrupted, popped>>

\* Scheduled again, for whatever reason: internal_unlink_node.
UnlinkNode(t) ==
  /\ At(t, "asleep")
  /\ list' = Unlink(list, t)
  /\ timers' = timers \ {t}
  /\ Goto(t, "woken")
  /\ UNCHANGED <<count, suspended, left, interrupted, popped>>

\* Mutant: does not compare the clock with the timeout.
GiveUpInterrupted(t) ==
  /\ At(t, "woken")
  /\ t \in interrupted
  /\ Return(t)
  /\ UNCHANGED <<count, list, suspended, timers, interrupted, popped>>

\* EINTR or ETIMEDOUT.
GiveUp(t) ==
  /\ At(t, "woken")
  /\ t \in interrupted \/ left[t] = 0
  /\ Return(t)
  /\ UNCHANGED <<count, list, suspended, timers, interrupted, popped>>

\* Mutant: a woken thread takes it that the unit was kept for it.
RetryReturns(t) ==
  /\ At(t, "woken")
  /\ ~ (t \in interrupted \/ left[t] = 0)
  /\ Return(t)
  /\ UNCHANGED <<count, list, suspended, timers, interrupted, popped>>

Retry(t) ==
  /\ At(t, "woken")
  /\ ~ (t \in interrupted \/ left[t] = 0)
  /\ Goto(t, "loop")
  /\ UNCHANGED <<count, list, suspended, timers, left, interrupted, popped>>
-----------------------------------------------------------------------------
\* Mutant: the limit is off by one.
PostCountOffByOne(t) ==
  /\ At(t, "app")
  /\ count <= MaxValue
  /\ count' = count + 1
  /\ Goto(t, "posted")
  /\ UNCHANGED <<list, suspended, timers, left, interrupted, popped>>

\* post() from a thread: the count first, resume_one() afterwards, in two
\* critical sections of its own.
PostCount(t) ==
  /\ At(t, "app")
  /\ count < MaxValue
  /\ count' = count + 1
  /\ Goto(t, "posted")
  /\ UNCHANGED <<list, suspended, timers, left, interrupted, popped>>

PostPop(t) ==
  /\ At(t, "posted")
  /\ list # <<>>
  /\ popped' = [popped EXCEPT ![t] = Head(list)]
  /\ list' = Tail(list)
  /\ Goto(t, "resuming")
  /\ UNCHANGED <<count, suspended, timers, left, interrupted>>

PostNobodyWaits(t) ==
  /\ At(t, "posted")
  /\ list = <<>>
  /\ Goto(t, "app")
  /\ UNCHANGED <<count, list, suspended, timers, left, interrupted, popped>>

\* thread::resume(); a destroyed thread is not in suspended.
PostResume(t) ==
  /\ At(t, "resuming")
  /\ suspended' = suspended \ {popped[t]}
  /\ popped' = [popped EXCEPT ![t] = NoThread]
  /\ Goto(t, "app")
  /\ UNCHANGED <<count, list, timers, left, interrupted>>

\* Mutant: counts, and wakes nobody.
PostFromISRSilent ==
  /\ count < MaxValue
  /\ count' = count + 1
  /\ UNCHANGED <<list, suspended, timers, left, interrupted, pc, popped>>

\* post() from an interrupt service routine: no thread runs in between.
PostFromISR ==
  /\ count < MaxValue
  /\ count' = count + 1
  /\ list' = IF list = <<>> THEN list ELSE Tail(list)
  /\ suspended' = IF list = <<>> THEN suspended ELSE suspended \ {Head(list)}
  /\ UNCHANGED <<timers, left, interrupted, pc, popped>>

\* Mutant: clears the list instead of resuming the threads in it.
ResetClears(t) ==
  /\ At(t, "app")
  /\ count' = InitialValue
  /\ list' = <<>>
  /\ UNCHANGED <<suspended, timers, left, interrupted, pc, popped>>

\* reset(): internal_init_ in a critical section, resume_all() included.
Reset(t) ==
  /\ At(t, "app")
  /\ count' = InitialValue
  /\ list' = <<>>
  /\ suspended' = suspended \ ToSet(list)
  /\ UNCHANGED <<timers, left, interrupted, pc, popped>>
-----------------------------------------------------------------------------
\* thread::interrupt(value) on t; interrupt(false) is a plain resume().
Interrupt(t, value) ==
  /\ pc[t] # "dead"
  /\ interrupted' = IF value THEN interrupted \union {t} ELSE interrupted \ {t}
  /\ suspended' = suspended \ {t}
  /\ UNCHANGED <<count, list, timers, left, pc, popped>>

\* Mutant: waiting_node_ stays linked.
KillLeavesNode(t) ==
  /\ pc[t] # "dead"
  /\ \E u \in Threads \ {t} : At(u, "app")
  /\ timers' = timers \ {t}
  /\ suspended' = suspended \ {t}
  /\ pc' = [pc EXCEPT ![t] = "dead"]
  /\ left' = [left EXCEPT ![t] = Forever]
  /\ popped' = [popped EXCEPT ![t] = NoThread]
  /\ UNCHANGED <<count, list, interrupted>>

\* thread::kill() on t by another thread, wherever t is.
Kill(t) ==
  /\ pc[t] # "dead"
  /\ \E u \in Threads \ {t} : At(u, "app")
  /\ list' = Unlink(list, t)
  /\ timers' = timers \ {t}
  /\ suspended' = suspended \ {t}
  /\ pc' = [pc EXCEPT ![t] = "dead"]
  /\ left' = [left EXCEPT ![t] = Forever]
  /\ popped' = [popped EXCEPT ![t] = NoThread]
  /\ UNCHANGED <<count, interrupted>>

\* The clock interrupt: every node whose time has come is unlinked from the
\* clock list and its thread resumed.
Due == {t \in timers : left[t] <= 1}

\* Mutant: resumes a thread only if it still has its place in the queue.
TickListed ==
  /\ left' = [t \in Threads |-> IF left[t] > 0 THEN left[t] - 1 ELSE left[t]]
  /\ timers' = timers \ Due
  /\ suspended' = suspended \ (Due \intersect ToSet(list))
  /\ UNCHANGED <<count, list, interrupted, pc, popped>>

Tick ==
  /\ left' = [t \in Threads |-> IF left[t] > 0 THEN left[t] - 1 ELSE left[t]]
  /\ timers' = timers \ Due
  /\ suspended' = suspended \ Due
  /\ UNCHANGED <<count, list, interrupted, pc, popped>>
-----------------------------------------------------------------------------
\* The steps of a thread inside a call: the scheduler lets them happen.
InsideCall(t) ==
  \/ LoopAcquire(t) \/ LoopSuspend(t)
  \/ UnlinkNode(t) \/ GiveUp(t) \/ Retry(t)
  \/ PostPop(t) \/ PostNobodyWaits(t) \/ PostResume(t)

Next ==
  \/ \E t \in Threads :
       \/ AcquireAtOnce(t)
       \/ \E timeout \in Timeouts \union {Forever} : Enter(t, timeout)
       \/ InsideCall(t)
       \/ PostCount(t)
       \/ Reset(t)
       \/ Interrupt(t, FALSE)
  \/ \E t \in Interruptible : Interrupt(t, TRUE)
  \/ \E t \in Killable : Kill(t)
  \/ PostFromISR
  \/ Tick

Spec == Init /\ [][Next]_vars

\* Threads of one priority are preempted in turn, so each one that can run
\* runs; the clock does not stop.
Fairness ==
  /\ \A t \in Threads : WF_vars(InsideCall(t))
  /\ WF_vars(Tick)

FairSpec == Spec /\ Fairness
-----------------------------------------------------------------------------
\* Threads that are going to look at the count, and posts that are going to
\* wake such a thread.
Pending ==
  {t \in Threads : \/ pc[t] \in {"posted", "loop", "woken"}
                   \/ (pc[t] = "asleep" /\ t \notin ToSet(list))}

\* Type invariant: the counter stays within 0..max_value_, whatever the
\* order in which posts, waits and resets take effect.
TypeOK ==
  /\ count \in 0..MaxValue
  /\ list \in Seq(Threads)
  /\ suspended \subseteq Threads
  /\ timers \subseteq Threads
  /\ left \in [Threads -> Nat \union {Forever}]
  /\ interrupted \subseteq Threads
  /\ pc \in [Threads -> {"app", "loop", "asleep", "woken", "posted",
                         "resuming", "dead"}]
  /\ popped \in [Threads -> Threads \union {NoThread}]

\* No lost wake-up: post() counts first and wakes afterwards, in separate
\* critical sections, and wait() tests again after it was woken; as long as
\* a thread stays on the waiting list, every unit that could be taken has
\* somebody on the way to it.
NoLostWakeup == list # <<>> => count <= Cardinality(Pending)

\* A sleeping thread can still be woken by a post: it is on the waiting
\* list, or a resume_one() that unlinked it is about to resume it.
SleepersReachable ==
  \A t \in suspended :
    \/ t \in ToSet(list)
    \/ \E u \in Threads : pc[u] = "resuming" /\ popped[u] = t

\* The nodes live on the stack of the waiting call: neither the waiting list
\* nor the clock list holds one after the call returned or its thread was
\* destroyed, and neither holds one twice.
StackNodesUnlinked ==
  /\ NoDuplicates(list)
  /\ \A t \in ToSet(list) \union timers : pc[t] = "asleep"

\* A thread that sleeps in timed_wait() has its node in the clock list: no
\* race of post, interrupt and clock leaves it to sleep for ever.
TimedSleepersHaveTimer ==
  \A t \in suspended : left[t] # Forever => t \in timers

Before(s, t, u) ==
  \E i, j \in DOMAIN s : i < j /\ s[i] = t /\ s[j] = u

\* The order post() promises: a thread queues behind those as urgent as
\* itself and ahead of the less urgent, and nobody overtakes later.
WakeOrder ==
  [][\A t, u \in ToSet(list') :
       t # u =>
         IF {t, u} \subseteq ToSet(list)
         THEN Before(list', t, u) <=> Before(list, t, u)
         ELSE t \notin ToSet(list) => (Before(list', u, t) <=> Prio[u] >= Prio[t])
    ]_vars

\* wait() takes exactly one unit when it succeeds and none when it fails,
\* and fails only when interrupted or late.
Counting ==
  INSTANCE CountingSemaphore WITH
    value <- count,
    waiting <- {t \in Threads : pc[t] \in {"loop", "asleep", "woken"}},
    excused <- {t \in Threads : t \in interrupted \/ left[t] = 0}

RefinesCounting == Counting!Spec

\* A timed wait returns, however often it is woken for nothing.
TimedWaitReturns ==
  \A t \in Threads : (left[t] # Forever) ~> (left[t] = Forever)

\* A unit and a waiting thread find each other.
UnitsAreTaken == (count > 0 /\ list # <<>>) ~> (count = 0 \/ list = <<>>)

\* What the description of post() says of its result, in every state where
\* no call is in progress but the waits of sleeping threads: "If the
\* semaphore count resulting from this operation is positive, then no
\* threads were blocked waiting for the semaphore to become unlocked."
Quiet ==
  \A t \in Threads :
    pc[t] \in {"app", "dead"} \/ (pc[t] = "asleep" /\ t \in suspended)

NoStrandedWaiter == (Quiet /\ count > 0) => list = <<>>
=============================================================================
