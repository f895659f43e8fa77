----------------------------- MODULE Blocking ------------------------------
(***************************************************************************)
(* The part of the kernel that every blocking call of the RTOS objects     *)
(* goes through, for modules that compose several objects:  the waiting    *)
(* lists, the clock timeout list, the suspended threads, resume_one() and  *)
(* the form common to the calls,                                           *)
(*                                                                         *)
(*   try; for (;;) { try, or link the node; reschedule; unlink the node;   *)
(*                   interrupted? late? }                                  *)
(*                                                                         *)
(* The objects supply the tries.  A critical section is one action, and    *)
(* between two of them any other thread, an interrupt or the clock may run *)
(* (see Semaphore).                                                        *)
(***************************************************************************)
EXTENDS KernelLists, FiniteSets

CONSTANTS Threads,      \* the threads
          Prio,         \* their effective priority
          Lists,        \* the waiting lists of the objects, by name
          NoThread,
          NoList

ASSUME ThreadsAssumption ==
  IsFiniteSet(Threads) /\ NoThread \notin Threads /\ Prio \in [Threads -> Nat]
ASSUME ListsAssumption == IsFiniteSet(Lists) /\ NoList \notin Lists

VARIABLES lists,      \* the waiting threads, per list
          waitsFor,   \* the list of the call a thread is in
          suspended,  \* threads in state::suspended
          timers,     \* threads with a node in the clock list
          left,       \* ticks until timeout_timestamp, Forever if untimed
          pc,         \* where each thread is
          popped      \* the thread resume_one() unlinked, per caller

kernelVars == <<lists, waitsFor, suspended, timers, left, pc, popped>>

Forever == -1

BlockingInit ==
  /\ lists = [l \in Lists |-> <<>>]
  /\ waitsFor = [t \in Threads |-> NoList]
  /\ suspended = {}
  /\ timers = {}
  /\ left = [t \in Threads |-> Forever]
  /\ pc = [t \in Threads |-> "app"]
  /\ popped = [t \in Threads |-> NoThread]

Goto(t, label) == pc' = [pc EXCEPT ![t] = label]

\* A runnable thread at the given place.
At(t, label) == pc[t] = label /\ t \notin suspended

\* resume_one() inside a critical section: unlinked and resumed at once.
ResumeOne(l) ==
  /\ lists' = [lists EXCEPT ![l] = IF @ = <<>> THEN @ ELSE Tail(@)]
  /\ suspended' = IF lists[l] = <<>> THEN suspended
                  ELSE suspended \ {Head(lists[l])}

\* resume_all() of the given lists, inside a critical section.
ResumeAll(ls) ==
  /\ lists' = [l \in Lists |-> IF l \in ls THEN <<>> ELSE lists[l]]
  /\ suspended' = suspended \ UNION {ToSet(lists[l]) : l \in ls}
-----------------------------------------------------------------------------
\* The first try failed: nodes are made on the stack, the loop is entered.
EnterLoop(t, l, timeout) ==
  /\ At(t, "app")
  /\ Goto(t, "loop")
  /\ waitsFor' = [waitsFor EXCEPT ![t] = l]
  /\ left' = [left EXCEPT ![t] = timeout]
  /\ UNCHANGED <<lists, suspended, timers, popped>>

\* The call on list l ends, and its thread goes on at the given place.
LeaveFor(t, label) ==
  /\ Goto(t, label)
  /\ waitsFor' = [waitsFor EXCEPT ![t] = NoList]
  /\ left' = [left EXCEPT ![t] = Forever]

\* A thread makes a try of the call on list l, before or in the loop.
Trying(t, l) ==
  \/ At(t, "app")
  \/ At(t, "loop") /\ waitsFor[t] = l

\* internal_link_node, in the critical section of the failed try.
SuspendOn(t, l) ==
  /\ At(t, "loop")
  /\ waitsFor[t] = l
  /\ lists' = [lists EXCEPT ![l] = Link(@, t, Prio)]
  /\ suspended' = suspended \union {t}
  /\ timers' = IF left[t] = Forever THEN timers ELSE timers \union {t}
  /\ Goto(t, "asleep")
  /\ UNCHANGED <<waitsFor, left, popped>>

\* Scheduled again, for whatever reason: internal_unlink_node.
UnlinkNode(t) ==
  /\ At(t, "asleep")
  /\ lists' = [lists EXCEPT ![waitsFor[t]] = Unlink(@, t)]
  /\ timers' = timers \ {t}
  /\ Goto(t, "woken")
  /\ UNCHANGED <<waitsFor, suspended, left, popped>>

\* ETIMEDOUT.
GiveUp(t) ==
  /\ At(t, "woken")
  /\ left[t] = 0
  /\ LeaveFor(t, "app")
  /\ UNCHANGED <<lists, suspended, timers, popped>>

Retry(t) ==
  /\ At(t, "woken")
  /\ left[t] # 0
  /\ Goto(t, "loop")
  /\ UNCHANGED <<lists, waitsFor, suspended, timers, left, popped>>
-----------------------------------------------------------------------------
\* resume_one(), or one turn of resume_all(), outside a critical section:
\* `here' is the place of the caller, and the head is unlinked in one
\* critical section and resumed in another.
PopWaiter(t, l, here, resuming) ==
  /\ At(t, here)
  /\ lists[l] # <<>>
  /\ popped' = [popped EXCEPT ![t] = Head(lists[l])]
  /\ lists' = [lists EXCEPT ![l] = Tail(@)]
  /\ Goto(t, resuming)
  /\ UNCHANGED <<waitsFor, suspended, timers, left>>

NobodyWaits(t, l, here) ==
  /\ At(t, here)
  /\ lists[l] = <<>>
  /\ Goto(t, "app")
  /\ UNCHANGED <<lists, waitsFor, suspended, timers, left, popped>>

ResumePopped(t, resuming, next) ==
  /\ At(t, resuming)
  /\ suspended' = suspended \ {popped[t]}
  /\ popped' = [popped EXCEPT ![t] = NoThread]
  /\ Goto(t, next)
  /\ UNCHANGED <<lists, waitsFor, timers, left>>

\* thread::resume() by somebody else, for no reason the call knows of.
SpuriousResume(t) ==
  /\ t \in suspended
  /\ suspended' = suspended \ {t}
  /\ UNCHANGED <<lists, waitsFor, timers, left, pc, popped>>

\* The clock interrupt: every node whose time has come is unlinked from the
\* clock list and its thread resumed.
Due == {t \in timers : left[t] <= 1}

ClockTick ==
  /\ \E t \in Threads : left[t] > 0
  /\ left' = [t \in Threads |-> IF left[t] > 0 THEN left[t] - 1 ELSE left[t]]
  /\ timers' = timers \ Due
  /\ suspended' = suspended \ Due
  /\ UNCHANGED <<lists, waitsFor, pc, popped>>
-----------------------------------------------------------------------------
BlockingTypeOK ==
  /\ lists \in [Lists -> Seq(Threads)]
  /\ waitsFor \in [Threads -> Lists \union {NoList}]
  /\ suspended \subseteq Threads
  /\ timers \subseteq Threads
  /\ left \in [Threads -> Nat \union {Forever}]
  /\ popped \in [Threads -> Threads \union {NoThread}]
=============================================================================
