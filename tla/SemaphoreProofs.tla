-------------------------- MODULE SemaphoreProofs --------------------------
(***************************************************************************)
(* The semaphore invariants, for every number of threads, every priority   *)
(* and every maximum count.                                                *)
(***************************************************************************)
EXTENDS Semaphore, KernelListsProofs, FiniteSetTheorems

\* LinkElements for the waiting list of a semaphore.
LEMMA LinkWaiting ==
  ASSUME NEW l \in Seq(Threads), NEW t \in Threads,
         NoDuplicates(l), t \notin ToSet(l)
  PROVE  /\ Link(l, t, Prio) \in Seq(Threads)
         /\ ToSet(Link(l, t, Prio)) = ToSet(l) \union {t}
         /\ NoDuplicates(Link(l, t, Prio))
<1>1. Prio \in [Threads -> Nat]
  BY PrioAssumption
<1>. QED  BY <1>1, LinkElements

USE ThreadsAssumption, PrioAssumption, ValueAssumption, TimeoutsAssumption,
    SubsetsAssumption

\* The waiting list is what it should be before and after every step: this
\* is the part of the state that every other argument needs.
Base == TypeOK /\ StackNodesUnlinked

\* The semaphore starts with nobody inside.
LEMMA BaseInit == Init => Base
BY DEF Init, Base, TypeOK, StackNodesUnlinked, NoDuplicates, ToSet, Forever

\* Every step keeps types and nodes.
LEMMA BaseStep == Base /\ [Next]_vars => Base'
<1>. SUFFICES ASSUME Base, [Next]_vars
              PROVE  Base'
  OBVIOUS
<1>. USE DEF Base, TypeOK, StackNodesUnlinked, At, Goto, Forever
<1>1. ASSUME NEW t \in Threads, AcquireAtOnce(t)
      PROVE  Base'
  BY <1>1 DEF AcquireAtOnce, TryWaitSucceeds
<1>2. ASSUME NEW t \in Threads, NEW d \in Timeouts \union {Forever}, Enter(t, d)
      PROVE  Base'
  BY <1>2 DEF Enter, TryWaitFails
<1>3. ASSUME NEW t \in Threads, LoopAcquire(t)
      PROVE  Base'
  BY <1>3 DEF LoopAcquire, TryWaitSucceeds, Return
<1>4. ASSUME NEW t \in Threads, LoopSuspend(t)
      PROVE  Base'
  <2>1. /\ list' \in Seq(Threads)
        /\ ToSet(list') = ToSet(list) \union {t}
        /\ NoDuplicates(list')
    <3>1. list \in Seq(Threads) /\ NoDuplicates(list) /\ t \notin ToSet(list)
      BY <1>4 DEF LoopSuspend
    <3>2. list' = Link(list, t, Prio)
      BY <1>4 DEF LoopSuspend
    <3>. QED  BY <3>1, <3>2, LinkWaiting
  <2>. QED  BY <1>4, <2>1 DEF LoopSuspend, TryWaitFails
<1>5. ASSUME NEW t \in Threads, UnlinkNode(t)
      PROVE  Base'
  <2>1. /\ list' \in Seq(Threads)
        /\ ToSet(list') = ToSet(list) \ {t}
        /\ NoDuplicates(list')
    BY <1>5, UnlinkElements DEF UnlinkNode
  <2>. QED  BY <1>5, <2>1 DEF UnlinkNode
<1>6. ASSUME NEW t \in Threads, GiveUp(t)
      PROVE  Base'
  BY <1>6 DEF GiveUp, Return
<1>7. ASSUME NEW t \in Threads, Retry(t)
      PROVE  Base'
  BY <1>7 DEF Retry
<1>8. ASSUME NEW t \in Threads, PostCount(t)
      PROVE  Base'
  BY <1>8 DEF PostCount
<1>9. ASSUME NEW t \in Threads, PostPop(t)
      PROVE  Base'
  <2>1. /\ Head(list) \in Threads
        /\ list' \in Seq(Threads)
        /\ ToSet(list') = ToSet(list) \ {Head(list)}
        /\ NoDuplicates(list')
    BY <1>9, TailElements DEF PostPop
  <2>2. popped' \in [Threads -> Threads \union {NoThread}]
    BY <1>9, <2>1 DEF PostPop
  <2>3. pc[t] = "posted" /\ pc' = [pc EXCEPT ![t] = "resuming"]
    BY <1>9 DEF PostPop
  <2>4. UNCHANGED <<count, suspended, timers, left, interrupted>>
    BY <1>9 DEF PostPop
  <2>. QED  BY <2>1, <2>2, <2>3, <2>4
<1>17. ASSUME NEW t \in Threads, PostNobodyWaits(t)
       PROVE  Base'
  BY <1>17 DEF PostNobodyWaits
<1>10. ASSUME NEW t \in Threads, PostResume(t)
       PROVE  Base'
  BY <1>10 DEF PostResume
<1>11. CASE PostFromISR
  <2>1. CASE list = <<>>
    BY <1>11, <2>1 DEF PostFromISR
  <2>2. CASE list # <<>>
    <3>1. /\ list' \in Seq(Threads)
          /\ ToSet(list') = ToSet(list) \ {Head(list)}
          /\ NoDuplicates(list')
      BY <1>11, <2>2, TailElements DEF PostFromISR
    <3>. QED  BY <1>11, <2>2, <3>1 DEF PostFromISR
  <2>. QED  BY <2>1, <2>2
<1>12. ASSUME NEW t \in Threads, Reset(t)
       PROVE  Base'
  BY <1>12 DEF Reset, NoDuplicates, ToSet
<1>13. ASSUME NEW t \in Threads, NEW v \in BOOLEAN, Interrupt(t, v)
       PROVE  Base'
  BY <1>13 DEF Interrupt
<1>14. ASSUME NEW t \in Threads, Kill(t)
       PROVE  Base'
  <2>1. /\ list' \in Seq(Threads)
        /\ ToSet(list') = ToSet(list) \ {t}
        /\ NoDuplicates(list')
    BY <1>14, UnlinkElements DEF Kill
  <2>. QED  BY <1>14, <2>1 DEF Kill
<1>15. CASE Tick
  BY <1>15 DEF Tick
<1>16. CASE UNCHANGED vars
  BY <1>16 DEF vars
<1>. QED
  BY <1>1, <1>2, <1>3, <1>4, <1>5, <1>6, <1>7, <1>8, <1>9, <1>10, <1>11,
     <1>12, <1>13, <1>14, <1>15, <1>16, <1>17
  DEF Next, InsideCall

\* So they hold in every reachable state.
LEMMA SpecBase == Spec => []Base
BY BaseInit, BaseStep, PTL DEF Spec

\* Type correctness: in particular count_ stays within 0..max_value_.
THEOREM TypeCorrect == Spec => []TypeOK
BY SpecBase, PTL DEF Base

\* No node of a finished or destroyed call is ever left in the waiting list
\* or in the clock list, whatever is interrupted, timed out or killed.
THEOREM StackSafety == Spec => []StackNodesUnlinked
BY SpecBase, PTL DEF Base
-----------------------------------------------------------------------------
\* Every thread asleep in timed_wait() is in the clock list.
LEMMA TimerStep ==
  TypeOK /\ TimedSleepersHaveTimer /\ [Next]_vars => TimedSleepersHaveTimer'
<1>. SUFFICES ASSUME TypeOK, TimedSleepersHaveTimer, [Next]_vars
              PROVE  TimedSleepersHaveTimer'
  OBVIOUS
<1>. USE DEF TypeOK, TimedSleepersHaveTimer, At, Goto, Forever
<1>1. ASSUME NEW t \in Threads,
             \/ AcquireAtOnce(t)
             \/ \E d \in Timeouts \union {Forever} : Enter(t, d)
             \/ LoopAcquire(t) \/ GiveUp(t) \/ Retry(t)
      PROVE  TimedSleepersHaveTimer'
  BY <1>1 DEF AcquireAtOnce, Enter, LoopAcquire, GiveUp, Retry, Return
<1>2. ASSUME NEW t \in Threads, LoopSuspend(t)
      PROVE  TimedSleepersHaveTimer'
  BY <1>2 DEF LoopSuspend
<1>3. ASSUME NEW t \in Threads, UnlinkNode(t)
      PROVE  TimedSleepersHaveTimer'
  BY <1>3 DEF UnlinkNode
<1>4. ASSUME NEW t \in Threads,
             \/ PostCount(t) \/ PostPop(t) \/ PostNobodyWaits(t)
             \/ PostResume(t) \/ Reset(t)
      PROVE  TimedSleepersHaveTimer'
  BY <1>4 DEF PostCount, PostPop, PostNobodyWaits, PostResume, Reset
<1>5. ASSUME NEW t \in Threads, NEW v \in BOOLEAN, Interrupt(t, v)
      PROVE  TimedSleepersHaveTimer'
  BY <1>5 DEF Interrupt
<1>6. ASSUME NEW t \in Threads, Kill(t)
      PROVE  TimedSleepersHaveTimer'
  BY <1>6 DEF Kill
<1>7. CASE PostFromISR
  BY <1>7 DEF PostFromISR
<1>8. CASE Tick
  <2>. SUFFICES ASSUME NEW t \in suspended', left'[t] # Forever
                PROVE  t \in timers'
    OBVIOUS
  <2>1. t \in suspended /\ t \notin Due
    BY <1>8 DEF Tick
  <2>2. left[t] # Forever
    BY <1>8, <2>1 DEF Tick
  <2>. QED  BY <1>8, <2>1, <2>2 DEF Tick
<1>9. CASE UNCHANGED vars
  BY <1>9 DEF vars
<1>. QED
  BY <1>1, <1>2, <1>3, <1>4, <1>5, <1>6, <1>7, <1>8, <1>9,
     SubsetsAssumption
  DEF Next, InsideCall

\* A thread suspended with a timeout has its node in the clock list, so the
\* call returns: whatever wakes it takes it out of the suspended ones too.
THEOREM TimedSleepers == Spec => []TimedSleepersHaveTimer
<1>1. Init => TimedSleepersHaveTimer
  BY DEF Init, TimedSleepersHaveTimer
<1>. QED  BY <1>1, TimerStep, TypeCorrect, PTL DEF Spec
-----------------------------------------------------------------------------
(***************************************************************************)
(* No lost wake-up.  The argument counts: Pending gains a thread whenever  *)
(* count grows while somebody waits, and loses one only with a unit taken. *)
(* It holds for programs without timeouts, interrupt() and kill(): a       *)
(* thread woken by a post that then fails drops the wake-up.               *)
(***************************************************************************)
Patient == Timeouts = {} /\ Interruptible = {} /\ Killable = {}

\* Without timeouts and interrupts nobody may give up.
NobodyExcused ==
  interrupted = {} /\ \A t \in Threads : left[t] = Forever

\* The posts and woken threads under way can be counted.
LEMMA PendingFinite ==
  /\ IsFiniteSet(Pending) /\ Cardinality(Pending) \in Nat
  /\ IsFiniteSet(Pending') /\ Cardinality(Pending') \in Nat
<1>1. Pending \subseteq Threads /\ Pending' \subseteq Threads
  BY DEF Pending
<1>. QED  BY <1>1, ThreadsAssumption, FS_Subset, FS_CardinalityType

\* Patient threads are never excused.
LEMMA ExcusedStep ==
  Patient /\ TypeOK /\ NobodyExcused /\ [Next]_vars => NobodyExcused'
BY DEF Patient, NobodyExcused, TypeOK, Next, InsideCall, vars, AcquireAtOnce,
       Enter, LoopAcquire, LoopSuspend, UnlinkNode, GiveUp, Retry, PostCount,
       PostPop, PostNobodyWaits, PostResume, PostFromISR, Reset, Interrupt,
       Tick, Return, Forever

\* Every step keeps the balance: units left and threads waiting imply a post
\* under way for each.
LEMMA WakeupStep ==
  ASSUME Patient, Base, NobodyExcused, NoLostWakeup, [Next]_vars
  PROVE  NoLostWakeup'
<1>. USE DEF NoLostWakeup, At, Goto
<1>. DEFINE card == Cardinality(Pending)
<1>0. /\ card \in Nat /\ IsFiniteSet(Pending)
      /\ Cardinality(Pending') \in Nat
      /\ count \in Nat
      /\ pc \in [Threads -> {"app", "loop", "asleep", "woken", "posted",
                            "resuming", "dead"}]
  <2>1. count \in 0..MaxValue /\ MaxValue \in Nat
    BY ValueAssumption DEF Base, TypeOK
  <2>2. count \in Nat
    BY <2>1
  <2>. QED  BY <2>2, PendingFinite DEF Base, TypeOK
<1>1. ASSUME NEW t \in Threads, AcquireAtOnce(t)
      PROVE  NoLostWakeup'
  <2>1. Pending' = Pending /\ count' = count - 1 /\ list' = list
    BY <1>1 DEF AcquireAtOnce, TryWaitSucceeds, Pending
  <2>. QED  BY <1>0, <2>1
<1>2. ASSUME NEW t \in Threads,
             \/ LoopSuspend(t)
             \/ \E d \in Timeouts \union {Forever} : Enter(t, d)
      PROVE  NoLostWakeup'
  <2>1. count' = 0
    BY <1>0, <1>2 DEF LoopSuspend, Enter, TryWaitFails
  <2>. QED  BY <1>0, <2>1
<1>3. ASSUME NEW t \in Threads, LoopAcquire(t)
      PROVE  NoLostWakeup'
  <2>1. t \in Pending /\ Pending' = Pending \ {t}
    BY <1>0, <1>3 DEF LoopAcquire, Return, Pending
  <2>2. Cardinality(Pending') = card - 1
    BY <1>0, <2>1, FS_RemoveElement
  <2>3. count' = count - 1 /\ list' = list
    BY <1>3 DEF LoopAcquire, TryWaitSucceeds
  <2>. QED  BY <1>0, <2>2, <2>3
<1>4. ASSUME NEW t \in Threads, UnlinkNode(t)
      PROVE  NoLostWakeup'
  <2>1. /\ ToSet(list') = ToSet(list) \ {t}
        /\ list' # <<>> => list # <<>>
    <3>1. list \in Seq(Threads) /\ NoDuplicates(list)
      BY DEF Base, TypeOK, StackNodesUnlinked
    <3>2. list' = Unlink(list, t)
      BY <1>4 DEF UnlinkNode
    <3>3. ToSet(list') = ToSet(list) \ {t}
      BY <3>1, <3>2, UnlinkElements
    <3>4. list = <<>> => Unlink(list, t) = list
      BY DEF Unlink, ToSet
    <3>. QED  BY <3>2, <3>3, <3>4
  <2>2. Pending' = Pending \union {t} /\ count' = count
    BY <1>0, <1>4, <2>1 DEF UnlinkNode, Pending
  <2>3. Cardinality(Pending') \in {card, card + 1}
    BY <1>0, <2>2, FS_AddElement
  <2>. QED  BY <1>0, <2>1, <2>2, <2>3
<1>5. ASSUME NEW t \in Threads, GiveUp(t)
      PROVE  FALSE
  BY <1>5 DEF GiveUp, NobodyExcused, Forever
<1>6. ASSUME NEW t \in Threads, Retry(t)
      PROVE  NoLostWakeup'
  <2>1. Pending' = Pending /\ count' = count /\ list' = list
    BY <1>0, <1>6 DEF Retry, Pending
  <2>. QED  BY <2>1
<1>7. ASSUME NEW t \in Threads, PostCount(t)
      PROVE  NoLostWakeup'
  <2>1. t \notin Pending /\ Pending' = Pending \union {t}
    BY <1>0, <1>7 DEF PostCount, Pending
  <2>2. Cardinality(Pending') = card + 1
    BY <1>0, <2>1, FS_AddElement
  <2>3. count' = count + 1 /\ list' = list
    BY <1>7 DEF PostCount
  <2>. QED  BY <1>0, <2>2, <2>3
<1>8. ASSUME NEW t \in Threads, PostPop(t)
      PROVE  NoLostWakeup'
  <2>. DEFINE h == Head(list)
  <2>1. /\ h \in Threads /\ h \in ToSet(list) /\ pc[h] = "asleep"
        /\ ToSet(list') = ToSet(list) \ {h}
    BY <1>8, TailElements DEF PostPop, Base, TypeOK, StackNodesUnlinked
  <2>. HIDE DEF h
  <2>2. pc[t] = "posted" /\ pc' = [pc EXCEPT ![t] = "resuming"]
        /\ count' = count /\ list # <<>>
    BY <1>8 DEF PostPop
  <2>3. /\ t \in Pending
        /\ h \notin Pending \ {t}
        /\ Pending' = (Pending \ {t}) \union {h}
    BY <1>0, <2>1, <2>2 DEF Pending
  <2>4. /\ IsFiniteSet(Pending \ {t})
        /\ Cardinality(Pending \ {t}) = card - 1
    BY <1>0, <2>3, FS_RemoveElement
  <2>. DEFINE P == Pending \ {t}
  <2>. HIDE DEF P
  <2>5. Cardinality(P \union {h}) = Cardinality(P) + 1
    BY <2>3, <2>4, FS_AddElement DEF P
  <2>6. Cardinality(Pending') = card
    BY <1>0, <2>3, <2>4, <2>5 DEF P
  <2>. QED  BY <2>2, <2>6
<1>9. ASSUME NEW t \in Threads, PostNobodyWaits(t)
      PROVE  NoLostWakeup'
  BY <1>9 DEF PostNobodyWaits
<1>10. ASSUME NEW t \in Threads, PostResume(t)
       PROVE  NoLostWakeup'
  <2>1. Pending' = Pending /\ count' = count /\ list' = list
    BY <1>0, <1>10 DEF PostResume, Pending
  <2>. QED  BY <2>1
<1>11. CASE PostFromISR
  <2>1. CASE list = <<>>
    BY <1>11, <2>1 DEF PostFromISR
  <2>2. CASE list # <<>>
    <3>. DEFINE h == Head(list)
    <3>1. /\ h \in Threads /\ h \in ToSet(list) /\ pc[h] = "asleep"
          /\ ToSet(list') = ToSet(list) \ {h}
      BY <1>11, <2>2, TailElements
      DEF PostFromISR, Base, TypeOK, StackNodesUnlinked
    <3>. HIDE DEF h
    <3>2. pc' = pc /\ count' = count + 1
      BY <1>11 DEF PostFromISR
    <3>3. h \notin Pending /\ Pending' = Pending \union {h}
      BY <3>1, <3>2 DEF Pending
    <3>4. Cardinality(Pending') = card + 1
      BY <1>0, <3>3, FS_AddElement
    <3>. QED  BY <1>0, <2>2, <3>2, <3>4
  <2>. QED  BY <2>1, <2>2
<1>12. ASSUME NEW t \in Threads, Reset(t)
       PROVE  NoLostWakeup'
  BY <1>12 DEF Reset
<1>13. ASSUME NEW t \in Threads, Interrupt(t, FALSE)
       PROVE  NoLostWakeup'
  <2>1. Pending' = Pending /\ count' = count /\ list' = list
    BY <1>13 DEF Interrupt, Pending
  <2>. QED  BY <2>1
<1>14. CASE Tick \/ UNCHANGED vars
  <2>1. Pending' = Pending /\ count' = count /\ list' = list
    BY <1>14 DEF Tick, vars, Pending
  <2>. QED  BY <2>1
<1>15. \/ \E t \in Threads :
            \/ AcquireAtOnce(t)
            \/ \E d \in Timeouts \union {Forever} : Enter(t, d)
            \/ LoopAcquire(t) \/ LoopSuspend(t) \/ UnlinkNode(t)
            \/ GiveUp(t) \/ Retry(t) \/ PostCount(t) \/ PostPop(t)
            \/ PostNobodyWaits(t) \/ PostResume(t) \/ Reset(t)
            \/ Interrupt(t, FALSE)
       \/ PostFromISR
       \/ Tick \/ UNCHANGED vars
  BY DEF Next, InsideCall, Patient
<1>. QED
  BY <1>1, <1>2, <1>3, <1>4, <1>5, <1>6, <1>7, <1>8, <1>9, <1>10, <1>11,
     <1>12, <1>13, <1>14, <1>15

\* As long as a thread waits, no unit is left without somebody on its way.
THEOREM WakeupsNotLost ==
  ASSUME Patient
  PROVE  Spec => []NoLostWakeup
<1>1. Init => NobodyExcused /\ NoLostWakeup
  BY DEF Init, NobodyExcused, NoLostWakeup
<1>2. /\ Base /\ NobodyExcused /\ NoLostWakeup /\ [Next]_vars
      => NobodyExcused' /\ NoLostWakeup'
  BY ExcusedStep, WakeupStep DEF Base
<1>. QED  BY <1>1, <1>2, SpecBase, PTL DEF Spec
-----------------------------------------------------------------------------
\* A sleeping thread is on the waiting list or in the hands of a post, as
\* long as no thread is destroyed in the middle of a post.
LEMMA ReachableStep ==
  ASSUME Killable = {}, Base, SleepersReachable, [Next]_vars
  PROVE  SleepersReachable'
<1>. USE DEF SleepersReachable, Base, TypeOK, At, Goto
<1>1. ASSUME NEW t \in Threads,
             \/ AcquireAtOnce(t)
             \/ \E d \in Timeouts \union {Forever} : Enter(t, d)
             \/ LoopAcquire(t) \/ GiveUp(t) \/ Retry(t)
             \/ PostCount(t) \/ PostNobodyWaits(t)
      PROVE  SleepersReachable'
  <2>1. /\ suspended' = suspended /\ list' = list /\ popped' = popped
        /\ \A u \in Threads : pc[u] = "resuming" => pc'[u] = "resuming"
    BY <1>1 DEF AcquireAtOnce, Enter, LoopAcquire, GiveUp, Retry, PostCount,
                PostNobodyWaits, Return
  <2>. QED  BY <2>1
<1>2. ASSUME NEW t \in Threads, LoopSuspend(t)
      PROVE  SleepersReachable'
  <2>1. ToSet(list') = ToSet(list) \union {t}
    <3>1. list \in Seq(Threads) /\ NoDuplicates(list) /\ t \notin ToSet(list)
      BY <1>2 DEF LoopSuspend, StackNodesUnlinked
    <3>2. list' = Link(list, t, Prio)
      BY <1>2 DEF LoopSuspend
    <3>. QED  BY <3>1, <3>2, LinkWaiting
  <2>. QED  BY <1>2, <2>1 DEF LoopSuspend
<1>3. ASSUME NEW t \in Threads, UnlinkNode(t)
      PROVE  SleepersReachable'
  <2>1. ToSet(list') = ToSet(list) \ {t}
    BY <1>3, UnlinkElements DEF UnlinkNode, StackNodesUnlinked
  <2>. QED  BY <1>3, <2>1 DEF UnlinkNode
<1>4. ASSUME NEW t \in Threads, PostPop(t)
      PROVE  SleepersReachable'
  <2>. DEFINE h == Head(list)
  <2>1. h \in Threads /\ ToSet(list') = ToSet(list) \ {h}
    BY <1>4, TailElements DEF PostPop, StackNodesUnlinked
  <2>2. /\ pc[t] = "posted" /\ pc' = [pc EXCEPT ![t] = "resuming"]
        /\ popped' = [popped EXCEPT ![t] = h] /\ suspended' = suspended
    BY <1>4 DEF PostPop
  <2>. HIDE DEF h
  <2>3. popped'[t] = h /\ pc'[t] = "resuming"
    BY <2>2
  <2>4. \A u \in Threads :
          pc[u] = "resuming" => pc'[u] = "resuming" /\ popped'[u] = popped[u]
    BY <2>2
  <2>. QED  BY <2>1, <2>2, <2>3, <2>4
<1>5. ASSUME NEW t \in Threads, PostResume(t)
      PROVE  SleepersReachable'
  BY <1>5 DEF PostResume
<1>6. CASE PostFromISR
  <2>1. list # <<>> => ToSet(list') = ToSet(list) \ {Head(list)}
    BY <1>6, TailElements DEF PostFromISR, StackNodesUnlinked
  <2>. QED  BY <1>6, <2>1 DEF PostFromISR
<1>7. ASSUME NEW t \in Threads, Reset(t)
      PROVE  SleepersReachable'
  BY <1>7 DEF Reset
<1>8. ASSUME NEW t \in Threads, NEW v \in BOOLEAN, Interrupt(t, v)
      PROVE  SleepersReachable'
  BY <1>8 DEF Interrupt
<1>9. CASE Tick \/ UNCHANGED vars
  BY <1>9 DEF Tick, vars
<1>. QED
  BY <1>1, <1>2, <1>3, <1>4, <1>5, <1>6, <1>7, <1>8, <1>9,
     SubsetsAssumption
  DEF Next, InsideCall

\* A suspended thread is in the waiting list or in the hands of a post that
\* resumes it, as long as no such post is killed on the way.
THEOREM SleepersAreReachable ==
  ASSUME Killable = {}
  PROVE  Spec => []SleepersReachable
<1>1. Init => SleepersReachable
  BY DEF Init, SleepersReachable
<1>2. Base /\ SleepersReachable /\ [Next]_vars => SleepersReachable'
  BY ReachableStep
<1>. QED  BY <1>1, <1>2, SpecBase, PTL DEF Spec
-----------------------------------------------------------------------------
\* Every step of the semaphore is a step of the counting semaphore or leaves
\* its state as it was.
LEMMA CountingStep ==
  TypeOK /\ [Next]_vars => [Counting!Next]_(Counting!vars)
<1>. SUFFICES ASSUME TypeOK, [Next]_vars
              PROVE  [Counting!Next]_(Counting!vars)
  OBVIOUS
<1>. DEFINE W == {t \in Threads : pc[t] \in {"loop", "asleep", "woken"}}
            X == {t \in Threads : t \in interrupted \/ left[t] = 0}
<1>. USE DEF TypeOK, At, Goto
<1>1. ASSUME NEW t \in Threads, AcquireAtOnce(t) \/ LoopAcquire(t)
      PROVE  Counting!Take(t)
  <2>1. count > 0 /\ count' = count - 1
    BY <1>1 DEF AcquireAtOnce, LoopAcquire, TryWaitSucceeds
  <2>2. W' = W \ {t}
    BY <1>1 DEF AcquireAtOnce, LoopAcquire, Return
  <2>. QED  BY <2>1, <2>2 DEF Counting!Take
<1>2. ASSUME NEW t \in Threads, NEW d \in Timeouts \union {Forever}, Enter(t, d)
      PROVE  Counting!Enter(t)
  <2>1. count = 0 /\ count' = count
    BY <1>2, ValueAssumption DEF Enter, TryWaitFails
  <2>2. t \notin W /\ W' = W \union {t}
    BY <1>2 DEF Enter
  <2>. QED  BY <2>1, <2>2 DEF Counting!Enter
<1>3. ASSUME NEW t \in Threads, GiveUp(t)
      PROVE  Counting!Fail(t)
  <2>1. t \in W /\ t \in X /\ W' = W \ {t} /\ count' = count
    BY <1>3 DEF GiveUp, Return
  <2>. QED  BY <2>1 DEF Counting!Fail
<1>4. ASSUME NEW t \in Threads, PostCount(t)
      PROVE  Counting!Post
  <2>1. W' = W /\ count < MaxValue /\ count' = count + 1
    BY <1>4 DEF PostCount
  <2>. QED  BY <2>1 DEF Counting!Post
<1>5. CASE PostFromISR
  <2>1. W' = W /\ count < MaxValue /\ count' = count + 1
    BY <1>5 DEF PostFromISR
  <2>2. Counting!Post
    BY <2>1 DEF Counting!Post
  <2>. QED  BY <2>2 DEF Counting!Next
<1>6. ASSUME NEW t \in Threads, Reset(t)
      PROVE  Counting!Reset
  <2>1. W' = W /\ count' = InitialValue
    BY <1>6 DEF Reset
  <2>. QED  BY <2>1 DEF Counting!Reset
<1>7. ASSUME NEW t \in Threads,
             \/ LoopSuspend(t) \/ UnlinkNode(t) \/ Retry(t)
             \/ PostPop(t) \/ PostNobodyWaits(t) \/ PostResume(t)
             \/ \E v \in BOOLEAN : Interrupt(t, v)
      PROVE  Counting!Excuse
  <2>1. W' = W
    BY <1>7 DEF LoopSuspend, UnlinkNode, Retry, PostPop, PostNobodyWaits,
                PostResume, Interrupt
  <2>2. count' = count
    BY <1>7 DEF LoopSuspend, UnlinkNode, Retry, PostPop, PostNobodyWaits,
                PostResume, Interrupt, TryWaitFails
  <2>. QED  BY <2>1, <2>2 DEF Counting!Excuse
<1>8. ASSUME NEW t \in Killable, Kill(t)
      PROVE  Counting!Next
  <2>1. t \in Threads /\ W' = W \ {t} /\ count' = count
    BY <1>8, SubsetsAssumption DEF Kill
  <2>2. CASE t \in W
    <3>1. Counting!Leave(t)
      BY <2>1, <2>2 DEF Counting!Leave
    <3>. QED  BY <3>1 DEF Counting!Next
  <2>3. CASE t \notin W
    <3>1. W' = W
      BY <2>1, <2>3
    <3>2. Counting!Excuse
      BY <2>1, <3>1 DEF Counting!Excuse
    <3>. QED  BY <3>2 DEF Counting!Next
  <2>. QED  BY <2>2, <2>3
<1>9. CASE Tick \/ UNCHANGED vars
  <2>1. W' = W /\ count' = count
    BY <1>9 DEF Tick, vars
  <2>2. Counting!Excuse
    BY <2>1 DEF Counting!Excuse
  <2>. QED  BY <2>2 DEF Counting!Next
<1>. QED
  BY <1>1, <1>2, <1>3, <1>4, <1>5, <1>6, <1>7, <1>8, <1>9,
     SubsetsAssumption
  DEF Next, InsideCall, Counting!Next

\* The semaphore implements the counting semaphore: a successful wait takes
\* one unit, a failed one takes none and has an excuse.
THEOREM ImplementsCounting == Spec => RefinesCounting
<1>1. Init => Counting!Init
  BY DEF Init, Counting!Init, Forever
<1>. QED  BY <1>1, CountingStep, TypeCorrect, PTL
          DEF Spec, RefinesCounting, Counting!Spec
-----------------------------------------------------------------------------
(* The order in which waiting threads are woken.                           *)

\* What is left of a list keeps its order.
LEMMA OrderOfPart ==
  ASSUME NEW S, NEW old \in Seq(S), NEW part \in Seq(S), NoDuplicates(old),
         NEW f \in [DOMAIN part -> DOMAIN old],
         \A i \in DOMAIN part : part[i] = old[f[i]],
         \A i, j \in DOMAIN part : i < j => f[i] < f[j]
  PROVE  \A t, u \in ToSet(part) :
           t # u => (Before(part, t, u) <=> Before(old, t, u))
<1>. SUFFICES ASSUME NEW t \in ToSet(part), NEW u \in ToSet(part), t # u
              PROVE  Before(part, t, u) <=> Before(old, t, u)
  OBVIOUS
<1>1. ASSUME Before(part, t, u)
      PROVE  Before(old, t, u)
  <2>1. PICK i \in DOMAIN part, j \in DOMAIN part :
          i < j /\ part[i] = t /\ part[j] = u
    BY <1>1 DEF Before
  <2>2. /\ f[i] \in DOMAIN old /\ f[j] \in DOMAIN old /\ f[i] < f[j]
        /\ old[f[i]] = t /\ old[f[j]] = u
    BY <2>1
  <2>. QED  BY <2>2 DEF Before
<1>2. ASSUME Before(old, t, u)
      PROVE  Before(part, t, u)
  <2>1. PICK p \in DOMAIN old, q \in DOMAIN old :
          p < q /\ old[p] = t /\ old[q] = u
    BY <1>2 DEF Before
  <2>2. PICK i \in DOMAIN part, j \in DOMAIN part : part[i] = t /\ part[j] = u
    BY DEF ToSet
  <2>3. f[i] = p /\ f[j] = q
    BY <2>1, <2>2 DEF NoDuplicates
  <2>4. i \in Int /\ j \in Int /\ p \in Int /\ q \in Int
    BY <2>1, <2>2
  <2>5. ~ (j < i)
    <3>1. j < i => f[j] < f[i]
      BY <2>2
    <3>. QED  BY <2>1, <2>3, <2>4, <3>1
  <2>6. i < j
    BY <2>2, <2>4, <2>5
  <2>. QED  BY <2>2, <2>6 DEF Before
<1>. QED  BY <1>1, <1>2

\* Nobody passes another one when a thread leaves the list, from the middle
LEMMA UnlinkOrder ==
  ASSUME NEW l \in Seq(Threads), NoDuplicates(l), NEW x
  PROVE  \A t, u \in ToSet(Unlink(l, x)) :
           t # u => (Before(Unlink(l, x), t, u) <=> Before(l, t, u))
<1>. DEFINE new == Unlink(l, x)
<1>1. CASE new = l
  BY <1>1
<1>2. CASE new # l
  <2>1. PICK k \in 1..Len(l) :
          /\ new \in Seq(Threads) /\ Len(new) = Len(l) - 1
          /\ \A j \in 1..(k - 1) : new[j] = l[j]
          /\ \A j \in k..(Len(l) - 1) : new[j] = l[j + 1]
    BY <1>2, UnlinkPositions
  <2>. HIDE DEF new
  <2>. DEFINE f == [i \in DOMAIN new |-> IF i < k THEN i ELSE i + 1]
  <2>2. /\ k \in Int /\ Len(l) \in Nat /\ DOMAIN l = 1..Len(l)
        /\ DOMAIN new = 1..(Len(l) - 1)
    BY <2>1
  <2>3. f \in [DOMAIN new -> DOMAIN l]
    BY <2>2
  <2>4. ASSUME NEW i \in DOMAIN new
        PROVE  new[i] = l[f[i]]
    <3>1. CASE i < k
      <4>1. i \in 1..(k - 1) /\ f[i] = i
        BY <2>2, <3>1
      <4>. QED  BY <2>1, <4>1
    <3>2. CASE i >= k
      <4>1. i \in k..(Len(l) - 1) /\ f[i] = i + 1
        BY <2>1, <2>2, <3>2
      <4>. QED  BY <2>1, <4>1
    <3>. QED  BY <2>2, <3>1, <3>2
  <2>5. \A i, j \in DOMAIN new : i < j => f[i] < f[j]
    BY <2>2
  <2>. HIDE DEF f
  <2>6. \A t, u \in ToSet(new) :
          t # u => (Before(new, t, u) <=> Before(l, t, u))
    BY <2>1, <2>3, <2>4, <2>5, OrderOfPart
  <2>. QED  BY <2>6 DEF new
<1>. QED  BY <1>1, <1>2

\* or from the head.
LEMMA TailOrder ==
  ASSUME NEW l \in Seq(Threads), NoDuplicates(l), l # <<>>
  PROVE  \A t, u \in ToSet(Tail(l)) :
           t # u => (Before(Tail(l), t, u) <=> Before(l, t, u))
<1>. DEFINE f == [i \in DOMAIN Tail(l) |-> i + 1]
<1>1. /\ Tail(l) \in Seq(Threads) /\ Len(Tail(l)) = Len(l) - 1
      /\ \A i \in DOMAIN Tail(l) : Tail(l)[i] = l[i + 1] /\ i + 1 \in DOMAIN l
  OBVIOUS
<1>2. f \in [DOMAIN Tail(l) -> DOMAIN l]
  BY <1>1
<1>3. \A i \in DOMAIN Tail(l) : Tail(l)[i] = l[f[i]]
  BY <1>1
<1>4. \A i, j \in DOMAIN Tail(l) : i < j => f[i] < f[j]
  BY <1>1
<1>. HIDE DEF f
<1>. QED  BY <1>1, <1>2, <1>3, <1>4, OrderOfPart

\* A thread that is linked changes the order of no others, and comes behind
\* just those that are as urgent.
LEMMA LinkOrder ==
  ASSUME NEW l \in Seq(Threads), NoDuplicates(l), SortedByPriority(l, Prio),
         NEW x \in Threads, x \notin ToSet(l)
  PROVE  /\ \A t, u \in ToSet(l) :
              t # u => (Before(Link(l, x, Prio), t, u) <=> Before(l, t, u))
         /\ \A u \in ToSet(l) :
              Before(Link(l, x, Prio), u, x) <=> Prio[u] >= Prio[x]
<1>. DEFINE a == LinkAfter(l, Prio[x], Prio)
            new == Link(l, x, Prio)
<1>1. Prio \in [Threads -> Nat] /\ Prio[x] \in Nat
  BY PrioAssumption
<1>2. /\ a \in 0..Len(l)
      /\ a # 0 => Prio[l[a]] >= Prio[x]
      /\ \A j \in (a + 1)..Len(l) : Prio[l[j]] < Prio[x]
  BY <1>1, LinkAfterFound
<1>3. new = InsertAt(l, a + 1, x)
  BY DEF Link
<1>. HIDE DEF a, new
<1>4. a + 1 \in 1..(Len(l) + 1) /\ a \in Int
  BY <1>2
<1>5. /\ new \in Seq(Threads) /\ Len(new) = Len(l) + 1
      /\ \A j \in 1..((a + 1) - 1) : new[j] = l[j]
      /\ new[a + 1] = x
      /\ \A j \in (a + 1)..Len(l) : new[j + 1] = l[j]
  <2>. DEFINE k == a + 1
  <2>1. k \in 1..(Len(l) + 1)
    BY <1>4
  <2>. HIDE DEF k
  <2>2. /\ InsertAt(l, k, x) \in Seq(Threads)
        /\ Len(InsertAt(l, k, x)) = Len(l) + 1
        /\ \A j \in 1..(k - 1) : InsertAt(l, k, x)[j] = l[j]
        /\ InsertAt(l, k, x)[k] = x
        /\ \A j \in k..Len(l) : InsertAt(l, k, x)[j + 1] = l[j]
    BY <2>1, InsertAtElements
  <2>. QED  BY <1>3, <2>2 DEF k
<1>6. NoDuplicates(new)
  BY LinkWaiting DEF new
<1>7. /\ Len(l) \in Nat /\ DOMAIN l = 1..Len(l)
      /\ DOMAIN new = 1..(Len(l) + 1)
  BY <1>5
<1>8. ASSUME NEW t \in ToSet(l), NEW u \in ToSet(l), t # u
      PROVE  Before(new, t, u) <=> Before(l, t, u)
  <2>. DEFINE f == [i \in DOMAIN l |-> IF i <= a THEN i ELSE i + 1]
  <2>1. f \in [DOMAIN l -> DOMAIN new]
    BY <1>4, <1>7
  <2>2. \A i \in DOMAIN l : l[i] = new[f[i]]
    BY <1>4, <1>5, <1>7
  <2>3. \A i, j \in DOMAIN l : i < j => f[i] < f[j]
    BY <1>4, <1>7
  <2>. HIDE DEF f
  <2>. QED  BY <1>5, <1>6, <1>8, <2>1, <2>2, <2>3, OrderOfPart
<1>9. ASSUME NEW u \in ToSet(l)
      PROVE  Before(new, u, x) <=> Prio[u] >= Prio[x]
  <2>1. PICK m \in DOMAIN l : l[m] = u
    BY <1>9 DEF ToSet
  <2>2. /\ u \in Threads /\ Prio[u] \in Nat /\ m \in 1..Len(l)
        /\ a + 1 \in DOMAIN new
    BY <1>1, <1>4, <1>7, <2>1
  <2>3. CASE m <= a
    <3>1. /\ m \in 1..((a + 1) - 1) /\ m \in DOMAIN new /\ m < a + 1
          /\ a \in DOMAIN l /\ a # 0
      BY <1>2, <1>4, <1>7, <2>2, <2>3
    <3>2. Before(new, u, x)
      BY <1>5, <2>1, <2>2, <3>1 DEF Before
    <3>3. Prio[u] >= Prio[l[a]] /\ Prio[l[a]] >= Prio[x] /\ Prio[l[a]] \in Nat
      <4>1. l[a] \in Threads
        BY <3>1
      <4>2. m < a => Prio[l[m]] >= Prio[l[a]]
        BY <3>1 DEF SortedByPriority
      <4>. QED  BY <1>1, <1>2, <1>4, <2>1, <2>2, <2>3, <3>1, <4>1, <4>2
    <3>4. Prio[u] >= Prio[x]
      BY <1>1, <2>2, <3>3
    <3>. QED  BY <3>2, <3>4
  <2>4. CASE m > a
    <3>1. /\ m \in (a + 1)..Len(l) /\ m + 1 \in DOMAIN new /\ a + 1 < m + 1
          /\ a + 1 \in Int /\ m + 1 \in Int
      BY <1>2, <1>4, <1>7, <2>2, <2>4
    <3>2. new[m + 1] = u /\ Prio[u] < Prio[x]
      BY <1>2, <1>5, <2>1, <3>1
    <3>3. ASSUME Before(new, u, x)
          PROVE  FALSE
      <4>1. PICK i \in DOMAIN new, j \in DOMAIN new :
              i < j /\ new[i] = u /\ new[j] = x
        BY <3>3 DEF Before
      <4>2. i = m + 1 /\ j = a + 1
        BY <1>5, <1>6, <2>2, <3>1, <3>2, <4>1 DEF NoDuplicates
      <4>. QED  BY <3>1, <4>1, <4>2
    <3>. QED  BY <1>1, <2>2, <3>2, <3>3
  <2>. QED  BY <1>4, <2>2, <2>3, <2>4
<1>. QED  BY <1>8, <1>9 DEF new

\* What WakeOrder says of a step.
InOrder ==
  \A t, u \in ToSet(list') :
    t # u =>
      IF {t, u} \subseteq ToSet(list)
      THEN Before(list', t, u) <=> Before(list, t, u)
      ELSE t \notin ToSet(list) => (Before(list', u, t) <=> Prio[u] >= Prio[t])

\* The list stays sorted, since priorities do not change, and each step keeps
\* the order of those that stay and links a new one where it belongs.
LEMMA OrderStep ==
  ASSUME Base, SortedByPriority(list, Prio), [Next]_vars
  PROVE  SortedByPriority(list', Prio) /\ InOrder
<1>0. list \in Seq(Threads) /\ NoDuplicates(list)
  BY DEF Base, TypeOK, StackNodesUnlinked
<1>1. \/ UNCHANGED list
      \/ \E t \in Threads : LoopSuspend(t)
      \/ \E t \in Threads : list' = Unlink(list, t)
      \/ list # <<>> /\ list' = Tail(list)
      \/ list' = <<>>
  BY SubsetsAssumption
     DEF Next, InsideCall, AcquireAtOnce, Enter, LoopAcquire, UnlinkNode,
         GiveUp, Retry, PostCount, PostPop, PostNobodyWaits, PostResume,
         PostFromISR, Reset, Interrupt, Kill, Tick, vars
<1>2. CASE UNCHANGED list
  BY <1>2 DEF InOrder
<1>3. ASSUME NEW x \in Threads, LoopSuspend(x)
      PROVE  SortedByPriority(list', Prio) /\ InOrder
  <2>1. x \notin ToSet(list) /\ list' = Link(list, x, Prio)
    BY <1>3 DEF LoopSuspend, At, Base, TypeOK, StackNodesUnlinked
  <2>2. ToSet(list') = ToSet(list) \union {x}
    BY <1>0, <2>1, LinkWaiting
  <2>3. SortedByPriority(list', Prio)
    BY <1>0, <2>1, PrioAssumption, LinkSorted
  <2>4. /\ \A t, u \in ToSet(list) :
             t # u => (Before(list', t, u) <=> Before(list, t, u))
        /\ \A u \in ToSet(list) : Before(list', u, x) <=> Prio[u] >= Prio[x]
    BY <1>0, <2>1, LinkOrder
  <2>. QED  BY <2>2, <2>3, <2>4 DEF InOrder
<1>4. ASSUME NEW x \in Threads, list' = Unlink(list, x)
      PROVE  SortedByPriority(list', Prio) /\ InOrder
  <2>1. ToSet(list') \subseteq ToSet(list)
    BY <1>0, <1>4, UnlinkElements
  <2>. QED  BY <1>0, <1>4, <2>1, UnlinkSorted, UnlinkOrder DEF InOrder
<1>5. CASE list # <<>> /\ list' = Tail(list)
  <2>1. ToSet(list') \subseteq ToSet(list)
    BY <1>0, <1>5, TailElements
  <2>. QED  BY <1>0, <1>5, <2>1, TailSorted, TailOrder DEF InOrder
<1>6. CASE list' = <<>>
  BY <1>6 DEF InOrder, SortedByPriority, ToSet
<1>. QED  BY <1>1, <1>2, <1>3, <1>4, <1>5, <1>6

\* A thread queues behind those as urgent as itself and ahead of the less
\* urgent, and nobody overtakes later, whoever is woken, late or killed.
THEOREM WokenInOrder == Spec => WakeOrder
<1>1. Init => SortedByPriority(list, Prio)
  BY DEF Init, SortedByPriority
<1>2. Base /\ SortedByPriority(list, Prio) /\ [Next]_vars =>
        SortedByPriority(list, Prio)' /\ InOrder
  BY OrderStep
<1>3. WakeOrder <=> [][InOrder]_vars
  BY DEF WakeOrder, InOrder
<1>. QED  BY <1>1, <1>2, <1>3, SpecBase, PTL DEF Spec
=============================================================================
