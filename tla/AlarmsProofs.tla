---------------------------- MODULE AlarmsProofs ---------------------------
(***************************************************************************)
(* Proofs about Alarms: the clock list holds only live nodes, each once,   *)
(* and in order; when the clock interrupt ends nothing in it is due; and   *)
(* no thread sleeps on flags that are raised.                              *)
(***************************************************************************)
EXTENDS Alarms, KernelListsProofs

\* A node is the more urgent the earlier it is due.
Urgency(s) == [n \in Nodes |-> 0 - s[n]]

\* In terms of urgency the clock list is sorted like a list of threads.
LEMMA EarliestFirst ==
  ASSUME NEW l \in Seq(Nodes), NEW s \in [Nodes -> Int]
  PROVE  /\ Urgency(s) \in [Nodes -> Int]
         /\ SortedByPriority(l, Urgency(s)) <=>
              \A i, j \in DOMAIN l : i < j => s[l[i]] <= s[l[j]]
<1>1. Urgency(s) \in [Nodes -> Int] /\ \A n \in Nodes : Urgency(s)[n] = 0 - s[n]
  BY DEF Urgency
<1>2. ASSUME NEW i \in DOMAIN l, NEW j \in DOMAIN l
      PROVE  Urgency(s)[l[i]] >= Urgency(s)[l[j]] <=> s[l[i]] <= s[l[j]]
  <2>1. l[i] \in Nodes /\ l[j] \in Nodes
    BY <1>2
  <2>2. s[l[i]] \in Int /\ s[l[j]] \in Int
    BY <2>1
  <2>. QED  BY <1>1, <2>1, <2>2
<1>. QED  BY <1>1, <1>2 DEF SortedByPriority

\* The front of a list is its first position.
LEMMA InsertAtFront ==
  ASSUME NEW S, NEW l \in Seq(S), NEW n \in S
  PROVE  <<n>> \o l = InsertAt(l, 1, n)
<1>1. SubSeq(l, 1, 0) = <<>> /\ SubSeq(l, 1, Len(l)) = l
  OBVIOUS
<1>2. <<>> \o <<n>> = <<n>>
  OBVIOUS
<1>. QED  BY <1>1, <1>2 DEF InsertAt

\* The search of clock_timestamps_list::link finds a place: behind a node that
\* is not later, or at the front, ahead of nodes that are later.
LEMMA StampPlace ==
  ASSUME NEW l \in Seq(Nodes), NEW n \in Nodes, NEW s \in [Nodes -> Int]
  PROVE  \E k \in 0..Len(l) :
           /\ LinkStamp(l, n, s) = InsertAt(l, k + 1, n)
           /\ k # 0 => s[n] >= s[l[k]]
           /\ SortedByPriority(l, Urgency(s)) =>
                \A j \in (k + 1)..Len(l) : s[n] < s[l[j]]
<1>. DEFINE Found(i) == /\ i = 0 => l = <<>>
                        /\ i # 0 => s[n] >= s[l[i]]
                        /\ \A j \in (i + 1)..Len(l) : s[n] < s[l[j]]
            Ahead == l # <<>> /\ s[n] < s[l[Len(l)]] /\ s[n] < s[l[1]]
            T == {i \in 1..Len(l) : s[n] >= s[l[i]]}
<1>0. s[n] \in Int /\ \A j \in 1..Len(l) : s[l[j]] \in Int
  <2>1. \A j \in 1..Len(l) : l[j] \in Nodes
    OBVIOUS
  <2>. QED  BY <2>1
<1>1. CASE Ahead
  <2>1. LinkStamp(l, n, s) = InsertAt(l, 0 + 1, n)
    <3>1. LinkStamp(l, n, s) = <<n>> \o l
      BY <1>1 DEF LinkStamp
    <3>. QED  BY <3>1, InsertAtFront
  <2>2. ASSUME SortedByPriority(l, Urgency(s)), NEW j \in 1..Len(l)
        PROVE  s[n] < s[l[j]]
    <3>1. 1 \in DOMAIN l /\ j \in DOMAIN l
      BY <1>1
    <3>2. 1 < j => s[l[1]] <= s[l[j]]
      BY <2>2, <3>1, EarliestFirst
    <3>. QED  BY <1>0, <1>1, <3>1, <3>2
  <2>. QED  BY <2>1, <2>2
<1>2. CASE ~Ahead
  <2>1. \E i \in 0..Len(l) : Found(i)
    <3>1. CASE l = <<>>
      BY <3>1
    <3>2. CASE l # <<>>
      <4>1. T # {}
        <5>1. 1 \in 1..Len(l) /\ Len(l) \in 1..Len(l)
          BY <3>2
        <5>. QED  BY <1>0, <1>2, <3>2, <5>1
      <4>2. PICK i \in T : \A j \in (i + 1)..Len(l) : j \notin T
        <5>. HIDE DEF T
        <5>1. T \subseteq 1..Len(l) /\ Len(l) \in Nat
          BY DEF T
        <5>. QED  BY <4>1, <5>1, LastPosition
      <4>3. \A j \in (i + 1)..Len(l) : s[n] < s[l[j]]
        <5>. TAKE j \in (i + 1)..Len(l)
        <5>1. j \in 1..Len(l)
          OBVIOUS
        <5>. QED  BY <1>0, <4>2, <5>1
      <4>. QED  BY <4>2, <4>3
    <3>. QED  BY <3>1, <3>2
  <2>. DEFINE k == CHOOSE i \in 0..Len(l) : Found(i)
  <2>2. LinkStamp(l, n, s) = InsertAt(l, k + 1, n)
    BY <1>2 DEF LinkStamp
  <2>. HIDE DEF Found
  <2>3. k \in 0..Len(l) /\ Found(k)
    BY <2>1
  <2>. HIDE DEF k
  <2>. QED  BY <2>2, <2>3 DEF Found
<1>. QED  BY <1>1, <1>2

\* Linking a node that is not in the clock list adds it and nothing else, and
\* keeps the order.
LEMMA LinkStampKeeps ==
  ASSUME NEW l \in Seq(Nodes), NEW n \in Nodes, NEW s \in [Nodes -> Int]
  PROVE  /\ LinkStamp(l, n, s) \in Seq(Nodes)
         /\ ToSet(LinkStamp(l, n, s)) = ToSet(l) \union {n}
         /\ NoDuplicates(l) /\ n \notin ToSet(l) =>
              NoDuplicates(LinkStamp(l, n, s))
         /\ SortedByPriority(l, Urgency(s)) =>
              SortedByPriority(LinkStamp(l, n, s), Urgency(s))
<1>1. PICK k \in 0..Len(l) :
        /\ LinkStamp(l, n, s) = InsertAt(l, k + 1, n)
        /\ k # 0 => s[n] >= s[l[k]]
        /\ SortedByPriority(l, Urgency(s)) =>
             \A j \in (k + 1)..Len(l) : s[n] < s[l[j]]
  BY StampPlace
<1>. DEFINE at == k + 1
<1>2. at \in 1..(Len(l) + 1) /\ LinkStamp(l, n, s) = InsertAt(l, at, n)
  BY <1>1
<1>3. ASSUME SortedByPriority(l, Urgency(s))
      PROVE  SortedByPriority(InsertAt(l, at, n), Urgency(s))
  <2>1. /\ Urgency(s) \in [Nodes -> Int]
        /\ \A m \in Nodes : Urgency(s)[m] = 0 - s[m] /\ s[m] \in Int
    BY DEF Urgency
  <2>2. at # 1 => Urgency(s)[l[at - 1]] >= Urgency(s)[n]
    <3>. SUFFICES ASSUME at # 1
                  PROVE  Urgency(s)[l[k]] >= Urgency(s)[n]
      BY <1>1
    <3>1. k # 0 /\ l[k] \in Nodes
      BY <1>1
    <3>. QED  BY <1>1, <2>1, <3>1
  <2>3. \A j \in at..Len(l) : Urgency(s)[l[j]] <= Urgency(s)[n]
    <3>. TAKE j \in at..Len(l)
    <3>1. l[j] \in Nodes /\ s[n] < s[l[j]]
      BY <1>1, <1>3
    <3>. QED  BY <2>1, <3>1
  <2>. HIDE DEF at
  <2>. QED  BY <1>2, <1>3, <2>1, <2>2, <2>3, InsertAtSorted
<1>. HIDE DEF at
<1>4. InsertAt(l, at, n) \in Seq(Nodes)
  BY <1>2, InsertAtElements
<1>. QED  BY <1>2, <1>3, <1>4, InsertAtSet
-----------------------------------------------------------------------------
(* What always holds.                                                      *)

\* The call a thread is in, by where it is.
InCall ==
  \A t \in Threads :
    /\ pc[t] \in {"loop", "asleep", "woken"} =>
         call[t] \in SleepCalls \union WaitCalls
    /\ pc[t] = "tested" => call[t] \in WaitCalls /\ call[t].kind = "plain"
    /\ pc[t] \in {"raised", "resuming"} => call[t] \in RaiseCalls
    /\ pc[t] = "resuming" => call[t].object = EventObject
    /\ pc[t] \in {"starting", "started", "stopping", "stopped"} =>
         call[t] \in TimerCalls /\ Controller[call[t].timer] = t

\* A timer that stop() has unlinked stays out of the list until state_ says
\* so too.
Stopped ==
  \A t \in Threads : pc[t] = "stopped" => call[t].timer \notin ToSet(clockList)

\* The waiters of the event flags object: who sleeps on it is in its list,
\* or was taken off it by a resume_all() that is about to resume it.
Waiters ==
  /\ NoDuplicates(list)
  /\ \A t \in suspended : pc[t] = "asleep"
  /\ \A t \in ToSet(list) :
       pc[t] = "asleep" /\ IsFlagsWait(t) /\ call[t].kind = "event"
  /\ \A t \in suspended :
       IsFlagsWait(t) /\ call[t].kind = "event" =>
         \/ t \in ToSet(list)
         \/ \E u \in Threads : pc[u] = "resuming" /\ popped[u] = t

\* Every step keeps the calls where they belong.
LEMMA CallsStep ==
  ASSUME TypeOK, InCall, [Next]_vars
  PROVE  InCall'
<1>. USE AlarmsAssumption, TimersAssumption
    DEF TypeOK, InCall, SleepCalls, WaitCalls, RaiseCalls, TimerCalls,
        clockVars, threadVars, timerVars, flagVars
<1>1. ASSUME NEW tm \in Timers, TimerFires(tm)
       PROVE  InCall'
  BY <1>1 DEF TimerFires, Expire, RaiseInISR, HeadDue, SetStamp
<1>2. ASSUME WakeThread, UNCHANGED <<timerVars, flagVars>>
       PROVE  InCall'
  BY <1>2 DEF WakeThread, HeadDue
<1>3. ASSUME CheckEnds, UNCHANGED <<timerVars, flagVars>>
       PROVE  InCall'
  BY <1>3 DEF CheckEnds
<1>4. ASSUME NEW d \in {1} \union Slept, Advance(d),
             UNCHANGED <<timerVars, flagVars>>
       PROVE  InCall'
  BY <1>4 DEF Advance
<1>5. ASSUME NEW t \in Sleepers, NEW d \in Durations,
                NEW kind \in {"sleep_for", "wait_for"}, SleepCall(t, kind, d),
                UNCHANGED <<timerVars, flagVars>>
       PROVE  InCall'
  BY <1>5 DEF SleepCall, At, Begin, Goto, SetStamp
<1>6. ASSUME NEW t \in Sleepers, ResumedAnyway(t),
             UNCHANGED <<timerVars, flagVars>>
       PROVE  InCall'
  BY <1>6 DEF ResumedAnyway
<1>7. ASSUME NEW tm \in Timers, NEW p \in Periods,
             StartStamp(Controller[tm], tm, p), UNCHANGED flagVars
       PROVE  InCall'
  BY <1>7 DEF StartStamp, At, Begin, Goto, SetStamp
<1>8. ASSUME NEW tm \in Timers, StopTest(Controller[tm], tm), UNCHANGED flagVars
       PROVE  InCall'
  BY <1>8 DEF StopTest, At, Begin, Goto
<1>9. ASSUME NEW tm \in Timers, Destroy(Controller[tm], tm), UNCHANGED flagVars
       PROVE  InCall'
  BY <1>9 DEF Destroy, At, SetStamp
<1>10. ASSUME NEW tm \in Timers, Construct(Controller[tm], tm),
              UNCHANGED flagVars
       PROVE  InCall'
  BY <1>10 DEF Construct, At
<1>11. ASSUME NEW t \in Threads, NEW c \in Waits[t], WaitReturnsAtOnce(t, c),
              UNCHANGED timerVars
       PROVE  InCall'
  BY <1>11 DEF WaitReturnsAtOnce, At, Consume
<1>12. ASSUME NEW t \in Threads, NEW c \in Waits[t], NEW d \in Durations,
              WaitEnters(t, c, d), UNCHANGED timerVars
       PROVE  InCall'
  BY <1>12 DEF WaitEnters, At, NotRaised, Begin, Goto, SetStamp
<1>13. ASSUME NEW t \in Raisers, NEW r \in Raises, Raise(t, r[1], r[2]),
              UNCHANGED timerVars
       PROVE  InCall'
  BY <1>13 DEF Raise, At, Begin, Goto
<1>14. ASSUME NEW t \in Raisers, NEW r \in Raises, Clear(t, r[1], r[2]),
              UNCHANGED timerVars
       PROVE  InCall'
  BY <1>14 DEF Clear, At
<1>15. ASSUME NEW t \in Threads, SleepSuspends(t),
              UNCHANGED <<timerVars, flagVars>>
       PROVE  InCall'
  BY <1>15 DEF SleepSuspends, At, IsSleep, Goto
<1>16. ASSUME NEW t \in Threads, SleepUnlinks(t),
              UNCHANGED <<timerVars, flagVars>>
       PROVE  InCall'
  BY <1>16 DEF SleepUnlinks, At, IsSleep, Goto
<1>17. ASSUME NEW t \in Threads, SleepReturns(t),
              UNCHANGED <<timerVars, flagVars>>
       PROVE  InCall'
  BY <1>17 DEF SleepReturns, At, IsSleep, Return, Begin, Goto, SetStamp
<1>18. ASSUME NEW t \in Threads, SleepsOn(t), UNCHANGED <<timerVars, flagVars>>
       PROVE  InCall'
  BY <1>18 DEF SleepsOn, At, IsSleep, Goto
<1>19. ASSUME NEW t \in Threads, StartLink(t), UNCHANGED flagVars
       PROVE  InCall'
  BY <1>19 DEF StartLink, At, Goto
<1>20. ASSUME NEW t \in Threads, StartMark(t), UNCHANGED flagVars
       PROVE  InCall'
  BY <1>20 DEF StartMark, At, Return, Begin, Goto
<1>21. ASSUME NEW t \in Threads, StopUnlink(t), UNCHANGED flagVars
       PROVE  InCall'
  BY <1>21 DEF StopUnlink, At, Goto, SetStamp
<1>22. ASSUME NEW t \in Threads, StopMark(t), UNCHANGED flagVars
       PROVE  InCall'
  BY <1>22 DEF StopMark, At, Return, Begin, Goto
<1>23. ASSUME NEW t \in Threads, WaitReturns(t), UNCHANGED timerVars
       PROVE  InCall'
  BY <1>23
  DEF WaitReturns, At, IsFlagsWait, Consume, Return, Begin, Goto, SetStamp
<1>24. ASSUME NEW t \in Threads, WaitSuspends(t), UNCHANGED timerVars
       PROVE  InCall'
  BY <1>24 DEF WaitSuspends, At, IsFlagsWait, NotRaised, Goto
<1>25. ASSUME NEW t \in Threads, PlainTests(t), UNCHANGED timerVars
       PROVE  InCall'
  BY <1>25 DEF PlainTests, At, IsFlagsWait, NotRaised, Goto
<1>26. ASSUME NEW t \in Threads, PlainSuspends(t), UNCHANGED timerVars
       PROVE  InCall'
  BY <1>26 DEF PlainSuspends, At, Goto
<1>27. ASSUME NEW t \in Threads, WaitUnlinks(t), UNCHANGED timerVars
       PROVE  InCall'
  BY <1>27 DEF WaitUnlinks, At, IsFlagsWait, Goto
<1>28. ASSUME NEW t \in Threads, WaitGivesUp(t), UNCHANGED timerVars
       PROVE  InCall'
  BY <1>28 DEF WaitGivesUp, At, IsFlagsWait, Return, Begin, Goto, SetStamp
<1>29. ASSUME NEW t \in Threads, WaitsOn(t), UNCHANGED timerVars
       PROVE  InCall'
  BY <1>29 DEF WaitsOn, At, IsFlagsWait, Goto
<1>30. ASSUME NEW t \in Threads, RaisePops(t), UNCHANGED timerVars
       PROVE  InCall'
  BY <1>30 DEF RaisePops, At, Goto
<1>31. ASSUME NEW t \in Threads, RaiseResumes(t), UNCHANGED timerVars
       PROVE  InCall'
  BY <1>31 DEF RaiseResumes, At, Goto
<1>32. ASSUME NEW t \in Threads, RaiseReturns(t), UNCHANGED timerVars
       PROVE  InCall'
  BY <1>32 DEF RaiseReturns, At, Return, Begin, Goto
<1>u. CASE UNCHANGED vars
  BY <1>u, AlarmsAssumption, TimersAssumption
  DEF TypeOK, InCall, SleepCalls, WaitCalls, RaiseCalls, TimerCalls, vars,
      clockVars, threadVars, timerVars, flagVars
<1>. QED
  BY <1>1, <1>2, <1>3, <1>4, <1>5, <1>6, <1>7, <1>8, <1>9, <1>10, <1>11,
     <1>12, <1>13, <1>14, <1>15, <1>16, <1>17, <1>18, <1>19, <1>20, <1>21,
     <1>22, <1>23, <1>24, <1>25, <1>26, <1>27, <1>28, <1>29, <1>30, <1>31,
     <1>32, <1>u
  DEF Next, ClockStep, Tick, Sleep, Control, Wait, RaiseOrClear, Inside

\* Every step keeps the clock list a list of live nodes.
LEMMA ClockNodesStep ==
  ASSUME TypeOK, InCall, ClockNodesLive, Stopped,
         [Next]_vars
  PROVE  ClockNodesLive' /\ Stopped'
<1>. USE DEF clockVars, threadVars, timerVars, flagVars
<1>0. /\ \A tm \in Timers : Controller[tm] \in Threads
      /\ \A x \in Threads : pc[x] = "stopped" => call[x].timer \in Timers
  BY TimersAssumption DEF InCall, TimerCalls
<1>1. ASSUME NEW tm \in Timers, TimerFires(tm)
       PROVE  ClockNodesLive' /\ Stopped'
  <2>1. /\ Head(clockList) \in ToSet(clockList)
        /\ Tail(clockList) \in Seq(Nodes)
        /\ ToSet(Tail(clockList)) = ToSet(clockList) \ {Head(clockList)}
        /\ NoDuplicates(Tail(clockList))
    BY <1>1, TailElements
    DEF TypeOK, ClockNodesLive, HeadDue, TimerFires, Expire, RaiseInISR,
        HeadDue, SetStamp
  <2>2. /\ tm = Head(clockList) /\ tm \in Nodes /\ tm \notin Threads
        /\ UNCHANGED <<pc, call>>
    BY <1>1, NodesAssumption
    DEF Nodes, TimerFires, Expire, RaiseInISR, HeadDue, SetStamp
  <2>3. CASE tm \in Periodic
    <3>1. stamp' \in [Nodes -> Int]
      BY <1>1, <2>3
      DEF TypeOK, TimerFires, Expire, RaiseInISR, HeadDue, SetStamp
    <3>. DEFINE new == LinkStamp(Tail(clockList), tm, stamp')
    <3>2. /\ ToSet(new) = ToSet(Tail(clockList)) \union {tm}
          /\ NoDuplicates(new)
      <4>1. tm \notin ToSet(Tail(clockList))
        BY <2>1, <2>2
      <4>. QED  BY <2>1, <2>2, <3>1, <4>1, LinkStampKeeps
    <3>3. clockList' = new /\ state' = state
      BY <1>1, <2>3 DEF TimerFires, Expire, RaiseInISR, HeadDue, SetStamp
    <3>. HIDE DEF new
    <3>. QED
      BY <2>1, <2>2, <3>2, <3>3 DEF ClockNodesLive, Stopped, Timed
  <2>4. CASE tm \notin Periodic
    <3>1. /\ clockList' = Tail(clockList)
          /\ \A x \in Timers \ {tm} : state'[x] = state[x]
      BY <1>1, <2>4
      DEF TypeOK, TimerFires, Expire, RaiseInISR, HeadDue, SetStamp
    <3>. QED
      BY <2>1, <2>2, <3>1 DEF ClockNodesLive, Stopped, Timed
  <2>. QED  BY <2>3, <2>4
<1>2. ASSUME WakeThread, UNCHANGED <<timerVars, flagVars>>
       PROVE  ClockNodesLive' /\ Stopped'
  <2>1. /\ Head(clockList) \in ToSet(clockList)
        /\ Tail(clockList) \in Seq(Nodes)
        /\ ToSet(Tail(clockList)) = ToSet(clockList) \ {Head(clockList)}
        /\ NoDuplicates(Tail(clockList))
    BY <1>2, TailElements
    DEF TypeOK, ClockNodesLive, HeadDue, WakeThread, HeadDue
  <2>. QED
    BY <1>2, <2>1
    DEF TypeOK, ClockNodesLive, Stopped, Timed, WakeThread, HeadDue
<1>3. ASSUME CheckEnds, UNCHANGED <<timerVars, flagVars>>
       PROVE  ClockNodesLive' /\ Stopped'
  BY <1>3, AlarmsAssumption, TimersAssumption, NodesAssumption
  DEF TypeOK, InCall, ClockNodesLive, Stopped, Timed, CheckEnds
<1>4. ASSUME NEW d \in {1} \union Slept, Advance(d),
             UNCHANGED <<timerVars, flagVars>>
       PROVE  ClockNodesLive' /\ Stopped'
  BY <1>4, AlarmsAssumption, TimersAssumption, NodesAssumption
  DEF TypeOK, InCall, ClockNodesLive, Stopped, Timed, Advance
<1>5. ASSUME NEW t \in Sleepers, NEW d \in Durations,
                NEW kind \in {"sleep_for", "wait_for"}, SleepCall(t, kind, d),
                UNCHANGED <<timerVars, flagVars>>
       PROVE  ClockNodesLive' /\ Stopped'
  BY <1>5, AlarmsAssumption, TimersAssumption, NodesAssumption
  DEF TypeOK, InCall, ClockNodesLive, Stopped, Timed, SleepCall, At, Begin,
      Goto, SetStamp
<1>6. ASSUME NEW t \in Sleepers, ResumedAnyway(t),
             UNCHANGED <<timerVars, flagVars>>
       PROVE  ClockNodesLive' /\ Stopped'
  BY <1>6, AlarmsAssumption, TimersAssumption, NodesAssumption
  DEF TypeOK, InCall, ClockNodesLive, Stopped, Timed, ResumedAnyway
<1>7. ASSUME NEW tm \in Timers, NEW p \in Periods,
             StartStamp(Controller[tm], tm, p), UNCHANGED flagVars
       PROVE  ClockNodesLive' /\ Stopped'
  BY <1>7, AlarmsAssumption, TimersAssumption, NodesAssumption
  DEF TypeOK, InCall, ClockNodesLive, Stopped, Timed, StartStamp, At, Begin,
      Goto, SetStamp
<1>8. ASSUME NEW tm \in Timers, StopTest(Controller[tm], tm), UNCHANGED flagVars
       PROVE  ClockNodesLive' /\ Stopped'
  BY <1>8, AlarmsAssumption, TimersAssumption, NodesAssumption
  DEF TypeOK, InCall, ClockNodesLive, Stopped, Timed, StopTest, At, Begin,
      Goto
<1>9. ASSUME NEW tm \in Timers, Destroy(Controller[tm], tm), UNCHANGED flagVars
       PROVE  ClockNodesLive' /\ Stopped'
  <2>1. /\ ToSet(Unlink(clockList, tm)) = ToSet(clockList) \ {tm}
        /\ NoDuplicates(Unlink(clockList, tm))
    BY UnlinkElements DEF TypeOK, ClockNodesLive
  <2>. QED
    BY <1>9, <2>1, TimersAssumption
    DEF TypeOK, ClockNodesLive, Stopped, Timed, Destroy, At, SetStamp
<1>10. ASSUME NEW tm \in Timers, Construct(Controller[tm], tm),
              UNCHANGED flagVars
       PROVE  ClockNodesLive' /\ Stopped'
  BY <1>10, AlarmsAssumption, TimersAssumption, NodesAssumption
  DEF TypeOK, InCall, ClockNodesLive, Stopped, Timed, Construct, At
<1>11. ASSUME NEW t \in Threads, NEW c \in Waits[t], WaitReturnsAtOnce(t, c),
              UNCHANGED timerVars
       PROVE  ClockNodesLive' /\ Stopped'
  BY <1>11, AlarmsAssumption, TimersAssumption, NodesAssumption
  DEF TypeOK, InCall, ClockNodesLive, Stopped, Timed, WaitReturnsAtOnce, At,
      Consume
<1>12. ASSUME NEW t \in Threads, NEW c \in Waits[t], NEW d \in Durations,
              WaitEnters(t, c, d), UNCHANGED timerVars
       PROVE  ClockNodesLive' /\ Stopped'
  BY <1>12, AlarmsAssumption, TimersAssumption, NodesAssumption
  DEF TypeOK, InCall, ClockNodesLive, Stopped, Timed, WaitEnters, At,
      NotRaised, Begin, Goto, SetStamp
<1>13. ASSUME NEW t \in Raisers, NEW r \in Raises, Raise(t, r[1], r[2]),
              UNCHANGED timerVars
       PROVE  ClockNodesLive' /\ Stopped'
  BY <1>13, AlarmsAssumption, TimersAssumption, NodesAssumption
  DEF TypeOK, InCall, ClockNodesLive, Stopped, Timed, Raise, At, Begin, Goto
<1>14. ASSUME NEW t \in Raisers, NEW r \in Raises, Clear(t, r[1], r[2]),
              UNCHANGED timerVars
       PROVE  ClockNodesLive' /\ Stopped'
  BY <1>14, AlarmsAssumption, TimersAssumption, NodesAssumption
  DEF TypeOK, InCall, ClockNodesLive, Stopped, Timed, Clear, At
<1>15. ASSUME NEW t \in Threads, SleepSuspends(t),
              UNCHANGED <<timerVars, flagVars>>
       PROVE  ClockNodesLive' /\ Stopped'
  <2>. DEFINE new == LinkStamp(clockList, t, stamp)
  <2>1. t \notin ToSet(clockList) /\ t \in Nodes /\ t \notin Timers
    BY <1>15, NodesAssumption
    DEF ClockNodesLive, Nodes, SleepSuspends, At, IsSleep, Goto
  <2>2. /\ clockList \in Seq(Nodes) /\ stamp \in [Nodes -> Int]
        /\ NoDuplicates(clockList)
    BY DEF TypeOK, ClockNodesLive
  <2>3. ToSet(new) = ToSet(clockList) \union {t} /\ NoDuplicates(new)
    BY <2>1, <2>2, LinkStampKeeps
  <2>4. clockList' = new
    BY <1>15 DEF SleepSuspends, At, IsSleep, Goto
  <2>. HIDE DEF new
  <2>5. /\ UNCHANGED <<call, state>> /\ pc[t] = "loop" /\ pc'[t] = "asleep"
        /\ \A x \in Threads \ {t} : pc'[x] = pc[x]
    BY <1>15 DEF TypeOK, SleepSuspends, At, IsSleep, Goto
  <2>6. Timed(t)
    BY <1>15, <2>5
    DEF InCall, SleepCalls, WaitCalls, Timed, SleepSuspends, At, IsSleep, Goto
  <2>. QED
    BY <2>1, <2>3, <2>4, <2>5, <2>6, <1>0 DEF ClockNodesLive, Stopped, Timed
<1>16. ASSUME NEW t \in Threads, SleepUnlinks(t),
              UNCHANGED <<timerVars, flagVars>>
       PROVE  ClockNodesLive' /\ Stopped'
  <2>1. /\ ToSet(Unlink(clockList, t)) = ToSet(clockList) \ {t}
        /\ NoDuplicates(Unlink(clockList, t))
    BY UnlinkElements DEF TypeOK, ClockNodesLive
  <2>. QED
    BY <1>16, <2>1, NodesAssumption
    DEF TypeOK, ClockNodesLive, Stopped, Timed, SleepUnlinks, At, IsSleep,
        Goto
<1>17. ASSUME NEW t \in Threads, SleepReturns(t),
              UNCHANGED <<timerVars, flagVars>>
       PROVE  ClockNodesLive' /\ Stopped'
  BY <1>17, AlarmsAssumption, TimersAssumption, NodesAssumption
  DEF TypeOK, InCall, ClockNodesLive, Stopped, Timed, SleepReturns, At,
      IsSleep, Return, Begin, Goto, SetStamp
<1>18. ASSUME NEW t \in Threads, SleepsOn(t), UNCHANGED <<timerVars, flagVars>>
       PROVE  ClockNodesLive' /\ Stopped'
  BY <1>18, AlarmsAssumption, TimersAssumption, NodesAssumption
  DEF TypeOK, InCall, ClockNodesLive, Stopped, Timed, SleepsOn, At, IsSleep,
      Goto
<1>19. ASSUME NEW t \in Threads, StartLink(t), UNCHANGED flagVars
       PROVE  ClockNodesLive' /\ Stopped'
  <2>. DEFINE tm == call[t].timer
  <2>1. tm \in Timers /\ Controller[tm] = t /\ tm \in Nodes
    BY <1>19 DEF InCall, TimerCalls, Nodes, StartLink, At, Goto
  <2>2. /\ ToSet(Unlink(clockList, tm)) = ToSet(clockList) \ {tm}
        /\ NoDuplicates(Unlink(clockList, tm))
        /\ Unlink(clockList, tm) \in Seq(Nodes)
    BY UnlinkElements DEF TypeOK, ClockNodesLive
  <2>. DEFINE new == LinkStamp(Unlink(clockList, tm), tm, stamp)
  <2>3. ToSet(new) = ToSet(clockList) \union {tm} /\ NoDuplicates(new)
    BY <2>1, <2>2, LinkStampKeeps DEF TypeOK
  <2>4. clockList' = new
    BY <1>19 DEF StartLink, At, Goto
  <2>. HIDE DEF new
  <2>. QED
    BY <1>19, <2>1, <2>3, <2>4, NodesAssumption
    DEF TypeOK, InCall, ClockNodesLive, Stopped, Timed, StartLink, At, Goto
<1>20. ASSUME NEW t \in Threads, StartMark(t), UNCHANGED flagVars
       PROVE  ClockNodesLive' /\ Stopped'
  BY <1>20, AlarmsAssumption, TimersAssumption, NodesAssumption
  DEF TypeOK, InCall, ClockNodesLive, Stopped, Timed, StartMark, At, Return,
      Begin, Goto
<1>21. ASSUME NEW t \in Threads, StopUnlink(t), UNCHANGED flagVars
       PROVE  ClockNodesLive' /\ Stopped'
  <2>. DEFINE tm == call[t].timer
  <2>1. tm \in Timers /\ Controller[tm] = t /\ tm \in Nodes
    BY <1>21 DEF InCall, TimerCalls, Nodes, StopUnlink, At, Goto, SetStamp
  <2>2. /\ ToSet(Unlink(clockList, tm)) = ToSet(clockList) \ {tm}
        /\ NoDuplicates(Unlink(clockList, tm))
        /\ Unlink(clockList, tm) \in Seq(Nodes)
    BY UnlinkElements DEF TypeOK, ClockNodesLive
  <2>. QED
    BY <1>21, <2>1, <2>2, NodesAssumption
    DEF TypeOK, InCall, ClockNodesLive, Stopped, Timed, StopUnlink, At, Goto,
        SetStamp
<1>22. ASSUME NEW t \in Threads, StopMark(t), UNCHANGED flagVars
       PROVE  ClockNodesLive' /\ Stopped'
  BY <1>22, AlarmsAssumption, TimersAssumption, NodesAssumption
  DEF TypeOK, InCall, ClockNodesLive, Stopped, Timed, StopMark, At, Return,
      Begin, Goto
<1>23. ASSUME NEW t \in Threads, WaitReturns(t), UNCHANGED timerVars
       PROVE  ClockNodesLive' /\ Stopped'
  BY <1>23, AlarmsAssumption, TimersAssumption, NodesAssumption
  DEF TypeOK, InCall, ClockNodesLive, Stopped, Timed, WaitReturns, At,
      IsFlagsWait, Consume, Return, Begin, Goto, SetStamp
<1>24. ASSUME NEW t \in Threads, WaitSuspends(t), UNCHANGED timerVars
       PROVE  ClockNodesLive' /\ Stopped'
  <2>. DEFINE new == LinkStamp(clockList, t, stamp)
  <2>0. /\ t \notin ToSet(clockList) /\ t \in Nodes /\ t \notin Timers
        /\ clockList \in Seq(Nodes) /\ stamp \in [Nodes -> Int]
        /\ NoDuplicates(clockList)
    BY <1>24, NodesAssumption
    DEF TypeOK, ClockNodesLive, Nodes, WaitSuspends, At, IsFlagsWait,
        NotRaised, Goto
  <2>1. CASE call[t].timed
    <3>1. ToSet(new) = ToSet(clockList) \union {t} /\ NoDuplicates(new)
      BY <2>0, LinkStampKeeps
    <3>2. clockList' = new
      BY <1>24, <2>1 DEF WaitSuspends, At, IsFlagsWait, NotRaised, Goto
    <3>. HIDE DEF new
    <3>3. /\ UNCHANGED <<call, state>> /\ pc[t] = "loop" /\ pc'[t] = "asleep"
          /\ \A x \in Threads \ {t} : pc'[x] = pc[x]
      BY <1>24 DEF TypeOK, WaitSuspends, At, IsFlagsWait, NotRaised, Goto
    <3>4. Timed(t)
      BY <1>24, <2>1 DEF Timed, WaitSuspends, At, IsFlagsWait, NotRaised, Goto
    <3>. QED
      BY <2>0, <3>1, <3>2, <3>3, <3>4, <1>0 DEF ClockNodesLive, Stopped, Timed
  <2>2. CASE ~ call[t].timed
    BY <1>24, <2>2, NodesAssumption
    DEF TypeOK, ClockNodesLive, Stopped, Timed, WaitSuspends, At, IsFlagsWait,
        NotRaised, Goto
  <2>. QED  BY <2>1, <2>2
<1>25. ASSUME NEW t \in Threads, PlainTests(t), UNCHANGED timerVars
       PROVE  ClockNodesLive' /\ Stopped'
  BY <1>25, AlarmsAssumption, TimersAssumption, NodesAssumption
  DEF TypeOK, InCall, ClockNodesLive, Stopped, Timed, PlainTests, At,
      IsFlagsWait, NotRaised, Goto
<1>26. ASSUME NEW t \in Threads, PlainSuspends(t), UNCHANGED timerVars
       PROVE  ClockNodesLive' /\ Stopped'
  BY <1>26, AlarmsAssumption, TimersAssumption, NodesAssumption
  DEF TypeOK, InCall, ClockNodesLive, Stopped, Timed, PlainSuspends, At, Goto
<1>27. ASSUME NEW t \in Threads, WaitUnlinks(t), UNCHANGED timerVars
       PROVE  ClockNodesLive' /\ Stopped'
  <2>1. /\ ToSet(Unlink(clockList, t)) = ToSet(clockList) \ {t}
        /\ NoDuplicates(Unlink(clockList, t))
    BY UnlinkElements DEF TypeOK, ClockNodesLive
  <2>. QED
    BY <1>27, <2>1, NodesAssumption
    DEF TypeOK, ClockNodesLive, Stopped, Timed, WaitUnlinks, At, IsFlagsWait,
        Goto
<1>28. ASSUME NEW t \in Threads, WaitGivesUp(t), UNCHANGED timerVars
       PROVE  ClockNodesLive' /\ Stopped'
  BY <1>28, AlarmsAssumption, TimersAssumption, NodesAssumption
  DEF TypeOK, InCall, ClockNodesLive, Stopped, Timed, WaitGivesUp, At,
      IsFlagsWait, Return, Begin, Goto, SetStamp
<1>29. ASSUME NEW t \in Threads, WaitsOn(t), UNCHANGED timerVars
       PROVE  ClockNodesLive' /\ Stopped'
  BY <1>29, AlarmsAssumption, TimersAssumption, NodesAssumption
  DEF TypeOK, InCall, ClockNodesLive, Stopped, Timed, WaitsOn, At,
      IsFlagsWait, Goto
<1>30. ASSUME NEW t \in Threads, RaisePops(t), UNCHANGED timerVars
       PROVE  ClockNodesLive' /\ Stopped'
  BY <1>30, AlarmsAssumption, TimersAssumption, NodesAssumption
  DEF TypeOK, InCall, ClockNodesLive, Stopped, Timed, RaisePops, At, Goto
<1>31. ASSUME NEW t \in Threads, RaiseResumes(t), UNCHANGED timerVars
       PROVE  ClockNodesLive' /\ Stopped'
  BY <1>31, AlarmsAssumption, TimersAssumption, NodesAssumption
  DEF TypeOK, InCall, ClockNodesLive, Stopped, Timed, RaiseResumes, At, Goto
<1>32. ASSUME NEW t \in Threads, RaiseReturns(t), UNCHANGED timerVars
       PROVE  ClockNodesLive' /\ Stopped'
  BY <1>32, AlarmsAssumption, TimersAssumption, NodesAssumption
  DEF TypeOK, InCall, ClockNodesLive, Stopped, Timed, RaiseReturns, At,
      Return, Begin, Goto
<1>u. CASE UNCHANGED vars
  BY <1>u, AlarmsAssumption, TimersAssumption, NodesAssumption
  DEF TypeOK, InCall, ClockNodesLive, Stopped, Timed, vars, clockVars,
      threadVars, timerVars, flagVars
<1>. QED
  BY <1>1, <1>2, <1>3, <1>4, <1>5, <1>6, <1>7, <1>8, <1>9, <1>10, <1>11,
     <1>12, <1>13, <1>14, <1>15, <1>16, <1>17, <1>18, <1>19, <1>20, <1>21,
     <1>22, <1>23, <1>24, <1>25, <1>26, <1>27, <1>28, <1>29, <1>30, <1>31,
     <1>32, <1>u
  DEF Next, ClockStep, Tick, Sleep, Control, Wait, RaiseOrClear, Inside

\* Every step keeps the waiters of the event flags object findable.
LEMMA WaitersStep ==
  ASSUME TypeOK, InCall, Waiters, [Next]_vars
  PROVE  Waiters'
<1>. USE DEF clockVars, threadVars, timerVars, flagVars
<1>0. suspended \subseteq Threads /\ ToSet(list) \subseteq Threads
  BY DEF TypeOK, ToSet
<1>1. ASSUME NEW tm \in Timers, TimerFires(tm)
       PROVE  Waiters'
  <2>0. UNCHANGED <<pc, call, popped>>
    BY <1>1 DEF TimerFires, Expire, RaiseInISR, HeadDue, SetStamp
  <2>1. CASE Target[tm] = EventObject
    <3>1. list' = <<>> /\ suspended' = suspended \ ToSet(list)
      BY <1>1, <2>1 DEF TimerFires, Expire, RaiseInISR, HeadDue, SetStamp
    <3>2. NoDuplicates(<<>>) /\ ToSet(<<>>) = {}
      BY DEF NoDuplicates, ToSet
    <3>. QED  BY <2>0, <3>1, <3>2 DEF Waiters, IsFlagsWait
  <2>2. CASE Target[tm] # EventObject
    <3>1. list' = list /\ suspended' = suspended \ {Target[tm]}
      BY <1>1, <2>2 DEF TimerFires, Expire, RaiseInISR, HeadDue, SetStamp
    <3>. QED  BY <2>0, <3>1 DEF Waiters, IsFlagsWait
  <2>. QED  BY <2>1, <2>2
<1>2. ASSUME WakeThread, UNCHANGED <<timerVars, flagVars>>
       PROVE  Waiters'
  BY <1>2, AlarmsAssumption
  DEF TypeOK, Waiters, IsFlagsWait, WakeThread, HeadDue
<1>3. ASSUME CheckEnds, UNCHANGED <<timerVars, flagVars>>
       PROVE  Waiters'
  BY <1>3, AlarmsAssumption DEF TypeOK, Waiters, IsFlagsWait, CheckEnds
<1>4. ASSUME NEW d \in {1} \union Slept, Advance(d),
             UNCHANGED <<timerVars, flagVars>>
       PROVE  Waiters'
  BY <1>4, AlarmsAssumption DEF TypeOK, Waiters, IsFlagsWait, Advance
<1>5. ASSUME NEW t \in Sleepers, NEW d \in Durations,
                NEW kind \in {"sleep_for", "wait_for"}, SleepCall(t, kind, d),
                UNCHANGED <<timerVars, flagVars>>
       PROVE  Waiters'
  BY <1>5, AlarmsAssumption
  DEF TypeOK, Waiters, IsFlagsWait, SleepCall, At, Begin, Goto, SetStamp
<1>6. ASSUME NEW t \in Sleepers, ResumedAnyway(t),
             UNCHANGED <<timerVars, flagVars>>
       PROVE  Waiters'
  BY <1>6, AlarmsAssumption DEF TypeOK, Waiters, IsFlagsWait, ResumedAnyway
<1>7. ASSUME NEW tm \in Timers, NEW p \in Periods,
             StartStamp(Controller[tm], tm, p), UNCHANGED flagVars
       PROVE  Waiters'
  BY <1>7, AlarmsAssumption
  DEF TypeOK, Waiters, IsFlagsWait, StartStamp, At, Begin, Goto, SetStamp
<1>8. ASSUME NEW tm \in Timers, StopTest(Controller[tm], tm), UNCHANGED flagVars
       PROVE  Waiters'
  BY <1>8, AlarmsAssumption
  DEF TypeOK, Waiters, IsFlagsWait, StopTest, At, Begin, Goto
<1>9. ASSUME NEW tm \in Timers, Destroy(Controller[tm], tm), UNCHANGED flagVars
       PROVE  Waiters'
  BY <1>9, AlarmsAssumption
  DEF TypeOK, Waiters, IsFlagsWait, Destroy, At, SetStamp
<1>10. ASSUME NEW tm \in Timers, Construct(Controller[tm], tm),
              UNCHANGED flagVars
       PROVE  Waiters'
  BY <1>10, AlarmsAssumption DEF TypeOK, Waiters, IsFlagsWait, Construct, At
<1>11. ASSUME NEW t \in Threads, NEW c \in Waits[t], WaitReturnsAtOnce(t, c),
              UNCHANGED timerVars
       PROVE  Waiters'
  BY <1>11, AlarmsAssumption
  DEF TypeOK, Waiters, IsFlagsWait, WaitReturnsAtOnce, At, Consume
<1>12. ASSUME NEW t \in Threads, NEW c \in Waits[t], NEW d \in Durations,
              WaitEnters(t, c, d), UNCHANGED timerVars
       PROVE  Waiters'
  BY <1>12, AlarmsAssumption
  DEF TypeOK, Waiters, IsFlagsWait, WaitEnters, At, NotRaised, Begin, Goto,
      SetStamp
<1>13. ASSUME NEW t \in Raisers, NEW r \in Raises, Raise(t, r[1], r[2]),
              UNCHANGED timerVars
       PROVE  Waiters'
  BY <1>13, AlarmsAssumption
  DEF TypeOK, Waiters, IsFlagsWait, Raise, At, Begin, Goto
<1>14. ASSUME NEW t \in Raisers, NEW r \in Raises, Clear(t, r[1], r[2]),
              UNCHANGED timerVars
       PROVE  Waiters'
  BY <1>14, AlarmsAssumption DEF TypeOK, Waiters, IsFlagsWait, Clear, At
<1>15. ASSUME NEW t \in Threads, SleepSuspends(t),
              UNCHANGED <<timerVars, flagVars>>
       PROVE  Waiters'
  BY <1>15, AlarmsAssumption
  DEF TypeOK, Waiters, IsFlagsWait, SleepSuspends, At, IsSleep, Goto
<1>16. ASSUME NEW t \in Threads, SleepUnlinks(t),
              UNCHANGED <<timerVars, flagVars>>
       PROVE  Waiters'
  BY <1>16, AlarmsAssumption
  DEF TypeOK, Waiters, IsFlagsWait, SleepUnlinks, At, IsSleep, Goto
<1>17. ASSUME NEW t \in Threads, SleepReturns(t),
              UNCHANGED <<timerVars, flagVars>>
       PROVE  Waiters'
  BY <1>17, AlarmsAssumption
  DEF TypeOK, Waiters, IsFlagsWait, SleepReturns, At, IsSleep, Return, Begin,
      Goto, SetStamp
<1>18. ASSUME NEW t \in Threads, SleepsOn(t), UNCHANGED <<timerVars, flagVars>>
       PROVE  Waiters'
  BY <1>18, AlarmsAssumption
  DEF TypeOK, Waiters, IsFlagsWait, SleepsOn, At, IsSleep, Goto
<1>19. ASSUME NEW t \in Threads, StartLink(t), UNCHANGED flagVars
       PROVE  Waiters'
  BY <1>19, AlarmsAssumption
  DEF TypeOK, Waiters, IsFlagsWait, StartLink, At, Goto
<1>20. ASSUME NEW t \in Threads, StartMark(t), UNCHANGED flagVars
       PROVE  Waiters'
  BY <1>20, AlarmsAssumption
  DEF TypeOK, Waiters, IsFlagsWait, StartMark, At, Return, Begin, Goto
<1>21. ASSUME NEW t \in Threads, StopUnlink(t), UNCHANGED flagVars
       PROVE  Waiters'
  BY <1>21, AlarmsAssumption
  DEF TypeOK, Waiters, IsFlagsWait, StopUnlink, At, Goto, SetStamp
<1>22. ASSUME NEW t \in Threads, StopMark(t), UNCHANGED flagVars
       PROVE  Waiters'
  BY <1>22, AlarmsAssumption
  DEF TypeOK, Waiters, IsFlagsWait, StopMark, At, Return, Begin, Goto
<1>23. ASSUME NEW t \in Threads, WaitReturns(t), UNCHANGED timerVars
       PROVE  Waiters'
  BY <1>23, AlarmsAssumption
  DEF TypeOK, Waiters, IsFlagsWait, WaitReturns, At, IsFlagsWait, Consume,
      Return, Begin, Goto, SetStamp
<1>24. ASSUME NEW t \in Threads, WaitSuspends(t), UNCHANGED timerVars
       PROVE  Waiters'
  <2>1. /\ pc[t] = "loop" /\ t \notin ToSet(list) /\ t \notin suspended
        /\ IsFlagsWait(t) /\ pc'[t] = "asleep"
        /\ \A x \in Threads \ {t} : pc'[x] = pc[x]
        /\ suspended' = suspended \union {t} /\ UNCHANGED <<call, popped>>
    BY <1>24 DEF TypeOK, Waiters, WaitSuspends, At, IsFlagsWait, NotRaised, Goto
  <2>2. CASE call[t].kind = "event"
    <3>1. /\ ToSet(Link(list, t, Prio)) = ToSet(list) \union {t}
          /\ NoDuplicates(Link(list, t, Prio))
      BY <2>1, FlagsAssumption, LinkElements DEF TypeOK, Waiters
    <3>2. list' = Link(list, t, Prio)
      BY <1>24, <2>2 DEF WaitSuspends, At, IsFlagsWait, NotRaised, Goto
    <3>. QED
      BY <1>0, <2>1, <2>2, <3>1, <3>2 DEF Waiters, IsFlagsWait
  <2>3. CASE call[t].kind # "event"
    <3>1. list' = list
      BY <1>24, <2>3 DEF WaitSuspends, At, IsFlagsWait, NotRaised, Goto
    <3>. QED
      BY <1>0, <2>1, <2>3, <3>1 DEF Waiters, IsFlagsWait
  <2>. QED  BY <2>2, <2>3
<1>25. ASSUME NEW t \in Threads, PlainTests(t), UNCHANGED timerVars
       PROVE  Waiters'
  BY <1>25, AlarmsAssumption
  DEF TypeOK, Waiters, IsFlagsWait, PlainTests, At, IsFlagsWait, NotRaised,
      Goto
<1>26. ASSUME NEW t \in Threads, PlainSuspends(t), UNCHANGED timerVars
       PROVE  Waiters'
  BY <1>26 DEF TypeOK, InCall, Waiters, IsFlagsWait, PlainSuspends, At, Goto
<1>27. ASSUME NEW t \in Threads, WaitUnlinks(t), UNCHANGED timerVars
       PROVE  Waiters'
  <2>1. /\ ToSet(Unlink(list, t)) = ToSet(list) \ {t}
        /\ NoDuplicates(Unlink(list, t))
    BY UnlinkElements DEF TypeOK, Waiters
  <2>. QED
    BY <1>27, <2>1 DEF TypeOK, Waiters, WaitUnlinks, At, IsFlagsWait, Goto
<1>28. ASSUME NEW t \in Threads, WaitGivesUp(t), UNCHANGED timerVars
       PROVE  Waiters'
  BY <1>28, AlarmsAssumption
  DEF TypeOK, Waiters, IsFlagsWait, WaitGivesUp, At, IsFlagsWait, Return,
      Begin, Goto, SetStamp
<1>29. ASSUME NEW t \in Threads, WaitsOn(t), UNCHANGED timerVars
       PROVE  Waiters'
  BY <1>29, AlarmsAssumption
  DEF TypeOK, Waiters, IsFlagsWait, WaitsOn, At, IsFlagsWait, Goto
<1>30. ASSUME NEW t \in Threads, RaisePops(t), UNCHANGED timerVars
       PROVE  Waiters'
  <2>1. /\ Head(list) \in ToSet(list)
        /\ ToSet(Tail(list)) = ToSet(list) \ {Head(list)}
        /\ NoDuplicates(Tail(list))
    BY <1>30, TailElements DEF TypeOK, Waiters, RaisePops, At, Goto
  <2>2. /\ pc[t] = "raised" /\ pc'[t] = "resuming" /\ popped'[t] = Head(list)
        /\ \A x \in Threads \ {t} : pc'[x] = pc[x] /\ popped'[x] = popped[x]
        /\ list' = Tail(list) /\ UNCHANGED <<suspended, call>>
    BY <1>30 DEF TypeOK, RaisePops, At, Goto
  <2>. QED
    BY <1>0, <2>1, <2>2 DEF Waiters, IsFlagsWait
<1>31. ASSUME NEW t \in Threads, RaiseResumes(t), UNCHANGED timerVars
       PROVE  Waiters'
  BY <1>31, AlarmsAssumption
  DEF TypeOK, Waiters, IsFlagsWait, RaiseResumes, At, Goto
<1>32. ASSUME NEW t \in Threads, RaiseReturns(t), UNCHANGED timerVars
       PROVE  Waiters'
  BY <1>32, AlarmsAssumption
  DEF TypeOK, Waiters, IsFlagsWait, RaiseReturns, At, Return, Begin, Goto
<1>u. CASE UNCHANGED vars
  BY <1>u, AlarmsAssumption
  DEF TypeOK, Waiters, IsFlagsWait, vars, clockVars, threadVars, timerVars,
      flagVars
<1>. QED
  BY <1>1, <1>2, <1>3, <1>4, <1>5, <1>6, <1>7, <1>8, <1>9, <1>10, <1>11,
     <1>12, <1>13, <1>14, <1>15, <1>16, <1>17, <1>18, <1>19, <1>20, <1>21,
     <1>22, <1>23, <1>24, <1>25, <1>26, <1>27, <1>28, <1>29, <1>30, <1>31,
     <1>32, <1>u
  DEF Next, ClockStep, Tick, Sleep, Control, Wait, RaiseOrClear, Inside

\* A thread that goes on sleeping, on flags of which none was added, and whose
\* flags are raised, was already being woken.
LEMMA AlreadyWoken ==
  ASSUME NoLostFlag, NEW t \in Threads, t \in suspended, call'[t] = call[t],
         raised'[ObjectOf(t, call[t])] \subseteq raised[ObjectOf(t, call[t])],
         SleepsOnRaised(t)', call[t].kind # "plain"
  PROVE  WakingOf(ObjectOf(t, call[t]))
<1>1. IsFlagsWait(t) /\ Raised(t, call[t])'
  BY DEF SleepsOnRaised, IsFlagsWait
<1>2. Raised(t, call[t])
  <2>1. Raised(t, call[t])' <=>
          LET now == raised'[ObjectOf(t, call[t])]
          IN  IF call[t].mask = {} THEN now # {}
              ELSE IF call[t].all THEN call[t].mask \subseteq now
                   ELSE call[t].mask \intersect now # {}
    BY DEF Raised, ObjectOf
  <2>. QED  BY <1>1, <2>1 DEF Raised
<1>. QED  BY <1>1, <1>2 DEF NoLostFlag, SleepsOnRaised

\* Steps that add no flag, suspend no thread and end no wake-up lose none.
LEMMA NothingRaised ==
  ASSUME InCall, Waiters, NoLostFlag,
         \A o \in Objects : raised'[o] \subseteq raised[o],
         \A t \in suspended' : t \in suspended /\ call'[t] = call[t],
         \A u \in Threads : pc[u] \in {"raised", "resuming"} =>
           pc'[u] \in {"raised", "resuming"} /\ call'[u] = call[u]
  PROVE  NoLostFlag'
<1>. SUFFICES ASSUME NEW t \in Threads, SleepsOnRaised(t)',
                     call'[t].kind # "plain"
              PROVE  WakingOf(ObjectOf(t, call[t]))'
  BY DEF NoLostFlag
<1>1. t \in suspended /\ call'[t] = call[t]
  BY DEF SleepsOnRaised
<1>2. /\ ObjectOf(t, call[t]) \in Objects
      /\ ObjectOf(t, call[t])' = ObjectOf(t, call[t])
  BY <1>1 DEF ObjectOf, Objects
<1>3. WakingOf(ObjectOf(t, call[t]))
  BY <1>1, <1>2, AlreadyWoken
<1>. QED  BY <1>2, <1>3 DEF WakingOf

\* No step loses a wake-up.
LEMMA NoLostFlagStep ==
  ASSUME TypeOK, InCall, Waiters, NoLostFlag, [Next]_vars
  PROVE  NoLostFlag'
<1>. USE DEF clockVars, threadVars, timerVars, flagVars
<1>1. ASSUME NEW tm \in Timers, TimerFires(tm)
       PROVE  NoLostFlag'
  <2>. SUFFICES ASSUME NEW x \in Threads, SleepsOnRaised(x)',
                       call'[x].kind # "plain"
                PROVE  WakingOf(ObjectOf(x, call[x]))'
    BY DEF NoLostFlag
  <2>. DEFINE o == Target[tm]
  <2>1. /\ UNCHANGED <<pc, call>> /\ suspended' \subseteq suspended
        /\ \A z \in Objects \ {o} : raised'[z] = raised[z]
        /\ o = EventObject => suspended' = suspended \ ToSet(list)
        /\ o # EventObject => o \notin suspended'
    BY <1>1 DEF TypeOK, TimerFires, Expire, RaiseInISR, HeadDue, SetStamp
  <2>2. /\ x \in suspended /\ x \in suspended' /\ IsFlagsWait(x)
        /\ call'[x] = call[x]
    BY <2>1 DEF SleepsOnRaised, IsFlagsWait
  <2>3. /\ ObjectOf(x, call[x]) \in Objects
        /\ ObjectOf(x, call[x])' = ObjectOf(x, call[x])
    BY <2>2 DEF ObjectOf, Objects
  <2>4. CASE ObjectOf(x, call[x]) # o
    <3>1. WakingOf(ObjectOf(x, call[x]))
      BY <2>1, <2>2, <2>3, <2>4, AlreadyWoken
    <3>. QED  BY <2>1, <2>3, <3>1 DEF WakingOf
  <2>5. CASE ObjectOf(x, call[x]) = o
    <3>1. o = EventObject /\ call[x].kind = "event"
      BY <2>1, <2>2, <2>5, FlagsAssumption DEF ObjectOf
    <3>2. PICK u \in Threads : pc[u] = "resuming" /\ popped[u] = x
      BY <2>1, <2>2, <3>1 DEF Waiters
    <3>3. call[u].object = EventObject
      BY <3>2 DEF InCall
    <3>. QED  BY <2>1, <2>3, <2>5, <3>1, <3>2, <3>3 DEF WakingOf
  <2>. QED  BY <2>4, <2>5
<1>2. ASSUME WakeThread, UNCHANGED <<timerVars, flagVars>>
       PROVE  NoLostFlag'
  <2>1. /\ \A o \in Objects : raised'[o] \subseteq raised[o]
        /\ \A x \in suspended' : x \in suspended /\ call'[x] = call[x]
        /\ \A u \in Threads : pc[u] \in {"raised", "resuming"} =>
             pc'[u] \in {"raised", "resuming"} /\ call'[u] = call[u]
    BY <1>2 DEF TypeOK, Waiters, WakeThread, HeadDue
  <2>. QED  BY <2>1, NothingRaised
<1>3. ASSUME CheckEnds, UNCHANGED <<timerVars, flagVars>>
       PROVE  NoLostFlag'
  <2>1. /\ \A o \in Objects : raised'[o] \subseteq raised[o]
        /\ \A x \in suspended' : x \in suspended /\ call'[x] = call[x]
        /\ \A u \in Threads : pc[u] \in {"raised", "resuming"} =>
             pc'[u] \in {"raised", "resuming"} /\ call'[u] = call[u]
    BY <1>3 DEF TypeOK, Waiters, CheckEnds
  <2>. QED  BY <2>1, NothingRaised
<1>4. ASSUME NEW d \in {1} \union Slept, Advance(d),
             UNCHANGED <<timerVars, flagVars>>
       PROVE  NoLostFlag'
  <2>1. /\ \A o \in Objects : raised'[o] \subseteq raised[o]
        /\ \A x \in suspended' : x \in suspended /\ call'[x] = call[x]
        /\ \A u \in Threads : pc[u] \in {"raised", "resuming"} =>
             pc'[u] \in {"raised", "resuming"} /\ call'[u] = call[u]
    BY <1>4 DEF TypeOK, Waiters, Advance
  <2>. QED  BY <2>1, NothingRaised
<1>5. ASSUME NEW t \in Sleepers, NEW d \in Durations,
                NEW kind \in {"sleep_for", "wait_for"}, SleepCall(t, kind, d),
                UNCHANGED <<timerVars, flagVars>>
       PROVE  NoLostFlag'
  <2>1. /\ \A o \in Objects : raised'[o] \subseteq raised[o]
        /\ \A x \in suspended' : x \in suspended /\ call'[x] = call[x]
        /\ \A u \in Threads : pc[u] \in {"raised", "resuming"} =>
             pc'[u] \in {"raised", "resuming"} /\ call'[u] = call[u]
    BY <1>5 DEF TypeOK, Waiters, SleepCall, At, Begin, Goto, SetStamp
  <2>. QED  BY <2>1, NothingRaised
<1>6. ASSUME NEW t \in Sleepers, ResumedAnyway(t),
             UNCHANGED <<timerVars, flagVars>>
       PROVE  NoLostFlag'
  <2>1. /\ \A o \in Objects : raised'[o] \subseteq raised[o]
        /\ \A x \in suspended' : x \in suspended /\ call'[x] = call[x]
        /\ \A u \in Threads : pc[u] \in {"raised", "resuming"} =>
             pc'[u] \in {"raised", "resuming"} /\ call'[u] = call[u]
    BY <1>6 DEF TypeOK, Waiters, ResumedAnyway
  <2>. QED  BY <2>1, NothingRaised
<1>7. ASSUME NEW tm \in Timers, NEW p \in Periods,
             StartStamp(Controller[tm], tm, p), UNCHANGED flagVars
       PROVE  NoLostFlag'
  <2>1. /\ \A o \in Objects : raised'[o] \subseteq raised[o]
        /\ \A x \in suspended' : x \in suspended /\ call'[x] = call[x]
        /\ \A u \in Threads : pc[u] \in {"raised", "resuming"} =>
             pc'[u] \in {"raised", "resuming"} /\ call'[u] = call[u]
    BY <1>7 DEF TypeOK, Waiters, StartStamp, At, Begin, Goto, SetStamp
  <2>. QED  BY <2>1, NothingRaised
<1>8. ASSUME NEW tm \in Timers, StopTest(Controller[tm], tm), UNCHANGED flagVars
       PROVE  NoLostFlag'
  <2>1. /\ \A o \in Objects : raised'[o] \subseteq raised[o]
        /\ \A x \in suspended' : x \in suspended /\ call'[x] = call[x]
        /\ \A u \in Threads : pc[u] \in {"raised", "resuming"} =>
             pc'[u] \in {"raised", "resuming"} /\ call'[u] = call[u]
    BY <1>8 DEF TypeOK, Waiters, StopTest, At, Begin, Goto
  <2>. QED  BY <2>1, NothingRaised
<1>9. ASSUME NEW tm \in Timers, Destroy(Controller[tm], tm), UNCHANGED flagVars
       PROVE  NoLostFlag'
  <2>1. /\ \A o \in Objects : raised'[o] \subseteq raised[o]
        /\ \A x \in suspended' : x \in suspended /\ call'[x] = call[x]
        /\ \A u \in Threads : pc[u] \in {"raised", "resuming"} =>
             pc'[u] \in {"raised", "resuming"} /\ call'[u] = call[u]
    BY <1>9 DEF TypeOK, Waiters, Destroy, At, SetStamp
  <2>. QED  BY <2>1, NothingRaised
<1>10. ASSUME NEW tm \in Timers, Construct(Controller[tm], tm),
              UNCHANGED flagVars
       PROVE  NoLostFlag'
  <2>1. /\ \A o \in Objects : raised'[o] \subseteq raised[o]
        /\ \A x \in suspended' : x \in suspended /\ call'[x] = call[x]
        /\ \A u \in Threads : pc[u] \in {"raised", "resuming"} =>
             pc'[u] \in {"raised", "resuming"} /\ call'[u] = call[u]
    BY <1>10 DEF TypeOK, Waiters, Construct, At
  <2>. QED  BY <2>1, NothingRaised
<1>11. ASSUME NEW t \in Threads, NEW c \in Waits[t], WaitReturnsAtOnce(t, c),
              UNCHANGED timerVars
       PROVE  NoLostFlag'
  <2>1. /\ \A o \in Objects : raised'[o] \subseteq raised[o]
        /\ \A x \in suspended' : x \in suspended /\ call'[x] = call[x]
        /\ \A u \in Threads : pc[u] \in {"raised", "resuming"} =>
             pc'[u] \in {"raised", "resuming"} /\ call'[u] = call[u]
    BY <1>11 DEF TypeOK, Waiters, WaitReturnsAtOnce, At, Consume
  <2>. QED  BY <2>1, NothingRaised
<1>12. ASSUME NEW t \in Threads, NEW c \in Waits[t], NEW d \in Durations,
              WaitEnters(t, c, d), UNCHANGED timerVars
       PROVE  NoLostFlag'
  <2>1. /\ \A o \in Objects : raised'[o] \subseteq raised[o]
        /\ \A x \in suspended' : x \in suspended /\ call'[x] = call[x]
        /\ \A u \in Threads : pc[u] \in {"raised", "resuming"} =>
             pc'[u] \in {"raised", "resuming"} /\ call'[u] = call[u]
    BY <1>12
    DEF TypeOK, Waiters, WaitEnters, At, NotRaised, Begin, Goto, SetStamp
  <2>. QED  BY <2>1, NothingRaised
<1>13. ASSUME NEW t \in Raisers, NEW r \in Raises, Raise(t, r[1], r[2]),
              UNCHANGED timerVars
       PROVE  NoLostFlag'
  <2>. SUFFICES ASSUME NEW x \in Threads, SleepsOnRaised(x)',
                       call'[x].kind # "plain"
                PROVE  WakingOf(ObjectOf(x, call[x]))'
    BY DEF NoLostFlag
  <2>1. /\ t \in Threads /\ pc[t] = "app" /\ pc'[t] = "raised"
        /\ call'[t].object = r[1] /\ suspended' = suspended
        /\ \A y \in Threads \ {t} : pc'[y] = pc[y] /\ call'[y] = call[y]
        /\ \A o \in Objects \ {r[1]} : raised'[o] = raised[o]
    BY <1>13, AlarmsAssumption DEF TypeOK, Raise, At, Begin, Goto
  <2>2. x \in suspended /\ call'[x] = call[x]
    BY <2>1 DEF SleepsOnRaised, Waiters
  <2>3. /\ ObjectOf(x, call[x]) \in Objects
        /\ ObjectOf(x, call[x])' = ObjectOf(x, call[x])
    BY <2>2 DEF ObjectOf, Objects
  <2>4. CASE ObjectOf(x, call[x]) = r[1]
    BY <2>1, <2>3, <2>4 DEF WakingOf
  <2>5. CASE ObjectOf(x, call[x]) # r[1]
    <3>1. WakingOf(ObjectOf(x, call[x]))
      BY <2>1, <2>2, <2>3, <2>5, AlreadyWoken
    <3>. QED  BY <2>1, <2>3, <3>1 DEF WakingOf
  <2>. QED  BY <2>4, <2>5
<1>14. ASSUME NEW t \in Raisers, NEW r \in Raises, Clear(t, r[1], r[2]),
              UNCHANGED timerVars
       PROVE  NoLostFlag'
  <2>1. /\ \A o \in Objects : raised'[o] \subseteq raised[o]
        /\ \A x \in suspended' : x \in suspended /\ call'[x] = call[x]
        /\ \A u \in Threads : pc[u] \in {"raised", "resuming"} =>
             pc'[u] \in {"raised", "resuming"} /\ call'[u] = call[u]
    BY <1>14 DEF TypeOK, Waiters, Clear, At
  <2>. QED  BY <2>1, NothingRaised
<1>15. ASSUME NEW t \in Threads, SleepSuspends(t),
              UNCHANGED <<timerVars, flagVars>>
       PROVE  NoLostFlag'
  <2>. SUFFICES ASSUME NEW x \in Threads, SleepsOnRaised(x)',
                       call'[x].kind # "plain"
                PROVE  WakingOf(ObjectOf(x, call[x]))'
    BY DEF NoLostFlag
  <2>1. x # t
    BY <1>15 DEF SleepsOnRaised, IsFlagsWait, SleepSuspends, At, IsSleep, Goto
  <2>2. x \in suspended /\ UNCHANGED <<call, raised>>
    BY <1>15, <2>1 DEF SleepsOnRaised, SleepSuspends, At, IsSleep, Goto
  <2>3. WakingOf(ObjectOf(x, call[x]))
    BY <2>2, AlreadyWoken
  <2>. QED
    BY <1>15, <2>2, <2>3
    DEF TypeOK, WakingOf, ObjectOf, SleepSuspends, At, IsSleep, Goto
<1>16. ASSUME NEW t \in Threads, SleepUnlinks(t),
              UNCHANGED <<timerVars, flagVars>>
       PROVE  NoLostFlag'
  <2>1. /\ \A o \in Objects : raised'[o] \subseteq raised[o]
        /\ \A x \in suspended' : x \in suspended /\ call'[x] = call[x]
        /\ \A u \in Threads : pc[u] \in {"raised", "resuming"} =>
             pc'[u] \in {"raised", "resuming"} /\ call'[u] = call[u]
    BY <1>16 DEF TypeOK, Waiters, SleepUnlinks, At, IsSleep, Goto
  <2>. QED  BY <2>1, NothingRaised
<1>17. ASSUME NEW t \in Threads, SleepReturns(t),
              UNCHANGED <<timerVars, flagVars>>
       PROVE  NoLostFlag'
  <2>1. /\ \A o \in Objects : raised'[o] \subseteq raised[o]
        /\ \A x \in suspended' : x \in suspended /\ call'[x] = call[x]
        /\ \A u \in Threads : pc[u] \in {"raised", "resuming"} =>
             pc'[u] \in {"raised", "resuming"} /\ call'[u] = call[u]
    BY <1>17
    DEF TypeOK, Waiters, SleepReturns, At, IsSleep, Return, Begin, Goto,
        SetStamp
  <2>. QED  BY <2>1, NothingRaised
<1>18. ASSUME NEW t \in Threads, SleepsOn(t), UNCHANGED <<timerVars, flagVars>>
       PROVE  NoLostFlag'
  <2>1. /\ \A o \in Objects : raised'[o] \subseteq raised[o]
        /\ \A x \in suspended' : x \in suspended /\ call'[x] = call[x]
        /\ \A u \in Threads : pc[u] \in {"raised", "resuming"} =>
             pc'[u] \in {"raised", "resuming"} /\ call'[u] = call[u]
    BY <1>18 DEF TypeOK, Waiters, SleepsOn, At, IsSleep, Goto
  <2>. QED  BY <2>1, NothingRaised
<1>19. ASSUME NEW t \in Threads, StartLink(t), UNCHANGED flagVars
       PROVE  NoLostFlag'
  <2>1. /\ \A o \in Objects : raised'[o] \subseteq raised[o]
        /\ \A x \in suspended' : x \in suspended /\ call'[x] = call[x]
        /\ \A u \in Threads : pc[u] \in {"raised", "resuming"} =>
             pc'[u] \in {"raised", "resuming"} /\ call'[u] = call[u]
    BY <1>19 DEF TypeOK, Waiters, StartLink, At, Goto
  <2>. QED  BY <2>1, NothingRaised
<1>20. ASSUME NEW t \in Threads, StartMark(t), UNCHANGED flagVars
       PROVE  NoLostFlag'
  <2>1. /\ \A o \in Objects : raised'[o] \subseteq raised[o]
        /\ \A x \in suspended' : x \in suspended /\ call'[x] = call[x]
        /\ \A u \in Threads : pc[u] \in {"raised", "resuming"} =>
             pc'[u] \in {"raised", "resuming"} /\ call'[u] = call[u]
    BY <1>20 DEF TypeOK, Waiters, StartMark, At, Return, Begin, Goto
  <2>. QED  BY <2>1, NothingRaised
<1>21. ASSUME NEW t \in Threads, StopUnlink(t), UNCHANGED flagVars
       PROVE  NoLostFlag'
  <2>1. /\ \A o \in Objects : raised'[o] \subseteq raised[o]
        /\ \A x \in suspended' : x \in suspended /\ call'[x] = call[x]
        /\ \A u \in Threads : pc[u] \in {"raised", "resuming"} =>
             pc'[u] \in {"raised", "resuming"} /\ call'[u] = call[u]
    BY <1>21 DEF TypeOK, Waiters, StopUnlink, At, Goto, SetStamp
  <2>. QED  BY <2>1, NothingRaised
<1>22. ASSUME NEW t \in Threads, StopMark(t), UNCHANGED flagVars
       PROVE  NoLostFlag'
  <2>1. /\ \A o \in Objects : raised'[o] \subseteq raised[o]
        /\ \A x \in suspended' : x \in suspended /\ call'[x] = call[x]
        /\ \A u \in Threads : pc[u] \in {"raised", "resuming"} =>
             pc'[u] \in {"raised", "resuming"} /\ call'[u] = call[u]
    BY <1>22 DEF TypeOK, Waiters, StopMark, At, Return, Begin, Goto
  <2>. QED  BY <2>1, NothingRaised
<1>23. ASSUME NEW t \in Threads, WaitReturns(t), UNCHANGED timerVars
       PROVE  NoLostFlag'
  <2>1. /\ \A o \in Objects : raised'[o] \subseteq raised[o]
        /\ \A x \in suspended' : x \in suspended /\ call'[x] = call[x]
        /\ \A u \in Threads : pc[u] \in {"raised", "resuming"} =>
             pc'[u] \in {"raised", "resuming"} /\ call'[u] = call[u]
    BY <1>23
    DEF TypeOK, Waiters, WaitReturns, At, IsFlagsWait, Consume, Return, Begin,
        Goto, SetStamp
  <2>. QED  BY <2>1, NothingRaised
<1>24. ASSUME NEW t \in Threads, WaitSuspends(t), UNCHANGED timerVars
       PROVE  NoLostFlag'
  <2>. SUFFICES ASSUME NEW x \in Threads, SleepsOnRaised(x)',
                       call'[x].kind # "plain"
                PROVE  WakingOf(ObjectOf(x, call[x]))'
    BY DEF NoLostFlag
  <2>1. x # t
    BY <1>24
    DEF SleepsOnRaised, Raised, ObjectOf, WaitSuspends, At, IsFlagsWait,
        NotRaised, Goto
  <2>2. x \in suspended /\ UNCHANGED <<call, raised>>
    BY <1>24, <2>1
    DEF SleepsOnRaised, WaitSuspends, At, IsFlagsWait, NotRaised, Goto
  <2>3. WakingOf(ObjectOf(x, call[x]))
    BY <2>2, AlreadyWoken
  <2>. QED
    BY <1>24, <2>2, <2>3
    DEF TypeOK, WakingOf, ObjectOf, WaitSuspends, At, IsFlagsWait, NotRaised,
        Goto
<1>25. ASSUME NEW t \in Threads, PlainTests(t), UNCHANGED timerVars
       PROVE  NoLostFlag'
  <2>1. /\ \A o \in Objects : raised'[o] \subseteq raised[o]
        /\ \A x \in suspended' : x \in suspended /\ call'[x] = call[x]
        /\ \A u \in Threads : pc[u] \in {"raised", "resuming"} =>
             pc'[u] \in {"raised", "resuming"} /\ call'[u] = call[u]
    BY <1>25 DEF TypeOK, Waiters, PlainTests, At, IsFlagsWait, NotRaised, Goto
  <2>. QED  BY <2>1, NothingRaised
<1>26. ASSUME NEW t \in Threads, PlainSuspends(t), UNCHANGED timerVars
       PROVE  NoLostFlag'
  <2>. SUFFICES ASSUME NEW x \in Threads, SleepsOnRaised(x)',
                       call'[x].kind # "plain"
                PROVE  WakingOf(ObjectOf(x, call[x]))'
    BY DEF NoLostFlag
  <2>1. x # t
    BY <1>26 DEF InCall, PlainSuspends, At, Goto
  <2>2. x \in suspended /\ UNCHANGED <<call, raised>>
    BY <1>26, <2>1 DEF SleepsOnRaised, PlainSuspends, At, Goto
  <2>3. WakingOf(ObjectOf(x, call[x]))
    BY <2>2, AlreadyWoken
  <2>. QED
    BY <1>26, <2>2, <2>3 DEF TypeOK, WakingOf, ObjectOf, PlainSuspends, At, Goto
<1>27. ASSUME NEW t \in Threads, WaitUnlinks(t), UNCHANGED timerVars
       PROVE  NoLostFlag'
  <2>1. /\ \A o \in Objects : raised'[o] \subseteq raised[o]
        /\ \A x \in suspended' : x \in suspended /\ call'[x] = call[x]
        /\ \A u \in Threads : pc[u] \in {"raised", "resuming"} =>
             pc'[u] \in {"raised", "resuming"} /\ call'[u] = call[u]
    BY <1>27 DEF TypeOK, Waiters, WaitUnlinks, At, IsFlagsWait, Goto
  <2>. QED  BY <2>1, NothingRaised
<1>28. ASSUME NEW t \in Threads, WaitGivesUp(t), UNCHANGED timerVars
       PROVE  NoLostFlag'
  <2>1. /\ \A o \in Objects : raised'[o] \subseteq raised[o]
        /\ \A x \in suspended' : x \in suspended /\ call'[x] = call[x]
        /\ \A u \in Threads : pc[u] \in {"raised", "resuming"} =>
             pc'[u] \in {"raised", "resuming"} /\ call'[u] = call[u]
    BY <1>28
    DEF TypeOK, Waiters, WaitGivesUp, At, IsFlagsWait, Return, Begin, Goto,
        SetStamp
  <2>. QED  BY <2>1, NothingRaised
<1>29. ASSUME NEW t \in Threads, WaitsOn(t), UNCHANGED timerVars
       PROVE  NoLostFlag'
  <2>1. /\ \A o \in Objects : raised'[o] \subseteq raised[o]
        /\ \A x \in suspended' : x \in suspended /\ call'[x] = call[x]
        /\ \A u \in Threads : pc[u] \in {"raised", "resuming"} =>
             pc'[u] \in {"raised", "resuming"} /\ call'[u] = call[u]
    BY <1>29 DEF TypeOK, Waiters, WaitsOn, At, IsFlagsWait, Goto
  <2>. QED  BY <2>1, NothingRaised
<1>30. ASSUME NEW t \in Threads, RaisePops(t), UNCHANGED timerVars
       PROVE  NoLostFlag'
  <2>1. /\ \A o \in Objects : raised'[o] \subseteq raised[o]
        /\ \A x \in suspended' : x \in suspended /\ call'[x] = call[x]
        /\ \A u \in Threads : pc[u] \in {"raised", "resuming"} =>
             pc'[u] \in {"raised", "resuming"} /\ call'[u] = call[u]
    BY <1>30 DEF TypeOK, Waiters, RaisePops, At, Goto
  <2>. QED  BY <2>1, NothingRaised
<1>31. ASSUME NEW t \in Threads, RaiseResumes(t), UNCHANGED timerVars
       PROVE  NoLostFlag'
  <2>1. /\ \A o \in Objects : raised'[o] \subseteq raised[o]
        /\ \A x \in suspended' : x \in suspended /\ call'[x] = call[x]
        /\ \A u \in Threads : pc[u] \in {"raised", "resuming"} =>
             pc'[u] \in {"raised", "resuming"} /\ call'[u] = call[u]
    BY <1>31 DEF TypeOK, Waiters, RaiseResumes, At, Goto
  <2>. QED  BY <2>1, NothingRaised
<1>32. ASSUME NEW t \in Threads, RaiseReturns(t), UNCHANGED timerVars
       PROVE  NoLostFlag'
  <2>. SUFFICES ASSUME NEW x \in Threads, SleepsOnRaised(x)',
                       call'[x].kind # "plain"
                PROVE  WakingOf(ObjectOf(x, call[x]))'
    BY DEF NoLostFlag
  <2>1. /\ pc[t] = "raised" /\ raised' = raised /\ t \notin suspended
        /\ suspended' \subseteq suspended
        /\ \A y \in Threads \ {t} : pc'[y] = pc[y] /\ call'[y] = call[y]
    BY <1>32 DEF TypeOK, RaiseReturns, At, Return, Begin, Goto
  <2>2. /\ x \in suspended /\ x \in suspended' /\ call'[x] = call[x]
        /\ IsFlagsWait(x) /\ x # t
    BY <2>1 DEF SleepsOnRaised, IsFlagsWait
  <2>3. ObjectOf(x, call[x])' = ObjectOf(x, call[x])
    BY <2>2 DEF ObjectOf
  <2>4. WakingOf(ObjectOf(x, call[x]))
    BY <2>1, <2>2, AlreadyWoken
  <2>5. CASE ObjectOf(x, call[x]) # call[t].object
    BY <2>1, <2>3, <2>4, <2>5 DEF WakingOf
  <2>6. CASE ObjectOf(x, call[x]) = call[t].object
    <3>1. call[t].object = EventObject /\ list = <<>>
      <4>1. call[t].object \in Threads => x # call[t].object
        BY <1>32, <2>2, FlagsAssumption
        DEF RaiseReturns, At, Return, Begin, Goto
      <4>2. call[t].object \in Threads => ObjectOf(x, call[x]) = x
        BY <2>6, FlagsAssumption DEF ObjectOf
      <4>. QED
        BY <1>32, <2>6, <4>1, <4>2 DEF RaiseReturns, At, Return, Begin, Goto
    <3>2. call[x].kind = "event"
      BY <2>6, <3>1, FlagsAssumption DEF ObjectOf
    <3>3. PICK u \in Threads : pc[u] = "resuming" /\ popped[u] = x
      BY <2>2, <3>1, <3>2 DEF Waiters, ToSet
    <3>4. u # t /\ call[u].object = EventObject
      BY <2>1, <3>3 DEF InCall
    <3>. QED  BY <2>1, <2>3, <2>6, <3>1, <3>3, <3>4 DEF WakingOf
  <2>. QED  BY <2>5, <2>6
<1>u. CASE UNCHANGED vars
  BY <1>u
  DEF NoLostFlag, SleepsOnRaised, WakingOf, IsFlagsWait, Raised, ObjectOf,
      vars, clockVars, threadVars, timerVars, flagVars
<1>. QED
  BY <1>1, <1>2, <1>3, <1>4, <1>5, <1>6, <1>7, <1>8, <1>9, <1>10, <1>11,
     <1>12, <1>13, <1>14, <1>15, <1>16, <1>17, <1>18, <1>19, <1>20, <1>21,
     <1>22, <1>23, <1>24, <1>25, <1>26, <1>27, <1>28, <1>29, <1>30, <1>31,
     <1>32, <1>u
  DEF Next, ClockStep, Tick, Sleep, Control, Wait, RaiseOrClear, Inside

\* Every step keeps the types.
LEMMA TypesStep ==
  ASSUME TypeOK, InCall, ClockNodesLive, Waiters, [Next]_vars
  PROVE  TypeOK'
<1>. USE DEF clockVars, threadVars, timerVars, flagVars
<1>1. ASSUME NEW tm \in Timers, TimerFires(tm)
       PROVE  TypeOK'
  <2>1. /\ Head(clockList) \in ToSet(clockList)
        /\ Tail(clockList) \in Seq(Nodes)
        /\ ToSet(Tail(clockList)) = ToSet(clockList) \ {Head(clockList)}
        /\ NoDuplicates(Tail(clockList))
    BY <1>1, TailElements
    DEF TypeOK, ClockNodesLive, HeadDue, TimerFires, Expire, RaiseInISR,
        HeadDue, SetStamp
  <2>2. /\ tm \in Timers /\ tm \in Nodes /\ tm = Head(clockList)
        /\ stamp[tm] + period[tm] \in Int /\ Target[tm] \in Objects
        /\ Mask[tm] \subseteq Flags
    BY <1>1, AlarmsAssumption
    DEF TypeOK, Nodes, TimerFires, Expire, RaiseInISR, HeadDue, SetStamp
  <2>3. stamp' \in [Nodes -> Int]
    BY <1>1, <2>2 DEF TypeOK, TimerFires, Expire, RaiseInISR, HeadDue, SetStamp
  <2>4. clockList' \in Seq(Nodes)
    <3>1. LinkStamp(Tail(clockList), tm, stamp') \in Seq(Nodes)
      BY <2>1, <2>2, <2>3, LinkStampKeeps
    <3>. QED
      BY <1>1, <2>1, <3>1 DEF TimerFires, Expire, RaiseInISR, HeadDue, SetStamp
  <2>5. raised' \in [Objects -> SUBSET Flags]
    BY <1>1, <2>2 DEF TypeOK, TimerFires, Expire, RaiseInISR, HeadDue, SetStamp
  <2>6. list' \in Seq(Threads)
    BY <1>1 DEF TypeOK, TimerFires, Expire, RaiseInISR, HeadDue, SetStamp
  <2>. QED
    BY <1>1, <2>3, <2>4, <2>5, <2>6
    DEF TypeOK, TimerFires, Expire, RaiseInISR, HeadDue, SetStamp
<1>2. ASSUME WakeThread, UNCHANGED <<timerVars, flagVars>>
       PROVE  TypeOK'
  <2>1. /\ Head(clockList) \in ToSet(clockList)
        /\ Tail(clockList) \in Seq(Nodes)
        /\ ToSet(Tail(clockList)) = ToSet(clockList) \ {Head(clockList)}
        /\ NoDuplicates(Tail(clockList))
    BY <1>2, TailElements
    DEF TypeOK, ClockNodesLive, HeadDue, WakeThread, HeadDue
  <2>. QED
    BY <1>2, <2>1 DEF TypeOK, WakeThread, HeadDue
<1>3. ASSUME CheckEnds, UNCHANGED <<timerVars, flagVars>>
       PROVE  TypeOK'
  BY <1>3, AlarmsAssumption, TimersAssumption, DurationsAssumption
  DEF TypeOK, Nodes, SleepCalls, WaitCalls, RaiseCalls, TimerCalls, CheckEnds
<1>4. ASSUME NEW d \in {1} \union Slept, Advance(d),
             UNCHANGED <<timerVars, flagVars>>
       PROVE  TypeOK'
  <2>1. d \in Int /\ \A n \in Nodes : stamp[n] \in Int
    BY DurationsAssumption DEF TypeOK
  <2>2. stamp' \in [Nodes -> Int]
    BY <1>4, <2>1 DEF TypeOK, Advance
  <2>. QED
    BY <1>4, <2>2 DEF TypeOK, Advance
<1>5. ASSUME NEW t \in Sleepers, NEW d \in Durations,
                NEW kind \in {"sleep_for", "wait_for"}, SleepCall(t, kind, d),
                UNCHANGED <<timerVars, flagVars>>
       PROVE  TypeOK'
  <2>0. /\ t \in Nodes /\ d \in Int
        /\ [kind |-> kind, timed |-> TRUE] \in SleepCalls
    BY AlarmsAssumption, DurationsAssumption DEF Nodes, SleepCalls
  <2>1. stamp' \in [Nodes -> Int]
    BY <1>5, <2>0 DEF TypeOK, SleepCall, At, Begin, Goto, SetStamp
  <2>2. call' \in [Threads -> {NoCall} \union SleepCalls \union TimerCalls
                                \union RaiseCalls \union WaitCalls]
    BY <1>5, <2>0 DEF TypeOK, SleepCall, At, Begin, Goto, SetStamp
  <2>3. raised' \in [Objects -> SUBSET Flags] /\ period' \in [Timers -> Nat]
    BY <1>5, <2>0 DEF TypeOK, SleepCall, At, Begin, Goto, SetStamp
  <2>. QED
    BY <1>5, <2>0, <2>1, <2>2, <2>3
    DEF TypeOK, SleepCall, At, Begin, Goto, SetStamp
<1>6. ASSUME NEW t \in Sleepers, ResumedAnyway(t),
             UNCHANGED <<timerVars, flagVars>>
       PROVE  TypeOK'
  BY <1>6, AlarmsAssumption, TimersAssumption, DurationsAssumption
  DEF TypeOK, Nodes, SleepCalls, WaitCalls, RaiseCalls, TimerCalls,
      ResumedAnyway
<1>7. ASSUME NEW tm \in Timers, NEW p \in Periods,
             StartStamp(Controller[tm], tm, p), UNCHANGED flagVars
       PROVE  TypeOK'
  <2>0. /\ tm \in Nodes /\ p \in Nat /\ Controller[tm] \in Threads
        /\ [kind |-> "timer", timed |-> FALSE, timer |-> tm] \in TimerCalls
    BY TimersAssumption DEF Nodes, TimerCalls
  <2>1. stamp' \in [Nodes -> Int]
    BY <1>7, <2>0 DEF TypeOK, StartStamp, At, Begin, Goto, SetStamp
  <2>2. call' \in [Threads -> {NoCall} \union SleepCalls \union TimerCalls
                                \union RaiseCalls \union WaitCalls]
    BY <1>7, <2>0 DEF TypeOK, StartStamp, At, Begin, Goto, SetStamp
  <2>3. raised' \in [Objects -> SUBSET Flags] /\ period' \in [Timers -> Nat]
    BY <1>7, <2>0 DEF TypeOK, StartStamp, At, Begin, Goto, SetStamp
  <2>. QED
    BY <1>7, <2>0, <2>1, <2>2, <2>3
    DEF TypeOK, StartStamp, At, Begin, Goto, SetStamp
<1>8. ASSUME NEW tm \in Timers, StopTest(Controller[tm], tm), UNCHANGED flagVars
       PROVE  TypeOK'
  BY <1>8, AlarmsAssumption, TimersAssumption, DurationsAssumption
  DEF TypeOK, Nodes, SleepCalls, WaitCalls, RaiseCalls, TimerCalls, StopTest,
      At, Begin, Goto
<1>9. ASSUME NEW tm \in Timers, Destroy(Controller[tm], tm), UNCHANGED flagVars
       PROVE  TypeOK'
  <2>1. Unlink(clockList, tm) \in Seq(Nodes)
    BY UnlinkElements DEF TypeOK, ClockNodesLive
  <2>2. tm \in Nodes
    BY DEF Nodes
  <2>. QED
    BY <1>9, <2>1, <2>2, TimersAssumption DEF TypeOK, Destroy, At, SetStamp
<1>10. ASSUME NEW tm \in Timers, Construct(Controller[tm], tm),
              UNCHANGED flagVars
       PROVE  TypeOK'
  BY <1>10, AlarmsAssumption, TimersAssumption, DurationsAssumption
  DEF TypeOK, Nodes, SleepCalls, WaitCalls, RaiseCalls, TimerCalls, Construct,
      At
<1>11. ASSUME NEW t \in Threads, NEW c \in Waits[t], WaitReturnsAtOnce(t, c),
              UNCHANGED timerVars
       PROVE  TypeOK'
  BY <1>11, AlarmsAssumption, TimersAssumption, DurationsAssumption
  DEF TypeOK, Nodes, SleepCalls, WaitCalls, RaiseCalls, TimerCalls,
      WaitReturnsAtOnce, At, Consume
<1>12. ASSUME NEW t \in Threads, NEW c \in Waits[t], NEW d \in Durations,
              WaitEnters(t, c, d), UNCHANGED timerVars
       PROVE  TypeOK'
  <2>0. t \in Nodes /\ d \in Int /\ c \in WaitCalls
    BY AlarmsAssumption, DurationsAssumption DEF Nodes
  <2>1. stamp' \in [Nodes -> Int]
    BY <1>12, <2>0 DEF TypeOK, WaitEnters, At, NotRaised, Begin, Goto, SetStamp
  <2>2. call' \in [Threads -> {NoCall} \union SleepCalls \union TimerCalls
                                \union RaiseCalls \union WaitCalls]
    BY <1>12, <2>0 DEF TypeOK, WaitEnters, At, NotRaised, Begin, Goto, SetStamp
  <2>3. raised' \in [Objects -> SUBSET Flags] /\ period' \in [Timers -> Nat]
    BY <1>12, <2>0 DEF TypeOK, WaitEnters, At, NotRaised, Begin, Goto, SetStamp
  <2>. QED
    BY <1>12, <2>0, <2>1, <2>2, <2>3
    DEF TypeOK, WaitEnters, At, NotRaised, Begin, Goto, SetStamp
<1>13. ASSUME NEW t \in Raisers, NEW r \in Raises, Raise(t, r[1], r[2]),
              UNCHANGED timerVars
       PROVE  TypeOK'
  BY <1>13, AlarmsAssumption, TimersAssumption, DurationsAssumption
  DEF TypeOK, Nodes, SleepCalls, WaitCalls, RaiseCalls, TimerCalls, Raise, At,
      Begin, Goto
<1>14. ASSUME NEW t \in Raisers, NEW r \in Raises, Clear(t, r[1], r[2]),
              UNCHANGED timerVars
       PROVE  TypeOK'
  BY <1>14, AlarmsAssumption, TimersAssumption, DurationsAssumption
  DEF TypeOK, Nodes, SleepCalls, WaitCalls, RaiseCalls, TimerCalls, Clear, At
<1>15. ASSUME NEW t \in Threads, SleepSuspends(t),
              UNCHANGED <<timerVars, flagVars>>
       PROVE  TypeOK'
  <2>1. t \in Nodes /\ clockList \in Seq(Nodes) /\ stamp \in [Nodes -> Int]
    BY DEF TypeOK, Nodes
  <2>2. LinkStamp(clockList, t, stamp) \in Seq(Nodes)
    BY <2>1, LinkStampKeeps
  <2>. QED
    BY <1>15, <2>2 DEF TypeOK, SleepSuspends, At, IsSleep, Goto
<1>16. ASSUME NEW t \in Threads, SleepUnlinks(t),
              UNCHANGED <<timerVars, flagVars>>
       PROVE  TypeOK'
  <2>1. Unlink(clockList, t) \in Seq(Nodes)
    BY UnlinkElements DEF TypeOK, ClockNodesLive
  <2>. QED
    BY <1>16, <2>1 DEF TypeOK, SleepUnlinks, At, IsSleep, Goto
<1>17. ASSUME NEW t \in Threads, SleepReturns(t),
              UNCHANGED <<timerVars, flagVars>>
       PROVE  TypeOK'
  <2>0. t \in Nodes
    BY DEF Nodes
  <2>1. stamp' \in [Nodes -> Int]
    BY <1>17, <2>0
    DEF TypeOK, SleepReturns, At, IsSleep, Return, Begin, Goto, SetStamp
  <2>2. call' \in [Threads -> {NoCall} \union SleepCalls \union TimerCalls
                                \union RaiseCalls \union WaitCalls]
    BY <1>17, <2>0
    DEF TypeOK, SleepReturns, At, IsSleep, Return, Begin, Goto, SetStamp
  <2>3. raised' \in [Objects -> SUBSET Flags] /\ period' \in [Timers -> Nat]
    BY <1>17, <2>0
    DEF TypeOK, SleepReturns, At, IsSleep, Return, Begin, Goto, SetStamp
  <2>. QED
    BY <1>17, <2>0, <2>1, <2>2, <2>3
    DEF TypeOK, SleepReturns, At, IsSleep, Return, Begin, Goto, SetStamp
<1>18. ASSUME NEW t \in Threads, SleepsOn(t), UNCHANGED <<timerVars, flagVars>>
       PROVE  TypeOK'
  BY <1>18, AlarmsAssumption, TimersAssumption, DurationsAssumption
  DEF TypeOK, Nodes, SleepCalls, WaitCalls, RaiseCalls, TimerCalls, SleepsOn,
      At, IsSleep, Goto
<1>19. ASSUME NEW t \in Threads, StartLink(t), UNCHANGED flagVars
       PROVE  TypeOK'
  <2>. DEFINE tm == call[t].timer
  <2>1. tm \in Timers /\ Controller[tm] = t /\ tm \in Nodes
    BY <1>19 DEF InCall, TimerCalls, Nodes, StartLink, At, Goto
  <2>2. /\ ToSet(Unlink(clockList, tm)) = ToSet(clockList) \ {tm}
        /\ NoDuplicates(Unlink(clockList, tm))
        /\ Unlink(clockList, tm) \in Seq(Nodes)
    BY UnlinkElements DEF TypeOK, ClockNodesLive
  <2>3. LinkStamp(Unlink(clockList, tm), tm, stamp) \in Seq(Nodes)
    BY <2>1, <2>2, LinkStampKeeps DEF TypeOK
  <2>. QED
    BY <1>19, <2>3 DEF TypeOK, StartLink, At, Goto
<1>20. ASSUME NEW t \in Threads, StartMark(t), UNCHANGED flagVars
       PROVE  TypeOK'
  <2>1. call[t].timer \in Timers
    BY <1>20 DEF InCall, TimerCalls, StartMark, At, Return, Begin, Goto
  <2>. QED
    BY <1>20, <2>1 DEF TypeOK, StartMark, At, Return, Begin, Goto
<1>21. ASSUME NEW t \in Threads, StopUnlink(t), UNCHANGED flagVars
       PROVE  TypeOK'
  <2>. DEFINE tm == call[t].timer
  <2>1. tm \in Timers /\ Controller[tm] = t /\ tm \in Nodes
    BY <1>21 DEF InCall, TimerCalls, Nodes, StopUnlink, At, Goto, SetStamp
  <2>2. /\ ToSet(Unlink(clockList, tm)) = ToSet(clockList) \ {tm}
        /\ NoDuplicates(Unlink(clockList, tm))
        /\ Unlink(clockList, tm) \in Seq(Nodes)
    BY UnlinkElements DEF TypeOK, ClockNodesLive
  <2>. QED
    BY <1>21, <2>1, <2>2 DEF TypeOK, StopUnlink, At, Goto, SetStamp
<1>22. ASSUME NEW t \in Threads, StopMark(t), UNCHANGED flagVars
       PROVE  TypeOK'
  <2>1. call[t].timer \in Timers
    BY <1>22 DEF InCall, TimerCalls, StopMark, At, Return, Begin, Goto
  <2>. QED
    BY <1>22, <2>1 DEF TypeOK, StopMark, At, Return, Begin, Goto
<1>23. ASSUME NEW t \in Threads, WaitReturns(t), UNCHANGED timerVars
       PROVE  TypeOK'
  <2>0. t \in Nodes /\ t \in Objects
    BY DEF Nodes, Objects
  <2>1. stamp' \in [Nodes -> Int]
    BY <1>23, <2>0
    DEF TypeOK, WaitReturns, At, IsFlagsWait, Consume, Return, Begin, Goto,
        SetStamp
  <2>2. call' \in [Threads -> {NoCall} \union SleepCalls \union TimerCalls
                                \union RaiseCalls \union WaitCalls]
    BY <1>23, <2>0
    DEF TypeOK, WaitReturns, At, IsFlagsWait, Consume, Return, Begin, Goto,
        SetStamp
  <2>3. raised' \in [Objects -> SUBSET Flags] /\ period' \in [Timers -> Nat]
    BY <1>23, <2>0
    DEF TypeOK, WaitReturns, At, IsFlagsWait, Consume, Return, Begin, Goto,
        SetStamp
  <2>. QED
    BY <1>23, <2>0, <2>1, <2>2, <2>3
    DEF TypeOK, WaitReturns, At, IsFlagsWait, Consume, Return, Begin, Goto,
        SetStamp
<1>24. ASSUME NEW t \in Threads, WaitSuspends(t), UNCHANGED timerVars
       PROVE  TypeOK'
  <2>1. t \in Nodes /\ clockList \in Seq(Nodes) /\ stamp \in [Nodes -> Int]
    BY DEF TypeOK, Nodes
  <2>2. LinkStamp(clockList, t, stamp) \in Seq(Nodes)
    BY <2>1, LinkStampKeeps
  <2>3. Link(list, t, Prio) \in Seq(Threads)
    BY FlagsAssumption, LinkElements DEF TypeOK
  <2>. QED
    BY <1>24, <2>2, <2>3
    DEF TypeOK, WaitSuspends, At, IsFlagsWait, NotRaised, Goto
<1>25. ASSUME NEW t \in Threads, PlainTests(t), UNCHANGED timerVars
       PROVE  TypeOK'
  BY <1>25, AlarmsAssumption, TimersAssumption, DurationsAssumption
  DEF TypeOK, Nodes, SleepCalls, WaitCalls, RaiseCalls, TimerCalls,
      PlainTests, At, IsFlagsWait, NotRaised, Goto
<1>26. ASSUME NEW t \in Threads, PlainSuspends(t), UNCHANGED timerVars
       PROVE  TypeOK'
  BY <1>26, AlarmsAssumption, TimersAssumption, DurationsAssumption
  DEF TypeOK, Nodes, SleepCalls, WaitCalls, RaiseCalls, TimerCalls,
      PlainSuspends, At, Goto
<1>27. ASSUME NEW t \in Threads, WaitUnlinks(t), UNCHANGED timerVars
       PROVE  TypeOK'
  <2>1. Unlink(clockList, t) \in Seq(Nodes)
    BY UnlinkElements DEF TypeOK, ClockNodesLive
  <2>2. Unlink(list, t) \in Seq(Threads)
    BY UnlinkElements DEF TypeOK, Waiters
  <2>. QED
    BY <1>27, <2>1, <2>2 DEF TypeOK, WaitUnlinks, At, IsFlagsWait, Goto
<1>28. ASSUME NEW t \in Threads, WaitGivesUp(t), UNCHANGED timerVars
       PROVE  TypeOK'
  <2>0. t \in Nodes
    BY DEF Nodes
  <2>1. stamp' \in [Nodes -> Int]
    BY <1>28, <2>0
    DEF TypeOK, WaitGivesUp, At, IsFlagsWait, Return, Begin, Goto, SetStamp
  <2>2. call' \in [Threads -> {NoCall} \union SleepCalls \union TimerCalls
                                \union RaiseCalls \union WaitCalls]
    BY <1>28, <2>0
    DEF TypeOK, WaitGivesUp, At, IsFlagsWait, Return, Begin, Goto, SetStamp
  <2>3. raised' \in [Objects -> SUBSET Flags] /\ period' \in [Timers -> Nat]
    BY <1>28, <2>0
    DEF TypeOK, WaitGivesUp, At, IsFlagsWait, Return, Begin, Goto, SetStamp
  <2>. QED
    BY <1>28, <2>0, <2>1, <2>2, <2>3
    DEF TypeOK, WaitGivesUp, At, IsFlagsWait, Return, Begin, Goto, SetStamp
<1>29. ASSUME NEW t \in Threads, WaitsOn(t), UNCHANGED timerVars
       PROVE  TypeOK'
  BY <1>29, AlarmsAssumption, TimersAssumption, DurationsAssumption
  DEF TypeOK, Nodes, SleepCalls, WaitCalls, RaiseCalls, TimerCalls, WaitsOn,
      At, IsFlagsWait, Goto
<1>30. ASSUME NEW t \in Threads, RaisePops(t), UNCHANGED timerVars
       PROVE  TypeOK'
  <2>1. Head(list) \in Threads /\ Tail(list) \in Seq(Threads)
    BY <1>30 DEF TypeOK, RaisePops, At, Goto
  <2>. QED
    BY <1>30, <2>1 DEF TypeOK, RaisePops, At, Goto
<1>31. ASSUME NEW t \in Threads, RaiseResumes(t), UNCHANGED timerVars
       PROVE  TypeOK'
  BY <1>31, AlarmsAssumption, TimersAssumption, DurationsAssumption
  DEF TypeOK, Nodes, SleepCalls, WaitCalls, RaiseCalls, TimerCalls,
      RaiseResumes, At, Goto
<1>32. ASSUME NEW t \in Threads, RaiseReturns(t), UNCHANGED timerVars
       PROVE  TypeOK'
  BY <1>32, AlarmsAssumption, TimersAssumption, DurationsAssumption
  DEF TypeOK, Nodes, SleepCalls, WaitCalls, RaiseCalls, TimerCalls,
      RaiseReturns, At, Return, Begin, Goto
<1>u. CASE UNCHANGED vars
  BY <1>u, AlarmsAssumption, TimersAssumption, DurationsAssumption
  DEF TypeOK, Nodes, SleepCalls, WaitCalls, RaiseCalls, TimerCalls, vars,
      clockVars, threadVars, timerVars, flagVars
<1>. QED
  BY <1>1, <1>2, <1>3, <1>4, <1>5, <1>6, <1>7, <1>8, <1>9, <1>10, <1>11,
     <1>12, <1>13, <1>14, <1>15, <1>16, <1>17, <1>18, <1>19, <1>20, <1>21,
     <1>22, <1>23, <1>24, <1>25, <1>26, <1>27, <1>28, <1>29, <1>30, <1>31,
     <1>32, <1>u
  DEF Next, ClockStep, Tick, Sleep, Control, Wait, RaiseOrClear, Inside

\* The order of the clock list, when no timer is started while it runs: a
\* node whose timestamp was written and that was not linked yet is outside.
Sorted ==
  /\ \A t \in Threads :
       pc[t] = "starting" => call[t].timer \notin ToSet(clockList)
  /\ SortedByPriority(clockList, Urgency(stamp))

\* Only the timestamps of the nodes in the list matter.
LEMMA SameStamps ==
  ASSUME NEW l \in Seq(Nodes), NEW s, NEW r, \A n \in ToSet(l) : r[n] = s[n],
         SortedByPriority(l, Urgency(s))
  PROVE  SortedByPriority(l, Urgency(r))
<1>1. \A n \in ToSet(l) : Urgency(s)[n] = Urgency(r)[n]
  BY DEF Urgency, ToSet
<1>. QED  BY <1>1, SortedAgrees

\* A step that leaves the list and the timestamps in it alone.
LEMMA ListStays ==
  ASSUME TypeOK, Sorted, clockList' = clockList,
         \A n \in ToSet(clockList) : stamp'[n] = stamp[n],
         \A t \in Threads : pc'[t] = "starting" =>
           \/ pc[t] = "starting" /\ call'[t] = call[t]
           \/ call'[t].timer \notin ToSet(clockList)
  PROVE  Sorted'
<1>1. SortedByPriority(clockList, Urgency(stamp'))
  BY SameStamps DEF TypeOK, Sorted
<1>2. Urgency(stamp)' = Urgency(stamp')
  BY DEF Urgency, Nodes
<1>. QED  BY <1>1, <1>2 DEF Sorted

\* A step that takes nodes off the list.
LEMMA ListShrinks ==
  ASSUME TypeOK, Sorted, SortedByPriority(clockList', Urgency(stamp)),
         clockList' \in Seq(Nodes),
         ToSet(clockList') \subseteq ToSet(clockList),
         \A n \in ToSet(clockList') : stamp'[n] = stamp[n],
         \A t \in Threads : pc'[t] = "starting" =>
           pc[t] = "starting" /\ call'[t] = call[t]
  PROVE  Sorted'
<1>1. SortedByPriority(clockList', Urgency(stamp'))
  BY SameStamps
<1>2. Urgency(stamp)' = Urgency(stamp')
  BY DEF Urgency, Nodes
<1>. QED  BY <1>1, <1>2 DEF Sorted

\* Every step keeps the clock list in order.
LEMMA SortedStep ==
  ASSUME TypeOK, TypeOK', InCall, ClockNodesLive, Sorted, Restarted = {},
         [Next]_vars
  PROVE  Sorted'
<1>. USE DEF clockVars, threadVars, timerVars, flagVars
<1>1. ASSUME NEW tm \in Timers, TimerFires(tm)
       PROVE  Sorted'
  <2>1. /\ clockList # <<>> /\ tm = Head(clockList) /\ UNCHANGED <<pc, call>>
    BY <1>1 DEF TimerFires, Expire, RaiseInISR, HeadDue, SetStamp
  <2>2. /\ Tail(clockList) \in Seq(Nodes) /\ tm \in ToSet(clockList)
        /\ ToSet(Tail(clockList)) = ToSet(clockList) \ {tm}
    BY <2>1, TailElements DEF TypeOK, ClockNodesLive
  <2>3. SortedByPriority(Tail(clockList), Urgency(stamp))
    BY <2>1, TailSorted DEF TypeOK, Sorted
  <2>4. \A n \in ToSet(Tail(clockList)) : stamp'[n] = stamp[n]
    <3>1. \E v : stamp' = [stamp EXCEPT ![tm] = v]
      BY <1>1 DEF TimerFires, Expire, RaiseInISR, HeadDue, SetStamp
    <3>2. ToSet(clockList) \subseteq Nodes /\ stamp \in [Nodes -> Int]
      BY DEF TypeOK, ToSet
    <3>. QED  BY <2>2, <3>1, <3>2
  <2>5. CASE tm \notin Periodic
    <3>1. clockList' = Tail(clockList)
      BY <1>1, <2>5 DEF TimerFires, Expire, RaiseInISR, HeadDue, SetStamp
    <3>. QED  BY <2>1, <2>2, <2>3, <2>4, <3>1, ListShrinks
  <2>6. CASE tm \in Periodic
    <3>. DEFINE new == LinkStamp(Tail(clockList), tm, stamp')
    <3>1. clockList' = new
      BY <1>1, <2>6 DEF TimerFires, Expire, RaiseInISR, HeadDue, SetStamp
    <3>2. stamp' \in [Nodes -> Int] /\ tm \in Nodes
      BY <1>1, <2>6
      DEF TypeOK, Nodes, TimerFires, Expire, RaiseInISR, HeadDue, SetStamp
    <3>3. SortedByPriority(Tail(clockList), Urgency(stamp'))
      BY <2>2, <2>3, <2>4, SameStamps
    <3>4. /\ SortedByPriority(new, Urgency(stamp'))
          /\ ToSet(new) = ToSet(Tail(clockList)) \union {tm}
      BY <2>2, <3>2, <3>3, LinkStampKeeps
    <3>5. Urgency(stamp)' = Urgency(stamp')
      BY DEF Urgency, Nodes
    <3>. HIDE DEF new
    <3>. QED  BY <2>1, <2>2, <3>1, <3>4, <3>5 DEF Sorted
  <2>. QED  BY <2>5, <2>6
<1>2. ASSUME WakeThread, UNCHANGED <<timerVars, flagVars>>
       PROVE  Sorted'
  <2>1. clockList # <<>> /\ clockList' = Tail(clockList)
    BY <1>2 DEF WakeThread, HeadDue
  <2>2. /\ Tail(clockList) \in Seq(Nodes)
        /\ ToSet(Tail(clockList)) \subseteq ToSet(clockList)
    BY <2>1, TailElements DEF TypeOK, ClockNodesLive
  <2>3. SortedByPriority(Tail(clockList), Urgency(stamp))
    BY <2>1, TailSorted DEF TypeOK, Sorted
  <2>4. UNCHANGED <<stamp, pc, call>>
    BY <1>2 DEF WakeThread, HeadDue
  <2>. QED  BY <2>1, <2>2, <2>3, <2>4, ListShrinks
<1>3. ASSUME CheckEnds, UNCHANGED <<timerVars, flagVars>>
       PROVE  Sorted'
  <2>1. /\ clockList' = clockList
        /\ \A n \in ToSet(clockList) : stamp'[n] = stamp[n]
        /\ \A x \in Threads : pc'[x] = "starting" =>
             \/ pc[x] = "starting" /\ call'[x] = call[x]
             \/ call'[x].timer \notin ToSet(clockList)
    BY <1>3, TimersAssumption, NodesAssumption
    DEF TypeOK, ClockNodesLive, Linked, CheckEnds
  <2>. QED  BY <2>1, ListStays
<1>4. ASSUME NEW d \in {1} \union Slept, Advance(d),
             UNCHANGED <<timerVars, flagVars>>
       PROVE  Sorted'
  <2>1. /\ d \in Int /\ UNCHANGED <<clockList, pc, call>>
        /\ \A n \in ToSet(clockList) : n \in Nodes /\ stamp[n] \in Int
    BY <1>4, DurationsAssumption DEF TypeOK, ToSet, Advance
  <2>2. \A n \in ToSet(clockList) : stamp'[n] = stamp[n] - d
    BY <1>4, <2>1 DEF Advance
  <2>3. stamp' \in [Nodes -> Int]
    BY DEF TypeOK, Nodes
  <2>4. \A i, j \in DOMAIN clockList :
          i < j => stamp[clockList[i]] <= stamp[clockList[j]]
    BY EarliestFirst DEF TypeOK, Sorted
  <2>5. \A i, j \in DOMAIN clockList :
          i < j => stamp'[clockList[i]] <= stamp'[clockList[j]]
    <3>1. \A i \in DOMAIN clockList : clockList[i] \in ToSet(clockList)
      BY DEF ToSet
    <3>. QED  BY <2>1, <2>2, <2>4, <3>1
  <2>6. SortedByPriority(clockList, Urgency(stamp'))
    BY <2>3, <2>5, EarliestFirst DEF TypeOK
  <2>7. Urgency(stamp)' = Urgency(stamp')
    BY DEF Urgency, Nodes
  <2>. QED  BY <2>1, <2>6, <2>7 DEF Sorted
<1>5. ASSUME NEW t \in Sleepers, NEW d \in Durations,
                NEW kind \in {"sleep_for", "wait_for"}, SleepCall(t, kind, d),
                UNCHANGED <<timerVars, flagVars>>
       PROVE  Sorted'
  <2>1. /\ clockList' = clockList
        /\ \A n \in ToSet(clockList) : stamp'[n] = stamp[n]
        /\ \A x \in Threads : pc'[x] = "starting" =>
             \/ pc[x] = "starting" /\ call'[x] = call[x]
             \/ call'[x].timer \notin ToSet(clockList)
    BY <1>5, TimersAssumption, NodesAssumption
    DEF TypeOK, ClockNodesLive, Linked, SleepCall, At, Begin, Goto, SetStamp
  <2>. QED  BY <2>1, ListStays
<1>6. ASSUME NEW t \in Sleepers, ResumedAnyway(t),
             UNCHANGED <<timerVars, flagVars>>
       PROVE  Sorted'
  <2>1. /\ clockList' = clockList
        /\ \A n \in ToSet(clockList) : stamp'[n] = stamp[n]
        /\ \A x \in Threads : pc'[x] = "starting" =>
             \/ pc[x] = "starting" /\ call'[x] = call[x]
             \/ call'[x].timer \notin ToSet(clockList)
    BY <1>6, TimersAssumption, NodesAssumption
    DEF TypeOK, ClockNodesLive, Linked, ResumedAnyway
  <2>. QED  BY <2>1, ListStays
<1>7. ASSUME NEW tm \in Timers, NEW p \in Periods,
             StartStamp(Controller[tm], tm, p), UNCHANGED flagVars
       PROVE  Sorted'
  <2>1. /\ clockList' = clockList
        /\ \A n \in ToSet(clockList) : stamp'[n] = stamp[n]
        /\ \A x \in Threads : pc'[x] = "starting" =>
             \/ pc[x] = "starting" /\ call'[x] = call[x]
             \/ call'[x].timer \notin ToSet(clockList)
    BY <1>7, TimersAssumption, NodesAssumption
    DEF TypeOK, ClockNodesLive, Linked, StartStamp, At, Begin, Goto, SetStamp
  <2>. QED  BY <2>1, ListStays
<1>8. ASSUME NEW tm \in Timers, StopTest(Controller[tm], tm), UNCHANGED flagVars
       PROVE  Sorted'
  <2>1. /\ clockList' = clockList
        /\ \A n \in ToSet(clockList) : stamp'[n] = stamp[n]
        /\ \A x \in Threads : pc'[x] = "starting" =>
             \/ pc[x] = "starting" /\ call'[x] = call[x]
             \/ call'[x].timer \notin ToSet(clockList)
    BY <1>8, TimersAssumption, NodesAssumption
    DEF TypeOK, ClockNodesLive, Linked, StopTest, At, Begin, Goto
  <2>. QED  BY <2>1, ListStays
<1>9. ASSUME NEW tm \in Timers, Destroy(Controller[tm], tm), UNCHANGED flagVars
       PROVE  Sorted'
  <2>1. CASE state[tm] # "running"
    <3>1. /\ clockList' = clockList /\ UNCHANGED <<pc, call>>
          /\ \A n \in ToSet(clockList) : stamp'[n] = stamp[n]
      BY <1>9, <2>1 DEF TypeOK, Destroy, At, SetStamp
    <3>. QED  BY <3>1, ListStays
  <2>2. CASE state[tm] = "running"
    <3>1. /\ Unlink(clockList, tm) \in Seq(Nodes)
          /\ ToSet(Unlink(clockList, tm)) = ToSet(clockList) \ {tm}
      BY UnlinkElements DEF TypeOK, ClockNodesLive
    <3>2. SortedByPriority(Unlink(clockList, tm), Urgency(stamp))
      BY UnlinkSorted DEF TypeOK, Sorted
    <3>3. clockList' = Unlink(clockList, tm) /\ UNCHANGED <<pc, call>>
      BY <1>9, <2>2 DEF Destroy, At, SetStamp
    <3>4. \A n \in ToSet(clockList') : stamp'[n] = stamp[n]
      BY <1>9, <3>1, <3>3 DEF TypeOK, Destroy, At, SetStamp
    <3>. QED  BY <3>1, <3>2, <3>3, <3>4, ListShrinks
  <2>. QED  BY <2>1, <2>2
<1>10. ASSUME NEW tm \in Timers, Construct(Controller[tm], tm),
              UNCHANGED flagVars
       PROVE  Sorted'
  <2>1. /\ clockList' = clockList
        /\ \A n \in ToSet(clockList) : stamp'[n] = stamp[n]
        /\ \A x \in Threads : pc'[x] = "starting" =>
             \/ pc[x] = "starting" /\ call'[x] = call[x]
             \/ call'[x].timer \notin ToSet(clockList)
    BY <1>10, TimersAssumption, NodesAssumption
    DEF TypeOK, ClockNodesLive, Linked, Construct, At
  <2>. QED  BY <2>1, ListStays
<1>11. ASSUME NEW t \in Threads, NEW c \in Waits[t], WaitReturnsAtOnce(t, c),
              UNCHANGED timerVars
       PROVE  Sorted'
  <2>1. /\ clockList' = clockList
        /\ \A n \in ToSet(clockList) : stamp'[n] = stamp[n]
        /\ \A x \in Threads : pc'[x] = "starting" =>
             \/ pc[x] = "starting" /\ call'[x] = call[x]
             \/ call'[x].timer \notin ToSet(clockList)
    BY <1>11, TimersAssumption, NodesAssumption
    DEF TypeOK, ClockNodesLive, Linked, WaitReturnsAtOnce, At, Consume
  <2>. QED  BY <2>1, ListStays
<1>12. ASSUME NEW t \in Threads, NEW c \in Waits[t], NEW d \in Durations,
              WaitEnters(t, c, d), UNCHANGED timerVars
       PROVE  Sorted'
  <2>1. /\ clockList' = clockList
        /\ \A n \in ToSet(clockList) : stamp'[n] = stamp[n]
        /\ \A x \in Threads : pc'[x] = "starting" =>
             \/ pc[x] = "starting" /\ call'[x] = call[x]
             \/ call'[x].timer \notin ToSet(clockList)
    BY <1>12, TimersAssumption, NodesAssumption
    DEF TypeOK, ClockNodesLive, Linked, WaitEnters, At, NotRaised, Begin,
        Goto, SetStamp
  <2>. QED  BY <2>1, ListStays
<1>13. ASSUME NEW t \in Raisers, NEW r \in Raises, Raise(t, r[1], r[2]),
              UNCHANGED timerVars
       PROVE  Sorted'
  <2>1. /\ clockList' = clockList
        /\ \A n \in ToSet(clockList) : stamp'[n] = stamp[n]
        /\ \A x \in Threads : pc'[x] = "starting" =>
             \/ pc[x] = "starting" /\ call'[x] = call[x]
             \/ call'[x].timer \notin ToSet(clockList)
    BY <1>13, TimersAssumption, NodesAssumption
    DEF TypeOK, ClockNodesLive, Linked, Raise, At, Begin, Goto
  <2>. QED  BY <2>1, ListStays
<1>14. ASSUME NEW t \in Raisers, NEW r \in Raises, Clear(t, r[1], r[2]),
              UNCHANGED timerVars
       PROVE  Sorted'
  <2>1. /\ clockList' = clockList
        /\ \A n \in ToSet(clockList) : stamp'[n] = stamp[n]
        /\ \A x \in Threads : pc'[x] = "starting" =>
             \/ pc[x] = "starting" /\ call'[x] = call[x]
             \/ call'[x].timer \notin ToSet(clockList)
    BY <1>14, TimersAssumption, NodesAssumption
    DEF TypeOK, ClockNodesLive, Linked, Clear, At
  <2>. QED  BY <2>1, ListStays
<1>15. ASSUME NEW t \in Threads, SleepSuspends(t),
              UNCHANGED <<timerVars, flagVars>>
       PROVE  Sorted'
  <2>. DEFINE new == LinkStamp(clockList, t, stamp)
  <2>1. /\ t \in Nodes /\ clockList \in Seq(Nodes) /\ stamp \in [Nodes -> Int]
        /\ SortedByPriority(clockList, Urgency(stamp))
    BY DEF TypeOK, Nodes, Sorted
  <2>2. /\ SortedByPriority(new, Urgency(stamp))
        /\ ToSet(new) = ToSet(clockList) \union {t}
    BY <2>1, LinkStampKeeps
  <2>3. /\ clockList' = new \/ clockList' = clockList
        /\ stamp' = stamp
        /\ \A x \in Threads : pc'[x] = "starting" =>
             pc[x] = "starting" /\ call'[x] = call[x]
    BY <1>15 DEF TypeOK, SleepSuspends, At, IsSleep, Goto
  <2>4. Urgency(stamp)' = Urgency(stamp)
    BY <2>3 DEF Urgency, Nodes
  <2>5. \A x \in Threads : pc[x] = "starting" => call[x].timer # t
    BY NodesAssumption DEF InCall, TimerCalls
  <2>. HIDE DEF new
  <2>. QED  BY <2>2, <2>3, <2>4, <2>5 DEF Sorted
<1>16. ASSUME NEW t \in Threads, SleepUnlinks(t),
              UNCHANGED <<timerVars, flagVars>>
       PROVE  Sorted'
  <2>1. /\ Unlink(clockList, t) \in Seq(Nodes)
        /\ ToSet(Unlink(clockList, t)) = ToSet(clockList) \ {t}
    BY UnlinkElements DEF TypeOK, ClockNodesLive
  <2>2. SortedByPriority(Unlink(clockList, t), Urgency(stamp))
    BY UnlinkSorted DEF TypeOK, Sorted
  <2>3. clockList' = Unlink(clockList, t)
    BY <1>16 DEF SleepUnlinks, At, IsSleep, Goto
  <2>4. /\ \A n \in ToSet(clockList') : stamp'[n] = stamp[n]
        /\ \A x \in Threads : pc'[x] = "starting" =>
             pc[x] = "starting" /\ call'[x] = call[x]
    BY <1>16, <2>1, <2>3 DEF TypeOK, SleepUnlinks, At, IsSleep, Goto
  <2>. QED  BY <2>1, <2>2, <2>3, <2>4, ListShrinks
<1>17. ASSUME NEW t \in Threads, SleepReturns(t),
              UNCHANGED <<timerVars, flagVars>>
       PROVE  Sorted'
  <2>1. /\ clockList' = clockList
        /\ \A n \in ToSet(clockList) : stamp'[n] = stamp[n]
        /\ \A x \in Threads : pc'[x] = "starting" =>
             \/ pc[x] = "starting" /\ call'[x] = call[x]
             \/ call'[x].timer \notin ToSet(clockList)
    BY <1>17, TimersAssumption, NodesAssumption
    DEF TypeOK, ClockNodesLive, Linked, SleepReturns, At, IsSleep, Return,
        Begin, Goto, SetStamp
  <2>. QED  BY <2>1, ListStays
<1>18. ASSUME NEW t \in Threads, SleepsOn(t), UNCHANGED <<timerVars, flagVars>>
       PROVE  Sorted'
  <2>1. /\ clockList' = clockList
        /\ \A n \in ToSet(clockList) : stamp'[n] = stamp[n]
        /\ \A x \in Threads : pc'[x] = "starting" =>
             \/ pc[x] = "starting" /\ call'[x] = call[x]
             \/ call'[x].timer \notin ToSet(clockList)
    BY <1>18, TimersAssumption, NodesAssumption
    DEF TypeOK, ClockNodesLive, Linked, SleepsOn, At, IsSleep, Goto
  <2>. QED  BY <2>1, ListStays
<1>19. ASSUME NEW t \in Threads, StartLink(t), UNCHANGED flagVars
       PROVE  Sorted'
  <2>. DEFINE tm == call[t].timer
              rest == Unlink(clockList, tm)
              new == LinkStamp(rest, tm, stamp)
  <2>1. tm \in Timers /\ Controller[tm] = t /\ tm \in Nodes
    BY <1>19 DEF InCall, TimerCalls, Nodes, StartLink, At, Goto
  <2>2. rest \in Seq(Nodes) /\ ToSet(rest) = ToSet(clockList) \ {tm}
    BY UnlinkElements DEF TypeOK, ClockNodesLive
  <2>3. SortedByPriority(rest, Urgency(stamp))
    BY UnlinkSorted DEF TypeOK, Sorted
  <2>. HIDE DEF rest
  <2>4. /\ SortedByPriority(new, Urgency(stamp))
        /\ ToSet(new) = ToSet(rest) \union {tm}
    BY <2>1, <2>2, <2>3, LinkStampKeeps DEF TypeOK
  <2>5. /\ clockList' = new /\ stamp' = stamp
        /\ \A x \in Threads : pc'[x] = "starting" =>
             x # t /\ pc[x] = "starting" /\ call'[x] = call[x]
    BY <1>19 DEF TypeOK, rest, StartLink, At, Goto
  <2>6. Urgency(stamp)' = Urgency(stamp)
    BY <2>5 DEF Urgency, Nodes
  <2>7. \A x \in Threads \ {t} : pc[x] = "starting" => call[x].timer # tm
    BY <2>1 DEF InCall
  <2>. HIDE DEF new
  <2>. QED  BY <2>2, <2>4, <2>5, <2>6, <2>7 DEF Sorted
<1>20. ASSUME NEW t \in Threads, StartMark(t), UNCHANGED flagVars
       PROVE  Sorted'
  <2>1. /\ clockList' = clockList
        /\ \A n \in ToSet(clockList) : stamp'[n] = stamp[n]
        /\ \A x \in Threads : pc'[x] = "starting" =>
             \/ pc[x] = "starting" /\ call'[x] = call[x]
             \/ call'[x].timer \notin ToSet(clockList)
    BY <1>20, TimersAssumption, NodesAssumption
    DEF TypeOK, ClockNodesLive, Linked, StartMark, At, Return, Begin, Goto
  <2>. QED  BY <2>1, ListStays
<1>21. ASSUME NEW t \in Threads, StopUnlink(t), UNCHANGED flagVars
       PROVE  Sorted'
  <2>. DEFINE tm == call[t].timer
  <2>1. /\ Unlink(clockList, tm) \in Seq(Nodes)
        /\ ToSet(Unlink(clockList, tm)) = ToSet(clockList) \ {tm}
    BY UnlinkElements DEF TypeOK, ClockNodesLive
  <2>2. SortedByPriority(Unlink(clockList, tm), Urgency(stamp))
    BY UnlinkSorted DEF TypeOK, Sorted
  <2>3. clockList' = Unlink(clockList, tm)
    BY <1>21 DEF StopUnlink, At, Goto, SetStamp
  <2>4. /\ \A n \in ToSet(clockList') : stamp'[n] = stamp[n]
        /\ \A x \in Threads : pc'[x] = "starting" =>
             pc[x] = "starting" /\ call'[x] = call[x]
    BY <1>21, <2>1, <2>3 DEF TypeOK, StopUnlink, At, Goto, SetStamp
  <2>. QED  BY <2>1, <2>2, <2>3, <2>4, ListShrinks
<1>22. ASSUME NEW t \in Threads, StopMark(t), UNCHANGED flagVars
       PROVE  Sorted'
  <2>1. /\ clockList' = clockList
        /\ \A n \in ToSet(clockList) : stamp'[n] = stamp[n]
        /\ \A x \in Threads : pc'[x] = "starting" =>
             \/ pc[x] = "starting" /\ call'[x] = call[x]
             \/ call'[x].timer \notin ToSet(clockList)
    BY <1>22, TimersAssumption, NodesAssumption
    DEF TypeOK, ClockNodesLive, Linked, StopMark, At, Return, Begin, Goto
  <2>. QED  BY <2>1, ListStays
<1>23. ASSUME NEW t \in Threads, WaitReturns(t), UNCHANGED timerVars
       PROVE  Sorted'
  <2>1. /\ clockList' = clockList
        /\ \A n \in ToSet(clockList) : stamp'[n] = stamp[n]
        /\ \A x \in Threads : pc'[x] = "starting" =>
             \/ pc[x] = "starting" /\ call'[x] = call[x]
             \/ call'[x].timer \notin ToSet(clockList)
    BY <1>23, TimersAssumption, NodesAssumption
    DEF TypeOK, ClockNodesLive, Linked, WaitReturns, At, IsFlagsWait, Consume,
        Return, Begin, Goto, SetStamp
  <2>. QED  BY <2>1, ListStays
<1>24. ASSUME NEW t \in Threads, WaitSuspends(t), UNCHANGED timerVars
       PROVE  Sorted'
  <2>. DEFINE new == LinkStamp(clockList, t, stamp)
  <2>1. /\ t \in Nodes /\ clockList \in Seq(Nodes) /\ stamp \in [Nodes -> Int]
        /\ SortedByPriority(clockList, Urgency(stamp))
    BY DEF TypeOK, Nodes, Sorted
  <2>2. /\ SortedByPriority(new, Urgency(stamp))
        /\ ToSet(new) = ToSet(clockList) \union {t}
    BY <2>1, LinkStampKeeps
  <2>3. /\ clockList' = new \/ clockList' = clockList
        /\ stamp' = stamp
        /\ \A x \in Threads : pc'[x] = "starting" =>
             pc[x] = "starting" /\ call'[x] = call[x]
    BY <1>24 DEF TypeOK, WaitSuspends, At, IsFlagsWait, NotRaised, Goto
  <2>4. Urgency(stamp)' = Urgency(stamp)
    BY <2>3 DEF Urgency, Nodes
  <2>5. \A x \in Threads : pc[x] = "starting" => call[x].timer # t
    BY NodesAssumption DEF InCall, TimerCalls
  <2>. HIDE DEF new
  <2>. QED  BY <2>2, <2>3, <2>4, <2>5 DEF Sorted
<1>25. ASSUME NEW t \in Threads, PlainTests(t), UNCHANGED timerVars
       PROVE  Sorted'
  <2>1. /\ clockList' = clockList
        /\ \A n \in ToSet(clockList) : stamp'[n] = stamp[n]
        /\ \A x \in Threads : pc'[x] = "starting" =>
             \/ pc[x] = "starting" /\ call'[x] = call[x]
             \/ call'[x].timer \notin ToSet(clockList)
    BY <1>25, TimersAssumption, NodesAssumption
    DEF TypeOK, ClockNodesLive, Linked, PlainTests, At, IsFlagsWait,
        NotRaised, Goto
  <2>. QED  BY <2>1, ListStays
<1>26. ASSUME NEW t \in Threads, PlainSuspends(t), UNCHANGED timerVars
       PROVE  Sorted'
  <2>1. /\ clockList' = clockList
        /\ \A n \in ToSet(clockList) : stamp'[n] = stamp[n]
        /\ \A x \in Threads : pc'[x] = "starting" =>
             \/ pc[x] = "starting" /\ call'[x] = call[x]
             \/ call'[x].timer \notin ToSet(clockList)
    BY <1>26, TimersAssumption, NodesAssumption
    DEF TypeOK, ClockNodesLive, Linked, PlainSuspends, At, Goto
  <2>. QED  BY <2>1, ListStays
<1>27. ASSUME NEW t \in Threads, WaitUnlinks(t), UNCHANGED timerVars
       PROVE  Sorted'
  <2>1. /\ Unlink(clockList, t) \in Seq(Nodes)
        /\ ToSet(Unlink(clockList, t)) = ToSet(clockList) \ {t}
    BY UnlinkElements DEF TypeOK, ClockNodesLive
  <2>2. SortedByPriority(Unlink(clockList, t), Urgency(stamp))
    BY UnlinkSorted DEF TypeOK, Sorted
  <2>3. clockList' = Unlink(clockList, t)
    BY <1>27 DEF WaitUnlinks, At, IsFlagsWait, Goto
  <2>4. /\ \A n \in ToSet(clockList') : stamp'[n] = stamp[n]
        /\ \A x \in Threads : pc'[x] = "starting" =>
             pc[x] = "starting" /\ call'[x] = call[x]
    BY <1>27, <2>1, <2>3 DEF TypeOK, WaitUnlinks, At, IsFlagsWait, Goto
  <2>. QED  BY <2>1, <2>2, <2>3, <2>4, ListShrinks
<1>28. ASSUME NEW t \in Threads, WaitGivesUp(t), UNCHANGED timerVars
       PROVE  Sorted'
  <2>1. /\ clockList' = clockList
        /\ \A n \in ToSet(clockList) : stamp'[n] = stamp[n]
        /\ \A x \in Threads : pc'[x] = "starting" =>
             \/ pc[x] = "starting" /\ call'[x] = call[x]
             \/ call'[x].timer \notin ToSet(clockList)
    BY <1>28, TimersAssumption, NodesAssumption
    DEF TypeOK, ClockNodesLive, Linked, WaitGivesUp, At, IsFlagsWait, Return,
        Begin, Goto, SetStamp
  <2>. QED  BY <2>1, ListStays
<1>29. ASSUME NEW t \in Threads, WaitsOn(t), UNCHANGED timerVars
       PROVE  Sorted'
  <2>1. /\ clockList' = clockList
        /\ \A n \in ToSet(clockList) : stamp'[n] = stamp[n]
        /\ \A x \in Threads : pc'[x] = "starting" =>
             \/ pc[x] = "starting" /\ call'[x] = call[x]
             \/ call'[x].timer \notin ToSet(clockList)
    BY <1>29, TimersAssumption, NodesAssumption
    DEF TypeOK, ClockNodesLive, Linked, WaitsOn, At, IsFlagsWait, Goto
  <2>. QED  BY <2>1, ListStays
<1>30. ASSUME NEW t \in Threads, RaisePops(t), UNCHANGED timerVars
       PROVE  Sorted'
  <2>1. /\ clockList' = clockList
        /\ \A n \in ToSet(clockList) : stamp'[n] = stamp[n]
        /\ \A x \in Threads : pc'[x] = "starting" =>
             \/ pc[x] = "starting" /\ call'[x] = call[x]
             \/ call'[x].timer \notin ToSet(clockList)
    BY <1>30, TimersAssumption, NodesAssumption
    DEF TypeOK, ClockNodesLive, Linked, RaisePops, At, Goto
  <2>. QED  BY <2>1, ListStays
<1>31. ASSUME NEW t \in Threads, RaiseResumes(t), UNCHANGED timerVars
       PROVE  Sorted'
  <2>1. /\ clockList' = clockList
        /\ \A n \in ToSet(clockList) : stamp'[n] = stamp[n]
        /\ \A x \in Threads : pc'[x] = "starting" =>
             \/ pc[x] = "starting" /\ call'[x] = call[x]
             \/ call'[x].timer \notin ToSet(clockList)
    BY <1>31, TimersAssumption, NodesAssumption
    DEF TypeOK, ClockNodesLive, Linked, RaiseResumes, At, Goto
  <2>. QED  BY <2>1, ListStays
<1>32. ASSUME NEW t \in Threads, RaiseReturns(t), UNCHANGED timerVars
       PROVE  Sorted'
  <2>1. /\ clockList' = clockList
        /\ \A n \in ToSet(clockList) : stamp'[n] = stamp[n]
        /\ \A x \in Threads : pc'[x] = "starting" =>
             \/ pc[x] = "starting" /\ call'[x] = call[x]
             \/ call'[x].timer \notin ToSet(clockList)
    BY <1>32, TimersAssumption, NodesAssumption
    DEF TypeOK, ClockNodesLive, Linked, RaiseReturns, At, Return, Begin, Goto
  <2>. QED  BY <2>1, ListStays
<1>u. CASE UNCHANGED vars
  BY <1>u, ListStays DEF vars, clockVars, threadVars, timerVars, flagVars
<1>. QED
  BY <1>1, <1>2, <1>3, <1>4, <1>5, <1>6, <1>7, <1>8, <1>9, <1>10, <1>11,
     <1>12, <1>13, <1>14, <1>15, <1>16, <1>17, <1>18, <1>19, <1>20, <1>21,
     <1>22, <1>23, <1>24, <1>25, <1>26, <1>27, <1>28, <1>29, <1>30, <1>31,
     <1>32, <1>u
  DEF Next, ClockStep, Tick, Sleep, Control, Wait, RaiseOrClear, Inside
-----------------------------------------------------------------------------
\* The inductive invariant, but for the order of the clock list.
Inv ==
  TypeOK /\ InCall /\ ClockNodesLive /\ Stopped /\ Waiters /\ NoLostFlag

\* It holds at the start: no timer runs and nobody is in a call.
LEMMA InitInv == Init => Inv
<1>. SUFFICES ASSUME Init
              PROVE  Inv
  OBVIOUS
<1>. USE DEF Init, ClocksInit, TimersInit, FlagsInit
<1>1. TypeOK
  <2>1. clockList \in Seq(Nodes) /\ stamp \in [Nodes -> Int]
    OBVIOUS
  <2>2. /\ pc \in [Threads -> {"app"}] /\ call \in [Threads -> {NoCall}]
        /\ state \in [Timers -> {"initialized"}]
    OBVIOUS
  <2>3. period \in [Timers -> Nat] /\ raised \in [Objects -> SUBSET Flags]
    OBVIOUS
  <2>4. /\ list \in Seq(Threads)
        /\ popped \in [Threads -> Threads \union {NoThread}]
    OBVIOUS
  <2>5. checking \in BOOLEAN /\ suspended \subseteq Threads
    OBVIOUS
  <2>. QED  BY ONLY <2>1, <2>2, <2>3, <2>4, <2>5 DEF TypeOK
<1>2. InCall /\ Stopped
  BY DEF InCall, Stopped
<1>3. ToSet(<<>>) = {} /\ NoDuplicates(<<>>)
  BY DEF ToSet, NoDuplicates
<1>4. ClockNodesLive /\ Waiters
  BY <1>3 DEF ClockNodesLive, Waiters
<1>5. NoLostFlag
  BY DEF NoLostFlag, SleepsOnRaised
<1>. QED  BY <1>1, <1>2, <1>4, <1>5 DEF Inv

\* One step of a thread, of an interrupt routine or of the clock keeps it.
LEMMA StepInv == Inv /\ [Next]_vars => Inv'
BY TypesStep, CallsStep, ClockNodesStep, WaitersStep, NoLostFlagStep DEF Inv

\* So it holds always, whatever timers are restarted.
LEMMA SpecInv == Spec => []Inv
BY InitInv, StepInv, PTL DEF Spec

\* The variables keep their types: in particular a thread in a call of a kind
\* has the arguments of that kind.
THEOREM TypeCorrect == Spec => []TypeOK
BY SpecInv, PTL DEF Inv

\* Whatever timers are started, restarted, stopped, destroyed or expire, the
\* clock list holds each node once and only nodes that are alive: those of
\* threads asleep in a call with a timeout and those of timers that run.
THEOREM NodesAreLive == Spec => []ClockNodesLive
BY SpecInv, PTL DEF Inv

\* No thread sleeps on raised flags, from threads or interrupts, in a wait
\* that suspends in the critical section of its test.
THEOREM FlagsAreNotLost == Spec => []NoLostFlag
BY SpecInv, PTL DEF Inv

\* The order of the clock list holds as long as no running timer is started:
\* start() would write the stamp of a linked node.
LEMMA SpecSorted ==
  ASSUME Restarted = {}
  PROVE  Spec => [](Inv /\ Sorted)
<1>1. Init => Sorted
  <2>1. SortedByPriority(<<>>, Urgency(stamp))
    BY DEF SortedByPriority
  <2>. QED  BY <2>1 DEF Init, ClocksInit, Sorted
<1>2. Inv /\ Inv' /\ Sorted /\ [Next]_vars => Sorted'
  BY SortedStep DEF Inv
<1>. QED  BY <1>1, <1>2, SpecInv, PTL DEF Spec

\* When no timer is started while it runs, the clock list is in order.
THEOREM ClockListIsSound ==
  ASSUME Restarted = {}
  PROVE  Spec => []ClockListSound
<1>1. Inv /\ Sorted => ClockListSound
  BY EarliestFirst DEF Inv, TypeOK, Sorted, ClockListSound, ClockListOrdered
<1>. QED  BY <1>1, SpecSorted, PTL

\* Then the clock interrupt leaves nothing behind that is due.
THEOREM TheClockSettles ==
  ASSUME Restarted = {}
  PROVE  Spec => ClockSettles
<1>1. ASSUME Inv, Sorted, [Next]_vars, checking, ~ checking'
      PROVE  \A n \in ToSet(clockList') : stamp'[n] > 0
  <2>1. CheckEnds
    BY <1>1
    DEF Inv, TypeOK, Next, ClockStep, Tick, Sleep, Control, Wait,
        RaiseOrClear, Inside, vars, clockVars, threadVars, timerVars,
        flagVars, TimerFires, Expire, WakeThread, Advance, SleepCall,
        ResumedAnyway, StartStamp, StopTest, Destroy, Construct,
        WaitReturnsAtOnce, WaitEnters, Raise, Clear, SleepSuspends,
        SleepUnlinks, SleepReturns, SleepsOn, StartLink, StartMark,
        StopUnlink, StopMark, WaitReturns, WaitSuspends, PlainTests,
        PlainSuspends, WaitUnlinks, WaitGivesUp, WaitsOn, RaisePops,
        RaiseResumes, RaiseReturns
  <2>2. /\ clockList \in Seq(Nodes) /\ stamp \in [Nodes -> Int]
        /\ UNCHANGED <<clockList, stamp>>
        /\ clockList # <<>> => ~ (stamp[clockList[1]] <= 0)
    BY <1>1, <2>1 DEF Inv, TypeOK, CheckEnds, HeadDue
  <2>3. \A i, j \in DOMAIN clockList :
          i < j => stamp[clockList[i]] <= stamp[clockList[j]]
    BY <1>1, <2>2, EarliestFirst DEF Sorted
  <2>4. ASSUME NEW i \in DOMAIN clockList
        PROVE  stamp[clockList[i]] > 0
    <3>1. /\ 1 \in DOMAIN clockList /\ clockList # <<>>
          /\ i \in 1..Len(clockList)
          /\ clockList[1] \in Nodes /\ clockList[i] \in Nodes
      BY <2>2
    <3>2. 1 < i => stamp[clockList[1]] <= stamp[clockList[i]]
      BY <2>3, <3>1
    <3>3. stamp[clockList[1]] \in Int /\ stamp[clockList[i]] \in Int
      BY <2>2, <3>1
    <3>. QED  BY <2>2, <3>1, <3>2, <3>3
  <2>. QED  BY <2>2, <2>4 DEF ToSet
<1>2. Inv /\ Sorted /\ [Next]_vars =>
        [(checking /\ ~ checking') =>
           \A n \in ToSet(clockList') : stamp'[n] > 0]_vars
  BY <1>1
<1>. QED  BY <1>2, SpecSorted, PTL DEF Spec, ClockSettles
=============================================================================
