------------------------------- MODULE Alarms ------------------------------
(***************************************************************************)
(* The clock, the timers and the flags together: threads sleep, wait for   *)
(* flags with and without a timeout, raise flags and control timers, and   *)
(* the function of each timer raises flags from the clock interrupt.       *)
(***************************************************************************)
EXTENDS Timers, EventFlags

CONSTANTS Sleepers,     \* threads that call sleep_for() and wait_for()
          Raisers,      \* threads that raise and clear flags
          Raises,       \* what they raise: pairs of an object and flags
          Waits,        \* the waits for flags each thread may call
          Target, Mask  \* the object and the flags each timer raises

ASSUME AlarmsAssumption ==
  /\ Sleepers \subseteq Threads
  /\ Raisers \subseteq Threads /\ Raises \subseteq Objects \X SUBSET Flags
  /\ \A t \in Threads : Waits[t] \subseteq WaitCalls
  /\ Target \in [Timers -> Objects] /\ Mask \in [Timers -> SUBSET Flags]

vars == <<clockVars, threadVars, timerVars, flagVars>>

Init == ClocksInit /\ TimersInit /\ FlagsInit

\* The timer's function runs at the end of its interrupt routine.
TimerFires(tm) ==
  /\ Expire(tm)
  /\ RaiseInISR(Target[tm], Mask[tm])
  /\ UNCHANGED <<pc, call>>

ClockStep ==
  \/ \E tm \in Timers : TimerFires(tm)
  \/ (WakeThread \/ CheckEnds) /\ UNCHANGED <<timerVars, flagVars>>

Tick ==
  \E d \in {1} \union Slept : Advance(d) /\ UNCHANGED <<timerVars, flagVars>>

Sleep(t) ==
  /\ \/ \E d \in Durations : SleepCall(t, "sleep_for", d)
     \/ \E d \in Durations : SleepCall(t, "wait_for", d)
     \/ ResumedAnyway(t)
  /\ UNCHANGED <<timerVars, flagVars>>

Control(tm) ==
  LET t == Controller[tm]
  IN  /\ \/ \E p \in Periods : StartStamp(t, tm, p)
         \/ StopTest(t, tm) \/ Destroy(t, tm) \/ Construct(t, tm)
      /\ UNCHANGED flagVars

Wait(t) ==
  /\ \E c \in Waits[t] :
       WaitReturnsAtOnce(t, c) \/ \E d \in Durations : WaitEnters(t, c, d)
  /\ UNCHANGED timerVars

RaiseOrClear(t) ==
  /\ \E r \in Raises : Raise(t, r[1], r[2]) \/ Clear(t, r[1], r[2])
  /\ UNCHANGED timerVars

\* The steps of a thread inside a call.
Inside(t) ==
  \/ /\ SleepSuspends(t) \/ SleepUnlinks(t) \/ SleepReturns(t) \/ SleepsOn(t)
     /\ UNCHANGED <<timerVars, flagVars>>
  \/ /\ StartLink(t) \/ StartMark(t) \/ StopUnlink(t) \/ StopMark(t)
     /\ UNCHANGED flagVars
  \/ /\ \/ WaitReturns(t) \/ WaitSuspends(t) \/ PlainTests(t)
        \/ PlainSuspends(t) \/ WaitUnlinks(t) \/ WaitGivesUp(t) \/ WaitsOn(t)
        \/ RaisePops(t) \/ RaiseResumes(t) \/ RaiseReturns(t)
     /\ UNCHANGED timerVars

Next ==
  \/ ClockStep
  \/ Tick
  \/ \E t \in Sleepers : Sleep(t)
  \/ \E tm \in Timers : Control(tm)
  \/ \E t \in Threads : Wait(t)
  \/ \E t \in Raisers : RaiseOrClear(t)
  \/ \E t \in Threads : Inside(t)

Spec == Init /\ [][Next]_vars

\* The clock interrupt comes back and ends, and threads of one priority are
\* preempted in turn.
Fairness ==
  /\ WF_vars(ClockStep) /\ WF_vars(Tick)
  /\ \A t \in Threads : SF_vars(Inside(t))

FairSpec == Spec /\ Fairness
-----------------------------------------------------------------------------
\* Type invariant.
TypeOK ==
  /\ clockList \in Seq(Nodes)
  /\ stamp \in [Nodes -> Int]
  /\ checking \in BOOLEAN
  /\ suspended \subseteq Threads
  /\ pc \in [Threads -> {"app", "loop", "tested", "asleep", "woken", "raised",
                         "resuming", "starting", "started", "stopping",
                         "stopped"}]
  /\ call \in [Threads -> {NoCall} \union SleepCalls \union TimerCalls
                            \union RaiseCalls \union WaitCalls]
  /\ state \in [Timers -> {"initialized", "running", "completed", "stopped",
                           "destroyed"}]
  /\ period \in [Timers -> Nat]
  /\ raised \in [Objects -> SUBSET Flags]
  /\ list \in Seq(Threads)
  /\ popped \in [Threads -> Threads \union {NoThread}]

\* The clock list is in order, whatever was linked late, moved by its own
\* interrupt or unlinked in between, and holds no node whose memory is gone:
\* the node of a thread is on the stack of its call, the node of a timer in
\* an object that the destructor may have ended.  A timer in the list can be
\* stopped: its state_ says that it runs, or its start() is about to.
ClockListOrdered ==
  \A i, j \in DOMAIN clockList :
    i < j => stamp[clockList[i]] <= stamp[clockList[j]]

ClockNodesLive ==
  /\ NoDuplicates(clockList)
  /\ \A t \in ToSet(clockList) \intersect Threads :
       pc[t] = "asleep" /\ Timed(t)
  /\ \A tm \in ToSet(clockList) \intersect Timers :
       \/ state[tm] = "running"
       \/ /\ pc[Controller[tm]] = "started"
          /\ call[Controller[tm]].timer = tm

ClockListSound == ClockListOrdered /\ ClockNodesLive

\* When the clock interrupt ends nothing in the list is due: no node hides
\* behind another one, however many come at once, and a periodic timer that
\* is several periods late has caught up.
ClockSettles ==
  [][(checking /\ ~ checking') =>
       \A n \in ToSet(clockList') : stamp'[n] > 0]_vars

\* Somebody is between raising flags of object o and the end of the
\* resume_all() that follows.
WakingOf(o) ==
  \E u \in Threads : pc[u] \in {"raised", "resuming"} /\ call[u].object = o

\* No lost wake-up: a thread does not sleep on flags that are raised unless
\* the raise is still on its way to it.  (The waits of kind "plain" have the
\* property of their own below.)
SleepsOnRaised(t) ==
  t \in suspended /\ IsFlagsWait(t) /\ Raised(t, call[t])

NoLostFlag ==
  \A t \in Threads :
    SleepsOnRaised(t) /\ call[t].kind # "plain" =>
      WakingOf(ObjectOf(t, call[t]))

\* A call with a timeout returns, however often and whyever it is woken.
TimedCallsReturn == \A t \in Threads : Timed(t) ~> ~ Timed(t)

\* What os-thread.h:1941 says of flags_wait(): "Otherwise suspend the
\* execution of the current thread until all/any specified event flags are
\* raised", hence no longer.
NoLostPlainFlag ==
  \A t \in Threads :
    SleepsOnRaised(t) => WakingOf(ObjectOf(t, call[t]))
=============================================================================
