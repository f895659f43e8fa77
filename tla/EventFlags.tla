----------------------------- MODULE EventFlags ----------------------------
(***************************************************************************)
(* rtos::event_flags (os-evflags.cpp), the flags of a thread               *)
(* (os-thread.cpp) and internal::event_flags (os-flags.cpp) that both are  *)
(* made of.  A raise sets the flags in one critical section and wakes      *)
(* afterwards: every waiter of an event flags object, the thread itself    *)
(* for its own flags.                                                      *)
(***************************************************************************)
EXTENDS Clocks

CONSTANTS Flags,        \* the bits of a mask
          EventObject,  \* the event flags object
          Prio,         \* the threads' effective priority
          NoThread

ASSUME FlagsAssumption ==
  /\ EventObject \notin Threads /\ NoThread \notin Threads
  /\ Prio \in [Threads -> Nat]

VARIABLES raised,   \* flags_mask_ of each object
          list,     \* list_ of the event flags object
          popped    \* the thread resume_all() unlinked, per caller

flagVars == <<raised, list, popped>>

Objects == Threads \union {EventObject}

\* The waits for flags, and raise() with the object it is called on.
WaitCalls == [kind : {"event", "thread", "plain"}, timed : BOOLEAN,
              mask : SUBSET Flags, all : BOOLEAN, clear : BOOLEAN]
RaiseCalls == [kind : {"raise"}, timed : {FALSE}, object : Objects]

FlagsInit ==
  /\ raised = [o \in Objects |-> {}]
  /\ list = <<>>
  /\ popped = [t \in Threads |-> NoThread]

\* The object a call of t waits on: "event" is event_flags, "thread" the
\* thread's own flags with a timeout, "plain" flags_wait() without one.
ObjectOf(t, c) == IF c.kind = "event" THEN EventObject ELSE t

IsFlagsWait(t) ==
  call[t] # NoCall /\ call[t].kind \in {"event", "thread", "plain"}

\* check_raised, without its effect; the empty mask is flags::any.
Raised(t, c) ==
  LET now == raised[ObjectOf(t, c)]
  IN  IF c.mask = {} THEN now # {}
      ELSE IF c.all THEN c.mask \subseteq now
           ELSE c.mask \intersect now # {}

\* check_raised, when it says yes.
Consume(t, c) ==
  /\ Raised(t, c)
  /\ raised' = [raised EXCEPT ![ObjectOf(t, c)] =
                  IF ~ c.clear THEN @ ELSE IF c.mask = {} THEN {} ELSE @ \ c.mask]

NotRaised(t, c) == ~ Raised(t, c) /\ UNCHANGED raised
-----------------------------------------------------------------------------
\* try_wait(), or the test before the loop.
WaitReturnsAtOnce(t, c) ==
  /\ At(t, "app")
  /\ Consume(t, c)
  /\ UNCHANGED <<clockVars, threadVars, list, popped>>

WaitEnters(t, c, d) ==
  /\ At(t, "app")
  /\ NotRaised(t, c)
  /\ Begin(t, "loop", c)
  /\ SetStamp(t, IF c.timed THEN d ELSE 0)
  /\ UNCHANGED <<clockList, checking, suspended, list, popped>>

WaitReturns(t) ==
  /\ At(t, "loop") /\ IsFlagsWait(t)
  /\ Consume(t, call[t])
  /\ Return(t)
  /\ SetStamp(t, 0)
  /\ UNCHANGED <<clockList, checking, suspended, list, popped>>

\* Mutant: the nodes are linked on the strength of an earlier test.
WaitSuspendsUntested(t) ==
  /\ At(t, "loop") /\ IsFlagsWait(t) /\ call[t].kind # "plain"
  /\ list' = IF call[t].kind = "event" THEN Link(list, t, Prio) ELSE list
  /\ clockList' = IF call[t].timed THEN LinkStamp(clockList, t, stamp)
                  ELSE clockList
  /\ suspended' = suspended \union {t}
  /\ Goto(t, "asleep")
  /\ UNCHANGED <<raised, stamp, checking, call, popped>>

\* The nodes are linked in the critical section of the failed test.
WaitSuspends(t) ==
  /\ At(t, "loop") /\ IsFlagsWait(t) /\ call[t].kind # "plain"
  /\ NotRaised(t, call[t])
  /\ list' = IF call[t].kind = "event" THEN Link(list, t, Prio) ELSE list
  /\ clockList' = IF call[t].timed THEN LinkStamp(clockList, t, stamp)
                  ELSE clockList
  /\ suspended' = suspended \union {t}
  /\ Goto(t, "asleep")
  /\ UNCHANGED <<stamp, checking, call, popped>>

\* internal_flags_wait_ of a thread leaves the critical section of the test
\* and suspends in another one.
PlainTests(t) ==
  /\ At(t, "loop") /\ IsFlagsWait(t) /\ call[t].kind = "plain"
  /\ NotRaised(t, call[t])
  /\ Goto(t, "tested")
  /\ UNCHANGED <<clockVars, suspended, call, list, popped>>

PlainSuspends(t) ==
  /\ At(t, "tested")
  /\ suspended' = suspended \union {t}
  /\ Goto(t, "asleep")
  /\ UNCHANGED <<clockVars, call, flagVars>>

WaitUnlinks(t) ==
  /\ At(t, "asleep") /\ IsFlagsWait(t)
  /\ list' = Unlink(list, t)
  /\ clockList' = Unlink(clockList, t)
  /\ Goto(t, "woken")
  /\ UNCHANGED <<stamp, checking, suspended, call, raised, popped>>

\* ETIMEDOUT.
WaitGivesUp(t) ==
  /\ At(t, "woken") /\ IsFlagsWait(t)
  /\ call[t].timed /\ stamp[t] <= 0
  /\ Return(t)
  /\ SetStamp(t, 0)
  /\ UNCHANGED <<clockList, checking, suspended, flagVars>>

WaitsOn(t) ==
  /\ At(t, "woken") /\ IsFlagsWait(t)
  /\ call[t].timed => stamp[t] > 0
  /\ Goto(t, "loop")
  /\ UNCHANGED <<clockVars, suspended, call, flagVars>>
-----------------------------------------------------------------------------
\* raise() or flags_raise() by a thread: the flags first.
Raise(t, o, mask) ==
  /\ At(t, "app")
  /\ raised' = [raised EXCEPT ![o] = @ \union mask]
  /\ Begin(t, "raised", [kind |-> "raise", timed |-> FALSE, object |-> o])
  /\ UNCHANGED <<clockVars, suspended, list, popped>>

\* resume_all(), one thread at a time.
RaisePops(t) ==
  /\ At(t, "raised") /\ call[t].object = EventObject
  /\ list # <<>>
  /\ popped' = [popped EXCEPT ![t] = Head(list)]
  /\ list' = Tail(list)
  /\ Goto(t, "resuming")
  /\ UNCHANGED <<clockVars, suspended, call, raised>>

RaiseResumes(t) ==
  /\ At(t, "resuming")
  /\ suspended' = suspended \ {popped[t]}
  /\ popped' = [popped EXCEPT ![t] = NoThread]
  /\ Goto(t, "raised")
  /\ UNCHANGED <<clockVars, call, raised, list>>

RaiseReturns(t) ==
  /\ At(t, "raised")
  /\ \/ call[t].object = EventObject /\ list = <<>> /\ UNCHANGED suspended
     \/ call[t].object \in Threads /\ suspended' = suspended \ {call[t].object}
  /\ Return(t)
  /\ UNCHANGED <<clockVars, flagVars>>

\* The same in an interrupt service routine: no thread runs in between.
RaiseInISR(o, mask) ==
  /\ raised' = [raised EXCEPT ![o] = @ \union mask]
  /\ list' = IF o = EventObject THEN <<>> ELSE list
  /\ suspended' = suspended \ (IF o = EventObject THEN ToSet(list) ELSE {o})
  /\ UNCHANGED popped

\* clear(), and get() with mode::clear.
Clear(t, o, mask) ==
  /\ At(t, "app")
  /\ raised' = [raised EXCEPT ![o] = @ \ mask]
  /\ UNCHANGED <<clockVars, threadVars, list, popped>>
=============================================================================
