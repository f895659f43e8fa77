------------------------------ MODULE Kernel -------------------------------
(***************************************************************************)
(* The scheduler and the life of a thread: os-core.cpp, os-thread.cpp,     *)
(* os-idle.cpp and the ready and terminated lists of os-lists.cpp.         *)
(*                                                                         *)
(* One processor: only the current thread takes steps, one action for each *)
(* interrupts::critical_section or for each read or write of shared state  *)
(* outside one.  Interrupt routines take steps at any time; a pending      *)
(* context switch (the port's lowest priority exception) happens before    *)
(* the current thread takes its next step.                                 *)
(***************************************************************************)
EXTENDS KernelLists, FiniteSets

CONSTANTS Threads,      \* every thread object, Main and Idle among them
          Main,         \* the thread that runs os_main()
          Idle,         \* the thread that runs os_idle()
          Priorities,   \* the priorities that threads are given
          IdlePriority,
          Creatable,    \* threads the application creates
          Exiting,      \* threads whose function may return
          Joinable,     \* threads that may be joined
          Joiners,      \* threads that may join another
          Killable,     \* threads that may be killed
          Tunes,        \* pairs <<t, u>>: t changes the assigned priority of u
          Inheriting,   \* threads whose inherited priority is changed,
          Ceilings,     \* and the priorities that they inherit
          LateResume,   \* threads resumed even when they are ending
          LockUsers,    \* threads that lock the scheduler, or kill
          NoThread

ASSUME NamesAssumption ==
  {Main, Idle} \subseteq Threads /\ Main # Idle /\ NoThread \notin Threads
ASSUME PriorityAssumption ==
  /\ Priorities \subseteq Nat /\ Priorities # {} /\ IdlePriority \in Nat \ {0}
  /\ \A p \in Priorities : p > IdlePriority
  /\ Ceilings \subseteq Nat
ASSUME RolesAssumption ==
  /\ Creatable \subseteq Threads \ {Main, Idle}
  /\ Exiting \union Killable \subseteq Threads \ {Idle}
  /\ Joinable \union Joiners \subseteq Threads \ {Idle}
  /\ Inheriting \union LockUsers \subseteq Threads \ {Idle}
  /\ Tunes \subseteq (Threads \ {Idle}) \X (Threads \ {Idle})
  /\ LateResume \subseteq Threads

VARIABLES state,      \* state_ of each thread
          current,    \* scheduler::current_thread_
          ready,      \* scheduler::ready_threads_list_
          funeral,    \* scheduler::terminated_threads_list_
          assigned,   \* prio_assigned_
          inherited,  \* prio_inherited_, 0 for priority::none
          joiner,     \* joiner_
          locked,     \* the scheduler lock state
          switch,     \* the port's context switch request
          pc,         \* where each thread is
          arg,        \* the thread that its call is about
          corrupt     \* a list assertion failed

vars == <<state, current, ready, funeral, assigned, inherited, joiner, locked,
          switch, pc, arg, corrupt>>

lists == <<ready, funeral, corrupt>>
priorities == <<assigned, inherited>>

Init ==
  /\ state = [t \in Threads |-> IF t = Main THEN "running"
                              ELSE IF t = Idle THEN "ready"
                              ELSE "undefined"]
  /\ current = Main
  /\ ready = <<Idle>>
  /\ funeral = <<>>
  /\ \E p \in Priorities :
       assigned = [t \in Threads |-> IF t = Idle THEN IdlePriority ELSE p]
  /\ inherited = [t \in Threads |-> 0]
  /\ joiner = [t \in Threads |-> NoThread]
  /\ locked = FALSE
  /\ switch = "none"
  /\ pc = [t \in Threads |-> IF t = Idle THEN "idle_check" ELSE "app"]
  /\ arg = [t \in Threads |-> NoThread]
  /\ corrupt = FALSE
-----------------------------------------------------------------------------
\* thread::priority(): the larger of the assigned and the inherited one.
Priority ==
  [t \in Threads |-> IF inherited[t] > assigned[t] THEN inherited[t]
                                                   ELSE assigned[t]]

\* ready_node_ is in one of the two lists that share it.
Linked(t) == t \in ToSet(ready) \union ToSet(funeral)

\* The current thread takes its step at the given place.
At(t, label) ==
  /\ current = t
  /\ pc[t] = label
  /\ switch # "pending"
  /\ ~corrupt

Goto(t, label) == pc' = [pc EXCEPT ![t] = label] /\ UNCHANGED arg

GotoWith(t, label, u) ==
  pc' = [pc EXCEPT ![t] = label] /\ arg' = [arg EXCEPT ![t] = u]

\* port::scheduler::reschedule.
Reschedule == switch' = "pending"

\* Mutants: link without a look at next(); resume without a reschedule.
ResumeLinkedThread(u) ==
  /\ ready' = Link(ready, u, Priority)
  /\ state' = [state EXCEPT ![u] = "ready"]
  /\ Reschedule
  /\ UNCHANGED <<funeral, corrupt>>

ResumeQuietly(u) ==
  /\ IF Linked(u)
       THEN UNCHANGED <<ready, state>>
       ELSE /\ ready' = Link(ready, u, Priority)
            /\ state' = [state EXCEPT ![u] = "ready"]
  /\ UNCHANGED <<funeral, corrupt, switch>>

\* thread::resume: its critical section, and the request that follows.
ResumeThread(u) ==
  /\ IF Linked(u)
       THEN UNCHANGED <<ready, state>>
       ELSE /\ ready' = Link(ready, u, Priority)
            /\ state' = [state EXCEPT ![u] = "ready"]
  /\ Reschedule
  /\ UNCHANGED <<funeral, corrupt>>

\* unlink() of a ready_node_, in whichever list it is.
UnlinkReadyNode(u) ==
  /\ ready' = Unlink(ready, u)
  /\ funeral' = Unlink(funeral, u)

\* internal_suspend_, called by the current thread for itself.
SuspendSelf(t) ==
  /\ ready' = Unlink(ready, t)
  /\ state' = [state EXCEPT ![t] = "suspended"]
  /\ Reschedule
  /\ UNCHANGED <<funeral, corrupt>>
-----------------------------------------------------------------------------
\* Mutants: relinks a thread in any state; relinks it ahead of its equals.
CandidatesAnyState ==
  IF ~ Linked(current) THEN Link(ready, current, Priority) ELSE ready

CandidatesAhead ==
  IF state[current] = "running" /\ ~ Linked(current)
  THEN LET ahead == SelectSeq(ready, LAMBDA t : Priority[t] > Priority[current])
       IN  ahead \o <<current>> \o SubSeq(ready, Len(ahead) + 1, Len(ready))
  ELSE ready

\* internal_switch_threads, with internal_relink_running_ and unlink_head.
Candidates ==
  IF state[current] = "running" /\ ~ Linked(current)
  THEN Link(ready, current, Priority)
  ELSE ready

\* Mutant: the new thread is not marked as running by unlink_head.
SwitchThreadsUnmarked ==
  /\ switch = "pending"
  /\ ~locked
  /\ switch' = "none"
  /\ Candidates # <<>>
  /\ current' = Head(Candidates)
  /\ ready' = Tail(Candidates)
  /\ state' = [state EXCEPT ![current] =
                             IF @ = "running" THEN "ready" ELSE @]
  /\ UNCHANGED <<funeral, priorities, joiner, locked, pc, arg, corrupt>>

SwitchThreads ==
  /\ switch = "pending"
  /\ ~locked
  /\ switch' = "none"
  /\ Candidates # <<>>
  /\ current' = Head(Candidates)
  /\ ready' = Tail(Candidates)
  /\ state' = [t \in Threads |->
                 IF t = Head(Candidates) THEN "running"
                 ELSE IF t = current /\ state[t] = "running" THEN "ready"
                 ELSE state[t]]
  /\ UNCHANGED <<funeral, priorities, joiner, locked, pc, arg, corrupt>>

\* The same with the scheduler locked: nothing happens, and nobody asks
\* again when it is unlocked.
SwitchRefused ==
  /\ switch = "pending"
  /\ locked
  /\ switch' = "refused"
  /\ UNCHANGED <<state, current, lists, priorities, joiner, locked, pc, arg>>

\* os_systick_handler: apart from the timeouts, it asks for a switch.
Tick ==
  /\ ~corrupt
  /\ Reschedule
  /\ UNCHANGED <<state, current, lists, priorities, joiner, locked, pc, arg>>

\* A thread that is on its way out, or out.
Ending(u) ==
  \/ pc[u] \in {"unlinked", "bury", "gone"}
  \/ \E t \in Threads : arg[t] = u /\ pc[t] \in {"destroy", "idle_destroy"}

MayResume(u) ==
  /\ state[u] \notin {"undefined", "destroyed"}
  /\ u \in LateResume \/ ~ Ending(u)

\* resume() from an interrupt routine: a post, a raised flag, a timeout.
ResumeFromISR(u) ==
  /\ ~corrupt
  /\ MayResume(u)
  /\ u # Idle
  /\ ResumeThread(u)
  /\ UNCHANGED <<current, priorities, joiner, locked, pc, arg>>
-----------------------------------------------------------------------------
\* thread::internal_construct_: under the scheduler lock up to resume(), and
\* then a yield; the new thread is known to nobody else yet.
CreateThread(t, u, p) ==
  /\ At(t, "app")
  /\ state[u] = "undefined"
  /\ assigned' = [assigned EXCEPT ![u] = p]
  /\ state' = [state EXCEPT ![u] = "ready"]
  /\ ready' = Link(ready, u, [Priority EXCEPT ![u] = p])
  /\ Goto(t, "yield")
  /\ UNCHANGED <<current, funeral, inherited, joiner, locked, switch, corrupt>>

\* this_thread::yield().
Yield(t) ==
  /\ At(t, "yield")
  /\ Reschedule
  /\ Goto(t, "app")
  /\ UNCHANGED <<state, current, lists, priorities, joiner, locked>>

\* A call that blocks: the thread suspends itself until somebody resumes it.
Suspend(t) ==
  /\ At(t, "app")
  /\ ~locked
  /\ SuspendSelf(t)
  /\ UNCHANGED <<current, priorities, joiner, locked, pc, arg>>

Resume(t, u) ==
  /\ At(t, "app")
  /\ MayResume(u)
  /\ ResumeThread(u)
  /\ UNCHANGED <<current, priorities, joiner, locked, pc, arg>>

\* scheduler::critical_section of the application.
LockScheduler(t) ==
  /\ At(t, "app")
  /\ ~locked
  /\ locked' = TRUE
  /\ UNCHANGED <<state, current, lists, priorities, joiner, switch, pc, arg>>

UnlockScheduler(t) ==
  /\ At(t, "app")
  /\ locked
  /\ locked' = FALSE
  /\ UNCHANGED <<state, current, lists, priorities, joiner, switch, pc, arg>>
-----------------------------------------------------------------------------
\* thread::priority(prio) on u: the assignment, then the test of state_, both
\* outside the critical section that moves u within the ready list.
SetPriority(t, u, p) ==
  /\ At(t, "app")
  /\ state[u] \notin {"undefined", "destroyed"}
  /\ assigned[u] # p
  /\ assigned' = [assigned EXCEPT ![u] = p]
  /\ GotoWith(t, "changed", u)
  /\ UNCHANGED <<state, current, lists, inherited, joiner, locked, switch>>

\* thread::priority_inherited(prio), as a mutex calls it: to raise the
\* owner, or to lower the calling thread itself.
SetInherited(t, u, p) ==
  /\ At(t, "app")
  /\ state[u] \notin {"undefined", "destroyed"}
  /\ p # inherited[u]
  /\ p > Priority[u] \/ u = t
  /\ inherited' = [inherited EXCEPT ![u] = p]
  /\ IF p < assigned[u] THEN UNCHANGED <<pc, arg>>
                        ELSE GotoWith(t, "changed", u)
  /\ UNCHANGED <<state, current, lists, assigned, joiner, locked, switch>>

TestReady(t) ==
  /\ At(t, "changed")
  /\ Goto(t, IF state[arg[t]] = "ready" THEN "relink" ELSE "yield")
  /\ UNCHANGED <<state, current, lists, priorities, joiner, locked, switch>>

\* The critical section of both: unlink and link again.
RelinkReady(t) ==
  /\ At(t, "relink")
  /\ funeral' = Unlink(funeral, arg[t])
  /\ ready' = Link(Unlink(ready, arg[t]), arg[t], Priority)
  /\ state' = [state EXCEPT ![arg[t]] = "ready"]
  /\ Goto(t, "yield")
  /\ UNCHANGED <<current, priorities, joiner, locked, switch, corrupt>>
-----------------------------------------------------------------------------
\* thread::internal_exit_: the first half, under the scheduler lock, which an
\* interrupt may follow before it is given back.
ExitUnlink(t) ==
  /\ At(t, "app")
  /\ ~locked
  /\ locked' = TRUE
  /\ UnlinkReadyNode(t)
  /\ Goto(t, "unlinked")
  /\ UNCHANGED <<state, current, priorities, joiner, switch, corrupt>>

ExitUnlock(t) ==
  /\ At(t, "unlinked")
  /\ locked' = FALSE
  /\ Goto(t, "bury")
  /\ UNCHANGED <<state, current, lists, priorities, joiner, switch>>

\* The second half: ready_node_ goes to the terminated list, and must not be
\* linked any more.
ExitBury(t) ==
  /\ At(t, "bury")
  /\ IF Linked(t)
       THEN corrupt' = TRUE /\ UNCHANGED <<state, funeral, switch>>
       ELSE /\ funeral' = Append(funeral, t)
            /\ state' = [state EXCEPT ![t] = "terminated"]
            /\ Reschedule
            /\ UNCHANGED corrupt
  /\ Goto(t, "gone")
  /\ UNCHANGED <<current, ready, priorities, joiner, locked>>

Joining(t) == pc[t] \in {"join_test", "join_set", "join_suspend"}

\* thread::join: one thread at a time joins u (the results of simultaneous
\* calls are undefined).  The test of state_, the assignment of joiner_ and the
\* suspension are three steps.
JoinCall(t, u) ==
  /\ At(t, "app")
  /\ ~locked
  /\ u # t
  /\ state[u] # "undefined"
  /\ \A v \in Threads : Joining(v) => arg[v] # u
  /\ GotoWith(t, "join_test", u)
  /\ UNCHANGED <<state, current, lists, priorities, joiner, locked, switch>>

JoinTest(t) ==
  /\ At(t, "join_test")
  /\ IF state[arg[t]] = "destroyed"
       THEN GotoWith(t, "app", NoThread)
       ELSE Goto(t, "join_set")
  /\ UNCHANGED <<state, current, lists, priorities, joiner, locked, switch>>

JoinSet(t) ==
  /\ At(t, "join_set")
  /\ joiner' = [joiner EXCEPT ![arg[t]] = t]
  /\ Goto(t, "join_suspend")
  /\ UNCHANGED <<state, current, lists, priorities, locked, switch>>

JoinSuspend(t) ==
  /\ At(t, "join_suspend")
  /\ SuspendSelf(t)
  /\ Goto(t, "join_test")
  /\ UNCHANGED <<current, priorities, joiner, locked>>
-----------------------------------------------------------------------------
\* Mutant: ready_node_ stays linked.
KillLeavesNode(t, u) ==
  /\ At(t, "app")
  /\ ~locked
  /\ u # t
  /\ state[u] \notin {"undefined", "destroyed"}
  /\ locked' = TRUE
  /\ GotoWith(t, "destroy", u)
  /\ UNCHANGED <<state, current, lists, priorities, joiner, switch>>

\* thread::kill on another thread: the scheduler stays locked throughout, and
\* interrupts are masked while the nodes are unlinked.
KillUnlink(t, u) ==
  /\ At(t, "app")
  /\ ~locked
  /\ u # t
  /\ state[u] \notin {"undefined", "destroyed"}
  /\ locked' = TRUE
  /\ UnlinkReadyNode(u)
  /\ GotoWith(t, "destroy", u)
  /\ UNCHANGED <<state, current, priorities, joiner, switch, corrupt>>

\* internal_destroy_: the state, then the joiner.
Destroy(t, here, next) ==
  /\ At(t, here)
  /\ state' = [state EXCEPT ![arg[t]] = "destroyed"]
  /\ Goto(t, next)
  /\ UNCHANGED <<current, lists, priorities, joiner, locked, switch>>

\* Mutant: looks at the joiner of the wrong thread.
WakeOwnJoiner(t) ==
  IF joiner[t] = NoThread
  THEN UNCHANGED <<state, lists, switch>>
  ELSE ResumeThread(joiner[t])

WakeJoiner(t) ==
  IF joiner[arg[t]] = NoThread
  THEN UNCHANGED <<state, lists, switch>>
  ELSE ResumeThread(joiner[arg[t]])

KillDestroy(t) == Destroy(t, "destroy", "wake_joiner")

KillWakeJoiner(t) ==
  /\ At(t, "wake_joiner")
  /\ WakeJoiner(t)
  /\ locked' = FALSE
  /\ GotoWith(t, "app", NoThread)
  /\ UNCHANGED <<current, priorities, joiner>>

\* os_idle and os_rtos_idle_actions: the terminated list is looked at and
\* its head unlinked in separate steps; without work the processor waits for
\* an interrupt, and the loop yields in either case.
IdleCheck ==
  /\ At(Idle, "idle_check")
  /\ funeral # <<>>
  /\ Goto(Idle, "idle_pop")
  /\ UNCHANGED <<state, current, lists, priorities, joiner, locked, switch>>

IdleWait ==
  /\ At(Idle, "idle_check")
  /\ funeral = <<>>
  /\ Reschedule
  /\ UNCHANGED <<state, current, lists, priorities, joiner, locked, pc, arg>>

\* Mutant: destroys only threads that somebody joins.
IdlePopJoined ==
  /\ At(Idle, "idle_pop")
  /\ IF funeral = <<>>
       THEN corrupt' = TRUE /\ UNCHANGED <<funeral, pc, arg>>
       ELSE /\ funeral' = Tail(funeral)
            /\ IF joiner[Head(funeral)] = NoThread
                 THEN GotoWith(Idle, "idle_yield", NoThread)
                 ELSE GotoWith(Idle, "idle_destroy", Head(funeral))
            /\ UNCHANGED corrupt
  /\ UNCHANGED <<state, current, ready, priorities, joiner, locked, switch>>

IdlePop ==
  /\ At(Idle, "idle_pop")
  /\ IF funeral = <<>>
       THEN corrupt' = TRUE /\ UNCHANGED <<funeral, pc, arg>>
       ELSE /\ funeral' = Tail(funeral)
            /\ GotoWith(Idle, "idle_destroy", Head(funeral))
            /\ UNCHANGED corrupt
  /\ UNCHANGED <<state, current, ready, priorities, joiner, locked, switch>>

IdleDestroy == Destroy(Idle, "idle_destroy", "idle_wake_joiner")

\* Mutant: resumes joiner_ even if it is null.
IdleWakeAnyJoiner ==
  /\ At(Idle, "idle_wake_joiner")
  /\ ResumeThread(joiner[arg[Idle]])
  /\ GotoWith(Idle, "idle_yield", NoThread)
  /\ UNCHANGED <<current, priorities, joiner, locked>>

IdleWakeJoiner ==
  /\ At(Idle, "idle_wake_joiner")
  /\ WakeJoiner(Idle)
  /\ GotoWith(Idle, "idle_yield", NoThread)
  /\ UNCHANGED <<current, priorities, joiner, locked>>

IdleYield ==
  /\ At(Idle, "idle_yield")
  /\ Reschedule
  /\ Goto(Idle, "idle_check")
  /\ UNCHANGED <<state, current, lists, priorities, joiner, locked>>
-----------------------------------------------------------------------------
\* Steps inside a kernel call, which no application decides.
InsideCall(t) ==
  \/ Yield(t) \/ TestReady(t) \/ RelinkReady(t)
  \/ ExitUnlock(t) \/ ExitBury(t)
  \/ JoinTest(t) \/ JoinSet(t) \/ JoinSuspend(t)
  \/ KillDestroy(t) \/ KillWakeJoiner(t)

IdleLoop ==
  \/ IdleCheck \/ IdleWait \/ IdlePop
  \/ IdleDestroy \/ IdleWakeJoiner \/ IdleYield

Application(t) ==
  \/ \E u \in Creatable, p \in Priorities : CreateThread(t, u, p)
  \/ Suspend(t)
  \/ \E u \in Threads \ {Idle} : Resume(t, u)
  \/ t \in LockUsers /\ LockScheduler(t)
  \/ UnlockScheduler(t)
  \/ \E u \in Threads, p \in Priorities :
       <<t, u>> \in Tunes /\ SetPriority(t, u, p)
  \/ \E u \in Inheriting, p \in Ceilings \union {0} : SetInherited(t, u, p)
  \/ t \in Exiting /\ ExitUnlink(t)
  \/ t \in Joiners /\ \E u \in Joinable : JoinCall(t, u)
  \/ t \in LockUsers /\ \E u \in Killable : KillUnlink(t, u)

Next ==
  \/ \E t \in Threads \ {Idle} : Application(t) \/ InsideCall(t)
  \/ IdleLoop
  \/ SwitchThreads
  \/ SwitchRefused
  \/ Tick
  \/ \E u \in Threads : ResumeFromISR(u)

Spec == Init /\ [][Next]_vars

\* A requested switch happens; the scheduler lock is given back, and now and
\* then the clock ticks while it is free; ticks leave the thread that runs
\* time for its next step in the kernel, and the idle thread likewise.
Fairness ==
  /\ WF_vars(SwitchThreads \/ SwitchRefused)
  /\ SF_vars(~ locked /\ Tick)
  /\ SF_vars(\E t \in Threads : UnlockScheduler(t))
  /\ SF_vars(\E t \in Threads : InsideCall(t))
  /\ SF_vars(IdleLoop)

FairSpec == Spec /\ Fairness
-----------------------------------------------------------------------------
\* Type invariant.
TypeOK ==
  /\ state \in [Threads -> {"undefined", "ready", "running", "suspended",
                            "terminated", "destroyed"}]
  /\ current \in Threads
  /\ ready \in Seq(Threads)
  /\ funeral \in Seq(Threads)
  /\ assigned \in [Threads -> Nat]
  /\ inherited \in [Threads -> Nat]
  /\ joiner \in [Threads -> Threads \union {NoThread}]
  /\ locked \in BOOLEAN
  /\ switch \in {"none", "pending", "refused"}
  /\ pc \in [Threads -> {"app", "yield", "changed", "relink", "unlinked",
                         "bury", "gone", "join_test", "join_set",
                         "join_suspend", "destroy", "wake_joiner",
                         "idle_check", "idle_pop", "idle_destroy",
                         "idle_wake_joiner", "idle_yield"}]
  /\ arg \in [Threads -> Threads \union {NoThread}]
  /\ corrupt \in BOOLEAN

\* The assertions of the intrusive lists hold (a node that is linked is not
\* already linked, the head of an empty list is not taken), and the two
\* lists that share ready_node_ never share a node.
ListsSound ==
  /\ ~ corrupt
  /\ NoDuplicates(ready \o funeral)

\* No thread is lost: a thread marked ready is in the ready list and one
\* marked running is the current thread, unless it is just being destroyed;
\* and nothing but ready threads is in the ready list.
BeingDestroyed(t) ==
  \E u \in Threads : pc[u] = "destroy" /\ arg[u] = t

NoThreadLost ==
  \A t \in Threads :
    /\ t \in ToSet(ready) => state[t] = "ready"
    /\ t \in ToSet(funeral) => state[t] = "terminated"
    /\ state[t] = "ready" => t \in ToSet(ready) \/ BeingDestroyed(t)
    /\ state[t] = "running" => t = current \/ BeingDestroyed(t)

\* A thread is between changing a priority and moving the node.
Moving == \E t \in Threads : pc[t] \in {"changed", "relink"}

\* The ready list is in the order of the effective priorities, except while
\* a priority is being changed.
ReadySorted ==
  ~ Moving => SortedByPriority(ready, Priority)

\* The most urgent thread runs: outside of a priority change and of a
\* request that the scheduler lock has refused, no ready thread is more
\* urgent than the one that executes.
MostUrgentRuns ==
  (/\ switch = "none"
   /\ ~ Moving
   /\ pc[current] # "yield")
  => \A t \in ToSet(ready) : Priority[t] <= Priority[current]

AsleepInJoin(t) == pc[t] = "join_test" /\ state[t] = "suspended"

AboutToBeWoken(t) ==
  /\ joiner[arg[t]] = t
  /\ \E u \in Threads : /\ arg[u] = arg[t]
                        /\ pc[u] \in {"wake_joiner", "idle_wake_joiner"}

\* join() suspends the calling thread until the target thread terminates,
\* unless it has already terminated: a thread asleep in it has a target that
\* lives, or whoever destroyed the target is about to wake the sleeper.
JoinersAreWoken ==
  \A t \in Threads :
    AsleepInJoin(t) /\ state[arg[t]] = "destroyed" => AboutToBeWoken(t)

\* The end of a thread, killed or not, wakes whoever sleeps in join() on it:
\* no step leaves a sleeper behind whose target still lived, or that was just
\* about to be woken.
WillReturn(t) == state[arg[t]] # "destroyed" \/ AboutToBeWoken(t)

EndWakesJoiner ==
  [][\A t \in Threads :
       AsleepInJoin(t) /\ WillReturn(t) => ~ AsleepInJoin(t)' \/ WillReturn(t)'
    ]_vars

\* A thread that has ended never runs again.
NobodyComesBack ==
  [][\A t \in Threads :
       /\ state[t] = "destroyed" => state'[t] = "destroyed"
       /\ state[t] = "terminated" => state'[t] \in {"terminated", "destroyed"}
    ]_vars

\* Threads of the same priority take turns: the clock makes the processor go
\* round the most urgent ready threads.
Top(t) ==
  /\ t \in ToSet(ready)
  /\ \A u \in ToSet(ready) \union {current} : Priority[u] <= Priority[t]

EqualsTakeTurns ==
  \A t \in Threads :
    Top(t) ~> ~ Top(t) \/ Moving

\* The idle thread destroys every terminated thread, if it gets to run.
TerminatedAreDestroyed ==
  []<>(current = Idle)
    => \A t \in Threads : (state[t] = "terminated") ~> (state[t] = "destroyed")
=============================================================================
