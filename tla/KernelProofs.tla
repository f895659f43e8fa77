---------------------------- MODULE KernelProofs ----------------------------
(***************************************************************************)
(* The scheduler and the life of a thread, for every set of threads and    *)
(* every choice of who creates, joins, kills and tunes whom.               *)
(***************************************************************************)
EXTENDS Kernel, KernelListsProofs

-----------------------------------------------------------------------------
(* What holds of any program: types, two lists that share no node, and no  *)
(* reference to a thread that does not exist yet.                          *)

\* The call at this place is about another thread.
Targeted == {"changed", "relink", "join_test", "join_set", "join_suspend",
             "destroy", "wake_joiner", "idle_destroy", "idle_wake_joiner"}

Apart ==
  /\ NoDuplicates(ready) /\ NoDuplicates(funeral)
  /\ ToSet(ready) \intersect ToSet(funeral) = {}

ReferencesKnown ==
  /\ \A t \in Threads : pc[t] \in Targeted => arg[t] # NoThread
  /\ \A t \in Threads : arg[t] # NoThread => state[arg[t]] # "undefined"
  /\ \A t \in Threads : joiner[t] # NoThread => state[joiner[t]] # "undefined"
  /\ \A t \in ToSet(ready) \union ToSet(funeral) \union {current} :
       state[t] # "undefined"

Base == TypeOK /\ Apart /\ ReferencesKnown

\* The effective priority of a thread is a number.
LEMMA PriorityType == TypeOK => Priority \in [Threads -> Nat]
BY DEF TypeOK, Priority

\* The lists hold threads.
LEMMA ListedThreads ==
  TypeOK => ToSet(ready) \subseteq Threads /\ ToSet(funeral) \subseteq Threads
<1>1. ASSUME NEW l \in Seq(Threads)
      PROVE  ToSet(l) \subseteq Threads
  BY <1>1 DEF ToSet
<1>. QED  BY <1>1 DEF TypeOK

\* Link for the ready list.
LEMMA LinkReady ==
  ASSUME NEW l \in Seq(Threads), NEW t \in Threads,
         NEW prio \in [Threads -> Nat],
         NoDuplicates(l), t \notin ToSet(l)
  PROVE  /\ Link(l, t, prio) \in Seq(Threads)
         /\ ToSet(Link(l, t, prio)) = ToSet(l) \union {t}
         /\ NoDuplicates(Link(l, t, prio))
BY LinkElements

\* Appending a thread that is not in the terminated list adds just it.
LEMMA AppendElements ==
  ASSUME NEW S, NEW l \in Seq(S), NEW t \in S,
         NoDuplicates(l), t \notin ToSet(l)
  PROVE  /\ Append(l, t) \in Seq(S)
         /\ ToSet(Append(l, t)) = ToSet(l) \union {t}
         /\ NoDuplicates(Append(l, t))
<1>. DEFINE new == Append(l, t)
<1>1. /\ new \in Seq(S) /\ DOMAIN new = 1..(Len(l) + 1)
      /\ \A i \in DOMAIN l : i \in DOMAIN new /\ new[i] = l[i]
      /\ new[Len(l) + 1] = t /\ Len(l) \in Nat
      /\ DOMAIN l = 1..Len(l)
  OBVIOUS
<1>. HIDE DEF new
<1>2. \A i \in DOMAIN new : i \in DOMAIN l \/ i = Len(l) + 1
  BY <1>1
<1>3. ToSet(new) = ToSet(l) \union {t}
  BY <1>1, <1>2 DEF ToSet
<1>4. NoDuplicates(new)
  <2>1. \A i \in DOMAIN l : l[i] # t
    BY DEF ToSet
  <2>. QED  BY <1>1, <1>2, <2>1 DEF NoDuplicates
<1>. QED  BY <1>1, <1>3, <1>4 DEF new

\* The effect of thread creation on the ready list.
LEMMA CreateEffect ==
  ASSUME TypeOK, Apart, ReferencesKnown,
         NEW t \in Threads, NEW u \in Creatable, NEW p \in Priorities,
         CreateThread(t, u, p)
  PROVE  /\ u \in Threads /\ p \in Nat /\ u \notin ToSet(funeral)
         /\ ready' \in Seq(Threads) /\ NoDuplicates(ready')
         /\ ToSet(ready') = ToSet(ready) \union {u}
<1>1. /\ u \in Threads /\ p \in Nat /\ u \notin ToSet(ready)
      /\ u \notin ToSet(funeral)
      /\ ready' = Link(ready, u, [Priority EXCEPT ![u] = p])
  BY PriorityAssumption, RolesAssumption DEF CreateThread, ReferencesKnown
<1>2. /\ [Priority EXCEPT ![u] = p] \in [Threads -> Nat]
      /\ ready \in Seq(Threads) /\ NoDuplicates(ready)
  BY <1>1, PriorityType DEF TypeOK, Apart
<1>. QED  BY <1>1, <1>2, LinkReady

\* The effect of thread::resume on the lists and the states.
LEMMA ResumeEffect ==
  ASSUME TypeOK, Apart, NEW u \in Threads, ResumeThread(u)
  PROVE  /\ ready' \in Seq(Threads) /\ NoDuplicates(ready')
         /\ ToSet(ready') = IF Linked(u) THEN ToSet(ready)
                                         ELSE ToSet(ready) \union {u}
         /\ state' = IF Linked(u) THEN state
                                  ELSE [state EXCEPT ![u] = "ready"]
         /\ funeral' = funeral /\ corrupt' = corrupt /\ switch' = "pending"
<1>1. CASE Linked(u)
  BY <1>1 DEF ResumeThread, TypeOK, Apart, Reschedule
<1>2. CASE ~ Linked(u)
  <2>1. /\ ready' = Link(ready, u, Priority)
        /\ state' = [state EXCEPT ![u] = "ready"]
        /\ funeral' = funeral /\ corrupt' = corrupt /\ switch' = "pending"
    BY <1>2 DEF ResumeThread, Reschedule
  <2>2. /\ ready \in Seq(Threads) /\ NoDuplicates(ready)
        /\ u \notin ToSet(ready) /\ Priority \in [Threads -> Nat]
    BY <1>2, PriorityType DEF TypeOK, Apart, Linked
  <2>3. /\ Link(ready, u, Priority) \in Seq(Threads)
        /\ ToSet(Link(ready, u, Priority)) = ToSet(ready) \union {u}
        /\ NoDuplicates(Link(ready, u, Priority))
    BY <2>2, LinkReady
  <2>. QED  BY <1>2, <2>1, <2>3
<1>. QED  BY <1>1, <1>2

\* The threads among which internal_switch_threads chooses.
LEMMA CandidatesEffect ==
  ASSUME TypeOK, Apart
  PROVE  /\ Candidates \in Seq(Threads) /\ NoDuplicates(Candidates)
         /\ ToSet(Candidates) =
              IF state[current] = "running" /\ ~ Linked(current)
              THEN ToSet(ready) \union {current} ELSE ToSet(ready)
<1>1. CASE state[current] = "running" /\ ~ Linked(current)
  <2>1. /\ ready \in Seq(Threads) /\ NoDuplicates(ready)
        /\ current \in Threads /\ current \notin ToSet(ready)
        /\ Priority \in [Threads -> Nat]
    BY <1>1, PriorityType DEF TypeOK, Apart, Linked
  <2>2. Candidates = Link(ready, current, Priority)
    BY <1>1 DEF Candidates
  <2>. QED  BY <1>1, <2>1, <2>2, LinkReady
<1>2. CASE ~ (state[current] = "running" /\ ~ Linked(current))
  BY <1>2 DEF Candidates, TypeOK, Apart
<1>. QED  BY <1>1, <1>2

\* The effect of internal_switch_threads.
LEMMA SwitchEffect ==
  ASSUME TypeOK, Apart, SwitchThreads
  PROVE  /\ current' \in Threads /\ current' = Head(Candidates)
         /\ current' \in ToSet(Candidates)
         /\ ready' \in Seq(Threads) /\ NoDuplicates(ready')
         /\ ToSet(ready') = ToSet(Candidates) \ {current'}
         /\ state' \in [Threads -> {"undefined", "ready", "running",
                          "suspended", "terminated", "destroyed"}]
         /\ \A t \in Threads :
              state'[t] = IF t = current' THEN "running"
                          ELSE IF t = current /\ state[t] = "running"
                          THEN "ready" ELSE state[t]
<1>1. /\ Candidates \in Seq(Threads) /\ NoDuplicates(Candidates)
      /\ Candidates # <<>>
  BY CandidatesEffect DEF SwitchThreads
<1>2. /\ Head(Candidates) \in Threads
      /\ Head(Candidates) \in ToSet(Candidates)
      /\ Tail(Candidates) \in Seq(Threads)
      /\ ToSet(Tail(Candidates)) = ToSet(Candidates) \ {Head(Candidates)}
      /\ NoDuplicates(Tail(Candidates))
  BY <1>1, TailElements
<1>3. /\ current' = Head(Candidates) /\ ready' = Tail(Candidates)
      /\ state' = [t \in Threads |->
                    IF t = Head(Candidates) THEN "running"
                    ELSE IF t = current /\ state[t] = "running" THEN "ready"
                    ELSE state[t]]
  BY DEF SwitchThreads
<1>. HIDE DEF Candidates
<1>4. \A t \in Threads :
        state'[t] = IF t = current' THEN "running"
                    ELSE IF t = current /\ state[t] = "running"
                    THEN "ready" ELSE state[t]
  BY <1>3
<1>5. state' \in [Threads -> {"undefined", "ready", "running", "suspended",
                              "terminated", "destroyed"}]
  BY <1>3 DEF TypeOK
<1>. QED  BY <1>2, <1>3, <1>4, <1>5
\* The effect of unlink() of a ready_node_.
LEMMA UnlinkEffect ==
  ASSUME TypeOK, Apart, NEW u \in Threads, UnlinkReadyNode(u)
  PROVE  /\ ready' \in Seq(Threads) /\ funeral' \in Seq(Threads)
         /\ Apart'
         /\ ToSet(ready') = ToSet(ready) \ {u}
         /\ ToSet(funeral') = ToSet(funeral) \ {u}
<1>1. /\ ready \in Seq(Threads) /\ NoDuplicates(ready)
      /\ funeral \in Seq(Threads) /\ NoDuplicates(funeral)
      /\ ready' = Unlink(ready, u) /\ funeral' = Unlink(funeral, u)
  BY DEF TypeOK, Apart, UnlinkReadyNode
<1>2. /\ ready' \in Seq(Threads) /\ NoDuplicates(ready')
      /\ ToSet(ready') = ToSet(ready) \ {u}
  BY <1>1, UnlinkElements
<1>3. /\ funeral' \in Seq(Threads) /\ NoDuplicates(funeral')
      /\ ToSet(funeral') = ToSet(funeral) \ {u}
  BY <1>1, UnlinkElements
<1>. QED  BY <1>2, <1>3 DEF Apart

\* The effect of internal_suspend_.
LEMMA SuspendEffect ==
  ASSUME TypeOK, Apart, NEW t \in Threads, SuspendSelf(t)
  PROVE  /\ ready' \in Seq(Threads) /\ Apart'
         /\ ToSet(ready') = ToSet(ready) \ {t}
         /\ state' = [state EXCEPT ![t] = "suspended"]
         /\ funeral' = funeral /\ corrupt' = corrupt /\ switch' = "pending"
<1>1. /\ ready \in Seq(Threads) /\ NoDuplicates(ready)
      /\ ready' = Unlink(ready, t)
      /\ state' = [state EXCEPT ![t] = "suspended"]
      /\ funeral' = funeral /\ corrupt' = corrupt /\ switch' = "pending"
  BY DEF TypeOK, Apart, SuspendSelf, Reschedule
<1>2. /\ ready' \in Seq(Threads) /\ NoDuplicates(ready')
      /\ ToSet(ready') = ToSet(ready) \ {t}
  BY <1>1, UnlinkElements
<1>. QED  BY <1>1, <1>2 DEF Apart

\* The effect of moving a node within the ready list.
LEMMA RelinkEffect ==
  ASSUME TypeOK, Apart, NEW t \in Threads, RelinkReady(t), arg[t] \in Threads
  PROVE  /\ ready' \in Seq(Threads) /\ funeral' \in Seq(Threads)
         /\ Apart'
         /\ ToSet(ready') = ToSet(ready) \union {arg[t]}
         /\ ToSet(funeral') = ToSet(funeral) \ {arg[t]}
<1>. DEFINE u == arg[t]
            rest == Unlink(ready, u)
<1>1. /\ ready \in Seq(Threads) /\ NoDuplicates(ready)
      /\ funeral \in Seq(Threads) /\ NoDuplicates(funeral)
      /\ Priority \in [Threads -> Nat]
      /\ ready' = Link(rest, u, Priority) /\ funeral' = Unlink(funeral, u)
  BY PriorityType DEF TypeOK, Apart, RelinkReady
<1>2. /\ rest \in Seq(Threads) /\ NoDuplicates(rest)
      /\ ToSet(rest) = ToSet(ready) \ {u}
  BY <1>1, UnlinkElements
<1>3. /\ funeral' \in Seq(Threads) /\ NoDuplicates(funeral')
      /\ ToSet(funeral') = ToSet(funeral) \ {u}
  BY <1>1, UnlinkElements
<1>4. u \in Threads
  OBVIOUS
<1>. HIDE DEF rest, u
<1>5. /\ ready' \in Seq(Threads) /\ NoDuplicates(ready')
      /\ ToSet(ready') = ToSet(rest) \union {u}
  BY <1>1, <1>2, <1>4, LinkReady
<1>. QED  BY <1>2, <1>3, <1>5 DEF Apart, u

\* The effect of the second half of internal_exit_.
LEMMA BuryEffect ==
  ASSUME TypeOK, Apart, NEW t \in Threads, ExitBury(t)
  PROVE  /\ funeral' \in Seq(Threads) /\ Apart' /\ ready' = ready
         /\ ToSet(funeral') = IF Linked(t) THEN ToSet(funeral)
                              ELSE ToSet(funeral) \union {t}
         /\ state' = IF Linked(t) THEN state
                     ELSE [state EXCEPT ![t] = "terminated"]
         /\ corrupt' = IF Linked(t) THEN TRUE ELSE corrupt
         /\ switch' = IF Linked(t) THEN switch ELSE "pending"
         /\ pc' = [pc EXCEPT ![t] = "gone"]
         /\ UNCHANGED <<current, assigned, inherited, joiner, locked, arg>>
<1>1. /\ ready' = ready /\ pc' = [pc EXCEPT ![t] = "gone"]
      /\ UNCHANGED <<current, assigned, inherited, joiner, locked, arg>>
  BY DEF ExitBury, Goto, priorities
<1>2. CASE Linked(t)
  BY <1>1, <1>2 DEF ExitBury, TypeOK, Apart
<1>3. CASE ~ Linked(t)
  <2>1. /\ funeral' = Append(funeral, t) /\ corrupt' = corrupt
        /\ state' = [state EXCEPT ![t] = "terminated"] /\ switch' = "pending"
    BY <1>3 DEF ExitBury, Reschedule
  <2>2. /\ funeral' \in Seq(Threads) /\ NoDuplicates(funeral')
        /\ ToSet(funeral') = ToSet(funeral) \union {t}
    <3>1. /\ funeral \in Seq(Threads) /\ NoDuplicates(funeral)
          /\ t \notin ToSet(funeral)
      BY <1>3 DEF TypeOK, Apart, Linked
    <3>. QED  BY <2>1, <3>1, AppendElements
  <2>. QED  BY <1>1, <1>3, <2>1, <2>2 DEF Apart, Linked
<1>. QED  BY <1>2, <1>3

\* The effect of the idle thread's unlink_head.
LEMMA PopEffect ==
  ASSUME TypeOK, Apart, IdlePop, funeral # <<>>
  PROVE  /\ Head(funeral) \in Threads /\ Head(funeral) \in ToSet(funeral)
         /\ funeral' \in Seq(Threads) /\ Apart'
         /\ ToSet(funeral') = ToSet(funeral) \ {Head(funeral)}
         /\ pc' = [pc EXCEPT ![Idle] = "idle_destroy"]
         /\ arg' = [arg EXCEPT ![Idle] = Head(funeral)]
         /\ UNCHANGED <<state, current, ready, assigned, inherited, joiner,
                        locked, switch, corrupt>>
<1>1. funeral \in Seq(Threads) /\ NoDuplicates(funeral)
  BY DEF TypeOK, Apart
<1>2. /\ Head(funeral) \in Threads /\ Head(funeral) \in ToSet(funeral)
      /\ Tail(funeral) \in Seq(Threads) /\ NoDuplicates(Tail(funeral))
      /\ ToSet(Tail(funeral)) = ToSet(funeral) \ {Head(funeral)}
  BY <1>1, TailElements
<1>3. /\ funeral' = Tail(funeral)
      /\ pc' = [pc EXCEPT ![Idle] = "idle_destroy"]
      /\ arg' = [arg EXCEPT ![Idle] = Head(funeral)]
      /\ UNCHANGED <<state, current, ready, assigned, inherited, joiner,
                     locked, switch, corrupt>>
  BY DEF IdlePop, GotoWith, priorities
<1>. QED  BY <1>2, <1>3 DEF Apart
-----------------------------------------------------------------------------
\* Right after scheduler::start() only main and idle are there.
LEMMA BaseInit == Init => Base
<1>. SUFFICES ASSUME Init
              PROVE  Base
  OBVIOUS
<1>. USE NamesAssumption
<1>1. /\ ToSet(ready) = {Idle} /\ ToSet(funeral) = {}
      /\ NoDuplicates(ready) /\ NoDuplicates(funeral)
      /\ ready \in Seq(Threads) /\ funeral \in Seq(Threads)
  <2>1. ready = <<Idle>> /\ funeral = <<>>
    BY DEF Init
  <2>. QED  BY <2>1 DEF ToSet, NoDuplicates
<1>2. TypeOK
  <2>1. assigned \in [Threads -> Nat]
    BY PriorityAssumption DEF Init
  <2>. QED  BY <1>1, <2>1 DEF Init, TypeOK
<1>3. ReferencesKnown
  BY <1>1 DEF Init, ReferencesKnown, Targeted
<1>. QED  BY <1>1, <1>2, <1>3 DEF Base, Apart

\* What every step does to the base, action by action.
LEMMA BaseStep == Base /\ [Next]_vars => Base'
<1>. SUFFICES ASSUME Base, [Next]_vars
              PROVE  Base'
  OBVIOUS
<1>0. TypeOK /\ Apart /\ ReferencesKnown
  BY DEF Base
<1>00. ToSet(ready) \subseteq Threads /\ ToSet(funeral) \subseteq Threads
  BY <1>0, ListedThreads
<1>. USE <1>0, <1>00
<1>1. ASSUME NEW t \in Threads, NEW u \in Creatable, NEW p \in Priorities,
             CreateThread(t, u, p)
      PROVE  Base'
  <2>1. /\ u \in Threads /\ p \in Nat /\ u \notin ToSet(funeral)
        /\ ready' \in Seq(Threads) /\ NoDuplicates(ready')
        /\ ToSet(ready') = ToSet(ready) \union {u}
        /\ assigned' = [assigned EXCEPT ![u] = p]
        /\ state' = [state EXCEPT ![u] = "ready"]
        /\ pc' = [pc EXCEPT ![t] = "yield"]
        /\ UNCHANGED <<current, funeral, inherited, joiner, locked, switch,
                       arg, corrupt>>
    BY <1>1, CreateEffect DEF CreateThread, Goto
  <2>2. TypeOK'
    BY <2>1 DEF TypeOK
  <2>3. Apart'
    BY <2>1 DEF Apart
  <2>4. ReferencesKnown'
    BY <2>1 DEF ReferencesKnown, Targeted, TypeOK
  <2>. QED  BY <2>2, <2>3, <2>4 DEF Base
<1>2. ASSUME NEW t \in Threads, Yield(t)
      PROVE  Base'
  <2>1. /\ switch' = "pending" /\ pc' = [pc EXCEPT ![t] = "app"]
        /\ UNCHANGED <<state, current, ready, funeral, corrupt, assigned,
                       inherited, joiner, locked, arg>>
    BY <1>2 DEF Yield, Reschedule, Goto, lists, priorities
  <2>2. TypeOK'
    BY <2>1 DEF TypeOK
  <2>3. Apart'
    BY <2>1 DEF Apart
  <2>4. ReferencesKnown'
    BY <2>1 DEF ReferencesKnown, Targeted, TypeOK
  <2>. QED  BY <2>2, <2>3, <2>4 DEF Base
<1>3. ASSUME NEW t \in Threads, Suspend(t) \/ JoinSuspend(t)
      PROVE  Base'
  <2>1. /\ ready' \in Seq(Threads) /\ Apart'
        /\ ToSet(ready') = ToSet(ready) \ {t}
        /\ state' = [state EXCEPT ![t] = "suspended"]
        /\ funeral' = funeral /\ corrupt' = corrupt /\ switch' = "pending"
        /\ \/ pc' = pc
           \/ pc[t] \in Targeted /\ pc' = [pc EXCEPT ![t] = "join_test"]
        /\ UNCHANGED <<current, assigned, inherited, joiner, locked, arg>>
    BY <1>3, SuspendEffect
    DEF Suspend, JoinSuspend, At, Goto, priorities, Targeted
  <2>2. TypeOK'
    BY <2>1 DEF TypeOK
  <2>3. Apart'
    BY <2>1
  <2>4. ReferencesKnown'
    <3>1. \A v \in Threads : pc'[v] \in Targeted => pc[v] \in Targeted
      BY <2>1 DEF TypeOK
    <3>2. \A v \in Threads : state[v] # "undefined" => state'[v] # "undefined"
      BY <2>1 DEF TypeOK
    <3>. QED  BY <2>1, <3>1, <3>2 DEF ReferencesKnown, TypeOK
  <2>. QED  BY <2>2, <2>3, <2>4 DEF Base
<1>4. ASSUME NEW u \in Threads, state[u] # "undefined", ResumeThread(u),
             UNCHANGED <<current, joiner, assigned, inherited, locked, pc, arg>>
      PROVE  Base'
  <2>1. /\ ready' \in Seq(Threads) /\ NoDuplicates(ready')
        /\ ToSet(ready') = IF Linked(u) THEN ToSet(ready)
                                        ELSE ToSet(ready) \union {u}
        /\ state' = IF Linked(u) THEN state
                                 ELSE [state EXCEPT ![u] = "ready"]
        /\ funeral' = funeral /\ corrupt' = corrupt /\ switch' = "pending"
    BY <1>4, ResumeEffect
  <2>2. TypeOK'
    BY <2>1, <1>4 DEF TypeOK
  <2>3. Apart'
    BY <2>1 DEF Apart, Linked
  <2>4. ReferencesKnown'
    BY <2>1, <1>4 DEF ReferencesKnown, Targeted, TypeOK
  <2>. QED  BY <2>2, <2>3, <2>4 DEF Base
<1>5. ASSUME NEW t \in Threads, LockScheduler(t) \/ UnlockScheduler(t)
      PROVE  Base'
  <2>1. /\ locked' \in BOOLEAN
        /\ UNCHANGED <<state, current, ready, funeral, corrupt, assigned,
                       inherited, joiner, switch, pc, arg>>
    BY <1>5 DEF LockScheduler, UnlockScheduler, lists, priorities
  <2>2. TypeOK'
    BY <2>1 DEF TypeOK
  <2>3. Apart'
    BY <2>1 DEF Apart
  <2>4. ReferencesKnown'
    BY <2>1 DEF ReferencesKnown, Targeted, TypeOK
  <2>. QED  BY <2>2, <2>3, <2>4 DEF Base
<1>6. ASSUME NEW t \in Threads, NEW u \in Threads, NEW p \in Priorities,
             SetPriority(t, u, p)
      PROVE  Base'
  <2>1. /\ p \in Nat /\ state[u] # "undefined"
        /\ assigned' = [assigned EXCEPT ![u] = p]
        /\ pc' = [pc EXCEPT ![t] = "changed"] /\ arg' = [arg EXCEPT ![t] = u]
        /\ UNCHANGED <<state, current, ready, funeral, corrupt, inherited,
                       joiner, locked, switch>>
    BY <1>6, PriorityAssumption DEF SetPriority, GotoWith, lists
  <2>2. TypeOK'
    BY <2>1 DEF TypeOK
  <2>3. Apart'
    BY <2>1 DEF Apart
  <2>4. ReferencesKnown'
    BY <2>1, NamesAssumption DEF ReferencesKnown, Targeted, TypeOK
  <2>. QED  BY <2>2, <2>3, <2>4 DEF Base
<1>7. ASSUME NEW t \in Threads, NEW u \in Inheriting,
             NEW p \in Ceilings \union {0}, SetInherited(t, u, p)
      PROVE  Base'
  <2>1. /\ p \in Nat /\ u \in Threads /\ state[u] # "undefined"
        /\ inherited' = [inherited EXCEPT ![u] = p]
        /\ \/ pc' = pc /\ arg' = arg
           \/ /\ pc' = [pc EXCEPT ![t] = "changed"]
              /\ arg' = [arg EXCEPT ![t] = u]
        /\ UNCHANGED <<state, current, ready, funeral, corrupt, assigned,
                       joiner, locked, switch>>
    BY <1>7, PriorityAssumption, RolesAssumption
    DEF SetInherited, GotoWith, lists
  <2>2. TypeOK'
    BY <2>1 DEF TypeOK
  <2>3. Apart'
    BY <2>1 DEF Apart
  <2>4. ReferencesKnown'
    BY <2>1, NamesAssumption DEF ReferencesKnown, Targeted, TypeOK
  <2>. QED  BY <2>2, <2>3, <2>4 DEF Base
<1>8. ASSUME NEW t \in Threads, ExitUnlink(t)
      PROVE  Base'
  <2>1. /\ ready' \in Seq(Threads) /\ funeral' \in Seq(Threads) /\ Apart'
        /\ ToSet(ready') = ToSet(ready) \ {t}
        /\ ToSet(funeral') = ToSet(funeral) \ {t}
        /\ pc' = [pc EXCEPT ![t] = "unlinked"] /\ locked' = TRUE
        /\ UNCHANGED <<state, current, assigned, inherited, joiner, switch,
                       corrupt, arg>>
    BY <1>8, UnlinkEffect DEF ExitUnlink, Goto, priorities
  <2>2. TypeOK'
    BY <2>1 DEF TypeOK
  <2>3. Apart'
    BY <2>1
  <2>4. ReferencesKnown'
    BY <2>1 DEF ReferencesKnown, Targeted, TypeOK
  <2>. QED  BY <2>2, <2>3, <2>4 DEF Base
<1>8a. ASSUME NEW t \in Threads, ExitUnlock(t)
       PROVE  Base'
  <2>1. /\ locked' = FALSE /\ pc' = [pc EXCEPT ![t] = "bury"]
        /\ UNCHANGED <<state, current, ready, funeral, corrupt, assigned,
                       inherited, joiner, switch, arg>>
    BY <1>8a DEF ExitUnlock, Goto, lists, priorities
  <2>2. TypeOK'
    BY <2>1 DEF TypeOK
  <2>3. Apart'
    BY <2>1 DEF Apart
  <2>4. ReferencesKnown'
    BY <2>1 DEF ReferencesKnown, Targeted, TypeOK
  <2>. QED  BY <2>2, <2>3, <2>4 DEF Base
<1>9. ASSUME NEW t \in Threads, NEW u \in Threads, JoinCall(t, u)
      PROVE  Base'
  <2>1. /\ state[u] # "undefined"
        /\ pc' = [pc EXCEPT ![t] = "join_test"] /\ arg' = [arg EXCEPT ![t] = u]
        /\ UNCHANGED <<state, current, ready, funeral, corrupt, assigned,
                       inherited, joiner, locked, switch>>
    BY <1>9 DEF JoinCall, GotoWith, lists, priorities
  <2>2. TypeOK'
    BY <2>1 DEF TypeOK
  <2>3. Apart'
    BY <2>1 DEF Apart
  <2>4. ReferencesKnown'
    BY <2>1, NamesAssumption DEF ReferencesKnown, Targeted, TypeOK
  <2>. QED  BY <2>2, <2>3, <2>4 DEF Base
<1>10. ASSUME NEW t \in Threads, NEW u \in Threads, KillUnlink(t, u)
      PROVE  Base'
  <2>1. /\ state[u] # "undefined" /\ locked' = TRUE
        /\ ready' \in Seq(Threads) /\ funeral' \in Seq(Threads) /\ Apart'
        /\ ToSet(ready') = ToSet(ready) \ {u}
        /\ ToSet(funeral') = ToSet(funeral) \ {u}
        /\ pc' = [pc EXCEPT ![t] = "destroy"] /\ arg' = [arg EXCEPT ![t] = u]
        /\ UNCHANGED <<state, current, assigned, inherited, joiner, switch,
                       corrupt>>
    BY <1>10, UnlinkEffect DEF KillUnlink, GotoWith, priorities
  <2>2. TypeOK'
    BY <2>1 DEF TypeOK
  <2>3. Apart'
    BY <2>1
  <2>4. ReferencesKnown'
    BY <2>1, NamesAssumption DEF ReferencesKnown, Targeted, TypeOK
  <2>. QED  BY <2>2, <2>3, <2>4 DEF Base
<1>11. ASSUME NEW t \in Threads, TestReady(t)
      PROVE  Base'
  <2>1. /\ pc[t] \in Targeted
        /\ pc' \in {[pc EXCEPT ![t] = "relink"], [pc EXCEPT ![t] = "yield"]}
        /\ UNCHANGED <<state, current, ready, funeral, corrupt, assigned,
                       inherited, joiner, locked, switch, arg>>
    BY <1>11 DEF TestReady, At, Goto, lists, priorities, Targeted
  <2>2. TypeOK'
    BY <2>1 DEF TypeOK
  <2>3. Apart'
    BY <2>1 DEF Apart
  <2>4. ReferencesKnown'
    BY <2>1 DEF ReferencesKnown, Targeted, TypeOK
  <2>. QED  BY <2>2, <2>3, <2>4 DEF Base
<1>12. ASSUME NEW t \in Threads, RelinkReady(t)
      PROVE  Base'
  <2>1. /\ arg[t] \in Threads
        /\ ready' \in Seq(Threads) /\ funeral' \in Seq(Threads) /\ Apart'
        /\ ToSet(ready') = ToSet(ready) \union {arg[t]}
        /\ ToSet(funeral') = ToSet(funeral) \ {arg[t]}
        /\ state' = [state EXCEPT ![arg[t]] = "ready"]
        /\ pc' = [pc EXCEPT ![t] = "yield"]
        /\ UNCHANGED <<current, assigned, inherited, joiner, locked, switch,
                       corrupt, arg>>
    <3>1. pc[t] = "relink" /\ arg[t] \in Threads
      BY <1>12 DEF RelinkReady, At, ReferencesKnown, Targeted, TypeOK
    <3>. QED  BY <1>12, <3>1, RelinkEffect DEF RelinkReady, Goto, priorities
  <2>2. TypeOK'
    BY <2>1 DEF TypeOK
  <2>3. Apart'
    BY <2>1
  <2>4. ReferencesKnown'
    BY <2>1 DEF ReferencesKnown, Targeted, TypeOK
  <2>. QED  BY <2>2, <2>3, <2>4 DEF Base
<1>13. ASSUME NEW t \in Threads, ExitBury(t)
      PROVE  Base'
  <2>1. /\ funeral' \in Seq(Threads) /\ Apart' /\ ready' = ready
        /\ ToSet(funeral') = IF Linked(t) THEN ToSet(funeral)
                             ELSE ToSet(funeral) \union {t}
        /\ state' = IF Linked(t) THEN state
                    ELSE [state EXCEPT ![t] = "terminated"]
        /\ corrupt' = IF Linked(t) THEN TRUE ELSE corrupt
        /\ switch' = IF Linked(t) THEN switch ELSE "pending"
        /\ pc' = [pc EXCEPT ![t] = "gone"]
        /\ UNCHANGED <<current, assigned, inherited, joiner, locked, arg>>
    BY <1>13, BuryEffect
  <2>2. TypeOK'
    BY <2>1 DEF TypeOK
  <2>3. Apart'
    BY <2>1
  <2>4. ReferencesKnown'
    BY <2>1 DEF ReferencesKnown, Targeted, TypeOK
  <2>. QED  BY <2>2, <2>3, <2>4 DEF Base
<1>14. ASSUME NEW t \in Threads, JoinTest(t) \/ JoinSet(t)
      PROVE  Base'
  <2>1. /\ t = current /\ pc[t] \in Targeted
        /\ joiner' = joiner \/ joiner' = [joiner EXCEPT ![arg[t]] = t]
        /\ \/ /\ pc' = [pc EXCEPT ![t] = "app"]
              /\ arg' = [arg EXCEPT ![t] = NoThread]
           \/ /\ \/ pc' = [pc EXCEPT ![t] = "join_set"]
                 \/ pc' = [pc EXCEPT ![t] = "join_suspend"]
              /\ arg' = arg
        /\ UNCHANGED <<state, current, ready, funeral, corrupt, assigned,
                       inherited, locked, switch>>
    BY <1>14
    DEF JoinTest, JoinSet, At, Goto, GotoWith, lists, priorities, Targeted
  <2>2. TypeOK'
    <3>1. joiner' \in [Threads -> Threads \union {NoThread}]
      <4>1. [joiner EXCEPT ![arg[t]] = t]
              \in [Threads -> Threads \union {NoThread}]
        BY DEF TypeOK
      <4>. QED  BY <2>1, <4>1 DEF TypeOK
    <3>2. arg' \in [Threads -> Threads \union {NoThread}]
      BY <2>1 DEF TypeOK
    <3>. QED  BY <2>1, <3>1, <3>2 DEF TypeOK
  <2>3. Apart'
    BY <2>1 DEF Apart
  <2>4. ReferencesKnown'
    BY <2>1 DEF ReferencesKnown, Targeted, TypeOK
  <2>. QED  BY <2>2, <2>3, <2>4 DEF Base
<1>15. ASSUME NEW t \in Threads,
              KillDestroy(t) \/ (t = Idle /\ IdleDestroy)
      PROVE  Base'
  <2>1. /\ pc[t] \in Targeted
        /\ state' = [state EXCEPT ![arg[t]] = "destroyed"]
        /\ \/ pc' = [pc EXCEPT ![t] = "wake_joiner"]
           \/ pc' = [pc EXCEPT ![t] = "idle_wake_joiner"]
        /\ UNCHANGED <<current, ready, funeral, corrupt, assigned, inherited,
                       joiner, locked, switch, arg>>
    BY <1>15 DEF KillDestroy, IdleDestroy, Destroy, At, Goto, lists,
       priorities, Targeted
  <2>2. TypeOK'
    BY <2>1 DEF TypeOK
  <2>3. Apart'
    BY <2>1 DEF Apart
  <2>4. ReferencesKnown'
    BY <2>1 DEF ReferencesKnown, Targeted, TypeOK
  <2>. QED  BY <2>2, <2>3, <2>4 DEF Base
<1>16. ASSUME NEW t \in Threads,
              KillWakeJoiner(t) \/ (t = Idle /\ IdleWakeJoiner)
       PROVE  Base'
  <2>1. /\ WakeJoiner(t) /\ arg[t] \in Threads
        /\ UNCHANGED <<current, assigned, inherited, joiner>>
        /\ locked' \in BOOLEAN
        /\ \/ pc' = [pc EXCEPT ![t] = "app"]
           \/ pc' = [pc EXCEPT ![t] = "idle_yield"]
        /\ arg' = [arg EXCEPT ![t] = NoThread]
    <3>1. pc[t] \in Targeted
      BY <1>16 DEF KillWakeJoiner, IdleWakeJoiner, At, Targeted
    <3>2. arg[t] \in Threads
      BY <3>1 DEF ReferencesKnown, TypeOK
    <3>. QED  BY <1>16, <3>2
              DEF KillWakeJoiner, IdleWakeJoiner, GotoWith, priorities, TypeOK
  <2>2. CASE joiner[arg[t]] = NoThread
    <3>1. UNCHANGED <<state, ready, funeral, corrupt, switch>>
      BY <2>1, <2>2 DEF WakeJoiner, lists
    <3>2. TypeOK'
      BY <2>1, <3>1, NamesAssumption DEF TypeOK
    <3>3. ReferencesKnown'
      BY <2>1, <3>1 DEF ReferencesKnown, Targeted, TypeOK
    <3>. QED  BY <3>1, <3>2, <3>3 DEF Base, Apart
  <2>3. CASE joiner[arg[t]] # NoThread
    <3>. DEFINE j == joiner[arg[t]]
    <3>1. j \in Threads /\ state[j] # "undefined" /\ ResumeThread(j)
      BY <2>1, <2>3 DEF WakeJoiner, ReferencesKnown, TypeOK
    <3>. HIDE DEF j
    <3>2. /\ ready' \in Seq(Threads) /\ NoDuplicates(ready')
          /\ ToSet(ready') = IF Linked(j) THEN ToSet(ready)
                                          ELSE ToSet(ready) \union {j}
          /\ state' = IF Linked(j) THEN state
                                   ELSE [state EXCEPT ![j] = "ready"]
          /\ funeral' = funeral /\ corrupt' = corrupt /\ switch' = "pending"
      BY <3>1, ResumeEffect
    <3>3. Apart'
      BY <3>2 DEF Apart, Linked
    <3>4. TypeOK'
      BY <2>1, <3>2, NamesAssumption DEF TypeOK
    <3>5. ReferencesKnown'
      <4>1. \A v \in Threads : pc'[v] \in Targeted => arg'[v] # NoThread
        BY <2>1 DEF ReferencesKnown, Targeted, TypeOK
      <4>2. \A v \in Threads : arg'[v] # NoThread => arg'[v] = arg[v]
        BY <2>1 DEF TypeOK
      <4>3. \A v \in Threads : state[v] # "undefined" => state'[v] # "undefined"
        BY <3>2 DEF TypeOK
      <4>4. \A v \in ToSet(ready') : v \in ToSet(ready) \/ v = j
        BY <3>2
      <4>5. \A v \in Threads :
              joiner'[v] # NoThread => state'[joiner'[v]] # "undefined"
        BY <2>1, <4>3 DEF ReferencesKnown, TypeOK
      <4>6. \A v \in Threads :
              arg'[v] # NoThread => state'[arg'[v]] # "undefined"
        BY <4>2, <4>3 DEF ReferencesKnown, TypeOK
      <4>7. \A v \in ToSet(ready') \union ToSet(funeral') \union {current'} :
              state'[v] # "undefined"
        BY <2>1, <3>1, <3>2, <4>3, <4>4 DEF ReferencesKnown, TypeOK
      <4>. QED  BY <4>1, <4>5, <4>6, <4>7 DEF ReferencesKnown
    <3>. QED  BY <3>3, <3>4, <3>5 DEF Base
  <2>. QED  BY <2>2, <2>3
<1>17. CASE IdleCheck \/ IdleWait \/ IdleYield
  <2>1. /\ switch' \in {"none", "pending", "refused"}
        /\ \/ pc' = pc
           \/ pc' = [pc EXCEPT ![Idle] = "idle_pop"]
           \/ pc' = [pc EXCEPT ![Idle] = "idle_check"]
        /\ UNCHANGED <<state, current, ready, funeral, corrupt, assigned,
                       inherited, joiner, locked, arg>>
    BY <1>17
    DEF IdleCheck, IdleWait, IdleYield, Reschedule, Goto, lists, priorities,
        TypeOK
  <2>2. TypeOK'
    BY <2>1 DEF TypeOK
  <2>3. Apart'
    BY <2>1 DEF Apart
  <2>4. ReferencesKnown'
    BY <2>1 DEF ReferencesKnown, Targeted, TypeOK
  <2>. QED  BY <2>2, <2>3, <2>4 DEF Base
<1>18. CASE IdlePop
  <2>1. CASE funeral = <<>>
    <3>1. /\ corrupt' = TRUE
          /\ UNCHANGED <<state, current, ready, funeral, assigned, inherited,
                         joiner, locked, switch, pc, arg>>
      BY <1>18, <2>1 DEF IdlePop, priorities
    <3>. QED  BY <3>1 DEF Base, TypeOK, Apart, ReferencesKnown
  <2>2. CASE funeral # <<>>
    <3>. DEFINE h == Head(funeral)
    <3>1. /\ h \in Threads /\ h \in ToSet(funeral)
          /\ funeral' \in Seq(Threads) /\ Apart'
          /\ ToSet(funeral') = ToSet(funeral) \ {h}
          /\ pc' = [pc EXCEPT ![Idle] = "idle_destroy"]
          /\ arg' = [arg EXCEPT ![Idle] = h]
          /\ UNCHANGED <<state, current, ready, assigned, inherited, joiner,
                         locked, switch, corrupt>>
      BY <1>18, <2>2, PopEffect
    <3>. HIDE DEF h
    <3>2. TypeOK'
      BY <3>1 DEF TypeOK
    <3>3. ReferencesKnown'
      BY <3>1, NamesAssumption DEF ReferencesKnown, Targeted, TypeOK
    <3>. QED  BY <3>1, <3>2, <3>3 DEF Base
  <2>. QED  BY <2>1, <2>2
<1>19. CASE SwitchThreads
  <2>1. /\ switch' = "none"
        /\ UNCHANGED <<funeral, assigned, inherited, joiner, locked, pc, arg,
                       corrupt>>
    BY <1>19 DEF SwitchThreads, priorities
  <2>2. /\ current' \in Threads /\ current' \in ToSet(Candidates)
        /\ ready' \in Seq(Threads) /\ NoDuplicates(ready')
        /\ ToSet(ready') = ToSet(Candidates) \ {current'}
        /\ state' \in [Threads -> {"undefined", "ready", "running",
                         "suspended", "terminated", "destroyed"}]
        /\ \A t \in Threads :
             state'[t] = IF t = current' THEN "running"
                         ELSE IF t = current /\ state[t] = "running"
                         THEN "ready" ELSE state[t]
    BY <1>19, SwitchEffect
  <2>3. ToSet(Candidates) = IF state[current] = "running" /\ ~ Linked(current)
                            THEN ToSet(ready) \union {current}
                            ELSE ToSet(ready)
    BY CandidatesEffect
  <2>4. TypeOK'
    BY <2>1, <2>2 DEF TypeOK
  <2>5. Apart'
    BY <2>1, <2>2, <2>3 DEF Apart, Linked
  <2>7. ReferencesKnown'
    BY <2>1, <2>2, <2>3 DEF ReferencesKnown, Targeted, TypeOK
  <2>. QED  BY <2>4, <2>5, <2>7 DEF Base
<1>20. CASE SwitchRefused \/ Tick \/ UNCHANGED vars
  <2>1. /\ switch' \in {"none", "pending", "refused"}
        /\ UNCHANGED <<state, current, ready, funeral, corrupt, assigned,
                       inherited, joiner, locked, pc, arg>>
    BY <1>20 DEF SwitchRefused, Tick, Reschedule, lists, priorities, vars,
           TypeOK
  <2>2. TypeOK'
    BY <2>1 DEF TypeOK
  <2>3. Apart'
    BY <2>1 DEF Apart
  <2>4. ReferencesKnown'
    BY <2>1 DEF ReferencesKnown, Targeted, TypeOK
  <2>. QED  BY <2>2, <2>3, <2>4 DEF Base
<1>21. ASSUME NEW u \in Threads, MayResume(u), ResumeThread(u),
              UNCHANGED <<current, priorities, joiner, locked, pc, arg>>
       PROVE  Base'
  BY <1>4, <1>21 DEF MayResume, priorities
<1>22. ASSUME NEW t \in Threads \ {Idle}, Application(t)
       PROVE  Base'
  <2>1. CASE \E u \in Threads \ {Idle} : Resume(t, u)
    BY <2>1, <1>21 DEF Resume
  <2>2. CASE \/ \E u \in Threads, p \in Priorities :
                  <<t, u>> \in Tunes /\ SetPriority(t, u, p)
             \/ \E u \in Inheriting, p \in Ceilings \union {0} :
                  SetInherited(t, u, p)
    BY <2>2, <1>6, <1>7
  <2>3. CASE \/ t \in Joiners /\ \E u \in Joinable : JoinCall(t, u)
             \/ t \in LockUsers /\ \E u \in Killable : KillUnlink(t, u)
    BY <2>3, <1>9, <1>10, RolesAssumption
  <2>. QED  BY <1>22, <2>1, <2>2, <2>3, <1>1, <1>3, <1>5, <1>8
            DEF Application
<1>23. ASSUME NEW t \in Threads \ {Idle}, InsideCall(t)
       PROVE  Base'
  BY <1>23, <1>2, <1>3, <1>8a, <1>11, <1>12, <1>13, <1>14, <1>15, <1>16
  DEF InsideCall
<1>24. CASE IdleLoop
  BY <1>24, <1>15, <1>16, <1>17, <1>18, NamesAssumption DEF IdleLoop
<1>25. ASSUME NEW u \in Threads, ResumeFromISR(u)
       PROVE  Base'
  BY <1>25, <1>21 DEF ResumeFromISR
<1>. QED
  BY <1>19, <1>20, <1>22, <1>23, <1>24, <1>25 DEF Next

\* The base holds in every reachable state, orderly or not.
LEMMA SpecBase == Spec => []Base
BY BaseInit, BaseStep, PTL DEF Spec

\* Type correctness, for any program.
THEOREM TypeCorrect == Spec => []TypeOK
BY SpecBase, PTL DEF Base
-----------------------------------------------------------------------------
(* The idle thread is the least urgent one, so it runs only when no other  *)
(* thread is ready: what it does until the next switch is undisturbed.     *)

IdleGivesWay ==
  /\ assigned[Idle] = IdlePriority /\ inherited[Idle] = 0
  /\ \A t \in Threads \ {Idle} : assigned[t] \in Priorities
  /\ LastIfAny(ready, Idle)
  /\ current = Idle /\ switch # "pending" => ready = <<>>
  /\ locked => current # Idle

\* Every other thread is more urgent.
LEMMA IdleIsLeast ==
  ASSUME TypeOK, IdleGivesWay
  PROVE  \A t \in Threads \ {Idle} : Priority[t] > Priority[Idle]
<1>1. /\ assigned[Idle] = IdlePriority /\ inherited[Idle] = 0
      /\ IdlePriority \in Nat
      /\ \A t \in Threads \ {Idle} :
           /\ assigned[t] \in Nat /\ assigned[t] > IdlePriority
           /\ inherited[t] \in Nat
  BY PriorityAssumption, NamesAssumption DEF IdleGivesWay, TypeOK
<1>2. Priority[Idle] = IdlePriority
  BY <1>1, NamesAssumption DEF Priority
<1>3. \A t \in Threads : Priority[t] =
        IF inherited[t] > assigned[t] THEN inherited[t] ELSE assigned[t]
  BY DEF Priority
<1>. QED  BY <1>1, <1>2, <1>3

\* Linking and relinking by the priorities keeps the idle thread last.
LEMMA LinkKeepsIdleLast ==
  ASSUME TypeOK, IdleGivesWay, NEW l \in Seq(Threads), NEW t \in Threads,
         t \notin ToSet(l), LastIfAny(l, Idle)
  PROVE  LastIfAny(Link(l, t, Priority), Idle)
<1>1. Priority \in [Threads -> Nat]
  BY PriorityType
<1>2. \A u \in Threads \ {Idle} : Priority[u] > Priority[Idle]
  BY IdleIsLeast
<1>. QED  BY <1>1, <1>2, NamesAssumption, LinkLast

\* So it is at the start.
LEMMA IdleInit == Init => IdleGivesWay
<1>. SUFFICES ASSUME Init
              PROVE  IdleGivesWay
  OBVIOUS
<1>1. LastIfAny(ready, Idle)
  BY DEF Init, LastIfAny
<1>. QED  BY <1>1, NamesAssumption DEF Init, IdleGivesWay

\* Every step leaves idle the least urgent, and last in the ready list when
\* it is there; it runs only when that list is empty.
LEMMA IdleStep == Base /\ IdleGivesWay /\ [Next]_vars => IdleGivesWay'
<1>. SUFFICES ASSUME Base, IdleGivesWay, [Next]_vars
              PROVE  IdleGivesWay'
  OBVIOUS
<1>0. /\ TypeOK /\ Apart /\ ReferencesKnown
      /\ ready \in Seq(Threads) /\ NoDuplicates(ready)
      /\ LastIfAny(ready, Idle) /\ Idle \in Threads
  BY NamesAssumption DEF Base, TypeOK, Apart, IdleGivesWay
\* No priority changes, and the processor stays with the same thread.
<1>a. ASSUME UNCHANGED <<assigned, inherited, current>>,
             LastIfAny(ready', Idle),
             current # Idle \/ switch' = "pending"
               \/ (switch # "pending" /\ ready' = ready),
             locked' => locked \/ current # Idle
      PROVE  IdleGivesWay'
  BY <1>a DEF IdleGivesWay
\* Steps that leave the ready list alone.
<1>b. ASSUME UNCHANGED <<assigned, inherited, current, ready>>,
             current # Idle \/ switch' = "pending" \/ switch # "pending",
             locked' => locked \/ current # Idle
      PROVE  IdleGivesWay'
  BY <1>0, <1>a, <1>b
\* thread::resume.
<1>c. ASSUME NEW u \in Threads, ResumeThread(u),
             UNCHANGED <<current, priorities, locked>>
      PROVE  IdleGivesWay'
  <2>1. LastIfAny(ready', Idle)
    <3>1. CASE Linked(u)
      BY <1>0, <1>c, <3>1 DEF ResumeThread
    <3>2. CASE ~ Linked(u)
      BY <1>0, <1>c, <3>2, LinkKeepsIdleLast DEF ResumeThread, Linked
    <3>. QED  BY <3>1, <3>2
  <2>. QED  BY <1>a, <1>c, <2>1 DEF ResumeThread, Reschedule, priorities
<1>1. ASSUME NEW t \in Threads \ {Idle}, NEW u \in Creatable,
             NEW p \in Priorities, CreateThread(t, u, p)
      PROVE  IdleGivesWay'
  <2>1. /\ u \in Threads /\ u # Idle /\ p \in Nat /\ p > IdlePriority
        /\ u \notin ToSet(ready) /\ current = t
        /\ ready' = Link(ready, u, [Priority EXCEPT ![u] = p])
        /\ assigned' = [assigned EXCEPT ![u] = p]
        /\ UNCHANGED <<current, inherited, locked, switch>>
    BY <1>0, <1>1, RolesAssumption, PriorityAssumption
    DEF CreateThread, At, ReferencesKnown
  <2>2. LastIfAny(ready', Idle)
    <3>. DEFINE prio == [Priority EXCEPT ![u] = p]
    <3>1. prio \in [Threads -> Nat]
      BY <1>0, <2>1, PriorityType
    <3>2. \A v \in Threads \ {Idle} : prio[v] > prio[Idle]
      <4>1. Priority[Idle] = IdlePriority
        BY <1>0, PriorityAssumption DEF Priority, IdleGivesWay
      <4>2. \A v \in Threads \ {Idle} : Priority[v] > Priority[Idle]
        BY <1>0, IdleIsLeast
      <4>3. Priority \in [Threads -> Nat]
        BY <1>0, PriorityType
      <4>. HIDE DEF Priority
      <4>. QED  BY <1>0, <2>1, <4>1, <4>2, <4>3
    <3>. HIDE DEF prio
    <3>. QED  BY <1>0, <2>1, <3>1, <3>2, LinkLast DEF prio
  <2>3. /\ assigned'[Idle] = IdlePriority
        /\ \A v \in Threads \ {Idle} : assigned'[v] \in Priorities
    BY <1>0, <2>1 DEF IdleGivesWay, TypeOK
  <2>. QED  BY <2>1, <2>2, <2>3 DEF IdleGivesWay
<1>2. ASSUME NEW t \in Threads, Suspend(t) \/ JoinSuspend(t)
      PROVE  IdleGivesWay'
  <2>1. /\ ready' = Unlink(ready, t) /\ switch' = "pending"
        /\ UNCHANGED <<current, assigned, inherited, locked>>
    BY <1>2 DEF Suspend, JoinSuspend, SuspendSelf, Reschedule, priorities
  <2>2. LastIfAny(ready', Idle)
    BY <1>0, <2>1, UnlinkLast
  <2>. QED  BY <1>a, <2>1, <2>2
<1>3. ASSUME NEW t \in Threads \ {Idle},
             \/ UnlockScheduler(t) \/ LockScheduler(t) \/ Yield(t)
             \/ TestReady(t) \/ ExitUnlock(t) \/ ExitBury(t)
             \/ KillDestroy(t)
             \/ JoinTest(t) \/ JoinSet(t) \/ \E u \in Joinable : JoinCall(t, u)
      PROVE  IdleGivesWay'
  BY <1>b, <1>3
  DEF UnlockScheduler, LockScheduler, Yield, TestReady, ExitUnlock, ExitBury,
      KillDestroy, Destroy, JoinTest, JoinSet, JoinCall, At, lists, priorities
<1>4. ASSUME NEW t \in Threads \ {Idle}, NEW u \in Threads,
             NEW p \in Priorities, <<t, u>> \in Tunes, SetPriority(t, u, p)
      PROVE  IdleGivesWay'
  <2>1. /\ u # Idle /\ current # Idle
        /\ assigned' = [assigned EXCEPT ![u] = p]
        /\ UNCHANGED <<ready, current, inherited, locked, switch>>
    BY <1>4, RolesAssumption DEF SetPriority, At, lists
  <2>. QED  BY <1>0, <2>1 DEF IdleGivesWay, TypeOK
<1>5. ASSUME NEW t \in Threads \ {Idle}, NEW u \in Inheriting,
             NEW p \in Ceilings \union {0}, SetInherited(t, u, p)
      PROVE  IdleGivesWay'
  <2>1. /\ u # Idle /\ current # Idle
        /\ inherited' = [inherited EXCEPT ![u] = p]
        /\ UNCHANGED <<ready, current, assigned, locked, switch>>
    BY <1>5, RolesAssumption DEF SetInherited, At, lists
  <2>. QED  BY <1>0, <2>1 DEF IdleGivesWay, TypeOK
<1>6. ASSUME NEW t \in Threads \ {Idle},
             ExitUnlink(t) \/ \E u \in Killable : KillUnlink(t, u)
      PROVE  IdleGivesWay'
  <2>1. /\ \E u : ready' = Unlink(ready, u)
        /\ current # Idle
        /\ UNCHANGED <<current, assigned, inherited>>
    BY <1>6 DEF ExitUnlink, KillUnlink, UnlinkReadyNode, At, priorities
  <2>2. LastIfAny(ready', Idle)
    BY <1>0, <2>1, UnlinkLast
  <2>. QED  BY <1>a, <2>1, <2>2
<1>7. ASSUME NEW t \in Threads \ {Idle}, RelinkReady(t)
      PROVE  IdleGivesWay'
  <2>. DEFINE rest == Unlink(ready, arg[t])
  <2>1. /\ arg[t] \in Threads /\ current # Idle
        /\ ready' = Link(rest, arg[t], Priority)
        /\ UNCHANGED <<current, assigned, inherited, locked>>
    BY <1>0, <1>7 DEF RelinkReady, At, priorities, ReferencesKnown, Targeted,
       TypeOK
  <2>2. /\ rest \in Seq(Threads) /\ arg[t] \notin ToSet(rest)
    BY <1>0, <2>1, UnlinkElements
  <2>3. LastIfAny(rest, Idle)
    BY <1>0, UnlinkLast
  <2>. HIDE DEF rest
  <2>4. LastIfAny(ready', Idle)
    BY <1>0, <2>1, <2>2, <2>3, LinkKeepsIdleLast
  <2>. QED  BY <1>a, <2>1, <2>4
<1>8. ASSUME NEW t \in Threads,
             KillWakeJoiner(t) \/ (t = Idle /\ IdleWakeJoiner)
      PROVE  IdleGivesWay'
  <2>1. /\ WakeJoiner(t) /\ arg[t] \in Threads
        /\ UNCHANGED <<current, assigned, inherited>>
        /\ locked' => locked
    BY <1>0, <1>8 DEF KillWakeJoiner, IdleWakeJoiner, At, priorities,
       ReferencesKnown, Targeted, TypeOK
  <2>2. CASE joiner[arg[t]] = NoThread
    <3>1. UNCHANGED <<ready, switch>>
      BY <2>1, <2>2 DEF WakeJoiner, lists
    <3>. QED  BY <1>0, <1>a, <2>1, <3>1
  <2>3. CASE joiner[arg[t]] # NoThread
    <3>1. joiner[arg[t]] \in Threads /\ ResumeThread(joiner[arg[t]])
      BY <1>0, <2>1, <2>3 DEF WakeJoiner, TypeOK
    <3>2. LastIfAny(ready', Idle) /\ switch' = "pending"
      <4>1. CASE Linked(joiner[arg[t]])
        BY <1>0, <3>1, <4>1 DEF ResumeThread, Reschedule
      <4>2. CASE ~ Linked(joiner[arg[t]])
        BY <1>0, <3>1, <4>2, LinkKeepsIdleLast
        DEF ResumeThread, Reschedule, Linked
      <4>. QED  BY <4>1, <4>2
    <3>. QED  BY <1>a, <2>1, <3>2
  <2>. QED  BY <2>2, <2>3
<1>9. CASE IdleCheck \/ IdleWait \/ IdlePop \/ IdleDestroy \/ IdleYield
  BY <1>0, <1>a, <1>9
  DEF IdleCheck, IdleWait, IdlePop, IdleDestroy, Destroy, IdleYield, At,
      Reschedule, lists, priorities
<1>10. CASE SwitchThreads
  <2>1. /\ Candidates \in Seq(Threads) /\ Candidates # <<>>
        /\ current' = Head(Candidates) /\ ready' = Tail(Candidates)
        /\ UNCHANGED <<assigned, inherited, locked>> /\ ~ locked
    BY <1>0, <1>10, CandidatesEffect DEF SwitchThreads, priorities
  <2>2. LastIfAny(Candidates, Idle)
    <3>1. CASE state[current] = "running" /\ ~ Linked(current)
      <4>1. current \in Threads /\ current \notin ToSet(ready)
        BY <1>0, <3>1 DEF TypeOK, Linked
      <4>. QED  BY <1>0, <3>1, <4>1, LinkKeepsIdleLast DEF Candidates
    <3>2. CASE ~ (state[current] = "running" /\ ~ Linked(current))
      BY <1>0, <3>2 DEF Candidates
    <3>. QED  BY <3>1, <3>2
  <2>. HIDE DEF Candidates
  <2>3. LastIfAny(ready', Idle) /\ (current' = Idle => ready' = <<>>)
    BY <1>0, <2>1, <2>2, TailLast
  <2>. QED  BY <2>1, <2>3 DEF IdleGivesWay
<1>11. CASE SwitchRefused \/ Tick \/ UNCHANGED vars
  BY <1>0, <1>a, <1>11
  DEF SwitchRefused, Tick, Reschedule, lists, priorities, vars, IdleGivesWay
<1>12. ASSUME NEW t \in Threads \ {Idle}, Application(t)
       PROVE  IdleGivesWay'
  <2>1. CASE \E u \in Threads \ {Idle} : Resume(t, u)
    BY <2>1, <1>c DEF Resume
  <2>2. CASE \/ \E u \in Threads, p \in Priorities :
                  <<t, u>> \in Tunes /\ SetPriority(t, u, p)
             \/ \E u \in Inheriting, p \in Ceilings \union {0} :
                  SetInherited(t, u, p)
    BY <2>2, <1>4, <1>5
  <2>3. CASE \/ t \in LockUsers /\ LockScheduler(t)
             \/ UnlockScheduler(t)
             \/ t \in Joiners /\ \E u \in Joinable : JoinCall(t, u)
    BY <2>3, <1>3
  <2>. QED  BY <1>12, <2>1, <2>2, <2>3, <1>1, <1>2, <1>6 DEF Application
<1>13. ASSUME NEW t \in Threads \ {Idle}, InsideCall(t)
       PROVE  IdleGivesWay'
  BY <1>13, <1>2, <1>3, <1>7, <1>8 DEF InsideCall
<1>14. CASE IdleLoop
  BY <1>0, <1>14, <1>8, <1>9 DEF IdleLoop
<1>15. ASSUME NEW u \in Threads, ResumeFromISR(u)
       PROVE  IdleGivesWay'
  BY <1>15, <1>c DEF ResumeFromISR
<1>. QED
  BY <1>10, <1>11, <1>12, <1>13, <1>14, <1>15 DEF Next
-----------------------------------------------------------------------------
(* What holds of a program that uses the calls in good order: nobody       *)
(* resumes a thread that is ending, and a thread that may end, or be       *)
(* killed, is not at the same time the object of a call that would bring   *)
(* it back.                                                                *)

Orderly ==
  /\ LateResume = {}
  /\ Killable \intersect (Exiting \union Joiners) = {}
  /\ Inheriting \intersect (Exiting \union Killable) = {}
  /\ \A t \in Threads, u \in Exiting \union Killable : 
       <<t, u>> \in Tunes => t = u
  /\ Exiting \intersect LockUsers = {}

IdleLabels == {"idle_check", "idle_pop", "idle_destroy", "idle_wake_joiner",
               "idle_yield"}
JoinLabels == {"join_test", "join_set", "join_suspend"}

\* Who can be where.
Phases ==
  /\ \A t \in Threads : pc[t] \in IdleLabels <=> t = Idle
  /\ \A t \in Threads : pc[t] \in JoinLabels => t \in Joiners
  /\ \A t \in Threads : pc[t] \in {"unlinked", "bury", "gone"} => t \in Exiting
  /\ \A t \in Threads : pc[t] \in {"changed", "relink"} =>
                          arg[t] = t \/ arg[t] \notin Exiting \union Killable
  /\ \A t \in Threads : pc[t] = "relink" /\ arg[t] = t => t \in LockUsers
  /\ \A t \in Threads : pc[t] = "unlinked" => t = current /\ locked
  /\ locked => current \in LockUsers \/ pc[current] = "unlinked"

\* The states say in which list a thread is.
Listed ==
  /\ ~ corrupt
  /\ \A t \in ToSet(ready) : state[t] = "ready"
  /\ \A t \in ToSet(funeral) : state[t] = "terminated"
  /\ \A t \in Threads :
       state[t] = "ready" =>
         t \in ToSet(ready) \/ (pc[current] = "destroy" /\ arg[current] = t)
  /\ \A t \in Threads : state[t] = "running" => t = current
  /\ switch # "pending" => state[current] = "running" \/ current \in LockUsers
  /\ pc[current] = "unlinked" => state[current] = "running"
  /\ state[current] # "destroyed"

\* A thread ends in its own last call, or is killed; the idle thread is the
\* one that destroys those that ended by themselves.
Ended ==
  /\ \A t \in Threads :
       pc[t] = "gone" => state[t] \in {"terminated", "destroyed"}
  /\ \A t \in Threads : state[t] = "terminated" => pc[t] = "gone"
  /\ \A t \in Threads :
       state[t] = "destroyed" => pc[t] = "gone" \/ t \in Killable
  /\ \A t \in Threads :
       state[t] = "terminated" =>
         t \in ToSet(funeral) \/ (pc[Idle] = "idle_destroy" /\ arg[Idle] = t)
  /\ pc[Idle] = "idle_pop" => ToSet(funeral) # {}
  /\ pc[Idle] = "idle_destroy" =>
       state[arg[Idle]] = "terminated" /\ arg[Idle] \notin ToSet(funeral)

\* A kill is not interrupted by other threads, and its victim is unlinked.
Killing ==
  /\ \A t, u \in Threads :
       pc[t] \in {"destroy", "wake_joiner"} /\ arg[t] = u =>
         locked /\ current = t /\ u \in Killable /\ u # t
  /\ \A t, u \in Threads :
       pc[t] = "destroy" /\ arg[t] = u =>
         ~ Linked(u) /\ state[u] # "destroyed"

\* A joiner waits for the thread it is the joiner of, unless that is destroyed;
\* the one that is about to be woken can be.
Joined ==
  /\ \A b, j \in Threads : joiner[b] = j =>
       /\ j \in Joiners
       /\ state[b] = "destroyed" \/ (pc[j] \in JoinLabels /\ arg[j] = b)
  /\ \A t, b, j \in Threads :
       pc[t] = "wake_joiner" /\ arg[t] = b /\ joiner[b] = j =>
         pc[j] \in JoinLabels /\ arg[j] = b
  /\ \A b, j \in Threads :
       pc[Idle] = "idle_wake_joiner" /\ arg[Idle] = b /\ joiner[b] = j =>
         state[j] # "destroyed"

\* A thread is suspended by its own last step, which a switch follows; only
\* then can join() or an application call have been left in the middle.
Asleep ==
  /\ \A t \in Threads : state[t] = "undefined" => pc[t] = "app"
  /\ \A t \in Threads :
       state[t] = "suspended" => /\ pc[t] \in {"app", "join_test"}
                                 /\ t = current => switch = "pending" /\ ~ locked
  /\ locked => pc[current] \notin JoinLabels

\* One thread at a time joins another, and is its joiner once it sleeps.
OneJoiner ==
  /\ \A t, v \in Threads :
       pc[t] \in JoinLabels /\ pc[v] \in JoinLabels /\ arg[t] = arg[v] => t = v
  /\ \A t, b \in Threads :
       /\ arg[t] = b
       /\ \/ pc[t] = "join_suspend"
          \/ pc[t] = "join_test" /\ state[t] = "suspended"
       => joiner[b] = t
  /\ \A t, b \in Threads :
       /\ pc[t] \in {"join_set", "join_suspend"} /\ arg[t] = b
       /\ state[b] = "destroyed"
       => b \in Killable
  /\ \A t, b \in Threads :
       /\ pc[t] = "join_test" /\ arg[t] = b /\ state[t] = "suspended"
       /\ state[b] = "destroyed" /\ b \notin Killable
       => pc[Idle] = "idle_wake_joiner" /\ arg[Idle] = b

\* What NobodyComesBack says of a step.
EndedStay ==
  \A t \in Threads :
    /\ state[t] = "destroyed" => state'[t] = "destroyed"
    /\ state[t] = "terminated" => state'[t] \in {"terminated", "destroyed"}

\* Only one entry of the function changes.
Becomes(f, g, k, e) == \A v \in Threads : g[v] = IF v = k THEN e ELSE f[v]

Order ==
  /\ Phases /\ Listed /\ Ended /\ Killing /\ Joined
  /\ Asleep /\ OneJoiner

\* Every step keeps the order, and no thread comes back from its end.
LEMMA OrderStep ==
  Orderly /\ Base /\ IdleGivesWay /\ Order /\ [Next]_vars =>
    Order' /\ EndedStay
<1>. SUFFICES ASSUME Orderly, Base, IdleGivesWay, Order, [Next]_vars
              PROVE  Order' /\ EndedStay
  OBVIOUS
<1>a. /\ TypeOK /\ Apart /\ ReferencesKnown
      /\ ToSet(ready) \subseteq Threads /\ ToSet(funeral) \subseteq Threads
      /\ Phases /\ Listed /\ Ended /\ Killing /\ Joined
      /\ Asleep /\ OneJoiner /\ Orderly /\ IdleGivesWay
      /\ Idle \in Threads /\ NoThread \notin Threads
  BY ListedThreads, NamesAssumption DEF Base, Order
<1>0. /\ current \in Threads /\ Idle \in Threads /\ NoThread \notin Threads
      /\ \A t \in Threads : pc[t] \in Targeted => arg[t] \in Threads
      /\ \A t \in Threads : arg[t] \in Threads \union {NoThread}
      /\ \A t \in Threads : joiner[t] \in Threads \union {NoThread}
      /\ ToSet(ready) \subseteq Threads /\ ToSet(funeral) \subseteq Threads
      /\ Phases /\ Listed /\ Ended /\ Killing /\ Joined /\ Asleep /\ OneJoiner
      /\ state[current] # "undefined"
      /\ pc[current] # "gone"
           => state[current] \notin {"terminated", "destroyed"}
  BY <1>a DEF TypeOK, ReferencesKnown, Listed, Ended
<1>1. ASSUME NEW t \in Threads, NEW u \in Creatable, NEW p \in Priorities,
             CreateThread(t, u, p)
      PROVE  Order' /\ EndedStay
  <2>1. /\ t = current /\ switch # "pending" /\ pc[t] = "app" /\ u \in Threads
        /\ u # current
        /\ state[u] = "undefined"
        /\ ToSet(ready') = ToSet(ready) \union {u}
        /\ Becomes(state, state', u, "ready")
        /\ Becomes(pc, pc', t, "yield")
        /\ UNCHANGED <<current, funeral, joiner, locked, switch, arg, corrupt>>
    BY <1>a, <1>1, CreateEffect, RolesAssumption
    DEF Becomes, TypeOK, CreateThread, At, Goto, ReferencesKnown
  <2>2. EndedStay
    BY <1>0, <2>1 DEF EndedStay, Becomes, Targeted
  <2>3. Phases'
    BY <1>0, <2>1 DEF Phases, IdleLabels, JoinLabels, Becomes, Targeted
  <2>4. Listed'
    BY <1>0, <2>1 DEF Listed, Becomes, Targeted
  <2>5. Ended'
    BY <1>0, <2>1 DEF Ended, Becomes, Targeted
  <2>6. Killing'
    BY <1>0, <2>1 DEF Killing, Linked, Becomes, Targeted
  <2>7. Joined'
    BY <1>0, <2>1, <2>2
    DEF Joined, Killing, JoinLabels, EndedStay, Becomes, Targeted
  <2>8. Asleep'
    BY <1>0, <2>1 DEF Asleep, JoinLabels, Becomes, Targeted
  <2>9. OneJoiner'
    BY <1>0, <2>1 DEF OneJoiner, Asleep, JoinLabels, Becomes, Targeted
  <2>. QED  BY <2>2, <2>3, <2>4, <2>5, <2>6, <2>7, <2>8, <2>9 DEF Order
<1>2. ASSUME NEW t \in Threads, Yield(t)
      PROVE  Order' /\ EndedStay
  <2>1. /\ t = current /\ switch # "pending" /\ pc[t] = "yield"
        /\ switch' = "pending"
        /\ Becomes(pc, pc', t, "app")
        /\ UNCHANGED <<state, current, ready, funeral, joiner, locked, arg,
                       corrupt>>
    BY <1>a, <1>2 DEF Becomes, TypeOK, Yield, At, Reschedule, Goto, lists
  <2>2. EndedStay
    BY <1>0, <2>1 DEF EndedStay, Becomes, Targeted
  <2>3. Phases'
    BY <1>0, <2>1 DEF Phases, IdleLabels, JoinLabels, Becomes, Targeted
  <2>4. Listed'
    BY <1>0, <2>1 DEF Listed, Becomes, Targeted
  <2>5. Ended'
    BY <1>0, <2>1 DEF Ended, Becomes, Targeted
  <2>6. Killing'
    BY <1>0, <2>1 DEF Killing, Linked, Becomes, Targeted
  <2>7. Joined'
    BY <1>0, <2>1, <2>2
    DEF Joined, Killing, JoinLabels, EndedStay, Becomes, Targeted
  <2>8. Asleep'
    BY <1>0, <2>1 DEF Asleep, JoinLabels, Becomes, Targeted
  <2>9. OneJoiner'
    BY <1>0, <2>1 DEF OneJoiner, Asleep, JoinLabels, Becomes, Targeted
  <2>. QED  BY <2>2, <2>3, <2>4, <2>5, <2>6, <2>7, <2>8, <2>9 DEF Order
<1>3. ASSUME NEW t \in Threads, Suspend(t) \/ JoinSuspend(t)
      PROVE  Order' /\ EndedStay
  <2>1. /\ t = current /\ switch # "pending" /\ ~ locked
        /\ ToSet(ready') = ToSet(ready) \ {t}
        /\ switch' = "pending"
        /\ Becomes(state, state', t, "suspended")
        /\ \/ pc[t] = "app" /\ pc' = pc
           \/ pc[t] = "join_suspend" /\ Becomes(pc, pc', t, "join_test")
        /\ UNCHANGED <<current, funeral, joiner, locked, arg, corrupt>>
    BY <1>a, <1>3, SuspendEffect
    DEF Becomes, TypeOK, Suspend, JoinSuspend, At, Goto, Asleep, JoinLabels
  <2>2. EndedStay
    BY <1>0, <2>1 DEF EndedStay, Becomes, Targeted
  <2>3. Phases'
    BY <1>0, <2>1 DEF Phases, IdleLabels, JoinLabels, Becomes, Targeted
  <2>4. Listed'
    BY <1>0, <2>1 DEF Listed, Becomes, Targeted
  <2>5. Ended'
    BY <1>0, <2>1 DEF Ended, Becomes, Targeted
  <2>6. Killing'
    BY <1>0, <2>1 DEF Killing, Linked, Becomes, Targeted
  <2>7. Joined'
    BY <1>0, <2>1, <2>2
    DEF Joined, Killing, JoinLabels, EndedStay, Becomes, Targeted
  <2>8. Asleep'
    BY <1>0, <2>1 DEF Asleep, JoinLabels, Becomes, Targeted
  <2>9. OneJoiner'
    BY <1>0, <2>1 DEF OneJoiner, Asleep, JoinLabels, Becomes, Targeted
  <2>. QED  BY <2>2, <2>3, <2>4, <2>5, <2>6, <2>7, <2>8, <2>9 DEF Order
<1>4. ASSUME NEW u \in Threads, MayResume(u), ResumeThread(u),
             UNCHANGED <<current, joiner, locked, pc, arg>>
      PROVE  Order' /\ EndedStay
  <2>1. /\ state[u] \notin {"terminated", "destroyed"} /\ pc[u] # "unlinked"
        /\ pc[current] = "destroy" => arg[current] # u
        /\ \/ /\ Linked(u) /\ UNCHANGED <<state, ready>>
           \/ /\ ~ Linked(u) /\ ToSet(ready') = ToSet(ready) \union {u}
              /\ Becomes(state, state', u, "ready")
        /\ switch' = "pending"
        /\ UNCHANGED <<current, funeral, joiner, locked, pc, arg, corrupt>>
    <3>1. /\ state[u] # "destroyed" /\ pc[u] \notin {"unlinked", "gone"}
          /\ pc[current] = "destroy" => arg[current] # u
      BY <1>0, <1>a, <1>4 DEF Orderly, MayResume, Ending
    <3>2. state[u] \notin {"terminated", "destroyed"}
      BY <1>0, <3>1 DEF Ended
    <3>3. CASE Linked(u)
      BY <1>4, <3>1, <3>2, <3>3 DEF ResumeThread, Reschedule
    <3>4. CASE ~ Linked(u)
      <4>1. Becomes(state, state', u, "ready")
        BY <1>a, <1>4, <3>4 DEF ResumeThread, Becomes, TypeOK
      <4>. QED  BY <1>a, <1>4, <3>1, <3>2, <3>4, <4>1, ResumeEffect
    <3>. QED  BY <3>3, <3>4
  <2>2. EndedStay
    BY <1>0, <2>1 DEF EndedStay, Becomes, Targeted
  <2>3. Phases'
    BY <1>0, <2>1 DEF Phases, IdleLabels, JoinLabels, Becomes, Targeted
  <2>4. Listed'
    BY <1>0, <2>1 DEF Listed, Becomes, Targeted
  <2>5. Ended'
    BY <1>0, <2>1 DEF Ended, Becomes, Targeted
  <2>6. Killing'
    BY <1>0, <2>1 DEF Killing, Linked, Becomes, Targeted
  <2>7. Joined'
    BY <1>0, <2>1, <2>2
    DEF Joined, Killing, JoinLabels, EndedStay, Becomes, Targeted
  <2>8. Asleep'
    BY <1>0, <2>1 DEF Asleep, JoinLabels, Becomes, Targeted
  <2>9. OneJoiner'
    BY <1>0, <2>1 DEF OneJoiner, Asleep, JoinLabels, Becomes, Targeted
  <2>. QED  BY <2>2, <2>3, <2>4, <2>5, <2>6, <2>7, <2>8, <2>9 DEF Order
<1>5. ASSUME NEW t \in Threads,
             UnlockScheduler(t) \/ (t \in LockUsers /\ LockScheduler(t))
      PROVE  Order' /\ EndedStay
  <2>1. /\ t = current /\ switch # "pending" /\ pc[t] = "app"
        /\ (locked' => t \in LockUsers)
        /\ UNCHANGED <<state, current, ready, funeral, joiner, switch, pc, arg,
                       corrupt>>
    BY <1>a, <1>5
    DEF Becomes, TypeOK, LockScheduler, UnlockScheduler, At, lists
  <2>2. EndedStay
    BY <1>0, <2>1 DEF EndedStay, Becomes, Targeted
  <2>3. Phases'
    BY <1>0, <2>1 DEF Phases, IdleLabels, JoinLabels, Becomes, Targeted
  <2>4. Listed'
    BY <1>0, <2>1 DEF Listed, Becomes, Targeted
  <2>5. Ended'
    BY <1>0, <2>1 DEF Ended, Becomes, Targeted
  <2>6. Killing'
    BY <1>0, <2>1 DEF Killing, Linked, Becomes, Targeted
  <2>7. Joined'
    BY <1>0, <2>1, <2>2
    DEF Joined, Killing, JoinLabels, EndedStay, Becomes, Targeted
  <2>8. Asleep'
    BY <1>0, <2>1 DEF Asleep, JoinLabels, Becomes, Targeted
  <2>9. OneJoiner'
    BY <1>0, <2>1 DEF OneJoiner, Asleep, JoinLabels, Becomes, Targeted
  <2>. QED  BY <2>2, <2>3, <2>4, <2>5, <2>6, <2>7, <2>8, <2>9 DEF Order
<1>6. ASSUME NEW t \in Threads,
             \/ \E u \in Threads, p \in Priorities :
                  <<t, u>> \in Tunes /\ SetPriority(t, u, p)
             \/ \E u \in Inheriting, p \in Ceilings \union {0} :
                  SetInherited(t, u, p)
      PROVE  Order' /\ EndedStay
  <2>1. /\ t = current /\ switch # "pending" /\ pc[t] = "app"
        /\ \/ pc' = pc /\ arg' = arg
           \/ \E u \in Threads :
                /\ u = t \/ u \notin Exiting \union Killable
                /\ Becomes(pc, pc', t, "changed")
                /\ Becomes(arg, arg', t, u)
        /\ UNCHANGED <<state, current, ready, funeral, joiner, locked, switch,
                       corrupt>>
    <3>1. ASSUME NEW u \in Threads, NEW p \in Priorities, <<t, u>> \in Tunes,
                 SetPriority(t, u, p)
          PROVE  u = t \/ u \notin Exiting \union Killable
      BY <1>a, <3>1 DEF Orderly
    <3>2. ASSUME NEW u \in Inheriting
          PROVE  u \in Threads /\ u \notin Exiting \union Killable
      BY <1>a, RolesAssumption DEF Orderly
    <3>3. CASE \E u \in Threads, p \in Priorities :
                  <<t, u>> \in Tunes /\ SetPriority(t, u, p)
      BY <1>a, <3>1, <3>3
      DEF SetPriority, At, GotoWith, lists, Becomes, TypeOK
    <3>4. CASE \E u \in Inheriting, p \in Ceilings \union {0} :
                  SetInherited(t, u, p)
      <4>1. PICK u \in Inheriting, p \in Ceilings \union {0} :
              SetInherited(t, u, p)
        BY <3>4
      <4>2. CASE pc' = pc /\ arg' = arg
        BY <4>1, <4>2 DEF SetInherited, At, lists
      <4>3. CASE GotoWith(t, "changed", u)
        BY <1>a, <3>2, <4>1, <4>3
        DEF SetInherited, At, GotoWith, lists, Becomes, TypeOK
      <4>. QED  BY <4>1, <4>2, <4>3 DEF SetInherited
    <3>. QED  BY <1>6, <3>3, <3>4
  <2>2. EndedStay
    BY <1>0, <2>1 DEF EndedStay, Becomes, Targeted
  <2>3. Phases'
    BY <1>0, <2>1 DEF Phases, IdleLabels, JoinLabels, Becomes, Targeted
  <2>4. Listed'
    BY <1>0, <2>1 DEF Listed, Becomes, Targeted
  <2>5. Ended'
    BY <1>0, <2>1 DEF Ended, Becomes, Targeted
  <2>6. Killing'
    BY <1>0, <2>1 DEF Killing, Linked, Becomes, Targeted
  <2>7. Joined'
    BY <1>0, <2>1, <2>2
    DEF Joined, Killing, JoinLabels, EndedStay, Becomes, Targeted
  <2>8. Asleep'
    BY <1>0, <2>1 DEF Asleep, JoinLabels, Becomes, Targeted
  <2>9. OneJoiner'
    BY <1>0, <2>1 DEF OneJoiner, Asleep, JoinLabels, Becomes, Targeted
  <2>. QED  BY <2>2, <2>3, <2>4, <2>5, <2>6, <2>7, <2>8, <2>9 DEF Order
<1>7. ASSUME NEW t \in Exiting, ExitUnlink(t)
      PROVE  Order' /\ EndedStay
  <2>1. /\ t \in Threads /\ t = current /\ switch # "pending" /\ pc[t] = "app"
        /\ state[t] = "running" /\ t \notin LockUsers
        /\ ToSet(ready') = ToSet(ready) \ {t}
        /\ ToSet(funeral') = ToSet(funeral)
        /\ Becomes(pc, pc', t, "unlinked") /\ locked' = TRUE
        /\ UNCHANGED <<state, current, joiner, switch, arg, corrupt>>
    <3>1. t \in Threads /\ t = current /\ switch # "pending" /\ pc[t] = "app"
      BY <1>7, RolesAssumption DEF ExitUnlink, At
    <3>2. state[t] = "running" /\ t \notin LockUsers /\ t \notin ToSet(funeral)
      BY <1>a, <1>7, <3>1 DEF Orderly, Listed
    <3>3. /\ ToSet(ready') = ToSet(ready) \ {t}
          /\ ToSet(funeral') = ToSet(funeral)
      <4>1. /\ ToSet(ready') = ToSet(ready) \ {t}
            /\ ToSet(funeral') = ToSet(funeral) \ {t}
        BY <1>a, <1>7, <3>1, UnlinkEffect DEF ExitUnlink
      <4>. QED  BY <3>2, <4>1
    <3>. QED  BY <1>a, <1>7, <3>1, <3>2, <3>3
              DEF ExitUnlink, Goto, Becomes, TypeOK
  <2>2. EndedStay
    BY <1>0, <2>1 DEF EndedStay, Becomes, Targeted
  <2>3. Phases'
    BY <1>0, <2>1 DEF Phases, IdleLabels, JoinLabels, Becomes, Targeted
  <2>4. Listed'
    BY <1>0, <2>1 DEF Listed, Becomes, Targeted
  <2>5. Ended'
    BY <1>0, <2>1 DEF Ended, Becomes, Targeted
  <2>6. Killing'
    BY <1>0, <2>1 DEF Killing, Linked, Becomes, Targeted
  <2>7. Joined'
    BY <1>0, <2>1, <2>2
    DEF Joined, Killing, JoinLabels, EndedStay, Becomes, Targeted
  <2>8. Asleep'
    BY <1>0, <2>1 DEF Asleep, JoinLabels, Becomes, Targeted
  <2>9. OneJoiner'
    BY <1>0, <2>1 DEF OneJoiner, Asleep, JoinLabels, Becomes, Targeted
  <2>. QED  BY <2>2, <2>3, <2>4, <2>5, <2>6, <2>7, <2>8, <2>9 DEF Order
<1>7a. ASSUME NEW t \in Threads, ExitUnlock(t)
       PROVE  Order' /\ EndedStay
  <2>1. /\ t = current /\ switch # "pending" /\ pc[t] = "unlinked"
        /\ Becomes(pc, pc', t, "bury") /\ locked' = FALSE
        /\ UNCHANGED <<state, current, ready, funeral, joiner, switch, arg,
                       corrupt>>
    BY <1>a, <1>7a DEF Becomes, TypeOK, ExitUnlock, At, Goto, lists
  <2>2. EndedStay
    BY <1>0, <2>1 DEF EndedStay, Becomes, Targeted
  <2>3. Phases'
    BY <1>0, <2>1 DEF Phases, IdleLabels, JoinLabels, Becomes, Targeted
  <2>4. Listed'
    BY <1>0, <2>1 DEF Listed, Becomes, Targeted
  <2>5. Ended'
    BY <1>0, <2>1 DEF Ended, Becomes, Targeted
  <2>6. Killing'
    BY <1>0, <2>1 DEF Killing, Linked, Becomes, Targeted
  <2>7. Joined'
    BY <1>0, <2>1, <2>2
    DEF Joined, Killing, JoinLabels, EndedStay, Becomes, Targeted
  <2>8. Asleep'
    BY <1>0, <2>1 DEF Asleep, JoinLabels, Becomes, Targeted
  <2>9. OneJoiner'
    BY <1>0, <2>1 DEF OneJoiner, Asleep, JoinLabels, Becomes, Targeted
  <2>. QED  BY <2>2, <2>3, <2>4, <2>5, <2>6, <2>7, <2>8, <2>9 DEF Order
<1>8. ASSUME NEW t \in Joiners, NEW u \in Joinable, JoinCall(t, u)
      PROVE  Order' /\ EndedStay
  <2>1. /\ t \in Threads /\ t = current /\ switch # "pending" /\ pc[t] = "app"
        /\ ~ locked /\ \A v \in Threads : pc[v] \in JoinLabels => arg[v] # u
        /\ Becomes(pc, pc', t, "join_test") /\ Becomes(arg, arg', t, u)
        /\ UNCHANGED <<state, current, ready, funeral, joiner, locked, switch,
                       corrupt>>
    BY <1>a, <1>8, RolesAssumption
    DEF Becomes, TypeOK, JoinCall, Joining, JoinLabels, At, GotoWith, lists
  <2>2. EndedStay
    BY <1>0, <2>1 DEF EndedStay, Becomes, Targeted
  <2>3. Phases'
    BY <1>0, <2>1 DEF Phases, IdleLabels, JoinLabels, Becomes, Targeted
  <2>4. Listed'
    BY <1>0, <2>1 DEF Listed, Becomes, Targeted
  <2>5. Ended'
    BY <1>0, <2>1 DEF Ended, Becomes, Targeted
  <2>6. Killing'
    BY <1>0, <2>1 DEF Killing, Linked, Becomes, Targeted
  <2>7. Joined'
    BY <1>0, <2>1, <2>2
    DEF Joined, Killing, JoinLabels, EndedStay, Becomes, Targeted
  <2>8. Asleep'
    BY <1>0, <2>1 DEF Asleep, JoinLabels, Becomes, Targeted
  <2>9. OneJoiner'
    BY <1>0, <2>1 DEF OneJoiner, Asleep, JoinLabels, Becomes, Targeted
  <2>. QED  BY <2>2, <2>3, <2>4, <2>5, <2>6, <2>7, <2>8, <2>9 DEF Order
<1>9. ASSUME NEW t \in LockUsers, NEW u \in Killable, KillUnlink(t, u)
      PROVE  Order' /\ EndedStay
  <2>1. /\ t \in Threads /\ t = current /\ switch # "pending" /\ pc[t] = "app"
        /\ u \in Threads /\ u # t
        /\ u \notin Exiting /\ state[u] # "destroyed" /\ locked'
        /\ u \notin ToSet(funeral)
        /\ ToSet(ready') = ToSet(ready) \ {u}
        /\ ToSet(funeral') = ToSet(funeral)
        /\ Becomes(pc, pc', t, "destroy") /\ Becomes(arg, arg', t, u)
        /\ UNCHANGED <<state, current, joiner, switch, corrupt>>
    <3>1. /\ t \in Threads /\ t = current /\ switch # "pending" /\ pc[t] = "app"
          /\ u \in Threads /\ u # t
          /\ u \notin Exiting /\ state[u] # "destroyed" /\ locked'
      BY <1>a, <1>9, RolesAssumption DEF Orderly, KillUnlink, At
    <3>2. u \notin ToSet(funeral)
      BY <1>0, <3>1 DEF Phases, Listed, Ended
    <3>3. /\ ToSet(ready') = ToSet(ready) \ {u}
          /\ ToSet(funeral') = ToSet(funeral)
      BY <1>a, <1>9, <3>1, <3>2, UnlinkEffect DEF KillUnlink
    <3>. QED  BY <1>a, <1>9, <3>1, <3>2, <3>3
              DEF KillUnlink, GotoWith, Becomes, TypeOK
  <2>2. EndedStay
    BY <1>0, <2>1 DEF EndedStay, Becomes, Targeted
  <2>3. Phases'
    BY <1>0, <2>1 DEF Phases, IdleLabels, JoinLabels, Becomes, Targeted
  <2>4. Listed'
    BY <1>0, <2>1 DEF Listed, Becomes, Targeted
  <2>5. Ended'
    BY <1>0, <2>1 DEF Ended, Becomes, Targeted
  <2>6. Killing'
    BY <1>0, <2>1 DEF Killing, Linked, Becomes, Targeted
  <2>7. Joined'
    BY <1>0, <2>1, <2>2
    DEF Joined, Killing, JoinLabels, EndedStay, Becomes, Targeted
  <2>8. Asleep'
    BY <1>0, <2>1 DEF Asleep, JoinLabels, Becomes, Targeted
  <2>9. OneJoiner'
    BY <1>0, <2>1 DEF OneJoiner, Asleep, JoinLabels, Becomes, Targeted
  <2>. QED  BY <2>2, <2>3, <2>4, <2>5, <2>6, <2>7, <2>8, <2>9 DEF Order
<1>10. ASSUME NEW t \in Threads, TestReady(t)
      PROVE  Order' /\ EndedStay
  <2>1. /\ t = current /\ switch # "pending" /\ pc[t] = "changed"
        /\ \/ Becomes(pc, pc', t, "yield")
           \/ Becomes(pc, pc', t, "relink") /\ state[arg[t]] = "ready"
        /\ switch # "pending"
        /\ UNCHANGED <<state, current, ready, funeral, joiner, locked, switch,
                       arg, corrupt>>
    BY <1>a, <1>10 DEF Becomes, TypeOK, TestReady, At, Goto, lists
  <2>2. EndedStay
    BY <1>0, <2>1 DEF EndedStay, Becomes, Targeted
  <2>3. Phases'
    BY <1>0, <2>1
    DEF Phases, IdleLabels, JoinLabels, Becomes, Targeted, Listed
  <2>4. Listed'
    BY <1>0, <2>1 DEF Listed, Becomes, Targeted
  <2>5. Ended'
    BY <1>0, <2>1 DEF Ended, Becomes, Targeted
  <2>6. Killing'
    BY <1>0, <2>1 DEF Killing, Linked, Becomes, Targeted
  <2>7. Joined'
    BY <1>0, <2>1, <2>2
    DEF Joined, Killing, JoinLabels, EndedStay, Becomes, Targeted
  <2>8. Asleep'
    BY <1>0, <2>1 DEF Asleep, JoinLabels, Becomes, Targeted
  <2>9. OneJoiner'
    BY <1>0, <2>1 DEF OneJoiner, Asleep, JoinLabels, Becomes, Targeted
  <2>. QED  BY <2>2, <2>3, <2>4, <2>5, <2>6, <2>7, <2>8, <2>9 DEF Order
<1>11. ASSUME NEW t \in Threads, RelinkReady(t)
      PROVE  Order' /\ EndedStay
  <2>1. /\ t = current /\ switch # "pending" /\ pc[t] = "relink"
        /\ arg[t] \in Threads
        /\ state[arg[t]] \notin {"terminated", "destroyed"}
        /\ arg[t] = t => t \in LockUsers
        /\ ToSet(ready') = ToSet(ready) \union {arg[t]}
        /\ ToSet(funeral') = ToSet(funeral)
        /\ Becomes(state, state', arg[t], "ready")
        /\ Becomes(pc, pc', t, "yield")
        /\ UNCHANGED <<current, joiner, locked, switch, arg, corrupt>>
    <3>1. /\ t = current /\ switch # "pending" /\ pc[t] = "relink"
          /\ arg[t] \in Threads
      BY <1>a, <1>11 DEF RelinkReady, At, ReferencesKnown, Targeted, TypeOK
    <3>2. /\ state[arg[t]] \notin {"terminated", "destroyed"}
          /\ arg[t] = t => t \in LockUsers
      BY <1>a, <3>1 DEF Phases, Listed, Ended
    <3>3. arg[t] \notin ToSet(funeral)
      BY <1>0, <3>2 DEF Listed
    <3>4. /\ ToSet(ready') = ToSet(ready) \union {arg[t]}
          /\ ToSet(funeral') = ToSet(funeral)
      <4>1. /\ ToSet(ready') = ToSet(ready) \union {arg[t]}
            /\ ToSet(funeral') = ToSet(funeral) \ {arg[t]}
        BY <1>a, <1>11, <3>1, RelinkEffect
      <4>. QED  BY <3>3, <4>1
    <3>. QED  BY <1>a, <1>11, <3>1, <3>2, <3>4
              DEF RelinkReady, Goto, Becomes, TypeOK
  <2>2. EndedStay
    BY <1>0, <2>1 DEF EndedStay, Becomes, Targeted
  <2>3. Phases'
    BY <1>0, <2>1 DEF Phases, IdleLabels, JoinLabels, Becomes, Targeted
  <2>4. Listed'
    BY <1>0, <2>1 DEF Listed, Becomes, Targeted
  <2>5. Ended'
    BY <1>0, <2>1 DEF Ended, Becomes, Targeted
  <2>6. Killing'
    BY <1>0, <2>1 DEF Killing, Linked, Becomes, Targeted
  <2>7. Joined'
    BY <1>0, <2>1, <2>2
    DEF Joined, Killing, JoinLabels, EndedStay, Becomes, Targeted
  <2>8. Asleep'
    BY <1>0, <2>1 DEF Asleep, JoinLabels, Becomes, Targeted
  <2>9. OneJoiner'
    BY <1>0, <2>1 DEF OneJoiner, Asleep, JoinLabels, Becomes, Targeted
  <2>. QED  BY <2>2, <2>3, <2>4, <2>5, <2>6, <2>7, <2>8, <2>9 DEF Order
<1>12. ASSUME NEW t \in Threads, ExitBury(t)
      PROVE  Order' /\ EndedStay
  <2>1. /\ t = current /\ switch # "pending" /\ pc[t] = "bury"
        /\ state[t] = "running"
        /\ ready' = ready /\ ToSet(funeral') = ToSet(funeral) \union {t}
        /\ Becomes(state, state', t, "terminated") /\ switch' = "pending"
        /\ Becomes(pc, pc', t, "gone")
        /\ UNCHANGED <<current, joiner, locked, arg, corrupt>>
    <3>1. t = current /\ switch # "pending" /\ pc[t] = "bury" /\ t \in Exiting
      BY <1>a, <1>12 DEF ExitBury, At, Phases
    <3>2. state[t] = "running" /\ ~ Linked(t)
      BY <1>a, <3>1 DEF Orderly, Listed, Linked
    <3>3. /\ ready' = ready /\ ToSet(funeral') = ToSet(funeral) \union {t}
          /\ state' = [state EXCEPT ![t] = "terminated"] /\ switch' = "pending"
          /\ pc' = [pc EXCEPT ![t] = "gone"]
          /\ UNCHANGED <<current, joiner, locked, arg, corrupt>>
      BY <1>a, <1>12, <3>2, BuryEffect
    <3>. QED  BY <1>a, <3>1, <3>2, <3>3 DEF Becomes, TypeOK
  <2>2. EndedStay
    BY <1>0, <2>1 DEF EndedStay, Becomes, Targeted
  <2>3. Phases'
    BY <1>0, <2>1 DEF Phases, IdleLabels, JoinLabels, Becomes, Targeted
  <2>4. Listed'
    BY <1>0, <2>1 DEF Listed, Becomes, Targeted
  <2>5. Ended'
    BY <1>0, <2>1 DEF Ended, Becomes, Targeted
  <2>6. Killing'
    BY <1>0, <2>1 DEF Killing, Linked, Becomes, Targeted
  <2>7. Joined'
    BY <1>0, <2>1, <2>2
    DEF Joined, Killing, JoinLabels, EndedStay, Becomes, Targeted
  <2>8. Asleep'
    BY <1>0, <2>1 DEF Asleep, JoinLabels, Becomes, Targeted
  <2>9. OneJoiner'
    BY <1>0, <2>1 DEF OneJoiner, Asleep, JoinLabels, Becomes, Targeted
  <2>. QED  BY <2>2, <2>3, <2>4, <2>5, <2>6, <2>7, <2>8, <2>9 DEF Order
<1>13. ASSUME NEW t \in Threads, JoinTest(t)
      PROVE  Order' /\ EndedStay
  <2>1. /\ t = current /\ switch # "pending" /\ pc[t] = "join_test"
        /\ arg[t] \in Threads
        /\ \/ /\ state[arg[t]] = "destroyed"
              /\ Becomes(pc, pc', t, "app")
              /\ Becomes(arg, arg', t, NoThread)
           \/ /\ state[arg[t]] # "destroyed"
              /\ Becomes(pc, pc', t, "join_set") /\ arg' = arg
        /\ UNCHANGED <<state, current, ready, funeral, joiner, locked, switch,
                       corrupt>>
    BY <1>a, <1>13
    DEF Becomes, TypeOK, JoinTest, At, Goto, GotoWith, lists,
        ReferencesKnown, Targeted
  <2>2. EndedStay
    BY <1>0, <2>1 DEF EndedStay, Becomes, Targeted
  <2>3. Phases'
    BY <1>0, <2>1 DEF Phases, IdleLabels, JoinLabels, Becomes, Targeted
  <2>4. Listed'
    BY <1>0, <2>1 DEF Listed, Becomes, Targeted
  <2>5. Ended'
    BY <1>0, <2>1 DEF Ended, Becomes, Targeted
  <2>6. Killing'
    BY <1>0, <2>1 DEF Killing, Linked, Becomes, Targeted
  <2>7. Joined'
    BY <1>0, <2>1, <2>2
    DEF Joined, Killing, JoinLabels, EndedStay, Becomes, Targeted
  <2>8. Asleep'
    BY <1>0, <2>1 DEF Asleep, JoinLabels, Becomes, Targeted
  <2>9. OneJoiner'
    BY <1>0, <2>1 DEF OneJoiner, Asleep, JoinLabels, Becomes, Targeted
  <2>. QED  BY <2>2, <2>3, <2>4, <2>5, <2>6, <2>7, <2>8, <2>9 DEF Order
<1>14. ASSUME NEW t \in Threads, JoinSet(t)
      PROVE  Order' /\ EndedStay
  <2>1. /\ t = current /\ switch # "pending" /\ pc[t] = "join_set"
        /\ arg[t] \in Threads
        /\ state[t] # "destroyed" /\ t \in Joiners
        /\ Becomes(joiner, joiner', arg[t], t)
        /\ Becomes(pc, pc', t, "join_suspend")
        /\ UNCHANGED <<state, current, ready, funeral, locked, switch, arg,
                       corrupt>>
    BY <1>a, <1>14
    DEF Becomes, TypeOK, JoinSet, At, Goto, lists, ReferencesKnown, Targeted,
        TypeOK, Phases, JoinLabels, Listed
  <2>2. EndedStay
    BY <1>0, <2>1 DEF EndedStay, Becomes, Targeted
  <2>3. Phases'
    BY <1>0, <2>1 DEF Phases, IdleLabels, JoinLabels, Becomes, Targeted
  <2>4. Listed'
    BY <1>0, <2>1 DEF Listed, Becomes, Targeted
  <2>5. Ended'
    BY <1>0, <2>1 DEF Ended, Becomes, Targeted
  <2>6. Killing'
    BY <1>0, <2>1 DEF Killing, Linked, Becomes, Targeted
  <2>7. Joined'
    BY <1>0, <2>1, <2>2
    DEF Joined, Killing, JoinLabels, EndedStay, Becomes, Targeted
  <2>8. Asleep'
    BY <1>0, <2>1 DEF Asleep, JoinLabels, Becomes, Targeted
  <2>9. OneJoiner'
    BY <1>0, <2>1 DEF OneJoiner, Asleep, JoinLabels, Becomes, Targeted
  <2>. QED  BY <2>2, <2>3, <2>4, <2>5, <2>6, <2>7, <2>8, <2>9 DEF Order
<1>15. ASSUME NEW t \in Threads, KillDestroy(t)
      PROVE  Order' /\ EndedStay
  <2>1. /\ t = current /\ switch # "pending" /\ pc[t] = "destroy"
        /\ arg[t] \in Threads
        /\ arg[t] # t /\ arg[t] \in Killable /\ arg[t] \notin Exiting
        /\ arg[t] \notin Joiners
        /\ locked /\ t # Idle /\ ~ Linked(arg[t])
        /\ state[arg[t]] \notin {"terminated", "destroyed"}
        /\ Becomes(state, state', arg[t], "destroyed")
        /\ Becomes(pc, pc', t, "wake_joiner")
        /\ UNCHANGED <<current, ready, funeral, joiner, locked, switch, arg,
                       corrupt>>
    <3>1. /\ t = current /\ switch # "pending" /\ pc[t] = "destroy"
          /\ arg[t] \in Threads
      BY <1>0, <1>15 DEF KillDestroy, Destroy, At, Targeted
    <3>2. /\ arg[t] # t /\ arg[t] \in Killable /\ locked
          /\ ~ Linked(arg[t]) /\ state[arg[t]] # "destroyed"
      BY <1>0, <3>1 DEF Killing
    <3>3. t # Idle /\ arg[t] \notin Exiting /\ arg[t] \notin Joiners
      BY <1>a, <3>1, <3>2 DEF Phases, IdleLabels, Orderly
    <3>4. state[arg[t]] # "terminated"
      BY <1>0, <3>1, <3>3 DEF Phases, Ended
    <3>. QED  BY <1>a, <1>15, <3>1, <3>2, <3>3, <3>4
              DEF KillDestroy, Destroy, Goto, lists, Becomes, TypeOK
  <2>2. EndedStay
    BY <1>0, <2>1 DEF EndedStay, Becomes, Targeted
  <2>3. Phases'
    BY <1>0, <2>1 DEF Phases, IdleLabels, JoinLabels, Becomes, Targeted
  <2>4. Listed'
    BY <1>0, <2>1 DEF Listed, Becomes, Targeted, Linked
  <2>5. Ended'
    BY <1>0, <2>1 DEF Ended, Becomes, Targeted
  <2>6. Killing'
    BY <1>0, <2>1 DEF Killing, Linked, Becomes, Targeted
  <2>7. Joined'
    BY <1>0, <2>1, <2>2
    DEF Joined, Killing, JoinLabels, EndedStay, Becomes, Targeted
  <2>8. Asleep'
    BY <1>0, <2>1 DEF Asleep, JoinLabels, Becomes, Targeted
  <2>9. OneJoiner'
    BY <1>0, <2>1 DEF OneJoiner, Asleep, JoinLabels, Becomes, Targeted
  <2>. QED  BY <2>2, <2>3, <2>4, <2>5, <2>6, <2>7, <2>8, <2>9 DEF Order
<1>16. CASE IdleDestroy
  <2>1. /\ Idle = current /\ switch # "pending" /\ pc[Idle] = "idle_destroy"
        /\ arg[Idle] \in Threads
        /\ arg[Idle] # Idle /\ state[arg[Idle]] = "terminated"
        /\ arg[Idle] \notin ToSet(funeral)
        /\ \A j \in Threads : joiner[arg[Idle]] = j =>
             state[j] # "destroyed" /\ j # arg[Idle]
        /\ \A v \in Threads : pc[v] \notin {"join_set", "join_suspend"}
        /\ Becomes(state, state', arg[Idle], "destroyed")
        /\ Becomes(pc, pc', Idle, "idle_wake_joiner")
        /\ UNCHANGED <<current, ready, funeral, joiner, locked, switch, arg,
                       corrupt>>
    <3>1. /\ Idle = current /\ switch # "pending" /\ pc[Idle] = "idle_destroy"
          /\ arg[Idle] \in Threads
      BY <1>0, <1>16 DEF IdleDestroy, Destroy, At, Targeted
    <3>2. /\ state[arg[Idle]] = "terminated" /\ pc[arg[Idle]] = "gone"
          /\ arg[Idle] \notin ToSet(funeral)
      BY <1>0, <3>1 DEF Ended
    <3>3. ASSUME NEW j \in Threads, joiner[arg[Idle]] = j
          PROVE  state[j] # "destroyed" /\ j # arg[Idle]
      <4>1. j \in Joiners /\ pc[j] \in JoinLabels
        BY <1>0, <3>1, <3>2, <3>3 DEF Joined
      <4>2. j \notin Killable /\ pc[j] # "gone"
        BY <1>a, <4>1 DEF Orderly, JoinLabels
      <4>. QED  BY <1>0, <3>2, <4>2 DEF Ended
    <3>4. ASSUME NEW v \in Threads, pc[v] \in {"join_set", "join_suspend"}
          PROVE  FALSE
      <4>1. v # current /\ v \notin ToSet(ready)
        <5>1. ready = <<>> /\ v # Idle
          BY <1>a, <3>1, <3>4 DEF IdleGivesWay, Phases, IdleLabels
        <5>. QED  BY <3>1, <5>1 DEF ToSet
      <4>2. state[v] \notin {"ready", "running"}
        BY <1>0, <3>1, <4>1 DEF Listed
      <4>3. v \in Joiners /\ state[v] \notin {"terminated", "destroyed"}
        BY <1>a, <3>4 DEF Phases, JoinLabels, Ended, Orderly
      <4>4. state[v] \notin {"undefined", "suspended"}
        BY <1>0, <3>4 DEF Asleep
      <4>. QED  BY <1>a, <4>2, <4>3, <4>4 DEF TypeOK
    <3>. QED  BY <1>a, <1>16, <3>1, <3>2, <3>3, <3>4
              DEF IdleDestroy, Destroy, Goto, lists, Becomes, TypeOK
  <2>2. EndedStay
    BY <1>0, <2>1 DEF EndedStay, Becomes, Targeted
  <2>3. Phases'
    BY <1>0, <2>1 DEF Phases, IdleLabels, JoinLabels, Becomes, Targeted
  <2>4. Listed'
    BY <1>0, <2>1 DEF Listed, Becomes, Targeted
  <2>5. Ended'
    BY <1>0, <2>1 DEF Ended, Becomes, Targeted
  <2>6. Killing'
    BY <1>0, <2>1 DEF Killing, Linked, Becomes, Targeted
  <2>7. Joined'
    BY <1>0, <2>1, <2>2
    DEF Joined, Killing, JoinLabels, EndedStay, Becomes, Targeted
  <2>8. Asleep'
    BY <1>0, <2>1 DEF Asleep, JoinLabels, Becomes, Targeted
  <2>9. OneJoiner'
    BY <1>0, <2>1 DEF OneJoiner, Asleep, JoinLabels, Becomes, Targeted
  <2>. QED  BY <2>2, <2>3, <2>4, <2>5, <2>6, <2>7, <2>8, <2>9 DEF Order
<1>17. ASSUME NEW t \in Threads,
              KillWakeJoiner(t) \/ (t = Idle /\ IdleWakeJoiner)
      PROVE  Order' /\ EndedStay
  <2>1. /\ t = current /\ switch # "pending"
        /\ pc[t] \in {"wake_joiner", "idle_wake_joiner"}
        /\ \/ pc[t] = "wake_joiner" /\ Becomes(pc, pc', t, "app") /\ ~ locked'
           \/ /\ t = Idle /\ pc[t] = "idle_wake_joiner"
              /\ Becomes(pc, pc', t, "idle_yield") /\ locked' = locked
        /\ Becomes(arg, arg', t, NoThread)
        /\ UNCHANGED <<current, joiner>>
    BY <1>a, <1>17
    DEF KillWakeJoiner, IdleWakeJoiner, At, GotoWith, Becomes, TypeOK
  <2>2. /\ \/ /\ UNCHANGED <<state, ready, funeral, corrupt>>
              /\ switch' \in {switch, "pending"}
           \/ \E j \in Threads :
                /\ state[j] \notin {"terminated", "destroyed"} /\ ~ Linked(j)
                /\ ToSet(ready') = ToSet(ready) \union {j}
                /\ Becomes(state, state', j, "ready")
                /\ switch' = "pending" /\ UNCHANGED <<funeral, corrupt>>
        /\ \A j \in Threads : joiner[arg[t]] = j => state'[j] # "suspended"
    <3>1. arg[t] \in Threads /\ WakeJoiner(t)
      BY <1>0, <1>17, <2>1 DEF Targeted, KillWakeJoiner, IdleWakeJoiner
    <3>2. CASE joiner[arg[t]] = NoThread
      BY <1>0, <3>1, <3>2 DEF WakeJoiner, lists
    <3>3. CASE joiner[arg[t]] # NoThread
      <4>. DEFINE j == joiner[arg[t]]
      <4>1. j \in Threads /\ ResumeThread(j)
        BY <1>0, <3>1, <3>3 DEF WakeJoiner
      <4>2. state[j] \notin {"terminated", "destroyed"} \/ Linked(j)
        <5>1. CASE pc[t] = "wake_joiner"
          <6>1. pc[j] \in JoinLabels
            BY <1>0, <3>1, <4>1, <5>1 DEF Joined
          <6>2. pc[j] # "gone" /\ j \notin Killable
            BY <1>a, <4>1, <6>1 DEF JoinLabels, Phases, Orderly
          <6>. QED  BY <1>0, <4>1, <6>2 DEF Ended
        <5>2. CASE t = Idle /\ pc[t] = "idle_wake_joiner"
          <6>1. state[j] # "destroyed"
            BY <1>0, <3>1, <4>1, <5>2 DEF Joined
          <6>2. state[j] = "terminated" => j \in ToSet(funeral)
            BY <1>0, <4>1, <5>2 DEF Ended
          <6>. QED  BY <6>1, <6>2 DEF Linked
        <5>. QED  BY <2>1, <5>1, <5>2
      <4>. HIDE DEF j
      <4>3. CASE Linked(j)
        <5>1. state[j] # "suspended"
          BY <1>0, <4>3 DEF Linked, Listed
        <5>. QED  BY <4>1, <4>3, <5>1 DEF ResumeThread, Reschedule, j
      <4>4. CASE ~ Linked(j)
        <5>1. Becomes(state, state', j, "ready")
          BY <1>a, <4>1, <4>4 DEF ResumeThread, Becomes, TypeOK
        <5>2. /\ ToSet(ready') = ToSet(ready) \union {j}
              /\ switch' = "pending" /\ UNCHANGED <<funeral, corrupt>>
          BY <1>a, <4>1, <4>4, ResumeEffect
        <5>. QED  BY <4>1, <4>2, <4>4, <5>1, <5>2 DEF Becomes, j
      <4>. QED  BY <4>3, <4>4
    <3>. QED  BY <3>2, <3>3
  <2>3. EndedStay
    BY <1>0, <2>1, <2>2 DEF EndedStay, Becomes, Targeted
  <2>4. Phases'
    BY <1>0, <2>1, <2>2 DEF Phases, IdleLabels, JoinLabels, Becomes, Targeted
  <2>5. Listed'
    BY <1>0, <2>1, <2>2 DEF Listed, Becomes, Targeted
  <2>6. Ended'
    BY <1>0, <2>1, <2>2 DEF Ended, Becomes, Targeted
  <2>7. Killing'
    BY <1>0, <2>1, <2>2 DEF Killing, Linked, Becomes, Targeted
  <2>8. Joined'
    BY <1>0, <2>1, <2>2, <2>3
    DEF Joined, Killing, JoinLabels, EndedStay, Becomes, Targeted
  <2>9. Asleep'
    BY <1>0, <2>1, <2>2 DEF Asleep, JoinLabels, Becomes, Targeted
  <2>10. OneJoiner'
    BY <1>0, <2>1, <2>2 DEF OneJoiner, Asleep, JoinLabels, Becomes, Targeted
  <2>. QED  BY <2>3, <2>4, <2>5, <2>6, <2>7, <2>8, <2>9, <2>10 DEF Order
<1>18. CASE IdleCheck \/ IdleWait \/ IdleYield
  <2>1. /\ Idle = current /\ switch # "pending"
        /\ \/ pc' = pc
           \/ Becomes(pc, pc', Idle, "idle_pop") /\ ToSet(funeral) # {}
           \/ Becomes(pc, pc', Idle, "idle_check")
        /\ pc[Idle] \in {"idle_check", "idle_yield"}
        /\ switch' = switch \/ switch' = "pending"
        /\ UNCHANGED <<state, current, ready, funeral, joiner, locked, arg,
                       corrupt>>
    <3>1. funeral # <<>> => ToSet(funeral) # {}
      BY <1>a, TailElements DEF TypeOK, Apart
    <3>. QED  BY <1>a, <1>18, <3>1
              DEF IdleCheck, IdleWait, IdleYield, At, Reschedule, Goto, lists,
                  Becomes, TypeOK
  <2>2. EndedStay
    BY <1>0, <2>1 DEF EndedStay, Becomes, Targeted
  <2>3. Phases'
    BY <1>0, <2>1 DEF Phases, IdleLabels, JoinLabels, Becomes, Targeted
  <2>4. Listed'
    BY <1>0, <2>1 DEF Listed, Becomes, Targeted
  <2>5. Ended'
    BY <1>0, <2>1 DEF Ended, Becomes, Targeted
  <2>6. Killing'
    BY <1>0, <2>1 DEF Killing, Linked, Becomes, Targeted
  <2>7. Joined'
    BY <1>0, <2>1, <2>2
    DEF Joined, Killing, JoinLabels, EndedStay, Becomes, Targeted
  <2>8. Asleep'
    BY <1>0, <2>1 DEF Asleep, JoinLabels, Becomes, Targeted
  <2>9. OneJoiner'
    BY <1>0, <2>1 DEF OneJoiner, Asleep, JoinLabels, Becomes, Targeted
  <2>. QED  BY <2>2, <2>3, <2>4, <2>5, <2>6, <2>7, <2>8, <2>9 DEF Order
<1>19. CASE IdlePop
  <2>1. /\ Idle = current /\ switch # "pending" /\ pc[Idle] = "idle_pop"
        /\ Head(funeral) \in Threads /\ Head(funeral) \in ToSet(funeral)
        /\ ToSet(funeral') = ToSet(funeral) \ {Head(funeral)}
        /\ Becomes(pc, pc', Idle, "idle_destroy")
        /\ Becomes(arg, arg', Idle, Head(funeral))
        /\ UNCHANGED <<state, current, ready, joiner, locked, switch, corrupt>>
    <3>1. /\ Idle = current /\ switch # "pending" /\ pc[Idle] = "idle_pop"
          /\ funeral # <<>>
      BY <1>a, <1>19 DEF IdlePop, At, Ended, ToSet
    <3>. QED  BY <1>a, <1>19, <3>1, PopEffect
              DEF Becomes, TypeOK
  <2>2. EndedStay
    BY <1>0, <2>1 DEF EndedStay, Becomes, Targeted
  <2>3. Phases'
    BY <1>0, <2>1 DEF Phases, IdleLabels, JoinLabels, Becomes, Targeted
  <2>4. Listed'
    BY <1>0, <2>1 DEF Listed, Becomes, Targeted
  <2>5. Ended'
    BY <1>0, <2>1 DEF Ended, Becomes, Targeted, Listed
  <2>6. Killing'
    BY <1>0, <2>1 DEF Killing, Linked, Becomes, Targeted
  <2>7. Joined'
    BY <1>0, <2>1, <2>2
    DEF Joined, Killing, JoinLabels, EndedStay, Becomes, Targeted
  <2>8. Asleep'
    BY <1>0, <2>1 DEF Asleep, JoinLabels, Becomes, Targeted
  <2>9. OneJoiner'
    BY <1>0, <2>1 DEF OneJoiner, Asleep, JoinLabels, Becomes, Targeted
  <2>. QED  BY <2>2, <2>3, <2>4, <2>5, <2>6, <2>7, <2>8, <2>9 DEF Order
<1>20. CASE SwitchThreads
  <2>1. /\ switch = "pending" /\ switch' = "none" /\ ~ locked
        /\ current' \in Threads
        /\ \/ current' \in ToSet(ready)
           \/ current' = current /\ state[current] = "running"
        /\ ToSet(ready') =
             (IF state[current] = "running" THEN ToSet(ready) \union {current}
                                            ELSE ToSet(ready)) \ {current'}
        /\ \A t \in Threads :
             state'[t] = IF t = current' THEN "running"
                         ELSE IF t = current /\ state[t] = "running"
                         THEN "ready" ELSE state[t]
        /\ UNCHANGED <<funeral, joiner, locked, pc, arg, corrupt>>
    <3>1. state[current] = "running" => ~ Linked(current)
      BY <1>a DEF Listed, Linked
    <3>2. /\ switch = "pending" /\ switch' = "none" /\ ~ locked
          /\ UNCHANGED <<funeral, joiner, locked, pc, arg, corrupt>>
      BY <1>20 DEF SwitchThreads
    <3>. QED  BY <1>a, <1>20, <3>1, <3>2, SwitchEffect, CandidatesEffect
  <2>2. EndedStay
    BY <1>0, <2>1 DEF EndedStay, Becomes, Targeted, Listed
  <2>3. Phases'
    BY <1>0, <2>1 DEF Phases, IdleLabels, JoinLabels, Becomes, Targeted
  <2>4. Listed'
    BY <1>0, <2>1 DEF Listed, Becomes, Targeted, Killing, Phases
  <2>5. Ended'
    BY <1>0, <2>1 DEF Ended, Becomes, Targeted, Listed
  <2>6. Killing'
    BY <1>0, <2>1 DEF Killing, Linked, Becomes, Targeted
  <2>7. Joined'
    BY <1>0, <2>1, <2>2
    DEF Joined, Killing, JoinLabels, EndedStay, Becomes, Targeted
  <2>8. Asleep'
    BY <1>0, <2>1 DEF Asleep, JoinLabels, Becomes, Targeted
  <2>9. OneJoiner'
    BY <1>0, <2>1 DEF OneJoiner, Asleep, JoinLabels, Becomes, Targeted
  <2>. QED  BY <2>2, <2>3, <2>4, <2>5, <2>6, <2>7, <2>8, <2>9 DEF Order
<1>21. CASE SwitchRefused \/ Tick \/ UNCHANGED vars
  <2>1. /\ \/ switch' \in {"pending", switch}
           \/ switch' = "refused" /\ locked
        /\ UNCHANGED <<state, current, ready, funeral, joiner, locked, pc, arg,
                       corrupt>>
    BY <1>21 DEF SwitchRefused, Tick, Reschedule, lists, vars
  <2>2. EndedStay
    BY <1>0, <2>1 DEF EndedStay, Becomes, Targeted
  <2>3. Phases'
    BY <1>0, <2>1 DEF Phases, IdleLabels, JoinLabels, Becomes, Targeted
  <2>4. Listed'
    BY <1>0, <2>1 DEF Listed, Becomes, Targeted, Phases
  <2>5. Ended'
    BY <1>0, <2>1 DEF Ended, Becomes, Targeted
  <2>6. Killing'
    BY <1>0, <2>1 DEF Killing, Linked, Becomes, Targeted
  <2>7. Joined'
    BY <1>0, <2>1, <2>2
    DEF Joined, Killing, JoinLabels, EndedStay, Becomes, Targeted
  <2>8. Asleep'
    BY <1>0, <2>1 DEF Asleep, JoinLabels, Becomes, Targeted
  <2>9. OneJoiner'
    BY <1>0, <2>1 DEF OneJoiner, Asleep, JoinLabels, Becomes, Targeted
  <2>. QED  BY <2>2, <2>3, <2>4, <2>5, <2>6, <2>7, <2>8, <2>9 DEF Order
<1>22. ASSUME NEW t \in Threads \ {Idle}, Application(t)
       PROVE  Order' /\ EndedStay
  <2>1. CASE \E u \in Threads \ {Idle} : Resume(t, u)
    BY <2>1, <1>4 DEF Resume
  <2>2. CASE \/ t \in Joiners /\ \E u \in Joinable : JoinCall(t, u)
             \/ t \in LockUsers /\ \E u \in Killable : KillUnlink(t, u)
    BY <2>2, <1>8, <1>9
  <2>3. CASE \/ \E u \in Threads, p \in Priorities :
                  <<t, u>> \in Tunes /\ SetPriority(t, u, p)
             \/ \E u \in Inheriting, p \in Ceilings \union {0} :
                  SetInherited(t, u, p)
    BY <2>3, <1>6
  <2>4. CASE (t \in LockUsers /\ LockScheduler(t)) \/ UnlockScheduler(t)
    BY <2>4, <1>5
  <2>. QED  BY <1>22, <2>1, <2>2, <2>3, <2>4, <1>1, <1>3, <1>7
            DEF Application
<1>23. ASSUME NEW t \in Threads \ {Idle}, InsideCall(t)
       PROVE  Order' /\ EndedStay
  BY <1>23, <1>2, <1>3, <1>7a, <1>10, <1>11, <1>12, <1>13, <1>14, <1>15,
     <1>17
  DEF InsideCall
<1>24. CASE IdleLoop
  BY <1>a, <1>24, <1>16, <1>17, <1>18, <1>19 DEF IdleLoop
<1>25. ASSUME NEW u \in Threads, ResumeFromISR(u)
       PROVE  Order' /\ EndedStay
  BY <1>25, <1>4 DEF ResumeFromISR
<1>. QED
  BY <1>20, <1>21, <1>22, <1>23, <1>24, <1>25 DEF Next
-----------------------------------------------------------------------------
\* The lists are in order at the start.
LEMMA OrderInit == Init => Order
<1>. SUFFICES ASSUME Init
              PROVE  Order
  OBVIOUS
<1>. USE NamesAssumption
<1>1. /\ ToSet(ready) = {Idle} /\ ToSet(funeral) = {}
  <2>1. ready = <<Idle>> /\ funeral = <<>>
    BY DEF Init
  <2>. QED  BY <2>1 DEF ToSet
<1>2. /\ current = Main /\ switch = "none" /\ locked = FALSE /\ corrupt = FALSE
      /\ \A t \in Threads :
           /\ state[t] = IF t = Main THEN "running"
                         ELSE IF t = Idle THEN "ready" ELSE "undefined"
           /\ pc[t] = IF t = Idle THEN "idle_check" ELSE "app"
           /\ arg[t] = NoThread /\ joiner[t] = NoThread
  BY DEF Init
<1>3. Phases
  BY <1>2 DEF Phases, IdleLabels, JoinLabels
<1>4. Listed
  BY <1>1, <1>2 DEF Listed
<1>5. Ended
  BY <1>2 DEF Ended
<1>6. Killing
  BY <1>2 DEF Killing
<1>7. Joined
  BY <1>2 DEF Joined
<1>8. Asleep
  BY <1>2 DEF Asleep, JoinLabels
<1>9. OneJoiner
  BY <1>2 DEF OneJoiner, JoinLabels
<1>. QED  BY <1>3, <1>4, <1>5, <1>6, <1>7, <1>8, <1>9 DEF Order

\* In an orderly application they stay so, and no step revives a thread.
LEMMA SpecOrder ==
  ASSUME Orderly
  PROVE  Spec => [](Base /\ IdleGivesWay /\ Order) /\ [][EndedStay]_vars
<1>1. Init => Base /\ IdleGivesWay /\ Order
  BY BaseInit, IdleInit, OrderInit
<1>2. Base /\ IdleGivesWay /\ Order /\ [Next]_vars =>
        (Base /\ IdleGivesWay /\ Order)' /\ [EndedStay]_vars
  BY BaseStep, IdleStep, OrderStep, Zenon
<1>. QED  BY <1>1, <1>2, PTL DEF Spec

\* The assertions of the lists hold and ready_node_ is never in two lists,
\* in every program that uses the calls in good order.
THEOREM ListsAreSound ==
  ASSUME Orderly
  PROVE  Spec => []ListsSound
<1>1. Base /\ Order => ListsSound
  <2>. SUFFICES ASSUME Base, Order
                PROVE  ListsSound
    OBVIOUS
  <2>1. /\ ready \in Seq(Threads) /\ NoDuplicates(ready)
        /\ funeral \in Seq(Threads) /\ NoDuplicates(funeral)
        /\ ToSet(ready) \intersect ToSet(funeral) = {}
    BY DEF Base, TypeOK, Apart
  <2>2. NoDuplicates(ready \o funeral)
    BY <2>1, ConcatDistinct
  <2>. QED  BY <2>2 DEF ListsSound, Order, Listed
<1>. QED  BY <1>1, SpecOrder, PTL

\* The states of the threads and the lists they are in agree.
THEOREM NoThreadIsLost ==
  ASSUME Orderly
  PROVE  Spec => []NoThreadLost
<1>1. Base /\ Order => NoThreadLost
  BY DEF NoThreadLost, BeingDestroyed, Base, TypeOK, Order, Listed
<1>. QED  BY <1>1, SpecOrder, PTL

\* No step brings a terminated or destroyed thread back.
THEOREM EndIsFinal ==
  ASSUME Orderly
  PROVE  Spec => NobodyComesBack
BY SpecOrder, PTL DEF NobodyComesBack, EndedStay

\* What a step must leave alone for a sleeper in join() to keep its prospects:
\* where the sleeper is, its target's joiner, and whoever is about to wake it.
LEMMA StillReturns ==
  ASSUME NEW t \in Threads, AsleepInJoin(t), WillReturn(t),
         \A x \in Threads :
           \/ x = t
           \/ arg[x] = arg[t] /\ pc[x] \in {"wake_joiner", "idle_wake_joiner"}
           => pc'[x] = pc[x] /\ arg'[x] = arg[x],
         joiner'[arg[t]] = joiner[arg[t]],
         state'[arg[t]] = "destroyed" => state[arg[t]] = "destroyed"
  PROVE  WillReturn(t)'
BY DEF AsleepInJoin, WillReturn, AboutToBeWoken

\* No step strands a sleeper.
LEMMA EndWakesJoinerStep ==
  ASSUME Orderly, Base, Order, [Next]_vars,
         NEW t \in Threads, AsleepInJoin(t), WillReturn(t), AsleepInJoin(t)'
  PROVE  WillReturn(t)'
<1>. DEFINE b == arg[t]
<1>1. TypeOK /\ Idle \in Threads /\ b \in Threads /\ NoThread \notin Threads
  BY NamesAssumption DEF Base, TypeOK, ReferencesKnown, Targeted, AsleepInJoin
<1>2. pc[t] = "join_test" /\ state[t] = "suspended" /\ pc'[t] = "join_test"
  BY DEF AsleepInJoin
<1>3. joiner[b] = t /\ ~ Linked(t)
  BY <1>1, <1>2 DEF Order, OneJoiner, Listed, Linked
<1>. HIDE DEF b
<1>4. ASSUME UNCHANGED <<pc, arg, joiner>>,
             state'[b] = "destroyed" => state[b] = "destroyed"
      PROVE  WillReturn(t)'
  BY <1>4, StillReturns DEF b
<1>5. ASSUME NEW v \in Threads,
             pc[v] \notin {"join_test", "wake_joiner", "idle_wake_joiner"},
             \A x \in Threads \ {v} : pc'[x] = pc[x] /\ arg'[x] = arg[x],
             joiner'[b] = joiner[b],
             state'[b] = "destroyed" => state[b] = "destroyed"
      PROVE  WillReturn(t)'
  BY <1>2, <1>5, StillReturns DEF b
<1>6. ASSUME NEW v \in Threads, ResumeThread(v)
      PROVE  state'[b] = "destroyed" => state[b] = "destroyed"
  BY <1>1, <1>6 DEF ResumeThread, TypeOK
<1>7. ASSUME NEW v \in Threads \ {Idle}, Application(v)
      PROVE  WillReturn(t)'
  <2>1. /\ pc[v] = "app" /\ joiner' = joiner
        /\ \A x \in Threads \ {v} : pc'[x] = pc[x] /\ arg'[x] = arg[x]
    BY <1>1, <1>7
    DEF Application, CreateThread, Suspend, Resume, LockScheduler,
        UnlockScheduler, SetPriority, SetInherited, ExitUnlink, JoinCall,
        KillUnlink, At, Goto, GotoWith, TypeOK
  <2>2. state'[b] = "destroyed" => state[b] = "destroyed"
    <3>1. CASE \E u \in Threads \ {Idle} : Resume(v, u)
      BY <1>6, <3>1 DEF Resume
    <3>. QED
      BY <1>1, <1>7, <3>1
      DEF Application, CreateThread, Suspend, SuspendSelf, LockScheduler,
          UnlockScheduler, SetPriority, SetInherited, ExitUnlink, JoinCall,
          KillUnlink, TypeOK
  <2>. QED  BY <1>5, <2>1, <2>2
<1>8. ASSUME NEW v \in Threads,
             \/ Yield(v) \/ TestReady(v) \/ RelinkReady(v) \/ ExitUnlock(v)
             \/ ExitBury(v) \/ JoinSuspend(v)
             \/ v = Idle /\ (IdleCheck \/ IdleWait \/ IdlePop \/ IdleYield)
      PROVE  WillReturn(t)'
  <2>1. /\ pc[v] \notin {"join_test", "wake_joiner", "idle_wake_joiner"}
        /\ joiner' = joiner
        /\ \A x \in Threads \ {v} : pc'[x] = pc[x] /\ arg'[x] = arg[x]
    BY <1>1, <1>8
    DEF Yield, TestReady, RelinkReady, ExitUnlock, ExitBury, JoinSuspend,
        IdleCheck, IdleWait, IdlePop, IdleYield, At, Goto, GotoWith, TypeOK
  <2>2. state'[b] = "destroyed" => state[b] = "destroyed"
    BY <1>1, <1>8
    DEF Yield, TestReady, RelinkReady, ExitUnlock, ExitBury, JoinSuspend,
        SuspendSelf, IdleCheck, IdleWait, IdlePop, IdleYield, TypeOK
  <2>. QED  BY <1>5, <2>1, <2>2
<1>9. ASSUME NEW v \in Threads, JoinTest(v)
      PROVE  WillReturn(t)'
  <2>1. v # t
    BY <1>1, <1>2, <1>9 DEF JoinTest, Goto, GotoWith, TypeOK
  <2>2. /\ pc[v] = "join_test" /\ UNCHANGED <<state, joiner>>
        /\ \A x \in Threads \ {v} : pc'[x] = pc[x] /\ arg'[x] = arg[x]
    BY <1>1, <1>9 DEF JoinTest, At, Goto, GotoWith, TypeOK
  <2>. QED  BY <2>1, <2>2, StillReturns
<1>10. ASSUME NEW v \in Threads, JoinSet(v)
       PROVE  WillReturn(t)'
  <2>1. /\ pc[v] = "join_set" /\ UNCHANGED state
        /\ joiner' = [joiner EXCEPT ![arg[v]] = v]
        /\ \A x \in Threads \ {v} : pc'[x] = pc[x] /\ arg'[x] = arg[x]
    BY <1>1, <1>10 DEF JoinSet, At, Goto, TypeOK
  <2>2. arg[v] # b
    BY <1>1, <1>2, <2>1 DEF Order, OneJoiner, JoinLabels, b
  <2>. QED  BY <1>1, <1>5, <2>1, <2>2 DEF TypeOK
<1>11. ASSUME NEW v \in Threads, KillDestroy(v) \/ (v = Idle /\ IdleDestroy)
       PROVE  WillReturn(t)'
  <2>1. /\ pc[v] \in {"destroy", "idle_destroy"} /\ UNCHANGED <<joiner, arg>>
        /\ state' = [state EXCEPT ![arg[v]] = "destroyed"]
        /\ pc'[v] \in {"wake_joiner", "idle_wake_joiner"}
        /\ \A x \in Threads \ {v} : pc'[x] = pc[x]
    BY <1>1, <1>11 DEF KillDestroy, IdleDestroy, Destroy, At, Goto, TypeOK
  <2>2. CASE arg[v] = b
    BY <1>3, <2>1, <2>2 DEF WillReturn, AboutToBeWoken, b
  <2>3. CASE arg[v] # b
    BY <1>1, <1>5, <2>1, <2>3 DEF TypeOK
  <2>. QED  BY <2>2, <2>3
<1>12. ASSUME NEW v \in Threads, KillWakeJoiner(v) \/ (v = Idle /\ IdleWakeJoiner)
       PROVE  WillReturn(t)'
  <2>1. /\ pc[v] \in {"wake_joiner", "idle_wake_joiner"} /\ WakeJoiner(v)
        /\ UNCHANGED joiner
        /\ \A x \in Threads \ {v} : pc'[x] = pc[x] /\ arg'[x] = arg[x]
    BY <1>1, <1>12
    DEF KillWakeJoiner, IdleWakeJoiner, At, GotoWith, TypeOK
  <2>2. arg[v] # b
    <3>. SUFFICES ASSUME arg[v] = b
                  PROVE  FALSE
      OBVIOUS
    <3>1. ResumeThread(t)
      BY <1>1, <1>3, <2>1 DEF WakeJoiner
    <3>2. state'[t] = "ready"
      BY <1>1, <1>3, <3>1 DEF ResumeThread, TypeOK
    <3>. QED  BY <3>2 DEF AsleepInJoin
  <2>3. state'[b] = "destroyed" => state[b] = "destroyed"
    <3>1. CASE joiner[arg[v]] = NoThread
      BY <2>1, <3>1 DEF WakeJoiner
    <3>2. CASE joiner[arg[v]] # NoThread
      <4>1. arg[v] \in Threads /\ joiner[arg[v]] \in Threads
        BY <1>1, <2>1, <3>2 DEF Base, ReferencesKnown, Targeted, TypeOK
      <4>. QED  BY <1>6, <2>1, <3>2, <4>1 DEF WakeJoiner
    <3>. QED  BY <3>1, <3>2
  <2>. QED  BY <1>2, <2>1, <2>2, <2>3, StillReturns DEF b
<1>13. CASE SwitchThreads
  BY <1>1, <1>4, <1>13 DEF SwitchThreads
<1>14. CASE SwitchRefused \/ Tick \/ UNCHANGED vars
  BY <1>4, <1>14 DEF SwitchRefused, Tick, vars
<1>15. ASSUME NEW u \in Threads, ResumeFromISR(u)
       PROVE  WillReturn(t)'
  BY <1>4, <1>6, <1>15 DEF ResumeFromISR
<1>16. ASSUME NEW v \in Threads \ {Idle}, InsideCall(v)
       PROVE  WillReturn(t)'
  BY <1>8, <1>9, <1>10, <1>11, <1>12, <1>16 DEF InsideCall
<1>17. CASE IdleLoop
  BY <1>1, <1>8, <1>11, <1>12, <1>17 DEF IdleLoop
<1>. QED
  BY <1>7, <1>13, <1>14, <1>15, <1>16, <1>17 DEF Next

\* In an orderly application, whose targets may be killed, no step strands a
\* thread that sleeps in join(): it is woken when its target ends.
THEOREM EndsWakeJoiners ==
  ASSUME Orderly
  PROVE  Spec => EndWakesJoiner
<1>. DEFINE Stays == \A t \in Threads : AsleepInJoin(t) /\ WillReturn(t)
                       => ~ AsleepInJoin(t)' \/ WillReturn(t)'
<1>1. Base /\ Order /\ [Next]_vars => Stays
  BY EndWakesJoinerStep
<1>. QED  BY <1>1, SpecOrder, PTL DEF Spec, EndWakesJoiner

\* A thread inside join() waits for one of the threads that may be joined.
JoinTargets ==
  \A t \in Threads : pc[t] \in JoinLabels => arg[t] \in Joinable

LEMMA JoinTargetsStep ==
  Base /\ JoinTargets /\ [Next]_vars => JoinTargets'
<1>. SUFFICES ASSUME Base, JoinTargets, [Next]_vars, NEW t \in Threads,
                     pc'[t] \in JoinLabels
              PROVE  arg'[t] \in Joinable
  BY DEF JoinTargets
<1>1. TypeOK
  BY DEF Base
<1>2. pc'[t] = pc[t] /\ arg'[t] = arg[t] => arg'[t] \in Joinable
  BY DEF JoinTargets
<1>3. ASSUME NEW v \in Threads,
             \A x \in Threads \ {v} : pc'[x] = pc[x] /\ arg'[x] = arg[x],
             pc'[v] \in JoinLabels => pc[v] \in JoinLabels /\ arg'[v] = arg[v]
      PROVE  arg'[t] \in Joinable
  BY <1>3 DEF JoinTargets
<1>4. ASSUME NEW v \in Threads \ {Idle}, NEW u \in Joinable, JoinCall(v, u)
      PROVE  arg'[t] \in Joinable
  BY <1>1, <1>4 DEF JoinCall, GotoWith, JoinTargets, TypeOK
<1>5. ASSUME NEW v \in Threads \ {Idle}, Application(v)
      PROVE  arg'[t] \in Joinable
  <2>1. CASE \E u \in Joinable : JoinCall(v, u)
    BY <1>4, <1>5, <2>1
  <2>2. CASE ~ \E u \in Joinable : JoinCall(v, u)
    <3>1. /\ \A x \in Threads \ {v} : pc'[x] = pc[x] /\ arg'[x] = arg[x]
          /\ pc'[v] \in JoinLabels => pc[v] \in JoinLabels /\ arg'[v] = arg[v]
      BY <1>1, <1>5, <2>2
      DEF Application, CreateThread, Suspend, Resume, LockScheduler,
          UnlockScheduler, SetPriority, SetInherited, ExitUnlink, KillUnlink,
          At, Goto, GotoWith, JoinLabels, TypeOK
    <3>. QED  BY <1>3, <3>1
  <2>. QED  BY <2>1, <2>2
<1>6. ASSUME NEW v \in Threads \ {Idle}, InsideCall(v)
      PROVE  arg'[t] \in Joinable
  <2>1. /\ \A x \in Threads \ {v} : pc'[x] = pc[x] /\ arg'[x] = arg[x]
        /\ pc'[v] \in JoinLabels => pc[v] \in JoinLabels /\ arg'[v] = arg[v]
    BY <1>1, <1>6
    DEF InsideCall, Yield, TestReady, RelinkReady, ExitUnlock, ExitBury,
        JoinTest, JoinSet, JoinSuspend, KillDestroy, Destroy, KillWakeJoiner,
        At, Goto, GotoWith, JoinLabels, TypeOK
  <2>. QED  BY <1>3, <2>1
<1>7. CASE IdleLoop
  <2>1. /\ Idle \in Threads
        /\ \A x \in Threads \ {Idle} : pc'[x] = pc[x] /\ arg'[x] = arg[x]
        /\ pc'[Idle] \notin JoinLabels
    BY <1>1, <1>7, NamesAssumption
    DEF IdleLoop, IdleCheck, IdleWait, IdlePop, IdleDestroy, Destroy,
        IdleWakeJoiner, IdleYield, At, Goto, GotoWith, JoinLabels, TypeOK
  <2>. QED  BY <1>3, <2>1
<1>8. CASE SwitchThreads \/ SwitchRefused \/ Tick \/ UNCHANGED vars
  BY <1>2, <1>8 DEF SwitchThreads, SwitchRefused, Tick, vars
<1>9. ASSUME NEW u \in Threads, ResumeFromISR(u)
      PROVE  arg'[t] \in Joinable
  BY <1>2, <1>9 DEF ResumeFromISR
<1>. QED
  BY <1>5, <1>6, <1>7, <1>8, <1>9 DEF Next

\* In an orderly application that kills no thread somebody may join, a thread
\* asleep in join() on a destroyed thread is about to be woken.
THEOREM JoinersGetWoken ==
  ASSUME Orderly, Joinable \intersect Killable = {}
  PROVE  Spec => []JoinersAreWoken
<1>1. Base /\ Order /\ JoinTargets => JoinersAreWoken
  <2>. SUFFICES ASSUME Base, Order, JoinTargets, NEW t \in Threads,
                       AsleepInJoin(t), state[arg[t]] = "destroyed"
                PROVE  AboutToBeWoken(t)
    BY DEF JoinersAreWoken
  <2>1. arg[t] \in Threads /\ Idle \in Threads /\ arg[t] \notin Killable
    BY NamesAssumption
    DEF Base, TypeOK, ReferencesKnown, Targeted, JoinTargets, JoinLabels,
        AsleepInJoin
  <2>2. joiner[arg[t]] = t
    BY <2>1 DEF Order, OneJoiner, AsleepInJoin
  <2>3. pc[Idle] = "idle_wake_joiner" /\ arg[Idle] = arg[t]
    BY <2>1 DEF Order, OneJoiner, AsleepInJoin
  <2>. QED  BY <2>1, <2>2, <2>3 DEF AboutToBeWoken
<1>2. Init => JoinTargets
  BY DEF Init, JoinTargets, JoinLabels
<1>. QED  BY <1>1, <1>2, JoinTargetsStep, SpecOrder, PTL DEF Spec
-----------------------------------------------------------------------------
(***************************************************************************)
(* Fixed priority scheduling: the ready list is sorted by the effective    *)
(* priorities and the most urgent thread runs, in every program whose      *)
(* threads change no priority but their own.                               *)
(***************************************************************************)

\* A thread changes its own assigned priority, and does not lock the
\* scheduler.  (A thread changed by another one, or resumed by an interrupt
\* while it runs with the scheduler locked, is in the ready list with a
\* priority by which it was not linked: see Moving.)
OwnPriorities ==
  /\ Inheriting = {}
  /\ \A t, u \in Threads : <<t, u>> \in Tunes => t = u /\ t \notin LockUsers

\* Not in the middle of a priority change.
Elsewhere == {"app", "yield", "unlinked", "bury", "gone", "join_test",
              "join_set", "join_suspend", "destroy", "wake_joiner",
              "idle_check", "idle_pop", "idle_destroy", "idle_wake_joiner",
              "idle_yield"}

MostUrgent ==
  switch = "none" /\ pc[current] \notin {"yield", "changed"} =>
    \A t \in ToSet(ready) : Priority[t] <= Priority[current]

\* A thread that changes its own priority runs, so it never has to be moved
\* within the list: when it is preempted it is linked by the new one.
Scheduled ==
  /\ \A t \in Threads : inherited[t] = 0
  /\ \A t \in Threads : pc[t] # "relink"
  /\ \A t \in Threads : pc[t] = "changed" => arg[t] = t /\ t \notin LockUsers
  /\ SortedByPriority(ready, Priority)
  /\ MostUrgent

\* The ready list is in order at the start, and nothing in it is above main.
LEMMA ScheduledInit == Init => Scheduled
<1>. SUFFICES ASSUME Init
              PROVE  Scheduled
  OBVIOUS
<1>1. SortedByPriority(ready, Priority)
  BY DEF Init, SortedByPriority
<1>2. MostUrgent
  <2>1. ToSet(ready) = {Idle}
    BY DEF Init, ToSet
  <2>2. current = Main /\ Main \in Threads /\ Idle \in Threads
    BY NamesAssumption DEF Init
  <2>3. /\ assigned[Idle] = IdlePriority /\ assigned[Main] \in Priorities
        /\ inherited[Idle] = 0 /\ inherited[Main] = 0
    BY <2>2, NamesAssumption DEF Init
  <2>4. /\ assigned[Main] \in Nat /\ assigned[Main] > IdlePriority
        /\ IdlePriority \in Nat
    BY <2>3, PriorityAssumption
  <2>5. Priority[Idle] = assigned[Idle] /\ Priority[Main] = assigned[Main]
    BY <2>2, <2>3, <2>4 DEF Priority
  <2>. QED  BY <2>1, <2>2, <2>3, <2>4, <2>5 DEF MostUrgent
<1>. QED  BY <1>1, <1>2 DEF Init, Scheduled

\* What LinkSorted says of the list of ready threads.
LEMMA LinkByPriority ==
  ASSUME TypeOK, NEW l \in Seq(Threads), NEW t \in Threads,
         SortedByPriority(l, Priority)
  PROVE  SortedByPriority(Link(l, t, Priority), Priority)
<1>1. Priority \in [Threads -> Nat]
  BY PriorityType
<1>. HIDE DEF Priority
<1>. QED  BY <1>1, LinkSorted

\* resume() links by priority, hence keeps the ready list sorted.
LEMMA ResumeByPriority ==
  ASSUME TypeOK, NEW u \in Threads, ResumeThread(u),
         SortedByPriority(ready, Priority)
  PROVE  SortedByPriority(ready', Priority)
<1>1. ready \in Seq(Threads)
  BY DEF TypeOK
<1>2. CASE Linked(u)
  BY <1>2 DEF ResumeThread
<1>3. CASE ~ Linked(u)
  BY <1>1, <1>3, LinkByPriority DEF ResumeThread
<1>. QED  BY <1>2, <1>3
-----------------------------------------------------------------------------
\* Every step keeps the ready list sorted and the running thread the most
\* urgent or about to give way.
LEMMA ScheduledStep ==
  Orderly /\ OwnPriorities /\ Base /\ Order /\ Scheduled /\ [Next]_vars
    => Scheduled'
<1>. SUFFICES ASSUME Orderly, OwnPriorities, Base, Order, Scheduled,
                     [Next]_vars
              PROVE  Scheduled'
  OBVIOUS
<1>0. /\ TypeOK /\ Apart /\ ReferencesKnown
      /\ ready \in Seq(Threads) /\ NoDuplicates(ready)
      /\ current \in Threads /\ Idle \in Threads
      /\ pc \in [Threads -> Elsewhere \union {"changed", "relink"}]
      /\ arg \in [Threads -> Threads \union {NoThread}]
      /\ SortedByPriority(ready, Priority)
  BY NamesAssumption DEF Base, TypeOK, Apart, Scheduled, Elsewhere
<1>00. Priority \in [Threads -> Nat]
  BY <1>0, PriorityType
\* Steps that change no priority.
<1>a. ASSUME UNCHANGED <<assigned, inherited>>,
             SortedByPriority(ready', Priority),
             \A t \in Threads : pc'[t] \in {"changed", "relink"} =>
                                  pc'[t] = pc[t] /\ arg'[t] = arg[t],
             \/ switch' # "none"
             \/ pc'[current'] = "yield"
             \/ /\ switch' = switch /\ current' = current
                /\ pc[current] \notin {"yield", "changed"}
                /\ ToSet(ready') \subseteq ToSet(ready)
             \/ \A t \in ToSet(ready') : Priority[t] <= Priority[current']
      PROVE  Scheduled'
  <2>1. Priority' = Priority
    BY <1>a DEF Priority
  <2>2. MostUrgent'
    BY <1>0, <1>a, <2>1 DEF Scheduled, MostUrgent
  <2>. QED  BY <1>a, <2>1, <2>2 DEF Scheduled
\* A step at which the current thread goes from one place to another, and
\* that leaves the ready list alone or takes a thread out of it.
<1>b. ASSUME NEW t \in Threads, t = current, NEW l \in Elsewhere,
             pc' = [pc EXCEPT ![t] = l],
             arg' = arg \/ \E u : arg' = [arg EXCEPT ![t] = u],
             pc[t] \notin {"yield", "changed"} \/ l = "yield"
               \/ switch' = "pending",
             ready' = ready \/ \E u : ready' = Unlink(ready, u),
             switch' \in {switch, "pending"},
             UNCHANGED <<current, assigned, inherited>>
      PROVE  Scheduled'
  <2>1. SortedByPriority(ready', Priority)
    BY <1>0, <1>b, UnlinkSorted
  <2>2. ToSet(ready') \subseteq ToSet(ready)
    BY <1>0, <1>b, UnlinkElements
  <2>3. \A v \in Threads : pc'[v] \in {"changed", "relink"} =>
                             pc'[v] = pc[v] /\ arg'[v] = arg[v]
    BY <1>0, <1>b DEF Elsewhere
  <2>. QED  BY <1>0, <1>a, <1>b, <2>1, <2>2, <2>3
\* thread::resume.
<1>c. ASSUME NEW u \in Threads, ResumeThread(u),
             UNCHANGED <<current, priorities, locked, pc, arg>>
      PROVE  Scheduled'
  <2>1. SortedByPriority(ready', Priority)
    BY <1>0, <1>c, ResumeByPriority
  <2>. QED  BY <1>a, <1>c, <2>1 DEF ResumeThread, Reschedule, priorities
<1>1. ASSUME NEW t \in Threads \ {Idle}, NEW u \in Creatable,
             NEW p \in Priorities, CreateThread(t, u, p)
      PROVE  Scheduled'
  <2>. DEFINE prio == [Priority EXCEPT ![u] = p]
  <2>1. /\ u \in Threads /\ p \in Nat /\ u \notin ToSet(ready) /\ current = t
        /\ ready' = Link(ready, u, prio)
        /\ assigned' = [assigned EXCEPT ![u] = p]
        /\ pc' = [pc EXCEPT ![t] = "yield"]
        /\ UNCHANGED <<current, inherited, locked, switch, arg>>
    BY <1>0, <1>1, RolesAssumption, PriorityAssumption
    DEF CreateThread, At, Goto, ReferencesKnown
  <2>2. /\ prio \in [Threads -> Nat]
        /\ \A v \in ToSet(ready) : prio[v] = Priority[v]
    <3>1. ToSet(ready) \subseteq Threads
      BY <1>0, ListedThreads
    <3>. HIDE DEF Priority
    <3>. QED  BY <1>00, <2>1, <3>1
  <2>3. Priority' = prio
    <3>1. \A v \in Threads : inherited[v] = 0 /\ assigned[v] \in Nat
      BY <1>0 DEF Scheduled, TypeOK
    <3>2. \A v \in Threads : assigned'[v] = IF v = u THEN p ELSE assigned[v]
      BY <1>0, <2>1 DEF TypeOK
    <3>3. Priority' = [v \in Threads |-> assigned'[v]]
      BY <2>1, <3>1, <3>2 DEF Priority
    <3>4. Priority = [v \in Threads |-> assigned[v]]
      BY <3>1 DEF Priority
    <3>. QED  BY <3>2, <3>3, <3>4
  <2>. HIDE DEF prio
  <2>4. SortedByPriority(ready, prio)
    BY <1>0, <2>2, SortedAgrees
  <2>5. SortedByPriority(ready', Priority')
    BY <1>0, <2>1, <2>2, <2>3, <2>4, LinkSorted
  <2>6. MostUrgent'
    BY <1>0, <2>1 DEF MostUrgent
  <2>. QED  BY <1>0, <2>1, <2>5, <2>6 DEF Scheduled
<1>2. ASSUME NEW t \in Threads, Suspend(t)
      PROVE  Scheduled'
  <2>1. /\ ready' = Unlink(ready, t) /\ switch' = "pending"
        /\ UNCHANGED <<current, assigned, inherited, locked, pc, arg>>
    BY <1>2 DEF Suspend, SuspendSelf, Reschedule, priorities
  <2>2. SortedByPriority(ready', Priority)
    BY <1>0, <2>1, UnlinkSorted
  <2>. QED  BY <1>a, <2>1, <2>2
<1>3. ASSUME NEW t \in Threads \ {Idle},
             UnlockScheduler(t) \/ LockScheduler(t)
      PROVE  Scheduled'
  <2>1. /\ UNCHANGED <<current, ready, assigned, inherited, switch, pc, arg>>
        /\ pc[current] = "app"
    BY <1>3 DEF UnlockScheduler, LockScheduler, At, lists, priorities
  <2>. QED  BY <1>0, <1>a, <2>1
<1>4. ASSUME NEW t \in Threads \ {Idle}, Yield(t)
      PROVE  Scheduled'
  BY <1>0, <1>b, <1>4 DEF Yield, At, Goto, Reschedule, lists, priorities,
     Elsewhere
<1>5. ASSUME NEW t \in Threads \ {Idle}, NEW u \in Threads,
             NEW p \in Priorities, <<t, u>> \in Tunes, SetPriority(t, u, p)
      PROVE  Scheduled'
  <2>1. /\ u = t /\ t \notin LockUsers /\ t = current /\ switch # "pending"
        /\ p \in Nat
        /\ assigned' = [assigned EXCEPT ![t] = p]
        /\ pc' = [pc EXCEPT ![t] = "changed"]
        /\ arg' = [arg EXCEPT ![t] = t]
        /\ UNCHANGED <<ready, current, inherited, switch>>
    BY <1>5, PriorityAssumption
    DEF OwnPriorities, SetPriority, At, GotoWith, lists
  <2>2. t \notin ToSet(ready)
    BY <2>1 DEF Order, Listed
  <2>3. \A v \in ToSet(ready) : Priority'[v] = Priority[v]
    <3>1. \A v \in Threads \ {t} : assigned'[v] = assigned[v]
      BY <1>0, <2>1 DEF TypeOK
    <3>2. ToSet(ready) \subseteq Threads
      BY <1>0, ListedThreads
    <3>. QED  BY <2>1, <2>2, <3>1, <3>2 DEF Priority
  <2>4. SortedByPriority(ready', Priority')
    <3>. DEFINE old == Priority
                new == Priority'
    <3>1. /\ \A v \in ToSet(ready) : old[v] = new[v]
          /\ SortedByPriority(ready, old)
      BY <1>0, <2>3
    <3>. HIDE DEF old, new
    <3>2. SortedByPriority(ready, new)
      BY <3>1, SortedAgrees
    <3>. QED  BY <2>1, <3>2 DEF new
  <2>5. MostUrgent'
    BY <1>0, <2>1 DEF MostUrgent
  <2>. QED  BY <1>0, <2>1, <2>4, <2>5 DEF Scheduled
<1>6. ASSUME NEW t \in Threads \ {Idle}, TestReady(t)
      PROVE  Scheduled'
  <2>1. /\ t = current /\ switch # "pending" /\ pc[t] = "changed"
        /\ arg[t] = t /\ t \notin LockUsers
    BY <1>6 DEF TestReady, At, Scheduled
  <2>2. state[t] = "running"
    BY <2>1 DEF Order, Listed
  <2>. QED  BY <1>0, <1>b, <1>6, <2>1, <2>2
            DEF TestReady, Goto, lists, priorities, Elsewhere
<1>7. ASSUME NEW t \in Threads \ {Idle}, RelinkReady(t)
      PROVE  Scheduled'
  BY <1>7 DEF RelinkReady, At, Scheduled
<1>8. ASSUME NEW t \in Threads \ {Idle}, NEW u \in Threads,
             ExitUnlink(t) \/ KillUnlink(t, u)
      PROVE  Scheduled'
  BY <1>0, <1>b, <1>8
  DEF ExitUnlink, KillUnlink, UnlinkReadyNode, At, Goto, GotoWith, priorities,
      Elsewhere
<1>9. ASSUME NEW t \in Threads \ {Idle},
             ExitUnlock(t) \/ ExitBury(t) \/ JoinTest(t) \/ JoinSet(t)
               \/ JoinSuspend(t) \/ KillDestroy(t)
      PROVE  Scheduled'
  <2>1. /\ t = current /\ pc[t] \notin {"yield", "changed"}
        /\ \E l \in {"bury", "gone", "app", "join_set", "join_suspend",
                     "join_test", "wake_joiner"} : pc' = [pc EXCEPT ![t] = l]
        /\ arg' = arg \/ \E u : arg' = [arg EXCEPT ![t] = u]
        /\ ready' = ready \/ \E u : ready' = Unlink(ready, u)
        /\ switch' \in {switch, "pending"}
        /\ UNCHANGED <<current, assigned, inherited>>
    BY <1>9
    DEF ExitUnlock, ExitBury, JoinTest, JoinSet, JoinSuspend, KillDestroy,
        Destroy, SuspendSelf, Reschedule, At, Goto, GotoWith, lists, priorities
  <2>. QED  BY <1>b, <2>1 DEF Elsewhere
<1>10. ASSUME NEW t \in Threads \ {Idle}, NEW u \in Joinable, JoinCall(t, u)
       PROVE  Scheduled'
  BY <1>0, <1>b, <1>10
  DEF JoinCall, At, GotoWith, lists, priorities, Elsewhere
<1>11. ASSUME NEW t \in Threads,
              KillWakeJoiner(t) \/ (t = Idle /\ IdleWakeJoiner)
       PROVE  Scheduled'
  <2>1. /\ WakeJoiner(t) /\ arg[t] \in Threads /\ t = current
        /\ pc[t] \notin {"yield", "changed"}
        /\ \E l \in {"app", "idle_yield"} : pc' = [pc EXCEPT ![t] = l]
        /\ \E u : arg' = [arg EXCEPT ![t] = u]
        /\ UNCHANGED <<current, assigned, inherited>>
    BY <1>0, <1>11
    DEF KillWakeJoiner, IdleWakeJoiner, At, GotoWith, priorities,
        ReferencesKnown, Targeted
  <2>2. CASE joiner[arg[t]] = NoThread
    <3>1. UNCHANGED <<ready, switch>>
      BY <2>1, <2>2 DEF WakeJoiner, lists
    <3>. QED  BY <1>b, <2>1, <3>1 DEF Elsewhere
  <2>3. CASE joiner[arg[t]] # NoThread
    <3>1. joiner[arg[t]] \in Threads /\ ResumeThread(joiner[arg[t]])
      BY <1>0, <2>1, <2>3 DEF WakeJoiner, TypeOK
    <3>2. SortedByPriority(ready', Priority) /\ switch' = "pending"
      BY <1>0, <3>1, ResumeByPriority DEF ResumeThread, Reschedule
    <3>3. \A v \in Threads : pc'[v] \in {"changed", "relink"} =>
                               pc'[v] = pc[v] /\ arg'[v] = arg[v]
      BY <1>0, <2>1
    <3>. QED  BY <1>a, <2>1, <3>2, <3>3
  <2>. QED  BY <2>2, <2>3
<1>12. CASE IdleWait
  BY <1>0, <1>a, <1>12 DEF IdleWait, Reschedule, lists, priorities
<1>13. CASE IdleCheck \/ IdlePop \/ IdleDestroy \/ IdleYield
  <2>1. CASE pc' = pc /\ arg' = arg
    BY <1>0, <1>a, <1>13, <2>1
    DEF IdleCheck, IdlePop, IdleDestroy, Destroy, IdleYield, At,
        Reschedule, lists, priorities
  <2>2. CASE ~ (pc' = pc /\ arg' = arg)
    <3>1. /\ Idle = current /\ pc[Idle] \notin {"yield", "changed"}
          /\ \E l \in {"idle_pop", "idle_destroy", "idle_wake_joiner",
                       "idle_check"} : pc' = [pc EXCEPT ![Idle] = l]
          /\ arg' = arg \/ \E u : arg' = [arg EXCEPT ![Idle] = u]
          /\ ready' = ready /\ switch' \in {switch, "pending"}
          /\ UNCHANGED <<current, assigned, inherited>>
      BY <1>13, <2>2
      DEF IdleCheck, IdlePop, IdleDestroy, Destroy, IdleYield, At, Goto,
          GotoWith, Reschedule, lists, priorities
    <3>. QED  BY <1>0, <1>b, <3>1 DEF Elsewhere
  <2>. QED  BY <2>1, <2>2
<1>14. CASE SwitchThreads
  <2>1. /\ Candidates \in Seq(Threads) /\ Candidates # <<>>
        /\ current' = Head(Candidates) /\ ready' = Tail(Candidates)
        /\ UNCHANGED <<assigned, inherited, pc, arg>>
    BY <1>0, <1>14, CandidatesEffect DEF SwitchThreads, priorities
  <2>2. SortedByPriority(Candidates, Priority)
    BY <1>0, LinkByPriority DEF Candidates
  <2>. HIDE DEF Candidates
  <2>3. /\ SortedByPriority(ready', Priority)
        /\ \A t \in ToSet(ready') : Priority[current'] >= Priority[t]
    BY <2>1, <2>2, TailSorted
  <2>4. \A t \in ToSet(ready') : Priority[t] <= Priority[current']
    <3>1. ready' \in Seq(Threads) /\ current' \in Threads
      BY <2>1
    <3>2. ToSet(ready') \subseteq Threads
      BY <3>1 DEF ToSet
    <3>. HIDE DEF Priority
    <3>. QED  BY <1>00, <2>3, <3>1, <3>2
  <2>. QED  BY <1>a, <2>1, <2>3, <2>4
<1>15. CASE SwitchRefused \/ Tick
  BY <1>0, <1>a, <1>15
  DEF SwitchRefused, Tick, Reschedule, lists, priorities
<1>16. CASE UNCHANGED vars
  BY <1>16 DEF vars, Scheduled, MostUrgent, Priority
<1>17. ASSUME NEW t \in Threads \ {Idle}, Application(t)
       PROVE  Scheduled'
  <2>1. CASE \E u \in Threads \ {Idle} : Resume(t, u)
    BY <2>1, <1>c DEF Resume
  <2>2. CASE \E u \in Threads, p \in Priorities :
               <<t, u>> \in Tunes /\ SetPriority(t, u, p)
    BY <2>2, <1>5
  <2>3. CASE t \in LockUsers /\ \E u \in Killable : KillUnlink(t, u)
    BY <2>3, <1>8, RolesAssumption
  <2>4. CASE t \in Joiners /\ \E u \in Joinable : JoinCall(t, u)
    BY <2>4, <1>10
  <2>5. ~ \E u \in Inheriting, p \in Ceilings \union {0} : SetInherited(t, u, p)
    BY DEF OwnPriorities
  <2>6. CASE t \in Exiting /\ ExitUnlink(t)
    BY <1>8, <2>6
  <2>. QED  BY <1>17, <2>1, <2>2, <2>3, <2>4, <2>5, <2>6, <1>1, <1>2, <1>3
            DEF Application
<1>18. ASSUME NEW t \in Threads \ {Idle}, InsideCall(t)
       PROVE  Scheduled'
  BY <1>18, <1>4, <1>6, <1>7, <1>9, <1>11 DEF InsideCall
<1>19. CASE IdleLoop
  BY <1>0, <1>19, <1>11, <1>12, <1>13 DEF IdleLoop
<1>20. ASSUME NEW u \in Threads, ResumeFromISR(u)
       PROVE  Scheduled'
  BY <1>20, <1>c DEF ResumeFromISR
<1>. QED
  BY <1>14, <1>15, <1>16, <1>17, <1>18, <1>19, <1>20 DEF Next

\* So it is in every reachable state, when threads tune themselves only.
LEMMA SpecScheduled ==
  ASSUME Orderly, OwnPriorities
  PROVE  Spec => []Scheduled
<1>1. Base /\ Order /\ Scheduled /\ [Next]_vars => Scheduled'
  BY ScheduledStep, Zenon
<1>. QED  BY <1>1, ScheduledInit, SpecOrder, PTL DEF Spec
-----------------------------------------------------------------------------
\* The ready list is sorted by the effective priorities, whatever threads are
\* created, resumed, joined or killed, and whenever interrupts come.
THEOREM ReadyListIsSorted ==
  ASSUME Orderly, OwnPriorities
  PROVE  Spec => []ReadySorted
<1>1. Scheduled => ReadySorted
  BY DEF Scheduled, ReadySorted
<1>. QED  BY <1>1, SpecScheduled, PTL

\* No ready thread is more urgent than the one that executes, once requested
\* switches have happened and the thread is not about to yield.
THEOREM TheMostUrgentRuns ==
  ASSUME Orderly, OwnPriorities
  PROVE  Spec => []MostUrgentRuns
<1>1. Base /\ Scheduled => MostUrgentRuns
  BY DEF Base, TypeOK, Scheduled, MostUrgent, MostUrgentRuns, Moving
<1>. QED  BY <1>1, SpecScheduled, SpecBase, PTL
=============================================================================
