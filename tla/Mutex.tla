------------------------------- MODULE Mutex -------------------------------
(***************************************************************************)
(* rtos::mutex (os-mutex.cpp): ownership, recursion, the inherit and       *)
(* protect protocols, robustness, and the destruction of an owner.         *)
(*                                                                         *)
(* What the code does under one scheduler::critical_section is one action. *)
(* internal_try_lock_ leaves it (uncritical_section) to raise the owner,   *)
(* in accesses that are actions of their own: owner_ is read, boosted_prio_*)
(* is read, the priority is stored.  Nothing is assumed of the scheduler:  *)
(* outside of the critical sections any thread may take the next step.     *)
(***************************************************************************)
EXTENDS KernelLists, FiniteSets, FiniteSetsExt

CONSTANTS Threads, Mutexes,
          Casts,         \* the sets of threads that may exist together
          Calls,         \* of each mutex, the calls that each thread makes
          Prio,          \* the priorities the threads are created with
          Type,          \* type_: "normal", "errorcheck" or "recursive"
          Protocol,      \* protocol_: "none", "inherit" or "protect"
          Ceiling,       \* prio_ceiling_
          MaxCount,      \* max_count_
          Robust,        \* the mutexes with robustness::robust
          Interruptible, Killable,
          Resumable,     \* threads that may be woken for nothing
          Resettable,    \* the mutexes that may be reset,
          ResetOwned,    \* even while they have an owner
          NoThread, NoMutex

ASSUME NamesAssumption ==
  /\ IsFiniteSet(Threads) /\ IsFiniteSet(Mutexes)
  /\ Casts \subseteq SUBSET Threads
  /\ NoThread \notin Threads /\ NoMutex \notin Mutexes
ASSUME AttributesAssumption ==
  /\ Prio \in [Threads -> Nat \ {0}]
  /\ Type \in [Mutexes -> {"normal", "errorcheck", "recursive"}]
  /\ Protocol \in [Mutexes -> {"none", "inherit", "protect"}]
  /\ Ceiling \in [Mutexes -> Nat \ {0}]
  /\ MaxCount \in Nat \ {0}
ASSUME RolesAssumption ==
  /\ Robust \union Resettable \subseteq Mutexes
  /\ Calls \in [Mutexes -> [Threads -> SUBSET {"try", "lock", "timed"}]]
  /\ Interruptible \union Killable \union Resumable \subseteq Threads
  /\ ResetOwned \in BOOLEAN

\* Where a thread can be: in the application, at a point inside lock(),
\* timed_lock() or try_lock() where others run, or destroyed.
Raising == {"read_owner", "read_boost", "store"}
Labels == Raising \union {"app", "loop", "link", "asleep", "woken", "walk",
                          "restore", "gone"}

\* For what an owner's priority is changed: an attempt of one of the calls,
\* the ceiling of the caller's own mutex, or the end of a timed wait.
Reasons == {"try", "lock", "timed", "loop", "self", "restore"}

Users == [m \in Mutexes |-> {t \in Threads : Calls[m][t] # {}}]
TimedUsers(m) == {t \in Threads : "timed" \in Calls[m][t]}

VARIABLES mx,          \* the fields of each mutex
          held,        \* mutexes_ of each thread, the list of owner_links_
          acquired,    \* acquired_mutexes_
          waiters,     \* list_ of each mutex
          assigned,    \* prio_assigned_
          inherited,   \* prio_inherited_, 0 for priority::none
          suspended,   \* threads in state::suspended
          interrupted,
          patience,    \* of the call: "endless", "timed", then "over"
          pc, wants,   \* where each thread is, and the mutex of its call
          raise,       \* why it changes a priority, and what it has read
          fault        \* "null" if a null owner was used, "linked" if a linked
                       \* node was linked, "left" if an end left mutexes owned

vars == <<mx, held, acquired, waiters, assigned, inherited, suspended,
          interrupted, patience, pc, wants, raise, fault>>

Fresh == [owner |-> NoThread, count |-> 0, boosted |-> 0,
          dead |-> FALSE, consistent |-> TRUE, recoverable |-> TRUE]

NoRaise == [site |-> "none", owner |-> NoThread, prio |-> 0]

Init ==
  /\ mx = [m \in Mutexes |-> Fresh]
  /\ held = [t \in Threads |-> <<>>]
  /\ acquired = [t \in Threads |-> 0]
  /\ waiters = [m \in Mutexes |-> <<>>]
  /\ assigned = Prio
  /\ inherited = [t \in Threads |-> 0]
  /\ suspended = {}
  /\ interrupted = {}
  /\ patience = [t \in Threads |-> "endless"]
  /\ \E cast \in Casts :
       pc = [t \in Threads |-> IF t \in cast THEN "app" ELSE "gone"]
  /\ wants = [t \in Threads |-> NoMutex]
  /\ raise = [t \in Threads |-> NoRaise]
  /\ fault = "none"

Priority ==
  [t \in Threads |-> IF inherited[t] >= assigned[t] THEN inherited[t]
                                                    ELSE assigned[t]]

Runnable(t) == t \notin suspended /\ pc[t] # "gone"

At(t, label) == pc[t] = label /\ Runnable(t) /\ fault = "none"

Goto(t, label) ==
  pc' = [pc EXCEPT ![t] = label] /\ UNCHANGED <<wants, patience, raise>>

Return(t) ==
  /\ pc' = [pc EXCEPT ![t] = "app"]
  /\ wants' = [wants EXCEPT ![t] = NoMutex]
  /\ patience' = [patience EXCEPT ![t] = "endless"]
  /\ raise' = [raise EXCEPT ![t] = NoRaise]

\* Leaves the critical section for owner_->priority_inherited(boosted_prio_).
BeginRaise(t, m, reason) ==
  /\ pc' = [pc EXCEPT ![t] = "read_owner"]
  /\ wants' = [wants EXCEPT ![t] = m]
  /\ raise' = [raise EXCEPT ![t] = [NoRaise EXCEPT !.site = reason]]
  /\ UNCHANGED patience

\* owner_links_ is in the list of some thread.
Linked(m) == \E t \in Threads : m \in ToSet(held[t])

MaxOf(S) == Max(S \union {0})
-----------------------------------------------------------------------------
\* internal_try_lock_ of a mutex without an owner.  When the ceiling is below
\* the caller the owner is taken back, and nothing else.
TooUrgent(t, m) == Protocol[m] = "protect" /\ Priority[t] > Ceiling[m]

Acquire(t, m) ==
  /\ mx[m].owner = NoThread
  /\ mx' = [mx EXCEPT ![m].owner = IF TooUrgent(t, m) THEN NoThread ELSE t,
                      ![m].count = 1,
                      ![m].boosted =
                         IF Protocol[m] = "protect" /\ ~ TooUrgent(t, m)
                         THEN Ceiling[m] ELSE @]
  /\ fault' = IF Linked(m) THEN "linked" ELSE fault
  /\ held' = [held EXCEPT ![t] = Append(@, m)]
  /\ acquired' = [acquired EXCEPT ![t] = @ + 1]
  /\ IF ~ TooUrgent(t, m) /\ Protocol[m] = "protect"
          /\ Ceiling[m] > inherited[t]
       THEN BeginRaise(t, m, "self")
       ELSE Return(t)
  /\ UNCHANGED <<waiters, suspended>>

\* Mutant: the limit is tested after counting.
RelockPastLimit(t, m) ==
  /\ mx[m].owner = t
  /\ Type[m] # "normal"
  /\ mx' = IF Type[m] = "recursive" THEN [mx EXCEPT ![m].count = @ + 1] ELSE mx
  /\ Return(t)
  /\ UNCHANGED <<held, acquired, waiters, suspended, fault>>

\* The owner locks again: counted, or an error and no change.
Relock(t, m) ==
  /\ mx[m].owner = t
  /\ Type[m] # "normal"
  /\ mx' = IF Type[m] = "recursive" /\ mx[m].count < MaxCount
           THEN [mx EXCEPT ![m].count = @ + 1] ELSE mx
  /\ Return(t)
  /\ UNCHANGED <<held, acquired, waiters, suspended, fault>>

\* Where a call goes when internal_try_lock_ returns EWOULDBLOCK: try_lock()
\* returns, the first attempt of lock() and timed_lock() is followed by the
\* loop, and the loop links the node, still in the same critical section.
LinkNode(t, m) ==
  /\ waiters' = [waiters EXCEPT ![m] = Link(@, t, Priority)]
  /\ suspended' = suspended \union {t}
  /\ pc' = [pc EXCEPT ![t] = "asleep"]
  /\ raise' = [raise EXCEPT ![t] = NoRaise]
  /\ UNCHANGED <<wants, patience>>

EnterLoop(t, m, site) ==
  /\ pc' = [pc EXCEPT ![t] = "loop"]
  /\ wants' = [wants EXCEPT ![t] = m]
  /\ patience' = [patience EXCEPT ![t] =
                    IF site = "timed" THEN "timed" ELSE "endless"]
  /\ raise' = [raise EXCEPT ![t] = NoRaise]

WouldBlock(t, m, site) ==
  \/ site = "try" /\ Return(t) /\ UNCHANGED <<waiters, suspended>>
  \/ site \in {"lock", "timed"} /\ EnterLoop(t, m, site)
       /\ UNCHANGED <<waiters, suspended>>
  \/ site = "loop" /\ LinkNode(t, m)

\* Somebody else owns it, or the caller itself and it is normal: with inherit
\* the other is about to be raised, if its inherited priority is lower.
Contend(t, m, site) ==
  /\ mx[m].owner # NoThread
  /\ mx[m].owner = t => Type[m] = "normal"
  /\ IF Protocol[m] = "inherit" /\ mx[m].owner # t
       THEN /\ mx' = [mx EXCEPT ![m].boosted = Priority[t]]
            /\ held' = IF Linked(m) THEN held
                       ELSE [held EXCEPT ![mx[m].owner] = Append(@, m)]
            /\ IF Priority[t] > inherited[mx[m].owner]
                 THEN /\ BeginRaise(t, m, site)
                      /\ UNCHANGED <<waiters, suspended>>
                 ELSE WouldBlock(t, m, site)
       ELSE UNCHANGED <<mx, held>> /\ WouldBlock(t, m, site)
  /\ UNCHANGED <<acquired, fault>>

TryLockInternal(t, m, site) ==
  /\ Acquire(t, m) \/ Relock(t, m) \/ Contend(t, m, site)
  /\ UNCHANGED <<assigned, inherited, interrupted>>

\* owner_->priority_inherited(boosted_prio_) outside the critical section, and
\* owner_->priority(boosted_prio_) where timed_lock() gives up: owner_ is read,
\* then boosted_prio_, then the priority is stored, wherever it belongs by now.
ReadOwner(t) ==
  LET o == mx[wants[t]].owner IN
  /\ At(t, "read_owner")
  /\ IF o = NoThread
       THEN fault' = "null" /\ UNCHANGED <<pc, raise>>
       ELSE /\ raise' = [raise EXCEPT ![t].owner = o]
            /\ pc' = [pc EXCEPT ![t] = "read_boost"]
            /\ UNCHANGED fault
  /\ UNCHANGED <<mx, held, acquired, waiters, assigned, inherited, suspended,
                 interrupted, patience, wants>>

ReadBoost(t) ==
  /\ At(t, "read_boost")
  /\ raise' = [raise EXCEPT ![t].prio = mx[wants[t]].boosted]
  /\ pc' = [pc EXCEPT ![t] = "store"]
  /\ UNCHANGED <<mx, held, acquired, waiters, assigned, inherited, suspended,
                 interrupted, patience, wants, fault>>

\* What follows the raise, back in the critical section.
Proceed(t, site) ==
  \/ site \in {"try", "self", "restore"} /\ Return(t)
  \/ site \in {"lock", "timed"} /\ EnterLoop(t, wants[t], site)
  \/ /\ site = "loop"
     /\ pc' = [pc EXCEPT ![t] = "link"]
     /\ raise' = [raise EXCEPT ![t] = NoRaise]
     /\ UNCHANGED <<wants, patience>>

\* priority_inherited() takes any value, priority() refuses priority::none.
StorePriority(t) ==
  LET o == raise[t].owner IN
  /\ At(t, "store")
  /\ IF raise[t].site = "restore"
       THEN /\ assigned' = [assigned EXCEPT ![o] =
                              IF raise[t].prio = 0 THEN @ ELSE raise[t].prio]
            /\ UNCHANGED inherited
       ELSE /\ inherited' = [inherited EXCEPT ![o] = raise[t].prio]
            /\ UNCHANGED assigned
  /\ Proceed(t, raise[t].site)
  /\ UNCHANGED <<mx, held, acquired, waiters, suspended, interrupted, fault>>

LinkAfterRaise(t) ==
  /\ At(t, "link")
  /\ LinkNode(t, wants[t])
  /\ UNCHANGED <<mx, held, acquired, assigned, inherited, interrupted, fault>>
-----------------------------------------------------------------------------
\* lock(), timed_lock() and try_lock(), up to the end of the first attempt.
Call(t, m, site) ==
  /\ At(t, "app")
  /\ mx[m].recoverable
  /\ TryLockInternal(t, m, site)

Loop(t) ==
  /\ At(t, "loop")
  /\ TryLockInternal(t, wants[t], "loop")

\* Scheduled again: internal_unlink_node, which for timed_lock() also takes
\* the timeout back.
UnlinkNode(t) ==
  /\ At(t, "asleep")
  /\ waiters' = [waiters EXCEPT ![wants[t]] = Unlink(@, t)]
  /\ Goto(t, "woken")
  /\ UNCHANGED <<mx, held, acquired, assigned, inherited, suspended,
                 interrupted, fault>>

GivesUp(t) == t \in interrupted \/ patience[t] = "over"

Retry(t) ==
  /\ At(t, "woken")
  /\ ~ GivesUp(t)
  /\ Goto(t, "loop")
  /\ UNCHANGED <<mx, held, acquired, waiters, assigned, inherited, suspended,
                 interrupted, fault>>

\* EINTR or ETIMEDOUT.  With the mutex boosted timed_lock() walks the list for
\* the most urgent thread that still waits and makes its priority the boost,
\* and the assigned priority of the owner, all outside the critical sections.
GiveUp(t) ==
  /\ At(t, "woken")
  /\ GivesUp(t)
  /\ IF patience[t] # "endless" /\ mx[wants[t]].boosted # 0
       THEN Goto(t, "walk") ELSE Return(t)
  /\ UNCHANGED <<mx, held, acquired, waiters, assigned, inherited, suspended,
                 interrupted, fault>>

WalkList(t) ==
  LET urgent == MaxOf({Priority[u] : u \in ToSet(waiters[wants[t]])}) IN
  /\ At(t, "walk")
  /\ IF urgent = 0
       THEN Return(t)
       ELSE /\ pc' = [pc EXCEPT ![t] = "restore"]
            /\ raise' = [raise EXCEPT ![t].prio = urgent]
            /\ UNCHANGED <<wants, patience>>
  /\ UNCHANGED <<mx, held, acquired, waiters, assigned, inherited, suspended,
                 interrupted, fault>>

RestoreBoost(t) ==
  /\ At(t, "restore")
  /\ mx' = [mx EXCEPT ![wants[t]].boosted = raise[t].prio]
  /\ BeginRaise(t, wants[t], "restore")
  /\ UNCHANGED <<held, acquired, waiters, assigned, inherited, suspended,
                 interrupted, fault>>
-----------------------------------------------------------------------------
\* Mutants: the boost stays, or the mutexes still owned are forgotten, the mutex
\* stays in the list, nobody is woken, and a mutex of a dead owner stays locked.
BoostKept(m, others) == mx[m].boosted
BoostCleared(m, others) == 0
StaysHeld(m) == UNCHANGED held
ResumeNobody(m) == UNCHANGED <<waiters, suspended>>
MarkedOnly(t, m, others) == [mx[m] EXCEPT !.dead = @ \/ m \in Robust]

\* What internal_unlock_ leaves in the mutex, when `others' are the mutexes
\* still in the owner's list.
BoostLeft(m, others) ==
  IF mx[m].boosted = 0 THEN 0 ELSE MaxOf({mx[n].boosted : n \in others})

Released(m, others) ==
  [mx[m] EXCEPT
     !.owner = NoThread,
     !.count = 0,
     !.boosted = BoostLeft(m, others),
     !.dead = FALSE,
     !.recoverable = ~ (mx[m].dead /\ ~ mx[m].consistent)]

\* owner_links_.unlink().
NoLongerHeld(m) == held' = [u \in Threads |-> Unlink(held[u], m)]

\* list_.resume_one().
ResumeOne(m) ==
  /\ waiters' = [waiters EXCEPT ![m] = IF @ = <<>> THEN @ ELSE Tail(@)]
  /\ suspended' = IF waiters[m] = <<>> THEN suspended
                  ELSE suspended \ {Head(waiters[m])}

Unlock(t, m) ==
  /\ At(t, "app")
  /\ mx[m].recoverable
  /\ mx[m].owner = t
  /\ IF Type[m] = "recursive" /\ mx[m].count > 1
       THEN /\ mx' = [mx EXCEPT ![m].count = @ - 1]
            /\ UNCHANGED <<held, acquired, waiters, inherited, suspended>>
       ELSE /\ mx' = [mx EXCEPT ![m] = Released(m, ToSet(held[t]) \ {m})]
            /\ NoLongerHeld(m)
            /\ acquired' = [acquired EXCEPT ![t] = @ - 1]
            /\ inherited' = IF mx[m].boosted = 0 THEN inherited
                            ELSE [inherited EXCEPT ![t] = mx'[m].boosted]
            /\ ResumeOne(m)
  /\ UNCHANGED <<assigned, interrupted, patience, pc, wants, raise, fault>>

Consistent(t, m) ==
  /\ At(t, "app")
  /\ m \in Robust
  /\ ~ mx[m].consistent
  /\ mx' = [mx EXCEPT ![m].consistent = TRUE]
  /\ UNCHANGED <<held, acquired, waiters, assigned, inherited, suspended,
                 interrupted, patience, pc, wants, raise, fault>>

\* reset(): internal_init_, with resume_all.
Reset(t, m) ==
  /\ At(t, "app")
  /\ ResetOwned \/ mx[m].owner = NoThread
  /\ mx' = [mx EXCEPT ![m] = Fresh]
  /\ NoLongerHeld(m)
  /\ waiters' = [waiters EXCEPT ![m] = <<>>]
  /\ suspended' = suspended \ ToSet(waiters[m])
  /\ UNCHANGED <<acquired, assigned, inherited, interrupted, patience, pc,
                 wants, raise, fault>>

\* kill() and internal_destroy_ of t, called by u: one after the other the
\* mutexes of t leave its list, are marked if robust, and are unlocked for it.
Marked(m) == [mx[m] EXCEPT !.dead = @ \/ m \in Robust,
                           !.consistent = @ /\ m \notin Robust]

UnlockedByDead(t, m, others) ==
  IF ~ mx[m].recoverable \/ mx[m].owner # t THEN Marked(m)
  ELSE IF Type[m] = "recursive" /\ mx[m].count > 1
  THEN [Marked(m) EXCEPT !.count = @ - 1]
  ELSE [Released(m, others) EXCEPT
          !.consistent = Marked(m).consistent,
          !.recoverable = ~ (Marked(m).dead /\ ~ Marked(m).consistent)]

Kill(u, t) ==
  LET after(m) == {held[t][j] : j \in {j \in DOMAIN held[t] :
                                \E i \in 1..(j - 1) : held[t][i] = m}}
      new   == [m \in ToSet(held[t]) |-> UnlockedByDead(t, m, after(m))]
      freed == {m \in ToSet(held[t]) :
                  mx[m].owner = t /\ new[m].owner = NoThread}
      left  == [m \in Mutexes |-> Unlink(waiters[m], t)]
  IN
  /\ At(u, "app")
  /\ u # t
  /\ pc[t] # "gone"
  /\ mx' = [m \in Mutexes |-> IF m \in ToSet(held[t]) THEN new[m] ELSE mx[m]]
  /\ held' = [held EXCEPT ![t] = <<>>]
  /\ acquired' = [acquired EXCEPT ![t] = @ - Cardinality(freed)]
  /\ waiters' = [m \in Mutexes |-> IF m \in freed /\ left[m] # <<>>
                                   THEN Tail(left[m]) ELSE left[m]]
  /\ suspended' = (suspended \ {t}) \
                  {Head(left[m]) : m \in {m \in freed : left[m] # <<>>}}
  /\ pc' = [pc EXCEPT ![t] = "gone"]
  /\ wants' = [wants EXCEPT ![t] = NoMutex]
  /\ patience' = [patience EXCEPT ![t] = "endless"]
  /\ raise' = [raise EXCEPT ![t] = NoRaise]
  /\ inherited' = IF \E m \in freed : mx[m].boosted # 0
                  THEN [inherited EXCEPT ![t] = 0] ELSE inherited
  /\ fault' = IF acquired'[t] # 0 THEN "left" ELSE fault
  /\ UNCHANGED <<assigned, interrupted>>
-----------------------------------------------------------------------------
\* Interrupt routines: resume() of a thread that waits for a mutex, for
\* nothing; interrupt(); and the clock that passes the timeout of t.
Wake(t) ==
  /\ fault = "none"
  /\ t \in suspended
  /\ suspended' = suspended \ {t}
  /\ UNCHANGED <<mx, held, acquired, waiters, assigned, inherited, interrupted,
                 patience, pc, wants, raise, fault>>

Interrupt(t) ==
  /\ fault = "none"
  /\ pc[t] # "gone"
  /\ interrupted' = interrupted \union {t}
  /\ suspended' = suspended \ {t}
  /\ UNCHANGED <<mx, held, acquired, waiters, assigned, inherited, patience,
                 pc, wants, raise, fault>>

Expire(t) ==
  /\ fault = "none"
  /\ patience[t] = "timed"
  /\ patience' = [patience EXCEPT ![t] = "over"]
  /\ suspended' = suspended \ {t}
  /\ UNCHANGED <<mx, held, acquired, waiters, assigned, inherited, interrupted,
                 pc, wants, raise, fault>>
-----------------------------------------------------------------------------
InsideCall(t) ==
  \/ Loop(t) \/ ReadOwner(t) \/ ReadBoost(t) \/ StorePriority(t)
  \/ LinkAfterRaise(t) \/ UnlinkNode(t) \/ Retry(t)
  \/ GiveUp(t) \/ WalkList(t) \/ RestoreBoost(t)

\* A step of the thread t, and one of the interrupt routines.
ThreadStep(t) ==
  \/ InsideCall(t)
  \/ \E m \in Mutexes :
       \/ \E site \in Calls[m][t] : Call(t, m, site)
       \/ Unlock(t, m)
       \/ t \in Users[m] /\ Consistent(t, m)
       \/ m \in Resettable /\ t \in Users[m] /\ Reset(t, m)
  \/ \E u \in Killable : Kill(t, u)

InterruptStep ==
  \/ \E t \in Resumable : Wake(t)
  \/ \E t \in Interruptible : Interrupt(t)
  \/ \E t \in Threads : Expire(t)

Next == (\E t \in Threads : ThreadStep(t)) \/ InterruptStep

Spec == Init /\ [][Next]_vars
-----------------------------------------------------------------------------
\* Type invariant.
TypeOK ==
  /\ mx \in [Mutexes ->
               [owner : Threads \union {NoThread}, count : 0..MaxCount,
                boosted : Nat, dead : BOOLEAN, consistent : BOOLEAN,
                recoverable : BOOLEAN]]
  /\ held \in [Threads -> Seq(Mutexes)]
  /\ acquired \in [Threads -> Nat]
  /\ waiters \in [Mutexes -> Seq(Threads)]
  /\ assigned \in [Threads -> Nat]
  /\ inherited \in [Threads -> Nat]
  /\ suspended \subseteq Threads
  /\ interrupted \subseteq Threads
  /\ patience \in [Threads -> {"endless", "timed", "over"}]
  /\ pc \in [Threads -> Labels]
  /\ wants \in [Threads -> Mutexes \union {NoMutex}]
  /\ raise \in [Threads -> [site : Reasons \union {"none"},
                             owner : Threads \union {NoThread}, prio : Nat]]
  /\ fault \in {"none", "null", "linked", "left"}

\* No mutex is linked twice in lists of owners, and a thread that is destroyed
\* gives up every mutex it holds, as the assertion in kill() demands.
AssertionsHold == fault \notin {"linked", "left"}

\* The list mutexes_ of a thread, its counter acquired_mutexes_, and the
\* owner_ and count_ of the mutexes agree after every call, by whomever.
OwnershipAgrees ==
  /\ \A t \in Threads :
       /\ NoDuplicates(held[t])
       /\ ToSet(held[t]) = {m \in Mutexes : mx[m].owner = t}
       /\ acquired[t] = Len(held[t])
  /\ \A m \in Mutexes : mx[m].count = 0 <=> mx[m].owner = NoThread

\* The callers of m that are awake inside lock() or timed_lock().
OnTheWay(m) ==
  {t \in Threads :
     /\ wants[t] = m
     /\ \/ pc[t] \in {"loop", "woken"}
        \/ pc[t] \in Raising /\ raise[t].site \in {"lock", "timed"}
        \/ pc[t] = "asleep" /\ t \notin suspended}

\* The threads whose inherited priority others may store.
Raisable ==
  {t \in Threads :
     \E m \in Mutexes : Protocol[m] = "inherit" /\ t \in Users[m]}

\* Two threads at most lock m, and none of them waits for itself.
Pair(m) == Cardinality(Users[m]) <= 2 /\ Type[m] # "normal"

\* The mutexes where a thread that gives up a timed wait may find another one
\* in the list: it then sets the boost, and the assigned priority of the owner.
Lowerable ==
  {m \in Mutexes : Protocol[m] # "none" /\ TimedUsers(m) # {} /\ ~ Pair(m)}

\* The mutexes that are tested and waited for in one critical section, without
\* a raise between, and where a thread that unlock() resumes and that does not
\* try again, for it gives up or was killed, leaves no other one waiting.
Plain ==
  {m \in Mutexes :
     /\ Protocol[m] # "inherit"
     /\ \/ Pair(m)
        \/ TimedUsers(m) \union (Users[m] \intersect
                                  (Interruptible \union Killable)) = {}}

\* lock() blocks until the mutex becomes available: while threads queue for a
\* plain mutex that has no owner, one of its callers is awake and tries again.
PlainMutexIsTaken ==
  \A m \in Plain :
    mx[m].owner = NoThread /\ waiters[m] # <<>> => OnTheWay(m) # {}

\* Whoever owns mutexes with protocol::protect runs at the highest of their
\* ceilings, in whatever order it locks and unlocks them; not while it raises
\* itself, nor where other threads store its priority, to inherit or giving up.
OwnerAtCeiling ==
  \A m \in Mutexes \ Lowerable :
    LET o == mx[m].owner IN
    /\ Protocol[m] = "protect"
    /\ o # NoThread /\ o \notin Raisable
    /\ ~ (pc[o] \in Raising /\ raise[o].site = "self")
    => Priority[o] >= Ceiling[m]

\* A thread that nobody else raises is back at its own priority when it has
\* unlocked the last of its mutexes.
CeilingEnds ==
  \A t \in Threads \ Raisable : acquired[t] = 0 => inherited[t] = 0

\* The mutexes with protocol::inherit of two threads that share no other mutex
\* where one stores what the other inherits, or is assigned.
Alone ==
  {m \in Mutexes \ Lowerable :
     /\ Protocol[m] = "inherit" /\ Cardinality(Users[m]) = 2
     /\ \A n \in Mutexes \ {m} :
          Protocol[n] = "inherit" \/ n \in Lowerable
          => Users[m] \intersect Users[n] = {}}

\* The owner of m has inherited the priority of t, which waits for it, and the
\* mutex remembers it.
RaisedFor(m, t) ==
  /\ t \in ToSet(waiters[m])
  /\ mx[m].owner \notin {t, NoThread}
  /\ mx[m].boosted >= Priority[t]
  /\ Priority[mx[m].owner] >= Priority[t]

\* Once raised for a waiting thread the owner stays so, whatever other mutexes
\* it locks and unlocks, until it unlocks this one or the other waits no more.
BoostLasts ==
  [][\A m \in Alone : \A t \in ToSet(waiters[m]) :
       RaisedFor(m, t) => \/ RaisedFor(m, t)'
                          \/ t \notin ToSet(waiters'[m])
                          \/ mx'[m].owner # mx[m].owner]_vars
=============================================================================
