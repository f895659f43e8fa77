---------------------------- MODULE MutexProofs ----------------------------
(***************************************************************************)
(* Proofs about Mutex: its types; that the owner and the count of every    *)
(* mutex agree with the list and the counter of the thread that owns it;   *)
(* that no list is corrupted and no destroyed thread keeps a mutex; that a *)
(* plain mutex is taken; and what owners inherit, from the ceilings of     *)
(* their mutexes and from the threads that wait for them.                  *)
(***************************************************************************)
EXTENDS Mutex, KernelListsProofs

Owned(t) == {m \in Mutexes : mx[m].owner = t}

\* A thread inside a call wants a mutex that it uses.
Calling ==
  \A t \in Threads :
    pc[t] \notin {"app", "gone"} =>
      wants[t] \in Mutexes /\ t \in Users[wants[t]]

\* acquired_mutexes_ does not fall below the number of mutexes owned.
Counted == \A t \in Threads : acquired[t] >= Cardinality(Owned(t))

Assigned == \A t \in Threads : assigned[t] # 0

Typed == TypeOK /\ Calling /\ Counted /\ Assigned
-----------------------------------------------------------------------------

\* A finite set of numbers has a greatest one.
LEMMA Greatest ==
  ASSUME NEW S, S \subseteq Nat, IsFiniteSet(S), S # {}
  PROVE  \E x \in S : \A y \in S : x >= y
<1>. DEFINE Bad == {T \in SUBSET S :
                      T # {} /\ ~ \E x \in T : \A y \in T : x >= y}
            Sizes == {Cardinality(T) : T \in Bad}
<1>1. \A T \in Bad : IsFiniteSet(T) /\ Cardinality(T) \in Nat
  BY FS_Subset, FS_CardinalityType
<1>2. ASSUME Bad # {}
      PROVE  FALSE
  <2>1. Sizes \subseteq Nat /\ Sizes # {}
    BY <1>1, <1>2
  <2>2. PICK n \in Sizes : \A k \in Sizes : ~ (<<k, n>> \in OpToRel(<, Nat))
    BY <2>1, NatLessThanWellFounded, WFMin
  <2>3. PICK T \in Bad : n = Cardinality(T)
    BY <2>2
  <2>4. PICK a \in T : TRUE
    BY <2>3
  <2>5. /\ a \in Nat /\ IsFiniteSet(T \ {a}) /\ Cardinality(T \ {a}) = n - 1
        /\ n \in Nat
    BY <2>3, <2>4, <1>1, FS_RemoveElement
  <2>6. T \ {a} \notin Bad
    <3>1. ASSUME T \ {a} \in Bad
          PROVE  FALSE
      <4>0. Cardinality(T \ {a}) \in Sizes /\ Cardinality(T \ {a}) \in Nat
        BY <3>1, <1>1
      <4>1. n - 1 \in Sizes /\ n - 1 \in Nat /\ n - 1 < n
        BY <4>0, <2>5
      <4>2. <<n - 1, n>> \in OpToRel(<, Nat)
        BY <4>1, <2>5 DEF OpToRel
      <4>. QED  BY <4>1, <4>2, <2>2
    <3>. QED  BY <3>1
  <2>7. CASE T \ {a} = {}
    <3>1. T = {a}
      BY <2>7, <2>4
    <3>. QED  BY <3>1, <2>3, <2>5
  <2>8. CASE T \ {a} # {}
    <3>1. PICK b \in T \ {a} : \A y \in T \ {a} : b >= y
      BY <2>6, <2>8, <2>3
    <3>2. b \in Nat /\ T \subseteq Nat
      BY <3>1, <2>3
    <3>3. CASE a >= b
      <4>1. \A y \in T : a >= y
        BY <3>1, <3>2, <3>3, <2>5
      <4>. QED  BY <4>1, <2>3, <2>4
    <3>4. CASE b > a
      <4>1. \A y \in T : b >= y
        BY <3>1, <3>2, <3>4, <2>5
      <4>. QED  BY <4>1, <3>1, <2>3
    <3>. QED  BY <3>2, <3>3, <3>4, <2>5
  <2>. QED  BY <2>7, <2>8
<1>3. S \notin Bad
  BY <1>2
<1>. QED  BY <1>3

\* MaxOf() of the values of a function on a finite set is 0 or one of them.
LEMMA MaxOfImage ==
  ASSUME NEW I, IsFiniteSet(I), NEW f \in [I -> Nat]
  PROVE  LET S == {f[i] : i \in I} IN
         MaxOf(S) \in Nat /\ (MaxOf(S) # 0 => \E i \in I : MaxOf(S) = f[i])
<1>. DEFINE S == {f[i] : i \in I}
            V == S \union {0}
<1>1. f \in Surjection(I, S)
  BY DEF Surjection
<1>2. IsFiniteSet(S)
  BY <1>1, FS_Surjection
<1>3. IsFiniteSet(V) /\ V \subseteq Nat /\ V # {}
  BY <1>2, FS_AddElement
<1>4. \E x \in V : \A y \in V : x >= y
  BY <1>3, Greatest
<1>5. Max(V) \in V
  BY <1>4 DEF Max
<1>6. MaxOf(S) \in V
  BY <1>5 DEF MaxOf
<1>7. MaxOf(S) \in Nat
  BY <1>3, <1>6
<1>8. MaxOf(S) # 0 => \E i \in I : MaxOf(S) = f[i]
  BY <1>6
<1>. QED  BY <1>7, <1>8

\* Unlink() returns a list of the same kind.
LEMMA UnlinkList ==
  ASSUME NEW S, NEW list \in Seq(S), NEW t
  PROVE  Unlink(list, t) \in Seq(S)
BY UnlinkPositions

\* The elements of a list are finitely many, and of its kind.
LEMMA ListFinite ==
  ASSUME NEW S, NEW list \in Seq(S)
  PROVE  IsFiniteSet(ToSet(list)) /\ ToSet(list) \subseteq S
<1>1. list \in Surjection(DOMAIN list, ToSet(list))
  BY DEF Surjection, ToSet
<1>2. DOMAIN list = 1..Len(list) /\ Len(list) \in Nat
  OBVIOUS
<1>3. IsFiniteSet(DOMAIN list)
  BY <1>2, FS_Interval
<1>4. IsFiniteSet(ToSet(list))
  BY <1>1, <1>3, FS_Surjection
<1>5. ToSet(list) \subseteq S
  BY <1>2 DEF ToSet
<1>. QED  BY <1>4, <1>5

\* The calls of a mutex are those of its users.
LEMMA UsersOf ==
  ASSUME NEW m \in Mutexes
  PROVE  /\ Users[m] = {t \in Threads : Calls[m][t] # {}}
         /\ Users[m] \subseteq Threads /\ TimedUsers(m) \subseteq Users[m]
         /\ \A t \in Threads : Calls[m][t] \subseteq {"try", "lock", "timed"}
<1>1. /\ Users[m] = {t \in Threads : Calls[m][t] # {}}
      /\ Users[m] \subseteq Threads /\ TimedUsers(m) \subseteq Users[m]
  BY DEF Users, TimedUsers
<1>2. \A t \in Threads : Calls[m][t] \subseteq {"try", "lock", "timed"}
  BY RolesAssumption
<1>. QED  BY <1>1, <1>2

\* Whoever tries to lock a mutex is one of its users, at a point where it may.
Attempting(t, m, site) ==
  /\ t \in Users[m] /\ At(t, pc[t])
  /\ IF site = "loop" THEN pc[t] = "loop" /\ wants[t] = m
                      ELSE pc[t] = "app" /\ site \in Calls[m][t]

\* Every step is a step of one of these kinds.
LEMMA NextSteps ==
  ASSUME Calling, [Next]_vars
  PROVE  \/ \E t \in Threads, m \in Mutexes,
              site \in {"try", "lock", "timed", "loop"} :
              /\ Attempting(t, m, site)
              /\ Acquire(t, m) \/ Relock(t, m) \/ Contend(t, m, site)
              /\ UNCHANGED <<assigned, inherited, interrupted>>
         \/ \E t \in Threads :
              \/ ReadOwner(t) \/ ReadBoost(t) \/ StorePriority(t)
              \/ LinkAfterRaise(t) \/ UnlinkNode(t) \/ Retry(t) \/ GiveUp(t)
              \/ WalkList(t) \/ RestoreBoost(t) \/ Wake(t) \/ Expire(t)
         \/ \E t \in Threads, m \in Mutexes :
              Unlock(t, m) \/ Consistent(t, m) \/ Reset(t, m)
         \/ \E by \in Threads, t \in Killable : Kill(by, t)
         \/ \E t \in Interruptible : Interrupt(t)
         \/ UNCHANGED vars
<1>. DEFINE Attempts(t, m, site) ==
              /\ Attempting(t, m, site)
              /\ Acquire(t, m) \/ Relock(t, m) \/ Contend(t, m, site)
              /\ UNCHANGED <<assigned, inherited, interrupted>>
            Inside(t) ==
              \/ ReadOwner(t) \/ ReadBoost(t) \/ StorePriority(t)
              \/ LinkAfterRaise(t) \/ UnlinkNode(t) \/ Retry(t) \/ GiveUp(t)
              \/ WalkList(t) \/ RestoreBoost(t) \/ Wake(t) \/ Expire(t)
            Some ==
              \/ \E t \in Threads, m \in Mutexes,
                    site \in {"try", "lock", "timed", "loop"} :
                    Attempts(t, m, site)
              \/ \E t \in Threads : Inside(t)
              \/ \E t \in Threads, m \in Mutexes :
                    Unlock(t, m) \/ Consistent(t, m) \/ Reset(t, m)
              \/ \E by \in Threads, t \in Killable : Kill(by, t)
              \/ \E t \in Interruptible : Interrupt(t)
              \/ UNCHANGED vars
<1>1. ASSUME NEW t \in Threads, Loop(t)
      PROVE  wants[t] \in Mutexes /\ Attempts(t, wants[t], "loop")
  <2>1. pc[t] = "loop" /\ At(t, pc[t])
    BY <1>1 DEF Loop, At
  <2>. QED  BY <2>1, <1>1 DEF Loop, Calling, TryLockInternal, Attempting
<1>2. ASSUME NEW t \in Threads, NEW m \in Mutexes,
             NEW site \in Calls[m][t], Call(t, m, site)
      PROVE  site \in {"try", "lock", "timed", "loop"} /\ Attempts(t, m, site)
  <2>1. site \in {"try", "lock", "timed"} /\ t \in Users[m]
    BY <1>2, UsersOf
  <2>2. At(t, pc[t]) /\ pc[t] = "app"
    BY <1>2 DEF Call, At
  <2>. QED  BY <1>2, <2>1, <2>2 DEF Call, TryLockInternal, Attempting
<1>3. Resumable \subseteq Threads
  BY RolesAssumption
<1>. HIDE DEF Attempts
<1>4. ASSUME NEW t \in Threads, ThreadStep(t)
      PROVE  Some
  <2>1. CASE InsideCall(t)
    BY <2>1, <1>1 DEF InsideCall
  <2>2. ASSUME NEW m \in Mutexes, NEW site \in Calls[m][t], Call(t, m, site)
        PROVE  Some
    BY <2>2, <1>2
  <2>3. ASSUME NEW m \in Mutexes, Unlock(t, m) \/ Consistent(t, m) \/ Reset(t, m)
        PROVE  Some
    BY <2>3
  <2>4. ASSUME NEW u \in Killable, Kill(t, u)
        PROVE  Some
    BY <2>4
  <2>. HIDE DEF Some
  <2>. QED  BY <1>4, <2>1, <2>2, <2>3, <2>4 DEF ThreadStep
<1>5. ASSUME InterruptStep
      PROVE  Some
  BY <1>3, <1>5 DEF InterruptStep
<1>6. Some
  <2>. HIDE DEF Some
  <2>1. CASE UNCHANGED vars
    BY <2>1 DEF Some
  <2>. QED  BY <2>1, <1>4, <1>5 DEF Next
<1>. QED  BY <1>6 DEF Attempts

\* Effective priorities are positive numbers.
LEMMA Priorities ==
  ASSUME Typed
  PROVE  Priority \in [Threads -> Nat] /\ \A t \in Threads : Priority[t] # 0
<1>1. /\ assigned \in [Threads -> Nat] /\ inherited \in [Threads -> Nat]
      /\ \A t \in Threads : assigned[t] # 0
  BY DEF Typed, TypeOK, Assigned
<1>. QED  BY <1>1 DEF Priority

\* The type of the fields of a mutex.
MutexRecord ==
  [owner : Threads \union {NoThread}, count : 0..MaxCount, boosted : Nat,
   dead : BOOLEAN, consistent : BOOLEAN, recoverable : BOOLEAN]

\* And that of an unfinished raise.
RaiseRecord ==
  [site : Reasons \union {"none"}, owner : Threads \union {NoThread},
   prio : Nat]

\* It is 0 or the boost of a mutex that is still held.
LEMMA BoostLeftType ==
  ASSUME TypeOK, NEW m \in Mutexes, NEW others \in SUBSET Mutexes
  PROVE  /\ BoostLeft(m, others) \in Nat
         /\ BoostLeft(m, others) # 0 =>
              /\ mx[m].boosted # 0
              /\ \E n \in others : BoostLeft(m, others) = mx[n].boosted
<1>. DEFINE f == [n \in others |-> mx[n].boosted]
            S == {mx[n].boosted : n \in others}
<1>1. IsFiniteSet(others)
  BY NamesAssumption, FS_Subset
<1>2. \A n \in Mutexes : mx[n].boosted \in Nat
  BY DEF TypeOK
<1>3. f \in [others -> Nat]
  BY <1>2
<1>4. S = {f[n] : n \in others}
  OBVIOUS
<1>5. /\ MaxOf({f[n] : n \in others}) \in Nat
      /\ MaxOf({f[n] : n \in others}) # 0 =>
           \E n \in others : MaxOf({f[i] : i \in others}) = f[n]
  <2>. HIDE DEF f
  <2>. QED  BY <1>1, <1>3, MaxOfImage
<1>6. /\ MaxOf(S) \in Nat
      /\ MaxOf(S) # 0 => \E n \in others : MaxOf(S) = mx[n].boosted
  BY <1>4, <1>5
<1>. QED  BY <1>6 DEF BoostLeft

\* A mutex that was unlocked.
LEMMA ReleasedType ==
  ASSUME TypeOK, NEW m \in Mutexes, NEW others \in SUBSET Mutexes
  PROVE  Released(m, others) \in MutexRecord
<1>1. mx[m] \in MutexRecord /\ BoostLeft(m, others) \in Nat /\ 0 \in 0..MaxCount
  BY BoostLeftType, AttributesAssumption DEF TypeOK, MutexRecord
<1>. QED  BY <1>1 DEF Released, MutexRecord

\* A mutex that was unlocked in the name of a destroyed thread.
LEMMA UnlockedByDeadType ==
  ASSUME TypeOK, NEW t \in Threads, NEW m \in Mutexes,
         NEW others \in SUBSET Mutexes
  PROVE  UnlockedByDead(t, m, others) \in MutexRecord
<1>1. mx[m] \in MutexRecord /\ Released(m, others) \in MutexRecord
  BY ReleasedType DEF TypeOK, MutexRecord
<1>2. Marked(m) \in MutexRecord
  BY <1>1 DEF Marked, MutexRecord
<1>3. /\ Marked(m).consistent \in BOOLEAN /\ Marked(m).dead \in BOOLEAN
      /\ Marked(m).count = mx[m].count
  BY <1>1 DEF Marked, MutexRecord
<1>4. (~ (Marked(m).dead /\ ~ Marked(m).consistent)) \in BOOLEAN
  BY Zenon
<1>5. mx[m].count > 1 => mx[m].count - 1 \in 0..MaxCount
  BY <1>1, AttributesAssumption DEF MutexRecord
<1>6. [Released(m, others) EXCEPT
          !.consistent = Marked(m).consistent,
          !.recoverable = ~ (Marked(m).dead /\ ~ Marked(m).consistent)]
        \in MutexRecord
  BY <1>1, <1>3, <1>4 DEF MutexRecord
<1>7. mx[m].count > 1 =>
        [Marked(m) EXCEPT !.count = @ - 1] \in MutexRecord
  BY <1>2, <1>3, <1>5 DEF MutexRecord
<1>. QED  BY <1>2, <1>6, <1>7 DEF UnlockedByDead

-----------------------------------------------------------------------------

\* The priority timed_lock() looks for is a number, 0 if nobody waits.
LEMMA UrgentType ==
  ASSUME Typed, NEW m \in Mutexes
  PROVE  LET S == {Priority[u] : u \in ToSet(waiters[m])} IN
         /\ MaxOf(S) \in Nat
         /\ MaxOf(S) # 0 => \E u \in ToSet(waiters[m]) :
                            u \in Threads /\ MaxOf(S) = Priority[u]
<1>. DEFINE I == ToSet(waiters[m])
            f == [u \in I |-> Priority[u]]
            S == {Priority[u] : u \in I}
<1>1. IsFiniteSet(I) /\ I \subseteq Threads
  BY ListFinite DEF Typed, TypeOK
<1>2. f \in [I -> Nat] /\ S = {f[u] : u \in I}
  BY <1>1, Priorities
<1>3. \A u \in I : f[u] = Priority[u]
  OBVIOUS
<1>4. /\ MaxOf({f[u] : u \in I}) \in Nat
      /\ MaxOf({f[u] : u \in I}) # 0 =>
           \E u \in I : MaxOf({f[i] : i \in I}) = f[u]
  <2>. HIDE DEF f, I
  <2>. QED  BY <1>1, <1>2, MaxOfImage
<1>5. MaxOf(S) \in Nat /\ (MaxOf(S) # 0 => \E u \in I : MaxOf(S) = Priority[u])
  <2>. HIDE DEF S, f, I
  <2>. QED  BY <1>2, <1>3, <1>4
<1>. QED  BY <1>1, <1>5

\* What the ends of an attempt and of a raise leave in the calling thread.
LEMMA CallerType ==
  ASSUME Typed, NEW t \in Threads, NEW m \in Mutexes
  PROVE  /\ NoRaise \in RaiseRecord
         /\ Return(t) \/ (\E site \in Reasons : BeginRaise(t, m, site)
                                                \/ EnterLoop(t, m, site))
              => /\ pc' \in [Threads -> Labels]
                 /\ wants' \in [Threads -> Mutexes \union {NoMutex}]
                 /\ patience' \in [Threads -> {"endless", "timed", "over"}]
                 /\ raise' \in [Threads -> RaiseRecord]
<1>1. NoRaise \in RaiseRecord
  BY DEF NoRaise, RaiseRecord
<1>2. /\ pc \in [Threads -> Labels] /\ raise \in [Threads -> RaiseRecord]
      /\ wants \in [Threads -> Mutexes \union {NoMutex}]
      /\ patience \in [Threads -> {"endless", "timed", "over"}]
  BY DEF Typed, TypeOK, RaiseRecord
<1>3. {"app", "loop", "read_owner"} \subseteq Labels
  BY DEF Labels, Raising
<1>4. CASE Return(t)
  BY <1>1, <1>2, <1>3, <1>4 DEF Return
<1>5. ASSUME NEW site \in Reasons, BeginRaise(t, m, site)
      PROVE  /\ pc' \in [Threads -> Labels]
             /\ wants' \in [Threads -> Mutexes \union {NoMutex}]
             /\ patience' \in [Threads -> {"endless", "timed", "over"}]
             /\ raise' \in [Threads -> RaiseRecord]
  <2>1. [NoRaise EXCEPT !.site = site] \in RaiseRecord
    BY DEF NoRaise, RaiseRecord
  <2>. QED  BY <1>2, <1>3, <1>5, <2>1 DEF BeginRaise
<1>6. ASSUME NEW site \in Reasons, EnterLoop(t, m, site)
      PROVE  /\ pc' \in [Threads -> Labels]
             /\ wants' \in [Threads -> Mutexes \union {NoMutex}]
             /\ patience' \in [Threads -> {"endless", "timed", "over"}]
             /\ raise' \in [Threads -> RaiseRecord]
  BY <1>1, <1>2, <1>3, <1>6 DEF EnterLoop
<1>. QED  BY <1>1, <1>4, <1>5, <1>6

\* Every step keeps the types.
LEMMA TypeStep ==
  ASSUME Typed, [Next]_vars
  PROVE  TypeOK'
<1>1. ASSUME NEW t \in Threads, NEW m \in Mutexes,
             NEW site \in {"try", "lock", "timed", "loop"},
             Attempting(t, m, site), Acquire(t, m),
             UNCHANGED <<assigned, inherited, interrupted>>
      PROVE  TypeOK'
  <2>1. mx' \in [Mutexes -> MutexRecord]
    <3>1. mx \in [Mutexes -> MutexRecord] /\ mx[m] \in MutexRecord
      BY <1>1 DEF TypeOK, Typed, MutexRecord
    <3>2. 1 \in 0..MaxCount /\ Ceiling[m] \in Nat
      BY AttributesAssumption
    <3>. QED  BY <3>1, <3>2, <1>1 DEF Acquire, MutexRecord
  <2>2. held' \in [Threads -> Seq(Mutexes)]
    BY <1>1 DEF Acquire, TypeOK, Typed
  <2>3. fault' \in {"none", "null", "linked", "left"}
    BY <1>1 DEF Acquire, TypeOK, Typed
  <2>4. /\ pc' \in [Threads -> Labels]
        /\ wants' \in [Threads -> Mutexes \union {NoMutex}]
        /\ patience' \in [Threads -> {"endless", "timed", "over"}]
        /\ raise' \in [Threads -> RaiseRecord]
    <3>1. Return(t) \/ BeginRaise(t, m, "self")
      BY <1>1 DEF Acquire
    <3>2. "self" \in Reasons
      BY DEF Reasons
    <3>. QED  BY <3>1, <3>2, CallerType
  <2>5. /\ acquired' \in [Threads -> Nat]
        /\ UNCHANGED <<waiters, suspended>>
    BY <1>1 DEF Acquire, TypeOK, Typed
  <2>. QED
    BY <2>1, <2>2, <2>3, <2>4, <2>5, <1>1
    DEF TypeOK, Typed, MutexRecord, RaiseRecord
<1>2. ASSUME NEW t \in Threads, NEW m \in Mutexes,
             NEW site \in {"try", "lock", "timed", "loop"},
             Attempting(t, m, site), Relock(t, m),
             UNCHANGED <<assigned, inherited, interrupted>>
      PROVE  TypeOK'
  <2>1. mx' \in [Mutexes -> MutexRecord]
    <3>1. mx \in [Mutexes -> MutexRecord] /\ mx[m] \in MutexRecord
      BY <1>2 DEF TypeOK, Typed, MutexRecord
    <3>2. mx[m].count < MaxCount => mx[m].count + 1 \in 0..MaxCount
      BY <3>1, AttributesAssumption DEF MutexRecord
    <3>3. mx[m].count < MaxCount =>
            [mx[m] EXCEPT !.count = @ + 1] \in MutexRecord
      BY <3>1, <3>2 DEF MutexRecord
    <3>4. \/ mx' = mx
          \/ /\ mx[m].count < MaxCount
             /\ mx' = [mx EXCEPT ![m] = [mx[m] EXCEPT !.count = @ + 1]]
      BY <3>1, <1>2 DEF Relock
    <3>. QED  BY <3>1, <3>3, <3>4, <1>2
  <2>2. /\ pc' \in [Threads -> Labels]
        /\ wants' \in [Threads -> Mutexes \union {NoMutex}]
        /\ patience' \in [Threads -> {"endless", "timed", "over"}]
        /\ raise' \in [Threads -> RaiseRecord]
    BY CallerType, <1>2 DEF Relock
  <2>. QED
    BY <2>1, <2>2, <1>2 DEF TypeOK, Typed, Relock, MutexRecord, RaiseRecord
<1>3. ASSUME NEW t \in Threads, NEW m \in Mutexes,
             NEW site \in {"try", "lock", "timed", "loop"},
             Attempting(t, m, site), Contend(t, m, site),
             UNCHANGED <<assigned, inherited, interrupted>>
      PROVE  TypeOK'
  <2>1. /\ waiters' \in [Mutexes -> Seq(Threads)]
        /\ suspended' \subseteq Threads
        /\ pc' \in [Threads -> Labels]
        /\ wants' \in [Threads -> Mutexes \union {NoMutex}]
        /\ patience' \in [Threads -> {"endless", "timed", "over"}]
        /\ raise' \in [Threads -> RaiseRecord]
    <3>1. Link(waiters[m], t, Priority) \in Seq(Threads)
      BY Priorities, LinkElements, <1>3 DEF TypeOK, Typed
    <3>2. site \in Reasons /\ "asleep" \in Labels
      BY <1>3 DEF Reasons, Labels
    <3>3. CASE WouldBlock(t, m, site)
      <4>1. CASE /\ Return(t) \/ EnterLoop(t, m, site)
                 /\ UNCHANGED <<waiters, suspended>>
        BY <3>2, <4>1, CallerType, <1>3 DEF TypeOK, Typed
      <4>2. CASE LinkNode(t, m)
        BY <3>1, <3>2, <4>2, CallerType, <1>3
        DEF TypeOK, Typed, LinkNode, RaiseRecord
      <4>. QED  BY <3>3, <4>1, <4>2 DEF WouldBlock
    <3>4. CASE BeginRaise(t, m, site) /\ UNCHANGED <<waiters, suspended>>
      BY <3>2, <3>4, CallerType, <1>3 DEF TypeOK, Typed
    <3>. QED  BY <3>3, <3>4, <1>3 DEF Contend
  <2>2. /\ mx' \in [Mutexes -> MutexRecord]
        /\ held' \in [Threads -> Seq(Mutexes)]
    <3>1. mx \in [Mutexes -> MutexRecord] /\ Priority[t] \in Nat
      BY Priorities, <1>3 DEF TypeOK, Typed, MutexRecord
    <3>2. [mx[m] EXCEPT !.boosted = Priority[t]] \in MutexRecord
      BY <3>1, <1>3 DEF MutexRecord
    <3>3. \/ mx' = mx
          \/ mx' = [mx EXCEPT ![m] = [mx[m] EXCEPT !.boosted = Priority[t]]]
      BY <1>3, <3>1 DEF Contend
    <3>4. mx' \in [Mutexes -> MutexRecord]
      BY <3>1, <3>2, <3>3, <1>3
    <3>5. mx[m].owner \in Threads
      BY <3>1, <1>3 DEF Contend, MutexRecord
    <3>6. held' \in [Threads -> Seq(Mutexes)]
      <4>1. held \in [Threads -> Seq(Mutexes)]
        BY DEF TypeOK, Typed
      <4>2. Append(held[mx[m].owner], m) \in Seq(Mutexes)
        BY <3>5, <4>1, <1>3
      <4>3. \/ held' = held
            \/ held' = [held EXCEPT ![mx[m].owner] = Append(@, m)]
        BY <1>3 DEF Contend
      <4>. QED  BY <3>5, <4>1, <4>2, <4>3
    <3>. QED  BY <3>4, <3>6
  <2>. QED  BY <2>1, <2>2, <1>3
    DEF TypeOK, Typed, Contend, MutexRecord, RaiseRecord
<1>4. ASSUME NEW t \in Threads, ReadOwner(t)
      PROVE  TypeOK'
  <2>1. wants[t] \in Mutexes
    BY <1>4 DEF ReadOwner, At, Raising, Typed, Calling
  <2>2. raise' \in [Threads -> RaiseRecord]
    <3>1. raise \in [Threads -> RaiseRecord] /\ raise[t] \in RaiseRecord
      BY DEF TypeOK, Typed, RaiseRecord
    <3>2. mx[wants[t]].owner \in Threads \union {NoThread}
      BY <2>1 DEF TypeOK, Typed
    <3>3. [raise[t] EXCEPT !.owner = mx[wants[t]].owner] \in RaiseRecord
      BY <3>1, <3>2 DEF RaiseRecord
    <3>4. \/ raise' = raise
          \/ raise' = [raise EXCEPT ![t] =
                         [raise[t] EXCEPT !.owner = mx[wants[t]].owner]]
      BY <3>1, <1>4 DEF ReadOwner
    <3>. QED  BY <3>1, <3>3, <3>4
  <2>3. pc' \in [Threads -> Labels] /\ fault' \in {"none", "null", "linked", "left"}
    BY <2>1, <1>4 DEF ReadOwner, TypeOK, Typed, Labels, Raising
  <2>. QED  BY <2>2, <2>3, <1>4 DEF ReadOwner, TypeOK, Typed, RaiseRecord
<1>5. ASSUME NEW t \in Threads, ReadBoost(t)
      PROVE  TypeOK'
  <2>1. wants[t] \in Mutexes
    BY <1>5 DEF ReadBoost, At, Typed, Calling
  <2>2. raise' \in [Threads -> RaiseRecord]
    BY <2>1, <1>5 DEF ReadBoost, TypeOK, Typed, RaiseRecord
  <2>3. pc' \in [Threads -> Labels]
    BY <2>1, <1>5 DEF ReadBoost, TypeOK, Typed, Labels, Raising
  <2>. QED  BY <2>2, <2>3, <1>5 DEF ReadBoost, TypeOK, Typed, RaiseRecord
<1>6. ASSUME NEW t \in Threads, StorePriority(t)
      PROVE  TypeOK'
  <2>1. wants[t] \in Mutexes
    BY <1>6 DEF StorePriority, At, Typed, Calling
  <2>2. raise[t].prio \in Nat /\ raise[t].site \in Reasons \union {"none"}
    BY <1>6 DEF TypeOK, Typed
  <2>3. assigned' \in [Threads -> Nat] /\ inherited' \in [Threads -> Nat]
    <3>1. assigned \in [Threads -> Nat] /\ inherited \in [Threads -> Nat]
      BY DEF TypeOK, Typed
    <3>2. \/ assigned' = assigned
          \/ assigned' = [assigned EXCEPT ![raise[t].owner] = raise[t].prio]
      BY <3>1, <1>6 DEF StorePriority
    <3>3. \/ inherited' = inherited
          \/ inherited' = [inherited EXCEPT ![raise[t].owner] = raise[t].prio]
      BY <1>6 DEF StorePriority
    <3>. QED  BY <2>2, <3>1, <3>2, <3>3
  <2>4. /\ pc' \in [Threads -> Labels]
        /\ wants' \in [Threads -> Mutexes \union {NoMutex}]
        /\ patience' \in [Threads -> {"endless", "timed", "over"}]
        /\ raise' \in [Threads -> RaiseRecord]
    <3>1. CASE \/ Return(t)
               \/ raise[t].site \in Reasons
                  /\ EnterLoop(t, wants[t], raise[t].site)
      BY <2>1, <3>1, CallerType
    <3>2. CASE /\ pc' = [pc EXCEPT ![t] = "link"]
               /\ raise' = [raise EXCEPT ![t] = NoRaise]
               /\ UNCHANGED <<wants, patience>>
      BY <2>1, <3>2, CallerType DEF TypeOK, Typed, Labels, RaiseRecord
    <3>. QED
      BY <3>1, <3>2, <2>2, <1>6 DEF StorePriority, Proceed, Reasons
  <2>. QED
    BY <2>3, <2>4, <1>6 DEF StorePriority, TypeOK, Typed, RaiseRecord
<1>7. ASSUME NEW t \in Threads, LinkAfterRaise(t)
      PROVE  TypeOK'
  <2>1. wants[t] \in Mutexes
    BY <1>7 DEF LinkAfterRaise, At, Typed, Calling
  <2>2. Link(waiters[wants[t]], t, Priority) \in Seq(Threads)
    BY <2>1, Priorities, LinkElements, <1>7 DEF TypeOK, Typed
  <2>. QED
    BY <2>1, <2>2, CallerType, <1>7
    DEF TypeOK, Typed, LinkAfterRaise, LinkNode, Labels, RaiseRecord
<1>8. ASSUME NEW t \in Threads, UnlinkNode(t)
      PROVE  TypeOK'
  <2>1. wants[t] \in Mutexes
    BY <1>8 DEF UnlinkNode, At, Typed, Calling
  <2>2. Unlink(waiters[wants[t]], t) \in Seq(Threads)
    BY <2>1, UnlinkList DEF TypeOK, Typed
  <2>. QED
    BY <2>1, <2>2, <1>8 DEF TypeOK, Typed, UnlinkNode, Goto, Labels
<1>9. ASSUME NEW t \in Threads, Retry(t)
      PROVE  TypeOK'
  BY <1>9 DEF TypeOK, Typed, Labels, Retry, At, Goto
<1>10. ASSUME NEW t \in Threads, GiveUp(t)
      PROVE  TypeOK'
  <2>1. wants[t] \in Mutexes
    BY <1>10 DEF GiveUp, At, Typed, Calling
  <2>2. CASE Return(t)
    BY <2>1, <2>2, CallerType, <1>10 DEF GiveUp, TypeOK, Typed, RaiseRecord
  <2>3. CASE Goto(t, "walk")
    BY <2>3, <1>10 DEF GiveUp, Goto, TypeOK, Typed, Labels
  <2>. QED  BY <2>2, <2>3, <1>10 DEF GiveUp
<1>11. ASSUME NEW t \in Threads, WalkList(t)
      PROVE  TypeOK'
  <2>1. wants[t] \in Mutexes
    BY <1>11 DEF WalkList, At, Typed, Calling
  <2>. DEFINE urgent == MaxOf({Priority[u] : u \in ToSet(waiters[wants[t]])})
  <2>2. urgent \in Nat
    BY <2>1, UrgentType
  <2>3. CASE Return(t)
    BY <2>1, <2>3, CallerType, <1>11 DEF WalkList, TypeOK, Typed, RaiseRecord
  <2>4. CASE /\ pc' = [pc EXCEPT ![t] = "restore"]
             /\ raise' = [raise EXCEPT ![t].prio = urgent]
             /\ UNCHANGED <<wants, patience>>
    <3>. HIDE DEF urgent
    <3>1. raise' \in [Threads -> RaiseRecord]
      BY <2>2, <2>4 DEF TypeOK, Typed, RaiseRecord
    <3>. QED
      BY <2>4, <3>1, <1>11 DEF WalkList, TypeOK, Typed, Labels, RaiseRecord
  <2>. QED  BY <2>3, <2>4, <1>11 DEF WalkList
<1>12. ASSUME NEW t \in Threads, RestoreBoost(t)
      PROVE  TypeOK'
  <2>1. wants[t] \in Mutexes
    BY <1>12 DEF RestoreBoost, At, Typed, Calling
  <2>2. mx' \in [Mutexes -> MutexRecord]
    <3>1. mx \in [Mutexes -> MutexRecord] /\ raise[t].prio \in Nat
      BY DEF TypeOK, Typed, MutexRecord
    <3>2. [mx[wants[t]] EXCEPT !.boosted = raise[t].prio] \in MutexRecord
      BY <2>1, <3>1 DEF MutexRecord
    <3>3. mx' = [mx EXCEPT ![wants[t]] =
                   [mx[wants[t]] EXCEPT !.boosted = raise[t].prio]]
      BY <2>1, <3>1, <1>12 DEF RestoreBoost
    <3>. QED  BY <2>1, <3>1, <3>2, <3>3
  <2>3. BeginRaise(t, wants[t], "restore") /\ "restore" \in Reasons
    BY <1>12 DEF RestoreBoost, Reasons
  <2>. QED
    BY <2>1, <2>2, <2>3, CallerType, <1>12
    DEF RestoreBoost, TypeOK, Typed, MutexRecord, RaiseRecord
<1>13. ASSUME NEW t \in Threads, NEW m \in Mutexes, Unlock(t, m)
      PROVE  TypeOK'
  <2>1. mx \in [Mutexes -> MutexRecord] /\ mx[m] \in MutexRecord
    BY <1>13 DEF TypeOK, Typed, MutexRecord
  <2>2. CASE Type[m] = "recursive" /\ mx[m].count > 1
    <3>1. mx[m].count - 1 \in 0..MaxCount
      BY <2>1, <2>2, AttributesAssumption DEF MutexRecord
    <3>2. [mx[m] EXCEPT !.count = @ - 1] \in MutexRecord
      BY <2>1, <3>1 DEF MutexRecord
    <3>3. mx' \in [Mutexes -> MutexRecord]
      BY <2>1, <2>2, <3>2, <1>13 DEF Unlock
    <3>. QED  BY <2>2, <3>3, <1>13 DEF TypeOK, Typed, Unlock, MutexRecord
  <2>3. CASE ~ (Type[m] = "recursive" /\ mx[m].count > 1)
    <3>. DEFINE others == ToSet(held[t]) \ {m}
    <3>0. others \in SUBSET Mutexes
      BY ListFinite, <1>13 DEF TypeOK, Typed
    <3>1. Released(m, others) \in MutexRecord
      BY <3>0, ReleasedType, <1>13 DEF Typed
    <3>2. mx' = [mx EXCEPT ![m] = Released(m, others)]
      BY <2>3, <1>13 DEF Unlock
    <3>3. mx' \in [Mutexes -> MutexRecord] /\ mx'[m] = Released(m, others)
      <4>. HIDE DEF others
      <4>. QED  BY <2>1, <3>1, <3>2, <1>13
    <3>4. mx'[m].boosted \in Nat
      BY <3>1, <3>3 DEF MutexRecord
    <3>5. held' \in [Threads -> Seq(Mutexes)]
      <4>1. \A u \in Threads : Unlink(held[u], m) \in Seq(Mutexes)
        BY UnlinkList DEF TypeOK, Typed
      <4>. QED  BY <4>1, <2>3, <1>13 DEF Unlock, NoLongerHeld
    <3>6. acquired[t] - 1 \in Nat
      <4>1. m \in Owned(t) /\ Owned(t) \subseteq Mutexes
        BY <1>13 DEF Unlock, Owned
      <4>2. IsFiniteSet(Owned(t))
        BY <4>1, NamesAssumption, FS_Subset
      <4>3. Cardinality(Owned(t)) \in Nat /\ Cardinality(Owned(t)) # 0
        BY <4>1, <4>2, FS_CardinalityType, FS_EmptySet
      <4>. QED  BY <4>3, <1>13 DEF Typed, Counted, TypeOK
    <3>7. acquired' \in [Threads -> Nat]
      BY <3>6, <2>3, <1>13 DEF Unlock, TypeOK, Typed
    <3>8. inherited' \in [Threads -> Nat]
      BY <3>4, <2>3, <1>13 DEF Unlock, TypeOK, Typed
    <3>9. /\ waiters' \in [Mutexes -> Seq(Threads)]
          /\ suspended' \subseteq Threads
      <4>1. waiters \in [Mutexes -> Seq(Threads)] /\ suspended \subseteq Threads
        BY DEF TypeOK, Typed
      <4>2. waiters[m] # <<>> => Tail(waiters[m]) \in Seq(Threads)
        BY <4>1, <1>13
      <4>3. ResumeOne(m)
        BY <2>3, <1>13 DEF Unlock
      <4>. QED  BY <4>1, <4>2, <4>3, <1>13 DEF ResumeOne
    <3>. QED
      BY <3>3, <3>5, <3>7, <3>8, <3>9, <1>13
      DEF TypeOK, Typed, Unlock, MutexRecord
  <2>. QED  BY <2>2, <2>3
<1>14. ASSUME NEW t \in Threads, NEW m \in Mutexes, Consistent(t, m)
      PROVE  TypeOK'
  BY <1>14 DEF TypeOK, Typed, Labels, Consistent, At
<1>15. ASSUME NEW t \in Threads, NEW m \in Mutexes, Reset(t, m)
      PROVE  TypeOK'
  <2>1. \A u \in Threads : Unlink(held[u], m) \in Seq(Mutexes)
    BY UnlinkList DEF TypeOK, Typed
  <2>2. held' \in [Threads -> Seq(Mutexes)]
    BY <2>1, <1>15 DEF Reset, NoLongerHeld
  <2>3. Fresh \in MutexRecord
    BY AttributesAssumption DEF Fresh, MutexRecord
  <2>4. mx \in [Mutexes -> MutexRecord]
    BY DEF TypeOK, Typed, MutexRecord
  <2>5. mx' \in [Mutexes -> MutexRecord]
    BY <2>3, <2>4, <1>15 DEF Reset
  <2>6. waiters' \in [Mutexes -> Seq(Threads)] /\ suspended' \subseteq Threads
    <3>1. <<>> \in Seq(Threads) /\ waiters' = [waiters EXCEPT ![m] = <<>>]
      BY <1>15 DEF Reset
    <3>2. suspended' = suspended \ ToSet(waiters[m])
      BY <1>15 DEF Reset
    <3>. QED  BY <3>1, <3>2 DEF TypeOK, Typed
  <2>. QED
    BY <2>2, <2>5, <2>6, <1>15 DEF TypeOK, Typed, Reset, MutexRecord
<1>16. ASSUME NEW by \in Threads, NEW t \in Killable, Kill(by, t)
      PROVE  TypeOK'
  <2>. DEFINE after(n) == {held[t][j] : j \in {j \in DOMAIN held[t] :
                                 \E i \in 1..(j - 1) : held[t][i] = n}}
              new == [n \in ToSet(held[t]) |-> UnlockedByDead(t, n, after(n))]
              freed == {n \in ToSet(held[t]) :
                          mx[n].owner = t /\ new[n].owner = NoThread}
              left == [n \in Mutexes |-> Unlink(waiters[n], t)]
  <2>0. t \in Threads
    BY RolesAssumption
  <2>1. ToSet(held[t]) \subseteq Mutexes /\ \A n : after(n) \in SUBSET Mutexes
    BY <2>0, ListFinite DEF TypeOK, Typed, ToSet
  <2>2. \A n \in ToSet(held[t]) : new[n] \in MutexRecord
    BY <2>0, <2>1, UnlockedByDeadType DEF Typed
  <2>3. mx' \in [Mutexes -> MutexRecord]
    <3>1. mx' = [n \in Mutexes |->
                   IF n \in ToSet(held[t]) THEN new[n] ELSE mx[n]]
      BY <1>16 DEF Kill
    <3>2. mx \in [Mutexes -> MutexRecord]
      BY DEF TypeOK, Typed, MutexRecord
    <3>. HIDE DEF new
    <3>. QED  BY <2>2, <3>1, <3>2
  <2>4. held' \in [Threads -> Seq(Mutexes)]
    <3>1. <<>> \in Seq(Mutexes) /\ held' = [held EXCEPT ![t] = <<>>]
      BY <1>16 DEF Kill
    <3>. QED  BY <3>1 DEF TypeOK, Typed
  <2>5. acquired' = [acquired EXCEPT ![t] = @ - Cardinality(freed)]
    BY <1>16 DEF Kill
  <2>6. acquired[t] - Cardinality(freed) \in Nat
    <3>1. freed \subseteq Owned(t) /\ Owned(t) \subseteq Mutexes
      BY <2>1 DEF Owned
    <3>2. IsFiniteSet(Owned(t)) /\ IsFiniteSet(freed)
      BY <3>1, NamesAssumption, FS_Subset
    <3>3. Cardinality(freed) <= Cardinality(Owned(t))
      BY <3>1, <3>2, FS_Subset
    <3>4. Cardinality(Owned(t)) \in Nat /\ Cardinality(freed) \in Nat
      BY <3>2, FS_CardinalityType
    <3>5. acquired[t] \in Nat /\ acquired[t] >= Cardinality(Owned(t))
      BY <2>0 DEF Typed, TypeOK, Counted
    <3>. HIDE DEF freed
    <3>. QED  BY <3>3, <3>4, <3>5
  <2>7. acquired' \in [Threads -> Nat]
    <3>. HIDE DEF freed
    <3>. QED  BY <2>0, <2>5, <2>6 DEF Typed, TypeOK
  <2>8. waiters' \in [Mutexes -> Seq(Threads)] /\ suspended' \subseteq Threads
    <3>1. \A n \in Mutexes : left[n] \in Seq(Threads)
      BY UnlinkList DEF Typed, TypeOK
    <3>2. waiters' = [n \in Mutexes |-> IF n \in freed /\ left[n] # <<>>
                                        THEN Tail(left[n]) ELSE left[n]]
      BY <1>16 DEF Kill
    <3>3. suspended' = (suspended \ {t}) \
                       {Head(left[n]) : n \in {n \in freed : left[n] # <<>>}}
      BY <1>16 DEF Kill
    <3>4. suspended' \subseteq Threads
      BY <3>3 DEF Typed, TypeOK
    <3>. HIDE DEF left, freed
    <3>5. \A n \in Mutexes : left[n] # <<>> => Tail(left[n]) \in Seq(Threads)
      BY <3>1
    <3>6. waiters' \in [Mutexes -> Seq(Threads)]
      BY <3>1, <3>2, <3>5
    <3>. QED  BY <3>4, <3>6
  <2>9. /\ inherited' \in [Threads -> Nat]
        /\ fault' \in {"none", "null", "linked", "left"}
    <3>1. inherited' = inherited \/ inherited' = [inherited EXCEPT ![t] = 0]
      BY <1>16 DEF Kill
    <3>2. fault' = IF acquired'[t] # 0 THEN "left" ELSE fault
      BY <1>16 DEF Kill
    <3>3. fault' \in {"none", "null", "linked", "left"}
      BY <3>2 DEF Typed, TypeOK
    <3>4. inherited \in [Threads -> Nat] /\ 0 \in Nat
      BY DEF Typed, TypeOK
    <3>5. inherited' \in [Threads -> Nat]
      BY <3>1, <3>4, <2>0
    <3>. QED  BY <3>3, <3>5
  <2>10. /\ pc' \in [Threads -> Labels] /\ assigned' \in [Threads -> Nat]
         /\ wants' \in [Threads -> Mutexes \union {NoMutex}]
         /\ patience' \in [Threads -> {"endless", "timed", "over"}]
         /\ raise' \in [Threads -> RaiseRecord]
         /\ interrupted' \subseteq Threads
    <3>1. /\ pc' = [pc EXCEPT ![t] = "gone"]
          /\ wants' = [wants EXCEPT ![t] = NoMutex]
          /\ patience' = [patience EXCEPT ![t] = "endless"]
          /\ raise' = [raise EXCEPT ![t] = NoRaise]
          /\ UNCHANGED <<assigned, interrupted>>
      BY <1>16 DEF Kill
    <3>2. NoRaise \in RaiseRecord
      BY DEF NoRaise, RaiseRecord
    <3>. QED  BY <3>1, <3>2, <2>0 DEF Typed, TypeOK, Labels, RaiseRecord
  <2>. QED
    BY <2>3, <2>4, <2>7, <2>8, <2>9, <2>10 DEF TypeOK, MutexRecord, RaiseRecord
<1>17. ASSUME NEW t \in Threads,
             \/ Wake(t) \/ Expire(t)
      PROVE  TypeOK'
  BY <1>17 DEF TypeOK, Typed, Labels, Wake, Expire
<1>18. ASSUME NEW t \in Interruptible, Interrupt(t)
      PROVE  TypeOK'
  <2>1. t \in Threads
    BY RolesAssumption
  <2>. QED  BY <1>18, <2>1 DEF TypeOK, Typed, Labels, Interrupt
<1>19. CASE UNCHANGED vars
  BY <1>19 DEF TypeOK, Typed, Labels, vars
<1>. QED
  BY <1>1, <1>2, <1>3, <1>4, <1>5, <1>6, <1>7, <1>8, <1>9, <1>10, <1>11,
     <1>12, <1>13, <1>14, <1>15, <1>16, <1>17, <1>18, <1>19, NextSteps
  DEF Typed

\* A thread stays in its call until it returns.
LEMMA CallingStep ==
  ASSUME Typed, [Next]_vars
  PROVE  Calling'
<1>1. ASSUME NEW t \in Threads, NEW m \in Mutexes,
             NEW site \in {"try", "lock", "timed", "loop"},
             Attempting(t, m, site), Acquire(t, m) \/ Relock(t, m),
             UNCHANGED <<assigned, inherited, interrupted>>
      PROVE  Calling'
  <2>1. CASE Return(t)
    BY <2>1, <1>1 DEF Typed, TypeOK, Calling, Return
  <2>2. CASE BeginRaise(t, m, "self")
    BY <2>2, <1>1 DEF Typed, TypeOK, Calling, BeginRaise, Attempting
  <2>. QED  BY <2>1, <2>2, <1>1 DEF Acquire, Relock
<1>2. ASSUME NEW t \in Threads, NEW m \in Mutexes,
             NEW site \in {"try", "lock", "timed", "loop"},
             Attempting(t, m, site), Contend(t, m, site),
             UNCHANGED <<assigned, inherited, interrupted>>
      PROVE  Calling'
  <2>1. CASE WouldBlock(t, m, site)
    BY <2>1, <1>2
    DEF Typed, TypeOK, Calling, Attempting, WouldBlock, LinkNode, EnterLoop,
        Return
  <2>2. CASE BeginRaise(t, m, site)
    BY <2>2, <1>2 DEF Typed, TypeOK, Calling, Attempting, BeginRaise
  <2>. QED  BY <2>1, <2>2, <1>2 DEF Contend
<1>3. ASSUME NEW t \in Threads,
             \/ ReadOwner(t) \/ ReadBoost(t) \/ UnlinkNode(t) \/ Retry(t)
      PROVE  Calling'
  <2>1. pc[t] \notin {"app", "gone"} /\ UNCHANGED wants
    BY <1>3 DEF ReadOwner, ReadBoost, UnlinkNode, Retry, At, Goto
  <2>2. UNCHANGED pc \/ \E label \in Labels : pc' = [pc EXCEPT ![t] = label]
    BY <1>3 DEF ReadOwner, ReadBoost, UnlinkNode, Retry, Goto, Labels, Raising
  <2>. QED  BY <2>1, <2>2 DEF Typed, TypeOK, Calling
<1>4. ASSUME NEW t \in Threads, StorePriority(t)
      PROVE  Calling'
  BY <1>4 DEF Typed, TypeOK, Calling, StorePriority, Proceed, EnterLoop, At,
              Return
<1>5. ASSUME NEW t \in Threads, LinkAfterRaise(t)
      PROVE  Calling'
  BY <1>5 DEF Typed, TypeOK, Calling, LinkAfterRaise, LinkNode, At
<1>6. ASSUME NEW t \in Threads,
             \/ GiveUp(t) \/ WalkList(t) \/ RestoreBoost(t)
      PROVE  Calling'
  BY <1>6 DEF Typed, TypeOK, Calling, GiveUp, WalkList, RestoreBoost, BeginRaise,
              At, Goto, Return
<1>7. ASSUME NEW t \in Threads, NEW m \in Mutexes,
             Unlock(t, m) \/ Consistent(t, m) \/ Reset(t, m)
      PROVE  Calling'
  BY <1>7 DEF Typed, TypeOK, Calling, Unlock, Consistent, Reset
<1>8. ASSUME NEW by \in Threads, NEW t \in Killable, Kill(by, t)
      PROVE  Calling'
  BY <1>8 DEF Kill, Typed, TypeOK, Calling
<1>9. ASSUME NEW t \in Threads,
             \/ Wake(t) \/ Expire(t)
      PROVE  Calling'
  BY <1>9 DEF Typed, TypeOK, Calling, Wake, Expire
<1>10. ASSUME NEW t \in Interruptible, Interrupt(t)
      PROVE  Calling'
  BY <1>10 DEF Typed, TypeOK, Calling, Interrupt
<1>11. CASE UNCHANGED vars
  BY <1>11 DEF Typed, TypeOK, Calling, vars
<1>. QED
  BY <1>1, <1>2, <1>3, <1>4, <1>5, <1>6, <1>7, <1>8, <1>9, <1>10, <1>11,
     NextSteps
  DEF Typed

\* priority() refuses priority::none.
LEMMA AssignedStep ==
  ASSUME Typed, [Next]_vars
  PROVE  Assigned'
<1>1. ASSUME NEW t \in Threads, NEW m \in Mutexes,
             NEW site \in {"try", "lock", "timed", "loop"},
             Attempting(t, m, site), Acquire(t, m) \/ Relock(t, m) \/ Contend(t, m, site),
             UNCHANGED <<assigned, inherited, interrupted>>
      PROVE  Assigned'
  BY <1>1 DEF Typed, Assigned
<1>2. ASSUME NEW t \in Threads,
             \/ ReadOwner(t) \/ ReadBoost(t) \/ LinkAfterRaise(t)
             \/ UnlinkNode(t) \/ Retry(t) \/ GiveUp(t) \/ WalkList(t)
             \/ RestoreBoost(t) \/ Wake(t) \/ Expire(t)
      PROVE  Assigned'
  BY <1>2
  DEF Typed, Assigned, ReadOwner, ReadBoost, LinkAfterRaise, UnlinkNode, Retry,
      GiveUp, WalkList, RestoreBoost, Wake, Expire
<1>3. ASSUME NEW t \in Threads, StorePriority(t)
      PROVE  Assigned'
  BY <1>3 DEF Typed, TypeOK, Assigned, StorePriority
<1>4. ASSUME NEW t \in Threads, NEW m \in Mutexes,
             Unlock(t, m) \/ Consistent(t, m) \/ Reset(t, m)
      PROVE  Assigned'
  BY <1>4 DEF Typed, Assigned, Unlock, Consistent, Reset
<1>5. ASSUME NEW by \in Threads, NEW t \in Killable, Kill(by, t)
      PROVE  Assigned'
  BY <1>5 DEF Typed, Assigned, Kill
<1>6. ASSUME NEW t \in Interruptible, Interrupt(t)
      PROVE  Assigned'
  BY <1>6 DEF Typed, Assigned, Interrupt
<1>7. CASE UNCHANGED vars
  BY <1>7 DEF Typed, Assigned, vars
<1>. QED
  BY <1>1, <1>2, <1>3, <1>4, <1>5, <1>6, <1>7, NextSteps
  DEF Typed

-----------------------------------------------------------------------------
\* The counter of u changes as the set of the mutexes it owns does.
Follows(u) ==
  \/ \E F \in SUBSET Owned(u) :
       /\ Owned(u)' = Owned(u) \ F
       /\ acquired'[u] = acquired[u] - Cardinality(F)
  \/ \E m \in Mutexes \ Owned(u) :
       /\ Owned(u)' = Owned(u) \union {m}
       /\ acquired'[u] = acquired[u] + 1

\* It stays, or is raised, while u owns no more than before.
Lags(u) == Owned(u)' \subseteq Owned(u) /\ acquired'[u] >= acquired[u]

\* It lags behind only then.
Tracks(u) ==
  \/ Follows(u)
  \/ /\ Lags(u)
     /\ ResetOwned \/ \E t \in Threads, m \in Mutexes : TooUrgent(t, m)

\* A step that changes neither owners nor counters.
LEMMA SameOwners ==
  ASSUME Typed, NEW u \in Threads, acquired'[u] = acquired[u],
         \A n \in Mutexes : mx'[n].owner = mx[n].owner
  PROVE  Tracks(u)
<1>1. Owned(u)' = Owned(u) \ {} /\ {} \in SUBSET Owned(u)
  BY DEF Owned
<1>2. acquired'[u] = acquired[u] - Cardinality({})
  BY FS_EmptySet DEF Typed, TypeOK
<1>. QED  BY <1>1, <1>2 DEF Follows, Tracks

\* The counter follows the mutexes owned, except when the ceiling of a mutex is
\* too low for its caller or an owned mutex is reset: then it lags behind.
LEMMA OwnersStep ==
  ASSUME Typed, [Next]_vars
  PROVE  \A u \in Threads : Tracks(u)
<1>1. ASSUME NEW t \in Threads, NEW m \in Mutexes,
             NEW site \in {"try", "lock", "timed", "loop"},
             Attempting(t, m, site), Acquire(t, m),
             UNCHANGED <<assigned, inherited, interrupted>>
      PROVE  \A u \in Threads : Tracks(u)
  <2>1. /\ mx[m].owner = NoThread
        /\ acquired' = [acquired EXCEPT ![t] = @ + 1]
        /\ \A n \in Mutexes \ {m} : mx'[n].owner = mx[n].owner
        /\ mx'[m].owner = IF TooUrgent(t, m) THEN NoThread ELSE t
    BY <1>1 DEF Acquire, Typed, TypeOK
  <2>2. NoThread \notin Threads /\ acquired \in [Threads -> Nat]
    BY NamesAssumption DEF Typed, TypeOK
  <2>3. ASSUME NEW u \in Threads \ {t}
        PROVE  Follows(u)
    <3>1. acquired'[u] = acquired[u]
      BY <2>1, <2>2
    <3>2. Owned(u)' = Owned(u)
      BY <2>1, <2>2 DEF Owned
    <3>3. /\ {} \in SUBSET Owned(u)
          /\ acquired'[u] = acquired[u] - Cardinality({})
      BY <3>1, <2>2, FS_EmptySet
    <3>. QED  BY <3>2, <3>3 DEF Follows
  <2>4. acquired'[t] = acquired[t] + 1 /\ acquired[t] \in Nat
    BY <2>1, <2>2
  <2>5. CASE TooUrgent(t, m)
    <3>1. Owned(t)' = Owned(t)
      BY <2>1, <2>2, <2>5 DEF Owned
    <3>. QED  BY <3>1, <2>3, <2>4, <2>5, <1>1 DEF Lags, Tracks
  <2>6. CASE ~ TooUrgent(t, m)
    <3>1. Owned(t)' = Owned(t) \union {m} /\ m \in Mutexes \ Owned(t)
      BY <2>1, <2>2, <2>6 DEF Owned
    <3>. QED  BY <3>1, <2>3, <2>4 DEF Follows, Tracks
  <2>. QED  BY <2>5, <2>6
<1>2. ASSUME NEW t \in Threads, NEW m \in Mutexes,
             NEW site \in {"try", "lock", "timed", "loop"},
             Attempting(t, m, site), Relock(t, m),
             UNCHANGED <<assigned, inherited, interrupted>>
      PROVE  \A u \in Threads : Tracks(u)
  <2>1. acquired' = acquired
    BY <1>2 DEF Relock
  <2>2. \A n \in Mutexes : mx'[n].owner = mx[n].owner
    <3>1. mx \in [Mutexes -> MutexRecord]
      BY DEF Typed, TypeOK, MutexRecord
    <3>2. mx' = mx \/ mx' = [mx EXCEPT ![m].count = @ + 1]
      BY <1>2 DEF Relock
    <3>. QED  BY <3>1, <3>2 DEF MutexRecord
  <2>. QED  BY <2>1, <2>2, SameOwners
<1>3. ASSUME NEW t \in Threads, NEW m \in Mutexes,
             NEW site \in {"try", "lock", "timed", "loop"},
             Attempting(t, m, site), Contend(t, m, site),
             UNCHANGED <<assigned, inherited, interrupted>>
      PROVE  \A u \in Threads : Tracks(u)
  <2>1. acquired' = acquired
    BY <1>3 DEF Contend
  <2>2. \A n \in Mutexes : mx'[n].owner = mx[n].owner
    <3>1. mx \in [Mutexes -> MutexRecord]
      BY DEF Typed, TypeOK, MutexRecord
    <3>2. mx' = mx \/ mx' = [mx EXCEPT ![m].boosted = Priority[t]]
      BY <1>3 DEF Contend
    <3>. QED  BY <3>1, <3>2 DEF MutexRecord
  <2>. QED  BY <2>1, <2>2, SameOwners
<1>4. ASSUME NEW t \in Threads,
             \/ ReadOwner(t) \/ ReadBoost(t) \/ StorePriority(t)
             \/ LinkAfterRaise(t) \/ UnlinkNode(t) \/ Retry(t)
             \/ GiveUp(t) \/ WalkList(t) \/ Wake(t) \/ Expire(t)
      PROVE  \A u \in Threads : Tracks(u)
  <2>1. mx' = mx /\ acquired' = acquired
    BY <1>4 DEF ReadOwner, ReadBoost, StorePriority, LinkAfterRaise, UnlinkNode,
                Retry, GiveUp, WalkList, Wake, Expire
  <2>. QED  BY <2>1, SameOwners
<1>5. ASSUME NEW t \in Threads, RestoreBoost(t)
      PROVE  \A u \in Threads : Tracks(u)
  <2>1. acquired' = acquired
    BY <1>5 DEF RestoreBoost
  <2>2. \A n \in Mutexes : mx'[n].owner = mx[n].owner
    BY <1>5 DEF RestoreBoost, Typed, TypeOK
  <2>. QED  BY <2>1, <2>2, SameOwners
<1>6. ASSUME NEW t \in Threads, NEW m \in Mutexes, Unlock(t, m)
      PROVE  \A u \in Threads : Tracks(u)
  <2>1. CASE Type[m] = "recursive" /\ mx[m].count > 1
    <3>1. acquired' = acquired /\ mx' = [mx EXCEPT ![m].count = @ - 1]
      BY <2>1, <1>6 DEF Unlock
    <3>2. \A n \in Mutexes : mx'[n].owner = mx[n].owner
      BY <3>1 DEF Typed, TypeOK
    <3>. QED  BY <3>1, <3>2, SameOwners
  <2>2. CASE ~ (Type[m] = "recursive" /\ mx[m].count > 1)
    <3>1. mx[m].owner = t /\ acquired' = [acquired EXCEPT ![t] = @ - 1]
      BY <2>2, <1>6 DEF Unlock
    <3>2. /\ mx'[m].owner = NoThread
          /\ \A n \in Mutexes \ {m} : mx'[n].owner = mx[n].owner
      <4>1. mx' = [mx EXCEPT ![m] = Released(m, ToSet(held[t]) \ {m})]
        BY <2>2, <1>6 DEF Unlock
      <4>2. Released(m, ToSet(held[t]) \ {m}).owner = NoThread
        BY DEF Released, Typed, TypeOK
      <4>. QED  BY <4>1, <4>2 DEF Typed, TypeOK
    <3>3. NoThread \notin Threads /\ acquired \in [Threads -> Nat]
      BY NamesAssumption DEF Typed, TypeOK
    <3>4. ASSUME NEW u \in Threads \ {t}
          PROVE  Follows(u)
      <4>1. acquired'[u] = acquired[u]
        BY <3>1, <3>3
      <4>2. Owned(u)' = Owned(u)
        BY <3>1, <3>2, <3>3 DEF Owned
      <4>3. /\ {} \in SUBSET Owned(u)
            /\ acquired'[u] = acquired[u] - Cardinality({})
        BY <4>1, <3>3, FS_EmptySet
      <4>. QED  BY <4>2, <4>3 DEF Follows
    <3>5. Owned(t)' = Owned(t) \ {m} /\ {m} \in SUBSET Owned(t)
      BY <3>1, <3>2, <3>3 DEF Owned
    <3>6. acquired'[t] = acquired[t] - Cardinality({m})
      BY <3>1, <3>3, FS_Singleton
    <3>. QED  BY <3>4, <3>5, <3>6 DEF Follows, Tracks
  <2>. QED  BY <2>1, <2>2
<1>7. ASSUME NEW t \in Threads, NEW m \in Mutexes, Consistent(t, m)
      PROVE  \A u \in Threads : Tracks(u)
  <2>1. acquired' = acquired
    BY <1>7 DEF Consistent
  <2>2. \A n \in Mutexes : mx'[n].owner = mx[n].owner
    <3>1. mx \in [Mutexes -> MutexRecord]
      BY DEF Typed, TypeOK, MutexRecord
    <3>2. mx' = [mx EXCEPT ![m].consistent = TRUE]
      BY <1>7 DEF Consistent
    <3>. QED  BY <3>1, <3>2 DEF MutexRecord
  <2>. QED  BY <2>1, <2>2, SameOwners
<1>8. ASSUME NEW t \in Threads, NEW m \in Mutexes, Reset(t, m)
      PROVE  \A u \in Threads : Tracks(u)
  <2>1. /\ mx'[m].owner = NoThread
        /\ \A n \in Mutexes \ {m} : mx'[n].owner = mx[n].owner
        /\ acquired' = acquired
    BY <1>8 DEF Reset, Fresh, Typed, TypeOK
  <2>2. CASE mx[m].owner = NoThread
    BY <2>1, <2>2, SameOwners
  <2>3. CASE ResetOwned
    <3>1. \A u \in Threads : Owned(u)' \subseteq Owned(u)
      BY <2>1, NamesAssumption DEF Owned
    <3>2. \A u \in Threads : acquired'[u] >= acquired[u]
      BY <2>1 DEF Typed, TypeOK
    <3>. QED  BY <3>1, <3>2, <2>3 DEF Lags, Tracks
  <2>. QED  BY <2>2, <2>3, <1>8 DEF Reset
<1>9. ASSUME NEW by \in Threads, NEW t \in Killable, Kill(by, t)
      PROVE  \A u \in Threads : Tracks(u)
  <2>. DEFINE after(n) == {held[t][j] : j \in {j \in DOMAIN held[t] :
                                 \E i \in 1..(j - 1) : held[t][i] = n}}
              new == [n \in ToSet(held[t]) |-> UnlockedByDead(t, n, after(n))]
              freed == {n \in ToSet(held[t]) :
                          mx[n].owner = t /\ new[n].owner = NoThread}
              left == [n \in Mutexes |-> Unlink(waiters[n], t)]
  <2>0. t \in Threads
    BY RolesAssumption
  <2>1. /\ acquired' = [acquired EXCEPT ![t] = @ - Cardinality(freed)]
        /\ mx' = [n \in Mutexes |->
                    IF n \in ToSet(held[t]) THEN new[n] ELSE mx[n]]
    BY <1>9 DEF Kill
  <2>2. NoThread \notin Threads /\ acquired \in [Threads -> Nat]
    BY NamesAssumption DEF Typed, TypeOK
  <2>3. ASSUME NEW n \in Mutexes
        PROVE  mx'[n].owner = IF n \in freed THEN NoThread ELSE mx[n].owner
    <3>1. CASE n \in ToSet(held[t])
      <4>1. mx'[n] = UnlockedByDead(t, n, after(n))
        BY <2>1, <3>1
      <4>2. mx[n].owner = t =>
              mx'[n].owner = NoThread \/ mx'[n].owner = mx[n].owner
        BY <4>1 DEF UnlockedByDead, Marked, Released, Typed, TypeOK
      <4>3. mx[n].owner # t => mx'[n].owner = mx[n].owner
        BY <4>1 DEF UnlockedByDead, Marked, Typed, TypeOK
      <4>4. n \in freed <=> mx[n].owner = t /\ mx'[n].owner = NoThread
        BY <3>1, <4>1
      <4>. HIDE DEF freed
      <4>. QED  BY <4>2, <4>3, <4>4
    <3>2. CASE n \notin ToSet(held[t])
      <4>1. mx'[n] = mx[n] /\ n \notin freed
        BY <2>1, <3>2
      <4>. QED  BY <4>1
    <3>. QED  BY <3>1, <3>2
  <2>4. \A n \in freed : n \in Mutexes /\ mx[n].owner = t
    BY <2>0, ListFinite DEF Typed, TypeOK
  <2>. HIDE DEF freed
  <2>5. ASSUME NEW u \in Threads \ {t}
        PROVE  Follows(u)
    <3>1. acquired'[u] = acquired[u]
      BY <2>1, <2>2
    <3>2. Owned(u)' = Owned(u)
      BY <2>2, <2>3, <2>4 DEF Owned
    <3>3. /\ {} \in SUBSET Owned(u)
          /\ acquired'[u] = acquired[u] - Cardinality({})
      BY <3>1, <2>2, FS_EmptySet
    <3>. QED  BY <3>2, <3>3 DEF Follows
  <2>6. Owned(t)' = Owned(t) \ freed /\ freed \in SUBSET Owned(t)
    BY <2>0, <2>2, <2>3, <2>4 DEF Owned
  <2>7. acquired'[t] = acquired[t] - Cardinality(freed)
    BY <2>0, <2>1, <2>2
  <2>. QED  BY <2>5, <2>6, <2>7 DEF Follows, Tracks
<1>10. ASSUME NEW t \in Interruptible, Interrupt(t)
      PROVE  \A u \in Threads : Tracks(u)
  BY <1>10, SameOwners DEF Interrupt
<1>11. CASE UNCHANGED vars
  BY <1>11, SameOwners DEF vars
<1>. QED
  BY <1>1, <1>2, <1>3, <1>4, <1>5, <1>6, <1>7, <1>8, <1>9, <1>10, <1>11,
     NextSteps
  DEF Typed

\* So the counter moves by the number of mutexes that change hands.
LEMMA FollowsCount ==
  ASSUME Typed, NEW u \in Threads, Follows(u)
  PROVE  /\ Cardinality(Owned(u)) \in Nat /\ Cardinality(Owned(u)') \in Nat
         /\ acquired'[u] - acquired[u]
              = Cardinality(Owned(u)') - Cardinality(Owned(u))
<1>1. IsFiniteSet(Owned(u)) /\ Cardinality(Owned(u)) \in Nat
  BY NamesAssumption, FS_Subset, FS_CardinalityType DEF Owned
<1>2. acquired[u] \in Nat
  BY DEF Typed, TypeOK
<1>3. ASSUME NEW F \in SUBSET Owned(u), Owned(u)' = Owned(u) \ F,
             acquired'[u] = acquired[u] - Cardinality(F)
      PROVE  /\ Cardinality(Owned(u)') \in Nat
             /\ acquired'[u] - acquired[u]
                  = Cardinality(Owned(u)') - Cardinality(Owned(u))
  <2>. DEFINE L == Owned(u) \ F
  <2>1. IsFiniteSet(F) /\ IsFiniteSet(L)
    BY <1>1, FS_Subset
  <2>2. Cardinality(F) \in Nat /\ Cardinality(L) \in Nat
    BY <2>1, FS_CardinalityType
  <2>3. L \union F = Owned(u) /\ L \intersect F = {}
    OBVIOUS
  <2>4. Cardinality(L \union F)
          = Cardinality(L) + Cardinality(F) - Cardinality(L \intersect F)
    <3>. HIDE DEF L
    <3>. QED  BY <2>1, FS_Union
  <2>5. Cardinality(L \intersect F) = 0
    BY <2>3, FS_EmptySet
  <2>6. Cardinality(Owned(u)) = Cardinality(L) + Cardinality(F)
    BY <2>2, <2>3, <2>4, <2>5
  <2>7. Cardinality(Owned(u)') = Cardinality(L)
    BY <1>3
  <2>. HIDE DEF L
  <2>. QED  BY <1>2, <1>3, <2>2, <2>6, <2>7
<1>4. ASSUME NEW m \in Mutexes \ Owned(u), Owned(u)' = Owned(u) \union {m},
             acquired'[u] = acquired[u] + 1
      PROVE  /\ Cardinality(Owned(u)') \in Nat
             /\ acquired'[u] - acquired[u]
                  = Cardinality(Owned(u)') - Cardinality(Owned(u))
  <2>1. Cardinality(Owned(u)') = Cardinality(Owned(u)) + 1
    BY <1>1, <1>4, FS_AddElement
  <2>. QED  BY <1>1, <1>2, <1>4, <2>1
<1>. QED  BY <1>1, <1>3, <1>4 DEF Follows

\* It never falls below that number.
LEMMA CountedStep ==
  ASSUME Typed, [Next]_vars
  PROVE  Counted'
<1>1. ASSUME NEW u \in Threads
      PROVE  acquired'[u] >= Cardinality(Owned(u)')
  <2>1. acquired[u] \in Nat /\ acquired'[u] \in Nat
    BY TypeStep DEF Typed, TypeOK
  <2>2. acquired[u] >= Cardinality(Owned(u))
    BY DEF Typed, Counted
  <2>3. CASE Follows(u)
    BY <2>1, <2>2, <2>3, FollowsCount
  <2>4. CASE Lags(u)
    <3>1. IsFiniteSet(Owned(u)) /\ Cardinality(Owned(u)) \in Nat
      BY NamesAssumption, FS_Subset, FS_CardinalityType DEF Owned
    <3>2. /\ Cardinality(Owned(u)') <= Cardinality(Owned(u))
          /\ Cardinality(Owned(u)') \in Nat
      BY <2>4, <3>1, FS_Subset, FS_CardinalityType DEF Lags
    <3>. QED  BY <2>1, <2>2, <2>4, <3>1, <3>2 DEF Lags
  <2>. QED  BY <2>3, <2>4, OwnersStep DEF Tracks
<1>. QED  BY <1>1 DEF Counted

\* The typed states: initially, by every step, and always.
LEMMA InitTyped ==
  ASSUME Init
  PROVE  Typed
<1>1. TypeOK
  <2>1. mx \in [Mutexes -> MutexRecord]
    BY AttributesAssumption DEF Init, Fresh, MutexRecord
  <2>2. /\ held \in [Threads -> Seq(Mutexes)]
        /\ waiters \in [Mutexes -> Seq(Threads)]
    BY DEF Init
  <2>3. /\ acquired \in [Threads -> Nat] /\ assigned \in [Threads -> Nat]
        /\ inherited \in [Threads -> Nat]
    BY AttributesAssumption DEF Init
  <2>4. /\ suspended \subseteq Threads /\ interrupted \subseteq Threads
        /\ patience \in [Threads -> {"endless", "timed", "over"}]
        /\ pc \in [Threads -> Labels]
        /\ fault \in {"none", "null", "linked", "left"}
        /\ wants \in [Threads -> Mutexes \union {NoMutex}]
        /\ raise \in [Threads -> RaiseRecord]
    BY DEF Init, Labels, NoRaise, RaiseRecord
  <2>. QED  BY <2>1, <2>2, <2>3, <2>4 DEF TypeOK, MutexRecord, RaiseRecord
<1>2. Calling /\ Assigned
  BY AttributesAssumption DEF Init, Calling, Assigned
<1>3. \A u \in Threads : Owned(u) = {}
  BY NamesAssumption DEF Init, Fresh, Owned
<1>4. Counted
  <2>1. \A u \in Threads : acquired[u] = 0 /\ Cardinality(Owned(u)) = 0
    BY <1>3, FS_EmptySet DEF Init
  <2>. QED  BY <2>1 DEF Counted
<1>. QED  BY <1>1, <1>2, <1>4 DEF Typed

\* Every step keeps the types and what they rest on: counters that do not
\* pass below the mutexes owned, and calls that want a mutex of theirs.
LEMMA TypedStep ==
  ASSUME Typed, [Next]_vars
  PROVE  Typed'
BY TypeStep, CallingStep, CountedStep, AssignedStep DEF Typed


\* So they hold in every reachable state, whoever is killed and whatever is
\* reset.
LEMMA SpecTyped == Spec => []Typed
<1>1. Init => Typed
  BY InitTyped
<1>2. Typed /\ [Next]_vars => Typed'
  BY TypedStep
<1>. QED  BY <1>1, <1>2, PTL DEF Spec

\* The fields of every mutex and the state of every thread keep their types:
\* count_ does not pass max_count_, and acquired_mutexes_ does not fall below
\* zero, whoever is killed and whatever is reset, even with an owner.
THEOREM TypeCorrect == Spec => []TypeOK
<1>1. Typed => TypeOK
  BY DEF Typed
<1>. QED  BY <1>1, SpecTyped, PTL
-----------------------------------------------------------------------------
\* No thread and no ceiling is above the ceiling of a protect mutex: so it is
\* with the default ceiling, priority::highest.
CeilingsAtTop ==
  \A m \in Mutexes :
    Protocol[m] = "protect" =>
      /\ \A t \in Threads : Prio[t] <= Ceiling[m]
      /\ \A n \in Mutexes : Protocol[n] = "protect" => Ceiling[n] <= Ceiling[m]

\* A thread that may be killed locks nothing recursively, and shares no robust
\* mutex with another such thread.
CleanKills ==
  \A t \in Killable : \A m \in Mutexes :
    t \in Users[m] =>
      /\ Type[m] # "recursive"
      /\ m \in Robust => Users[m] \intersect Killable = {t}

Regular == CeilingsAtTop /\ CleanKills /\ ~ ResetOwned

\* No boost and no priority is above the ceiling of a protect mutex.
Low(b) == \A m \in Mutexes : Protocol[m] = "protect" => b <= Ceiling[m]

Below ==
  /\ \A t \in Threads : Low(assigned[t]) /\ Low(inherited[t])
  /\ \A m \in Mutexes : Low(mx[m].boosted)

\* Nor is one that is about to be stored, and it is for a user of the mutex.
Underway ==
  \A t \in Threads :
    /\ Low(raise[t].prio)
    /\ pc[t] \in {"read_boost", "store"} => raise[t].owner \in Users[wants[t]]

\* Only its users own a mutex.
OwnersUse ==
  \A m \in Mutexes : mx[m].owner # NoThread => mx[m].owner \in Users[m]

\* Only the death of an owner makes a mutex inconsistent.
Healthy ==
  \A m \in Mutexes :
    \/ mx[m].recoverable /\ ~ mx[m].dead /\ mx[m].consistent
    \/ m \in Robust /\ \A t \in Users[m] \intersect Killable : pc[t] = "gone"

\* The counter is the number of mutexes owned.
Exact == \A t \in Threads : acquired[t] = Cardinality(Owned(t))

\* A destroyed thread owns nothing.
GoneOwnNothing ==
  \A m \in Mutexes : mx[m].owner # NoThread => pc[mx[m].owner] # "gone"

Inv == /\ Typed /\ GoneOwnNothing /\ Below /\ Underway /\ OwnersUse /\ Healthy
       /\ OwnershipAgrees /\ Exact /\ AssertionsHold
-----------------------------------------------------------------------------

\* Every priority that occurs is below the ceilings.
LEMMA LowValues ==
  ASSUME Inv, Regular
  PROVE  /\ Low(0)
         /\ \A t \in Threads : Low(Priority[t])
         /\ \A m \in Mutexes : Protocol[m] = "protect" => Low(Ceiling[m])
         /\ \A t \in Threads, m \in Mutexes : ~ TooUrgent(t, m)
<1>1. Low(0)
  BY AttributesAssumption DEF Low
<1>2. \A t \in Threads : Low(Priority[t])
  <2>1. \A t \in Threads :
          Priority[t] = inherited[t] \/ Priority[t] = assigned[t]
    BY DEF Priority
  <2>. QED  BY <2>1 DEF Inv, Below
<1>3. \A m \in Mutexes : Protocol[m] = "protect" => Low(Ceiling[m])
  BY DEF Regular, CeilingsAtTop, Low
<1>4. \A t \in Threads, m \in Mutexes : ~ TooUrgent(t, m)
  <2>1. \A t \in Threads, m \in Mutexes :
          Priority[t] \in Nat /\ Ceiling[m] \in Nat
    BY Priorities, AttributesAssumption DEF Inv
  <2>. QED  BY <1>2, <2>1 DEF TooUrgent, Low
<1>. QED  BY <1>1, <1>2, <1>3, <1>4

\* A mutex whose owner is killed is released, robust or not.
LEMMA KillReleases ==
  ASSUME Inv, Regular, NEW t \in Killable, NEW m \in Owned(t),
         NEW others \in SUBSET Mutexes
  PROVE  LET new == UnlockedByDead(t, m, others) IN
         /\ new.owner = NoThread /\ new.count = 0
         /\ new.boosted = BoostLeft(m, others)
         /\ ~ new.dead
         /\ m \notin Robust => new.recoverable /\ new.consistent
<1>1. m \in Mutexes /\ mx[m].owner = t /\ t \in Threads
  BY RolesAssumption DEF Owned
<1>2. t \in Users[m] /\ Type[m] # "recursive"
  BY <1>1, NamesAssumption DEF Inv, OwnersUse, Regular, CleanKills
<1>3. mx[m].recoverable /\ ~ mx[m].dead /\ mx[m].consistent
  <2>1. pc[t] # "gone"
    BY <1>1, NamesAssumption DEF Inv, GoneOwnNothing
  <2>. QED  BY <1>1, <1>2, <2>1 DEF Inv, Healthy
<1>4. mx[m] \in MutexRecord
  BY <1>1 DEF Inv, Typed, TypeOK, MutexRecord
<1>5. UnlockedByDead(t, m, others) =
        [Released(m, others) EXCEPT
           !.consistent = Marked(m).consistent,
           !.recoverable = ~ (Marked(m).dead /\ ~ Marked(m).consistent)]
  BY <1>1, <1>2, <1>3 DEF UnlockedByDead
<1>6. m \notin Robust => ~ Marked(m).dead /\ Marked(m).consistent
  BY <1>3, <1>4 DEF Marked, MutexRecord
<1>7. Released(m, others) =
        [mx[m] EXCEPT !.owner = NoThread, !.count = 0,
                      !.boosted = BoostLeft(m, others), !.dead = FALSE,
                      !.recoverable = ~ (mx[m].dead /\ ~ mx[m].consistent)]
  BY DEF Released
<1>. QED  BY <1>4, <1>5, <1>6, <1>7 DEF MutexRecord

\* kill() releases everything the thread owns, and touches nothing else.
LEMMA KillEffect ==
  ASSUME Inv, Regular, NEW by \in Threads, NEW t \in Killable, Kill(by, t)
  PROVE  /\ t \in Threads
         /\ \A m \in Mutexes \ Owned(t) : mx'[m] = mx[m]
         /\ \A m \in Owned(t) : \E others \in SUBSET Owned(t) :
              mx'[m] = UnlockedByDead(t, m, others)
         /\ held' = [held EXCEPT ![t] = <<>>]
         /\ acquired' = [acquired EXCEPT ![t] = @ - Cardinality(Owned(t))]
         /\ \/ inherited' = [inherited EXCEPT ![t] = 0]
            \/ inherited' = inherited /\ \A m \in Owned(t) : mx[m].boosted = 0
<1>. DEFINE after(n) == {held[t][j] : j \in {j \in DOMAIN held[t] :
                               \E i \in 1..(j - 1) : held[t][i] = n}}
            new == [n \in ToSet(held[t]) |-> UnlockedByDead(t, n, after(n))]
            freed == {n \in ToSet(held[t]) :
                        mx[n].owner = t /\ new[n].owner = NoThread}
<1>1. t \in Threads
  BY RolesAssumption
<1>2. ToSet(held[t]) = Owned(t)
  BY <1>1 DEF Inv, OwnershipAgrees, Owned
<1>3. \A n : after(n) \in SUBSET Owned(t)
  BY <1>2 DEF ToSet
<1>4. mx' = [m \in Mutexes |-> IF m \in ToSet(held[t]) THEN new[m] ELSE mx[m]]
  BY DEF Kill
<1>5. \A m \in Mutexes \ Owned(t) : mx'[m] = mx[m]
  BY <1>2, <1>4
<1>6. \A m \in Owned(t) : new[m] = UnlockedByDead(t, m, after(m))
  BY <1>2
<1>7. \A m \in Owned(t) : m \in Mutexes /\ mx[m].owner = t
  BY DEF Owned
<1>8. ASSUME NEW m \in Owned(t)
      PROVE  \E others \in SUBSET Owned(t) :
               mx'[m] = UnlockedByDead(t, m, others)
  BY <1>2, <1>3, <1>4, <1>6, <1>7
<1>9. ASSUME NEW m \in Owned(t)
      PROVE  m \in freed
  <2>1. after(m) \in SUBSET Mutexes
    BY <1>3, <1>7
  <2>2. UnlockedByDead(t, m, after(m)).owner = NoThread
    <3>. HIDE DEF after
    <3>. QED  BY <2>1, KillReleases
  <2>. QED  BY <1>2, <1>6, <1>7, <2>2
<1>10. \/ inherited' = [inherited EXCEPT ![t] = 0]
       \/ inherited' = inherited /\ ~ \E m \in freed : mx[m].boosted # 0
  BY DEF Kill
<1>11. held' = [held EXCEPT ![t] = <<>>]
  BY DEF Kill
<1>12. acquired' = [acquired EXCEPT ![t] = @ - Cardinality(Owned(t))]
  <2>1. acquired' = [acquired EXCEPT ![t] = @ - Cardinality(freed)]
    BY DEF Kill
  <2>2. freed = Owned(t)
    BY <1>2, <1>9
  <2>. QED  BY <2>1, <2>2
<1>. HIDE DEF freed, new, after
<1>. QED  BY <1>1, <1>5, <1>8, <1>9, <1>10, <1>11, <1>12

\* No step makes a boost or a priority pass a ceiling.
LEMMA BelowStep ==
  ASSUME Inv, Regular, [Next]_vars
  PROVE  Below'
<1>1. ASSUME NEW t \in Threads, NEW m \in Mutexes,
             NEW site \in {"try", "lock", "timed", "loop"},
             Attempting(t, m, site), Acquire(t, m),
             UNCHANGED <<assigned, inherited, interrupted>>
      PROVE  Below'
  <2>0. /\ mx \in [Mutexes -> MutexRecord]
        /\ inherited \in [Threads -> Nat] /\ assigned \in [Threads -> Nat]
    BY DEF Inv, Typed, TypeOK, MutexRecord
  <2>1. mx' = [mx EXCEPT ![m].owner = t, ![m].count = 1,
                         ![m].boosted = IF Protocol[m] = "protect"
                                        THEN Ceiling[m] ELSE @]
    BY LowValues, <1>1 DEF Acquire
  <2>2. Protocol[m] = "protect" => Low(Ceiling[m])
    BY LowValues, <1>1
  <2>. QED  BY <2>0, <2>1, <2>2, <1>1 DEF Inv, Below, MutexRecord
<1>2. ASSUME NEW t \in Threads, NEW m \in Mutexes,
             NEW site \in {"try", "lock", "timed", "loop"},
             Attempting(t, m, site), Relock(t, m),
             UNCHANGED <<assigned, inherited, interrupted>>
      PROVE  Below'
  <2>0. /\ mx \in [Mutexes -> MutexRecord]
        /\ inherited \in [Threads -> Nat] /\ assigned \in [Threads -> Nat]
    BY DEF Inv, Typed, TypeOK, MutexRecord
  <2>1. mx' = mx \/ mx' = [mx EXCEPT ![m].count = @ + 1]
    BY <1>2 DEF Relock
  <2>. QED  BY <2>0, <2>1, <1>2 DEF Inv, Below, MutexRecord
<1>3. ASSUME NEW t \in Threads, NEW m \in Mutexes,
             NEW site \in {"try", "lock", "timed", "loop"},
             Attempting(t, m, site), Contend(t, m, site),
             UNCHANGED <<assigned, inherited, interrupted>>
      PROVE  Below'
  <2>0. /\ mx \in [Mutexes -> MutexRecord]
        /\ inherited \in [Threads -> Nat] /\ assigned \in [Threads -> Nat]
    BY DEF Inv, Typed, TypeOK, MutexRecord
  <2>1. mx' = mx \/ mx' = [mx EXCEPT ![m].boosted = Priority[t]]
    BY <1>3 DEF Contend
  <2>2. Low(Priority[t])
    BY LowValues, <1>3
  <2>. QED  BY <2>0, <2>1, <2>2, <1>3 DEF Inv, Below, MutexRecord
<1>4. ASSUME NEW t \in Threads,
             \/ ReadOwner(t) \/ ReadBoost(t) \/ LinkAfterRaise(t)
             \/ UnlinkNode(t) \/ Retry(t) \/ GiveUp(t) \/ WalkList(t)
             \/ Wake(t) \/ Expire(t)
      PROVE  Below'
  <2>1. UNCHANGED <<mx, assigned, inherited>>
    BY <1>4 DEF ReadOwner, ReadBoost, LinkAfterRaise, UnlinkNode, Retry, GiveUp,
                WalkList, Wake, Expire
  <2>. QED  BY <2>1 DEF Inv, Below
<1>5. ASSUME NEW t \in Threads, StorePriority(t)
      PROVE  Below'
  <2>1. /\ inherited \in [Threads -> Nat] /\ assigned \in [Threads -> Nat]
        /\ Low(raise[t].prio)
    BY DEF Inv, Typed, TypeOK, Underway
  <2>2. /\ \/ assigned' = assigned
           \/ assigned' = [assigned EXCEPT ![raise[t].owner] = raise[t].prio]
        /\ \/ inherited' = inherited
           \/ inherited' = [inherited EXCEPT ![raise[t].owner] = raise[t].prio]
        /\ UNCHANGED mx
    BY <2>1, <1>5 DEF StorePriority
  <2>. QED  BY <2>1, <2>2 DEF Inv, Below
<1>6. ASSUME NEW t \in Threads, RestoreBoost(t)
      PROVE  Below'
  <2>0. /\ mx \in [Mutexes -> MutexRecord]
        /\ inherited \in [Threads -> Nat] /\ assigned \in [Threads -> Nat]
    BY DEF Inv, Typed, TypeOK, MutexRecord
  <2>1. /\ mx' = [mx EXCEPT ![wants[t]].boosted = raise[t].prio]
        /\ UNCHANGED <<assigned, inherited>>
    BY <1>6 DEF RestoreBoost
  <2>2. Low(raise[t].prio)
    BY DEF Inv, Underway
  <2>. QED  BY <2>0, <2>1, <2>2 DEF Inv, Below, MutexRecord
<1>7. ASSUME NEW t \in Threads, NEW m \in Mutexes, Unlock(t, m)
      PROVE  Below'
  <2>0. /\ mx \in [Mutexes -> MutexRecord]
        /\ inherited \in [Threads -> Nat] /\ assigned \in [Threads -> Nat]
    BY DEF Inv, Typed, TypeOK, MutexRecord
  <2>1. CASE Type[m] = "recursive" /\ mx[m].count > 1
    <3>1. /\ mx' = [mx EXCEPT ![m].count = @ - 1]
          /\ UNCHANGED <<assigned, inherited>>
      BY <2>1, <1>7 DEF Unlock
    <3>. QED  BY <2>0, <3>1 DEF Inv, Below, MutexRecord
  <2>2. CASE ~ (Type[m] = "recursive" /\ mx[m].count > 1)
    <3>. DEFINE others == ToSet(held[t]) \ {m}
    <3>1. /\ mx' = [mx EXCEPT ![m] = Released(m, others)]
          /\ inherited' = IF mx[m].boosted = 0 THEN inherited
                          ELSE [inherited EXCEPT ![t] = mx'[m].boosted]
          /\ UNCHANGED assigned
      BY <2>2, <1>7 DEF Unlock
    <3>2. others \in SUBSET Mutexes
      BY ListFinite, <1>7 DEF Inv, Typed, TypeOK
    <3>. HIDE DEF others
    <3>3. Released(m, others).boosted = BoostLeft(m, others)
      BY <2>0, <1>7 DEF Released, MutexRecord
    <3>4. Low(BoostLeft(m, others))
      BY <3>2, BoostLeftType, LowValues, <1>7 DEF Inv, Typed, Below
    <3>5. /\ mx'[m] = Released(m, others)
          /\ \A n \in Mutexes \ {m} : mx'[n] = mx[n]
      BY <2>0, <3>1, <1>7
    <3>6. Low(mx'[m].boosted) /\ \A n \in Mutexes : Low(mx'[n].boosted)
      BY <3>3, <3>4, <3>5 DEF Inv, Below
    <3>. QED  BY <2>0, <3>1, <3>6, <1>7 DEF Inv, Below
  <2>. QED  BY <2>1, <2>2
<1>8. ASSUME NEW t \in Threads, NEW m \in Mutexes, Consistent(t, m)
      PROVE  Below'
  <2>0. /\ mx \in [Mutexes -> MutexRecord]
        /\ inherited \in [Threads -> Nat] /\ assigned \in [Threads -> Nat]
    BY DEF Inv, Typed, TypeOK, MutexRecord
  <2>. QED  BY <2>0, <1>8 DEF Consistent, Inv, Below, MutexRecord
<1>9. ASSUME NEW t \in Threads, NEW m \in Mutexes, Reset(t, m)
      PROVE  Below'
  <2>0. /\ mx \in [Mutexes -> MutexRecord]
        /\ inherited \in [Threads -> Nat] /\ assigned \in [Threads -> Nat]
    BY DEF Inv, Typed, TypeOK, MutexRecord
  <2>1. mx' = [mx EXCEPT ![m] = Fresh] /\ UNCHANGED <<assigned, inherited>>
    BY <1>9 DEF Reset
  <2>2. Low(Fresh.boosted)
    BY LowValues DEF Fresh
  <2>. QED  BY <2>0, <2>1, <2>2, <1>9 DEF Inv, Below
<1>10. ASSUME NEW by \in Threads, NEW t \in Killable, Kill(by, t)
      PROVE  Below'
  <2>1. UNCHANGED assigned
    BY <1>10 DEF Kill
  <2>2. /\ t \in Threads
        /\ inherited' = [inherited EXCEPT ![t] = 0] \/ inherited' = inherited
        /\ \A m \in Mutexes \ Owned(t) : mx'[m] = mx[m]
    BY <1>10, KillEffect
  <2>3. \A m \in Mutexes : Low(mx[m].boosted)
    BY DEF Inv, Below
  <2>4. ASSUME NEW m \in Owned(t)
        PROVE  Low(mx'[m].boosted)
    <3>1. m \in Mutexes /\ Owned(t) \subseteq Mutexes
      BY DEF Owned
    <3>2. PICK others \in SUBSET Owned(t) :
            mx'[m] = UnlockedByDead(t, m, others)
      BY <1>10, KillEffect
    <3>3. mx'[m].boosted = BoostLeft(m, others)
      BY <3>1, <3>2, KillReleases, <1>10
    <3>4. BoostLeft(m, others) # 0 =>
            \E n \in others : BoostLeft(m, others) = mx[n].boosted
      BY <3>1, BoostLeftType DEF Inv, Typed
    <3>. QED  BY <2>3, <3>1, <3>3, <3>4, LowValues
  <2>5. \A m \in Mutexes : Low(mx'[m].boosted)
    BY <2>2, <2>3, <2>4
  <2>6. \A u \in Threads : Low(inherited'[u])
    BY <2>2, LowValues DEF Inv, Typed, TypeOK, Below
  <2>. QED  BY <2>1, <2>5, <2>6 DEF Inv, Below
<1>11. ASSUME NEW t \in Interruptible, Interrupt(t)
      PROVE  Below'
  BY <1>11 DEF Inv, Below, Interrupt
<1>12. CASE UNCHANGED vars
  BY <1>12 DEF vars, Inv, Below
<1>. QED
  BY <1>1, <1>2, <1>3, <1>4, <1>5, <1>6, <1>7, <1>8, <1>9, <1>10, <1>11,
     <1>12, NextSteps
  DEF Typed, Inv

\* Between two accesses of a raise nothing is read or stored.
LEMMA Restarted ==
  ASSUME Inv, Regular, NEW t \in Threads,
         \/ Return(t)
         \/ \E m \in Mutexes, site \in Reasons :
              \/ BeginRaise(t, m, site) \/ EnterLoop(t, m, site)
              \/ LinkNode(t, m)
         \/ /\ pc' = [pc EXCEPT ![t] = "link"] /\ UNCHANGED wants
            /\ raise' = [raise EXCEPT ![t] = NoRaise]
  PROVE  Underway'
<1>1. /\ pc \in [Threads -> Labels] /\ raise \in [Threads -> RaiseRecord]
      /\ wants \in [Threads -> Mutexes \union {NoMutex}]
  BY DEF Inv, Typed, TypeOK, RaiseRecord
<1>2. Low(0) /\ NoRaise.prio = 0
  BY LowValues DEF NoRaise
<1>3. /\ pc'[t] \notin {"read_boost", "store"} /\ raise'[t].prio = 0
      /\ \A u \in Threads \ {t} :
           pc'[u] = pc[u] /\ raise'[u] = raise[u] /\ wants'[u] = wants[u]
  BY <1>1, <1>2 DEF Return, BeginRaise, EnterLoop, LinkNode, NoRaise
<1>. QED  BY <1>2, <1>3 DEF Inv, Underway

\* What is about to be stored was a boost of a mutex, or the priority of a
\* thread in its list, and is stored for a user of it.

LEMMA UnderwayStep ==
  ASSUME Inv, Regular, [Next]_vars
  PROVE  Underway'
<1>1. ASSUME NEW t \in Threads, NEW m \in Mutexes,
             NEW site \in {"try", "lock", "timed", "loop"},
             Attempting(t, m, site), Acquire(t, m) \/ Relock(t, m),
             UNCHANGED <<assigned, inherited, interrupted>>
      PROVE  Underway'
  <2>1. Return(t) \/ BeginRaise(t, m, "self")
    BY <1>1 DEF Acquire, Relock
  <2>2. "self" \in Reasons
    BY DEF Reasons
  <2>. QED  BY <2>1, <2>2, Restarted
<1>2. ASSUME NEW t \in Threads, NEW m \in Mutexes,
             NEW site \in {"try", "lock", "timed", "loop"},
             Attempting(t, m, site), Contend(t, m, site),
             UNCHANGED <<assigned, inherited, interrupted>>
      PROVE  Underway'
  <2>1. site \in Reasons
    BY <1>2 DEF Reasons
  <2>2. Return(t) \/ BeginRaise(t, m, site) \/ EnterLoop(t, m, site)
          \/ LinkNode(t, m)
    BY <1>2 DEF Contend, WouldBlock
  <2>. QED  BY <2>1, <2>2, Restarted
<1>3. ASSUME NEW t \in Threads, ReadOwner(t)
      PROVE  Underway'
  <2>1. /\ pc \in [Threads -> Labels] /\ raise \in [Threads -> RaiseRecord]
        /\ wants[t] \in Mutexes
    BY <1>3 DEF ReadOwner, At, Inv, Typed, TypeOK, Calling, RaiseRecord
  <2>2. CASE mx[wants[t]].owner = NoThread
    BY <2>2, <1>3 DEF ReadOwner, Inv, Underway
  <2>3. CASE mx[wants[t]].owner # NoThread
    <3>1. /\ mx[wants[t]].owner \in Users[wants[t]]
          /\ raise' = [raise EXCEPT ![t].owner = mx[wants[t]].owner]
          /\ pc' = [pc EXCEPT ![t] = "read_boost"] /\ UNCHANGED wants
      BY <2>1, <2>3, <1>3 DEF ReadOwner, Inv, OwnersUse
    <3>. QED  BY <2>1, <3>1 DEF Inv, Underway, RaiseRecord
  <2>. QED  BY <2>2, <2>3
<1>4. ASSUME NEW t \in Threads, ReadBoost(t)
      PROVE  Underway'
  <2>1. /\ pc \in [Threads -> Labels] /\ raise \in [Threads -> RaiseRecord]
        /\ wants[t] \in Mutexes
    BY <1>4 DEF ReadBoost, At, Inv, Typed, TypeOK, Calling, RaiseRecord
  <2>2. Low(mx[wants[t]].boosted) /\ pc[t] = "read_boost"
    BY <2>1, <1>4 DEF Inv, Below, ReadBoost, At
  <2>3. /\ raise' = [raise EXCEPT ![t].prio = mx[wants[t]].boosted]
        /\ pc' = [pc EXCEPT ![t] = "store"] /\ UNCHANGED wants
    BY <1>4 DEF ReadBoost
  <2>. QED  BY <2>1, <2>2, <2>3 DEF Inv, Underway, RaiseRecord
<1>5. ASSUME NEW t \in Threads, StorePriority(t)
      PROVE  Underway'
  <2>1. /\ wants[t] \in Mutexes
        /\ raise[t].site \in Reasons \union {"none"}
    BY <1>5 DEF StorePriority, At, Inv, Typed, TypeOK, Calling
  <2>2. \/ Return(t)
        \/ raise[t].site \in Reasons /\ EnterLoop(t, wants[t], raise[t].site)
        \/ /\ pc' = [pc EXCEPT ![t] = "link"] /\ UNCHANGED wants
           /\ raise' = [raise EXCEPT ![t] = NoRaise]
    BY <2>1, <1>5 DEF StorePriority, Proceed, Reasons
  <2>. QED  BY <2>1, <2>2, Restarted
<1>6. ASSUME NEW t \in Threads, LinkAfterRaise(t)
      PROVE  Underway'
  <2>1. wants[t] \in Mutexes /\ LinkNode(t, wants[t]) /\ "self" \in Reasons
    BY <1>6 DEF LinkAfterRaise, At, Inv, Typed, Calling, Reasons
  <2>. QED  BY <2>1, Restarted
<1>7. ASSUME NEW t \in Threads,
             \/ UnlinkNode(t) \/ Retry(t)
      PROVE  Underway'
  <2>1. pc \in [Threads -> Labels]
    BY DEF Inv, Typed, TypeOK
  <2>. QED  BY <2>1, <1>7 DEF UnlinkNode, Retry, Goto, Inv, Underway
<1>8. ASSUME NEW t \in Threads, GiveUp(t)
      PROVE  Underway'
  <2>1. pc \in [Threads -> Labels]
    BY DEF Inv, Typed, TypeOK
  <2>2. CASE Return(t)
    BY <2>2, Restarted
  <2>3. CASE Goto(t, "walk")
    BY <2>1, <2>3 DEF Goto, Inv, Underway
  <2>. QED  BY <2>2, <2>3, <1>8 DEF GiveUp
<1>9. ASSUME NEW t \in Threads, WalkList(t)
      PROVE  Underway'
  <2>1. /\ pc \in [Threads -> Labels] /\ raise \in [Threads -> RaiseRecord]
        /\ wants[t] \in Mutexes
    BY <1>9 DEF WalkList, At, Inv, Typed, TypeOK, Calling, RaiseRecord
  <2>. DEFINE urgent == MaxOf({Priority[u] : u \in ToSet(waiters[wants[t]])})
  <2>2. Low(urgent)
    BY <2>1, UrgentType, LowValues DEF Inv
  <2>3. CASE Return(t)
    BY <2>3, Restarted
  <2>4. CASE /\ pc' = [pc EXCEPT ![t] = "restore"]
             /\ raise' = [raise EXCEPT ![t].prio = urgent]
             /\ UNCHANGED wants
    <3>. HIDE DEF urgent
    <3>. QED  BY <2>1, <2>2, <2>4 DEF Inv, Underway, RaiseRecord
  <2>. QED  BY <2>3, <2>4, <1>9 DEF WalkList
<1>10. ASSUME NEW t \in Threads, RestoreBoost(t)
      PROVE  Underway'
  <2>1. wants[t] \in Mutexes /\ "restore" \in Reasons
    BY <1>10 DEF RestoreBoost, At, Inv, Typed, Calling, Reasons
  <2>. QED  BY <2>1, Restarted, <1>10 DEF RestoreBoost
<1>11. ASSUME NEW t \in Threads, NEW m \in Mutexes,
             Unlock(t, m) \/ Consistent(t, m) \/ Reset(t, m)
      PROVE  Underway'
  BY <1>11 DEF Unlock, Consistent, Reset, Inv, Underway
<1>12. ASSUME NEW by \in Threads, NEW t \in Killable, Kill(by, t)
      PROVE  Underway'
  <2>1. /\ t \in Threads /\ pc \in [Threads -> Labels]
        /\ raise \in [Threads -> RaiseRecord]
        /\ wants \in [Threads -> Mutexes \union {NoMutex}]
    BY RolesAssumption DEF Inv, Typed, TypeOK, RaiseRecord
  <2>2. /\ pc' = [pc EXCEPT ![t] = "gone"]
        /\ wants' = [wants EXCEPT ![t] = NoMutex]
        /\ raise' = [raise EXCEPT ![t] = NoRaise]
    BY <1>12 DEF Kill
  <2>3. Low(0)
    BY LowValues
  <2>. QED  BY <2>1, <2>2, <2>3 DEF Inv, Underway, NoRaise
<1>13. ASSUME NEW t \in Threads,
             \/ Wake(t) \/ Expire(t)
      PROVE  Underway'
  BY <1>13 DEF Wake, Expire, Inv, Underway
<1>14. ASSUME NEW t \in Interruptible, Interrupt(t)
      PROVE  Underway'
  BY <1>14 DEF Interrupt, Inv, Underway
<1>15. CASE UNCHANGED vars
  BY <1>15 DEF vars, Inv, Underway
<1>. QED
  BY <1>1, <1>2, <1>3, <1>4, <1>5, <1>6, <1>7, <1>8, <1>9, <1>10, <1>11,
     <1>12, <1>13, <1>14, <1>15, NextSteps
  DEF Typed, Inv

\* Only kill() destroys a thread, and a destroyed thread does nothing more.
GoneKept ==
  \A u \in Threads :
    /\ pc[u] = "gone" => pc'[u] = "gone"
    /\ pc'[u] = "gone" =>
         pc[u] = "gone" \/ (u \in Killable /\ \E by \in Threads : Kill(by, u))

LEMMA GoneStays ==
  ASSUME Inv, Regular, [Next]_vars
  PROVE  GoneKept
<1>1. ASSUME NEW t \in Threads, NEW m \in Mutexes,
             NEW site \in {"try", "lock", "timed", "loop"},
             Attempting(t, m, site), Acquire(t, m) \/ Relock(t, m) \/ Contend(t, m, site),
             UNCHANGED <<assigned, inherited, interrupted>>
      PROVE  GoneKept
  <2>1. pc[t] # "gone" /\ pc \in [Threads -> Labels]
    BY <1>1 DEF Attempting, Inv, Typed, TypeOK
  <2>2. \E label \in {"app", "loop", "asleep", "read_owner"} :
          pc' = [pc EXCEPT ![t] = label]
    BY <1>1 DEF Acquire, Relock, Contend, WouldBlock, LinkNode, EnterLoop,
                Return, BeginRaise
  <2>. QED  BY <2>1, <2>2 DEF GoneKept
<1>2. ASSUME NEW t \in Threads,
             \/ ReadOwner(t) \/ ReadBoost(t) \/ StorePriority(t)
             \/ LinkAfterRaise(t) \/ UnlinkNode(t) \/ Retry(t)
             \/ GiveUp(t) \/ WalkList(t) \/ RestoreBoost(t)
      PROVE  GoneKept
  <2>1. pc[t] # "gone" /\ pc \in [Threads -> Labels]
    BY <1>2 DEF ReadOwner, ReadBoost, StorePriority, LinkAfterRaise, UnlinkNode,
                Retry, GiveUp, WalkList, RestoreBoost, At, Inv, Typed, TypeOK
  <2>2. \/ pc' = pc
        \/ \E label \in Labels \ {"gone"} : pc' = [pc EXCEPT ![t] = label]
    BY <1>2
    DEF ReadOwner, ReadBoost, StorePriority, Proceed, LinkAfterRaise, LinkNode,
        UnlinkNode, Retry, GiveUp, WalkList, RestoreBoost, EnterLoop, Return,
        BeginRaise, Goto, Labels, Raising
  <2>. QED  BY <2>1, <2>2 DEF GoneKept
<1>3. ASSUME NEW t \in Threads, NEW m \in Mutexes,
             Unlock(t, m) \/ Consistent(t, m) \/ Reset(t, m)
      PROVE  GoneKept
  BY <1>3 DEF Unlock, Consistent, Reset, GoneKept
<1>4. ASSUME NEW by \in Threads, NEW t \in Killable, Kill(by, t)
      PROVE  GoneKept
  <2>1. pc' = [pc EXCEPT ![t] = "gone"] /\ pc \in [Threads -> Labels]
    BY <1>4 DEF Kill, Inv, Typed, TypeOK
  <2>. QED  BY <2>1, <1>4 DEF GoneKept
<1>5. ASSUME NEW t \in Threads,
             \/ Wake(t) \/ Expire(t)
      PROVE  GoneKept
  BY <1>5 DEF Wake, Expire, GoneKept
<1>6. ASSUME NEW t \in Interruptible, Interrupt(t)
      PROVE  GoneKept
  BY <1>6 DEF Interrupt, GoneKept
<1>7. CASE UNCHANGED vars
  BY <1>7 DEF vars, GoneKept
<1>. QED
  BY <1>1, <1>2, <1>3, <1>4, <1>5, <1>6, <1>7, NextSteps
  DEF Typed, Inv

-----------------------------------------------------------------------------
\* The kinds of steps the owners see.  Nothing changes hands, though boosts
\* may change;
Minor ==
  /\ held' = held
  /\ \A m \in Mutexes :
       /\ mx'[m].owner = mx[m].owner
       /\ mx'[m].count = 0 <=> mx[m].count = 0
       /\ mx'[m].recoverable = mx[m].recoverable
       /\ mx'[m].dead = mx[m].dead
       /\ mx[m].consistent => mx'[m].consistent

\* a thread becomes the owner of a free mutex;
Taken(t, m) ==
  /\ t \in Users[m] /\ pc[t] # "gone" /\ mx[m].owner = NoThread
  /\ mx' = [mx EXCEPT ![m].owner = t, ![m].count = 1,
                      ![m].boosted = IF Protocol[m] = "protect"
                                     THEN Ceiling[m] ELSE @]
  /\ held' = [held EXCEPT ![t] = Append(@, m)]
  /\ inherited' = inherited

\* the owner unlocks it;
Given(t, m) ==
  /\ mx[m].owner = t
  /\ mx' = [mx EXCEPT ![m] = Released(m, Owned(t) \ {m})]
  /\ NoLongerHeld(m)
  /\ inherited' = IF mx[m].boosted = 0 THEN inherited
                  ELSE [inherited EXCEPT ![t] = mx'[m].boosted]

\* or a free mutex is reset.
Renewed(m) ==
  /\ mx[m].owner = NoThread
  /\ mx' = [mx EXCEPT ![m] = Fresh]
  /\ NoLongerHeld(m)
  /\ inherited' = inherited

Kinds ==
  \/ Minor
  \/ \E t \in Threads, m \in Mutexes : Taken(t, m) \/ Given(t, m)
  \/ \E m \in Mutexes : Renewed(m)
  \/ \E by \in Threads, t \in Killable : Kill(by, t)

\* Every step is of one of these kinds.
LEMMA StepKinds ==
  ASSUME Inv, Regular, [Next]_vars
  PROVE  Kinds
<1>1. ASSUME NEW t \in Threads, NEW m \in Mutexes,
             NEW site \in {"try", "lock", "timed", "loop"},
             Attempting(t, m, site), Acquire(t, m),
             UNCHANGED <<assigned, inherited, interrupted>>
      PROVE  Kinds
  <2>1. Taken(t, m)
    <3>1. ~ TooUrgent(t, m)
      BY LowValues, <1>1
    <3>2. pc[t] # "gone" /\ t \in Users[m]
      BY <1>1 DEF Attempting
    <3>. QED  BY <3>1, <3>2, <1>1 DEF Acquire, Taken
  <2>. QED  BY <2>1, <1>1 DEF Kinds
<1>2. ASSUME NEW t \in Threads, NEW m \in Mutexes,
             NEW site \in {"try", "lock", "timed", "loop"},
             Attempting(t, m, site), Relock(t, m),
             UNCHANGED <<assigned, inherited, interrupted>>
      PROVE  Kinds
  <2>0. /\ mx \in [Mutexes -> MutexRecord]
        /\ inherited \in [Threads -> Nat]
    BY DEF Inv, Typed, TypeOK, MutexRecord
  <2>1. /\ mx' = mx \/ mx' = [mx EXCEPT ![m].count = @ + 1]
        /\ held' = held /\ inherited' = inherited
        /\ mx[m].owner = t
    BY <1>2 DEF Relock
  <2>2. mx[m].count # 0 /\ mx[m].count \in Nat
    BY <2>0, <2>1, <1>2, NamesAssumption, AttributesAssumption
    DEF Inv, OwnershipAgrees, MutexRecord
  <2>. QED  BY <2>0, <2>1, <2>2, <1>2 DEF Kinds, Minor, MutexRecord
<1>3. ASSUME NEW t \in Threads, NEW m \in Mutexes,
             NEW site \in {"try", "lock", "timed", "loop"},
             Attempting(t, m, site), Contend(t, m, site),
             UNCHANGED <<assigned, inherited, interrupted>>
      PROVE  Kinds
  <2>0. /\ mx \in [Mutexes -> MutexRecord]
        /\ inherited \in [Threads -> Nat]
    BY DEF Inv, Typed, TypeOK, MutexRecord
  <2>1. /\ mx' = mx \/ mx' = [mx EXCEPT ![m].boosted = Priority[t]]
        /\ inherited' = inherited
    BY <1>3 DEF Contend
  <2>3. held' = held
    <3>1. mx[m].owner \in Threads
      BY <2>0, <1>3 DEF Contend, MutexRecord
    <3>2. m \in ToSet(held[mx[m].owner])
      BY <3>1, <1>3 DEF Inv, OwnershipAgrees
    <3>3. Linked(m)
      BY <3>1, <3>2 DEF Linked
    <3>. QED  BY <3>3, <1>3 DEF Contend
  <2>. QED  BY <2>0, <2>1, <2>3, <1>3 DEF Kinds, Minor, MutexRecord
<1>4. ASSUME NEW t \in Threads,
             \/ ReadOwner(t) \/ ReadBoost(t) \/ StorePriority(t)
             \/ LinkAfterRaise(t) \/ UnlinkNode(t) \/ Retry(t)
             \/ GiveUp(t) \/ WalkList(t) \/ Wake(t) \/ Expire(t)
      PROVE  Kinds
  <2>1. UNCHANGED <<mx, held>>
    BY <1>4 DEF ReadOwner, ReadBoost, StorePriority, LinkAfterRaise, UnlinkNode,
                Retry, GiveUp, WalkList, Wake, Expire
  <2>. QED  BY <2>1 DEF Kinds, Minor
<1>5. ASSUME NEW t \in Threads, RestoreBoost(t)
      PROVE  Kinds
  <2>1. /\ mx' = [mx EXCEPT ![wants[t]].boosted = raise[t].prio]
        /\ held' = held
    BY <1>5 DEF RestoreBoost
  <2>. QED  BY <2>1 DEF Kinds, Minor, Inv, Typed, TypeOK
<1>6. ASSUME NEW t \in Threads, NEW m \in Mutexes, Unlock(t, m)
      PROVE  Kinds
  <2>0. /\ mx \in [Mutexes -> MutexRecord]
        /\ inherited \in [Threads -> Nat]
    BY DEF Inv, Typed, TypeOK, MutexRecord
  <2>1. mx[m].owner = t
    BY <1>6 DEF Unlock
  <2>2. CASE Type[m] = "recursive" /\ mx[m].count > 1
    <3>1. /\ mx' = [mx EXCEPT ![m].count = @ - 1]
          /\ held' = held /\ inherited' = inherited
      BY <2>2, <1>6 DEF Unlock
    <3>2. mx[m].count \in Nat
      BY <2>0, <1>6, AttributesAssumption DEF MutexRecord
    <3>. QED  BY <2>0, <2>2, <3>1, <3>2 DEF Kinds, Minor, MutexRecord
  <2>3. CASE ~ (Type[m] = "recursive" /\ mx[m].count > 1)
    <3>1. ToSet(held[t]) = Owned(t)
      BY <1>6 DEF Inv, OwnershipAgrees, Owned
    <3>2. Given(t, m)
      BY <2>1, <2>3, <3>1, <1>6 DEF Unlock, Given
    <3>. QED  BY <3>2, <1>6 DEF Kinds
  <2>. QED  BY <2>2, <2>3
<1>7. ASSUME NEW t \in Threads, NEW m \in Mutexes, Consistent(t, m)
      PROVE  Kinds
  <2>0. /\ mx \in [Mutexes -> MutexRecord]
        /\ inherited \in [Threads -> Nat]
    BY DEF Inv, Typed, TypeOK, MutexRecord
  <2>. QED  BY <2>0, <1>7 DEF Consistent, Kinds, Minor, MutexRecord
<1>8. ASSUME NEW t \in Threads, NEW m \in Mutexes, Reset(t, m)
      PROVE  Kinds
  <2>1. Renewed(m)
    BY <1>8 DEF Reset, Renewed, Inv, Regular
  <2>. QED  BY <2>1, <1>8 DEF Kinds
<1>9. ASSUME NEW by \in Threads, NEW t \in Killable, Kill(by, t)
      PROVE  Kinds
  BY <1>9 DEF Kinds
<1>10. ASSUME NEW t \in Interruptible, Interrupt(t)
      PROVE  Kinds
  BY <1>10 DEF Kinds, Minor, Interrupt
<1>11. CASE UNCHANGED vars
  BY <1>11 DEF Kinds, Minor, vars
<1>. QED
  BY <1>1, <1>2, <1>3, <1>4, <1>5, <1>6, <1>7, <1>8, <1>9, <1>10, <1>11,
     NextSteps
  DEF Typed, Inv

\* The fields of the mutex that changes hands, and those of the others.
LEMMA TakenFields ==
  ASSUME Inv, NEW t \in Threads, NEW m \in Mutexes, Taken(t, m)
  PROVE  /\ \A n \in Mutexes \ {m} : mx'[n] = mx[n]
         /\ mx'[m].owner = t /\ mx'[m].count = 1
         /\ mx'[m].recoverable = mx[m].recoverable /\ mx'[m].dead = mx[m].dead
         /\ mx'[m].consistent = mx[m].consistent
BY DEF Taken, Inv, Typed, TypeOK

\* The same of a mutex that is unlocked,
LEMMA GivenFields ==
  ASSUME Inv, NEW t \in Threads, NEW m \in Mutexes, Given(t, m)
  PROVE  /\ \A n \in Mutexes \ {m} : mx'[n] = mx[n]
         /\ mx'[m].owner = NoThread /\ mx'[m].count = 0 /\ ~ mx'[m].dead
         /\ mx'[m].consistent = mx[m].consistent
         /\ mx'[m].recoverable = ~ (mx[m].dead /\ ~ mx[m].consistent)
         /\ mx'[m].boosted = BoostLeft(m, Owned(t) \ {m})
<1>1. mx \in [Mutexes -> MutexRecord] /\ mx[m] \in MutexRecord
  BY DEF Inv, Typed, TypeOK, MutexRecord
<1>2. /\ mx'[m] = Released(m, Owned(t) \ {m})
      /\ \A n \in Mutexes \ {m} : mx'[n] = mx[n]
  BY <1>1 DEF Given
<1>3. Released(m, Owned(t) \ {m}) =
        [mx[m] EXCEPT !.owner = NoThread, !.count = 0,
                      !.boosted = BoostLeft(m, Owned(t) \ {m}), !.dead = FALSE,
                      !.recoverable = ~ (mx[m].dead /\ ~ mx[m].consistent)]
  BY DEF Released
<1>. QED  BY <1>1, <1>2, <1>3 DEF MutexRecord

\* and of one that is reset.
LEMMA RenewedFields ==
  ASSUME Inv, NEW m \in Mutexes, Renewed(m)
  PROVE  /\ \A n \in Mutexes \ {m} : mx'[n] = mx[n]
         /\ mx'[m] = Fresh
BY DEF Renewed, Inv, Typed, TypeOK

\* The owner of a mutex is a user of it that was not destroyed.
LEMMA OwnersUseStep ==
  ASSUME Inv, Regular, [Next]_vars
  PROVE  OwnersUse' /\ GoneOwnNothing'
<1>1. NoThread \notin Threads
  BY NamesAssumption
<1>2. ASSUME \A m \in Mutexes :
               \/ mx'[m].owner = mx[m].owner
               \/ mx'[m].owner = NoThread
               \/ mx'[m].owner \in Users[m] /\ pc[mx'[m].owner] # "gone",
             \A m \in Mutexes : mx'[m].owner # NoThread =>
               mx'[m].owner \in Threads
                 /\ ~ 
                    (/\ mx'[m].owner \in Killable
                     /\ \E by \in Threads : Kill(by, mx'[m].owner))
      PROVE  OwnersUse' /\ GoneOwnNothing'
  BY <1>2, GoneStays DEF GoneKept, Inv, OwnersUse, GoneOwnNothing
<1>3. \A m \in Mutexes : mx'[m].owner # NoThread => mx'[m].owner \in Threads
  BY TypeStep DEF Inv, Typed, TypeOK
<1>4. ASSUME NEW by \in Threads, NEW t \in Killable, Kill(by, t)
      PROVE  \A m \in Mutexes : mx'[m].owner # t /\
               (mx'[m].owner = mx[m].owner \/ mx'[m].owner = NoThread)
  <2>1. t \in Threads /\ \A m \in Mutexes \ Owned(t) : mx'[m] = mx[m]
    BY <1>4, KillEffect
  <2>2. ASSUME NEW m \in Owned(t)
        PROVE  mx'[m].owner = NoThread
    <3>1. PICK others \in SUBSET Owned(t) :
            mx'[m] = UnlockedByDead(t, m, others)
      BY <1>4, KillEffect
    <3>2. others \in SUBSET Mutexes
      BY DEF Owned
    <3>. QED  BY <3>1, <3>2, KillReleases
  <2>3. \A m \in Mutexes \ Owned(t) : mx[m].owner # t
    BY DEF Owned
  <2>. QED  BY <1>1, <2>1, <2>2, <2>3
<1>5. \A m \in Mutexes : mx'[m].owner # NoThread =>
        ~ 
                    (/\ mx'[m].owner \in Killable
                     /\ \E by \in Threads : Kill(by, mx'[m].owner))
  BY <1>4
<1>6. \A m \in Mutexes :
        \/ mx'[m].owner = mx[m].owner
        \/ mx'[m].owner = NoThread
        \/ mx'[m].owner \in Users[m] /\ pc[mx'[m].owner] # "gone"
  <2>1. CASE Minor
    BY <2>1 DEF Minor
  <2>2. ASSUME NEW t \in Threads, NEW n \in Mutexes, Taken(t, n)
        PROVE  \A m \in Mutexes :
                 \/ mx'[m].owner = mx[m].owner
                 \/ mx'[m].owner \in Users[m] /\ pc[mx'[m].owner] # "gone"
    <3>1. mx'[n].owner = t /\ t \in Users[n] /\ pc[t] # "gone"
      BY <2>2, TakenFields DEF Taken
    <3>2. \A m \in Mutexes \ {n} : mx'[m].owner = mx[m].owner
      BY <2>2, TakenFields
    <3>. QED  BY <3>1, <3>2
  <2>3. ASSUME NEW t \in Threads, NEW n \in Mutexes, Given(t, n)
        PROVE  \A m \in Mutexes :
                 mx'[m].owner = mx[m].owner \/ mx'[m].owner = NoThread
    BY <2>3, GivenFields
  <2>4. ASSUME NEW n \in Mutexes, Renewed(n)
        PROVE  \A m \in Mutexes :
                 mx'[m].owner = mx[m].owner \/ mx'[m].owner = NoThread
    BY <2>4, RenewedFields DEF Fresh
  <2>. QED  BY <1>4, <2>1, <2>2, <2>3, <2>4, StepKinds DEF Kinds
<1>. QED  BY <1>2, <1>3, <1>5, <1>6

\* A mutex stays consistent and recoverable until its killed owner leaves it,
\* and then no other thread of that kind is left.
LEMMA HealthyStep ==
  ASSUME Inv, Regular, [Next]_vars
  PROVE  Healthy'
<1>. DEFINE Fine(m) == mx[m].recoverable /\ ~ mx[m].dead /\ mx[m].consistent
            Lost(m) == m \in Robust /\ \A t \in Users[m] \intersect Killable :
                                          pc[t] = "gone"
<1>0. \A m \in Mutexes : Users[m] \subseteq Threads
  BY UsersOf
<1>1. \A m \in Mutexes : Lost(m) => Lost(m)'
  BY <1>0, GoneStays DEF GoneKept
<1>2. \A m \in Mutexes : Fine(m) \/ Lost(m)
  BY DEF Inv, Healthy
<1>3. SUFFICES \A m \in Mutexes : Fine(m) => Fine(m)' \/ Lost(m)'
  BY <1>1, <1>2 DEF Healthy
<1>4. CASE Minor
  BY <1>4 DEF Minor
<1>5. ASSUME NEW t \in Threads, NEW n \in Mutexes, Taken(t, n)
      PROVE  \A m \in Mutexes : Fine(m) => Fine(m)'
  BY <1>5, TakenFields
<1>6. ASSUME NEW t \in Threads, NEW n \in Mutexes, Given(t, n)
      PROVE  \A m \in Mutexes : Fine(m) => Fine(m)'
  BY <1>6, GivenFields
<1>7. ASSUME NEW n \in Mutexes, Renewed(n)
      PROVE  \A m \in Mutexes : Fine(m) => Fine(m)'
  <2>1. Fine(n)'
    BY <1>7, RenewedFields DEF Fresh
  <2>. QED  BY <1>7, <2>1, RenewedFields
<1>8. ASSUME NEW by \in Threads, NEW t \in Killable, Kill(by, t)
      PROVE  \A m \in Mutexes : Fine(m) => Fine(m)' \/ Lost(m)'
  <2>1. t \in Threads /\ \A m \in Mutexes \ Owned(t) : mx'[m] = mx[m]
    BY <1>8, KillEffect
  <2>2. ASSUME NEW m \in Owned(t)
        PROVE  Fine(m)' \/ Lost(m)'
    <3>1. PICK others \in SUBSET Owned(t) :
            mx'[m] = UnlockedByDead(t, m, others)
      BY <1>8, KillEffect
    <3>2. others \in SUBSET Mutexes /\ m \in Mutexes /\ mx[m].owner = t
      BY DEF Owned
    <3>3. m \notin Robust => Fine(m)'
      BY <3>1, <3>2, KillReleases
    <3>4. t \in Users[m]
      BY <2>1, <3>2, NamesAssumption DEF Inv, OwnersUse
    <3>5. m \in Robust => Users[m] \intersect Killable = {t}
      BY <3>2, <3>4 DEF Regular, CleanKills
    <3>6. pc'[t] = "gone"
      BY <1>8, <2>1 DEF Kill, Inv, Typed, TypeOK
    <3>. QED  BY <3>3, <3>5, <3>6
  <2>. QED  BY <2>1, <2>2
<1>. QED  BY <1>4, <1>5, <1>6, <1>7, <1>8, StepKinds DEF Kinds

\* What a list holds when an element is appended.
LEMMA AppendElements ==
  ASSUME NEW S, NEW list \in Seq(S), NEW e \in S,
         NoDuplicates(list), e \notin ToSet(list)
  PROVE  /\ ToSet(Append(list, e)) = ToSet(list) \union {e}
         /\ NoDuplicates(Append(list, e))
<1>. DEFINE new == Append(list, e)
<1>1. /\ new \in Seq(S) /\ Len(new) = Len(list) + 1 /\ Len(list) \in Nat
      /\ new[Len(list) + 1] = e
      /\ \A i \in 1..Len(list) : new[i] = list[i]
  OBVIOUS
<1>. HIDE DEF new
<1>2. /\ DOMAIN new = 1..(Len(list) + 1) /\ DOMAIN list = 1..Len(list)
      /\ \A i \in DOMAIN new : i \in DOMAIN list \/ i = Len(list) + 1
      /\ \A i \in DOMAIN list : i \in DOMAIN new /\ i # Len(list) + 1
  BY <1>1
<1>3. Len(list) + 1 \in DOMAIN new
  BY <1>1, <1>2
<1>4. ToSet(new) = ToSet(list) \union {e}
  BY <1>1, <1>2, <1>3 DEF ToSet
<1>5. NoDuplicates(new)
  <2>1. \A i \in DOMAIN list : list[i] # e
    BY DEF ToSet
  <2>. QED  BY <1>1, <1>2, <2>1 DEF NoDuplicates
<1>. QED  BY <1>4, <1>5 DEF new

\* The first part of OwnershipAgrees.
HeldIsOwned ==
  \A t \in Threads : NoDuplicates(held[t]) /\ ToSet(held[t]) = Owned(t)

\* The lists of the owners hold what they own, after every step.
LEMMA HeldStep ==
  ASSUME Inv, Regular, [Next]_vars
  PROVE  HeldIsOwned'
<1>0. /\ HeldIsOwned /\ held \in [Threads -> Seq(Mutexes)]
      /\ NoThread \notin Threads
  BY NamesAssumption DEF Inv, Typed, TypeOK, OwnershipAgrees, HeldIsOwned, Owned
<1>1. CASE Minor
  <2>1. \A t \in Threads : Owned(t)' = Owned(t)
    BY <1>1 DEF Minor, Owned
  <2>. QED  BY <1>0, <1>1, <2>1 DEF Minor, HeldIsOwned
<1>2. ASSUME NEW t \in Threads, NEW m \in Mutexes, Taken(t, m)
      PROVE  HeldIsOwned'
  <2>1. /\ mx[m].owner = NoThread /\ held' = [held EXCEPT ![t] = Append(@, m)]
        /\ mx'[m].owner = t /\ \A n \in Mutexes \ {m} : mx'[n] = mx[n]
    BY <1>2, TakenFields DEF Taken
  <2>2. /\ Owned(t)' = Owned(t) \union {m} /\ m \notin Owned(t)
        /\ \A u \in Threads \ {t} : Owned(u)' = Owned(u)
    <3>1. m \notin Owned(t) /\ \A u \in Threads : m \notin Owned(u)
      BY <1>0, <2>1 DEF Owned
    <3>2. Owned(t)' = Owned(t) \union {m}
      BY <1>0, <2>1 DEF Owned
    <3>3. ASSUME NEW u \in Threads \ {t}, NEW n \in Mutexes
          PROVE  mx'[n].owner = u <=> mx[n].owner = u
      <4>1. CASE n = m
        BY <1>0, <2>1, <4>1
      <4>2. CASE n # m
        BY <2>1, <4>2
      <4>. QED  BY <4>1, <4>2
    <3>. QED  BY <3>1, <3>2, <3>3 DEF Owned
  <2>3. /\ ToSet(Append(held[t], m)) = Owned(t) \union {m}
        /\ NoDuplicates(Append(held[t], m))
    BY <1>0, <2>2, AppendElements DEF HeldIsOwned
  <2>4. /\ held'[t] = Append(held[t], m)
        /\ \A u \in Threads \ {t} : held'[u] = held[u]
    BY <1>0, <2>1
  <2>. QED  BY <1>0, <2>2, <2>3, <2>4 DEF HeldIsOwned
<1>3. ASSUME NEW m \in Mutexes, NoLongerHeld(m), mx'[m].owner = NoThread,
             \A n \in Mutexes \ {m} : mx'[n] = mx[n]
      PROVE  HeldIsOwned'
  <2>1. \A u \in Threads : Owned(u)' = Owned(u) \ {m}
    BY <1>0, <1>3 DEF Owned
  <2>2. ASSUME NEW u \in Threads
        PROVE  /\ ToSet(Unlink(held[u], m)) = Owned(u) \ {m}
               /\ NoDuplicates(Unlink(held[u], m))
    BY <1>0, UnlinkElements DEF HeldIsOwned
  <2>3. \A u \in Threads : held'[u] = Unlink(held[u], m)
    BY <1>3 DEF NoLongerHeld
  <2>. QED  BY <2>1, <2>2, <2>3 DEF HeldIsOwned
<1>4. ASSUME NEW t \in Threads, NEW m \in Mutexes, Given(t, m)
      PROVE  HeldIsOwned'
  <2>1. NoLongerHeld(m)
    BY <1>4 DEF Given
  <2>. QED  BY <1>3, <1>4, <2>1, GivenFields
<1>5. ASSUME NEW m \in Mutexes, Renewed(m)
      PROVE  HeldIsOwned'
  <2>1. NoLongerHeld(m) /\ mx'[m].owner = NoThread
    BY <1>5, RenewedFields DEF Renewed, Fresh
  <2>. QED  BY <1>3, <1>5, <2>1, RenewedFields
<1>6. ASSUME NEW by \in Threads, NEW t \in Killable, Kill(by, t)
      PROVE  HeldIsOwned'
  <2>1. /\ t \in Threads /\ held' = [held EXCEPT ![t] = <<>>]
        /\ \A m \in Mutexes \ Owned(t) : mx'[m] = mx[m]
    BY <1>6, KillEffect
  <2>2. ASSUME NEW m \in Owned(t)
        PROVE  mx'[m].owner = NoThread
    <3>1. PICK others \in SUBSET Owned(t) :
            mx'[m] = UnlockedByDead(t, m, others)
      BY <1>6, KillEffect
    <3>2. others \in SUBSET Mutexes
      BY DEF Owned
    <3>. QED  BY <3>1, <3>2, KillReleases
  <2>3. Owned(t)' = {} /\ \A u \in Threads \ {t} : Owned(u)' = Owned(u)
    <3>1. \A m \in Mutexes : m \notin Owned(t) => mx'[m].owner # t
      BY <2>1 DEF Owned
    <3>2. Owned(t)' = {}
      BY <1>0, <2>1, <2>2, <3>1 DEF Owned
    <3>3. ASSUME NEW u \in Threads \ {t}, NEW m \in Mutexes
          PROVE  mx'[m].owner = u <=> mx[m].owner = u
      <4>1. CASE m \in Owned(t)
        BY <1>0, <2>2, <4>1 DEF Owned
      <4>2. CASE m \notin Owned(t)
        BY <2>1, <4>2
      <4>. QED  BY <4>1, <4>2
    <3>. QED  BY <3>2, <3>3 DEF Owned
  <2>4. held'[t] = <<>> /\ \A u \in Threads \ {t} : held'[u] = held[u]
    BY <1>0, <2>1
  <2>5. NoDuplicates(<<>>) /\ ToSet(<<>>) = {}
    BY DEF NoDuplicates, ToSet
  <2>. QED  BY <1>0, <2>3, <2>4, <2>5 DEF HeldIsOwned
<1>. QED  BY <1>1, <1>2, <1>4, <1>5, <1>6, StepKinds DEF Kinds

\* A mutex is counted while it has an owner.
LEMMA CountStep ==
  ASSUME Inv, Regular, [Next]_vars
  PROVE  \A m \in Mutexes : mx'[m].count = 0 <=> mx'[m].owner = NoThread
<1>0. /\ \A m \in Mutexes : mx[m].count = 0 <=> mx[m].owner = NoThread
      /\ NoThread \notin Threads
  BY NamesAssumption DEF Inv, OwnershipAgrees
<1>1. CASE Minor
  BY <1>0, <1>1 DEF Minor
<1>2. ASSUME NEW t \in Threads, NEW n \in Mutexes, Taken(t, n)
      PROVE  \A m \in Mutexes : mx'[m].count = 0 <=> mx'[m].owner = NoThread
  BY <1>0, <1>2, TakenFields
<1>3. ASSUME NEW t \in Threads, NEW n \in Mutexes, Given(t, n)
      PROVE  \A m \in Mutexes : mx'[m].count = 0 <=> mx'[m].owner = NoThread
  BY <1>0, <1>3, GivenFields
<1>4. ASSUME NEW n \in Mutexes, Renewed(n)
      PROVE  \A m \in Mutexes : mx'[m].count = 0 <=> mx'[m].owner = NoThread
  <2>1. mx'[n].count = 0 /\ mx'[n].owner = NoThread
    BY <1>4, RenewedFields DEF Fresh
  <2>. QED  BY <1>0, <1>4, <2>1, RenewedFields
<1>5. ASSUME NEW by \in Threads, NEW t \in Killable, Kill(by, t)
      PROVE  \A m \in Mutexes : mx'[m].count = 0 <=> mx'[m].owner = NoThread
  <2>1. \A m \in Mutexes \ Owned(t) : mx'[m] = mx[m]
    BY <1>5, KillEffect
  <2>2. ASSUME NEW m \in Owned(t)
        PROVE  mx'[m].count = 0 /\ mx'[m].owner = NoThread
    <3>1. PICK others \in SUBSET Owned(t) :
            mx'[m] = UnlockedByDead(t, m, others)
      BY <1>5, KillEffect
    <3>2. others \in SUBSET Mutexes
      BY DEF Owned
    <3>. QED  BY <3>1, <3>2, KillReleases
  <2>. QED  BY <1>0, <2>1, <2>2
<1>. QED  BY <1>1, <1>2, <1>3, <1>4, <1>5, StepKinds DEF Kinds

\* acquired_mutexes_ is exact.
LEMMA ExactStep ==
  ASSUME Inv, Regular, [Next]_vars
  PROVE  Exact'
<1>1. ASSUME NEW u \in Threads
      PROVE  acquired'[u] = Cardinality(Owned(u)')
  <2>1. Follows(u)
    BY OwnersStep, LowValues DEF Inv, Tracks, Regular
  <2>2. acquired[u] = Cardinality(Owned(u))
    BY DEF Inv, Exact
  <2>3. acquired[u] \in Nat /\ acquired'[u] \in Nat
    BY TypeStep DEF Inv, Typed, TypeOK
  <2>. QED  BY <2>1, <2>2, <2>3, FollowsCount DEF Inv
<1>. QED  BY <1>1 DEF Exact

\* Together: the list is as long as the counter says.
LEMMA AgreesStep ==
  ASSUME Inv, Regular, [Next]_vars
  PROVE  OwnershipAgrees'
<1>1. ASSUME NEW t \in Threads
      PROVE  acquired'[t] = Len(held'[t])
  <2>1. held'[t] \in Seq(Mutexes)
    BY TypeStep DEF Inv, Typed, TypeOK
  <2>2. NoDuplicates(held'[t]) /\ ToSet(held'[t]) = Owned(t)'
    BY HeldStep DEF HeldIsOwned
  <2>3. acquired'[t] = Cardinality(Owned(t)')
    BY ExactStep DEF Exact
  <2>. QED  BY <2>1, <2>2, <2>3, DistinctCount
<1>2. \A t \in Threads :
        /\ NoDuplicates(held'[t])
        /\ ToSet(held'[t]) = {m \in Mutexes : mx'[m].owner = t}
  BY HeldStep DEF HeldIsOwned, Owned
<1>. QED  BY <1>1, <1>2, CountStep DEF OwnershipAgrees

\* No node is linked that is in a list, for a free mutex is in none, and the
\* thread that is destroyed has released all that it owned.
LEMMA AssertionsStep ==
  ASSUME Inv, Regular, [Next]_vars
  PROVE  AssertionsHold'
<1>1. ASSUME NEW t \in Threads, NEW m \in Mutexes,
             NEW site \in {"try", "lock", "timed", "loop"},
             Attempting(t, m, site), Acquire(t, m),
             UNCHANGED <<assigned, inherited, interrupted>>
      PROVE  AssertionsHold'
  <2>1. mx[m].owner = NoThread /\ NoThread \notin Threads
    BY <1>1, NamesAssumption DEF Acquire
  <2>2. ~ Linked(m)
    BY <2>1 DEF Linked, Inv, OwnershipAgrees
  <2>. QED  BY <2>2, <1>1 DEF Acquire, Inv, AssertionsHold
<1>2. ASSUME NEW t \in Threads, NEW m \in Mutexes,
             NEW site \in {"try", "lock", "timed", "loop"},
             Attempting(t, m, site), Relock(t, m) \/ Contend(t, m, site),
             UNCHANGED <<assigned, inherited, interrupted>>
      PROVE  AssertionsHold'
  BY <1>2 DEF Relock, Contend, Inv, AssertionsHold
<1>3. ASSUME NEW t \in Threads,
             \/ ReadOwner(t) \/ ReadBoost(t) \/ StorePriority(t)
             \/ LinkAfterRaise(t) \/ UnlinkNode(t) \/ Retry(t)
             \/ GiveUp(t) \/ WalkList(t) \/ RestoreBoost(t) \/ Wake(t)
             \/ Expire(t)
      PROVE  AssertionsHold'
  BY <1>3
  DEF ReadOwner, ReadBoost, StorePriority, LinkAfterRaise, UnlinkNode, Retry,
      GiveUp, WalkList, RestoreBoost, Wake, Expire, Inv, AssertionsHold
<1>4. ASSUME NEW t \in Threads, NEW m \in Mutexes,
             Unlock(t, m) \/ Consistent(t, m) \/ Reset(t, m)
      PROVE  AssertionsHold'
  BY <1>4 DEF Unlock, Consistent, Reset, Inv, AssertionsHold
<1>5. ASSUME NEW by \in Threads, NEW t \in Killable, Kill(by, t)
      PROVE  AssertionsHold'
  <2>1. /\ t \in Threads
        /\ acquired' = [acquired EXCEPT ![t] = @ - Cardinality(Owned(t))]
    BY <1>5, KillEffect
  <2>2. /\ acquired \in [Threads -> Nat]
        /\ acquired[t] = Cardinality(Owned(t))
    BY <2>1 DEF Inv, Typed, TypeOK, Exact
  <2>3. acquired'[t] = 0
    BY <2>1, <2>2
  <2>. QED  BY <2>3, <1>5 DEF Kill, Inv, AssertionsHold
<1>6. ASSUME NEW t \in Interruptible, Interrupt(t)
      PROVE  AssertionsHold'
  BY <1>6 DEF Interrupt, Inv, AssertionsHold
<1>7. CASE UNCHANGED vars
  BY <1>7 DEF vars, Inv, AssertionsHold
<1>. QED
  BY <1>1, <1>2, <1>3, <1>4, <1>5, <1>6, <1>7, NextSteps
  DEF Typed, Inv

\* The inductive invariant: initially, and always.
LEMMA InitInv ==
  ASSUME Init, Regular
  PROVE  Inv
<1>1. Typed
  BY InitTyped
<1>2. \A m \in Mutexes : mx[m] = Fresh
  BY DEF Init
<1>3. \A t \in Threads : Owned(t) = {}
  BY <1>2, NamesAssumption DEF Fresh, Owned
<1>4. GoneOwnNothing /\ OwnersUse /\ Healthy
  BY <1>2 DEF Fresh, GoneOwnNothing, OwnersUse, Healthy
<1>5. Below
  <2>1. Low(0)
    BY AttributesAssumption DEF Low
  <2>2. \A t \in Threads : Low(Prio[t])
    BY DEF Regular, CeilingsAtTop, Low
  <2>. QED  BY <1>2, <2>1, <2>2 DEF Init, Fresh, Below
<1>6. \A t \in Threads : acquired[t] = 0 /\ held[t] = <<>> /\ inherited[t] = 0
  BY DEF Init
<1>7. Exact
  BY <1>3, <1>6, FS_EmptySet DEF Exact
<1>8. OwnershipAgrees
  <2>1. NoDuplicates(<<>>) /\ ToSet(<<>>) = {} /\ Len(<<>>) = 0
    BY DEF NoDuplicates, ToSet
  <2>2. \A m \in Mutexes : mx[m].count = 0 /\ mx[m].owner = NoThread
    BY <1>2 DEF Fresh
  <2>. QED  BY <1>3, <1>6, <2>1, <2>2 DEF OwnershipAgrees, Owned
<1>9. Underway /\ AssertionsHold
  <2>1. Low(0)
    BY AttributesAssumption DEF Low
  <2>2. \A t \in Threads : pc[t] \in {"app", "gone"} /\ raise[t] = NoRaise
    BY DEF Init
  <2>3. fault = "none"
    BY DEF Init
  <2>. QED  BY <2>1, <2>2, <2>3 DEF Underway, NoRaise, AssertionsHold
<1>. QED  BY <1>1, <1>4, <1>5, <1>7, <1>8, <1>9 DEF Inv

\* Every step keeps all of it.
LEMMA InvStep ==
  ASSUME Regular, Inv, [Next]_vars
  PROVE  Inv'
<1>1. Typed'
  BY TypedStep DEF Inv
<1>. QED
  BY <1>1, BelowStep, OwnersUseStep, HealthyStep, AgreesStep, ExactStep,
     UnderwayStep, AssertionsStep
  DEF Inv

\* The whole invariant holds in every reachable state of a regular instance.
LEMMA SpecInv ==
  ASSUME Regular
  PROVE  Spec => []Inv
<1>1. Init => Inv
  BY InitInv
<1>2. Inv /\ [Next]_vars => Inv'
  BY InvStep
<1>. QED  BY <1>1, <1>2, PTL DEF Spec

\* Whoever locks, unlocks, gives up, is interrupted or killed, in any order:
\* the owner and the count of every mutex agree with the list and the counter
\* of the thread that owns it, when the ceilings are at the top, no mutex is
\* reset while it is owned, and threads are killed only cleanly.
THEOREM OwnersAgree ==
  ASSUME Regular
  PROVE  Spec => []OwnershipAgrees
<1>1. Inv => OwnershipAgrees
  BY DEF Inv
<1>. QED  BY <1>1, SpecInv, PTL

\* In the same instances no node of a mutex is linked twice, and a thread that
\* is killed, anywhere in a call or outside of one, has no mutex left when it is
\* destroyed.
THEOREM AssertionsKept ==
  ASSUME Regular
  PROVE  Spec => []AssertionsHold
<1>1. Inv => AssertionsHold
  BY DEF Inv
<1>. QED  BY <1>1, SpecInv, PTL
-----------------------------------------------------------------------------
(***************************************************************************)
(* What the protocols promise, whatever the scheduler does.                *)
(***************************************************************************)

\* A thread that raises itself to the ceiling of the mutex it has taken,
SelfRaising(t) == pc[t] \in Raising /\ raise[t].site = "self"

\* and one inside a call whose mutex it has not taken.
InCall(t) == pc[t] \notin {"app", "gone"} /\ ~ SelfRaising(t)

\* Who is in a waiting list sleeps there, and only there.
Queued ==
  \A m \in Mutexes :
    /\ NoDuplicates(waiters[m])
    /\ \A t \in ToSet(waiters[m]) : pc[t] = "asleep" /\ wants[t] = m

\* Nobody waits for a mutex of its own, and only what it does not own, and
\* inherits, makes a thread raise another one in a call.
Asking ==
  \A t \in Threads :
    /\ InCall(t) /\ Type[wants[t]] # "normal" => mx[wants[t]].owner # t
    /\ pc[t] \in Raising /\ raise[t].site \notin {"self", "restore"} =>
         Protocol[wants[t]] = "inherit" /\ mx[wants[t]].owner # t
    /\ pc[t] = "link" => Protocol[wants[t]] = "inherit"

\* Only those leave a call early that may.
Patience ==
  /\ interrupted \subseteq Interruptible
  /\ \A t \in Threads :
       /\ patience[t] # "endless" =>
            pc[t] \notin {"app", "gone"} /\ t \in TimedUsers(wants[t])
       /\ pc[t] \in Raising /\ raise[t].site = "timed" =>
            t \in TimedUsers(wants[t])

\* Of two users only one asks.
OneAsks ==
  \A t, u \in Threads :
    InCall(t) /\ InCall(u) /\ wants[t] = wants[u] /\ Pair(wants[t]) => t = u

\* Whoever gives up restores priorities only where it may find another thread.
Restoring ==
  \A t \in Threads :
    /\ pc[t] = "walk" => patience[t] # "endless" /\ Protocol[wants[t]] # "none"
    /\ pc[t] = "restore" => raise[t].prio # 0 /\ wants[t] \in Lowerable
    /\ pc[t] \in Raising /\ raise[t].site = "restore" => wants[t] \in Lowerable

\* A mutex without a protocol boosts nobody.
Unboosted ==
  \A m \in Mutexes : Protocol[m] = "none" => mx[m].boosted = 0

\* The owner of a protect mutex that raises itself finds itself, and its ceiling.
SelfRaised ==
  \A t \in Threads : SelfRaising(t) =>
    /\ Protocol[wants[t]] = "protect"
    /\ mx[wants[t]].owner = t /\ mx[wants[t]].boosted # 0
    /\ pc[t] # "read_owner" => raise[t].owner = t
    /\ pc[t] = "store" /\ wants[t] \notin Lowerable =>
         raise[t].prio = Ceiling[wants[t]]
    /\ t \notin Raisable => inherited[t] < Ceiling[wants[t]]

\* The owner of a protect mutex is at its ceiling, or about to be.
AtCeilings ==
  \A m \in Mutexes \ Lowerable :
    LET o == mx[m].owner IN
    Protocol[m] = "protect" /\ o # NoThread =>
      /\ mx[m].boosted = Ceiling[m]
      /\ \/ o \in Raisable
         \/ SelfRaising(o) /\ wants[o] = m
         \/ inherited[o] >= Ceiling[m]

\* A thread that nobody else raises inherits from the boosted mutexes it owns.
Boosted ==
  \A t \in Threads \ Raisable :
    inherited[t] # 0 => \E m \in Owned(t) : mx[m].boosted # 0

\* Who queues for a free mutex is not alone, and another is on its way.
Waited ==
  \A m \in Plain :
    mx[m].owner = NoThread /\ waiters[m] # <<>> =>
      ~ Pair(m) /\ OnTheWay(m) # {}

Peace ==
  /\ Queued /\ Asking /\ Patience /\ OneAsks /\ Restoring /\ Unboosted
  /\ SelfRaised /\ AtCeilings /\ Boosted /\ Waited
-----------------------------------------------------------------------------

\* MaxOf() of the values of a function is not below any of them.
LEMMA MaxOfBounds ==
  ASSUME NEW I, IsFiniteSet(I), NEW f \in [I -> Nat], NEW i \in I
  PROVE  MaxOf({f[j] : j \in I}) >= f[i]
<1>. DEFINE S == {f[j] : j \in I}
            V == S \union {0}
<1>1. f \in Surjection(I, S)
  BY DEF Surjection
<1>2. IsFiniteSet(S)
  BY <1>1, FS_Surjection
<1>3. IsFiniteSet(V) /\ V \subseteq Nat /\ V # {}
  BY <1>2, FS_AddElement
<1>4. \E x \in V : \A y \in V : x >= y
  BY <1>3, Greatest
<1>5. \A y \in V : Max(V) >= y
  BY <1>4 DEF Max
<1>6. f[i] \in V
  OBVIOUS
<1>7. Max(V) >= f[i]
  BY <1>5, <1>6
<1>. QED  BY <1>7 DEF MaxOf

\* What an unlock leaves is not below any other boost of the owner.
LEMMA BoostLeftBounds ==
  ASSUME TypeOK, NEW m \in Mutexes, NEW others \in SUBSET Mutexes,
         NEW n \in others, mx[m].boosted # 0
  PROVE  BoostLeft(m, others) >= mx[n].boosted
<1>. DEFINE f == [k \in others |-> mx[k].boosted]
<1>1. IsFiniteSet(others)
  BY NamesAssumption, FS_Subset
<1>2. f \in [others -> Nat]
  BY DEF TypeOK
<1>3. MaxOf({f[k] : k \in others}) >= f[n]
  <2>. HIDE DEF f
  <2>. QED  BY <1>1, <1>2, MaxOfBounds
<1>4. {f[k] : k \in others} = {mx[k].boosted : k \in others}
  OBVIOUS
<1>. QED  BY <1>3, <1>4 DEF BoostLeft

\* The types of the variables, by name.
LEMMA Types ==
  ASSUME Typed
  PROVE  /\ mx \in [Mutexes -> MutexRecord]
         /\ acquired \in [Threads -> Nat]
         /\ waiters \in [Mutexes -> Seq(Threads)]
         /\ assigned \in [Threads -> Nat] /\ inherited \in [Threads -> Nat]
         /\ suspended \subseteq Threads /\ pc \in [Threads -> Labels]
         /\ patience \in [Threads -> {"endless", "timed", "over"}]
         /\ wants \in [Threads -> Mutexes \union {NoMutex}]
         /\ raise \in [Threads -> RaiseRecord]
         /\ NoThread \notin Threads /\ NoMutex \notin Mutexes
BY NamesAssumption DEF Typed, TypeOK, MutexRecord, RaiseRecord

\* Who owns a mutex counts it, is one of its users, and was not destroyed.
LEMMA OwnerCounts ==
  ASSUME Inv, NEW m \in Mutexes, mx[m].owner # NoThread
  PROVE  LET o == mx[m].owner IN
         /\ o \in Threads /\ o \in Users[m] /\ pc[o] # "gone"
         /\ acquired[o] # 0 /\ m \in ToSet(held[o])
<1>. DEFINE o == mx[m].owner
<1>1. o \in Threads /\ mx[m] \in MutexRecord
  BY DEF Inv, Typed, TypeOK, MutexRecord
<1>2. o \in Users[m] /\ pc[o] # "gone"
  BY DEF Inv, OwnersUse, GoneOwnNothing
<1>3. m \in Owned(o)
  BY DEF Owned
<1>4. acquired[o] = Cardinality(Owned(o)) /\ ToSet(held[o]) = Owned(o)
  BY <1>1 DEF Inv, Exact, OwnershipAgrees, Owned
<1>5. IsFiniteSet(Owned(o))
  BY NamesAssumption, FS_Subset DEF Owned
<1>6. Cardinality(Owned(o)) # 0
  BY <1>3, <1>5, FS_EmptySet
<1>. QED  BY <1>1, <1>2, <1>3, <1>4, <1>6

\* What resume_one() leaves of a waiting list.
Popped(list) == IF list = <<>> THEN list ELSE Tail(list)

\* It takes the head, if there is one.
LEMMA PoppedElements ==
  ASSUME NEW list \in Seq(Threads), NoDuplicates(list)
  PROVE  /\ Popped(list) \in Seq(Threads) /\ NoDuplicates(Popped(list))
         /\ ToSet(Popped(list)) \subseteq ToSet(list)
         /\ list # <<>> =>
              /\ Head(list) \in ToSet(list)
              /\ ToSet(Popped(list)) = ToSet(list) \ {Head(list)}
BY TailElements DEF Popped

\* A list that is not empty has an element.
LEMMA NonEmptyList ==
  ASSUME NEW S, NEW list \in Seq(S), list # <<>>
  PROVE  \E e \in ToSet(list) : e \in S
<1>1. 1 \in DOMAIN list /\ list[1] \in S
  BY HeadTailProperties
<1>. QED  BY <1>1 DEF ToSet

\* What kill() does to the lists: its own nodes leave them, and whoever is next
\* for one of its mutexes is resumed.
LEMMA KillLists ==
  ASSUME Inv, Queued, Regular, NEW by \in Threads, NEW t \in Killable, Kill(by, t)
  PROVE  /\ \A m \in Mutexes : LET left == Unlink(waiters[m], t) IN
              /\ left \in Seq(Threads) /\ NoDuplicates(left)
              /\ ToSet(left) = ToSet(waiters[m]) \ {t}
              /\ waiters'[m] = IF m \in Owned(t) THEN Popped(left) ELSE left
              /\ m \in Owned(t) /\ left # <<>> => Head(left) \notin suspended'
         /\ suspended' \subseteq suspended \ {t}
         /\ \A u \in suspended \ suspended' :
              u = t \/ \E m \in Owned(t) : LET left == Unlink(waiters[m], t) IN
                                           left # <<>> /\ u = Head(left)
<1>. DEFINE after(n) == {held[t][j] : j \in {j \in DOMAIN held[t] :
                               \E i \in 1..(j - 1) : held[t][i] = n}}
            new == [n \in ToSet(held[t]) |-> UnlockedByDead(t, n, after(n))]
            freed == {n \in ToSet(held[t]) :
                        mx[n].owner = t /\ new[n].owner = NoThread}
            left == [n \in Mutexes |-> Unlink(waiters[n], t)]
<1>1. t \in Threads
  BY RolesAssumption
<1>2. ToSet(held[t]) = Owned(t)
  BY <1>1 DEF Inv, OwnershipAgrees, Owned
<1>3. \A m \in Owned(t) : m \in Mutexes /\ mx[m].owner = t
  BY DEF Owned
<1>4. freed = Owned(t)
  <2>1. ASSUME NEW m \in Owned(t)
        PROVE  m \in freed
    <3>1. after(m) \in SUBSET Mutexes
      BY <1>2, <1>3 DEF ToSet
    <3>2. UnlockedByDead(t, m, after(m)).owner = NoThread
      <4>. HIDE DEF after
      <4>. QED  BY <3>1, KillReleases
    <3>. QED  BY <1>2, <1>3, <3>2
  <2>2. freed \subseteq Owned(t)
    BY <1>2
  <2>. HIDE DEF freed
  <2>. QED  BY <2>1, <2>2
<1>5. /\ waiters' = [m \in Mutexes |-> IF m \in freed /\ left[m] # <<>>
                                       THEN Tail(left[m]) ELSE left[m]]
      /\ suspended' = (suspended \ {t}) \
                      {Head(left[m]) : m \in {m \in freed : left[m] # <<>>}}
  BY DEF Kill
<1>. HIDE DEF freed
<1>6. ASSUME NEW m \in Mutexes
      PROVE  /\ left[m] = Unlink(waiters[m], t)
             /\ left[m] \in Seq(Threads) /\ NoDuplicates(left[m])
             /\ ToSet(left[m]) = ToSet(waiters[m]) \ {t}
             /\ waiters'[m] = IF m \in Owned(t) THEN Popped(left[m]) ELSE left[m]
  <2>1. waiters[m] \in Seq(Threads) /\ NoDuplicates(waiters[m])
    BY DEF Inv, Typed, TypeOK, Queued
  <2>2. left[m] = Unlink(waiters[m], t)
    OBVIOUS
  <2>3. waiters'[m] = IF m \in freed /\ left[m] # <<>>
                      THEN Tail(left[m]) ELSE left[m]
    <3>. HIDE DEF left
    <3>. QED  BY <1>5
  <2>. HIDE DEF left
  <2>. QED  BY <1>4, <2>1, <2>2, <2>3, UnlinkElements DEF Popped
<1>. HIDE DEF left
<1>7. suspended' \subseteq suspended \ {t}
  BY <1>5
<1>8. \A m \in Owned(t) : left[m] # <<>> => Head(left[m]) \notin suspended'
  BY <1>4, <1>5
<1>9. \A u \in suspended \ suspended' :
        u = t \/ \E m \in Owned(t) : left[m] # <<>> /\ u = Head(left[m])
  BY <1>4, <1>5
<1>. QED  BY <1>3, <1>6, <1>7, <1>8, <1>9

\* The last unlock of an owner: it lets go of the mutex, falls back to the
\* largest boost of its others, and wakes the head of the list.
LEMMA UnlockEffect ==
  ASSUME Inv, NEW t \in Threads, NEW m \in Mutexes, Unlock(t, m)
  PROVE  LET others == Owned(t) \ {m} IN
         \/ /\ \A n \in Mutexes : mx'[n].owner = mx[n].owner
                                  /\ mx'[n].boosted = mx[n].boosted
            /\ UNCHANGED <<acquired, waiters, inherited, suspended>>
         \/ /\ others \in SUBSET Mutexes
            /\ mx'[m].owner = NoThread /\ mx'[m].boosted = BoostLeft(m, others)
            /\ \A n \in Mutexes \ {m} : mx'[n] = mx[n]
            /\ inherited' = IF mx[m].boosted = 0 THEN inherited
                            ELSE [inherited EXCEPT ![t] = BoostLeft(m, others)]
            /\ acquired' = [acquired EXCEPT ![t] = @ - 1]
            /\ waiters' = [waiters EXCEPT ![m] = Popped(@)]
            /\ suspended' = IF waiters[m] = <<>> THEN suspended
                            ELSE suspended \ {Head(waiters[m])}
<1>0. mx \in [Mutexes -> MutexRecord] /\ waiters \in [Mutexes -> Seq(Threads)]
  BY Types DEF Inv
<1>1. CASE Type[m] = "recursive" /\ mx[m].count > 1
  <2>1. /\ mx' = [mx EXCEPT ![m].count = @ - 1]
        /\ UNCHANGED <<acquired, waiters, inherited, suspended>>
    BY <1>1 DEF Unlock
  <2>. QED  BY <1>0, <2>1 DEF MutexRecord
<1>2. CASE ~ (Type[m] = "recursive" /\ mx[m].count > 1)
  <2>1. ToSet(held[t]) = Owned(t)
    BY DEF Inv, OwnershipAgrees, Owned
  <2>2. Given(t, m) /\ ResumeOne(m)
    BY <1>2, <2>1 DEF Unlock, Given
  <2>3. Owned(t) \ {m} \in SUBSET Mutexes
    BY DEF Owned
  <2>4. acquired' = [acquired EXCEPT ![t] = @ - 1]
    BY <1>2 DEF Unlock
  <2>5. waiters' = [waiters EXCEPT ![m] = Popped(@)]
    BY <2>2, <1>0 DEF ResumeOne, Popped
  <2>6. /\ mx'[m].owner = NoThread
        /\ mx'[m].boosted = BoostLeft(m, Owned(t) \ {m})
        /\ \A n \in Mutexes \ {m} : mx'[n] = mx[n]
    BY <2>2, GivenFields
  <2>7. inherited' = IF mx[m].boosted = 0 THEN inherited
                     ELSE [inherited EXCEPT ![t] = BoostLeft(m, Owned(t) \ {m})]
    BY <2>2, <2>6 DEF Given
  <2>8. suspended' = IF waiters[m] = <<>> THEN suspended
                     ELSE suspended \ {Head(waiters[m])}
    BY <2>2 DEF ResumeOne
  <2>. QED  BY <2>3, <2>4, <2>5, <2>6, <2>7, <2>8
<1>. QED  BY <1>1, <1>2

\* kill() frees what the thread owns, with the largest boost of the others,
\* and changes nothing of the other mutexes and threads.
LEMMA KillFrees ==
  ASSUME Inv, Regular, NEW by \in Threads, NEW t \in Killable, Kill(by, t)
  PROVE  /\ t \in Threads
         /\ \A m \in Mutexes \ Owned(t) : mx'[m] = mx[m]
         /\ \A m \in Owned(t) :
              /\ mx'[m].owner = NoThread
              /\ mx[m].boosted = 0 => mx'[m].boosted = 0
         /\ \A u \in Threads \ {t} :
              /\ inherited'[u] = inherited[u] /\ acquired'[u] = acquired[u]
              /\ pc'[u] = pc[u] /\ wants'[u] = wants[u]
              /\ patience'[u] = patience[u] /\ raise'[u] = raise[u]
         /\ pc'[t] = "gone" /\ wants'[t] = NoMutex /\ patience'[t] = "endless"
         /\ raise'[t] = NoRaise
         /\ UNCHANGED <<assigned, interrupted>>
<1>0. /\ acquired \in [Threads -> Nat] /\ inherited \in [Threads -> Nat]
      /\ pc \in [Threads -> Labels]
      /\ patience \in [Threads -> {"endless", "timed", "over"}]
      /\ wants \in [Threads -> Mutexes \union {NoMutex}]
      /\ raise \in [Threads -> RaiseRecord]
  BY Types DEF Inv
<1>1. /\ t \in Threads
      /\ \A m \in Mutexes \ Owned(t) : mx'[m] = mx[m]
      /\ inherited' = [inherited EXCEPT ![t] = 0] \/ inherited' = inherited
  BY KillEffect
<1>2. ASSUME NEW m \in Owned(t)
      PROVE  /\ mx'[m].owner = NoThread
             /\ mx[m].boosted = 0 => mx'[m].boosted = 0
  <2>1. PICK others \in SUBSET Owned(t) :
          mx'[m] = UnlockedByDead(t, m, others)
    BY KillEffect
  <2>2. others \in SUBSET Mutexes /\ m \in Mutexes
    BY DEF Owned
  <2>3. mx'[m].owner = NoThread /\ mx'[m].boosted = BoostLeft(m, others)
    BY <2>1, <2>2, KillReleases
  <2>. QED  BY <2>2, <2>3, BoostLeftType DEF Inv, Typed
<1>3. /\ pc' = [pc EXCEPT ![t] = "gone"]
      /\ wants' = [wants EXCEPT ![t] = NoMutex]
      /\ patience' = [patience EXCEPT ![t] = "endless"]
      /\ raise' = [raise EXCEPT ![t] = NoRaise]
      /\ UNCHANGED <<assigned, interrupted>>
      /\ \E F : acquired' = [acquired EXCEPT ![t] = @ - Cardinality(F)]
  BY DEF Kill
<1>. QED  BY <1>0, <1>1, <1>2, <1>3

\* Two users of a mutex are all its users, if it has two at most.
LEMMA TwoUsers ==
  ASSUME NEW m \in Mutexes, Cardinality(Users[m]) <= 2,
         NEW t \in Users[m], NEW u \in Users[m], t # u
  PROVE  Users[m] = {t, u}
<1>1. IsFiniteSet(Users[m])
  BY UsersOf, NamesAssumption, FS_Subset
<1>2. IsFiniteSet({t, u}) /\ Cardinality({t, u}) = 2
  <2>1. IsFiniteSet({t}) /\ Cardinality({t}) = 1
    BY FS_Singleton
  <2>2. {t, u} = {t} \cup {u}
    OBVIOUS
  <2>. QED  BY <2>1, <2>2, FS_AddElement
<1>3. Cardinality({t, u}) <= Cardinality(Users[m])
      /\ (Cardinality(Users[m]) = Cardinality({t, u}) => Users[m] = {t, u})
  BY <1>1, FS_Subset
<1>4. Cardinality(Users[m]) \in Nat
  BY <1>1, FS_CardinalityType
<1>. QED  BY <1>2, <1>3, <1>4
-----------------------------------------------------------------------------
\* What a step does to the other threads: nothing;
Others(t) ==
  \A u \in Threads \ {t} :
    /\ pc'[u] = pc[u] /\ wants'[u] = wants[u]
    /\ raise'[u] = raise[u] /\ patience'[u] = patience[u]

\* and to the one that makes it: its call ends, it is about to raise somebody,
\* it enters the loop, it links itself, or it goes on inside the call.
Ends(t) == Others(t) /\ pc'[t] = "app" /\ patience'[t] = "endless"

Starts(t, m, site) ==
  /\ Others(t) /\ pc'[t] = "read_owner" /\ wants'[t] = m
  /\ raise'[t].site = site /\ patience'[t] = patience[t]

Loops(t, m, site) ==
  /\ Others(t) /\ pc'[t] = "loop" /\ wants'[t] = m
  /\ patience'[t] = IF site = "timed" THEN "timed" ELSE "endless"

Links(t, m) ==
  /\ Others(t) /\ pc'[t] = "asleep" /\ wants'[t] = wants[t]
  /\ patience'[t] = patience[t]
  /\ waiters'[m] = Link(waiters[m], t, Priority)
  /\ \A n \in Mutexes \ {m} : waiters'[n] = waiters[n]
  /\ suspended' = suspended \union {t}

Moves(t, label) ==
  /\ Others(t) /\ pc'[t] = label /\ wants'[t] = wants[t]
  /\ patience'[t] = patience[t]

\* What the other operations do to owners and boosts.
SameMutexes ==
  \A n \in Mutexes : mx'[n].owner = mx[n].owner /\ mx'[n].boosted = mx[n].boosted

SameLists == UNCHANGED <<waiters, suspended>>

Still == UNCHANGED <<mx, waiters, assigned, inherited, suspended, interrupted>>

\* The updates of a call have these effects.
LEMMA CallerEffects ==
  ASSUME Inv, NEW t \in Threads, NEW m \in Mutexes
  PROVE  /\ Return(t) => Ends(t)
         /\ \A site \in Reasons : BeginRaise(t, m, site) => Starts(t, m, site)
         /\ \A site \in Reasons : EnterLoop(t, m, site) => Loops(t, m, site)
         /\ \A label \in Labels : Goto(t, label) => Moves(t, label)
         /\ LinkNode(t, m) => Links(t, m)
<1>1. /\ pc \in [Threads -> Labels] /\ raise \in [Threads -> RaiseRecord]
      /\ wants \in [Threads -> Mutexes \union {NoMutex}]
      /\ patience \in [Threads -> {"endless", "timed", "over"}]
      /\ waiters \in [Mutexes -> Seq(Threads)]
  BY Types DEF Inv
<1>2. Return(t) => Ends(t)
  BY <1>1 DEF Return, Ends, Others
<1>3. \A site \in Reasons : BeginRaise(t, m, site) => Starts(t, m, site)
  BY <1>1 DEF BeginRaise, Starts, Others, NoRaise
<1>4. \A site \in Reasons : EnterLoop(t, m, site) => Loops(t, m, site)
  BY <1>1 DEF EnterLoop, Loops, Others
<1>5. \A label \in Labels : Goto(t, label) => Moves(t, label)
  BY <1>1 DEF Goto, Moves, Others
<1>6. LinkNode(t, m) => Links(t, m)
  BY <1>1 DEF LinkNode, Links, Others
<1>. QED  BY <1>2, <1>3, <1>4, <1>5, <1>6

\* Taking a free mutex makes the caller its owner, and a protect mutex boosted.
LEMMA AcquireEffect ==
  ASSUME Inv, Regular, NEW t \in Threads, NEW m \in Mutexes, Acquire(t, m)
  PROVE  /\ mx[m].owner = NoThread /\ mx'[m].owner = t
         /\ mx'[m].boosted = IF Protocol[m] = "protect" THEN Ceiling[m]
                                                        ELSE mx[m].boosted
         /\ \A n \in Mutexes \ {m} : mx'[n] = mx[n]
         /\ IF Protocol[m] = "protect" /\ Ceiling[m] > inherited[t]
              THEN Starts(t, m, "self") ELSE Ends(t)
         /\ SameLists
<1>1. mx \in [Mutexes -> MutexRecord] /\ NoThread \notin Threads
  BY Types DEF Inv
<1>2. ~ TooUrgent(t, m)
  BY LowValues
<1>3. mx[m].owner = NoThread
  BY DEF Acquire
<1>4. mx' = [mx EXCEPT ![m].owner = t, ![m].count = 1,
                       ![m].boosted = IF Protocol[m] = "protect"
                                      THEN Ceiling[m] ELSE @]
  BY <1>2 DEF Acquire
<1>5. /\ mx'[m].owner = t /\ \A n \in Mutexes \ {m} : mx'[n] = mx[n]
      /\ mx'[m].boosted = IF Protocol[m] = "protect" THEN Ceiling[m]
                                                     ELSE mx[m].boosted
  BY <1>1, <1>4 DEF MutexRecord
<1>6. /\ IF Protocol[m] = "protect" /\ Ceiling[m] > inherited[t]
           THEN BeginRaise(t, m, "self") ELSE Return(t)
      /\ SameLists
  BY <1>2 DEF Acquire, SameLists
<1>7. "self" \in Reasons
  BY DEF Reasons
<1>. QED  BY <1>3, <1>5, <1>6, <1>7, CallerEffects

\* Locking again is counted, no more.
LEMMA RelockEffect ==
  ASSUME Inv, NEW t \in Threads, NEW m \in Mutexes, Relock(t, m)
  PROVE  /\ SameMutexes /\ mx[m].owner = t
         /\ Ends(t) /\ SameLists
<1>1. mx \in [Mutexes -> MutexRecord]
  BY Types DEF Inv
<1>2. mx' = mx \/ mx' = [mx EXCEPT ![m].count = @ + 1]
  BY DEF Relock
<1>3. SameMutexes
  BY <1>1, <1>2 DEF SameMutexes, MutexRecord
<1>4. Return(t) /\ SameLists
  BY DEF Relock, SameLists
<1>. QED  BY <1>3, <1>4, CallerEffects DEF Relock

\* A caller that finds an owner boosts an inherit mutex to its own priority, and
\* is about to raise the owner, returns, enters the loop, or links itself.
LEMMA ContendEffect ==
  ASSUME Inv, NEW t \in Threads, NEW m \in Mutexes,
         NEW site \in {"try", "lock", "timed", "loop"}, Contend(t, m, site)
  PROVE  /\ mx[m].owner # NoThread /\ (mx[m].owner = t => Type[m] = "normal")
         /\ \A n \in Mutexes : mx'[n].owner = mx[n].owner
         /\ \A n \in Mutexes \ {m} : mx'[n] = mx[n]
         /\ mx'[m].boosted = IF Protocol[m] = "inherit" /\ mx[m].owner # t
                             THEN Priority[t] ELSE mx[m].boosted
         /\ \/ /\ Protocol[m] = "inherit" /\ mx[m].owner # t
               /\ Starts(t, m, site) /\ SameLists
            \/ site = "try" /\ Ends(t) /\ SameLists
            \/ site \in {"lock", "timed"} /\ Loops(t, m, site) /\ SameLists
            \/ site = "loop" /\ Links(t, m)
<1>1. mx \in [Mutexes -> MutexRecord] /\ site \in Reasons
  BY Types DEF Inv, Reasons
<1>2. mx' = IF Protocol[m] = "inherit" /\ mx[m].owner # t
            THEN [mx EXCEPT ![m].boosted = Priority[t]] ELSE mx
  BY DEF Contend
<1>3. /\ \A n \in Mutexes : mx'[n].owner = mx[n].owner
      /\ \A n \in Mutexes \ {m} : mx'[n] = mx[n]
      /\ mx'[m].boosted = IF Protocol[m] = "inherit" /\ mx[m].owner # t
                          THEN Priority[t] ELSE mx[m].boosted
  BY <1>1, <1>2 DEF MutexRecord
<1>4. \/ /\ Protocol[m] = "inherit" /\ mx[m].owner # t
         /\ BeginRaise(t, m, site) /\ SameLists
      \/ WouldBlock(t, m, site)
  BY DEF Contend, SameLists
<1>5. WouldBlock(t, m, site) =>
        \/ site = "try" /\ Return(t) /\ SameLists
        \/ site \in {"lock", "timed"} /\ EnterLoop(t, m, site) /\ SameLists
        \/ site = "loop" /\ LinkNode(t, m)
  BY DEF WouldBlock, SameLists
<1>. QED  BY <1>1, <1>3, <1>4, <1>5, CallerEffects DEF Contend

\* The accesses of a raise: the owner is read, then the boost,
LEMMA ReadOwnerEffect ==
  ASSUME Inv, NEW t \in Threads, ReadOwner(t)
  PROVE  /\ pc[t] = "read_owner" /\ Still
         /\ raise'[t].site = raise[t].site
         /\ \/ Moves(t, "read_owner")
            \/ Moves(t, "read_boost") /\ raise'[t].owner = mx[wants[t]].owner
<1>1. /\ pc \in [Threads -> Labels] /\ raise \in [Threads -> RaiseRecord]
  BY Types DEF Inv
<1>2. pc[t] = "read_owner" /\ Still /\ UNCHANGED <<patience, wants>>
  BY DEF ReadOwner, At, Still
<1>3. \/ UNCHANGED <<pc, raise>>
      \/ /\ raise' = [raise EXCEPT ![t].owner = mx[wants[t]].owner]
         /\ pc' = [pc EXCEPT ![t] = "read_boost"]
  BY DEF ReadOwner
<1>. QED  BY <1>1, <1>2, <1>3 DEF Moves, Others, RaiseRecord

LEMMA ReadBoostEffect ==
  ASSUME Inv, NEW t \in Threads, ReadBoost(t)
  PROVE  /\ pc[t] = "read_boost" /\ Still /\ Moves(t, "store")
         /\ raise'[t].site = raise[t].site /\ raise'[t].owner = raise[t].owner
         /\ raise'[t].prio = mx[wants[t]].boosted
<1>1. /\ pc \in [Threads -> Labels] /\ raise \in [Threads -> RaiseRecord]
  BY Types DEF Inv
<1>2. /\ pc[t] = "read_boost" /\ Still /\ UNCHANGED <<patience, wants>>
      /\ raise' = [raise EXCEPT ![t].prio = mx[wants[t]].boosted]
      /\ pc' = [pc EXCEPT ![t] = "store"]
  BY DEF ReadBoost, At, Still
<1>. QED  BY <1>1, <1>2 DEF Moves, Others, RaiseRecord

\* and the priority is stored, whereupon the call goes on.
LEMMA StoreEffect ==
  ASSUME Inv, NEW t \in Threads, StorePriority(t)
  PROVE  LET o == raise[t].owner IN
         /\ pc[t] = "store" /\ wants[t] \in Mutexes /\ t \notin suspended
         /\ o \in Threads /\ o \in Users[wants[t]]
         /\ IF raise[t].site = "restore"
              THEN UNCHANGED inherited
              ELSE /\ inherited'[o] = raise[t].prio /\ UNCHANGED assigned
         /\ \A u \in Threads \ {o} :
              assigned'[u] = assigned[u] /\ inherited'[u] = inherited[u]
         /\ UNCHANGED <<mx, waiters, suspended, interrupted>>
         /\ \/ raise[t].site \in {"try", "self", "restore"} /\ Ends(t)
            \/ /\ raise[t].site \in {"lock", "timed"}
               /\ Loops(t, wants[t], raise[t].site)
            \/ raise[t].site = "loop" /\ Moves(t, "link")
<1>1. /\ pc \in [Threads -> Labels] /\ raise \in [Threads -> RaiseRecord]
      /\ assigned \in [Threads -> Nat] /\ inherited \in [Threads -> Nat]
  BY Types DEF Inv
<1>2. /\ pc[t] = "store" /\ wants[t] \in Mutexes /\ t \notin suspended
      /\ UNCHANGED <<mx, waiters, suspended, interrupted>>
  BY DEF StorePriority, At, Runnable, Inv, Typed, Calling
<1>3. raise[t].owner \in Users[wants[t]] /\ raise[t].owner \in Threads
  BY <1>2, UsersOf DEF Inv, Underway
<1>4. IF raise[t].site = "restore"
        THEN /\ \E p : assigned' = [assigned EXCEPT ![raise[t].owner] = p]
             /\ UNCHANGED inherited
        ELSE /\ inherited' = [inherited EXCEPT ![raise[t].owner] = raise[t].prio]
             /\ UNCHANGED assigned
  BY <1>1, <1>3 DEF StorePriority
<1>5. \/ raise[t].site \in {"try", "self", "restore"} /\ Return(t)
      \/ /\ raise[t].site \in {"lock", "timed"}
         /\ EnterLoop(t, wants[t], raise[t].site)
      \/ /\ raise[t].site = "loop" /\ pc' = [pc EXCEPT ![t] = "link"]
         /\ raise' = [raise EXCEPT ![t] = NoRaise] /\ UNCHANGED <<wants, patience>>
  BY DEF StorePriority, Proceed
<1>6. \/ raise[t].site \in {"try", "self", "restore"} /\ Ends(t)
      \/ /\ raise[t].site \in {"lock", "timed"}
         /\ Loops(t, wants[t], raise[t].site)
      \/ raise[t].site = "loop" /\ Moves(t, "link")
  <2>1. {"lock", "timed"} \subseteq Reasons
    BY DEF Reasons
  <2>. QED  BY <1>1, <1>2, <1>5, <2>1, CallerEffects DEF Moves, Others
<1>. QED  BY <1>1, <1>2, <1>3, <1>4, <1>6

\* The other steps inside a call.
LEMMA InsideEffects ==
  ASSUME Inv, NEW t \in Threads
  PROVE  /\ LinkAfterRaise(t) =>
              /\ pc[t] = "link" /\ Links(t, wants[t])
              /\ UNCHANGED <<mx, assigned, inherited, interrupted>>
         /\ UnlinkNode(t) =>
              /\ pc[t] = "asleep" /\ t \notin suspended /\ Moves(t, "woken")
              /\ waiters'[wants[t]] = Unlink(waiters[wants[t]], t)
              /\ \A n \in Mutexes \ {wants[t]} : waiters'[n] = waiters[n]
              /\ UNCHANGED <<mx, assigned, inherited, suspended, interrupted>>
         /\ Retry(t) => pc[t] = "woken" /\ Moves(t, "loop") /\ Still
         /\ GiveUp(t) =>
              /\ pc[t] = "woken" /\ GivesUp(t) /\ Still
              /\ \/ Ends(t)
                 \/ /\ Moves(t, "walk") /\ patience[t] # "endless"
                    /\ mx[wants[t]].boosted # 0
         /\ WalkList(t) =>
              /\ pc[t] = "walk" /\ Still
              /\ \/ Ends(t)
                 \/ /\ Moves(t, "restore") /\ raise'[t].prio # 0
                    /\ \E u \in ToSet(waiters[wants[t]]) : u \in Threads
         /\ RestoreBoost(t) =>
              /\ pc[t] = "restore" /\ Starts(t, wants[t], "restore")
              /\ \A n \in Mutexes : mx'[n].owner = mx[n].owner
              /\ \A n \in Mutexes \ {wants[t]} : mx'[n] = mx[n]
              /\ mx'[wants[t]].boosted = raise[t].prio
              /\ SameLists /\ UNCHANGED <<assigned, inherited, interrupted>>
<1>0. /\ pc \in [Threads -> Labels] /\ raise \in [Threads -> RaiseRecord]
      /\ mx \in [Mutexes -> MutexRecord] /\ waiters \in [Mutexes -> Seq(Threads)]
      /\ {"woken", "loop", "walk"} \subseteq Labels /\ "restore" \in Reasons
  BY Types DEF Inv, Labels, Reasons
<1>1. pc[t] \notin {"app", "gone"} => wants[t] \in Mutexes
  BY DEF Inv, Typed, Calling
<1>2. ASSUME LinkAfterRaise(t)
      PROVE  /\ pc[t] = "link" /\ Links(t, wants[t])
             /\ UNCHANGED <<mx, assigned, inherited, interrupted>>
  BY <1>1, <1>2, CallerEffects DEF LinkAfterRaise, At
<1>3. ASSUME UnlinkNode(t)
      PROVE  /\ pc[t] = "asleep" /\ t \notin suspended /\ Moves(t, "woken")
             /\ waiters'[wants[t]] = Unlink(waiters[wants[t]], t)
             /\ \A n \in Mutexes \ {wants[t]} : waiters'[n] = waiters[n]
             /\ UNCHANGED <<mx, assigned, inherited, suspended, interrupted>>
  BY <1>0, <1>1, <1>3, CallerEffects DEF UnlinkNode, At, Runnable
<1>4. ASSUME Retry(t)
      PROVE  pc[t] = "woken" /\ Moves(t, "loop") /\ Still
  BY <1>0, <1>1, <1>4, CallerEffects DEF Retry, At, Still
<1>5. ASSUME GiveUp(t)
      PROVE  /\ pc[t] = "woken" /\ GivesUp(t) /\ Still
             /\ \/ Ends(t)
                \/ /\ Moves(t, "walk") /\ patience[t] # "endless"
                   /\ mx[wants[t]].boosted # 0
  BY <1>0, <1>1, <1>5, CallerEffects DEF GiveUp, At, Still
<1>6. ASSUME WalkList(t)
      PROVE  /\ pc[t] = "walk" /\ Still
             /\ \/ Ends(t)
                \/ /\ Moves(t, "restore") /\ raise'[t].prio # 0
                   /\ \E u \in ToSet(waiters[wants[t]]) : u \in Threads
  <2>. DEFINE urgent == MaxOf({Priority[u] : u \in ToSet(waiters[wants[t]])})
  <2>1. pc[t] = "walk" /\ Still /\ wants[t] \in Mutexes
    BY <1>1, <1>6 DEF WalkList, At, Still
  <2>2. urgent # 0 => \E u \in ToSet(waiters[wants[t]]) : u \in Threads
    BY <2>1, UrgentType DEF Inv
  <2>3. \/ Return(t)
        \/ /\ urgent # 0 /\ pc' = [pc EXCEPT ![t] = "restore"]
           /\ raise' = [raise EXCEPT ![t].prio = urgent]
           /\ UNCHANGED <<wants, patience>>
    BY <1>6 DEF WalkList
  <2>. HIDE DEF urgent
  <2>4. CASE Return(t)
    BY <2>1, <2>4, CallerEffects
  <2>5. CASE /\ urgent # 0 /\ pc' = [pc EXCEPT ![t] = "restore"]
             /\ raise' = [raise EXCEPT ![t].prio = urgent]
             /\ UNCHANGED <<wants, patience>>
    <3>1. Moves(t, "restore") /\ raise'[t].prio # 0
      BY <1>0, <2>5 DEF Moves, Others, RaiseRecord
    <3>. QED  BY <2>1, <2>2, <2>5, <3>1
  <2>. QED  BY <2>3, <2>4, <2>5
<1>7. ASSUME RestoreBoost(t)
      PROVE  /\ pc[t] = "restore" /\ Starts(t, wants[t], "restore")
             /\ \A n \in Mutexes : mx'[n].owner = mx[n].owner
             /\ \A n \in Mutexes \ {wants[t]} : mx'[n] = mx[n]
             /\ mx'[wants[t]].boosted = raise[t].prio
             /\ SameLists /\ UNCHANGED <<assigned, inherited, interrupted>>
  <2>1. /\ pc[t] = "restore" /\ wants[t] \in Mutexes
        /\ BeginRaise(t, wants[t], "restore")
        /\ mx' = [mx EXCEPT ![wants[t]].boosted = raise[t].prio]
        /\ SameLists /\ UNCHANGED <<assigned, inherited, interrupted>>
    BY <1>1, <1>7 DEF RestoreBoost, At, SameLists
  <2>2. /\ \A n \in Mutexes : mx'[n].owner = mx[n].owner
        /\ \A n \in Mutexes \ {wants[t]} : mx'[n] = mx[n]
        /\ mx'[wants[t]].boosted = raise[t].prio
    BY <1>0, <2>1 DEF MutexRecord
  <2>. QED  BY <1>0, <2>1, <2>2, CallerEffects
<1>. QED  BY <1>2, <1>3, <1>4, <1>5, <1>6, <1>7

\* consistent() touches neither owner nor boost.

LEMMA ConsistentEffect ==
  ASSUME Inv, NEW t \in Threads, NEW m \in Mutexes, Consistent(t, m)
  PROVE  SameMutexes
<1>1. mx \in [Mutexes -> MutexRecord]
  BY Types DEF Inv
<1>2. mx' = [mx EXCEPT ![m].consistent = TRUE]
  BY DEF Consistent
<1>. QED  BY <1>1, <1>2 DEF SameMutexes, MutexRecord

\* reset() is of a mutex without an owner, and takes its boost.
LEMMA ResetEffect ==
  ASSUME Inv, Regular, NEW t \in Threads, NEW m \in Mutexes, Reset(t, m)
  PROVE  /\ mx[m].owner = NoThread /\ mx'[m].owner = NoThread
         /\ mx'[m].boosted = 0
         /\ \A n \in Mutexes \ {m} : mx'[n] = mx[n]
<1>1. mx \in [Mutexes -> MutexRecord]
  BY Types DEF Inv
<1>. QED  BY <1>1 DEF Reset, Fresh, Regular
-----------------------------------------------------------------------------

\* A node is linked by the thread that goes to sleep, and unlinked when it wakes.
LEMMA QueuedStep ==
  ASSUME Inv, Peace, Regular, [Next]_vars
  PROVE  Queued'
<1>0. /\ pc \in [Threads -> Labels]
      /\ wants \in [Threads -> Mutexes \union {NoMutex}]
      /\ waiters \in [Mutexes -> Seq(Threads)]
      /\ Calling /\ Killable \subseteq Threads
  BY Types, RolesAssumption DEF Inv, Typed
<1>a. \A m \in Mutexes :
        /\ NoDuplicates(waiters[m])
        /\ ToSet(waiters[m]) \subseteq Threads
        /\ \A u \in ToSet(waiters[m]) : pc[u] = "asleep" /\ wants[u] = m
  BY <1>0, ListFinite DEF Peace, Queued
<1>b. ASSUME NEW t \in Threads, NEW m \in Mutexes, pc[t] # "asleep",
             Links(t, m), wants[t] = m
      PROVE  Queued'
  <2>1. t \notin ToSet(waiters[m]) /\ Priority \in [Threads -> Nat]
    BY <1>a, <1>b, Priorities DEF Inv
  <2>2. /\ ToSet(Link(waiters[m], t, Priority)) = ToSet(waiters[m]) \union {t}
        /\ NoDuplicates(Link(waiters[m], t, Priority))
    BY <1>0, <1>a, <2>1, LinkElements
  <2>3. ASSUME NEW n \in Mutexes
        PROVE  /\ NoDuplicates(waiters'[n])
               /\ \A u \in ToSet(waiters'[n]) : pc'[u] = "asleep" /\ wants'[u] = n
    <3>1. CASE n = m
      BY <1>a, <1>b, <2>2, <3>1 DEF Links, Others
    <3>2. CASE n # m
      BY <1>a, <1>b, <3>2 DEF Links, Others
    <3>. QED  BY <3>1, <3>2
  <2>. QED  BY <2>3 DEF Queued
<1>c. ASSUME UNCHANGED waiters, NEW t \in Threads, Others(t), pc[t] # "asleep"
      PROVE  Queued'
  <2>1. \A m \in Mutexes : t \notin ToSet(waiters[m])
    BY <1>a, <1>c
  <2>. QED  BY <1>a, <1>c, <2>1 DEF Queued, Others
<1>d. ASSUME UNCHANGED <<pc, wants>>,
             \A m \in Mutexes : NoDuplicates(waiters'[m]) /\
               ToSet(waiters'[m]) \subseteq ToSet(waiters[m])
      PROVE  Queued'
  BY <1>a, <1>d DEF Queued
<1>1. ASSUME NEW t \in Threads, NEW m \in Mutexes,
             NEW site \in {"try", "lock", "timed", "loop"},
             Attempting(t, m, site), Acquire(t, m) \/ Relock(t, m),
             UNCHANGED <<assigned, inherited, interrupted>>
      PROVE  Queued'
  <2>1. pc[t] # "asleep"
    BY <1>1 DEF Attempting
  <2>2. Others(t) /\ waiters' = waiters
    BY <1>1, AcquireEffect, RelockEffect DEF Starts, Ends, SameLists
  <2>. QED  BY <1>c, <2>1, <2>2
<1>2. ASSUME NEW t \in Threads, NEW m \in Mutexes,
             NEW site \in {"try", "lock", "timed", "loop"},
             Attempting(t, m, site), Contend(t, m, site),
             UNCHANGED <<assigned, inherited, interrupted>>
      PROVE  Queued'
  <2>1. pc[t] # "asleep" /\ (site = "loop" => wants[t] = m)
    BY <1>2 DEF Attempting
  <2>2. \/ site = "loop" /\ Links(t, m)
        \/ Others(t) /\ waiters' = waiters
    BY <1>2, ContendEffect DEF Starts, Ends, Loops, SameLists
  <2>. QED  BY <1>b, <1>c, <2>1, <2>2
<1>3. ASSUME NEW t \in Threads,
             \/ ReadOwner(t) \/ ReadBoost(t) \/ StorePriority(t)
             \/ Retry(t) \/ GiveUp(t) \/ WalkList(t) \/ RestoreBoost(t)
      PROVE  Queued'
  <2>1. pc[t] # "asleep" /\ Others(t) /\ waiters' = waiters
    BY <1>3, ReadOwnerEffect, ReadBoostEffect, StoreEffect, InsideEffects
    DEF Moves, Starts, Ends, Loops, SameLists, Still
  <2>. QED  BY <1>c, <2>1
<1>4. ASSUME NEW t \in Threads, LinkAfterRaise(t)
      PROVE  Queued'
  <2>1. pc[t] = "link" /\ Links(t, wants[t])
    BY <1>4, InsideEffects
  <2>2. wants[t] \in Mutexes
    BY <1>0, <2>1 DEF Calling
  <2>. QED  BY <1>b, <2>1, <2>2
<1>5. ASSUME NEW t \in Threads, UnlinkNode(t)
      PROVE  Queued'
  <2>. DEFINE m == wants[t]
  <2>1. m \in Mutexes /\ pc[t] = "asleep"
    BY <1>0, <1>5 DEF UnlinkNode, At, Calling
  <2>2. /\ ToSet(Unlink(waiters[m], t)) = ToSet(waiters[m]) \ {t}
        /\ NoDuplicates(Unlink(waiters[m], t))
    BY <1>0, <1>a, <2>1, UnlinkElements
  <2>3. /\ waiters'[m] = Unlink(waiters[m], t)
        /\ \A n \in Mutexes \ {m} : waiters'[n] = waiters[n]
        /\ pc' = [pc EXCEPT ![t] = "woken"] /\ wants' = wants
    BY <1>0, <1>5, <2>1 DEF UnlinkNode, Goto
  <2>4. ASSUME NEW n \in Mutexes
        PROVE  /\ NoDuplicates(waiters'[n])
               /\ \A u \in ToSet(waiters'[n]) : pc'[u] = "asleep" /\ wants'[u] = n
    <3>1. CASE n = m
      BY <1>0, <1>a, <2>1, <2>2, <2>3, <3>1
    <3>2. CASE n # m
      BY <1>0, <1>a, <2>1, <2>3, <3>2
    <3>. QED  BY <3>1, <3>2
  <2>. QED  BY <2>4 DEF Queued
<1>6. ASSUME NEW t \in Threads, NEW m \in Mutexes, Unlock(t, m)
      PROVE  Queued'
  <2>1. UNCHANGED <<pc, wants>>
    BY <1>6 DEF Unlock
  <2>2. \/ waiters' = waiters
        \/ waiters' = [waiters EXCEPT ![m] = Popped(@)]
    BY <1>6, UnlockEffect
  <2>3. \A n \in Mutexes : waiters'[n] = waiters[n] \/ waiters'[n] = Popped(waiters[n])
    BY <1>0, <2>2
  <2>4. \A n \in Mutexes : /\ ToSet(Popped(waiters[n])) \subseteq ToSet(waiters[n])
                           /\ NoDuplicates(Popped(waiters[n]))
    BY <1>0, <1>a, PoppedElements
  <2>5. \A n \in Mutexes : /\ ToSet(waiters'[n]) \subseteq ToSet(waiters[n])
                           /\ NoDuplicates(waiters'[n])
    BY <1>a, <2>3, <2>4
  <2>. QED  BY <1>d, <2>1, <2>5
<1>7. ASSUME NEW t \in Threads, NEW m \in Mutexes, Consistent(t, m)
      PROVE  Queued'
  BY <1>7, <1>a, <1>d DEF Consistent
<1>8. ASSUME NEW t \in Threads, NEW m \in Mutexes, Reset(t, m)
      PROVE  Queued'
  <2>1. NoDuplicates(<<>>) /\ ToSet(<<>>) = {}
    BY DEF NoDuplicates, ToSet
  <2>2. UNCHANGED <<pc, wants>> /\ waiters' = [waiters EXCEPT ![m] = <<>>]
    BY <1>8 DEF Reset
  <2>. QED  BY <1>0, <1>a, <1>d, <2>1, <2>2
<1>9. ASSUME NEW by \in Threads, NEW t \in Killable, Kill(by, t)
      PROVE  Queued'
  <2>1. Queued /\ Regular
    BY DEF Peace
  <2>2. \A m \in Mutexes :
          /\ NoDuplicates(waiters'[m])
          /\ ToSet(waiters'[m]) \subseteq ToSet(waiters[m]) \ {t}
    <3>. TAKE m \in Mutexes
    <3>. DEFINE left == Unlink(waiters[m], t)
    <3>1. /\ left \in Seq(Threads) /\ NoDuplicates(left)
          /\ ToSet(left) = ToSet(waiters[m]) \ {t}
          /\ waiters'[m] = Popped(left) \/ waiters'[m] = left
      BY <1>9, <2>1, KillLists
    <3>. HIDE DEF left
    <3>2. ToSet(Popped(left)) \subseteq ToSet(left) /\ NoDuplicates(Popped(left))
      BY <3>1, PoppedElements
    <3>. QED  BY <3>1, <3>2
  <2>3. \A u \in Threads \ {t} : pc'[u] = pc[u] /\ wants'[u] = wants[u]
    BY <1>9, <2>1, KillFrees
  <2>. QED  BY <1>a, <2>2, <2>3 DEF Queued
<1>10. ASSUME NEW t \in Threads,
             \/ Wake(t) \/ Expire(t)
      PROVE  Queued'
  BY <1>10, <1>a, <1>d DEF Wake, Expire
<1>11. ASSUME NEW t \in Interruptible, Interrupt(t)
      PROVE  Queued'
  BY <1>11, <1>a, <1>d DEF Interrupt
<1>12. CASE UNCHANGED vars
  BY <1>12, <1>a, <1>d DEF vars
<1>. QED
  BY <1>1, <1>2, <1>3, <1>4, <1>5, <1>6, <1>7, <1>8, <1>9, <1>10, <1>11,
     <1>12, NextSteps
  DEF Inv, Typed

\* Whoever asks finds another owner, or none.
LEMMA AskingStep ==
  ASSUME Inv, Peace, Regular, [Next]_vars
  PROVE  Asking'
<1>0. /\ Calling /\ Killable \subseteq Threads /\ NoThread \notin Threads
      /\ Interruptible \subseteq Threads
  BY Types, RolesAssumption DEF Inv, Typed
<1>. DEFINE Asks(u) ==
       /\ InCall(u) /\ Type[wants[u]] # "normal" => mx[wants[u]].owner # u
       /\ pc[u] \in Raising /\ raise[u].site \notin {"self", "restore"} =>
            Protocol[wants[u]] = "inherit" /\ mx[wants[u]].owner # u
       /\ pc[u] = "link" => Protocol[wants[u]] = "inherit"
<1>a. \A u \in Threads : Asks(u)
  BY DEF Peace, Asking
<1>b. ASSUME NEW t \in Threads, Others(t), Asks(t)',
             \A u \in Threads \ {t} : \A n \in Mutexes :
               mx'[n].owner = u => mx[n].owner = u
      PROVE  Asking'
  <2>1. \A u \in Threads \ {t} : Asks(u)'
    BY <1>0, <1>a, <1>b DEF Others, InCall, SelfRaising, Calling, Raising
  <2>. QED  BY <1>b, <2>1 DEF Asking
<1>c. ASSUME UNCHANGED <<pc, wants, raise>>,
             \A u \in Threads, n \in Mutexes : mx'[n].owner = u => mx[n].owner = u
      PROVE  Asking'
  BY <1>0, <1>a, <1>c DEF Asking, InCall, SelfRaising, Calling, Raising
<1>1. ASSUME NEW t \in Threads, NEW m \in Mutexes,
             NEW site \in {"try", "lock", "timed", "loop"},
             Attempting(t, m, site), Acquire(t, m),
             UNCHANGED <<assigned, inherited, interrupted>>
      PROVE  Asking'
  <2>1. /\ \A n \in Mutexes \ {m} : mx'[n] = mx[n]
        /\ mx'[m].owner = t
        /\ Starts(t, m, "self") \/ Ends(t)
    BY <1>1, AcquireEffect
  <2>2. Others(t) /\ Asks(t)'
    BY <2>1 DEF Starts, Ends, InCall, SelfRaising, Raising
  <2>. QED  BY <1>b, <2>1, <2>2
<1>2. ASSUME NEW t \in Threads, NEW m \in Mutexes,
             NEW site \in {"try", "lock", "timed", "loop"},
             Attempting(t, m, site), Relock(t, m),
             UNCHANGED <<assigned, inherited, interrupted>>
      PROVE  Asking'
  <2>1. SameMutexes /\ Ends(t)
    BY <1>2, RelockEffect
  <2>2. Others(t) /\ Asks(t)'
    BY <2>1 DEF Ends, InCall, Raising
  <2>. QED  BY <1>b, <2>1, <2>2 DEF SameMutexes
<1>3. ASSUME NEW t \in Threads, NEW m \in Mutexes,
             NEW site \in {"try", "lock", "timed", "loop"},
             Attempting(t, m, site), Contend(t, m, site),
             UNCHANGED <<assigned, inherited, interrupted>>
      PROVE  Asking'
  <2>1. /\ mx[m].owner = t => Type[m] = "normal"
        /\ \A n \in Mutexes : mx'[n].owner = mx[n].owner
        /\ \/ Protocol[m] = "inherit" /\ mx[m].owner # t /\ Starts(t, m, site)
           \/ Ends(t) \/ Loops(t, m, site)
           \/ Links(t, m) /\ site = "loop"
    BY <1>3, ContendEffect
  <2>2. site = "loop" => wants[t] = m
    BY <1>3 DEF Attempting
  <2>3. Others(t) /\ Asks(t)'
    BY <2>1, <2>2 DEF Starts, Ends, Loops, Links, InCall, Raising
  <2>. QED  BY <1>b, <2>1, <2>3
<1>4. ASSUME NEW t \in Threads,
             \/ ReadOwner(t) \/ ReadBoost(t)
      PROVE  Asking'
  <2>1. /\ pc[t] \in Raising /\ pc'[t] \in Raising
        /\ raise'[t].site = raise[t].site /\ mx' = mx
        /\ Others(t) /\ wants'[t] = wants[t]
    BY <1>4, ReadOwnerEffect, ReadBoostEffect DEF Moves, Still, Raising
  <2>2. Asks(t)'
    BY <2>1, <1>a DEF InCall, SelfRaising, Raising
  <2>. QED  BY <1>b, <2>1, <2>2
<1>5. ASSUME NEW t \in Threads, StorePriority(t)
      PROVE  Asking'
  <2>1. /\ pc[t] = "store" /\ mx' = mx
        /\ \/ Ends(t)
           \/ raise[t].site \in {"lock", "timed"} /\ \E s : Loops(t, wants[t], s)
           \/ raise[t].site = "loop" /\ Moves(t, "link")
    BY <1>5, StoreEffect
  <2>2. Others(t) /\ Asks(t)'
    BY <2>1, <1>a DEF Ends, Loops, Moves, InCall, Raising
  <2>. QED  BY <1>b, <2>1, <2>2
<1>6. ASSUME NEW t \in Threads,
             \/ LinkAfterRaise(t) \/ UnlinkNode(t) \/ Retry(t)
      PROVE  Asking'
  <2>1. /\ pc[t] \in {"link", "asleep", "woken"} /\ mx' = mx
        /\ Others(t) /\ wants'[t] = wants[t]
        /\ pc'[t] \in {"asleep", "woken", "loop"}
    BY <1>6, InsideEffects DEF Links, Moves, Still
  <2>2. Asks(t)'
    BY <2>1, <1>a DEF InCall, SelfRaising, Raising
  <2>. QED  BY <1>b, <2>1, <2>2
<1>7. ASSUME NEW t \in Threads,
             \/ GiveUp(t) \/ WalkList(t)
      PROVE  Asking'
  <2>1. /\ pc[t] \in {"woken", "walk"} /\ mx' = mx /\ Others(t)
        /\ pc'[t] # "app" => wants'[t] = wants[t]
        /\ pc'[t] \in {"app", "walk", "restore"}
    BY <1>7, InsideEffects DEF Ends, Moves, Still
  <2>2. Asks(t)'
    BY <2>1, <1>a DEF InCall, SelfRaising, Raising
  <2>. QED  BY <1>b, <2>1, <2>2
<1>8. ASSUME NEW t \in Threads, RestoreBoost(t)
      PROVE  Asking'
  <2>1. /\ pc[t] = "restore" /\ Starts(t, wants[t], "restore")
        /\ \A n \in Mutexes : mx'[n].owner = mx[n].owner
    BY <1>8, InsideEffects
  <2>2. wants[t] \in Mutexes
    BY <1>0, <2>1 DEF Calling
  <2>3. Others(t) /\ Asks(t)'
    BY <2>1, <2>2, <1>a DEF Starts, InCall, SelfRaising, Raising
  <2>. QED  BY <1>b, <2>1, <2>3
<1>9. ASSUME NEW t \in Threads, NEW m \in Mutexes,
             Unlock(t, m) \/ Consistent(t, m) \/ Reset(t, m)
      PROVE  Asking'
  <2>1. UNCHANGED <<pc, wants, raise>>
    BY <1>9 DEF Unlock, Consistent, Reset
  <2>2. ASSUME NEW u \in Threads, NEW n \in Mutexes, mx'[n].owner = u
        PROVE  mx[n].owner = u
    <3>1. CASE Unlock(t, m)
      BY <1>0, <2>2, <3>1, UnlockEffect
    <3>2. CASE Consistent(t, m)
      BY <2>2, <3>2, ConsistentEffect DEF SameMutexes
    <3>3. CASE Reset(t, m)
      BY <1>0, <2>2, <3>3, ResetEffect
    <3>. QED  BY <1>9, <3>1, <3>2, <3>3
  <2>. QED  BY <1>c, <2>1, <2>2
<1>10. ASSUME NEW by \in Threads, NEW t \in Killable, Kill(by, t)
      PROVE  Asking'
  <2>1. /\ Others(t) /\ pc'[t] = "gone"
        /\ \A n \in Mutexes : mx'[n].owner \in {mx[n].owner, NoThread}
    BY <1>10, KillFrees DEF Others
  <2>2. Asks(t)'
    BY <2>1 DEF InCall, Raising
  <2>. QED  BY <1>0, <1>b, <2>1, <2>2
<1>11. ASSUME NEW t \in Threads,
             \/ Wake(t) \/ Expire(t)
      PROVE  Asking'
  <2>1. UNCHANGED <<pc, wants, raise, mx>>
    BY <1>11 DEF Wake, Expire
  <2>. QED  BY <1>c, <2>1
<1>12. ASSUME NEW t \in Interruptible, Interrupt(t)
      PROVE  Asking'
  <2>1. UNCHANGED <<pc, wants, raise, mx>>
    BY <1>12 DEF Interrupt
  <2>. QED  BY <1>c, <2>1
<1>13. CASE UNCHANGED vars
  <2>1. UNCHANGED <<pc, wants, raise, mx>>
    BY <1>13 DEF vars
  <2>. QED  BY <1>c, <2>1
<1>. QED
  BY <1>1, <1>2, <1>3, <1>4, <1>5, <1>6, <1>7, <1>8, <1>9, <1>10, <1>11,
     <1>12, <1>13, NextSteps
  DEF Inv, Typed

\* Nobody gives up a call in which it may not.
LEMMA PatienceStep ==
  ASSUME Inv, Peace, Regular, [Next]_vars
  PROVE  Patience'
<1>0. /\ Calling /\ Killable \subseteq Threads
      /\ patience \in [Threads -> {"endless", "timed", "over"}]
      /\ Interruptible \subseteq Threads
  BY Types, RolesAssumption DEF Inv, Typed
<1>. DEFINE Patient(u) ==
       /\ patience[u] # "endless" =>
            pc[u] \notin {"app", "gone"} /\ u \in TimedUsers(wants[u])
       /\ pc[u] \in Raising /\ raise[u].site = "timed" =>
            u \in TimedUsers(wants[u])
<1>a. interrupted \subseteq Interruptible /\ \A u \in Threads : Patient(u)
  BY DEF Peace, Patience
<1>b. ASSUME NEW t \in Threads, Others(t), Patient(t)', UNCHANGED interrupted
      PROVE  Patience'
  <2>1. \A u \in Threads \ {t} : Patient(u)'
    BY <1>a, <1>b DEF Others, TimedUsers, Raising
  <2>. QED  BY <1>a, <1>b, <2>1 DEF Patience
<1>1. ASSUME NEW t \in Threads, NEW m \in Mutexes,
             NEW site \in {"try", "lock", "timed", "loop"},
             Attempting(t, m, site), Acquire(t, m) \/ Relock(t, m),
             UNCHANGED <<assigned, inherited, interrupted>>
      PROVE  Patience'
  <2>1. Starts(t, m, "self") \/ Ends(t)
    BY <1>1, AcquireEffect, RelockEffect
  <2>2. pc[t] = "app" \/ wants[t] = m
    BY <1>1 DEF Attempting
  <2>3. Others(t) /\ Patient(t)'
    BY <1>a, <2>1, <2>2 DEF Starts, Ends, Raising, TimedUsers
  <2>. QED  BY <1>b, <1>1, <2>3
<1>2. ASSUME NEW t \in Threads, NEW m \in Mutexes,
             NEW site \in {"try", "lock", "timed", "loop"},
             Attempting(t, m, site), Contend(t, m, site),
             UNCHANGED <<assigned, inherited, interrupted>>
      PROVE  Patience'
  <2>1. \/ Starts(t, m, site) \/ Ends(t) \/ Loops(t, m, site)
        \/ site = "loop" /\ Links(t, m)
    BY <1>2, ContendEffect
  <2>2. /\ pc[t] = "app" \/ wants[t] = m
        /\ site = "timed" => t \in TimedUsers(m)
        /\ site = "loop" => wants[t] = m
    BY <1>2 DEF Attempting, TimedUsers
  <2>3. Others(t) /\ Patient(t)'
    BY <1>a, <2>1, <2>2 DEF Starts, Ends, Loops, Links, Raising, TimedUsers
  <2>. QED  BY <1>b, <1>2, <2>3
<1>3. ASSUME NEW t \in Threads,
             \/ ReadOwner(t) \/ ReadBoost(t)
      PROVE  Patience'
  <2>1. /\ pc[t] \in Raising /\ pc'[t] \in Raising /\ Others(t)
        /\ raise'[t].site = raise[t].site /\ patience'[t] = patience[t]
        /\ wants'[t] = wants[t] /\ UNCHANGED interrupted
    BY <1>3, ReadOwnerEffect, ReadBoostEffect DEF Moves, Still, Raising
  <2>2. Patient(t)'
    BY <2>1, <1>a DEF Raising, TimedUsers
  <2>. QED  BY <1>b, <2>1, <2>2
<1>4. ASSUME NEW t \in Threads, StorePriority(t)
      PROVE  Patience'
  <2>1. /\ pc[t] = "store" /\ UNCHANGED interrupted
        /\ \/ Ends(t) \/ Moves(t, "link")
           \/ Loops(t, wants[t], raise[t].site)
    BY <1>4, StoreEffect
  <2>2. Others(t) /\ Patient(t)'
    BY <2>1, <1>a DEF Ends, Loops, Moves, Raising, TimedUsers
  <2>. QED  BY <1>b, <2>1, <2>2
<1>5. ASSUME NEW t \in Threads,
             \/ LinkAfterRaise(t) \/ UnlinkNode(t) \/ Retry(t)
             \/ GiveUp(t) \/ WalkList(t)
      PROVE  Patience'
  <2>1. /\ UNCHANGED interrupted
        /\ pc[t] \in {"link", "asleep", "woken", "walk"}
        /\ \/ Ends(t)
           \/ Links(t, wants[t])
           \/ \E label \in {"woken", "loop", "walk", "restore"} : Moves(t, label)
    BY <1>5, InsideEffects DEF Still
  <2>2. Others(t) /\ Patient(t)'
    BY <2>1, <1>a DEF Ends, Links, Moves, Raising, TimedUsers
  <2>. QED  BY <1>b, <2>1, <2>2
<1>6. ASSUME NEW t \in Threads, RestoreBoost(t)
      PROVE  Patience'
  <2>1. /\ UNCHANGED interrupted /\ pc[t] = "restore"
        /\ Starts(t, wants[t], "restore")
    BY <1>6, InsideEffects
  <2>2. Others(t) /\ Patient(t)'
    BY <2>1, <1>a DEF Starts, Raising, TimedUsers
  <2>. QED  BY <1>b, <2>1, <2>2
<1>7. ASSUME NEW t \in Threads, NEW m \in Mutexes,
             Unlock(t, m) \/ Consistent(t, m) \/ Reset(t, m)
      PROVE  Patience'
  <2>1. UNCHANGED <<pc, wants, raise, patience, interrupted>>
    BY <1>7 DEF Unlock, Consistent, Reset
  <2>. QED  BY <1>a, <2>1 DEF Patience, TimedUsers, Raising
<1>8. ASSUME NEW by \in Threads, NEW t \in Killable, Kill(by, t)
      PROVE  Patience'
  <2>1. /\ Others(t) /\ pc'[t] = "gone" /\ patience'[t] = "endless"
        /\ UNCHANGED interrupted
    BY <1>8, KillFrees DEF Others
  <2>2. Patient(t)'
    BY <2>1 DEF Raising
  <2>. QED  BY <1>0, <1>b, <2>1, <2>2
<1>9. ASSUME NEW t \in Threads, Wake(t)
      PROVE  Patience'
  <2>1. UNCHANGED <<pc, wants, raise, patience, interrupted>>
    BY <1>9 DEF Wake
  <2>. QED  BY <1>a, <2>1 DEF Patience, TimedUsers, Raising
<1>10. ASSUME NEW t \in Interruptible, Interrupt(t)
      PROVE  Patience'
  <2>1. /\ UNCHANGED <<pc, wants, raise, patience>>
        /\ interrupted' \subseteq Interruptible
    BY <1>a, <1>10 DEF Interrupt
  <2>. QED  BY <1>a, <2>1 DEF Patience, TimedUsers, Raising
<1>11. ASSUME NEW t \in Threads, Expire(t)
      PROVE  Patience'
  <2>1. /\ UNCHANGED <<pc, wants, raise, interrupted>>
        /\ \A u \in Threads : patience'[u] # "endless" => patience[u] # "endless"
    BY <1>0, <1>11 DEF Expire
  <2>. QED  BY <1>a, <2>1 DEF Patience, TimedUsers, Raising
<1>12. CASE UNCHANGED vars
  <2>1. UNCHANGED <<pc, wants, raise, patience, interrupted>>
    BY <1>12 DEF vars
  <2>. QED  BY <1>a, <2>1 DEF Patience, TimedUsers, Raising
<1>. QED
  BY <1>1, <1>2, <1>3, <1>4, <1>5, <1>6, <1>7, <1>8, <1>9, <1>10, <1>11,
     <1>12, NextSteps
  DEF Inv, Typed
-----------------------------------------------------------------------------

\* Two callers would be three users of the mutex, with its owner.
LEMMA OneAsksStep ==
  ASSUME Inv, Peace, Regular, [Next]_vars
  PROVE  OneAsks'
<1>0. /\ Calling /\ Killable \subseteq Threads /\ NoThread \notin Threads
      /\ Interruptible \subseteq Threads
  BY Types, RolesAssumption DEF Inv, Typed
<1>a. ASSUME NEW t \in Threads, Others(t),
             InCall(t)' => InCall(t) /\ wants'[t] = wants[t]
      PROVE  OneAsks'
  <2>1. \A u \in Threads \ {t} :
          /\ InCall(u)' <=> InCall(u)
          /\ wants'[u] = wants[u]
    BY <1>a DEF Others, InCall, SelfRaising
  <2>. QED  BY <1>a, <2>1 DEF Peace, OneAsks, Pair, Users
<1>b. ASSUME UNCHANGED <<pc, wants, raise>>
      PROVE  OneAsks'
  BY <1>b DEF Peace, OneAsks, InCall, SelfRaising, Pair, Users
<1>1. ASSUME NEW t \in Threads, NEW m \in Mutexes,
             NEW site \in {"try", "lock", "timed", "loop"},
             Attempting(t, m, site), Acquire(t, m) \/ Relock(t, m),
             UNCHANGED <<assigned, inherited, interrupted>>
      PROVE  OneAsks'
  <2>1. Starts(t, m, "self") \/ Ends(t)
    BY <1>1, AcquireEffect, RelockEffect
  <2>2. Others(t) /\ ~ InCall(t)'
    BY <2>1 DEF Starts, Ends, InCall, SelfRaising, Raising
  <2>. QED  BY <1>a, <2>2
<1>2. ASSUME NEW t \in Threads, NEW m \in Mutexes,
             NEW site \in {"try", "lock", "timed", "loop"},
             Attempting(t, m, site), Contend(t, m, site),
             UNCHANGED <<assigned, inherited, interrupted>>
      PROVE  OneAsks'
  <2>1. /\ mx[m].owner # NoThread /\ (mx[m].owner = t => Type[m] = "normal")
        /\ \/ Starts(t, m, site) \/ Ends(t) \/ Loops(t, m, site)
           \/ site = "loop" /\ Links(t, m)
    BY <1>2, ContendEffect
  <2>2. /\ t \in Users[m]
        /\ \/ pc[t] = "app" /\ site # "loop"
           \/ pc[t] = "loop" /\ wants[t] = m /\ site = "loop"
    BY <1>2 DEF Attempting
  <2>3. CASE pc[t] = "loop"
    <3>1. Others(t) /\ InCall(t) /\ (InCall(t)' => wants'[t] = wants[t])
      BY <2>1, <2>2, <2>3
      DEF Starts, Ends, Loops, Links, InCall, SelfRaising, Raising
    <3>. QED  BY <1>a, <3>1
  <2>4. CASE Ends(t)
    BY <1>a, <2>4 DEF Ends, InCall
  <2>5. CASE pc[t] = "app" /\ ~ Ends(t)
    <3>1. Others(t) /\ wants'[t] = m
      BY <2>1, <2>2, <2>5 DEF Starts, Loops
    <3>2. ASSUME NEW u \in Threads, u # t, InCall(u), wants[u] = m, Pair(m)
          PROVE  FALSE
      <4>. DEFINE o == mx[m].owner
      <4>1. o # t /\ o # u /\ Cardinality(Users[m]) <= 2
        BY <2>1, <3>2 DEF Pair, Peace, Asking
      <4>2. u \in Users[m] /\ o \in Users[m]
        BY <1>0, <2>1, <3>2, OwnerCounts DEF InCall, Calling
      <4>3. Users[m] = {t, u}
        BY <2>2, <3>2, <4>1, <4>2, TwoUsers
      <4>. QED  BY <4>1, <4>2, <4>3
    <3>3. \A u \in Threads \ {t} :
            (InCall(u)' <=> InCall(u)) /\ wants'[u] = wants[u]
      BY <3>1 DEF Others, InCall, SelfRaising
    <3>. QED  BY <3>1, <3>2, <3>3 DEF Peace, OneAsks, Pair, Users
  <2>. QED  BY <2>2, <2>3, <2>4, <2>5
<1>3. ASSUME NEW t \in Threads,
             \/ ReadOwner(t) \/ ReadBoost(t)
      PROVE  OneAsks'
  <2>1. /\ pc[t] \in Raising /\ pc'[t] \in Raising /\ Others(t)
        /\ raise'[t].site = raise[t].site /\ wants'[t] = wants[t]
    BY <1>3, ReadOwnerEffect, ReadBoostEffect DEF Moves, Raising
  <2>2. InCall(t)' => InCall(t)
    BY <2>1 DEF InCall, SelfRaising, Raising
  <2>. QED  BY <1>a, <2>1, <2>2
<1>4. ASSUME NEW t \in Threads, StorePriority(t)
      PROVE  OneAsks'
  <2>1. /\ pc[t] = "store"
        /\ \/ Ends(t)
           \/ /\ raise[t].site \in {"lock", "timed"}
              /\ Loops(t, wants[t], raise[t].site)
           \/ raise[t].site = "loop" /\ Moves(t, "link")
    BY <1>4, StoreEffect
  <2>2. Others(t) /\ (InCall(t)' => InCall(t) /\ wants'[t] = wants[t])
    BY <2>1 DEF Ends, Loops, Moves, InCall, SelfRaising, Raising
  <2>. QED  BY <1>a, <2>2
<1>5. ASSUME NEW t \in Threads,
             \/ LinkAfterRaise(t) \/ UnlinkNode(t) \/ Retry(t)
             \/ GiveUp(t) \/ WalkList(t) \/ RestoreBoost(t)
      PROVE  OneAsks'
  <2>1. /\ pc[t] \in {"link", "asleep", "woken", "walk", "restore"}
        /\ \/ Ends(t) \/ Links(t, wants[t]) \/ Starts(t, wants[t], "restore")
           \/ \E label \in {"woken", "loop", "walk", "restore"} : Moves(t, label)
    BY <1>5, InsideEffects
  <2>2. Others(t) /\ (InCall(t)' => InCall(t) /\ wants'[t] = wants[t])
    BY <2>1 DEF Ends, Links, Starts, Moves, InCall, SelfRaising, Raising
  <2>. QED  BY <1>a, <2>2
<1>6. ASSUME NEW t \in Threads, NEW m \in Mutexes,
             Unlock(t, m) \/ Consistent(t, m) \/ Reset(t, m)
      PROVE  OneAsks'
  BY <1>6, <1>b DEF Unlock, Consistent, Reset
<1>7. ASSUME NEW by \in Threads, NEW t \in Killable, Kill(by, t)
      PROVE  OneAsks'
  <2>1. Others(t) /\ pc'[t] = "gone"
    BY <1>7, KillFrees DEF Others
  <2>. QED  BY <1>0, <1>a, <2>1 DEF InCall
<1>8. ASSUME NEW t \in Threads,
             \/ Wake(t) \/ Expire(t)
      PROVE  OneAsks'
  BY <1>8, <1>b DEF Wake, Expire
<1>9. ASSUME NEW t \in Interruptible, Interrupt(t)
      PROVE  OneAsks'
  BY <1>9, <1>b DEF Interrupt
<1>10. CASE UNCHANGED vars
  BY <1>10, <1>b DEF vars
<1>. QED
  BY <1>1, <1>2, <1>3, <1>4, <1>5, <1>6, <1>7, <1>8, <1>9, <1>10,
     NextSteps
  DEF Inv, Typed

\* Whoever gives up and finds another thread in the list is not one of two users.
LEMMA RestoringStep ==
  ASSUME Inv, Peace, Regular, [Next]_vars
  PROVE  Restoring'
<1>0. /\ Calling /\ Killable \subseteq Threads
      /\ patience \in [Threads -> {"endless", "timed", "over"}]
      /\ Interruptible \subseteq Threads
  BY Types, RolesAssumption DEF Inv, Typed
<1>. DEFINE Restores(u) ==
       /\ pc[u] = "walk" => patience[u] # "endless" /\ Protocol[wants[u]] # "none"
       /\ pc[u] = "restore" => raise[u].prio # 0 /\ wants[u] \in Lowerable
       /\ pc[u] \in Raising /\ raise[u].site = "restore" => wants[u] \in Lowerable
<1>a. \A u \in Threads : Restores(u)
  BY DEF Peace, Restoring
<1>b. ASSUME NEW t \in Threads, Others(t), Restores(t)'
      PROVE  Restoring'
  <2>1. \A u \in Threads \ {t} : Restores(u)'
    BY <1>a, <1>b DEF Others, Raising, Lowerable, TimedUsers, Pair, Users
  <2>. QED  BY <1>b, <2>1 DEF Restoring
<1>c. ASSUME UNCHANGED <<pc, wants, raise>>,
             \A u \in Threads : patience'[u] = "endless" => patience[u] = "endless"
      PROVE  Restoring'
  BY <1>a, <1>c DEF Restoring, Raising, Lowerable, TimedUsers, Pair, Users
<1>1. ASSUME NEW t \in Threads, NEW m \in Mutexes,
             NEW site \in {"try", "lock", "timed", "loop"},
             Attempting(t, m, site), Acquire(t, m) \/ Relock(t, m),
             UNCHANGED <<assigned, inherited, interrupted>>
      PROVE  Restoring'
  <2>1. Starts(t, m, "self") \/ Ends(t)
    BY <1>1, AcquireEffect, RelockEffect
  <2>2. Others(t) /\ Restores(t)'
    BY <2>1 DEF Starts, Ends, Raising
  <2>. QED  BY <1>b, <2>2
<1>2. ASSUME NEW t \in Threads, NEW m \in Mutexes,
             NEW site \in {"try", "lock", "timed", "loop"},
             Attempting(t, m, site), Contend(t, m, site),
             UNCHANGED <<assigned, inherited, interrupted>>
      PROVE  Restoring'
  <2>1. Starts(t, m, site) \/ Ends(t) \/ Loops(t, m, site) \/ Links(t, m)
    BY <1>2, ContendEffect
  <2>2. site # "restore"
    BY <1>2
  <2>3. Others(t) /\ Restores(t)'
    BY <2>1, <2>2 DEF Starts, Ends, Loops, Links, Raising
  <2>. QED  BY <1>b, <2>3
<1>3. ASSUME NEW t \in Threads,
             \/ ReadOwner(t) \/ ReadBoost(t)
      PROVE  Restoring'
  <2>1. /\ pc[t] \in Raising /\ pc'[t] \in Raising /\ Others(t)
        /\ raise'[t].site = raise[t].site /\ wants'[t] = wants[t]
    BY <1>3, ReadOwnerEffect, ReadBoostEffect DEF Moves, Raising
  <2>2. Restores(t)'
    BY <2>1, <1>a DEF Raising, Lowerable, TimedUsers, Pair, Users
  <2>. QED  BY <1>b, <2>1, <2>2
<1>4. ASSUME NEW t \in Threads,
             \/ StorePriority(t) \/ LinkAfterRaise(t) \/ UnlinkNode(t)
             \/ Retry(t)
      PROVE  Restoring'
  <2>1. Others(t) /\ pc'[t] \in {"app", "loop", "link", "asleep", "woken"}
    BY <1>4, StoreEffect, InsideEffects DEF Ends, Loops, Moves, Links
  <2>2. Restores(t)'
    BY <2>1 DEF Raising
  <2>. QED  BY <1>b, <2>1, <2>2
<1>5. ASSUME NEW t \in Threads, GiveUp(t)
      PROVE  Restoring'
  <2>1. /\ pc[t] = "woken" /\ wants[t] \in Mutexes
        /\ \/ Ends(t)
           \/ /\ Moves(t, "walk") /\ patience[t] # "endless"
              /\ mx[wants[t]].boosted # 0
    BY <1>0, <1>5, InsideEffects DEF Calling, GiveUp, At
  <2>2. Others(t) /\ Restores(t)'
    BY <2>1 DEF Ends, Moves, Raising, Peace, Unboosted
  <2>. QED  BY <1>b, <2>2
<1>6. ASSUME NEW t \in Threads, WalkList(t)
      PROVE  Restoring'
  <2>1. /\ pc[t] = "walk" /\ wants[t] \in Mutexes
        /\ \/ Ends(t)
           \/ /\ Moves(t, "restore") /\ raise'[t].prio # 0
              /\ \E u \in ToSet(waiters[wants[t]]) : u \in Threads
    BY <1>0, <1>6, InsideEffects DEF Calling, WalkList, At
  <2>2. CASE Ends(t)
    <3>1. Others(t) /\ Restores(t)'
      BY <2>2 DEF Ends, Raising
    <3>. QED  BY <1>b, <3>1
  <2>3. CASE ~ Ends(t)
    <3>1. PICK u \in ToSet(waiters[wants[t]]) : u \in Threads
      BY <2>1, <2>3
    <3>2. pc[u] = "asleep" /\ wants[u] = wants[t]
      BY <2>1, <3>1 DEF Peace, Queued
    <3>3. InCall(t) /\ InCall(u) /\ t # u
      BY <2>1, <3>2 DEF InCall, SelfRaising, Raising
    <3>4. ~ Pair(wants[t])
      BY <3>1, <3>2, <3>3 DEF Peace, OneAsks
    <3>5. t \in TimedUsers(wants[t]) /\ Protocol[wants[t]] # "none"
      BY <2>1, <1>a DEF Peace, Patience
    <3>6. wants[t] \in Lowerable
      BY <2>1, <3>4, <3>5 DEF Lowerable
    <3>7. Others(t) /\ Restores(t)'
      BY <2>1, <2>3, <3>6 DEF Moves, Raising, Lowerable, TimedUsers, Pair, Users
    <3>. QED  BY <1>b, <3>7
  <2>. QED  BY <2>2, <2>3
<1>7. ASSUME NEW t \in Threads, RestoreBoost(t)
      PROVE  Restoring'
  <2>1. pc[t] = "restore" /\ Starts(t, wants[t], "restore")
    BY <1>7, InsideEffects
  <2>2. Others(t) /\ Restores(t)'
    BY <1>a, <2>1 DEF Starts, Raising, Lowerable, TimedUsers, Pair, Users
  <2>. QED  BY <1>b, <2>2
<1>8. ASSUME NEW t \in Threads, NEW m \in Mutexes,
             Unlock(t, m) \/ Consistent(t, m) \/ Reset(t, m)
      PROVE  Restoring'
  BY <1>8, <1>c DEF Unlock, Consistent, Reset
<1>9. ASSUME NEW by \in Threads, NEW t \in Killable, Kill(by, t)
      PROVE  Restoring'
  <2>1. Others(t) /\ pc'[t] = "gone"
    BY <1>9, KillFrees DEF Others
  <2>2. Restores(t)'
    BY <2>1 DEF Raising
  <2>. QED  BY <1>0, <1>b, <2>1, <2>2
<1>10. ASSUME NEW t \in Threads, Wake(t)
      PROVE  Restoring'
  BY <1>10, <1>c DEF Wake
<1>11. ASSUME NEW t \in Interruptible, Interrupt(t)
      PROVE  Restoring'
  BY <1>11, <1>c DEF Interrupt
<1>12. ASSUME NEW t \in Threads, Expire(t)
      PROVE  Restoring'
  <2>1. \A u \in Threads : patience'[u] = "endless" => patience[u] = "endless"
    BY <1>0, <1>12 DEF Expire
  <2>. QED  BY <1>c, <1>12, <2>1 DEF Expire
<1>13. CASE UNCHANGED vars
  BY <1>13, <1>c DEF vars
<1>. QED
  BY <1>1, <1>2, <1>3, <1>4, <1>5, <1>6, <1>7, <1>8, <1>9, <1>10, <1>11,
     <1>12, <1>13, NextSteps
  DEF Inv, Typed

\* Only the protocols boost.
LEMMA UnboostedStep ==
  ASSUME Inv, Peace, Regular, [Next]_vars
  PROVE  Unboosted'
<1>1. ASSUME NEW t \in Threads, NEW m \in Mutexes,
             NEW site \in {"try", "lock", "timed", "loop"},
             Attempting(t, m, site), Acquire(t, m),
             UNCHANGED <<assigned, inherited, interrupted>>
      PROVE  Unboosted'
  BY <1>1, AcquireEffect DEF Peace, Unboosted
<1>2. ASSUME NEW t \in Threads, NEW m \in Mutexes,
             NEW site \in {"try", "lock", "timed", "loop"},
             Attempting(t, m, site), Relock(t, m),
             UNCHANGED <<assigned, inherited, interrupted>>
      PROVE  Unboosted'
  BY <1>2, RelockEffect DEF Peace, Unboosted, SameMutexes
<1>3. ASSUME NEW t \in Threads, NEW m \in Mutexes,
             NEW site \in {"try", "lock", "timed", "loop"},
             Attempting(t, m, site), Contend(t, m, site),
             UNCHANGED <<assigned, inherited, interrupted>>
      PROVE  Unboosted'
  BY <1>3, ContendEffect DEF Peace, Unboosted
<1>4. ASSUME NEW t \in Threads,
             \/ ReadOwner(t) \/ ReadBoost(t) \/ StorePriority(t)
             \/ LinkAfterRaise(t) \/ UnlinkNode(t) \/ Retry(t)
             \/ GiveUp(t) \/ WalkList(t)
      PROVE  Unboosted'
  <2>1. mx' = mx
    BY <1>4, ReadOwnerEffect, ReadBoostEffect, StoreEffect, InsideEffects DEF Still
  <2>. QED  BY <2>1 DEF Peace, Unboosted
<1>5. ASSUME NEW t \in Threads, RestoreBoost(t)
      PROVE  Unboosted'
  <2>1. wants[t] \in Lowerable
    BY <1>5, InsideEffects DEF Peace, Restoring
  <2>2. Protocol[wants[t]] # "none"
    BY <2>1 DEF Lowerable
  <2>. QED  BY <1>5, <2>2, InsideEffects DEF Peace, Unboosted
<1>6. ASSUME NEW t \in Threads, NEW m \in Mutexes,
             Unlock(t, m) \/ Consistent(t, m) \/ Reset(t, m)
      PROVE  Unboosted'
  <2>1. CASE Unlock(t, m)
    <3>1. \A others \in SUBSET Mutexes :
            BoostLeft(m, others) # 0 => mx[m].boosted # 0
      BY BoostLeftType DEF Inv, Typed
    <3>. QED  BY <2>1, <3>1, UnlockEffect DEF Peace, Unboosted
  <2>2. CASE Consistent(t, m)
    BY <2>2, ConsistentEffect DEF Peace, Unboosted, SameMutexes
  <2>3. CASE Reset(t, m)
    BY <2>3, ResetEffect DEF Peace, Unboosted
  <2>. QED  BY <1>6, <2>1, <2>2, <2>3
<1>7. ASSUME NEW by \in Threads, NEW t \in Killable, Kill(by, t)
      PROVE  Unboosted'
  BY <1>7, KillFrees DEF Peace, Unboosted
<1>8. ASSUME NEW t \in Threads,
             \/ Wake(t) \/ Expire(t)
      PROVE  Unboosted'
  BY <1>8 DEF Wake, Expire, Peace, Unboosted
<1>9. ASSUME NEW t \in Interruptible, Interrupt(t)
      PROVE  Unboosted'
  BY <1>9 DEF Interrupt, Peace, Unboosted
<1>10. CASE UNCHANGED vars
  BY <1>10 DEF vars, Peace, Unboosted
<1>. QED
  BY <1>1, <1>2, <1>3, <1>4, <1>5, <1>6, <1>7, <1>8, <1>9, <1>10,
     NextSteps
  DEF Inv, Typed
-----------------------------------------------------------------------------

\* A thread that raises itself owns the mutex all the while, and reads its
\* ceiling; nobody else raises it.
LEMMA SelfRaisedStep ==
  ASSUME Inv, Peace, Regular, [Next]_vars
  PROVE  SelfRaised'
<1>0. /\ Calling /\ Killable \subseteq Threads /\ NoThread \notin Threads
      /\ Interruptible \subseteq Threads
      /\ mx \in [Mutexes -> MutexRecord]
  BY Types, RolesAssumption DEF Inv, Typed
<1>. DEFINE Finds(u) ==
       SelfRaising(u) =>
         /\ Protocol[wants[u]] = "protect"
         /\ mx[wants[u]].owner = u /\ mx[wants[u]].boosted # 0
         /\ pc[u] # "read_owner" => raise[u].owner = u
         /\ pc[u] = "store" /\ wants[u] \notin Lowerable =>
              raise[u].prio = Ceiling[wants[u]]
         /\ u \notin Raisable => inherited[u] < Ceiling[wants[u]]
<1>a. \A u \in Threads : Finds(u)
  BY DEF Peace, SelfRaised
<1>b. ASSUME NEW t \in Threads, Others(t), Finds(t)',
             \A u \in Threads \ {t} :
               SelfRaising(u) =>
                 /\ mx'[wants[u]].owner = u /\ mx'[wants[u]].boosted # 0
                 /\ u \notin Raisable => inherited'[u] = inherited[u]
      PROVE  SelfRaised'
  <2>1. \A u \in Threads \ {t} : SelfRaising(u)' <=> SelfRaising(u)
    BY <1>b DEF Others, SelfRaising, Raising
  <2>2. Lowerable' = Lowerable /\ Raisable' = Raisable
    BY DEF Lowerable, Raisable, TimedUsers, Pair, Users
  <2>3. \A u \in Threads \ {t} : Finds(u)'
    BY <1>a, <1>b, <2>1, <2>2 DEF Others
  <2>. QED  BY <1>b, <2>3 DEF SelfRaised
<1>c. ASSUME UNCHANGED <<pc, wants, raise>>,
             \A u \in Threads :
               SelfRaising(u) =>
                 /\ mx'[wants[u]].owner = u /\ mx'[wants[u]].boosted # 0
                 /\ inherited'[u] = inherited[u]
      PROVE  SelfRaised'
  <2>1. Lowerable' = Lowerable /\ Raisable' = Raisable
    BY DEF Lowerable, Raisable, TimedUsers, Pair, Users
  <2>. QED  BY <1>a, <1>c, <2>1 DEF SelfRaised, SelfRaising, Raising
<1>d. \A u \in Threads : SelfRaising(u) =>
        /\ wants[u] \in Mutexes /\ pc[u] \notin {"app", "loop", "gone"}
        /\ mx[wants[u]].owner = u /\ mx[wants[u]].boosted # 0
        /\ Protocol[wants[u]] = "protect"
  BY <1>0, <1>a DEF SelfRaising, Raising, Calling
<1>1. ASSUME NEW t \in Threads, NEW m \in Mutexes,
             NEW site \in {"try", "lock", "timed", "loop"},
             Attempting(t, m, site), Acquire(t, m),
             UNCHANGED <<assigned, inherited, interrupted>>
      PROVE  SelfRaised'
  <2>1. /\ mx[m].owner = NoThread /\ mx'[m].owner = t
        /\ \A n \in Mutexes \ {m} : mx'[n] = mx[n]
        /\ Protocol[m] = "protect" => mx'[m].boosted = Ceiling[m]
        /\ \/ /\ Protocol[m] = "protect" /\ Ceiling[m] > inherited[t]
              /\ Starts(t, m, "self")
           \/ Ends(t)
        /\ inherited' = inherited
    BY <1>1, AcquireEffect
  <2>2. Ceiling[m] \in Nat \ {0} /\ inherited[t] \in Nat
    BY AttributesAssumption, Types DEF Inv
  <2>3. Raisable' = Raisable
    BY DEF Raisable, Users
  <2>4. Others(t) /\ Finds(t)'
    BY <2>1, <2>2, <2>3 DEF Starts, Ends, SelfRaising, Raising
  <2>5. \A u \in Threads \ {t} :
          SelfRaising(u) => /\ mx'[wants[u]].owner = u
                            /\ mx'[wants[u]].boosted # 0
    BY <1>0, <1>d, <2>1
  <2>. QED  BY <1>b, <2>1, <2>4, <2>5
<1>2. ASSUME NEW t \in Threads, NEW m \in Mutexes,
             NEW site \in {"try", "lock", "timed", "loop"},
             Attempting(t, m, site), Relock(t, m),
             UNCHANGED <<assigned, inherited, interrupted>>
      PROVE  SelfRaised'
  <2>1. SameMutexes /\ Ends(t) /\ inherited' = inherited
    BY <1>2, RelockEffect
  <2>2. Others(t) /\ Finds(t)'
    BY <2>1 DEF Ends, SelfRaising, Raising
  <2>3. \A u \in Threads \ {t} :
          SelfRaising(u) => /\ mx'[wants[u]].owner = u
                            /\ mx'[wants[u]].boosted # 0
    BY <1>d, <2>1 DEF SameMutexes
  <2>. QED  BY <1>b, <2>1, <2>2, <2>3
<1>3. ASSUME NEW t \in Threads, NEW m \in Mutexes,
             NEW site \in {"try", "lock", "timed", "loop"},
             Attempting(t, m, site), Contend(t, m, site),
             UNCHANGED <<assigned, inherited, interrupted>>
      PROVE  SelfRaised'
  <2>1. /\ \A n \in Mutexes : mx'[n].owner = mx[n].owner
        /\ \A n \in Mutexes \ {m} : mx'[n] = mx[n]
        /\ mx'[m].boosted = IF Protocol[m] = "inherit" /\ mx[m].owner # t
                            THEN Priority[t] ELSE mx[m].boosted
        /\ \/ Starts(t, m, site) \/ Ends(t) \/ Loops(t, m, site) \/ Links(t, m)
        /\ inherited' = inherited
    BY <1>3, ContendEffect
  <2>2. site # "self"
    BY <1>3
  <2>3. Others(t) /\ ~ SelfRaising(t)'
    BY <2>1, <2>2 DEF Starts, Ends, Loops, Links, SelfRaising, Raising
  <2>4. \A u \in Threads \ {t} :
          SelfRaising(u) => /\ mx'[wants[u]].owner = u
                            /\ mx'[wants[u]].boosted # 0
    BY <1>d, <2>1
  <2>. QED  BY <1>b, <2>1, <2>3, <2>4
<1>4. ASSUME NEW t \in Threads, ReadOwner(t)
      PROVE  SelfRaised'
  <2>1. /\ pc[t] = "read_owner" /\ Still /\ raise'[t].site = raise[t].site
        /\ \/ Moves(t, "read_owner")
           \/ Moves(t, "read_boost") /\ raise'[t].owner = mx[wants[t]].owner
    BY <1>4, ReadOwnerEffect
  <2>2. Raisable' = Raisable
    BY DEF Raisable, Users
  <2>3. Others(t) /\ Finds(t)'
    BY <1>a, <2>1, <2>2 DEF Moves, Still, SelfRaising, Raising
  <2>. QED  BY <1>b, <1>d, <2>1, <2>3 DEF Still
<1>5. ASSUME NEW t \in Threads, ReadBoost(t)
      PROVE  SelfRaised'
  <2>1. /\ pc[t] = "read_boost" /\ Still /\ raise'[t].site = raise[t].site
        /\ Moves(t, "store")
        /\ raise'[t].owner = raise[t].owner
        /\ raise'[t].prio = mx[wants[t]].boosted
    BY <1>5, ReadBoostEffect
  <2>2. Raisable' = Raisable /\ Lowerable' = Lowerable
    BY DEF Lowerable, Raisable, TimedUsers, Pair, Users
  <2>3. SelfRaising(t) /\ wants[t] \notin Lowerable =>
          mx[wants[t]].boosted = Ceiling[wants[t]]
    BY <1>0, <1>d DEF Peace, AtCeilings
  <2>4. Others(t) /\ Finds(t)'
    BY <1>a, <2>1, <2>2, <2>3 DEF Moves, Still, SelfRaising, Raising
  <2>. QED  BY <1>b, <1>d, <2>1, <2>4 DEF Still
<1>6. ASSUME NEW t \in Threads, StorePriority(t)
      PROVE  SelfRaised'
  <2>. DEFINE o == raise[t].owner
  <2>1. /\ pc[t] = "store" /\ wants[t] \in Mutexes
        /\ o \in Threads /\ o \in Users[wants[t]] /\ mx' = mx
        /\ raise[t].site = "restore" => inherited' = inherited
        /\ \A u \in Threads \ {o} : inherited'[u] = inherited[u]
        /\ \/ Ends(t) \/ Loops(t, wants[t], raise[t].site) \/ Moves(t, "link")
    BY <1>6, StoreEffect
  <2>2. Others(t) /\ ~ SelfRaising(t)'
    BY <2>1 DEF Ends, Loops, Moves, SelfRaising, Raising
  <2>3. ASSUME NEW u \in Threads \ {t}, SelfRaising(u), u \notin Raisable
        PROVE  inherited'[u] = inherited[u]
    <3>1. CASE SelfRaising(t)
      BY <2>1, <2>3, <3>1, <1>a
    <3>2. CASE ~ SelfRaising(t) /\ raise[t].site # "restore"
      <4>1. Protocol[wants[t]] = "inherit"
        BY <2>1, <3>2 DEF Peace, Asking, SelfRaising, Raising
      <4>2. o \in Raisable
        BY <2>1, <4>1 DEF Raisable
      <4>. QED  BY <2>1, <2>3, <4>2
    <3>3. CASE raise[t].site = "restore"
      BY <2>1, <3>3
    <3>. QED  BY <3>1, <3>2, <3>3
  <2>. QED  BY <1>b, <1>d, <2>1, <2>2, <2>3
<1>7. ASSUME NEW t \in Threads,
             \/ LinkAfterRaise(t) \/ UnlinkNode(t) \/ Retry(t)
             \/ GiveUp(t) \/ WalkList(t)
      PROVE  SelfRaised'
  <2>1. /\ UNCHANGED <<mx, inherited>>
        /\ \/ Ends(t) \/ Links(t, wants[t])
           \/ \E label \in {"woken", "loop", "walk", "restore"} : Moves(t, label)
    BY <1>7, InsideEffects DEF Still
  <2>2. Others(t) /\ ~ SelfRaising(t)'
    BY <2>1 DEF Ends, Links, Moves, SelfRaising, Raising
  <2>. QED  BY <1>b, <1>d, <2>1, <2>2
<1>8. ASSUME NEW t \in Threads, RestoreBoost(t)
      PROVE  SelfRaised'
  <2>1. /\ pc[t] = "restore" /\ Starts(t, wants[t], "restore")
        /\ \A n \in Mutexes : mx'[n].owner = mx[n].owner
        /\ \A n \in Mutexes \ {wants[t]} : mx'[n] = mx[n]
        /\ mx'[wants[t]].boosted = raise[t].prio
        /\ inherited' = inherited
    BY <1>8, InsideEffects
  <2>2. Others(t) /\ ~ SelfRaising(t)'
    BY <2>1 DEF Starts, SelfRaising, Raising
  <2>3. raise[t].prio # 0
    BY <2>1 DEF Peace, Restoring
  <2>4. \A u \in Threads \ {t} :
          SelfRaising(u) => /\ mx'[wants[u]].owner = u
                            /\ mx'[wants[u]].boosted # 0
    BY <1>d, <2>1, <2>3
  <2>. QED  BY <1>b, <2>1, <2>2, <2>4
<1>9. ASSUME NEW t \in Threads, NEW m \in Mutexes, Unlock(t, m)
      PROVE  SelfRaised'
  <2>1. pc[t] = "app" /\ mx[m].owner = t /\ UNCHANGED <<pc, wants, raise>>
    BY <1>9 DEF Unlock, At
  <2>2. \A n \in Mutexes \ {m} : /\ mx'[n].owner = mx[n].owner
                                 /\ mx'[n].boosted = mx[n].boosted
    BY <1>9, UnlockEffect
  <2>3. \/ inherited' = inherited
        \/ \E p : inherited' = [inherited EXCEPT ![t] = p]
    BY <1>9, UnlockEffect
  <2>4. \A u \in Threads \ {t} : inherited'[u] = inherited[u]
    BY <2>3, Types DEF Inv
  <2>. QED  BY <1>c, <1>d, <2>1, <2>2, <2>4
<1>10. ASSUME NEW t \in Threads, NEW m \in Mutexes, Consistent(t, m)
      PROVE  SelfRaised'
  <2>1. UNCHANGED <<pc, wants, raise, inherited>> /\ SameMutexes
    BY <1>10, ConsistentEffect DEF Consistent
  <2>. QED  BY <1>c, <1>d, <2>1 DEF SameMutexes
<1>11. ASSUME NEW t \in Threads, NEW m \in Mutexes, Reset(t, m)
      PROVE  SelfRaised'
  <2>1. /\ UNCHANGED <<pc, wants, raise, inherited>>
        /\ mx[m].owner = NoThread /\ \A n \in Mutexes \ {m} : mx'[n] = mx[n]
    BY <1>11, ResetEffect DEF Reset
  <2>. QED  BY <1>0, <1>c, <1>d, <2>1
<1>12. ASSUME NEW by \in Threads, NEW t \in Killable, Kill(by, t)
      PROVE  SelfRaised'
  <2>1. /\ Others(t) /\ pc'[t] = "gone" /\ t \in Threads
        /\ \A n \in Mutexes \ Owned(t) : mx'[n] = mx[n]
        /\ \A u \in Threads \ {t} : inherited'[u] = inherited[u]
    BY <1>12, KillFrees DEF Others
  <2>2. ~ SelfRaising(t)'
    BY <2>1 DEF SelfRaising, Raising
  <2>3. \A u \in Threads \ {t} : SelfRaising(u) => wants[u] \notin Owned(t)
    BY <1>d DEF Owned
  <2>. QED  BY <1>b, <1>d, <2>1, <2>2, <2>3
<1>13. ASSUME NEW t \in Threads,
             \/ Wake(t) \/ Expire(t)
      PROVE  SelfRaised'
  BY <1>13, <1>c, <1>d DEF Wake, Expire
<1>14. ASSUME NEW t \in Interruptible, Interrupt(t)
      PROVE  SelfRaised'
  BY <1>14, <1>c, <1>d DEF Interrupt
<1>15. CASE UNCHANGED vars
  BY <1>15, <1>c, <1>d DEF vars
<1>. QED
  BY <1>1, <1>2, <1>3, <1>4, <1>5, <1>6, <1>7, <1>8, <1>9, <1>10, <1>11,
     <1>12, <1>13, <1>14, <1>15, NextSteps
  DEF Inv, Typed

\* The owner of a protect mutex keeps its ceiling until it unlocks the last of them.
LEMMA AtCeilingsStep ==
  ASSUME Inv, Peace, Regular, [Next]_vars
  PROVE  AtCeilings'
<1>0. /\ Calling /\ Killable \subseteq Threads /\ NoThread \notin Threads
      /\ Interruptible \subseteq Threads /\ inherited \in [Threads -> Nat]
      /\ mx \in [Mutexes -> MutexRecord] /\ Ceiling \in [Mutexes -> Nat]
  BY Types, RolesAssumption, AttributesAssumption DEF Inv, Typed
<1>. DEFINE Reaches(m) ==
       LET o == mx[m].owner IN
       Protocol[m] = "protect" /\ o # NoThread =>
         /\ mx[m].boosted = Ceiling[m]
         /\ \/ o \in Raisable
            \/ SelfRaising(o) /\ wants[o] = m
            \/ inherited[o] >= Ceiling[m]
<1>a. /\ Lowerable' = Lowerable /\ Raisable' = Raisable
      /\ \A m \in Mutexes \ Lowerable : Reaches(m)
      /\ (\A m \in Mutexes \ Lowerable : Reaches(m)') => AtCeilings'
  BY DEF Peace, AtCeilings, Lowerable, Raisable, TimedUsers, Pair, Users
<1>b. ASSUME NEW m \in Mutexes \ Lowerable,
             mx'[m].owner # NoThread =>
               /\ mx'[m].owner = mx[m].owner /\ mx'[m].boosted = mx[m].boosted
               /\ SelfRaising(mx[m].owner) /\ wants[mx[m].owner] = m =>
                    (SelfRaising(mx[m].owner) /\ wants[mx[m].owner] = m)'
               /\ \/ inherited'[mx[m].owner] = inherited[mx[m].owner]
                  \/ inherited'[mx[m].owner] >= Ceiling[m]
                  \/ mx[m].owner \in Raisable
      PROVE  Reaches(m)'
  BY <1>a, <1>b
<1>c. \A m \in Mutexes : mx[m].owner # NoThread => mx[m].owner \in Threads
  BY <1>0 DEF MutexRecord
<1>d. \A m, n \in Mutexes : Protocol[m] = "protect" /\ Protocol[n] = "protect" =>
        Ceiling[m] = Ceiling[n]
  <2>1. \A m, n \in Mutexes : Protocol[m] = "protect" /\ Protocol[n] = "protect" =>
          Ceiling[n] <= Ceiling[m]
    BY DEF Regular, CeilingsAtTop
  <2>. QED  BY <1>0, <2>1
<1>1. ASSUME NEW t \in Threads, NEW m \in Mutexes,
             NEW site \in {"try", "lock", "timed", "loop"},
             Attempting(t, m, site), Acquire(t, m),
             UNCHANGED <<assigned, inherited, interrupted>>
      PROVE  AtCeilings'
  <2>1. /\ mx'[m].owner = t
        /\ \A n \in Mutexes \ {m} : mx'[n] = mx[n]
        /\ Protocol[m] = "protect" => mx'[m].boosted = Ceiling[m]
        /\ IF Protocol[m] = "protect" /\ Ceiling[m] > inherited[t]
             THEN Starts(t, m, "self") ELSE Ends(t)
        /\ inherited' = inherited
    BY <1>1, AcquireEffect
  <2>2. pc[t] \in {"app", "loop"}
    BY <1>1 DEF Attempting
  <2>3. Others(t) /\ ~ SelfRaising(t)
    BY <2>1, <2>2 DEF Starts, Ends, SelfRaising, Raising
  <2>4. m \notin Lowerable => Reaches(m)'
    BY <1>0, <2>1 DEF Starts, SelfRaising, Raising
  <2>5. ASSUME NEW n \in Mutexes \ Lowerable, n # m
        PROVE  Reaches(n)'
    BY <1>b, <1>c, <2>1, <2>3, <2>5 DEF Others, SelfRaising
  <2>. QED  BY <1>a, <2>4, <2>5
<1>2. ASSUME NEW t \in Threads, NEW m \in Mutexes,
             NEW site \in {"try", "lock", "timed", "loop"},
             Attempting(t, m, site), Relock(t, m),
             UNCHANGED <<assigned, inherited, interrupted>>
      PROVE  AtCeilings'
  <2>1. SameMutexes /\ Others(t) /\ inherited' = inherited /\ ~ SelfRaising(t)
    BY <1>2, RelockEffect DEF Ends, Attempting, SelfRaising, Raising
  <2>2. ASSUME NEW n \in Mutexes \ Lowerable
        PROVE  Reaches(n)'
    BY <1>b, <1>c, <2>1 DEF Others, SelfRaising, SameMutexes
  <2>. QED  BY <1>a, <2>2
<1>3. ASSUME NEW t \in Threads, NEW m \in Mutexes,
             NEW site \in {"try", "lock", "timed", "loop"},
             Attempting(t, m, site), Contend(t, m, site),
             UNCHANGED <<assigned, inherited, interrupted>>
      PROVE  AtCeilings'
  <2>1. /\ \A n \in Mutexes : mx'[n].owner = mx[n].owner
        /\ \A n \in Mutexes \ {m} : mx'[n] = mx[n]
        /\ mx'[m].boosted = IF Protocol[m] = "inherit" /\ mx[m].owner # t
                            THEN Priority[t] ELSE mx[m].boosted
        /\ Others(t) /\ inherited' = inherited /\ ~ SelfRaising(t)
    BY <1>3, ContendEffect
    DEF Starts, Ends, Loops, Links, Attempting, SelfRaising, Raising
  <2>2. ASSUME NEW n \in Mutexes \ Lowerable, Protocol[n] = "protect"
        PROVE  Reaches(n)'
    BY <1>b, <1>c, <2>1, <2>2 DEF Others, SelfRaising
  <2>. QED  BY <1>a, <2>2
<1>4. ASSUME NEW t \in Threads,
             \/ ReadOwner(t) \/ ReadBoost(t)
      PROVE  AtCeilings'
  <2>1. /\ pc[t] \in Raising /\ pc'[t] \in Raising /\ Still
        /\ raise'[t].site = raise[t].site /\ Others(t) /\ wants'[t] = wants[t]
    BY <1>4, ReadOwnerEffect, ReadBoostEffect DEF Moves, Raising
  <2>2. ASSUME NEW n \in Mutexes \ Lowerable
        PROVE  Reaches(n)'
    BY <1>b, <1>c, <2>1 DEF Others, SelfRaising, Still, Raising
  <2>. QED  BY <1>a, <2>2
<1>5. ASSUME NEW t \in Threads, StorePriority(t)
      PROVE  AtCeilings'
  <2>. DEFINE o == raise[t].owner
  <2>1. /\ pc[t] = "store" /\ wants[t] \in Mutexes
        /\ o \in Threads /\ o \in Users[wants[t]] /\ mx' = mx
        /\ IF raise[t].site = "restore" THEN inherited' = inherited
                                        ELSE inherited'[o] = raise[t].prio
        /\ \A u \in Threads \ {o} : inherited'[u] = inherited[u]
        /\ Others(t)
    BY <1>5, StoreEffect DEF Ends, Loops, Moves
  <2>2. CASE SelfRaising(t)
    <3>1. /\ o = t /\ Protocol[wants[t]] = "protect" /\ mx[wants[t]].owner = t
          /\ wants[t] \notin Lowerable => raise[t].prio = Ceiling[wants[t]]
          /\ t \notin Raisable => inherited[t] < Ceiling[wants[t]]
          /\ raise[t].site = "self"
      BY <2>1, <2>2 DEF Peace, SelfRaised, SelfRaising
    <3>2. ASSUME NEW n \in Mutexes \ Lowerable, Protocol[n] = "protect",
                 mx[n].owner = t, t \notin Raisable
          PROVE  wants[t] = n
      <4>1. Ceiling[n] = Ceiling[wants[t]]
        BY <1>d, <2>1, <3>1, <3>2
      <4>2. wants[t] = n \/ inherited[t] >= Ceiling[n]
        BY <1>0, <1>a, <3>2
      <4>. QED  BY <1>0, <2>1, <3>1, <3>2, <4>1, <4>2
    <3>3. ASSUME NEW n \in Mutexes \ Lowerable, Protocol[n] = "protect"
          PROVE  Reaches(n)'
      <4>1. CASE mx[n].owner = t
        <5>1. mx'[n] = mx[n] /\ mx[n].boosted = Ceiling[n]
          BY <1>0, <1>a, <2>1, <3>3, <4>1
        <5>2. t \notin Raisable => inherited'[t] = Ceiling[n]
          BY <2>1, <3>1, <3>2, <3>3, <4>1
        <5>. QED  BY <1>0, <1>a, <4>1, <5>1, <5>2
      <4>2. CASE mx[n].owner # t
        BY <1>b, <1>c, <2>1, <3>1, <3>3, <4>2 DEF Others, SelfRaising
      <4>. QED  BY <4>1, <4>2
    <3>. QED  BY <1>a, <3>3
  <2>3. CASE ~ SelfRaising(t)
    <3>1. raise[t].site = "restore" \/ o \in Raisable
      <4>1. raise[t].site # "restore" => Protocol[wants[t]] = "inherit"
        BY <2>1, <2>3 DEF Peace, Asking, SelfRaising, Raising
      <4>. QED  BY <2>1, <4>1 DEF Raisable
    <3>2. ASSUME NEW n \in Mutexes \ Lowerable
          PROVE  Reaches(n)'
      BY <1>b, <1>c, <2>1, <2>3, <3>1 DEF Others, SelfRaising
    <3>. QED  BY <1>a, <3>2
  <2>. QED  BY <2>2, <2>3
<1>6. ASSUME NEW t \in Threads,
             \/ LinkAfterRaise(t) \/ UnlinkNode(t) \/ Retry(t)
             \/ GiveUp(t) \/ WalkList(t)
      PROVE  AtCeilings'
  <2>1. UNCHANGED <<mx, inherited>> /\ Others(t) /\ ~ SelfRaising(t)
    BY <1>6, InsideEffects DEF Still, Ends, Links, Moves, SelfRaising, Raising
  <2>2. ASSUME NEW n \in Mutexes \ Lowerable
        PROVE  Reaches(n)'
    BY <1>b, <1>c, <2>1 DEF Others, SelfRaising
  <2>. QED  BY <1>a, <2>2
<1>7. ASSUME NEW t \in Threads, RestoreBoost(t)
      PROVE  AtCeilings'
  <2>1. /\ \A n \in Mutexes : mx'[n].owner = mx[n].owner
        /\ \A n \in Mutexes \ {wants[t]} : mx'[n] = mx[n]
        /\ inherited' = inherited /\ Others(t) /\ ~ SelfRaising(t)
        /\ pc[t] = "restore"
    BY <1>7, InsideEffects DEF Starts, SelfRaising, Raising
  <2>2. wants[t] \in Lowerable
    BY <2>1 DEF Peace, Restoring
  <2>3. ASSUME NEW n \in Mutexes \ Lowerable
        PROVE  Reaches(n)'
    BY <1>b, <1>c, <2>1, <2>2 DEF Others, SelfRaising
  <2>. QED  BY <1>a, <2>3
<1>8. ASSUME NEW t \in Threads, NEW m \in Mutexes, Unlock(t, m)
      PROVE  AtCeilings'
  <2>1. UNCHANGED <<pc, wants, raise>>
    BY <1>8 DEF Unlock
  <2>2. ASSUME NEW n \in Mutexes \ Lowerable, Protocol[n] = "protect",
               mx'[n].owner # NoThread
        PROVE  /\ mx'[n].owner = mx[n].owner /\ mx'[n].boosted = mx[n].boosted
               /\ \/ inherited'[mx[n].owner] = inherited[mx[n].owner]
                  \/ inherited'[mx[n].owner] >= Ceiling[n]
    <3>1. CASE inherited' = inherited
      BY <1>8, <2>2, <3>1, UnlockEffect
    <3>2. CASE inherited' # inherited
      <4>. DEFINE others == Owned(t) \ {m}
      <4>1. /\ others \in SUBSET Mutexes /\ mx[m].boosted # 0
            /\ mx'[m].owner = NoThread
            /\ \A k \in Mutexes \ {m} : mx'[k] = mx[k]
            /\ inherited' = [inherited EXCEPT ![t] = BoostLeft(m, others)]
        BY <1>8, <3>2, UnlockEffect
      <4>2. CASE mx[n].owner = t
        <5>1. n \in others
          BY <2>2, <4>1, <4>2 DEF Owned
        <5>2. BoostLeft(m, others) >= mx[n].boosted
          BY <4>1, <5>1, BoostLeftBounds DEF Inv, Typed
        <5>3. mx[n].boosted = Ceiling[n]
          BY <1>0, <1>a, <2>2, <4>2
        <5>. QED  BY <1>0, <2>2, <4>1, <4>2, <5>2, <5>3
      <4>3. CASE mx[n].owner # t
        BY <1>0, <1>c, <2>2, <4>1, <4>3
      <4>. QED  BY <4>2, <4>3
    <3>. QED  BY <3>1, <3>2
  <2>3. ASSUME NEW n \in Mutexes \ Lowerable, Protocol[n] = "protect"
        PROVE  Reaches(n)'
    BY <1>b, <2>1, <2>2, <2>3 DEF SelfRaising
  <2>. QED  BY <1>a, <2>3
<1>9. ASSUME NEW t \in Threads, NEW m \in Mutexes, Consistent(t, m)
      PROVE  AtCeilings'
  <2>1. UNCHANGED <<pc, wants, raise, inherited>> /\ SameMutexes
    BY <1>9, ConsistentEffect DEF Consistent
  <2>2. ASSUME NEW n \in Mutexes \ Lowerable
        PROVE  Reaches(n)'
    BY <1>b, <2>1 DEF SameMutexes, SelfRaising
  <2>. QED  BY <1>a, <2>2
<1>10. ASSUME NEW t \in Threads, NEW m \in Mutexes, Reset(t, m)
      PROVE  AtCeilings'
  <2>1. /\ UNCHANGED <<pc, wants, raise, inherited>>
        /\ mx'[m].owner = NoThread /\ \A n \in Mutexes \ {m} : mx'[n] = mx[n]
    BY <1>10, ResetEffect DEF Reset
  <2>2. ASSUME NEW n \in Mutexes \ Lowerable
        PROVE  Reaches(n)'
    BY <1>b, <2>1 DEF SelfRaising
  <2>. QED  BY <1>a, <2>2
<1>11. ASSUME NEW by \in Threads, NEW t \in Killable, Kill(by, t)
      PROVE  AtCeilings'
  <2>1. /\ Others(t) /\ t \in Threads
        /\ \A n \in Mutexes \ Owned(t) : mx'[n] = mx[n]
        /\ \A n \in Owned(t) : mx'[n].owner = NoThread
        /\ \A u \in Threads \ {t} : inherited'[u] = inherited[u]
    BY <1>11, KillFrees DEF Others
  <2>2. \A n \in Mutexes : mx[n].owner = t <=> n \in Owned(t)
    BY DEF Owned
  <2>3. ASSUME NEW n \in Mutexes \ Lowerable
        PROVE  Reaches(n)'
    BY <1>b, <1>c, <2>1, <2>2 DEF Others, SelfRaising
  <2>. QED  BY <1>a, <2>3
<1>12. ASSUME NEW t \in Threads,
             \/ Wake(t) \/ Expire(t)
      PROVE  AtCeilings'
  <2>1. UNCHANGED <<pc, wants, raise, mx, inherited>>
    BY <1>12 DEF Wake, Expire
  <2>. QED  BY <1>a, <2>1 DEF SelfRaising
<1>13. ASSUME NEW t \in Interruptible, Interrupt(t)
      PROVE  AtCeilings'
  <2>1. UNCHANGED <<pc, wants, raise, mx, inherited>>
    BY <1>13 DEF Interrupt
  <2>. QED  BY <1>a, <2>1 DEF SelfRaising
<1>14. CASE UNCHANGED vars
  <2>1. UNCHANGED <<pc, wants, raise, mx, inherited>>
    BY <1>14 DEF vars
  <2>. QED  BY <1>a, <2>1 DEF SelfRaising
<1>. QED
  BY <1>1, <1>2, <1>3, <1>4, <1>5, <1>6, <1>7, <1>8, <1>9, <1>10, <1>11,
     <1>12, <1>13, <1>14, NextSteps
  DEF Inv, Typed
-----------------------------------------------------------------------------

\* What a thread inherits ends with the boosted mutexes it owns.
LEMMA BoostedStep ==
  ASSUME Inv, Peace, Regular, [Next]_vars
  PROVE  Boosted'
<1>0. /\ Killable \subseteq Threads /\ NoThread \notin Threads
      /\ Interruptible \subseteq Threads /\ inherited \in [Threads -> Nat]
      /\ mx \in [Mutexes -> MutexRecord]
  BY Types, RolesAssumption DEF Inv, Typed
<1>. DEFINE Owes(u) ==
       inherited[u] # 0 =>
         \E n \in Mutexes : mx[n].owner = u /\ mx[n].boosted # 0
<1>a. /\ \A u \in Threads \ Raisable : Owes(u)
      /\ (\A u \in Threads \ Raisable : Owes(u)') => Boosted'
  BY DEF Peace, Boosted, Owned, Raisable, Users
<1>b. ASSUME inherited' = inherited,
             \A n \in Mutexes : \A u \in Threads :
               mx[n].owner = u => mx'[n].owner = u
                                  /\ (mx[n].boosted # 0 => mx'[n].boosted # 0)
      PROVE  Boosted'
  BY <1>a, <1>b
<1>1. ASSUME NEW t \in Threads, NEW m \in Mutexes,
             NEW site \in {"try", "lock", "timed", "loop"},
             Attempting(t, m, site), Acquire(t, m),
             UNCHANGED <<assigned, inherited, interrupted>>
      PROVE  Boosted'
  <2>1. Ceiling[m] # 0 /\ inherited' = inherited
    BY <1>1, AttributesAssumption
  <2>. QED  BY <1>0, <1>b, <1>1, <2>1, AcquireEffect
<1>2. ASSUME NEW t \in Threads, NEW m \in Mutexes,
             NEW site \in {"try", "lock", "timed", "loop"},
             Attempting(t, m, site), Relock(t, m),
             UNCHANGED <<assigned, inherited, interrupted>>
      PROVE  Boosted'
  BY <1>b, <1>2, RelockEffect DEF SameMutexes
<1>3. ASSUME NEW t \in Threads, NEW m \in Mutexes,
             NEW site \in {"try", "lock", "timed", "loop"},
             Attempting(t, m, site), Contend(t, m, site),
             UNCHANGED <<assigned, inherited, interrupted>>
      PROVE  Boosted'
  <2>1. Priority[t] # 0
    BY Priorities DEF Inv
  <2>. QED  BY <1>b, <1>3, <2>1, ContendEffect
<1>4. ASSUME NEW t \in Threads,
             \/ ReadOwner(t) \/ ReadBoost(t) \/ LinkAfterRaise(t)
             \/ UnlinkNode(t) \/ Retry(t) \/ GiveUp(t) \/ WalkList(t)
      PROVE  Boosted'
  <2>1. UNCHANGED <<mx, inherited>>
    BY <1>4, ReadOwnerEffect, ReadBoostEffect, InsideEffects DEF Still
  <2>. QED  BY <1>b, <2>1
<1>5. ASSUME NEW t \in Threads, StorePriority(t)
      PROVE  Boosted'
  <2>. DEFINE o == raise[t].owner
  <2>1. /\ pc[t] = "store" /\ wants[t] \in Mutexes
        /\ o \in Threads /\ o \in Users[wants[t]] /\ mx' = mx
        /\ raise[t].site = "restore" => inherited' = inherited
        /\ \A u \in Threads \ {o} : inherited'[u] = inherited[u]
    BY <1>5, StoreEffect
  <2>2. CASE SelfRaising(t)
    <3>1. o = t /\ mx[wants[t]].owner = t /\ mx[wants[t]].boosted # 0
      BY <2>1, <2>2 DEF Peace, SelfRaised
    <3>. QED  BY <1>a, <2>1, <3>1
  <2>3. CASE ~ SelfRaising(t) /\ raise[t].site # "restore"
    <3>1. Protocol[wants[t]] = "inherit"
      BY <2>1, <2>3 DEF Peace, Asking, SelfRaising, Raising
    <3>2. o \in Raisable
      BY <2>1, <3>1 DEF Raisable
    <3>. QED  BY <1>a, <2>1, <3>2
  <2>4. CASE raise[t].site = "restore"
    BY <1>b, <2>1, <2>4
  <2>. QED  BY <2>2, <2>3, <2>4
<1>6. ASSUME NEW t \in Threads, RestoreBoost(t)
      PROVE  Boosted'
  <2>1. pc[t] = "restore"
    BY <1>6, InsideEffects
  <2>2. raise[t].prio # 0
    BY <2>1 DEF Peace, Restoring
  <2>. QED  BY <1>b, <1>6, <2>2, InsideEffects
<1>7. ASSUME NEW t \in Threads, NEW m \in Mutexes, Unlock(t, m)
      PROVE  Boosted'
  <2>. DEFINE others == Owned(t) \ {m}
  <2>1. CASE UNCHANGED inherited /\ \A n \in Mutexes :
               mx'[n].owner = mx[n].owner /\ mx'[n].boosted = mx[n].boosted
    BY <1>b, <2>1
  <2>2. CASE /\ others \in SUBSET Mutexes
             /\ mx'[m].owner = NoThread /\ mx'[m].boosted = BoostLeft(m, others)
             /\ \A n \in Mutexes \ {m} : mx'[n] = mx[n]
             /\ inherited' = IF mx[m].boosted = 0 THEN inherited
                             ELSE [inherited EXCEPT ![t] = BoostLeft(m, others)]
    <3>1. mx[m].owner = t
      BY <1>7 DEF Unlock
    <3>2. CASE mx[m].boosted = 0
      <4>1. inherited' = inherited
        BY <2>2, <3>2
      <4>2. ASSUME NEW u \in Threads \ Raisable, inherited[u] # 0
            PROVE  \E n \in Mutexes : mx'[n].owner = u /\ mx'[n].boosted # 0
        <5>1. PICK n \in Mutexes : mx[n].owner = u /\ mx[n].boosted # 0
          BY <1>a, <4>2
        <5>2. mx'[n] = mx[n]
          BY <2>2, <3>2, <5>1
        <5>. QED  BY <5>1, <5>2
      <4>. QED  BY <1>a, <4>1, <4>2
    <3>3. CASE mx[m].boosted # 0
      <4>1. inherited' = [inherited EXCEPT ![t] = BoostLeft(m, others)]
        BY <2>2, <3>3
      <4>2. ASSUME NEW u \in Threads \ Raisable, u # t, inherited'[u] # 0
            PROVE  \E n \in Mutexes : mx'[n].owner = u /\ mx'[n].boosted # 0
        <5>1. PICK n \in Mutexes : mx[n].owner = u /\ mx[n].boosted # 0
          BY <1>0, <1>a, <4>1, <4>2
        <5>2. mx'[n] = mx[n]
          BY <2>2, <3>1, <4>2, <5>1
        <5>. QED  BY <5>1, <5>2
      <4>3. ASSUME inherited'[t] # 0
            PROVE  \E n \in Mutexes : mx'[n].owner = t /\ mx'[n].boosted # 0
        <5>1. BoostLeft(m, others) # 0
          BY <1>0, <4>1, <4>3
        <5>2. PICK n \in others : BoostLeft(m, others) = mx[n].boosted
          <6>. HIDE DEF others
          <6>. QED  BY <2>2, <5>1, BoostLeftType DEF Inv, Typed
        <5>3. n \in Mutexes \ {m} /\ mx[n].owner = t
          BY <5>2 DEF Owned
        <5>. QED  BY <2>2, <5>1, <5>2, <5>3
      <4>. QED  BY <1>a, <4>2, <4>3
    <3>. QED  BY <3>2, <3>3
  <2>. QED  BY <1>7, <2>1, <2>2, UnlockEffect
<1>8. ASSUME NEW t \in Threads, NEW m \in Mutexes, Consistent(t, m)
      PROVE  Boosted'
  BY <1>b, <1>8, ConsistentEffect DEF Consistent, SameMutexes
<1>9. ASSUME NEW t \in Threads, NEW m \in Mutexes, Reset(t, m)
      PROVE  Boosted'
  <2>1. /\ mx[m].owner = NoThread /\ inherited' = inherited
        /\ \A n \in Mutexes \ {m} : mx'[n] = mx[n]
    BY <1>9, ResetEffect DEF Reset
  <2>. QED  BY <1>0, <1>b, <2>1
<1>10. ASSUME NEW by \in Threads, NEW t \in Killable, Kill(by, t)
      PROVE  Boosted'
  <2>1. /\ t \in Threads
        /\ \A n \in Mutexes \ Owned(t) : mx'[n] = mx[n]
        /\ \/ inherited' = [inherited EXCEPT ![t] = 0]
           \/ inherited' = inherited /\ \A n \in Owned(t) : mx[n].boosted = 0
    BY <1>10, KillEffect
  <2>2. ASSUME NEW u \in Threads \ Raisable, inherited'[u] # 0
        PROVE  \E n \in Mutexes : mx'[n].owner = u /\ mx'[n].boosted # 0
    <3>1. inherited[u] # 0
      BY <1>0, <2>1, <2>2
    <3>2. PICK n \in Mutexes : mx[n].owner = u /\ mx[n].boosted # 0
      BY <1>a, <2>2, <3>1
    <3>3. n \notin Owned(t)
      <4>1. CASE u = t
        BY <1>0, <2>1, <2>2, <3>2, <4>1 DEF Owned
      <4>2. CASE u # t
        BY <3>2, <4>2 DEF Owned
      <4>. QED  BY <4>1, <4>2
    <3>. QED  BY <2>1, <3>2, <3>3
  <2>. QED  BY <1>a, <2>2
<1>11. ASSUME NEW t \in Threads,
             \/ Wake(t) \/ Expire(t)
      PROVE  Boosted'
  <2>1. UNCHANGED <<mx, inherited>>
    BY <1>11 DEF Wake, Expire
  <2>. QED  BY <1>b, <2>1
<1>12. ASSUME NEW t \in Interruptible, Interrupt(t)
      PROVE  Boosted'
  <2>1. UNCHANGED <<mx, inherited>>
    BY <1>12 DEF Interrupt
  <2>. QED  BY <1>b, <2>1
<1>13. CASE UNCHANGED vars
  <2>1. UNCHANGED <<mx, inherited>>
    BY <1>13 DEF vars
  <2>. QED  BY <1>b, <2>1
<1>. QED
  BY <1>1, <1>2, <1>3, <1>4, <1>5, <1>6, <1>7, <1>8, <1>9, <1>10, <1>11,
     <1>12, <1>13, NextSteps
  DEF Inv, Typed

\* A list of a free mutex has somebody awake to take it: whoever unlocks resumes
\* the head, and nobody leaves the call instead.
LEMMA WaitedStep ==
  ASSUME Inv, Peace, Regular, [Next]_vars
  PROVE  Waited'
<1>0. /\ Calling /\ Killable \subseteq Threads /\ NoThread \notin Threads
      /\ Interruptible \subseteq Threads /\ suspended \subseteq Threads
      /\ waiters \in [Mutexes -> Seq(Threads)]
  BY Types, RolesAssumption DEF Inv, Typed
<1>a. /\ \A m \in Plain : m \in Mutexes /\ Protocol[m] # "inherit"
                          /\ (mx[m].owner = NoThread /\ waiters[m] # <<>> =>
                                ~ Pair(m) /\ OnTheWay(m) # {})
      /\ \A m \in Mutexes : Pair(m)' <=> Pair(m)
      /\ Plain' = Plain
  BY DEF Plain, Peace, Waited, Pair, TimedUsers, Users
<1>. DEFINE Coming(u, m) ==
       /\ wants[u] = m
       /\ \/ pc[u] \in {"loop", "woken"}
          \/ pc[u] \in Raising /\ raise[u].site \in {"lock", "timed"}
          \/ pc[u] = "asleep" /\ u \notin suspended
     Heard(m) == mx[m].owner = NoThread /\ waiters[m] # <<>> =>
                   ~ Pair(m) /\ \E u \in Threads : Coming(u, m)
<1>b. /\ \A m \in Plain : Heard(m)
      /\ (\A m \in Plain : Heard(m)') => Waited'
  BY <1>a DEF Waited, OnTheWay, Raising
<1>c. ASSUME NEW m \in Plain,
             mx'[m].owner = NoThread /\ waiters'[m] # <<>> =>
               /\ mx[m].owner = NoThread /\ waiters[m] # <<>>
               /\ \A u \in Threads : Coming(u, m) => Coming(u, m)'
      PROVE  Heard(m)'
  BY <1>a, <1>b, <1>c
<1>d. ASSUME NEW t \in Threads, Others(t), NEW m,
             suspended' \subseteq suspended \union {t}
      PROVE  \A u \in Threads \ {t} : Coming(u, m) => Coming(u, m)'
  BY <1>d DEF Others, Raising
<1>e. ASSUME NEW m \in Plain, NEW u \in ToSet(waiters[m]),
             NEW v \in ToSet(waiters[m]), u # v
      PROVE  ~ Pair(m)
  <2>1. u \in Threads /\ v \in Threads
    BY <1>0, <1>a, ListFinite
  <2>2. InCall(u) /\ InCall(v) /\ wants[u] = m /\ wants[v] = m
    BY <1>a DEF Peace, Queued, InCall, SelfRaising, Raising
  <2>. QED  BY <1>e, <2>1, <2>2 DEF Peace, OneAsks
<1>f. ASSUME NEW m \in Mutexes, NEW u \in ToSet(waiters[m])
      PROVE  u \in Threads /\ pc[u] = "asleep" /\ wants[u] = m
  BY <1>0, <1>f, ListFinite DEF Peace, Queued
<1>g. ASSUME UNCHANGED <<pc, wants, raise, mx, waiters>>,
             suspended' \subseteq suspended
      PROVE  Waited'
  <2>1. \A m \in Plain : Heard(m)'
    BY <1>c, <1>g DEF Raising
  <2>. QED  BY <1>b, <2>1
<1>1. ASSUME NEW t \in Threads, NEW m \in Mutexes,
             NEW site \in {"try", "lock", "timed", "loop"},
             Attempting(t, m, site), Acquire(t, m) \/ Relock(t, m),
             UNCHANGED <<assigned, inherited, interrupted>>
      PROVE  Waited'
  <2>1. /\ \A n \in Mutexes \ {m} : mx'[n].owner = mx[n].owner
        /\ mx'[m].owner = t /\ SameLists
        /\ Starts(t, m, "self") \/ Ends(t)
    BY <1>1, AcquireEffect, RelockEffect DEF SameMutexes
  <2>2. pc[t] = "app" \/ (pc[t] = "loop" /\ wants[t] = m)
    BY <1>1 DEF Attempting
  <2>3. Others(t)
    BY <2>1 DEF Starts, Ends
  <2>4. ASSUME NEW n \in Plain
        PROVE  Heard(n)'
    <3>1. CASE n = m
      BY <1>0, <2>1, <3>1
    <3>2. CASE n # m
      <4>1. ~ Coming(t, n)
        BY <2>2, <3>2 DEF Raising
      <4>. QED  BY <1>a, <1>c, <1>d, <2>1, <2>3, <3>2, <4>1 DEF SameLists
    <3>. QED  BY <3>1, <3>2
  <2>. QED  BY <1>b, <2>4
<1>2. ASSUME NEW t \in Threads, NEW m \in Mutexes,
             NEW site \in {"try", "lock", "timed", "loop"},
             Attempting(t, m, site), Contend(t, m, site),
             UNCHANGED <<assigned, inherited, interrupted>>
      PROVE  Waited'
  <2>1. /\ \A n \in Mutexes : mx'[n].owner = mx[n].owner
        /\ mx[m].owner # NoThread
        /\ \A n \in Mutexes \ {m} : waiters'[n] = waiters[n]
        /\ suspended' \subseteq suspended \union {t} /\ Others(t)
    BY <1>2, ContendEffect DEF Starts, Ends, Loops, Links, SameLists
  <2>2. pc[t] = "app" \/ (pc[t] = "loop" /\ wants[t] = m)
    BY <1>2 DEF Attempting
  <2>3. ASSUME NEW n \in Plain
        PROVE  Heard(n)'
    <3>1. CASE n = m
      BY <1>a, <2>1, <3>1
    <3>2. CASE n # m
      <4>1. ~ Coming(t, n)
        BY <2>2, <3>2 DEF Raising
      <4>. QED  BY <1>a, <1>c, <1>d, <2>1, <3>2, <4>1
    <3>. QED  BY <3>1, <3>2
  <2>. QED  BY <1>b, <2>3
<1>3. ASSUME NEW t \in Threads,
             \/ ReadOwner(t) \/ ReadBoost(t)
      PROVE  Waited'
  <2>1. /\ pc[t] \in Raising /\ pc'[t] \in Raising /\ Still /\ Others(t)
        /\ raise'[t].site = raise[t].site /\ wants'[t] = wants[t]
    BY <1>3, ReadOwnerEffect, ReadBoostEffect DEF Moves, Raising
  <2>2. ASSUME NEW n \in Plain
        PROVE  Heard(n)'
    <3>1. Coming(t, n) => Coming(t, n)'
      BY <2>1 DEF Raising
    <3>. QED  BY <1>a, <1>c, <1>d, <2>1, <3>1 DEF Still
  <2>. QED  BY <1>b, <2>2
<1>4. ASSUME NEW t \in Threads, StorePriority(t)
      PROVE  Waited'
  <2>1. /\ pc[t] = "store" /\ UNCHANGED <<mx, waiters, suspended>>
        /\ \/ raise[t].site \in {"try", "self", "restore"} /\ Ends(t)
           \/ /\ raise[t].site \in {"lock", "timed"}
              /\ Loops(t, wants[t], raise[t].site)
           \/ raise[t].site = "loop" /\ Moves(t, "link")
    BY <1>4, StoreEffect
  <2>2. Others(t)
    BY <2>1 DEF Ends, Loops, Moves
  <2>3. ASSUME NEW n \in Plain
        PROVE  Heard(n)'
    <3>1. Coming(t, n) => Coming(t, n)'
      BY <2>1 DEF Loops, Raising
    <3>. QED  BY <1>a, <1>c, <1>d, <2>1, <2>2, <3>1
  <2>. QED  BY <1>b, <2>3
<1>5. ASSUME NEW t \in Threads, LinkAfterRaise(t)
      PROVE  Waited'
  <2>1. pc[t] = "link" /\ Links(t, wants[t]) /\ mx' = mx /\ Others(t)
    BY <1>5, InsideEffects DEF Links
  <2>2. Protocol[wants[t]] = "inherit"
    BY <2>1 DEF Peace, Asking
  <2>3. ASSUME NEW n \in Plain
        PROVE  Heard(n)'
    <3>1. n # wants[t] /\ n \in Mutexes
      BY <1>a, <2>2
    <3>2. waiters'[n] = waiters[n] /\ suspended' \subseteq suspended \union {t}
      BY <2>1, <3>1 DEF Links
    <3>. QED  BY <1>c, <1>d, <2>1, <3>1, <3>2
  <2>. QED  BY <1>b, <2>3
<1>6. ASSUME NEW t \in Threads, UnlinkNode(t)
      PROVE  Waited'
  <2>1. /\ pc[t] = "asleep" /\ t \notin suspended /\ Moves(t, "woken")
        /\ waiters'[wants[t]] = Unlink(waiters[wants[t]], t)
        /\ \A n \in Mutexes \ {wants[t]} : waiters'[n] = waiters[n]
        /\ UNCHANGED <<mx, suspended>>
    BY <1>6, InsideEffects
  <2>2. Others(t) /\ pc'[t] = "woken" /\ wants'[t] = wants[t]
    BY <2>1 DEF Moves
  <2>3. ASSUME NEW n \in Plain
        PROVE  Heard(n)'
    <3>1. n \in Mutexes
      BY <1>a
    <3>2. waiters'[n] # <<>> => waiters[n] # <<>>
      <4>1. CASE n = wants[t]
        <5>1. waiters[n] = <<>> => Unlink(waiters[n], t) = <<>>
          BY DEF Unlink, ToSet
        <5>. QED  BY <2>1, <4>1, <5>1
      <4>2. CASE n # wants[t]
        BY <2>1, <3>1, <4>2
      <4>. QED  BY <4>1, <4>2
    <3>3. Coming(t, n) => Coming(t, n)'
      BY <2>2
    <3>. QED  BY <1>c, <1>d, <2>1, <2>2, <3>1, <3>2, <3>3
  <2>. QED  BY <1>b, <2>3
<1>7. ASSUME NEW t \in Threads, Retry(t)
      PROVE  Waited'
  <2>1. pc[t] = "woken" /\ Moves(t, "loop") /\ Still
    BY <1>7, InsideEffects
  <2>2. ASSUME NEW n \in Plain
        PROVE  Heard(n)'
    <3>1. Coming(t, n) => Coming(t, n)'
      BY <2>1 DEF Moves
    <3>. QED  BY <1>a, <1>c, <1>d, <2>1, <3>1 DEF Still, Moves
  <2>. QED  BY <1>b, <2>2
<1>8. ASSUME NEW t \in Threads, GiveUp(t)
      PROVE  Waited'
  <2>1. pc[t] = "woken" /\ GivesUp(t) /\ Still /\ (Ends(t) \/ Moves(t, "walk"))
    BY <1>8, InsideEffects
  <2>2. wants[t] \in Mutexes /\ t \in Users[wants[t]]
    BY <1>0, <2>1 DEF Calling
  <2>3. t \in Interruptible \/ t \in TimedUsers(wants[t])
    BY <2>1 DEF GivesUp, Peace, Patience
  <2>4. wants[t] \in Plain => Pair(wants[t])
    BY <2>2, <2>3 DEF Plain
  <2>5. ASSUME NEW n \in Plain
        PROVE  Heard(n)'
    <3>1. CASE n = wants[t]
      BY <1>a, <2>1, <2>4, <3>1 DEF Still
    <3>2. CASE n # wants[t]
      BY <1>a, <1>c, <1>d, <2>1, <3>2 DEF Still, Ends, Moves
    <3>. QED  BY <3>1, <3>2
  <2>. QED  BY <1>b, <2>5
<1>9. ASSUME NEW t \in Threads,
             \/ WalkList(t) \/ RestoreBoost(t)
      PROVE  Waited'
  <2>1. /\ pc[t] \in {"walk", "restore"} /\ Others(t)
        /\ UNCHANGED <<waiters, suspended>>
        /\ \A n \in Mutexes : mx'[n].owner = mx[n].owner
    BY <1>9, InsideEffects DEF Ends, Moves, Starts, Still, SameLists
  <2>2. ASSUME NEW n \in Plain
        PROVE  Heard(n)'
    <3>1. ~ Coming(t, n)
      BY <2>1 DEF Raising
    <3>. QED  BY <1>a, <1>c, <1>d, <2>1, <3>1
  <2>. QED  BY <1>b, <2>2
<1>10. ASSUME NEW t \in Threads, NEW m \in Mutexes, Unlock(t, m)
      PROVE  Waited'
  <2>0. UNCHANGED <<pc, wants, raise>> /\ mx[m].owner = t
    BY <1>10 DEF Unlock
  <2>1. CASE /\ \A n \in Mutexes : mx'[n].owner = mx[n].owner
             /\ UNCHANGED <<waiters, suspended>>
    <3>1. \A n \in Plain : Heard(n)'
      BY <1>a, <1>c, <2>0, <2>1 DEF Raising
    <3>. QED  BY <1>b, <3>1
  <2>2. CASE /\ \A n \in Mutexes \ {m} : mx'[n] = mx[n]
             /\ waiters' = [waiters EXCEPT ![m] = Popped(@)]
             /\ suspended' = IF waiters[m] = <<>> THEN suspended
                             ELSE suspended \ {Head(waiters[m])}
    <3>1. ASSUME NEW n \in Plain, n # m
          PROVE  Heard(n)'
      <4>1. mx'[n] = mx[n] /\ waiters'[n] = waiters[n]
            /\ suspended' \subseteq suspended
        BY <1>0, <1>a, <2>2, <3>1
      <4>. QED  BY <1>c, <2>0, <4>1 DEF Raising
    <3>2. ASSUME m \in Plain, waiters'[m] # <<>>
          PROVE  Heard(m)'
      <4>1. /\ waiters[m] \in Seq(Threads) /\ waiters[m] # <<>>
            /\ NoDuplicates(waiters[m])
            /\ waiters'[m] = Popped(waiters[m])
        BY <1>0, <2>2, <3>2 DEF Popped, Peace, Queued
      <4>0. /\ Head(waiters[m]) \in ToSet(waiters[m])
            /\ Popped(waiters[m]) \in Seq(Threads)
            /\ ToSet(Popped(waiters[m])) =
                 ToSet(waiters[m]) \ {Head(waiters[m])}
        BY <4>1, PoppedElements
      <4>2. PICK h \in ToSet(waiters[m]) :
              /\ h = Head(waiters[m])
              /\ ToSet(Popped(waiters[m])) = ToSet(waiters[m]) \ {h}
        BY <4>0
      <4>3. PICK v \in ToSet(Popped(waiters[m])) : v \in Threads
        BY <3>2, <4>0, <4>1, NonEmptyList
      <4>4. ~ Pair(m)
        BY <1>e, <3>2, <4>2, <4>3
      <4>5. h \in Threads /\ pc[h] = "asleep" /\ wants[h] = m
        BY <1>f, <4>2
      <4>6. h \notin suspended'
        BY <2>2, <4>1, <4>2
      <4>7. Coming(h, m)'
        BY <2>0, <4>5, <4>6
      <4>. QED  BY <1>a, <3>2, <4>4, <4>5, <4>7
    <3>. QED  BY <1>b, <3>1, <3>2
  <2>. QED  BY <1>10, <2>1, <2>2, UnlockEffect
<1>11. ASSUME NEW t \in Threads, NEW m \in Mutexes, Consistent(t, m)
      PROVE  Waited'
  <2>1. UNCHANGED <<pc, wants, raise, waiters, suspended>> /\ SameMutexes
    BY <1>11, ConsistentEffect DEF Consistent
  <2>2. \A n \in Plain : Heard(n)'
    BY <1>a, <1>c, <2>1 DEF SameMutexes, Raising
  <2>. QED  BY <1>b, <2>2
<1>12. ASSUME NEW t \in Threads, NEW m \in Mutexes, Reset(t, m)
      PROVE  Waited'
  <2>1. /\ UNCHANGED <<pc, wants, raise>> /\ suspended' \subseteq suspended
        /\ waiters' = [waiters EXCEPT ![m] = <<>>]
        /\ \A n \in Mutexes \ {m} : mx'[n] = mx[n]
    BY <1>12, ResetEffect DEF Reset
  <2>2. ASSUME NEW n \in Plain
        PROVE  Heard(n)'
    <3>1. waiters'[n] # <<>> => n # m /\ waiters'[n] = waiters[n]
      BY <1>0, <1>a, <2>1
    <3>. QED  BY <1>a, <1>c, <2>1, <3>1 DEF Raising
  <2>. QED  BY <1>b, <2>2
<1>13. ASSUME NEW by \in Threads, NEW t \in Killable, Kill(by, t)
      PROVE  Waited'
  <2>1. /\ t \in Threads /\ Others(t)
        /\ \A n \in Mutexes \ Owned(t) : mx'[n] = mx[n]
    BY <1>13, KillFrees DEF Others
  <2>2. Queued
    BY DEF Peace
  <2>3. suspended' \subseteq suspended
    BY <1>13, <2>2, KillLists
  <2>4. ASSUME NEW n \in Plain, waiters'[n] # <<>>, mx'[n].owner = NoThread
        PROVE  ~ Pair(n) /\ \E u \in Threads : Coming(u, n)'
    <3>. DEFINE left == Unlink(waiters[n], t)
    <3>0. n \in Mutexes
      BY <1>a
    <3>1. /\ left \in Seq(Threads) /\ NoDuplicates(left)
          /\ ToSet(left) = ToSet(waiters[n]) \ {t}
          /\ waiters'[n] = IF n \in Owned(t) THEN Popped(left) ELSE left
          /\ n \in Owned(t) /\ left # <<>> => Head(left) \notin suspended'
      BY <1>13, <2>2, <3>0, KillLists
    <3>. HIDE DEF left
    <3>2. CASE n \in Owned(t)
      <4>1. waiters'[n] = Popped(left) /\ left # <<>>
        BY <2>4, <3>1, <3>2 DEF Popped
      <4>0. /\ Head(left) \in ToSet(left) /\ Popped(left) \in Seq(Threads)
            /\ ToSet(Popped(left)) = ToSet(left) \ {Head(left)}
        BY <3>1, <4>1, PoppedElements
      <4>2. PICK h \in ToSet(left) :
              h = Head(left) /\ ToSet(Popped(left)) = ToSet(left) \ {h}
        BY <4>0
      <4>3. PICK v \in ToSet(Popped(left)) : v \in Threads
        BY <2>4, <4>0, <4>1, NonEmptyList
      <4>4. h \in ToSet(waiters[n]) /\ v \in ToSet(waiters[n]) /\ v # h /\ h # t
        BY <3>1, <4>2, <4>3
      <4>5. ~ Pair(n)
        BY <1>e, <4>4
      <4>6. h \in Threads /\ pc[h] = "asleep" /\ wants[h] = n
        BY <1>f, <3>0, <4>4
      <4>7. h \notin suspended'
        BY <3>1, <3>2, <4>1, <4>2
      <4>8. Coming(h, n)'
        BY <2>1, <4>4, <4>6, <4>7 DEF Others
      <4>. QED  BY <4>5, <4>6, <4>8
    <3>3. CASE n \notin Owned(t)
      <4>1. waiters'[n] = left /\ mx[n].owner = NoThread
        BY <2>1, <2>4, <3>0, <3>1, <3>3
      <4>2. waiters[n] # <<>>
        <5>1. PICK v \in ToSet(left) : v \in Threads
          BY <2>4, <3>1, <4>1, NonEmptyList
        <5>2. v \in ToSet(waiters[n])
          BY <3>1, <5>1
        <5>3. ToSet(<<>>) = {}
          BY DEF ToSet
        <5>. QED  BY <5>2, <5>3
      <4>3. ~ Pair(n) /\ \E u \in Threads : Coming(u, n)
        BY <1>b, <4>1, <4>2
      <4>4. PICK u \in Threads : Coming(u, n)
        BY <4>3
      <4>5. u # t
        <5>1. u \in Users[n]
          BY <1>0, <4>4 DEF Calling, Raising
        <5>2. t \notin Users[n]
          BY <2>4, <4>3 DEF Plain
        <5>. QED  BY <5>1, <5>2
      <4>6. Coming(u, n)'
        BY <1>d, <2>1, <2>3, <4>4, <4>5
      <4>. QED  BY <4>3, <4>6
    <3>. QED  BY <3>2, <3>3
  <2>5. \A n \in Plain : Heard(n)'
    BY <1>a, <2>4
  <2>. QED  BY <1>b, <2>5
<1>14. ASSUME NEW t \in Threads,
             \/ Wake(t) \/ Expire(t)
      PROVE  Waited'
  BY <1>14, <1>g DEF Wake, Expire
<1>15. ASSUME NEW t \in Interruptible, Interrupt(t)
      PROVE  Waited'
  BY <1>15, <1>g DEF Interrupt
<1>16. CASE UNCHANGED vars
  BY <1>16, <1>g DEF vars
<1>. QED
  BY <1>1, <1>2, <1>3, <1>4, <1>5, <1>6, <1>7, <1>8, <1>9, <1>10, <1>11,
     <1>12, <1>13, <1>14, <1>15, <1>16, NextSteps
  DEF Inv, Typed
-----------------------------------------------------------------------------
\* All of it holds initially,
LEMMA InitPeace ==
  ASSUME Init
  PROVE  Peace
<1>1. /\ \A m \in Mutexes : /\ mx[m].owner = NoThread /\ mx[m].boosted = 0
                            /\ waiters[m] = <<>>
      /\ \A t \in Threads : /\ pc[t] \in {"app", "gone"} /\ inherited[t] = 0
                            /\ patience[t] = "endless"
      /\ interrupted = {}
  BY DEF Init, Fresh
<1>2. ToSet(<<>>) = {} /\ NoDuplicates(<<>>)
  BY DEF ToSet, NoDuplicates
<1>3. \A t \in Threads : ~ InCall(t) /\ ~ SelfRaising(t) /\ pc[t] \notin Raising
  BY <1>1 DEF InCall, SelfRaising, Raising
<1>4. Queued /\ Asking /\ Patience /\ OneAsks /\ Restoring
  BY <1>1, <1>2, <1>3 DEF Queued, Asking, Patience, OneAsks, Restoring
<1>5. Unboosted /\ SelfRaised /\ AtCeilings /\ Boosted
  BY <1>1, <1>3 DEF Unboosted, SelfRaised, AtCeilings, Boosted
<1>6. Waited
  BY <1>1 DEF Waited, Plain
<1>. QED  BY <1>4, <1>5, <1>6 DEF Peace

\* and is inductive.
LEMMA SpecPeace ==
  ASSUME Regular
  PROVE  Spec => [](Inv /\ Peace)
<1>1. Init => Inv /\ Peace
  BY InitInv, InitPeace
<1>2. Inv /\ Peace /\ [Next]_vars => Inv' /\ Peace'
  <2>1. ASSUME Inv, Peace, [Next]_vars
        PROVE  Inv' /\ Peace'
    <3>1. Inv'
      BY <2>1, InvStep
    <3>2. Queued' /\ Asking' /\ Patience' /\ OneAsks' /\ Restoring' /\ Unboosted'
      BY <2>1, QueuedStep, AskingStep, PatienceStep, OneAsksStep, RestoringStep,
         UnboostedStep
    <3>3. SelfRaised' /\ AtCeilings' /\ Boosted' /\ Waited'
      BY <2>1, SelfRaisedStep, AtCeilingsStep, BoostedStep, WaitedStep
    <3>. QED  BY <3>1, <3>2, <3>3 DEF Peace
  <2>. QED  BY <2>1
<1>. QED  BY <1>1, <1>2, PTL DEF Spec

\* A plain mutex that is freed while threads queue for it is taken again:
\* whoever unlocked it, was killed with it, gave up or was interrupted, one of
\* its callers is awake.
THEOREM PlainMutexTaken ==
  ASSUME Regular
  PROVE  Spec => []PlainMutexIsTaken
<1>1. Inv /\ Peace => PlainMutexIsTaken
  BY DEF Peace, Waited, PlainMutexIsTaken
<1>. QED  BY <1>1, SpecPeace, PTL

\* Past the raise in its lock() the owner of a protect mutex is at the ceiling,
\* whichever other mutexes it locks and unlocks meanwhile, in whatever order.
THEOREM OwnersAtCeiling ==
  ASSUME Regular
  PROVE  Spec => []OwnerAtCeiling
<1>1. ASSUME Inv, Peace, NEW m \in Mutexes \ Lowerable,
             Protocol[m] = "protect",
             mx[m].owner # NoThread, mx[m].owner \notin Raisable,
             ~ SelfRaising(mx[m].owner)
      PROVE  Priority[mx[m].owner] >= Ceiling[m]
  <2>. DEFINE o == mx[m].owner
  <2>1. /\ o \in Threads /\ Ceiling[m] \in Nat
        /\ inherited \in [Threads -> Nat] /\ assigned \in [Threads -> Nat]
    BY <1>1, OwnerCounts, AttributesAssumption, Types DEF Inv
  <2>2. inherited[o] >= Ceiling[m]
    BY <1>1 DEF Peace, AtCeilings
  <2>3. Priority[o] >= inherited[o] /\ Priority[o] \in Nat
    BY <2>1 DEF Priority
  <2>. QED  BY <2>1, <2>2, <2>3
<1>2. Inv /\ Peace => OwnerAtCeiling
  BY <1>1 DEF OwnerAtCeiling, SelfRaising
<1>. QED  BY <1>2, SpecPeace, PTL

\* Whatever a thread inherits from the ceilings of its mutexes is gone when it
\* has unlocked the last of them, whichever it unlocks first.
THEOREM CeilingsEnd ==
  ASSUME Regular
  PROVE  Spec => []CeilingEnds
<1>1. ASSUME Inv, Peace, NEW t \in Threads \ Raisable, acquired[t] = 0
      PROVE  inherited[t] = 0
  <2>1. Cardinality(Owned(t)) = 0
    BY <1>1 DEF Inv, Exact
  <2>2. IsFiniteSet(Owned(t))
    BY NamesAssumption, FS_Subset DEF Owned
  <2>3. Owned(t) = {}
    BY <2>1, <2>2, FS_EmptySet
  <2>. QED  BY <1>1, <2>3 DEF Peace, Boosted
<1>2. Inv /\ Peace => CeilingEnds
  BY <1>1 DEF CeilingEnds
<1>. QED  BY <1>2, SpecPeace, PTL
-----------------------------------------------------------------------------
\* The two users of a mutex that stands alone: who waits and who owns it.
LEMMA AloneUsers ==
  ASSUME Inv, Peace, NEW m \in Alone, NEW t \in ToSet(waiters[m]),
         mx[m].owner \notin {t, NoThread}
  PROVE  /\ m \in Mutexes \ Lowerable /\ Protocol[m] = "inherit"
         /\ t \in Threads /\ mx[m].owner \in Threads
         /\ pc[t] = "asleep" /\ wants[t] = m
         /\ Users[m] = {t, mx[m].owner}
         /\ \A n \in Mutexes \ {m} :
              Protocol[n] = "inherit" \/ n \in Lowerable =>
                t \notin Users[n] /\ mx[m].owner \notin Users[n]
<1>1. /\ m \in Mutexes \ Lowerable /\ Protocol[m] = "inherit"
      /\ Cardinality(Users[m]) = 2
      /\ \A n \in Mutexes \ {m} :
           Protocol[n] = "inherit" \/ n \in Lowerable =>
             Users[m] \intersect Users[n] = {}
  BY DEF Alone
<1>2. t \in Threads /\ pc[t] = "asleep" /\ wants[t] = m
  BY <1>1, Types, ListFinite DEF Inv, Peace, Queued
<1>3. t \in Users[m]
  BY <1>2 DEF Inv, Typed, Calling
<1>4. mx[m].owner \in Threads /\ mx[m].owner \in Users[m]
  BY <1>1, OwnerCounts
<1>5. Users[m] = {t, mx[m].owner}
  BY <1>1, <1>3, <1>4, TwoUsers
<1>. QED  BY <1>1, <1>2, <1>4, <1>5

\* Of the two the one that waits stores nothing and nobody stores what it
\* inherits; the other one stores only its own ceiling.
LEMMA AloneStore ==
  ASSUME Inv, Peace, Regular, NEW m \in Alone, NEW t \in ToSet(waiters[m]),
         mx[m].owner \notin {t, NoThread},
         NEW u \in Threads, StorePriority(u)
  PROVE  LET o == mx[m].owner IN
         /\ assigned'[t] = assigned[t] /\ inherited'[t] = inherited[t]
         /\ assigned'[o] = assigned[o]
         /\ \/ inherited'[o] = inherited[o]
            \/ inherited'[o] >= Priority[t]
<1>. DEFINE o == mx[m].owner
            w == raise[u].owner
<1>1. /\ m \in Mutexes \ Lowerable /\ Protocol[m] = "inherit"
      /\ t \in Threads /\ o \in Threads /\ pc[t] = "asleep"
      /\ Users[m] = {t, o}
      /\ \A n \in Mutexes \ {m} :
           Protocol[n] = "inherit" \/ n \in Lowerable =>
             t \notin Users[n] /\ o \notin Users[n]
  BY AloneUsers
<1>2. /\ pc[u] = "store" /\ wants[u] \in Mutexes
      /\ w \in Threads /\ w \in Users[wants[u]]
      /\ IF raise[u].site = "restore"
           THEN UNCHANGED inherited
           ELSE /\ inherited'[w] = raise[u].prio /\ UNCHANGED assigned
      /\ \A v \in Threads \ {w} :
           assigned'[v] = assigned[v] /\ inherited'[v] = inherited[v]
  BY StoreEffect
<1>3. u # t
  BY <1>1, <1>2
<1>4. CASE w \notin {t, o}
  BY <1>1, <1>2, <1>4
<1>5. ASSUME w \in {t, o}, ~ SelfRaising(u)
      PROVE  FALSE
  <2>1. CASE raise[u].site = "restore"
    <3>1. wants[u] \in Lowerable
      BY <1>2, <2>1 DEF Peace, Restoring, Raising
    <3>. QED  BY <1>1, <1>2, <1>5, <3>1
  <2>2. CASE raise[u].site # "restore"
    <3>1. Protocol[wants[u]] = "inherit" /\ mx[wants[u]].owner # u
      BY <1>2, <1>5, <2>2 DEF Peace, Asking, SelfRaising, Raising
    <3>2. wants[u] = m
      BY <1>1, <1>2, <1>5, <3>1
    <3>3. u \in Users[m]
      BY <1>2, <3>2 DEF Inv, Typed, Calling
    <3>. QED  BY <1>1, <1>3, <3>1, <3>2, <3>3
  <2>. QED  BY <2>1, <2>2
<1>6. CASE w \in {t, o} /\ SelfRaising(u)
  <2>1. /\ Protocol[wants[u]] = "protect" /\ w = u
        /\ wants[u] \notin Lowerable => raise[u].prio = Ceiling[wants[u]]
        /\ raise[u].site = "self"
    BY <1>2, <1>6 DEF Peace, SelfRaised, SelfRaising
  <2>2. w = o /\ w # t
    BY <1>3, <1>6, <2>1
  <2>3. wants[u] \notin Lowerable
    BY <1>1, <1>2, <2>1, <2>2
  <2>4. inherited'[o] = Ceiling[wants[u]] /\ UNCHANGED assigned
    BY <1>2, <2>1, <2>2, <2>3
  <2>5. Ceiling[wants[u]] >= Priority[t]
    <3>1. Low(Priority[t])
      BY <1>1, LowValues
    <3>2. Priority[t] \in Nat /\ Ceiling[wants[u]] \in Nat
      BY <1>1, <1>2, Priorities, AttributesAssumption DEF Inv
    <3>. QED  BY <1>2, <2>1, <3>1, <3>2 DEF Low
  <2>. QED  BY <1>1, <1>2, <2>2, <2>4, <2>5
<1>. QED  BY <1>4, <1>5, <1>6

\* What another step leaves of a raise: all of it, unless the owner unlocks.
LEMMA AloneKeeps ==
  ASSUME Inv, NEW m \in Mutexes, NEW t \in Threads, NEW o \in Threads,
         mx[m].owner = o, mx[m].boosted >= Priority[t],
         Priority[o] >= Priority[t],
         mx'[m].boosted = mx[m].boosted,
         assigned'[t] = assigned[t], inherited'[t] = inherited[t],
         assigned'[o] = assigned[o],
         \/ inherited'[o] = inherited[o] \/ inherited'[o] >= Priority[t],
         inherited' \in [Threads -> Nat]
  PROVE  mx'[m].boosted >= Priority'[t] /\ Priority'[o] >= Priority'[t]
<1>1. /\ inherited \in [Threads -> Nat] /\ assigned \in [Threads -> Nat]
  BY Types DEF Inv
<1>2. Priority'[t] = Priority[t]
  BY <1>1 DEF Priority
<1>3. Priority'[o] = Priority[o] \/ Priority'[o] >= inherited'[o]
  BY <1>1 DEF Priority
<1>4. /\ Priority[t] \in Nat /\ Priority'[o] \in Nat
      /\ inherited'[o] \in Nat
  BY <1>1 DEF Priority
<1>. QED  BY <1>1, <1>2, <1>3, <1>4 DEF Priority

\* A raise outlasts every step but the owner's unlock of the mutex, and whatever
\* takes the other one out of the list.
LEMMA BoostLastsStep ==
  ASSUME Inv, Peace, Regular, [Next]_vars,
         NEW k \in Alone, NEW w \in ToSet(waiters[k]), RaisedFor(k, w),
         w \in ToSet(waiters'[k]), mx'[k].owner = mx[k].owner
  PROVE  RaisedFor(k, w)'
<1>0. /\ Killable \subseteq Threads /\ Interruptible \subseteq Threads
      /\ TypeOK /\ Typed' /\ inherited' \in [Threads -> Nat]
  BY TypedStep, RolesAssumption DEF Inv, Typed, TypeOK
<1>t. inherited \in [Threads -> Nat]
  BY Types DEF Inv
<1>i. PICK o \in Threads : o = mx[k].owner
  BY AloneUsers DEF RaisedFor
<1>j. /\ k \in Mutexes \ Lowerable /\ Protocol[k] = "inherit"
      /\ w \in Threads /\ pc[w] = "asleep" /\ o # w /\ o # NoThread
      /\ Users[k] = {w, o} /\ mx'[k].owner = o
      /\ mx[k].boosted >= Priority[w] /\ Priority[o] >= Priority[w]
  BY <1>i, AloneUsers, NamesAssumption DEF RaisedFor
<1>a. ASSUME mx'[k].boosted = mx[k].boosted,
             assigned'[w] = assigned[w], inherited'[w] = inherited[w],
             assigned'[o] = assigned[o],
             inherited'[o] = inherited[o] \/ inherited'[o] >= Priority[w]
      PROVE  RaisedFor(k, w)'
  <2>1. mx'[k].boosted >= Priority'[w] /\ Priority'[o] >= Priority'[w]
    BY <1>0, <1>i, <1>j, <1>a, AloneKeeps
  <2>. QED  BY <1>j, <2>1 DEF RaisedFor
<1>b. ASSUME mx'[k].boosted = mx[k].boosted, UNCHANGED <<assigned, inherited>>
      PROVE  RaisedFor(k, w)'
  BY <1>a, <1>b
<1>1. ASSUME NEW t \in Threads, NEW m \in Mutexes,
             NEW site \in {"try", "lock", "timed", "loop"},
             Attempting(t, m, site), Acquire(t, m),
             UNCHANGED <<assigned, inherited, interrupted>>
      PROVE  RaisedFor(k, w)'
  <2>1. m # k
    BY <1>i, <1>j, <1>1, AcquireEffect
  <2>. QED  BY <1>b, <1>j, <1>1, <2>1, AcquireEffect
<1>2. ASSUME NEW t \in Threads, NEW m \in Mutexes,
             NEW site \in {"try", "lock", "timed", "loop"},
             Attempting(t, m, site), Relock(t, m),
             UNCHANGED <<assigned, inherited, interrupted>>
      PROVE  RaisedFor(k, w)'
  BY <1>b, <1>j, <1>2, RelockEffect DEF SameMutexes
<1>3. ASSUME NEW t \in Threads, NEW m \in Mutexes,
             NEW site \in {"try", "lock", "timed", "loop"},
             Attempting(t, m, site), Contend(t, m, site),
             UNCHANGED <<assigned, inherited, interrupted>>
      PROVE  RaisedFor(k, w)'
  <2>1. CASE m # k
    BY <1>b, <1>j, <1>3, <2>1, ContendEffect
  <2>2. CASE m = k
    <3>1. t \in Users[m] /\ t # w
      BY <1>j, <1>3 DEF Attempting, Inv, Typed, Calling
    <3>2. mx[m].owner = t
      BY <1>i, <1>j, <2>2, <3>1
    <3>. QED  BY <1>b, <1>3, <2>2, <3>2, ContendEffect
  <2>. QED  BY <2>1, <2>2
<1>4. ASSUME NEW t \in Threads,
             \/ ReadOwner(t) \/ ReadBoost(t) \/ LinkAfterRaise(t)
             \/ UnlinkNode(t) \/ Retry(t) \/ GiveUp(t) \/ WalkList(t)
      PROVE  RaisedFor(k, w)'
  <2>1. UNCHANGED <<mx, assigned, inherited>>
    BY <1>4, ReadOwnerEffect, ReadBoostEffect, InsideEffects DEF Still
  <2>. QED  BY <1>b, <2>1
<1>5. ASSUME NEW t \in Threads, StorePriority(t)
      PROVE  RaisedFor(k, w)'
  <2>1. mx' = mx
    BY <1>5, StoreEffect
  <2>2. /\ assigned'[w] = assigned[w] /\ inherited'[w] = inherited[w]
        /\ assigned'[o] = assigned[o]
        /\ inherited'[o] = inherited[o] \/ inherited'[o] >= Priority[w]
    BY <1>i, <1>j, <1>5, AloneStore
  <2>. QED  BY <1>a, <2>1, <2>2
<1>6. ASSUME NEW t \in Threads, RestoreBoost(t)
      PROVE  RaisedFor(k, w)'
  <2>1. wants[t] \in Lowerable
    BY <1>6, InsideEffects DEF Peace, Restoring
  <2>. QED  BY <1>b, <1>j, <1>6, <2>1, InsideEffects
<1>7. ASSUME NEW t \in Threads, NEW m \in Mutexes, Unlock(t, m)
      PROVE  RaisedFor(k, w)'
  <2>. DEFINE others == Owned(t) \ {m}
  <2>1. /\ mx[m].owner = t /\ t # w /\ UNCHANGED assigned
    BY <1>j, <1>7 DEF Unlock, At
  <2>2. CASE UNCHANGED inherited /\ \A n \in Mutexes :
               mx'[n].owner = mx[n].owner /\ mx'[n].boosted = mx[n].boosted
    BY <1>b, <1>j, <2>1, <2>2
  <2>3. CASE /\ others \in SUBSET Mutexes
             /\ mx'[m].owner = NoThread
             /\ \A n \in Mutexes \ {m} : mx'[n] = mx[n]
             /\ inherited' = IF mx[m].boosted = 0 THEN inherited
                             ELSE [inherited EXCEPT ![t] = BoostLeft(m, others)]
    <3>1. k # m /\ mx'[k] = mx[k]
      BY <1>j, <2>3
    <3>2. CASE t # o \/ mx[m].boosted = 0
      <4>1. inherited'[w] = inherited[w] /\ inherited'[o] = inherited[o]
        BY <1>i, <1>j, <2>1, <2>3, <3>2
      <4>. QED  BY <1>a, <2>1, <3>1, <4>1
    <3>3. CASE t = o /\ mx[m].boosted # 0
      <4>1. k \in others
        BY <1>i, <1>j, <2>3, <3>1, <3>3 DEF Owned
      <4>2. BoostLeft(m, others) >= mx[k].boosted
        BY <1>0, <2>3, <3>3, <4>1, BoostLeftBounds
      <4>3. inherited'[o] = BoostLeft(m, others) /\ inherited'[w] = inherited[w]
        BY <1>t, <1>j, <2>1, <2>3, <3>3
      <4>4. /\ inherited'[o] \in Nat /\ Priority[w] \in Nat
            /\ mx[k].boosted \in Nat
        BY <1>0, <1>j, Priorities DEF Inv, Typed, TypeOK
      <4>5. inherited'[o] >= Priority[w]
        BY <1>j, <4>2, <4>3, <4>4
      <4>. QED  BY <1>a, <2>1, <3>1, <4>3, <4>5
    <3>. QED  BY <3>2, <3>3
  <2>. QED  BY <1>7, <2>2, <2>3, UnlockEffect
<1>8. ASSUME NEW t \in Threads, NEW m \in Mutexes, Consistent(t, m)
      PROVE  RaisedFor(k, w)'
  <2>1. UNCHANGED <<assigned, inherited>>
    BY <1>8 DEF Consistent
  <2>. QED  BY <1>b, <1>j, <1>8, <2>1, ConsistentEffect DEF SameMutexes
<1>9. ASSUME NEW t \in Threads, NEW m \in Mutexes, Reset(t, m)
      PROVE  RaisedFor(k, w)'
  <2>1. m # k
    BY <1>i, <1>j, <1>9, ResetEffect
  <2>2. UNCHANGED <<assigned, inherited>>
    BY <1>9 DEF Reset
  <2>. QED  BY <1>b, <1>j, <1>9, <2>1, <2>2, ResetEffect
<1>10. ASSUME NEW by \in Threads, NEW t \in Killable, Kill(by, t)
      PROVE  RaisedFor(k, w)'
  <2>1. Queued
    BY DEF Peace
  <2>2. t # w
    <3>. DEFINE left == Unlink(waiters[k], t)
    <3>1. /\ left \in Seq(Threads) /\ NoDuplicates(left)
          /\ ToSet(left) = ToSet(waiters[k]) \ {t}
          /\ waiters'[k] = Popped(left) \/ waiters'[k] = left
      BY <1>j, <1>10, <2>1, KillLists
    <3>. HIDE DEF left
    <3>2. ToSet(Popped(left)) \subseteq ToSet(left)
      BY <3>1, PoppedElements
    <3>. QED  BY <3>1, <3>2
  <2>3. t # o
    BY <1>i, <1>j, <1>10, KillFrees DEF Owned
  <2>4. k \notin Owned(t)
    BY <1>i, <2>3 DEF Owned
  <2>. QED  BY <1>a, <1>j, <1>10, <2>2, <2>3, <2>4, KillFrees
<1>11. ASSUME NEW t \in Threads,
             \/ Wake(t) \/ Expire(t)
      PROVE  RaisedFor(k, w)'
  <2>1. UNCHANGED <<mx, assigned, inherited>>
    BY <1>11 DEF Wake, Expire
  <2>. QED  BY <1>b, <2>1
<1>12. ASSUME NEW t \in Interruptible, Interrupt(t)
      PROVE  RaisedFor(k, w)'
  <2>1. UNCHANGED <<mx, assigned, inherited>>
    BY <1>12 DEF Interrupt
  <2>. QED  BY <1>b, <2>1
<1>13. CASE UNCHANGED vars
  <2>1. UNCHANGED <<mx, assigned, inherited>>
    BY <1>13 DEF vars
  <2>. QED  BY <1>b, <2>1
<1>. QED
  BY <1>1, <1>2, <1>3, <1>4, <1>5, <1>6, <1>7, <1>8, <1>9, <1>10, <1>11,
     <1>12, <1>13, NextSteps
  DEF Inv, Typed


\* The owner of an inherit mutex that was raised for the thread that waits
\* for it is not lowered by what it locks and unlocks besides.
THEOREM BoostsLast ==
  ASSUME Regular
  PROVE  Spec => BoostLasts
<1>. DEFINE Stays ==
       \A m \in Alone : \A t \in ToSet(waiters[m]) :
         RaisedFor(m, t) => \/ RaisedFor(m, t)'
                            \/ t \notin ToSet(waiters'[m])
                            \/ mx'[m].owner # mx[m].owner
<1>1. Inv /\ Peace /\ [Next]_vars => Stays
  BY BoostLastsStep
<1>. QED  BY <1>1, SpecPeace, PTL DEF Spec, BoostLasts

=============================================================================
