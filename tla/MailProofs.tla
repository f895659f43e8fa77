----------------------------- MODULE MailProofs -----------------------------
(***************************************************************************)
(* The message queue, the memory pool and the mail queue made of them, for *)
(* every number of threads, blocks, messages and priorities.               *)
(***************************************************************************)
EXTENDS Mail, KernelListsProofs

\* Walking along an array.
LEMMA HopsEquations ==
  ASSUME NEW links, NEW b
  PROVE  /\ Msgs \in Nat
         /\ Hops(links, b)[0] = b
         /\ \A k \in 1..Msgs : Hops(links, b)[k] = links[Hops(links, b)[k - 1]]
<1>. DEFINE Eq(f, n) ==
       f = [k \in 0..n |-> IF k = 0 THEN b ELSE links[f[k - 1]]]
            T == {n \in Nat : ~ \E f : Eq(f, n)}
<1>0. Msgs \in Nat
  BY BlocksAssumption, FS_CardinalityType DEF Msgs
<1>1. T = {}
  <2>. SUFFICES ASSUME T # {}
                PROVE  FALSE
    OBVIOUS
  <2>1. PICK n \in T : \A m \in T : ~ (<<m, n>> \in OpToRel(<, Nat))
    <3>1. T \subseteq Nat
      OBVIOUS
    <3>. HIDE DEF T
    <3>. QED  BY <3>1, NatLessThanWellFounded, WFMin
  <2>2. n \in Nat
    OBVIOUS
  <2>3. CASE n = 0
    <3>1. Eq([k \in 0..0 |-> b], 0)
      OBVIOUS
    <3>. QED  BY <2>3, <3>1
  <2>4. CASE n # 0
    <3>1. n - 1 \in Nat /\ n - 1 < n
      BY <2>2, <2>4
    <3>2. <<n - 1, n>> \in OpToRel(<, Nat)
      BY <2>2, <3>1 DEF OpToRel
    <3>3. n - 1 \notin T
      BY <2>1, <3>2, Zenon
    <3>4. PICK g : Eq(g, n - 1)
      BY <3>1, <3>3
    <3>. DEFINE f == [k \in 0..n |-> IF k = n THEN links[g[n - 1]] ELSE g[k]]
    <3>5. ASSUME NEW k \in 0..n
          PROVE  f[k] = IF k = 0 THEN b ELSE links[f[k - 1]]
      <4>1. CASE k = n
        BY <2>2, <2>4, <4>1
      <4>2. CASE k # n
        <5>1. k \in 0..(n - 1) /\ f[k] = g[k]
          BY <2>2, <4>2
        <5>2. g[k] = IF k = 0 THEN b ELSE links[g[k - 1]]
          BY <3>4, <5>1
        <5>3. k # 0 => f[k - 1] = g[k - 1]
          BY <2>2, <4>2
        <5>. QED  BY <5>1, <5>2, <5>3
      <4>. QED  BY <4>1, <4>2
    <3>6. f = [k \in 0..n |-> f[k]]
      OBVIOUS
    <3>. HIDE DEF f
    <3>7. Eq(f, n)
      BY <3>5, <3>6
    <3>. QED  BY <3>7
  <2>. QED  BY <2>3, <2>4
<1>2. \E f : Eq(f, Msgs)
  BY <1>0, <1>1
<1>3. Hops(links, b) = CHOOSE f : Eq(f, Msgs)
  BY DEF Hops
<1>4. Eq(Hops(links, b), Msgs)
  <2>. HIDE DEF Eq
  <2>. QED  BY <1>2, <1>3
<1>. QED  BY <1>0, <1>4

\* Hops visits a sequence whose elements are linked one to the next.
LEMMA WalkAlong ==
  ASSUME NEW S, NEW q \in Seq(S), q # <<>>, Len(q) <= Msgs, NEW links,
         \A i \in 1..(Len(q) - 1) : links[q[i]] = q[i + 1]
  PROVE  \A k \in 0..(Len(q) - 1) : Hops(links, q[1])[k] = q[k + 1]
<1>. DEFINE h == Hops(links, q[1])
            T == {k \in 0..(Len(q) - 1) : h[k] # q[k + 1]}
<1>1. /\ Msgs \in Nat /\ h[0] = q[1]
      /\ \A k \in 1..Msgs : h[k] = links[h[k - 1]]
  BY HopsEquations
<1>2. Len(q) \in Nat \ {0}
  OBVIOUS
<1>. HIDE DEF h
<1>3. T = {}
  <2>. SUFFICES ASSUME T # {}
                PROVE  FALSE
    OBVIOUS
  <2>1. PICK k \in T : \A m \in T : ~ (<<m, k>> \in OpToRel(<, Nat))
    <3>1. T \subseteq Nat
      BY <1>2
    <3>. HIDE DEF T
    <3>. QED  BY <3>1, NatLessThanWellFounded, WFMin
  <2>2. k \in 0..(Len(q) - 1) /\ h[k] # q[k + 1]
    OBVIOUS
  <2>3. k # 0
    BY <1>1, <2>2
  <2>4. /\ k - 1 \in 0..(Len(q) - 1) /\ k - 1 < k /\ k \in 1..Msgs
        /\ k \in 1..(Len(q) - 1) /\ (k - 1) + 1 = k
    BY <1>1, <1>2, <2>2, <2>3
  <2>5. k - 1 \in Nat /\ k \in Nat
    BY <2>4
  <2>6. <<k - 1, k>> \in OpToRel(<, Nat)
    BY <2>4, <2>5 DEF OpToRel
  <2>7. k - 1 \notin T
    BY <2>1, <2>6, Zenon
  <2>8. h[k - 1] = q[k]
    BY <2>4, <2>7
  <2>. QED  BY <1>1, <2>2, <2>4, <2>8
<1>. QED  BY <1>3 DEF h

-----------------------------------------------------------------------------
\* The arrays nx and pv hold the circle of the blocks of q, from head h.
Circle(q, h, nx, pv) ==
  /\ q \in Seq(Blocks) /\ NoDuplicates(q)
  /\ h = IF q = <<>> THEN NoIndex ELSE q[1]
  /\ \A i \in 1..(Len(q) - 1) : nx[q[i]] = q[i + 1] /\ pv[q[i + 1]] = q[i]
  /\ q # <<>> => nx[q[Len(q)]] = q[1] /\ pv[q[1]] = q[Len(q)]

Walk(links, b, n) == [k \in 1..n |-> Hops(links, b)[k - 1]]

\* No sequence of different blocks is longer than the storage.
LEMMA CircleFits ==
  ASSUME NEW q \in Seq(Blocks), NoDuplicates(q)
  PROVE  Len(q) <= Msgs /\ Len(q) \in Nat /\ Msgs \in Nat
<1>1. IsFiniteSet(ToSet(q)) /\ Cardinality(ToSet(q)) = Len(q)
  BY DistinctCount
<1>2. ToSet(q) \subseteq Blocks /\ IsFiniteSet(Blocks)
  BY BlocksAssumption DEF ToSet
<1>3. Cardinality(ToSet(q)) <= Cardinality(Blocks)
  BY <1>2, FS_Subset
<1>4. Cardinality(Blocks) \in Nat
  BY <1>2, FS_CardinalityType
<1>. QED  BY <1>1, <1>3, <1>4 DEF Msgs

\* What a walk from the head finds is the circle.
LEMMA CircleIsWalked ==
  ASSUME NEW q, NEW h, NEW nx, NEW pv, Circle(q, h, nx, pv)
  PROVE  Walk(nx, h, Len(q)) = q
<1>1. q \in Seq(Blocks) /\ NoDuplicates(q)
  BY DEF Circle
<1>2. CASE q = <<>>
  <2>1. Len(q) = 0
    BY <1>2
  <2>2. Walk(nx, h, 0) = <<>>
    BY DEF Walk
  <2>. QED  BY <1>2, <2>1, <2>2
<1>3. CASE q # <<>>
  <2>1. Len(q) <= Msgs /\ Len(q) \in Nat
    BY <1>1, CircleFits
  <2>2. h = q[1] /\ \A i \in 1..(Len(q) - 1) : nx[q[i]] = q[i + 1]
    BY <1>3 DEF Circle
  <2>3. \A k \in 0..(Len(q) - 1) : Hops(nx, q[1])[k] = q[k + 1]
    BY <1>1, <1>3, <2>1, <2>2, WalkAlong
  <2>4. \A k \in 1..Len(q) : Hops(nx, h)[k - 1] = q[k]
    <3>. TAKE k \in 1..Len(q)
    <3>1. k - 1 \in 0..(Len(q) - 1) /\ (k - 1) + 1 = k
      BY <2>1
    <3>. QED  BY <2>2, <2>3, <3>1
  <2>5. q = [k \in 1..Len(q) |-> q[k]]
    BY <1>1
  <2>. QED  BY <2>4, <2>5 DEF Walk
<1>. QED  BY <1>2, <1>3

\* A walk back from the tail visits the circle in reverse.
LEMMA CircleBackwards ==
  ASSUME NEW q, NEW h, NEW nx, NEW pv, Circle(q, h, nx, pv), q # <<>>
  PROVE  /\ pv[h] = q[Len(q)]
         /\ \A k \in 0..(Len(q) - 1) : Hops(pv, pv[h])[k] = q[Len(q) - k]
<1>. DEFINE n == Len(q)
            r == [i \in 1..n |-> q[n + 1 - i]]
<1>1. /\ q \in Seq(Blocks) /\ NoDuplicates(q) /\ h = q[1] /\ pv[h] = q[n]
      /\ \A i \in 1..(n - 1) : pv[q[i + 1]] = q[i]
  BY DEF Circle
<1>2. n <= Msgs /\ n \in Nat /\ n # 0
  BY <1>1, CircleFits
<1>3. r \in Seq(Blocks) /\ Len(r) = n /\ r[1] = q[n] /\ r # <<>>
  BY <1>1, <1>2
<1>. HIDE DEF n
<1>4. ASSUME NEW i \in 1..(n - 1)
      PROVE  pv[r[i]] = r[i + 1]
  <2>1. n - i \in 1..(n - 1) /\ (n - i) + 1 = n + 1 - i
        /\ n + 1 - (i + 1) = n - i /\ i \in 1..n /\ i + 1 \in 1..n
    BY <1>2
  <2>. QED  BY <1>1, <2>1
<1>5. \A k \in 0..(n - 1) : r[k + 1] = q[n - k]
  <2>. TAKE k \in 0..(n - 1)
  <2>1. k + 1 \in 1..n /\ n + 1 - (k + 1) = n - k
    BY <1>2
  <2>. QED  BY <2>1
<1>. HIDE DEF r
<1>6. \A k \in 0..(n - 1) : Hops(pv, r[1])[k] = r[k + 1]
  BY <1>2, <1>3, <1>4, WalkAlong
<1>. QED  BY <1>1, <1>3, <1>5, <1>6 DEF n

\* The place of a message of priority p, as a position in the circle: all
\* before it are at least as urgent, all from it on are less.
PlaceFor(q, p, prio, k) ==
  /\ k \in 1..(Len(q) + 1)
  /\ \A j \in 1..(k - 1) : prio[q[j]] >= p
  /\ \A j \in k..Len(q) : prio[q[j]] < p

\* The walk of internal_try_send_ from the tail stops at that place.
LEMMA InsertionPointFound ==
  ASSUME NEW q, Circle(q, head, next, prev), q # <<>>,
         mprio \in [Blocks -> Nat], SortedByPriority(q, mprio), NEW p \in Nat
  PROVE  \E k \in 1..(Len(q) + 1) :
           /\ PlaceFor(q, p, mprio, k)
           /\ k = 1 <=> p > mprio[head]
           /\ InsertionPoint(p) = IF k = 1 THEN q[Len(q)] ELSE q[k - 1]
<1>. DEFINE n == Len(q)
            back == Hops(prev, prev[head])
            Stop(k) == /\ p <= mprio[back[k]]
                       /\ \A j \in 0..(k - 1) : p > mprio[back[j]]
            T == {i \in 1..n : mprio[q[i]] >= p}
<1>1. /\ q \in Seq(Blocks) /\ NoDuplicates(q) /\ head = q[1]
      /\ n \in Nat /\ n # 0 /\ 1 \in 1..n /\ n <= Msgs /\ Msgs \in Nat
      /\ prev[head] = q[n]
      /\ DOMAIN q = 1..n
      /\ \A k \in 0..(n - 1) : back[k] = q[n - k]
  <2>1. q \in Seq(Blocks) /\ NoDuplicates(q) /\ head = q[1]
    BY DEF Circle
  <2>. QED  BY <2>1, CircleFits, CircleBackwards
<1>2. \A i \in 1..n : q[i] \in Blocks /\ mprio[q[i]] \in Nat
  BY <1>1
<1>3. \A i, j \in 1..n : i < j => mprio[q[i]] >= mprio[q[j]]
  BY <1>1 DEF SortedByPriority
<1>4. CASE p > mprio[head]
  <2>1. \A j \in 1..n : mprio[q[j]] < p
    <3>. TAKE j \in 1..n
    <3>1. mprio[q[1]] >= mprio[q[j]]
      BY <1>1, <1>2, <1>3
    <3>. QED  BY <1>1, <1>2, <1>4, <3>1
  <2>2. InsertionPoint(p) = q[n]
    BY <1>1, <1>4 DEF InsertionPoint
  <2>3. 1 \in 1..(n + 1) /\ PlaceFor(q, p, mprio, 1)
    BY <1>1, <2>1 DEF PlaceFor
  <2>. QED  BY <1>4, <2>2, <2>3
<1>5. CASE ~ (p > mprio[head])
  <2>1. 1 \in T
    BY <1>1, <1>2, <1>5
  <2>2. PICK i \in T : \A j \in (i + 1)..n : j \notin T
    <3>. HIDE DEF T
    <3>1. T \subseteq 1..n /\ T # {}
      BY <2>1 DEF T
    <3>. QED  BY <1>1, <3>1, LastPosition
  <2>3. i \in 1..n /\ mprio[q[i]] >= p
    OBVIOUS
  <2>4. \A j \in (i + 1)..n : mprio[q[j]] < p
    <3>. TAKE j \in (i + 1)..n
    <3>1. j \in 1..n /\ mprio[q[j]] \in Nat
      BY <1>1, <1>2, <2>3
    <3>. QED  BY <2>2, <3>1
  <2>5. \A j \in 1..i : mprio[q[j]] >= p
    <3>. TAKE j \in 1..i
    <3>1. j \in 1..n /\ (j < i \/ j = i)
      BY <1>1, <2>3
    <3>2. mprio[q[j]] >= mprio[q[i]]
      BY <1>2, <1>3, <2>3, <3>1
    <3>. QED  BY <1>2, <2>3, <3>1, <3>2
  <2>. HIDE DEF T, back
  <2>6. Stop(n - i) /\ n - i \in 0..Msgs
    <3>1. n - i \in 0..(n - 1) /\ n - (n - i) = i
      BY <1>1, <2>3
    <3>2. back[n - i] = q[i]
      BY <1>1, <3>1
    <3>3. ASSUME NEW j \in 0..(n - i - 1)
          PROVE  p > mprio[back[j]]
      <4>1. j \in 0..(n - 1) /\ n - j \in (i + 1)..n
        BY <1>1, <2>3
      <4>2. back[j] = q[n - j]
        BY <1>1, <4>1
      <4>3. mprio[q[n - j]] < p /\ mprio[q[n - j]] \in Nat
        BY <1>1, <1>2, <2>3, <2>4, <4>1
      <4>. QED  BY <4>2, <4>3
    <3>. QED  BY <1>1, <1>2, <2>3, <3>1, <3>2, <3>3
  <2>7. ASSUME NEW k \in 0..Msgs, Stop(k)
        PROVE  k = n - i
    <3>1. n - i \in 0..(n - 1) /\ k \in Int /\ n - i \in Int
      BY <1>1, <2>3
    <3>2. mprio[back[n - i]] \in Nat /\ p <= mprio[back[n - i]]
      <4>1. n - (n - i) = i /\ back[n - i] = q[n - (n - i)]
        BY <1>1, <2>3, <3>1
      <4>. QED  BY <1>2, <2>3, <2>6, <4>1
    <3>3. ~ (k > n - i)
      <4>. SUFFICES ASSUME k > n - i
                    PROVE  FALSE
        OBVIOUS
      <4>1. n - i \in 0..(k - 1)
        BY <3>1
      <4>2. p > mprio[back[n - i]]
        BY <2>7, <4>1
      <4>. QED  BY <3>2, <4>2
    <3>4. ~ (k < n - i)
      <4>. SUFFICES ASSUME k < n - i
                    PROVE  FALSE
        OBVIOUS
      <4>1. k \in 0..(n - i - 1) /\ k \in 0..(n - 1) /\ n - k \in 1..n
        BY <1>1, <2>3, <3>1
      <4>2. p > mprio[back[k]]
        BY <2>6, <4>1
      <4>3. mprio[back[k]] \in Nat
        BY <1>1, <1>2, <4>1
      <4>. QED  BY <2>7, <4>2, <4>3
    <3>. QED  BY <3>1, <3>3, <3>4
  <2>8. InsertionPoint(p) = back[CHOOSE k \in 0..Msgs : Stop(k)]
    BY <1>5 DEF InsertionPoint, back
  <2>9. (CHOOSE k \in 0..Msgs : Stop(k)) = n - i
    <3>. HIDE DEF Stop
    <3>. QED  BY <2>6, <2>7
  <2>10. InsertionPoint(p) = q[i]
    <3>1. n - i \in 0..(n - 1) /\ n - (n - i) = i
      BY <1>1, <2>3
    <3>2. back[n - i] = q[n - (n - i)]
      BY <1>1, <3>1
    <3>. QED  BY <2>8, <2>9, <3>1, <3>2
  <2>. DEFINE k == i + 1
  <2>11. k \in 1..(n + 1) /\ k # 1 /\ k - 1 = i
    BY <1>1, <2>3
  <2>12. PlaceFor(q, p, mprio, k)
    BY <2>4, <2>5, <2>11 DEF PlaceFor
  <2>. HIDE DEF k
  <2>. QED  BY <1>5, <2>10, <2>11, <2>12
<1>. QED  BY <1>4, <1>5

\* A block linked into the circle of arrays at position k.
LEMMA CircleInsert ==
  ASSUME NEW q, NEW h, NEW nx \in [Blocks -> Blocks \union {NoIndex}],
         NEW pv \in [Blocks -> Blocks \union {NoIndex}],
         Circle(q, h, nx, pv), q # <<>>,
         NEW new \in Blocks, new \notin ToSet(q),
         NEW k \in 1..(Len(q) + 1), NEW after, NEW before,
         after = (IF k = 1 THEN q[Len(q)] ELSE q[k - 1]),
         before = nx[after]
  PROVE  Circle(InsertAt(q, k, new), IF k = 1 THEN new ELSE h,
                [nx EXCEPT ![new] = before, ![after] = new],
                [pv EXCEPT ![new] = after, ![before] = new])
<1>. DEFINE n == Len(q)
            r == InsertAt(q, k, new)
            nx1 == [nx EXCEPT ![new] = before, ![after] = new]
            pv1 == [pv EXCEPT ![new] = after, ![before] = new]
<1>1. /\ q \in Seq(Blocks) /\ NoDuplicates(q) /\ h = q[1]
      /\ n \in Nat /\ n # 0 /\ DOMAIN q = 1..n
      /\ \A i \in 1..(n - 1) : nx[q[i]] = q[i + 1] /\ pv[q[i + 1]] = q[i]
      /\ nx[q[n]] = q[1] /\ pv[q[1]] = q[n]
  BY DEF Circle
<1>2. /\ r \in Seq(Blocks) /\ Len(r) = n + 1
      /\ \A j \in 1..(k - 1) : r[j] = q[j]
      /\ r[k] = new
      /\ \A j \in k..n : r[j + 1] = q[j]
  <2>1. q \in Seq(Blocks) /\ k \in 1..(Len(q) + 1)
    BY <1>1
  <2>. QED  BY <2>1, InsertAtElements
<1>. HIDE DEF r, n
<1>3. NoDuplicates(r)
  <2>1. q \in Seq(Blocks) /\ k \in 1..(Len(q) + 1)
    BY <1>1
  <2>. QED  BY <1>1, <2>1, InsertAtSet DEF r
<1>4. /\ \A j \in 1..n : q[j] \in Blocks /\ q[j] # new
      /\ \A i, j \in 1..n : q[i] = q[j] => i = j
  <2>1. \A j \in 1..n : q[j] \in Blocks /\ q[j] \in ToSet(q)
    BY <1>1 DEF ToSet
  <2>2. \A i, j \in 1..n : q[i] = q[j] => i = j
    BY <1>1 DEF NoDuplicates
  <2>. QED  BY <2>1, <2>2
<1>5. k \in 1..(n + 1) /\ k \in Int
  BY <1>1 DEF n
<1>6. /\ after = IF k = 1 THEN q[n] ELSE q[k - 1]
      /\ before = IF k = 1 \/ k = n + 1 THEN q[1] ELSE q[k]
  <2>0. after = IF k = 1 THEN q[n] ELSE q[k - 1]
    BY DEF n
  <2>1. CASE k = 1
    BY <1>1, <2>0, <2>1
  <2>2. CASE k = n + 1
    <3>1. after = q[n]
      BY <1>1, <2>0, <2>2
    <3>. QED  BY <1>1, <2>0, <2>2, <3>1
  <2>3. CASE k # 1 /\ k # n + 1
    <3>1. k - 1 \in 1..(n - 1) /\ (k - 1) + 1 = k
      BY <1>1, <1>5, <2>3
    <3>. QED  BY <1>1, <2>0, <2>3, <3>1
  <2>. QED  BY <2>1, <2>2, <2>3
<1>7. after \in Blocks /\ before \in Blocks /\ after # new /\ before # new
  <2>1. 1 \in 1..n /\ n \in 1..n
    BY <1>1
  <2>2. k # 1 => k - 1 \in 1..n
    BY <1>1, <1>5
  <2>3. k # n + 1 => k \in 1..n
    BY <1>1, <1>5
  <2>. QED  BY <1>4, <1>6, <2>1, <2>2, <2>3
<1>8. /\ nx1[new] = before /\ nx1[after] = new
      /\ \A x \in Blocks \ {new, after} : nx1[x] = nx[x]
      /\ pv1[new] = after /\ pv1[before] = new
      /\ \A x \in Blocks \ {new, before} : pv1[x] = pv[x]
  BY <1>7
<1>. HIDE DEF nx1, pv1
<1>9. ASSUME NEW i \in 1..n
      PROVE  nx1[r[i]] = r[i + 1] /\ pv1[r[i + 1]] = r[i]
  <2>1. CASE i < k - 1
    <3>1. /\ i \in 1..(k - 1) /\ i + 1 \in 1..(k - 1) /\ i \in 1..(n - 1)
          /\ i \in 1..n /\ i + 1 \in 1..n /\ k # 1 /\ k - 1 \in 1..n
      BY <1>1, <1>5, <2>1
    <3>2. r[i] = q[i] /\ r[i + 1] = q[i + 1]
      BY <1>2, <3>1
    <3>3. q[i] # after
      BY <1>4, <1>6, <2>1, <3>1
    <3>4. q[i + 1] # before
      <4>1. CASE k = n + 1
        <5>1. 1 \in 1..n /\ i + 1 # 1
          BY <1>1
        <5>. QED  BY <1>4, <1>6, <3>1, <4>1, <5>1
      <4>2. CASE k # n + 1
        <5>1. k \in 1..n /\ i + 1 # k
          BY <1>1, <1>5, <2>1, <4>2
        <5>. QED  BY <1>4, <1>6, <3>1, <4>2, <5>1
      <4>. QED  BY <4>1, <4>2
    <3>. QED  BY <1>1, <1>4, <1>8, <3>1, <3>2, <3>3, <3>4
  <2>2. CASE i = k - 1
    <3>1. k # 1 /\ i \in 1..(k - 1) /\ i + 1 = k
      BY <1>5, <2>2
    <3>2. r[i] = q[k - 1] /\ r[i + 1] = new
      BY <1>2, <2>2, <3>1
    <3>. QED  BY <1>6, <1>8, <3>1, <3>2
  <2>3. CASE i = k
    <3>1. k # n + 1 /\ k \in k..n /\ i + 1 = k + 1
      BY <1>1, <1>5, <2>3
    <3>2. r[i] = new /\ r[i + 1] = q[k]
      BY <1>2, <2>3, <3>1
    <3>3. before = q[k]
      BY <1>6, <3>1
    <3>. QED  BY <1>8, <3>2, <3>3
  <2>4. CASE i > k
    <3>1. /\ i - 1 \in k..n /\ i \in k..n /\ (i - 1) + 1 = i
          /\ i - 1 \in 1..(n - 1) /\ i - 1 \in 1..n /\ i # 1
          /\ k # n + 1 /\ k \in 1..n /\ 1 \in 1..n /\ n \in 1..n /\ i - 1 # n
      BY <1>1, <1>5, <2>4
    <3>2. r[i] = q[i - 1] /\ r[i + 1] = q[i]
      BY <1>2, <3>1
    <3>3. q[i - 1] # after
      <4>1. CASE k = 1
        BY <1>4, <1>6, <3>1, <4>1
      <4>2. CASE k # 1
        <5>1. k - 1 \in 1..n /\ i - 1 # k - 1
          BY <1>1, <1>5, <2>4, <4>2
        <5>. QED  BY <1>4, <1>6, <3>1, <4>2, <5>1
      <4>. QED  BY <4>1, <4>2
    <3>4. q[i] # before
      <4>1. before = q[1] \/ before = q[k]
        BY <1>6
      <4>. QED  BY <1>4, <2>4, <3>1, <4>1
    <3>. QED  BY <1>1, <1>4, <1>8, <3>1, <3>2, <3>3, <3>4
  <2>. QED  BY <1>1, <1>5, <2>1, <2>2, <2>3, <2>4
<1>10. nx1[r[n + 1]] = r[1] /\ pv1[r[1]] = r[n + 1]
  <2>1. CASE k = 1
    <3>1. n \in k..n /\ 1 \in k..n /\ r[n + 1] = q[n] /\ r[1] = new
      BY <1>1, <1>2, <2>1
    <3>. QED  BY <1>6, <1>8, <2>1, <3>1
  <2>2. CASE k = n + 1
    <3>1. 1 \in 1..(k - 1) /\ r[1] = q[1] /\ r[n + 1] = new
      BY <1>1, <1>2, <2>2
    <3>. QED  BY <1>6, <1>8, <2>2, <3>1
  <2>3. CASE k # 1 /\ k # n + 1
    <3>1. /\ 1 \in 1..(k - 1) /\ n \in k..n /\ 1 \in 1..n /\ n \in 1..n
          /\ k - 1 \in 1..n /\ k \in 1..n /\ n # k - 1 /\ k # 1
      BY <1>1, <1>5, <2>3
    <3>2. r[1] = q[1] /\ r[n + 1] = q[n]
      BY <1>2, <3>1
    <3>3. q[n] # after /\ q[1] # before
      BY <1>4, <1>6, <2>3, <3>1
    <3>. QED  BY <1>1, <1>4, <1>8, <3>1, <3>2, <3>3
  <2>. QED  BY <2>1, <2>2, <2>3
<1>11. r[1] = IF k = 1 THEN new ELSE h
  <2>1. CASE k = 1
    BY <1>2, <2>1
  <2>2. CASE k # 1
    <3>1. 1 \in 1..(k - 1)
      BY <1>5, <2>2
    <3>. QED  BY <1>1, <1>2, <2>2, <3>1
  <2>. QED  BY <2>1, <2>2
<1>12. r # <<>> /\ Len(r) - 1 = n
  BY <1>1, <1>2
<1>. QED  BY <1>2, <1>3, <1>9, <1>10, <1>11, <1>12 DEF Circle, r, nx1, pv1

\* Its place keeps the circle sorted.
LEMMA InsertSorted ==
  ASSUME NEW q \in Seq(Blocks), NEW prio \in [Blocks -> Nat], NEW p \in Nat,
         SortedByPriority(q, prio), NEW new \in Blocks, new \notin ToSet(q),
         NEW k \in 1..(Len(q) + 1), PlaceFor(q, p, prio, k)
  PROVE  SortedByPriority(InsertAt(q, k, new), [prio EXCEPT ![new] = p])
<1>. DEFINE n == Len(q)
            r == InsertAt(q, k, new)
            prio1 == [prio EXCEPT ![new] = p]
<1>0. n \in Nat /\ DOMAIN q = 1..n /\ k \in 1..(n + 1) /\ k \in Int
  OBVIOUS
<1>1. /\ r \in Seq(Blocks) /\ Len(r) = n + 1
      /\ \A m \in DOMAIN r :
           \/ m < k /\ m \in 1..n /\ r[m] = q[m]
           \/ m = k /\ r[m] = new
           \/ m > k /\ m - 1 \in 1..n /\ r[m] = q[m - 1]
  <2>0. q \in Seq(Blocks) /\ k \in 1..(Len(q) + 1) /\ new \in Blocks
    OBVIOUS
  <2>. HIDE DEF r, n
  <2>1. r \in Seq(Blocks) /\ Len(r) = n + 1
    <3>1. /\ InsertAt(q, k, new) \in Seq(Blocks)
          /\ Len(InsertAt(q, k, new)) = Len(q) + 1
      BY <2>0, InsertAtElements
    <3>. QED  BY <3>1 DEF r, n
  <2>2. \A m \in DOMAIN InsertAt(q, k, new) :
           \/ m < k /\ m \in 1..Len(q) /\ InsertAt(q, k, new)[m] = q[m]
           \/ m = k /\ InsertAt(q, k, new)[m] = new
           \/ m > k /\ m - 1 \in 1..Len(q)
                /\ InsertAt(q, k, new)[m] = q[m - 1]
    BY <2>0, InsertAtSet
  <2>. QED  BY <2>1, <2>2 DEF r, n
<1>2. \A j \in 1..n : q[j] \in Blocks /\ q[j] # new
  <2>1. \A j \in 1..n : q[j] \in Blocks /\ q[j] \in ToSet(q)
    BY <1>0 DEF ToSet
  <2>. QED  BY <2>1
<1>3. /\ prio1[new] = p
      /\ \A j \in 1..n : prio1[q[j]] = prio[q[j]] /\ prio[q[j]] \in Nat
  BY <1>2
<1>4. /\ \A j \in 1..n : j < k => prio[q[j]] >= p
      /\ \A j \in 1..n : j >= k => prio[q[j]] < p
  BY <1>0 DEF PlaceFor
<1>5. \A i, j \in 1..n : i < j => prio[q[i]] >= prio[q[j]]
  BY <1>0 DEF SortedByPriority
<1>. HIDE DEF r, n, prio1
<1>6. DOMAIN r = 1..(n + 1)
  BY <1>0, <1>1
<1>7. ASSUME NEW i \in DOMAIN r, NEW j \in DOMAIN r, i < j
      PROVE  prio1[r[i]] >= prio1[r[j]]
  <2>0. i \in Int /\ j \in Int
    BY <1>6
  <2>. DEFINE At1(m) ==
         \/ m < k /\ m \in 1..n /\ r[m] = q[m]
         \/ m = k /\ r[m] = new
         \/ m > k /\ m - 1 \in 1..n /\ r[m] = q[m - 1]
  <2>6. At1(i) /\ At1(j)
    BY <1>1
  <2>1. CASE j < k
    <3>1. r[i] = q[i] /\ r[j] = q[j] /\ i \in 1..n /\ j \in 1..n
      BY <1>0, <1>7, <2>0, <2>6, <2>1
    <3>. QED  BY <1>3, <1>5, <1>7, <3>1
  <2>2. CASE j = k
    <3>1. r[i] = q[i] /\ r[j] = new /\ i \in 1..n /\ i < k
      BY <1>0, <1>7, <2>0, <2>6, <2>2
    <3>. QED  BY <1>3, <1>4, <3>1
  <2>3. CASE j > k /\ i < k
    <3>1. /\ r[i] = q[i] /\ r[j] = q[j - 1] /\ i \in 1..n /\ j - 1 \in 1..n
          /\ i < j - 1
      BY <1>0, <1>7, <2>0, <2>6, <2>3
    <3>. QED  BY <1>3, <1>5, <3>1
  <2>4. CASE j > k /\ i = k
    <3>1. r[i] = new /\ r[j] = q[j - 1] /\ j - 1 \in 1..n /\ j - 1 >= k
      BY <1>0, <1>7, <2>0, <2>6, <2>4
    <3>2. prio[q[j - 1]] < p
      BY <1>4, <3>1
    <3>. QED  BY <1>3, <3>1, <3>2
  <2>5. CASE j > k /\ i > k
    <3>1. /\ r[i] = q[i - 1] /\ r[j] = q[j - 1] /\ i - 1 \in 1..n
          /\ j - 1 \in 1..n /\ i - 1 < j - 1
      BY <1>0, <1>7, <2>0, <2>6, <2>5
    <3>. QED  BY <1>3, <1>5, <3>1
  <2>. QED  BY <1>0, <2>0, <2>1, <2>2, <2>3, <2>4, <2>5
<1>. QED  BY <1>7 DEF SortedByPriority, r, prio1

\* The head unlinked from the circle of arrays.
LEMMA CircleTail ==
  ASSUME NEW q, NEW h, NEW nx \in [Blocks -> Blocks \union {NoIndex}],
         NEW pv \in [Blocks -> Blocks \union {NoIndex}],
         Circle(q, h, nx, pv), q # <<>>
  PROVE  Circle(Tail(q), IF Len(q) > 1 THEN nx[h] ELSE NoIndex,
                [nx EXCEPT ![pv[h]] = nx[h], ![h] = NoIndex],
                [pv EXCEPT ![nx[h]] = pv[h], ![h] = NoIndex])
<1>. DEFINE n == Len(q)
            r == Tail(q)
            nx1 == [nx EXCEPT ![pv[h]] = nx[h], ![h] = NoIndex]
            pv1 == [pv EXCEPT ![nx[h]] = pv[h], ![h] = NoIndex]
<1>1. /\ q \in Seq(Blocks) /\ NoDuplicates(q) /\ h = q[1]
      /\ n \in Nat /\ n # 0 /\ DOMAIN q = 1..n /\ 1 \in 1..n /\ n \in 1..n
      /\ \A i \in 1..(n - 1) : nx[q[i]] = q[i + 1] /\ pv[q[i + 1]] = q[i]
      /\ nx[q[n]] = q[1] /\ pv[q[1]] = q[n]
  BY DEF Circle
<1>2. /\ r \in Seq(Blocks) /\ Len(r) = n - 1
      /\ \A i \in 1..(n - 1) : r[i] = q[i + 1]
      /\ NoDuplicates(r)
  BY <1>1, TailElements
<1>3. /\ \A j \in 1..n : q[j] \in Blocks
      /\ \A i, j \in 1..n : q[i] = q[j] => i = j
  BY <1>1 DEF NoDuplicates
<1>. HIDE DEF r, n
<1>4. CASE n = 1
  <2>1. r = <<>>
    BY <1>2, <1>4
  <2>2. Len(r) = 0 /\ r \in Seq(Blocks) /\ NoDuplicates(r)
    BY <1>2, <1>4
  <2>3. (IF Len(q) > 1 THEN nx[h] ELSE NoIndex) = NoIndex
    BY <1>4 DEF n
  <2>4. \A i \in 1..(Len(r) - 1) : FALSE
    BY <2>2
  <2>. HIDE DEF nx1, pv1
  <2>5. Circle(r, NoIndex, nx1, pv1)
    BY <2>1, <2>2, <2>4 DEF Circle
  <2>. QED  BY <2>3, <2>5 DEF r, nx1, pv1
<1>5. CASE n # 1
  <2>1. /\ n - 1 \in 1..(n - 1) /\ 1 \in 1..(n - 1) /\ (n - 1) + 1 = n
        /\ nx[h] = q[2] /\ pv[h] = q[n] /\ 2 \in 1..n /\ 1 + 1 = 2
    BY <1>1, <1>5
  <2>2. q[2] # h /\ q[n] # h /\ q[2] \in Blocks /\ q[n] \in Blocks
        /\ h \in Blocks
    BY <1>1, <1>3, <1>5, <2>1
  <2>3. /\ nx1[q[n]] = q[2] /\ \A x \in Blocks \ {h, q[n]} : nx1[x] = nx[x]
        /\ pv1[q[2]] = q[n] /\ \A x \in Blocks \ {h, q[2]} : pv1[x] = pv[x]
    BY <2>1, <2>2
  <2>. HIDE DEF nx1, pv1
  <2>4. ASSUME NEW i \in 1..(n - 2)
        PROVE  nx1[r[i]] = r[i + 1] /\ pv1[r[i + 1]] = r[i]
    <3>1. /\ i \in 1..(n - 1) /\ i + 1 \in 1..(n - 1) /\ i + 1 \in 1..n
          /\ (i + 1) + 1 \in 1..n /\ i + 1 # 1 /\ i + 1 # n
          /\ (i + 1) + 1 # 2 /\ (i + 1) + 1 # 1
      BY <1>1
    <3>2. r[i] = q[i + 1] /\ r[i + 1] = q[(i + 1) + 1]
      BY <1>2, <3>1
    <3>3. /\ q[i + 1] # h /\ q[i + 1] # q[n]
          /\ q[(i + 1) + 1] # h /\ q[(i + 1) + 1] # q[2]
      BY <1>1, <1>3, <2>1, <3>1
    <3>4. /\ nx[q[i + 1]] = q[(i + 1) + 1]
          /\ pv[q[(i + 1) + 1]] = q[i + 1]
          /\ q[i + 1] \in Blocks /\ q[(i + 1) + 1] \in Blocks
      BY <1>1, <1>3, <3>1
    <3>. QED  BY <2>3, <3>2, <3>3, <3>4
  <2>5. r[1] = q[2] /\ r[n - 1] = q[n] /\ r # <<>>
    BY <1>1, <1>2, <1>5, <2>1
  <2>6. Len(r) - 1 = n - 2 /\ n > 1
    BY <1>1, <1>2, <1>5
  <2>. QED  BY <1>2, <2>1, <2>3, <2>4, <2>5, <2>6 DEF Circle, r, n, nx1, pv1
<1>. QED  BY <1>4, <1>5

-----------------------------------------------------------------------------
\* The types, without the bounds of the counters, which follow from the rest.
Shape ==
  /\ BlockingTypeOK
  /\ firstFree \in Seq(Blocks)
  /\ head \in Blocks \union {NoIndex}
  /\ prev \in [Blocks -> Blocks \union {NoIndex}]
  /\ next \in [Blocks -> Blocks \union {NoIndex}]
  /\ mprio \in [Blocks -> MsgPriorities \union {0}]
  /\ content \in [Blocks -> Messages \union {NoMessage}]
  /\ count \in Int
  /\ src \in [Threads -> Blocks \union {NoIndex}]
  /\ first \in Seq(PoolBlocks) /\ inUse \in Int
  /\ pc \in [Threads -> {"app", "loop", "asleep", "woken", "copying", "freed",
                         "resuming", "reset", "resuming_all"}]
  /\ holds \in [Threads \union {ISR} -> PoolBlocks \union {NoMessage}]

\* Where the blocks of the queue are: the arrays hold one circle of count_
\* blocks, most urgent first; the free chain, the circle and the blocks that
\* receivers copy from share none and make up the storage; a block has a
\* message exactly while it is not free.
Placed ==
  /\ count \in Nat
  /\ Circle(Queued, head, next, prev)
  /\ SortedByPriority(Queued, mprio)
  /\ NoDuplicates(firstFree)
  /\ ToSet(firstFree) \intersect ToSet(Queued) = {}
  /\ \A t \in Threads : src[t] # NoIndex =>
       src[t] \notin ToSet(firstFree) \union ToSet(Queued)
  /\ \A t, u \in Threads : src[t] # NoIndex /\ src[t] = src[u] => t = u
  /\ \A b \in Blocks : \/ b \in ToSet(firstFree) \union ToSet(Queued)
                       \/ \E t \in Threads : src[t] = b
  /\ \A b \in Blocks : content[b] = NoMessage <=> b \in ToSet(firstFree)

\* The circle read off the index arrays is a sequence of count distinct
\* blocks that starts at the head.
LEMMA QueuedLength ==
  ASSUME Placed
  PROVE  /\ Queued \in Seq(Blocks) /\ Len(Queued) = count /\ count \in Nat
         /\ NoDuplicates(Queued)
         /\ head = NoIndex <=> Queued = <<>>
         /\ head # NoIndex => head = Queued[1] /\ head \in Blocks
<1>1. count \in Nat /\ Circle(Queued, head, next, prev)
  BY DEF Placed
<1>2. Queued \in Seq(Blocks) /\ NoDuplicates(Queued)
  BY <1>1 DEF Circle
<1>3. Len(Queued) = count
  BY <1>1 DEF Queued
<1>4. head = IF Queued = <<>> THEN NoIndex ELSE Queued[1]
  BY <1>1 DEF Circle
<1>5. Queued # <<>> => Queued[1] \in Blocks
  BY <1>2
<1>. QED  BY <1>1, <1>2, <1>3, <1>4, <1>5, BlocksAssumption

\* The circle of the next state is the one its arrays hold.
LEMMA QueuedNext ==
  ASSUME NEW q, Circle(q, head', next', prev'), count' = Len(q)
  PROVE  Queued' = q /\ count' \in Nat
<1>1. Walk(next', head', Len(q)) = q
  BY CircleIsWalked
<1>2. Queued' = Walk(next', head', count')
  BY DEF Queued, Walk
<1>3. q \in Seq(Blocks)
  BY DEF Circle
<1>. QED  BY <1>1, <1>2, <1>3

\* Message priorities are numbers, so the walk of send compares them.
LEMMA PrioritiesAreNumbers ==
  ASSUME Shape
  PROVE  mprio \in [Blocks -> Nat] /\ MsgPriorities \subseteq Nat
<1>1. MsgPriorities \subseteq Nat
  BY MessagesAssumption
<1>2. mprio \in [Blocks -> MsgPriorities \union {0}]
  BY DEF Shape
<1>3. ASSUME NEW b \in Blocks
      PROVE  mprio[b] \in Nat
  <2>1. mprio[b] \in MsgPriorities \union {0}
    BY <1>2
  <2>2. mprio[b] \in MsgPriorities \/ mprio[b] = 0
    BY <2>1
  <2>3. CASE mprio[b] \in MsgPriorities
    BY <1>1, <2>3
  <2>4. CASE mprio[b] = 0
    BY <2>4
  <2>. QED  BY <2>2, <2>3, <2>4
<1>. QED  BY <1>1, <1>2, <1>3

\* Sending puts the first free block in the place of its priority.
LEMMA SendPlaces ==
  ASSUME Shape, Placed, NEW m \in Messages, NEW p \in MsgPriorities,
         TrySend(m, p)
  PROVE  /\ Placed'
         /\ Head(firstFree) \in Blocks
         /\ Head(firstFree) \notin ToSet(Queued)
         /\ \E k \in 1..(count + 1) :
              /\ PlaceFor(Queued, p, mprio, k)
              /\ Queued' = InsertAt(Queued, k, Head(firstFree))
         /\ head' \in Blocks
         /\ next' \in [Blocks -> Blocks \union {NoIndex}]
         /\ prev' \in [Blocks -> Blocks \union {NoIndex}]
<1>. DEFINE new == Head(firstFree)
            q == Queued
<1>1. /\ q \in Seq(Blocks) /\ Len(q) = count /\ count \in Nat
      /\ NoDuplicates(q)
      /\ head = NoIndex <=> q = <<>>
      /\ head # NoIndex => head = q[1] /\ head \in Blocks
  BY QueuedLength
<1>2. Circle(q, head, next, prev) /\ SortedByPriority(q, mprio)
  BY DEF Placed
<1>3. /\ firstFree \in Seq(Blocks) /\ firstFree # <<>>
      /\ NoDuplicates(firstFree)
  BY DEF Shape, Placed, TrySend
<1>4. /\ new \in Blocks /\ new \in ToSet(firstFree)
      /\ Tail(firstFree) \in Seq(Blocks)
      /\ ToSet(Tail(firstFree)) = ToSet(firstFree) \ {new}
      /\ NoDuplicates(Tail(firstFree))
  BY <1>3, TailElements
<1>5. new \notin ToSet(q)
  BY <1>4 DEF Placed
<1>6. mprio \in [Blocks -> Nat] /\ p \in Nat
  BY PrioritiesAreNumbers
<1>7. /\ next \in [Blocks -> Blocks \union {NoIndex}]
      /\ prev \in [Blocks -> Blocks \union {NoIndex}]
      /\ content \in [Blocks -> Messages \union {NoMessage}]
      /\ src \in [Threads -> Blocks \union {NoIndex}]
  BY DEF Shape
<1>8. /\ firstFree' = Tail(firstFree) /\ count' = count + 1 /\ src' = src
      /\ mprio' = [mprio EXCEPT ![new] = p]
      /\ content' = [content EXCEPT ![new] = m]
  BY DEF TrySend
<1>. HIDE DEF q
<1>9. \E k \in 1..(Len(q) + 1) :
        /\ PlaceFor(q, p, mprio, k)
        /\ Circle(InsertAt(q, k, new), head', next', prev')
        /\ head' \in Blocks
        /\ next' \in [Blocks -> Blocks \union {NoIndex}]
        /\ prev' \in [Blocks -> Blocks \union {NoIndex}]
  <2>1. CASE q = <<>>
    <3>1. /\ head' = new /\ prev' = [prev EXCEPT ![new] = new]
          /\ next' = [next EXCEPT ![new] = new]
      <4>1. /\ head' = new /\ prev' = [prev EXCEPT ![new] = new, ![new] = new]
            /\ next' = [next EXCEPT ![new] = new, ![new] = new]
        BY <1>1, <2>1 DEF TrySend
      <4>. QED  BY <1>4, <1>7, <4>1
    <3>2. next'[new] = new /\ prev'[new] = new
      BY <1>4, <1>7, <3>1
    <3>3. InsertAt(q, 1, new) = <<new>>
      BY <1>4, <2>1, InsertAtEmpty
    <3>4. Circle(<<new>>, head', next', prev')
      BY <1>4, <3>1, <3>2 DEF Circle, NoDuplicates
    <3>5. 1 \in 1..(Len(q) + 1) /\ PlaceFor(q, p, mprio, 1)
      BY <1>1, <2>1 DEF PlaceFor
    <3>6. /\ head' \in Blocks
          /\ next' \in [Blocks -> Blocks \union {NoIndex}]
          /\ prev' \in [Blocks -> Blocks \union {NoIndex}]
      BY <1>4, <1>7, <3>1
    <3>. QED  BY <3>3, <3>4, <3>5, <3>6
  <2>2. CASE q # <<>>
    <3>1. PICK k \in 1..(Len(q) + 1) :
            /\ PlaceFor(q, p, mprio, k)
            /\ k = 1 <=> p > mprio[head]
            /\ InsertionPoint(p) = IF k = 1 THEN q[Len(q)] ELSE q[k - 1]
      BY <1>2, <1>6, <2>2, InsertionPointFound
    <3>. DEFINE after == InsertionPoint(p)
                before == next[after]
    <3>2. /\ next' = [next EXCEPT ![new] = before, ![after] = new]
          /\ prev' = [prev EXCEPT ![new] = after, ![before] = new]
          /\ head' = IF k = 1 THEN new ELSE head
      BY <1>1, <2>2, <3>1 DEF TrySend
    <3>3. after = IF k = 1 THEN q[Len(q)] ELSE q[k - 1]
      BY <3>1
    <3>. HIDE DEF after, new
    <3>4. Circle(InsertAt(q, k, new), IF k = 1 THEN new ELSE head,
                 [next EXCEPT ![new] = before, ![after] = new],
                 [prev EXCEPT ![new] = after, ![before] = new])
      BY <1>2, <1>4, <1>5, <1>7, <2>2, <3>3, CircleInsert
    <3>5. after \in Blocks
      <4>1. Len(q) \in 1..Len(q) /\ (k # 1 => k - 1 \in 1..Len(q))
        BY <1>1, <2>2
      <4>. QED  BY <1>1, <3>3, <4>1
    <3>6. /\ head' \in Blocks
          /\ next' \in [Blocks -> Blocks \union {NoIndex}]
          /\ prev' \in [Blocks -> Blocks \union {NoIndex}]
      BY <1>1, <1>4, <1>7, <2>2, <3>2, <3>5
    <3>. QED  BY <3>1, <3>2, <3>4, <3>6
  <2>. QED  BY <2>1, <2>2
<1>10. PICK k \in 1..(Len(q) + 1) :
         /\ PlaceFor(q, p, mprio, k)
         /\ Circle(InsertAt(q, k, new), head', next', prev')
         /\ head' \in Blocks
         /\ next' \in [Blocks -> Blocks \union {NoIndex}]
         /\ prev' \in [Blocks -> Blocks \union {NoIndex}]
  BY <1>9
<1>. DEFINE r == InsertAt(q, k, new)
<1>. HIDE DEF new
<1>11. /\ r \in Seq(Blocks) /\ Len(r) = Len(q) + 1
       /\ ToSet(r) = ToSet(q) \union {new}
  <2>1. q \in Seq(Blocks) /\ k \in 1..(Len(q) + 1) /\ new \in Blocks
    BY <1>1, <1>4
  <2>2. r \in Seq(Blocks) /\ Len(r) = Len(q) + 1
    BY <2>1, InsertAtElements
  <2>3. ToSet(r) = ToSet(q) \union {new}
    BY <2>1, InsertAtSet
  <2>. QED  BY <2>2, <2>3
<1>12. SortedByPriority(r, mprio')
  BY <1>1, <1>2, <1>4, <1>5, <1>6, <1>8, <1>10, InsertSorted
<1>. HIDE DEF r
<1>13. Circle(r, head', next', prev')
  BY <1>10 DEF r
<1>14. Queued' = r /\ count' \in Nat
  BY <1>1, <1>8, <1>11, <1>13, QueuedNext
<1>15. /\ ToSet(firstFree') = ToSet(firstFree) \ {new}
       /\ ToSet(Queued') = ToSet(q) \union {new}
  BY <1>4, <1>8, <1>11, <1>14
<1>16. /\ Circle(Queued, head, next, prev)'
       /\ SortedByPriority(Queued, mprio)'
       /\ NoDuplicates(firstFree)'
  BY <1>4, <1>8, <1>12, <1>13, <1>14
     DEF Circle, SortedByPriority, NoDuplicates
<1>17. ASSUME NEW b \in Blocks
       PROVE  content'[b] = NoMessage <=> b \in ToSet(firstFree')
  <2>1. CASE b = new
    BY <1>4, <1>7, <1>8, <1>15, <2>1, MessagesAssumption
  <2>2. CASE b # new
    BY <1>4, <1>7, <1>8, <1>15, <2>2 DEF Placed
  <2>. QED  BY <2>1, <2>2
<1>18. /\ ToSet(firstFree') \intersect ToSet(Queued') = {}
       /\ \A t \in Threads : src'[t] # NoIndex =>
            src'[t] \notin ToSet(firstFree') \union ToSet(Queued')
       /\ \A t, u \in Threads : src'[t] # NoIndex /\ src'[t] = src'[u] => t = u
       /\ \A b \in Blocks : \/ b \in ToSet(firstFree') \union ToSet(Queued')
                            \/ \E t \in Threads : src'[t] = b
  BY <1>4, <1>8, <1>15 DEF Placed, q
<1>19. Placed'
  BY <1>14, <1>16, <1>17, <1>18 DEF Placed
<1>. QED  BY <1>1, <1>4, <1>5, <1>10, <1>14, <1>19 DEF new, q, r

\* Unlinking takes the most urgent message, the oldest of its priority.
LEMMA UnlinkTakesHead ==
  ASSUME Shape, Placed, UnlinkHead
  PROVE  /\ Queued # <<>> /\ head = Head(Queued) /\ head \in Blocks
         /\ Queued' = Tail(Queued) /\ count' \in Nat
         /\ Circle(Queued, head, next, prev)'
         /\ head \in ToSet(Queued) /\ NoDuplicates(Queued')
         /\ ToSet(Queued') = ToSet(Queued) \ {head}
         /\ SortedByPriority(Queued', mprio)
<1>. DEFINE q == Queued
<1>1. /\ q \in Seq(Blocks) /\ Len(q) = count /\ count \in Nat
      /\ NoDuplicates(q) /\ q # <<>>
      /\ head = q[1] /\ head \in Blocks
  BY QueuedLength DEF UnlinkHead
<1>2. Circle(q, head, next, prev) /\ SortedByPriority(q, mprio)
  BY DEF Placed
<1>3. /\ next \in [Blocks -> Blocks \union {NoIndex}]
      /\ prev \in [Blocks -> Blocks \union {NoIndex}]
  BY DEF Shape
<1>. HIDE DEF q
<1>4. Circle(Tail(q), IF Len(q) > 1 THEN next[head] ELSE NoIndex,
             [next EXCEPT ![prev[head]] = next[head], ![head] = NoIndex],
             [prev EXCEPT ![next[head]] = prev[head], ![head] = NoIndex])
  BY <1>1, <1>2, <1>3, CircleTail
<1>5. /\ head' = (IF Len(q) > 1 THEN next[head] ELSE NoIndex)
      /\ next' = [next EXCEPT ![prev[head]] = next[head], ![head] = NoIndex]
      /\ prev' = [prev EXCEPT ![next[head]] = prev[head], ![head] = NoIndex]
      /\ count' = count - 1
  BY <1>1 DEF UnlinkHead
<1>6. Circle(Tail(q), head', next', prev')
  BY <1>4, <1>5
<1>7. /\ head = Head(q) /\ Len(Tail(q)) = count - 1
  BY <1>1
<1>8. Queued' = Tail(q) /\ count' \in Nat
  BY <1>5, <1>6, <1>7, QueuedNext
<1>9. /\ head \in ToSet(q)
      /\ ToSet(Tail(q)) = ToSet(q) \ {head} /\ NoDuplicates(Tail(q))
  BY <1>1, <1>7, TailElements
<1>10. SortedByPriority(Tail(q), mprio)
  BY <1>1, <1>2, TailSorted
<1>11. Circle(Queued, head, next, prev)'
  BY <1>6, <1>8 DEF Circle
<1>. QED  BY <1>1, <1>7, <1>8, <1>9, <1>10, <1>11 DEF q

\* How the blocked threads are kept: who is linked sleeps in a call on that
\* list; who is in no call is on no list; a call that may not be timed has no
\* timeout; a thread copies exactly while it has a block to copy from.
Waits ==
  /\ \A l \in Lists : NoDuplicates(lists[l])
  /\ \A l \in Lists : \A t \in ToSet(lists[l]) :
       waitsFor[t] = l /\ pc[t] = "asleep"
  /\ \A t \in Threads :
       waitsFor[t] \in Lists <=> pc[t] \in {"loop", "asleep", "woken"}
  /\ \A t \in Threads : waitsFor[t] \in Lists \ Timed => left[t] = Forever
  /\ \A t \in Threads : pc[t] = "copying" <=> src[t] # NoIndex

\* Link for a waiting list.
LEMMA LinkWaiting ==
  ASSUME NEW l \in Seq(Threads), NEW t \in Threads,
         NEW prio \in [Threads -> Nat]
  PROVE  /\ Link(l, t, prio) \in Seq(Threads)
         /\ ToSet(Link(l, t, prio)) = ToSet(l) \union {t}
         /\ NoDuplicates(l) /\ t \notin ToSet(l) =>
              NoDuplicates(Link(l, t, prio))
BY LinkElements

\* What the list operations make of the waiting lists.
LEMMA WaitingLists ==
  ASSUME Shape, Waits
  PROVE  /\ lists \in [Lists -> Seq(Threads)]
         /\ \A l \in Lists : lists[l] # <<>> =>
              /\ Head(lists[l]) \in Threads
              /\ Head(lists[l]) \in ToSet(lists[l])
              /\ Tail(lists[l]) \in Seq(Threads)
              /\ ToSet(Tail(lists[l])) = ToSet(lists[l]) \ {Head(lists[l])}
              /\ NoDuplicates(Tail(lists[l]))
         /\ \A l \in Lists, t \in Threads :
              /\ Link(lists[l], t, Prio) \in Seq(Threads)
              /\ ToSet(Link(lists[l], t, Prio)) = ToSet(lists[l]) \union {t}
              /\ t \notin ToSet(lists[l])
                   => NoDuplicates(Link(lists[l], t, Prio))
         /\ \A l \in Lists, t \in Threads :
              /\ Unlink(lists[l], t) \in Seq(Threads)
              /\ ToSet(Unlink(lists[l], t)) = ToSet(lists[l]) \ {t}
              /\ NoDuplicates(Unlink(lists[l], t))
<1>1. lists \in [Lists -> Seq(Threads)]
  BY DEF Shape, BlockingTypeOK
<1>2. \A l \in Lists : lists[l] \in Seq(Threads) /\ NoDuplicates(lists[l])
  BY <1>1 DEF Waits
<1>3. Prio \in [Threads -> Nat]
  BY ThreadsAssumption
<1>4. ASSUME NEW l \in Lists, lists[l] # <<>>
      PROVE  /\ Head(lists[l]) \in Threads /\ Head(lists[l]) \in ToSet(lists[l])
             /\ Tail(lists[l]) \in Seq(Threads)
             /\ ToSet(Tail(lists[l])) = ToSet(lists[l]) \ {Head(lists[l])}
             /\ NoDuplicates(Tail(lists[l]))
  BY <1>2, <1>4, TailElements
<1>5. ASSUME NEW l \in Lists, NEW t \in Threads
      PROVE  /\ Link(lists[l], t, Prio) \in Seq(Threads)
             /\ ToSet(Link(lists[l], t, Prio)) = ToSet(lists[l]) \union {t}
             /\ t \notin ToSet(lists[l]) =>
                  NoDuplicates(Link(lists[l], t, Prio))
  BY <1>2, <1>3, LinkWaiting
<1>6. ASSUME NEW l \in Lists, NEW t \in Threads
      PROVE  /\ Unlink(lists[l], t) \in Seq(Threads)
             /\ ToSet(Unlink(lists[l], t)) = ToSet(lists[l]) \ {t}
             /\ NoDuplicates(Unlink(lists[l], t))
  BY <1>2, UnlinkElements
<1>. QED  BY <1>1, <1>4, <1>5, <1>6

-----------------------------------------------------------------------------
\* The steps as the blocked threads see them.  First what a wake-up does to
\* the lists and to the set of suspended threads: per list, at most the head
\* leaves, or all do.
Shrinks ==
  /\ lists' = [l \in Lists |-> lists'[l]]
  /\ \A l \in Lists : \/ lists'[l] = lists[l] \/ lists'[l] = <<>>
                      \/ lists[l] # <<>> /\ lists'[l] = Tail(lists[l])
  /\ suspended' \subseteq suspended

\* Places outside the loop of a blocking call and outside the copy.
Elsewhere == {"app", "freed", "resuming", "reset", "resuming_all"}

Labels == Elsewhere \union {"loop", "asleep", "woken", "copying"}

Enters(t) ==
  /\ \E l \in Lists : \E timeout \in TimeoutsOf(l) : EnterLoop(t, l, timeout)
  /\ UNCHANGED src

Suspends(t) == (\E l \in Lists : SuspendOn(t, l)) /\ UNCHANGED src

Leaves(t) ==
  /\ pc[t] \in {"app", "loop", "woken"} /\ LeaveFor(t, "app")
  /\ Shrinks /\ UNCHANGED <<timers, popped, src>>

LeavesToCopy(t) ==
  /\ pc[t] \in {"app", "loop"} /\ LeaveFor(t, "copying")
  /\ head \in Blocks /\ src' = [src EXCEPT ![t] = head]
  /\ UNCHANGED <<lists, suspended, timers, popped>>

Copies(t) ==
  /\ pc[t] = "copying" /\ Goto(t, "app")
  /\ src' = [src EXCEPT ![t] = NoIndex]
  /\ Shrinks /\ UNCHANGED <<waitsFor, timers, left, popped>>

MovesOn(t) ==
  /\ pc[t] \in Elsewhere /\ (\E label \in Elsewhere : Goto(t, label))
  /\ popped' \in [Threads -> Threads \union {NoThread}]
  /\ Shrinks /\ UNCHANGED <<waitsFor, timers, left, src>>

Interrupts == Shrinks /\ UNCHANGED <<waitsFor, timers, left, pc, popped, src>>

Waiting(t) ==
  \/ Enters(t) \/ Suspends(t) \/ Leaves(t) \/ LeavesToCopy(t) \/ Copies(t)
  \/ MovesOn(t)
  \/ (UnlinkNode(t) \/ Retry(t)) /\ UNCHANGED src

\* resume_one, resume_all and the pop of one waiter only take nodes out of
\* the waiting lists.
LEMMA ShrinkingLists ==
  ASSUME Shape
  PROVE  /\ UNCHANGED lists /\ suspended' \subseteq suspended => Shrinks
         /\ \A l \in Lists : ResumeOne(l) => Shrinks
         /\ \A ls \in SUBSET Lists : ResumeAll(ls) => Shrinks
         /\ \A l \in Lists : \A t \in Threads : \A here, there :
              PopWaiter(t, l, here, there) => Shrinks
<1>1. /\ lists \in [Lists -> Seq(Threads)] /\ lists = [l \in Lists |-> lists[l]]
      /\ suspended \subseteq Threads
  BY DEF Shape, BlockingTypeOK
<1>2. UNCHANGED lists /\ suspended' \subseteq suspended => Shrinks
  BY <1>1 DEF Shrinks
<1>3. ASSUME NEW k \in Lists, ResumeOne(k)
      PROVE  Shrinks
  BY <1>1, <1>3 DEF Shrinks, ResumeOne
<1>4. ASSUME NEW ls \in SUBSET Lists, ResumeAll(ls)
      PROVE  Shrinks
  BY <1>1, <1>4 DEF Shrinks, ResumeAll
<1>5. ASSUME NEW k \in Lists, NEW t \in Threads, NEW here, NEW there,
             PopWaiter(t, k, here, there)
      PROVE  Shrinks
  BY <1>1, <1>5 DEF Shrinks, PopWaiter
<1>. QED  BY <1>2, <1>3, <1>4, <1>5

\* What a step does to the threads: the turn of one thread, a routine or the
\* clock.
LEMMA NextSeenWaiting ==
  ASSUME Shape, Waits, [Next]_vars
  PROVE  (\E t \in Threads : Waiting(t)) \/ Interrupts
           \/ (ClockTick /\ UNCHANGED src)
<1>0. /\ Lists = {"pool", "send", "receive"}
      /\ Producers \subseteq Threads /\ Consumers \subseteq Threads
  BY MailAssumption
<1>. USE DEF Waiting
<1>1. CASE UNCHANGED vars
  BY <1>1, ShrinkingLists DEF vars, kernelVars, queueVars, Interrupts
<1>2. ASSUME NEW t \in Threads, Alloc(t)
      PROVE  Waiting(t)
  <2>1. CASE \E b \in PoolBlocks : AllocTakes(t, b)
    <3>1. pc[t] \in {"app", "loop"} /\ UNCHANGED src
      BY <1>2, <2>1 DEF Alloc, AllocTakes, Trying, At, queueVars
    <3>2. Leaves(t)
      BY <2>1, <3>1, ShrinkingLists DEF AllocTakes, Leaves
    <3>. QED  BY <3>2
  <2>2. CASE \E timeout \in TimeoutsOf("pool") : AllocEnters(t, timeout)
    BY <1>0, <1>2, <2>2 DEF Alloc, AllocEnters, Enters, queueVars
  <2>3. CASE AllocSuspends(t)
    BY <1>0, <1>2, <2>3 DEF Alloc, AllocSuspends, Suspends, queueVars
  <2>. QED  BY <1>2, <2>1, <2>2, <2>3 DEF Alloc
<1>3. ASSUME NEW t \in Threads, Put(t)
      PROVE  Waiting(t)
  <2>1. CASE \E p \in MsgPriorities : SendTakes(t, holds[t], p)
    <3>1. PICK p \in MsgPriorities : SendTakes(t, holds[t], p)
      BY <2>1
    <3>2. pc[t] \in {"app", "loop"} /\ UNCHANGED src /\ ResumeOne("receive")
      BY <3>1 DEF SendTakes, TrySend, Trying, At
    <3>3. Leaves(t)
      BY <1>0, <3>1, <3>2, ShrinkingLists DEF SendTakes, Leaves
    <3>. QED  BY <3>3
  <2>2. CASE \E timeout \in TimeoutsOf("send") : SendEnters(t, timeout)
    BY <1>0, <2>2 DEF SendEnters, TrySendFails, Enters, queueVars
  <2>3. CASE SendSuspends(t)
    BY <1>0, <2>3 DEF SendSuspends, TrySendFails, Suspends, queueVars
  <2>. QED  BY <1>3, <2>1, <2>2, <2>3 DEF Put
<1>4. ASSUME NEW t \in Threads, Get(t)
      PROVE  Waiting(t)
  <2>1. CASE ReceiveTakes(t)
    <3>1. head \in Blocks
      BY <2>1 DEF ReceiveTakes, UnlinkHead, Shape
    <3>2. pc[t] \in {"app", "loop"}
      BY <2>1 DEF ReceiveTakes, Trying, At
    <3>. QED  BY <2>1, <3>1, <3>2 DEF ReceiveTakes, LeavesToCopy
  <2>2. CASE ReceiveCopies(t)
    BY <1>0, <2>2, ShrinkingLists DEF ReceiveCopies, Release, At, Copies
  <2>3. CASE \E timeout \in TimeoutsOf("receive") : ReceiveEnters(t, timeout)
    BY <1>0, <2>3 DEF ReceiveEnters, ReceiveFails, Enters, queueVars
  <2>4. CASE ReceiveSuspends(t)
    BY <1>0, <2>4 DEF ReceiveSuspends, ReceiveFails, Suspends, queueVars
  <2>. QED  BY <1>4, <2>1, <2>2, <2>3, <2>4 DEF Get
<1>5. popped \in [Threads -> Threads \union {NoThread}]
  BY DEF Shape, BlockingTypeOK
<1>6. \A l \in Lists : lists[l] # <<>> => Head(lists[l]) \in Threads
  BY WaitingLists
<1>7. ASSUME NEW t \in Threads, GiveAway(t)
      PROVE  Waiting(t)
  <2>0. UNCHANGED src
    BY <1>7 DEF GiveAway, queueVars
  <2>1. CASE \E b : Free(t, b)
    BY <1>5, <2>0, <2>1, ShrinkingLists DEF Free, At, MovesOn, Elsewhere
  <2>2. CASE FreePops(t)
    <3>1. Shrinks
      BY <1>0, <2>2, ShrinkingLists DEF FreePops
    <3>. QED  BY <1>0, <1>5, <1>6, <2>0, <2>2, <3>1
                 DEF FreePops, PopWaiter, At, MovesOn, Elsewhere
  <2>3. CASE FreeWakesNobody(t)
    BY <1>5, <2>0, <2>3, ShrinkingLists
       DEF FreeWakesNobody, NobodyWaits, At, MovesOn, Elsewhere
  <2>4. CASE FreeResumes(t)
    BY <1>5, <2>0, <2>4, ShrinkingLists
       DEF FreeResumes, ResumePopped, At, MovesOn, Elsewhere
  <2>. QED  BY <1>7, <2>1, <2>2, <2>3, <2>4 DEF GiveAway
<1>8. CASE ISRAlloc
  BY <1>8, ShrinkingLists
     DEF ISRAlloc, AllocFromISR, kernelVars, queueVars, Interrupts
<1>9. CASE ISRSends
  BY <1>0, <1>9, ShrinkingLists DEF ISRSends, SendFromISR, TrySend, Interrupts
<1>10. CASE ISRReceives
  BY <1>0, <1>10, ShrinkingLists
     DEF ISRReceives, ReceiveFromISR, Release, Interrupts
<1>11. CASE ISRFrees
  BY <1>0, <1>11, ShrinkingLists DEF ISRFrees, FreeFromISR, queueVars,
     Interrupts
<1>12. ASSUME NEW t \in Threads, ResetQueue(t)
       PROVE  Interrupts
  BY <1>0, <1>12, ShrinkingLists DEF ResetQueue, QueueReset, Interrupts
<1>13. ASSUME NEW t \in Threads, ResetPool(t)
       PROVE  Waiting(t)
  <2>0. UNCHANGED src
    BY <1>13 DEF ResetPool, queueVars
  <2>1. CASE PoolReset(t)
    BY <1>5, <2>0, <2>1, ShrinkingLists DEF PoolReset, At, MovesOn, Elsewhere
  <2>2. CASE ResetPops(t)
    <3>1. Shrinks
      BY <1>0, <2>2, ShrinkingLists DEF ResetPops
    <3>. QED  BY <1>0, <1>5, <1>6, <2>0, <2>2, <3>1
                 DEF ResetPops, PopWaiter, At, MovesOn, Elsewhere
  <2>3. CASE ResetEnds(t)
    BY <1>5, <2>0, <2>3, ShrinkingLists
       DEF ResetEnds, NobodyWaits, At, MovesOn, Elsewhere
  <2>4. CASE ResetResumes(t)
    BY <1>5, <2>0, <2>4, ShrinkingLists
       DEF ResetResumes, ResumePopped, At, MovesOn, Elsewhere
  <2>. QED  BY <1>13, <2>1, <2>2, <2>3, <2>4 DEF ResetPool
<1>14. ASSUME NEW t \in Threads, Step(t)
       PROVE  Waiting(t)
  <2>0. UNCHANGED src
    BY <1>14 DEF Step, queueVars
  <2>1. CASE GiveUp(t)
    BY <2>0, <2>1, ShrinkingLists DEF GiveUp, At, Leaves
  <2>. QED  BY <1>14, <2>0, <2>1 DEF Step
<1>15. ASSUME NEW t \in Threads, Resumed(t)
       PROVE  Interrupts
  BY <1>15, ShrinkingLists DEF Resumed, SpuriousResume, queueVars, Interrupts
<1>16. CASE Tick
  BY <1>16 DEF Tick, queueVars
<1>. QED  BY <1>0, <1>1, <1>2, <1>3, <1>4, <1>7, <1>8, <1>9, <1>10, <1>11,
          <1>12, <1>13, <1>14, <1>15, <1>16 DEF Next

KernelShape == BlockingTypeOK /\ pc \in [Threads -> Labels]

\* Lists that shrink keep their types and stay free of duplicates.
LEMMA ShrunkLists ==
  ASSUME Shape, Waits, Shrinks
  PROVE  /\ lists' \in [Lists -> Seq(Threads)]
         /\ suspended' \subseteq Threads
         /\ \A l \in Lists :
              /\ NoDuplicates(lists'[l])
              /\ ToSet(lists'[l]) \subseteq ToSet(lists[l])
<1>1. /\ lists \in [Lists -> Seq(Threads)]
      /\ \A l \in Lists : lists[l] # <<>> =>
           /\ Tail(lists[l]) \in Seq(Threads)
           /\ ToSet(Tail(lists[l])) = ToSet(lists[l]) \ {Head(lists[l])}
           /\ NoDuplicates(Tail(lists[l]))
  BY WaitingLists
<1>2. \A l \in Lists : NoDuplicates(lists[l])
  BY DEF Waits
<1>3. /\ <<>> \in Seq(Threads) /\ NoDuplicates(<<>>) /\ ToSet(<<>>) = {}
  BY DEF NoDuplicates, ToSet
<1>4. ASSUME NEW l \in Lists
      PROVE  /\ lists'[l] \in Seq(Threads) /\ NoDuplicates(lists'[l])
             /\ ToSet(lists'[l]) \subseteq ToSet(lists[l])
  <2>1. CASE lists'[l] = lists[l]
    BY <1>1, <1>2, <2>1
  <2>2. CASE lists'[l] = <<>>
    BY <1>3, <2>2
  <2>3. CASE lists[l] # <<>> /\ lists'[l] = Tail(lists[l])
    BY <1>1, <2>3
  <2>. QED  BY <2>1, <2>2, <2>3 DEF Shrinks
<1>5. lists' = [l \in Lists |-> lists'[l]]
  BY DEF Shrinks
<1>6. lists' \in [Lists -> Seq(Threads)]
  BY <1>4, <1>5
<1>7. suspended' \subseteq Threads
  BY DEF Shrinks, Shape, BlockingTypeOK
<1>. QED  BY <1>4, <1>6, <1>7

\* Waits for steps that shrink the lists and move thread t, which sleeps
\* neither before nor after.
LEMMA ShrinkingKeepsWaits ==
  ASSUME Shape, Waits, Shrinks, NEW t \in Threads,
         pc[t] # "asleep", pc'[t] # "asleep",
         \A u \in Threads \ {t} :
           /\ pc'[u] = pc[u] /\ waitsFor'[u] = waitsFor[u]
           /\ left'[u] = left[u] /\ src'[u] = src[u],
         waitsFor'[t] \in Lists <=> pc'[t] \in {"loop", "woken"},
         waitsFor'[t] \in Lists \ Timed => left'[t] = Forever,
         pc'[t] = "copying" <=> src'[t] # NoIndex
  PROVE  Waits'
<1>1. /\ lists' \in [Lists -> Seq(Threads)]
      /\ \A l \in Lists : NoDuplicates(lists'[l])
                            /\ ToSet(lists'[l]) \subseteq ToSet(lists[l])
  BY ShrunkLists
<1>2. \A l \in Lists : lists[l] \in Seq(Threads)
  BY DEF Shape, BlockingTypeOK
<1>3. ASSUME NEW l \in Lists, NEW u \in ToSet(lists'[l])
      PROVE  waitsFor'[u] = l /\ pc'[u] = "asleep"
  <2>1. u \in ToSet(lists[l]) /\ u \in Threads
    <3>1. u \in ToSet(lists[l])
      BY <1>1
    <3>2. lists[l] \in Seq(Threads)
      BY <1>2
    <3>. QED  BY <3>1, <3>2 DEF ToSet
  <2>2. waitsFor[u] = l /\ pc[u] = "asleep" /\ u # t
    BY <2>1 DEF Waits
  <2>. QED  BY <2>1, <2>2
<1>4. ASSUME NEW u \in Threads
      PROVE  /\ waitsFor'[u] \in Lists
                  <=> pc'[u] \in {"loop", "asleep", "woken"}
             /\ waitsFor'[u] \in Lists \ Timed => left'[u] = Forever
             /\ pc'[u] = "copying" <=> src'[u] # NoIndex
  <2>1. CASE u = t
    BY <2>1
  <2>2. CASE u # t
    BY <2>2 DEF Waits
  <2>. QED  BY <2>1, <2>2
<1>. QED  BY <1>1, <1>3, <1>4 DEF Waits

\* One thread's step of the common blocking loop keeps the waiting lists and
\* the threads in agreement.
LEMMA WaitingStep ==
  ASSUME Shape, Waits, NEW t \in Threads, Waiting(t)
  PROVE  KernelShape' /\ Waits'
<1>1. /\ lists \in [Lists -> Seq(Threads)]
      /\ waitsFor \in [Threads -> Lists \union {NoList}]
      /\ suspended \subseteq Threads
      /\ timers \subseteq Threads
      /\ left \in [Threads -> Nat \union {Forever}]
      /\ popped \in [Threads -> Threads \union {NoThread}]
      /\ pc \in [Threads -> Labels]
      /\ src \in [Threads -> Blocks \union {NoIndex}]
  BY DEF Shape, BlockingTypeOK, Labels, Elsewhere
<1>2. /\ NoList \notin Lists /\ NoIndex \notin Blocks
      /\ \A l : TimeoutsOf(l) \subseteq Nat \union {Forever}
      /\ \A l : l \notin Timed => TimeoutsOf(l) = {Forever}
  BY ListsAssumption, BlocksAssumption, MailAssumption DEF TimeoutsOf
<1>3. Shrinks => /\ lists' \in [Lists -> Seq(Threads)]
                 /\ suspended' \subseteq Threads
  BY ShrunkLists
<1>4. UNCHANGED <<lists, suspended>> => Shrinks
  BY ShrinkingLists
<1>5. CASE Enters(t)
  <2>0. PICK l \in Lists :
          \E timeout \in TimeoutsOf(l) : EnterLoop(t, l, timeout)
    BY <1>5 DEF Enters
  <2>1. PICK timeout \in TimeoutsOf(l) : EnterLoop(t, l, timeout)
    BY <2>0
  <2>2. /\ pc[t] = "app" /\ pc' = [pc EXCEPT ![t] = "loop"]
        /\ waitsFor' = [waitsFor EXCEPT ![t] = l]
        /\ left' = [left EXCEPT ![t] = timeout]
        /\ UNCHANGED <<lists, suspended, timers, popped, src>>
    BY <1>5, <2>1 DEF Enters, EnterLoop, At, Goto
  <2>3. KernelShape'
    BY <1>1, <1>2, <2>2 DEF KernelShape, BlockingTypeOK, Labels
  <2>4. pc[t] = "copying" <=> src[t] # NoIndex
    BY DEF Waits
  <2>5. Waits'
    BY <1>1, <1>2, <1>4, <2>2, <2>4, ShrinkingKeepsWaits
  <2>. QED  BY <2>3, <2>5
<1>6. CASE Suspends(t)
  <2>1. PICK l \in Lists : SuspendOn(t, l)
    BY <1>6 DEF Suspends
  <2>2. /\ pc[t] = "loop" /\ waitsFor[t] = l
        /\ lists' = [lists EXCEPT ![l] = Link(lists[l], t, Prio)]
        /\ suspended' = suspended \union {t}
        /\ timers' \subseteq timers \union {t}
        /\ pc' = [pc EXCEPT ![t] = "asleep"]
        /\ UNCHANGED <<waitsFor, left, popped, src>>
    BY <1>6, <2>1 DEF Suspends, SuspendOn, At, Goto
  <2>3. \A k \in Lists : t \notin ToSet(lists[k])
    BY <2>2 DEF Waits
  <2>4. /\ Link(lists[l], t, Prio) \in Seq(Threads)
        /\ ToSet(Link(lists[l], t, Prio)) = ToSet(lists[l]) \union {t}
        /\ NoDuplicates(Link(lists[l], t, Prio))
    BY <2>3, WaitingLists
  <2>5. KernelShape'
    BY <1>1, <2>2, <2>4 DEF KernelShape, BlockingTypeOK, Labels
  <2>6. /\ lists'[l] = Link(lists[l], t, Prio)
        /\ \A k \in Lists \ {l} : lists'[k] = lists[k]
    BY <1>1, <2>2
  <2>7. \A k \in Lists : NoDuplicates(lists'[k])
    BY <2>4, <2>6 DEF Waits
  <2>8. ASSUME NEW k \in Lists, NEW u \in ToSet(lists'[k])
        PROVE  waitsFor'[u] = k /\ pc'[u] = "asleep"
    <3>1. CASE u = t
      <4>1. k = l
        BY <2>3, <2>6, <3>1
      <4>. QED  BY <1>1, <2>2, <3>1, <4>1
    <3>2. CASE u # t
      <4>1. u \in ToSet(lists[k])
        BY <2>4, <2>6, <3>2
      <4>2. waitsFor[u] = k /\ pc[u] = "asleep"
        BY <4>1 DEF Waits
      <4>3. u \in Threads
        BY <1>1, <4>1 DEF ToSet
      <4>. QED  BY <1>1, <2>2, <3>2, <4>2, <4>3
    <3>. QED  BY <3>1, <3>2
  <2>9. ASSUME NEW u \in Threads
        PROVE  /\ waitsFor'[u] \in Lists
                    <=> pc'[u] \in {"loop", "asleep", "woken"}
               /\ waitsFor'[u] \in Lists \ Timed => left'[u] = Forever
               /\ pc'[u] = "copying" <=> src'[u] # NoIndex
    BY <1>1, <2>2 DEF Waits
  <2>10. Waits'
    BY <2>7, <2>8, <2>9 DEF Waits
  <2>. QED  BY <2>5, <2>10
<1>7. CASE Leaves(t)
  <2>1. /\ pc[t] \in {"app", "loop", "woken"} /\ pc' = [pc EXCEPT ![t] = "app"]
        /\ waitsFor' = [waitsFor EXCEPT ![t] = NoList]
        /\ left' = [left EXCEPT ![t] = Forever]
        /\ Shrinks /\ UNCHANGED <<timers, popped, src>>
    BY <1>7 DEF Leaves, LeaveFor, Goto
  <2>2. KernelShape'
    BY <1>1, <1>3, <2>1 DEF KernelShape, BlockingTypeOK, Labels, Elsewhere
  <2>3. src[t] = NoIndex
    BY <2>1 DEF Waits
  <2>4. Waits'
    BY <1>1, <1>2, <2>1, <2>3, ShrinkingKeepsWaits
  <2>. QED  BY <2>2, <2>4
<1>8. CASE LeavesToCopy(t)
  <2>1. /\ pc[t] \in {"app", "loop"} /\ pc' = [pc EXCEPT ![t] = "copying"]
        /\ waitsFor' = [waitsFor EXCEPT ![t] = NoList]
        /\ left' = [left EXCEPT ![t] = Forever]
        /\ head \in Blocks /\ src' = [src EXCEPT ![t] = head]
        /\ Shrinks /\ UNCHANGED <<lists, suspended, timers, popped>>
    BY <1>4, <1>8 DEF LeavesToCopy, LeaveFor, Goto
  <2>2. KernelShape'
    BY <1>1, <2>1 DEF KernelShape, BlockingTypeOK, Labels
  <2>3. Waits'
    BY <1>1, <1>2, <2>1, ShrinkingKeepsWaits
  <2>. QED  BY <2>2, <2>3
<1>9. CASE Copies(t)
  <2>1. /\ pc[t] = "copying" /\ pc' = [pc EXCEPT ![t] = "app"]
        /\ src' = [src EXCEPT ![t] = NoIndex]
        /\ Shrinks /\ UNCHANGED <<waitsFor, timers, left, popped>>
    BY <1>9 DEF Copies, Goto
  <2>2. KernelShape'
    BY <1>1, <1>3, <2>1 DEF KernelShape, BlockingTypeOK, Labels, Elsewhere
  <2>3. waitsFor[t] \notin Lists
    BY <2>1 DEF Waits
  <2>4. Waits'
    BY <1>1, <1>2, <2>1, <2>3, ShrinkingKeepsWaits
  <2>. QED  BY <2>2, <2>4
<1>10. CASE MovesOn(t)
  <2>1. PICK label \in Elsewhere :
          /\ pc[t] \in Elsewhere /\ pc' = [pc EXCEPT ![t] = label]
          /\ popped' \in [Threads -> Threads \union {NoThread}]
          /\ Shrinks /\ UNCHANGED <<waitsFor, timers, left, src>>
    BY <1>10 DEF MovesOn, Goto
  <2>2. KernelShape'
    BY <1>1, <1>3, <2>1 DEF KernelShape, BlockingTypeOK, Labels
  <2>3. /\ pc[t] \notin {"loop", "asleep", "woken", "copying"}
        /\ label \notin {"loop", "asleep", "woken", "copying"}
    BY <2>1 DEF Elsewhere
  <2>4. waitsFor[t] \notin Lists /\ src[t] = NoIndex
    BY <2>3 DEF Waits
  <2>5. Waits'
    BY <1>1, <2>1, <2>3, <2>4, ShrinkingKeepsWaits
  <2>. QED  BY <2>2, <2>5
<1>11. CASE UnlinkNode(t) /\ UNCHANGED src
  <2>. DEFINE l == waitsFor[t]
  <2>1. /\ pc[t] = "asleep" /\ l \in Lists
        /\ lists' = [lists EXCEPT ![l] = Unlink(lists[l], t)]
        /\ timers' = timers \ {t} /\ pc' = [pc EXCEPT ![t] = "woken"]
        /\ UNCHANGED <<waitsFor, suspended, left, popped, src>>
    BY <1>11 DEF UnlinkNode, At, Goto, Waits
  <2>2. /\ Unlink(lists[l], t) \in Seq(Threads)
        /\ ToSet(Unlink(lists[l], t)) = ToSet(lists[l]) \ {t}
        /\ NoDuplicates(Unlink(lists[l], t))
    BY <2>1, WaitingLists
  <2>3. KernelShape'
    BY <1>1, <2>1, <2>2 DEF KernelShape, BlockingTypeOK, Labels
  <2>4. /\ lists'[l] = Unlink(lists[l], t)
        /\ \A k \in Lists \ {l} : lists'[k] = lists[k]
    BY <1>1, <2>1
  <2>5. \A k \in Lists : NoDuplicates(lists'[k])
    BY <2>2, <2>4 DEF Waits
  <2>6. ASSUME NEW k \in Lists, NEW u \in ToSet(lists'[k])
        PROVE  waitsFor'[u] = k /\ pc'[u] = "asleep"
    <3>1. u \in ToSet(lists[k])
      BY <2>2, <2>4
    <3>2. waitsFor[u] = k /\ pc[u] = "asleep" /\ u \in Threads
      BY <1>1, <3>1 DEF Waits, ToSet
    <3>3. u # t
      BY <2>2, <2>4, <3>2
    <3>. QED  BY <1>1, <2>1, <3>2, <3>3
  <2>7. ASSUME NEW u \in Threads
        PROVE  /\ waitsFor'[u] \in Lists
                    <=> pc'[u] \in {"loop", "asleep", "woken"}
               /\ waitsFor'[u] \in Lists \ Timed => left'[u] = Forever
               /\ pc'[u] = "copying" <=> src'[u] # NoIndex
    BY <1>1, <2>1 DEF Waits
  <2>8. Waits'
    BY <2>5, <2>6, <2>7 DEF Waits
  <2>. QED  BY <2>3, <2>8
<1>12. CASE Retry(t) /\ UNCHANGED src
  <2>1. /\ pc[t] = "woken" /\ pc' = [pc EXCEPT ![t] = "loop"]
        /\ Shrinks /\ UNCHANGED <<waitsFor, timers, left, popped, src>>
    BY <1>4, <1>12 DEF Retry, At, Goto
  <2>2. KernelShape'
    BY <1>1, <1>3, <2>1 DEF KernelShape, BlockingTypeOK, Labels
  <2>3. /\ waitsFor[t] \in Lists /\ src[t] = NoIndex
        /\ waitsFor[t] \in Lists \ Timed => left[t] = Forever
    BY <2>1 DEF Waits
  <2>4. Waits'
    BY <1>1, <2>1, <2>3, ShrinkingKeepsWaits
  <2>. QED  BY <2>2, <2>4
<1>. QED  BY <1>5, <1>6, <1>7, <1>8, <1>9, <1>10, <1>11, <1>12 DEF Waiting

\* So does every step.
LEMMA WaitsStep ==
  ASSUME Shape, Waits, [Next]_vars
  PROVE  KernelShape' /\ Waits'
<1>1. /\ lists \in [Lists -> Seq(Threads)]
      /\ waitsFor \in [Threads -> Lists \union {NoList}]
      /\ suspended \subseteq Threads
      /\ timers \subseteq Threads
      /\ left \in [Threads -> Nat \union {Forever}]
      /\ popped \in [Threads -> Threads \union {NoThread}]
      /\ pc \in [Threads -> Labels]
  BY DEF Shape, BlockingTypeOK, Labels, Elsewhere
<1>2. CASE \E t \in Threads : Waiting(t)
  BY <1>2, WaitingStep
<1>3. CASE Interrupts
  <2>1. /\ lists' \in [Lists -> Seq(Threads)] /\ suspended' \subseteq Threads
        /\ \A l \in Lists : NoDuplicates(lists'[l])
                              /\ ToSet(lists'[l]) \subseteq ToSet(lists[l])
    BY <1>3, ShrunkLists DEF Interrupts
  <2>2. UNCHANGED <<waitsFor, timers, left, pc, popped, src>>
    BY <1>3 DEF Interrupts
  <2>3. KernelShape'
    BY <1>1, <2>1, <2>2 DEF KernelShape, BlockingTypeOK
  <2>4. Waits'
    BY <2>1, <2>2 DEF Waits
  <2>. QED  BY <2>3, <2>4
<1>4. CASE ClockTick /\ UNCHANGED src
  <2>1. /\ left'
             = [t \in Threads |-> IF left[t] > 0 THEN left[t] - 1 ELSE left[t]]
        /\ timers' \subseteq timers /\ suspended' \subseteq suspended
        /\ UNCHANGED <<lists, waitsFor, pc, popped, src>>
    BY <1>4 DEF ClockTick
  <2>2. \A t \in Threads : /\ left'[t] \in Nat \union {Forever}
                           /\ left[t] = Forever => left'[t] = Forever
    BY <1>1, <2>1 DEF Forever
  <2>3. left' \in [Threads -> Nat \union {Forever}]
    BY <2>1, <2>2
  <2>4. KernelShape'
    BY <1>1, <2>1, <2>3 DEF KernelShape, BlockingTypeOK
  <2>5. Waits'
    BY <2>1, <2>2 DEF Waits
  <2>. QED  BY <2>4, <2>5
<1>. QED  BY <1>2, <1>3, <1>4, NextSeenWaiting

-----------------------------------------------------------------------------
QueueShape ==
  /\ firstFree \in Seq(Blocks)
  /\ head \in Blocks \union {NoIndex}
  /\ prev \in [Blocks -> Blocks \union {NoIndex}]
  /\ next \in [Blocks -> Blocks \union {NoIndex}]
  /\ mprio \in [Blocks -> MsgPriorities \union {0}]
  /\ content \in [Blocks -> Messages \union {NoMessage}]
  /\ count \in Int
  /\ src \in [Threads -> Blocks \union {NoIndex}]

\* The steps as the storage of the queue sees them.
Sends(m, p) == TrySend(m, p)

Takes(t) ==
  /\ UnlinkHead /\ src[t] = NoIndex /\ src' = [src EXCEPT ![t] = head]
  /\ UNCHANGED <<firstFree, mprio, content>>

GivesBack(b) ==
  /\ firstFree' = <<b>> \o firstFree
  /\ content' = [content EXCEPT ![b] = NoMessage]
  /\ mprio' = [mprio EXCEPT ![b] = 0]

Returns(t) ==
  /\ src[t] # NoIndex /\ src' = [src EXCEPT ![t] = NoIndex]
  /\ GivesBack(src[t]) /\ UNCHANGED <<head, prev, next, count>>

TakesAtOnce == UnlinkHead /\ GivesBack(head) /\ UNCHANGED src

Clears ==
  /\ Copied = {} /\ InQueue = {}
  /\ firstFree' \in SetToSeqs(Blocks)
  /\ head' = NoIndex
  /\ prev' = NoLinks /\ next' = NoLinks
  /\ mprio' = [b \in Blocks |-> 0]
  /\ content' = [b \in Blocks |-> NoMessage]
  /\ count' = 0
  /\ UNCHANGED src

\* What a step does to the queue: it sends, takes, returns a block, clears,
\* or leaves the queue alone.
LEMMA NextSeenByQueue ==
  ASSUME Shape, Waits, [Next]_vars
  PROVE  \/ UNCHANGED queueVars
         \/ \E m \in Messages, p \in MsgPriorities : Sends(m, p)
         \/ \E t \in Threads : Takes(t) \/ Returns(t)
         \/ TakesAtOnce \/ Clears
<1>0. /\ Producers \subseteq Threads /\ Consumers \subseteq Threads
      /\ Messages = PoolBlocks \union {Event}
  BY MailAssumption
<1>1. CASE UNCHANGED vars
  BY <1>1 DEF vars
<1>2. ASSUME NEW t \in Threads, Alloc(t) \/ GiveAway(t) \/ ResetPool(t)
                                  \/ Step(t) \/ Resumed(t)
      PROVE  UNCHANGED queueVars
  BY <1>2 DEF Alloc, GiveAway, ResetPool, Step, Resumed
<1>3. CASE ISRAlloc \/ ISRFrees \/ Tick
  BY <1>3 DEF ISRAlloc, ISRFrees, Tick
<1>4. holds \in [Threads \union {ISR} -> PoolBlocks \union {NoMessage}]
  BY DEF Shape
<1>5. ASSUME NEW t \in Threads, Put(t)
      PROVE  UNCHANGED queueVars
               \/ \E m \in Messages, p \in MsgPriorities : Sends(m, p)
  <2>1. holds[t] \in Messages
    BY <1>0, <1>4, <1>5 DEF Put
  <2>. QED  BY <1>5, <2>1 DEF Put, SendTakes, SendEnters, SendSuspends,
            TrySendFails, Sends
<1>6. CASE ISRSends
  <2>1. holds[ISR] # NoMessage => holds[ISR] \in Messages
    BY <1>0, <1>4
  <2>2. \E m \in Messages, p \in MsgPriorities : Sends(m, p)
    BY <1>0, <1>6, <2>1 DEF ISRSends, SendFromISR, Sends
  <2>. QED  BY <2>2
<1>7. ASSUME NEW t \in Threads, Get(t)
      PROVE  UNCHANGED queueVars \/ Takes(t) \/ Returns(t)
  <2>1. CASE ReceiveTakes(t)
    <3>1. pc[t] # "copying"
      BY <2>1 DEF ReceiveTakes, Trying, At
    <3>2. src[t] = NoIndex
      BY <3>1 DEF Waits
    <3>. QED  BY <2>1, <3>2 DEF ReceiveTakes, Takes
  <2>2. CASE ReceiveCopies(t)
    <3>1. src[t] # NoIndex
      BY <2>2 DEF ReceiveCopies, At, Waits
    <3>. QED  BY <2>2, <3>1 DEF ReceiveCopies, Release, Returns, GivesBack
  <2>3. CASE ReceiveSuspends(t)
               \/ \E timeout \in TimeoutsOf("receive") :
                    ReceiveEnters(t, timeout)
    BY <2>3 DEF ReceiveSuspends, ReceiveEnters, ReceiveFails
  <2>. QED  BY <1>7, <2>1, <2>2, <2>3 DEF Get
<1>8. CASE ISRReceives
  BY <1>8 DEF ISRReceives, ReceiveFromISR, Release, TakesAtOnce, GivesBack
<1>9. ASSUME NEW t \in Threads, ResetQueue(t)
      PROVE  Clears
  BY <1>9 DEF ResetQueue, QueueReset, Clears
<1>. QED  BY <1>0, <1>1, <1>2, <1>3, <1>5, <1>6, <1>7, <1>8, <1>9 DEF Next

\* A block given back leaves the circle as it is.
LEMMA BlockGivenBack ==
  ASSUME Shape, NEW b \in Blocks, GivesBack(b),
         NoDuplicates(firstFree), b \notin ToSet(firstFree)
  PROVE  /\ firstFree' \in Seq(Blocks) /\ NoDuplicates(firstFree')
         /\ ToSet(firstFree') = ToSet(firstFree) \union {b}
         /\ Len(firstFree') = Len(firstFree) + 1
         /\ content'[b] = NoMessage
         /\ \A x \in Blocks \ {b} :
              content'[x] = content[x] /\ mprio'[x] = mprio[x]
         /\ content' \in [Blocks -> Messages \union {NoMessage}]
         /\ mprio' \in [Blocks -> MsgPriorities \union {0}]
<1>1. /\ firstFree \in Seq(Blocks)
      /\ content \in [Blocks -> Messages \union {NoMessage}]
      /\ mprio \in [Blocks -> MsgPriorities \union {0}]
  BY DEF Shape
<1>2. /\ firstFree' = <<b>> \o firstFree
      /\ content' = [content EXCEPT ![b] = NoMessage]
      /\ mprio' = [mprio EXCEPT ![b] = 0]
  BY DEF GivesBack
<1>. DEFINE one == <<b>>
<1>3. /\ one \in Seq(Blocks) /\ NoDuplicates(one) /\ ToSet(one) = {b}
      /\ Len(one) = 1
  BY DEF NoDuplicates, ToSet
<1>. HIDE DEF one
<1>4. NoDuplicates(one \o firstFree)
  BY <1>1, <1>3, ConcatDistinct
<1>5. /\ one \o firstFree \in Seq(Blocks)
      /\ Len(one \o firstFree) = Len(firstFree) + 1
      /\ ToSet(one \o firstFree) = ToSet(firstFree) \union {b}
  <2>1. /\ one \o firstFree \in Seq(Blocks)
        /\ Len(one \o firstFree) = Len(firstFree) + 1
    <3>1. /\ one \o firstFree \in Seq(Blocks)
          /\ Len(one \o firstFree) = Len(one) + Len(firstFree)
      BY <1>1, <1>3, ConcatProperties
    <3>2. Len(firstFree) \in Nat
      BY <1>1
    <3>. QED  BY <1>3, <3>1, <3>2
  <2>2. Range(one \o firstFree) = Range(one) \union Range(firstFree)
    BY <1>1, <1>3, RangeConcatenation
  <2>3. \A s : ToSet(s) = Range(s)
    BY DEF ToSet, Range
  <2>. QED  BY <1>3, <2>1, <2>2, <2>3
<1>6. firstFree' = one \o firstFree
  BY <1>2 DEF one
<1>. QED  BY <1>1, <1>2, <1>4, <1>5, <1>6

\* No step loses or shares a block of the queue.
LEMMA PlacedStep ==
  ASSUME Shape, Placed, Waits, [Next]_vars
  PROVE  Placed' /\ QueueShape'
<1>1. /\ QueueShape
      /\ mprio \in [Blocks -> MsgPriorities \union {0}]
      /\ content \in [Blocks -> Messages \union {NoMessage}]
      /\ src \in [Threads -> Blocks \union {NoIndex}]
      /\ firstFree \in Seq(Blocks)
  BY DEF Shape, QueueShape
<1>2. /\ Queued \in Seq(Blocks) /\ NoDuplicates(Queued)
      /\ head # NoIndex => head \in Blocks
  BY QueuedLength
<1>3. CASE UNCHANGED queueVars
  <2>1. Queued' = Queued /\ UNCHANGED <<mprio, content, firstFree, src, count>>
    BY <1>3 DEF Queued, queueVars
  <2>2. Placed'
    BY <1>3, <2>1 DEF Placed, Circle, SortedByPriority, NoDuplicates, queueVars
  <2>3. QueueShape'
    BY <1>1, <1>3 DEF QueueShape, queueVars
  <2>. QED  BY <2>2, <2>3
<1>4. ASSUME NEW m \in Messages, NEW p \in MsgPriorities, Sends(m, p)
      PROVE  Placed' /\ QueueShape'
  <2>1. /\ Placed' /\ head' \in Blocks
        /\ next' \in [Blocks -> Blocks \union {NoIndex}]
        /\ prev' \in [Blocks -> Blocks \union {NoIndex}]
    BY <1>4, SendPlaces DEF Sends
  <2>2. /\ firstFree' \in Seq(Blocks) /\ count' \in Int
        /\ content' \in [Blocks -> Messages \union {NoMessage}]
        /\ mprio' \in [Blocks -> MsgPriorities \union {0}]
        /\ src' \in [Threads -> Blocks \union {NoIndex}]
    BY <1>1, <1>4 DEF Sends, TrySend, QueueShape
  <2>. QED  BY <2>1, <2>2 DEF QueueShape
<1>5. ASSUME UnlinkHead
      PROVE  /\ Queued # <<>> /\ head \in Blocks
             /\ Queued' = Tail(Queued) /\ count' \in Nat
             /\ Circle(Queued, head, next, prev)'
             /\ ToSet(Queued') = ToSet(Queued) \ {head}
             /\ head \in ToSet(Queued) /\ head \notin ToSet(firstFree)
             /\ \A t \in Threads : src[t] # head
             /\ head' \in Blocks \union {NoIndex}
             /\ next' \in [Blocks -> Blocks \union {NoIndex}]
             /\ prev' \in [Blocks -> Blocks \union {NoIndex}]
  <2>1. /\ Queued # <<>> /\ head \in Blocks
        /\ Queued' = Tail(Queued) /\ count' \in Nat
        /\ Circle(Queued, head, next, prev)'
        /\ ToSet(Queued') = ToSet(Queued) \ {head}
        /\ head \in ToSet(Queued)
    BY <1>5, UnlinkTakesHead
  <2>2. head \notin ToSet(firstFree) /\ \A t \in Threads : src[t] # head
    BY <2>1, BlocksAssumption DEF Placed
  <2>3. /\ head' \in Blocks \union {NoIndex}
        /\ next' \in [Blocks -> Blocks \union {NoIndex}]
        /\ prev' \in [Blocks -> Blocks \union {NoIndex}]
    BY <1>1, <1>5, <2>1 DEF UnlinkHead, QueueShape
  <2>. QED  BY <2>1, <2>2, <2>3
<1>6. UnlinkHead => SortedByPriority(Queued', mprio)
  BY UnlinkTakesHead
<1>7. ASSUME NEW t \in Threads, Takes(t)
      PROVE  Placed' /\ QueueShape'
  <2>1. /\ UnlinkHead /\ src[t] = NoIndex /\ src' = [src EXCEPT ![t] = head]
        /\ firstFree' = firstFree /\ mprio' = mprio /\ content' = content
    BY <1>7 DEF Takes
  <2>2. /\ src'[t] = head /\ \A u \in Threads \ {t} : src'[u] = src[u]
    BY <1>1, <2>1
  <2>3. SortedByPriority(Queued, mprio)'
    BY <1>6, <2>1 DEF SortedByPriority
  <2>4. NoDuplicates(firstFree)'
    BY <2>1 DEF Placed, NoDuplicates
  <2>5. /\ ToSet(firstFree') \intersect ToSet(Queued') = {}
        /\ \A u \in Threads : src'[u] # NoIndex =>
             src'[u] \notin ToSet(firstFree') \union ToSet(Queued')
    BY <1>5, <2>1, <2>2 DEF Placed
  <2>6. \A u, v \in Threads : src'[u] # NoIndex /\ src'[u] = src'[v] => u = v
    BY <1>5, <2>1, <2>2 DEF Placed
  <2>7. ASSUME NEW b \in Blocks
        PROVE  /\ \/ b \in ToSet(firstFree') \union ToSet(Queued')
                  \/ \E u \in Threads : src'[u] = b
               /\ content'[b] = NoMessage <=> b \in ToSet(firstFree')
    <3>1. CASE b = head
      BY <1>5, <2>1, <2>2, <3>1 DEF Placed
    <3>2. CASE b # head
      <4>1. b # NoIndex
        BY BlocksAssumption
      <4>2. \A u \in Threads : src[u] = b => src'[u] = b
        BY <2>1, <2>2, <4>1
      <4>. QED  BY <1>5, <2>1, <3>2, <4>2 DEF Placed
    <3>. QED  BY <3>1, <3>2
  <2>8. Placed'
    BY <1>5, <2>1, <2>3, <2>4, <2>5, <2>6, <2>7 DEF Placed
  <2>9. QueueShape'
    BY <1>1, <1>5, <2>1 DEF QueueShape
  <2>. QED  BY <2>8, <2>9
<1>8. ASSUME NEW t \in Threads, Returns(t)
      PROVE  Placed' /\ QueueShape'
  <2>. DEFINE b == src[t]
  <2>1. /\ b # NoIndex /\ src' = [src EXCEPT ![t] = NoIndex] /\ GivesBack(b)
        /\ UNCHANGED <<head, prev, next, count>>
    BY <1>8 DEF Returns
  <2>2. /\ b \in Blocks /\ b \notin ToSet(firstFree) /\ b \notin ToSet(Queued)
        /\ NoDuplicates(firstFree)
    BY <1>1, <2>1 DEF Placed
  <2>3. /\ src'[t] = NoIndex /\ \A u \in Threads \ {t} : src'[u] = src[u]
        /\ \A u \in Threads \ {t} : src[u] # b
    BY <1>1, <2>1 DEF Placed
  <2>. HIDE DEF b
  <2>4. /\ firstFree' \in Seq(Blocks) /\ NoDuplicates(firstFree')
        /\ ToSet(firstFree') = ToSet(firstFree) \union {b}
        /\ content'[b] = NoMessage
        /\ \A x \in Blocks \ {b} :
             content'[x] = content[x] /\ mprio'[x] = mprio[x]
        /\ content' \in [Blocks -> Messages \union {NoMessage}]
        /\ mprio' \in [Blocks -> MsgPriorities \union {0}]
    BY <2>1, <2>2, BlockGivenBack
  <2>5. Queued' = Queued
    BY <2>1 DEF Queued
  <2>6. SortedByPriority(Queued, mprio)'
    <3>1. \A x \in ToSet(Queued) : mprio[x] = mprio'[x]
      <4>1. ToSet(Queued) \subseteq Blocks
        BY <1>2 DEF ToSet
      <4>. QED  BY <2>2, <2>4, <4>1
    <3>2. SortedByPriority(Queued, mprio)
      BY DEF Placed
    <3>3. SortedByPriority(Queued, mprio')
      BY <3>1, <3>2, SortedAgrees
    <3>. QED  BY <2>5, <3>3 DEF SortedByPriority
  <2>7. Circle(Queued, head, next, prev)' /\ count' \in Nat
    BY <2>1, <2>5 DEF Placed, Circle
  <2>8. ASSUME NEW x \in Blocks
        PROVE  /\ \/ x \in ToSet(firstFree') \union ToSet(Queued')
                  \/ \E u \in Threads : src'[u] = x
               /\ content'[x] = NoMessage <=> x \in ToSet(firstFree')
    <3>1. CASE x = b
      BY <2>4, <3>1
    <3>2. CASE x # b
      <4>1. \A u \in Threads : src[u] = x => src'[u] = x
        BY <2>3, <3>2 DEF b
      <4>. QED  BY <2>4, <2>5, <3>2, <4>1 DEF Placed
    <3>. QED  BY <3>1, <3>2
  <2>9. /\ ToSet(firstFree') \intersect ToSet(Queued') = {}
        /\ \A u \in Threads : src'[u] # NoIndex =>
             src'[u] \notin ToSet(firstFree') \union ToSet(Queued')
        /\ \A u, v \in Threads : src'[u] # NoIndex /\ src'[u] = src'[v] => u = v
    BY <2>2, <2>3, <2>4, <2>5 DEF Placed
  <2>10. Placed'
    BY <2>4, <2>6, <2>7, <2>8, <2>9 DEF Placed, NoDuplicates
  <2>11. QueueShape'
    BY <1>1, <2>1, <2>4 DEF QueueShape
  <2>. QED  BY <2>10, <2>11
<1>9. CASE TakesAtOnce
  <2>1. UnlinkHead /\ GivesBack(head) /\ src' = src
    BY <1>9 DEF TakesAtOnce
  <2>2. /\ head \in Blocks /\ NoDuplicates(firstFree)
        /\ head \notin ToSet(firstFree)
    BY <1>5, <2>1 DEF Placed
  <2>4. /\ firstFree' \in Seq(Blocks) /\ NoDuplicates(firstFree')
        /\ ToSet(firstFree') = ToSet(firstFree) \union {head}
        /\ content'[head] = NoMessage
        /\ \A x \in Blocks \ {head} :
             content'[x] = content[x] /\ mprio'[x] = mprio[x]
        /\ content' \in [Blocks -> Messages \union {NoMessage}]
        /\ mprio' \in [Blocks -> MsgPriorities \union {0}]
    BY <2>1, <2>2, BlockGivenBack
  <2>6. SortedByPriority(Queued, mprio)'
    <3>1. \A x \in ToSet(Queued') : mprio[x] = mprio'[x]
      <4>1. ToSet(Queued) \subseteq Blocks
        BY <1>2 DEF ToSet
      <4>. QED  BY <1>5, <2>1, <2>4, <4>1
    <3>2. SortedByPriority(Queued', mprio)
      BY <1>6, <2>1
    <3>3. SortedByPriority(Queued', mprio')
      BY <3>1, <3>2, SortedAgrees
    <3>. QED  BY <3>3 DEF SortedByPriority
  <2>8. ASSUME NEW x \in Blocks
        PROVE  /\ \/ x \in ToSet(firstFree') \union ToSet(Queued')
                  \/ \E u \in Threads : src'[u] = x
               /\ content'[x] = NoMessage <=> x \in ToSet(firstFree')
    <3>1. CASE x = head
      BY <2>4, <3>1
    <3>2. CASE x # head
      BY <1>5, <2>1, <2>4, <3>2 DEF Placed
    <3>. QED  BY <3>1, <3>2
  <2>9. /\ ToSet(firstFree') \intersect ToSet(Queued') = {}
        /\ \A u \in Threads : src'[u] # NoIndex =>
             src'[u] \notin ToSet(firstFree') \union ToSet(Queued')
        /\ \A u, v \in Threads : src'[u] # NoIndex /\ src'[u] = src'[v] => u = v
    BY <1>5, <2>1, <2>4 DEF Placed
  <2>10. Placed'
    BY <1>5, <2>1, <2>4, <2>6, <2>8, <2>9 DEF Placed, NoDuplicates
  <2>11. QueueShape'
    BY <1>1, <1>5, <2>1, <2>4 DEF QueueShape
  <2>. QED  BY <2>10, <2>11
<1>10. CASE Clears
  <2>1. /\ Copied = {}
        /\ firstFree' \in SetToSeqs(Blocks)
        /\ head' = NoIndex
        /\ prev' = NoLinks /\ next' = NoLinks
        /\ mprio' = [b \in Blocks |-> 0]
        /\ content' = [b \in Blocks |-> NoMessage]
        /\ count' = 0
        /\ UNCHANGED src
    BY <1>10 DEF Clears
  <2>2. /\ firstFree' \in Seq(Blocks) /\ NoDuplicates(firstFree')
        /\ ToSet(firstFree') = Blocks
    BY <2>1, SetToSeqsElements, BlocksAssumption
  <2>3. Queued' = <<>>
    BY <2>1 DEF Queued
  <2>4. ToSet(Queued') = {}
    BY <2>3 DEF ToSet
  <2>5. \A t \in Threads : src'[t] = NoIndex
    BY <2>1 DEF Copied
  <2>6. Circle(Queued, head, next, prev)'
    BY <2>1, <2>3 DEF Circle, NoDuplicates
  <2>7. SortedByPriority(Queued, mprio)'
    BY <2>3 DEF SortedByPriority
  <2>8. Placed'
    BY <2>1, <2>2, <2>4, <2>5, <2>6, <2>7 DEF Placed, NoDuplicates
  <2>9. QueueShape'
    BY <1>1, <2>1, <2>2 DEF QueueShape, NoLinks
  <2>. QED  BY <2>8, <2>9
<1>. QED  BY <1>3, <1>4, <1>7, <1>8, <1>9, <1>10, NextSeenByQueue

-----------------------------------------------------------------------------
\* Where the blocks of the pool are: in the chain of free ones, with an owner
\* or, by address, in one block of the queue, and nowhere twice; count_ of
\* the pool is what is out of the chain.
Actors == Threads \union {ISR}

Owned ==
  /\ NoDuplicates(first)
  /\ inUse = Cardinality(PoolBlocks) - Len(first)
  /\ \A a \in Actors : holds[a] # NoMessage => holds[a] \notin ToSet(first)
  /\ \A a, c \in Actors : holds[a] # NoMessage /\ holds[a] = holds[c] => a = c
  /\ \A b \in Blocks : content[b] \in PoolBlocks =>
       content[b] \notin ToSet(first) /\ \A a \in Actors : holds[a] # content[b]
  /\ \A b, d \in Blocks :
       content[b] \in PoolBlocks /\ content[b] = content[d] => b = d
  /\ \A x \in PoolBlocks :
       \/ x \in ToSet(first)
       \/ \E a \in Actors : holds[a] = x
       \/ \E b \in Blocks : content[b] = x

PoolShape ==
  /\ first \in Seq(PoolBlocks) /\ inUse \in Int
  /\ holds \in [Actors -> PoolBlocks \union {NoMessage}]

\* The steps as the blocks of the pool see them.
Allocates(a) ==
  /\ holds[a] = NoMessage
  /\ \E b \in PoolBlocks : TryFirst(b) /\ Own(a, b)
  /\ UNCHANGED content

Posts(a) ==
  /\ holds[a] # NoMessage
  /\ \E b \in Blocks : /\ content[b] = NoMessage
                       /\ content' = [content EXCEPT ![b] = holds[a]]
  /\ Own(a, NoMessage) /\ UNCHANGED poolVars

PostsEvent ==
  /\ \E b \in Blocks : /\ content[b] = NoMessage
                       /\ content' = [content EXCEPT ![b] = Event]
  /\ UNCHANGED <<poolVars, holds>>

Collects(a) ==
  /\ holds[a] = NoMessage
  /\ \E b \in Blocks : /\ content[b] # NoMessage
                       /\ content' = [content EXCEPT ![b] = NoMessage]
                       /\ Own(a, IF content[b] = Event THEN NoMessage
                                 ELSE content[b])
  /\ UNCHANGED poolVars

Frees(a) ==
  /\ holds[a] # NoMessage /\ GiveBack(holds[a]) /\ Own(a, NoMessage)
  /\ UNCHANGED content

Empties ==
  /\ content' = [b \in Blocks |-> NoMessage]
  /\ \A b \in Blocks : content[b] \notin PoolBlocks
  /\ UNCHANGED <<poolVars, holds>>

Rebuilds ==
  /\ inUse = 0 /\ first' \in SetToSeqs(PoolBlocks) /\ inUse' = 0
  /\ UNCHANGED <<holds, content>>

\* What a step does to the pool and to the owners of its blocks.
LEMMA NextSeenByPool ==
  ASSUME Shape, Placed, Waits, [Next]_vars
  PROVE  \/ UNCHANGED <<poolVars, holds, content>>
         \/ \E a \in Actors :
              Allocates(a) \/ Posts(a) \/ Collects(a) \/ Frees(a)
         \/ PostsEvent \/ Empties \/ Rebuilds
<1>0. /\ Producers \subseteq Threads /\ Consumers \subseteq Threads
      /\ Threads \subseteq Actors /\ ISR \in Actors
  BY MailAssumption DEF Actors
<1>1. ASSUME NEW m, NEW p, TrySend(m, p)
      PROVE  \E b \in Blocks : /\ content[b] = NoMessage
                               /\ content' = [content EXCEPT ![b] = m]
  <2>1. firstFree # <<>> /\ firstFree \in Seq(Blocks) /\ NoDuplicates(firstFree)
    BY <1>1 DEF TrySend, Shape, Placed
  <2>2. Head(firstFree) \in Blocks /\ Head(firstFree) \in ToSet(firstFree)
    BY <2>1, TailElements
  <2>3. content[Head(firstFree)] = NoMessage
    BY <2>2 DEF Placed
  <2>4. content' = [content EXCEPT ![Head(firstFree)] = m]
    BY <1>1 DEF TrySend
  <2>. QED  BY <2>2, <2>3, <2>4
<1>2. CASE UNCHANGED vars
  BY <1>2 DEF vars, queueVars
<1>3. ASSUME NEW t \in Threads, Alloc(t)
      PROVE  UNCHANGED <<poolVars, holds, content>> \/ Allocates(t)
  <2>1. UNCHANGED content
    BY <1>3 DEF Alloc, queueVars
  <2>. QED  BY <1>3, <2>1 DEF Alloc, AllocTakes, AllocEnters, AllocSuspends,
            NoneFree, Allocates
<1>4. ASSUME NEW t \in Threads, Put(t)
      PROVE  UNCHANGED <<poolVars, holds, content>> \/ Posts(t)
  <2>1. CASE \E p \in MsgPriorities :
               SendTakes(t, holds[t], p) /\ Own(t, NoMessage)
    <3>1. \E b \in Blocks : /\ content[b] = NoMessage
                            /\ content' = [content EXCEPT ![b] = holds[t]]
      BY <1>1, <2>1 DEF SendTakes
    <3>. QED  BY <1>4, <2>1, <3>1 DEF Put, Posts
  <2>2. CASE (SendSuspends(t) \/ \E timeout \in TimeoutsOf("send") :
                SendEnters(t, timeout)) /\ UNCHANGED holds
    BY <1>4, <2>2 DEF Put, SendSuspends, SendEnters, TrySendFails, queueVars
  <2>. QED  BY <1>4, <2>1, <2>2 DEF Put
<1>5. ASSUME NEW t \in Threads, Get(t)
      PROVE  UNCHANGED <<poolVars, holds, content>> \/ Collects(t)
  <2>1. CASE ReceiveCopies(t) /\ Own(t, IF content[src[t]] = Event THEN NoMessage
                                        ELSE content[src[t]])
    <3>1. src[t] # NoIndex /\ src[t] \in Blocks
      BY <2>1 DEF ReceiveCopies, At, Waits, Shape
    <3>2. content[src[t]] # NoMessage
      BY <3>1 DEF Placed
    <3>. QED  BY <1>5, <2>1, <3>1, <3>2
              DEF Get, ReceiveCopies, Release, Collects
  <2>2. CASE ReceiveTakes(t) /\ UNCHANGED holds
    BY <1>5, <2>2 DEF Get, ReceiveTakes
  <2>3. CASE (ReceiveSuspends(t) \/ \E timeout \in TimeoutsOf("receive") :
                ReceiveEnters(t, timeout)) /\ UNCHANGED holds
    BY <1>5, <2>3 DEF Get, ReceiveSuspends, ReceiveEnters, ReceiveFails,
       queueVars
  <2>. QED  BY <1>5, <2>1, <2>2, <2>3 DEF Get
<1>6. ASSUME NEW t \in Threads, GiveAway(t)
      PROVE  UNCHANGED <<poolVars, holds, content>> \/ Frees(t)
  <2>1. UNCHANGED content
    BY <1>6 DEF GiveAway, queueVars
  <2>. QED  BY <1>6, <2>1 DEF GiveAway, Free, FreePops, FreeWakesNobody,
            FreeResumes, Frees
<1>7. ASSUME ISRAlloc
      PROVE  Allocates(ISR)
  BY <1>7 DEF ISRAlloc, AllocFromISR, Allocates, queueVars
<1>8. ASSUME ISRSends
      PROVE  PostsEvent \/ Posts(ISR)
  <2>1. CASE \E p \in MsgPriorities : SendFromISR(Event, p) /\ UNCHANGED holds
    BY <1>1, <1>8, <2>1 DEF ISRSends, SendFromISR, PostsEvent
  <2>2. CASE \E p \in MsgPriorities :
               /\ holds[ISR] # NoMessage
               /\ SendFromISR(holds[ISR], p)
               /\ Own(ISR, NoMessage)
    <3>1. \E b \in Blocks : /\ content[b] = NoMessage
                            /\ content' = [content EXCEPT ![b] = holds[ISR]]
      BY <1>1, <2>2 DEF SendFromISR
    <3>. QED  BY <1>8, <2>2, <3>1 DEF ISRSends, Posts
  <2>. QED  BY <1>8, <2>1, <2>2 DEF ISRSends
<1>9. ASSUME ISRReceives
      PROVE  Collects(ISR)
  <2>1. UnlinkHead
    BY <1>9 DEF ISRReceives, ReceiveFromISR
  <2>2. head \in Blocks /\ head \in ToSet(Queued)
    BY <2>1, UnlinkTakesHead
  <2>3. content[head] # NoMessage
    BY <2>2 DEF Placed
  <2>. QED  BY <1>9, <2>2, <2>3 DEF ISRReceives, ReceiveFromISR, Release,
               Collects
<1>10. ASSUME ISRFrees
       PROVE  Frees(ISR)
  BY <1>10 DEF ISRFrees, FreeFromISR, Frees, queueVars
<1>11. ASSUME NEW t \in Threads, ResetQueue(t)
       PROVE  Empties
  <2>1. /\ InQueue = {} /\ Copied = {} /\ UNCHANGED <<poolVars, holds>>
        /\ content' = [b \in Blocks |-> NoMessage]
    BY <1>11 DEF ResetQueue, QueueReset
  <2>2. ASSUME NEW b \in Blocks, content[b] \in PoolBlocks
        PROVE  FALSE
    <3>1. content[b] # NoMessage
      BY <2>2, MessagesAssumption, MailAssumption
    <3>2. b \in ToSet(Queued) \union Copied
      BY <3>1, BlocksAssumption DEF Placed, Copied
    <3>. QED  BY <2>1, <2>2, <3>2 DEF InQueue
  <2>. QED  BY <2>1, <2>2 DEF Empties
<1>12. ASSUME NEW t \in Threads, ResetPool(t)
       PROVE  UNCHANGED <<poolVars, holds, content>> \/ Rebuilds
  <2>1. UNCHANGED content
    BY <1>12 DEF ResetPool, queueVars
  <2>. QED  BY <1>12, <2>1 DEF ResetPool, PoolReset, ResetPops, ResetResumes,
            ResetEnds, Rebuilds
<1>13. ASSUME NEW t \in Threads, Step(t) \/ Resumed(t)
       PROVE  UNCHANGED <<poolVars, holds, content>>
  BY <1>13 DEF Step, Resumed, queueVars
<1>14. CASE Tick
  BY <1>14 DEF Tick, queueVars
<1>. QED  BY <1>0, <1>2, <1>3, <1>4, <1>5, <1>6, <1>7, <1>8, <1>9, <1>10,
          <1>11, <1>12, <1>13, <1>14 DEF Next

\* Each of these keeps the owners of the blocks apart.
LEMMA OwnedStep ==
  ASSUME Shape, Placed, Waits, Owned, [Next]_vars
  PROVE  Owned' /\ PoolShape'
<1>0. /\ NoMessage \notin PoolBlocks /\ Event \notin PoolBlocks
      /\ IsFiniteSet(PoolBlocks)
  BY MailAssumption, MessagesAssumption, PoolAssumption
<1>1. /\ first \in Seq(PoolBlocks) /\ inUse \in Int
      /\ holds \in [Actors -> PoolBlocks \union {NoMessage}]
      /\ content \in [Blocks -> Messages \union {NoMessage}]
      /\ Messages = PoolBlocks \union {Event}
      /\ NoDuplicates(first)
      /\ Len(first) \in Nat /\ Cardinality(PoolBlocks) \in Nat
  BY MailAssumption, FS_CardinalityType, <1>0 DEF Shape, Owned, Actors
<1>2. CASE UNCHANGED <<poolVars, holds, content>>
  <2>1. Owned'
    BY <1>2 DEF Owned, poolVars, NoDuplicates
  <2>2. PoolShape'
    BY <1>1, <1>2 DEF PoolShape, poolVars
  <2>. QED  BY <2>1, <2>2
<1>3. ASSUME NEW a \in Actors, Allocates(a)
      PROVE  Owned' /\ PoolShape'
  <2>1. /\ first # <<>> /\ first' = Tail(first) /\ inUse' = inUse + 1
        /\ holds[a] = NoMessage /\ holds' = [holds EXCEPT ![a] = Head(first)]
        /\ content' = content
    BY <1>3 DEF Allocates, TryFirst, Own
  <2>. DEFINE b == Head(first)
  <2>2. /\ b \in PoolBlocks /\ b \in ToSet(first)
        /\ first' \in Seq(PoolBlocks)
        /\ ToSet(first') = ToSet(first) \ {b}
        /\ NoDuplicates(first')
    BY <1>1, <2>1, TailElements
  <2>3. Len(first') = Len(first) - 1
    BY <1>1, <2>1
  <2>4. /\ holds'[a] = b /\ \A c \in Actors \ {a} : holds'[c] = holds[c]
        /\ \A c \in Actors : holds[c] # b
    BY <1>0, <1>1, <2>1, <2>2 DEF Owned
  <2>. HIDE DEF b
  <2>5. inUse' = Cardinality(PoolBlocks) - Len(first')
    BY <1>1, <2>1, <2>3 DEF Owned
  <2>6. /\ \A c \in Actors :
             holds'[c] # NoMessage => holds'[c] \notin ToSet(first')
        /\ \A c, d \in Actors : holds'[c] # NoMessage /\ holds'[c] = holds'[d]
             => c = d
    BY <2>2, <2>4 DEF Owned
  <2>7. ASSUME NEW d \in Blocks, content'[d] \in PoolBlocks
        PROVE  /\ content'[d] \notin ToSet(first')
               /\ \A c \in Actors : holds'[c] # content'[d]
    BY <2>1, <2>2, <2>4, <2>7 DEF Owned
  <2>8. ASSUME NEW x \in PoolBlocks
        PROVE  \/ x \in ToSet(first') \/ \E c \in Actors : holds'[c] = x
               \/ \E d \in Blocks : content'[d] = x
    <3>1. CASE x = b
      BY <2>4, <3>1
    <3>2. CASE x # b /\ x \in ToSet(first)
      BY <2>2, <3>2
    <3>3. CASE \E c \in Actors : holds[c] = x
      BY <1>0, <2>1, <2>4, <3>3
    <3>4. CASE \E d \in Blocks : content[d] = x
      BY <2>1, <3>4
    <3>. QED  BY <3>1, <3>2, <3>3, <3>4 DEF Owned
  <2>9. \A d, e \in Blocks :
          content'[d] \in PoolBlocks /\ content'[d] = content'[e] => d = e
    BY <2>1 DEF Owned
  <2>10. Owned'
    BY <2>2, <2>5, <2>6, <2>7, <2>8, <2>9 DEF Owned, NoDuplicates
  <2>11. PoolShape'
    BY <1>1, <2>1, <2>2 DEF PoolShape, b
  <2>. QED  BY <2>10, <2>11
<1>4. ASSUME NEW a \in Actors, Posts(a)
      PROVE  Owned' /\ PoolShape'
  <2>1. PICK b \in Blocks : /\ content[b] = NoMessage
                            /\ content' = [content EXCEPT ![b] = holds[a]]
    BY <1>4 DEF Posts
  <2>2. /\ holds[a] # NoMessage /\ holds' = [holds EXCEPT ![a] = NoMessage]
        /\ first' = first /\ inUse' = inUse
    BY <1>4 DEF Posts, Own, poolVars
  <2>3. /\ content'[b] = holds[a] /\ holds[a] \in PoolBlocks
        /\ holds[a] \notin ToSet(first)
        /\ \A d \in Blocks \ {b} : content'[d] = content[d]
        /\ holds'[a] = NoMessage /\ \A c \in Actors \ {a} : holds'[c] = holds[c]
        /\ \A c \in Actors \ {a} : holds[c] # holds[a]
        /\ \A d \in Blocks : content[d] # holds[a]
    BY <1>1, <2>1, <2>2 DEF Owned
  <2>4. /\ NoDuplicates(first')
        /\ inUse' = Cardinality(PoolBlocks) - Len(first')
    BY <2>2 DEF Owned
  <2>5. /\ \A c \in Actors :
             holds'[c] # NoMessage => holds'[c] \notin ToSet(first')
        /\ \A c, d \in Actors : holds'[c] # NoMessage /\ holds'[c] = holds'[d]
             => c = d
    BY <2>2, <2>3 DEF Owned
  <2>6. ASSUME NEW d \in Blocks, content'[d] \in PoolBlocks
        PROVE  /\ content'[d] \notin ToSet(first')
               /\ \A c \in Actors : holds'[c] # content'[d]
               /\ \A e \in Blocks : content'[d] = content'[e] => d = e
    <3>1. CASE d = b
      BY <1>0, <2>2, <2>3, <3>1
    <3>2. CASE d # b
      BY <1>0, <2>2, <2>3, <2>6, <3>2 DEF Owned
    <3>. QED  BY <3>1, <3>2
  <2>7. ASSUME NEW x \in PoolBlocks
        PROVE  \/ x \in ToSet(first') \/ \E c \in Actors : holds'[c] = x
               \/ \E d \in Blocks : content'[d] = x
    <3>1. CASE x = holds[a]
      BY <2>3, <3>1
    <3>2. CASE x \in ToSet(first)
      BY <2>2, <3>2
    <3>3. CASE x # holds[a] /\ \E c \in Actors : holds[c] = x
      BY <2>3, <3>3
    <3>4. CASE \E d \in Blocks : content[d] = x
      BY <1>0, <2>1, <2>3, <3>4
    <3>. QED  BY <3>1, <3>2, <3>3, <3>4 DEF Owned
  <2>8. Owned'
    BY <2>4, <2>5, <2>6, <2>7 DEF Owned, NoDuplicates
  <2>9. PoolShape'
    BY <1>1, <2>2 DEF PoolShape
  <2>. QED  BY <2>8, <2>9
<1>5. CASE PostsEvent
  <2>1. PICK b \in Blocks : /\ content[b] = NoMessage
                            /\ content' = [content EXCEPT ![b] = Event]
    BY <1>5 DEF PostsEvent
  <2>2. /\ holds' = holds /\ first' = first /\ inUse' = inUse
    BY <1>5 DEF PostsEvent, poolVars
  <2>3. /\ \A d \in Blocks :
             content'[d] \in PoolBlocks <=> content[d] \in PoolBlocks
        /\ \A d \in Blocks :
             content[d] \in PoolBlocks => content'[d] = content[d]
    BY <1>0, <1>1, <2>1
  <2>4. Owned'
    BY <2>2, <2>3 DEF Owned, NoDuplicates
  <2>5. PoolShape'
    BY <1>1, <2>2 DEF PoolShape
  <2>. QED  BY <2>4, <2>5
<1>6. ASSUME NEW a \in Actors, Collects(a)
      PROVE  Owned' /\ PoolShape'
  <2>1. PICK b \in Blocks : /\ content[b] # NoMessage
                            /\ content' = [content EXCEPT ![b] = NoMessage]
                            /\ Own(a, IF content[b] = Event THEN NoMessage
                                      ELSE content[b])
    BY <1>6 DEF Collects
  <2>2. /\ holds[a] = NoMessage /\ first' = first /\ inUse' = inUse
    BY <1>6 DEF Collects, poolVars
  <2>3. /\ content[b] = Event \/ content[b] \in PoolBlocks
        /\ content'[b] = NoMessage
        /\ \A d \in Blocks \ {b} : content'[d] = content[d]
        /\ content[b] = Event => holds'[a] = NoMessage
        /\ content[b] # Event => holds'[a] = content[b]
        /\ \A c \in Actors \ {a} : holds'[c] = holds[c]
    BY <1>1, <2>1 DEF Own
  <2>4. /\ NoDuplicates(first')
        /\ inUse' = Cardinality(PoolBlocks) - Len(first')
    BY <2>2 DEF Owned
  <2>5. /\ \A c \in Actors :
             holds'[c] # NoMessage => holds'[c] \notin ToSet(first')
        /\ \A c, d \in Actors : holds'[c] # NoMessage /\ holds'[c] = holds'[d]
             => c = d
    BY <2>2, <2>3 DEF Owned
  <2>6. ASSUME NEW d \in Blocks, content'[d] \in PoolBlocks
        PROVE  /\ content'[d] \notin ToSet(first')
               /\ \A c \in Actors : holds'[c] # content'[d]
               /\ \A e \in Blocks : content'[d] = content'[e] => d = e
    <3>1. d # b
      BY <1>0, <2>3, <2>6
    <3>2. content'[d] = content[d] /\ content[d] # content[b]
      BY <2>3, <2>6, <3>1 DEF Owned
    <3>. QED  BY <1>0, <2>2, <2>3, <2>6, <3>1, <3>2 DEF Owned
  <2>7. ASSUME NEW x \in PoolBlocks
        PROVE  \/ x \in ToSet(first') \/ \E c \in Actors : holds'[c] = x
               \/ \E d \in Blocks : content'[d] = x
    <3>1. CASE x = content[b]
      BY <1>0, <2>3, <3>1
    <3>2. CASE x \in ToSet(first)
      BY <2>2, <3>2
    <3>3. CASE \E c \in Actors : holds[c] = x
      BY <1>0, <2>2, <2>3, <3>3
    <3>4. CASE x # content[b] /\ \E d \in Blocks : content[d] = x
      BY <2>3, <3>4
    <3>. QED  BY <3>1, <3>2, <3>3, <3>4 DEF Owned
  <2>8. Owned'
    BY <2>4, <2>5, <2>6, <2>7 DEF Owned, NoDuplicates
  <2>9. PoolShape'
    BY <1>1, <2>1, <2>2, <2>3 DEF PoolShape, Own
  <2>. QED  BY <2>8, <2>9
<1>7. ASSUME NEW a \in Actors, Frees(a)
      PROVE  Owned' /\ PoolShape'
  <2>. DEFINE b == holds[a]
              one == <<b>>
  <2>1. /\ b # NoMessage /\ first' = one \o first /\ inUse' = inUse - 1
        /\ holds' = [holds EXCEPT ![a] = NoMessage] /\ content' = content
    BY <1>7 DEF Frees, GiveBack, Own
  <2>2. b \in PoolBlocks /\ b \notin ToSet(first)
    BY <1>1, <2>1 DEF Owned
  <2>3. /\ holds'[a] = NoMessage /\ \A c \in Actors \ {a} : holds'[c] = holds[c]
        /\ \A c \in Actors \ {a} : holds[c] # b
        /\ \A d \in Blocks : content[d] # b
    BY <1>1, <2>1, <2>2 DEF Owned
  <2>. HIDE DEF b
  <2>4. one \in Seq(PoolBlocks) /\ NoDuplicates(one) /\ ToSet(one) = {b}
        /\ Len(one) = 1
    BY <2>2 DEF NoDuplicates, ToSet
  <2>. HIDE DEF one
  <2>5. NoDuplicates(one \o first)
    BY <1>1, <2>2, <2>4, ConcatDistinct
  <2>6. /\ one \o first \in Seq(PoolBlocks)
        /\ Len(one \o first) = Len(one) + Len(first)
    BY <1>1, <2>4, ConcatProperties
  <2>7. ToSet(one \o first) = ToSet(first) \union {b}
    <3>1. Range(one \o first) = Range(one) \union Range(first)
      BY <1>1, <2>4, RangeConcatenation
    <3>2. \A s : ToSet(s) = Range(s)
      BY DEF ToSet, Range
    <3>. QED  BY <2>4, <3>1, <3>2
  <2>8. inUse' = Cardinality(PoolBlocks) - Len(first')
    BY <1>1, <2>1, <2>4, <2>6 DEF Owned
  <2>9. /\ \A c \in Actors :
             holds'[c] # NoMessage => holds'[c] \notin ToSet(first')
        /\ \A c, d \in Actors : holds'[c] # NoMessage /\ holds'[c] = holds'[d]
             => c = d
    BY <2>1, <2>3, <2>7 DEF Owned
  <2>10. ASSUME NEW d \in Blocks, content'[d] \in PoolBlocks
         PROVE  /\ content'[d] \notin ToSet(first')
                /\ \A c \in Actors : holds'[c] # content'[d]
                /\ \A e \in Blocks : content'[d] = content'[e] => d = e
    BY <1>0, <2>1, <2>3, <2>7, <2>10 DEF Owned
  <2>11. ASSUME NEW x \in PoolBlocks
         PROVE  \/ x \in ToSet(first') \/ \E c \in Actors : holds'[c] = x
                \/ \E d \in Blocks : content'[d] = x
    <3>1. CASE x = b
      BY <2>1, <2>7, <3>1
    <3>2. CASE x # b
      BY <2>1, <2>3, <2>7, <3>2 DEF Owned, b
    <3>. QED  BY <3>1, <3>2
  <2>12. Owned'
    BY <2>1, <2>5, <2>8, <2>9, <2>10, <2>11 DEF Owned, NoDuplicates
  <2>13. PoolShape'
    BY <1>1, <2>1, <2>6 DEF PoolShape
  <2>. QED  BY <2>12, <2>13
<1>8. CASE Empties
  <2>1. /\ content' = [b \in Blocks |-> NoMessage]
        /\ \A b \in Blocks : content[b] \notin PoolBlocks
        /\ holds' = holds /\ first' = first /\ inUse' = inUse
    BY <1>8 DEF Empties, poolVars
  <2>2. \A b \in Blocks : content'[b] \notin PoolBlocks
    BY <1>0, <2>1
  <2>3. Owned'
    BY <2>1, <2>2 DEF Owned, NoDuplicates
  <2>4. PoolShape'
    BY <1>1, <2>1 DEF PoolShape
  <2>. QED  BY <2>3, <2>4
<1>9. CASE Rebuilds
  <2>1. /\ inUse = 0 /\ first' \in SetToSeqs(PoolBlocks) /\ inUse' = 0
        /\ holds' = holds /\ content' = content
    BY <1>9 DEF Rebuilds
  <2>2. /\ first' \in Seq(PoolBlocks) /\ NoDuplicates(first')
        /\ ToSet(first') = PoolBlocks /\ Len(first') = Cardinality(PoolBlocks)
    BY <1>0, <2>1, SetToSeqsElements
  <2>3. ToSet(first) = PoolBlocks
    <3>1. Len(first) = Cardinality(PoolBlocks)
      BY <1>1, <2>1 DEF Owned
    <3>2. Cardinality(ToSet(first)) = Cardinality(PoolBlocks)
      BY <1>1, <3>1, DistinctCount
    <3>3. ToSet(first) \subseteq PoolBlocks
      BY <1>1 DEF ToSet
    <3>. QED  BY <1>0, <3>2, <3>3, FS_Subset
  <2>4. Owned'
    BY <1>1, <2>1, <2>2, <2>3 DEF Owned, NoDuplicates
  <2>5. PoolShape'
    BY <1>1, <2>1, <2>2 DEF PoolShape
  <2>. QED  BY <2>4, <2>5
<1>. QED  BY <1>2, <1>3, <1>4, <1>5, <1>6, <1>7, <1>8, <1>9, NextSeenByPool

-----------------------------------------------------------------------------
\* The inductive invariant.
Inv == Shape /\ Placed /\ Waits /\ Owned

\* The queue starts empty, the pool full, and nobody waits.
LEMMA InvInit == Init => Inv
<1>. SUFFICES ASSUME Init
              PROVE  Inv
  OBVIOUS
<1>0. /\ Lists = {"pool", "send", "receive"} /\ NoList \notin Lists
      /\ NoIndex \notin Blocks /\ IsFiniteSet(Blocks)
      /\ IsFiniteSet(PoolBlocks) /\ NoMessage \notin PoolBlocks
  BY MailAssumption, ListsAssumption, BlocksAssumption, PoolAssumption,
     MessagesAssumption
<1>1. /\ firstFree \in Seq(Blocks) /\ NoDuplicates(firstFree)
      /\ ToSet(firstFree) = Blocks
  BY <1>0, SetToSeqsElements DEF Init, QueueInit, StorageInit
<1>2. /\ first \in Seq(PoolBlocks) /\ NoDuplicates(first)
      /\ ToSet(first) = PoolBlocks /\ Len(first) = Cardinality(PoolBlocks)
  BY <1>0, SetToSeqsElements DEF Init, PoolInit
<1>3. /\ lists = [l \in Lists |-> <<>>] /\ waitsFor = [t \in Threads |-> NoList]
      /\ suspended = {} /\ timers = {} /\ left = [t \in Threads |-> Forever]
      /\ pc = [t \in Threads |-> "app"] /\ popped = [t \in Threads |-> NoThread]
      /\ head = NoIndex /\ prev = NoLinks /\ next = NoLinks
      /\ mprio = [b \in Blocks |-> 0] /\ content = [b \in Blocks |-> NoMessage]
      /\ count = 0 /\ src = [t \in Threads |-> NoIndex]
      /\ inUse = 0 /\ holds = [a \in Threads \union {ISR} |-> NoMessage]
  BY DEF Init, BlockingInit, QueueInit, StorageInit, PoolInit
<1>4. BlockingTypeOK
  BY <1>3 DEF BlockingTypeOK
<1>5. Shape
  BY <1>1, <1>2, <1>3, <1>4 DEF Shape, NoLinks
<1>6. Queued = <<>> /\ ToSet(Queued) = {}
  <2>1. Queued = <<>>
    BY <1>3 DEF Queued
  <2>. QED  BY <2>1 DEF ToSet
<1>7. Circle(Queued, head, next, prev) /\ SortedByPriority(Queued, mprio)
  BY <1>3, <1>6 DEF Circle, NoDuplicates, SortedByPriority
<1>8. Placed
  BY <1>1, <1>3, <1>6, <1>7 DEF Placed
<1>9. Waits
  BY <1>0, <1>3 DEF Waits, NoDuplicates, ToSet
<1>10. Owned
  <2>1. Cardinality(PoolBlocks) \in Nat
    BY <1>0, FS_CardinalityType
  <2>2. \A a \in Actors : holds[a] = NoMessage
    BY <1>3 DEF Actors
  <2>3. \A b \in Blocks : content[b] \notin PoolBlocks
    BY <1>0, <1>3
  <2>. QED  BY <1>2, <1>3, <2>1, <2>2, <2>3 DEF Owned
<1>. QED  BY <1>5, <1>8, <1>9, <1>10 DEF Inv

\* One step of a thread, of an interrupt routine or of the clock keeps the
\* invariant.
LEMMA InvStep == Inv /\ [Next]_vars => Inv'
<1>. SUFFICES ASSUME Shape, Placed, Waits, Owned, [Next]_vars
              PROVE  Inv'
  BY DEF Inv
<1>1. KernelShape' /\ Waits'
  BY WaitsStep
<1>2. Placed' /\ QueueShape'
  BY PlacedStep
<1>3. Owned' /\ PoolShape'
  BY OwnedStep
<1>4. Shape'
  BY <1>1, <1>2, <1>3 DEF Shape, KernelShape, QueueShape, PoolShape, Labels,
     Elsewhere, Actors
<1>. QED  BY <1>1, <1>2, <1>3, <1>4 DEF Inv

\* So it holds in every reachable state.
LEMMA SpecInv == Spec => []Inv
BY InvInit, InvStep, PTL DEF Spec

-----------------------------------------------------------------------------
\* An injective function has as many values as arguments.
LEMMA ValuesCount ==
  ASSUME NEW S, IsFiniteSet(S), NEW f,
         \A x, y \in S : f[x] = f[y] => x = y
  PROVE  /\ IsFiniteSet({f[x] : x \in S})
         /\ Cardinality({f[x] : x \in S}) = Cardinality(S)
<1>. DEFINE T == {f[x] : x \in S}
            g == [x \in S |-> f[x]]
<1>1. g \in Bijection(S, T)
  BY DEF Bijection, Injection, Surjection, IsInjective
<1>2. ExistsBijection(S, T)
  BY <1>1 DEF ExistsBijection
<1>. QED  BY <1>2, FS_Bijection

\* The size of a set in three parts.
LEMMA PartsCount ==
  ASSUME NEW S, IsFiniteSet(S), NEW A, NEW B, NEW C,
         A \union B \union C = S, A \intersect B = {}, A \intersect C = {},
         B \intersect C = {}
  PROVE  Cardinality(A) + Cardinality(B) + Cardinality(C) = Cardinality(S)
<1>1. /\ IsFiniteSet(A) /\ IsFiniteSet(B) /\ IsFiniteSet(C)
      /\ IsFiniteSet(A \union B)
  <2>1. /\ A \subseteq S /\ B \subseteq S /\ C \subseteq S
        /\ A \union B \subseteq S
    OBVIOUS
  <2>. QED  BY <2>1, FS_Subset
<1>2. Cardinality({}) = 0
  BY FS_EmptySet
<1>3. Cardinality(A \union B)
        = Cardinality(A) + Cardinality(B) - Cardinality({})
  BY <1>1, FS_Union
<1>4. Cardinality((A \union B) \union C)
        = Cardinality(A \union B) + Cardinality(C) - Cardinality({})
  <2>1. (A \union B) \intersect C = {}
    OBVIOUS
  <2>. QED  BY <1>1, <2>1, FS_Union
<1>5. /\ Cardinality(A) \in Nat /\ Cardinality(B) \in Nat
      /\ Cardinality(C) \in Nat
  BY <1>1, FS_CardinalityType
<1>6. Cardinality(S) = Cardinality((A \union B) \union C)
  OBVIOUS
<1>. QED  BY <1>2, <1>3, <1>4, <1>5, <1>6

\* The invariant implies the type invariant of the run,
LEMMA InvGivesTypes == Inv => TypeOK
<1>. SUFFICES ASSUME Shape, Placed, Waits, Owned
              PROVE  TypeOK
  BY DEF Inv
<1>1. count \in 0..Msgs
  <2>1. /\ Queued \in Seq(Blocks) /\ Len(Queued) = count /\ count \in Nat
        /\ NoDuplicates(Queued)
    BY QueuedLength
  <2>2. Len(Queued) <= Msgs /\ Msgs \in Nat
    BY <2>1, CircleFits
  <2>. QED  BY <2>1, <2>2
<1>2. inUse \in 0..Cardinality(PoolBlocks)
  <2>1. first \in Seq(PoolBlocks) /\ NoDuplicates(first)
        /\ inUse = Cardinality(PoolBlocks) - Len(first)
    BY DEF Shape, Owned
  <2>2. /\ Cardinality(ToSet(first)) = Len(first)
        /\ ToSet(first) \subseteq PoolBlocks
    <3>1. ToSet(first) \subseteq PoolBlocks
      BY <2>1 DEF ToSet
    <3>. QED  BY <2>1, <3>1, DistinctCount
  <2>3. Len(first) <= Cardinality(PoolBlocks)
    BY <2>2, PoolAssumption, FS_Subset
  <2>4. Cardinality(PoolBlocks) \in Nat /\ Len(first) \in Nat
    BY <2>1, PoolAssumption, FS_CardinalityType
  <2>. QED  BY <2>1, <2>3, <2>4
<1>3. QueueTypeOK
  BY <1>1 DEF QueueTypeOK, Shape
<1>. QED  BY <1>2, <1>3 DEF TypeOK, PoolTypeOK, Shape

\* The state stays well-typed: in particular count_ never leaves the bounds
\* of the storage, whoever calls and whichever interrupt comes in between.
THEOREM MailTypes == Spec => []TypeOK
BY SpecInv, InvGivesTypes, PTL

\* the accounting of the queue's blocks,
LEMMA InvAccountsBlocks == Inv => BlocksAccounted
<1>. SUFFICES ASSUME Shape, Placed, Waits, Owned
              PROVE  BlocksAccounted
  BY DEF Inv
<1>. DEFINE q == Queued
<1>1. /\ q \in Seq(Blocks) /\ Len(q) = count /\ count \in Nat
      /\ NoDuplicates(q) /\ (head = NoIndex <=> q = <<>>)
      /\ firstFree \in Seq(Blocks) /\ NoDuplicates(firstFree)
      /\ src \in [Threads -> Blocks \union {NoIndex}]
  BY QueuedLength DEF Shape, Placed
<1>2. Circle(q, head, next, prev)
  BY DEF Placed
<1>3. /\ ToSet(firstFree) \union ToSet(q) \union Copied = Blocks
      /\ ToSet(firstFree) \intersect ToSet(q) = {}
      /\ ToSet(firstFree) \intersect Copied = {}
      /\ ToSet(q) \intersect Copied = {}
  <2>1. ToSet(firstFree) \subseteq Blocks /\ ToSet(q) \subseteq Blocks
    BY <1>1 DEF ToSet
  <2>2. Copied \subseteq Blocks
    BY <1>1 DEF Copied
  <2>3. \A b \in Blocks : b # NoIndex
    BY BlocksAssumption
  <2>. HIDE DEF q
  <2>. QED  BY <2>1, <2>2, <2>3 DEF Placed, Copied, q
<1>4. Len(firstFree) + count + Cardinality(Copied) = Msgs
  <2>1. Cardinality(ToSet(firstFree)) = Len(firstFree)
    BY <1>1, DistinctCount
  <2>2. Cardinality(ToSet(q)) = count
    BY <1>1, DistinctCount
  <2>3. Cardinality(ToSet(firstFree)) + Cardinality(ToSet(q))
          + Cardinality(Copied) = Cardinality(Blocks)
    BY <1>3, BlocksAssumption, PartsCount
  <2>. QED  BY <2>1, <2>2, <2>3 DEF Msgs
<1>5. head = NoIndex <=> count = 0
  BY <1>1
<1>. HIDE DEF q
<1>6. ASSUME NEW b \in ToSet(q)
      PROVE  prev[next[b]] = b /\ next[prev[b]] = b
  <2>1. PICK i \in 1..Len(q) : q[i] = b
    BY <1>1 DEF ToSet
  <2>2. /\ \A j \in 1..(Len(q) - 1) :
             next[q[j]] = q[j + 1] /\ prev[q[j + 1]] = q[j]
        /\ next[q[Len(q)]] = q[1] /\ prev[q[1]] = q[Len(q)]
    BY <1>1, <1>2, <2>1 DEF Circle
  <2>3. prev[next[b]] = b
    <3>1. CASE i = Len(q)
      BY <2>1, <2>2, <3>1
    <3>2. CASE i # Len(q)
      <4>1. i \in 1..(Len(q) - 1)
        BY <1>1, <3>2
      <4>. QED  BY <2>1, <2>2, <4>1
    <3>. QED  BY <3>1, <3>2
  <2>4. next[prev[b]] = b
    <3>1. CASE i = 1
      BY <2>1, <2>2, <3>1
    <3>2. CASE i # 1
      <4>1. i - 1 \in 1..(Len(q) - 1) /\ (i - 1) + 1 = i
        BY <1>1, <3>2
      <4>2. prev[q[i]] = q[i - 1] /\ next[q[i - 1]] = q[i]
        BY <2>2, <4>1
      <4>. QED  BY <2>1, <4>2
    <3>. QED  BY <3>1, <3>2
  <2>. QED  BY <2>3, <2>4
<1>7. ASSUME NEW b \in ToSet(q) \union Copied
      PROVE  content[b] # NoMessage
  BY <1>3 DEF Placed
<1>. QED  BY <1>1, <1>3, <1>4, <1>5, <1>6, <1>7
          DEF BlocksAccounted, Placed, q

\* Every block of the queue is in one place, and the index arrays describe
\* one circle of count_ blocks: internal_try_send_, internal_try_receive_
\* with its copy outside the critical section, and reset() lose and share
\* none, in any interleaving of any number of threads and interrupts.
THEOREM QueueBlocksAccounted == Spec => []BlocksAccounted
BY SpecInv, InvAccountsBlocks, PTL

\* and the conservation of the pool's blocks.
LEMMA InvConservesMail == Inv => MailConserved
<1>. SUFFICES ASSUME Shape, Placed, Waits, Owned
              PROVE  MailConserved
  BY DEF Inv
<1>. DEFINE way == ToSet(Queued) \union Copied
            mail == {b \in way : content[b] # Event}
            owners == {a \in DOMAIN holds : holds[a] # NoMessage}
            owned == {holds[a] : a \in owners}
            sent == {content[b] : b \in mail}
<1>0. /\ NoMessage \notin PoolBlocks /\ Event \notin PoolBlocks
      /\ IsFiniteSet(PoolBlocks) /\ IsFiniteSet(Threads) /\ IsFiniteSet(Blocks)
      /\ Messages = PoolBlocks \union {Event}
  BY MailAssumption, MessagesAssumption, PoolAssumption, ThreadsAssumption,
     BlocksAssumption
<1>1. /\ first \in Seq(PoolBlocks) /\ NoDuplicates(first)
      /\ inUse = Cardinality(PoolBlocks) - Len(first) /\ Len(first) \in Nat
      /\ DOMAIN holds = Actors
      /\ holds \in [Actors -> PoolBlocks \union {NoMessage}]
      /\ content \in [Blocks -> Messages \union {NoMessage}]
  BY DEF Shape, Owned, Actors
<1>2. /\ way \subseteq Blocks
      /\ \A b \in Blocks : b \in way <=> content[b] # NoMessage
  <2>1. BlocksAccounted
    BY InvAccountsBlocks DEF Inv
  <2>2. way \subseteq Blocks
    BY <2>1 DEF BlocksAccounted
  <2>3. \A b \in Blocks : b \in ToSet(firstFree) \/ b \in way
    BY <2>1 DEF BlocksAccounted
  <2>. HIDE DEF way
  <2>4. \A b \in way : content[b] # NoMessage
    BY <2>1 DEF BlocksAccounted, way
  <2>. QED  BY <2>2, <2>3, <2>4 DEF Placed
<1>3. mail = {b \in Blocks : content[b] \in PoolBlocks}
  BY <1>0, <1>1, <1>2
<1>4. InQueue = sent
  <2>1. InQueue = {content[b] : b \in way} \intersect PoolBlocks
    BY DEF InQueue
  <2>. HIDE DEF way
  <2>. QED  BY <1>0, <1>2, <1>3, <2>1
<1>. HIDE DEF way, mail
<1>5. /\ ToSet(first) \union owned \union sent = PoolBlocks
      /\ ToSet(first) \intersect owned = {}
      /\ ToSet(first) \intersect sent = {}
      /\ owned \intersect sent = {}
  <2>1. ToSet(first) \subseteq PoolBlocks
    BY <1>1 DEF ToSet
  <2>2. owned \subseteq PoolBlocks
    BY <1>1
  <2>3. sent \subseteq PoolBlocks
    BY <1>3
  <2>4. ASSUME NEW x \in PoolBlocks
        PROVE  x \in ToSet(first) \union owned \union sent
    BY <1>0, <1>1, <1>3 DEF Owned
  <2>5. /\ ToSet(first) \intersect owned = {}
        /\ ToSet(first) \intersect sent = {}
        /\ owned \intersect sent = {}
    BY <1>1, <1>3 DEF Owned
  <2>. QED  BY <2>1, <2>2, <2>3, <2>4, <2>5
<1>6. Cardinality(ToSet(first)) = Len(first)
  BY <1>1, DistinctCount
<1>7. Cardinality(owned) = Cardinality(owners)
  <2>1. IsFiniteSet(Actors)
    BY <1>0, FS_Singleton, FS_Union DEF Actors
  <2>2. IsFiniteSet(owners)
    BY <1>1, <2>1, FS_Subset
  <2>3. \A a, c \in owners : holds[a] = holds[c] => a = c
    BY <1>1 DEF Owned
  <2>. HIDE DEF owners
  <2>. QED  BY <2>2, <2>3, ValuesCount
<1>8. Cardinality(sent) = Cardinality(mail)
  <2>1. IsFiniteSet(mail)
    BY <1>0, <1>3, FS_Subset
  <2>2. \A b, d \in mail : content[b] = content[d] => b = d
    BY <1>3 DEF Owned
  <2>. QED  BY <2>1, <2>2, ValuesCount
<1>9. Cardinality(ToSet(first)) + Cardinality(owned) + Cardinality(sent)
        = Cardinality(PoolBlocks)
  <2>. HIDE DEF owned, sent
  <2>. QED  BY <1>0, <1>5, PartsCount
<1>10. inUse = Cardinality(owners) + Cardinality(mail)
  <2>1. /\ Cardinality(owners) \in Nat /\ Cardinality(mail) \in Nat
    <3>1. IsFiniteSet(Actors)
      BY <1>0, FS_Singleton, FS_Union DEF Actors
    <3>2. IsFiniteSet(owners)
      BY <1>1, <3>1, FS_Subset
    <3>3. IsFiniteSet(mail)
      BY <1>0, <1>3, FS_Subset
    <3>. QED  BY <3>2, <3>3, FS_CardinalityType
  <2>. HIDE DEF owners, owned, sent
  <2>. QED  BY <1>1, <1>6, <1>7, <1>8, <1>9, <2>1
<1>11. mail = {b \in ToSet(Queued) \union Copied : content[b] # Event}
  BY DEF mail, way
<1>. HIDE DEF owned, sent
<1>12. ToSet(first) \union owned \union InQueue = PoolBlocks
  BY <1>4, <1>5
<1>. QED  BY <1>1, <1>10, <1>11, <1>12 DEF MailConserved, owned

\* No interleaving of the pool, the queue, their users and the interrupts
\* hands a pool block to two owners or loses one, and count_ of the pool is
\* what its users and the queue hold.
THEOREM NoMailIsLost == Spec => []MailConserved
BY SpecInv, InvConservesMail, PTL

-----------------------------------------------------------------------------
\* Threads that will try again before they sleep, on list l, or that have
\* given a block back and will wake one that does.  It is less than Pending,
\* which is not preserved as it stands: a thread that has resumed the one it
\* unlinked is pending no more, and that one was it already.
Wakers(l) ==
  {t \in Threads :
     \/ /\ waitsFor[t] = l
        /\ \/ pc[t] \in {"loop", "woken"}
           \/ pc[t] = "asleep" /\ t \notin ToSet(lists[l])
     \/ l = "pool" /\ pc[t] = "freed"}

Provided ==
  \A l \in Lists \ Timed :
    lists[l] # <<>> => Available(l) <= Cardinality(Wakers(l))

\* Counting those who were woken: how one that comes or goes changes the
\* number.
LEMMA WakersCount ==
  ASSUME NEW W, NEW V, IsFiniteSet(W), IsFiniteSet(V), NEW x
  PROVE  /\ Cardinality(W) \in Nat /\ Cardinality(V) \in Nat
         /\ W \subseteq V => Cardinality(W) <= Cardinality(V)
         /\ W \ {x} \subseteq V => Cardinality(W) - 1 <= Cardinality(V)
         /\ (W \subseteq V /\ x \in V \ W)
              => Cardinality(W) + 1 <= Cardinality(V)
         /\ \A y \in V \ W : W \ {x} \subseteq V =>
              Cardinality(W) <= Cardinality(V)
<1>1. /\ Cardinality(W) \in Nat /\ Cardinality(V) \in Nat
  BY FS_CardinalityType
<1>2. W \subseteq V => Cardinality(W) <= Cardinality(V)
  BY FS_Subset
<1>3. /\ IsFiniteSet(W \ {x})
      /\ Cardinality(W \ {x}) = IF x \in W THEN Cardinality(W) - 1
                                ELSE Cardinality(W)
  BY FS_RemoveElement
<1>4. W \ {x} \subseteq V => Cardinality(W) - 1 <= Cardinality(V)
  <2>. SUFFICES ASSUME W \ {x} \subseteq V
                PROVE  Cardinality(W) - 1 <= Cardinality(V)
    OBVIOUS
  <2>1. Cardinality(W \ {x}) <= Cardinality(V)
    BY FS_Subset
  <2>. QED  BY <1>1, <1>3, <2>1
<1>5. ASSUME W \subseteq V, x \in V \ W
      PROVE  Cardinality(W) + 1 <= Cardinality(V)
  <2>1. /\ IsFiniteSet(W \union {x})
        /\ Cardinality(W \union {x}) = Cardinality(W) + 1
    BY <1>5, FS_AddElement
  <2>2. Cardinality(W \union {x}) <= Cardinality(V)
    <3>1. W \union {x} \subseteq V
      BY <1>5
    <3>. QED  BY <3>1, FS_Subset
  <2>. QED  BY <2>1, <2>2
<1>6. ASSUME NEW y \in V \ W, W \ {x} \subseteq V
      PROVE  Cardinality(W) <= Cardinality(V)
  <2>. DEFINE U == (W \ {x}) \union {y}
  <2>1. U \subseteq V /\ y \notin W \ {x}
    BY <1>6
  <2>2. Cardinality(U) = Cardinality(W \ {x}) + 1
    BY <1>3, <2>1, FS_AddElement
  <2>3. Cardinality(U) <= Cardinality(V)
    BY <2>1, FS_Subset
  <2>. QED  BY <1>1, <1>3, <2>2, <2>3
<1>. QED  BY <1>1, <1>2, <1>4, <1>5, <1>6

\* How a step that moves only thread t, and links nobody on list l, keeps the
\* balance of list l.
LEMMA Balance ==
  ASSUME Inv, Inv', Provided, NEW l \in Lists \ Timed, lists[l] # <<>>,
         ToSet(lists'[l]) \subseteq ToSet(lists[l]), NEW t,
         \A u \in Threads \ {t} : pc'[u] = pc[u] /\ waitsFor'[u] = waitsFor[u],
         \/ /\ Available(l)' <= Available(l)
            /\ t \in Wakers(l) => t \in Wakers(l)'
         \/ Available(l)' <= Available(l) - 1
         \/ /\ Available(l)' <= Available(l) + 1
            /\ t \in Wakers(l)' \ Wakers(l)
         \/ /\ Available(l)' <= Available(l) + 1
            /\ t \in Wakers(l) => t \in Wakers(l)'
            /\ \E u \in ToSet(lists[l]) \ ToSet(lists'[l]) : u # t
         \/ /\ Available(l)' <= Available(l)
            /\ \E u \in ToSet(lists[l]) \ ToSet(lists'[l]) : u # t
  PROVE  Available(l)' <= Cardinality(Wakers(l)')
<1>. DEFINE W == Wakers(l)
            V == Wakers(l)'
<1>1. /\ Available(l) \in Int /\ Available(l)' \in Int
      /\ Available(l) <= Cardinality(W)
  <2>1. /\ first \in Seq(PoolBlocks) /\ firstFree \in Seq(Blocks)
        /\ count \in Int
        /\ first' \in Seq(PoolBlocks) /\ firstFree' \in Seq(Blocks)
        /\ count' \in Int
    BY DEF Inv, Shape
  <2>. QED  BY <2>1 DEF Available, Provided
<1>2. IsFiniteSet(W) /\ IsFiniteSet(V)
  <2>1. IsFiniteSet(Threads) /\ W \subseteq Threads /\ V \subseteq Threads
    BY ThreadsAssumption DEF Wakers
  <2>. QED  BY <2>1, FS_Subset
<1>3. W \ {t} \subseteq V
  BY DEF Wakers
<1>4. ASSUME NEW u \in ToSet(lists[l]) \ ToSet(lists'[l]), u # t
      PROVE  u \in V \ W
  <2>1. waitsFor[u] = l /\ pc[u] = "asleep"
    BY DEF Inv, Waits
  <2>2. u \in Threads
    <3>1. lists[l] \in Seq(Threads)
      BY DEF Inv, Shape, BlockingTypeOK
    <3>. QED  BY <3>1 DEF ToSet
  <2>3. waitsFor'[u] = l /\ pc'[u] = "asleep"
    BY <1>4, <2>1, <2>2
  <2>4. u \in V
    BY <2>2, <2>3 DEF Wakers
  <2>5. u \notin W
    BY <2>1 DEF Wakers
  <2>. QED  BY <2>4, <2>5
<1>. HIDE DEF W, V
<1>5. /\ Cardinality(W) \in Nat /\ Cardinality(V) \in Nat
      /\ W \subseteq V => Cardinality(W) <= Cardinality(V)
      /\ W \ {t} \subseteq V => Cardinality(W) - 1 <= Cardinality(V)
      /\ W \subseteq V /\ t \in V \ W => Cardinality(W) + 1 <= Cardinality(V)
  BY <1>2, WakersCount
<1>6. CASE Available(l)' <= Available(l) /\ (t \in W => t \in V)
  <2>1. W \subseteq V
    BY <1>3, <1>6
  <2>. QED  BY <1>1, <1>5, <1>6, <2>1 DEF V
<1>7. CASE Available(l)' <= Available(l) - 1
  BY <1>1, <1>3, <1>5, <1>7 DEF V
<1>8. CASE Available(l)' <= Available(l) + 1 /\ t \in V \ W
  <2>1. W \subseteq V
    BY <1>3, <1>8
  <2>. QED  BY <1>1, <1>5, <1>8, <2>1 DEF V
<1>9. CASE /\ Available(l)' <= Available(l) + 1
           /\ t \in W => t \in V
           /\ \E u \in ToSet(lists[l]) \ ToSet(lists'[l]) : u # t
  <2>1. PICK u \in ToSet(lists[l]) \ ToSet(lists'[l]) : u # t
    BY <1>9
  <2>2. W \subseteq V /\ u \in V \ W
    BY <1>3, <1>4, <1>9, <2>1
  <2>3. Cardinality(W) + 1 <= Cardinality(V)
    BY <1>2, <2>2, WakersCount
  <2>. QED  BY <1>1, <1>5, <1>9, <2>3 DEF V
<1>10. CASE /\ Available(l)' <= Available(l)
            /\ \E u \in ToSet(lists[l]) \ ToSet(lists'[l]) : u # t
  <2>1. PICK u \in ToSet(lists[l]) \ ToSet(lists'[l]) : u # t
    BY <1>10
  <2>2. u \in V \ W
    BY <1>4, <2>1
  <2>3. Cardinality(W) <= Cardinality(V)
    BY <1>2, <1>3, <2>2, WakersCount
  <2>. QED  BY <1>1, <1>5, <1>10, <2>3 DEF V
<1>. QED  BY <1>6, <1>7, <1>8, <1>9, <1>10 DEF W, V

\* For every block or message that a waiting caller could take somebody is
\* on the way: each step that adds one adds a waker, each waker that goes
\* took one or found none.
LEMMA ProvidedStep ==
  ASSUME Inv, Inv', Provided, [Next]_vars
  PROVE  Provided'
<1>. SUFFICES ASSUME NEW l \in Lists \ Timed, (lists[l])' # <<>>
              PROVE  Available(l)' <= Cardinality(Wakers(l)')
  BY DEF Provided
<1>. DEFINE Goal == Available(l)' <= Cardinality(Wakers(l)')
            Kept(t) == /\ lists[l] # <<>>
                       /\ ToSet(lists'[l]) \subseteq ToSet(lists[l])
                       /\ \A u \in Threads \ {t} :
                            pc'[u] = pc[u] /\ waitsFor'[u] = waitsFor[u]
            Popped(t) == \E u \in ToSet(lists[l]) \ ToSet(lists'[l]) : u # t
<1>1. /\ Shape /\ Waits /\ Placed /\ Owned /\ Shape' /\ Waits' /\ Placed'
      /\ Owned'
      /\ Lists = {"pool", "send", "receive"} /\ NoList \notin Lists
      /\ Producers \subseteq Threads /\ Consumers \subseteq Threads
  BY MailAssumption, ListsAssumption DEF Inv
<1>2. /\ Available(l) = IF l = "pool" THEN Len(first)
                        ELSE IF l = "send" THEN Len(firstFree) ELSE count
      /\ Available(l)' = IF l = "pool" THEN Len(first')
                         ELSE IF l = "send" THEN Len(firstFree') ELSE count'
  BY DEF Available
<1>3. /\ first \in Seq(PoolBlocks) /\ firstFree \in Seq(Blocks) /\ count \in Nat
      /\ Len(first) \in Nat /\ Len(firstFree) \in Nat
      /\ pc \in [Threads -> Labels]
      /\ waitsFor \in [Threads -> Lists \union {NoList}]
      /\ lists \in [Lists -> Seq(Threads)]
  BY <1>1 DEF Shape, Placed, BlockingTypeOK, Labels, Elsewhere
<1>4. \A t \in Threads : t \in Wakers(l) =>
        \/ waitsFor[t] = l /\ pc[t] \in {"loop", "woken", "asleep"}
        \/ l = "pool" /\ pc[t] = "freed"
  BY DEF Wakers
<1>5. \A t \in Threads :
        waitsFor[t] \in Lists <=> pc[t] \in {"loop", "asleep", "woken"}
  BY <1>1 DEF Waits
<1>6. ASSUME NEW t, Kept(t),
             \/ /\ Available(l)' <= Available(l)
                /\ t \in Wakers(l) => t \in Wakers(l)'
             \/ Available(l)' <= Available(l) - 1
             \/ /\ Available(l)' <= Available(l) + 1
                /\ t \in Wakers(l)' \ Wakers(l)
             \/ /\ Available(l)' <= Available(l) + 1
                /\ t \in Wakers(l) => t \in Wakers(l)'
                /\ Popped(t)
             \/ Available(l)' <= Available(l) /\ Popped(t)
      PROVE  Goal
  BY <1>6, Balance
<1>7. ASSUME Shrinks
      PROVE  lists[l] # <<>> /\ ToSet(lists'[l]) \subseteq ToSet(lists[l])
  BY <1>1, <1>7, ShrunkLists DEF Shrinks
<1>8. ASSUME lists[l] # <<>>, lists'[l] = Tail(lists[l]), NEW t,
             t \in Threads => pc[t] # "asleep"
      PROVE  Popped(t)
  <2>1. /\ Head(lists[l]) \in ToSet(lists[l]) /\ Head(lists[l]) \in Threads
        /\ ToSet(lists'[l]) = ToSet(lists[l]) \ {Head(lists[l])}
    BY <1>1, <1>8, WaitingLists
  <2>2. pc[Head(lists[l])] = "asleep"
    BY <1>1, <2>1 DEF Waits
  <2>. QED  BY <1>8, <2>1, <2>2
<1>9. NoThread \notin Threads /\ NoThread \notin Wakers(l)
  BY ThreadsAssumption DEF Wakers
<1>10. ASSUME Available(l)' = 0
       PROVE  Goal
  <2>1. IsFiniteSet(Wakers(l)')
    <3>1. IsFiniteSet(Threads) /\ Wakers(l)' \subseteq Threads
      BY ThreadsAssumption DEF Wakers
    <3>. QED  BY <3>1, FS_Subset
  <2>2. Cardinality(Wakers(l)') \in Nat
    BY <2>1, FS_CardinalityType
  <2>. QED  BY <1>10, <2>2
<1>. HIDE DEF Goal, Popped
<1>11. CASE UNCHANGED vars
  <2>1. /\ Kept(NoThread) /\ Available(l)' <= Available(l)
    BY <1>2, <1>3, <1>11 DEF vars, kernelVars, queueVars, poolVars
  <2>. QED  BY <1>6, <1>9, <2>1 DEF Goal
\* The steps common to all calls.
<1>12. ASSUME NEW t \in Threads, Enters(t), Available(l)' <= Available(l)
       PROVE  Goal
  <2>1. pc[t] = "app" /\ UNCHANGED lists
        /\ \A u \in Threads \ {t} : pc'[u] = pc[u] /\ waitsFor'[u] = waitsFor[u]
    BY <1>3, <1>12 DEF Enters, EnterLoop, At, Goto
  <2>2. t \notin Wakers(l)
    BY <1>4, <1>5, <2>1
  <2>. QED  BY <1>6, <1>12, <2>1, <2>2
<1>13. ASSUME NEW t \in Threads, NEW k \in Lists, SuspendOn(t, k),
              Available(l)' <= Available(l), k = l => Available(l)' = 0
       PROVE  Goal
  <2>1. CASE k = l
    BY <1>10, <1>13, <2>1
  <2>2. CASE k # l
    <3>1. /\ waitsFor[t] = k /\ pc[t] = "loop" /\ lists'[l] = lists[l]
          /\ \A u \in Threads \ {t} :
               pc'[u] = pc[u] /\ waitsFor'[u] = waitsFor[u]
      BY <1>3, <1>13, <2>2 DEF SuspendOn, At, Goto
    <3>2. t \notin Wakers(l)
      BY <1>4, <2>2, <3>1
    <3>. QED  BY <1>6, <1>13, <3>1, <3>2
  <2>. QED  BY <2>1, <2>2
\* A call that ends: nobody counts on its thread on another list.
<1>14. ASSUME NEW t \in Threads, NEW k \in Lists, NEW label,
              Trying(t, k), LeaveFor(t, label)
       PROVE  /\ \A u \in Threads \ {t} :
                   pc'[u] = pc[u] /\ waitsFor'[u] = waitsFor[u]
              /\ k # l => t \notin Wakers(l)
              /\ pc[t] # "asleep"
  <2>1. \/ pc[t] = "app" /\ waitsFor[t] \notin Lists
        \/ pc[t] = "loop" /\ waitsFor[t] = k
    BY <1>5, <1>14 DEF Trying, At
  <2>2. k # l => t \notin Wakers(l)
    BY <1>4, <2>1
  <2>. QED  BY <1>3, <1>14, <2>1, <2>2 DEF LeaveFor, Goto
<1>15. ASSUME NEW t \in Threads, Alloc(t)
       PROVE  Goal
  <2>0. UNCHANGED <<firstFree, count>>
    BY <1>15 DEF Alloc, queueVars
  <2>1. CASE \E b \in PoolBlocks : AllocTakes(t, b)
    <3>1. /\ Trying(t, "pool") /\ LeaveFor(t, "app") /\ UNCHANGED lists
          /\ Len(first') = Len(first) - 1
      BY <1>3, <2>1 DEF AllocTakes, TryFirst
    <3>2. Kept(t) /\ ("pool" # l => t \notin Wakers(l))
      BY <1>1, <1>14, <3>1
    <3>3. CASE l = "pool"
      <4>1. Available(l)' <= Available(l) - 1
        BY <1>2, <1>3, <3>1, <3>3
      <4>. QED  BY <1>6, <3>2, <4>1
    <3>4. CASE l # "pool"
      BY <1>2, <1>3, <1>6, <2>0, <3>2, <3>4
    <3>. QED  BY <3>3, <3>4
  <2>2. CASE \E timeout \in TimeoutsOf("pool") : AllocEnters(t, timeout)
    <3>1. Enters(t) /\ UNCHANGED first
      BY <1>1, <1>15, <2>2
         DEF Alloc, queueVars, AllocEnters, NoneFree, poolVars, Enters
    <3>. QED  BY <1>2, <1>3, <1>12, <2>0, <3>1
  <2>3. CASE AllocSuspends(t)
    <3>1. SuspendOn(t, "pool") /\ UNCHANGED first /\ Len(first) = 0
      BY <1>1, <2>3 DEF AllocSuspends, NoneFree, poolVars
    <3>. QED  BY <1>1, <1>2, <1>3, <1>13, <2>0, <3>1
  <2>. QED  BY <1>15, <2>1, <2>2, <2>3 DEF Alloc
\* A message sent: one free block less, one message and one wake-up more.
<1>16. ASSUME NEW t, NEW m, NEW p, TrySend(m, p),
              \A u \in Threads \ {t} :
                pc'[u] = pc[u] /\ waitsFor'[u] = waitsFor[u],
              l # "send" => t \notin Wakers(l),
              t \in Threads => pc[t] # "asleep",
              UNCHANGED first
       PROVE  l = "send" \/ t \notin Wakers(l) => Goal
  <2>1. /\ Len(firstFree') = Len(firstFree) - 1 /\ count' = count + 1
        /\ ResumeOne("receive")
    BY <1>3, <1>16 DEF TrySend
  <2>2. Kept(t)
    BY <1>1, <1>7, <1>16, <2>1, ShrinkingLists
  <2>3. CASE l = "send"
    <3>1. Available(l)' <= Available(l) - 1
      BY <1>2, <1>3, <2>1, <2>3
    <3>. QED  BY <1>6, <2>2, <3>1
  <2>4. CASE l = "receive"
    <3>1. lists'[l] = Tail(lists[l])
      BY <1>3, <2>1, <2>2, <2>4 DEF ResumeOne
    <3>2. Popped(t)
      BY <1>8, <1>16, <2>2, <3>1
    <3>. QED  BY <1>2, <1>3, <1>6, <1>16, <2>1, <2>2, <2>4, <3>2
  <2>5. CASE l = "pool"
    BY <1>2, <1>3, <1>6, <1>16, <2>2, <2>5
  <2>. QED  BY <1>1, <2>3, <2>4, <2>5
<1>17. ASSUME NEW t \in Threads, Put(t)
       PROVE  Goal
  <2>0. UNCHANGED first
    BY <1>17 DEF Put, poolVars
  <2>1. CASE \E p \in MsgPriorities : SendTakes(t, holds[t], p)
    <3>1. PICK p \in MsgPriorities : SendTakes(t, holds[t], p)
      BY <2>1
    <3>2. Trying(t, "send") /\ LeaveFor(t, "app") /\ TrySend(holds[t], p)
      BY <3>1 DEF SendTakes
    <3>. QED  BY <1>1, <1>14, <1>16, <2>0, <3>2
  <2>2. CASE \E timeout \in TimeoutsOf("send") : SendEnters(t, timeout)
    <3>1. Enters(t) /\ UNCHANGED <<firstFree, count>>
      BY <1>1, <2>2 DEF SendEnters, TrySendFails, queueVars, Enters
    <3>. QED  BY <1>2, <1>3, <1>12, <2>0, <3>1
  <2>3. CASE SendSuspends(t)
    <3>1. /\ SuspendOn(t, "send") /\ UNCHANGED <<firstFree, count>>
          /\ Len(firstFree) = 0
      BY <1>1, <2>3 DEF SendSuspends, TrySendFails, queueVars
    <3>. QED  BY <1>1, <1>2, <1>3, <1>13, <2>0, <3>1
  <2>. QED  BY <1>17, <2>1, <2>2, <2>3 DEF Put
\* A message block given back: one free block and one wake-up more.
<1>18. ASSUME NEW t, NEW b, Release(b),
              \A u \in Threads \ {t} :
                pc'[u] = pc[u] /\ waitsFor'[u] = waitsFor[u],
              t \notin Wakers(l), t \in Threads => pc[t] # "asleep",
              count' <= count, UNCHANGED first
       PROVE  Goal
  <2>1. Len(firstFree') = Len(firstFree) + 1 /\ ResumeOne("send")
    <3>1. firstFree' = <<b>> \o firstFree /\ firstFree' \in Seq(Blocks)
      BY <1>1, <1>18 DEF Release, Shape
    <3>2. Len(<<b>> \o firstFree) = Len(firstFree) + 1
      BY <1>3
    <3>. QED  BY <1>18, <3>1, <3>2 DEF Release
  <2>2. Kept(t)
    BY <1>1, <1>7, <1>18, <2>1, ShrinkingLists
  <2>3. count' \in Nat
    BY <1>1 DEF Placed
  <2>4. CASE l = "send"
    <3>1. lists'[l] = Tail(lists[l])
      BY <1>3, <2>1, <2>2, <2>4 DEF ResumeOne
    <3>2. Popped(t)
      BY <1>8, <1>18, <2>2, <3>1
    <3>. QED  BY <1>2, <1>3, <1>6, <1>18, <2>1, <2>2, <2>4, <3>2
  <2>5. CASE l # "send"
    BY <1>1, <1>2, <1>3, <1>6, <1>18, <2>2, <2>3, <2>5
  <2>. QED  BY <2>4, <2>5
<1>19. ASSUME NEW t \in Threads, Get(t)
       PROVE  Goal
  <2>0. UNCHANGED first
    BY <1>19 DEF Get, poolVars
  <2>1. CASE ReceiveTakes(t)
    <3>1. /\ Trying(t, "receive") /\ LeaveFor(t, "copying") /\ UNCHANGED lists
          /\ count' = count - 1 /\ UNCHANGED firstFree
      BY <2>1 DEF ReceiveTakes, UnlinkHead
    <3>2. Kept(t) /\ ("receive" # l => t \notin Wakers(l))
      BY <1>1, <1>14, <3>1
    <3>3. CASE l = "receive"
      <4>1. Available(l)' <= Available(l) - 1
        BY <1>2, <1>3, <3>1, <3>3
      <4>. QED  BY <1>6, <3>2, <4>1
    <3>4. CASE l # "receive"
      BY <1>1, <1>2, <1>3, <1>6, <2>0, <3>1, <3>2, <3>4
    <3>. QED  BY <3>3, <3>4
  <2>2. CASE ReceiveCopies(t)
    <3>1. /\ pc[t] = "copying" /\ Release(src[t]) /\ count' = count
          /\ \A u \in Threads \ {t} :
               pc'[u] = pc[u] /\ waitsFor'[u] = waitsFor[u]
      BY <1>3, <2>2 DEF ReceiveCopies, At, Goto
    <3>2. t \notin Wakers(l)
      BY <1>4, <3>1
    <3>. QED  BY <1>3, <1>18, <2>0, <3>1, <3>2
  <2>3. CASE \E timeout \in TimeoutsOf("receive") : ReceiveEnters(t, timeout)
    <3>1. Enters(t) /\ UNCHANGED <<firstFree, count>>
      BY <1>1, <2>3 DEF ReceiveEnters, ReceiveFails, queueVars, Enters
    <3>. QED  BY <1>2, <1>3, <1>12, <2>0, <3>1
  <2>4. CASE ReceiveSuspends(t)
    <3>1. /\ SuspendOn(t, "receive") /\ UNCHANGED <<firstFree, count>>
          /\ head = NoIndex
      BY <2>4 DEF ReceiveSuspends, ReceiveFails, queueVars
    <3>2. count = 0
      BY <1>1, <3>1, QueuedLength
    <3>. QED  BY <1>1, <1>2, <1>3, <1>13, <2>0, <3>1, <3>2
  <2>. QED  BY <1>19, <2>1, <2>2, <2>3, <2>4 DEF Get
<1>20. ASSUME NEW t \in Threads, GiveAway(t)
       PROVE  Goal
  <2>0. UNCHANGED <<firstFree, count>>
    BY <1>20 DEF GiveAway, queueVars
  <2>1. CASE \E b : Free(t, b)
    <3>1. PICK b : Free(t, b)
      BY <2>1
    <3>2. /\ pc[t] = "app" /\ pc'[t] = "freed" /\ first' = <<b>> \o first
          /\ UNCHANGED lists
          /\ \A u \in Threads \ {t} :
               pc'[u] = pc[u] /\ waitsFor'[u] = waitsFor[u]
      BY <1>3, <3>1 DEF Free, GiveBack, At, Goto
    <3>3. Kept(t) /\ t \notin Wakers(l)
      BY <1>4, <1>5, <3>2
    <3>6. first' \in Seq(PoolBlocks)
      BY <1>1 DEF Shape
    <3>7. Len(<<b>> \o first) = Len(first) + 1
      BY <1>3
    <3>8. Len(first') = Len(first) + 1
      BY <3>2, <3>7
    <3>4. CASE l = "pool"
      <4>1. t \in Wakers(l)'
        BY <3>2, <3>4 DEF Wakers
      <4>2. Available(l)' <= Available(l) + 1 /\ t \in Wakers(l)' \ Wakers(l)
        BY <1>2, <1>3, <3>3, <3>4, <3>8, <4>1
      <4>. QED  BY <1>6, <3>3, <4>2
    <3>5. CASE l # "pool"
      BY <1>2, <1>3, <1>6, <2>0, <3>3, <3>5
    <3>. QED  BY <3>4, <3>5
  <2>2. CASE FreePops(t)
    <3>1. /\ pc[t] = "freed" /\ lists["pool"] # <<>>
          /\ lists' = [lists EXCEPT !["pool"] = Tail(@)] /\ first' = first
          /\ \A u \in Threads \ {t} :
               pc'[u] = pc[u] /\ waitsFor'[u] = waitsFor[u]
      BY <1>3, <2>2 DEF FreePops, PopWaiter, At, Goto, poolVars
    <3>2. Shrinks
      BY <1>1, <2>2, ShrinkingLists DEF FreePops
    <3>3. Kept(t)
      BY <1>7, <3>1, <3>2
    <3>4. CASE l = "pool"
      <4>1. lists'[l] = Tail(lists[l])
        BY <1>3, <3>1, <3>4
      <4>2. Popped(t)
        BY <1>8, <3>1, <3>3, <4>1
      <4>. QED  BY <1>2, <1>3, <1>6, <3>1, <3>3, <3>4, <4>2
    <3>5. CASE l # "pool"
      <4>1. t \notin Wakers(l)
        BY <1>4, <3>1, <3>5
      <4>. QED  BY <1>2, <1>3, <1>6, <2>0, <3>3, <3>5, <4>1
    <3>. QED  BY <3>4, <3>5
  <2>3. CASE FreeWakesNobody(t)
    <3>1. /\ pc[t] = "freed" /\ lists["pool"] = <<>>
          /\ UNCHANGED <<lists, first>>
          /\ \A u \in Threads \ {t} :
               pc'[u] = pc[u] /\ waitsFor'[u] = waitsFor[u]
      BY <1>3, <2>3 DEF FreeWakesNobody, NobodyWaits, At, Goto, poolVars
    <3>2. l # "pool"
      BY <3>1
    <3>3. t \notin Wakers(l) /\ Kept(t)
      BY <1>4, <3>1, <3>2
    <3>. QED  BY <1>2, <1>3, <1>6, <2>0, <3>2, <3>3
  <2>4. CASE FreeResumes(t)
    <3>1. /\ pc[t] = "resuming" /\ UNCHANGED <<lists, first>>
          /\ \A u \in Threads \ {t} :
               pc'[u] = pc[u] /\ waitsFor'[u] = waitsFor[u]
      BY <1>3, <2>4 DEF FreeResumes, ResumePopped, At, Goto, poolVars
    <3>2. t \notin Wakers(l) /\ Kept(t)
      BY <1>4, <3>1
    <3>. QED  BY <1>2, <1>3, <1>6, <2>0, <3>1, <3>2
  <2>. QED  BY <1>20, <2>1, <2>2, <2>3, <2>4 DEF GiveAway
\* Interrupts: no thread moves.
<1>21. CASE ISRAlloc
  <2>1. /\ UNCHANGED <<lists, pc, waitsFor, firstFree, count>>
        /\ Len(first') = Len(first) - 1
    BY <1>3, <1>21 DEF ISRAlloc, AllocFromISR, TryFirst, kernelVars, queueVars
  <2>. QED  BY <1>2, <1>3, <1>6, <1>9, <2>1 DEF Goal
<1>22. CASE ISRSends
  <2>0. UNCHANGED first
    BY <1>22 DEF ISRSends, poolVars
  <2>1. PICK p \in MsgPriorities : \E m : SendFromISR(m, p)
    BY <1>22 DEF ISRSends
  <2>3. PICK m : SendFromISR(m, p)
    BY <2>1
  <2>2. Goal
    BY <1>9, <1>16, <2>0, <2>3 DEF SendFromISR
  <2>. QED  BY <2>2 DEF Goal
<1>23. CASE ISRReceives
  <2>1. /\ Release(head) /\ count' = count - 1
        /\ UNCHANGED <<pc, waitsFor, first>>
    BY <1>23 DEF ISRReceives, ReceiveFromISR, UnlinkHead, poolVars
  <2>2. count' <= count
    BY <1>3, <2>1
  <2>3. Goal
    BY <1>9, <1>18, <2>1, <2>2
  <2>. QED  BY <2>3 DEF Goal
<1>24. CASE ISRFrees
  <2>1. /\ first' = <<holds[ISR]>> \o first /\ ResumeOne("pool")
        /\ UNCHANGED <<pc, waitsFor, firstFree, count>>
    BY <1>24 DEF ISRFrees, FreeFromISR, GiveBack, queueVars
  <2>2. Kept(NoThread) /\ Len(first') = Len(first) + 1
    BY <1>1, <1>3, <1>7, <2>1, ShrinkingLists
  <2>3. CASE l = "pool"
    <3>1. lists'[l] = Tail(lists[l])
      BY <1>3, <2>1, <2>2, <2>3 DEF ResumeOne
    <3>2. Popped(NoThread)
      BY <1>8, <1>9, <2>2, <3>1
    <3>. QED  BY <1>2, <1>3, <1>6, <1>9, <2>2, <2>3, <3>2 DEF Goal
  <2>4. CASE l # "pool"
    BY <1>2, <1>3, <1>6, <1>9, <2>1, <2>2, <2>4 DEF Goal
  <2>. QED  BY <2>3, <2>4
<1>25. ASSUME NEW t \in Threads, ResetQueue(t)
       PROVE  Goal
  <2>1. /\ UNCHANGED <<pc, waitsFor, first>>
        /\ lists' = [k \in Lists |-> IF k \in {"send", "receive"} THEN <<>>
                                     ELSE lists[k]]
    BY <1>25 DEF ResetQueue, QueueReset, ResumeAll, poolVars
  <2>2. l = "pool" /\ lists'[l] = lists[l]
    BY <1>1, <2>1
  <2>. QED  BY <1>2, <1>3, <1>6, <1>9, <2>1, <2>2
<1>26. ASSUME NEW t \in Threads, ResetPool(t)
       PROVE  Goal
  <2>0. UNCHANGED <<firstFree, count>>
    BY <1>26 DEF ResetPool, queueVars
  <2>1. CASE inUse = 0 /\ PoolReset(t)
    <3>1. /\ pc[t] = "app" /\ UNCHANGED <<lists, holds>> /\ inUse' = 0
          /\ \A u \in Threads \ {t} :
               pc'[u] = pc[u] /\ waitsFor'[u] = waitsFor[u]
      BY <1>3, <1>26, <2>1 DEF ResetPool, PoolReset, At, Goto
    <3>2. t \notin Wakers(l) /\ Kept(t)
      BY <1>4, <1>5, <3>1
    <3>3. Len(first') = Len(first)
      <4>1. /\ Len(first') \in Nat /\ Cardinality(PoolBlocks) \in Nat
            /\ inUse' = Cardinality(PoolBlocks) - Len(first')
            /\ inUse = Cardinality(PoolBlocks) - Len(first)
        BY <1>1, PoolAssumption, FS_CardinalityType DEF Shape, Owned
      <4>. QED  BY <1>3, <2>1, <3>1, <4>1
    <3>. QED  BY <1>2, <1>3, <1>6, <2>0, <3>2, <3>3
  <2>2. CASE ResetPops(t)
    <3>1. /\ pc[t] = "reset" /\ UNCHANGED first
          /\ \A u \in Threads \ {t} :
               pc'[u] = pc[u] /\ waitsFor'[u] = waitsFor[u]
      BY <1>3, <2>2 DEF ResetPops, PopWaiter, At, Goto, poolVars
    <3>2. Shrinks
      BY <1>1, <2>2, ShrinkingLists DEF ResetPops
    <3>3. Kept(t) /\ t \notin Wakers(l)
      BY <1>4, <1>7, <3>1, <3>2
    <3>. QED  BY <1>2, <1>3, <1>6, <2>0, <3>1, <3>3
  <2>3. CASE ResetResumes(t)
    <3>1. /\ pc[t] = "resuming_all" /\ UNCHANGED <<lists, first>>
          /\ \A u \in Threads \ {t} :
               pc'[u] = pc[u] /\ waitsFor'[u] = waitsFor[u]
      BY <1>3, <2>3 DEF ResetResumes, ResumePopped, At, Goto, poolVars
    <3>2. t \notin Wakers(l) /\ Kept(t)
      BY <1>4, <3>1
    <3>. QED  BY <1>2, <1>3, <1>6, <2>0, <3>1, <3>2
  <2>4. CASE ResetEnds(t)
    <3>1. /\ pc[t] = "reset" /\ UNCHANGED <<lists, first>>
          /\ \A u \in Threads \ {t} :
               pc'[u] = pc[u] /\ waitsFor'[u] = waitsFor[u]
      BY <1>3, <2>4 DEF ResetEnds, NobodyWaits, At, Goto, poolVars
    <3>2. t \notin Wakers(l) /\ Kept(t)
      BY <1>4, <3>1
    <3>. QED  BY <1>2, <1>3, <1>6, <2>0, <3>1, <3>2
  <2>. QED  BY <1>26, <2>1, <2>2, <2>3, <2>4 DEF ResetPool
<1>27. ASSUME NEW t \in Threads, Step(t)
       PROVE  Goal
  <2>0. UNCHANGED <<firstFree, count, first>>
    BY <1>27 DEF Step, queueVars, poolVars
  <2>1. CASE UnlinkNode(t)
    <3>. DEFINE k == waitsFor[t]
    <3>1. /\ pc[t] = "asleep" /\ pc'[t] = "woken" /\ waitsFor' = waitsFor
          /\ lists' = [lists EXCEPT ![k] = Unlink(lists[k], t)]
          /\ \A u \in Threads \ {t} : pc'[u] = pc[u]
      BY <1>3, <2>1 DEF UnlinkNode, At, Goto
    <3>2. k \in Lists
      BY <1>5, <3>1
    <3>3. ToSet(Unlink(lists[k], t)) = ToSet(lists[k]) \ {t}
      BY <1>1, <3>2, WaitingLists
    <3>4. lists[l] # <<>> /\ ToSet(lists'[l]) \subseteq ToSet(lists[l])
      <4>1. CASE k = l
        <5>1. lists'[l] = Unlink(lists[l], t)
          BY <1>3, <3>1, <3>2, <4>1
        <5>2. lists[l] # <<>>
          BY <5>1 DEF Unlink, ToSet
        <5>. QED  BY <3>3, <4>1, <5>1, <5>2
      <4>2. CASE k # l
        BY <1>3, <3>1, <3>2, <4>2
      <4>. QED  BY <4>1, <4>2
    <3>5. t \in Wakers(l) => t \in Wakers(l)'
      BY <1>4, <3>1 DEF Wakers
    <3>. QED  BY <1>2, <1>3, <1>6, <2>0, <3>1, <3>4, <3>5
  <2>2. CASE GiveUp(t)
    <3>1. /\ pc[t] = "woken" /\ left[t] = 0 /\ UNCHANGED lists
          /\ \A u \in Threads \ {t} :
               pc'[u] = pc[u] /\ waitsFor'[u] = waitsFor[u]
      BY <1>3, <2>2 DEF GiveUp, LeaveFor, At, Goto
    <3>2. waitsFor[t] # l
      BY <1>1, <3>1 DEF Waits, Forever
    <3>3. t \notin Wakers(l) /\ Kept(t)
      BY <1>4, <3>1, <3>2
    <3>. QED  BY <1>2, <1>3, <1>6, <2>0, <3>3
  <2>3. CASE Retry(t)
    <3>1. /\ pc[t] = "woken" /\ pc'[t] = "loop" /\ UNCHANGED <<lists, waitsFor>>
          /\ \A u \in Threads \ {t} : pc'[u] = pc[u]
      BY <1>3, <2>3 DEF Retry, At, Goto
    <3>2. (t \in Wakers(l) => t \in Wakers(l)') /\ Kept(t)
      BY <1>4, <3>1 DEF Wakers
    <3>. QED  BY <1>2, <1>3, <1>6, <2>0, <3>2
  <2>. QED  BY <1>27, <2>1, <2>2, <2>3 DEF Step
<1>28. ASSUME NEW t \in Threads, Resumed(t)
       PROVE  Goal
  <2>1. UNCHANGED <<lists, waitsFor, pc, first, firstFree, count>>
    BY <1>28 DEF Resumed, SpuriousResume, queueVars, poolVars
  <2>. QED  BY <1>2, <1>3, <1>6, <1>9, <2>1
<1>29. CASE Tick
  <2>1. UNCHANGED <<lists, waitsFor, pc, first, firstFree, count>>
    BY <1>29 DEF Tick, ClockTick, queueVars, poolVars
  <2>. QED  BY <1>2, <1>3, <1>6, <1>9, <2>1 DEF Goal
<1>. QED  BY <1>1, <1>11, <1>15, <1>17, <1>19, <1>20, <1>21, <1>22, <1>23,
          <1>24, <1>25, <1>26, <1>27, <1>28, <1>29 DEF Next, Goal

\* Nobody waits at first.
LEMMA ProvidedInit == Init => Provided
<1>. SUFFICES ASSUME Init, NEW l \in Lists \ Timed
              PROVE  lists[l] = <<>>
  BY DEF Provided
<1>. QED  BY DEF Init, BlockingInit

\* The wakers of a list are among those that NoLostWakeup counts.
LEMMA ProvidedWakes == Inv /\ Provided => NoLostWakeup
<1>. SUFFICES ASSUME Inv, Provided, NEW l \in Lists \ Timed, lists[l] # <<>>
              PROVE  Available(l) <= Cardinality(Pending(l))
  BY DEF NoLostWakeup
<1>1. /\ IsFiniteSet(Threads) /\ Wakers(l) \subseteq Pending(l)
      /\ Pending(l) \subseteq Threads
  BY ThreadsAssumption DEF Wakers, Pending
<1>2. IsFiniteSet(Pending(l))
  BY <1>1, FS_Subset
<1>3. /\ IsFiniteSet(Wakers(l))
      /\ Cardinality(Wakers(l)) <= Cardinality(Pending(l))
  BY <1>1, <1>2, FS_Subset
<1>4. Cardinality(Wakers(l)) \in Nat /\ Cardinality(Pending(l)) \in Nat
  BY <1>2, <1>3, FS_CardinalityType
<1>5. Available(l) <= Cardinality(Wakers(l))
  BY DEF Provided
<1>6. Available(l) \in Int
  <2>1. /\ first \in Seq(PoolBlocks) /\ firstFree \in Seq(Blocks)
        /\ count \in Int
    BY DEF Inv, Shape
  <2>. QED  BY <2>1 DEF Available
<1>. QED  BY <1>3, <1>4, <1>5, <1>6

\* No wake-up is lost on a list whose callers wait forever: whatever the
\* number of threads, of blocks and of messages, as long as one waits in
\* alloc(), send() or receive(), every block or message it could have taken
\* has a thread that was woken for it, or that is about to wake one.
THEOREM NoWakeupIsLost == Spec => []NoLostWakeup
<1>1. Inv /\ Inv' /\ Provided /\ [Next]_vars => Provided'
  BY ProvidedStep
<1>. QED  BY <1>1, SpecInv, ProvidedInit, ProvidedWakes, PTL DEF Spec
-----------------------------------------------------------------------------
(* The queue as PriorityQueue sees it.                                     *)

\* The values that f gives the elements of q, in the order of q.
Along(q, f) == [k \in 1..Len(q) |-> f[q[k]]]

\* What each block holds, for PriorityQueue.
Entries == [b \in Blocks |-> [msg |-> content[b], mprio |-> mprio[b]]]

InHand == [t \in Threads |->
             IF src[t] = NoIndex THEN NoMessage ELSE content[src[t]]]

\* The messages along a sequence of blocks are a sequence as long.
LEMMA AlongIsSequence ==
  ASSUME NEW B, NEW S, NEW q \in Seq(B), NEW f \in [B -> S]
  PROVE  Along(q, f) \in Seq(S) /\ Len(Along(q, f)) = Len(q)
<1>1. Len(q) \in Nat /\ \A k \in 1..Len(q) : f[q[k]] \in S
  OBVIOUS
<1>. QED  BY <1>1 DEF Along

\* Only the elements of q matter.
LEMMA AlongAgrees ==
  ASSUME NEW q, NEW f, NEW g, \A b \in ToSet(q) : g[b] = f[b]
  PROVE  Along(q, g) = Along(q, f)
<1>. SUFFICES ASSUME NEW k \in 1..Len(q)
              PROVE  g[q[k]] = f[q[k]]
  BY DEF Along
<1>. QED  BY DEF ToSet

\* Taking the head block takes the head message.
LEMMA AlongTail ==
  ASSUME NEW q \in Seq(Blocks), NEW f, NEW S, f \in [Blocks -> S]
  PROVE  q # <<>> => /\ Along(Tail(q), f) = Tail(Along(q, f))
                     /\ Along(q, f) # <<>>
<1>. DEFINE s == Along(q, f)
            r == Along(Tail(q), f)
<1>1. \A u \in Seq(Blocks) : Along(u, f) \in Seq(S) /\ Len(Along(u, f)) = Len(u)
  BY AlongIsSequence
<1>2. s \in Seq(S) /\ Len(s) = Len(q) /\ \A k \in 1..Len(q) : s[k] = f[q[k]]
  BY <1>1 DEF Along
<1>. SUFFICES ASSUME q # <<>>
              PROVE  r = Tail(s) /\ s # <<>>
  OBVIOUS
<1>3. /\ Len(q) \in Nat /\ Len(q) >= 1 /\ Tail(q) \in Seq(Blocks)
      /\ Len(Tail(q)) = Len(q) - 1
      /\ \A k \in 1..(Len(q) - 1) : Tail(q)[k] = q[k + 1]
  OBVIOUS
<1>4. r \in Seq(S) /\ Len(r) = Len(q) - 1
      /\ \A k \in 1..(Len(q) - 1) : r[k] = f[Tail(q)[k]]
  <2>1. r \in Seq(S) /\ Len(r) = Len(Tail(q))
    BY <1>1, <1>3
  <2>2. \A k \in 1..Len(Tail(q)) : r[k] = f[Tail(q)[k]]
    BY DEF Along
  <2>. QED  BY <1>3, <2>1, <2>2
<1>. HIDE DEF s, r
<1>5. /\ s # <<>> /\ Tail(s) \in Seq(S) /\ Len(Tail(s)) = Len(q) - 1
      /\ \A k \in 1..(Len(q) - 1) : Tail(s)[k] = s[k + 1]
  BY <1>2, <1>3
<1>6. \A k \in 1..(Len(q) - 1) : r[k] = Tail(s)[k]
  <2>. TAKE k \in 1..(Len(q) - 1)
  <2>1. k + 1 \in 1..Len(q)
    BY <1>3
  <2>. QED  BY <1>2, <1>3, <1>4, <1>5, <2>1
<1>7. Len(r) = Len(Tail(s)) /\ \A k \in 1..Len(r) : r[k] = Tail(s)[k]
  BY <1>4, <1>5, <1>6
<1>8. r = Tail(s)
  BY <1>4, <1>5, <1>7, SeqEqual
<1>. QED  BY <1>5, <1>8

\* Inserting a block inserts its message at the same place.
LEMMA AlongInsert ==
  ASSUME NEW q \in Seq(Blocks), NEW f, NEW S, f \in [Blocks -> S],
         NEW k \in 1..(Len(q) + 1), NEW new \in Blocks
  PROVE  Along(InsertAt(q, k, new), f) = InsertAt(Along(q, f), k, f[new])
<1>. DEFINE s == Along(q, f)
            n == Len(q)
            qi == InsertAt(q, k, new)
            e == f[new]
            si == InsertAt(s, k, e)
            r == Along(qi, f)
<1>0. \A u \in Seq(Blocks) : Along(u, f) \in Seq(S) /\ Len(Along(u, f)) = Len(u)
  BY AlongIsSequence
<1>1. /\ s \in Seq(S) /\ Len(s) = n /\ n \in Nat /\ k \in 1..(n + 1)
      /\ e \in S /\ \A j \in 1..n : s[j] = f[q[j]]
  BY <1>0 DEF Along
<1>3. /\ qi \in Seq(Blocks) /\ Len(qi) = n + 1
      /\ \A j \in 1..(k - 1) : qi[j] = q[j]
      /\ qi[k] = new
      /\ \A j \in k..n : qi[j + 1] = q[j]
  <2>1. q \in Seq(Blocks) /\ k \in 1..(Len(q) + 1) /\ new \in Blocks
    OBVIOUS
  <2>. QED  BY <2>1, InsertAtElements
<1>. HIDE DEF s
<1>4. /\ si \in Seq(S) /\ Len(si) = n + 1
      /\ \A j \in 1..(k - 1) : si[j] = s[j]
      /\ si[k] = e
      /\ \A j \in k..n : si[j + 1] = s[j]
  <2>1. s \in Seq(S) /\ k \in 1..(Len(s) + 1) /\ f[new] \in S
    BY <1>1
  <2>. QED  BY <1>1, <2>1, InsertAtElements
<1>. HIDE DEF qi, si, n, e
<1>5. /\ r \in Seq(S) /\ Len(r) = n + 1
      /\ \A j \in 1..(n + 1) : r[j] = f[qi[j]]
  <2>1. r \in Seq(S) /\ Len(r) = Len(qi)
    BY <1>0, <1>3
  <2>2. \A j \in 1..Len(qi) : r[j] = f[qi[j]]
    BY DEF Along
  <2>. QED  BY <1>3, <2>1, <2>2
<1>. HIDE DEF r
<1>7. \A j \in 1..(n + 1) : r[j] = si[j]
  <2>. TAKE j \in 1..(n + 1)
  <2>1. CASE j < k
    <3>1. j \in 1..(k - 1) /\ j \in 1..n
      BY <1>1, <2>1
    <3>2. qi[j] = q[j] /\ si[j] = s[j] /\ s[j] = f[q[j]]
      BY <1>1, <1>3, <1>4, <3>1
    <3>. QED  BY <1>5, <3>2
  <2>2. CASE j = k
    <3>1. qi[j] = new /\ si[j] = e /\ r[j] = f[qi[j]]
      BY <1>3, <1>4, <1>5, <2>2
    <3>. QED  BY <3>1 DEF e
  <2>3. CASE j > k
    <3>1. j - 1 \in k..n /\ j - 1 \in 1..n /\ (j - 1) + 1 = j
      BY <1>1, <2>3
    <3>2. /\ qi[(j - 1) + 1] = q[j - 1] /\ si[(j - 1) + 1] = s[j - 1]
          /\ s[j - 1] = f[q[j - 1]]
      BY <1>1, <1>3, <1>4, <3>1
    <3>3. qi[j] = q[j - 1] /\ si[j] = s[j - 1]
      BY <3>1, <3>2
    <3>. QED  BY <1>5, <3>2, <3>3
  <2>4. j \in Int /\ k \in Int
    BY <1>1
  <2>. QED  BY <2>1, <2>2, <2>3, <2>4
<1>8. r = si
  <2>1. Len(r) = Len(si) /\ \A j \in 1..Len(r) : r[j] = si[j]
    BY <1>4, <1>5, <1>7
  <2>. QED  BY <1>4, <1>5, <2>1, SeqEqual
<1>. QED  BY <1>8 DEF r, qi, si, s, e

\* The place of PriorityQueue is the one that the walk from the tail finds.
LEMMA PlaceIsCounted ==
  ASSUME NEW q \in Seq(Blocks), NEW prio \in [Blocks -> Nat],
         NEW p \in Nat, NEW k, PlaceFor(q, p, prio, k)
  PROVE  /\ {i \in 1..Len(q) : prio[q[i]] >= p} = 1..(k - 1)
         /\ Cardinality(1..(k - 1)) + 1 = k
<1>1. /\ Len(q) \in Nat /\ k \in 1..(Len(q) + 1)
      /\ \A i \in 1..Len(q) : q[i] \in Blocks /\ prio[q[i]] \in Nat
      /\ \A j \in 1..(k - 1) : prio[q[j]] >= p
      /\ \A j \in k..Len(q) : prio[q[j]] < p
  BY DEF PlaceFor
<1>2. ASSUME NEW i \in 1..Len(q), prio[q[i]] >= p
      PROVE  i \in 1..(k - 1)
  <2>1. i \notin k..Len(q)
    BY <1>1, <1>2
  <2>. QED  BY <1>1, <2>1
<1>3. ASSUME NEW i \in 1..(k - 1)
      PROVE  i \in 1..Len(q) /\ prio[q[i]] >= p
  BY <1>1
<1>4. Cardinality(1..(k - 1)) = k - 1
  <2>1. 1 \in Int /\ k - 1 \in Int /\ k \in Int /\ k >= 1
    BY <1>1
  <2>2. Cardinality(1..(k - 1)) = IF 1 > k - 1 THEN 0 ELSE (k - 1) - 1 + 1
    BY <2>1, FS_Interval
  <2>. QED  BY <2>1, <2>2
<1>. QED  BY <1>1, <1>2, <1>3, <1>4

\* The variables of PriorityQueue, as the instance computes them.
LEMMA AlongTheQueue ==
  ASSUME Inv, Inv'
  PROVE  /\ Queued \in Seq(Blocks) /\ Queued' \in Seq(Blocks)
         /\ Len(Queued) = count /\ Len(Queued') = count'
         /\ Entries
              \in [Blocks -> [msg : Messages \union {NoMessage}, mprio : Nat]]
         /\ Entries'
              \in [Blocks -> [msg : Messages \union {NoMessage}, mprio : Nat]]
         /\ [k \in 1..count |-> [msg |-> content[Queued[k]],
                                 mprio |-> mprio[Queued[k]]]]
              = Along(Queued, Entries)
         /\ [k \in 1..count |-> [msg |-> content[Queued[k]],
                                 mprio |-> mprio[Queued[k]]]]'
              = Along(Queued', Entries')
<1>1. count \in Nat /\ count' \in Nat
  BY DEF Inv, Placed
<1>2. Len(Queued) = count /\ Len(Queued') = count'
  BY <1>1 DEF Queued
<1>3. Queued \in Seq(Blocks) /\ Queued' \in Seq(Blocks)
  BY DEF Inv, Placed, Circle
<1>4. /\ mprio \in [Blocks -> Nat]
      /\ content \in [Blocks -> Messages \union {NoMessage}]
  BY PrioritiesAreNumbers DEF Inv, Shape
<1>5. /\ mprio' \in [Blocks -> Nat]
      /\ content' \in [Blocks -> Messages \union {NoMessage}]
  <2>1. /\ mprio' \in [Blocks -> MsgPriorities \union {0}]
        /\ content' \in [Blocks -> Messages \union {NoMessage}]
    BY DEF Inv, Shape
  <2>2. MsgPriorities \union {0} \subseteq Nat
    BY MessagesAssumption
  <2>. QED  BY <2>1, <2>2
<1>6. /\ \A k \in 1..count : Queued[k] \in Blocks
      /\ \A k \in 1..count' : Queued'[k] \in Blocks
  BY <1>2, <1>3
<1>. QED  BY <1>2, <1>3, <1>4, <1>5, <1>6 DEF Along, Entries

\* Only the receivers that copy hold something.
LEMMA HoldersCount ==
  ASSUME Shape, Placed
  PROVE  /\ \A t \in Threads : InHand[t] # NoMessage <=> src[t] # NoIndex
         /\ Cardinality({t \in Threads : InHand[t] # NoMessage})
              = Cardinality(Copied)
<1>. DEFINE H == {t \in Threads : InHand[t] # NoMessage}
<1>1. \A t \in Threads : InHand[t] # NoMessage <=> src[t] # NoIndex
  <2>. TAKE t \in Threads
  <2>1. InHand[t] = IF src[t] = NoIndex THEN NoMessage ELSE content[src[t]]
    BY DEF InHand
  <2>2. ASSUME src[t] # NoIndex
        PROVE  content[src[t]] # NoMessage
    <3>1. src[t] \in Blocks /\ src[t] \notin ToSet(firstFree)
      BY <2>2 DEF Shape, Placed
    <3>. QED  BY <3>1 DEF Placed
  <2>. QED  BY <2>1, <2>2
<1>2. IsFiniteSet(H)
  <2>1. IsFiniteSet(Threads) /\ H \subseteq Threads
    BY ThreadsAssumption
  <2>. QED  BY <2>1, FS_Subset
<1>3. \A t, u \in H : src[t] = src[u] => t = u
  BY <1>1 DEF Placed
<1>4. {src[t] : t \in H} = Copied
  BY <1>1 DEF Copied
<1>. HIDE DEF H
<1>5. Cardinality({src[t] : t \in H}) = Cardinality(H)
  BY <1>2, <1>3, ValuesCount
<1>. QED  BY <1>1, <1>4, <1>5 DEF H

\* An empty circle is an empty priority queue.
LEMMA QueueInitPromised == Init => Promise!Init
<1>. SUFFICES ASSUME Init
              PROVE  Promise!Init
  OBVIOUS
<1>1. count = 0 /\ src = [t \in Threads |-> NoIndex]
  BY DEF Init, QueueInit, StorageInit
<1>2. InHand = [t \in Threads |-> NoMessage]
  BY <1>1 DEF InHand
<1>3. [k \in 1..count |-> [msg |-> content[Queued[k]],
                          mprio |-> mprio[Queued[k]]]] = <<>>
  BY <1>1
<1>. QED  BY <1>2, <1>3 DEF Promise!Init, InHand

\* What a step makes of the messages in the queue and in the receivers'
\* hands.
LEMMA CardinalityPromised == \A S : Promise!Cardinality(S) = Cardinality(S)
BY DEF Promise!Cardinality, Cardinality

\* Linking a block into the circle sends to the priority queue.
LEMMA SendPromised ==
  ASSUME Inv, Inv', NEW m \in Messages, NEW p \in MsgPriorities, Sends(m, p)
  PROVE  Promise!Send([msg |-> m, mprio |-> p])
<1>. DEFINE q == Queued
            s == Along(q, Entries)
            S == [msg : Messages \union {NoMessage}, mprio : Nat]
<1>0. /\ q \in Seq(Blocks) /\ Queued' \in Seq(Blocks) /\ Len(q) = count
      /\ Entries \in [Blocks -> S] /\ Entries' \in [Blocks -> S]
      /\ [j \in 1..count |-> [msg |-> content[Queued[j]],
                             mprio |-> mprio[Queued[j]]]] = s
      /\ [j \in 1..count |-> [msg |-> content[Queued[j]],
                             mprio |-> mprio[Queued[j]]]]'
           = Along(Queued', Entries')
  BY AlongTheQueue
<1>. DEFINE e == [msg |-> m, mprio |-> p]
            new == Head(firstFree)
<1>1. /\ NoDuplicates(q) /\ count \in Nat
      /\ Shape /\ Placed /\ Placed' /\ TrySend(m, p)
      /\ mprio \in [Blocks -> Nat] /\ p \in Nat
      /\ content \in [Blocks -> Messages \union {NoMessage}]
  BY QueuedLength, PrioritiesAreNumbers DEF Inv, Shape, Sends
<1>2. PICK k \in 1..(count + 1) : /\ PlaceFor(q, p, mprio, k)
                                  /\ Queued' = InsertAt(q, k, new)
  BY <1>1, SendPlaces
<1>3. new \in Blocks /\ new \notin ToSet(q)
  BY <1>1, SendPlaces
<1>4. /\ content' = [content EXCEPT ![new] = m]
      /\ mprio' = [mprio EXCEPT ![new] = p]
      /\ firstFree # <<>> /\ src' = src
  BY <1>1 DEF TrySend
<1>5. /\ content'[new] = m /\ mprio'[new] = p
      /\ \A b \in Blocks \ {new} :
           content'[b] = content[b] /\ mprio'[b] = mprio[b]
  BY <1>1, <1>3, <1>4
<1>. HIDE DEF new, q, S
<1>6. Along(Queued', Entries') = InsertAt(s, k, e)
  <2>1. k \in 1..(Len(q) + 1)
    BY <1>0, <1>2
  <2>2. Entries'[new] = e
    BY <1>3, <1>5 DEF Entries
  <2>3. Along(q, Entries') = Along(q, Entries)
    <3>1. \A b \in ToSet(q) : b \in Blocks \ {new}
      BY <1>0, <1>3 DEF ToSet
    <3>2. \A b \in ToSet(q) : Entries'[b] = Entries[b]
      BY <1>5, <3>1 DEF Entries
    <3>. QED  BY <3>2, AlongAgrees
  <2>4. Along(InsertAt(q, k, new), Entries') = InsertAt(s, k, e)
    <3>. HIDE DEF s, e
    <3>1. ASSUME NEW f \in [Blocks -> S], NEW i \in 1..(Len(q) + 1)
          PROVE  Along(InsertAt(q, i, new), f)
                   = InsertAt(Along(q, f), i, f[new])
      <4>1. q \in Seq(Blocks) /\ new \in Blocks /\ f \in [Blocks -> S]
        BY <1>0, <1>3
      <4>. QED  BY <4>1, AlongInsert
    <3>2. Along(InsertAt(q, k, new), Entries')
            = InsertAt(Along(q, Entries'), k, Entries'[new])
      BY <1>0, <2>1, <3>1
    <3>. QED  BY <2>2, <2>3, <3>2 DEF s
  <2>. QED  BY <1>2, <2>2, <2>4
<1>7. DOMAIN s = 1..Len(q) /\ \A i \in 1..Len(q) : s[i].mprio = mprio[q[i]]
  <2>1. DOMAIN s = 1..Len(q) /\ \A i \in 1..Len(q) : s[i] = Entries[q[i]]
    BY DEF Along
  <2>2. \A i \in 1..Len(q) : q[i] \in Blocks
    BY <1>0
  <2>3. \A b \in Blocks : Entries[b].mprio = mprio[b]
    BY DEF Entries
  <2>. HIDE DEF s
  <2>. QED  BY <2>1, <2>2, <2>3
<1>. HIDE DEF s
<1>8. InHand' = InHand
  <2>1. \A t \in Threads :
          src[t] # NoIndex => content'[src[t]] = content[src[t]]
    <3>. TAKE t \in Threads
    <3>1. new \in ToSet(firstFree)
      <4>1. firstFree \in Seq(Blocks) /\ firstFree # <<>>
        BY <1>1, <1>4 DEF Shape
      <4>. QED  BY <4>1 DEF ToSet, new
    <3>2. src[t] # NoIndex => src[t] \in Blocks \ {new}
      BY <1>1, <3>1 DEF Shape, Placed
    <3>. QED  BY <1>5, <3>2
  <2>. QED  BY <1>4, <2>1 DEF InHand
<1>9. Len(s) + Cardinality({t \in Threads : InHand[t] # NoMessage}) < Msgs
  <2>1. Len(firstFree) + count + Cardinality(Copied) = Msgs
    BY InvAccountsBlocks DEF BlocksAccounted
  <2>2. Cardinality({t \in Threads : InHand[t] # NoMessage})
          = Cardinality(Copied)
    BY <1>1, HoldersCount
  <2>3. Len(s) = count
    BY <1>0, AlongIsSequence DEF s
  <2>4. Len(firstFree) \in Nat /\ Len(firstFree) # 0
    <3>1. firstFree \in Seq(Blocks) /\ firstFree # <<>>
      BY <1>1, <1>4 DEF Shape
    <3>. QED  BY <3>1
  <2>5. Cardinality(Copied) \in Nat
    <3>1. Copied \subseteq Blocks /\ IsFiniteSet(Blocks)
      BY <1>1, BlocksAssumption DEF Copied, Shape
    <3>. QED  BY <3>1, FS_Subset, FS_CardinalityType
  <2>6. Len(s) + Cardinality(Copied) < Msgs
    BY <1>1, <2>1, <2>3, <2>4, <2>5
  <2>. QED  BY <2>2, <2>6
<1>10. e.mprio = p
  OBVIOUS
<1>. HIDE DEF e
<1>11. Promise!Place(e) = k
  <2>. DEFINE raw == [j \in 1..count |-> [msg |-> content[Queued[j]],
                                         mprio |-> mprio[Queued[j]]]]
              Ahead(x) == {i \in DOMAIN x : x[i].mprio >= p}
  <2>1. Ahead(s) = 1..(k - 1) /\ Cardinality(1..(k - 1)) + 1 = k
    <3>1. /\ {i \in 1..Len(q) : mprio[q[i]] >= p} = 1..(k - 1)
          /\ Cardinality(1..(k - 1)) + 1 = k
      BY <1>0, <1>1, <1>2, PlaceIsCounted
    <3>2. Ahead(s) = {i \in 1..Len(q) : mprio[q[i]] >= p}
      BY <1>7
    <3>. QED  BY <3>1, <3>2
  <2>2. Promise!Place(e) = Cardinality(Ahead(raw)) + 1
    BY <1>10, CardinalityPromised DEF Promise!Place
  <2>. HIDE DEF Ahead
  <2>. QED  BY <1>0, <2>1, <2>2
<1>12. /\ Len([j \in 1..count |-> [msg |-> content[Queued[j]],
                                  mprio |-> mprio[Queued[j]]]])
            + Promise!Cardinality(Promise!Holding) < Msgs
  <2>1. Promise!Cardinality(Promise!Holding)
          = Cardinality({t \in Threads : InHand[t] # NoMessage})
    BY CardinalityPromised DEF Promise!Holding, InHand
  <2>. QED  BY <1>0, <1>9, <2>1
<1>13. Promise!Send(e)
  <2>1. [j \in 1..count |-> [msg |-> content[Queued[j]],
                            mprio |-> mprio[Queued[j]]]]'
          = Promise!InsertAt([j \in 1..count |-> [msg |-> content[Queued[j]],
                                                 mprio |-> mprio[Queued[j]]]],
                             Promise!Place(e), e)
    <3>1. InsertAt(s, k, e) = Promise!InsertAt(s, k, e)
      BY DEF InsertAt, Promise!InsertAt
    <3>. QED  BY <1>0, <1>6, <1>11, <3>1
  <2>2. UNCHANGED [t \in Threads |-> IF src[t] = NoIndex THEN NoMessage
                                     ELSE content[src[t]]]
    BY <1>8 DEF InHand
  <2>. QED  BY <1>12, <2>1, <2>2 DEF Promise!Send
<1>. QED  BY <1>13 DEF e

\* Unlinking the head is the receive of the priority queue; the message is
\* in hand until it is copied.
LEMMA TakePromised ==
  ASSUME Inv, Inv', NEW t \in Threads, Takes(t)
  PROVE  Promise!Receive(t)
<1>. DEFINE q == Queued
            s == Along(q, Entries)
            S == [msg : Messages \union {NoMessage}, mprio : Nat]
<1>0. /\ q \in Seq(Blocks) /\ Queued' \in Seq(Blocks) /\ Len(q) = count
      /\ Entries \in [Blocks -> S] /\ Entries' \in [Blocks -> S]
      /\ [j \in 1..count |-> [msg |-> content[Queued[j]],
                             mprio |-> mprio[Queued[j]]]] = s
      /\ [j \in 1..count |-> [msg |-> content[Queued[j]],
                             mprio |-> mprio[Queued[j]]]]'
           = Along(Queued', Entries')
  BY AlongTheQueue
<1>1. /\ Shape /\ Placed /\ UnlinkHead
      /\ src[t] = NoIndex /\ src' = [src EXCEPT ![t] = head]
      /\ UNCHANGED <<firstFree, mprio, content>>
      /\ src \in [Threads -> Blocks \union {NoIndex}]
  BY DEF Inv, Shape, Takes
<1>2. q # <<>> /\ head = Head(q) /\ head \in Blocks /\ Queued' = Tail(q)
  BY <1>1, UnlinkTakesHead
<1>3. head # NoIndex
  BY <1>2, BlocksAssumption
<1>. HIDE DEF q, S
<1>4. /\ Along(Queued', Entries') = Tail(s) /\ s # <<>>
      /\ Head(s).msg = content[head]
  <2>1. Entries' = Entries /\ Entries[head].msg = content[head]
    BY <1>1, <1>2 DEF Entries
  <2>2. Along(Tail(q), Entries) = Tail(s) /\ s # <<>>
    <3>1. q # <<>> => /\ Along(Tail(q), Entries) = Tail(s)
                      /\ s # <<>>
      <4>. DEFINE f == Entries
      <4>1. q \in Seq(Blocks) /\ f \in [Blocks -> S]
        BY <1>0
      <4>. HIDE DEF f, s
      <4>2. q # <<>> => /\ Along(Tail(q), f) = Tail(Along(q, f))
                        /\ Along(q, f) # <<>>
        BY <4>1, AlongTail
      <4>. QED  BY <4>2 DEF f, s
    <3>. QED  BY <1>2, <3>1
  <2>3. Head(s) = Entries[Head(q)]
    <3>1. s \in Seq(S) /\ 1 \in 1..Len(q) /\ Head(q) = q[1]
      BY <1>0, <1>2, AlongIsSequence
    <3>2. s[1] = Entries[q[1]]
      BY <3>1 DEF Along
    <3>. QED  BY <2>2, <3>1, <3>2
  <2>. QED  BY <1>2, <2>1, <2>2, <2>3
<1>5. /\ InHand[t] = NoMessage
      /\ InHand' = [InHand EXCEPT ![t] = Head(s).msg]
  BY <1>1, <1>3, <1>4 DEF InHand
<1>. HIDE DEF s
<1>. QED  BY <1>0, <1>4, <1>5 DEF Promise!Receive, InHand

\* The end of the copy gives the place back.
LEMMA ReturnPromised ==
  ASSUME Inv, Inv', NEW t \in Threads, Returns(t)
  PROVE  Promise!Return(t)
<1>. DEFINE q == Queued
            s == Along(q, Entries)
            S == [msg : Messages \union {NoMessage}, mprio : Nat]
<1>0. /\ q \in Seq(Blocks) /\ Queued' \in Seq(Blocks) /\ Len(q) = count
      /\ Entries \in [Blocks -> S] /\ Entries' \in [Blocks -> S]
      /\ [j \in 1..count |-> [msg |-> content[Queued[j]],
                             mprio |-> mprio[Queued[j]]]] = s
      /\ [j \in 1..count |-> [msg |-> content[Queued[j]],
                             mprio |-> mprio[Queued[j]]]]'
           = Along(Queued', Entries')
  BY AlongTheQueue
<1>. DEFINE b == src[t]
<1>1. /\ Shape /\ Placed
      /\ b # NoIndex /\ src' = [src EXCEPT ![t] = NoIndex]
      /\ GivesBack(b) /\ UNCHANGED <<head, prev, next, count>>
      /\ src \in [Threads -> Blocks \union {NoIndex}]
  BY DEF Inv, Shape, Returns
<1>2. /\ b \in Blocks /\ b \notin ToSet(q) /\ b \notin ToSet(firstFree)
      /\ \A u \in Threads \ {t} : src[u] # b
  BY <1>1 DEF Placed
<1>3. \A x \in Blocks \ {b} : content'[x] = content[x] /\ mprio'[x] = mprio[x]
  <2>1. NoDuplicates(firstFree)
    BY <1>1 DEF Placed
  <2>. HIDE DEF b, q, s, S
  <2>. QED  BY <1>1, <1>2, <2>1, BlockGivenBack
<1>4. Queued' = q
  BY <1>1 DEF Queued
<1>. HIDE DEF q, S
<1>5. Along(Queued', Entries') = s
  <2>1. \A x \in ToSet(q) : Entries'[x] = Entries[x]
    <3>1. ToSet(q) \subseteq Blocks \ {b}
      BY <1>0, <1>2 DEF ToSet
    <3>. QED  BY <1>3, <3>1 DEF Entries
  <2>2. Along(q, Entries') = Along(q, Entries)
    BY <2>1, AlongAgrees
  <2>. QED  BY <1>4, <2>2
<1>6. /\ InHand[t] # NoMessage
      /\ InHand' = [InHand EXCEPT ![t] = NoMessage]
  <2>1. InHand[t] # NoMessage
    BY <1>1, HoldersCount
  <2>2. \A u \in Threads \ {t} : InHand'[u] = InHand[u]
    <3>. TAKE u \in Threads \ {t}
    <3>1. src'[u] = src[u] /\ (src[u] # NoIndex => src[u] \in Blocks \ {b})
      BY <1>1, <1>2
    <3>. QED  BY <1>3, <3>1 DEF InHand
  <2>3. InHand'[t] = NoMessage
    BY <1>1 DEF InHand
  <2>. QED  BY <2>1, <2>2, <2>3 DEF InHand
<1>. HIDE DEF s
<1>. QED  BY <1>0, <1>5, <1>6 DEF Promise!Return, InHand

\* A try_receive of an interrupt routine takes and copies in one step.
LEMMA TakeAtOncePromised ==
  ASSUME Inv, Inv', TakesAtOnce
  PROVE  Promise!ReceiveFromISR
<1>. DEFINE q == Queued
            s == Along(q, Entries)
            S == [msg : Messages \union {NoMessage}, mprio : Nat]
<1>0. /\ q \in Seq(Blocks) /\ Queued' \in Seq(Blocks) /\ Len(q) = count
      /\ Entries \in [Blocks -> S] /\ Entries' \in [Blocks -> S]
      /\ [j \in 1..count |-> [msg |-> content[Queued[j]],
                             mprio |-> mprio[Queued[j]]]] = s
      /\ [j \in 1..count |-> [msg |-> content[Queued[j]],
                             mprio |-> mprio[Queued[j]]]]'
           = Along(Queued', Entries')
  BY AlongTheQueue
<1>1. /\ NoDuplicates(q) /\ Shape /\ Placed /\ UnlinkHead
      /\ GivesBack(head) /\ UNCHANGED src
      /\ src \in [Threads -> Blocks \union {NoIndex}]
  BY QueuedLength DEF Inv, Shape, TakesAtOnce
<1>2. /\ q # <<>> /\ head = Head(q) /\ head \in Blocks /\ Queued' = Tail(q)
      /\ head \in ToSet(q) /\ ToSet(Queued') = ToSet(q) \ {head}
  BY <1>1, UnlinkTakesHead
<1>3. \A x \in Blocks \ {head} :
        content'[x] = content[x] /\ mprio'[x] = mprio[x]
  <2>1. NoDuplicates(firstFree) /\ head \notin ToSet(firstFree)
    BY <1>1, <1>2 DEF Placed
  <2>. HIDE DEF q, s, S
  <2>. QED  BY <1>1, <1>2, <2>1, BlockGivenBack
<1>5. InHand' = InHand
  <2>1. \A t \in Threads : src[t] # NoIndex => src[t] \in Blocks \ {head}
    BY <1>1, <1>2 DEF Placed
  <2>. QED  BY <1>1, <1>3, <2>1 DEF InHand
<1>. HIDE DEF q, S
<1>4. Along(Queued', Entries') = Tail(s) /\ s # <<>>
  <2>1. \A x \in ToSet(Tail(q)) : Entries'[x] = Entries[x]
    <3>1. ToSet(q) \subseteq Blocks
      BY <1>0 DEF ToSet
    <3>. QED  BY <1>2, <1>3, <3>1 DEF Entries
  <2>2. Along(Tail(q), Entries') = Along(Tail(q), Entries)
    BY <2>1, AlongAgrees
  <2>3. Along(Tail(q), Entries) = Tail(s) /\ s # <<>>
    <3>1. q # <<>> => /\ Along(Tail(q), Entries) = Tail(s)
                      /\ s # <<>>
      <4>. DEFINE f == Entries
      <4>1. q \in Seq(Blocks) /\ f \in [Blocks -> S]
        BY <1>0
      <4>. HIDE DEF f, s
      <4>2. q # <<>> => /\ Along(Tail(q), f) = Tail(Along(q, f))
                        /\ Along(q, f) # <<>>
        BY <4>1, AlongTail
      <4>. QED  BY <4>2 DEF f, s
    <3>. QED  BY <1>2, <3>1
  <2>. QED  BY <1>2, <2>2, <2>3
<1>. HIDE DEF s
<1>. QED  BY <1>0, <1>4, <1>5 DEF Promise!ReceiveFromISR, InHand

\* The reset of the queue resets the promise.
LEMMA ClearPromised ==
  ASSUME Clears
  PROVE  Promise!Reset
<1>1. count' = 0 /\ src' = src /\ Copied = {}
  BY DEF Clears
<1>2. \A t \in Threads : src[t] = NoIndex
  BY <1>1 DEF Copied
<1>3. InHand' = InHand
  BY <1>1, <1>2 DEF InHand
<1>4. [j \in 1..count |-> [msg |-> content[Queued[j]],
                          mprio |-> mprio[Queued[j]]]]' = <<>>
  BY <1>1
<1>. QED  BY <1>3, <1>4 DEF Promise!Reset, InHand

\* The queue of the sources, with its index arrays, its free chain and its
\* copies outside the critical section, is a priority queue: every step of
\* every thread and interrupt routine is a step of PriorityQueue on what the
\* blocks hold, or changes nothing of it.
THEOREM QueueIsAPriorityQueue == Spec => RefinesQueue
<1>1. Inv /\ Inv' /\ [Next]_vars => [Promise!Next]_(Promise!vars)
  <2>. SUFFICES ASSUME Inv, Inv', [Next]_vars
                PROVE  [Promise!Next]_(Promise!vars)
    OBVIOUS
  <2>1. CASE UNCHANGED queueVars
    <3>1. UNCHANGED <<count, content, mprio, src, Queued>>
      BY <2>1 DEF queueVars, Queued
    <3>. QED  BY <3>1 DEF Promise!vars
  <2>2. ASSUME NEW m \in Messages, NEW p \in MsgPriorities, Sends(m, p)
        PROVE  Promise!Next
    <3>1. Promise!Send([msg |-> m, mprio |-> p])
      BY <2>2, SendPromised
    <3>2. [msg |-> m, mprio |-> p] \in Promise!Entry
      BY DEF Promise!Entry
    <3>. QED  BY <3>1, <3>2 DEF Promise!Next
  <2>3. ASSUME NEW t \in Threads, Takes(t) \/ Returns(t)
        PROVE  Promise!Next
    <3>1. Promise!Receive(t) \/ Promise!Return(t)
      BY <2>3, TakePromised, ReturnPromised
    <3>. QED  BY <3>1 DEF Promise!Next
  <2>4. CASE TakesAtOnce
    BY <2>4, TakeAtOncePromised DEF Promise!Next
  <2>5. CASE Clears
    BY <2>5, ClearPromised DEF Promise!Next
  <2>6. Shape /\ Waits
    BY DEF Inv
  <2>. QED  BY <2>1, <2>2, <2>3, <2>4, <2>5, <2>6, NextSeenByQueue
<1>. QED  BY <1>1, SpecInv, QueueInitPromised, PTL
          DEF Spec, RefinesQueue, Promise!Spec
=============================================================================
