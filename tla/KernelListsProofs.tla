------------------------- MODULE KernelListsProofs -------------------------
(***************************************************************************)
(* What Link and Unlink do to a list, for lists of any length: they keep   *)
(* it a list without duplicates of the right elements, and Link keeps it   *)
(* sorted, with the new element behind those of its own priority.          *)
(***************************************************************************)
EXTENDS KernelLists, SequenceTheorems, FiniteSetTheorems,
        WellFoundedInduction, TLAPS

\* A set of positions has a last one.
LEMMA LastPosition ==
  ASSUME NEW n \in Nat, NEW T, T \subseteq 1..n, T # {}
  PROVE  \E i \in T : \A j \in (i + 1)..n : j \notin T
<1>. DEFINE D == {n - i : i \in T}
<1>1. D \subseteq Nat /\ D # {}
  <2>1. \A i \in T : i \in Nat /\ n - i \in Nat
    OBVIOUS
  <2>2. PICK i \in T : TRUE
    OBVIOUS
  <2>3. n - i \in D
    OBVIOUS
  <2>. QED  BY <2>1, <2>3
<1>2. PICK d \in D : \A e \in D : ~ (<<e, d>> \in OpToRel(<, Nat))
  <2>. HIDE DEF D
  <2>. QED  BY <1>1, NatLessThanWellFounded, WFMin
<1>3. \A e \in D : d <= e
  <2>. HIDE DEF D
  <2>. TAKE e \in D
  <2>1. d \in Nat /\ e \in Nat
    BY <1>1
  <2>2. e < d => <<e, d>> \in OpToRel(<, Nat)
    BY <2>1 DEF OpToRel
  <2>3. ~ (e < d)
    BY <1>2, <2>2, Zenon
  <2>. QED  BY <2>1, <2>3
<1>4. PICK i \in T : d = n - i
  OBVIOUS
<1>5. ASSUME NEW j \in (i + 1)..n, j \in T
      PROVE  FALSE
  <2>1. d <= n - j
    BY <1>3, <1>5
  <2>. QED  BY <2>1, <1>4
<1>. QED  BY <1>5

\* InsertAt adds one element and shifts those behind it.
LEMMA InsertAtElements ==
  ASSUME NEW S, NEW s \in Seq(S), NEW i \in 1..(Len(s) + 1), NEW e \in S
  PROVE  /\ InsertAt(s, i, e) \in Seq(S)
         /\ Len(InsertAt(s, i, e)) = Len(s) + 1
         /\ \A j \in 1..(i - 1) : InsertAt(s, i, e)[j] = s[j]
         /\ InsertAt(s, i, e)[i] = e
         /\ \A j \in i..Len(s) : InsertAt(s, i, e)[j + 1] = s[j]
<1>. DEFINE left == SubSeq(s, 1, i - 1)
            right == SubSeq(s, i, Len(s))
<1>1. /\ left \in Seq(S) /\ Len(left) = i - 1
      /\ \A j \in 1..(i - 1) : left[j] = s[j]
  OBVIOUS
<1>2. /\ right \in Seq(S) /\ Len(right) = Len(s) - i + 1
      /\ \A j \in 1..(Len(s) - i + 1) : right[j] = s[j + i - 1]
  OBVIOUS
<1>3. InsertAt(s, i, e) = left \o <<e>> \o right
  BY DEF InsertAt
<1>. HIDE DEF left, right
<1>4. /\ left \o <<e>> \o right \in Seq(S)
      /\ Len(left \o <<e>> \o right) = Len(s) + 1
  <2>1. left \o <<e>> \in Seq(S) /\ Len(left \o <<e>>) = i
    BY <1>1
  <2>. QED  BY <1>2, <2>1, ConcatProperties
<1>5. \A j \in 1..(i - 1) : (left \o <<e>> \o right)[j] = s[j]
  BY <1>1, <1>2
<1>6. (left \o <<e>> \o right)[i] = e
  BY <1>1, <1>2
<1>7. ASSUME NEW j \in i..Len(s)
      PROVE  (left \o <<e>> \o right)[j + 1] = s[j]
  <2>1. (left \o <<e>> \o right)[j + 1] = right[j + 1 - i]
    BY <1>1, <1>2
  <2>2. j + 1 - i \in 1..(Len(s) - i + 1) /\ (j + 1 - i) + i - 1 = j
    OBVIOUS
  <2>. QED  BY <1>2, <2>1, <2>2
<1>. QED  BY <1>3, <1>4, <1>5, <1>6, <1>7, Zenon

\* RemoveAt drops one element and shifts those behind it.
LEMMA RemoveAtElements ==
  ASSUME NEW S, NEW s \in Seq(S), NEW i \in 1..Len(s)
  PROVE  /\ RemoveAt(s, i) \in Seq(S)
         /\ Len(RemoveAt(s, i)) = Len(s) - 1
         /\ \A j \in 1..(i - 1) : RemoveAt(s, i)[j] = s[j]
         /\ \A j \in i..(Len(s) - 1) : RemoveAt(s, i)[j] = s[j + 1]
<1>. DEFINE left == SubSeq(s, 1, i - 1)
            right == SubSeq(s, i + 1, Len(s))
<1>1. /\ left \in Seq(S) /\ Len(left) = i - 1
      /\ \A j \in 1..(i - 1) : left[j] = s[j]
  OBVIOUS
<1>2. /\ right \in Seq(S) /\ Len(right) = Len(s) - i
      /\ \A j \in 1..(Len(s) - i) : right[j] = s[j + i]
  OBVIOUS
<1>3. RemoveAt(s, i) = left \o right
  BY DEF RemoveAt
<1>. HIDE DEF left, right
<1>4. /\ left \o right \in Seq(S)
      /\ Len(left \o right) = Len(s) - 1
  <2>1. /\ left \o right \in Seq(S)
        /\ Len(left \o right) = Len(left) + Len(right)
    BY <1>1, <1>2, ConcatProperties, Zenon
  <2>2. Len(s) \in Nat /\ i \in Int /\ (i - 1) + (Len(s) - i) = Len(s) - 1
    OBVIOUS
  <2>. QED  BY <1>1, <1>2, <2>1, <2>2
<1>5. \A j \in 1..(i - 1) : (left \o right)[j] = s[j]
  BY <1>1, <1>2
<1>6. ASSUME NEW j \in i..(Len(s) - 1)
      PROVE  (left \o right)[j] = s[j + 1]
  <2>1. (left \o right)[j] = right[j - i + 1]
    BY <1>1, <1>2
  <2>2. j - i + 1 \in 1..(Len(s) - i) /\ (j - i + 1) + i = j + 1
    OBVIOUS
  <2>. QED  BY <1>2, <2>1, <2>2
<1>. QED  BY <1>3, <1>4, <1>5, <1>6, Zenon
-----------------------------------------------------------------------------
\* The search of link() finds a place, and what it says of that place: the
\* element before it is at least as urgent as the new one, every element
\* behind it is less urgent (behind the list head: when the list is sorted).
LEMMA LinkAfterFound ==
  ASSUME NEW S, NEW list \in Seq(S), NEW prio \in [S -> Nat], NEW p \in Nat
  PROVE  /\ LinkAfter(list, p, prio) \in 0..Len(list)
         /\ LinkAfter(list, p, prio) # 0 =>
              /\ prio[list[LinkAfter(list, p, prio)]] >= p
              /\ \A j \in (LinkAfter(list, p, prio) + 1)..Len(list) :
                   prio[list[j]] < p
         /\ LinkAfter(list, p, prio) = 0 /\ list # <<>> => p > prio[list[1]]
         /\ SortedByPriority(list, prio) =>
              \A j \in (LinkAfter(list, p, prio) + 1)..Len(list) :
                 prio[list[j]] < p
<1>. DEFINE Found(i) == /\ i = 0 => list = <<>>
                        /\ i # 0 => prio[list[i]] >= p
                        /\ \A j \in (i + 1)..Len(list) : prio[list[j]] < p
            Ahead == /\ list # <<>>
                     /\ p > prio[list[Len(list)]]
                     /\ p > prio[list[1]]
            T == {i \in 1..Len(list) : prio[list[i]] >= p}
<1>1. CASE Ahead
  <2>1. LinkAfter(list, p, prio) = 0
    BY <1>1 DEF LinkAfter
  <2>2. ASSUME SortedByPriority(list, prio), NEW j \in 1..Len(list)
        PROVE  prio[list[j]] < p
    <3>1. prio[list[1]] >= prio[list[j]]
      BY <2>2 DEF SortedByPriority
    <3>2. prio[list[j]] \in Nat /\ prio[list[1]] \in Nat
      OBVIOUS
    <3>. QED  BY <1>1, <3>1, <3>2
  <2>. QED  BY <1>1, <2>1, <2>2
<1>2. CASE ~Ahead
  <2>1. \E i \in 0..Len(list) : Found(i)
    <3>1. CASE list = <<>>
      BY <3>1
    <3>2. CASE list # <<>>
      <4>1. T # {}
        <5>1. 1 \in 1..Len(list) /\ Len(list) \in 1..Len(list)
          BY <3>2
        <5>2. prio[list[1]] \in Nat /\ prio[list[Len(list)]] \in Nat
          BY <5>1
        <5>. QED  BY <1>2, <3>2, <5>1, <5>2
      <4>2. PICK i \in T : \A j \in (i + 1)..Len(list) : j \notin T
        <5>. HIDE DEF T
        <5>1. T \subseteq 1..Len(list) /\ Len(list) \in Nat
          BY DEF T
        <5>. QED  BY <4>1, <5>1, LastPosition
      <4>3. \A j \in (i + 1)..Len(list) : prio[list[j]] < p
        <5>. TAKE j \in (i + 1)..Len(list)
        <5>1. j \in 1..Len(list) /\ prio[list[j]] \in Nat
          OBVIOUS
        <5>. QED  BY <4>2, <5>1
      <4>. QED  BY <4>2, <4>3
    <3>. QED  BY <3>1, <3>2
  <2>2. LinkAfter(list, p, prio) = CHOOSE i \in 0..Len(list) : Found(i)
    BY <1>2 DEF LinkAfter
  <2>. HIDE DEF Found
  <2>3. /\ LinkAfter(list, p, prio) \in 0..Len(list)
        /\ Found(LinkAfter(list, p, prio))
    BY <2>1, <2>2
  <2>. QED  BY <2>3 DEF Found
<1>. QED  BY <1>1, <1>2
-----------------------------------------------------------------------------
\* InsertAt adds one element, and a new one only once.
LEMMA InsertAtSet ==
  ASSUME NEW S, NEW s \in Seq(S), NEW k \in 1..(Len(s) + 1), NEW e \in S
  PROVE  /\ \A m \in DOMAIN InsertAt(s, k, e) :
              \/ m < k /\ m \in 1..Len(s) /\ InsertAt(s, k, e)[m] = s[m]
              \/ m = k /\ InsertAt(s, k, e)[m] = e
              \/ m > k /\ m - 1 \in 1..Len(s)
                   /\ InsertAt(s, k, e)[m] = s[m - 1]
         /\ ToSet(InsertAt(s, k, e)) = ToSet(s) \union {e}
         /\ NoDuplicates(s) /\ e \notin ToSet(s) =>
              NoDuplicates(InsertAt(s, k, e))
<1>. DEFINE n == Len(s)
            r == InsertAt(s, k, e)
<1>0. n \in Nat /\ DOMAIN s = 1..n /\ k \in 1..(n + 1)
  OBVIOUS
<1>1. /\ r \in Seq(S) /\ Len(r) = n + 1
      /\ \A j \in 1..(k - 1) : r[j] = s[j]
      /\ r[k] = e
      /\ \A j \in k..n : r[j + 1] = s[j]
  <2>1. /\ InsertAt(s, k, e) \in Seq(S)
        /\ Len(InsertAt(s, k, e)) = Len(s) + 1
        /\ \A j \in 1..(k - 1) : InsertAt(s, k, e)[j] = s[j]
        /\ InsertAt(s, k, e)[k] = e
        /\ \A j \in k..Len(s) : InsertAt(s, k, e)[j + 1] = s[j]
    BY InsertAtElements
  <2>. QED  BY <2>1, Zenon DEF r, n
<1>. HIDE DEF r, n
<1>2. DOMAIN r = 1..(n + 1)
  BY <1>0, <1>1
<1>3. \A m \in DOMAIN r :
        \/ m < k /\ m \in 1..n /\ r[m] = s[m]
        \/ m = k /\ r[m] = e
        \/ m > k /\ m - 1 \in 1..n /\ r[m] = s[m - 1]
  <2>. TAKE m \in DOMAIN r
  <2>1. m \in 1..(n + 1)
    BY <1>2
  <2>2. CASE m < k
    <3>1. m \in 1..(k - 1) /\ m \in 1..n
      BY <1>0, <2>1, <2>2
    <3>. QED  BY <1>1, <2>2, <3>1
  <2>3. CASE m = k
    BY <1>1, <2>3
  <2>4. CASE m > k
    <3>1. m - 1 \in k..n /\ m - 1 \in 1..n /\ (m - 1) + 1 = m
      BY <1>0, <2>1, <2>4
    <3>. QED  BY <1>1, <2>4, <3>1
  <2>. QED  BY <1>0, <2>1, <2>2, <2>3, <2>4
<1>4. ToSet(r) = ToSet(s) \union {e}
  <2>1. ToSet(r) \subseteq ToSet(s) \union {e}
    BY <1>0, <1>3 DEF ToSet
  <2>2. e \in ToSet(r)
    BY <1>0, <1>1, <1>2 DEF ToSet
  <2>3. ASSUME NEW j \in 1..n
        PROVE  s[j] \in ToSet(r)
    <3>1. CASE j < k
      <4>1. j \in 1..(k - 1) /\ j \in DOMAIN r
        BY <1>0, <1>2, <3>1
      <4>. QED  BY <1>1, <4>1 DEF ToSet
    <3>2. CASE j >= k
      <4>1. j \in k..n /\ j + 1 \in DOMAIN r
        BY <1>0, <1>2, <3>2
      <4>. QED  BY <1>1, <4>1 DEF ToSet
    <3>. QED  BY <1>0, <3>1, <3>2
  <2>. QED  BY <1>0, <2>1, <2>2, <2>3 DEF ToSet
<1>5. ASSUME NoDuplicates(s), e \notin ToSet(s)
      PROVE  NoDuplicates(r)
  <2>2. \A j \in 1..n : s[j] # e
    BY <1>0, <1>5 DEF ToSet
  <2>3. \A i, j \in 1..n : s[i] = s[j] => i = j
    BY <1>0, <1>5 DEF NoDuplicates
  <2>4. \A m \in DOMAIN r : m \in Int
    BY <1>2
  <2>5. k \in Int
    BY <1>0
  <2>. QED  BY <1>3, <2>2, <2>3, <2>4, <2>5 DEF NoDuplicates
<1>. QED  BY <1>3, <1>4, <1>5 DEF r, n

\* Linking a thread that is not on the list adds it and nothing else.
LEMMA LinkElements ==
  ASSUME NEW S, NEW list \in Seq(S), NEW t \in S, NEW prio \in [S -> Nat]
  PROVE  /\ Link(list, t, prio) \in Seq(S)
         /\ Link(list, t, prio) # <<>>
         /\ ToSet(Link(list, t, prio)) = ToSet(list) \union {t}
         /\ NoDuplicates(list) /\ t \notin ToSet(list) =>
              NoDuplicates(Link(list, t, prio))
<1>. DEFINE k == LinkAfter(list, prio[t], prio) + 1
<1>1. k \in 1..(Len(list) + 1)
  <2>1. prio[t] \in Nat
    OBVIOUS
  <2>2. LinkAfter(list, prio[t], prio) \in 0..Len(list)
    BY <2>1, LinkAfterFound
  <2>. QED  BY <2>2
<1>2. Link(list, t, prio) = InsertAt(list, k, t)
  BY DEF Link
<1>. HIDE DEF k
<1>3. InsertAt(list, k, t) \in Seq(S) /\ Len(InsertAt(list, k, t)) = Len(list) + 1
  BY <1>1, InsertAtElements
<1>4. InsertAt(list, k, t) # <<>>
  BY <1>3
<1>. QED  BY <1>1, <1>2, <1>3, <1>4, InsertAtSet

\* Unlinking removes the thread and nothing else.
LEMMA UnlinkElements ==
  ASSUME NEW S, NEW list \in Seq(S), NEW t, NoDuplicates(list)
  PROVE  /\ Unlink(list, t) \in Seq(S)
         /\ ToSet(Unlink(list, t)) = ToSet(list) \ {t}
         /\ NoDuplicates(Unlink(list, t))
<1>1. CASE t \notin ToSet(list)
  BY <1>1 DEF Unlink
<1>2. CASE t \in ToSet(list)
  <2>. DEFINE k == CHOOSE i \in DOMAIN list : list[i] = t
              new == RemoveAt(list, k)
  <2>1. k \in 1..Len(list) /\ list[k] = t
    <3>1. \E i \in DOMAIN list : list[i] = t
      BY <1>2 DEF ToSet
    <3>2. k \in DOMAIN list /\ list[k] = t
      BY <3>1, Zenon
    <3>. QED  BY <3>2
  <2>2. Unlink(list, t) = new
    BY <1>2 DEF Unlink
  <2>. HIDE DEF k
  <2>3. /\ new \in Seq(S)
        /\ Len(new) = Len(list) - 1
        /\ \A j \in 1..(k - 1) : new[j] = list[j]
        /\ \A j \in k..(Len(list) - 1) : new[j] = list[j + 1]
    BY <2>1, RemoveAtElements
  <2>. HIDE DEF new
  <2>4. \A m \in DOMAIN new :
          \/ m < k /\ m \in DOMAIN list /\ new[m] = list[m]
          \/ m >= k /\ m + 1 \in DOMAIN list /\ new[m] = list[m + 1]
    <3>. TAKE m \in DOMAIN new
    <3>1. m \in 1..(Len(list) - 1)
      BY <2>3
    <3>. QED  BY <2>1, <2>3, <3>1
  <2>5. NoDuplicates(new)
    <3>1. SUFFICES ASSUME NEW i \in DOMAIN new, NEW j \in DOMAIN new,
                          new[i] = new[j]
                   PROVE  i = j
      BY DEF NoDuplicates
    <3>2. i \in Int /\ j \in Int /\ k \in Int
      BY <2>1, <2>3
    <3>. QED  BY <2>4, <3>1, <3>2 DEF NoDuplicates
  <2>6. ASSUME NEW m \in DOMAIN new
        PROVE  new[m] \in ToSet(list) \ {t}
    <3>1. m \in Int
      BY <2>3
    <3>. QED  BY <2>1, <2>4, <3>1 DEF ToSet, NoDuplicates
  <2>7. ASSUME NEW j \in DOMAIN list, list[j] # t
        PROVE  list[j] \in ToSet(new)
    <3>1. CASE j < k
      <4>1. j \in 1..(k - 1) /\ j \in DOMAIN new
        BY <2>1, <2>3, <3>1
      <4>. QED  BY <2>3, <4>1 DEF ToSet
    <3>2. CASE j > k
      <4>1. j - 1 \in k..(Len(list) - 1) /\ j - 1 \in DOMAIN new
            /\ (j - 1) + 1 = j
        BY <2>1, <2>3, <3>2
      <4>. QED  BY <2>3, <4>1 DEF ToSet
    <3>. QED  BY <2>1, <2>7, <3>1, <3>2
  <2>. QED  BY <2>2, <2>3, <2>5, <2>6, <2>7 DEF ToSet
<1>. QED  BY <1>1, <1>2

\* Popping the head removes it and nothing else.
LEMMA TailElements ==
  ASSUME NEW S, NEW list \in Seq(S), list # <<>>, NoDuplicates(list)
  PROVE  /\ Head(list) \in S
         /\ Head(list) \in ToSet(list)
         /\ Tail(list) \in Seq(S)
         /\ ToSet(Tail(list)) = ToSet(list) \ {Head(list)}
         /\ NoDuplicates(Tail(list))
<1>1. /\ Head(list) \in S
      /\ Head(list) = list[1]
      /\ 1 \in DOMAIN list
      /\ Tail(list) \in Seq(S)
      /\ Len(Tail(list)) = Len(list) - 1
      /\ \A i \in 1..Len(Tail(list)) : Tail(list)[i] = list[i + 1]
  BY HeadTailProperties
<1>2. NoDuplicates(Tail(list))
  <2>1. SUFFICES ASSUME NEW i \in DOMAIN Tail(list),
                        NEW j \in DOMAIN Tail(list),
                        Tail(list)[i] = Tail(list)[j]
                 PROVE  i = j
    BY DEF NoDuplicates
  <2>2. /\ i + 1 \in DOMAIN list /\ j + 1 \in DOMAIN list
        /\ list[i + 1] = list[j + 1]
        /\ i \in Int /\ j \in Int
    BY <1>1, <2>1
  <2>. QED  BY <2>2 DEF NoDuplicates
<1>3. ASSUME NEW i \in DOMAIN Tail(list)
      PROVE  Tail(list)[i] \in ToSet(list) \ {Head(list)}
  <2>1. i + 1 \in DOMAIN list /\ i + 1 # 1 /\ Tail(list)[i] = list[i + 1]
    BY <1>1
  <2>. QED  BY <1>1, <2>1 DEF ToSet, NoDuplicates
<1>4. ASSUME NEW j \in DOMAIN list, list[j] # Head(list)
      PROVE  list[j] \in ToSet(Tail(list))
  <2>1. j - 1 \in DOMAIN Tail(list) /\ (j - 1) + 1 = j
    BY <1>1, <1>4
  <2>. QED  BY <1>1, <2>1 DEF ToSet
<1>. QED  BY <1>1, <1>2, <1>3, <1>4 DEF ToSet

\* A list stays sorted when the element goes behind one that is at least as
\* urgent and ahead of those that are not more urgent.
LEMMA InsertAtSorted ==
  ASSUME NEW S, NEW list \in Seq(S), NEW t \in S, NEW prio \in [S -> Int],
         NEW k \in 1..(Len(list) + 1), SortedByPriority(list, prio),
         k # 1 => prio[list[k - 1]] >= prio[t],
         \A j \in k..Len(list) : prio[list[j]] <= prio[t]
  PROVE  SortedByPriority(InsertAt(list, k, t), prio)
<1>. DEFINE p == prio[t]
            new == InsertAt(list, k, t)
<1>0. p \in Int
  OBVIOUS
<1>. HIDE DEF p
<1>1. /\ k \in 1..(Len(list) + 1)
      /\ k # 1 => prio[list[k - 1]] >= p
      /\ \A j \in k..Len(list) : prio[list[j]] <= p
  BY DEF p
<1>3. /\ new \in Seq(S)
      /\ Len(new) = Len(list) + 1
      /\ \A j \in 1..(k - 1) : new[j] = list[j]
      /\ new[k] = t
      /\ \A j \in k..Len(list) : new[j + 1] = list[j]
  BY <1>1, InsertAtElements
<1>. HIDE DEF new
<1>4. \A j \in 1..(k - 1) : prio[list[j]] >= p
  <2>. TAKE j \in 1..(k - 1)
  <2>1. /\ j \in DOMAIN list /\ k - 1 \in DOMAIN list
        /\ prio[list[k - 1]] >= p
        /\ prio[list[j]] \in Int /\ prio[list[k - 1]] \in Int
    BY <1>1
  <2>2. j < k - 1 => prio[list[j]] >= prio[list[k - 1]]
    BY <2>1 DEF SortedByPriority
  <2>. QED  BY <1>0, <1>1, <2>1, <2>2
<1>5. ASSUME NEW i \in DOMAIN new, NEW j \in DOMAIN new, i < j
      PROVE  prio[new[i]] >= prio[new[j]]
  <2>0. i \in 1..(Len(list) + 1) /\ j \in 1..(Len(list) + 1)
    BY <1>3
  <2>1. CASE j < k
    <3>1. /\ i \in 1..(k - 1) /\ j \in 1..(k - 1)
          /\ i \in DOMAIN list /\ j \in DOMAIN list
      BY <1>1, <1>5, <2>0, <2>1
    <3>2. new[i] = list[i] /\ new[j] = list[j]
      BY <1>3, <3>1
    <3>. QED  BY <1>5, <3>1, <3>2 DEF SortedByPriority
  <2>2. CASE j = k
    <3>1. new[i] = list[i] /\ prio[list[i]] >= p /\ new[j] = t
      BY <1>1, <1>3, <1>4, <1>5, <2>0, <2>2
    <3>. QED  BY <3>1 DEF p
  <2>3. CASE j > k /\ i < k
    <3>1. new[i] = list[i] /\ prio[list[i]] >= p /\ i \in DOMAIN list
      BY <1>1, <1>3, <1>4, <2>0, <2>3
    <3>2. j - 1 \in k..Len(list) /\ (j - 1) + 1 = j /\ j - 1 \in DOMAIN list
      BY <1>1, <2>0, <2>3
    <3>3. new[j] = list[j - 1] /\ prio[list[j - 1]] <= p
      BY <1>1, <1>3, <3>2
    <3>4. prio[list[i]] \in Int /\ prio[list[j - 1]] \in Int
      BY <3>1, <3>2
    <3>. QED  BY <1>0, <3>1, <3>3, <3>4
  <2>4. CASE j > k /\ i = k
    <3>1. j - 1 \in k..Len(list) /\ (j - 1) + 1 = j /\ j - 1 \in DOMAIN list
      BY <1>1, <2>0, <2>4
    <3>2. new[j] = list[j - 1] /\ prio[list[j - 1]] <= p /\ new[i] = t
      BY <1>1, <1>3, <2>4, <3>1
    <3>3. prio[list[j - 1]] \in Int
      BY <3>1
    <3>. QED  BY <1>0, <3>2, <3>3 DEF p
  <2>5. CASE j > k /\ i > k
    <3>1. /\ j - 1 \in k..Len(list) /\ (j - 1) + 1 = j /\ j - 1 \in DOMAIN list
          /\ i - 1 \in k..Len(list) /\ (i - 1) + 1 = i /\ i - 1 \in DOMAIN list
          /\ i - 1 < j - 1
      BY <1>1, <1>5, <2>0, <2>5
    <3>2. new[j] = list[j - 1] /\ new[i] = list[i - 1]
      BY <1>3, <3>1
    <3>. QED  BY <3>1, <3>2 DEF SortedByPriority
  <2>. QED  BY <1>1, <2>0, <2>1, <2>2, <2>3, <2>4, <2>5
<1>. QED  BY <1>5 DEF SortedByPriority, new

\* Linking keeps a sorted list sorted.
LEMMA LinkSorted ==
  ASSUME NEW S, NEW list \in Seq(S), NEW t \in S, NEW prio \in [S -> Nat],
         SortedByPriority(list, prio)
  PROVE  SortedByPriority(Link(list, t, prio), prio)
<1>. DEFINE a == LinkAfter(list, prio[t], prio)
<1>1. prio[t] \in Nat
  OBVIOUS
<1>2. /\ a \in 0..Len(list)
      /\ a # 0 => prio[list[a]] >= prio[t]
      /\ \A j \in (a + 1)..Len(list) : prio[list[j]] < prio[t]
  BY <1>1, LinkAfterFound
<1>3. Link(list, t, prio) = InsertAt(list, a + 1, t)
  BY DEF Link
<1>. HIDE DEF a
<1>4. /\ prio \in [S -> Int]
      /\ a + 1 \in 1..(Len(list) + 1)
      /\ a + 1 # 1 => prio[list[(a + 1) - 1]] >= prio[t]
  BY <1>2
<1>5. \A j \in (a + 1)..Len(list) : prio[list[j]] <= prio[t]
  <2>. TAKE j \in (a + 1)..Len(list)
  <2>1. list[j] \in S /\ prio[list[j]] < prio[t]
    BY <1>2
  <2>2. prio[list[j]] \in Nat
    BY <2>1
  <2>. QED  BY <1>1, <2>1, <2>2
<1>. QED  BY <1>3, <1>4, <1>5, InsertAtSorted
-----------------------------------------------------------------------------
\* Two lists without common elements, one behind the other.
LEMMA ConcatDistinct ==
  ASSUME NEW S, NEW l \in Seq(S), NEW m \in Seq(S),
         NoDuplicates(l), NoDuplicates(m), ToSet(l) \intersect ToSet(m) = {}
  PROVE  NoDuplicates(l \o m)
<1>. DEFINE new == l \o m
<1>1. /\ Len(new) = Len(l) + Len(m) /\ Len(l) \in Nat /\ Len(m) \in Nat
      /\ DOMAIN new = 1..Len(new) /\ DOMAIN l = 1..Len(l)
      /\ DOMAIN m = 1..Len(m)
      /\ \A i \in 1..Len(l) : new[i] = l[i]
      /\ \A i \in (Len(l) + 1)..Len(new) : new[i] = m[i - Len(l)]
  OBVIOUS
<1>. HIDE DEF new
<1>2. ASSUME NEW i \in DOMAIN new, NEW j \in DOMAIN new, new[i] = new[j]
      PROVE  i = j
  <2>0. i \in 1..Len(new) /\ j \in 1..Len(new)
    BY <1>1
  <2>1. ASSUME NEW x \in 1..Len(l), NEW y \in 1..Len(m)
        PROVE  l[x] # m[y]
    BY <1>1, <2>1 DEF ToSet
  <2>2. CASE i \in 1..Len(l) /\ j \in 1..Len(l)
    BY <1>1, <1>2, <2>2 DEF NoDuplicates
  <2>3. CASE i \in 1..Len(l) /\ j \notin 1..Len(l)
    <3>1. j \in (Len(l) + 1)..Len(new) /\ j - Len(l) \in 1..Len(m)
      BY <1>1, <2>0, <2>3
    <3>. QED  BY <1>1, <1>2, <2>1, <2>3, <3>1
  <2>4. CASE i \notin 1..Len(l) /\ j \in 1..Len(l)
    <3>1. i \in (Len(l) + 1)..Len(new) /\ i - Len(l) \in 1..Len(m)
      BY <1>1, <2>0, <2>4
    <3>. QED  BY <1>1, <1>2, <2>1, <2>4, <3>1
  <2>5. CASE i \notin 1..Len(l) /\ j \notin 1..Len(l)
    <3>1. /\ i \in (Len(l) + 1)..Len(new) /\ i - Len(l) \in 1..Len(m)
          /\ j \in (Len(l) + 1)..Len(new) /\ j - Len(l) \in 1..Len(m)
      BY <1>1, <2>0, <2>5
    <3>2. m[i - Len(l)] = m[j - Len(l)]
      BY <1>1, <1>2, <3>1
    <3>3. i - Len(l) = j - Len(l)
      BY <1>1, <3>1, <3>2 DEF NoDuplicates
    <3>. QED  BY <1>1, <2>0, <3>3
  <2>. QED  BY <2>2, <2>3, <2>4, <2>5
<1>. QED  BY <1>2 DEF NoDuplicates, new
-----------------------------------------------------------------------------
\* If x is in the list, it is the last one.
LastIfAny(list, x) == \A i \in DOMAIN list : list[i] = x => i = Len(list)

\* A thread that is less urgent than all others stays the last of the list.
LEMMA LinkLast ==
  ASSUME NEW S, NEW x \in S, NEW list \in Seq(S), NEW t \in S,
         NEW prio \in [S -> Nat],
         \A u \in S \ {x} : prio[u] > prio[x],
         t \notin ToSet(list), LastIfAny(list, x)
  PROVE  LastIfAny(Link(list, t, prio), x)
<1>. DEFINE a == LinkAfter(list, prio[t], prio)
            k == a + 1
            new == InsertAt(list, k, t)
<1>0. prio[t] \in Nat /\ prio[x] \in Nat
  OBVIOUS
<1>1. /\ a \in 0..Len(list)
      /\ a # 0 => /\ prio[list[a]] >= prio[t]
                  /\ \A j \in (a + 1)..Len(list) : prio[list[j]] < prio[t]
      /\ a = 0 /\ list # <<>> => prio[t] > prio[list[1]]
  BY <1>0, LinkAfterFound
<1>2. Link(list, t, prio) = new
  BY DEF Link
<1>. HIDE DEF a
<1>3. k \in 1..(Len(list) + 1)
  BY <1>1
<1>. HIDE DEF k
<1>4. /\ new \in Seq(S)
      /\ Len(new) = Len(list) + 1
      /\ \A j \in 1..(k - 1) : new[j] = list[j]
      /\ new[k] = t
      /\ \A j \in k..Len(list) : new[j + 1] = list[j]
  BY <1>3, InsertAtElements
<1>40. k = a + 1
  BY DEF k
<1>. HIDE DEF new
<1>5. \A j \in 1..Len(list) : list[j] \in S /\ prio[list[j]] \in Nat
  OBVIOUS
<1>6. CASE t = x
  <2>1. \A j \in 1..Len(list) : prio[list[j]] > prio[t]
    <3>1. \A j \in 1..Len(list) : list[j] # x
      BY <1>6 DEF ToSet
    <3>. QED  BY <1>5, <1>6, <3>1
  <2>2. a = Len(list)
    <3>1. CASE list = <<>>
      BY <1>1, <3>1
    <3>2. CASE list # <<>>
      <4>1. 1 \in 1..Len(list)
        BY <3>2
      <4>2. a # 0
        BY <1>0, <1>1, <1>5, <2>1, <3>2, <4>1
      <4>3. a # Len(list) => Len(list) \in (a + 1)..Len(list)
        BY <1>1, <4>1
      <4>. QED  BY <1>0, <1>1, <1>5, <2>1, <4>1, <4>2, <4>3
    <3>. QED  BY <3>1, <3>2
  <2>3. ASSUME NEW i \in DOMAIN new, new[i] = x
        PROVE  i = Len(new)
    <3>1. i \in 1..(Len(list) + 1)
      BY <1>4
    <3>2. i \in 1..Len(list) => FALSE
      <4>. SUFFICES ASSUME i \in 1..Len(list)
                    PROVE  FALSE
        OBVIOUS
      <4>1. new[i] = list[i] /\ i \in DOMAIN list
        BY <1>4, <1>40, <2>2
      <4>. QED  BY <1>6, <2>3, <4>1 DEF ToSet
    <3>. QED  BY <1>4, <3>1, <3>2
  <2>. QED  BY <1>2, <2>3 DEF LastIfAny
<1>7. CASE t # x
  <2>1. ASSUME NEW m \in DOMAIN list, list[m] = x
        PROVE  m = Len(list) /\ k \in 1..Len(list)
    <3>1. m = Len(list) /\ list # <<>> /\ list[Len(list)] = x
      BY <2>1 DEF LastIfAny
    <3>2. a # Len(list)
      <4>1. CASE a = 0
        BY <3>1, <4>1
      <4>2. CASE a # 0
        <5>1. /\ a \in 1..Len(list) /\ prio[list[a]] >= prio[t]
              /\ prio[t] > prio[x]
          BY <1>1, <1>7, <4>2
        <5>. QED  BY <1>0, <1>5, <3>1, <5>1
      <4>. QED  BY <4>1, <4>2
    <3>. QED  BY <1>1, <1>40, <3>1, <3>2
  <2>2. ASSUME NEW i \in DOMAIN new, new[i] = x
        PROVE  i = Len(new)
    <3>1. i \in 1..(Len(list) + 1)
      BY <1>4
    <3>2. CASE i < k
      <4>0. i \in 1..(k - 1) /\ i \in 1..Len(list)
        BY <1>3, <3>1, <3>2
      <4>1. i \in DOMAIN list /\ list[i] = x
        BY <1>4, <2>2, <4>0
      <4>. QED  BY <2>1, <3>2, <4>1
    <3>3. CASE i = k
      BY <1>4, <1>7, <2>2, <3>3
    <3>4. CASE i > k
      <4>1. i - 1 \in k..Len(list) /\ (i - 1) + 1 = i /\ i - 1 \in DOMAIN list
        BY <1>3, <3>1, <3>4
      <4>2. list[i - 1] = x
        BY <1>4, <2>2, <4>1
      <4>3. i - 1 = Len(list)
        BY <2>1, <4>1, <4>2
      <4>. QED  BY <1>4, <3>1, <4>3
    <3>. QED  BY <1>3, <3>1, <3>2, <3>3, <3>4
  <2>. QED  BY <1>2, <2>2 DEF LastIfAny
<1>. QED  BY <1>6, <1>7

\* What Unlink does to the positions of a list.
LEMMA UnlinkPositions ==
  ASSUME NEW S, NEW list \in Seq(S), NEW t
  PROVE  \/ Unlink(list, t) = list
         \/ \E k \in 1..Len(list) :
              /\ list[k] = t
              /\ Unlink(list, t) \in Seq(S)
              /\ Len(Unlink(list, t)) = Len(list) - 1
              /\ \A j \in 1..(k - 1) : Unlink(list, t)[j] = list[j]
              /\ \A j \in k..(Len(list) - 1) : Unlink(list, t)[j] = list[j + 1]
<1>1. CASE t \notin ToSet(list)
  BY <1>1 DEF Unlink
<1>2. CASE t \in ToSet(list)
  <2>. DEFINE k == CHOOSE i \in DOMAIN list : list[i] = t
  <2>1. k \in 1..Len(list) /\ list[k] = t
    <3>1. \E i \in DOMAIN list : list[i] = t
      BY <1>2 DEF ToSet
    <3>2. k \in DOMAIN list /\ list[k] = t
      BY <3>1, Zenon
    <3>. QED  BY <3>2
  <2>2. Unlink(list, t) = RemoveAt(list, k)
    BY <1>2 DEF Unlink
  <2>. HIDE DEF k
  <2>3. /\ RemoveAt(list, k) \in Seq(S)
        /\ Len(RemoveAt(list, k)) = Len(list) - 1
        /\ \A j \in 1..(k - 1) : RemoveAt(list, k)[j] = list[j]
        /\ \A j \in k..(Len(list) - 1) : RemoveAt(list, k)[j] = list[j + 1]
    BY <2>1, RemoveAtElements
  <2>. QED  BY <2>1, <2>2, <2>3
<1>. QED  BY <1>1, <1>2

\* A node that is last stays last when another one goes.
LEMMA UnlinkLast ==
  ASSUME NEW S, NEW x \in S, NEW list \in Seq(S), NEW t, LastIfAny(list, x)
  PROVE  LastIfAny(Unlink(list, t), x)
<1>. DEFINE new == Unlink(list, t)
<1>1. CASE new = list
  BY <1>1
<1>2. CASE new # list
  <2>1. PICK k \in 1..Len(list) :
          /\ new \in Seq(S) /\ Len(new) = Len(list) - 1
          /\ \A j \in 1..(k - 1) : new[j] = list[j]
          /\ \A j \in k..(Len(list) - 1) : new[j] = list[j + 1]
    BY <1>2, UnlinkPositions
  <2>. HIDE DEF new
  <2>2. ASSUME NEW i \in DOMAIN new, new[i] = x
        PROVE  i = Len(new)
    <3>1. i \in 1..(Len(list) - 1)
      BY <2>1
    <3>2. CASE i < k
      <4>1. i \in DOMAIN list /\ list[i] = x
        BY <2>1, <2>2, <3>1, <3>2
      <4>. QED  BY <3>1, <4>1 DEF LastIfAny
    <3>3. CASE i >= k
      <4>1. i + 1 \in DOMAIN list /\ list[i + 1] = x
        BY <2>1, <2>2, <3>1, <3>3
      <4>. QED  BY <2>1, <3>1, <4>1 DEF LastIfAny
    <3>. QED  BY <2>1, <3>1, <3>2, <3>3
  <2>. QED  BY <2>2 DEF LastIfAny, new
<1>. QED  BY <1>1, <1>2

\* And when the head goes: then either it was the head, and the list is
\* empty, or it is still last.
LEMMA TailLast ==
  ASSUME NEW S, NEW x \in S, NEW list \in Seq(S), list # <<>>,
         LastIfAny(list, x)
  PROVE  /\ LastIfAny(Tail(list), x)
         /\ Head(list) = x => Tail(list) = <<>>
<1>1. /\ Tail(list) \in Seq(S) /\ Len(Tail(list)) = Len(list) - 1
      /\ \A i \in 1..Len(Tail(list)) :
           Tail(list)[i] = list[i + 1] /\ i + 1 \in DOMAIN list
      /\ Head(list) = list[1] /\ 1 \in DOMAIN list /\ Len(list) \in Nat
  OBVIOUS
<1>2. LastIfAny(Tail(list), x)
  <2>. SUFFICES ASSUME NEW i \in DOMAIN Tail(list), Tail(list)[i] = x
                PROVE  i = Len(Tail(list))
    BY DEF LastIfAny
  <2>1. i \in 1..Len(Tail(list)) /\ list[i + 1] = x
    BY <1>1
  <2>2. i + 1 = Len(list)
    BY <1>1, <2>1 DEF LastIfAny
  <2>. QED  BY <1>1, <2>1, <2>2
<1>3. Head(list) = x => Len(Tail(list)) = 0
  BY <1>1 DEF LastIfAny
<1>. QED  BY <1>1, <1>2, <1>3
-----------------------------------------------------------------------------
\* Removing a node from anywhere keeps a list sorted.
LEMMA UnlinkSorted ==
  ASSUME NEW S, NEW list \in Seq(S), NEW t, NEW prio,
         SortedByPriority(list, prio)
  PROVE  SortedByPriority(Unlink(list, t), prio)
<1>. DEFINE new == Unlink(list, t)
<1>1. CASE new = list
  BY <1>1
<1>2. CASE new # list
  <2>1. PICK k \in 1..Len(list) :
          /\ new \in Seq(S) /\ Len(new) = Len(list) - 1
          /\ \A j \in 1..(k - 1) : new[j] = list[j]
          /\ \A j \in k..(Len(list) - 1) : new[j] = list[j + 1]
    BY <1>2, UnlinkPositions
  <2>. HIDE DEF new
  <2>2. \A i \in DOMAIN new :
          \/ i < k /\ i \in DOMAIN list /\ new[i] = list[i]
          \/ i >= k /\ i + 1 \in DOMAIN list /\ new[i] = list[i + 1]
    <3>. TAKE i \in DOMAIN new
    <3>1. i \in 1..(Len(list) - 1)
      BY <2>1
    <3>. QED  BY <2>1, <3>1
  <2>3. ASSUME NEW i \in DOMAIN new, NEW j \in DOMAIN new, i < j
        PROVE  prio[new[i]] >= prio[new[j]]
    <3>1. i \in Int /\ j \in Int /\ k \in Int
      BY <2>1
    <3>2. PICK p \in DOMAIN list, q \in DOMAIN list :
            p < q /\ new[i] = list[p] /\ new[j] = list[q]
      BY <2>2, <2>3, <3>1
    <3>. QED  BY <3>2 DEF SortedByPriority
  <2>. QED  BY <2>3 DEF SortedByPriority, new
<1>. QED  BY <1>1, <1>2

\* So does removing the head, which was not below any of the others.
LEMMA TailSorted ==
  ASSUME NEW S, NEW list \in Seq(S), list # <<>>, NEW prio,
         SortedByPriority(list, prio)
  PROVE  /\ SortedByPriority(Tail(list), prio)
         /\ \A t \in ToSet(Tail(list)) : prio[Head(list)] >= prio[t]
<1>1. /\ Tail(list) \in Seq(S) /\ Len(Tail(list)) = Len(list) - 1
      /\ \A i \in DOMAIN Tail(list) :
           /\ Tail(list)[i] = list[i + 1]
           /\ i + 1 \in DOMAIN list /\ i \in Nat /\ 1 < i + 1
      /\ Head(list) = list[1] /\ 1 \in DOMAIN list /\ Len(list) \in Nat
  OBVIOUS
<1>2. SortedByPriority(Tail(list), prio)
  <2>. SUFFICES ASSUME NEW i \in DOMAIN Tail(list), NEW j \in DOMAIN Tail(list),
                       i < j
                PROVE  prio[Tail(list)[i]] >= prio[Tail(list)[j]]
    BY DEF SortedByPriority
  <2>1. i + 1 < j + 1
    BY <1>1
  <2>. QED  BY <1>1, <2>1 DEF SortedByPriority
<1>3. ASSUME NEW t \in ToSet(Tail(list))
      PROVE  prio[Head(list)] >= prio[t]
  <2>1. PICK i \in DOMAIN Tail(list) : t = Tail(list)[i]
    BY <1>3 DEF ToSet
  <2>. QED  BY <1>1, <2>1 DEF SortedByPriority
<1>. QED  BY <1>2, <1>3

\* Only the priorities of the threads in the list matter.
LEMMA SortedAgrees ==
  ASSUME NEW list, NEW p, NEW q, \A t \in ToSet(list) : p[t] = q[t],
         SortedByPriority(list, p)
  PROVE  SortedByPriority(list, q)
BY DEF SortedByPriority, ToSet
-----------------------------------------------------------------------------
\* A list without duplicates is as long as the set it lists.
LEMMA DistinctCount ==
  ASSUME NEW S, NEW s \in Seq(S), NoDuplicates(s)
  PROVE  IsFiniteSet(ToSet(s)) /\ Cardinality(ToSet(s)) = Len(s)
<1>1. s \in Bijection(1..Len(s), ToSet(s))
  <2>1. DOMAIN s = 1..Len(s) /\ s = [i \in 1..Len(s) |-> s[i]]
    OBVIOUS
  <2>2. s \in [1..Len(s) -> ToSet(s)]
    BY <2>1 DEF ToSet
  <2>3. IsInjective(s)
    BY DEF IsInjective, NoDuplicates
  <2>4. \A x \in ToSet(s) : \E i \in 1..Len(s) : s[i] = x
    BY <2>1 DEF ToSet
  <2>. QED  BY <2>2, <2>3, <2>4 DEF Bijection, Injection, Surjection
<1>2. IsFiniteSet(1..Len(s)) /\ Cardinality(1..Len(s)) = Len(s)
  <2>1. Len(s) \in Nat
    OBVIOUS
  <2>. QED  BY <2>1, FS_Interval
<1>3. ExistsBijection(1..Len(s), ToSet(s))
  BY <1>1 DEF ExistsBijection
<1>. QED  BY <1>2, <1>3, FS_Bijection

\* An enumeration of a finite set lists each element once.
LEMMA SetToSeqsElements ==
  ASSUME NEW S, IsFiniteSet(S), NEW s \in SetToSeqs(S)
  PROVE  /\ s \in Seq(S) /\ NoDuplicates(s) /\ ToSet(s) = S
         /\ Len(s) = Cardinality(S)
<1>1. Cardinality(S) \in Nat
  BY FS_CardinalityType
<1>2. /\ s \in [1..Cardinality(S) -> S]
      /\ \A i, j \in 1..Cardinality(S) : i # j => s[i] # s[j]
  BY DEF SetToSeqs
<1>3. s \in Seq(S) /\ Len(s) = Cardinality(S)
  BY <1>1, <1>2
<1>4. NoDuplicates(s)
  BY <1>2 DEF NoDuplicates
<1>5. ToSet(s) \subseteq S
  BY <1>2 DEF ToSet
<1>6. Cardinality(ToSet(s)) = Cardinality(S)
  BY <1>3, <1>4, DistinctCount
<1>7. ToSet(s) = S
  <2>1. SUFFICES ASSUME NEW x \in S, x \notin ToSet(s)
                 PROVE  FALSE
    BY <1>5
  <2>2. /\ IsFiniteSet(S \ {x}) /\ Cardinality(S \ {x}) = Cardinality(S) - 1
    BY <2>1, FS_RemoveElement
  <2>3. Cardinality(ToSet(s)) <= Cardinality(S \ {x})
    BY <1>5, <2>1, <2>2, FS_Subset
  <2>. QED  BY <1>1, <1>6, <2>2, <2>3
<1>. QED  BY <1>3, <1>4, <1>7

\* An element inserted into the empty list is alone in it.
LEMMA InsertAtEmpty ==
  ASSUME NEW e
  PROVE  InsertAt(<<>>, 1, e) = <<e>>
<1>1. SubSeq(<<>>, 1, 0) = <<>>
  OBVIOUS
<1>2. <<>> \o <<e>> = <<e>>
  OBVIOUS
<1>3. <<e>> \o <<>> = <<e>>
  OBVIOUS
<1>4. InsertAt(<<>>, 1, e)
        = SubSeq(<<>>, 1, 1 - 1) \o <<e>> \o SubSeq(<<>>, 1, Len(<<>>))
  BY Zenon DEF InsertAt
<1>5. 1 - 1 = 0 /\ Len(<<>>) = 0
  OBVIOUS
<1>. QED  BY <1>1, <1>2, <1>3, <1>4, <1>5, Zenon
=============================================================================
