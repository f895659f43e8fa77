-------------------------- MODULE FirstFitTopProofs --------------------------
(***************************************************************************)
(* The allocators of first-fit-top.cpp and lifo.cpp, for every arena and   *)
(* every request: the chunks tile the arena, the free list leads through   *)
(* the free ones, the blocks keep their contents, and a block freed twice  *)
(* is noticed.                                                             *)
(*                                                                         *)
(* A layout of the arena is stated of a memory m, the head of a free list, *)
(* the set F of the free chunks, the set X of the chunks a call has in     *)
(* hand and the set L of the blocks, so that each operation is a few steps *)
(* from one layout to another: a chunk is split or unlinked and then       *)
(* handed out, or it is taken back and then returned.                      *)
(***************************************************************************)
EXTENDS FirstFitTop, FiniteSetTheorems, WellFoundedInduction, TLAPS

\* The word behind the arena.
End == Base + Total

\* The chunks that start at A, with the sizes that m holds, tile the arena.
Tiles(m, A) ==
  /\ A \subseteq Words
  /\ \A c \in A : m[c] >= 2 /\ c + m[c] <= End
  /\ \A c, d \in A : c < d => c + m[c] <= d
  /\ \A w \in Words : \E c \in A : c <= w /\ w < c + m[c]

\* The links of m lead from head through the chunks F, up in address.
Chain(m, head, F) ==
  /\ head = Null => F = {}
  /\ head # Null => head \in F /\ \A d \in F : head <= d
  /\ \A c \in F : LET n == m[c + 1] IN
       /\ n = Null => \A d \in F : d <= c
       /\ n # Null => n \in F /\ c < n /\ \A d \in F : d <= c \/ n <= d

\* No two of them touch.
Gaps(m, F) == \A c, d \in F : c < d => c + m[c] < d

\* The chunk of the payload at addr, as ChunkOf() finds it.
Header(m, addr) ==
  LET h == addr - 1 IN IF m[h] < 0 THEN h + m[h] ELSE h

\* The chunk of b holds it behind the header, aligned and as it was filled.
Holds(m, b) ==
  LET c == Header(m, b.addr) IN
  /\ c < b.addr /\ b.addr < c + m[c] /\ b.addr + b.bytes <= c + m[c]
  /\ b.addr % b.align = 0
  /\ \A w \in b.addr..(b.addr + b.bytes - 1) : m[w] = Data

\* The chunks of the blocks L.
Heads(m, L) == {Header(m, b.addr) : b \in L}

\* What the callers may hold.
Blocks == [addr : Words, bytes : Sizes, align : Alignments]

\* All chunks: F, X, and those of the blocks L.
Parts(m, F, X, L) == F \union X \union Heads(m, L)

\* The free chunks F, the chunk that a call has in hand, X, and the chunks of
\* the blocks L.
Layout(m, head, F, X, L) ==
  /\ m \in [Words -> Int] /\ L \subseteq Blocks
  /\ Tiles(m, Parts(m, F, X, L))
  /\ Chain(m, head, F) /\ Gaps(m, F) /\ X \intersect F = {}
  /\ \A b \in L : Holds(m, b) /\ Header(m, b.addr) \notin F \union X
  /\ \A b, d \in L : Header(m, b.addr) = Header(m, d.addr) => b = d
-----------------------------------------------------------------------------
\* The free list by its positions.
LEMMA FreeEquations ==
  /\ Free[0] = freeList
  /\ \A k \in 1..Total :
       Free[k] = IF Free[k - 1] # Null /\ Free[k - 1] + ChunkOffset \in Words
                 THEN Link(Free[k - 1]) ELSE Null
<1>. DEFINE after(c) == IF c # Null /\ c + ChunkOffset \in Words
                        THEN Link(c) ELSE Null
            Eq(f, n) ==
              f = [k \in 0..n |-> IF k = 0 THEN freeList ELSE after(f[k - 1])]
            T == {n \in Nat : ~ \E f : Eq(f, n)}
<1>0. Total \in Nat
  BY ArenaAssumption
<1>1. T = {}
  <2>. SUFFICES ASSUME T # {}
                PROVE  FALSE
    OBVIOUS
  <2>1. PICK n \in T : \A i \in T : ~ (<<i, n>> \in OpToRel(<, Nat))
    <3>1. T \subseteq Nat
      OBVIOUS
    <3>. HIDE DEF T
    <3>. QED  BY <3>1, NatLessThanWellFounded, WFMin
  <2>2. n \in Nat
    OBVIOUS
  <2>. HIDE DEF after
  <2>3. CASE n = 0
    <3>1. Eq([k \in 0..0 |-> freeList], 0)
      OBVIOUS
    <3>. QED  BY <2>3, <3>1
  <2>4. CASE n # 0
    <3>1. n - 1 \in Nat /\ n - 1 < n
      BY <2>2, <2>4
    <3>2. <<n - 1, n>> \in OpToRel(<, Nat)
      BY <2>2, <3>1 DEF OpToRel
    <3>3. n - 1 \notin T
      BY <2>1, <3>2, Zenon
    <3>4. PICK g : Eq(g, n - 1)
      BY <3>1, <3>3
    <3>. DEFINE f == [k \in 0..n |-> IF k = n THEN after(g[n - 1]) ELSE g[k]]
    <3>5. ASSUME NEW k \in 0..n
          PROVE  f[k] = IF k = 0 THEN freeList ELSE after(f[k - 1])
      <4>1. CASE k = n
        BY <2>2, <2>4, <4>1
      <4>2. CASE k # n
        <5>1. k \in 0..(n - 1) /\ f[k] = g[k]
          BY <2>2, <4>2
        <5>2. g[k] = IF k = 0 THEN freeList ELSE after(g[k - 1])
          BY <3>4, <5>1
        <5>3. k # 0 => f[k - 1] = g[k - 1]
          BY <2>2, <4>2
        <5>. QED  BY <5>1, <5>2, <5>3
      <4>. QED  BY <4>1, <4>2
    <3>6. f = [k \in 0..n |-> f[k]]
      OBVIOUS
    <3>. HIDE DEF f
    <3>7. Eq(f, n)
      BY <3>5, <3>6
    <3>. QED  BY <3>7
  <2>. QED  BY <2>3, <2>4
<1>2. \E f : Eq(f, Total)
  BY <1>0, <1>1
<1>3. Free = CHOOSE f : Eq(f, Total)
  BY DEF Free
<1>4. Eq(Free, Total)
  <2>. HIDE DEF Eq
  <2>. QED  BY <1>2, <1>3
<1>. QED  BY <1>0, <1>4

\* A set of numbers that is not empty has a least one.
LEMMA Least ==
  ASSUME NEW T, T \subseteq Nat, T # {}
  PROVE  \E n \in T : \A i \in T : n <= i
<1>1. PICK n \in T : \A i \in T : ~ (<<i, n>> \in OpToRel(<, Nat))
  BY NatLessThanWellFounded, WFMin
<1>2. ASSUME NEW i \in T
      PROVE  n <= i
  <2>1. i \in Nat /\ n \in Nat
    OBVIOUS
  <2>2. i < n => <<i, n>> \in OpToRel(<, Nat)
    BY <2>1 DEF OpToRel
  <2>3. ~ (i < n)
    BY <1>1, <2>2, Zenon
  <2>. QED  BY <2>1, <2>3
<1>. QED  BY <1>2

\* The words are numbers.
LEMMA WordsAreNumbers ==
  /\ Words \subseteq Nat /\ Null \notin Words /\ End \in Nat /\ Base \in Words
  /\ \A w : w \in Words <=> w \in Int /\ Base <= w /\ w < End
  /\ Base \in Nat /\ Base > 0 /\ Total \in Nat /\ Total > 2
BY ArenaAssumption DEF Words, Null, End

\* It visits the chunks of the chain, and nothing else.
LEMMA FreeFollows ==
  ASSUME NEW F, F \subseteq Words, \A c \in F : c + 1 \in Words,
         Chain(mem, freeList, F)
  PROVE  /\ Free[0] = freeList
         /\ \A k \in 0..Total : Free[k] \in F \union {Null}
         /\ \A k \in 0..(Total - 1) :
              Free[k + 1] = IF Free[k] = Null THEN Null ELSE mem[Free[k] + 1]
         /\ \A c \in F : \E k \in 0..(Total - 1) : Free[k] = c
         /\ FreeSet = F
<1>0. /\ Words \subseteq Nat /\ Null \notin Words /\ Total \in Nat /\ Base \in Nat
      /\ Base > 0 /\ Total > 2
      /\ \A w : w \in Words <=> w \in Int /\ Base <= w /\ w < Base + Total
  BY WordsAreNumbers DEF End
<1>1. Free[0] = freeList /\ freeList \in F \union {Null}
  BY FreeEquations DEF Chain
<1>2. \A c \in F : mem[c + 1] \in F \union {Null} /\ (mem[c + 1] # Null => c < mem[c + 1])
  BY DEF Chain
<1>3. ASSUME NEW k \in 1..Total, Free[k - 1] \in F \union {Null}
      PROVE  Free[k] = IF Free[k - 1] = Null THEN Null ELSE mem[Free[k - 1] + 1]
  BY <1>3, FreeEquations DEF Link, ChunkOffset
<1>. DEFINE Fine(k) == /\ Free[k] \in F \union {Null}
                       /\ Free[k] # Null => Free[k] >= Base + k
            T == {k \in 0..Total : ~ Fine(k)}
<1>4. T = {}
  <2>. SUFFICES ASSUME T # {}
                PROVE  FALSE
    OBVIOUS
  <2>1. PICK k \in T : \A i \in T : k <= i
    <3>1. T \subseteq Nat
      BY <1>0
    <3>. HIDE DEF T
    <3>. QED  BY <3>1, Least
  <2>2. k \in 0..Total /\ ~ Fine(k)
    OBVIOUS
  <2>3. k # 0
    <3>1. Fine(0)
      BY <1>0, <1>1
    <3>. QED  BY <2>2, <3>1
  <2>4. k - 1 \in 0..Total /\ k \in 1..Total /\ ~ (k <= k - 1)
    BY <1>0, <2>2, <2>3
  <2>5. k - 1 \notin T
    BY <2>1, <2>4
  <2>6. Fine(k - 1)
    BY <2>4, <2>5
  <2>7. Free[k] = IF Free[k - 1] = Null THEN Null ELSE mem[Free[k - 1] + 1]
    BY <1>3, <2>4, <2>6
  <2>8. CASE Free[k - 1] = Null
    BY <2>2, <2>7, <2>8
  <2>9. CASE Free[k - 1] # Null
    <3>1. Free[k - 1] \in F /\ Free[k - 1] >= Base + (k - 1)
      BY <2>6, <2>9
    <3>2. Free[k] = mem[Free[k - 1] + 1]
      BY <2>7, <2>9
    <3>3. /\ Free[k] \in F \union {Null}
          /\ Free[k] # Null => Free[k - 1] < Free[k]
      BY <1>2, <3>1, <3>2
    <3>4. Free[k - 1] \in Nat /\ (Free[k] # Null => Free[k] \in Nat)
      BY <1>0, <3>1, <3>3
    <3>5. Fine(k)
      BY <1>0, <2>4, <3>1, <3>3, <3>4
    <3>. QED  BY <2>2, <3>5
  <2>. QED  BY <2>8, <2>9
<1>5. \A k \in 0..Total : Fine(k)
  BY <1>4
<1>. HIDE DEF T
<1>6. ASSUME NEW k \in 0..(Total - 1)
      PROVE  Free[k + 1] = IF Free[k] = Null THEN Null ELSE mem[Free[k] + 1]
  <2>1. k + 1 \in 1..Total /\ k \in 0..Total /\ (k + 1) - 1 = k
    BY <1>0
  <2>. QED  BY <1>3, <1>5, <2>1
<1>. DEFINE U == {c \in F : \A k \in 0..(Total - 1) : Free[k] # c}
<1>7. U = {}
  <2>. SUFFICES ASSUME U # {}
                PROVE  FALSE
    OBVIOUS
  <2>1. PICK c \in U : \A d \in U : c <= d
    <3>1. U \subseteq Nat
      BY <1>0
    <3>. HIDE DEF U
    <3>. QED  BY <3>1, Least
  <2>2. c \in F /\ \A k \in 0..(Total - 1) : Free[k] # c
    OBVIOUS
  <2>3. freeList \in F /\ freeList < c
    <3>1. 0 \in 0..(Total - 1)
      BY <1>0
    <3>. QED  BY <1>0, <1>1, <2>2, <3>1 DEF Chain
  <2>. DEFINE P == {c - d : d \in {d \in F : d < c}}
  <2>4. PICK p \in F : p < c /\ \A d \in F : d < c => d <= p
    <3>1. P \subseteq Nat /\ P # {}
      BY <1>0, <2>2, <2>3
    <3>. HIDE DEF P
    <3>2. PICK q \in P : \A i \in P : q <= i
      BY <3>1, Least
    <3>. USE DEF P
    <3>3. PICK p \in F : p < c /\ q = c - p
      BY <3>2
    <3>4. ASSUME NEW d \in F, d < c
          PROVE  d <= p
      <4>1. c - d \in P
        BY <3>4
      <4>2. q <= c - d
        BY <3>2, <4>1
      <4>3. c \in Nat /\ d \in Nat /\ p \in Nat
        BY <1>0, <2>2
      <4>. QED  BY <3>3, <4>2, <4>3
    <3>. QED  BY <3>3, <3>4
  <2>5. p \notin U
    BY <1>0, <2>1, <2>2, <2>4
  <2>6. PICK k \in 0..(Total - 1) : Free[k] = p
    BY <2>4, <2>5
  <2>7. Free[k + 1] = mem[p + 1]
    BY <1>0, <1>6, <2>4, <2>6
  <2>8. mem[p + 1] = c
    <3>. DEFINE n == mem[p + 1]
    <3>1. /\ n = Null => \A d \in F : d <= p
          /\ n # Null => n \in F /\ p < n /\ \A d \in F : d <= p \/ n <= d
      BY <2>4 DEF Chain
    <3>2. c \in Nat /\ p \in Nat /\ ~ (c <= p)
      BY <1>0, <2>2, <2>4
    <3>3. n \in F /\ p < n /\ n <= c
      BY <2>2, <3>1, <3>2
    <3>. HIDE DEF n
    <3>4. n \in Nat /\ ~ (n <= p)
      <4>1. n \in Nat
        BY <1>0, <3>3
      <4>. QED  BY <3>2, <3>3, <4>1
    <3>5. ~ (n < c)
      BY <2>4, <3>3, <3>4
    <3>. QED  BY <3>2, <3>3, <3>4, <3>5 DEF n
  <2>9. k + 1 \in 0..(Total - 1)
    <3>1. p >= Base + k /\ p < c /\ c < Base + Total
      BY <1>0, <1>5, <2>2, <2>4, <2>6
    <3>2. p \in Nat /\ c \in Nat
      BY <1>0, <2>2, <2>4
    <3>. QED  BY <1>0, <3>1, <3>2
  <2>. QED  BY <2>2, <2>7, <2>8, <2>9
<1>8. \A c \in F : \E k \in 0..(Total - 1) : Free[k] = c
  BY <1>7
<1>9. FreeSet = F
  <2>1. FreeSet = {Free[k] : k \in 0..Total} \ {Null}
    BY DEF FreeSet
  <2>2. 0..(Total - 1) \subseteq 0..Total
    BY <1>0
  <2>. QED  BY <1>0, <1>5, <1>8, <2>1, <2>2
<1>. QED  BY <1>1, <1>5, <1>6, <1>8, <1>9

-----------------------------------------------------------------------------
\* Chunks whose size stays are where they were.
LEMMA TilesFrame ==
  ASSUME NEW m, NEW m2, NEW A, Tiles(m, A), \A c \in A : m2[c] = m[c]
  PROVE  Tiles(m2, A)
BY DEF Tiles

\* A chunk in two.
LEMMA SplitTiles ==
  ASSUME NEW m \in [Words -> Int], NEW m2 \in [Words -> Int], NEW A, Tiles(m, A),
         NEW c \in A, NEW top \in Int, c + 2 <= top, top + 2 <= c + m[c],
         m2[c] = top - c, m2[top] = (c + m[c]) - top,
         \A d \in A \ {c} : m2[d] = m[d]
  PROVE  Tiles(m2, A \union {top}) /\ top \in Words /\ top \notin A
<1>0. /\ Words \subseteq Nat /\ End \in Nat
      /\ \A w : w \in Words <=> w \in Int /\ Base <= w /\ w < End
      /\ Base \in Nat
  BY WordsAreNumbers
<1>1. /\ A \subseteq Words /\ A \subseteq Nat
      /\ \A d \in A : d \in Nat /\ m[d] \in Int /\ m[d] >= 2 /\ d + m[d] <= End
      /\ \A d, e \in A : d < e => d + m[d] <= e
      /\ \A w \in Words : \E d \in A : d <= w /\ w < d + m[d]
  BY <1>0 DEF Tiles
<1>2. top \in Words
  BY <1>0, <1>1
<1>3. ASSUME NEW d \in A \ {c}
      PROVE  \/ d + m[d] <= c /\ d < c
             \/ c + m[c] <= d /\ c < d
  <2>1. d < c \/ c < d
    BY <1>1
  <2>. QED  BY <1>1, <2>1
<1>4. top \notin A
  BY <1>1, <1>3
<1>5. ASSUME NEW d \in A \union {top}
      PROVE  m2[d] >= 2 /\ d + m2[d] <= End
  <2>1. CASE d = top
    BY <1>1, <2>1
  <2>2. CASE d = c
    <3>1. c \in Nat /\ m[c] \in Int /\ c + m[c] <= End
      BY <1>1
    <3>2. top - c >= 2 /\ c + (top - c) <= End
      BY <1>0, <3>1
    <3>. QED  BY <2>2, <3>2
  <2>3. CASE d \in A \ {c}
    BY <1>1, <2>3
  <2>. QED  BY <2>1, <2>2, <2>3
<1>6. ASSUME NEW d \in A \union {top}, NEW e \in A \union {top}, d < e
      PROVE  d + m2[d] <= e
  <2>1. CASE d = top
    <3>1. e \in A \ {c}
      BY <1>1, <1>6, <2>1
    <3>. QED  BY <1>1, <1>3, <1>6, <2>1, <3>1
  <2>2. CASE d = c
    <3>1. CASE e = top
      BY <1>1, <2>2, <3>1
    <3>2. CASE e \in A \ {c}
      <4>1. c + m[c] <= e
        BY <1>1, <1>6, <2>2, <3>2
      <4>. QED  BY <1>1, <2>2, <3>2, <4>1
    <3>. QED  BY <1>1, <1>6, <2>2, <3>1, <3>2
  <2>3. CASE d \in A \ {c}
    <3>1. CASE e = top
      BY <1>1, <1>3, <1>6, <2>3, <3>1
    <3>2. CASE e \in A
      BY <1>1, <1>6, <2>3, <3>2
    <3>. QED  BY <3>1, <3>2
  <2>. QED  BY <2>1, <2>2, <2>3
<1>7. ASSUME NEW w \in Words
      PROVE  \E d \in A \union {top} : d <= w /\ w < d + m2[d]
  <2>1. PICK d \in A : d <= w /\ w < d + m[d]
    BY <1>1
  <2>2. CASE d # c
    BY <2>1, <2>2
  <2>3. CASE d = c /\ w < top
    BY <1>0, <1>1, <2>1, <2>3
  <2>4. CASE d = c /\ ~ (w < top)
    <3>1. top <= w /\ w < top + m2[top]
      BY <1>0, <1>1, <2>1, <2>4
    <3>. QED  BY <3>1
  <2>. QED  BY <2>2, <2>3, <2>4
<1>. QED  BY <1>1, <1>2, <1>4, <1>5, <1>6, <1>7 DEF Tiles

\* A chunk and the next one in one.
LEMMA MergeTiles ==
  ASSUME NEW m \in [Words -> Int], NEW m2 \in [Words -> Int], NEW A, Tiles(m, A),
         NEW p \in A, NEW c \in A, p + m[p] = c, m2[p] = m[p] + m[c],
         \A d \in A \ {p, c} : m2[d] = m[d]
  PROVE  Tiles(m2, A \ {c})
<1>0. /\ Words \subseteq Nat /\ End \in Nat
      /\ \A w : w \in Words <=> w \in Int /\ Base <= w /\ w < End
      /\ Base \in Nat
  BY WordsAreNumbers
<1>1. /\ A \subseteq Words /\ A \subseteq Nat
      /\ \A d \in A : d \in Nat /\ m[d] \in Int /\ m[d] >= 2 /\ d + m[d] <= End
      /\ \A d, e \in A : d < e => d + m[d] <= e
      /\ \A w \in Words : \E d \in A : d <= w /\ w < d + m[d]
  BY <1>0 DEF Tiles
<1>2. p < c /\ p + m2[p] = c + m[c]
  BY <1>1
<1>3. ASSUME NEW d \in A \ {c}
      PROVE  m2[d] >= 2 /\ d + m2[d] <= End
  BY <1>1, <1>2
<1>4. ASSUME NEW d \in A \ {c}, NEW e \in A \ {c}, d < e
      PROVE  d + m2[d] <= e
  <2>1. CASE d = p
    <3>1. c < e
      BY <1>1, <1>4, <2>1
    <3>. QED  BY <1>1, <1>2, <2>1, <3>1
  <2>2. CASE d # p
    BY <1>1, <1>4, <2>2
  <2>. QED  BY <2>1, <2>2
<1>5. ASSUME NEW w \in Words
      PROVE  \E d \in A \ {c} : d <= w /\ w < d + m2[d]
  <2>1. PICK d \in A : d <= w /\ w < d + m[d]
    BY <1>1
  <2>2. CASE d \notin {p, c}
    BY <2>1, <2>2
  <2>3. CASE d \in {p, c}
    <3>1. p <= w /\ w < p + m2[p]
      BY <1>0, <1>1, <1>2, <2>1, <2>3
    <3>2. p \in A \ {c}
      BY <1>1, <1>2
    <3>. QED  BY <3>1, <3>2
  <2>. QED  BY <2>2, <2>3
<1>. QED  BY <1>1, <1>3, <1>4, <1>5 DEF Tiles
-----------------------------------------------------------------------------
\* Chunks whose links are the same.
SameLinks(m, m2, F) == \A d \in F : m2[d + 1] = m[d + 1]

\* Links that stay lead along the same chunks.
LEMMA ChainFrame ==
  ASSUME NEW m, NEW m2, NEW head, NEW F, Chain(m, head, F),
         SameLinks(m, m2, F)
  PROVE  Chain(m2, head, F)
BY DEF Chain, SameLinks

\* A chunk before all the others.
LEMMA ChainFirst ==
  ASSUME NEW F, F \subseteq Nat, Null \notin F, NEW c \in Nat \ {0},
         \A d \in F : c < d,
         NEW m, NEW m2, NEW head, Chain(m, head, F),
         m2[c + 1] = head, SameLinks(m, m2, F)
  PROVE  Chain(m2, c, F \union {c})
<1>a. \A d \in F : m2[d + 1] = m[d + 1]
  BY DEF SameLinks
<1>1. /\ head = Null => F = {}
      /\ head # Null => head \in F /\ \A d \in F : head <= d
      /\ \A d \in F : LET n == m[d + 1] IN
           /\ n = Null => \A e \in F : e <= d
           /\ n # Null => n \in F /\ d < n /\ \A e \in F : e <= d \/ n <= e
  BY DEF Chain
<1>2. c # Null /\ \A d \in F \union {c} : c <= d /\ d \in Nat
  BY DEF Null
<1>3. LET n == m2[c + 1] IN
        /\ n = Null => \A e \in F \union {c} : e <= c
        /\ n # Null => /\ n \in F /\ c < n
                       /\ \A e \in F \union {c} : e <= c \/ n <= e
  BY <1>1, <1>2
<1>4. ASSUME NEW d \in F
      PROVE  LET n == m2[d + 1] IN
        /\ n = Null => \A e \in F \union {c} : e <= d
        /\ n # Null => /\ n \in F /\ d < n
                       /\ \A e \in F \union {c} : e <= d \/ n <= e
  BY <1>a, <1>1, <1>2
<1>. QED  BY <1>2, <1>3, <1>4 DEF Chain

\* A chunk after p.
LEMMA ChainAfter ==
  ASSUME NEW F, F \subseteq Nat, Null \notin F, NEW p \in F, NEW c \in Nat, p < c,
         NEW m, NEW m2, NEW head, Chain(m, head, F),
         m[p + 1] = Null \/ c < m[p + 1],
         m2[c + 1] = m[p + 1], m2[p + 1] = c,
         SameLinks(m, m2, F \ {p})
  PROVE  Chain(m2, head, F \union {c}) /\ c \notin F
<1>a. \A d \in F \ {p} : m2[d + 1] = m[d + 1]
  BY DEF SameLinks
<1>1. /\ head \in F /\ head # Null /\ \A d \in F : head <= d
      /\ \A d \in F : LET n == m[d + 1] IN
           /\ n = Null => \A e \in F : e <= d
           /\ n # Null => n \in F /\ d < n /\ \A e \in F : e <= d \/ n <= e
  BY DEF Chain
<1>2. /\ c # Null /\ p \in Nat /\ \A d \in F \union {c} : d \in Nat
  BY DEF Null
<1>3. \A d \in F : d <= p \/ c < d
  <2>1. m[p + 1] # Null => m[p + 1] \in Nat
    BY <1>1
  <2>. QED  BY <1>1, <1>2, <2>1
<1>4. ASSUME NEW d \in F \ {p}
      PROVE  LET n == m2[d + 1] IN
        /\ n = Null => \A e \in F \union {c} : e <= d
        /\ n # Null => /\ n \in F /\ d < n
                       /\ \A e \in F \union {c} : e <= d \/ n <= e
  <2>. DEFINE n == m2[d + 1]
  <2>1. /\ n = Null => \A e \in F : e <= d
        /\ n # Null => n \in F /\ d < n /\ \A e \in F : e <= d \/ n <= e
    BY <1>a, <1>1
  <2>2. d \in Nat /\ (d < p \/ c < d)
    BY <1>2, <1>3
  <2>. HIDE DEF n
  <2>3. CASE n = Null
    <3>1. p <= d
      BY <2>1, <2>3
    <3>2. c <= d
      BY <1>2, <2>2, <3>1
    <3>. QED  BY <2>1, <2>3, <3>2 DEF n
  <2>4. CASE n # Null
    <3>1. n \in F /\ n \in Nat /\ d < n /\ \A e \in F : e <= d \/ n <= e
      BY <1>2, <2>1, <2>4
    <3>2. c <= d \/ n <= c
      BY <1>2, <2>2, <3>1
    <3>. QED  BY <2>4, <3>1, <3>2 DEF n
  <2>. QED  BY <2>3, <2>4
<1>5. LET n == m2[p + 1] IN
        n # Null /\ n = c /\ p < n /\ \A e \in F \union {c} : e <= p \/ n <= e
  BY <1>2, <1>3
<1>6. LET n == m2[c + 1] IN
        /\ n = Null => \A e \in F \union {c} : e <= c
        /\ n # Null => /\ n \in F /\ c < n
                       /\ \A e \in F \union {c} : e <= c \/ n <= e
  <2>. DEFINE n == m[p + 1]
  <2>1. /\ n = Null => \A e \in F : e <= p
        /\ n # Null => n \in F /\ p < n /\ \A e \in F : e <= p \/ n <= e
    BY <1>1
  <2>2. n = Null \/ c < n
    OBVIOUS
  <2>. HIDE DEF n
  <2>3. /\ n = Null => \A e \in F \union {c} : e <= c
        /\ n # Null => /\ n \in F /\ c < n
                       /\ \A e \in F \union {c} : e <= c \/ n <= e
    BY <1>2, <1>3, <2>1, <2>2
  <2>. QED  BY <2>3 DEF n
<1>7. head <= c
  BY <1>1, <1>2
<1>8. c \notin F
  BY <1>2, <1>3
<1>. QED  BY <1>1, <1>4, <1>5, <1>6, <1>7, <1>8 DEF Chain

\* Without its first chunk.
LEMMA ChainPop ==
  ASSUME NEW F, F \subseteq Nat, Null \notin F,
         NEW m, NEW m2, NEW head \in F, Chain(m, head, F),
         SameLinks(m, m2, F \ {head})
  PROVE  Chain(m2, m[head + 1], F \ {head})
<1>a. \A d \in F \ {head} : m2[d + 1] = m[d + 1]
  BY DEF SameLinks
<1>1. /\ head # Null /\ \A d \in F : head <= d /\ d \in Nat
      /\ \A d \in F : LET n == m[d + 1] IN
           /\ n = Null => \A e \in F : e <= d
           /\ n # Null => n \in F /\ d < n /\ \A e \in F : e <= d \/ n <= e
  BY DEF Chain
<1>. DEFINE h == m[head + 1]
<1>2. /\ h = Null => F \ {head} = {}
      /\ h # Null => h \in F \ {head} /\ \A d \in F \ {head} : h <= d
  <2>1. /\ h = Null => \A e \in F : e <= head
        /\ h # Null => h \in F /\ head < h /\ \A e \in F : e <= head \/ h <= e
    BY <1>1
  <2>. HIDE DEF h
  <2>. QED  BY <1>1, <2>1
<1>3. ASSUME NEW d \in F \ {head}
      PROVE  LET n == m2[d + 1] IN
        /\ n = Null => \A e \in F \ {head} : e <= d
        /\ n # Null => /\ n \in F \ {head} /\ d < n
                       /\ \A e \in F \ {head} : e <= d \/ n <= e
  <2>. DEFINE n == m2[d + 1]
  <2>1. /\ n = Null => \A e \in F : e <= d
        /\ n # Null => n \in F /\ d < n /\ \A e \in F : e <= d \/ n <= e
    BY <1>a, <1>1
  <2>2. n # Null => n # head
    <3>. HIDE DEF n
    <3>. QED  BY <1>1, <2>1
  <2>. QED  BY <2>1, <2>2
<1>. QED  BY <1>2, <1>3 DEF Chain

\* Without the chunk after p.
LEMMA ChainSkip ==
  ASSUME NEW F, F \subseteq Nat, Null \notin F, NEW p \in F,
         NEW m, NEW m2, NEW head, Chain(m, head, F),
         NEW c \in F, m[p + 1] = c, m2[p + 1] = m[c + 1],
         SameLinks(m, m2, F \ {p, c})
  PROVE  Chain(m2, head, F \ {c})
<1>a. \A d \in F \ {p, c} : m2[d + 1] = m[d + 1]
  BY DEF SameLinks
<1>1. /\ head \in F /\ head # Null /\ \A d \in F : head <= d /\ d \in Nat
      /\ \A d \in F : LET n == m[d + 1] IN
           /\ n = Null => \A e \in F : e <= d
           /\ n # Null => n \in F /\ d < n /\ \A e \in F : e <= d \/ n <= e
  BY DEF Chain
<1>2. c # Null /\ p < c /\ \A e \in F : e <= p \/ c <= e
  BY <1>1
<1>3. head # c
  <2>1. head <= p
    BY <1>1
  <2>. QED  BY <1>1, <1>2, <2>1
<1>4. LET n == m2[p + 1] IN
        /\ n = Null => \A e \in F \ {c} : e <= p
        /\ n # Null => /\ n \in F \ {c} /\ p < n
                       /\ \A e \in F \ {c} : e <= p \/ n <= e
  <2>. DEFINE n == m[c + 1]
  <2>1. /\ n = Null => \A e \in F : e <= c
        /\ n # Null => n \in F /\ c < n /\ \A e \in F : e <= c \/ n <= e
    BY <1>1
  <2>. HIDE DEF n
  <2>2. CASE n = Null
    <3>1. \A e \in F \ {c} : e <= p
      BY <1>1, <1>2, <2>1, <2>2
    <3>. QED  BY <2>2, <3>1 DEF n
  <2>3. CASE n # Null
    <3>1. n \in F /\ n \in Nat /\ c < n /\ \A e \in F : e <= c \/ n <= e
      BY <1>1, <2>1, <2>3
    <3>2. n \in F \ {c} /\ p < n /\ \A e \in F \ {c} : e <= p \/ n <= e
      BY <1>1, <1>2, <3>1
    <3>. QED  BY <2>3, <3>2 DEF n
  <2>. QED  BY <2>2, <2>3
<1>5. ASSUME NEW d \in F \ {p, c}
      PROVE  LET n == m2[d + 1] IN
        /\ n = Null => \A e \in F \ {c} : e <= d
        /\ n # Null => /\ n \in F \ {c} /\ d < n
                       /\ \A e \in F \ {c} : e <= d \/ n <= e
  <2>. DEFINE n == m2[d + 1]
  <2>1. /\ n = Null => \A e \in F : e <= d
        /\ n # Null => n \in F /\ d < n /\ \A e \in F : e <= d \/ n <= e
    BY <1>a, <1>1
  <2>2. n # c
    <3>. HIDE DEF n
    <3>1. d < p \/ c < d
      BY <1>1, <1>2
    <3>. QED  BY <1>1, <1>2, <2>1, <3>1
  <2>. QED  BY <2>1, <2>2
<1>. QED  BY <1>1, <1>3, <1>4, <1>5 DEF Chain

\* The first chunk gives way to one before it.
LEMMA ChainReplaceFirst ==
  ASSUME NEW F, F \subseteq Nat, Null \notin F,
         NEW m, NEW m2, NEW head \in F, Chain(m, head, F),
         NEW c \in Nat \ {0}, \A d \in F \ {head} : c < d, c # head,
         m2[c + 1] = m[head + 1],
         SameLinks(m, m2, F \ {head})
  PROVE  Chain(m2, c, (F \union {c}) \ {head})
<1>a. SameLinks(m, m, F \ {head})
  BY DEF SameLinks
<1>. DEFINE G == F \ {head}
            h == m[head + 1]
<1>1. Chain(m, h, G)
  BY <1>a, ChainPop
<1>2. G \subseteq Nat /\ Null \notin G /\ (\A d \in G : c < d) /\ SameLinks(m, m2, G)
  OBVIOUS
<1>3. (F \union {c}) \ {head} = G \union {c} /\ m2[c + 1] = h
  OBVIOUS
<1>. HIDE DEF G, h
<1>4. Chain(m2, c, G \union {c})
  BY <1>1, <1>2, <1>3, ChainFirst
<1>. QED  BY <1>3, <1>4

\* The chunk n after p gives way to one between them.
LEMMA ChainReplace ==
  ASSUME NEW F, F \subseteq Nat, Null \notin F, NEW p \in F, NEW n \in F,
         NEW m \in [Words -> Int], NEW m2, NEW head, Chain(m, head, F),
         p + 1 \in Words, \A d \in F : m[d + 1] \in Int /\ d + 1 \in Words,
         m[p + 1] = n, NEW c \in Nat, p < c, c < n,
         m2[c + 1] = m[n + 1], m2[p + 1] = c,
         SameLinks(m, m2, F \ {p, n})
  PROVE  Chain(m2, head, (F \union {c}) \ {n})
<1>a. \A d \in F \ {p, n} : m2[d + 1] = m[d + 1]
  BY DEF SameLinks
<1>. DEFINE m1 == [m EXCEPT ![p + 1] = m[n + 1]]
            G == F \ {n}
<1>1. m1[p + 1] = m[n + 1]
  OBVIOUS
<1>2. ASSUME NEW d \in F \ {p}
      PROVE  m1[d + 1] = m[d + 1]
  <2>1. d \in Nat /\ p \in Nat /\ d + 1 # p + 1
    OBVIOUS
  <2>. QED  BY <2>1
<1>. HIDE DEF m1
<1>3. Chain(m1, head, G)
  <2>1. SameLinks(m, m1, F \ {p, n})
    BY <1>2 DEF SameLinks
  <2>. QED  BY <1>1, <2>1, ChainSkip
<1>4. p \in G /\ G \subseteq Nat /\ Null \notin G
  OBVIOUS
<1>5. m1[p + 1] = Null \/ c < m1[p + 1]
  <2>. DEFINE q == m[n + 1]
  <2>1. q = Null \/ (q \in F /\ n < q)
    BY DEF Chain
  <2>2. q = m1[p + 1]
    BY <1>1
  <2>. HIDE DEF q
  <2>3. q = Null \/ c < q
    <3>1. n \in Nat /\ (q # Null => q \in Nat)
      BY <2>1
    <3>. QED  BY <2>1, <3>1
  <2>. QED  BY <2>2, <2>3
<1>6. m2[c + 1] = m1[p + 1] /\ SameLinks(m1, m2, G \ {p})
  BY <1>a, <1>1, <1>2 DEF SameLinks
<1>7. (F \union {c}) \ {n} = G \union {c}
  OBVIOUS
<1>. HIDE DEF G
<1>8. Chain(m2, head, G \union {c})
  BY <1>3, <1>4, <1>5, <1>6, ChainAfter
<1>. QED  BY <1>7, <1>8
-----------------------------------------------------------------------------
\* The words of the chunk at c, and those of the chunks A.
Within(m, c) == c..(c + m[c] - 1)
Cover(m, A) == UNION {Within(m, c) : c \in A}

\* The chunks are apart.
LEMMA Apart ==
  ASSUME NEW m \in [Words -> Int], NEW A, Tiles(m, A)
  PROVE  /\ \A c \in A : /\ c \in Nat /\ c # Null /\ c \in Words /\ c + 1 \in Words
                         /\ m[c] \in Int /\ m[c] >= 2 /\ c + m[c] <= End
                         /\ Within(m, c) \subseteq Words
                         /\ c \in Within(m, c) /\ c + 1 \in Within(m, c)
         /\ \A c, d \in A : c < d => c + m[c] <= d
         /\ \A c, d \in A : c # d => Within(m, c) \intersect Within(m, d) = {}
         /\ Cover(m, A) = Words
<1>0. /\ Words \subseteq Nat /\ Null \notin Words /\ End \in Nat /\ Base \in Nat
      /\ \A w : w \in Words <=> w \in Int /\ Base <= w /\ w < End
  BY WordsAreNumbers
<1>1. ASSUME NEW c \in A
      PROVE  /\ c \in Nat /\ c # Null /\ c \in Words /\ c + 1 \in Words
             /\ m[c] \in Int /\ m[c] >= 2 /\ c + m[c] <= End
             /\ Within(m, c) \subseteq Words
             /\ c \in Within(m, c) /\ c + 1 \in Within(m, c)
  <2>1. c \in Words /\ m[c] >= 2 /\ c + m[c] <= End
    BY DEF Tiles
  <2>2. c \in Nat /\ c # Null /\ m[c] \in Int /\ Base <= c
    BY <1>0, <2>1
  <2>. QED  BY <1>0, <2>1, <2>2 DEF Within
<1>2. \A c, d \in A : c < d => c + m[c] <= d
  BY DEF Tiles
<1>3. ASSUME NEW c \in A, NEW d \in A, c # d
      PROVE  Within(m, c) \intersect Within(m, d) = {}
  <2>1. c \in Nat /\ d \in Nat /\ m[c] \in Int /\ m[d] \in Int
    BY <1>1
  <2>2. c + m[c] <= d \/ d + m[d] <= c
    BY <1>2, <1>3, <2>1
  <2>. QED  BY <2>1, <2>2 DEF Within
<1>4. ASSUME NEW w \in Words
      PROVE  w \in Cover(m, A)
  <2>1. PICK c \in A : c <= w /\ w < c + m[c]
    BY DEF Tiles
  <2>2. w \in Within(m, c)
    BY <1>0, <1>1, <2>1 DEF Within
  <2>. QED  BY <2>1, <2>2 DEF Cover
<1>5. Cover(m, A) \subseteq Words
  BY <1>1 DEF Cover
<1>. QED  BY <1>1, <1>2, <1>3, <1>4, <1>5

\* A block whose chunk keeps its words is as it was.
LEMMA HoldsFrame ==
  ASSUME NEW m \in [Words -> Int], NEW m2 \in [Words -> Int], NEW A, Tiles(m, A),
         NEW b \in Blocks, Holds(m, b), Header(m, b.addr) \in A,
         \A w \in Within(m, Header(m, b.addr)) : m2[w] = m[w]
  PROVE  /\ Holds(m2, b) /\ Header(m2, b.addr) = Header(m, b.addr)
         /\ m2[Header(m, b.addr)] = m[Header(m, b.addr)]
<1>. DEFINE c == Header(m, b.addr)
<1>1. c \in Nat /\ m[c] \in Int /\ m[c] >= 2 /\ c \in Within(m, c)
  BY Apart
<1>2. /\ c < b.addr /\ b.addr < c + m[c] /\ b.addr + b.bytes <= c + m[c]
      /\ b.addr % b.align = 0
      /\ \A w \in b.addr..(b.addr + b.bytes - 1) : m[w] = Data
  BY DEF Holds
<1>3. b.addr \in Nat /\ b.bytes \in Nat
  BY WordsAreNumbers, RequestAssumption DEF Blocks
<1>4. b.addr - 1 \in Within(m, c)
  <2>. HIDE DEF c
  <2>. QED  BY <1>1, <1>2, <1>3 DEF Within
<1>5. Header(m2, b.addr) = c
  BY <1>4 DEF Header
<1>6. m2[c] = m[c]
  BY <1>1
<1>7. \A w \in b.addr..(b.addr + b.bytes - 1) : w \in Within(m, c)
  <2>. HIDE DEF c
  <2>. QED  BY <1>1, <1>2, <1>3 DEF Within
<1>8. \A w \in b.addr..(b.addr + b.bytes - 1) : m2[w] = Data
  BY <1>2, <1>7
<1>. HIDE DEF c
<1>9. Holds(m2, b)
  BY <1>2, <1>5, <1>6, <1>8 DEF Holds
<1>. QED  BY <1>5, <1>6, <1>9 DEF c

\* What m2 writes is inside the chunks B of m; the blocks L are as they were.
Inside(m, m2, B) == \A w \in Words : m2[w] = m[w] \/ w \in Cover(m, B)

Kept(m, m2, L) ==
  /\ \A b \in L : /\ Holds(m2, b) /\ Header(m2, b.addr) = Header(m, b.addr)
                 /\ m2[Header(m, b.addr)] = m[Header(m, b.addr)]
  /\ Heads(m2, L) = Heads(m, L)
  /\ \A c \in Heads(m, L) : m2[c] = m[c]
  /\ Cover(m2, Heads(m, L)) = Cover(m, Heads(m, L))

\* What is written inside the chunks that no caller holds leaves the blocks
\* as they are.
LEMMA BlocksFrame ==
  ASSUME NEW m, NEW head, NEW F, NEW X, NEW L, Layout(m, head, F, X, L),
         NEW m2 \in [Words -> Int], Inside(m, m2, F \union X)
  PROVE  Kept(m, m2, L)
<1>. DEFINE A == Parts(m, F, X, L)
<1>1. m \in [Words -> Int] /\ L \subseteq Blocks /\ Tiles(m, A)
  BY DEF Layout
<1>2. ASSUME NEW b \in L
      PROVE  /\ Holds(m2, b) /\ Header(m2, b.addr) = Header(m, b.addr)
             /\ m2[Header(m, b.addr)] = m[Header(m, b.addr)]
  <2>. DEFINE c == Header(m, b.addr)
  <2>1. b \in Blocks /\ Holds(m, b) /\ c \in A /\ c \notin F \union X
    BY DEF Layout, Heads, Parts
  <2>2. ASSUME NEW w \in Within(m, c)
        PROVE  m2[w] = m[w]
    <3>1. w \in Words
      BY <1>1, <2>1, Apart
    <3>2. \A d \in F \union X : w \notin Within(m, d)
      <4>. SUFFICES ASSUME NEW d \in F \union X, w \in Within(m, d)
                    PROVE  FALSE
        OBVIOUS
      <4>1. d \in A /\ d # c
        BY <2>1 DEF Parts
      <4>. HIDE DEF A, c
      <4>2. Within(m, c) \intersect Within(m, d) = {}
        BY <1>1, <2>1, <4>1, Apart
      <4>. QED  BY <4>2
    <3>. QED  BY <3>1, <3>2 DEF Inside, Cover
  <2>. HIDE DEF A
  <2>. QED  BY <1>1, <2>1, <2>2, HoldsFrame
<1>3. Heads(m2, L) = Heads(m, L)
  BY <1>2 DEF Heads
<1>4. \A c \in Heads(m, L) : m2[c] = m[c]
  BY <1>2 DEF Heads
<1>5. Cover(m2, Heads(m, L)) = Cover(m, Heads(m, L))
  BY <1>4 DEF Cover, Within
<1>. QED  BY <1>2, <1>3, <1>4, <1>5 DEF Kept

\* The words of the free chunks are those of no other chunk.
LEMMA FreeWords ==
  ASSUME NEW m, NEW head, NEW F, NEW X, NEW L, Layout(m, head, F, X, L)
  PROVE  /\ Cover(m, F) = Words \ (Cover(m, X) \union Cover(m, Heads(m, L)))
         /\ Cover(m, X) \intersect Cover(m, Heads(m, L)) = {}
<1>. DEFINE A == Parts(m, F, X, L)
<1>1. m \in [Words -> Int] /\ Tiles(m, A)
  BY DEF Layout
<1>2. /\ \A c, d \in A : c # d => Within(m, c) \intersect Within(m, d) = {}
      /\ Cover(m, A) = Words
  <2>. HIDE DEF A
  <2>. QED  BY <1>1, Apart
<1>3. Cover(m, A) = Cover(m, F) \union Cover(m, X) \union Cover(m, Heads(m, L))
  BY DEF Cover, Parts
<1>4. F \intersect X = {} /\ \A c \in Heads(m, L) : c \notin F \union X
  BY DEF Layout, Heads
<1>5. ASSUME NEW B \in SUBSET A, NEW C \in SUBSET A, B \intersect C = {}
      PROVE  Cover(m, B) \intersect Cover(m, C) = {}
  BY <1>2, <1>5 DEF Cover
<1>6. /\ Cover(m, F) \intersect Cover(m, X) = {}
      /\ Cover(m, F) \intersect Cover(m, Heads(m, L)) = {}
      /\ Cover(m, X) \intersect Cover(m, Heads(m, L)) = {}
  BY <1>4, <1>5 DEF Parts
<1>. QED  BY <1>2, <1>3, <1>6
-----------------------------------------------------------------------------
\* What a layout says of one chunk and of two.
LEMMA LayoutFacts ==
  ASSUME NEW m, NEW head, NEW F, NEW X, NEW L, Layout(m, head, F, X, L)
  PROVE  /\ m \in [Words -> Int] /\ L \subseteq Blocks /\ Tiles(m, Parts(m, F, X, L))
         /\ Chain(m, head, F) /\ Gaps(m, F) /\ X \intersect F = {}
         /\ F \subseteq Parts(m, F, X, L) /\ X \subseteq Parts(m, F, X, L)
         /\ Heads(m, L) \subseteq Parts(m, F, X, L)
         /\ F \subseteq Words /\ F \subseteq Nat /\ Null \notin F
         /\ Heads(m, L) \intersect (F \union X) = {}
         /\ \A c \in Parts(m, F, X, L) : /\ c \in Nat /\ c # Null /\ c \in Words /\ c + 1 \in Words
                         /\ m[c] \in Int /\ m[c] >= 2 /\ c + m[c] <= End
                         /\ Within(m, c) \subseteq Words
                         /\ c \in Within(m, c) /\ c + 1 \in Within(m, c)
         /\ \A c, d \in Parts(m, F, X, L) : c < d => c + m[c] <= d
         /\ \A c, d \in Parts(m, F, X, L) : c # d => /\ c # d + 1
                                     /\ Within(m, c) \intersect Within(m, d) = {}
<1>1. /\ m \in [Words -> Int] /\ L \subseteq Blocks /\ Tiles(m, Parts(m, F, X, L))
      /\ Chain(m, head, F) /\ Gaps(m, F) /\ X \intersect F = {}
  BY DEF Layout
<1>2. /\ F \subseteq Parts(m, F, X, L) /\ X \subseteq Parts(m, F, X, L)
      /\ Heads(m, L) \subseteq Parts(m, F, X, L)
  BY DEF Parts
<1>3. Heads(m, L) \intersect (F \union X) = {}
  BY DEF Layout, Heads
<1>4. /\ \A c \in Parts(m, F, X, L) : /\ c \in Nat /\ c # Null /\ c \in Words /\ c + 1 \in Words
                      /\ m[c] \in Int /\ m[c] >= 2 /\ c + m[c] <= End
                      /\ Within(m, c) \subseteq Words
                      /\ c \in Within(m, c) /\ c + 1 \in Within(m, c)
      /\ \A c, d \in Parts(m, F, X, L) : c < d => c + m[c] <= d
      /\ \A c, d \in Parts(m, F, X, L) : c # d => Within(m, c) \intersect Within(m, d) = {}
  BY <1>1, Apart
<1>5. \A c, d \in Parts(m, F, X, L) : c # d => c # d + 1
  BY <1>4
<1>6. F \subseteq Words /\ F \subseteq Nat /\ Null \notin F
  BY <1>2, <1>4
<1>. QED  BY <1>1, <1>2, <1>3, <1>4, <1>5, <1>6

\* The links of the free chunks are words of their own.
LEMMA LinkWords ==
  ASSUME NEW m, NEW head, NEW F, NEW X, NEW L, Layout(m, head, F, X, L)
  PROVE  \A c \in F : /\ m[c + 1] \in F \union {Null} /\ m[c + 1] \in Int
                      /\ m[c + 1] >= 0
                      /\ \A d \in F : c # d => c + 1 # d + 1 /\ d # c + 1
<1>1. /\ Chain(m, head, F) /\ F \subseteq Nat
      /\ \A c, d \in F : c # d => c # d + 1
  BY LayoutFacts
<1>2. ASSUME NEW c \in F
      PROVE  m[c + 1] \in F \union {Null} /\ m[c + 1] \in Nat
  <2>1. m[c + 1] \in F \union {Null}
    BY <1>1 DEF Chain
  <2>2. Null \in Nat
    BY DEF Null
  <2>. QED  BY <1>1, <2>1, <2>2
<1>. QED  BY <1>1, <1>2

\* The chunk c is in hand.
Hand(m, head, F, c, L) == Layout(m, head, F, {c}, L)

\* The arena after HandOut, and the block.
Filled(m, c, bytes, align) ==
  LET p == Payload(m, c, bytes, align) IN
  [w \in Words |-> IF w \in p.addr..(p.addr + bytes - 1) THEN Data ELSE p.mem[w]]
Block(m, c, bytes, align) ==
  [addr |-> Payload(m, c, bytes, align).addr, bytes |-> bytes, align |-> align]

\* A chunk large enough for a request becomes a block.
LEMMA HandOutLayout ==
  ASSUME NEW m, NEW head, NEW F, NEW c, NEW L, Hand(m, head, F, c, L),
         NEW bytes \in Sizes, NEW align \in Alignments,
         m[c] >= AllocSize(bytes, align)
  PROVE  /\ Layout(Filled(m, c, bytes, align), head, F, {},
                   L \union {Block(m, c, bytes, align)})
         /\ Block(m, c, bytes, align) \notin L
         /\ Cover(Filled(m, c, bytes, align), F) = Cover(m, F)
<1>. DEFINE p == Payload(m, c, bytes, align)
            m2 == Filled(m, c, bytes, align)
            b == Block(m, c, bytes, align)
<1>c. /\ p = Payload(m, c, bytes, align)
      /\ m2 = [w \in Words |-> IF w \in p.addr..(p.addr + bytes - 1)
                               THEN Data ELSE p.mem[w]]
      /\ b = [addr |-> p.addr, bytes |-> bytes, align |-> align]
  BY DEF Filled, Block
<1>. HIDE DEF p, m2, b
<1>. DEFINE X == {c}
            A == Parts(m, F, X, L)
<1>0. /\ Words \subseteq Nat /\ End \in Nat /\ Base \in Nat /\ Total \in Nat
      /\ \A w : w \in Words <=> w \in Int /\ Base <= w /\ w < End
  BY WordsAreNumbers
<1>a. Layout(m, head, F, X, L) /\ c \in X
  BY DEF Hand
<1>. HIDE DEF X, A
<1>b. /\ m \in [Words -> Int] /\ L \subseteq Blocks /\ Tiles(m, A)
      /\ Chain(m, head, F) /\ Gaps(m, F) /\ X \intersect F = {}
      /\ F \subseteq Words /\ F \subseteq Nat
      /\ Heads(m, L) \intersect (F \union X) = {}
      /\ F \subseteq A /\ X \subseteq A /\ Heads(m, L) \subseteq A
      /\ \A d \in A : /\ d \in Nat /\ d \in Words /\ d + 1 \in Words
                      /\ m[d] \in Int /\ m[d] >= 2 /\ d + m[d] <= End
                      /\ Within(m, d) \subseteq Words
                      /\ d \in Within(m, d) /\ d + 1 \in Within(m, d)
      /\ \A d, e \in A : d # e => Within(m, d) \intersect Within(m, e) = {}
  BY <1>a, LayoutFacts DEF A
<1>1. c \in A /\ c \notin F /\ c \notin Heads(m, L)
  BY <1>a, <1>b
<1>2. c \in A /\ c \in Nat /\ m[c] \in Int /\ m[c] >= 2 /\ Within(m, c) \subseteq Words
  BY <1>b, <1>1 DEF A, Parts
<1>3. bytes \in Nat /\ align \in Nat /\ align >= 1
  BY RequestAssumption
<1>4. m[c] >= bytes + align /\ m[c] >= align + 1
  BY <1>2, <1>3 DEF AllocSize, Padding, MinChunk, LargerOf, ChunkOffset, BlockMinSize
<1>. DEFINE start == c + 1
            a == CHOOSE a \in start..(start + align - 1) : a % align = 0
<1>5. a \in start..(start + align - 1) /\ a % align = 0
  <2>1. \E x \in start..(start + align - 1) : x % align = 0
    <3>. DEFINE r == start % align
    <3>1. r \in 0..(align - 1) /\ start = align * (start \div align) + r
      BY <1>2, <1>3
    <3>2. CASE r = 0
      BY <1>2, <1>3, <3>2
    <3>3. CASE r # 0
      <4>1. start + (align - r) \in start..(start + align - 1)
        BY <1>2, <1>3, <3>1, <3>3
      <4>2. (start + (align - r)) % align = 0
        <5>. DEFINE q == start \div align
        <5>1. q \in Int /\ start + (align - r) = align * q + align
          BY <1>2, <1>3, <3>1
        <5>2. align * q + align = align * (q + 1)
          BY <1>3, <5>1
        <5>3. (align * (q + 1)) % align = 0
          BY <1>3, <5>1
        <5>. QED  BY <5>1, <5>2, <5>3
      <4>. QED  BY <4>1, <4>2
    <3>. QED  BY <3>2, <3>3
  <2>. QED  BY <2>1
<1>. HIDE DEF a
<1>6. a \in Nat /\ c < a /\ a < c + m[c] /\ a + bytes <= c + m[c]
  BY <1>2, <1>3, <1>4, <1>5
<1>7. p = [addr |-> a, mem |-> IF a = start THEN m ELSE [m EXCEPT ![a - 1] = start - a]]
  <2>. DEFINE a2 == CHOOSE x \in (c + 1)..(c + 1 + align - 1) : x % align = 0
  <2>1. a2 = a
    BY DEF a
  <2>. HIDE DEF a2
  <2>2. a - (c + 1) + bytes <= m[c] - 1
    BY <1>2, <1>3, <1>6
  <2>3. p = LET addr == IF a2 - (c + 1) + bytes <= m[c] - 1 THEN a2 ELSE c + 1 IN
            [addr |-> addr,
             mem |-> IF addr = c + 1 THEN m ELSE [m EXCEPT ![addr - 1] = (c + 1) - addr]]
    BY <1>c DEF Payload, ChunkOffset, a2
  <2>. QED  BY <2>1, <2>2, <2>3
<1>8. a \in Words /\ a - 1 \in Words /\ \A w \in a..(a + bytes - 1) : w \in Within(m, c)
  <2>1. a \in Within(m, c) /\ a - 1 \in Within(m, c)
    BY <1>2, <1>6 DEF Within
  <2>2. \A w \in a..(a + bytes - 1) : w \in Within(m, c)
    BY <1>2, <1>3, <1>6 DEF Within
  <2>. QED  BY <1>2, <2>1, <2>2
<1>9. /\ p.addr = a /\ p.mem \in [Words -> Int]
      /\ p.mem[a - 1] = IF a = start THEN m[c] ELSE start - a
      /\ \A w \in Words : p.mem[w] = m[w] \/ (w = a - 1 /\ a # start)
  BY <1>b, <1>1, <1>2, <1>7, <1>8
<1>10. Data \in Int
  BY <1>0 DEF Data
<1>11. m2 \in [Words -> Int]
  BY <1>9, <1>10, <1>c
<1>12. \A w \in Words : m2[w] = m[w] \/ w \in a..(a + bytes - 1) \/ (w = a - 1 /\ a # start)
  BY <1>9, <1>c
<1>13. \A w \in Words : m2[w] = m[w] \/ w \in Within(m, c)
  <2>1. a # start => a - 1 \in Within(m, c)
    BY <1>2, <1>6 DEF Within
  <2>. QED  BY <1>8, <1>12, <2>1
<1>14. /\ \A d \in L : /\ Holds(m2, d) /\ Header(m2, d.addr) = Header(m, d.addr)
       /\ Heads(m2, L) = Heads(m, L)
       /\ \A d \in Heads(m, L) : m2[d] = m[d]
  <2>1. Inside(m, m2, F \union X)
    BY <1>a, <1>13 DEF Inside, Cover
  <2>2. Kept(m, m2, L)
    BY <1>a, <1>11, <2>1, BlocksFrame
  <2>. QED  BY <2>2 DEF Kept
<1>15. m2[c] = m[c]
  <2>1. c \in Words /\ c \notin a..(a + bytes - 1) /\ ~ (c = a - 1 /\ a # start)
    BY <1>b, <1>1, <1>2, <1>3, <1>6
  <2>. QED  BY <1>12, <2>1
<1>16. \A d \in F : m2[d] = m[d] /\ m2[d + 1] = m[d + 1]
  <2>. SUFFICES ASSUME NEW d \in F
                PROVE  m2[d] = m[d] /\ m2[d + 1] = m[d + 1]
    OBVIOUS
  <2>1. d # c /\ d \in A
    BY <1>b, <1>1
  <2>2. d \notin Within(m, c) /\ d + 1 \notin Within(m, c) /\ d \in Words /\ d + 1 \in Words
    BY <1>b, <1>1, <1>2, <2>1
  <2>. QED  BY <1>13, <2>2
<1>17. Header(m2, a) = c
  <2>1. a - 1 \in Words /\ a - 1 \notin a..(a + bytes - 1)
    BY <1>3, <1>6, <1>8
  <2>2. m2[a - 1] = IF a = start THEN m[c] ELSE start - a
    BY <1>9, <1>c, <2>1
  <2>3. CASE a = start
    <3>1. a - 1 = c /\ ~ (m2[a - 1] < 0)
      BY <1>2, <2>2, <2>3
    <3>. QED  BY <3>1 DEF Header
  <2>4. CASE a # start
    <3>1. m2[a - 1] = start - a /\ start - a < 0 /\ (a - 1) + (start - a) = c
      BY <1>2, <1>6, <2>2, <2>4
    <3>. QED  BY <3>1 DEF Header
  <2>. QED  BY <2>3, <2>4
<1>18. b \in Blocks
  BY <1>8, <1>9, <1>c DEF Blocks
<1>19. b.addr = a /\ b.bytes = bytes /\ b.align = align
  BY <1>9, <1>c
<1>20. Holds(m2, b)
  <2>1. \A w \in a..(a + bytes - 1) : m2[w] = Data
    BY <1>2, <1>8, <1>9, <1>c
  <2>. QED  BY <1>5, <1>6, <1>15, <1>17, <1>19, <2>1 DEF Holds
<1>21. \A d \in L : Header(m2, d.addr) \in Heads(m, L)
  BY <1>14 DEF Heads
<1>22. b \notin L
  BY <1>b, <1>1, <1>17, <1>19, <1>21
<1>23. Heads(m2, L \union {b}) = Heads(m, L) \union {c}
  BY <1>14, <1>17, <1>19 DEF Heads
<1>24. Tiles(m2, Parts(m2, F, {}, L \union {b}))
  <2>1. \A d \in A : m2[d] = m[d]
    BY <1>14, <1>15, <1>16 DEF A, Parts, X
  <2>2. A = Parts(m2, F, {}, L \union {b})
    BY <1>23 DEF A, Parts, X
  <2>4. Tiles(m, A)
    BY <1>b
  <2>3. Tiles(m2, A)
    BY <2>1, <2>4, TilesFrame
  <2>. QED  BY <2>2, <2>3
<1>25. Chain(m2, head, F)
  <2>1. SameLinks(m, m2, F)
    BY <1>16 DEF SameLinks
  <2>. QED  BY <1>b, <2>1, ChainFrame
<1>26. Gaps(m2, F)
  BY <1>b, <1>1, <1>16 DEF Gaps
<1>27. \A d \in L \union {b} : Holds(m2, d) /\ Header(m2, d.addr) \notin F \union {}
  BY <1>b, <1>1, <1>14, <1>17, <1>19, <1>20, <1>21
<1>28. \A d, e \in L \union {b} : Header(m2, d.addr) = Header(m2, e.addr) => d = e
  <2>1. \A d, e \in L : Header(m2, d.addr) = Header(m2, e.addr) => d = e
    BY <1>14 DEF Layout, Hand
  <2>2. \A d \in L : Header(m2, d.addr) # c
    BY <1>b, <1>1, <1>21
  <2>. QED  BY <1>17, <1>19, <2>1, <2>2
<1>29. Cover(m2, F) = Cover(m, F)
  BY <1>16 DEF Cover, Within
<1>. QED
  BY <1>b, <1>1, <1>11, <1>18, <1>22, <1>24, <1>25, <1>26, <1>27, <1>28, <1>29
  DEF Layout, m2, b

\* The top of a free chunk is cut off it.
LEMMA SplitLayout ==
  ASSUME NEW m, NEW head, NEW F, NEW L, Layout(m, head, F, {}, L),
         NEW c \in F, NEW top \in Int, c + 2 <= top, top + 2 <= c + m[c],
         NEW m2 \in [Words -> Int], m2[c] = top - c, m2[top] = (c + m[c]) - top,
         \A w \in Words \ {c, top} : m2[w] = m[w]
  PROVE  /\ Layout(m2, head, F, {top}, L)
         /\ Cover(m2, F) = Cover(m, F) \ Within(m2, top)
         /\ Within(m2, top) \subseteq Cover(m, F)
<1>. DEFINE X == {}
            A == Parts(m, F, X, L)
            Y == {top}
<1>a. Layout(m, head, F, X, L) /\ X = {} /\ Y = {top}
  OBVIOUS
<1>. HIDE DEF X, A, Y
<1>b. /\ m \in [Words -> Int] /\ L \subseteq Blocks /\ Tiles(m, A)
      /\ Chain(m, head, F) /\ Gaps(m, F)
      /\ F \subseteq Words /\ F \subseteq Nat
      /\ Heads(m, L) \intersect (F \union X) = {}
      /\ F \subseteq A /\ Heads(m, L) \subseteq A
      /\ \A d \in A : /\ d \in Nat /\ d \in Words /\ d + 1 \in Words
                      /\ m[d] \in Int /\ m[d] >= 2 /\ d + m[d] <= End
                      /\ Within(m, d) \subseteq Words
                      /\ d \in Within(m, d) /\ d + 1 \in Within(m, d)
      /\ \A d, e \in A : d # e => Within(m, d) \intersect Within(m, e) = {}
  BY <1>a, LayoutFacts DEF A
<1>1. c \in A /\ c \in Nat /\ m[c] \in Int /\ c \in Words
  BY <1>b
<1>2. /\ top \in Int /\ top # c /\ c + 2 <= top /\ top + 2 <= c + m[c]
      /\ top \in Within(m, c) /\ top + 1 \in Within(m, c) /\ c \in Within(m, c)
  BY <1>1 DEF Within
<1>3. top \in Words
  BY <1>b, <1>1, <1>2
<1>4. /\ m2 \in [Words -> Int] /\ m2[c] = top - c /\ m2[top] = (c + m[c]) - top
      /\ \A w \in Words \ {c, top} : m2[w] = m[w]
  OBVIOUS
<1>5. \A w \in Words : m2[w] = m[w] \/ w \in Within(m, c)
  BY <1>2, <1>4
<1>6. /\ \A b \in L : /\ Holds(m2, b) /\ Header(m2, b.addr) = Header(m, b.addr)
                      /\ m2[Header(m, b.addr)] = m[Header(m, b.addr)]
      /\ Heads(m2, L) = Heads(m, L)
      /\ \A d \in Heads(m, L) : m2[d] = m[d]
      /\ Cover(m2, Heads(m, L)) = Cover(m, Heads(m, L))
  <2>1. Inside(m, m2, F \union X)
    BY <1>5 DEF Inside, Cover
  <2>2. Kept(m, m2, L)
    BY <1>a, <2>1, BlocksFrame
  <2>. QED  BY <2>2 DEF Kept
<1>7. \A d \in F \ {c} : m2[d] = m[d] /\ m2[d + 1] = m[d + 1]
  <2>. SUFFICES ASSUME NEW d \in F \ {c}
                PROVE  m2[d] = m[d] /\ m2[d + 1] = m[d + 1]
    OBVIOUS
  <2>1. d \in A
    BY <1>b
  <2>2. d \notin Within(m, c) /\ d + 1 \notin Within(m, c) /\ d \in Words /\ d + 1 \in Words
    BY <1>b, <1>1, <2>1
  <2>. QED  BY <1>5, <2>2
<1>8. m2[c + 1] = m[c + 1]
  BY <1>b, <1>1, <1>2, <1>4
<1>9. Tiles(m2, A \union {top}) /\ top \notin A
  <2>1. \A d \in A \ {c} : m2[d] = m[d]
    BY <1>a, <1>6, <1>7 DEF A, Parts
  <2>3. top \in Int /\ c + 2 <= top /\ top + 2 <= c + m[c] /\ c \in A
    BY <1>1, <1>2
  <2>4. Tiles(m, A) /\ m \in [Words -> Int]
    BY <1>b
  <2>. QED  BY <1>4, <2>1, <2>3, <2>4, SplitTiles
<1>10. Tiles(m2, Parts(m2, F, Y, L))
  <2>1. A \union {top} = Parts(m2, F, Y, L)
    BY <1>a, <1>6 DEF A, Parts
  <2>. QED  BY <1>9, <2>1
<1>11. Chain(m2, head, F)
  <2>1. SameLinks(m, m2, F)
    BY <1>7, <1>8 DEF SameLinks
  <2>. QED  BY <1>b, <2>1, ChainFrame
<1>12. Gaps(m2, F)
  <2>. SUFFICES ASSUME NEW d \in F, NEW e \in F, d < e
                PROVE  d + m2[d] < e
    BY DEF Gaps
  <2>1. d + m[d] < e
    BY <1>b DEF Gaps
  <2>2. CASE d = c
    <3>1. e \in Nat
      BY <1>b
    <3>. QED  BY <1>1, <1>4, <2>1, <2>2, <3>1
  <2>. QED  BY <1>7, <2>1, <2>2
<1>13. \A d \in L : Header(m2, d.addr) \notin F \union Y
  <2>1. \A d \in L : Header(m, d.addr) \in Heads(m, L)
    BY DEF Heads
  <2>2. Heads(m, L) \intersect F = {} /\ top \notin Heads(m, L)
    BY <1>b, <1>9
  <2>. QED  BY <1>a, <1>6, <2>1, <2>2
<1>14. \A d, e \in L : Header(m2, d.addr) = Header(m2, e.addr) => d = e
  BY <1>6 DEF Layout
<1>15. Y \intersect F = {}
  BY <1>a, <1>b, <1>9
<1>16. Layout(m2, head, F, Y, L)
  BY <1>b, <1>4, <1>6, <1>10, <1>11, <1>12, <1>13, <1>14, <1>15 DEF Layout
<1>17. /\ Cover(m2, F) = Words \ (Cover(m2, Y) \union Cover(m2, Heads(m2, L)))
       /\ Cover(m2, Y) \intersect Cover(m2, Heads(m2, L)) = {}
  BY <1>16, FreeWords
<1>20. Cover(m, F) = Words \ (Cover(m, X) \union Cover(m, Heads(m, L)))
  BY <1>a, FreeWords
<1>18. Cover(m2, Y) = Within(m2, top) /\ Cover(m, X) = {}
  BY <1>a DEF Cover
<1>19. Within(m2, top) \subseteq Words
  <2>1. top \in Parts(m2, F, Y, L)
    BY <1>a DEF Parts
  <2>. QED  BY <1>16, <2>1, LayoutFacts
<1>. QED  BY <1>a, <1>4, <1>6, <1>16, <1>17, <1>18, <1>19, <1>20

\* A free chunk leaves the list: the first one, or the one after p.
Unlinks(m, head, m2, head2, F, c) ==
  \/ c = head /\ head2 = m[c + 1] /\ \A w \in Words : m2[w] = m[w]
  \/ /\ head2 = head
     /\ \E p \in F : /\ m[p + 1] = c /\ m2[p + 1] = m[c + 1]
                     /\ \A w \in Words \ {p + 1} : m2[w] = m[w]

LEMMA UnlinkLayout ==
  ASSUME NEW m, NEW head, NEW F, NEW L, Layout(m, head, F, {}, L),
         NEW c \in F, NEW m2 \in [Words -> Int], NEW head2,
         Unlinks(m, head, m2, head2, F, c)
  PROVE  /\ Layout(m2, head2, F \ {c}, {c}, L) /\ m2[c] = m[c]
         /\ Cover(m2, F \ {c}) = Cover(m, F) \ Within(m2, c)
         /\ Within(m2, c) \subseteq Cover(m, F)
<1>. DEFINE X == {}
            A == Parts(m, F, X, L)
            Y == {c}
            G == F \ {c}
<1>a. Layout(m, head, F, X, L) /\ X = {} /\ Y = {c} /\ G = F \ {c}
  OBVIOUS
<1>. HIDE DEF X, A, Y, G
<1>b. /\ m \in [Words -> Int] /\ L \subseteq Blocks /\ Tiles(m, A)
      /\ Chain(m, head, F) /\ Gaps(m, F)
      /\ F \subseteq Words /\ F \subseteq Nat /\ Null \notin F
      /\ Heads(m, L) \intersect (F \union X) = {}
      /\ F \subseteq A /\ Heads(m, L) \subseteq A
      /\ \A d \in A : /\ d \in Nat /\ d \in Words /\ d + 1 \in Words
                      /\ m[d] \in Int /\ m[d] >= 2 /\ d + m[d] <= End
                      /\ Within(m, d) \subseteq Words
                      /\ d \in Within(m, d) /\ d + 1 \in Within(m, d)
      /\ \A d, e \in A : d # e => d # e + 1
  BY <1>a, LayoutFacts DEF A
<1>c. \A d \in F : m[d + 1] \in F \union {Null} /\ m[d + 1] \in Int
  BY <1>a, LinkWords
<1>1. /\ m2 \in [Words -> Int] /\ Chain(m2, head2, G)
      /\ \A d \in A : m2[d] = m[d]
      /\ \A w \in Words : m2[w] = m[w] \/ w \in Cover(m, F \union X)
  <2>1. CASE c = head /\ head2 = m[c + 1] /\ \A w \in Words : m2[w] = m[w]
    <3>1. SameLinks(m, m2, F \ {head})
      BY <1>b, <2>1 DEF SameLinks
    <3>2. head \in F
      BY <2>1
    <3>3. Chain(m2, m[head + 1], F \ {head})
      BY <1>b, <3>1, <3>2, ChainPop
    <3>4. \A d \in A : m2[d] = m[d]
      BY <1>b, <2>1
    <3>. QED  BY <1>a, <2>1, <3>3, <3>4
  <2>2. ASSUME head2 = head, NEW p \in F, m[p + 1] = c, m2[p + 1] = m[c + 1],
               \A w \in Words \ {p + 1} : m2[w] = m[w]
        PROVE  /\ Chain(m2, head2, G)
               /\ \A d \in A : m2[d] = m[d]
               /\ \A w \in Words : m2[w] = m[w] \/ w \in Cover(m, F \union X)
    <3>2. p + 1 \in Words /\ p \in A /\ p + 1 \in Within(m, p)
      BY <1>b
    <3>3. /\ m2 \in [Words -> Int] /\ m2[p + 1] = m[c + 1]
          /\ \A w \in Words \ {p + 1} : m2[w] = m[w]
      BY <2>2
    <3>4. ASSUME NEW d \in A
          PROVE  m2[d] = m[d]
      <4>1. d # p + 1
        <5>1. p # p + 1
          BY <1>b, <3>2
        <5>. QED  BY <1>b, <3>2, <5>1
      <4>. QED  BY <1>b, <3>3, <4>1
    <3>5. SameLinks(m, m2, F \ {p, c})
      <4>. SUFFICES ASSUME NEW d \in F \ {p, c}
                    PROVE  m2[d + 1] = m[d + 1]
        BY DEF SameLinks
      <4>1. d + 1 # p + 1 /\ d + 1 \in Words
        BY <1>b, <3>2
      <4>. QED  BY <3>3, <4>1
    <3>6. Chain(m2, head2, G)
      <4>1. Chain(m2, head, F \ {c})
        BY <1>b, <2>2, <3>5, ChainSkip
      <4>. QED  BY <1>a, <2>2, <4>1
    <3>7. p + 1 \in Cover(m, F \union X)
      BY <3>2 DEF Cover
    <3>. QED  BY <3>3, <3>4, <3>6, <3>7
  <2>. QED  BY <2>1, <2>2 DEF Unlinks
<1>2. /\ \A d \in L : Holds(m2, d) /\ Header(m2, d.addr) = Header(m, d.addr)
      /\ Heads(m2, L) = Heads(m, L)
      /\ Cover(m2, Heads(m, L)) = Cover(m, Heads(m, L))
  <2>1. Inside(m, m2, F \union X)
    BY <1>1 DEF Inside
  <2>2. Kept(m, m2, L)
    BY <1>a, <2>1, BlocksFrame
  <2>. QED  BY <2>2 DEF Kept
<1>3. Tiles(m2, Parts(m2, G, Y, L))
  <2>1. A = Parts(m2, G, Y, L)
    BY <1>a, <1>2 DEF A, Parts
  <2>2. Tiles(m, A) /\ \A d \in A : m2[d] = m[d]
    BY <1>b, <1>1
  <2>3. Tiles(m2, A)
    BY <2>2, TilesFrame
  <2>. QED  BY <2>1, <2>3
<1>4. Gaps(m2, G)
  <2>1. \A d \in G : d \in F /\ m2[d] = m[d]
    BY <1>a, <1>b, <1>1
  <2>. QED  BY <1>b, <2>1 DEF Gaps
<1>5. \A d \in L : Header(m2, d.addr) \notin G \union Y
  <2>1. \A d \in L : Header(m, d.addr) \in Heads(m, L)
    BY DEF Heads
  <2>. QED  BY <1>a, <1>b, <1>2, <2>1
<1>6. \A d, e \in L : Header(m2, d.addr) = Header(m2, e.addr) => d = e
  BY <1>2 DEF Layout
<1>7. Layout(m2, head2, G, Y, L)
  BY <1>a, <1>b, <1>1, <1>2, <1>3, <1>4, <1>5, <1>6 DEF Layout
<1>8. /\ Cover(m2, G) = Words \ (Cover(m2, Y) \union Cover(m2, Heads(m2, L)))
      /\ Cover(m2, Y) \intersect Cover(m2, Heads(m2, L)) = {}
  BY <1>7, FreeWords
<1>12. Cover(m, F) = Words \ (Cover(m, X) \union Cover(m, Heads(m, L)))
  BY <1>a, FreeWords
<1>9. Cover(m2, Y) = Within(m2, c) /\ Cover(m, X) = {}
  BY <1>a DEF Cover
<1>10. Within(m2, c) \subseteq Words
  <2>1. c \in Parts(m2, G, Y, L)
    BY <1>a DEF Parts
  <2>. QED  BY <1>7, <2>1, LayoutFacts
<1>11. m2[c] = m[c]
  BY <1>b, <1>1
<1>. QED  BY <1>a, <1>2, <1>7, <1>8, <1>9, <1>10, <1>11, <1>12
-----------------------------------------------------------------------------
\* All chunks: F, c and those of L.
Hands(m, F, c, L) == F \union {c} \union Heads(m, L)

\* What a return of the chunk c must leave behind.
Returned(m, m2, head2, F, F2, c, L) ==
  /\ Layout(m2, head2, F2, {}, L)
  /\ Cover(m2, F2) = Cover(m, F) \union Within(m, c)
  /\ Cover(m, F) \intersect Within(m, c) = {}
  /\ \A w \in Within(m, c) : m2[w] = m[w] \/ m2[w] >= 0

\* It writes into the headers of free chunks, and of c no negative number.
Headers(m, m2, F, c) ==
  \A w \in Words : \/ m2[w] = m[w]
                   \/ w \in {c, c + 1} /\ m2[w] >= 0
                   \/ \E d \in F : w \in {d, d + 1}

\* A return that keeps the tiles, the chain and the gaps.
LEMMA Settle ==
  ASSUME NEW m, NEW head, NEW F, NEW c, NEW L, Hand(m, head, F, c, L),
         NEW m2 \in [Words -> Int], NEW head2, NEW F2 \in SUBSET (F \union {c}),
         Headers(m, m2, F, c), Tiles(m2, F2 \union Heads(m, L)),
         Chain(m2, head2, F2), Gaps(m2, F2)
  PROVE  Returned(m, m2, head2, F, F2, c, L)
<1>. DEFINE X == {c}
            A == Parts(m, F, X, L)
            Y == {}
<1>a. Layout(m, head, F, X, L) /\ X = {c} /\ Y = {}
  BY DEF Hand
<1>c. Layout(m, head, F, X, L)
  BY <1>a
<1>. HIDE DEF X, A, Y
<1>b. /\ L \subseteq Blocks
      /\ Heads(m, L) \intersect (F \union X) = {}
      /\ F \subseteq A /\ X \subseteq A /\ X \intersect F = {}
      /\ \A d \in A : /\ d \in Within(m, d) /\ d + 1 \in Within(m, d)
                      /\ Within(m, d) \subseteq Words
      /\ \A d, e \in A : d # e => Within(m, d) \intersect Within(m, e) = {}
  BY <1>c, LayoutFacts DEF A
<1>1. Inside(m, m2, F \union X)
  <2>. SUFFICES ASSUME NEW w \in Words, m2[w] # m[w]
                PROVE  w \in Cover(m, F \union X)
    BY DEF Inside
  <2>1. PICK d \in F \union X : w \in {d, d + 1}
    BY <1>a DEF Headers
  <2>2. w \in Within(m, d)
    BY <1>b, <2>1
  <2>. QED  BY <2>2 DEF Cover
<1>2. Kept(m, m2, L)
  BY <1>a, <1>1, BlocksFrame
<1>3. /\ \A d \in L : Holds(m2, d) /\ Header(m2, d.addr) = Header(m, d.addr)
      /\ Heads(m2, L) = Heads(m, L)
      /\ Cover(m2, Heads(m, L)) = Cover(m, Heads(m, L))
  BY <1>2 DEF Kept
<1>4. Tiles(m2, Parts(m2, F2, Y, L))
  <2>1. Parts(m2, F2, Y, L) = F2 \union Heads(m, L)
    BY <1>a, <1>3 DEF Parts
  <2>. QED  BY <2>1
<1>5. \A d \in L : Header(m2, d.addr) \notin F2 \union Y
  <2>1. \A d \in L : Header(m, d.addr) \in Heads(m, L)
    BY DEF Heads
  <2>. QED  BY <1>a, <1>b, <1>3, <2>1
<1>6. \A d, e \in L : Header(m2, d.addr) = Header(m2, e.addr) => d = e
  BY <1>3 DEF Layout, Hand
<1>7. Layout(m2, head2, F2, Y, L)
  BY <1>a, <1>b, <1>3, <1>4, <1>5, <1>6 DEF Layout
<1>8. Cover(m2, F2) = Words \ (Cover(m2, Y) \union Cover(m2, Heads(m2, L)))
  BY <1>7, FreeWords
<1>9. /\ Cover(m, F) = Words \ (Cover(m, X) \union Cover(m, Heads(m, L)))
      /\ Cover(m, X) \intersect Cover(m, Heads(m, L)) = {}
  BY <1>a, FreeWords
<1>10. Cover(m, X) = Within(m, c) /\ Cover(m2, Y) = {} /\ Within(m, c) \subseteq Words
  BY <1>a, <1>b DEF Cover
<1>11. \A w \in Within(m, c) : m2[w] = m[w] \/ m2[w] >= 0
  <2>. SUFFICES ASSUME NEW w \in Within(m, c), m2[w] # m[w]
                PROVE  m2[w] >= 0
    OBVIOUS
  <2>1. ~ \E d \in F : w \in {d, d + 1}
    <3>1. \A d \in F : d \in A /\ c \in A /\ d # c
      BY <1>a, <1>b
    <3>. QED  BY <1>b, <3>1
  <2>. QED  BY <1>10, <2>1 DEF Headers
<1>. QED  BY <1>a, <1>3, <1>7, <1>8, <1>9, <1>10, <1>11 DEF Returned

\* What LayoutFacts says of a chunk in hand.
LEMMA InHand ==
  ASSUME NEW m, NEW head, NEW F, NEW c, NEW L, Hand(m, head, F, c, L)
  PROVE  /\ m \in [Words -> Int] /\ Tiles(m, Hands(m, F, c, L)) /\ Chain(m, head, F) /\ Gaps(m, F)
         /\ Hands(m, F, c, L) = F \union {c} \union Heads(m, L) /\ c \in Hands(m, F, c, L)
         /\ F \subseteq Hands(m, F, c, L)
         /\ F \subseteq Words /\ F \subseteq Nat /\ Null \notin F
         /\ c \notin F /\ c \notin Heads(m, L) /\ Heads(m, L) \intersect F = {}
         /\ \A d \in Hands(m, F, c, L) :
                         /\ d \in Nat /\ d # Null /\ d \in Words /\ d + 1 \in Words
                         /\ m[d] \in Int /\ m[d] >= 2
         /\ \A d, e \in Hands(m, F, c, L) : d < e => d + m[d] <= e
         /\ \A d, e \in Hands(m, F, c, L) : d # e => d # e + 1
         /\ \A d \in F : m[d + 1] \in F \union {Null} /\ m[d + 1] \in Int /\ m[d + 1] >= 0
<1>. DEFINE X == {c}
            A == Parts(m, F, X, L)
<1>1. Layout(m, head, F, X, L)
  BY DEF Hand
<1>2. X = {c}
  OBVIOUS
<1>. HIDE DEF X, A
<1>3. /\ m \in [Words -> Int] /\ Tiles(m, A) /\ Chain(m, head, F) /\ Gaps(m, F)
      /\ F \subseteq Words /\ F \subseteq Nat /\ Null \notin F
      /\ X \intersect F = {}
      /\ Heads(m, L) \intersect (F \union X) = {}
      /\ \A d \in A : /\ d \in Nat /\ d # Null /\ d \in Words /\ d + 1 \in Words
                      /\ m[d] \in Int /\ m[d] >= 2
      /\ \A d, e \in A : d < e => d + m[d] <= e
      /\ \A d, e \in A : d # e => d # e + 1
  BY <1>1, LayoutFacts DEF A
<1>4. \A d \in F : m[d + 1] \in F \union {Null} /\ m[d + 1] \in Int /\ m[d + 1] >= 0
  BY <1>1, LinkWords
<1>5. A = Hands(m, F, c, L) /\ A = F \union {c} \union Heads(m, L)
  BY <1>2 DEF A, Parts, Hands
<1>. QED  BY <1>2, <1>3, <1>4, <1>5

\* EmptyList: the only free chunk.
LEMMA ReturnOnly ==
  ASSUME NEW m, NEW head, NEW F, NEW c, NEW L, Hand(m, head, F, c, L),
         F = {}, NEW m2 \in [Words -> Int], m2[c + 1] = Null,
         \A w \in Words \ {c + 1} : m2[w] = m[w]
  PROVE  Returned(m, m2, c, F, {c}, c, L)
<1>. DEFINE A == Hands(m, F, c, L)
<1>. HIDE DEF A
<1>b. /\ Tiles(m, A) /\ c \in A /\ A = F \union {c} \union Heads(m, L)
      /\ \A d \in A : /\ d \in Nat /\ d # Null /\ d \in Words /\ d + 1 \in Words
      /\ \A d, e \in A : d # e => d # e + 1
  BY InHand DEF A
<1>1. c \in A /\ c \in Nat /\ c # Null
  BY <1>b
<1>2. \A d \in A : m2[d] = m[d]
  <2>. SUFFICES ASSUME NEW d \in A
                PROVE  m2[d] = m[d]
    OBVIOUS
  <2>1. d # c + 1 /\ d \in Words
    BY <1>b, <1>1
  <2>. QED  BY <2>1
<1>3. Tiles(m2, {c} \union Heads(m, L))
  <2>1. Tiles(m2, A)
    BY <1>b, <1>2, TilesFrame
  <2>2. A = {c} \union Heads(m, L)
    BY <1>b
  <2>. QED  BY <2>1, <2>2
<1>4. Chain(m2, c, {c})
  BY <1>1 DEF Chain
<1>5. Gaps(m2, {c})
  BY <1>1 DEF Gaps
<1>6. Headers(m, m2, F, c)
  BY DEF Headers, Null
<1>7. {c} \in SUBSET (F \union {c})
  OBVIOUS
<1>. HIDE DEF A
<1>. QED  BY <1>3, <1>4, <1>5, <1>6, <1>7, Settle

\* BeforeHead: in front of the others.
LEMMA ReturnBefore ==
  ASSUME NEW m, NEW head, NEW F, NEW c, NEW L, Hand(m, head, F, c, L),
         head # Null, c < head, c + m[c] # head,
         NEW m2 \in [Words -> Int], m2[c + 1] = head,
         \A w \in Words \ {c + 1} : m2[w] = m[w]
  PROVE  Returned(m, m2, c, F, F \union {c}, c, L)
<1>. DEFINE A == Hands(m, F, c, L)
<1>. HIDE DEF A
<1>b. /\ Tiles(m, A) /\ Chain(m, head, F) /\ Gaps(m, F)
      /\ A = F \union {c} \union Heads(m, L) /\ c \in A /\ F \subseteq A
      /\ F \subseteq Nat /\ Null \notin F /\ c \notin F
      /\ \A d \in A : /\ d \in Nat /\ d # Null /\ d \in Words /\ d + 1 \in Words
                      /\ m[d] \in Int
      /\ \A d, e \in A : d < e => d + m[d] <= e
      /\ \A d, e \in A : d # e => d # e + 1
  BY InHand DEF A
<1>1. c \in Nat \ {0} /\ head \in F /\ head \in Nat /\ \A d \in F : head <= d /\ c < d
  <2>1. head \in F /\ \A d \in F : head <= d
    BY <1>b DEF Chain
  <2>. QED  BY <1>b, <2>1 DEF Null
<1>2. \A d \in A : m2[d] = m[d]
  <2>. SUFFICES ASSUME NEW d \in A
                PROVE  m2[d] = m[d]
    OBVIOUS
  <2>1. d # c + 1 /\ d \in Words
    BY <1>b, <1>1
  <2>. QED  BY <2>1
<1>3. Tiles(m2, F \union {c} \union Heads(m, L))
  <2>1. Tiles(m, A)
    BY <1>b
  <2>2. Tiles(m2, A)
    BY <1>2, <2>1, TilesFrame
  <2>. QED  BY <1>b, <2>2
<1>4. Chain(m2, c, F \union {c})
  <2>1. SameLinks(m, m2, F)
    <3>. SUFFICES ASSUME NEW d \in F
                  PROVE  m2[d + 1] = m[d + 1]
      BY DEF SameLinks
    <3>1. d + 1 # c + 1 /\ d + 1 \in Words
      BY <1>b, <1>1
    <3>. QED  BY <3>1
  <2>. QED  BY <1>b, <1>1, <2>1, ChainFirst
<1>5. Gaps(m2, F \union {c})
  <2>. SUFFICES ASSUME NEW d \in F \union {c}, NEW e \in F \union {c}, d < e
                PROVE  d + m2[d] < e
    BY DEF Gaps
  <2>1. m2[d] = m[d] /\ e \in F
    BY <1>b, <1>1, <1>2
  <2>2. CASE d \in F
    BY <1>b, <2>1, <2>2 DEF Gaps
  <2>3. CASE d = c
    <3>1. c + m[c] <= head /\ c + m[c] \in Int
      BY <1>b, <1>1
    <3>. QED  BY <1>1, <2>1, <2>3, <3>1
  <2>. QED  BY <2>2, <2>3
<1>6. Headers(m, m2, F, c)
  BY <1>1 DEF Headers
<1>. QED  BY <1>3, <1>4, <1>5, <1>6, Settle

\* One chunk ends where the other starts.
Touches(m, c, d) == c + m[c] = d

\* BeforeHead: in front of the others, joined with the first.
LEMMA ReturnBeforeJoined ==
  ASSUME NEW m, NEW head, NEW F, NEW c, NEW L, Hand(m, head, F, c, L),
         head # Null, c < head, Touches(m, c, head),
         NEW m2 \in [Words -> Int], m2[c] = m[c] + m[head], m2[c + 1] = m[head + 1],
         \A w \in Words \ {c, c + 1} : m2[w] = m[w]
  PROVE  Returned(m, m2, c, F, (F \union {c}) \ {head}, c, L) /\ head \in F
<1>. DEFINE A == Hands(m, F, c, L)
<1>. HIDE DEF A
<1>b. /\ Tiles(m, A) /\ Chain(m, head, F) /\ Gaps(m, F) /\ m \in [Words -> Int]
      /\ A = F \union {c} \union Heads(m, L) /\ c \in A /\ F \subseteq A
      /\ F \subseteq Nat /\ Null \notin F /\ c \notin F /\ Heads(m, L) \intersect F = {}
      /\ \A d \in A : /\ d \in Nat /\ d # Null /\ d \in Words /\ d + 1 \in Words
                      /\ m[d] \in Int /\ m[d] >= 2
      /\ \A d, e \in A : d # e => d # e + 1
      /\ \A d \in F : m[d + 1] \in Int /\ m[d + 1] >= 0
  BY InHand DEF A
<1>1. c \in Nat \ {0} /\ head \in F /\ head \in Nat /\ \A d \in F : head <= d /\ c < d
  <2>1. head \in F /\ \A d \in F : head <= d
    BY <1>b DEF Chain
  <2>. QED  BY <1>b, <2>1 DEF Null
<1>2. \A d \in A \ {c} : m2[d] = m[d]
  <2>. SUFFICES ASSUME NEW d \in A \ {c}
                PROVE  m2[d] = m[d]
    OBVIOUS
  <2>1. d # c + 1 /\ d # c /\ d \in Words
    BY <1>b, <1>1
  <2>. QED  BY <2>1
<1>a. \A d \in F : m2[d + 1] = m[d + 1]
  <2>. SUFFICES ASSUME NEW d \in F
                PROVE  m2[d + 1] = m[d + 1]
    OBVIOUS
  <2>1. d + 1 # c + 1 /\ d + 1 # c /\ d + 1 \in Words
    BY <1>b, <1>1
  <2>. QED  BY <2>1
<1>c. m2[c] \in Int /\ m2[c] >= 0
  BY <1>b, <1>1
<1>3. Tiles(m2, ((F \union {c}) \ {head}) \union Heads(m, L))
  <2>1. Tiles(m2, A \ {head})
    BY <1>b, <1>1, <1>2, MergeTiles DEF Touches
  <2>2. A \ {head} = ((F \union {c}) \ {head}) \union Heads(m, L)
    BY <1>b, <1>1
  <2>. QED  BY <2>1, <2>2
<1>4. Chain(m2, c, (F \union {c}) \ {head})
  <2>1. SameLinks(m, m2, F \ {head})
    BY <1>a DEF SameLinks
  <2>2. F \subseteq Nat /\ Null \notin F /\ head \in F /\ Chain(m, head, F)
    BY <1>b, <1>1
  <2>3. c \in Nat \ {0} /\ \A d \in F \ {head} : c < d
    BY <1>1
  <2>4. c # head /\ m2[c + 1] = m[head + 1]
    BY <1>1
  <2>. QED  BY <2>1, <2>2, <2>3, <2>4, ChainReplaceFirst
<1>5. Gaps(m2, (F \union {c}) \ {head})
  <2>. SUFFICES ASSUME NEW d \in (F \union {c}) \ {head},
                       NEW e \in (F \union {c}) \ {head}, d < e
                PROVE  d + m2[d] < e
    BY DEF Gaps
  <2>1. e \in F /\ e # c
    BY <1>b, <1>1
  <2>2. CASE d \in F
    <3>1. m2[d] = m[d]
      BY <1>b, <1>2, <2>2
    <3>. QED  BY <1>b, <2>1, <2>2, <3>1 DEF Gaps
  <2>3. CASE d = c
    <3>1. head < e
      BY <1>b, <1>1, <2>1
    <3>2. head + m[head] < e /\ m[head] \in Int /\ m[c] \in Int
      BY <1>b, <1>1, <2>1, <3>1 DEF Gaps
    <3>. QED  BY <1>1, <2>3, <3>2 DEF Touches
  <2>. QED  BY <2>2, <2>3
<1>6. Headers(m, m2, F, c)
  <2>1. m2[c + 1] >= 0
    BY <1>b, <1>1
  <2>. QED  BY <1>c, <2>1 DEF Headers
<1>7. (F \union {c}) \ {head} \in SUBSET (F \union {c})
  OBVIOUS
<1>. QED  BY <1>1, <1>3, <1>4, <1>5, <1>6, <1>7, Settle
-----------------------------------------------------------------------------
\* The chunk c between its neighbours on the list; n may be Null.
Between(m, p, c, n) == p <= c /\ m[p + 1] = n /\ (n = Null \/ n > c)

\* What is on either side of c.
LEMMA Neighbours ==
  ASSUME NEW m, NEW head, NEW F, NEW c, NEW L, Hand(m, head, F, c, L),
         NEW p \in F, NEW n, Between(m, p, c, n)
  PROVE  /\ p < c /\ p + m[p] <= c /\ p + m[p] \in Int /\ c + m[c] \in Int
         /\ \A d \in F : \/ d < p /\ d + m[d] < p
                         \/ d = p
                         \/ n # Null /\ n <= d /\ c < d /\ c + m[c] <= d
         /\ n # Null => n \in F /\ n \in Nat /\ c < n /\ c + m[c] <= n
         /\ n \in Nat
<1>. DEFINE A == Hands(m, F, c, L)
<1>. HIDE DEF A
<1>b. /\ Chain(m, head, F) /\ Gaps(m, F) /\ m \in [Words -> Int]
      /\ A = F \union {c} \union Heads(m, L) /\ c \in A /\ F \subseteq A
      /\ F \subseteq Nat /\ c \notin F
      /\ \A d \in A : /\ d \in Nat /\ d \in Words
                      /\ m[d] \in Int /\ m[d] >= 2
      /\ \A d, e \in A : d < e => d + m[d] <= e
  BY InHand DEF A
<1>1. p \in A /\ p \in Nat /\ c \in Nat /\ m[p] \in Int /\ m[c] \in Int /\ p # c
  BY <1>b
<1>2. p < c /\ p + m[p] <= c
  BY <1>b, <1>1 DEF Between
<1>3. /\ n = Null => \A d \in F : d <= p
      /\ n # Null => n \in F /\ p < n /\ \A d \in F : d <= p \/ n <= d
  BY <1>b DEF Between, Chain
<1>4. n # Null => n \in F /\ n \in Nat /\ c < n /\ c + m[c] <= n
  <2>. SUFFICES ASSUME n # Null
                PROVE  n \in F /\ n \in Nat /\ c < n /\ c + m[c] <= n
    OBVIOUS
  <2>1. n \in F /\ n \in Nat /\ n \in A
    BY <1>b, <1>3
  <2>2. c < n
    BY <1>1, <2>1 DEF Between
  <2>. QED  BY <1>b, <2>1, <2>2
<1>5. ASSUME NEW d \in F
      PROVE  \/ d < p /\ d + m[d] < p
             \/ d = p
             \/ n # Null /\ n <= d /\ c < d /\ c + m[c] <= d
  <2>1. d \in Nat /\ d \in A
    BY <1>b
  <2>2. CASE d < p
    BY <1>b, <2>2 DEF Gaps
  <2>3. CASE p < d
    <3>1. n # Null /\ n <= d
      BY <1>1, <1>3, <2>1, <2>3
    <3>2. c < d
      BY <1>1, <1>4, <2>1, <3>1
    <3>. QED  BY <1>b, <2>1, <3>1, <3>2
  <2>. QED  BY <1>1, <2>1, <2>2, <2>3
<1>6. n \in Nat
  BY <1>4 DEF Null
<1>. QED  BY <1>1, <1>2, <1>4, <1>5, <1>6

\* JoinPrevious: joined with p only.
LEMMA ReturnToPrevious ==
  ASSUME NEW m, NEW head, NEW F, NEW c, NEW L, Hand(m, head, F, c, L),
         NEW p \in F, NEW n, Between(m, p, c, n),
         Touches(m, p, c), ~ Touches(m, c, n),
         NEW m2 \in [Words -> Int], m2[p] = m[p] + m[c],
         \A w \in Words \ {p} : m2[w] = m[w]
  PROVE  Returned(m, m2, head, F, F, c, L)
<1>. DEFINE A == Hands(m, F, c, L)
<1>. HIDE DEF A
<1>b. /\ Tiles(m, A) /\ Chain(m, head, F) /\ m \in [Words -> Int]
      /\ A = F \union {c} \union Heads(m, L) /\ c \in A /\ F \subseteq A
      /\ F \subseteq Nat /\ c \notin F /\ c \notin Heads(m, L)
      /\ \A d \in A : d \in Nat /\ d \in Words /\ d + 1 \in Words /\ m[d] \in Int
      /\ \A d, e \in A : d # e => d # e + 1
  BY InHand DEF A
<1>1. p \in A /\ p \in Nat /\ c \in Nat /\ m[p] \in Int /\ m[c] \in Int
  BY <1>b
<1>n. /\ p < c /\ p + m[p] <= c
      /\ \A d \in F : \/ d < p /\ d + m[d] < p
                      \/ d = p
                      \/ n # Null /\ n <= d /\ c < d /\ c + m[c] <= d
      /\ n # Null => n \in F /\ n \in Nat /\ c + m[c] <= n
  BY Neighbours
<1>2. \A d \in A \ {p} : m2[d] = m[d]
  BY <1>b
<1>3. Tiles(m2, F \union Heads(m, L))
  <2>1. Tiles(m2, A \ {c})
    BY <1>b, <1>1, <1>2, MergeTiles DEF Touches
  <2>2. A \ {c} = F \union Heads(m, L)
    BY <1>b
  <2>. QED  BY <2>1, <2>2
<1>4. Chain(m2, head, F)
  <2>1. SameLinks(m, m2, F)
    <3>. SUFFICES ASSUME NEW d \in F
                  PROVE  m2[d + 1] = m[d + 1]
      BY DEF SameLinks
    <3>1. d + 1 # p /\ d + 1 \in Words
      BY <1>b, <1>1
    <3>. QED  BY <3>1
  <2>. QED  BY <1>b, <2>1, ChainFrame
<1>5. Gaps(m2, F)
  <2>. SUFFICES ASSUME NEW d \in F, NEW e \in F, d < e
                PROVE  d + m2[d] < e
    BY DEF Gaps
  <2>1. CASE d # p
    <3>1. m2[d] = m[d] /\ Gaps(m, F)
      BY <1>b, <1>2, <2>1, InHand
    <3>. QED  BY <3>1 DEF Gaps
  <2>2. CASE d = p
    <3>1. e \in Nat /\ n # Null /\ n <= e /\ n \in Nat /\ c + m[c] <= n
      BY <1>b, <1>1, <1>n, <2>2
    <3>2. c + m[c] # n /\ p + m[p] = c
      BY DEF Touches
    <3>. QED  BY <1>1, <2>2, <3>1, <3>2
  <2>. QED  BY <2>1, <2>2
<1>6. Headers(m, m2, F, c)
  BY DEF Headers
<1>. QED  BY <1>3, <1>4, <1>5, <1>6, Settle

\* JoinPrevious: joined with p and with n.
LEMMA ReturnToBoth ==
  ASSUME NEW m, NEW head, NEW F, NEW c, NEW L, Hand(m, head, F, c, L),
         NEW p \in F, NEW n, Between(m, p, c, n), n # Null,
         Touches(m, p, c), Touches(m, c, n),
         NEW m2 \in [Words -> Int], m2[p] = m[p] + m[c] + m[n],
         m2[p + 1] = m[n + 1],
         \A w \in Words \ {p, p + 1} : m2[w] = m[w]
  PROVE  Returned(m, m2, head, F, F \ {n}, c, L) /\ n \in F
<1>. DEFINE A == Hands(m, F, c, L)
<1>. HIDE DEF A
<1>b. /\ Tiles(m, A) /\ Chain(m, head, F) /\ Gaps(m, F) /\ m \in [Words -> Int]
      /\ A = F \union {c} \union Heads(m, L) /\ c \in A /\ F \subseteq A
      /\ F \subseteq Nat /\ Null \notin F /\ c \notin F /\ c \notin Heads(m, L)
      /\ Heads(m, L) \intersect F = {}
      /\ \A d \in A : d \in Nat /\ d \in Words /\ d + 1 \in Words /\ m[d] \in Int
      /\ \A d, e \in A : d # e => d # e + 1
  BY InHand DEF A
<1>1. p \in A /\ p \in Nat /\ c \in Nat /\ m[p] \in Int /\ m[c] \in Int
  BY <1>b
<1>n. /\ p < c /\ n \in F /\ n \in Nat /\ c < n
      /\ \A d \in F : \/ d < p /\ d + m[d] < p
                      \/ d = p
                      \/ n # Null /\ n <= d
  BY Neighbours
<1>2. n \in A /\ m[n] \in Int /\ p # n /\ p # c /\ c # n
  BY <1>b, <1>1, <1>n
<1>3. \A d \in A \ {p} : m2[d] = m[d]
  <2>. SUFFICES ASSUME NEW d \in A \ {p}
                PROVE  m2[d] = m[d]
    OBVIOUS
  <2>1. d # p + 1 /\ d \in Words
    BY <1>b, <1>1
  <2>. QED  BY <2>1
<1>4. Tiles(m2, (F \ {n}) \union Heads(m, L))
  <2>. DEFINE m1 == [m EXCEPT ![p] = m[p] + m[c]]
              B == A \ {c}
  <2>1. m1 \in [Words -> Int] /\ m1[p] = m[p] + m[c] /\ \A d \in A \ {p} : m1[d] = m[d]
    BY <1>b, <1>1
  <2>. HIDE DEF m1
  <2>2. Tiles(m1, B)
    <3>1. p + m[p] = c /\ \A d \in A \ {p, c} : m1[d] = m[d]
      BY <2>1 DEF Touches
    <3>. QED  BY <1>b, <1>1, <2>1, <3>1, MergeTiles
  <2>3. p \in B /\ n \in B /\ m1[n] = m[n] /\ p + m1[p] = n
    <3>1. p + m[p] = c /\ c + m[c] = n
      BY DEF Touches
    <3>2. p + (m[p] + m[c]) = n
      BY <1>1, <1>n, <3>1
    <3>. QED  BY <1>1, <1>2, <2>1, <3>2
  <2>4. m2[p] = m1[p] + m1[n]
    BY <1>1, <1>2, <2>1, <2>3
  <2>5. \A d \in B \ {p, n} : m2[d] = m1[d]
    BY <1>3, <2>1
  <2>6. (F \ {n}) \union Heads(m, L) = B \ {n}
    BY <1>b, <1>n
  <2>. HIDE DEF B
  <2>7. Tiles(m2, B \ {n})
    BY <2>1, <2>2, <2>3, <2>4, <2>5, MergeTiles
  <2>. QED  BY <2>6, <2>7
<1>5. Chain(m2, head, F \ {n})
  <2>1. SameLinks(m, m2, F \ {p, n})
    <3>. SUFFICES ASSUME NEW d \in F \ {p, n}
                  PROVE  m2[d + 1] = m[d + 1]
      BY DEF SameLinks
    <3>1. d + 1 # p /\ d + 1 # p + 1 /\ d + 1 \in Words
      BY <1>b, <1>1
    <3>. QED  BY <3>1
  <2>2. m[p + 1] = n
    BY DEF Between
  <2>. QED  BY <1>b, <1>n, <2>1, <2>2, ChainSkip
<1>6. Gaps(m2, F \ {n})
  <2>. SUFFICES ASSUME NEW d \in F \ {n}, NEW e \in F \ {n}, d < e
                PROVE  d + m2[d] < e
    BY DEF Gaps
  <2>1. CASE d # p
    <3>1. m2[d] = m[d]
      BY <1>b, <1>3, <2>1
    <3>. QED  BY <1>b, <3>1 DEF Gaps
  <2>2. CASE d = p
    <3>1. e \in Nat /\ n < e
      BY <1>b, <1>1, <1>n, <2>2
    <3>2. n + m[n] < e
      BY <1>b, <1>n, <3>1 DEF Gaps
    <3>3. c + m[c] = n /\ p + m[p] = c
      BY DEF Touches
    <3>4. p + (m[p] + m[c] + m[n]) < e
      BY <1>1, <1>2, <1>n, <3>1, <3>2, <3>3
    <3>. QED  BY <2>2, <3>4
  <2>. QED  BY <2>1, <2>2
<1>7. Headers(m, m2, F, c)
  BY DEF Headers
<1>8. F \ {n} \in SUBSET (F \union {c})
  OBVIOUS
<1>. QED  BY <1>n, <1>4, <1>5, <1>6, <1>7, <1>8, Settle

\* JoinNext: joined with n, which leaves the list to c.
LEMMA ReturnToNext ==
  ASSUME NEW m, NEW head, NEW F, NEW c, NEW L, Hand(m, head, F, c, L),
         NEW p \in F, NEW n, Between(m, p, c, n), n # Null,
         ~ Touches(m, p, c), Touches(m, c, n),
         NEW m2 \in [Words -> Int], m2[c] = m[c] + m[n],
         m2[c + 1] = m[n + 1], m2[p + 1] = c,
         \A w \in Words \ {c, c + 1, p + 1} : m2[w] = m[w]
  PROVE  Returned(m, m2, head, F, (F \union {c}) \ {n}, c, L) /\ n \in F
<1>. DEFINE A == Hands(m, F, c, L)
<1>. HIDE DEF A
<1>b. /\ Tiles(m, A) /\ Chain(m, head, F) /\ Gaps(m, F) /\ m \in [Words -> Int]
      /\ A = F \union {c} \union Heads(m, L) /\ c \in A /\ F \subseteq A
      /\ F \subseteq Nat /\ Null \notin F /\ c \notin F /\ c \notin Heads(m, L)
      /\ Heads(m, L) \intersect F = {}
      /\ \A d \in A : /\ d \in Nat /\ d \in Words /\ d + 1 \in Words
                      /\ m[d] \in Int /\ m[d] >= 2
      /\ \A d, e \in A : d # e => d # e + 1
      /\ \A d \in F : m[d + 1] \in Int /\ m[d + 1] >= 0
  BY InHand DEF A
<1>1. p \in A /\ p \in Nat /\ c \in Nat /\ m[p] \in Int /\ m[c] \in Int
  BY <1>b
<1>n. /\ p < c /\ n \in F /\ n \in Nat /\ c < n /\ p + m[p] <= c /\ p + m[p] \in Int
      /\ \A d \in F : \/ d < p /\ d + m[d] < p
                      \/ d = p
                      \/ n # Null /\ n <= d
  BY Neighbours
<1>2. n \in A /\ m[n] \in Int /\ p # n /\ p # c /\ c # n
  BY <1>b, <1>1, <1>n
<1>3. \A d \in A \ {c} : m2[d] = m[d]
  <2>. SUFFICES ASSUME NEW d \in A \ {c}
                PROVE  m2[d] = m[d]
    OBVIOUS
  <2>1. d # p + 1 /\ d # c + 1 /\ d \in Words
    <3>1. d # c + 1 /\ d \in Words
      BY <1>b
    <3>2. d # p + 1
      <4>1. CASE d = p
        BY <1>1, <4>1
      <4>2. CASE d # p
        BY <1>b, <1>1, <4>2
      <4>. QED  BY <4>1, <4>2
    <3>. QED  BY <3>1, <3>2
  <2>. QED  BY <2>1
<1>4. Tiles(m2, ((F \union {c}) \ {n}) \union Heads(m, L))
  <2>1. c + m[c] = n /\ \A d \in A \ {c, n} : m2[d] = m[d]
    BY <1>3 DEF Touches
  <2>2. Tiles(m2, A \ {n})
    BY <1>b, <1>2, <2>1, MergeTiles
  <2>3. A \ {n} = ((F \union {c}) \ {n}) \union Heads(m, L)
    BY <1>b, <1>n
  <2>. QED  BY <2>2, <2>3
<1>5. Chain(m2, head, (F \union {c}) \ {n})
  <2>1. SameLinks(m, m2, F \ {p, n})
    <3>. SUFFICES ASSUME NEW d \in F \ {p, n}
                  PROVE  m2[d + 1] = m[d + 1]
      BY DEF SameLinks
    <3>1. d + 1 # c /\ d + 1 # c + 1 /\ d + 1 # p + 1 /\ d + 1 \in Words
      BY <1>b, <1>1
    <3>. QED  BY <3>1
  <2>2. m[p + 1] = n /\ p + 1 \in Words /\ \A d \in F : m[d + 1] \in Int /\ d + 1 \in Words
    BY <1>b, <1>1 DEF Between
  <2>. QED  BY <1>b, <1>1, <1>n, <2>1, <2>2, ChainReplace
<1>6. Gaps(m2, (F \union {c}) \ {n})
  <2>. SUFFICES ASSUME NEW d \in (F \union {c}) \ {n},
                       NEW e \in (F \union {c}) \ {n}, d < e
                PROVE  d + m2[d] < e
    BY DEF Gaps
  <2>1. CASE d \in F /\ e \in F
    <3>1. m2[d] = m[d]
      BY <1>b, <1>3, <2>1
    <3>. QED  BY <1>b, <2>1, <3>1 DEF Gaps
  <2>2. CASE d = c
    <3>1. e \in F /\ e \in Nat /\ n < e
      BY <1>b, <1>1, <1>n, <2>2
    <3>2. n + m[n] < e
      BY <1>b, <1>n, <3>1 DEF Gaps
    <3>3. c + m[c] = n
      BY DEF Touches
    <3>4. c + (m[c] + m[n]) < e
      BY <1>1, <1>2, <1>n, <3>1, <3>2, <3>3
    <3>. QED  BY <2>2, <3>4
  <2>3. CASE d \in F /\ e = c
    <3>1. m2[d] = m[d] /\ d \in Nat /\ m[d] \in Int
      BY <1>b, <1>3, <2>3
    <3>2. (d < p /\ d + m[d] < p) \/ d = p
      BY <1>1, <1>n, <2>3, <3>1
    <3>3. p + m[p] # c
      BY DEF Touches
    <3>. QED  BY <1>1, <1>n, <2>3, <3>1, <3>2, <3>3
  <2>. QED  BY <1>b, <2>1, <2>2, <2>3
<1>7. Headers(m, m2, F, c)
  <2>1. m2[c + 1] >= 0
    BY <1>b, <1>n
  <2>2. m2[c] >= 0
    <3>1. m[c] >= 2 /\ m[n] >= 2
      BY <1>b, <1>2
    <3>. QED  BY <1>1, <1>2, <3>1
  <2>. QED  BY <2>1, <2>2 DEF Headers
<1>8. (F \union {c}) \ {n} \in SUBSET (F \union {c})
  OBVIOUS
<1>. QED  BY <1>n, <1>4, <1>5, <1>6, <1>7, <1>8, Settle

\* Insert: joined with neither.
LEMMA ReturnBetween ==
  ASSUME NEW m, NEW head, NEW F, NEW c, NEW L, Hand(m, head, F, c, L),
         NEW p \in F, NEW n, Between(m, p, c, n),
         ~ Touches(m, p, c), ~ Touches(m, c, n),
         NEW m2 \in [Words -> Int], m2[c + 1] = n, m2[p + 1] = c,
         \A w \in Words \ {c + 1, p + 1} : m2[w] = m[w]
  PROVE  Returned(m, m2, head, F, F \union {c}, c, L)
<1>. DEFINE A == Hands(m, F, c, L)
<1>. HIDE DEF A
<1>b. /\ Tiles(m, A) /\ Chain(m, head, F) /\ Gaps(m, F) /\ m \in [Words -> Int]
      /\ A = F \union {c} \union Heads(m, L) /\ c \in A /\ F \subseteq A
      /\ F \subseteq Nat /\ Null \notin F /\ c \notin F
      /\ \A d \in A : /\ d \in Nat /\ d \in Words /\ d + 1 \in Words
                      /\ m[d] \in Int /\ m[d] >= 2
      /\ \A d, e \in A : d # e => d # e + 1
  BY InHand DEF A
<1>1. p \in A /\ p \in Nat /\ c \in Nat /\ m[p] \in Int /\ m[c] \in Int
  BY <1>b
<1>n. /\ p < c /\ p + m[p] <= c /\ p + m[p] \in Int /\ n \in Nat /\ c + m[c] \in Int
      /\ \A d \in F : \/ d < p /\ d + m[d] < p
                      \/ d = p
                      \/ n # Null /\ n <= d /\ c < d /\ c + m[c] <= d
      /\ n # Null => c + m[c] <= n /\ c < n
  BY Neighbours
<1>3. \A d \in A : m2[d] = m[d]
  <2>. SUFFICES ASSUME NEW d \in A
                PROVE  m2[d] = m[d]
    OBVIOUS
  <2>1. d \in Nat /\ d \in Words
    BY <1>b
  <2>2. d # p + 1 /\ d # c + 1
    BY <1>b, <1>1, <2>1
  <2>. QED  BY <2>1, <2>2
<1>4. Tiles(m2, F \union {c} \union Heads(m, L))
  <2>1. Tiles(m, A)
    BY <1>b
  <2>2. Tiles(m2, A)
    BY <1>3, <2>1, TilesFrame
  <2>. QED  BY <1>b, <2>2
<1>5. Chain(m2, head, F \union {c})
  <2>1. SameLinks(m, m2, F \ {p})
    <3>. SUFFICES ASSUME NEW d \in F \ {p}
                  PROVE  m2[d + 1] = m[d + 1]
      BY DEF SameLinks
    <3>1. d + 1 # c + 1 /\ d + 1 # p + 1 /\ d + 1 \in Words
      BY <1>b, <1>1
    <3>. QED  BY <3>1
  <2>2. /\ m[p + 1] = Null \/ c < m[p + 1]
        /\ m2[c + 1] = m[p + 1]
    BY <1>n DEF Between
  <2>. QED  BY <1>b, <1>1, <1>n, <2>1, <2>2, ChainAfter
<1>6. Gaps(m2, F \union {c})
  <2>. SUFFICES ASSUME NEW d \in F \union {c}, NEW e \in F \union {c}, d < e
                PROVE  d + m2[d] < e
    BY DEF Gaps
  <2>0. m2[d] = m[d]
    BY <1>b, <1>3
  <2>1. CASE d \in F /\ e \in F
    BY <1>b, <2>0, <2>1 DEF Gaps
  <2>2. CASE d = c
    <3>1. e \in F /\ e \in Nat /\ n # Null /\ n <= e /\ c + m[c] <= n
      BY <1>b, <1>1, <1>n, <2>2
    <3>2. c + m[c] # n
      BY DEF Touches
    <3>. QED  BY <1>n, <2>0, <2>2, <3>1, <3>2
  <2>3. CASE d \in F /\ e = c
    <3>1. d \in Nat /\ m[d] \in Int
      BY <1>b, <2>3
    <3>2. (d < p /\ d + m[d] < p) \/ d = p
      BY <1>1, <1>n, <2>3, <3>1
    <3>3. p + m[p] # c
      BY DEF Touches
    <3>. QED  BY <1>1, <1>n, <2>0, <2>3, <3>1, <3>2, <3>3
  <2>. QED  BY <1>b, <2>1, <2>2, <2>3
<1>7. Headers(m, m2, F, c)
  BY <1>n DEF Headers
<1>. QED  BY <1>4, <1>5, <1>6, <1>7, Settle
-----------------------------------------------------------------------------
\* There are Total words.
LEMMA Countable ==
  /\ IsFiniteSet(Words) /\ Cardinality(Words) = Total
  /\ \A S \in SUBSET Words : /\ IsFiniteSet(S) /\ Cardinality(S) \in Nat
                             /\ Cardinality(S) <= Total
<1>1. IsFiniteSet(Words) /\ Cardinality(Words) = Total
  <2>1. Base \in Int /\ Base + Total - 1 \in Int /\ ~ (Base > Base + Total - 1)
        /\ (Base + Total - 1) - Base + 1 = Total
    BY WordsAreNumbers
  <2>. QED  BY <2>1, FS_Interval DEF Words
<1>2. ASSUME NEW S \in SUBSET Words
      PROVE  IsFiniteSet(S) /\ Cardinality(S) \in Nat /\ Cardinality(S) <= Total
  <2>1. IsFiniteSet(S) /\ Cardinality(S) <= Cardinality(Words)
    BY <1>1, FS_Subset
  <2>. QED  BY <1>1, <2>1, FS_CardinalityType
<1>. QED  BY <1>1, <1>2

\* No two blocks share a chunk, so they are no more than the words.
LEMMA BlocksCounted ==
  ASSUME NEW m, NEW head, NEW F, NEW X, NEW L, Layout(m, head, F, X, L)
  PROVE  IsFiniteSet(L) /\ Cardinality(L) \in Nat /\ Cardinality(L) <= Total
<1>. DEFINE f == [b \in L |-> Header(m, b.addr)]
<1>1. \A b \in L : Header(m, b.addr) \in Words
  <2>1. \A b \in L : Header(m, b.addr) \in Parts(m, F, X, L)
    BY DEF Parts, Heads
  <2>. QED  BY <2>1, LayoutFacts
<1>2. \A b, d \in L : Header(m, b.addr) = Header(m, d.addr) => b = d
  BY DEF Layout
<1>3. f \in Injection(L, Words)
  BY <1>1, <1>2 DEF Injection, IsInjective
<1>4. IsFiniteSet(L) /\ Cardinality(L) <= Cardinality(Words)
  BY <1>3, Countable, FS_Injection
<1>. QED  BY <1>4, Countable, FS_CardinalityType

\* A chunk has as many words as its size says; those of the free chunks are
\* counted by freeBytes.
LEMMA ChunkCounted ==
  ASSUME NEW m, NEW head, NEW F, NEW c, NEW L, Hand(m, head, F, c, L)
  PROVE  /\ Within(m, c) \subseteq Words /\ Cover(m, F) \subseteq Words
         /\ Cardinality(Within(m, c)) = m[c] /\ m[c] \in Nat
         /\ Cardinality(Cover(m, F) \union Within(m, c)) = Cardinality(Cover(m, F)) + m[c]
<1>. DEFINE X == {c}
<1>1. Layout(m, head, F, X, L) /\ c \in X
  BY DEF Hand
<1>. HIDE DEF X
<1>2. c \in Parts(m, F, X, L) /\ \A d \in F : d \in Parts(m, F, X, L) /\ d # c
  <2>1. X \intersect F = {}
    BY <1>1 DEF Layout
  <2>. QED  BY <1>1, <2>1 DEF Parts
<1>3. /\ c \in Nat /\ m[c] \in Int /\ m[c] >= 2 /\ Within(m, c) \subseteq Words
      /\ \A d \in F : Within(m, d) \subseteq Words /\ Within(m, d) \intersect Within(m, c) = {}
  BY <1>1, <1>2, LayoutFacts
<1>4. Cover(m, F) \subseteq Words /\ Cover(m, F) \intersect Within(m, c) = {}
  BY <1>3 DEF Cover
<1>5. Cardinality(Within(m, c)) = m[c]
  <2>1. c \in Int /\ c + m[c] - 1 \in Int /\ ~ (c > c + m[c] - 1) /\ (c + m[c] - 1) - c + 1 = m[c]
    BY <1>3
  <2>. QED  BY <2>1, FS_Interval DEF Within
<1>6. Cardinality(Cover(m, F) \union Within(m, c)) = Cardinality(Cover(m, F)) + m[c]
  <2>1. /\ IsFiniteSet(Cover(m, F)) /\ IsFiniteSet(Within(m, c))
        /\ Cardinality(Cover(m, F)) \in Nat
    BY <1>3, <1>4, Countable
  <2>2. Cardinality(Cover(m, F) \intersect Within(m, c)) = 0
    BY <1>4, FS_EmptySet
  <2>3. Cardinality(Cover(m, F) \union Within(m, c))
          = Cardinality(Cover(m, F)) + Cardinality(Within(m, c)) - 0
    BY <2>1, <2>2, FS_Union
  <2>. QED  BY <1>3, <1>5, <2>1, <2>3
<1>. QED  BY <1>3, <1>4, <1>5, <1>6
-----------------------------------------------------------------------------
\* The state with the free chunks F: the layout, the statistics, and the
\* block freed last, the header of which is inside a free chunk.
Arena(F) ==
  /\ policy \in Policies
  /\ Layout(mem, freeList, F, {}, live)
  /\ allocatedChunks = Cardinality(live) /\ freeChunks = Cardinality(F)
  /\ freeBytes = Cardinality(Cover(mem, F)) /\ allocatedBytes = Total - freeBytes
  /\ freed = NoBlock \/ (freed \in Blocks /\ Header(mem, freed.addr) \in Cover(mem, F))

\* The invariant: some set of chunks is the free ones.
Inv == \E F \in SUBSET Words : Arena(F)

\* The resource is never asked for more than the chunk it hands out, or it
\* is not lifo.
Fits == ~ Overrun \/ "lifo" \notin Policies

\* HandOut: the chunk c that was taken from the free ones becomes a block.
LEMMA HandOutStep ==
  ASSUME NEW F \in SUBSET Words, Arena(F), NEW G \in SUBSET Words,
         NEW m \in [Words -> Int], NEW c, NEW bytes \in Sizes, NEW align \in Alignments,
         Hand(m, freeList', G, c, live), m[c] >= AllocSize(bytes, align),
         Cover(m, G) = Cover(mem, F) \ Within(m, c), Within(m, c) \subseteq Cover(mem, F),
         HandOut(m, c, bytes, align), freeChunks' = Cardinality(G), UNCHANGED policy
  PROVE  Arena(G)'
<1>. DEFINE b == Block(m, c, bytes, align)
<1>1. /\ mem' = Filled(m, c, bytes, align)
      /\ live' = live \union {b}
      /\ allocatedBytes' = allocatedBytes + m[c]
      /\ freeBytes' = freeBytes - m[c]
      /\ allocatedChunks' = allocatedChunks + 1
      /\ freed' = NoBlock
  BY DEF HandOut, Filled, Block
<1>2. /\ Layout(mem', freeList', G, {}, live') /\ b \notin live
      /\ Cover(mem', G) = Cover(m, G)
  BY <1>1, HandOutLayout
<1>. HIDE DEF b
<1>3. /\ policy \in Policies
      /\ Layout(mem, freeList, F, {}, live)
      /\ allocatedChunks = Cardinality(live)
      /\ freeBytes = Cardinality(Cover(mem, F)) /\ allocatedBytes = Total - freeBytes
  BY DEF Arena
<1>4. IsFiniteSet(live) /\ Cardinality(live) \in Nat
  BY <1>3, BlocksCounted
<1>5. allocatedChunks' = Cardinality(live')
  BY <1>1, <1>2, <1>3, <1>4, FS_AddElement
<1>6. /\ Cover(m, G) \subseteq Words /\ m[c] \in Nat
      /\ Cardinality(Cover(m, G) \union Within(m, c)) = Cardinality(Cover(m, G)) + m[c]
  BY ChunkCounted
<1>7. Cover(m, G) \union Within(m, c) = Cover(mem, F)
  OBVIOUS
<1>8. Cardinality(Cover(m, G)) \in Nat
  BY <1>6, Countable
<1>9. freeBytes' = Cardinality(Cover(mem', G)) /\ allocatedBytes' = Total - freeBytes'
  <2>1. freeBytes = Cardinality(Cover(m, G)) + m[c]
    BY <1>3, <1>6, <1>7
  <2>2. Total \in Nat
    BY WordsAreNumbers
  <2>3. /\ freeBytes' = freeBytes - m[c] /\ allocatedBytes' = allocatedBytes + m[c]
        /\ allocatedBytes = Total - freeBytes /\ m[c] \in Nat
        /\ Cardinality(Cover(mem', G)) = Cardinality(Cover(m, G))
    BY <1>1, <1>2, <1>3, <1>6
  <2>. HIDE DEF b
  <2>. QED  BY <1>8, <2>1, <2>2, <2>3
<1>. QED  BY <1>1, <1>2, <1>3, <1>5, <1>9 DEF Arena

\* Split and Unlink take a free chunk; ReturnSmall never happens.
LEMMA AllocateStep ==
  ASSUME Fits, NEW F \in SUBSET Words, Arena(F),
         NEW bytes \in Sizes, NEW align \in Alignments, Allocate(bytes, align)
  PROVE  \E G \in SUBSET Words : Arena(G)'
<1>. DEFINE X == {}
            size == AllocSize(bytes, align)
<1>1. Layout(mem, freeList, F, X, live) /\ policy \in Policies /\ freeChunks = Cardinality(F)
  BY DEF Arena
<1>2. X = {}
  OBVIOUS
<1>3. PICK k \in 0..Total :
        /\ IF policy = "lifo" THEN TopFits(k) ELSE FirstFits(k, size)
        /\ \/ Split(Free[k], size, bytes, align)
           \/ Unlink(k, size, bytes, align)
           \/ ReturnSmall(Free[k], size, bytes, align)
        /\ UNCHANGED policy
  BY DEF Allocate
<1>. HIDE DEF X, size
<1>b. /\ mem \in [Words -> Int] /\ Chain(mem, freeList, F)
      /\ F \subseteq Words /\ F \subseteq Nat /\ Null \notin F
      /\ \A d \in F : /\ d \in Nat /\ d + 1 \in Words /\ mem[d] \in Int /\ mem[d] >= 2
                      /\ d + mem[d] <= End
  <2>1. F \subseteq Parts(mem, F, X, live)
    BY DEF Parts
  <2>. QED  BY <1>1, <2>1, LayoutFacts
<1>f. /\ Free[0] = freeList
      /\ \A i \in 0..Total : Free[i] \in F \union {Null}
      /\ \A i \in 0..(Total - 1) :
           Free[i + 1] = IF Free[i] = Null THEN Null ELSE mem[Free[i] + 1]
  BY <1>b, FreeFollows
<1>s. /\ size \in Int /\ size >= 2 /\ size = AllocSize(bytes, align)
      /\ MinChunk(align) \in Int /\ MinChunk(align) >= 2
  <2>1. bytes \in Nat /\ align \in Nat /\ align >= 1
    BY RequestAssumption
  <2>. QED  BY <2>1 DEF size, AllocSize, Padding, MinChunk, LargerOf, ChunkOffset,
                        BlockMinSize
<1>4. Free[k] \in F
  <2>1. Free[k] # Null
    <3>1. CASE policy = "lifo"
      BY <1>3, <1>f, <3>1, WordsAreNumbers DEF TopFits
    <3>2. CASE policy # "lifo"
      BY <1>3, <3>2 DEF FirstFits
    <3>. QED  BY <3>1, <3>2
  <2>. QED  BY <1>f, <2>1
<1>. DEFINE c == Free[k]
<1>5. CASE Split(Free[k], size, bytes, align)
  <2>. DEFINE top == c + (mem[c] - size)
              m == [mem EXCEPT ![c] = mem[c] - size, ![top] = size]
  <2>1. /\ mem[c] - size >= MinChunk(align)
        /\ HandOut(m, top, bytes, align)
        /\ UNCHANGED <<freeList, freeChunks>>
    BY <1>5 DEF Split, Size
  <2>2. /\ c \in F /\ c \in Nat /\ mem[c] \in Int /\ c + mem[c] <= End /\ c \in Words
    BY <1>4, <1>b
  <2>. HIDE DEF c
  <2>3. /\ top \in Int /\ c + 2 <= top /\ top + 2 <= c + mem[c]
        /\ mem[c] - size = top - c /\ size = (c + mem[c]) - top
    BY <1>s, <2>1, <2>2
  <2>4. top \in Words /\ top # c
    <3>1. Base <= c /\ End \in Int
      BY <2>2, WordsAreNumbers
    <3>. HIDE DEF top
    <3>2. Base <= top /\ top < End
      BY <2>2, <2>3, <3>1, WordsAreNumbers
    <3>. QED  BY <2>2, <2>3, <3>2, WordsAreNumbers
  <2>. HIDE DEF top
  <2>5. /\ m \in [Words -> Int] /\ m[c] = mem[c] - size /\ m[top] = size
        /\ \A w \in Words \ {c, top} : m[w] = mem[w]
    BY <1>b, <1>s, <2>2, <2>4
  <2>. HIDE DEF m
  <2>6. m[c] = top - c /\ m[top] = (c + mem[c]) - top
    BY <2>3, <2>5
  <2>7. /\ Layout(m, freeList, F, {top}, live)
        /\ Cover(m, F) = Cover(mem, F) \ Within(m, top)
        /\ Within(m, top) \subseteq Cover(mem, F)
    <3>1. Layout(mem, freeList, F, {}, live)
      BY <1>1, <1>2
    <3>. QED  BY <2>2, <2>3, <2>5, <2>6, <3>1, SplitLayout
  <2>8. Hand(m, freeList', F, top, live)
    BY <2>1, <2>7 DEF Hand
  <2>9. m[top] >= AllocSize(bytes, align) /\ freeChunks' = Cardinality(F)
    BY <1>1, <1>s, <2>1, <2>5
  <2>10. Arena(F)'
    BY <1>3, <2>1, <2>5, <2>7, <2>8, <2>9, HandOutStep
  <2>. QED  BY <2>10
<1>6. CASE Unlink(k, size, bytes, align)
  <2>. DEFINE m == IF k = 0 THEN mem
                   ELSE [mem EXCEPT ![Free[k - 1] + 1] = mem[c + 1]]
  <2>1. /\ mem[c] - size >= 0
        /\ freeList' = IF k = 0 THEN mem[c + 1] ELSE freeList
        /\ HandOut(m, c, bytes, align)
        /\ freeChunks' = freeChunks - 1
    BY <1>6 DEF Unlink, Size, Link, ChunkOffset
  <2>2. c \in F /\ mem[c + 1] \in Int
    <3>1. \A d \in F : mem[d + 1] \in Int
      BY <1>1, LinkWords
    <3>. QED  BY <1>4, <3>1
  <2>3. m \in [Words -> Int] /\ Unlinks(mem, freeList, m, freeList', F, c)
    <3>1. CASE k = 0
      BY <1>b, <1>f, <2>1, <3>1 DEF Unlinks
    <3>2. CASE k # 0
      <4>. DEFINE p == Free[k - 1]
      <4>1. k - 1 \in 0..(Total - 1) /\ k - 1 \in 0..Total /\ (k - 1) + 1 = k
        BY <3>2, WordsAreNumbers
      <4>2. c = IF p = Null THEN Null ELSE mem[p + 1]
        BY <1>f, <4>1
      <4>3. p \in F /\ mem[p + 1] = c
        BY <1>b, <1>f, <2>2, <4>1, <4>2
      <4>4. p + 1 \in Words
        BY <1>b, <4>3
      <4>. HIDE DEF p, c
      <4>5. m = [mem EXCEPT ![p + 1] = mem[c + 1]]
        BY <3>2 DEF p
      <4>. HIDE DEF m
      <4>6. /\ m \in [Words -> Int] /\ m[p + 1] = mem[c + 1]
            /\ \A w \in Words \ {p + 1} : m[w] = mem[w]
        BY <1>b, <2>2, <4>4, <4>5
      <4>7. freeList' = freeList
        BY <2>1, <3>2
      <4>. QED  BY <4>3, <4>6, <4>7 DEF Unlinks
    <3>. QED  BY <3>1, <3>2
  <2>. HIDE DEF m, c
  <2>4. /\ Layout(m, freeList', F \ {c}, {c}, live) /\ m[c] = mem[c]
        /\ Cover(m, F \ {c}) = Cover(mem, F) \ Within(m, c)
        /\ Within(m, c) \subseteq Cover(mem, F)
    <3>1. Layout(mem, freeList, F, {}, live)
      BY <1>1, <1>2
    <3>. QED  BY <2>2, <2>3, <3>1, UnlinkLayout
  <2>a. PICK G \in SUBSET Words : G = F \ {c}
    OBVIOUS
  <2>5. Hand(m, freeList', G, c, live)
    BY <2>4, <2>a DEF Hand
  <2>6. m[c] >= AllocSize(bytes, align)
    <3>1. mem[c] \in Int
      BY <1>b, <2>2
    <3>. QED  BY <1>s, <2>1, <2>4, <3>1
  <2>7. freeChunks' = Cardinality(G)
    <3>1. IsFiniteSet(F)
      BY Countable
    <3>. QED  BY <1>1, <2>1, <2>2, <2>a, <3>1, FS_RemoveElement
  <2>8. /\ Cover(m, G) = Cover(mem, F) \ Within(m, c)
        /\ Within(m, c) \subseteq Cover(mem, F)
    BY <2>4, <2>a
  <2>10. HandOut(m, c, bytes, align) /\ UNCHANGED policy /\ m \in [Words -> Int]
    BY <1>3, <2>1, <2>3
  <2>9. Arena(G)'
    BY <2>5, <2>6, <2>7, <2>8, <2>10, HandOutStep
  <2>. QED  BY <2>9
<1>7. CASE ReturnSmall(Free[k], size, bytes, align)
  BY <1>1, <1>7 DEF ReturnSmall, Fits
<1>. QED  BY <1>3, <1>5, <1>6, <1>7
-----------------------------------------------------------------------------
\* Around finds neighbours on the list.
LEMMA AroundBetween ==
  ASSUME NEW F, NEW X, NEW L, Layout(mem, freeList, F, X, L),
         NEW c, NEW p, NEW n, Around(c, p, n)
  PROVE  p \in F /\ Between(mem, p, c, n)
<1>b. /\ Chain(mem, freeList, F) /\ F \subseteq Words /\ \A d \in F : d + 1 \in Words
  <2>1. F \subseteq Parts(mem, F, X, L)
    BY DEF Parts
  <2>. QED  BY <2>1, LayoutFacts
<1>f. /\ \A i \in 0..Total : Free[i] \in F \union {Null}
      /\ \A i \in 0..(Total - 1) :
           Free[i + 1] = IF Free[i] = Null THEN Null ELSE mem[Free[i] + 1]
  BY <1>b, FreeFollows
<1>1. PICK k \in 0..(Total - 1) :
        /\ Free[k] = p /\ p # Null /\ p <= c
        /\ Free[k + 1] = n /\ (n = Null \/ n > c)
  BY DEF Around
<1>2. k \in 0..Total
  BY WordsAreNumbers
<1>. QED  BY <1>1, <1>2, <1>f DEF Between

\* The chunk of a block that is given back is in hand.
LEMMA TakenBack ==
  ASSUME NEW m, NEW head, NEW F, NEW L, Layout(m, head, F, {}, L), NEW b \in L
  PROVE  Hand(m, head, F, Header(m, b.addr), L \ {b})
<1>. DEFINE c == Header(m, b.addr)
            X == {}
            M == L \ {b}
            Y == {c}
<1>a. Layout(m, head, F, X, L)
  OBVIOUS
<1>c. X = {}
  OBVIOUS
<1>. HIDE DEF X
<1>1. /\ m \in [Words -> Int] /\ L \subseteq Blocks
      /\ Tiles(m, Parts(m, F, X, L))
      /\ Chain(m, head, F) /\ Gaps(m, F)
      /\ \A d \in L : Holds(m, d) /\ Header(m, d.addr) \notin F \union X
      /\ \A d, e \in L : Header(m, d.addr) = Header(m, e.addr) => d = e
  BY <1>a DEF Layout
<1>2. Parts(m, F, X, L) = Parts(m, F, Y, M)
  BY <1>c DEF Parts, Heads
<1>3. c \notin F /\ \A d \in M : Header(m, d.addr) # c
  BY <1>1
<1>. HIDE DEF c
<1>4. Y \intersect F = {} /\ \A d \in M : Header(m, d.addr) \notin F \union Y
  BY <1>1, <1>3
<1>5. Tiles(m, Parts(m, F, Y, M))
  BY <1>1, <1>2
<1>6. Layout(m, head, F, Y, M)
  <2>1. M \subseteq L
    OBVIOUS
  <2>. HIDE DEF Y, M
  <2>. QED  BY <1>1, <1>4, <1>5, <2>1 DEF Layout
<1>. QED  BY <1>6 DEF Hand, c

\* Return: each of its branches.
LEMMA ReturnLayout ==
  ASSUME NEW F \in SUBSET Words, NEW c, NEW L, Hand(mem, freeList, F, c, L),
         freeChunks = Cardinality(F), Return(c)
  PROVE  \E G \in SUBSET Words :
           /\ Returned(mem, mem', freeList', F, G, c, L)
           /\ freeChunks' = Cardinality(G)
<1>. DEFINE A == Hands(mem, F, c, L)
<1>. HIDE DEF A
<1>b. /\ mem \in [Words -> Int] /\ Chain(mem, freeList, F)
      /\ c \in A /\ F \subseteq A /\ c \notin F
      /\ \A d \in A : /\ d \in Nat /\ d # Null /\ d \in Words /\ d + 1 \in Words
                      /\ mem[d] \in Int /\ mem[d] >= 2
      /\ \A d \in F : mem[d + 1] \in Int
  BY InHand DEF A
<1>1. /\ c \in Nat /\ mem[c] \in Int /\ c + mem[c] \in Nat /\ c + mem[c] # Null
      /\ c \in Words /\ c + 1 \in Words
  BY <1>b DEF Null
<1>2. IsFiniteSet(F) /\ Cardinality(F) \in Nat
  BY Countable
<1>3. F \union {c} \in SUBSET Words /\ Cardinality(F \union {c}) = Cardinality(F) + 1
  BY <1>1, <1>b, <1>2, FS_AddElement
<1>4. CASE EmptyList(c)
  <2>1. /\ F = {} /\ mem' = [mem EXCEPT ![c + 1] = Null] /\ freeList' = c
        /\ freeChunks' = freeChunks + 1
    BY <1>4, <1>b DEF EmptyList, Chain, ChunkOffset
  <2>2. /\ mem' \in [Words -> Int] /\ mem'[c + 1] = Null
        /\ \A w \in Words \ {c + 1} : mem'[w] = mem[w]
    BY <1>1, <1>b, <2>1 DEF Null
  <2>3. Returned(mem, mem', freeList', F, {c}, c, L)
    <3>1. Returned(mem, mem', c, F, {c}, c, L)
      BY <2>1, <2>2, ReturnOnly
    <3>. QED  BY <2>1, <3>1
  <2>4. F \union {c} = {c}
    BY <2>1
  <2>. QED  BY <1>3, <2>1, <2>3, <2>4
<1>5. CASE BeforeHead(c)
  <2>1. c < freeList /\ freeList' = c /\ freeList # Null /\ freeList \in F
    BY <1>5, <1>1, <1>b DEF BeforeHead, Chain, Null
  <2>2. CASE c + mem[c] = freeList
    <3>1. /\ mem' = [mem EXCEPT ![c] = mem[c] + mem[freeList],
                                ![c + 1] = mem[freeList + 1]]
          /\ freeChunks' = freeChunks
      BY <1>5, <2>2 DEF BeforeHead, Size, Link, ChunkOffset
    <3>2. Touches(mem, c, freeList)
      BY <2>2 DEF Touches
    <3>3. mem[freeList] \in Int /\ mem[freeList + 1] \in Int /\ c # c + 1
      BY <1>1, <1>b, <2>1
    <3>4. /\ mem' \in [Words -> Int] /\ mem'[c] = mem[c] + mem[freeList]
          /\ mem'[c + 1] = mem[freeList + 1]
          /\ \A w \in Words \ {c, c + 1} : mem'[w] = mem[w]
      BY <1>1, <1>b, <3>1, <3>3
    <3>5. Returned(mem, mem', c, F, (F \union {c}) \ {freeList}, c, L)
      BY <2>1, <3>2, <3>4, ReturnBeforeJoined
    <3>6. Cardinality((F \union {c}) \ {freeList}) = Cardinality(F)
      <4>1. IsFiniteSet(F \union {c}) /\ freeList \in F \union {c}
        BY <1>2, <2>1, FS_AddElement
      <4>2. Cardinality((F \union {c}) \ {freeList}) = Cardinality(F \union {c}) - 1
        BY <4>1, FS_RemoveElement
      <4>. QED  BY <1>2, <1>3, <4>2
    <3>7. PICK G : G = (F \union {c}) \ {freeList}
      OBVIOUS
    <3>. QED  BY <1>3, <2>1, <3>1, <3>5, <3>6, <3>7
  <2>3. CASE c + mem[c] # freeList
    <3>1. mem' = [mem EXCEPT ![c + 1] = freeList] /\ freeChunks' = freeChunks + 1
      BY <1>5, <2>3 DEF BeforeHead, Size, ChunkOffset
    <3>2. /\ mem' \in [Words -> Int] /\ mem'[c + 1] = freeList
          /\ \A w \in Words \ {c + 1} : mem'[w] = mem[w]
      BY <1>1, <1>b, <2>1, <3>1
    <3>3. Returned(mem, mem', c, F, F \union {c}, c, L)
      BY <2>1, <2>3, <3>2, ReturnBefore
    <3>. QED  BY <1>3, <2>1, <3>1, <3>3
  <2>. QED  BY <2>2, <2>3
<1>6. CASE \E p, n \in FreeSet \union {Null} :
             /\ Around(c, p, n)
             /\ JoinPrevious(c, p, n) \/ JoinNext(c, p, n) \/ Insert(c, p, n)
  <2>1. PICK p, n : /\ Around(c, p, n)
                    /\ JoinPrevious(c, p, n) \/ JoinNext(c, p, n) \/ Insert(c, p, n)
    BY <1>6
  <2>2. p \in F /\ Between(mem, p, c, n)
    <3>1. Layout(mem, freeList, F, {c}, L)
      BY DEF Hand
    <3>. QED  BY <2>1, <3>1, AroundBetween
  <2>3. p \in Nat /\ p \in Words /\ p + 1 \in Words /\ mem[p] \in Int
    BY <1>b, <2>2
  <2>4. p < c /\ n \in Nat /\ (n # Null => n \in F)
    BY <2>2, Neighbours
  <2>5. n # Null => mem[n] \in Int /\ mem[n + 1] \in Int
    BY <1>b, <2>4
  <2>6. CASE JoinPrevious(c, p, n)
    <3>1. Touches(mem, p, c) /\ freeList' = freeList
      BY <2>6 DEF JoinPrevious, Touches, Size
    <3>2. CASE c + mem[c] = n
      <4>1. /\ mem' = [mem EXCEPT ![p] = mem[p] + mem[c] + mem[n], ![p + 1] = mem[n + 1]]
            /\ freeChunks' = freeChunks - 1
        BY <2>6, <3>2 DEF JoinPrevious, Size, Link, ChunkOffset
      <4>2. n # Null /\ Touches(mem, c, n)
        BY <1>1, <3>2 DEF Touches
      <4>3. /\ mem' \in [Words -> Int] /\ mem'[p] = mem[p] + mem[c] + mem[n]
            /\ mem'[p + 1] = mem[n + 1]
            /\ \A w \in Words \ {p, p + 1} : mem'[w] = mem[w]
        <5>1. p # p + 1 /\ mem[p] + mem[c] + mem[n] \in Int
          BY <1>1, <2>3, <2>5, <4>2
        <5>. QED  BY <1>b, <2>3, <2>5, <4>1, <4>2, <5>1
      <4>4. Returned(mem, mem', freeList, F, F \ {n}, c, L) /\ n \in F
        BY <2>2, <3>1, <4>2, <4>3, ReturnToBoth
      <4>5. Cardinality(F \ {n}) = Cardinality(F) - 1
        BY <1>2, <4>4, FS_RemoveElement
      <4>6. F \ {n} \in SUBSET Words
        OBVIOUS
      <4>. QED  BY <3>1, <4>1, <4>4, <4>5, <4>6
    <3>3. CASE c + mem[c] # n
      <4>1. mem' = [mem EXCEPT ![p] = mem[p] + mem[c]] /\ freeChunks' = freeChunks
        BY <2>6, <3>3 DEF JoinPrevious, Size
      <4>2. ~ Touches(mem, c, n)
        BY <3>3 DEF Touches
      <4>3. /\ mem' \in [Words -> Int] /\ mem'[p] = mem[p] + mem[c]
            /\ \A w \in Words \ {p} : mem'[w] = mem[w]
        <5>1. mem[p] + mem[c] \in Int
          BY <1>1, <2>3
        <5>. QED  BY <1>b, <2>3, <4>1, <5>1
      <4>4. Returned(mem, mem', freeList, F, F, c, L)
        BY <2>2, <3>1, <4>2, <4>3, ReturnToPrevious
      <4>. QED  BY <3>1, <4>1, <4>4
    <3>. QED  BY <3>2, <3>3
  <2>7. CASE JoinNext(c, p, n)
    <3>1. /\ p + mem[p] < c /\ c + mem[c] = n
          /\ mem' = [mem EXCEPT ![c] = mem[c] + mem[n], ![c + 1] = mem[n + 1],
                                ![p + 1] = c]
          /\ freeList' = freeList /\ freeChunks' = freeChunks
      BY <2>7 DEF JoinNext, Size, Link, ChunkOffset
    <3>2. n # Null /\ Touches(mem, c, n) /\ ~ Touches(mem, p, c)
      BY <1>1, <2>3, <3>1 DEF Touches
    <3>3. /\ mem' \in [Words -> Int] /\ mem'[c] = mem[c] + mem[n]
          /\ mem'[c + 1] = mem[n + 1] /\ mem'[p + 1] = c
          /\ \A w \in Words \ {c, c + 1, p + 1} : mem'[w] = mem[w]
      <4>1. c # c + 1 /\ c + 1 # p + 1 /\ c # p + 1 /\ mem[c] + mem[n] \in Int
        <5>1. c # p + 1
          <6>1. p \in A /\ p # c
            BY <1>b, <2>2
          <6>2. \A d, e \in A : d # e => d # e + 1
            BY InHand DEF A
          <6>. QED  BY <1>b, <6>1, <6>2
        <5>. QED  BY <1>1, <2>3, <2>4, <2>5, <3>2, <5>1
      <4>. QED  BY <1>1, <1>b, <2>3, <2>5, <3>1, <3>2, <4>1
    <3>4. Returned(mem, mem', freeList, F, (F \union {c}) \ {n}, c, L) /\ n \in F
      BY <2>2, <3>2, <3>3, ReturnToNext
    <3>5. Cardinality((F \union {c}) \ {n}) = Cardinality(F)
      <4>1. IsFiniteSet(F \union {c}) /\ n \in F \union {c}
        BY <1>2, <3>4, FS_AddElement
      <4>2. Cardinality((F \union {c}) \ {n}) = Cardinality(F \union {c}) - 1
        BY <4>1, FS_RemoveElement
      <4>. QED  BY <1>2, <1>3, <4>2
    <3>6. (F \union {c}) \ {n} \in SUBSET Words
      BY <1>3
    <3>. QED  BY <3>1, <3>4, <3>5, <3>6
  <2>8. CASE Insert(c, p, n)
    <3>1. /\ p + mem[p] < c /\ c + mem[c] # n
          /\ mem' = [mem EXCEPT ![c + 1] = n, ![p + 1] = c]
          /\ freeList' = freeList /\ freeChunks' = freeChunks + 1
      BY <2>8 DEF Insert, Size, ChunkOffset
    <3>2. ~ Touches(mem, c, n) /\ ~ Touches(mem, p, c)
      BY <1>1, <2>3, <3>1 DEF Touches
    <3>3. /\ mem' \in [Words -> Int] /\ mem'[c + 1] = n /\ mem'[p + 1] = c
          /\ \A w \in Words \ {c + 1, p + 1} : mem'[w] = mem[w]
      <4>1. c + 1 # p + 1
        BY <1>1, <2>3, <2>4
      <4>. QED  BY <1>1, <1>b, <2>3, <2>4, <3>1, <4>1
    <3>4. Returned(mem, mem', freeList, F, F \union {c}, c, L)
      BY <2>2, <3>2, <3>3, ReturnBetween
    <3>. QED  BY <1>3, <3>1, <3>4
  <2>. QED  BY <2>1, <2>6, <2>7, <2>8
<1>. QED  BY <1>4, <1>5, <1>6 DEF Return

\* Deallocate: the chunk of a block becomes free, and is never refused.
LEMMA DeallocateStep ==
  ASSUME NEW F \in SUBSET Words, Arena(F), NEW b \in live, Deallocate(b)
  PROVE  \E G \in SUBSET Words : Arena(G)'
<1>. DEFINE c == Header(mem, b.addr)
            L == live \ {b}
<1>1. /\ Layout(mem, freeList, F, {}, live) /\ policy \in Policies
      /\ allocatedChunks = Cardinality(live) /\ freeChunks = Cardinality(F)
      /\ freeBytes = Cardinality(Cover(mem, F)) /\ allocatedBytes = Total - freeBytes
  BY DEF Arena
<1>2. Hand(mem, freeList, F, c, L)
  BY <1>1, TakenBack
<1>3. PICK bytes \in {0, b.bytes} :
        \/ Refused(c, bytes)
        \/ Return(c)
        \/ AlreadyFreed(c)
  BY DEF Deallocate, DoDeallocate, ChunkOf, Header, ChunkOffset
<1>4. live' = L /\ freed' = b /\ policy' = policy
  BY DEF Deallocate
<1>5. /\ b \in Blocks /\ c < b.addr /\ b.addr < c + mem[c] /\ b.addr + b.bytes <= c + mem[c]
  BY <1>1 DEF Layout, Holds
<1>6. b.addr \in Nat /\ b.bytes \in Nat /\ b.addr \in Words
  BY <1>5, WordsAreNumbers, RequestAssumption DEF Blocks
<1>. HIDE DEF c, L
<1>7. /\ c \in Nat /\ mem[c] \in Int
      /\ c \in Words /\ mem \in [Words -> Int]
  BY <1>2, InHand
<1>8. ~ Refused(c, bytes)
  <2>1. bytes \in Nat /\ bytes <= b.bytes
    BY <1>6
  <2>. QED  BY <1>5, <1>6, <1>7, <2>1 DEF Refused, Size, ChunkOffset
<1>9. ~ AlreadyFreed(c)
  <2>. SUFFICES ASSUME AlreadyFreed(c)
                PROVE  FALSE
    OBVIOUS
  <2>1. PICK p, n : Around(c, p, n) /\ p + mem[p] > c
    BY DEF AlreadyFreed, Size
  <2>2. Layout(mem, freeList, F, {c}, L)
    BY <1>2 DEF Hand
  <2>3. p \in F /\ Between(mem, p, c, n)
    BY <2>1, <2>2, AroundBetween
  <2>4. p + mem[p] <= c /\ p + mem[p] \in Int
    BY <1>2, <2>3, Neighbours
  <2>. QED  BY <1>7, <2>1, <2>4
<1>10. Return(c)
  BY <1>3, <1>8, <1>9
<1>11. PICK G \in SUBSET Words :
         Returned(mem, mem', freeList', F, G, c, L) /\ freeChunks' = Cardinality(G)
  BY <1>1, <1>2, <1>10, ReturnLayout
<1>12. /\ Layout(mem', freeList', G, {}, live')
       /\ Cover(mem', G) = Cover(mem, F) \union Within(mem, c)
       /\ \A w \in Within(mem, c) : mem'[w] = mem[w] \/ mem'[w] >= 0
  BY <1>4, <1>11 DEF Returned
<1>13. /\ allocatedBytes' = allocatedBytes - mem[c] /\ freeBytes' = freeBytes + mem[c]
       /\ allocatedChunks' = allocatedChunks - 1
  BY <1>10 DEF Return, Size
<1>14. freeBytes' = Cardinality(Cover(mem', G)) /\ allocatedBytes' = Total - freeBytes'
  <2>1. /\ Cover(mem, F) \subseteq Words /\ mem[c] \in Nat
        /\ Cardinality(Cover(mem', G)) = Cardinality(Cover(mem, F)) + mem[c]
    BY <1>2, <1>12, ChunkCounted
  <2>2. Cardinality(Cover(mem, F)) \in Nat /\ Total \in Nat
    BY <2>1, Countable, WordsAreNumbers
  <2>. QED  BY <1>1, <1>13, <2>1, <2>2
<1>15. allocatedChunks' = Cardinality(live')
  <2>1. IsFiniteSet(live)
    BY <1>1, BlocksCounted
  <2>. QED  BY <1>1, <1>4, <1>13, <2>1, FS_RemoveElement DEF L
<1>16. Header(mem', b.addr) \in Cover(mem', G)
  <2>. DEFINE h == b.addr - 1
  <2>1. h \in Within(mem, c) /\ c \in Within(mem, c)
    BY <1>5, <1>6, <1>7 DEF Within
  <2>2. mem'[h] = mem[h] \/ mem'[h] >= 0
    BY <1>12, <2>1
  <2>3. CASE mem'[h] = mem[h]
    <3>1. Header(mem', b.addr) = c
      BY <2>3 DEF Header, c
    <3>. QED  BY <1>12, <2>1, <3>1
  <2>4. CASE mem'[h] >= 0
    <3>1. mem'[h] \in Int
      <4>1. h \in Words
        BY <1>2, <2>1, ChunkCounted
      <4>. QED  BY <1>12, <4>1 DEF Layout
    <3>2. Header(mem', b.addr) = h
      BY <2>4, <3>1 DEF Header
    <3>. QED  BY <1>12, <2>1, <3>2
  <2>. QED  BY <2>2, <2>3, <2>4
<1>17. Arena(G)'
  BY <1>1, <1>4, <1>5, <1>11, <1>12, <1>14, <1>15, <1>16 DEF Arena
<1>. QED  BY <1>17

\* DeallocateAgain: the header that is found is inside a free chunk, so that
\* nothing happens.
LEMMA FreedAgain ==
  ASSUME NEW F \in SUBSET Words, Arena(F), DeallocateAgain
  PROVE  UNCHANGED vars
<1>. DEFINE c == Header(mem, freed.addr)
            X == {}
<1>1. Layout(mem, freeList, F, X, live)
  BY DEF Arena
<1>2. freed # NoBlock /\ UNCHANGED <<policy, live, freed>>
  BY DEF DeallocateAgain
<1>3. PICK bytes : Refused(c, bytes) \/ Return(c) \/ AlreadyFreed(c)
  BY DEF DeallocateAgain, DoDeallocate, ChunkOf, Header, ChunkOffset
<1>4. c \in Cover(mem, F)
  BY <1>2 DEF Arena
<1>. HIDE DEF c, X
<1>b. /\ Chain(mem, freeList, F) /\ F \subseteq Nat /\ Null \notin F
      /\ \A d \in F : /\ d \in Nat /\ mem[d] \in Int /\ mem[d] >= 2
      /\ \A d, e \in F : d < e => d + mem[d] <= e
  <2>1. F \subseteq Parts(mem, F, X, live)
    BY DEF Parts
  <2>. QED  BY <1>1, <2>1, LayoutFacts
<1>5. PICK q \in F : c \in Within(mem, q)
  BY <1>4 DEF Cover
<1>6. q \in Nat /\ mem[q] \in Int /\ c \in Nat /\ q <= c /\ c < q + mem[q]
  BY <1>5, <1>b DEF Within
<1>7. freeList \in F /\ freeList \in Nat /\ freeList # Null /\ freeList <= c
  <2>1. freeList \in F /\ freeList <= q /\ freeList # Null
    BY <1>b DEF Chain
  <2>. QED  BY <1>6, <1>b, <2>1
<1>8. ASSUME NEW p, NEW n, Around(c, p, n)
      PROVE  p \in Nat /\ mem[p] \in Int /\ p + mem[p] > c
  <2>1. p \in F /\ Between(mem, p, c, n)
    BY <1>1, <1>8, AroundBetween
  <2>2. p \in Nat /\ mem[p] \in Int /\ p <= c
    BY <1>b, <2>1 DEF Between
  <2>3. q <= p
    <3>1. /\ n = Null => \A d \in F : d <= p
          /\ n # Null => n \in F /\ n > c /\ \A d \in F : d <= p \/ n <= d
      BY <1>b, <2>1 DEF Between, Chain
    <3>2. ASSUME n # Null
          PROVE  n \in Nat /\ ~ (n <= q)
      <4>1. n \in Nat /\ n > c
        BY <1>b, <3>1, <3>2
      <4>. QED  BY <1>6, <4>1
    <3>. QED  BY <3>1, <3>2
  <2>4. q = p
    <3>1. q < p => q + mem[q] <= p
      BY <1>b, <2>1
    <3>. QED  BY <1>6, <2>2, <2>3, <3>1
  <2>. QED  BY <1>6, <2>2, <2>4
<1>9. ~ Return(c)
  <2>1. ~ EmptyList(c)
    BY <1>7 DEF EmptyList
  <2>2. ~ BeforeHead(c)
    BY <1>6, <1>7 DEF BeforeHead
  <2>3. ASSUME NEW p, NEW n, Around(c, p, n)
        PROVE  ~ (JoinPrevious(c, p, n) \/ JoinNext(c, p, n) \/ Insert(c, p, n))
    <3>1. p \in Nat /\ mem[p] \in Int /\ p + mem[p] > c
      BY <1>8, <2>3
    <3>. QED  BY <1>6, <3>1 DEF JoinPrevious, JoinNext, Insert, Size
  <2>. QED  BY <2>1, <2>2, <2>3 DEF Return
<1>10. UNCHANGED <<mem, freeList, statistics>>
  BY <1>3, <1>9 DEF Refused, AlreadyFreed
<1>. QED  BY <1>2, <1>10 DEF vars, statistics

\* The whole arena is one free chunk.
LEMMA WholeArena ==
  ASSUME NEW m \in [Words -> Int], m[Base] = Total, m[Base + 1] = Null
  PROVE  /\ Layout(m, Base, {Base}, {}, {}) /\ {Base} \in SUBSET Words
         /\ Cardinality(Cover(m, {Base})) = Total
         /\ Cardinality({Base}) = 1 /\ Cardinality({}) = 0
<1>1. /\ Base \in Nat /\ Base # Null /\ Base \in Words /\ Total \in Nat /\ Total > 2
      /\ \A w \in Words : w \in Int /\ Base <= w /\ w < Base + Total
      /\ End = Base + Total
  BY WordsAreNumbers DEF End
<1>2. Parts(m, {Base}, {}, {}) = {Base}
  BY DEF Parts, Heads
<1>3. Tiles(m, {Base})
  BY <1>1 DEF Tiles
<1>4. Chain(m, Base, {Base}) /\ Gaps(m, {Base})
  BY <1>1 DEF Chain, Gaps
<1>5. Layout(m, Base, {Base}, {}, {})
  BY <1>2, <1>3, <1>4 DEF Layout
<1>6. Cover(m, {Base}) = Words
  BY <1>1 DEF Cover, Within, Words
<1>. QED  BY <1>1, <1>5, <1>6, Countable, FS_Singleton, FS_EmptySet

\* internal_construct_ and internal_reset_ lay it out.
LEMMA InitInv == Init => Inv
<1>. SUFFICES ASSUME Init
              PROVE  Inv
  OBVIOUS
<1>1. mem \in [Words -> Int] /\ mem[Base] = Total /\ mem[Base + 1] = Null
  <2>1. Base \in Words /\ Base + 1 \in Words /\ Base # Base + 1 /\ Total \in Int /\ Null \in Int
    BY WordsAreNumbers DEF End, Null
  <2>2. mem = [w \in Words |-> IF w = Base THEN Total ELSE Null]
    BY DEF Init
  <2>. QED  BY <2>1, <2>2
<1>2. /\ Layout(mem, freeList, {Base}, {}, live) /\ {Base} \in SUBSET Words
      /\ Cardinality(Cover(mem, {Base})) = Total
      /\ Cardinality({Base}) = 1 /\ Cardinality(live) = 0
  BY <1>1, WholeArena DEF Init
<1>3. Arena({Base})
  BY <1>2, WordsAreNumbers DEF Init, Arena
<1>. QED  BY <1>2, <1>3 DEF Inv

\* do_reset lays it out again.
LEMMA ResetStep ==
  ASSUME NEW F \in SUBSET Words, Arena(F), Reset
  PROVE  \E G \in SUBSET Words : Arena(G)'
<1>1. mem \in [Words -> Int] /\ policy \in Policies
  BY DEF Arena, Layout
<1>2. mem' \in [Words -> Int] /\ mem'[Base] = Total /\ mem'[Base + 1] = Null
  <2>1. Base \in Words /\ Base + 1 \in Words /\ Base # Base + 1 /\ Total \in Int /\ Null \in Int
    BY WordsAreNumbers DEF End, Null
  <2>2. mem' = [mem EXCEPT ![Base] = Total, ![Base + 1] = Null]
    BY DEF Reset, ChunkOffset
  <2>. QED  BY <1>1, <2>1, <2>2
<1>3. /\ Layout(mem', freeList', {Base}, {}, live') /\ {Base} \in SUBSET Words
      /\ Cardinality(Cover(mem', {Base})) = Total
      /\ Cardinality({Base}) = 1 /\ Cardinality(live') = 0
  BY <1>2, WholeArena DEF Reset
<1>4. Arena({Base})'
  BY <1>1, <1>3, WordsAreNumbers DEF Reset, Arena
<1>. QED  BY <1>3, <1>4

\* Every step keeps the invariant.
LEMMA InvStep ==
  ASSUME Fits, Inv, [Next]_vars
  PROVE  Inv'
<1>1. PICK F \in SUBSET Words : Arena(F)
  BY DEF Inv
<1>2. ASSUME NEW bytes \in Sizes, NEW align \in Alignments, Allocate(bytes, align)
      PROVE  Inv'
  BY <1>1, <1>2, AllocateStep DEF Inv
<1>3. ASSUME NEW b \in live, Deallocate(b)
      PROVE  Inv'
  BY <1>1, <1>3, DeallocateStep DEF Inv
<1>4. ASSUME UNCHANGED vars
      PROVE  Inv'
  <2>1. Arena(F)'
    BY <1>1, <1>4 DEF Arena, vars, statistics
  <2>. QED  BY <2>1 DEF Inv
<1>5. CASE DeallocateAgain
  BY <1>1, <1>4, <1>5, FreedAgain
<1>6. CASE Reset
  BY <1>1, <1>6, ResetStep DEF Inv
<1>. QED  BY <1>2, <1>3, <1>4, <1>5, <1>6 DEF Next

\* It holds in every state that can be reached.
LEMMA SpecInv ==
  ASSUME Fits
  PROVE  Spec => []Inv
<1>1. Init => Inv
  BY InitInv
<1>2. Inv /\ [Next]_vars => Inv'
  BY InvStep
<1>. QED  BY <1>1, <1>2, PTL DEF Spec
-----------------------------------------------------------------------------
\* The list that Free follows is the set of free chunks.
LEMMA FreeIs ==
  ASSUME NEW F \in SUBSET Words, Arena(F)
  PROVE  /\ FreeSet = F /\ Chunks = Parts(mem, F, {}, live)
         /\ \A c : Extent(c) = Within(mem, c)
         /\ \A k \in 0..(Total - 1) : Free[k + 1] # Null =>
              /\ Free[k] \in F /\ Free[k + 1] \in F /\ Free[k] < Free[k + 1]
<1>. DEFINE X == {}
<1>1. Layout(mem, freeList, F, X, live)
  BY DEF Arena
<1>2. X = {}
  OBVIOUS
<1>. HIDE DEF X
<1>b. Chain(mem, freeList, F) /\ F \subseteq Words /\ \A d \in F : d + 1 \in Words
  <2>1. F \subseteq Parts(mem, F, X, live)
    BY DEF Parts
  <2>. QED  BY <1>1, <2>1, LayoutFacts
<1>f. /\ \A i \in 0..Total : Free[i] \in F \union {Null}
      /\ \A i \in 0..(Total - 1) :
           Free[i + 1] = IF Free[i] = Null THEN Null ELSE mem[Free[i] + 1]
      /\ FreeSet = F
  BY <1>b, FreeFollows
<1>3. \A b \in live : ChunkOf(b.addr) = Header(mem, b.addr)
  BY DEF ChunkOf, Header, ChunkOffset
<1>4. Chunks = Parts(mem, F, {}, live)
  BY <1>3, <1>f DEF Chunks, Parts, Heads
<1>5. \A c : Extent(c) = Within(mem, c)
  BY DEF Extent, Within, Size
<1>6. ASSUME NEW k \in 0..(Total - 1), Free[k + 1] # Null
      PROVE  Free[k] \in F /\ Free[k + 1] \in F /\ Free[k] < Free[k + 1]
  <2>1. k \in 0..Total
    BY WordsAreNumbers
  <2>2. Free[k] \in F /\ Free[k + 1] = mem[Free[k] + 1]
    BY <1>6, <1>f, <2>1
  <2>3. mem[Free[k] + 1] \in F /\ Free[k] < mem[Free[k] + 1]
    BY <1>6, <1>b, <2>2 DEF Chain
  <2>. QED  BY <2>2, <2>3
<1>. QED  BY <1>4, <1>5, <1>6, <1>f

\* The invariant says all that is asked of the arena and of the blocks.
LEMMA ArenaIsSound ==
  ASSUME NEW F \in SUBSET Words, Arena(F)
  PROVE  ArenaSound /\ BlocksIntact
<1>. DEFINE X == {}
            A == Parts(mem, F, X, live)
<1>1. /\ Layout(mem, freeList, F, X, live) /\ policy \in Policies
      /\ allocatedChunks = Cardinality(live) /\ freeChunks = Cardinality(F)
      /\ freeBytes = Cardinality(Cover(mem, F)) /\ allocatedBytes = Total - freeBytes
  BY DEF Arena
<1>2. X = {}
  OBVIOUS
<1>. HIDE DEF X, A
<1>3. /\ mem \in [Words -> Int] /\ live \subseteq Blocks /\ Tiles(mem, A)
      /\ Chain(mem, freeList, F) /\ Gaps(mem, F)
      /\ Heads(mem, live) \intersect (F \union X) = {}
      /\ F \subseteq A /\ Heads(mem, live) \subseteq A
      /\ \A c \in A : /\ c \in Nat /\ mem[c] \in Int /\ mem[c] >= 2
                      /\ Within(mem, c) \subseteq Words
      /\ \A c, d \in A : c # d => Within(mem, c) \intersect Within(mem, d) = {}
  BY <1>1, LayoutFacts DEF A
<1>4. /\ FreeSet = F /\ Chunks = A
      /\ \A c : Extent(c) = Within(mem, c)
      /\ \A k \in 0..(Total - 1) : Free[k + 1] # Null =>
           /\ Free[k] \in F /\ Free[k + 1] \in F /\ Free[k] < Free[k + 1]
  BY <1>2, FreeIs DEF A
<1>5. \A b \in live : ChunkOf(b.addr) = Header(mem, b.addr)
  BY DEF ChunkOf, Header, ChunkOffset
<1>6. TypeOK
  <2>1. freeList \in Words \union {Null}
    BY <1>3 DEF Chain
  <2>2. Cover(mem, F) \subseteq Words
    BY <1>3 DEF Cover
  <2>3. /\ Cardinality(Cover(mem, F)) \in Nat /\ Cardinality(Cover(mem, F)) <= Total
        /\ Cardinality(F) \in Nat /\ Cardinality(F) <= Total
    BY <2>2, Countable
  <2>4. Cardinality(live) \in Nat /\ Cardinality(live) <= Total
    BY <1>1, BlocksCounted
  <2>5. Total \in Nat
    BY WordsAreNumbers
  <2>. QED  BY <1>1, <1>3, <2>1, <2>3, <2>4, <2>5 DEF TypeOK, Blocks
<1>7. Tiled
  <2>1. UNION {Extent(c) : c \in Chunks} = Words
    <3>1. Cover(mem, A) = Words
      BY <1>3, Apart
    <3>. QED  BY <1>4, <3>1 DEF Cover
  <2>2. \A c \in Chunks : Extent(c) \subseteq Words /\ Size(c) >= 2
    BY <1>3, <1>4 DEF Size
  <2>3. \A c, d \in Chunks : c # d => Extent(c) \cap Extent(d) = {}
    BY <1>3, <1>4
  <2>4. \A b, d \in live : b # d => ChunkOf(b.addr) # ChunkOf(d.addr)
    BY <1>1, <1>5 DEF Layout
  <2>5. \A b \in live : ChunkOf(b.addr) \notin FreeSet
    BY <1>1, <1>4, <1>5 DEF Layout
  <2>. QED  BY <1>4, <2>1, <2>2, <2>3, <2>4, <2>5 DEF Tiled
<1>8. FreeListJoined
  BY <1>3, <1>4 DEF FreeListJoined, Gaps, Size
<1>9. StatisticsAgree
  <2>1. UNION {Extent(c) : c \in FreeSet} = Cover(mem, F)
    BY <1>4 DEF Cover
  <2>2. Total \in Nat /\ freeBytes \in Int
    BY <1>6, WordsAreNumbers DEF TypeOK
  <2>. QED  BY <1>1, <1>4, <2>1, <2>2 DEF StatisticsAgree
<1>10. BlocksIntact
  <2>. SUFFICES ASSUME NEW b \in live
                PROVE  LET mine == b.addr..(b.addr + b.bytes - 1)
                       IN  /\ b.addr % b.align = 0
                           /\ mine \subseteq Extent(ChunkOf(b.addr)) \ {ChunkOf(b.addr)}
                           /\ \A w \in mine : mem[w] = Data
    BY DEF BlocksIntact
  <2>. DEFINE c == Header(mem, b.addr)
  <2>1. /\ c < b.addr /\ b.addr < c + mem[c] /\ b.addr + b.bytes <= c + mem[c]
        /\ b.addr % b.align = 0
        /\ \A w \in b.addr..(b.addr + b.bytes - 1) : mem[w] = Data
    BY <1>1 DEF Layout, Holds
  <2>2. b.addr \in Nat /\ b.bytes \in Nat
    BY <1>3, WordsAreNumbers, RequestAssumption DEF Blocks
  <2>3. c \in Nat /\ mem[c] \in Int
    BY <1>3 DEF Heads
  <2>4. Extent(ChunkOf(b.addr)) = Within(mem, c) /\ ChunkOf(b.addr) = c
    BY <1>4, <1>5
  <2>. HIDE DEF c
  <2>5. b.addr..(b.addr + b.bytes - 1) \subseteq Within(mem, c) \ {c}
    BY <2>1, <2>2, <2>3 DEF Within
  <2>. QED  BY <2>1, <2>4, <2>5
<1>. QED  BY <1>6, <1>7, <1>8, <1>9, <1>10 DEF ArenaSound
-----------------------------------------------------------------------------
\* After any calls of do_allocate, do_deallocate and do_reset the chunks tile
\* the arena, the free ones are in order and joined, and the counters agree,
\* for every arena, policy, size and alignment, provided that lifo is not
\* asked for more than its first chunk holds.
THEOREM ArenaStaysSound ==
  ASSUME ~ Overrun \/ "lifo" \notin Policies
  PROVE  Spec => []ArenaSound
<1>1. Fits
  BY DEF Fits
<1>2. Inv => ArenaSound
  BY ArenaIsSound DEF Inv
<1>. QED  BY <1>1, <1>2, SpecInv, PTL

\* A block is aligned, lies in its chunk behind the header, and is as its
\* caller left it until it is freed.
THEOREM BlocksStayIntact ==
  ASSUME ~ Overrun \/ "lifo" \notin Policies
  PROVE  Spec => []BlocksIntact
<1>1. Fits
  BY DEF Fits
<1>2. Inv => BlocksIntact
  BY ArenaIsSound DEF Inv
<1>. QED  BY <1>1, <1>2, SpecInv, PTL

\* To free a block again changes nothing, wherever its old header ended up.
THEOREM SecondFreeIgnored ==
  ASSUME ~ Overrun \/ "lifo" \notin Policies
  PROVE  Spec => FreeAgainIgnored
<1>1. Fits
  BY DEF Fits
<1>2. Inv /\ [Next]_vars => [DeallocateAgain => UNCHANGED vars]_vars
  BY FreedAgain DEF Inv
<1>. QED  BY <1>1, <1>2, SpecInv, PTL DEF Spec, FreeAgainIgnored
==============================================================================
