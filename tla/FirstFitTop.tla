---------------------------- MODULE FirstFitTop ----------------------------
(***************************************************************************)
(* memory::first_fit_top (first-fit-top.cpp) and memory::lifo (lifo.cpp),  *)
(* which differs in do_allocate only: the allocators behind operator new   *)
(* and malloc.  A chunk starts with its size; a free one goes on with the  *)
(* address of the next free chunk, an allocated one with the payload.      *)
(* Headers and payload live in the same words, so the model keeps the      *)
(* arena word by word: `mem' is what the words hold.                       *)
(*                                                                         *)
(* The unit is the word (a pointer), to which align_size() rounds every    *)
(* request.  The callers hold the scheduler's lock: a call is one step.    *)
(* An out of memory handler frees a block and lets the call try again,     *)
(* which is a Deallocate and another Allocate here.  Asserts are off.      *)
(***************************************************************************)
EXTENDS Integers, FiniteSets

CONSTANTS Base,        \* arena_addr_, in words
          Total,       \* total_bytes_, in words
          Policies,    \* of "first_fit" and "lifo"
          Overrun,     \* lifo is asked for more than the first chunk holds
          Sizes,       \* sizes requested, in words
          Alignments   \* powers of two, in words

ASSUME ArenaAssumption == Base \in Nat \ {0} /\ Total \in Nat /\ Total > 2
ASSUME RequestAssumption ==
  /\ Policies \subseteq {"first_fit", "lifo"} /\ Overrun \in BOOLEAN
  /\ Sizes \subseteq Nat
  /\ Alignments \subseteq Nat \ {0}

VARIABLES policy,          \* the class of the resource
          mem,             \* the words of the arena
          freeList,        \* free_list_
          allocatedBytes,  \* allocated_bytes_
          freeBytes,       \* free_bytes_
          allocatedChunks, \* allocated_chunks_
          freeChunks,      \* free_chunks_
          live,            \* the blocks the callers hold
          freed            \* the block freed by the last call, if it was one

statistics == <<allocatedBytes, freeBytes, allocatedChunks, freeChunks>>
vars == <<policy, mem, freeList, statistics, live, freed>>

Words == Base..(Base + Total - 1)
Null == 0
Data == Base + Total      \* what the callers write into their blocks

\* The header: one word of size, then the link of a free chunk.
ChunkOffset == 1
BlockMinSize == 1

Size(c) == mem[c]
Link(c) == mem[c + ChunkOffset]

LargerOf(x, y) == IF x > y THEN x ELSE y

\* The free list from its head: free[k] is the chunk after k links.  (A list
\* that leads out of the arena is not followed, see Tiled.)
Free ==
  LET free[k \in 0..Total] ==
        IF k = 0 THEN freeList
        ELSE IF free[k - 1] # Null /\ free[k - 1] + ChunkOffset \in Words
        THEN Link(free[k - 1])
        ELSE Null
  IN  free

FreeSet == LET free == Free IN {free[k] : k \in 0..Total} \ {Null}

NoBlock == [addr |-> Null, bytes |-> 0, align |-> 1]
-----------------------------------------------------------------------------
\* internal_construct_, internal_reset_: one free chunk, the whole arena.
Init ==
  /\ policy \in Policies
  /\ mem = [w \in Words |-> CASE w = Base -> Total [] OTHER -> Null]
  /\ freeList = Base
  /\ allocatedBytes = 0 /\ freeBytes = Total
  /\ allocatedChunks = 0 /\ freeChunks = 1
  /\ live = {} /\ freed = NoBlock

\* Mutant of AllocSize: no room for the alignment.
AllocSizeUnpadded(bytes, align) == LargerOf(bytes + ChunkOffset, 2)

\* calc_block_padding, calc_block_minchunk, and the size of the chunk a
\* request needs.
Padding(align) == LargerOf(align, 1) - 1
MinChunk(align) == ChunkOffset + BlockMinSize + Padding(align)
AllocSize(bytes, align) ==
  LargerOf(bytes + Padding(align) + ChunkOffset, MinChunk(align))

\* The position in the free list of the chunk do_allocate settles for.
FirstFits(k, size) ==
  /\ Free[k] # Null /\ Size(Free[k]) >= size
  /\ \A j \in 0..(k - 1) : Size(Free[j]) < size

\* lifo takes the first free chunk if it is at the start of the arena.
TopFits(k) == k = 0 /\ freeList = Base

\* internal_align_: the payload's address in chunk c and, when that leaves
\* a gap, minus the gap in the word before the payload.
Payload(m, c, bytes, align) ==
  LET room == m[c] - ChunkOffset
      start == c + ChunkOffset
      aligned == CHOOSE a \in start..(start + align - 1) : a % align = 0
      fits == aligned - start + bytes <= room
      addr == IF fits THEN aligned ELSE start
  IN  [addr |-> addr,
       mem |-> IF addr = start THEN m
               ELSE [m EXCEPT ![addr - ChunkOffset] = start - addr]]

\* The chunk is handed out: statistics, alignment; the caller fills it.
HandOut(m, c, bytes, align) ==
  LET p == Payload(m, c, bytes, align)
      mine == p.addr..(p.addr + bytes - 1)
  IN  /\ mem' = [w \in Words |-> IF w \in mine THEN Data ELSE p.mem[w]]
      /\ live' = live \union {[addr |-> p.addr, bytes |-> bytes, align |-> align]}
      /\ allocatedBytes' = allocatedBytes + m[c]
      /\ freeBytes' = freeBytes - m[c]
      /\ allocatedChunks' = allocatedChunks + 1
      /\ freed' = NoBlock

\* Much larger than needed: the chunk keeps its bottom, the top is used.
Split(c, size, bytes, align) ==
  LET rem == Size(c) - size
      top == c + rem
  IN  /\ rem >= MinChunk(align)
      /\ HandOut([mem EXCEPT ![c] = rem, ![top] = size], top, bytes, align)
      /\ UNCHANGED <<freeList, freeChunks>>    \* ++ for the split, -- here

\* As large as needed, or slightly larger: the chunk leaves the list.
Unlink(k, size, bytes, align) ==
  LET c == Free[k]
  IN  /\ Size(c) - size \in 0..(MinChunk(align) - 1)
      /\ freeList' = IF k = 0 THEN Link(c) ELSE freeList
      /\ HandOut(IF k = 0 THEN mem
                 ELSE [mem EXCEPT ![Free[k - 1] + ChunkOffset] = Link(c)],
                 c, bytes, align)
      /\ freeChunks' = freeChunks - 1

\* lifo: `chunk' is set before the sizes are compared, and a chunk that is
\* too small is still returned.
ReturnSmall(c, size, bytes, align) ==
  /\ Overrun
  /\ policy = "lifo" /\ Size(c) < size
  /\ HandOut(mem, c, bytes, align)
  /\ freeChunks' = freeChunks - 1
  /\ UNCHANGED freeList

\* do_allocate, when it does not return nullptr.
Allocate(bytes, align) ==
  LET size == AllocSize(bytes, align)
  IN  \E k \in 0..Total :
        /\ IF policy = "lifo" THEN TopFits(k) ELSE FirstFits(k, size)
        /\ \/ Split(Free[k], size, bytes, align)
           \/ Unlink(k, size, bytes, align)
           \/ ReturnSmall(Free[k], size, bytes, align)
        /\ UNCHANGED policy
-----------------------------------------------------------------------------
\* The chunk of the payload at addr, over the gap that aligned it.
ChunkOf(addr) ==
  LET h == addr - ChunkOffset
  IN  IF mem[h] < 0 THEN h + mem[h] ELSE h

EmptyList(c) ==
  /\ freeList = Null
  /\ mem' = [mem EXCEPT ![c + ChunkOffset] = Null]
  /\ freeList' = c
  /\ freeChunks' = freeChunks + 1

BeforeHead(c) ==
  /\ c < freeList
  /\ freeList' = c
  /\ IF c + Size(c) = freeList
     THEN /\ mem' = [mem EXCEPT ![c] = @ + Size(freeList),
                                ![c + ChunkOffset] = Link(freeList)]
          /\ UNCHANGED freeChunks
     ELSE /\ mem' = [mem EXCEPT ![c + ChunkOffset] = freeList]
          /\ freeChunks' = freeChunks + 1

\* Free chunks p and n are the neighbours of c in the list, n may be Null.
Around(c, p, n) ==
  \E k \in 0..(Total - 1) :
    /\ Free[k] = p /\ p # Null /\ p <= c
    /\ Free[k + 1] = n /\ (n = Null \/ n > c)

\* Mutant of JoinPrevious: the chunk after it is not joined as well.
JoinPreviousOnly(c, p, n) ==
  /\ p + Size(p) = c
  /\ mem' = [mem EXCEPT ![p] = @ + Size(c)]
  /\ UNCHANGED <<freeList, freeChunks>>

JoinPrevious(c, p, n) ==
  /\ p + Size(p) = c
  /\ UNCHANGED freeList
  /\ IF c + Size(c) = n
     THEN /\ mem' = [mem EXCEPT ![p] = @ + Size(c) + Size(n),
                                ![p + ChunkOffset] = Link(n)]
          /\ freeChunks' = freeChunks - 1
     ELSE /\ mem' = [mem EXCEPT ![p] = @ + Size(c)]
          /\ UNCHANGED freeChunks

JoinNext(c, p, n) ==
  /\ p + Size(p) < c /\ c + Size(c) = n
  /\ mem' = [mem EXCEPT ![c] = @ + Size(n), ![c + ChunkOffset] = Link(n),
                        ![p + ChunkOffset] = c]
  /\ UNCHANGED <<freeList, freeChunks>>

Insert(c, p, n) ==
  /\ p + Size(p) < c /\ c + Size(c) # n
  /\ mem' = [mem EXCEPT ![c + ChunkOffset] = n, ![p + ChunkOffset] = c]
  /\ freeChunks' = freeChunks + 1
  /\ UNCHANGED freeList

\* The chunk becomes free; the first four branches of do_deallocate that do
\* not give up.
Return(c) ==
  /\ \/ EmptyList(c)
     \/ BeforeHead(c)
     \/ /\ freeList # Null /\ c >= freeList
        /\ \E p, n \in FreeSet \union {Null} :
             /\ Around(c, p, n)
             /\ JoinPrevious(c, p, n) \/ JoinNext(c, p, n) \/ Insert(c, p, n)
  /\ allocatedBytes' = allocatedBytes - Size(c)
  /\ freeBytes' = freeBytes + Size(c)
  /\ allocatedChunks' = allocatedChunks - 1

\* Mutant of AlreadyFreed: the statistics are not reverted.
AlreadyFreedCounted(c) ==
  /\ freeList # Null /\ c >= freeList
  /\ \E p, n \in FreeSet \union {Null} : Around(c, p, n) /\ p + Size(p) > c
  /\ allocatedBytes' = allocatedBytes - Size(c)
  /\ freeBytes' = freeBytes + Size(c)
  /\ allocatedChunks' = allocatedChunks - 1
  /\ freeChunks' = freeChunks + 1
  /\ UNCHANGED <<mem, freeList>>

\* "Already freed": the chunk is inside a free one.
AlreadyFreed(c) ==
  /\ freeList # Null /\ c >= freeList
  /\ \E p, n \in FreeSet \union {Null} : Around(c, p, n) /\ p + Size(p) > c
  /\ UNCHANGED <<mem, freeList, statistics>>

\* A size that is known and does not fit the chunk is an error.
Refused(c, bytes) ==
  /\ bytes # 0 /\ bytes + ChunkOffset > Size(c)
  /\ UNCHANGED <<mem, freeList, statistics>>

\* do_deallocate, of any block, with its size or, from free(), without.
DoDeallocate(b, bytes) ==
  LET c == ChunkOf(b.addr)
  IN  \/ Refused(c, bytes)
      \/ /\ bytes = 0 \/ bytes + ChunkOffset <= Size(c)
         /\ Return(c) \/ AlreadyFreed(c)

Deallocate(b) ==
  /\ \E bytes \in {0, b.bytes} : DoDeallocate(b, bytes)
  /\ live' = live \ {b}
  /\ freed' = b
  /\ UNCHANGED policy

\* A caller frees again what was freed by the call before.
DeallocateAgain ==
  /\ freed # NoBlock
  /\ \E bytes \in {0, freed.bytes} : DoDeallocate(freed, bytes)
  /\ UNCHANGED <<policy, live, freed>>

\* do_reset; the callers drop what they hold.
Reset ==
  /\ mem' = [mem EXCEPT ![Base] = Total, ![Base + ChunkOffset] = Null]
  /\ freeList' = Base
  /\ allocatedBytes' = 0 /\ freeBytes' = Total
  /\ allocatedChunks' = 0 /\ freeChunks' = 1
  /\ live' = {} /\ freed' = NoBlock
  /\ UNCHANGED policy

Next ==
  \/ \E bytes \in Sizes, align \in Alignments : Allocate(bytes, align)
  \/ \E b \in live : Deallocate(b)
  \/ DeallocateAgain
  \/ Reset

Spec == Init /\ [][Next]_vars
-----------------------------------------------------------------------------
\* The words of the chunk at c.
Extent(c) == c..(c + Size(c) - 1)

Chunks == FreeSet \union {ChunkOf(b.addr) : b \in live}

\* Type invariant.
TypeOK ==
  /\ policy \in Policies
  /\ mem \in [Words -> Int]
  /\ freeList \in Words \union {Null}
  /\ allocatedBytes \in 0..Total /\ freeBytes \in 0..Total
  /\ allocatedChunks \in 0..Total /\ freeChunks \in 0..Total
  /\ live \subseteq [addr : Words, bytes : Sizes, align : Alignments]

\* No word is in two chunks and none is in no chunk, whatever was split from
\* the top and joined with either neighbour.
Tiled ==
  /\ FreeSet \subseteq Words
  /\ \A c \in Chunks : Extent(c) \subseteq Words /\ Size(c) >= 2
  /\ \A c, d \in Chunks : c # d => Extent(c) \cap Extent(d) = {}
  /\ \A b, d \in live : b # d => ChunkOf(b.addr) # ChunkOf(d.addr)
  /\ \A b \in live : ChunkOf(b.addr) \notin FreeSet
  /\ UNION {Extent(c) : c \in Chunks} = Words

\* The list goes up in address, which do_deallocate relies on to find both
\* neighbours, and two free chunks never touch: what can be joined is.
FreeListJoined ==
  \A k \in 0..(Total - 1) :
    Free[k + 1] # Null => Free[k] + Size(Free[k]) < Free[k + 1]

\* What the statistics functions return, and do_deallocate asserts, is the
\* number and the size of the chunks.
StatisticsAgree ==
  /\ allocatedChunks = Cardinality(live)
  /\ freeChunks = Cardinality(FreeSet)
  /\ freeBytes = Cardinality(UNION {Extent(c) : c \in FreeSet})
  /\ allocatedBytes + freeBytes = Total

\* After any sequence of calls the free chunks and the chunks of the blocks
\* held tile the arena, the free ones are in order and fully joined, and the
\* counters agree with them (do_allocate, do_deallocate, do_reset).
ArenaSound == TypeOK /\ Tiled /\ FreeListJoined /\ StatisticsAgree

\* A block a caller holds is aligned as it asked, lies in its own chunk
\* behind the header, and no call for another block writes into it.
BlocksIntact ==
  \A b \in live :
    LET mine == b.addr..(b.addr + b.bytes - 1)
    IN  /\ b.addr % b.align = 0
        /\ mine \subseteq Extent(ChunkOf(b.addr)) \ {ChunkOf(b.addr)}
        /\ \A w \in mine : mem[w] = Data

\* "If the block is already in the free list, issue a trace message, but
\* otherwise ignore the condition" (first-fit-top.cpp:221): also when the
\* chunk was joined and its old header is what a neighbour left behind.
FreeAgainIgnored == [][DeallocateAgain => UNCHANGED vars]_vars
=============================================================================
