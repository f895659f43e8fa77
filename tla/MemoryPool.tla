---------------------------- MODULE MemoryPool -----------------------------
(***************************************************************************)
(* rtos::memory_pool (os-mempool.cpp): a last-in first-out chain of free   *)
(* blocks and the list of the threads that wait for one.  free() gives the *)
(* block back in a critical section and wakes a thread after it.           *)
(***************************************************************************)
EXTENDS Blocking

CONSTANT PoolBlocks
ASSUME PoolAssumption == IsFiniteSet(PoolBlocks)

VARIABLES first,      \* first_, with the chain that starts there
          inUse       \* count_, the blocks allocated

poolVars == <<first, inUse>>

PoolInit == first \in SetToSeqs(PoolBlocks) /\ inUse = 0

\* Mutant: the block is handed out and stays in the chain.
TryFirstKeeps(b) ==
  /\ first # <<>>
  /\ b = Head(first)
  /\ first' = first
  /\ inUse' = inUse + 1

\* internal_try_first_, when it returns block b.
TryFirst(b) ==
  /\ first # <<>>
  /\ b = Head(first)
  /\ first' = Tail(first)
  /\ inUse' = inUse + 1

NoneFree == first = <<>> /\ UNCHANGED poolVars

\* alloc(), timed_alloc(), try_alloc() by a thread, in or before the loop.
AllocTakes(t, b) ==
  /\ Trying(t, "pool")
  /\ TryFirst(b)
  /\ LeaveFor(t, "app")
  /\ UNCHANGED <<lists, suspended, timers, popped>>

AllocEnters(t, timeout) ==
  /\ NoneFree
  /\ EnterLoop(t, "pool", timeout)

\* Mutant: links the node on the strength of an earlier try.
AllocSuspendsUntried(t) == SuspendOn(t, "pool") /\ UNCHANGED poolVars

AllocSuspends(t) == NoneFree /\ SuspendOn(t, "pool")

\* try_alloc() from an interrupt service routine.
AllocFromISR(b) == TryFirst(b) /\ UNCHANGED kernelVars

\* Mutant: count_ goes on counting.
GiveBackUncounted(b) == first' = <<b>> \o first /\ UNCHANGED inUse

\* Pushed in front of the chain.
GiveBack(b) ==
  /\ first' = <<b>> \o first
  /\ inUse' = inUse - 1

\* free(): the block first, then resume_one() in critical sections of its own.
Free(t, b) ==
  /\ At(t, "app")
  /\ GiveBack(b)
  /\ Goto(t, "freed")
  /\ UNCHANGED <<lists, waitsFor, suspended, timers, left, popped>>

FreePops(t) ==
  /\ PopWaiter(t, "pool", "freed", "resuming")
  /\ UNCHANGED poolVars

FreeWakesNobody(t) == NobodyWaits(t, "pool", "freed") /\ UNCHANGED poolVars

FreeResumes(t) == ResumePopped(t, "resuming", "app") /\ UNCHANGED poolVars

\* free() from an interrupt service routine.
FreeFromISR(b) ==
  /\ GiveBack(b)
  /\ ResumeOne("pool")
  /\ UNCHANGED <<waitsFor, timers, left, pc, popped>>

\* reset(): the chain is built again in a critical section, and resume_all()
\* follows it, one thread at a time.
PoolReset(t) ==
  /\ At(t, "app")
  /\ first' \in SetToSeqs(PoolBlocks)
  /\ inUse' = 0
  /\ Goto(t, "reset")
  /\ UNCHANGED <<lists, waitsFor, suspended, timers, left, popped>>

ResetPops(t) ==
  /\ PopWaiter(t, "pool", "reset", "resuming_all")
  /\ UNCHANGED poolVars

ResetResumes(t) ==
  /\ ResumePopped(t, "resuming_all", "reset")
  /\ UNCHANGED poolVars

ResetEnds(t) == NobodyWaits(t, "pool", "reset") /\ UNCHANGED poolVars
-----------------------------------------------------------------------------
PoolTypeOK ==
  /\ first \in Seq(PoolBlocks)
  /\ inUse \in 0..Cardinality(PoolBlocks)
=============================================================================
