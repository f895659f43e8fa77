------------------------------- MODULE Mail --------------------------------
(***************************************************************************)
(* A mail queue: a memory pool and a message queue that carries pointers   *)
(* to its blocks, as os-c-wrapper.cpp composes them (osMailAlloc, Put, Get *)
(* and Free) and as an application of the C++ classes does.  A producer    *)
(* allocates a block, fills it and sends its address; a consumer receives  *)
(* the address, reads the block and frees it.  Here the queue is shared    *)
(* with interrupt routines that send a bare Event of their own, so it may  *)
(* be full and send() may block; osMailPut is the send that never waits.   *)
(***************************************************************************)
EXTENDS MessageQueue, MemoryPool

CONSTANTS Producers, Consumers, \* who allocates and sends, who receives
          ISR,                  \* the interrupt routines' driver
          Event,                \* the message that is not a pool block
          Timeouts,             \* durations passed to the timed calls
          Timed                 \* the lists whose calls may be timed ones

ASSUME MailAssumption ==
  /\ Producers \subseteq Threads /\ Consumers \subseteq Threads
  /\ Messages = PoolBlocks \union {Event} /\ Event \notin PoolBlocks
  /\ ISR \notin Threads
  /\ Lists = {"pool", "send", "receive"} /\ Timed \subseteq Lists
  /\ Timeouts \subseteq Nat

VARIABLE holds   \* the pool block each thread owns, NoMessage for none

vars == <<kernelVars, queueVars, poolVars, holds>>

Init ==
  /\ BlockingInit /\ QueueInit /\ PoolInit
  /\ holds = [a \in Threads \union {ISR} |-> NoMessage]

Own(a, b) == holds' = [holds EXCEPT ![a] = b]

\* The timeouts a call on list l may be given.
TimeoutsOf(l) == {Forever} \union (IF l \in Timed THEN Timeouts ELSE {})

\* Pool blocks whose address is in the queue, or being copied from it.
InQueue ==
  {content[b] : b \in ToSet(Queued) \union Copied} \intersect PoolBlocks
-----------------------------------------------------------------------------
\* osMailAlloc.
Alloc(t) ==
  /\ holds[t] = NoMessage
  /\ \/ \E b \in PoolBlocks : AllocTakes(t, b) /\ Own(t, b)
     \/ \E timeout \in TimeoutsOf("pool") :
          AllocEnters(t, timeout) /\ UNCHANGED holds
     \/ AllocSuspends(t) /\ UNCHANGED holds
  /\ UNCHANGED queueVars

\* osMailPut with try_send(), or an application's send(): the address goes
\* with the message, and the block is no longer the sender's.
Put(t) ==
  /\ holds[t] # NoMessage
  /\ \/ \E p \in MsgPriorities : SendTakes(t, holds[t], p) /\ Own(t, NoMessage)
     \/ \E timeout \in TimeoutsOf("send") :
          SendEnters(t, timeout) /\ UNCHANGED holds
     \/ SendSuspends(t) /\ UNCHANGED holds
  /\ UNCHANGED poolVars

\* osMailGet: the receiver owns the block whose address it copied.
Get(t) ==
  /\ holds[t] = NoMessage
  /\ \/ ReceiveTakes(t) /\ UNCHANGED holds
     \/ /\ ReceiveCopies(t)
        /\ Own(t, IF content[src[t]] = Event THEN NoMessage
                  ELSE content[src[t]])
     \/ \E timeout \in TimeoutsOf("receive") :
          ReceiveEnters(t, timeout) /\ UNCHANGED holds
     \/ ReceiveSuspends(t) /\ UNCHANGED holds
  /\ UNCHANGED poolVars

\* osMailFree, and osPoolFree that it calls.
GiveAway(t) ==
  /\ \/ /\ holds[t] # NoMessage
        /\ Free(t, holds[t])
        /\ Own(t, NoMessage)
     \/ /\ FreePops(t) \/ FreeWakesNobody(t) \/ FreeResumes(t)
        /\ UNCHANGED holds
  /\ UNCHANGED queueVars

\* An interrupt routine, a driver that keeps at most one block between two
\* interrupts: try_alloc(), try_send(), try_receive(), free().
ISRAlloc ==
  /\ holds[ISR] = NoMessage
  /\ \E b \in PoolBlocks : AllocFromISR(b) /\ Own(ISR, b)
  /\ UNCHANGED queueVars

ISRSends ==
  /\ \E p \in MsgPriorities :
       \/ SendFromISR(Event, p) /\ UNCHANGED holds
       \/ /\ holds[ISR] # NoMessage
          /\ SendFromISR(holds[ISR], p)
          /\ Own(ISR, NoMessage)
  /\ UNCHANGED poolVars

ISRReceives ==
  /\ holds[ISR] = NoMessage
  /\ ReceiveFromISR
  /\ Own(ISR, IF content[head] = Event THEN NoMessage ELSE content[head])
  /\ UNCHANGED poolVars

ISRFrees ==
  /\ holds[ISR] # NoMessage
  /\ FreeFromISR(holds[ISR])
  /\ Own(ISR, NoMessage)
  /\ UNCHANGED queueVars
-----------------------------------------------------------------------------
\* reset() of the queue and of the pool, by an application that has what it
\* put in them back: reset() itself looks at neither.
ResetQueue(t) ==
  /\ InQueue = {} /\ Copied = {}
  /\ QueueReset(t)
  /\ UNCHANGED <<poolVars, holds>>

ResetPool(t) ==
  /\ \/ inUse = 0 /\ PoolReset(t)
     \/ ResetPops(t) \/ ResetResumes(t) \/ ResetEnds(t)
  /\ UNCHANGED <<queueVars, holds>>

\* The steps that any blocking call takes.
Step(t) ==
  /\ UnlinkNode(t) \/ GiveUp(t) \/ Retry(t)
  /\ UNCHANGED <<queueVars, poolVars, holds>>

Resumed(t) == SpuriousResume(t) /\ UNCHANGED <<queueVars, poolVars, holds>>

Tick == ClockTick /\ UNCHANGED <<queueVars, poolVars, holds>>

Next ==
  \/ \E t \in Producers : Alloc(t) \/ Put(t)
  \/ \E t \in Consumers : Get(t)
  \/ \E t \in Threads :
       GiveAway(t) \/ ResetQueue(t) \/ ResetPool(t) \/ Step(t) \/ Resumed(t)
  \/ ISRAlloc \/ ISRSends \/ ISRReceives \/ ISRFrees
  \/ Tick

Spec == Init /\ [][Next]_vars

-----------------------------------------------------------------------------
\* Type invariant.
TypeOK ==
  /\ BlockingTypeOK /\ QueueTypeOK /\ PoolTypeOK
  /\ pc \in [Threads -> {"app", "loop", "asleep", "woken", "copying", "freed",
                         "resuming", "reset", "resuming_all"}]
  /\ holds \in [Threads \union {ISR} -> PoolBlocks \union {NoMessage}]

\* Every block of the pool is in one place: free, owned by one thread or
\* interrupt routine, or on its way through the queue, where one message
\* has its address.  No interleaving of the two objects, with the copies
\* made outside the critical sections, hands a block to two owners or loses
\* it, and count_ of the pool is what is out of it.
MailConserved ==
  LET mail == {b \in ToSet(Queued) \union Copied : content[b] # Event}
      owners == {a \in DOMAIN holds : holds[a] # NoMessage}
  IN  /\ NoDuplicates(first)
      /\ inUse = Cardinality(PoolBlocks) - Len(first)
      /\ inUse = Cardinality(owners) + Cardinality(mail)
      /\ ToSet(first) \union {holds[a] : a \in owners} \union InQueue
           = PoolBlocks

\* What a thread on each waiting list waits for.
Available(l) ==
  IF l = "pool" THEN Len(first)
  ELSE IF l = "send" THEN Len(firstFree)
  ELSE count

\* Threads that will try again before they sleep, or wake one that will.
Pending(l) ==
  {t \in Threads :
     \/ /\ waitsFor[t] = l
        /\ \/ pc[t] \in {"loop", "woken"}
           \/ pc[t] = "asleep" /\ t \notin ToSet(lists[l])
     \/ l = "pool" /\ pc[t] \in {"freed", "resuming", "reset", "resuming_all"}}

\* No lost wake-up on the lists of the patient callers: free() gives the
\* block back before it wakes, the queue wakes before it leaves its critical
\* section, and the caller tries again after it was woken; as long as a
\* thread waits, each block or message has somebody on the way to it.  (A
\* timed caller may be woken, find its time over and leave.)
NoLostWakeup ==
  \A l \in Lists \ Timed :
    lists[l] # <<>> => Available(l) <= Cardinality(Pending(l))
=============================================================================
