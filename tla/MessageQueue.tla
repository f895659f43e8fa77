--------------------------- MODULE MessageQueue ----------------------------
(***************************************************************************)
(* rtos::message_queue (os-mqueue.cpp).  The storage is a set of blocks;   *)
(* the free ones form a last-in first-out chain, the ones with a message   *)
(* a circular double list of indices, in two arrays, that starts at the    *)
(* head and is inserted into from the tail.  A receiver unlinks its block, *)
(* leaves the critical section to copy the message, and gives the block    *)
(* back afterwards: in between the block is on neither list.               *)
(*                                                                         *)
(* The module has no next-state relation: the one that composes it with    *)
(* its users (Mail) has.                                                   *)
(***************************************************************************)
EXTENDS Blocking

CONSTANTS Blocks,        \* indices of the message blocks, msgs_ of them
          Messages,      \* what the users send
          MsgPriorities,
          NoIndex,       \* no_index
          NoMessage

ASSUME BlocksAssumption ==
  IsFiniteSet(Blocks) /\ Blocks # {} /\ NoIndex \notin Blocks
ASSUME MessagesAssumption ==
  NoMessage \notin Messages /\ MsgPriorities \subseteq Nat

VARIABLES firstFree,   \* first_free_, with the chain that starts there
          head,        \* head_
          prev,        \* prev_array_
          next,        \* next_array_
          mprio,       \* prio_array_
          content,     \* the message in each block
          count,       \* count_
          src          \* the block a receiver copies from

queueVars == <<firstFree, head, prev, next, mprio, content, count, src>>

Msgs == Cardinality(Blocks)

NoLinks == [b \in Blocks |-> NoIndex]

\* internal_init_.  The chain goes by address, which nothing else looks at:
\* it may start in any order.  The arrays mean nothing for a block outside
\* the list; the model keeps NoIndex, 0 and NoMessage there.
StorageInit ==
  /\ firstFree \in SetToSeqs(Blocks)
  /\ head = NoIndex
  /\ prev = NoLinks /\ next = NoLinks
  /\ mprio = [b \in Blocks |-> 0]
  /\ content = [b \in Blocks |-> NoMessage]
  /\ count = 0

QueueInit == StorageInit /\ src = [t \in Threads |-> NoIndex]

\* The block reached from b in 0, 1, ... steps along an array.
Hops(links, b) ==
  LET hop[k \in 0..Msgs] == IF k = 0 THEN b ELSE links[hop[k - 1]] IN hop

\* The messages from head to tail.
Queued == [k \in 1..count |-> Hops(next, head)[k - 1]]
-----------------------------------------------------------------------------
\* Mutant of InsertionPoint: the walk passes the messages of equal priority.
InsertionPointEqual(p) ==
  LET back == Hops(prev, prev[head])
  IN  IF p > mprio[head] THEN prev[head]
      ELSE back[CHOOSE k \in 0..Msgs :
                  /\ mprio[back[k]] > p \/ k = count - 1
                  /\ \A j \in 0..(k - 1) : mprio[back[j]] <= p]

\* Where internal_try_send_ puts a message of priority p when the queue is
\* not empty: after the tail when it becomes the head, otherwise after the
\* first block that is as urgent, going back from the tail.
InsertionPoint(p) ==
  LET back == Hops(prev, prev[head])
  IN  IF p > mprio[head] THEN prev[head]
      ELSE back[CHOOSE k \in 0..Msgs :
                  /\ p <= mprio[back[k]]
                  /\ \A j \in 0..(k - 1) : p > mprio[back[j]]]

\* internal_try_send_, for message m of priority p, when it succeeds.
TrySend(m, p) ==
  /\ firstFree # <<>>
  /\ LET new == Head(firstFree)
         after == IF head = NoIndex THEN new ELSE InsertionPoint(p)
         before == IF head = NoIndex THEN new ELSE next[after]
     IN  /\ prev' = [prev EXCEPT ![new] = after, ![before] = new]
         /\ next' = [next EXCEPT ![new] = before, ![after] = new]
         /\ head' = IF head = NoIndex \/ p > mprio[head] THEN new ELSE head
         /\ mprio' = [mprio EXCEPT ![new] = p]
         /\ content' = [content EXCEPT ![new] = m]
  /\ firstFree' = Tail(firstFree)
  /\ count' = count + 1
  /\ UNCHANGED src
  /\ ResumeOne("receive")

TrySendFails == firstFree = <<>> /\ UNCHANGED queueVars

\* The head is unlinked, its message not yet copied.
UnlinkHead ==
  /\ head # NoIndex
  /\ head' = IF count > 1 THEN next[head] ELSE NoIndex
  /\ prev' = [prev EXCEPT ![next[head]] = prev[head], ![head] = NoIndex]
  /\ next' = [next EXCEPT ![prev[head]] = next[head], ![head] = NoIndex]
  /\ count' = count - 1

\* Back to the free chain; the link to the next one overwrites the message.
Release(b) ==
  /\ firstFree' = <<b>> \o firstFree
  /\ content' = [content EXCEPT ![b] = NoMessage]
  /\ mprio' = [mprio EXCEPT ![b] = 0]
  /\ ResumeOne("send")
-----------------------------------------------------------------------------
\* send(), timed_send(), try_send() by a thread, in or before the loop.
SendTakes(t, m, p) ==
  /\ Trying(t, "send")
  /\ TrySend(m, p)
  /\ LeaveFor(t, "app")
  /\ UNCHANGED <<timers, popped>>

SendEnters(t, timeout) ==
  /\ TrySendFails
  /\ EnterLoop(t, "send", timeout)

SendSuspends(t) == TrySendFails /\ SuspendOn(t, "send")

\* try_send() from an interrupt service routine.
SendFromISR(m, p) ==
  /\ TrySend(m, p)
  /\ UNCHANGED <<waitsFor, timers, left, pc, popped>>

\* Mutant: the block is released before the message was copied.
ReceiveTakesEarly(t) ==
  /\ Trying(t, "receive")
  /\ src' = [src EXCEPT ![t] = head]
  /\ UnlinkHead
  /\ firstFree' = <<head>> \o firstFree
  /\ LeaveFor(t, "copying")
  /\ UNCHANGED <<mprio, content, lists, suspended, timers, popped>>

\* receive(), timed_receive(), try_receive() by a thread: up to the
\* uncritical section of internal_try_receive_.
ReceiveTakes(t) ==
  /\ Trying(t, "receive")
  /\ src' = [src EXCEPT ![t] = head]
  /\ UnlinkHead
  /\ LeaveFor(t, "copying")
  /\ UNCHANGED <<firstFree, mprio, content, lists, suspended, timers, popped>>

\* The copy, and the rest of internal_try_receive_.
ReceiveCopies(t) ==
  /\ At(t, "copying")
  /\ Release(src[t])
  /\ src' = [src EXCEPT ![t] = NoIndex]
  /\ Goto(t, "app")
  /\ UNCHANGED <<head, prev, next, count, waitsFor, timers, left, popped>>

ReceiveFails == head = NoIndex /\ UNCHANGED queueVars

ReceiveEnters(t, timeout) ==
  /\ ReceiveFails
  /\ EnterLoop(t, "receive", timeout)

ReceiveSuspends(t) == ReceiveFails /\ SuspendOn(t, "receive")

\* try_receive() from an interrupt service routine: no thread runs while it
\* copies.
ReceiveFromISR ==
  /\ UnlinkHead
  /\ Release(head)
  /\ UNCHANGED <<src, waitsFor, timers, left, pc, popped>>

\* reset(): internal_init_ in a critical section, both lists resumed.
QueueReset(t) ==
  /\ At(t, "app")
  /\ firstFree' \in SetToSeqs(Blocks)
  /\ head' = NoIndex
  /\ prev' = NoLinks /\ next' = NoLinks
  /\ mprio' = [b \in Blocks |-> 0]
  /\ content' = [b \in Blocks |-> NoMessage]
  /\ count' = 0
  /\ ResumeAll({"send", "receive"})
  /\ UNCHANGED <<src, waitsFor, timers, left, pc, popped>>
-----------------------------------------------------------------------------
QueueTypeOK ==
  /\ firstFree \in Seq(Blocks)
  /\ head \in Blocks \union {NoIndex}
  /\ prev \in [Blocks -> Blocks \union {NoIndex}]
  /\ next \in [Blocks -> Blocks \union {NoIndex}]
  /\ mprio \in [Blocks -> MsgPriorities \union {0}]
  /\ content \in [Blocks -> Messages \union {NoMessage}]
  /\ count \in 0..Msgs
  /\ src \in [Threads -> Blocks \union {NoIndex}]

Copied == {src[t] : t \in Threads} \ {NoIndex}

\* Every block is in one place: in the free chain, in the circular list or
\* under the eyes of one receiver, who alone left the critical section with
\* it; the two index arrays describe the same circle of count_ blocks, and
\* the message of a block outlives the copy.
BlocksAccounted ==
  /\ NoDuplicates(firstFree) /\ NoDuplicates(Queued)
  /\ \A t, u \in Threads : src[t] = src[u] /\ src[t] # NoIndex => t = u
  /\ Len(firstFree) + count + Cardinality(Copied) = Msgs
  /\ ToSet(firstFree) \union ToSet(Queued) \union Copied = Blocks
  /\ head = NoIndex <=> count = 0
  /\ \A b \in ToSet(Queued) : prev[next[b]] = b /\ next[prev[b]] = b
  /\ \A b \in ToSet(Queued) \union Copied : content[b] # NoMessage

\* What the queue promises, whatever the arrays look like: priority order,
\* arrival order among equals, nothing lost, nothing delivered twice, and a
\* message that stays what it was while it is copied.
Promise ==
  INSTANCE PriorityQueue WITH
    Receivers <- Threads,
    Priorities <- MsgPriorities,
    Capacity <- Msgs,
    Nothing <- NoMessage,
    queue <- [k \in 1..count |->
                [msg |-> content[Queued[k]], mprio |-> mprio[Queued[k]]]],
    hand <- [t \in Threads |->
               IF src[t] = NoIndex THEN NoMessage ELSE content[src[t]]]

RefinesQueue == Promise!Spec
=============================================================================
