--------------------------- MODULE PriorityQueue ---------------------------
(***************************************************************************)
(* What rtos::message_queue promises: a bounded queue ordered by priority  *)
(* and, among equals, by arrival.  A receiver takes the first message in   *)
(* one step and has it in hand until its call returns; until then the      *)
(* message still counts against the capacity.                              *)
(***************************************************************************)
EXTENDS Integers, Sequences, SequencesExt, FiniteSets

CONSTANTS Receivers, Messages, Priorities, Capacity, Nothing

VARIABLES queue, hand

vars == <<queue, hand>>

Entry == [msg : Messages, mprio : Priorities]

Holding == {t \in Receivers : hand[t] # Nothing}

Init == queue = <<>> /\ hand = [t \in Receivers |-> Nothing]

\* Behind all the messages that are at least as urgent.
Place(e) == Cardinality({i \in DOMAIN queue : queue[i].mprio >= e.mprio}) + 1

Send(e) ==
  /\ Len(queue) + Cardinality(Holding) < Capacity
  /\ queue' = InsertAt(queue, Place(e), e)
  /\ UNCHANGED hand

Receive(t) ==
  /\ queue # <<>>
  /\ hand[t] = Nothing
  /\ hand' = [hand EXCEPT ![t] = Head(queue).msg]
  /\ queue' = Tail(queue)

Return(t) ==
  /\ hand[t] # Nothing
  /\ hand' = [hand EXCEPT ![t] = Nothing]
  /\ UNCHANGED queue

\* From an interrupt service routine, which nobody sees in the middle.
ReceiveFromISR == queue # <<>> /\ queue' = Tail(queue) /\ UNCHANGED hand

Reset == queue' = <<>> /\ UNCHANGED hand

Next ==
  \/ \E e \in Entry : Send(e)
  \/ \E t \in Receivers : Receive(t) \/ Return(t)
  \/ ReceiveFromISR
  \/ Reset

Spec == Init /\ [][Next]_vars
=============================================================================
