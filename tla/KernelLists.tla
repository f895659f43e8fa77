---------------------------- MODULE KernelLists ----------------------------
(***************************************************************************)
(* The intrusive lists of the kernel, as sequences without duplicates: the *)
(* head of the list is the first element.  `prio' is the function that     *)
(* gives the current effective priority of a thread.                       *)
(***************************************************************************)
EXTENDS Integers, Sequences, SequencesExt

\* Mutant of LinkAfter: a node goes ahead of its equals.
LinkAfterLess(list, p, prio) ==
  CHOOSE i \in 0..Len(list) :
    /\ i # 0 => prio[list[i]] > p
    /\ \A j \in (i + 1)..Len(list) : prio[list[j]] <= p

\* The element after which waiting_threads_list::link and
\* ready_threads_list::link put a thread of priority p, 0 for the list head:
\* the search starts at the tail, and the head is looked at before it starts.
LinkAfter(list, p, prio) ==
  IF list # <<>> /\ p > prio[list[Len(list)]] /\ p > prio[list[1]]
  THEN 0
  ELSE CHOOSE i \in 0..Len(list) :
         /\ i = 0 => list = <<>>
         /\ i # 0 => prio[list[i]] >= p
         /\ \A j \in (i + 1)..Len(list) : prio[list[j]] < p

\* Mutant: at the tail, as in a FIFO.
LinkAtTail(list, t, prio) == Append(list, t)

\* The list with t linked: behind every thread of the same priority.
Link(list, t, prio) == InsertAt(list, LinkAfter(list, prio[t], prio) + 1, t)

\* static_double_list_links::unlink: a node that is not linked is left alone.
Unlink(list, t) ==
  IF t \in ToSet(list)
  THEN RemoveAt(list, CHOOSE i \in DOMAIN list : list[i] = t)
  ELSE list

\* What a list built by Link looks like while no priority changes.
SortedByPriority(list, prio) ==
  \A i, j \in DOMAIN list : i < j => prio[list[i]] >= prio[list[j]]

NoDuplicates(list) ==
  \A i, j \in DOMAIN list : list[i] = list[j] => i = j
=============================================================================
