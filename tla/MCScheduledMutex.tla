-------------------------- MODULE MCScheduledMutex --------------------------
EXTENDS ScheduledMutex

CONSTANTS high, mid, low, mutex1, mutex2

MCPrio == [t \in Threads |-> CASE t = high -> 3 [] t = mid -> 2 [] t = low -> 1]
MCCalls == [k \in Mutexes |-> [t \in Threads |-> {"lock"}]]
MCChain == [k \in Mutexes |-> [t \in Threads |->
              IF {k, t} \in {{mutex1, high}, {mutex2, mid}} \/ t = low
              THEN {"lock"} ELSE {}]]
MCCasts == {Threads}
MCNormal == [k \in Mutexes |-> "normal"]
MCInherit == [k \in Mutexes |-> "inherit"]
MCMixed == [k \in Mutexes |-> IF k = mutex1 THEN "inherit" ELSE "protect"]
MCCeiling == [k \in Mutexes |-> 3]
=============================================================================
