------------------------------ MODULE MCMutex ------------------------------
EXTENDS Mutex

\* Three casts, each of its own mutexes: of an owner raised by a third thread
\* while it owns others, of a timed wait, and of a queue that never gives up.
CONSTANTS high, mid, low, boss, peer, minor, first, second, third,
          mutex1, mutex2, mutex3, mutex4, mutex5

MCCasts == {{high, mid, low}, {boss, peer, minor}, {first, second, third}}

MCPrio == [t \in Threads |-> CASE t \in {high, boss} -> 3
                               [] t \in {mid, second, third} -> 2
                               [] t \in {low, peer, minor, first} -> 1]

MCCalls ==
  [k \in Mutexes |-> [t \in Threads |->
     CASE k = mutex1 /\ t = high -> {"lock"}
       [] k = mutex1 /\ t = low -> {"lock", "try"}
       [] k \in {mutex2, mutex3} /\ t \in {mid, low} -> {"lock"}
       [] k = mutex4 /\ t = boss -> {"timed"}
       [] k = mutex4 /\ t = peer -> {"lock"}
       [] k = mutex4 /\ t = minor -> {"try"}
       [] k = mutex5 /\ t \in {first, second, third} -> {"lock"}
       [] OTHER -> {}]]

MCTypes == [k \in Mutexes |-> CASE k = mutex1 -> "normal"
                                [] k = mutex5 -> "recursive"
                                [] OTHER -> "errorcheck"]

MCProtocols == [k \in Mutexes |-> CASE k \in {mutex1, mutex4} -> "inherit"
                                    [] k \in {mutex2, mutex3} -> "protect"
                                    [] k = mutex5 -> "none"]

MCCeiling == [k \in Mutexes |-> 3]
=============================================================================
