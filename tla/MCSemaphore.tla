---------------------------- MODULE MCSemaphore ----------------------------
EXTENDS Semaphore

CONSTANTS a, b, c, d

\* a is the more urgent thread, the others are of equal priority.
MCPrio == [t \in Threads |-> IF t = a THEN 2 ELSE 1]
=============================================================================
