------------------------------- MODULE MCMail ------------------------------
EXTENDS Mail, TLC

CONSTANTS a, b, c

\* a is the more urgent thread.
MCPrio == [t \in Threads |-> IF t = a THEN 2 ELSE 1]

\* Nothing depends on which block is which.
Interchangeable == Permutations(Blocks) \union Permutations(PoolBlocks)
=============================================================================
