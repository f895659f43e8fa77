------------------------------ MODULE MCKernel ------------------------------
EXTENDS Kernel

CONSTANTS main, idle, a, b, c

\* Who changes the priority of whom.  (With the last one the properties of
\* README, section 3, `Known divergences', fail.)
MCNobody == {}
MCOwnPriority == {<<t, t>> : t \in Threads \ ({Idle} \union LockUsers)}
MCAnybodyTunesA == {<<t, a>> : t \in Threads \ {Idle}}
=============================================================================
