CONSTANTS
  a = a
  b = b
  c = c
  d = d
  Threads = {a, b, c}
  Prio <- MCPrio
  NoThread = NoThread
  MaxValue = 2
  InitialValue = 0
  Timeouts = {0, 2}
  Interruptible = {c}
  Killable = {b}
SPECIFICATION FairSpec
INVARIANTS StackNodesUnlinked TimedSleepersHaveTimer
PROPERTIES RefinesCounting TimedWaitReturns
