CONSTANTS
  a = a
  b = b
  c = c
  d = d
  Threads = {a, b, c, d}
  Prio <- MCPrio
  NoThread = NoThread
  MaxValue = 2
  InitialValue = 1
  Timeouts = {}
  Interruptible = {}
  Killable = {}
SPECIFICATION FairSpec
INVARIANTS TypeOK NoLostWakeup SleepersReachable
PROPERTIES WakeOrder UnitsAreTaken
