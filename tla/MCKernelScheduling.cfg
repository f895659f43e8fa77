CONSTANTS
  main = main
  idle = idle
  a = a
  b = b
  c = c
  Threads = {main, idle, a, b, c}
  Main = main
  Idle = idle
  NoThread = NoThread
  IdlePriority = 1
  Priorities = {2, 3}
  Creatable = {a, b, c}
  Exiting = {}
  Joinable = {}
  Joiners = {}
  Killable = {}
  Tunes <- MCOwnPriority
  Inheriting = {}
  Ceilings = {3}
  LateResume = {}
  LockUsers = {main}
SPECIFICATION Spec
INVARIANTS ReadySorted MostUrgentRuns
