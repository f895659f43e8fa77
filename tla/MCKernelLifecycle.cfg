CONSTANTS
  main = main
  idle = idle
  a = a
  b = b
  c = c
  Threads = {main, idle, a, b}
  Main = main
  Idle = idle
  NoThread = NoThread
  IdlePriority = 1
  Priorities = {2}
  Creatable = {a, b}
  Exiting = {a}
  Joinable = {a, b}
  Joiners = {main, a}
  Killable = {b}
  Tunes <- MCNobody
  Inheriting = {main}
  Ceilings = {3}
  LateResume = {}
  LockUsers = {main}
SPECIFICATION FairSpec
INVARIANTS TypeOK ListsSound NoThreadLost
PROPERTIES EndWakesJoiner NobodyComesBack EqualsTakeTurns TerminatedAreDestroyed
