CONSTANTS
  high = high
  mid = mid
  low = low
  mutex1 = mutex1
  mutex2 = mutex2
  Threads = {high, mid, low}
  Mutexes = {mutex1, mutex2}
  Casts <- MCCasts
  Calls <- MCCalls
  Prio <- MCPrio
  Type <- MCNormal
  Protocol <- MCInherit
  Ceiling <- MCCeiling
  MaxCount = 2
  Robust = {}
  Interruptible = {}
  Killable = {}
  Resumable = {high, mid, low}
  Resettable = {}
  ResetOwned = FALSE
  Sleepers = {high, mid, low}
  NoThread = NoThread
  NoMutex = NoMutex
SPECIFICATION ScheduledSpec
INVARIANT FreeMutexIsTaken
CHECK_DEADLOCK FALSE
