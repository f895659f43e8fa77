CONSTANTS
  high = high
  mid = mid
  low = low
  boss = boss
  peer = peer
  minor = minor
  first = first
  second = second
  third = third
  mutex1 = mutex1
  mutex2 = mutex2
  mutex3 = mutex3
  mutex4 = mutex4
  mutex5 = mutex5
  Threads = {high, mid, low, boss, peer, minor, first, second, third}
  Mutexes = {mutex1, mutex2, mutex3, mutex4, mutex5}
  Casts <- MCCasts
  Calls <- MCCalls
  Prio <- MCPrio
  Type <- MCTypes
  Protocol <- MCProtocols
  Ceiling <- MCCeiling
  MaxCount = 2
  Robust = {mutex2, mutex4}
  Interruptible = {high, boss}
  Killable = {mid, minor}
  Resumable = {mid, boss, second}
  Resettable = {mutex2, mutex4, mutex5}
  ResetOwned = FALSE
  NoThread = NoThread
  NoMutex = NoMutex
SPECIFICATION Spec
INVARIANTS TypeOK AssertionsHold OwnershipAgrees PlainMutexIsTaken OwnerAtCeiling CeilingEnds
PROPERTY BoostLasts
CHECK_DEADLOCK FALSE
