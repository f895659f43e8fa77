CONSTANTS
  a = a
  c = c
  once = once
  beat = beat
  f = f
  g = g
  Threads = {a, c}
  Timers = {once, beat}
  Durations = {2}
  Slept = {2}
  MaxLate = 1
  NoCall = NoCall
  Periods = {0, 1}
  Periodic = {beat}
  Controller <- MCController
  Restarted = {}
  Flags = {f, g}
  EventObject = EventObject
  Prio <- MCPrio
  NoThread = NoThread
  Sleepers = {c}
  Raisers = {a}
  Raises <- MCRaises
  Waits <- MCWaits
  Target <- MCTarget
  Mask <- MCMask
SPECIFICATION FairSpec
INVARIANTS TypeOK ClockListSound NoLostFlag
PROPERTIES ClockSettles TimedCallsReturn
