CONSTANTS
  a = a
  b = b
  c = c
  Threads = {a, b, c}
  Producers = {a, b}
  Consumers = {b, c}
  Prio <- MCPrio
  Lists = {"pool", "send", "receive"}
  Timed = {"send"}
  Timeouts = {1}
  PoolBlocks = {b1, b2}
  Blocks = {s1, s2, s3}
  Messages = {b1, b2, Event}
  MsgPriorities = {0, 1}
  Event = Event
  ISR = ISR
  NoThread = NoThread
  NoList = NoList
  NoIndex = NoIndex
  NoMessage = NoMessage
SPECIFICATION Spec
SYMMETRY Interchangeable
INVARIANTS TypeOK BlocksAccounted MailConserved NoLostWakeup
PROPERTIES RefinesQueue
