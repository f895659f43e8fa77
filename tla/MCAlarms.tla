------------------------------ MODULE MCAlarms -----------------------------
EXTENDS Alarms

CONSTANTS a, c, once, beat, f, g

MCPrio == [t \in Threads |-> 1]
MCController == [tm \in Timers |-> a]

\* One timer raises the event flags object, the other the flags of thread c.
MCTarget == [tm \in Timers |-> IF tm = once THEN EventObject ELSE c]
MCMask == [tm \in Timers |-> IF tm = once THEN {f} ELSE {g}]

MCRaises == {<<EventObject, {g}>>, <<c, {g}>>}

Request(kind, timed, mask, all) ==
  [kind |-> kind, timed |-> timed, mask |-> mask, all |-> all, clear |-> TRUE]

EventAll == Request("event", FALSE, {f, g}, TRUE)
EventAny == Request("event", TRUE, {}, FALSE)
OwnTimed == Request("thread", TRUE, {g}, TRUE)
OwnPlain == Request("plain", FALSE, {g}, FALSE)

MCWaits ==
  [t \in Threads |-> IF t = a THEN {EventAny} ELSE {EventAll, OwnTimed, OwnPlain}]
=============================================================================
