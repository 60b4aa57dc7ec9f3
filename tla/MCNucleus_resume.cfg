SPECIFICATION Spec
CONSTANTS
  t1 = t1
  t2 = t2
  Tasks = {t1, t2}
  Idle = Idle
  DelayTask = DelayTask
  Prio <- MCPrio
  Exchanges = {}
  Irqs = {x1}
  Own = {x1}
  DelayEx = DelayEx
  Messages = {m1}
  Delays = {0}
  Never = 3
  MaxIsnd = 1
  Freezers = {}
  Suspenders = {t1}
  Misusers = {}
  NULL = NULL
  Self = Self
  Chained = Chained
  TimeOut = TimeOut
CHECK_DEADLOCK FALSE
INVARIANT OnlySuspended
