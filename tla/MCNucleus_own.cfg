SPECIFICATION Spec
CONSTANTS
  t1 = t1
  t2 = t2
  Tasks = {t1, t2}
  Idle = Idle
  DelayTask = DelayTask
  Prio <- MCPrio
  Exchanges = {}
  Irqs = {x1}
  Own = {x1}
  DelayEx = DelayEx
  Messages = {m1}
  Delays = {0, 2}
  Never = 3
  MaxIsnd = 2
  Freezers = {Idle}
  Suspenders = {}
  Misusers = {t1}
  NULL = NULL
  Self = Self
  Chained = Chained
  TimeOut = TimeOut
CHECK_DEADLOCK FALSE
INVARIANTS
  TypeOK
  HighestRuns
  OnePlace
  WaitersReal
  OneHome
PROPERTIES
  MissedStays
  NoEqualSwitch
  ImplementsTimeouts
VIEW Read
