SPECIFICATION Spec
CONSTANTS
  t1 = t1
  t2 = t2
  t3 = t3
  ex = ex
  ix = ix
  m1 = m1
  m2 = m2
  Tasks = {t1, t2, t3}
  Exchanges = {ex, ix}
  IntExchanges = {ix}
  Messages = {m1}
  Handler <- MCHandler
  Careless <- MCCareless
  NULL = NULL
  Self = Self
  Chained = Chained
INVARIANTS
  OneQueue
  OneHome
  NoLostWakeup
  ReceiverOwns
PROPERTIES
  OwnerGives
VIEW Live
