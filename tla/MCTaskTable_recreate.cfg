SPECIFICATION Spec
CONSTANTS
  d = d
  a = a
  b = b
  c = c
  Tasks = {d, a, b, c}
  Root = Root
  System = {d}
  Table <- MCTable
  Exchanges = {x, y}
  x = x
  y = y
  DelayEx = DelayEx
  Creators = {a, b}
  Serial = TRUE
  Recreate = TRUE
  NULL = NULL
CHECK_DEADLOCK FALSE
INVARIANT NobodyLost
