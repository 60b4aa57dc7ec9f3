SPECIFICATION Spec
CONSTANTS
  d = d
  a = a
  b = b
  c = c
  Tasks = {d, a, b}
  Root = Root
  System = {d}
  Table <- MCTable
  Exchanges = {x, y}
  x = x
  y = y
  DelayEx = DelayEx
  Creators = {a, b}
  Serial = FALSE
  Recreate = FALSE
  NULL = NULL
CHECK_DEADLOCK FALSE
INVARIANT NoConflict
