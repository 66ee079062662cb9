SPECIFICATION Spec
CONSTANTS
  c1 = c1
  c2 = c2
  c3 = c3
  c4 = c4
  a = a
  b = b
  Conn <- MCConn
  Label <- MCLabel
  MaxActive = 2
  MaxIdle = 2
  IdSpan = 4
  CountSpan = 8
  MaxInserts = 4
SYMMETRY Symmetry
INVARIANTS TypeOK OneOwner LimitsHold OnlyFirstIdLost IdsMatch
