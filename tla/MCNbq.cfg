SPECIFICATION Spec
CONSTANTS
  BSize = 2
  BodyOffsets = {1, 2, 3}
  MaxReadQueue = 3
  MaxBytes = 6
INVARIANT CursorsRight
PROPERTY IsByteQueue
CHECK_DEADLOCK FALSE
