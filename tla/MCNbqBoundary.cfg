SPECIFICATION Spec
CONSTANTS
  BSize = 2
  BodyOffsets = {2}
  MaxReadQueue = 3
  MaxBytes = 6
PROPERTY SplitAtOffset
CHECK_DEADLOCK FALSE
