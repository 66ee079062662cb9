SPECIFICATION Spec
CONSTANTS
  BSize = 6
  Messages <- MCMessages
  MsgLen = 18
  MaxMsgs = 2
INVARIANTS OffsetsExact MessageWhole
CHECK_DEADLOCK FALSE
