SPECIFICATION FairSpec
CONSTANTS
  Conf <- MCConf
  Size = {1, 2}
  MaxRoom = 1
  MaxPieces = 6
INVARIANTS NothingStalls NeverRefused DoneOnce
PROPERTIES NoOverwrite FailedClosed
CHECK_DEADLOCK FALSE
