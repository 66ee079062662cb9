SPECIFICATION FairSpec
CONSTANTS
  Event = {e1, e2, e3}
  Delay = {0, 1, 2}
  UintSpan = 4
  MaxTime = 2
  Jumps = {"forward", "back"}
  NoEvent = NoEvent
INVARIANTS
  TypeOK
  QueueOwnsEvents
  ServedInOrder
  WakesInTime
PROPERTY TimersFire
