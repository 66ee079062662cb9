SPECIFICATION FairSpec
CONSTANTS
  Conn = {c1, c2}
  Label = {l1}
  MaxActive = 1
  MaxIdle = 1
  IdSpan = 16
  CountSpan = 16
  MaxInserts = 1
  Session = {s1, s2}
  Req = {r1, r2}
  NoReq = NoReq
  NoConn = NoConn
INVARIANTS Ownership TimersArmed QueueWakes
PROPERTIES PoolSpec KeptOnlyIfWhole SilenceCleansUp KeepsPolling
