SPECIFICATION FairSpec
CONSTANTS
  Job = {j1, j2, j3}
  BadName = {j3}
  NServ = 1
  NSrch = 1
  m_timeout_s = 1
  m_retries = 2
  m_max_parallel = 1
  SendMayFail = TRUE
INVARIANTS PointersSafe ActiveBound WaitersServed TimerArmed
PROPERTY QueriesEnd
