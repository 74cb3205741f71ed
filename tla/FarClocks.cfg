\* One bandwidth client whose clock is further off than INT_MAX.
SPECIFICATION Spec
CONSTANTS
  RttClients = {}
  BwClients = {b1}
  ServerAddr = server
  IdSpace = 8
  IntMax = 10
  Second = 1
  MaxDup = 0
  MaxLoss = 0
  MaxErrors = 0
  InOrder = FALSE
  Grace = 1
  RttTimes = 2
  TestSeconds = 1
  PacketsPerGroup = 1
  MaxPackets = 2
  Skew = 15
  MaxTime = 2
INVARIANT JitterIsSpread
\* Clients that ended, failed or wait for an answer that never comes, and a
\* server with nothing to receive, really are the end of a run.
CHECK_DEADLOCK FALSE
