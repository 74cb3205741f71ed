\* One bandwidth client; one datagram is lost.  Every thread keeps running.
SPECIFICATION FairSpec
CONSTANTS
  RttClients = {}
  BwClients = {b1}
  ServerAddr = server
  IdSpace = 8
  IntMax = 100
  Second = 1
  MaxDup = 0
  MaxLoss = 1
  MaxErrors = 0
  InOrder = FALSE
  Grace = 1
  RttTimes = 2
  TestSeconds = 1
  PacketsPerGroup = 1
  MaxPackets = 2
  Skew = 0
  MaxTime = 8
PROPERTY TimeoutEndsTest
\* Clients that ended, failed or wait for an answer that never comes, and a
\* server with nothing to receive, really are the end of a run.
CHECK_DEADLOCK FALSE
