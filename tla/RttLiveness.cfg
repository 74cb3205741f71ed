\* Two RTT clients on a network that delivers everything once.
SPECIFICATION FairSpec
CONSTANTS
  RttClients = {r1, r2}
  BwClients = {}
  ServerAddr = server
  IdSpace = 8
  IntMax = 100
  Second = 1
  MaxDup = 0
  MaxLoss = 0
  MaxErrors = 0
  InOrder = FALSE
  Grace = 1
  RttTimes = 3
  TestSeconds = 1
  PacketsPerGroup = 1
  MaxPackets = 2
  Skew = 0
  MaxTime = 2
PROPERTY RttCompletes
\* Clients that ended, failed or wait for an answer that never comes, and a
\* server with nothing to receive, really are the end of a run.
CHECK_DEADLOCK FALSE
