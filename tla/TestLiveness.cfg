\* Two bandwidth clients on a network that delivers everything once, with
\* delays that can exceed the grace.
SPECIFICATION FairSpec
CONSTANTS
  RttClients = {}
  BwClients = {b1, b2}
  ServerAddr = server
  IdSpace = 8
  IntMax = 100
  Second = 1
  MaxDup = 0
  MaxLoss = 0
  MaxErrors = 0
  InOrder = FALSE
  Grace = 1
  RttTimes = 2
  TestSeconds = 1
  PacketsPerGroup = 1
  MaxPackets = 1
  Skew = 0
  MaxTime = 4
PROPERTY TestEnds
PROPERTY TesterIsServed
\* Clients that ended, failed or wait for an answer that never comes, and a
\* server with nothing to receive, really are the end of a run.
CHECK_DEADLOCK FALSE
