\* Two bandwidth clients compete for the server; one datagram may be delivered
\* twice and one receive may fail.  MaxTime lets a test time out.
SPECIFICATION Spec
CONSTANTS
  RttClients = {}
  BwClients = {b1, b2}
  ServerAddr = server
  IdSpace = 8
  IntMax = 100
  Second = 1
  MaxDup = 1
  MaxLoss = 0
  MaxErrors = 1
  InOrder = FALSE
  Grace = 1
  RttTimes = 2
  TestSeconds = 1
  PacketsPerGroup = 1
  MaxPackets = 1
  Skew = 0
  MaxTime = 5
INVARIANT TypeOK
INVARIANT TestIsolation
INVARIANT TimeoutSparesSender
PROPERTY ImplementsTestService
\* Clients that ended, failed or wait for an answer that never comes, and a
\* server with nothing to receive, really are the end of a run.
CHECK_DEADLOCK FALSE
