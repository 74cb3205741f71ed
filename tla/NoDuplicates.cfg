\* Nothing is duplicated, anything may be late or lost, and the clients' clocks are
\* off: what clients and server print.
SPECIFICATION Spec
CONSTANTS
  RttClients = {r1}
  BwClients = {b1, b2}
  ServerAddr = server
  IdSpace = 8
  IntMax = 100
  Second = 1
  MaxDup = 0
  MaxLoss = 1
  MaxErrors = 0
  InOrder = FALSE
  Grace = 1
  RttTimes = 2
  TestSeconds = 1
  PacketsPerGroup = 2
  MaxPackets = 2
  Skew = 2
  MaxTime = 2
SYMMETRY ClientSymmetry
INVARIANT LossIsACount
INVARIANT RttReplyMatches
INVARIANT JitterIsSpread
\* Clients that ended, failed or wait for an answer that never comes, and a
\* server with nothing to receive, really are the end of a run.
CHECK_DEADLOCK FALSE
