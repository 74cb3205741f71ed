------------------------------ MODULE Network ------------------------------
(***************************************************************************)
(* The UDP network between the clients and the server, as the code sees it *)
(* through UdpConnection: a datagram that was sent may be delivered, in    *)
(* any order, more than once or never, and a receive may fail.             *)
(*                                                                         *)
(* net holds the datagrams in flight, the ones waiting in a socket's       *)
(* buffer included.  A delivery that leaves its datagram in net is a       *)
(* duplication; two equal datagrams in flight at once are held as one.     *)
(***************************************************************************)
EXTENDS Message

CONSTANTS
  Second,      \* milliseconds in a second (1000)
  MaxDup,      \* bound: deliveries that leave a second copy in flight
  MaxLoss,     \* bound: datagrams the network loses
  MaxErrors,   \* bound: calls of recvfrom that return an error or 0
  InOrder      \* TRUE: the server gets each client's datagrams in order

ASSUME NetworkAssumption ==
  /\ Second \in Nat \ {0}
  /\ MaxDup \in Nat
  /\ MaxLoss \in Nat
  /\ MaxErrors \in Nat
  /\ InOrder \in BOOLEAN

VARIABLES
  net,     \* set of datagrams in flight
  now,     \* the clock of the server's host, in ms; clients read it skewed
  dups,    \* duplications so far
  losses,  \* losses so far
  errors   \* failed receives so far

netVars == <<net, now, dups, losses, errors>>

NetTypeOK ==
  /\ net \subseteq Datagram
  /\ now \in Nat
  /\ dups \in Nat
  /\ losses \in Nat
  /\ errors \in Nat

\* The clock is a time since the epoch: it is never 0.
NetInit ==
  /\ net = {}
  /\ now = 1
  /\ dups = 0
  /\ losses = 0
  /\ errors = 0

\* The message ids of a process increase, so they give the sending order.
Deliverable(addr) ==
  {d \in net : /\ d.dst = addr
               /\ (InOrder /\ addr = ServerAddr) =>
                     \A e \in net : (e.src = d.src /\ e.dst = addr) => d.msgId <= e.msgId}

\* One recvfrom that returns d, and the sendto calls the handler of d makes.
Exchange(d, sent) ==
  /\ \/ /\ net' = (net \ {d}) \cup sent
        /\ UNCHANGED dups
     \/ /\ dups < MaxDup
        /\ net' = net \cup sent
        /\ dups' = dups + 1
  /\ UNCHANGED <<now, losses, errors>>

Send(d) ==
  /\ net' = net \cup {d}
  /\ UNCHANGED <<now, dups, losses, errors>>

\* A recvfrom that returns -1 or 0.
ReceiveFails ==
  /\ errors < MaxErrors
  /\ errors' = errors + 1
  /\ UNCHANGED <<net, now, dups, losses>>

Lose(d) ==
  /\ losses < MaxLoss
  /\ losses' = losses + 1
  /\ net' = net \ {d}
  /\ UNCHANGED <<now, dups, errors>>

=============================================================================
