----------------------------- MODULE Connection -----------------------------
(***************************************************************************)
(* The one UdpConnection of a netTester process (src/UdpConnection.cpp)    *)
(* and the socket, address and Winsock calls under it                      *)
(* (include/seeker/socketUtil.h), from the setters of Server's and         *)
(* Client's constructors to close().  What the network does with the       *)
(* datagrams is in Network; here a call succeeds, fails or throws.         *)
(***************************************************************************)
EXTENDS Integers

CONSTANT PortSpace  \* values of a 16-bit port (2^16)

ASSUME ConnectionAssumption == PortSpace \in Nat \ {0}

VARIABLES
  inited,      \* bool inited
  sock,        \* SOCKET sock: "none", "invalid", "open" or "closed"
  localAddr,   \* the address bound
  remoteAddr,  \* the address sendData sends to
  lastAddr,    \* the address of the last datagram received
  wsa,         \* Winsock startups not yet cleaned up
  closes       \* history: calls of closeSocket

connVars == <<inited, sock, localAddr, remoteAddr, lastAddr, wsa, closes>>

NoAddr == [host |-> "any", port |-> 0]
Addr == [host : {"any", "literal", "none"}, port : 0 .. PortSpace - 1]

ConnectionTypeOK ==
  /\ inited \in BOOLEAN
  /\ sock \in {"none", "invalid", "open", "closed"}
  /\ localAddr \in Addr /\ remoteAddr \in Addr /\ lastAddr \in Addr
  /\ wsa \in Nat
  /\ closes \in Nat

ConnectionInit ==
  /\ inited = FALSE
  /\ sock = "none"
  /\ localAddr = NoAddr /\ remoteAddr = NoAddr /\ lastAddr = NoAddr
  /\ wsa = 0
  /\ closes = 0

-----------------------------------------------------------------------------
\* createAddr: the port loses its high bits to htons, and inet_addr does not
\* resolve names: a name becomes INADDR_NONE, 255.255.255.255.
createAddr(port, host) ==
  [host |-> CASE host = "empty" -> "any" [] host = "name" -> "none" [] OTHER -> host,
   port |-> port % PortSpace]

\* Mutant: the wrong one of the two ports.
InitOtherPort(localPort, localIp, remotePort, remoteIp) ==
  \E opened \in {"open", "invalid"} :
    /\ ~inited
    /\ sock' = opened
    /\ inited' = (localPort > 0 \/ (remotePort > 0 /\ remoteIp # "empty"))
    /\ localAddr' = IF localPort > 0 THEN createAddr(remotePort, localIp) ELSE localAddr
    /\ remoteAddr' = IF remotePort > 0 /\ remoteIp # "empty"
                       THEN createAddr(remotePort, remoteIp) ELSE remoteAddr
    /\ wsa' = wsa + 1
    /\ UNCHANGED <<lastAddr, closes>>

\* init() where bind, if it is called, succeeds.  socket() is not checked.
\* With neither port it throws and leaves the socket open.
InitWith(localPort, localIp, remotePort, remoteIp) ==
  \E opened \in {"open", "invalid"} :
    /\ ~inited
    /\ localPort > 0 => opened = "open"
    /\ sock' = opened
    /\ inited' = (localPort > 0 \/ (remotePort > 0 /\ remoteIp # "empty"))
    /\ localAddr' = IF localPort > 0 THEN createAddr(localPort, localIp) ELSE localAddr
    /\ remoteAddr' = IF remotePort > 0 /\ remoteIp # "empty"
                       THEN createAddr(remotePort, remoteIp) ELSE remoteAddr
    /\ wsa' = wsa + 1
    /\ UNCHANGED <<lastAddr, closes>>

\* init() where bind fails: it cleans up, then throws.
BindFails(localPort, localIp) ==
  /\ ~inited
  /\ localPort > 0
  /\ sock' = "closed"
  /\ closes' = closes + 1
  /\ localAddr' = createAddr(localPort, localIp)
  /\ UNCHANGED <<inited, remoteAddr, lastAddr, wsa>>

Close ==
  /\ sock' = "closed"
  /\ closes' = closes + 1
  /\ wsa' = wsa - 1
  /\ UNCHANGED <<inited, localAddr, remoteAddr, lastAddr>>

\* sendData throws when it has no address; what sendto returns is not looked at.
CanSend  == inited /\ remoteAddr.port # 0

\* recvData leaves the sender's address in lastAddr.
Receive(from) ==
  /\ inited
  /\ sock = "open"
  /\ lastAddr' = from
  /\ UNCHANGED <<inited, sock, localAddr, remoteAddr, wsa, closes>>

=============================================================================
