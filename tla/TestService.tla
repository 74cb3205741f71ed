---------------------------- MODULE TestService ----------------------------
(***************************************************************************)
(* What netTester's server promises, with the network, the clocks and the  *)
(* statistics left out: every test it accepts gets an id of its own, it    *)
(* runs at most one bandwidth test at a time and accepts nothing while it  *)
(* does, and a test is reported at most once, to the client that asked for *)
(* it, at the moment the test ends.                                        *)
(***************************************************************************)
EXTENDS Integers

CONSTANTS
  Clients,   \* those who ask for tests
  TestIds    \* the ids a test can have

VARIABLES
  issued,    \* the tests accepted so far: <<test id, client>>
  running,   \* the bandwidth test under way, as a set of at most one test
  reported   \* the tests whose report was sent

serviceVars == <<issued, running, reported>>

Ids(tests) == {t[1] : t \in tests}

Init ==
  /\ issued = {}
  /\ running = {}
  /\ reported = {}

\* Accept a test under an id never used before; an RTT test does not occupy
\* the server.
Accept(id, c) ==
  /\ running = {}
  /\ id \notin Ids(issued)
  /\ issued' = issued \cup {<<id, c>>}
  /\ running' \in {{}, {<<id, c>>}}
  /\ UNCHANGED reported

\* The running test ends, with its report or (timeout, failure) without.
End(test) ==
  /\ running = {test}
  /\ test \notin reported
  /\ running' = {}
  /\ reported' \in {reported, reported \cup {test}}
  /\ UNCHANGED issued

Next ==
  \/ \E id \in TestIds, c \in Clients : Accept(id, c)
  \/ \E test \in issued : End(test)

Spec == Init /\ [][Next]_serviceVars

=============================================================================
