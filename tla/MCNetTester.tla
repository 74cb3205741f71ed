---------------------------- MODULE MCNetTester ----------------------------
(* NetTester with the symmetry of its clients: the clients of a kind run   *)
(* the same code with the same arguments, so they can be exchanged.        *)
EXTENDS NetTester, TLC

ClientSymmetry == Permutations(RttClients) \cup Permutations(BwClients)

=============================================================================
