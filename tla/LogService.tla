----------------------------- MODULE LogService -----------------------------
(***************************************************************************)
(* What the log promises its process: a message that is accepted reaches   *)
(* the file, once and in the order of the calls; only a message whose      *)
(* write fails is left out, and that is reported.  The log is closed when  *)
(* everything accepted is in the file; a process that is killed leaves a   *)
(* prefix behind.                                                          *)
(***************************************************************************)
EXTENDS Sequences, SequencesExt

CONSTANT Messages

VARIABLES
  pending,  \* accepted and not in the file
  stored,   \* the file
  reported, \* how many messages were reported as lost
  state     \* "open", "closed" or "killed"

serviceVars == <<pending, stored, reported, state>>

ServiceInit == pending = <<>> /\ stored = <<>> /\ reported = 0 /\ state = "open"

Accept(m) ==
  /\ state = "open"
  /\ pending' = Append(pending, m)
  /\ UNCHANGED <<stored, reported, state>>

\* The oldest messages pending reach the file.
Store(n) ==
  /\ stored' = stored \o SubSeq(pending, 1, n)
  /\ pending' = SubSeq(pending, n + 1, Len(pending))
  /\ UNCHANGED <<reported, state>>

\* A write fails.
Drop(i) ==
  /\ pending' = RemoveAt(pending, i)
  /\ reported' = reported + 1
  /\ UNCHANGED <<stored, state>>

Close ==
  /\ state = "open" /\ pending = <<>>
  /\ state' = "closed"
  /\ UNCHANGED <<pending, stored, reported>>

Kill ==
  /\ state = "open"
  /\ state' = "killed"
  /\ UNCHANGED <<pending, stored, reported>>

ServiceNext ==
  \/ \E m \in Messages : Accept(m)
  \/ \E n \in 1 .. Len(pending) : Store(n)
  \/ \E i \in 1 .. Len(pending) : Drop(i)
  \/ Close
  \/ Kill

ServiceSpec == ServiceInit /\ [][ServiceNext]_serviceVars

=============================================================================
