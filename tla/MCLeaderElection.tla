-------------------------- MODULE MCLeaderElection --------------------------
(* LeaderElection for TLC.  The processes are model values; where no liveness *)
(* is checked they are interchangeable.                                       *)
EXTENDS LeaderElection, TLC

Symmetry == Permutations(Configured)

\* Either every process starts at most once, or, of two processes that may start
\* again, no session expires.  One that is not configured is tried alone.
FewDisturbances ==
  /\ \/ \A p \in Configured : starts[p] <= 1
     \/ expiries = 0 /\ \E p \in Configured : starts[p] = 0
  /\ \A p \in Proc \ Configured :
       /\ p \in alive
       /\ starts[p] + stops[p] > 0 => \A q \in Configured : starts[q] = 0
=============================================================================
