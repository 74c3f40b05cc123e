--------------------------- MODULE MCCluster ---------------------------
(* Instances of Cluster for TLC. *)
EXTENDS Cluster

CONSTANTS
  j1, j2,   \* jobs: j1 has Attempts attempts, j2 has one
  n1, n2,   \* servers
  Attempts

MCMaxAttempts == [j \in Job |-> IF j = j1 THEN Attempts ELSE 1]

(* What may happen in one behaviour, and how often: two jobs in two servers *)
(* at a time, which is what a deadlock takes; a server that dies and starts *)
(* while the other goes on; errors; requests about a job with results late. *)
Combinations ==
  {[submit |-> 2, takeback |-> 2],
   [submit |-> 1, takeback |-> 1, death |-> 1, success |-> 2, retry |-> 1],
   [submit |-> 2, success |-> 1, retry |-> 1, db |-> 1],
   [submit |-> 1, takeback |-> 1, success |-> 2, retry |-> 1, revive |-> 1, cancel |-> 1]}

MCBudgets == {[h \in Hazard |-> IF h \in DOMAIN b THEN b[h] ELSE 0] : b \in Combinations}
=============================================================================
