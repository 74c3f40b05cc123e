--------------------------- MODULE MCDispatch ---------------------------
(* Instances of Dispatch for TLC. *)
EXTENDS Dispatch, TLC

CONSTANTS
  j1, j2,       \* the jobs
  Attempts,     \* max_attempts of the other jobs
  Attempts1,    \* max_attempts of j1
  w1,           \* a worker
  Concurrency,  \* the concurrencies a worker may announce
  Concurrency1, \* the concurrencies w1 may announce
  Breaks, Crashes, DbErrors, AckErrors, Retries, Cancels, Updates

MCMaxAttempts == [j \in Job |-> IF j = j1 THEN Attempts1 ELSE Attempts]

(* Every worker has a handler for every job. *)
MCOffers ==
  [w \in Worker |->
     [names : {Job}, concurrency : IF w = w1 THEN Concurrency1 ELSE Concurrency]]

MCLimit == [break |-> Breaks, crash |-> Crashes, db |-> DbErrors, ack |-> AckErrors,
            retry |-> Retries, cancel |-> Cancels, caps |-> Updates]

JobSymmetric == Permutations(Job)
WorkerSymmetric == Permutations(Worker)
=============================================================================
