------------------------- MODULE JobStore_proofs -------------------------
(***************************************************************************)
(* Proofs about the jobs table alone: each storage operation keeps the     *)
(* rows well formed and within their attempt budget, whoever calls it and  *)
(* in whatever order.                                                      *)
(***************************************************************************)
EXTENDS JobStore, FiniteSetTheorems, WellFoundedInduction, TLAPS

StoreInv == StoreTypeOK /\ AttemptBudget

-----------------------------------------------------------------------------
(* What the invariant says of one row. *)
LEMMA RowFacts ==
  ASSUME StoreInv, NEW i \in Job
  PROVE  /\ jobs[i] \in Row /\ jobs[i].attempt \in Nat
         /\ resets[i] \in Nat /\ MaxAttempts[i] \in Nat \ {0}
         /\ WithinBudget(i)
BY StoreAssumption DEF StoreInv, StoreTypeOK, AttemptBudget, Row

(* It is enough to look at each row of the new table. *)
LEMMA RowByRow ==
  ASSUME NEW f, NEW g, jobs' = [i \in Job |-> f[i]], resets' = [i \in Job |-> g[i]],
         \A i \in Job : jobs'[i] \in Row /\ resets'[i] \in Nat /\ WithinBudget(i)'
  PROVE  StoreInv'
<1>1. StoreTypeOK'
  BY DEF StoreTypeOK
<1>2. AttemptBudget'
  BY DEF AttemptBudget
<1> QED BY <1>1, <1>2 DEF StoreInv

(* The three rows an operation can derive from another are rows. *)
LEMMA DerivedRows ==
  ASSUME NEW row \in Row
  PROVE  /\ Claimed(row) \in Row
         /\ Claimed(row).attempt = row.attempt + 1 /\ Claimed(row).status = "RUNNING"
         /\ Requeued(row) \in Row
         /\ Requeued(row).attempt = row.attempt /\ Requeued(row).status = "PENDING"
<1>1. row.attempt \in Nat /\ row.due \in BOOLEAN
  BY DEF Row
<1>2. /\ Claimed(row) \in Row
      /\ Claimed(row).attempt = row.attempt + 1 /\ Claimed(row).status = "RUNNING"
  BY <1>1 DEF Claimed, Row, Status
<1>3. /\ Requeued(row) \in Row
      /\ Requeued(row).attempt = row.attempt /\ Requeued(row).status = "PENDING"
  BY <1>1 DEF Requeued, Row, Status
<1> QED BY <1>2, <1>3

(* Whatever outcome it reports, an acknowledgement yields a row, and requeues *)
(* it only below max_attempts.                                                *)
LEMMA AcknowledgedRow ==
  ASSUME NEW row \in Row, NEW max \in Nat, NEW outcome
  PROVE  /\ Acknowledged(row, max, outcome) \in Row
         /\ Acknowledged(row, max, outcome).attempt = row.attempt
         /\ Acknowledged(row, max, outcome).status \in {"SUCCESS", "PENDING", "DEAD"}
         /\ Acknowledged(row, max, outcome).status = "PENDING" => row.attempt < max
<1>1. CASE outcome = "success"
  BY <1>1 DEF Acknowledged, Row, Status
<1>2. CASE outcome = "retry" /\ row.attempt < max
  BY <1>2 DEF Acknowledged, Row, Status
<1>3. CASE outcome # "success" /\ ~(outcome = "retry" /\ row.attempt < max)
  BY <1>3 DEF Acknowledged, Row, Status
<1> QED BY <1>1, <1>2, <1>3

-----------------------------------------------------------------------------
(* A fresh row has its whole budget. *)
LEMMA InsertJobKeeps ==
  ASSUME StoreInv, NEW j \in Job, InsertJob(j)
  PROVE  StoreInv'
<1> DEFINE row(i) == jobs'[i] \in Row /\ resets'[i] \in Nat /\ WithinBudget(i)'
<1>1. \A i \in Job : row(i)
  <2> SUFFICES ASSUME NEW i \in Job PROVE row(i)
    OBVIOUS
  <2>1. /\ jobs[i] \in Row /\ jobs[i].attempt \in Nat
        /\ resets[i] \in Nat /\ MaxAttempts[i] \in Nat \ {0}
        /\ WithinBudget(i)
    BY RowFacts
  <2>2. CASE i = j
    <3>1. /\ jobs'[i] = [status |-> "PENDING", attempt |-> 0, due |-> TRUE]
          /\ resets'[i] = resets[i]
      BY <2>2 DEF InsertJob, StoreInv, StoreTypeOK
    <3> QED BY <2>1, <2>2, <3>1 DEF WithinBudget, Row, Status
  <2>3. CASE ~(i = j)
    <3>1. jobs'[i] = jobs[i] /\ resets'[i] = resets[i]
      BY <2>3 DEF InsertJob, StoreInv, StoreTypeOK
    <3> QED BY <2>1, <3>1 DEF WithinBudget
  <2> QED BY <2>2, <2>3
<1>2. jobs' = [i \in Job |-> jobs'[i]] /\ resets' = [i \in Job |-> resets'[i]]
  BY DEF StoreInv, StoreTypeOK, InsertJob
<1> QED BY <1>1, <1>2, RowByRow

(* Time alone changes no attempt. *)
LEMMA BecomeDueKeeps ==
  ASSUME StoreInv, NEW j \in Job, BecomeDue(j)
  PROVE  StoreInv'
<1> DEFINE row(i) == jobs'[i] \in Row /\ resets'[i] \in Nat /\ WithinBudget(i)'
<1>1. \A i \in Job : row(i)
  <2> SUFFICES ASSUME NEW i \in Job PROVE row(i)
    OBVIOUS
  <2>1. /\ jobs[i] \in Row /\ jobs[i].attempt \in Nat
        /\ resets[i] \in Nat /\ MaxAttempts[i] \in Nat \ {0}
        /\ WithinBudget(i)
    BY RowFacts
  <2>2. CASE i = j
    <3>1. jobs'[i] = [jobs[i] EXCEPT !.due = TRUE] /\ resets'[i] = resets[i]
      BY <2>2 DEF BecomeDue, StoreInv, StoreTypeOK
    <3> QED BY <2>1, <2>2, <3>1 DEF WithinBudget, Row, Status
  <2>3. CASE ~(i = j)
    <3>1. jobs'[i] = jobs[i] /\ resets'[i] = resets[i]
      BY <2>3 DEF BecomeDue, StoreInv, StoreTypeOK
    <3> QED BY <2>1, <3>1 DEF WithinBudget
  <2> QED BY <2>2, <2>3
<1>2. jobs' = [i \in Job |-> jobs'[i]] /\ resets' = [i \in Job |-> resets'[i]]
  BY DEF StoreInv, StoreTypeOK, BecomeDue
<1> QED BY <1>1, <1>2, RowByRow

(* A claim spends the attempt a PENDING row has left. *)
LEMMA ClaimAndFetchJobsKeeps ==
  ASSUME StoreInv, NEW S \in SUBSET Job, ClaimAndFetchJobs(S)
  PROVE  StoreInv'
<1> DEFINE row(i) == jobs'[i] \in Row /\ resets'[i] \in Nat /\ WithinBudget(i)'
<1>1. \A i \in Job : row(i)
  <2> SUFFICES ASSUME NEW i \in Job PROVE row(i)
    OBVIOUS
  <2>1. /\ jobs[i] \in Row /\ jobs[i].attempt \in Nat
        /\ resets[i] \in Nat /\ MaxAttempts[i] \in Nat \ {0}
        /\ WithinBudget(i)
    BY RowFacts
  <2>2. CASE i \in S
    <3>1. /\ jobs'[i] = Claimed(jobs[i]) /\ resets'[i] = resets[i]
          /\ jobs[i].status = "PENDING"
      BY <2>2 DEF ClaimAndFetchJobs, StoreInv, StoreTypeOK, Claimable
    <3> QED BY <2>1, <2>2, <3>1, DerivedRows DEF WithinBudget
  <2>3. CASE ~(i \in S)
    <3>1. jobs'[i] = jobs[i] /\ resets'[i] = resets[i]
      BY <2>3 DEF ClaimAndFetchJobs, StoreInv, StoreTypeOK, Claimable
    <3> QED BY <2>1, <3>1 DEF WithinBudget
  <2> QED BY <2>2, <2>3
<1>2. jobs' = [i \in Job |-> jobs'[i]] /\ resets' = [i \in Job |-> resets'[i]]
  BY DEF StoreInv, StoreTypeOK, ClaimAndFetchJobs
<1> QED BY <1>1, <1>2, RowByRow

(* A batch of results, of any length and content. *)
LEMMA UpdateJobResultsKeeps ==
  ASSUME StoreInv, NEW batch, UpdateJobResults(batch)
  PROVE  StoreInv'
<1> DEFINE row(i) == jobs'[i] \in Row /\ resets'[i] \in Nat /\ WithinBudget(i)'
<1>1. \A i \in Job : row(i)
  <2> SUFFICES ASSUME NEW i \in Job PROVE row(i)
    OBVIOUS
  <2>1. /\ jobs[i] \in Row /\ jobs[i].attempt \in Nat
        /\ resets[i] \in Nat /\ MaxAttempts[i] \in Nat \ {0}
        /\ WithinBudget(i)
    BY RowFacts
  <2>2. CASE InBatch(batch, i) /\ jobs[i].status # "ABSENT"
    <3>1. /\ jobs'[i] = Acknowledged(jobs[i], MaxAttempts[i], LastOutcome(batch, i))
          /\ resets'[i] = resets[i]
      BY <2>2 DEF UpdateJobResults, StoreInv, StoreTypeOK
    <3> QED BY <2>1, <2>2, <3>1, AcknowledgedRow DEF WithinBudget
  <2>3. CASE ~(InBatch(batch, i) /\ jobs[i].status # "ABSENT")
    <3>1. jobs'[i] = jobs[i] /\ resets'[i] = resets[i]
      BY <2>3 DEF UpdateJobResults, StoreInv, StoreTypeOK
    <3> QED BY <2>1, <3>1 DEF WithinBudget
  <2> QED BY <2>2, <2>3
<1>2. jobs' = [i \in Job |-> jobs'[i]] /\ resets' = [i \in Job |-> resets'[i]]
  BY DEF StoreInv, StoreTypeOK, UpdateJobResults
<1> QED BY <1>1, <1>2, RowByRow

(* A reset gives back the attempt it requeues, and is counted. *)
LEMMA ResetStaleJobKeeps ==
  ASSUME StoreInv, NEW j \in Job, ResetStaleJob(j)
  PROVE  StoreInv'
<1> DEFINE row(i) == jobs'[i] \in Row /\ resets'[i] \in Nat /\ WithinBudget(i)'
<1>1. \A i \in Job : row(i)
  <2> SUFFICES ASSUME NEW i \in Job PROVE row(i)
    OBVIOUS
  <2>1. /\ jobs[i] \in Row /\ jobs[i].attempt \in Nat
        /\ resets[i] \in Nat /\ MaxAttempts[i] \in Nat \ {0}
        /\ WithinBudget(i)
    BY RowFacts
  <2>2. CASE i = j /\ Running(j)
    <3>1. jobs'[i] = Requeued(jobs[i]) /\ resets'[i] = resets[i] + 1
      BY <2>2 DEF ResetStaleJob, StoreInv, StoreTypeOK
    <3> QED BY <2>1, <2>2, <3>1, DerivedRows DEF WithinBudget
  <2>3. CASE ~(i = j /\ Running(j))
    <3>1. jobs'[i] = jobs[i] /\ resets'[i] = resets[i]
      BY <2>3 DEF ResetStaleJob, StoreInv, StoreTypeOK
    <3> QED BY <2>1, <3>1 DEF WithinBudget
  <2> QED BY <2>2, <2>3
<1>2. jobs' = [i \in Job |-> jobs'[i]] /\ resets' = [i \in Job |-> resets'[i]]
  BY DEF StoreInv, StoreTypeOK, ResetStaleJob
<1> QED BY <1>1, <1>2, RowByRow

(* Cancelling a queued job changes no attempt. *)
LEMMA CancelJobKeeps ==
  ASSUME StoreInv, NEW j \in Job, CancelJob(j)
  PROVE  StoreInv'
<1> DEFINE row(i) == jobs'[i] \in Row /\ resets'[i] \in Nat /\ WithinBudget(i)'
<1>1. \A i \in Job : row(i)
  <2> SUFFICES ASSUME NEW i \in Job PROVE row(i)
    OBVIOUS
  <2>1. /\ jobs[i] \in Row /\ jobs[i].attempt \in Nat
        /\ resets[i] \in Nat /\ MaxAttempts[i] \in Nat \ {0}
        /\ WithinBudget(i)
    BY RowFacts
  <2>2. CASE i = j
    <3>1. jobs'[i] = [jobs[i] EXCEPT !.status = "CANCELLED"] /\ resets'[i] = resets[i]
      BY <2>2 DEF CancelJob, StoreInv, StoreTypeOK
    <3> QED BY <2>1, <2>2, <3>1 DEF WithinBudget, Row, Status
  <2>3. CASE ~(i = j)
    <3>1. jobs'[i] = jobs[i] /\ resets'[i] = resets[i]
      BY <2>3 DEF CancelJob, StoreInv, StoreTypeOK
    <3> QED BY <2>1, <3>1 DEF WithinBudget
  <2> QED BY <2>2, <2>3
<1>2. jobs' = [i \in Job |-> jobs'[i]] /\ resets' = [i \in Job |-> resets'[i]]
  BY DEF StoreInv, StoreTypeOK, CancelJob
<1> QED BY <1>1, <1>2, RowByRow

(* The operator's retry opens a new budget. *)
LEMMA RetryJobKeeps ==
  ASSUME StoreInv, NEW j \in Job, RetryJob(j)
  PROVE  StoreInv'
<1> DEFINE row(i) == jobs'[i] \in Row /\ resets'[i] \in Nat /\ WithinBudget(i)'
<1>1. \A i \in Job : row(i)
  <2> SUFFICES ASSUME NEW i \in Job PROVE row(i)
    OBVIOUS
  <2>1. /\ jobs[i] \in Row /\ jobs[i].attempt \in Nat
        /\ resets[i] \in Nat /\ MaxAttempts[i] \in Nat \ {0}
        /\ WithinBudget(i)
    BY RowFacts
  <2>2. CASE i = j
    <3>1. /\ jobs'[i] = [status |-> "PENDING", attempt |-> 0, due |-> TRUE]
          /\ resets'[i] = 0
      BY <2>2 DEF RetryJob, StoreInv, StoreTypeOK
    <3> QED BY <2>1, <2>2, <3>1 DEF WithinBudget, Row, Status
  <2>3. CASE ~(i = j)
    <3>1. jobs'[i] = jobs[i] /\ resets'[i] = resets[i]
      BY <2>3 DEF RetryJob, StoreInv, StoreTypeOK
    <3> QED BY <2>1, <3>1 DEF WithinBudget
  <2> QED BY <2>2, <2>3
<1>2. jobs' = [i \in Job |-> jobs'[i]] /\ resets' = [i \in Job |-> resets'[i]]
  BY DEF StoreInv, StoreTypeOK, RetryJob
<1> QED BY <1>1, <1>2, RowByRow

(* Recovery looks at the budget before it requeues. *)
LEMMA RecoverStaleJobsKeeps ==
  ASSUME StoreInv, NEW S \in SUBSET Job, RecoverStaleJobs(S)
  PROVE  StoreInv'
<1> DEFINE row(i) == jobs'[i] \in Row /\ resets'[i] \in Nat /\ WithinBudget(i)'
<1>1. \A i \in Job : row(i)
  <2> SUFFICES ASSUME NEW i \in Job PROVE row(i)
    OBVIOUS
  <2>1. /\ jobs[i] \in Row /\ jobs[i].attempt \in Nat
        /\ resets[i] \in Nat /\ MaxAttempts[i] \in Nat \ {0}
        /\ WithinBudget(i)
    BY RowFacts
  <2>2. CASE i \in S /\ jobs[i].attempt < MaxAttempts[i]
    <3>1. jobs'[i] = Requeued(jobs[i]) /\ resets'[i] = resets[i]
      BY <2>2 DEF RecoverStaleJobs
    <3> QED BY <2>1, <2>2, <3>1, DerivedRows DEF WithinBudget
  <2>3. CASE i \in S /\ ~(jobs[i].attempt < MaxAttempts[i])
    <3>1. jobs'[i] = [jobs[i] EXCEPT !.status = "DEAD"] /\ resets'[i] = resets[i]
      BY <2>3 DEF RecoverStaleJobs
    <3> QED BY <2>1, <3>1 DEF WithinBudget, Row, Status
  <2>4. CASE i \notin S
    <3>1. jobs'[i] = jobs[i] /\ resets'[i] = resets[i]
      BY <2>4 DEF RecoverStaleJobs
    <3> QED BY <2>1, <3>1 DEF WithinBudget
  <2> QED BY <2>2, <2>3, <2>4
<1>2. jobs' = [i \in Job |-> jobs'[i]] /\ resets' = [i \in Job |-> resets'[i]]
  BY DEF StoreInv, StoreTypeOK, RecoverStaleJobs
<1> QED BY <1>1, <1>2, RowByRow

-----------------------------------------------------------------------------
(* Only a claim makes a row RUNNING; a reset, a batch of results and recovery *)
(* end the RUNNING status of every row they are for.                          *)
LEMMA QueueRuns ==
  ASSUME StoreInv, NEW j \in Job, NEW i \in Job, Running(i)',
         InsertJob(j) \/ BecomeDue(j) \/ CancelJob(j) \/ RetryJob(j)
  PROVE  Running(i)
BY DEF StoreInv, StoreTypeOK, Running, InsertJob, BecomeDue, CancelJob, RetryJob, Row

LEMMA ClaimRuns ==
  ASSUME NEW S, NEW i \in Job, ClaimAndFetchJobs(S), Running(i)', i \notin S
  PROVE  Running(i)
BY DEF Running, ClaimAndFetchJobs

LEMMA ResetRuns ==
  ASSUME StoreInv, NEW j \in Job, NEW i \in Job, ResetStaleJob(j), Running(i)'
  PROVE  Running(i) /\ i # j
<1>1. CASE Running(j)
  BY <1>1 DEF StoreInv, StoreTypeOK, Running, ResetStaleJob, Requeued
<1>2. CASE ~Running(j)
  BY <1>2 DEF StoreInv, StoreTypeOK, Running, ResetStaleJob
<1> QED BY <1>1, <1>2

LEMMA BatchRuns ==
  ASSUME StoreInv, NEW batch, NEW i \in Job, UpdateJobResults(batch), Running(i)'
  PROVE  Running(i) /\ ~InBatch(batch, i)
<1>1. CASE InBatch(batch, i) /\ jobs[i].status # "ABSENT"
  <2>1. jobs'[i] = Acknowledged(jobs[i], MaxAttempts[i], LastOutcome(batch, i))
    BY <1>1 DEF UpdateJobResults
  <2>2. jobs'[i].status \in {"SUCCESS", "PENDING", "DEAD"}
    BY <2>1, RowFacts, AcknowledgedRow
  <2> QED BY <2>2 DEF Running
<1>2. CASE ~(InBatch(batch, i) /\ jobs[i].status # "ABSENT")
  <2>1. jobs'[i] = jobs[i]
    BY <1>2 DEF UpdateJobResults
  <2> QED BY <1>2, <2>1 DEF Running
<1> QED BY <1>1, <1>2

LEMMA RecoveryRuns ==
  ASSUME StoreInv, NEW S, NEW i \in Job, RecoverStaleJobs(S), Running(i)'
  PROVE  Running(i) /\ i \notin S
<1>1. CASE i \in S /\ jobs[i].attempt < MaxAttempts[i]
  <2>1. jobs'[i] = Requeued(jobs[i])
    BY <1>1 DEF RecoverStaleJobs
  <2> QED BY <2>1 DEF Requeued, Running
<1>2. CASE i \in S /\ ~(jobs[i].attempt < MaxAttempts[i])
  <2>1. jobs'[i] = [jobs[i] EXCEPT !.status = "DEAD"] /\ jobs[i] \in Row
    BY <1>2, RowFacts DEF RecoverStaleJobs
  <2> QED BY <2>1 DEF Running, Row
<1>3. CASE i \notin S
  BY <1>3 DEF RecoverStaleJobs, Running
<1> QED BY <1>1, <1>2, <1>3

(* Any storage operation keeps the rows within their budget. *)
LEMMA StoreNextKeeps ==
  ASSUME StoreInv, [StoreNext]_storeVars
  PROVE  StoreInv'
<1>1. CASE UNCHANGED storeVars
  BY <1>1 DEF storeVars, StoreInv, StoreTypeOK, AttemptBudget, WithinBudget
<1>2. CASE StoreNext
  BY <1>2, InsertJobKeeps, BecomeDueKeeps, ClaimAndFetchJobsKeeps, UpdateJobResultsKeeps,
     ResetStaleJobKeeps, RecoverStaleJobsKeeps, CancelJobKeeps, RetryJobKeeps DEF StoreNext
<1> QED BY <1>1, <1>2

(* A table without jobs is within budget. *)
LEMMA StoreInitKeeps == StoreInit => StoreInv
BY StoreAssumption
   DEF StoreInit, StoreInv, StoreTypeOK, AttemptBudget, WithinBudget, Row, Status

(* The table, under any sequence of storage calls: its rows stay well formed  *)
(* and attempts exceed max_attempts only by counted resets.                   *)
THEOREM StoreBudget == StoreSpec => [](StoreTypeOK /\ AttemptBudget)
<1>1. StoreInv /\ [StoreNext]_storeVars => StoreInv'
  BY StoreNextKeeps
<1> QED BY <1>1, StoreInitKeeps, PTL DEF StoreSpec, StoreInv

-----------------------------------------------------------------------------
(* A set of numbers has a least one: the initial segments up to its numbers *)
(* have a smallest.                                                         *)
LEMMA SmallestOf ==
  ASSUME NEW S, S \subseteq Nat, S # {}
  PROVE  \E i \in S : \A k \in S : i <= k
<1> DEFINE T == {0..i : i \in S}
           R == StrictSubsetOrdering(Nat)
<1>1. T \subseteq FiniteSubsetsOf(Nat) /\ T # {}
  <2>1. ASSUME NEW i \in S PROVE 0..i \in FiniteSubsetsOf(Nat)
    <3>1. IsFiniteSet(0..i)
      BY FS_Interval, i \in Nat, 0 \in Int, i \in Int
    <3>2. 0..i \subseteq Nat
      BY i \in Nat
    <3> QED BY <3>1, <3>2 DEF FiniteSubsetsOf
  <2> QED BY <2>1
<1>2. IsWellFoundedOn(R, FiniteSubsetsOf(Nat))
  BY FS_StrictSubsetOrderingWellFounded
<1>3. PICK x \in T : \A y \in T : ~(<<y, x>> \in R)
  <2> HIDE DEF T, R
  <2> QED BY <1>1, <1>2, WFMin
<1>4. PICK i \in S : x = 0..i
  BY <1>3
<1>5. ASSUME NEW k \in S, k < i PROVE FALSE
  <2>1. i \in Nat /\ k \in Nat
    OBVIOUS
  <2>2. 0..k \subseteq 0..i /\ 0..k \subseteq Nat /\ 0..i \subseteq Nat
    BY <2>1, <1>5
  <2>3. i \in 0..i /\ i \notin 0..k
    BY <2>1, <1>5
  <2>4. <<0..k, 0..i>> \in R
    BY <2>2, <2>3 DEF StrictSubsetOrdering
  <2> QED BY <2>4, <1>3, <1>4
<1>6. \A k \in S : k \in Nat /\ i \in Nat /\ ~(k < i)
  BY <1>5
<1> QED BY <1>6

(* A set of numbers below a bound has a greatest one: the distances to the  *)
(* bound have a least.                                                      *)
LEMMA GreatestOf ==
  ASSUME NEW n \in Nat, NEW S, S \subseteq 0..n, S # {}
  PROVE  \E i \in S : \A k \in S : k <= i
<1> DEFINE D == {n - i : i \in S}
<1>1. D \subseteq Nat /\ D # {}
  <2>1. \A i \in S : n - i \in Nat
    OBVIOUS
  <2>2. PICK i \in S : TRUE
    OBVIOUS
  <2> QED BY <2>1, <2>2
<1>2. PICK d \in D : \A e \in D : d <= e
  <2> HIDE DEF D
  <2> QED BY <1>1, SmallestOf
<1>3. PICK i \in S : d = n - i
  BY <1>2
<1>4. ASSUME NEW k \in S PROVE k <= i
  <2>1. n - k \in D
    OBVIOUS
  <2>2. n - i <= n - k
    BY <1>2, <1>3, <2>1
  <2> QED BY <2>2
<1> QED BY <1>4

(* The result of a batch that decides about job j is its last one of j.     *)
LEMMA LastResult ==
  ASSUME NEW batch \in Seq(Ack), NEW j, InBatch(batch, j)
  PROVE  \E i \in DOMAIN batch :
           /\ batch[i].job = j /\ LastOutcome(batch, j) = batch[i].outcome
           /\ \A k \in DOMAIN batch : batch[k].job = j => k <= i
<1> DEFINE S == {i \in DOMAIN batch : batch[i].job = j}
           Last(i) == /\ batch[i].job = j
                      /\ \A k \in DOMAIN batch : k > i => batch[k].job # j
<1>1. Len(batch) \in Nat /\ DOMAIN batch = 1..Len(batch)
  OBVIOUS
<1>2. S \subseteq 0..Len(batch) /\ S # {}
  BY <1>1 DEF InBatch
<1>3. PICK i \in S : \A k \in S : k <= i
  <2> HIDE DEF S
  <2> QED BY <1>1, <1>2, GreatestOf
<1>4. i \in DOMAIN batch /\ Last(i)
  BY <1>1, <1>3
<1>5. \A m \in DOMAIN batch : Last(m) => m = i
  BY <1>1, <1>3, <1>4
<1>6. (CHOOSE m \in DOMAIN batch : Last(m)) = i
  <2> HIDE DEF Last
  <2> QED BY <1>4, <1>5
<1>7. LastOutcome(batch, j) = batch[i].outcome
  BY <1>6 DEF LastOutcome
<1> QED BY <1>3, <1>7
=============================================================================
