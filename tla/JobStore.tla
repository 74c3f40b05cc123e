---------------------------- MODULE JobStore ----------------------------
(***************************************************************************)
(* The jobs table of the single-node server: every statement of            *)
(* core/src/storage/sqlite.rs that changes a row on the dispatch path, one *)
(* action per storage operation.  The connection sits behind one mutex and *)
(* every operation holds it to its end, so each is a single step.          *)
(*                                                                         *)
(* A row keeps its status, its attempt counter and whether scheduled_at    *)
(* has been reached ("due").  The result and error payloads, worker_id,    *)
(* which nothing reads back, and started_at, which only startup recovery   *)
(* reads, are abstracted away.                                             *)
(***************************************************************************)
EXTENDS Integers, Sequences, FiniteSets, Jobs

CONSTANTS
  MaxAttempts,  \* options.max_attempts of each job
  AttemptCap,   \* bound of the model: a job is not claimed beyond it
  BatchMax      \* batch_size of the ack batch processor

ASSUME StoreAssumption ==
  /\ MaxAttempts \in [Job -> Nat \ {0}]
  /\ AttemptCap \in Nat
  /\ BatchMax \in Nat \ {0}

VARIABLES
  jobs,    \* the table: one row per job, "ABSENT" until it is inserted
  resets   \* history: unguarded resets of the job since its attempt was last 0

storeVars == <<jobs, resets>>

Status  == {"ABSENT", "PENDING", "RUNNING", "SUCCESS", "DEAD", "CANCELLED"}
Row     == [status : Status, attempt : Nat, due : BOOLEAN]
Outcome == {"success", "retry", "fatal"}
Ack     == [job : Job, outcome : Outcome]

StoreTypeOK ==
  /\ jobs \in [Job -> Row]
  /\ resets \in [Job -> Nat]

StoreInit ==
  /\ jobs = [j \in Job |-> [status |-> "ABSENT", attempt |-> 0, due |-> FALSE]]
  /\ resets = [j \in Job |-> 0]

Running(j)  == jobs[j].status = "RUNNING"
Terminal(j) == jobs[j].status \in {"SUCCESS", "DEAD", "CANCELLED"}

-----------------------------------------------------------------------------
(* insert_job: a fresh row, scheduled for now. *)
InsertJob(j) ==
  /\ jobs[j].status = "ABSENT"
  /\ jobs' = [jobs EXCEPT ![j] = [status |-> "PENDING", attempt |-> 0, due |-> TRUE]]
  /\ UNCHANGED resets

(* Time passes scheduled_at of a job that was waiting for its backoff. *)
BecomeDue(j) ==
  /\ jobs[j].status = "PENDING" /\ ~jobs[j].due
  /\ jobs' = [jobs EXCEPT ![j].due = TRUE]
  /\ UNCHANGED resets

(* Mutant of Claimable: no status filter, a RUNNING row may be claimed again. *)
ClaimableAgain(j) ==
  jobs[j].status \in {"PENDING", "RUNNING"} /\ jobs[j].due /\ jobs[j].attempt < AttemptCap

(* The rows claim_and_fetch_jobs selects from; AttemptCap only bounds the model. *)
Claimable(j) ==
  jobs[j].status = "PENDING" /\ jobs[j].due /\ jobs[j].attempt < AttemptCap

(* claim_and_fetch_jobs, for the rows S its SELECT returned. *)
Claimed(row) == [status |-> "RUNNING", attempt |-> row.attempt + 1, due |-> row.due]

ClaimAndFetchJobs(S) ==
  /\ \A j \in S : Claimable(j)
  /\ jobs' = [j \in Job |->
                IF j \in S
                THEN Claimed(jobs[j])
                ELSE jobs[j]]
  /\ UNCHANGED resets

(* Mutants of Acknowledged: the budget compared with <= ; the status FAILED,  *)
(* which no row has.                                                         *)
AcknowledgedOnceMore(row, max, outcome) ==
  IF outcome = "success" THEN [row EXCEPT !.status = "SUCCESS"]
  ELSE IF outcome = "retry" /\ row.attempt <= max
       THEN [row EXCEPT !.status = "PENDING", !.due = FALSE]
       ELSE [row EXCEPT !.status = "DEAD"]

AcknowledgedFailed(row, max, outcome) ==
  IF outcome = "success" THEN [row EXCEPT !.status = "SUCCESS"]
  ELSE [row EXCEPT !.status = "FAILED"]

(* The row one acknowledgement leaves.  Neither UPDATE looks at the status. *)
Acknowledged(row, max, outcome) ==
  CASE outcome = "success" ->
         [row EXCEPT !.status = "SUCCESS"]
    [] outcome = "retry" /\ row.attempt < max ->
         [row EXCEPT !.status = "PENDING", !.due = FALSE]
    [] OTHER ->
         [row EXCEPT !.status = "DEAD"]

(* The last result a batch holds for a job.  An acknowledgement sets the row *)
(* from the attempt counter alone, which no acknowledgement changes, so the  *)
(* last one in the batch decides the row the transaction leaves.             *)
LastOutcome(batch, j) ==
  LET last == CHOOSE i \in DOMAIN batch :
                /\ batch[i].job = j
                /\ \A k \in DOMAIN batch : k > i => batch[k].job # j
  IN  batch[last].outcome

InBatch(batch, j) == \E i \in DOMAIN batch : batch[i].job = j

(* update_job_results: the results of a batch, in one transaction.  A result *)
(* for a row that does not exist changes nothing.                            *)
UpdateJobResults(batch) ==
  /\ jobs' = [j \in Job |->
                IF InBatch(batch, j) /\ jobs[j].status # "ABSENT"
                THEN Acknowledged(jobs[j], MaxAttempts[j], LastOutcome(batch, j))
                ELSE jobs[j]]
  /\ UNCHANGED resets

(* reset_stale_job: RUNNING back to PENDING, due at once, whatever the attempt. *)
Requeued(row) == [status |-> "PENDING", attempt |-> row.attempt, due |-> TRUE]

ResetStaleJob(j) ==
  /\ jobs' = IF Running(j) THEN [jobs EXCEPT ![j] = Requeued(@)] ELSE jobs
  /\ resets' = IF Running(j) THEN [resets EXCEPT ![j] = @ + 1] ELSE resets

(* recover_stale_jobs at startup, for the RUNNING rows whose timeout is over. *)
RecoverStaleJobs(stale) ==
  /\ \A j \in stale : Running(j)
  /\ jobs' = [j \in Job |->
                IF j \notin stale THEN jobs[j]
                ELSE IF jobs[j].attempt < MaxAttempts[j]
                     THEN Requeued(jobs[j])
                     ELSE [jobs[j] EXCEPT !.status = "DEAD"]]
  /\ UNCHANGED resets

(* cancel_job: only a PENDING row. *)
CancelJob(j) ==
  /\ jobs[j].status = "PENDING"
  /\ jobs' = [jobs EXCEPT ![j].status = "CANCELLED"]
  /\ UNCHANGED resets

(* retry_job: only a DEAD row (FAILED is never written); a new budget. *)
RetryJob(j) ==
  /\ jobs[j].status = "DEAD"
  /\ jobs' = [jobs EXCEPT ![j] = [status |-> "PENDING", attempt |-> 0, due |-> TRUE]]
  /\ resets' = [resets EXCEPT ![j] = 0]

StoreNext ==
  \/ \E j \in Job : InsertJob(j)
  \/ \E j \in Job : BecomeDue(j)
  \/ \E S \in SUBSET Job : ClaimAndFetchJobs(S)
  \/ \E n \in 1..BatchMax : \E batch \in [1..n -> Ack] : UpdateJobResults(batch)
  \/ \E j \in Job : ResetStaleJob(j)
  \/ \E S \in SUBSET Job : RecoverStaleJobs(S)
  \/ \E j \in Job : CancelJob(j)
  \/ \E j \in Job : RetryJob(j)

StoreSpec == StoreInit /\ [][StoreNext]_storeVars

-----------------------------------------------------------------------------
WithinBudget(j) ==
  /\ jobs[j].attempt <= MaxAttempts[j] + resets[j]
  /\ jobs[j].status = "PENDING" => jobs[j].attempt < MaxAttempts[j] + resets[j]

(* However the callers of the storage interleave, retry budgets fail only by *)
(* resets: the attempt counter of a row exceeds max_attempts by at most the  *)
(* number of times reset_stale_job returned a running attempt to the queue   *)
(* without looking at the counter, and a queued row has an attempt left.     *)
AttemptBudget == \A j \in Job : WithinBudget(j)
=============================================================================
