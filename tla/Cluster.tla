---------------------------- MODULE Cluster ----------------------------
(***************************************************************************)
(* Several servers on one Postgres: core/src/storage/postgres.rs, with the *)
(* batch processor of each server (core/src/server/service.rs), the claims *)
(* of its scheduler and its startup recovery (core/src/scheduler/mod.rs).  *)
(*                                                                         *)
(* The rows are those of JobStore, and an operation of one statement is a  *)
(* step of JobStore that waits while another transaction holds the row.    *)
(* update_job_results is not one step here: the successes are an UPDATE of *)
(* their own, then each failure is a SELECT and an UPDATE of a transaction.*)
(* Workers may reach any server: the call of an ack need not go where the  *)
(* job came from.                                                          *)
(***************************************************************************)
EXTENDS JobStore

CONSTANTS
  Node,      \* the servers
  NoBatch,   \* a batch processor between two batches
  NoRead,    \* a transaction that has not read the attempt of its next row
  Budgets    \* how often each fault or request may happen, in the behaviours checked

Hazard == {"submit", "takeback", "death", "db", "revive", "cancel"} \cup Outcome

ASSUME ClusterAssumption ==
  /\ Budgets \subseteq [Hazard -> Nat]
  /\ NoRead \notin Nat

VARIABLES
  runs,       \* executions on the workers
  power,      \* of each server: "up", "down", or "starting"
  assigned,   \* jobs each server's registry has on its workers
  acks,       \* ack_tx of each server
  batch,      \* the call of update_job_results each server is in
  stale,      \* what a starting server has still to recover
  lost,       \* history: jobs with a result since their last claim that never reached the table
  disturbed,  \* history: jobs taken from a running execution
  strays,     \* history: jobs an operator retried with a result under way
  left        \* how often each Hazard may still happen

serverVars == <<power, assigned, acks, batch, stale>>
histVars   == <<lost, disturbed, strays>>
vars       == <<storeVars, runs, serverVars, histVars, left>>

Run == [job : Job, attempt : Nat]

(* wins: the successes; todo: the failures to do, by their place in the     *)
(* batch; writes: the rows the open transaction has locked, with the status *)
(* it gives them.                                                           *)
Batch == [wins : SUBSET Job, todo : UNION {[S -> Ack] : S \in SUBSET (1..BatchMax)},
          writes : UNION {[S -> Status] : S \in SUBSET Job}, read : Nat \cup {NoRead},
          stage : {"successes", "failures"}]

ASSUME BatchAssumption == NoBatch \notin Batch

(* A row as get_stale_running_jobs returned it.                             *)
Stale == [job : Job, attempt : Nat]

TypeOK ==
  /\ StoreTypeOK
  /\ runs \in SUBSET Run
  /\ power \in [Node -> {"up", "down", "starting"}]
  /\ assigned \in [Node -> SUBSET Job]
  /\ acks \in [Node -> Seq(Ack)]
  /\ batch \in [Node -> Batch \cup {NoBatch}]
  /\ stale \in [Node -> SUBSET Stale]
  /\ lost \in SUBSET Job /\ disturbed \in SUBSET Job /\ strays \in SUBSET Job
  /\ left \in [Hazard -> Nat]

Init ==
  /\ StoreInit
  /\ runs = {}
  /\ power = [n \in Node |-> "up"]
  /\ assigned = [n \in Node |-> {}]
  /\ acks = [n \in Node |-> <<>>]
  /\ batch = [n \in Node |-> NoBatch]
  /\ stale = [n \in Node |-> {}]
  /\ lost = {} /\ disturbed = {} /\ strays = {}
  /\ left \in Budgets

(* One more of a bounded fault or request.                                  *)
Spend(h) == left[h] > 0 /\ left' = [left EXCEPT ![h] = @ - 1]

InCall(n) == batch[n] # NoBatch
Holds(n, j) == InCall(n) /\ j \in DOMAIN batch[n].writes

(* No open transaction has the row: a statement that writes it can run.     *)
Free(j) == \A n \in Node : ~Holds(n, j)
FreeFor(n, j) == \A m \in Node \ {n} : ~Holds(m, j)

(* Acks that are queued or in a call on server n, as sets of jobs.          *)
JobsIn(seq) == {seq[i].job : i \in DOMAIN seq}
InHand(n) == JobsIn(acks[n]) \cup
             (IF InCall(n) THEN batch[n].wins \cup DOMAIN batch[n].writes \cup JobsIn(batch[n].todo)
              ELSE {})
UnderWay(j) == (\E r \in runs : r.job = j) \/ \E n \in Node : j \in InHand(n)

-----------------------------------------------------------------------------
(* Operations of one statement. *)

Submit(j) == Spend("submit") /\ InsertJob(j) /\ UNCHANGED <<runs, serverVars, histVars>>

Elapse(j) == BecomeDue(j) /\ UNCHANGED <<runs, serverVars, histVars, left>>

(* claim_and_fetch_jobs: SKIP LOCKED passes over a row with a transaction.  *)
Claim(n, j) ==
  /\ power[n] = "up"
  /\ Free(j)
  /\ ClaimAndFetchJobs({j})
  /\ runs' = runs \cup {[job |-> j, attempt |-> jobs[j].attempt + 1]}
  /\ assigned' = [assigned EXCEPT ![n] = @ \cup {j}]
  /\ lost' = lost \ {j}
  /\ UNCHANGED <<power, acks, batch, stale, disturbed, strays, left>>

(* The stream of the worker to server n ends: its jobs there are reset.     *)
TakeBack(n, j) ==
  /\ power[n] = "up" /\ j \in assigned[n]
  /\ Free(j)
  /\ Spend("takeback")
  /\ ResetStaleJob(j)
  /\ assigned' = [assigned EXCEPT ![n] = @ \ {j}]
  /\ disturbed' = IF Running(j) THEN disturbed \cup {j} ELSE disturbed
  /\ UNCHANGED <<runs, power, acks, batch, stale, lost, strays>>

Cancel(j) ==
  /\ Free(j)
  /\ Spend("cancel")
  /\ CancelJob(j)
  /\ UNCHANGED <<runs, serverVars, histVars>>

Retry(j) ==
  /\ Free(j)
  /\ Spend("revive")
  /\ RetryJob(j)
  /\ strays' = IF UnderWay(j) THEN strays \cup {j} ELSE strays
  /\ UNCHANGED <<runs, serverVars, lost, disturbed>>

(* A worker reports to some server: ack_tx of that server.                  *)
Report(r, n, o) ==
  /\ r \in runs /\ power[n] = "up"
  /\ runs' = runs \ {r}
  /\ acks' = [acks EXCEPT ![n] = Append(@, [job |-> r.job, outcome |-> o])]
  /\ assigned' = [assigned EXCEPT ![n] = @ \ {r.job}]
  /\ IF o = "fatal" THEN UNCHANGED left ELSE Spend(o)
  /\ UNCHANGED <<storeVars, power, batch, stale, histVars>>

-----------------------------------------------------------------------------
(* update_job_results. *)

(* Nothing to do, or written.                                               *)
Nothing == [x \in {} |-> "none"]

(* The processor takes up to batch_size results; the successes come first,  *)
(* wherever they stood.                                                     *)
TakeBatch(n, k) ==
  LET wins == {acks[n][i].job : i \in {i \in 1..k : acks[n][i].outcome = "success"}}
  IN  /\ power[n] = "up" /\ ~InCall(n) /\ k <= Len(acks[n])
      /\ batch' = [batch EXCEPT ![n] =
                     [wins |-> wins,
                      todo |-> [i \in {i \in 1..k : acks[n][i].outcome # "success"} |-> acks[n][i]],
                      writes |-> Nothing, read |-> NoRead,
                      stage |-> IF wins = {} THEN "failures" ELSE "successes"]]
      /\ acks' = [acks EXCEPT ![n] = SubSeq(@, k + 1, Len(@))]
      /\ UNCHANGED <<storeVars, runs, power, assigned, stale, lost,
                     disturbed, strays, left>>

(* The transaction of n writes row j: it holds the row from now on.         *)
Written(n, j, status) == [i \in DOMAIN batch[n].writes \cup {j} |->
                            IF i = j THEN status ELSE batch[n].writes[i]]

(* The UPDATE of the successes meets one row after the other.               *)
LockSuccess(n, j) ==
  /\ InCall(n) /\ batch[n].stage = "successes"
  /\ j \in batch[n].wins \ DOMAIN batch[n].writes
  /\ FreeFor(n, j)
  /\ batch' = [batch EXCEPT ![n].writes = Written(n, j, "SUCCESS")]
  /\ UNCHANGED <<storeVars, runs, power, assigned, acks, stale, histVars, left>>

(* Mutant of Committed: only rows that are still PENDING are written.       *)
CommittedGuarded(n) ==
  [j \in Job |->
     IF j \in DOMAIN batch[n].writes /\ jobs[j].status = "PENDING"
     THEN [jobs[j] EXCEPT !.status = batch[n].writes[j],
                          !.due = @ /\ batch[n].writes[j] # "PENDING"]
     ELSE jobs[j]]

(* The rows once the writes of n are committed; none of them changes        *)
(* attempt, and PENDING comes with a new scheduled_at.                      *)
Committed(n) ==
  [j \in Job |->
     IF j \in DOMAIN batch[n].writes
     THEN [jobs[j] EXCEPT !.status = batch[n].writes[j],
                          !.due = @ /\ batch[n].writes[j] # "PENDING"]
     ELSE jobs[j]]

(* It ends, and is committed: it is outside the transaction of the failures.*)
CommitSuccesses(n) ==
  /\ InCall(n) /\ batch[n].stage = "successes"
  /\ batch[n].wins = DOMAIN batch[n].writes
  /\ jobs' = Committed(n)
  /\ batch' = [batch EXCEPT ![n].stage = "failures", ![n].writes = Nothing, ![n].wins = {}]
  /\ UNCHANGED <<resets, runs, power, assigned, acks, stale, lost, disturbed, strays, left>>

First(todo) == CHOOSE i \in DOMAIN todo : \A k \in DOMAIN todo : i <= k
Rest(todo)  == [i \in DOMAIN todo \ {First(todo)} |-> todo[i]]
Current(n)  == batch[n].todo[First(batch[n].todo)]
HasMore(n)  == DOMAIN batch[n].todo # {}

(* The SELECT of the next failure takes no lock.                            *)
ReadAttempt(n) ==
  /\ InCall(n) /\ batch[n].stage = "failures"
  /\ HasMore(n) /\ batch[n].read = NoRead
  /\ batch' = [batch EXCEPT ![n].read = jobs[Current(n).job].attempt]
  /\ UNCHANGED <<storeVars, runs, power, assigned, acks, stale, histVars, left>>

(* Mutants of Verdict: the budget compared with <= ; the status FAILED.     *)
VerdictFailed(ack, attempt) ==
  IF ack.outcome = "retry" /\ attempt < MaxAttempts[ack.job] THEN "PENDING" ELSE "FAILED"

VerdictOnceMore(ack, attempt) ==
  IF ack.outcome = "retry" /\ attempt <= MaxAttempts[ack.job] THEN "PENDING" ELSE "DEAD"

(* What becomes of a failed job, from the attempt that was read.            *)
Verdict(ack, attempt) ==
  IF ack.outcome = "retry" /\ attempt < MaxAttempts[ack.job] THEN "PENDING" ELSE "DEAD"

(* Its UPDATE, whatever the row has become since the SELECT.                *)
WriteFailure(n) ==
  LET ack == Current(n)
      v   == Verdict(ack, batch[n].read)
  IN  /\ InCall(n) /\ batch[n].stage = "failures" /\ HasMore(n) /\ batch[n].read # NoRead
      /\ FreeFor(n, ack.job)
      /\ batch' = [batch EXCEPT ![n].writes = Written(n, ack.job, v),
                                ![n].todo = Rest(@), ![n].read = NoRead]
      /\ UNCHANGED <<storeVars, runs, power, assigned, acks, stale, histVars, left>>

(* The failures are committed; the call returns and its notices go out.     *)
Return(n) ==
  /\ InCall(n) /\ batch[n].stage = "failures" /\ ~HasMore(n)
  /\ jobs' = Committed(n)
  /\ batch' = [batch EXCEPT ![n] = NoBatch]
  /\ UNCHANGED <<resets, runs, power, assigned, acks, stale, lost, disturbed,
                 strays, left>>

(* The rows the next statement of a call writes.                            *)
Wants(n) ==
  IF ~InCall(n) THEN {}
  ELSE IF batch[n].stage = "successes" THEN batch[n].wins \ DOMAIN batch[n].writes
  ELSE IF batch[n].read # NoRead THEN {Current(n).job} ELSE {}

WaitsFor(n, m) == n # m /\ \E j \in Wants(n) : Holds(m, j)

(* A cycle of waiting transactions through n, of any length.                *)
Deadlocked(n) ==
  \E k \in 2..Cardinality(Node) : \E c \in [0..(k - 1) -> Node] :
    c[0] = n /\ \A i \in 0..(k - 1) : WaitsFor(c[i], c[(i + 1) % k])

(* A statement fails and the call returns the error: the transaction is     *)
(* rolled back, what it had to do is logged and dropped.                    *)
Unwritten(n) == batch[n].wins \cup DOMAIN batch[n].writes \cup JobsIn(batch[n].todo)

(* Mutant of Fail: the failed statement is tried again, the locks kept.     *)
FailAgain(n) ==
  /\ InCall(n)
  /\ batch' = [batch EXCEPT ![n].read = NoRead]
  /\ UNCHANGED <<storeVars, runs, power, assigned, acks, stale, histVars>>

Fail(n) ==
  /\ InCall(n)
  /\ batch' = [batch EXCEPT ![n] = NoBatch]
  /\ lost' = lost \cup Unwritten(n)
  /\ UNCHANGED <<storeVars, runs, power, assigned, acks, stale, disturbed, strays>>

(* Postgres ends a deadlock by failing one of the transactions.             *)
AbortDeadlock(n) == Deadlocked(n) /\ Fail(n) /\ UNCHANGED left
DbError(n) == InCall(n) /\ Unwritten(n) # {} /\ Spend("db") /\ Fail(n)

-----------------------------------------------------------------------------
(* Death and start of a server. *)

Die(n) ==
  /\ power[n] # "down"
  /\ Spend("death")
  /\ power' = [power EXCEPT ![n] = "down"]
  /\ assigned' = [assigned EXCEPT ![n] = {}]
  /\ acks' = [acks EXCEPT ![n] = <<>>]
  /\ batch' = [batch EXCEPT ![n] = NoBatch]
  /\ stale' = [stale EXCEPT ![n] = {}]
  /\ lost' = lost \cup InHand(n)
  /\ UNCHANGED <<storeVars, runs, disturbed, strays>>

(* recover_stale_jobs: one SELECT of the RUNNING rows past their timeout,   *)
(* whichever server they run on ...                                         *)
Start(n) ==
  /\ power[n] = "down"
  /\ power' = [power EXCEPT ![n] = "starting"]
  /\ \E S \in SUBSET {j \in Job : Running(j)} :
       stale' = [stale EXCEPT ![n] = {[job |-> j, attempt |-> jobs[j].attempt] : j \in S}]
  /\ UNCHANGED <<storeVars, runs, assigned, acks, batch, histVars, left>>

(* ... then one statement for each, by what the SELECT saw.                 *)
RecoverReset(n, s) ==
  /\ s \in stale[n] /\ s.attempt < MaxAttempts[s.job]
  /\ Free(s.job)
  /\ ResetStaleJob(s.job)
  /\ disturbed' = IF Running(s.job) THEN disturbed \cup {s.job} ELSE disturbed
  /\ stale' = [stale EXCEPT ![n] = @ \ {s}]
  /\ UNCHANGED <<runs, power, assigned, acks, batch, lost,
                 strays, left>>

(* mark_job_dead has no guard on the status.                                *)
RecoverDead(n, s) ==
  /\ s \in stale[n] /\ s.attempt >= MaxAttempts[s.job]
  /\ Free(s.job)
  /\ jobs' = [jobs EXCEPT ![s.job].status = "DEAD"]
  /\ disturbed' = disturbed \cup {s.job}
  /\ stale' = [stale EXCEPT ![n] = @ \ {s}]
  /\ UNCHANGED <<resets, runs, power, assigned, acks, batch, lost,
                 strays, left>>

Serve(n) ==
  /\ power[n] = "starting" /\ stale[n] = {}
  /\ power' = [power EXCEPT ![n] = "up"]
  /\ UNCHANGED <<storeVars, runs, assigned, acks, batch, stale, histVars, left>>

-----------------------------------------------------------------------------
Requests == \E j \in Job : Submit(j) \/ Elapse(j) \/ Cancel(j) \/ Retry(j)

Working(n) ==
  \/ \E j \in Job : Claim(n, j) \/ TakeBack(n, j)
  \/ \E r \in runs : \E o \in Outcome : Report(r, n, o)

Statement(n) ==
  \/ \E j \in Job : LockSuccess(n, j)
  \/ CommitSuccesses(n) \/ ReadAttempt(n) \/ WriteFailure(n) \/ Return(n) \/ AbortDeadlock(n)

Committing(n) == Statement(n) \/ DbError(n) \/ \E k \in 1..BatchMax : TakeBatch(n, k)

Starting(n) ==
  \/ Die(n) \/ Start(n) \/ Serve(n)
  \/ \E s \in stale[n] : RecoverReset(n, s) \/ RecoverDead(n, s)

Next == Requests \/ \E n \in Node : Working(n) \/ Committing(n) \/ Starting(n)

Spec == Init /\ [][Next]_vars

(* A claim goes on while some server is up, workers report to one that is,  *)
(* the processors take and finish batches, and a dead server is restarted.  *)
Fairness ==
  /\ \A j \in Job : WF_vars(\E n \in Node : Claim(n, j)) /\ WF_vars(Elapse(j))
  /\ \A j \in Job : WF_vars(\E n \in Node : \E r \in runs : r.job = j /\ \E o \in Outcome : Report(r, n, o))
  /\ \A n \in Node : WF_vars(Statement(n)) /\ WF_vars(\E k \in 1..BatchMax : TakeBatch(n, k))
  /\ \A n \in Node : WF_vars(Start(n) \/ Serve(n) \/ \E s \in stale[n] : RecoverReset(n, s) \/ RecoverDead(n, s))

FairSpec == Spec /\ Fairness
-----------------------------------------------------------------------------
(* Although the attempt is read outside the UPDATE that uses it, and a      *)
(* server recovers from a list it read before, the servers together keep    *)
(* max_attempts: it is exceeded by as many attempts as were returned to the *)
(* queue without looking at the counter.  A job that an operator retried    *)
(* with a result of its earlier life under way is left out.                 *)
SharedBudget == \A j \in Job \ strays : WithinBudget(j)

(* The run of the attempt a row is at.                                      *)
CurrentRun(j) == [job |-> j, attempt |-> jobs[j].attempt]

(* A RUNNING row is some worker's, or its result is on the way through some *)
(* server; else the result was lost, and it stays so until a server starts. *)
RunningIsHeld ==
  \A j \in Job : Running(j) => CurrentRun(j) \in runs \/ j \in lost \/ \E n \in Node : j \in InHand(n)

(* Where the one execution of an attempt may be: on a worker, in the queue  *)
(* of a server, or in its call, until the row is written.                   *)
OnWorker(j)  == \E r \in runs : r.job = j
Queued(n, j) == j \in JobsIn(acks[n])
Called(n, j) ==
  /\ InCall(n)
  /\ \/ j \in batch[n].wins \/ j \in JobsIn(batch[n].todo)
     \/ batch[n].stage = "failures" /\ j \in DOMAIN batch[n].writes

Idle(j) == ~OnWorker(j) /\ \A n \in Node : ~Queued(n, j) /\ ~Called(n, j)

(* The queue has at most one result of job j.                               *)
Once(q, j) == \A i, k \in DOMAIN q : q[i].job = j /\ q[k].job = j => i = k

Alone(j) ==
  /\ \A r, s \in runs : r.job = j /\ s.job = j => r = s
  /\ OnWorker(j) => \A n \in Node : ~Queued(n, j) /\ ~Called(n, j)
  /\ \A n \in Node : Once(acks[n], j)
  /\ \A n, m \in Node :
       /\ Queued(n, j) => ~Called(m, j)
       /\ Queued(n, j) /\ Queued(m, j) => n = m
       /\ Called(n, j) /\ Called(m, j) => n = m
  /\ \A n \in Node : InCall(n) => ~(j \in batch[n].wins /\ j \in JobsIn(batch[n].todo))

(* Of a job that no server took from a running execution there is never a   *)
(* second execution, nor a second result anywhere in the cluster, though    *)
(* every server claims for itself; and none at all unless the row is        *)
(* RUNNING.                                                                 *)
OneResult == \A j \in Job \ disturbed : Alone(j) /\ (Running(j) \/ Idle(j))

(* No server changes the SUCCESS of a job whose executions all went on      *)
(* undisturbed, whatever the others do.  A starting server does disturb it: *)
(* mark_job_dead takes no notice of what the row has become since the list  *)
(* of stale jobs was read.                                                  *)
SuccessIsFinal ==
  [][\A j \in Job : jobs[j].status = "SUCCESS" /\ jobs'[j].status # "SUCCESS" => j \in disturbed']_vars

(* Every job some server accepted comes to an end, though servers die and   *)
(* their transactions wait for each other: unless its result was lost.      *)
EveryJobEnds == \A j \in Job : jobs[j].status = "PENDING" ~> (Terminal(j) \/ j \in lost)
=============================================================================
