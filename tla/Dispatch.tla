---------------------------- MODULE Dispatch ----------------------------
(***************************************************************************)
(* How one server hands jobs to workers and takes their results back: the  *)
(* scheduler cycle (core/src/scheduler/mod.rs), the PollJobs stream task,  *)
(* the AckJob handler and the ack batch processor                          *)
(* (core/src/server/service.rs), over the jobs table (JobStore) and the    *)
(* worker registry (Registry), with the workers of the Node SDK            *)
(* (sdks/node/src/client.ts) at the other end of the streams.              *)
(*                                                                         *)
(* Each await point at which another task can run is a step of its own:    *)
(* snapshot, claim, assign, send and reset of a scheduler cycle interleave *)
(* with streams that break, tasks that clean up after them, and acks.      *)
(*                                                                         *)
(* Payloads, metrics and notifications are left out: scheduler_notify only *)
(* makes a cycle start sooner than the ticker would.                       *)
(***************************************************************************)
EXTENDS JobStore, Registry

CONSTANTS
  Offers,       \* what each worker may announce in a PollRequest
  ChannelSize,  \* capacity of a poll stream's channel (100 in the code)
  ClaimBatch,   \* batch_size of the scheduler
  ReuseIds,     \* may a worker reconnect under the id it had?
  Limit         \* how often each fault or operator request may happen

Hazard == {"break", "crash", "db", "ack", "retry", "cancel", "caps"}

ASSUME DispatchAssumption ==
  /\ Offers \in [Worker -> SUBSET Offer]
  /\ ChannelSize \in Nat \ {0}
  /\ ClaimBatch \in Nat \ {0}
  /\ ReuseIds \in BOOLEAN
  /\ Limit \in [Hazard -> Nat]

VARIABLES
  snap,     \* scheduler: the workers of the snapshot still to be served
  target,   \* scheduler: the worker it claimed jobs for
  hand,     \* scheduler: jobs claimed for it and not yet assigned
  cur,      \* scheduler: the job between its assignment and the next one
  streams,  \* the poll streams: server task, channel and jobs to clean up
  exec,     \* executions on the workers that were not acknowledged yet
  calls,    \* AckJob calls between job_completed and ack_tx.send
  acks,     \* the ack_tx channel to the batch processor
  lost,     \* history: jobs whose running attempt the server let go of
  used      \* how often each Hazard has happened

schedVars == <<snap, target, hand, cur>>
vars == <<storeVars, registryVars, schedVars, streams, exec, calls, acks, lost, used>>

(* A job as it is pushed to a worker: the row the claim returned.           *)
Push == [job : Job, attempt : Nat]
NotServed == [limit |-> 0, names |-> {}]
NoCur == [stage |-> "none"]
Current == {NoCur} \cup [stage : {"send"}, push : Push, tx : Stream]
                   \cup [stage : {"reset"}, push : Push]

(* The task of a poll stream, until it ends: "open" while the client holds  *)
(* the call, "broken" until the task notices, "cleaning" while it resets    *)
(* the jobs in todo.  rx: the receiving end of its channel still exists.    *)
StreamInfo == [worker : Worker \cup {NoWorker},
               task   : {"none", "open", "broken", "cleaning", "done"},
               rx     : BOOLEAN,
               chan   : SUBSET Push,
               todo   : SUBSET Job]

(* An execution on a worker.  "refail": its success ack failed, and the     *)
(* catch block of executeJob is about to send a failure instead.            *)
Execution == [worker : Worker, push : Push, step : {"run", "refail"}]

(* An AckJob call the server has begun to handle, for an execution.         *)
Call == [exec : Execution, outcome : Outcome]

TypeOK ==
  /\ StoreTypeOK
  /\ RegistryTypeOK
  /\ snap \in [Worker -> [limit : Nat, names : SUBSET Job]]
  /\ target \in Worker \cup {NoWorker}
  /\ hand \in SUBSET Push
  /\ cur \in Current
  /\ streams \in [Stream -> StreamInfo]
  /\ exec \in SUBSET Execution
  /\ calls \in SUBSET Call
  /\ acks \in Seq(Ack)
  /\ lost \in SUBSET Job
  /\ used \in [Hazard -> Nat]

Init ==
  /\ StoreInit
  /\ RegistryInit
  /\ snap = [w \in Worker |-> NotServed]
  /\ target = NoWorker
  /\ hand = {}
  /\ cur = NoCur
  /\ streams = [s \in Stream |-> [worker |-> NoWorker, task |-> "none", rx |-> FALSE,
                                  chan |-> {}, todo |-> {}]]
  /\ exec = {}
  /\ calls = {}
  /\ acks = <<>>
  /\ lost = {}
  /\ used = [h \in Hazard |-> 0]

(* One more use of a bounded fault or request.                              *)
Spend(h) == used[h] < Limit[h] /\ used' = [used EXCEPT ![h] = @ + 1]

-----------------------------------------------------------------------------
(* Requests and time. *)

EnqueueJob(j) ==
  /\ InsertJob(j)
  /\ UNCHANGED <<registryVars, schedVars, streams, exec, calls, acks, lost, used>>

Elapse(j) ==
  /\ BecomeDue(j)
  /\ UNCHANGED <<registryVars, schedVars, streams, exec, calls, acks, lost, used>>

Cancel(j) ==
  /\ CancelJob(j)
  /\ Spend("cancel")
  /\ UNCHANGED <<registryVars, schedVars, streams, exec, calls, acks, lost>>

Retry(j) ==
  /\ RetryJob(j)
  /\ Spend("retry")
  /\ UNCHANGED <<registryVars, schedVars, streams, exec, calls, acks, lost>>

-----------------------------------------------------------------------------
(* The scheduler cycle, schedule_pending_jobs. *)

BetweenJobs == cur = NoCur
BetweenWorkers == BetweenJobs /\ hand = {}
Idle == BetweenWorkers /\ \A w \in Worker : snap[w].limit = 0

Smaller(a, b) == IF a < b THEN a ELSE b

(* get_snapshot, and the workers with room.  Without one the cycle is over.  *)
Snapshot ==
  /\ Idle
  /\ \E w \in Worker : CanAssign(w)
  /\ snap' = [w \in Worker |->
                IF CanAssign(w)
                THEN [limit |-> Smaller(Available(w), ClaimBatch),
                      names |-> workers[w].offer.names]
                ELSE NotServed]
  /\ UNCHANGED <<storeVars, registryVars, target, hand, cur, streams, exec, calls, acks, lost, used>>

Eligible(w) == {j \in snap[w].names : Claimable(j)}

Pushed(j) == [job |-> j, attempt |-> jobs[j].attempt + 1]

(* claim_and_fetch_jobs for the next worker of the snapshot, in the map's    *)
(* order.  Which of equally due rows the ORDER BY ... LIMIT picks is open.   *)
ClaimFor(w) ==
  /\ BetweenWorkers
  /\ snap[w].limit > 0
  /\ snap' = [snap EXCEPT ![w] = NotServed]
  /\ \E S \in SUBSET Eligible(w) :
       /\ Cardinality(S) = Smaller(snap[w].limit, Cardinality(Eligible(w)))
       /\ ClaimAndFetchJobs(S)
       /\ hand' = {Pushed(j) : j \in S}
       /\ target' = IF S = {} THEN NoWorker ELSE w
       /\ lost' = lost \ S
  /\ UNCHANGED <<registryVars, cur, streams, exec, calls, acks, used>>

(* The claim fails: `?` ends the cycle, the workers behind it go unserved.   *)
ClaimFails ==
  /\ BetweenWorkers
  /\ ~Idle
  /\ Spend("db")
  /\ snap' = [w \in Worker |-> NotServed]
  /\ UNCHANGED <<storeVars, registryVars, target, hand, cur, streams, exec, calls, acks, lost>>

(* try_assign_job for a claimed job; None sends it on to reset_stale_job.    *)
AssignJob(p) ==
  /\ BetweenJobs
  /\ p \in hand
  /\ hand' = hand \ {p}
  /\ \/ /\ CanAssign(target)
        /\ Assign(target, p.job)
        /\ cur' = [stage |-> "send", push |-> p, tx |-> workers[target].tx]
     \/ /\ ~CanAssign(target)
        /\ cur' = [stage |-> "reset", push |-> p]
        /\ UNCHANGED registryVars
  /\ target' = IF hand = {p} THEN NoWorker ELSE target
  /\ UNCHANGED <<storeVars, snap, streams, exec, calls, acks, lost, used>>

(* tx.try_send(job), by its three results.                                   *)
SendOk ==
  /\ cur.stage = "send"
  /\ streams[cur.tx].rx
  /\ Cardinality(streams[cur.tx].chan) < ChannelSize
  /\ streams' = [streams EXCEPT ![cur.tx].chan = @ \cup {cur.push}]
  /\ cur' = NoCur
  /\ UNCHANGED <<storeVars, registryVars, snap, target, hand, exec, calls, acks, lost, used>>

SendFull ==
  /\ cur.stage = "send"
  /\ streams[cur.tx].rx
  /\ Cardinality(streams[cur.tx].chan) >= ChannelSize
  /\ JobCompleted(cur.push.job)
  /\ cur' = [stage |-> "reset", push |-> cur.push]
  /\ UNCHANGED <<storeVars, snap, target, hand, streams, exec, calls, acks, lost, used>>

(* Closed: the slot is freed and the row stays RUNNING, left to "stale       *)
(* recovery", which only the next start of the server runs.                  *)
SendClosed ==
  /\ cur.stage = "send"
  /\ ~streams[cur.tx].rx
  /\ JobCompleted(cur.push.job)
  /\ cur' = NoCur
  /\ lost' = lost \cup {cur.push.job}
  /\ UNCHANGED <<storeVars, snap, target, hand, streams, exec, calls, acks, used>>

(* `let _ = storage.reset_stale_job(..)`: an error is dropped.               *)
SchedReset ==
  /\ cur.stage = "reset"
  /\ cur' = NoCur
  /\ \/ ResetStaleJob(cur.push.job) /\ UNCHANGED <<lost, used>>
     \/ /\ Spend("db")
        /\ lost' = lost \cup {cur.push.job}
        /\ UNCHANGED storeVars
  /\ UNCHANGED <<registryVars, snap, target, hand, streams, exec, calls, acks>>

-----------------------------------------------------------------------------
(* Poll streams. *)

Attached(w) == \E s \in Stream : streams[s].worker = w /\ streams[s].task = "open"
Known(w)    == \E s \in Stream : streams[s].worker = w

(* A worker opens the next stream and its first PollRequest registers it.    *)
(* Registering over an entry of the same id forgets the jobs it held.        *)
Connect(w, s, offer) ==
  /\ streams[s].task = "none"
  /\ \A r \in Stream : r < s => streams[r].task # "none"
  /\ ~Attached(w)
  /\ Known(w) => ReuseIds
  /\ streams' = [streams EXCEPT ![s] = [worker |-> w, task |-> "open", rx |-> TRUE,
                                        chan |-> {}, todo |-> {}]]
  /\ Register(w, s, offer)
  /\ lost' = lost \cup ActiveJobs(w)
  /\ UNCHANGED <<storeVars, schedVars, exec, calls, acks, used>>

(* A later PollRequest on the stream.                                        *)
UpdateCapabilities(s, offer) ==
  /\ streams[s].task = "open"
  /\ Spend("caps")
  /\ UpdateWorkerCapabilities(streams[s].worker, offer)
  /\ UNCHANGED <<storeVars, schedVars, streams, exec, calls, acks, lost>>

(* The worker receives a pushed job and starts it, whatever else it runs.    *)
Deliver(s, p) ==
  /\ streams[s].task = "open"
  /\ p \in streams[s].chan
  /\ streams' = [streams EXCEPT ![s].chan = @ \ {p}]
  /\ exec' = exec \cup {[worker |-> streams[s].worker, push |-> p, step |-> "run"]}
  /\ UNCHANGED <<storeVars, registryVars, schedVars, calls, acks, lost, used>>

(* The call ends for the client: cancelled, or the connection is gone.       *)
Break(s) ==
  /\ streams[s].task = "open"
  /\ Spend("break")
  /\ streams' = [streams EXCEPT ![s].task = "broken"]
  /\ UNCHANGED <<storeVars, registryVars, schedVars, exec, calls, acks, lost>>

(* The server drops the response stream of a broken call, and the receiver   *)
(* with what was still in its channel.  The inbound half ends on its own.    *)
WithoutReceiver(st) ==
  [worker |-> st.worker, task |-> st.task, rx |-> FALSE, chan |-> {}, todo |-> st.todo]

DropReceiver(s) ==
  /\ streams[s].rx
  /\ streams[s].task \in {"broken", "cleaning", "done"}
  /\ streams' = [streams EXCEPT ![s] = WithoutReceiver(@)]
  /\ UNCHANGED <<storeVars, registryVars, schedVars, exec, calls, acks, lost, used>>

(* The task once it has unregistered, with the jobs it got to reset.        *)
Cleaning(st, S) ==
  [worker |-> st.worker, task |-> "cleaning", rx |-> st.rx, chan |-> st.chan, todo |-> S]

(* Mutants of StreamEnds: the jobs the worker held are not reset; the entry  *)
(* of the worker stays.                                                      *)
StreamEndsForgetsJobs(s) ==
  /\ streams[s].task = "broken"
  /\ streams' = [streams EXCEPT ![s] = Cleaning(@, {})]
  /\ Unregister(streams[s].worker)
  /\ UNCHANGED <<storeVars, schedVars, exec, calls, acks, lost, used>>

StreamEndsKeepsEntry(s) ==
  /\ streams[s].task = "broken"
  /\ streams' = [streams EXCEPT ![s] = Cleaning(@, ActiveJobs(@.worker))]
  /\ UNCHANGED <<storeVars, registryVars, schedVars, exec, calls, acks, lost, used>>

(* The task sees the end of its stream and unregisters its worker_id,        *)
(* whichever stream is registered under it by now.                           *)
StreamEnds(s) ==
  LET w == streams[s].worker
  IN  /\ streams[s].task = "broken"
      /\ streams' = [streams EXCEPT ![s] = Cleaning(@, ActiveJobs(w))]
      /\ Unregister(w)
      /\ UNCHANGED <<storeVars, schedVars, exec, calls, acks, lost, used>>

(* The task resets the jobs it got, one at a time; an error is logged only.  *)
CleanUp(s) ==
  /\ streams[s].task = "cleaning"
  /\ \E j \in streams[s].todo :
       /\ streams' = [streams EXCEPT ![s].todo = @ \ {j}]
       /\ \/ ResetStaleJob(j) /\ UNCHANGED <<lost, used>>
          \/ Spend("db") /\ lost' = lost \cup {j} /\ UNCHANGED storeVars
  /\ UNCHANGED <<registryVars, schedVars, exec, calls, acks>>

TaskDone(s) ==
  /\ streams[s].task = "cleaning"
  /\ streams[s].todo = {}
  /\ streams' = [streams EXCEPT ![s].task = "done"]
  /\ UNCHANGED <<storeVars, registryVars, schedVars, exec, calls, acks, lost, used>>

-----------------------------------------------------------------------------
(* Acknowledgements. *)

(* What executeJob may report: a result, a failure to retry, or that it has  *)
(* no handler (no retry).  After a failed success ack it reports a failure.  *)
Outcomes(e) == IF e.step = "run" THEN Outcome ELSE {"retry"}

(* What the worker is left with when its AckJob call returns an error.       *)
AfterError(e, o) ==
  IF e.step = "run" /\ o = "success" THEN {[e EXCEPT !.step = "refail"]} ELSE {}

(* ack_job frees the slot; nothing is checked against the row, the attempt   *)
(* or the worker.                                                            *)
AckJob(e, o) ==
  /\ e \in exec
  /\ o \in Outcomes(e)
  /\ JobCompleted(e.push.job)
  /\ exec' = exec \ {e}
  /\ calls' = calls \cup {[exec |-> e, outcome |-> o]}
  /\ UNCHANGED <<storeVars, schedVars, streams, acks, lost, used>>

(* ack_tx.send: the result is queued, and the call answered before it is     *)
(* committed.  The answer may get lost.                                      *)
QueueAck(c) ==
  /\ c \in calls
  /\ calls' = calls \ {c}
  /\ acks' = Append(acks, [job |-> c.exec.push.job, outcome |-> c.outcome])
  /\ \/ UNCHANGED <<exec, used>>
     \/ exec' = exec \cup AfterError(c.exec, c.outcome) /\ Spend("ack")
  /\ UNCHANGED <<storeVars, registryVars, schedVars, streams, lost>>

(* The connection goes away between the two: the handler is dropped with the *)
(* result, after the slot was freed.                                         *)
AckAborted(c) ==
  /\ c \in calls
  /\ Spend("ack")
  /\ calls' = calls \ {c}
  /\ exec' = exec \cup AfterError(c.exec, c.outcome)
  /\ lost' = lost \cup {c.exec.push.job}
  /\ UNCHANGED <<storeVars, registryVars, schedVars, streams, acks>>

(* The call does not reach the server; or the worker dies before making it.  *)
AckDropped(e, o) ==
  /\ e \in exec
  /\ o \in Outcomes(e)
  /\ Spend("ack")
  /\ exec' = (exec \ {e}) \cup AfterError(e, o)
  /\ UNCHANGED <<storeVars, registryVars, schedVars, streams, calls, acks, lost>>

(* The batch processor takes the next n results, and commits them.           *)
CommitBatch(n) ==
  /\ n <= Len(acks)
  /\ UpdateJobResults(SubSeq(acks, 1, n))
  /\ acks' = SubSeq(acks, n + 1, Len(acks))
  /\ UNCHANGED <<registryVars, schedVars, streams, exec, calls, lost, used>>

(* The commit fails: the batch was drained into the call and is gone.        *)
CommitFails(n) ==
  /\ n <= Len(acks)
  /\ Spend("db")
  /\ lost' = lost \cup {acks[i].job : i \in 1..n}
  /\ acks' = SubSeq(acks, n + 1, Len(acks))
  /\ UNCHANGED <<storeVars, registryVars, schedVars, streams, exec, calls>>

-----------------------------------------------------------------------------
(* The process dies and starts again: only the table is left.  Before it     *)
(* serves, recover_stale_jobs takes the RUNNING rows whose timeout is over;  *)
(* the others stay RUNNING.  The workers keep executing; their calls fail.   *)
Gone(st) ==
  IF st.task = "none" THEN st
  ELSE [worker |-> st.worker, task |-> "done", rx |-> FALSE, chan |-> {}, todo |-> {}]

CrashRestart ==
  /\ Spend("crash")
  /\ \E stale \in SUBSET {j \in Job : Running(j)} :
       /\ RecoverStaleJobs(stale)
       /\ lost' = {j \in Job : Running(j)} \ stale
  /\ EmptyRegistry
  /\ snap' = [w \in Worker |-> NotServed]
  /\ target' = NoWorker
  /\ hand' = {}
  /\ cur' = NoCur
  /\ streams' = [s \in Stream |-> Gone(streams[s])]
  /\ acks' = <<>>
  /\ exec' = exec \cup UNION {AfterError(c.exec, c.outcome) : c \in calls}
  /\ calls' = {}

-----------------------------------------------------------------------------
Request == \E j \in Job : EnqueueJob(j) \/ Elapse(j) \/ Cancel(j) \/ Retry(j)

Scheduler ==
  \/ Snapshot
  \/ \E w \in Worker : ClaimFor(w)
  \/ ClaimFails
  \/ \E p \in hand : AssignJob(p)
  \/ SendOk
  \/ SendFull
  \/ SendClosed
  \/ SchedReset

PollStream ==
  \/ \E s \in Stream : \E w \in Worker : \E o \in Offers[w] : Connect(w, s, o)
  \/ \E s \in Stream : \E w \in Worker : \E o \in Offers[w] :
       streams[s].worker = w /\ UpdateCapabilities(s, o)
  \/ \E s \in Stream : \E p \in streams[s].chan : Deliver(s, p)
  \/ \E s \in Stream :
       Break(s) \/ DropReceiver(s) \/ StreamEnds(s) \/ CleanUp(s) \/ TaskDone(s)

Acknowledge ==
  \/ \E e \in exec : \E o \in Outcome : AckJob(e, o) \/ AckDropped(e, o)
  \/ \E c \in calls : QueueAck(c) \/ AckAborted(c)
  \/ \E n \in 1..BatchMax : CommitBatch(n) \/ CommitFails(n)

Next == Request \/ Scheduler \/ PollStream \/ Acknowledge \/ CrashRestart

Spec == Init /\ [][Next]_vars

(* What the runtime keeps scheduling: the scheduler loop with its ticker, the *)
(* task and both halves of each stream, the batch processor, the clock; and   *)
(* workers that connect, start what they receive and report its outcome.      *)
(* Faults and requests are never forced.                                      *)
Fairness ==
  /\ WF_vars(Snapshot \/ (\E w \in Worker : ClaimFor(w)) \/ (\E p \in hand : AssignJob(p))
             \/ SendOk \/ SendFull \/ SendClosed \/ SchedReset)
  /\ \A s \in Stream :
       /\ WF_vars(\E p \in streams[s].chan : Deliver(s, p))
       /\ WF_vars(DropReceiver(s))
       /\ WF_vars(StreamEnds(s) \/ CleanUp(s) \/ TaskDone(s))
  /\ \A w \in Worker : WF_vars(\E s \in Stream : \E o \in Offers[w] : Connect(w, s, o))
  /\ \A w \in Worker, j \in Job :
       WF_vars(\E e \in exec : e.worker = w /\ e.push.job = j
                             /\ \E o \in Outcome : AckJob(e, o))
  /\ \A j \in Job : WF_vars(\E c \in calls : c.exec.push.job = j /\ QueueAck(c))
  /\ WF_vars(\E n \in 1..BatchMax : CommitBatch(n))
  /\ \A j \in Job : WF_vars(Elapse(j))

FairSpec == Spec /\ Fairness
-----------------------------------------------------------------------------
(* Where the server keeps hold of a running attempt of a job. *)
InHand(j)     == \E p \in hand : p.job = j
IsCurrent(j)  == cur.stage # "none" /\ cur.push.job = j
HoldsSlot(j)  == \E w \in Worker : j \in workers[w].active
InCleanUp(j)  == \E s \in Stream : j \in streams[s].todo
InAckCall(j)  == \E c \in calls : c.exec.push.job = j
InAckQueue(j) == \E i \in DOMAIN acks : acks[i].job = j

Tracked(j) ==
  InHand(j) \/ IsCurrent(j) \/ HoldsSlot(j) \/ InCleanUp(j) \/ InAckCall(j) \/ InAckQueue(j)

(* No running attempt slips away: whatever breaks, crashes or overlaps, a    *)
(* RUNNING row is still in the hands of the scheduler, in a worker's slot,   *)
(* on the list of a stream task that will reset it, or on its way through    *)
(* ack_job and the ack queue, unless one of the places that let go of it was *)
(* taken ("lost"): a closed channel, a reset or a commit that failed, a call *)
(* cut off inside ack_job, a registration over a live one, a restart before  *)
(* the job's timeout.                                                        *)
RunningIsTracked == \A j \in Job : Running(j) => Tracked(j) \/ j \in lost

(* The registry never sends to a stream whose task has gone: an entry's      *)
(* channel belongs to a stream of that worker that will still unregister it. *)
NoZombieRegistration ==
  \A w \in Worker : Registered(w) =>
    /\ streams[workers[w].tx].worker = w
    /\ streams[workers[w].tx].task \in {"open", "broken"}

(* As long as no worker id comes back, an assignment in the reverse index    *)
(* names a worker that does hold the job: job_completed frees a real slot.   *)
AssignmentsBacked ==
  \A j \in Job : assignments[j] # NoWorker => j \in workers[assignments[j]].active

(* Copies of a job on its way to a worker, on it, or on its way back.        *)
Copies(j) ==
  Cardinality({p \in hand : p.job = j})
  + (IF IsCurrent(j) THEN 1 ELSE 0)
  + Cardinality({s \in Stream : \E p \in streams[s].chan : p.job = j})
  + Cardinality({e \in exec : e.push.job = j})
  + Cardinality({c \in calls : c.exec.push.job = j})
  + Cardinality({i \in DOMAIN acks : acks[i].job = j})

(* The pushes a job travels as, until its result is queued.                  *)
Pushes ==
  hand \cup (IF cur.stage = "none" THEN {} ELSE {cur.push})
       \cup {e.push : e \in exec} \cup {c.exec.push : c \in calls}
       \cup UNION {streams[s].chan : s \in Stream}

(* While connections and calls hold, a job is handed out once: exactly one   *)
(* copy of a RUNNING job exists between the claim and the commit of its      *)
(* result, unless a failed statement dropped it ("lost"), none of a job in   *)
(* another status, and that copy carries the attempt number of the row.      *)
ExactlyOneCopy ==
  /\ \A j \in Job : Copies(j) = IF Running(j) /\ j \notin lost THEN 1 ELSE 0
  /\ \A p \in Pushes : p.attempt = jobs[p.job].attempt

(* The slots a worker holds are the jobs sent to it or running on it: no slot*)
(* leaks, and none is freed while its job still runs.                        *)
SlotsMatchWork ==
  \A w \in Worker : Registered(w) =>
    workers[w].active =
      {e.push.job : e \in {x \in exec : x.worker = w}}
      \cup {p.job : p \in streams[workers[w].tx].chan}
      \cup (IF cur.stage = "send" /\ cur.tx = workers[w].tx THEN {cur.push.job} ELSE {})

(* A worker never runs more jobs at once than the largest concurrency it     *)
(* announces: the slots of the registry bound what really runs.              *)
ConcurrencyRespected ==
  \A w \in Worker :
    LET work == {e \in exec : e.worker = w /\ e.step = "run"}
    IN  work # {} => \E o \in Offers[w] : Cardinality(work) <= o.concurrency

(* The rows behave as the job lifecycle promises: one claim is settled once, *)
(* SUCCESS and CANCELLED are final, and only attempts the server took back   *)
(* from a worker come on top of max_attempts.                                *)
Life == INSTANCE JobLifecycle WITH
          status  <- [j \in Job |-> jobs[j].status],
          attempt <- [j \in Job |-> jobs[j].attempt],
          grace   <- resets

ImplementsLifecycle == Life!Spec

(* The status JobCompletion reports is the "final status" of the job: no      *)
(* acknowledgement that arrives later moves a SUCCESS or CANCELLED row again.*)
SettledIsFinal ==
  [][\A j \in Job : jobs[j].status \in {"SUCCESS", "CANCELLED"} =>
                     jobs'[j].status = jobs[j].status]_jobs

(* Every queued job is settled in the end: it reaches a terminal status, or  *)
(* the server let go of its running attempt.                                 *)
EventuallySettled ==
  \A j \in Job : jobs[j].status = "PENDING" ~> (Terminal(j) \/ (Running(j) /\ j \in lost))

(* A job whose push found the channel closed does not stay RUNNING: it is    *)
(* picked up again.                                                          *)
LostIsRecovered == \A j \in Job : (Running(j) /\ j \in lost) ~> ~Running(j)
=============================================================================
