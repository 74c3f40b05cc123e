--------------------------- MODULE Completion ---------------------------
(***************************************************************************)
(* How whoever enqueued a job learns of its end: the notices of the batch  *)
(* processor, its subscriber map and completion cache, SubscribeToJobs     *)
(* (core/src/server/service.rs), and JobHandle.result() of the SDKs        *)
(* (sdks/node/src/{client,job}.ts, sdks/rust/src/{client,job}.rs).         *)
(*                                                                         *)
(* The table is JobStore.  How a job gets to a worker and back is Dispatch;*)
(* here an execution is claimed, may be taken back by the server while it  *)
(* goes on, and reports an outcome.                                        *)
(***************************************************************************)
EXTENDS JobStore, SequencesExt

CONSTANTS
  Client,    \* processes that use an SDK
  Kind,      \* which SDK: "node" or "rust"
  Workers,   \* the clients that also run jobs
  Handle,    \* JobHandles: one per call of a durable function
  ClientOf,  \* the client a handle belongs to
  JobOf,     \* the job it gets; handles share a job by an idempotency key
  Gone,      \* a sender whose stream has ended, in the subscriber map
  Budgets    \* how often each fault or request may happen, in the behaviours checked

Hazard == {"break", "crash", "db", "takeback", "retry", "cancel", "timeout", "again"}

ASSUME CompletionAssumption ==
  /\ Kind \in [Client -> {"node", "rust"}]
  /\ Workers \subseteq Client
  /\ ClientOf \in [Handle -> Client]
  /\ JobOf \in [Handle -> Job]
  /\ Gone \notin Client
  /\ Budgets \subseteq [Hazard -> Nat]

VARIABLES
  runs,       \* executions on the workers
  acks,       \* ack_tx, the queue of the batch processor
  subs,       \* job_subscribers: per job the senders to notify
  cache,      \* completed_jobs_cache
  conn,       \* the subscription stream of each client
  tracked,    \* subscribedJobs of each client
  completed,  \* completedResults of each client
  handle,     \* what each handle is doing, or what it was told
  reached,    \* history: the terminal statuses the row has shown
  spent,      \* history: jobs whose last notice was sent, evicted or forgotten
  doubled,    \* history: jobs with two results in one batch
  lost,       \* history: jobs with a result that never reached the table
  left        \* how often each Hazard may still happen

serverVars == <<acks, subs, cache, spent, doubled, lost>>
clientVars == <<conn, tracked, completed, handle>>
vars == <<storeVars, runs, serverVars, clientVars, reached, left>>

Run == [job : Job, attempt : Nat, client : Client]

(* A JobCompletion; bytes: it carries a result.  The error text is left out. *)
Notice   == [job : Job, status : {"SUCCESS", "DEAD"}, bytes : BOOLEAN]
NoNotice == [old |-> FALSE]
Cached   == [notice : Notice, old : BOOLEAN]

Answer == {"success", "failed"}

(* inbox: SubscribeRequests on their way; outbox: the channel of the stream. *)
Connection == [up : BOOLEAN, inbox : Seq(SUBSET Job), outbox : Seq(Notice)]

TypeOK ==
  /\ StoreTypeOK
  /\ runs \in SUBSET Run
  /\ acks \in Seq(Ack)
  /\ subs \in [Job -> Seq(Client \cup {Gone})]
  /\ cache \in [Job -> Cached \cup {NoNotice}]
  /\ conn \in [Client -> Connection]
  /\ tracked \in [Client -> SUBSET Job]
  /\ completed \in [Client -> [Job -> Answer \cup {"none"}]]
  /\ handle \in [Handle -> {"new", "asked", "idle", "waiting", "superseded"} \cup Answer]
  /\ reached \in [Job -> SUBSET Status]
  /\ spent \in SUBSET Job /\ doubled \in SUBSET Job /\ lost \in SUBSET Job
  /\ left \in [Hazard -> Nat]

Init ==
  /\ StoreInit
  /\ runs = {}
  /\ acks = <<>>
  /\ subs = [j \in Job |-> <<>>]
  /\ cache = [j \in Job |-> NoNotice]
  /\ conn = [c \in Client |-> [up |-> TRUE, inbox |-> <<>>, outbox |-> <<>>]]
  /\ tracked = [c \in Client |-> {}]
  /\ completed = [c \in Client |-> [j \in Job |-> "none"]]
  /\ handle = [h \in Handle |-> "new"]
  /\ reached = [j \in Job |-> {}]
  /\ spent = {} /\ doubled = {} /\ lost = {}
  /\ left \in Budgets

(* One more of a bounded fault or request.                                  *)
Spend(h) == left[h] > 0 /\ left' = [left EXCEPT ![h] = @ - 1]

(* Bookkeeping of reached, by every step that changes rows.                 *)
Observe ==
  reached' = [j \in Job |-> reached[j] \cup ({jobs'[j].status} \cap {"SUCCESS", "DEAD", "CANCELLED"})]

-----------------------------------------------------------------------------
(* The life of the job, as far as it matters here. *)

Claim(j, c) ==
  /\ c \in Workers
  /\ ClaimAndFetchJobs({j})
  /\ runs' = runs \cup {[job |-> j, attempt |-> jobs[j].attempt + 1, client |-> c]}
  /\ UNCHANGED <<serverVars, clientVars, reached, left>>

Elapse(j) ==
  BecomeDue(j) /\ UNCHANGED <<runs, serverVars, clientVars, reached, left>>

(* The stream of the worker breaks: its job is requeued, the run goes on.   *)
TakeBack(j) ==
  /\ Running(j)
  /\ Spend("takeback")
  /\ ResetStaleJob(j)
  /\ UNCHANGED <<runs, serverVars, clientVars, reached>>

Cancel(j) ==
  /\ Spend("cancel")
  /\ CancelJob(j)
  /\ Observe
  /\ UNCHANGED <<runs, serverVars, clientVars>>

Retry(j) ==
  /\ Spend("retry")
  /\ RetryJob(j)
  /\ UNCHANGED <<runs, serverVars, clientVars, reached>>

(* The handles of a client that listen for a job: result() has registered   *)
(* listeners for job:success and job:failed of its id.                      *)
Listening(c, j) == {h \in Handle : ClientOf[h] = c /\ JobOf[h] = j /\ handle[h] = "waiting"}
Tell(H, answer) == handle' = [h \in Handle |-> IF h \in H THEN answer ELSE handle[h]]

(* A worker reports; once its ack is answered, which is before it is        *)
(* committed, the Node client emits job:success to its own listeners.       *)
Report(r, o) ==
  /\ r \in runs
  /\ runs' = runs \ {r}
  /\ acks' = Append(acks, [job |-> r.job, outcome |-> o])
  /\ IF o = "success" /\ Kind[r.client] = "node"
     THEN Tell(Listening(r.client, r.job), "success")
     ELSE UNCHANGED handle
  /\ IF o = "retry" THEN Spend("again") ELSE UNCHANGED left
  /\ UNCHANGED <<storeVars, subs, cache, spent, doubled, lost, conn, tracked, completed, reached>>

-----------------------------------------------------------------------------
(* The batch processor. *)

(* The i-th result of a batch as a JobCompletion: its own status, with the  *)
(* bytes job_results_map kept of the job's last result.                     *)
StatusAfter(ack) == Acknowledged(jobs[ack.job], MaxAttempts[ack.job], ack.outcome).status

NoticeOf(batch, i) ==
  [job |-> batch[i].job, status |-> StatusAfter(batch[i]),
   bytes |-> LastOutcome(batch, batch[i].job) = "success"]

(* The results of a batch about j that are announced: the terminal ones.    *)
Announced(batch, j) ==
  {i \in DOMAIN batch : batch[i].job = j /\ StatusAfter(batch[i]) \in {"SUCCESS", "DEAD"}}

FirstOf(S) == CHOOSE i \in S : \A k \in S : i <= k
LastOf(S)  == CHOOSE i \in S : \A k \in S : k <= i

(* The first notice of a job takes all its subscribers; one behind it, or   *)
(* one without subscribers, is cached.                                      *)
Subscribed(j) == subs[j] # <<>>
SentFor(batch, j) == IF Subscribed(j) /\ Announced(batch, j) # {}
                     THEN {FirstOf(Announced(batch, j))} ELSE {}
CachedFor(batch, j) == Announced(batch, j) \ SentFor(batch, j)

(* What try_send adds to the channel of c: once per sender it registered.   *)
SendersOf(c, j) == {k \in DOMAIN subs[j] : subs[j][k] = c}

SentTo(batch, c) ==
  FlattenSeq([i \in DOMAIN batch |->
    IF i \in SentFor(batch, batch[i].job)
    THEN [k \in 1..Cardinality(SendersOf(c, batch[i].job)) |-> NoticeOf(batch, i)]
    ELSE <<>>])

(* cache.retain: runs in every batch, and nowhere else.                     *)
Retained(j) == IF cache[j].old THEN NoNotice ELSE cache[j]

(* Mutant of CacheAfter: a notice nobody waits for is dropped.              *)
CacheAfterDropped(batch, j) == Retained(j)

CacheAfter(batch, j) ==
  IF CachedFor(batch, j) # {}
  THEN [notice |-> NoticeOf(batch, LastOf(CachedFor(batch, j))), old |-> FALSE]
  ELSE Retained(j)

(* The jobs whose last notice is gone once a batch is announced.            *)
SpentAfter(batch) ==
  {j \in Job :
     /\ CachedFor(batch, j) = {}
     /\ SentFor(batch, j) # {} \/ j \in spent \/ cache[j].old}

Twice(batch) == {j \in Job : Cardinality({i \in DOMAIN batch : batch[i].job = j}) > 1}

(* The batch commits, and its notices go out under both write locks.        *)
CommitBatch(n) ==
  LET batch == SubSeq(acks, 1, n)
  IN  /\ n <= Len(acks)
      /\ UpdateJobResults(batch)
      /\ Observe
      /\ acks' = SubSeq(acks, n + 1, Len(acks))
      /\ conn' = [c \in Client |->
                    IF conn[c].up THEN [conn[c] EXCEPT !.outbox = @ \o SentTo(batch, c)]
                    ELSE conn[c]]
      /\ subs' = [j \in Job |-> IF SentFor(batch, j) # {} THEN <<>> ELSE subs[j]]
      /\ cache' = [j \in Job |-> CacheAfter(batch, j)]
      /\ spent' = SpentAfter(batch)
      /\ doubled' = doubled \cup Twice(batch)
      /\ UNCHANGED <<runs, lost, tracked, completed, handle, left>>

(* The commit fails: it is logged, nobody is told, and the cache is kept.   *)
CommitFails(n) ==
  /\ n <= Len(acks)
  /\ Spend("db")
  /\ lost' = lost \cup {acks[i].job : i \in 1..n}
  /\ acks' = SubSeq(acks, n + 1, Len(acks))
  /\ UNCHANGED <<storeVars, runs, subs, cache, spent, doubled, clientVars, reached>>

(* Sixty seconds pass: the entry may go, but a subscriber may still take it.*)
Expire(j) ==
  /\ cache[j] # NoNotice /\ ~cache[j].old
  /\ cache' = [cache EXCEPT ![j].old = TRUE]
  /\ UNCHANGED <<storeVars, runs, acks, subs, spent, doubled, lost, clientVars, reached, left>>

-----------------------------------------------------------------------------
(* subscribe_to_jobs: one SubscribeRequest, under both write locks.  The    *)
(* task of a stream that has ended may still find requests in it.           *)
Sender(c) == IF conn[c].up THEN c ELSE Gone

(* Mutant of Subscribe: a job in the cache is not looked up.                *)
SubscribeUnchecked(c) ==
  /\ conn[c].inbox # <<>>
  /\ LET S == Head(conn[c].inbox)
     IN  /\ conn' = [conn EXCEPT ![c].inbox = Tail(@)]
         /\ subs' = [j \in Job |-> IF j \in S THEN Append(subs[j], Sender(c)) ELSE subs[j]]
  /\ UNCHANGED <<storeVars, runs, acks, cache, spent, doubled, lost, tracked, completed,
                 handle, reached, left>>

Subscribe(c) ==
  /\ conn[c].inbox # <<>>
  /\ LET S   == Head(conn[c].inbox)
         hit == {j \in S : cache[j] # NoNotice}
         ns  == SetToSeq({cache[j].notice : j \in hit})
     IN  /\ conn' = [conn EXCEPT ![c].inbox = Tail(@),
                                 ![c].outbox = IF conn[c].up THEN @ \o ns ELSE @]
         /\ cache' = [j \in Job |-> IF j \in hit THEN NoNotice ELSE cache[j]]
         /\ spent' = spent \cup hit
         /\ subs' = [j \in Job |->
                       IF j \in S \ hit THEN Append(subs[j], Sender(c)) ELSE subs[j]]
  /\ UNCHANGED <<storeVars, runs, acks, doubled, lost, tracked, completed, handle, reached, left>>

-----------------------------------------------------------------------------
(* The clients. *)

(* enqueue, at the server: the job is inserted, or found by its key.        *)
Enqueue(h) ==
  /\ handle[h] = "new"
  /\ handle' = [handle EXCEPT ![h] = "asked"]
  /\ IF jobs[JobOf[h]].status = "ABSENT" THEN InsertJob(JobOf[h]) ELSE UNCHANGED storeVars
  /\ UNCHANGED <<runs, serverVars, conn, tracked, completed, reached, left>>

(* The answer arrives.  The Node client subscribes; the Rust client does    *)
(* not: it only removes from subscribed_jobs.                               *)
Enqueued(h) ==
  LET c == ClientOf[h]
      j == JobOf[h]
  IN  /\ handle[h] = "asked"
      /\ handle' = [handle EXCEPT ![h] = "idle"]
      /\ IF Kind[c] = "rust" THEN UNCHANGED <<conn, tracked>>
         ELSE /\ tracked' = [tracked EXCEPT ![c] = @ \cup {j}]
              /\ conn' = IF conn[c].up
                         THEN [conn EXCEPT ![c].inbox = Append(@, {j})] ELSE conn
      /\ UNCHANGED <<storeVars, runs, serverVars, completed, reached, left>>

(* result() of Node: takes what tryGetResult has, or listens.               *)
ResultNode(h) ==
  LET c == ClientOf[h]
      j == JobOf[h]
  IN  /\ handle[h] = "idle" /\ Kind[c] = "node"
      /\ handle' = [handle EXCEPT ![h] = IF completed[c][j] = "none" THEN "waiting"
                                         ELSE completed[c][j]]
      /\ completed' = [completed EXCEPT ![c][j] = "none"]
      /\ UNCHANGED <<storeVars, runs, serverVars, conn, tracked, reached, left>>

(* result() of Rust: completed_results stays empty, since no notice is ever *)
(* sent to this client.  A second waiter replaces the first one's sender in *)
(* pending_results, and the first one fails with "Subscription cancelled".  *)
ResultRust(h) ==
  /\ handle[h] = "idle" /\ Kind[ClientOf[h]] = "rust"
  /\ handle' = [g \in Handle |->
                  IF g = h THEN "waiting"
                  ELSE IF g \in Listening(ClientOf[h], JobOf[h]) THEN "superseded"
                  ELSE handle[g]]
  /\ UNCHANGED <<storeVars, runs, serverVars, conn, tracked, completed, reached, left>>

(* result(timeoutMs) gives up; the handle may be asked again.               *)
Timeout(h) ==
  /\ handle[h] = "waiting"
  /\ Spend("timeout")
  /\ handle' = [handle EXCEPT ![h] = "idle"]
  /\ UNCHANGED <<storeVars, runs, serverVars, conn, tracked, completed, reached>>

(* A notice as the client reads it: bytes first, then the status.           *)
Reading(n) == IF ~n.bytes /\ n.status = "DEAD" THEN "failed" ELSE "success"

(* A notice arrives.  pendingResults is empty (nothing calls subscribeToJob)*)
(* so it is always kept in completedResults, and the listeners are told.    *)
Receive(c) ==
  /\ conn[c].outbox # <<>>
  /\ LET n == Head(conn[c].outbox)
     IN  /\ conn' = [conn EXCEPT ![c].outbox = Tail(@)]
         /\ tracked' = [tracked EXCEPT ![c] = @ \ {n.job}]
         /\ completed' = [completed EXCEPT ![c][n.job] = Reading(n)]
         /\ Tell(Listening(c, n.job), Reading(n))
  /\ UNCHANGED <<storeVars, runs, serverVars, reached, left>>

(* Mutant of Poll: a cancelled job is taken for one that still waits.       *)
PollNotCancelled(h) ==
  /\ handle[h] = "waiting" /\ Kind[ClientOf[h]] = "node"
  /\ jobs[JobOf[h]].status \in {"SUCCESS", "DEAD"}
  /\ Tell({h}, IF jobs[JobOf[h]].status = "SUCCESS" THEN "success" ELSE "failed")
  /\ UNCHANGED <<storeVars, runs, serverVars, conn, tracked, completed, reached, left>>

(* Mutant of Poll: whatever is not DEAD is a success.                       *)
PollNotDead(h) ==
  /\ handle[h] = "waiting" /\ Kind[ClientOf[h]] = "node"
  /\ Terminal(JobOf[h])
  /\ Tell({h}, IF jobs[JobOf[h]].status = "DEAD" THEN "failed" ELSE "success")
  /\ UNCHANGED <<storeVars, runs, serverVars, conn, tracked, completed, reached, left>>

(* The fallback of result(): every pollingInterval it asks for the job.     *)
Poll(h) ==
  /\ handle[h] = "waiting" /\ Kind[ClientOf[h]] = "node"
  /\ Terminal(JobOf[h])
  /\ Tell({h}, IF jobs[JobOf[h]].status = "SUCCESS" THEN "success" ELSE "failed")
  /\ UNCHANGED <<storeVars, runs, serverVars, conn, tracked, completed, reached, left>>

(* The subscription stream breaks: what is in its channel is gone, and the  *)
(* senders it left in the map are closed.                                   *)
Closed(c) == [conn[c] EXCEPT !.up = FALSE, !.outbox = <<>>]

Break(c) ==
  /\ conn[c].up
  /\ Spend("break")
  /\ conn' = [conn EXCEPT ![c] = Closed(c)]
  /\ subs' = [j \in Job |-> [i \in DOMAIN subs[j] |-> IF subs[j][i] = c THEN Gone ELSE subs[j][i]]]
  /\ UNCHANGED <<storeVars, runs, acks, cache, spent, doubled, lost, tracked, completed,
                 handle, reached>>

(* A second later the client opens a new one and subscribes to all it tracks.*)
Reopen(c) ==
  /\ ~conn[c].up
  /\ conn' = [conn EXCEPT ![c] =
                [up |-> TRUE, inbox |-> IF tracked[c] = {} THEN <<>> ELSE <<tracked[c]>>,
                 outbox |-> <<>>]]
  /\ UNCHANGED <<storeVars, runs, serverVars, tracked, completed, handle, reached, left>>

(* The server dies and starts again: its maps are empty, and the queued     *)
(* results are gone.  A caller whose answer is lost enqueues again.         *)
CrashRestart ==
  /\ Spend("crash")
  /\ \E stale \in SUBSET {j \in Job : Running(j)} : RecoverStaleJobs(stale)
  /\ Observe
  /\ acks' = <<>>
  /\ subs' = [j \in Job |-> <<>>]
  /\ cache' = [j \in Job |-> NoNotice]
  /\ spent' = Job
  /\ lost' = lost \cup {acks[i].job : i \in DOMAIN acks}
  /\ conn' = [c \in Client |-> [up |-> FALSE, inbox |-> <<>>, outbox |-> <<>>]]
  /\ handle' = [h \in Handle |-> IF handle[h] = "asked" THEN "new" ELSE handle[h]]
  /\ UNCHANGED <<runs, doubled, tracked, completed>>

-----------------------------------------------------------------------------
Life ==
  \/ \E j \in Job : \E c \in Client : Claim(j, c)
  \/ \E j \in Job : Elapse(j) \/ TakeBack(j) \/ Cancel(j) \/ Retry(j)
  \/ \E r \in runs : \E o \in Outcome : Report(r, o)

Server ==
  \/ \E n \in 1..BatchMax : CommitBatch(n) \/ CommitFails(n)
  \/ \E j \in Job : Expire(j)
  \/ \E c \in Client : Subscribe(c)

Clients ==
  \/ \E h \in Handle : Enqueue(h) \/ Enqueued(h) \/ ResultNode(h) \/ ResultRust(h)
                         \/ Timeout(h) \/ Poll(h)
  \/ \E c \in Client : Receive(c) \/ Break(c) \/ Reopen(c)

Next == Life \/ Server \/ Clients \/ CrashRestart

Spec == Init /\ [][Next]_vars

(* Workers take and report jobs, the processor commits, streams carry what  *)
(* is sent and are opened again, the polls of result() go on.  No caller is *)
(* forced to enqueue, wait or give up, and no fault to happen.              *)
Fairness ==
  /\ \A j \in Job : WF_vars(\E c \in Client : Claim(j, c)) /\ WF_vars(Elapse(j))
  /\ \A j \in Job : WF_vars(\E r \in runs : r.job = j /\ \E o \in Outcome : Report(r, o))
  /\ WF_vars(\E n \in 1..BatchMax : CommitBatch(n))
  /\ \A c \in Client : WF_vars(Subscribe(c)) /\ WF_vars(Receive(c)) /\ WF_vars(Reopen(c))
  /\ \A h \in Handle : WF_vars(Enqueued(h)) /\ WF_vars(Poll(h))

FairSpec == Spec /\ Fairness
-----------------------------------------------------------------------------
CacheHas(j) == cache[j] # NoNotice

(* The race between a completion and a subscription is decided under both   *)
(* locks: no notice sits in the cache while somebody is subscribed for it;  *)
(* a job that was settled still has its notice there unless it was sent,    *)
(* evicted or lost in a restart; and a cached notice agrees with the row,   *)
(* unless the job runs again or was cancelled since.                        *)
NoForgottenSubscriber ==
  \A j \in Job :
    /\ CacheHas(j) => ~Subscribed(j)
    /\ jobs[j].status \in {"SUCCESS", "DEAD"} =>
         IF CacheHas(j) THEN cache[j].notice.status = jobs[j].status ELSE j \in spent

Reported(j) == \E i \in DOMAIN acks : acks[i] = [job |-> j, outcome |-> "success"]

(* Whatever path told a handle the end of its job - listener, notice, cache *)
(* or poll, before or after retries and reconnects - it was true of the row *)
(* at some time.  A success told in the worker's own process may still be   *)
(* queued, or lost with its batch; and two results of one job in one batch  *)
(* are reported with the bytes of the last, so nothing is promised of them. *)
ToldWasTrue ==
  \A h \in Handle :
    LET j == JobOf[h]
    IN  /\ handle[h] = "success" =>
             "SUCCESS" \in reached[j] \/ Reported(j) \/ j \in lost \/ j \in doubled
        /\ handle[h] = "failed" =>
             reached[j] \cap {"DEAD", "CANCELLED"} # {} \/ j \in doubled

(* Every result() of the Node SDK returns, though notices are lost with     *)
(* streams, consumed by others, evicted, or never sent (a cancelled job):   *)
(* unless a result of the job itself was lost.                              *)
Returns(h) == handle[h] = "waiting" ~> (handle[h] # "waiting" \/ JobOf[h] \in lost)

EveryCallReturns == \A h \in Handle : Kind[ClientOf[h]] = "node" => Returns(h)

(* "Wait for the job result": result() of either SDK returns.               *)
EveryResultArrives == \A h \in Handle : Returns(h)
=============================================================================
