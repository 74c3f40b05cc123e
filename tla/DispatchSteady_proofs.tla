--------------------- MODULE DispatchSteady_proofs ----------------------
(***************************************************************************)
(* Proofs about the dispatcher while connections and calls hold: a job is  *)
(* in one place at a time, the slots of a worker are the jobs it has, and  *)
(* the rows follow the job lifecycle.  The statements speak of behaviours  *)
(* of the whole specification: they hold up to the first broken stream,    *)
(* lost call or restart, whatever the database does.                       *)
(***************************************************************************)
EXTENDS Dispatch_proofs

(* No stream broke, no call failed, no restart: all the faults but those of  *)
(* the database.                                                             *)
Undisturbed == used["break"] = 0 /\ used["crash"] = 0 /\ used["ack"] = 0

(* A push that is still good: of the attempt its row is running.             *)
Live(p) == Running(p.job) /\ p.attempt = jobs[p.job].attempt

InStream(s, j) == \E p \in streams[s].chan : p.job = j
InChannel(j)   == \E s \in Stream : InStream(s, j)
OnWorker(j)    == \E e \in exec : e.push.job = j

PushesLive ==
  /\ \A p \in hand : Live(p)
  /\ cur.stage # "none" => Live(cur.push)
  /\ \A s \in Stream : \A p \in streams[s].chan : Live(p)
  /\ \A e \in exec : Live(e.push)
  /\ \A c \in calls : Live(c.exec.push)
  /\ \A i \in DOMAIN acks : Running(acks[i].job)

(* A job is in one kind of place ...                                         *)
Exclusive(j) ==
  /\ InHand(j) => ~(IsCurrent(j) \/ InChannel(j) \/ OnWorker(j) \/ InAckCall(j) \/ InAckQueue(j))
  /\ IsCurrent(j) => ~(InChannel(j) \/ OnWorker(j) \/ InAckCall(j) \/ InAckQueue(j))
  /\ InChannel(j) => ~(OnWorker(j) \/ InAckCall(j) \/ InAckQueue(j))
  /\ OnWorker(j) => ~(InAckCall(j) \/ InAckQueue(j))
  /\ InAckCall(j) => ~InAckQueue(j)

(* ... and there once.                                                       *)
Single(j) ==
  /\ \A s, t \in Stream : InStream(s, j) /\ InStream(t, j) => s = t
  /\ \A e, f \in exec : e.push.job = j /\ f.push.job = j => e = f
  /\ \A c, d \in calls : c.exec.push.job = j /\ d.exec.push.job = j => c = d
  /\ \A i, k \in DOMAIN acks : acks[i].job = j /\ acks[k].job = j => i = k

Somewhere(j) ==
  InHand(j) \/ IsCurrent(j) \/ InChannel(j) \/ OnWorker(j) \/ InAckCall(j) \/ InAckQueue(j)

Placed == PushesLive /\ \A j \in Job : Exclusive(j) /\ Single(j) /\ (j \in lost => ~Somewhere(j))

(* Streams only open.                                                         *)
Serving ==
  /\ \A s \in Stream : streams[s].task \in {"none", "open"}
  /\ \A s \in Stream : streams[s].task = "open" =>
                         streams[s].rx /\ workers[streams[s].worker].tx = s
  /\ \A s \in Stream : streams[s].task = "none" => streams[s].chan = {}
  /\ cur.stage = "send" => streams[cur.tx].task = "open"

(* The job is with worker w, or about to be sent to it.                      *)
With(j, w) ==
  \/ \E e \in exec : e.worker = w /\ e.push.job = j
  \/ \E s \in Stream : streams[s].worker = w /\ InStream(s, j)
  \/ cur.stage = "send" /\ cur.push.job = j /\ streams[cur.tx].worker = w

SlotsBacked ==
  \A w \in Worker, j \in Job :
    /\ j \in workers[w].active <=> assignments[j] = w
    /\ assignments[j] = w <=> With(j, w)

Roomy ==
  \A w \in Worker :
    /\ ~Registered(w) => workers[w].active = {}
    /\ Registered(w) => workers[w].offer \in Offers[w]
    /\ workers[w].active # {} => \E o \in Offers[w] : Cardinality(workers[w].active) <= o.concurrency

Runs == \A e \in exec : e.step = "run"

(* The inductive invariant, up to the first fault.                           *)
Steady == Placed /\ Serving /\ SlotsBacked /\ Roomy /\ Runs

-----------------------------------------------------------------------------
(* What the shape says of the pushes in each place.                          *)
LEMMA PushFacts ==
  ASSUME Shape
  PROVE  /\ \A p \in Push : p.job \in Job
         /\ hand \subseteq Push
         /\ cur \in Current /\ (cur.stage # "none" => cur.push \in Push)
         /\ \A s \in Stream : streams[s].chan \subseteq Push
         /\ \A e \in exec : e.push \in Push /\ e.push.job \in Job /\ e.worker \in Worker
         /\ \A c \in calls : c.exec.push \in Push /\ c.exec.push.job \in Job
         /\ DOMAIN acks = 1..Len(acks) /\ Len(acks) \in Nat /\ acks \in Seq(Ack)
         /\ \A i \in DOMAIN acks : acks[i].job \in Job
<1>1. \A p \in Push : p.job \in Job
  BY DEF Push
<1>2. hand \subseteq Push /\ cur \in Current /\ (cur.stage # "none" => cur.push \in Push)
  BY DEF Shape, SchedOK, Current, NoCur
<1>3. \A s \in Stream : streams[s].chan \subseteq Push
  BY ShapeFacts
<1>4. \A e \in exec : e.push \in Push /\ e.push.job \in Job /\ e.worker \in Worker
  BY ShapeFacts
<1>5. \A c \in calls : c.exec.push \in Push /\ c.exec.push.job \in Job
  BY DEF Shape, MessagesOK, Call, Execution, Push
<1>6. DOMAIN acks = 1..Len(acks) /\ Len(acks) \in Nat /\ acks \in Seq(Ack)
  BY DEF Shape, MessagesOK
<1>7. \A i \in DOMAIN acks : acks[i] \in Ack
  BY <1>6
<1>8. \A i \in DOMAIN acks : acks[i].job \in Job
  BY <1>7 DEF Ack
<1> QED BY <1>1, <1>2, <1>3, <1>4, <1>5, <1>6, <1>8

(* There is one good push of a job.                                          *)
LEMMA OnePush ==
  ASSUME NEW p \in Push, NEW q \in Push, Live(p), Live(q), p.job = q.job
  PROVE  p = q
BY DEF Push, Live

(* A push stays good as long as its row is not touched.                      *)
LEMMA StaysLive ==
  ASSUME NEW p, Live(p), jobs'[p.job] = jobs[p.job]
  PROVE  Live(p)'
BY DEF Live, Running

-----------------------------------------------------------------------------
(* The rows the storage operations leave alone.                              *)
LEMMA QueueTouches ==
  ASSUME StoreInv, NEW j \in Job, NEW i \in Job, Running(i),
         InsertJob(j) \/ BecomeDue(j) \/ CancelJob(j) \/ RetryJob(j)
  PROVE  jobs'[i] = jobs[i]
BY DEF StoreInv, StoreTypeOK, Running, InsertJob, BecomeDue, CancelJob, RetryJob

LEMMA ClaimTouches ==
  ASSUME NEW S, NEW i \in Job, ClaimAndFetchJobs(S), i \notin S
  PROVE  jobs'[i] = jobs[i]
BY DEF ClaimAndFetchJobs

LEMMA ResetTouches ==
  ASSUME StoreInv, NEW j \in Job, NEW i \in Job, ResetStaleJob(j), i # j
  PROVE  jobs'[i] = jobs[i]
BY DEF ResetStaleJob, StoreInv, StoreTypeOK

LEMMA BatchTouches ==
  ASSUME NEW batch, NEW i \in Job, UpdateJobResults(batch), ~InBatch(batch, i)
  PROVE  jobs'[i] = jobs[i]
BY DEF UpdateJobResults

-----------------------------------------------------------------------------
(* A job without a place.                                                    *)
LEMMA NowhereIsFree ==
  ASSUME NEW j, ~Somewhere(j)
  PROVE  Exclusive(j)
BY DEF Somewhere, Exclusive

(* Where a good push is, its row is RUNNING.                                 *)
LEMMA PlacedRuns ==
  ASSUME Placed, NEW j \in Job, Somewhere(j)
  PROVE  Running(j)
<1>1. CASE InHand(j)
  BY <1>1 DEF Placed, PushesLive, Live, InHand
<1>2. CASE IsCurrent(j)
  BY <1>2 DEF Placed, PushesLive, Live, IsCurrent
<1>3. CASE InChannel(j)
  BY <1>3 DEF Placed, PushesLive, Live, InChannel, InStream
<1>4. CASE OnWorker(j)
  BY <1>4 DEF Placed, PushesLive, Live, OnWorker
<1>5. CASE InAckCall(j)
  BY <1>5 DEF Placed, PushesLive, Live, InAckCall
<1>6. CASE InAckQueue(j)
  BY <1>6 DEF Placed, PushesLive, InAckQueue
<1> QED BY <1>1, <1>2, <1>3, <1>4, <1>5, <1>6 DEF Somewhere

(* Nothing moves, and the running rows stay.                                 *)
LEMMA StillPlaced ==
  ASSUME Shape, Placed, UNCHANGED <<hand, cur, streams, exec, calls, acks, lost>>,
         \A i \in Job : Running(i) => jobs'[i] = jobs[i]
  PROVE  Placed'
<1>1. \A p \in Push : Live(p) => Live(p)'
  BY PushFacts, StaysLive DEF Live
<1>2. \A i \in DOMAIN acks : Running(acks[i].job)'
  BY PushFacts DEF Placed, PushesLive, Running
<1>3. PushesLive'
  BY <1>1, <1>2, PushFacts DEF Placed, PushesLive
<1>4. ASSUME NEW j \in Job
      PROVE  (Exclusive(j) /\ Single(j) /\ (j \in lost => ~Somewhere(j)))'
  <2>1. Exclusive(j) /\ Single(j) /\ (j \in lost => ~Somewhere(j))
    BY DEF Placed
  <2> QED BY <2>1 DEF Exclusive, Single, Somewhere, InHand, IsCurrent, InChannel, InStream, OnWorker,
                      InAckCall, InAckQueue
<1> QED BY <1>3, <1>4 DEF Placed

-----------------------------------------------------------------------------
(* The places but the scheduler's.                                           *)
LEMMA OutsidePlaces ==
  ASSUME UNCHANGED <<streams, exec, calls, acks>>, NEW i
  PROVE  /\ InChannel(i)' <=> InChannel(i)
         /\ OnWorker(i)' <=> OnWorker(i)
         /\ InAckCall(i)' <=> InAckCall(i)
         /\ InAckQueue(i)' <=> InAckQueue(i)
         /\ Single(i)' <=> Single(i)
BY DEF InChannel, InStream, OnWorker, InAckCall, InAckQueue, Single

(* And its own.                                                              *)
LEMMA InsidePlaces ==
  ASSUME UNCHANGED <<hand, cur>>, NEW i
  PROVE  (InHand(i)' <=> InHand(i)) /\ (IsCurrent(i)' <=> IsCurrent(i))
BY DEF InHand, IsCurrent

(* A claim finds no place taken: the rows it claims are PENDING.             *)
LEMMA ClaimPlaced ==
  ASSUME Shape, Placed, NEW w \in Worker, ClaimFor(w)
  PROVE  Placed'
<1>1. PICK S \in SUBSET Eligible(w) :
        ClaimAndFetchJobs(S) /\ hand' = {Pushed(j) : j \in S} /\ lost' = lost \ S
  BY DEF ClaimFor
<1>2. /\ hand = {} /\ cur = NoCur /\ UNCHANGED <<cur, streams, exec, calls, acks>>
      /\ S \subseteq Job /\ \A j \in S : Claimable(j)
  BY <1>1, ShapeFacts DEF ClaimFor, BetweenWorkers, BetweenJobs, Eligible
<1>3. \A i \in Job : Running(i) => i \notin S /\ jobs'[i] = jobs[i]
  BY <1>1, <1>2, ClaimTouches DEF Claimable, Running
<1>4. \A j \in S : \A p : p = Pushed(j) => Live(p)' /\ p.job = j
  <2> TAKE j \in S
  <2>1. j \in Job /\ jobs[j] \in Row /\ jobs'[j] = Claimed(jobs[j])
    BY <1>1, <1>2, RowFacts DEF Shape, ClaimAndFetchJobs
  <2>2. jobs'[j].status = "RUNNING" /\ jobs'[j].attempt = jobs[j].attempt + 1
    BY <2>1, DerivedRows
  <2> QED BY <2>2 DEF Live, Running, Pushed
<1>5. PushesLive'
  <2>1. \A p \in Push : Live(p) => Live(p)'
    BY <1>3, PushFacts, StaysLive DEF Live
  <2>2. \A p \in hand' : Live(p)'
    BY <1>1, <1>4
  <2>3. \A k \in DOMAIN acks : Running(acks[k].job)'
    BY <1>2, <1>3, PushFacts DEF Placed, PushesLive, Running
  <2> QED BY <1>2, <2>1, <2>2, <2>3, PushFacts DEF Placed, PushesLive
<1>6. ASSUME NEW i \in Job
      PROVE  (Exclusive(i) /\ Single(i) /\ (i \in lost => ~Somewhere(i)))'
  <2>1. Exclusive(i) /\ Single(i) /\ (i \in lost => ~Somewhere(i))
    BY DEF Placed
  <2>2. ~InHand(i) /\ (IsCurrent(i)' <=> IsCurrent(i)) /\ ~IsCurrent(i)
    BY <1>2 DEF InHand, IsCurrent, NoCur
  <2>3. CASE i \in S
    <3>1. ~Somewhere(i)
      BY <1>3, <2>3, PlacedRuns
    <3>2. i \notin lost'
      BY <1>1, <2>3
    <3> QED BY <1>2, <2>1, <2>2, <3>1, <3>2, OutsidePlaces DEF Exclusive, Somewhere
  <2>4. CASE i \notin S
    <3>1. ~InHand(i)'
      BY <1>1, <1>4, <2>4 DEF InHand
    <3>2. i \in lost' => i \in lost
      BY <1>1
    <3> QED BY <1>2, <2>1, <2>2, <3>1, <3>2, OutsidePlaces DEF Exclusive, Somewhere
  <2> QED BY <2>3, <2>4
<1> QED BY <1>5, <1>6 DEF Placed

(* The job that is assigned goes from the hand of the scheduler into its     *)
(* own step.                                                                 *)
LEMMA AssignPlaced ==
  ASSUME Shape, Placed, NEW p \in hand, AssignJob(p)
  PROVE  Placed'
<1>1. /\ cur = NoCur /\ hand' = hand \ {p} /\ cur'.stage # "none" /\ cur'.push = p
      /\ UNCHANGED <<jobs, streams, exec, calls, acks, lost>>
  BY DEF AssignJob, BetweenJobs, storeVars
<1>2. /\ \A q \in hand : Live(q) /\ q \in Push
      /\ \A q \in Push : Live(q)' <=> Live(q)
  BY <1>1, PushFacts DEF Placed, PushesLive, Live, Running
<1>3. PushesLive'
  BY <1>1, <1>2, PushFacts DEF Placed, PushesLive, Running
<1>4. \A i : InHand(i)' <=> InHand(i) /\ i # p.job
  BY <1>1, <1>2, OnePush DEF InHand
<1>5. \A i : (IsCurrent(i)' <=> i = p.job) /\ ~IsCurrent(i)
  BY <1>1 DEF IsCurrent, NoCur
<1>6. InHand(p.job)
  BY DEF InHand
<1>7. ASSUME NEW i \in Job
      PROVE  (Exclusive(i) /\ Single(i) /\ (i \in lost => ~Somewhere(i)))'
  <2>1. Exclusive(i) /\ Single(i) /\ (i \in lost => ~Somewhere(i)) /\ (i \in lost' <=> i \in lost)
    BY <1>1 DEF Placed
  <2>2. CASE i = p.job
    BY <1>1, <1>4, <1>5, <1>6, <2>1, <2>2, OutsidePlaces DEF Exclusive, Somewhere
  <2>3. CASE i # p.job
    BY <1>1, <1>4, <1>5, <2>1, <2>3, OutsidePlaces DEF Exclusive, Somewhere
  <2> QED BY <2>2, <2>3
<1> QED BY <1>3, <1>7 DEF Placed

(* A push to the stream: the stream is open, so its task takes it.           *)
LEMMA SendOkPlaced ==
  ASSUME Shape, Placed, SendOk
  PROVE  Placed'
<1> DEFINE s == cur.tx
           p == cur.push
<1>1. /\ s \in Stream /\ p \in Push /\ cur.stage = "send" /\ cur' = NoCur
      /\ UNCHANGED <<jobs, hand, exec, calls, acks, lost>>
      /\ streams' = [streams EXCEPT ![s].chan = @ \cup {p}]
  BY ShapeFacts DEF SendOk, storeVars
<1>2. \A r \in Stream : streams'[r].chan = IF r = s THEN streams[r].chan \cup {p} ELSE streams[r].chan
  BY <1>1 DEF Shape, StreamsOK, StreamInfo
<1>3. Live(p) /\ \A q : Live(q)' <=> Live(q)
  BY <1>1 DEF Placed, PushesLive, Live, Running
<1>4. NoCur.stage = "none"
  BY NoCurIsCurrent
<1> HIDE DEF s, p
<1>5. PushesLive'
  BY <1>1, <1>2, <1>3, <1>4 DEF Placed, PushesLive, Running
<1>6. ASSUME NEW i \in Job
      PROVE  (Exclusive(i) /\ Single(i) /\ (i \in lost => ~Somewhere(i)))'
  <2>1. Exclusive(i) /\ Single(i) /\ (i \in lost => ~Somewhere(i)) /\ (i \in lost' <=> i \in lost)
    BY <1>1 DEF Placed
  <2>2. \A r \in Stream : InStream(r, i)' <=> InStream(r, i) \/ (r = s /\ i = p.job)
    BY <1>2 DEF InStream
  <2>3. /\ IsCurrent(i) <=> i = p.job
        /\ ~IsCurrent(i)'
        /\ InHand(i)' <=> InHand(i)
        /\ OnWorker(i)' <=> OnWorker(i)
        /\ InAckCall(i)' <=> InAckCall(i)
        /\ InAckQueue(i)' <=> InAckQueue(i)
    BY <1>1, <1>4 DEF p, IsCurrent, InHand, OnWorker, InAckCall, InAckQueue
  <2>4. InChannel(i)' <=> InChannel(i) \/ i = p.job
    BY <1>1, <2>2 DEF InChannel
  <2>5. i = p.job => ~InChannel(i)
    BY <2>1, <2>3 DEF Exclusive
  <2>6. \A r, t \in Stream : InStream(r, i)' /\ InStream(t, i)' => r = t
    BY <2>1, <2>2, <2>5 DEF Single, InChannel
  <2>7. Single(i)'
    BY <1>1, <2>1, <2>6 DEF Single
  <2>8. Exclusive(i)' /\ (i \in lost' => ~Somewhere(i)')
    BY <2>1, <2>3, <2>4 DEF Exclusive, Somewhere
  <2> QED BY <2>7, <2>8
<1> QED BY <1>5, <1>6 DEF Placed

(* A full channel: the job stays with the scheduler, to be reset.            *)
LEMMA SendFullPlaced ==
  ASSUME Shape, Placed, SendFull
  PROVE  Placed'
<1>1. /\ cur.stage = "send" /\ cur'.stage = "reset" /\ cur'.push = cur.push
      /\ UNCHANGED <<jobs, hand, streams, exec, calls, acks, lost>>
  BY DEF SendFull, storeVars
<1>2. PushesLive'
  BY <1>1 DEF Placed, PushesLive, Live, Running
<1>3. \A i : (InHand(i)' <=> InHand(i)) /\ (IsCurrent(i)' <=> IsCurrent(i))
  BY <1>1 DEF InHand, IsCurrent
<1>4. ASSUME NEW i \in Job
      PROVE  (Exclusive(i) /\ Single(i) /\ (i \in lost => ~Somewhere(i)))'
  <2>1. Exclusive(i) /\ Single(i) /\ (i \in lost => ~Somewhere(i)) /\ (i \in lost' <=> i \in lost)
    BY <1>1 DEF Placed
  <2> QED BY <1>1, <1>3, <2>1, OutsidePlaces DEF Exclusive, Somewhere
<1> QED BY <1>2, <1>4 DEF Placed

(* A reset takes the job out of the scheduler, done or not.                  *)
LEMMA SchedResetPlaced ==
  ASSUME Shape, Placed, SchedReset
  PROVE  Placed'
<1> DEFINE j == cur.push.job
<1>1. /\ j \in Job /\ cur.stage = "reset" /\ cur' = NoCur /\ NoCur.stage = "none"
      /\ UNCHANGED <<hand, streams, exec, calls, acks>>
      /\ lost \subseteq lost' /\ lost' \subseteq lost \cup {j}
  BY ShapeFacts, NoCurIsCurrent DEF SchedReset
<1>2. \A i \in Job : i # j => jobs'[i] = jobs[i]
  BY <1>1, ResetTouches DEF SchedReset, storeVars, Shape
<1>3. \A i : (IsCurrent(i) <=> i = j) /\ ~IsCurrent(i)' /\ (InHand(i)' <=> InHand(i))
  BY <1>1 DEF IsCurrent, InHand
<1> HIDE DEF j
<1>4. Exclusive(j)
  BY <1>1 DEF Placed
<1>5. /\ ~InHand(j) /\ ~InChannel(j) /\ ~OnWorker(j) /\ ~InAckCall(j) /\ ~InAckQueue(j)
  BY <1>3, <1>4 DEF Exclusive
<1>6. PushesLive'
  <2>1. \A p \in Push : Live(p) /\ p.job # j => Live(p)'
    BY <1>2, PushFacts, StaysLive
  <2>2. /\ \A p \in hand : p.job # j
        /\ \A s \in Stream : \A p \in streams[s].chan : p.job # j
        /\ \A e \in exec : e.push.job # j
        /\ \A c \in calls : c.exec.push.job # j
        /\ \A k \in DOMAIN acks : acks[k].job # j
    BY <1>5 DEF InHand, InChannel, InStream, OnWorker, InAckCall, InAckQueue
  <2>3. \A k \in DOMAIN acks : Running(acks[k].job)'
    BY <1>1, <1>2, <2>2, PushFacts DEF Placed, PushesLive, Running
  <2> QED BY <1>1, <2>1, <2>2, <2>3, PushFacts DEF Placed, PushesLive
<1>7. ASSUME NEW i \in Job
      PROVE  (Exclusive(i) /\ Single(i) /\ (i \in lost => ~Somewhere(i)))'
  <2>1. Exclusive(i) /\ Single(i) /\ (i \in lost => ~Somewhere(i))
        /\ (i \in lost' => i \in lost \/ i = j)
    BY <1>1 DEF Placed
  <2>2. CASE i = j
    BY <1>1, <1>3, <1>5, <2>1, <2>2, OutsidePlaces DEF Exclusive, Somewhere
  <2>3. CASE i # j
    BY <1>1, <1>3, <2>1, <2>3, OutsidePlaces DEF Exclusive, Somewhere
  <2> QED BY <2>2, <2>3
<1> QED BY <1>6, <1>7 DEF Placed

(* A stream that opens has nothing in its channel.                           *)
LEMMA ConnectPlaced ==
  ASSUME Shape, Placed, Serving, NEW s \in Stream, NEW w \in Worker, NEW o, Connect(w, s, o),
         workers[w].active = {}
  PROVE  Placed'
<1>1. /\ UNCHANGED <<jobs, hand, cur, exec, calls, acks, lost>>
      /\ streams[s].chan = {} /\ streams'[s].chan = {}
      /\ \A r \in Stream : r # s => streams'[r] = streams[r]
  BY DEF Connect, Serving, ActiveJobs, storeVars, schedVars, Shape, StreamsOK
<1>2. PushesLive'
  BY <1>1 DEF Placed, PushesLive, Live, Running
<1>3. ASSUME NEW i \in Job
      PROVE  (Exclusive(i) /\ Single(i) /\ (i \in lost => ~Somewhere(i)))'
  <2>1. Exclusive(i) /\ Single(i) /\ (i \in lost => ~Somewhere(i))
    BY DEF Placed
  <2>2. \A r \in Stream : InStream(r, i)' <=> InStream(r, i)
    BY <1>1 DEF InStream
  <2>3. /\ InChannel(i)' <=> InChannel(i)
        /\ OnWorker(i)' <=> OnWorker(i)
        /\ InAckCall(i)' <=> InAckCall(i)
        /\ InAckQueue(i)' <=> InAckQueue(i)
        /\ Single(i)'
    BY <1>1, <2>1, <2>2 DEF InChannel, OnWorker, InAckCall, InAckQueue, Single
  <2> QED BY <1>1, <2>1, <2>3, InsidePlaces DEF Exclusive, Somewhere
<1> QED BY <1>2, <1>3 DEF Placed

(* A push that is delivered becomes the one execution of its job.            *)
LEMMA DeliverPlaced ==
  ASSUME Shape, Placed, NEW s \in Stream, NEW p \in streams[s].chan, Deliver(s, p)
  PROVE  Placed'
<1> DEFINE e == [worker |-> streams[s].worker, push |-> p, step |-> "run"]
<1>1. /\ UNCHANGED <<jobs, hand, cur, calls, acks, lost>> /\ e.push = p
      /\ exec' = exec \cup {e}
      /\ streams' = [streams EXCEPT ![s].chan = @ \ {p}]
  BY DEF Deliver, storeVars, schedVars
<1>2. \A r \in Stream : streams'[r].chan = IF r = s THEN streams[r].chan \ {p} ELSE streams[r].chan
  BY <1>1 DEF Shape, StreamsOK, StreamInfo
<1>3. /\ \A q : Live(q)' <=> Live(q)
      /\ Live(p) /\ p \in Push /\ \A q \in streams[s].chan : Live(q) /\ q \in Push
  BY <1>1, PushFacts DEF Placed, PushesLive, Live, Running
<1> HIDE DEF e
<1>4. PushesLive'
  BY <1>1, <1>2, <1>3 DEF Placed, PushesLive, Running
<1>5. InStream(s, p.job)
  BY DEF InStream
<1>6. \A q \in streams[s].chan : q.job = p.job => q = p
  BY <1>3, OnePush
<1>7. ASSUME NEW i \in Job
      PROVE  (Exclusive(i) /\ Single(i) /\ (i \in lost => ~Somewhere(i)))'
  <2>1. Exclusive(i) /\ Single(i) /\ (i \in lost => ~Somewhere(i)) /\ (i \in lost' <=> i \in lost)
    BY <1>1 DEF Placed
  <2>2. \A r \in Stream : InStream(r, i)' <=> InStream(r, i) /\ (r # s \/ i # p.job)
    BY <1>2, <1>6 DEF InStream
  <2>3. InChannel(i)' <=> InChannel(i) /\ i # p.job
    BY <1>5, <2>1, <2>2 DEF InChannel, Single
  <2>4. OnWorker(i)' <=> OnWorker(i) \/ i = p.job
    BY <1>1 DEF OnWorker
  <2>5. i = p.job => InChannel(i)
    BY <1>5 DEF InChannel
  <2>6. i = p.job => ~OnWorker(i) /\ ~InAckCall(i) /\ ~InAckQueue(i) /\ ~InHand(i) /\ ~IsCurrent(i)
    BY <2>1, <2>5 DEF Exclusive
  <2>7. (InAckCall(i)' <=> InAckCall(i)) /\ (InAckQueue(i)' <=> InAckQueue(i))
    BY <1>1 DEF InAckCall, InAckQueue
  <2>8. \A f, g \in exec' : f.push.job = i /\ g.push.job = i => f = g
    BY <1>1, <2>1, <2>6 DEF Single, OnWorker
  <2>9. Single(i)'
    BY <1>1, <2>1, <2>2, <2>8 DEF Single
  <2>10. Exclusive(i)' /\ (i \in lost' => ~Somewhere(i)')
    BY <1>1, <2>1, <2>3, <2>4, <2>5, <2>6, <2>7, InsidePlaces DEF Exclusive, Somewhere
  <2> QED BY <2>9, <2>10
<1> QED BY <1>4, <1>7 DEF Placed

(* The execution that is reported becomes the one call for its job.          *)
LEMMA AckJobPlaced ==
  ASSUME Shape, Placed, NEW e \in exec, NEW o \in Outcome, AckJob(e, o)
  PROVE  Placed'
<1> DEFINE c == [exec |-> e, outcome |-> o]
           j == e.push.job
<1>1. /\ UNCHANGED <<jobs, hand, cur, streams, acks, lost>> /\ c.exec = e
      /\ exec' = exec \ {e} /\ calls' = calls \cup {c}
  BY DEF AckJob, storeVars, schedVars
<1>2. /\ \A q : Live(q)' <=> Live(q)
      /\ Live(e.push) /\ j \in Job
  BY <1>1, PushFacts DEF Placed, PushesLive, Live, Running
<1> HIDE DEF c
<1>3. PushesLive'
  BY <1>1, <1>2 DEF Placed, PushesLive, Running
<1>4. OnWorker(j)
  BY DEF OnWorker
<1>5. ASSUME NEW i \in Job
      PROVE  (Exclusive(i) /\ Single(i) /\ (i \in lost => ~Somewhere(i)))'
  <2>1. Exclusive(i) /\ Single(i) /\ (i \in lost => ~Somewhere(i)) /\ (i \in lost' <=> i \in lost)
    BY <1>1 DEF Placed
  <2>2. OnWorker(i)' <=> OnWorker(i) /\ i # j
    BY <1>1, <2>1 DEF OnWorker, Single
  <2>3. InAckCall(i)' <=> InAckCall(i) \/ i = j
    BY <1>1 DEF InAckCall
  <2>4. i = j => /\ ~InChannel(i) /\ ~InAckCall(i) /\ ~InAckQueue(i) /\ ~InHand(i) /\ ~IsCurrent(i)
                 /\ OnWorker(i)
    BY <1>4, <2>1 DEF Exclusive
  <2>5. (InChannel(i)' <=> InChannel(i)) /\ (InAckQueue(i)' <=> InAckQueue(i))
    BY <1>1 DEF InChannel, InStream, InAckQueue
  <2>6. \A d, f \in calls' : d.exec.push.job = i /\ f.exec.push.job = i => d = f
    BY <1>1, <2>1, <2>4 DEF Single, InAckCall
  <2>7. Single(i)'
    BY <1>1, <2>1, <2>6 DEF Single, InStream
  <2> HIDE DEF j
  <2>8. Exclusive(i)' /\ (i \in lost' => ~Somewhere(i)')
    BY <1>1, <2>1, <2>2, <2>3, <2>4, <2>5, InsidePlaces DEF Exclusive, Somewhere
  <2> QED BY <2>7, <2>8
<1> QED BY <1>3, <1>5 DEF Placed

(* The call that is finished becomes the one result of its job in the queue. *)
LEMMA QueueAckPlaced ==
  ASSUME Shape, Placed, NEW c \in calls, QueueAck(c), UNCHANGED exec
  PROVE  Placed'
<1> DEFINE a == [job |-> c.exec.push.job, outcome |-> c.outcome]
           j == c.exec.push.job
<1>1. /\ UNCHANGED <<jobs, hand, cur, streams, exec, lost>> /\ a.job = j
      /\ calls' = calls \ {c} /\ acks' = Append(acks, a)
      /\ j \in Job /\ a \in Ack
  BY ShapeFacts DEF QueueAck, storeVars, schedVars, Ack
<1> HIDE DEF a
<1>2. /\ DOMAIN acks' = 1..(Len(acks) + 1) /\ acks'[Len(acks) + 1] = a
      /\ \A k \in 1..Len(acks) : acks'[k] = acks[k]
      /\ DOMAIN acks = 1..Len(acks) /\ Len(acks) \in Nat
  BY <1>1, PushFacts
<1>3. (\A q : Live(q)' <=> Live(q)) /\ Running(j)
  BY <1>1 DEF Placed, PushesLive, Live, Running
<1>4. \A k \in DOMAIN acks' : k \in DOMAIN acks \/ k = Len(acks) + 1
  BY <1>2
<1>5. PushesLive'
  <2>1. \A k \in DOMAIN acks' : Running(acks'[k].job)
    BY <1>1, <1>2, <1>3, <1>4 DEF Placed, PushesLive
  <2> QED BY <1>1, <1>3, <2>1 DEF Placed, PushesLive, Running
<1>6. InAckCall(j)
  BY DEF InAckCall
<1>7. ASSUME NEW i \in Job
      PROVE  (Exclusive(i) /\ Single(i) /\ (i \in lost => ~Somewhere(i)))'
  <2>1. Exclusive(i) /\ Single(i) /\ (i \in lost => ~Somewhere(i)) /\ (i \in lost' <=> i \in lost)
    BY <1>1 DEF Placed
  <2>2. InAckCall(i)' <=> InAckCall(i) /\ i # j
    BY <1>1, <2>1 DEF InAckCall, Single
  <2>3. InAckQueue(i)' <=> InAckQueue(i) \/ i = j
    BY <1>1, <1>2, <1>4 DEF InAckQueue
  <2>4. i = j => /\ ~InChannel(i) /\ ~OnWorker(i) /\ ~InAckQueue(i) /\ ~InHand(i) /\ ~IsCurrent(i)
                 /\ InAckCall(i)
    BY <1>6, <2>1 DEF Exclusive
  <2>5. (InChannel(i)' <=> InChannel(i)) /\ (OnWorker(i)' <=> OnWorker(i))
    BY <1>1 DEF InChannel, InStream, OnWorker
  <2>6. \A k, m \in DOMAIN acks' : acks'[k].job = i /\ acks'[m].job = i => k = m
    BY <1>1, <1>2, <1>4, <2>1, <2>4 DEF Single, InAckQueue
  <2>7. Single(i)'
    BY <1>1, <2>1, <2>6 DEF Single, InStream
  <2> HIDE DEF j
  <2>8. Exclusive(i)' /\ (i \in lost' => ~Somewhere(i)')
    BY <1>1, <2>1, <2>2, <2>3, <2>4, <2>5, InsidePlaces DEF Exclusive, Somewhere
  <2> QED BY <2>7, <2>8
<1> QED BY <1>5, <1>7 DEF Placed

(* A batch is committed or dropped: no other result of its jobs is anywhere. *)
LEMMA CommitPlaced ==
  ASSUME Shape, Placed, NEW n \in 1..BatchMax, CommitBatch(n) \/ CommitFails(n)
  PROVE  Placed'
<1> DEFINE batch == SubSeq(acks, 1, n)
           rest  == SubSeq(acks, n + 1, Len(acks))
<1>1. /\ n \in Nat \ {0} /\ n <= Len(acks) /\ acks' = rest
      /\ UNCHANGED <<hand, cur, streams, exec, calls>>
  BY StoreAssumption DEF CommitBatch, CommitFails, schedVars
<1>2. /\ batch \in [1..n -> Ack] /\ \A k \in 1..n : batch[k] = acks[k]
      /\ rest \in Seq(Ack) /\ Len(rest) = Len(acks) - n
      /\ \A k \in 1..(Len(acks) - n) : rest[k] = acks[n + k]
  BY <1>1, BatchOfAcks, PushFacts
<1>3. /\ DOMAIN acks = 1..Len(acks) /\ Len(acks) \in Nat
      /\ \A k \in DOMAIN acks : acks[k].job \in Job
  BY PushFacts
<1>4. \A i : (i \in lost' => i \in lost \/ InBatch(batch, i))
  <2>1. CASE CommitBatch(n)
    BY <2>1 DEF CommitBatch
  <2>2. CASE CommitFails(n)
    BY <1>2, <2>2 DEF CommitFails, InBatch
  <2> QED BY <2>1, <2>2
<1>5. \A i \in Job : ~InBatch(batch, i) => jobs'[i] = jobs[i]
  <2>1. CASE CommitBatch(n)
    BY <2>1, BatchTouches DEF CommitBatch
  <2>2. CASE CommitFails(n)
    BY <2>2 DEF CommitFails, storeVars
  <2> QED BY <2>1, <2>2
<1> HIDE DEF batch, rest
<1>6. /\ DOMAIN batch = 1..n /\ DOMAIN acks' = 1..(Len(acks) - n)
      /\ \A k \in DOMAIN acks' : /\ k + n \in DOMAIN acks /\ k + n \notin DOMAIN batch
                                 /\ acks'[k] = acks[k + n]
      /\ DOMAIN batch \subseteq DOMAIN acks /\ \A k \in DOMAIN batch : batch[k] = acks[k]
  BY <1>1, <1>2, <1>3
<1>7. ASSUME NEW i \in Job
      PROVE  /\ InBatch(batch, i) => InAckQueue(i)
             /\ InAckQueue(i)' => InAckQueue(i) /\ ~InBatch(batch, i)
  <2>1. Single(i)
    BY DEF Placed
  <2>2. InBatch(batch, i) => InAckQueue(i)
    BY <1>6 DEF InBatch, InAckQueue
  <2>3. InAckQueue(i)' => InAckQueue(i)
    BY <1>6 DEF InAckQueue
  <2>4. ASSUME InAckQueue(i)', InBatch(batch, i)
        PROVE  FALSE
    <3>1. PICK k \in DOMAIN acks' : acks'[k].job = i
      BY <2>4 DEF InAckQueue
    <3>2. PICK m \in DOMAIN batch : batch[m].job = i
      BY <2>4 DEF InBatch
    <3>3. k + n = m
      BY <1>6, <2>1, <3>1, <3>2 DEF Single
    <3> QED BY <1>6, <3>1, <3>2, <3>3
  <2> QED BY <2>2, <2>3, <2>4
<1>8. ASSUME NEW i \in Job
      PROVE  (Exclusive(i) /\ Single(i) /\ (i \in lost => ~Somewhere(i)))'
  <2>1. Exclusive(i) /\ Single(i) /\ (i \in lost => ~Somewhere(i))
    BY DEF Placed
  <2>2. /\ InChannel(i)' <=> InChannel(i)
        /\ OnWorker(i)' <=> OnWorker(i)
        /\ InAckCall(i)' <=> InAckCall(i)
    BY <1>1 DEF InChannel, InStream, OnWorker, InAckCall
  <2>3. \A k, m \in DOMAIN acks' : acks'[k].job = i /\ acks'[m].job = i => k = m
    <3> SUFFICES ASSUME NEW k \in DOMAIN acks', NEW m \in DOMAIN acks',
                        acks'[k].job = i, acks'[m].job = i
                 PROVE  k = m
      OBVIOUS
    <3>1. k + n = m + n
      BY <1>6, <2>1 DEF Single
    <3> QED BY <1>1, <1>3, <1>6, <3>1
  <2>4. Single(i)'
    BY <1>1, <2>1, <2>3 DEF Single, InStream
  <2>5. Exclusive(i)' /\ (i \in lost' => ~Somewhere(i)')
    BY <1>1, <1>4, <1>7, <2>1, <2>2, InsidePlaces DEF Exclusive, Somewhere
  <2> QED BY <2>4, <2>5
<1>9. PushesLive'
  <2>1. \A i \in Job : Somewhere(i)' => ~InBatch(batch, i)
    <3> SUFFICES ASSUME NEW i \in Job, Somewhere(i)', InBatch(batch, i) PROVE FALSE
      OBVIOUS
    <3>1. InAckQueue(i) /\ ~InAckQueue(i)' /\ Exclusive(i)
      BY <1>7 DEF Placed
    <3>2. /\ InChannel(i)' <=> InChannel(i)
          /\ OnWorker(i)' <=> OnWorker(i)
          /\ InAckCall(i)' <=> InAckCall(i)
      BY <1>1 DEF InChannel, InStream, OnWorker, InAckCall
    <3> QED BY <1>1, <3>1, <3>2, InsidePlaces DEF Exclusive, Somewhere
  <2>2. \A p \in Push : Live(p) /\ Somewhere(p.job)' => Live(p)'
    BY <1>5, <2>1, PushFacts, StaysLive
  <2>3. /\ \A p \in hand : Somewhere(p.job)'
        /\ cur.stage # "none" => Somewhere(cur.push.job)'
        /\ \A s \in Stream : \A p \in streams[s].chan : Somewhere(p.job)'
        /\ \A e \in exec : Somewhere(e.push.job)'
        /\ \A c \in calls : Somewhere(c.exec.push.job)'
    BY <1>1 DEF Somewhere, InHand, IsCurrent, InChannel, InStream, OnWorker, InAckCall
  <2>4. (\A k \in DOMAIN acks : Running(acks[k].job))'
    <3> SUFFICES ASSUME NEW k \in DOMAIN acks', NEW i \in Job, acks'[k].job = i
                 PROVE  Running(i)'
      BY <1>3, <1>6
    <3>1. Running(i)
      BY <1>6 DEF Placed, PushesLive
    <3>2. InAckQueue(i)'
      BY DEF InAckQueue
    <3> QED BY <1>5, <1>7, <3>1, <3>2 DEF Running
  <2> QED BY <1>1, <2>2, <2>3, <2>4, PushFacts DEF Placed, PushesLive
<1> QED BY <1>8, <1>9 DEF Placed

-----------------------------------------------------------------------------
(* A counted event happened.                                                 *)
LEMMA SpendCounts ==
  ASSUME Shape, NEW h \in Hazard, Spend(h)
  PROVE  /\ used'[h] # 0
         /\ \A g \in Hazard : used'[g] = 0 => used[g] = 0
BY DEF Shape, MessagesOK, Spend

(* Faults are counted: as long as nothing was disturbed, no stream broke and *)
(* no call failed.                                                           *)
LEMMA FaultsCounted ==
  ASSUME Shape, [Next]_vars, Undisturbed'
  PROVE  /\ Undisturbed
         /\ ~CrashRestart /\ \A s \in Stream : ~Break(s)
         /\ \A e \in exec, o \in Outcome : ~AckDropped(e, o)
         /\ \A c \in calls : ~AckAborted(c) /\ (QueueAck(c) => UNCHANGED exec)
<1>1. /\ "break" \in Hazard /\ "crash" \in Hazard /\ "ack" \in Hazard /\ "db" \in Hazard
      /\ "caps" \in Hazard /\ "cancel" \in Hazard /\ "retry" \in Hazard
  BY DEF Hazard
<1>2. ~Spend("break") /\ ~Spend("crash") /\ ~Spend("ack")
  BY <1>1, SpendCounts DEF Undisturbed
<1>3. \A c \in calls : QueueAck(c) => UNCHANGED <<exec, used>>
  BY <1>2 DEF QueueAck
<1>4. UNCHANGED used \/ \E h \in Hazard : Spend(h)
  <2>1. CASE Request
    BY <1>1, <2>1 DEF Request, EnqueueJob, Elapse, Cancel, Retry
  <2>2. CASE Scheduler
    BY <1>1, <2>2 DEF Scheduler, Snapshot, ClaimFor, ClaimFails, AssignJob, SendOk, SendFull,
                      SendClosed, SchedReset
  <2>3. CASE PollStream
    BY <1>1, <2>3 DEF PollStream, Connect, UpdateCapabilities, Deliver, Break, DropReceiver,
                      StreamEnds, CleanUp, TaskDone
  <2>4. CASE Acknowledge
    BY <1>1, <1>3, <2>4 DEF Acknowledge, AckJob, AckDropped, AckAborted, CommitBatch, CommitFails
  <2>5. CASE CrashRestart
    BY <1>1, <2>5 DEF CrashRestart
  <2>6. CASE UNCHANGED vars
    BY <2>6 DEF vars
  <2> QED BY <2>1, <2>2, <2>3, <2>4, <2>5, <2>6 DEF Next
<1>5. Undisturbed
  BY <1>1, <1>4, SpendCounts DEF Undisturbed
<1> QED BY <1>2, <1>3, <1>5 DEF CrashRestart, Break, AckDropped, AckAborted

Delivers == \E s \in Stream : \E p \in streams[s].chan : Deliver(s, p)
Updates  == \E s \in Stream : \E w \in Worker : \E o \in Offers[w] :
              streams[s].worker = w /\ UpdateCapabilities(s, o)
Reports  == \E e \in exec : \E o \in Outcome : AckJob(e, o)
Queues   == \E c \in calls : QueueAck(c) /\ UNCHANGED exec
Commits  == \E n \in 1..BatchMax : CommitBatch(n) \/ CommitFails(n)

(* What is left of the next-state relation: no task ever cleans up.          *)
LEMMA SteadyNext ==
  ASSUME Shape, Serving, [Next]_vars, Undisturbed'
  PROVE  \/ Request \/ Scheduler \/ Connects \/ Updates \/ Delivers \/ Reports \/ Queues \/ Commits
         \/ UNCHANGED vars
<1>1. CASE PollStream
  <2>1. \A s \in Stream : ~DropReceiver(s) /\ ~StreamEnds(s) /\ ~CleanUp(s) /\ ~TaskDone(s)
    BY DEF Serving, DropReceiver, StreamEnds, CleanUp, TaskDone
  <2> QED BY <1>1, <2>1, FaultsCounted DEF PollStream, Connects, Updates, Delivers
<1>2. CASE Acknowledge
  BY <1>2, FaultsCounted DEF Acknowledge, Reports, Queues, Commits
<1> QED BY <1>1, <1>2, FaultsCounted DEF Next

(* The send of the scheduler never finds its channel closed.                 *)
LEMMA NeverClosed ==
  ASSUME Shape, Serving
  PROVE  ~SendClosed
BY ShapeFacts DEF Serving, SendClosed

-----------------------------------------------------------------------------
(* A worker that connects had no entry, and no slots.                        *)
LEMMA SteadyConnect ==
  ASSUME Shape, NoZombieRegistration, Serving, Roomy,
         NEW s \in Stream, NEW w \in Worker, NEW o \in Offers[w], Connect(w, s, o)
  PROVE  ~Registered(w) /\ workers[w].active = {}
<1>1. ~Registered(w)
  <2> SUFFICES ASSUME Registered(w) PROVE FALSE
    OBVIOUS
  <2>1. workers[w].tx \in Stream /\ streams[workers[w].tx].worker = w
        /\ streams[workers[w].tx].task \in {"open", "broken"}
    BY EntryFacts DEF Shape, NoZombieRegistration
  <2>2. Attached(w)
    BY <2>1 DEF Attached, Serving
  <2> QED BY <2>2 DEF Connect
<1> QED BY <1>1 DEF Roomy

(* Every job is in one place after each step.                                *)
LEMMA PlacedStep ==
  ASSUME Shape, NoZombieRegistration, Steady, [Next]_vars, Undisturbed'
  PROVE  Placed'
<1>0. Placed /\ Serving /\ Roomy
  BY DEF Steady
<1>1. CASE Request
  <2>1. UNCHANGED <<hand, cur, streams, exec, calls, acks, lost>>
    BY <1>1 DEF Request, EnqueueJob, Elapse, Cancel, Retry, schedVars
  <2>2. \A i \in Job : Running(i) => jobs'[i] = jobs[i]
    BY <1>1, QueueTouches DEF Request, EnqueueJob, Elapse, Cancel, Retry, Shape
  <2> QED BY <1>0, <2>1, <2>2, StillPlaced
<1>2. CASE Snapshot \/ ClaimFails \/ Updates \/ UNCHANGED vars
  <2>1. UNCHANGED <<jobs, hand, cur, streams, exec, calls, acks, lost>>
    BY <1>2 DEF Snapshot, ClaimFails, Updates, UpdateCapabilities, vars, storeVars, schedVars
  <2> QED BY <1>0, <2>1, StillPlaced
<1>3. CASE Scheduler
  BY <1>0, <1>2, <1>3, ClaimPlaced, AssignPlaced, SendOkPlaced, SendFullPlaced, NeverClosed,
     SchedResetPlaced DEF Scheduler
<1>4. CASE Connects
  BY <1>0, <1>4, SteadyConnect, ConnectPlaced DEF Connects
<1>5. CASE Delivers
  BY <1>0, <1>5, DeliverPlaced DEF Delivers
<1>6. CASE Reports
  BY <1>0, <1>6, AckJobPlaced DEF Reports
<1>7. CASE Queues
  BY <1>0, <1>7, QueueAckPlaced DEF Queues
<1>8. CASE Commits
  BY <1>0, <1>8, CommitPlaced DEF Commits
<1> QED BY <1>0, <1>1, <1>2, <1>3, <1>4, <1>5, <1>6, <1>7, <1>8, SteadyNext

-----------------------------------------------------------------------------
(* A stream keeps its worker, its task and its receiver, or is opened.       *)
LEMMA StreamsStay ==
  ASSUME Shape, Serving, [Next]_vars, Undisturbed', NEW s \in Stream
  PROVE  \/ /\ streams'[s].task = streams[s].task
            /\ streams'[s].worker = streams[s].worker
            /\ streams'[s].rx = streams[s].rx
            /\ streams[s].task = "none" => streams'[s].chan = streams[s].chan
         \/ \E w \in Worker : \E o \in Offers[w] : Connect(w, s, o)
<1>0. streams \in [Stream -> StreamInfo]
  BY DEF Shape, StreamsOK
<1>1. CASE UNCHANGED streams
  BY <1>1
<1>2. CASE SendOk
  BY <1>0, <1>2 DEF SendOk, Serving, StreamInfo
<1>3. ASSUME NEW r \in Stream, NEW v \in Worker, NEW o \in Offers[v], Connect(v, r, o), r # s
      PROVE  streams'[s] = streams[s]
  BY <1>0, <1>3 DEF Connect
<1>4. ASSUME NEW r \in Stream, NEW p \in streams[r].chan, Deliver(r, p)
      PROVE  /\ streams'[s].task = streams[s].task
             /\ streams'[s].worker = streams[s].worker
             /\ streams'[s].rx = streams[s].rx
             /\ streams[s].task = "none" => streams'[s].chan = streams[s].chan
  BY <1>0, <1>4 DEF Deliver, StreamInfo
<1>5. CASE Request
  BY <1>1, <1>5 DEF Request, EnqueueJob, Elapse, Cancel, Retry
<1>6. CASE Scheduler
  BY <1>1, <1>2, <1>6 DEF Scheduler, Snapshot, ClaimFor, ClaimFails, AssignJob, SendFull,
                          SendClosed, SchedReset
<1>7. CASE Updates \/ Reports \/ Queues \/ Commits \/ UNCHANGED vars
  BY <1>1, <1>7 DEF Updates, UpdateCapabilities, Reports, AckJob, Queues, QueueAck, Commits,
                    CommitBatch, CommitFails, vars
<1> QED BY <1>3, <1>4, <1>5, <1>6, <1>7, SteadyNext DEF Connects, Delivers

(* What the scheduler is about to send, it has just assigned.                *)
LEMMA SendIsAssigned ==
  ASSUME [Next]_vars, Undisturbed', Shape, Serving, cur'.stage = "send"
  PROVE  UNCHANGED cur \/ \E p \in hand : AssignJob(p)
<1>1. NoCur.stage # "send"
  BY NoCurIsCurrent
<1>2. CASE Request
  BY <1>2 DEF Request, EnqueueJob, Elapse, Cancel, Retry, schedVars
<1>3. CASE Scheduler
  BY <1>1, <1>3, NeverClosed DEF Scheduler, Snapshot, ClaimFor, ClaimFails, SendOk, SendFull, SchedReset
<1>4. CASE Connects \/ Delivers \/ Updates \/ Reports \/ Queues \/ Commits \/ UNCHANGED vars
  BY <1>4 DEF Connects, Connect, Delivers, Deliver, Updates, UpdateCapabilities, Reports, AckJob,
              Queues, QueueAck, Commits, CommitBatch, CommitFails, vars, schedVars
<1> QED BY <1>2, <1>3, <1>4, SteadyNext

(* Every stream that was opened stays open, and its worker registered on it. *)
LEMMA ServingStep ==
  ASSUME Shape, NoZombieRegistration, Serving, [Next]_vars, Undisturbed'
  PROVE  Serving'
<1>0. streams \in [Stream -> StreamInfo]
  BY DEF Shape, StreamsOK
<1>1. ASSUME NEW s \in Stream, NEW w \in Worker, NEW o \in Offers[w], Connect(w, s, o)
      PROVE  /\ streams'[s].task = "open" /\ streams'[s].rx /\ streams'[s].worker = w
             /\ workers'[w].tx = s
             /\ \A r \in Stream : streams[r].task = "open" => streams[r].worker # w
  BY <1>0, <1>1, RegisterKeeps, ShapeFacts DEF Connect, Shape, Attached
<1>2. ASSUME NEW s \in Stream, streams'[s].task = "open"
      PROVE  streams'[s].rx /\ workers'[streams'[s].worker].tx = s
  <2>1. CASE \E w \in Worker : \E o \in Offers[w] : Connect(w, s, o)
    BY <1>1, <2>1
  <2>2. CASE streams[s].task = "open" /\ streams'[s].worker = streams[s].worker
             /\ streams'[s].rx = streams[s].rx
    <3> DEFINE w == streams[s].worker
    <3>1. w \in Worker /\ streams[s].rx /\ workers[w].tx = s
      BY <2>2 DEF Serving, Shape, StreamsOK
    <3>2. \A r \in Stream : ~StreamEnds(r)
      BY DEF Serving, StreamEnds
    <3>3. \A r \in Stream : \A o \in Offers[w] : ~Connect(w, r, o)
      BY <1>1, <2>2, <3>1
    <3>4. workers'[w].tx = workers[w].tx
      BY <3>1, <3>2, <3>3, ChannelStays, FaultsCounted
    <3> QED BY <2>2, <3>1, <3>4
  <2> QED BY <1>2, <2>1, <2>2, StreamsStay
<1>3. \A s \in Stream : streams'[s].task \in {"none", "open"}
                        /\ (streams'[s].task = "none" => streams'[s].chan = {})
  BY <1>1, StreamsStay DEF Serving
<1>4. ASSUME cur'.stage = "send"
      PROVE  streams'[cur'.tx].task = "open"
  <2>1. CASE UNCHANGED cur
    <3>1. cur.tx \in Stream /\ streams[cur.tx].task = "open"
      BY <1>4, <2>1, ShapeFacts DEF Serving
    <3> QED BY <1>1, <2>1, <3>1, StreamsStay
  <2>2. ASSUME NEW p \in hand, AssignJob(p)
        PROVE  streams'[cur'.tx].task = "open"
    <3>1. CanAssign(target) /\ cur'.tx = workers[target].tx /\ target \in Worker /\ UNCHANGED streams
      BY <1>4, <2>2 DEF AssignJob, Shape, SchedOK
    <3>2. workers[target].tx \in Stream /\ streams[workers[target].tx].task \in {"open", "broken"}
      BY <3>1, EntryFacts DEF CanAssign, NoZombieRegistration, Shape
    <3> QED BY <3>1, <3>2 DEF Serving
  <2> QED BY <1>4, <2>1, <2>2, SendIsAssigned
<1> QED BY <1>2, <1>3, <1>4 DEF Serving

-----------------------------------------------------------------------------
(* The slots follow the work as long as neither changes ...                  *)
LEMMA SlotsStay ==
  ASSUME SlotsBacked, \A w \in Worker : workers'[w].active = workers[w].active,
         UNCHANGED assignments,
         \A j \in Job, w \in Worker : With(j, w)' <=> With(j, w)
  PROVE  SlotsBacked'
BY DEF SlotsBacked

(* ... or one job goes from both.                                            *)
LEMMA SlotFreed ==
  ASSUME RegistryInv, SlotsBacked, NEW j \in Job, JobCompleted(j),
         \A i \in Job, w \in Worker : With(i, w)' <=> With(i, w) /\ i # j
  PROVE  SlotsBacked'
<1>1. /\ \A v \in Worker : workers'[v].active = IF v = assignments[j]
                                                THEN workers[v].active \ {j}
                                                ELSE workers[v].active
      /\ \A i \in Job : assignments'[i] = IF i = j THEN NoWorker ELSE assignments[i]
  BY JobCompletedExact
<1>2. \A w \in Worker : w # NoWorker
  BY RegistryAssumption
<1>3. ASSUME NEW w \in Worker, NEW i \in Job
      PROVE  /\ i \in workers'[w].active <=> assignments'[i] = w
             /\ assignments'[i] = w <=> With(i, w)'
  <2>1. /\ i \in workers[w].active <=> assignments[i] = w
        /\ assignments[i] = w <=> With(i, w)
    BY DEF SlotsBacked
  <2>2. CASE i = j
    BY <1>1, <1>2, <2>1, <2>2
  <2>3. CASE i # j
    BY <1>1, <2>1, <2>3
  <2> QED BY <2>2, <2>3
<1> QED BY <1>3 DEF SlotsBacked

(* No slot is taken by a job that is in the hand of the scheduler.           *)
LEMMA AssignSlots ==
  ASSUME Shape, NoZombieRegistration, Placed, SlotsBacked, NEW p \in hand, AssignJob(p)
  PROVE  SlotsBacked'
<1> DEFINE j == p.job
<1>1. /\ j \in Job /\ target \in Worker /\ cur = NoCur /\ cur.stage = "none"
      /\ UNCHANGED <<streams, exec>>
  BY ShapeFacts, NoCurIsCurrent DEF AssignJob, BetweenJobs, Shape, SchedOK
<1>2. \A w \in Worker : ~With(j, w)
  <2>1. InHand(j) /\ Exclusive(j)
    BY <1>1 DEF InHand, Placed
  <2> QED BY <2>1, <1>1 DEF Exclusive, With, InChannel, OnWorker
<1>3. CASE CanAssign(target)
  <2>1. /\ Assign(target, j)
        /\ cur' = [stage |-> "send", push |-> p, tx |-> workers[target].tx]
    BY <1>3 DEF AssignJob
  <2>2. streams[workers[target].tx].worker = target
    BY <1>1, <1>3 DEF CanAssign, NoZombieRegistration
  <2>3. \A i \in Job, w \in Worker : With(i, w)' <=> With(i, w) \/ (i = j /\ w = target)
    BY <1>1, <2>1, <2>2 DEF With, InStream
  <2>4. /\ \A v \in Worker : workers'[v].active = IF v = target THEN workers[v].active \cup {j}
                                                                ELSE workers[v].active
        /\ \A i \in Job : assignments'[i] = IF i = j THEN target ELSE assignments[i]
    BY <1>1, <2>1, AssignKeeps, AssignExact DEF Shape
  <2> HIDE DEF j
  <2>5. ASSUME NEW w \in Worker, NEW i \in Job
        PROVE  /\ i \in workers'[w].active <=> assignments'[i] = w
               /\ assignments'[i] = w <=> With(i, w)'
    <3>1. /\ i \in workers[w].active <=> assignments[i] = w
          /\ assignments[i] = w <=> With(i, w)
      BY DEF SlotsBacked
    <3>2. CASE i = j
      BY <1>1, <1>2, <2>3, <2>4, <3>1, <3>2
    <3>3. CASE i # j
      BY <2>3, <2>4, <3>1, <3>3
    <3> QED BY <3>2, <3>3
  <2> QED BY <2>5 DEF SlotsBacked
<1>4. CASE ~CanAssign(target)
  <2>1. UNCHANGED <<workers, assignments>> /\ cur' = [stage |-> "reset", push |-> p]
    BY <1>4 DEF AssignJob, registryVars
  <2>2. \A i \in Job, w \in Worker : With(i, w)' <=> With(i, w)
    BY <1>1, <2>1 DEF With, InStream
  <2> QED BY <2>1, <2>2, SlotsStay
<1> QED BY <1>3, <1>4

(* A push that is sent stays with the worker of its stream.                  *)
LEMMA SendOkSlots ==
  ASSUME Shape, SlotsBacked, SendOk
  PROVE  SlotsBacked'
<1> DEFINE s == cur.tx
           p == cur.push
<1>1. /\ s \in Stream /\ p \in Push /\ cur.stage = "send" /\ cur'.stage = "none"
      /\ UNCHANGED <<workers, assignments, exec>>
      /\ streams' = [streams EXCEPT ![s].chan = @ \cup {p}]
  BY ShapeFacts, NoCurIsCurrent DEF SendOk, registryVars
<1>2. \A r \in Stream :
        /\ streams'[r].chan = IF r = s THEN streams[r].chan \cup {p} ELSE streams[r].chan
        /\ streams'[r].worker = streams[r].worker
  BY <1>1 DEF Shape, StreamsOK, StreamInfo
<1> HIDE DEF s, p
<1>3. \A r \in Stream, i \in Job : InStream(r, i)' <=> InStream(r, i) \/ (r = s /\ i = p.job)
  BY <1>2 DEF InStream
<1>4. \A i \in Job, w \in Worker : With(i, w)' <=> With(i, w)
  BY <1>1, <1>2, <1>3 DEF With, s, p
<1> QED BY <1>1, <1>4, SlotsStay

(* A full channel frees the slot of the job that was about to be sent.       *)
LEMMA SendFullSlots ==
  ASSUME Shape, Placed, SlotsBacked, SendFull
  PROVE  SlotsBacked'
<1> DEFINE j == cur.push.job
<1>1. /\ j \in Job /\ JobCompleted(j) /\ cur.stage = "send" /\ cur'.stage = "reset"
      /\ UNCHANGED <<streams, exec>>
  BY ShapeFacts DEF SendFull
<1>2. IsCurrent(j) /\ Exclusive(j)
  BY <1>1 DEF IsCurrent, Placed
<1>3. \A i \in Job, w \in Worker : With(i, w)' <=> With(i, w) /\ i # j
  BY <1>1, <1>2 DEF With, InStream, Exclusive, InChannel, OnWorker
<1> HIDE DEF j
<1> QED BY <1>1, <1>3, SlotFreed DEF Shape

(* A delivered push is still with its worker.                                *)
LEMMA DeliverSlots ==
  ASSUME Shape, Placed, Serving, SlotsBacked,
         NEW s \in Stream, NEW p \in streams[s].chan, Deliver(s, p)
  PROVE  SlotsBacked'
<1> DEFINE e == [worker |-> streams[s].worker, push |-> p, step |-> "run"]
<1>1. /\ UNCHANGED <<workers, assignments, cur>>
      /\ exec' = exec \cup {e} /\ e.worker = streams[s].worker /\ e.push = p
      /\ streams' = [streams EXCEPT ![s].chan = @ \ {p}]
  BY DEF Deliver, registryVars, schedVars
<1> HIDE DEF e
<1>2. \A r \in Stream :
        /\ streams'[r].chan = IF r = s THEN streams[r].chan \ {p} ELSE streams[r].chan
        /\ streams'[r].worker = streams[r].worker
  BY <1>1 DEF Shape, StreamsOK, StreamInfo
<1>3. \A q \in streams[s].chan : q.job = p.job => q = p
  BY PushFacts, OnePush DEF Placed, PushesLive
<1>4. \A r \in Stream, i \in Job : InStream(r, i)' <=> InStream(r, i) /\ (r # s \/ i # p.job)
  BY <1>2, <1>3 DEF InStream
<1>5. InStream(s, p.job)
  BY DEF InStream
<1>6. cur.stage = "send" => cur.tx \in Stream
  BY ShapeFacts
<1>7. \A i \in Job, w \in Worker : With(i, w)' <=> With(i, w)
  BY <1>1, <1>2, <1>4, <1>5, <1>6 DEF With
<1> QED BY <1>1, <1>7, SlotsStay

(* A reported execution is gone from its worker, and so is its slot.         *)
LEMMA AckJobSlots ==
  ASSUME Shape, Placed, SlotsBacked, NEW e \in exec, NEW o \in Outcome, AckJob(e, o)
  PROVE  SlotsBacked'
<1> DEFINE j == e.push.job
<1>1. /\ j \in Job /\ JobCompleted(j) /\ UNCHANGED <<cur, streams>> /\ exec' = exec \ {e}
  BY PushFacts DEF AckJob, schedVars
<1>2. OnWorker(j) /\ Exclusive(j) /\ Single(j)
  BY <1>1 DEF OnWorker, Placed
<1>3. ~IsCurrent(j) /\ ~InChannel(j) /\ \A f \in exec : f.push.job = j => f = e
  BY <1>2 DEF Exclusive, Single
<1>4. \A i \in Job, w \in Worker : With(i, w)' <=> With(i, w) /\ i # j
  BY <1>1, <1>3 DEF With, InStream, IsCurrent, InChannel
<1> HIDE DEF j
<1> QED BY <1>1, <1>4, SlotFreed DEF Shape

(* A worker that connects brings no work and has no slots.                   *)
LEMMA ConnectSlots ==
  ASSUME Shape, NoZombieRegistration, Serving, Roomy, SlotsBacked,
         NEW s \in Stream, NEW w \in Worker, NEW o \in Offers[w], Connect(w, s, o)
  PROVE  SlotsBacked'
<1>1. /\ \A v \in Worker : workers'[v].active = workers[v].active
      /\ UNCHANGED <<assignments, cur, exec>>
  <2>1. Register(w, s, o) /\ o \in Offer /\ UNCHANGED <<cur, exec>>
    BY ShapeFacts DEF Connect, schedVars
  <2>2. \A v \in Worker : workers'[v].active = workers[v].active
    BY <2>1, SteadyConnect, RegisterKeeps DEF Shape
  <2> QED BY <2>1, <2>2 DEF Register
<1>2. /\ streams[s].chan = {} /\ streams'[s].chan = {} /\ streams[s].task = "none"
      /\ \A r \in Stream : r # s => streams'[r] = streams[r]
  BY DEF Connect, Serving, Shape, StreamsOK
<1>3. cur.stage = "send" => cur.tx \in Stream /\ cur.tx # s
  BY <1>2, ShapeFacts DEF Serving
<1>4. \A i \in Job, v \in Worker : With(i, v)' <=> With(i, v)
  BY <1>1, <1>2, <1>3 DEF With, InStream
<1> QED BY <1>1, <1>4, SlotsStay

(* Whatever step is taken, slots and work agree.                             *)
LEMMA SlotsStep ==
  ASSUME Shape, NoZombieRegistration, Steady, [Next]_vars, Undisturbed'
  PROVE  SlotsBacked'
<1>0. Placed /\ Serving /\ Roomy /\ SlotsBacked
  BY DEF Steady
<1>1. CASE UNCHANGED <<workers, assignments, cur, streams, exec>>
  BY <1>0, <1>1, SlotsStay DEF With, InStream
<1>2. CASE Request \/ Snapshot \/ ClaimFails \/ Queues \/ Commits \/ UNCHANGED vars
  BY <1>1, <1>2 DEF Request, EnqueueJob, Elapse, Cancel, Retry, Snapshot, ClaimFails, Queues, QueueAck,
                    Commits, CommitBatch, CommitFails, vars, schedVars, registryVars
<1>3. ASSUME NEW w \in Worker, ClaimFor(w)
      PROVE  SlotsBacked'
  BY <1>1, <1>3 DEF ClaimFor, registryVars
<1>4. CASE SchedReset
  <2>1. /\ UNCHANGED <<workers, assignments, streams, exec>>
        /\ cur.stage = "reset" /\ cur'.stage = "none"
    BY <1>4, NoCurIsCurrent DEF SchedReset, registryVars
  <2> QED BY <1>0, <2>1, SlotsStay DEF With, InStream
<1>5. CASE Scheduler
  BY <1>0, <1>2, <1>3, <1>4, <1>5, AssignSlots, SendOkSlots, SendFullSlots, NeverClosed DEF Scheduler
<1>6. CASE Connects
  BY <1>0, <1>6, ConnectSlots DEF Connects
<1>7. CASE Updates
  <2>1. PICK s \in Stream, w \in Worker : \E o \in Offers[w] :
          streams[s].worker = w /\ UpdateCapabilities(s, o)
    BY <1>7 DEF Updates
  <2>2. /\ \A v \in Worker : workers'[v].active = workers[v].active
        /\ UNCHANGED <<assignments, cur, streams, exec>>
    BY <2>1, UpdateWorkerCapabilitiesKeeps, ShapeFacts
       DEF UpdateCapabilities, UpdateWorkerCapabilities, Shape, schedVars
  <2> QED BY <1>0, <2>2, SlotsStay DEF With, InStream
<1>8. CASE Delivers
  BY <1>0, <1>8, DeliverSlots DEF Delivers
<1>9. CASE Reports
  BY <1>0, <1>9, AckJobSlots DEF Reports
<1> QED BY <1>2, <1>5, <1>6, <1>7, <1>8, <1>9, SteadyNext, <1>0

-----------------------------------------------------------------------------
(* The registry methods that are left.                                       *)
SteadyMethod ==
  \/ UNCHANGED registryVars
  \/ Connects
  \/ \E w \in Worker : \E o \in Offers[w] : UpdateWorkerCapabilities(w, o)
  \/ \E w \in Worker, j \in Job : CanAssign(w) /\ Assign(w, j)
  \/ \E j \in Job : JobCompleted(j)

LEMMA SteadyRegistry ==
  ASSUME Shape, Serving, [Next]_vars, Undisturbed'
  PROVE  SteadyMethod
<1>1. CASE Request \/ Delivers \/ Queues \/ Commits \/ UNCHANGED vars
  BY <1>1 DEF Request, EnqueueJob, Elapse, Cancel, Retry, Delivers, Deliver, Queues, QueueAck,
              Commits, CommitBatch, CommitFails, vars, SteadyMethod
<1>2. ASSUME NEW p \in hand, AssignJob(p)
      PROVE  SteadyMethod
  <2>1. p.job \in Job /\ target \in Worker
    BY <1>2, ShapeFacts DEF Shape, SchedOK
  <2> QED BY <1>2, <2>1 DEF AssignJob, SteadyMethod
<1>3. CASE SendFull
  BY <1>3, ShapeFacts DEF SendFull, SteadyMethod
<1>4. CASE Scheduler
  BY <1>2, <1>3, <1>4, NeverClosed DEF Scheduler, Snapshot, ClaimFor, ClaimFails, SendOk, SchedReset,
                                       SteadyMethod
<1>5. CASE Connects
  BY <1>5 DEF SteadyMethod
<1>6. CASE Updates
  BY <1>6 DEF Updates, UpdateCapabilities, SteadyMethod
<1>7. CASE Reports
  BY <1>7, ShapeFacts DEF Reports, AckJob, SteadyMethod
<1> QED BY <1>1, <1>4, <1>5, <1>6, <1>7, SteadyNext

(* An assignment takes room that was announced, nothing else takes any.      *)
LEMMA RoomyStep ==
  ASSUME Shape, NoZombieRegistration, Serving, Roomy, [Next]_vars, Undisturbed'
  PROVE  Roomy'
<1> SUFFICES ASSUME NEW w \in Worker
             PROVE  /\ ~Registered(w)' => workers'[w].active = {}
                    /\ Registered(w)' => workers'[w].offer \in Offers[w]
                    /\ workers'[w].active # {} =>
                         \E o \in Offers[w] : Cardinality(workers'[w].active) <= o.concurrency
  BY DEF Roomy
<1>1. /\ ~Registered(w) => workers[w].active = {}
      /\ Registered(w) => workers[w].offer \in Offers[w]
      /\ workers[w].active # {} => \E o \in Offers[w] : Cardinality(workers[w].active) <= o.concurrency
  BY DEF Roomy
<1>2. /\ RegistryInv /\ IsFiniteSet(workers[w].active) /\ Offers[w] \subseteq Offer
      /\ Cardinality(workers[w].active) \in Nat
      /\ \A o \in Offers[w] : o.concurrency \in Int
  <2>1. RegistryInv /\ IsFiniteSet(workers[w].active) /\ Offers[w] \subseteq Offer
    BY ShapeFacts, EntryFacts DEF Shape
  <2>2. \A o \in Offers[w] : o.concurrency \in Int
    BY <2>1 DEF Offer
  <2> QED BY <2>1, <2>2, FS_CardinalityType
<1>3. CASE UNCHANGED registryVars
  BY <1>1, <1>3 DEF registryVars, Registered
<1>4. CASE Connects
  <2>1. PICK s \in Stream, v \in Worker : \E o \in Offers[v] : Connect(v, s, o)
    BY <1>4 DEF Connects
  <2>2. PICK o \in Offers[v] : Connect(v, s, o)
    BY <2>1
  <2>3. o \in Offer /\ Register(v, s, o) /\ s # NoStream
    BY <2>2, ShapeFacts DEF Connect, Stream, NoStream
  <2>4. /\ workers'[w].active = IF w = v THEN {} ELSE workers[w].active
        /\ workers'[w].tx = IF w = v THEN s ELSE workers[w].tx
        /\ workers'[w].offer = IF w = v THEN o ELSE workers[w].offer
    BY <1>2, <2>3, RegisterKeeps, RegisterExact
  <2> QED BY <1>1, <2>3, <2>4 DEF Registered
<1>5. CASE \E v \in Worker : \E o \in Offers[v] : UpdateWorkerCapabilities(v, o)
  <2>1. PICK v \in Worker : \E o \in Offers[v] : UpdateWorkerCapabilities(v, o)
    BY <1>5
  <2>2. PICK o \in Offers[v] : UpdateWorkerCapabilities(v, o)
    BY <2>1
  <2>3. o \in Offer
    BY <2>2, ShapeFacts
  <2>4. /\ workers'[w].active = workers[w].active /\ workers'[w].tx = workers[w].tx
        /\ workers'[w].offer = workers[w].offer \/ (w = v /\ workers'[w].offer = o)
    BY <1>2, <2>2, <2>3, UpdateWorkerCapabilitiesKeeps, UpdateExact
  <2> QED BY <1>1, <2>4 DEF Registered
<1>6. ASSUME NEW v \in Worker, NEW j \in Job, CanAssign(v), Assign(v, j)
      PROVE  /\ ~Registered(w)' => workers'[w].active = {}
             /\ Registered(w)' => workers'[w].offer \in Offers[w]
             /\ workers'[w].active # {} =>
                  \E o \in Offers[w] : Cardinality(workers'[w].active) <= o.concurrency
  <2>1. /\ workers'[w].active = IF w = v THEN workers[w].active \cup {j} ELSE workers[w].active
        /\ workers'[w].tx = workers[w].tx /\ workers'[w].offer = workers[w].offer
    BY <1>2, <1>6, AssignKeeps, AssignExact
  <2>2. CASE w = v
    <3>1. Registered(w) /\ workers[w].offer.concurrency - Cardinality(workers[w].active) > 0
      BY <1>6, <2>2 DEF CanAssign, Available
    <3> DEFINE A == workers[w].active
               B == A \cup {j}
    <3>2. IsFiniteSet(B) /\ Cardinality(B) = IF j \in A THEN Cardinality(A) ELSE Cardinality(A) + 1
      <4>1. IsFiniteSet(A)
        BY <1>2
      <4> HIDE DEF A
      <4> QED BY <4>1, FS_AddElement
    <3>3. Cardinality(B) \in Nat /\ Cardinality(B) <= Cardinality(A) + 1
      <4>1. Cardinality(A) \in Nat
        BY <1>2
      <4> HIDE DEF A, B
      <4> QED BY <3>2, <4>1
    <3>4. workers[w].offer \in Offers[w] /\ workers[w].offer.concurrency \in Int
      BY <1>1, <1>2, <3>1
    <3>5. Cardinality(workers'[w].active) <= workers[w].offer.concurrency
      BY <1>2, <2>1, <2>2, <3>1, <3>3, <3>4
    <3> QED BY <2>1, <3>1, <3>4, <3>5 DEF Registered
  <2>3. CASE w # v
    BY <1>1, <2>1, <2>3 DEF Registered
  <2> QED BY <2>2, <2>3
<1>7. ASSUME NEW j \in Job, JobCompleted(j)
      PROVE  /\ ~Registered(w)' => workers'[w].active = {}
             /\ Registered(w)' => workers'[w].offer \in Offers[w]
             /\ workers'[w].active # {} =>
                  \E o \in Offers[w] : Cardinality(workers'[w].active) <= o.concurrency
  <2>1. /\ workers'[w].active \subseteq workers[w].active
        /\ workers'[w].tx = workers[w].tx /\ workers'[w].offer = workers[w].offer
    BY <1>2, <1>7, JobCompletedKeeps, JobCompletedExact
  <2>2. Cardinality(workers'[w].active) <= Cardinality(workers[w].active)
        /\ Cardinality(workers'[w].active) \in Nat
    BY <1>2, <2>1, FS_Subset, FS_CardinalityType
  <2>3. ASSUME workers'[w].active # {}
        PROVE  \E o \in Offers[w] : Cardinality(workers'[w].active) <= o.concurrency
    <3>1. PICK o \in Offers[w] : Cardinality(workers[w].active) <= o.concurrency
      BY <1>1, <2>1, <2>3
    <3> QED BY <1>2, <2>2, <3>1
  <2> QED BY <1>1, <2>1, <2>3 DEF Registered
<1> QED BY <1>3, <1>4, <1>5, <1>6, <1>7, SteadyRegistry DEF SteadyMethod

(* Without a failed call, no execution is about to report a second time.     *)
LEMMA RunsStep ==
  ASSUME Shape, Serving, Runs, [Next]_vars, Undisturbed'
  PROVE  Runs'
<1>1. CASE exec' \subseteq exec
  BY <1>1 DEF Runs
<1>2. CASE Delivers
  BY <1>2 DEF Delivers, Deliver, Runs
<1>3. CASE Request \/ Scheduler \/ Connects \/ Updates \/ Reports \/ Queues \/ Commits \/ UNCHANGED vars
  BY <1>1, <1>3, NeverClosed
     DEF Request, EnqueueJob, Elapse, Cancel, Retry, Scheduler, Snapshot, ClaimFor, ClaimFails,
         AssignJob, SendOk, SendFull, SchedReset, Connects, Connect, Updates, UpdateCapabilities,
         Reports, AckJob, Queues, Commits, CommitBatch, CommitFails, vars
<1> QED BY <1>2, <1>3, SteadyNext

-----------------------------------------------------------------------------
(* The invariant holds up to the first broken stream, lost call or restart.  *)
SteadyInv == IInv /\ (Undisturbed => Steady)

LEMMA SteadyInit == Init => SteadyInv
<1> SUFFICES ASSUME Init PROVE SteadyInv
  OBVIOUS
<1>1. IInv
  BY ShapeInit DEF Init, StoreInit, RegistryInit, IInv, RunningIsKept, Running, NoZombieRegistration,
                   Registered, Absent
<1>2. /\ cur.stage = "none" /\ hand = {} /\ exec = {} /\ calls = {} /\ lost = {}
      /\ acks = <<>> /\ DOMAIN acks = {}
      /\ \A s \in Stream : streams[s].task = "none" /\ streams[s].chan = {}
  BY NoCurIsCurrent DEF Init
<1>3. \A w \in Worker : ~Registered(w) /\ workers[w].active = {}
  BY AbsentEntry DEF Init, RegistryInit, Registered
<1>4. Placed
  <2>1. \A j : ~Somewhere(j) /\ Single(j)
    BY <1>2 DEF Somewhere, Single, InHand, IsCurrent, InChannel, InStream, OnWorker, InAckCall, InAckQueue
  <2> QED BY <1>2, <2>1, NowhereIsFree DEF Placed, PushesLive
<1>5. Serving /\ Roomy /\ Runs
  BY <1>2, <1>3 DEF Serving, Roomy, Runs
<1>6. SlotsBacked
  BY <1>2, <1>3, RegistryAssumption DEF SlotsBacked, With, InStream, Init, RegistryInit
<1> QED BY <1>1, <1>4, <1>5, <1>6 DEF SteadyInv, Steady

LEMMA SteadyStep ==
  ASSUME SteadyInv, [Next]_vars
  PROVE  SteadyInv'
<1>1. IInv'
  BY ShapeStep, KeptStep, RegistrationStep DEF SteadyInv, IInv
<1>2. ASSUME Undisturbed'
      PROVE  Steady'
  <2>1. Shape /\ NoZombieRegistration /\ Steady
    BY <1>2, FaultsCounted DEF SteadyInv, IInv
  <2>2. Serving /\ Roomy /\ Runs
    BY <2>1 DEF Steady
  <2> QED BY <1>2, <2>1, <2>2, PlacedStep, ServingStep, SlotsStep, RoomyStep, RunsStep DEF Steady
<1> QED BY <1>1, <1>2 DEF SteadyInv

LEMMA StaysSteady == Spec => []SteadyInv
<1>1. SteadyInv /\ [Next]_vars => SteadyInv'
  BY SteadyStep
<1> QED BY <1>1, SteadyInit, PTL DEF Spec

-----------------------------------------------------------------------------
(* The slots of a registered worker, in the terms of the work it has.        *)
LEMMA SlotIsWork ==
  ASSUME Shape, NoZombieRegistration, Serving, SlotsBacked,
         NEW w \in Worker, Registered(w), NEW j \in Job
  PROVE  j \in workers[w].active <=>
           \/ \E e \in exec : e.worker = w /\ e.push.job = j
           \/ InStream(workers[w].tx, j)
           \/ cur.stage = "send" /\ cur.tx = workers[w].tx /\ cur.push.job = j
<1>1. workers[w].tx \in Stream /\ streams[workers[w].tx].worker = w
  BY EntryFacts DEF Shape, NoZombieRegistration
<1>2. \A s \in Stream : streams[s].worker = w /\ streams[s].task = "open" => s = workers[w].tx
  BY DEF Serving
<1>3. \A s \in Stream : InStream(s, j) => streams[s].task = "open"
  BY DEF Serving, InStream
<1>4. cur.stage = "send" => cur.tx \in Stream /\ streams[cur.tx].task = "open"
  BY ShapeFacts DEF Serving
<1>5. j \in workers[w].active <=> With(j, w)
  BY DEF SlotsBacked
<1> QED BY <1>1, <1>2, <1>3, <1>4, <1>5 DEF With

(* Until a stream breaks, a call is lost or the server restarts, the slots   *)
(* of a worker are the jobs sent to it or running on it.                     *)
THEOREM SlotsAreWork == Spec => [](Undisturbed => SlotsMatchWork)
<1>1. ASSUME SteadyInv, Undisturbed
      PROVE  SlotsMatchWork
  <2> SUFFICES ASSUME NEW w \in Worker, Registered(w)
               PROVE  workers[w].active =
                        {e.push.job : e \in {x \in exec : x.worker = w}}
                        \cup {p.job : p \in streams[workers[w].tx].chan}
                        \cup (IF cur.stage = "send" /\ cur.tx = workers[w].tx
                              THEN {cur.push.job} ELSE {})
    BY DEF SlotsMatchWork
  <2>1. Shape /\ NoZombieRegistration /\ Serving /\ SlotsBacked
    BY <1>1 DEF SteadyInv, IInv, Steady
  <2>2. workers[w].active \subseteq Job /\ workers[w].tx \in Stream
    BY <2>1, EntryFacts DEF Shape
  <2>3. /\ \A e \in exec : e.push.job \in Job
        /\ \A p \in streams[workers[w].tx].chan : p.job \in Job
        /\ cur.stage = "send" => cur.push.job \in Job
    BY <2>1, <2>2, PushFacts, ShapeFacts
  <2>4. \A j \in Job : j \in workers[w].active <=>
           \/ \E e \in exec : e.worker = w /\ e.push.job = j
           \/ InStream(workers[w].tx, j)
           \/ cur.stage = "send" /\ cur.tx = workers[w].tx /\ cur.push.job = j
    BY <2>1, SlotIsWork
  <2> QED BY <2>2, <2>3, <2>4 DEF InStream
<1> QED BY <1>1, StaysSteady, PTL

(* Until then no worker runs more jobs than the largest concurrency it may   *)
(* announce: each of them has a slot of its own.                             *)
THEOREM ConcurrencyBounded == Spec => [](Undisturbed => ConcurrencyRespected)
<1>1. ASSUME SteadyInv, Undisturbed
      PROVE  ConcurrencyRespected
  <2> DEFINE work(w) == {e \in exec : e.worker = w /\ e.step = "run"}
  <2> SUFFICES ASSUME NEW w \in Worker, work(w) # {}
               PROVE  \E o \in Offers[w] : Cardinality(work(w)) <= o.concurrency
    BY DEF ConcurrencyRespected
  <2>1. Shape /\ Placed /\ SlotsBacked /\ Roomy
    BY <1>1 DEF SteadyInv, IInv, Steady
  <2> DEFINE T == workers[w].active
             W == work(w)
             f == [e \in W |-> e.push.job]
  <2>2. \A e \in W : e.push.job \in T
    BY <2>1, PushFacts DEF SlotsBacked, With
  <2>3. \A e, g \in W : e.push.job = g.push.job => e = g
    BY <2>1, PushFacts DEF Placed, Single
  <2>4. f \in Injection(W, T)
    BY <2>2, <2>3 DEF Injection, IsInjective
  <2>5. IsFiniteSet(T) /\ T # {}
    BY <2>1, <2>2, EntryFacts DEF Shape
  <2>6. PICK o \in Offers[w] : Cardinality(T) <= o.concurrency
    BY <2>1, <2>5 DEF Roomy
  <2>7. o.concurrency \in Int
    BY <2>1, ShapeFacts DEF Offer
  <2> HIDE DEF f, W, T
  <2>8. IsFiniteSet(W) /\ Cardinality(W) <= Cardinality(T)
    BY <2>4, <2>5, FS_Injection
  <2>9. Cardinality(W) \in Nat /\ Cardinality(T) \in Nat
    BY <2>5, <2>8, FS_CardinalityType
  <2>10. Cardinality(W) <= o.concurrency
    BY <2>6, <2>7, <2>8, <2>9
  <2> QED BY <2>10 DEF W
<1> QED BY <1>1, StaysSteady, PTL

-----------------------------------------------------------------------------
(* A set whose elements are all one counts as one, or none.                  *)
LEMMA CountOne ==
  ASSUME NEW S, \A x, y \in S : x = y
  PROVE  Cardinality(S) = IF S = {} THEN 0 ELSE 1
<1>1. CASE S = {}
  BY <1>1, FS_EmptySet
<1>2. CASE S # {}
  <2>1. PICK x \in S : TRUE
    BY <1>2
  <2>2. S = {x}
    BY <2>1
  <2> QED BY <1>2, <2>2, FS_Singleton
<1> QED BY <1>1, <1>2

(* The copies of a job, counted: one if it is somewhere, none otherwise.     *)
LEMMA CountCopies ==
  ASSUME Shape, Placed, NEW j \in Job
  PROVE  Copies(j) = IF Somewhere(j) THEN 1 ELSE 0
<1> DEFINE H == {p \in hand : p.job = j}
           S == {s \in Stream : \E p \in streams[s].chan : p.job = j}
           E == {e \in exec : e.push.job = j}
           C == {c \in calls : c.exec.push.job = j}
           A == {i \in DOMAIN acks : acks[i].job = j}
<1>0. Exclusive(j) /\ Single(j)
  BY DEF Placed
<1>1. \A p, q \in H : p = q
  BY PushFacts, OnePush DEF Placed, PushesLive
<1>2. \A s, t \in S : s = t
  BY <1>0 DEF Single, InStream
<1>3. \A e, g \in E : e = g
  BY <1>0 DEF Single
<1>4. \A c, d \in C : c = d
  BY <1>0 DEF Single
<1>5. \A i, k \in A : i = k
  BY <1>0 DEF Single
<1>6. /\ InHand(j) <=> H # {}
      /\ InChannel(j) <=> S # {}
      /\ OnWorker(j) <=> E # {}
      /\ InAckCall(j) <=> C # {}
      /\ InAckQueue(j) <=> A # {}
  BY DEF InHand, InChannel, InStream, OnWorker, InAckCall, InAckQueue
<1>7. Copies(j) = Cardinality(H) + (IF IsCurrent(j) THEN 1 ELSE 0) + Cardinality(S)
                  + Cardinality(E) + Cardinality(C) + Cardinality(A)
  BY DEF Copies
<1> HIDE DEF H, S, E, C, A
<1>8. /\ Cardinality(H) = IF InHand(j) THEN 1 ELSE 0
      /\ Cardinality(S) = IF InChannel(j) THEN 1 ELSE 0
      /\ Cardinality(E) = IF OnWorker(j) THEN 1 ELSE 0
      /\ Cardinality(C) = IF InAckCall(j) THEN 1 ELSE 0
      /\ Cardinality(A) = IF InAckQueue(j) THEN 1 ELSE 0
  BY <1>1, <1>2, <1>3, <1>4, <1>5, <1>6, CountOne
<1> QED BY <1>0, <1>7, <1>8 DEF Exclusive, Somewhere

(* Until a stream breaks, a call is lost or the server restarts, a running   *)
(* job exists once, as the push of the attempt its row is at, and no other   *)
(* job is under way.                                                         *)
THEOREM HandedOutOnce == Spec => [](Undisturbed => ExactlyOneCopy)
<1>1. ASSUME SteadyInv, Undisturbed
      PROVE  ExactlyOneCopy
  <2>1. Shape /\ RunningIsKept /\ Placed /\ Serving /\ SlotsBacked
    BY <1>1 DEF SteadyInv, IInv, Steady
  <2>2. ASSUME NEW j \in Job, Running(j), j \notin lost
        PROVE  Somewhere(j)
    <3>1. ~InCleanUp(j)
      BY <2>1 DEF InCleanUp, Serving, Shape, StreamsOK
    <3>2. HoldsSlot(j) => Somewhere(j)
      BY <2>1 DEF HoldsSlot, SlotsBacked, With, Somewhere, OnWorker, InChannel, IsCurrent
    <3>3. cur.stage = "reset" /\ cur.push.job = j => IsCurrent(j)
      BY DEF IsCurrent
    <3>4. Kept(j)
      BY <2>1, <2>2 DEF RunningIsKept
    <3> QED BY <3>1, <3>2, <3>3, <3>4 DEF Kept, Somewhere
  <2>3. \A j \in Job : Somewhere(j) <=> Running(j) /\ j \notin lost
    BY <2>1, <2>2, PlacedRuns DEF Placed
  <2>4. \A j \in Job : Copies(j) = IF Running(j) /\ j \notin lost THEN 1 ELSE 0
    BY <2>1, <2>3, CountCopies
  <2>5. \A p \in Pushes : p.attempt = jobs[p.job].attempt
    <3> SUFFICES ASSUME NEW p \in Pushes PROVE Live(p)
      BY DEF Live
    <3>1. \/ p \in hand
          \/ cur.stage # "none" /\ p = cur.push
          \/ \E s \in Stream : p \in streams[s].chan
          \/ \E e \in exec : p = e.push
          \/ \E c \in calls : p = c.exec.push
      BY DEF Pushes
    <3>2. PushesLive
      BY <2>1 DEF Placed
    <3> QED BY <3>1, <3>2 DEF PushesLive
  <2> QED BY <2>4, <2>5 DEF ExactlyOneCopy
<1> QED BY <1>1, StaysSteady, PTL

-----------------------------------------------------------------------------
(* A row that does not exist yet has had no attempt.                         *)
Fresh == \A j \in Job : jobs[j].status = "ABSENT" => jobs[j].attempt = 0

LEMMA FreshStep ==
  ASSUME StoreInv, Fresh, [StoreNext]_storeVars
  PROVE  Fresh'
<1> SUFFICES ASSUME NEW i \in Job, jobs'[i].status = "ABSENT"
             PROVE  jobs'[i].attempt = 0
  BY DEF Fresh
<1>0. jobs[i] \in Row /\ (jobs[i].status = "ABSENT" => jobs[i].attempt = 0)
  BY RowFacts DEF Fresh
<1>1. CASE jobs'[i] = jobs[i]
  BY <1>0, <1>1
<1>2. ASSUME NEW j \in Job, InsertJob(j) \/ BecomeDue(j) \/ CancelJob(j) \/ RetryJob(j)
      PROVE  jobs'[i] = jobs[i]
  BY <1>0, <1>2 DEF InsertJob, BecomeDue, CancelJob, RetryJob, StoreInv, StoreTypeOK, Row
<1>3. ASSUME NEW S \in SUBSET Job, ClaimAndFetchJobs(S)
      PROVE  jobs'[i] = jobs[i]
  BY <1>0, <1>3, DerivedRows DEF ClaimAndFetchJobs
<1>4. ASSUME NEW batch, UpdateJobResults(batch)
      PROVE  jobs'[i] = jobs[i]
  <2>1. MaxAttempts[i] \in Nat
    BY RowFacts
  <2> QED BY <1>0, <1>4, <2>1, AcknowledgedRow DEF UpdateJobResults
<1>5. ASSUME NEW j \in Job, ResetStaleJob(j)
      PROVE  jobs'[i] = jobs[i]
  BY <1>0, <1>5, DerivedRows DEF ResetStaleJob, StoreInv, StoreTypeOK
<1>6. ASSUME NEW S \in SUBSET Job, RecoverStaleJobs(S)
      PROVE  jobs'[i] = jobs[i]
  <2>1. [jobs[i] EXCEPT !.status = "DEAD"].status = "DEAD"
    BY <1>0 DEF Row
  <2> QED BY <1>0, <1>6, <2>1, DerivedRows DEF RecoverStaleJobs
<1>7. CASE UNCHANGED storeVars
  BY <1>1, <1>7 DEF storeVars
<1> QED BY <1>1, <1>2, <1>3, <1>4, <1>5, <1>6, <1>7 DEF StoreNext

-----------------------------------------------------------------------------
(* What may happen to a row, in the terms of the table.                      *)
RowStep(i) ==
  LET old == jobs[i]
      new == jobs'[i]
      becomes(from, to) == old.status = from /\ new.status = to
      keeps == new.attempt = old.attempt /\ resets'[i] = resets[i]
  IN  \/ becomes("ABSENT", "PENDING") /\ keeps
      \/ becomes("PENDING", "CANCELLED") /\ keeps
      \/ becomes("RUNNING", "SUCCESS") /\ keeps
      \/ becomes("RUNNING", "DEAD") /\ keeps
      \/ becomes("RUNNING", "PENDING") /\ keeps /\ old.attempt < MaxAttempts[i]
      \/ /\ becomes("PENDING", "RUNNING") /\ new.attempt = old.attempt + 1
         /\ resets'[i] = resets[i] /\ old.attempt < MaxAttempts[i] + resets[i]
      \/ /\ becomes("RUNNING", "PENDING") /\ new.attempt = old.attempt
         /\ resets'[i] = resets[i] + 1
      \/ becomes("DEAD", "PENDING") /\ new.attempt = 0 /\ resets'[i] = 0
      \/ new.status = old.status /\ keeps

(* It is a step of the job lifecycle.                                        *)
LEMMA RowStepIsLife ==
  ASSUME NEW i \in Job, RowStep(i)
  PROVE  Life!Step(i) \/ Life!Rests(i)
BY DEF RowStep, Life!Step, Life!Rests, Life!Moves, Life!Keeps, Life!Enqueue, Life!Start,
       Life!Succeed, Life!Fail, Life!Die, Life!Cancel, Life!TakeBack, Life!Revive

(* Each row takes such a step: a result finds the attempt it is about still  *)
(* running, a reset likewise or nothing to do.                               *)
LEMMA EveryRowSteps ==
  ASSUME SteadyInv, Fresh, [Next]_vars, Undisturbed', NEW i \in Job
  PROVE  RowStep(i)
<1>0. /\ Shape /\ StoreInv /\ Placed /\ Serving
      /\ jobs[i] \in Row /\ jobs[i].attempt \in Nat /\ resets[i] \in Nat
      /\ MaxAttempts[i] \in Nat /\ WithinBudget(i)
      /\ (jobs[i].status = "ABSENT" => jobs[i].attempt = 0)
  BY FaultsCounted, RowFacts DEF SteadyInv, IInv, Steady, Shape, Fresh
<1>1. CASE jobs'[i] = jobs[i] /\ resets'[i] = resets[i]
  BY <1>1 DEF RowStep
<1>2. CASE Request
  <2>1. ASSUME NEW j \in Job, j # i, InsertJob(j) \/ BecomeDue(j) \/ CancelJob(j) \/ RetryJob(j)
        PROVE  RowStep(i)
    BY <1>0, <1>1, <2>1 DEF InsertJob, BecomeDue, CancelJob, RetryJob, StoreInv, StoreTypeOK
  <2>2. CASE InsertJob(i)
    BY <1>0, <2>2 DEF InsertJob, StoreInv, StoreTypeOK, RowStep
  <2>3. CASE BecomeDue(i)
    BY <1>0, <2>3 DEF BecomeDue, StoreInv, StoreTypeOK, Row, RowStep
  <2>4. CASE CancelJob(i)
    BY <1>0, <2>4 DEF CancelJob, StoreInv, StoreTypeOK, Row, RowStep
  <2>5. CASE RetryJob(i)
    BY <1>0, <2>5 DEF RetryJob, StoreInv, StoreTypeOK, RowStep
  <2> QED BY <1>2, <2>1, <2>2, <2>3, <2>4, <2>5 DEF Request, EnqueueJob, Elapse, Cancel, Retry
<1>3. ASSUME NEW w \in Worker, ClaimFor(w)
      PROVE  RowStep(i)
  <2>1. PICK S \in SUBSET Eligible(w) : ClaimAndFetchJobs(S)
    BY <1>3 DEF ClaimFor
  <2>2. CASE i \in S
    <3>1. /\ jobs[i].status = "PENDING" /\ jobs'[i] = Claimed(jobs[i]) /\ resets'[i] = resets[i]
      BY <2>1, <2>2 DEF ClaimAndFetchJobs, Claimable
    <3> QED BY <1>0, <3>1, DerivedRows DEF WithinBudget, RowStep
  <2>3. CASE i \notin S
    BY <1>1, <2>1, <2>3 DEF ClaimAndFetchJobs
  <2> QED BY <2>2, <2>3
<1>4. CASE SchedReset
  <2>1. ASSUME NEW j \in Job, ResetStaleJob(j)
        PROVE  RowStep(i)
    <3>1. CASE i = j /\ Running(i)
      <4>1. jobs'[i] = Requeued(jobs[i]) /\ resets'[i] = resets[i] + 1
        BY <1>0, <2>1, <3>1 DEF ResetStaleJob, StoreInv, StoreTypeOK
      <4> QED BY <1>0, <3>1, <4>1, DerivedRows DEF Running, RowStep
    <3>2. CASE ~(i = j /\ Running(i))
      BY <1>0, <1>1, <2>1, <3>2 DEF ResetStaleJob, StoreInv, StoreTypeOK
    <3> QED BY <3>1, <3>2
  <2> QED BY <1>0, <1>1, <1>4, <2>1, ShapeFacts DEF SchedReset, storeVars
<1>5. ASSUME NEW n \in 1..BatchMax, CommitBatch(n)
      PROVE  RowStep(i)
  <2> DEFINE batch == SubSeq(acks, 1, n)
  <2>1. n \in Nat \ {0} /\ n <= Len(acks) /\ UpdateJobResults(batch)
    BY <1>5, StoreAssumption DEF CommitBatch
  <2>2. /\ DOMAIN batch = 1..n /\ \A k \in 1..n : batch[k] = acks[k]
        /\ DOMAIN acks = 1..Len(acks) /\ Len(acks) \in Nat
    BY <1>0, <2>1, BatchOfAcks, PushFacts
  <2> HIDE DEF batch
  <2>3. CASE InBatch(batch, i)
    <3>1. InAckQueue(i)
      BY <2>1, <2>2, <2>3 DEF InBatch, InAckQueue
    <3>2. Running(i)
      BY <1>0, <3>1, PlacedRuns DEF Somewhere
    <3>3. /\ jobs'[i] = Acknowledged(jobs[i], MaxAttempts[i], LastOutcome(batch, i))
          /\ resets'[i] = resets[i]
      BY <2>1, <2>3, <3>2 DEF UpdateJobResults, Running
    <3> QED BY <1>0, <3>2, <3>3, AcknowledgedRow DEF Running, RowStep
  <2>4. CASE ~InBatch(batch, i)
    BY <1>1, <2>1, <2>4 DEF UpdateJobResults
  <2> QED BY <2>3, <2>4
<1>6. CASE Scheduler
  BY <1>0, <1>1, <1>3, <1>4, <1>6, NeverClosed
     DEF Scheduler, Snapshot, ClaimFails, AssignJob, SendOk, SendFull, storeVars
<1>7. CASE Connects \/ Delivers \/ Updates \/ Reports \/ Queues \/ Commits \/ UNCHANGED vars
  BY <1>1, <1>5, <1>7 DEF Connects, Connect, Delivers, Deliver, Updates, UpdateCapabilities, Reports,
                          AckJob, Queues, QueueAck, Commits, CommitFails, vars, storeVars
<1> QED BY <1>0, <1>2, <1>6, <1>7, SteadyNext

(* Until a stream breaks, a call is lost or the server restarts, the rows    *)
(* behave as the job lifecycle promises.                                     *)
THEOREM FollowsLifecycle == Spec /\ []Undisturbed => ImplementsLifecycle
<1>1. Init => Life!Init /\ Fresh
  BY DEF Init, StoreInit, Life!Init, Fresh
<1>2. SteadyInv /\ Fresh /\ [Next]_vars => Fresh'
  BY FreshStep, StoreStep DEF SteadyInv, IInv, Shape
<1>3. ASSUME SteadyInv, SteadyInv', Fresh, [Next]_vars, Undisturbed'
      PROVE  Life!Next
  <2>1. \A i \in Job : Life!Step(i) \/ Life!Rests(i)
    BY <1>3, EveryRowSteps, RowStepIsLife
  <2>2. StoreTypeOK'
    BY <1>3 DEF SteadyInv, IInv, Shape, StoreInv
  <2> QED BY <2>1, <2>2 DEF Life!Next, Life!Status, StoreTypeOK, Row, Status
<1> QED BY <1>1, <1>2, <1>3, StaysSteady, PTL DEF Spec, ImplementsLifecycle, Life!Spec

(* And a SUCCESS or CANCELLED row stays what it is.                          *)
THEOREM FinalUntilDisturbed == Spec /\ []Undisturbed => SettledIsFinal
<1>1. Init => Fresh
  BY DEF Init, StoreInit, Fresh
<1>2. SteadyInv /\ Fresh /\ [Next]_vars => Fresh'
  BY FreshStep, StoreStep DEF SteadyInv, IInv, Shape
<1>3. ASSUME SteadyInv, Fresh, [Next]_vars, Undisturbed'
      PROVE  \A j \in Job : jobs[j].status \in {"SUCCESS", "CANCELLED"} =>
                              jobs'[j].status = jobs[j].status
  BY <1>3, EveryRowSteps DEF RowStep
<1> QED BY <1>1, <1>2, <1>3, StaysSteady, PTL DEF Spec, SettledIsFinal
=============================================================================
