------------------------ MODULE Dispatch_proofs -------------------------
(***************************************************************************)
(* Proofs about the dispatcher: type correctness, the attempt budget, that *)
(* no running attempt slips away and that the registry holds no channel of *)
(* a stream task that has gone, for every number of jobs, workers, streams *)
(* and faults.  The storage and the registry are used through the lemmas   *)
(* of their own modules: a step of the dispatcher is a step of each.       *)
(***************************************************************************)
EXTENDS Dispatch, JobStore_proofs, Registry_proofs, SequenceTheorems

SchedOK ==
  /\ snap \in [Worker -> [limit : Nat, names : SUBSET Job]]
  /\ target \in Worker \cup {NoWorker}
  /\ hand \in SUBSET Push
  /\ cur \in Current
  /\ hand # {} => target \in Worker

StreamsOK ==
  /\ streams \in [Stream -> StreamInfo]
  /\ \A s \in Stream : streams[s].task # "none" => streams[s].worker \in Worker
  /\ \A s \in Stream : streams[s].task \in {"none", "open", "broken"} => streams[s].todo = {}

MessagesOK ==
  /\ exec \in SUBSET Execution
  /\ calls \in SUBSET Call
  /\ acks \in Seq(Ack)
  /\ lost \in SUBSET Job
  /\ used \in [Hazard -> Nat]

(* RunningIsTracked without the job about to be sent: it holds its slot, or   *)
(* whoever freed that slot in the meantime is responsible for it.             *)
Kept(j) ==
  InHand(j) \/ (cur.stage = "reset" /\ cur.push.job = j)
  \/ HoldsSlot(j) \/ InCleanUp(j) \/ InAckCall(j) \/ InAckQueue(j)

RunningIsKept == \A j \in Job : Running(j) => Kept(j) \/ j \in lost

Shape == StoreInv /\ RegistryInv /\ SchedOK /\ StreamsOK /\ MessagesOK

IInv == Shape /\ RunningIsKept /\ NoZombieRegistration

-----------------------------------------------------------------------------
(* What the shape says of the parts an action reads. *)
LEMMA ShapeFacts ==
  ASSUME Shape
  PROVE  /\ \A w \in Worker : Offers[w] \subseteq Offer
         /\ \A w \in Worker : snap[w].limit \in Nat /\ snap[w].names \subseteq Job
         /\ \A p \in hand : p \in Push /\ p.job \in Job
         /\ cur.stage = "send" => cur.push \in Push /\ cur.push.job \in Job /\ cur.tx \in Stream
         /\ cur.stage = "reset" => cur.push \in Push /\ cur.push.job \in Job
         /\ \A s \in Stream : streams[s] \in StreamInfo /\ streams[s].todo \subseteq Job
                              /\ streams[s].chan \subseteq Push
         /\ \A e \in exec : e \in Execution /\ e.worker \in Worker /\ e.push \in Push
                            /\ e.push.job \in Job
         /\ \A c \in calls : /\ c.exec \in Execution /\ c.exec.push.job \in Job
                             /\ c.outcome \in Outcome
<1>1. \A w \in Worker : Offers[w] \subseteq Offer
  BY DispatchAssumption
<1>2. \A w \in Worker : snap[w].limit \in Nat /\ snap[w].names \subseteq Job
  BY DEF Shape, SchedOK
<1>3. \A p \in hand : p \in Push /\ p.job \in Job
  BY DEF Shape, SchedOK, Push
<1>4. /\ cur.stage = "send" => cur.push \in Push /\ cur.push.job \in Job /\ cur.tx \in Stream
      /\ cur.stage = "reset" => cur.push \in Push /\ cur.push.job \in Job
  BY DEF Shape, SchedOK, Current, NoCur, Push
<1>5. \A s \in Stream : streams[s] \in StreamInfo /\ streams[s].todo \subseteq Job
                       /\ streams[s].chan \subseteq Push
  BY DEF Shape, StreamsOK, StreamInfo
<1>6. \A e \in exec : e \in Execution /\ e.worker \in Worker /\ e.push \in Push
                     /\ e.push.job \in Job
  BY DEF Shape, MessagesOK, Execution, Push
<1>7. \A c \in calls : /\ c.exec \in Execution /\ c.exec.push.job \in Job
                      /\ c.outcome \in Outcome
  BY DEF Shape, MessagesOK, Call, Execution, Push
<1> QED BY <1>1, <1>2, <1>3, <1>4, <1>5, <1>6, <1>7

(* A batch taken from the ack queue is a batch of acknowledgements, and what  *)
(* it leaves is a queue.                                                      *)
LEMMA BatchOfAcks ==
  ASSUME acks \in Seq(Ack), NEW n \in Nat \ {0}, n <= Len(acks)
  PROVE  /\ SubSeq(acks, 1, n) \in [1..n -> Ack]
         /\ \A i \in 1..n : SubSeq(acks, 1, n)[i] = acks[i]
         /\ SubSeq(acks, n + 1, Len(acks)) \in Seq(Ack)
         /\ Len(SubSeq(acks, n + 1, Len(acks))) = Len(acks) - n
         /\ \A i \in 1..(Len(acks) - n) :
              SubSeq(acks, n + 1, Len(acks))[i] = acks[n + i]
<1>1. /\ DOMAIN acks = 1..Len(acks) /\ Len(acks) \in Nat
      /\ \A i \in 1..Len(acks) : acks[i] \in Ack
  OBVIOUS
<1>2. SubSeq(acks, 1, n) \in Seq(Ack) /\ Len(SubSeq(acks, 1, n)) = n
      /\ \A i \in 1..n : SubSeq(acks, 1, n)[i] = acks[i]
  <2>1. \A i \in 1..n : acks[i] \in Ack
    BY <1>1
  <2>2. /\ SubSeq(acks, 1, n) \in Seq(Ack)
        /\ Len(SubSeq(acks, 1, n)) = IF 1 <= n THEN n - 1 + 1 ELSE 0
        /\ \A i \in 1..(n - 1 + 1) : SubSeq(acks, 1, n)[i] = acks[1 + i - 1]
    BY <2>1, SubSeqProperties
  <2> QED BY <2>2
<1>3. SubSeq(acks, 1, n) \in [1..n -> Ack]
  BY <1>2, LenProperties
<1>4. /\ SubSeq(acks, n + 1, Len(acks)) \in Seq(Ack)
      /\ Len(SubSeq(acks, n + 1, Len(acks))) = Len(acks) - n
      /\ \A i \in 1..(Len(acks) - n) :
           SubSeq(acks, n + 1, Len(acks))[i] = acks[n + i]
  <2> DEFINE L == Len(acks)
  <2>1. \A i \in (n + 1)..L : acks[i] \in Ack
    BY <1>1
  <2>2. L \in Nat /\ n <= L
    BY <1>1
  <2>3. /\ SubSeq(acks, n + 1, L) \in Seq(Ack)
        /\ Len(SubSeq(acks, n + 1, L)) = IF n + 1 <= L THEN L - (n + 1) + 1 ELSE 0
        /\ \A i \in 1..(L - (n + 1) + 1) :
             SubSeq(acks, n + 1, L)[i] = acks[(n + 1) + i - 1]
    BY <2>1, <2>2, SubSeqProperties
  <2> QED BY <2>2, <2>3
<1> QED BY <1>2, <1>3, <1>4

-----------------------------------------------------------------------------
(* Every step of the dispatcher is one storage operation or leaves the table. *)
LEMMA StoreStep ==
  ASSUME Shape, [Next]_vars
  PROVE  [StoreNext]_storeVars
<1>1. CASE UNCHANGED vars
  BY <1>1 DEF vars
<1>2. CASE Request
  BY <1>2 DEF Request, EnqueueJob, Elapse, Cancel, Retry, StoreNext
<1>3. CASE Scheduler
  <2>1. ASSUME NEW w \in Worker, ClaimFor(w)
        PROVE  StoreNext
    <3>1. PICK S \in SUBSET Eligible(w) : ClaimAndFetchJobs(S)
      BY <2>1 DEF ClaimFor
    <3>2. S \in SUBSET Job
      BY <3>1, ShapeFacts DEF Eligible
    <3> QED BY <3>1, <3>2 DEF StoreNext
  <2>2. CASE SchedReset
    BY <2>2, ShapeFacts DEF SchedReset, StoreNext
  <2> QED BY <1>3, <2>1, <2>2
          DEF Scheduler, Snapshot, ClaimFails, AssignJob, SendOk, SendFull, SendClosed
<1>4. CASE PollStream
  <2>1. ASSUME NEW s \in Stream, CleanUp(s)
        PROVE  StoreNext \/ UNCHANGED storeVars
    BY <2>1, ShapeFacts DEF CleanUp, StoreNext
  <2> QED BY <1>4, <2>1
          DEF PollStream, Connect, UpdateCapabilities, Deliver, Break, DropReceiver,
              StreamEnds, TaskDone
<1>5. CASE Acknowledge
  <2>1. ASSUME NEW n \in 1..BatchMax, CommitBatch(n)
        PROVE  StoreNext
    <3>1. n \in Nat \ {0} /\ n <= Len(acks) /\ acks \in Seq(Ack)
      BY <2>1, StoreAssumption DEF CommitBatch, Shape, MessagesOK
    <3>2. SubSeq(acks, 1, n) \in [1..n -> Ack]
      BY <3>1, BatchOfAcks
    <3> QED BY <2>1, <3>2 DEF CommitBatch, StoreNext
  <2> QED BY <1>5, <2>1 DEF Acknowledge, AckJob, QueueAck, AckAborted, AckDropped, CommitFails
<1>6. CASE CrashRestart
  BY <1>6 DEF CrashRestart, StoreNext
<1> QED BY <1>1, <1>2, <1>3, <1>4, <1>5, <1>6 DEF Next

(* A worker connects.                                                         *)
Connects == \E s \in Stream : \E w \in Worker : \E o \in Offers[w] : Connect(w, s, o)

(* Every step of the dispatcher is one registry method or leaves the registry,*)
(* and only a worker that connects is registered.                             *)
LEMMA RegistryMethod ==
  ASSUME Shape, [Next]_vars
  PROVE  OtherMethod \/ Connects \/ UNCHANGED registryVars
<1>1. CASE UNCHANGED vars
  BY <1>1 DEF vars
<1>2. CASE Request
  BY <1>2 DEF Request, EnqueueJob, Elapse, Cancel, Retry
<1>3. CASE Scheduler
  <2>1. ASSUME NEW p \in hand, AssignJob(p)
        PROVE  OtherMethod \/ UNCHANGED registryVars
    <3>1. p.job \in Job /\ target \in Worker
      BY <2>1, ShapeFacts DEF Shape, SchedOK
    <3> QED BY <2>1, <3>1 DEF AssignJob, OtherMethod
  <2>2. CASE SendFull \/ SendClosed
    BY <2>2, ShapeFacts DEF SendFull, SendClosed, OtherMethod
  <2> QED BY <1>3, <2>1, <2>2
          DEF Scheduler, Snapshot, ClaimFor, ClaimFails, SendOk, SchedReset
<1>4. CASE PollStream
  <2>1. ASSUME NEW s \in Stream, NEW w \in Worker, NEW o \in Offers[w],
               streams[s].worker = w, UpdateCapabilities(s, o)
        PROVE  OtherMethod
    BY <2>1, ShapeFacts DEF UpdateCapabilities, OtherMethod
  <2>2. ASSUME NEW s \in Stream, StreamEnds(s)
        PROVE  OtherMethod
    <3>1. streams[s].worker \in Worker
      BY <2>2 DEF StreamEnds, Shape, StreamsOK
    <3> QED BY <2>2, <3>1 DEF StreamEnds, OtherMethod
  <2> QED BY <1>4, <2>1, <2>2
          DEF PollStream, Connects, Deliver, Break, DropReceiver, CleanUp, TaskDone
<1>5. CASE Acknowledge
  <2>1. ASSUME NEW e \in exec, NEW o \in Outcome, AckJob(e, o)
        PROVE  OtherMethod
    BY <2>1, ShapeFacts DEF AckJob, OtherMethod
  <2> QED BY <1>5, <2>1 DEF Acknowledge, QueueAck, AckAborted, AckDropped, CommitBatch, CommitFails
<1>6. CASE CrashRestart
  BY <1>6 DEF CrashRestart, OtherMethod
<1> QED BY <1>1, <1>2, <1>3, <1>4, <1>5, <1>6 DEF Next

LEMMA RegistryStep ==
  ASSUME Shape, [Next]_vars
  PROVE  [RegistryNext]_registryVars
<1>1. CASE OtherMethod
  BY <1>1 DEF OtherMethod, RegistryNext
<1>2. CASE Connects
  BY <1>2, ShapeFacts DEF Connects, Connect, RegistryNext
<1> QED BY <1>1, <1>2, RegistryMethod

-----------------------------------------------------------------------------
(* A scheduler that is between two jobs has a well-formed state. *)
LEMMA NoCurIsCurrent == NoCur \in Current /\ NoCur.stage = "none"
BY DEF NoCur, Current

(* The scheduler's variables keep their types, and jobs in hand a target. *)
LEMMA SchedStep ==
  ASSUME Shape, [Next]_vars
  PROVE  SchedOK'
<1>0. SchedOK
  BY DEF Shape
<1>1. CASE UNCHANGED schedVars
  BY <1>0, <1>1 DEF SchedOK, schedVars
<1>2. CASE Snapshot
  <2>1. \A w \in Worker : CanAssign(w) =>
          [limit |-> Smaller(Available(w), ClaimBatch), names |-> workers[w].offer.names]
            \in [limit : Nat, names : SUBSET Job]
    <3> TAKE w \in Worker
    <3>1. Available(w) \in Int /\ workers[w].offer.names \in SUBSET Job
      BY EntryFacts DEF Shape, Offer
    <3>2. ClaimBatch \in Nat
      BY DispatchAssumption
    <3> QED BY <3>1, <3>2 DEF CanAssign, Smaller
  <2>2. NotServed \in [limit : Nat, names : SUBSET Job]
    BY DEF NotServed
  <2>3. snap' \in [Worker -> [limit : Nat, names : SUBSET Job]]
    BY <1>2, <2>1, <2>2 DEF Snapshot
  <2> QED BY <1>0, <1>2, <2>3 DEF Snapshot, SchedOK
<1>3. ASSUME NEW w \in Worker, ClaimFor(w)
      PROVE  SchedOK'
  <2>1. PICK S \in SUBSET Eligible(w) :
          /\ hand' = {Pushed(j) : j \in S}
          /\ target' = IF S = {} THEN NoWorker ELSE w
    BY <1>3 DEF ClaimFor
  <2>2. S \subseteq Job
    BY ShapeFacts DEF Eligible
  <2>3. \A j \in Job : Pushed(j) \in Push
    BY RowFacts DEF Pushed, Push, Shape
  <2>4. hand' \in SUBSET Push /\ (hand' # {} => target' \in Worker)
    BY <2>1, <2>2, <2>3
  <2>5. snap' \in [Worker -> [limit : Nat, names : SUBSET Job]]
    BY <1>0, <1>3 DEF ClaimFor, SchedOK, NotServed
  <2> QED BY <1>0, <1>3, <2>1, <2>4, <2>5 DEF ClaimFor, SchedOK
<1>4. CASE ClaimFails
  BY <1>0, <1>4 DEF ClaimFails, SchedOK, NotServed
<1>5. ASSUME NEW p \in hand, AssignJob(p)
      PROVE  SchedOK'
  <2>1. p \in Push /\ target \in Worker /\ hand \in SUBSET Push
    BY <1>0 DEF SchedOK
  <2>2. CanAssign(target) => workers[target].tx \in Stream
    BY <2>1, EntryFacts DEF Shape, CanAssign
  <2>3. cur' \in Current
    BY <1>5, <2>1, <2>2 DEF AssignJob, Current
  <2>4. hand' \in SUBSET Push /\ (hand' # {} => target' \in Worker)
    BY <1>5, <2>1 DEF AssignJob
  <2> QED BY <1>0, <1>5, <2>3, <2>4 DEF AssignJob, SchedOK
<1>6. CASE SendOk \/ SendClosed \/ SchedReset
  BY <1>0, <1>6, NoCurIsCurrent DEF SendOk, SendClosed, SchedReset, SchedOK
<1>7. CASE SendFull
  <2>1. cur' \in Current
    BY <1>7, ShapeFacts DEF SendFull, Current
  <2> QED BY <1>0, <1>7, <2>1 DEF SendFull, SchedOK
<1>8. CASE CrashRestart
  BY <1>8, NoCurIsCurrent DEF CrashRestart, SchedOK, NotServed
<1>9. CASE Request
  BY <1>1, <1>9 DEF Request, EnqueueJob, Elapse, Cancel, Retry
<1>10. CASE PollStream
  BY <1>1, <1>10 DEF PollStream, Connect, UpdateCapabilities, Deliver, Break, DropReceiver,
                     StreamEnds, CleanUp, TaskDone
<1>11. CASE Acknowledge
  BY <1>1, <1>11 DEF Acknowledge, AckJob, QueueAck, AckAborted, AckDropped, CommitBatch, CommitFails
<1>12. CASE UNCHANGED vars
  BY <1>1, <1>12 DEF vars
<1> QED BY <1>2, <1>3, <1>4, <1>5, <1>6, <1>7, <1>8, <1>9, <1>10, <1>11, <1>12
        DEF Next, Scheduler

-----------------------------------------------------------------------------
(* It is enough to look at the one stream a step changes. *)
LEMMA OneStream ==
  ASSUME StreamsOK, NEW s \in Stream, NEW st \in StreamInfo,
         streams' = [streams EXCEPT ![s] = st],
         st.task # "none" => st.worker \in Worker,
         st.task \in {"none", "open", "broken"} => st.todo = {}
  PROVE  StreamsOK'
BY DEF StreamsOK

(* The streams keep their type; a stream in use has a worker, and none has    *)
(* jobs to reset before its end.                                              *)
LEMMA StreamsStep ==
  ASSUME Shape, [Next]_vars
  PROVE  StreamsOK'
<1>0. StreamsOK
  BY DEF Shape
<1>1. CASE UNCHANGED streams
  BY <1>0, <1>1 DEF StreamsOK
<1>2. CASE SendOk
  <2> DEFINE st == streams[cur.tx]
             new == [st EXCEPT !.chan = @ \cup {cur.push}]
  <2>1. cur.tx \in Stream /\ cur.push \in Push
    BY <1>2, ShapeFacts DEF SendOk
  <2>2. st \in StreamInfo /\ (st.task # "none" => st.worker \in Worker)
        /\ (st.task \in {"none", "open", "broken"} => st.todo = {})
    BY <1>0, <2>1 DEF StreamsOK
  <2>3. /\ new \in StreamInfo /\ new.task = st.task /\ new.worker = st.worker
        /\ new.todo = st.todo
    BY <2>1, <2>2 DEF StreamInfo
  <2>4. streams' = [streams EXCEPT ![cur.tx] = new]
    BY <1>2 DEF SendOk
  <2> HIDE DEF new
  <2> QED BY <1>0, <2>1, <2>2, <2>3, <2>4, OneStream
<1>3. ASSUME NEW s \in Stream, NEW w \in Worker, NEW o \in Offers[w], Connect(w, s, o)
      PROVE  StreamsOK'
  <2> DEFINE new == [worker |-> w, task |-> "open", rx |-> TRUE, chan |-> {}, todo |-> {}]
  <2>1. new \in StreamInfo /\ new.worker \in Worker /\ new.todo = {}
    BY DEF StreamInfo
  <2>2. streams' = [streams EXCEPT ![s] = new]
    BY <1>3 DEF Connect
  <2> HIDE DEF new
  <2> QED BY <1>0, <2>1, <2>2, OneStream
<1>4. ASSUME NEW s \in Stream, NEW p \in streams[s].chan, Deliver(s, p)
      PROVE  StreamsOK'
  <2> DEFINE st == streams[s]
             new == [st EXCEPT !.chan = @ \ {p}]
  <2>1. st \in StreamInfo /\ (st.task # "none" => st.worker \in Worker)
        /\ (st.task \in {"none", "open", "broken"} => st.todo = {})
    BY <1>0 DEF StreamsOK
  <2>2. /\ new \in StreamInfo /\ new.task = st.task /\ new.worker = st.worker
        /\ new.todo = st.todo
    BY <2>1 DEF StreamInfo
  <2>3. streams' = [streams EXCEPT ![s] = new]
    BY <1>4 DEF Deliver
  <2> HIDE DEF new
  <2> QED BY <1>0, <2>1, <2>2, <2>3, OneStream
<1>5. ASSUME NEW s \in Stream, Break(s) \/ TaskDone(s)
      PROVE  StreamsOK'
  <2> PICK t \in {"broken", "done"} :
        /\ streams' = [streams EXCEPT ![s] = [streams[s] EXCEPT !.task = t]]
        /\ streams[s].task \in {"open", "cleaning"}
        /\ t = "broken" => streams[s].task = "open"
    BY <1>5 DEF Break, TaskDone
  <2> DEFINE st == streams[s]
             new == [st EXCEPT !.task = t]
  <2>1. st \in StreamInfo /\ (st.task # "none" => st.worker \in Worker)
        /\ (st.task \in {"none", "open", "broken"} => st.todo = {})
    BY <1>0 DEF StreamsOK
  <2>2. /\ new \in StreamInfo /\ new.task = t /\ new.worker = st.worker
        /\ new.todo = st.todo
    BY <2>1 DEF StreamInfo
  <2>3. streams' = [streams EXCEPT ![s] = new]
    OBVIOUS
  <2> HIDE DEF new
  <2> QED BY <1>0, <2>1, <2>2, <2>3, OneStream
<1>6. ASSUME NEW s \in Stream, DropReceiver(s)
      PROVE  StreamsOK'
  <2> DEFINE new == WithoutReceiver(streams[s])
  <2>1. streams[s] \in StreamInfo /\ streams[s].worker \in Worker
        /\ (streams[s].task \in {"none", "open", "broken"} => streams[s].todo = {})
    BY <1>0, <1>6 DEF StreamsOK, DropReceiver
  <2>2. /\ new \in StreamInfo /\ new.task = streams[s].task /\ new.worker = streams[s].worker
        /\ new.todo = streams[s].todo
    BY <2>1 DEF StreamInfo, WithoutReceiver
  <2>3. streams' = [streams EXCEPT ![s] = new]
    BY <1>6 DEF DropReceiver
  <2> HIDE DEF new
  <2> QED BY <1>0, <2>1, <2>2, <2>3, OneStream
<1>7. ASSUME NEW s \in Stream, StreamEnds(s)
      PROVE  StreamsOK'
  <2> DEFINE S == ActiveJobs(streams[s].worker)
             new == Cleaning(streams[s], S)
  <2>1. streams[s] \in StreamInfo /\ streams[s].worker \in Worker
    BY <1>0, <1>7 DEF StreamsOK, StreamEnds
  <2>2. S \in SUBSET Job
    BY <2>1, EntryFacts DEF ActiveJobs, Shape
  <2>3. /\ new \in StreamInfo /\ new.task = "cleaning" /\ new.worker = streams[s].worker
    BY <2>1, <2>2 DEF StreamInfo, Cleaning
  <2>4. streams' = [streams EXCEPT ![s] = new]
    BY <1>7 DEF StreamEnds
  <2> HIDE DEF new
  <2> QED BY <1>0, <2>1, <2>3, <2>4, OneStream
<1>8. ASSUME NEW s \in Stream, CleanUp(s)
      PROVE  StreamsOK'
  <2>1. PICK j \in streams[s].todo : streams' = [streams EXCEPT ![s].todo = @ \ {j}]
    BY <1>8 DEF CleanUp
  <2> DEFINE st == streams[s]
             new == [st EXCEPT !.todo = @ \ {j}]
  <2>2. st \in StreamInfo /\ st.worker \in Worker /\ st.task = "cleaning"
    BY <1>0, <1>8 DEF StreamsOK, CleanUp
  <2>3. /\ new \in StreamInfo /\ new.task = st.task /\ new.worker = st.worker
    BY <2>2 DEF StreamInfo
  <2>4. streams' = [streams EXCEPT ![s] = new]
    BY <2>1
  <2> HIDE DEF new
  <2> QED BY <1>0, <2>2, <2>3, <2>4, OneStream
<1>9. CASE CrashRestart
  <2>1. \A s \in Stream :
          /\ Gone(streams[s]) \in StreamInfo
          /\ Gone(streams[s]).task # "none" => Gone(streams[s]).worker \in Worker
          /\ Gone(streams[s]).todo = {}
    <3> TAKE s \in Stream
    <3>1. streams[s] \in StreamInfo
          /\ (streams[s].task # "none" => streams[s].worker \in Worker)
          /\ (streams[s].task = "none" => streams[s].todo = {})
      BY <1>0 DEF StreamsOK
    <3>2. CASE streams[s].task = "none"
      BY <3>1, <3>2 DEF Gone
    <3>3. CASE streams[s].task # "none"
      BY <3>1, <3>3 DEF Gone, StreamInfo
    <3> QED BY <3>2, <3>3
  <2>2. streams' = [s \in Stream |-> Gone(streams[s])]
    BY <1>9 DEF CrashRestart
  <2> QED BY <2>1, <2>2 DEF StreamsOK
<1>10. CASE Request
  BY <1>1, <1>10 DEF Request, EnqueueJob, Elapse, Cancel, Retry
<1>11. CASE Scheduler
  BY <1>1, <1>2, <1>11 DEF Scheduler, Snapshot, ClaimFor, ClaimFails, AssignJob, SendFull,
                           SendClosed, SchedReset
<1>12. CASE PollStream
  BY <1>1, <1>3, <1>4, <1>5, <1>6, <1>7, <1>8, <1>12 DEF PollStream, UpdateCapabilities
<1>13. CASE Acknowledge
  BY <1>1, <1>13 DEF Acknowledge, AckJob, QueueAck, AckAborted, AckDropped, CommitBatch, CommitFails
<1>14. CASE UNCHANGED vars
  BY <1>1, <1>14 DEF vars
<1> QED BY <1>9, <1>10, <1>11, <1>12, <1>13, <1>14 DEF Next

-----------------------------------------------------------------------------
(* One more use of a hazard is a count of hazards. *)
LEMMA SpendKeeps ==
  ASSUME MessagesOK, NEW h \in Hazard, Spend(h)
  PROVE  used' \in [Hazard -> Nat]
BY DEF MessagesOK, Spend

LEMMA HazardKinds == {"break", "crash", "db", "ack", "retry", "cancel", "caps"} \subseteq Hazard
BY DEF Hazard

(* What a failed AckJob call leaves running is executions. *)
LEMMA AfterErrorKeeps ==
  ASSUME NEW e \in Execution, NEW o
  PROVE  AfterError(e, o) \subseteq Execution
<1>1. [e EXCEPT !.step = "refail"] \in Execution
  BY DEF Execution
<1> QED BY <1>1 DEF AfterError

(* Executions, the ack queue, the history and the counters keep their types.  *)
LEMMA MessagesStep ==
  ASSUME Shape, [Next]_vars
  PROVE  MessagesOK'
<1>0. MessagesOK /\ exec \in SUBSET Execution /\ calls \in SUBSET Call /\ acks \in Seq(Ack) /\ lost \in SUBSET Job
      /\ used \in [Hazard -> Nat]
  BY DEF Shape, MessagesOK
<1>1. CASE UNCHANGED <<exec, calls, acks, lost, used>>
  BY <1>0, <1>1 DEF MessagesOK
<1>2. CASE Request
  <2>1. ASSUME NEW j \in Job, Cancel(j) \/ Retry(j)
        PROVE  MessagesOK'
    BY <1>0, <2>1, SpendKeeps, HazardKinds DEF Cancel, Retry, MessagesOK
  <2> QED BY <1>1, <1>2, <2>1 DEF Request, EnqueueJob, Elapse
<1>3. CASE Scheduler
  <2>1. ASSUME NEW w \in Worker, ClaimFor(w)
        PROVE  MessagesOK'
    <3>1. lost' \in SUBSET Job
      BY <1>0, <2>1 DEF ClaimFor
    <3> QED BY <1>0, <2>1, <3>1 DEF ClaimFor, MessagesOK
  <2>2. CASE ClaimFails
    BY <1>0, <2>2, SpendKeeps, HazardKinds DEF ClaimFails, MessagesOK
  <2>3. CASE SendClosed
    <3>1. lost' \in SUBSET Job
      BY <1>0, <2>3, ShapeFacts DEF SendClosed
    <3> QED BY <1>0, <2>3, <3>1 DEF SendClosed, MessagesOK
  <2>4. CASE SchedReset
    <3>1. lost' \in SUBSET Job
      BY <1>0, <2>4, ShapeFacts DEF SchedReset
    <3>2. used' \in [Hazard -> Nat]
      BY <1>0, <2>4, SpendKeeps, HazardKinds DEF SchedReset
    <3> QED BY <1>0, <2>4, <3>1, <3>2 DEF SchedReset, MessagesOK
  <2> QED BY <1>1, <1>3, <2>1, <2>2, <2>3, <2>4
          DEF Scheduler, Snapshot, AssignJob, SendOk, SendFull
<1>4. CASE PollStream
  <2>1. ASSUME NEW s \in Stream, NEW w \in Worker, NEW o \in Offers[w], Connect(w, s, o)
        PROVE  MessagesOK'
    <3>1. lost' \in SUBSET Job
      BY <1>0, <2>1, EntryFacts DEF Connect, ActiveJobs, Shape
    <3> QED BY <1>0, <2>1, <3>1 DEF Connect, MessagesOK
  <2>2. ASSUME NEW s \in Stream, NEW o, UpdateCapabilities(s, o)
        PROVE  MessagesOK'
    BY <1>0, <2>2, SpendKeeps, HazardKinds DEF UpdateCapabilities, MessagesOK
  <2>3. ASSUME NEW s \in Stream, NEW p \in streams[s].chan, Deliver(s, p)
        PROVE  MessagesOK'
    <3>1. p \in Push /\ streams[s].worker \in Worker
      BY <2>3, ShapeFacts DEF Deliver, Shape, StreamsOK
    <3>2. [worker |-> streams[s].worker, push |-> p, step |-> "run"] \in Execution
      BY <3>1 DEF Execution
    <3>3. exec' \in SUBSET Execution
      BY <1>0, <2>3, <3>2 DEF Deliver
    <3> QED BY <1>0, <2>3, <3>3 DEF Deliver, MessagesOK
  <2>4. ASSUME NEW s \in Stream, Break(s)
        PROVE  MessagesOK'
    BY <1>0, <2>4, SpendKeeps, HazardKinds DEF Break, MessagesOK
  <2>5. ASSUME NEW s \in Stream, CleanUp(s)
        PROVE  MessagesOK'
    <3>1. lost' \in SUBSET Job
      BY <1>0, <2>5, ShapeFacts DEF CleanUp
    <3>2. used' \in [Hazard -> Nat]
      BY <1>0, <2>5, SpendKeeps, HazardKinds DEF CleanUp
    <3> QED BY <1>0, <2>5, <3>1, <3>2 DEF CleanUp, MessagesOK
  <2> QED BY <1>1, <1>4, <2>1, <2>2, <2>3, <2>4, <2>5
          DEF PollStream, DropReceiver, StreamEnds, TaskDone
<1>5. CASE Acknowledge
  <2>1. ASSUME NEW e \in exec, NEW o \in Outcome, AckJob(e, o)
        PROVE  MessagesOK'
    <3>1. [exec |-> e, outcome |-> o] \in Call
      BY ShapeFacts DEF Call
    <3>2. calls' \in SUBSET Call /\ exec' \in SUBSET Execution
      BY <1>0, <2>1, <3>1 DEF AckJob
    <3> QED BY <1>0, <2>1, <3>2 DEF AckJob, MessagesOK
  <2>2. ASSUME NEW e \in exec, NEW o \in Outcome, AckDropped(e, o)
        PROVE  MessagesOK'
    <3>1. AfterError(e, o) \subseteq Execution
      BY ShapeFacts, AfterErrorKeeps
    <3>2. exec' \in SUBSET Execution /\ used' \in [Hazard -> Nat]
      BY <1>0, <2>2, <3>1, SpendKeeps, HazardKinds DEF AckDropped
    <3> QED BY <1>0, <2>2, <3>2 DEF AckDropped, MessagesOK
  <2>4. ASSUME NEW c \in calls, QueueAck(c)
        PROVE  MessagesOK'
    <3>1. AfterError(c.exec, c.outcome) \subseteq Execution
      BY ShapeFacts, AfterErrorKeeps
    <3>2. [job |-> c.exec.push.job, outcome |-> c.outcome] \in Ack
      BY ShapeFacts DEF Ack
    <3>3. acks' \in Seq(Ack) /\ calls' \in SUBSET Call
      BY <1>0, <2>4, <3>2 DEF QueueAck
    <3>4. exec' \in SUBSET Execution /\ used' \in [Hazard -> Nat]
      BY <1>0, <2>4, <3>1, SpendKeeps, HazardKinds DEF QueueAck
    <3> QED BY <1>0, <2>4, <3>3, <3>4 DEF QueueAck, MessagesOK
  <2>5. ASSUME NEW c \in calls, AckAborted(c)
        PROVE  MessagesOK'
    <3>1. AfterError(c.exec, c.outcome) \subseteq Execution /\ c.exec.push.job \in Job
      BY ShapeFacts, AfterErrorKeeps
    <3>2. exec' \in SUBSET Execution /\ lost' \in SUBSET Job /\ calls' \in SUBSET Call
      BY <1>0, <2>5, <3>1 DEF AckAborted
    <3>3. used' \in [Hazard -> Nat]
      BY <1>0, <2>5, SpendKeeps, HazardKinds DEF AckAborted
    <3> QED BY <1>0, <2>5, <3>2, <3>3 DEF AckAborted, MessagesOK
  <2>3. ASSUME NEW n \in 1..BatchMax, CommitBatch(n) \/ CommitFails(n)
        PROVE  MessagesOK'
    <3>1. n \in Nat \ {0} /\ n <= Len(acks)
      BY <2>3, StoreAssumption DEF CommitBatch, CommitFails
    <3>2. acks' \in Seq(Ack)
      BY <1>0, <2>3, <3>1, BatchOfAcks DEF CommitBatch, CommitFails
    <3>3. \A i \in 1..n : acks[i].job \in Job
      <4>1. \A i \in 1..n : acks[i] \in Ack
        BY <1>0, <3>1, ElementOfSeq
      <4> QED BY <4>1 DEF Ack
    <3>4. lost' \in SUBSET Job /\ used' \in [Hazard -> Nat]
      BY <1>0, <2>3, <3>3, SpendKeeps, HazardKinds DEF CommitBatch, CommitFails
    <3> QED BY <1>0, <2>3, <3>2, <3>4 DEF CommitBatch, CommitFails, MessagesOK
  <2> QED BY <1>5, <2>1, <2>2, <2>3, <2>4, <2>5 DEF Acknowledge
<1>6. CASE CrashRestart
  <2>1. lost' \in SUBSET Job /\ acks' \in Seq(Ack) /\ calls' \in SUBSET Call
    BY <1>6 DEF CrashRestart
  <2>2. \A c \in calls : AfterError(c.exec, c.outcome) \subseteq Execution
    BY ShapeFacts, AfterErrorKeeps
  <2>3. exec' \in SUBSET Execution
    BY <1>0, <1>6, <2>2 DEF CrashRestart
  <2>4. used' \in [Hazard -> Nat]
    BY <1>0, <1>6, SpendKeeps, HazardKinds DEF CrashRestart
  <2> QED BY <2>1, <2>3, <2>4 DEF MessagesOK
<1>7. CASE UNCHANGED vars
  BY <1>1, <1>7 DEF vars
<1> QED BY <1>2, <1>3, <1>4, <1>5, <1>6, <1>7 DEF Next

-----------------------------------------------------------------------------
(* The shape of every reachable state. *)
LEMMA ShapeInit == Init => Shape
<1> SUFFICES ASSUME Init PROVE Shape
  OBVIOUS
<1>1. StoreInv /\ RegistryInv
  BY StoreInitKeeps, RegistryInitKeeps DEF Init
<1>2. SchedOK
  BY NoCurIsCurrent DEF Init, SchedOK, NotServed
<1>3. StreamsOK
  BY DEF Init, StreamsOK, StreamInfo
<1>4. MessagesOK
  BY DEF Init, MessagesOK
<1> QED BY <1>1, <1>2, <1>3, <1>4 DEF Shape

LEMMA ShapeStep ==
  ASSUME Shape, [Next]_vars
  PROVE  Shape'
<1>1. StoreInv'
  BY StoreStep, StoreNextKeeps DEF Shape
<1>2. RegistryInv'
  BY RegistryStep, RegistryNextKeeps DEF Shape
<1> QED BY <1>1, <1>2, SchedStep, StreamsStep, MessagesStep DEF Shape

(* Type correctness of the dispatcher. *)
THEOREM DispatchTypes == Spec => []TypeOK
<1>1. Shape /\ [Next]_vars => Shape'
  BY ShapeStep
<1>2. Shape => TypeOK
  BY DEF Shape, StoreInv, RegistryInv, SchedOK, StreamsOK, MessagesOK, TypeOK
<1> QED BY <1>1, <1>2, ShapeInit, PTL DEF Spec

(* The dispatcher uses the table only through the storage operations.         *)
THEOREM DispatchUsesStore == Spec => StoreSpec
<1>1. Init => StoreInit
  BY DEF Init
<1>2. Shape /\ [Next]_vars => Shape' /\ [StoreNext]_storeVars
  BY ShapeStep, StoreStep
<1> QED BY <1>1, <1>2, ShapeInit, PTL DEF Spec, StoreSpec

(* Attempts exceed max_attempts only by counted resets, with every crash,     *)
(* broken stream, failed write and repeated acknowledgement of the model.     *)
THEOREM DispatchBudget == Spec => []AttemptBudget
BY DispatchUsesStore, StoreBudget, PTL

-----------------------------------------------------------------------------
(* What a step does to the jobs a stream task has to reset: nothing, for the  *)
(* steps that change only the channel or the stage of the task.               *)
LEMMA SameCleanUps ==
  ASSUME Shape, NEW s \in Stream, NEW i,
         \/ UNCHANGED streams
         \/ \E c : streams' = [streams EXCEPT ![s].chan = c]
         \/ \E t : streams' = [streams EXCEPT ![s].task = t]
         \/ streams' = [streams EXCEPT ![s] = WithoutReceiver(@)]
  PROVE  InCleanUp(i)' <=> InCleanUp(i)
<1>1. streams \in [Stream -> StreamInfo]
  BY DEF Shape, StreamsOK
<1>2. \A r \in Stream : streams'[r].todo = streams[r].todo
  <2>1. CASE UNCHANGED streams
    BY <2>1
  <2>2. ASSUME NEW c, streams' = [streams EXCEPT ![s].chan = c]
        PROVE  \A r \in Stream : streams'[r].todo = streams[r].todo
    BY <1>1, <2>2 DEF StreamInfo
  <2>3. ASSUME NEW t, streams' = [streams EXCEPT ![s].task = t]
        PROVE  \A r \in Stream : streams'[r].todo = streams[r].todo
    BY <1>1, <2>3 DEF StreamInfo
  <2>4. CASE streams' = [streams EXCEPT ![s] = WithoutReceiver(@)]
    BY <1>1, <2>4 DEF StreamInfo, WithoutReceiver
  <2> QED BY <2>1, <2>2, <2>3, <2>4
<1> QED BY <1>2 DEF InCleanUp

(* Freeing the slot of one job leaves the others theirs. *)
LEMMA OtherSlotsStay ==
  ASSUME Shape, NEW j \in Job, JobCompleted(j), NEW i, i # j, HoldsSlot(i)
  PROVE  HoldsSlot(i)'
BY JobCompletedKeeps DEF Shape, HoldsSlot

(* A step that leaves all five places alone keeps a job that was kept. *)
LEMMA NothingMoves ==
  ASSUME NEW i, Kept(i), UNCHANGED <<hand, cur, workers, streams, calls, acks>>
  PROVE  Kept(i)'
BY DEF Kept, InHand, HoldsSlot, InCleanUp, InAckCall, InAckQueue

-----------------------------------------------------------------------------
(* No running attempt slips away in a step of the scheduler.                  *)
LEMMA SchedulerKeeps ==
  ASSUME Shape, RunningIsKept, Scheduler, NEW i \in Job, Running(i)'
  PROVE  Kept(i)' \/ i \in lost'
<1>0. Running(i) => Kept(i) \/ i \in lost
  BY DEF RunningIsKept
<1>1. CASE Snapshot \/ ClaimFails
  BY <1>0, <1>1, NothingMoves DEF Snapshot, ClaimFails, storeVars, Running, registryVars
<1>2. ASSUME NEW w \in Worker, ClaimFor(w)
      PROVE  Kept(i)' \/ i \in lost'
  <2>1. PICK S \in SUBSET Eligible(w) :
          ClaimAndFetchJobs(S) /\ hand' = {Pushed(j) : j \in S} /\ lost' = lost \ S
    BY <1>2 DEF ClaimFor
  <2>2. CASE i \in S
    <3>1. Pushed(i) \in hand' /\ Pushed(i).job = i
      BY <2>1, <2>2 DEF Pushed
    <3> QED BY <3>1 DEF Kept, InHand
  <2>3. CASE i \notin S
    <3>1. Running(i)
      BY <2>1, <2>3, ClaimRuns
    <3>2. hand = {} /\ UNCHANGED <<cur, workers, streams, calls, acks>>
      BY <1>2 DEF ClaimFor, BetweenWorkers, registryVars
    <3> QED BY <1>0, <2>1, <2>3, <3>1, <3>2 DEF Kept, InHand, HoldsSlot, InCleanUp, InAckCall, InAckQueue
  <2> QED BY <2>2, <2>3
<1>3. ASSUME NEW p \in hand, AssignJob(p)
      PROVE  Kept(i)' \/ i \in lost'
  <2>1. /\ Running(i) /\ cur.stage = "none" /\ hand' = hand \ {p}
        /\ UNCHANGED <<streams, calls, acks, lost>>
    BY <1>3, NoCurIsCurrent DEF AssignJob, BetweenJobs, storeVars, Running
  <2>2. HoldsSlot(i) => HoldsSlot(i)'
    <3>1. target \in Worker /\ p.job \in Job
      BY <1>3, ShapeFacts DEF Shape, SchedOK
    <3> QED BY <1>3, <3>1, AssignKeeps DEF AssignJob, HoldsSlot, registryVars, Shape
  <2>3. CASE i = p.job
    <3>1. CASE CanAssign(target)
      <4>1. target \in Worker /\ p.job \in Job /\ Assign(target, p.job)
        BY <1>3, <3>1, ShapeFacts DEF AssignJob, Shape, SchedOK
      <4>2. i \in workers'[target].active
        BY <2>3, <4>1, AssignKeeps DEF Shape
      <4> QED BY <4>1, <4>2 DEF Kept, HoldsSlot
    <3>2. CASE ~CanAssign(target)
      BY <1>3, <2>3, <3>2 DEF AssignJob, Kept
    <3> QED BY <3>1, <3>2
  <2>4. CASE i # p.job
    <3>1. InHand(i) => InHand(i)'
      BY <2>1, <2>4 DEF InHand
    <3> QED BY <1>0, <2>1, <2>2, <3>1 DEF Kept, InCleanUp, InAckCall, InAckQueue
  <2> QED BY <2>3, <2>4
<1>4. CASE SendOk
  <2>1. /\ Running(i) /\ cur.stage = "send" /\ cur.tx \in Stream
        /\ UNCHANGED <<hand, workers, calls, acks, lost>>
    BY <1>4, ShapeFacts DEF SendOk, storeVars, registryVars, Running
  <2>2. InCleanUp(i)' <=> InCleanUp(i)
    BY <1>4, <2>1, SameCleanUps DEF SendOk
  <2> QED BY <1>0, <2>1, <2>2 DEF Kept, InHand, HoldsSlot, InAckCall, InAckQueue
<1>5. CASE SendFull \/ SendClosed
  <2>1. /\ Running(i) /\ cur.stage = "send" /\ cur.push.job \in Job
        /\ JobCompleted(cur.push.job) /\ UNCHANGED <<hand, streams, calls, acks>>
        /\ lost \subseteq lost'
    BY <1>5, ShapeFacts DEF SendFull, SendClosed, storeVars, Running
  <2>2. CASE i = cur.push.job
    BY <1>5, <2>2 DEF SendFull, SendClosed, Kept
  <2>3. CASE i # cur.push.job
    BY <1>0, <2>1, <2>3, OtherSlotsStay DEF Kept, InHand, InCleanUp, InAckCall, InAckQueue
  <2> QED BY <2>2, <2>3
<1>6. CASE SchedReset
  <2>1. /\ cur.stage = "reset" /\ cur.push.job \in Job
        /\ UNCHANGED <<hand, workers, streams, calls, acks>>
    BY <1>6, ShapeFacts DEF SchedReset, registryVars
  <2>2. CASE ResetStaleJob(cur.push.job) /\ UNCHANGED lost
    <3>1. Running(i) /\ i # cur.push.job
      BY <2>1, <2>2, ResetRuns DEF Shape
    <3> QED BY <1>0, <2>1, <2>2, <3>1 DEF Kept, InHand, HoldsSlot, InCleanUp, InAckCall, InAckQueue
  <2>3. CASE lost' = lost \cup {cur.push.job} /\ UNCHANGED storeVars
    <3>1. Running(i)
      BY <2>3 DEF Running, storeVars
    <3> QED BY <1>0, <2>1, <2>3, <3>1 DEF Kept, InHand, HoldsSlot, InCleanUp, InAckCall, InAckQueue
  <2> QED BY <1>6, <2>2, <2>3 DEF SchedReset
<1> QED BY <1>1, <1>2, <1>3, <1>4, <1>5, <1>6 DEF Scheduler

(* Nor when a stream connects, delivers, breaks, ends or cleans up.           *)
LEMMA PollStreamKeeps ==
  ASSUME Shape, RunningIsKept, PollStream, NEW i \in Job, Running(i)'
  PROVE  Kept(i)' \/ i \in lost'
<1>0. Running(i) => Kept(i) \/ i \in lost
  BY DEF RunningIsKept
<1>1. ASSUME NEW s \in Stream, NEW w \in Worker, NEW o \in Offers[w], Connect(w, s, o)
      PROVE  Kept(i)' \/ i \in lost'
  <2>1. /\ Running(i) /\ UNCHANGED <<hand, cur, calls, acks>> /\ lost' = lost \cup ActiveJobs(w)
        /\ Register(w, s, o) /\ o \in Offer
    BY <1>1, ShapeFacts DEF Connect, storeVars, schedVars, Running
  <2>2. HoldsSlot(i) => HoldsSlot(i)' \/ i \in lost'
    BY <2>1, RegisterKeeps DEF Shape, HoldsSlot, ActiveJobs
  <2>3. InCleanUp(i) => InCleanUp(i)'
    <3>1. streams[s].todo = {}
      BY <1>1 DEF Connect, Shape, StreamsOK
    <3>2. \A r \in Stream : r # s => streams'[r] = streams[r]
      BY <1>1 DEF Connect, Shape, StreamsOK
    <3> QED BY <3>1, <3>2 DEF InCleanUp
  <2> QED BY <1>0, <2>1, <2>2, <2>3 DEF Kept, InHand, InAckCall, InAckQueue
<1>2. ASSUME NEW s \in Stream, NEW w \in Worker, NEW o \in Offers[w],
             streams[s].worker = w, UpdateCapabilities(s, o)
      PROVE  Kept(i)' \/ i \in lost'
  <2>1. /\ Running(i) /\ UNCHANGED <<hand, cur, calls, acks, streams, lost>> /\ o \in Offer
        /\ UpdateWorkerCapabilities(w, o)
    BY <1>2, ShapeFacts DEF UpdateCapabilities, storeVars, schedVars, Running
  <2>2. HoldsSlot(i) => HoldsSlot(i)'
    BY <2>1, UpdateWorkerCapabilitiesKeeps DEF Shape, HoldsSlot
  <2> QED BY <1>0, <2>1, <2>2 DEF Kept, InHand, InCleanUp, InAckCall, InAckQueue
<1>3. ASSUME NEW s \in Stream,
             (\E p \in streams[s].chan : Deliver(s, p)) \/ Break(s) \/ DropReceiver(s) \/ TaskDone(s)
      PROVE  Kept(i)' \/ i \in lost'
  <2>1. Running(i) /\ UNCHANGED <<hand, cur, workers, calls, acks, lost>>
    BY <1>3 DEF Deliver, Break, DropReceiver, TaskDone, storeVars, schedVars, registryVars, Running
  <2>2. InCleanUp(i)' <=> InCleanUp(i)
    BY <1>3, SameCleanUps DEF Deliver, Break, DropReceiver, TaskDone
  <2> QED BY <1>0, <2>1, <2>2 DEF Kept, InHand, HoldsSlot, InAckCall, InAckQueue
<1>4. ASSUME NEW s \in Stream, StreamEnds(s)
      PROVE  Kept(i)' \/ i \in lost'
  <2> DEFINE w == streams[s].worker
  <2>1. /\ Running(i) /\ UNCHANGED <<hand, cur, calls, acks, lost>> /\ w \in Worker /\ Unregister(w)
        /\ streams[s].todo = {}
    BY <1>4 DEF StreamEnds, Shape, StreamsOK, storeVars, schedVars, Running
  <2>2. /\ streams'[s].todo = workers[w].active
        /\ \A r \in Stream : r # s => streams'[r] = streams[r]
    BY <1>4 DEF StreamEnds, Shape, StreamsOK, Cleaning, ActiveJobs
  <2>3. HoldsSlot(i) => HoldsSlot(i)' \/ InCleanUp(i)'
    BY <2>1, <2>2, UnregisterKeeps DEF Shape, HoldsSlot, InCleanUp
  <2>4. InCleanUp(i) => InCleanUp(i)'
    BY <2>1, <2>2 DEF InCleanUp
  <2> QED BY <1>0, <2>1, <2>3, <2>4 DEF Kept, InHand, InAckCall, InAckQueue
<1>5. ASSUME NEW s \in Stream, CleanUp(s)
      PROVE  Kept(i)' \/ i \in lost'
  <2>1. PICK j \in streams[s].todo :
          /\ streams' = [streams EXCEPT ![s].todo = @ \ {j}]
          /\ \/ ResetStaleJob(j) /\ UNCHANGED lost
             \/ lost' = lost \cup {j} /\ UNCHANGED storeVars
    BY <1>5 DEF CleanUp
  <2>2. j \in Job /\ UNCHANGED <<hand, cur, workers, calls, acks>>
    BY <1>5, ShapeFacts DEF CleanUp, schedVars, registryVars
  <2>3. Running(i) /\ (i = j => i \in lost') /\ lost \subseteq lost'
    BY <2>1, <2>2, ResetRuns DEF Shape, storeVars, Running
  <2>4. \A r \in Stream : streams[r].todo \ {j} \subseteq streams'[r].todo
    BY <2>1 DEF Shape, StreamsOK, StreamInfo
  <2>5. i # j /\ InCleanUp(i) => InCleanUp(i)'
    BY <2>4 DEF InCleanUp
  <2> QED BY <1>0, <2>2, <2>3, <2>5 DEF Kept, InHand, HoldsSlot, InAckCall, InAckQueue
<1> QED BY <1>1, <1>2, <1>3, <1>4, <1>5 DEF PollStream

(* Nor on the way of a result into the table.                                 *)
LEMMA AcknowledgeKeeps ==
  ASSUME Shape, RunningIsKept, Acknowledge, NEW i \in Job, Running(i)'
  PROVE  Kept(i)' \/ i \in lost'
<1>0. /\ Running(i) => Kept(i) \/ i \in lost
      /\ acks \in Seq(Ack) /\ DOMAIN acks = 1..Len(acks) /\ Len(acks) \in Nat
  BY DEF RunningIsKept, Shape, MessagesOK
<1>1. ASSUME NEW e \in exec, NEW o \in Outcome, AckJob(e, o)
      PROVE  Kept(i)' \/ i \in lost'
  <2> DEFINE c == [exec |-> e, outcome |-> o]
  <2>5. c.exec = e
    OBVIOUS
  <2>1. /\ Running(i) /\ UNCHANGED <<hand, cur, streams, acks, lost>> /\ e.push.job \in Job
        /\ JobCompleted(e.push.job) /\ calls' = calls \cup {c}
    BY <1>1, ShapeFacts DEF AckJob, storeVars, schedVars, Running
  <2> HIDE DEF c
  <2>2. i = e.push.job => InAckCall(i)'
    <3>1. c \in calls' /\ c.exec.push.job = e.push.job
      BY <2>1, <2>5
    <3> QED BY <3>1 DEF InAckCall
  <2>3. InAckCall(i) => InAckCall(i)'
    BY <2>1 DEF InAckCall
  <2>4. i # e.push.job /\ HoldsSlot(i) => HoldsSlot(i)'
    BY <2>1, OtherSlotsStay
  <2> QED BY <1>0, <2>1, <2>2, <2>3, <2>4 DEF Kept, InHand, InCleanUp, InAckQueue
<1>4. ASSUME NEW c \in calls, QueueAck(c)
      PROVE  Kept(i)' \/ i \in lost'
  <2> DEFINE a == [job |-> c.exec.push.job, outcome |-> c.outcome]
  <2>1. /\ Running(i) /\ UNCHANGED <<hand, cur, workers, streams, lost>>
        /\ calls' = calls \ {c} /\ acks' = Append(acks, a)
    BY <1>4 DEF QueueAck, storeVars, registryVars, schedVars, Running
  <2>2. a \in Ack /\ a.job = c.exec.push.job
    BY ShapeFacts DEF Ack
  <2> HIDE DEF a
  <2>3. /\ DOMAIN acks' = 1..(Len(acks) + 1) /\ acks'[Len(acks) + 1] = a
        /\ \A k \in 1..Len(acks) : acks'[k] = acks[k]
    BY <1>0, <2>1, <2>2
  <2>4. i = c.exec.push.job => InAckQueue(i)'
    BY <1>0, <2>2, <2>3 DEF InAckQueue
  <2>5. InAckQueue(i) => InAckQueue(i)'
    BY <1>0, <2>3 DEF InAckQueue
  <2>6. i # c.exec.push.job /\ InAckCall(i) => InAckCall(i)'
    BY <2>1 DEF InAckCall
  <2> QED BY <1>0, <2>1, <2>4, <2>5, <2>6 DEF Kept, InHand, HoldsSlot, InCleanUp
<1>5. ASSUME NEW c \in calls, AckAborted(c)
      PROVE  Kept(i)' \/ i \in lost'
  <2>1. /\ Running(i) /\ UNCHANGED <<hand, cur, workers, streams, acks>>
        /\ calls' = calls \ {c} /\ lost' = lost \cup {c.exec.push.job}
    BY <1>5 DEF AckAborted, storeVars, registryVars, schedVars, Running
  <2>2. i # c.exec.push.job /\ InAckCall(i) => InAckCall(i)'
    BY <2>1 DEF InAckCall
  <2> QED BY <1>0, <2>1, <2>2 DEF Kept, InHand, HoldsSlot, InCleanUp, InAckQueue
<1>2. ASSUME NEW e \in exec, NEW o \in Outcome, AckDropped(e, o)
      PROVE  Kept(i)' \/ i \in lost'
  BY <1>0, <1>2, NothingMoves DEF AckDropped, storeVars, registryVars, schedVars, Running
<1>3. ASSUME NEW n \in 1..BatchMax, CommitBatch(n) \/ CommitFails(n)
      PROVE  Kept(i)' \/ i \in lost'
  <2> DEFINE batch == SubSeq(acks, 1, n)
             rest  == SubSeq(acks, n + 1, Len(acks))
  <2>1. /\ n \in Nat \ {0} /\ n <= Len(acks) /\ acks' = rest
        /\ UNCHANGED <<hand, cur, workers, streams, calls>> /\ lost \subseteq lost'
    BY <1>3, StoreAssumption DEF CommitBatch, CommitFails, registryVars, schedVars
  <2>2. /\ DOMAIN batch = 1..n /\ \A k \in 1..n : batch[k] = acks[k]
        /\ DOMAIN rest = 1..(Len(acks) - n) /\ \A k \in 1..(Len(acks) - n) : rest[k] = acks[n + k]
    <3>1. /\ batch \in [1..n -> Ack] /\ \A k \in 1..n : batch[k] = acks[k]
          /\ rest \in Seq(Ack) /\ Len(rest) = Len(acks) - n
          /\ \A k \in 1..(Len(acks) - n) : rest[k] = acks[n + k]
      BY <1>0, <2>1, BatchOfAcks
    <3> HIDE DEF batch, rest
    <3> QED BY <3>1
  <2> HIDE DEF batch, rest
  <2>3. Running(i) /\ (InBatch(batch, i) => i \in lost')
    <3>1. CASE CommitBatch(n)
      BY <3>1, BatchRuns DEF CommitBatch, Shape, batch
    <3>2. CASE CommitFails(n)
      <4>1. Running(i) /\ lost' = lost \cup {acks[k].job : k \in 1..n}
        BY <3>2 DEF CommitFails, storeVars, Running
      <4> QED BY <2>2, <4>1 DEF InBatch
    <3> QED BY <1>3, <3>1, <3>2
  <2>4. InAckQueue(i) => InBatch(batch, i) \/ InAckQueue(i)'
    <3> SUFFICES ASSUME NEW k \in 1..Len(acks), acks[k].job = i
                 PROVE  InBatch(batch, i) \/ InAckQueue(i)'
      BY <1>0 DEF InAckCall, InAckQueue
    <3>1. CASE k <= n
      <4>1. k \in 1..n
        BY <2>1, <3>1
      <4> QED BY <2>2, <4>1 DEF InBatch
    <3>2. CASE k > n
      <4>1. k - n \in 1..(Len(acks) - n) /\ n + (k - n) = k
        BY <1>0, <2>1, <3>2
      <4> QED BY <2>1, <2>2, <4>1 DEF InAckCall, InAckQueue
    <3> QED BY <2>1, <3>1, <3>2
  <2> QED BY <1>0, <2>1, <2>3, <2>4 DEF Kept, InHand, HoldsSlot, InCleanUp, InAckCall
<1> QED BY <1>1, <1>2, <1>3, <1>4, <1>5 DEF Acknowledge

(* What a restart leaves RUNNING, it leaves on the list of the lost.          *)
LEMMA RestartKeeps ==
  ASSUME Shape, CrashRestart, NEW i \in Job, Running(i)'
  PROVE  i \in lost'
<1>1. PICK stale \in SUBSET {j \in Job : Running(j)} :
        RecoverStaleJobs(stale) /\ lost' = {j \in Job : Running(j)} \ stale
  BY DEF CrashRestart
<1>2. Running(i) /\ i \notin stale
  BY <1>1, RecoveryRuns DEF Shape
<1> QED BY <1>1, <1>2

LEMMA KeptStep ==
  ASSUME Shape, RunningIsKept, [Next]_vars
  PROVE  RunningIsKept'
<1> SUFFICES ASSUME NEW i \in Job, Running(i)' PROVE Kept(i)' \/ i \in lost'
  BY DEF RunningIsKept
<1>0. Running(i) => Kept(i) \/ i \in lost
  BY DEF RunningIsKept
<1>1. CASE Request
  <2>1. Running(i)
    BY <1>1, QueueRuns DEF Request, EnqueueJob, Elapse, Cancel, Retry, Shape
  <2> QED BY <1>0, <1>1, <2>1, NothingMoves
          DEF Request, EnqueueJob, Elapse, Cancel, Retry, registryVars, schedVars
<1>2. CASE UNCHANGED vars
  BY <1>0, <1>2, NothingMoves DEF vars, storeVars, registryVars, schedVars, Running
<1> QED BY <1>1, <1>2, SchedulerKeeps, PollStreamKeeps, AcknowledgeKeeps, RestartKeeps DEF Next

(* No running attempt slips away: RunningIsTracked is not inductive, for the  *)
(* job being sent counts as tracked although the scheduler drops it with the  *)
(* send; RunningIsKept is, because such a job has its slot or somebody freed  *)
(* that slot and took the job over.                                           *)
THEOREM NoRunningJobSlipsAway == Spec => []RunningIsTracked
<1>1. Init => RunningIsKept
  BY DEF Init, StoreInit, RunningIsKept, Running
<1>2. Shape /\ RunningIsKept /\ [Next]_vars => Shape' /\ RunningIsKept'
  BY ShapeStep, KeptStep
<1>3. Shape /\ RunningIsKept => RunningIsTracked
  <2> SUFFICES ASSUME Shape, RunningIsKept, NEW j \in Job, Running(j)
               PROVE  Tracked(j) \/ j \in lost
    BY DEF RunningIsTracked
  <2>1. Kept(j) \/ j \in lost
    BY DEF RunningIsKept
  <2> QED BY <2>1 DEF Kept, Tracked, IsCurrent
<1> QED BY <1>1, <1>2, <1>3, ShapeInit, PTL DEF Spec

-----------------------------------------------------------------------------
(* The entry of a worker belongs to a stream of its own that has not ended.   *)
Serves(s, w) == streams[s].worker = w /\ streams[s].task \in {"open", "broken"}

LEMMA ServingStays ==
  ASSUME Shape, [Next]_vars, NEW s \in Stream, NEW w \in Worker, Serves(s, w)
  PROVE  Serves(s, w)' \/ StreamEnds(s) \/ CrashRestart
<1>0. streams \in [Stream -> StreamInfo]
  BY DEF Shape, StreamsOK
<1>1. CASE UNCHANGED streams
  BY <1>1 DEF Serves
<1>2. CASE SendOk
  BY <1>0, <1>2 DEF SendOk, Serves, StreamInfo
<1>3. ASSUME NEW r \in Stream, NEW v \in Worker, NEW o, Connect(v, r, o)
      PROVE  Serves(s, w)'
  <2>1. r # s
    BY <1>3 DEF Connect, Serves
  <2> QED BY <1>0, <1>3, <2>1 DEF Connect, Serves
<1>4. ASSUME NEW r \in Stream,
             (\E p \in streams[r].chan : Deliver(r, p)) \/ Break(r) \/ DropReceiver(r)
             \/ CleanUp(r)
      PROVE  Serves(s, w)'
  <2>1. CASE \E p \in streams[r].chan : Deliver(r, p)
    BY <1>0, <2>1 DEF Deliver, Serves, StreamInfo
  <2>2. CASE Break(r)
    BY <1>0, <2>2 DEF Break, Serves, StreamInfo
  <2>3. CASE DropReceiver(r)
    BY <1>0, <2>3 DEF DropReceiver, WithoutReceiver, Serves
  <2>4. CASE CleanUp(r)
    BY <1>0, <2>4 DEF CleanUp, Serves, StreamInfo
  <2> QED BY <1>4, <2>1, <2>2, <2>3, <2>4
<1>5. ASSUME NEW r \in Stream, TaskDone(r) \/ (StreamEnds(r) /\ r # s)
      PROVE  Serves(s, w)'
  <2>1. r # s
    BY <1>5 DEF TaskDone, Serves
  <2> QED BY <1>0, <1>5, <2>1 DEF TaskDone, StreamEnds, Serves
<1>6. CASE Request
  BY <1>1, <1>6 DEF Request, EnqueueJob, Elapse, Cancel, Retry
<1>7. CASE Scheduler
  BY <1>1, <1>2, <1>7 DEF Scheduler, Snapshot, ClaimFor, ClaimFails, AssignJob, SendFull,
                          SendClosed, SchedReset
<1>8. CASE PollStream
  BY <1>1, <1>3, <1>4, <1>5, <1>8 DEF PollStream, UpdateCapabilities
<1>9. CASE Acknowledge
  BY <1>1, <1>9 DEF Acknowledge, AckJob, QueueAck, AckAborted, AckDropped, CommitBatch, CommitFails
<1>10. CASE UNCHANGED vars
  BY <1>1, <1>10 DEF vars
<1> QED BY <1>6, <1>7, <1>8, <1>9, <1>10 DEF Next

(* The channel of an entry changes only when its worker connects or when a    *)
(* stream of that worker ends.                                                *)
LEMMA ChannelStays ==
  ASSUME Shape, [Next]_vars, NEW w \in Worker
  PROVE  \/ workers'[w].tx = workers[w].tx
         \/ \E s \in Stream : \E o \in Offers[w] : Connect(w, s, o)
         \/ \E s \in Stream : StreamEnds(s) /\ streams[s].worker = w /\ workers'[w].tx = NoStream
         \/ CrashRestart
<1>1. CASE UNCHANGED registryVars
  BY <1>1 DEF registryVars
<1>2. ASSUME NEW j \in Job, JobCompleted(j)
      PROVE  workers'[w].tx = workers[w].tx
  BY <1>2, JobCompletedKeeps DEF Shape
<1>3. CASE Request
  BY <1>1, <1>3 DEF Request, EnqueueJob, Elapse, Cancel, Retry
<1>4. CASE Scheduler
  <2>1. ASSUME NEW p \in hand, AssignJob(p)
        PROVE  workers'[w].tx = workers[w].tx
    <3>1. p.job \in Job /\ target \in Worker
      BY <2>1, ShapeFacts DEF Shape, SchedOK
    <3>2. CASE CanAssign(target)
      BY <2>1, <3>1, <3>2, AssignKeeps DEF AssignJob, Shape
    <3>3. CASE ~CanAssign(target)
      BY <2>1, <3>3 DEF AssignJob, registryVars
    <3> QED BY <3>2, <3>3
  <2>2. CASE SendFull \/ SendClosed
    BY <1>2, <2>2, ShapeFacts DEF SendFull, SendClosed
  <2> QED BY <1>1, <1>4, <2>1, <2>2
          DEF Scheduler, Snapshot, ClaimFor, ClaimFails, SendOk, SchedReset
<1>5. CASE PollStream
  <2>1. ASSUME NEW s \in Stream, NEW v \in Worker, NEW o \in Offers[v], Connect(v, s, o)
        PROVE  workers'[w].tx = workers[w].tx \/ v = w
    BY <2>1, RegisterKeeps, ShapeFacts DEF Connect, Shape
  <2>2. ASSUME NEW s \in Stream, NEW v \in Worker, NEW o \in Offers[v],
               streams[s].worker = v, UpdateCapabilities(s, o)
        PROVE  workers'[w].tx = workers[w].tx
    BY <2>2, UpdateWorkerCapabilitiesKeeps, ShapeFacts DEF UpdateCapabilities, Shape
  <2>3. ASSUME NEW s \in Stream, StreamEnds(s)
        PROVE  \/ workers'[w].tx = workers[w].tx
               \/ streams[s].worker = w /\ workers'[w].tx = NoStream
    <3>1. streams[s].worker \in Worker /\ Unregister(streams[s].worker)
      BY <2>3 DEF StreamEnds, Shape, StreamsOK
    <3> QED BY <3>1, UnregisterKeeps DEF Shape
  <2> QED BY <1>1, <1>5, <2>1, <2>2, <2>3
          DEF PollStream, Deliver, Break, DropReceiver, CleanUp, TaskDone
<1>6. CASE Acknowledge
  <2>1. ASSUME NEW e \in exec, NEW o \in Outcome, AckJob(e, o)
        PROVE  workers'[w].tx = workers[w].tx
    BY <1>2, <2>1, ShapeFacts DEF AckJob
  <2> QED BY <1>1, <1>6, <2>1
          DEF Acknowledge, QueueAck, AckAborted, AckDropped, CommitBatch, CommitFails
<1>7. CASE UNCHANGED vars
  BY <1>7 DEF vars, registryVars
<1> QED BY <1>3, <1>4, <1>5, <1>6, <1>7 DEF Next

LEMMA RegistrationStep ==
  ASSUME Shape, NoZombieRegistration, [Next]_vars
  PROVE  NoZombieRegistration'
<1> SUFFICES ASSUME NEW w \in Worker, Registered(w)'
             PROVE  /\ streams'[workers'[w].tx].worker = w
                    /\ streams'[workers'[w].tx].task \in {"open", "broken"}
  BY DEF NoZombieRegistration
<1>1. CASE CrashRestart
  <2>1. workers'[w] = Absent
    BY <1>1, EmptyRegistryKeeps DEF CrashRestart
  <2> QED BY <2>1, AbsentEntry DEF Registered
<1>2. ASSUME NEW s \in Stream, NEW o \in Offers[w], Connect(w, s, o)
      PROVE  /\ streams'[workers'[w].tx].worker = w
             /\ streams'[workers'[w].tx].task \in {"open", "broken"}
  <2>1. workers'[w].tx = s
    BY <1>2, RegisterKeeps, ShapeFacts DEF Connect, Shape
  <2>2. streams'[s].worker = w /\ streams'[s].task = "open"
    BY <1>2 DEF Connect, Shape, StreamsOK
  <2> QED BY <2>1, <2>2
<1>3. CASE workers'[w].tx = workers[w].tx /\ ~CrashRestart
  <2>1. workers[w].tx \in Stream /\ Serves(workers[w].tx, w)
    BY <1>3, EntryFacts DEF Registered, Shape, NoZombieRegistration, Serves
  <2>2. CASE StreamEnds(workers[w].tx)
    <3>1. Unregister(w)
      BY <2>1, <2>2 DEF StreamEnds, Serves
    <3>2. workers'[w].tx = NoStream
      BY <3>1, UnregisterKeeps DEF Shape
    <3> QED BY <3>2 DEF Registered
  <2>3. CASE ~StreamEnds(workers[w].tx)
    <3>1. Serves(workers[w].tx, w)'
      BY <1>3, <2>1, <2>3, ServingStays
    <3> QED BY <1>3, <3>1 DEF Serves
  <2> QED BY <2>2, <2>3
<1>4. CASE \E s \in Stream : StreamEnds(s) /\ workers'[w].tx = NoStream
  BY <1>4 DEF Registered
<1> QED BY <1>1, <1>2, <1>3, <1>4, ChannelStays

(* The registry never names a stream whose task has gone, for every constant. *)
THEOREM NoZombie == Spec => []NoZombieRegistration
<1>1. Init => NoZombieRegistration
  BY DEF Init, RegistryInit, NoZombieRegistration, Registered, Absent
<1>2. Shape /\ NoZombieRegistration /\ [Next]_vars => Shape' /\ NoZombieRegistration'
  BY ShapeStep, RegistrationStep
<1> QED BY <1>1, <1>2, ShapeInit, PTL DEF Spec

-----------------------------------------------------------------------------
(* While ids do not come back, a worker that connects has no entry.           *)
LEMMA ConnectIsFresh ==
  ASSUME Shape, NoZombieRegistration, ReuseIds = FALSE,
         NEW s \in Stream, NEW w \in Worker, NEW o \in Offers[w], Connect(w, s, o)
  PROVE  ~Registered(w)
<1>1. ~Known(w)
  BY DEF Connect
<1>2. Registered(w) => workers[w].tx \in Stream /\ streams[workers[w].tx].worker = w
  BY EntryFacts DEF Shape, NoZombieRegistration
<1> QED BY <1>1, <1>2 DEF Known

LEMMA BackedStep ==
  ASSUME Shape, NoZombieRegistration, ReuseIds = FALSE, Backed, NoLeftovers, [Next]_vars
  PROVE  Backed' /\ NoLeftovers'
<1>1. CASE Connects
  BY <1>1, ConnectIsFresh, RegisterBacks, ShapeFacts DEF Connects, Connect, Shape
<1>2. CASE OtherMethod
  BY <1>2, OtherMethodBacks DEF Shape
<1>3. CASE UNCHANGED registryVars
  BY <1>3 DEF registryVars, Backed, NoLeftovers, Registered
<1> QED BY <1>1, <1>2, <1>3, RegistryMethod

(* Whatever fails, job_completed and the cleanup of a stream find real slots, *)
(* as long as no worker comes back under an id it had: for every constant.    *)
THEOREM AssignmentsNameHolders ==
  ASSUME ReuseIds = FALSE
  PROVE  Spec => []AssignmentsBacked
<1>1. Init => NoZombieRegistration /\ Backed /\ NoLeftovers
  BY DEF Init, RegistryInit, NoZombieRegistration, Registered, Absent, Backed, NoLeftovers
<1>2. /\ Shape /\ NoZombieRegistration /\ Backed /\ NoLeftovers /\ [Next]_vars
      => Shape' /\ NoZombieRegistration' /\ Backed' /\ NoLeftovers'
  BY ShapeStep, RegistrationStep, BackedStep
<1>3. Backed => AssignmentsBacked
  BY DEF Backed, AssignmentsBacked
<1> QED BY <1>1, <1>2, <1>3, ShapeInit, PTL DEF Spec
=============================================================================
