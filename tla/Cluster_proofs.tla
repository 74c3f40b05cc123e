------------------------- MODULE Cluster_proofs -------------------------
(***************************************************************************)
(* Proofs about several servers on one Postgres, for any number of         *)
(* servers, jobs and faults: the types, that no RUNNING row is forgotten,  *)
(* that an undisturbed job has one execution or result at a time and its   *)
(* SUCCESS is final, and that the servers together keep max_attempts.      *)
(***************************************************************************)
EXTENDS Cluster, JobStore_proofs, SequenceTheorems, FiniteSetTheorems

(* What a call of update_job_results has written, by its stage. *)
GoodCall(b) ==
  /\ b.stage = "successes" =>
       /\ DOMAIN b.writes \subseteq b.wins
       /\ \A j \in DOMAIN b.writes : b.writes[j] = "SUCCESS"
  /\ b.stage = "failures" =>
       /\ b.wins = {}
       /\ \A j \in DOMAIN b.writes : b.writes[j] \in {"PENDING", "DEAD"}

BatchesOK == \A n \in Node : InCall(n) => GoodCall(batch[n])

Shape == TypeOK /\ BatchesOK

-----------------------------------------------------------------------------
(* A call and its parts. *)
Written0 == UNION {[S -> Status] : S \in SUBSET Job}
Todo0 == UNION {[S -> Ack] : S \in SUBSET (1..BatchMax)}

LEMMA PartOfCall ==
  ASSUME TypeOK, NEW n \in Node, InCall(n)
  PROVE  /\ batch[n] \in Batch
         /\ batch[n].wins \subseteq Job
         /\ batch[n].todo \in Todo0 /\ batch[n].writes \in Written0
         /\ batch[n].read \in Nat \cup {NoRead}
         /\ batch[n].stage \in {"successes", "failures"}
<1>1. batch[n] \in Batch
  BY DEF TypeOK, InCall
<1> QED BY <1>1 DEF Batch, Todo0, Written0

LEMMA WrittenType ==
  ASSUME NEW S, S \subseteq Job, NEW g, \A j \in S : g[j] \in Status
  PROVE  [j \in S |-> g[j]] \in Written0
<1>1. [j \in S |-> g[j]] \in [S -> Status]
  OBVIOUS
<1> QED BY <1>1 DEF Written0

LEMMA WrittenParts ==
  ASSUME NEW f \in Written0
  PROVE  DOMAIN f \subseteq Job /\ \A j \in DOMAIN f : f[j] \in Status
<1>1. PICK S \in SUBSET Job : f \in [S -> Status]
  BY DEF Written0
<1> QED BY <1>1

LEMMA TodoType ==
  ASSUME NEW S, S \subseteq 1..BatchMax, NEW g, \A i \in S : g[i] \in Ack
  PROVE  [i \in S |-> g[i]] \in Todo0
<1>1. [i \in S |-> g[i]] \in [S -> Ack]
  OBVIOUS
<1> QED BY <1>1 DEF Todo0

LEMMA TodoParts ==
  ASSUME NEW f \in Todo0
  PROVE  DOMAIN f \subseteq 1..BatchMax /\ \A i \in DOMAIN f : f[i] \in Ack
<1>1. PICK S \in SUBSET (1..BatchMax) : f \in [S -> Ack]
  BY DEF Todo0
<1> QED BY <1>1

LEMMA NothingType == Nothing \in Todo0 /\ Nothing \in Written0 /\ DOMAIN Nothing = {}
<1>1. DOMAIN Nothing = {}
  BY DEF Nothing
<1>2. Nothing \in [{} -> Status] /\ Nothing \in [{} -> Ack]
  BY DEF Nothing
<1> QED BY <1>1, <1>2 DEF Todo0, Written0

(* The failure that is next. *)
LEMMA CurrentIsTodo ==
  ASSUME TypeOK, NEW n \in Node, InCall(n), HasMore(n)
  PROVE  /\ First(batch[n].todo) \in DOMAIN batch[n].todo
         /\ Current(n) \in Ack
<1>1. batch[n].todo \in Todo0
  BY PartOfCall
<1>2. /\ DOMAIN batch[n].todo \subseteq 1..BatchMax
      /\ \A i \in DOMAIN batch[n].todo : batch[n].todo[i] \in Ack
  BY <1>1, TodoParts
<1>3. \E i \in DOMAIN batch[n].todo : \A k \in DOMAIN batch[n].todo : i <= k
  <2> DEFINE S == DOMAIN batch[n].todo
  <2>1. S \subseteq Nat /\ S # {}
    BY <1>2 DEF HasMore
  <2> HIDE DEF S
  <2>2. \E i \in S : \A k \in S : i <= k
    <3>1. PICK i0 \in S : TRUE
      BY <2>1
    <3> QED BY <2>1, <3>1, SmallestOf
  <2> QED BY <2>2 DEF S
<1> QED BY <1>2, <1>3 DEF First, Current

-----------------------------------------------------------------------------
(* The table, one row at a time.  A job retried with a result under way may *)
(* exceed its budget, so only the types of JobStore are kept here.          *)

OneRow(j) ==
  \/ InsertJob(j) \/ BecomeDue(j) \/ ClaimAndFetchJobs({j})
  \/ ResetStaleJob(j) \/ CancelJob(j) \/ RetryJob(j)

LEMMA OneRowKeeps ==
  ASSUME StoreTypeOK, NEW j \in Job, OneRow(j)
  PROVE  StoreTypeOK' /\ \A i \in Job \ {j} : jobs'[i] = jobs[i]
<1>1. jobs[j] \in Row /\ jobs[j].attempt \in Nat /\ jobs[j].due \in BOOLEAN /\ resets[j] \in Nat
  BY DEF StoreTypeOK, Row
<1>2. CASE InsertJob(j)
  BY <1>1, <1>2 DEF InsertJob, StoreTypeOK, Row, Status
<1>3. CASE BecomeDue(j)
  BY <1>1, <1>3 DEF BecomeDue, StoreTypeOK, Row, Status
<1>4. CASE ClaimAndFetchJobs({j})
  <2>1. Claimed(jobs[j]) \in Row
    BY <1>1, DerivedRows
  <2> QED BY <2>1, <1>4 DEF ClaimAndFetchJobs, StoreTypeOK
<1>5. CASE ResetStaleJob(j)
  <2>1. Requeued(jobs[j]) \in Row
    BY <1>1, DerivedRows
  <2> QED BY <2>1, <1>1, <1>5 DEF ResetStaleJob, StoreTypeOK
<1>6. CASE CancelJob(j)
  BY <1>1, <1>6 DEF CancelJob, StoreTypeOK, Row, Status
<1>7. CASE RetryJob(j)
  BY <1>1, <1>7 DEF RetryJob, StoreTypeOK, Row, Status
<1> QED BY <1>2, <1>3, <1>4, <1>5, <1>6, <1>7 DEF OneRow

(* What a commit makes of the rows: those written take the status written,  *)
(* the others stay.                                                         *)
LEMMA CommittedRows ==
  ASSUME Shape, NEW n \in Node, InCall(n), jobs' = Committed(n), resets' = resets
  PROVE  /\ StoreTypeOK'
         /\ \A j \in Job \ DOMAIN batch[n].writes : jobs'[j] = jobs[j]
         /\ \A j \in DOMAIN batch[n].writes : jobs'[j].status = batch[n].writes[j]
<1>1. DOMAIN batch[n].writes \subseteq Job /\ \A j \in DOMAIN batch[n].writes : batch[n].writes[j] \in Status
  BY PartOfCall, WrittenParts DEF Shape
<1>2. ASSUME NEW j \in Job
      PROVE  /\ jobs'[j] \in Row
             /\ j \notin DOMAIN batch[n].writes => jobs'[j] = jobs[j]
             /\ j \in DOMAIN batch[n].writes => jobs'[j].status = batch[n].writes[j]
  <2>1. jobs[j] \in Row
    BY DEF Shape, TypeOK, StoreTypeOK
  <2>2. CASE j \in DOMAIN batch[n].writes
    <3>1. jobs'[j] = [jobs[j] EXCEPT !.status = batch[n].writes[j],
                                     !.due = @ /\ batch[n].writes[j] # "PENDING"]
      BY <2>2 DEF Committed
    <3>2. batch[n].writes[j] \in Status
      BY <1>1, <2>2
    <3>3. (jobs[j].due /\ batch[n].writes[j] # "PENDING") \in BOOLEAN
      OBVIOUS
    <3> QED BY <2>1, <2>2, <3>1, <3>2, <3>3 DEF Row
  <2>3. CASE j \notin DOMAIN batch[n].writes
    BY <2>1, <2>3 DEF Committed
  <2> QED BY <2>2, <2>3
<1>3. StoreTypeOK'
  <2>1. DOMAIN jobs' = Job /\ jobs' = [j \in Job |-> jobs'[j]]
    BY DEF Committed
  <2> QED BY <2>1, <1>2 DEF Shape, TypeOK, StoreTypeOK
<1> QED BY <1>1, <1>2, <1>3

-----------------------------------------------------------------------------
(* The queue of a server's processor. *)

WinsOf(q, k) == {q[i].job : i \in {i \in 1..k : q[i].outcome = "success"}}
TodoOf(q, k) == [i \in {i \in 1..k : q[i].outcome # "success"} |-> q[i]]

LEMMA QueueParts ==
  ASSUME NEW q \in Seq(Ack)
  PROVE  /\ Len(q) \in Nat /\ DOMAIN q = 1..Len(q)
         /\ \A i \in 1..Len(q) : q[i] \in Ack /\ q[i].job \in Job
         /\ JobsIn(q) \subseteq Job
<1>1. /\ Len(q) \in Nat /\ DOMAIN q = 1..Len(q)
      /\ \A i \in 1..Len(q) : q[i] \in Ack
  OBVIOUS
<1>2. \A i \in 1..Len(q) : q[i].job \in Job
  BY <1>1 DEF Ack
<1> QED BY <1>1, <1>2 DEF JobsIn

LEMMA AppendJobs ==
  ASSUME NEW q \in Seq(Ack), NEW a \in Ack
  PROVE  /\ Append(q, a) \in Seq(Ack)
         /\ JobsIn(Append(q, a)) = JobsIn(q) \cup {a.job}
         /\ \A j \in Job : Once(q, j) /\ (a.job = j => j \notin JobsIn(q)) => Once(Append(q, a), j)
<1> DEFINE l == Append(q, a)
<1>1. /\ Len(q) \in Nat /\ DOMAIN q = 1..Len(q) /\ l \in Seq(Ack)
      /\ DOMAIN l = 1..(Len(q) + 1) /\ l[Len(q) + 1] = a
      /\ \A k \in 1..Len(q) : l[k] = q[k]
  BY QueueParts, AppendProperties
<1> HIDE DEF l
<1>2. JobsIn(l) = JobsIn(q) \cup {a.job}
  BY <1>1 DEF JobsIn
<1>3. ASSUME NEW j \in Job, Once(q, j), a.job = j => j \notin JobsIn(q)
      PROVE  Once(l, j)
  <2> SUFFICES ASSUME NEW i \in DOMAIN l, NEW k \in DOMAIN l, l[i].job = j, l[k].job = j
               PROVE  i = k
    BY DEF Once
  <2>1. \A m \in DOMAIN l : m \in DOMAIN q \/ m = Len(q) + 1
    BY <1>1
  <2>2. CASE a.job = j
    BY <1>1, <1>3, <2>1, <2>2 DEF JobsIn
  <2>3. CASE a.job # j
    BY <1>1, <1>3, <2>1, <2>3 DEF Once
  <2> QED BY <2>2, <2>3
<1> QED BY <1>1, <1>2, <1>3 DEF l

(* Taking a batch parts the queue in three: no result is lost or doubled.   *)
LEMMA TakeJobs ==
  ASSUME NEW q \in Seq(Ack), NEW k \in 1..BatchMax, k <= Len(q)
  PROVE  /\ SubSeq(q, k + 1, Len(q)) \in Seq(Ack)
         /\ WinsOf(q, k) \subseteq Job /\ TodoOf(q, k) \in Todo0
         /\ JobsIn(q) = WinsOf(q, k) \cup JobsIn(TodoOf(q, k)) \cup JobsIn(SubSeq(q, k + 1, Len(q)))
         /\ \A j \in Job : Once(q, j) =>
              /\ Once(SubSeq(q, k + 1, Len(q)), j)
              /\ ~(j \in WinsOf(q, k) /\ j \in JobsIn(TodoOf(q, k)))
              /\ j \in WinsOf(q, k) \/ j \in JobsIn(TodoOf(q, k)) => j \notin JobsIn(SubSeq(q, k + 1, Len(q)))
<1> DEFINE L == Len(q)
           rest == SubSeq(q, k + 1, L)
           W == WinsOf(q, k)
           T == TodoOf(q, k)
<1>0. BatchMax \in Nat /\ k \in Nat /\ k > 0
  BY StoreAssumption
<1>1. /\ L \in Nat /\ k <= L /\ DOMAIN q = 1..L
      /\ \A i \in 1..L : q[i] \in Ack /\ q[i].job \in Job
  BY QueueParts
<1>2. /\ rest \in Seq(Ack) /\ DOMAIN rest = 1..(L - k)
      /\ \A i \in 1..(L - k) : rest[i] = q[k + i]
  <2>1. \A i \in (k + 1)..L : q[i] \in Ack
    BY <1>0, <1>1
  <2> HIDE DEF L
  <2>2. /\ rest \in Seq(Ack)
        /\ Len(rest) = IF k + 1 <= L THEN L - (k + 1) + 1 ELSE 0
        /\ \A i \in 1..(L - (k + 1) + 1) : rest[i] = q[(k + 1) + i - 1]
    BY <1>0, <1>1, <2>1, SubSeqProperties
  <2> HIDE DEF rest
  <2>3. Len(rest) = L - k
    BY <1>0, <1>1, <2>2
  <2>4. DOMAIN rest = 1..(L - k)
    BY <2>2, <2>3
  <2>5. \A i \in 1..(L - k) : rest[i] = q[k + i]
    <3> SUFFICES ASSUME NEW i \in 1..(L - k) PROVE rest[i] = q[k + i]
      OBVIOUS
    <3>1. i \in 1..(L - (k + 1) + 1) /\ (k + 1) + i - 1 = k + i
      BY <1>0, <1>1
    <3> QED BY <2>2, <3>1
  <2> QED BY <2>2, <2>4, <2>5
<1>3. /\ DOMAIN T = {i \in 1..k : q[i].outcome # "success"}
      /\ \A i \in DOMAIN T : T[i] = q[i]
  BY DEF TodoOf
<1>4. T \in Todo0
  <2>1. DOMAIN T \subseteq 1..BatchMax /\ \A i \in DOMAIN T : q[i] \in Ack
    BY <1>0, <1>1, <1>3
  <2>2. [i \in DOMAIN T |-> q[i]] \in Todo0
    BY <2>1, TodoType
  <2>3. T = [i \in DOMAIN T |-> q[i]]
    BY DEF TodoOf
  <2> QED BY <2>2, <2>3
<1>5. W = {q[i].job : i \in {i \in 1..k : q[i].outcome = "success"}}
  BY DEF WinsOf
<1>6. W \subseteq Job
  BY <1>0, <1>1, <1>5
<1>7. \A j : j \in JobsIn(rest) <=> \E i \in (k + 1)..L : q[i].job = j
  <2>1. \A i \in 1..(L - k) : k + i \in (k + 1)..L /\ rest[i] = q[k + i]
    BY <1>0, <1>1, <1>2
  <2>2. \A i \in (k + 1)..L : i - k \in 1..(L - k) /\ k + (i - k) = i
    BY <1>0, <1>1
  <2> HIDE DEF rest, L
  <2>3. \A i \in (k + 1)..L : rest[i - k] = q[i]
    BY <1>2, <2>2
  <2>4. \A j : j \in JobsIn(rest) <=> \E i \in 1..(L - k) : rest[i].job = j
    BY <1>2 DEF JobsIn
  <2>5. ASSUME NEW j, NEW i \in 1..(L - k), rest[i].job = j
        PROVE  \E m \in (k + 1)..L : q[m].job = j
    <3>1. k + i \in (k + 1)..L /\ q[k + i].job = j
      BY <2>1, <2>5
    <3> QED BY <3>1
  <2>6. ASSUME NEW j, NEW i \in (k + 1)..L, q[i].job = j
        PROVE  \E m \in 1..(L - k) : rest[m].job = j
    <3>1. i - k \in 1..(L - k) /\ rest[i - k].job = j
      BY <2>2, <2>3, <2>6
    <3> QED BY <3>1
  <2> QED BY <2>4, <2>5, <2>6
<1>8. \A j : j \in JobsIn(T) <=> \E i \in 1..k : q[i].outcome # "success" /\ q[i].job = j
  <2> HIDE DEF T
  <2> QED BY <1>3 DEF JobsIn
<1>9. \A j : j \in JobsIn(q) <=> \E i \in 1..L : q[i].job = j
  BY <1>1 DEF JobsIn
<1>10. \A i : i \in 1..L <=> i \in 1..k \/ i \in (k + 1)..L
  BY <1>0, <1>1
<1>11. \A j : j \in W <=> \E i \in 1..k : q[i].outcome = "success" /\ q[i].job = j
  BY <1>5
<1> HIDE DEF rest, T, W, L
<1>12. JobsIn(q) = W \cup JobsIn(T) \cup JobsIn(rest)
  BY <1>7, <1>8, <1>9, <1>10, <1>11
<1>13. ASSUME NEW j \in Job, Once(q, j)
       PROVE  /\ Once(rest, j) /\ ~(j \in W /\ j \in JobsIn(T))
              /\ j \in W \/ j \in JobsIn(T) => j \notin JobsIn(rest)
  <2>1. \A i, m \in 1..L : q[i].job = j /\ q[m].job = j => i = m
    BY <1>1, <1>13 DEF Once
  <2>2. Once(rest, j)
    <3> SUFFICES ASSUME NEW i \in 1..(L - k), NEW m \in 1..(L - k), rest[i].job = j, rest[m].job = j
                 PROVE  i = m
      BY <1>2 DEF Once
    <3>1. q[k + i].job = j /\ q[k + m].job = j /\ k + i \in 1..L /\ k + m \in 1..L
      BY <1>0, <1>1, <1>2
    <3> QED BY <1>0, <1>1, <2>1, <3>1
  <2>3. ~(j \in W /\ j \in JobsIn(T))
    BY <1>8, <1>10, <1>11, <2>1
  <2>4. \A i \in 1..k, m \in (k + 1)..L : i # m
    BY <1>0, <1>1
  <2>5. j \in W \/ j \in JobsIn(T) => j \notin JobsIn(rest)
    BY <1>7, <1>8, <1>10, <1>11, <2>1, <2>4
  <2> QED BY <2>2, <2>3, <2>5
<1> QED BY <1>2, <1>4, <1>6, <1>12, <1>13 DEF rest, T, W, L

-----------------------------------------------------------------------------
(* Types of the rest of the state. *)
LEMMA SpendType ==
  ASSUME TypeOK, NEW h \in Hazard, Spend(h)
  PROVE  left' \in [Hazard -> Nat]
BY DEF TypeOK, Spend

LEMMA InHandType ==
  ASSUME TypeOK, NEW n \in Node
  PROVE  /\ JobsIn(acks[n]) \subseteq Job /\ InHand(n) \subseteq Job
         /\ InCall(n) => JobsIn(batch[n].todo) \subseteq Job
<1>1. JobsIn(acks[n]) \subseteq Job
  BY QueueParts DEF TypeOK
<1>2. ASSUME InCall(n)
      PROVE  /\ batch[n].wins \subseteq Job /\ DOMAIN batch[n].writes \subseteq Job
             /\ JobsIn(batch[n].todo) \subseteq Job
  <2>1. batch[n].todo \in Todo0 /\ batch[n].writes \in Written0 /\ batch[n].wins \subseteq Job
    BY <1>2, PartOfCall
  <2>2. \A i \in DOMAIN batch[n].todo : batch[n].todo[i].job \in Job
    BY <2>1, TodoParts DEF Ack
  <2> QED BY <2>1, <2>2, WrittenParts DEF JobsIn
<1> QED BY <1>1, <1>2 DEF InHand

(* One server's call changes; those of the others stay.                     *)
LEMMA CallChanges ==
  ASSUME Shape, NEW n \in Node, NEW b \in Batch \cup {NoBatch}, b # NoBatch => GoodCall(b),
         batch' = [batch EXCEPT ![n] = b]
  PROVE  batch' \in [Node -> Batch \cup {NoBatch}] /\ BatchesOK'
<1>1. batch \in [Node -> Batch \cup {NoBatch}]
  BY DEF Shape, TypeOK
<1>2. batch'[n] = b /\ \A m \in Node \ {n} : batch'[m] = batch[m]
  BY <1>1
<1>3. ASSUME NEW m \in Node, batch'[m] # NoBatch PROVE GoodCall(batch'[m])
  BY <1>2, <1>3 DEF Shape, BatchesOK, InCall
<1>4. BatchesOK'
  BY <1>3 DEF BatchesOK, InCall
<1> QED BY <1>1, <1>4

(* A call in one of its stages.                                             *)
LEMMA CallType ==
  ASSUME NEW w \in SUBSET Job, NEW t \in Todo0, NEW f \in Written0,
         NEW r \in Nat \cup {NoRead}, NEW s \in {"successes", "failures"}
  PROVE  [wins |-> w, todo |-> t, writes |-> f, read |-> r, stage |-> s] \in Batch
BY DEF Batch, Todo0, Written0

(* What the steps make of a call is a call.                                 *)
LEMMA CallExcept ==
  ASSUME NEW c \in Batch, NEW t \in Todo0, NEW f \in Written0, NEW r \in Nat \cup {NoRead}
  PROVE  /\ [c EXCEPT !.writes = f] \in Batch
         /\ [c EXCEPT !.stage = "failures", !.writes = f, !.wins = {}] \in Batch
         /\ [c EXCEPT !.read = r] \in Batch
         /\ [c EXCEPT !.writes = f, !.todo = t, !.read = NoRead] \in Batch
<1>1. Batch = [wins : SUBSET Job, todo : Todo0, writes : Written0, read : Nat \cup {NoRead},
               stage : {"successes", "failures"}]
  BY DEF Batch, Todo0, Written0
<1> QED BY <1>1

(* A row more is written.                                                   *)
LEMMA WrittenMore ==
  ASSUME TypeOK, NEW n \in Node, InCall(n), NEW j \in Job, NEW s \in Status
  PROVE  /\ Written(n, j, s) \in Written0
         /\ DOMAIN Written(n, j, s) = DOMAIN batch[n].writes \cup {j}
         /\ \A i \in DOMAIN Written(n, j, s) :
              Written(n, j, s)[i] = IF i = j THEN s ELSE batch[n].writes[i]
<1> DEFINE S == DOMAIN batch[n].writes \cup {j}
           g == [i \in S |-> IF i = j THEN s ELSE batch[n].writes[i]]
<1>1. DOMAIN batch[n].writes \subseteq Job /\ \A i \in DOMAIN batch[n].writes : batch[n].writes[i] \in Status
  BY PartOfCall, WrittenParts
<1>2. S \subseteq Job /\ \A i \in S : g[i] \in Status
  BY <1>1
<1>3. [i \in S |-> g[i]] \in Written0
  <2> HIDE DEF S, g
  <2> QED BY <1>2, WrittenType
<1>4. [i \in S |-> g[i]] = g /\ Written(n, j, s) = g
  BY DEF Written
<1> QED BY <1>3, <1>4

-----------------------------------------------------------------------------
(* Effects of the steps of update_job_results. *)

LEMMA TakeBatchEffect ==
  ASSUME Shape, NEW n \in Node, NEW k \in 1..BatchMax, TakeBatch(n, k)
  PROVE  LET q == acks[n]
             b == [wins |-> WinsOf(q, k), todo |-> TodoOf(q, k), writes |-> Nothing, read |-> NoRead,
                   stage |-> IF WinsOf(q, k) = {} THEN "failures" ELSE "successes"]
         IN  /\ q \in Seq(Ack) /\ k <= Len(q) /\ ~InCall(n)
             /\ acks' = [acks EXCEPT ![n] = SubSeq(q, k + 1, Len(q))]
             /\ acks' \in [Node -> Seq(Ack)]
             /\ b \in Batch /\ GoodCall(b) /\ batch' = [batch EXCEPT ![n] = b]
<1> DEFINE q == acks[n]
           s == IF WinsOf(q, k) = {} THEN "failures" ELSE "successes"
           b == [wins |-> WinsOf(q, k), todo |-> TodoOf(q, k), writes |-> Nothing, read |-> NoRead,
                 stage |-> s]
<1>1. q \in Seq(Ack) /\ k <= Len(q) /\ ~InCall(n)
  BY DEF TakeBatch, Shape, TypeOK
<1>2. SubSeq(q, k + 1, Len(q)) \in Seq(Ack) /\ WinsOf(q, k) \subseteq Job /\ TodoOf(q, k) \in Todo0
  BY <1>1, TakeJobs
<1>3. acks' = [acks EXCEPT ![n] = SubSeq(q, k + 1, Len(q))]
  BY DEF TakeBatch
<1>4. batch' = [batch EXCEPT ![n] = b]
  BY DEF TakeBatch, WinsOf, TodoOf
<1>5. Nothing \in Written0 /\ DOMAIN Nothing = {}
  BY NothingType
<1>6. b \in Batch
  BY <1>2, <1>5, CallType
<1>7. GoodCall(b)
  BY <1>5 DEF GoodCall
<1>8. acks' \in [Node -> Seq(Ack)]
  BY <1>2, <1>3 DEF Shape, TypeOK
<1> QED BY <1>1, <1>3, <1>4, <1>6, <1>7, <1>8

LEMMA LockSuccessEffect ==
  ASSUME Shape, NEW n \in Node, NEW j \in Job, LockSuccess(n, j)
  PROVE  LET b == [batch[n] EXCEPT !.writes = Written(n, j, "SUCCESS")]
         IN  /\ b \in Batch /\ GoodCall(b) /\ batch' = [batch EXCEPT ![n] = b]
             /\ InCall(n) /\ j \in batch[n].wins /\ batch[n].stage = "successes"
             /\ b.wins = batch[n].wins /\ b.todo = batch[n].todo /\ b.stage = batch[n].stage
             /\ DOMAIN b.writes = DOMAIN batch[n].writes \cup {j}
<1> DEFINE w == Written(n, j, "SUCCESS")
           b == [batch[n] EXCEPT !.writes = w]
<1>1. /\ InCall(n) /\ batch[n].stage = "successes" /\ j \in batch[n].wins
      /\ batch' = [batch EXCEPT ![n] = b]
  BY DEF LockSuccess
<1>2. /\ w \in Written0 /\ DOMAIN w = DOMAIN batch[n].writes \cup {j}
      /\ \A i \in DOMAIN w : w[i] = IF i = j THEN "SUCCESS" ELSE batch[n].writes[i]
  BY <1>1, WrittenMore DEF Shape, Status
<1>3. /\ batch[n] \in Batch /\ batch[n].wins \subseteq Job /\ batch[n].todo \in Todo0
      /\ batch[n].read \in Nat \cup {NoRead} /\ GoodCall(batch[n])
  BY <1>1, PartOfCall DEF Shape, BatchesOK
<1>4. /\ b.wins = batch[n].wins /\ b.todo = batch[n].todo /\ b.stage = batch[n].stage
      /\ b.writes = w
  <2> HIDE DEF w
  <2> QED BY <1>3 DEF Batch
<1>5. b \in Batch
  BY <1>2, <1>3, CallExcept
<1>6. GoodCall(b)
  <2> HIDE DEF w, b
  <2> QED BY <1>1, <1>2, <1>3, <1>4 DEF GoodCall
<1> QED BY <1>1, <1>2, <1>4, <1>5, <1>6

LEMMA CommitSuccessesEffect ==
  ASSUME Shape, NEW n \in Node, CommitSuccesses(n)
  PROVE  LET b == [batch[n] EXCEPT !.stage = "failures", !.writes = Nothing, !.wins = {}]
         IN  /\ b \in Batch /\ GoodCall(b) /\ batch' = [batch EXCEPT ![n] = b]
             /\ InCall(n) /\ b.wins = {} /\ b.todo = batch[n].todo /\ DOMAIN b.writes = {}
             /\ StoreTypeOK'
             /\ \A j \in Job \ batch[n].wins : jobs'[j] = jobs[j]
             /\ \A j \in batch[n].wins : jobs'[j].status = "SUCCESS"
             /\ batch[n].wins = DOMAIN batch[n].writes
<1> DEFINE b == [batch[n] EXCEPT !.stage = "failures", !.writes = Nothing, !.wins = {}]
<1>1. /\ InCall(n) /\ batch[n].stage = "successes" /\ batch[n].wins = DOMAIN batch[n].writes
      /\ jobs' = Committed(n) /\ resets' = resets
  BY DEF CommitSuccesses
<1>2. batch' = [batch EXCEPT ![n] = b]
  BY DEF CommitSuccesses
<1>3. /\ batch[n].todo \in Todo0 /\ batch[n].read \in Nat \cup {NoRead} /\ GoodCall(batch[n])
  BY <1>1, PartOfCall DEF Shape, BatchesOK
<1>4. Nothing \in Written0 /\ DOMAIN Nothing = {} /\ batch[n] \in Batch
  BY <1>1, NothingType, PartOfCall DEF Shape
<1>5. b.wins = {} /\ b.todo = batch[n].todo /\ b.stage = "failures" /\ b.writes = Nothing
  BY <1>4 DEF Batch
<1>6. b \in Batch
  BY <1>3, <1>4, CallExcept
<1>7. GoodCall(b)
  <2> HIDE DEF b
  <2> QED BY <1>4, <1>5 DEF GoodCall
<1>8. /\ StoreTypeOK'
      /\ \A j \in Job \ batch[n].wins : jobs'[j] = jobs[j]
      /\ \A j \in batch[n].wins : jobs'[j].status = "SUCCESS"
  BY <1>1, <1>3, CommittedRows DEF GoodCall
<1> QED BY <1>1, <1>2, <1>4, <1>5, <1>6, <1>7, <1>8

LEMMA ReadAttemptEffect ==
  ASSUME Shape, NEW n \in Node, ReadAttempt(n)
  PROVE  LET b == [batch[n] EXCEPT !.read = jobs[Current(n).job].attempt]
         IN  /\ b \in Batch /\ GoodCall(b) /\ batch' = [batch EXCEPT ![n] = b]
             /\ InCall(n) /\ b.wins = batch[n].wins /\ b.todo = batch[n].todo
             /\ b.writes = batch[n].writes /\ b.stage = batch[n].stage
<1> DEFINE a == jobs[Current(n).job].attempt
           b == [batch[n] EXCEPT !.read = a]
<1>1. InCall(n) /\ HasMore(n) /\ batch' = [batch EXCEPT ![n] = b]
  BY DEF ReadAttempt
<1>2. a \in Nat
  <2>1. Current(n).job \in Job
    BY <1>1, CurrentIsTodo DEF Shape, Ack
  <2> QED BY <2>1 DEF Shape, TypeOK, StoreTypeOK, Row
<1> HIDE DEF a
<1>3. /\ batch[n].wins \subseteq Job /\ batch[n].todo \in Todo0 /\ batch[n].writes \in Written0
      /\ batch[n] \in Batch /\ GoodCall(batch[n])
  BY <1>1, PartOfCall DEF Shape, BatchesOK
<1>4. /\ b.wins = batch[n].wins /\ b.todo = batch[n].todo /\ b.stage = batch[n].stage
      /\ b.writes = batch[n].writes
  BY <1>3 DEF Batch
<1>5. b \in Batch
  BY <1>2, <1>3, CallExcept
<1>6. GoodCall(b)
  <2> HIDE DEF b
  <2> QED BY <1>3, <1>4 DEF GoodCall
<1> QED BY <1>1, <1>4, <1>5, <1>6 DEF a

LEMMA WriteFailureEffect ==
  ASSUME Shape, NEW n \in Node, WriteFailure(n)
  PROVE  LET b == [batch[n] EXCEPT !.writes = Written(n, Current(n).job, Verdict(Current(n), batch[n].read)),
                                   !.todo = Rest(@), !.read = NoRead]
         IN  /\ b \in Batch /\ GoodCall(b) /\ batch' = [batch EXCEPT ![n] = b]
             /\ InCall(n) /\ b.wins = batch[n].wins /\ batch[n].stage = "failures" /\ b.stage = "failures"
             /\ Current(n).job \in JobsIn(batch[n].todo)
             /\ JobsIn(batch[n].todo) = JobsIn(b.todo) \cup {Current(n).job}
             /\ DOMAIN b.writes = DOMAIN batch[n].writes \cup {Current(n).job}
<1> DEFINE c == Current(n)
           v == Verdict(c, batch[n].read)
           w == Written(n, c.job, v)
           t == Rest(batch[n].todo)
           b == [batch[n] EXCEPT !.writes = w, !.todo = t, !.read = NoRead]
<1>1. /\ InCall(n) /\ HasMore(n) /\ batch[n].stage = "failures" /\ batch' = [batch EXCEPT ![n] = b]
  BY DEF WriteFailure
<1>2. /\ First(batch[n].todo) \in DOMAIN batch[n].todo /\ c = batch[n].todo[First(batch[n].todo)]
      /\ c \in Ack /\ c.job \in Job
  BY <1>1, CurrentIsTodo DEF Shape, Ack, Current
<1>3. v \in {"PENDING", "DEAD"} /\ v \in Status
  BY DEF Verdict, Status
<1>4. /\ w \in Written0 /\ DOMAIN w = DOMAIN batch[n].writes \cup {c.job}
      /\ \A i \in DOMAIN w : w[i] = IF i = c.job THEN v ELSE batch[n].writes[i]
  <2>1. \A k \in Job : \A x \in Status :
          /\ Written(n, k, x) \in Written0
          /\ DOMAIN Written(n, k, x) = DOMAIN batch[n].writes \cup {k}
          /\ \A i \in DOMAIN Written(n, k, x) :
               Written(n, k, x)[i] = IF i = k THEN x ELSE batch[n].writes[i]
    BY <1>1, WrittenMore DEF Shape
  <2> HIDE DEF c, v
  <2> QED BY <1>2, <1>3, <2>1
<1>5. /\ batch[n] \in Batch /\ batch[n].todo \in Todo0 /\ GoodCall(batch[n])
  BY <1>1, PartOfCall DEF Shape, BatchesOK
<1>6. /\ DOMAIN t = DOMAIN batch[n].todo \ {First(batch[n].todo)}
      /\ \A i \in DOMAIN t : t[i] = batch[n].todo[i]
  BY DEF Rest
<1>7. t \in Todo0
  <2>1. /\ DOMAIN t \subseteq 1..BatchMax
        /\ \A i \in DOMAIN t : batch[n].todo[i] \in Ack
    BY <1>5, <1>6, TodoParts
  <2>2. [i \in DOMAIN t |-> batch[n].todo[i]] \in Todo0
    <3> HIDE DEF t
    <3> QED BY <2>1, TodoType
  <2>3. t = [i \in DOMAIN t |-> batch[n].todo[i]]
    BY DEF Rest
  <2> QED BY <2>2, <2>3
<1>8. JobsIn(batch[n].todo) = JobsIn(t) \cup {c.job} /\ c.job \in JobsIn(batch[n].todo)
  <2> HIDE DEF t
  <2> QED BY <1>2, <1>6 DEF JobsIn
<1>9. /\ b.wins = batch[n].wins /\ b.todo = t /\ b.stage = "failures" /\ b.writes = w
      /\ b \in Batch
  <2> HIDE DEF w, t
  <2>1. b.wins = batch[n].wins /\ b.todo = t /\ b.stage = batch[n].stage /\ b.writes = w
    BY <1>5 DEF Batch
  <2>2. b \in Batch
    BY <1>4, <1>5, <1>7, CallExcept
  <2> QED BY <1>1, <2>1, <2>2
<1>10. GoodCall(b)
  <2> HIDE DEF b, w, t, v, c
  <2> QED BY <1>1, <1>3, <1>4, <1>5, <1>9 DEF GoodCall
<1> QED BY <1>1, <1>4, <1>8, <1>9, <1>10

LEMMA ReturnEffect ==
  ASSUME Shape, NEW n \in Node, Return(n)
  PROVE  /\ InCall(n) /\ batch' = [batch EXCEPT ![n] = NoBatch]
         /\ batch[n].stage = "failures" /\ batch[n].wins = {} /\ JobsIn(batch[n].todo) = {}
         /\ StoreTypeOK'
         /\ \A j \in Job \ DOMAIN batch[n].writes : jobs'[j] = jobs[j]
         /\ \A j \in DOMAIN batch[n].writes : jobs'[j].status \in {"PENDING", "DEAD"}
<1>1. /\ InCall(n) /\ batch[n].stage = "failures" /\ ~HasMore(n) /\ jobs' = Committed(n)
      /\ resets' = resets /\ batch' = [batch EXCEPT ![n] = NoBatch]
  BY DEF Return
<1>2. GoodCall(batch[n])
  BY <1>1 DEF Shape, BatchesOK
<1>3. JobsIn(batch[n].todo) = {}
  BY <1>1 DEF HasMore, JobsIn
<1>4. /\ StoreTypeOK'
      /\ \A j \in Job \ DOMAIN batch[n].writes : jobs'[j] = jobs[j]
      /\ \A j \in DOMAIN batch[n].writes : jobs'[j].status = batch[n].writes[j]
  BY <1>1, CommittedRows
<1> QED BY <1>1, <1>2, <1>3, <1>4 DEF GoodCall

-----------------------------------------------------------------------------
(* The types and the calls are kept by every step. *)
LEMMA RequestsShape ==
  ASSUME Shape, Requests
  PROVE  Shape'
<1>1. PICK j \in Job : Submit(j) \/ Elapse(j) \/ Cancel(j) \/ Retry(j)
  BY DEF Requests
<1>2. OneRow(j) /\ UNCHANGED <<runs, serverVars, lost, disturbed>>
  BY <1>1 DEF OneRow, Submit, Elapse, Cancel, Retry, histVars
<1>3. StoreTypeOK'
  BY <1>2, OneRowKeeps DEF Shape, TypeOK
<1>4. strays' \in SUBSET Job
  BY <1>1 DEF Submit, Elapse, Cancel, Retry, histVars, Shape, TypeOK
<1>5. left' \in [Hazard -> Nat]
  <2>1. {"submit", "cancel", "revive"} \subseteq Hazard
    BY DEF Hazard
  <2> QED BY <1>1, <2>1, SpendType DEF Submit, Elapse, Cancel, Retry, Shape, TypeOK
<1>6. TypeOK'
  BY <1>2, <1>3, <1>4, <1>5 DEF Shape, TypeOK, serverVars
<1>7. BatchesOK'
  BY <1>2 DEF serverVars, Shape, BatchesOK, InCall
<1> QED BY <1>6, <1>7 DEF Shape

LEMMA ReportEffect ==
  ASSUME Shape, NEW n \in Node, NEW r \in runs, NEW o \in Outcome, Report(r, n, o)
  PROVE  LET a == [job |-> r.job, outcome |-> o]
         IN  /\ a \in Ack /\ r \in Run /\ r.job \in Job
             /\ runs' = runs \ {r} /\ acks' = [acks EXCEPT ![n] = Append(acks[n], a)]
             /\ acks' \in [Node -> Seq(Ack)]
             /\ UNCHANGED <<storeVars, power, batch, stale, histVars>>
<1> DEFINE a == [job |-> r.job, outcome |-> o]
<1>1. r \in Run /\ r.job \in Job
  BY DEF Shape, TypeOK, Run
<1>2. a \in Ack
  BY <1>1 DEF Ack
<1>3. /\ runs' = runs \ {r} /\ acks' = [acks EXCEPT ![n] = Append(acks[n], a)]
      /\ UNCHANGED <<storeVars, power, batch, stale, histVars>>
  BY DEF Report
<1> HIDE DEF a
<1>4. acks[n] \in Seq(Ack) /\ Append(acks[n], a) \in Seq(Ack)
  BY <1>2, AppendJobs DEF Shape, TypeOK
<1>5. acks' \in [Node -> Seq(Ack)]
  BY <1>3, <1>4 DEF Shape, TypeOK
<1> QED BY <1>1, <1>2, <1>3, <1>5 DEF a

LEMMA WorkingShape ==
  ASSUME Shape, NEW n \in Node, Working(n)
  PROVE  Shape'
<1>1. ASSUME NEW j \in Job, Claim(n, j)
      PROVE  Shape'
  <2>1. OneRow(j) /\ UNCHANGED <<power, acks, batch, stale, disturbed, strays, left>>
    BY <1>1 DEF OneRow, Claim
  <2>2. StoreTypeOK'
    BY <2>1, OneRowKeeps DEF Shape, TypeOK
  <2>3. runs' \in SUBSET Run
    <3>1. jobs[j].attempt \in Nat
      BY DEF Shape, TypeOK, StoreTypeOK, Row
    <3> QED BY <1>1, <3>1 DEF Claim, Shape, TypeOK, Run
  <2>4. assigned' \in [Node -> SUBSET Job] /\ lost' \in SUBSET Job
    BY <1>1 DEF Claim, Shape, TypeOK
  <2>5. TypeOK'
    BY <2>1, <2>2, <2>3, <2>4 DEF Shape, TypeOK
  <2> QED BY <2>1, <2>5 DEF Shape, BatchesOK, InCall
<1>2. ASSUME NEW j \in Job, TakeBack(n, j)
      PROVE  Shape'
  <2>1. OneRow(j) /\ UNCHANGED <<runs, power, acks, batch, stale, lost, strays>>
    BY <1>2 DEF OneRow, TakeBack
  <2>2. StoreTypeOK'
    BY <2>1, OneRowKeeps DEF Shape, TypeOK
  <2>3. assigned' \in [Node -> SUBSET Job] /\ disturbed' \in SUBSET Job
    BY <1>2 DEF TakeBack, Shape, TypeOK
  <2>4. left' \in [Hazard -> Nat]
    BY <1>2, SpendType DEF TakeBack, Shape, Hazard
  <2>5. TypeOK'
    BY <2>1, <2>2, <2>3, <2>4 DEF Shape, TypeOK
  <2> QED BY <2>1, <2>5 DEF Shape, BatchesOK, InCall
<1>3. ASSUME NEW r \in runs, NEW o \in Outcome, Report(r, n, o)
      PROVE  Shape'
  <2>1. /\ runs' = runs \ {r} /\ acks' \in [Node -> Seq(Ack)]
        /\ UNCHANGED <<storeVars, power, batch, stale, histVars>>
    BY <1>3, ReportEffect
  <2>2. assigned' \in [Node -> SUBSET Job]
    BY <1>3 DEF Report, Shape, TypeOK
  <2>3. left' \in [Hazard -> Nat]
    <3>1. o \in Hazard /\ TypeOK
      BY DEF Hazard, Shape
    <3>2. UNCHANGED left \/ Spend(o)
      BY <1>3 DEF Report
    <3> QED BY <3>1, <3>2, SpendType DEF TypeOK
  <2>4. TypeOK'
    BY <2>1, <2>2, <2>3 DEF Shape, TypeOK, StoreTypeOK, storeVars, histVars
  <2> QED BY <2>1, <2>4 DEF Shape, BatchesOK, InCall
<1> QED BY <1>1, <1>2, <1>3 DEF Working

(* A step of a call that leaves the rest alone.                             *)
LEMMA CallShape ==
  ASSUME Shape, NEW n \in Node, NEW b \in Batch \cup {NoBatch}, b # NoBatch => GoodCall(b),
         batch' = [batch EXCEPT ![n] = b], StoreTypeOK',
         acks' \in [Node -> Seq(Ack)], lost' \in SUBSET Job, left' \in [Hazard -> Nat],
         UNCHANGED <<runs, power, assigned, stale, disturbed, strays>>
  PROVE  Shape'
<1>1. batch' \in [Node -> Batch \cup {NoBatch}] /\ BatchesOK'
  BY CallChanges
<1> QED BY <1>1 DEF Shape, TypeOK

LEMMA CommittingShape ==
  ASSUME Shape, NEW n \in Node, Committing(n)
  PROVE  Shape'
<1>0. /\ StoreTypeOK /\ acks \in [Node -> Seq(Ack)] /\ lost \in SUBSET Job
      /\ left \in [Hazard -> Nat]
  BY DEF Shape, TypeOK
<1> DEFINE Same == UNCHANGED <<runs, power, assigned, stale, disturbed, strays>>
<1>1. ASSUME UNCHANGED storeVars PROVE StoreTypeOK'
  BY <1>0, <1>1 DEF StoreTypeOK, storeVars
<1>2. ASSUME NEW k \in 1..BatchMax, TakeBatch(n, k)
      PROVE  Shape'
  <2>1. PICK b \in Batch : /\ GoodCall(b) /\ batch' = [batch EXCEPT ![n] = b]
                           /\ acks' \in [Node -> Seq(Ack)]
    BY <1>2, TakeBatchEffect
  <2>2. Same /\ UNCHANGED <<storeVars, lost, left>>
    BY <1>2 DEF TakeBatch
  <2> QED BY <1>0, <1>1, <2>1, <2>2, CallShape
<1>3. ASSUME NEW j \in Job, LockSuccess(n, j)
      PROVE  Shape'
  <2>1. PICK b \in Batch : GoodCall(b) /\ batch' = [batch EXCEPT ![n] = b]
    BY <1>3, LockSuccessEffect
  <2>2. Same /\ UNCHANGED <<storeVars, acks, lost, left>>
    BY <1>3 DEF LockSuccess, histVars
  <2> QED BY <1>0, <1>1, <2>1, <2>2, CallShape
<1>4. ASSUME CommitSuccesses(n)
      PROVE  Shape'
  <2>1. PICK b \in Batch : GoodCall(b) /\ batch' = [batch EXCEPT ![n] = b] /\ StoreTypeOK'
    BY <1>4, CommitSuccessesEffect
  <2>2. Same /\ UNCHANGED <<acks, lost, left>>
    BY <1>4 DEF CommitSuccesses
  <2> QED BY <1>0, <2>1, <2>2, CallShape
<1>5. ASSUME ReadAttempt(n)
      PROVE  Shape'
  <2>1. PICK b \in Batch : GoodCall(b) /\ batch' = [batch EXCEPT ![n] = b]
    BY <1>5, ReadAttemptEffect
  <2>2. Same /\ UNCHANGED <<storeVars, acks, lost, left>>
    BY <1>5 DEF ReadAttempt, histVars
  <2> QED BY <1>0, <1>1, <2>1, <2>2, CallShape
<1>6. ASSUME WriteFailure(n)
      PROVE  Shape'
  <2>1. PICK b \in Batch : GoodCall(b) /\ batch' = [batch EXCEPT ![n] = b]
    BY <1>6, WriteFailureEffect
  <2>2. Same /\ UNCHANGED <<storeVars, acks, lost, left>>
    BY <1>6 DEF WriteFailure, histVars
  <2> QED BY <1>0, <1>1, <2>1, <2>2, CallShape
<1>7. ASSUME Return(n)
      PROVE  Shape'
  <2>1. batch' = [batch EXCEPT ![n] = NoBatch] /\ StoreTypeOK'
    BY <1>7, ReturnEffect
  <2>2. Same /\ UNCHANGED <<acks, lost, left>>
    BY <1>7 DEF Return
  <2> QED BY <1>0, <2>1, <2>2, CallShape
<1>8. ASSUME AbortDeadlock(n) \/ DbError(n)
      PROVE  Shape'
  <2>1. /\ batch' = [batch EXCEPT ![n] = NoBatch] /\ Same /\ UNCHANGED <<storeVars, acks>>
        /\ lost' = lost \cup Unwritten(n) /\ InCall(n)
    BY <1>8 DEF AbortDeadlock, DbError, Fail
  <2>2. Unwritten(n) \subseteq Job
    BY <2>1, InHandType DEF Unwritten, InHand, Shape
  <2>3. left' \in [Hazard -> Nat]
    BY <1>0, <1>8, SpendType DEF AbortDeadlock, DbError, Hazard, Shape
  <2> QED BY <1>0, <1>1, <2>1, <2>2, <2>3, CallShape
<1> QED BY <1>2, <1>3, <1>4, <1>5, <1>6, <1>7, <1>8 DEF Committing, Statement

LEMMA StartingShape ==
  ASSUME Shape, NEW n \in Node, Starting(n)
  PROVE  Shape'
<1>1. CASE Die(n)
  <2>1. batch' = [batch EXCEPT ![n] = NoBatch]
    BY <1>1 DEF Die
  <2>2. batch' \in [Node -> Batch \cup {NoBatch}] /\ BatchesOK'
    BY <2>1, CallChanges
  <2>3. lost' \in SUBSET Job
    BY <1>1, InHandType DEF Die, Shape, TypeOK
  <2>4. left' \in [Hazard -> Nat]
    BY <1>1, SpendType DEF Die, Hazard, Shape
  <2>5. /\ power' \in [Node -> {"up", "down", "starting"}] /\ assigned' \in [Node -> SUBSET Job]
        /\ acks' \in [Node -> Seq(Ack)] /\ stale' \in [Node -> SUBSET Stale]
    <3>1. <<>> \in Seq(Ack)
      OBVIOUS
    <3> QED BY <1>1, <3>1 DEF Die, Shape, TypeOK
  <2>6. StoreTypeOK' /\ UNCHANGED <<runs, disturbed, strays>>
    BY <1>1 DEF Die, storeVars, Shape, TypeOK, StoreTypeOK
  <2> QED BY <2>2, <2>3, <2>4, <2>5, <2>6 DEF Shape, TypeOK
<1>2. CASE Start(n)
  <2>1. /\ UNCHANGED <<storeVars, runs, assigned, acks, batch, histVars, left>>
        /\ power' \in [Node -> {"up", "down", "starting"}]
    BY <1>2 DEF Start, Shape, TypeOK
  <2>2. PICK S \in SUBSET Job :
          stale' = [stale EXCEPT ![n] = {[job |-> j, attempt |-> jobs[j].attempt] : j \in S}]
    BY <1>2 DEF Start
  <2>3. \A j \in S : [job |-> j, attempt |-> jobs[j].attempt] \in Stale
    BY DEF Shape, TypeOK, StoreTypeOK, Row, Stale
  <2>4. stale' \in [Node -> SUBSET Stale]
    BY <2>2, <2>3 DEF Shape, TypeOK
  <2>5. TypeOK'
    BY <2>1, <2>4 DEF storeVars, histVars, Shape, TypeOK, StoreTypeOK
  <2> QED BY <2>1, <2>5 DEF Shape, BatchesOK, InCall
<1>3. CASE Serve(n)
  <2>1. /\ UNCHANGED <<storeVars, runs, assigned, acks, batch, stale, histVars, left>>
        /\ power' \in [Node -> {"up", "down", "starting"}]
    BY <1>3 DEF Serve, Shape, TypeOK
  <2>2. TypeOK'
    BY <2>1 DEF storeVars, histVars, Shape, TypeOK, StoreTypeOK
  <2> QED BY <2>1, <2>2 DEF Shape, BatchesOK, InCall
<1>4. ASSUME NEW s \in stale[n], RecoverReset(n, s) \/ RecoverDead(n, s)
      PROVE  Shape'
  <2>1. s.job \in Job
    BY DEF Shape, TypeOK, Stale
  <2>2. StoreTypeOK'
    <3>1. CASE RecoverReset(n, s)
      <4>1. OneRow(s.job)
        BY <3>1 DEF RecoverReset, OneRow
      <4>2. \A j \in Job : OneRow(j) => StoreTypeOK'
        BY OneRowKeeps DEF Shape, TypeOK
      <4> QED BY <2>1, <4>1, <4>2
    <3>2. CASE RecoverDead(n, s)
      BY <2>1, <3>2 DEF RecoverDead, Shape, TypeOK, StoreTypeOK, Row, Status
    <3> QED BY <1>4, <3>1, <3>2
  <2>3. /\ UNCHANGED <<runs, power, assigned, acks, batch, lost, strays>>
        /\ disturbed' \in SUBSET Job /\ stale' \in [Node -> SUBSET Stale]
    BY <1>4, <2>1 DEF RecoverReset, RecoverDead, Shape, TypeOK
  <2>4. left' \in [Hazard -> Nat]
    BY <1>4 DEF RecoverReset, RecoverDead, Shape, TypeOK
  <2>5. TypeOK'
    BY <2>2, <2>3, <2>4 DEF Shape, TypeOK
  <2> QED BY <2>3, <2>5 DEF Shape, BatchesOK, InCall
<1> QED BY <1>1, <1>2, <1>3, <1>4 DEF Starting

LEMMA ShapeInit ==
  ASSUME Init
  PROVE  Shape
<1>1. StoreTypeOK
  BY DEF Init, StoreInit, StoreTypeOK, Row, Status
<1>2. <<>> \in Seq(Ack)
  OBVIOUS
<1>3. left \in [Hazard -> Nat]
  BY ClusterAssumption DEF Init
<1>4. TypeOK
  BY <1>1, <1>2, <1>3 DEF Init, TypeOK
<1>5. BatchesOK
  BY DEF Init, BatchesOK, InCall
<1> QED BY <1>4, <1>5 DEF Shape

LEMMA ShapeKept ==
  ASSUME Shape, [Next]_vars
  PROVE  Shape'
<1>1. CASE Requests
  BY <1>1, RequestsShape
<1>2. ASSUME NEW n \in Node, Working(n) \/ Committing(n) \/ Starting(n)
      PROVE  Shape'
  BY <1>2, WorkingShape, CommittingShape, StartingShape
<1>3. CASE UNCHANGED vars
  BY <1>3 DEF vars, storeVars, serverVars, histVars, Shape, TypeOK, StoreTypeOK, BatchesOK, InCall
<1> QED BY <1>1, <1>2, <1>3 DEF Next

(* Every variable keeps its type and every call of update_job_results its   *)
(* stage, however many servers there are.                                   *)
THEOREM ClusterShape == Spec => []Shape
<1>1. Init => Shape
  BY ShapeInit
<1>2. Shape /\ [Next]_vars => Shape'
  BY ShapeKept
<1> QED BY <1>1, <1>2, PTL DEF Spec

(* The types alone, as the runs check them.                                 *)
THEOREM ClusterTypes == Spec => []TypeOK
<1>1. Shape => TypeOK
  BY DEF Shape
<1> QED BY <1>1, ClusterShape, PTL

-----------------------------------------------------------------------------
(* A RUNNING row is held.  The invariant is inductive over Shape; each step *)
(* hands the result on from the run to the queue, the call and the table.   *)

Held(j) == CurrentRun(j) \in runs \/ j \in lost \/ \E n \in Node : j \in InHand(n)

(* A row that was RUNNING with its attempt and stays in hand is still held. *)
LEMMA StillHeld ==
  ASSUME NEW j \in Job, RunningIsHeld, Running(j)' => Running(j) /\ jobs'[j] = jobs[j],
         runs \subseteq runs', lost \subseteq lost',
         \A n \in Node : j \in InHand(n) => j \in InHand(n)' \/ j \in lost'
  PROVE  Running(j)' => Held(j)'
<1> SUFFICES ASSUME Running(j)' PROVE Held(j)'
  OBVIOUS
<1>1. Running(j) /\ jobs'[j] = jobs[j]
  OBVIOUS
<1>2. Held(j)
  BY <1>1 DEF RunningIsHeld, Held
<1>3. CurrentRun(j)' = CurrentRun(j)
  BY <1>1 DEF CurrentRun
<1> QED BY <1>2, <1>3 DEF Held

(* Steps that touch neither queues nor calls leave what is in hand.         *)
LEMMA InHandStays ==
  ASSUME UNCHANGED <<acks, batch>>
  PROVE  \A n \in Node : InHand(n)' = InHand(n) /\ InCall(n)' = InCall(n)
BY DEF InHand, InCall

LEMMA RequestsHeld ==
  ASSUME Shape, RunningIsHeld, Requests
  PROVE  RunningIsHeld'
<1> SUFFICES ASSUME NEW i \in Job PROVE Running(i)' => Held(i)'
  BY DEF RunningIsHeld, Held
<1>1. PICK j \in Job : Submit(j) \/ Elapse(j) \/ Cancel(j) \/ Retry(j)
  BY DEF Requests
<1>2. OneRow(j) /\ UNCHANGED <<runs, serverVars, lost>>
  BY <1>1 DEF OneRow, Submit, Elapse, Cancel, Retry, histVars
<1>3. i # j => jobs'[i] = jobs[i]
  BY <1>2, OneRowKeeps DEF Shape, TypeOK
<1>4. i = j => jobs'[i].status \in {"PENDING", "CANCELLED"}
  <2>1. jobs \in [Job -> Row] /\ jobs[j] \in Row
    BY DEF Shape, TypeOK, StoreTypeOK
  <2> QED BY <1>1, <2>1 DEF Submit, Elapse, Cancel, Retry, InsertJob, BecomeDue, CancelJob,
            RetryJob, Row
<1>5. Running(i)' => Running(i) /\ jobs'[i] = jobs[i]
  BY <1>3, <1>4 DEF Running
<1>6. \A n \in Node : InHand(n)' = InHand(n)
  BY <1>2, InHandStays DEF serverVars
<1> QED BY <1>2, <1>5, <1>6, StillHeld

LEMMA WorkingHeld ==
  ASSUME Shape, RunningIsHeld, NEW n \in Node, Working(n)
  PROVE  RunningIsHeld'
<1> SUFFICES ASSUME NEW i \in Job PROVE Running(i)' => Held(i)'
  BY DEF RunningIsHeld, Held
<1>1. ASSUME NEW j \in Job, Claim(n, j)
      PROVE  Running(i)' => Held(i)'
  <2>1. OneRow(j) /\ UNCHANGED <<acks, batch>>
    BY <1>1 DEF OneRow, Claim
  <2>2. CASE i = j
    <3>1. jobs'[j] = Claimed(jobs[j])
      BY <1>1 DEF Claim, ClaimAndFetchJobs
    <3>2. jobs'[j].attempt = jobs[j].attempt + 1
      BY <3>1 DEF Claimed
    <3>3. CurrentRun(j)' \in runs'
      BY <1>1, <3>2 DEF Claim, CurrentRun
    <3> QED BY <2>2, <3>3 DEF Held
  <2>3. CASE i # j
    <3>1. jobs'[i] = jobs[i]
      BY <2>1, <2>3, OneRowKeeps DEF Shape, TypeOK
    <3>2. CurrentRun(i)' = CurrentRun(i) /\ (Running(i)' => Running(i))
      BY <3>1 DEF CurrentRun, Running
    <3>3. runs \subseteq runs' /\ (i \in lost => i \in lost')
      BY <1>1, <2>3 DEF Claim
    <3>4. \A m \in Node : InHand(m)' = InHand(m)
      BY <2>1, InHandStays
    <3>5. Running(i) => Held(i)
      BY DEF RunningIsHeld, Held
    <3> QED BY <3>2, <3>3, <3>4, <3>5 DEF Held
  <2> QED BY <2>2, <2>3
<1>2. ASSUME NEW j \in Job, TakeBack(n, j)
      PROVE  Running(i)' => Held(i)'
  <2>1. OneRow(j) /\ UNCHANGED <<runs, acks, batch, lost>>
    BY <1>2 DEF OneRow, TakeBack
  <2>2. i # j => jobs'[i] = jobs[i]
    BY <2>1, OneRowKeeps DEF Shape, TypeOK
  <2>3. i = j => jobs'[i].status # "RUNNING"
    <3>1. jobs \in [Job -> Row]
      BY DEF Shape, TypeOK, StoreTypeOK
    <3> QED BY <1>2, <3>1 DEF TakeBack, ResetStaleJob, Requeued, Running
  <2>4. Running(i)' => Running(i) /\ jobs'[i] = jobs[i]
    BY <2>2, <2>3 DEF Running
  <2>5. \A m \in Node : InHand(m)' = InHand(m)
    BY <2>1, InHandStays
  <2> QED BY <2>1, <2>4, <2>5, StillHeld
<1>3. ASSUME NEW r \in runs, NEW o \in Outcome, Report(r, n, o)
      PROVE  Running(i)' => Held(i)'
  <2> DEFINE a == [job |-> r.job, outcome |-> o]
             q == Append(acks[n], a)
  <2>1. /\ a \in Ack /\ r \in Run /\ runs' = runs \ {r}
        /\ acks' = [acks EXCEPT ![n] = q]
        /\ UNCHANGED <<storeVars, batch, histVars>>
    BY <1>3, ReportEffect
  <2>2. JobsIn(q) = JobsIn(acks[n]) \cup {r.job}
    <3>1. acks[n] \in Seq(Ack) /\ a.job = r.job
      BY DEF Shape, TypeOK
    <3> HIDE DEF a
    <3> QED BY <2>1, <3>1, AppendJobs
  <2> HIDE DEF q, a
  <2>3. /\ acks'[n] = q /\ (\A m \in Node \ {n} : acks'[m] = acks[m]) /\ batch' = batch
    BY <2>1 DEF Shape, TypeOK
  <2>4. (\A m \in Node : InHand(m) \subseteq InHand(m)') /\ r.job \in InHand(n)'
    BY <2>2, <2>3 DEF InHand, InCall
  <2>5. /\ CurrentRun(i)' = CurrentRun(i) /\ (Running(i)' => Running(i)) /\ lost' = lost
    BY <2>1 DEF storeVars, histVars, CurrentRun, Running
  <2>6. Running(i) => Held(i)
    BY DEF RunningIsHeld, Held
  <2>7. CurrentRun(i).job = i
    BY DEF CurrentRun
  <2> QED BY <2>1, <2>4, <2>5, <2>6, <2>7 DEF Held
<1> QED BY <1>1, <1>2, <1>3 DEF Working

LEMMA CommittingHeld ==
  ASSUME Shape, RunningIsHeld, NEW n \in Node, Committing(n)
  PROVE  RunningIsHeld'
<1> SUFFICES ASSUME NEW i \in Job PROVE Running(i)' => Held(i)'
  BY DEF RunningIsHeld, Held
<1>1. ASSUME UNCHANGED storeVars
      PROVE  Running(i)' => Running(i) /\ jobs'[i] = jobs[i]
  BY <1>1 DEF storeVars, Running
<1>2. ASSUME NEW k \in 1..BatchMax, TakeBatch(n, k)
      PROVE  Running(i)' => Held(i)'
  <2> DEFINE q == acks[n]
             p == SubSeq(q, k + 1, Len(q))
  <2>1. /\ q \in Seq(Ack) /\ k <= Len(q) /\ ~InCall(n) /\ acks' = [acks EXCEPT ![n] = p]
    BY <1>2, TakeBatchEffect
  <2>2. PICK b \in Batch : /\ b.wins = WinsOf(q, k) /\ b.todo = TodoOf(q, k)
                           /\ batch' = [batch EXCEPT ![n] = b]
    BY <1>2, TakeBatchEffect
  <2>3. JobsIn(q) = WinsOf(q, k) \cup JobsIn(TodoOf(q, k)) \cup JobsIn(p)
    BY <2>1, TakeJobs
  <2>4. UNCHANGED <<storeVars, runs, lost>>
    BY <1>2 DEF TakeBatch
  <2>5. b # NoBatch
    BY BatchAssumption
  <2> HIDE DEF p
  <2>6. /\ \A m \in Node \ {n} : InHand(m)' = InHand(m)
        /\ InHand(n)' = JobsIn(p) \cup b.wins \cup DOMAIN b.writes \cup JobsIn(b.todo)
    <3>1. /\ batch'[n] = b /\ acks'[n] = p
          /\ \A m \in Node \ {n} : batch'[m] = batch[m] /\ acks'[m] = acks[m]
      BY <2>1, <2>2 DEF Shape, TypeOK
    <3> QED BY <2>5, <3>1 DEF InHand, InCall
  <2>7. InHand(n) = JobsIn(q)
    BY <2>1 DEF InHand
  <2>8. \A m \in Node : InHand(m) \subseteq InHand(m)'
    BY <2>2, <2>3, <2>6, <2>7
  <2> QED BY <1>1, <2>4, <2>8, StillHeld
<1>3. ASSUME NEW j \in Job, LockSuccess(n, j)
      PROVE  Running(i)' => Held(i)'
  <2>1. PICK b \in Batch : /\ batch' = [batch EXCEPT ![n] = b] /\ InCall(n)
                           /\ b.wins = batch[n].wins /\ b.todo = batch[n].todo
                           /\ DOMAIN b.writes = DOMAIN batch[n].writes \cup {j}
    BY <1>3, LockSuccessEffect
  <2>2. UNCHANGED <<storeVars, runs, acks, lost>>
    BY <1>3 DEF LockSuccess, histVars
  <2>3. /\ \A m \in Node \ {n} : InHand(m)' = InHand(m)
        /\ InHand(n)' = JobsIn(acks[n]) \cup b.wins \cup DOMAIN b.writes \cup JobsIn(b.todo)
    <3>1. batch'[n] = b /\ \A m \in Node \ {n} : batch'[m] = batch[m]
      BY <2>1 DEF Shape, TypeOK
    <3> QED BY <2>1, <2>2, <3>1, BatchAssumption DEF InHand, InCall
  <2>4. \A m \in Node : InHand(m) \subseteq InHand(m)'
    BY <2>1, <2>3 DEF InHand
  <2> QED BY <1>1, <2>2, <2>4, StillHeld
<1>4. ASSUME CommitSuccesses(n)
      PROVE  Running(i)' => Held(i)'
  <2>1. PICK b \in Batch : /\ batch' = [batch EXCEPT ![n] = b] /\ InCall(n) /\ b.todo = batch[n].todo
    BY <1>4, CommitSuccessesEffect
  <2>2. /\ \A j \in Job \ batch[n].wins : jobs'[j] = jobs[j]
        /\ \A j \in batch[n].wins : jobs'[j].status = "SUCCESS"
        /\ batch[n].wins = DOMAIN batch[n].writes
    BY <1>4, CommitSuccessesEffect
  <2>3. UNCHANGED <<runs, acks, lost>>
    BY <1>4 DEF CommitSuccesses
  <2>4. /\ \A m \in Node \ {n} : InHand(m)' = InHand(m)
        /\ InHand(n)' = JobsIn(acks[n]) \cup b.wins \cup DOMAIN b.writes \cup JobsIn(b.todo)
    <3>1. batch'[n] = b /\ \A m \in Node \ {n} : batch'[m] = batch[m]
      BY <2>1 DEF Shape, TypeOK
    <3> QED BY <2>1, <2>3, <3>1, BatchAssumption DEF InHand, InCall
  <2>5. CASE i \in batch[n].wins
    BY <2>2, <2>5 DEF Running
  <2>6. CASE i \notin batch[n].wins
    <3>1. \A m \in Node : i \in InHand(m) => i \in InHand(m)'
      BY <2>1, <2>2, <2>4, <2>6 DEF InHand
    <3>2. Running(i)' => Running(i) /\ jobs'[i] = jobs[i]
      BY <2>2, <2>6 DEF Running
    <3> QED BY <2>3, <3>1, <3>2, StillHeld
  <2> QED BY <2>5, <2>6
<1>5. ASSUME ReadAttempt(n)
      PROVE  Running(i)' => Held(i)'
  <2>1. PICK b \in Batch : /\ batch' = [batch EXCEPT ![n] = b] /\ InCall(n)
                           /\ b.wins = batch[n].wins /\ b.todo = batch[n].todo
                           /\ b.writes = batch[n].writes
    BY <1>5, ReadAttemptEffect
  <2>2. UNCHANGED <<storeVars, runs, acks, lost>>
    BY <1>5 DEF ReadAttempt, histVars
  <2>3. /\ \A m \in Node \ {n} : InHand(m)' = InHand(m)
        /\ InHand(n)' = JobsIn(acks[n]) \cup b.wins \cup DOMAIN b.writes \cup JobsIn(b.todo)
    <3>1. batch'[n] = b /\ \A m \in Node \ {n} : batch'[m] = batch[m]
      BY <2>1 DEF Shape, TypeOK
    <3> QED BY <2>1, <2>2, <3>1, BatchAssumption DEF InHand, InCall
  <2>4. \A m \in Node : InHand(m) \subseteq InHand(m)'
    BY <2>1, <2>3 DEF InHand
  <2> QED BY <1>1, <2>2, <2>4, StillHeld
<1>6. ASSUME WriteFailure(n)
      PROVE  Running(i)' => Held(i)'
  <2> DEFINE c == Current(n).job
  <2>1. PICK b \in Batch : /\ batch' = [batch EXCEPT ![n] = b] /\ InCall(n)
                           /\ b.wins = batch[n].wins
                           /\ JobsIn(batch[n].todo) = JobsIn(b.todo) \cup {c}
                           /\ DOMAIN b.writes = DOMAIN batch[n].writes \cup {c}
    BY <1>6, WriteFailureEffect
  <2>2. UNCHANGED <<storeVars, runs, acks, lost>>
    BY <1>6 DEF WriteFailure, histVars
  <2> HIDE DEF c
  <2>3. /\ \A m \in Node \ {n} : InHand(m)' = InHand(m)
        /\ InHand(n)' = JobsIn(acks[n]) \cup b.wins \cup DOMAIN b.writes \cup JobsIn(b.todo)
    <3>1. batch'[n] = b /\ \A m \in Node \ {n} : batch'[m] = batch[m]
      BY <2>1 DEF Shape, TypeOK
    <3> QED BY <2>1, <2>2, <3>1, BatchAssumption DEF InHand, InCall
  <2>4. \A m \in Node : InHand(m) \subseteq InHand(m)'
    BY <2>1, <2>3 DEF InHand
  <2> QED BY <1>1, <2>2, <2>4, StillHeld
<1>7. ASSUME Return(n)
      PROVE  Running(i)' => Held(i)'
  <2>1. /\ InCall(n) /\ batch' = [batch EXCEPT ![n] = NoBatch]
        /\ batch[n].wins = {} /\ JobsIn(batch[n].todo) = {}
        /\ \A j \in Job \ DOMAIN batch[n].writes : jobs'[j] = jobs[j]
        /\ \A j \in DOMAIN batch[n].writes : jobs'[j].status \in {"PENDING", "DEAD"}
    BY <1>7, ReturnEffect
  <2>2. UNCHANGED <<runs, acks, lost>>
    BY <1>7 DEF Return
  <2>3. /\ \A m \in Node \ {n} : InHand(m)' = InHand(m)
        /\ InHand(n)' = JobsIn(acks[n])
    <3>1. batch'[n] = NoBatch /\ \A m \in Node \ {n} : batch'[m] = batch[m]
      BY <2>1 DEF Shape, TypeOK
    <3> QED BY <2>2, <3>1 DEF InHand, InCall
  <2>4. CASE i \in DOMAIN batch[n].writes
    BY <2>1, <2>4 DEF Running
  <2>5. CASE i \notin DOMAIN batch[n].writes
    <3>1. \A m \in Node : i \in InHand(m) => i \in InHand(m)'
      BY <2>1, <2>3, <2>5 DEF InHand
    <3>2. Running(i)' => Running(i) /\ jobs'[i] = jobs[i]
      BY <2>1, <2>5 DEF Running
    <3> QED BY <2>2, <3>1, <3>2, StillHeld
  <2> QED BY <2>4, <2>5
<1>8. ASSUME AbortDeadlock(n) \/ DbError(n)
      PROVE  Running(i)' => Held(i)'
  <2>1. /\ batch' = [batch EXCEPT ![n] = NoBatch] /\ UNCHANGED <<storeVars, runs, acks>>
        /\ lost' = lost \cup Unwritten(n) /\ InCall(n)
    BY <1>8 DEF AbortDeadlock, DbError, Fail
  <2>2. /\ \A m \in Node \ {n} : InHand(m)' = InHand(m)
        /\ InHand(n)' = JobsIn(acks[n])
    <3>1. batch'[n] = NoBatch /\ \A m \in Node \ {n} : batch'[m] = batch[m]
      BY <2>1 DEF Shape, TypeOK
    <3> QED BY <2>1, <3>1 DEF InHand, InCall
  <2>3. \A m \in Node : i \in InHand(m) => i \in InHand(m)' \/ i \in lost'
    BY <2>1, <2>2 DEF InHand, Unwritten
  <2> QED BY <1>1, <2>1, <2>3, StillHeld
<1> QED BY <1>2, <1>3, <1>4, <1>5, <1>6, <1>7, <1>8 DEF Committing, Statement

LEMMA StartingHeld ==
  ASSUME Shape, RunningIsHeld, NEW n \in Node, Starting(n)
  PROVE  RunningIsHeld'
<1> SUFFICES ASSUME NEW i \in Job PROVE Running(i)' => Held(i)'
  BY DEF RunningIsHeld, Held
<1>1. CASE Die(n)
  <2>1. /\ lost' = lost \cup InHand(n) /\ UNCHANGED <<storeVars, runs>>
        /\ batch' = [batch EXCEPT ![n] = NoBatch] /\ acks' = [acks EXCEPT ![n] = <<>>]
    BY <1>1 DEF Die
  <2>2. \A m \in Node \ {n} : InHand(m)' = InHand(m)
    <3>1. \A m \in Node \ {n} : batch'[m] = batch[m] /\ acks'[m] = acks[m]
      BY <2>1 DEF Shape, TypeOK
    <3> QED BY <3>1 DEF InHand, InCall
  <2>3. \A m \in Node : i \in InHand(m) => i \in InHand(m)' \/ i \in lost'
    BY <2>1, <2>2
  <2>4. Running(i)' => Running(i) /\ jobs'[i] = jobs[i]
    BY <2>1 DEF storeVars, Running
  <2> QED BY <2>1, <2>3, <2>4, StillHeld
<1>2. CASE Start(n) \/ Serve(n)
  <2>1. UNCHANGED <<storeVars, runs, acks, batch, lost>>
    BY <1>2 DEF Start, Serve, histVars
  <2>2. Running(i)' => Running(i) /\ jobs'[i] = jobs[i]
    BY <2>1 DEF storeVars, Running
  <2>3. \A m \in Node : InHand(m)' = InHand(m)
    BY <2>1, InHandStays
  <2> QED BY <2>1, <2>2, <2>3, StillHeld
<1>3. ASSUME NEW s \in stale[n], RecoverReset(n, s) \/ RecoverDead(n, s)
      PROVE  Running(i)' => Held(i)'
  <2>1. /\ s.job \in Job /\ jobs \in [Job -> Row] /\ UNCHANGED <<runs, acks, batch, lost>>
    BY <1>3 DEF RecoverReset, RecoverDead, Shape, TypeOK, StoreTypeOK, Stale
  <2>2. Running(i)' => Running(i) /\ jobs'[i] = jobs[i]
    <3>1. CASE RecoverReset(n, s)
      BY <2>1, <3>1 DEF RecoverReset, ResetStaleJob, Requeued, Running
    <3>2. CASE RecoverDead(n, s)
      BY <2>1, <3>2 DEF RecoverDead, Running, Row
    <3> QED BY <1>3, <3>1, <3>2
  <2>3. \A m \in Node : InHand(m)' = InHand(m)
    BY <2>1, InHandStays
  <2> QED BY <2>1, <2>2, <2>3, StillHeld
<1> QED BY <1>1, <1>2, <1>3 DEF Starting

(* Whichever server a result reaches, and whatever dies or fails on its way,*)
(* a RUNNING row has its run on a worker or its result in some server, or   *)
(* is counted among the lost.                                               *)
THEOREM ClusterHeld == Spec => []RunningIsHeld
<1>1. Init => RunningIsHeld
  BY DEF Init, StoreInit, RunningIsHeld, Running
<1>2. Shape /\ RunningIsHeld /\ [Next]_vars => RunningIsHeld'
  <2> SUFFICES ASSUME Shape, RunningIsHeld, [Next]_vars PROVE RunningIsHeld'
    OBVIOUS
  <2>1. CASE UNCHANGED vars
    <3> SUFFICES ASSUME NEW i \in Job PROVE Running(i)' => Held(i)'
      BY DEF RunningIsHeld, Held
    <3>1. UNCHANGED <<storeVars, runs, acks, batch, lost>>
      BY <2>1 DEF vars, serverVars, histVars
    <3>2. Running(i)' => Running(i) /\ jobs'[i] = jobs[i]
      BY <3>1 DEF storeVars, Running
    <3>3. \A m \in Node : InHand(m)' = InHand(m)
      BY <3>1, InHandStays
    <3> QED BY <3>1, <3>2, <3>3, StillHeld
  <2>2. CASE Requests
    BY <2>2, RequestsHeld
  <2>3. ASSUME NEW n \in Node, Working(n) \/ Committing(n) \/ Starting(n)
        PROVE  RunningIsHeld'
    BY <2>3, WorkingHeld, CommittingHeld, StartingHeld
  <2> QED BY <2>1, <2>2, <2>3 DEF Next
<1> QED BY <1>1, <1>2, ClusterShape, PTL DEF Spec

-----------------------------------------------------------------------------
(* One execution, one result.  Each step either leaves the places of a job's *)
(* result as they are, empties some, or hands the result to the next place.  *)

Placed(j) == Alone(j) /\ (Running(j) \/ Idle(j))

(* No place is filled, and the row stays RUNNING if it was.                  *)
LEMMA NoNewPlace ==
  ASSUME NEW j \in Job, Placed(j),
         \A r \in runs' : r.job = j => r \in runs,
         \A n \in Node : Queued(n, j)' => Queued(n, j),
         \A n \in Node : Called(n, j)' => Called(n, j),
         \A n \in Node : Once(acks[n], j) => Once(acks'[n], j),
         \A n \in Node : InCall(n)' /\ j \in batch'[n].wins /\ j \in JobsIn(batch'[n].todo)
                           => InCall(n) /\ j \in batch[n].wins /\ j \in JobsIn(batch[n].todo),
         Running(j) => Running(j)' \/ Idle(j)'
  PROVE  Placed(j)'
<1>1. Idle(j) => Idle(j)'
  BY DEF Idle, OnWorker
<1>2. Alone(j)'
  <2>1. \A r, s \in runs' : r.job = j /\ s.job = j => r = s
    BY DEF Placed, Alone
  <2>2. OnWorker(j)' => \A n \in Node : ~Queued(n, j)' /\ ~Called(n, j)'
    BY DEF Placed, Alone, OnWorker
  <2>3. \A n \in Node : Once(acks'[n], j)
    BY DEF Placed, Alone
  <2>4. \A n, m \in Node : /\ Queued(n, j)' => ~Called(m, j)'
                           /\ Queued(n, j)' /\ Queued(m, j)' => n = m
                           /\ Called(n, j)' /\ Called(m, j)' => n = m
    BY DEF Placed, Alone
  <2>5. \A n \in Node : InCall(n)' => ~(j \in batch'[n].wins /\ j \in JobsIn(batch'[n].todo))
    BY DEF Placed, Alone
  <2> QED BY <2>1, <2>2, <2>3, <2>4, <2>5 DEF Alone
<1> QED BY <1>1, <1>2 DEF Placed

(* A step that touches neither workers, queues nor calls.                    *)
LEMMA SamePlaces ==
  ASSUME NEW j \in Job, Placed(j), UNCHANGED <<runs, acks, batch>>, Running(j) => Running(j)'
  PROVE  Placed(j)'
<1>1. \A n \in Node : Queued(n, j)' = Queued(n, j) /\ Called(n, j)' = Called(n, j) /\ InCall(n)' = InCall(n)
  BY DEF Queued, Called, InCall
<1> QED BY <1>1, NoNewPlace

(* A step of the call of server n, its queue and the workers left alone.     *)
LEMMA CallStep ==
  ASSUME Shape, NEW n \in Node, NEW j \in Job, Placed(j), UNCHANGED <<runs, acks>>,
         \A m \in Node \ {n} : batch'[m] = batch[m],
         Called(n, j)' => Called(n, j),
         InCall(n)' /\ j \in batch'[n].wins /\ j \in JobsIn(batch'[n].todo)
           => InCall(n) /\ j \in batch[n].wins /\ j \in JobsIn(batch[n].todo),
         Running(j) => Running(j)' \/ (Called(n, j) /\ ~Called(n, j)')
  PROVE  Placed(j)'
<1>1. \A m \in Node : Queued(m, j)' = Queued(m, j)
  BY DEF Queued
<1>2. \A m \in Node \ {n} : Called(m, j)' = Called(m, j) /\ InCall(m)' = InCall(m)
  BY DEF Called, InCall
<1>3. \A m \in Node : Called(m, j)' => Called(m, j)
  BY <1>2
<1>4. Running(j) => Running(j)' \/ Idle(j)'
  <2>1. CASE Called(n, j) /\ ~Called(n, j)'
    <3>1. ~OnWorker(j) /\ (\A m \in Node : ~Queued(m, j)) /\ \A m \in Node \ {n} : ~Called(m, j)
      BY <2>1 DEF Placed, Alone
    <3>2. \A m \in Node : ~Called(m, j)'
      BY <1>2, <2>1, <3>1
    <3> QED BY <1>1, <3>1, <3>2 DEF Idle, OnWorker
  <2> QED BY <2>1
<1>5. \A m \in Node \ {n} :
        InCall(m)' /\ j \in batch'[m].wins /\ j \in JobsIn(batch'[m].todo)
          => InCall(m) /\ j \in batch[m].wins /\ j \in JobsIn(batch[m].todo)
  BY <1>2
<1> QED BY <1>1, <1>3, <1>4, <1>5, NoNewPlace

LEMMA RequestsPlaced ==
  ASSUME Shape, NEW i \in Job, Placed(i), Requests
  PROVE  Placed(i)'
<1>1. PICK j \in Job : Submit(j) \/ Elapse(j) \/ Cancel(j) \/ Retry(j)
  BY DEF Requests
<1>2. OneRow(j) /\ UNCHANGED <<runs, acks, batch>>
  BY <1>1 DEF OneRow, Submit, Elapse, Cancel, Retry, serverVars
<1>3. i # j => jobs'[i] = jobs[i]
  BY <1>2, OneRowKeeps DEF Shape, TypeOK
<1>4. i = j => ~Running(i)
  BY <1>1 DEF Submit, Elapse, Cancel, Retry, InsertJob, BecomeDue, CancelJob, RetryJob, Running
<1> QED BY <1>2, <1>3, <1>4, SamePlaces DEF Running

LEMMA WorkingPlaced ==
  ASSUME Shape, NEW i \in Job, Placed(i), NEW n \in Node, Working(n), i \notin disturbed'
  PROVE  Placed(i)'
<1>1. ASSUME NEW j \in Job, Claim(n, j)
      PROVE  Placed(i)'
  <2>1. OneRow(j) /\ UNCHANGED <<acks, batch>>
    BY <1>1 DEF OneRow, Claim
  <2>2. \A m \in Node : Queued(m, i)' = Queued(m, i) /\ Called(m, i)' = Called(m, i) /\ InCall(m)' = InCall(m)
    BY <2>1 DEF Queued, Called, InCall
  <2>3. CASE i = j
    <3>1. ~Running(i) /\ Running(i)'
      BY <1>1, <2>3 DEF Claim, ClaimAndFetchJobs, Claimable, Claimed, Running
    <3>2. Idle(i)
      BY <3>1 DEF Placed
    <3>3. \A r, s \in runs' : r.job = i /\ s.job = i => r = s
      BY <1>1, <3>2 DEF Claim, Idle, OnWorker
    <3>4. Alone(i)'
      BY <2>1, <2>2, <3>2, <3>3 DEF Placed, Alone, Idle
    <3> QED BY <3>1, <3>4 DEF Placed
  <2>4. CASE i # j
    <3>1. jobs'[i] = jobs[i]
      BY <2>1, <2>4, OneRowKeeps DEF Shape, TypeOK
    <3>2. \A r \in runs' : r.job = i => r \in runs
      BY <1>1, <2>4 DEF Claim
    <3>3. Running(i) => Running(i)'
      BY <3>1 DEF Running
    <3> QED BY <2>1, <2>2, <3>2, <3>3, NoNewPlace
  <2> QED BY <2>3, <2>4
<1>2. ASSUME NEW j \in Job, TakeBack(n, j)
      PROVE  Placed(i)'
  <2>1. OneRow(j) /\ UNCHANGED <<runs, acks, batch>>
    BY <1>2 DEF OneRow, TakeBack
  <2>2. i # j => jobs'[i] = jobs[i]
    BY <2>1, OneRowKeeps DEF Shape, TypeOK
  <2>3. i = j => ~Running(i)
    BY <1>2 DEF TakeBack
  <2> QED BY <2>1, <2>2, <2>3, SamePlaces DEF Running
<1>3. ASSUME NEW r \in runs, NEW o \in Outcome, Report(r, n, o)
      PROVE  Placed(i)'
  <2> DEFINE a == [job |-> r.job, outcome |-> o]
             q == Append(acks[n], a)
  <2>1. /\ a \in Ack /\ r \in Run /\ runs' = runs \ {r}
        /\ acks' = [acks EXCEPT ![n] = q]
        /\ UNCHANGED <<storeVars, batch>>
    BY <1>3, ReportEffect
  <2>2. /\ JobsIn(q) = JobsIn(acks[n]) \cup {r.job}
        /\ Once(acks[n], i) /\ (r.job = i => i \notin JobsIn(acks[n])) => Once(q, i)
    <3>1. acks[n] \in Seq(Ack) /\ a.job = r.job
      BY DEF Shape, TypeOK
    <3> HIDE DEF a
    <3> QED BY <2>1, <3>1, AppendJobs
  <2> HIDE DEF q, a
  <2>3. acks'[n] = q /\ \A m \in Node \ {n} : acks'[m] = acks[m]
    BY <2>1 DEF Shape, TypeOK
  <2>4. \A m \in Node : Called(m, i)' = Called(m, i) /\ InCall(m)' = InCall(m)
    BY <2>1 DEF Called, InCall
  <2>5. Running(i)' = Running(i)
    BY <2>1 DEF storeVars, Running
  <2>6. CASE i # r.job
    <3>1. \A m \in Node : Queued(m, i)' => Queued(m, i)
      BY <2>2, <2>3, <2>6 DEF Queued
    <3>2. \A m \in Node : Once(acks[m], i) => Once(acks'[m], i)
      BY <2>2, <2>3, <2>6
    <3> QED BY <2>1, <2>4, <2>5, <3>1, <3>2, NoNewPlace
  <2>7. CASE i = r.job
    <3>1. OnWorker(i)
      BY <2>7 DEF OnWorker
    <3>2. \A m \in Node : ~Queued(m, i) /\ ~Called(m, i)
      BY <3>1 DEF Placed, Alone
    <3>3. ~OnWorker(i)' /\ \A x, y \in runs' : x.job = i /\ y.job = i => x = y
      BY <2>1, <2>7 DEF Placed, Alone, OnWorker
    <3>4. \A m \in Node \ {n} : ~Queued(m, i)'
      BY <2>3, <3>2 DEF Queued
    <3>5. \A m \in Node : Once(acks'[m], i)
      BY <2>2, <2>3, <3>2 DEF Placed, Alone, Queued
    <3>6. \A m \in Node : InCall(m)' => ~(i \in batch'[m].wins /\ i \in JobsIn(batch'[m].todo))
      BY <2>1, <2>4 DEF Placed, Alone
    <3>7. Alone(i)'
      BY <2>4, <3>2, <3>3, <3>4, <3>5, <3>6 DEF Alone
    <3>8. Running(i)
      BY <3>1 DEF Placed, Idle
    <3> QED BY <2>5, <3>7, <3>8 DEF Placed
  <2> QED BY <2>6, <2>7
<1> QED BY <1>1, <1>2, <1>3 DEF Working

LEMMA TakeBatchPlaced ==
  ASSUME Shape, NEW i \in Job, Placed(i), NEW n \in Node, NEW k \in 1..BatchMax, TakeBatch(n, k)
  PROVE  Placed(i)'
<1> DEFINE q == acks[n]
           p == SubSeq(q, k + 1, Len(q))
<1>1. /\ q \in Seq(Ack) /\ k <= Len(q) /\ ~InCall(n) /\ acks' = [acks EXCEPT ![n] = p]
  BY TakeBatchEffect
<1>2. PICK b \in Batch : /\ b.wins = WinsOf(q, k) /\ b.todo = TodoOf(q, k) /\ DOMAIN b.writes = {}
                         /\ batch' = [batch EXCEPT ![n] = b]
  BY TakeBatchEffect, NothingType
<1>3. /\ JobsIn(q) = WinsOf(q, k) \cup JobsIn(TodoOf(q, k)) \cup JobsIn(p)
      /\ Once(q, i) => /\ Once(p, i)
                       /\ ~(i \in WinsOf(q, k) /\ i \in JobsIn(TodoOf(q, k)))
                       /\ i \in WinsOf(q, k) \/ i \in JobsIn(TodoOf(q, k)) => i \notin JobsIn(p)
  BY <1>1, TakeJobs
<1>4. UNCHANGED <<storeVars, runs>>
  BY DEF TakeBatch
<1> HIDE DEF p
<1>5. /\ batch'[n] = b /\ acks'[n] = p
      /\ \A m \in Node \ {n} : batch'[m] = batch[m] /\ acks'[m] = acks[m]
  BY <1>1, <1>2 DEF Shape, TypeOK
<1>6. \A m \in Node \ {n} : Queued(m, i)' = Queued(m, i) /\ Called(m, i)' = Called(m, i) /\ InCall(m)' = InCall(m)
  BY <1>5 DEF Queued, Called, InCall
<1>7. Called(n, i)' <=> i \in WinsOf(q, k) \/ i \in JobsIn(TodoOf(q, k))
  BY <1>2, <1>5, BatchAssumption DEF Called, InCall
<1>8. Once(q, i)
  BY DEF Placed, Alone
<1>9. /\ Queued(n, i)' => Queued(n, i)
      /\ Called(n, i)' => Queued(n, i)
      /\ ~(Queued(n, i)' /\ Called(n, i)')
  BY <1>3, <1>5, <1>7, <1>8 DEF Queued
<1>10. ~Called(n, i)
  BY <1>1 DEF Called
<1>11. Alone(i)'
  <2>1. \A r, s \in runs' : r.job = i /\ s.job = i => r = s
    BY <1>4 DEF Placed, Alone
  <2>2. OnWorker(i)' => \A m \in Node : ~Queued(m, i)' /\ ~Called(m, i)'
    BY <1>4, <1>6, <1>9 DEF Placed, Alone, OnWorker
  <2>3. \A m \in Node : Once(acks'[m], i)
    BY <1>3, <1>5, <1>8 DEF Placed, Alone
  <2>4. \A x, y \in Node : Queued(x, i)' => ~Called(y, i)'
    <3>1. \A x, y \in Node : Queued(x, i) => ~Called(y, i)
      BY DEF Placed, Alone
    <3>2. \A x, y \in Node : Queued(x, i) /\ Queued(y, i) => x = y
      BY DEF Placed, Alone
    <3> QED BY <1>6, <1>9, <3>1, <3>2
  <2>5. \A x, y \in Node : Queued(x, i)' /\ Queued(y, i)' => x = y
    <3>1. \A x, y \in Node : Queued(x, i) /\ Queued(y, i) => x = y
      BY DEF Placed, Alone
    <3> QED BY <1>6, <1>9, <3>1
  <2>6. \A x, y \in Node : Called(x, i)' /\ Called(y, i)' => x = y
    <3>1. \A x, y \in Node : /\ Queued(x, i) => ~Called(y, i)
                             /\ Called(x, i) /\ Called(y, i) => x = y
      BY DEF Placed, Alone
    <3> QED BY <1>6, <1>9, <3>1
  <2>7. \A m \in Node : InCall(m)' => ~(i \in batch'[m].wins /\ i \in JobsIn(batch'[m].todo))
    BY <1>2, <1>3, <1>5, <1>6, <1>8 DEF Placed, Alone
  <2> QED BY <2>1, <2>2, <2>3, <2>4, <2>5, <2>6, <2>7 DEF Alone
<1>12. Idle(i) => Idle(i)'
  BY <1>4, <1>6, <1>9 DEF Idle, OnWorker
<1>13. Running(i)' = Running(i)
  BY <1>4 DEF storeVars, Running
<1> QED BY <1>11, <1>12, <1>13 DEF Placed

LEMMA CommittingPlaced ==
  ASSUME Shape, NEW i \in Job, Placed(i), NEW n \in Node, Committing(n)
  PROVE  Placed(i)'
<1>1. ASSUME UNCHANGED storeVars PROVE Running(i)' = Running(i)
  BY <1>1 DEF storeVars, Running
<1>2. ASSUME NEW j \in Job, LockSuccess(n, j)
      PROVE  Placed(i)'
  <2>1. PICK b \in Batch : /\ batch' = [batch EXCEPT ![n] = b] /\ InCall(n)
                           /\ batch[n].stage = "successes" /\ b.stage = batch[n].stage
                           /\ b.wins = batch[n].wins /\ b.todo = batch[n].todo
    BY <1>2, LockSuccessEffect
  <2>2. UNCHANGED <<storeVars, runs, acks>>
    BY <1>2 DEF LockSuccess
  <2>3. batch'[n] = b /\ \A m \in Node \ {n} : batch'[m] = batch[m]
    BY <2>1 DEF Shape, TypeOK
  <2>4. Called(n, i)' => Called(n, i)
    BY <2>1, <2>3 DEF Called
  <2> QED BY <1>1, <2>1, <2>2, <2>3, <2>4, CallStep
<1>3. ASSUME CommitSuccesses(n)
      PROVE  Placed(i)'
  <2>1. PICK b \in Batch : /\ batch' = [batch EXCEPT ![n] = b] /\ InCall(n) /\ b.todo = batch[n].todo
                           /\ b.wins = {} /\ DOMAIN b.writes = {}
    BY <1>3, CommitSuccessesEffect
  <2>2. \A j \in Job \ batch[n].wins : jobs'[j] = jobs[j]
    BY <1>3, CommitSuccessesEffect
  <2>3. UNCHANGED <<runs, acks>>
    BY <1>3 DEF CommitSuccesses
  <2>4. batch'[n] = b /\ \A m \in Node \ {n} : batch'[m] = batch[m]
    BY <2>1 DEF Shape, TypeOK
  <2>5. Called(n, i)' <=> i \in JobsIn(batch[n].todo)
    BY <2>1, <2>4, BatchAssumption DEF Called, InCall
  <2>6. Called(n, i)' => Called(n, i)
    BY <2>1, <2>5 DEF Called
  <2>7. Running(i) => Running(i)' \/ (Called(n, i) /\ ~Called(n, i)')
    <3>1. CASE i \in batch[n].wins
      BY <2>1, <2>5, <3>1 DEF Placed, Alone, Called
    <3>2. CASE i \notin batch[n].wins
      BY <2>2, <3>2 DEF Running
    <3> QED BY <3>1, <3>2
  <2> QED BY <2>1, <2>3, <2>4, <2>6, <2>7, CallStep
<1>4. ASSUME ReadAttempt(n)
      PROVE  Placed(i)'
  <2>1. PICK b \in Batch : /\ batch' = [batch EXCEPT ![n] = b] /\ InCall(n)
                           /\ b.wins = batch[n].wins /\ b.todo = batch[n].todo
                           /\ b.writes = batch[n].writes /\ b.stage = batch[n].stage
    BY <1>4, ReadAttemptEffect
  <2>2. UNCHANGED <<storeVars, runs, acks>>
    BY <1>4 DEF ReadAttempt
  <2>3. batch'[n] = b /\ \A m \in Node \ {n} : batch'[m] = batch[m]
    BY <2>1 DEF Shape, TypeOK
  <2>4. Called(n, i)' => Called(n, i)
    BY <2>1, <2>3 DEF Called
  <2> QED BY <1>1, <2>1, <2>2, <2>3, <2>4, CallStep
<1>5. ASSUME WriteFailure(n)
      PROVE  Placed(i)'
  <2> DEFINE c == Current(n).job
  <2>1. PICK b \in Batch : /\ batch' = [batch EXCEPT ![n] = b] /\ InCall(n)
                           /\ b.wins = batch[n].wins /\ batch[n].stage = "failures"
                           /\ JobsIn(batch[n].todo) = JobsIn(b.todo) \cup {c}
                           /\ DOMAIN b.writes = DOMAIN batch[n].writes \cup {c}
    BY <1>5, WriteFailureEffect
  <2>2. UNCHANGED <<storeVars, runs, acks>>
    BY <1>5 DEF WriteFailure
  <2> HIDE DEF c
  <2>3. batch'[n] = b /\ \A m \in Node \ {n} : batch'[m] = batch[m]
    BY <2>1 DEF Shape, TypeOK
  <2>4. Called(n, i)' => Called(n, i)
    BY <2>1, <2>3 DEF Called
  <2> QED BY <1>1, <2>1, <2>2, <2>3, <2>4, CallStep
<1>6. ASSUME Return(n)
      PROVE  Placed(i)'
  <2>1. /\ InCall(n) /\ batch' = [batch EXCEPT ![n] = NoBatch] /\ batch[n].stage = "failures"
        /\ \A j \in Job \ DOMAIN batch[n].writes : jobs'[j] = jobs[j]
    BY <1>6, ReturnEffect
  <2>2. UNCHANGED <<runs, acks>>
    BY <1>6 DEF Return
  <2>3. batch'[n] = NoBatch /\ \A m \in Node \ {n} : batch'[m] = batch[m]
    BY <2>1 DEF Shape, TypeOK
  <2>4. ~Called(n, i)' /\ ~InCall(n)'
    BY <2>3 DEF Called, InCall
  <2>5. Running(i) => Running(i)' \/ (Called(n, i) /\ ~Called(n, i)')
    <3>1. CASE i \in DOMAIN batch[n].writes
      BY <2>1, <2>4, <3>1 DEF Called
    <3>2. CASE i \notin DOMAIN batch[n].writes
      BY <2>1, <3>2 DEF Running
    <3> QED BY <3>1, <3>2
  <2> QED BY <2>2, <2>3, <2>4, <2>5, CallStep
<1>7. ASSUME AbortDeadlock(n) \/ DbError(n)
      PROVE  Placed(i)'
  <2>1. batch' = [batch EXCEPT ![n] = NoBatch] /\ UNCHANGED <<storeVars, runs, acks>>
    BY <1>7 DEF AbortDeadlock, DbError, Fail
  <2>2. batch'[n] = NoBatch /\ \A m \in Node \ {n} : batch'[m] = batch[m]
    BY <2>1 DEF Shape, TypeOK
  <2>3. ~Called(n, i)' /\ ~InCall(n)'
    BY <2>2 DEF Called, InCall
  <2> QED BY <1>1, <2>1, <2>2, <2>3, CallStep
<1> QED BY <1>2, <1>3, <1>4, <1>5, <1>6, <1>7, TakeBatchPlaced DEF Committing, Statement

LEMMA StartingPlaced ==
  ASSUME Shape, NEW i \in Job, Placed(i), NEW n \in Node, Starting(n), i \notin disturbed'
  PROVE  Placed(i)'
<1>1. CASE Die(n)
  <2>1. /\ batch' = [batch EXCEPT ![n] = NoBatch] /\ acks' = [acks EXCEPT ![n] = <<>>]
        /\ UNCHANGED <<storeVars, runs>>
    BY <1>1 DEF Die
  <2>2. /\ batch'[n] = NoBatch /\ acks'[n] = <<>>
        /\ \A m \in Node \ {n} : batch'[m] = batch[m] /\ acks'[m] = acks[m]
    BY <2>1 DEF Shape, TypeOK
  <2>3. ~Called(n, i)' /\ ~InCall(n)' /\ ~Queued(n, i)' /\ Once(acks'[n], i)
    BY <2>2 DEF Called, InCall, Queued, JobsIn, Once
  <2>4. \A m \in Node \ {n} : Queued(m, i)' = Queued(m, i) /\ Called(m, i)' = Called(m, i) /\ InCall(m)' = InCall(m)
    BY <2>2 DEF Queued, Called, InCall
  <2>5. \A m \in Node : (Queued(m, i)' => Queued(m, i)) /\ (Called(m, i)' => Called(m, i))
    BY <2>3, <2>4
  <2>6. \A m \in Node : Once(acks[m], i) => Once(acks'[m], i)
    BY <2>2, <2>3
  <2>7. \A m \in Node : InCall(m)' /\ i \in batch'[m].wins /\ i \in JobsIn(batch'[m].todo)
                          => InCall(m) /\ i \in batch[m].wins /\ i \in JobsIn(batch[m].todo)
    BY <2>2, <2>3, <2>4
  <2>8. Running(i) => Running(i)'
    BY <2>1 DEF storeVars, Running
  <2> QED BY <2>1, <2>5, <2>6, <2>7, <2>8, NoNewPlace
<1>2. CASE Start(n) \/ Serve(n)
  <2>1. UNCHANGED <<storeVars, runs, acks, batch>>
    BY <1>2 DEF Start, Serve
  <2> QED BY <2>1, SamePlaces DEF storeVars, Running
<1>3. ASSUME NEW s \in stale[n], RecoverReset(n, s) \/ RecoverDead(n, s)
      PROVE  Placed(i)'
  <2>1. s.job \in Job /\ jobs \in [Job -> Row] /\ UNCHANGED <<runs, acks, batch>>
    BY <1>3 DEF RecoverReset, RecoverDead, Shape, TypeOK, StoreTypeOK, Stale
  <2>2. Running(i) => Running(i)'
    BY <1>3, <2>1 DEF RecoverReset, RecoverDead, ResetStaleJob, Running
  <2> QED BY <2>1, <2>2, SamePlaces
<1> QED BY <1>1, <1>2, <1>3 DEF Starting

(* Jobs once disturbed stay so.                                              *)
LEMMA DisturbedStays ==
  ASSUME [Next]_vars
  PROVE  disturbed \subseteq disturbed'
<1>1. CASE Requests
  BY <1>1 DEF Requests, Submit, Elapse, Cancel, Retry, histVars
<1>2. ASSUME NEW n \in Node, Working(n)
      PROVE  disturbed \subseteq disturbed'
  BY <1>2 DEF Working, Claim, TakeBack, Report, histVars
<1>3. ASSUME NEW n \in Node, Committing(n)
      PROVE  disturbed \subseteq disturbed'
  BY <1>3 DEF Committing, Statement, TakeBatch, LockSuccess, CommitSuccesses, ReadAttempt, WriteFailure,
          Return, AbortDeadlock, DbError, Fail, histVars
<1>4. ASSUME NEW n \in Node, Starting(n)
      PROVE  disturbed \subseteq disturbed'
  BY <1>4 DEF Starting, Die, Start, Serve, RecoverReset, RecoverDead, histVars
<1>5. CASE UNCHANGED vars
  BY <1>5 DEF vars, histVars
<1> QED BY <1>1, <1>2, <1>3, <1>4, <1>5 DEF Next

(* The executions of a job that no server took back are one after the other *)
(* in the whole cluster: one on a worker or one result under way, while the *)
(* row is RUNNING, and none when it is not.                                 *)
THEOREM ClusterOneResult == Spec => []OneResult
<1>1. Init => OneResult
  <2> SUFFICES ASSUME Init, NEW i \in Job PROVE Alone(i) /\ Idle(i)
    BY DEF OneResult
  <2>1. Idle(i)
    BY DEF Init, Idle, OnWorker, Queued, JobsIn, Called, InCall
  <2>2. (\A r, s \in runs : r = s) /\ \A n \in Node : Once(acks[n], i) /\ ~InCall(n)
    BY DEF Init, Once, InCall
  <2> QED BY <2>1, <2>2 DEF Alone, Idle
<1>2. Shape /\ OneResult /\ [Next]_vars => OneResult'
  <2> SUFFICES ASSUME Shape, OneResult, [Next]_vars, NEW i \in Job, i \notin disturbed'
               PROVE  Placed(i)'
    BY DEF OneResult, Placed
  <2>1. Placed(i)
    BY DisturbedStays DEF OneResult, Placed
  <2>2. CASE UNCHANGED vars
    BY <2>1, <2>2, SamePlaces DEF vars, serverVars, storeVars, Running
  <2>3. CASE Requests
    BY <2>1, <2>3, RequestsPlaced
  <2>4. ASSUME NEW n \in Node, Working(n) \/ Committing(n) \/ Starting(n)
        PROVE  Placed(i)'
    BY <2>1, <2>4, WorkingPlaced, CommittingPlaced, StartingPlaced
  <2> QED BY <2>2, <2>3, <2>4 DEF Next
<1> QED BY <1>1, <1>2, ClusterShape, PTL DEF Spec

-----------------------------------------------------------------------------
(* The step that ends a SUCCESS would be the commit of a failure: then the  *)
(* job has a result under way and its row is RUNNING.                       *)
LEMMA SuccessKept ==
  ASSUME Shape, OneResult, [Next]_vars, NEW i \in Job, jobs[i].status = "SUCCESS", i \notin disturbed'
  PROVE  jobs'[i].status = "SUCCESS"
<1>1. Idle(i)
  BY DisturbedStays DEF OneResult, Running
<1>2. jobs \in [Job -> Row]
  BY DEF Shape, TypeOK, StoreTypeOK
<1>3. CASE UNCHANGED vars
  BY <1>3 DEF vars, storeVars
<1>4. CASE Requests
  BY <1>2, <1>4 DEF Requests, Submit, Elapse, Cancel, Retry, InsertJob, BecomeDue, CancelJob, RetryJob
<1>5. ASSUME NEW n \in Node, Working(n)
      PROVE  jobs'[i].status = "SUCCESS"
  <2>1. ASSUME NEW j \in Job, Claim(n, j)
        PROVE  jobs'[i].status = "SUCCESS"
    BY <1>2, <2>1 DEF Claim, ClaimAndFetchJobs, Claimable
  <2>2. ASSUME NEW j \in Job, TakeBack(n, j)
        PROVE  jobs'[i].status = "SUCCESS"
    BY <1>2, <2>2 DEF TakeBack, ResetStaleJob, Running
  <2> QED BY <1>5, <2>1, <2>2 DEF Working, Report, storeVars
<1>6. ASSUME NEW n \in Node, Committing(n)
      PROVE  jobs'[i].status = "SUCCESS"
  <2>1. CASE CommitSuccesses(n)
    BY <2>1, CommitSuccessesEffect
  <2>2. CASE Return(n)
    <3>1. /\ InCall(n) /\ batch[n].stage = "failures"
          /\ \A j \in Job \ DOMAIN batch[n].writes : jobs'[j] = jobs[j]
      BY <2>2, ReturnEffect
    <3>2. i \notin DOMAIN batch[n].writes
      BY <1>1, <3>1 DEF Idle, Called
    <3> QED BY <3>1, <3>2
  <2>3. CASE UNCHANGED storeVars
    BY <2>3 DEF storeVars
  <2> QED BY <1>6, <2>1, <2>2, <2>3 DEF Committing, Statement, TakeBatch, LockSuccess, ReadAttempt,
            WriteFailure, AbortDeadlock, DbError, Fail
<1>7. ASSUME NEW n \in Node, Starting(n)
      PROVE  jobs'[i].status = "SUCCESS"
  <2>1. ASSUME NEW s \in stale[n], RecoverReset(n, s) \/ RecoverDead(n, s)
        PROVE  jobs'[i].status = "SUCCESS"
    BY <1>2, <2>1 DEF RecoverReset, RecoverDead, ResetStaleJob, Running
  <2>2. CASE UNCHANGED storeVars
    BY <2>2 DEF storeVars
  <2> QED BY <1>7, <2>1, <2>2 DEF Starting, Die, Start, Serve
<1> QED BY <1>3, <1>4, <1>5, <1>6, <1>7 DEF Next

(* The SUCCESS of a job is final unless some server took the job from a     *)
(* running execution or marked it dead from an old list.                    *)
THEOREM ClusterSuccessFinal == Spec => SuccessIsFinal
<1>1. Shape /\ OneResult /\ [Next]_vars
        => [\A j \in Job : jobs[j].status = "SUCCESS" /\ jobs'[j].status # "SUCCESS" => j \in disturbed']_vars
  BY SuccessKept
<1> QED BY <1>1, ClusterShape, ClusterOneResult, PTL DEF Spec, SuccessIsFinal


-----------------------------------------------------------------------------
(* The budget.  A claim adds one to the counter of a row, and may only      *)
(* exceed max_attempts where a reset gave the row back.  The SELECT of a    *)
(* failure takes no lock, so what a call has decided may be old; but a call *)
(* needs a result of the job, and the results there can be are counted: one *)
(* for each reset and one for the RUNNING row.                              *)

(* The results of job j that server n has in its queue q and its call b.    *)
Bits(q, b, n, j) ==
  {<<"ack", n, i>> : i \in {i \in DOMAIN q : q[i].job = j}} \cup
  (IF b = NoBatch THEN {}
   ELSE {<<"todo", n, i>> : i \in {i \in DOMAIN b.todo : b.todo[i].job = j}}
        \cup {<<"win", n, 0>> : x \in {j} \cap b.wins}
        \cup {<<"write", n, 0>> : x \in {x \in {j} \cap DOMAIN b.writes : b.stage = "failures"}})

RunsOf(j) == {<<"run", r.attempt, 0>> : r \in {r \in runs : r.job = j}}

(* Executions and results of job j, wherever they are.                      *)
Parts(j) == RunsOf(j) \cup UNION {Bits(acks[n], batch[n], n, j) : n \in Node}

(* A call that is to put j back into the queue: it has read an attempt that *)
(* leaves one more, or has written PENDING in its open transaction.         *)
Reading(b, j) ==
  /\ DOMAIN b.todo # {} /\ b.read # NoRead
  /\ b.todo[First(b.todo)].job = j /\ b.read < MaxAttempts[j]
Writing(b, j) == j \in DOMAIN b.writes /\ b.writes[j] = "PENDING"
Requeues(b, j) == b # NoBatch /\ b.stage = "failures" /\ (Reading(b, j) \/ Writing(b, j))
Requeuers(j) == {n \in Node : Requeues(batch[n], j)}

FewResults(j) ==
  Cardinality(Parts(j)) <= resets[j] + (IF jobs[j].status \in {"ABSENT", "PENDING"} THEN 0 ELSE 1)

(* Once the attempts are used up, every call that may requeue the row, and  *)
(* the row that is in the queue, has a reset to answer for it.              *)
Spare(j) ==
  jobs[j].attempt >= MaxAttempts[j] =>
    jobs[j].attempt + Cardinality(Requeuers(j)) + (IF jobs[j].status = "PENDING" THEN 1 ELSE 0)
      <= MaxAttempts[j] + resets[j]

Budgeted(j) == IsFiniteSet(Parts(j)) /\ FewResults(j) /\ Spare(j)

UnreadCalls == \A n \in Node : InCall(n) /\ batch[n].stage = "successes" => batch[n].read = NoRead

BudgetInv == UnreadCalls /\ \A j \in Job \ strays : Budgeted(j)

LEMMA Covered ==
  ASSUME NEW S, NEW T, IsFiniteSet(S), NEW f, \A t \in T : \E s \in S : f[s] = t
  PROVE  /\ IsFiniteSet(T) /\ Cardinality(T) \in Nat /\ Cardinality(S) \in Nat
         /\ Cardinality(T) <= Cardinality(S)
<1> DEFINE U == {f[s] : s \in S}
           g == [s \in S |-> f[s]]
<1>1. g \in Surjection(S, U)
  BY DEF Surjection
<1>2. IsFiniteSet(U) /\ Cardinality(U) <= Cardinality(S)
  <2> HIDE DEF U, g
  <2> QED BY <1>1, FS_Surjection
<1>3. T \in SUBSET U
  OBVIOUS
<1> HIDE DEF U
<1>4. IsFiniteSet(T) /\ Cardinality(T) <= Cardinality(U)
  BY <1>2, <1>3, FS_Subset
<1>5. Cardinality(T) \in Nat /\ Cardinality(U) \in Nat /\ Cardinality(S) \in Nat
  BY <1>2, <1>4, FS_CardinalityType
<1> QED BY <1>2, <1>4, <1>5

LEMMA BitsMember ==
  ASSUME NEW q, NEW b, NEW n, NEW j, NEW t
  PROVE  t \in Bits(q, b, n, j) <=>
           \/ \E i \in DOMAIN q : q[i].job = j /\ t = <<"ack", n, i>>
           \/ /\ b # NoBatch
              /\ \/ \E i \in DOMAIN b.todo : b.todo[i].job = j /\ t = <<"todo", n, i>>
                 \/ j \in b.wins /\ t = <<"win", n, 0>>
                 \/ b.stage = "failures" /\ j \in DOMAIN b.writes /\ t = <<"write", n, 0>>
BY DEF Bits

LEMMA PartsMember ==
  ASSUME NEW j, NEW t
  PROVE  t \in Parts(j) <=> t \in RunsOf(j) \/ \E n \in Node : t \in Bits(acks[n], batch[n], n, j)
BY DEF Parts

(* The results of one server are not those of another, nor executions.      *)
LEMMA BitsApart ==
  ASSUME NEW q, NEW b, NEW n, NEW j, NEW t \in Bits(q, b, n, j)
  PROVE  t[2] = n /\ t[1] # "run"
BY BitsMember

LEMMA RunsApart ==
  ASSUME NEW j, NEW t \in RunsOf(j)
  PROVE  t[1] = "run"
BY DEF RunsOf

(* What one server does to its queue and its call takes the results there   *)
(* to results there: there are no more of them.                             *)
LEMMA ServerMoves ==
  ASSUME NEW n \in Node, NEW j, IsFiniteSet(Parts(j)), NEW h, runs' = runs,
         \A m \in Node \ {n} : acks'[m] = acks[m] /\ batch'[m] = batch[m],
         \A t \in Bits(acks'[n], batch'[n], n, j) : \E s \in Bits(acks[n], batch[n], n, j) : h[s] = t
  PROVE  /\ IsFiniteSet(Parts(j)') /\ Cardinality(Parts(j)') <= Cardinality(Parts(j))
         /\ Cardinality(Parts(j)') \in Nat /\ Cardinality(Parts(j)) \in Nat
<1> DEFINE B == Bits(acks[n], batch[n], n, j)
           P == Parts(j)
           f == [s \in P |-> IF s \in B THEN h[s] ELSE s]
<1>1. B \subseteq P
  BY PartsMember
<1>2. \A t \in Bits(acks'[n], batch'[n], n, j) : \E s \in P : f[s] = t
  <2> HIDE DEF B, P
  <2> QED BY <1>1 DEF B
<1>3. ASSUME NEW t \in RunsOf(j) PROVE t \in P /\ f[t] = t
  <2>1. t \in P
    BY PartsMember
  <2>2. t \notin B
    BY RunsApart, BitsApart
  <2> HIDE DEF B, P
  <2> QED BY <2>1, <2>2
<1>4. ASSUME NEW m \in Node \ {n}, NEW t \in Bits(acks'[m], batch'[m], m, j) PROVE t \in P /\ f[t] = t
  <2>1. t \in Bits(acks[m], batch[m], m, j)
    BY <1>4
  <2>2. t \in P
    BY <2>1, PartsMember
  <2>3. t \notin B
    BY <2>1, BitsApart
  <2> HIDE DEF B, P
  <2> QED BY <2>2, <2>3
<1>5. RunsOf(j)' = RunsOf(j)
  BY DEF RunsOf
<1>6. \A t \in Parts(j)' : t \in RunsOf(j) \/ \E m \in Node : t \in Bits(acks'[m], batch'[m], m, j)
  BY <1>5 DEF Parts
<1> HIDE DEF f, B
<1>7. \A t \in Parts(j)' : \E s \in P : f[s] = t
  BY <1>2, <1>3, <1>4, <1>6
<1> QED BY <1>7, Covered

(* Nothing came up that was not there.                                      *)
LEMMA NoNewParts ==
  ASSUME NEW j, IsFiniteSet(Parts(j)), runs' = runs,
         \A n \in Node : Bits(acks'[n], batch'[n], n, j) \subseteq Bits(acks[n], batch[n], n, j)
  PROVE  /\ IsFiniteSet(Parts(j)') /\ Cardinality(Parts(j)') <= Cardinality(Parts(j))
         /\ Cardinality(Parts(j)') \in Nat /\ Cardinality(Parts(j)) \in Nat
         /\ Parts(j)' \subseteq Parts(j)
<1>1. Parts(j)' \in SUBSET Parts(j)
  BY DEF Parts, RunsOf
<1>2. IsFiniteSet(Parts(j)') /\ Cardinality(Parts(j)') <= Cardinality(Parts(j))
  BY <1>1, FS_Subset
<1> QED BY <1>1, <1>2, FS_CardinalityType

(* A server that would requeue the job has a result of it.                  *)
LEMMA RequeuersFew ==
  ASSUME TypeOK, NEW j \in Job, IsFiniteSet(Parts(j))
  PROVE  /\ IsFiniteSet(Requeuers(j)) /\ Cardinality(Requeuers(j)) \in Nat
         /\ Cardinality(Requeuers(j)) <= Cardinality(Parts(j)) /\ Cardinality(Parts(j)) \in Nat
<1> DEFINE P == Parts(j)
           f == [t \in P |-> t[2]]
<1>1. ASSUME NEW n \in Requeuers(j) PROVE \E t \in P : f[t] = n
  <2>1. n \in Node /\ InCall(n) /\ batch[n].stage = "failures"
    BY DEF Requeuers, Requeues, InCall
  <2>2. \E t \in Bits(acks[n], batch[n], n, j) : TRUE
    <3>1. CASE Reading(batch[n], j)
      <4>1. HasMore(n)
        BY <3>1 DEF Reading, HasMore
      <4>2. First(batch[n].todo) \in DOMAIN batch[n].todo
        BY <2>1, <4>1, CurrentIsTodo
      <4>3. <<"todo", n, First(batch[n].todo)>> \in Bits(acks[n], batch[n], n, j)
        BY <2>1, <3>1, <4>2, BitsMember DEF Reading, InCall
      <4> QED BY <4>3
    <3>2. CASE Writing(batch[n], j)
      <4>1. <<"write", n, 0>> \in Bits(acks[n], batch[n], n, j)
        BY <2>1, <3>2, BitsMember DEF Writing, InCall
      <4> QED BY <4>1
    <3> QED BY <3>1, <3>2 DEF Requeuers, Requeues
  <2>3. PICK t \in Bits(acks[n], batch[n], n, j) : TRUE
    BY <2>2
  <2>4. t \in P /\ t[2] = n
    BY <2>1, <2>3, PartsMember, BitsApart
  <2> HIDE DEF P
  <2> QED BY <2>4
<1> HIDE DEF f
<1> QED BY <1>1, Covered


(* The row keeps its counter, does not enter the queue, and there are no    *)
(* more results of it, nor calls that requeue it: it stays in its budget.   *)
LEMMA StaysBudgeted ==
  ASSUME TypeOK, NEW j \in Job, Budgeted(j),
         IsFiniteSet(Parts(j)'), Cardinality(Parts(j)') <= Cardinality(Parts(j)),
         jobs[j].attempt >= MaxAttempts[j] => Requeuers(j)' \subseteq Requeuers(j),
         jobs'[j].attempt = jobs[j].attempt, resets'[j] = resets[j],
         jobs'[j].status \in {"ABSENT", "PENDING"} => jobs'[j].status = jobs[j].status
  PROVE  Budgeted(j)'
<1>1. /\ jobs[j].attempt \in Nat /\ resets[j] \in Nat /\ MaxAttempts[j] \in Nat
      /\ Cardinality(Parts(j)) \in Nat /\ Cardinality(Parts(j)') \in Nat
      /\ Cardinality(Requeuers(j)) \in Nat /\ IsFiniteSet(Requeuers(j))
  BY RequeuersFew, FS_CardinalityType, StoreAssumption DEF Budgeted, TypeOK, StoreTypeOK, Row
<1>2. FewResults(j)'
  <2>1. Cardinality(Parts(j)) <= resets[j] + (IF jobs[j].status \in {"ABSENT", "PENDING"} THEN 0 ELSE 1)
    BY DEF Budgeted, FewResults
  <2>2. Cardinality(Parts(j)') <= resets'[j] + (IF jobs'[j].status \in {"ABSENT", "PENDING"} THEN 0 ELSE 1)
    BY <1>1, <2>1
  <2> QED BY <2>2 DEF FewResults
<1>3. Spare(j)'
  <2> SUFFICES ASSUME jobs[j].attempt >= MaxAttempts[j]
               PROVE  jobs'[j].attempt + Cardinality(Requeuers(j)') + (IF jobs'[j].status = "PENDING" THEN 1 ELSE 0)
                        <= MaxAttempts[j] + resets'[j]
    BY DEF Spare
  <2>1. jobs[j].attempt + Cardinality(Requeuers(j)) + (IF jobs[j].status = "PENDING" THEN 1 ELSE 0)
          <= MaxAttempts[j] + resets[j]
    BY DEF Budgeted, Spare
  <2>2. Cardinality(Requeuers(j)') <= Cardinality(Requeuers(j)) /\ Cardinality(Requeuers(j)') \in Nat
    <3>1. Requeuers(j)' \in SUBSET Requeuers(j)
      OBVIOUS
    <3> QED BY <1>1, <3>1, FS_Subset, FS_CardinalityType
  <2> QED BY <1>1, <2>1, <2>2
<1> QED BY <1>2, <1>3 DEF Budgeted

(* A statement that is a step of its own: the row changes and no result     *)
(* moves.                                                                   *)
LEMMA RowBudgeted ==
  ASSUME TypeOK, NEW i \in Job, Budgeted(i), NEW j \in Job,
         Parts(i)' = Parts(i), Requeuers(i)' = Requeuers(i),
         \/ InsertJob(j) \/ BecomeDue(j) \/ ResetStaleJob(j) \/ CancelJob(j)
         \/ jobs' = [jobs EXCEPT ![j].status = "DEAD"] /\ UNCHANGED resets
         \/ RetryJob(j) /\ (i = j => Parts(i) = {})
  PROVE  Budgeted(i)'
<1>1. /\ jobs[i].attempt \in Nat /\ resets[i] \in Nat /\ MaxAttempts[i] \in Nat /\ MaxAttempts[i] >= 1
      /\ Cardinality(Parts(i)) \in Nat /\ Cardinality(Requeuers(i)) \in Nat
      /\ IsFiniteSet(Parts(i)) /\ IsFiniteSet(Parts(i)')
  BY RequeuersFew, StoreAssumption DEF Budgeted, TypeOK, StoreTypeOK, Row
<1>2. jobs \in [Job -> Row] /\ resets \in [Job -> Nat] /\ jobs[i] \in Row
  BY DEF TypeOK, StoreTypeOK
<1>3. /\ Cardinality(Parts(i)') = Cardinality(Parts(i))
      /\ Cardinality(Requeuers(i)') = Cardinality(Requeuers(i))
  OBVIOUS
<1>4. /\ Cardinality(Parts(i)) <= resets[i] + (IF jobs[i].status \in {"ABSENT", "PENDING"} THEN 0 ELSE 1)
      /\ jobs[i].attempt >= MaxAttempts[i] =>
           jobs[i].attempt + Cardinality(Requeuers(i)) + (IF jobs[i].status = "PENDING" THEN 1 ELSE 0)
             <= MaxAttempts[i] + resets[i]
  BY DEF Budgeted, FewResults, Spare
<1> DEFINE p == Cardinality(Parts(i))
           r == Cardinality(Requeuers(i))
<1>5. SUFFICES
        /\ p <= resets'[i] + (IF jobs'[i].status \in {"ABSENT", "PENDING"} THEN 0 ELSE 1)
        /\ jobs'[i].attempt >= MaxAttempts[i] =>
             jobs'[i].attempt + r + (IF jobs'[i].status = "PENDING" THEN 1 ELSE 0) <= MaxAttempts[i] + resets'[i]
  BY <1>1, <1>3 DEF Budgeted, FewResults, Spare
<1>6. p = 0 \/ p >= 1
  BY <1>1
<1>7. Parts(i) = {} => p = 0
  BY FS_EmptySet
<1> HIDE DEF p, r
<1>8. p \in Nat /\ r \in Nat
  BY <1>1 DEF p, r
<1>9. /\ p <= resets[i] + (IF jobs[i].status \in {"ABSENT", "PENDING"} THEN 0 ELSE 1)
      /\ jobs[i].attempt >= MaxAttempts[i] =>
           jobs[i].attempt + r + (IF jobs[i].status = "PENDING" THEN 1 ELSE 0) <= MaxAttempts[i] + resets[i]
  BY <1>4 DEF p, r
<1>10. CASE jobs'[i] = jobs[i] /\ resets'[i] = resets[i]
  BY <1>9, <1>10
<1>11. CASE InsertJob(j) /\ i = j
  <2>1. jobs'[i].status = "PENDING" /\ jobs'[i].attempt = 0 /\ resets'[i] = resets[i] /\ jobs[i].status = "ABSENT"
    BY <1>2, <1>11 DEF InsertJob
  <2> QED BY <1>1, <1>8, <1>9, <2>1
<1>12. CASE BecomeDue(j) /\ i = j
  <2>1. jobs'[i].status = jobs[i].status /\ jobs'[i].attempt = jobs[i].attempt /\ resets'[i] = resets[i]
    BY <1>2, <1>12 DEF BecomeDue, Row
  <2> QED BY <1>9, <2>1
<1>13. CASE ResetStaleJob(j) /\ i = j /\ Running(j)
  <2>1. /\ jobs'[i].status = "PENDING" /\ jobs'[i].attempt = jobs[i].attempt /\ resets'[i] = resets[i] + 1
        /\ jobs[i].status = "RUNNING"
    BY <1>2, <1>13 DEF ResetStaleJob, Running, Requeued
  <2>2. p <= resets[i] + 1
    BY <1>1, <1>8, <1>9, <2>1
  <2>3. jobs[i].attempt >= MaxAttempts[i] => jobs[i].attempt + r <= MaxAttempts[i] + resets[i]
    BY <1>1, <1>8, <1>9, <2>1
  <2> QED BY <1>1, <1>8, <2>1, <2>2, <2>3
<1>14. CASE CancelJob(j) /\ i = j
  <2>1. /\ jobs'[i].status = "CANCELLED" /\ jobs'[i].attempt = jobs[i].attempt /\ resets'[i] = resets[i]
        /\ jobs[i].status = "PENDING"
    BY <1>2, <1>14 DEF CancelJob, Row
  <2> QED BY <1>1, <1>8, <1>9, <2>1
<1>15. CASE jobs' = [jobs EXCEPT ![j].status = "DEAD"] /\ UNCHANGED resets /\ i = j
  <2>1. jobs'[i].status = "DEAD" /\ jobs'[i].attempt = jobs[i].attempt /\ resets'[i] = resets[i]
    BY <1>2, <1>15 DEF Row
  <2> QED BY <1>1, <1>8, <1>9, <2>1
<1>16. CASE RetryJob(j) /\ i = j /\ p = 0
  <2>1. jobs'[i].status = "PENDING" /\ jobs'[i].attempt = 0 /\ resets'[i] = 0
    BY <1>2, <1>16 DEF RetryJob
  <2> QED BY <1>1, <1>16, <2>1
<1>17. i # j \/ (ResetStaleJob(j) /\ ~Running(j)) => jobs'[i] = jobs[i] /\ resets'[i] = resets[i]
  BY <1>2 DEF InsertJob, BecomeDue, ResetStaleJob, CancelJob, RetryJob
<1> QED BY <1>7, <1>10, <1>11, <1>12, <1>13, <1>14, <1>15, <1>16, <1>17

(* A job with nothing under way has no parts.                               *)
LEMMA NothingUnderWay ==
  ASSUME NEW j, ~UnderWay(j)
  PROVE  Parts(j) = {}
<1>1. RunsOf(j) = {}
  BY DEF RunsOf, UnderWay
<1>2. ASSUME NEW n \in Node PROVE Bits(acks[n], batch[n], n, j) = {}
  <2>1. j \notin InHand(n)
    BY DEF UnderWay
  <2> QED BY <2>1, BitsMember DEF InHand, InCall, JobsIn
<1> QED BY <1>1, <1>2 DEF Parts

LEMMA SameParts ==
  ASSUME NEW j, UNCHANGED <<runs, acks, batch>>
  PROVE  Parts(j)' = Parts(j) /\ Requeuers(j)' = Requeuers(j)
BY DEF Parts, RunsOf, Bits, Requeuers, Requeues, Reading, Writing

LEMMA RequestsBudgeted ==
  ASSUME TypeOK, NEW i \in Job, Budgeted(i), Requests, i \notin strays'
  PROVE  Budgeted(i)'
<1>1. PICK j \in Job : Submit(j) \/ Elapse(j) \/ Cancel(j) \/ Retry(j)
  BY DEF Requests
<1>2. UNCHANGED <<runs, acks, batch>>
  BY <1>1 DEF Submit, Elapse, Cancel, Retry, serverVars
<1>3. Retry(j) /\ i = j => Parts(i) = {}
  BY NothingUnderWay DEF Retry
<1>4. \/ InsertJob(j) \/ BecomeDue(j) \/ CancelJob(j)
      \/ RetryJob(j) /\ (i = j => Parts(i) = {})
  BY <1>1, <1>3 DEF Submit, Elapse, Cancel, Retry
<1>5. Parts(i)' = Parts(i) /\ Requeuers(i)' = Requeuers(i)
  BY <1>2, SameParts
<1> QED BY <1>4, <1>5, RowBudgeted


(* A claim adds one execution, and one to the counter; the last attempt is  *)
(* claimed while the parts are no more than the resets.                     *)
LEMMA ClaimBudgeted ==
  ASSUME TypeOK, NEW i \in Job, Budgeted(i), NEW n \in Node, NEW j \in Job, Claim(n, j)
  PROVE  Budgeted(i)'
<1>1. /\ jobs[i].attempt \in Nat /\ resets[i] \in Nat /\ MaxAttempts[i] \in Nat
      /\ Cardinality(Parts(i)) \in Nat /\ Cardinality(Requeuers(i)) \in Nat
      /\ IsFiniteSet(Parts(i)) /\ Cardinality(Requeuers(i)) <= Cardinality(Parts(i))
  BY RequeuersFew, StoreAssumption DEF Budgeted, TypeOK, StoreTypeOK, Row
<1>2. jobs \in [Job -> Row] /\ resets' = resets /\ UNCHANGED <<acks, batch>>
  BY DEF TypeOK, StoreTypeOK, Claim, ClaimAndFetchJobs
<1>3. Requeuers(i)' = Requeuers(i)
  BY <1>2 DEF Requeuers, Requeues, Reading, Writing
<1>4. CASE i # j
  <2>1. jobs'[i] = jobs[i]
    BY <1>2, <1>4 DEF Claim, ClaimAndFetchJobs
  <2>2. RunsOf(i)' = RunsOf(i)
    BY <1>4 DEF RunsOf, Claim
  <2>3. Parts(i)' = Parts(i)
    BY <1>2, <2>2 DEF Parts
  <2> QED BY <1>1, <1>2, <1>3, <2>1, <2>3, StaysBudgeted
<1>5. CASE i = j
  <2> DEFINE x == <<"run", jobs[i].attempt + 1, 0>>
             P == Parts(i)
             r == Cardinality(Requeuers(i))
  <2>1. /\ jobs[i].status = "PENDING" /\ jobs'[i].status = "RUNNING"
        /\ jobs'[i].attempt = jobs[i].attempt + 1
    BY <1>2, <1>5 DEF Claim, ClaimAndFetchJobs, Claimable, Claimed
  <2>2. Parts(i)' \in SUBSET (P \cup {x})
    <3>1. RunsOf(i)' = RunsOf(i) \cup {x}
      <4> DEFINE e == [job |-> i, attempt |-> jobs[i].attempt + 1]
      <4>1. runs' = runs \cup {e} /\ e.job = i /\ <<"run", e.attempt, 0>> = x
        BY <1>5 DEF Claim
      <4> HIDE DEF e, x
      <4> QED BY <4>1 DEF RunsOf
    <3> QED BY <1>2, <3>1 DEF Parts
  <2> HIDE DEF x
  <2>3. IsFiniteSet(P \cup {x}) /\ Cardinality(P \cup {x}) <= Cardinality(P) + 1
    <3> HIDE DEF P
    <3>1. IsFiniteSet(P) /\ Cardinality(P) \in Nat
      BY <1>1 DEF P
    <3>2. /\ IsFiniteSet(P \cup {x})
          /\ Cardinality(P \cup {x}) = IF x \in P THEN Cardinality(P) ELSE Cardinality(P) + 1
      BY <3>1, FS_AddElement
    <3> QED BY <3>1, <3>2
  <2>4. /\ IsFiniteSet(Parts(i)') /\ Cardinality(Parts(i)') <= Cardinality(P \cup {x})
        /\ Cardinality(Parts(i)') \in Nat /\ Cardinality(P \cup {x}) \in Nat
    <3>1. IsFiniteSet(Parts(i)') /\ Cardinality(Parts(i)') <= Cardinality(P \cup {x})
      <4> HIDE DEF P
      <4> QED BY <2>2, <2>3, FS_Subset
    <3> QED BY <2>3, <3>1, FS_CardinalityType
  <2>5. Cardinality(P) <= resets[i] /\ (jobs[i].attempt >= MaxAttempts[i] =>
          jobs[i].attempt + r + 1 <= MaxAttempts[i] + resets[i])
    BY <1>1, <2>1 DEF Budgeted, FewResults, Spare
  <2>6. FewResults(i)'
    <3>1. Cardinality(Parts(i)') <= resets'[i] + 1
      BY <1>1, <1>2, <2>3, <2>4, <2>5
    <3> QED BY <2>1, <3>1 DEF FewResults
  <2>7. Spare(i)'
    <3> HIDE DEF r
    <3>1. r \in Nat /\ r <= resets[i] /\ Cardinality(Requeuers(i)') = r
      BY <1>1, <1>3, <2>5 DEF r
    <3>2. jobs[i].attempt + 1 >= MaxAttempts[i]
            => jobs[i].attempt + 1 + r + 0 <= MaxAttempts[i] + resets[i]
      BY <1>1, <2>5, <3>1
    <3> QED BY <1>2, <2>1, <3>1, <3>2 DEF Spare
  <2> QED BY <2>4, <2>6, <2>7 DEF Budgeted
<1> QED BY <1>4, <1>5

(* The queues and the executions change, the calls and the row do not.      *)
LEMMA SettledRow ==
  ASSUME Shape, NEW j \in Job, Budgeted(j), UNCHANGED <<storeVars, batch>>,
         IsFiniteSet(Parts(j)'), Cardinality(Parts(j)') <= Cardinality(Parts(j))
  PROVE  Budgeted(j)'
<1>1. Requeuers(j)' = Requeuers(j)
  BY DEF Requeuers, Requeues, Reading, Writing
<1> QED BY <1>1, StaysBudgeted DEF Shape, storeVars

(* A report turns an execution into a result at the end of a queue.         *)
LEMMA ReportBudgeted ==
  ASSUME Shape, NEW i \in Job, Budgeted(i), NEW n \in Node, NEW r \in runs, NEW o \in Outcome, Report(r, n, o)
  PROVE  Budgeted(i)'
<1> DEFINE a == [job |-> r.job, outcome |-> o]
           q == acks[n]
           x == <<"run", r.attempt, 0>>
           y == <<"ack", n, Len(q) + 1>>
           P == Parts(i)
           f == [s \in P |-> IF s = x THEN y ELSE s]
<1>1. /\ a \in Ack /\ runs' = runs \ {r} /\ acks' = [acks EXCEPT ![n] = Append(q, a)]
      /\ UNCHANGED <<storeVars, batch>> /\ q \in Seq(Ack) /\ r \in Run
  BY ReportEffect DEF Shape, TypeOK
<1>2. acks'[n] = Append(q, a) /\ \A m \in Node \ {n} : acks'[m] = acks[m]
  BY <1>1 DEF Shape, TypeOK
<1>3. /\ Len(q) \in Nat /\ DOMAIN q = 1..Len(q) /\ DOMAIN acks'[n] = 1..(Len(q) + 1)
      /\ acks'[n][Len(q) + 1] = a /\ \A k \in 1..Len(q) : acks'[n][k] = q[k]
  <2> HIDE DEF a
  <2> QED BY <1>1, <1>2, QueueParts, AppendProperties
<1>4. \A k \in DOMAIN acks'[n] : k \in DOMAIN q \/ k = Len(q) + 1
  BY <1>3
<1>5. ASSUME NEW t \in Bits(acks'[n], batch'[n], n, i)
      PROVE  t \in Bits(q, batch[n], n, i) \/ (r.job = i /\ t = y)
  <2>1. CASE \E k \in DOMAIN acks'[n] : acks'[n][k].job = i /\ t = <<"ack", n, k>>
    <3>1. PICK k \in DOMAIN acks'[n] : acks'[n][k].job = i /\ t = <<"ack", n, k>>
      BY <2>1
    <3>2. CASE k \in DOMAIN q
      BY <1>3, <3>1, <3>2, BitsMember
    <3>3. CASE k = Len(q) + 1
      BY <1>3, <3>1, <3>3
    <3> QED BY <1>4, <3>2, <3>3
  <2>2. CASE ~\E k \in DOMAIN acks'[n] : acks'[n][k].job = i /\ t = <<"ack", n, k>>
    <3>1. batch'[n] = batch[n]
      BY <1>1
    <3> DEFINE p == acks'[n]
    <3> HIDE DEF p, q
    <3>2. t \in Bits(p, batch[n], n, i) /\ ~\E k \in DOMAIN p : p[k].job = i /\ t = <<"ack", n, k>>
      BY <2>2, <3>1 DEF p
    <3>3. t \in Bits(q, batch[n], n, i)
      BY <3>2, BitsMember
    <3> QED BY <3>3
  <2> QED BY <2>1, <2>2
<1>6. CASE r.job # i
  <2>1. RunsOf(i)' = RunsOf(i)
    BY <1>1, <1>6 DEF RunsOf
  <2>2. ASSUME NEW m \in Node PROVE Bits(acks'[m], batch'[m], m, i) \subseteq Bits(acks[m], batch[m], m, i)
    <3>1. CASE m = n
      BY <1>1, <1>5, <1>6, <3>1
    <3>2. CASE m # n
      BY <1>1, <1>2, <3>2
    <3> QED BY <3>1, <3>2
  <2>3. Parts(i)' \in SUBSET Parts(i)
    BY <2>1, <2>2 DEF Parts
  <2>4. IsFiniteSet(Parts(i)') /\ Cardinality(Parts(i)') <= Cardinality(Parts(i))
    BY <2>3, FS_Subset DEF Budgeted
  <2> QED BY <1>1, <2>4, SettledRow
<1>7. CASE r.job = i
  <2> HIDE DEF q, y
  <2>1. ASSUME NEW t \in RunsOf(i)' PROVE t \in P /\ t # x
    <3>1. PICK s \in runs' : s.job = i /\ t = <<"run", s.attempt, 0>>
      BY DEF RunsOf
    <3>2. s \in runs /\ s # r /\ s \in Run
      BY <1>1, <3>1 DEF Shape, TypeOK
    <3>3. s.attempt # r.attempt
      BY <1>1, <1>7, <3>1, <3>2 DEF Run
    <3> QED BY <3>1, <3>2, <3>3, PartsMember DEF RunsOf
  <2>2. x \in P
    BY <1>7, PartsMember DEF RunsOf
  <2>3. ASSUME NEW m \in Node, NEW t \in Bits(acks'[m], batch'[m], m, i), t # y
        PROVE  t \in P /\ t # x
    <3>1. t \in Bits(acks[m], batch[m], m, i)
      BY <1>1, <1>2, <1>5, <2>3 DEF q
    <3>2. t[1] # "run"
      BY <3>1, BitsApart
    <3> QED BY <3>1, <3>2, PartsMember
  <2> HIDE DEF x, P
  <2>4. f[x] = y /\ \A t \in P : t # x => f[t] = t
    BY <2>2
  <2> HIDE DEF f
  <2>5. \A t \in Parts(i)' : \E s \in P : f[s] = t
    <3>1. \A t \in Parts(i)' : t \in RunsOf(i)' \/ \E m \in Node : t \in Bits(acks'[m], batch'[m], m, i)
      BY DEF Parts
    <3> QED BY <2>1, <2>2, <2>3, <2>4, <3>1
  <2>6. IsFiniteSet(Parts(i)') /\ Cardinality(Parts(i)') <= Cardinality(P)
    <3>1. IsFiniteSet(P)
      BY DEF Budgeted, P
    <3> QED BY <2>5, <3>1, Covered
  <2> QED BY <1>1, <2>6, SettledRow DEF P
<1> QED BY <1>6, <1>7

LEMMA WorkingBudgeted ==
  ASSUME Shape, NEW i \in Job, Budgeted(i), NEW n \in Node, Working(n)
  PROVE  Budgeted(i)'
<1>1. ASSUME NEW j \in Job, TakeBack(n, j)
      PROVE  Budgeted(i)'
  <2>1. ResetStaleJob(j) /\ UNCHANGED <<runs, acks, batch>>
    BY <1>1 DEF TakeBack
  <2> QED BY <2>1, SameParts, RowBudgeted DEF Shape
<1> QED BY <1>1, ClaimBudgeted, ReportBudgeted DEF Working, Shape


(* A step of server n that leaves the counter of the row alone.             *)
LEMMA CallMoves ==
  ASSUME Shape, NEW j \in Job, Budgeted(j), NEW n \in Node, NEW h, runs' = runs,
         \A m \in Node \ {n} : acks'[m] = acks[m] /\ batch'[m] = batch[m],
         \A t \in Bits(acks'[n], batch'[n], n, j) : \E s \in Bits(acks[n], batch[n], n, j) : h[s] = t,
         jobs[j].attempt >= MaxAttempts[j] /\ Requeues(batch'[n], j) => Requeues(batch[n], j),
         jobs'[j].attempt = jobs[j].attempt, resets'[j] = resets[j],
         jobs'[j].status \in {"ABSENT", "PENDING"} => jobs'[j].status = jobs[j].status
  PROVE  Budgeted(j)'
<1>1. IsFiniteSet(Parts(j)') /\ Cardinality(Parts(j)') <= Cardinality(Parts(j))
  BY ServerMoves DEF Budgeted
<1>2. ASSUME jobs[j].attempt >= MaxAttempts[j], NEW m \in Node, Requeues(batch'[m], j)
      PROVE  Requeues(batch[m], j)
  <2>1. CASE m = n
    BY <1>2, <2>1
  <2>2. CASE m # n
    BY <1>2, <2>2
  <2> QED BY <2>1, <2>2
<1>3. Requeuers(j)' = {m \in Node : Requeues(batch'[m], j)}
  BY DEF Requeuers, Requeues, Reading, Writing
<1>4. jobs[j].attempt >= MaxAttempts[j] => Requeuers(j)' \subseteq Requeuers(j)
  BY <1>2, <1>3 DEF Requeuers
<1> QED BY <1>1, <1>4, StaysBudgeted DEF Shape

LEMMA CallDrops ==
  ASSUME Shape, NEW j \in Job, Budgeted(j), NEW n \in Node, runs' = runs,
         \A m \in Node \ {n} : acks'[m] = acks[m] /\ batch'[m] = batch[m],
         Bits(acks'[n], batch'[n], n, j) \subseteq Bits(acks[n], batch[n], n, j),
         jobs[j].attempt >= MaxAttempts[j] /\ Requeues(batch'[n], j) => Requeues(batch[n], j),
         jobs'[j].attempt = jobs[j].attempt, resets'[j] = resets[j],
         jobs'[j].status \in {"ABSENT", "PENDING"} => jobs'[j].status = jobs[j].status
  PROVE  Budgeted(j)'
<1> DEFINE B == Bits(acks[n], batch[n], n, j)
           h == [s \in B |-> s]
<1>1. \A t \in Bits(acks'[n], batch'[n], n, j) : \E s \in B : h[s] = t
  OBVIOUS
<1> HIDE DEF h
<1> QED BY <1>1, CallMoves

(* Taking a batch parts the queue: of what it takes, a result is a success  *)
(* or a failure to do; the rest moves up.                                   *)
LEMMA TakeBatchBudgeted ==
  ASSUME Shape, NEW j \in Job, Budgeted(j), NEW n \in Node, NEW k \in 1..BatchMax, TakeBatch(n, k)
  PROVE  Budgeted(j)'
<1> DEFINE q == acks[n]
           p == SubSeq(q, k + 1, Len(q))
           B == Bits(q, batch[n], n, j)
           G(i) == IF i > k THEN <<"ack", n, i - k>>
                   ELSE IF q[i].outcome = "success" THEN <<"win", n, 0>>
                   ELSE <<"todo", n, i>>
           h == [s \in B |-> G(s[3])]
<1>1. /\ q \in Seq(Ack) /\ k <= Len(q) /\ ~InCall(n) /\ acks' = [acks EXCEPT ![n] = p]
  BY TakeBatchEffect
<1>2. PICK b \in Batch : /\ b.wins = WinsOf(q, k) /\ b.todo = TodoOf(q, k) /\ DOMAIN b.writes = {}
                         /\ b.read = NoRead /\ batch' = [batch EXCEPT ![n] = b]
  BY TakeBatchEffect, NothingType
<1>3. /\ acks'[n] = p /\ batch'[n] = b
      /\ \A m \in Node \ {n} : acks'[m] = acks[m] /\ batch'[m] = batch[m]
  BY <1>1, <1>2 DEF Shape, TypeOK
<1>4. /\ UNCHANGED <<jobs, resets>> /\ runs' = runs
  BY DEF TakeBatch, storeVars
<1>5. /\ BatchMax \in Nat /\ k \in Nat /\ k > 0 /\ Len(q) \in Nat /\ DOMAIN q = 1..Len(q)
  BY <1>1, QueueParts, StoreAssumption
<1>6. /\ DOMAIN p = 1..(Len(q) - k)
      /\ \A i \in 1..(Len(q) - k) : p[i] = q[k + i]
  <2> DEFINE L == Len(q)
  <2>1. \A i \in (k + 1)..L : q[i] \in Ack
    BY <1>1, <1>5, QueueParts
  <2>2. L \in Nat /\ k <= L
    BY <1>1, <1>5
  <2> HIDE DEF L, p, q
  <2>3. /\ SubSeq(q, k + 1, L) \in Seq(Ack)
        /\ Len(SubSeq(q, k + 1, L)) = IF k + 1 <= L THEN L - (k + 1) + 1 ELSE 0
        /\ \A i \in 1..(L - (k + 1) + 1) : SubSeq(q, k + 1, L)[i] = q[(k + 1) + i - 1]
    BY <1>5, <2>1, <2>2, SubSeqProperties
  <2>4. p = SubSeq(q, k + 1, L)
    BY DEF L, p
  <2>5. p \in Seq(Ack) /\ Len(p) = L - k
    BY <1>5, <2>2, <2>3, <2>4
  <2>6. ASSUME NEW i \in 1..(L - k) PROVE p[i] = q[k + i]
    <3>1. i \in 1..(L - (k + 1) + 1) /\ (k + 1) + i - 1 = k + i
      BY <1>5, <2>2
    <3> QED BY <2>3, <2>4, <3>1
  <2>7. DOMAIN p = 1..(L - k)
    BY <2>5
  <2> QED BY <2>6, <2>7 DEF L
<1>7. ASSUME NEW i \in DOMAIN q, q[i].job = j
      PROVE  <<"ack", n, i>> \in B
  BY <1>7, BitsMember
<1>8. \A i : <<"ack", n, i>> \in B => h[<<"ack", n, i>>] = G(i)
  <2> SUFFICES ASSUME NEW i, <<"ack", n, i>> \in B
               PROVE  h[<<"ack", n, i>>] = G(i)
    OBVIOUS
  <2> DEFINE s == <<"ack", n, i>>
  <2>1. s[3] = i /\ s \in B
    OBVIOUS
  <2> HIDE DEF B, G, s
  <2>2. h[s] = G(s[3])
    BY <2>1
  <2> QED BY <2>1, <2>2 DEF s
<1> HIDE DEF h, B, p, q, G
<1>9. ASSUME NEW t \in Bits(p, b, n, j) PROVE \E s \in B : h[s] = t
  <2>1. CASE \E i \in DOMAIN p : p[i].job = j /\ t = <<"ack", n, i>>
    <3>1. PICK i \in DOMAIN p : p[i].job = j /\ t = <<"ack", n, i>>
      BY <2>1
    <3>2. i \in 1..(Len(q) - k) /\ k + i \in DOMAIN q /\ k + i > k /\ (k + i) - k = i
      BY <1>1, <1>5, <1>6, <3>1
    <3>3. <<"ack", n, k + i>> \in B
      BY <1>6, <1>7, <3>1, <3>2
    <3>4. h[<<"ack", n, k + i>>] = t
      BY <1>8, <3>1, <3>2, <3>3 DEF G
    <3> QED BY <3>3, <3>4
  <2>2. CASE j \in b.wins /\ t = <<"win", n, 0>>
    <3>1. PICK i \in 1..k : q[i].outcome = "success" /\ q[i].job = j
      BY <1>2, <2>2 DEF WinsOf
    <3>2. i \in DOMAIN q /\ ~(i > k)
      BY <1>1, <1>5, <3>1
    <3>3. <<"ack", n, i>> \in B
      BY <1>7, <3>1, <3>2
    <3>4. h[<<"ack", n, i>>] = t
      BY <1>8, <2>2, <3>1, <3>2, <3>3 DEF G
    <3> QED BY <3>3, <3>4
  <2>3. CASE \E i \in DOMAIN b.todo : b.todo[i].job = j /\ t = <<"todo", n, i>>
    <3>1. PICK i \in DOMAIN b.todo : b.todo[i].job = j /\ t = <<"todo", n, i>>
      BY <2>3
    <3>2. i \in 1..k /\ q[i].outcome # "success" /\ q[i].job = j
      BY <1>2, <3>1 DEF TodoOf
    <3>3. i \in DOMAIN q /\ ~(i > k)
      BY <1>1, <1>5, <3>2
    <3>4. <<"ack", n, i>> \in B
      BY <1>7, <3>2, <3>3
    <3>5. h[<<"ack", n, i>>] = t
      BY <1>8, <3>1, <3>2, <3>3, <3>4 DEF G
    <3> QED BY <3>4, <3>5
  <2> QED BY <1>2, <2>1, <2>2, <2>3, BitsMember
<1>10. ~Requeues(b, j)
  BY <1>2 DEF Requeues, Reading, Writing
<1>11. \A t \in Bits(acks'[n], batch'[n], n, j) : \E s \in Bits(acks[n], batch[n], n, j) : h[s] = t
  BY <1>3, <1>9 DEF B, q
<1> QED BY <1>3, <1>4, <1>10, <1>11, CallMoves

(* A failure is written: what was to do is in the transaction.  It puts the *)
(* row back into the queue only if the attempt that was read allowed it.    *)
LEMMA WriteFailureBudgeted ==
  ASSUME Shape, NEW j \in Job, Budgeted(j), NEW n \in Node, WriteFailure(n)
  PROVE  Budgeted(j)'
<1> DEFINE c == Current(n)
           v == Verdict(c, batch[n].read)
           F == First(batch[n].todo)
           w == Written(n, c.job, v)
           x == Rest(batch[n].todo)
           b == [batch[n] EXCEPT !.writes = w, !.todo = x, !.read = NoRead]
           B == Bits(acks[n], batch[n], n, j)
           h == [s \in B |-> IF s = <<"todo", n, F>> THEN <<"write", n, 0>> ELSE s]
<1>1. /\ InCall(n) /\ HasMore(n) /\ batch[n].stage = "failures" /\ batch' = [batch EXCEPT ![n] = b]
      /\ batch[n].read # NoRead /\ UNCHANGED <<jobs, resets, runs, acks>>
  BY DEF WriteFailure, storeVars
<1>2. F \in DOMAIN batch[n].todo /\ c = batch[n].todo[F] /\ c \in Ack
  BY <1>1, CurrentIsTodo DEF Shape, Current
<1>3. /\ DOMAIN w = DOMAIN batch[n].writes \cup {c.job}
      /\ \A i \in DOMAIN w : w[i] = IF i = c.job THEN v ELSE batch[n].writes[i]
  BY DEF Written
<1>4. /\ DOMAIN x = DOMAIN batch[n].todo \ {F}
      /\ \A i \in DOMAIN x : x[i] = batch[n].todo[i]
  BY DEF Rest
<1>5. batch[n] \in Batch
  BY <1>1, PartOfCall DEF Shape
<1>6. v = "PENDING" => batch[n].read < MaxAttempts[c.job]
  BY DEF Verdict
<1> HIDE DEF w, x, v, c
<1>7. b.writes = w /\ b.todo = x /\ b.read = NoRead /\ b.stage = "failures" /\ b.wins = batch[n].wins
  BY <1>1, <1>5 DEF Batch
<1>8. /\ batch'[n] = b /\ acks'[n] = acks[n]
      /\ \A m \in Node \ {n} : acks'[m] = acks[m] /\ batch'[m] = batch[m]
  BY <1>1 DEF Shape, TypeOK
<1>9. h = [s \in B |-> IF s = <<"todo", n, F>> THEN <<"write", n, 0>> ELSE s]
  OBVIOUS
<1> HIDE DEF b, h, F
<1>10. ASSUME NEW t \in Bits(acks[n], b, n, j) PROVE \E s \in B : h[s] = t
  <2>1. CASE t \in B /\ t # <<"todo", n, F>>
    <3> HIDE DEF B
    <3> QED BY <1>9, <2>1
  <2>2. CASE j = c.job /\ t = <<"write", n, 0>>
    <3>1. <<"todo", n, F>> \in B
      BY <1>1, <1>2, <2>2, BitsMember DEF InCall
    <3> HIDE DEF B
    <3> QED BY <1>9, <2>2, <3>1
  <2>3. CASE \E i \in DOMAIN acks[n] : acks[n][i].job = j /\ t = <<"ack", n, i>>
    BY <2>1, <2>3, BitsMember
  <2>4. CASE \E i \in DOMAIN b.todo : b.todo[i].job = j /\ t = <<"todo", n, i>>
    <3>1. PICK i \in DOMAIN b.todo : b.todo[i].job = j /\ t = <<"todo", n, i>>
      BY <2>4
    <3>2. i \in DOMAIN batch[n].todo /\ i # F /\ batch[n].todo[i].job = j
      BY <1>4, <1>7, <3>1
    <3>3. t \in B
      BY <1>1, <3>1, <3>2, BitsMember DEF InCall
    <3>4. t # <<"todo", n, F>>
      BY <3>1, <3>2
    <3> QED BY <2>1, <3>3, <3>4
  <2>5. CASE j \in b.wins /\ t = <<"win", n, 0>>
    <3>1. t \in B /\ t # <<"todo", n, F>>
      BY <1>1, <1>7, <2>5, BitsMember DEF InCall
    <3> QED BY <2>1, <3>1
  <2>6. CASE j \in DOMAIN b.writes /\ t = <<"write", n, 0>>
    <3>1. CASE j \in DOMAIN batch[n].writes
      <4>1. t \in B /\ t # <<"todo", n, F>>
        BY <1>1, <2>6, <3>1, BitsMember DEF InCall
      <4> QED BY <2>1, <4>1
    <3>2. CASE j \notin DOMAIN batch[n].writes
      BY <1>3, <1>7, <2>2, <2>6, <3>2
    <3> QED BY <3>1, <3>2
  <2> QED BY <2>3, <2>4, <2>5, <2>6, BitsMember
<1>11. Requeues(b, j) => Requeues(batch[n], j)
  <2> SUFFICES ASSUME Requeues(b, j) PROVE Requeues(batch[n], j)
    OBVIOUS
  <2>1. j \in DOMAIN w /\ w[j] = "PENDING"
    BY <1>7 DEF Requeues, Reading, Writing
  <2>2. CASE j = c.job
    BY <1>1, <1>2, <1>3, <1>6, <2>1, <2>2 DEF Requeues, Reading, F, InCall
  <2>3. CASE j # c.job
    BY <1>1, <1>3, <2>1, <2>3 DEF Requeues, Writing, InCall
  <2> QED BY <2>2, <2>3
<1>12. \A t \in Bits(acks'[n], batch'[n], n, j) : \E s \in Bits(acks[n], batch[n], n, j) : h[s] = t
  BY <1>8, <1>10
<1> QED BY <1>1, <1>8, <1>11, <1>12, CallMoves


(* A commit writes the status and leaves the counter.                       *)
LEMMA CommittedAttempt ==
  ASSUME TypeOK, NEW n \in Node, NEW j \in Job, jobs' = Committed(n)
  PROVE  jobs'[j].attempt = jobs[j].attempt
<1>1. jobs[j] \in Row
  BY DEF TypeOK, StoreTypeOK
<1>2. CASE j \in DOMAIN batch[n].writes
  <2>1. jobs'[j] = [jobs[j] EXCEPT !.status = batch[n].writes[j],
                                   !.due = @ /\ batch[n].writes[j] # "PENDING"]
    BY <1>2 DEF Committed
  <2> QED BY <1>1, <2>1 DEF Row
<1>3. CASE j \notin DOMAIN batch[n].writes
  BY <1>3 DEF Committed
<1> QED BY <1>2, <1>3

LEMMA OneLess ==
  ASSUME NEW S, NEW T, NEW x \in S, IsFiniteSet(S), T \subseteq S \ {x}
  PROVE  /\ IsFiniteSet(T) /\ Cardinality(T) \in Nat /\ Cardinality(S) \in Nat
         /\ Cardinality(T) + 1 <= Cardinality(S)
<1> DEFINE U == S \ {x}
<1>1. IsFiniteSet(U) /\ Cardinality(U) = Cardinality(S) - 1
  BY FS_RemoveElement
<1>2. T \in SUBSET U
  OBVIOUS
<1> HIDE DEF U
<1>3. IsFiniteSet(T) /\ Cardinality(T) <= Cardinality(U)
  BY <1>1, <1>2, FS_Subset
<1>4. Cardinality(T) \in Nat /\ Cardinality(U) \in Nat /\ Cardinality(S) \in Nat
  BY <1>1, <1>3, FS_CardinalityType
<1> QED BY <1>1, <1>3, <1>4

(* The failures are committed: a row that returns to the queue does so for  *)
(* a result that is gone, by a call that ends.                              *)
LEMMA ReturnBudgeted ==
  ASSUME Shape, NEW j \in Job, Budgeted(j), NEW n \in Node, Return(n)
  PROVE  Budgeted(j)'
<1>1. /\ InCall(n) /\ batch' = [batch EXCEPT ![n] = NoBatch] /\ batch[n].stage = "failures"
      /\ \A i \in Job \ DOMAIN batch[n].writes : jobs'[i] = jobs[i]
      /\ \A i \in DOMAIN batch[n].writes : jobs'[i].status \in {"PENDING", "DEAD"}
  BY ReturnEffect
<1>2. /\ jobs' = Committed(n) /\ UNCHANGED <<resets, runs, acks>>
  BY DEF Return
<1>3. batch'[n] = NoBatch /\ \A m \in Node \ {n} : batch'[m] = batch[m]
  BY <1>1 DEF Shape, TypeOK
<1>4. jobs'[j].attempt = jobs[j].attempt
  BY <1>2, CommittedAttempt DEF Shape
<1>5. Bits(acks'[n], batch'[n], n, j) \subseteq Bits(acks[n], batch[n], n, j)
  BY <1>2, <1>3, BitsMember
<1>6. ~Requeues(batch'[n], j)
  BY <1>3 DEF Requeues
<1>7. CASE j \in DOMAIN batch[n].writes /\ jobs'[j].status = "PENDING"
  <2> DEFINE x == <<"write", n, 0>>
  <2>1. jobs'[j].status = batch[n].writes[j]
    BY <1>1, <1>2, <1>7, CommittedRows
  <2>2. Requeues(batch[n], j)
    BY <1>1, <1>7, <2>1 DEF Requeues, Writing, InCall
  <2>3. x \in Parts(j)
    BY <1>1, <1>7, BitsMember, PartsMember DEF InCall
  <2>4. Parts(j)' \subseteq Parts(j) \ {x}
    <3>1. ASSUME NEW t \in Parts(j)' PROVE t \in Parts(j) /\ t # x
      <4>1. CASE t \in RunsOf(j)
        BY <4>1, RunsApart, PartsMember
      <4>2. ASSUME NEW m \in Node, t \in Bits(acks'[m], batch'[m], m, j)
            PROVE  t \in Parts(j) /\ t # x
        <5>1. CASE m = n
          <6>1. \E i \in DOMAIN acks[n] : acks[n][i].job = j /\ t = <<"ack", n, i>>
            BY <1>2, <1>3, <4>2, <5>1, BitsMember
          <6> QED BY <6>1, BitsMember, PartsMember
        <5>2. CASE m # n
          <6>1. t \in Bits(acks[m], batch[m], m, j)
            BY <1>2, <1>3, <4>2, <5>2
          <6> QED BY <5>2, <6>1, BitsApart, PartsMember
        <5> QED BY <5>1, <5>2
      <4>3. t \in RunsOf(j) \/ \E m \in Node : t \in Bits(acks'[m], batch'[m], m, j)
        BY <1>2 DEF Parts, RunsOf
      <4> QED BY <4>1, <4>2, <4>3
    <3> QED BY <3>1
  <2>5. Requeuers(j)' \subseteq Requeuers(j) \ {n} /\ n \in Requeuers(j)
    <3>1. Requeuers(j)' = {m \in Node : Requeues(batch'[m], j)}
      BY DEF Requeuers, Requeues, Reading, Writing
    <3>2. ASSUME NEW m \in Node, Requeues(batch'[m], j) PROVE m # n /\ Requeues(batch[m], j)
      BY <1>3, <1>6, <3>2
    <3> QED BY <2>2, <3>1, <3>2 DEF Requeuers
  <2> DEFINE p == Cardinality(Parts(j))
             r == Cardinality(Requeuers(j))
  <2>6. /\ IsFiniteSet(Parts(j)') /\ p \in Nat /\ Cardinality(Parts(j)') \in Nat
        /\ Cardinality(Parts(j)') + 1 <= p
    <3> HIDE DEF x
    <3> QED BY <2>3, <2>4, OneLess DEF Budgeted
  <2>7. /\ r \in Nat /\ Cardinality(Requeuers(j)') \in Nat
        /\ Cardinality(Requeuers(j)') + 1 <= r
    <3>1. IsFiniteSet(Requeuers(j))
      BY RequeuersFew DEF Budgeted, Shape
    <3> QED BY <2>5, <3>1, OneLess
  <2>8. jobs[j].attempt \in Nat /\ resets[j] \in Nat /\ MaxAttempts[j] \in Nat /\ resets' = resets
    BY <1>2, StoreAssumption DEF Shape, TypeOK, StoreTypeOK, Row
  <2>9. p <= resets[j] + 1 /\ (jobs[j].attempt >= MaxAttempts[j] =>
          jobs[j].attempt + r <= MaxAttempts[j] + resets[j])
    <3>1. /\ p <= resets[j] + (IF jobs[j].status \in {"ABSENT", "PENDING"} THEN 0 ELSE 1)
          /\ jobs[j].attempt >= MaxAttempts[j] =>
               jobs[j].attempt + r + (IF jobs[j].status = "PENDING" THEN 1 ELSE 0) <= MaxAttempts[j] + resets[j]
      BY DEF Budgeted, FewResults, Spare
    <3> HIDE DEF p, r
    <3> QED BY <2>6, <2>7, <2>8, <3>1
  <2> HIDE DEF p, r
  <2>10. FewResults(j)'
    <3>1. Cardinality(Parts(j)') <= resets[j]
      BY <2>6, <2>8, <2>9
    <3> QED BY <1>7, <2>8, <3>1 DEF FewResults
  <2>11. Spare(j)'
    <3>1. jobs[j].attempt >= MaxAttempts[j] =>
            jobs[j].attempt + Cardinality(Requeuers(j)') + 1 <= MaxAttempts[j] + resets[j]
      BY <2>7, <2>8, <2>9
    <3> QED BY <1>4, <1>7, <2>8, <3>1 DEF Spare
  <2> QED BY <2>6, <2>10, <2>11 DEF Budgeted
<1>8. CASE ~(j \in DOMAIN batch[n].writes /\ jobs'[j].status = "PENDING")
  <2>1. jobs'[j].status \in {"ABSENT", "PENDING"} => jobs'[j].status = jobs[j].status
    BY <1>1, <1>8
  <2> QED BY <1>2, <1>3, <1>4, <1>5, <1>6, <2>1, CallDrops
<1> QED BY <1>7, <1>8

LEMMA CommittingBudgeted ==
  ASSUME Shape, UnreadCalls, NEW j \in Job, Budgeted(j), NEW n \in Node, Committing(n)
  PROVE  Budgeted(j)'
<1> DEFINE Old == Bits(acks[n], batch[n], n, j)
           New == Bits(acks'[n], batch'[n], n, j)
<1>1. ASSUME NEW i \in Job, LockSuccess(n, i)
      PROVE  Budgeted(j)'
  <2>1. PICK b \in Batch : /\ batch' = [batch EXCEPT ![n] = b] /\ InCall(n)
                           /\ batch[n].stage = "successes" /\ b.stage = batch[n].stage
                           /\ b.wins = batch[n].wins /\ b.todo = batch[n].todo
    BY <1>1, LockSuccessEffect
  <2>2. UNCHANGED <<jobs, resets, runs, acks>>
    BY <1>1 DEF LockSuccess, storeVars
  <2>3. batch'[n] = b /\ \A m \in Node \ {n} : batch'[m] = batch[m]
    BY <2>1 DEF Shape, TypeOK
  <2>4. New \subseteq Old
    BY <2>1, <2>2, <2>3, BitsMember DEF InCall
  <2>5. ~Requeues(batch'[n], j)
    BY <2>1, <2>3 DEF Requeues
  <2> HIDE DEF Old, New
  <2> QED BY <2>2, <2>3, <2>4, <2>5, CallDrops DEF Old, New
<1>2. ASSUME CommitSuccesses(n)
      PROVE  Budgeted(j)'
  <2>1. /\ InCall(n) /\ \A i \in Job \ batch[n].wins : jobs'[i] = jobs[i]
        /\ \A i \in batch[n].wins : jobs'[i].status = "SUCCESS"
    BY <1>2, CommitSuccessesEffect
  <2>2. PICK b \in Batch : /\ b.wins = {} /\ b.todo = batch[n].todo /\ DOMAIN b.writes = {}
                           /\ b.read = batch[n].read /\ batch' = [batch EXCEPT ![n] = b]
    <3>1. batch[n] \in Batch
      BY <2>1, PartOfCall DEF Shape
    <3>2. [batch[n] EXCEPT !.stage = "failures", !.writes = Nothing, !.wins = {}].read = batch[n].read
      BY <3>1 DEF Batch
    <3> QED BY <1>2, <3>2, CommitSuccessesEffect
  <2>3. jobs' = Committed(n) /\ UNCHANGED <<resets, runs, acks>> /\ batch[n].stage = "successes"
    BY <1>2 DEF CommitSuccesses
  <2>4. batch'[n] = b /\ \A m \in Node \ {n} : batch'[m] = batch[m]
    BY <2>2 DEF Shape, TypeOK
  <2>5. New \subseteq Old
    BY <2>1, <2>2, <2>3, <2>4, BitsMember DEF InCall
  <2>6. ~Requeues(batch'[n], j)
    BY <2>1, <2>2, <2>3, <2>4 DEF Requeues, Reading, Writing, UnreadCalls
  <2>7. jobs'[j].attempt = jobs[j].attempt
    BY <2>3, CommittedAttempt DEF Shape
  <2>8. jobs'[j].status \in {"ABSENT", "PENDING"} => jobs'[j].status = jobs[j].status
    BY <2>1
  <2> HIDE DEF Old, New
  <2> QED BY <2>3, <2>4, <2>5, <2>6, <2>7, <2>8, CallDrops DEF Old, New
<1>3. ASSUME ReadAttempt(n)
      PROVE  Budgeted(j)'
  <2> DEFINE a == jobs[Current(n).job].attempt
             b == [batch[n] EXCEPT !.read = a]
  <2>1. /\ InCall(n) /\ batch' = [batch EXCEPT ![n] = b] /\ b.wins = batch[n].wins
        /\ b.todo = batch[n].todo /\ b.writes = batch[n].writes /\ b.stage = batch[n].stage
    BY <1>3, ReadAttemptEffect
  <2>2. UNCHANGED <<jobs, resets, runs, acks>> /\ batch[n].stage = "failures"
    BY <1>3 DEF ReadAttempt, storeVars
  <2>3. b.read = a
    BY <2>1, PartOfCall DEF Shape, Batch
  <2>4. Current(n) = b.todo[First(b.todo)]
    BY <2>1 DEF Current
  <2> HIDE DEF b
  <2>5. batch'[n] = b /\ \A m \in Node \ {n} : batch'[m] = batch[m]
    BY <2>1 DEF Shape, TypeOK
  <2>6. New \subseteq Old
    BY <2>1, <2>2, <2>5, BitsMember DEF InCall
  <2>7. jobs[j].attempt >= MaxAttempts[j] /\ Requeues(batch'[n], j) => Requeues(batch[n], j)
    <3>1. jobs[j].attempt \in Nat /\ MaxAttempts[j] \in Nat
      BY StoreAssumption DEF Shape, TypeOK, StoreTypeOK, Row
    <3>2. Reading(b, j) => a = jobs[j].attempt /\ a < MaxAttempts[j]
      BY <2>3, <2>4 DEF Reading
    <3> HIDE DEF a
    <3>3. jobs[j].attempt >= MaxAttempts[j] => ~Reading(b, j)
      BY <3>1, <3>2
    <3> QED BY <2>1, <2>2, <2>5, <3>3 DEF Requeues, Writing, InCall
  <2> HIDE DEF Old, New
  <2> QED BY <2>2, <2>5, <2>6, <2>7, CallDrops DEF Old, New
<1>4. ASSUME AbortDeadlock(n) \/ DbError(n)
      PROVE  Budgeted(j)'
  <2>1. batch' = [batch EXCEPT ![n] = NoBatch] /\ UNCHANGED <<jobs, resets, runs, acks>>
    BY <1>4 DEF AbortDeadlock, DbError, Fail, storeVars
  <2>2. batch'[n] = NoBatch /\ \A m \in Node \ {n} : batch'[m] = batch[m]
    BY <2>1 DEF Shape, TypeOK
  <2>3. New \subseteq Old
    BY <2>1, <2>2, BitsMember
  <2>4. ~Requeues(batch'[n], j)
    BY <2>2 DEF Requeues
  <2> HIDE DEF Old, New
  <2> QED BY <2>1, <2>2, <2>3, <2>4, CallDrops DEF Old, New
<1> HIDE DEF Old, New
<1> QED BY <1>1, <1>2, <1>3, <1>4, TakeBatchBudgeted, WriteFailureBudgeted, ReturnBudgeted
        DEF Committing, Statement

LEMMA StartingBudgeted ==
  ASSUME Shape, NEW j \in Job, Budgeted(j), NEW n \in Node, Starting(n)
  PROVE  Budgeted(j)'
<1>1. CASE Die(n)
  <2>1. /\ batch' = [batch EXCEPT ![n] = NoBatch] /\ acks' = [acks EXCEPT ![n] = <<>>]
        /\ UNCHANGED <<jobs, resets, runs>>
    BY <1>1 DEF Die, storeVars
  <2>2. /\ batch'[n] = NoBatch /\ acks'[n] = <<>>
        /\ \A m \in Node \ {n} : batch'[m] = batch[m] /\ acks'[m] = acks[m]
    BY <2>1 DEF Shape, TypeOK
  <2>3. Bits(acks'[n], batch'[n], n, j) \subseteq Bits(acks[n], batch[n], n, j)
    BY <2>2, BitsMember
  <2>4. ~Requeues(batch'[n], j)
    BY <2>2 DEF Requeues
  <2> QED BY <2>1, <2>2, <2>3, <2>4, CallDrops
<1>2. CASE Start(n) \/ Serve(n)
  <2>1. UNCHANGED <<runs, acks, batch>> /\ UNCHANGED storeVars
    BY <1>2 DEF Start, Serve
  <2>2. Parts(j)' = Parts(j) /\ IsFiniteSet(Parts(j)) /\ Cardinality(Parts(j)) \in Nat
    BY <2>1, SameParts, FS_CardinalityType DEF Budgeted
  <2> QED BY <2>1, <2>2, SettledRow
<1>3. ASSUME NEW s \in stale[n], RecoverReset(n, s) \/ RecoverDead(n, s)
      PROVE  Budgeted(j)'
  <2>1. s.job \in Job /\ UNCHANGED <<runs, acks, batch>>
    BY <1>3 DEF RecoverReset, RecoverDead, Shape, TypeOK, Stale
  <2>2. \/ ResetStaleJob(s.job)
        \/ jobs' = [jobs EXCEPT ![s.job].status = "DEAD"] /\ UNCHANGED resets
    BY <1>3 DEF RecoverReset, RecoverDead
  <2>3. Parts(j)' = Parts(j) /\ Requeuers(j)' = Requeuers(j)
    BY <2>1, SameParts
  <2> QED BY <2>1, <2>2, <2>3, RowBudgeted DEF Shape
<1> QED BY <1>1, <1>2, <1>3 DEF Starting


(* A call reads nothing before its successes are committed.                 *)
LEMMA UnreadStays ==
  ASSUME Shape, UnreadCalls, NEW n \in Node, NEW b, batch' = [batch EXCEPT ![n] = b],
         b # NoBatch /\ b.stage = "successes" => b.read = NoRead
  PROVE  UnreadCalls'
<1>1. batch'[n] = b /\ \A m \in Node \ {n} : batch'[m] = batch[m]
  BY DEF Shape, TypeOK
<1>2. ASSUME NEW m \in Node, batch'[m] # NoBatch, batch'[m].stage = "successes"
      PROVE  batch'[m].read = NoRead
  <2>1. CASE m = n
    BY <1>1, <1>2, <2>1
  <2>2. CASE m # n
    BY <1>1, <1>2, <2>2 DEF UnreadCalls, InCall
  <2> QED BY <2>1, <2>2
<1> QED BY <1>2 DEF UnreadCalls, InCall

LEMMA UnreadKept ==
  ASSUME Shape, UnreadCalls, [Next]_vars
  PROVE  UnreadCalls'
<1>1. ASSUME UNCHANGED batch PROVE UnreadCalls'
  BY <1>1 DEF UnreadCalls, InCall
<1>2. ASSUME NEW n \in Node, batch' = [batch EXCEPT ![n] = NoBatch] PROVE UnreadCalls'
  BY <1>2, UnreadStays
<1>3. ASSUME NEW n \in Node, NEW k \in 1..BatchMax, TakeBatch(n, k)
      PROVE  UnreadCalls'
  <2>1. PICK b \in Batch : b.read = NoRead /\ batch' = [batch EXCEPT ![n] = b]
    BY <1>3, TakeBatchEffect
  <2> QED BY <2>1, UnreadStays
<1>4. ASSUME NEW n \in Node, NEW j \in Job, LockSuccess(n, j)
      PROVE  UnreadCalls'
  <2> DEFINE w == Written(n, j, "SUCCESS")
             b == [batch[n] EXCEPT !.writes = w]
  <2>1. InCall(n) /\ batch[n].stage = "successes" /\ batch' = [batch EXCEPT ![n] = b]
    BY <1>4 DEF LockSuccess
  <2> HIDE DEF w
  <2>2. b.read = batch[n].read
    BY <2>1, PartOfCall DEF Shape, Batch
  <2>3. batch[n].read = NoRead
    BY <2>1 DEF UnreadCalls
  <2> HIDE DEF b
  <2> QED BY <2>1, <2>2, <2>3, UnreadStays
<1>5. ASSUME NEW n \in Node, CommitSuccesses(n)
      PROVE  UnreadCalls'
  <2> DEFINE b == [batch[n] EXCEPT !.stage = "failures", !.writes = Nothing, !.wins = {}]
  <2>1. InCall(n) /\ batch' = [batch EXCEPT ![n] = b]
    BY <1>5 DEF CommitSuccesses
  <2>2. b.stage = "failures"
    BY <2>1, PartOfCall DEF Shape, Batch
  <2> HIDE DEF b
  <2> QED BY <2>1, <2>2, UnreadStays
<1>6. ASSUME NEW n \in Node, ReadAttempt(n)
      PROVE  UnreadCalls'
  <2>1. PICK b \in Batch : b.stage = batch[n].stage /\ batch' = [batch EXCEPT ![n] = b]
    BY <1>6, ReadAttemptEffect
  <2>2. batch[n].stage = "failures"
    BY <1>6 DEF ReadAttempt
  <2> QED BY <2>1, <2>2, UnreadStays
<1>7. ASSUME NEW n \in Node, WriteFailure(n)
      PROVE  UnreadCalls'
  <2>1. PICK b \in Batch : b.stage = "failures" /\ batch' = [batch EXCEPT ![n] = b]
    BY <1>7, WriteFailureEffect
  <2> QED BY <2>1, UnreadStays
<1>8. ASSUME NEW n \in Node, Committing(n) PROVE UnreadCalls'
  BY <1>2, <1>3, <1>4, <1>5, <1>6, <1>7, <1>8
  DEF Committing, Statement, Return, AbortDeadlock, DbError, Fail
<1>9. ASSUME NEW n \in Node, Working(n) \/ Starting(n) PROVE UnreadCalls'
  BY <1>1, <1>2, <1>9 DEF Working, Starting, Claim, TakeBack, Report, Die, Start, Serve, RecoverReset, RecoverDead
<1>10. CASE Requests
  BY <1>1, <1>10 DEF Requests, Submit, Elapse, Cancel, Retry, serverVars
<1> QED BY <1>1, <1>8, <1>9, <1>10 DEF Next, vars, serverVars

(* A job retried with a result under way stays one.                         *)
LEMMA StraysStay ==
  ASSUME [Next]_vars
  PROVE  strays \subseteq strays'
<1>1. CASE Requests
  BY <1>1 DEF Requests, Submit, Elapse, Cancel, Retry, histVars
<1>2. ASSUME NEW n \in Node, Working(n) \/ Committing(n) \/ Starting(n)
      PROVE  strays \subseteq strays'
  BY <1>2 DEF Working, Claim, TakeBack, Report, Committing, Statement, TakeBatch, LockSuccess, CommitSuccesses,
          ReadAttempt, WriteFailure, Return, AbortDeadlock, DbError, Fail,
          Starting, Die, Start, Serve, RecoverReset, RecoverDead, histVars
<1>3. CASE UNCHANGED vars
  BY <1>3 DEF vars, histVars
<1> QED BY <1>1, <1>2, <1>3 DEF Next

LEMMA BudgetInit == Init => BudgetInv
<1> SUFFICES ASSUME Init PROVE BudgetInv
  OBVIOUS
<1>1. UnreadCalls
  BY DEF UnreadCalls, InCall, Init
<1>2. ASSUME NEW j \in Job PROVE Budgeted(j)
  <2>1. Parts(j) = {}
    BY NothingUnderWay DEF Init, UnderWay, InHand, InCall, JobsIn
  <2>2. IsFiniteSet(Parts(j)) /\ Cardinality(Parts(j)) = 0
    BY <2>1, FS_EmptySet
  <2>3. /\ jobs[j].status = "ABSENT" /\ jobs[j].attempt = 0 /\ resets[j] = 0
        /\ MaxAttempts[j] \in Nat /\ ~(0 >= MaxAttempts[j])
    BY StoreAssumption DEF Init, StoreInit
  <2> QED BY <2>2, <2>3 DEF Budgeted, FewResults, Spare
<1> QED BY <1>1, <1>2 DEF BudgetInv

LEMMA BudgetKept ==
  ASSUME Shape, BudgetInv, [Next]_vars
  PROVE  BudgetInv'
<1>1. UnreadCalls'
  BY UnreadKept DEF BudgetInv
<1>2. ASSUME NEW j \in Job, j \notin strays' PROVE Budgeted(j)'
  <2>1. Budgeted(j) /\ UnreadCalls
    BY <1>2, StraysStay DEF BudgetInv
  <2>2. CASE Requests
    BY <1>2, <2>1, <2>2, RequestsBudgeted DEF Shape
  <2>3. ASSUME NEW n \in Node, Working(n) \/ Committing(n) \/ Starting(n)
        PROVE  Budgeted(j)'
    BY <2>1, <2>3, WorkingBudgeted, CommittingBudgeted, StartingBudgeted
  <2>4. CASE UNCHANGED vars
    <3>1. UNCHANGED <<runs, acks, batch>> /\ UNCHANGED storeVars
      BY <2>4 DEF vars, serverVars
    <3>2. Parts(j)' = Parts(j) /\ IsFiniteSet(Parts(j)) /\ Cardinality(Parts(j)) \in Nat
      BY <2>1, <3>1, SameParts, FS_CardinalityType DEF Budgeted
    <3> QED BY <2>1, <3>1, <3>2, SettledRow
  <2> QED BY <2>2, <2>3, <2>4 DEF Next
<1> QED BY <1>1, <1>2 DEF BudgetInv

(* A job within the count of its results is within its budget.              *)
LEMMA BudgetHolds ==
  ASSUME TypeOK, NEW j \in Job, Budgeted(j)
  PROVE  WithinBudget(j)
<1>1. /\ jobs[j].attempt \in Nat /\ resets[j] \in Nat /\ MaxAttempts[j] \in Nat
      /\ Cardinality(Requeuers(j)) \in Nat
  BY RequeuersFew, StoreAssumption DEF Budgeted, TypeOK, StoreTypeOK, Row
<1>2. CASE jobs[j].attempt < MaxAttempts[j]
  BY <1>1, <1>2 DEF WithinBudget
<1>3. CASE jobs[j].attempt >= MaxAttempts[j]
  <2> DEFINE r == Cardinality(Requeuers(j))
  <2>1. jobs[j].attempt + r + (IF jobs[j].status = "PENDING" THEN 1 ELSE 0) <= MaxAttempts[j] + resets[j]
    BY <1>3 DEF Budgeted, Spare
  <2> HIDE DEF r
  <2> QED BY <1>1, <2>1 DEF r, WithinBudget
<1> QED BY <1>1, <1>2, <1>3

(* Whatever the servers read, decide and write between each other, the      *)
(* counter of a row exceeds max_attempts by at most its unguarded resets.   *)
THEOREM ClusterBudget == Spec => []SharedBudget
<1>1. Shape /\ BudgetInv => SharedBudget
  BY BudgetHolds DEF Shape, BudgetInv, SharedBudget
<1> QED BY <1>1, BudgetInit, BudgetKept, ClusterShape, PTL DEF Spec
=============================================================================
