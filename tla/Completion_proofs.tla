----------------------- MODULE Completion_proofs -----------------------
(***************************************************************************)
(* Proofs about completion notices, for any number of jobs, clients,       *)
(* handles and faults: a batch and a subscription that cross never miss    *)
(* each other, and no settled job is without its notice by oversight.      *)
(***************************************************************************)
EXTENDS Completion, JobStore_proofs, SequenceTheorems

(* The part of the type invariant the proofs need: the rows, the queue of   *)
(* results and the cache.                                                   *)
ServerTypes ==
  /\ StoreTypeOK
  /\ acks \in Seq(Ack)
  /\ cache \in [Job -> Cached \cup {NoNotice}]
  /\ runs \in SUBSET Run

(* What NoForgottenSubscriber says of one job. *)
NotForgotten(j) ==
  /\ CacheHas(j) => ~Subscribed(j)
  /\ jobs[j].status \in {"SUCCESS", "DEAD"} =>
       IF CacheHas(j) THEN cache[j].notice.status = jobs[j].status ELSE j \in spent

CompletionInv == ServerTypes /\ NoForgottenSubscriber

-----------------------------------------------------------------------------
(* An entry of the cache is not the mark of its absence. *)
LEMMA NoNoticeApart == NoNotice \notin Cached
<1> SUFFICES ASSUME NoNotice \in Cached PROVE FALSE
  OBVIOUS
<1>1. DOMAIN NoNotice = {"notice", "old"}
  BY DEF Cached
<1>2. DOMAIN NoNotice = {"old"}
  BY DEF NoNotice
<1>3. "notice" # "old"
  OBVIOUS
<1> QED BY <1>1, <1>2, <1>3

(* The rows of the steps that change one job. *)
OneRow(j) ==
  \/ InsertJob(j) \/ BecomeDue(j) \/ ClaimAndFetchJobs({j})
  \/ ResetStaleJob(j) \/ CancelJob(j) \/ RetryJob(j)

LEMMA OneRowKeeps ==
  ASSUME StoreTypeOK, NEW j \in Job, OneRow(j)
  PROVE  /\ StoreTypeOK'
         /\ \A i \in Job : jobs'[i].status \in {"SUCCESS", "DEAD"} => jobs'[i].status = jobs[i].status
<1>1. jobs[j] \in Row /\ jobs[j].attempt \in Nat /\ jobs[j].due \in BOOLEAN /\ resets[j] \in Nat
  BY DEF StoreTypeOK, Row
<1>2. CASE InsertJob(j)
  BY <1>1, <1>2 DEF InsertJob, StoreTypeOK, Row, Status
<1>3. CASE BecomeDue(j)
  BY <1>1, <1>3 DEF BecomeDue, StoreTypeOK, Row, Status
<1>4. CASE ClaimAndFetchJobs({j})
  <2>1. Claimed(jobs[j]) \in Row /\ Claimed(jobs[j]).status = "RUNNING"
    BY <1>1, DerivedRows
  <2> QED BY <2>1, <1>4 DEF ClaimAndFetchJobs, StoreTypeOK
<1>5. CASE ResetStaleJob(j)
  <2>1. Requeued(jobs[j]) \in Row /\ Requeued(jobs[j]).status = "PENDING"
    BY <1>1, DerivedRows
  <2> QED BY <2>1, <1>1, <1>5 DEF ResetStaleJob, StoreTypeOK
<1>6. CASE CancelJob(j)
  BY <1>1, <1>6 DEF CancelJob, StoreTypeOK, Row, Status
<1>7. CASE RetryJob(j)
  BY <1>1, <1>7 DEF RetryJob, StoreTypeOK, Row, Status
<1> QED BY <1>2, <1>3, <1>4, <1>5, <1>6, <1>7 DEF OneRow

(* A step of one row, or of none, that leaves the notices alone. *)
LEMMA RowStep ==
  ASSUME CompletionInv, UNCHANGED <<subs, cache, spent>>, acks' \in Seq(Ack), runs' \in SUBSET Run,
         UNCHANGED storeVars \/ \E j \in Job : OneRow(j)
  PROVE  CompletionInv'
<1>1. /\ StoreTypeOK'
      /\ \A i \in Job : jobs'[i].status \in {"SUCCESS", "DEAD"} => jobs'[i].status = jobs[i].status
  <2>1. CASE UNCHANGED storeVars
    BY <2>1 DEF CompletionInv, ServerTypes, StoreTypeOK, storeVars
  <2>2. CASE \E j \in Job : OneRow(j)
    BY <2>2, OneRowKeeps DEF CompletionInv, ServerTypes
  <2> QED BY <2>1, <2>2
<1>2. ServerTypes'
  BY <1>1 DEF CompletionInv, ServerTypes
<1>3. NoForgottenSubscriber'
  BY <1>1 DEF CompletionInv, NoForgottenSubscriber, CacheHas, Subscribed
<1> QED BY <1>2, <1>3 DEF CompletionInv

-----------------------------------------------------------------------------
(* The batch processor. *)

LEMMA BatchParts ==
  ASSUME ServerTypes, NEW n \in 1..BatchMax, n <= Len(acks)
  PROVE  /\ SubSeq(acks, 1, n) \in Seq(Ack) /\ DOMAIN SubSeq(acks, 1, n) = 1..n
         /\ SubSeq(acks, n + 1, Len(acks)) \in Seq(Ack)
<1> DEFINE L == Len(acks)
<1>1. n \in Nat /\ n >= 1 /\ L \in Nat /\ n <= L
  BY StoreAssumption DEF ServerTypes
<1>2. \A i \in 1..L : acks[i] \in Ack
  BY DEF ServerTypes
<1>3. acks \in Seq(Ack)
  BY DEF ServerTypes
<1> HIDE DEF L
<1>4. SubSeq(acks, 1, n) \in Seq(Ack) /\ Len(SubSeq(acks, 1, n)) = n
  <2>1. \A i \in 1..n : acks[i] \in Ack
    BY <1>1, <1>2
  <2>2. /\ SubSeq(acks, 1, n) \in Seq(Ack)
        /\ Len(SubSeq(acks, 1, n)) = IF 1 <= n THEN n - 1 + 1 ELSE 0
    BY <1>1, <1>3, <2>1, SubSeqProperties
  <2> QED BY <1>1, <2>2
<1>5. SubSeq(acks, n + 1, L) \in Seq(Ack)
  <2>1. \A i \in (n + 1)..L : acks[i] \in Ack
    BY <1>1, <1>2
  <2> QED BY <1>1, <1>3, <2>1, SubSeqProperties
<1>6. DOMAIN SubSeq(acks, 1, n) = 1..n
  BY <1>4
<1> QED BY <1>4, <1>5, <1>6 DEF L

(* What a batch leaves is a table again. *)
LEMMA UpdateKeeps ==
  ASSUME StoreTypeOK, NEW batch \in Seq(Ack), UpdateJobResults(batch)
  PROVE  StoreTypeOK'
<1>1. ASSUME NEW j \in Job
      PROVE  (IF InBatch(batch, j) /\ jobs[j].status # "ABSENT"
              THEN Acknowledged(jobs[j], MaxAttempts[j], LastOutcome(batch, j)) ELSE jobs[j]) \in Row
  <2>1. jobs[j] \in Row /\ MaxAttempts[j] \in Nat
    BY StoreAssumption DEF StoreTypeOK
  <2> QED BY <2>1, AcknowledgedRow
<1>2. jobs' \in [Job -> Row]
  BY <1>1 DEF UpdateJobResults
<1> QED BY <1>2 DEF UpdateJobResults, StoreTypeOK

(* The announced results of a job are places in the batch: there is a first *)
(* and a last of them.                                                      *)
LEMMA Ends ==
  ASSUME NEW n \in Nat, NEW S, S \subseteq 1..n, S # {}
  PROVE  /\ FirstOf(S) \in S /\ \A k \in S : FirstOf(S) <= k
         /\ LastOf(S) \in S /\ \A k \in S : k <= LastOf(S)
<1>1. S \subseteq Nat /\ S \subseteq 0..n
  OBVIOUS
<1>2. \E i \in S : \A k \in S : i <= k
  BY <1>1, SmallestOf
<1>3. \E i \in S : \A k \in S : k <= i
  BY <1>1, GreatestOf
<1> QED BY <1>2, <1>3 DEF FirstOf, LastOf

(* What a commit does to the notices of one job. *)
LEMMA Announcing ==
  ASSUME CompletionInv, NEW n \in Nat, NEW batch \in Seq(Ack), DOMAIN batch = 1..n,
         UpdateJobResults(batch), NEW j \in Job,
         cache'[j] = CacheAfter(batch, j), spent' = SpentAfter(batch),
         subs'[j] = IF SentFor(batch, j) # {} THEN <<>> ELSE subs[j]
  PROVE  NotForgotten(j)' /\ cache'[j] \in Cached \cup {NoNotice}
<1> DEFINE A == Announced(batch, j)
           S == SentFor(batch, j)
           C == CachedFor(batch, j)
<1>1. /\ A = {i \in 1..n : batch[i].job = j /\ StatusAfter(batch[i]) \in {"SUCCESS", "DEAD"}}
      /\ S = IF Subscribed(j) /\ A # {} THEN {FirstOf(A)} ELSE {}
      /\ C = A \ S
  BY DEF Announced, SentFor, CachedFor
<1>2. NotForgotten(j) /\ cache[j] \in Cached \cup {NoNotice}
  BY DEF CompletionInv, ServerTypes, NoForgottenSubscriber, NotForgotten
<1>3. /\ CacheHas(j) => ~Subscribed(j)
      /\ Subscribed(j) => Retained(j) = NoNotice
      /\ Retained(j) # NoNotice => Retained(j) = cache[j] /\ CacheHas(j)
      /\ Retained(j) = NoNotice => cache[j] = NoNotice \/ cache[j].old
      /\ Retained(j) \in Cached \cup {NoNotice}
  BY <1>2 DEF NotForgotten, CacheHas, Retained
<1>4. ASSUME C # {}
      PROVE  /\ LastOf(C) \in C /\ LastOf(C) \in 1..n /\ \A k \in C : k <= LastOf(C)
             /\ cache'[j] \in Cached /\ cache'[j] # NoNotice
             /\ cache'[j].notice.status = StatusAfter(batch[LastOf(C)])
  <2>1. C \subseteq 1..n
    BY <1>1
  <2>2. LastOf(C) \in C /\ \A k \in C : k <= LastOf(C)
    <3> HIDE DEF C
    <3> QED BY <1>4, <2>1, Ends
  <2> DEFINE i == LastOf(C)
             notice == NoticeOf(batch, i)
  <2>3. i \in 1..n /\ batch[i].job = j /\ StatusAfter(batch[i]) \in {"SUCCESS", "DEAD"}
    BY <1>1, <2>2
  <2>4. notice \in Notice /\ notice.status = StatusAfter(batch[i])
    BY <2>3 DEF NoticeOf, Notice
  <2>5. cache'[j] = [notice |-> notice, old |-> FALSE]
    BY <1>4 DEF CacheAfter
  <2>6. cache'[j] \in Cached /\ cache'[j].notice = notice
    <3> HIDE DEF notice
    <3> QED BY <2>4, <2>5 DEF Cached
  <2> QED BY <2>1, <2>2, <2>4, <2>6, NoNoticeApart
<1>5. C = {} => cache'[j] = Retained(j)
  BY DEF CacheAfter
<1>6. cache'[j] \in Cached \cup {NoNotice}
  BY <1>3, <1>4, <1>5
<1>7. subs'[j] = IF S # {} THEN <<>> ELSE subs[j]
  OBVIOUS
<1>8. C = {} /\ (S # {} \/ j \in spent \/ cache[j].old) => j \in spent'
  BY DEF SpentAfter
<1> HIDE DEF A, S, C
<1>9. CacheHas(j)' => ~Subscribed(j)'
  <2>1. CASE C # {}
    BY <1>1, <1>7, <2>1 DEF Subscribed
  <2>2. CASE C = {}
    BY <1>3, <1>5, <1>7, <2>2 DEF Subscribed, CacheHas
  <2> QED BY <2>1, <2>2
<1>10. ASSUME jobs'[j].status \in {"SUCCESS", "DEAD"}
       PROVE  IF CacheHas(j)' THEN cache'[j].notice.status = jobs'[j].status ELSE j \in spent'
  <2>1. CASE InBatch(batch, j) /\ jobs[j].status # "ABSENT"
    <3>1. PICK i \in DOMAIN batch :
             /\ batch[i].job = j /\ LastOutcome(batch, j) = batch[i].outcome
             /\ \A k \in DOMAIN batch : batch[k].job = j => k <= i
      BY <2>1, LastResult
    <3>2. jobs'[j].status = StatusAfter(batch[i])
      BY <2>1, <3>1 DEF UpdateJobResults, StatusAfter
    <3>3. i \in A /\ \A k \in A : k \in 1..n /\ k <= i
      BY <1>1, <1>10, <3>1, <3>2
    <3>4. CASE C # {}
      <4>1. i \in C
        <5> SUFFICES ASSUME i \notin C PROVE FALSE
          OBVIOUS
        <5>1. S = {FirstOf(A)} /\ i = FirstOf(A)
          BY <1>1, <3>3
        <5>2. \A k \in A : i <= k
          <6>1. A \subseteq 1..n /\ A # {}
            BY <3>3
          <6> QED BY <5>1, <6>1, Ends
        <5>3. A = {i}
          BY <3>3, <5>2
        <5> QED BY <1>1, <3>4, <5>1, <5>3
      <4>2. LastOf(C) = i
        <5>1. LastOf(C) \in A /\ i <= LastOf(C) /\ LastOf(C) \in 1..n
          BY <1>1, <1>4, <3>4, <4>1
        <5> QED BY <3>3, <5>1
      <4> QED BY <1>4, <3>2, <3>4, <4>2 DEF CacheHas
    <3>5. CASE C = {}
      <4>1. S # {} /\ Subscribed(j)
        BY <1>1, <3>3, <3>5
      <4>2. cache'[j] = NoNotice
        BY <1>3, <1>5, <3>5, <4>1
      <4> QED BY <1>8, <3>5, <4>1, <4>2 DEF CacheHas
    <3> QED BY <3>4, <3>5
  <2>2. CASE ~(InBatch(batch, j) /\ jobs[j].status # "ABSENT")
    <3>1. jobs'[j] = jobs[j]
      BY <2>2 DEF UpdateJobResults
    <3>2. ~InBatch(batch, j)
      BY <1>10, <2>2, <3>1
    <3>3. A = {} /\ S = {} /\ C = {}
      BY <1>1, <3>2 DEF InBatch
    <3> QED BY <1>2, <1>3, <1>5, <1>8, <1>10, <3>1, <3>3 DEF NotForgotten, CacheHas
  <2> QED BY <2>1, <2>2
<1> QED BY <1>6, <1>9, <1>10 DEF NotForgotten, CacheHas, Subscribed

LEMMA CommitBatchKeeps ==
  ASSUME CompletionInv, NEW n \in 1..BatchMax, CommitBatch(n)
  PROVE  CompletionInv'
<1> DEFINE batch == SubSeq(acks, 1, n)
<1>1. /\ n <= Len(acks) /\ UpdateJobResults(batch)
      /\ acks' = SubSeq(acks, n + 1, Len(acks))
      /\ subs' = [j \in Job |-> IF SentFor(batch, j) # {} THEN <<>> ELSE subs[j]]
      /\ cache' = [j \in Job |-> CacheAfter(batch, j)]
      /\ spent' = SpentAfter(batch) /\ runs' = runs
  BY DEF CommitBatch
<1>2. /\ n \in Nat /\ batch \in Seq(Ack) /\ DOMAIN batch = 1..n
      /\ SubSeq(acks, n + 1, Len(acks)) \in Seq(Ack)
  BY <1>1, BatchParts, StoreAssumption DEF CompletionInv
<1> HIDE DEF batch
<1>3. StoreTypeOK'
  BY <1>1, <1>2, UpdateKeeps DEF CompletionInv, ServerTypes
<1>4. ASSUME NEW j \in Job
      PROVE  NotForgotten(j)' /\ cache'[j] \in Cached \cup {NoNotice}
  <2>1. /\ cache'[j] = CacheAfter(batch, j)
        /\ subs'[j] = IF SentFor(batch, j) # {} THEN <<>> ELSE subs[j]
    BY <1>1
  <2> QED BY <1>1, <1>2, <2>1, Announcing
<1>5. cache' \in [Job -> Cached \cup {NoNotice}]
  BY <1>1, <1>4
<1>6. ServerTypes'
  BY <1>1, <1>2, <1>3, <1>5 DEF CompletionInv, ServerTypes
<1>7. NoForgottenSubscriber'
  BY <1>4 DEF NoForgottenSubscriber, NotForgotten, CacheHas, Subscribed
<1> QED BY <1>6, <1>7 DEF CompletionInv

-----------------------------------------------------------------------------
(* The steps that leave rows and results alone. *)

(* One that keeps the notices of each job in order, whatever it does to     *)
(* streams and clients.                                                     *)
LEMMA NoticeStep ==
  ASSUME CompletionInv, UNCHANGED <<storeVars, runs>>, acks' \in Seq(Ack),
         cache' \in [Job -> Cached \cup {NoNotice}],
         \A j \in Job :
           /\ CacheHas(j)' => CacheHas(j) /\ ~Subscribed(j)' /\ cache'[j].notice = cache[j].notice
           /\ j \in spent \/ (CacheHas(j) /\ ~CacheHas(j)') => j \in spent'
  PROVE  CompletionInv'
<1>1. ServerTypes'
  BY DEF CompletionInv, ServerTypes, StoreTypeOK, storeVars
<1>2. jobs' = jobs
  BY DEF storeVars
<1>3. ASSUME NEW j \in Job PROVE NotForgotten(j)'
  <2>1. NotForgotten(j)
    BY DEF CompletionInv, NoForgottenSubscriber, NotForgotten
  <2> QED BY <1>2, <2>1 DEF NotForgotten
<1>4. NoForgottenSubscriber'
  BY <1>3 DEF NoForgottenSubscriber, NotForgotten, CacheHas, Subscribed
<1> QED BY <1>1, <1>4 DEF CompletionInv

(* Sixty seconds change no notice. *)
LEMMA ExpireKeeps ==
  ASSUME CompletionInv, NEW j \in Job, Expire(j)
  PROVE  CompletionInv'
<1>1. cache[j] \in Cached /\ cache' = [cache EXCEPT ![j].old = TRUE]
  BY DEF Expire, CompletionInv, ServerTypes
<1>2. cache \in [Job -> Cached \cup {NoNotice}]
  BY DEF CompletionInv, ServerTypes
<1>3. cache'[j] \in Cached /\ cache'[j].notice = cache[j].notice
  BY <1>1, <1>2 DEF Cached
<1>4. \A i \in Job \ {j} : cache'[i] = cache[i]
  BY <1>1, <1>2
<1>5. cache' \in [Job -> Cached \cup {NoNotice}]
  BY <1>1, <1>2, <1>3
<1>6. ASSUME NEW i \in Job
      PROVE  /\ CacheHas(i)' => CacheHas(i) /\ ~Subscribed(i)' /\ cache'[i].notice = cache[i].notice
             /\ CacheHas(i) => CacheHas(i)'
  <2>1. CacheHas(i) => ~Subscribed(i)
    BY DEF CompletionInv, NoForgottenSubscriber
  <2>2. subs' = subs
    BY DEF Expire
  <2> QED BY <1>1, <1>3, <1>4, <2>1, <2>2, NoNoticeApart DEF CacheHas, Subscribed
<1>7. UNCHANGED <<storeVars, runs>> /\ acks' \in Seq(Ack) /\ spent' = spent
  BY DEF Expire, CompletionInv, ServerTypes, storeVars
<1> QED BY <1>5, <1>6, <1>7, NoticeStep

(* A request takes the notices that are there, and is noted for the others. *)
LEMMA SubscribeKeeps ==
  ASSUME CompletionInv, NEW c \in Client, Subscribe(c)
  PROVE  CompletionInv'
<1> DEFINE S == Head(conn[c].inbox)
           hit == {j \in S : cache[j] # NoNotice}
<1>1. /\ cache' = [j \in Job |-> IF j \in hit THEN NoNotice ELSE cache[j]]
      /\ spent' = spent \cup hit
      /\ subs' = [j \in Job |-> IF j \in S \ hit THEN Append(subs[j], Sender(c)) ELSE subs[j]]
      /\ UNCHANGED <<storeVars, runs, acks>>
  BY DEF Subscribe, storeVars
<1>2. cache \in [Job -> Cached \cup {NoNotice}] /\ acks \in Seq(Ack)
  BY DEF CompletionInv, ServerTypes
<1>3. cache' \in [Job -> Cached \cup {NoNotice}]
  BY <1>1, <1>2
<1>4. ASSUME NEW j \in Job
      PROVE  /\ CacheHas(j)' => CacheHas(j) /\ ~Subscribed(j)' /\ cache'[j].notice = cache[j].notice
             /\ j \in spent \/ (CacheHas(j) /\ ~CacheHas(j)') => j \in spent'
  <2>1. CacheHas(j) => ~Subscribed(j)
    BY DEF CompletionInv, NoForgottenSubscriber
  <2>2. CASE j \in hit
    BY <1>1, <2>2 DEF CacheHas
  <2>3. CASE j \notin hit
    <3>1. cache'[j] = cache[j]
      BY <1>1, <2>3
    <3>2. CacheHas(j) => j \notin S /\ subs'[j] = subs[j]
      BY <1>1, <2>3 DEF CacheHas
    <3> QED BY <1>1, <2>1, <3>1, <3>2 DEF CacheHas, Subscribed
  <2> QED BY <2>2, <2>3
<1> QED BY <1>1, <1>2, <1>3, <1>4, NoticeStep

(* Of a job nobody subscribed for a broken stream leaves no sender.         *)
LEMMA BreakKeeps ==
  ASSUME CompletionInv, NEW c \in Client, Break(c)
  PROVE  CompletionInv'
<1>1. /\ subs' = [j \in Job |-> [i \in DOMAIN subs[j] |-> IF subs[j][i] = c THEN Gone ELSE subs[j][i]]]
      /\ UNCHANGED <<storeVars, runs, acks, cache, spent>>
  BY DEF Break, storeVars
<1>2. \A j \in Job : subs[j] = <<>> => subs'[j] = <<>>
  BY <1>1
<1>3. cache \in [Job -> Cached \cup {NoNotice}] /\ acks \in Seq(Ack)
  BY DEF CompletionInv, ServerTypes
<1>4. \A j \in Job : CacheHas(j)' => CacheHas(j) /\ ~Subscribed(j)' /\ cache'[j].notice = cache[j].notice
  BY <1>1, <1>2 DEF CompletionInv, NoForgottenSubscriber, CacheHas, Subscribed
<1>5. \A j \in Job : j \in spent \/ (CacheHas(j) /\ ~CacheHas(j)') => j \in spent'
  BY <1>1 DEF CacheHas
<1> QED BY <1>1, <1>3, <1>4, <1>5, NoticeStep

-----------------------------------------------------------------------------
LEMMA InitHolds == Init => CompletionInv
<1> SUFFICES ASSUME Init PROVE CompletionInv
  OBVIOUS
<1>1. StoreTypeOK
  BY StoreInitKeeps DEF Init, StoreInv
<1>2. /\ acks = <<>> /\ runs = {} /\ cache = [j \in Job |-> NoNotice]
      /\ \A j \in Job : jobs[j].status = "ABSENT"
  BY DEF Init, StoreInit
<1>3. acks \in Seq(Ack)
  BY <1>2
<1>4. ServerTypes
  BY <1>1, <1>2, <1>3 DEF ServerTypes
<1>5. NoForgottenSubscriber
  BY <1>2 DEF NoForgottenSubscriber, CacheHas
<1> QED BY <1>4, <1>5 DEF CompletionInv

LEMMA LifeKeeps ==
  ASSUME CompletionInv, Life
  PROVE  CompletionInv'
<1>0. acks \in Seq(Ack) /\ runs \in SUBSET Run /\ StoreTypeOK
  BY DEF CompletionInv, ServerTypes
<1>1. ASSUME NEW j \in Job, NEW c \in Client, Claim(j, c) PROVE CompletionInv'
  <2>1. /\ UNCHANGED <<subs, cache, spent>> /\ acks' = acks /\ OneRow(j)
        /\ runs' = runs \cup {[job |-> j, attempt |-> jobs[j].attempt + 1, client |-> c]}
    BY <1>1 DEF Claim, serverVars, OneRow
  <2>2. jobs[j].attempt + 1 \in Nat
    BY <1>0 DEF StoreTypeOK, Row
  <2>3. [job |-> j, attempt |-> jobs[j].attempt + 1, client |-> c] \in Run
    BY <2>2 DEF Run
  <2>4. runs' \in SUBSET Run
    BY <1>0, <2>1, <2>3
  <2> QED BY <1>0, <2>1, <2>4, RowStep
<1>2. ASSUME NEW j \in Job, Elapse(j) \/ TakeBack(j) \/ Cancel(j) \/ Retry(j) PROVE CompletionInv'
  <2>1. UNCHANGED <<subs, cache, spent>> /\ acks' = acks /\ runs' = runs /\ OneRow(j)
    BY <1>2 DEF Elapse, TakeBack, Cancel, Retry, serverVars, OneRow
  <2> QED BY <1>0, <2>1, RowStep
<1>3. ASSUME NEW r \in runs, NEW o \in Outcome, Report(r, o) PROVE CompletionInv'
  <2>1. /\ UNCHANGED <<subs, cache, spent>> /\ UNCHANGED storeVars
        /\ runs' = runs \ {r} /\ acks' = Append(acks, [job |-> r.job, outcome |-> o])
    BY <1>3 DEF Report
  <2>2. [job |-> r.job, outcome |-> o] \in Ack
    BY <1>0 DEF Run, Ack
  <2>3. acks' \in Seq(Ack) /\ runs' \in SUBSET Run
    BY <1>0, <2>1, <2>2
  <2> QED BY <2>1, <2>3, RowStep
<1> QED BY <1>1, <1>2, <1>3 DEF Life

LEMMA ServerKeeps ==
  ASSUME CompletionInv, Server
  PROVE  CompletionInv'
<1>1. ASSUME NEW n \in 1..BatchMax, CommitFails(n) PROVE CompletionInv'
  <2>1. /\ n <= Len(acks) /\ acks' = SubSeq(acks, n + 1, Len(acks))
        /\ UNCHANGED <<subs, cache, spent, runs>> /\ UNCHANGED storeVars
    BY <1>1 DEF CommitFails
  <2>2. acks' \in Seq(Ack) /\ runs' \in SUBSET Run
    BY <2>1, BatchParts DEF CompletionInv, ServerTypes
  <2> QED BY <2>1, <2>2, RowStep
<1> QED BY <1>1, CommitBatchKeeps, ExpireKeeps, SubscribeKeeps DEF Server

LEMMA ClientsKeep ==
  ASSUME CompletionInv, Clients
  PROVE  CompletionInv'
<1>0. acks \in Seq(Ack) /\ runs \in SUBSET Run
  BY DEF CompletionInv, ServerTypes
<1>1. ASSUME NEW h \in Handle, Enqueue(h) PROVE CompletionInv'
  <2>1. JobOf[h] \in Job
    BY CompletionAssumption
  <2>2. UNCHANGED <<subs, cache, spent>> /\ acks' = acks /\ runs' = runs
    BY <1>1 DEF Enqueue, serverVars
  <2>3. UNCHANGED storeVars \/ OneRow(JobOf[h])
    BY <1>1 DEF Enqueue, OneRow
  <2> QED BY <1>0, <2>1, <2>2, <2>3, RowStep
<1>2. ASSUME NEW h \in Handle, Enqueued(h) \/ ResultNode(h) \/ ResultRust(h) \/ Timeout(h) \/ Poll(h)
      PROVE CompletionInv'
  <2>1. UNCHANGED <<subs, cache, spent>> /\ acks' = acks /\ runs' = runs /\ UNCHANGED storeVars
    BY <1>2 DEF Enqueued, ResultNode, ResultRust, Timeout, Poll, serverVars
  <2> QED BY <1>0, <2>1, RowStep
<1>3. ASSUME NEW c \in Client, Receive(c) \/ Reopen(c) PROVE CompletionInv'
  <2>1. UNCHANGED <<subs, cache, spent>> /\ acks' = acks /\ runs' = runs /\ UNCHANGED storeVars
    BY <1>3 DEF Receive, Reopen, serverVars
  <2> QED BY <1>0, <2>1, RowStep
<1> QED BY <1>1, <1>2, <1>3, BreakKeeps DEF Clients

LEMMA CrashKeeps ==
  ASSUME CompletionInv, CrashRestart
  PROVE  CompletionInv'
<1>1. PICK stale \in SUBSET {j \in Job : Running(j)} : RecoverStaleJobs(stale)
  BY DEF CrashRestart
<1>2. /\ acks' = <<>> /\ runs' = runs /\ spent' = Job
      /\ cache' = [j \in Job |-> NoNotice]
  BY DEF CrashRestart
<1>3. StoreTypeOK'
  <2>1. ASSUME NEW j \in Job
        PROVE  (IF j \notin stale THEN jobs[j]
                ELSE IF jobs[j].attempt < MaxAttempts[j] THEN Requeued(jobs[j])
                ELSE [jobs[j] EXCEPT !.status = "DEAD"]) \in Row
    <3>1. jobs[j] \in Row
      BY DEF CompletionInv, ServerTypes, StoreTypeOK
    <3>2. Requeued(jobs[j]) \in Row
      BY <3>1, DerivedRows
    <3>3. [jobs[j] EXCEPT !.status = "DEAD"] \in Row
      BY <3>1 DEF Row, Status
    <3> QED BY <3>1, <3>2, <3>3
  <2>2. jobs' \in [Job -> Row]
    BY <1>1, <2>1 DEF RecoverStaleJobs
  <2> QED BY <1>1, <2>2 DEF RecoverStaleJobs, CompletionInv, ServerTypes, StoreTypeOK
<1>4. ServerTypes'
  BY <1>2, <1>3 DEF CompletionInv, ServerTypes
<1>5. NoForgottenSubscriber'
  BY <1>2 DEF NoForgottenSubscriber, CacheHas
<1> QED BY <1>4, <1>5 DEF CompletionInv

LEMMA InvKept == CompletionInv /\ [Next]_vars => CompletionInv'
<1> SUFFICES ASSUME CompletionInv, [Next]_vars PROVE CompletionInv'
  OBVIOUS
<1>1. CASE Next
  BY <1>1, LifeKeeps, ServerKeeps, ClientsKeep, CrashKeeps DEF Next
<1>2. CASE UNCHANGED vars
  <2>1. /\ UNCHANGED <<subs, cache, spent>> /\ UNCHANGED storeVars /\ acks' = acks /\ runs' = runs
    BY <1>2 DEF vars, serverVars
  <2> QED BY <2>1, RowStep DEF CompletionInv, ServerTypes
<1> QED BY <1>1, <1>2

(* However batches, subscriptions, broken streams, evictions and restarts   *)
(* cross: no notice sits in the cache while somebody is subscribed for it,  *)
(* and a settled job has its notice there, with the status of its row,      *)
(* unless it was sent, evicted or forgotten.                                *)
THEOREM NobodyForgotten == Spec => []NoForgottenSubscriber
<1>1. CompletionInv => NoForgottenSubscriber
  BY DEF CompletionInv
<1> QED BY <1>1, InitHolds, InvKept, PTL DEF Spec

-----------------------------------------------------------------------------
(* Sequences of notices. *)

(* Some sequences after the other are a sequence.  The function that        *)
(* concatenates them exists, since there is no first place where it fails.  *)
LEMMA FlattenType ==
  ASSUME NEW S, NEW ss \in Seq(Seq(S))
  PROVE  FlattenSeq(ss) \in Seq(S)
<1> DEFINE n == Len(ss)
           Flat(f, m) == f = [i \in 1..m |-> IF i = 1 THEN ss[i] ELSE f[i-1] \o ss[i]]
           Bad == {m \in 1..n : ~\E f : Flat(f, m)}
<1>1. n \in Nat /\ \A i \in 1..n : ss[i] \in Seq(S)
  OBVIOUS
<1>2. CASE n = 0
  <2>1. ss = <<>>
    BY <1>2, EmptySeq
  <2> QED BY <1>2, <2>1 DEF FlattenSeq
<1>3. CASE n > 0
  <2> HIDE DEF n
  <2>1. Bad = {}
    <3> SUFFICES ASSUME Bad # {} PROVE FALSE
      OBVIOUS
    <3>1. PICK m \in Bad : \A k \in Bad : m <= k
      <4>1. Bad \subseteq Nat
        <5> HIDE DEF Flat
        <5> QED BY <1>1
      <4> HIDE DEF Bad
      <4> QED BY <4>1, SmallestOf
    <3>2. m \in 1..n /\ ~\E f : Flat(f, m)
      BY <3>1
    <3>3. CASE m = 1
      <4> DEFINE f == [i \in 1..1 |-> ss[i]]
      <4>1. f = [i \in 1..1 |-> IF i = 1 THEN ss[i] ELSE f[i-1] \o ss[i]]
        OBVIOUS
      <4>2. Flat(f, m)
        BY <3>3, <4>1
      <4> QED BY <3>2, <4>2
    <3>4. CASE m # 1
      <4>1. m \in Int /\ n \in Int /\ 1 < m /\ m <= n /\ m - 1 \in 1..n /\ ~(m <= m - 1)
        BY <1>1, <3>2, <3>4
      <4>2. PICK f : Flat(f, m - 1)
        BY <3>1, <4>1
      <4> DEFINE next == f[m-1] \o ss[m]
                 g == [i \in 1..m |-> IF i = m THEN next ELSE f[i]]
      <4>3. ASSUME NEW i \in 1..m
            PROVE  g[i] = IF i = 1 THEN ss[i] ELSE g[i-1] \o ss[i]
        <5>1. CASE i = m
          <6>1. m - 1 \in 1..m /\ m \in 1..m /\ m - 1 # m /\ m # 1
            BY <4>1
          <6>2. g[m] = next /\ g[m-1] = f[m-1]
            <7> HIDE DEF next, Bad
            <7> QED BY <6>1
          <6> HIDE DEF g, Bad
          <6> QED BY <5>1, <6>1, <6>2
        <5>2. CASE i # m
          <6>1. i \in 1..(m - 1)
            BY <4>1, <5>2
          <6>2. g[i] = f[i] /\ f[i] = IF i = 1 THEN ss[i] ELSE f[i-1] \o ss[i]
            BY <4>2, <5>2, <6>1
          <6>3. i # 1 => g[i-1] = f[i-1]
            <7> SUFFICES ASSUME i # 1 PROVE g[i-1] = f[i-1]
              OBVIOUS
            <7>1. i - 1 \in 1..m /\ i - 1 # m
              BY <4>1, <5>2
            <7> QED BY <7>1
          <6> QED BY <6>2, <6>3
        <5> QED BY <5>1, <5>2
      <4>4. Flat(g, m)
        <5> DEFINE e == [i \in 1..m |-> IF i = 1 THEN ss[i] ELSE g[i-1] \o ss[i]]
        <5>1. DOMAIN g = 1..m /\ DOMAIN e = 1..m /\ \A i \in 1..m : g[i] = e[i]
          BY <4>3
        <5>2. g = [i \in 1..m |-> g[i]] /\ e = [i \in 1..m |-> e[i]]
          OBVIOUS
        <5>3. g = e
          <6> HIDE DEF g, e
          <6> QED BY <5>1, <5>2
        <5> QED BY <5>3
      <4> QED BY <3>2, <4>4
    <3> QED BY <3>3, <3>4
  <2>2. \E f : Flat(f, n)
    <3>1. n \in 1..n
      BY <1>1, <1>3
    <3> HIDE DEF Flat
    <3> QED BY <2>1, <3>1
  <2> DEFINE g == CHOOSE f : Flat(f, n)
  <2>3. Flat(g, n)
    <3> HIDE DEF Flat
    <3> QED BY <2>2
  <2>4. FlattenSeq(ss) = g[n]
    BY <1>3 DEF FlattenSeq, n
  <2> HIDE DEF g
  <2>5. \A i \in 1..n : g[i] = IF i = 1 THEN ss[i] ELSE g[i-1] \o ss[i]
    BY <2>3
  <2> DEFINE Wrong == {i \in 1..n : g[i] \notin Seq(S)}
  <2>6. Wrong = {}
    <3> SUFFICES ASSUME Wrong # {} PROVE FALSE
      OBVIOUS
    <3>1. PICK m \in Wrong : \A k \in Wrong : m <= k
      <4>1. Wrong \subseteq Nat
        BY <1>1
      <4> HIDE DEF Wrong
      <4> QED BY <4>1, SmallestOf
    <3>2. m \in 1..n /\ g[m] \notin Seq(S) /\ ss[m] \in Seq(S)
      BY <1>1, <3>1
    <3>3. m # 1
      BY <2>5, <3>2
    <3>4. m - 1 \in 1..n /\ ~(m <= m - 1)
      BY <1>1, <3>2, <3>3
    <3>5. g[m-1] \in Seq(S)
      BY <3>1, <3>4
    <3> QED BY <2>5, <3>2, <3>3, <3>5, ConcatProperties
  <2> QED BY <1>1, <1>3, <2>4, <2>6
<1> QED BY <1>1, <1>2, <1>3

(* The notices of finitely many jobs can be put in some order. *)
LEMMA SetToSeqType ==
  ASSUME NEW S, IsFiniteSet(S)
  PROVE  SetToSeq(S) \in Seq(S)
<1>1. Cardinality(S) \in Nat /\ ExistsBijection(1..Cardinality(S), S)
  BY FS_CardinalityType
<1>2. \E f \in [1..Cardinality(S) -> S] : IsInjective(f)
  BY <1>1 DEF ExistsBijection, Bijection, Injection
<1>3. SetToSeq(S) \in [1..Cardinality(S) -> S]
  BY <1>2 DEF SetToSeq
<1> QED BY <1>1, <1>3

-----------------------------------------------------------------------------
(* The rest of the type invariant: the subscriber map, the streams and the  *)
(* clients.  A client tracks finitely many jobs, since it enqueues one at a *)
(* time; that is why a request's notices can be put in order.               *)
HistoryTypes ==
  /\ reached \in [Job -> SUBSET Status]
  /\ spent \in SUBSET Job /\ doubled \in SUBSET Job /\ lost \in SUBSET Job
  /\ left \in [Hazard -> Nat]

HandleType == handle \in [Handle -> {"new", "asked", "idle", "waiting", "superseded"} \cup Answer]

StreamTypes ==
  /\ subs \in [Job -> Seq(Client \cup {Gone})]
  /\ conn \in [Client -> Connection]
  /\ tracked \in [Client -> SUBSET Job]
  /\ completed \in [Client -> [Job -> Answer \cup {"none"}]]
  /\ \A c \in Client :
       IsFiniteSet(tracked[c]) /\ \A i \in DOMAIN conn[c].inbox : IsFiniteSet(conn[c].inbox[i])

ClientTypes == HistoryTypes /\ HandleType /\ StreamTypes

LEMMA SpendType ==
  ASSUME left \in [Hazard -> Nat], NEW h \in Hazard, Spend(h)
  PROVE  left' \in [Hazard -> Nat]
BY DEF Spend

LEMMA ObserveType ==
  ASSUME reached \in [Job -> SUBSET Status], StoreTypeOK', Observe
  PROVE  reached' \in [Job -> SUBSET Status]
<1>1. \A j \in Job : jobs'[j].status \in Status
  BY DEF StoreTypeOK, Row
<1>2. \A j \in Job : reached[j] \cup ({jobs'[j].status} \cap {"SUCCESS", "DEAD", "CANCELLED"}) \in SUBSET Status
  BY <1>1
<1> QED BY <1>2 DEF Observe

LEMMA TellType ==
  ASSUME HandleType, NEW H, NEW a \in Answer, Tell(H, a)
  PROVE  HandleType'
BY DEF HandleType, Tell

(* A stream's record, taken apart and put together. *)
LEMMA StreamParts ==
  ASSUME StreamTypes, NEW c \in Client
  PROVE  /\ conn[c].up \in BOOLEAN /\ conn[c].inbox \in Seq(SUBSET Job)
         /\ conn[c].outbox \in Seq(Notice)
         /\ conn[c] = [up |-> conn[c].up, inbox |-> conn[c].inbox, outbox |-> conn[c].outbox]
BY DEF StreamTypes, Connection

LEMMA TwoFields ==
  ASSUME NEW r \in Connection, NEW in, NEW out
  PROVE  [r EXCEPT !.inbox = in, !.outbox = out] = [up |-> r.up, inbox |-> in, outbox |-> out]
<1> DEFINE a == [r EXCEPT !.inbox = in, !.outbox = out]
           b == [up |-> r.up, inbox |-> in, outbox |-> out]
<1>1. DOMAIN r = {"up", "inbox", "outbox"} /\ DOMAIN a = DOMAIN r /\ DOMAIN b = {"up", "inbox", "outbox"}
  BY DEF Connection
<1>2. a.up = b.up /\ a.inbox = b.inbox /\ a.outbox = b.outbox
  BY <1>1
<1>3. a = [x \in DOMAIN a |-> a[x]] /\ b = [x \in DOMAIN b |-> b[x]]
  OBVIOUS
<1>4. \A x \in {"up", "inbox", "outbox"} : a[x] = b[x]
  BY <1>2
<1> HIDE DEF a, b
<1>5. a = b
  BY <1>1, <1>3, <1>4
<1> QED BY <1>5 DEF a, b

(* One stream gets another record. *)
LEMMA OneStream ==
  ASSUME StreamTypes, NEW c \in Client, NEW r \in Connection,
         \A i \in DOMAIN r.inbox : IsFiniteSet(r.inbox[i]),
         conn' = [conn EXCEPT ![c] = r],
         subs' \in [Job -> Seq(Client \cup {Gone})],
         tracked' \in [Client -> SUBSET Job], \A d \in Client : IsFiniteSet(tracked'[d]),
         completed' \in [Client -> [Job -> Answer \cup {"none"}]]
  PROVE  StreamTypes'
<1>1. conn' \in [Client -> Connection]
  BY DEF StreamTypes
<1>2. \A d \in Client : \A i \in DOMAIN conn'[d].inbox : IsFiniteSet(conn'[d].inbox[i])
  <2> SUFFICES ASSUME NEW d \in Client, NEW i \in DOMAIN conn'[d].inbox
               PROVE  IsFiniteSet(conn'[d].inbox[i])
    OBVIOUS
  <2>1. CASE d = c
    BY <2>1 DEF StreamTypes
  <2>2. CASE d # c
    BY <2>2 DEF StreamTypes
  <2> QED BY <2>1, <2>2
<1> QED BY <1>1, <1>2 DEF StreamTypes

LEMMA NoticeType ==
  ASSUME NEW batch \in Seq(Ack), NEW j, NEW i \in Announced(batch, j)
  PROVE  NoticeOf(batch, i) \in Notice /\ NoticeOf(batch, i).job = batch[i].job
<1>1. batch[i] \in Ack /\ StatusAfter(batch[i]) \in {"SUCCESS", "DEAD"}
  BY DEF Announced
<1> QED BY <1>1 DEF NoticeOf, Notice, Ack

(* What a batch sends to a client is a sequence of what it announces. *)
LEMMA SentAre ==
  ASSUME NEW n \in Nat, NEW batch \in Seq(Ack), DOMAIN batch = 1..n,
         subs \in [Job -> Seq(Client \cup {Gone})], NEW c, NEW T,
         \A i \in 1..n : i \in Announced(batch, batch[i].job) => NoticeOf(batch, i) \in T
  PROVE  SentTo(batch, c) \in Seq(T)
<1> DEFINE k(i) == Cardinality(SendersOf(c, batch[i].job))
           part(i) == IF i \in SentFor(batch, batch[i].job)
                      THEN [m \in 1..k(i) |-> NoticeOf(batch, i)] ELSE <<>>
           parts == [i \in DOMAIN batch |-> part(i)]
<1>1. ASSUME NEW i \in 1..n PROVE part(i) \in Seq(T)
  <2>1. CASE i \in SentFor(batch, batch[i].job)
    <3>1. i \in Announced(batch, batch[i].job)
      <4> DEFINE A == Announced(batch, batch[i].job)
      <4>1. A \subseteq 1..n
        BY DEF Announced
      <4>2. A # {} /\ i = FirstOf(A)
        BY <2>1 DEF SentFor
      <4> HIDE DEF A
      <4>3. i \in A
        BY <4>1, <4>2, Ends
      <4> QED BY <4>3 DEF A
    <3>2. NoticeOf(batch, i) \in T
      BY <3>1
    <3>3. batch[i].job \in Job
      <4>1. batch[i] \in Ack
        OBVIOUS
      <4> QED BY <4>1 DEF Ack
    <3>4. k(i) \in Nat
      <4>1. subs[batch[i].job] \in Seq(Client \cup {Gone})
        BY <3>3
      <4> DEFINE L == Len(subs[batch[i].job])
      <4>2. L \in Nat /\ DOMAIN subs[batch[i].job] = 1..L
        BY <4>1
      <4>3. IsFiniteSet(1..L)
        BY <4>2, FS_Interval
      <4>4. SendersOf(c, batch[i].job) \subseteq 1..L
        BY <4>2 DEF SendersOf
      <4> HIDE DEF L
      <4>5. IsFiniteSet(SendersOf(c, batch[i].job))
        BY <4>3, <4>4, FS_Subset
      <4> QED BY <4>5, FS_CardinalityType
    <3> DEFINE e == NoticeOf(batch, i)
               kk == k(i)
    <3>5. e \in T /\ kk \in Nat
      BY <3>2, <3>4
    <3> HIDE DEF e, kk
    <3>6. [m \in 1..kk |-> e] \in Seq(T)
      BY <3>5
    <3> QED BY <2>1, <3>6 DEF e, kk
  <2>2. CASE i \notin SentFor(batch, batch[i].job)
    BY <2>2
  <2> QED BY <2>1, <2>2
<1>2. parts \in Seq(Seq(T))
  <2> HIDE DEF part
  <2>1. parts = [i \in 1..n |-> part(i)]
    OBVIOUS
  <2> QED BY <1>1, <2>1
<1>3. SentTo(batch, c) = FlattenSeq(parts)
  BY DEF SentTo
<1> HIDE DEF parts
<1> QED BY <1>2, <1>3, FlattenType

-----------------------------------------------------------------------------
(* Every step keeps them. *)
ClientInv == CompletionInv /\ ClientTypes

LEMMA CommitBatchTypes ==
  ASSUME ClientInv, CompletionInv', NEW n \in 1..BatchMax, CommitBatch(n)
  PROVE  ClientTypes'
<1> DEFINE batch == SubSeq(acks, 1, n)
<1>1. /\ n <= Len(acks) /\ Observe
      /\ conn' = [c \in Client |->
                    IF conn[c].up THEN [conn[c] EXCEPT !.outbox = @ \o SentTo(batch, c)]
                    ELSE conn[c]]
      /\ subs' = [j \in Job |-> IF SentFor(batch, j) # {} THEN <<>> ELSE subs[j]]
      /\ spent' = SpentAfter(batch) /\ doubled' = doubled \cup Twice(batch)
      /\ UNCHANGED <<lost, tracked, completed, handle, left>>
  BY DEF CommitBatch
<1>2. n \in Nat /\ batch \in Seq(Ack) /\ DOMAIN batch = 1..n
  BY <1>1, BatchParts, StoreAssumption DEF ClientInv, CompletionInv
<1> HIDE DEF batch
<1>3. HistoryTypes'
  <2>1. reached' \in [Job -> SUBSET Status]
    BY <1>1, ObserveType DEF ClientInv, ClientTypes, HistoryTypes, CompletionInv, ServerTypes
  <2>2. spent' \subseteq Job
    BY <1>1 DEF SpentAfter
  <2>3. Twice(batch) \subseteq Job
    BY DEF Twice
  <2> QED BY <1>1, <2>1, <2>2, <2>3 DEF ClientInv, ClientTypes, HistoryTypes
<1>4. HandleType'
  BY <1>1 DEF ClientInv, ClientTypes, HandleType
<1>5. StreamTypes'
  <2>1. subs \in [Job -> Seq(Client \cup {Gone})]
    BY DEF ClientInv, ClientTypes, StreamTypes
  <2>2. subs' \in [Job -> Seq(Client \cup {Gone})]
    BY <1>1, <2>1
  <2>3. ASSUME NEW c \in Client
        PROVE  conn'[c] \in Connection /\ conn'[c].inbox = conn[c].inbox
    <3>1. /\ conn[c].up \in BOOLEAN /\ conn[c].inbox \in Seq(SUBSET Job)
          /\ conn[c].outbox \in Seq(Notice) /\ conn[c] \in Connection
      BY StreamParts DEF ClientInv, ClientTypes, StreamTypes
    <3>2. \A i \in 1..n : i \in Announced(batch, batch[i].job) => NoticeOf(batch, i) \in Notice
      BY <1>2, NoticeType
    <3>3. SentTo(batch, c) \in Seq(Notice)
      BY <1>2, <2>1, <3>2, SentAre
    <3>4. conn[c].outbox \o SentTo(batch, c) \in Seq(Notice)
      BY <3>1, <3>3, ConcatProperties
    <3>5. conn'[c] = IF conn[c].up THEN [conn[c] EXCEPT !.outbox = conn[c].outbox \o SentTo(batch, c)] ELSE conn[c]
      BY <1>1
    <3> DEFINE q == conn[c].outbox \o SentTo(batch, c)
    <3> HIDE DEF q
    <3>6. [conn[c] EXCEPT !.outbox = q] \in Connection /\ [conn[c] EXCEPT !.outbox = q].inbox = conn[c].inbox
      BY <3>1, <3>4 DEF Connection, q
    <3> QED BY <3>1, <3>5, <3>6 DEF q
  <2>4. conn' \in [Client -> Connection]
    BY <1>1, <2>3
  <2> QED BY <1>1, <2>2, <2>3, <2>4 DEF ClientInv, ClientTypes, StreamTypes
<1> QED BY <1>3, <1>4, <1>5 DEF ClientTypes

(* A request sends notices of the cache to whoever asks, if his stream is   *)
(* still up.                                                                *)
CachedNotices == {cache[j].notice : j \in {i \in Job : CacheHas(i)}}

Served(c, ns) ==
  [up |-> conn[c].up, inbox |-> Tail(conn[c].inbox),
   outbox |-> IF conn[c].up THEN conn[c].outbox \o ns ELSE conn[c].outbox]

LEMMA RequestParts ==
  ASSUME StreamTypes, NEW c \in Client, conn[c].inbox # <<>>
  PROVE  /\ Head(conn[c].inbox) \in SUBSET Job /\ IsFiniteSet(Head(conn[c].inbox))
         /\ Tail(conn[c].inbox) \in Seq(SUBSET Job)
         /\ \A i \in DOMAIN Tail(conn[c].inbox) : IsFiniteSet(Tail(conn[c].inbox)[i])
<1> DEFINE q == conn[c].inbox
<1>1. q \in Seq(SUBSET Job) /\ q # <<>> /\ \A i \in DOMAIN q : IsFiniteSet(q[i])
  BY StreamParts DEF StreamTypes
<1> HIDE DEF q
<1>2. Len(q) \in Nat \ {0} /\ DOMAIN q = 1..Len(q) /\ Head(q) = q[1]
  BY <1>1, EmptySeq
<1>3. /\ Head(q) \in SUBSET Job
      /\ Len(Tail(q)) = Len(q) - 1 /\ Tail(q) \in Seq(SUBSET Job)
      /\ \A i \in 1..(Len(q) - 1) : Tail(q)[i] = q[i + 1]
  BY <1>1, HeadTailProperties
<1>4. DOMAIN Tail(q) = 1..(Len(q) - 1)
  BY <1>2, <1>3
<1>5. \A i \in DOMAIN Tail(q) : i + 1 \in DOMAIN q
  BY <1>2, <1>4
<1> QED BY <1>1, <1>2, <1>3, <1>4, <1>5 DEF q

LEMMA SubscribeSends ==
  ASSUME ClientInv, NEW c \in Client, Subscribe(c)
  PROVE  \E ns \in Seq(CachedNotices) : conn' = [conn EXCEPT ![c] = Served(c, ns)]
<1> DEFINE S == Head(conn[c].inbox)
           hit == {j \in S : cache[j] # NoNotice}
           N == {cache[j].notice : j \in hit}
           ns == SetToSeq(N)
<1>1. /\ conn[c].inbox # <<>>
      /\ conn' = [conn EXCEPT ![c].inbox = Tail(@), ![c].outbox = IF conn[c].up THEN @ \o ns ELSE @]
  BY DEF Subscribe
<1>2. StreamTypes
  BY DEF ClientInv, ClientTypes
<1>3. S \in SUBSET Job /\ IsFiniteSet(S)
  BY <1>1, <1>2, RequestParts
<1>4. N \subseteq CachedNotices
  BY <1>3 DEF CachedNotices, CacheHas
<1>5. IsFiniteSet(N)
  <2>1. IsFiniteSet(hit)
    BY <1>3, FS_Subset
  <2> DEFINE f == [j \in hit |-> cache[j].notice]
  <2>2. f \in Surjection(hit, N)
    BY DEF Surjection
  <2> HIDE DEF f, hit, N
  <2> QED BY <2>1, <2>2, FS_Surjection
<1>6. ns \in Seq(CachedNotices)
  <2>1. ns \in Seq(N)
    <3> HIDE DEF N
    <3> QED BY <1>5, SetToSeqType
  <2> HIDE DEF ns, N
  <2> QED BY <1>4, <2>1, SeqMonotonic
<1> HIDE DEF S, hit, N, ns
<1>7. conn' = [conn EXCEPT ![c] = Served(c, ns)]
  <2>1. conn \in [Client -> Connection]
    BY <1>2 DEF StreamTypes
  <2> DEFINE in == Tail(conn[c].inbox)
             out == IF conn[c].up THEN conn[c].outbox \o ns ELSE conn[c].outbox
  <2>2. conn' = [conn EXCEPT ![c] = [conn[c] EXCEPT !.inbox = in, !.outbox = out]]
    BY <1>1, <2>1
  <2> HIDE DEF in, out
  <2>3. conn[c] \in Connection
    BY <2>1
  <2>4. [conn[c] EXCEPT !.inbox = in, !.outbox = out] = [up |-> conn[c].up, inbox |-> in, outbox |-> out]
    BY <2>3, TwoFields
  <2> QED BY <2>2, <2>4 DEF Served, in, out
<1> QED BY <1>6, <1>7

LEMMA SubscribeTypes ==
  ASSUME ClientInv, NEW c \in Client, Subscribe(c)
  PROVE  ClientTypes'
<1> DEFINE S == Head(conn[c].inbox)
           hit == {j \in S : cache[j] # NoNotice}
<1>1. /\ conn[c].inbox # <<>>
      /\ spent' = spent \cup hit
      /\ subs' = [j \in Job |-> IF j \in S \ hit THEN Append(subs[j], Sender(c)) ELSE subs[j]]
      /\ UNCHANGED <<doubled, lost, tracked, completed, handle, reached, left>>
  BY DEF Subscribe
<1>2. StreamTypes
  BY DEF ClientInv, ClientTypes
<1>3. conn[c].up \in BOOLEAN /\ conn[c].outbox \in Seq(Notice)
  BY <1>2, StreamParts
<1>4. hit \subseteq Job
  BY <1>1, <1>2, RequestParts
<1> HIDE DEF S, hit
<1>5. PICK ns \in Seq(CachedNotices) : conn' = [conn EXCEPT ![c] = Served(c, ns)]
  BY SubscribeSends
<1>6. CachedNotices \subseteq Notice
  <2>1. \A j \in Job : CacheHas(j) => cache[j] \in Cached
    BY DEF ClientInv, CompletionInv, ServerTypes, CacheHas
  <2> QED BY <2>1 DEF CachedNotices, Cached
<1>7. conn[c].outbox \o ns \in Seq(Notice)
  <2>1. ns \in Seq(Notice)
    BY <1>5, <1>6, SeqMonotonic
  <2> QED BY <1>3, <2>1, ConcatProperties
<1>8. /\ Served(c, ns) \in Connection
      /\ \A i \in DOMAIN Served(c, ns).inbox : IsFiniteSet(Served(c, ns).inbox[i])
  <2>1. /\ Tail(conn[c].inbox) \in Seq(SUBSET Job)
        /\ \A i \in DOMAIN Tail(conn[c].inbox) : IsFiniteSet(Tail(conn[c].inbox)[i])
    BY <1>1, <1>2, RequestParts
  <2> QED BY <1>3, <1>7, <2>1 DEF Served, Connection
<1>9. subs' \in [Job -> Seq(Client \cup {Gone})]
  <2>1. Sender(c) \in Client \cup {Gone}
    BY DEF Sender
  <2>2. ASSUME NEW j \in Job PROVE Append(subs[j], Sender(c)) \in Seq(Client \cup {Gone})
    <3>1. subs[j] \in Seq(Client \cup {Gone})
      BY <1>2 DEF StreamTypes
    <3> QED BY <2>1, <3>1, AppendProperties
  <2> QED BY <1>1, <1>2, <2>2 DEF StreamTypes
<1>10. /\ tracked' \in [Client -> SUBSET Job] /\ \A d \in Client : IsFiniteSet(tracked'[d])
       /\ completed' \in [Client -> [Job -> Answer \cup {"none"}]]
  BY <1>1, <1>2 DEF StreamTypes
<1>11. StreamTypes'
  BY <1>2, <1>5, <1>8, <1>9, <1>10, OneStream
<1> QED BY <1>1, <1>4, <1>11 DEF ClientInv, ClientTypes, HistoryTypes, HandleType

LEMMA LifeTypes ==
  ASSUME ClientInv, CompletionInv', Life
  PROVE  ClientTypes'
<1> USE DEF ClientInv, ClientTypes
<1>1. ASSUME NEW j \in Job, NEW c \in Client, Claim(j, c) PROVE ClientTypes'
  BY <1>1 DEF Claim, HistoryTypes, HandleType, StreamTypes, clientVars, serverVars
<1>2. ASSUME NEW j \in Job, Elapse(j) PROVE ClientTypes'
  BY <1>2 DEF Elapse, HistoryTypes, HandleType, StreamTypes, clientVars, serverVars
<1>3. ASSUME NEW j \in Job, TakeBack(j) PROVE ClientTypes'
  <2>1. left' \in [Hazard -> Nat]
    BY <1>3, SpendType DEF TakeBack, HistoryTypes, Hazard
  <2> QED BY <1>3, <2>1 DEF TakeBack, HistoryTypes, HandleType, StreamTypes, clientVars, serverVars
<1>4. ASSUME NEW j \in Job, Cancel(j) PROVE ClientTypes'
  <2>1. left' \in [Hazard -> Nat]
    BY <1>4, SpendType DEF Cancel, HistoryTypes, Hazard
  <2>2. reached' \in [Job -> SUBSET Status]
    BY <1>4, ObserveType DEF Cancel, HistoryTypes, CompletionInv, ServerTypes
  <2> QED BY <1>4, <2>1, <2>2 DEF Cancel, HistoryTypes, HandleType, StreamTypes, clientVars, serverVars
<1>5. ASSUME NEW j \in Job, Retry(j) PROVE ClientTypes'
  <2>1. left' \in [Hazard -> Nat]
    BY <1>5, SpendType DEF Retry, HistoryTypes, Hazard
  <2> QED BY <1>5, <2>1 DEF Retry, HistoryTypes, HandleType, StreamTypes, clientVars, serverVars
<1>6. ASSUME NEW r \in runs, NEW o \in Outcome, Report(r, o) PROVE ClientTypes'
  <2>1. left' \in [Hazard -> Nat]
    BY <1>6, SpendType DEF Report, HistoryTypes, Hazard
  <2>2. HandleType'
    BY <1>6, TellType DEF Report, HandleType, Answer
  <2> QED BY <1>6, <2>1, <2>2 DEF Report, HistoryTypes, StreamTypes
<1> QED BY <1>1, <1>2, <1>3, <1>4, <1>5, <1>6 DEF Life

LEMMA ServerStepTypes ==
  ASSUME ClientInv, CompletionInv', Server
  PROVE  ClientTypes'
<1>1. ASSUME NEW n \in 1..BatchMax, CommitFails(n) PROVE ClientTypes'
  <2>1. left' \in [Hazard -> Nat]
    BY <1>1, SpendType DEF CommitFails, ClientInv, ClientTypes, HistoryTypes, Hazard
  <2>2. \A i \in 1..n : acks[i].job \in Job
    <3> SUFFICES ASSUME NEW i \in 1..n PROVE acks[i].job \in Job
      OBVIOUS
    <3>1. n \in Nat /\ n <= Len(acks) /\ acks \in Seq(Ack)
      BY <1>1, StoreAssumption DEF CommitFails, ClientInv, CompletionInv, ServerTypes
    <3>2. i \in 1..Len(acks)
      BY <3>1
    <3>3. acks[i] \in Ack
      BY <3>1, <3>2
    <3> QED BY <3>3 DEF Ack
  <2>3. lost' \subseteq Job
    BY <1>1, <2>2 DEF CommitFails, ClientInv, ClientTypes, HistoryTypes
  <2> QED BY <1>1, <2>1, <2>3
      DEF CommitFails, ClientInv, ClientTypes, HistoryTypes, HandleType, StreamTypes, clientVars
<1>2. ASSUME NEW j \in Job, Expire(j) PROVE ClientTypes'
  BY <1>2 DEF Expire, ClientInv, ClientTypes, HistoryTypes, HandleType, StreamTypes, clientVars
<1> QED BY <1>1, <1>2, CommitBatchTypes, SubscribeTypes DEF Server

(* The callers: what a handle does leaves the streams alone, except for the  *)
(* request the Node client sends when its job is enqueued.                   *)
LEMMA HandleStepTypes ==
  ASSUME ClientInv, NEW h \in Handle,
         Enqueue(h) \/ ResultNode(h) \/ ResultRust(h) \/ Timeout(h) \/ Poll(h)
  PROVE  ClientTypes'
<1> USE DEF ClientInv, ClientTypes
<1>1. ClientOf[h] \in Client /\ JobOf[h] \in Job
  BY CompletionAssumption
<1>2. CASE Enqueue(h)
  BY <1>2 DEF Enqueue, HistoryTypes, HandleType, StreamTypes, serverVars
<1>3. CASE ResultNode(h)
  <2>1. completed[ClientOf[h]][JobOf[h]] \in Answer \cup {"none"}
    BY <1>1 DEF StreamTypes
  <2>2. HandleType'
    BY <1>3, <2>1 DEF ResultNode, HandleType
  <2>3. completed' \in [Client -> [Job -> Answer \cup {"none"}]]
    BY <1>1, <1>3 DEF ResultNode, StreamTypes
  <2> QED BY <1>3, <2>2, <2>3 DEF ResultNode, HistoryTypes, StreamTypes, serverVars
<1>4. CASE ResultRust(h)
  BY <1>4 DEF ResultRust, HistoryTypes, HandleType, StreamTypes, serverVars
<1>5. CASE Timeout(h)
  <2>1. left' \in [Hazard -> Nat]
    BY <1>5, SpendType DEF Timeout, HistoryTypes, Hazard
  <2> QED BY <1>5, <2>1 DEF Timeout, HistoryTypes, HandleType, StreamTypes, serverVars
<1>6. CASE Poll(h)
  <2>1. HandleType'
    BY <1>6, TellType DEF Poll, Answer
  <2> QED BY <1>6, <2>1 DEF Poll, HistoryTypes, StreamTypes, serverVars
<1> QED BY <1>2, <1>3, <1>4, <1>5, <1>6

LEMMA EnqueuedTypes ==
  ASSUME ClientInv, NEW h \in Handle, Enqueued(h)
  PROVE  ClientTypes'
<1> DEFINE c == ClientOf[h]
           j == JobOf[h]
<1>1. c \in Client /\ j \in Job
  BY CompletionAssumption
<1>2. HandleType' /\ HistoryTypes'
  BY DEF Enqueued, ClientInv, ClientTypes, HandleType, HistoryTypes, serverVars
<1>3. UNCHANGED <<subs, completed>> /\ StreamTypes
  BY DEF Enqueued, ClientInv, ClientTypes, serverVars
<1>4. CASE Kind[c] = "rust"
  BY <1>2, <1>3, <1>4 DEF Enqueued, StreamTypes, ClientTypes
<1>5. CASE Kind[c] # "rust"
  <2>1. /\ tracked' = [tracked EXCEPT ![c] = tracked[c] \cup {j}]
        /\ conn' = IF conn[c].up THEN [conn EXCEPT ![c].inbox = Append(@, {j})] ELSE conn
    BY <1>1, <1>5 DEF Enqueued
  <2> HIDE DEF c, j
  <2>2. /\ tracked' \in [Client -> SUBSET Job]
        /\ \A d \in Client : IsFiniteSet(tracked'[d])
    <3>1. IsFiniteSet(tracked[c] \cup {j})
      BY <1>1, <1>3, FS_AddElement DEF StreamTypes
    <3>2. \A d \in Client : tracked'[d] = IF d = c THEN tracked[c] \cup {j} ELSE tracked[d]
      BY <1>3, <2>1 DEF StreamTypes
    <3> QED BY <1>1, <1>3, <2>1, <3>1, <3>2 DEF StreamTypes
  <2>3. CASE ~conn[c].up
    BY <1>2, <1>3, <2>1, <2>2, <2>3 DEF ClientTypes, StreamTypes
  <2>4. CASE conn[c].up
    <3> DEFINE r == [conn[c] EXCEPT !.inbox = Append(conn[c].inbox, {j})]
               q == conn[c].inbox
               new == Append(q, {j})
    <3>1. q \in Seq(SUBSET Job) /\ {j} \in SUBSET Job /\ \A i \in DOMAIN q : IsFiniteSet(q[i])
      BY <1>1, <1>3, StreamParts DEF StreamTypes
    <3>2. conn[c] \in Connection
      BY <1>1, <1>3 DEF StreamTypes
    <3> HIDE DEF q
    <3>3. /\ new \in Seq(SUBSET Job) /\ Len(new) = Len(q) + 1 /\ Len(q) \in Nat
          /\ new[Len(q) + 1] = {j}
          /\ \A i \in 1..Len(q) : new[i] = q[i]
      BY <3>1, AppendProperties
    <3>4. \A i \in DOMAIN new : IsFiniteSet(new[i])
      <4> SUFFICES ASSUME NEW i \in DOMAIN new PROVE IsFiniteSet(new[i])
        OBVIOUS
      <4>1. i \in 1..(Len(q) + 1) /\ DOMAIN q = 1..Len(q)
        BY <3>1, <3>3
      <4>2. CASE i = Len(q) + 1
        <5>1. new[i] = {j}
          BY <3>3, <4>2
        <5> QED BY <5>1, FS_Singleton
      <4>3. CASE i # Len(q) + 1
        BY <3>1, <3>3, <4>1, <4>3
      <4> QED BY <4>2, <4>3
    <3> HIDE DEF new
    <3>5. [conn[c] EXCEPT !.inbox = new] \in Connection /\ [conn[c] EXCEPT !.inbox = new].inbox = new
      BY <3>2, <3>3 DEF Connection
    <3>6. r \in Connection /\ r.inbox = new
      BY <3>5 DEF new, q
    <3>7. conn' = [conn EXCEPT ![c] = r]
      BY <2>1, <2>4
    <3> HIDE DEF r
    <3>8. /\ subs' \in [Job -> Seq(Client \cup {Gone})]
          /\ completed' \in [Client -> [Job -> Answer \cup {"none"}]]
      BY <1>3 DEF StreamTypes
    <3>9. StreamTypes'
      BY <1>1, <1>3, <2>2, <3>4, <3>6, <3>7, <3>8, OneStream
    <3> QED BY <1>2, <3>9 DEF ClientTypes
  <2> QED BY <2>3, <2>4
<1> QED BY <1>4, <1>5
LEMMA ReceiveTypes ==
  ASSUME ClientInv, NEW c \in Client, Receive(c)
  PROVE  ClientTypes'
<1> DEFINE n == Head(conn[c].outbox)
<1>1. /\ conn[c].outbox # <<>>
      /\ conn' = [conn EXCEPT ![c].outbox = Tail(@)]
      /\ tracked' = [tracked EXCEPT ![c] = @ \ {n.job}]
      /\ completed' = [completed EXCEPT ![c][n.job] = Reading(n)]
      /\ Tell(Listening(c, n.job), Reading(n))
      /\ UNCHANGED <<subs, spent, doubled, lost, reached, left>>
  BY DEF Receive, serverVars
<1>2. StreamTypes /\ HandleType /\ HistoryTypes
  BY DEF ClientInv, ClientTypes
<1>3. conn[c] \in Connection /\ conn[c].inbox \in Seq(SUBSET Job) /\ conn[c].outbox \in Seq(Notice)
  BY <1>2, StreamParts DEF StreamTypes
<1>4. n \in Notice /\ Tail(conn[c].outbox) \in Seq(Notice)
  <2> DEFINE q == conn[c].outbox
  <2>1. q \in Seq(Notice) /\ q # <<>>
    BY <1>1, <1>3
  <2> HIDE DEF q
  <2>2. Head(q) \in Notice /\ Tail(q) \in Seq(Notice)
    BY <2>1, HeadTailProperties
  <2> QED BY <2>2 DEF q
<1> HIDE DEF n
<1>5. n.job \in Job /\ Reading(n) \in Answer
  BY <1>4 DEF Notice, Reading, Answer
<1>6. HandleType'
  BY <1>1, <1>2, <1>5, TellType
<1>7. HistoryTypes'
  BY <1>1, <1>2 DEF HistoryTypes
<1> DEFINE out == Tail(conn[c].outbox)
           r == [conn[c] EXCEPT !.outbox = out]
<1>8. conn' = [conn EXCEPT ![c] = r]
  BY <1>1
<1>9. r \in Connection /\ r.inbox = conn[c].inbox
  <2>1. out \in Seq(Notice)
    BY <1>4
  <2> HIDE DEF out
  <2> QED BY <1>3, <2>1 DEF Connection
<1> HIDE DEF r
<1>10. \A i \in DOMAIN r.inbox : IsFiniteSet(r.inbox[i])
  BY <1>2, <1>9 DEF StreamTypes
<1>11. /\ tracked' \in [Client -> SUBSET Job]
       /\ \A d \in Client : IsFiniteSet(tracked'[d])
  <2>1. IsFiniteSet(tracked[c] \ {n.job}) /\ tracked[c] \ {n.job} \in SUBSET Job
    BY <1>2, FS_Subset DEF StreamTypes
  <2>2. \A d \in Client : tracked'[d] = IF d = c THEN tracked[c] \ {n.job} ELSE tracked[d]
    BY <1>1, <1>2 DEF StreamTypes
  <2> QED BY <1>1, <1>2, <2>1, <2>2 DEF StreamTypes
<1>12. completed' \in [Client -> [Job -> Answer \cup {"none"}]]
  BY <1>1, <1>2, <1>5 DEF StreamTypes
<1>13. subs' \in [Job -> Seq(Client \cup {Gone})]
  BY <1>1, <1>2 DEF StreamTypes
<1>14. StreamTypes'
  BY <1>2, <1>8, <1>9, <1>10, <1>11, <1>12, <1>13, OneStream
<1> QED BY <1>6, <1>7, <1>14 DEF ClientTypes

LEMMA BreakTypes ==
  ASSUME ClientInv, NEW c \in Client, Break(c)
  PROVE  ClientTypes'
<1>1. StreamTypes /\ HandleType /\ HistoryTypes
  BY DEF ClientInv, ClientTypes
<1>2. HandleType' /\ HistoryTypes'
  <2>1. left' \in [Hazard -> Nat]
    BY <1>1, SpendType DEF Break, HistoryTypes, Hazard
  <2> QED BY <1>1, <2>1 DEF Break, HandleType, HistoryTypes
<1>3. conn[c] \in Connection
  BY <1>1 DEF StreamTypes
<1>4. Closed(c) \in Connection /\ Closed(c).inbox = conn[c].inbox
  <2> DEFINE e == <<>>
  <2>1. e \in Seq(Notice)
    OBVIOUS
  <2> HIDE DEF e
  <2>2. LET r == [conn[c] EXCEPT !.up = FALSE, !.outbox = e]
        IN  r \in Connection /\ r.inbox = conn[c].inbox
    BY <1>3, <2>1 DEF Connection
  <2> QED BY <2>2 DEF Closed, e
<1>5. conn' = [conn EXCEPT ![c] = Closed(c)]
  BY DEF Break
<1>6. subs' \in [Job -> Seq(Client \cup {Gone})]
  <2>1. ASSUME NEW j \in Job
        PROVE  [i \in DOMAIN subs[j] |-> IF subs[j][i] = c THEN Gone ELSE subs[j][i]]
                 \in Seq(Client \cup {Gone})
    <3>1. subs[j] \in Seq(Client \cup {Gone})
      BY <1>1 DEF StreamTypes
    <3> DEFINE q == subs[j]
               T == Client \cup {Gone}
    <3>2. q \in Seq(T) /\ Gone \in T
      BY <3>1
    <3> HIDE DEF q, T
    <3>3. [i \in DOMAIN q |-> IF q[i] = c THEN Gone ELSE q[i]] \in Seq(T)
      BY <3>2
    <3> QED BY <3>3 DEF q, T
  <2> QED BY <2>1 DEF Break
<1>7. \A i \in DOMAIN Closed(c).inbox : IsFiniteSet(Closed(c).inbox[i])
  BY <1>1, <1>4 DEF StreamTypes
<1>8. /\ tracked' \in [Client -> SUBSET Job] /\ \A d \in Client : IsFiniteSet(tracked'[d])
      /\ completed' \in [Client -> [Job -> Answer \cup {"none"}]]
  BY <1>1 DEF Break, StreamTypes
<1>9. StreamTypes'
  BY <1>1, <1>4, <1>5, <1>6, <1>7, <1>8, OneStream
<1> QED BY <1>2, <1>9 DEF ClientTypes

LEMMA ReopenTypes ==
  ASSUME ClientInv, NEW c \in Client, Reopen(c)
  PROVE  ClientTypes'
<1>1. StreamTypes /\ HandleType /\ HistoryTypes
  BY DEF ClientInv, ClientTypes
<1>2. HandleType' /\ HistoryTypes'
  BY <1>1 DEF Reopen, HandleType, HistoryTypes, serverVars
<1> DEFINE in == IF tracked[c] = {} THEN <<>> ELSE <<tracked[c]>>
           r == [up |-> TRUE, inbox |-> in, outbox |-> <<>>]
<1>3. conn' = [conn EXCEPT ![c] = r]
  BY DEF Reopen
<1>4. tracked[c] \in SUBSET Job /\ IsFiniteSet(tracked[c])
  BY <1>1 DEF StreamTypes
<1>5. in \in Seq(SUBSET Job)
  <2> DEFINE T == SUBSET Job
             x == tracked[c]
  <2>1. x \in T
    BY <1>4
  <2> HIDE DEF T, x
  <2>2. <<x>> \in Seq(T) /\ <<>> \in Seq(T)
    BY <2>1
  <2> QED BY <2>2 DEF T, x
<1>6. \A i \in DOMAIN in : IsFiniteSet(in[i])
  BY <1>4
<1>7. r \in Connection /\ r.inbox = in
  <2> HIDE DEF in
  <2> QED BY <1>5 DEF Connection
<1>8. \A i \in DOMAIN r.inbox : IsFiniteSet(r.inbox[i])
  BY <1>6, <1>7
<1> HIDE DEF in, r
<1>9. /\ subs' \in [Job -> Seq(Client \cup {Gone})]
      /\ tracked' \in [Client -> SUBSET Job] /\ \A d \in Client : IsFiniteSet(tracked'[d])
      /\ completed' \in [Client -> [Job -> Answer \cup {"none"}]]
  BY <1>1 DEF Reopen, StreamTypes, serverVars
<1>10. StreamTypes'
  BY <1>1, <1>3, <1>7, <1>8, <1>9, OneStream
<1> QED BY <1>2, <1>10 DEF ClientTypes

LEMMA CrashTypes ==
  ASSUME ClientInv, CompletionInv', CrashRestart
  PROVE  ClientTypes'
<1>1. StreamTypes /\ HandleType /\ HistoryTypes
  BY DEF ClientInv, ClientTypes
<1>2. HandleType'
  BY <1>1 DEF CrashRestart, HandleType
<1>3. HistoryTypes'
  <2>1. left' \in [Hazard -> Nat]
    BY <1>1, SpendType DEF CrashRestart, HistoryTypes, Hazard
  <2>2. reached' \in [Job -> SUBSET Status]
    BY <1>1, ObserveType DEF CrashRestart, HistoryTypes, CompletionInv, ServerTypes
  <2>3. \A i \in DOMAIN acks : acks[i].job \in Job
    <3> SUFFICES ASSUME NEW i \in DOMAIN acks PROVE acks[i].job \in Job
      OBVIOUS
    <3>1. acks \in Seq(Ack)
      BY DEF ClientInv, CompletionInv, ServerTypes
    <3>2. acks[i] \in Ack
      BY <3>1
    <3> QED BY <3>2 DEF Ack
  <2>4. lost' \subseteq Job
    BY <1>1, <2>3 DEF CrashRestart, HistoryTypes
  <2> QED BY <1>1, <2>1, <2>2, <2>4 DEF CrashRestart, HistoryTypes
<1>4. StreamTypes'
  <2> DEFINE r == [up |-> FALSE, inbox |-> <<>>, outbox |-> <<>>]
  <2>1. r \in Connection /\ r.inbox = <<>>
    BY DEF Connection
  <2>2. conn' = [c \in Client |-> r]
    BY DEF CrashRestart
  <2>3. subs' \in [Job -> Seq(Client \cup {Gone})]
    BY DEF CrashRestart
  <2>4. tracked' = tracked /\ completed' = completed
    BY DEF CrashRestart
  <2> HIDE DEF r
  <2>5. \A c \in Client : conn'[c] = r
    BY <2>2
  <2> QED BY <1>1, <2>1, <2>2, <2>3, <2>4, <2>5 DEF StreamTypes
<1> QED BY <1>2, <1>3, <1>4 DEF ClientTypes

LEMMA ClientInitHolds == Init => ClientInv
<1> SUFFICES ASSUME Init PROVE ClientInv
  OBVIOUS
<1>1. CompletionInv
  BY InitHolds
<1>2. HistoryTypes
  BY CompletionAssumption DEF Init, HistoryTypes
<1>3. HandleType
  BY DEF Init, HandleType
<1>4. StreamTypes
  <2> DEFINE r == [up |-> TRUE, inbox |-> <<>>, outbox |-> <<>>]
  <2>1. r \in Connection /\ r.inbox = <<>>
    BY DEF Connection
  <2>2. conn = [c \in Client |-> r] /\ tracked = [c \in Client |-> {}]
    BY DEF Init
  <2>3. subs \in [Job -> Seq(Client \cup {Gone})] /\ completed \in [Client -> [Job -> Answer \cup {"none"}]]
    BY DEF Init
  <2> HIDE DEF r
  <2>4. \A c \in Client : conn[c] = r /\ tracked[c] = {}
    BY <2>2
  <2>5. IsFiniteSet({})
    BY FS_EmptySet
  <2> QED BY <2>1, <2>2, <2>3, <2>4, <2>5 DEF StreamTypes
<1> QED BY <1>1, <1>2, <1>3, <1>4 DEF ClientInv, ClientTypes

LEMMA ClientInvKept == ClientInv /\ [Next]_vars => ClientInv'
<1> SUFFICES ASSUME ClientInv, [Next]_vars PROVE ClientInv'
  OBVIOUS
<1>1. CompletionInv'
  BY InvKept DEF ClientInv
<1>2. CASE UNCHANGED vars
  BY <1>1, <1>2 DEF ClientInv, ClientTypes, HistoryTypes, HandleType, StreamTypes,
                    vars, serverVars, clientVars
<1>3. CASE Life
  BY <1>1, <1>3, LifeTypes DEF ClientInv
<1>4. CASE Server
  BY <1>1, <1>4, ServerStepTypes DEF ClientInv
<1>5. CASE Clients
  BY <1>1, <1>5, HandleStepTypes, EnqueuedTypes, ReceiveTypes, BreakTypes, ReopenTypes
     DEF Clients, ClientInv
<1>6. CASE CrashRestart
  BY <1>1, <1>6, CrashTypes DEF ClientInv
<1> QED BY <1>2, <1>3, <1>4, <1>5, <1>6 DEF Next

(* Every state of the notices, streams and callers is of its type: what     *)
(* goes through the channels are requests for jobs and notices of them.     *)
THEOREM CompletionTypes == Spec => []TypeOK
<1>1. ClientInv => TypeOK
  BY DEF ClientInv, ClientTypes, HistoryTypes, HandleType, StreamTypes, CompletionInv, ServerTypes, TypeOK
<1> QED BY <1>1, ClientInitHolds, ClientInvKept, PTL DEF Spec
-----------------------------------------------------------------------------
(* What callers are told.  Everything on its way to a caller, or kept for   *)
(* one, is as true as what he has been told already, and what is true stays *)
(* so: that is the invariant behind ToldWasTrue.                            *)
Vouched(j) == "SUCCESS" \in reached[j] \/ Reported(j) \/ j \in lost \/ j \in doubled
Failing(j) == reached[j] \cap {"DEAD", "CANCELLED"} # {} \/ j \in doubled

Truthful(j, answer) == (answer = "success" => Vouched(j)) /\ (answer = "failed" => Failing(j))

TrueNotice == {n \in Notice : Truthful(n.job, Reading(n))}

(* Results are of rows that exist, and the end of a row is on record. *)
Results == {acks[i].job : i \in DOMAIN acks} \cup {r.job : r \in runs}

RowsStand ==
  /\ \A j \in Results : jobs[j].status # "ABSENT"
  /\ \A j \in Job : Terminal(j) => jobs[j].status \in reached[j]

HandlesTrue == \A h \in Handle : Truthful(JobOf[h], handle[h])
KeptTrue    == \A c \in Client : \A j \in Job : Truthful(j, completed[c][j])
CacheTrue   == \A j \in Job : CacheHas(j) => cache[j].notice \in TrueNotice /\ cache[j].notice.job = j
StreamsTrue == \A c \in Client : conn[c].outbox \in Seq(TrueNotice)

AnswersTrue == HandlesTrue /\ KeptTrue /\ CacheTrue /\ StreamsTrue

TruthInv == ClientInv /\ RowsStand /\ AnswersTrue

(* Nothing that vouches for an answer is forgotten before the row does.     *)
Grows == \A j \in Job : (Vouched(j) => Vouched(j)') /\ (Failing(j) => Failing(j)')

LEMMA StillTrue ==
  ASSUME Grows
  PROVE  TrueNotice \subseteq TrueNotice'
<1> SUFFICES ASSUME NEW n \in TrueNotice PROVE n \in TrueNotice'
  OBVIOUS
<1>1. n \in Notice /\ n.job \in Job
  BY DEF TrueNotice, Notice
<1> QED BY <1>1 DEF TrueNotice, Truthful, Grows

(* What a step does not touch stays true. *)
LEMMA Undisturbed ==
  ASSUME AnswersTrue, Grows
  PROVE  /\ handle' = handle => HandlesTrue'
         /\ completed' = completed => KeptTrue'
         /\ cache' = cache => CacheTrue'
         /\ conn' = conn => StreamsTrue'
<1>1. TrueNotice \subseteq TrueNotice'
  BY StillTrue
<1>2. ASSUME handle' = handle PROVE HandlesTrue'
  <2>1. \A h \in Handle : JobOf[h] \in Job
    BY CompletionAssumption
  <2> QED BY <1>2, <2>1 DEF AnswersTrue, HandlesTrue, Truthful, Grows
<1>3. ASSUME completed' = completed PROVE KeptTrue'
  BY <1>3 DEF AnswersTrue, KeptTrue, Truthful, Grows
<1>4. ASSUME cache' = cache PROVE CacheTrue'
  BY <1>1, <1>4 DEF AnswersTrue, CacheTrue, CacheHas
<1>5. ASSUME conn' = conn PROVE StreamsTrue'
  <2>1. \A c \in Client : conn[c].outbox \in Seq(TrueNotice)
    BY DEF AnswersTrue, StreamsTrue
  <2>2. \A c \in Client : conn[c].outbox \in Seq(TrueNotice')
    BY <1>1, <2>1, SeqMonotonic
  <2> QED BY <1>5, <2>2 DEF StreamsTrue
<1> QED BY <1>2, <1>3, <1>4, <1>5

(* A step without results and ends of jobs. *)
LEMMA QuietGrows ==
  ASSUME UNCHANGED <<acks, lost, doubled, reached>>
  PROVE  Grows
BY DEF Grows, Vouched, Failing, Reported

(* Of the steps of one row only a cancellation ends it, and it stands.      *)
NoEnd(j) ==
  InsertJob(j) \/ BecomeDue(j) \/ ClaimAndFetchJobs({j}) \/ ResetStaleJob(j) \/ RetryJob(j)

LEMMA NoEndStands ==
  ASSUME StoreTypeOK, NEW j \in Job, NoEnd(j), NEW i \in Job
  PROVE  /\ jobs[i].status # "ABSENT" => jobs'[i].status # "ABSENT"
         /\ Terminal(i)' => jobs'[i].status = jobs[i].status
<1>1. jobs[j] \in Row /\ jobs[i] \in Row
  BY DEF StoreTypeOK
<1>2. CASE InsertJob(j)
  BY <1>1, <1>2 DEF InsertJob, StoreTypeOK, Row, Terminal
<1>3. CASE BecomeDue(j)
  BY <1>1, <1>3 DEF BecomeDue, StoreTypeOK, Row, Terminal
<1>4. CASE ClaimAndFetchJobs({j})
  <2>1. jobs'[i] = IF i = j THEN Claimed(jobs[j]) ELSE jobs[i]
    BY <1>4 DEF ClaimAndFetchJobs
  <2> QED BY <1>1, <2>1, DerivedRows DEF Terminal
<1>5. CASE ResetStaleJob(j)
  <2>1. jobs'[i] = IF i = j /\ Running(j) THEN Requeued(jobs[j]) ELSE jobs[i]
    BY <1>5 DEF ResetStaleJob, StoreTypeOK
  <2> QED BY <1>1, <2>1, DerivedRows DEF Terminal
<1>6. CASE RetryJob(j)
  BY <1>1, <1>6 DEF RetryJob, StoreTypeOK, Row, Terminal
<1> QED BY <1>2, <1>3, <1>4, <1>5, <1>6 DEF NoEnd

(* New results are of old ones' rows, or of rows that stand. *)
LEMMA StandingStep ==
  ASSUME RowsStand, Results \subseteq Job,
         \A i \in Job : jobs[i].status # "ABSENT" => jobs'[i].status # "ABSENT",
         \A i \in Job : Terminal(i)' =>
           jobs'[i].status \in reached'[i] \/ (jobs'[i].status = jobs[i].status /\ reached'[i] = reached[i]),
         \A i \in Results' : i \in Results \/ jobs'[i].status # "ABSENT"
  PROVE  RowsStand'
<1>1. \A j \in Results' : jobs'[j].status # "ABSENT"
  BY DEF RowsStand
<1>2. \A j \in Job : Terminal(j)' => jobs'[j].status \in reached'[j]
  BY DEF RowsStand, Terminal
<1> QED BY <1>1, <1>2 DEF RowsStand

LEMMA ResultsOfJobs ==
  ASSUME ClientInv
  PROVE  Results \subseteq Job
<1>1. acks \in Seq(Ack) /\ runs \in SUBSET Run
  BY DEF ClientInv, CompletionInv, ServerTypes
<1>2. \A i \in DOMAIN acks : acks[i] \in Ack
  BY <1>1
<1> QED BY <1>1, <1>2 DEF Results, Ack, Run
TruthKept == Grows /\ RowsStand' /\ AnswersTrue'

(* A step of one row, or of none, of which no caller hears. *)
LEMMA QuietStep ==
  ASSUME TruthInv, UNCHANGED <<acks, lost, doubled, reached>>,
         UNCHANGED storeVars \/ \E j \in Job : NoEnd(j),
         \A i \in Results' : i \in Results \/ jobs'[i].status # "ABSENT"
  PROVE  Grows /\ RowsStand'
<1>1. StoreTypeOK /\ Results \subseteq Job
  BY ResultsOfJobs DEF TruthInv, ClientInv, CompletionInv, ServerTypes
<1>2. ASSUME NEW i \in Job
      PROVE  /\ jobs[i].status # "ABSENT" => jobs'[i].status # "ABSENT"
             /\ Terminal(i)' => jobs'[i].status = jobs[i].status
  <2>1. CASE UNCHANGED storeVars
    BY <2>1 DEF storeVars
  <2>2. CASE \E j \in Job : NoEnd(j)
    BY <1>1, <2>2, NoEndStands
  <2> QED BY <2>1, <2>2
<1>3. RowsStand'
  BY <1>1, <1>2, StandingStep DEF TruthInv
<1> QED BY <1>3, QuietGrows

(* A worker that reports tells the truth to its own listeners: the success  *)
(* is in the queue.                                                         *)
LEMMA ReportTruth ==
  ASSUME TruthInv, NEW r \in runs, NEW o \in Outcome, Report(r, o)
  PROVE  TruthKept
<1> DEFINE a == [job |-> r.job, outcome |-> o]
<1>1. /\ acks' = Append(acks, a) /\ runs' = runs \ {r}
      /\ UNCHANGED storeVars /\ UNCHANGED <<cache, doubled, lost, conn, completed, reached>>
      /\ \/ o = "success" /\ Tell(Listening(r.client, r.job), "success")
         \/ handle' = handle
  BY DEF Report
<1>2. acks \in Seq(Ack) /\ r.job \in Job /\ a \in Ack
  <2>1. acks \in Seq(Ack) /\ runs \in SUBSET Run
    BY DEF TruthInv, ClientInv, CompletionInv, ServerTypes
  <2> QED BY <2>1 DEF Run, Ack
<1>3. a.job = r.job /\ a.outcome = o
  OBVIOUS
<1> HIDE DEF a
<1>4. /\ DOMAIN acks = 1..Len(acks) /\ DOMAIN acks' = 1..(Len(acks) + 1) /\ Len(acks) \in Nat
      /\ \A i \in 1..Len(acks) : acks'[i] = acks[i]
      /\ acks'[Len(acks) + 1] = a
  <2>1. Len(Append(acks, a)) = Len(acks) + 1 /\ Append(acks, a) \in Seq(Ack)
    BY <1>2, AppendProperties
  <2> QED BY <1>1, <1>2, <2>1, AppendProperties
<1>5. \A j \in Job : Reported(j) => Reported(j)'
  BY <1>4 DEF Reported
<1>6. Grows
  BY <1>1, <1>5 DEF Grows, Vouched, Failing
<1>7. RowsStand'
  <2>1. Results' \subseteq Results
    <3>1. r.job \in Results
      BY DEF Results
    <3>2. \A i \in DOMAIN acks' : acks'[i].job \in Results
      <4> SUFFICES ASSUME NEW i \in DOMAIN acks' PROVE acks'[i].job \in Results
        OBVIOUS
      <4>1. CASE i \in 1..Len(acks)
        BY <1>4, <4>1 DEF Results
      <4>2. CASE i \notin 1..Len(acks)
        <5>1. i = Len(acks) + 1
          BY <1>4, <4>2
        <5> QED BY <1>3, <1>4, <3>1, <5>1
      <4> QED BY <4>1, <4>2
    <3> QED BY <1>1, <3>2 DEF Results
  <2>2. jobs' = jobs
    BY <1>1 DEF storeVars
  <2> QED BY <1>1, <2>1, <2>2 DEF TruthInv, RowsStand, Terminal
<1>8. HandlesTrue'
  <2>1. CASE handle' = handle
    BY <1>6, <2>1, Undisturbed DEF TruthInv
  <2>2. CASE o = "success" /\ Tell(Listening(r.client, r.job), "success")
    <3>1. Vouched(r.job)'
      <4>1. a = [job |-> r.job, outcome |-> "success"]
        BY <2>2 DEF a
      <4>2. Len(acks) + 1 \in DOMAIN acks'
        BY <1>4
      <4> QED BY <1>4, <4>1, <4>2 DEF Vouched, Reported
    <3>2. ASSUME NEW h \in Handle PROVE Truthful(JobOf[h], handle[h])'
      <4>1. Truthful(JobOf[h], handle[h]) /\ JobOf[h] \in Job
        BY CompletionAssumption DEF TruthInv, AnswersTrue, HandlesTrue
      <4>2. CASE h \in Listening(r.client, r.job)
        <5>1. handle'[h] = "success" /\ JobOf[h] = r.job
          BY <2>2, <4>2 DEF Tell, Listening
        <5> QED BY <3>1, <5>1 DEF Truthful
      <4>3. CASE h \notin Listening(r.client, r.job)
        <5>1. handle'[h] = handle[h]
          BY <2>2, <4>3 DEF Tell
        <5> QED BY <1>6, <4>1, <5>1 DEF Truthful, Grows
      <4> QED BY <4>2, <4>3
    <3> QED BY <3>2 DEF HandlesTrue
  <2> QED BY <1>1, <2>1, <2>2
<1> QED BY <1>1, <1>6, <1>7, <1>8, Undisturbed DEF TruthInv, TruthKept, AnswersTrue

LEMMA LifeTruth ==
  ASSUME TruthInv, Life
  PROVE  TruthKept
<1>1. ASSUME NEW j \in Job, NEW c \in Client, Claim(j, c) PROVE TruthKept
  <2>1. /\ UNCHANGED <<acks, lost, doubled, reached>> /\ NoEnd(j)
        /\ UNCHANGED <<cache, conn, completed, handle>>
        /\ runs' = runs \cup {[job |-> j, attempt |-> jobs[j].attempt + 1, client |-> c]}
    BY <1>1 DEF Claim, serverVars, clientVars, NoEnd
  <2>2. jobs'[j].status # "ABSENT"
    <3>1. jobs'[j] = Claimed(jobs[j])
      BY <1>1 DEF Claim, ClaimAndFetchJobs
    <3> QED BY <3>1 DEF Claimed
  <2>3. \A i \in Results' : i \in Results \/ jobs'[i].status # "ABSENT"
    BY <2>1, <2>2 DEF Results
  <2> QED BY <2>1, <2>3, QuietStep, Undisturbed DEF TruthInv, TruthKept, AnswersTrue
<1>2. ASSUME NEW j \in Job, Elapse(j) \/ TakeBack(j) \/ Retry(j) PROVE TruthKept
  <2>1. /\ UNCHANGED <<acks, lost, doubled, reached>> /\ NoEnd(j) /\ runs' = runs
        /\ UNCHANGED <<cache, conn, completed, handle>>
    BY <1>2 DEF Elapse, TakeBack, Retry, serverVars, clientVars, NoEnd
  <2>2. Results' = Results
    BY <2>1 DEF Results
  <2> QED BY <2>1, <2>2, QuietStep, Undisturbed DEF TruthInv, TruthKept, AnswersTrue
<1>3. ASSUME NEW j \in Job, Cancel(j) PROVE TruthKept
  <2>1. /\ CancelJob(j) /\ Observe
        /\ UNCHANGED <<acks, lost, doubled, runs, cache, conn, completed, handle>>
    BY <1>3 DEF Cancel, serverVars, clientVars
  <2>2. Grows
    BY <2>1 DEF Grows, Vouched, Failing, Reported, Observe
  <2>3. Results' = Results /\ Results \subseteq Job
    BY <2>1, ResultsOfJobs DEF Results, TruthInv
  <2>4. \A i \in Job : jobs[i].status # "ABSENT" => jobs'[i].status # "ABSENT"
    BY <2>1 DEF CancelJob, TruthInv, ClientInv, CompletionInv, ServerTypes, StoreTypeOK, Row
  <2>5. \A i \in Job : Terminal(i)' => jobs'[i].status \in reached'[i]
    BY <2>1 DEF Observe, Terminal
  <2>6. RowsStand'
    BY <2>3, <2>4, <2>5, StandingStep DEF TruthInv
  <2> QED BY <2>1, <2>2, <2>6, Undisturbed DEF TruthInv, TruthKept, AnswersTrue
<1> QED BY <1>1, <1>2, <1>3, ReportTruth DEF Life
(* Results that leave the queue: what stays of it, and where it was. *)
LEMMA QueueLeft ==
  ASSUME ServerTypes, NEW n \in 1..BatchMax, n <= Len(acks),
         acks' = SubSeq(acks, n + 1, Len(acks))
  PROVE  /\ \A i \in DOMAIN acks' : \E k \in DOMAIN acks : acks'[i] = acks[k]
         /\ \A k \in DOMAIN acks : k \in 1..n \/ \E i \in DOMAIN acks' : acks'[i] = acks[k]
<1> DEFINE L == Len(acks)
<1>1. n \in Nat /\ n >= 1 /\ L \in Nat /\ n <= L /\ DOMAIN acks = 1..L
  BY StoreAssumption DEF ServerTypes
<1>2. \A i \in (n + 1)..L : acks[i] \in Ack
  BY <1>1 DEF ServerTypes
<1>3. acks \in Seq(Ack) /\ acks' = SubSeq(acks, n + 1, L)
  BY DEF ServerTypes
<1> HIDE DEF L
<1>4. /\ DOMAIN acks' = 1..(L - n)
      /\ \A i \in 1..(L - n) : acks'[i] = acks[n + i]
  <2>1. /\ SubSeq(acks, n + 1, L) \in Seq(Ack)
        /\ Len(SubSeq(acks, n + 1, L)) = IF n + 1 <= L THEN L - (n + 1) + 1 ELSE 0
        /\ \A i \in 1..(L - (n + 1) + 1) : SubSeq(acks, n + 1, L)[i] = acks[n + 1 + i - 1]
    BY <1>1, <1>2, <1>3, SubSeqProperties
  <2>2. Len(SubSeq(acks, n + 1, L)) = L - n
    BY <1>1, <2>1
  <2>3. \A i \in 1..(L - n) : n + 1 + i - 1 = n + i /\ L - (n + 1) + 1 = L - n
    BY <1>1
  <2> QED BY <1>3, <2>1, <2>2, <2>3
<1>5. ASSUME NEW i \in DOMAIN acks' PROVE n + i \in DOMAIN acks /\ acks'[i] = acks[n + i]
  BY <1>1, <1>4
<1>6. ASSUME NEW k \in DOMAIN acks, k \notin 1..n
      PROVE  k - n \in DOMAIN acks' /\ acks'[k - n] = acks[k]
  <2>1. k - n \in 1..(L - n) /\ n + (k - n) = k
    BY <1>1, <1>6
  <2> QED BY <1>4, <2>1
<1> QED BY <1>5, <1>6

LEMMA CommitFailsTruth ==
  ASSUME TruthInv, NEW n \in 1..BatchMax, CommitFails(n)
  PROVE  TruthKept
<1>1. /\ n <= Len(acks) /\ acks' = SubSeq(acks, n + 1, Len(acks))
      /\ lost' = lost \cup {acks[i].job : i \in 1..n}
      /\ UNCHANGED storeVars /\ UNCHANGED <<runs, cache, doubled, conn, completed, handle, reached>>
  BY DEF CommitFails, clientVars
<1>2. /\ \A i \in DOMAIN acks' : \E k \in DOMAIN acks : acks'[i] = acks[k]
      /\ \A k \in DOMAIN acks : k \in 1..n \/ \E i \in DOMAIN acks' : acks'[i] = acks[k]
  BY <1>1, QueueLeft DEF TruthInv, ClientInv, CompletionInv
<1>3. ASSUME NEW j \in Job, Reported(j) PROVE Reported(j)' \/ j \in lost'
  <2>1. PICK k \in DOMAIN acks : acks[k] = [job |-> j, outcome |-> "success"]
    BY <1>3 DEF Reported
  <2>2. CASE k \in 1..n
    <3>1. acks[k].job = j
      BY <2>1
    <3> QED BY <1>1, <2>2, <3>1
  <2>3. CASE \E i \in DOMAIN acks' : acks'[i] = acks[k]
    BY <2>1, <2>3 DEF Reported
  <2> QED BY <1>2, <2>2, <2>3
<1>4. Grows
  BY <1>1, <1>3 DEF Grows, Vouched, Failing
<1>5. RowsStand'
  <2>1. Results' \subseteq Results
    BY <1>1, <1>2 DEF Results
  <2> QED BY <1>1, <2>1 DEF TruthInv, RowsStand, Terminal, storeVars
<1> QED BY <1>1, <1>4, <1>5, Undisturbed DEF TruthInv, TruthKept, AnswersTrue

LEMMA ExpireTruth ==
  ASSUME TruthInv, NEW j \in Job, Expire(j)
  PROVE  TruthKept
<1>1. /\ cache' = [cache EXCEPT ![j].old = TRUE] /\ cache[j] # NoNotice
      /\ UNCHANGED storeVars /\ UNCHANGED <<acks, lost, doubled, reached, runs, conn, completed, handle>>
  BY DEF Expire, clientVars
<1>2. Results' = Results
  BY <1>1 DEF Results
<1>3. Grows /\ RowsStand'
  BY <1>1, <1>2, QuietStep
<1>4. CacheTrue'
  <2>1. TrueNotice \subseteq TrueNotice' /\ CacheTrue
    BY <1>3, StillTrue DEF TruthInv, AnswersTrue
  <2>2. cache \in [Job -> Cached \cup {NoNotice}]
    BY DEF TruthInv, ClientInv, CompletionInv, ServerTypes
  <2>3. cache[j] \in Cached
    BY <1>1, <2>2
  <2>4. \A i \in Job : i # j => cache'[i] = cache[i]
    BY <1>1, <2>2
  <2>5. cache'[j].notice = cache[j].notice
    BY <1>1, <2>2, <2>3 DEF Cached
  <2> QED BY <1>1, <2>1, <2>4, <2>5 DEF CacheTrue, CacheHas
<1> QED BY <1>1, <1>3, <1>4, Undisturbed DEF TruthInv, TruthKept, AnswersTrue

(* A request hands over notices that are true. *)
LEMMA SubscribeTruth ==
  ASSUME TruthInv, NEW c \in Client, Subscribe(c)
  PROVE  TruthKept
<1> DEFINE hit == {j \in Head(conn[c].inbox) : cache[j] # NoNotice}
<1>1. /\ cache' = [j \in Job |-> IF j \in hit THEN NoNotice ELSE cache[j]]
      /\ UNCHANGED storeVars /\ UNCHANGED <<acks, lost, doubled, reached, runs, completed, handle>>
  BY DEF Subscribe
<1> HIDE DEF hit
<1>2. Results' = Results
  BY <1>1 DEF Results
<1>3. Grows /\ RowsStand'
  BY <1>1, <1>2, QuietStep
<1>4. TrueNotice \subseteq TrueNotice' /\ CacheTrue /\ StreamsTrue
  BY <1>3, StillTrue DEF TruthInv, AnswersTrue
<1>5. CacheTrue'
  BY <1>1, <1>4 DEF CacheTrue, CacheHas
<1>6. StreamsTrue'
  <2>1. PICK ns \in Seq(CachedNotices) : conn' = [conn EXCEPT ![c] = Served(c, ns)]
    BY SubscribeSends DEF TruthInv
  <2>2. CachedNotices \subseteq TrueNotice
    BY <1>4 DEF CacheTrue, CachedNotices
  <2>3. ns \in Seq(TrueNotice)
    BY <2>1, <2>2, SeqMonotonic
  <2>4. ASSUME NEW d \in Client PROVE conn'[d].outbox \in Seq(TrueNotice)
    <3>1. conn[d].outbox \in Seq(TrueNotice)
      BY <1>4 DEF StreamsTrue
    <3>2. conn[c].outbox \o ns \in Seq(TrueNotice)
      <4>1. conn[c].outbox \in Seq(TrueNotice)
        BY <1>4 DEF StreamsTrue
      <4> QED BY <2>3, <4>1, ConcatProperties
    <3>3. conn \in [Client -> Connection]
      BY DEF TruthInv, ClientInv, ClientTypes, StreamTypes
    <3>4. d # c => conn'[d] = conn[d]
      BY <2>1, <3>3
    <3>5. conn'[c] = Served(c, ns)
      BY <2>1, <3>3
    <3>6. Served(c, ns).outbox \in Seq(TrueNotice)
      <4>1. conn[c].outbox \in Seq(TrueNotice)
        BY <1>4 DEF StreamsTrue
      <4> QED BY <3>2, <4>1 DEF Served
    <3> QED BY <3>1, <3>4, <3>5, <3>6
  <2>5. \A d \in Client : conn'[d].outbox \in Seq(TrueNotice')
    BY <1>4, <2>4, SeqMonotonic
  <2> QED BY <2>5 DEF StreamsTrue
<1> QED BY <1>1, <1>3, <1>5, <1>6, Undisturbed DEF TruthInv, TruthKept, AnswersTrue

LEMMA CrashTruth ==
  ASSUME TruthInv, CrashRestart
  PROVE  TruthKept
<1>1. PICK stale \in SUBSET {j \in Job : Running(j)} : RecoverStaleJobs(stale)
  BY DEF CrashRestart
<1>2. /\ Observe /\ acks' = <<>> /\ runs' = runs /\ doubled' = doubled /\ completed' = completed
      /\ cache' = [j \in Job |-> NoNotice]
      /\ lost' = lost \cup {acks[i].job : i \in DOMAIN acks}
      /\ conn' = [c \in Client |-> [up |-> FALSE, inbox |-> <<>>, outbox |-> <<>>]]
      /\ handle' = [h \in Handle |-> IF handle[h] = "asked" THEN "new" ELSE handle[h]]
  BY DEF CrashRestart
<1>3. ASSUME NEW j \in Job, Reported(j) PROVE j \in lost'
  <2>1. PICK k \in DOMAIN acks : acks[k] = [job |-> j, outcome |-> "success"]
    BY <1>3 DEF Reported
  <2>2. acks[k].job = j
    BY <2>1
  <2> QED BY <1>2, <2>2
<1>4. Grows
  BY <1>2, <1>3 DEF Grows, Vouched, Failing, Observe
<1>5. RowsStand'
  <2>1. Results' \subseteq Results
    BY <1>2 DEF Results
  <2>2. Results \subseteq Job
    BY ResultsOfJobs DEF TruthInv
  <2>3. ASSUME NEW i \in Job, jobs[i].status # "ABSENT" PROVE jobs'[i].status # "ABSENT"
    <3>1. jobs[i] \in Row
      BY DEF TruthInv, ClientInv, CompletionInv, ServerTypes, StoreTypeOK
    <3>2. jobs'[i] = IF i \notin stale THEN jobs[i]
                     ELSE IF jobs[i].attempt < MaxAttempts[i] THEN Requeued(jobs[i])
                     ELSE [jobs[i] EXCEPT !.status = "DEAD"]
      BY <1>1 DEF RecoverStaleJobs
    <3>3. Requeued(jobs[i]).status = "PENDING"
      BY <3>1, DerivedRows
    <3>4. [jobs[i] EXCEPT !.status = "DEAD"].status = "DEAD"
      BY <3>1 DEF Row
    <3> QED BY <2>3, <3>2, <3>3, <3>4
  <2>4. \A i \in Job : Terminal(i)' => jobs'[i].status \in reached'[i]
    BY <1>2 DEF Observe, Terminal
  <2> QED BY <2>1, <2>2, <2>3, <2>4, StandingStep DEF TruthInv
<1>6. HandlesTrue'
  <2>1. ASSUME NEW h \in Handle PROVE Truthful(JobOf[h], handle[h])'
    <3>1. Truthful(JobOf[h], handle[h]) /\ JobOf[h] \in Job
      BY CompletionAssumption DEF TruthInv, AnswersTrue, HandlesTrue
    <3>2. handle'[h] = handle[h] \/ handle'[h] = "new"
      BY <1>2
    <3> QED BY <1>4, <3>1, <3>2 DEF Truthful, Grows
  <2> QED BY <2>1 DEF HandlesTrue
<1>7. CacheTrue'
  BY <1>2 DEF CacheTrue, CacheHas
<1>8. StreamsTrue'
  <2>1. \A c \in Client : conn'[c].outbox = <<>>
    BY <1>2
  <2>2. <<>> \in Seq(TrueNotice')
    OBVIOUS
  <2> QED BY <2>1, <2>2 DEF StreamsTrue
<1> QED BY <1>2, <1>4, <1>5, <1>6, <1>7, <1>8, Undisturbed DEF TruthInv, TruthKept, AnswersTrue
(* Two results of a job in one batch are on record. *)
LEMMA TwiceMeans ==
  ASSUME NEW n \in Nat, NEW batch, DOMAIN batch = 1..n, NEW j \in Job,
         NEW i \in 1..n, NEW k \in 1..n, i # k, batch[i].job = j, batch[k].job = j
  PROVE  j \in Twice(batch)
<1> DEFINE S == {m \in DOMAIN batch : batch[m].job = j}
<1>1. IsFiniteSet(1..n)
  BY FS_Interval
<1>2. S \subseteq 1..n /\ {i, k} \subseteq S
  OBVIOUS
<1> HIDE DEF S
<1>3. IsFiniteSet(S)
  BY <1>1, <1>2, FS_Subset
<1>4. IsFiniteSet({i, k}) /\ Cardinality({i, k}) = 2
  <2>1. IsFiniteSet({i}) /\ Cardinality({i}) = 1
    BY FS_Singleton
  <2>2. IsFiniteSet({i} \cup {k}) /\ Cardinality({i} \cup {k}) = Cardinality({i}) + 1
    BY <2>1, FS_AddElement
  <2>3. {i} \cup {k} = {i, k}
    OBVIOUS
  <2>4. IsFiniteSet({i, k}) /\ Cardinality({i, k}) = Cardinality({i}) + 1
    BY <2>2, <2>3, Zenon
  <2> HIDE DEF S
  <2>5. Cardinality({i}) + 1 = 2
    BY <2>1
  <2> QED BY <2>4, <2>5, Zenon
<1>5. Cardinality({i, k}) <= Cardinality(S) /\ Cardinality(S) \in Nat
  BY <1>2, <1>3, FS_Subset, FS_CardinalityType
<1>6. Cardinality(S) > 1
  BY <1>4, <1>5
<1> QED BY <1>6 DEF Twice, S

(* What one result of a batch leads to, if it is the only one of its job.   *)
LEMMA OnlyResult ==
  ASSUME StoreTypeOK, NEW n \in Nat, NEW batch \in Seq(Ack), DOMAIN batch = 1..n,
         UpdateJobResults(batch), Observe, doubled' = doubled \cup Twice(batch),
         NEW i \in 1..n, jobs[batch[i].job].status # "ABSENT", batch[i].job \notin doubled'
  PROVE  /\ LastOutcome(batch, batch[i].job) = batch[i].outcome
         /\ batch[i].outcome = "success" => StatusAfter(batch[i]) = "SUCCESS"
         /\ batch[i].outcome # "success" => StatusAfter(batch[i]) # "SUCCESS"
         /\ StatusAfter(batch[i]) \in {"SUCCESS", "DEAD"} =>
              StatusAfter(batch[i]) \in reached'[batch[i].job]
<1> DEFINE j == batch[i].job
<1>1. j \in Job
  <2>1. batch[i] \in Ack
    OBVIOUS
  <2> QED BY <2>1 DEF Ack
<1>2. InBatch(batch, j)
  BY DEF InBatch
<1>3. PICK k \in DOMAIN batch : batch[k].job = j /\ LastOutcome(batch, j) = batch[k].outcome
  <2> HIDE DEF j
  <2> QED BY <1>2, LastResult
<1>4. k = i
  BY <1>1, <1>3, TwiceMeans
<1>5. jobs'[j].status = StatusAfter(batch[i])
  BY <1>1, <1>2, <1>3, <1>4 DEF UpdateJobResults, StatusAfter
<1>6. jobs[j] \in Row
  BY <1>1 DEF StoreTypeOK
<1>7. batch[i].outcome = "success" => StatusAfter(batch[i]) = "SUCCESS"
  BY <1>6 DEF StatusAfter, Acknowledged, Row
<1>8. batch[i].outcome # "success" => StatusAfter(batch[i]) # "SUCCESS"
  BY <1>6 DEF StatusAfter, Acknowledged, Row
<1>9. StatusAfter(batch[i]) \in {"SUCCESS", "DEAD"} => StatusAfter(batch[i]) \in reached'[j]
  BY <1>1, <1>5 DEF Observe
<1> QED BY <1>3, <1>4, <1>7, <1>8, <1>9

(* What a batch announces is true of the rows it leaves. *)
LEMMA CommitTells ==
  ASSUME StoreTypeOK, NEW n \in Nat, NEW batch \in Seq(Ack), DOMAIN batch = 1..n,
         UpdateJobResults(batch), Observe, doubled' = doubled \cup Twice(batch),
         NEW i \in 1..n, jobs[batch[i].job].status # "ABSENT",
         i \in Announced(batch, batch[i].job)
  PROVE  NoticeOf(batch, i) \in TrueNotice'
<1> DEFINE j == batch[i].job
           notice == NoticeOf(batch, i)
           s == StatusAfter(batch[i])
<1> SUFFICES notice \in TrueNotice'
  OBVIOUS
<1>1. notice \in Notice /\ notice.job = j
  BY NoticeType
<1>2. /\ s \in {"SUCCESS", "DEAD"} /\ notice.status = s
      /\ notice.bytes = (LastOutcome(batch, j) = "success")
  BY DEF Announced, NoticeOf
<1>3. Reading(notice) \in {"success", "failed"}
  BY DEF Reading
<1>4. CASE j \in doubled'
  <2> HIDE DEF notice, j
  <2> QED BY <1>1, <1>4 DEF TrueNotice, Truthful, Vouched, Failing
<1>5. CASE j \notin doubled'
  <2>1. /\ LastOutcome(batch, j) = batch[i].outcome
        /\ batch[i].outcome = "success" => s = "SUCCESS"
        /\ batch[i].outcome # "success" => s # "SUCCESS"
        /\ s \in {"SUCCESS", "DEAD"} => s \in reached'[j]
    BY <1>5, OnlyResult
  <2>2. CASE batch[i].outcome = "success"
    <3>1. s = "SUCCESS" /\ "SUCCESS" \in reached'[j] /\ notice.status # "DEAD"
      BY <1>2, <2>1, <2>2
    <3> HIDE DEF s, notice, j
    <3>2. Reading(notice) = "success"
      BY <3>1 DEF Reading
    <3> QED BY <1>1, <3>1, <3>2 DEF TrueNotice, Truthful, Vouched
  <2>3. CASE batch[i].outcome # "success"
    <3>1. s = "DEAD" /\ "DEAD" \in reached'[j] /\ ~notice.bytes /\ notice.status = "DEAD"
      BY <1>2, <2>1, <2>3
    <3> HIDE DEF s, notice, j
    <3>2. Reading(notice) = "failed"
      BY <3>1 DEF Reading
    <3> QED BY <1>1, <3>1, <3>2 DEF TrueNotice, Truthful, Failing
  <2> QED BY <2>2, <2>3
<1> QED BY <1>4, <1>5
LEMMA CommitTruth ==
  ASSUME TruthInv, NEW n \in 1..BatchMax, CommitBatch(n)
  PROVE  TruthKept
<1> DEFINE batch == SubSeq(acks, 1, n)
<1>1. /\ n <= Len(acks) /\ UpdateJobResults(batch) /\ Observe
      /\ acks' = SubSeq(acks, n + 1, Len(acks))
      /\ conn' = [c \in Client |->
                    IF conn[c].up THEN [conn[c] EXCEPT !.outbox = @ \o SentTo(batch, c)]
                    ELSE conn[c]]
      /\ cache' = [j \in Job |-> CacheAfter(batch, j)]
      /\ doubled' = doubled \cup Twice(batch)
      /\ UNCHANGED <<runs, lost, completed, handle>>
  BY DEF CommitBatch
<1>2. ServerTypes /\ StoreTypeOK /\ StreamTypes /\ RowsStand /\ CacheTrue /\ StreamsTrue
  BY DEF TruthInv, ClientInv, CompletionInv, ServerTypes, ClientTypes, AnswersTrue
<1>3. /\ n \in Nat /\ batch \in Seq(Ack) /\ DOMAIN batch = 1..n
      /\ n <= Len(acks) /\ acks \in Seq(Ack)
  BY <1>1, <1>2, BatchParts, StoreAssumption DEF ServerTypes
<1>4. \A i \in 1..n : i \in DOMAIN acks /\ batch[i] = acks[i]
  BY <1>3
<1> HIDE DEF batch
<1>5. ASSUME NEW i \in 1..n PROVE batch[i].job \in Job /\ jobs[batch[i].job].status # "ABSENT"
  <2>1. batch[i] \in Ack
    BY <1>3
  <2>2. batch[i].job \in Results
    BY <1>4 DEF Results
  <2> QED BY <1>2, <2>1, <2>2 DEF RowsStand, Ack
<1>6. /\ \A i \in DOMAIN acks' : \E k \in DOMAIN acks : acks'[i] = acks[k]
      /\ \A k \in DOMAIN acks : k \in 1..n \/ \E i \in DOMAIN acks' : acks'[i] = acks[k]
  BY <1>1, <1>2, QueueLeft
<1>7. ASSUME NEW j \in Job, Reported(j)
      PROVE  Reported(j)' \/ "SUCCESS" \in reached'[j] \/ j \in doubled'
  <2>1. PICK k \in DOMAIN acks : acks[k] = [job |-> j, outcome |-> "success"]
    BY <1>7 DEF Reported
  <2>2. CASE k \in 1..n
    <3>1. batch[k].job = j /\ batch[k].outcome = "success" /\ jobs[j].status # "ABSENT"
      BY <1>4, <1>5, <2>1, <2>2
    <3>2. CASE j \notin doubled'
      <4>1. StatusAfter(batch[k]) = "SUCCESS" /\ StatusAfter(batch[k]) \in reached'[j]
        BY <1>1, <1>2, <1>3, <2>2, <3>1, <3>2, OnlyResult
      <4> QED BY <4>1
    <3> QED BY <3>2
  <2>3. CASE \E i \in DOMAIN acks' : acks'[i] = acks[k]
    BY <2>1, <2>3 DEF Reported
  <2> QED BY <1>6, <2>2, <2>3
<1>8. Grows
  <2>1. \A j \in Job : reached[j] \subseteq reached'[j]
    BY <1>1 DEF Observe
  <2> QED BY <1>1, <1>7, <2>1 DEF Grows, Vouched, Failing
<1>9. RowsStand'
  <2>1. Results' \subseteq Results
    BY <1>1, <1>6 DEF Results
  <2>2. Results \subseteq Job
    BY ResultsOfJobs DEF TruthInv
  <2>3. ASSUME NEW i \in Job, jobs[i].status # "ABSENT" PROVE jobs'[i].status # "ABSENT"
    <3>1. jobs[i] \in Row /\ MaxAttempts[i] \in Nat
      BY <1>2, StoreAssumption DEF StoreTypeOK
    <3>2. Acknowledged(jobs[i], MaxAttempts[i], LastOutcome(batch, i)).status \in {"SUCCESS", "PENDING", "DEAD"}
      BY <3>1, AcknowledgedRow
    <3> QED BY <1>1, <2>3, <3>2 DEF UpdateJobResults
  <2>4. \A i \in Job : Terminal(i)' => jobs'[i].status \in reached'[i]
    BY <1>1 DEF Observe, Terminal
  <2> QED BY <1>2, <2>1, <2>2, <2>3, <2>4, StandingStep
<1>10. \A i \in 1..n : i \in Announced(batch, batch[i].job) => NoticeOf(batch, i) \in TrueNotice'
  BY <1>1, <1>2, <1>3, <1>5, CommitTells
<1>11. TrueNotice \subseteq TrueNotice'
  BY <1>8, StillTrue
<1>12. CacheTrue'
  <2>1. ASSUME NEW j \in Job, CacheHas(j)'
        PROVE  cache'[j].notice \in TrueNotice' /\ cache'[j].notice.job = j
    <3>1. cache'[j] = CacheAfter(batch, j)
      BY <1>1
    <3>2. CASE CachedFor(batch, j) = {}
      <4>1. cache'[j] = cache[j] /\ CacheHas(j)
        BY <2>1, <3>1, <3>2 DEF CacheAfter, Retained, CacheHas
      <4> QED BY <1>2, <1>11, <4>1 DEF CacheTrue
    <3>3. CASE CachedFor(batch, j) # {}
      <4> DEFINE C == CachedFor(batch, j)
                 i == LastOf(C)
      <4>1. C \subseteq 1..n
        BY <1>3 DEF CachedFor, Announced
      <4>2. i \in C
        <5> HIDE DEF C
        <5> QED BY <1>3, <3>3, <4>1, Ends DEF C
      <4>3. i \in 1..n /\ batch[i].job = j /\ i \in Announced(batch, j)
        BY <4>1, <4>2 DEF CachedFor, Announced
      <4>4. NoticeOf(batch, i) \in TrueNotice' /\ NoticeOf(batch, i).job = j
        BY <1>3, <1>10, <4>3, NoticeType
      <4>5. cache'[j].notice = NoticeOf(batch, i)
        BY <3>1, <3>3 DEF CacheAfter
      <4> HIDE DEF C, i
      <4> QED BY <4>4, <4>5
    <3> QED BY <3>2, <3>3
  <2> QED BY <2>1 DEF CacheTrue
<1>13. StreamsTrue'
  <2>1. ASSUME NEW c \in Client PROVE conn'[c].outbox \in Seq(TrueNotice')
    <3>1. conn[c] \in Connection
      BY <1>2 DEF StreamTypes
    <3>2. conn[c].outbox \in Seq(TrueNotice')
      BY <1>2, <1>11, SeqMonotonic DEF StreamsTrue
    <3>3. SentTo(batch, c) \in Seq(TrueNotice')
      BY <1>2, <1>3, <1>10, SentAre DEF StreamTypes
    <3> DEFINE q == conn[c].outbox \o SentTo(batch, c)
    <3>4. q \in Seq(TrueNotice')
      BY <3>2, <3>3, ConcatProperties
    <3>5. conn'[c] = IF conn[c].up THEN [conn[c] EXCEPT !.outbox = q] ELSE conn[c]
      BY <1>1
    <3> HIDE DEF q
    <3>6. [conn[c] EXCEPT !.outbox = q].outbox = q
      BY <3>1 DEF Connection
    <3> QED BY <3>2, <3>4, <3>5, <3>6
  <2> QED BY <2>1 DEF StreamsTrue
<1>14. AnswersTrue'
  BY <1>1, <1>8, <1>12, <1>13, Undisturbed DEF TruthInv, AnswersTrue
<1> QED BY <1>8, <1>9, <1>14 DEF TruthKept

(* The steps of a caller leave rows and results alone, but for an insert.   *)
LEMMA CallerStep ==
  ASSUME TruthInv, Clients
  PROVE  Grows /\ RowsStand' /\ CacheTrue'
<1>1. /\ UNCHANGED <<acks, lost, doubled, reached, runs, cache>>
      /\ UNCHANGED storeVars \/ \E h \in Handle : InsertJob(JobOf[h])
  BY DEF Clients, Enqueue, Enqueued, ResultNode, ResultRust, Timeout, Poll, Receive, Break, Reopen,
         serverVars
<1>2. UNCHANGED storeVars \/ \E j \in Job : NoEnd(j)
  BY <1>1, CompletionAssumption DEF NoEnd
<1>3. Results' = Results
  BY <1>1 DEF Results
<1>4. Grows /\ RowsStand'
  BY <1>1, <1>2, <1>3, QuietStep
<1> QED BY <1>1, <1>4, Undisturbed DEF TruthInv

(* A handle that hears nothing, or what has been kept for it. *)
LEMMA HandleTruth ==
  ASSUME TruthInv, Grows,
         handle' \in [Handle -> {"new", "asked", "idle", "waiting", "superseded"} \cup Answer],
         \A g \in Handle :
           \/ handle'[g] = handle[g]
           \/ handle'[g] \notin Answer
           \/ Truthful(JobOf[g], handle'[g])
  PROVE  HandlesTrue'
<1>1. ASSUME NEW g \in Handle PROVE Truthful(JobOf[g], handle[g])'
  <2>1. Truthful(JobOf[g], handle[g]) /\ JobOf[g] \in Job
    BY CompletionAssumption DEF TruthInv, AnswersTrue, HandlesTrue
  <2> QED BY <2>1 DEF Truthful, Grows, Answer
<1> QED BY <1>1 DEF HandlesTrue
LEMMA HandleStepTruth ==
  ASSUME TruthInv, ClientInv', NEW h \in Handle,
         Enqueue(h) \/ ResultNode(h) \/ ResultRust(h) \/ Timeout(h) \/ Poll(h) \/ Enqueued(h)
  PROVE  TruthKept
<1>1. Grows /\ RowsStand' /\ CacheTrue'
  BY CallerStep DEF Clients
<1>2. handle' \in [Handle -> {"new", "asked", "idle", "waiting", "superseded"} \cup Answer]
  BY DEF ClientInv, ClientTypes, HandleType
<1>3. handle \in [Handle -> {"new", "asked", "idle", "waiting", "superseded"} \cup Answer]
  BY DEF TruthInv, ClientInv, ClientTypes, HandleType
<1>4. ClientOf[h] \in Client /\ JobOf[h] \in Job
  BY CompletionAssumption
<1>5. KeptTrue /\ completed \in [Client -> [Job -> Answer \cup {"none"}]]
  BY DEF TruthInv, AnswersTrue, ClientInv, ClientTypes, StreamTypes
<1>6. ASSUME Enqueue(h) \/ Enqueued(h) \/ ResultRust(h) \/ Timeout(h)
      PROVE  HandlesTrue' /\ KeptTrue'
  <2>1. completed' = completed
    BY <1>6 DEF Enqueue, Enqueued, ResultRust, Timeout
  <2>2. \A g \in Handle : handle'[g] = handle[g] \/ handle'[g] \notin Answer
    BY <1>3, <1>6 DEF Enqueue, Enqueued, ResultRust, Timeout, Answer
  <2> QED BY <1>1, <1>2, <2>1, <2>2, HandleTruth, Undisturbed DEF TruthInv
<1>7. ASSUME ResultNode(h) PROVE HandlesTrue' /\ KeptTrue'
  <2>1. /\ handle' = [handle EXCEPT ![h] = IF completed[ClientOf[h]][JobOf[h]] = "none" THEN "waiting"
                                           ELSE completed[ClientOf[h]][JobOf[h]]]
        /\ completed' = [completed EXCEPT ![ClientOf[h]][JobOf[h]] = "none"]
    BY <1>7 DEF ResultNode
  <2>2. Truthful(JobOf[h], completed[ClientOf[h]][JobOf[h]])
    BY <1>4, <1>5 DEF KeptTrue
  <2>3. \A g \in Handle :
          \/ handle'[g] = handle[g] \/ handle'[g] \notin Answer \/ Truthful(JobOf[g], handle'[g])
    <3> SUFFICES ASSUME NEW g \in Handle, handle'[g] # handle[g], handle'[g] \in Answer
                 PROVE  Truthful(JobOf[g], handle'[g])
      OBVIOUS
    <3>1. g = h /\ handle'[h] = completed[ClientOf[h]][JobOf[h]]
      BY <1>3, <2>1 DEF Answer
    <3> QED BY <2>2, <3>1
  <2>4. HandlesTrue'
    BY <1>1, <1>2, <2>3, HandleTruth
  <2>5. ASSUME NEW c \in Client, NEW j \in Job PROVE Truthful(j, completed[c][j])'
    <3>1. completed'[c][j] = completed[c][j] \/ completed'[c][j] = "none"
      BY <1>4, <1>5, <2>1
    <3>2. Truthful(j, completed[c][j])
      BY <1>5 DEF KeptTrue
    <3> QED BY <1>1, <3>1, <3>2 DEF Truthful, Grows
  <2> QED BY <2>4, <2>5 DEF KeptTrue
<1>8. ASSUME Poll(h) PROVE HandlesTrue' /\ KeptTrue'
  <2>1. /\ Terminal(JobOf[h]) /\ completed' = completed
        /\ Tell({h}, IF jobs[JobOf[h]].status = "SUCCESS" THEN "success" ELSE "failed")
    BY <1>8 DEF Poll
  <2>2. jobs[JobOf[h]].status \in reached[JobOf[h]]
    BY <1>4, <2>1 DEF TruthInv, RowsStand
  <2>3. Truthful(JobOf[h], IF jobs[JobOf[h]].status = "SUCCESS" THEN "success" ELSE "failed")
    BY <2>1, <2>2 DEF Terminal, Truthful, Vouched, Failing
  <2>4. \A g \in Handle :
          \/ handle'[g] = handle[g] \/ handle'[g] \notin Answer \/ Truthful(JobOf[g], handle'[g])
    <3> SUFFICES ASSUME NEW g \in Handle, handle'[g] # handle[g] PROVE Truthful(JobOf[g], handle'[g])
      OBVIOUS
    <3>1. g = h /\ handle'[h] = IF jobs[JobOf[h]].status = "SUCCESS" THEN "success" ELSE "failed"
      BY <1>3, <2>1 DEF Tell
    <3> QED BY <2>3, <3>1
  <2> QED BY <1>1, <1>2, <2>1, <2>4, HandleTruth, Undisturbed DEF TruthInv
<1>9. conn' = conn \/ Enqueued(h)
  BY DEF Enqueue, ResultNode, ResultRust, Timeout, Poll
<1>10. StreamsTrue'
  <2>1. CASE conn' = conn
    BY <1>1, <2>1, Undisturbed DEF TruthInv
  <2>2. CASE Enqueued(h)
    <3>1. conn \in [Client -> Connection]
      BY DEF TruthInv, ClientInv, ClientTypes, StreamTypes
    <3>2. \A c \in Client : conn'[c].outbox = conn[c].outbox
      <4> DEFINE r == [conn[ClientOf[h]] EXCEPT !.inbox = Append(@, {JobOf[h]})]
      <4>1. conn' = conn \/ conn' = [conn EXCEPT ![ClientOf[h]] = r]
        BY <2>2, <3>1 DEF Enqueued
      <4>2. r.outbox = conn[ClientOf[h]].outbox
        BY <1>4, <3>1 DEF Connection
      <4> HIDE DEF r
      <4> QED BY <1>4, <3>1, <4>1, <4>2
    <3>3. \A c \in Client : conn[c].outbox \in Seq(TrueNotice')
      <4>1. TrueNotice \subseteq TrueNotice'
        BY <1>1, StillTrue
      <4> QED BY <4>1, SeqMonotonic DEF TruthInv, AnswersTrue, StreamsTrue
    <3> QED BY <3>2, <3>3 DEF StreamsTrue
  <2> QED BY <1>9, <2>1, <2>2
<1>11. HandlesTrue' /\ KeptTrue'
  BY <1>6, <1>7, <1>8
<1> QED BY <1>1, <1>10, <1>11 DEF TruthKept, AnswersTrue

LEMMA ReceiveTruth ==
  ASSUME TruthInv, ClientInv', NEW c \in Client, Receive(c)
  PROVE  TruthKept
<1> DEFINE n == Head(conn[c].outbox)
<1>1. /\ conn[c].outbox # <<>>
      /\ conn' = [conn EXCEPT ![c].outbox = Tail(@)]
      /\ completed' = [completed EXCEPT ![c][n.job] = Reading(n)]
      /\ Tell(Listening(c, n.job), Reading(n))
  BY DEF Receive
<1>2. Grows /\ RowsStand' /\ CacheTrue'
  BY CallerStep DEF Clients
<1>3. /\ conn \in [Client -> Connection] /\ completed \in [Client -> [Job -> Answer \cup {"none"}]]
      /\ KeptTrue /\ StreamsTrue
  BY DEF TruthInv, AnswersTrue, ClientInv, ClientTypes, StreamTypes
<1>4. n \in TrueNotice /\ Tail(conn[c].outbox) \in Seq(TrueNotice)
  <2> DEFINE q == conn[c].outbox
  <2>1. q \in Seq(TrueNotice) /\ q # <<>>
    BY <1>1, <1>3 DEF StreamsTrue
  <2> HIDE DEF q
  <2>2. Head(q) \in TrueNotice /\ Tail(q) \in Seq(TrueNotice)
    BY <2>1, HeadTailProperties
  <2> QED BY <2>2 DEF q
<1> HIDE DEF n
<1>5. n.job \in Job /\ Truthful(n.job, Reading(n))
  BY <1>4 DEF TrueNotice, Notice
<1>6. HandlesTrue'
  <2>1. handle' \in [Handle -> {"new", "asked", "idle", "waiting", "superseded"} \cup Answer]
    BY DEF ClientInv, ClientTypes, HandleType
  <2>2. \A g \in Handle :
          \/ handle'[g] = handle[g] \/ handle'[g] \notin Answer \/ Truthful(JobOf[g], handle'[g])
    <3> SUFFICES ASSUME NEW g \in Handle, handle'[g] # handle[g] PROVE Truthful(JobOf[g], handle'[g])
      OBVIOUS
    <3>1. handle'[g] = Reading(n) /\ JobOf[g] = n.job
      BY <1>1 DEF Tell, Listening
    <3> QED BY <1>5, <3>1
  <2> QED BY <1>2, <2>1, <2>2, HandleTruth
<1>7. KeptTrue'
  <2>1. ASSUME NEW d \in Client, NEW j \in Job PROVE Truthful(j, completed[d][j])'
    <3>1. completed'[d][j] = IF d = c /\ j = n.job THEN Reading(n) ELSE completed[d][j]
      BY <1>1, <1>3, <1>5
    <3>2. Truthful(j, completed'[d][j])
      BY <1>3, <1>5, <3>1 DEF KeptTrue
    <3> QED BY <1>2, <3>2 DEF Truthful, Grows
  <2> QED BY <2>1 DEF KeptTrue
<1>8. StreamsTrue'
  <2> DEFINE out == Tail(conn[c].outbox)
  <2>1. conn'[c].outbox = out
    <3> HIDE DEF out
    <3>1. conn'[c] = [conn[c] EXCEPT !.outbox = out]
      BY <1>1, <1>3 DEF out
    <3> QED BY <1>3, <3>1 DEF Connection
  <2>2. \A d \in Client : d # c => conn'[d] = conn[d]
    BY <1>1, <1>3
  <2>3. \A d \in Client : conn'[d].outbox \in Seq(TrueNotice)
    BY <1>3, <1>4, <2>1, <2>2 DEF StreamsTrue
  <2>4. TrueNotice \subseteq TrueNotice'
    BY <1>2, StillTrue
  <2> QED BY <2>3, <2>4, SeqMonotonic DEF StreamsTrue
<1> QED BY <1>2, <1>6, <1>7, <1>8 DEF TruthKept, AnswersTrue
LEMMA StreamStepTruth ==
  ASSUME TruthInv, NEW c \in Client, Break(c) \/ Reopen(c)
  PROVE  TruthKept
<1>1. Grows /\ RowsStand' /\ CacheTrue'
  BY CallerStep DEF Clients
<1>2. UNCHANGED <<completed, handle>>
  BY DEF Break, Reopen
<1>3. conn \in [Client -> Connection]
  BY DEF TruthInv, ClientInv, ClientTypes, StreamTypes
<1>4. ASSUME NEW d \in Client PROVE conn'[d].outbox \in Seq(TrueNotice')
  <2>1. conn[d].outbox \in Seq(TrueNotice')
    BY <1>1, StillTrue, SeqMonotonic DEF TruthInv, AnswersTrue, StreamsTrue
  <2>2. CASE d = c
    <3>1. conn'[c].outbox = <<>>
      <4>1. CASE Break(c)
        <5>1. conn'[c] = Closed(c)
          BY <1>3, <4>1 DEF Break
        <5>2. Closed(c).outbox = <<>>
          <6> DEFINE e == <<>>
          <6> HIDE DEF e
          <6>1. [conn[c] EXCEPT !.up = FALSE, !.outbox = e].outbox = e
            BY <1>3 DEF Connection
          <6> QED BY <6>1 DEF Closed, e
        <5> QED BY <5>1, <5>2
      <4>2. CASE Reopen(c)
        <5> DEFINE in == IF tracked[c] = {} THEN <<>> ELSE <<tracked[c]>>
        <5>1. conn'[c] = [up |-> TRUE, inbox |-> in, outbox |-> <<>>]
          BY <1>3, <4>2 DEF Reopen
        <5> HIDE DEF in
        <5> QED BY <5>1
      <4> QED BY <4>1, <4>2
    <3>2. <<>> \in Seq(TrueNotice')
      OBVIOUS
    <3> QED BY <2>2, <3>1, <3>2
  <2>3. CASE d # c
    <3>1. conn'[d] = conn[d]
      BY <1>3, <2>3 DEF Break, Reopen
    <3> QED BY <2>1, <3>1
  <2> QED BY <2>2, <2>3
<1>5. StreamsTrue'
  BY <1>4 DEF StreamsTrue
<1> QED BY <1>1, <1>2, <1>5, Undisturbed DEF TruthInv, TruthKept, AnswersTrue

LEMMA TruthInitHolds == Init => TruthInv
<1> SUFFICES ASSUME Init PROVE TruthInv
  OBVIOUS
<1>1. ClientInv
  BY ClientInitHolds
<1>2. acks = <<>> /\ runs = {} /\ \A j \in Job : jobs[j].status = "ABSENT"
  BY DEF Init, StoreInit
<1>3. RowsStand
  BY <1>2 DEF RowsStand, Results, Terminal
<1>4. HandlesTrue /\ KeptTrue
  BY DEF Init, HandlesTrue, KeptTrue, Truthful
<1>5. CacheTrue
  BY DEF Init, CacheTrue, CacheHas
<1>6. StreamsTrue
  <2>1. \A c \in Client : conn[c].outbox = <<>>
    BY DEF Init
  <2>2. <<>> \in Seq(TrueNotice)
    OBVIOUS
  <2> QED BY <2>1, <2>2 DEF StreamsTrue
<1> QED BY <1>1, <1>3, <1>4, <1>5, <1>6 DEF TruthInv, AnswersTrue

LEMMA TruthInvKept == TruthInv /\ [Next]_vars => TruthInv'
<1> SUFFICES ASSUME TruthInv, [Next]_vars PROVE TruthInv'
  OBVIOUS
<1>1. ClientInv'
  BY ClientInvKept DEF TruthInv
<1> SUFFICES TruthKept
  BY <1>1 DEF TruthInv, TruthKept
<1>2. CASE UNCHANGED vars
  <2>1. /\ UNCHANGED <<acks, lost, doubled, reached, runs, cache, conn, completed, handle>>
        /\ UNCHANGED storeVars
    BY <1>2 DEF vars, serverVars, clientVars
  <2>2. Results' = Results
    BY <2>1 DEF Results
  <2> QED BY <2>1, <2>2, QuietStep, Undisturbed DEF TruthInv, TruthKept, AnswersTrue
<1>3. CASE Life
  BY <1>3, LifeTruth
<1>4. CASE Server
  BY <1>4, CommitTruth, CommitFailsTruth, ExpireTruth, SubscribeTruth DEF Server
<1>5. CASE Clients
  BY <1>1, <1>5, HandleStepTruth, ReceiveTruth, StreamStepTruth DEF Clients
<1>6. CASE CrashRestart
  BY <1>6, CrashTruth
<1> QED BY <1>2, <1>3, <1>4, <1>5, <1>6 DEF Next

(* Whatever path told a handle the end of its job, the row had shown that   *)
(* end at some time: unless the success is still in the queue or was lost   *)
(* with it, or two results of the job were in one batch.                    *)
THEOREM AnswersWereTrue == Spec => []ToldWasTrue
<1>1. TruthInv => ToldWasTrue
  BY DEF TruthInv, AnswersTrue, HandlesTrue, Truthful, Vouched, Failing, ToldWasTrue
<1> QED BY <1>1, TruthInitHolds, TruthInvKept, PTL DEF Spec

-----------------------------------------------------------------------------
(* The table of this module is the table of JobStore. *)
LEMMA StepUsesStore == ClientInv /\ [Next]_vars => [StoreNext]_storeVars
<1> SUFFICES ASSUME ClientInv, [Next]_vars PROVE [StoreNext]_storeVars
  OBVIOUS
<1>1. CASE UNCHANGED vars
  BY <1>1 DEF vars
<1>2. CASE Life
  <2>1. ASSUME NEW j \in Job, NEW c \in Client, Claim(j, c) PROVE StoreNext
    BY <2>1 DEF Claim, StoreNext
  <2> QED BY <1>2, <2>1 DEF Life, Elapse, TakeBack, Cancel, Retry, Report, StoreNext
<1>3. CASE Server
  <2>1. ASSUME NEW n \in 1..BatchMax, CommitBatch(n) PROVE StoreNext
    <3> DEFINE batch == SubSeq(acks, 1, n)
    <3>1. UpdateJobResults(batch) /\ n <= Len(acks)
      BY <2>1 DEF CommitBatch
    <3>2. batch \in Seq(Ack) /\ DOMAIN batch = 1..n
      BY <3>1, BatchParts DEF ClientInv, CompletionInv
    <3> HIDE DEF batch
    <3>3. batch \in [1..n -> Ack]
      BY <3>2
    <3> QED BY <3>1, <3>3 DEF StoreNext
  <2> QED BY <1>3, <2>1 DEF Server, CommitFails, Expire, Subscribe
<1>4. CASE Clients
  <2>1. ASSUME NEW h \in Handle, Enqueue(h) PROVE [StoreNext]_storeVars
    BY <2>1, CompletionAssumption DEF Enqueue, StoreNext
  <2> QED BY <1>4, <2>1
      DEF Clients, Enqueued, ResultNode, ResultRust, Timeout, Poll, Receive, Break, Reopen
<1>5. CASE CrashRestart
  BY <1>5 DEF CrashRestart, StoreNext
<1> QED BY <1>1, <1>2, <1>3, <1>4, <1>5 DEF Next

(* Whatever the notices do, the jobs table is only touched by the           *)
(* operations of the storage.                                               *)
THEOREM CompletionUsesStore == Spec => StoreSpec
<1>1. Init => StoreInit
  BY DEF Init
<1> QED BY <1>1, ClientInitHolds, ClientInvKept, StepUsesStore, PTL DEF Spec, StoreSpec
=============================================================================
