------------------------- MODULE Enqueue_proofs -------------------------
(***************************************************************************)
(* Proofs about EnqueueJob and calculate_backoff, for any number of        *)
(* callers, keys and jobs, any options and any width of the integers: with *)
(* one key there is one job, at most one caller is told it made it, and    *)
(* what it asked for is when a failed job runs again.                      *)
(***************************************************************************)
EXTENDS Backoff, FiniteSetTheorems, TLAPS

(* What the call of c is known to be about, by its phase. *)
CallOK(c) ==
  /\ Phases(c, {"looking", "inserting", "fetching", "answering", "failed"}) => call[c].raw \in Asked
  /\ Phases(c, {"looking", "fetching"}) => call[c].key # NoKey
  /\ Phases(c, {"fetching"}) => setting = "postgres"
  /\ Phases(c, {"answering"}) => call[c].id \in Id

(* A caller is about to be answered with the row of its key. *)
AnswerOK(c) ==
  Phases(c, {"answering"}) /\ call[c].key # NoKey => call[c].id \in WithKey(call[c].key)

(* The handler is about to answer c that it made the job of key k. *)
Makes(c, k) == Phases(c, {"answering"}) /\ call[c].key = k /\ ~call[c].deduplicated

(* A caller was told that it made the job of key k. *)
Made(a, k) == a \in answers /\ a.key = k /\ ~a.deduplicated

Wellformed == EnqueueTypeOK /\ \A c \in Caller : CallOK(c)

(* One job per key, and who says so speaks of a row that is there. *)
Unique ==
  /\ OneJobPerKey
  /\ \A c \in Caller : AnswerOK(c)

(* On SQLite, one maker per key, whether it was told yet or not. *)
OneMaker ==
  setting = "sqlite" =>
    \A k \in Key :
      /\ \A c, d \in Caller : Makes(c, k) /\ Makes(d, k) => c = d
      /\ \A c \in Caller : \A a \in answers : ~(Makes(c, k) /\ Made(a, k))
      /\ \A a, b \in answers : Made(a, k) /\ Made(b, k) => a = b

EnqueueInv == Wellformed /\ Unique /\ OneMaker

-----------------------------------------------------------------------------
(* What is stored are options, whatever was asked for. *)
LEMMA StoredOptions ==
  ASSUME NEW raw \in Asked
  PROVE  Stored(raw) \in Options
<1>1. /\ raw.max \in Int /\ raw.initial \in Int /\ raw.cap \in Int /\ raw.jitter \in Int
      /\ Default \in Options
  BY EnqueueAssumption
<1>2. ASSUME NEW x \in Int, NEW d \in Nat \ {0}
      PROVE  Given(x, d) \in Nat \ {0}
  BY <1>2 DEF Given
<1>3. /\ Default.max \in Nat \ {0} /\ Default.initial \in Nat \ {0}
      /\ Default.cap \in Nat \ {0} /\ Default.jitter \in Nat \ {0}
  BY <1>1 DEF Options
<1>4. /\ Given(raw.max, Default.max) \in Nat \ {0}
      /\ Given(raw.initial, Default.initial) \in Nat \ {0}
      /\ Given(raw.cap, Default.cap) \in Nat \ {0}
      /\ Given(raw.jitter, Default.jitter) \in Nat \ {0}
  BY <1>1, <1>2, <1>3
<1>5. (IF raw.backoff \in {"fixed", "linear"} THEN raw.backoff ELSE "exponential")
        \in {"fixed", "linear", "exponential"}
  OBVIOUS
<1> QED BY <1>4, <1>5 DEF Stored, Options

(* insert_job adds one row to the table. *)
LEMMA InsertedRow ==
  ASSUME EnqueueTypeOK, NEW c \in Caller, NEW i \in Free, call[c].raw \in Asked, Inserted(c, i)
  PROVE  /\ rows' \in [Id -> Row \cup {NoRow}]
         /\ \A k : WithKey(k)' = IF k = call[c].key THEN WithKey(k) \cup {i} ELSE WithKey(k)
<1>1. Stored(call[c].raw) \in Options
  BY StoredOptions
<1>2. call[c].key \in Key \cup {NoKey}
  BY DEF EnqueueTypeOK, Call
<1> DEFINE r == [key |-> call[c].key, options |-> Stored(call[c].raw)]
<1>3. r \in Row
  BY <1>1, <1>2 DEF Row
<1>4. r # NoRow
  BY <1>3, NothingAssumption
<1>5. i \in Id /\ rows[i] = NoRow /\ rows' = [rows EXCEPT ![i] = r]
  BY DEF Free, Inserted
<1>6. rows \in [Id -> Row \cup {NoRow}]
  BY DEF EnqueueTypeOK
<1>7. r.key = call[c].key
  OBVIOUS
<1> HIDE DEF r
<1>8. rows' \in [Id -> Row \cup {NoRow}]
  BY <1>3, <1>5, <1>6
<1>9. \A k : WithKey(k)' = IF k = call[c].key THEN WithKey(k) \cup {i} ELSE WithKey(k)
  BY <1>4, <1>5, <1>6, <1>7 DEF WithKey
<1> QED BY <1>8, <1>9

-----------------------------------------------------------------------------
LEMMA EnqueueInitKeeps == EnqueueInit => EnqueueInv
<1> SUFFICES ASSUME EnqueueInit PROVE EnqueueInv
  OBVIOUS
<1>1. \A c \in Caller : call[c].phase = "idle"
  BY DEF EnqueueInit
<1>2. \A k : WithKey(k) = {}
  BY DEF EnqueueInit, WithKey
<1>3. EnqueueTypeOK
  BY DEF EnqueueInit, EnqueueTypeOK, Call, Phase
<1>4. \A c \in Caller : CallOK(c) /\ AnswerOK(c)
  BY <1>1 DEF CallOK, AnswerOK, Phases
<1>5. OneJobPerKey
  BY <1>2 DEF OneJobPerKey, EnqueueInit
<1>6. OneMaker
  BY <1>1 DEF OneMaker, Makes, Made, Phases, EnqueueInit
<1> QED BY <1>3, <1>4, <1>5, <1>6 DEF EnqueueInv, Wellformed, Unique

(* A call that only moves between phases before its answer, or ends it,     *)
(* disturbs nothing.                                                        *)
LEMMA MovesKeep ==
  ASSUME EnqueueInv, NEW c \in Caller, NEW r \in Call,
         call' = [call EXCEPT ![c] = r], r.phase # "answering",
         UNCHANGED <<setting, rows, answers>>,
         r.phase # "idle" /\ r.phase # "done" => r.raw \in Asked,
         r.phase \in {"looking", "fetching"} => r.key # NoKey,
         r.phase = "fetching" => setting = "postgres"
  PROVE  EnqueueInv'
<1>1. call \in [Caller -> Call]
  BY DEF EnqueueInv, Wellformed, EnqueueTypeOK
<1>2. call'[c] = r /\ \A d \in Caller \ {c} : call'[d] = call[d]
  BY <1>1
<1>3. EnqueueTypeOK'
  BY <1>1 DEF EnqueueInv, Wellformed, EnqueueTypeOK
<1>4. \A k : WithKey(k)' = WithKey(k)
  BY DEF WithKey
<1>5. ASSUME NEW d \in Caller
      PROVE  CallOK(d)' /\ AnswerOK(d)'
  <2>1. CASE d = c
    BY <2>1, <1>2 DEF CallOK, AnswerOK, Phases
  <2>2. CASE d # c
    <3>1. call'[d] = call[d] /\ CallOK(d) /\ AnswerOK(d)
      BY <2>2, <1>2 DEF EnqueueInv, Wellformed, Unique
    <3> QED BY <3>1, <1>4 DEF CallOK, AnswerOK, Phases
  <2> QED BY <2>1, <2>2
<1>6. OneJobPerKey'
  BY <1>4 DEF EnqueueInv, Unique, OneJobPerKey
<1>7. \A d \in Caller : \A k \in Key : Makes(d, k)' => d # c /\ Makes(d, k)
  BY <1>2 DEF Makes, Phases
<1>8. OneMaker'
  BY <1>7 DEF EnqueueInv, OneMaker, Made
<1> QED BY <1>3, <1>5, <1>6, <1>8 DEF EnqueueInv, Wellformed, Unique

(* A call comes to its answer: with the row of its key, if it has one; and  *)
(* as the maker of the job, on SQLite, only if there was no row.            *)
LEMMA AnswersKeep ==
  ASSUME EnqueueInv, NEW c \in Caller, NEW i \in Id, NEW dup \in BOOLEAN,
         Phases(c, {"looking", "inserting", "fetching"}), Answering(c, i, dup),
         UNCHANGED <<setting, answers>>,
         rows' \in [Id -> Row \cup {NoRow}],
         \A k \in Key : WithKey(k) \subseteq WithKey(k)',
         \A k \in Key : \A i1, i2 \in WithKey(k)' : i1 = i2,
         \A k \in Key : k = call[c].key => i \in WithKey(k)',
         setting = "sqlite" /\ ~dup /\ call[c].key # NoKey => WithKey(call[c].key) = {}
  PROVE  EnqueueInv'
<1> DEFINE r == [call[c] EXCEPT !.phase = "answering", !.id = i, !.deduplicated = dup]
<1>1. call \in [Caller -> Call] /\ call[c] \in Call
  BY DEF EnqueueInv, Wellformed, EnqueueTypeOK
<1>2. /\ call'[c] = r /\ r \in Call
      /\ r.phase = "answering" /\ r.key = call[c].key /\ r.id = i /\ r.deduplicated = dup
      /\ r.raw = call[c].raw
  BY <1>1 DEF Answering, Call, Phase
<1>3. call' \in [Caller -> Call] /\ \A d \in Caller \ {c} : call'[d] = call[d]
  BY <1>1, <1>2 DEF Answering
<1>4. EnqueueTypeOK'
  BY <1>3 DEF EnqueueInv, Wellformed, EnqueueTypeOK
<1>5. call[c].raw \in Asked
  BY DEF EnqueueInv, Wellformed, CallOK, Phases
<1> HIDE DEF r
<1>6. ASSUME NEW d \in Caller
      PROVE  CallOK(d)' /\ AnswerOK(d)'
  <2>1. CASE d = c
    <3>1. call'[c].key \in Key \cup {NoKey}
      BY <1>1, <1>2 DEF Call
    <3>2. (call[c].key # NoKey => call[c].id \in WithKey(call[c].key))'
      BY <3>1, <1>2 DEF WithKey
    <3>3. CallOK(d)'
      BY <2>1, <1>2, <1>5 DEF CallOK, Phases
    <3>4. AnswerOK(d)'
      BY <2>1, <3>2 DEF AnswerOK, WithKey
    <3> QED BY <3>3, <3>4
  <2>2. CASE d # c
    <3>1. call'[d] = call[d] /\ CallOK(d) /\ AnswerOK(d) /\ call[d].key \in Key \cup {NoKey}
      BY <2>2, <1>1, <1>3 DEF EnqueueInv, Wellformed, Unique, Call
    <3>2. CallOK(d)'
      BY <3>1 DEF CallOK, Phases
    <3>3. AnswerOK(d)'
      BY <3>1 DEF AnswerOK, Phases
    <3> QED BY <3>2, <3>3
  <2> QED BY <2>1, <2>2
<1>7. OneJobPerKey'
  BY DEF EnqueueInv, Unique, OneJobPerKey
<1>8. OneMaker'
  <2> SUFFICES ASSUME setting = "sqlite", NEW k \in Key
               PROVE  /\ \A d, e \in Caller : Makes(d, k)' /\ Makes(e, k)' => d = e
                      /\ \A d \in Caller : \A a \in answers : ~(Makes(d, k)' /\ Made(a, k))
                      /\ \A a, b \in answers : Made(a, k) /\ Made(b, k) => a = b
    BY DEF OneMaker, Made
  <2>1. \A d \in Caller : Makes(d, k)' => Makes(d, k) \/ (d = c /\ WithKey(k) = {})
    BY <1>2, <1>3, EnqueueAssumption DEF Makes, Phases
  <2>2. WithKey(k) = {} => /\ \A d \in Caller : ~Makes(d, k)
                           /\ \A a \in answers : ~Made(a, k)
    BY EnqueueAssumption
       DEF EnqueueInv, Unique, OneJobPerKey, AnswerOK, Makes, Made
  <2>3. ~Makes(c, k)
    BY DEF Makes, Phases
  <2> QED BY <2>1, <2>2, <2>3 DEF EnqueueInv, OneMaker
<1> QED BY <1>4, <1>6, <1>7, <1>8 DEF EnqueueInv, Wellformed, Unique

-----------------------------------------------------------------------------
(* One lemma per action. *)
LEMMA EnqueueKeeps ==
  ASSUME EnqueueInv, NEW c \in Caller, NEW k \in Key \cup {NoKey}, NEW raw \in Asked,
         Enqueue(c, k, raw)
  PROVE  EnqueueInv'
<1> DEFINE r == [call[c] EXCEPT !.phase = IF k = NoKey THEN "inserting" ELSE "looking",
                                !.key = k, !.raw = raw]
<1>1. call \in [Caller -> Call] /\ call[c] \in Call
  BY DEF EnqueueInv, Wellformed, EnqueueTypeOK
<1>2. /\ r \in Call /\ r.phase \in {"inserting", "looking"} /\ r.raw \in Asked
      /\ r.phase = "looking" => r.key # NoKey
  BY <1>1 DEF Call, Phase
<1>3. call' = [call EXCEPT ![c] = r]
  BY <1>1 DEF Enqueue, Call
<1> QED BY <1>2, <1>3, MovesKeep DEF Enqueue

(* The phase alone changes. *)
LEMMA ToKeeps ==
  ASSUME EnqueueInv, NEW c \in Caller, NEW p \in Phase \ {"answering", "idle"}, To(c, p),
         UNCHANGED <<setting, rows, answers>>,
         p # "done" => Phases(c, {"looking", "inserting", "fetching", "answering", "failed"}),
         p \in {"looking", "fetching"} => call[c].key # NoKey,
         p = "fetching" => setting = "postgres"
  PROVE  EnqueueInv'
<1> DEFINE r == [call[c] EXCEPT !.phase = p]
<1>1. call \in [Caller -> Call] /\ call[c] \in Call
  BY DEF EnqueueInv, Wellformed, EnqueueTypeOK
<1>2. r \in Call /\ r.phase = p /\ r.raw = call[c].raw /\ r.key = call[c].key
  BY <1>1 DEF Call
<1>3. call' = [call EXCEPT ![c] = r]
  BY <1>1 DEF To, Call
<1>4. p # "done" => r.raw \in Asked
  BY <1>2 DEF EnqueueInv, Wellformed, CallOK
<1> HIDE DEF r
<1> QED BY <1>2, <1>3, <1>4, MovesKeep

LEMMA AgainKeeps ==
  ASSUME EnqueueInv, NEW c \in Caller, Again(c)
  PROVE  EnqueueInv'
<1>1. CASE call[c].key = NoKey
  BY <1>1, ToKeeps DEF Again, Phases, Phase
<1>2. CASE call[c].key # NoKey
  BY <1>2, ToKeeps DEF Again, Phases, Phase
<1> QED BY <1>1, <1>2

LEMMA BreakKeeps ==
  ASSUME EnqueueInv, NEW c \in Caller, Break(c) \/ InsertFails(c)
  PROVE  EnqueueInv'
BY ToKeeps DEF Break, InsertFails, Phases, Phase

LEMMA InsertNothingKeeps ==
  ASSUME EnqueueInv, NEW c \in Caller, InsertNothing(c)
  PROVE  EnqueueInv'
BY ToKeeps DEF InsertNothing, Conflict, Phases, Phase

(* The row of a key is the answer, the table stays. *)
LEMMA FoundKeeps ==
  ASSUME EnqueueInv, NEW c \in Caller, NEW i \in WithKey(call[c].key), NEW dup \in BOOLEAN,
         Phases(c, {"looking", "inserting", "fetching"}), Answering(c, i, dup),
         UNCHANGED <<setting, rows, answers>>,
         ~dup => setting = "postgres"
  PROVE  EnqueueInv'
<1>1. i \in Id
  BY DEF WithKey
<1>2. \A k : WithKey(k)' = WithKey(k)
  BY DEF WithKey
<1>3. \A k \in Key : \A i1, i2 \in WithKey(k) : i1 = i2
  BY DEF EnqueueInv, Unique, OneJobPerKey
<1>4. rows \in [Id -> Row \cup {NoRow}]
  BY DEF EnqueueInv, Wellformed, EnqueueTypeOK
<1> QED BY <1>1, <1>2, <1>3, <1>4, AnswersKeep

LEMMA LookUpKeeps ==
  ASSUME EnqueueInv, NEW c \in Caller, LookUp(c)
  PROVE  EnqueueInv'
<1>1. CASE WithKey(call[c].key) = {}
  BY <1>1, ToKeeps DEF LookUp, Phases, Phase
<1>2. CASE WithKey(call[c].key) # {}
  BY <1>2, FoundKeeps DEF LookUp, Phases
<1> QED BY <1>1, <1>2

LEMMA FetchKeeps ==
  ASSUME EnqueueInv, NEW c \in Caller, Fetch(c)
  PROVE  EnqueueInv'
<1>1. setting = "postgres"
  BY DEF EnqueueInv, Wellformed, CallOK, Fetch
<1> QED BY <1>1, FoundKeeps DEF Fetch, Phases

LEMMA InsertKeeps ==
  ASSUME EnqueueInv, NEW c \in Caller, Insert(c)
  PROVE  EnqueueInv'
<1>1. PICK i \in Free : Inserted(c, i) /\ Answering(c, i, FALSE)
  BY DEF Insert
<1>2. call[c].raw \in Asked /\ Phases(c, {"looking", "inserting", "fetching"})
  BY DEF Insert, EnqueueInv, Wellformed, CallOK, Phases
<1>3. /\ rows' \in [Id -> Row \cup {NoRow}]
      /\ \A k : WithKey(k)' = IF k = call[c].key THEN WithKey(k) \cup {i} ELSE WithKey(k)
  BY <1>1, <1>2, InsertedRow DEF EnqueueInv, Wellformed
<1>4. call[c].key # NoKey => WithKey(call[c].key) = {}
  BY DEF Insert, Conflict
<1>5. \A k \in Key : \A i1, i2 \in WithKey(k)' : i1 = i2
  BY <1>3, <1>4, EnqueueAssumption DEF EnqueueInv, Unique, OneJobPerKey
<1>6. i \in Id
  BY <1>1 DEF Free
<1>7. \A k \in Key : WithKey(k) \subseteq WithKey(k)'
  BY <1>3
<1>8. \A k \in Key : k = call[c].key => i \in WithKey(k)'
  BY <1>3
<1> QED BY <1>1, <1>2, <1>3, <1>4, <1>5, <1>6, <1>7, <1>8, AnswersKeep DEF Insert

(* The answer reaches the caller: what the handler said, answers remember. *)
LEMMA ReturnKeeps ==
  ASSUME EnqueueInv, NEW c \in Caller, Return(c)
  PROVE  EnqueueInv'
<1> DEFINE a0 == [caller |-> c, key |-> call[c].key, id |-> call[c].id,
                  deduplicated |-> call[c].deduplicated]
           r == [call[c] EXCEPT !.phase = "done"]
<1>1. call \in [Caller -> Call] /\ call[c] \in Call /\ AnswerOK(c) /\ CallOK(c)
  BY DEF EnqueueInv, Wellformed, EnqueueTypeOK, Unique
<1>2. call'[c] = r /\ r \in Call /\ r.phase = "done"
  BY <1>1 DEF Return, To, Call, Phase
<1>3. call' \in [Caller -> Call] /\ \A d \in Caller \ {c} : call'[d] = call[d]
  BY <1>1, <1>2 DEF Return, To
<1>4. /\ \A a \in answers' : a \in answers \/ (a = a0 /\ call[c].key # NoKey)
      /\ UNCHANGED <<setting, rows>>
  BY DEF Return
<1>5. \A k : WithKey(k)' = WithKey(k)
  BY <1>4 DEF WithKey
<1>6. call[c].key # NoKey => a0 \in Answer /\ a0.id \in WithKey(a0.key)
  BY <1>1 DEF Return, AnswerOK, CallOK, Call, Answer, Phases
<1>7. EnqueueTypeOK'
  BY <1>3, <1>4, <1>6 DEF EnqueueInv, Wellformed, EnqueueTypeOK
<1> HIDE DEF r
<1>8. ASSUME NEW d \in Caller
      PROVE  CallOK(d)' /\ AnswerOK(d)'
  <2>1. CASE d = c
    BY <2>1, <1>2 DEF CallOK, AnswerOK, Phases
  <2>2. CASE d # c
    <3>1. call'[d] = call[d] /\ CallOK(d) /\ AnswerOK(d)
      BY <2>2, <1>3 DEF EnqueueInv, Wellformed, Unique
    <3> QED BY <3>1, <1>4, <1>5 DEF CallOK, AnswerOK, Phases
  <2> QED BY <2>1, <2>2
<1>9. OneJobPerKey'
  BY <1>4, <1>5, <1>6 DEF EnqueueInv, Unique, OneJobPerKey
<1>10. OneMaker'
  <2> SUFFICES ASSUME setting = "sqlite", NEW k \in Key
               PROVE  /\ \A d, e \in Caller : Makes(d, k)' /\ Makes(e, k)' => d = e
                      /\ \A d \in Caller : \A a \in answers' : ~(Makes(d, k)' /\ Made(a, k)')
                      /\ \A a, b \in answers' : Made(a, k)' /\ Made(b, k)' => a = b
    BY <1>4 DEF OneMaker
  <2>1. \A d \in Caller : Makes(d, k)' => d # c /\ Makes(d, k)
    BY <1>2, <1>3 DEF Makes, Phases
  <2>2. \A a : Made(a, k)' => Made(a, k) \/ (a = a0 /\ Makes(c, k))
    BY <1>4 DEF Made, Makes, Return, Phases
  <2>3. /\ \A d, e \in Caller : Makes(d, k) /\ Makes(e, k) => d = e
        /\ \A d \in Caller : \A a : ~(Makes(d, k) /\ Made(a, k))
        /\ \A a, b : Made(a, k) /\ Made(b, k) => a = b
    BY DEF EnqueueInv, OneMaker, Made
  <2> QED BY <2>1, <2>2, <2>3
<1> QED BY <1>7, <1>8, <1>9, <1>10 DEF EnqueueInv, Wellformed, Unique

-----------------------------------------------------------------------------
LEMMA EnqueueStepKeeps == EnqueueInv /\ [EnqueueNext]_enqueueVars => EnqueueInv'
<1> SUFFICES ASSUME EnqueueInv, [EnqueueNext]_enqueueVars PROVE EnqueueInv'
  OBVIOUS
<1>1. CASE UNCHANGED enqueueVars
  BY <1>1 DEF EnqueueInv, Wellformed, EnqueueTypeOK, CallOK, Unique, OneJobPerKey, AnswerOK,
              OneMaker, Makes, Made, WithKey, Phases, enqueueVars
<1>2. CASE EnqueueNext
  <2>1. PICK c \in Caller :
          \/ \E k \in Key \cup {NoKey} : \E raw \in Asked : Enqueue(c, k, raw)
          \/ Again(c) \/ LookUp(c) \/ Insert(c) \/ InsertFails(c) \/ InsertNothing(c)
          \/ Fetch(c) \/ Return(c) \/ Break(c)
    BY <1>2 DEF EnqueueNext
  <2> QED BY <2>1, EnqueueKeeps, AgainKeeps, LookUpKeeps, InsertKeeps, BreakKeeps,
             InsertNothingKeeps, FetchKeeps, ReturnKeeps
<1> QED BY <1>1, <1>2

(* However calls race, break and are repeated, a key has one job, and every *)
(* answer names it: get_job_by_idempotency_key and insert_job of both       *)
(* storages.                                                                *)
THEOREM OneJob == EnqueueSpec => []OneJobPerKey
<1>1. EnqueueInv => OneJobPerKey
  BY DEF EnqueueInv, Unique
<1> QED BY <1>1, EnqueueInitKeeps, EnqueueStepKeeps, PTL DEF EnqueueSpec

(* On SQLite at most one call with a key is told that it made the job.      *)
THEOREM OneMaking == EnqueueSpec => []MadeOnce
<1>1. EnqueueInv => MadeOnce
  <2> SUFFICES ASSUME EnqueueInv, setting = "sqlite", NEW a \in answers, NEW b \in answers,
                      a.key = b.key, ~a.deduplicated, ~b.deduplicated
               PROVE  a = b
    BY DEF MadeOnce
  <2>1. a.key \in Key
    BY DEF EnqueueInv, Wellformed, EnqueueTypeOK, Answer
  <2> QED BY <2>1 DEF EnqueueInv, OneMaker, Made
<1> QED BY <1>1, EnqueueInitKeeps, EnqueueStepKeeps, PTL DEF EnqueueSpec

(* The table holds options that make sense, whatever callers send.          *)
THEOREM EnqueueTypes == EnqueueSpec => []EnqueueTypeOK
<1>1. EnqueueInv => EnqueueTypeOK
  BY DEF EnqueueInv, Wellformed
<1> QED BY <1>1, EnqueueInitKeeps, EnqueueStepKeeps, PTL DEF EnqueueSpec


-----------------------------------------------------------------------------
(* The arithmetic of calculate_backoff.                                      *)

(* A power of two counts the subsets of a set.                               *)
LEMMA PowersOfTwo == \A n \in Nat : 2 ^ n \in Nat \ {0}
<1> TAKE n \in Nat
<1> DEFINE S == 1..n
<1>1. IsFiniteSet(S) /\ Cardinality(S) = n
  BY FS_Interval
<1> HIDE DEF S
<1>2. IsFiniteSet(SUBSET S) /\ Cardinality(SUBSET S) = 2 ^ n
  BY <1>1, FS_SUBSET
<1>3. Cardinality(SUBSET S) \in Nat
  BY <1>2, FS_CardinalityType
<1>4. Cardinality(SUBSET S) # 0
  <2>1. SUBSET S # {}
    OBVIOUS
  <2> QED BY <1>2, <2>1, FS_EmptySet
<1> QED BY <1>2, <1>3, <1>4

LEMMA WidthFacts == Half \in Nat /\ Half > 0 /\ Second \in Nat /\ Second > 0 /\ Second < Half
<1>1. Bits - 1 \in Nat
  BY BackoffAssumption
<1>2. 2 ^ (Bits - 1) \in Nat \ {0}
  BY <1>1, PowersOfTwo
<1>3. Half \in Nat \ {0}
  BY <1>2, Zenon DEF Half
<1>4. Second < Half
  BY BackoffAssumption, Zenon DEF Half
<1> QED BY <1>3, <1>4, BackoffAssumption

(* A value that fits is not changed by cutting it to the width.              *)
LEMMA WrapFacts ==
  ASSUME NEW x \in Int
  PROVE  Wrap(x) \in Int /\ (Fits(x) => Wrap(x) = x)
<1>1. Half \in Nat /\ Half > 0
  BY WidthFacts
<1>2. 2 * Half \in Nat /\ 2 * Half > 0
  BY <1>1
<1>3. \A y \in Int, m \in Nat : m > 0 => y % m \in Int /\ (0 <= y /\ y < m => y % m = y)
  OBVIOUS
<1>4. x + Half \in Int
  BY <1>1
<1>5. (x + Half) % (2 * Half) \in Int
      /\ (0 <= x + Half /\ x + Half < 2 * Half => (x + Half) % (2 * Half) = x + Half)
  BY <1>2, <1>3, <1>4
<1> QED BY <1>1, <1>5 DEF Wrap, Fits

(* A quotient of a value that is not negative is rounded down.               *)
LEMMA QuotientFacts ==
  ASSUME NEW x \in Int, NEW d \in Nat, d > 0
  PROVE  /\ Quotient(x, d) \in Int
         /\ x >= 0 => /\ Quotient(x, d) >= 0
                      /\ d * Quotient(x, d) <= x /\ x < d * Quotient(x, d) + d
<1>1. \A y \in Int : /\ y \div d \in Int
                     /\ d * (y \div d) <= y /\ y < d * (y \div d) + d
  OBVIOUS
<1>2. -x \in Int /\ x \div d \in Int /\ (-x) \div d \in Int
  BY <1>1
<1>3. Quotient(x, d) \in Int
  BY <1>2 DEF Quotient
<1>4. ASSUME x >= 0
      PROVE  /\ Quotient(x, d) >= 0
             /\ d * Quotient(x, d) <= x /\ x < d * Quotient(x, d) + d
  <2>1. Quotient(x, d) = x \div d
    BY <1>4 DEF Quotient
  <2>2. x \div d >= 0
    BY <1>4
  <2> QED BY <1>1, <2>1, <2>2
<1> QED BY <1>3, <1>4

LEMMA PowerFacts == \A a \in Nat : Power(a) \in Nat /\ (a > 0 => Power(a) = 2 ^ (a - 1) /\ Power(a) > 0)
<1> TAKE a \in Nat
<1>1. CASE a = 0
  BY <1>1 DEF Power
<1>2. CASE a # 0
  <2>1. a - 1 \in Nat
    BY <1>2
  <2>2. 2 ^ (a - 1) \in Nat \ {0}
    BY <2>1, PowersOfTwo
  <2> QED BY <1>2, <2>2 DEF Power
<1> QED BY <1>1, <1>2

(* Whatever the options and the attempt, the delay is a whole number.        *)
LEMMA DelayTypes ==
  ASSUME NEW o \in Options, NEW a \in Nat
  PROVE  /\ BaseDelay(o, a) \in Int
         /\ Capped(o, a) \in Int
         /\ JitterRange(o, a) \in Int /\ RangeStart(o, a) \in Int
         /\ \A x \in Int : Sum(o, a, x) \in Int /\ Ceil(Sum(o, a, x)) \in Int /\ Seconds(o, a, x) \in Int
         /\ Draws(o, a) \subseteq Int
<1>0. /\ o.initial \in Nat /\ o.cap \in Nat /\ o.jitter \in Nat
      /\ o.backoff = "fixed" \/ o.backoff = "linear" \/ o.backoff = "exponential"
  BY DEF Options
<1>1. \A p, q \in Int : p * q \in Int
  OBVIOUS
<1>2. Power(a) \in Int
  BY PowerFacts
<1>3. o.initial * a \in Int /\ o.initial * Power(a) \in Int
  BY <1>0, <1>1, <1>2
<1>4. BaseDelay(o, a) \in Int
  <2>1. CASE o.backoff = "fixed"
    BY <1>0, <2>1 DEF BaseDelay
  <2>2. CASE o.backoff = "linear"
    BY <1>3, <2>2 DEF BaseDelay
  <2>3. CASE o.backoff = "exponential"
    BY <1>3, <2>3 DEF BaseDelay
  <2> QED BY <1>0, <2>1, <2>2, <2>3
<1>5. Wrap(BaseDelay(o, a)) \in Int
  BY <1>4, WrapFacts
<1>6. Capped(o, a) \in Int
  BY <1>0, <1>5 DEF Capped, Lesser
<1>7. Capped(o, a) * o.jitter \in Int
  BY <1>0, <1>1, <1>6
<1>8. Quotient(Capped(o, a) * o.jitter, 100) \in Int
  <2>1. \A y \in Int : Quotient(y, 100) \in Int
    BY QuotientFacts
  <2> QED BY <1>7, <2>1
<1>9. JitterRange(o, a) \in Int /\ RangeStart(o, a) \in Int
  <2>1. JitterRange(o, a) \in Int
    BY <1>8, WidthFacts DEF JitterRange, Lesser, Greater
  <2>2. -JitterRange(o, a) \in Int
    BY <2>1
  <2> QED BY <2>1, <2>2, WrapFacts DEF RangeStart
<1>10. ASSUME NEW x \in Int
       PROVE  Sum(o, a, x) \in Int /\ Ceil(Sum(o, a, x)) \in Int /\ Seconds(o, a, x) \in Int
  <2>1. Sum(o, a, x) \in Int
    BY <1>6 DEF Sum
  <2>2. Ceil(Sum(o, a, x)) \in Int
    BY <2>1, WrapFacts, WidthFacts DEF Ceil, Greater
  <2>3. Wrap(Ceil(Sum(o, a, x))) \in Int
    BY <2>2, WrapFacts
  <2> QED BY <2>1, <2>2, <2>3, QuotientFacts, WidthFacts DEF Seconds
<1>11. Draws(o, a) \subseteq Int
  BY <1>9 DEF Draws
<1> QED BY <1>4, <1>6, <1>9, <1>10, <1>11


(* The delay of an attempt in range: no step of the computation overflows or *)
(* panics, and what comes out is what the options say.                       *)
LEMMA InRangeIsExact ==
  ASSUME NEW o \in Options, NEW a \in Nat, InRange(o, a)
  PROVE  /\ Strategy(o, a) \in Nat /\ Strategy(o, a) > 0 /\ Strategy(o, a) < Half
         /\ BaseDelay(o, a) = Strategy(o, a)
         /\ Capped(o, a) = Lesser(Strategy(o, a), o.cap)
         /\ Capped(o, a) \in Nat /\ Capped(o, a) > 0
         /\ o.backoff = "exponential" => Fits(Power(a))
<1>0. /\ o.initial \in Nat /\ o.initial > 0 /\ o.cap \in Nat /\ o.cap > 0
      /\ o.backoff = "fixed" \/ o.backoff = "linear" \/ o.backoff = "exponential"
      /\ a > 0 /\ Half \in Nat /\ Half > 0
  BY WidthFacts DEF Options, InRange
<1>1. \A p, q \in Nat : p > 0 /\ q > 0 => p * q \in Nat /\ p * q > 0 /\ p * q >= q
  OBVIOUS
<1>2. Power(a) \in Nat /\ Power(a) > 0 /\ Power(a) = 2 ^ (a - 1)
  BY <1>0, PowerFacts
<1>3. Fits(Strategy(o, a))
  BY DEF InRange
<1>4. /\ Strategy(o, a) \in Nat /\ Strategy(o, a) > 0 /\ BaseDelay(o, a) = Strategy(o, a)
      /\ o.backoff = "exponential" => Power(a) <= Strategy(o, a)
  <2>1. CASE o.backoff = "fixed"
    BY <1>0, <2>1 DEF Strategy, BaseDelay
  <2>2. CASE o.backoff = "linear"
    <3>1. Strategy(o, a) = o.initial * a /\ BaseDelay(o, a) = o.initial * a
      BY <2>2 DEF Strategy, BaseDelay
    <3> QED BY <1>0, <1>1, <2>2, <3>1
  <2>3. CASE o.backoff = "exponential"
    <3>1. Strategy(o, a) = o.initial * Power(a) /\ BaseDelay(o, a) = o.initial * Power(a)
      BY <1>2, <2>3 DEF Strategy, BaseDelay
    <3>2. /\ o.initial * Power(a) \in Nat /\ o.initial * Power(a) > 0
          /\ o.initial * Power(a) >= Power(a)
      BY <1>0, <1>1, <1>2
    <3> QED BY <1>2, <3>1, <3>2
  <2> QED BY <1>0, <2>1, <2>2, <2>3
<1>5. Strategy(o, a) < Half
  BY <1>3 DEF Fits
<1>6. Wrap(BaseDelay(o, a)) = Strategy(o, a)
  BY <1>3, <1>4, WrapFacts
<1>7. Capped(o, a) = Lesser(Strategy(o, a), o.cap)
  BY <1>6 DEF Capped
<1>8. Capped(o, a) \in Nat /\ Capped(o, a) > 0
  BY <1>0, <1>4, <1>7 DEF Lesser
<1>9. o.backoff = "exponential" => Fits(Power(a))
  BY <1>0, <1>2, <1>4, <1>5 DEF Fits
<1> QED BY <1>4, <1>5, <1>7, <1>8, <1>9

(* The jitter is what its percentage allows, and the sum stays in the width. *)
LEMMA InRangeSum ==
  ASSUME NEW o \in Options, NEW a \in Nat, InRange(o, a), NEW x \in Draws(o, a)
  PROVE  /\ RangeStart(o, a) <= JitterRange(o, a) /\ Fits(-JitterRange(o, a))
         /\ x \in Int /\ Sum(o, a, x) = Capped(o, a) + x
         /\ 100 * x <= Capped(o, a) * o.jitter /\ -(Capped(o, a) * o.jitter) <= 100 * x
         /\ Sum(o, a, x) < Half - Second /\ Fits(Sum(o, a, x)) /\ Second < Half
<1> DEFINE t == Capped(o, a)
           j == o.jitter
           r == JitterRange(o, a)
           q == Quotient(t * j, 100)
<1>0. t \in Nat /\ t > 0 /\ j \in Nat /\ Half \in Nat /\ Half > 0 /\ Second \in Nat /\ Second > 0
  BY InRangeIsExact, WidthFacts DEF Options
<1>1. t * (100 + j) < 100 * (Half - Second)
  BY InRangeIsExact DEF InRange
<1>2. /\ r = Greater(-Half, Lesser(q, Half - 1)) /\ RangeStart(o, a) = Wrap(-r)
      /\ RangeStart(o, a) <= r => x \in RangeStart(o, a)..r
  BY DelayTypes DEF JitterRange, RangeStart, Draws
<1>3. Sum(o, a, x) = t + x
  BY DEF Sum
<1> HIDE DEF t, j, r
<1>4. \A u, v \in Nat : u * v \in Nat /\ u * (100 + v) = 100 * u + u * v
  OBVIOUS
<1>5. t * j \in Nat /\ t * (100 + j) = 100 * t + t * j
  BY <1>0, <1>4
<1>6. \A y \in Int : /\ Quotient(y, 100) \in Int
                     /\ y >= 0 => Quotient(y, 100) >= 0 /\ 100 * Quotient(y, 100) <= y
  BY QuotientFacts
<1>7. r \in Int /\ r >= 0 /\ 100 * r <= t * j /\ r <= Half - 1
  <2>1. q \in Int /\ q >= 0 /\ 100 * q <= t * j
    BY <1>5, <1>6
  <2> HIDE DEF q
  <2> QED BY <1>0, <1>2, <2>1 DEF Lesser, Greater
<1>8. RangeStart(o, a) = -r /\ Fits(-r) /\ -r <= r
  <2>1. -r \in Int /\ Fits(-r) /\ -r <= r
    BY <1>0, <1>7 DEF Fits
  <2> QED BY <1>2, <2>1, WrapFacts
<1>8a. x \in Int /\ -r <= x /\ x <= r
  BY <1>2, <1>7, <1>8
<1>9. 100 * x <= t * j /\ -(t * j) <= 100 * x
  BY <1>5, <1>7, <1>8a
<1>10. t + x < Half - Second
  BY <1>0, <1>1, <1>5, <1>8a, <1>9
<1>11. -Half <= t + x /\ Second < Half
  BY <1>0, <1>1, <1>5, <1>7, <1>8a
<1>12. Fits(t + x)
  BY <1>0, <1>8a, <1>10, <1>11 DEF Fits
<1> QED BY <1>3, <1>8, <1>8a, <1>9, <1>10, <1>11, <1>12 DEF t, j, r

(* Rounding up to whole seconds overflows no more than the sum does.         *)
LEMMA InRangeSeconds ==
  ASSUME Second < Half, NEW s \in Int, s < Half - Second, Fits(s)
  PROVE  LET d == Quotient(Wrap(Ceil(s)), Second)
         IN  /\ Fits(Ceil(s))
             /\ d \in Int /\ d * Second >= s /\ d * Second >= 0
             /\ (d - 1) * Second < s \/ (s <= 0 /\ d = 0)
<1> DEFINE m == Greater(s, 0)
           d == Quotient(m + Second - 1, Second)
<1>0. Half \in Nat /\ Half > 0 /\ Second \in Nat /\ Second > 0
  BY WidthFacts
<1>1. m \in Nat /\ m >= s /\ (m = s \/ (m = 0 /\ s <= 0))
  BY DEF Greater
<1>2. Ceil(s) = m + Second - 1
  BY WrapFacts DEF Ceil
<1>3. Fits(m + Second - 1)
  <2>1. m + Second - 1 < Half
    BY <1>0, <1>1
  <2>2. m + Second - 1 >= 0
    BY <1>0, <1>1
  <2> QED BY <1>0, <1>1, <2>1, <2>2 DEF Fits
<1>4. m + Second - 1 \in Int /\ m + Second - 1 >= 0
  BY <1>0, <1>1
<1>5. Wrap(Ceil(s)) = m + Second - 1
  BY <1>2, <1>3, <1>4, WrapFacts
<1>6. /\ d \in Int /\ d >= 0
      /\ Second * d <= m + Second - 1 /\ m + Second - 1 < Second * d + Second
  BY <1>0, <1>4, QuotientFacts
<1> HIDE DEF m, d
<1>7. \A p, q \in Int : p * q \in Int /\ p * q = q * p /\ (p - 1) * q = p * q - q
  OBVIOUS
<1>8. d * Second \in Int /\ d * Second = Second * d /\ (d - 1) * Second = d * Second - Second
  BY <1>0, <1>6, <1>7
<1>9. d * Second >= m /\ (d - 1) * Second < m
  BY <1>0, <1>1, <1>6, <1>8
<1>10. ASSUME m = 0
       PROVE  d = 0
  <2>1. Second * d < Second
    BY <1>0, <1>6, <1>8, <1>10
  <2>2. \A p \in Int, q \in Nat : p >= 1 => q * p >= q
    OBVIOUS
  <2> QED BY <1>0, <1>6, <2>1, <2>2
<1>11. d * Second >= s /\ d * Second >= 0 /\ ((d - 1) * Second < s \/ (s <= 0 /\ d = 0))
  BY <1>0, <1>1, <1>8, <1>9, <1>10
<1>12. Quotient(Wrap(Ceil(s)), Second) = d
  BY <1>5 DEF d
<1> QED BY <1>2, <1>3, <1>6, <1>11, <1>12


(* With a delay in range nothing panics, in any build and for any draw, and  *)
(* the job is scheduled for when its options say.                            *)
LEMMA RetryAsPromised ==
  ASSUME NEW o \in Options, NEW a \in Nat, InRange(o, a), NEW x \in Draws(o, a)
  PROVE  ~Panics(o, a, x) /\ Promised(o, a, Seconds(o, a, x))
<1> DEFINE t == Capped(o, a)
           j == o.jitter
           s == Sum(o, a, x)
           d == Seconds(o, a, x)
<1>0. t \in Nat /\ t > 0 /\ j \in Nat /\ a > 0 /\ Second \in Nat /\ Second > 0
  BY InRangeIsExact, WidthFacts DEF Options, InRange
<1>1. /\ RangeStart(o, a) <= JitterRange(o, a) /\ Fits(-JitterRange(o, a))
      /\ x \in Int /\ s = t + x /\ Fits(s)
      /\ 100 * x <= t * j /\ -(t * j) <= 100 * x
      /\ s < Half - Second /\ Second < Half
  BY InRangeSum
<1>2. s \in Int /\ t * j \in Nat
  <2>1. \A p, q \in Nat : p * q \in Nat
    OBVIOUS
  <2> QED BY <1>0, <1>1, <2>1
<1>3. /\ Fits(Ceil(s))
      /\ d \in Int /\ d * Second >= s /\ d * Second >= 0
      /\ (d - 1) * Second < s \/ (s <= 0 /\ d = 0)
  BY <1>1, <1>2, InRangeSeconds DEF Seconds
<1>4. Fits(BaseDelay(o, a)) /\ (o.backoff = "exponential" => Fits(Power(a)))
  BY InRangeIsExact DEF InRange
<1>5. ~Panics(o, a, x)
  <2>1. ~(JitterRange(o, a) < RangeStart(o, a))
    BY <1>1, DelayTypes
  <2> QED BY <1>0, <1>1, <1>3, <1>4, <2>1 DEF Panics, Overflows
<1>6. Lesser(Strategy(o, a), o.cap) = t
  BY InRangeIsExact
<1> HIDE DEF t, j, s, d
<1>7. \A p, q \in Int : /\ p * q \in Int
                        /\ 100 * p * q = 100 * (p * q)
                        /\ p * (100 - q) = 100 * p - p * q
                        /\ p * (100 + q) = 100 * p + p * q
                        /\ 100 * (p - 1) * q = 100 * ((p - 1) * q)
                        /\ (p - 1) * q \in Int
  OBVIOUS
<1>8. 100 * d * Second >= t * (100 - j)
  <2>1. 100 * d * Second = 100 * (d * Second) /\ t * (100 - j) = 100 * t - t * j
        /\ d * Second \in Int
    BY <1>0, <1>3, <1>7
  <2> QED BY <1>0, <1>1, <1>2, <1>3, <2>1
<1>9. 100 * (d - 1) * Second < t * (100 + j)
  <2>1. 100 * (d - 1) * Second = 100 * ((d - 1) * Second) /\ t * (100 + j) = 100 * t + t * j
        /\ (d - 1) * Second \in Int
    BY <1>0, <1>3, <1>7
  <2>2. CASE (d - 1) * Second < s
    BY <1>0, <1>1, <1>2, <2>1, <2>2
  <2>3. CASE d = 0
    <3>1. (d - 1) * Second = -Second
      BY <1>0, <2>3
    <3> QED BY <1>0, <1>2, <2>1, <3>1
  <2> QED BY <1>3, <2>2, <2>3
<1>10. Promised(o, a, d)
  BY <1>6, <1>8, <1>9 DEF Promised, j
<1> QED BY <1>5, <1>10 DEF d

(* Attempt 0 of a linear delay, or of an exponential one in a release build, *)
(* is no delay at all.                                                       *)
LEMMA NoDelayAtAll ==
  ASSUME NEW o \in Options, NEW x \in Draws(o, 0),
         o.backoff = "linear" \/ (o.backoff = "exponential" /\ build # "debug")
  PROVE  ~Panics(o, 0, x)
<1>0. /\ o.initial \in Nat /\ o.cap \in Nat /\ o.cap > 0 /\ o.jitter \in Nat
      /\ Half \in Nat /\ Half > 0 /\ Second \in Nat /\ Second > 0 /\ Second < Half
  BY WidthFacts DEF Options
<1>1. BaseDelay(o, 0) = 0
  BY <1>0 DEF BaseDelay, Power
<1>2. \A y \in Int : 0 <= y /\ y < Half => Fits(y) /\ Wrap(y) = y
  <2> TAKE y \in Int
  <2> HAVE 0 <= y /\ y < Half
  <2>1. Fits(y)
    BY <1>0 DEF Fits
  <2> QED BY <2>1, WrapFacts
<1>3. Fits(0) /\ Wrap(0) = 0
  BY <1>0, <1>2
<1>4. Capped(o, 0) = 0
  BY <1>0, <1>1, <1>3 DEF Capped, Lesser
<1>5. JitterRange(o, 0) = 0
  <2>1. Capped(o, 0) * o.jitter = 0
    BY <1>0, <1>4
  <2>2. Quotient(0, 100) = 0
    BY DEF Quotient
  <2> QED BY <1>0, <2>1, <2>2 DEF JitterRange, Lesser, Greater
<1>6. RangeStart(o, 0) = 0 /\ Fits(-JitterRange(o, 0))
  BY <1>3, <1>5 DEF RangeStart
<1>7. x = 0
  BY <1>5, <1>6 DEF Draws
<1>8. Sum(o, 0, x) = 0
  BY <1>4, <1>7 DEF Sum
<1>9. Ceil(0) = Second - 1
  BY <1>0, <1>3 DEF Ceil, Greater
<1>10. Fits(Ceil(Sum(o, 0, x)))
  BY <1>0, <1>2, <1>8, <1>9
<1> QED BY <1>1, <1>3, <1>5, <1>6, <1>8, <1>10 DEF Panics, Overflows

(* No draw of the jitter panics but for an attempt that cannot be borne.     *)
LEMMA BearableIsSafe ==
  ASSUME NEW o \in Options, NEW a \in Nat, ~Unbearable(o, a), NEW x \in Draws(o, a)
  PROVE  ~Panics(o, a, x)
<1>0. o.backoff = "fixed" \/ o.backoff = "linear" \/ o.backoff = "exponential"
  BY DEF Options
<1>1. CASE a > 0
  BY <1>1, RetryAsPromised DEF Unbearable
<1>2. CASE a = 0 /\ o.backoff = "fixed"
  <2>1. InRange(o, 1)
    BY <1>2 DEF Unbearable
  <2>2. BaseDelay(o, 0) = BaseDelay(o, 1)
    BY <1>2 DEF BaseDelay
  <2>3. JitterRange(o, 0) = JitterRange(o, 1) /\ RangeStart(o, 0) = RangeStart(o, 1)
    BY <2>2 DEF JitterRange, RangeStart, Capped
  <2>4. x \in Draws(o, 1)
    BY <1>2, <2>3 DEF Draws
  <2>5. Sum(o, 0, x) = Sum(o, 1, x)
    BY <2>2 DEF Sum, Capped
  <2>6. ~Panics(o, 1, x)
    BY <2>1, <2>4, RetryAsPromised
  <2> QED BY <1>2, <2>2, <2>3, <2>5, <2>6 DEF Panics, Overflows
<1>3. CASE a = 0 /\ o.backoff # "fixed"
  BY <1>0, <1>3, NoDelayAtAll DEF Unbearable
<1> QED BY <1>1, <1>2, <1>3

-----------------------------------------------------------------------------
(* The life of a job between its failures.                                   *)

(* What the delays rest on: the options of a row are never written again.    *)
DelaysHaveRows == \A i \in Id : delay[i] # NoDelay => Exists(i)

BackoffInv ==
  EnqueueInv /\ TypeOK /\ DelaysHaveRows /\ DelayAsPromised /\ ProcessorSurvives

(* A step of a call makes at most one job, where there was none.             *)
LEMMA RowsStay ==
  ASSUME EnqueueTypeOK, [EnqueueNext]_enqueueVars, NEW i \in Id, rows[i] # NoRow
  PROVE  rows'[i] = rows[i]
<1>1. CASE UNCHANGED rows
  BY <1>1
<1>2. CASE \E c \in Caller : Insert(c)
  <2>1. PICK c \in Caller : Insert(c)
    BY <1>2
  <2>2. PICK x \in Free : Inserted(c, x)
    BY <2>1 DEF Insert
  <2>3. x # i
    BY <2>2 DEF Free
  <2> QED BY <2>2, <2>3 DEF Inserted, EnqueueTypeOK
<1> QED BY <1>1, <1>2 DEF EnqueueNext, enqueueVars, Enqueue, Again, LookUp, InsertFails,
                          InsertNothing, Fetch, Return, Break

(* Whatever happens between its failures, EnqueueJob is as it is on its own. *)
LEMMA CallsAreEnqueues == [Next]_vars => [EnqueueNext]_enqueueVars
<1> SUFFICES ASSUME [Next]_vars PROVE [EnqueueNext]_enqueueVars
  OBVIOUS
<1>1. CASE UNCHANGED vars
  BY <1>1 DEF vars
<1>2. ASSUME NEW c \in Caller, Calls(c)
      PROVE  EnqueueNext
  BY <1>2 DEF Calls, Progress, EnqueueNext
<1>3. ASSUME NEW i \in Id, Start(i) \/ Requeue(i) \/ Retry(i) \/ Bury(i) \/ Revive(i)
      PROVE  UNCHANGED enqueueVars
  BY <1>3 DEF Start, Requeue, Retry, Bury, Revive
<1> QED BY <1>1, <1>2, <1>3 DEF Next


LEMMA BackoffInitKeeps == Init => BackoffInv
<1> SUFFICES ASSUME Init PROVE BackoffInv
  OBVIOUS
<1>1. EnqueueInv
  BY EnqueueInitKeeps DEF Init
<1>2. TypeOK
  BY <1>1, BackoffAssumption DEF Init, TypeOK, EnqueueInv, Wellformed
<1> QED BY <1>1, <1>2 DEF Init, BackoffInv, DelaysHaveRows, DelayAsPromised, ProcessorSurvives

LEMMA Spending ==
  ASSUME TypeOK, NEW h \in Hazard, Spend(h)
  PROVE  left' \in [Hazard -> Nat]
BY DEF TypeOK, Spend

(* What has been computed for a row stays right while the row is there.      *)
LEMMA DelaysStay ==
  ASSUME BackoffInv, UNCHANGED <<build, delay, failed, processor, culprit>>,
         \A i \in Id : Exists(i) => rows'[i] = rows[i]
  PROVE  DelaysHaveRows' /\ DelayAsPromised' /\ ProcessorSurvives'
<1>1. \A i \in Id : delay[i] # NoDelay => rows'[i] = rows[i] /\ Exists(i)
  BY DEF BackoffInv, DelaysHaveRows
<1>2. DelaysHaveRows' /\ DelayAsPromised'
  BY <1>1 DEF BackoffInv, DelaysHaveRows, DelayAsPromised, Exists
<1>3. ProcessorSurvives'
  BY DEF BackoffInv, ProcessorSurvives, Unbearable, Exists
<1> QED BY <1>2, <1>3

LEMMA CallsKeep ==
  ASSUME BackoffInv, EnqueueInv', [EnqueueNext]_enqueueVars, NEW c \in Caller, Calls(c)
  PROVE  BackoffInv'
<1>0. TypeOK /\ EnqueueTypeOK /\ EnqueueTypeOK'
  BY DEF BackoffInv, TypeOK, EnqueueInv, Wellformed
<1>1. UNCHANGED lifeVars
  BY DEF Calls, Progress
<1>2. left' \in [Hazard -> Nat]
  <2>1. UNCHANGED left \/ Spend("call") \/ Spend("break")
    BY DEF Calls, Progress
  <2> QED BY <1>0, <2>1, Spending DEF TypeOK, Hazard
<1>3. TypeOK'
  BY <1>0, <1>1, <1>2 DEF TypeOK, lifeVars
<1>4. \A i \in Id : Exists(i) => rows'[i] = rows[i]
  BY <1>0, RowsStay DEF Exists
<1>5. DelaysHaveRows' /\ DelayAsPromised' /\ ProcessorSurvives'
  BY <1>1, <1>4, DelaysStay DEF lifeVars
<1> QED BY <1>3, <1>5 DEF BackoffInv

LEMMA LifeKeeps ==
  ASSUME BackoffInv, EnqueueInv', NEW i \in Id,
         Start(i) \/ Requeue(i) \/ Bury(i) \/ Revive(i)
  PROVE  BackoffInv'
<1>0. /\ TypeOK /\ EnqueueTypeOK'
      /\ attempt \in [Id -> Nat] /\ runs \in [Id -> Nat]
      /\ status \in [Id -> {"PENDING", "RUNNING", "DEAD"}]
      /\ delay \in [Id -> Int \cup {NoDelay}] /\ failed \in [Id -> Nat]
      /\ left \in [Hazard -> Nat]
  BY DEF BackoffInv, TypeOK, EnqueueInv, Wellformed
<1>1. UNCHANGED <<enqueueVars, build, failed, processor, culprit>> /\ UNCHANGED rows
  BY DEF Start, Requeue, Bury, Revive, enqueueVars
<1>2. left' \in [Hazard -> Nat]
  <2>1. UNCHANGED left \/ Spend("start") \/ Spend("fail") \/ Spend("revive")
    BY DEF Start, Requeue, Bury, Revive
  <2> QED BY <1>0, <2>1, Spending DEF Hazard
<1>3. \A n \in Nat : n > 0 => n - 1 \in Nat
  OBVIOUS
<1>4. /\ attempt' \in [Id -> Nat]
      /\ status' \in [Id -> {"PENDING", "RUNNING", "DEAD"}]
      /\ delay' \in [Id -> Int \cup {NoDelay}]
  BY <1>0 DEF Start, Requeue, Bury, Revive
<1>5. runs' \in [Id -> Nat]
  BY <1>0, <1>3 DEF Start, Requeue, Bury, Revive
<1>6. TypeOK'
  BY <1>0, <1>1, <1>2, <1>4, <1>5 DEF BackoffInv, TypeOK
<1>7. CASE UNCHANGED delay
  BY <1>1, <1>6, <1>7, DelaysStay DEF BackoffInv
<1>8. CASE Revive(i)
  <2>1. delay' = [delay EXCEPT ![i] = NoDelay]
    BY <1>8 DEF Revive
  <2>2. \A x \in Id : delay'[x] # NoDelay => delay'[x] = delay[x]
    BY <1>0, <2>1
  <2>3. DelaysHaveRows' /\ DelayAsPromised'
    BY <1>1, <2>2 DEF BackoffInv, DelaysHaveRows, DelayAsPromised, Exists
  <2>4. ProcessorSurvives'
    BY <1>1 DEF BackoffInv, ProcessorSurvives, Unbearable, Exists
  <2> QED BY <1>6, <2>3, <2>4 DEF BackoffInv
<1> QED BY <1>7, <1>8 DEF Start, Requeue, Bury

(* A retry: a delay in range is as promised, and kills no processor.         *)
LEMMA RetryKeeps ==
  ASSUME BackoffInv, EnqueueInv', NEW i \in Id, Retry(i)
  PROVE  BackoffInv'
<1> DEFINE o == rows[i].options
           a == attempt[i]
<1>0. /\ TypeOK /\ EnqueueTypeOK /\ EnqueueTypeOK'
      /\ attempt \in [Id -> Nat] /\ runs \in [Id -> Nat] /\ runs[i] > 0
      /\ status \in [Id -> {"PENDING", "RUNNING", "DEAD"}]
      /\ delay \in [Id -> Int \cup {NoDelay}] /\ failed \in [Id -> Nat]
      /\ Exists(i) /\ a \in Nat /\ processor = "running"
  BY DEF BackoffInv, TypeOK, EnqueueInv, Wellformed, Retry
<1>1. UNCHANGED <<enqueueVars, build, attempt, left>> /\ UNCHANGED rows
  BY DEF Retry, enqueueVars
<1>2. o \in Options
  BY <1>0 DEF EnqueueTypeOK, Exists, Row
<1>3. PICK x \in Draws(o, a) :
        IF Panics(o, a, x)
        THEN processor' = "dead" /\ culprit' = i /\ UNCHANGED <<status, delay>>
        ELSE /\ status' = [status EXCEPT ![i] = "PENDING"]
             /\ delay' = [delay EXCEPT ![i] = Seconds(o, a, x)]
             /\ UNCHANGED <<processor, culprit>>
  BY DEF Retry
<1>4. Seconds(o, a, x) \in Int
  BY <1>0, <1>2, DelayTypes
<1>5. /\ InRange(o, a) => ~Panics(o, a, x) /\ Promised(o, a, Seconds(o, a, x))
      /\ Panics(o, a, x) => Unbearable(o, a)
  BY <1>0, <1>2, RetryAsPromised, BearableIsSafe
<1>6. failed' = [failed EXCEPT ![i] = a]
  BY DEF Retry
<1>7. runs' \in [Id -> Nat]
  <2>1. runs' = [runs EXCEPT ![i] = @ - 1] /\ runs[i] - 1 \in Nat
    BY <1>0 DEF Retry
  <2> QED BY <1>0, <2>1
<1> HIDE DEF a
<1>8. TypeOK'
  BY <1>0, <1>1, <1>3, <1>4, <1>6, <1>7 DEF TypeOK
<1>9. /\ \A y \in Id : y # i => failed'[y] = failed[y] /\ delay'[y] = delay[y]
      /\ failed'[i] = a
  BY <1>0, <1>3, <1>6
<1>10. ASSUME Panics(o, a, x)
       PROVE  DelaysHaveRows' /\ DelayAsPromised' /\ ProcessorSurvives'
  <2>1. ~InRange(o, a) /\ delay' = delay
    BY <1>3, <1>5, <1>10
  <2>2. DelaysHaveRows' /\ DelayAsPromised'
    BY <1>1, <1>9, <2>1 DEF BackoffInv, DelaysHaveRows, DelayAsPromised, Exists
  <2>3. culprit' = i /\ failed'[culprit'] = a /\ Unbearable(o, a)
    BY <1>3, <1>5, <1>9, <1>10
  <2>4. ProcessorSurvives'
    BY <1>0, <1>1, <2>3 DEF ProcessorSurvives, Unbearable, Exists
  <2> QED BY <2>2, <2>4
<1>11. ASSUME ~Panics(o, a, x)
       PROVE  DelaysHaveRows' /\ DelayAsPromised' /\ ProcessorSurvives'
  <2>1. delay'[i] = Seconds(o, a, x) /\ processor' = "running"
    BY <1>0, <1>3, <1>11
  <2>2. DelaysHaveRows'
    BY <1>0, <1>1, <1>9 DEF BackoffInv, DelaysHaveRows, Exists
  <2>3. ASSUME NEW y \in Id, delay'[y] # NoDelay, InRange(rows'[y].options, failed'[y])
        PROVE  Promised(rows'[y].options, failed'[y], delay'[y])
    <3>1. CASE y = i
      BY <1>1, <1>5, <1>9, <2>1, <2>3, <3>1
    <3>2. CASE y # i
      BY <1>1, <1>9, <2>3, <3>2 DEF BackoffInv, DelayAsPromised
    <3> QED BY <3>1, <3>2
  <2>4. DelayAsPromised'
    BY <2>3 DEF DelayAsPromised
  <2>5. ProcessorSurvives'
    BY <2>1 DEF ProcessorSurvives
  <2> QED BY <2>2, <2>4, <2>5
<1> QED BY <1>8, <1>10, <1>11 DEF BackoffInv

LEMMA BackoffStep == BackoffInv /\ [Next]_vars => BackoffInv'
<1> SUFFICES ASSUME BackoffInv, [Next]_vars PROVE BackoffInv'
  OBVIOUS
<1>1. [EnqueueNext]_enqueueVars
  BY CallsAreEnqueues
<1>2. EnqueueInv'
  BY <1>1, EnqueueStepKeeps DEF BackoffInv
<1>3. CASE UNCHANGED vars
  <2>1. UNCHANGED <<build, attempt, runs, status, delay, failed, processor, culprit, left, rows>>
    BY <1>3 DEF vars, lifeVars, enqueueVars
  <2>2. TypeOK'
    BY <1>2, <2>1 DEF BackoffInv, TypeOK, EnqueueInv, Wellformed
  <2> QED BY <1>2, <2>1, <2>2, DelaysStay DEF BackoffInv
<1> QED BY <1>1, <1>2, <1>3, CallsKeep, LifeKeeps, RetryKeeps DEF Next

(* EnqueueJob keeps its promises while the jobs it made run, fail, are       *)
(* retried and revived: its handlers share nothing with those but the rows.  *)
THEOREM EnqueuesAmidRetries == Spec => EnqueueSpec
<1>1. Init => EnqueueInit
  BY DEF Init
<1> QED BY <1>1, CallsAreEnqueues, PTL DEF Spec, EnqueueSpec

(* Every variable keeps its type: whatever options callers send and however  *)
(* often a job fails, the delay computed for it is a whole number.           *)
THEOREM BackoffTypes == Spec => []TypeOK
<1>1. BackoffInv => TypeOK
  BY DEF BackoffInv
<1> QED BY <1>1, BackoffInitKeeps, BackoffStep, PTL DEF Spec

(* A retry is scheduled for when the options of the job say, jitter          *)
(* included: for all options, attempts, draws and builds whose delay fits.   *)
THEOREM RetriesOnTime == Spec => []DelayAsPromised
<1>1. BackoffInv => DelayAsPromised
  BY DEF BackoffInv
<1> QED BY <1>1, BackoffInitKeeps, BackoffStep, PTL DEF Spec

(* The batch processor dies of no failure but one whose own delay leaves the *)
(* width of the arithmetic, or of attempt 0 of an exponential delay in a     *)
(* debug build: what Unbearable says of the job it died of.                  *)
THEOREM ProcessorLives == Spec => []ProcessorSurvives
<1>1. BackoffInv => ProcessorSurvives
  BY DEF BackoffInv
<1> QED BY <1>1, BackoffInitKeeps, BackoffStep, PTL DEF Spec
=============================================================================
