---------------------------- MODULE Enqueue ----------------------------
(***************************************************************************)
(* EnqueueJob: the handler (core/src/server/service.rs), insert_job and    *)
(* get_job_by_idempotency_key of both storages, and the enqueue calls of   *)
(* the SDKs.  Calls run concurrently, on one server or on several; each    *)
(* statement is a step.  A key stands for a pair of a function's name and  *)
(* an idempotency key, which the table holds unique.                       *)
(***************************************************************************)
EXTENDS Integers, FiniteSets

CONSTANTS
  Id,        \* ids of jobs (uuids)
  Caller,    \* threads that enqueue
  Key,       \* pairs of a name and an idempotency key
  NoKey,     \* a call without a key
  NoId, NoRow, NoRaw,
  Asked,     \* the options that callers may send
  Default,   \* the defaults of the server
  Settings   \* the storages looked at: "sqlite", "postgres"

(* max_attempts, the strategy, and in ms initial_delay_ms and max_delay_ms; *)
(* jitter in percent.  timeout_ms only matters to startup recovery.         *)
Raw     == [max : Int, backoff : STRING, initial : Int, cap : Int, jitter : Int]
Options == [max : Nat \ {0}, backoff : {"fixed", "linear", "exponential"},
            initial : Nat \ {0}, cap : Nat \ {0}, jitter : Nat \ {0}]

ASSUME EnqueueAssumption ==
  /\ NoKey \notin Key /\ NoId \notin Id
  /\ \A raw \in Asked : raw.max \in Int /\ raw.initial \in Int /\ raw.cap \in Int /\ raw.jitter \in Int
  /\ Default \in Options
  /\ Settings \subseteq {"sqlite", "postgres"}

VARIABLES
  setting,  \* the storage
  rows,     \* the jobs table: key and options of each job
  call,     \* what each caller, and the handler of its call, is doing
  answers   \* history: the answers callers got for a key

enqueueVars == <<setting, rows, call, answers>>

Row   == [key : Key \cup {NoKey}, options : Options]
Phase == {"idle", "looking", "inserting", "fetching", "answering", "failed", "done"}
Call  == [phase : Phase, key : Key \cup {NoKey}, raw : Asked \cup {NoRaw},
          id : Id \cup {NoId}, deduplicated : BOOLEAN]
Answer == [caller : Caller, key : Key, id : Id, deduplicated : BOOLEAN]

(* A missing row or option is none of the values that may be there.         *)
ASSUME NothingAssumption == NoRow \notin Row /\ NoRaw \notin Asked

EnqueueTypeOK ==
  /\ setting \in Settings
  /\ rows \in [Id -> Row \cup {NoRow}]
  /\ call \in [Caller -> Call]
  /\ answers \in SUBSET Answer

EnqueueInit ==
  /\ setting \in Settings
  /\ rows = [i \in Id |-> NoRow]
  /\ call = [c \in Caller |-> [phase |-> "idle", key |-> NoKey, raw |-> NoRaw, id |-> NoId,
                               deduplicated |-> FALSE]]
  /\ answers = {}

-----------------------------------------------------------------------------
(* Mutant of Given: any value is taken as it is.                            *)
GivenAny(x, default) == x

(* An option that is sent as 0, as the SDKs do for "not set", or is         *)
(* negative is the server's.                                                *)
Given(x, default) == IF x > 0 THEN x ELSE default

Stored(raw) ==
  [max     |-> Given(raw.max, Default.max),
   backoff |-> IF raw.backoff \in {"fixed", "linear"} THEN raw.backoff ELSE "exponential",
   initial |-> Given(raw.initial, Default.initial),
   cap     |-> Given(raw.cap, Default.cap),
   jitter  |-> Given(raw.jitter, Default.jitter)]

(* The rows of a key; rows without a key are all different.                 *)
WithKey(k) == {i \in Id : rows[i] # NoRow /\ rows[i].key = k}

Free == {i \in Id : rows[i] = NoRow}

Phases(c, from) == call[c].phase \in from
To(c, phase) == call' = [call EXCEPT ![c].phase = phase]

Answering(c, id, deduplicated) ==
  call' = [call EXCEPT ![c].phase = "answering", ![c].id = id, ![c].deduplicated = deduplicated]

(* A caller enqueues, with or without a key.  One that failed before calls  *)
(* again with what it sent.                                                 *)
Enqueue(c, k, raw) ==
  /\ Phases(c, {"idle"})
  /\ call' = [call EXCEPT ![c].phase = IF k = NoKey THEN "inserting" ELSE "looking",
                          ![c].key = k, ![c].raw = raw]
  /\ UNCHANGED <<setting, rows, answers>>

Again(c) ==
  /\ Phases(c, {"failed"})
  /\ To(c, IF call[c].key = NoKey THEN "inserting" ELSE "looking")
  /\ UNCHANGED <<setting, rows, answers>>

(* Mutant of LookUp: the key of another function is looked for.             *)
LookUpElsewhere(c) ==
  /\ Phases(c, {"looking"})
  /\ To(c, "inserting")
  /\ UNCHANGED <<setting, rows, answers>>

(* get_job_by_idempotency_key.                                              *)
LookUp(c) ==
  /\ Phases(c, {"looking"})
  /\ IF WithKey(call[c].key) = {} THEN To(c, "inserting")
     ELSE \E i \in WithKey(call[c].key) : Answering(c, i, TRUE)
  /\ UNCHANGED <<setting, rows, answers>>

(* The unique index; keys that are NULL do not conflict.                    *)
Conflict(c) == call[c].key # NoKey /\ WithKey(call[c].key) # {}

Inserted(c, i) == rows' = [rows EXCEPT ![i] = [key |-> call[c].key, options |-> Stored(call[c].raw)]]

(* Mutant of Insert: no unique index on the table.                          *)
InsertTwice(c) ==
  /\ Phases(c, {"inserting"})
  /\ \E i \in Free : Inserted(c, i) /\ Answering(c, i, FALSE)
  /\ UNCHANGED <<setting, answers>>

(* insert_job.                                                              *)
Insert(c) ==
  /\ Phases(c, {"inserting"})
  /\ ~Conflict(c)
  /\ \E i \in Free : Inserted(c, i) /\ Answering(c, i, FALSE)
  /\ UNCHANGED <<setting, answers>>

(* The key was inserted since the lookup: SQLite fails the call with an     *)
(* internal error ...                                                       *)
InsertFails(c) ==
  /\ Phases(c, {"inserting"}) /\ setting = "sqlite"
  /\ Conflict(c)
  /\ To(c, "failed")
  /\ UNCHANGED <<setting, rows, answers>>

(* ... while Postgres does nothing and looks the row up, which the handler  *)
(* then reports like one it inserted.                                       *)
InsertNothing(c) ==
  /\ Phases(c, {"inserting"}) /\ setting = "postgres"
  /\ Conflict(c)
  /\ To(c, "fetching")
  /\ UNCHANGED <<setting, rows, answers>>

(* Mutant of Fetch: the row that lost the race is returned, as the fall     *)
(* through of insert_job would.                                             *)
FetchOwn(c) ==
  /\ Phases(c, {"fetching"})
  /\ \E i \in Free : Answering(c, i, FALSE)
  /\ UNCHANGED <<setting, rows, answers>>

Fetch(c) ==
  /\ Phases(c, {"fetching"})
  /\ \E i \in WithKey(call[c].key) : Answering(c, i, FALSE)
  /\ UNCHANGED <<setting, rows, answers>>

(* The caller gets its answer.                                              *)
Return(c) ==
  /\ Phases(c, {"answering"})
  /\ To(c, "done")
  /\ answers' = IF call[c].key = NoKey THEN answers
                ELSE answers \cup {[caller |-> c, key |-> call[c].key, id |-> call[c].id,
                                    deduplicated |-> call[c].deduplicated]}
  /\ UNCHANGED <<setting, rows>>

(* The connection of a call breaks, or a statement fails: the handler goes  *)
(* no further, and what it inserted stays.                                  *)
Break(c) ==
  /\ Phases(c, {"looking", "inserting", "fetching", "answering"})
  /\ To(c, "failed")
  /\ UNCHANGED <<setting, rows, answers>>

EnqueueNext == \E c \in Caller :
  \/ \E k \in Key \cup {NoKey} : \E raw \in Asked : Enqueue(c, k, raw)
  \/ Again(c) \/ LookUp(c) \/ Insert(c) \/ InsertFails(c) \/ InsertNothing(c)
  \/ Fetch(c) \/ Return(c) \/ Break(c)

EnqueueSpec == EnqueueInit /\ [][EnqueueNext]_enqueueVars
-----------------------------------------------------------------------------
(* However calls with one key race, break and are repeated, on one server   *)
(* or several, they make one job, and every answer names it.                *)
OneJobPerKey ==
  \A k \in Key :
    /\ \A i1, i2 \in WithKey(k) : i1 = i2
    /\ \A a \in answers : a.key = k => a.id \in WithKey(k)

(* "True if job already existed": of the calls with one key at most one is  *)
(* told that it made the job.  On Postgres the loser of a race is told so   *)
(* as well.                                                                 *)
MadeOnce ==
  setting = "sqlite" =>
    \A a, b \in answers : a.key = b.key /\ ~a.deduplicated /\ ~b.deduplicated => a = b
=============================================================================
