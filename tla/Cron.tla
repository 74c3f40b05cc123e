------------------------------ MODULE Cron ------------------------------
(***************************************************************************)
(* Recurring schedules: the loop of core/src/scheduler/cron.rs on every    *)
(* node, the schedules table of core/src/storage/postgres.rs (several      *)
(* nodes) or sqlite.rs (one), and the requests of service.rs on it.        *)
(*                                                                         *)
(* On Postgres a trigger pass is a transaction that holds row locks from   *)
(* its SELECT to its commit; other writers of a row wait for the lock,     *)
(* readers see the row as last committed.  resume and update read a row,   *)
(* compute, and write it in a later statement.  On SQLite one mutex makes  *)
(* a trigger pass and a resume single steps, but not an update.            *)
(*                                                                         *)
(* Time is counted in seconds, the unit of the columns.  A cron expression *)
(* with its time zone is known by the next occurrence it has after a given *)
(* time.  Handler options and arguments are left out.                      *)
(***************************************************************************)
EXTENDS Integers, Sequences, FiniteSets

CONSTANTS
  Schedule,      \* ids of schedules; each stands for a function name of its own
  CronExpr,      \* cron expressions
  NextCronTime,  \* next_cron_time: expression -> time -> next occurrence
  Node, NoNode,  \* server processes, and "no lock holder"
  Request,       \* slots for resume and update calls in progress
  PollInterval,  \* longest sleep of the loop (10 s)
  TriggerMax,    \* LIMIT of a trigger pass (100)
  Horizon,       \* bound of the model: the clock stops there
  Settings       \* the deployments to consider

NoNext == -1     \* the expression has no later occurrence: next_cron_time errs
Time == 0..Horizon
Operation == {"create", "pause", "resume", "update", "delete", "fail"}

(* A deployment: its storage, the nodes that run, whether they are prompt,  *)
(* that is, done with their work before a second passes, and, a bound of    *)
(* the model, how often each operation may happen.                          *)
Setting == [storage : {"sqlite", "postgres"}, up : SUBSET Node, prompt : BOOLEAN,
            allowed : [Operation -> Nat]]

ASSUME CronAssumption ==
  /\ NoNode \notin Node
  /\ CronExpr # {}
  /\ PollInterval \in Nat \ {0}
  /\ TriggerMax \in Nat \ {0}
  /\ Horizon \in Nat
  /\ Settings \subseteq Setting
  /\ \A g \in Settings : g.storage = "sqlite" => \A n, m \in g.up : n = m
  /\ \A c \in CronExpr : \A t \in Time :
       /\ NextCronTime[c][t] \in Int
       /\ NextCronTime[c][t] = NoNext \/ NextCronTime[c][t] > t

VARIABLES
  setting,    \* the deployment
  clock,      \* the time
  schedules,  \* the table: status, expression and next_run_at of a schedule
  runs,       \* the run ids (next_run_at) of the jobs of a schedule, as inserted
  lock,       \* the node whose transaction has locked the row
  loop,       \* the cron loop of each node
  calls,      \* resume and update calls between their read and their write
  used        \* how often each operation has happened

vars == <<setting, clock, schedules, runs, lock, loop, calls, used>>

Row == [status : {"absent", "active", "paused", "deleted"}, cron : CronExpr, next : Nat]

(* "awake": about to trigger; "tx": holds locks; "plan": about to compute   *)
(* how long to sleep.  time is when the pass began ("tx"), or when the      *)
(* sleep ends ("sleep").                                                    *)
Loop == [at : {"awake", "tx", "plan", "sleep"}, time : Nat]

NoCall == [op |-> "none"]
Call == {NoCall}
  \cup [op : {"resume"}, schedule : Schedule, cron : CronExpr, since : Time]
  \cup [op : {"update"}, schedule : Schedule, cron : CronExpr, next : Nat]

TypeOK ==
  /\ setting \in Settings
  /\ clock \in Time
  /\ schedules \in [Schedule -> Row]
  /\ runs \in [Schedule -> Seq(Nat)]
  /\ lock \in [Schedule -> Node \cup {NoNode}]
  /\ loop \in [Node -> Loop]
  /\ calls \in [Request -> Call]
  /\ used \in [Operation -> Nat]

Init ==
  /\ setting \in Settings
  /\ clock = 0
  /\ schedules = [s \in Schedule |->
                    [status |-> "absent", cron |-> CHOOSE c \in CronExpr : TRUE, next |-> 0]]
  /\ runs = [s \in Schedule |-> <<>>]
  /\ lock = [s \in Schedule |-> NoNode]
  /\ loop = [n \in Node |-> [at |-> "awake", time |-> 0]]
  /\ calls = [r \in Request |-> NoCall]
  /\ used = [o \in Operation |-> 0]

Spend(o) == used[o] < setting.allowed[o] /\ used' = [used EXCEPT ![o] = @ + 1]
OnPostgres == setting.storage = "postgres"

(* Mutant: the rows are selected without FOR UPDATE. *)
NoRowLocks(s) == s \in Schedule

Unlocked(s) == lock[s] = NoNode
Set(s, status, cron, next) ==
  schedules' = [schedules EXCEPT ![s] = [status |-> status, cron |-> cron, next |-> next]]

-----------------------------------------------------------------------------
(* The requests. *)

CreateSchedule(s, c) ==
  /\ schedules[s].status = "absent"
  /\ NextCronTime[c][clock] # NoNext
  /\ Spend("create")
  /\ Set(s, "active", c, NextCronTime[c][clock])
  /\ UNCHANGED <<setting, clock, runs, lock, loop, calls>>

PauseSchedule(s) ==
  /\ schedules[s].status = "active"
  /\ Unlocked(s)
  /\ Spend("pause")
  /\ Set(s, "paused", schedules[s].cron, schedules[s].next)
  /\ UNCHANGED <<setting, clock, runs, lock, loop, calls>>

DeleteSchedule(s) ==
  /\ schedules[s].status \in {"active", "paused"}
  /\ Unlocked(s)
  /\ Spend("delete")
  /\ Set(s, "deleted", schedules[s].cron, schedules[s].next)
  /\ UNCHANGED <<setting, clock, runs, lock, loop, calls>>

(* Mutant: resume without AND status = 'paused'. *)
ResumeAnyStatus(s) ==
  /\ ~OnPostgres
  /\ schedules[s].status # "absent"
  /\ NextCronTime[schedules[s].cron][clock] # NoNext
  /\ Spend("resume")
  /\ Set(s, "active", schedules[s].cron, NextCronTime[schedules[s].cron][clock])
  /\ UNCHANGED <<setting, clock, runs, lock, loop, calls>>

(* resume_schedule on SQLite, under the mutex. *)
ResumeAtOnce(s) ==
  /\ ~OnPostgres
  /\ schedules[s].status = "paused"
  /\ NextCronTime[schedules[s].cron][clock] # NoNext
  /\ Spend("resume")
  /\ Set(s, "active", schedules[s].cron, NextCronTime[schedules[s].cron][clock])
  /\ UNCHANGED <<setting, clock, runs, lock, loop, calls>>

(* resume_schedule on Postgres: it reads the row, ...                        *)
ResumeRead(r, s) ==
  /\ OnPostgres
  /\ calls[r] = NoCall
  /\ schedules[s].status = "paused"
  /\ Spend("resume")
  /\ calls' = [calls EXCEPT ![r] = [op |-> "resume", schedule |-> s,
                                    cron |-> schedules[s].cron, since |-> clock]]
  /\ UNCHANGED <<setting, clock, schedules, runs, lock, loop>>

(* ... computes the next occurrence at some time since, and writes the row,  *)
(* whatever its status has become.                                           *)
ResumeWrite(r) ==
  LET c == calls[r]
  IN  /\ c.op = "resume"
      /\ Unlocked(c.schedule)
      /\ \E t \in c.since..clock :
           IF NextCronTime[c.cron][t] = NoNext
           THEN UNCHANGED schedules
           ELSE Set(c.schedule, "active", schedules[c.schedule].cron, NextCronTime[c.cron][t])
      /\ calls' = [calls EXCEPT ![r] = NoCall]
      /\ UNCHANGED <<setting, clock, runs, lock, loop, used>>

(* update_schedule, on either storage: reads the row; a new expression gets  *)
(* a new next_run_at, other changes keep the one just read.                  *)
UpdateRead(r, s) ==
  /\ calls[r] = NoCall
  /\ schedules[s].status \in {"active", "paused"}
  /\ Spend("update")
  /\ \/ calls' = [calls EXCEPT ![r] = [op |-> "update", schedule |-> s,
                                       cron |-> schedules[s].cron, next |-> schedules[s].next]]
     \/ \E c \in CronExpr :
          /\ NextCronTime[c][clock] # NoNext
          /\ calls' = [calls EXCEPT ![r] = [op |-> "update", schedule |-> s,
                                            cron |-> c, next |-> NextCronTime[c][clock]]]
  /\ UNCHANGED <<setting, clock, schedules, runs, lock, loop>>

(* ... and writes what it read or computed, unless the row is deleted.       *)
UpdateWrite(r) ==
  LET c == calls[r]
  IN  /\ c.op = "update"
      /\ Unlocked(c.schedule)
      /\ IF schedules[c.schedule].status = "deleted"
         THEN UNCHANGED schedules
         ELSE Set(c.schedule, schedules[c.schedule].status, c.cron, c.next)
      /\ calls' = [calls EXCEPT ![r] = NoCall]
      /\ UNCHANGED <<setting, clock, runs, lock, loop, used>>

(* Either call fails between its two statements. *)
CallFails(r) ==
  /\ calls[r] # NoCall
  /\ Spend("fail")
  /\ calls' = [calls EXCEPT ![r] = NoCall]
  /\ UNCHANGED <<setting, clock, schedules, runs, lock, loop>>

-----------------------------------------------------------------------------
(* The cron loop. *)

Up(n) == n \in setting.up

(* Mutant: schedules of the next second are triggered ahead. *)
DueSoon(s) == schedules[s].status = "active" /\ schedules[s].next <= clock + 1

Due(s) == schedules[s].status = "active" /\ schedules[s].next <= clock
Smaller(a, b) == IF a < b THEN a ELSE b

(* The rows a trigger pass selects: due, not locked by others, LIMIT.        *)
Selectable(S) ==
  LET due == {s \in Schedule : Due(s) /\ Unlocked(s)}
  IN  S \subseteq due /\ Cardinality(S) = Smaller(TriggerMax, Cardinality(due))

(* Mutant: the insert does not look for the key. *)
InsertedAgain(keys, run) == Append(keys, run)

(* INSERT ... ON CONFLICT (name, idempotency_key) DO NOTHING, the key being   *)
(* the schedule and its next_run_at.                                         *)
Inserted(keys, run) ==
  IF \E i \in DOMAIN keys : keys[i] = run THEN keys ELSE Append(keys, run)

(* Mutant: the row is moved on, and its job left out. *)
AdvanceOnly(S, at) ==
  /\ schedules' = [s \in Schedule |->
                     IF s \in S /\ NextCronTime[schedules[s].cron][at[s]] # NoNext
                     THEN [schedules[s] EXCEPT !.next = NextCronTime[schedules[s].cron][at[s]]]
                     ELSE schedules[s]]
  /\ UNCHANGED runs

(* Mutant: a schedule without a next time is not skipped. *)
AdvanceAll(S, at) ==
  /\ schedules' = [s \in Schedule |->
                     IF s \in S THEN [schedules[s] EXCEPT !.next = NextCronTime[schedules[s].cron][at[s]]]
                     ELSE schedules[s]]
  /\ runs' = [s \in Schedule |->
                IF s \in S THEN Inserted(runs[s], schedules[s].next) ELSE runs[s]]

(* Every selected schedule gets its job and its next time, computed at at[s];*)
(* one without a next time is skipped.                                       *)
Advance(S, at) ==
  LET next(s) == NextCronTime[schedules[s].cron][at[s]]
      done == {s \in S : next(s) # NoNext}
  IN  /\ schedules' = [s \in Schedule |->
                         IF s \in done THEN [schedules[s] EXCEPT !.next = next(s)]
                         ELSE schedules[s]]
      /\ runs' = [s \in Schedule |->
                    IF s \in done THEN Inserted(runs[s], schedules[s].next) ELSE runs[s]]

Goes(n, at, time) == loop' = [loop EXCEPT ![n] = [at |-> at, time |-> time]]

(* trigger_due_schedules on SQLite, in one transaction under the mutex.      *)
TriggerAtOnce(n) ==
  /\ Up(n) /\ ~OnPostgres
  /\ loop[n].at = "awake"
  /\ \E S \in SUBSET Schedule : Selectable(S) /\ Advance(S, [s \in S |-> clock])
  /\ Goes(n, "plan", 0)
  /\ UNCHANGED <<setting, clock, lock, calls, used>>

(* trigger_due_schedules on Postgres: SELECT ... FOR UPDATE SKIP LOCKED, ... *)
TriggerSelect(n) ==
  /\ Up(n) /\ OnPostgres
  /\ loop[n].at = "awake"
  /\ \E S \in SUBSET Schedule :
       /\ Selectable(S)
       /\ lock' = [s \in Schedule |-> IF s \in S THEN n ELSE lock[s]]
       /\ IF S = {} THEN Goes(n, "plan", 0) ELSE Goes(n, "tx", clock)
  /\ UNCHANGED <<setting, clock, schedules, runs, calls, used>>

Locked(n) == {s \in Schedule : lock[s] = n}

Released(n) == [s \in Schedule |-> IF lock[s] = n THEN NoNode ELSE lock[s]]

(* ... the inserts and updates become visible, and the locks go, at commit.  *)
TriggerCommit(n) ==
  /\ loop[n].at = "tx"
  /\ \E at \in [Locked(n) -> loop[n].time..clock] : Advance(Locked(n), at)
  /\ lock' = Released(n)
  /\ Goes(n, "plan", 0)
  /\ UNCHANGED <<setting, clock, calls, used>>

(* A statement of the pass fails: it is rolled back, and logged.             *)
TriggerFails(n) ==
  /\ Up(n)
  /\ loop[n].at \in {"awake", "tx"}
  /\ Spend("fail")
  /\ lock' = Released(n)
  /\ Goes(n, "plan", 0)
  /\ UNCHANGED <<setting, clock, schedules, runs, calls>>

(* The process dies, and a new one starts its loop.                          *)
Restart(n) ==
  /\ Up(n)
  /\ Spend("fail")
  /\ lock' = Released(n)
  /\ Goes(n, "awake", 0)
  /\ UNCHANGED <<setting, clock, schedules, runs, calls>>

Active == {s \in Schedule : schedules[s].status = "active"}

(* SELECT MIN(next_run_at) FROM schedules WHERE status = 'active': none or one. *)
Earliest ==
  {schedules[s].next : s \in {e \in Active : \A s \in Active : schedules[e].next <= schedules[s].next}}

(* Mutant: while there is no active schedule the loop just sleeps. *)
AlarmsUncapped ==
  IF Active = {} THEN {Horizon}
  ELSE {IF t <= clock THEN clock + 1 ELSE Smaller(t, clock + PollInterval) : t \in Earliest}

(* When the loop wakes up: at the earliest next_run_at, 100 ms from now when *)
(* that is in the past, and after PollInterval at the latest.                *)
Alarms ==
  IF Active = {} THEN {clock + PollInterval}
  ELSE UNION {IF t <= clock THEN {clock, clock + 1}
              ELSE {Smaller(t, clock + PollInterval)} : t \in Earliest}

(* get_next_schedule_time, and the sleep; PollInterval when it fails.         *)
Plan(n) ==
  /\ loop[n].at = "plan"
  /\ \/ \E time \in Alarms : Goes(n, "sleep", time) /\ UNCHANGED used
     \/ Goes(n, "sleep", clock + PollInterval) /\ Spend("fail")
  /\ UNCHANGED <<setting, clock, schedules, runs, lock, calls>>

(* The sleep is over.  The clock of the model stands for all later times once*)
(* it has reached the horizon.                                               *)
Wake(n) ==
  /\ loop[n].at = "sleep"
  /\ loop[n].time <= clock \/ clock = Horizon
  /\ Goes(n, "awake", 0)
  /\ UNCHANGED <<setting, clock, schedules, runs, lock, calls, used>>

(* Time passes; in a prompt deployment, once every loop is asleep.           *)
Tick ==
  /\ clock < Horizon
  /\ setting.prompt =>
       /\ \A n \in setting.up : loop[n].at = "sleep" /\ loop[n].time > clock
       /\ \A r \in Request : calls[r] = NoCall
  /\ clock' = clock + 1
  /\ UNCHANGED <<setting, schedules, runs, lock, loop, calls, used>>

-----------------------------------------------------------------------------
Requests ==
  \/ \E s \in Schedule : \/ \E c \in CronExpr : CreateSchedule(s, c)
                         \/ PauseSchedule(s)
                         \/ DeleteSchedule(s)
                         \/ ResumeAtOnce(s)
  \/ \E r \in Request : \/ \E s \in Schedule : ResumeRead(r, s) \/ UpdateRead(r, s)
                        \/ ResumeWrite(r)
                        \/ UpdateWrite(r)
                        \/ CallFails(r)

Pass(n) == TriggerAtOnce(n) \/ TriggerSelect(n) \/ TriggerCommit(n) \/ Plan(n) \/ Wake(n)

Next == Requests \/ (\E n \in Node : Pass(n) \/ TriggerFails(n) \/ Restart(n)) \/ Tick

Spec == Init /\ [][Next]_vars

(* Each loop keeps running, a call gets to its write, and time passes.       *)
Fairness ==
  /\ WF_vars(Tick)
  /\ \A n \in Node : WF_vars(Pass(n))
  /\ \A r \in Request : WF_vars(ResumeWrite(r) \/ UpdateWrite(r))

FairSpec == Spec /\ Fairness
-----------------------------------------------------------------------------
(* What a trigger pass has selected stays due until the pass commits: no     *)
(* pause, update or other node gets in between; and no lock outlives its     *)
(* pass.                                                                     *)
LockedStaysDue ==
  \A s \in Schedule : lock[s] # NoNode => loop[lock[s]].at = "tx" /\ Due(s)

(* However many nodes trigger, and whatever stale row an update writes back, *)
(* an occurrence of a schedule gets one job.                                 *)
OneJobPerOccurrence ==
  \A s \in Schedule : \A i, k \in DOMAIN runs[s] : runs[s][i] = runs[s][k] => i = k

(* No job before its time. *)
NeverEarly == \A s \in Schedule : \A i \in DOMAIN runs[s] : runs[s][i] <= clock

(* "Pause a schedule (stop triggering)": once a pause or a delete is answered*)
(* no job of the schedule appears, even from a pass that began before.       *)
PausedIsQuiet ==
  [][\A s \in Schedule : runs'[s] # runs[s] => schedules[s].status = "active"]_vars

(* The schedule still has an occurrence to come. *)
Recurs(s) == NextCronTime[schedules[s].cron][clock] # NoNext

(* A resume or an update of s has read its row and not written it yet.        *)
BeingChanged(s) == \E r \in Request : calls[r] # NoCall /\ calls[r].schedule = s

(* Of an active schedule whose time has come, the job is created, whoever    *)
(* fails: no pass moves its next_run_at on without.  Only a request on the    *)
(* schedule may take the occurrence away (pause and delete leave it inactive, *)
(* an update is in progress right before it writes another time), or there   *)
(* is none after it.                                                         *)
DueIsTriggered ==
  \A s \in Schedule : \A t \in Time :
    (schedules[s].status = "active" /\ schedules[s].next = t)
      ~> \/ \E i \in DOMAIN runs[s] : runs[s][i] = t
         \/ schedules[s].status # "active"
         \/ BeingChanged(s)
         \/ ~Recurs(s)

(* With prompt nodes a schedule waits at most PollInterval for its job,      *)
(* because no loop sleeps longer, whatever was created or resumed while it   *)
(* slept; each failure costs another PollInterval.  An update may write a    *)
(* next_run_at back that has passed long ago.                                *)
LatenessBounded ==
  \A s \in Schedule :
    (setting.prompt /\ schedules[s].status = "active" /\ Recurs(s) /\ used["update"] = 0) =>
      clock <= schedules[s].next + PollInterval * (1 + used["fail"])

(* What it takes of a deployment and of the expressions: some server runs,   *)
(* one pass takes all the schedules there are, and an expression without a   *)
(* later occurrence gets none again.                                         *)
SomeServer == \A g \in Settings : g.up # {}
PassTakesAll == IsFiniteSet(Schedule) /\ Cardinality(Schedule) <= TriggerMax
OverForGood ==
  \A c \in CronExpr : \A t, u \in Time :
    t <= u /\ NextCronTime[c][t] = NoNext => NextCronTime[c][u] = NoNext

(* A resume on Postgres that read s before the present state ends.           *)
LateResume(s) ==
  OnPostgres /\ \E r \in Request : /\ calls[r].op = "resume" /\ calls[r].schedule = s
                                 /\ calls'[r] = NoCall

(* delete_schedule is for good, whatever other call or pass on the schedule  *)
(* was in progress, but for one: on Postgres a resume that read the row      *)
(* before the delete writes ACTIVE over it.  On SQLite nothing does.         *)
DeletedForGood ==
  [][\A s \in Schedule :
        schedules[s].status = "deleted" /\ schedules'[s].status # "deleted" => LateResume(s)]_vars
=============================================================================
