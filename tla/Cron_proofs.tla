-------------------------- MODULE Cron_proofs ---------------------------
(***************************************************************************)
(* Proofs about recurring schedules, for any number of schedules, nodes    *)
(* and calls and any cron expressions.  One inductive invariant, CronInv,  *)
(* carries them: the lock of a trigger pass keeps what it selected due, so *)
(* that what it inserts at commit is an occurrence whose time has come.    *)
(***************************************************************************)
EXTENDS Cron, FiniteSetTheorems, SequenceTheorems, TLAPS

CronInv == TypeOK /\ LockedStaysDue /\ OneJobPerOccurrence /\ NeverEarly

-----------------------------------------------------------------------------
(* A next occurrence, where there is one, is a time after the given one.     *)
LEMMA NextTimes ==
  ASSUME NEW c \in CronExpr, NEW t \in Time, NextCronTime[c][t] # NoNext
  PROVE  NextCronTime[c][t] \in Nat
<1>1. NextCronTime[c][t] \in Int /\ NextCronTime[c][t] > t
  BY CronAssumption
<1> QED BY <1>1 DEF Time

LEMMA TimesBetween ==
  ASSUME NEW a \in Nat, NEW b \in Time
  PROVE  \A t \in a..b : t \in Time
BY CronAssumption DEF Time

(* What Spend does to the counters. *)
LEMMA Spending ==
  ASSUME TypeOK, NEW o \in Operation, Spend(o)
  PROVE  used' \in [Operation -> Nat]
BY DEF TypeOK, Spend

(* Writing one well-formed row keeps the table well formed. *)
LEMMA Setting1 ==
  ASSUME TypeOK, NEW s \in Schedule, NEW st \in {"active", "paused", "deleted"},
         NEW c \in CronExpr, NEW t \in Nat, Set(s, st, c, t)
  PROVE  /\ schedules' \in [Schedule -> Row]
         /\ \A x \in Schedule : x # s => schedules'[x] = schedules[x]
         /\ schedules'[s].status = st
<1> DEFINE row == [status |-> st, cron |-> c, next |-> t]
<1>1. row \in Row /\ row.status = st
  BY DEF Row
<1>2. schedules' = [schedules EXCEPT ![s] = row] /\ schedules \in [Schedule -> Row]
  BY DEF Set, TypeOK
<1> HIDE DEF row
<1> QED BY <1>1, <1>2

(* The insert adds the run id where it is missing, at the end. *)
LEMMA InsertedFacts ==
  ASSUME NEW q \in Seq(Nat), NEW t \in Nat
  PROVE  /\ Inserted(q, t) \in Seq(Nat)
         /\ \A i \in DOMAIN Inserted(q, t) :
              (i \in DOMAIN q /\ Inserted(q, t)[i] = q[i]) \/ Inserted(q, t)[i] = t
         /\ (\A i, k \in DOMAIN q : q[i] = q[k] => i = k)
              => \A i, k \in DOMAIN Inserted(q, t) :
                   Inserted(q, t)[i] = Inserted(q, t)[k] => i = k
<1>1. CASE \E i \in DOMAIN q : q[i] = t
  BY <1>1 DEF Inserted
<1>2. CASE ~\E i \in DOMAIN q : q[i] = t
  <2>1. Inserted(q, t) = Append(q, t)
    BY <1>2 DEF Inserted
  <2>2. /\ Append(q, t) \in Seq(Nat)
        /\ Len(Append(q, t)) = Len(q) + 1
        /\ Append(q, t)[Len(q) + 1] = t
        /\ \A i \in 1..Len(q) : Append(q, t)[i] = q[i]
    OBVIOUS
  <2>3. /\ DOMAIN q = 1..Len(q) /\ DOMAIN Append(q, t) = 1..(Len(q) + 1) /\ Len(q) \in Nat
    BY <2>2
  <2>4. \A i \in DOMAIN Append(q, t) :
          (i \in DOMAIN q /\ Append(q, t)[i] = q[i]) \/ (i = Len(q) + 1 /\ Append(q, t)[i] = t)
    <3> TAKE i \in DOMAIN Append(q, t)
    <3>1. i \in 1..Len(q) \/ i = Len(q) + 1
      BY <2>3
    <3> QED BY <3>1, <2>2, <2>3
  <2>5. ASSUME \A i, k \in DOMAIN q : q[i] = q[k] => i = k,
               NEW i \in DOMAIN Append(q, t), NEW k \in DOMAIN Append(q, t),
               Append(q, t)[i] = Append(q, t)[k]
        PROVE  i = k
    BY <1>2, <2>4, <2>5
  <2> QED BY <2>1, <2>2, <2>4, <2>5
<1> QED BY <1>1, <1>2

-----------------------------------------------------------------------------
LEMMA InitInv == Init => CronInv
<1> SUFFICES ASSUME Init PROVE CronInv
  OBVIOUS
<1>1. (CHOOSE c \in CronExpr : TRUE) \in CronExpr
  BY CronAssumption
<1>2. schedules \in [Schedule -> Row]
  BY <1>1 DEF Init, Row
<1>3. runs \in [Schedule -> Seq(Nat)] /\ \A s \in Schedule : runs[s] = <<>>
  BY DEF Init
<1>4. loop \in [Node -> Loop] /\ calls \in [Request -> Call] /\ used \in [Operation -> Nat]
  BY DEF Init, Loop, Call
<1>5. clock \in Time
  BY CronAssumption DEF Init, Time
<1>6. TypeOK
  BY <1>2, <1>3, <1>4, <1>5 DEF Init, TypeOK
<1> QED BY <1>3, <1>6
       DEF Init, CronInv, LockedStaysDue, OneJobPerOccurrence, NeverEarly

(* A request changes one row, and one that no pass has locked.               *)
LEMMA UnlockedRow ==
  ASSUME CronInv, NEW s \in Schedule, Unlocked(s),
         \A x \in Schedule : x # s => schedules'[x] = schedules[x],
         UNCHANGED <<clock, lock, loop>>
  PROVE  LockedStaysDue'
BY DEF CronInv, LockedStaysDue, Unlocked, Due

(* A row that is not due is not locked. *)
LEMMA NotDueUnlocked ==
  ASSUME CronInv, NEW s \in Schedule, schedules[s].status # "active"
  PROVE  Unlocked(s)
BY DEF CronInv, LockedStaysDue, Unlocked, Due

(* While no job is inserted, what holds of the jobs goes on to hold.         *)
LEMMA RunsStay ==
  ASSUME CronInv, TypeOK', LockedStaysDue', UNCHANGED runs, clock' >= clock
  PROVE  CronInv'
<1>1. OneJobPerOccurrence'
  BY DEF CronInv, OneJobPerOccurrence
<1>2. ASSUME NEW s \in Schedule, NEW i \in DOMAIN runs[s]
      PROVE  runs[s][i] <= clock'
  <2>1. runs[s][i] <= clock
    BY <1>2 DEF CronInv, NeverEarly
  <2>2. runs[s] \in Seq(Nat) /\ clock \in Int /\ clock' \in Int
    BY DEF CronInv, TypeOK, Time
  <2>3. runs[s][i] \in Nat
    BY <1>2, <2>2
  <2> QED BY <2>1, <2>2, <2>3
<1>3. NeverEarly'
  BY <1>2 DEF NeverEarly
<1> QED BY <1>1, <1>3 DEF CronInv

-----------------------------------------------------------------------------
(* The requests on the schedules.                                            *)
LEMMA RequestsKeep == ASSUME CronInv, Requests PROVE CronInv'
<1>0. /\ TypeOK /\ clock \in Time /\ clock \in Int
      /\ schedules \in [Schedule -> Row] /\ calls \in [Request -> Call]
  BY DEF CronInv, TypeOK, Time
<1>r. \A s \in Schedule : /\ schedules[s] \in Row
                          /\ schedules[s].cron \in CronExpr /\ schedules[s].next \in Nat
  BY <1>0 DEF Row
<1>1. ASSUME NEW s \in Schedule, NEW c \in CronExpr, CreateSchedule(s, c) PROVE CronInv'
  <2>1. NextCronTime[c][clock] \in Nat
    BY <1>0, <1>1, NextTimes DEF CreateSchedule
  <2>2. Set(s, "active", c, NextCronTime[c][clock])
    BY <1>1 DEF CreateSchedule
  <2>3. /\ schedules' \in [Schedule -> Row]
        /\ \A x \in Schedule : x # s => schedules'[x] = schedules[x]
    BY <1>0, <2>1, <2>2, Setting1
  <2>4. Unlocked(s)
    BY <1>1, NotDueUnlocked DEF CreateSchedule
  <2>5. used' \in [Operation -> Nat]
    BY <1>0, <1>1, Spending DEF CreateSchedule, Operation
  <2>6. TypeOK'
    BY <1>0, <1>1, <2>3, <2>5 DEF TypeOK, CreateSchedule
  <2> QED BY <1>0, <1>1, <2>3, <2>4, <2>6, UnlockedRow, RunsStay DEF CreateSchedule
<1>2. ASSUME NEW s \in Schedule, PauseSchedule(s) PROVE CronInv'
  <2>1. Set(s, "paused", schedules[s].cron, schedules[s].next)
    BY <1>2 DEF PauseSchedule
  <2>2. /\ schedules' \in [Schedule -> Row]
        /\ \A x \in Schedule : x # s => schedules'[x] = schedules[x]
    BY <1>0, <1>r, <2>1, Setting1
  <2>3. used' \in [Operation -> Nat]
    BY <1>0, <1>2, Spending DEF PauseSchedule, Operation
  <2>4. TypeOK'
    BY <1>0, <1>2, <2>2, <2>3 DEF TypeOK, PauseSchedule
  <2> QED BY <1>0, <1>2, <2>2, <2>4, UnlockedRow, RunsStay DEF PauseSchedule
<1>3. ASSUME NEW s \in Schedule, DeleteSchedule(s) PROVE CronInv'
  <2>1. Set(s, "deleted", schedules[s].cron, schedules[s].next)
    BY <1>3 DEF DeleteSchedule
  <2>2. /\ schedules' \in [Schedule -> Row]
        /\ \A x \in Schedule : x # s => schedules'[x] = schedules[x]
    BY <1>0, <1>r, <2>1, Setting1
  <2>3. used' \in [Operation -> Nat]
    BY <1>0, <1>3, Spending DEF DeleteSchedule, Operation
  <2>4. TypeOK'
    BY <1>0, <1>3, <2>2, <2>3 DEF TypeOK, DeleteSchedule
  <2> QED BY <1>0, <1>3, <2>2, <2>4, UnlockedRow, RunsStay DEF DeleteSchedule
<1>4. ASSUME NEW s \in Schedule, ResumeAtOnce(s) PROVE CronInv'
  <2>1. NextCronTime[schedules[s].cron][clock] \in Nat
    BY <1>0, <1>r, <1>4, NextTimes DEF ResumeAtOnce
  <2>2. Set(s, "active", schedules[s].cron, NextCronTime[schedules[s].cron][clock])
    BY <1>4 DEF ResumeAtOnce
  <2>3. /\ schedules' \in [Schedule -> Row]
        /\ \A x \in Schedule : x # s => schedules'[x] = schedules[x]
    BY <1>0, <1>r, <2>1, <2>2, Setting1
  <2>4. Unlocked(s)
    BY <1>4, NotDueUnlocked DEF ResumeAtOnce
  <2>5. used' \in [Operation -> Nat]
    BY <1>0, <1>4, Spending DEF ResumeAtOnce, Operation
  <2>6. TypeOK'
    BY <1>0, <1>4, <2>3, <2>5 DEF TypeOK, ResumeAtOnce
  <2> QED BY <1>0, <1>4, <2>3, <2>4, <2>6, UnlockedRow, RunsStay DEF ResumeAtOnce
<1>5. ASSUME NEW r \in Request, NEW s \in Schedule, ResumeRead(r, s) PROVE CronInv'
  <2>1. [op |-> "resume", schedule |-> s, cron |-> schedules[s].cron, since |-> clock] \in Call
    BY <1>0, <1>r DEF Call
  <2>2. calls' \in [Request -> Call]
    BY <1>0, <1>5, <2>1 DEF ResumeRead
  <2>3. used' \in [Operation -> Nat]
    BY <1>0, <1>5, Spending DEF ResumeRead, Operation
  <2>4. TypeOK'
    BY <1>0, <1>5, <2>2, <2>3 DEF TypeOK, ResumeRead
  <2>5. LockedStaysDue'
    BY <1>5 DEF CronInv, LockedStaysDue, Due, ResumeRead
  <2> QED BY <1>0, <1>5, <2>4, <2>5, RunsStay DEF ResumeRead
<1>6. ASSUME NEW r \in Request, ResumeWrite(r) PROVE CronInv'
  <2> DEFINE c == calls[r]
  <2>1. c.schedule \in Schedule /\ c.cron \in CronExpr /\ c.since \in Nat
    BY <1>0, <1>6 DEF ResumeWrite, Call, NoCall, Time
  <2>2. calls' \in [Request -> Call]
    BY <1>0, <1>6 DEF ResumeWrite, Call
  <2>3. /\ schedules' \in [Schedule -> Row]
        /\ \A x \in Schedule : x # c.schedule => schedules'[x] = schedules[x]
    <3>1. PICK t \in c.since..clock :
            IF NextCronTime[c.cron][t] = NoNext
            THEN UNCHANGED schedules
            ELSE Set(c.schedule, "active", schedules[c.schedule].cron, NextCronTime[c.cron][t])
      BY <1>6 DEF ResumeWrite
    <3>2. CASE NextCronTime[c.cron][t] = NoNext
      BY <1>0, <3>1, <3>2
    <3>3. CASE NextCronTime[c.cron][t] # NoNext
      <4>1. t \in Time
        BY <1>0, <2>1, <3>1, TimesBetween
      <4>2. NextCronTime[c.cron][t] \in Nat
        BY <2>1, <3>3, <4>1, NextTimes
      <4> QED BY <1>0, <1>r, <2>1, <3>1, <3>3, <4>2, Setting1
    <3> QED BY <3>2, <3>3
  <2>4. TypeOK'
    BY <1>0, <1>6, <2>2, <2>3 DEF TypeOK, ResumeWrite
  <2> QED BY <1>0, <1>6, <2>1, <2>3, <2>4, UnlockedRow, RunsStay DEF ResumeWrite
<1>7. ASSUME NEW r \in Request, NEW s \in Schedule, UpdateRead(r, s) PROVE CronInv'
  <2>1. ASSUME NEW c \in CronExpr, NEW t \in Nat
        PROVE  [op |-> "update", schedule |-> s, cron |-> c, next |-> t] \in Call
    BY DEF Call
  <2>2. calls' \in [Request -> Call]
    <3>1. CASE calls' = [calls EXCEPT ![r] = [op |-> "update", schedule |-> s,
                                 cron |-> schedules[s].cron, next |-> schedules[s].next]]
      BY <1>0, <1>r, <2>1, <3>1
    <3>2. CASE \E c \in CronExpr :
                 /\ NextCronTime[c][clock] # NoNext
                 /\ calls' = [calls EXCEPT ![r] = [op |-> "update", schedule |-> s,
                                             cron |-> c, next |-> NextCronTime[c][clock]]]
      BY <1>0, <2>1, <3>2, NextTimes
    <3> QED BY <1>7, <3>1, <3>2 DEF UpdateRead
  <2>3. used' \in [Operation -> Nat]
    BY <1>0, <1>7, Spending DEF UpdateRead, Operation
  <2>4. TypeOK'
    BY <1>0, <1>7, <2>2, <2>3 DEF TypeOK, UpdateRead
  <2>5. LockedStaysDue'
    BY <1>7 DEF CronInv, LockedStaysDue, Due, UpdateRead
  <2> QED BY <1>0, <1>7, <2>4, <2>5, RunsStay DEF UpdateRead
<1>8. ASSUME NEW r \in Request, UpdateWrite(r) PROVE CronInv'
  <2> DEFINE c == calls[r]
  <2>1. c.schedule \in Schedule /\ c.cron \in CronExpr /\ c.next \in Nat
    BY <1>0, <1>8 DEF UpdateWrite, Call, NoCall
  <2>2. calls' \in [Request -> Call]
    BY <1>0, <1>8 DEF UpdateWrite, Call
  <2>3. /\ schedules' \in [Schedule -> Row]
        /\ \A x \in Schedule : x # c.schedule => schedules'[x] = schedules[x]
    <3> DEFINE row == [status |-> schedules[c.schedule].status, cron |-> c.cron, next |-> c.next]
    <3>1. row \in Row
      BY <1>r, <2>1 DEF Row
    <3>2. schedules' = schedules \/ schedules' = [schedules EXCEPT ![c.schedule] = row]
      BY <1>8 DEF UpdateWrite, Set
    <3> HIDE DEF row, c
    <3> QED BY <1>0, <2>1, <3>1, <3>2
  <2>4. TypeOK'
    BY <1>0, <1>8, <2>2, <2>3 DEF TypeOK, UpdateWrite
  <2> QED BY <1>0, <1>8, <2>1, <2>3, <2>4, UnlockedRow, RunsStay DEF UpdateWrite
<1>9. ASSUME NEW r \in Request, CallFails(r) PROVE CronInv'
  <2>1. calls' \in [Request -> Call]
    BY <1>0, <1>9 DEF CallFails, Call
  <2>2. used' \in [Operation -> Nat]
    BY <1>0, <1>9, Spending DEF CallFails, Operation
  <2>3. TypeOK'
    BY <1>0, <1>9, <2>1, <2>2 DEF TypeOK, CallFails
  <2>4. LockedStaysDue'
    BY <1>9 DEF CronInv, LockedStaysDue, Due, CallFails
  <2> QED BY <1>0, <1>9, <2>3, <2>4, RunsStay DEF CallFails
<1> QED BY <1>1, <1>2, <1>3, <1>4, <1>5, <1>6, <1>7, <1>8, <1>9 DEF Requests

-----------------------------------------------------------------------------
(* The cron loop. *)

(* Going to another step of the loop. *)
LEMMA Going ==
  ASSUME TypeOK, NEW n \in Node, NEW at \in {"awake", "tx", "plan", "sleep"}, NEW t \in Nat,
         Goes(n, at, t)
  PROVE  /\ loop' \in [Node -> Loop]
         /\ \A m \in Node : m # n => loop'[m] = loop[m]
         /\ loop'[n].at = at
<1> DEFINE l == [at |-> at, time |-> t]
<1>1. l \in Loop /\ l.at = at
  BY DEF Loop
<1>2. loop' = [loop EXCEPT ![n] = l] /\ loop \in [Node -> Loop]
  BY DEF Goes, TypeOK
<1> HIDE DEF l
<1> QED BY <1>1, <1>2

(* A node that gives up its locks may go to any step.                        *)
LEMMA Releasing ==
  ASSUME CronInv, NEW n \in Node, lock' = Released(n),
         \A m \in Node : m # n => loop'[m] = loop[m],
         \A s \in Schedule : lock[s] # n => schedules'[s] = schedules[s],
         UNCHANGED clock
  PROVE  lock' \in [Schedule -> Node \cup {NoNode}] /\ LockedStaysDue'
<1>1. lock \in [Schedule -> Node \cup {NoNode}] /\ n # NoNode
  BY CronAssumption DEF CronInv, TypeOK
<1>2. /\ lock' \in [Schedule -> Node \cup {NoNode}]
      /\ \A s \in Schedule : lock'[s] = IF lock[s] = n THEN NoNode ELSE lock[s]
  BY <1>1 DEF Released
<1>3. ASSUME NEW s \in Schedule, lock'[s] # NoNode
      PROVE  loop'[lock'[s]].at = "tx" /\ Due(s)'
  <2>1. lock[s] # n /\ lock'[s] = lock[s] /\ lock[s] \in Node
    BY <1>1, <1>2, <1>3
  <2>2. loop[lock[s]].at = "tx" /\ Due(s)
    BY <1>3, <2>1 DEF CronInv, LockedStaysDue
  <2> QED BY <2>1, <2>2 DEF Due
<1> QED BY <1>2, <1>3 DEF LockedStaysDue

(* A node that holds no locks, being outside a transaction, moves freely.    *)
LEMMA NoLocks ==
  ASSUME CronInv, NEW n \in Node, loop[n].at # "tx",
         \A m \in Node : m # n => loop'[m] = loop[m],
         UNCHANGED <<clock, schedules, lock>>
  PROVE  LockedStaysDue'
BY DEF CronInv, TypeOK, LockedStaysDue, Due

(* Advancing a set of due schedules: rows and run ids stay well formed, each *)
(* occurrence gets one job, and none before its time.                        *)
LEMMA Advancing ==
  ASSUME CronInv, NEW S \in SUBSET Schedule, \A s \in S : Due(s),
         NEW at \in [S -> Time], Advance(S, at), UNCHANGED clock
  PROVE  /\ schedules' \in [Schedule -> Row]
         /\ \A s \in Schedule : s \notin S => schedules'[s] = schedules[s] /\ runs'[s] = runs[s]
         /\ \A s \in Schedule : schedules'[s].status = schedules[s].status
         /\ runs' \in [Schedule -> Seq(Nat)]
         /\ OneJobPerOccurrence'
         /\ NeverEarly'
<1> DEFINE next(s) == NextCronTime[schedules[s].cron][at[s]]
           done == {s \in S : next(s) # NoNext}
<1>1. /\ schedules' = [s \in Schedule |->
                         IF s \in done THEN [schedules[s] EXCEPT !.next = next(s)]
                         ELSE schedules[s]]
      /\ runs' = [s \in Schedule |->
                    IF s \in done THEN Inserted(runs[s], schedules[s].next) ELSE runs[s]]
  BY DEF Advance
<1>2. /\ schedules \in [Schedule -> Row] /\ runs \in [Schedule -> Seq(Nat)] /\ clock \in Int
  BY DEF CronInv, TypeOK, Time
<1>3. \A s \in Schedule : schedules[s].cron \in CronExpr /\ schedules[s].next \in Nat
  BY <1>2 DEF Row
<1>4. \A s \in done : next(s) \in Nat
  BY <1>3, NextTimes
<1>5. \A s \in done : schedules[s].next <= clock
  BY DEF Due
<1> HIDE DEF next, done
<1>6. done \subseteq S
  BY DEF done
<1>7. ASSUME NEW s \in Schedule
      PROVE  schedules'[s] \in Row /\ schedules'[s].status = schedules[s].status
  <2>1. CASE s \in done
    BY <1>1, <1>2, <1>4, <2>1 DEF Row
  <2>2. CASE s \notin done
    BY <1>1, <1>2, <2>2
  <2> QED BY <2>1, <2>2
<1>8. ASSUME NEW s \in Schedule
      PROVE  /\ runs'[s] \in Seq(Nat)
             /\ \A i \in DOMAIN runs'[s] : runs'[s][i] <= clock
             /\ \A i, k \in DOMAIN runs'[s] : runs'[s][i] = runs'[s][k] => i = k
  <2>1. /\ runs[s] \in Seq(Nat)
        /\ \A i \in DOMAIN runs[s] : runs[s][i] <= clock
        /\ \A i, k \in DOMAIN runs[s] : runs[s][i] = runs[s][k] => i = k
    BY <1>2 DEF CronInv, NeverEarly, OneJobPerOccurrence
  <2>2. CASE s \in done
    <3>1. runs'[s] = Inserted(runs[s], schedules[s].next)
      BY <1>1, <2>2
    <3>2. schedules[s].next \in Nat /\ schedules[s].next <= clock
      BY <1>3, <1>5, <2>2
    <3> DEFINE q == runs[s]
               t == schedules[s].next
    <3>3. /\ Inserted(q, t) \in Seq(Nat)
          /\ \A i \in DOMAIN Inserted(q, t) :
               (i \in DOMAIN q /\ Inserted(q, t)[i] = q[i]) \/ Inserted(q, t)[i] = t
          /\ \A i, k \in DOMAIN Inserted(q, t) : Inserted(q, t)[i] = Inserted(q, t)[k] => i = k
      BY <2>1, <3>2, InsertedFacts
    <3>4. \A i \in DOMAIN q : q[i] <= clock
      BY <2>1
    <3> HIDE DEF q, t
    <3>5. t <= clock /\ runs'[s] = Inserted(q, t)
      BY <3>1, <3>2 DEF q, t
    <3> QED BY <3>3, <3>4, <3>5
  <2>3. CASE s \notin done
    BY <1>1, <2>1, <2>3
  <2> QED BY <2>2, <2>3
<1>9. schedules' \in [Schedule -> Row] /\ runs' \in [Schedule -> Seq(Nat)]
  BY <1>1, <1>7, <1>8
<1> QED BY <1>1, <1>6, <1>7, <1>8, <1>9 DEF OneJobPerOccurrence, NeverEarly

LEMMA LoopKeeps ==
  ASSUME CronInv, NEW n \in Node, Pass(n) \/ TriggerFails(n) \/ Restart(n)
  PROVE  CronInv'
<1>0. /\ TypeOK /\ clock \in Time /\ clock \in Nat /\ 0 \in Nat /\ clock >= clock
      /\ lock \in [Schedule -> Node \cup {NoNode}] /\ loop \in [Node -> Loop]
      /\ n # NoNode /\ loop[n].time \in Nat /\ PollInterval \in Nat
  BY CronAssumption DEF CronInv, TypeOK, Time, Loop
<1>1. CASE TriggerAtOnce(n)
  <2>1. PICK S \in SUBSET Schedule : Selectable(S) /\ Advance(S, [s \in S |-> clock])
    BY <1>1 DEF TriggerAtOnce
  <2>2. \A s \in S : Due(s) /\ Unlocked(s)
    BY <2>1 DEF Selectable
  <2>3. [s \in S |-> clock] \in [S -> Time]
    BY <1>0
  <2>4. UNCHANGED <<clock, lock>>
    BY <1>1 DEF TriggerAtOnce
  <2>5. /\ schedules' \in [Schedule -> Row] /\ runs' \in [Schedule -> Seq(Nat)]
        /\ \A s \in Schedule : s \notin S => schedules'[s] = schedules[s]
        /\ OneJobPerOccurrence' /\ NeverEarly'
    BY <2>1, <2>2, <2>3, <2>4, Advancing
  <2>6. /\ loop' \in [Node -> Loop] /\ loop[n].at = "awake"
        /\ \A m \in Node : m # n => loop'[m] = loop[m]
    BY <1>0, <1>1, Going DEF TriggerAtOnce
  <2>7. TypeOK'
    BY <1>0, <1>1, <2>5, <2>6 DEF TypeOK, TriggerAtOnce
  <2>8. ASSUME NEW s \in Schedule, lock'[s] # NoNode
        PROVE  loop'[lock'[s]].at = "tx" /\ Due(s)'
    <3>1. loop[lock[s]].at = "tx" /\ Due(s) /\ lock[s] \in Node
      BY <1>0, <2>4, <2>8 DEF CronInv, LockedStaysDue
    <3>2. lock[s] # n /\ s \notin S
      BY <2>2, <2>4, <2>6, <2>8, <3>1 DEF Unlocked
    <3> QED BY <2>4, <2>5, <2>6, <3>1, <3>2 DEF Due
  <2> QED BY <2>5, <2>7, <2>8 DEF CronInv, LockedStaysDue
<1>2. CASE TriggerSelect(n)
  <2>1. PICK S \in SUBSET Schedule :
          /\ Selectable(S)
          /\ lock' = [s \in Schedule |-> IF s \in S THEN n ELSE lock[s]]
          /\ IF S = {} THEN Goes(n, "plan", 0) ELSE Goes(n, "tx", clock)
    BY <1>2 DEF TriggerSelect
  <2>2. \A s \in S : Due(s) /\ Unlocked(s)
    BY <2>1 DEF Selectable
  <2>3. /\ loop' \in [Node -> Loop]
        /\ S # {} => loop'[n].at = "tx"
        /\ \A m \in Node : m # n => loop'[m] = loop[m]
    BY <1>0, <2>1, Going
  <2>4. lock' \in [Schedule -> Node \cup {NoNode}]
    BY <1>0, <2>1
  <2>5. TypeOK' /\ UNCHANGED <<clock, schedules, runs>> /\ loop[n].at = "awake"
    BY <1>2, <2>3, <2>4 DEF CronInv, TypeOK, TriggerSelect
  <2>6. ASSUME NEW s \in Schedule, lock'[s] # NoNode
        PROVE  loop'[lock'[s]].at = "tx" /\ Due(s)'
    <3>1. CASE s \in S
      BY <2>1, <2>2, <2>3, <2>5, <3>1 DEF Due
    <3>2. CASE s \notin S
      <4>1. lock'[s] = lock[s] /\ lock[s] \in Node
        BY <1>0, <2>1, <2>6, <3>2
      <4>2. loop[lock[s]].at = "tx" /\ Due(s)
        BY <2>6, <4>1 DEF CronInv, LockedStaysDue
      <4> QED BY <2>3, <2>5, <4>1, <4>2 DEF Due
    <3> QED BY <3>1, <3>2
  <2> QED BY <1>0, <2>5, <2>6, RunsStay DEF LockedStaysDue
<1>3. CASE TriggerCommit(n)
  <2>1. PICK at \in [Locked(n) -> loop[n].time..clock] : Advance(Locked(n), at)
    BY <1>3 DEF TriggerCommit
  <2>2. at \in [Locked(n) -> Time]
    BY <1>0, <2>1, TimesBetween
  <2>3. Locked(n) \in SUBSET Schedule /\ \A s \in Locked(n) : Due(s)
    BY <1>0 DEF Locked, CronInv, LockedStaysDue
  <2>4. UNCHANGED clock /\ lock' = Released(n)
    BY <1>3 DEF TriggerCommit
  <2>5. /\ schedules' \in [Schedule -> Row] /\ runs' \in [Schedule -> Seq(Nat)]
        /\ \A s \in Schedule : s \notin Locked(n) => schedules'[s] = schedules[s]
        /\ OneJobPerOccurrence' /\ NeverEarly'
    BY <2>1, <2>2, <2>3, <2>4, Advancing
  <2>6. loop' \in [Node -> Loop] /\ \A m \in Node : m # n => loop'[m] = loop[m]
    BY <1>0, <1>3, Going DEF TriggerCommit
  <2>7. \A s \in Schedule : lock[s] # n => schedules'[s] = schedules[s]
    BY <2>5 DEF Locked
  <2>8. lock' \in [Schedule -> Node \cup {NoNode}] /\ LockedStaysDue'
    BY <2>4, <2>6, <2>7, Releasing
  <2>9. TypeOK'
    BY <1>0, <1>3, <2>5, <2>6, <2>8 DEF TypeOK, TriggerCommit
  <2> QED BY <2>5, <2>8, <2>9 DEF CronInv
<1>4. CASE TriggerFails(n) \/ Restart(n)
  <2>1. /\ lock' = Released(n) /\ UNCHANGED <<setting, clock, schedules, runs, calls>>
        /\ Spend("fail") /\ (Goes(n, "plan", 0) \/ Goes(n, "awake", 0))
    BY <1>4 DEF TriggerFails, Restart
  <2>2. loop' \in [Node -> Loop] /\ \A m \in Node : m # n => loop'[m] = loop[m]
    BY <1>0, <2>1, Going
  <2>3. lock' \in [Schedule -> Node \cup {NoNode}] /\ LockedStaysDue'
    BY <2>1, <2>2, Releasing
  <2>4. used' \in [Operation -> Nat]
    BY <1>0, <2>1, Spending DEF Operation
  <2>5. TypeOK'
    BY <1>0, <2>1, <2>2, <2>3, <2>4 DEF TypeOK
  <2> QED BY <1>0, <2>1, <2>3, <2>5, RunsStay
<1>5. CASE Plan(n)
  <2>1. UNCHANGED <<setting, clock, schedules, runs, lock, calls>> /\ loop[n].at = "plan"
    BY <1>5 DEF Plan
  <2>2. \A t \in Earliest : t \in Nat
    BY <1>0 DEF Earliest, Active, TypeOK, Row
  <2>3. \A t \in Alarms : t \in Nat
    BY <1>0, <2>2 DEF Alarms, Smaller
  <2>4. PICK t \in Nat : Goes(n, "sleep", t)
    BY <1>0, <1>5, <2>3 DEF Plan
  <2>5. loop' \in [Node -> Loop] /\ \A m \in Node : m # n => loop'[m] = loop[m]
    BY <1>0, <2>4, Going
  <2>6. used' \in [Operation -> Nat]
    <3>1. used' = used \/ Spend("fail")
      BY <1>5 DEF Plan
    <3> QED BY <1>0, <3>1, Spending DEF TypeOK, Operation
  <2>7. TypeOK'
    BY <1>0, <2>1, <2>5, <2>6 DEF TypeOK
  <2>8. LockedStaysDue'
    BY <2>1, <2>5, NoLocks
  <2> QED BY <1>0, <2>1, <2>7, <2>8, RunsStay
<1>6. CASE Wake(n)
  <2>1. /\ UNCHANGED <<setting, clock, schedules, runs, lock, calls, used>>
        /\ loop[n].at = "sleep" /\ Goes(n, "awake", 0)
    BY <1>6 DEF Wake
  <2>2. loop' \in [Node -> Loop] /\ \A m \in Node : m # n => loop'[m] = loop[m]
    BY <1>0, <2>1, Going
  <2>3. TypeOK'
    BY <1>0, <2>1, <2>2 DEF TypeOK
  <2>4. LockedStaysDue'
    BY <2>1, <2>2, NoLocks
  <2> QED BY <1>0, <2>1, <2>3, <2>4, RunsStay
<1> QED BY <1>1, <1>2, <1>3, <1>4, <1>5, <1>6 DEF Pass

(* Time makes no due schedule less due. *)
LEMMA TickKeeps == ASSUME CronInv, Tick PROVE CronInv'
<1>1. clock \in Time /\ clock < Horizon /\ clock' = clock + 1
      /\ UNCHANGED <<setting, schedules, runs, lock, loop, calls, used>>
  BY DEF Tick, CronInv, TypeOK
<1>2. clock' \in Time /\ clock' >= clock
  BY <1>1, CronAssumption DEF Time
<1>3. TypeOK'
  BY <1>1, <1>2 DEF CronInv, TypeOK
<1>4. LockedStaysDue'
  <2>1. ASSUME NEW s \in Schedule, lock[s] # NoNode
        PROVE  loop[lock[s]].at = "tx" /\ schedules[s].status = "active"
               /\ schedules[s].next <= clock'
    <3>1. loop[lock[s]].at = "tx" /\ Due(s)
      BY <2>1 DEF CronInv, LockedStaysDue
    <3>2. schedules[s].next \in Nat /\ clock \in Int
      BY <1>1 DEF CronInv, TypeOK, Row, Time
    <3> QED BY <1>1, <3>1, <3>2 DEF Due
  <2> QED BY <1>1, <2>1 DEF LockedStaysDue, Due
<1> QED BY <1>1, <1>2, <1>3, <1>4, RunsStay

LEMMA StepInv == CronInv /\ [Next]_vars => CronInv'
<1> SUFFICES ASSUME CronInv, [Next]_vars PROVE CronInv'
  OBVIOUS
<1>1. CASE UNCHANGED vars
  BY <1>1 DEF vars, CronInv, TypeOK, LockedStaysDue, Due, OneJobPerOccurrence, NeverEarly
<1> QED BY <1>1, RequestsKeep, LoopKeeps, TickKeeps DEF Next

-----------------------------------------------------------------------------
THEOREM CronInvariant == Spec => []CronInv
<1>1. CronInv /\ [Next]_vars => CronInv'
  BY StepInv
<1> QED BY InitInv, <1>1, PTL DEF Spec

(* Every variable keeps its type. *)
THEOREM CronTypes == Spec => []TypeOK
<1>1. CronInv => TypeOK
  BY DEF CronInv
<1> QED BY <1>1, CronInvariant, PTL

(* A schedule that a pass has selected stays due until that pass is over.    *)
THEOREM LocksProtect == Spec => []LockedStaysDue
<1>1. CronInv => LockedStaysDue
  BY DEF CronInv
<1> QED BY <1>1, CronInvariant, PTL

(* An occurrence of a schedule gets one job, on any number of nodes.         *)
THEOREM OneJob == Spec => []OneJobPerOccurrence
<1>1. CronInv => OneJobPerOccurrence
  BY DEF CronInv
<1> QED BY <1>1, CronInvariant, PTL

(* No job is created before the time of its occurrence. *)
THEOREM NothingEarly == Spec => []NeverEarly
<1>1. CronInv => NeverEarly
  BY DEF CronInv
<1> QED BY <1>1, CronInvariant, PTL

(* A step that inserts a job of a schedule is a pass that had it due.        *)
LEMMA InsertsWhenActive ==
  ASSUME CronInv, [Next]_vars, NEW s \in Schedule, runs'[s] # runs[s]
  PROVE  schedules[s].status = "active"
<1>0. clock \in Time /\ clock \in Int
  BY DEF CronInv, TypeOK, Time
<1>1. PICK n \in Node : TriggerAtOnce(n) \/ TriggerCommit(n)
  BY DEF vars, Next, Requests, CreateSchedule, PauseSchedule, DeleteSchedule, ResumeAtOnce,
         ResumeRead, ResumeWrite, UpdateRead, UpdateWrite, CallFails, Pass, TriggerSelect,
         TriggerFails, Restart, Plan, Wake, Tick
<1>2. CASE TriggerAtOnce(n)
  <2>1. PICK S \in SUBSET Schedule : Selectable(S) /\ Advance(S, [x \in S |-> clock])
    BY <1>2 DEF TriggerAtOnce
  <2>2. \A x \in S : Due(x)
    BY <2>1 DEF Selectable
  <2>3. [x \in S |-> clock] \in [S -> Time] /\ UNCHANGED clock
    BY <1>0, <1>2 DEF TriggerAtOnce
  <2>4. s \in S
    BY <2>1, <2>2, <2>3, Advancing
  <2> QED BY <2>2, <2>4 DEF Due
<1>3. CASE TriggerCommit(n)
  <2>1. PICK at \in [Locked(n) -> loop[n].time..clock] : Advance(Locked(n), at)
    BY <1>3 DEF TriggerCommit
  <2>2. loop[n].time \in Nat /\ n # NoNode
    BY CronAssumption DEF CronInv, TypeOK, Loop
  <2>3. at \in [Locked(n) -> Time] /\ UNCHANGED clock
    BY <1>0, <1>3, <2>1, <2>2, TimesBetween DEF TriggerCommit
  <2>4. Locked(n) \in SUBSET Schedule /\ \A x \in Locked(n) : Due(x)
    BY <2>2 DEF Locked, CronInv, LockedStaysDue
  <2>5. s \in Locked(n)
    BY <2>1, <2>3, <2>4, Advancing
  <2> QED BY <2>4, <2>5 DEF Due
<1> QED BY <1>1, <1>2, <1>3

(* A paused or deleted schedule gets no job, even from a pass that began     *)
(* before the pause.                                                         *)
THEOREM PauseIsProtected == Spec => PausedIsQuiet
<1>1. CronInv /\ [Next]_vars =>
        [\A s \in Schedule : runs'[s] # runs[s] => schedules[s].status = "active"]_vars
  BY InsertsWhenActive
<1> QED BY <1>1, CronInvariant, PTL DEF Spec, PausedIsQuiet

-----------------------------------------------------------------------------
(* On SQLite a resume is never between a read and a write.                   *)
ResumesAtOnce == ~OnPostgres => \A r \in Request : calls[r].op # "resume"

LEMMA ResumesInit == Init => ResumesAtOnce
BY DEF Init, ResumesAtOnce, NoCall

LEMMA ResumesStep == TypeOK /\ ResumesAtOnce /\ [Next]_vars => ResumesAtOnce'
<1> SUFFICES ASSUME TypeOK, ResumesAtOnce, [Next]_vars, ~OnPostgres', NEW r \in Request
             PROVE  calls'[r].op # "resume"
  BY DEF ResumesAtOnce
<1>1. UNCHANGED setting
  BY DEF vars, Next, Requests, CreateSchedule, PauseSchedule, DeleteSchedule, ResumeAtOnce,
         ResumeRead, ResumeWrite, UpdateRead, UpdateWrite, CallFails, Pass, TriggerAtOnce,
         TriggerSelect, TriggerCommit, TriggerFails, Restart, Plan, Wake, Tick
<1>2. ~OnPostgres /\ calls[r].op # "resume" /\ calls \in [Request -> Call]
  BY <1>1 DEF OnPostgres, ResumesAtOnce, TypeOK
<1>3. CASE UNCHANGED calls
  BY <1>2, <1>3
<1>4. CASE \E x \in Request, s \in Schedule : UpdateRead(x, s)
  BY <1>2, <1>4 DEF UpdateRead
<1>5. CASE \E x \in Request : ResumeWrite(x) \/ UpdateWrite(x) \/ CallFails(x)
  BY <1>2, <1>5 DEF ResumeWrite, UpdateWrite, CallFails, NoCall
<1> QED BY <1>2, <1>3, <1>4, <1>5
       DEF vars, Next, Requests, CreateSchedule, PauseSchedule, DeleteSchedule, ResumeAtOnce,
           ResumeRead, Pass, TriggerAtOnce, TriggerSelect, TriggerCommit, TriggerFails,
           Restart, Plan, Wake, Tick

(* But for a resume that is done in two steps, which only Postgres has, no   *)
(* operation writes a status over DELETED.                                   *)
LEMMA DeletedStays ==
  ASSUME CronInv, ResumesAtOnce, [Next]_vars,
         NEW s \in Schedule, schedules[s].status = "deleted", schedules'[s].status # "deleted"
  PROVE  LateResume(s)
<1>0. /\ schedules \in [Schedule -> Row] /\ clock \in Time /\ calls \in [Request -> Call]
  BY DEF CronInv, TypeOK
<1>1. CASE UNCHANGED schedules
  BY <1>1
<1>2. CASE \E x \in Schedule : \/ \E c \in CronExpr : CreateSchedule(x, c)
                               \/ PauseSchedule(x) \/ DeleteSchedule(x) \/ ResumeAtOnce(x)
  BY <1>0, <1>2 DEF CreateSchedule, PauseSchedule, DeleteSchedule, ResumeAtOnce, Set
<1>3. CASE \E r \in Request : UpdateWrite(r)
  <2>1. PICK r \in Request : UpdateWrite(r)
    BY <1>3
  <2> QED BY <1>0, <2>1 DEF UpdateWrite, Set
<1>4. CASE \E r \in Request : ResumeWrite(r)
  <2>1. PICK r \in Request : ResumeWrite(r)
    BY <1>4
  <2>2. calls[r].op = "resume" /\ OnPostgres /\ calls'[r] = NoCall
    BY <1>0, <2>1 DEF ResumesAtOnce, ResumeWrite
  <2>3. calls[r].schedule = s
    BY <1>0, <2>1 DEF ResumeWrite, Set
  <2> QED BY <2>2, <2>3 DEF LateResume
<1>5. CASE \E n \in Node : TriggerAtOnce(n)
  BY <1>0, <1>5 DEF TriggerAtOnce, Advance
<1>6. CASE \E n \in Node : TriggerCommit(n)
  BY <1>0, <1>6 DEF TriggerCommit, Advance
<1> QED BY <1>1, <1>2, <1>3, <1>4, <1>5, <1>6
       DEF vars, Next, Requests, ResumeRead, UpdateRead, CallFails, Pass, TriggerSelect,
           TriggerFails, Restart, Plan, Wake, Tick

(* delete_schedule is for good, unless a resume on Postgres that read the row *)
(* before writes it after: for any number of schedules, nodes and calls.     *)
THEOREM DeleteIsFinal == Spec => DeletedForGood
<1>1. CronInv /\ ResumesAtOnce /\ [Next]_vars =>
        [\A s \in Schedule :
           schedules[s].status = "deleted" /\ schedules'[s].status # "deleted" => LateResume(s)]_vars
  BY DeletedStays
<1>2. CronInv /\ ResumesAtOnce /\ [Next]_vars => ResumesAtOnce'
  BY ResumesStep DEF CronInv
<1> QED BY <1>1, <1>2, ResumesInit, CronInvariant, PTL DEF Spec, DeletedForGood


-----------------------------------------------------------------------------
(* Lateness.  A loop that is asleep wakes up before any schedule it has to   *)
(* trigger is late, and time passes only while every loop is asleep; that is *)
(* what a failed pass, a lost transaction and a new schedule must not break. *)
(* The theorem is about deployments as SomeServer, PassTakesAll and          *)
(* OverForGood describe them; the run checks one of them.                    *)

Grace == PollInterval * (1 + used["fail"])
Late(s) == schedules[s].next + Grace
Awaited(s) == schedules[s].status = "active" /\ Recurs(s)

(* The deployments LatenessBounded is about.                                 *)
Prompt == setting.prompt /\ used["update"] = 0

(* Only the loops of servers that run move.                                  *)
OnlyUp == \A n \in Node : ~Up(n) => loop[n].at = "awake"

(* An update in progress has been counted.                                   *)
UpdatesCounted == \A r \in Request : calls[r].op = "update" => used["update"] > 0

SoonEnough == \A s \in Schedule : Awaited(s) => clock <= Late(s)

(* Where a loop stands, no schedule that nobody else works on becomes late   *)
(* before it looks at the table again.                                       *)
Punctual(n) ==
  /\ loop[n].at = "sleep" => loop[n].time <= clock + PollInterval
  /\ loop[n].at = "tx" => loop[n].time = clock
  /\ \A s \in Schedule : Awaited(s) /\ Unlocked(s) =>
       /\ loop[n].at = "sleep" => loop[n].time <= Late(s)
       /\ loop[n].at \in {"plan", "tx"} => clock < Late(s)

(* A resume has read its row in this very second.                            *)
FreshResumes == \A r \in Request : calls[r].op = "resume" => calls[r].since = clock

LateInv ==
  /\ OnlyUp
  /\ UpdatesCounted
  /\ Prompt => SoonEnough /\ (\A n \in setting.up : Punctual(n)) /\ FreshResumes

LEMMA LateTypes ==
  ASSUME TypeOK
  PROVE  /\ clock \in Nat /\ clock \in Time /\ PollInterval \in Nat /\ PollInterval > 0
         /\ Grace \in Nat /\ Grace >= PollInterval
         /\ \A s \in Schedule : schedules[s].next \in Nat /\ schedules[s].cron \in CronExpr
         /\ \A n \in Node : loop[n].time \in Nat
         /\ setting.up \subseteq Node /\ setting \in Settings
<1>1. clock \in Nat /\ clock \in Time /\ PollInterval \in Nat /\ PollInterval > 0
  BY CronAssumption DEF TypeOK, Time
<1>2. used["fail"] \in Nat
  BY DEF TypeOK, Operation
<1>3. \A p, k \in Nat : p * (1 + k) \in Nat /\ p * (1 + k) >= p
  OBVIOUS
<1>4. Grace \in Nat /\ Grace >= PollInterval
  BY <1>1, <1>2, <1>3 DEF Grace
<1>5. \A s \in Schedule : schedules[s].next \in Nat /\ schedules[s].cron \in CronExpr
  BY DEF TypeOK, Row
<1>6. \A n \in Node : loop[n].time \in Nat
  BY DEF TypeOK, Loop
<1>7. setting.up \subseteq Node /\ setting \in Settings
  BY CronAssumption DEF TypeOK, Setting
<1> QED BY <1>1, <1>4, <1>5, <1>6, <1>7

(* A failure puts everything off by another PollInterval; nothing else does. *)
LEMMA GraceOf ==
  ASSUME TypeOK
  PROVE  /\ Spend("fail") => Grace' = Grace + PollInterval
         /\ \A o \in Operation : o # "fail" /\ Spend(o) => Grace' = Grace
         /\ UNCHANGED used => Grace' = Grace
         /\ \A o \in Operation : o # "update" /\ Spend(o) => used'["update"] = used["update"]
         /\ Spend("update") => used'["update"] > 0
<1>1. used \in [Operation -> Nat] /\ "fail" \in Operation /\ "update" \in Operation
      /\ PollInterval \in Nat
  BY CronAssumption DEF TypeOK, Operation
<1>2. \A p, k \in Nat : p * (1 + (k + 1)) = p * (1 + k) + p
  OBVIOUS
<1>3. Spend("fail") => used'["fail"] = used["fail"] + 1
  BY <1>1 DEF Spend
<1>4. Spend("fail") => Grace' = Grace + PollInterval
  BY <1>1, <1>2, <1>3 DEF Grace
<1>5. \A o \in Operation : o # "fail" /\ Spend(o) => used'["fail"] = used["fail"]
  BY <1>1 DEF Spend
<1>6. \A o \in Operation : o # "fail" /\ Spend(o) => Grace' = Grace
  BY <1>5 DEF Grace
<1>7. UNCHANGED used => Grace' = Grace
  BY DEF Grace
<1> QED BY <1>1, <1>4, <1>6, <1>7 DEF Spend

(* With room for all of them a pass takes every schedule that is due and     *)
(* that nobody else holds.                                                   *)
LEMMA TakesAll ==
  ASSUME PassTakesAll, CronInv, NEW S \in SUBSET Schedule, Selectable(S)
  PROVE  \A s \in Schedule : s \in S <=> Due(s) /\ Unlocked(s)
<1> DEFINE due == {s \in Schedule : Due(s) /\ Unlocked(s)}
<1>1. S \subseteq due /\ Cardinality(S) = Smaller(TriggerMax, Cardinality(due))
  BY DEF Selectable
<1>2. due \subseteq Schedule
  OBVIOUS
<1> HIDE DEF due
<1>3. IsFiniteSet(due) /\ Cardinality(due) <= Cardinality(Schedule)
  BY <1>2, FS_Subset DEF PassTakesAll
<1>4. Cardinality(due) \in Nat /\ Cardinality(Schedule) \in Nat /\ TriggerMax \in Nat
  BY <1>3, FS_CardinalityType, CronAssumption DEF PassTakesAll
<1>5. Cardinality(S) = Cardinality(due)
  BY <1>1, <1>3, <1>4 DEF Smaller, PassTakesAll
<1>6. S = due
  BY <1>1, <1>3, <1>5, FS_Subset
<1> QED BY <1>6 DEF due

(* Within one second: a loop that stands still stays punctual, and nothing   *)
(* becomes late, if each schedule is as it was, or has an occurrence ahead;  *)
(* a lock that is given up without one is paid for by a failure.             *)
LEMMA StillPunctual ==
  ASSUME TypeOK, TypeOK', SoonEnough, UNCHANGED <<setting, clock>>, Grace' >= Grace,
         \A s \in Schedule : Awaited(s)' =>
           \/ schedules'[s].next > clock
           \/ /\ schedules'[s] = schedules[s]
              /\ Unlocked(s)' => Unlocked(s) \/ Grace' >= Grace + PollInterval
  PROVE  /\ SoonEnough'
         /\ \A m \in Node : Punctual(m) /\ loop'[m] = loop[m] => Punctual(m)'
<1>1. /\ clock \in Nat /\ PollInterval \in Nat /\ PollInterval > 0
      /\ Grace \in Nat /\ Grace' \in Nat /\ Grace' >= PollInterval
      /\ \A s \in Schedule : schedules[s].next \in Nat /\ schedules'[s].next \in Nat
      /\ \A n \in Node : loop[n].time \in Nat
  <2>1. /\ clock \in Nat /\ PollInterval \in Nat /\ PollInterval > 0 /\ Grace \in Nat
        /\ \A s \in Schedule : schedules[s].next \in Nat
        /\ \A n \in Node : loop[n].time \in Nat
    BY LateTypes
  <2>2. Grace' \in Nat /\ Grace' >= PollInterval /\ \A s \in Schedule : schedules'[s].next \in Nat
    <3>1. used'["fail"] \in Nat /\ \A s \in Schedule : schedules'[s].next \in Nat
      BY DEF TypeOK, Operation, Row
    <3>2. \A p, k \in Nat : p * (1 + k) \in Nat /\ p * (1 + k) >= p
      OBVIOUS
    <3> QED BY <2>1, <3>1, <3>2 DEF Grace
  <2> QED BY <2>1, <2>2
<1>2. ASSUME NEW s \in Schedule, Awaited(s)', ~(schedules'[s].next > clock)
      PROVE  /\ schedules'[s] = schedules[s] /\ Awaited(s) /\ clock <= Late(s)
             /\ Unlocked(s)' => Unlocked(s) \/ Grace' >= Grace + PollInterval
    BY <1>2 DEF Awaited, Recurs, SoonEnough
<1>3. ASSUME NEW s \in Schedule, Awaited(s)'
      PROVE  clock <= Late(s)'
  <2>1. CASE schedules'[s].next > clock
    BY <1>1, <2>1 DEF Late
  <2>2. CASE ~(schedules'[s].next > clock)
    BY <1>1, <1>2, <1>3, <2>2 DEF Late
  <2> QED BY <2>1, <2>2
<1>4. ASSUME NEW m \in Node, Punctual(m), loop'[m] = loop[m]
      PROVE  Punctual(m)'
  <2>1. ASSUME NEW s \in Schedule, Awaited(s)', Unlocked(s)'
        PROVE  /\ loop[m].at = "sleep" => loop[m].time <= Late(s)'
               /\ loop[m].at \in {"plan", "tx"} => clock < Late(s)'
    <3>1. loop[m].at = "sleep" => loop[m].time <= clock + PollInterval
      BY <1>4 DEF Punctual
    <3>2. CASE schedules'[s].next > clock
      BY <1>1, <3>1, <3>2 DEF Late
    <3>3. CASE ~(schedules'[s].next > clock) /\ Unlocked(s)
      <4>1. schedules'[s] = schedules[s] /\ Awaited(s)
        BY <1>2, <2>1, <3>3
      <4>2. /\ loop[m].at = "sleep" => loop[m].time <= Late(s)
            /\ loop[m].at \in {"plan", "tx"} => clock < Late(s)
        BY <1>4, <3>3, <4>1 DEF Punctual
      <4> QED BY <1>1, <4>1, <4>2 DEF Late
    <3>4. CASE ~(schedules'[s].next > clock) /\ ~Unlocked(s)
      <4>1. schedules'[s] = schedules[s] /\ clock <= Late(s) /\ Grace' >= Grace + PollInterval
        BY <1>2, <2>1, <3>4
      <4> QED BY <1>1, <3>1, <4>1 DEF Late
    <3> QED BY <3>2, <3>3, <3>4
  <2> QED BY <1>4, <2>1 DEF Punctual
<1> QED BY <1>3, <1>4 DEF SoonEnough


(* A request changes no row but to take it off the table of those awaited,   *)
(* or to give it an occurrence that is still ahead.                          *)
LEMMA RequestsAhead ==
  ASSUME CronInv, LateInv, Requests, Prompt'
  PROVE  /\ Prompt /\ UNCHANGED <<setting, clock, lock, loop>> /\ Grace' >= Grace
         /\ \A s \in Schedule : Awaited(s)' =>
              schedules'[s] = schedules[s] \/ schedules'[s].next > clock
<1>0. /\ TypeOK /\ schedules \in [Schedule -> Row] /\ calls \in [Request -> Call]
      /\ clock \in Nat /\ clock \in Time /\ Grace \in Nat /\ PollInterval \in Nat
      /\ used \in [Operation -> Nat]
      /\ \A s \in Schedule : schedules[s].cron \in CronExpr
  BY LateTypes DEF CronInv, TypeOK
<1>t. \A c \in CronExpr : NextCronTime[c][clock] # NoNext => NextCronTime[c][clock] > clock
  BY <1>0, CronAssumption
<1>o. {"create", "pause", "resume", "delete", "update", "fail"} \subseteq Operation
  BY DEF Operation
<1>1. ASSUME NEW s \in Schedule, NEW c \in CronExpr, CreateSchedule(s, c)
      PROVE  /\ UNCHANGED <<setting, clock, lock, loop>> /\ Spend("create")
             /\ \A x \in Schedule : schedules'[x] = schedules[x] \/ schedules'[x].next > clock
  BY <1>0, <1>t, <1>1 DEF CreateSchedule, Set
<1>2. ASSUME NEW s \in Schedule, PauseSchedule(s) \/ DeleteSchedule(s)
      PROVE  /\ UNCHANGED <<setting, clock, lock, loop>> /\ (Spend("pause") \/ Spend("delete"))
             /\ \A x \in Schedule : schedules'[x] = schedules[x] \/ schedules'[x].status # "active"
  BY <1>0, <1>2 DEF PauseSchedule, DeleteSchedule, Set
<1>3. ASSUME NEW s \in Schedule, ResumeAtOnce(s)
      PROVE  /\ UNCHANGED <<setting, clock, lock, loop>> /\ Spend("resume")
             /\ \A x \in Schedule : schedules'[x] = schedules[x] \/ schedules'[x].next > clock
  BY <1>0, <1>t, <1>3 DEF ResumeAtOnce, Set
<1>4. ASSUME NEW r \in Request, NEW s \in Schedule, ResumeRead(r, s)
      PROVE  UNCHANGED <<setting, clock, lock, loop, schedules>> /\ Spend("resume")
  BY <1>4 DEF ResumeRead
<1>5. ASSUME NEW r \in Request, NEW s \in Schedule, UpdateRead(r, s)
      PROVE  FALSE
  <2>1. Spend("update")
    BY <1>5 DEF UpdateRead
  <2> QED BY <1>0, <2>1, GraceOf DEF Prompt
<1>6. ASSUME NEW r \in Request, UpdateWrite(r)
      PROVE  FALSE
  <2>1. UNCHANGED used /\ used["update"] > 0
    BY <1>6 DEF UpdateWrite, LateInv, UpdatesCounted
  <2> QED BY <2>1 DEF Prompt
<1>7. ASSUME NEW r \in Request, CallFails(r)
      PROVE  UNCHANGED <<setting, clock, lock, loop, schedules>> /\ Spend("fail")
  BY <1>7 DEF CallFails
<1>8. ASSUME NEW r \in Request, ResumeWrite(r)
      PROVE  /\ UNCHANGED <<setting, clock, lock, loop, used>>
             /\ Prompt => \A x \in Schedule : schedules'[x] = schedules[x] \/ schedules'[x].next > clock
  <2> DEFINE c == calls[r]
  <2>1. /\ UNCHANGED <<setting, clock, lock, loop, used>> /\ c.op = "resume" /\ c \in Call
    BY <1>0, <1>8 DEF ResumeWrite
  <2>2. c.schedule \in Schedule /\ c.cron \in CronExpr
    BY <2>1 DEF Call, NoCall
  <2>3. ASSUME Prompt, NEW x \in Schedule
        PROVE  schedules'[x] = schedules[x] \/ schedules'[x].next > clock
    <3>1. c.since = clock
      BY <2>1, <2>3 DEF LateInv, FreshResumes
    <3>2. PICK t \in c.since..clock :
            IF NextCronTime[c.cron][t] = NoNext THEN UNCHANGED schedules
            ELSE Set(c.schedule, "active", schedules[c.schedule].cron, NextCronTime[c.cron][t])
      BY <1>8 DEF ResumeWrite
    <3>3. t = clock
      BY <1>0, <3>1, <3>2
    <3>4. CASE NextCronTime[c.cron][clock] = NoNext
      BY <3>2, <3>3, <3>4
    <3>5. CASE NextCronTime[c.cron][clock] # NoNext
      <4>1. Set(c.schedule, "active", schedules[c.schedule].cron, NextCronTime[c.cron][clock])
        BY <3>2, <3>3, <3>5
      <4>2. NextCronTime[c.cron][clock] > clock
        BY <1>t, <2>2, <3>5
      <4> HIDE DEF c
      <4> QED BY <1>0, <4>1, <4>2 DEF Set
    <3> QED BY <3>4, <3>5
  <2> QED BY <2>1, <2>3
<1>9. UNCHANGED <<setting, clock, lock, loop>>
  BY <1>1, <1>2, <1>3, <1>4, <1>5, <1>6, <1>7, <1>8 DEF Requests
<1>10. UNCHANGED used \/ Spend("create") \/ Spend("pause") \/ Spend("delete")
       \/ Spend("resume") \/ Spend("fail")
  BY <1>1, <1>2, <1>3, <1>4, <1>5, <1>6, <1>7, <1>8 DEF Requests
<1>11. used'["update"] = used["update"] /\ (Grace' = Grace \/ Grace' = Grace + PollInterval)
  BY <1>0, <1>o, <1>10, GraceOf
<1>12. Prompt
  BY <1>9, <1>11 DEF Prompt
<1>13. \A s \in Schedule : Awaited(s)' =>
         schedules'[s] = schedules[s] \/ schedules'[s].next > clock
  BY <1>1, <1>2, <1>3, <1>4, <1>5, <1>6, <1>7, <1>8, <1>12 DEF Requests, Awaited
<1> QED BY <1>0, <1>9, <1>11, <1>12, <1>13


LEMMA RequestsPunctual ==
  ASSUME CronInv, CronInv', LateInv, Requests
  PROVE  LateInv'
<1>0. /\ TypeOK /\ TypeOK' /\ calls \in [Request -> Call] /\ used \in [Operation -> Nat]
      /\ clock \in Nat
  BY LateTypes DEF CronInv, TypeOK
<1>1. UNCHANGED <<setting, clock, lock, loop>>
  BY DEF Requests, CreateSchedule, PauseSchedule, DeleteSchedule, ResumeAtOnce, ResumeRead,
         ResumeWrite, UpdateRead, UpdateWrite, CallFails
<1>2. OnlyUp'
  BY <1>1 DEF LateInv, OnlyUp, Up
<1>3. used' \in [Operation -> Nat] /\ used'["update"] >= used["update"]
  <2>1. UNCHANGED used \/ \E o \in Operation : Spend(o)
    BY DEF Requests, CreateSchedule, PauseSchedule, DeleteSchedule, ResumeAtOnce, ResumeRead,
           ResumeWrite, UpdateRead, UpdateWrite, CallFails, Operation
  <2>2. ASSUME NEW o \in Operation, Spend(o)
        PROVE  used' \in [Operation -> Nat] /\ used'["update"] >= used["update"]
    <3>1. used' \in [Operation -> Nat]
      BY <1>0, <2>2, Spending
    <3>2. used["update"] \in Nat /\ used[o] \in Nat /\ "update" \in Operation
      BY <1>0 DEF Operation
    <3>3. used' = [used EXCEPT ![o] = @ + 1]
      BY <2>2 DEF Spend
    <3> QED BY <1>0, <3>1, <3>2, <3>3
  <2>3. used["update"] \in Nat
    BY <1>0 DEF Operation
  <2> QED BY <1>0, <2>1, <2>2, <2>3
<1>4. ASSUME NEW x \in Request
      PROVE  /\ calls'[x].op = "update" => used'["update"] > 0
             /\ Prompt' /\ calls'[x].op = "resume" => calls'[x].since = clock'
  <2>0. /\ calls[x].op = "update" => used["update"] > 0
        /\ Prompt => (calls[x].op = "resume" => calls[x].since = clock)
        /\ used["update"] \in Nat /\ used'["update"] \in Nat
    BY <1>0, <1>3 DEF LateInv, UpdatesCounted, FreshResumes, Operation
  <2>1. CASE calls'[x] = calls[x]
    <3>1. Prompt' => Prompt
      BY RequestsAhead
    <3> QED BY <1>1, <1>3, <2>0, <2>1, <3>1
  <2>2. CASE calls'[x] = NoCall
    BY <2>2 DEF NoCall
  <2>3. CASE \E s \in Schedule : ResumeRead(x, s)
    BY <1>0, <1>1, <2>3 DEF ResumeRead
  <2>4. CASE \E s \in Schedule : UpdateRead(x, s)
    <3>1. used'["update"] > 0 /\ calls'[x].op = "update"
      BY <1>0, <2>4, GraceOf DEF UpdateRead
    <3> QED BY <3>1
  <2> QED BY <1>0, <2>1, <2>2, <2>3, <2>4
          DEF Requests, CreateSchedule, PauseSchedule, DeleteSchedule, ResumeAtOnce, ResumeRead,
              ResumeWrite, UpdateRead, UpdateWrite, CallFails
<1>5. ASSUME Prompt'
      PROVE  SoonEnough' /\ \A n \in setting'.up : Punctual(n)'
  <2>1. /\ Prompt /\ UNCHANGED <<setting, clock, lock, loop>> /\ Grace' >= Grace
        /\ \A s \in Schedule : Awaited(s)' =>
             schedules'[s] = schedules[s] \/ schedules'[s].next > clock
    BY <1>5, RequestsAhead
  <2>2. \A s \in Schedule : Unlocked(s)' => Unlocked(s)
    BY <2>1 DEF Unlocked
  <2>3. SoonEnough /\ (\A n \in setting.up : Punctual(n)) /\ setting.up \subseteq Node
    BY <1>0, <2>1, LateTypes DEF LateInv
  <2>4. /\ SoonEnough'
        /\ \A m \in Node : Punctual(m) /\ loop'[m] = loop[m] => Punctual(m)'
    BY <1>0, <2>1, <2>2, <2>3, StillPunctual
  <2> QED BY <2>1, <2>3, <2>4
<1> QED BY <1>2, <1>4, <1>5 DEF LateInv, UpdatesCounted, FreshResumes

(* A pass leaves no schedule behind that is due: those it advanced have an   *)
(* occurrence ahead, or none any more.                                       *)
LEMMA AdvancedAhead ==
  ASSUME CronInv, NEW S \in SUBSET Schedule, NEW at \in [S -> Time],
         \A s \in S : at[s] = clock, Advance(S, at), UNCHANGED clock
  PROVE  \A s \in Schedule :
           /\ s \notin S => schedules'[s] = schedules[s]
           /\ s \in S /\ Awaited(s)' => schedules'[s].next > clock
<1>1. schedules \in [Schedule -> Row] /\ clock \in Time /\ clock' = clock
  BY DEF CronInv, TypeOK
<1> DEFINE next(s) == NextCronTime[schedules[s].cron][at[s]]
           done == {s \in S : next(s) # NoNext}
<1>2. schedules' = [s \in Schedule |->
                      IF s \in done THEN [schedules[s] EXCEPT !.next = next(s)] ELSE schedules[s]]
  BY DEF Advance
<1>3. ASSUME NEW s \in S, Awaited(s)'
      PROVE  schedules'[s].next > clock
  <2>1. next(s) = NextCronTime[schedules[s].cron][clock] /\ schedules[s].cron \in CronExpr
    BY <1>1 DEF Row
  <2>2. CASE next(s) # NoNext
    <3>1. s \in done /\ schedules[s] \in Row
      BY <1>1, <2>2
    <3>2. schedules'[s].next = next(s)
      BY <1>2, <3>1 DEF Row
    <3>3. next(s) > clock
      BY <1>1, <2>1, <2>2, CronAssumption
    <3> QED BY <3>2, <3>3
  <2>3. CASE next(s) = NoNext
    <3>1. schedules'[s] = schedules[s]
      BY <1>2, <2>3
    <3> QED BY <1>1, <1>3, <2>1, <2>3, <3>1 DEF Awaited, Recurs
  <2> QED BY <2>2, <2>3
<1>4. \A s \in Schedule : s \notin S => schedules'[s] = schedules[s]
  BY <1>2
<1> QED BY <1>3, <1>4


(* A step of the loop of a server keeps it punctual.                         *)
LEMMA LoopsPunctual ==
  ASSUME PassTakesAll, CronInv, CronInv', LateInv, NEW n \in Node,
         Pass(n) \/ TriggerFails(n) \/ Restart(n)
  PROVE  LateInv'
<1>0. /\ TypeOK /\ TypeOK' /\ loop \in [Node -> Loop] /\ used \in [Operation -> Nat]
      /\ lock \in [Schedule -> Node \cup {NoNode}] /\ n # NoNode
      /\ clock \in Nat /\ clock \in Time /\ PollInterval \in Nat /\ PollInterval > 0
      /\ Grace \in Nat /\ Grace >= PollInterval
      /\ setting.up \subseteq Node
      /\ \A s \in Schedule : schedules[s].next \in Nat
      /\ "fail" \in Operation /\ "fail" # "update"
  BY LateTypes, CronAssumption DEF CronInv, TypeOK, Operation
<1>m. UNCHANGED <<setting, clock, calls>> /\ \A m \in Node : m # n => loop'[m] = loop[m]
  BY <1>0 DEF Pass, TriggerAtOnce, TriggerSelect, TriggerCommit, TriggerFails, Restart, Plan,
              Wake, Goes
<1>u. /\ used'["update"] = used["update"]
      /\ Grace' \in Nat /\ Grace' >= Grace
  <2>1. UNCHANGED used \/ Spend("fail")
    BY DEF Pass, TriggerAtOnce, TriggerSelect, TriggerCommit, TriggerFails, Restart, Plan, Wake
  <2>2. Grace' = Grace \/ Grace' = Grace + PollInterval
    BY <1>0, <2>1, GraceOf
  <2>3. used'["update"] = used["update"]
    BY <1>0, <2>1, GraceOf
  <2> QED BY <1>0, <2>2, <2>3
<1>o. OnlyUp'
  <2>1. Up(n)
    BY DEF Pass, TriggerAtOnce, TriggerSelect, TriggerCommit, TriggerFails, Restart, Plan, Wake,
           LateInv, OnlyUp
  <2> QED BY <1>m, <2>1 DEF LateInv, OnlyUp, Up
<1>c. UpdatesCounted'
  BY <1>m, <1>u DEF LateInv, UpdatesCounted
<1> SUFFICES ASSUME Prompt'
             PROVE  SoonEnough' /\ (\A m \in setting'.up : Punctual(m)') /\ FreshResumes'
  BY <1>o, <1>c DEF LateInv
<1>p. Prompt /\ SoonEnough /\ (\A m \in setting.up : Punctual(m)) /\ FreshResumes
  BY <1>m, <1>u DEF Prompt, LateInv
<1>f. FreshResumes'
  BY <1>m, <1>p DEF FreshResumes
<1>d. ASSUME NEW s \in Schedule, ~Due(s)
      PROVE  schedules[s].status = "active" => clock < Late(s)
  BY <1>0, <1>d DEF Due, Late
(* What is left to show of each step: which schedules are awaited after it,  *)
(* and that the loop itself is punctual.                                     *)
<1>r. ASSUME \A s \in Schedule : Awaited(s)' =>
               \/ schedules'[s].next > clock
               \/ /\ schedules'[s] = schedules[s]
                  /\ Unlocked(s)' => Unlocked(s) \/ Grace' >= Grace + PollInterval,
             SoonEnough' => Punctual(n)'
      PROVE  SoonEnough' /\ \A m \in setting'.up : Punctual(m)'
  <2>1. /\ SoonEnough'
        /\ \A m \in Node : Punctual(m) /\ loop'[m] = loop[m] => Punctual(m)'
    BY <1>0, <1>m, <1>u, <1>p, <1>r, StillPunctual
  <2>2. ASSUME NEW m \in setting'.up
        PROVE  Punctual(m)'
    <3>1. m \in setting.up /\ m \in Node
      BY <1>0, <1>m
    <3> QED BY <1>m, <1>p, <1>r, <2>1, <3>1
  <2> QED BY <2>1, <2>2
(* After a failure a schedule that was on time has another PollInterval.     *)
<1>g. ASSUME Spend("fail"), UNCHANGED schedules, NEW s \in Schedule, Awaited(s)'
      PROVE  Grace' = Grace + PollInterval /\ clock + PollInterval <= Late(s)'
  <2>1. Grace' = Grace + PollInterval /\ clock' = clock
    BY <1>0, <1>m, <1>g, GraceOf
  <2>2. clock <= Late(s)
    BY <1>m, <1>p, <1>g DEF SoonEnough, Awaited, Recurs
  <2> QED BY <1>0, <1>g, <2>1, <2>2 DEF Late
<1>1. CASE TriggerAtOnce(n)
  <2>1. PICK S \in SUBSET Schedule : Selectable(S) /\ Advance(S, [s \in S |-> clock])
    BY <1>1 DEF TriggerAtOnce
  <2>2. \A s \in Schedule : s \in S <=> Due(s) /\ Unlocked(s)
    BY <2>1, TakesAll
  <2>3. \A s \in Schedule : /\ s \notin S => schedules'[s] = schedules[s]
                            /\ s \in S /\ Awaited(s)' => schedules'[s].next > clock
    <3>1. [s \in S |-> clock] \in [S -> Time] /\ \A s \in S : [x \in S |-> clock][s] = clock
      BY <1>0
    <3> QED BY <1>m, <2>1, <3>1, AdvancedAhead
  <2>4. UNCHANGED lock /\ loop'[n].at = "plan"
    BY <1>0, <1>1 DEF TriggerAtOnce, Goes
  <2>5. ASSUME NEW s \in Schedule, Awaited(s)', Unlocked(s)'
        PROVE  clock < Late(s)'
    <3>1. CASE s \in S
      <4>1. schedules'[s].next > clock /\ schedules'[s].next \in Nat
        BY <1>0, <2>3, <2>5, <3>1 DEF TypeOK, Row
      <4> QED BY <1>0, <1>u, <4>1 DEF Late
    <3>2. CASE s \notin S
      <4>1. schedules'[s] = schedules[s] /\ ~Due(s)
        BY <2>2, <2>3, <2>4, <2>5, <3>2 DEF Unlocked
      <4>2. schedules[s].next > clock
        BY <1>0, <2>5, <4>1 DEF Due, Awaited
      <4> QED BY <1>0, <1>u, <4>1, <4>2 DEF Late
    <3> QED BY <3>1, <3>2
  <2>6. Punctual(n)'
    BY <1>m, <2>4, <2>5 DEF Punctual
  <2>7. \A s \in Schedule : Unlocked(s)' => Unlocked(s)
    BY <2>4 DEF Unlocked
  <2> QED BY <1>r, <1>f, <2>3, <2>6, <2>7
<1>2. CASE TriggerSelect(n)
  <2>1. PICK S \in SUBSET Schedule :
          /\ Selectable(S)
          /\ lock' = [s \in Schedule |-> IF s \in S THEN n ELSE lock[s]]
          /\ IF S = {} THEN Goes(n, "plan", 0) ELSE Goes(n, "tx", clock)
    BY <1>2 DEF TriggerSelect
  <2>2. \A s \in Schedule : s \in S <=> Due(s) /\ Unlocked(s)
    BY <2>1, TakesAll
  <2>3. \A s \in Schedule : Unlocked(s)' => Unlocked(s) /\ s \notin S
    BY <1>0, <2>1 DEF Unlocked
  <2>4. UNCHANGED <<schedules, used>>
    BY <1>2 DEF TriggerSelect
  <2>5. loop'[n].at \in {"plan", "tx"} /\ (loop'[n].at = "tx" => loop'[n].time = clock)
    BY <1>0, <2>1 DEF Goes
  <2>6. ASSUME NEW s \in Schedule, Awaited(s)', Unlocked(s)'
        PROVE  clock < Late(s)'
    <3>1. ~Due(s) /\ schedules[s].status = "active" /\ schedules'[s] = schedules[s]
      BY <2>2, <2>3, <2>4, <2>6 DEF Awaited
    <3>2. schedules[s].next > clock
      BY <1>0, <3>1 DEF Due
    <3> QED BY <1>0, <1>u, <3>1, <3>2 DEF Late
  <2>7. Punctual(n)'
    BY <1>m, <2>5, <2>6 DEF Punctual
  <2> QED BY <1>r, <1>f, <2>3, <2>4, <2>7
<1>3. CASE TriggerCommit(n)
  <2>0. n \in setting.up /\ loop[n].at = "tx" /\ loop[n].time = clock
    BY <1>3, <1>p DEF TriggerCommit, LateInv, OnlyUp, Up, Punctual
  <2>1. PICK at \in [Locked(n) -> loop[n].time..clock] : Advance(Locked(n), at)
    BY <1>3 DEF TriggerCommit
  <2>2. at \in [Locked(n) -> Time] /\ \A s \in Locked(n) : at[s] = clock
    <3>1. \A t \in loop[n].time..clock : t = clock /\ t \in Time
      BY <1>0, <2>0
    <3> QED BY <2>1, <3>1
  <2>3. \A s \in Schedule : /\ s \notin Locked(n) => schedules'[s] = schedules[s]
                            /\ s \in Locked(n) /\ Awaited(s)' => schedules'[s].next > clock
    <3>1. Locked(n) \in SUBSET Schedule
      BY DEF Locked
    <3> QED BY <1>m, <2>1, <2>2, <3>1, AdvancedAhead
  <2>4. \A s \in Schedule : Unlocked(s)' => Unlocked(s) \/ s \in Locked(n)
    BY <1>0, <1>3 DEF TriggerCommit, Released, Locked, Unlocked
  <2>5. loop'[n].at = "plan"
    BY <1>0, <1>3 DEF TriggerCommit, Goes
  <2>6. ASSUME NEW s \in Schedule, Awaited(s)', Unlocked(s)'
        PROVE  clock < Late(s)'
    <3>1. CASE s \in Locked(n)
      <4>1. schedules'[s].next > clock /\ schedules'[s].next \in Nat
        BY <1>0, <2>3, <2>6, <3>1 DEF TypeOK, Row
      <4> QED BY <1>0, <1>u, <4>1 DEF Late
    <3>2. CASE s \notin Locked(n)
      <4>1. schedules'[s] = schedules[s] /\ Unlocked(s)
        BY <2>3, <2>4, <2>6, <3>2
      <4>2. Awaited(s)
        BY <1>m, <2>6, <4>1 DEF Awaited, Recurs
      <4>3. clock < Late(s)
        BY <1>p, <2>0, <4>1, <4>2 DEF Punctual
      <4> QED BY <1>0, <1>u, <4>1, <4>3 DEF Late
    <3> QED BY <3>1, <3>2
  <2>7. Punctual(n)'
    BY <1>m, <2>5, <2>6 DEF Punctual
  <2> QED BY <1>r, <1>f, <2>3, <2>4, <2>7
<1>4. CASE TriggerFails(n) \/ Restart(n)
  <2>1. Spend("fail") /\ UNCHANGED schedules /\ loop'[n].at \in {"plan", "awake"}
    BY <1>0, <1>4 DEF TriggerFails, Restart, Goes
  <2>2. Grace' = Grace + PollInterval
    BY <1>0, <2>1, GraceOf
  <2>3. ASSUME NEW s \in Schedule, Awaited(s)'
        PROVE  clock < Late(s)'
    <3>1. clock + PollInterval <= Late(s)' /\ schedules'[s].next \in Nat
      BY <1>0, <1>g, <2>1, <2>3
    <3> QED BY <1>0, <1>u, <3>1 DEF Late
  <2>4. Punctual(n)'
    BY <1>m, <2>1, <2>3 DEF Punctual
  <2>5. \A s \in Schedule : schedules'[s] = schedules[s] /\ Grace' >= Grace + PollInterval
    BY <1>0, <2>1, <2>2
  <2> QED BY <1>r, <1>f, <2>4, <2>5
<1>5. CASE Plan(n)
  <2>0. n \in setting.up /\ loop[n].at = "plan" /\ UNCHANGED <<schedules, lock>>
    BY <1>5 DEF Plan, LateInv, OnlyUp, Up
  <2>1. \A s \in Schedule : Unlocked(s)' => Unlocked(s)
    BY <2>0 DEF Unlocked
  <2>2. ASSUME NEW s \in Schedule, Awaited(s)', Unlocked(s)'
        PROVE  Awaited(s) /\ clock < Late(s)
    <3>1. Awaited(s)
      BY <1>m, <2>0, <2>2 DEF Awaited, Recurs
    <3> QED BY <1>p, <2>0, <2>1, <2>2, <3>1 DEF Punctual
  <2>3. CASE Goes(n, "sleep", clock + PollInterval) /\ Spend("fail")
    <3>1. loop'[n].at = "sleep" /\ loop'[n].time = clock + PollInterval
      BY <1>0, <2>3 DEF Goes
    <3>2. \A s \in Schedule : Awaited(s)' => clock + PollInterval <= Late(s)'
      BY <1>g, <2>0, <2>3
    <3>3. Punctual(n)'
      BY <1>0, <1>m, <3>1, <3>2 DEF Punctual
    <3> QED BY <1>r, <1>f, <2>0, <2>1, <3>3
  <2>4. CASE \E time \in Alarms : Goes(n, "sleep", time) /\ UNCHANGED used
    <3>1. PICK time \in Alarms : Goes(n, "sleep", time) /\ UNCHANGED used
      BY <2>4
    <3>2. loop'[n].at = "sleep" /\ loop'[n].time = time
      BY <1>0, <3>1 DEF Goes
    <3>3. CASE Active = {}
      <4>1. time = clock + PollInterval /\ \A s \in Schedule : ~Awaited(s)'
        BY <2>0, <3>1, <3>3 DEF Alarms, Active, Awaited
      <4>2. Punctual(n)'
        BY <1>0, <1>m, <3>2, <4>1 DEF Punctual
      <4> QED BY <1>r, <1>f, <2>0, <2>1, <4>2
    <3>4. CASE Active # {}
      <4>1. PICK t \in Earliest :
              time \in IF t <= clock THEN {clock, clock + 1} ELSE {Smaller(t, clock + PollInterval)}
        BY <3>1, <3>4 DEF Alarms
      <4>2. t \in Nat /\ \A s \in Active : t <= schedules[s].next
        BY <1>0, <4>1 DEF Earliest, Active
      <4>3. /\ time <= clock + PollInterval /\ (time <= t \/ time <= clock + 1)
            /\ (time > clock + 1 => time <= t)
            /\ time \in Nat
        BY <1>0, <4>1, <4>2 DEF Smaller
      <4>4. ASSUME NEW s \in Schedule, Awaited(s)', Unlocked(s)'
            PROVE  time <= Late(s)'
        <5>1. s \in Active /\ clock < Late(s)
          BY <2>2, <4>4 DEF Active, Awaited
        <5>2. Late(s)' = schedules[s].next + Grace' /\ schedules[s].next \in Nat
          BY <1>0, <2>0 DEF Late
        <5>3. clock < schedules[s].next + Grace
          BY <5>1 DEF Late
        <5>4. t <= schedules[s].next
          BY <4>2, <5>1
        <5> QED BY <1>0, <1>u, <4>2, <4>3, <5>2, <5>3, <5>4
      <4>5. Punctual(n)'
        BY <1>0, <1>m, <3>2, <4>3, <4>4 DEF Punctual
      <4> QED BY <1>r, <1>f, <2>0, <2>1, <4>5
    <3> QED BY <3>3, <3>4
  <2> QED BY <1>5, <2>3, <2>4 DEF Plan
<1>6. CASE Wake(n)
  <2>1. UNCHANGED <<schedules, lock>> /\ loop'[n].at = "awake"
    BY <1>0, <1>6 DEF Wake, Goes
  <2>2. \A s \in Schedule : Unlocked(s)' => Unlocked(s)
    BY <2>1 DEF Unlocked
  <2>3. Punctual(n)'
    BY <2>1 DEF Punctual
  <2> QED BY <1>r, <1>f, <2>1, <2>2, <2>3
<1> QED BY <1>1, <1>2, <1>3, <1>4, <1>5, <1>6 DEF Pass

(* Time passes while every server sleeps, and no alarm is for later than any *)
(* schedule can wait.                                                        *)
LEMMA TickPunctual ==
  ASSUME SomeServer, OverForGood, CronInv, LateInv, Tick
  PROVE  LateInv'
<1>0. /\ TypeOK /\ clock \in Nat /\ clock \in Time /\ PollInterval \in Nat /\ Grace \in Nat
      /\ setting.up \subseteq Node /\ setting \in Settings
      /\ \A s \in Schedule : schedules[s].next \in Nat /\ schedules[s].cron \in CronExpr
      /\ \A n \in Node : loop[n].time \in Nat
      /\ lock \in [Schedule -> Node \cup {NoNode}]
  BY LateTypes DEF CronInv, TypeOK
<1>1. /\ clock' = clock + 1 /\ clock < Horizon
      /\ UNCHANGED <<setting, schedules, runs, lock, loop, calls, used>>
  BY DEF Tick
<1>2. Grace' = Grace /\ clock' \in Time
  BY <1>0, <1>1, CronAssumption DEF Grace, Time
<1>3. OnlyUp' /\ UpdatesCounted'
  BY <1>1 DEF LateInv, OnlyUp, Up, UpdatesCounted
<1> SUFFICES ASSUME Prompt'
             PROVE  SoonEnough' /\ (\A n \in setting'.up : Punctual(n)') /\ FreshResumes'
  BY <1>3 DEF LateInv
<1>4. /\ Prompt /\ SoonEnough /\ (\A n \in setting.up : Punctual(n)) /\ FreshResumes
      /\ \A n \in setting.up : loop[n].at = "sleep" /\ loop[n].time > clock
      /\ \A r \in Request : calls[r] = NoCall
  BY <1>1 DEF Prompt, LateInv, Tick
<1>5. ASSUME NEW s \in Schedule
      PROVE  Unlocked(s)
  <2>1. ASSUME lock[s] # NoNode
        PROVE  FALSE
    <3>1. lock[s] \in Node /\ loop[lock[s]].at = "tx"
      BY <1>0, <2>1 DEF CronInv, LockedStaysDue
    <3>2. lock[s] \in setting.up
      BY <3>1 DEF LateInv, OnlyUp, Up
    <3> QED BY <1>4, <3>1, <3>2
  <2> QED BY <2>1 DEF Unlocked
<1>6. ASSUME NEW s \in Schedule, Awaited(s)'
      PROVE  Awaited(s)
  <2>1. NextCronTime[schedules[s].cron][clock'] # NoNext /\ schedules[s].status = "active"
    BY <1>1, <1>6 DEF Awaited, Recurs
  <2>2. NextCronTime[schedules[s].cron][clock] # NoNext
    BY <1>0, <1>1, <1>2, <2>1 DEF OverForGood
  <2> QED BY <2>1, <2>2 DEF Awaited, Recurs
<1>7. ASSUME NEW n \in setting.up, NEW s \in Schedule, Awaited(s)'
      PROVE  clock + 1 <= loop[n].time /\ loop[n].time <= Late(s)
  <2>1. loop[n].at = "sleep" /\ loop[n].time > clock /\ loop[n].time <= Late(s)
    BY <1>4, <1>5, <1>6, <1>7 DEF Punctual
  <2> QED BY <1>0, <2>1
<1>8. \A s \in Schedule : Late(s)' = Late(s) /\ Late(s) \in Nat
  BY <1>0, <1>1, <1>2 DEF Late
<1>9. SoonEnough'
  <2>1. PICK n \in setting.up : TRUE
    BY <1>0 DEF SomeServer
  <2>2. ASSUME NEW s \in Schedule, Awaited(s)'
        PROVE  clock + 1 <= Late(s)'
    BY <1>0, <1>7, <1>8, <2>1, <2>2
  <2> QED BY <1>1, <2>2 DEF SoonEnough
<1>10. ASSUME NEW n \in setting'.up
       PROVE  Punctual(n)'
  <2>1. n \in setting.up /\ n \in Node /\ loop'[n] = loop[n]
    BY <1>0, <1>1
  <2>2. loop[n].at = "sleep" /\ loop[n].time <= clock + PollInterval
    BY <1>4, <2>1 DEF Punctual
  <2>3. \A s \in Schedule : Awaited(s)' => loop[n].time <= Late(s)'
    BY <1>7, <1>8, <2>1
  <2>4. loop[n].time <= clock' + PollInterval
    BY <1>0, <1>1, <2>1, <2>2
  <2> QED BY <2>1, <2>2, <2>3, <2>4 DEF Punctual
<1>11. FreshResumes'
  BY <1>1, <1>4 DEF FreshResumes, NoCall
<1> QED BY <1>9, <1>10, <1>11

LEMMA LateInit == Init => LateInv
<1> SUFFICES ASSUME Init PROVE LateInv
  OBVIOUS
<1>1. OnlyUp /\ UpdatesCounted /\ FreshResumes
  BY DEF Init, OnlyUp, UpdatesCounted, FreshResumes, NoCall
<1>2. SoonEnough
  BY DEF Init, SoonEnough, Awaited
<1>3. setting.up \subseteq Node
  BY CronAssumption DEF Init, Setting
<1>4. \A n \in setting.up : Punctual(n)
  BY <1>3 DEF Init, Punctual
<1> QED BY <1>1, <1>2, <1>4 DEF LateInv

LEMMA LateStep ==
  ASSUME SomeServer, PassTakesAll, OverForGood
  PROVE  CronInv /\ CronInv' /\ LateInv /\ [Next]_vars => LateInv'
<1> SUFFICES ASSUME CronInv, CronInv', LateInv, [Next]_vars PROVE LateInv'
  OBVIOUS
<1>1. CASE UNCHANGED vars
  BY <1>1 DEF vars, LateInv, OnlyUp, Up, UpdatesCounted, Prompt, SoonEnough, Awaited, Recurs,
              Late, Grace, Punctual, Unlocked, FreshResumes
<1> QED BY <1>1, RequestsPunctual, LoopsPunctual, TickPunctual DEF Next

(* With prompt servers a schedule waits at most PollInterval for its job,    *)
(* and another one for each failure: no loop sleeps past it, whatever was    *)
(* created or resumed while the loop slept.                                  *)
THEOREM WaitIsBounded ==
  ASSUME SomeServer, PassTakesAll, OverForGood
  PROVE  Spec => []LatenessBounded
<1>1. CronInv /\ CronInv' /\ LateInv /\ [Next]_vars => LateInv'
  BY LateStep
<1>2. LateInv => LatenessBounded
  BY DEF LateInv, Prompt, SoonEnough, Awaited, Late, Grace, LatenessBounded
<1> QED BY <1>1, <1>2, LateInit, CronInvariant, PTL DEF Spec

=============================================================================
