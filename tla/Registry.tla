---------------------------- MODULE Registry ----------------------------
(***************************************************************************)
(* The worker registry of core/src/scheduler/registry.rs: which poll stream*)
(* serves a worker, how many jobs it takes, which of them it holds, and the*)
(* reverse index from a job to the worker it was assigned to.  One RwLock  *)
(* guards both maps, so each method that writes is one step.               *)
(***************************************************************************)
EXTENDS Integers, FiniteSets, Jobs

CONSTANTS
  Worker,     \* worker_ids
  NoWorker,   \* "no entry" of job_assignments
  MaxStreams  \* bound of the model: poll streams ever opened

ASSUME RegistryAssumption ==
  /\ NoWorker \notin Worker
  /\ MaxStreams \in Nat

VARIABLES
  workers,     \* worker_id -> WorkerInfo
  assignments  \* job_assignments: job -> worker_id

registryVars == <<workers, assignments>>

Stream   == 1..MaxStreams
NoStream == 0

(* What a PollRequest announces: the jobs whose function the worker has a   *)
(* handler for, and its concurrency.                                        *)
Offer == [names : SUBSET Job, concurrency : Int]

(* WorkerInfo; tx is the poll stream whose channel the entry sends to.      *)
WorkerInfo == [tx : Stream \cup {NoStream}, offer : Offer, active : SUBSET Job]

Absent == [tx |-> NoStream, offer |-> [names |-> {}, concurrency |-> 0], active |-> {}]

RegistryTypeOK ==
  /\ workers \in [Worker -> WorkerInfo]
  /\ assignments \in [Job -> Worker \cup {NoWorker}]

RegistryInit ==
  /\ workers = [w \in Worker |-> Absent]
  /\ assignments = [j \in Job |-> NoWorker]

Registered(w) == workers[w].tx # NoStream

(* Mutant of Available: one job too many. *)
AvailableOneMore(w) == workers[w].offer.concurrency - Cardinality(workers[w].active) + 1

(* available_capacity *)
Available(w) == workers[w].offer.concurrency - Cardinality(workers[w].active)

(* register: inserts over an entry the same id may still have.              *)
Register(w, s, offer) ==
  /\ workers' = [workers EXCEPT ![w] = [tx |-> s, offer |-> offer, active |-> {}]]
  /\ UNCHANGED assignments

(* Mutant of Unregister: the assignments of the jobs it held stay behind.   *)
UnregisterKeepsAssignments(w) ==
  workers' = [workers EXCEPT ![w] = Absent] /\ UNCHANGED assignments

(* unregister: the entry goes, and the assignment of every job it held; the *)
(* caller gets those jobs (ActiveJobs, read before the step).               *)
ActiveJobs(w) == workers[w].active

Unregister(w) ==
  /\ workers' = [workers EXCEPT ![w] = Absent]
  /\ assignments' = [j \in Job |-> IF j \in ActiveJobs(w) THEN NoWorker ELSE assignments[j]]

(* try_assign_job succeeds, and hands out the sender workers[w].tx.         *)
CanAssign(w) == Registered(w) /\ Available(w) > 0

WithActive(entry, S) == [entry EXCEPT !.active = S]

Assign(w, j) ==
  /\ workers' = [workers EXCEPT ![w] = WithActive(@, @.active \cup {j})]
  /\ assignments' = [assignments EXCEPT ![j] = w]

(* Mutant of JobCompleted: the slot is not freed.                           *)
JobCompletedKeepsSlot(j) ==
  assignments' = [assignments EXCEPT ![j] = NoWorker] /\ UNCHANGED workers

(* job_completed: drops the job's assignment, and its slot with the worker  *)
(* that assignment names, whoever completed it.                             *)
JobCompleted(j) ==
  /\ assignments' = [assignments EXCEPT ![j] = NoWorker]
  /\ workers' = [w \in Worker |->
                   IF w = assignments[j]
                   THEN WithActive(workers[w], ActiveJobs(w) \ {j})
                   ELSE workers[w]]

(* update_worker_capabilities: nothing for an id that is not registered.    *)
UpdateWorkerCapabilities(w, offer) ==
  /\ workers' = IF Registered(w) THEN [workers EXCEPT ![w].offer = offer] ELSE workers
  /\ UNCHANGED assignments

(* A new process starts with empty maps.                                    *)
EmptyRegistry ==
  /\ workers' = [w \in Worker |-> Absent]
  /\ assignments' = [j \in Job |-> NoWorker]

RegistryNext ==
  \/ \E w \in Worker, s \in Stream, offer \in Offer : Register(w, s, offer)
  \/ \E w \in Worker : Unregister(w)
  \/ \E w \in Worker, j \in Job : Assign(w, j)
  \/ \E j \in Job : JobCompleted(j)
  \/ \E w \in Worker, offer \in Offer : UpdateWorkerCapabilities(w, offer)
  \/ EmptyRegistry
=============================================================================
