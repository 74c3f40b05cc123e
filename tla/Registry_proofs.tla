------------------------ MODULE Registry_proofs -------------------------
(***************************************************************************)
(* Proofs about the worker registry alone: each method keeps its two maps  *)
(* well formed and every worker's slots finite, and changes of the slots   *)
(* only what it says.                                                      *)
(***************************************************************************)
EXTENDS Registry, FiniteSetTheorems, TLAPS

FiniteSlots == \A w \in Worker : IsFiniteSet(workers[w].active)

RegistryInv == RegistryTypeOK /\ FiniteSlots

HasSlot(j) == \E w \in Worker : j \in workers[w].active

-----------------------------------------------------------------------------
(* What the invariant says of one entry. *)
LEMMA EntryFacts ==
  ASSUME RegistryInv, NEW w \in Worker
  PROVE  /\ workers[w] \in WorkerInfo
         /\ workers[w].tx \in Stream \cup {NoStream} /\ workers[w].offer \in Offer
         /\ workers[w].active \in SUBSET Job /\ IsFiniteSet(workers[w].active)
         /\ Registered(w) => workers[w].tx \in Stream
         /\ Available(w) \in Int
<1>1. workers[w] \in WorkerInfo /\ IsFiniteSet(workers[w].active)
  BY DEF RegistryInv, RegistryTypeOK, FiniteSlots
<1>2. /\ workers[w].tx \in Stream \cup {NoStream} /\ workers[w].offer \in Offer
      /\ workers[w].active \in SUBSET Job
  BY <1>1 DEF WorkerInfo
<1>3. Registered(w) => workers[w].tx \in Stream
  BY <1>2 DEF Registered
<1>4. Available(w) \in Int
  <2>1. Cardinality(workers[w].active) \in Nat
    BY <1>1, FS_CardinalityType
  <2>2. workers[w].offer.concurrency \in Int
    BY <1>2 DEF Offer
  <2> QED BY <2>1, <2>2 DEF Available
<1> QED BY <1>1, <1>2, <1>3, <1>4

(* The entry of an absent worker is an entry, without slots. *)
LEMMA AbsentEntry == Absent \in WorkerInfo /\ Absent.active = {} /\ ~(Absent.tx # NoStream)
<1>1. [names |-> {}, concurrency |-> 0] \in Offer
  BY DEF Offer
<1> QED BY <1>1 DEF Absent, WorkerInfo, NoStream

(* An entry with other slots is an entry. *)
LEMMA WithSlots ==
  ASSUME NEW e \in WorkerInfo, NEW A \in SUBSET Job
  PROVE  /\ WithActive(e, A) \in WorkerInfo
         /\ WithActive(e, A).active = A
         /\ WithActive(e, A).tx = e.tx
         /\ WithActive(e, A).offer = e.offer
BY DEF WorkerInfo, WithActive

-----------------------------------------------------------------------------
LEMMA RegistryInitKeeps == RegistryInit => RegistryInv
BY AbsentEntry, FS_EmptySet
   DEF RegistryInit, RegistryInv, RegistryTypeOK, FiniteSlots

(* register replaces the entry of one id: only that worker's slots are gone. *)
LEMMA RegisterKeeps ==
  ASSUME RegistryInv, NEW w \in Worker, NEW s \in Stream, NEW o \in Offer, Register(w, s, o)
  PROVE  /\ RegistryInv'
         /\ \A v \in Worker : workers'[v].active = IF v = w THEN {} ELSE workers[v].active
         /\ \A v \in Worker : workers'[v].tx = IF v = w THEN s ELSE workers[v].tx
<1> DEFINE entry == [tx |-> s, offer |-> o, active |-> {}]
<1>1. entry \in WorkerInfo /\ entry.active = {} /\ entry.tx = s
  BY DEF WorkerInfo
<1>2. workers' = [workers EXCEPT ![w] = entry] /\ assignments' = assignments
  BY DEF Register
<1> HIDE DEF entry
<1>3. /\ workers \in [Worker -> WorkerInfo] /\ assignments \in [Job -> Worker \cup {NoWorker}]
      /\ \A v \in Worker : IsFiniteSet(workers[v].active)
  BY DEF RegistryInv, RegistryTypeOK, FiniteSlots
<1>4. workers' \in [Worker -> WorkerInfo]
      /\ \A v \in Worker : workers'[v] = IF v = w THEN entry ELSE workers[v]
  BY <1>1, <1>2, <1>3
<1>5. \A v \in Worker : IsFiniteSet(workers'[v].active)
  BY <1>1, <1>3, <1>4, FS_EmptySet
<1> QED BY <1>1, <1>2, <1>3, <1>4, <1>5 DEF RegistryInv, RegistryTypeOK, FiniteSlots

(* unregister takes the entry and the slots of one worker, no others. *)
LEMMA UnregisterKeeps ==
  ASSUME RegistryInv, NEW w \in Worker, Unregister(w)
  PROVE  /\ RegistryInv'
         /\ \A v \in Worker : workers'[v].active = IF v = w THEN {} ELSE workers[v].active
         /\ \A v \in Worker : workers'[v].tx = IF v = w THEN NoStream ELSE workers[v].tx
<1>1. /\ workers \in [Worker -> WorkerInfo] /\ assignments \in [Job -> Worker \cup {NoWorker}]
      /\ \A v \in Worker : IsFiniteSet(workers[v].active)
  BY DEF RegistryInv, RegistryTypeOK, FiniteSlots
<1>2. workers' \in [Worker -> WorkerInfo]
      /\ \A v \in Worker : workers'[v] = IF v = w THEN Absent ELSE workers[v]
  BY <1>1, AbsentEntry DEF Unregister
<1>3. \A v \in Worker : IsFiniteSet(workers'[v].active)
  BY <1>1, <1>2, AbsentEntry, FS_EmptySet
<1>4. assignments' \in [Job -> Worker \cup {NoWorker}]
  BY <1>1 DEF Unregister
<1> QED BY <1>2, <1>3, <1>4, AbsentEntry DEF RegistryInv, RegistryTypeOK, FiniteSlots

(* try_assign_job adds a slot: none is lost. *)
LEMMA AssignKeeps ==
  ASSUME RegistryInv, NEW w \in Worker, NEW j \in Job, Assign(w, j)
  PROVE  /\ RegistryInv'
         /\ \A v \in Worker : workers'[v].active =
              IF v = w THEN workers[v].active \cup {j} ELSE workers[v].active
         /\ \A v \in Worker : workers'[v].tx = workers[v].tx
<1> DEFINE A == workers[w].active \cup {j}
<1>1. /\ workers \in [Worker -> WorkerInfo] /\ assignments \in [Job -> Worker \cup {NoWorker}]
      /\ \A v \in Worker : IsFiniteSet(workers[v].active)
  BY DEF RegistryInv, RegistryTypeOK, FiniteSlots
<1>2. A \in SUBSET Job /\ IsFiniteSet(A)
  BY <1>1, EntryFacts, FS_AddElement
<1>3. workers' = [workers EXCEPT ![w] = WithActive(workers[w], A)]
  BY <1>1 DEF Assign
<1> HIDE DEF A
<1>4. \A v \in Worker : workers'[v] =
        IF v = w THEN WithActive(workers[w], A) ELSE workers[v]
  BY <1>1, <1>3
<1>5. workers' \in [Worker -> WorkerInfo]
  BY <1>1, <1>2, <1>3, WithSlots
<1>6. \A v \in Worker : /\ workers'[v].active = IF v = w THEN A ELSE workers[v].active
                        /\ workers'[v].tx = workers[v].tx
  BY <1>1, <1>2, <1>4, WithSlots
<1>7. \A v \in Worker : IsFiniteSet(workers'[v].active)
  BY <1>1, <1>2, <1>6
<1>8. assignments' \in [Job -> Worker \cup {NoWorker}]
  BY <1>1 DEF Assign
<1> QED BY <1>5, <1>6, <1>7, <1>8 DEF RegistryInv, RegistryTypeOK, FiniteSlots, A

(* job_completed frees at most the slots of that one job. *)
LEMMA JobCompletedKeeps ==
  ASSUME RegistryInv, NEW j \in Job, JobCompleted(j)
  PROVE  /\ RegistryInv'
         /\ \A v \in Worker : /\ workers'[v].active \subseteq workers[v].active
                              /\ workers[v].active \ {j} \subseteq workers'[v].active
         /\ \A v \in Worker : workers'[v].tx = workers[v].tx
<1>1. /\ workers \in [Worker -> WorkerInfo] /\ assignments \in [Job -> Worker \cup {NoWorker}]
      /\ \A v \in Worker : IsFiniteSet(workers[v].active)
  BY DEF RegistryInv, RegistryTypeOK, FiniteSlots
<1>2. \A v \in Worker : workers'[v] =
        IF v = assignments[j] THEN WithActive(workers[v], workers[v].active \ {j})
                              ELSE workers[v]
  BY <1>1 DEF JobCompleted, ActiveJobs
<1>3. \A v \in Worker : /\ workers'[v] \in WorkerInfo
                        /\ workers'[v].active \in {workers[v].active, workers[v].active \ {j}}
                        /\ workers'[v].tx = workers[v].tx
  <2> TAKE v \in Worker
  <2>1. workers[v] \in WorkerInfo /\ workers[v].active \ {j} \in SUBSET Job
    BY EntryFacts
  <2> DEFINE A == workers[v].active \ {j}
  <2>2. CASE v = assignments[j]
    <3>1. workers'[v] = WithActive(workers[v], A) /\ A \in SUBSET Job
      BY <1>2, <2>1, <2>2
    <3> HIDE DEF A
    <3>2. /\ workers'[v] \in WorkerInfo /\ workers'[v].active = A
          /\ workers'[v].tx = workers[v].tx
      BY <2>1, <3>1, WithSlots
    <3> QED BY <3>2 DEF A
  <2>3. CASE v # assignments[j]
    BY <1>2, <2>1, <2>3
  <2> QED BY <2>2, <2>3
<1>4. \A v \in Worker : IsFiniteSet(workers'[v].active)
  <2> TAKE v \in Worker
  <2>1. IsFiniteSet(workers[v].active) /\ IsFiniteSet(workers[v].active \ {j})
    BY <1>1, FS_RemoveElement
  <2> QED BY <1>3, <2>1
<1>5. workers' \in [Worker -> WorkerInfo]
  BY <1>3 DEF JobCompleted
<1>6. assignments' \in [Job -> Worker \cup {NoWorker}]
  BY <1>1 DEF JobCompleted
<1>7. \A v \in Worker : /\ workers'[v].active \subseteq workers[v].active
                        /\ workers[v].active \ {j} \subseteq workers'[v].active
  BY <1>3
<1> QED BY <1>3, <1>4, <1>5, <1>6, <1>7 DEF RegistryInv, RegistryTypeOK, FiniteSlots

(* update_worker_capabilities touches no slot and no channel. *)
LEMMA UpdateWorkerCapabilitiesKeeps ==
  ASSUME RegistryInv, NEW w \in Worker, NEW o \in Offer, UpdateWorkerCapabilities(w, o)
  PROVE  /\ RegistryInv'
         /\ \A v \in Worker : /\ workers'[v].active = workers[v].active
                              /\ workers'[v].tx = workers[v].tx
<1>1. /\ workers \in [Worker -> WorkerInfo] /\ assignments \in [Job -> Worker \cup {NoWorker}]
      /\ \A v \in Worker : IsFiniteSet(workers[v].active)
  BY DEF RegistryInv, RegistryTypeOK, FiniteSlots
<1>2. assignments' = assignments
  BY DEF UpdateWorkerCapabilities
<1>3. \A v \in Worker : /\ workers'[v] \in WorkerInfo
                        /\ workers'[v].active = workers[v].active
                        /\ workers'[v].tx = workers[v].tx
  <2> TAKE v \in Worker
  <2>1. workers[v] \in WorkerInfo
    BY <1>1
  <2>2. CASE workers'[v] = workers[v]
    BY <2>1, <2>2
  <2>3. CASE workers'[v] = [workers[v] EXCEPT !.offer = o]
    BY <2>1, <2>3 DEF WorkerInfo
  <2>4. workers'[v] = workers[v] \/ workers'[v] = [workers[v] EXCEPT !.offer = o]
    BY <1>1 DEF UpdateWorkerCapabilities
  <2> QED BY <2>2, <2>3, <2>4
<1>4. workers' \in [Worker -> WorkerInfo]
  <2>1. workers' = [v \in Worker |-> workers'[v]]
    BY <1>1 DEF UpdateWorkerCapabilities
  <2> QED BY <1>3, <2>1
<1>5. \A v \in Worker : IsFiniteSet(workers'[v].active)
  BY <1>1, <1>3
<1> QED BY <1>1, <1>2, <1>3, <1>4, <1>5 DEF RegistryInv, RegistryTypeOK, FiniteSlots

(* The registry of a new process is empty. *)
LEMMA EmptyRegistryKeeps ==
  ASSUME EmptyRegistry
  PROVE  RegistryInv' /\ \A v \in Worker : workers'[v] = Absent
BY AbsentEntry, FS_EmptySet
   DEF EmptyRegistry, RegistryInv, RegistryTypeOK, FiniteSlots

(* Any method keeps the registry well formed. *)
LEMMA RegistryNextKeeps ==
  ASSUME RegistryInv, [RegistryNext]_registryVars
  PROVE  RegistryInv'
<1>1. CASE UNCHANGED registryVars
  BY <1>1 DEF registryVars, RegistryInv, RegistryTypeOK, FiniteSlots
<1>2. CASE RegistryNext
  BY <1>2, RegisterKeeps, UnregisterKeeps, AssignKeeps, JobCompletedKeeps,
     UpdateWorkerCapabilitiesKeeps, EmptyRegistryKeeps DEF RegistryNext
<1> QED BY <1>1, <1>2

-----------------------------------------------------------------------------
(* The reverse index and the slots agree: an assignment names a worker that  *)
(* holds the job, and an id without an entry holds none.                     *)
Backed == \A j \in Job : assignments[j] # NoWorker => j \in workers[assignments[j]].active
NoLeftovers == \A w \in Worker : ~Registered(w) => workers[w].active = {}

(* The methods other than register.                                          *)
OtherMethod ==
  \/ \E w \in Worker : Unregister(w)
  \/ \E w \in Worker, j \in Job : CanAssign(w) /\ Assign(w, j)
  \/ \E j \in Job : JobCompleted(j)
  \/ \E w \in Worker, o \in Offer : UpdateWorkerCapabilities(w, o)
  \/ EmptyRegistry

(* They keep the index backed, whoever completes a job.                      *)
LEMMA OtherMethodBacks ==
  ASSUME RegistryInv, Backed, NoLeftovers, OtherMethod
  PROVE  Backed' /\ NoLeftovers'
<1>0. /\ assignments \in [Job -> Worker \cup {NoWorker}] /\ NoWorker \notin Worker
      /\ \A j \in Job : assignments[j] # NoWorker => assignments[j] \in Worker
  BY RegistryAssumption DEF RegistryInv, RegistryTypeOK
<1>1. ASSUME NEW w \in Worker, Unregister(w)
      PROVE  Backed' /\ NoLeftovers'
  <2>1. \A v \in Worker : /\ workers'[v].active = IF v = w THEN {} ELSE workers[v].active
                          /\ workers'[v].tx = IF v = w THEN NoStream ELSE workers[v].tx
    BY <1>1, UnregisterKeeps
  <2>2. \A j \in Job : assignments'[j] =
          IF j \in workers[w].active THEN NoWorker ELSE assignments[j]
    BY <1>1 DEF Unregister, ActiveJobs
  <2> QED BY <1>0, <2>1, <2>2 DEF Backed, NoLeftovers, Registered
<1>2. ASSUME NEW w \in Worker, NEW j \in Job, CanAssign(w), Assign(w, j)
      PROVE  Backed' /\ NoLeftovers'
  <2>1. \A v \in Worker : /\ workers'[v].active = IF v = w THEN workers[v].active \cup {j}
                                                          ELSE workers[v].active
                          /\ workers'[v].tx = workers[v].tx
    BY <1>2, AssignKeeps
  <2>2. \A i \in Job : assignments'[i] = IF i = j THEN w ELSE assignments[i]
    BY <1>0, <1>2 DEF Assign
  <2>3. ASSUME NEW i \in Job, assignments'[i] # NoWorker
        PROVE  i \in workers'[assignments'[i]].active
    <3>1. CASE i = j
      BY <2>1, <2>2, <3>1
    <3>2. CASE i # j
      <4>1. assignments[i] # NoWorker /\ assignments[i] \in Worker /\ assignments'[i] = assignments[i]
        BY <1>0, <2>2, <2>3, <3>2
      <4>2. i \in workers[assignments[i]].active
        BY <4>1 DEF Backed
      <4> QED BY <2>1, <4>1, <4>2
    <3> QED BY <3>1, <3>2
  <2>4. Registered(w)
    BY <1>2 DEF CanAssign
  <2>5. NoLeftovers'
    BY <2>1, <2>4 DEF NoLeftovers, Registered
  <2> QED BY <2>3, <2>5 DEF Backed
<1>3. ASSUME NEW j \in Job, JobCompleted(j)
      PROVE  Backed' /\ NoLeftovers'
  <2>1. \A v \in Worker : /\ workers'[v].active \subseteq workers[v].active
                          /\ workers[v].active \ {j} \subseteq workers'[v].active
                          /\ workers'[v].tx = workers[v].tx
    BY <1>3, JobCompletedKeeps
  <2>2. \A i \in Job : assignments'[i] = IF i = j THEN NoWorker ELSE assignments[i]
    BY <1>0, <1>3 DEF JobCompleted
  <2> QED BY <1>0, <2>1, <2>2 DEF Backed, NoLeftovers, Registered
<1>4. ASSUME NEW w \in Worker, NEW o \in Offer, UpdateWorkerCapabilities(w, o)
      PROVE  Backed' /\ NoLeftovers'
  <2>1. \A v \in Worker : /\ workers'[v].active = workers[v].active
                          /\ workers'[v].tx = workers[v].tx
    BY <1>4, UpdateWorkerCapabilitiesKeeps
  <2>2. assignments' = assignments
    BY <1>4 DEF UpdateWorkerCapabilities
  <2> QED BY <1>0, <2>1, <2>2 DEF Backed, NoLeftovers, Registered
<1>5. CASE EmptyRegistry
  <2>1. \A v \in Worker : workers'[v] = Absent
    BY <1>5, EmptyRegistryKeeps
  <2>2. \A j \in Job : assignments'[j] = NoWorker
    BY <1>5 DEF EmptyRegistry
  <2> QED BY <2>1, <2>2, AbsentEntry DEF Backed, NoLeftovers
<1> QED BY <1>1, <1>2, <1>3, <1>4, <1>5 DEF OtherMethod

(* So does register, for an id that has no entry.                            *)
LEMMA RegisterBacks ==
  ASSUME RegistryInv, Backed, NoLeftovers,
         NEW w \in Worker, NEW s \in Stream, NEW o \in Offer, Register(w, s, o), ~Registered(w)
  PROVE  Backed' /\ NoLeftovers'
<1>1. /\ \A v \in Worker : /\ workers'[v].active = IF v = w THEN {} ELSE workers[v].active
                           /\ workers'[v].tx = IF v = w THEN s ELSE workers[v].tx
      /\ assignments' = assignments
  BY RegisterKeeps DEF Register
<1>2. \A j \in Job : assignments[j] # NoWorker => assignments[j] \in Worker
  BY DEF RegistryInv, RegistryTypeOK
<1>3. workers[w].active = {} /\ s # NoStream
  BY DEF NoLeftovers, Stream, NoStream
<1> QED BY <1>1, <1>2, <1>3 DEF Backed, NoLeftovers, Registered

-----------------------------------------------------------------------------
(* What else a method does to each entry and each assignment.                *)
LEMMA AssignExact ==
  ASSUME RegistryInv, NEW w \in Worker, NEW j \in Job, Assign(w, j)
  PROVE  /\ \A v \in Worker : workers'[v].offer = workers[v].offer
         /\ \A i \in Job : assignments'[i] = IF i = j THEN w ELSE assignments[i]
<1>1. \A v \in Worker : workers[v] \in WorkerInfo
  BY DEF RegistryInv, RegistryTypeOK
<1>2. \A v \in Worker : workers'[v] = workers[v]
                       \/ \E A \in SUBSET Job : workers'[v] = WithActive(workers[v], A)
  <2> TAKE v \in Worker
  <2>1. workers[w].active \cup {j} \in SUBSET Job
    BY EntryFacts
  <2>2. v = w => workers'[v] = WithActive(workers[v], workers[w].active \cup {j})
    BY DEF Assign, RegistryInv, RegistryTypeOK
  <2>3. v # w => workers'[v] = workers[v]
    BY DEF Assign, RegistryInv, RegistryTypeOK
  <2> QED BY <2>1, <2>2, <2>3
<1>3. \A v \in Worker : workers'[v].offer = workers[v].offer
  BY <1>1, <1>2, WithSlots
<1>4. \A i \in Job : assignments'[i] = IF i = j THEN w ELSE assignments[i]
  BY DEF Assign, RegistryInv, RegistryTypeOK
<1> QED BY <1>3, <1>4

LEMMA JobCompletedExact ==
  ASSUME RegistryInv, NEW j \in Job, JobCompleted(j)
  PROVE  /\ \A v \in Worker : /\ workers'[v].offer = workers[v].offer
                              /\ workers'[v].active = IF v = assignments[j]
                                                      THEN workers[v].active \ {j}
                                                      ELSE workers[v].active
         /\ \A i \in Job : assignments'[i] = IF i = j THEN NoWorker ELSE assignments[i]
<1>1. \A v \in Worker : workers[v] \in WorkerInfo /\ workers[v].active \ {j} \in SUBSET Job
  BY EntryFacts
<1>2. \A v \in Worker : workers'[v] =
        IF v = assignments[j] THEN WithActive(workers[v], workers[v].active \ {j})
                              ELSE workers[v]
  BY DEF JobCompleted, ActiveJobs, RegistryInv, RegistryTypeOK
<1>3. \A v \in Worker : LET A == workers[v].active \ {j} IN
        /\ WithActive(workers[v], A).active = A
        /\ WithActive(workers[v], A).offer = workers[v].offer
  BY <1>1, WithSlots
<1>4. \A i \in Job : assignments'[i] = IF i = j THEN NoWorker ELSE assignments[i]
  BY DEF JobCompleted, RegistryInv, RegistryTypeOK
<1> QED BY <1>2, <1>3, <1>4

LEMMA RegisterExact ==
  ASSUME RegistryInv, NEW w \in Worker, NEW s, NEW o, Register(w, s, o)
  PROVE  /\ \A v \in Worker : workers'[v].offer = IF v = w THEN o ELSE workers[v].offer
         /\ \A v \in Worker : v # w => workers'[v] = workers[v]
BY DEF Register, RegistryInv, RegistryTypeOK

LEMMA UpdateExact ==
  ASSUME RegistryInv, NEW w \in Worker, NEW o \in Offer, UpdateWorkerCapabilities(w, o)
  PROVE  \A v \in Worker : workers'[v].offer = workers[v].offer \/ (v = w /\ workers'[v].offer = o)
<1> SUFFICES ASSUME NEW v \in Worker
             PROVE  workers'[v].offer = workers[v].offer \/ (v = w /\ workers'[v].offer = o)
  OBVIOUS
<1>1. workers[v] \in WorkerInfo
  BY DEF RegistryInv, RegistryTypeOK
<1>2. workers'[v] = workers[v] \/ (v = w /\ workers'[v] = [workers[v] EXCEPT !.offer = o])
  BY DEF UpdateWorkerCapabilities, RegistryInv, RegistryTypeOK
<1> QED BY <1>1, <1>2 DEF WorkerInfo
=============================================================================
