-------------------------- MODULE JobLifecycle --------------------------
(***************************************************************************)
(* What the server promises about one job, without saying how: the state   *)
(* machine PENDING -> RUNNING -> SUCCESS/DEAD of IMPLEMENTATION_STATUS.md, *)
(* with cancellation of a queued job and the operator's retry of a dead    *)
(* one.  SUCCESS and CANCELLED are final; an attempt is settled once; the  *)
(* attempts stay within max_attempts, except for those the server took     *)
(* back from a worker it could not push to or lost (grace).                *)
(* Several jobs may move in one step: a claim or a batch of results is one *)
(* transaction.                                                            *)
(***************************************************************************)
EXTENDS Naturals

CONSTANTS Job, MaxAttempts
VARIABLES status, attempt, grace
vars == <<status, attempt, grace>>

Status == {"ABSENT", "PENDING", "RUNNING", "SUCCESS", "DEAD", "CANCELLED"}

Init ==
  /\ status = [j \in Job |-> "ABSENT"]
  /\ attempt = [j \in Job |-> 0]
  /\ grace = [j \in Job |-> 0]

Moves(j, from, to) == status[j] = from /\ status'[j] = to
Keeps(j) == attempt'[j] = attempt[j] /\ grace'[j] = grace[j]

Enqueue(j) == Moves(j, "ABSENT", "PENDING") /\ Keeps(j)

Start(j) ==
  /\ Moves(j, "PENDING", "RUNNING")
  /\ attempt[j] < MaxAttempts[j] + grace[j]
  /\ attempt'[j] = attempt[j] + 1
  /\ grace'[j] = grace[j]

Succeed(j) == Moves(j, "RUNNING", "SUCCESS") /\ Keeps(j)
Fail(j)    == Moves(j, "RUNNING", "PENDING") /\ Keeps(j) /\ attempt[j] < MaxAttempts[j]
Die(j)     == Moves(j, "RUNNING", "DEAD") /\ Keeps(j)
Cancel(j)  == Moves(j, "PENDING", "CANCELLED") /\ Keeps(j)

TakeBack(j) ==
  /\ Moves(j, "RUNNING", "PENDING")
  /\ attempt'[j] = attempt[j]
  /\ grace'[j] = grace[j] + 1

Revive(j) == Moves(j, "DEAD", "PENDING") /\ attempt'[j] = 0 /\ grace'[j] = 0

Step(j) ==
  \/ Enqueue(j) \/ Start(j) \/ Succeed(j) \/ Fail(j) \/ Die(j)
  \/ Cancel(j) \/ TakeBack(j) \/ Revive(j)

Rests(j) == status'[j] = status[j] /\ Keeps(j)

Next ==
  /\ status' \in [Job -> Status]
  /\ attempt' \in [Job -> Nat]
  /\ grace' \in [Job -> Nat]
  /\ \A j \in Job : Step(j) \/ Rests(j)

Spec == Init /\ [][Next]_vars
=============================================================================
