----------------------------- MODULE MCCron -----------------------------
(* Instances of Cron for TLC. *)
EXTENDS Cron, TLC

CONSTANTS n1, n2

(* Every second, and once, at second 2. *)
MCCronExpr == {"one", "once"}
MCNextCronTime ==
  [one  |-> [t \in Time |-> t + 1],
   once |-> [t \in Time |-> IF t < 2 THEN 2 ELSE NoNext]]

At(storage, up, allowed) ==
  [storage : {storage}, up : {up}, prompt : BOOLEAN, allowed : allowed]

Each(S) == [o \in Operation |-> IF o \in S THEN 1 ELSE 0]

(* The instance is one of those that the theorem on lateness is about.      *)
ASSUME SomeServer /\ PassTakesAll /\ OverForGood

(* Which operations happen, once each: every one with a failure would be too *)
(* many states for the liveness check.                                       *)
Budgets ==
  {Each({"create", "pause", "resume", "delete", "fail"}),
   Each({"create", "pause", "resume", "update"}),
   Each({"create", "update", "delete", "fail"})}

MCSettings == At("sqlite", {n1}, Budgets) \cup At("postgres", {n1, n2}, Budgets)
=============================================================================
