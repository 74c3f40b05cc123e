-------------------------- MODULE MCCompletion --------------------------
(* Instances of Completion for TLC. *)
EXTENDS Completion

CONSTANTS
  j1,          \* the job
  c1, c2, c3,  \* c1 runs jobs and waits for them, c2 only waits, c3 uses Rust
  h1, h2, h3, h4,
  Attempts,
  Combinations  \* the sets of Hazards that happen in one behaviour

MCMaxAttempts == [j \in Job |-> Attempts]
MCKind == [c \in Client |-> IF c = c3 THEN "rust" ELSE "node"]
MCClientOf == [h \in Handle |-> CASE h = h1 -> c1 [] h = h2 -> c2 [] OTHER -> c3]
MCJobOf == [h \in Handle |-> j1]

Each(S) == [h \in Hazard |-> IF h \in S THEN 1 ELSE 0]

(* Which faults and requests happen, once each: all of them together would  *)
(* be too many states for the liveness check.                               *)
MCBudgets == {Each(S) : S \in Combinations}
=============================================================================
