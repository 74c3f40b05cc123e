--------------------------- MODULE MCBackoff ---------------------------
(* Instances of Backoff for TLC: one second is 10 ms, an i32 has 10 bits.   *)
EXTENDS Backoff

MCDefault == [max |-> 3, backoff |-> "exponential", initial |-> 10, cap |-> 60, jitter |-> 10]

Nothing == [max |-> 0, backoff |-> "", initial |-> 0, cap |-> 0, jitter |-> 0]

(* Nothing set; values that make no sense, with many attempts; the other    *)
(* strategies, one with a jitter above 100 per cent; and a jitter with which *)
(* the range of a delay that has wrapped saturates.                         *)
MCAsked == {Nothing,
            [Nothing EXCEPT !.max = 8, !.initial = -5, !.cap = -1, !.jitter = -10],
            [Nothing EXCEPT !.max = 8, !.backoff = "linear", !.initial = 7, !.jitter = 10],
            [Nothing EXCEPT !.max = 2, !.backoff = "fixed", !.initial = 99, !.jitter = 150],
            [Nothing EXCEPT !.max = 8, !.jitter = 300]}

Times(b) == [h \in Hazard |-> IF h \in DOMAIN b THEN b[h] ELSE 0]

MCBudgets ==
  {Times([call |-> 2, break |-> 1]),
   Times([call |-> 1, start |-> 8]),
   Times([call |-> 1, start |-> 3, fail |-> 1, revive |-> 1])}
=============================================================================
