---------------------------- MODULE Backoff ----------------------------
(***************************************************************************)
(* When a failed job runs again: calculate_backoff (core/src/storage/      *)
(* mod.rs), called by the batch processor inside its transaction, with the *)
(* options that EnqueueJob stored.  The arithmetic is that of the code, on *)
(* signed integers of Bits bits, and a build either panics on overflow or  *)
(* wraps around.  A panic ends the task of the batch processor: nobody     *)
(* restarts it, and no result is stored from then on.                      *)
(***************************************************************************)
EXTENDS Enqueue

CONSTANTS
  Bits,      \* width of an i32
  Second,    \* milliseconds in a second
  NoDelay,
  Builds,    \* "debug" panics on overflow, "release" wraps around
  Budgets    \* how often each request or event may happen, in the behaviours checked

Hazard == {"call", "break", "start", "fail", "revive"}

ASSUME BackoffAssumption ==
  /\ Bits \in Nat \ {0} /\ Second \in Nat \ {0}
  /\ Second < 2 ^ (Bits - 1)
  /\ Builds \subseteq {"debug", "release"}
  /\ Budgets \subseteq [Hazard -> Nat]

VARIABLES
  build,      \* how the server was compiled
  attempt,    \* attempt counter of each job
  runs,       \* executions of each job under way
  status,     \* of each job: PENDING, RUNNING or DEAD
  delay,      \* seconds until each job is due, as its last failure scheduled it
  failed,     \* history: the attempt that delay was computed from
  processor,  \* of the batch processor: "running", or "dead" after a panic
  culprit,    \* history: the job whose failure it died of
  left        \* how often each Hazard may still happen

lifeVars == <<build, attempt, runs, status, delay, failed, processor, culprit>>
vars     == <<enqueueVars, lifeVars, left>>

TypeOK ==
  /\ EnqueueTypeOK
  /\ build \in Builds
  /\ attempt \in [Id -> Nat] /\ runs \in [Id -> Nat]
  /\ status \in [Id -> {"PENDING", "RUNNING", "DEAD"}]
  /\ delay \in [Id -> Int \cup {NoDelay}] /\ failed \in [Id -> Nat]
  /\ processor \in {"running", "dead"} /\ culprit \in Id \cup {NoId}
  /\ left \in [Hazard -> Nat]

Init ==
  /\ EnqueueInit
  /\ build \in Builds
  /\ attempt = [i \in Id |-> 0] /\ runs = [i \in Id |-> 0]
  /\ status = [i \in Id |-> "PENDING"]
  /\ delay = [i \in Id |-> NoDelay] /\ failed = [i \in Id |-> 0]
  /\ processor = "running" /\ culprit = NoId
  /\ left \in Budgets

(* One more of a bounded event.                                             *)
Spend(h) == left[h] > 0 /\ left' = [left EXCEPT ![h] = @ - 1]

-----------------------------------------------------------------------------
(* calculate_backoff. *)

Half    == 2 ^ (Bits - 1)
Fits(x) == -Half <= x /\ x < Half
Wrap(x) == ((x + Half) % (2 * Half)) - Half

Lesser(x, y)  == IF x <= y THEN x ELSE y
Greater(x, y) == IF x >= y THEN x ELSE y

(* Rust divides towards zero.                                               *)
Quotient(x, d) == IF x >= 0 THEN x \div d ELSE -((-x) \div d)

(* 2_i32.pow(attempt as u32 - 1): attempt 0, which a late failure finds     *)
(* after an operator's retry, is the power of u32::MAX: 0 once it wraps.    *)
Power(a) == IF a = 0 THEN 0 ELSE 2 ^ (a - 1)

(* Mutant of BaseDelay: the exponent is the attempt itself.                 *)
BaseDelayLate(o, a) ==
  CASE o.backoff = "fixed"       -> o.initial
    [] o.backoff = "linear"      -> o.initial * a
    [] o.backoff = "exponential" -> o.initial * 2 ^ a

(* base_delay, before it is cut to the width.                               *)
BaseDelay(o, a) ==
  CASE o.backoff = "fixed"       -> o.initial
    [] o.backoff = "linear"      -> o.initial * a
    [] o.backoff = "exponential" -> o.initial * Power(a)

Capped(o, a)      == Lesser(Wrap(BaseDelay(o, a)), o.cap)

(* The product is a float: its conversion saturates at either end.          *)
JitterRange(o, a) ==
  Greater(-Half, Lesser(Quotient(Capped(o, a) * o.jitter, 100), Half - 1))
RangeStart(o, a)  == Wrap(-JitterRange(o, a))

(* What overflows on the way, for one draw of the jitter.                   *)
Sum(o, a, x)  == Capped(o, a) + x
Ceil(s)       == Greater(Wrap(s), 0) + Second - 1
Overflows(o, a, x) ==
  \/ ~Fits(BaseDelay(o, a))
  \/ o.backoff = "exponential" /\ (a = 0 \/ ~Fits(Power(a)))
  \/ ~Fits(-JitterRange(o, a)) \/ ~Fits(Sum(o, a, x)) \/ ~Fits(Ceil(Sum(o, a, x)))

(* Mutant of Panics: the upper end of the range is excluded.                *)
PanicsExclusive(o, a, x) ==
  JitterRange(o, a) <= RangeStart(o, a) \/ (build = "debug" /\ Overflows(o, a, x))

(* gen_range panics on an empty range, in any build.                        *)
Panics(o, a, x) ==
  JitterRange(o, a) < RangeStart(o, a) \/ (build = "debug" /\ Overflows(o, a, x))

Draws(o, a) ==
  IF JitterRange(o, a) < RangeStart(o, a) THEN {0} ELSE RangeStart(o, a)..JitterRange(o, a)

Seconds(o, a, x) == Quotient(Wrap(Ceil(Sum(o, a, x))), Second)

-----------------------------------------------------------------------------
(* The life of a job between its failures. *)

Exists(i) == rows[i] # NoRow

Start(i) ==
  /\ Exists(i) /\ status[i] = "PENDING"
  /\ Spend("start")
  /\ attempt' = [attempt EXCEPT ![i] = @ + 1]
  /\ runs' = [runs EXCEPT ![i] = @ + 1]
  /\ status' = [status EXCEPT ![i] = "RUNNING"]
  /\ UNCHANGED <<enqueueVars, build, delay, failed, processor, culprit>>

(* The stream of its worker ends and the job is requeued; the run goes on.  *)
Requeue(i) ==
  /\ status[i] = "RUNNING"
  /\ Spend("fail")
  /\ status' = [status EXCEPT ![i] = "PENDING"]
  /\ UNCHANGED <<enqueueVars, build, attempt, runs, delay, failed, processor, culprit>>

(* A failure with attempts left is processed.                               *)
Retry(i) ==
  LET o == rows[i].options
      a == attempt[i]
  IN  /\ Exists(i) /\ runs[i] > 0 /\ processor = "running"
      /\ a < o.max
      /\ runs' = [runs EXCEPT ![i] = @ - 1]
      /\ \E x \in Draws(o, a) :
           IF Panics(o, a, x)
           THEN /\ processor' = "dead" /\ culprit' = i
                /\ UNCHANGED <<status, delay>>
           ELSE /\ status' = [status EXCEPT ![i] = "PENDING"]
                /\ delay' = [delay EXCEPT ![i] = Seconds(o, a, x)]
                /\ UNCHANGED <<processor, culprit>>
      /\ failed' = [failed EXCEPT ![i] = a]
      /\ UNCHANGED <<enqueueVars, build, attempt, left>>

(* One without, or that must not be retried.                                *)
Bury(i) ==
  /\ Exists(i) /\ runs[i] > 0 /\ processor = "running"
  /\ runs' = [runs EXCEPT ![i] = @ - 1]
  /\ status' = [status EXCEPT ![i] = "DEAD"]
  /\ UNCHANGED <<enqueueVars, build, attempt, delay, failed, processor, culprit, left>>

(* retry_job: a new budget, due at once.                                    *)
Revive(i) ==
  /\ status[i] = "DEAD"
  /\ Spend("revive")
  /\ attempt' = [attempt EXCEPT ![i] = 0]
  /\ status' = [status EXCEPT ![i] = "PENDING"]
  /\ delay' = [delay EXCEPT ![i] = NoDelay]
  /\ UNCHANGED <<enqueueVars, build, runs, failed, processor, culprit>>

Progress(c) ==
  /\ \/ Again(c) \/ LookUp(c) \/ Insert(c) \/ InsertFails(c)
     \/ InsertNothing(c) \/ Fetch(c) \/ Return(c)
  /\ UNCHANGED <<lifeVars, left>>

Calls(c) ==
  \/ Progress(c)
  \/ (\E k \in Key \cup {NoKey} : \E raw \in Asked : Enqueue(c, k, raw))
       /\ Spend("call") /\ UNCHANGED lifeVars
  \/ Break(c) /\ Spend("break") /\ UNCHANGED lifeVars

Next ==
  \/ \E c \in Caller : Calls(c)
  \/ \E i \in Id : Start(i) \/ Requeue(i) \/ Retry(i) \/ Bury(i) \/ Revive(i)

Spec == Init /\ [][Next]_vars

(* The handler of a call goes on, and a caller that failed calls again.     *)
Fairness == \A c \in Caller : WF_vars(Progress(c))

FairSpec == Spec /\ Fairness
-----------------------------------------------------------------------------
(* What the options promise of attempt a: the delay of the strategy, at     *)
(* most the cap, more or less the jitter, in whole seconds rounded up.      *)
Strategy(o, a) ==
  CASE o.backoff = "fixed" -> o.initial
    [] o.backoff = "linear" -> o.initial * a
    [] o.backoff = "exponential" -> o.initial * 2 ^ (a - 1)
Promised(o, a, d) ==
  LET t == Lesser(Strategy(o, a), o.cap)
  IN  /\ 100 * d * Second >= t * (100 - o.jitter)
      /\ 100 * (d - 1) * Second < t * (100 + o.jitter)

InRange(o, a) ==
  /\ a > 0 /\ Fits(Strategy(o, a))
  /\ Lesser(Strategy(o, a), o.cap) * (100 + o.jitter) < 100 * (Half - Second)

(* A retry is scheduled for when the options say, jitter included, for      *)
(* every strategy, attempt and build, as long as the delay fits an i32.     *)
DelayAsPromised ==
  \A i \in Id : delay[i] # NoDelay =>
    LET o == rows[i].options
    IN  InRange(o, failed[i]) => Promised(o, failed[i], delay[i])

(* What attempt a of a job with options o may stop the batch processor      *)
(* with: a delay that leaves the width; and for attempt 0, which is no      *)
(* factor of a fixed delay and leaves none of a linear one, the exponent of *)
(* -1 that a debug build traps.                                             *)
Unbearable(o, a) ==
  \/ a > 0 /\ ~InRange(o, a)
  \/ a = 0 /\ o.backoff = "fixed" /\ ~InRange(o, 1)
  \/ a = 0 /\ o.backoff = "exponential" /\ build = "debug"

(* The batch processor dies of no other failure, whatever options callers   *)
(* send, and however late a failure is after an operator's retry.           *)
ProcessorSurvives ==
  processor = "dead" =>
    culprit \in Id /\ Exists(culprit) /\ Unbearable(rows[culprit].options, failed[culprit])

(* Every call with a key is answered in the end, if its caller calls again. *)
KeyedIsAnswered == \A c \in Caller : Phases(c, {"looking"}) ~> Phases(c, {"done"})

(* "Retry up to 5 times": a job that fails with attempts left waits for the *)
(* next one.                                                                *)
FailedIsRetried ==
  [][\A i \in Id : Exists(i) /\ runs'[i] < runs[i] /\ attempt[i] < rows[i].options.max
       => status'[i] \in {"PENDING", "DEAD"}]_vars
=============================================================================
