----------------------------- MODULE RateLimits -----------------------------
(***************************************************************************)
(* The two sliding-window limiters that are kept, as the code uses each,    *)
(* for one key (keys do not touch each other):                             *)
(*   - RateLimiter of src/src/app_shell/rate_limit.py, under a lock, for   *)
(*     logins and uploads of the administration pages;                     *)
(*   - InMemoryRateLimiter of src/src/api/deps.py, which the threads of    *)
(*     the newsletter route share without a lock;                          *)
(*   - InMemoryRateLimiter of src/src/components/analytics/_impl.py, which *)
(*     the ingestion route builds anew for every request.                  *)
(***************************************************************************)
EXTENDS Integers, FiniteSets

CONSTANTS
  Callers,    \* threads that serve requests of one client
  Limit,      \* attempts allowed in a window
  Window,     \* its length in ticks
  MaxAdmitted, \* bound on what one limiter lets through
  MaxTick     \* bound on the clock

ASSUME RateLimitAssumption ==
  /\ Limit \in Nat \ {0} /\ Window \in Nat \ {0}
  /\ MaxAdmitted \in Nat /\ MaxTick \in Nat

Ticks == 0..MaxTick

VARIABLES
  tick,       \* the clock
  history,    \* times in RateLimiter._history
  attempts,   \* times in the newsletter limiter's _attempts
  call,       \* what every thread does in the newsletter limiter
  admitted,   \* history: what each limiter let through
  overlapped  \* history: two threads were inside the newsletter limiter at a time

rateVars == <<tick, history, attempts, call, admitted, overlapped>>

-----------------------------------------------------------------------------

\* A list of times is the set of its attempts, each its time and its number.
NextNumber(let) == Cardinality(let) + 1

\* Mutant: the window is one tick shorter.
RecentShort(times) == {a \in times : a[1] > tick - Window + 1}

\* The comprehension every limiter cleans its list with.
Recent(times) == {a \in times : a[1] > tick - Window}

RateInit ==
  /\ tick = 0
  /\ history = {} /\ attempts = {}
  /\ call = [c \in Callers |-> [step |-> "idle", pruned |-> {}]]
  /\ admitted = [login |-> {}, subscribe |-> {}]
  /\ overlapped = FALSE

-----------------------------------------------------------------------------

\* allow_request, all of it under the lock.
AllowRequest ==
  /\ LET recent == Recent(history) IN
     \/ /\ Cardinality(recent) >= Limit
        /\ history' = recent /\ UNCHANGED admitted
     \/ /\ Cardinality(recent) < Limit
        /\ LET attempt == <<tick, NextNumber(admitted.login)>> IN
           /\ history' = recent \cup {attempt}
           /\ admitted' = [admitted EXCEPT !.login = @ \cup {attempt}]
  /\ UNCHANGED <<tick, attempts, call, overlapped>>

\* check_rate_limit: the list is cleaned into a new one ...
Prune(c) ==
  /\ call[c].step = "idle"
  /\ Cardinality(admitted.subscribe) < MaxAdmitted
  /\ call' = [call EXCEPT ![c] = [step |-> "store", pruned |-> Recent(attempts)]]
  /\ overlapped' = (overlapped \/ \E d \in Callers : call[d].step # "idle")
  /\ UNCHANGED <<tick, history, attempts, admitted>>

\* ... which replaces it, whatever was appended to the old one meanwhile ...
StorePruned(c) ==
  /\ call[c].step = "store"
  /\ attempts' = call[c].pruned
  /\ call' = [call EXCEPT ![c] = [step |-> "count", pruned |-> {}]]
  /\ UNCHANGED <<tick, history, admitted, overlapped>>

\* ... and is counted.
CountAttempts(c) ==
  /\ call[c].step = "count"
  /\ call' = [call EXCEPT ![c].step = IF Cardinality(attempts) < Limit THEN "record" ELSE "idle"]
  /\ UNCHANGED <<tick, history, attempts, admitted, overlapped>>

\* record_attempt, which run_subscribe calls when it was let through.
RecordAttempt(c) ==
  /\ call[c].step = "record"
  /\ LET attempt == <<tick, NextNumber(admitted.subscribe)>> IN
     /\ attempts' = attempts \cup {attempt}
     /\ admitted' = [admitted EXCEPT !.subscribe = @ \cup {attempt}]
  /\ call' = [call EXCEPT ![c].step = "idle"]
  /\ UNCHANGED <<tick, history, overlapped>>

NextTick ==
  /\ tick < MaxTick
  /\ tick' = tick + 1
  /\ UNCHANGED <<history, attempts, call, admitted, overlapped>>

SubscribeCall(c) == Prune(c) \/ StorePruned(c) \/ CountAttempts(c) \/ RecordAttempt(c)

\* The limiters share nothing but the clock: a run uses one of them.
LoginNext == AllowRequest \/ NextTick
SubscribeNext == (\E c \in Callers : SubscribeCall(c)) \/ NextTick

RateSpec == RateInit /\ [][LoginNext \/ SubscribeNext]_rateVars

-----------------------------------------------------------------------------
(* Properties. *)

\* No more than Limit attempts in any window.
Within(times) == \A t \in Ticks :
  Cardinality({a \in times : t - Window < a[1] /\ a[1] <= t}) <= Limit

\* No window lets more than Limit logins through, and no more than Limit subscriptions
\* unless two of their threads were inside the limiter at a time, which loses records.
\* What it counts against a client was really attempted, whatever threads replace the
\* list of which.
LimitKept ==
  /\ Within(admitted.login)
  /\ overlapped \/ Within(admitted.subscribe)
  /\ attempts \subseteq admitted.subscribe

=============================================================================
