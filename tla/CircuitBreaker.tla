---------------------------- MODULE CircuitBreaker ----------------------------
(***************************************************************************)
(* The breaker every integration client goes through, and the retry loop   *)
(* around it: CircuitBreaker and retry_with_backoff of                     *)
(* backend/integrations/resilience.py.                                     *)
(*                                                                         *)
(* One breaker of a CircuitBreakerRegistry (they are independent), shared  *)
(* by the calls of one event loop: __aenter__ and __aexit__ are atomic, the *)
(* HTTP call between them is not.  Time is whether recovery_timeout has    *)
(* passed since the last failure; _failure_count is counted up to the      *)
(* threshold and _half_open_calls up to one past its maximum.              *)
(***************************************************************************)
EXTENDS Integers, FiniteSets

CONSTANTS
    Calls,
    Threshold,    \* failure_threshold
    MaxTests,     \* half_open_max_calls
    MaxRetries    \* max_retries

ASSUME ThresholdAssumption == Threshold \in Nat \ {0} /\ MaxTests \in Nat \ {0}
ASSUME RetriesAssumption == MaxRetries \in Nat

VARIABLES
    state,      \* _state
    failures,   \* _failure_count
    due,        \* recovery_timeout has passed since _last_failure_time
    tests,      \* _half_open_calls
    call,       \* phase and attempt of each call
    healthy,    \* the service answers (for good)
    limits,     \* may it answer with one of exclude_errors (a 429)?  For good, too
    streak,     \* failures since the last success (history)
    admitted    \* calls let through since the breaker became HALF_OPEN (history)

breaker == <<state, failures, due, tests>>
service == <<healthy, limits>>
vars == <<state, failures, due, tests, call, healthy, limits, streak, admitted>>

Lesser(a, b) == IF a < b THEN a ELSE b
More(n, cap) == Lesser(n + 1, cap)

Init ==
    /\ state = "closed" /\ failures = 0 /\ due = FALSE /\ tests = 0
    /\ call = [c \in Calls |-> [phase |-> "idle", attempt |-> 0]]
    /\ healthy = FALSE /\ limits \in BOOLEAN
    /\ streak = 0 /\ admitted = 0

-----------------------------------------------------------------------------
(* __aenter__ *)

\* The state property: OPEN becomes HALF_OPEN once the timeout has passed.
Turned == state = "open" /\ due
Now    == IF Turned THEN "half_open" ELSE state

\* Mutant: the counter of test calls is kept from one HALF_OPEN to the next.
TestsKept == tests

TestsNow == IF Turned THEN 0 ELSE tests

\* A CircuitOpenError; retry_with_backoff retries it as any Exception.
Retried(c) ==
    IF call[c].attempt < MaxRetries
    THEN [phase |-> "waiting", attempt |-> call[c].attempt + 1]
    ELSE [phase |-> "idle", attempt |-> 0]

\* Mutant: a test call is let through whatever the number of those before it.
AdmitsAnyTest == Now = "half_open"

AdmitsTest == Now = "half_open" /\ TestsNow < MaxTests

Enter(c) ==
    LET in == Now = "closed" \/ AdmitsTest IN
    /\ call[c].phase \in {"idle", "waiting"}
    /\ state' = Now
    /\ tests' = IF Now = "half_open" THEN More(TestsNow, MaxTests + 1) ELSE TestsNow
    /\ admitted' = (IF Turned THEN 0 ELSE admitted)
                   + (IF in /\ Now = "half_open" THEN 1 ELSE 0)
    /\ call' = [call EXCEPT ![c] = IF in THEN [@ EXCEPT !.phase = "flying"] ELSE Retried(c)]
    /\ UNCHANGED <<failures, due, service, streak>>

-----------------------------------------------------------------------------
(* __aexit__ *)

\* Mutant: a success closes the breaker and forgets no failure.
SuccessCountsOn == state' = (IF state = "open" THEN "open" ELSE "closed") /\ UNCHANGED failures

\* record_success: nothing while OPEN.
RecordSuccess ==
    IF state = "open" THEN UNCHANGED <<state, failures>>
                      ELSE state' = "closed" /\ failures' = 0

Succeed(c) ==
    /\ call[c].phase = "flying"
    /\ RecordSuccess
    /\ streak' = 0
    /\ call' = [call EXCEPT ![c] = [phase |-> "idle", attempt |-> 0]]
    /\ UNCHANGED <<due, tests, service, admitted>>

\* record_failure
RecordFailure ==
    /\ failures' = More(failures, Threshold)
    /\ due' = FALSE
    /\ state' = IF state = "half_open" \/ failures' >= Threshold THEN "open" ELSE state

\* A failure that counts; some are retried (5xx, the network), some are not.
Failed(c, retry) ==
    /\ call[c].phase = "flying" /\ ~healthy
    /\ RecordFailure
    /\ streak' = More(streak, Threshold)
    /\ call' = [call EXCEPT ![c] = IF retry THEN Retried(c) ELSE [phase |-> "idle", attempt |-> 0]]
    /\ UNCHANGED <<tests, service, admitted>>

\* An excluded error: the breaker takes no notice.
Excluded(c, retry) ==
    /\ limits
    /\ call[c].phase = "flying"
    /\ call' = [call EXCEPT ![c] = IF retry THEN Retried(c) ELSE [phase |-> "idle", attempt |-> 0]]
    /\ UNCHANGED <<breaker, service, streak, admitted>>

-----------------------------------------------------------------------------
\* recovery_timeout passes.
Elapse ==
    /\ state = "open" /\ ~due
    /\ due' = TRUE
    /\ UNCHANGED <<state, failures, tests, call, service, streak, admitted>>

\* The service is repaired.
Heal ==
    /\ ~healthy /\ healthy' = TRUE
    /\ UNCHANGED <<breaker, call, limits, streak, admitted>>

CallStep(c) ==
    \/ Enter(c) \/ Succeed(c)
    \/ \E retry \in BOOLEAN : Failed(c, retry) \/ Excluded(c, retry)

Next ==
    \/ \E c \in Calls : CallStep(c)
    \/ Elapse \/ Heal

Spec == Init /\ [][Next]_vars

\* Clients keep calling, every call ends (httpx timeouts), time passes.
Fairness ==
    /\ \A c \in Calls : /\ WF_vars(Enter(c))
                        /\ WF_vars(Succeed(c) \/ \E retry \in BOOLEAN : Failed(c, retry)
                                                                 \/ Excluded(c, retry))
    /\ WF_vars(Elapse) /\ WF_vars(Heal)

FairSpec == Spec /\ Fairness

-----------------------------------------------------------------------------
(* Properties *)

TypeOK ==
    /\ state \in {"closed", "open", "half_open"}
    /\ failures \in 0..Threshold /\ streak \in 0..Threshold
    /\ tests \in 0..(MaxTests + 1) /\ admitted \in Nat
    /\ due \in BOOLEAN /\ healthy \in BOOLEAN /\ limits \in BOOLEAN
    /\ call \in [Calls -> [phase : {"idle", "flying", "waiting"}, attempt : 0..MaxRetries]]

\* The breaker counts consecutive failures: it trips from CLOSED only when the
\* last Threshold results of all its overlapping calls were failures.
TripsOnAStreak ==
    [][(state = "closed" /\ state' = "open") => streak' >= Threshold]_vars

\* However calls overlap and however often the breaker opens, a service that is
\* being tested gets no more calls than half_open_max_calls.
FewTests == state = "half_open" => admitted <= MaxTests

\* A repaired service is used again, CLOSED for good, whatever calls were under
\* way when it was repaired, if it does not rate limit.
Recovers == (healthy /\ ~limits) ~> [](state = "closed")

\* The claim without that proviso ("success -> CLOSED, failure -> OPEN": a test
\* call that ends with an excluded error is neither).
RecoversAnyway == healthy ~> [](state = "closed")
=============================================================================
