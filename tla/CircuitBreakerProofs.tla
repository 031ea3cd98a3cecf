------------------------ MODULE CircuitBreakerProofs ------------------------
(***************************************************************************)
(* What holds of a breaker for every threshold, number of test calls and   *)
(* set of callers.  Liveness (Recovers) stays with TLC.                    *)
(***************************************************************************)
EXTENDS CircuitBreaker, TLAPS

\* A counter that stops at its cap goes up by one and stays within it.
LEMMA MoreBounds ==
    ASSUME NEW n \in Nat, NEW cap \in Nat, n <= cap
    PROVE  /\ More(n, cap) \in 0..cap
           /\ n <= More(n, cap)
           /\ n < cap => More(n, cap) = n + 1
  BY DEF More, Lesser

Call == [phase : {"idle", "flying", "waiting"}, attempt : 0..MaxRetries]

\* A refused or failed call is again a call with at most MaxRetries retries
\* behind it.
LEMMA RetriedIsCall ==
    ASSUME TypeOK, NEW c \in Calls
    PROVE  Retried(c) \in Call
  BY RetriesAssumption DEF TypeOK, Retried, Call

\* The breaker's counters and the calls keep their ranges: _half_open_calls
\* runs past its maximum by at most the one step the model counts, and no call
\* is tried more than max_retries times over.
LEMMA TypeStep ==
    ASSUME TypeOK, [Next]_vars
    PROVE  TypeOK'
<1> USE ThresholdAssumption, RetriesAssumption DEF Call
<1>idle. [phase |-> "idle", attempt |-> 0] \in Call
  OBVIOUS
<1>calls. ASSUME NEW c \in Calls, NEW x \in Call
          PROVE  [call EXCEPT ![c] = x] \in [Calls -> Call]
  BY DEF TypeOK
<1>1. ASSUME NEW c \in Calls, Enter(c)
      PROVE  TypeOK'
  <2>1. TestsNow \in 0..(MaxTests + 1)
    BY DEF TypeOK, TestsNow
  <2>2. More(TestsNow, MaxTests + 1) \in 0..(MaxTests + 1)
    BY <2>1, MoreBounds
  <2>3. [call[c] EXCEPT !.phase = "flying"] \in Call
    BY DEF TypeOK
  <2>4. call' \in [Calls -> Call]
    <3>1. CASE Now = "closed" \/ AdmitsTest
      <4>1. call' = [call EXCEPT ![c] = [call[c] EXCEPT !.phase = "flying"]]
        BY <1>1, <3>1 DEF Enter
      <4> QED
        BY <4>1, <2>3, <1>calls
    <3>2. CASE ~(Now = "closed" \/ AdmitsTest)
      <4>1. call' = [call EXCEPT ![c] = Retried(c)]
        BY <1>1, <3>2 DEF Enter
      <4> QED
        BY <4>1, RetriedIsCall, <1>calls
    <3> QED
      BY <3>1, <3>2
  <2>5. state' \in {"closed", "open", "half_open"} /\ tests' \in 0..(MaxTests + 1)
    BY <1>1, <2>1, <2>2 DEF TypeOK, Enter, Now
  <2>6. admitted' \in Nat
    BY <1>1 DEF TypeOK, Enter, service
  <2> QED
    BY <1>1, <2>4, <2>5, <2>6 DEF TypeOK, Enter, service
<1>2. ASSUME NEW c \in Calls, Succeed(c)
      PROVE  TypeOK'
  <2>1. call' \in [Calls -> Call]
    BY <1>2, <1>idle, <1>calls DEF Succeed
  <2> QED
    BY <1>2, <2>1 DEF TypeOK, Succeed, RecordSuccess, service
<1>3. ASSUME NEW c \in Calls, NEW retry \in BOOLEAN, Failed(c, retry)
      PROVE  TypeOK'
  <2>1. failures' \in 0..Threshold /\ streak' \in 0..Threshold
    BY <1>3, MoreBounds DEF TypeOK, Failed, RecordFailure, service
  <2>2. call' \in [Calls -> Call]
    BY <1>3, <1>idle, <1>calls, RetriedIsCall DEF Failed
  <2> QED
    BY <1>3, <2>1, <2>2 DEF TypeOK, Failed, RecordFailure, service
<1>4. ASSUME NEW c \in Calls, NEW retry \in BOOLEAN, Excluded(c, retry)
      PROVE  TypeOK'
  <2>1. call' \in [Calls -> Call]
    BY <1>4, <1>idle, <1>calls, RetriedIsCall DEF Excluded
  <2> QED
    BY <1>4, <2>1 DEF TypeOK, Excluded, breaker, service
<1>5. CASE Elapse \/ Heal
  BY <1>5 DEF TypeOK, Elapse, Heal, breaker, service
<1>6. CASE UNCHANGED vars
  BY <1>6 DEF TypeOK, vars
<1> QED
  BY <1>1, <1>2, <1>3, <1>4, <1>5, <1>6 DEF Next, CallStep

\* A fresh breaker is well-typed.
LEMMA InitTyped == Init => TypeOK
<1> SUFFICES ASSUME Init
             PROVE  TypeOK
  OBVIOUS
<1>1. 0 \in 0..MaxRetries /\ 0 \in 0..Threshold /\ 0 \in 0..(MaxTests + 1)
  BY ThresholdAssumption, RetriesAssumption
<1>2. call \in [Calls -> [phase : {"idle", "flying", "waiting"}, attempt : 0..MaxRetries]]
  BY <1>1 DEF Init
<1> QED
  BY <1>1, <1>2 DEF Init, TypeOK

\* The breaker's state is well-typed for every threshold and set of callers.
THEOREM TypeCorrect == Spec => []TypeOK
<1>1. Init => TypeOK
  BY InitTyped
<1> QED
  BY <1>1, TypeStep, PTL DEF Spec

-----------------------------------------------------------------------------
\* The calls admitted in HALF_OPEN are among those _half_open_calls counts, and
\* in CLOSED the failures counted are the last ones: neither is changed by a
\* late answer to a call of an earlier state.
Counted ==
    /\ state = "half_open" => admitted <= tests /\ admitted <= MaxTests
    /\ state = "closed" => failures <= streak

\* Every step, a late answer included, keeps the counters telling.
LEMMA CountedStep ==
    ASSUME TypeOK, Counted, [Next]_vars
    PROVE  Counted'
<1> USE ThresholdAssumption
<1>1. ASSUME NEW c \in Calls, Enter(c)
      PROVE  Counted'
  <2>1. TestsNow \in 0..(MaxTests + 1)
    BY DEF TypeOK, TestsNow
  <2>2. /\ TestsNow <= More(TestsNow, MaxTests + 1)
        /\ TestsNow < MaxTests + 1 => More(TestsNow, MaxTests + 1) = TestsNow + 1
    BY <2>1, MoreBounds
  <2>3. CASE Now = "closed"
    BY <1>1, <2>3 DEF TypeOK, Counted, Enter, Now, Turned
  <2>4. CASE Now = "open"
    BY <1>1, <2>4 DEF TypeOK, Counted, Enter
  <2>5. CASE Now = "half_open"
    <3>1. state' = "half_open" /\ tests' = More(TestsNow, MaxTests + 1)
      BY <1>1, <2>5 DEF Enter
    <3>2. CASE Turned
      BY <1>1, <2>1, <2>2, <2>5, <3>1, <3>2 DEF TypeOK, Counted, Enter, AdmitsTest, TestsNow
    <3>3. CASE ~Turned
      <4>1. state = "half_open" /\ TestsNow = tests
        BY <2>5, <3>3 DEF Now, TestsNow
      <4>2. CASE tests < MaxTests
        <5>1. admitted' <= admitted + 1
          BY <1>1, <3>3 DEF TypeOK, Enter, service
        <5> QED
          BY <2>2, <3>1, <4>1, <4>2, <5>1, <1>1, <3>3 DEF TypeOK, Counted, Enter
      <4>3. CASE ~(tests < MaxTests)
        <5>1. admitted' = admitted
          BY <1>1, <2>5, <3>3, <4>1, <4>3 DEF TypeOK, Enter, AdmitsTest
        <5> QED
          BY <2>1, <2>2, <3>1, <4>1, <5>1 DEF TypeOK, Counted, More, Lesser
      <4> QED
        BY <4>2, <4>3
    <3> QED
      BY <3>2, <3>3
  <2> QED
    BY <2>3, <2>4, <2>5 DEF TypeOK, Now
<1>2. ASSUME NEW c \in Calls, Succeed(c)
      PROVE  Counted'
  BY <1>2 DEF TypeOK, Counted, Succeed, RecordSuccess
<1>3. ASSUME NEW c \in Calls, NEW retry \in BOOLEAN, Failed(c, retry)
      PROVE  Counted'
  <2>1. state' = state \/ state' = "open"
    BY <1>3 DEF Failed, RecordFailure
  <2>2. CASE state' = "open"
    BY <2>2 DEF Counted
  <2>3. CASE state' = state /\ state = "closed"
    BY <1>3, <2>3 DEF TypeOK, Counted, Failed, RecordFailure, More, Lesser
  <2>4. CASE state' = state /\ state # "closed"
    BY <1>3, <2>4 DEF TypeOK, Counted, Failed, RecordFailure
  <2> QED
    BY <2>1, <2>2, <2>3, <2>4
<1>4. ASSUME NEW c \in Calls, NEW retry \in BOOLEAN, Excluded(c, retry)
      PROVE  Counted'
  BY <1>4 DEF Counted, Excluded, breaker
<1>5. CASE Elapse \/ Heal
  BY <1>5 DEF Counted, Elapse, Heal, breaker
<1>6. CASE UNCHANGED vars
  BY <1>6 DEF Counted, vars
<1> QED
  BY <1>1, <1>2, <1>3, <1>4, <1>5, <1>6 DEF Next, CallStep

\* So they always do.
LEMMA CountedAlways == Spec => [](TypeOK /\ Counted)
<1>1. Init => TypeOK /\ Counted
  BY InitTyped DEF Init, Counted
<1>2. TypeOK /\ Counted /\ [Next]_vars => (TypeOK /\ Counted)'
  BY TypeStep, CountedStep
<1> QED
  BY <1>1, <1>2, PTL DEF Spec

\* A service under test gets at most half_open_max_calls calls, however many
\* callers there are and however often the breaker has opened.
THEOREM FewTestsCorrect == Spec => []FewTests
<1>1. TypeOK /\ Counted => FewTests
  BY DEF Counted, FewTests
<1> QED
  BY <1>1, CountedAlways, PTL

\* From CLOSED the breaker trips on failure_threshold failures in a row and on
\* nothing less, in whatever order overlapping calls end.
THEOREM TripsCorrect == Spec => TripsOnAStreak
<1>1. TypeOK /\ Counted /\ [Next]_vars
        => [(state = "closed" /\ state' = "open") => streak' >= Threshold]_vars
  <2> SUFFICES ASSUME TypeOK, Counted, [Next]_vars, state = "closed", state' = "open"
               PROVE  streak' >= Threshold
    OBVIOUS
  <2>1. ASSUME NEW c \in Calls, NEW retry \in BOOLEAN, Failed(c, retry)
        PROVE  streak' >= Threshold
    BY <2>1, ThresholdAssumption DEF TypeOK, Counted, Failed, RecordFailure, More, Lesser
  <2>2. ASSUME NEW c \in Calls, Enter(c)
        PROVE  FALSE
    BY <2>2 DEF Enter, Now, Turned
  <2>3. ASSUME NEW c \in Calls, Succeed(c)
        PROVE  FALSE
    BY <2>3 DEF Succeed, RecordSuccess
  <2>4. ASSUME NEW c \in Calls, NEW retry \in BOOLEAN, Excluded(c, retry)
        PROVE  FALSE
    BY <2>4 DEF Excluded, breaker
  <2>5. ~(Elapse \/ Heal) /\ ~UNCHANGED vars
    BY DEF Elapse, Heal, breaker, vars
  <2> QED
    BY <2>1, <2>2, <2>3, <2>4, <2>5 DEF Next, CallStep
<1> QED
  BY <1>1, CountedAlways, PTL DEF Spec, TripsOnAStreak
=============================================================================
