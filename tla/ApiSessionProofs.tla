--------------------------- MODULE ApiSessionProofs ---------------------------
(***************************************************************************)
(* What holds of the session in the browser for every number of calls,     *)
(* retries and tokens: its types and the count of uploads for any set of   *)
(* tabs and faults, the survival of the session for one tab whose          *)
(* refreshes are refused by nothing but a break before the server.         *)
(***************************************************************************)
EXTENDS ApiSession, TLAPS

ACall == [pc : Places, token : 0..MaxTokens, res : Ends, again : BOOLEAN, attempt : Nat]

AFlight == [at : {"none", "sent", "verified", "ok", "rejected", "broken", "error"},
            token : 0..MaxTokens, pair : 0..MaxTokens]

-----------------------------------------------------------------------------
(* Types *)

\* Calls keep their shape, ended ones too.
LEMMA EndedTyped ==
    ASSUME TypeOK, NEW c \in Calls
    PROVE  /\ call[c] \in ACall
           /\ \A how \in Ends : Ended(c, how) \in ACall
<1>1. call[c] \in ACall
  BY DEF TypeOK, ACall
<1>2. ASSUME NEW how \in Ends
      PROVE  [call[c] EXCEPT !.pc = "done", !.res = how] \in ACall
  BY <1>1 DEF ACall, Places
<1> QED
  BY <1>1, <1>2 DEF Ended

\* A step of one call leaves the others where they were.
LEMMA OneCallMoves ==
    ASSUME TypeOK, NEW c \in Calls, NEW x \in ACall, call' = [call EXCEPT ![c] = x]
    PROVE  /\ call' \in [Calls -> ACall]
           /\ call'[c] = x
           /\ \A d \in Calls \ {c} : call'[d] = call[d]
           /\ x.pc # "waiting" => \A t \in Tabs : Waiting(t)' \subseteq Waiting(t)
<1>1. call' \in [Calls -> ACall] /\ call'[c] = x /\ \A d \in Calls \ {c} : call'[d] = call[d]
  BY DEF TypeOK, ACall
<1>2. ASSUME x.pc # "waiting"
      PROVE  \A d \in Calls : call'[d].pc = "waiting" => call[d].pc = "waiting"
  BY <1>1, <1>2
<1> QED
  BY <1>1, <1>2 DEF Waiting

\* What one call and the server do, the session left alone.
LEMMA CallTyped ==
    ASSUME TypeOK, NEW c \in Calls, Send(c) \/ Serve(c) \/ Retry(c) \/ Wake(c) \/ Finish(c)
    PROVE  TypeOK'
<1> USE RetriesAssumption
<1>0. call[c] \in ACall
  BY DEF TypeOK, ACall
<1>1. \E x \in ACall : x.pc # "waiting" /\ call' = [call EXCEPT ![c] = x]
  <2>1. CASE Send(c)
    <3>1. [call[c] EXCEPT !.pc = "sent", !.token = access] \in ACall
      BY <1>0 DEF TypeOK, ACall, Places
    <3> QED
      BY <2>1, <3>1, <1>0 DEF Send, ACall
  <2>2. CASE Serve(c)
    <3>1. \A res \in Ends : [call[c] EXCEPT !.pc = "answered", !.res = res] \in ACall
      BY <1>0 DEF ACall, Places
    <3>2. \E res \in Ends : call' = [call EXCEPT ![c] = [call[c] EXCEPT !.pc = "answered", !.res = res]]
      BY <2>2 DEF Serve, Answers, Ends
    <3> QED
      BY <3>1, <3>2, <1>0 DEF ACall
  <2>3. CASE Retry(c)
    <3> DEFINE n == call[c].attempt
               m == IF n <= Retries THEN n + 1 ELSE n
               x == [call[c] EXCEPT !.pc = "asleep", !.attempt = m]
    <3>1. n \in Nat /\ m \in Nat
      BY <1>0 DEF ACall
    <3> HIDE DEF m
    <3>2. x \in ACall /\ x.pc # "waiting"
      BY <1>0, <3>1 DEF ACall, Places
    <3>3. call' = [call EXCEPT ![c] = x]
      BY <2>3 DEF Retry, m
    <3> QED
      BY <3>2, <3>3
  <2>4. CASE Wake(c)
    <3>1. [call[c] EXCEPT !.pc = "sent", !.again = FALSE] \in ACall
      BY <1>0 DEF ACall, Places
    <3> QED
      BY <2>4, <3>1, <1>0 DEF Wake, ACall
  <2>5. CASE Finish(c)
    <3>1. Ended(c, call[c].res) \in ACall /\ Ended(c, call[c].res).pc = "done"
      BY <1>0 DEF Ended, ACall, Places
    <3> QED
      BY <2>5, <3>1 DEF Finish
  <2> QED
    BY <2>1, <2>2, <2>3, <2>4, <2>5
<1>2. call' \in [Calls -> ACall] /\ \A t \in Tabs : Waiting(t)' \subseteq Waiting(t)
  BY <1>1, OneCallMoves
<1>3. UNCHANGED <<access, refresh, page, flight, valid, live, issued, over>>
  BY DEF Send, Serve, Retry, Wake, Finish
<1>4. applied' \in [Uploads -> Nat]
  <2>1. CASE Serve(c)
    <3>1. \/ applied' = applied
          \/ applied' = [u \in Uploads |-> IF u = c /\ applied[u] < Retries + 2
                                           THEN applied[u] + 1 ELSE applied[u]]
      BY <2>1 DEF Serve
    <3> QED
      BY <3>1 DEF TypeOK
  <2>2. CASE ~Serve(c)
    BY <2>2 DEF Send, Retry, Wake, Finish, TypeOK
  <2> QED
    BY <2>1, <2>2
<1> QED
  BY <1>2, <1>3, <1>4 DEF TypeOK, ACall

\* A logout ends the calls it is told of and clears the tokens.
LEMMA LogOutTyped ==
    ASSUME TypeOK, NEW t \in Tabs, NEW calls, LogOut(t, calls)
    PROVE  /\ access' = 0 /\ refresh' = 0
           /\ page' \in [Tabs -> {"app", "leaving", "login"}]
           /\ call' \in [Calls -> ACall]
           /\ \A s \in Tabs : Waiting(s)' = Waiting(s) \ calls
<1>1. \A c \in Calls : Ended(c, "unauthorized") \in ACall
  BY DEF TypeOK, ACall, Ended, Places, Ends
<1>2. call' \in [Calls -> ACall]
  BY <1>1 DEF LogOut, TypeOK, ACall
<1>3. \A c \in Calls : call'[c] = IF c \in calls THEN Ended(c, "unauthorized") ELSE call[c]
  BY DEF LogOut
<1>4. \A c \in Calls : Ended(c, "unauthorized").pc = "done"
  BY DEF Ended, TypeOK
<1>5. \A s \in Tabs : Waiting(s)' = Waiting(s) \ calls
  BY <1>3, <1>4 DEF Waiting
<1> QED
  BY <1>2, <1>5 DEF LogOut, Leaves, TypeOK

\* Every step keeps the types: a call waits only while its tab has a refresh
\* under way.
LEMMA TypeStep ==
    ASSUME TypeOK, [Next]_vars
    PROVE  TypeOK'
<1> USE RetriesAssumption, TokensAssumption, CallsAssumption
<1>1. ASSUME NEW c \in Calls, TryRefresh(c)
      PROVE  TypeOK'
  <2> DEFINE t == TabOf[c]
  <2>1. t \in Tabs
    OBVIOUS
  <2>2. CASE refresh = 0
    <3>1. LogOut(t, {c}) /\ UNCHANGED <<flight, valid, live, issued, over, applied>>
      BY <1>1, <2>2 DEF TryRefresh
    <3> QED
      BY <2>1, <3>1, LogOutTyped DEF TypeOK, ACall
  <2>3. CASE refresh # 0
    <3>1. /\ call' = [call EXCEPT ![c].pc = "waiting"]
          /\ flight' = IF SharesRefresh(t) THEN flight
                       ELSE [flight EXCEPT ![t] = [at |-> "sent", token |-> refresh, pair |-> 0]]
          /\ UNCHANGED <<access, refresh, page, valid, live, issued, over, applied>>
      BY <1>1, <2>3 DEF TryRefresh
    <3>2. call' \in [Calls -> ACall]
      BY <3>1 DEF TypeOK, ACall, Places
    <3>3. [at |-> "sent", token |-> refresh, pair |-> 0] \in AFlight
      BY DEF AFlight, TypeOK
    <3>4. flight' \in [Tabs -> AFlight]
      BY <3>1, <3>3 DEF TypeOK, AFlight
    <3>5. ASSUME NEW s \in Tabs
          PROVE  /\ flight[s].at # "none" => flight'[s].at # "none"
                 /\ Waiting(s)' # {} => Waiting(s) # {} \/ s = t
                 /\ flight'[t].at # "none"
      BY <2>1, <3>1 DEF TypeOK, Waiting, SharesRefresh
    <3> QED
      BY <3>1, <3>2, <3>4, <3>5 DEF TypeOK, ACall, AFlight
  <2> QED
    BY <2>2, <2>3
<1>2. ASSUME NEW c \in Calls, RefusedAgain(c)
      PROVE  TypeOK'
  <2>1. TabOf[c] \in Tabs
    OBVIOUS
  <2> QED
    BY <1>2, <2>1, LogOutTyped DEF RefusedAgain, TypeOK, ACall
<1>3. ASSUME NEW t \in Tabs, NEW how \in {"verified", "rejected", "broken", "error", "ok"},
             NEW pair \in 0..MaxTokens, Answered(t, how, pair)
      PROVE  flight' \in [Tabs -> AFlight] /\ \A s \in Tabs : flight'[s].at = "none" => flight[s].at = "none"
  BY <1>3 DEF Answered, TypeOK, AFlight
<1>4. ASSUME NEW t \in Tabs, Verify(t) \/ Fails(t)
      PROVE  TypeOK'
  <2>1. \E how \in {"verified", "rejected", "broken", "error"} : Answered(t, how, 0)
    BY <1>4 DEF Verify, Fails
  <2>2. UNCHANGED <<access, refresh, page, call, valid, live, issued, over, applied>>
    BY <1>4 DEF Verify, Fails
  <2>3. \A s \in Tabs : Waiting(s)' = Waiting(s)
    BY <2>2 DEF Waiting
  <2>4. 0 \in 0..MaxTokens
    OBVIOUS
  <2>5. flight' \in [Tabs -> AFlight] /\ \A s \in Tabs : flight'[s].at = "none" => flight[s].at = "none"
    BY <1>3, <2>1, <2>4
  <2> QED
    BY <2>2, <2>3, <2>5 DEF TypeOK, AFlight
<1>5. ASSUME NEW t \in Tabs, Rotate(t)
      PROVE  TypeOK'
  <2>1. issued' = issued + 1 /\ issued' \in 1..MaxTokens
    BY <1>5 DEF Rotate, TypeOK
  <2>2. valid' \subseteq 1..MaxTokens /\ live' \subseteq 1..MaxTokens
    BY <1>5, <2>1 DEF Rotate, TypeOK
  <2>3. \E how \in {"ok", "broken"} : Answered(t, how, issued')
    BY <1>5 DEF Rotate
  <2>4. flight' \in [Tabs -> AFlight] /\ \A s \in Tabs : flight'[s].at = "none" => flight[s].at = "none"
    BY <1>3, <2>1, <2>3
  <2>5. \A s \in Tabs : Waiting(s)' = Waiting(s)
    BY <1>5 DEF Rotate, Waiting
  <2> QED
    BY <1>5, <2>1, <2>2, <2>4, <2>5 DEF Rotate, TypeOK, AFlight
<1>6. ASSUME NEW t \in Tabs, Settle(t)
      PROVE  TypeOK'
  <2>1. flight' = [flight EXCEPT ![t] = NoFlight] /\ flight[t].pair \in 0..MaxTokens
    BY <1>6 DEF Settle, TypeOK
  <2>2. flight' \in [Tabs -> AFlight] /\ \A s \in Tabs \ {t} : flight'[s] = flight[s]
    BY <2>1 DEF TypeOK, AFlight, NoFlight
  <2>3. /\ access' \in 0..MaxTokens /\ refresh' \in 0..MaxTokens
        /\ page' \in [Tabs -> {"app", "leaving", "login"}]
        /\ call' \in [Calls -> ACall]
        /\ Waiting(t)' = {} /\ \A s \in Tabs : Waiting(s)' \subseteq Waiting(s)
    <3>1. CASE Outcome(flight[t].at) = "ok"
      <4>1. /\ access' = flight[t].pair /\ refresh' = flight[t].pair /\ page' = page
            /\ call' = [c \in Calls |-> IF c \in Waiting(t)
                          THEN [call[c] EXCEPT !.pc = "sent", !.token = flight[t].pair, !.again = TRUE]
                          ELSE call[c]]
        BY <1>6, <3>1 DEF Settle
      <4>2. call' \in [Calls -> ACall]
        BY <2>1, <4>1 DEF TypeOK, ACall, Places
      <4>3. \A c \in Calls : /\ c \in Waiting(t) => call'[c].pc = "sent"
                             /\ c \notin Waiting(t) => call'[c] = call[c]
        BY <4>1 DEF TypeOK
      <4> QED
        BY <2>1, <4>1, <4>2, <4>3 DEF TypeOK, Waiting
    <3>2. CASE Outcome(flight[t].at) = "unavailable"
      <4>1. /\ access' = access /\ refresh' = refresh /\ page' = page
            /\ call' = [c \in Calls |-> IF c \in Waiting(t) THEN Ended(c, "unavailable") ELSE call[c]]
        BY <1>6, <3>2 DEF Settle
      <4>2. call' \in [Calls -> ACall]
        <5>1. "unavailable" \in Ends
          BY DEF Ends
        <5>2. \A c \in Calls : call[c] \in ACall /\ Ended(c, "unavailable") \in ACall
          BY <5>1, EndedTyped
        <5> QED
          BY <4>1, <5>2
      <4>3. \A c \in Calls : /\ c \in Waiting(t) => call'[c].pc = "done"
                             /\ c \notin Waiting(t) => call'[c] = call[c]
        BY <4>1 DEF TypeOK, Ended
      <4> QED
        BY <4>1, <4>2, <4>3 DEF TypeOK, Waiting
    <3>3. CASE LogOut(t, Waiting(t))
      BY <3>3, LogOutTyped, 0 \in 0..MaxTokens DEF Waiting
    <3> QED
      BY <1>6, <3>1, <3>2, <3>3 DEF Settle
  <2> QED
    BY <1>6, <2>2, <2>3 DEF Settle, TypeOK, AFlight, ACall
<1>7. ASSUME NEW t \in Tabs, UserLeaves(t)
      PROVE  TypeOK'
  BY <1>7, LogOutTyped DEF UserLeaves, TypeOK, ACall
<1>8. ASSUME NEW t \in Tabs, Unload(t)
      PROVE  TypeOK'
  <2>1. flight' \in [Tabs -> AFlight] /\ \A s \in Tabs \ {t} : flight'[s] = flight[s]
    BY <1>8 DEF Unload, TypeOK, AFlight, NoFlight
  <2>2. call' \in [Calls -> ACall]
    <3>1. "gone" \in Ends
      BY DEF Ends
    <3>2. \A c \in Calls : call[c] \in ACall /\ Ended(c, "gone") \in ACall
      BY <3>1, EndedTyped
    <3> QED
      BY <1>8, <3>2 DEF Unload
  <2>3. \A c \in Calls : call'[c].pc = "waiting" => call[c].pc = "waiting" /\ TabOf[c] # t
    BY <1>8 DEF Unload, Ended, TypeOK
  <2>4. Waiting(t)' = {} /\ \A s \in Tabs : Waiting(s)' \subseteq Waiting(s)
    BY <2>3 DEF Waiting
  <2> QED
    BY <1>8, <2>1, <2>2, <2>4 DEF Unload, TypeOK, AFlight, ACall
<1>9. ASSUME NEW t \in Tabs, LogIn(t)
      PROVE  TypeOK'
  BY <1>9 DEF LogIn, TypeOK, Waiting
<1>10. ASSUME NEW a \in valid, Expire(a)
       PROVE  TypeOK'
  BY <1>10 DEF Expire, TypeOK, Waiting
<1>11. ASSUME EndSessions
       PROVE  TypeOK'
  BY <1>11 DEF EndSessions, TypeOK, Waiting
<1>12. CASE UNCHANGED vars
  BY <1>12 DEF vars, TypeOK, Waiting
<1> QED
  BY <1>1, <1>2, <1>4, <1>5, <1>6, <1>7, <1>8, <1>9, <1>10, <1>11, <1>12, CallTyped
     DEF Next, CallStep, RefreshStep

LEMMA InitTyped == Init => TypeOK
<1> SUFFICES ASSUME Init PROVE TypeOK
  OBVIOUS
<1>1. 0 \in 0..MaxTokens /\ 1 \in 0..MaxTokens /\ 1 \in 1..MaxTokens
  BY TokensAssumption
<1>2. NoFlight \in AFlight /\ Idle \in ACall
  BY <1>1 DEF NoFlight, AFlight, Idle, ACall, Places, Ends
<1>3. \A c \in Calls : call[c].pc = "idle"
  BY DEF Init, Idle
<1> QED
  BY <1>1, <1>2, <1>3 DEF Init, TypeOK, AFlight, ACall, Waiting

\* The client's variables keep their ranges, and a call that waits is waiting
\* for a refresh of its own tab.
THEOREM TypeCorrect == Spec => []TypeOK
  BY InitTyped, TypeStep, PTL DEF Spec

-----------------------------------------------------------------------------
(* How often an upload is applied *)

\* The server may still apply the attempt that u is at.
Unspent(u) ==
    \/ call[u].pc \in {"idle", "sent", "waiting", "asleep"}
    \/ call[u].pc = "answered" /\ call[u].res = "401"

\* Every attempt but the one under way has been applied at most once.
Counted ==
    \A u \in Uploads :
        /\ call[u].attempt <= Retries
        /\ applied[u] <= IF Unspent(u) THEN call[u].attempt ELSE call[u].attempt + 1

\* How a call may move without the server having applied it.
Quiet(c) ==
    \/ call'[c] = call[c]
    \/ /\ call'[c].attempt = call[c].attempt
       /\ \/ call'[c].pc = "done"
          \/ Unspent(c) /\ Unspent(c)'

\* What the session does to its calls costs no attempt and makes none.
LEMMA QuietKeepsCount ==
    ASSUME TypeOK, Counted, applied' = applied, \A c \in Uploads : Quiet(c)
    PROVE  Counted'
<1>1. ASSUME NEW u \in Uploads
      PROVE  call'[u].attempt <= Retries
             /\ applied'[u] <= IF Unspent(u)' THEN call'[u].attempt ELSE call'[u].attempt + 1
  <2>1. call[u].attempt \in Nat /\ applied[u] \in Nat /\ call[u].attempt <= Retries /\ Quiet(u)
        /\ applied[u] <= IF Unspent(u) THEN call[u].attempt ELSE call[u].attempt + 1
    BY CallsAssumption, <1>1 DEF TypeOK, Counted
  <2>2. CASE call'[u] = call[u]
    <3>1. Unspent(u)' <=> Unspent(u)
      BY <2>2 DEF Unspent
    <3> QED
      BY <2>1, <2>2, <3>1
  <2>3. CASE call'[u].attempt = call[u].attempt /\ call'[u].pc = "done"
    <3>1. ~Unspent(u)'
      BY <2>3 DEF Unspent
    <3> QED
      BY <2>1, <2>3, <3>1
  <2>4. CASE call'[u].attempt = call[u].attempt /\ Unspent(u) /\ Unspent(u)'
    BY <2>1, <2>4
  <2> QED
    BY <2>1, <2>2, <2>3, <2>4 DEF Quiet
<1> QED
  BY <1>1 DEF Counted

\* Only Serve spends an attempt, and only Retry grants another.
LEMMA CountStep ==
    ASSUME TypeOK, Counted, [Next]_vars
    PROVE  Counted'
<1> USE CallsAssumption, RetriesAssumption
<1>1. ASSUME NEW c \in Calls, Serve(c)
      PROVE  Counted'
  <2>1. \A d \in Calls \ {c} : call'[d] = call[d]
    BY <1>1 DEF Serve, TypeOK
  <2>2. \A u \in Uploads \ {c} : applied'[u] = applied[u]
    BY <1>1 DEF Serve, TypeOK
  <2>3. call[c].pc = "sent" /\ call'[c].pc = "answered" /\ call'[c].attempt = call[c].attempt
    <3>1. call[c].pc = "sent" /\ \E res : call' = [call EXCEPT ![c] = [call[c] EXCEPT !.pc = "answered", !.res = res]]
      BY <1>1 DEF Serve
    <3>2. call \in [Calls -> ACall]
      BY DEF TypeOK, ACall
    <3> QED
      BY <3>1, <3>2 DEF ACall
  <2>4. c \in Uploads => /\ applied'[c] <= applied[c] + 1
                         /\ call'[c].res = "401" => applied'[c] = applied[c]
    <3>1. \/ call' = [call EXCEPT ![c] = [@ EXCEPT !.pc = "answered", !.res = "401"]] /\ applied' = applied
          \/ \E res \in Answers(c) :
                /\ call' = [call EXCEPT ![c] = [@ EXCEPT !.pc = "answered", !.res = res]]
                /\ \/ applied' = applied
                   \/ applied' = [u \in Uploads |-> IF u = c /\ applied[u] < Retries + 2
                                                    THEN applied[u] + 1 ELSE applied[u]]
      BY <1>1 DEF Serve
    <3>2. "401" \notin Answers(c)
      BY DEF Answers
    <3>3. c \in Uploads => applied[c] \in Nat
      BY DEF TypeOK
    <3>4. call[c] \in ACall
      BY DEF TypeOK, ACall
    <3>5. CASE applied' = applied
      BY <3>3, <3>5
    <3>6. CASE applied' # applied
      <4>1. call'[c].res # "401"
        <5>1. PICK res \in Answers(c) :
                 call' = [call EXCEPT ![c] = [@ EXCEPT !.pc = "answered", !.res = res]]
          BY <3>1, <3>6, Zenon
        <5>2. call'[c] = [call[c] EXCEPT !.pc = "answered", !.res = res]
          BY <5>1 DEF TypeOK
        <5>3. call'[c].res = res
          BY <3>4, <5>2 DEF ACall
        <5> QED
          BY <3>2, <5>1, <5>3
      <4>2. applied' = [u \in Uploads |-> IF u = c /\ applied[u] < Retries + 2
                                          THEN applied[u] + 1 ELSE applied[u]]
        BY <3>1, <3>6, Zenon
      <4>3. c \in Uploads => applied'[c] <= applied[c] + 1
        BY <3>3, <4>2
      <4> QED
        BY <4>1, <4>3
    <3> QED
      BY <3>5, <3>6
  <2>5. ASSUME NEW u \in Uploads
        PROVE  call'[u].attempt <= Retries
               /\ applied'[u] <= IF Unspent(u)' THEN call'[u].attempt ELSE call'[u].attempt + 1
    <3>1. call[u].attempt \in Nat /\ applied[u] \in Nat /\ call[u].attempt <= Retries
          /\ applied[u] <= IF Unspent(u) THEN call[u].attempt ELSE call[u].attempt + 1
      BY <2>5 DEF TypeOK, Counted
    <3>2. CASE u # c
      <4>1. Unspent(u)' <=> Unspent(u)
        BY <2>1, <3>2 DEF Unspent
      <4> QED
        BY <2>1, <2>2, <3>1, <3>2, <4>1
    <3>3. CASE u = c
      <4>1. Unspent(u) /\ (Unspent(u)' <=> call'[u].res = "401")
        BY <2>3, <3>3 DEF Unspent
      <4>2. applied'[u] \in Nat
        <5>1. applied' \in [Uploads -> Nat]
          BY <1>1, CallTyped DEF TypeOK
        <5> QED
          BY <2>5, <5>1
      <4> QED
        BY <2>3, <2>4, <3>1, <3>3, <4>1, <4>2
    <3> QED
      BY <3>2, <3>3
  <2> QED
    BY <2>5 DEF Counted
<1>2. ASSUME NEW c \in Calls, Retry(c)
      PROVE  Counted'
  <2>1. \A d \in Calls \ {c} : call'[d] = call[d]
    BY <1>2 DEF Retry, TypeOK
  <2>2. c \in Uploads /\ call[c].attempt < Retries /\ call[c].attempt \in Nat
    BY <1>2 DEF Retry, MayRetry, TypeOK
  <2>3. call'[c].attempt = call[c].attempt + 1 /\ call'[c].pc = "asleep" /\ applied' = applied
    BY <1>2, <2>2 DEF Retry, TypeOK
  <2>4. ~Unspent(c) /\ Unspent(c)'
    BY <1>2, <2>3 DEF Retry, Transient, Unspent
  <2>5. ASSUME NEW u \in Uploads
        PROVE  call'[u].attempt <= Retries
               /\ applied'[u] <= IF Unspent(u)' THEN call'[u].attempt ELSE call'[u].attempt + 1
    <3>1. applied[u] <= IF Unspent(u) THEN call[u].attempt ELSE call[u].attempt + 1
      BY DEF Counted
    <3>2. CASE u # c
      <4>1. Unspent(u)' <=> Unspent(u)
        BY <2>1, <3>2 DEF Unspent
      <4> QED
        BY <2>1, <2>3, <3>1, <3>2, <4>1 DEF Counted
    <3>3. CASE u = c
      BY <2>2, <2>3, <2>4, <3>1, <3>3
    <3> QED
      BY <3>2, <3>3
  <2> QED
    BY <2>5 DEF Counted
<1>3. ASSUME NEW c \in Calls, Send(c) \/ Wake(c) \/ Finish(c)
      PROVE  Counted'
  <2>1. applied' = applied /\ \A d \in Calls \ {c} : call'[d] = call[d]
    BY <1>3 DEF Send, Wake, Finish, TypeOK
  <2>2. Quiet(c)
    <3>1. CASE Send(c) \/ Wake(c)
      <4>1. call[c] \in ACall /\ call \in [Calls -> ACall]
        BY DEF TypeOK, ACall
      <4>2. call'[c].pc = "sent" /\ call'[c].attempt = call[c].attempt
        <5>1. CASE Send(c)
          BY <4>1, <5>1 DEF Send, ACall
        <5>2. CASE Wake(c)
          BY <4>1, <5>2 DEF Wake, ACall
        <5> QED
          BY <3>1, <5>1, <5>2
      <4> QED
        BY <3>1, <4>2 DEF Send, Wake, Quiet, Unspent
    <3>2. CASE Finish(c)
      BY <3>2 DEF Finish, Ended, TypeOK, Quiet
    <3> QED
      BY <1>3, <3>1, <3>2
  <2> QED
    BY <2>1, <2>2, QuietKeepsCount DEF Quiet
<1>4. ASSUME NEW t, NEW calls, LogOut(t, calls), applied' = applied
      PROVE  Counted'
  <2>1. \A c \in Calls : call'[c] = call[c] \/ (call'[c].pc = "done" /\ call'[c].attempt = call[c].attempt)
    BY <1>4 DEF LogOut, Ended, TypeOK
  <2> QED
    BY <1>4, <2>1, QuietKeepsCount DEF Quiet
<1>5. ASSUME NEW c \in Calls, TryRefresh(c)
      PROVE  Counted'
  <2>1. applied' = applied
    BY <1>5 DEF TryRefresh
  <2>2. CASE refresh = 0
    BY <1>4, <1>5, <2>1, <2>2 DEF TryRefresh
  <2>3. CASE refresh # 0
    <3>1. call' = [call EXCEPT ![c].pc = "waiting"] /\ call[c].pc = "answered" /\ call[c].res = "401"
      BY <1>5, <2>3 DEF TryRefresh
    <3>2. call'[c].pc = "waiting" /\ call'[c].attempt = call[c].attempt
          /\ \A d \in Calls \ {c} : call'[d] = call[d]
      BY <3>1 DEF TypeOK
    <3> QED
      BY <2>1, <3>1, <3>2, QuietKeepsCount DEF Quiet, Unspent
  <2> QED
    BY <2>2, <2>3
<1>6. ASSUME NEW c \in Calls, RefusedAgain(c)
      PROVE  Counted'
  BY <1>4, <1>6 DEF RefusedAgain
<1>7. ASSUME NEW t \in Tabs, Settle(t)
      PROVE  Counted'
  <2>1. applied' = applied
    BY <1>7 DEF Settle
  <2>2. CASE Outcome(flight[t].at) = "ok"
    <3>1. call' = [c \in Calls |-> IF c \in Waiting(t)
                     THEN [call[c] EXCEPT !.pc = "sent", !.token = flight[t].pair, !.again = TRUE]
                     ELSE call[c]]
      BY <1>7, <2>2 DEF Settle
    <3>2. \A c \in Calls : \/ call'[c] = call[c]
                           \/ /\ call'[c].attempt = call[c].attempt
                              /\ call[c].pc = "waiting" /\ call'[c].pc = "sent"
      BY <3>1 DEF Waiting, TypeOK
    <3> QED
      BY <2>1, <3>2, QuietKeepsCount DEF Quiet, Unspent
  <2>3. CASE Outcome(flight[t].at) = "unavailable"
    <3>1. call' = [c \in Calls |-> IF c \in Waiting(t) THEN Ended(c, "unavailable") ELSE call[c]]
      BY <1>7, <2>3 DEF Settle
    <3>2. \A c \in Calls : call'[c] = call[c] \/ (call'[c].pc = "done" /\ call'[c].attempt = call[c].attempt)
      BY <3>1 DEF Ended, TypeOK
    <3> QED
      BY <2>1, <3>2, QuietKeepsCount DEF Quiet
  <2>4. CASE LogOut(t, Waiting(t))
    BY <1>4, <2>1, <2>4
  <2> QED
    BY <1>7, <2>2, <2>3, <2>4 DEF Settle
<1>8. ASSUME NEW t \in Tabs, Unload(t)
      PROVE  Counted'
  <2>1. \A c \in Calls : call'[c] = call[c] \/ (call'[c].pc = "done" /\ call'[c].attempt = call[c].attempt)
    BY <1>8 DEF Unload, Ended, TypeOK
  <2> QED
    BY <1>8, <2>1, QuietKeepsCount DEF Quiet, Unload
<1>9. ASSUME NEW t \in Tabs, UserLeaves(t)
      PROVE  Counted'
  BY <1>4, <1>9 DEF UserLeaves
<1>10. ASSUME UNCHANGED <<call, applied>>
       PROVE  Counted'
  BY <1>10, QuietKeepsCount DEF Quiet
<1>11. ASSUME NEW t \in Tabs, Verify(t) \/ Fails(t) \/ Rotate(t) \/ LogIn(t)
       PROVE  Counted'
  BY <1>10, <1>11 DEF Verify, Fails, Rotate, LogIn
<1>12. ASSUME NEW a \in valid, Expire(a)
       PROVE  Counted'
  BY <1>10, <1>12 DEF Expire
<1>13. ASSUME EndSessions
       PROVE  Counted'
  BY <1>10, <1>13 DEF EndSessions
<1>14. CASE UNCHANGED vars
  BY <1>10, <1>14 DEF vars
<1> QED
  BY <1>1, <1>2, <1>3, <1>5, <1>6, <1>7, <1>8, <1>9, <1>11, <1>12, <1>13, <1>14
     DEF Next, CallStep, RefreshStep

\* However refreshes, late breaks and retries meet in the loop of attempts, the
\* server applies an upload at most once for each attempt it is allowed.
THEOREM AppliedOncePerAttempt == Spec => []OncePerAttempt
<1>1. Init => Counted
  BY RetriesAssumption, CallsAssumption DEF Init, Counted, Unspent, Idle
<1>2. TypeOK /\ Counted => OncePerAttempt
  <2> SUFFICES ASSUME TypeOK, Counted, NEW u \in Uploads
               PROVE  applied[u] <= Retries + 1
    BY DEF OncePerAttempt
  <2>1. call[u].attempt \in Nat /\ applied[u] \in Nat
    BY CallsAssumption DEF TypeOK
  <2> QED
    BY <2>1, RetriesAssumption DEF Counted
<1> QED
  BY <1>1, <1>2, TypeCorrect, CountStep, PTL DEF Spec

-----------------------------------------------------------------------------
(* One tab never throws its session away *)

OneTab == \A s, t \in Tabs : s = t

\* A page that shows the login form has nothing under way.
Resting ==
    /\ \A t \in Tabs : page[t] = "login" => flight[t].at = "none"
    /\ \A c \in Calls : /\ page[TabOf[c]] = "login" => call[c].pc \in {"idle", "done"}
                        /\ call[c].pc = "idle" => ~call[c].again

\* The token of a refresh is good until the server spends it, the pair it brings
\* is good until it is stored, and no refresh is refused.
FlightHolds ==
    \A t \in Tabs :
        /\ flight[t].at \notin {"rejected", "error"}
        /\ flight[t].at \in {"sent", "verified"} => flight[t].token \in live
        /\ flight[t].at = "ok" => flight[t].pair \in live \cap valid

\* The token stored is good but between its rotation and the storing of the pair.
StoredHolds ==
    \A t \in Tabs : page[t] # "login" /\ refresh # 0 /\ flight[t].at # "ok" => refresh \in live

\* A call repeated with the new token is not refused.
AgainHolds ==
    \A c \in Calls : call[c].again => /\ call[c].pc = "sent" => call[c].token \in valid
                                      /\ call[c].pc = "answered" => call[c].res # "401"

Kept == Resting /\ (~over => FlightHolds /\ StoredHolds /\ AgainHolds)

\* What a call does by itself leaves the tokens alone.
LEMMA CallKeeps ==
    ASSUME TypeOK, Kept, NEW c \in Calls,
           Send(c) \/ Serve(c) \/ Retry(c) \/ Wake(c) \/ Finish(c)
    PROVE  Kept'
<1> USE CallsAssumption
<1>1. UNCHANGED <<access, refresh, page, flight, valid, live, issued, over>>
  BY DEF Send, Serve, Retry, Wake, Finish
<1>2. call \in [Calls -> ACall] /\ call[c] \in ACall /\ TabOf[c] \in Tabs
  BY DEF TypeOK, ACall
<1>3. \A d \in Calls \ {c} : call'[d] = call[d]
  BY <1>2 DEF Send, Serve, Retry, Wake, Finish
<1>4. /\ page[TabOf[c]] = "login" => call'[c].pc \in {"idle", "done"}
      /\ call'[c].pc # "idle"
      /\ ~over /\ AgainHolds /\ call'[c].again =>
            /\ call'[c].pc = "sent" => call'[c].token \in valid
            /\ call'[c].pc = "answered" => call'[c].res # "401"
  <2>1. CASE Send(c)
    <3>1. call'[c].pc = "sent" /\ call'[c].again = call[c].again
      BY <1>2, <2>1 DEF Send, ACall
    <3> QED
      BY <1>2, <2>1, <3>1 DEF Send, Kept, Resting
  <2>2. CASE Serve(c)
    <3>1. call[c].pc = "sent"
      BY <2>2 DEF Serve
    <3>2. /\ call'[c].pc = "answered" /\ call'[c].again = call[c].again
          /\ call'[c].res = "401" => call[c].token \notin valid
      <4>1. ASSUME NEW res, call' = [call EXCEPT ![c] = [@ EXCEPT !.pc = "answered", !.res = res]]
            PROVE  call'[c].pc = "answered" /\ call'[c].again = call[c].again /\ call'[c].res = res
        BY <1>2, <4>1 DEF ACall
      <4>2. \/ /\ call[c].token \notin valid
               /\ call' = [call EXCEPT ![c] = [@ EXCEPT !.pc = "answered", !.res = "401"]]
            \/ \E res \in Answers(c) :
                  call' = [call EXCEPT ![c] = [@ EXCEPT !.pc = "answered", !.res = res]]
        BY <2>2 DEF Serve
      <4>3. "401" \notin Answers(c)
        BY DEF Answers
      <4> QED
        BY <4>1, <4>2, <4>3
    <3> QED
      BY <3>1, <3>2 DEF Kept, Resting, AgainHolds
  <2>3. CASE Retry(c)
    <3>1. call[c].pc = "answered" /\ call'[c].pc = "asleep"
      BY <1>2, <2>3 DEF Retry, ACall
    <3> QED
      BY <3>1 DEF Kept, Resting
  <2>4. CASE Wake(c)
    <3>1. call[c].pc = "asleep" /\ call'[c].pc = "sent" /\ call'[c].again = FALSE
      BY <1>2, <2>4 DEF Wake, ACall
    <3> QED
      BY <3>1 DEF Kept, Resting
  <2>5. CASE Finish(c)
    <3>1. call'[c].pc = "done"
      BY <1>2, <2>5 DEF Finish, Ended, ACall
    <3> QED
      BY <3>1
  <2> QED
    BY <2>1, <2>2, <2>3, <2>4, <2>5
<1>5. Resting'
  BY <1>1, <1>3, <1>4 DEF Kept, Resting
<1>6. ~over => AgainHolds'
  BY <1>1, <1>3, <1>4 DEF Kept, AgainHolds
<1> QED
  BY <1>1, <1>5, <1>6 DEF Kept, FlightHolds, StoredHolds

\* A logout leaves no token and only ends calls.
LEMMA LogOutKeeps ==
    ASSUME TypeOK, Kept, NEW t \in Tabs, page[t] # "login", NEW calls, LogOut(t, calls),
           UNCHANGED <<valid, live, over>>,
           \A s \in Tabs : flight'[s] = flight[s] \/ flight'[s] = NoFlight
    PROVE  Kept'
<1> USE CallsAssumption
<1>1. refresh' = 0 /\ \A s \in Tabs : page'[s] = "login" => page[s] = "login"
  BY DEF LogOut, Leaves, TypeOK
<1>2. \A c \in Calls : \/ call'[c] = call[c]
                       \/ call'[c].pc = "done"
  BY DEF LogOut, Ended, TypeOK
<1>3. Resting'
  BY <1>1, <1>2 DEF Kept, Resting, NoFlight
<1>4. ~over => FlightHolds' /\ StoredHolds' /\ AgainHolds'
  BY <1>1, <1>2 DEF Kept, FlightHolds, StoredHolds, AgainHolds, NoFlight
<1> QED
  BY <1>3, <1>4 DEF Kept

\* With one tab and refreshes that fail by a break before the server only, every
\* step keeps the tokens usable until the server ends the session.
LEMMA KeptStep ==
    ASSUME OneTab, RefreshFaults \subseteq {"broken"}, TypeOK, Kept, [Next]_vars
    PROVE  Kept'
<1> USE CallsAssumption
<1>0. ASSUME NEW t \in Tabs
      PROVE  /\ flight[t] \in AFlight /\ \A s \in Tabs : s = t /\ \A c \in Calls : TabOf[c] = t
             /\ flight[t].at # "none" => page[t] # "login"
  BY DEF OneTab, TypeOK, AFlight, Kept, Resting
<1>1. ASSUME NEW c \in Calls, TryRefresh(c)
      PROVE  Kept'
  <2> DEFINE t == TabOf[c]
  <2>1. t \in Tabs /\ page[t] # "login" /\ UNCHANGED <<valid, live, issued, over>>
    BY <1>1 DEF TryRefresh, Kept, Resting
  <2>2. CASE refresh = 0
    <3>1. LogOut(t, {c}) /\ flight' = flight
      BY <1>1, <2>2 DEF TryRefresh
    <3> QED
      BY <2>1, <3>1, LogOutKeeps
  <2>3. CASE refresh # 0
    <3>1. /\ call' = [call EXCEPT ![c].pc = "waiting"]
          /\ flight' = IF SharesRefresh(t) THEN flight
                       ELSE [flight EXCEPT ![t] = [at |-> "sent", token |-> refresh, pair |-> 0]]
          /\ UNCHANGED <<access, refresh, page>>
      BY <1>1, <2>3 DEF TryRefresh
    <3>2. call'[c].pc = "waiting" /\ \A d \in Calls \ {c} : call'[d] = call[d]
      BY <3>1 DEF TypeOK
    <3>3. flight'[t] = flight[t] \/ (flight[t].at = "none" /\ flight'[t] = [at |-> "sent", token |-> refresh, pair |-> 0])
      BY <2>1, <3>1 DEF SharesRefresh, TypeOK
    <3>4. Resting'
      BY <1>0, <2>1, <3>1, <3>2 DEF Kept, Resting
    <3>5. ~over => FlightHolds' /\ StoredHolds' /\ AgainHolds'
      <4> SUFFICES ASSUME ~over PROVE FlightHolds' /\ StoredHolds' /\ AgainHolds'
        OBVIOUS
      <4>1. FlightHolds /\ StoredHolds /\ AgainHolds
        BY DEF Kept
      <4>2. flight[t].at = "none" => refresh \in live
        BY <2>1, <2>3, <4>1 DEF StoredHolds
      <4>3. FlightHolds'
        BY <1>0, <2>1, <3>3, <4>1, <4>2 DEF FlightHolds
      <4>4. StoredHolds'
        BY <1>0, <2>1, <3>1, <3>3, <4>1, <4>2 DEF StoredHolds
      <4>5. AgainHolds'
        BY <2>1, <3>2, <4>1 DEF AgainHolds
      <4> QED
        BY <4>3, <4>4, <4>5
    <3> QED
      BY <2>1, <3>4, <3>5 DEF Kept
  <2> QED
    BY <2>2, <2>3
<1>2. ASSUME NEW c \in Calls, RefusedAgain(c)
      PROVE  Kept'
  <2>1. page[TabOf[c]] # "login" /\ TabOf[c] \in Tabs
    BY <1>2 DEF RefusedAgain, Kept, Resting
  <2> QED
    BY <1>2, <2>1, LogOutKeeps DEF RefusedAgain
<1>3. ASSUME NEW t \in Tabs, NEW at, NEW pair, flight[t].at # "none", Answered(t, at, pair)
      PROVE  flight'[t].at = at /\ flight'[t].pair = pair /\ flight'[t].token = flight[t].token
             /\ \A s \in Tabs : page[s] # "login"
  BY <1>0, <1>3 DEF Answered, TypeOK, AFlight
<1>4. ASSUME NEW t \in Tabs, Verify(t) \/ Fails(t)
      PROVE  Kept'
  <2>1. UNCHANGED <<access, refresh, page, call, valid, live, issued, over>> /\ flight[t].at \in {"sent", "verified"}
    BY <1>4 DEF Verify, Fails
  <2>2. \/ Answered(t, "verified", 0) /\ flight[t].token \in live
        \/ Answered(t, "rejected", 0) /\ flight[t].token \notin live
        \/ Answered(t, "broken", 0)
    BY <1>4 DEF Verify, Fails
  <2>3. /\ flight'[t].token = flight[t].token /\ flight'[t].at \in {"verified", "rejected", "broken"}
        /\ flight'[t].at = "verified" => flight[t].token \in live
        /\ flight'[t].at = "rejected" => flight[t].token \notin live
        /\ \A s \in Tabs : page[s] # "login"
    BY <1>3, <2>1, <2>2
  <2>4. Resting'
    BY <2>1, <2>3 DEF Kept, Resting
  <2>5. ~over => FlightHolds' /\ StoredHolds' /\ AgainHolds'
    <3> SUFFICES ASSUME ~over PROVE FlightHolds' /\ StoredHolds' /\ AgainHolds'
      OBVIOUS
    <3>1. FlightHolds /\ StoredHolds /\ AgainHolds
      BY DEF Kept
    <3>2. FlightHolds'
      BY <1>0, <2>1, <2>3, <3>1 DEF FlightHolds
    <3>3. StoredHolds'
      BY <1>0, <2>1, <2>3, <3>1 DEF StoredHolds
    <3>4. AgainHolds'
      BY <2>1, <3>1 DEF AgainHolds
    <3> QED
      BY <3>2, <3>3, <3>4
  <2> QED
    BY <2>1, <2>4, <2>5 DEF Kept
<1>5. ASSUME NEW t \in Tabs, Rotate(t)
      PROVE  Kept'
  <2>1. /\ UNCHANGED <<access, refresh, page, call, over>> /\ flight[t].at = "verified"
        /\ ~over => issued' \in live' /\ issued' \in valid' /\ valid \subseteq valid'
        /\ Answered(t, "ok", issued')
    BY <1>5 DEF Rotate
  <2>2. flight'[t].at = "ok" /\ flight'[t].pair = issued' /\ \A s \in Tabs : page[s] # "login"
    BY <1>3, <2>1
  <2>3. Resting'
    BY <2>1, <2>2 DEF Kept, Resting
  <2>4. ~over => FlightHolds' /\ StoredHolds'
    BY <1>0, <2>1, <2>2 DEF FlightHolds, StoredHolds
  <2>5. ~over => AgainHolds'
    BY <2>1 DEF Kept, AgainHolds
  <2> QED
    BY <2>1, <2>3, <2>4, <2>5 DEF Kept
<1>6. ASSUME NEW t \in Tabs, Settle(t)
      PROVE  Kept'
  <2>1. flight' = [flight EXCEPT ![t] = NoFlight] /\ UNCHANGED <<valid, live, issued, over, applied>>
        /\ flight[t].at # "none" /\ page[t] # "login"
    BY <1>0, <1>6 DEF Settle
  <2>2. \A s \in Tabs : flight'[s] = NoFlight
    BY <1>0, <2>1 DEF TypeOK
  <2>3. CASE LogOut(t, Waiting(t))
    BY <2>1, <2>2, <2>3, LogOutKeeps
  <2>4. CASE Outcome(flight[t].at) = "ok"
    <3>1. /\ refresh' = flight[t].pair /\ page' = page
          /\ call' = [c \in Calls |-> IF c \in Waiting(t)
                        THEN [call[c] EXCEPT !.pc = "sent", !.token = flight[t].pair, !.again = TRUE]
                        ELSE call[c]]
      BY <1>6, <2>4 DEF Settle
    <3>2. \A c \in Calls : \/ call'[c] = call[c]
                           \/ call'[c].pc = "sent" /\ call'[c].token = flight[t].pair
      BY <3>1 DEF TypeOK
    <3>3. flight[t].at = "ok"
      BY <1>6, <2>4 DEF Settle, Outcome
    <3>4. Resting'
      <4>1. \A s \in Tabs : page'[s] # "login"
        BY <1>0, <2>1, <3>1
      <4> QED
        BY <3>2, <4>1 DEF Kept, Resting
    <3>5. ~over => FlightHolds' /\ StoredHolds' /\ AgainHolds'
      <4> SUFFICES ASSUME ~over PROVE FlightHolds' /\ StoredHolds' /\ AgainHolds'
        OBVIOUS
      <4>1. FlightHolds /\ AgainHolds /\ flight[t].pair \in live /\ flight[t].pair \in valid
        BY <3>3 DEF Kept, FlightHolds
      <4>2. FlightHolds' /\ StoredHolds'
        <5>1. refresh' \in live'
          BY <2>1, <3>1, <4>1
        <5> QED
          BY <2>2, <5>1 DEF FlightHolds, StoredHolds, NoFlight
      <4>3. AgainHolds'
        BY <2>1, <3>2, <4>1 DEF AgainHolds
      <4> QED
        BY <4>2, <4>3
    <3> QED
      BY <2>1, <3>4, <3>5 DEF Kept
  <2>5. CASE Outcome(flight[t].at) = "unavailable"
    <3>1. /\ refresh' = refresh /\ page' = page
          /\ call' = [c \in Calls |-> IF c \in Waiting(t) THEN Ended(c, "unavailable") ELSE call[c]]
      BY <1>6, <2>5 DEF Settle
    <3>2. \A c \in Calls : call'[c] = call[c] \/ call'[c].pc = "done"
      BY <3>1 DEF TypeOK, Ended
    <3>3. flight[t].at # "ok"
      BY <2>5 DEF Outcome
    <3>4. Resting'
      BY <1>0, <2>1, <2>2, <3>1, <3>2 DEF Kept, Resting, NoFlight
    <3>5. ~over => FlightHolds' /\ StoredHolds' /\ AgainHolds'
      <4> SUFFICES ASSUME ~over PROVE FlightHolds' /\ StoredHolds' /\ AgainHolds'
        OBVIOUS
      <4>1. FlightHolds /\ AgainHolds /\ StoredHolds
        BY DEF Kept
      <4>2. FlightHolds' /\ StoredHolds'
        <5>1. refresh # 0 => refresh \in live
          BY <2>1, <3>3, <4>1 DEF StoredHolds
        <5>2. refresh' = refresh /\ live' = live
          BY <2>1, <3>1
        <5> QED
          BY <2>2, <5>1, <5>2 DEF FlightHolds, StoredHolds, NoFlight
      <4>3. AgainHolds'
        BY <2>1, <3>2, <4>1 DEF AgainHolds
      <4> QED
        BY <4>2, <4>3
    <3> QED
      BY <2>1, <3>4, <3>5 DEF Kept
  <2> QED
    BY <1>6, <2>3, <2>4, <2>5 DEF Settle
<1>7. ASSUME NEW t \in Tabs, UserLeaves(t)
      PROVE  Kept'
  BY <1>7, LogOutKeeps DEF UserLeaves
<1>8. ASSUME NEW t \in Tabs, Unload(t)
      PROVE  Kept'
  <2>1. /\ \A s \in Tabs : flight'[s] = NoFlight /\ page'[s] = "login"
        /\ UNCHANGED <<access, refresh, valid, live, over>>
    BY <1>0, <1>8 DEF Unload, TypeOK
  <2>2. \A c \in Calls : \/ call'[c].pc = "done"
                         \/ call'[c] = call[c] /\ call[c].pc \in {"idle", "done"}
    <3>1. ASSUME NEW c \in Calls
          PROVE  call'[c] = IF call[c].pc \notin {"idle", "done"} THEN Ended(c, "gone") ELSE call[c]
      BY <1>0, <1>8, <3>1 DEF Unload
    <3>2. \A c \in Calls : Ended(c, "gone").pc = "done"
      BY DEF Ended, TypeOK
    <3> QED
      BY <3>1, <3>2
  <2>3. Resting'
    BY <2>1, <2>2 DEF Kept, Resting, NoFlight
  <2>4. ~over => FlightHolds' /\ StoredHolds' /\ AgainHolds'
    BY <2>1, <2>2 DEF FlightHolds, StoredHolds, AgainHolds, NoFlight
  <2> QED
    BY <2>1, <2>3, <2>4 DEF Kept
<1>9. ASSUME NEW t \in Tabs, LogIn(t)
      PROVE  Kept'
  <2>1. /\ refresh' = issued' /\ issued' \in live' /\ valid \subseteq valid' /\ live \subseteq live'
        /\ UNCHANGED <<flight, call, over>>
    BY <1>9 DEF LogIn
  <2>2. \A s \in Tabs : page'[s] = "app"
    BY <1>0, <1>9 DEF LogIn, TypeOK
  <2>3. Resting'
    BY <2>1, <2>2 DEF Kept, Resting
  <2>4. ~over => FlightHolds' /\ StoredHolds' /\ AgainHolds'
    BY <2>1, <2>2 DEF Kept, FlightHolds, StoredHolds, AgainHolds
  <2> QED
    BY <2>1, <2>3, <2>4 DEF Kept
<1>10. ASSUME NEW a \in valid, Expire(a)
       PROVE  Kept'
  <2>1. /\ valid' = valid \ {a} /\ UNCHANGED <<access, refresh, page, flight, call, live, issued, over>>
        /\ \A t \in Tabs : flight[t].pair # a
        /\ \A c \in Calls : ~(call[c].again /\ call[c].token = a /\ call[c].pc \in {"sent", "answered"})
    BY <1>10 DEF Expire
  <2> QED
    BY <2>1 DEF Kept, Resting, FlightHolds, StoredHolds, AgainHolds
<1>11. ASSUME EndSessions
       PROVE  Kept'
  BY <1>11 DEF EndSessions, Kept, Resting
<1>12. CASE UNCHANGED vars
  BY <1>12 DEF vars, Kept, Resting, FlightHolds, StoredHolds, AgainHolds
<1> QED
  BY <1>1, <1>2, <1>4, <1>5, <1>6, <1>7, <1>8, <1>9, <1>10, <1>11, <1>12, CallKeeps
     DEF Next, CallStep, RefreshStep

LEMMA InitKept == Init => Kept
  BY CallsAssumption DEF Init, Kept, Resting, FlightHolds, StoredHolds, AgainHolds, Idle, NoFlight

\* A step that empties the storage is the user's, or comes after the server has
\* ended the session.
LEMMA SurvivesStep ==
    ASSUME TypeOK, Kept, [Next]_vars
    PROVE  [refresh # 0 /\ refresh' = 0 => over \/ ByUser]_vars
<1> USE CallsAssumption
<1> SUFFICES ASSUME Next, refresh # 0, refresh' = 0, ~over
             PROVE  ByUser
  OBVIOUS
<1>1. FlightHolds /\ AgainHolds
  BY DEF Kept
<1>2. ASSUME NEW c \in Calls, RefusedAgain(c)
      PROVE  FALSE
  BY <1>1, <1>2 DEF RefusedAgain, AgainHolds
<1>3. ASSUME NEW c \in Calls, TryRefresh(c)
      PROVE  FALSE
  BY <1>3 DEF TryRefresh
<1>4. ASSUME NEW t \in Tabs, Settle(t)
      PROVE  FALSE
  <2>1. flight[t].at \in {"ok", "broken"}
    BY <1>1, <1>4 DEF Settle, FlightHolds
  <2>2. flight[t].at = "ok" => flight[t].pair # 0
    BY <1>1, TokensAssumption DEF FlightHolds, TypeOK
  <2>3. Outcome(flight[t].at) # "invalid"
    BY <2>1 DEF Outcome
  <2>4. Outcome(flight[t].at) = "ok" => flight[t].at = "ok"
    BY <2>1 DEF Outcome
  <2> QED
    BY <1>4, <2>2, <2>3, <2>4 DEF Settle
<1>5. ASSUME NEW t \in Tabs, LogIn(t)
      PROVE  FALSE
  BY <1>5 DEF LogIn, TypeOK
<1> QED
  BY <1>2, <1>3, <1>4, <1>5 DEF Next, CallStep, RefreshStep, Send, Serve, Retry, Wake, Finish,
     Verify, Fails, Rotate, Unload, Expire, EndSessions, ByUser

\* Parallel calls, their 401s and the rotation of the tokens never cost a user
\* the session, in the one tab the promise of a refresh is shared in.
THEOREM SessionKept ==
    ASSUME OneTab, RefreshFaults \subseteq {"broken"}
    PROVE  Spec => SessionSurvives
<1>1. TypeOK /\ Kept /\ [Next]_vars => Kept'
  BY KeptStep
<1> QED
  BY <1>1, InitKept, TypeCorrect, SurvivesStep, PTL DEF Spec, SessionSurvives
=============================================================================
