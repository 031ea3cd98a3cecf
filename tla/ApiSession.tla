------------------------------ MODULE ApiSession ------------------------------
(***************************************************************************)
(* The session of a user in the browser: ApiClient of                      *)
(* frontend-react/src/lib/api/client.ts (lib/api/ff.ts and lender.ts repeat *)
(* it) against the rotation of refresh tokens in backend/routers/auth.py.  *)
(*                                                                         *)
(* The tabs of one browser share the tokens of localStorage; the promise   *)
(* of a refresh under way is shared by the calls of one tab only.  A       *)
(* handler runs to its next await in one step.  Tokens are numbers, given  *)
(* out in order up to MaxTokens; a pair has one number.  What a call asks  *)
(* for is left out, and so are the external accounts bounced to /ff.       *)
(***************************************************************************)
EXTENDS Naturals, FiniteSets

CONSTANTS
    Tabs,
    Calls,           \* calls the pages make, each once
    Uploads,         \* the calls made by uploadFormData
    TabOf,           \* the tab of a call
    Retries,         \* opts.retries of an upload
    MaxTokens,
    RefreshFaults    \* what may befall a POST /refresh, see Fails and Rotate

ASSUME CallsAssumption == Uploads \subseteq Calls /\ TabOf \in [Calls -> Tabs]
ASSUME RetriesAssumption == Retries \in Nat
ASSUME TokensAssumption == MaxTokens \in Nat \ {0}
ASSUME FaultsAssumption == RefreshFaults \subseteq {"broken", "late_broken", "error"}

VARIABLES
    access,    \* dds_token of localStorage, 0 when there is none
    refresh,   \* dds_refresh_token
    page,      \* what each tab shows
    flight,    \* _refreshPromise of each tab: the token sent and how far it got
    call,
    valid,     \* access tokens the server accepts
    live,      \* refresh tokens the server holds
    issued,    \* how many pairs it has given out
    over,      \* the server has ended the user's sessions
    applied    \* how often the server has applied each upload

storage == <<access, refresh>>
server == <<valid, live, issued, over>>
vars == <<access, refresh, page, flight, call, valid, live, issued, over, applied>>

NoFlight == [at |-> "none", token |-> 0, pair |-> 0]

Idle == [pc |-> "idle", token |-> 0, res |-> "none", again |-> FALSE, attempt |-> 0]

Init ==
    /\ access = 1 /\ refresh = 1
    /\ page = [t \in Tabs |-> "app"]
    /\ flight = [t \in Tabs |-> NoFlight]
    /\ call = [c \in Calls |-> Idle]
    /\ valid = {1} /\ live = {1} /\ issued = 1 /\ over = FALSE
    /\ applied = [u \in Uploads |-> 0]

Ended(c, how) == [call[c] EXCEPT !.pc = "done", !.res = how]

Waiting(t) == {c \in Calls : TabOf[c] = t /\ call[c].pc = "waiting"}

\* A redirect has been asked for; the page's handlers run on until it unloads.
Leaves(t) == page' = [page EXCEPT ![t] = "leaving"]

-----------------------------------------------------------------------------
(* A call *)

Send(c) ==
    /\ page[TabOf[c]] = "app" /\ call[c].pc = "idle"
    /\ call' = [call EXCEPT ![c] = [@ EXCEPT !.pc = "sent", !.token = access]]
    /\ UNCHANGED <<access, refresh, page, flight, valid, live, issued, over, applied>>

\* The server and what lies before it: an answer, a 5xx or a break of the
\* connection, before or after the work, and the timeout an upload may have.
Answers(c) == {"ok", "error", "break"} \cup (IF c \in Uploads THEN {"timeout"} ELSE {})

Serve(c) ==
    /\ call[c].pc = "sent"
    /\ \/ /\ call[c].token \notin valid
          /\ call' = [call EXCEPT ![c] = [@ EXCEPT !.pc = "answered", !.res = "401"]]
          /\ UNCHANGED applied
       \/ \E res \in Answers(c) \ {"ok"} :
             call' = [call EXCEPT ![c] = [@ EXCEPT !.pc = "answered", !.res = res]]
          /\ UNCHANGED applied
       \/ \E res \in Answers(c) :
          /\ call[c].token \in valid
          /\ call' = [call EXCEPT ![c] = [@ EXCEPT !.pc = "answered", !.res = res]]
          /\ applied' = [u \in Uploads |-> IF u = c /\ applied[u] < Retries + 2
                                           THEN applied[u] + 1 ELSE applied[u]]
    /\ UNCHANGED <<access, refresh, page, flight, valid, live, issued, over>>

\* Mutant: one attempt more than opts.retries.
RetriesOnceMore(c) == c \in Uploads /\ call[c].attempt <= Retries

\* Mutant: the attempts are not counted.
RetriesAlways(c) == c \in Uploads

MayRetry(c) == c \in Uploads /\ call[c].attempt < Retries

\* fetch rejects outside the try when it follows a refresh: no retry then.
Transient(c) == call[c].res = "error" \/ (call[c].res = "break" /\ ~call[c].again)

Retry(c) ==
    LET n == call[c].attempt IN
    /\ call[c].pc = "answered" /\ Transient(c) /\ MayRetry(c)
    /\ call' = [call EXCEPT ![c] = [@ EXCEPT !.pc = "asleep", !.attempt = IF n <= Retries THEN n + 1 ELSE n]]
    /\ UNCHANGED <<access, refresh, page, flight, valid, live, issued, over, applied>>

\* The loop of attempts sends the headers it has, a refreshed token with them.
Wake(c) ==
    /\ call[c].pc = "asleep"
    /\ call' = [call EXCEPT ![c] = [@ EXCEPT !.pc = "sent", !.again = FALSE]]
    /\ UNCHANGED <<access, refresh, page, flight, valid, live, issued, over, applied>>

Finish(c) ==
    /\ call[c].pc = "answered" /\ call[c].res # "401"
    /\ ~(Transient(c) /\ MayRetry(c))
    /\ call' = [call EXCEPT ![c] = Ended(c, call[c].res)]
    /\ UNCHANGED <<access, refresh, page, flight, valid, live, issued, over, applied>>

\* clearToken and the redirect to /login.
LogOut(t, calls) ==
    /\ access' = 0 /\ refresh' = 0
    /\ Leaves(t)
    /\ call' = [c \in Calls |-> IF c \in calls THEN Ended(c, "unauthorized") ELSE call[c]]

\* Mutant: the promise is returned without await, so that finally drops it at once.
SharesNothing(t) == FALSE

SharesRefresh(t) == flight[t].at # "none"

\* tryRefresh, up to its first await.
TryRefresh(c) ==
    LET t == TabOf[c] IN
    /\ call[c].pc = "answered" /\ call[c].res = "401" /\ ~call[c].again
    /\ IF refresh = 0
       THEN LogOut(t, {c}) /\ UNCHANGED flight
       ELSE /\ call' = [call EXCEPT ![c].pc = "waiting"]
            /\ flight' = IF SharesRefresh(t) THEN flight
                         ELSE [flight EXCEPT ![t] = [at |-> "sent", token |-> refresh, pair |-> 0]]
            /\ UNCHANGED <<access, refresh, page>>
    /\ UNCHANGED <<valid, live, issued, over, applied>>

RefusedAgain(c) ==
    /\ call[c].pc = "answered" /\ call[c].res = "401" /\ call[c].again
    /\ LogOut(TabOf[c], {c})
    /\ UNCHANGED <<flight, valid, live, issued, over, applied>>

-----------------------------------------------------------------------------
(* The refresh *)

Answered(t, how, pair) ==
    flight' = [flight EXCEPT ![t] = [@ EXCEPT !.at = how, !.pair = pair]]

\* verify_refresh_token reads; revoke_refresh_token deletes later.
Verify(t) ==
    /\ flight[t].at = "sent"
    /\ Answered(t, IF flight[t].token \in live THEN "verified" ELSE "rejected", 0)
    /\ UNCHANGED <<access, refresh, page, call, valid, live, issued, over, applied>>

\* Before the server has spent the token the connection breaks ("broken"), or
\* the answer is a 5xx of the gateway, the 429 of check_rate_limit, or the 401
\* verify_refresh_token gives when Redis is away ("error").
Fails(t) ==
    /\ flight[t].at \in {"sent", "verified"}
    /\ \E how \in RefreshFaults \cap {"broken", "error"} : Answered(t, how, 0)
    /\ UNCHANGED <<access, refresh, page, call, valid, live, issued, over, applied>>

\* refresh_token: the old token is revoked, a pair is issued; the answer may break.
Rotate(t) ==
    /\ flight[t].at = "verified" /\ issued < MaxTokens
    /\ issued' = issued + 1
    /\ live' = (live \ {flight[t].token}) \cup (IF over THEN {} ELSE {issued'})
    /\ valid' = IF over THEN valid ELSE valid \cup {issued'}
    /\ \E how \in {"ok"} \cup (IF "late_broken" \in RefreshFaults THEN {"broken"} ELSE {}) :
          Answered(t, how, issued')
    /\ UNCHANGED <<access, refresh, page, call, over, applied>>

\* What _doRefresh returns.
Outcome(at) ==
    CASE at = "ok" -> "ok"
      [] at \in {"rejected", "error"} -> "invalid"
      [] at = "broken" -> "unavailable"

\* The promise settles: the calls that await it all run on, the promise is
\* dropped, before anything else happens in the tab.
Settle(t) ==
    LET f == flight[t] outcome == Outcome(f.at) IN
    /\ f.at \in {"ok", "rejected", "error", "broken"}
    /\ flight' = [flight EXCEPT ![t] = NoFlight]
    /\ \/ /\ outcome = "ok"
          /\ access' = f.pair /\ refresh' = f.pair
          /\ call' = [c \in Calls |-> IF c \in Waiting(t)
                         THEN [call[c] EXCEPT !.pc = "sent", !.token = f.pair, !.again = TRUE]
                         ELSE call[c]]
          /\ UNCHANGED page
       \/ /\ outcome = "unavailable"
          /\ call' = [c \in Calls |-> IF c \in Waiting(t) THEN Ended(c, "unavailable") ELSE call[c]]
          /\ UNCHANGED <<access, refresh, page>>
       \/ outcome = "invalid" /\ LogOut(t, Waiting(t))
    /\ UNCHANGED <<valid, live, issued, over, applied>>

-----------------------------------------------------------------------------
(* The page, the user and the clock *)

\* The profile's exit: the server is told nothing.
UserLeaves(t) ==
    /\ page[t] = "app" /\ refresh # 0
    /\ LogOut(t, {})
    /\ UNCHANGED <<flight, valid, live, issued, over, applied>>

\* What was under way is abandoned; nobody will use the pair a refresh brings.
Unload(t) ==
    /\ page[t] = "leaving"
    /\ page' = [page EXCEPT ![t] = "login"]
    /\ flight' = [flight EXCEPT ![t] = NoFlight]
    /\ call' = [c \in Calls |-> IF TabOf[c] = t /\ call[c].pc \notin {"idle", "done"}
                                THEN Ended(c, "gone") ELSE call[c]]
    /\ UNCHANGED <<access, refresh, valid, live, issued, over, applied>>

LogIn(t) ==
    /\ page[t] = "login" /\ ~over /\ issued < MaxTokens
    /\ issued' = issued + 1
    /\ access' = issued' /\ refresh' = issued'
    /\ valid' = valid \cup {issued'} /\ live' = live \cup {issued'}
    /\ page' = [page EXCEPT ![t] = "app"]
    /\ UNCHANGED <<flight, call, over, applied>>

\* An access token runs out; it outlives the exchange that brought it.
Expire(a) ==
    /\ a \in valid
    /\ \A t \in Tabs : flight[t].pair # a
    /\ \A c \in Calls : ~(call[c].again /\ call[c].token = a /\ call[c].pc \in {"sent", "answered"})
    /\ valid' = valid \ {a}
    /\ UNCHANGED <<access, refresh, page, flight, call, live, issued, over, applied>>

\* The account is deactivated, or Redis loses the tokens: the session ends.
EndSessions ==
    /\ ~over
    /\ over' = TRUE /\ valid' = {} /\ live' = {}
    /\ UNCHANGED <<access, refresh, page, flight, call, issued, applied>>

CallStep(c) ==
    \/ Send(c) \/ Serve(c) \/ Retry(c) \/ Wake(c)
    \/ Finish(c) \/ TryRefresh(c) \/ RefusedAgain(c)

RefreshStep(t) == Verify(t) \/ Fails(t) \/ Rotate(t) \/ Settle(t)

Next ==
    \/ \E c \in Calls : CallStep(c)
    \/ \E t \in Tabs : RefreshStep(t)
    \/ \E t \in Tabs : UserLeaves(t) \/ Unload(t) \/ LogIn(t)
    \/ \E a \in valid : Expire(a)
    \/ EndSessions

Spec == Init /\ [][Next]_vars

\* The network answers or breaks in the end, timers fire, a page asked to leave does.
Fairness ==
    /\ \A c \in Calls : WF_vars(Serve(c)) /\ WF_vars(Retry(c) \/ Wake(c) \/ Finish(c) \/ TryRefresh(c) \/ RefusedAgain(c))
    /\ \A t \in Tabs : WF_vars(RefreshStep(t)) /\ WF_vars(Unload(t))

FairSpec == Spec /\ Fairness

-----------------------------------------------------------------------------
(* Properties *)

Places == {"idle", "sent", "answered", "waiting", "asleep", "done"}
Ends   == {"none", "ok", "error", "break", "timeout", "401", "unavailable", "unauthorized", "gone"}

\* Every variable has its shape, and a call waits only for a refresh of its own
\* tab that is under way.
TypeOK ==
    /\ access \in 0..MaxTokens /\ refresh \in 0..MaxTokens
    /\ page \in [Tabs -> {"app", "leaving", "login"}]
    /\ flight \in [Tabs -> [at : {"none", "sent", "verified", "ok", "rejected", "broken", "error"},
                            token : 0..MaxTokens, pair : 0..MaxTokens]]
    /\ call \in [Calls -> [pc : Places, token : 0..MaxTokens, res : Ends,
                           again : BOOLEAN, attempt : Nat]]
    /\ valid \subseteq 1..MaxTokens /\ live \subseteq 1..MaxTokens
    /\ issued \in 1..MaxTokens /\ over \in BOOLEAN
    /\ applied \in [Uploads -> Nat]
    /\ \A t \in Tabs : Waiting(t) # {} => flight[t].at # "none"

ByUser == \E t \in Tabs : UserLeaves(t)

\* A session the server has not ended and the user has not left is never thrown
\* away, however the page's parallel calls, their 401s and the rotation of the
\* refresh token interleave (tryRefresh: "to avoid race conditions").
SessionSurvives == [][refresh # 0 /\ refresh' = 0 => over \/ ByUser]_vars

\* Tokens are dropped only when the server no longer takes them: tryRefresh says
\* 'invalid' of a rejected token and 'unavailable' of a backend out of reach.
LogoutMeansRejected == [][refresh # 0 /\ refresh' = 0 => refresh \notin live \/ ByUser]_vars

\* An upload is applied at most once per attempt it is allowed: neither a refresh
\* in the middle of the loop of attempts nor a late break adds one.
OncePerAttempt == \A u \in Uploads : applied[u] <= Retries + 1

\* Every call its page has made comes to an end: an answer, an error or the
\* unloading of the page.
EveryCallEnds == \A c \in Calls : call[c].pc = "sent" ~> call[c].pc = "done"
=============================================================================
