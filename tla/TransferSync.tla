---------------------------- MODULE TransferSync ----------------------------
(***************************************************************************)
(* How the sync with a fulfilment centre (sync_warehouse of                *)
(* backend/services/fulfillment_service.py) drives stock transfers.        *)
(*                                                                         *)
(* A pass refreshes the mirror of the centre's requests and collects its   *)
(* candidates in one transaction (serialised by an advisory lock); it acts *)
(* on them afterwards, one session each, with HTTP in between.  A manual   *)
(* pass and a scheduled one overlap in that second part, users work in the *)
(* meantime, and a pass may die anywhere (timeout, restart, any error).    *)
(*                                                                         *)
(* The transfers themselves are StockTransfer; here its FfReports happen   *)
(* only as a pass performs them.  Facts are of good units only.            *)
(***************************************************************************)
EXTENDS StockTransfer, FiniteSets

CONSTANTS
    Requests,      \* the centres' requests we may link to transfers
    Outbound,      \* those of kind "assembly"; the others are of kind "inbound"
    WarehouseOf,   \* whose centre a request belongs to
    Passes,        \* sync passes that may overlap
    Scheduled,     \* those the scheduler starts; a person starts the others
    NoTransfer,    \* an empty link
    Cap            \* _ENRICH_DETAIL_CAP: facts fetched in one pass

ASSUME RequestsAssumption == Outbound \subseteq Requests
ASSUME WarehouseOfAssumption == WarehouseOf \in [Requests -> Warehouses]
ASSUME NoTransferAssumption == NoTransfer \notin Transfers
ASSUME ScheduledAssumption == Scheduled \subseteq Passes
ASSUME CapAssumption == Cap \in Nat

VARIABLES
    centre,   \* the request as the centre has it: stage and accepted units
    mirror,   \* FulfillmentRequest: our link, the stage last seen, the marker
    pass,     \* what a running pass has collected and not yet acted on
    byFact    \* units credited on the word of a request (history)

syncVars == <<centre, mirror, pass, byFact>>
allVars  == <<vars, syncVars>>

Inbound == Requests \ Outbound

Stages == {"open", "assembled", "closed"}

Idle == [ship |-> {}, facts |-> {}, answer |-> {}]

\* _assembly_ready_signal and _assembly_shipped_signal
Ready(stage)   == stage \in {"assembled", "closed"}
Shipped(stage) == stage = "closed"

Linked(t) == {r \in Requests : mirror[r].link = t}

\* _ff_by_transfer: the centre at the source has a request of this transfer.
Assembling(t) == Linked(t) \cap Outbound

\* The route has an end at the warehouse of every request linked to it.
LinkFits(r, from, to) == WarehouseOf[r] = IF r \in Outbound THEN from ELSE to

-----------------------------------------------------------------------------
SyncInit ==
    /\ Init
    /\ centre = [r \in Requests |-> [stage |-> "open", fact |-> Nothing]]
    /\ mirror = [r \in Requests |-> [link |-> NoTransfer, stage |-> "open", applied |-> FALSE]]
    /\ pass = [p \in Passes |-> Idle]
    /\ byFact = [r \in Requests |-> Nothing]

(* The centre *)

\* It accepts one more unit of an inbound request, stage still "processing".
Accept(r, s) ==
    /\ r \in Inbound
    /\ centre[r].stage = "open"
    /\ centre[r].fact[s] < MaxQty
    /\ centre' = [centre EXCEPT ![r].fact[s] = @ + 1]
    /\ UNCHANGED <<vars, mirror, pass, byFact>>

Advance(r, stage) ==
    /\ <<centre[r].stage, stage>> \in {<<"open", "assembled">>, <<"open", "closed">>,
                                       <<"assembled", "closed">>}
    /\ r \in Inbound => stage = "closed"
    /\ centre' = [centre EXCEPT ![r].stage = stage]
    /\ UNCHANGED <<vars, mirror, pass, byFact>>

-----------------------------------------------------------------------------
(* Users *)

\* link_request; an assembled outbound request makes the transfer ready at once.
Link(r, t) ==
    LET others == Assembling(t) \ {r} IN
    /\ Exists(t) /\ doc[t].status # "CANCELLED"
    /\ LinkFits(r, doc[t].from, doc[t].to)
    /\ mirror[r].link = NoTransfer
    /\ mirror' = [mirror EXCEPT ![r].link = t]
    /\ doc' = IF /\ r \in Outbound
                 /\ doc[t].status \in {"PENDING", "IN_PROGRESS"}
                 /\ \A q \in others \cup {r} : Ready(mirror[q].stage)
              THEN [doc EXCEPT ![t].status = "READY"]
              ELSE doc
    /\ UNCHANGED <<stock, journal, adjusted, pickups, rounds, led, centre, pass, byFact>>

\* unlink_request: the marker of an applied fact stays.
Unlink(r) ==
    /\ mirror[r].link # NoTransfer
    /\ mirror' = [mirror EXCEPT ![r].link = NoTransfer]
    /\ UNCHANGED <<vars, centre, pass, byFact>>

\* Mutant: a route is edited with no regard to the links.
KeepsAnyLinks(t) == TRUE

\* _guard_reroute_ff_links: a new route must leave the links of t whole.
KeepsLinks(t) ==
    \A r \in Linked(t) : LinkFits(r, doc'[t].from, doc'[t].to)

UserStep ==
    \/ /\ \E t \in Transfers : \/ Prepare(t) /\ KeepsLinks(t)
                               \/ Travel(t)
                               \/ Settle(t)
       /\ UNCHANGED syncVars
    \/ \E r \in Requests : Unlink(r) \/ \E t \in Transfers : Link(r, t)

-----------------------------------------------------------------------------
(* The pass *)

\* Mutant: the status is written whatever it was.
MarkedAnyway(t, status) ==
    IF Assembling(t) # {} /\ \A r \in Assembling(t) : Ready(centre[r].stage)
    THEN "READY" ELSE status

\* What the transaction of the pass makes of a transfer's status
\* (_mark_linked_transfers_ready).
Marked(t, status) ==
    LET reqs == Assembling(t) IN
    IF reqs # {} /\ status \in {"PENDING", "IN_PROGRESS"} /\
       \A r \in reqs : Ready(centre[r].stage)
    THEN "READY"
    ELSE IF reqs # {} /\ status = "PENDING" THEN "IN_PROGRESS" ELSE status

\* Mutant: every candidate is taken for a closed request.
CandidatesTakenForClosed ==
    {[req |-> r, transfer |-> mirror[r].link, closed |-> TRUE] :
        r \in {q \in Inbound : /\ mirror[q].link # NoTransfer
                               /\ ~mirror[q].applied
                               /\ OnTheRoad(mirror[q].link)}}

\* Mutant: a request without a link is a candidate, too.
CandidatesEvenUnlinked ==
    {[req |-> r, transfer |-> mirror[r].link, closed |-> centre[r].stage = "closed"] :
        r \in {q \in Inbound : /\ ~mirror[q].applied
                               /\ mirror[q].link # NoTransfer => OnTheRoad(mirror[q].link)}}

\* Mutant: a closed (and so archived) request is no candidate any more.
CandidatesStillOpen ==
    {[req |-> r, transfer |-> mirror[r].link, closed |-> FALSE] :
        r \in {q \in Inbound : /\ mirror[q].link # NoTransfer
                               /\ ~mirror[q].applied
                               /\ centre[q].stage # "closed"
                               /\ OnTheRoad(mirror[q].link)}}

\* _collect_transfer_fact_candidates; closed is the request's is_completed as
\* the mirror has it now, before any fact is fetched.
FactCandidates ==
    {[req |-> r, transfer |-> mirror[r].link, closed |-> centre[r].stage = "closed"] :
        r \in {q \in Inbound : /\ mirror[q].link # NoTransfer
                               /\ ~mirror[q].applied
                               /\ OnTheRoad(mirror[q].link)}}

\* sync_warehouse up to its commit.
Collect(p) ==
    /\ pass[p] = Idle
    /\ mirror' = [r \in Requests |-> [mirror[r] EXCEPT !.stage = centre[r].stage]]
    /\ doc' = [t \in Transfers |-> [doc[t] EXCEPT !.status = Marked(t, @)]]
    /\ \E facts \in SUBSET FactCandidates :
          /\ Cardinality(facts) = Lesser(Cap, Cardinality(FactCandidates))
          /\ pass' = [pass EXCEPT ![p].facts = facts,
                        ![p].ship = {t \in Transfers :
                            /\ Assembling(t) # {}
                            /\ \A r \in Assembling(t) : Shipped(centre[r].stage)
                            /\ doc'[t].status = "VEHICLE_ASSIGNED"}]
    /\ UNCHANGED <<stock, journal, adjusted, pickups, rounds, led, centre, byFact>>

\* Mutant: the handler's own range of statuses, as for a user's click.
AutoSendAsUser(p, t) ==
    /\ t \in pass[p].ship
    /\ Send(t, TRANSFER_SEND_FROM, FALSE)
    /\ pass' = [pass EXCEPT ![p].ship = @ \ {t}]
    /\ UNCHANGED <<centre, mirror, byFact>>

\* The automatic departure: send_transfer narrowed to VEHICLE_ASSIGNED.
AutoSend(p, t) ==
    /\ t \in pass[p].ship
    /\ Send(t, {"VEHICLE_ASSIGNED"}, FALSE)
    /\ pass' = [pass EXCEPT ![p].ship = @ \ {t}]
    /\ UNCHANGED <<centre, mirror, byFact>>

\* _migfull_transfer_fact_by_barcode: the live lines of the request.  Lines
\* whose product is not resolved drop out, and the fact is not whole.
FetchFact(p, c, fact) ==
    /\ pass[p].ship = {} /\ pass[p].answer = {}
    /\ c \in pass[p].facts
    /\ fact # Nothing
    /\ \A s \in SKUs : fact[s] <= centre[c.req].fact[s]
    /\ pass' = [pass EXCEPT
                  ![p].facts = @ \ {c},
                  ![p].answer = {[req |-> c.req, transfer |-> c.transfer, fact |-> fact,
                                  final |-> c.closed /\ fact = centre[c.req].fact]}]
    /\ UNCHANGED <<vars, centre, mirror, byFact>>

\* receive_transfer_fact for the request, with its marker in the same commit.
ApplyFact(p) ==
    \E a \in pass[p].answer :
        LET t     == a.transfer
            taken == [s \in SKUs |-> TakeGood(t, a.fact, s)]
        IN  /\ ReceiveFact(t, a.fact, Nothing)
            /\ byFact' = [byFact EXCEPT ![a.req] = [s \in SKUs |-> @[s] + taken[s]]]
            /\ mirror' = IF a.final /\ (taken # Nothing \/ doc'[t].status = "DELIVERED")
                         THEN [mirror EXCEPT ![a.req].applied = TRUE]
                         ELSE mirror
            /\ pass' = [pass EXCEPT ![p].answer = {}]
            /\ UNCHANGED centre

\* Any error on a candidate is logged and the pass goes on: HTTP, a lock, a
\* ValueError of the handler.
Skip(p) ==
    /\ \/ \E t \in pass[p].ship : pass' = [pass EXCEPT ![p].ship = @ \ {t}]
       \/ \E c \in pass[p].facts : pass' = [pass EXCEPT ![p].facts = @ \ {c}]
       \/ pass[p].answer # {} /\ pass' = [pass EXCEPT ![p].answer = {}]
    /\ UNCHANGED <<vars, centre, mirror, byFact>>

\* The pass dies: the scheduler's timeout, a restart.
Die(p) ==
    /\ pass[p] # Idle
    /\ pass' = [pass EXCEPT ![p] = Idle]
    /\ UNCHANGED <<vars, centre, mirror, byFact>>

PassStep(p) ==
    \/ Collect(p)
    \/ \E t \in Transfers : AutoSend(p, t)
    \/ \E c \in pass[p].facts, fact \in Quantities : FetchFact(p, c, fact)
    \/ ApplyFact(p)
    \/ Skip(p)
    \/ Die(p)

CentreStep ==
    \E r \in Requests : \/ \E s \in SKUs : Accept(r, s)
                        \/ \E stage \in Stages : Advance(r, stage)

SyncNext == UserStep \/ CentreStep \/ \E p \in Passes : PassStep(p)

SyncSpec == SyncInit /\ [][SyncNext]_allVars

-----------------------------------------------------------------------------
(* Properties *)

SyncTypeOK ==
    /\ TypeOK
    /\ centre \in [Requests -> [stage : Stages, fact : Quantities]]
    /\ mirror \in [Requests -> [link : Transfers \cup {NoTransfer}, stage : Stages,
                                applied : BOOLEAN]]
    /\ byFact \in [Requests -> [SKUs -> Nat]]
    /\ pass \in [Passes ->
                   [ship   : SUBSET Transfers,
                    facts  : SUBSET [req : Inbound, transfer : Transfers, closed : BOOLEAN],
                    answer : SUBSET [req : Inbound, transfer : Transfers,
                                     fact : Quantities, final : BOOLEAN]]]

\* The marker closes a request for good, so it may only be set when nothing more
\* can come of it: the centre has closed the request, and all it accepted has
\* been credited or finds no room in the plan, whatever was accepted between the
\* moment the pass read "completed" and the moment it read the lines.
MarkerIsFinal ==
    [][\A r \in Inbound : (mirror'[r].applied /\ ~mirror[r].applied) =>
          /\ centre[r].stage = "closed"
          /\ \E p \in Passes : \E a \in pass[p].answer \ pass'[p].answer :
                /\ a.req = r
                /\ \A s \in SKUs : \/ byFact'[r][s] >= centre[r].fact[s]
                                   \/ Remaining(a.transfer, s)' = 0]_allVars

\* What a centre accepted is credited at that centre's warehouse and at no
\* other, though the pass learnt the link before it asked for the fact and the
\* link and the route are edited all the time.
CreditedWhereAccepted ==
    [][\A r \in Requests, t \in Transfers, w \in Warehouses :
          (byFact'[r] # byFact[r] /\ journal'[t][w] # journal[t][w]) => w = WarehouseOf[r]]_allVars

\* The sync sends off only a transfer that has its vehicle at that moment, not
\* at the moment its candidates were collected.
AutoSendHasVehicle ==
    [][\A p \in Passes, t \in Transfers :
          (t \in pass[p].ship \ pass'[p].ship /\ rounds'[t] > rounds[t])
              => doc[t].status = "VEHICLE_ASSIGNED"]_allVars

\* With one transfer, a pass takes no step that a handler would not: the sync's
\* own writes to the status respect the table of transitions.
KeepsTransferRules == [][Next]_vars

\* The centre credits us with no more than it accepted: every pass adds the
\* difference, as the comment in sync_warehouse has it.
CreditWithinFact ==
    \A r \in Requests, s \in SKUs : byFact[r][s] <= centre[r].fact[s]

\* A fact that has its marker is never applied again ("no window").
MarkedNotReapplied ==
    [][\A r \in Requests : mirror[r].applied => byFact'[r] = byFact[r]]_allVars

-----------------------------------------------------------------------------
(* Liveness *)

\* The scheduler starts its passes every ten minutes, a person when he likes; a
\* candidate's HTTP calls and its commit succeed sooner or later.
Fairness ==
    \A p \in Scheduled :
        /\ WF_allVars(Collect(p))
        /\ \A c \in [req : Inbound, transfer : Transfers, closed : BOOLEAN] :
               SF_allVars(FetchFact(p, c, centre[c.req].fact))
        /\ SF_allVars(ApplyFact(p))
        /\ WF_allVars(Skip(p))

FairSyncSpec == SyncSpec /\ Fairness

\* A closed request with a fact is settled while its transfer is on the road:
\* applied, or overtaken by a delivery, a return or an unlinking.
ClosedFactIsSettled ==
    \A r \in Inbound, t \in Transfers :
        (/\ centre[r].stage = "closed" /\ centre[r].fact # Nothing
         /\ mirror[r].link = t /\ OnTheRoad(t))
        ~> (mirror[r].applied \/ mirror[r].link # t \/ ~OnTheRoad(t))
=============================================================================
