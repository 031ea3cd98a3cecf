-------------------------- MODULE AssemblyRequests --------------------------
(***************************************************************************)
(* Requests to assemble goods for a supply to Wildberries (FBO): the       *)
(* handlers of backend/services/assembly/status.py, the edit of crud.py,   *)
(* the pass of fbo_supply/sync.py and the conversion into a transfer of    *)
(* warehouse_outbound.py.                                                  *)
(*                                                                         *)
(* Most handlers read a request, check its status and write it without a   *)
(* lock; shipping, cancelling and returning lock its row and read its      *)
(* status again, but go on with the items, links and supply they read      *)
(* before.  An UPDATE names the columns that differ from what was read,    *)
(* and only those (SQLAlchemy): Flush.                                     *)
(*                                                                         *)
(* One product per request, its units counted by qty.  Every request has a *)
(* warehouse of its own, so that several may share a supply; there is      *)
(* stock enough.  Shipping a joint supply is shipping its requests in turn. *)
(***************************************************************************)
EXTENDS Integers, Sequences, FiniteSets, Tallies

CONSTANTS
    Requests, Supplies,
    Gazelka,      \* requests whose haulage the aggregator leads
    Portal,       \* requests of a warehouse whose operator accepts returns himself
    Callers,      \* people, and the jobs that call the same handlers
    sync,         \* the session in which a pass of the sync ships
    None,
    Convertible,  \* bound: requests that may be turned into a transfer
    AsOffered,    \* are handlers asked only from the statuses their docstrings name
    MaxQty,       \* bound: units of a request
    MaxAttempts,  \* bound: shipments of each request
    MaxSlips      \* bound: requests in unseen before people stop

Sessions == Callers \cup {sync}
Statuses == {"IN_PROGRESS", "READY", "VEHICLE_ASSIGNED", "SHIPPED",
             "DELIVERED", "RETURNED", "CLOSED", "CANCELLED"}

ASSUME PartsAssumption ==
    Gazelka \subseteq Requests /\ Portal \subseteq Requests /\ Convertible \subseteq Requests
    /\ sync \notin Callers /\ AsOffered \in BOOLEAN
ASSUME NoneAssumption ==
    None \notin Supplies /\ None \notin Nat /\ None \notin Requests \X Nat
ASSUME BoundsAssumption == MaxQty \in Nat \ {0} /\ MaxAttempts \in [Requests -> Nat] /\ MaxSlips \in Nat

VARIABLES
    req,        \* the row of a request: ship is the number of its current shipment
    supply,     \* the row of a supply: its shipment, and is a return processed
    accepted,   \* supplies Wildberries has accepted
    shipments,  \* OutboundShipment of a request, one per attempt
    returns,    \* return receipts of a request
    net,        \* sum of the journal's movements of a request
    converted,  \* requests turned into a transfer
    session,    \* what a handler has read and is about to write
    pass,       \* what a pass of the sync has read; ships: who is yet to be shipped
    unseen      \* requests written on the strength of data that had changed (history)

papers == <<accepted, shipments, returns, net, converted>>
vars == <<req, supply, papers, session, pass, unseen>>

Transitions == [
    IN_PROGRESS      |-> {"READY", "CANCELLED"},
    READY            |-> {"VEHICLE_ASSIGNED", "IN_PROGRESS", "CANCELLED"},
    VEHICLE_ASSIGNED |-> {"SHIPPED", "READY", "CANCELLED"},
    SHIPPED          |-> {"DELIVERED", "READY", "RETURNED", "CANCELLED"},
    DELIVERED        |-> {"RETURNED", "CLOSED"},
    RETURNED         |-> {"READY", "CLOSED", "CANCELLED"},
    CLOSED           |-> {},
    CANCELLED        |-> {}]

Closed == {"SHIPPED", "DELIVERED", "RETURNED", "CLOSED"}

Ref(a, n) == IF n = None THEN None ELSE <<a, n>>
NoPaper   == [ship |-> None, returned |-> FALSE]
Idle      == [op |-> "idle", at |-> {}, seen |-> <<>>, paper |-> <<>>, waits |-> {}, new |-> <<>>]
NoLinks   == [f \in Supplies |-> None]
Resting   == [phase |-> "idle", links |-> NoLinks, deliver |-> {}, ships |-> {}]

Init ==
    /\ req \in [Requests -> [status: {"IN_PROGRESS"}, supply: Supplies \cup {None},
                             ship: {None}, qty: {1}]]
    /\ supply = [f \in Supplies |-> NoPaper]
    /\ accepted = {}
    /\ shipments = [a \in Requests |-> <<>>]
    /\ returns = [a \in Requests |-> <<>>]
    /\ net = [a \in Requests |-> 0]
    /\ converted = {}
    /\ session = [s \in Sessions |-> Idle]
    /\ pass = Resting
    /\ unseen = {}

(***************************************************************************)
(* Reading and writing.                                                    *)
(***************************************************************************)
\* The supply comes with its request.
PaperOf(a) == IF req[a].supply = None THEN NoPaper ELSE supply[req[a].supply]

Awaited(a) == {i \in DOMAIN returns[a] : returns[a][i].open}

Load(s, op, at, new) ==
    /\ session[s] = Idle
    /\ session' = [session EXCEPT ![s] =
           [op |-> op, at |-> at, seen |-> [a \in at |-> req[a]],
            paper |-> [a \in at |-> PaperOf(a)],
            waits |-> {a \in at : Awaited(a) # {}}, new |-> new]]
    /\ UNCHANGED <<req, supply, papers, unseen>>

Flush(row, seen, new) ==
    [c \in DOMAIN row |-> IF new[c] # seen[c] THEN new[c] ELSE row[c]]

Overlooks(a, those) == unseen' = IF those THEN unseen \cup {a} ELSE unseen

\* The row has changed since it was read, or a reopening found no return to
\* wait for and there is one now.
Overtaken(job, a) ==
    \/ req[a] # job.seen[a]
    \/ job.new[a].status = "READY" /\ a \notin job.waits /\ Awaited(a) # {}

Write(s) ==
    LET job == session[s] IN
    /\ job.op = "write"
    /\ req' = [a \in Requests |->
                  IF a \in job.at THEN Flush(req[a], job.seen[a], job.new[a]) ELSE req[a]]
    /\ unseen' = unseen \cup {a \in job.at : Overtaken(job, a)}
    /\ session' = [session EXCEPT ![s] = Idle]
    /\ UNCHANGED <<supply, papers, pass>>

(***************************************************************************)
(* Handlers that take no lock.                                             *)
(***************************************************************************)
Change(s, at, new) == Load(s, "write", at, new) /\ UNCHANGED pass

Moved(at, to) == [a \in at |-> [req[a] EXCEPT !.status = to]]

Move(s, a, offered, to) ==
    /\ AsOffered => req[a].status \in offered
    /\ to \in Transitions[req[a].status]
    /\ to = "READY" => Len(shipments[a]) < MaxAttempts[a]
    /\ Change(s, {a}, Moved({a}, to))

StartAssembly(s, a) == Move(s, a, {"READY"}, "IN_PROGRESS")
MarkReady(s, a) == req[a].supply # None /\ Move(s, a, {"IN_PROGRESS"}, "READY")
UnassignVehicle(s, a) == Move(s, a, {"VEHICLE_ASSIGNED"}, "READY")
CloseRequest(s, a) == Move(s, a, {"RETURNED", "DELIVERED"}, "CLOSED")
DeliverRequest(s, a) == Move(s, a, {"SHIPPED"}, "DELIVERED")

\* Mutant: the return that is still awaited is not looked for.
ReopenUnchecked(s, a) == Move(s, a, {"RETURNED"}, "READY")

ReopenForReship(s, a) == Awaited(a) = {} /\ Move(s, a, {"RETURNED"}, "READY")

\* The active requests on the same supply, the request among them.
Siblings(a) ==
    IF req[a].supply = None THEN {a}
    ELSE {b \in Requests : req[b].supply = req[a].supply /\ req[b].status # "CANCELLED"}

\* One vehicle for all of a joint supply, once all of it is ready.
AssignVehicle(s, a) ==
    LET at == IF Cardinality(Siblings(a)) > 1 THEN Siblings(a) ELSE {a} IN
    /\ \A b \in at : req[b].status = "READY" /\ b \notin Gazelka
    /\ Change(s, at, Moved(at, "VEHICLE_ASSIGNED"))

\* The aggregator has assigned its vehicle.
ApplyGazelkaLogistics(s, a) ==
    /\ a \in Gazelka /\ req[a].status = "READY"
    /\ Change(s, {a}, Moved({a}, "VEHICLE_ASSIGNED"))

UpdateRequest(s, a) ==
    /\ req[a].status \notin Closed \cup {"CANCELLED"}
    /\ \E f \in Supplies \cup {req[a].supply}, q \in 1..MaxQty :
          /\ <<f, q>> # <<req[a].supply, req[a].qty>>
          /\ Change(s, {a}, [b \in {a} |-> [req[b] EXCEPT !.supply = f, !.qty = q]])

(***************************************************************************)
(* Handlers that lock the request's row.                                   *)
(***************************************************************************)
Ask(s, op, offered, a) ==
    /\ AsOffered => req[a].status \in offered
    /\ Load(s, op, {a}, <<>>)
    /\ UNCHANGED pass

AskShip(s, a)   == Ask(s, "ship", {"VEHICLE_ASSIGNED"}, a)
AskReturn(s, a) == Ask(s, "return", {"SHIPPED", "DELIVERED"}, a)
AskCancel(s, a) == Ask(s, "cancel", Statuses \ {"DELIVERED", "CLOSED", "CANCELLED"}, a)

\* Of the columns that are not read again under the lock.
Outdated(a, seen, columns) == \E c \in columns : seen[c] # req[a][c]

\* Mutant: the status is the one read before the lock.
MayShipAsSeen(s, a) ==
    \/ "SHIPPED" \in Transitions[session[s].seen[a].status]
    \/ session[s].seen[a].status = "READY" /\ session[s].op = "autoship" /\ a \in Gazelka

MayShip(s, a) ==
    \/ "SHIPPED" \in Transitions[req[a].status]
    \/ req[a].status = "READY" /\ session[s].op = "autoship" /\ a \in Gazelka

ShipRequest(s, a) ==
    LET seen == session[s].seen[a]
        n    == Len(shipments[a]) + 1 IN
    /\ session[s].op \in {"ship", "autoship"} /\ MayShip(s, a)
    /\ net' = [net EXCEPT ![a] = @ - seen.qty]
    /\ shipments' = [shipments EXCEPT ![a] = Append(@, [qty |-> seen.qty, live |-> TRUE])]
    /\ supply' = IF seen.supply = None THEN supply
                 ELSE [supply EXCEPT ![seen.supply].ship = <<a, n>>]
    /\ req' = [req EXCEPT ![a] =
                  Flush(@, seen, [seen EXCEPT !.status = "SHIPPED", !.ship = n])]
    /\ Overlooks(a, Outdated(a, seen, {"supply", "qty"}) \/ seen.status = "SHIPPED")
    /\ UNCHANGED <<accepted, returns, converted>>

\* The row is refreshed, the supply is the one that was read with it.
PaperAt(s, a, f) ==
    IF session[s].seen[a].supply = f THEN session[s].paper[a] ELSE supply[f]

\* Mutant: a cancellation leaves the supply's link.
LinkKept(s, a, f) == supply[f].ship

\* Only a link to this shipment goes.
LinkAfterCancel(s, a, f) ==
    IF PaperAt(s, a, f).ship = Ref(a, req[a].ship) THEN None ELSE supply[f].ship

MayCancel(s, a) == "CANCELLED" \in Transitions[req[a].status]

CancelRequest(s, a) ==
    LET qty == session[s].seen[a].qty
        out == req[a].status = "SHIPPED"
        f   == req[a].supply IN
    /\ session[s].op = "cancel" /\ MayCancel(s, a)
    /\ req' = [req EXCEPT ![a].status = "CANCELLED", ![a].ship = IF out THEN None ELSE @]
    /\ net' = [net EXCEPT ![a] = IF out THEN @ + qty ELSE @]
    /\ shipments' = IF out /\ req[a].ship # None
                    THEN [shipments EXCEPT ![a][req[a].ship].live = FALSE] ELSE shipments
    /\ supply' = IF out /\ f # None
                 THEN [supply EXCEPT ![f].ship = LinkAfterCancel(s, a, f)] ELSE supply
    /\ Overlooks(a, out /\ (qty # req[a].qty
                            \/ (f # None /\ PaperAt(s, a, f) # supply[f])))
    /\ UNCHANGED <<accepted, returns, converted>>

MayReturn(s, a) ==
    /\ "RETURNED" \in Transitions[req[a].status]
    /\ ~session[s].paper[a].returned

ReturnToWarehouse(s, a) ==
    LET seen  == session[s].seen[a]
        paper == session[s].paper[a]
        got   == IF a \in Portal THEN 0 ELSE seen.qty IN
    /\ session[s].op = "return" /\ MayReturn(s, a)
    /\ returns' = [returns EXCEPT ![a] =
           Append(@, [qty |-> seen.qty, got |-> got, open |-> a \in Portal])]
    /\ net' = [net EXCEPT ![a] = @ + got]
    /\ supply' = IF seen.supply = None THEN supply
                 ELSE [supply EXCEPT ![seen.supply] =
                          [returned |-> TRUE,
                           ship |-> IF paper.ship = Ref(a, seen.ship) THEN None ELSE @.ship]]
    /\ req' = [req EXCEPT ![a] =
           Flush(@, seen, [seen EXCEPT !.status = "RETURNED", !.ship = None, !.supply = None])]
    /\ Overlooks(a, Outdated(a, seen, {"supply", "ship", "qty"}) \/ paper # PaperOf(a))
    /\ UNCHANGED <<accepted, shipments, converted>>

\* The lock is got, the check is made, the transaction commits.
Locked(s) ==
    /\ \E a \in session[s].at : ShipRequest(s, a) \/ CancelRequest(s, a)
                                \/ ReturnToWarehouse(s, a)
    /\ session' = [session EXCEPT ![s] = Idle]
    /\ UNCHANGED pass

Refused(s) ==
    /\ \E a \in session[s].at :
          \/ session[s].op \in {"ship", "autoship"} /\ ~MayShip(s, a)
          \/ session[s].op = "cancel" /\ ~MayCancel(s, a)
          \/ session[s].op = "return" /\ ~MayReturn(s, a)
    /\ session' = [session EXCEPT ![s] = Idle]
    /\ UNCHANGED <<req, supply, papers, pass, unseen>>

\* The portal's operator accepts what has come of a return.
AcceptReturn(a) ==
    \E i \in Awaited(a) : \E got \in 0..returns[a][i].qty :
        /\ returns' = [returns EXCEPT ![a][i].open = FALSE, ![a][i].got = got]
        /\ net' = [net EXCEPT ![a] = @ + got]
        /\ UNCHANGED <<req, supply, accepted, shipments, converted, session, pass, unseen>>

ConvertToTransfer(a) ==
    /\ a \in Convertible \ converted
    /\ net[a] >= 0
    /\ converted' = converted \cup {a}
    /\ req' = IF req[a].status \in {"CLOSED", "RETURNED", "CANCELLED"} THEN req
              ELSE [req EXCEPT ![a].status = "CANCELLED"]
    /\ UNCHANGED <<supply, accepted, shipments, returns, net, session, pass, unseen>>

(***************************************************************************)
(* The pass of the sync over the supplies.                                 *)
(***************************************************************************)
\* Wildberries accepts a supply.
WbAccepts(f) ==
    /\ f \notin accepted
    /\ accepted' = accepted \cup {f}
    /\ UNCHANGED <<req, supply, shipments, returns, net, converted, session, pass, unseen>>

\* Mutant: a request without a shipment is taken, too.
LinkableUnshipped(f) == {<<a, req[a].ship>> : a \in {b \in Requests : req[b].supply = f}}

Linkable(f) == {<<a, req[a].ship>> : a \in {b \in Requests : req[b].supply = f
                                                            /\ req[b].ship # None}}

\* Mutant: a supply that has lost its shipment is not repaired.
NoBackfill(f) == {None}

\* For a supply without a shipment, that of some request which points at it.
Backfill(f) == IF supply[f].ship = None /\ Linkable(f) # {} THEN Linkable(f) ELSE {None}

SyncRead ==
    /\ pass.phase = "idle" /\ pass.ships = {} /\ session[sync] = Idle
    /\ \E links \in [Supplies -> UNION {Backfill(f) : f \in Supplies}] :
          /\ \A f \in Supplies : links[f] \in Backfill(f)
          /\ LET on == {a \in Requests : req[a].supply \in accepted} IN
             pass' = [phase |-> "read", links |-> links,
                      deliver |-> {a \in on : req[a].status = "SHIPPED"
                                     /\ (supply[req[a].supply].ship # None
                                         \/ links[req[a].supply] # None)},
                      ships   |-> {a \in on : req[a].status = "VEHICLE_ASSIGNED"
                                     \/ (req[a].status = "READY" /\ a \in Gazelka)}]
    /\ UNCHANGED <<req, supply, papers, session, unseen>>

SyncCommit ==
    /\ pass.phase = "read"
    /\ supply' = [f \in Supplies |-> IF pass.links[f] = None THEN supply[f]
                                     ELSE [supply[f] EXCEPT !.ship = pass.links[f]]]
    /\ req' = [a \in Requests |-> IF a \in pass.deliver
                                  THEN [req[a] EXCEPT !.status = "DELIVERED"] ELSE req[a]]
    /\ unseen' = unseen
          \cup {a \in pass.deliver : req[a].status # "SHIPPED"}
          \cup {a \in Requests : \E f \in Supplies :
                   /\ pass.links[f] # None /\ pass.links[f][1] = a
                   /\ req[a].supply # f \/ Ref(a, req[a].ship) # pass.links[f]}
    /\ pass' = [pass EXCEPT !.phase = "idle", !.links = NoLinks, !.deliver = {}]
    /\ UNCHANGED <<papers, session>>

\* Each candidate in a session of its own.
AutoShip ==
    /\ pass.phase = "idle"
    /\ \E a \in pass.ships : Load(sync, "autoship", {a}, <<>>)
                             /\ pass' = [pass EXCEPT !.ships = @ \ {a}]

Handler(s, a) ==
    /\ Cardinality(unseen) <= MaxSlips
    /\ \/ StartAssembly(s, a) \/ MarkReady(s, a) \/ UnassignVehicle(s, a)
       \/ CloseRequest(s, a) \/ DeliverRequest(s, a) \/ ReopenForReship(s, a)
       \/ AssignVehicle(s, a) \/ ApplyGazelkaLogistics(s, a) \/ UpdateRequest(s, a)
       \/ AskShip(s, a) \/ AskReturn(s, a) \/ AskCancel(s, a)

Next ==
    \/ \E s \in Callers, a \in Requests : Handler(s, a)
    \/ \E s \in Sessions : Write(s) \/ Locked(s) \/ Refused(s)
    \/ \E a \in Requests : AcceptReturn(a) \/ ConvertToTransfer(a)
    \/ \E f \in Supplies : WbAccepts(f)
    \/ SyncRead \/ SyncCommit \/ AutoShip

Spec == Init /\ [][Next]_vars

\* The pass is a job of the scheduler: it comes again and runs to its end.
Fairness ==
    /\ WF_vars(SyncRead) /\ WF_vars(SyncCommit) /\ WF_vars(AutoShip)
    /\ WF_vars(Locked(sync) \/ Refused(sync))

FairSpec == Spec /\ Fairness

(***************************************************************************)
(* Properties.                                                             *)
(***************************************************************************)
\* Rows keep their shape whatever handlers write on the strength of what they
\* read, and a link is a shipment or none.
TypeOK ==
    /\ req \in [Requests -> [status: Statuses, supply: Supplies \cup {None},
                             ship: Nat \cup {None}, qty: 1..MaxQty]]
    /\ supply \in [Supplies -> [ship: {None} \cup (Requests \X Nat), returned: BOOLEAN]]
    /\ accepted \subseteq Supplies
    /\ \A a \in Requests :
          /\ \A n \in DOMAIN shipments[a] :
                shipments[a][n] \in [qty: 1..MaxQty, live: BOOLEAN]
          /\ \A i \in DOMAIN returns[a] :
                returns[a][i] \in [qty: 1..MaxQty, got: 0..MaxQty, open: BOOLEAN]
    /\ net \in [Requests -> Int]
    /\ converted \subseteq Requests /\ unseen \subseteq Requests

Short(a) == Total([i \in DOMAIN returns[a] |-> returns[a][i].qty - returns[a][i].got])
Under(a) == IF req[a].ship = None THEN 0 ELSE shipments[a][req[a].ship].qty

\* The journal says of a request what its documents say: out are the goods of
\* its current shipment and what its returns have not brought back; a request
\* that waits, has returned or is cancelled has no current shipment.  The locks
\* see to it whatever the interleaving, unless a handler has written on the
\* strength of data it did not read again.
BooksTellDocuments ==
    \A a \in Requests \ unseen :
        /\ net[a] = 0 - Under(a) - Short(a)
        /\ req[a].status \notin Closed \ {"RETURNED"} => req[a].ship = None

\* The shipment a supply names is one that stands, and the current one of a
\* request on that supply: requests of a joint supply do not disturb each other.
PointerTellsShipment ==
    \A f \in Supplies, a \in Requests \ unseen :
        supply[f].ship # None /\ supply[f].ship[1] = a =>
            LET n == supply[f].ship[2] IN
            req[a].ship = n /\ req[a].supply = f /\ shipments[a][n].live

\* Nothing is made ready, let alone shipped again, before the operator has
\* accepted the return.
PendingReturnHolds ==
    \A a \in Requests \ unseen :
        Awaited(a) # {} => req[a].status \in {"RETURNED", "CLOSED", "CANCELLED"}

Due(a, f, status) == f \in accepted /\ req[a].supply = f /\ req[a].status = status

\* A request whose supply Wildberries has accepted does not stay with its
\* vehicle or on the road: the sync ships it and delivers it, also when the
\* supply has lost its shipment (provided there is stock).
AcceptedGoesOn ==
    \A a \in Requests, f \in Supplies, status \in {"VEHICLE_ASSIGNED", "SHIPPED"} :
        Due(a, f, status) ~> ~Due(a, f, status)

\* What has been turned into a transfer is not shipped by the request as well,
\* even if nobody acts on outdated data.
ConvertedStaysIn ==
    [][\A a \in converted \ unseen : Len(shipments'[a]) = Len(shipments[a])]_vars

\* A request never brings back more than it took.
StockComesBackOnce == \A a \in Requests : net[a] <= 0

\* A vehicle that a person assigns takes all the active requests of a supply.
VehicleTakesAll ==
    [][\A a, b \in Requests \ Gazelka :
          /\ req[a].status = "READY" /\ req'[a].status = "VEHICLE_ASSIGNED"
          /\ req[b].supply = req[a].supply /\ req[a].supply # None
          => req'[b].status \notin {"IN_PROGRESS", "READY"}]_vars
=============================================================================
