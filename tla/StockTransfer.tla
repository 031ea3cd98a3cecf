---------------------------- MODULE StockTransfer ----------------------------
(***************************************************************************)
(* The stock transfer (a move of goods between two of our own warehouses)  *)
(* of backend/services/warehouse_outbound.py, over the stock rows kept by  *)
(* backend/services/warehouse_stock_engine.py.                             *)
(*                                                                         *)
(* Every handler takes the transfer's row FOR UPDATE (_get_transfer_locked)*)
(* and commits once, so a handler is one action here.  What the missing    *)
(* lock on the stock rows adds is the subject of module StockSessions.     *)
(*                                                                         *)
(* Lines of one barcode are collapsed into a quantity per SKU: every       *)
(* handler but send collapses them itself, and send adds them up.          *)
(***************************************************************************)
EXTENDS Integers, Sequences, Tallies

CONSTANTS
    Transfers,        \* documents that may be created
    Warehouses,
    SKUs,             \* nomenclature ids
    Carriers,         \* what a logistics form may carry (vehicle, carrier, cost)
    NoCarrier,        \* every logistics field empty
    Opening,          \* stock on hand before the first transfer, good and bad
    MaxQty,           \* bound: units of one SKU in a transfer or in a fact
    MaxRounds,        \* bound: trips of one transfer
    MaxStock,         \* bound: units an adjustment may leave on hand
    Corrections,      \* deltas of an inventory adjustment
    Aggregated,       \* transfers the aggregator (Gazelka) may be asked to carry
    RerouteAfterTrip  \* may a user change the route of a transfer that has
                      \* already travelled?  The code lets him.

ASSUME WarehousesAssumption == Warehouses # {} /\ IsFiniteSet(Warehouses)
ASSUME TransfersAssumption == IsFiniteSet(Transfers)
ASSUME BoundsAssumption == MaxQty \in Nat /\ MaxRounds \in Nat /\ MaxStock \in Nat
ASSUME CarriersAssumption == NoCarrier \notin Carriers
ASSUME OpeningAssumption == Opening \in [Warehouses -> [SKUs -> [good : Nat, bad : Nat]]]
ASSUME CorrectionsAssumption == Corrections \subseteq Int
ASSUME AggregatedAssumption == Aggregated \subseteq Transfers
ASSUME RerouteAssumption == RerouteAfterTrip \in BOOLEAN

VARIABLES
    doc,       \* StockTransfer and its items, per transfer
    stock,     \* WarehouseStock, per warehouse and SKU
    journal,   \* StockMovement of a transfer, summed per warehouse and SKU
    adjusted,  \* StockMovement of type ADJUSTMENT, summed per SKU
    pickups,   \* OutboundShipment of a transfer, by attempt_no
    rounds,    \* rows "-> SHIPPED" in the transfer's status history
    led        \* transfers with a SENT or MATCHED GazelkaOrder

vars == <<doc, stock, journal, adjusted, pickups, rounds, led>>

-----------------------------------------------------------------------------
(* Statuses *)

TransferStatus == {"PENDING", "IN_PROGRESS", "READY", "VEHICLE_ASSIGNED",
                   "SHIPPED", "DELIVERED", "RETURNED", "CLOSED", "CANCELLED"}

TRANSFER_TRANSITIONS ==
    [PENDING          |-> {"IN_PROGRESS", "READY", "CANCELLED"},
     IN_PROGRESS      |-> {"READY", "CANCELLED"},
     READY            |-> {"VEHICLE_ASSIGNED", "IN_PROGRESS", "CANCELLED"},
     VEHICLE_ASSIGNED |-> {"SHIPPED", "READY", "CANCELLED"},
     SHIPPED          |-> {"DELIVERED", "RETURNED"},
     DELIVERED        |-> {"RETURNED", "CLOSED"},
     RETURNED         |-> {"READY", "CLOSED"},
     CLOSED           |-> {},
     CANCELLED        |-> {}]

TRANSFER_EDITABLE_STATUSES == {"PENDING", "IN_PROGRESS", "READY"}
TRANSFER_PRE_SHIP_STATUSES == {"PENDING", "IN_PROGRESS", "READY", "VEHICLE_ASSIGNED"}
TRANSFER_SEND_FROM == {"READY", "VEHICLE_ASSIGNED"}
TRANSFER_LOGISTICS_RETRO_STATUSES == {"SHIPPED", "DELIVERED", "RETURNED", "CLOSED"}

\* The row does not exist yet.
Absent == "ABSENT"

Exists(t) == doc[t].status # Absent

\* _check_transfer_transition: the row exists and the table allows the step.
MayBecome(t, target) ==
    Exists(t) /\ target \in TRANSFER_TRANSITIONS[doc[t].status]

-----------------------------------------------------------------------------
(* Documents, stock rows and the journal *)

Quantities == [SKUs -> 0..MaxQty]
Nothing    == [s \in SKUs |-> 0]

Document == [status   : TransferStatus \cup {Absent},
             from     : Warehouses,
             to       : Warehouses,
             items    : Quantities,
             isDefect : BOOLEAN,
             carrier  : Carriers \cup {NoCarrier}]

StockRow == [quantity : Nat, defect : Nat, transit : Nat, defectTransit : Nat]

\* Sums of the movements of one transfer at one warehouse for one SKU:
\* TRANSFER_OUT, TRANSFER_IN, DEFECT_TRANSFER_IN (reference TRANSFER) and what
\* a return took back (reference TRANSFER_RETURN), good and defective.
JournalRow == [out : Nat, inGood : Nat, inDefect : Nat, backGood : Nat, backDefect : Nat]

\* The carrier's document of one trip; trip is the round that created it.
Pickup == [trip : Nat, carrier : Carriers, from : Warehouses, items : Quantities]

Routes == {r \in Warehouses \X Warehouses : r[1] # r[2]}

Pos(n)       == IF n > 0 THEN n ELSE 0
Lesser(a, b) == IF a < b THEN a ELSE b

HasItems(t) == doc[t].items # Nothing

\* _transfer_has_logistics
HasLogistics(t) == doc[t].carrier # NoCarrier

\* What the transfer has brought to warehouse w, less what was taken back.
Landed(t, w, s) ==
    LET j == journal[t][w][s]
    IN  (j.inGood + j.inDefect) - (j.backGood + j.backDefect)

\* _transfer_received_map: the net of ALL the transfer's movements at the
\* warehouse that is the receiver now, clamped at zero.
Received(t, s) == Pos(Landed(t, doc[t].to, s) - journal[t][doc[t].to][s].out)

\* Mutant: the plan is credited whole, whatever has been received.
RemainingWholePlan(t, s) == doc[t].items[s]

\* What of the plan the receiver has not been credited with yet.
Remaining(t, s) == Pos(doc[t].items[s] - Received(t, s))

\* _update_stock: the delta of a row's two balances; the guard is EnoughFor.
AddTo(row, good, bad) ==
    [row EXCEPT !.quantity = @ + good, !.defect = @ + bad]

\* Mutant: the guard looks at the defect balance only.
EnoughBad(row, good, bad) == row.defect + bad >= 0

EnoughFor(row, good, bad) == row.quantity + good >= 0 /\ row.defect + bad >= 0

\* Units of a transfer in the balance its is_defect flag selects.
AsGood(isDefect, n)   == IF isDefect THEN 0 ELSE n
AsDefect(isDefect, n) == IF isDefect THEN n ELSE 0

Hang(row, isDefect, n) ==
    IF isDefect THEN [row EXCEPT !.defectTransit = @ + n]
                ELSE [row EXCEPT !.transit = @ + n]

\* Mutant: what is credited leaves the good transit balance, whichever it was on.
UnhangGood(row, isDefect, n) == [row EXCEPT !.transit = Pos(@ - n)]

Unhang(row, isDefect, n) ==
    IF isDefect THEN [row EXCEPT !.defectTransit = Pos(@ - n)]
                ELSE [row EXCEPT !.transit = Pos(@ - n)]

\* The movements written beside a change of balances.
BookOut(j, n)          == [j EXCEPT !.out = @ + n]
BookIn(j, good, bad)   == [j EXCEPT !.inGood = @ + good, !.inDefect = @ + bad]

\* Mutant: a defective unit goes back without a movement.
BookBackGood(j, good, bad) == [j EXCEPT !.backGood = @ + good]

BookBack(j, good, bad) == [j EXCEPT !.backGood = @ + good, !.backDefect = @ + bad]

SetStatus(t, new) == doc' = [doc EXCEPT ![t].status = new]

StockKept == UNCHANGED <<stock, journal, adjusted>>

-----------------------------------------------------------------------------
Init ==
    /\ doc = [t \in Transfers |->
                [status |-> Absent, from |-> CHOOSE w \in Warehouses : TRUE,
                 to |-> CHOOSE w \in Warehouses : TRUE, items |-> Nothing,
                 isDefect |-> FALSE, carrier |-> NoCarrier]]
    /\ stock = [w \in Warehouses |-> [s \in SKUs |->
                 [quantity |-> Opening[w][s].good, defect |-> Opening[w][s].bad,
                  transit |-> 0, defectTransit |-> 0]]]
    /\ journal = [t \in Transfers |-> [w \in Warehouses |-> [s \in SKUs |->
                   [out |-> 0, inGood |-> 0, inDefect |-> 0,
                    backGood |-> 0, backDefect |-> 0]]]]
    /\ adjusted = Nothing
    /\ pickups = [t \in Transfers |-> <<>>]
    /\ rounds = [t \in Transfers |-> 0]
    /\ led = {}

-----------------------------------------------------------------------------
(* Before the goods leave *)

\* create_transfer: the composition may still be empty.
Create(t, route, items, isDefect) ==
    /\ ~Exists(t)
    /\ doc' = [doc EXCEPT ![t] = [status |-> "PENDING", from |-> route[1], to |-> route[2],
                                  items |-> items, isDefect |-> isDefect,
                                  carrier |-> NoCarrier]]
    /\ StockKept
    /\ UNCHANGED <<pickups, rounds, led>>

\* update_transfer: a route, a flag and (when sent) a whole new composition.
\* The fulfilment links that may veto a new route are in module TransferSync.
Update(t, route, items, isDefect) ==
    /\ doc[t].status \in TRANSFER_EDITABLE_STATUSES
    /\ items # Nothing \/ items = doc[t].items
    /\ \/ RerouteAfterTrip
       \/ rounds[t] = 0
       \/ route = <<doc[t].from, doc[t].to>>
    /\ doc' = [doc EXCEPT ![t].from = route[1], ![t].to = route[2],
                          ![t].items = items, ![t].isDefect = isDefect]
    /\ StockKept
    /\ UNCHANGED <<pickups, rounds, led>>

\* mark_transfer_ready
MarkReady(t) ==
    /\ MayBecome(t, "READY")
    /\ HasItems(t)
    /\ SetStatus(t, "READY")
    /\ StockKept
    /\ UNCHANGED <<pickups, rounds, led>>

\* _mark_linked_transfers_ready, a linked request that is not assembled yet.
FfTakesUp(t) ==
    /\ doc[t].status = "PENDING"
    /\ SetStatus(t, "IN_PROGRESS")
    /\ StockKept
    /\ UNCHANGED <<pickups, rounds, led>>

\* _mark_linked_transfers_ready, every linked request assembled.
FfAssembled(t) ==
    /\ doc[t].status \in {"PENDING", "IN_PROGRESS"}
    /\ SetStatus(t, "READY")
    /\ StockKept
    /\ UNCHANGED <<pickups, rounds, led>>

\* _apply_vehicle_to_transfer: a first assignment or one within VEHICLE_ASSIGNED.
ApplyVehicle(t, carrier) ==
    /\ doc[t].status = "VEHICLE_ASSIGNED" \/ MayBecome(t, "VEHICLE_ASSIGNED")
    /\ doc' = [doc EXCEPT ![t].status = "VEHICLE_ASSIGNED", ![t].carrier = carrier]
    /\ StockKept
    /\ UNCHANGED <<pickups, rounds, led>>

\* assign_vehicle_transfer: refused while the aggregator leads the transfer.
AssignVehicle(t, carrier) == t \notin led /\ ApplyVehicle(t, carrier)

\* apply_gazelka_transfer_logistics: what the aggregator leaves empty stays;
\* outside the two statuses the call changes nothing.
ApplyGazelka(t, carrier) ==
    /\ doc[t].status \in {"READY", "VEHICLE_ASSIGNED"}
    /\ ApplyVehicle(t, carrier)

\* unassign_vehicle_transfer
UnassignVehicle(t) ==
    /\ t \notin led
    /\ doc[t].status = "VEHICLE_ASSIGNED"
    /\ doc' = [doc EXCEPT ![t].status = "READY", ![t].carrier = NoCarrier]
    /\ StockKept
    /\ UNCHANGED <<pickups, rounds, led>>

\* cancel_transfer (status and soft delete in one commit)
Cancel(t) ==
    /\ doc[t].status \in TRANSFER_PRE_SHIP_STATUSES
    /\ MayBecome(t, "CANCELLED")
    /\ SetStatus(t, "CANCELLED")
    /\ StockKept
    /\ UNCHANGED <<pickups, rounds, led>>

-----------------------------------------------------------------------------
(* The trip *)

\* _create_transfer_pickup: a new attempt, or the last one written over.
NewPickup(t, d, trip) ==
    [trip |-> trip, carrier |-> d.carrier, from |-> d.from, items |-> d.items]

\* Mutant: a second attempt finds the first one's document and leaves it.
AppendPickupOnce(t, d, trip) ==
    pickups' = [pickups EXCEPT ![t] = IF @ = <<>> THEN <<NewPickup(t, d, trip)>> ELSE @]

\* Mutant: a second attempt writes over the first one's document.
AppendPickupOver(t, d, trip) ==
    pickups' = [pickups EXCEPT ![t] = <<NewPickup(t, d, trip)>>]

AppendPickup(t, d, trip) ==
    pickups' = [pickups EXCEPT ![t] = Append(@, NewPickup(t, d, trip))]

RewriteLastPickup(t, d) ==
    LET n == Len(pickups[t])
    IN  pickups' = [pickups EXCEPT ![t][n] = NewPickup(t, d, @.trip)]

\* send_transfer.  allowedFrom narrows the entry for the automatic callers,
\* noLogistics is the "create and take away" form's explicit flag.
Send(t, allowedFrom, noLogistics) ==
    LET d == doc[t] IN
    /\ d.status \in allowedFrom \cap TRANSFER_SEND_FROM
    /\ d.status = "READY" => noLogistics \/ HasLogistics(t)
    /\ HasItems(t)
    /\ \A s \in SKUs : EnoughFor(stock[d.from][s], AsGood(d.isDefect, -d.items[s]),
                                                   AsDefect(d.isDefect, -d.items[s]))
    /\ rounds[t] < MaxRounds
    /\ stock' = [stock EXCEPT
                   ![d.from] = [s \in SKUs |-> AddTo(@[s], AsGood(d.isDefect, -d.items[s]),
                                                           AsDefect(d.isDefect, -d.items[s]))],
                   ![d.to]   = [s \in SKUs |-> Hang(@[s], d.isDefect, d.items[s])]]
    /\ journal' = [journal EXCEPT ![t][d.from] =
                     [s \in SKUs |-> BookOut(@[s], d.items[s])]]
    /\ SetStatus(t, "SHIPPED")
    /\ rounds' = [rounds EXCEPT ![t] = @ + 1]
    /\ IF HasLogistics(t) THEN AppendPickup(t, d, rounds[t] + 1) ELSE UNCHANGED pickups
    /\ UNCHANGED <<adjusted, led>>

\* The receiver is credited with good[s] + bad[s] units of the plan.
Credit(t, good, bad) ==
    LET d == doc[t] IN
    /\ stock' = [stock EXCEPT ![d.to] = [s \in SKUs |->
                   Unhang(AddTo(@[s], good[s], bad[s]), d.isDefect, good[s] + bad[s])]]
    /\ journal' = [journal EXCEPT ![t][d.to] = [s \in SKUs |->
                     BookIn(@[s], good[s], bad[s])]]
    /\ UNCHANGED <<adjusted, pickups, rounds, led>>

\* complete_transfer: the rest of the plan arrives.
Complete(t) ==
    LET d    == doc[t]
        take == [s \in SKUs |-> Remaining(t, s)]
    IN  /\ MayBecome(t, "DELIVERED")
        /\ Credit(t, [s \in SKUs |-> AsGood(d.isDefect, take[s])],
                     [s \in SKUs |-> AsDefect(d.isDefect, take[s])])
        /\ SetStatus(t, "DELIVERED")

\* receive_transfer_fact: a fulfilment centre reports what it accepted.
TakeGood(t, fact, s) == Lesser(fact[s], Remaining(t, s))

\* Mutant: the defective part is capped by the plan, not by what is left of it.
TakeBadOfPlan(t, good, bad, s) == Lesser(bad[s], Remaining(t, s))

TakeBad(t, good, bad, s) == Lesser(bad[s], Remaining(t, s) - TakeGood(t, good, s))

ReceiveFact(t, good, bad) ==
    LET d     == doc[t]
        taken == [s \in SKUs |-> TakeGood(t, good, s) + TakeBad(t, good, bad, s)]
        done  == \A s \in SKUs : taken[s] = Remaining(t, s)
    IN  /\ d.status = "SHIPPED"
        /\ Credit(t, [s \in SKUs |-> IF d.isDefect THEN 0 ELSE TakeGood(t, good, s)],
                     [s \in SKUs |-> IF d.isDefect THEN taken[s]
                                                   ELSE TakeBad(t, good, bad, s)])
        /\ doc' = IF done THEN [doc EXCEPT ![t].status = "DELIVERED"] ELSE doc

-----------------------------------------------------------------------------
(* After the trip *)

\* return_transfer: off the receiver what it was credited with, all of it from
\* the balance is_defect selects; back to the source the whole plan, on an
\* accepted receipt (reference RECEIPT, so not in the transfer's journal).
ReturnTransfer(t) ==
    LET d     == doc[t]
        taken == [s \in SKUs |-> Lesser(Received(t, s), d.items[s])]
        off   == [s \in SKUs |-> AsGood(d.isDefect, -taken[s])]
        offD  == [s \in SKUs |-> AsDefect(d.isDefect, -taken[s])]
    IN
    /\ MayBecome(t, "RETURNED")
    /\ HasItems(t)
    /\ \A s \in SKUs : EnoughFor(stock[d.to][s], off[s], offD[s])
    /\ stock' = [stock EXCEPT
                   ![d.to]   = [s \in SKUs |-> Unhang(AddTo(@[s], off[s], offD[s]), d.isDefect,
                                                      Pos(d.items[s] - taken[s]))],
                   ![d.from] = [s \in SKUs |-> AddTo(@[s], AsGood(d.isDefect, d.items[s]),
                                                           AsDefect(d.isDefect, d.items[s]))]]
    /\ journal' = [journal EXCEPT ![t][d.to] = [s \in SKUs |->
                     BookBack(@[s], -off[s], -offD[s])]]
    /\ SetStatus(t, "RETURNED")
    /\ UNCHANGED <<adjusted, pickups, rounds, led>>

\* close_transfer
Close(t) ==
    /\ MayBecome(t, "CLOSED")
    /\ SetStatus(t, "CLOSED")
    /\ StockKept
    /\ UNCHANGED <<pickups, rounds, led>>

\* set_transfer_logistics: the carrier and cost of a trip, after the fact.
SetLogistics(t, carrier) ==
    LET d == [doc[t] EXCEPT !.carrier = carrier] IN
    /\ doc[t].status \in TRANSFER_LOGISTICS_RETRO_STATUSES
    /\ doc' = [doc EXCEPT ![t] = d]
    /\ IF pickups[t] = <<>> THEN AppendPickup(t, d, rounds[t]) ELSE RewriteLastPickup(t, d)
    /\ StockKept
    /\ UNCHANGED <<rounds, led>>

-----------------------------------------------------------------------------
(* The rest of the system, as far as it touches this state *)

\* create_adjustment: an inventory correction of the good balance.
Adjust(w, s, delta) ==
    /\ EnoughFor(stock[w][s], delta, 0)
    /\ stock[w][s].quantity + delta <= MaxStock
    /\ stock' = [stock EXCEPT ![w][s] = AddTo(@, delta, 0)]
    /\ adjusted' = [adjusted EXCEPT ![s] = @ + delta]
    /\ UNCHANGED <<doc, journal, pickups, rounds, led>>

\* gazelka_service: an order for the transfer is sent or matched, or unmatched.
GazelkaLeads(t) ==
    /\ Exists(t)
    /\ led' = led \cup {t}
    /\ UNCHANGED <<doc, stock, journal, adjusted, pickups, rounds>>

GazelkaLetsGo(t) ==
    /\ t \in led
    /\ led' = led \ {t}
    /\ UNCHANGED <<doc, stock, journal, adjusted, pickups, rounds>>

-----------------------------------------------------------------------------
\* What people and the aggregator do before departure.
Prepare(t) ==
    \/ \E route \in Routes, items \in Quantities, isDefect \in BOOLEAN :
          Create(t, route, items, isDefect) \/ Update(t, route, items, isDefect)
    \/ MarkReady(t)
    \/ \E carrier \in Carriers : AssignVehicle(t, carrier)
    \/ t \in led /\ \E carrier \in Carriers : ApplyGazelka(t, carrier)
    \/ UnassignVehicle(t)
    \/ Cancel(t)

\* What people do on the way.
Travel(t) ==
    \/ \E noLogistics \in BOOLEAN : Send(t, TransferStatus, noLogistics)
    \/ Complete(t)
    \/ ReturnTransfer(t)

\* What a fulfilment centre's signals do, see module TransferSync.
FfReports(t) ==
    \/ FfTakesUp(t)
    \/ FfAssembled(t)
    \/ \E good, bad \in Quantities : ReceiveFact(t, good, bad)

Settle(t) ==
    \/ Close(t)
    \/ \E carrier \in Carriers : SetLogistics(t, carrier)

Next ==
    \/ \E t \in Transfers : Prepare(t) \/ Travel(t) \/ FfReports(t) \/ Settle(t)
                            \/ GazelkaLetsGo(t)
    \/ \E t \in Aggregated : GazelkaLeads(t)
    \/ \E w \in Warehouses, s \in SKUs, delta \in Corrections : Adjust(w, s, delta)

Spec == Init /\ [][Next]_vars
-----------------------------------------------------------------------------
(* Properties *)

TypeOK ==
    /\ doc \in [Transfers -> Document]
    /\ stock \in [Warehouses -> [SKUs -> StockRow]]
    /\ journal \in [Transfers -> [Warehouses -> [SKUs -> JournalRow]]]
    /\ adjusted \in [SKUs -> Int]
    /\ pickups \in [Transfers -> Seq(Pickup)]
    /\ rounds \in [Transfers -> 0..MaxRounds]
    /\ led \subseteq Transfers

\* The transfer never left from warehouse w: the case _transfer_received_map
\* counts on ("TRANSFER_OUT does not happen at the receiver").
NeverLeft(t, w, s) == journal[t][w][s].out = 0

\* The status that says who holds the goods of the current round.
OnTheRoad(t) == doc[t].status = "SHIPPED"
Arrived(t)   == doc[t].status = "DELIVERED"

\* What a warehouse the transfer never left from holds on its account agrees
\* with the transfer's status, however many rounds, portions and returns came
\* before: nothing before departure and after a return, a part of the plan on
\* the road, the whole plan once delivered.  Portions by receive_transfer_fact,
\* complete_transfer on top of them and return_transfer must add up for this.
LandedMatchesStatus ==
    \A t \in Transfers, s \in SKUs :
        NeverLeft(t, doc[t].to, s) =>
            LET landed == Landed(t, doc[t].to, s) IN
            /\ doc[t].status \notin {"SHIPPED", "DELIVERED", "CLOSED"} => landed = 0
            /\ OnTheRoad(t) => landed \in 0..doc[t].items[s]
            /\ Arrived(t)   => landed = doc[t].items[s]
            /\ doc[t].status = "CLOSED" => landed \in {0, doc[t].items[s]}

\* The claim of complete_transfer and receive_transfer_fact without that
\* proviso: the receiver is never credited with more than the plan.
NeverOverPlan ==
    \A t \in Transfers, s \in SKUs : Landed(t, doc[t].to, s) <= doc[t].items[s]

\* return_transfer "writes off what was already credited, or the same units
\* would lie in both warehouses": good and defective balances alike.
NothingLeftAfterReturn ==
    \A t \in Transfers, w \in Warehouses, s \in SKUs :
        doc[t].status = "RETURNED" =>
            /\ journal[t][w][s].inGood = journal[t][w][s].backGood
            /\ journal[t][w][s].inDefect = journal[t][w][s].backDefect

\* A second trip never writes over the carrier's document of an earlier one
\* (send_transfer's new_attempt): the paid snapshot of the first round stays.
ResendKeepsPickups ==
    [][\A t \in Transfers : rounds'[t] > rounds[t] =>
          \A i \in 1..Len(pickups[t]) :
              i \in 1..Len(pickups'[t]) /\ pickups'[t][i] = pickups[t][i]]_vars

\* Nor does anything else: a document changes only while its own trip is the
\* latest ("one pickup per attempt").
PastTripsKept ==
    [][\A t \in Transfers : \A i \in 1..Len(pickups[t]) :
          pickups'[t][i] # pickups[t][i] => pickups[t][i].trip = rounds[t]]_vars

\* A transfer that travels with a carrier has its document, for this trip's
\* composition and source: what is paid for is what left.
PickupTellsTheTrip ==
    \A t \in Transfers :
        (doc[t].status \in {"SHIPPED", "DELIVERED"} /\ HasLogistics(t)) =>
            LET n == Len(pickups[t]) IN
            /\ n > 0
            /\ pickups[t][n] = NewPickup(t, doc[t], pickups[t][n].trip)

\* Leaving VEHICLE_ASSIGNED for READY clears the vehicle: the composition may
\* be edited again and the agreed price was for the old one.
LeavingTheVehicleClearsIt ==
    [][\A t \in Transfers :
          (doc[t].status = "VEHICLE_ASSIGNED" /\ doc'[t].status = "READY")
              => doc'[t].carrier = NoCarrier]_vars
\* No transfer has been credited at a warehouse it also left from, the case in
\* which _transfer_received_map nets one against the other (see NeverOverPlan).
EndsKeptApart ==
    \A t \in Transfers, w \in Warehouses, s \in SKUs :
        LET j == journal[t][w][s] IN j.out = 0 \/ j.inGood + j.inDefect = 0

UnitsAt(w, s) ==
    LET row == stock[w][s]
    IN  row.quantity + row.defect + row.transit + row.defectTransit

OpenedWith(w, s) == Opening[w][s].good + Opening[w][s].bad

\* Every unit is in exactly one place: on hand in one warehouse or on the road
\* to one.  Four handlers move four balances of two warehouses for this; a
\* clamp that bites, or a portion credited twice, breaks it.
UnitsConserved ==
    EndsKeptApart =>
        \A s \in SKUs :
            Total([w \in Warehouses |-> UnitsAt(w, s)])
              = Total([w \in Warehouses |-> OpenedWith(w, s)]) + adjusted[s]

\* The balance of its receiver's row that a transfer on the road is counted in.
Balance(isDefect) == IF isDefect THEN "defectTransit" ELSE "transit"

\* What transfer t still owes warehouse w in the units of that balance.
Owes(t, w, s, balance) ==
    IF OnTheRoad(t) /\ doc[t].to = w /\ Balance(doc[t].isDefect) = balance
    THEN Remaining(t, s) ELSE 0

\* What a receiver's row shows in transit is what the shipped transfers still
\* owe it, kind by kind: the max(0, ...) of the handlers never hides a gap.
TransitIsOwed ==
    EndsKeptApart =>
        \A w \in Warehouses, s \in SKUs, balance \in {"transit", "defectTransit"} :
            stock[w][s][balance] = Total([t \in Transfers |-> Owes(t, w, s, balance)])
=============================================================================
