------------------------- MODULE StockTransferProofs -------------------------
(***************************************************************************)
(* Proofs about StockTransfer and TransferSync, for every set of transfers,*)
(* warehouses, SKUs, requests and passes, every opening stock and bound.   *)
(*                                                                         *)
(* LandedMatchesStatus is not inductive: an edit may name another receiver,*)
(* so the invariant must speak of every warehouse the transfer never left  *)
(* from, not of its receiver alone (Accounts), and a trip must have two    *)
(* different ends (TwoEnds), or a send would touch its own receiver.       *)
(*                                                                         *)
(* StockTransfer implements Haulage when nobody changes the route of a     *)
(* transfer that has travelled.  Routed says what the condition buys: a    *)
(* transfer has never left from its receiver.  With it the accounts of     *)
(* IInv determine what a counter sees before and after a step, so most     *)
(* handlers need no look at the journal.                                   *)
(*                                                                         *)
(* The totals (Balanced) come last.  A total is the cardinality of a set of*)
(* units, so writing one row changes it by that row's share (TotalWritten).*)
(* On its own neither equation is inductive: a credit or a return takes n  *)
(* off a transit balance by max(0, ...), and only TransitTold says that the*)
(* balance holds n, only AllArrived that a delivered transfer owes nothing.*)
(*                                                                         *)
(* Under TransferSync a step is a step of a handler or the marking of a    *)
(* pass (SyncSteps), and marking only moves transfers with nothing on the  *)
(* road (OnlyMarks): so all this holds there, too.  Where a fact is        *)
(* credited needs more: a pass remembers the link while links and routes   *)
(* go on changing, so WInv says of every candidate and every answer a pass *)
(* holds that its trip has begun, that its receiver is the centre's        *)
(* warehouse still, and that a request taken for closed is closed.  Without*)
(* RerouteAfterTrip = FALSE that is false: a transfer returned, rerouted   *)
(* and sent again is credited on the old candidate.                        *)
(***************************************************************************)
EXTENDS StockTransferRefinement, TransferSync, FiniteSetTheorems, TLAPS

\* A document that exists names two different warehouses.
TwoEnds == \A t \in Transfers : Exists(t) => doc[t].from # doc[t].to

\* The accounts of one transfer with one warehouse for one SKU.
AccountOK(t, w, s) ==
    LET landed == Landed(t, w, s)
        plan   == doc[t].items[s]
    IN  IF w = doc[t].to /\ doc[t].status \in {"SHIPPED", "DELIVERED", "CLOSED"}
        THEN /\ landed \in 0..plan
             /\ doc[t].status = "DELIVERED" => landed = plan
             /\ doc[t].status = "CLOSED"    => landed \in {0, plan}
        ELSE landed = 0

Accounts ==
    \A t \in Transfers, w \in Warehouses, s \in SKUs :
        NeverLeft(t, w, s) => AccountOK(t, w, s)

IInv == TypeOK /\ TwoEnds /\ Accounts

-----------------------------------------------------------------------------
(* The helpers keep the types of rows and documents. *)

\* A function stays in its set when one value is replaced by another of its kind.
LEMMA ExceptTyped ==
    ASSUME NEW S, NEW T, NEW f \in [S -> T], NEW a \in S, NEW v \in T
    PROVE  [f EXCEPT ![a] = v] \in [S -> T]
OBVIOUS

\* _update_stock keeps both balances natural when its guard allows the deltas.
LEMMA AddToTyped ==
    ASSUME NEW row \in StockRow, NEW good \in Int, NEW bad \in Int,
           EnoughFor(row, good, bad)
    PROVE  AddTo(row, good, bad) \in StockRow
  <1>1. /\ row.quantity + good \in Nat
        /\ row.defect + bad \in Nat
    BY DEF EnoughFor, StockRow
  <1> QED
    BY <1>1 DEF AddTo, StockRow

\* What is credited needs no guard.
LEMMA AddNatTyped ==
    ASSUME NEW row \in StockRow, NEW good \in Nat, NEW bad \in Nat
    PROVE  AddTo(row, good, bad) \in StockRow
BY AddToTyped DEF EnoughFor, StockRow

\* Hanging units on the receiver's transit balance, and taking them off again.
LEMMA HangTyped ==
    ASSUME NEW row \in StockRow, NEW isDefect \in BOOLEAN, NEW n \in Nat
    PROVE  Hang(row, isDefect, n) \in StockRow
BY DEF Hang, StockRow

LEMMA UnhangTyped ==
    ASSUME NEW row \in StockRow, NEW isDefect \in BOOLEAN, NEW n \in Int
    PROVE  Unhang(row, isDefect, n) \in StockRow
BY DEF Unhang, Pos, StockRow

\* An existing document with a new status is a document.
LEMMA StatusTyped ==
    ASSUME TypeOK, NEW t \in Transfers, NEW new \in TransferStatus
    PROVE  [doc EXCEPT ![t].status = new] \in [Transfers -> Document]
BY DEF TypeOK, Document

\* What the handlers compute from the journal is a natural number within the plan.
LEMMA RemainingTyped ==
    ASSUME TypeOK, NEW t \in Transfers, NEW s \in SKUs
    PROVE  /\ doc[t].items[s] \in 0..MaxQty
           /\ doc[t].items[s] \in Nat
           /\ Received(t, s) \in Nat
           /\ Remaining(t, s) \in Nat
           /\ Remaining(t, s) <= doc[t].items[s]
  <1>1. /\ doc[t].to \in Warehouses
        /\ doc[t].items[s] \in 0..MaxQty
    BY DEF TypeOK, Document, Quantities
  <1>2. journal[t][doc[t].to][s] \in JournalRow
    BY <1>1 DEF TypeOK
  <1>3. Landed(t, doc[t].to, s) \in Int
    BY <1>2 DEF Landed, JournalRow
  <1>4. Received(t, s) \in Nat
    BY <1>2, <1>3 DEF Received, Pos, JournalRow
  <1> QED
    BY <1>1, <1>4, BoundsAssumption DEF Remaining, Pos

\* From where TRANSFER_TRANSITIONS lets a transfer step to the four statuses
\* whose handlers ask the table and nothing else.
LEMMA TableSteps ==
    ASSUME TypeOK, NEW t \in Transfers
    PROVE  /\ MayBecome(t, "READY") =>
                doc[t].status \in {"PENDING", "IN_PROGRESS", "VEHICLE_ASSIGNED", "RETURNED"}
           /\ MayBecome(t, "DELIVERED") => doc[t].status = "SHIPPED"
           /\ MayBecome(t, "RETURNED") => doc[t].status \in {"SHIPPED", "DELIVERED"}
           /\ MayBecome(t, "CLOSED") => doc[t].status \in {"DELIVERED", "RETURNED"}
  <1>1. MayBecome(t, "READY") \/ MayBecome(t, "DELIVERED") \/ MayBecome(t, "RETURNED")
          \/ MayBecome(t, "CLOSED") => doc[t].status \in TransferStatus
    BY DEF TypeOK, Document, MayBecome, Exists
  <1> QED
    BY <1>1 DEF MayBecome, TRANSFER_TRANSITIONS, TransferStatus

-----------------------------------------------------------------------------
(* The carrier's documents. *)

\* A document written for a transfer that has a carrier.
LEMMA NewPickupTyped ==
    ASSUME NEW d \in Document, d.carrier \in Carriers, NEW t, NEW trip \in Nat
    PROVE  NewPickup(t, d, trip) \in Pickup
BY DEF NewPickup, Document, Pickup

\* Appending an attempt.
LEMMA AppendPickupTyped ==
    ASSUME TypeOK, NEW t \in Transfers, NEW d \in Document, d.carrier \in Carriers,
           NEW trip \in Nat, AppendPickup(t, d, trip)
    PROVE  pickups' \in [Transfers -> Seq(Pickup)]
  <1>1. NewPickup(t, d, trip) \in Pickup
    BY NewPickupTyped
  <1>2. Append(pickups[t], NewPickup(t, d, trip)) \in Seq(Pickup)
    BY <1>1 DEF TypeOK
  <1> QED
    BY <1>2, ExceptTyped DEF TypeOK, AppendPickup

\* Writing over the last attempt.
LEMMA RewriteLastPickupTyped ==
    ASSUME TypeOK, NEW t \in Transfers, NEW d \in Document, d.carrier \in Carriers,
           pickups[t] # <<>>, RewriteLastPickup(t, d)
    PROVE  pickups' \in [Transfers -> Seq(Pickup)]
  <1> DEFINE seq == pickups[t]
             n   == Len(seq)
             new == NewPickup(t, d, seq[n].trip)
  <1>1. seq \in Seq(Pickup) /\ n \in Nat /\ n > 0
    BY DEF TypeOK
  <1>2. seq[n] \in Pickup
    BY <1>1
  <1>3. new \in Pickup
    BY <1>2, NewPickupTyped DEF Pickup
  <1>4. [seq EXCEPT ![n] = new] \in Seq(Pickup)
    BY <1>1, <1>3
  <1>5. pickups' = [pickups EXCEPT ![t] = [seq EXCEPT ![n] = new]]
    BY DEF RewriteLastPickup
  <1> HIDE DEF seq, n, new
  <1> QED
    BY <1>4, <1>5, ExceptTyped DEF TypeOK

-----------------------------------------------------------------------------
(* Steps that move no stock. *)

\* The new document of a step that changes one document and no stock.
QuietDoc(t, d) ==
    /\ doc' = [doc EXCEPT ![t] = d]
    /\ UNCHANGED <<stock, journal, adjusted, rounds>>

Booked == {"SHIPPED", "DELIVERED", "CLOSED"}

\* Before a departure and after a return there is nothing on the account of any
\* warehouse, so the route and the composition may change freely; a closed or a
\* re-priced transfer keeps both.
LEMMA QuietStep ==
    ASSUME IInv, NEW t \in Transfers, NEW d \in Document, QuietDoc(t, d),
           d.from # d.to,
           pickups' \in [Transfers -> Seq(Pickup)], led' \subseteq Transfers,
           \/ d.status \notin Booked /\ doc[t].status \notin Booked
           \/ /\ d.to = doc[t].to /\ d.items = doc[t].items
              /\ \/ d.status = doc[t].status
                 \/ d.status = "CLOSED" /\ doc[t].status \in {"DELIVERED", "RETURNED"}
    PROVE  IInv'
  <1>1. TypeOK'
    BY ExceptTyped DEF IInv, TypeOK, QuietDoc
  <1>2. TwoEnds'
    BY DEF IInv, TypeOK, TwoEnds, Exists, QuietDoc
  <1>3. ASSUME NEW u \in Transfers, NEW w \in Warehouses, NEW s \in SKUs, NeverLeft(u, w, s)'
        PROVE  AccountOK(u, w, s)'
    <2>1. /\ AccountOK(u, w, s)
          /\ Landed(u, w, s)' = Landed(u, w, s)
      BY <1>3 DEF IInv, Accounts, NeverLeft, Landed, QuietDoc
    <2>2. CASE u # t
      BY <2>1, <2>2 DEF QuietDoc, IInv, TypeOK, AccountOK
    <2>3. CASE u = t
      <3>1. doc'[u] = d
        BY <2>3 DEF QuietDoc, IInv, TypeOK
      <3>2. doc[u].items[s] \in Nat /\ Landed(u, w, s) \in Int
        <4>1. journal[u][w][s] \in JournalRow
          BY DEF IInv, TypeOK
        <4>2. Landed(u, w, s) \in Int
          BY <4>1 DEF Landed, JournalRow
        <4>3. doc[u].items[s] \in Nat
          BY RemainingTyped DEF IInv
        <4> QED
          BY <4>2, <4>3
      <3> QED
        BY <2>1, <2>3, <3>1, <3>2 DEF AccountOK, Booked
    <2> QED
      BY <2>2, <2>3
  <1> QED
    BY <1>1, <1>2, <1>3 DEF IInv, Accounts

\* A change of status that moves no stock.
LEMMA QuietStatus ==
    ASSUME IInv, NEW t \in Transfers, NEW new \in TransferStatus,
           SetStatus(t, new), StockKept, UNCHANGED <<pickups, rounds, led>>, Exists(t),
           \/ new \notin Booked /\ doc[t].status \notin Booked
           \/ new = "CLOSED" /\ doc[t].status \in {"DELIVERED", "RETURNED"}
    PROVE  IInv'
  <1> DEFINE d == [doc[t] EXCEPT !.status = new]
  <1>1. doc[t] \in Document
    BY DEF IInv, TypeOK
  <1>2. d \in Document /\ d.status = new /\ d.from = doc[t].from /\ d.to = doc[t].to
        /\ d.items = doc[t].items
    BY <1>1 DEF Document
  <1>3. QuietDoc(t, d)
    BY DEF QuietDoc, SetStatus, StockKept
  <1>4. d.from # d.to
    BY <1>2 DEF IInv, TwoEnds
  <1>5. pickups' \in [Transfers -> Seq(Pickup)] /\ led' \subseteq Transfers
    BY DEF IInv, TypeOK
  <1> HIDE DEF d
  <1> QED
    BY <1>2, <1>3, <1>4, <1>5, QuietStep

\* Everything a user or the aggregator does before departure.
LEMMA PrepareStep ==
    ASSUME IInv, NEW t \in Transfers, Prepare(t)
    PROVE  IInv'
  <1>0. /\ doc[t] \in Document
        /\ pickups \in [Transfers -> Seq(Pickup)] /\ led \subseteq Transfers
        /\ Exists(t) => doc[t].from # doc[t].to
    BY DEF IInv, TypeOK, TwoEnds
  <1>1. ASSUME NEW route \in Routes, NEW items \in Quantities, NEW isDefect \in BOOLEAN,
               Create(t, route, items, isDefect)
        PROVE  IInv'
    <2> DEFINE d == [status |-> "PENDING", from |-> route[1], to |-> route[2],
                     items |-> items, isDefect |-> isDefect, carrier |-> NoCarrier]
    <2>1. d \in Document /\ d.from # d.to /\ d.status \notin Booked
      BY DEF Routes, Document, TransferStatus, Booked
    <2>2. QuietDoc(t, d) /\ doc[t].status \notin Booked
      BY <1>1 DEF QuietDoc, Create, StockKept, Exists, Absent, Booked
    <2>3. pickups' = pickups /\ led' = led
      BY <1>1 DEF Create
    <2> HIDE DEF d
    <2> QED
      BY <1>0, <2>1, <2>2, <2>3, QuietStep
  <1>2. ASSUME NEW route \in Routes, NEW items \in Quantities, NEW isDefect \in BOOLEAN,
               Update(t, route, items, isDefect)
        PROVE  IInv'
    <2> DEFINE d == [doc[t] EXCEPT !.from = route[1], !.to = route[2],
                                   !.items = items, !.isDefect = isDefect]
    <2>1. doc[t].status \notin Booked
      BY <1>2 DEF Update, TRANSFER_EDITABLE_STATUSES, Booked
    <2>2. d \in Document /\ d.from # d.to /\ d.status = doc[t].status
      BY <1>0 DEF Routes, Document
    <2>3. QuietDoc(t, d)
      BY <1>2 DEF QuietDoc, Update, StockKept
    <2>4. pickups' = pickups /\ led' = led
      BY <1>2 DEF Update
    <2> HIDE DEF d
    <2> QED
      BY <1>0, <2>1, <2>2, <2>3, <2>4, QuietStep
  <1>3. CASE MarkReady(t)
    BY <1>3, QuietStatus, TableSteps
    DEF MarkReady, Exists, Absent, TransferStatus, Booked, IInv
  <1>6. ASSUME NEW carrier \in Carriers, ApplyVehicle(t, carrier)
        PROVE  IInv'
    <2> DEFINE d == [doc[t] EXCEPT !.status = "VEHICLE_ASSIGNED", !.carrier = carrier]
    <2>1. doc[t].status \notin Booked /\ Exists(t)
      BY <1>0, <1>6 DEF ApplyVehicle, MayBecome, Exists, Absent, TRANSFER_TRANSITIONS, Booked,
                        TransferStatus, Document
    <2>2. /\ d \in Document /\ d.status \notin Booked
          /\ d.from = doc[t].from /\ d.to = doc[t].to
      BY <1>0 DEF Document, TransferStatus, Booked
    <2>3. QuietDoc(t, d)
      BY <1>6 DEF QuietDoc, ApplyVehicle, StockKept
    <2>4. pickups' = pickups /\ led' = led
      BY <1>6 DEF ApplyVehicle
    <2> HIDE DEF d
    <2> QED
      BY <1>0, <2>1, <2>2, <2>3, <2>4, QuietStep
  <1>7. CASE UnassignVehicle(t)
    <2> DEFINE d == [doc[t] EXCEPT !.status = "READY", !.carrier = NoCarrier]
    <2>1. doc[t].status \notin Booked /\ Exists(t)
      BY <1>7 DEF UnassignVehicle, Exists, Absent, Booked
    <2>2. /\ d \in Document /\ d.status \notin Booked
          /\ d.from = doc[t].from /\ d.to = doc[t].to
      BY <1>0 DEF Document, TransferStatus, Booked
    <2>3. QuietDoc(t, d)
      BY <1>7 DEF QuietDoc, UnassignVehicle, StockKept
    <2>4. pickups' = pickups /\ led' = led
      BY <1>7 DEF UnassignVehicle
    <2> HIDE DEF d
    <2> QED
      BY <1>0, <2>1, <2>2, <2>3, <2>4, QuietStep
  <1>8. CASE Cancel(t)
    BY <1>8, QuietStatus
    DEF Cancel, MayBecome, TransferStatus, TRANSFER_PRE_SHIP_STATUSES, Booked
  <1> QED
    BY <1>1, <1>2, <1>3, <1>6, <1>7, <1>8
    DEF Prepare, AssignVehicle, ApplyGazelka

\* Closing a transfer and pricing a trip after the fact.
LEMMA SettleStep ==
    ASSUME IInv, NEW t \in Transfers, Settle(t)
    PROVE  IInv'
  <1>1. CASE Close(t)
    BY <1>1, QuietStatus, TableSteps DEF Close, Exists, Absent, TransferStatus, IInv
  <1>2. ASSUME NEW carrier \in Carriers, SetLogistics(t, carrier)
        PROVE  IInv'
    <2> DEFINE d == [doc[t] EXCEPT !.carrier = carrier]
    <2>1. doc[t] \in Document /\ Exists(t) /\ doc[t].from # doc[t].to
      BY <1>2 DEF IInv, TypeOK, TwoEnds, SetLogistics, Exists, Absent,
                  TRANSFER_LOGISTICS_RETRO_STATUSES
    <2>2. /\ d \in Document /\ d.status = doc[t].status /\ d.carrier \in Carriers
          /\ d.from = doc[t].from /\ d.to = doc[t].to /\ d.items = doc[t].items
      BY <2>1 DEF Document
    <2>3. QuietDoc(t, d) /\ led' = led
      BY <1>2 DEF QuietDoc, SetLogistics, StockKept
    <2>4. /\ pickups[t] = <<>> => AppendPickup(t, d, rounds[t])
          /\ pickups[t] # <<>> => RewriteLastPickup(t, d)
      BY <1>2 DEF SetLogistics
    <2>5. rounds[t] \in Nat
      BY BoundsAssumption DEF IInv, TypeOK
    <2> HIDE DEF d
    <2>6. pickups' \in [Transfers -> Seq(Pickup)]
      BY <2>2, <2>4, <2>5, AppendPickupTyped, RewriteLastPickupTyped DEF IInv
    <2> QED
      BY <2>1, <2>2, <2>3, <2>6, QuietStep DEF IInv, TypeOK
  <1> QED
    BY <1>1, <1>2 DEF Settle

-----------------------------------------------------------------------------
(* Steps that move stock. *)

\* One account row of one transfer is written, the others are kept.
LEMMA JournalWritten ==
    ASSUME TypeOK, NEW t \in Transfers, NEW w \in Warehouses, NEW row \in [SKUs -> JournalRow],
           journal' = [journal EXCEPT ![t][w] = row]
    PROVE  /\ journal' \in [Transfers -> [Warehouses -> [SKUs -> JournalRow]]]
           /\ \A u \in Transfers, v \in Warehouses, s \in SKUs :
                journal'[u][v][s] = IF u = t /\ v = w THEN row[s] ELSE journal[u][v][s]
  <1> DEFINE mine == [journal[t] EXCEPT ![w] = row]
  <1>1. journal[t] \in [Warehouses -> [SKUs -> JournalRow]]
    BY DEF TypeOK
  <1>2. mine \in [Warehouses -> [SKUs -> JournalRow]]
    BY <1>1, ExceptTyped
  <1>3. journal' = [journal EXCEPT ![t] = mine]
    OBVIOUS
  <1>4. journal' \in [Transfers -> [Warehouses -> [SKUs -> JournalRow]]]
    <2> HIDE DEF mine
    <2> QED
      BY <1>2, <1>3, ExceptTyped DEF TypeOK
  <1>5. \A v \in Warehouses : mine[v] = IF v = w THEN row ELSE journal[t][v]
    BY <1>1
  <1>6. \A u \in Transfers : journal'[u] = IF u = t THEN mine ELSE journal[u]
    BY <1>3 DEF TypeOK
  <1> HIDE DEF mine
  <1> QED
    BY <1>4, <1>5, <1>6

\* The rows of one warehouse, or of two different ones, are written.
LEMMA StockWritten ==
    ASSUME TypeOK, NEW a \in Warehouses, NEW b \in Warehouses,
           NEW rowA \in [SKUs -> StockRow], NEW rowB \in [SKUs -> StockRow]
    PROVE  [stock EXCEPT ![a] = rowA, ![b] = rowB] \in [Warehouses -> [SKUs -> StockRow]]
  <1> DEFINE first == [stock EXCEPT ![a] = rowA]
  <1>1. first \in [Warehouses -> [SKUs -> StockRow]]
    BY ExceptTyped DEF TypeOK
  <1>2. [first EXCEPT ![b] = rowB] \in [Warehouses -> [SKUs -> StockRow]]
    BY <1>1, ExceptTyped
  <1> QED
    BY <1>2

\* Movements at the receiver keep an account's type and what has left it.
LEMMA BookTyped ==
    ASSUME NEW j \in JournalRow, NEW m \in Nat, NEW n \in Nat
    PROVE  /\ BookOut(j, m) \in JournalRow
           /\ BookIn(j, m, n) \in JournalRow /\ BookIn(j, m, n).out = j.out
           /\ BookBack(j, m, n) \in JournalRow /\ BookBack(j, m, n).out = j.out
  <1>0. /\ j.inGood + m \in Nat /\ j.inDefect + n \in Nat
        /\ j.backGood + m \in Nat /\ j.backDefect + n \in Nat
    BY DEF JournalRow
  <1>1. BookOut(j, m) \in JournalRow
    BY DEF JournalRow, BookOut
  <1>2. BookIn(j, m, n) \in JournalRow
    BY <1>0 DEF JournalRow, BookIn
  <1>3. BookIn(j, m, n).out = j.out
    BY DEF JournalRow, BookIn
  <1>4. BookBack(j, m, n) \in JournalRow
    BY <1>0 DEF JournalRow, BookBack
  <1>5. BookBack(j, m, n).out = j.out
    BY DEF JournalRow, BookBack
  <1> QED
    BY <1>1, <1>2, <1>3, <1>4, <1>5

\* What the account of a transfer with a warehouse says is a number.
LEMMA LandedTyped ==
    ASSUME TypeOK, NEW t \in Transfers, NEW w \in Warehouses, NEW s \in SKUs
    PROVE  Landed(t, w, s) \in Int
  <1>1. journal[t][w][s] \in JournalRow
    BY DEF TypeOK
  <1> QED
    BY <1>1 DEF Landed, JournalRow

\* A receiver the transfer never left from: the clamps of the handlers do
\* nothing, and what remains of the plan is the plan less what has landed.
LEMMA ReceivedIsLanded ==
    ASSUME IInv, NEW t \in Transfers, NEW s \in SKUs, NeverLeft(t, doc[t].to, s),
           doc[t].status \in {"SHIPPED", "DELIVERED"}
    PROVE  /\ Landed(t, doc[t].to, s) \in Nat
           /\ Landed(t, doc[t].to, s) <= doc[t].items[s]
           /\ Received(t, s) = Landed(t, doc[t].to, s)
           /\ Remaining(t, s) = doc[t].items[s] - Landed(t, doc[t].to, s)
  <1>1. doc[t].to \in Warehouses /\ doc[t].items[s] \in Nat
    BY RemainingTyped DEF IInv, TypeOK, Document
  <1>2. Landed(t, doc[t].to, s) \in 0..doc[t].items[s]
    BY <1>1 DEF IInv, Accounts, AccountOK
  <1> HIDE DEF IInv
  <1> QED
    BY <1>1, <1>2 DEF Received, Remaining, Pos, NeverLeft

\* A step of the trip writes one account row and sets the status; only the
\* accounts of that warehouse and of the receiver are in question.
LEMMA TripStep ==
    ASSUME IInv, NEW t \in Transfers, NEW w \in Warehouses, NEW new \in TransferStatus,
           NEW row \in [SKUs -> JournalRow],
           Exists(t), SetStatus(t, new), journal' = [journal EXCEPT ![t][w] = row],
           stock' \in [Warehouses -> [SKUs -> StockRow]],
           pickups' \in [Transfers -> Seq(Pickup)],
           rounds' \in [Transfers -> 0..MaxRounds],
           UNCHANGED <<adjusted, led>>,
           \A v \in {w, doc[t].to}, s \in SKUs : NeverLeft(t, v, s)' => AccountOK(t, v, s)'
    PROVE  IInv'
  <1>1. TypeOK /\ TwoEnds
    BY DEF IInv
  <1>2. doc' \in [Transfers -> Document]
    BY <1>1, StatusTyped DEF SetStatus
  <1>3. TypeOK'
    BY <1>1, <1>2, JournalWritten DEF TypeOK
  <1>4. \A u \in Transfers : /\ u # t => doc'[u] = doc[u]
                             /\ doc'[u].from = doc[u].from /\ doc'[u].to = doc[u].to
    BY <1>1 DEF SetStatus, TypeOK, Document
  <1>5. TwoEnds'
    BY <1>1, <1>4 DEF TwoEnds, Exists
  <1>6. ASSUME NEW u \in Transfers, NEW v \in Warehouses, NEW s \in SKUs, NeverLeft(u, v, s)'
        PROVE  AccountOK(u, v, s)'
    <2>1. CASE u = t /\ v \in {w, doc[t].to}
      BY <1>6, <2>1
    <2>2. CASE ~(u = t /\ v \in {w, doc[t].to})
      <3>1. journal'[u][v][s] = journal[u][v][s]
        BY <1>1, <2>2, JournalWritten
      <3>2. AccountOK(u, v, s) /\ Landed(u, v, s)' = Landed(u, v, s)
        BY <1>6, <3>1 DEF IInv, Accounts, NeverLeft, Landed
      <3>3. CASE u # t
        BY <1>4, <3>2, <3>3 DEF AccountOK
      <3>4. CASE u = t
        BY <1>4, <2>2, <3>2, <3>4 DEF AccountOK
      <3> QED
        BY <3>3, <3>4
    <2> QED
      BY <2>1, <2>2
  <1> QED
    BY <1>3, <1>5, <1>6 DEF IInv, Accounts

\* send_transfer: the source has now been left, so nothing is claimed of it;
\* nothing has landed at the receiver yet.
LEMMA SendStep ==
    ASSUME IInv, NEW t \in Transfers, NEW noLogistics \in BOOLEAN,
           Send(t, TransferStatus, noLogistics)
    PROVE  IInv'
  <1> DEFINE d == doc[t]
             left == [s \in SKUs |-> AddTo(stock[d.from][s], AsGood(d.isDefect, -d.items[s]),
                                                             AsDefect(d.isDefect, -d.items[s]))]
             hung == [s \in SKUs |-> Hang(stock[d.to][s], d.isDefect, d.items[s])]
             row  == [s \in SKUs |-> BookOut(journal[t][d.from][s], d.items[s])]
  <1>0. TypeOK /\ Exists(t) /\ d.status \in {"READY", "VEHICLE_ASSIGNED"}
    BY DEF IInv, Send, TRANSFER_SEND_FROM, Exists, Absent
  <1>1. /\ d \in Document /\ d.from # d.to
        /\ d.from \in Warehouses /\ d.to \in Warehouses /\ d.isDefect \in BOOLEAN
        /\ \A s \in SKUs : d.items[s] \in Nat
    BY <1>0, RemainingTyped DEF IInv, TypeOK, TwoEnds, Document
  <1>2. left \in [SKUs -> StockRow]
    <2>1. ASSUME NEW s \in SKUs
          PROVE  left[s] \in StockRow
      <3>1. stock[d.from][s] \in StockRow
        BY <1>0, <1>1 DEF TypeOK
      <3>2. EnoughFor(stock[d.from][s], AsGood(d.isDefect, -d.items[s]),
                                        AsDefect(d.isDefect, -d.items[s]))
        BY DEF Send
      <3>3. /\ AsGood(d.isDefect, -d.items[s]) \in Int
            /\ AsDefect(d.isDefect, -d.items[s]) \in Int
        BY <1>1 DEF AsGood, AsDefect
      <3> HIDE DEF d
      <3> QED
        BY <3>1, <3>2, <3>3, AddToTyped
    <2> QED
      BY <2>1
  <1>3. hung \in [SKUs -> StockRow]
    BY <1>0, <1>1, HangTyped DEF TypeOK
  <1>4. row \in [SKUs -> JournalRow]
    <2>1. ASSUME NEW s \in SKUs
          PROVE  row[s] \in JournalRow
      <3>1. journal[t][d.from][s] \in JournalRow /\ d.items[s] \in Nat
        BY <1>0, <1>1 DEF TypeOK
      <3> HIDE DEF d
      <3> QED
        BY <3>1 DEF JournalRow, BookOut
    <2> QED
      BY <2>1
  <1>5. stock' = [stock EXCEPT ![d.from] = left, ![d.to] = hung]
    BY <1>0, <1>1 DEF Send, TypeOK
  <1>6. journal' = [journal EXCEPT ![t][d.from] = row]
    BY DEF Send
  <1>7. /\ SetStatus(t, "SHIPPED") /\ "SHIPPED" \in TransferStatus
        /\ UNCHANGED <<adjusted, led>>
    BY DEF Send, TransferStatus
  <1>8. rounds' \in [Transfers -> 0..MaxRounds]
    <2>1. rounds[t] \in 0..MaxRounds /\ rounds[t] < MaxRounds
      BY <1>0 DEF Send, TypeOK
    <2>2. rounds[t] + 1 \in 0..MaxRounds
      BY <2>1, BoundsAssumption
    <2> QED
      BY <1>0, <2>2, ExceptTyped DEF Send, TypeOK
  <1>9. pickups' \in [Transfers -> Seq(Pickup)]
    <2>1. CASE HasLogistics(t)
      <3>1. d.carrier \in Carriers /\ rounds[t] + 1 \in Nat
        BY <1>0, <1>1, <2>1, BoundsAssumption DEF HasLogistics, Document, TypeOK
      <3> QED
        BY <1>0, <1>1, <2>1, <3>1, AppendPickupTyped DEF Send
    <2>2. CASE ~HasLogistics(t)
      BY <1>0, <2>2 DEF Send, TypeOK
    <2> QED
      BY <2>1, <2>2
  <1>10. stock' \in [Warehouses -> [SKUs -> StockRow]]
    BY <1>0, <1>1, <1>2, <1>3, <1>5, StockWritten
  <1>11. doc'[t].status = "SHIPPED" /\ doc'[t].to = d.to /\ doc'[t].items = d.items
    BY <1>0, <1>1, <1>7 DEF SetStatus, TypeOK, Document
  <1>12. ASSUME NEW v \in {d.from, d.to}, NEW s \in SKUs, NeverLeft(t, v, s)'
         PROVE  AccountOK(t, v, s)'
    <2>1. v \in Warehouses /\ journal[t][v][s] \in JournalRow
      BY <1>0, <1>1 DEF TypeOK
    <2>2. journal'[t][v][s] = IF v = d.from THEN row[s] ELSE journal[t][v][s]
      BY <1>0, <1>1, <1>4, <1>6, <2>1, JournalWritten
    <2>3. /\ NeverLeft(t, v, s)
          /\ Landed(t, v, s)' = Landed(t, v, s)
          /\ Landed(t, v, s) = 0
      <3>1. journal'[t][v][s].out >= journal[t][v][s].out
        BY <1>1, <2>1, <2>2 DEF JournalRow, BookOut
      <3>2. NeverLeft(t, v, s)
        BY <1>12, <2>1, <3>1 DEF NeverLeft, JournalRow
      <3>3. Landed(t, v, s)' = Landed(t, v, s)
        BY <2>1, <2>2 DEF Landed, JournalRow, BookOut
      <3>4. Landed(t, v, s) = 0
        BY <1>0, <2>1, <3>2 DEF IInv, Accounts, AccountOK
      <3> QED
        BY <3>2, <3>3, <3>4
    <2> QED
      BY <1>1, <1>11, <2>3 DEF AccountOK
  <1> HIDE DEF d, left, hung, row
  <1> QED
    BY <1>0, <1>1, <1>4, <1>6, <1>7, <1>8, <1>9, <1>10, <1>12, TripStep DEF d

\* Credit of a part of what remains, or of all of it on delivery.
LEMMA CreditStep ==
    ASSUME IInv, NEW t \in Transfers, NEW new \in {"SHIPPED", "DELIVERED"},
           NEW good \in [SKUs -> Nat], NEW bad \in [SKUs -> Nat],
           doc[t].status = "SHIPPED", SetStatus(t, new), Credit(t, good, bad),
           \A s \in SKUs : /\ good[s] + bad[s] <= Remaining(t, s)
                           /\ new = "DELIVERED" => good[s] + bad[s] = Remaining(t, s)
    PROVE  IInv'
  <1> DEFINE d   == doc[t]
             put == [s \in SKUs |-> Unhang(AddTo(stock[d.to][s], good[s], bad[s]),
                                           d.isDefect, good[s] + bad[s])]
             row == [s \in SKUs |-> BookIn(journal[t][d.to][s], good[s], bad[s])]
  <1>0. TypeOK /\ Exists(t) /\ new \in TransferStatus
    BY DEF IInv, Exists, Absent, TransferStatus
  <1>1. /\ d \in Document /\ d.to \in Warehouses /\ d.isDefect \in BOOLEAN
        /\ \A s \in SKUs : d.items[s] \in Nat
    BY <1>0, RemainingTyped DEF TypeOK, Document
  <1>2. put \in [SKUs -> StockRow]
    <2>1. ASSUME NEW s \in SKUs
          PROVE  put[s] \in StockRow
      <3>1. stock[d.to][s] \in StockRow /\ good[s] \in Nat /\ bad[s] \in Nat
        BY <1>0, <1>1 DEF TypeOK
      <3>2. AddTo(stock[d.to][s], good[s], bad[s]) \in StockRow
        BY <3>1, AddNatTyped
      <3> HIDE DEF d
      <3> QED
        BY <1>1, <3>1, <3>2, UnhangTyped
    <2> QED
      BY <2>1
  <1>3. row \in [SKUs -> JournalRow]
    <2>1. ASSUME NEW s \in SKUs
          PROVE  row[s] \in JournalRow
      <3>1. journal[t][d.to][s] \in JournalRow /\ good[s] \in Nat /\ bad[s] \in Nat
        BY <1>0, <1>1 DEF TypeOK
      <3>2. row[s] = BookIn(journal[t][d.to][s], good[s], bad[s])
        OBVIOUS
      <3> HIDE DEF d, row
      <3> QED
        BY <3>1, <3>2, BookTyped
    <2> QED
      BY <2>1
  <1>4. /\ stock' = [stock EXCEPT ![d.to] = put]
        /\ journal' = [journal EXCEPT ![t][d.to] = row]
        /\ UNCHANGED <<adjusted, pickups, rounds, led>>
    BY DEF Credit
  <1>5. stock' \in [Warehouses -> [SKUs -> StockRow]]
    BY <1>0, <1>1, <1>2, <1>4, ExceptTyped DEF TypeOK
  <1>6. doc'[t].status = new /\ doc'[t].to = d.to /\ doc'[t].items = d.items
    BY <1>0, <1>1 DEF SetStatus, TypeOK, Document
  <1>7. ASSUME NEW v \in {d.to}, NEW s \in SKUs, NeverLeft(t, v, s)'
        PROVE  AccountOK(t, v, s)'
    <2>1. journal[t][v][s] \in JournalRow /\ good[s] \in Nat /\ bad[s] \in Nat
      BY <1>0, <1>1 DEF TypeOK
    <2>2. journal'[t][v][s] = BookIn(journal[t][v][s], good[s], bad[s])
      <3>1. row[s] = BookIn(journal[t][v][s], good[s], bad[s])
        OBVIOUS
      <3>2. v = d.to
        OBVIOUS
      <3> HIDE DEF row, put, d
      <3>3. journal'[t][d.to][s] = row[s]
        BY <1>0, <1>1, <1>3, <1>4, JournalWritten
      <3> QED
        BY <3>1, <3>2, <3>3
    <2>3. NeverLeft(t, v, s)
      <3>1. BookIn(journal[t][v][s], good[s], bad[s]).out = journal[t][v][s].out
        BY <2>1, BookTyped
      <3> HIDE DEF row, put
      <3> QED
        BY <1>7, <2>2, <3>1 DEF NeverLeft
    <2>4. /\ Landed(t, v, s) \in Nat
          /\ Landed(t, v, s) <= d.items[s]
          /\ Remaining(t, s) = d.items[s] - Landed(t, v, s)
      BY <2>3, ReceivedIsLanded
    <2>5. Landed(t, v, s)' = Landed(t, v, s) + good[s] + bad[s]
      BY <2>1, <2>2 DEF Landed, JournalRow, BookIn
    <2>6. /\ Landed(t, v, s)' \in 0..d.items[s]
          /\ new = "DELIVERED" => Landed(t, v, s)' = d.items[s]
      <3> HIDE DEF d
      <3> QED
        BY <1>1, <2>1, <2>4, <2>5
    <2> QED
      BY <1>6, <2>6 DEF AccountOK
  <1>8. pickups' \in [Transfers -> Seq(Pickup)] /\ rounds' \in [Transfers -> 0..MaxRounds]
    BY <1>0, <1>4 DEF TypeOK
  <1>9. \A v \in {d.to, doc[t].to}, s \in SKUs : NeverLeft(t, v, s)' => AccountOK(t, v, s)'
    BY <1>7
  <1> HIDE DEF d, put, row
  <1> QED
    BY <1>0, <1>1, <1>3, <1>4, <1>5, <1>8, <1>9, TripStep

\* return_transfer: all that has landed is taken off again.
LEMMA ReturnStep ==
    ASSUME IInv, NEW t \in Transfers, ReturnTransfer(t)
    PROVE  IInv'
  <1> DEFINE d     == doc[t]
             taken == [s \in SKUs |-> Lesser(Received(t, s), d.items[s])]
             off   == [s \in SKUs |-> AsGood(d.isDefect, -taken[s])]
             offD  == [s \in SKUs |-> AsDefect(d.isDefect, -taken[s])]
             there == [s \in SKUs |-> Unhang(AddTo(stock[d.to][s], off[s], offD[s]), d.isDefect,
                                             Pos(d.items[s] - taken[s]))]
             home  == [s \in SKUs |-> AddTo(stock[d.from][s], AsGood(d.isDefect, d.items[s]),
                                                              AsDefect(d.isDefect, d.items[s]))]
             row   == [s \in SKUs |-> BookBack(journal[t][d.to][s], -off[s], -offD[s])]
  <1>0. TypeOK /\ Exists(t) /\ d.status \in {"SHIPPED", "DELIVERED"}
    BY TableSteps DEF IInv, ReturnTransfer, Exists, Absent
  <1>1. /\ d \in Document /\ d.from # d.to
        /\ d.from \in Warehouses /\ d.to \in Warehouses /\ d.isDefect \in BOOLEAN
    BY <1>0 DEF IInv, TypeOK, TwoEnds, Document
  <1>2. \A s \in SKUs : /\ d.items[s] \in Nat /\ taken[s] \in Nat
                        /\ off[s] \in Int /\ offD[s] \in Int
                        /\ -off[s] \in Nat /\ -offD[s] \in Nat
                        /\ -off[s] + -offD[s] = taken[s]
    <2>1. ASSUME NEW s \in SKUs
          PROVE  d.items[s] \in Nat /\ Received(t, s) \in Nat
      BY <1>0, RemainingTyped
    <2> HIDE DEF d
    <2> QED
      BY <1>1, <2>1 DEF Lesser, AsGood, AsDefect
  <1>3. there \in [SKUs -> StockRow]
    <2>1. ASSUME NEW s \in SKUs
          PROVE  there[s] \in StockRow
      <3>1. stock[d.to][s] \in StockRow
        BY <1>0, <1>1 DEF TypeOK
      <3>2. EnoughFor(stock[d.to][s], off[s], offD[s])
        BY DEF ReturnTransfer
      <3> HIDE DEF d, off, offD, taken
      <3>3. AddTo(stock[d.to][s], off[s], offD[s]) \in StockRow
        BY <1>2, <3>1, <3>2, AddToTyped
      <3>4. Pos(d.items[s] - taken[s]) \in Int
        BY <1>2 DEF Pos
      <3> QED
        BY <1>1, <3>3, <3>4, UnhangTyped
    <2> QED
      BY <2>1
  <1>4. home \in [SKUs -> StockRow]
    <2>1. ASSUME NEW s \in SKUs
          PROVE  home[s] \in StockRow
      <3>1. stock[d.from][s] \in StockRow
        BY <1>0, <1>1 DEF TypeOK
      <3>2. AsGood(d.isDefect, d.items[s]) \in Nat /\ AsDefect(d.isDefect, d.items[s]) \in Nat
        BY <1>2 DEF AsGood, AsDefect
      <3> HIDE DEF d
      <3> QED
        BY <3>1, <3>2, AddNatTyped
    <2> QED
      BY <2>1
  <1>5. row \in [SKUs -> JournalRow]
    <2>1. ASSUME NEW s \in SKUs
          PROVE  row[s] \in JournalRow
      <3>1. journal[t][d.to][s] \in JournalRow
        BY <1>0, <1>1 DEF TypeOK
      <3>2. row[s] = BookBack(journal[t][d.to][s], -off[s], -offD[s])
        OBVIOUS
      <3>3. -off[s] \in Nat /\ -offD[s] \in Nat
        BY <1>2
      <3> HIDE DEF d, taken, off, offD, row
      <3> QED
        BY <3>1, <3>2, <3>3, BookTyped
    <2> QED
      BY <2>1 DEF row
  <1>6. /\ stock' = [stock EXCEPT ![d.to] = there, ![d.from] = home]
        /\ SetStatus(t, "RETURNED") /\ "RETURNED" \in TransferStatus
        /\ UNCHANGED <<adjusted, pickups, rounds, led>>
    BY <1>0, <1>1 DEF ReturnTransfer, TypeOK, TransferStatus
  <1>7. journal' = [journal EXCEPT ![t][d.to] = row]
    BY DEF ReturnTransfer
  <1> HIDE DEF there, home, row
  <1>8. stock' \in [Warehouses -> [SKUs -> StockRow]]
    BY <1>0, <1>1, <1>3, <1>4, <1>6, StockWritten
  <1>9. doc'[t].status = "RETURNED" /\ doc'[t].to = d.to
    BY <1>0, <1>1, <1>6 DEF SetStatus, TypeOK, Document
  <1>10. ASSUME NEW v \in {d.to}, NEW s \in SKUs, NeverLeft(t, v, s)'
         PROVE  AccountOK(t, v, s)'
    <2>1. journal[t][v][s] \in JournalRow
      BY <1>0, <1>1 DEF TypeOK
    <2>2. journal'[t][v][s] = BookBack(journal[t][v][s], -off[s], -offD[s])
      <3> HIDE DEF off, offD
      <3> QED
        BY <1>0, <1>1, <1>5, <1>7, JournalWritten DEF row
    <2>3. NeverLeft(t, v, s)
      <3> HIDE DEF off, offD
      <3>1. BookBack(journal[t][v][s], -off[s], -offD[s]).out = journal[t][v][s].out
        BY <1>2, <2>1, BookTyped
      <3> QED
        BY <1>10, <2>2, <3>1 DEF NeverLeft
    <2>4. /\ Landed(t, v, s) \in Nat
          /\ Landed(t, v, s) <= d.items[s]
          /\ Received(t, s) = Landed(t, v, s)
      BY <1>0, <2>3, ReceivedIsLanded
    <2>5. taken[s] = Landed(t, v, s)
      <3>1. taken[s] = Lesser(Received(t, s), d.items[s])
        OBVIOUS
      <3> HIDE DEF d, taken
      <3> QED
        BY <1>2, <2>4, <3>1 DEF Lesser
    <2> HIDE DEF d, off, offD, taken
    <2>6. Landed(t, v, s)' = Landed(t, v, s) - (-off[s] + -offD[s])
      BY <1>2, <2>1, <2>2 DEF Landed, JournalRow, BookBack
    <2>7. Landed(t, v, s)' = 0
      BY <1>2, <2>4, <2>5, <2>6
    <2> QED
      BY <1>9, <2>7 DEF AccountOK
  <1>11. pickups' \in [Transfers -> Seq(Pickup)] /\ rounds' \in [Transfers -> 0..MaxRounds]
    BY <1>0, <1>6 DEF TypeOK
  <1>12. \A v \in {d.to, doc[t].to}, s \in SKUs : NeverLeft(t, v, s)' => AccountOK(t, v, s)'
    BY <1>10
  <1> HIDE DEF d, taken, off, offD
  <1> QED
    BY <1>0, <1>1, <1>5, <1>6, <1>7, <1>8, <1>11, <1>12, TripStep

\* A step of the trip, whichever handler takes it.
LEMMA TravelStep ==
    ASSUME IInv, NEW t \in Transfers, Travel(t)
    PROVE  IInv'
  <1>0. /\ TypeOK
        /\ doc[t].isDefect \in BOOLEAN
        /\ \A s \in SKUs : Remaining(t, s) \in Nat
    BY RemainingTyped DEF IInv, TypeOK, Document
  <1>1. ASSUME NEW noLogistics \in BOOLEAN, Send(t, TransferStatus, noLogistics)
        PROVE  IInv'
    BY <1>1, SendStep
  <1>2. CASE Complete(t)
    <2> DEFINE take == [s \in SKUs |-> Remaining(t, s)]
               good == [s \in SKUs |-> AsGood(doc[t].isDefect, take[s])]
               bad  == [s \in SKUs |-> AsDefect(doc[t].isDefect, take[s])]
    <2>1. Credit(t, good, bad) /\ SetStatus(t, "DELIVERED")
      BY <1>2 DEF Complete
    <2>2. doc[t].status = "SHIPPED"
      BY <1>0, <1>2, TableSteps DEF Complete
    <2>3. /\ good \in [SKUs -> Nat] /\ bad \in [SKUs -> Nat]
          /\ \A s \in SKUs : good[s] + bad[s] = Remaining(t, s)
      BY <1>0 DEF AsGood, AsDefect
    <2> HIDE DEF take, good, bad
    <2>4. \A s \in SKUs : good[s] + bad[s] <= Remaining(t, s)
      BY <1>0, <2>3
    <2> QED
      BY <2>1, <2>2, <2>3, <2>4, CreditStep
  <1>3. CASE ReturnTransfer(t)
    BY <1>3, ReturnStep
  <1> QED
    BY <1>1, <1>2, <1>3 DEF Travel

\* A step on a fulfilment centre's word.
LEMMA FfReportsStep ==
    ASSUME IInv, NEW t \in Transfers, FfReports(t)
    PROVE  IInv'
  <1>0. /\ TypeOK
        /\ doc[t].isDefect \in BOOLEAN
        /\ \A s \in SKUs : Remaining(t, s) \in Nat
    BY RemainingTyped DEF IInv, TypeOK, Document
  <1>1. CASE FfTakesUp(t)
    BY <1>1, QuietStatus DEF FfTakesUp, Exists, Absent, TransferStatus, Booked
  <1>2. CASE FfAssembled(t)
    BY <1>2, QuietStatus DEF FfAssembled, Exists, Absent, TransferStatus, Booked
  <1>3. ASSUME NEW fact \in Quantities, NEW flaws \in Quantities, ReceiveFact(t, fact, flaws)
        PROVE  IInv'
    <2> DEFINE taken == [s \in SKUs |-> TakeGood(t, fact, s) + TakeBad(t, fact, flaws, s)]
               good  == [s \in SKUs |-> IF doc[t].isDefect THEN 0 ELSE TakeGood(t, fact, s)]
               bad   == [s \in SKUs |-> IF doc[t].isDefect THEN taken[s]
                                                           ELSE TakeBad(t, fact, flaws, s)]
               done  == \A s \in SKUs : taken[s] = Remaining(t, s)
               new   == IF done THEN "DELIVERED" ELSE "SHIPPED"
    <2>1. /\ Credit(t, good, bad) /\ doc[t].status = "SHIPPED"
          /\ doc' = IF done THEN [doc EXCEPT ![t].status = "DELIVERED"] ELSE doc
      BY <1>3 DEF ReceiveFact
    <2>2. ASSUME NEW s \in SKUs
          PROVE  /\ TakeGood(t, fact, s) \in Nat /\ TakeBad(t, fact, flaws, s) \in Nat
                 /\ TakeGood(t, fact, s) + TakeBad(t, fact, flaws, s) <= Remaining(t, s)
      <3>1. fact[s] \in Nat /\ flaws[s] \in Nat /\ Remaining(t, s) \in Nat
        BY <1>0, BoundsAssumption DEF Quantities
      <3> QED
        BY <3>1 DEF TakeGood, TakeBad, Lesser
    <2>3. /\ good \in [SKUs -> Nat] /\ bad \in [SKUs -> Nat]
          /\ \A s \in SKUs : good[s] + bad[s] = taken[s] /\ taken[s] <= Remaining(t, s)
      BY <1>0, <2>2
    <2>4. SetStatus(t, new) /\ new \in {"SHIPPED", "DELIVERED"}
      <3>1. doc \in [Transfers -> Document]
        BY <1>0 DEF TypeOK
      <3>2. doc = [doc EXCEPT ![t].status = "SHIPPED"]
        BY <2>1, <3>1 DEF Document
      <3> HIDE DEF done
      <3> QED
        BY <2>1, <3>2 DEF SetStatus
    <2>5. new = "DELIVERED" => \A s \in SKUs : good[s] + bad[s] = Remaining(t, s)
      <3>1. done => \A s \in SKUs : good[s] + bad[s] = Remaining(t, s)
        BY <2>3
      <3> HIDE DEF done, good, bad
      <3> QED
        BY <3>1
    <2>6. \A s \in SKUs : good[s] + bad[s] <= Remaining(t, s)
      BY <2>3
    <2> HIDE DEF taken, good, bad, done, new
    <2> QED
      BY <2>1, <2>3, <2>4, <2>5, <2>6, CreditStep
  <1> QED
    BY <1>1, <1>2, <1>3 DEF FfReports

\* Steps that touch no document and no account.
LEMMA OtherStep ==
    ASSUME IInv, UNCHANGED <<doc, journal, pickups, rounds>>,
           stock' \in [Warehouses -> [SKUs -> StockRow]], adjusted' \in [SKUs -> Int],
           led' \subseteq Transfers
    PROVE  IInv'
BY DEF IInv, TypeOK, TwoEnds, Exists, Accounts, AccountOK, NeverLeft, Landed

LEMMA AdjustStep ==
    ASSUME IInv, NEW w \in Warehouses, NEW s \in SKUs, NEW delta \in Corrections,
           Adjust(w, s, delta)
    PROVE  IInv'
  <1>1. /\ stock \in [Warehouses -> [SKUs -> StockRow]]
        /\ stock[w] \in [SKUs -> StockRow] /\ stock[w][s] \in StockRow
        /\ adjusted \in [SKUs -> Int] /\ adjusted[s] + delta \in Int /\ delta \in Int
    BY CorrectionsAssumption DEF IInv, TypeOK
  <1>2. AddTo(stock[w][s], delta, 0) \in StockRow
    BY <1>1, AddToTyped DEF Adjust
  <1>3. [stock[w] EXCEPT ![s] = AddTo(stock[w][s], delta, 0)] \in [SKUs -> StockRow]
    BY <1>1, <1>2, ExceptTyped
  <1>4. stock' = [stock EXCEPT ![w] = [stock[w] EXCEPT ![s] = AddTo(stock[w][s], delta, 0)]]
    BY DEF Adjust
  <1>5. stock' \in [Warehouses -> [SKUs -> StockRow]]
    BY <1>1, <1>3, <1>4, ExceptTyped
  <1>6. adjusted' \in [SKUs -> Int]
    BY <1>1, ExceptTyped DEF Adjust
  <1>7. led' \subseteq Transfers /\ UNCHANGED <<doc, journal, pickups, rounds>>
    BY DEF Adjust, IInv, TypeOK
  <1> QED
    BY <1>5, <1>6, <1>7, OtherStep

-----------------------------------------------------------------------------
(* The invariant. *)

\* Before the first transfer there is nothing on any account.
LEMMA InitInv == Init => IInv
  <1> SUFFICES ASSUME Init PROVE IInv
    OBVIOUS
  <1> DEFINE any == CHOOSE w \in Warehouses : TRUE
             blank == [status |-> Absent, from |-> any, to |-> any, items |-> Nothing,
                       isDefect |-> FALSE, carrier |-> NoCarrier]
             zeros == [out |-> 0, inGood |-> 0, inDefect |-> 0, backGood |-> 0, backDefect |-> 0]
  <1>1. any \in Warehouses
    BY WarehousesAssumption
  <1>2. Nothing \in Quantities
    BY BoundsAssumption DEF Nothing, Quantities
  <1>3. blank \in Document
    BY <1>1, <1>2 DEF Document
  <1>4. \A t \in Transfers : doc[t] = blank
    BY DEF Init
  <1>5. \A t \in Transfers, w \in Warehouses, s \in SKUs : journal[t][w][s] = zeros
    BY DEF Init
  <1>6. zeros \in JournalRow
    BY DEF JournalRow
  <1>7. doc \in [Transfers -> Document]
    BY <1>3 DEF Init
  <1>8. stock \in [Warehouses -> [SKUs -> StockRow]]
    BY OpeningAssumption DEF Init, StockRow
  <1>9. journal \in [Transfers -> [Warehouses -> [SKUs -> JournalRow]]]
    BY <1>6 DEF Init
  <1>10. /\ adjusted \in [SKUs -> Int]
         /\ pickups \in [Transfers -> Seq(Pickup)]
         /\ rounds \in [Transfers -> 0..MaxRounds]
         /\ led \subseteq Transfers
    BY BoundsAssumption DEF Init, Nothing
  <1>11. TypeOK
    BY <1>7, <1>8, <1>9, <1>10 DEF TypeOK
  <1>12. \A t \in Transfers : doc[t].status = Absent
    <2>1. blank.status = Absent
      OBVIOUS
    <2> HIDE DEF blank
    <2> QED
      BY <1>4, <2>1
  <1>13. \A t \in Transfers, w \in Warehouses, s \in SKUs : Landed(t, w, s) = 0
    BY <1>5 DEF Landed
  <1>14. TwoEnds
    BY <1>12 DEF TwoEnds, Exists
  <1>15. Accounts
    <2> HIDE DEF any, blank, zeros
    <2> QED
      BY <1>12, <1>13 DEF Accounts, AccountOK, Absent
  <1> QED
    BY <1>11, <1>14, <1>15 DEF IInv

\* Every step of every handler preserves it.
LEMMA NextInv == IInv /\ [Next]_vars => IInv'
  <1> SUFFICES ASSUME IInv, [Next]_vars PROVE IInv'
    OBVIOUS
  <1>1. ASSUME NEW t \in Transfers, Prepare(t) PROVE IInv'
    BY <1>1, PrepareStep
  <1>2. ASSUME NEW t \in Transfers, Travel(t) PROVE IInv'
    BY <1>2, TravelStep
  <1>3. ASSUME NEW t \in Transfers, FfReports(t) \/ Settle(t) PROVE IInv'
    BY <1>3, FfReportsStep, SettleStep
  <1>4. ASSUME NEW t \in Transfers, GazelkaLeads(t) \/ GazelkaLetsGo(t) PROVE IInv'
    BY <1>4, OtherStep DEF GazelkaLeads, GazelkaLetsGo, IInv, TypeOK
  <1>5. ASSUME NEW w \in Warehouses, NEW s \in SKUs, NEW delta \in Corrections, Adjust(w, s, delta)
        PROVE  IInv'
    BY <1>5, AdjustStep
  <1>6. CASE UNCHANGED vars
    BY <1>6, OtherStep DEF vars, IInv, TypeOK
  <1> QED
    BY <1>1, <1>2, <1>3, <1>4, <1>5, <1>6, AggregatedAssumption DEF Next

\* The documents, the stock rows, the journal and the carriers' documents keep
\* their types and, above all, no balance of _update_stock goes below zero.
THEOREM TypeCorrect == Spec => []TypeOK
  <1>1. IInv => TypeOK
    BY DEF IInv
  <1> QED
    BY InitInv, NextInv, <1>1, PTL DEF Spec

\* What the accounts say of any warehouse says it of the receiver.
LEMMA AccountsTellStatus ==
    ASSUME IInv
    PROVE  LandedMatchesStatus
  <1>1. ASSUME NEW t \in Transfers, NEW s \in SKUs, NeverLeft(t, doc[t].to, s)
        PROVE  /\ doc[t].to \in Warehouses
               /\ AccountOK(t, doc[t].to, s)
               /\ doc[t].items[s] \in Nat
    BY <1>1, RemainingTyped DEF IInv, Accounts, TypeOK, Document
  <1> QED
    BY <1>1 DEF LandedMatchesStatus, AccountOK, OnTheRoad, Arrived

\* In every reachable state the account of a transfer with a receiver it never
\* left from agrees with its status: portions, deliveries and returns add up.
THEOREM LandedCorrect == Spec => []LandedMatchesStatus
  <1>1. IInv => LandedMatchesStatus
    BY AccountsTellStatus
  <1> QED
    BY InitInv, NextInv, <1>1, PTL DEF Spec

-----------------------------------------------------------------------------
(* The carrier's documents tell the trip. *)

\* An append and a rewriting of the last element, at the end of a sequence.
LEMMA LastAppended ==
    ASSUME NEW S, NEW seq \in Seq(S), NEW e \in S
    PROVE  /\ Append(seq, e) \in Seq(S) /\ Len(Append(seq, e)) = Len(seq) + 1 /\ Len(seq) \in Nat
           /\ Append(seq, e)[Len(seq) + 1] = e
           /\ \A i \in 1..Len(seq) : Append(seq, e)[i] = seq[i]
OBVIOUS

LEMMA LastRewritten ==
    ASSUME NEW S, NEW seq \in Seq(S), seq # <<>>, NEW e \in S
    PROVE  /\ Len(seq) \in Nat /\ Len(seq) > 0
           /\ Len([seq EXCEPT ![Len(seq)] = e]) = Len(seq)
           /\ [seq EXCEPT ![Len(seq)] = e][Len(seq)] = e
OBVIOUS

\* One document is written and no pickup: the trip is over, not begun, or goes on.
LEMMA TellsQuiet ==
    ASSUME IInv, PickupTellsTheTrip, NEW t \in Transfers, NEW d \in Document,
           doc' = [doc EXCEPT ![t] = d], pickups' = pickups,
           d.status \in {"SHIPPED", "DELIVERED"} =>
               /\ doc[t].status \in {"SHIPPED", "DELIVERED"}
               /\ d.carrier = doc[t].carrier /\ d.from = doc[t].from /\ d.items = doc[t].items
    PROVE  PickupTellsTheTrip'
  <1>1. doc'[t] = d /\ \A u \in Transfers \ {t} : doc'[u] = doc[u]
    BY DEF IInv, TypeOK
  <1> QED
    BY <1>1 DEF PickupTellsTheTrip, HasLogistics, NewPickup

\* A document and its last pickup are written together.
LEMMA TellsNew ==
    ASSUME IInv, PickupTellsTheTrip, NEW t \in Transfers, NEW d \in Document, NEW seq,
           doc' = [doc EXCEPT ![t] = d], pickups' = [pickups EXCEPT ![t] = seq],
           Len(seq) > 0, \E trip \in Nat : seq[Len(seq)] = NewPickup(t, d, trip)
    PROVE  PickupTellsTheTrip'
  <1>1. /\ doc'[t] = d /\ \A u \in Transfers \ {t} : doc'[u] = doc[u]
        /\ pickups'[t] = seq /\ \A u \in Transfers \ {t} : pickups'[u] = pickups[u]
    BY DEF IInv, TypeOK
  <1>2. seq[Len(seq)] = NewPickup(t, d, seq[Len(seq)].trip)
    BY DEF NewPickup
  <1> QED
    BY <1>1, <1>2 DEF PickupTellsTheTrip, HasLogistics, NewPickup

LEMMA PickupStep ==
    ASSUME IInv, PickupTellsTheTrip, [Next]_vars
    PROVE  PickupTellsTheTrip'
  <1>0. ASSUME NEW t \in Transfers
        PROVE  doc[t] \in Document /\ pickups[t] \in Seq(Pickup) /\ rounds[t] \in Nat
    BY BoundsAssumption DEF IInv, TypeOK
  <1>1. ASSUME NEW t \in Transfers, NEW d \in Document, doc' = [doc EXCEPT ![t] = d], pickups' = pickups,
               d.status \notin {"SHIPPED", "DELIVERED"}
        PROVE  PickupTellsTheTrip'
    BY <1>1, TellsQuiet
  <1>2. ASSUME NEW t \in Transfers, NEW new \in TransferStatus, SetStatus(t, new), pickups' = pickups,
               new \in {"SHIPPED", "DELIVERED"} => doc[t].status \in {"SHIPPED", "DELIVERED"}
        PROVE  PickupTellsTheTrip'
    <2> DEFINE d == [doc[t] EXCEPT !.status = new]
    <2>1. /\ d \in Document /\ d.status = new
          /\ d.carrier = doc[t].carrier /\ d.from = doc[t].from /\ d.items = doc[t].items
      BY <1>0 DEF Document
    <2>2. doc' = [doc EXCEPT ![t] = d]
      BY <1>2 DEF SetStatus
    <2> HIDE DEF d
    <2> QED
      BY <1>2, <2>1, <2>2, TellsQuiet
  <1>3. ASSUME UNCHANGED <<doc, pickups>>
        PROVE  PickupTellsTheTrip'
    BY <1>3 DEF PickupTellsTheTrip, HasLogistics, NewPickup
  <1>4. ASSUME NEW t \in Transfers, Prepare(t)
        PROVE  PickupTellsTheTrip'
    <2>1. ASSUME NEW route \in Routes, NEW items \in Quantities, NEW isDefect \in BOOLEAN,
                 Create(t, route, items, isDefect)
          PROVE  PickupTellsTheTrip'
      <3> DEFINE d == [status |-> "PENDING", from |-> route[1], to |-> route[2],
                       items |-> items, isDefect |-> isDefect, carrier |-> NoCarrier]
      <3>1. d \in Document /\ d.status \notin {"SHIPPED", "DELIVERED"}
        BY DEF Routes, Document, TransferStatus
      <3>2. doc' = [doc EXCEPT ![t] = d] /\ pickups' = pickups
        BY <2>1 DEF Create
      <3> HIDE DEF d
      <3> QED
        BY <1>1, <3>1, <3>2
    <2>2. ASSUME NEW route \in Routes, NEW items \in Quantities, NEW isDefect \in BOOLEAN,
                 Update(t, route, items, isDefect)
          PROVE  PickupTellsTheTrip'
      <3> DEFINE d == [doc[t] EXCEPT !.from = route[1], !.to = route[2],
                                     !.items = items, !.isDefect = isDefect]
      <3>1. d \in Document /\ d.status = doc[t].status
        BY <1>0 DEF Routes, Document
      <3>2. /\ doc' = [doc EXCEPT ![t] = d] /\ pickups' = pickups
            /\ doc[t].status \notin {"SHIPPED", "DELIVERED"}
        BY <2>2 DEF Update, TRANSFER_EDITABLE_STATUSES
      <3> HIDE DEF d
      <3> QED
        BY <1>1, <3>1, <3>2
    <2>3. ASSUME NEW new \in {"READY", "VEHICLE_ASSIGNED"}, NEW carrier \in Carriers \cup {NoCarrier},
                 doc' = [doc EXCEPT ![t].status = new, ![t].carrier = carrier], pickups' = pickups
          PROVE  PickupTellsTheTrip'
      <3> DEFINE d == [doc[t] EXCEPT !.status = new, !.carrier = carrier]
      <3>1. d \in Document /\ d.status \notin {"SHIPPED", "DELIVERED"}
        BY <1>0 DEF Document, TransferStatus
      <3>2. doc' = [doc EXCEPT ![t] = d]
        BY <2>3
      <3> HIDE DEF d
      <3> QED
        BY <1>1, <2>3, <3>1, <3>2
    <2>4. CASE MarkReady(t) \/ Cancel(t)
      BY <1>2, <2>4 DEF MarkReady, Cancel, TransferStatus
    <2>5. ASSUME NEW carrier \in Carriers, ApplyVehicle(t, carrier)
          PROVE  PickupTellsTheTrip'
      BY <2>3, <2>5 DEF ApplyVehicle
    <2>6. CASE UnassignVehicle(t)
      BY <2>3, <2>6 DEF UnassignVehicle
    <2> QED
      BY <1>4, <2>1, <2>2, <2>4, <2>5, <2>6 DEF Prepare, AssignVehicle, ApplyGazelka
  <1>5. ASSUME NEW t \in Transfers, NEW noLogistics \in BOOLEAN, Send(t, TransferStatus, noLogistics)
        PROVE  PickupTellsTheTrip'
    <2> DEFINE d == [doc[t] EXCEPT !.status = "SHIPPED"]
    <2>1. d \in Document /\ d.carrier = doc[t].carrier /\ d.from = doc[t].from /\ d.items = doc[t].items
      BY <1>0 DEF Document, TransferStatus
    <2>2. doc' = [doc EXCEPT ![t] = d]
      BY <1>5 DEF Send, SetStatus
    <2> HIDE DEF d
    <2>3. CASE HasLogistics(t)
      <3> DEFINE e == NewPickup(t, doc[t], rounds[t] + 1)
      <3>1. e \in Pickup
        BY <1>0, <2>3, NewPickupTyped DEF HasLogistics, Document
      <3>2. e = NewPickup(t, d, rounds[t] + 1)
        BY <2>1 DEF NewPickup
      <3>3. pickups' = [pickups EXCEPT ![t] = Append(pickups[t], e)]
        BY <1>5, <2>3 DEF Send, AppendPickup
      <3> HIDE DEF e
      <3>4. /\ Len(Append(pickups[t], e)) > 0
            /\ Append(pickups[t], e)[Len(Append(pickups[t], e))] = e
        BY <1>0, <3>1, LastAppended
      <3>5. rounds[t] + 1 \in Nat
        BY <1>0
      <3> QED
        BY <2>1, <2>2, <3>2, <3>3, <3>4, <3>5, TellsNew
    <2>4. CASE ~HasLogistics(t)
      <3>1. pickups' = pickups /\ d.carrier = NoCarrier
        BY <1>5, <2>1, <2>4 DEF Send, HasLogistics
      <3>2. doc'[t] = d /\ \A u \in Transfers \ {t} : doc'[u] = doc[u]
        BY <2>2 DEF IInv, TypeOK
      <3> QED
        BY <3>1, <3>2 DEF PickupTellsTheTrip, HasLogistics, NewPickup
    <2> QED
      BY <2>3, <2>4
  <1>6. ASSUME NEW t \in Transfers, Complete(t)
        PROVE  PickupTellsTheTrip'
    BY <1>2, <1>6, TableSteps DEF Complete, Credit, IInv, TransferStatus
  <1>7. ASSUME NEW t \in Transfers, ReturnTransfer(t) \/ Close(t)
        PROVE  PickupTellsTheTrip'
    BY <1>2, <1>7 DEF ReturnTransfer, Close, TransferStatus
  <1>8. ASSUME NEW t \in Transfers, FfReports(t)
        PROVE  PickupTellsTheTrip'
    <2>1. CASE FfTakesUp(t) \/ FfAssembled(t)
      BY <1>2, <2>1 DEF FfTakesUp, FfAssembled, TransferStatus
    <2>2. ASSUME NEW good \in Quantities, NEW bad \in Quantities, ReceiveFact(t, good, bad)
          PROVE  PickupTellsTheTrip'
      <3>1. /\ pickups' = pickups /\ doc[t].status = "SHIPPED"
            /\ doc' = doc \/ SetStatus(t, "DELIVERED")
        BY <2>2 DEF ReceiveFact, Credit, SetStatus
      <3> QED
        BY <1>2, <1>3, <3>1 DEF TransferStatus
    <2> QED
      BY <1>8, <2>1, <2>2 DEF FfReports
  <1>9. ASSUME NEW t \in Transfers, NEW carrier \in Carriers, SetLogistics(t, carrier)
        PROVE  PickupTellsTheTrip'
    <2> DEFINE d == [doc[t] EXCEPT !.carrier = carrier]
               seq == pickups[t]
    <2>1. d \in Document /\ d.carrier \in Carriers /\ doc' = [doc EXCEPT ![t] = d]
      BY <1>0, <1>9 DEF Document, SetLogistics
    <2>2. seq \in Seq(Pickup) /\ rounds[t] \in Nat
      BY <1>0
    <2>3. CASE seq = <<>>
      <3>1. pickups' = [pickups EXCEPT ![t] = Append(seq, NewPickup(t, d, rounds[t]))]
        BY <1>9, <2>3 DEF SetLogistics, AppendPickup
      <3> HIDE DEF d, seq
      <3>2. NewPickup(t, d, rounds[t]) \in Pickup
        BY <2>1, <2>2, NewPickupTyped
      <3>3. /\ Len(Append(seq, NewPickup(t, d, rounds[t]))) > 0
            /\ Append(seq, NewPickup(t, d, rounds[t]))[Len(Append(seq, NewPickup(t, d, rounds[t])))]
                 = NewPickup(t, d, rounds[t])
        BY <2>2, <3>2, LastAppended
      <3> QED
        BY <2>1, <2>2, <3>1, <3>3, TellsNew
    <2>4. CASE seq # <<>>
      <3> DEFINE n == Len(seq)
                 e == NewPickup(t, d, seq[n].trip)
      <3>1. n \in Nat /\ n > 0 /\ seq[n] \in Pickup
        BY <2>2, <2>4
      <3>2. pickups' = [pickups EXCEPT ![t] = [seq EXCEPT ![n] = e]]
        BY <1>9, <2>4 DEF SetLogistics, RewriteLastPickup
      <3>3. seq[n].trip \in Nat
        BY <3>1 DEF Pickup
      <3> HIDE DEF d, seq
      <3>4. e \in Pickup
        BY <2>1, <3>3, NewPickupTyped
      <3> HIDE DEF e
      <3>5. Len([seq EXCEPT ![n] = e]) = n /\ [seq EXCEPT ![n] = e][n] = e
        BY <2>2, <2>4, <3>4, LastRewritten
      <3>6. \E trip \in Nat : [seq EXCEPT ![n] = e][Len([seq EXCEPT ![n] = e])] = NewPickup(t, d, trip)
        BY <3>3, <3>5 DEF e
      <3> QED
        BY <2>1, <3>1, <3>2, <3>5, <3>6, TellsNew
    <2> QED
      BY <2>3, <2>4
  <1>10. CASE UNCHANGED vars
    BY <1>3, <1>10 DEF vars
  <1>11. ASSUME NEW t \in Transfers, GazelkaLeads(t) \/ GazelkaLetsGo(t)
         PROVE  PickupTellsTheTrip'
    BY <1>3, <1>11 DEF GazelkaLeads, GazelkaLetsGo
  <1>12. ASSUME NEW w \in Warehouses, NEW s \in SKUs, NEW delta \in Corrections, Adjust(w, s, delta)
         PROVE  PickupTellsTheTrip'
    BY <1>3, <1>12 DEF Adjust
  <1> QED
    BY <1>4, <1>5, <1>6, <1>7, <1>8, <1>9, <1>10, <1>11, <1>12, AggregatedAssumption DEF Next, Travel, Settle

\* Through any number of trips, returns and late entries of a carrier, a transfer on
\* its way or delivered with a carrier has a document for what travels now.
THEOREM PickupCorrect == Spec => []PickupTellsTheTrip
  <1>1. Init => PickupTellsTheTrip
    <2> SUFFICES ASSUME Init PROVE PickupTellsTheTrip
      OBVIOUS
    <2>1. \A t \in Transfers : doc[t].status = Absent
      BY DEF Init
    <2> QED
      BY <2>1 DEF PickupTellsTheTrip, Absent
  <1>2. IInv /\ PickupTellsTheTrip /\ [Next]_vars => IInv' /\ PickupTellsTheTrip'
    BY NextInv, PickupStep
  <1> QED
    BY InitInv, <1>1, <1>2, PTL DEF Spec

\* Trips begin by a departure and by nothing else.
LEMMA TripsBegin ==
    ASSUME [Next]_vars
    PROVE  rounds' = rounds
           \/ \E t \in Transfers, noLogistics \in BOOLEAN : Send(t, TransferStatus, noLogistics)
  <1>1. ASSUME NEW t \in Transfers, Prepare(t) \/ FfReports(t) \/ Settle(t)
        PROVE  rounds' = rounds
    BY <1>1 DEF Prepare, Create, Update, MarkReady, AssignVehicle, ApplyGazelka, ApplyVehicle, UnassignVehicle,
                Cancel, FfReports, FfTakesUp, FfAssembled, ReceiveFact, Credit, Settle, Close, SetLogistics
  <1>2. ASSUME NEW t \in Transfers, Complete(t) \/ ReturnTransfer(t) \/ GazelkaLetsGo(t) \/ GazelkaLeads(t)
        PROVE  rounds' = rounds
    BY <1>2 DEF Complete, Credit, ReturnTransfer, GazelkaLetsGo, GazelkaLeads
  <1>3. ASSUME NEW w \in Warehouses, NEW s \in SKUs, NEW delta \in Corrections, Adjust(w, s, delta)
        PROVE  rounds' = rounds
    BY <1>3 DEF Adjust
  <1>4. CASE UNCHANGED vars
    BY <1>4 DEF vars
  <1> QED
    BY <1>1, <1>2, <1>3, <1>4, AggregatedAssumption DEF Next, Travel

\* Whatever a second trip carries and whoever carries it, the documents of the trips
\* before it stay as they are.
THEOREM ResendCorrect == Spec => ResendKeepsPickups
  <1>1. ASSUME IInv, [Next]_vars, NEW t \in Transfers, rounds'[t] > rounds[t],
               NEW i \in 1..Len(pickups[t])
        PROVE  i \in 1..Len(pickups'[t]) /\ pickups'[t][i] = pickups[t][i]
    <2>1. rounds \in [Transfers -> 0..MaxRounds] /\ pickups \in [Transfers -> Seq(Pickup)] /\ doc[t] \in Document
      BY <1>1 DEF IInv, TypeOK
    <2>2. rounds' # rounds
      BY <1>1, <2>1, BoundsAssumption
    <2>3. PICK u \in Transfers, noLogistics \in BOOLEAN : Send(u, TransferStatus, noLogistics)
      BY <1>1, <2>2, TripsBegin
    <2>4. u = t
      BY <1>1, <2>1, <2>3, BoundsAssumption DEF Send
    <2>5. CASE ~HasLogistics(t)
      BY <1>1, <2>3, <2>4, <2>5 DEF Send
    <2>6. CASE HasLogistics(t)
      <3> DEFINE e == NewPickup(t, doc[t], rounds[t] + 1)
      <3>1. e \in Pickup
        <4>1. doc[t].carrier \in Carriers /\ rounds[t] + 1 \in Nat
          BY <2>1, <2>6, BoundsAssumption DEF HasLogistics, Document
        <4> QED
          BY <2>1, <4>1, NewPickupTyped
      <3>2. pickups'[t] = Append(pickups[t], e)
        BY <2>1, <2>3, <2>4, <2>6 DEF Send, AppendPickup
      <3> HIDE DEF e
      <3> QED
        BY <1>1, <2>1, <3>1, <3>2, LastAppended
    <2> QED
      BY <2>5, <2>6
  <1>2. IInv /\ [Next]_vars =>
           [\A t \in Transfers : rounds'[t] > rounds[t] =>
               \A i \in 1..Len(pickups[t]) :
                  i \in 1..Len(pickups'[t]) /\ pickups'[t][i] = pickups[t][i]]_vars
    BY <1>1
  <1> QED
    BY InitInv, NextInv, <1>2, PTL DEF Spec, ResendKeepsPickups
-----------------------------------------------------------------------------
(* What IInv and Routed say of a transfer that has travelled. *)

Routed ==
    \A t \in Transfers :
        /\ doc[t].status = Absent => rounds[t] = 0
        /\ rounds[t] = 0 => \A w \in Warehouses, s \in SKUs : NeverLeft(t, w, s)
        /\ \A s \in SKUs : NeverLeft(t, doc[t].to, s)
        /\ doc[t].status \in {"SHIPPED", "DELIVERED"} => doc[t].items # Nothing

-----------------------------------------------------------------------------
(* The route of a transfer that has travelled *)

\* A step that books no departure and changes one document.
LEMMA RoutedKept ==
    ASSUME IInv, Routed, NEW t \in Transfers, NEW d \in Document, doc' = [doc EXCEPT ![t] = d],
           rounds' = rounds,
           \A u \in Transfers, w \in Warehouses, s \in SKUs : journal'[u][w][s].out = journal[u][w][s].out,
           d.status # Absent, d.to = doc[t].to \/ rounds[t] = 0,
           d.status \in {"SHIPPED", "DELIVERED"} =>
               doc[t].status \in {"SHIPPED", "DELIVERED"} /\ d.items = doc[t].items
    PROVE  Routed'
<1>1. doc \in [Transfers -> Document] /\ doc'[t] = d /\ d.to \in Warehouses
  BY DEF IInv, TypeOK, Document
<1>2. \A u \in Transfers \ {t} : doc'[u] = doc[u]
  BY <1>1
<1>3. \A u \in Transfers : doc[u].to \in Warehouses
  BY <1>1 DEF Document
<1> QED
  BY <1>1, <1>2, <1>3 DEF Routed, NeverLeft

\* A step that leaves every document, journal and count of trips alone.
LEMMA RoutedIdle ==
    ASSUME Routed, UNCHANGED <<doc, journal, rounds>>
    PROVE  Routed'
  BY DEF Routed, NeverLeft

\* A document with another status and carrier is a document.
LEMMA DocumentParts ==
    ASSUME IInv, NEW t \in Transfers
    PROVE  /\ doc[t] \in Document /\ doc[t].to \in Warehouses /\ doc[t].from \in Warehouses
           /\ \A new \in TransferStatus : LET d == [doc[t] EXCEPT !.status = new] IN
                d \in Document /\ d.status = new /\ d.to = doc[t].to /\ d.items = doc[t].items
           /\ \A new \in TransferStatus, c \in Carriers \cup {NoCarrier} :
                LET d == [doc[t] EXCEPT !.status = new, !.carrier = c] IN
                d \in Document /\ d.status = new /\ d.to = doc[t].to /\ d.items = doc[t].items
           /\ \A c \in Carriers : LET d == [doc[t] EXCEPT !.carrier = c] IN
                d \in Document /\ d.status = doc[t].status /\ d.to = doc[t].to /\ d.items = doc[t].items
  BY DEF IInv, TypeOK, Document

\* Before the goods leave, and on a centre's word that it assembles.
LEMMA RoutedAtHome ==
    ASSUME RerouteAfterTrip = FALSE, IInv, Routed, NEW t \in Transfers,
           Prepare(t) \/ FfTakesUp(t) \/ FfAssembled(t)
    PROVE  Routed'
<1>1. ASSUME NEW d \in Document, doc' = [doc EXCEPT ![t] = d], UNCHANGED <<journal, rounds>>,
             d.status \notin {Absent, "SHIPPED", "DELIVERED"}, d.to = doc[t].to \/ rounds[t] = 0
      PROVE  Routed'
  BY <1>1, RoutedKept
<1>2. ASSUME NEW new \in TransferStatus \ {"SHIPPED", "DELIVERED"}, SetStatus(t, new), UNCHANGED <<journal, rounds>>
      PROVE  Routed'
  <2>1. new # Absent
    BY DEF TransferStatus, Absent
  <2> QED
    BY <1>1, <1>2, <2>1, DocumentParts DEF SetStatus
<1>3. ASSUME NEW new \in TransferStatus \ {"SHIPPED", "DELIVERED"}, NEW c \in Carriers \cup {NoCarrier},
             doc' = [doc EXCEPT ![t].status = new, ![t].carrier = c], UNCHANGED <<journal, rounds>>
      PROVE  Routed'
  <2>1. new # Absent
    BY DEF TransferStatus, Absent
  <2>2. doc' = [doc EXCEPT ![t] = [doc[t] EXCEPT !.status = new, !.carrier = c]]
    BY <1>3
  <2> QED
    BY <1>1, <1>3, <2>1, <2>2, DocumentParts
<1>4. ASSUME NEW route \in Routes, NEW items \in Quantities, NEW isDefect \in BOOLEAN,
             Create(t, route, items, isDefect)
      PROVE  Routed'
  <2> DEFINE d == [status |-> "PENDING", from |-> route[1], to |-> route[2],
                   items |-> items, isDefect |-> isDefect, carrier |-> NoCarrier]
  <2>1. d \in Document /\ d.status \notin {Absent, "SHIPPED", "DELIVERED"}
    BY DEF Routes, Document, TransferStatus, Absent
  <2>2. doc' = [doc EXCEPT ![t] = d] /\ UNCHANGED <<journal, rounds>> /\ rounds[t] = 0
    BY <1>4 DEF Create, StockKept, Exists, Routed
  <2> HIDE DEF d
  <2> QED
    BY <1>1, <2>1, <2>2
<1>5. ASSUME NEW route \in Routes, NEW items \in Quantities, NEW isDefect \in BOOLEAN,
             Update(t, route, items, isDefect)
      PROVE  Routed'
  <2> DEFINE d == [doc[t] EXCEPT !.from = route[1], !.to = route[2], !.items = items, !.isDefect = isDefect]
  <2>1. d \in Document /\ d.status = doc[t].status /\ d.to = route[2]
    BY DocumentParts DEF Routes, Document
  <2>2. /\ doc' = [doc EXCEPT ![t] = d] /\ UNCHANGED <<journal, rounds>>
        /\ doc[t].status \notin {Absent, "SHIPPED", "DELIVERED"}
    BY <1>5 DEF Update, StockKept, TRANSFER_EDITABLE_STATUSES, Absent
  <2>3. route[2] = doc[t].to \/ rounds[t] = 0
    BY <1>5 DEF Update
  <2> HIDE DEF d
  <2> QED
    BY <1>1, <2>1, <2>2, <2>3
<1>6. CASE MarkReady(t) \/ FfAssembled(t) \/ FfTakesUp(t) \/ Cancel(t)
  BY <1>2, <1>6 DEF MarkReady, FfAssembled, FfTakesUp, Cancel, StockKept, TransferStatus
<1>7. ASSUME NEW carrier \in Carriers, ApplyVehicle(t, carrier)
      PROVE  Routed'
  BY <1>3, <1>7 DEF ApplyVehicle, StockKept, TransferStatus
<1>8. CASE UnassignVehicle(t)
  BY <1>3, <1>8 DEF UnassignVehicle, StockKept, TransferStatus
<1> QED
  BY <1>4, <1>5, <1>6, <1>7, <1>8 DEF Prepare, AssignVehicle, ApplyGazelka

\* A departure writes the account of the source, which is not the receiver.
LEMMA RoutedSend ==
    ASSUME IInv, Routed, NEW t \in Transfers, NEW noLogistics \in BOOLEAN,
           Send(t, TransferStatus, noLogistics)
    PROVE  /\ Routed'
           /\ \A s \in SKUs : journal'[t][doc[t].to][s] = journal[t][doc[t].to][s]
<1> DEFINE d   == doc[t]
           row == [s \in SKUs |-> BookOut(journal[t][d.from][s], d.items[s])]
<1>1. /\ TypeOK /\ d \in Document /\ d.from # d.to /\ d.from \in Warehouses /\ d.to \in Warehouses
      /\ d.items # Nothing /\ Exists(t)
  BY DEF IInv, TypeOK, TwoEnds, Document, Send, TRANSFER_SEND_FROM, Exists, Absent, HasItems
<1>2. row \in [SKUs -> JournalRow]
  <2>1. ASSUME NEW s \in SKUs
        PROVE  row[s] \in JournalRow
    <3>1. journal[t][d.from][s] \in JournalRow /\ d.items[s] \in Nat
      BY <1>1, RemainingTyped DEF TypeOK
    <3> QED
      BY <3>1, BookTyped
  <2> QED
    BY <2>1
<1>3. journal' = [journal EXCEPT ![t][d.from] = row]
  BY DEF Send
<1> HIDE DEF row
<1>4. \A u \in Transfers, v \in Warehouses, s \in SKUs :
         ~(u = t /\ v = d.from) => journal'[u][v][s] = journal[u][v][s]
  BY <1>1, <1>2, <1>3, JournalWritten
<1>5. /\ doc'[t].to = d.to /\ doc'[t].items = d.items /\ doc'[t].status = "SHIPPED"
      /\ \A u \in Transfers \ {t} : doc'[u] = doc[u] /\ rounds'[u] = rounds[u]
      /\ \A u \in Transfers : doc[u].to \in Warehouses
  BY <1>1 DEF Send, SetStatus, TypeOK, Document
<1>6. rounds'[t] # 0
  <2>1. rounds \in [Transfers -> 0..MaxRounds] /\ rounds' = [rounds EXCEPT ![t] = @ + 1]
    BY <1>1 DEF TypeOK, Send
  <2> QED
    BY <2>1, BoundsAssumption
<1>7. ASSUME NEW u \in Transfers
      PROVE  /\ doc'[u].status = Absent => rounds'[u] = 0
             /\ rounds'[u] = 0 => \A w \in Warehouses, s \in SKUs : NeverLeft(u, w, s)'
             /\ \A s \in SKUs : NeverLeft(u, doc[u].to, s)'
             /\ doc'[u].status \in {"SHIPPED", "DELIVERED"} => doc'[u].items # Nothing
  <2>1. CASE u = t
    BY <1>1, <1>4, <1>5, <1>6, <2>1 DEF Routed, NeverLeft, Absent
  <2>2. CASE u # t
    BY <1>4, <1>5, <2>2 DEF Routed, NeverLeft
  <2> QED
    BY <2>1, <2>2
<1>8. \A u \in Transfers : doc'[u].to = doc[u].to
  BY <1>5
<1> QED
  BY <1>1, <1>4, <1>7, <1>8 DEF Routed, NeverLeft

\* What is credited, and what a return takes back, leaves no trace among departures.
LEMMA CreditBooks ==
    ASSUME IInv, NEW t \in Transfers, NEW good \in [SKUs -> Nat], NEW bad \in [SKUs -> Nat],
           Credit(t, good, bad)
    PROVE  /\ \A u \in Transfers, w \in Warehouses, s \in SKUs : journal'[u][w][s].out = journal[u][w][s].out
           /\ \A u \in Transfers \ {t}, w \in Warehouses, s \in SKUs : journal'[u][w][s] = journal[u][w][s]
           /\ \A v \in {doc[t].to}, s \in SKUs : Landed(t, v, s)' = Landed(t, v, s) + good[s] + bad[s]
<1> DEFINE to  == doc[t].to
           row == [s \in SKUs |-> BookIn(journal[t][to][s], good[s], bad[s])]
<1>1. TypeOK /\ to \in Warehouses
  BY DocumentParts DEF IInv
<1>2. \A s \in SKUs : journal[t][to][s] \in JournalRow /\ good[s] \in Nat /\ bad[s] \in Nat
  BY <1>1 DEF TypeOK
<1>3. \A s \in SKUs : row[s] \in JournalRow /\ row[s].out = journal[t][to][s].out
                      /\ row[s] = BookIn(journal[t][to][s], good[s], bad[s])
  BY <1>2, BookTyped
<1>4. row \in [SKUs -> JournalRow]
  BY <1>3
<1>5. journal' = [journal EXCEPT ![t][to] = row]
  BY DEF Credit
<1> HIDE DEF row
<1>6. \A u \in Transfers, v \in Warehouses, s \in SKUs :
         journal'[u][v][s] = IF u = t /\ v = to THEN row[s] ELSE journal[u][v][s]
  BY <1>1, <1>4, <1>5, JournalWritten
<1>7. ASSUME NEW v \in {to}, NEW s \in SKUs
      PROVE  Landed(t, v, s)' = Landed(t, v, s) + good[s] + bad[s]
  <2>1. v = to /\ journal'[t][v][s] = BookIn(journal[t][v][s], good[s], bad[s])
    BY <1>1, <1>3, <1>6
  <2> QED
    BY <1>2, <2>1 DEF Landed, JournalRow, BookIn
<1> QED
  BY <1>3, <1>6, <1>7

\* A fact credits what remains of the plan, and no more; all of it if it delivers.
LEMMA FactCredits ==
    ASSUME IInv, NEW t \in Transfers, NEW fact \in Quantities, NEW flaws \in Quantities,
           ReceiveFact(t, fact, flaws)
    PROVE  \E g, b \in [SKUs -> Nat] :
              /\ Credit(t, g, b)
              /\ \A s \in SKUs : g[s] + b[s] <= Remaining(t, s)
              /\ doc' = IF \A s \in SKUs : g[s] + b[s] = Remaining(t, s)
                        THEN [doc EXCEPT ![t].status = "DELIVERED"] ELSE doc
<1> DEFINE taken == [s \in SKUs |-> TakeGood(t, fact, s) + TakeBad(t, fact, flaws, s)]
           good  == [s \in SKUs |-> IF doc[t].isDefect THEN 0 ELSE TakeGood(t, fact, s)]
           bad   == [s \in SKUs |-> IF doc[t].isDefect THEN taken[s] ELSE TakeBad(t, fact, flaws, s)]
<1>1. /\ Credit(t, good, bad)
      /\ doc' = IF \A s \in SKUs : taken[s] = Remaining(t, s)
                THEN [doc EXCEPT ![t].status = "DELIVERED"] ELSE doc
  BY DEF ReceiveFact
<1>2. ASSUME NEW s \in SKUs
      PROVE  /\ TakeGood(t, fact, s) \in Nat /\ TakeBad(t, fact, flaws, s) \in Nat
             /\ TakeGood(t, fact, s) + TakeBad(t, fact, flaws, s) <= Remaining(t, s)
  <2>1. fact[s] \in Nat /\ flaws[s] \in Nat /\ Remaining(t, s) \in Nat
    BY RemainingTyped, BoundsAssumption DEF Quantities, IInv
  <2> QED
    BY <2>1 DEF TakeGood, TakeBad, Lesser
<1>3. /\ good \in [SKUs -> Nat] /\ bad \in [SKUs -> Nat]
      /\ \A s \in SKUs : good[s] + bad[s] = taken[s] /\ taken[s] <= Remaining(t, s)
  BY <1>2
<1> HIDE DEF taken, good, bad
<1>4. (\A s \in SKUs : taken[s] = Remaining(t, s)) <=> \A s \in SKUs : good[s] + bad[s] = Remaining(t, s)
  BY <1>3
<1>5. \A s \in SKUs : good[s] + bad[s] <= Remaining(t, s)
  BY <1>3
<1> QED
  BY <1>1, <1>3, <1>4, <1>5

LEMMA ReturnBooks ==
    ASSUME IInv, NEW t \in Transfers, ReturnTransfer(t)
    PROVE  /\ \A u \in Transfers, w \in Warehouses, s \in SKUs : journal'[u][w][s].out = journal[u][w][s].out
           /\ \A u \in Transfers \ {t}, w \in Warehouses, s \in SKUs : journal'[u][w][s] = journal[u][w][s]
<1> DEFINE d     == doc[t]
           taken == [s \in SKUs |-> Lesser(Received(t, s), d.items[s])]
           off   == [s \in SKUs |-> AsGood(d.isDefect, -taken[s])]
           offD  == [s \in SKUs |-> AsDefect(d.isDefect, -taken[s])]
           row   == [s \in SKUs |-> BookBack(journal[t][d.to][s], -off[s], -offD[s])]
<1>1. TypeOK /\ d.to \in Warehouses /\ d.isDefect \in BOOLEAN
  BY DocumentParts DEF IInv, Document
<1>2. ASSUME NEW s \in SKUs
      PROVE  row[s] \in JournalRow /\ row[s].out = journal[t][d.to][s].out
  <2>1. taken[s] \in Nat
    <3>1. d.items[s] \in Nat /\ Received(t, s) \in Nat
      BY <1>1, RemainingTyped
    <3> QED
      BY <3>1 DEF Lesser
  <2>2. -off[s] \in Nat /\ -offD[s] \in Nat
    <3> HIDE DEF d, taken
    <3> QED
      BY <1>1, <2>1 DEF AsGood, AsDefect
  <2>3. journal[t][d.to][s] \in JournalRow
    BY <1>1 DEF TypeOK
  <2>4. row[s] = BookBack(journal[t][d.to][s], -off[s], -offD[s])
    OBVIOUS
  <2> HIDE DEF d, taken, off, offD, row
  <2>5. /\ BookBack(journal[t][d.to][s], -off[s], -offD[s]) \in JournalRow
        /\ BookBack(journal[t][d.to][s], -off[s], -offD[s]).out = journal[t][d.to][s].out
    BY <2>2, <2>3, BookTyped
  <2> QED
    BY <2>4, <2>5
<1>3. row \in [SKUs -> JournalRow]
  <2> HIDE DEF d, taken, off, offD
  <2> QED
    BY <1>2 DEF row
<1>4. journal' = [journal EXCEPT ![t][d.to] = row]
  BY DEF ReturnTransfer
<1> HIDE DEF d, taken, off, offD, row
<1>5. \A u \in Transfers, v \in Warehouses, s \in SKUs :
         journal'[u][v][s] = IF u = t /\ v = d.to THEN row[s] ELSE journal[u][v][s]
  BY <1>1, <1>3, <1>4, JournalWritten
<1> QED
  BY <1>2, <1>5

\* Credits, returns and what comes after them leave the route alone.
LEMMA RoutedAway ==
    ASSUME IInv, Routed, NEW t \in Transfers,
           \/ Complete(t) \/ ReturnTransfer(t) \/ Settle(t)
           \/ \E good, bad \in Quantities : ReceiveFact(t, good, bad)
    PROVE  Routed'
<1>1. ASSUME NEW d \in Document, doc' = [doc EXCEPT ![t] = d], rounds' = rounds, d.to = doc[t].to, d.items = doc[t].items,
             \A u \in Transfers, w \in Warehouses, s \in SKUs : journal'[u][w][s].out = journal[u][w][s].out,
             \/ d.status = doc[t].status /\ doc[t].status # Absent
             \/ d.status \in {"DELIVERED", "RETURNED", "CLOSED"} /\ doc[t].status = "SHIPPED"
             \/ d.status \in {"RETURNED", "CLOSED"}
      PROVE  Routed'
  BY <1>1, RoutedKept DEF Absent
<1>2. ASSUME NEW new \in {"DELIVERED", "RETURNED", "CLOSED"}, SetStatus(t, new), rounds' = rounds,
             \A u \in Transfers, w \in Warehouses, s \in SKUs : journal'[u][w][s].out = journal[u][w][s].out,
             new = "DELIVERED" => doc[t].status = "SHIPPED"
      PROVE  Routed'
  <2> DEFINE d == [doc[t] EXCEPT !.status = new]
  <2>1. new \in TransferStatus
    BY DEF TransferStatus
  <2>2. d \in Document /\ d.status = new /\ d.to = doc[t].to /\ d.items = doc[t].items
    BY <2>1, DocumentParts
  <2>3. doc' = [doc EXCEPT ![t] = d]
    BY <1>2 DEF SetStatus
  <2> HIDE DEF d
  <2> QED
    BY <1>1, <1>2, <2>2, <2>3
<1>3. CASE Complete(t)
  <2> DEFINE good == [s \in SKUs |-> AsGood(doc[t].isDefect, Remaining(t, s))]
             bad  == [s \in SKUs |-> AsDefect(doc[t].isDefect, Remaining(t, s))]
  <2>1. good \in [SKUs -> Nat] /\ bad \in [SKUs -> Nat]
    BY RemainingTyped DEF IInv, AsGood, AsDefect
  <2>2. Credit(t, good, bad) /\ SetStatus(t, "DELIVERED") /\ rounds' = rounds
    BY <1>3 DEF Complete, Credit
  <2>3. doc[t].status = "SHIPPED"
    BY <1>3, TableSteps DEF Complete, IInv
  <2> HIDE DEF good, bad
  <2> QED
    BY <1>2, <2>1, <2>2, <2>3, CreditBooks
<1>4. CASE ReturnTransfer(t)
  BY <1>2, <1>4, ReturnBooks DEF ReturnTransfer
<1>5. CASE Close(t)
  BY <1>2, <1>5 DEF Close, StockKept
<1>6. ASSUME NEW c \in Carriers, SetLogistics(t, c)
      PROVE  Routed'
  <2>1. doc' = [doc EXCEPT ![t] = [doc[t] EXCEPT !.carrier = c]] /\ UNCHANGED <<journal, rounds>>
        /\ doc[t].status # Absent
    BY <1>6 DEF SetLogistics, StockKept, TRANSFER_LOGISTICS_RETRO_STATUSES, Absent
  <2> QED
    BY <1>1, <2>1, DocumentParts
<1>7. ASSUME NEW good \in Quantities, NEW bad \in Quantities, ReceiveFact(t, good, bad)
      PROVE  Routed'
  <2>1. PICK g \in [SKUs -> Nat], b \in [SKUs -> Nat] : Credit(t, g, b)
    BY <1>7, FactCredits
  <2>2. /\ doc[t].status = "SHIPPED" /\ rounds' = rounds
        /\ doc' = doc \/ doc' = [doc EXCEPT ![t].status = "DELIVERED"]
    BY <1>7, <2>1 DEF ReceiveFact, Credit
  <2>3. CASE doc' = doc
    <3>1. doc' = [doc EXCEPT ![t] = doc[t]]
      BY <2>3 DEF IInv, TypeOK
    <3> QED
      BY <1>1, <2>1, <2>2, <3>1, CreditBooks, DocumentParts DEF Absent
  <2>4. CASE doc' = [doc EXCEPT ![t].status = "DELIVERED"]
    BY <1>2, <2>1, <2>2, <2>4, CreditBooks DEF SetStatus
  <2> QED
    BY <2>2, <2>3, <2>4
<1> QED
  BY <1>3, <1>4, <1>5, <1>6, <1>7 DEF Settle

LEMMA RoutedStep ==
    ASSUME RerouteAfterTrip = FALSE, IInv, Routed, [Next]_vars
    PROVE  Routed'
<1>1. ASSUME NEW t \in Transfers, Prepare(t) \/ Travel(t) \/ FfReports(t) \/ Settle(t)
      PROVE  Routed'
  BY <1>1, RoutedAtHome, RoutedSend, RoutedAway DEF Travel, FfReports
<1>2. ASSUME NEW t \in Transfers, GazelkaLetsGo(t) \/ GazelkaLeads(t)
      PROVE  Routed'
  BY <1>2, RoutedIdle DEF GazelkaLetsGo, GazelkaLeads
<1>3. ASSUME NEW w \in Warehouses, NEW s \in SKUs, NEW delta \in Corrections, Adjust(w, s, delta)
      PROVE  Routed'
  BY <1>3, RoutedIdle DEF Adjust
<1>4. CASE UNCHANGED vars
  BY <1>4, RoutedIdle DEF vars
<1> QED
  BY <1>1, <1>2, <1>3, <1>4, AggregatedAssumption DEF Next

LEMMA InitRouted == Init => Routed
<1> SUFFICES ASSUME Init PROVE Routed
  OBVIOUS
<1>1. \A t \in Transfers : rounds[t] = 0 /\ doc[t].to \in Warehouses /\ doc[t].status = Absent
  BY WarehousesAssumption DEF Init
<1>2. \A t \in Transfers, w \in Warehouses, s \in SKUs : NeverLeft(t, w, s)
  BY DEF Init, NeverLeft
<1> QED
  BY <1>1, <1>2 DEF Routed, Absent

-----------------------------------------------------------------------------
(* What a counter sees *)

Seen(t) ==
    /\ doc[t].items \in Quantities /\ LandedOf(t) \in [SKUs -> Int]
    /\ doc[t].status \notin Booked => LandedOf(t) = Nothing
    /\ doc[t].status = "SHIPPED" => \A s \in SKUs : LandedOf(t)[s] \in 0..doc[t].items[s]
    /\ doc[t].status = "DELIVERED" => LandedOf(t) = doc[t].items
    /\ doc[t].status \in {"SHIPPED", "DELIVERED"} => doc[t].items # Nothing

AllSeen == \A t \in Transfers : Seen(t)

LEMMA SeenAlways == IInv /\ Routed => AllSeen
<1> SUFFICES ASSUME IInv, Routed, NEW t \in Transfers
             PROVE  Seen(t)
  BY DEF AllSeen
<1>1. doc[t].to \in Warehouses /\ doc[t].items \in Quantities
  BY DocumentParts DEF Document
<1>2. ASSUME NEW s \in SKUs
      PROVE  /\ AccountOK(t, doc[t].to, s) /\ Landed(t, doc[t].to, s) \in Int
             /\ LandedOf(t)[s] = Landed(t, doc[t].to, s)
  BY <1>1, LandedTyped DEF IInv, Accounts, Routed, LandedOf
<1>3. LandedOf(t) \in [SKUs -> Int]
  BY <1>2 DEF LandedOf
<1>4. doc[t].status \notin Booked => LandedOf(t) = Nothing
  BY <1>2 DEF Booked, AccountOK, LandedOf, Nothing
<1>5. doc[t].status = "SHIPPED" => \A s \in SKUs : LandedOf(t)[s] \in 0..doc[t].items[s]
  BY <1>2 DEF AccountOK
<1>6. doc[t].status = "DELIVERED" => LandedOf(t) = doc[t].items
  BY <1>1, <1>2 DEF AccountOK, LandedOf, Quantities
<1> QED
  BY <1>1, <1>3, <1>4, <1>5, <1>6 DEF Seen, Routed

LEMMA SeenNext == IInv' /\ Routed' => AllSeen'
  BY SeenAlways, PTL

\* Where a transfer is, by its status.
LEMMA Places ==
    ASSUME NEW t \in Transfers
    PROVE  /\ doc[t].status \notin Booked => PlaceOf(t) = "home"
           /\ doc[t].status = "SHIPPED" => PlaceOf(t) = "road"
           /\ doc[t].status = "DELIVERED" => PlaceOf(t) = "there"
           /\ doc[t].status = "CLOSED" => PlaceOf(t) = IF LandedOf(t) = Nothing THEN "home" ELSE "there"
  BY DEF PlaceOf, Booked

\* A step of one transfer changes what is seen of it, and of no other.
LEMMA OnlyOneSeen ==
    ASSUME IInv, NEW t \in Transfers,
           \A u \in Transfers \ {t} :
              doc'[u] = doc[u] /\ \A w \in Warehouses, s \in SKUs : journal'[u][w][s] = journal[u][w][s]
    PROVE  /\ Packed' = [Packed EXCEPT ![t] = doc'[t].items]
           /\ Whereabouts' = [Whereabouts EXCEPT ![t] = PlaceOf(t)']
           /\ Landings' = [Landings EXCEPT ![t] = LandedOf(t)']
           /\ Packed[t] = doc[t].items /\ Whereabouts[t] = PlaceOf(t) /\ Landings[t] = LandedOf(t)
<1>1. ASSUME NEW u \in Transfers \ {t}
      PROVE  doc'[u] = doc[u] /\ LandedOf(u)' = LandedOf(u) /\ PlaceOf(u)' = PlaceOf(u)
  <2>1. doc'[u] = doc[u] /\ doc[u].to \in Warehouses
    BY DocumentParts
  <2>2. \A s \in SKUs : journal'[u][doc[u].to][s] = journal[u][doc[u].to][s]
    BY <2>1
  <2>3. LandedOf(u)' = LandedOf(u)
    BY <2>1, <2>2 DEF LandedOf, Landed
  <2> QED
    BY <2>1, <2>3 DEF PlaceOf
<1>2. Packed' = [Packed EXCEPT ![t] = doc'[t].items]
  BY <1>1 DEF Packed
<1>3. Whereabouts' = [Whereabouts EXCEPT ![t] = PlaceOf(t)']
  BY <1>1 DEF Whereabouts
<1>4. Landings' = [Landings EXCEPT ![t] = LandedOf(t)']
  BY <1>1 DEF Landings
<1> QED
  BY <1>2, <1>3, <1>4 DEF Packed, Whereabouts, Landings

\* What is seen of one transfer stays as it is.
LEMMA Unseen ==
    ASSUME IInv, NEW t \in Transfers,
           \A u \in Transfers \ {t} :
              doc'[u] = doc[u] /\ \A w \in Warehouses, s \in SKUs : journal'[u][w][s] = journal[u][w][s],
           doc'[t].items = doc[t].items, PlaceOf(t)' = PlaceOf(t), LandedOf(t)' = LandedOf(t)
    PROVE  UNCHANGED H!vars
<1>1. /\ Packed' = [Packed EXCEPT ![t] = Packed[t]]
      /\ Whereabouts' = [Whereabouts EXCEPT ![t] = Whereabouts[t]]
      /\ Landings' = [Landings EXCEPT ![t] = Landings[t]]
  BY OnlyOneSeen
<1>2. Packed' = Packed /\ Whereabouts' = Whereabouts /\ Landings' = Landings
  BY <1>1 DEF Packed, Whereabouts, Landings
<1> QED
  BY <1>2 DEF H!vars

-----------------------------------------------------------------------------
(* Every handler is a step of Haulage, or none *)

Alone(t) ==
    \A u \in Transfers \ {t} :
        doc'[u] = doc[u] /\ \A w \in Warehouses, s \in SKUs : journal'[u][w][s] = journal[u][w][s]

LEMMA AtHomePacks ==
    ASSUME IInv, AllSeen, AllSeen', NEW t \in Transfers, Alone(t),
           doc[t].status \notin Booked, doc'[t].status \notin Booked
    PROVE  H!Next
<1>1. /\ Packed' = [Packed EXCEPT ![t] = doc'[t].items]
      /\ Whereabouts' = [Whereabouts EXCEPT ![t] = PlaceOf(t)']
      /\ Landings' = [Landings EXCEPT ![t] = LandedOf(t)']
      /\ Whereabouts[t] = PlaceOf(t) /\ Landings[t] = LandedOf(t)
  BY OnlyOneSeen DEF Alone
<1>2. PlaceOf(t) = "home" /\ PlaceOf(t)' = "home"
  BY DEF PlaceOf, Booked
<1>3. LandedOf(t) = Nothing /\ LandedOf(t)' = Nothing /\ doc'[t].items \in Quantities
  BY DEF AllSeen, Seen
<1>4. Whereabouts' = Whereabouts /\ Landings' = Landings
  BY <1>1, <1>2, <1>3 DEF Whereabouts, Landings
<1>5. H!Pack(t, doc'[t].items)
  BY <1>1, <1>2, <1>4 DEF H!Pack
<1> QED
  BY <1>3, <1>5 DEF H!Next, H!Units, Quantities

LEMMA PrepareIsAlone ==
    ASSUME IInv, NEW t \in Transfers, Prepare(t) \/ FfTakesUp(t) \/ FfAssembled(t)
    PROVE  Alone(t) /\ doc[t].status \notin Booked /\ doc'[t].status \notin Booked
<1>1. doc \in [Transfers -> Document] /\ doc[t] \in Document
  BY DEF IInv, TypeOK
<1>2. ASSUME NEW d, doc' = [doc EXCEPT ![t] = d], journal' = journal
      PROVE  Alone(t) /\ doc'[t] = d
  BY <1>1, <1>2 DEF Alone
<1>3. ASSUME NEW new \in TransferStatus \ Booked, SetStatus(t, new), journal' = journal
      PROVE  Alone(t) /\ doc'[t].status \notin Booked
  <2>1. [doc[t] EXCEPT !.status = new].status = new
    BY <1>1 DEF Document
  <2> QED
    BY <1>2, <1>3, <2>1 DEF SetStatus
<1>4. ASSUME NEW new \in TransferStatus \ Booked, NEW c,
             doc' = [doc EXCEPT ![t].status = new, ![t].carrier = c], journal' = journal
      PROVE  Alone(t) /\ doc'[t].status \notin Booked
  <2>1. [doc[t] EXCEPT !.status = new, !.carrier = c].status = new
    BY <1>1 DEF Document
  <2>2. doc' = [doc EXCEPT ![t] = [doc[t] EXCEPT !.status = new, !.carrier = c]]
    BY <1>4
  <2> QED
    BY <1>2, <1>4, <2>1, <2>2
<1>5. ASSUME NEW route \in Routes, NEW items \in Quantities, NEW isDefect \in BOOLEAN,
             Create(t, route, items, isDefect)
      PROVE  Alone(t) /\ doc[t].status \notin Booked /\ doc'[t].status \notin Booked
  BY <1>1, <1>5 DEF Alone, Create, StockKept, Exists, Absent, Booked
<1>6. ASSUME NEW route \in Routes, NEW items \in Quantities, NEW isDefect \in BOOLEAN,
             Update(t, route, items, isDefect)
      PROVE  Alone(t) /\ doc[t].status \notin Booked /\ doc'[t].status \notin Booked
  <2> DEFINE d == [doc[t] EXCEPT !.from = route[1], !.to = route[2], !.items = items, !.isDefect = isDefect]
  <2>1. d.status = doc[t].status
    BY <1>1 DEF Document
  <2>2. doc' = [doc EXCEPT ![t] = d] /\ journal' = journal /\ doc[t].status \notin Booked
    BY <1>6 DEF Update, StockKept, TRANSFER_EDITABLE_STATUSES, Booked
  <2> HIDE DEF d
  <2> QED
    BY <1>2, <2>1, <2>2
<1>7. CASE MarkReady(t) \/ FfAssembled(t) \/ FfTakesUp(t) \/ Cancel(t)
  <2>1. doc[t].status \notin Booked
    BY <1>7, TableSteps DEF MarkReady, FfAssembled, FfTakesUp, Cancel, TRANSFER_PRE_SHIP_STATUSES, Booked, IInv
  <2>2. \E new \in TransferStatus \ Booked : SetStatus(t, new) /\ journal' = journal
    BY <1>7 DEF MarkReady, FfAssembled, FfTakesUp, Cancel, StockKept, TransferStatus, Booked
  <2> QED
    BY <1>3, <2>1, <2>2
<1>8. ASSUME NEW carrier \in Carriers, ApplyVehicle(t, carrier)
      PROVE  Alone(t) /\ doc[t].status \notin Booked /\ doc'[t].status \notin Booked
  <2>1. doc[t].status \notin Booked
    BY <1>1, <1>8 DEF ApplyVehicle, MayBecome, Exists, Absent, TRANSFER_TRANSITIONS, Booked, TransferStatus, Document
  <2> QED
    BY <1>4, <1>8, <2>1 DEF ApplyVehicle, StockKept, TransferStatus, Booked
<1>9. CASE UnassignVehicle(t)
  BY <1>4, <1>9 DEF UnassignVehicle, StockKept, TransferStatus, Booked
<1> QED
  BY <1>5, <1>6, <1>7, <1>8, <1>9 DEF Prepare, AssignVehicle, ApplyGazelka

\* A departure: nothing of the load has landed yet.
LEMMA SendDeparts ==
    ASSUME IInv, Routed, AllSeen, AllSeen', NEW t \in Transfers, NEW noLogistics \in BOOLEAN,
           Send(t, TransferStatus, noLogistics)
    PROVE  H!Next
<1>1. /\ doc[t].status \notin Booked /\ doc[t].items # Nothing /\ SetStatus(t, "SHIPPED")
      /\ journal' = [journal EXCEPT ![t][doc[t].from] =
                       [s \in SKUs |-> BookOut(journal[t][doc[t].from][s], doc[t].items[s])]]
  BY DEF Send, HasItems, TRANSFER_SEND_FROM, Booked
<1>2. doc'[t].status = "SHIPPED" /\ doc'[t].items = doc[t].items /\ doc'[t].to = doc[t].to
      /\ \A u \in Transfers \ {t} : doc'[u] = doc[u]
  BY <1>1 DEF SetStatus, IInv, TypeOK, Document
<1>3. Alone(t)
  BY <1>1, <1>2 DEF Alone, IInv, TypeOK
<1>4. LandedOf(t)' = LandedOf(t)
  BY <1>2, RoutedSend DEF LandedOf, Landed
<1>5. /\ Packed' = [Packed EXCEPT ![t] = doc'[t].items]
      /\ Whereabouts' = [Whereabouts EXCEPT ![t] = PlaceOf(t)']
      /\ Landings' = [Landings EXCEPT ![t] = LandedOf(t)']
      /\ Packed[t] = doc[t].items /\ Whereabouts[t] = PlaceOf(t) /\ Landings[t] = LandedOf(t)
  BY <1>3, OnlyOneSeen DEF Alone
<1>6. PlaceOf(t) = "home" /\ PlaceOf(t)' = "road"
  BY <1>1, <1>2 DEF PlaceOf, Booked
<1>7. Packed' = Packed /\ Landings' = Landings
  BY <1>2, <1>4, <1>5 DEF Packed, Landings
<1>8. H!Depart(t)
  BY <1>1, <1>5, <1>6, <1>7 DEF H!Depart, H!Nothing, Nothing
<1> QED
  BY <1>8 DEF H!Next

\* A credit lands a part of the load, or the last of it.
LEMMA CreditLands ==
    ASSUME IInv, Routed, AllSeen, AllSeen', NEW t \in Transfers, NEW new \in {"SHIPPED", "DELIVERED"},
           NEW good \in [SKUs -> Nat], NEW bad \in [SKUs -> Nat],
           doc[t].status = "SHIPPED", SetStatus(t, new), Credit(t, good, bad),
           new = "SHIPPED" => \E s \in SKUs : good[s] + bad[s] # Remaining(t, s)
    PROVE  H!Next
<1> DEFINE units == [s \in SKUs |-> Landed(t, doc[t].to, s) + good[s] + bad[s]]
<1>1. doc'[t].status = new /\ doc'[t].items = doc[t].items /\ doc'[t].to = doc[t].to
      /\ \A u \in Transfers \ {t} : doc'[u] = doc[u]
  BY DEF SetStatus, IInv, TypeOK, Document
<1>2. Alone(t)
  BY <1>1, CreditBooks DEF Alone
<1>3. LandedOf(t)' = units
  BY <1>1, CreditBooks DEF LandedOf
<1>4. ASSUME NEW s \in SKUs
      PROVE  /\ Landed(t, doc[t].to, s) \in Nat /\ doc[t].items[s] \in 0..MaxQty
             /\ Remaining(t, s) = doc[t].items[s] - Landed(t, doc[t].to, s)
             /\ LandedOf(t)[s] = Landed(t, doc[t].to, s)
  BY ReceivedIsLanded, RemainingTyped DEF Routed, IInv, LandedOf
<1>5. /\ Packed' = [Packed EXCEPT ![t] = doc'[t].items]
      /\ Whereabouts' = [Whereabouts EXCEPT ![t] = PlaceOf(t)']
      /\ Landings' = [Landings EXCEPT ![t] = LandedOf(t)']
      /\ Packed[t] = doc[t].items /\ Whereabouts[t] = PlaceOf(t) /\ Landings[t] = LandedOf(t)
  BY <1>2, OnlyOneSeen DEF Alone
<1>6. PlaceOf(t) = "road" /\ PlaceOf(t)' = IF new = "SHIPPED" THEN "road" ELSE "there"
  BY <1>1 DEF PlaceOf
<1>7. \A s \in SKUs : units[s] \in LandedOf(t)[s]..doc[t].items[s]
  <2>1. ASSUME NEW s \in SKUs
        PROVE  units[s] \in Nat /\ units[s] <= doc[t].items[s] /\ LandedOf(t)[s] <= units[s]
               /\ LandedOf(t)[s] \in Nat /\ doc[t].items[s] \in Nat
    <3>1. new = "SHIPPED" => units[s] \in 0..doc[t].items[s]
      BY <1>1, <1>3 DEF AllSeen, Seen
    <3>2. new = "DELIVERED" => units[s] = doc[t].items[s]
      BY <1>1, <1>3 DEF AllSeen, Seen
    <3>3. units[s] = Landed(t, doc[t].to, s) + good[s] + bad[s] /\ good[s] \in Nat /\ bad[s] \in Nat
      OBVIOUS
    <3> HIDE DEF units
    <3> QED
      BY <1>4, <3>1, <3>2, <3>3
  <2> HIDE DEF units
  <2> QED
    BY <2>1
<1>8. new = "DELIVERED" <=> units = doc[t].items
  <2>1. new = "DELIVERED" => units = doc[t].items
    BY <1>1, <1>3 DEF AllSeen, Seen
  <2>2. ASSUME new = "SHIPPED", units = doc[t].items
        PROVE  FALSE
    <3>1. PICK s \in SKUs : good[s] + bad[s] # Remaining(t, s)
      BY <2>2
    <3>2. units[s] = Landed(t, doc[t].to, s) + good[s] + bad[s]
      OBVIOUS
    <3> QED
      BY <1>4, <2>2, <3>1, <3>2
  <2> QED
    BY <2>1, <2>2
<1>9. units \in H!Units
  <2>1. \A s \in SKUs : units[s] \in 0..MaxQty
    <3> HIDE DEF units
    <3> QED
      BY <1>4, <1>7, BoundsAssumption
  <2> QED
    BY <2>1 DEF H!Units
<1> HIDE DEF units
<1>10. Packed' = Packed
  BY <1>1, <1>5 DEF Packed
<1>11. H!Land(t, units)
  <2>1. Whereabouts' = [Whereabouts EXCEPT ![t] = IF units = Packed[t] THEN "there" ELSE "road"]
    BY <1>5, <1>6, <1>8
  <2>2. Whereabouts[t] = "road" /\ Landings' = [Landings EXCEPT ![t] = units]
    BY <1>3, <1>5, <1>6
  <2>3. \A s \in SKUs : units[s] \in Landings[t][s]..Packed[t][s]
    BY <1>5, <1>7
  <2> QED
    BY <1>10, <2>1, <2>2, <2>3 DEF H!Land
<1> QED
  BY <1>9, <1>11 DEF H!Next

LEMMA CompleteLands ==
    ASSUME IInv, Routed, AllSeen, AllSeen', NEW t \in Transfers, Complete(t)
    PROVE  H!Next
<1> DEFINE good == [s \in SKUs |-> AsGood(doc[t].isDefect, Remaining(t, s))]
           bad  == [s \in SKUs |-> AsDefect(doc[t].isDefect, Remaining(t, s))]
<1>1. good \in [SKUs -> Nat] /\ bad \in [SKUs -> Nat]
  BY RemainingTyped DEF IInv, AsGood, AsDefect
<1>2. Credit(t, good, bad) /\ SetStatus(t, "DELIVERED")
  BY DEF Complete
<1>3. doc[t].status = "SHIPPED"
  BY TableSteps DEF Complete, IInv
<1> HIDE DEF good, bad
<1> QED
  BY <1>1, <1>2, <1>3, CreditLands

LEMMA FactLands ==
    ASSUME IInv, Routed, AllSeen, AllSeen', NEW t \in Transfers,
           NEW fact \in Quantities, NEW flaws \in Quantities, ReceiveFact(t, fact, flaws)
    PROVE  H!Next
<1>1. PICK g \in [SKUs -> Nat], b \in [SKUs -> Nat] :
         /\ Credit(t, g, b)
         /\ doc' = IF \A s \in SKUs : g[s] + b[s] = Remaining(t, s)
                   THEN [doc EXCEPT ![t].status = "DELIVERED"] ELSE doc
  BY FactCredits
<1>2. doc[t].status = "SHIPPED"
  BY DEF ReceiveFact
<1>3. CASE \A s \in SKUs : g[s] + b[s] = Remaining(t, s)
  BY <1>1, <1>2, <1>3, CreditLands DEF SetStatus
<1>4. CASE ~\A s \in SKUs : g[s] + b[s] = Remaining(t, s)
  <2>1. doc = [doc EXCEPT ![t].status = "SHIPPED"]
    BY <1>2 DEF IInv, TypeOK, Document
  <2> QED
    BY <1>1, <1>2, <1>4, <2>1, CreditLands DEF SetStatus
<1> QED
  BY <1>3, <1>4

\* A return takes off again all that has landed.
LEMMA ReturnRecalls ==
    ASSUME IInv, AllSeen, AllSeen', NEW t \in Transfers, ReturnTransfer(t)
    PROVE  H!Next
<1>1. doc[t].status \in {"SHIPPED", "DELIVERED"} /\ SetStatus(t, "RETURNED")
  BY TableSteps DEF ReturnTransfer, IInv
<1>2. doc'[t].status = "RETURNED" /\ doc'[t].items = doc[t].items /\ \A u \in Transfers \ {t} : doc'[u] = doc[u]
  BY <1>1 DEF SetStatus, IInv, TypeOK, Document
<1>3. Alone(t)
  BY <1>2, ReturnBooks DEF Alone
<1>4. /\ Packed' = [Packed EXCEPT ![t] = doc'[t].items]
      /\ Whereabouts' = [Whereabouts EXCEPT ![t] = PlaceOf(t)']
      /\ Landings' = [Landings EXCEPT ![t] = LandedOf(t)']
      /\ Packed[t] = doc[t].items /\ Whereabouts[t] = PlaceOf(t)
  BY <1>3, OnlyOneSeen DEF Alone
<1>5. PlaceOf(t) \in {"road", "there"} /\ PlaceOf(t)' = "home"
  BY <1>1, <1>2 DEF PlaceOf
<1>6. LandedOf(t)' = Nothing
  BY <1>2 DEF AllSeen, Seen, Booked
<1>7. Packed' = Packed
  BY <1>2, <1>4 DEF Packed
<1>8. H!Recall(t)
  BY <1>4, <1>5, <1>6, <1>7 DEF H!Recall, H!Nothing, Nothing
<1> QED
  BY <1>8 DEF H!Next

\* Closing a transfer and pricing its trip change nothing a counter sees.
LEMMA SettleUnseen ==
    ASSUME IInv, AllSeen, NEW t \in Transfers, Settle(t)
    PROVE  UNCHANGED H!vars
<1>1. journal' = journal /\ \E d \in Document :
         /\ doc' = [doc EXCEPT ![t] = d] /\ d.items = doc[t].items /\ d.to = doc[t].to
         /\ \/ d.status = doc[t].status
            \/ d.status = "CLOSED" /\ doc[t].status \in {"DELIVERED", "RETURNED"}
  <2>1. CASE Close(t)
    <3> DEFINE d == [doc[t] EXCEPT !.status = "CLOSED"]
    <3>1. doc' = [doc EXCEPT ![t] = d] /\ journal' = journal
      BY <2>1 DEF Close, SetStatus, StockKept
    <3>2. doc[t].status \in {"DELIVERED", "RETURNED"}
      BY <2>1, TableSteps DEF Close, IInv
    <3>3. d \in Document /\ d.status = "CLOSED" /\ d.items = doc[t].items /\ d.to = doc[t].to
      BY DocumentParts DEF TransferStatus
    <3> HIDE DEF d
    <3> QED
      BY <3>1, <3>2, <3>3
  <2>2. CASE \E c \in Carriers : SetLogistics(t, c)
    <3> PICK c \in Carriers : SetLogistics(t, c)
      BY <2>2
    <3> DEFINE d == [doc[t] EXCEPT !.carrier = c]
    <3>1. doc' = [doc EXCEPT ![t] = d] /\ journal' = journal
      BY DEF SetLogistics, StockKept
    <3>2. d \in Document /\ d.status = doc[t].status /\ d.items = doc[t].items /\ d.to = doc[t].to
      BY DocumentParts
    <3> HIDE DEF d
    <3> QED
      BY <3>1, <3>2
  <2> QED
    BY <2>1, <2>2 DEF Settle
<1>2. PICK d \in Document :
         /\ doc' = [doc EXCEPT ![t] = d] /\ d.items = doc[t].items /\ d.to = doc[t].to
         /\ \/ d.status = doc[t].status
            \/ d.status = "CLOSED" /\ doc[t].status \in {"DELIVERED", "RETURNED"}
  BY <1>1
<1>3. doc'[t] = d /\ \A u \in Transfers \ {t} : doc'[u] = doc[u]
  BY <1>2 DEF IInv, TypeOK
<1>4. LandedOf(t)' = LandedOf(t)
  BY <1>1, <1>2, <1>3 DEF LandedOf, Landed
<1>5. PlaceOf(t)' = PlaceOf(t)
  <2>1. CASE d.status = doc[t].status
    BY <1>3, <1>4, <2>1 DEF PlaceOf
  <2>2. CASE d.status = "CLOSED" /\ doc[t].status = "DELIVERED"
    <3>1. LandedOf(t) # Nothing
      BY <2>2 DEF AllSeen, Seen
    <3> QED
      BY <1>3, <1>4, <2>2, <3>1 DEF PlaceOf
  <2>3. CASE d.status = "CLOSED" /\ doc[t].status = "RETURNED"
    <3>1. LandedOf(t) = Nothing
      BY <2>3 DEF AllSeen, Seen, Booked
    <3> QED
      BY <1>3, <1>4, <2>3, <3>1 DEF PlaceOf
  <2> QED
    BY <1>2, <2>1, <2>2, <2>3
<1> QED
  BY <1>1, <1>2, <1>3, <1>4, <1>5, Unseen

LEMMA HaulageStep ==
    ASSUME RerouteAfterTrip = FALSE, IInv, Routed, [Next]_vars
    PROVE  [H!Next]_(H!vars)
<1>1. IInv' /\ Routed' /\ AllSeen /\ AllSeen'
  <2>1. IInv' /\ Routed'
    BY NextInv, RoutedStep
  <2> QED
    BY <2>1, SeenAlways, SeenNext
<1>2. ASSUME NEW t \in Transfers, Prepare(t) \/ FfTakesUp(t) \/ FfAssembled(t)
      PROVE  H!Next
  BY <1>1, <1>2, PrepareIsAlone, AtHomePacks
<1>3. ASSUME NEW t \in Transfers, Travel(t) \/ \E good, bad \in Quantities : ReceiveFact(t, good, bad)
      PROVE  H!Next
  BY <1>1, <1>3, SendDeparts, CompleteLands, ReturnRecalls, FactLands DEF Travel
<1>4. ASSUME NEW t \in Transfers, Settle(t)
      PROVE  UNCHANGED H!vars
  BY <1>1, <1>4, SettleUnseen
<1>5. ASSUME UNCHANGED <<doc, journal>>
      PROVE  UNCHANGED H!vars
  BY <1>5 DEF H!vars, Packed, Whereabouts, Landings, PlaceOf, LandedOf, Landed
<1>6. ASSUME NEW t \in Transfers, GazelkaLetsGo(t) \/ GazelkaLeads(t)
      PROVE  UNCHANGED H!vars
  BY <1>5, <1>6 DEF GazelkaLetsGo, GazelkaLeads
<1>7. ASSUME NEW w \in Warehouses, NEW s \in SKUs, NEW delta \in Corrections, Adjust(w, s, delta)
      PROVE  UNCHANGED H!vars
  BY <1>5, <1>7 DEF Adjust
<1>8. CASE UNCHANGED vars
  BY <1>5, <1>8 DEF vars
<1> QED
  BY <1>2, <1>3, <1>4, <1>6, <1>7, <1>8, AggregatedAssumption DEF Next, FfReports

LEMMA InitHaulage == Init => H!Init
<1> SUFFICES ASSUME Init PROVE H!Init
  OBVIOUS
<1>1. \A t \in Transfers : doc[t].status = Absent /\ doc[t].items = Nothing /\ doc[t].to \in Warehouses
  BY WarehousesAssumption DEF Init
<1>2. ASSUME NEW t \in Transfers
      PROVE  PlaceOf(t) = "home" /\ LandedOf(t) = Nothing
  <2>1. \A s \in SKUs : Landed(t, doc[t].to, s) = 0
    BY <1>1 DEF Init, Landed
  <2> QED
    BY <1>1, <2>1 DEF PlaceOf, Absent, LandedOf, Nothing
<1> QED
  BY <1>1, <1>2 DEF H!Init, H!Nothing, Nothing, Packed, Whereabouts, Landings

\* Every handler of a transfer, in any order and for any number of transfers over the
\* same rows, packs, sends off, lands or recalls the load, or does nothing a counter
\* sees, as long as nobody changes the route of a transfer that has travelled.
THEOREM ImplementsHaulage ==
    ASSUME RerouteAfterTrip = FALSE
    PROVE  Spec => HaulageSpec
<1>1. IInv /\ Routed /\ [Next]_vars => IInv' /\ Routed'
  BY NextInv, RoutedStep
<1>2. IInv /\ Routed /\ [Next]_vars => [H!Next]_(H!vars)
  BY HaulageStep
<1> QED
  BY InitInv, InitRouted, InitHaulage, <1>1, <1>2, PTL DEF Spec, HaulageSpec, H!Spec

-----------------------------------------------------------------------------
(* Totals. *)

\* One argument's units are as many as the function says.
LEMMA UnitsOfOne ==
    ASSUME NEW x, NEW n \in Nat
    PROVE  IsFiniteSet({x} \X (1..n)) /\ Cardinality({x} \X (1..n)) = n
<1> DEFINE h == [i \in 1..n |-> <<x, i>>]
<1>1. IsFiniteSet(1..n) /\ Cardinality(1..n) = n
  BY FS_Interval
<1>2. h \in Bijection(1..n, {x} \X (1..n))
  BY DEF Bijection, Injection, Surjection, IsInjective
<1>3. ExistsBijection(1..n, {x} \X (1..n))
  BY <1>2 DEF ExistsBijection
<1> QED
  BY <1>1, <1>3, FS_Bijection, FS_SameCardinalityBij

\* A total is a natural number: a function on a finite set counts finitely
\* many units.
LEMMA TotalTyped ==
    ASSUME NEW D, IsFiniteSet(D), NEW f \in [D -> Nat]
    PROVE  IsFiniteSet(UnitsIn(f)) /\ Total(f) \in Nat
<1> DEFINE Mine == {{x} \X (1..f[x]) : x \in D}
           h    == [x \in D |-> {x} \X (1..f[x])]
<1>1. IsFiniteSet(Mine)
  <2>1. h \in Surjection(D, Mine)
    BY DEF Surjection
  <2> QED
    BY <2>1, FS_Surjection
<1>2. ASSUME NEW T \in Mine
      PROVE  IsFiniteSet(T)
  <2>1. PICK x \in D : T = {x} \X (1..f[x])
    OBVIOUS
  <2>2. f[x] \in Nat
    OBVIOUS
  <2> QED
    BY <2>1, <2>2, UnitsOfOne
<1>3. IsFiniteSet(UNION Mine)
  BY <1>1, <1>2, FS_UNION
<1>4. UnitsIn(f) = UNION Mine
  BY DEF UnitsIn
<1> QED
  BY <1>3, <1>4, FS_CardinalityType DEF Total

\* One argument's share can be counted by itself.
LEMMA TotalSplit ==
    ASSUME NEW D, IsFiniteSet(D), NEW f \in [D -> Nat], NEW x \in D,
           NEW g \in [D \ {x} -> Nat], \A y \in D \ {x} : g[y] = f[y]
    PROVE  Total(f) = Total(g) + f[x]
<1> DEFINE one == {x} \X (1..f[x])
<1>1. IsFiniteSet(one) /\ Cardinality(one) = f[x]
  BY UnitsOfOne
<1>2. IsFiniteSet(D \ {x})
  BY FS_Subset
<1>3. IsFiniteSet(UnitsIn(g)) /\ Total(g) \in Nat
  BY <1>2, TotalTyped
<1>4. UnitsIn(f) = UnitsIn(g) \cup one
  BY DEF UnitsIn
<1>5. UnitsIn(g) \cap one = {}
  BY DEF UnitsIn
<1>6. Cardinality(UnitsIn(g) \cap one) = 0
  BY <1>5, FS_EmptySet
<1>7. Cardinality(UnitsIn(f)) = Cardinality(UnitsIn(g)) + Cardinality(one) - Cardinality(UnitsIn(g) \cap one)
  BY <1>1, <1>3, <1>4, FS_Union
<1> QED
  BY <1>1, <1>3, <1>6, <1>7 DEF Total

\* One argument's share changes.
LEMMA TotalWritten ==
    ASSUME NEW D, IsFiniteSet(D), NEW f \in [D -> Nat], NEW g \in [D -> Nat], NEW x \in D,
           \A y \in D \ {x} : g[y] = f[y]
    PROVE  /\ Total(f) \in Nat /\ Total(g) \in Nat
           /\ Total(g) = Total(f) - f[x] + g[x]
           /\ f[x] <= Total(f)
<1> DEFINE rest == [y \in D \ {x} |-> f[y]]
<1>1. rest \in [D \ {x} -> Nat] /\ \A y \in D \ {x} : rest[y] = f[y] /\ rest[y] = g[y]
  OBVIOUS
<1> HIDE DEF rest
<1>2. IsFiniteSet(D \ {x})
  BY FS_Subset
<1>3. Total(rest) \in Nat
  BY <1>1, <1>2, TotalTyped
<1>4. Total(f) = Total(rest) + f[x]
  BY <1>1, TotalSplit
<1>5. Total(g) = Total(rest) + g[x]
  BY <1>1, TotalSplit
<1>6. f[x] \in Nat /\ g[x] \in Nat
  OBVIOUS
<1> QED
  BY <1>3, <1>4, <1>5, <1>6

-----------------------------------------------------------------------------
(* What the stock rows say of all transfers together *)

Balances == {"transit", "defectTransit"}

Units(row) == row.quantity + row.defect + row.transit + row.defectTransit

\* The moves of a row's balances keep count, as long as no clamp bites.
LEMMA AddToCounts ==
    ASSUME NEW row \in StockRow, NEW good \in Int, NEW bad \in Int
    PROVE  /\ Units(AddTo(row, good, bad)) = Units(row) + good + bad
           /\ \A k \in Balances : AddTo(row, good, bad)[k] = row[k]
  BY DEF AddTo, StockRow, Units, Balances

LEMMA HangCounts ==
    ASSUME NEW row \in StockRow, NEW isDefect \in BOOLEAN, NEW n \in Nat
    PROVE  /\ Units(Hang(row, isDefect, n)) = Units(row) + n
           /\ \A k \in Balances :
                Hang(row, isDefect, n)[k] = row[k] + IF k = Balance(isDefect) THEN n ELSE 0
  BY DEF Hang, StockRow, Units, Balances, Balance

LEMMA UnhangCounts ==
    ASSUME NEW row \in [quantity : Int, defect : Int, transit : Nat, defectTransit : Nat],
           NEW isDefect \in BOOLEAN, NEW n \in Nat, n <= row[Balance(isDefect)]
    PROVE  /\ Units(Unhang(row, isDefect, n)) = Units(row) - n
           /\ \A k \in Balances :
                Unhang(row, isDefect, n)[k] = row[k] - IF k = Balance(isDefect) THEN n ELSE 0
<1>1. CASE isDefect
  <2>1. n <= row.defectTransit /\ Pos(row.defectTransit - n) = row.defectTransit - n
    BY <1>1 DEF Balance, Pos
  <2>2. Unhang(row, isDefect, n) = [row EXCEPT !.defectTransit = row.defectTransit - n]
    BY <1>1, <2>1 DEF Unhang
  <2> DEFINE m == row.defectTransit - n
  <2>3. m \in Nat /\ m = row.defectTransit - n /\ row.defectTransit \in Nat
    BY <2>1
  <2> HIDE DEF m
  <2> DEFINE new == Unhang(row, isDefect, n)
  <2>4. /\ new.quantity = row.quantity /\ new.defect = row.defect
        /\ new.transit = row.transit /\ new.defectTransit = m
    BY <2>2 DEF m
  <2> HIDE DEF new
  <2>5. Units(new) = Units(row) - n
    BY <2>3, <2>4 DEF Units
  <2>6. \A k \in Balances : new[k] = row[k] - IF k = Balance(isDefect) THEN n ELSE 0
    BY <1>1, <2>3, <2>4 DEF Balance, Balances
  <2> QED
    BY <2>5, <2>6 DEF new
<1>2. CASE ~isDefect
  <2>1. n <= row.transit /\ Pos(row.transit - n) = row.transit - n
    BY <1>2 DEF Balance, Pos
  <2>2. Unhang(row, isDefect, n) = [row EXCEPT !.transit = row.transit - n]
    BY <1>2, <2>1 DEF Unhang
  <2> DEFINE m == row.transit - n
  <2>3. m \in Nat /\ m = row.transit - n /\ row.transit \in Nat
    BY <2>1
  <2> HIDE DEF m
  <2> DEFINE new == Unhang(row, isDefect, n)
  <2>4. /\ new.quantity = row.quantity /\ new.defect = row.defect
        /\ new.defectTransit = row.defectTransit /\ new.transit = m
    BY <2>2 DEF m
  <2> HIDE DEF new
  <2>5. Units(new) = Units(row) - n
    BY <2>3, <2>4 DEF Units
  <2>6. \A k \in Balances : new[k] = row[k] - IF k = Balance(isDefect) THEN n ELSE 0
    BY <1>2, <2>3, <2>4 DEF Balance, Balances
  <2> QED
    BY <2>5, <2>6 DEF new
<1> QED
  BY <1>1, <1>2

\* What is credited and leaves the road, or goes back and off it: the balances
\* on hand change by good and bad, the one in transit by n.
LEMMA CreditCounts ==
    ASSUME NEW row \in StockRow, NEW good \in Int, NEW bad \in Int,
           NEW isDefect \in BOOLEAN, NEW n \in Nat, n <= row[Balance(isDefect)]
    PROVE  /\ Units(Unhang(AddTo(row, good, bad), isDefect, n)) = Units(row) + good + bad - n
           /\ \A k \in Balances :
                Unhang(AddTo(row, good, bad), isDefect, n)[k]
                  = row[k] - IF k = Balance(isDefect) THEN n ELSE 0
<1> DEFINE put == AddTo(row, good, bad)
<1>1. /\ Units(put) = Units(row) + good + bad
      /\ \A k \in Balances : put[k] = row[k]
  BY AddToCounts
<1>2. put \in [quantity : Int, defect : Int, transit : Nat, defectTransit : Nat]
  <2>1. row.quantity + good \in Int /\ row.defect + bad \in Int
    BY DEF StockRow
  <2> QED
    BY <2>1 DEF AddTo, StockRow
<1>3. Units(row) \in Int /\ Balance(isDefect) \in Balances
  BY DEF Units, StockRow, Balance, Balances
<1> HIDE DEF put
<1>4. n <= put[Balance(isDefect)]
  BY <1>1, <1>3
<1>5. /\ Units(Unhang(put, isDefect, n)) = Units(put) - n
      /\ \A k \in Balances :
           Unhang(put, isDefect, n)[k] = put[k] - IF k = Balance(isDefect) THEN n ELSE 0
  BY <1>2, <1>4, UnhangCounts
<1>6. Units(Unhang(put, isDefect, n)) = Units(row) + good + bad - n
  BY <1>1, <1>3, <1>5
<1>7. \A k \in Balances :
           Unhang(put, isDefect, n)[k] = row[k] - IF k = Balance(isDefect) THEN n ELSE 0
  BY <1>1, <1>5
<1> QED
  BY <1>6, <1>7 DEF put

LEMMA RowCounts ==
    ASSUME TypeOK, NEW w \in Warehouses, NEW s \in SKUs
    PROVE  /\ stock[w][s] \in StockRow
           /\ UnitsAt(w, s) = Units(stock[w][s]) /\ UnitsAt(w, s) \in Nat
           /\ \A k \in Balances : stock[w][s][k] \in Nat
<1>1. stock[w][s] \in StockRow
  BY DEF TypeOK
<1> QED
  BY <1>1 DEF UnitsAt, Units, Balances, StockRow

LEMMA OwesTyped ==
    ASSUME TypeOK, NEW t \in Transfers, NEW w \in Warehouses, NEW s \in SKUs, NEW k
    PROVE  Owes(t, w, s, k) \in Nat
  BY RemainingTyped DEF Owes

AllOwe ==
    \A t \in Transfers, w \in Warehouses, s \in SKUs, k \in Balances : Owes(t, w, s, k) \in Nat

LEMMA OwesNext == TypeOK' => AllOwe'
<1>1. TypeOK => AllOwe
  BY OwesTyped DEF AllOwe
<1> QED
  BY <1>1, PTL

UnitsTold ==
    \A s \in SKUs :
        Total([w \in Warehouses |-> UnitsAt(w, s)])
          = Total([w \in Warehouses |-> OpenedWith(w, s)]) + adjusted[s]

TransitTold ==
    \A w \in Warehouses, s \in SKUs, k \in Balances :
        stock[w][s][k] = Total([t \in Transfers |-> Owes(t, w, s, k)])

AllArrived == \A t \in Transfers, s \in SKUs : Arrived(t) => Received(t, s) = doc[t].items[s]

Balanced == UnitsTold /\ TransitTold /\ AllArrived

\* A transfer on the road is part of what its receiver's row shows.
LEMMA OwedAtMost ==
    ASSUME TypeOK, TransitTold, NEW t \in Transfers, OnTheRoad(t), NEW s \in SKUs
    PROVE  Remaining(t, s) <= stock[doc[t].to][s][Balance(doc[t].isDefect)]
<1> DEFINE w == doc[t].to
           k == Balance(doc[t].isDefect)
           f == [u \in Transfers |-> Owes(u, w, s, k)]
<1>1. w \in Warehouses /\ k \in Balances
  BY DEF TypeOK, Document, Balance, Balances
<1>2. f[t] = Remaining(t, s)
  BY DEF Owes
<1>3. stock[w][s][k] = Total(f)
  BY <1>1 DEF TransitTold
<1> HIDE DEF w, k
<1>4. f \in [Transfers -> Nat]
  BY <1>1, OwesTyped
<1> HIDE DEF f
<1>5. f[t] <= Total(f)
  BY <1>4, TransfersAssumption, TotalWritten
<1> QED
  BY <1>2, <1>3, <1>5 DEF w, k

\* One transfer owes more or less, and the rows it is counted in show it.
LEMMA TransitStep ==
    ASSUME TypeOK, TypeOK', TransitTold, NEW t \in Transfers,
           \A u \in Transfers \ {t} : /\ doc'[u] = doc[u]
                                      /\ \A w \in Warehouses, s \in SKUs : journal'[u][w][s] = journal[u][w][s],
           \A w \in Warehouses, s \in SKUs, k \in Balances :
               stock'[w][s][k] = stock[w][s][k] - Owes(t, w, s, k) + Owes(t, w, s, k)'
    PROVE  TransitTold'
<1> SUFFICES ASSUME NEW w \in Warehouses, NEW s \in SKUs, NEW k \in Balances
             PROVE  stock'[w][s][k] = Total([u \in Transfers |-> Owes(u, w, s, k)'])
  BY DEF TransitTold
<1> DEFINE f == [u \in Transfers |-> Owes(u, w, s, k)]
           g == [u \in Transfers |-> Owes(u, w, s, k)']
<1>1. ASSUME NEW u \in Transfers \ {t}
      PROVE  Owes(u, w, s, k)' = Owes(u, w, s, k)
  <2>1. doc'[u] = doc[u] /\ doc[u].to \in Warehouses
    BY DEF TypeOK, Document
  <2>2. journal'[u][doc[u].to][s] = journal[u][doc[u].to][s]
    BY <2>1
  <2>3. Received(u, s)' = Received(u, s)
    BY <2>1, <2>2 DEF Received, Landed
  <2>4. Remaining(u, s)' = Remaining(u, s)
    BY <2>1, <2>3 DEF Remaining
  <2> QED
    BY <2>1, <2>4 DEF Owes, OnTheRoad
<1>2. f \in [Transfers -> Nat]
  BY OwesTyped
<1>3. g \in [Transfers -> Nat]
  BY OwesNext DEF AllOwe
<1>4. \A u \in Transfers \ {t} : g[u] = f[u]
  BY <1>1
<1>5. /\ stock[w][s][k] = Total(f)
      /\ stock'[w][s][k] = stock[w][s][k] - f[t] + g[t]
  BY DEF TransitTold
<1> HIDE DEF f, g
<1>6. Total(g) = Total(f) - f[t] + g[t]
  BY <1>2, <1>3, <1>4, TransfersAssumption, TotalWritten
<1> QED
  BY <1>5, <1>6 DEF g

AllCount ==
    \A w \in Warehouses, s \in SKUs : UnitsAt(w, s) = Units(stock[w][s]) /\ UnitsAt(w, s) \in Nat

LEMMA UnitsNext ==
    TypeOK' => \A w \in Warehouses, s \in SKUs :
                   UnitsAt(w, s)' = Units(stock'[w][s]) /\ UnitsAt(w, s)' \in Nat
<1>1. TypeOK => AllCount
  BY RowCounts DEF AllCount
<1>2. TypeOK' => AllCount'
  BY <1>1, PTL
<1> QED
  BY <1>2 DEF AllCount, Units

\* A move of n units from one warehouse to another.
LEMMA UnitsMove ==
    ASSUME TypeOK, TypeOK', UnitsTold, adjusted' = adjusted,
           NEW a \in Warehouses, NEW b \in Warehouses, a # b, NEW n \in [SKUs -> Int],
           \A w \in Warehouses \ {a, b}, s \in SKUs : stock'[w][s] = stock[w][s],
           \A s \in SKUs : /\ Units(stock'[a][s]) = Units(stock[a][s]) - n[s]
                           /\ Units(stock'[b][s]) = Units(stock[b][s]) + n[s]
    PROVE  UnitsTold'
<1> SUFFICES ASSUME NEW s \in SKUs
             PROVE  Total([w \in Warehouses |-> UnitsAt(w, s)'])
                      = Total([w \in Warehouses |-> OpenedWith(w, s)]) + adjusted[s]
  BY DEF UnitsTold, OpenedWith
<1> DEFINE f == [w \in Warehouses |-> UnitsAt(w, s)]
           g == [w \in Warehouses |-> UnitsAt(w, s)']
           h == [w \in Warehouses |-> IF w = a THEN UnitsAt(w, s)' ELSE UnitsAt(w, s)]
<1>1. \A w \in Warehouses : /\ UnitsAt(w, s) = Units(stock[w][s]) /\ UnitsAt(w, s) \in Nat
                            /\ UnitsAt(w, s)' = Units(stock'[w][s]) /\ UnitsAt(w, s)' \in Nat
  BY RowCounts, UnitsNext
<1>2. f \in [Warehouses -> Nat] /\ g \in [Warehouses -> Nat] /\ h \in [Warehouses -> Nat]
  BY <1>1
<1>3. /\ \A w \in Warehouses \ {a} : h[w] = f[w]
      /\ \A w \in Warehouses \ {b} : g[w] = h[w]
      /\ h[a] = f[a] - n[s] /\ h[b] = f[b] /\ g[b] = f[b] + n[s]
  BY <1>1
<1>4. Total(f) = Total([w \in Warehouses |-> OpenedWith(w, s)]) + adjusted[s]
  BY DEF UnitsTold
<1>5. n[s] \in Int
  OBVIOUS
<1> HIDE DEF f, g, h
<1>6. Total(h) = Total(f) - f[a] + h[a] /\ Total(f) \in Nat /\ Total(h) \in Nat
  BY <1>2, <1>3, WarehousesAssumption, TotalWritten
<1>7. Total(g) = Total(h) - h[b] + g[b]
  BY <1>2, <1>3, WarehousesAssumption, TotalWritten
<1>8. f[a] \in Nat /\ f[b] \in Nat
  BY <1>2
<1>9. Total(g) = Total(f)
  BY <1>3, <1>5, <1>6, <1>7, <1>8
<1> QED
  BY <1>4, <1>9 DEF g

\* No warehouse has more or less than before.
LEMMA UnitsStay ==
    ASSUME TypeOK, TypeOK', UnitsTold, adjusted' = adjusted,
           \A w \in Warehouses, s \in SKUs : Units(stock'[w][s]) = Units(stock[w][s])
    PROVE  UnitsTold'
<1>1. \A w \in Warehouses, s \in SKUs : UnitsAt(w, s)' = UnitsAt(w, s)
  BY RowCounts, UnitsNext
<1>2. \A s \in SKUs : [w \in Warehouses |-> UnitsAt(w, s)'] = [w \in Warehouses |-> UnitsAt(w, s)]
  BY <1>1
<1> QED
  BY <1>2 DEF UnitsTold, OpenedWith

-----------------------------------------------------------------------------
(* What every step keeps, while no transfer is credited where it left from *)

\* On the road or delivered, a transfer has been credited with a part of its plan.
LEMMA ReceivedWithin ==
    ASSUME IInv, EndsKeptApart, NEW t \in Transfers, NEW s \in SKUs,
           doc[t].status \in {"SHIPPED", "DELIVERED"}
    PROVE  /\ Received(t, s) \in Nat /\ doc[t].items[s] \in Nat
           /\ Received(t, s) <= doc[t].items[s]
           /\ Remaining(t, s) = doc[t].items[s] - Received(t, s)
<1>1. Received(t, s) \in Nat /\ doc[t].items[s] \in Nat /\ doc[t].to \in Warehouses
  BY RemainingTyped DEF IInv, TypeOK, Document
<1>2. Received(t, s) <= doc[t].items[s]
  <2>1. CASE NeverLeft(t, doc[t].to, s)
    BY <2>1, ReceivedIsLanded
  <2>2. CASE ~NeverLeft(t, doc[t].to, s)
    <3> DEFINE j == journal[t][doc[t].to][s]
    <3>1. j \in JournalRow
      BY <1>1 DEF IInv, TypeOK
    <3>2. j.inGood + j.inDefect = 0
      BY <1>1, <2>2 DEF EndsKeptApart, NeverLeft
    <3>3. Landed(t, doc[t].to, s) - j.out <= 0
      BY <3>1, <3>2 DEF Landed, JournalRow
    <3>4. Received(t, s) = 0
      BY <3>1, <3>3 DEF Received, Pos, Landed, JournalRow
    <3> QED
      BY <1>1, <3>4
  <2> QED
    BY <2>1, <2>2
<1> QED
  BY <1>1, <1>2 DEF Remaining, Pos

\* Nothing has been credited when a trip begins.
LEMMA NothingBefore ==
    ASSUME IInv, EndsKeptApart, NEW t \in Transfers, NEW s \in SKUs,
           doc[t].status \notin {"SHIPPED", "DELIVERED", "CLOSED"}
    PROVE  Received(t, s) = 0
<1> DEFINE j == journal[t][doc[t].to][s]
<1>1. doc[t].to \in Warehouses /\ j \in JournalRow
  BY DEF IInv, TypeOK, Document
<1>2. CASE NeverLeft(t, doc[t].to, s)
  <2>1. Landed(t, doc[t].to, s) = 0 /\ j.out = 0
    BY <1>1, <1>2 DEF IInv, Accounts, AccountOK, NeverLeft
  <2> QED
    BY <2>1 DEF Received, Pos
<1>3. CASE ~NeverLeft(t, doc[t].to, s)
  <2>1. j.inGood + j.inDefect = 0
    BY <1>1, <1>3 DEF EndsKeptApart, NeverLeft
  <2>2. Landed(t, doc[t].to, s) - j.out <= 0
    BY <1>1, <2>1 DEF Landed, JournalRow
  <2> QED
    BY <1>1, <2>2 DEF Received, Pos, Landed, JournalRow
<1> QED
  BY <1>2, <1>3

LEMMA SendBalanced ==
    ASSUME IInv, IInv', EndsKeptApart, Balanced, NEW t \in Transfers, NEW noLogistics \in BOOLEAN,
           Send(t, TransferStatus, noLogistics)
    PROVE  Balanced'
<1> DEFINE d == doc[t]
           left == [s \in SKUs |-> AddTo(stock[d.from][s], AsGood(d.isDefect, -d.items[s]),
                                                           AsDefect(d.isDefect, -d.items[s]))]
           hung == [s \in SKUs |-> Hang(stock[d.to][s], d.isDefect, d.items[s])]
           row  == [s \in SKUs |-> BookOut(journal[t][d.from][s], d.items[s])]
<1>0. TypeOK /\ TypeOK' /\ Exists(t) /\ d.status \in {"READY", "VEHICLE_ASSIGNED"}
  BY DEF IInv, Send, TRANSFER_SEND_FROM, Exists, Absent
<1>1. /\ d \in Document /\ d.from # d.to
      /\ d.from \in Warehouses /\ d.to \in Warehouses /\ d.isDefect \in BOOLEAN
      /\ \A s \in SKUs : d.items[s] \in Nat
      /\ d.items \in [SKUs -> Int]
  BY <1>0, RemainingTyped DEF IInv, TypeOK, TwoEnds, Document, Quantities
<1>2. stock' = [stock EXCEPT ![d.from] = left, ![d.to] = hung]
  BY <1>0, <1>1 DEF Send, TypeOK
<1>3. /\ \A s \in SKUs : stock'[d.from][s] = left[s] /\ stock'[d.to][s] = hung[s]
      /\ \A w \in Warehouses \ {d.from, d.to}, s \in SKUs : stock'[w][s] = stock[w][s]
  BY <1>0, <1>1, <1>2 DEF TypeOK
<1>4. ASSUME NEW s \in SKUs
      PROVE  /\ Units(left[s]) = Units(stock[d.from][s]) - d.items[s]
             /\ \A k \in Balances : left[s][k] = stock[d.from][s][k]
             /\ Units(hung[s]) = Units(stock[d.to][s]) + d.items[s]
             /\ \A k \in Balances :
                  hung[s][k] = stock[d.to][s][k] + IF k = Balance(d.isDefect) THEN d.items[s] ELSE 0
  <2>1. /\ stock[d.from][s] \in StockRow /\ stock[d.to][s] \in StockRow
        /\ d.items[s] \in Nat /\ d.isDefect \in BOOLEAN
    BY <1>0, <1>1, RowCounts
  <2>2. /\ AsGood(d.isDefect, -d.items[s]) \in Int
        /\ AsDefect(d.isDefect, -d.items[s]) \in Int
        /\ AsGood(d.isDefect, -d.items[s]) + AsDefect(d.isDefect, -d.items[s]) = -d.items[s]
    BY <2>1 DEF AsGood, AsDefect
  <2>3. Units(stock[d.from][s]) \in Int
    BY <2>1 DEF Units, StockRow
  <2> HIDE DEF d
  <2>4. /\ Units(left[s]) = Units(stock[d.from][s]) + AsGood(d.isDefect, -d.items[s])
                                                    + AsDefect(d.isDefect, -d.items[s])
        /\ \A k \in Balances : left[s][k] = stock[d.from][s][k]
    BY <2>1, <2>2, AddToCounts
  <2>5. Units(left[s]) = Units(stock[d.from][s]) - d.items[s]
    BY <2>1, <2>2, <2>3, <2>4
  <2> QED
    BY <2>1, <2>4, <2>5, HangCounts
<1>5. /\ doc'[t].status = "SHIPPED" /\ doc'[t].to = d.to /\ doc'[t].items = d.items
      /\ doc'[t].isDefect = d.isDefect
      /\ \A u \in Transfers \ {t} : doc'[u] = doc[u]
      /\ adjusted' = adjusted
  BY <1>0, <1>1 DEF Send, SetStatus, TypeOK, Document
<1>6. row \in [SKUs -> JournalRow]
  <2>1. ASSUME NEW s \in SKUs
        PROVE  row[s] \in JournalRow
    <3>1. journal[t][d.from][s] \in JournalRow /\ d.items[s] \in Nat
      BY <1>0, <1>1 DEF TypeOK
    <3> QED
      BY <3>1, BookTyped
  <2> QED
    BY <2>1
<1>7. journal' = [journal EXCEPT ![t][d.from] = row]
  BY DEF Send
<1> HIDE DEF left, hung, row
<1>8. \A u \in Transfers, v \in Warehouses, s \in SKUs :
         ~(u = t /\ v = d.from) => journal'[u][v][s] = journal[u][v][s]
  BY <1>0, <1>1, <1>6, <1>7, JournalWritten
<1>9. ASSUME NEW s \in SKUs
      PROVE  Remaining(t, s)' = d.items[s]
  <2>1. Received(t, s) = 0
    BY <1>0, NothingBefore
  <2>2. journal'[t][d.to][s] = journal[t][d.to][s]
    BY <1>1, <1>8
  <2>3. Received(t, s)' = Received(t, s)
    BY <1>5, <2>2 DEF Received, Landed
  <2>4. d.items[s] \in Nat
    BY <1>1
  <2> HIDE DEF d
  <2> QED
    BY <1>5, <2>1, <2>3, <2>4 DEF Remaining, Pos
<1>10. ASSUME NEW w \in Warehouses, NEW s \in SKUs, NEW k \in Balances
       PROVE  stock'[w][s][k] = stock[w][s][k] - Owes(t, w, s, k) + Owes(t, w, s, k)'
  <2>1. Owes(t, w, s, k) = 0
    BY <1>0 DEF Owes, OnTheRoad
  <2>2. Owes(t, w, s, k)' = IF w = d.to /\ k = Balance(d.isDefect) THEN d.items[s] ELSE 0
    BY <1>5, <1>9 DEF Owes, OnTheRoad
  <2>3. stock[w][s][k] \in Nat /\ d.items[s] \in Nat
    BY <1>0, <1>1, RowCounts
  <2> HIDE DEF d
  <2>4. stock'[w][s][k] = stock[w][s][k] + IF w = d.to /\ k = Balance(d.isDefect) THEN d.items[s] ELSE 0
    <3>1. CASE w = d.to
      BY <1>3, <1>4, <2>3, <3>1
    <3>2. CASE w = d.from
      BY <1>1, <1>3, <1>4, <2>3, <3>2
    <3>3. CASE w \notin {d.from, d.to}
      BY <1>3, <2>3, <3>3
    <3> QED
      BY <3>1, <3>2, <3>3
  <2> QED
    BY <2>1, <2>2, <2>3, <2>4
<1>11. TransitTold'
  <2>1. \A u \in Transfers \ {t} : /\ doc'[u] = doc[u]
                                   /\ \A w \in Warehouses, s \in SKUs : journal'[u][w][s] = journal[u][w][s]
    BY <1>5, <1>8
  <2> HIDE DEF d
  <2> QED
    BY <1>0, <1>10, <2>1, TransitStep DEF Balanced
<1>12. UnitsTold'
  <2> HIDE DEF d
  <2>1. \A s \in SKUs : /\ Units(stock'[d.from][s]) = Units(stock[d.from][s]) - d.items[s]
                        /\ Units(stock'[d.to][s]) = Units(stock[d.to][s]) + d.items[s]
    BY <1>3, <1>4
  <2> QED
    BY <1>0, <1>1, <1>3, <1>5, <2>1, UnitsMove DEF Balanced
<1>13. AllArrived'
  <2>1. ASSUME NEW u \in Transfers, NEW s \in SKUs, doc'[u].status = "DELIVERED"
        PROVE  Received(u, s)' = doc'[u].items[s]
    <3>1. u # t
      BY <1>5, <2>1
    <3>2. doc'[u] = doc[u] /\ doc[u].to \in Warehouses
      BY <1>0, <1>5, <3>1 DEF TypeOK, Document
    <3>3. journal'[u][doc[u].to][s] = journal[u][doc[u].to][s]
      BY <1>8, <3>1, <3>2
    <3>4. Received(u, s)' = Received(u, s)
      BY <3>2, <3>3 DEF Received, Landed
    <3> QED
      BY <2>1, <3>2, <3>4 DEF Balanced, AllArrived, Arrived
  <2> QED
    BY <2>1 DEF AllArrived, Arrived
<1> QED
  BY <1>11, <1>12, <1>13 DEF Balanced

\* What receives something is not empty.
LEMMA SomeIsSome == \A a, b, g, f \in Nat : g + f # 0 => (a + g) + (b + f) # 0
<1> TAKE a \in Nat, b \in Nat, g \in Nat, f \in Nat
<1> QED
  OBVIOUS

\* Others are as they were: what had arrived of them has.
LEMMA OthersArrived ==
    ASSUME TypeOK, AllArrived, NEW t \in Transfers,
           \A u \in Transfers \ {t} : /\ doc'[u] = doc[u]
                                      /\ \A w \in Warehouses, s \in SKUs : journal'[u][w][s] = journal[u][w][s],
           doc'[t].status = "DELIVERED" => \A s \in SKUs : Received(t, s)' = doc'[t].items[s]
    PROVE  AllArrived'
<1>1. ASSUME NEW u \in Transfers, u # t, NEW s \in SKUs, doc'[u].status = "DELIVERED"
      PROVE  Received(u, s)' = doc'[u].items[s]
  <2>1. doc'[u] = doc[u] /\ doc[u].to \in Warehouses
    BY <1>1 DEF TypeOK, Document
  <2>2. journal'[u][doc[u].to][s] = journal[u][doc[u].to][s]
    BY <1>1, <2>1
  <2>3. Received(u, s)' = Received(u, s)
    BY <2>1, <2>2 DEF Received, Landed
  <2> QED
    BY <1>1, <2>1, <2>3 DEF AllArrived, Arrived
<1> QED
  BY <1>1 DEF AllArrived, Arrived

LEMMA CreditBalanced ==
    ASSUME IInv, IInv', EndsKeptApart, EndsKeptApart', Balanced, NEW t \in Transfers,
           NEW new \in {"SHIPPED", "DELIVERED"},
           NEW good \in [SKUs -> Nat], NEW bad \in [SKUs -> Nat],
           doc[t].status = "SHIPPED", SetStatus(t, new), Credit(t, good, bad),
           \A s \in SKUs : /\ good[s] + bad[s] <= Remaining(t, s)
                           /\ new = "DELIVERED" => good[s] + bad[s] = Remaining(t, s)
    PROVE  Balanced'
<1> DEFINE d   == doc[t]
           put == [s \in SKUs |-> Unhang(AddTo(stock[d.to][s], good[s], bad[s]),
                                         d.isDefect, good[s] + bad[s])]
           row == [s \in SKUs |-> BookIn(journal[t][d.to][s], good[s], bad[s])]
<1>0. TypeOK /\ TypeOK'
  BY DEF IInv
<1>1. /\ d \in Document /\ d.to \in Warehouses /\ d.isDefect \in BOOLEAN
      /\ \A s \in SKUs : d.items[s] \in Nat /\ good[s] \in Nat /\ bad[s] \in Nat
  BY <1>0, RemainingTyped DEF TypeOK, Document
<1>2. ASSUME NEW s \in SKUs
      PROVE  /\ Units(put[s]) = Units(stock[d.to][s])
             /\ \A k \in Balances :
                  put[s][k] = stock[d.to][s][k] - IF k = Balance(d.isDefect) THEN good[s] + bad[s] ELSE 0
  <2>1. stock[d.to][s] \in StockRow /\ good[s] \in Nat /\ bad[s] \in Nat
    BY <1>0, <1>1, RowCounts
  <2>2. Remaining(t, s) <= stock[d.to][s][Balance(d.isDefect)]
    BY <1>0, OwedAtMost DEF Balanced, OnTheRoad
  <2>3. stock[d.to][s][Balance(d.isDefect)] \in Nat /\ Remaining(t, s) \in Nat
    BY <1>0, <1>1, RowCounts, RemainingTyped DEF Balance, Balances
  <2>4. Units(stock[d.to][s]) \in Int
    BY <2>1 DEF Units, StockRow
  <2> HIDE DEF d
  <2>5. good[s] + bad[s] \in Nat /\ good[s] + bad[s] <= stock[d.to][s][Balance(d.isDefect)]
    BY <2>1, <2>2, <2>3
  <2>6. /\ Units(put[s]) = Units(stock[d.to][s]) + good[s] + bad[s] - (good[s] + bad[s])
        /\ \A k \in Balances :
             put[s][k] = stock[d.to][s][k] - IF k = Balance(d.isDefect) THEN good[s] + bad[s] ELSE 0
    BY <1>1, <2>1, <2>5, CreditCounts
  <2> QED
    BY <2>1, <2>4, <2>6
<1>3. ASSUME NEW s \in SKUs
      PROVE  row[s] \in JournalRow /\ row[s] = BookIn(journal[t][d.to][s], good[s], bad[s])
             /\ journal[t][d.to][s] \in JournalRow
  <2>1. journal[t][d.to][s] \in JournalRow /\ good[s] \in Nat /\ bad[s] \in Nat
    BY <1>0, <1>1 DEF TypeOK
  <2> QED
    BY <2>1, BookTyped
<1>4. /\ stock' = [stock EXCEPT ![d.to] = put]
      /\ journal' = [journal EXCEPT ![t][d.to] = row]
      /\ adjusted' = adjusted
  BY DEF Credit
<1>5. row \in [SKUs -> JournalRow]
  BY <1>3
<1>6. /\ doc'[t].status = new /\ doc'[t].to = d.to /\ doc'[t].items = d.items
      /\ doc'[t].isDefect = d.isDefect
      /\ \A u \in Transfers \ {t} : doc'[u] = doc[u]
  BY <1>0, <1>1 DEF SetStatus, TypeOK, Document
<1> HIDE DEF row, put
<1>7. \A u \in Transfers, v \in Warehouses, s \in SKUs :
         journal'[u][v][s] = IF u = t /\ v = d.to THEN row[s] ELSE journal[u][v][s]
  BY <1>0, <1>1, <1>4, <1>5, JournalWritten
<1>8. /\ \A s \in SKUs : stock'[d.to][s] = put[s]
      /\ \A w \in Warehouses \ {d.to}, s \in SKUs : stock'[w][s] = stock[w][s]
  BY <1>0, <1>1, <1>4 DEF TypeOK
<1>9. ASSUME NEW s \in SKUs
      PROVE  /\ Received(t, s)' = Received(t, s) + good[s] + bad[s]
             /\ Remaining(t, s)' = Remaining(t, s) - (good[s] + bad[s])
  <2> DEFINE j == journal[t][d.to][s]
             i == journal'[t][d.to][s]
  <2>1. /\ i = BookIn(j, good[s], bad[s]) /\ j \in JournalRow
        /\ good[s] \in Nat /\ bad[s] \in Nat /\ d.items[s] \in Nat
    BY <1>1, <1>3, <1>7
  <2>2. /\ Received(t, s) \in Nat /\ Received(t, s) <= d.items[s]
        /\ Remaining(t, s) = d.items[s] - Received(t, s)
    BY ReceivedWithin
  <2>3. /\ i.out = j.out /\ i.inGood = j.inGood + good[s] /\ i.inDefect = j.inDefect + bad[s]
        /\ i.backGood = j.backGood /\ i.backDefect = j.backDefect
    BY <2>1 DEF BookIn, JournalRow
  <2>4. /\ j.out \in Nat /\ j.inGood \in Nat /\ j.inDefect \in Nat
        /\ j.backGood \in Nat /\ j.backDefect \in Nat
    BY <2>1 DEF JournalRow
  <2> DEFINE was == (j.inGood + j.inDefect) - (j.backGood + j.backDefect)
             is  == (i.inGood + i.inDefect) - (i.backGood + i.backDefect)
  <2>5. /\ Received(t, s) = Pos(was - j.out) /\ Landed(t, d.to, s) = was
        /\ Received(t, s)' = Pos(is - i.out)
    BY <1>6 DEF Received, Landed
  <2>6. was \in Int /\ is = was + (good[s] + bad[s])
    <3> HIDE DEF i, j
    <3> QED
      BY <2>1, <2>3, <2>4
  <2>7. ASSUME good[s] + bad[s] = 0
        PROVE  Received(t, s)' = Received(t, s) + (good[s] + bad[s])
    <3> HIDE DEF i, j, d, was, is
    <3> QED
      BY <2>1, <2>2, <2>3, <2>4, <2>5, <2>6, <2>7
  <2>8. ASSUME good[s] + bad[s] # 0
        PROVE  Received(t, s)' = Received(t, s) + (good[s] + bad[s])
    <3>1. i.inGood + i.inDefect # 0
      <4>1. i.inGood + i.inDefect = (j.inGood + good[s]) + (j.inDefect + bad[s])
        BY <2>3
      <4>2. j.inGood \in Nat /\ j.inDefect \in Nat /\ good[s] \in Nat /\ bad[s] \in Nat
        BY <2>1, <2>4
      <4>3. (j.inGood + good[s]) + (j.inDefect + bad[s]) # 0
        BY <2>8, <4>2, SomeIsSome
      <4> QED
        BY <4>1, <4>3
    <3>2. i.out = 0
      BY <1>1, <3>1 DEF EndsKeptApart
    <3>3. NeverLeft(t, d.to, s)
      BY <2>3, <3>2 DEF NeverLeft
    <3>4. was \in Nat /\ Received(t, s) = was
      BY <2>5, <3>3, ReceivedIsLanded
    <3> HIDE DEF i, j, d, was, is
    <3> QED
      BY <2>1, <2>5, <2>6, <3>2, <3>4 DEF Pos
  <2>9. Received(t, s)' = Received(t, s) + (good[s] + bad[s])
    BY <2>7, <2>8
  <2>10. Remaining(t, s)' = Pos(d.items[s] - Received(t, s)')
    BY <1>6 DEF Remaining
  <2>11. good[s] + bad[s] <= Remaining(t, s) /\ good[s] + bad[s] \in Nat
    BY <2>1
  <2> DEFINE c == good[s] + bad[s]
             r == Received(t, s)
             m == d.items[s]
  <2>12. /\ r \in Nat /\ m \in Nat /\ c \in Nat /\ c <= m - r /\ Remaining(t, s) = m - r
         /\ Remaining(t, s)' = Pos(m - (r + c))
    BY <2>1, <2>2, <2>9, <2>10, <2>11
  <2>13. Remaining(t, s)' = Remaining(t, s) - c
    <3> HIDE DEF c, r, m
    <3> QED
      BY <2>12 DEF Pos
  <2> QED
    BY <2>1, <2>2, <2>9, <2>13
<1>10. \A u \in Transfers \ {t} : /\ doc'[u] = doc[u]
                                  /\ \A w \in Warehouses, s \in SKUs : journal'[u][w][s] = journal[u][w][s]
  BY <1>6, <1>7
<1>11. ASSUME NEW w \in Warehouses, NEW s \in SKUs, NEW k \in Balances
       PROVE  stock'[w][s][k] = stock[w][s][k] - Owes(t, w, s, k) + Owes(t, w, s, k)'
  <2> DEFINE here == w = d.to /\ k = Balance(d.isDefect)
  <2>1. Owes(t, w, s, k) = IF here THEN Remaining(t, s) ELSE 0
    BY DEF Owes, OnTheRoad
  <2>2. Owes(t, w, s, k)' = IF here THEN Remaining(t, s) - (good[s] + bad[s]) ELSE 0
    <3>1. Owes(t, w, s, k)' = IF new = "SHIPPED" /\ here THEN Remaining(t, s)' ELSE 0
      BY <1>6 DEF Owes, OnTheRoad
    <3>2. new = "DELIVERED" => Remaining(t, s) - (good[s] + bad[s]) = 0
      BY <1>0, <1>1, RemainingTyped
    <3> HIDE DEF here, d
    <3> QED
      BY <1>9, <3>1, <3>2
  <2>3. stock[w][s][k] \in Nat /\ good[s] \in Nat /\ bad[s] \in Nat /\ Remaining(t, s) \in Nat
    BY <1>0, <1>1, RowCounts, RemainingTyped
  <2>4. stock'[w][s][k] = stock[w][s][k] - IF here THEN good[s] + bad[s] ELSE 0
    <3> HIDE DEF d
    <3>1. CASE w = d.to
      BY <1>2, <1>8, <3>1
    <3>2. CASE w # d.to
      BY <1>8, <2>3, <3>2
    <3> QED
      BY <3>1, <3>2
  <2> HIDE DEF here, d
  <2> QED
    BY <2>1, <2>2, <2>3, <2>4
<1>12. TransitTold'
  <2> HIDE DEF d
  <2> QED
    BY <1>0, <1>10, <1>11, TransitStep DEF Balanced
<1>13. UnitsTold'
  <2>1. \A w \in Warehouses, s \in SKUs : Units(stock'[w][s]) = Units(stock[w][s])
    <3> HIDE DEF d
    <3> QED
      BY <1>2, <1>8
  <2> QED
    BY <1>0, <1>4, <2>1, UnitsStay DEF Balanced
<1>14. AllArrived'
  <2>1. ASSUME new = "DELIVERED", NEW s \in SKUs
        PROVE  Received(t, s)' = d.items[s]
    <3>1. /\ Received(t, s) \in Nat /\ d.items[s] \in Nat
          /\ Remaining(t, s) = d.items[s] - Received(t, s)
      BY ReceivedWithin
    <3>2. good[s] + bad[s] = Remaining(t, s) /\ good[s] \in Nat /\ bad[s] \in Nat
      BY <1>1, <2>1
    <3> HIDE DEF d
    <3> QED
      BY <1>9, <3>1, <3>2
  <2>2. doc'[t].status = "DELIVERED" => \A s \in SKUs : Received(t, s)' = doc'[t].items[s]
    BY <1>6, <2>1
  <2> HIDE DEF d
  <2> QED
    BY <1>0, <1>10, <2>2, OthersArrived DEF Balanced
<1> QED
  BY <1>12, <1>13, <1>14 DEF Balanced

\* A return takes off the receiver what it was credited with, and the rest off the road.
LEMMA ReturnBalanced ==
    ASSUME IInv, IInv', EndsKeptApart, Balanced, NEW t \in Transfers, ReturnTransfer(t)
    PROVE  Balanced'
<1> DEFINE d     == doc[t]
           taken == [s \in SKUs |-> Lesser(Received(t, s), d.items[s])]
           off   == [s \in SKUs |-> AsGood(d.isDefect, -taken[s])]
           offD  == [s \in SKUs |-> AsDefect(d.isDefect, -taken[s])]
           there == [s \in SKUs |-> Unhang(AddTo(stock[d.to][s], off[s], offD[s]), d.isDefect,
                                           Pos(d.items[s] - taken[s]))]
           home  == [s \in SKUs |-> AddTo(stock[d.from][s], AsGood(d.isDefect, d.items[s]),
                                                            AsDefect(d.isDefect, d.items[s]))]
           owed  == [s \in SKUs |-> IF d.status = "SHIPPED" THEN Remaining(t, s) ELSE 0]
<1>0. TypeOK /\ TypeOK' /\ d.status \in {"SHIPPED", "DELIVERED"}
  BY TableSteps DEF IInv, ReturnTransfer
<1>1. /\ d \in Document /\ d.from # d.to /\ d.items \in [SKUs -> Int]
      /\ d.from \in Warehouses /\ d.to \in Warehouses /\ d.isDefect \in BOOLEAN
  BY <1>0 DEF IInv, TypeOK, TwoEnds, Document, Quantities, Exists, Absent
<1>2. ASSUME NEW s \in SKUs
      PROVE  /\ d.items[s] \in Nat /\ taken[s] \in Nat /\ owed[s] \in Nat
             /\ taken[s] + Pos(d.items[s] - taken[s]) = d.items[s]
             /\ Pos(d.items[s] - taken[s]) = owed[s]
             /\ owed[s] <= stock[d.to][s][Balance(d.isDefect)]
  <2>1. /\ Received(t, s) \in Nat /\ d.items[s] \in Nat /\ Received(t, s) <= d.items[s]
        /\ Remaining(t, s) = d.items[s] - Received(t, s)
    BY <1>0, ReceivedWithin
  <2>2. d.status = "DELIVERED" => Received(t, s) = d.items[s]
    BY DEF Balanced, AllArrived, Arrived
  <2>3. d.status = "SHIPPED" => Remaining(t, s) <= stock[d.to][s][Balance(d.isDefect)]
    BY <1>0, OwedAtMost DEF Balanced, OnTheRoad
  <2>4. stock[d.to][s][Balance(d.isDefect)] \in Nat
    BY <1>0, <1>1, RowCounts DEF Balance, Balances
  <2>5. taken[s] = Received(t, s)
    <3> HIDE DEF d
    <3> QED
      BY <2>1 DEF Lesser
  <2>6. owed[s] = IF d.status = "SHIPPED" THEN Remaining(t, s) ELSE 0
    OBVIOUS
  <2> HIDE DEF d, taken, owed
  <2>7. Pos(d.items[s] - taken[s]) = d.items[s] - taken[s]
    BY <2>1, <2>5 DEF Pos
  <2> QED
    BY <1>0, <2>1, <2>2, <2>3, <2>4, <2>5, <2>6, <2>7
<1>3. ASSUME NEW s \in SKUs
      PROVE  /\ Units(there[s]) = Units(stock[d.to][s]) - d.items[s]
             /\ \A k \in Balances :
                  there[s][k] = stock[d.to][s][k] - IF k = Balance(d.isDefect) THEN owed[s] ELSE 0
             /\ Units(home[s]) = Units(stock[d.from][s]) + d.items[s]
             /\ \A k \in Balances : home[s][k] = stock[d.from][s][k]
  <2>1. stock[d.to][s] \in StockRow /\ stock[d.from][s] \in StockRow /\ d.isDefect \in BOOLEAN
    BY <1>0, <1>1, RowCounts
  <2>2. /\ Units(stock[d.to][s]) \in Int /\ Units(stock[d.from][s]) \in Int
        /\ d.items[s] \in Nat /\ taken[s] \in Nat /\ owed[s] \in Nat
        /\ taken[s] + owed[s] = d.items[s]
        /\ owed[s] <= stock[d.to][s][Balance(d.isDefect)]
    BY <1>2, <2>1 DEF Units, StockRow
  <2>3. /\ there[s] = Unhang(AddTo(stock[d.to][s], off[s], offD[s]), d.isDefect, owed[s])
        /\ home[s] = AddTo(stock[d.from][s], AsGood(d.isDefect, d.items[s]),
                                             AsDefect(d.isDefect, d.items[s]))
    BY <1>2
  <2>4. off[s] \in Int /\ offD[s] \in Int /\ off[s] + offD[s] = -taken[s]
    <3>1. off[s] = AsGood(d.isDefect, -taken[s]) /\ offD[s] = AsDefect(d.isDefect, -taken[s])
      OBVIOUS
    <3> HIDE DEF d, taken, off, offD, owed
    <3> QED
      BY <2>1, <2>2, <3>1 DEF AsGood, AsDefect
  <2> HIDE DEF d, taken, off, offD, owed, there, home
  <2>5. /\ AsGood(d.isDefect, d.items[s]) \in Int /\ AsDefect(d.isDefect, d.items[s]) \in Int
        /\ AsGood(d.isDefect, d.items[s]) + AsDefect(d.isDefect, d.items[s]) = d.items[s]
    BY <2>1, <2>2 DEF AsGood, AsDefect
  <2>6. /\ Units(there[s]) = Units(stock[d.to][s]) + off[s] + offD[s] - owed[s]
        /\ \A k \in Balances :
             there[s][k] = stock[d.to][s][k] - IF k = Balance(d.isDefect) THEN owed[s] ELSE 0
    BY <2>1, <2>2, <2>3, <2>4, CreditCounts
  <2>7. /\ Units(home[s]) = Units(stock[d.from][s]) + AsGood(d.isDefect, d.items[s])
                                                    + AsDefect(d.isDefect, d.items[s])
        /\ \A k \in Balances : home[s][k] = stock[d.from][s][k]
    BY <2>1, <2>3, <2>5, AddToCounts
  <2>8. Units(there[s]) = Units(stock[d.to][s]) - d.items[s]
    BY <2>2, <2>4, <2>6
  <2>9. Units(home[s]) = Units(stock[d.from][s]) + d.items[s]
    BY <2>2, <2>5, <2>7
  <2> QED
    BY <2>6, <2>7, <2>8, <2>9
<1>4. stock' = [stock EXCEPT ![d.to] = there, ![d.from] = home] /\ adjusted' = adjusted
  BY <1>0, <1>1 DEF ReturnTransfer, TypeOK
<1>5. /\ doc'[t].status = "RETURNED" /\ \A u \in Transfers \ {t} : doc'[u] = doc[u]
  BY <1>0, <1>1 DEF ReturnTransfer, SetStatus, TypeOK, Document
<1>6. \A u \in Transfers \ {t}, w \in Warehouses, s \in SKUs : journal'[u][w][s] = journal[u][w][s]
  BY ReturnBooks
<1>7. owed = [s \in SKUs |-> IF d.status = "SHIPPED" THEN Remaining(t, s) ELSE 0]
  OBVIOUS
<1> HIDE DEF taken, off, offD, there, home, owed
<1>8. /\ \A s \in SKUs : stock'[d.to][s] = there[s] /\ stock'[d.from][s] = home[s]
      /\ \A w \in Warehouses \ {d.from, d.to}, s \in SKUs : stock'[w][s] = stock[w][s]
  BY <1>0, <1>1, <1>4 DEF TypeOK
<1>9. ASSUME NEW w \in Warehouses, NEW s \in SKUs, NEW k \in Balances
      PROVE  stock'[w][s][k] = stock[w][s][k] - Owes(t, w, s, k) + Owes(t, w, s, k)'
  <2>1. Owes(t, w, s, k)' = 0
    BY <1>5 DEF Owes, OnTheRoad
  <2>2. Owes(t, w, s, k) = IF w = d.to /\ k = Balance(d.isDefect) THEN owed[s] ELSE 0
    BY <1>7 DEF Owes, OnTheRoad
  <2>3. stock[w][s][k] \in Nat /\ owed[s] \in Nat
    BY <1>0, <1>2, RowCounts
  <2> HIDE DEF d
  <2>4. stock'[w][s][k] = stock[w][s][k] - IF w = d.to /\ k = Balance(d.isDefect) THEN owed[s] ELSE 0
    <3>1. CASE w = d.to
      BY <1>3, <1>8, <3>1
    <3>2. CASE w = d.from
      BY <1>1, <1>3, <1>8, <2>3, <3>2
    <3>3. CASE w \notin {d.from, d.to}
      BY <1>8, <2>3, <3>3
    <3> QED
      BY <3>1, <3>2, <3>3
  <2> QED
    BY <2>1, <2>2, <2>3, <2>4
<1>10. \A u \in Transfers \ {t} : /\ doc'[u] = doc[u]
                                  /\ \A w \in Warehouses, s \in SKUs : journal'[u][w][s] = journal[u][w][s]
  BY <1>5, <1>6
<1>11. TransitTold'
  <2> HIDE DEF d
  <2> QED
    BY <1>0, <1>9, <1>10, TransitStep DEF Balanced
<1>12. UnitsTold'
  <2> HIDE DEF d
  <2>1. \A s \in SKUs : /\ Units(stock'[d.to][s]) = Units(stock[d.to][s]) - d.items[s]
                        /\ Units(stock'[d.from][s]) = Units(stock[d.from][s]) + d.items[s]
    BY <1>3, <1>8
  <2>2. \A w \in Warehouses \ {d.to, d.from}, s \in SKUs : stock'[w][s] = stock[w][s]
    BY <1>8
  <2> QED
    BY <1>0, <1>1, <1>4, <2>1, <2>2, UnitsMove DEF Balanced
<1>13. AllArrived'
  BY <1>0, <1>5, <1>10, OthersArrived DEF Balanced
<1> QED
  BY <1>11, <1>12, <1>13 DEF Balanced

\* A step that changes one document and no stock, and leaves what is on the road.
QuietFor(t, d) ==
    /\ QuietDoc(t, d)
    /\ \/ d.status \notin {"SHIPPED", "DELIVERED"} /\ doc[t].status # "SHIPPED"
       \/ /\ d.status = doc[t].status /\ d.to = doc[t].to
          /\ d.items = doc[t].items /\ d.isDefect = doc[t].isDefect

LEMMA QuietBalanced ==
    ASSUME IInv, IInv', Balanced, NEW t \in Transfers, NEW d \in Document, QuietFor(t, d)
    PROVE  Balanced'
<1>1. TypeOK /\ TypeOK' /\ UNCHANGED <<stock, journal, adjusted>>
  BY DEF IInv, QuietFor, QuietDoc
<1>2. doc'[t] = d /\ \A u \in Transfers \ {t} : doc'[u] = doc[u]
  BY <1>1 DEF QuietFor, QuietDoc, TypeOK
<1>3. CASE d.status \notin {"SHIPPED", "DELIVERED"} /\ doc[t].status # "SHIPPED"
  <2>1. ASSUME NEW w \in Warehouses, NEW s \in SKUs, NEW k \in Balances
        PROVE  stock'[w][s][k] = stock[w][s][k] - Owes(t, w, s, k) + Owes(t, w, s, k)'
    <3>1. Owes(t, w, s, k) = 0 /\ Owes(t, w, s, k)' = 0
      BY <1>2, <1>3 DEF Owes, OnTheRoad
    <3>2. stock[w][s][k] \in Nat
      BY <1>1, RowCounts
    <3> QED
      BY <1>1, <3>1, <3>2
  <2>2. TransitTold' /\ AllArrived'
    BY <1>1, <1>2, <1>3, <2>1, TransitStep, OthersArrived DEF Balanced
  <2>3. UnitsTold'
    BY <1>1, UnitsStay DEF Balanced
  <2> QED
    BY <2>2, <2>3 DEF Balanced
<1>4. CASE /\ d.status = doc[t].status /\ d.to = doc[t].to
           /\ d.items = doc[t].items /\ d.isDefect = doc[t].isDefect
  <2>1. \A s \in SKUs : Received(t, s)' = Received(t, s) /\ Remaining(t, s)' = Remaining(t, s)
    BY <1>1, <1>2, <1>4 DEF Received, Remaining, Landed
  <2>2. ASSUME NEW w \in Warehouses, NEW s \in SKUs, NEW k \in Balances
        PROVE  stock'[w][s][k] = stock[w][s][k] - Owes(t, w, s, k) + Owes(t, w, s, k)'
    <3>1. Owes(t, w, s, k)' = Owes(t, w, s, k)
      BY <1>2, <1>4, <2>1 DEF Owes, OnTheRoad
    <3>2. stock[w][s][k] \in Nat /\ Owes(t, w, s, k) \in Nat
      BY <1>1, RowCounts, OwesTyped
    <3> QED
      BY <1>1, <3>1, <3>2
  <2>3. TransitTold'
    BY <1>1, <1>2, <2>2, TransitStep DEF Balanced
  <2>4. doc'[t].status = "DELIVERED" => \A s \in SKUs : Received(t, s)' = doc'[t].items[s]
    BY <1>2, <1>4, <2>1 DEF Balanced, AllArrived, Arrived
  <2>5. AllArrived'
    BY <1>1, <1>2, <2>4, OthersArrived DEF Balanced
  <2>6. UnitsTold'
    BY <1>1, UnitsStay DEF Balanced
  <2> QED
    BY <2>3, <2>5, <2>6 DEF Balanced
<1> QED
  BY <1>3, <1>4 DEF QuietFor

\* No transfer and no account is touched.
LEMMA TransfersStay ==
    ASSUME TransitTold, AllArrived, UNCHANGED <<doc, journal>>,
           \A w \in Warehouses, s \in SKUs, k \in Balances : stock'[w][s][k] = stock[w][s][k]
    PROVE  TransitTold' /\ AllArrived'
<1>1. ASSUME NEW u \in Transfers, NEW s \in SKUs
      PROVE  Received(u, s)' = Received(u, s) /\ Remaining(u, s)' = Remaining(u, s)
  BY DEF Received, Remaining, Landed
<1>2. ASSUME NEW w \in Warehouses, NEW s \in SKUs, NEW k \in Balances
      PROVE  stock'[w][s][k] = Total([u \in Transfers |-> Owes(u, w, s, k)'])
  <2>1. \A u \in Transfers : Owes(u, w, s, k)' = Owes(u, w, s, k)
    BY <1>1 DEF Owes, OnTheRoad
  <2>2. [u \in Transfers |-> Owes(u, w, s, k)'] = [u \in Transfers |-> Owes(u, w, s, k)]
    BY <2>1
  <2> QED
    BY <2>2 DEF TransitTold
<1>3. TransitTold'
  BY <1>2 DEF TransitTold
<1>4. AllArrived'
  BY <1>1 DEF AllArrived, Arrived
<1> QED
  BY <1>3, <1>4

\* A correction of the inventory is a correction of the count.
LEMMA AdjustBalanced ==
    ASSUME IInv, IInv', Balanced, NEW a \in Warehouses, NEW z \in SKUs, NEW delta \in Corrections,
           Adjust(a, z, delta)
    PROVE  Balanced'
<1> DEFINE put == AddTo(stock[a][z], delta, 0)
<1>1. TypeOK /\ TypeOK' /\ UNCHANGED <<doc, journal>> /\ delta \in Int
  BY CorrectionsAssumption DEF IInv, Adjust
<1>2. stock[a][z] \in StockRow /\ Units(stock[a][z]) \in Int
  BY <1>1, RowCounts DEF Units, StockRow
<1>3. Units(put) = Units(stock[a][z]) + delta /\ \A k \in Balances : put[k] = stock[a][z][k]
  BY <1>1, <1>2, AddToCounts
<1>4. stock' = [stock EXCEPT ![a][z] = put]
  BY DEF Adjust
<1> HIDE DEF put
<1>5. /\ stock'[a][z] = put
      /\ \A w \in Warehouses, s \in SKUs : w # a \/ s # z => stock'[w][s] = stock[w][s]
  BY <1>1, <1>4 DEF TypeOK
<1>6. adjusted'[z] = adjusted[z] + delta /\ \A s \in SKUs \ {z} : adjusted'[s] = adjusted[s]
  BY <1>1 DEF Adjust, TypeOK
<1>7. TransitTold' /\ AllArrived'
  BY <1>1, <1>3, <1>5, TransfersStay DEF Balanced
<1>8. ASSUME NEW s \in SKUs
      PROVE  Total([w \in Warehouses |-> UnitsAt(w, s)'])
               = Total([w \in Warehouses |-> OpenedWith(w, s)]) + adjusted'[s]
  <2> DEFINE f == [w \in Warehouses |-> UnitsAt(w, s)]
             g == [w \in Warehouses |-> UnitsAt(w, s)']
             o == Total([w \in Warehouses |-> OpenedWith(w, s)])
  <2>1. \A w \in Warehouses : /\ UnitsAt(w, s) = Units(stock[w][s]) /\ UnitsAt(w, s) \in Nat
                              /\ UnitsAt(w, s)' = Units(stock'[w][s]) /\ UnitsAt(w, s)' \in Nat
    BY <1>1, RowCounts, UnitsNext
  <2>2. f \in [Warehouses -> Nat] /\ g \in [Warehouses -> Nat]
    BY <2>1
  <2>3. \A w \in Warehouses \ {a} : g[w] = f[w]
    BY <1>5, <2>1
  <2>4. f[a] = Units(stock[a][s]) /\ g[a] = Units(stock'[a][s]) /\ f[a] \in Nat /\ g[a] \in Nat
    BY <2>1
  <2>5. Total(f) = o + adjusted[s] /\ adjusted[s] \in Int
    BY <1>1 DEF Balanced, UnitsTold, TypeOK
  <2> HIDE DEF f, g, o
  <2>6. Total(f) \in Nat /\ Total(g) = Total(f) - f[a] + g[a]
    BY <2>2, <2>3, WarehousesAssumption, TotalWritten
  <2>7. CASE s = z
    <3>1. g[a] = f[a] + delta /\ adjusted'[s] = adjusted[s] + delta
      BY <1>3, <1>5, <1>6, <2>4, <2>7
    <3>2. Total(g) = Total(f) + delta
      BY <1>1, <2>4, <2>6, <3>1
    <3>3. o \in Int
      <4>1. \A w \in Warehouses : OpenedWith(w, s) \in Nat
        BY OpeningAssumption DEF OpenedWith
      <4>2. [w \in Warehouses |-> OpenedWith(w, s)] \in [Warehouses -> Nat]
        BY <4>1
      <4> QED
        BY <4>2, TotalTyped, WarehousesAssumption DEF o
    <3>4. Total(g) = o + adjusted'[s]
      BY <1>1, <2>5, <3>1, <3>2, <3>3
    <3> QED
      BY <3>4 DEF g, o
  <2>8. CASE s # z
    <3>1. g[a] = f[a] /\ adjusted'[s] = adjusted[s]
      BY <1>5, <1>6, <2>4, <2>8
    <3>2. Total(g) = Total(f)
      BY <2>4, <2>6, <3>1
    <3>3. Total(g) = o + adjusted'[s]
      BY <2>5, <3>1, <3>2
    <3> QED
      BY <3>3 DEF g, o
  <2> QED
    BY <2>7, <2>8
<1>9. UnitsTold'
  BY <1>8 DEF UnitsTold, OpenedWith
<1> QED
  BY <1>7, <1>9 DEF Balanced

\* People before departure, a centre's signals and the settling of a trip change
\* one document and nothing that is on the road.
LEMMA QuietSteps ==
    ASSUME IInv, NEW t \in Transfers, Prepare(t) \/ FfTakesUp(t) \/ FfAssembled(t) \/ Settle(t)
    PROVE  \E d \in Document : QuietFor(t, d)
<1>0. doc[t] \in Document /\ (NoCarrier \in Carriers \cup {NoCarrier})
  BY DEF IInv, TypeOK
<1>1. ASSUME NEW route \in Routes, NEW items \in Quantities, NEW isDefect \in BOOLEAN,
             Create(t, route, items, isDefect)
      PROVE  \E d \in Document : QuietFor(t, d)
  <2> DEFINE d == [status |-> "PENDING", from |-> route[1], to |-> route[2],
                   items |-> items, isDefect |-> isDefect, carrier |-> NoCarrier]
  <2>1. d \in Document /\ d.status = "PENDING"
    BY DEF Routes, Document, TransferStatus
  <2>2. QuietDoc(t, d) /\ doc[t].status # "SHIPPED"
    BY <1>1 DEF QuietDoc, Create, StockKept, Exists, Absent
  <2> HIDE DEF d
  <2> QED
    BY <2>1, <2>2 DEF QuietFor
<1>2. ASSUME NEW route \in Routes, NEW items \in Quantities, NEW isDefect \in BOOLEAN,
             Update(t, route, items, isDefect)
      PROVE  \E d \in Document : QuietFor(t, d)
  <2> DEFINE d == [doc[t] EXCEPT !.from = route[1], !.to = route[2],
                                 !.items = items, !.isDefect = isDefect]
  <2>1. doc[t].status \notin {"SHIPPED", "DELIVERED"}
    BY <1>2 DEF Update, TRANSFER_EDITABLE_STATUSES
  <2>2. d \in Document /\ d.status = doc[t].status
    BY <1>0 DEF Routes, Document
  <2>3. QuietDoc(t, d)
    BY <1>2 DEF QuietDoc, Update, StockKept
  <2> HIDE DEF d
  <2> QED
    BY <2>1, <2>2, <2>3 DEF QuietFor
<1>3. ASSUME NEW new \in TransferStatus \ {"SHIPPED", "DELIVERED"}, doc[t].status # "SHIPPED",
             SetStatus(t, new), StockKept, rounds' = rounds
      PROVE  \E d \in Document : QuietFor(t, d)
  <2> DEFINE d == [doc[t] EXCEPT !.status = new]
  <2>1. d \in Document /\ d.status = new
    BY <1>0 DEF Document
  <2>2. QuietDoc(t, d)
    BY <1>3 DEF QuietDoc, SetStatus, StockKept
  <2> HIDE DEF d
  <2> QED
    BY <1>3, <2>1, <2>2 DEF QuietFor
<1>4. ASSUME NEW new \in TransferStatus \ {"SHIPPED", "DELIVERED"}, doc[t].status # "SHIPPED",
             NEW c \in Carriers \cup {NoCarrier},
             doc' = [doc EXCEPT ![t].status = new, ![t].carrier = c], StockKept, rounds' = rounds
      PROVE  \E d \in Document : QuietFor(t, d)
  <2> DEFINE d == [doc[t] EXCEPT !.status = new, !.carrier = c]
  <2>1. d \in Document /\ d.status = new
    BY <1>0 DEF Document
  <2>2. QuietDoc(t, d)
    BY <1>4 DEF QuietDoc, StockKept
  <2> HIDE DEF d
  <2> QED
    BY <1>4, <2>1, <2>2 DEF QuietFor
<1>5. CASE MarkReady(t)
  BY <1>3, <1>5, TableSteps DEF MarkReady, TransferStatus, IInv
<1>6. ASSUME NEW carrier \in Carriers, ApplyVehicle(t, carrier)
      PROVE  \E d \in Document : QuietFor(t, d)
  <2>1. doc[t].status # "SHIPPED"
    BY <1>6 DEF ApplyVehicle, MayBecome, TRANSFER_TRANSITIONS
  <2> QED
    BY <1>4, <1>6, <2>1 DEF ApplyVehicle, TransferStatus
<1>7. CASE UnassignVehicle(t)
  BY <1>0, <1>4, <1>7 DEF UnassignVehicle, TransferStatus
<1>8. CASE Cancel(t)
  BY <1>3, <1>8 DEF Cancel, TransferStatus, TRANSFER_PRE_SHIP_STATUSES
<1>9. CASE FfTakesUp(t)
  BY <1>3, <1>9 DEF FfTakesUp, TransferStatus
<1>10. CASE FfAssembled(t)
  BY <1>3, <1>10 DEF FfAssembled, TransferStatus
<1>11. CASE Close(t)
  BY <1>3, <1>11, TableSteps DEF Close, TransferStatus, IInv
<1>12. ASSUME NEW carrier \in Carriers, SetLogistics(t, carrier)
       PROVE  \E d \in Document : QuietFor(t, d)
  <2> DEFINE d == [doc[t] EXCEPT !.carrier = carrier]
  <2>1. /\ d \in Document /\ d.status = doc[t].status /\ d.to = doc[t].to
        /\ d.items = doc[t].items /\ d.isDefect = doc[t].isDefect
    BY <1>0 DEF Document
  <2>2. QuietDoc(t, d)
    BY <1>12 DEF QuietDoc, SetLogistics, StockKept
  <2> HIDE DEF d
  <2> QED
    BY <2>1, <2>2 DEF QuietFor
<1> QED
  BY <1>1, <1>2, <1>5, <1>6, <1>7, <1>8, <1>9, <1>10, <1>11, <1>12
  DEF Prepare, AssignVehicle, ApplyGazelka, Settle

\* The rest of the plan arrives, by our own clerk's word or by a centre's.
LEMMA Deliveries ==
    ASSUME IInv, NEW t \in Transfers,
           Complete(t) \/ \E good, bad \in Quantities : ReceiveFact(t, good, bad)
    PROVE  \E new \in {"SHIPPED", "DELIVERED"}, g, b \in [SKUs -> Nat] :
              /\ doc[t].status = "SHIPPED" /\ SetStatus(t, new) /\ Credit(t, g, b)
              /\ \A s \in SKUs : /\ g[s] + b[s] <= Remaining(t, s)
                                 /\ new = "DELIVERED" => g[s] + b[s] = Remaining(t, s)
<1>0. doc[t].isDefect \in BOOLEAN /\ \A s \in SKUs : Remaining(t, s) \in Nat
  BY RemainingTyped DEF IInv, TypeOK, Document
<1>1. CASE Complete(t)
  <2> DEFINE take == [s \in SKUs |-> Remaining(t, s)]
             good == [s \in SKUs |-> AsGood(doc[t].isDefect, take[s])]
             bad  == [s \in SKUs |-> AsDefect(doc[t].isDefect, take[s])]
  <2>1. Credit(t, good, bad) /\ SetStatus(t, "DELIVERED")
    BY <1>1 DEF Complete
  <2>2. doc[t].status = "SHIPPED"
    BY <1>1, TableSteps DEF Complete, IInv
  <2>3. /\ good \in [SKUs -> Nat] /\ bad \in [SKUs -> Nat]
        /\ \A s \in SKUs : good[s] + bad[s] = Remaining(t, s)
    BY <1>0 DEF AsGood, AsDefect
  <2> HIDE DEF take, good, bad
  <2>4. \A s \in SKUs : good[s] + bad[s] <= Remaining(t, s)
    BY <1>0, <2>3
  <2> QED
    BY <2>1, <2>2, <2>3, <2>4
<1>2. ASSUME NEW fact \in Quantities, NEW flaws \in Quantities, ReceiveFact(t, fact, flaws)
      PROVE  \E new \in {"SHIPPED", "DELIVERED"}, g, b \in [SKUs -> Nat] :
                /\ doc[t].status = "SHIPPED" /\ SetStatus(t, new) /\ Credit(t, g, b)
                /\ \A s \in SKUs : /\ g[s] + b[s] <= Remaining(t, s)
                                   /\ new = "DELIVERED" => g[s] + b[s] = Remaining(t, s)
  <2>1. PICK g \in [SKUs -> Nat], b \in [SKUs -> Nat] :
           /\ Credit(t, g, b)
           /\ \A s \in SKUs : g[s] + b[s] <= Remaining(t, s)
           /\ doc' = IF \A s \in SKUs : g[s] + b[s] = Remaining(t, s)
                     THEN [doc EXCEPT ![t].status = "DELIVERED"] ELSE doc
    BY <1>2, FactCredits
  <2>2. doc[t].status = "SHIPPED"
    BY <1>2 DEF ReceiveFact
  <2>3. CASE \A s \in SKUs : g[s] + b[s] = Remaining(t, s)
    BY <2>1, <2>2, <2>3 DEF SetStatus
  <2>4. CASE ~\A s \in SKUs : g[s] + b[s] = Remaining(t, s)
    <3>1. doc = [doc EXCEPT ![t].status = "SHIPPED"]
      BY <2>2 DEF IInv, TypeOK, Document
    <3> QED
      BY <2>1, <2>2, <2>4, <3>1 DEF SetStatus
  <2> QED
    BY <2>3, <2>4
<1> QED
  BY <1>1, <1>2

\* Of what left a warehouse and what came in, no movement is ever taken away.
MoreBooked ==
    \A u \in Transfers, w \in Warehouses, s \in SKUs :
        /\ journal[u][w][s].out <= journal'[u][w][s].out
        /\ journal[u][w][s].inGood <= journal'[u][w][s].inGood
        /\ journal[u][w][s].inDefect <= journal'[u][w][s].inDefect

LEMMA RowsGrow ==
    ASSUME TypeOK, NEW t \in Transfers, NEW v \in Warehouses, NEW row \in [SKUs -> JournalRow],
           journal' = [journal EXCEPT ![t][v] = row],
           \A s \in SKUs : /\ journal[t][v][s].out <= row[s].out
                           /\ journal[t][v][s].inGood <= row[s].inGood
                           /\ journal[t][v][s].inDefect <= row[s].inDefect
    PROVE  MoreBooked
<1> SUFFICES ASSUME NEW u \in Transfers, NEW w \in Warehouses, NEW s \in SKUs
             PROVE  /\ journal[u][w][s].out <= journal'[u][w][s].out
                    /\ journal[u][w][s].inGood <= journal'[u][w][s].inGood
                    /\ journal[u][w][s].inDefect <= journal'[u][w][s].inDefect
  BY DEF MoreBooked
<1>1. journal'[u][w][s] = IF u = t /\ w = v THEN row[s] ELSE journal[u][w][s]
  BY JournalWritten
<1>2. journal[u][w][s] \in JournalRow
  BY DEF TypeOK
<1>3. CASE u = t /\ w = v
  BY <1>1, <1>3
<1>4. CASE ~(u = t /\ w = v)
  BY <1>1, <1>2, <1>4 DEF JournalRow
<1> QED
  BY <1>3, <1>4

\* The three ways to book only add.
LEMMA BooksGrow ==
    ASSUME NEW j \in JournalRow, NEW m \in Nat, NEW n \in Nat,
           NEW row \in {BookOut(j, m), BookIn(j, m, n), BookBack(j, m, n)}
    PROVE  j.out <= row.out /\ j.inGood <= row.inGood /\ j.inDefect <= row.inDefect
<1>1. /\ j.out \in Nat /\ j.inGood \in Nat /\ j.inDefect \in Nat
  BY DEF JournalRow
<1>2. CASE row = BookOut(j, m)
  <2>1. row.out = j.out + m /\ row.inGood = j.inGood /\ row.inDefect = j.inDefect
    BY <1>2 DEF BookOut, JournalRow
  <2> QED
    BY <1>1, <2>1
<1>3. CASE row = BookIn(j, m, n)
  <2>1. row.out = j.out /\ row.inGood = j.inGood + m /\ row.inDefect = j.inDefect + n
    BY <1>3 DEF BookIn, JournalRow
  <2> QED
    BY <1>1, <2>1
<1>4. CASE row = BookBack(j, m, n)
  <2>1. row.out = j.out /\ row.inGood = j.inGood /\ row.inDefect = j.inDefect
    BY <1>4 DEF BookBack, JournalRow
  <2> QED
    BY <1>1, <2>1
<1> QED
  BY <1>2, <1>3, <1>4

LEMMA BooksStay ==
    ASSUME TypeOK, journal' = journal
    PROVE  MoreBooked
<1>1. \A u \in Transfers, w \in Warehouses, s \in SKUs : journal[u][w][s] \in JournalRow
  BY DEF TypeOK
<1> QED
  BY <1>1 DEF MoreBooked, JournalRow

LEMMA SendBooksMore ==
    ASSUME IInv, NEW t \in Transfers, NEW noLogistics \in BOOLEAN, Send(t, TransferStatus, noLogistics)
    PROVE  MoreBooked
<1> DEFINE from == doc[t].from
           row  == [s \in SKUs |-> BookOut(journal[t][from][s], doc[t].items[s])]
<1>1. TypeOK /\ from \in Warehouses /\ \A s \in SKUs : doc[t].items[s] \in Nat /\ journal[t][from][s] \in JournalRow
  BY RemainingTyped DEF IInv, TypeOK, Document
<1>2. journal' = [journal EXCEPT ![t][from] = row]
  BY <1>1 DEF Send, TypeOK
<1>3. \A s \in SKUs : row[s] \in JournalRow /\ row[s] = BookOut(journal[t][from][s], doc[t].items[s])
  BY <1>1, BookTyped
<1>4. row \in [SKUs -> JournalRow]
  BY <1>3
<1> HIDE DEF from, row
<1>5. \A s \in SKUs : /\ journal[t][from][s].out <= row[s].out
                      /\ journal[t][from][s].inGood <= row[s].inGood
                      /\ journal[t][from][s].inDefect <= row[s].inDefect
  BY <1>1, <1>3, BooksGrow
<1> QED
  BY <1>1, <1>2, <1>4, <1>5, RowsGrow

LEMMA CreditBooksMore ==
    ASSUME IInv, NEW t \in Transfers, NEW good \in [SKUs -> Nat], NEW bad \in [SKUs -> Nat],
           Credit(t, good, bad)
    PROVE  MoreBooked
<1> DEFINE to  == doc[t].to
           row == [s \in SKUs |-> BookIn(journal[t][to][s], good[s], bad[s])]
<1>1. TypeOK /\ to \in Warehouses /\ \A s \in SKUs : journal[t][to][s] \in JournalRow
  BY DEF IInv, TypeOK, Document
<1>2. journal' = [journal EXCEPT ![t][to] = row]
  BY <1>1 DEF Credit, TypeOK
<1>3. \A s \in SKUs : /\ row[s] \in JournalRow /\ row[s] = BookIn(journal[t][to][s], good[s], bad[s])
                      /\ good[s] \in Nat /\ bad[s] \in Nat
  BY <1>1, BookTyped
<1>4. row \in [SKUs -> JournalRow]
  BY <1>3
<1> HIDE DEF to, row
<1>5. \A s \in SKUs : /\ journal[t][to][s].out <= row[s].out
                      /\ journal[t][to][s].inGood <= row[s].inGood
                      /\ journal[t][to][s].inDefect <= row[s].inDefect
  BY <1>1, <1>3, BooksGrow
<1> QED
  BY <1>1, <1>2, <1>4, <1>5, RowsGrow

LEMMA ReturnBooksMore ==
    ASSUME IInv, NEW t \in Transfers, ReturnTransfer(t)
    PROVE  MoreBooked
<1> DEFINE d     == doc[t]
           taken == [s \in SKUs |-> Lesser(Received(t, s), d.items[s])]
           off   == [s \in SKUs |-> AsGood(d.isDefect, -taken[s])]
           offD  == [s \in SKUs |-> AsDefect(d.isDefect, -taken[s])]
           row   == [s \in SKUs |-> BookBack(journal[t][d.to][s], -off[s], -offD[s])]
<1>1. TypeOK /\ d.to \in Warehouses /\ \A s \in SKUs : journal[t][d.to][s] \in JournalRow
  BY DEF IInv, TypeOK, Document
<1>2. journal' = [journal EXCEPT ![t][d.to] = row]
  BY <1>1 DEF ReturnTransfer, TypeOK
<1>3. ASSUME NEW s \in SKUs
      PROVE  -off[s] \in Nat /\ -offD[s] \in Nat
  <2>1. taken[s] \in Nat
    BY <1>1, RemainingTyped DEF Lesser
  <2>2. off[s] = AsGood(d.isDefect, -taken[s]) /\ offD[s] = AsDefect(d.isDefect, -taken[s])
    OBVIOUS
  <2> HIDE DEF taken, off, offD
  <2> QED
    BY <2>1, <2>2 DEF AsGood, AsDefect
<1> HIDE DEF taken, off, offD
<1>4. \A s \in SKUs : row[s] \in JournalRow /\ row[s] = BookBack(journal[t][d.to][s], -off[s], -offD[s])
  BY <1>1, <1>3, BookTyped
<1>5. row \in [SKUs -> JournalRow]
  BY <1>4
<1> HIDE DEF row
<1>6. \A s \in SKUs : /\ journal[t][d.to][s].out <= row[s].out
                      /\ journal[t][d.to][s].inGood <= row[s].inGood
                      /\ journal[t][d.to][s].inDefect <= row[s].inDefect
  BY <1>1, <1>3, <1>4, BooksGrow
<1> QED
  BY <1>1, <1>2, <1>5, <1>6, RowsGrow

LEMMA EveryStepBooksMore ==
    ASSUME IInv, [Next]_vars
    PROVE  MoreBooked
<1>1. ASSUME NEW t \in Transfers, Prepare(t) \/ FfTakesUp(t) \/ FfAssembled(t) \/ Settle(t)
      PROVE  MoreBooked
  BY <1>1, QuietSteps, BooksStay DEF QuietFor, QuietDoc, IInv
<1>2. ASSUME NEW t \in Transfers, Complete(t) \/ \E good, bad \in Quantities : ReceiveFact(t, good, bad)
      PROVE  MoreBooked
  BY <1>2, Deliveries, CreditBooksMore
<1>3. ASSUME journal' = journal
      PROVE  MoreBooked
  BY <1>3, BooksStay DEF IInv
<1> QED
  BY <1>1, <1>2, <1>3, SendBooksMore, ReturnBooksMore
  DEF Next, vars, Travel, FfReports, GazelkaLetsGo, GazelkaLeads, Adjust

\* Once the two ends of a transfer have met, they stay met.
LEMMA ApartBefore ==
    ASSUME IInv, [Next]_vars, EndsKeptApart'
    PROVE  EndsKeptApart
<1>1. IInv'
  BY NextInv
<1> SUFFICES ASSUME NEW t \in Transfers, NEW w \in Warehouses, NEW s \in SKUs
             PROVE  journal[t][w][s].out = 0 \/ journal[t][w][s].inGood + journal[t][w][s].inDefect = 0
  BY DEF EndsKeptApart
<1>2. journal[t][w][s] \in JournalRow /\ journal'[t][w][s] \in JournalRow
  BY <1>1 DEF IInv, TypeOK
<1>3. /\ journal[t][w][s].out <= journal'[t][w][s].out
      /\ journal[t][w][s].inGood <= journal'[t][w][s].inGood
      /\ journal[t][w][s].inDefect <= journal'[t][w][s].inDefect
  BY EveryStepBooksMore DEF MoreBooked
<1>4. journal'[t][w][s].out = 0 \/ journal'[t][w][s].inGood + journal'[t][w][s].inDefect = 0
  BY DEF EndsKeptApart
<1> QED
  BY <1>2, <1>3, <1>4 DEF JournalRow

-----------------------------------------------------------------------------
\* The totals, as long as the clamp of _transfer_received_map has nothing to net.
TInv == EndsKeptApart => Balanced

LEMMA InitBalanced == Init => TInv
<1> SUFFICES ASSUME Init PROVE Balanced
  BY DEF TInv
<1>0. IInv /\ \A t \in Transfers : doc[t].status = Absent
  BY InitInv DEF Init
<1>1. AllArrived
  BY <1>0 DEF AllArrived, Arrived, Absent
<1>2. UnitsTold
  <2>1. ASSUME NEW s \in SKUs, NEW w \in Warehouses
        PROVE  UnitsAt(w, s) = OpenedWith(w, s)
    <3>1. Opening[w][s].good \in Nat /\ Opening[w][s].bad \in Nat
      BY OpeningAssumption
    <3>2. stock[w][s] = [quantity |-> Opening[w][s].good, defect |-> Opening[w][s].bad,
                         transit |-> 0, defectTransit |-> 0]
      BY DEF Init
    <3> QED
      BY <3>1, <3>2 DEF UnitsAt, OpenedWith
  <2>2. ASSUME NEW s \in SKUs
        PROVE  /\ Total([w \in Warehouses |-> OpenedWith(w, s)]) \in Nat
               /\ [w \in Warehouses |-> UnitsAt(w, s)] = [w \in Warehouses |-> OpenedWith(w, s)]
    <3>1. [w \in Warehouses |-> OpenedWith(w, s)] \in [Warehouses -> Nat]
      BY OpeningAssumption DEF OpenedWith
    <3> QED
      BY <2>1, <3>1, WarehousesAssumption, TotalTyped
  <2>3. \A s \in SKUs : adjusted[s] = 0
    BY DEF Init, Nothing
  <2> QED
    BY <2>2, <2>3 DEF UnitsTold
<1>3. TransitTold
  <2> SUFFICES ASSUME NEW w \in Warehouses, NEW s \in SKUs, NEW k \in Balances
               PROVE  stock[w][s][k] = Total([t \in Transfers |-> Owes(t, w, s, k)])
    BY DEF TransitTold
  <2>1. stock[w][s][k] = 0
    BY DEF Init, Balances
  <2> DEFINE f == [t \in Transfers |-> Owes(t, w, s, k)]
  <2>2. f = [t \in Transfers |-> 0]
    BY <1>0 DEF Owes, OnTheRoad, Absent
  <2>3. UnitsIn(f) = {}
    BY <2>2 DEF UnitsIn
  <2> HIDE DEF f
  <2>4. Total(f) = 0
    BY <2>3, FS_EmptySet DEF Total
  <2> QED
    BY <2>1, <2>4 DEF f
<1> QED
  BY <1>1, <1>2, <1>3 DEF Balanced

LEMMA NextBalanced == IInv /\ TInv /\ [Next]_vars => TInv'
<1> SUFFICES ASSUME IInv, TInv, [Next]_vars, EndsKeptApart' PROVE Balanced'
  BY DEF TInv
<1>1. IInv' /\ EndsKeptApart /\ Balanced
  BY NextInv, ApartBefore DEF TInv
<1>2. ASSUME NEW t \in Transfers, Prepare(t) \/ FfTakesUp(t) \/ FfAssembled(t) \/ Settle(t)
      PROVE  Balanced'
  BY <1>1, <1>2, QuietSteps, QuietBalanced
<1>3. ASSUME NEW t \in Transfers, NEW noLogistics \in BOOLEAN, Send(t, TransferStatus, noLogistics)
      PROVE  Balanced'
  BY <1>1, <1>3, SendBalanced
<1>4. ASSUME NEW t \in Transfers, Complete(t) \/ \E good, bad \in Quantities : ReceiveFact(t, good, bad)
      PROVE  Balanced'
  BY <1>1, <1>4, Deliveries, CreditBalanced
<1>5. ASSUME NEW t \in Transfers, ReturnTransfer(t)
      PROVE  Balanced'
  BY <1>1, <1>5, ReturnBalanced
<1>6. ASSUME NEW w \in Warehouses, NEW s \in SKUs, NEW delta \in Corrections, Adjust(w, s, delta)
      PROVE  Balanced'
  BY <1>1, <1>6, AdjustBalanced
<1>7. ASSUME UNCHANGED <<doc, stock, journal, adjusted>>
      PROVE  Balanced'
  <2>1. TransitTold' /\ AllArrived'
    BY <1>1, <1>7, TransfersStay DEF Balanced
  <2>2. UnitsTold'
    BY <1>1, <1>7, UnitsStay DEF Balanced, IInv
  <2> QED
    BY <2>1, <2>2 DEF Balanced
<1>8. ASSUME NEW t \in Transfers, GazelkaLetsGo(t) \/ GazelkaLeads(t)
      PROVE  Balanced'
  BY <1>7, <1>8 DEF GazelkaLetsGo, GazelkaLeads
<1>9. CASE UNCHANGED vars
  BY <1>7, <1>9 DEF vars
<1> QED
  BY <1>2, <1>3, <1>4, <1>5, <1>6, <1>8, <1>9, AggregatedAssumption DEF Next, Travel, FfReports

\* Every unit is in exactly one place in every reachable state: on hand in one
\* warehouse or on the road to one, whatever transfers cross on the same rows.
THEOREM UnitsCorrect == Spec => []UnitsConserved
<1>1. TInv => UnitsConserved
  BY DEF TInv, Balanced, UnitsTold, UnitsConserved
<1> QED
  BY InitInv, NextInv, InitBalanced, NextBalanced, <1>1, PTL DEF Spec

\* What a receiver's row shows in transit is what the shipped transfers still owe
\* it, so the max(0, ...) of _update_stock and of the handlers never hides a gap.
THEOREM TransitCorrect == Spec => []TransitIsOwed
<1>1. TInv => TransitIsOwed
  BY DEF TInv, Balanced, TransitTold, Balances, TransitIsOwed
<1> QED
  BY InitInv, NextInv, InitBalanced, NextBalanced, <1>1, PTL DEF Spec

-----------------------------------------------------------------------------
(* Under the sync with the fulfilment centres *)

\* What the transaction of a pass does to the transfers: some that are being
\* assembled move on, none of them has goods on the road.
OnlyMarks ==
    /\ doc' \in [Transfers -> Document]
    /\ \A t \in Transfers :
          /\ doc'[t].from = doc[t].from /\ doc'[t].to = doc[t].to
          /\ doc'[t].items = doc[t].items /\ doc'[t].isDefect = doc[t].isDefect
          /\ doc'[t].carrier = doc[t].carrier
          /\ \/ doc'[t].status = doc[t].status
             \/ /\ doc[t].status \in {"PENDING", "IN_PROGRESS"}
                /\ doc'[t].status \in {"IN_PROGRESS", "READY"}
    /\ UNCHANGED <<stock, journal, adjusted, pickups, rounds, led>>

LEMMA CollectMarks ==
    ASSUME TypeOK, NEW p \in Passes, Collect(p)
    PROVE  OnlyMarks
<1>1. doc' = [t \in Transfers |-> [doc[t] EXCEPT !.status = Marked(t, doc[t].status)]]
  BY DEF Collect, TypeOK, Document
<1>2. ASSUME NEW t \in Transfers
      PROVE  /\ doc'[t] \in Document
             /\ doc'[t].from = doc[t].from /\ doc'[t].to = doc[t].to
             /\ doc'[t].items = doc[t].items /\ doc'[t].isDefect = doc[t].isDefect
             /\ doc'[t].carrier = doc[t].carrier
             /\ \/ doc'[t].status = doc[t].status
                \/ /\ doc[t].status \in {"PENDING", "IN_PROGRESS"}
                   /\ doc'[t].status \in {"IN_PROGRESS", "READY"}
  <2> DEFINE new == Marked(t, doc[t].status)
  <2>1. doc[t] \in Document
    BY DEF TypeOK
  <2>2. \/ new = doc[t].status
        \/ doc[t].status \in {"PENDING", "IN_PROGRESS"} /\ new \in {"IN_PROGRESS", "READY"}
    BY DEF Marked
  <2>3. new \in TransferStatus \cup {Absent}
    BY <2>1, <2>2 DEF Document, TransferStatus
  <2>4. doc'[t] = [doc[t] EXCEPT !.status = new]
    BY <1>1
  <2> HIDE DEF new
  <2> QED
    BY <2>1, <2>2, <2>3, <2>4 DEF Document
<1>3. doc' \in [Transfers -> Document]
  BY <1>1, <1>2
<1> QED
  BY <1>2, <1>3 DEF OnlyMarks, Collect

LEMMA MarksInv ==
    ASSUME IInv, OnlyMarks
    PROVE  IInv'
<1>1. TypeOK'
  BY DEF IInv, TypeOK, OnlyMarks
<1>2. TwoEnds'
  BY DEF IInv, TwoEnds, Exists, Absent, OnlyMarks
<1>3. ASSUME NEW u \in Transfers, NEW w \in Warehouses, NEW s \in SKUs, NeverLeft(u, w, s)'
      PROVE  AccountOK(u, w, s)'
  <2>1. AccountOK(u, w, s) /\ Landed(u, w, s)' = Landed(u, w, s)
    BY <1>3 DEF IInv, Accounts, NeverLeft, Landed, OnlyMarks
  <2>2. doc'[u].to = doc[u].to /\ doc'[u].items = doc[u].items
    BY DEF OnlyMarks
  <2>3. CASE doc'[u].status = doc[u].status
    BY <2>1, <2>2, <2>3 DEF AccountOK
  <2>4. CASE doc[u].status \in {"PENDING", "IN_PROGRESS"} /\ doc'[u].status \in {"IN_PROGRESS", "READY"}
    BY <2>1, <2>2, <2>4 DEF AccountOK
  <2> QED
    BY <2>3, <2>4 DEF OnlyMarks
<1> QED
  BY <1>1, <1>2, <1>3 DEF IInv, Accounts

LEMMA MarksRouted ==
    ASSUME Routed, OnlyMarks
    PROVE  Routed'
BY DEF Routed, NeverLeft, Absent, OnlyMarks

\* A counter sees nothing of it.
LEMMA MarksUnseen ==
    ASSUME OnlyMarks
    PROVE  UNCHANGED H!vars
<1>1. \A t \in Transfers : LandedOf(t)' = LandedOf(t)
  BY DEF LandedOf, Landed, OnlyMarks
<1>2. \A t \in Transfers : PlaceOf(t)' = PlaceOf(t)
  BY <1>1 DEF PlaceOf, OnlyMarks
<1>3. \A t \in Transfers : doc'[t].items = doc[t].items
  BY DEF OnlyMarks
<1> QED
  BY <1>1, <1>2, <1>3 DEF H!vars, Packed, Whereabouts, Landings

\* And the rows in total are as they were.
LEMMA MarksBalanced ==
    ASSUME IInv, TInv, OnlyMarks
    PROVE  TInv'
<1>1. \A t \in Transfers, s \in SKUs : Received(t, s)' = Received(t, s) /\ Remaining(t, s)' = Remaining(t, s)
  BY DEF Received, Remaining, Landed, OnlyMarks
<1>2. EndsKeptApart' => EndsKeptApart
  BY DEF EndsKeptApart, OnlyMarks
<1> SUFFICES ASSUME Balanced PROVE Balanced'
  BY <1>2 DEF TInv
<1>3. ASSUME NEW w \in Warehouses, NEW s \in SKUs, NEW k \in Balances
      PROVE  stock'[w][s][k] = Total([t \in Transfers |-> Owes(t, w, s, k)'])
  <2>1. \A t \in Transfers : Owes(t, w, s, k)' = Owes(t, w, s, k)
    BY <1>1 DEF Owes, OnTheRoad, OnlyMarks
  <2>2. [t \in Transfers |-> Owes(t, w, s, k)'] = [t \in Transfers |-> Owes(t, w, s, k)]
    BY <2>1
  <2> QED
    BY <2>2 DEF Balanced, TransitTold, OnlyMarks
<1>4. TransitTold'
  BY <1>3 DEF TransitTold
<1>5. AllArrived'
  BY <1>1 DEF Balanced, AllArrived, Arrived, OnlyMarks
<1>6. UnitsTold'
  BY MarksInv, UnitsStay DEF IInv, Balanced, OnlyMarks
<1> QED
  BY <1>4, <1>5, <1>6 DEF Balanced

-----------------------------------------------------------------------------
(* Every step of the sync is a step of a handler or the marking of a pass *)

\* The part of SyncTypeOK that is the sync's own.
SyncTyped ==
    /\ centre \in [Requests -> [stage : Stages, fact : Quantities]]
    /\ mirror \in [Requests -> [link : Transfers \cup {NoTransfer}, stage : Stages,
                                applied : BOOLEAN]]
    /\ byFact \in [Requests -> [SKUs -> Nat]]
    /\ pass \in [Passes ->
                   [ship   : SUBSET Transfers,
                    facts  : SUBSET [req : Inbound, transfer : Transfers, closed : BOOLEAN],
                    answer : SUBSET [req : Inbound, transfer : Transfers,
                                     fact : Quantities, final : BOOLEAN]]]

LEMMA NothingTyped == Nothing \in Quantities /\ \A s \in SKUs : Nothing[s] = 0
BY BoundsAssumption DEF Nothing, Quantities

LEMMA AnswerTyped ==
    ASSUME SyncTyped, NEW p \in Passes, NEW a \in pass[p].answer
    PROVE  a.req \in Inbound /\ a.req \in Requests /\ a.transfer \in Transfers
           /\ a.fact \in Quantities /\ a.final \in BOOLEAN
BY DEF SyncTyped, Inbound

LEMMA LinkSteps ==
    ASSUME IInv, NEW r \in Requests, NEW t \in Transfers, Link(r, t)
    PROVE  [Next]_vars
<1>1. CASE doc' = doc
  BY <1>1 DEF Link, vars
<1>2. CASE doc[t].status \in {"PENDING", "IN_PROGRESS"} /\ doc' = [doc EXCEPT ![t].status = "READY"]
  <2>1. FfAssembled(t)
    BY <1>2 DEF Link, FfAssembled, SetStatus, StockKept
  <2> QED
    BY <2>1 DEF Next, FfReports
<1> QED
  BY <1>1, <1>2 DEF Link

LEMMA AutoSendSteps ==
    ASSUME NEW p \in Passes, NEW t \in Transfers, AutoSend(p, t)
    PROVE  Send(t, TransferStatus, FALSE)
BY DEF AutoSend, Send, TransferStatus

LEMMA SyncSteps ==
    ASSUME IInv, SyncTyped, [SyncNext]_allVars
    PROVE  [Next]_vars \/ OnlyMarks
<1>1. CASE UserStep
  <2>1. ASSUME NEW t \in Transfers, Prepare(t) \/ Travel(t) \/ Settle(t)
        PROVE  [Next]_vars
    BY <2>1 DEF Next
  <2>2. ASSUME NEW r \in Requests, Unlink(r)
        PROVE  [Next]_vars
    BY <2>2 DEF Unlink
  <2> QED
    BY <1>1, <2>1, <2>2, LinkSteps DEF UserStep
<1>2. CASE CentreStep
  BY <1>2 DEF CentreStep, Accept, Advance
<1>3. ASSUME NEW p \in Passes, PassStep(p)
      PROVE  [Next]_vars \/ OnlyMarks
  <2>1. CASE Collect(p)
    BY <2>1, CollectMarks DEF IInv
  <2>2. ASSUME NEW t \in Transfers, AutoSend(p, t)
        PROVE  [Next]_vars
    BY <2>2, AutoSendSteps DEF Next, Travel
  <2>3. CASE (\E c \in pass[p].facts, fact \in Quantities : FetchFact(p, c, fact)) \/ Skip(p) \/ Die(p)
    BY <2>3 DEF FetchFact, Skip, Die
  <2>4. CASE ApplyFact(p)
    <3>1. PICK a \in pass[p].answer : ReceiveFact(a.transfer, a.fact, Nothing)
      BY <2>4 DEF ApplyFact
    <3>2. a.transfer \in Transfers /\ a.fact \in Quantities
      BY AnswerTyped
    <3>3. FfReports(a.transfer)
      BY <3>1, <3>2, NothingTyped DEF FfReports
    <3> QED
      BY <3>2, <3>3 DEF Next
  <2> QED
    BY <1>3, <2>1, <2>2, <2>3, <2>4 DEF PassStep
<1>4. CASE UNCHANGED allVars
  BY <1>4 DEF allVars
<1> QED
  BY <1>1, <1>2, <1>3, <1>4 DEF SyncNext

LEMMA InitSync == SyncInit => SyncTyped
<1> SUFFICES ASSUME SyncInit PROVE SyncTyped
  OBVIOUS
<1>1. [stage |-> "open", fact |-> Nothing] \in [stage : Stages, fact : Quantities]
  BY NothingTyped DEF Stages
<1>2. byFact \in [Requests -> [SKUs -> Nat]]
  BY DEF SyncInit, Nothing
<1>3. mirror \in [Requests -> [link : Transfers \cup {NoTransfer}, stage : Stages, applied : BOOLEAN]]
  BY DEF SyncInit, Stages
<1>4. centre \in [Requests -> [stage : Stages, fact : Quantities]]
  BY <1>1 DEF SyncInit
<1>5. Idle \in [ship   : SUBSET Transfers,
                facts  : SUBSET [req : Inbound, transfer : Transfers, closed : BOOLEAN],
                answer : SUBSET [req : Inbound, transfer : Transfers, fact : Quantities, final : BOOLEAN]]
  BY DEF Idle
<1>6. pass \in [Passes -> [ship   : SUBSET Transfers,
                facts  : SUBSET [req : Inbound, transfer : Transfers, closed : BOOLEAN],
                answer : SUBSET [req : Inbound, transfer : Transfers, fact : Quantities, final : BOOLEAN]]]
  BY <1>5 DEF SyncInit
<1> QED
  BY <1>2, <1>3, <1>4, <1>6 DEF SyncTyped

\* The parts of a running pass keep their kinds.
PassRecord == [ship   : SUBSET Transfers,
               facts  : SUBSET [req : Inbound, transfer : Transfers, closed : BOOLEAN],
               answer : SUBSET [req : Inbound, transfer : Transfers, fact : Quantities, final : BOOLEAN]]

LEMMA PassParts ==
    ASSUME NEW x \in PassRecord, NEW ship \in SUBSET Transfers,
           NEW facts \in SUBSET [req : Inbound, transfer : Transfers, closed : BOOLEAN],
           NEW answer \in SUBSET [req : Inbound, transfer : Transfers, fact : Quantities, final : BOOLEAN]
    PROVE  /\ [x EXCEPT !.ship = ship] \in PassRecord
           /\ [x EXCEPT !.facts = facts] \in PassRecord
           /\ [x EXCEPT !.answer = answer] \in PassRecord
           /\ [x EXCEPT !.facts = facts, !.ship = ship] \in PassRecord
           /\ [x EXCEPT !.facts = facts, !.answer = answer] \in PassRecord
BY DEF PassRecord

\* What a pass takes for candidates are requests with a link to a transfer.
LEMMA CandidatesTyped ==
    ASSUME SyncTyped
    PROVE  FactCandidates \subseteq [req : Inbound, transfer : Transfers, closed : BOOLEAN]
<1> SUFFICES ASSUME NEW c \in FactCandidates
             PROVE  c \in [req : Inbound, transfer : Transfers, closed : BOOLEAN]
  OBVIOUS
<1>1. PICK r \in Inbound : /\ mirror[r].link # NoTransfer
                           /\ c = [req |-> r, transfer |-> mirror[r].link,
                                   closed |-> centre[r].stage = "closed"]
  BY DEF FactCandidates
<1>2. mirror[r].link \in Transfers
  BY <1>1 DEF SyncTyped, Inbound
<1> QED
  BY <1>1, <1>2

LEMMA PassTyped ==
    ASSUME SyncTyped, NEW p \in Passes, PassStep(p)
    PROVE  pass' \in [Passes -> PassRecord]
<1>1. pass \in [Passes -> PassRecord] /\ pass[p] \in PassRecord
  BY DEF SyncTyped, PassRecord
<1>2. ASSUME NEW x \in PassRecord, pass' = [pass EXCEPT ![p] = x]
      PROVE  pass' \in [Passes -> PassRecord]
  BY <1>1, <1>2
<1>3. CASE Collect(p)
  <2>1. PICK facts \in SUBSET FactCandidates, ship \in SUBSET Transfers :
           pass' = [pass EXCEPT ![p].facts = facts, ![p].ship = ship]
    BY <1>3 DEF Collect
  <2> DEFINE x == [pass[p] EXCEPT !.facts = facts, !.ship = ship]
  <2>2. x \in PassRecord
    BY <1>1, <2>1, CandidatesTyped, PassParts
  <2>3. pass' = [pass EXCEPT ![p] = x]
    BY <1>1, <2>1
  <2> HIDE DEF x
  <2> QED
    BY <1>2, <2>2, <2>3
<1>4. ASSUME NEW t \in Transfers, pass' = [pass EXCEPT ![p].ship = @ \ {t}]
      PROVE  pass' \in [Passes -> PassRecord]
  <2> DEFINE left == pass[p].ship \ {t}
             x    == [pass[p] EXCEPT !.ship = left]
  <2>1. left \in SUBSET Transfers
    BY <1>1 DEF PassRecord
  <2>2. x \in PassRecord
    <3> HIDE DEF left
    <3> QED
      BY <1>1, <2>1 DEF PassRecord
  <2>3. pass' = [pass EXCEPT ![p] = x]
    BY <1>1, <1>4
  <2> HIDE DEF x
  <2> QED
    BY <1>2, <2>2, <2>3
<1>5. ASSUME NEW c \in pass[p].facts, NEW fact \in Quantities, FetchFact(p, c, fact)
      PROVE  pass' \in [Passes -> PassRecord]
  <2> DEFINE left   == pass[p].facts \ {c}
             answer == {[req |-> c.req, transfer |-> c.transfer, fact |-> fact,
                         final |-> c.closed /\ fact = centre[c.req].fact]}
             x      == [pass[p] EXCEPT !.facts = left, !.answer = answer]
  <2>1. c \in [req : Inbound, transfer : Transfers, closed : BOOLEAN]
    BY <1>1 DEF PassRecord
  <2>2. /\ left \in SUBSET [req : Inbound, transfer : Transfers, closed : BOOLEAN]
        /\ answer \in SUBSET [req : Inbound, transfer : Transfers, fact : Quantities, final : BOOLEAN]
    BY <1>1, <2>1 DEF PassRecord
  <2>3. pass' = [pass EXCEPT ![p] = x]
    BY <1>1, <1>5 DEF FetchFact
  <2> HIDE DEF left, answer
  <2>4. x \in PassRecord
    BY <1>1, <2>2 DEF PassRecord
  <2> HIDE DEF x
  <2> QED
    BY <1>2, <2>3, <2>4
<1>6. ASSUME pass' = [pass EXCEPT ![p].answer = {}]
      PROVE  pass' \in [Passes -> PassRecord]
  <2> DEFINE x == [pass[p] EXCEPT !.answer = {}]
  <2>1. x \in PassRecord
    BY <1>1 DEF PassRecord
  <2>2. pass' = [pass EXCEPT ![p] = x]
    BY <1>1, <1>6
  <2> HIDE DEF x
  <2> QED
    BY <1>2, <2>1, <2>2
<1>7. ASSUME NEW c \in pass[p].facts, pass' = [pass EXCEPT ![p].facts = @ \ {c}]
      PROVE  pass' \in [Passes -> PassRecord]
  <2> DEFINE left == pass[p].facts \ {c}
             x    == [pass[p] EXCEPT !.facts = left]
  <2>1. left \in SUBSET [req : Inbound, transfer : Transfers, closed : BOOLEAN]
    BY <1>1 DEF PassRecord
  <2>2. pass' = [pass EXCEPT ![p] = x]
    BY <1>1, <1>7
  <2> HIDE DEF left
  <2>3. x \in PassRecord
    BY <1>1, <2>1 DEF PassRecord
  <2> HIDE DEF x
  <2> QED
    BY <1>2, <2>2, <2>3
<1>8. pass[p].ship \subseteq Transfers
  BY <1>1 DEF PassRecord
<1>9. CASE Skip(p)
  BY <1>4, <1>6, <1>7, <1>8, <1>9 DEF Skip
<1>10. CASE Die(p)
  <2>1. Idle \in PassRecord
    BY DEF Idle, PassRecord
  <2> QED
    BY <1>2, <1>10, <2>1 DEF Die
<1>11. CASE ApplyFact(p)
  BY <1>6, <1>11 DEF ApplyFact
<1> QED
  BY <1>3, <1>4, <1>5, <1>9, <1>10, <1>11 DEF PassStep, AutoSend

LEMMA NextSync == IInv /\ SyncTyped /\ [SyncNext]_allVars => SyncTyped'
<1> SUFFICES ASSUME IInv, SyncTyped, [SyncNext]_allVars PROVE SyncTyped'
  OBVIOUS
<1> DEFINE Row  == [stage : Stages, fact : Quantities]
           Seen1 == [link : Transfers \cup {NoTransfer}, stage : Stages, applied : BOOLEAN]
<1>1. /\ centre \in [Requests -> Row] /\ mirror \in [Requests -> Seen1]
      /\ byFact \in [Requests -> [SKUs -> Nat]] /\ pass \in [Passes -> PassRecord]
  BY DEF SyncTyped, PassRecord
<1>2. ASSUME centre' \in [Requests -> Row], mirror' \in [Requests -> Seen1],
             byFact' \in [Requests -> [SKUs -> Nat]], pass' \in [Passes -> PassRecord]
      PROVE  SyncTyped'
  BY <1>2 DEF SyncTyped, PassRecord
<1>3. ASSUME NEW r \in Requests, NEW t \in Transfers \cup {NoTransfer},
             mirror' = [mirror EXCEPT ![r].link = t]
      PROVE  mirror' \in [Requests -> Seen1]
  BY <1>1, <1>3
<1>4. CASE UserStep
  <2>1. CASE UNCHANGED syncVars
    BY <1>1, <1>2, <2>1 DEF syncVars
  <2>2. ASSUME NEW r \in Requests, NEW t \in Transfers, Link(r, t)
        PROVE  SyncTyped'
    <3> HIDE DEF Seen1, Row
    <3> QED
      BY <1>1, <1>2, <1>3, <2>2 DEF Link
  <2>3. ASSUME NEW r \in Requests, Unlink(r)
        PROVE  SyncTyped'
    <3> HIDE DEF Seen1, Row
    <3> QED
      BY <1>1, <1>2, <1>3, <2>3 DEF Unlink
  <2> QED
    BY <1>4, <2>1, <2>2, <2>3 DEF UserStep
<1>5. CASE CentreStep
  <2>1. PICK r \in Requests : (\E s \in SKUs : Accept(r, s)) \/ \E stage \in Stages : Advance(r, stage)
    BY <1>5 DEF CentreStep
  <2>2. UNCHANGED <<mirror, byFact, pass>>
    BY <2>1 DEF Accept, Advance
  <2>3. ASSUME NEW s \in SKUs, Accept(r, s)
        PROVE  centre' \in [Requests -> Row]
    <3> DEFINE old == centre[r].fact
               new == [old EXCEPT ![s] = old[s] + 1]
    <3>1. old \in [SKUs -> 0..MaxQty] /\ old[s] < MaxQty
      BY <1>1, <2>3 DEF Accept, Quantities
    <3>2. new \in Quantities
      <4> HIDE DEF old
      <4>1. old[s] \in 0..MaxQty
        BY <3>1
      <4>2. old[s] + 1 \in 0..MaxQty
        BY <3>1, <4>1, BoundsAssumption
      <4> QED
        BY <3>1, <4>2 DEF Quantities
    <3>3. centre' = [centre EXCEPT ![r].fact = new]
      BY <1>1, <2>3 DEF Accept
    <3> HIDE DEF new
    <3> QED
      BY <1>1, <3>2, <3>3
  <2>4. ASSUME NEW stage \in Stages, Advance(r, stage)
        PROVE  centre' \in [Requests -> Row]
    BY <1>1, <2>4 DEF Advance
  <2>5. centre' \in [Requests -> Row]
    BY <2>1, <2>3, <2>4
  <2> QED
    BY <1>1, <1>2, <2>2, <2>5
<1>6. ASSUME NEW p \in Passes, PassStep(p)
      PROVE  SyncTyped'
  <2>1. pass' \in [Passes -> PassRecord]
    BY <1>6, PassTyped
  <2>2. CASE Collect(p)
    <3>1. mirror' = [r \in Requests |-> [mirror[r] EXCEPT !.stage = centre[r].stage]]
          /\ UNCHANGED <<centre, byFact>>
      BY <2>2 DEF Collect
    <3>2. mirror' \in [Requests -> Seen1]
      BY <1>1, <3>1
    <3> QED
      BY <1>1, <1>2, <2>1, <3>1, <3>2
  <2>3. CASE UNCHANGED <<centre, mirror, byFact>>
    BY <1>1, <1>2, <2>1, <2>3
  <2>4. CASE ApplyFact(p)
    <3>1. PICK a \in pass[p].answer :
             /\ byFact' = [byFact EXCEPT ![a.req] = [s \in SKUs |-> byFact[a.req][s] + TakeGood(a.transfer, a.fact, s)]]
             /\ mirror' \in {mirror, [mirror EXCEPT ![a.req].applied = TRUE]}
             /\ centre' = centre
      BY <1>1, <2>4 DEF ApplyFact
    <3>2. a.req \in Requests /\ a.transfer \in Transfers /\ a.fact \in Quantities
      BY AnswerTyped
    <3>3. mirror' \in [Requests -> Seen1]
      <4> DEFINE x == [mirror[a.req] EXCEPT !.applied = TRUE]
      <4>1. x \in Seen1
        BY <1>1, <3>2
      <4>2. mirror' \in {mirror, [mirror EXCEPT ![a.req] = x]}
        BY <1>1, <3>1, <3>2
      <4> HIDE DEF x, Seen1
      <4> QED
        BY <1>1, <3>2, <4>1, <4>2
    <3>4. \A s \in SKUs : TakeGood(a.transfer, a.fact, s) \in Nat
      BY <3>2, RemainingTyped, BoundsAssumption DEF IInv, TakeGood, Lesser, Quantities
    <3> DEFINE new == [s \in SKUs |-> byFact[a.req][s] + TakeGood(a.transfer, a.fact, s)]
    <3>5. new \in [SKUs -> Nat]
      BY <1>1, <3>2, <3>4
    <3>6. byFact' = [byFact EXCEPT ![a.req] = new]
      BY <3>1
    <3> HIDE DEF new
    <3>7. byFact' \in [Requests -> [SKUs -> Nat]]
      BY <1>1, <3>2, <3>5, <3>6
    <3> QED
      BY <1>1, <1>2, <2>1, <3>1, <3>3, <3>7
  <2> QED
    BY <1>6, <2>2, <2>3, <2>4 DEF PassStep, AutoSend, FetchFact, Skip, Die
<1>7. CASE UNCHANGED allVars
  BY <1>1, <1>2, <1>7 DEF allVars, syncVars
<1> QED
  BY <1>4, <1>5, <1>6, <1>7 DEF SyncNext

SInv == IInv /\ SyncTyped

LEMMA SyncStart == SyncInit => SInv
BY InitInv, InitSync DEF SInv, SyncInit

LEMMA SyncGoesOn == SInv /\ [SyncNext]_allVars => SInv'
<1> SUFFICES ASSUME SInv, [SyncNext]_allVars PROVE SInv'
  OBVIOUS
<1>1. IInv'
  BY SyncSteps, NextInv, MarksInv DEF SInv
<1> QED
  BY <1>1, NextSync DEF SInv

\* Whatever the passes, the centres and the users do at a time, every request and
\* every pass is what the code can hold, and the transfers keep their types.
THEOREM SyncTypeCorrect == SyncSpec => []SyncTypeOK
<1>1. SInv => SyncTypeOK
  BY DEF SInv, IInv, SyncTyped, SyncTypeOK
<1> QED
  BY SyncStart, SyncGoesOn, <1>1, PTL DEF SyncSpec

\* The portions of overlapping passes add up with the deliveries and returns of
\* people: the account of a receiver agrees with the status under the sync, too.
THEOREM SyncLandedCorrect == SyncSpec => []LandedMatchesStatus
<1>1. SInv => LandedMatchesStatus
  BY AccountsTellStatus DEF SInv
<1> QED
  BY SyncStart, SyncGoesOn, <1>1, PTL DEF SyncSpec

\* No unit is lost or doubled by the sync, and its rows in transit are owed.
THEOREM SyncTotalsCorrect == SyncSpec => [](UnitsConserved /\ TransitIsOwed)
<1>1. SyncInit => TInv
  BY InitBalanced DEF SyncInit
<1>2. SInv /\ TInv /\ [SyncNext]_allVars => TInv'
  BY SyncSteps, NextBalanced, MarksBalanced DEF SInv
<1>3. TInv => UnitsConserved /\ TransitIsOwed
  BY DEF TInv, Balanced, UnitsTold, TransitTold, Balances, UnitsConserved, TransitIsOwed
<1> QED
  BY SyncStart, SyncGoesOn, <1>1, <1>2, <1>3, PTL DEF SyncSpec

\* What the sync does to a transfer is what a handler would: it packs, sends off,
\* lands or recalls a load, or does nothing that a counter sees.
THEOREM SyncImplementsHaulage ==
    ASSUME RerouteAfterTrip = FALSE
    PROVE  SyncSpec => HaulageSpec
<1>1. SyncInit => Routed /\ H!Init
  BY InitRouted, InitHaulage DEF SyncInit
<1>2. SInv /\ Routed /\ [SyncNext]_allVars => Routed'
  BY SyncSteps, RoutedStep, MarksRouted DEF SInv
<1>3. SInv /\ Routed /\ [SyncNext]_allVars => [H!Next]_(H!vars)
  BY SyncSteps, HaulageStep, MarksUnseen DEF SInv
<1> QED
  BY SyncStart, SyncGoesOn, <1>1, <1>2, <1>3, PTL DEF SyncSpec, HaulageSpec, H!Spec

\* The automatic departure asks for the vehicle again under the row's lock.
THEOREM AutoSendCorrect == SyncSpec => AutoSendHasVehicle
<1>1. ASSUME SInv, [SyncNext]_allVars, NEW p \in Passes, NEW t \in Transfers,
             t \in pass[p].ship \ pass'[p].ship, rounds'[t] > rounds[t]
      PROVE  doc[t].status = "VEHICLE_ASSIGNED"
  <2>1. rounds \in [Transfers -> 0..MaxRounds] /\ rounds[t] \in Nat /\ ~(rounds[t] > rounds[t])
    BY <1>1, BoundsAssumption DEF SInv, IInv, TypeOK
  <2>2. rounds' # rounds /\ pass' # pass
    BY <1>1, <2>1
  <2>3. PICK q \in Passes, u \in Transfers : AutoSend(q, u)
    <3>1. ~UserStep
      BY <2>2 DEF UserStep, syncVars, Link, Unlink
    <3>2. ~CentreStep
      BY <2>2 DEF CentreStep, Accept, Advance
    <3>3. ~UNCHANGED allVars
      BY <2>2 DEF allVars, syncVars
    <3>4. ASSUME NEW q \in Passes, PassStep(q), ~\E u \in Transfers : AutoSend(q, u)
          PROVE  FALSE
      BY <2>2, <3>4 DEF PassStep, Collect, FetchFact, ApplyFact, ReceiveFact, Credit, Skip, Die, vars
    <3> QED
      BY <1>1, <3>1, <3>2, <3>3, <3>4 DEF SyncNext
  <2>4. rounds' = [rounds EXCEPT ![u] = @ + 1] /\ doc[u].status = "VEHICLE_ASSIGNED"
    BY <2>3 DEF AutoSend, Send
  <2>5. u = t
    BY <1>1, <2>1, <2>4
  <2> QED
    BY <2>4, <2>5
<1>2. SInv /\ [SyncNext]_allVars =>
         [\A p \in Passes, t \in Transfers :
             (t \in pass[p].ship \ pass'[p].ship /\ rounds'[t] > rounds[t])
                => doc[t].status = "VEHICLE_ASSIGNED"]_allVars
  BY <1>1
<1> QED
  BY SyncStart, SyncGoesOn, <1>2, PTL DEF SyncSpec, AutoSendHasVehicle

\* The marking of a pass, for a single transfer, is one of the two handlers' steps.
THEOREM SyncRulesCorrect ==
    ASSUME NEW CONSTANT only, Transfers = {only}
    PROVE  SyncSpec => KeepsTransferRules
<1>1. ASSUME SInv, OnlyMarks
      PROVE  [Next]_vars
  <2>1. doc \in [Transfers -> Document] /\ doc' \in [Transfers -> Document]
    BY <1>1 DEF SInv, IInv, TypeOK, OnlyMarks
  <2>2. \A d, e \in Document :
           (/\ d.status = e.status /\ d.from = e.from /\ d.to = e.to /\ d.items = e.items
            /\ d.isDefect = e.isDefect /\ d.carrier = e.carrier) => d = e
    BY DEF Document
  <2> DEFINE d == [doc[only] EXCEPT !.status = doc'[only].status]
  <2>3. d \in Document /\ d.status = doc'[only].status /\ d.from = doc[only].from /\ d.to = doc[only].to
        /\ d.items = doc[only].items /\ d.isDefect = doc[only].isDefect /\ d.carrier = doc[only].carrier
    BY <2>1 DEF Document
  <2> HIDE DEF d
  <2>4. doc'[only] = d
    <3>1. doc'[only] \in Document /\ only \in Transfers
      BY <2>1
    <3>2. /\ doc'[only].from = doc[only].from /\ doc'[only].to = doc[only].to
          /\ doc'[only].items = doc[only].items /\ doc'[only].isDefect = doc[only].isDefect
          /\ doc'[only].carrier = doc[only].carrier
      BY <1>1, <3>1 DEF OnlyMarks
    <3> QED
      BY <2>2, <2>3, <3>1, <3>2
  <2>5. doc' = [doc EXCEPT ![only].status = doc'[only].status]
    BY <2>1, <2>4 DEF d
  <2>6. UNCHANGED <<stock, journal, adjusted, pickups, rounds, led>>
    BY <1>1 DEF OnlyMarks
  <2>7. CASE doc'[only].status = doc[only].status
    <3>1. d = doc[only]
      BY <2>1, <2>2, <2>3, <2>7
    <3>2. doc' = doc
      BY <2>1, <2>4, <3>1
    <3> QED
      BY <2>6, <3>2 DEF vars
  <2>8. CASE doc[only].status \in {"PENDING", "IN_PROGRESS"} /\ doc'[only].status = "READY"
    <3>1. FfAssembled(only)
      BY <2>5, <2>6, <2>8 DEF FfAssembled, SetStatus, StockKept
    <3> QED
      BY <3>1 DEF Next, FfReports
  <2>9. CASE doc[only].status = "PENDING" /\ doc'[only].status = "IN_PROGRESS"
    <3>1. FfTakesUp(only)
      BY <2>5, <2>6, <2>9 DEF FfTakesUp, SetStatus, StockKept
    <3> QED
      BY <3>1 DEF Next, FfReports
  <2>10. CASE doc[only].status = "IN_PROGRESS" /\ doc'[only].status = "IN_PROGRESS"
    BY <2>7, <2>10
  <2> QED
    BY <1>1, <2>7, <2>8, <2>9, <2>10 DEF OnlyMarks
<1>2. SInv /\ [SyncNext]_allVars => [Next]_vars
  BY <1>1, SyncSteps DEF SInv
<1> QED
  BY SyncStart, SyncGoesOn, <1>2, PTL DEF SyncSpec, KeepsTransferRules

-----------------------------------------------------------------------------
(* Where a centre's fact is credited *)

\* One document is written; it exists, and is on the road only if it was or has
\* just left.
Rewrites(t, d) ==
    /\ doc' = [doc EXCEPT ![t] = d]
    /\ d.status # Absent
    /\ d.status = "SHIPPED" => doc[t].status = "SHIPPED" \/ rounds' = [rounds EXCEPT ![t] = @ + 1]
    /\ rounds' = rounds \/ rounds' = [rounds EXCEPT ![t] = @ + 1]

\* No handler but create and update touches the route, and update only at home
\* when RerouteAfterTrip is forbidden.
LEMMA HandlersRewrite ==
    ASSUME IInv, NEW t \in Transfers
    PROVE  /\ Travel(t) \/ FfReports(t) \/ Settle(t) =>
                \E d \in Document : Rewrites(t, d) /\ d.from = doc[t].from /\ d.to = doc[t].to
           /\ Prepare(t) =>
                \E d \in Document :
                   /\ Rewrites(t, d)
                   /\ \/ d.from = doc[t].from /\ d.to = doc[t].to
                      \/ RerouteAfterTrip \/ rounds[t] = 0 \/ ~Exists(t)
<1> DEFINE Goal == \E d \in Document : Rewrites(t, d) /\ d.from = doc[t].from /\ d.to = doc[t].to
           Wide == \E d \in Document :
                      /\ Rewrites(t, d)
                      /\ \/ d.from = doc[t].from /\ d.to = doc[t].to
                         \/ RerouteAfterTrip \/ rounds[t] = 0 \/ ~Exists(t)
<1>0. doc[t] \in Document /\ rounds \in [Transfers -> 0..MaxRounds] /\ doc \in [Transfers -> Document]
  BY DEF IInv, TypeOK
<1>1. ASSUME NEW d \in Document, doc' = [doc EXCEPT ![t] = d], rounds' = rounds,
             d.status \notin {Absent, "SHIPPED"}, d.from = doc[t].from, d.to = doc[t].to
      PROVE  Goal
  BY <1>1 DEF Rewrites
<1>2. ASSUME NEW new \in TransferStatus \ {"SHIPPED"}, SetStatus(t, new), rounds' = rounds
      PROVE  Goal
  <2> DEFINE d == [doc[t] EXCEPT !.status = new]
  <2>1. d \in Document /\ d.status = new /\ d.from = doc[t].from /\ d.to = doc[t].to /\ new # Absent
    BY <1>0 DEF Document, Absent, TransferStatus
  <2>2. doc' = [doc EXCEPT ![t] = d]
    BY <1>2 DEF SetStatus
  <2> HIDE DEF d, Goal
  <2> QED
    BY <1>1, <1>2, <2>1, <2>2
<1>3. ASSUME NEW new \in TransferStatus \ {"SHIPPED"}, NEW c \in Carriers \cup {NoCarrier},
             doc' = [doc EXCEPT ![t].status = new, ![t].carrier = c], rounds' = rounds
      PROVE  Goal
  <2> DEFINE d == [doc[t] EXCEPT !.status = new, !.carrier = c]
  <2>1. d \in Document /\ d.status = new /\ d.from = doc[t].from /\ d.to = doc[t].to /\ new # Absent
    BY <1>0 DEF Document, Absent, TransferStatus
  <2>2. doc' = [doc EXCEPT ![t] = d]
    BY <1>3
  <2> HIDE DEF d, Goal
  <2> QED
    BY <1>1, <1>3, <2>1, <2>2
<1>4. ASSUME NEW route \in Routes, NEW items \in Quantities, NEW isDefect \in BOOLEAN,
             Create(t, route, items, isDefect)
      PROVE  Wide
  <2> DEFINE d == [status |-> "PENDING", from |-> route[1], to |-> route[2],
                   items |-> items, isDefect |-> isDefect, carrier |-> NoCarrier]
  <2>1. d \in Document /\ d.status = "PENDING"
    BY DEF Routes, Document, TransferStatus
  <2>2. doc' = [doc EXCEPT ![t] = d] /\ ~Exists(t) /\ rounds' = rounds
    BY <1>4 DEF Create
  <2> HIDE DEF d
  <2> QED
    BY <1>4, <2>1, <2>2 DEF Rewrites, Absent
<1>5. ASSUME NEW route \in Routes, NEW items \in Quantities, NEW isDefect \in BOOLEAN,
             Update(t, route, items, isDefect)
      PROVE  Wide
  <2> DEFINE d == [doc[t] EXCEPT !.from = route[1], !.to = route[2],
                                 !.items = items, !.isDefect = isDefect]
  <2>1. doc[t].status \notin {"SHIPPED", Absent}
    BY <1>5 DEF Update, TRANSFER_EDITABLE_STATUSES, Absent
  <2>2. d \in Document /\ d.status = doc[t].status /\ d.from = route[1] /\ d.to = route[2]
    BY <1>0 DEF Routes, Document
  <2>3. doc' = [doc EXCEPT ![t] = d] /\ rounds' = rounds
    BY <1>5 DEF Update
  <2>4. RerouteAfterTrip \/ rounds[t] = 0 \/ route = <<doc[t].from, doc[t].to>>
    BY <1>5 DEF Update
  <2> HIDE DEF d
  <2>5. route = <<doc[t].from, doc[t].to>> => d.from = doc[t].from /\ d.to = doc[t].to
    BY <2>2
  <2>6. Rewrites(t, d)
    BY <2>1, <2>2, <2>3 DEF Rewrites
  <2> QED
    BY <1>5, <2>2, <2>4, <2>5, <2>6, Zenon
<1>6. ASSUME MarkReady(t) \/ Cancel(t) \/ FfTakesUp(t) \/ FfAssembled(t) \/ Close(t)
      PROVE  Goal
  <2>1. \E new \in TransferStatus \ {"SHIPPED"} : SetStatus(t, new) /\ rounds' = rounds
    BY <1>6 DEF MarkReady, Cancel, FfTakesUp, FfAssembled, Close, TransferStatus
  <2> HIDE DEF Goal
  <2> QED
    BY <1>2, <2>1
<1>7. ASSUME UnassignVehicle(t) \/ \E carrier \in Carriers : ApplyVehicle(t, carrier)
      PROVE  Goal
  <2>1. \E new \in TransferStatus \ {"SHIPPED"}, c \in Carriers \cup {NoCarrier} :
           doc' = [doc EXCEPT ![t].status = new, ![t].carrier = c] /\ rounds' = rounds
    BY <1>7 DEF UnassignVehicle, ApplyVehicle, TransferStatus
  <2> HIDE DEF Goal
  <2> QED
    BY <1>3, <2>1
<1>8. ASSUME NEW carrier \in Carriers, SetLogistics(t, carrier)
      PROVE  Goal
  <2> DEFINE d == [doc[t] EXCEPT !.carrier = carrier]
  <2>1. d \in Document /\ d.status = doc[t].status /\ d.from = doc[t].from /\ d.to = doc[t].to
    BY <1>0 DEF Document
  <2>2. doc' = [doc EXCEPT ![t] = d] /\ rounds' = rounds /\ d.status # Absent
    BY <1>8, <2>1 DEF SetLogistics, TRANSFER_LOGISTICS_RETRO_STATUSES, Absent
  <2> HIDE DEF d
  <2> QED
    BY <2>1, <2>2 DEF Rewrites
<1>9. ASSUME NEW noLogistics \in BOOLEAN, Send(t, TransferStatus, noLogistics)
      PROVE  Goal
  <2> DEFINE d == [doc[t] EXCEPT !.status = "SHIPPED"]
  <2>1. d \in Document /\ d.status = "SHIPPED" /\ d.from = doc[t].from /\ d.to = doc[t].to
    BY <1>0 DEF Document, TransferStatus
  <2>2. doc' = [doc EXCEPT ![t] = d] /\ rounds' = [rounds EXCEPT ![t] = @ + 1]
    BY <1>9 DEF Send, SetStatus
  <2> HIDE DEF d
  <2> QED
    BY <2>1, <2>2 DEF Rewrites, Absent
<1>10. ASSUME Complete(t) \/ \E good, bad \in Quantities : ReceiveFact(t, good, bad)
       PROVE  Goal
  <2>1. PICK new \in {"SHIPPED", "DELIVERED"}, g \in [SKUs -> Nat], b \in [SKUs -> Nat] :
           doc[t].status = "SHIPPED" /\ SetStatus(t, new) /\ Credit(t, g, b)
    BY <1>10, Deliveries
  <2> DEFINE d == [doc[t] EXCEPT !.status = new]
  <2>2. d \in Document /\ d.status = new /\ d.from = doc[t].from /\ d.to = doc[t].to /\ new # Absent
    BY <1>0 DEF Document, Absent, TransferStatus
  <2>3. doc' = [doc EXCEPT ![t] = d] /\ rounds' = rounds
    BY <2>1 DEF SetStatus, Credit
  <2> HIDE DEF d
  <2> QED
    BY <2>1, <2>2, <2>3 DEF Rewrites
<1>11. ASSUME ReturnTransfer(t)
       PROVE  Goal
  <2>1. SetStatus(t, "RETURNED") /\ rounds' = rounds
    BY <1>11 DEF ReturnTransfer
  <2> HIDE DEF Goal
  <2> QED
    BY <1>2, <2>1 DEF TransferStatus
<1>12. Goal => Wide
  OBVIOUS
<1> HIDE DEF Goal, Wide
<1>13. Travel(t) \/ FfReports(t) \/ Settle(t) => Goal
  BY <1>6, <1>8, <1>9, <1>10, <1>11 DEF Travel, FfReports, Settle
<1>14. Prepare(t) => Wide
  BY <1>4, <1>5, <1>6, <1>7, <1>12 DEF Prepare, AssignVehicle, ApplyGazelka
<1> QED
  BY <1>13, <1>14 DEF Goal, Wide

\* A transfer on the road has begun a trip.
Travelled == \A t \in Transfers : OnTheRoad(t) => rounds[t] > 0

\* With RerouteAfterTrip forbidden the ends of a transfer that has travelled are final.
LEMMA TripKept ==
    ASSUME RerouteAfterTrip = FALSE, IInv, Routed, Travelled, [Next]_vars \/ OnlyMarks
    PROVE  /\ Travelled'
           /\ \A u \in Transfers : rounds[u] > 0 => rounds'[u] > 0 /\ doc'[u].to = doc[u].to
<1>0. doc \in [Transfers -> Document] /\ rounds \in [Transfers -> Nat]
  BY BoundsAssumption DEF IInv, TypeOK
<1>1. ASSUME NEW t \in Transfers, Prepare(t) \/ Travel(t) \/ FfReports(t) \/ Settle(t)
      PROVE  /\ Travelled'
             /\ \A u \in Transfers : rounds[u] > 0 => rounds'[u] > 0 /\ doc'[u].to = doc[u].to
  <2>1. PICK d \in Document :
              /\ Rewrites(t, d)
              /\ \/ d.from = doc[t].from /\ d.to = doc[t].to
                 \/ RerouteAfterTrip \/ rounds[t] = 0 \/ ~Exists(t)
    BY <1>1, HandlersRewrite
  <2>2. doc'[t] = d /\ \A u \in Transfers \ {t} : doc'[u] = doc[u]
    BY <1>0, <2>1 DEF Rewrites
  <2>3. \A u \in Transfers : rounds'[u] >= rounds[u] /\ (rounds' = [rounds EXCEPT ![t] = @ + 1] => rounds'[t] > 0)
    <3>1. CASE rounds' = rounds
      BY <1>0, <3>1
    <3>2. CASE rounds' = [rounds EXCEPT ![t] = @ + 1]
      BY <1>0, <3>2
    <3> QED
      BY <2>1, <3>1, <3>2 DEF Rewrites
  <2>4. rounds[t] > 0 => d.to = doc[t].to
    <3>1. ~Exists(t) => rounds[t] = 0
      BY DEF Routed, Exists
    <3> QED
      BY <1>0, <2>1, <3>1
  <2>5. rounds' \in [Transfers -> Int]
    BY <1>0, <2>1 DEF Rewrites
  <2>6. d.status = "SHIPPED" => rounds'[t] > 0
    <3>1. d.status = "SHIPPED" => doc[t].status = "SHIPPED" \/ rounds' = [rounds EXCEPT ![t] = @ + 1]
      BY <2>1 DEF Rewrites
    <3>2. doc[t].status = "SHIPPED" => rounds[t] > 0
      BY DEF Travelled, OnTheRoad
    <3> QED
      BY <1>0, <2>3, <2>5, <3>1, <3>2
  <2>7. \A u \in Transfers : rounds[u] > 0 => rounds'[u] > 0
    BY <1>0, <2>3, <2>5
  <2>8. Travelled'
    BY <2>2, <2>6, <2>7 DEF Travelled, OnTheRoad
  <2> QED
    BY <2>2, <2>4, <2>7, <2>8
<1>2. CASE UNCHANGED <<doc, rounds>>
  BY <1>2 DEF Travelled, OnTheRoad
<1>3. CASE OnlyMarks
  BY <1>3 DEF Travelled, OnTheRoad, OnlyMarks
<1>4. CASE [Next]_vars
  BY <1>1, <1>2, <1>4 DEF Next, vars, GazelkaLetsGo, GazelkaLeads, Adjust
<1> QED
  BY <1>3, <1>4

\* The links: every request linked to a transfer has an end of its route.
LinksFit ==
    \A r \in Requests, t \in Transfers :
        mirror[r].link = t => Exists(t) /\ LinkFits(r, doc[t].from, doc[t].to)

\* Steps that keep the ends of every transfer and the links, or make one that fits.
LEMMA LinksKept ==
    ASSUME LinksFit,
           \A t \in Transfers : Exists(t) => /\ doc'[t].status # Absent
                                             /\ doc'[t].from = doc[t].from /\ doc'[t].to = doc[t].to,
           \A r \in Requests, t \in Transfers :
               mirror'[r].link = t =>
                  mirror[r].link = t \/ (Exists(t) /\ LinkFits(r, doc[t].from, doc[t].to))
    PROVE  LinksFit'
<1>1. ASSUME NEW r \in Requests, NEW t \in Transfers, mirror'[r].link = t
      PROVE  Exists(t)' /\ LinkFits(r, doc'[t].from, doc'[t].to)
  <2>1. Exists(t) /\ LinkFits(r, doc[t].from, doc[t].to)
    BY <1>1 DEF LinksFit
  <2> QED
    BY <2>1 DEF Exists, LinkFits
<1> QED
  BY <1>1 DEF LinksFit, LinkFits

LEMMA LinksStep ==
    ASSUME SInv, LinksFit, [SyncNext]_allVars
    PROVE  LinksFit'
<1> DEFINE Stay == \A t \in Transfers : Exists(t) => /\ doc'[t].status # Absent
                                                     /\ doc'[t].from = doc[t].from /\ doc'[t].to = doc[t].to
<1>0. /\ doc \in [Transfers -> Document]
      /\ mirror \in [Requests -> [link : Transfers \cup {NoTransfer}, stage : Stages, applied : BOOLEAN]]
  BY DEF SInv, IInv, TypeOK, SyncTyped
<1>1. ASSUME doc' = doc
      PROVE  Stay
  BY <1>1 DEF Exists
<1>2. ASSUME NEW t \in Transfers, Travel(t) \/ FfReports(t) \/ Settle(t)
      PROVE  Stay
  <2>1. PICK d \in Document : Rewrites(t, d) /\ d.from = doc[t].from /\ d.to = doc[t].to
    BY <1>2, HandlersRewrite DEF SInv
  <2>2. doc'[t] = d /\ \A u \in Transfers \ {t} : doc'[u] = doc[u]
    BY <1>0, <2>1 DEF Rewrites
  <2> QED
    BY <2>1, <2>2 DEF Rewrites, Exists
<1>3. ASSUME NEW t \in Transfers, Prepare(t), \A r \in Linked(t) : LinkFits(r, doc'[t].from, doc'[t].to),
             mirror' = mirror
      PROVE  LinksFit'
  <2>1. PICK d \in Document : Rewrites(t, d)
    BY <1>3, HandlersRewrite DEF SInv
  <2>2. doc'[t] = d /\ \A u \in Transfers \ {t} : doc'[u] = doc[u]
    BY <1>0, <2>1 DEF Rewrites
  <2>3. ASSUME NEW r \in Requests, NEW u \in Transfers, mirror'[r].link = u
        PROVE  doc'[u].status # Absent /\ LinkFits(r, doc'[u].from, doc'[u].to)
    <3>1. CASE u = t
      BY <1>3, <2>1, <2>2, <2>3, <3>1 DEF Rewrites, Linked
    <3>2. CASE u # t
      BY <1>3, <2>2, <2>3, <3>2 DEF LinksFit, Exists
    <3> QED
      BY <3>1, <3>2
  <2> QED
    BY <2>3 DEF LinksFit, Exists, LinkFits
<1>4. ASSUME Stay, mirror' = mirror
      PROVE  LinksFit'
  BY <1>4, LinksKept
<1>5. ASSUME Stay, \A r \in Requests : mirror'[r].link = mirror[r].link
      PROVE  LinksFit'
  BY <1>5, LinksKept
<1>6. CASE UserStep
  <2>1. ASSUME NEW t \in Transfers, Prepare(t), KeepsLinks(t), UNCHANGED syncVars
        PROVE  LinksFit'
    BY <1>3, <2>1 DEF KeepsLinks, syncVars
  <2>3. ASSUME NEW r \in Requests, Unlink(r)
        PROVE  LinksFit'
    <3>1. \A q \in Requests, t \in Transfers : mirror'[q].link = t => mirror[q].link = t
      BY <1>0, <2>3, NoTransferAssumption DEF Unlink
    <3>2. doc' = doc
      BY <2>3 DEF Unlink, vars
    <3> QED
      BY <1>1, <3>1, <3>2, LinksKept
  <2>4. ASSUME NEW r \in Requests, NEW t \in Transfers, Link(r, t)
        PROVE  LinksFit'
    <3>1. \A q \in Requests, u \in Transfers :
             mirror'[q].link = u => mirror[q].link = u \/ (Exists(u) /\ LinkFits(q, doc[u].from, doc[u].to))
      BY <1>0, <2>4 DEF Link
    <3>2. doc' = doc \/ doc' = [doc EXCEPT ![t].status = "READY"]
      BY <2>4 DEF Link
    <3>3. Stay
      BY <1>0, <1>1, <3>2 DEF Exists, Absent, Document
    <3> QED
      BY <3>1, <3>3, LinksKept
  <2>5. ASSUME NEW t \in Transfers, Travel(t) \/ Settle(t), UNCHANGED syncVars
        PROVE  LinksFit'
    BY <1>2, <1>4, <2>5 DEF syncVars
  <2> QED
    BY <1>6, <2>1, <2>3, <2>4, <2>5 DEF UserStep
<1>7. CASE CentreStep
  BY <1>1, <1>4, <1>7 DEF CentreStep, Accept, Advance, vars
<1>8. ASSUME NEW p \in Passes, PassStep(p)
      PROVE  LinksFit'
  <2>1. CASE Collect(p)
    <3>1. OnlyMarks
      BY <2>1, CollectMarks DEF SInv, IInv
    <3>2. Stay
      BY <3>1 DEF OnlyMarks, Exists, Absent
    <3>3. \A r \in Requests : mirror'[r].link = mirror[r].link
      BY <1>0, <2>1 DEF Collect
    <3> QED
      BY <1>5, <3>2, <3>3
  <2>2. ASSUME NEW t \in Transfers, AutoSend(p, t)
        PROVE  LinksFit'
    BY <1>2, <1>4, <2>2, AutoSendSteps DEF Travel, AutoSend
  <2>3. CASE (\E c \in pass[p].facts, fact \in Quantities : FetchFact(p, c, fact)) \/ Skip(p) \/ Die(p)
    BY <1>1, <1>4, <2>3 DEF FetchFact, Skip, Die, vars
  <2>4. CASE ApplyFact(p)
    <3>1. PICK a \in pass[p].answer :
             /\ ReceiveFact(a.transfer, a.fact, Nothing)
             /\ mirror' \in {mirror, [mirror EXCEPT ![a.req].applied = TRUE]}
      BY <2>4 DEF ApplyFact
    <3>2. a.transfer \in Transfers /\ a.fact \in Quantities /\ a.req \in Requests
      BY AnswerTyped DEF SInv
    <3>3. FfReports(a.transfer)
      BY <3>1, <3>2, NothingTyped DEF FfReports
    <3>4. \A r \in Requests : mirror'[r].link = mirror[r].link
      BY <1>0, <3>1, <3>2
    <3> QED
      BY <1>2, <1>5, <3>2, <3>3, <3>4
  <2> QED
    BY <1>8, <2>1, <2>2, <2>3, <2>4 DEF PassStep
<1>9. CASE UNCHANGED allVars
  BY <1>1, <1>4, <1>9 DEF allVars, vars, syncVars
<1> QED
  BY <1>6, <1>7, <1>8, <1>9 DEF SyncNext

\* What a pass remembers holds whatever has happened since: the trip has begun,
\* its receiver is the centre's warehouse, and what was closed is closed.
CandidateHolds(c) ==
    /\ rounds[c.transfer] > 0 /\ doc[c.transfer].to = WarehouseOf[c.req]
    /\ c.closed => centre[c.req].stage = "closed"

AnswerHolds(a) ==
    /\ rounds[a.transfer] > 0 /\ doc[a.transfer].to = WarehouseOf[a.req]
    /\ a.final => centre[a.req].stage = "closed" /\ a.fact = centre[a.req].fact

PassHolds ==
    \A p \in Passes : /\ \A c \in pass[p].facts : CandidateHolds(c)
                      /\ \A a \in pass[p].answer : AnswerHolds(a)

\* A closed request is as it was.
LEMMA ClosedStays ==
    ASSUME SInv, [SyncNext]_allVars, NEW r \in Requests, centre[r].stage = "closed"
    PROVE  centre'[r] = centre[r]
<1>1. centre \in [Requests -> [stage : Stages, fact : Quantities]]
  BY DEF SInv, SyncTyped
<1>2. ASSUME NEW q \in Requests, NEW s \in SKUs, Accept(q, s)
      PROVE  centre'[r] = centre[r]
  BY <1>1, <1>2 DEF Accept
<1>3. ASSUME NEW q \in Requests, NEW stage \in Stages, Advance(q, stage)
      PROVE  centre'[r] = centre[r]
  <2>1. q # r
    BY <1>3 DEF Advance
  <2> QED
    BY <1>1, <1>3, <2>1 DEF Advance
<1>4. ASSUME centre' = centre
      PROVE  centre'[r] = centre[r]
  BY <1>4
<1> QED
  BY <1>2, <1>3, <1>4
  DEF SyncNext, UserStep, CentreStep, PassStep, Link, Unlink, Collect, AutoSend, FetchFact, ApplyFact, Skip, Die,
      allVars, syncVars

LEMMA PassStepHolds ==
    ASSUME RerouteAfterTrip = FALSE, SInv, Routed, Travelled, LinksFit, PassHolds, [SyncNext]_allVars
    PROVE  PassHolds'
<1>0. /\ pass \in [Passes -> PassRecord] /\ SyncTyped /\ IInv
      /\ centre \in [Requests -> [stage : Stages, fact : Quantities]]
  BY DEF SInv, SyncTyped, PassRecord
<1>1. \A u \in Transfers : rounds[u] > 0 => rounds'[u] > 0 /\ doc'[u].to = doc[u].to
  BY <1>0, SyncSteps, TripKept
<1>2. ASSUME NEW c \in [req : Inbound, transfer : Transfers, closed : BOOLEAN], CandidateHolds(c)
      PROVE  CandidateHolds(c)'
  <2>1. c.req \in Requests /\ c.transfer \in Transfers
    BY DEF Inbound
  <2>2. c.closed => centre'[c.req].stage = "closed"
    BY <1>2, <2>1, ClosedStays DEF CandidateHolds
  <2> QED
    BY <1>1, <1>2, <2>1, <2>2 DEF CandidateHolds
<1>3. ASSUME NEW a \in [req : Inbound, transfer : Transfers, fact : Quantities, final : BOOLEAN], AnswerHolds(a)
      PROVE  AnswerHolds(a)'
  <2>1. a.req \in Requests /\ a.transfer \in Transfers
    BY DEF Inbound
  <2>2. a.final => centre'[a.req].stage = "closed" /\ a.fact = centre'[a.req].fact
    BY <1>3, <2>1, ClosedStays DEF AnswerHolds
  <2> QED
    BY <1>1, <1>3, <2>1, <2>2 DEF AnswerHolds
<1>4. ASSUME NEW p \in Passes
      PROVE  /\ pass[p].facts \subseteq [req : Inbound, transfer : Transfers, closed : BOOLEAN]
             /\ pass[p].answer \subseteq [req : Inbound, transfer : Transfers, fact : Quantities, final : BOOLEAN]
             /\ \A c \in pass[p].facts : CandidateHolds(c)'
             /\ \A a \in pass[p].answer : AnswerHolds(a)'
  <2>1. pass[p] \in PassRecord
    BY <1>0
  <2>2. /\ pass[p].facts \subseteq [req : Inbound, transfer : Transfers, closed : BOOLEAN]
        /\ pass[p].answer \subseteq [req : Inbound, transfer : Transfers, fact : Quantities, final : BOOLEAN]
    BY <2>1 DEF PassRecord
  <2>3. /\ \A c \in pass[p].facts : CandidateHolds(c)
        /\ \A a \in pass[p].answer : AnswerHolds(a)
    BY DEF PassHolds
  <2> QED
    BY <1>2, <1>3, <2>2, <2>3
<1>5. ASSUME \A p \in Passes : pass'[p].facts \subseteq pass[p].facts /\ pass'[p].answer \subseteq pass[p].answer
      PROVE  PassHolds'
  <2>1. ASSUME NEW p \in Passes
        PROVE  /\ \A c \in pass'[p].facts : CandidateHolds(c)'
               /\ \A a \in pass'[p].answer : AnswerHolds(a)'
    BY <1>4, <1>5
  <2> QED
    BY <2>1 DEF PassHolds, CandidateHolds, AnswerHolds
<1>6. ASSUME pass' = pass
      PROVE  PassHolds'
  BY <1>5, <1>6
<1>7. ASSUME NEW p \in Passes, Collect(p)
      PROVE  PassHolds'
  <2>1. PICK facts, ship :
           facts \in SUBSET FactCandidates /\ pass' = [pass EXCEPT ![p].facts = facts, ![p].ship = ship]
    BY <1>7 DEF Collect
  <2>2. /\ pass'[p].facts = facts /\ pass'[p].answer = pass[p].answer
        /\ \A q \in Passes \ {p} : pass'[q] = pass[q]
    BY <1>0, <2>1 DEF PassRecord
  <2>3. ASSUME NEW c \in FactCandidates
        PROVE  CandidateHolds(c)'
    <3>1. PICK r \in Inbound :
             /\ mirror[r].link # NoTransfer /\ OnTheRoad(mirror[r].link)
             /\ c = [req |-> r, transfer |-> mirror[r].link, closed |-> centre[r].stage = "closed"]
      BY DEF FactCandidates
    <3>2. c \in [req : Inbound, transfer : Transfers, closed : BOOLEAN]
      BY <1>0, CandidatesTyped
    <3>3. /\ c.req = r /\ c.transfer = mirror[r].link /\ (c.closed <=> centre[r].stage = "closed")
          /\ r \in Requests /\ c.transfer \in Transfers /\ r \notin Outbound
      BY <3>1, <3>2 DEF Inbound
    <3>4. rounds[c.transfer] > 0
      BY <3>1, <3>3 DEF Travelled
    <3>5. doc[c.transfer].to = WarehouseOf[r]
      BY <3>3 DEF LinksFit, LinkFits
    <3>6. CandidateHolds(c)
      BY <3>3, <3>4, <3>5 DEF CandidateHolds
    <3> QED
      BY <1>2, <3>2, <3>6
  <2>4. ASSUME NEW q \in Passes
        PROVE  /\ \A c \in pass'[q].facts : CandidateHolds(c)'
               /\ \A a \in pass'[q].answer : AnswerHolds(a)'
    <3>1. /\ \A c \in pass[q].facts : CandidateHolds(c)'
          /\ \A a \in pass[q].answer : AnswerHolds(a)'
      BY <1>4
    <3>2. CASE q = p
      <4>1. pass'[q].facts \subseteq FactCandidates /\ pass'[q].answer = pass[q].answer
        BY <2>1, <2>2, <3>2
      <4> QED
        BY <2>3, <3>1, <4>1
    <3>3. CASE q # p
      <4>1. pass'[q] = pass[q]
        BY <2>2, <3>3
      <4> QED
        BY <3>1, <4>1
    <3> QED
      BY <3>2, <3>3
  <2> QED
    BY <2>4 DEF PassHolds, CandidateHolds, AnswerHolds
<1>8. ASSUME NEW p \in Passes, NEW c \in pass[p].facts, NEW fact \in Quantities, FetchFact(p, c, fact)
      PROVE  PassHolds'
  <2>1. /\ c \in [req : Inbound, transfer : Transfers, closed : BOOLEAN] /\ CandidateHolds(c)
        /\ c.req \in Inbound /\ c.transfer \in Transfers
    BY <1>4 DEF PassHolds
  <2>2. (c.closed /\ fact = centre[c.req].fact) \in BOOLEAN
    OBVIOUS
  <2>3. PICK a : /\ a \in [req : Inbound, transfer : Transfers, fact : Quantities, final : BOOLEAN]
                 /\ a.req = c.req /\ a.transfer = c.transfer /\ a.fact = fact
                 /\ a.final = (c.closed /\ fact = centre[c.req].fact)
                 /\ pass' = [pass EXCEPT ![p].facts = @ \ {c}, ![p].answer = {a}]
    <3> DEFINE e == [req |-> c.req, transfer |-> c.transfer, fact |-> fact,
                     final |-> c.closed /\ fact = centre[c.req].fact]
    <3>1. pass' = [pass EXCEPT ![p].facts = @ \ {c}, ![p].answer = {e}]
      BY <1>8 DEF FetchFact
    <3>2. e \in [req : Inbound, transfer : Transfers, fact : Quantities, final : BOOLEAN]
      BY <2>1, <2>2
    <3>3. /\ e.req = c.req /\ e.transfer = c.transfer /\ e.fact = fact
          /\ e.final = (c.closed /\ fact = centre[c.req].fact)
      OBVIOUS
    <3> HIDE DEF e
    <3> QED
      BY <3>1, <3>2, <3>3
  <2>4. AnswerHolds(a)'
    <3>1. ASSUME a.final
          PROVE  centre[a.req].stage = "closed" /\ a.fact = centre[a.req].fact
      <4>1. c.closed /\ fact = centre[c.req].fact
        BY <2>3, <3>1
      <4> QED
        BY <2>1, <2>3, <4>1 DEF CandidateHolds
    <3>2. rounds[a.transfer] > 0 /\ doc[a.transfer].to = WarehouseOf[a.req]
      BY <2>1, <2>3 DEF CandidateHolds
    <3>3. AnswerHolds(a)
      BY <3>1, <3>2 DEF AnswerHolds
    <3>4. a \in [req : Inbound, transfer : Transfers, fact : Quantities, final : BOOLEAN]
      BY <2>3
    <3> QED
      BY <1>3, <3>3, <3>4
  <2>5. /\ pass'[p].facts \subseteq pass[p].facts /\ pass'[p].answer = {a}
        /\ \A q \in Passes \ {p} : pass'[q] = pass[q]
    <3>1. pass' = [pass EXCEPT ![p].facts = @ \ {c}, ![p].answer = {a}]
      BY <2>3
    <3> QED
      BY <1>0, <3>1 DEF PassRecord
  <2>6. ASSUME NEW q \in Passes
        PROVE  /\ \A e \in pass'[q].facts : CandidateHolds(e)'
               /\ \A e \in pass'[q].answer : AnswerHolds(e)'
    <3>1. /\ \A e \in pass[q].facts : CandidateHolds(e)'
          /\ \A e \in pass[q].answer : AnswerHolds(e)'
      BY <1>4
    <3>2. CASE q = p
      <4>1. \A e \in pass'[q].facts : CandidateHolds(e)'
        BY <2>5, <3>1, <3>2
      <4>2. ASSUME NEW e \in pass'[q].answer
            PROVE  AnswerHolds(e)'
        <5>1. e = a
          BY <2>5, <3>2
        <5> QED
          BY <2>4, <5>1 DEF AnswerHolds
      <4> QED
        BY <4>1, <4>2
    <3>3. CASE q # p
      <4>1. pass'[q] = pass[q]
        BY <2>5, <3>3
      <4> QED
        BY <3>1, <4>1
    <3> QED
      BY <3>2, <3>3
  <2> QED
    BY <2>6 DEF PassHolds, CandidateHolds, AnswerHolds
<1>9. ASSUME NEW p \in Passes, (\E t \in Transfers : AutoSend(p, t)) \/ ApplyFact(p) \/ Skip(p) \/ Die(p)
      PROVE  PassHolds'
  <2>1. \/ \E left : pass' = [pass EXCEPT ![p].ship = left]
        \/ pass' = [pass EXCEPT ![p].answer = {}]
        \/ \E c \in pass[p].facts : pass' = [pass EXCEPT ![p].facts = @ \ {c}]
        \/ pass' = [pass EXCEPT ![p] = Idle]
    BY <1>9 DEF AutoSend, ApplyFact, Skip, Die
  <2>2. /\ pass'[p].facts \subseteq pass[p].facts /\ pass'[p].answer \subseteq pass[p].answer
        /\ \A q \in Passes \ {p} : pass'[q] = pass[q]
    <3>0. pass[p] \in PassRecord
      BY <1>0
    <3>1. ASSUME NEW left, pass' = [pass EXCEPT ![p].ship = left]
          PROVE  /\ pass'[p].facts \subseteq pass[p].facts /\ pass'[p].answer \subseteq pass[p].answer
                 /\ \A q \in Passes \ {p} : pass'[q] = pass[q]
      BY <1>0, <3>0, <3>1 DEF PassRecord
    <3>2. ASSUME pass' = [pass EXCEPT ![p].answer = {}]
          PROVE  /\ pass'[p].facts \subseteq pass[p].facts /\ pass'[p].answer \subseteq pass[p].answer
                 /\ \A q \in Passes \ {p} : pass'[q] = pass[q]
      BY <1>0, <3>0, <3>2 DEF PassRecord
    <3>3. ASSUME NEW c \in pass[p].facts, pass' = [pass EXCEPT ![p].facts = @ \ {c}]
          PROVE  /\ pass'[p].facts \subseteq pass[p].facts /\ pass'[p].answer \subseteq pass[p].answer
                 /\ \A q \in Passes \ {p} : pass'[q] = pass[q]
      BY <1>0, <3>0, <3>3 DEF PassRecord
    <3>4. ASSUME pass' = [pass EXCEPT ![p] = Idle]
          PROVE  /\ pass'[p].facts \subseteq pass[p].facts /\ pass'[p].answer \subseteq pass[p].answer
                 /\ \A q \in Passes \ {p} : pass'[q] = pass[q]
      BY <1>0, <3>0, <3>4 DEF PassRecord, Idle
    <3> QED
      BY <2>1, <3>1, <3>2, <3>3, <3>4
  <2>3. ASSUME NEW q \in Passes
        PROVE  pass'[q].facts \subseteq pass[q].facts /\ pass'[q].answer \subseteq pass[q].answer
    BY <2>2
  <2> QED
    BY <1>5, <2>3
<1> QED
  BY <1>6, <1>7, <1>8, <1>9
  DEF SyncNext, UserStep, CentreStep, PassStep, Link, Unlink, Accept, Advance, allVars, syncVars

\* What must hold besides for a fact to land where it was accepted.
WInv == SInv /\ Routed /\ Travelled /\ LinksFit /\ PassHolds

LEMMA WStart == SyncInit => WInv
<1> SUFFICES ASSUME SyncInit PROVE WInv
  OBVIOUS
<1>1. SInv /\ Routed /\ Init
  BY SyncStart, InitRouted DEF SyncInit
<1>2. Travelled
  BY <1>1 DEF Init, Travelled, OnTheRoad, Absent
<1>3. LinksFit
  BY NoTransferAssumption DEF SyncInit, LinksFit
<1>4. PassHolds
  BY DEF SyncInit, PassHolds, Idle
<1> QED
  BY <1>1, <1>2, <1>3, <1>4 DEF WInv

LEMMA WGoesOn ==
    ASSUME RerouteAfterTrip = FALSE
    PROVE  WInv /\ [SyncNext]_allVars => WInv'
<1> SUFFICES ASSUME WInv, [SyncNext]_allVars PROVE WInv'
  OBVIOUS
<1>1. SInv' /\ Routed'
  BY SyncGoesOn, SyncSteps, RoutedStep, MarksRouted DEF WInv, SInv
<1>2. Travelled'
  BY SyncSteps, TripKept DEF WInv, SInv
<1> QED
  BY <1>1, <1>2, LinksStep, PassStepHolds DEF WInv

\* Only a fact changes what the centres' word has brought, and its marker.
LEMMA OnlyFactsCredit ==
    ASSUME SInv, [SyncNext]_allVars, NEW r \in Requests,
           byFact'[r] # byFact[r] \/ (mirror'[r].applied /\ ~mirror[r].applied)
    PROVE  \E p \in Passes : ApplyFact(p)
<1>1. mirror \in [Requests -> [link : Transfers \cup {NoTransfer}, stage : Stages, applied : BOOLEAN]]
  BY DEF SInv, SyncTyped
<1>2. ASSUME byFact' = byFact, \A q \in Requests : mirror'[q].applied = mirror[q].applied
      PROVE  FALSE
  BY <1>2
<1>3. ASSUME NEW q \in Requests, NEW t, mirror' = [mirror EXCEPT ![q].link = t]
      PROVE  \A o \in Requests : mirror'[o].applied = mirror[o].applied
  BY <1>1, <1>3
<1>4. ASSUME NEW p \in Passes, Collect(p)
      PROVE  \A o \in Requests : mirror'[o].applied = mirror[o].applied
  BY <1>1, <1>4 DEF Collect
<1>5. ~UserStep
  BY <1>2, <1>3 DEF UserStep, Link, Unlink, syncVars
<1>6. ~CentreStep
  BY <1>2 DEF CentreStep, Accept, Advance
<1>7. ~UNCHANGED allVars
  BY <1>2 DEF allVars, syncVars
<1>8. ASSUME NEW p \in Passes, PassStep(p), ~ApplyFact(p)
      PROVE  FALSE
  <2>1. byFact' = byFact /\ (mirror' = mirror \/ Collect(p))
    BY <1>8 DEF PassStep, Collect, AutoSend, FetchFact, Skip, Die
  <2> QED
    BY <1>2, <1>4, <2>1
<1> QED
  BY <1>5, <1>6, <1>7, <1>8 DEF SyncNext

\* A fact of good units alone, as ApplyFact has it.
LEMMA FactTakes ==
    ASSUME IInv, NEW t \in Transfers, NEW fact \in Quantities, ReceiveFact(t, fact, Nothing)
    PROVE  /\ doc[t].status = "SHIPPED"
           /\ \A w \in Warehouses \ {doc[t].to} : journal'[t][w] = journal[t][w]
           /\ \A u \in Transfers \ {t} : journal'[u] = journal[u]
           /\ \E good, bad \in [SKUs -> Nat] :
                 /\ Credit(t, good, bad)
                 /\ \A s \in SKUs : good[s] + bad[s] = TakeGood(t, fact, s)
           /\ doc'[t].to = doc[t].to /\ doc'[t].items = doc[t].items
<1> DEFINE taken == [s \in SKUs |-> TakeGood(t, fact, s) + TakeBad(t, fact, Nothing, s)]
           good  == [s \in SKUs |-> IF doc[t].isDefect THEN 0 ELSE TakeGood(t, fact, s)]
           bad   == [s \in SKUs |-> IF doc[t].isDefect THEN taken[s] ELSE TakeBad(t, fact, Nothing, s)]
<1>1. doc[t].status = "SHIPPED" /\ Credit(t, good, bad)
  BY DEF ReceiveFact
<1>2. ASSUME NEW s \in SKUs
      PROVE  TakeGood(t, fact, s) \in Nat /\ TakeBad(t, fact, Nothing, s) = 0
  <2>1. fact[s] \in Nat /\ Remaining(t, s) \in Nat /\ Nothing[s] = 0
    BY RemainingTyped, BoundsAssumption, NothingTyped DEF IInv, Quantities
  <2> QED
    BY <2>1 DEF TakeGood, TakeBad, Lesser
<1>3. /\ good \in [SKUs -> Nat] /\ bad \in [SKUs -> Nat]
      /\ \A s \in SKUs : good[s] + bad[s] = TakeGood(t, fact, s)
  BY <1>2
<1> HIDE DEF taken, good, bad
<1>4. /\ \A w \in Warehouses \ {doc[t].to} : journal'[t][w] = journal[t][w]
      /\ \A u \in Transfers \ {t} : journal'[u] = journal[u]
  BY <1>1 DEF Credit, IInv, TypeOK
<1>5. doc'[t].to = doc[t].to /\ doc'[t].items = doc[t].items
  <2>1. doc' = doc \/ doc' = [doc EXCEPT ![t].status = "DELIVERED"]
    BY DEF ReceiveFact
  <2> QED
    BY <2>1 DEF IInv, TypeOK, Document
<1> QED
  BY <1>1, <1>3, <1>4, <1>5

\* What a centre accepted lands at that centre's warehouse, whatever was linked,
\* unlinked, edited, sent or returned since the pass read the link.
THEOREM CreditedCorrect ==
    ASSUME RerouteAfterTrip = FALSE
    PROVE  SyncSpec => CreditedWhereAccepted
<1>1. ASSUME WInv, [SyncNext]_allVars, NEW r \in Requests, NEW t \in Transfers, NEW w \in Warehouses,
             byFact'[r] # byFact[r], journal'[t][w] # journal[t][w]
      PROVE  w = WarehouseOf[r]
  <2>1. PICK p \in Passes : ApplyFact(p)
    BY <1>1, OnlyFactsCredit DEF WInv
  <2>2. PICK a \in pass[p].answer :
           /\ ReceiveFact(a.transfer, a.fact, Nothing)
           /\ byFact' = [byFact EXCEPT ![a.req] = [s \in SKUs |-> @[s] + TakeGood(a.transfer, a.fact, s)]]
    BY <2>1 DEF ApplyFact
  <2>3. a.req \in Requests /\ a.transfer \in Transfers /\ a.fact \in Quantities /\ IInv
    BY <1>1, AnswerTyped DEF WInv, SInv
  <2>4. r = a.req
    BY <1>1, <2>2 DEF WInv, SInv, SyncTyped
  <2>5. t = a.transfer /\ w = doc[t].to
    BY <1>1, <2>2, <2>3, FactTakes
  <2>6. doc[a.transfer].to = WarehouseOf[a.req]
    BY <1>1 DEF WInv, PassHolds, AnswerHolds
  <2> QED
    BY <2>4, <2>5, <2>6
<1>2. WInv /\ [SyncNext]_allVars =>
         [\A r \in Requests, t \in Transfers, w \in Warehouses :
             (byFact'[r] # byFact[r] /\ journal'[t][w] # journal[t][w]) => w = WarehouseOf[r]]_allVars
  BY <1>1
<1> QED
  BY WStart, WGoesOn, <1>2, PTL DEF SyncSpec, CreditedWhereAccepted

\* The marker is set only when the centre has closed the request and the transfer
\* has room for nothing more of what it accepted, SKU by SKU.
THEOREM MarkerCorrect ==
    ASSUME RerouteAfterTrip = FALSE
    PROVE  SyncSpec => MarkerIsFinal
<1>1. ASSUME WInv, [SyncNext]_allVars, NEW r \in Inbound, mirror'[r].applied /\ ~mirror[r].applied
      PROVE  /\ centre[r].stage = "closed"
             /\ \E p \in Passes : \E a \in pass[p].answer \ pass'[p].answer :
                   /\ a.req = r
                   /\ \A s \in SKUs : \/ byFact'[r][s] >= centre[r].fact[s]
                                      \/ Remaining(a.transfer, s)' = 0
  <2>0. /\ SInv /\ IInv /\ Routed /\ r \in Requests /\ pass \in [Passes -> PassRecord]
        /\ mirror \in [Requests -> [link : Transfers \cup {NoTransfer}, stage : Stages, applied : BOOLEAN]]
        /\ byFact \in [Requests -> [SKUs -> Nat]]
    BY <1>1 DEF WInv, SInv, SyncTyped, Inbound, PassRecord
  <2>1. PICK p \in Passes : ApplyFact(p)
    BY <1>1, <2>0, OnlyFactsCredit
  <2>2. PICK a \in pass[p].answer :
           /\ ReceiveFact(a.transfer, a.fact, Nothing)
           /\ byFact' = [byFact EXCEPT ![a.req] = [s \in SKUs |-> @[s] + TakeGood(a.transfer, a.fact, s)]]
           /\ mirror' = mirror \/ (a.final /\ mirror' = [mirror EXCEPT ![a.req].applied = TRUE])
           /\ pass' = [pass EXCEPT ![p].answer = {}]
    BY <2>1 DEF ApplyFact
  <2>3. a.req \in Requests /\ a.transfer \in Transfers /\ a.fact \in Quantities
    BY <2>0, AnswerTyped DEF SInv
  <2>4. r = a.req /\ a.final
    BY <1>1, <2>0, <2>2
  <2>5. centre[r].stage = "closed" /\ a.fact = centre[r].fact
    BY <1>1, <2>4 DEF WInv, PassHolds, AnswerHolds
  <2>6. a \in pass[p].answer \ pass'[p].answer
    BY <2>0, <2>2 DEF PassRecord
  <2> DEFINE t == a.transfer
  <2>7. ASSUME NEW s \in SKUs
        PROVE  byFact'[r][s] >= centre[r].fact[s] \/ Remaining(t, s)' = 0
    <3>1. /\ a.fact[s] \in Nat /\ byFact[r][s] \in Nat
          /\ byFact'[r][s] = byFact[r][s] + TakeGood(t, a.fact, s)
      BY <2>0, <2>2, <2>3, <2>4, BoundsAssumption DEF Quantities
    <3>2. /\ doc[t].status = "SHIPPED" /\ doc'[t].to = doc[t].to /\ doc'[t].items = doc[t].items
          /\ \E good, bad \in [SKUs -> Nat] :
                 /\ Credit(t, good, bad)
                 /\ \A z \in SKUs : good[z] + bad[z] = TakeGood(t, a.fact, z)
      BY <2>0, <2>2, <2>3, FactTakes
    <3>3. PICK good \in [SKUs -> Nat], bad \in [SKUs -> Nat] :
             Credit(t, good, bad) /\ \A z \in SKUs : good[z] + bad[z] = TakeGood(t, a.fact, z)
      BY <3>2
    <3>4. doc[t].to \in Warehouses /\ NeverLeft(t, doc[t].to, s)
      BY <2>0, <2>3 DEF IInv, TypeOK, Document, Routed
    <3>5. /\ Landed(t, doc[t].to, s) \in Nat /\ doc[t].items[s] \in Nat
          /\ Remaining(t, s) = doc[t].items[s] - Landed(t, doc[t].to, s) /\ Remaining(t, s) \in Nat
      BY <2>0, <2>3, <3>2, <3>4, ReceivedIsLanded, RemainingTyped DEF IInv
    <3>6. /\ Landed(t, doc[t].to, s)' = Landed(t, doc[t].to, s) + good[s] + bad[s]
          /\ journal'[t][doc[t].to][s].out = 0
      <4>1. \A v \in {doc[t].to} : Landed(t, v, s)' = Landed(t, v, s) + good[s] + bad[s]
        BY <2>0, <2>3, <3>3, CreditBooks
      <4>2. journal'[t][doc[t].to][s].out = 0
        BY <2>0, <2>3, <3>3, <3>4, CreditBooks DEF NeverLeft
      <4> QED
        BY <3>2, <4>1, <4>2 DEF Landed
    <3>7. CASE a.fact[s] <= Remaining(t, s)
      <4>0. Remaining(t, s) \in Nat /\ a.fact[s] \in Nat
        BY <3>1, <3>5
      <4>1. TakeGood(t, a.fact, s) = a.fact[s]
        BY <3>7, <4>0 DEF TakeGood, Lesser
      <4> QED
        BY <2>5, <3>1, <4>1
    <3>8. CASE ~(a.fact[s] <= Remaining(t, s))
      <4>0. Remaining(t, s) \in Nat /\ a.fact[s] \in Nat
        BY <3>1, <3>5
      <4>1. TakeGood(t, a.fact, s) = Remaining(t, s)
        BY <3>8, <4>0 DEF TakeGood, Lesser
      <4>2. good[s] + bad[s] = Remaining(t, s) /\ good[s] \in Nat /\ bad[s] \in Nat
        BY <3>3, <4>1
      <4>3. Landed(t, doc[t].to, s)' = doc[t].items[s]
        <5> HIDE DEF t
        <5> QED
          BY <3>5, <3>6, <4>2
      <4>4. Received(t, s)' = doc[t].items[s]
        BY <3>2, <3>5, <3>6, <4>3 DEF Received, Pos
      <4> QED
        BY <3>2, <3>5, <4>4 DEF Remaining, Pos
    <3> QED
      BY <3>7, <3>8
  <2> QED
    BY <2>4, <2>5, <2>6, <2>7
<1>2. WInv /\ [SyncNext]_allVars =>
         [\A r \in Inbound : (mirror'[r].applied /\ ~mirror[r].applied) =>
             /\ centre[r].stage = "closed"
             /\ \E p \in Passes : \E a \in pass[p].answer \ pass'[p].answer :
                   /\ a.req = r
                   /\ \A s \in SKUs : \/ byFact'[r][s] >= centre[r].fact[s]
                                      \/ Remaining(a.transfer, s)' = 0]_allVars
  BY <1>1
<1> QED
  BY WStart, WGoesOn, <1>2, PTL DEF SyncSpec, MarkerIsFinal
=============================================================================
