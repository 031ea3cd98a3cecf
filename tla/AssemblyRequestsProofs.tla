------------------------ MODULE AssemblyRequestsProofs ------------------------
(***************************************************************************)
(* Proofs about AssemblyRequests, for any number of requests, supplies,    *)
(* people and attempts.                                                    *)
(*                                                                         *)
(* That the journal agrees with the documents (BooksTellDocuments) is not  *)
(* inductive.  What makes it so is in Truth: the current shipment of a     *)
(* request stands and is for the units of its row (Current), a supply      *)
(* names that shipment or none (Pointed), nothing has come of a return     *)
(* that is awaited (Slips), and what a session is about to write was one   *)
(* of the steps offered for what it had read (Agreement) - so that a write *)
(* over a row that has moved on since, the one case in which it says       *)
(* nothing of the books, is among those the model counts in unseen.        *)
(*                                                                         *)
(* Shapes are types, and hold whoever asks what; Truth needs AsOffered:    *)
(* that handlers are asked from the statuses their docstrings name.        *)
(***************************************************************************)
EXTENDS AssemblyRequests, FiniteSetTheorems, TLAPS

-----------------------------------------------------------------------------
(* The shape of the state *)

Row      == [status: Statuses, supply: Supplies \cup {None},
             ship: Nat \cup {None}, qty: 1..MaxQty]
Paper    == [ship: {None} \cup (Requests \X Nat), returned: BOOLEAN]
Shipment == [qty: 1..MaxQty, live: BOOLEAN]
Slip     == [qty: 1..MaxQty, got: 0..MaxQty, open: BOOLEAN]

\* A number that some shipment of the request bears or has borne.
Was(a, n) == n = None \/ n \in 1..Len(shipments[a])

\* What a session has read, and what it is about to write, are rows.
JobOK(job) ==
    /\ job.at \subseteq Requests
    /\ \A a \in job.at :
          /\ job.seen[a] \in Row /\ job.paper[a] \in Paper
          /\ Was(a, job.seen[a].ship)
          /\ job.op = "write" => job.new[a] \in Row /\ Was(a, job.new[a].ship)

Jobs == DOMAIN session = Sessions /\ \A s \in Sessions : JobOK(session[s])

Files ==
    /\ shipments \in [Requests -> Seq(Shipment)]
    /\ returns \in [Requests -> Seq(Slip)]
    /\ \A a \in Requests : Was(a, req[a].ship)

PassOK ==
    pass \in [phase: {"idle", "read"}, links: [Supplies -> {None} \cup (Requests \X Nat)],
              deliver: SUBSET Requests, ships: SUBSET Requests]

Shapes == TypeOK /\ Files /\ Jobs /\ PassOK

-----------------------------------------------------------------------------
(* Rows *)

\* An UPDATE writes the columns that differ from what was read.
LEMMA FlushIs ==
    ASSUME NEW row \in Row, NEW seen \in Row, NEW new \in Row
    PROVE  /\ Flush(row, seen, new) \in Row
           /\ Flush(row, seen, new).status =
                 IF new.status # seen.status THEN new.status ELSE row.status
           /\ Flush(row, seen, new).supply =
                 IF new.supply # seen.supply THEN new.supply ELSE row.supply
           /\ Flush(row, seen, new).ship =
                 IF new.ship # seen.ship THEN new.ship ELSE row.ship
           /\ Flush(row, seen, new).qty =
                 IF new.qty # seen.qty THEN new.qty ELSE row.qty
<1> DEFINE written ==
      [status |-> IF new.status # seen.status THEN new.status ELSE row.status,
       supply |-> IF new.supply # seen.supply THEN new.supply ELSE row.supply,
       ship   |-> IF new.ship # seen.ship THEN new.ship ELSE row.ship,
       qty    |-> IF new.qty # seen.qty THEN new.qty ELSE row.qty]
<1>1. DOMAIN row = {"status", "supply", "ship", "qty"}
  BY DEF Row
<1>2. Flush(row, seen, new) = written
  BY <1>1 DEF Flush
<1>3. written \in Row
  BY DEF Row
<1> QED
  BY <1>2, <1>3

\* A row that is still what was read becomes what was to be written.
LEMMA FlushFresh ==
    ASSUME NEW seen \in Row, NEW new \in Row
    PROVE  Flush(seen, seen, new) = new
<1>1. /\ DOMAIN seen = {"status", "supply", "ship", "qty"}
      /\ DOMAIN new = {"status", "supply", "ship", "qty"}
  BY DEF Row
<1>2. Flush(seen, seen, new) = [c \in DOMAIN seen |-> new[c]]
  BY DEF Flush
<1>3. new = [c \in DOMAIN new |-> new[c]]
  BY DEF Row
<1> QED
  BY <1>1, <1>2, <1>3

LEMMA RowsTyped ==
    ASSUME TypeOK, NEW a \in Requests
    PROVE  req[a] \in Row
  BY DEF TypeOK, Row

LEMMA PaperTyped ==
    ASSUME TypeOK
    PROVE  /\ NoPaper \in Paper
           /\ \A f \in Supplies : supply[f] \in Paper
           /\ \A a \in Requests : PaperOf(a) \in Paper
<1>1. NoPaper \in Paper
  BY DEF NoPaper, Paper
<1>2. \A f \in Supplies : supply[f] \in Paper
  BY DEF TypeOK, Paper
<1>3. \A a \in Requests : req[a].supply \in Supplies \cup {None}
  BY DEF TypeOK
<1> QED
  BY <1>1, <1>2, <1>3 DEF PaperOf

-----------------------------------------------------------------------------
(* Sessions *)

Longer == \A a \in Requests : Len(shipments[a]) <= Len(shipments'[a])

\* What a session that goes on remembers stays true of the past.
LEMMA JobsKept ==
    ASSUME Shapes, shipments' \in [Requests -> Seq(Shipment)], Longer,
           DOMAIN session' = Sessions,
           \A r \in Sessions : session'[r] = session[r] \/ JobOK(session[r])'
    PROVE  Jobs'
<1>1. \A a \in Requests : Len(shipments[a]) \in Nat /\ Len(shipments'[a]) \in Nat
                          /\ Len(shipments[a]) <= Len(shipments'[a])
  BY DEF Shapes, Files, Longer
<1>2. ASSUME NEW r \in Sessions, session'[r] = session[r]
      PROVE  JobOK(session[r])'
  <2>1. JobOK(session[r])
    BY DEF Shapes, Jobs
  <2> QED
    BY <1>1, <1>2, <2>1 DEF JobOK, Was
<1> QED
  BY <1>2 DEF Jobs

\* One that ends remembers nothing.
LEMMA JobEnds ==
    ASSUME Shapes, shipments' \in [Requests -> Seq(Shipment)], Longer,
           NEW s \in Sessions, session' = [session EXCEPT ![s] = Idle]
    PROVE  Jobs'
<1>1. ASSUME NEW r \in Sessions, session'[r] = Idle
      PROVE  JobOK(session[r])'
  BY <1>1 DEF JobOK, Idle
<1>2. DOMAIN session' = Sessions
      /\ \A r \in Sessions : session'[r] = Idle \/ session'[r] = session[r]
  BY DEF Shapes, Jobs
<1> QED
  BY <1>1, <1>2, JobsKept

\* One that begins has read rows of the table.
LEMMA LoadShapes ==
    ASSUME Shapes, NEW s \in Sessions, NEW op, NEW at \in SUBSET Requests, NEW new,
           op = "write" => \A a \in at : new[a] \in Row /\ new[a].ship = req[a].ship,
           Load(s, op, at, new), PassOK'
    PROVE  Shapes'
<1>1. TypeOK' /\ Files'
  BY DEF Load, papers, Shapes, TypeOK, Files, Was
<1>2. shipments' \in [Requests -> Seq(Shipment)] /\ Longer
  <2>1. shipments' = shipments /\ shipments \in [Requests -> Seq(Shipment)]
    BY DEF Load, papers, Shapes, Files
  <2>2. \A a \in Requests : Len(shipments[a]) \in Nat
    BY <2>1
  <2> QED
    BY <2>1, <2>2 DEF Longer
<1>3. DOMAIN session' = Sessions
      /\ \A r \in Sessions : r # s => session'[r] = session[r]
  BY DEF Load, Shapes, Jobs
<1>4. JobOK(session[s])'
  <2> DEFINE job == [op |-> op, at |-> at, seen |-> [a \in at |-> req[a]],
                     paper |-> [a \in at |-> PaperOf(a)],
                     waits |-> {a \in at : Awaited(a) # {}}, new |-> new]
  <2>1. session'[s] = job
    BY DEF Load, Shapes, Jobs
  <2>2. \A a \in at : job.seen[a] = req[a] /\ job.paper[a] = PaperOf(a)
    OBVIOUS
  <2>3. \A a \in at : req[a] \in Row /\ PaperOf(a) \in Paper
    BY RowsTyped, PaperTyped DEF Shapes
  <2>4. \A a \in at : req[a].ship = None \/ req[a].ship \in 1..Len(shipments'[a])
    BY DEF Load, papers, Shapes, Files, Was
  <2>5. job.op = op /\ job.at = at /\ job.new = new
    OBVIOUS
  <2> HIDE DEF job
  <2> QED
    BY <2>1, <2>2, <2>3, <2>4, <2>5 DEF JobOK, Was
<1>5. Jobs'
  BY <1>2, <1>3, <1>4, JobsKept
<1> QED
  BY <1>1, <1>5 DEF Shapes

-----------------------------------------------------------------------------
(* Every step keeps the shape *)

LEMMA MovedTyped ==
    ASSUME TypeOK, NEW at \in SUBSET Requests, NEW to \in Statuses
    PROVE  \A a \in at : Moved(at, to)[a] \in Row /\ Moved(at, to)[a].ship = req[a].ship
<1>1. ASSUME NEW a \in at
      PROVE  LET moved == [req[a] EXCEPT !.status = to]
             IN  moved \in Row /\ moved.ship = req[a].ship
  BY RowsTyped DEF Row
<1> QED
  BY <1>1 DEF Moved

LEMMA ChangeShapes ==
    ASSUME Shapes, NEW s \in Sessions, NEW at \in SUBSET Requests, NEW new,
           \A a \in at : new[a] \in Row /\ new[a].ship = req[a].ship, Change(s, at, new)
    PROVE  Shapes'
<1>1. PassOK'
  BY DEF Change, Shapes, PassOK
<1> QED
  BY <1>1, LoadShapes DEF Change

LEMMA MovedShapes ==
    ASSUME Shapes, NEW s \in Sessions, NEW at \in SUBSET Requests,
           NEW to \in Statuses, Change(s, at, Moved(at, to))
    PROVE  Shapes'
<1>1. \A b \in at : Moved(at, to)[b] \in Row /\ Moved(at, to)[b].ship = req[b].ship
  BY MovedTyped DEF Shapes
<1> QED
  BY <1>1, ChangeShapes

LEMMA MoveShapes ==
    ASSUME Shapes, NEW s \in Sessions, NEW a \in Requests, NEW offered,
           NEW to \in Statuses, Move(s, a, offered, to)
    PROVE  Shapes'
<1>1. {a} \in SUBSET Requests /\ Change(s, {a}, Moved({a}, to))
  BY DEF Move
<1> QED
  BY <1>1, MovedShapes

LEMMA HandlerShapes ==
    ASSUME Shapes, NEW s \in Callers, NEW a \in Requests, Handler(s, a)
    PROVE  Shapes'
<1>0. s \in Sessions /\ \A at \in SUBSET Requests : \A b \in at : b \in Requests
  BY DEF Sessions
<1> USE <1>0
<1>at. {"IN_PROGRESS", "READY", "CLOSED", "DELIVERED", "VEHICLE_ASSIGNED"} \subseteq Statuses
  BY DEF Statuses
<1>1. CASE StartAssembly(s, a)
  BY <1>1, <1>at, MoveShapes DEF StartAssembly
<1>2. CASE MarkReady(s, a)
  BY <1>2, <1>at, MoveShapes DEF MarkReady
<1>3. CASE UnassignVehicle(s, a)
  BY <1>3, <1>at, MoveShapes DEF UnassignVehicle
<1>4. CASE CloseRequest(s, a)
  BY <1>4, <1>at, MoveShapes DEF CloseRequest
<1>5. CASE DeliverRequest(s, a)
  BY <1>5, <1>at, MoveShapes DEF DeliverRequest
<1>6. CASE ReopenForReship(s, a)
  BY <1>6, <1>at, MoveShapes DEF ReopenForReship
<1>7. CASE AssignVehicle(s, a)
  <2>1. PICK at \in SUBSET Requests : Change(s, at, Moved(at, "VEHICLE_ASSIGNED"))
    BY <1>7 DEF AssignVehicle, Siblings
  <2> QED
    BY <2>1, <1>at, MovedShapes
<1>8. CASE ApplyGazelkaLogistics(s, a)
  <2>1. {a} \in SUBSET Requests /\ Change(s, {a}, Moved({a}, "VEHICLE_ASSIGNED"))
    BY <1>8 DEF ApplyGazelkaLogistics
  <2> QED
    BY <2>1, <1>at, MovedShapes
<1>9. CASE UpdateRequest(s, a)
  <2>1. PICK f \in Supplies \cup {req[a].supply}, q \in 1..MaxQty :
           Change(s, {a}, [b \in {a} |-> [req[b] EXCEPT !.supply = f, !.qty = q]])
    BY <1>9 DEF UpdateRequest
  <2> DEFINE new == [b \in {a} |-> [req[b] EXCEPT !.supply = f, !.qty = q]]
  <2>2. req[a] \in Row
    BY RowsTyped DEF Shapes
  <2>3. f \in Supplies \cup {None}
    BY <2>2 DEF Row
  <2>4. LET row == [req[a] EXCEPT !.supply = f, !.qty = q]
        IN  row \in Row /\ row.ship = req[a].ship
    BY <2>2, <2>3 DEF Row
  <2>5. \A b \in {a} : new[b] \in Row /\ new[b].ship = req[b].ship
    BY <2>4
  <2>6. Change(s, {a}, new)
    BY <2>1
  <2> HIDE DEF new
  <2> QED
    BY <2>5, <2>6, ChangeShapes
<1>10. CASE AskShip(s, a) \/ AskReturn(s, a) \/ AskCancel(s, a)
  <2>1. PICK op \in {"ship", "return", "cancel"} :
           Load(s, op, {a}, <<>>) /\ UNCHANGED pass
    BY <1>10 DEF AskShip, AskReturn, AskCancel, Ask
  <2>2. PassOK'
    BY <2>1 DEF Shapes, PassOK
  <2> QED
    BY <2>1, <2>2, LoadShapes
<1> QED
  BY <1>1, <1>2, <1>3, <1>4, <1>5, <1>6, <1>7, <1>8, <1>9, <1>10 DEF Handler

\* Rows, supplies and files are what a step that ends a session must look to.
LEMMA EndShapes ==
    ASSUME Shapes, NEW s \in Sessions, session' = [session EXCEPT ![s] = Idle],
           UNCHANGED pass, TypeOK', Files', Longer
    PROVE  Shapes'
<1>1. Jobs'
  BY JobEnds DEF Files
<1>2. PassOK'
  BY DEF Shapes, PassOK
<1> QED
  BY <1>1, <1>2 DEF Shapes

LEMMA NotLonger ==
    ASSUME Shapes, UNCHANGED shipments
    PROVE  Longer
<1>1. \A a \in Requests : Len(shipments[a]) \in Nat
  BY DEF Shapes, Files
<1> QED
  BY <1>1 DEF Longer

\* The row of a request of a session that writes.
LEMMA Written ==
    ASSUME Shapes, NEW s \in Sessions, session[s].op = "write", NEW a \in session[s].at
    PROVE  LET seen == session[s].seen[a]
               new  == session[s].new[a]
           IN  a \in Requests /\ req[a] \in Row /\ seen \in Row /\ new \in Row
  BY RowsTyped DEF Shapes, Jobs, JobOK

LEMMA WriteShapes ==
    ASSUME Shapes, NEW s \in Sessions, Write(s)
    PROVE  Shapes'
<1> DEFINE job == session[s]
<1>1. \A a \in job.at : a \in Requests /\ job.seen[a] \in Row /\ job.new[a] \in Row
                        /\ Was(a, job.new[a].ship)
  BY DEF Write, Shapes, Jobs, JobOK
<1>2. \A a \in Requests : req[a] \in Row /\ Was(a, req[a].ship)
  BY RowsTyped DEF Shapes, Files
<1>3. \A a \in Requests :
         /\ req'[a] \in Row
         /\ Was(a, req'[a].ship)
  <2> SUFFICES ASSUME NEW a \in Requests
               PROVE  req'[a] \in Row /\ Was(a, req'[a].ship)
    OBVIOUS
  <2>1. CASE a \in job.at
    <3>1. req'[a] = Flush(req[a], job.seen[a], job.new[a])
      BY <2>1 DEF Write
    <3> QED
      BY <3>1, <2>1, <1>1, <1>2, FlushIs
  <2>2. CASE a \notin job.at
    <3>1. req'[a] = req[a]
      BY <2>2 DEF Write
    <3> QED
      BY <3>1, <1>2
  <2> QED
    BY <2>1, <2>2
<1>4. req' \in [Requests -> Row]
  <2>1. req' = [a \in Requests |-> req'[a]]
    BY DEF Write
  <2> QED
    BY <2>1, <1>3
<1>5. UNCHANGED <<supply, papers, pass>> /\ session' = [session EXCEPT ![s] = Idle]
      /\ unseen' \subseteq Requests
  BY <1>1 DEF Write, Shapes, TypeOK
<1>6. TypeOK'
  BY <1>4, <1>5 DEF Shapes, TypeOK, papers, Row
<1>7. Files'
  BY <1>3, <1>5 DEF Shapes, Files, papers, Was
<1> QED
  BY <1>5, <1>6, <1>7, NotLonger, EndShapes DEF papers

LEMMA AppendShipment ==
    ASSUME Shapes, NEW a \in Requests, NEW e \in Shipment,
           shipments' = [shipments EXCEPT ![a] = Append(@, e)]
    PROVE  /\ shipments' \in [Requests -> Seq(Shipment)]
           /\ Longer
           /\ Len(shipments'[a]) = Len(shipments[a]) + 1
           /\ shipments'[a][Len(shipments[a]) + 1] = e
           /\ \A n \in 1..Len(shipments[a]) : shipments'[a][n] = shipments[a][n]
           /\ \A b \in Requests \ {a} : shipments'[b] = shipments[b]
<1>1. shipments \in [Requests -> Seq(Shipment)]
  BY DEF Shapes, Files
<1>2. shipments'[a] = Append(shipments[a], e)
      /\ \A b \in Requests \ {a} : shipments'[b] = shipments[b]
  BY <1>1
<1>3. \A b \in Requests : Len(shipments[b]) \in Nat /\ shipments[b] \in Seq(Shipment)
  BY <1>1
<1>4. Append(shipments[a], e) \in Seq(Shipment)
  BY <1>3
<1>5. Len(Append(shipments[a], e)) = Len(shipments[a]) + 1
  BY <1>3
<1> QED
  BY <1>1, <1>2, <1>3, <1>4, <1>5 DEF Longer

\* The files are well-typed sequences, whose elements TypeOK speaks of.
LEMMA FilesTyped ==
    ASSUME Files
    PROVE  \A a \in Requests :
              /\ \A n \in DOMAIN shipments[a] : shipments[a][n] \in Shipment
              /\ \A i \in DOMAIN returns[a] : returns[a][i] \in Slip
<1>1. ASSUME NEW a \in Requests
      PROVE  shipments[a] \in Seq(Shipment) /\ returns[a] \in Seq(Slip)
  BY DEF Files
<1> QED
  BY <1>1

\* What a session that goes on under the lock has at hand.
LEMMA AtHand ==
    ASSUME Shapes, NEW s \in Sessions, NEW a \in session[s].at
    PROVE  /\ a \in Requests /\ req[a] \in Row /\ Was(a, req[a].ship)
           /\ session[s].seen[a] \in Row /\ Was(a, session[s].seen[a].ship)
           /\ session[s].paper[a] \in Paper
<1>1. a \in Requests
  BY DEF Shapes, Jobs, JobOK
<1> QED
  BY <1>1, RowsTyped DEF Shapes, Jobs, JobOK, Files

\* One request's row is written.
LEMMA RowTyped ==
    ASSUME Shapes, NEW a \in Requests, NEW r \in Row, req' = [req EXCEPT ![a] = r]
    PROVE  /\ req' \in [Requests -> Row]
           /\ req'[a] = r
           /\ \A b \in Requests \ {a} : req'[b] = req[b]
<1>1. req \in [Requests -> Row]
  BY DEF Shapes, TypeOK, Row
<1> QED
  BY <1>1

LEMMA SupplyTyped ==
    ASSUME Shapes, NEW f \in Supplies, NEW p \in Paper, supply' = [supply EXCEPT ![f] = p]
    PROVE  /\ supply' \in [Supplies -> Paper]
           /\ supply'[f] = p
           /\ \A g \in Supplies \ {f} : supply'[g] = supply[g]
<1>1. supply \in [Supplies -> Paper]
  BY DEF Shapes, TypeOK, Paper
<1> QED
  BY <1>1

LEMMA ShipShapes ==
    ASSUME Shapes, NEW s \in Sessions, NEW a \in session[s].at, ShipRequest(s, a),
           session' = [session EXCEPT ![s] = Idle], UNCHANGED pass
    PROVE  Shapes'
<1> DEFINE seen == session[s].seen[a]
           n    == Len(shipments[a]) + 1
           new  == [seen EXCEPT !.status = "SHIPPED", !.ship = n]
           e    == [qty |-> seen.qty, live |-> TRUE]
<1>1. /\ a \in Requests /\ req[a] \in Row /\ Was(a, req[a].ship)
      /\ seen \in Row /\ Was(a, seen.ship)
  BY AtHand
<1>2. n \in Nat
  BY <1>1 DEF Shapes, Files
<1>3. new \in Row /\ new.ship = n
  BY <1>1, <1>2 DEF Row, Statuses
<1>4. e \in Shipment
  BY <1>1 DEF Row, Shipment
<1>5. shipments' = [shipments EXCEPT ![a] = Append(@, e)]
  BY DEF ShipRequest
<1>6. /\ shipments' \in [Requests -> Seq(Shipment)] /\ Longer
      /\ Len(shipments'[a]) = n
      /\ \A b \in Requests \ {a} : shipments'[b] = shipments[b]
  BY <1>1, <1>4, <1>5, AppendShipment
<1>7. req' = [req EXCEPT ![a] = Flush(req[a], seen, new)]
  BY DEF ShipRequest
<1> HIDE DEF new, e, n
<1>8. Flush(req[a], seen, new) \in Row
      /\ Flush(req[a], seen, new).ship \in {n, req[a].ship}
  <2>1. Flush(req[a], seen, new).ship =
           IF new.ship # seen.ship THEN new.ship ELSE req[a].ship
    BY <1>1, <1>3, FlushIs
  <2> QED
    BY <1>1, <1>3, <2>1, FlushIs
<1> USE DEF n
<1>9. /\ req' \in [Requests -> Row] /\ req'[a].ship \in {n, req[a].ship}
      /\ \A b \in Requests \ {a} : req'[b] = req[b]
  BY <1>1, <1>7, <1>8, RowTyped
<1>10. supply' \in [Supplies -> Paper]
  <2>1. CASE seen.supply = None
    BY <2>1 DEF ShipRequest, Shapes, TypeOK, Paper
  <2>2. CASE seen.supply # None
    <3>1. seen.supply \in Supplies
      BY <1>1, <2>2 DEF Row
    <3>2. supply[seen.supply] \in Paper
      BY <3>1, PaperTyped DEF Shapes
    <3>3. [supply[seen.supply] EXCEPT !.ship = <<a, n>>] \in Paper
      BY <3>2, <1>1, <1>2 DEF Paper
    <3>4. supply' = [supply EXCEPT ![seen.supply] =
                                       [supply[seen.supply] EXCEPT !.ship = <<a, n>>]]
      BY <2>2 DEF ShipRequest
    <3> QED
      BY <3>1, <3>3, <3>4, SupplyTyped
  <2> QED
    BY <2>1, <2>2
<1>11. net' \in [Requests -> Int]
  <2>1. net[a] - seen.qty \in Int /\ net \in [Requests -> Int]
    BY <1>1, BoundsAssumption DEF Shapes, TypeOK, Row
  <2>2. net' = [net EXCEPT ![a] = net[a] - seen.qty]
    BY DEF ShipRequest
  <2> HIDE DEF seen
  <2> QED
    BY <2>1, <2>2
<1>12. Files'
  <2>1. returns' \in [Requests -> Seq(Slip)]
    BY DEF ShipRequest, Shapes, Files
  <2>2. ASSUME NEW b \in Requests
        PROVE  Was(b, req[b].ship)'
    <3>1. Was(b, req[b].ship) /\ Len(shipments[b]) \in Nat
      BY DEF Shapes, Files
    <3> QED
      BY <3>1, <1>1, <1>2, <1>6, <1>9 DEF Was
  <2> QED
    BY <2>1, <2>2, <1>6 DEF Files
<1>13. unseen' \subseteq Requests
  BY <1>1 DEF ShipRequest, Overlooks, Shapes, TypeOK
<1>14. TypeOK'
  <2>1. \A b \in Requests :
              /\ \A m \in DOMAIN shipments'[b] : shipments'[b][m] \in Shipment
              /\ \A i \in DOMAIN returns'[b] : returns'[b][i] \in Slip
    BY <1>12 DEF Files
  <2>2. accepted' = accepted /\ converted' = converted
    BY DEF ShipRequest
  <2> QED
    BY <2>1, <2>2, <1>9, <1>10, <1>11, <1>13
       DEF Shapes, TypeOK, Row, Paper, Shipment, Slip
<1> QED
  BY <1>6, <1>12, <1>14, EndShapes

\* A shipment that is no longer live, of a request with a current one.
LEMMA EndShipment ==
    ASSUME Shapes, NEW a \in Requests, NEW n \in 1..Len(shipments[a]),
           shipments' = [shipments EXCEPT ![a][n].live = FALSE]
    PROVE  /\ shipments' \in [Requests -> Seq(Shipment)] /\ Longer
           /\ Len(shipments'[a]) = Len(shipments[a])
           /\ \A b \in Requests \ {a} : shipments'[b] = shipments[b]
<1> DEFINE e == [shipments[a][n] EXCEPT !.live = FALSE]
           q == [shipments[a] EXCEPT ![n] = e]
<1>1. shipments \in [Requests -> Seq(Shipment)]
  BY DEF Shapes, Files
<1>2. shipments[a] \in Seq(Shipment) /\ shipments[a][n] \in Shipment
  BY <1>1
<1>3. e \in Shipment
  BY <1>2 DEF Shipment
<1>4. shipments' = [shipments EXCEPT ![a] = q]
  OBVIOUS
<1> HIDE DEF e
<1>5. q \in Seq(Shipment) /\ Len(q) = Len(shipments[a])
  BY <1>2, <1>3
<1> HIDE DEF q
<1>6. shipments'[a] = q /\ \A b \in Requests \ {a} : shipments'[b] = shipments[b]
  BY <1>1, <1>4
<1>7. shipments' \in [Requests -> Seq(Shipment)]
  BY <1>1, <1>4, <1>5
<1>8. \A b \in Requests : Len(shipments[b]) \in Nat
  BY <1>1
<1> QED
  BY <1>5, <1>6, <1>7, <1>8 DEF Longer

\* The parts of TypeOK that a step must look to when it writes a row, a supply,
\* the files and the journal.
LEMMA TypeAgain ==
    ASSUME Shapes, req' \in [Requests -> Row], supply' \in [Supplies -> Paper], Files',
           net' \in [Requests -> Int], unseen' \subseteq Requests,
           UNCHANGED <<accepted, converted>>
    PROVE  TypeOK'
<1>1. \A b \in Requests :
         /\ \A m \in DOMAIN shipments'[b] : shipments'[b][m] \in Shipment
         /\ \A i \in DOMAIN returns'[b] : returns'[b][i] \in Slip
  <2>1. ASSUME NEW b \in Requests
        PROVE  shipments'[b] \in Seq(Shipment) /\ returns'[b] \in Seq(Slip)
    BY DEF Files
  <2> QED
    BY <2>1
<1> QED
  BY <1>1 DEF Shapes, TypeOK, Row, Paper, Shipment, Slip

LEMMA CancelShapes ==
    ASSUME Shapes, NEW s \in Sessions, NEW a \in session[s].at, CancelRequest(s, a),
           session' = [session EXCEPT ![s] = Idle], UNCHANGED pass
    PROVE  Shapes'
<1> DEFINE out == req[a].status = "SHIPPED"
           new == [req[a] EXCEPT !.status = "CANCELLED",
                                 !.ship = IF out THEN None ELSE @]
<1>1. /\ a \in Requests /\ req[a] \in Row /\ Was(a, req[a].ship)
      /\ session[s].seen[a] \in Row /\ session[s].paper[a] \in Paper
  BY AtHand
<1>2. new \in Row /\ new.ship \in {None, req[a].ship}
  BY <1>1 DEF Row, Statuses
<1>3. req' = [req EXCEPT ![a] = new]
  BY DEF CancelRequest
<1> HIDE DEF new
<1>4. /\ req' \in [Requests -> Row] /\ req'[a] = new
      /\ \A b \in Requests \ {a} : req'[b] = req[b]
  BY <1>1, <1>2, <1>3, RowTyped
<1>5. supply' \in [Supplies -> Paper]
  <2>1. CASE supply' = supply
    BY <2>1 DEF Shapes, TypeOK, Paper
  <2>2. CASE supply' # supply
    <3> DEFINE f == req[a].supply
               p == [supply[f] EXCEPT !.ship = LinkAfterCancel(s, a, f)]
    <3>1. f \in Supplies
      BY <1>1, <2>2 DEF CancelRequest, Row
    <3>2. LinkAfterCancel(s, a, f) \in {None, supply[f].ship}
      BY DEF LinkAfterCancel
    <3>3. supply[f] \in Paper
      BY <3>1, PaperTyped DEF Shapes
    <3>4. p \in Paper
      BY <3>2, <3>3 DEF Paper
    <3>5. supply' = [supply EXCEPT ![f] = p]
      BY <2>2 DEF CancelRequest
    <3> HIDE DEF f, p
    <3> QED
      BY <3>1, <3>4, <3>5, SupplyTyped
  <2> QED
    BY <2>1, <2>2
<1>6. net' \in [Requests -> Int]
  <2>1. net \in [Requests -> Int] /\ session[s].seen[a].qty \in Int
    BY <1>1, BoundsAssumption DEF Shapes, TypeOK, Row
  <2>2. net' = [net EXCEPT ![a] = IF out THEN net[a] + session[s].seen[a].qty ELSE net[a]]
    BY DEF CancelRequest
  <2> QED
    BY <2>1, <2>2, <1>1
<1>7. shipments' \in [Requests -> Seq(Shipment)] /\ Longer
  <2>1. CASE shipments' = shipments
    BY <2>1, NotLonger DEF Shapes, Files
  <2>2. CASE shipments' # shipments
    <3>1. req[a].ship # None /\ shipments' = [shipments EXCEPT ![a][req[a].ship].live = FALSE]
      BY <2>2 DEF CancelRequest
    <3>2. req[a].ship \in 1..Len(shipments[a])
      BY <1>1, <3>1 DEF Was
    <3> QED
      BY <1>1, <3>1, <3>2, EndShipment
  <2> QED
    BY <2>1, <2>2
<1>8. Files'
  <2>1. returns' \in [Requests -> Seq(Slip)]
    BY DEF CancelRequest, Shapes, Files
  <2>2. ASSUME NEW b \in Requests
        PROVE  Was(b, req[b].ship)'
    <3>1. Was(b, req[b].ship) /\ Len(shipments[b]) \in Nat /\ Len(shipments'[b]) \in Nat
          /\ Len(shipments[b]) <= Len(shipments'[b])
      BY <1>7 DEF Shapes, Files, Longer
    <3>2. req'[b].ship \in {None, req[b].ship}
      BY <1>2, <1>4
    <3> QED
      BY <3>1, <3>2 DEF Was
  <2> QED
    BY <2>1, <2>2, <1>7 DEF Files
<1>9. unseen' \subseteq Requests /\ UNCHANGED <<accepted, converted>>
  BY <1>1 DEF CancelRequest, Overlooks, Shapes, TypeOK
<1> QED
  BY <1>4, <1>5, <1>6, <1>7, <1>8, <1>9, TypeAgain, EndShapes

LEMMA AppendSlip ==
    ASSUME Shapes, NEW a \in Requests, NEW r \in Slip,
           returns' = [returns EXCEPT ![a] = Append(@, r)]
    PROVE  /\ returns' \in [Requests -> Seq(Slip)]
           /\ Len(returns'[a]) = Len(returns[a]) + 1
           /\ returns'[a][Len(returns[a]) + 1] = r
           /\ \A i \in 1..Len(returns[a]) : returns'[a][i] = returns[a][i]
           /\ \A b \in Requests \ {a} : returns'[b] = returns[b]
<1>1. returns \in [Requests -> Seq(Slip)]
  BY DEF Shapes, Files
<1>2. returns'[a] = Append(returns[a], r)
      /\ \A b \in Requests \ {a} : returns'[b] = returns[b]
  BY <1>1
<1>3. returns[a] \in Seq(Slip) /\ Len(returns[a]) \in Nat
  BY <1>1
<1>4. Append(returns[a], r) \in Seq(Slip)
  BY <1>3
<1>5. Len(Append(returns[a], r)) = Len(returns[a]) + 1
  BY <1>3
<1> QED
  BY <1>1, <1>2, <1>3, <1>4, <1>5

LEMMA ReturnShapes ==
    ASSUME Shapes, NEW s \in Sessions, NEW a \in session[s].at, ReturnToWarehouse(s, a),
           session' = [session EXCEPT ![s] = Idle], UNCHANGED pass
    PROVE  Shapes'
<1> DEFINE seen  == session[s].seen[a]
           paper == session[s].paper[a]
           got   == IF a \in Portal THEN 0 ELSE seen.qty
           new   == [seen EXCEPT !.status = "RETURNED", !.ship = None, !.supply = None]
           r     == [qty |-> seen.qty, got |-> got, open |-> a \in Portal]
<1>1. /\ a \in Requests /\ req[a] \in Row /\ Was(a, req[a].ship)
      /\ seen \in Row /\ paper \in Paper
  BY AtHand
<1>2. new \in Row /\ new.ship = None
  BY <1>1 DEF Row, Statuses
<1>3. got \in 0..MaxQty /\ got \in Int /\ seen.qty \in 1..MaxQty
  BY <1>1, BoundsAssumption DEF Row
<1>4. r \in Slip
  BY <1>3 DEF Slip
<1>5. /\ req' = [req EXCEPT ![a] = Flush(req[a], seen, new)]
      /\ returns' = [returns EXCEPT ![a] = Append(@, r)]
      /\ net' = [net EXCEPT ![a] = net[a] + got]
      /\ UNCHANGED <<accepted, shipments, converted>>
  BY DEF ReturnToWarehouse
<1>6. supply' \in [Supplies -> Paper]
  <2>1. CASE seen.supply = None
    BY <2>1 DEF ReturnToWarehouse, Shapes, TypeOK, Paper
  <2>2. CASE seen.supply # None
    <3> DEFINE f == seen.supply
               p == [returned |-> TRUE,
                     ship |-> IF paper.ship = Ref(a, seen.ship) THEN None
                              ELSE supply[f].ship]
    <3>1. f \in Supplies
      BY <1>1, <2>2 DEF Row
    <3>2. supply[f] \in Paper
      BY <3>1, PaperTyped DEF Shapes
    <3>3. p \in Paper
      BY <3>2 DEF Paper
    <3>4. supply' = [supply EXCEPT ![f] = p]
      BY <2>2 DEF ReturnToWarehouse
    <3> HIDE DEF f, p
    <3> QED
      BY <3>1, <3>3, <3>4, SupplyTyped
  <2> QED
    BY <2>1, <2>2
<1>7. unseen' \subseteq Requests
  BY <1>1 DEF ReturnToWarehouse, Overlooks, Shapes, TypeOK
<1> HIDE DEF new, r, got, seen, paper
<1>8. Flush(req[a], seen, new) \in Row
      /\ Flush(req[a], seen, new).ship \in {None, req[a].ship}
  BY <1>1, <1>2, FlushIs
<1>9. /\ req' \in [Requests -> Row] /\ req'[a].ship \in {None, req[a].ship}
      /\ \A b \in Requests \ {a} : req'[b] = req[b]
  BY <1>1, <1>5, <1>8, RowTyped
<1>10. net' \in [Requests -> Int]
  <2>1. net \in [Requests -> Int] /\ net[a] + got \in Int
    BY <1>1, <1>3 DEF Shapes, TypeOK
  <2> QED
    BY <2>1, <1>5
<1>11. Files'
  <2>1. returns' \in [Requests -> Seq(Slip)] /\ shipments' \in [Requests -> Seq(Shipment)]
    BY <1>1, <1>4, <1>5, AppendSlip DEF Shapes, Files
  <2>2. ASSUME NEW b \in Requests
        PROVE  Was(b, req[b].ship)'
    <3>1. Was(b, req[b].ship)
      BY DEF Shapes, Files
    <3> QED
      BY <3>1, <1>5, <1>9 DEF Was
  <2> QED
    BY <2>1, <2>2 DEF Files
<1> QED
  BY <1>5, <1>6, <1>7, <1>9, <1>10, <1>11, NotLonger, TypeAgain, EndShapes

\* The portal's operator settles a slip.
LEMMA SettleSlip ==
    ASSUME Shapes, NEW a \in Requests, NEW i \in 1..Len(returns[a]), NEW r \in Slip,
           returns' = [returns EXCEPT ![a][i] = r]
    PROVE  /\ returns' \in [Requests -> Seq(Slip)]
           /\ Len(returns'[a]) = Len(returns[a])
           /\ returns'[a][i] = r
           /\ \A j \in 1..Len(returns[a]) : j # i => returns'[a][j] = returns[a][j]
           /\ \A b \in Requests \ {a} : returns'[b] = returns[b]
<1> DEFINE q == [returns[a] EXCEPT ![i] = r]
<1>1. returns \in [Requests -> Seq(Slip)] /\ returns[a] \in Seq(Slip)
  BY DEF Shapes, Files
<1>2. q \in Seq(Slip) /\ Len(q) = Len(returns[a]) /\ q[i] = r
      /\ \A j \in 1..Len(returns[a]) : j # i => q[j] = returns[a][j]
  BY <1>1
<1>3. returns' = [returns EXCEPT ![a] = q]
  OBVIOUS
<1> HIDE DEF q
<1> QED
  BY <1>1, <1>2, <1>3

LEMMA AcceptShapes ==
    ASSUME Shapes, NEW a \in Requests, NEW i \in Awaited(a), NEW got \in 0..returns[a][i].qty,
           returns' = [returns EXCEPT ![a][i].open = FALSE, ![a][i].got = got],
           net' = [net EXCEPT ![a] = @ + got],
           UNCHANGED <<req, supply, accepted, shipments, converted, session, pass, unseen>>
    PROVE  Shapes'
<1> DEFINE r == [returns[a][i] EXCEPT !.open = FALSE, !.got = got]
<1>1. i \in 1..Len(returns[a]) /\ returns[a][i] \in Slip
  BY FilesTyped DEF Awaited, Shapes, Files
<1>2. got \in 0..MaxQty
  BY <1>1, BoundsAssumption DEF Slip
<1>3. r \in Slip
  BY <1>1, <1>2 DEF Slip
<1>4. returns' = [returns EXCEPT ![a][i] = r]
  OBVIOUS
<1> HIDE DEF r
<1>5. returns' \in [Requests -> Seq(Slip)]
  BY <1>1, <1>3, <1>4, SettleSlip
<1>6. Files'
  BY <1>5 DEF Shapes, Files, Was
<1>7. net' \in [Requests -> Int]
  <2>1. net \in [Requests -> Int] /\ net[a] + got \in Int
    BY <1>2 DEF Shapes, TypeOK
  <2> QED
    BY <2>1
<1>8. req' \in [Requests -> Row] /\ supply' \in [Supplies -> Paper] /\ unseen' \subseteq Requests
  BY DEF Shapes, TypeOK, Row, Paper
<1>9. TypeOK'
  BY <1>6, <1>7, <1>8, TypeAgain
<1>10. Jobs' /\ PassOK'
  <2>1. shipments' \in [Requests -> Seq(Shipment)] /\ DOMAIN session' = Sessions
        /\ \A s \in Sessions : session'[s] = session[s]
    BY DEF Shapes, Files, Jobs
  <2> QED
    BY <2>1, NotLonger, JobsKept DEF Shapes, PassOK
<1> QED
  BY <1>6, <1>9, <1>10 DEF Shapes

LEMMA ConvertShapes ==
    ASSUME Shapes, NEW a \in Requests, ConvertToTransfer(a)
    PROVE  Shapes'
<1>1. req' \in [Requests -> Row] /\ \A b \in Requests : req'[b].ship = req[b].ship
  <2>1. req[a] \in Row /\ req \in [Requests -> Row]
    BY RowsTyped DEF Shapes, TypeOK, Row
  <2>2. LET new == [req[a] EXCEPT !.status = "CANCELLED"]
        IN  new \in Row /\ new.ship = req[a].ship
    BY <2>1 DEF Row, Statuses
  <2> QED
    BY <2>1, <2>2 DEF ConvertToTransfer
<1>2. UNCHANGED <<supply, accepted, shipments, returns, net, session, pass, unseen>>
      /\ converted' \subseteq Requests
  BY DEF ConvertToTransfer, Shapes, TypeOK
<1>3. Files'
  <2>1. shipments' = shipments /\ returns' = returns
    BY <1>2
  <2> QED
    BY <1>1, <2>1 DEF Shapes, Files, Was
<1>4. TypeOK'
  BY <1>1, <1>2 DEF Shapes, TypeOK, Row
<1>5. Jobs' /\ PassOK'
  <2>1. shipments' \in [Requests -> Seq(Shipment)] /\ DOMAIN session' = Sessions
        /\ \A s \in Sessions : session'[s] = session[s]
    BY <1>2 DEF Shapes, Files, Jobs
  <2> QED
    BY <1>2, <2>1, NotLonger, JobsKept DEF Shapes, PassOK
<1> QED
  BY <1>3, <1>4, <1>5 DEF Shapes

LEMMA SyncReadShapes ==
    ASSUME Shapes, SyncRead
    PROVE  Shapes'
<1>1. ASSUME NEW f \in Supplies, NEW l \in Backfill(f)
      PROVE  l \in {None} \cup (Requests \X Nat)
  <2>1. \A a \in Requests : req[a].ship # None => req[a].ship \in Nat
    BY RowsTyped DEF Shapes, Row
  <2> QED
    BY <2>1 DEF Backfill, Linkable
<1>2. PassOK'
  <2>1. PICK links \in [Supplies -> UNION {Backfill(f) : f \in Supplies}] :
           /\ \A f \in Supplies : links[f] \in Backfill(f)
           /\ \E deliver, ships \in SUBSET Requests :
              pass' = [phase |-> "read", links |-> links, deliver |-> deliver, ships |-> ships]
    BY DEF SyncRead
  <2>2. links \in [Supplies -> {None} \cup (Requests \X Nat)]
    BY <1>1, <2>1
  <2> QED
    BY <2>1, <2>2 DEF PassOK
<1>3. UNCHANGED <<req, supply, papers, session, unseen>>
  BY DEF SyncRead
<1>4. TypeOK' /\ Files'
  BY <1>3 DEF papers, Shapes, TypeOK, Files, Was
<1>5. Jobs'
  <2>1. shipments' \in [Requests -> Seq(Shipment)] /\ DOMAIN session' = Sessions
        /\ \A s \in Sessions : session'[s] = session[s]
    BY <1>3 DEF papers, Shapes, Files, Jobs
  <2> QED
    BY <1>3, <2>1, NotLonger, JobsKept DEF papers
<1> QED
  BY <1>2, <1>4, <1>5 DEF Shapes

LEMMA SyncCommitShapes ==
    ASSUME Shapes, SyncCommit
    PROVE  Shapes'
<1>1. UNCHANGED <<papers, session>>
  BY DEF SyncCommit
<1>2. supply' \in [Supplies -> Paper]
  <2>1. ASSUME NEW f \in Supplies
        PROVE  (IF pass.links[f] = None THEN supply[f]
                ELSE [supply[f] EXCEPT !.ship = pass.links[f]]) \in Paper
    <3>1. supply[f] \in Paper /\ pass.links[f] \in {None} \cup (Requests \X Nat)
      BY PaperTyped DEF Shapes, PassOK
    <3> QED
      BY <3>1 DEF Paper
  <2> QED
    BY <2>1 DEF SyncCommit
<1>3. req' \in [Requests -> Row] /\ \A a \in Requests : req'[a].ship = req[a].ship
  <2>1. ASSUME NEW a \in Requests
        PROVE  LET new == IF a \in pass.deliver THEN [req[a] EXCEPT !.status = "DELIVERED"]
                          ELSE req[a]
               IN  new \in Row /\ new.ship = req[a].ship
    <3>1. req[a] \in Row
      BY RowsTyped DEF Shapes
    <3> QED
      BY <3>1 DEF Row, Statuses
  <2>2. req' = [a \in Requests |-> IF a \in pass.deliver
                                  THEN [req[a] EXCEPT !.status = "DELIVERED"] ELSE req[a]]
    BY DEF SyncCommit
  <2> QED
    BY <2>1, <2>2
<1>4. Files'
  <2>1. shipments' = shipments /\ returns' = returns
    BY <1>1 DEF papers
  <2> QED
    BY <1>3, <2>1 DEF Shapes, Files, Was
<1>5. unseen' \subseteq Requests
  BY DEF SyncCommit, Shapes, TypeOK, PassOK
<1>6. TypeOK'
  BY <1>1, <1>2, <1>3, <1>4, <1>5, TypeAgain DEF papers, Shapes, TypeOK
<1>7. PassOK'
  <2>1. pass' = [pass EXCEPT !.phase = "idle", !.links = NoLinks, !.deliver = {}]
    BY DEF SyncCommit
  <2> QED
    BY <2>1 DEF Shapes, PassOK, NoLinks
<1>8. Jobs'
  <2>1. shipments' \in [Requests -> Seq(Shipment)] /\ DOMAIN session' = Sessions
        /\ \A s \in Sessions : session'[s] = session[s]
    BY <1>1 DEF papers, Shapes, Files, Jobs
  <2> QED
    BY <1>1, <2>1, NotLonger, JobsKept DEF papers
<1> QED
  BY <1>4, <1>6, <1>7, <1>8 DEF Shapes

LEMMA NextShapes ==
    ASSUME Shapes, [Next]_vars
    PROVE  Shapes'
<1>1. ASSUME NEW s \in Callers, NEW a \in Requests, Handler(s, a)
      PROVE  Shapes'
  BY <1>1, HandlerShapes
<1>2. ASSUME NEW s \in Sessions, Write(s)
      PROVE  Shapes'
  BY <1>2, WriteShapes
<1>3. ASSUME NEW s \in Sessions, Locked(s)
      PROVE  Shapes'
  <2>1. PICK a \in session[s].at : ShipRequest(s, a) \/ CancelRequest(s, a)
                                   \/ ReturnToWarehouse(s, a)
    BY <1>3 DEF Locked
  <2>2. session' = [session EXCEPT ![s] = Idle] /\ UNCHANGED pass
    BY <1>3 DEF Locked
  <2> QED
    BY <2>1, <2>2, ShipShapes, CancelShapes, ReturnShapes
<1>4. ASSUME NEW s \in Sessions, Refused(s)
      PROVE  Shapes'
  <2>1. UNCHANGED <<req, supply, papers, pass, unseen>>
        /\ session' = [session EXCEPT ![s] = Idle]
    BY <1>4 DEF Refused
  <2>2. TypeOK' /\ Files'
    BY <2>1 DEF papers, Shapes, TypeOK, Files, Was
  <2> QED
    BY <2>1, <2>2, NotLonger, EndShapes DEF papers
<1>5. ASSUME NEW a \in Requests, AcceptReturn(a)
      PROVE  Shapes'
  BY <1>5, AcceptShapes DEF AcceptReturn
<1>6. ASSUME NEW a \in Requests, ConvertToTransfer(a)
      PROVE  Shapes'
  BY <1>6, ConvertShapes
<1>7. ASSUME NEW f \in Supplies, WbAccepts(f)
      PROVE  Shapes'
  <2>1. UNCHANGED <<req, supply, shipments, returns, net, converted, session, pass, unseen>>
        /\ accepted' \subseteq Supplies
    BY <1>7 DEF WbAccepts, Shapes, TypeOK
  <2>2. TypeOK' /\ Files' /\ PassOK'
    BY <2>1 DEF Shapes, TypeOK, Files, Was, PassOK
  <2>3. Jobs'
    BY <2>1 DEF Shapes, Jobs, JobOK, Was
  <2> QED
    BY <2>2, <2>3 DEF Shapes
<1>8. CASE SyncRead
  BY <1>8, SyncReadShapes
<1>9. CASE SyncCommit
  BY <1>9, SyncCommitShapes
<1>10. CASE AutoShip
  <2>1. PICK a \in pass.ships : Load(sync, "autoship", {a}, <<>>)
                                /\ pass' = [pass EXCEPT !.ships = @ \ {a}]
    BY <1>10 DEF AutoShip
  <2>2. PassOK' /\ a \in Requests
    BY <2>1 DEF Shapes, PassOK
  <2>3. sync \in Sessions
    BY DEF Sessions
  <2> QED
    BY <2>1, <2>2, <2>3, LoadShapes
<1>11. CASE UNCHANGED vars
  <2>1. TypeOK' /\ Files' /\ PassOK'
    BY <1>11 DEF vars, papers, Shapes, TypeOK, Files, Was, PassOK
  <2>2. Jobs'
    BY <1>11 DEF vars, papers, Shapes, Jobs, JobOK, Was
  <2> QED
    BY <2>1, <2>2 DEF Shapes
<1> QED
  BY <1>1, <1>2, <1>3, <1>4, <1>5, <1>6, <1>7, <1>8, <1>9, <1>10, <1>11 DEF Next

LEMMA InitShapes == Init => Shapes
<1> SUFFICES ASSUME Init
             PROVE  Shapes
  OBVIOUS
<1>1. req \in [Requests -> Row] /\ \A a \in Requests : req[a].ship = None
  BY BoundsAssumption DEF Init, Row, Statuses
<1>2. supply \in [Supplies -> Paper]
  BY DEF Init, NoPaper, Paper
<1>3. shipments = [a \in Requests |-> <<>>] /\ returns = [a \in Requests |-> <<>>]
  BY DEF Init
<1>4. TypeOK
  <2>1. \A a \in Requests : DOMAIN shipments[a] = {} /\ DOMAIN returns[a] = {}
    BY <1>3
  <2>2. net \in [Requests -> Int] /\ accepted \subseteq Supplies /\ converted \subseteq Requests
        /\ unseen \subseteq Requests
    BY DEF Init
  <2> QED
    BY <1>1, <1>2, <2>1, <2>2 DEF TypeOK, Row, Paper
<1>5. Files
  BY <1>1, <1>3 DEF Files, Was
<1>6. Jobs
  BY DEF Init, Jobs, JobOK, Idle
<1>7. PassOK
  BY DEF Init, Resting, NoLinks, PassOK
<1> QED
  BY <1>4, <1>5, <1>6, <1>7 DEF Shapes

\* Rows, supplies and papers are well-typed whatever the handlers interleave,
\* and whichever statuses they are asked from.
THEOREM TypeCorrect == Spec => []TypeOK
<1>1. Shapes => TypeOK
  BY DEF Shapes
<1> QED
  BY <1>1, InitShapes, NextShapes, PTL DEF Spec

-----------------------------------------------------------------------------
(* Totals *)

\* One argument's units are as many as the function says.
LEMMA UnitsOfOne ==
    ASSUME NEW x, NEW n \in Nat
    PROVE  IsFiniteSet({x} \X (1..n)) /\ Cardinality({x} \X (1..n)) = n
<1> DEFINE h == [i \in 1..n |-> <<x, i>>]
<1>1. IsFiniteSet(1..n) /\ Cardinality(1..n) = n
  BY FS_Interval
<1>2. h \in Bijection(1..n, {x} \X (1..n))
  BY DEF Bijection, Injection, Surjection, IsInjective
<1>3. ExistsBijection(1..n, {x} \X (1..n))
  BY <1>2 DEF ExistsBijection
<1> QED
  BY <1>1, <1>3, FS_Bijection, FS_SameCardinalityBij

\* A total is a natural number: a function on a finite set counts finitely
\* many units.
LEMMA TotalTyped ==
    ASSUME NEW D, IsFiniteSet(D), NEW f \in [D -> Nat]
    PROVE  IsFiniteSet(UnitsIn(f)) /\ Total(f) \in Nat
<1> DEFINE Mine == {{x} \X (1..f[x]) : x \in D}
           h    == [x \in D |-> {x} \X (1..f[x])]
<1>1. IsFiniteSet(Mine)
  <2>1. h \in Surjection(D, Mine)
    BY DEF Surjection
  <2> QED
    BY <2>1, FS_Surjection
<1>2. ASSUME NEW T \in Mine
      PROVE  IsFiniteSet(T)
  <2>1. PICK x \in D : T = {x} \X (1..f[x])
    OBVIOUS
  <2>2. f[x] \in Nat
    OBVIOUS
  <2> QED
    BY <2>1, <2>2, UnitsOfOne
<1>3. IsFiniteSet(UNION Mine)
  BY <1>1, <1>2, FS_UNION
<1>4. UnitsIn(f) = UNION Mine
  BY DEF UnitsIn
<1> QED
  BY <1>3, <1>4, FS_CardinalityType DEF Total

\* One argument's share can be counted by itself.
LEMMA TotalSplit ==
    ASSUME NEW D, IsFiniteSet(D), NEW f \in [D -> Nat], NEW x \in D,
           NEW g \in [D \ {x} -> Nat], \A y \in D \ {x} : g[y] = f[y]
    PROVE  Total(f) = Total(g) + f[x]
<1> DEFINE one == {x} \X (1..f[x])
<1>1. IsFiniteSet(one) /\ Cardinality(one) = f[x]
  BY UnitsOfOne
<1>2. IsFiniteSet(D \ {x})
  BY FS_Subset
<1>3. IsFiniteSet(UnitsIn(g)) /\ Total(g) \in Nat
  BY <1>2, TotalTyped
<1>4. UnitsIn(f) = UnitsIn(g) \cup one
  BY DEF UnitsIn
<1>5. UnitsIn(g) \cap one = {}
  BY DEF UnitsIn
<1>6. Cardinality(UnitsIn(g) \cap one) = 0
  BY <1>5, FS_EmptySet
<1>7. Cardinality(UnitsIn(f)) = Cardinality(UnitsIn(g)) + Cardinality(one) - Cardinality(UnitsIn(g) \cap one)
  BY <1>1, <1>3, <1>4, FS_Union
<1> QED
  BY <1>1, <1>3, <1>6, <1>7 DEF Total

\* What the slips of a request are short of.
Owed(q) == [i \in DOMAIN q |-> q[i].qty - q[i].got]

Honest(q) == \A i \in DOMAIN q : q[i].got <= q[i].qty

LEMMA OwedTyped ==
    ASSUME NEW q \in Seq(Slip), Honest(q)
    PROVE  /\ IsFiniteSet(DOMAIN q)
           /\ Owed(q) \in [DOMAIN q -> Nat]
           /\ Total(Owed(q)) \in Nat
<1>1. IsFiniteSet(DOMAIN q)
  BY FS_Interval
<1>2. \A i \in DOMAIN q : q[i].qty - q[i].got \in Nat
  <2>1. ASSUME NEW i \in DOMAIN q
        PROVE  q[i].qty - q[i].got \in Nat
    <3>1. q[i] \in Slip /\ q[i].got <= q[i].qty
      BY DEF Honest
    <3> QED
      BY <3>1, BoundsAssumption DEF Slip
  <2> QED
    BY <2>1
<1>3. Owed(q) \in [DOMAIN q -> Nat]
  BY <1>2 DEF Owed
<1> QED
  BY <1>1, <1>3, TotalTyped

LEMMA OwedSplit ==
    ASSUME NEW q, IsFiniteSet(DOMAIN q), Owed(q) \in [DOMAIN q -> Nat], NEW k \in DOMAIN q,
           NEW g \in [(DOMAIN q) \ {k} -> Nat],
           \A i \in (DOMAIN q) \ {k} : g[i] = Owed(q)[i]
    PROVE  Total(Owed(q)) = Total(g) + Owed(q)[k]
<1> DEFINE f == Owed(q)
<1>1. f \in [DOMAIN q -> Nat] /\ \A i \in (DOMAIN q) \ {k} : g[i] = f[i]
  OBVIOUS
<1> HIDE DEF f
<1>2. Total(f) = Total(g) + f[k]
  BY <1>1, TotalSplit
<1> QED
  BY <1>2 DEF f

\* A slip more: what it is short of comes on top.
LEMMA OwedAppended ==
    ASSUME NEW q \in Seq(Slip), Honest(q), NEW r \in Slip, r.got <= r.qty
    PROVE  /\ Append(q, r) \in Seq(Slip) /\ Honest(Append(q, r))
           /\ Total(Owed(Append(q, r))) = Total(Owed(q)) + r.qty - r.got
<1> DEFINE p == Append(q, r)
           k == Len(q) + 1
<1>1. p \in Seq(Slip) /\ DOMAIN p = 1..k /\ DOMAIN q = 1..Len(q) /\ p[k] = r
      /\ \A i \in 1..Len(q) : p[i] = q[i]
  OBVIOUS
<1>2. k \in DOMAIN p /\ (DOMAIN p) \ {k} = DOMAIN q
  BY <1>1
<1> HIDE DEF p
<1>3. Honest(p)
  BY <1>1, <1>2 DEF Honest
<1>4. /\ IsFiniteSet(DOMAIN p) /\ Owed(p) \in [DOMAIN p -> Nat]
      /\ Owed(q) \in [DOMAIN q -> Nat] /\ Total(Owed(q)) \in Nat
  BY <1>1, <1>3, OwedTyped
<1>5. \A i \in DOMAIN q : Owed(q)[i] = Owed(p)[i]
  BY <1>1, <1>2 DEF Owed
<1>6. Total(Owed(p)) = Total(Owed(q)) + Owed(p)[k]
  BY <1>2, <1>4, <1>5, OwedSplit
<1>7. Owed(p)[k] = r.qty - r.got
  BY <1>1, <1>2 DEF Owed
<1>8. r.qty \in Int /\ r.got \in Int
  BY BoundsAssumption DEF Slip
<1> QED
  BY <1>1, <1>3, <1>4, <1>6, <1>7, <1>8 DEF p

\* A slip settled: what has come is owed no more.
LEMMA OwedSettled ==
    ASSUME NEW q \in Seq(Slip), Honest(q), NEW p \in Seq(Slip), Honest(p),
           Len(p) = Len(q), NEW k \in 1..Len(q),
           \A i \in 1..Len(q) : i # k => p[i] = q[i]
    PROVE  Total(Owed(p)) = Total(Owed(q)) - Owed(q)[k] + Owed(p)[k]
<1>1. DOMAIN p = DOMAIN q /\ DOMAIN q = 1..Len(q) /\ k \in DOMAIN q
  OBVIOUS
<1>2. /\ IsFiniteSet(DOMAIN q)
      /\ Owed(p) \in [DOMAIN q -> Nat] /\ Owed(q) \in [DOMAIN q -> Nat]
      /\ Total(Owed(q)) \in Nat /\ Total(Owed(p)) \in Nat
  BY <1>1, OwedTyped
<1>3. \A i \in (DOMAIN q) \ {k} : Owed(p)[i] = Owed(q)[i]
  BY <1>1 DEF Owed
<1>4. PICK g \in [(DOMAIN q) \ {k} -> Nat] : \A i \in (DOMAIN q) \ {k} : g[i] = Owed(q)[i]
  <2> DEFINE h == [i \in (DOMAIN q) \ {k} |-> Owed(q)[i]]
  <2>1. h \in [(DOMAIN q) \ {k} -> Nat] /\ \A i \in (DOMAIN q) \ {k} : h[i] = Owed(q)[i]
    BY <1>2
  <2> QED
    BY <2>1
<1>5. Total(Owed(q)) = Total(g) + Owed(q)[k]
  BY <1>1, <1>2, <1>4, OwedSplit
<1>6. Total(Owed(p)) = Total(g) + Owed(p)[k]
  <2>1. /\ IsFiniteSet(DOMAIN p) /\ Owed(p) \in [DOMAIN p -> Nat] /\ k \in DOMAIN p
        /\ g \in [(DOMAIN p) \ {k} -> Nat] /\ \A i \in (DOMAIN p) \ {k} : g[i] = Owed(p)[i]
    BY <1>1, <1>2, <1>3, <1>4
  <2> QED
    BY <2>1, OwedSplit
<1>7. IsFiniteSet((DOMAIN q) \ {k})
  BY <1>2, FS_Subset
<1>8. Total(g) \in Nat
  BY <1>4, <1>7, TotalTyped
<1>9. Owed(q)[k] \in Nat /\ Owed(p)[k] \in Nat
  BY <1>1, <1>2
<1> QED
  BY <1>5, <1>6, <1>8, <1>9

-----------------------------------------------------------------------------
(* What the papers tell *)

Early == {"IN_PROGRESS", "READY", "VEHICLE_ASSIGNED"}
Out   == {"SHIPPED", "DELIVERED"}

\* The steps that handlers take without a lock, asked as their docstrings say.
Moves == {<<"READY", "IN_PROGRESS">>, <<"IN_PROGRESS", "READY">>,
          <<"VEHICLE_ASSIGNED", "READY">>, <<"READY", "VEHICLE_ASSIGNED">>,
          <<"SHIPPED", "DELIVERED">>, <<"DELIVERED", "CLOSED">>,
          <<"RETURNED", "CLOSED">>, <<"RETURNED", "READY">>}

\* A write is a step of the status, or an edit before departure; one that
\* reopens a request has seen no return that is awaited.
Offered(old, new, waits) ==
    \/ /\ <<old.status, new.status>> \in Moves
       /\ new.ship = old.ship /\ new.supply = old.supply /\ new.qty = old.qty
       /\ old.status = "RETURNED" /\ new.status = "READY" => ~waits
    \/ /\ old.status \in Early
       /\ new.status = old.status /\ new.ship = old.ship

Agreed(job) ==
    \A a \in job.at :
       /\ job.op = "write" => Offered(job.seen[a], job.new[a], a \in job.waits)
       /\ job.op = "return" => job.seen[a].status \in Out

Agreement == \A s \in Sessions : Agreed(session[s])

\* Nothing has come of a slip that is awaited, and never more than was sent.
Slips ==
    \A a \in Requests :
        /\ Honest(returns[a])
        /\ \A i \in DOMAIN returns[a] : returns[a][i].open => returns[a][i].got = 0

\* What the books say of a request that nobody has written on outdated data;
\* its current shipment stands and is for the units of its row.
Current(a) ==
    LET n == req[a].ship IN
    /\ net[a] = 0 - Under(a) - Short(a)
    /\ req[a].status \in Out => n # None
    /\ req[a].status \notin Out \cup {"CLOSED"} => n = None
    /\ n # None => shipments[a][n].qty = req[a].qty /\ shipments[a][n].live

Pointed(a) ==
    \A f \in Supplies :
        supply[f].ship # None /\ supply[f].ship[1] = a =>
            /\ req[a].ship = supply[f].ship[2]
            /\ req[a].supply = f

Held(a) == Awaited(a) # {} => req[a].status \in {"RETURNED", "CLOSED", "CANCELLED"}

Tells(a) == Current(a) /\ Pointed(a) /\ Held(a)

Truth == Agreement /\ Slips /\ \A a \in Requests \ unseen : Tells(a)

LEMMA ShortIsOwed ==
    ASSUME Shapes, NEW a \in Requests
    PROVE  Short(a) = Total(Owed(returns[a]))
  BY DEF Short, Owed

LEMMA ShortTyped ==
    ASSUME Shapes, Slips, NEW a \in Requests
    PROVE  Short(a) \in Nat
<1>1. returns[a] \in Seq(Slip) /\ Honest(returns[a])
  BY DEF Shapes, Files, Slips
<1> QED
  BY <1>1, OwedTyped DEF Short, Owed

\* A request that a step does not touch, and to which no supply comes to point.
LEMMA TellsKept ==
    ASSUME Shapes, NEW b \in Requests, Tells(b),
           req'[b] = req[b], net'[b] = net[b], shipments'[b] = shipments[b],
           returns'[b] = returns[b],
           \A f \in Supplies : \/ supply'[f].ship = supply[f].ship
                               \/ supply'[f].ship = None
                               \/ supply'[f].ship[1] # b
    PROVE  Tells(b)'
<1>1. Under(b)' = Under(b) /\ Short(b)' = Short(b)
  BY DEF Under, Short
<1>2. Current(b)'
  BY <1>1 DEF Tells, Current
<1>3. Pointed(b)'
  BY DEF Tells, Pointed
<1>4. Held(b)'
  BY DEF Tells, Held, Awaited
<1> QED
  BY <1>2, <1>3, <1>4 DEF Tells

\* Agreement is about what sessions have read, whatever happens meanwhile.
LEMMA AgreementEnds ==
    ASSUME Shapes, Truth, NEW s \in Sessions, session' = [session EXCEPT ![s] = Idle]
    PROVE  Agreement'
<1>1. \A r \in Sessions : session'[r] = Idle \/ session'[r] = session[r]
  BY DEF Shapes, Jobs
<1>2. ASSUME NEW r \in Sessions
      PROVE  Agreed(session[r])'
  <2>1. CASE session'[r] = Idle
    BY <2>1 DEF Agreed, Idle
  <2>2. CASE session'[r] = session[r]
    BY <2>2 DEF Truth, Agreement, Agreed
  <2> QED
    BY <1>1, <2>1, <2>2
<1> QED
  BY <1>2 DEF Agreement

\* A step of one request leaves the others as they are.
LEMMA OneTells ==
    ASSUME Shapes, Truth, NEW a \in Requests,
           \A b \in Requests \ {a} :
               /\ req'[b] = req[b] /\ net'[b] = net[b]
               /\ shipments'[b] = shipments[b] /\ returns'[b] = returns[b],
           \A f \in Supplies, b \in Requests \ {a} :
               \/ supply'[f].ship = supply[f].ship
               \/ supply'[f].ship = None
               \/ supply'[f].ship[1] # b,
           unseen \subseteq unseen',
           a \notin unseen' => Tells(a)',
           Agreement', Slips'
    PROVE  Truth'
<1>1. ASSUME NEW b \in Requests, b \notin unseen', b # a
      PROVE  Tells(b)'
  <2>1. Tells(b)
    BY <1>1 DEF Truth
  <2> QED
    BY <1>1, <2>1, TellsKept
<1> QED
  BY <1>1 DEF Truth

-----------------------------------------------------------------------------
(* Every step keeps what the papers tell *)

\* Nothing that the papers speak of changes.
LEMMA NothingTold ==
    ASSUME Shapes, Truth, UNCHANGED <<req, supply, papers, unseen>>, Agreement'
    PROVE  Truth'
<1>1. ASSUME NEW b \in Requests, b \notin unseen'
      PROVE  Tells(b)'
  <2>1. Tells(b)
    BY <1>1 DEF Truth
  <2> QED
    BY <2>1, TellsKept DEF papers
<1>2. Slips'
  BY DEF papers, Truth, Slips
<1> QED
  BY <1>1, <1>2 DEF Truth

LEMMA LoadTruth ==
    ASSUME Shapes, Truth, NEW s \in Sessions, NEW op, NEW at \in SUBSET Requests, NEW new,
           op = "write" => \A a \in at : Offered(req[a], new[a], Awaited(a) # {}),
           op = "return" => \A a \in at : req[a].status \in Out,
           Load(s, op, at, new)
    PROVE  Truth'
<1> DEFINE job == [op |-> op, at |-> at, seen |-> [a \in at |-> req[a]],
                   paper |-> [a \in at |-> PaperOf(a)],
                   waits |-> {a \in at : Awaited(a) # {}}, new |-> new]
<1>1. session'[s] = job /\ \A r \in Sessions : r # s => session'[r] = session[r]
  BY DEF Load, Shapes, Jobs
<1>2. /\ job.op = op /\ job.at = at /\ job.new = new
      /\ \A a \in at : job.seen[a] = req[a] /\ (a \in job.waits <=> Awaited(a) # {})
  OBVIOUS
<1> HIDE DEF job
<1>3. Agreed(session[s])'
  <2>1. ASSUME NEW a \in at
        PROVE  /\ op = "write" => Offered(job.seen[a], job.new[a], a \in job.waits)
               /\ op = "return" => job.seen[a].status \in Out
    BY <1>2 DEF Offered
  <2>2. Agreed(job)
    BY <1>2, <2>1 DEF Agreed
  <2> QED
    BY <1>1, <2>2 DEF Agreed
<1>4. Agreement'
  BY <1>1, <1>3 DEF Truth, Agreement, Agreed
<1> QED
  BY <1>4, NothingTold DEF Load

\* The status that a handler without a lock asks for is a step from the row's.
LEMMA MoveTruth ==
    ASSUME Shapes, Truth, NEW s \in Sessions, NEW at \in SUBSET Requests, NEW to,
           \A a \in at : /\ <<req[a].status, to>> \in Moves
                         /\ req[a].status = "RETURNED" /\ to = "READY" => Awaited(a) = {},
           Load(s, "write", at, Moved(at, to))
    PROVE  Truth'
<1>1. ASSUME NEW a \in at
      PROVE  Offered(req[a], Moved(at, to)[a], Awaited(a) # {})
  <2>1. req[a] \in Row /\ Moved(at, to)[a] = [req[a] EXCEPT !.status = to]
    BY RowsTyped DEF Shapes, Moved
  <2>2. LET new == [req[a] EXCEPT !.status = to]
        IN  /\ new.status = to /\ new.ship = req[a].ship
            /\ new.supply = req[a].supply /\ new.qty = req[a].qty
    BY <2>1 DEF Row
  <2> QED
    BY <2>1, <2>2 DEF Offered
<1> QED
  BY <1>1, LoadTruth

LEMMA HandlerTruth ==
    ASSUME AsOffered, Shapes, Truth, NEW s \in Callers, NEW a \in Requests, Handler(s, a)
    PROVE  Truth'
<1>0. s \in Sessions /\ {a} \in SUBSET Requests
  BY DEF Sessions
<1> USE <1>0
<1>1. ASSUME NEW offered, NEW to, Move(s, a, offered, to),
             \A old \in offered : <<old, to>> \in Moves,
             "RETURNED" \in offered /\ to = "READY" => Awaited(a) = {}
      PROVE  Truth'
  <2>1. req[a].status \in offered /\ Load(s, "write", {a}, Moved({a}, to))
    BY <1>1 DEF Move, Change
  <2> QED
    BY <1>1, <2>1, MoveTruth
<1>2. CASE StartAssembly(s, a)
  BY <1>1, <1>2 DEF StartAssembly, Moves
<1>3. CASE MarkReady(s, a)
  BY <1>1, <1>3 DEF MarkReady, Moves
<1>4. CASE UnassignVehicle(s, a)
  BY <1>1, <1>4 DEF UnassignVehicle, Moves
<1>5. CASE CloseRequest(s, a)
  BY <1>1, <1>5 DEF CloseRequest, Moves
<1>6. CASE DeliverRequest(s, a)
  BY <1>1, <1>6 DEF DeliverRequest, Moves
<1>7. CASE ReopenForReship(s, a)
  BY <1>1, <1>7 DEF ReopenForReship, Moves
<1>8. CASE AssignVehicle(s, a)
  <2>1. PICK at \in SUBSET Requests :
           /\ \A b \in at : req[b].status = "READY"
           /\ Load(s, "write", at, Moved(at, "VEHICLE_ASSIGNED"))
    BY <1>8 DEF AssignVehicle, Siblings, Change
  <2> QED
    BY <2>1, MoveTruth DEF Moves
<1>9. CASE ApplyGazelkaLogistics(s, a)
  <2>1. req[a].status = "READY" /\ Load(s, "write", {a}, Moved({a}, "VEHICLE_ASSIGNED"))
    BY <1>9 DEF ApplyGazelkaLogistics, Change
  <2> QED
    BY <2>1, MoveTruth DEF Moves
<1>10. CASE UpdateRequest(s, a)
  <2>1. PICK f, q :
           Load(s, "write", {a}, [b \in {a} |-> [req[b] EXCEPT !.supply = f, !.qty = q]])
    BY <1>10 DEF UpdateRequest, Change
  <2>2. req[a] \in Row /\ req[a].status \in Early
    BY <1>10, RowsTyped DEF UpdateRequest, Shapes, Row, Statuses, Closed, Early
  <2> DEFINE new == [b \in {a} |-> [req[b] EXCEPT !.supply = f, !.qty = q]]
  <2>3. new[a].status = req[a].status /\ new[a].ship = req[a].ship
    BY <2>2 DEF Row
  <2>4. Load(s, "write", {a}, new)
    BY <2>1
  <2> HIDE DEF new
  <2>5. \A b \in {a} : Offered(req[b], new[b], Awaited(b) # {})
    BY <2>2, <2>3 DEF Offered
  <2> QED
    BY <2>4, <2>5, LoadTruth
<1>11. CASE AskShip(s, a) \/ AskCancel(s, a)
  <2>1. PICK op \in {"ship", "cancel"} : Load(s, op, {a}, <<>>)
    BY <1>11 DEF AskShip, AskCancel, Ask
  <2> QED
    BY <2>1, LoadTruth
<1>12. CASE AskReturn(s, a)
  <2>1. req[a].status \in Out /\ Load(s, "return", {a}, <<>>)
    BY <1>12 DEF AskReturn, Ask, Out
  <2> QED
    BY <2>1, LoadTruth
<1> QED
  BY <1>2, <1>3, <1>4, <1>5, <1>6, <1>7, <1>8, <1>9, <1>10, <1>11, <1>12 DEF Handler

\* A write that finds the row as it was read does what was offered; any other
\* is counted among the unseen.
LEMMA WriteTruth ==
    ASSUME Shapes, Truth, NEW s \in Sessions, Write(s)
    PROVE  Truth'
<1> DEFINE job == session[s]
<1>1. /\ UNCHANGED <<supply, papers>> /\ session' = [session EXCEPT ![s] = Idle]
      /\ unseen' = unseen \cup {a \in job.at : Overtaken(job, a)}
      /\ \A a \in Requests : req'[a] =
            IF a \in job.at THEN Flush(req[a], job.seen[a], job.new[a]) ELSE req[a]
      /\ job.op = "write"
  BY DEF Write
<1>2. ASSUME NEW a \in Requests, a \notin unseen'
      PROVE  Tells(a)'
  <2>1. Tells(a)
    BY <1>1, <1>2 DEF Truth
  <2>2. CASE a \notin job.at
    BY <1>1, <2>1, <2>2, TellsKept DEF papers
  <2>3. CASE a \in job.at
    <3> DEFINE old == req[a]
               new == job.new[a]
    <3>1. ~Overtaken(job, a)
      BY <1>1, <1>2, <2>3
    <3>2. old = job.seen[a] /\ old \in Row /\ new \in Row
      BY <1>1, <2>3, <3>1, Written DEF Overtaken
    <3>3. req'[a] = new
      BY <1>1, <2>3, <3>2, FlushFresh
    <3>4. Offered(old, new, a \in job.waits)
      BY <1>1, <2>3, <3>2 DEF Truth, Agreement, Agreed
    <3>5. new.status = "READY" /\ a \notin job.waits => Awaited(a) = {}
      BY <3>1 DEF Overtaken
    <3>6. UNCHANGED <<shipments, returns, net, supply>>
      BY <1>1 DEF papers
    <3> HIDE DEF job, old, new
    <3>7. Short(a)' = Short(a) /\ Awaited(a)' = Awaited(a)
      BY <3>6 DEF Short, Awaited
    <3>8. old.status \in Early => old.ship = None /\ Awaited(a) = {}
      BY <2>1 DEF Tells, Current, Held, Early, Out, old
    <3>9. Held(a)'
      BY <2>1, <3>2, <3>3, <3>4, <3>5, <3>7, <3>8
         DEF Tells, Held, Offered, Moves, Early, old
    <3>10. Pointed(a)'
      <4>1. old.ship = None => \A f \in Supplies : supply[f].ship # None => supply[f].ship[1] # a
        <5>1. ASSUME NEW f \in Supplies, supply[f].ship # None
              PROVE  supply[f].ship[2] # None
          BY <5>1, PaperTyped, NoneAssumption DEF Shapes, Paper
        <5> QED
          BY <2>1, <5>1 DEF Tells, Pointed, old
      <4>2. CASE old.ship = None
        BY <3>6, <4>1, <4>2 DEF Pointed
      <4>3. CASE old.ship # None
        <5>1. new.ship = old.ship /\ new.supply = old.supply
          BY <3>4, <3>8, <4>3 DEF Offered
        <5> QED
          BY <2>1, <3>3, <3>6, <5>1 DEF Tells, Pointed, old
      <4> QED
        BY <4>2, <4>3
    <3>11. Current(a)'
      <4>1. new.ship = old.ship
        BY <3>4 DEF Offered
      <4>2. /\ new.status \in Out => new.ship # None
            /\ new.status \notin Out \cup {"CLOSED"} => new.ship = None
        BY <2>1, <3>4, <3>8, <4>1 DEF Tells, Current, Offered, Moves, Early, Out, old
      <4>3. new.ship # None => new.qty = old.qty
        BY <3>4, <3>8, <4>1 DEF Offered
      <4>4. Under(a)' = Under(a)
        BY <3>3, <3>6, <4>1 DEF Under, old
      <4> QED
        BY <2>1, <3>3, <3>6, <3>7, <4>1, <4>2, <4>3, <4>4 DEF Tells, Current, old
    <3> QED
      BY <3>9, <3>10, <3>11 DEF Tells
  <2> QED
    BY <2>2, <2>3
<1>3. Slips'
  BY <1>1 DEF papers, Truth, Slips
<1>4. Agreement'
  BY <1>1, AgreementEnds
<1> QED
  BY <1>2, <1>3, <1>4 DEF Truth

LEMMA SameSlips ==
    ASSUME Truth, UNCHANGED returns
    PROVE  Slips'
  BY DEF Truth, Slips

LEMMA ShipTruth ==
    ASSUME Shapes, Truth, NEW s \in Sessions, NEW a \in session[s].at, ShipRequest(s, a),
           session' = [session EXCEPT ![s] = Idle]
    PROVE  Truth'
<1> DEFINE seen == session[s].seen[a]
           n    == Len(shipments[a]) + 1
           new  == [seen EXCEPT !.status = "SHIPPED", !.ship = n]
           e    == [qty |-> seen.qty, live |-> TRUE]
           stale == Outdated(a, seen, {"supply", "qty"}) \/ seen.status = "SHIPPED"
<1>1. /\ a \in Requests /\ req[a] \in Row /\ Was(a, req[a].ship)
      /\ seen \in Row /\ Was(a, seen.ship)
  BY AtHand
<1>2. n \in Nat /\ n \notin 1..Len(shipments[a])
  BY <1>1 DEF Shapes, Files
<1>3. /\ net' = [net EXCEPT ![a] = @ - seen.qty]
      /\ shipments' = [shipments EXCEPT ![a] = Append(@, e)]
      /\ supply' = IF seen.supply = None THEN supply
                   ELSE [supply EXCEPT ![seen.supply].ship = <<a, n>>]
      /\ req' = [req EXCEPT ![a] = Flush(req[a], seen, new)]
      /\ unseen' = IF stale THEN unseen \cup {a} ELSE unseen
      /\ returns' = returns
  BY DEF ShipRequest, Overlooks
<1>4. req[a].status \in {"VEHICLE_ASSIGNED", "READY"}
  BY <1>1 DEF ShipRequest, MayShip, Transitions, Row, Statuses
<1>5. /\ new \in Row /\ new.ship = n /\ new.status = "SHIPPED"
      /\ new.qty = seen.qty /\ new.supply = seen.supply
  BY <1>1, <1>2 DEF Row, Statuses
<1>6. e \in Shipment /\ e.qty = seen.qty /\ e.live
  BY <1>1 DEF Row, Shipment
<1>7. ~stale => seen.supply = req[a].supply /\ seen.qty = req[a].qty /\ seen.status # "SHIPPED"
  BY DEF Outdated
<1> HIDE DEF new, e, n, stale, seen
<1>8. /\ shipments'[a][n] = e
      /\ \A b \in Requests \ {a} : shipments'[b] = shipments[b]
  BY <1>1, <1>3, <1>6, AppendShipment DEF n
<1>9. \A b \in Requests \ {a} : req'[b] = req[b] /\ net'[b] = net[b]
  BY <1>3 DEF Shapes, TypeOK
<1>10. net'[a] = net[a] - seen.qty
  BY <1>1, <1>3 DEF Shapes, TypeOK
<1>11. req'[a] = Flush(req[a], seen, new)
  BY <1>1, <1>3 DEF Shapes, TypeOK
<1>12. \A f \in Supplies :
          IF f = seen.supply /\ seen.supply # None THEN supply'[f].ship = <<a, n>>
          ELSE supply'[f] = supply[f]
  <2>1. \A f \in Supplies : supply[f] \in Paper
    BY PaperTyped DEF Shapes
  <2>2. DOMAIN supply = Supplies
    BY DEF Shapes, TypeOK
  <2> QED
    BY <1>3, <2>1, <2>2 DEF Paper
<1>13. ASSUME a \notin unseen'
       PROVE  Tells(a)'
  <2>1. a \notin unseen /\ ~stale
    BY <1>3, <1>13
  <2>2. Tells(a)
    BY <1>1, <2>1 DEF Truth
  <2>3. req[a].ship = None /\ Awaited(a) = {}
    BY <1>4, <2>2 DEF Tells, Current, Held, Out
  <2>4. seen.ship # n
    BY <1>1, <1>2, NoneAssumption DEF Was
  <2>5. /\ req'[a].ship = n /\ req'[a].status = "SHIPPED"
        /\ req'[a].supply = req[a].supply /\ req'[a].qty = seen.qty
    BY <1>1, <1>5, <1>7, <1>11, <2>1, <2>4, FlushIs
  <2>6. \A f \in Supplies : supply[f].ship # None => supply[f].ship[1] # a
    <3>1. ASSUME NEW f \in Supplies, supply[f].ship # None
          PROVE  supply[f].ship[2] # None
      BY <3>1, PaperTyped, NoneAssumption DEF Shapes, Paper
    <3> QED
      BY <2>2, <2>3, <3>1 DEF Tells, Pointed
  <2>7. Pointed(a)'
    BY <1>7, <1>12, <2>1, <2>5, <2>6 DEF Pointed
  <2>8. Held(a)'
    BY <1>3, <2>3 DEF Held, Awaited
  <2>9. Current(a)'
    <3>1. Under(a) = 0 /\ net[a] = 0 - Short(a)
      <4>1. net[a] = 0 - Under(a) - Short(a) /\ Under(a) = 0
        BY <2>2, <2>3 DEF Tells, Current, Under
      <4>2. Short(a) \in Nat
        BY <1>1, ShortTyped DEF Truth
      <4> QED
        BY <4>1, <4>2
    <3>2. Under(a)' = seen.qty
      BY <1>2, <1>6, <1>8, <2>5, NoneAssumption DEF Under
    <3>3. Short(a)' = Short(a)
      BY <1>3 DEF Short
    <3>4. seen.qty \in Int /\ Short(a) \in Int
      BY <1>1, ShortTyped, BoundsAssumption DEF Row, Truth
    <3>5. net'[a] = 0 - Under(a)' - Short(a)'
      BY <1>10, <3>1, <3>2, <3>3, <3>4
    <3>6. n # None
      BY <1>2, NoneAssumption
    <3> QED
      BY <1>6, <1>8, <2>5, <3>5, <3>6 DEF Current, Out
  <2> QED
    BY <2>7, <2>8, <2>9 DEF Tells
<1>14. Agreement' /\ Slips'
  BY <1>3, AgreementEnds, SameSlips
<1>15. unseen \subseteq unseen' /\ \A b \in Requests : returns'[b] = returns[b]
  BY <1>3
<1>16. \A f \in Supplies, b \in Requests \ {a} :
          supply'[f].ship = supply[f].ship \/ supply'[f].ship[1] # b
  BY <1>12
<1> QED
  BY <1>1, <1>8, <1>9, <1>13, <1>14, <1>15, <1>16, OneTells

LEMMA CancelTruth ==
    ASSUME Shapes, Truth, NEW s \in Sessions, NEW a \in session[s].at, CancelRequest(s, a),
           session' = [session EXCEPT ![s] = Idle]
    PROVE  Truth'
<1> DEFINE qty == session[s].seen[a].qty
           out == req[a].status = "SHIPPED"
           f   == req[a].supply
           stale == out /\ (qty # req[a].qty \/ (f # None /\ PaperAt(s, a, f) # supply[f]))
           new == [req[a] EXCEPT !.status = "CANCELLED",
                                 !.ship = IF out THEN None ELSE @]
<1>1. /\ a \in Requests /\ req[a] \in Row /\ Was(a, req[a].ship)
      /\ session[s].seen[a] \in Row
  BY AtHand
<1>2. /\ req' = [req EXCEPT ![a] = new]
      /\ net' = [net EXCEPT ![a] = IF out THEN @ + qty ELSE @]
      /\ shipments' = IF out /\ req[a].ship # None
                      THEN [shipments EXCEPT ![a][req[a].ship].live = FALSE] ELSE shipments
      /\ supply' = IF out /\ f # None
                   THEN [supply EXCEPT ![f].ship = LinkAfterCancel(s, a, f)] ELSE supply
      /\ unseen' = IF stale THEN unseen \cup {a} ELSE unseen
      /\ returns' = returns
  BY DEF CancelRequest, Overlooks
<1>3. req[a].status \notin {"DELIVERED", "CLOSED", "CANCELLED"}
  BY <1>1 DEF CancelRequest, MayCancel, Transitions, Row, Statuses
<1>4. /\ new.status = "CANCELLED" /\ new.supply = f /\ new.qty = req[a].qty
      /\ new.ship = IF out THEN None ELSE req[a].ship
  BY <1>1 DEF Row
<1> HIDE DEF new
<1>5. /\ req'[a] = new /\ net'[a] = IF out THEN net[a] + qty ELSE net[a]
      /\ \A b \in Requests \ {a} : /\ req'[b] = req[b] /\ net'[b] = net[b]
                                   /\ shipments'[b] = shipments[b]
  BY <1>1, <1>2 DEF Shapes, TypeOK, Files
<1>6. \A g \in Supplies :
         supply'[g].ship = IF out /\ g = f THEN LinkAfterCancel(s, a, f) ELSE supply[g].ship
  <2>1. \A g \in Supplies : supply[g] \in Paper
    BY PaperTyped DEF Shapes
  <2>2. DOMAIN supply = Supplies
    BY DEF Shapes, TypeOK
  <2> QED
    BY <1>2, <2>1, <2>2, NoneAssumption DEF Paper
<1>7. ASSUME a \notin unseen'
      PROVE  Tells(a)'
  <2>1. a \notin unseen /\ ~stale
    BY <1>2, <1>7
  <2>2. Tells(a)
    BY <1>1, <2>1 DEF Truth
  <2>3. new.ship = None
    BY <1>3, <1>4, <2>2 DEF Tells, Current, Out
  <2>4. \A g \in Supplies : supply'[g].ship # None => supply'[g].ship[1] # a
    <3> SUFFICES ASSUME NEW g \in Supplies, supply'[g].ship # None, supply'[g].ship[1] = a
                 PROVE  FALSE
      OBVIOUS
    <3>1. supply'[g].ship = supply[g].ship
      BY <1>6 DEF LinkAfterCancel
    <3>2. /\ req[a].ship = supply[g].ship[2] /\ f = g
      BY <2>2, <3>1 DEF Tells, Pointed
    <3>3. supply[g].ship \in Requests \X Nat
      BY <3>1, PaperTyped DEF Shapes, Paper
    <3>4. supply[g].ship = <<a, req[a].ship>> /\ req[a].ship # None
      BY <3>1, <3>2, <3>3, NoneAssumption
    <3>5. out
      BY <1>3, <2>2, <3>4 DEF Tells, Current, Out
    <3>6. PaperAt(s, a, f) = supply[f]
      BY <2>1, <3>2, <3>5, NoneAssumption
    <3>7. LinkAfterCancel(s, a, f) = None
      BY <3>2, <3>4, <3>6 DEF LinkAfterCancel, Ref
    <3> QED
      BY <1>6, <3>2, <3>5, <3>7
  <2>5. Pointed(a)'
    BY <2>4 DEF Pointed
  <2>6. Held(a)'
    BY <1>2, <1>4, <1>5, <2>2 DEF Held, Awaited
  <2>7. Current(a)'
    <3>1. Under(a)' = 0 /\ Short(a)' = Short(a)
      BY <1>2, <1>5, <2>3 DEF Under, Short
    <3>2. net'[a] = net[a] + Under(a)
      <4>1. CASE out
        <5>1. req[a].ship # None /\ Under(a) = req[a].qty
          BY <2>2, <4>1 DEF Tells, Current, Under, Out
        <5> QED
          BY <1>5, <2>1, <4>1, <5>1
      <4>2. CASE ~out
        <5>1. Under(a) = 0
          BY <1>4, <2>3, <4>2 DEF Under
        <5>2. net[a] \in Int
          BY <1>1 DEF Shapes, TypeOK
        <5> QED
          BY <1>5, <4>2, <5>1, <5>2
      <4> QED
        BY <4>1, <4>2
    <3>3. Under(a) \in Int
      <4>1. CASE req[a].ship = None
        BY <4>1 DEF Under
      <4>2. CASE req[a].ship # None
        BY <1>1, <2>2, <4>2, BoundsAssumption DEF Under, Tells, Current, Row
      <4> QED
        BY <4>1, <4>2
    <3>4. Short(a) \in Nat
      BY <1>1, ShortTyped DEF Truth
    <3>5. net'[a] = 0 - Under(a)' - Short(a)'
      BY <2>2, <3>1, <3>2, <3>3, <3>4 DEF Tells, Current
    <3> QED
      BY <1>4, <1>5, <2>3, <3>5 DEF Current, Out
  <2> QED
    BY <2>5, <2>6, <2>7 DEF Tells
<1>8. Agreement' /\ Slips'
  BY <1>2, AgreementEnds, SameSlips
<1>9. unseen \subseteq unseen' /\ \A b \in Requests : returns'[b] = returns[b]
  BY <1>2
<1>10. \A g \in Supplies : supply'[g].ship = supply[g].ship \/ supply'[g].ship = None
  BY <1>6 DEF LinkAfterCancel
<1> QED
  BY <1>1, <1>5, <1>7, <1>8, <1>9, <1>10, OneTells

LEMMA ReturnTruth ==
    ASSUME Shapes, Truth, NEW s \in Sessions, NEW a \in session[s].at, ReturnToWarehouse(s, a),
           session' = [session EXCEPT ![s] = Idle]
    PROVE  Truth'
<1> DEFINE seen  == session[s].seen[a]
           paper == session[s].paper[a]
           got   == IF a \in Portal THEN 0 ELSE seen.qty
           new   == [seen EXCEPT !.status = "RETURNED", !.ship = None, !.supply = None]
           r     == [qty |-> seen.qty, got |-> got, open |-> a \in Portal]
           stale == Outdated(a, seen, {"supply", "ship", "qty"}) \/ paper # PaperOf(a)
           Left(f) == IF paper.ship = Ref(a, seen.ship) THEN None ELSE supply[f].ship
<1>1. /\ a \in Requests /\ req[a] \in Row /\ seen \in Row
  BY AtHand
<1>2. /\ req' = [req EXCEPT ![a] = Flush(req[a], seen, new)]
      /\ returns' = [returns EXCEPT ![a] = Append(@, r)]
      /\ net' = [net EXCEPT ![a] = @ + got]
      /\ supply' = IF seen.supply = None THEN supply
                   ELSE [supply EXCEPT ![seen.supply] =
                            [returned |-> TRUE, ship |-> Left(seen.supply)]]
      /\ unseen' = IF stale THEN unseen \cup {a} ELSE unseen
      /\ shipments' = shipments
  BY DEF ReturnToWarehouse, Overlooks
<1>3. req[a].status \in Out /\ seen.status \in Out
  <2>1. req[a].status \in Out
    BY <1>1 DEF ReturnToWarehouse, MayReturn, Transitions, Row, Statuses, Out
  <2>2. session[s].op = "return"
    BY DEF ReturnToWarehouse
  <2> QED
    BY <2>1, <2>2 DEF Truth, Agreement, Agreed
<1>4. new \in Row /\ new.status = "RETURNED" /\ new.ship = None
      /\ new.supply = None /\ new.qty = seen.qty
  BY <1>1 DEF Row, Statuses
<1>5. got \in 0..MaxQty /\ got <= seen.qty /\ seen.qty \in 1..MaxQty /\ (a \in Portal => got = 0)
  BY <1>1, BoundsAssumption DEF Row
<1>6. r \in Slip /\ r.qty = seen.qty /\ r.got = got /\ (r.open => r.got = 0)
  <2>1. r.qty = seen.qty /\ r.got = got /\ r.open = (a \in Portal)
    OBVIOUS
  <2>2. r \in Slip
    BY <1>5 DEF Slip
  <2>3. r.open => a \in Portal
    BY <2>1
  <2> HIDE DEF r
  <2> QED
    BY <1>5, <2>1, <2>2, <2>3
<1>7. ~stale => /\ seen.supply = req[a].supply /\ seen.ship = req[a].ship
                /\ seen.qty = req[a].qty /\ paper = PaperOf(a)
  BY DEF Outdated
<1>8. \A f \in Supplies : Left(f) = supply[f].ship \/ Left(f) = None
  OBVIOUS
<1>9. paper.ship = Ref(a, seen.ship) => \A f \in Supplies : Left(f) = None
  OBVIOUS
<1> HIDE DEF new, r, got, stale, seen, paper, Left
<1>10. /\ Len(returns'[a]) = Len(returns[a]) + 1
       /\ returns'[a][Len(returns[a]) + 1] = r
       /\ \A i \in 1..Len(returns[a]) : returns'[a][i] = returns[a][i]
       /\ \A b \in Requests \ {a} : returns'[b] = returns[b]
       /\ returns'[a] = Append(returns[a], r)
       /\ returns[a] \in Seq(Slip)
  BY <1>1, <1>2, <1>6, AppendSlip DEF Shapes, Files
<1>11. \A b \in Requests \ {a} : req'[b] = req[b] /\ net'[b] = net[b]
  BY <1>2 DEF Shapes, TypeOK
<1>12. net'[a] = net[a] + got /\ req'[a] = Flush(req[a], seen, new)
  BY <1>1, <1>2 DEF Shapes, TypeOK
<1>13. \A f \in Supplies :
          supply'[f].ship = IF f = seen.supply /\ seen.supply # None THEN Left(f)
                            ELSE supply[f].ship
  <2>1. DOMAIN supply = Supplies
    BY DEF Shapes, TypeOK
  <2> QED
    BY <1>2, <2>1
<1>14. Honest(returns[a]) /\ Honest(returns'[a])
       /\ Total(Owed(returns'[a])) = Total(Owed(returns[a])) + r.qty - r.got
  <2>1. Honest(returns[a]) /\ r.got <= r.qty
    BY <1>1, <1>5, <1>6 DEF Truth, Slips
  <2> QED
    BY <1>6, <1>10, <2>1, OwedAppended
<1>15. Slips'
  <2>1. ASSUME NEW i \in DOMAIN returns'[a], returns'[a][i].open
        PROVE  returns'[a][i].got = 0
    <3>1. DOMAIN returns'[a] = 1..(Len(returns[a]) + 1) /\ DOMAIN returns[a] = 1..Len(returns[a])
      BY <1>10
    <3>2. Len(returns[a]) \in Nat
      BY <1>10
    <3>3. CASE i = Len(returns[a]) + 1
      BY <1>6, <1>10, <2>1, <3>3
    <3>4. CASE i \in 1..Len(returns[a])
      BY <1>1, <1>10, <2>1, <3>1, <3>4 DEF Truth, Slips
    <3> QED
      BY <3>1, <3>2, <3>3, <3>4
  <2>2. ASSUME NEW b \in Requests
        PROVE  /\ Honest(returns'[b])
               /\ \A i \in DOMAIN returns'[b] : returns'[b][i].open => returns'[b][i].got = 0
    <3>1. CASE b = a
      BY <1>14, <2>1, <3>1
    <3>2. CASE b # a
      <4>1. returns'[b] = returns[b]
        BY <1>10, <3>2
      <4> QED
        BY <4>1 DEF Truth, Slips
    <3> QED
      BY <3>1, <3>2
  <2>3. \A b \in Requests : (Honest(returns[b]))'
    BY <2>2 DEF Honest
  <2> QED
    BY <2>2, <2>3 DEF Slips
<1>16. ASSUME a \notin unseen'
       PROVE  Tells(a)'
  <2>1. a \notin unseen /\ ~stale
    BY <1>2, <1>16
  <2>2. Tells(a)
    BY <1>1, <2>1 DEF Truth
  <2>3. req[a].ship # None
    BY <1>3, <2>2 DEF Tells, Current
  <2>4. req'[a].status = "RETURNED" /\ req'[a].ship = None
    <3>1. /\ req'[a].status = IF new.status # seen.status THEN new.status ELSE req[a].status
          /\ req'[a].ship = IF new.ship # seen.ship THEN new.ship ELSE req[a].ship
      BY <1>1, <1>4, <1>12, FlushIs
    <3> QED
      BY <1>3, <1>4, <1>7, <2>1, <3>1 DEF Out
  <2>5. \A f \in Supplies : supply'[f].ship # None => supply'[f].ship[1] # a
    <3> SUFFICES ASSUME NEW f \in Supplies, supply'[f].ship # None, supply'[f].ship[1] = a
                 PROVE  FALSE
      OBVIOUS
    <3>1. supply'[f].ship = supply[f].ship
      BY <1>8, <1>13
    <3>2. req[a].ship = supply[f].ship[2] /\ req[a].supply = f
      BY <2>2, <3>1 DEF Tells, Pointed
    <3>3. supply[f].ship \in Requests \X Nat
      BY <3>1, PaperTyped DEF Shapes, Paper
    <3>4. supply[f].ship = Ref(a, seen.ship)
      BY <1>7, <2>1, <2>3, <3>1, <3>2, <3>3 DEF Ref
    <3>5. paper = supply[f]
      BY <1>7, <2>1, <3>2, NoneAssumption DEF PaperOf
    <3>6. f = seen.supply /\ seen.supply # None
      BY <1>7, <2>1, <3>2, NoneAssumption
    <3> QED
      BY <1>9, <1>13, <3>4, <3>5, <3>6
  <2>6. Pointed(a)'
    BY <2>5 DEF Pointed
  <2>7. Held(a)'
    BY <2>4 DEF Held
  <2>8. Current(a)'
    <3>1. Under(a)' = 0 /\ Under(a) = seen.qty
      BY <1>7, <2>1, <2>2, <2>3, <2>4 DEF Under, Tells, Current
    <3>2. Short(a) \in Nat /\ Short(a)' = Short(a) + seen.qty - got
      BY <1>1, <1>6, <1>14, ShortTyped DEF Short, Owed, Truth
    <3>3. net[a] = 0 - Under(a) - Short(a)
      BY <2>2 DEF Tells, Current
    <3>4. seen.qty \in Int /\ got \in Int
      BY <1>5, BoundsAssumption
    <3>5. net'[a] = 0 - Under(a)' - Short(a)'
      BY <1>12, <3>1, <3>2, <3>3, <3>4
    <3> QED
      BY <2>4, <3>5 DEF Current, Out
  <2> QED
    BY <2>6, <2>7, <2>8 DEF Tells
<1>17. Agreement'
  BY AgreementEnds
<1>18. unseen \subseteq unseen' /\ \A b \in Requests : shipments'[b] = shipments[b]
  BY <1>2
<1>19. \A f \in Supplies : supply'[f].ship = supply[f].ship \/ supply'[f].ship = None
  BY <1>8, <1>13
<1> QED
  BY <1>1, <1>10, <1>11, <1>15, <1>16, <1>17, <1>18, <1>19, OneTells

LEMMA AcceptTruth ==
    ASSUME Shapes, Truth, NEW a \in Requests, NEW i \in Awaited(a), NEW got \in 0..returns[a][i].qty,
           returns' = [returns EXCEPT ![a][i].open = FALSE, ![a][i].got = got],
           net' = [net EXCEPT ![a] = @ + got],
           UNCHANGED <<req, supply, accepted, shipments, converted, session, pass, unseen>>
    PROVE  Truth'
<1> DEFINE r == [returns[a][i] EXCEPT !.open = FALSE, !.got = got]
<1>1. /\ i \in 1..Len(returns[a]) /\ returns[a][i] \in Slip /\ returns[a][i].got = 0
      /\ returns[a] \in Seq(Slip) /\ Honest(returns[a])
  BY FilesTyped DEF Awaited, Shapes, Files, Truth, Slips
<1>2. got \in 0..MaxQty /\ got \in Nat /\ got <= returns[a][i].qty
  BY <1>1, BoundsAssumption DEF Slip
<1>3. r \in Slip /\ r.qty = returns[a][i].qty /\ r.got = got /\ r.open = FALSE
  BY <1>1, <1>2 DEF Slip
<1>4. returns' = [returns EXCEPT ![a][i] = r]
  OBVIOUS
<1> HIDE DEF r
<1>5. /\ returns' \in [Requests -> Seq(Slip)]
      /\ Len(returns'[a]) = Len(returns[a])
      /\ returns'[a][i] = r
      /\ \A j \in 1..Len(returns[a]) : j # i => returns'[a][j] = returns[a][j]
      /\ \A b \in Requests \ {a} : returns'[b] = returns[b]
  <2>1. i \in 1..Len(returns[a]) /\ r \in Slip
    BY <1>1, <1>3
  <2>2. returns' \in [Requests -> Seq(Slip)] /\ Len(returns'[a]) = Len(returns[a])
    BY <1>4, <2>1, SettleSlip
  <2>3. /\ returns'[a][i] = r
        /\ \A j \in 1..Len(returns[a]) : j # i => returns'[a][j] = returns[a][j]
    <3> DEFINE q == [returns[a] EXCEPT ![i] = r]
    <3>1. returns'[a] = q
      BY <1>4 DEF Shapes, Files
    <3>2. q[i] = r /\ \A j \in 1..Len(returns[a]) : j # i => q[j] = returns[a][j]
      BY <1>1
    <3> HIDE DEF q
    <3> QED
      BY <3>1, <3>2
  <2>4. \A b \in Requests \ {a} : returns'[b] = returns[b]
    BY <1>4, <2>1, SettleSlip
  <2> QED
    BY <2>2, <2>3, <2>4
<1>6. returns'[a] \in Seq(Slip)
  BY <1>5
<1>7. DOMAIN returns'[a] = 1..Len(returns[a]) /\ DOMAIN returns[a] = 1..Len(returns[a])
  BY <1>1, <1>5, <1>6
<1>8. Honest(returns'[a]) /\ \A j \in DOMAIN returns'[a] :
                                returns'[a][j].open => returns'[a][j].got = 0
  <2>1. ASSUME NEW j \in 1..Len(returns[a])
        PROVE  /\ returns'[a][j].got <= returns'[a][j].qty
               /\ returns'[a][j].open => returns'[a][j].got = 0
    <3>1. CASE j = i
      BY <1>2, <1>3, <1>5, <3>1
    <3>2. CASE j # i
      <4>1. /\ returns[a][j].got <= returns[a][j].qty
            /\ returns[a][j].open => returns[a][j].got = 0
        BY <1>1, <1>7 DEF Honest, Truth, Slips
      <4> QED
        BY <1>5, <3>2, <4>1
    <3> QED
      BY <3>1, <3>2
  <2> QED
    BY <1>7, <2>1 DEF Honest
<1>9. Slips'
  BY <1>5, <1>8 DEF Truth, Slips
<1>10. Total(Owed(returns'[a])) = Total(Owed(returns[a])) - got
  <2>1. Total(Owed(returns'[a]))
          = Total(Owed(returns[a])) - Owed(returns[a])[i] + Owed(returns'[a])[i]
    <3>1. /\ returns[a] \in Seq(Slip) /\ Honest(returns[a])
          /\ returns'[a] \in Seq(Slip) /\ Honest(returns'[a])
          /\ Len(returns'[a]) = Len(returns[a]) /\ i \in 1..Len(returns[a])
          /\ \A j \in 1..Len(returns[a]) : j # i => returns'[a][j] = returns[a][j]
      BY <1>1, <1>5, <1>6, <1>8
    <3> DEFINE q == returns[a]
               p == returns'[a]
    <3> HIDE DEF q, p
    <3>2. Total(Owed(p)) = Total(Owed(q)) - Owed(q)[i] + Owed(p)[i]
      BY <3>1, OwedSettled DEF p, q
    <3> QED
      BY <3>2 DEF p, q
  <2>2. /\ Owed(returns[a])[i] = returns[a][i].qty
        /\ Owed(returns'[a])[i] = returns[a][i].qty - got
    <3>1. Owed(returns[a])[i] = returns[a][i].qty - returns[a][i].got
          /\ Owed(returns'[a])[i] = returns'[a][i].qty - returns'[a][i].got
      BY <1>1, <1>7 DEF Owed
    <3>2. returns[a][i].qty \in Int
      BY <1>1, BoundsAssumption DEF Slip
    <3> QED
      BY <1>1, <1>3, <1>5, <3>1, <3>2
  <2>3. returns[a][i].qty \in Int
    BY <1>1, BoundsAssumption DEF Slip
  <2>4. Total(Owed(returns[a])) \in Nat
    BY <1>1, OwedTyped
  <2> QED
    BY <1>2, <2>1, <2>2, <2>3, <2>4
<1>11. /\ net'[a] = net[a] + got /\ net[a] \in Int
       /\ \A b \in Requests \ {a} : net'[b] = net[b]
  BY DEF Shapes, TypeOK
<1>12. ASSUME a \notin unseen'
       PROVE  Tells(a)'
  <2>1. Tells(a)
    BY <1>12 DEF Truth
  <2>2. Pointed(a)'
    BY <2>1 DEF Tells, Pointed
  <2>3. Held(a)'
    <3>1. Awaited(a) # {} /\ req'[a] = req[a]
      OBVIOUS
    <3> QED
      BY <2>1, <3>1 DEF Tells, Held
  <2>4. Current(a)'
    <3>1. Under(a)' = Under(a)
      BY DEF Under
    <3>2. Short(a)' = Short(a) - got /\ Short(a) \in Nat
      BY <1>10, ShortTyped DEF Short, Owed, Truth
    <3>3. Under(a) \in Int
      <4>1. CASE req[a].ship = None
        BY <4>1 DEF Under
      <4>2. CASE req[a].ship # None
        <5>1. req[a].qty \in Int
          BY RowsTyped, BoundsAssumption DEF Shapes, Row
        <5> QED
          BY <2>1, <4>2, <5>1 DEF Under, Tells, Current
      <4> QED
        BY <4>1, <4>2
    <3>4. net'[a] = 0 - Under(a)' - Short(a)'
      BY <1>2, <1>11, <2>1, <3>1, <3>2, <3>3 DEF Tells, Current
    <3> QED
      BY <2>1, <3>4 DEF Tells, Current
  <2> QED
    BY <2>2, <2>3, <2>4 DEF Tells
<1>13. Agreement'
  BY DEF Truth, Agreement, Agreed
<1> QED
  BY <1>5, <1>9, <1>11, <1>12, <1>13, OneTells

LEMMA ConvertTruth ==
    ASSUME Shapes, Truth, NEW a \in Requests, ConvertToTransfer(a)
    PROVE  Truth'
<1> DEFINE new == [req[a] EXCEPT !.status = "CANCELLED"]
           ends == req[a].status \in {"CLOSED", "RETURNED", "CANCELLED"}
<1>1. /\ UNCHANGED <<supply, shipments, returns, net, session, unseen>>
      /\ req' = IF ends THEN req ELSE [req EXCEPT ![a] = new]
      /\ net[a] >= 0
  BY DEF ConvertToTransfer
<1>2. req[a] \in Row
  BY RowsTyped DEF Shapes
<1>3. new.status = "CANCELLED" /\ new.ship = req[a].ship /\ new.supply = req[a].supply
      /\ new.qty = req[a].qty
  BY <1>2 DEF Row
<1> HIDE DEF new
<1>4. (req'[a] = IF ends THEN req[a] ELSE new) /\ \A b \in Requests \ {a} : req'[b] = req[b]
  BY <1>1 DEF Shapes, TypeOK
<1>5. ASSUME a \notin unseen
      PROVE  Tells(a)'
  <2>1. Tells(a)
    BY <1>5 DEF Truth
  <2>2. CASE ends
    BY <1>1, <1>4, <2>1, <2>2, TellsKept
  <2>3. CASE ~ends
    <3>1. req[a].ship = None
      <4> SUFFICES ASSUME req[a].ship # None
                   PROVE  FALSE
        OBVIOUS
      <4>1. Under(a) = req[a].qty /\ net[a] = 0 - Under(a) - Short(a)
        BY <2>1 DEF Tells, Current, Under
      <4>2. Short(a) \in Nat
        BY ShortTyped DEF Truth
      <4>3. req[a].qty \in Int /\ req[a].qty >= 1
        BY <1>2, BoundsAssumption DEF Row
      <4> QED
        BY <1>1, <4>1, <4>2, <4>3
    <3>2. req'[a] = new
      BY <1>4, <2>3
    <3>3. Current(a)'
      <4>1. Under(a)' = Under(a) /\ Short(a)' = Short(a)
        BY <1>1, <1>3, <3>1, <3>2 DEF Under, Short
      <4> QED
        BY <1>1, <1>3, <2>1, <3>1, <3>2, <4>1 DEF Tells, Current, Out
    <3>4. Pointed(a)' /\ Held(a)'
      BY <1>1, <1>3, <2>1, <3>2 DEF Tells, Pointed, Held
    <3> QED
      BY <3>3, <3>4 DEF Tells
  <2> QED
    BY <2>2, <2>3
<1>6. Agreement' /\ Slips'
  BY <1>1 DEF Truth, Agreement, Agreed, Slips
<1> QED
  BY <1>1, <1>4, <1>5, <1>6, OneTells

\* The links that a pass writes are those of requests that stand where they
\* were read; the others are counted among the unseen.
LEMMA SyncCommitTruth ==
    ASSUME Shapes, Truth, SyncCommit
    PROVE  Truth'
<1>1. /\ UNCHANGED <<accepted, shipments, returns, net, converted, session>>
      /\ \A f \in Supplies : supply'[f].ship =
            IF pass.links[f] = None THEN supply[f].ship ELSE pass.links[f]
      /\ \A a \in Requests : req'[a] =
            IF a \in pass.deliver THEN [req[a] EXCEPT !.status = "DELIVERED"] ELSE req[a]
  <2>1. \A f \in Supplies : supply[f] \in Paper
    BY PaperTyped DEF Shapes
  <2> QED
    BY <2>1 DEF SyncCommit, papers, Paper
<1>2. ASSUME NEW a \in Requests, a \notin unseen'
      PROVE  Tells(a)'
  <2>1. /\ a \notin unseen
        /\ a \in pass.deliver => req[a].status = "SHIPPED"
        /\ \A f \in Supplies : pass.links[f] # None /\ pass.links[f][1] = a =>
              req[a].supply = f /\ Ref(a, req[a].ship) = pass.links[f]
    BY <1>2 DEF SyncCommit
  <2>2. Tells(a)
    BY <2>1 DEF Truth
  <2>3. req[a] \in Row
    BY RowsTyped DEF Shapes
  <2>4. /\ req'[a].ship = req[a].ship /\ req'[a].supply = req[a].supply
        /\ req'[a].qty = req[a].qty
        /\ IF a \in pass.deliver THEN req'[a].status = "DELIVERED"
                                 ELSE req'[a].status = req[a].status
    BY <1>1, <2>3 DEF Row
  <2>5. Current(a)'
    <3>1. Under(a)' = Under(a) /\ Short(a)' = Short(a)
      BY <1>1, <2>4 DEF Under, Short
    <3> QED
      BY <1>1, <2>1, <2>2, <2>4, <3>1 DEF Tells, Current, Out
  <2>6. Pointed(a)'
    <3> SUFFICES ASSUME NEW f \in Supplies, supply'[f].ship # None, supply'[f].ship[1] = a
                 PROVE  req'[a].ship = supply'[f].ship[2] /\ req'[a].supply = f
      BY DEF Pointed
    <3>1. CASE pass.links[f] = None
      BY <1>1, <2>2, <2>4, <3>1 DEF Tells, Pointed
    <3>2. CASE pass.links[f] # None
      <4>1. supply'[f].ship = Ref(a, req[a].ship) /\ req[a].supply = f
        BY <1>1, <2>1, <3>2
      <4>2. supply'[f].ship[2] = req[a].ship
        BY <4>1 DEF Ref
      <4> QED
        BY <2>4, <4>1, <4>2
    <3> QED
      BY <3>1, <3>2
  <2>7. Held(a)'
    BY <1>1, <2>1, <2>2, <2>4 DEF Tells, Held, Awaited
  <2> QED
    BY <2>5, <2>6, <2>7 DEF Tells
<1>3. Agreement' /\ Slips'
  BY <1>1 DEF Truth, Agreement, Agreed, Slips
<1> QED
  BY <1>2, <1>3 DEF Truth

LEMMA NextTruth ==
    ASSUME AsOffered, Shapes, Truth, [Next]_vars
    PROVE  Truth'
<1>1. ASSUME NEW s \in Callers, NEW a \in Requests, Handler(s, a)
      PROVE  Truth'
  BY <1>1, HandlerTruth
<1>2. ASSUME NEW s \in Sessions, Write(s)
      PROVE  Truth'
  BY <1>2, WriteTruth
<1>3. ASSUME NEW s \in Sessions, Locked(s)
      PROVE  Truth'
  <2>1. PICK a \in session[s].at : ShipRequest(s, a) \/ CancelRequest(s, a)
                                   \/ ReturnToWarehouse(s, a)
    BY <1>3 DEF Locked
  <2>2. session' = [session EXCEPT ![s] = Idle]
    BY <1>3 DEF Locked
  <2> QED
    BY <2>1, <2>2, ShipTruth, CancelTruth, ReturnTruth
<1>4. ASSUME NEW s \in Sessions, Refused(s)
      PROVE  Truth'
  <2>1. UNCHANGED <<req, supply, papers, unseen>> /\ session' = [session EXCEPT ![s] = Idle]
    BY <1>4 DEF Refused
  <2> QED
    BY <2>1, AgreementEnds, NothingTold
<1>5. ASSUME NEW a \in Requests, AcceptReturn(a)
      PROVE  Truth'
  BY <1>5, AcceptTruth DEF AcceptReturn
<1>6. ASSUME NEW a \in Requests, ConvertToTransfer(a)
      PROVE  Truth'
  BY <1>6, ConvertTruth
<1>7. ASSUME NEW f \in Supplies, WbAccepts(f)
      PROVE  Truth'
  <2>1. UNCHANGED <<req, supply, shipments, returns, net, session, unseen>>
    BY <1>7 DEF WbAccepts
  <2>2. \A b \in Requests \ unseen : Tells(b)'
    BY <2>1, TellsKept DEF Truth
  <2>3. Agreement' /\ Slips'
    BY <2>1 DEF Truth, Agreement, Agreed, Slips
  <2> QED
    BY <2>1, <2>2, <2>3 DEF Truth
<1>8. CASE SyncRead
  <2>1. UNCHANGED <<req, supply, papers, session, unseen>>
    BY <1>8 DEF SyncRead
  <2>2. Agreement'
    BY <2>1 DEF Truth, Agreement, Agreed
  <2> QED
    BY <2>1, <2>2, NothingTold
<1>9. CASE SyncCommit
  BY <1>9, SyncCommitTruth
<1>10. CASE AutoShip
  <2>1. PICK a \in pass.ships : Load(sync, "autoship", {a}, <<>>)
    BY <1>10 DEF AutoShip
  <2>2. a \in Requests /\ sync \in Sessions
    BY <2>1 DEF Shapes, PassOK, Sessions
  <2> QED
    BY <2>1, <2>2, LoadTruth
<1>11. CASE UNCHANGED vars
  <2>1. UNCHANGED <<req, supply, papers, session, unseen>>
    BY <1>11 DEF vars
  <2>2. Agreement'
    BY <2>1 DEF Truth, Agreement, Agreed
  <2> QED
    BY <2>1, <2>2, NothingTold
<1> QED
  BY <1>1, <1>2, <1>3, <1>4, <1>5, <1>6, <1>7, <1>8, <1>9, <1>10, <1>11 DEF Next

LEMMA InitTruth == Init => Truth
<1> SUFFICES ASSUME Init
             PROVE  Truth
  OBVIOUS
<1>1. Shapes
  BY InitShapes
<1>2. \A a \in Requests : /\ req[a].ship = None /\ req[a].status = "IN_PROGRESS"
                          /\ net[a] = 0 /\ returns[a] = <<>>
  BY DEF Init
<1>3. \A f \in Supplies : supply[f].ship = None
  BY DEF Init, NoPaper
<1>4. ASSUME NEW a \in Requests
      PROVE  Tells(a) /\ Honest(returns[a])
             /\ \A i \in DOMAIN returns[a] : returns[a][i].open => returns[a][i].got = 0
  <2>1. DOMAIN returns[a] = {} /\ Awaited(a) = {}
    BY <1>2 DEF Awaited
  <2>2. Short(a) = 0
    <3>1. UnitsIn(Owed(returns[a])) = {}
      BY <2>1 DEF UnitsIn, Owed
    <3> QED
      BY <1>1, <3>1, FS_EmptySet, ShortIsOwed DEF Total
  <2>3. Under(a) = 0
    BY <1>2 DEF Under
  <2>4. Current(a)
    BY <1>2, <2>2, <2>3 DEF Current, Out
  <2> QED
    BY <1>3, <2>1, <2>4 DEF Tells, Pointed, Held, Honest
<1>5. Agreement
  BY DEF Init, Agreement, Agreed, Idle
<1> QED
  BY <1>4, <1>5 DEF Truth, Slips

\* Handlers that are asked as their docstrings say keep what the papers tell.
LEMMA TruthAlways ==
    ASSUME AsOffered
    PROVE  Spec => [](Shapes /\ Truth)
<1>1. Init => Shapes /\ Truth
  BY InitShapes, InitTruth
<1>2. Shapes /\ Truth /\ [Next]_vars => (Shapes /\ Truth)'
  BY NextShapes, NextTruth
<1> QED
  BY <1>1, <1>2, PTL DEF Spec

\* The journal says what a request's documents say, for any number of people,
\* requests, supplies and attempts.
THEOREM BooksCorrect ==
    ASSUME AsOffered
    PROVE  Spec => []BooksTellDocuments
<1>1. Shapes /\ Truth => BooksTellDocuments
  BY DEF Truth, Tells, Current, BooksTellDocuments, Closed, Out
<1> QED
  BY <1>1, TruthAlways, PTL

\* A supply names the shipment that stands: shipping, cancelling and returning
\* one request of a joint supply, or repairing its link, disturbs no other.
THEOREM PointerCorrect ==
    ASSUME AsOffered
    PROVE  Spec => []PointerTellsShipment
<1>1. Shapes /\ Truth => PointerTellsShipment
  <2> SUFFICES ASSUME Shapes, Truth, NEW f \in Supplies, NEW a \in Requests \ unseen,
                      supply[f].ship # None, supply[f].ship[1] = a
               PROVE  LET n == supply[f].ship[2] IN
                      req[a].ship = n /\ req[a].supply = f /\ shipments[a][n].live
    BY DEF PointerTellsShipment
  <2>1. Tells(a)
    BY DEF Truth
  <2>2. req[a].ship = supply[f].ship[2] /\ req[a].supply = f
    BY <2>1 DEF Tells, Pointed
  <2>3. supply[f].ship[2] # None
    BY PaperTyped, NoneAssumption DEF Shapes, Paper
  <2> QED
    BY <2>1, <2>2, <2>3 DEF Tells, Current
<1> QED
  BY <1>1, TruthAlways, PTL

\* Nothing is reshipped before the portal's operator has accepted the return,
\* whatever a handler had read before the return was booked.
THEOREM PendingCorrect ==
    ASSUME AsOffered
    PROVE  Spec => []PendingReturnHolds
<1>1. Shapes /\ Truth => PendingReturnHolds
  BY DEF Truth, Tells, Held, PendingReturnHolds
<1> QED
  BY <1>1, TruthAlways, PTL
=============================================================================
