---------------------------- MODULE StockSessions ----------------------------
(***************************************************************************)
(* Shipments and receipts of one warehouse, booked by concurrent database  *)
(* sessions: backend/services/warehouse_outbound.py (ship, deliver and     *)
(* cancel_shipment), warehouse_inbound.py (accept, accept_ff, update and   *)
(* cancel_receipt) and _update_stock of warehouse_stock_engine.py.         *)
(*                                                                         *)
(* A handler is a transaction at READ COMMITTED.  It loads its document    *)
(* without a lock, then for every line reads the stock row, computes in    *)
(* Python and assigns literals; the ORM sends the UPDATE of a changed row  *)
(* before the next SELECT or at commit, and the UPDATE holds the row's     *)
(* lock until the transaction ends.  Only the two ways to accept a receipt *)
(* lock the document.  Nothing fixes the order in which the database       *)
(* returns the lines, so a handler may take them in any; the rows of the   *)
(* SKUs exist; quantities are natural.                                     *)
(***************************************************************************)
EXTENDS Tallies
LOCAL INSTANCE Functions

CONSTANTS
    Sessions,
    Shipments, Receipts,
    SKUs,
    Defective,    \* the documents whose is_defect is set
    Places,       \* the lines one request may write
    StartLines,   \* the lines of each document
    Opening,      \* the rows before anything below is booked
    MaxQty,       \* bound: units of a line
    Reports,      \* amounts a person or a centre may report for a line
    MaxEdits      \* bound: edits of receipts

Docs == Shipments \cup Receipts

\* The columns of a stock row: quantity and defect_quantity.
Balances == {"quantity", "defect"}

\* The primary keys of lines: the edit that wrote the line, 0 at the start.
Keys == (0..MaxEdits) \X Places

\* A shipment's quantity stands in actual; bad is the receipt's defect_qty.
Line    == [sku : SKUs, expected : 0..MaxQty, actual : 0..MaxQty, bad : 0..MaxQty]
LineSet == UNION {[K -> Line] : K \in SUBSET Keys}

ASSUME DocsAssumption == Shipments \cap Receipts = {} /\ Defective \subseteq Docs
ASSUME BoundsAssumption == MaxQty \in Nat /\ MaxEdits \in Nat /\ IsFiniteSet(Places)
ASSUME ReportsAssumption == Reports \subseteq 0..MaxQty
ASSUME OpeningAssumption == Opening \in [SKUs -> [Balances -> Nat]]
ASSUME LinesAssumption ==
    \A d \in Docs : /\ DOMAIN StartLines[d] \subseteq {0} \X Places
                    /\ StartLines[d] \in [DOMAIN StartLines[d] -> Line]
                    /\ \A k \in DOMAIN StartLines[d] : StartLines[d][k].bad = 0

VARIABLES
    row,       \* WarehouseStock, committed
    journal,   \* StockMovement: net of a document per SKU, committed
    paper,     \* the documents: status and lines, committed
    booked,    \* committed handlers that booked a document, and that undid it
    edits,     \* edits of a receipt begun so far
    session

vars == <<row, journal, paper, booked, edits, session>>

Zero == [part \in Balances |-> 0]

OutboundStatus == {"DRAFT", "SHIPPED", "DELIVERED", "CANCELLED"}
InboundStatus  == {"EXPECTED", "ACCEPTED", "CANCELLED"}
Accepting      == {"accept", "accept_ff"}

NoWork  == [op |-> "none"]
NoFact  == -1
Busy(w) == session[w].op # "none"

\* Stock rows and receipts a session has locked.
Flushed(w) == IF Busy(w) THEN session[w].flushed ELSE {}
LockedDoc(w) ==
    IF Busy(w) /\ session[w].op \in Accepting /\ session[w].stage = "book"
    THEN {session[w].doc} ELSE {}

RowFree(w, s) == \A v \in Sessions \ {w} : s \notin Flushed(v)
DocFree(w, d) == \A v \in Sessions \ {w} : d \notin LockedDoc(v)

-----------------------------------------------------------------------------
(* What a handler books of a line: a number of units on either balance *)

Side(d) == IF d \in Defective THEN "defect" ELSE "quantity"

OneSide(side, n) == [part \in Balances |-> IF part = side THEN n ELSE 0]

\* accept_receipt_ff: accepted units to stock, defective ones to the defect
\* balance, whatever the receipt's flag.
BothSides(new) == [part \in Balances |-> IF part = "quantity" THEN new.actual ELSE new.bad]

\* Mutant: the new amount is booked, not the difference.
EditWhole(old, new) == OneSide("quantity", new.actual)

\* update_receipt of an accepted receipt: the difference, always of good stock.
EditChange(old, new) == OneSide("quantity", new.actual - old.actual)

\* cancel_receipt takes back actual_qty and no defect_qty.
Change(op, d, old, new) ==
    CASE op = "ship"            -> OneSide("quantity", -old.actual)
      [] op = "cancel_shipment" -> OneSide(Side(d), old.actual)
      [] op = "accept"          -> OneSide(Side(d), new.actual)
      [] op = "accept_ff"       -> BothSides(new)
      [] op = "edit_accepted"   -> EditChange(old, new)
      [] op = "cancel_receipt"  -> OneSide(Side(d), -old.actual)
      [] OTHER                  -> Zero

\* accept_receipt: a reported fact wins, else what is set, else what was expected.
Filled(l, fact) ==
    [l EXCEPT !.actual = IF fact # NoFact THEN fact
                         ELSE IF @ = 0 THEN l.expected ELSE @]

-----------------------------------------------------------------------------
(* Sums over the documents *)

Units(l) == l.actual + l.bad

UnitsOf(lines, s) ==
    Total([k \in DOMAIN lines |-> IF lines[k].sku = s THEN Units(lines[k]) ELSE 0])

\* A defect write-off shipment was born SHIPPED, its units written off before.
WrittenOff(d) == d \in Shipments \cap Defective

StartJournal(d, s) ==
    IF WrittenOff(d) THEN OneSide("defect", -UnitsOf(StartLines[d], s)) ELSE Zero

Init ==
    /\ row = Opening
    /\ journal = [d \in Docs |-> [s \in SKUs |-> StartJournal(d, s)]]
    /\ paper = [d \in Docs |->
                  [status |-> IF d \in Receipts THEN "EXPECTED"
                              ELSE IF WrittenOff(d) THEN "SHIPPED" ELSE "DRAFT",
                   lines  |-> StartLines[d]]]
    /\ booked = [d \in Docs |-> [on |-> 0, off |-> 0]]
    /\ edits = 0
    /\ session = [w \in Sessions |-> NoWork]

-----------------------------------------------------------------------------
(* A handler loads its document and checks the status it sees *)

\* The loaded lines become after, fresh is written in their place.
Begin(w, op, d, status, after, fresh) ==
    LET seen == paper[d].lines IN
    /\ ~Busy(w)
    /\ paper[d].status = status
    /\ session' = [session EXCEPT ![w] =
                     [op |-> op, doc |-> d, seen |-> seen, after |-> after, fresh |-> fresh,
                      todo |-> [k \in DOMAIN seen |-> Change(op, d, seen[k], after[k])],
                      stage |-> IF op \in Accepting THEN "lock" ELSE "book",
                      read |-> {}, flushed |-> {},
                      base |-> [s \in SKUs |-> Zero], own |-> [s \in SKUs |-> Zero]]]
    /\ UNCHANGED <<row, journal, paper, booked>>

NoLines == << >>

BeginShipment(w, d) ==
    /\ \/ /\ paper[d].lines # NoLines
          /\ Begin(w, "ship", d, "DRAFT", paper[d].lines, NoLines)
       \/ Begin(w, "deliver", d, "SHIPPED", paper[d].lines, NoLines)
       \/ Begin(w, "cancel_shipment", d, "SHIPPED", paper[d].lines, NoLines)
    /\ UNCHANGED edits

BeginAccept(w, d) ==
    LET lines == paper[d].lines IN
    /\ lines # NoLines
    /\ \E fact \in [DOMAIN lines -> Reports \cup {NoFact}] :
          Begin(w, "accept", d, "EXPECTED",
                [k \in DOMAIN lines |-> Filled(lines[k], fact[k])], NoLines)
    /\ UNCHANGED edits

BeginAcceptFf(w, d) ==
    LET lines == paper[d].lines IN
    /\ lines # NoLines
    /\ \E named \in SUBSET DOMAIN lines :
       \E fact, defect \in [named -> Reports] :
          Begin(w, "accept_ff", d, "EXPECTED",
                [k \in DOMAIN lines |->
                    IF k \in named THEN [lines[k] EXCEPT !.actual = fact[k], !.bad = defect[k]]
                    ELSE lines[k]],
                NoLines)
    /\ UNCHANGED edits

BeginCancelReceipt(w, d) ==
    /\ Begin(w, "cancel_receipt", d, "ACCEPTED", paper[d].lines, NoLines)
    /\ UNCHANGED edits

\* A request names lines by barcode, and each names one line.
BeginEditAccepted(w, d) ==
    LET lines == paper[d].lines IN
    /\ edits < MaxEdits
    /\ edits' = edits + 1
    /\ \E named \in SUBSET DOMAIN lines :
          /\ \A j, k \in named : lines[j].sku = lines[k].sku => j = k
          /\ \E actual \in [named -> Reports] :
                Begin(w, "edit_accepted", d, "ACCEPTED",
                      [k \in DOMAIN lines |->
                          IF k \in named THEN [lines[k] EXCEPT !.actual = actual[k]]
                          ELSE lines[k]],
                      NoLines)

\* A full edit: the lines loaded are deleted and new ones inserted.
BeginEditOpen(w, d) ==
    /\ edits < MaxEdits
    /\ edits' = edits + 1
    /\ \E written \in SUBSET Places :
       \E sku \in [written -> SKUs], expected, actual \in [written -> Reports] :
          Begin(w, "edit_open", d, "EXPECTED", paper[d].lines,
                [k \in {edits + 1} \X written |->
                    [sku |-> sku[k[2]], expected |-> expected[k[2]],
                     actual |-> actual[k[2]], bad |-> 0]])

-----------------------------------------------------------------------------
(* The body of a handler *)

\* Mutant: the status is checked once, on the snapshot without the lock.
StillOpenAsSeen(d) == TRUE

\* Under the lock: the committed status, and no movement of the receipt yet.
StillOpen(d) == paper[d].status = "EXPECTED" /\ booked[d].on = 0

LockReceipt(w) ==
    /\ Busy(w) /\ session[w].stage = "lock"
    /\ DocFree(w, session[w].doc)
    /\ session' = [session EXCEPT ![w] =
                     IF StillOpen(session[w].doc) THEN [@ EXCEPT !.stage = "book"] ELSE NoWork]
    /\ UNCHANGED <<row, journal, paper, booked, edits>>

\* Mutant: only the defect balance is guarded.
EnoughDefect(new) == new["defect"] >= 0

EnoughFor(new) == \A part \in Balances : new[part] >= 0

AllBooked(x) == \A k \in DOMAIN x.todo : x.todo[k] = Zero

\* A row this session has loaded keeps its loaded values.
Have(x, s) == IF s \in x.read THEN x.own[s] ELSE row[s]

\* The session after a balance of line k is booked.
BookedLine(x, k, part, new) ==
    LET s == x.seen[k].sku
    IN  [x EXCEPT !.todo[k][part] = 0,
                  !.read = @ \cup {s},
                  !.base[s] = IF s \in x.read THEN @ ELSE row[s],
                  !.own[s] = new]

\* _update_stock: the SELECT (what was assigned before is flushed by then), the
\* guard, the assignment.
Book(w) ==
    /\ Busy(w) /\ session[w].stage = "book"
    /\ session[w].read \subseteq session[w].flushed
    /\ \E k \in DOMAIN session[w].todo, part \in Balances :
          LET x   == session[w]
              new == [Have(x, x.seen[k].sku) EXCEPT ![part] = @ + x.todo[k][part]]
          IN  /\ x.todo[k][part] # 0
              /\ session' = [session EXCEPT ![w] =
                               IF EnoughFor(new) THEN BookedLine(x, k, part, new) ELSE NoWork]
    /\ UNCHANGED <<row, journal, paper, booked, edits>>

\* The UPDATE of a row: it waits for the row's lock.
Flush(w) ==
    /\ Busy(w)
    /\ \E s \in session[w].read \ session[w].flushed :
          /\ RowFree(w, s)
          /\ session' = [session EXCEPT ![w].flushed = @ \cup {s}]
    /\ UNCHANGED <<row, journal, paper, booked, edits>>

\* An UPDATE of a line that another session has deleted matches nothing, and
\* the ORM raises StaleDataError.
Stale(w) ==
    /\ Busy(w)
    /\ \E k \in DOMAIN session[w].seen :
          /\ session[w].after[k] # session[w].seen[k]
          /\ k \notin DOMAIN paper[session[w].doc].lines

\* A value that was changed is written as a literal; else what is there stays.
Literal(old, new, there) == IF new # old THEN new ELSE there

Updated(x, k, l) ==
    IF k \in DOMAIN x.seen
    THEN [l EXCEPT !.actual = Literal(x.seen[k].actual, x.after[k].actual, @),
                   !.bad = Literal(x.seen[k].bad, x.after[k].bad, @)]
    ELSE l

\* The lines as the commit leaves them.
LinesAfter(x, lines) ==
    IF x.op = "edit_open"
    THEN [k \in (DOMAIN lines \ DOMAIN x.seen) \cup DOMAIN x.fresh |->
             IF k \in DOMAIN x.fresh THEN x.fresh[k] ELSE lines[k]]
    ELSE [k \in DOMAIN lines |-> Updated(x, k, lines[k])]

StatusAfter(op, status) ==
    CASE op = "ship" -> "SHIPPED"
      [] op = "deliver" -> "DELIVERED"
      [] op \in Accepting -> "ACCEPTED"
      [] op \in {"cancel_shipment", "cancel_receipt"} -> "CANCELLED"
      [] OTHER -> status

RowAfter(x, s) ==
    [part \in Balances |-> Literal(x.base[s][part], x.own[s][part], row[s][part])]

\* The movements of this session go to its document.
JournalAfter(x, s, net) == [part \in Balances |-> net[part] + x.own[s][part] - x.base[s][part]]

Commit(w) ==
    LET x == session[w]
        d == x.doc
    IN  /\ Busy(w) /\ x.stage = "book" /\ AllBooked(x)
        /\ x.read = x.flushed
        /\ DocFree(w, d)
        /\ ~Stale(w)
        /\ row' = [s \in SKUs |-> IF s \in x.read THEN RowAfter(x, s) ELSE row[s]]
        /\ journal' = [journal EXCEPT ![d] = [s \in SKUs |-> JournalAfter(x, s, @[s])]]
        /\ paper' = [paper EXCEPT ![d] = [status |-> StatusAfter(x.op, @.status),
                                          lines  |-> LinesAfter(x, @.lines)]]
        /\ booked' = [booked EXCEPT ![d] =
             [on  |-> @.on + IF x.op \in {"ship"} \cup Accepting THEN 1 ELSE 0,
              off |-> @.off + IF x.op \in {"cancel_shipment", "cancel_receipt"} THEN 1 ELSE 0]]
        /\ session' = [session EXCEPT ![w] = NoWork]
        /\ UNCHANGED edits

-----------------------------------------------------------------------------
(* A handler fails: nothing of it stays *)

\* Mutant: the error is caught and the transaction stays open.
Swallow(w) == Busy(w) /\ UNCHANGED vars

Rollback(w) ==
    /\ Busy(w)
    /\ session' = [session EXCEPT ![w] = NoWork]
    /\ UNCHANGED <<row, journal, paper, booked, edits>>

\* Any time: an exception, that of a stale line among them, a lost client, a
\* restart.
Fail(w) == Rollback(w)

\* v holds a row or a receipt whose lock w needs next.
WaitsFor(w, v) ==
    /\ Busy(w) /\ w # v
    /\ \/ (session[w].read \ session[w].flushed) \cap Flushed(v) # {}
       \/ /\ session[w].stage = "lock" \/ AllBooked(session[w])
          /\ session[w].doc \in LockedDoc(v)

\* The database aborts one session of a cycle.
Victim(w) ==
    /\ \E cycle \in SUBSET Sessions :
          w \in cycle /\ \A x \in cycle : \E y \in cycle : WaitsFor(x, y)
    /\ Rollback(w)

-----------------------------------------------------------------------------
Request(w) ==
    \/ \E d \in Shipments : BeginShipment(w, d)
    \/ \E d \in Receipts : \/ BeginAccept(w, d)
                           \/ BeginAcceptFf(w, d)
                           \/ BeginCancelReceipt(w, d)
                           \/ BeginEditAccepted(w, d)
                           \/ BeginEditOpen(w, d)

Next ==
    \E w \in Sessions :
        \/ Request(w)
        \/ LockReceipt(w) \/ Book(w) \/ Flush(w) \/ Commit(w)
        \/ Fail(w) \/ Victim(w)

Spec == Init /\ [][Next]_vars

\* The server runs every request; the database queues its waiters and looks for
\* deadlocks.
Fairness ==
    \A w \in Sessions :
        /\ WF_vars(Book(w)) /\ WF_vars(Stale(w) /\ Fail(w)) /\ WF_vars(Victim(w))
        /\ SF_vars(LockReceipt(w)) /\ SF_vars(Flush(w)) /\ SF_vars(Commit(w))

FairSpec == Spec /\ Fairness

-----------------------------------------------------------------------------
(* Properties *)

NetOf(d, s) == journal[d][s]["quantity"] + journal[d][s]["defect"]

\* No balance is ever negative, whichever handlers overlap.
TypeOK ==
    /\ row \in [SKUs -> [Balances -> Nat]]
    /\ journal \in [Docs -> [SKUs -> [Balances -> Int]]]
    /\ \A d \in Docs :
          /\ paper[d].status \in IF d \in Shipments THEN OutboundStatus ELSE InboundStatus
          /\ paper[d].lines \in LineSet
    /\ booked \in [Docs -> [on : Nat, off : Nat]]
    /\ edits \in 0..MaxEdits

\* Two clicks, a retried request and the sync's automatic acceptance book a
\* receipt once (the lock and the second look of accept_receipt).
ReceiptBookedOnce == \A d \in Receipts : booked[d].on <= 1

\* A document's movements are what its status and its lines say, unit for unit
\* (on either balance), through edits before and after acceptance and failures
\* in the middle of a document.
PaperTellsTheBooks ==
    \A d \in Docs, s \in SKUs :
        LET net   == NetOf(d, s)
            units == UnitsOf(paper[d].lines, s)
        IN  /\ paper[d].status \in {"DRAFT", "EXPECTED"} => net = 0
            /\ paper[d].status \in {"SHIPPED", "DELIVERED"} => net = -units
            /\ paper[d].status = "ACCEPTED" => net = units
            /\ d \in Shipments /\ paper[d].status = "CANCELLED" => net = 0

\* A row is what it was at the start and the sum of the movements since.
RowIsJournalSum ==
    \A s \in SKUs, part \in Balances :
        row[s][part] = Opening[s][part]
            + SumFunction([d \in Docs |-> journal[d][s][part] - StartJournal(d, s)[part]])

\* A shipment takes the steps of its life and no others.
ShipmentGoesForward ==
    [][\A d \in Shipments :
          paper'[d].status # paper[d].status =>
              <<paper[d].status, paper'[d].status>> \in
                  {<<"DRAFT", "SHIPPED">>, <<"SHIPPED", "DELIVERED">>,
                   <<"SHIPPED", "CANCELLED">>}]_vars

\* A shipment is taken from the stock once.
ShippedOnce == \A d \in Shipments : booked[d].on <= 1

\* An accepted receipt holds what was booked for it.
AcceptedAsBooked ==
    \A d \in Receipts, s \in SKUs :
        paper[d].status = "ACCEPTED" =>
            NetOf(d, s) = UnitsOf(paper[d].lines, s)

\* A cancelled receipt leaves nothing on the rows.
CancelLeavesNothing ==
    \A d \in Receipts, s \in SKUs :
        paper[d].status = "CANCELLED" => journal[d][s] = Zero

\* Whatever waits for whatever, a request comes to an end.
EveryRequestEnds == \A w \in Sessions : Busy(w) ~> ~Busy(w)
=============================================================================
