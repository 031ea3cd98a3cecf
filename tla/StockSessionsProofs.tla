------------------------- MODULE StockSessionsProofs -------------------------
(***************************************************************************)
(* What is proved of the concurrent handlers, for any number of sessions,  *)
(* documents, lines and edits: the types, no balance ever negative; a      *)
(* receipt is booked once; and documents that are worked on by one request *)
(* at a time say what was booked for them, whatever overlaps on the rows.  *)
(***************************************************************************)
EXTENDS StockSessions, FiniteSetTheorems, TLAPS

OutOps == {"ship", "deliver", "cancel_shipment"}
InOps  == {"accept", "accept_ff", "cancel_receipt", "edit_accepted", "edit_open"}

Rows == [SKUs -> [Balances -> Nat]]
Nets == [Balances -> Int]

\* A handler at work.
Work ==
    [op : OutOps \cup InOps, doc : Docs, seen : LineSet, after : LineSet, fresh : LineSet,
     todo : UNION {[K -> Nets] : K \in SUBSET Keys}, stage : {"lock", "book"},
     read : SUBSET SKUs, flushed : SUBSET SKUs, base : Rows, own : Rows]

Whole(x) ==
    /\ x \in Work
    /\ x.op \in OutOps <=> x.doc \in Shipments
    /\ DOMAIN x.after = DOMAIN x.seen /\ DOMAIN x.todo = DOMAIN x.seen

\* What a handler may make of a loaded line, and which lines it writes.
MakesOf(op, old, new) ==
    /\ new.sku = old.sku /\ new.expected = old.expected
    /\ op # "accept_ff" => new.bad = old.bad
    /\ op \notin Accepting \cup {"edit_accepted"} => new = old

Makes(x) ==
    /\ \A k \in DOMAIN x.seen : MakesOf(x.op, x.seen[k], x.after[k])
    /\ \A k \in DOMAIN x.fresh : x.fresh[k].bad = 0

\* What is not booked yet is the handler's whole change of the line.
Pending(x) ==
    \A k \in DOMAIN x.seen, part \in Balances :
        x.todo[k][part] \in {0, Change(x.op, x.doc, x.seen[k], x.after[k])[part]}

\* What was not read was not changed.
Untouched(x) == \A s \in SKUs \ x.read : x.own[s] = x.base[s]

\* The units of a line the books hold before a handler and after it.
StartOf(op, old) ==
    CASE op \in {"cancel_shipment", "cancel_receipt"} -> old.actual
      [] op = "edit_accepted" -> Units(old)
      [] OTHER -> 0

GoalOf(op, old, new) ==
    CASE op = "ship" -> old.actual
      [] op = "accept" -> new.actual
      [] op \in {"accept_ff", "edit_accepted"} -> Units(new)
      [] OTHER -> 0

\* A shipment's units are booked as taken.
Signed(d, n) == IF d \in Shipments THEN -n ELSE n

\* ... and those they hold half-way.
Stands(x, k) ==
    GoalOf(x.op, x.seen[k], x.after[k])
        - Signed(x.doc, x.todo[k]["quantity"] + x.todo[k]["defect"])

StartsOf(x) == [k \in DOMAIN x.seen |-> StartOf(x.op, x.seen[k])]
StandsOf(x) == [k \in DOMAIN x.seen |-> Stands(x, k)]

\* The amounts n of the lines of one SKU.
OfSku(lines, n, s) == [k \in DOMAIN lines |-> IF lines[k].sku = s THEN n[k] ELSE 0]

Moved(x, s) ==
    x.own[s]["quantity"] + x.own[s]["defect"] - x.base[s]["quantity"] - x.base[s]["defect"]

\* What a handler has changed of a row is what it has booked of its lines.
Progress(x) ==
    \A s \in SKUs :
        Signed(x.doc, Moved(x, s)) + Total(OfSku(x.seen, StartsOf(x), s))
            = Total(OfSku(x.seen, StandsOf(x), s))

Working(x) == Whole(x) /\ Makes(x) /\ Pending(x) /\ Untouched(x) /\ Progress(x)

Papers ==
    /\ paper \in [Docs -> [status : OutboundStatus \cup InboundStatus, lines : LineSet]]
    /\ \A d \in Docs :
          paper[d].status \in IF d \in Shipments THEN OutboundStatus ELSE InboundStatus

Books ==
    /\ row \in Rows
    /\ journal \in [Docs -> [SKUs -> Nets]]
    /\ booked \in [Docs -> [on : Nat, off : Nat]]
    /\ edits \in 0..MaxEdits

AtWork ==
    /\ DOMAIN session = Sessions
    /\ \A w \in Sessions : session[w] = NoWork \/ Working(session[w])

Typed == Books /\ Papers /\ AtWork

\* No two requests work on one document.
DocsApart ==
    \A v, w \in Sessions : v # w /\ Busy(v) /\ Busy(w) => session[v].doc # session[w].doc

\* Defective units are told by the centre, as it accepts.
NothingBadYet ==
    \A d \in Docs :
        d \in Shipments \/ paper[d].status = "EXPECTED" =>
            \A k \in DOMAIN paper[d].lines : paper[d].lines[k].bad = 0

StatusFor(op) ==
    CASE op = "ship" -> "DRAFT"
      [] op \in {"deliver", "cancel_shipment"} -> "SHIPPED"
      [] op \in Accepting \cup {"edit_open"} -> "EXPECTED"
      [] OTHER -> "ACCEPTED"

\* A handler's document is as it loaded it.
UpToDate ==
    \A w \in Sessions : Busy(w) =>
        /\ paper[session[w].doc].lines = session[w].seen
        /\ paper[session[w].doc].status = StatusFor(session[w].op)

Truth == PaperTellsTheBooks /\ NothingBadYet /\ UpToDate

-----------------------------------------------------------------------------
(* Totals *)

\* One argument's units are as many as the function says.
LEMMA UnitsOfOne ==
    ASSUME NEW x, NEW n \in Nat
    PROVE  IsFiniteSet({x} \X (1..n)) /\ Cardinality({x} \X (1..n)) = n
<1> DEFINE h == [i \in 1..n |-> <<x, i>>]
<1>1. IsFiniteSet(1..n) /\ Cardinality(1..n) = n
  BY FS_Interval
<1>2. h \in Bijection(1..n, {x} \X (1..n))
  BY DEF Bijection, Injection, Surjection, IsInjective
<1>3. ExistsBijection(1..n, {x} \X (1..n))
  BY <1>2 DEF ExistsBijection
<1> QED
  BY <1>1, <1>3, FS_Bijection, FS_SameCardinalityBij

\* A total over a finite set is a natural number.
LEMMA TotalTyped ==
    ASSUME NEW D, IsFiniteSet(D), NEW f \in [D -> Nat]
    PROVE  IsFiniteSet(UnitsIn(f)) /\ Total(f) \in Nat
<1> DEFINE Mine == {{x} \X (1..f[x]) : x \in D}
           h    == [x \in D |-> {x} \X (1..f[x])]
<1>1. IsFiniteSet(Mine)
  <2>1. h \in Surjection(D, Mine)
    BY DEF Surjection
  <2> QED
    BY <2>1, FS_Surjection
<1>2. ASSUME NEW T \in Mine
      PROVE  IsFiniteSet(T)
  <2>1. PICK x \in D : T = {x} \X (1..f[x])
    OBVIOUS
  <2>2. f[x] \in Nat
    OBVIOUS
  <2> QED
    BY <2>1, <2>2, UnitsOfOne
<1>3. IsFiniteSet(UNION Mine)
  BY <1>1, <1>2, FS_UNION
<1>4. UnitsIn(f) = UNION Mine
  BY DEF UnitsIn
<1> QED
  BY <1>3, <1>4, FS_CardinalityType DEF Total

\* One argument's share can be counted by itself.
LEMMA TotalSplit ==
    ASSUME NEW D, IsFiniteSet(D), NEW f \in [D -> Nat], NEW x \in D,
           NEW g \in [D \ {x} -> Nat], \A y \in D \ {x} : g[y] = f[y]
    PROVE  Total(f) = Total(g) + f[x]
<1> DEFINE one == {x} \X (1..f[x])
<1>1. IsFiniteSet(one) /\ Cardinality(one) = f[x]
  BY UnitsOfOne
<1>2. IsFiniteSet(D \ {x})
  BY FS_Subset
<1>3. IsFiniteSet(UnitsIn(g)) /\ Total(g) \in Nat
  BY <1>2, TotalTyped
<1>4. UnitsIn(f) = UnitsIn(g) \cup one
  BY DEF UnitsIn
<1>5. UnitsIn(g) \cap one = {}
  BY DEF UnitsIn
<1>6. Cardinality(UnitsIn(g) \cap one) = 0
  BY <1>5, FS_EmptySet
<1>7. Cardinality(UnitsIn(f)) = Cardinality(UnitsIn(g)) + Cardinality(one) - Cardinality(UnitsIn(g) \cap one)
  BY <1>1, <1>3, <1>4, FS_Union
<1> QED
  BY <1>1, <1>3, <1>6, <1>7 DEF Total

\* A change at one argument changes the total by as much.
LEMMA TotalMoves ==
    ASSUME NEW D, IsFiniteSet(D), NEW f \in [D -> Nat], NEW g \in [D -> Nat], NEW x \in D,
           \A y \in D \ {x} : g[y] = f[y]
    PROVE  Total(g) = Total(f) + g[x] - f[x]
<1> DEFINE r == [y \in D \ {x} |-> f[y]]
<1>1. r \in [D \ {x} -> Nat] /\ IsFiniteSet(D \ {x})
  BY FS_Subset
<1>2. \A y \in D \ {x} : r[y] = f[y] /\ r[y] = g[y]
  OBVIOUS
<1> HIDE DEF r
<1>3. Total(f) = Total(r) + f[x] /\ Total(g) = Total(r) + g[x]
  BY <1>1, <1>2, TotalSplit
<1>4. Total(r) \in Nat /\ f[x] \in Nat /\ g[x] \in Nat
  BY <1>1, TotalTyped
<1> QED
  BY <1>3, <1>4

\* Nothing adds up to nothing.
LEMMA TotalOfNone ==
    ASSUME NEW D, NEW f \in [D -> {0}]
    PROVE  Total(f) = 0
<1>1. \A x \in D : 1..f[x] = {}
  OBVIOUS
<1>2. UnitsIn(f) = {}
  BY <1>1 DEF UnitsIn
<1> QED
  BY <1>2, FS_EmptySet DEF Total

-----------------------------------------------------------------------------
(* Lines and what is booked of them *)

LEMMA KeysFinite == IsFiniteSet(Keys)
<1>1. IsFiniteSet(0..MaxEdits) /\ IsFiniteSet(Places)
  BY BoundsAssumption, FS_Interval
<1> QED
  BY <1>1, FS_Product DEF Keys

LEMMA LineSetIs ==
    ASSUME NEW f
    PROVE  /\ f \in LineSet => /\ DOMAIN f \subseteq Keys /\ IsFiniteSet(DOMAIN f)
                               /\ f \in [DOMAIN f -> Line]
           /\ DOMAIN f \subseteq Keys /\ f \in [DOMAIN f -> Line] => f \in LineSet
<1>1. f \in LineSet => DOMAIN f \subseteq Keys /\ f \in [DOMAIN f -> Line]
  BY DEF LineSet
<1>2. DOMAIN f \subseteq Keys => IsFiniteSet(DOMAIN f)
  BY KeysFinite, FS_Subset
<1>3. DOMAIN f \subseteq Keys /\ f \in [DOMAIN f -> Line] => f \in LineSet
  BY DEF LineSet
<1> QED
  BY <1>1, <1>2, <1>3

\* The amounts of a line are numbers.
LEMMA LineTyped ==
    ASSUME NEW l \in Line
    PROVE  l.actual \in Nat /\ l.bad \in Nat /\ l.expected \in Nat /\ l.sku \in SKUs
           /\ Units(l) \in Nat
BY BoundsAssumption DEF Line, Units

LEMMA SideIs == \A d : Side(d) \in Balances
BY DEF Side, Balances

LEMMA OneSideIs ==
    ASSUME NEW side \in Balances, NEW n \in Int
    PROVE  /\ OneSide(side, n) \in Nets
           /\ OneSide(side, n)["quantity"] + OneSide(side, n)["defect"] = n
           /\ \A part \in Balances : OneSide(side, n)[part] \in {0, n}
BY DEF OneSide, Nets, Balances

LEMMA ZeroIs == Zero \in Nets /\ Zero \in [Balances -> Nat]
                /\ Zero["quantity"] = 0 /\ Zero["defect"] = 0
BY DEF Zero, Nets, Balances

\* Counting a shipment's units as taken keeps sums.
LEMMA SignedIs ==
    ASSUME NEW d
    PROVE  /\ Signed(d, 0) = 0
           /\ \A m, n \in Int : /\ Signed(d, n) \in Int
                                /\ Signed(d, m + n) = Signed(d, m) + Signed(d, n)
                                /\ Signed(d, m - n) = Signed(d, m) - Signed(d, n)
<1>1. CASE d \in Shipments
  <2>1. \A n \in Int : Signed(d, n) = -n
    BY <1>1 DEF Signed
  <2> QED
    BY <2>1
<1>2. CASE d \notin Shipments
  <2>1. \A n \in Int : Signed(d, n) = n
    BY <1>2 DEF Signed
  <2> QED
    BY <2>1
<1> QED
  BY <1>1, <1>2

\* A handler books the difference of what a line holds after it and before it,
\* and each of the two balances moves one way.
LEMMA ChangeIs ==
    ASSUME NEW op \in OutOps \cup InOps, NEW d \in Docs, op \in OutOps <=> d \in Shipments,
           NEW old \in Line, NEW new \in Line, MakesOf(op, old, new),
           NEW c, c = Change(op, d, old, new)
    PROVE  /\ c \in Nets
           /\ Signed(d, c["quantity"] + c["defect"]) = GoalOf(op, old, new) - StartOf(op, old)
           /\ StartOf(op, old) \in Nat /\ GoalOf(op, old, new) \in Nat
           /\ \A q \in {0, c["quantity"]}, b \in {0, c["defect"]} :
                 GoalOf(op, old, new) - Signed(d, q + b) \in Nat
<1>1. /\ old.actual \in Nat /\ old.bad \in Nat /\ new.actual \in Nat /\ new.bad \in Nat
      /\ Units(old) = old.actual + old.bad /\ Units(new) = new.actual + new.bad
  BY LineTyped DEF Units
<1>2. CASE op \in {"ship"}
  <2>1. d \in Shipments /\ c = OneSide("quantity", -old.actual)
    BY <1>2 DEF Change, OutOps
  <2>2. /\ c \in Nets /\ c["quantity"] = -old.actual /\ c["defect"] = 0
    BY <1>1, <2>1, OneSideIs DEF OneSide, Balances
  <2>3. GoalOf(op, old, new) = old.actual /\ StartOf(op, old) = 0
    BY <1>2 DEF GoalOf, StartOf
  <2> QED
    BY <1>1, <2>1, <2>2, <2>3 DEF Signed
<1>3. CASE op \in {"deliver", "edit_open"}
  <2>1. c = Zero /\ GoalOf(op, old, new) = 0 /\ StartOf(op, old) = 0
    BY <1>3 DEF Change, GoalOf, StartOf, Accepting
  <2>2. c \in Nets /\ c["quantity"] = 0 /\ c["defect"] = 0
    BY <2>1, ZeroIs
  <2>3. Signed(d, 0) = 0 /\ Signed(d, 0 + 0) = 0
    BY SignedIs
  <2>4. Signed(d, c["quantity"] + c["defect"]) = GoalOf(op, old, new) - StartOf(op, old)
    BY <2>1, <2>2, <2>3
  <2>5. \A q \in {0, c["quantity"]}, b \in {0, c["defect"]} :
           GoalOf(op, old, new) - Signed(d, q + b) \in Nat
    BY <2>1, <2>2, <2>3
  <2>6. StartOf(op, old) \in Nat /\ GoalOf(op, old, new) \in Nat
    BY <2>1
  <2> QED
    BY <2>2, <2>4, <2>5, <2>6
<1>4. CASE op = "cancel_shipment"
  <2>1. d \in Shipments /\ c = OneSide(Side(d), old.actual)
    BY <1>4 DEF Change, OutOps
  <2>2. /\ c \in Nets /\ c["quantity"] + c["defect"] = old.actual
        /\ c["quantity"] \in {0, old.actual} /\ c["defect"] \in {0, old.actual}
    BY <1>1, <2>1, OneSideIs, SideIs DEF Balances
  <2>3. GoalOf(op, old, new) = 0 /\ StartOf(op, old) = old.actual
    BY <1>4 DEF GoalOf, StartOf
  <2> HIDE DEF OneSide
  <2> QED
    BY <1>1, <2>1, <2>2, <2>3 DEF Signed
<1>5. CASE op = "accept"
  <2>1. d \notin Shipments /\ c = OneSide(Side(d), new.actual)
    BY <1>5 DEF Change, OutOps
  <2>2. /\ c \in Nets /\ c["quantity"] + c["defect"] = new.actual
        /\ c["quantity"] \in {0, new.actual} /\ c["defect"] \in {0, new.actual}
    BY <1>1, <2>1, OneSideIs, SideIs DEF Balances
  <2>3. GoalOf(op, old, new) = new.actual /\ StartOf(op, old) = 0
    BY <1>5 DEF GoalOf, StartOf
  <2> QED
    BY <1>1, <2>1, <2>2, <2>3 DEF Signed
<1>6. CASE op = "accept_ff"
  <2>1. d \notin Shipments /\ c = BothSides(new)
    BY <1>6 DEF Change, OutOps
  <2>2. c \in Nets /\ c["quantity"] = new.actual /\ c["defect"] = new.bad
    BY <1>1, <2>1 DEF BothSides, Nets, Balances
  <2>3. GoalOf(op, old, new) = new.actual + new.bad /\ StartOf(op, old) = 0
    BY <1>1, <1>6 DEF GoalOf, StartOf
  <2> QED
    BY <1>1, <2>1, <2>2, <2>3 DEF Signed
<1>7. CASE op = "edit_accepted"
  <2>1. d \notin Shipments /\ c = OneSide("quantity", new.actual - old.actual)
        /\ new.bad = old.bad
    BY <1>7 DEF Change, EditChange, OutOps, MakesOf
  <2>2. c \in Nets /\ c["quantity"] = new.actual - old.actual /\ c["defect"] = 0
    BY <1>1, <2>1, OneSideIs DEF OneSide, Balances
  <2>3. GoalOf(op, old, new) = new.actual + new.bad /\ StartOf(op, old) = old.actual + old.bad
    BY <1>1, <1>7 DEF GoalOf, StartOf
  <2> QED
    BY <1>1, <2>1, <2>2, <2>3 DEF Signed
<1>8. CASE op = "cancel_receipt"
  <2>1. d \notin Shipments /\ c = OneSide(Side(d), -old.actual)
    BY <1>8 DEF Change, OutOps
  <2>2. /\ c \in Nets /\ c["quantity"] + c["defect"] = -old.actual
        /\ c["quantity"] \in {0, -old.actual} /\ c["defect"] \in {0, -old.actual}
    BY <1>1, <2>1, OneSideIs, SideIs DEF Balances
  <2>3. GoalOf(op, old, new) = 0 /\ StartOf(op, old) = old.actual
    BY <1>8 DEF GoalOf, StartOf
  <2> QED
    BY <1>1, <2>1, <2>2, <2>3 DEF Signed
<1> QED
  BY <1>2, <1>3, <1>4, <1>5, <1>6, <1>7, <1>8 DEF OutOps, InOps

-----------------------------------------------------------------------------
(* A handler at work *)

LEMMA WholeIs ==
    ASSUME NEW x, Whole(x)
    PROVE  /\ x.op \in OutOps \cup InOps /\ x.doc \in Docs /\ (x.op \in OutOps <=> x.doc \in Shipments)
           /\ IsFiniteSet(DOMAIN x.seen) /\ DOMAIN x.seen \subseteq Keys
           /\ x.todo \in [DOMAIN x.seen -> Nets]
           /\ \A k \in DOMAIN x.seen :
                 /\ x.seen[k] \in Line /\ x.after[k] \in Line
                 /\ x.todo[k]["quantity"] \in Int /\ x.todo[k]["defect"] \in Int
           /\ x.own \in Rows /\ x.base \in Rows
<1>1. x \in Work /\ (x.op \in OutOps <=> x.doc \in Shipments)
      /\ DOMAIN x.after = DOMAIN x.seen /\ DOMAIN x.todo = DOMAIN x.seen
  BY DEF Whole
<1>2. /\ x.op \in OutOps \cup InOps /\ x.doc \in Docs /\ x.seen \in LineSet /\ x.after \in LineSet
      /\ x.todo \in UNION {[K -> Nets] : K \in SUBSET Keys}
      /\ x.own \in Rows /\ x.base \in Rows
  BY <1>1 DEF Work
<1>3. /\ IsFiniteSet(DOMAIN x.seen) /\ DOMAIN x.seen \subseteq Keys
      /\ x.seen \in [DOMAIN x.seen -> Line] /\ x.after \in [DOMAIN x.seen -> Line]
  BY <1>1, <1>2, LineSetIs
<1>4. x.todo \in [DOMAIN x.seen -> Nets]
  BY <1>1, <1>2
<1>5. ASSUME NEW k \in DOMAIN x.seen
      PROVE  x.todo[k]["quantity"] \in Int /\ x.todo[k]["defect"] \in Int
  <2>1. x.todo[k] \in Nets
    BY <1>4
  <2> QED
    BY <2>1 DEF Nets, Balances
<1> QED
  BY <1>1, <1>2, <1>3, <1>4, <1>5

\* What the books hold of a line is a number, before, half-way and after.
LEMMA StandsTyped ==
    ASSUME NEW x, Whole(x), Makes(x), Pending(x), NEW k \in DOMAIN x.seen
    PROVE  /\ StartOf(x.op, x.seen[k]) \in Nat
           /\ GoalOf(x.op, x.seen[k], x.after[k]) \in Nat
           /\ Stands(x, k) \in Nat
<1> DEFINE c == Change(x.op, x.doc, x.seen[k], x.after[k])
<1>1. /\ x.op \in OutOps \cup InOps /\ x.doc \in Docs /\ (x.op \in OutOps <=> x.doc \in Shipments)
      /\ x.seen[k] \in Line /\ x.after[k] \in Line
  BY WholeIs
<1>2. MakesOf(x.op, x.seen[k], x.after[k])
  BY DEF Makes
<1>3. /\ StartOf(x.op, x.seen[k]) \in Nat
      /\ GoalOf(x.op, x.seen[k], x.after[k]) \in Nat
      /\ \A q \in {0, c["quantity"]}, b \in {0, c["defect"]} :
            GoalOf(x.op, x.seen[k], x.after[k]) - Signed(x.doc, q + b) \in Nat
  BY <1>1, <1>2, ChangeIs
<1>4. x.todo[k]["quantity"] \in {0, c["quantity"]} /\ x.todo[k]["defect"] \in {0, c["defect"]}
  BY DEF Pending, Balances
<1> HIDE DEF c
<1> QED
  BY <1>3, <1>4 DEF Stands

LEMMA OfSkuTyped ==
    ASSUME NEW D, NEW lines, DOMAIN lines = D, NEW n \in [D -> Nat], NEW s
    PROVE  OfSku(lines, n, s) \in [D -> Nat]
BY DEF OfSku

\* The shares of the lines, by SKU, are functions to the naturals.
LEMMA SharesTyped ==
    ASSUME NEW x, Whole(x), Makes(x), Pending(x), NEW s
    PROVE  /\ OfSku(x.seen, StartsOf(x), s) \in [DOMAIN x.seen -> Nat]
           /\ OfSku(x.seen, StandsOf(x), s) \in [DOMAIN x.seen -> Nat]
           /\ Total(OfSku(x.seen, StartsOf(x), s)) \in Nat
           /\ Total(OfSku(x.seen, StandsOf(x), s)) \in Nat
<1>1. StartsOf(x) \in [DOMAIN x.seen -> Nat] /\ StandsOf(x) \in [DOMAIN x.seen -> Nat]
  BY StandsTyped DEF StartsOf, StandsOf
<1>2. /\ OfSku(x.seen, StartsOf(x), s) \in [DOMAIN x.seen -> Nat]
      /\ OfSku(x.seen, StandsOf(x), s) \in [DOMAIN x.seen -> Nat]
  BY <1>1, OfSkuTyped
<1>3. IsFiniteSet(DOMAIN x.seen)
  BY WholeIs
<1> QED
  BY <1>2, <1>3, TotalTyped

\* A handler that has just loaded its document.
LEMMA BeginWorks ==
    ASSUME Papers, NEW w \in Sessions, NEW op \in OutOps \cup InOps, NEW d \in Docs,
           op \in OutOps <=> d \in Shipments, NEW status,
           NEW after \in LineSet, NEW fresh \in LineSet,
           Begin(w, op, d, status, after, fresh),
           DOMAIN after = DOMAIN paper[d].lines,
           \A k \in DOMAIN after : MakesOf(op, paper[d].lines[k], after[k]),
           \A k \in DOMAIN fresh : fresh[k].bad = 0
    PROVE  \E x : /\ session' = [session EXCEPT ![w] = x]
                  /\ Working(x) /\ x.op = op /\ x.doc = d /\ x.seen = paper[d].lines
                  /\ op \in Accepting => x.stage = "lock"
                  /\ UNCHANGED <<row, journal, paper, booked>> /\ paper[d].status = status
<1> DEFINE seen == paper[d].lines
           todo == [k \in DOMAIN seen |-> Change(op, d, seen[k], after[k])]
           none == [s \in SKUs |-> Zero]
           stage == IF op \in Accepting THEN "lock" ELSE "book"
           x == [op |-> op, doc |-> d, seen |-> seen, after |-> after, fresh |-> fresh,
                 todo |-> todo, stage |-> stage, read |-> {}, flushed |-> {},
                 base |-> none, own |-> none]
<1>1. session' = [session EXCEPT ![w] = x] /\ paper[d].status = status
      /\ UNCHANGED <<row, journal, paper, booked>>
  BY DEF Begin
<1>2. seen \in LineSet /\ DOMAIN after = DOMAIN seen
      /\ \A k \in DOMAIN seen : MakesOf(op, seen[k], after[k])
  BY DEF Papers
<1> HIDE DEF seen
<1>3. \A k \in DOMAIN seen : seen[k] \in Line /\ after[k] \in Line
  BY <1>2, LineSetIs
<1>4. todo \in [DOMAIN seen -> Nets]
  BY <1>2, <1>3, ChangeIs
<1>5. todo \in UNION {[K -> Nets] : K \in SUBSET Keys}
  BY <1>2, <1>4, LineSetIs
<1>6. none \in Rows
  BY ZeroIs DEF Rows
<1>7. \A k \in DOMAIN seen : todo[k] = Change(op, d, seen[k], after[k])
  OBVIOUS
<1>8. stage \in {"lock", "book"} /\ (op \in Accepting => stage = "lock")
  OBVIOUS
<1>9. \A s \in SKUs : none[s] = Zero
  OBVIOUS
<1> HIDE DEF todo, none, stage
<1>10. x \in Work
  BY <1>2, <1>5, <1>6, <1>8 DEF Work
<1>11. /\ x.op = op /\ x.doc = d /\ x.seen = seen /\ x.after = after /\ x.fresh = fresh
       /\ x.todo = todo /\ x.stage = stage /\ x.read = {} /\ x.base = none /\ x.own = none
  OBVIOUS
<1> HIDE DEF x
<1>12. Whole(x)
  BY <1>2, <1>4, <1>10, <1>11 DEF Whole
<1>13. Makes(x)
  BY <1>2, <1>11 DEF Makes
<1>14. Pending(x)
  <2>1. \A k \in DOMAIN x.seen : x.todo[k] = Change(x.op, x.doc, x.seen[k], x.after[k])
    BY <1>7, <1>11
  <2> QED
    BY <2>1 DEF Pending
<1>15. Untouched(x)
  BY <1>11 DEF Untouched
<1>16. Progress(x)
  <2>1. ASSUME NEW k \in DOMAIN seen
        PROVE  Stands(x, k) = StartOf(x.op, x.seen[k])
    <3> DEFINE c == Change(op, d, seen[k], after[k])
               g == GoalOf(op, seen[k], after[k])
               b == StartOf(op, seen[k])
    <3>1. Stands(x, k) = g - Signed(d, c["quantity"] + c["defect"])
      BY <1>7, <1>11 DEF Stands
    <3>2. g \in Nat /\ b \in Nat /\ Signed(d, c["quantity"] + c["defect"]) = g - b
      BY <1>2, <1>3, ChangeIs
    <3>3. b = StartOf(x.op, x.seen[k])
      BY <1>11
    <3> HIDE DEF c, g, b
    <3> QED
      BY <3>1, <3>2, <3>3
  <2>2. StandsOf(x) = StartsOf(x)
    BY <1>11, <2>1 DEF StandsOf, StartsOf
  <2>3. \A s \in SKUs : Moved(x, s) = 0
    BY <1>9, <1>11, ZeroIs DEF Moved
  <2>4. \A s \in SKUs : Total(OfSku(x.seen, StartsOf(x), s)) \in Nat
    BY <1>12, <1>13, <1>14, SharesTyped
  <2> QED
    BY <2>2, <2>3, <2>4, SignedIs DEF Progress
<1> QED
  BY <1>1, <1>8, <1>11, <1>12, <1>13, <1>14, <1>15, <1>16 DEF Working, seen

LEMMA NoLinesIs == NoLines \in LineSet /\ DOMAIN NoLines = {}
<1>1. DOMAIN NoLines = {}
  BY DEF NoLines
<1>2. NoLines \in [{} -> Line]
  BY DEF NoLines
<1> QED
  BY <1>1, <1>2, LineSetIs

\* A line with other amounts is a line.
LEMMA AmountsTyped ==
    ASSUME NEW l \in Line, NEW n \in 0..MaxQty, NEW m \in 0..MaxQty
    PROVE  /\ [l EXCEPT !.actual = n] \in Line
           /\ [l EXCEPT !.actual = n].sku = l.sku /\ [l EXCEPT !.actual = n].bad = l.bad
           /\ [l EXCEPT !.actual = n].expected = l.expected
           /\ [l EXCEPT !.actual = n, !.bad = m] \in Line
           /\ [l EXCEPT !.actual = n, !.bad = m].sku = l.sku
           /\ [l EXCEPT !.actual = n, !.bad = m].expected = l.expected
BY DEF Line

LEMMA FilledTyped ==
    ASSUME NEW l \in Line, NEW fact \in Reports \cup {NoFact}
    PROVE  Filled(l, fact) \in Line /\ MakesOf("accept", l, Filled(l, fact))
<1> DEFINE n == IF fact # NoFact THEN fact ELSE IF l.actual = 0 THEN l.expected ELSE l.actual
<1>1. n \in 0..MaxQty
  BY ReportsAssumption DEF Line
<1>2. Filled(l, fact) = [l EXCEPT !.actual = n]
  BY DEF Filled
<1> HIDE DEF n
<1>3. [l EXCEPT !.actual = n] \in Line /\ [l EXCEPT !.actual = n].sku = l.sku
      /\ [l EXCEPT !.actual = n].bad = l.bad /\ [l EXCEPT !.actual = n].expected = l.expected
  BY <1>1, AmountsTyped
<1> DEFINE m == Filled(l, fact)
<1>4. m \in Line /\ m.sku = l.sku /\ m.bad = l.bad /\ m.expected = l.expected
  BY <1>2, <1>3
<1> HIDE DEF m
<1>5. MakesOf("accept", l, m)
  BY <1>4 DEF MakesOf, Accepting
<1> QED
  BY <1>4, <1>5 DEF m

\* What a request that begins leaves.
Begun(w, x) ==
    /\ session' = [session EXCEPT ![w] = x]
    /\ Working(x) /\ x.op # "none"
    /\ x.seen = paper[x.doc].lines /\ paper[x.doc].status = StatusFor(x.op)
    /\ x.op \in Accepting => x.stage = "lock"
    /\ UNCHANGED <<row, journal, paper, booked>>
    /\ edits' \in 0..MaxEdits

\* A request that leaves the lines it loaded as they are.
LEMMA PlainBegins ==
    ASSUME Papers, NEW w \in Sessions, NEW op \in OutOps \cup {"cancel_receipt", "edit_open"},
           NEW d \in Docs, op \in OutOps <=> d \in Shipments, NEW fresh \in LineSet,
           \A k \in DOMAIN fresh : fresh[k].bad = 0,
           Begin(w, op, d, StatusFor(op), paper[d].lines, fresh), edits' \in 0..MaxEdits
    PROVE  \E x : Begun(w, x)
<1>1. paper[d].lines \in LineSet
  BY DEF Papers
<1>2. op \in OutOps \cup InOps /\ op # "none"
  BY DEF OutOps, InOps
<1>3. \A k \in DOMAIN paper[d].lines : MakesOf(op, paper[d].lines[k], paper[d].lines[k])
  BY DEF MakesOf
<1> DEFINE status == StatusFor(op)
           lines  == paper[d].lines
<1>6. Begin(w, op, d, status, lines, fresh)
  OBVIOUS
<1> HIDE DEF status, lines
<1>7. DOMAIN lines = DOMAIN paper[d].lines /\ lines \in LineSet
      /\ \A k \in DOMAIN lines : MakesOf(op, paper[d].lines[k], lines[k])
  BY <1>1, <1>3 DEF lines
<1>4. PICK x : /\ session' = [session EXCEPT ![w] = x]
               /\ Working(x) /\ x.op = op /\ x.doc = d /\ x.seen = paper[d].lines
               /\ op \in Accepting => x.stage = "lock"
               /\ UNCHANGED <<row, journal, paper, booked>> /\ paper[d].status = status
  BY <1>2, <1>6, <1>7, BeginWorks
<1>5. Begun(w, x)
  BY <1>2, <1>4 DEF Begun, status
<1> QED
  BY <1>5

\* A request that changes the lines it loaded.
LEMMA ChangingBegins ==
    ASSUME Papers, NEW w \in Sessions, NEW op \in Accepting \cup {"edit_accepted"},
           NEW d \in Receipts, NEW after \in [DOMAIN paper[d].lines -> Line],
           \A k \in DOMAIN after : MakesOf(op, paper[d].lines[k], after[k]),
           Begin(w, op, d, StatusFor(op), after, NoLines), edits' \in 0..MaxEdits
    PROVE  \E x : Begun(w, x)
<1>1. d \in Docs /\ d \notin Shipments
  BY DocsAssumption DEF Docs
<1>2. paper[d].lines \in LineSet
  BY <1>1 DEF Papers
<1>3. after \in LineSet /\ DOMAIN after = DOMAIN paper[d].lines
  BY <1>2, LineSetIs
<1>4. op \in OutOps \cup InOps /\ op # "none" /\ op \notin OutOps
  BY DEF OutOps, InOps, Accepting
<1>5. \A k \in DOMAIN NoLines : NoLines[k].bad = 0
  BY NoLinesIs
<1> DEFINE status == StatusFor(op)
           fresh  == NoLines
<1>8. Begin(w, op, d, status, after, fresh) /\ fresh \in LineSet
      /\ \A k \in DOMAIN fresh : fresh[k].bad = 0
  BY <1>5, NoLinesIs
<1> HIDE DEF status, fresh
<1>6. PICK x : /\ session' = [session EXCEPT ![w] = x]
               /\ Working(x) /\ x.op = op /\ x.doc = d /\ x.seen = paper[d].lines
               /\ op \in Accepting => x.stage = "lock"
               /\ UNCHANGED <<row, journal, paper, booked>> /\ paper[d].status = status
  BY <1>1, <1>3, <1>4, <1>8, BeginWorks, SMTT(40)
<1>7. Begun(w, x)
  BY <1>4, <1>6 DEF Begun, status
<1> QED
  BY <1>7

LEMMA RequestBegins ==
    ASSUME Papers, edits \in 0..MaxEdits, NEW w \in Sessions, Request(w)
    PROVE  \E x : Begun(w, x)
<1>1. \A d \in Docs : paper[d].lines \in LineSet
  BY DEF Papers
<1>2. \A d \in Docs : \A k \in DOMAIN paper[d].lines : paper[d].lines[k] \in Line
  BY <1>1, LineSetIs
<1>3. \A d \in Receipts : d \in Docs /\ d \notin Shipments
  BY DocsAssumption DEF Docs
<1>4. edits < MaxEdits => edits + 1 \in 0..MaxEdits
  BY BoundsAssumption
<1>5. \A k \in DOMAIN NoLines : NoLines[k].bad = 0
  BY NoLinesIs
<1>6. ASSUME NEW d \in Shipments, BeginShipment(w, d)
      PROVE  \E x : Begun(w, x)
  <2>1. PICK op \in OutOps : Begin(w, op, d, StatusFor(op), paper[d].lines, NoLines)
    <3>1. CASE Begin(w, "ship", d, "DRAFT", paper[d].lines, NoLines)
      <4>1. "ship" \in OutOps /\ StatusFor("ship") = "DRAFT"
        BY DEF OutOps, StatusFor, Accepting
      <4> QED
        BY <3>1, <4>1
    <3>2. CASE Begin(w, "deliver", d, "SHIPPED", paper[d].lines, NoLines)
      <4>1. "deliver" \in OutOps /\ StatusFor("deliver") = "SHIPPED"
        BY DEF OutOps, StatusFor, Accepting
      <4> QED
        BY <3>2, <4>1
    <3>3. CASE Begin(w, "cancel_shipment", d, "SHIPPED", paper[d].lines, NoLines)
      <4>1. "cancel_shipment" \in OutOps /\ StatusFor("cancel_shipment") = "SHIPPED"
        BY DEF OutOps, StatusFor, Accepting
      <4> QED
        BY <3>3, <4>1
    <3> QED
      BY <1>6, <3>1, <3>2, <3>3 DEF BeginShipment
  <2>2. edits' = edits
    BY <1>6 DEF BeginShipment
  <2> QED
    BY <1>5, <2>1, <2>2, NoLinesIs, PlainBegins DEF Docs
<1>7. ASSUME NEW d \in Receipts, BeginAccept(w, d)
      PROVE  \E x : Begun(w, x)
  <2> DEFINE lines == paper[d].lines
  <2>1. PICK fact \in [DOMAIN lines -> Reports \cup {NoFact}] :
           Begin(w, "accept", d, "EXPECTED",
                 [k \in DOMAIN lines |-> Filled(lines[k], fact[k])], NoLines)
    BY <1>7 DEF BeginAccept
  <2> DEFINE after == [k \in DOMAIN lines |-> Filled(lines[k], fact[k])]
  <2>2. \A k \in DOMAIN lines : lines[k] \in Line /\ fact[k] \in Reports \cup {NoFact}
    BY <1>2, <1>3
  <2>3. after \in [DOMAIN lines -> Line] /\ \A k \in DOMAIN after : MakesOf("accept", lines[k], after[k])
    BY <2>2, FilledTyped
  <2>4. StatusFor("accept") = "EXPECTED" /\ "accept" \in Accepting /\ edits' = edits
    BY <1>7 DEF StatusFor, Accepting, BeginAccept
  <2> HIDE DEF after
  <2>5. Begin(w, "accept", d, StatusFor("accept"), after, NoLines)
    BY <2>1, <2>4 DEF after
  <2> QED
    BY <2>3, <2>4, <2>5, ChangingBegins
<1>8. ASSUME NEW d \in Receipts, BeginAcceptFf(w, d)
      PROVE  \E x : Begun(w, x)
  <2> DEFINE lines == paper[d].lines
  <2>1. PICK named \in SUBSET DOMAIN lines : \E fact, defect \in [named -> Reports] :
          Begin(w, "accept_ff", d, "EXPECTED",
                [k \in DOMAIN lines |->
                    IF k \in named THEN [lines[k] EXCEPT !.actual = fact[k], !.bad = defect[k]]
                    ELSE lines[k]],
                NoLines)
    BY <1>8 DEF BeginAcceptFf
  <2>10. PICK fact \in [named -> Reports], defect \in [named -> Reports] :
          Begin(w, "accept_ff", d, "EXPECTED",
                [k \in DOMAIN lines |->
                    IF k \in named THEN [lines[k] EXCEPT !.actual = fact[k], !.bad = defect[k]]
                    ELSE lines[k]],
                NoLines)
    BY <2>1
  <2> DEFINE after == [k \in DOMAIN lines |->
                    IF k \in named THEN [lines[k] EXCEPT !.actual = fact[k], !.bad = defect[k]]
                    ELSE lines[k]]
  <2>2. ASSUME NEW k \in DOMAIN lines
        PROVE  after[k] \in Line /\ after[k].sku = lines[k].sku /\ after[k].expected = lines[k].expected
    <3>1. lines[k] \in Line
      BY <1>2, <1>3
    <3>2. CASE k \in named
      <4>1. fact[k] \in 0..MaxQty /\ defect[k] \in 0..MaxQty
        BY <3>2, ReportsAssumption
      <4>2. after[k] = [lines[k] EXCEPT !.actual = fact[k], !.bad = defect[k]]
        BY <3>2
      <4> DEFINE l == lines[k]
                 n == fact[k]
                 m == defect[k]
      <4>3. l \in Line /\ n \in 0..MaxQty /\ m \in 0..MaxQty
            /\ after[k] = [l EXCEPT !.actual = n, !.bad = m]
        BY <3>1, <4>1, <4>2
      <4> HIDE DEF l, n, m, after
      <4>4. after[k] \in Line /\ after[k].sku = l.sku /\ after[k].expected = l.expected
        BY <4>3 DEF Line
      <4> QED
        BY <4>4 DEF l
    <3>3. CASE k \notin named
      BY <3>1, <3>3
    <3> QED
      BY <3>2, <3>3
  <2>3. DOMAIN after = DOMAIN lines
    OBVIOUS
  <2>4. after \in [DOMAIN lines -> Line]
    BY <2>2
  <2>5. StatusFor("accept_ff") = "EXPECTED" /\ "accept_ff" \in Accepting /\ edits' = edits
    BY <1>8 DEF StatusFor, Accepting, BeginAcceptFf
  <2> HIDE DEF after
  <2>6. \A k \in DOMAIN after : MakesOf("accept_ff", lines[k], after[k])
    BY <2>2, <2>3 DEF MakesOf, Accepting
  <2>7. Begin(w, "accept_ff", d, StatusFor("accept_ff"), after, NoLines)
    BY <2>10, <2>5 DEF after
  <2> QED
    BY <2>4, <2>5, <2>6, <2>7, ChangingBegins
<1>9. ASSUME NEW d \in Receipts, BeginCancelReceipt(w, d)
      PROVE  \E x : Begun(w, x)
  <2>1. /\ "cancel_receipt" \in OutOps \cup {"cancel_receipt", "edit_open"}
        /\ "cancel_receipt" \notin OutOps /\ StatusFor("cancel_receipt") = "ACCEPTED"
    BY DEF OutOps, StatusFor, Accepting
  <2>2. Begin(w, "cancel_receipt", d, "ACCEPTED", paper[d].lines, NoLines) /\ edits' = edits
    BY <1>9 DEF BeginCancelReceipt
  <2> QED
    BY <1>3, <1>5, <2>1, <2>2, NoLinesIs, PlainBegins
<1>10. ASSUME NEW d \in Receipts, BeginEditAccepted(w, d)
       PROVE  \E x : Begun(w, x)
  <2> DEFINE lines == paper[d].lines
  <2>1. PICK named \in SUBSET DOMAIN lines : \E actual \in [named -> Reports] :
          Begin(w, "edit_accepted", d, "ACCEPTED",
                [k \in DOMAIN lines |->
                    IF k \in named THEN [lines[k] EXCEPT !.actual = actual[k]]
                    ELSE lines[k]],
                NoLines)
    BY <1>10 DEF BeginEditAccepted
  <2>10. PICK actual \in [named -> Reports] :
          Begin(w, "edit_accepted", d, "ACCEPTED",
                [k \in DOMAIN lines |->
                    IF k \in named THEN [lines[k] EXCEPT !.actual = actual[k]]
                    ELSE lines[k]],
                NoLines)
    BY <2>1
  <2> DEFINE after == [k \in DOMAIN lines |->
                    IF k \in named THEN [lines[k] EXCEPT !.actual = actual[k]] ELSE lines[k]]
  <2>2. ASSUME NEW k \in DOMAIN lines
        PROVE  /\ after[k] \in Line /\ after[k].sku = lines[k].sku
               /\ after[k].expected = lines[k].expected /\ after[k].bad = lines[k].bad
    <3>1. lines[k] \in Line
      BY <1>2, <1>3
    <3>2. CASE k \in named
      <4>1. actual[k] \in 0..MaxQty
        BY <3>2, ReportsAssumption
      <4>2. after[k] = [lines[k] EXCEPT !.actual = actual[k]]
        BY <3>2
      <4>3. [lines[k] EXCEPT !.actual = actual[k]] \in Line
            /\ [lines[k] EXCEPT !.actual = actual[k]].sku = lines[k].sku
            /\ [lines[k] EXCEPT !.actual = actual[k]].expected = lines[k].expected
            /\ [lines[k] EXCEPT !.actual = actual[k]].bad = lines[k].bad
        BY <3>1, <4>1, AmountsTyped
      <4> HIDE DEF after
      <4> QED
        BY <4>2, <4>3
    <3>3. CASE k \notin named
      BY <3>1, <3>3
    <3> QED
      BY <3>2, <3>3
  <2>3. DOMAIN after = DOMAIN lines
    OBVIOUS
  <2>4. after \in [DOMAIN lines -> Line]
    BY <2>2
  <2>5. StatusFor("edit_accepted") = "ACCEPTED" /\ edits' \in 0..MaxEdits
    BY <1>4, <1>10 DEF StatusFor, Accepting, BeginEditAccepted
  <2> HIDE DEF after
  <2>6. \A k \in DOMAIN after : MakesOf("edit_accepted", lines[k], after[k])
    BY <2>2, <2>3 DEF MakesOf
  <2>7. Begin(w, "edit_accepted", d, StatusFor("edit_accepted"), after, NoLines)
    BY <2>10, <2>5 DEF after
  <2> QED
    BY <2>4, <2>5, <2>6, <2>7, ChangingBegins
<1>11. ASSUME NEW d \in Receipts, BeginEditOpen(w, d)
       PROVE  \E x : Begun(w, x)
  <2>1. PICK written \in SUBSET Places :
          \E sku \in [written -> SKUs], expected, actual \in [written -> Reports] :
          Begin(w, "edit_open", d, "EXPECTED", paper[d].lines,
                [k \in {edits + 1} \X written |->
                    [sku |-> sku[k[2]], expected |-> expected[k[2]],
                     actual |-> actual[k[2]], bad |-> 0]])
    BY <1>11 DEF BeginEditOpen
  <2>10. PICK sku \in [written -> SKUs], expected \in [written -> Reports],
             actual \in [written -> Reports] :
          Begin(w, "edit_open", d, "EXPECTED", paper[d].lines,
                [k \in {edits + 1} \X written |->
                    [sku |-> sku[k[2]], expected |-> expected[k[2]],
                     actual |-> actual[k[2]], bad |-> 0]])
    BY <2>1
  <2> DEFINE fresh == [k \in {edits + 1} \X written |->
                    [sku |-> sku[k[2]], expected |-> expected[k[2]],
                     actual |-> actual[k[2]], bad |-> 0]]
  <2>2. edits + 1 \in 0..MaxEdits /\ edits' = edits + 1
    BY <1>4, <1>11 DEF BeginEditOpen
  <2>3. {edits + 1} \X written \subseteq Keys
    BY <2>2 DEF Keys
  <2>4. \A k \in {edits + 1} \X written : fresh[k] \in Line /\ fresh[k].bad = 0
    <3> SUFFICES ASSUME NEW k \in {edits + 1} \X written
                 PROVE  fresh[k] \in Line /\ fresh[k].bad = 0
      OBVIOUS
    <3>1. k[2] \in written
      OBVIOUS
    <3>2. sku[k[2]] \in SKUs /\ expected[k[2]] \in Reports /\ actual[k[2]] \in Reports
      BY <3>1
    <3>3. 0 \in 0..MaxQty /\ Reports \subseteq 0..MaxQty
      BY ReportsAssumption, BoundsAssumption
    <3> QED
      BY <3>2, <3>3 DEF Line
  <2>5. DOMAIN fresh = {edits + 1} \X written
    OBVIOUS
  <2>6. fresh \in [{edits + 1} \X written -> Line]
    BY <2>4
  <2>7. Begin(w, "edit_open", d, "EXPECTED", paper[d].lines, fresh)
    BY <2>10
  <2> HIDE DEF fresh
  <2>8. fresh \in LineSet /\ \A k \in DOMAIN fresh : fresh[k].bad = 0
    BY <2>3, <2>4, <2>5, <2>6, LineSetIs
  <2>9. /\ "edit_open" \in OutOps \cup {"cancel_receipt", "edit_open"}
        /\ "edit_open" \notin OutOps /\ StatusFor("edit_open") = "EXPECTED"
    BY DEF OutOps, StatusFor, Accepting
  <2> QED
    BY <1>3, <2>2, <2>7, <2>8, <2>9, PlainBegins
<1> QED
  BY <1>6, <1>7, <1>8, <1>9, <1>10, <1>11 DEF Request

-----------------------------------------------------------------------------
(* A line is booked *)

\* A change on one balance of a pair.
LEMMA PairMoves ==
    ASSUME NEW f \in Nets, NEW part \in Balances, NEW n \in Int, NEW g \in Nets,
           g[part] = f[part] + n, \A p \in Balances \ {part} : g[p] = f[p]
    PROVE  g["quantity"] + g["defect"] = (f["quantity"] + f["defect"]) + n
<1>1. f["quantity"] \in Int /\ f["defect"] \in Int
  BY DEF Nets, Balances
<1>2. CASE part = "quantity"
  <2>1. g["quantity"] = f["quantity"] + n /\ g["defect"] = f["defect"]
    BY <1>2 DEF Balances
  <2> QED
    BY <1>1, <2>1
<1>3. CASE part = "defect"
  <2>1. g["quantity"] = f["quantity"] /\ g["defect"] = f["defect"] + n
    BY <1>3 DEF Balances
  <2> QED
    BY <1>1, <2>1
<1> QED
  BY <1>2, <1>3 DEF Balances

\* A balance with nothing left to book.
LEMMA PairDone ==
    ASSUME NEW f \in Nets, NEW part \in Balances, NEW g, g = [f EXCEPT ![part] = 0]
    PROVE  /\ g \in Nets /\ \A p \in Balances : g[p] \in {0, f[p]}
           /\ g["quantity"] + g["defect"] = (f["quantity"] + f["defect"]) - f[part]
<1>1. f["quantity"] \in Int /\ f["defect"] \in Int
  BY DEF Nets, Balances
<1>2. g \in Nets /\ \A p \in Balances : g[p] \in {0, f[p]}
  BY DEF Nets
<1>3. CASE part = "quantity"
  <2>1. g["quantity"] = 0 /\ g["defect"] = f["defect"]
    BY <1>3 DEF Nets, Balances
  <2> QED
    BY <1>1, <1>2, <1>3, <2>1
<1>4. CASE part = "defect"
  <2>1. g["quantity"] = f["quantity"] /\ g["defect"] = 0
    BY <1>4 DEF Nets, Balances
  <2> QED
    BY <1>1, <1>2, <1>4, <2>1
<1> QED
  BY <1>3, <1>4 DEF Balances

\* The session after a line is booked, field by field.
LEMMA BookedKeeps ==
    ASSUME NEW x, Whole(x), NEW k, NEW part, NEW new, NEW y, y = BookedLine(x, k, part, new)
    PROVE  /\ y.op = x.op /\ y.doc = x.doc /\ y.seen = x.seen /\ y.after = x.after
           /\ y.fresh = x.fresh /\ y.stage = x.stage /\ y.flushed = x.flushed
<1>1. x \in Work
  BY DEF Whole
<1> QED
  BY <1>1 DEF BookedLine, Work

\* The row once a balance of line k is booked.
Added(x, k, part) ==
    [Have(x, x.seen[k].sku) EXCEPT ![part] = @ + x.todo[k][part]]

LEMMA BookedWorks ==
    ASSUME NEW x, Working(x), row \in Rows, NEW k \in DOMAIN x.seen, NEW part \in Balances,
           EnoughFor(Added(x, k, part))
    PROVE  Working(BookedLine(x, k, part, Added(x, k, part)))
<1> DEFINE s    == x.seen[k].sku
           have == Have(x, s)
           n    == x.todo[k][part]
           new  == Added(x, k, part)
           y    == BookedLine(x, k, part, new)
           base == IF s \in x.read THEN x.base[s] ELSE row[s]
           left == [x.todo[k] EXCEPT ![part] = 0]
           todo == [x.todo EXCEPT ![k] = left]
<1> HIDE DEF s, have, n, new, y, base, left, todo
<1>1. Whole(x) /\ Makes(x) /\ Pending(x) /\ Untouched(x) /\ Progress(x)
  BY DEF Working
<1>2. /\ s \in SKUs /\ x.todo[k] \in Nets /\ n \in Int
      /\ x.own \in Rows /\ x.base \in Rows
  <2>1. x.seen[k] \in Line /\ x.todo[k] \in Nets /\ x.own \in Rows /\ x.base \in Rows
    BY <1>1, WholeIs
  <2> QED
    BY <2>1 DEF Nets, Line, s, n
<1>3. have \in [Balances -> Nat] /\ base \in [Balances -> Nat]
  BY <1>2 DEF Rows, Have, have, base
<1>4. /\ new \in [Balances -> Nat]
      /\ new["quantity"] + new["defect"] = (have["quantity"] + have["defect"]) + n
  <2>1. have \in Nets
    BY <1>3 DEF Nets
  <2>2. new = [have EXCEPT ![part] = have[part] + n]
    BY DEF new, have, n, s, Added
  <2>3. new \in Nets /\ new["quantity"] + new["defect"] = (have["quantity"] + have["defect"]) + n
    <3>1. n \in Int /\ have[part] \in Int
      BY <1>2, <1>3
    <3>2. /\ new \in Nets /\ new[part] = have[part] + n
          /\ \A p \in Balances \ {part} : new[p] = have[p]
      BY <2>1, <2>2, <3>1 DEF Nets
    <3> QED
      BY <2>1, <3>1, <3>2, PairMoves
  <2>4. \A p \in Balances : new[p] >= 0 /\ new[p] \in Int
    BY <2>3 DEF EnoughFor, Nets, new
  <2> QED
    BY <2>3, <2>4 DEF Nets
<1>5. /\ todo \in [DOMAIN x.seen -> Nets]
      /\ todo[k]["quantity"] + todo[k]["defect"] = (x.todo[k]["quantity"] + x.todo[k]["defect"]) - n
      /\ \A p \in Balances : todo[k][p] \in {0, x.todo[k][p]}
      /\ \A j \in DOMAIN x.seen : j # k => todo[j] = x.todo[j]
  <2>1. x.todo \in [DOMAIN x.seen -> Nets]
    BY <1>1, WholeIs
  <2>2. /\ left \in Nets /\ \A p \in Balances : left[p] \in {0, x.todo[k][p]}
        /\ left["quantity"] + left["defect"] = (x.todo[k]["quantity"] + x.todo[k]["defect"]) - n
    BY <1>2, PairDone DEF left, n
  <2>3. todo \in [DOMAIN x.seen -> Nets] /\ todo[k] = left
        /\ \A j \in DOMAIN x.seen : j # k => todo[j] = x.todo[j]
    BY <2>1, <2>2 DEF todo
  <2> QED
    BY <2>2, <2>3
<1>15. Whole(x)
  BY <1>1
<1>6. /\ y.op = x.op /\ y.doc = x.doc /\ y.seen = x.seen /\ y.after = x.after
      /\ y.fresh = x.fresh /\ y.stage = x.stage /\ y.flushed = x.flushed
  BY <1>15, BookedKeeps DEF y
<1>16. /\ y.read = x.read \cup {s} /\ y.todo = todo
       /\ y.base = [x.base EXCEPT ![s] = base] /\ y.own = [x.own EXCEPT ![s] = new]
  <2>1. x \in Work
    BY <1>15 DEF Whole
  <2>2. y.read = x.read \cup {s}
    BY <2>1 DEF y, s, BookedLine, Work
  <2>3. y.todo = todo
    BY <2>1 DEF y, todo, left, BookedLine, Work
  <2>4. y.base = [x.base EXCEPT ![s] = base]
    BY <2>1 DEF y, s, base, BookedLine, Work
  <2>5. y.own = [x.own EXCEPT ![s] = new]
    BY <2>1 DEF y, s, BookedLine, Work
  <2> QED
    BY <2>2, <2>3, <2>4, <2>5
<1>13. /\ new["quantity"] \in Int /\ new["defect"] \in Int
       /\ have["quantity"] \in Int /\ have["defect"] \in Int
       /\ base["quantity"] \in Int /\ base["defect"] \in Int
  BY <1>3, <1>4 DEF Balances
<1>14. /\ s \in x.read => have = x.own[s] /\ base = x.base[s]
       /\ s \notin x.read => have = base
  BY DEF Have, have, base
<1>7. /\ y.base \in Rows /\ y.own \in Rows
      /\ y.base[s] = base /\ y.own[s] = new
      /\ \A r \in SKUs \ {s} : y.base[r] = x.base[r] /\ y.own[r] = x.own[r]
  BY <1>2, <1>3, <1>4, <1>16 DEF Rows
<1>8. Whole(y)
  <2>1. x \in Work /\ (x.op \in OutOps <=> x.doc \in Shipments)
        /\ DOMAIN x.after = DOMAIN x.seen
    BY <1>1 DEF Whole
  <2>2. DOMAIN x.seen \subseteq Keys
    BY <1>1, WholeIs
  <2>3. todo \in UNION {[K -> Nets] : K \in SUBSET Keys} /\ DOMAIN todo = DOMAIN x.seen
    BY <1>5, <2>2
  <2>4. y \in Work
    <3>1. y \in
             [op : OutOps \cup InOps, doc : Docs, seen : LineSet, after : LineSet, fresh : LineSet,
              todo : {todo}, stage : {"lock", "book"},
              read : SUBSET SKUs, flushed : SUBSET SKUs, base : {y.base}, own : {y.own}]
      BY <1>2, <1>6, <1>16, <2>1 DEF BookedLine, Work, y, s
    <3> QED
      BY <1>7, <2>3, <3>1 DEF Work
  <2> QED
    BY <1>6, <1>16, <2>1, <2>3, <2>4 DEF Whole
<1>9. Makes(y)
  BY <1>1, <1>6, <1>16 DEF Makes
<1>10. Pending(y)
  <2>1. ASSUME NEW j \in DOMAIN y.seen, NEW p \in Balances
        PROVE  y.todo[j][p] \in {0, Change(y.op, y.doc, y.seen[j], y.after[j])[p]}
    <3>1. x.todo[j][p] \in {0, Change(x.op, x.doc, x.seen[j], x.after[j])[p]}
      BY <1>1, <1>6, <1>16 DEF Pending
    <3>2. y.todo[j][p] \in {0, x.todo[j][p]}
      BY <1>5, <1>6, <1>16
    <3> QED
      BY <1>6, <1>16, <3>1, <3>2
  <2> QED
    BY <2>1 DEF Pending
<1>11. Untouched(y)
  BY <1>1, <1>6, <1>16, <1>7 DEF Untouched
<1>12. Progress(y)
  <2>1. Signed(x.doc, n) \in Int
    BY <1>2, SignedIs
  <2>2. Stands(y, k) = Stands(x, k) + Signed(x.doc, n)
    <3> DEFINE a == x.todo[k]["quantity"] + x.todo[k]["defect"]
               g == GoalOf(x.op, x.seen[k], x.after[k])
    <3>1. a \in Int
      BY <1>2 DEF Nets, Balances
    <3>2. Stands(y, k) = g - Signed(x.doc, todo[k]["quantity"] + todo[k]["defect"])
      BY <1>6, <1>16 DEF Stands
    <3>3. todo[k]["quantity"] + todo[k]["defect"] = a - n
      BY <1>5
    <3> HIDE DEF a
    <3>4. Signed(x.doc, a - n) = Signed(x.doc, a) - Signed(x.doc, n) /\ Signed(x.doc, a) \in Int
      BY <1>2, <3>1, SignedIs
    <3>5. Stands(x, k) = g - Signed(x.doc, a) /\ g \in Nat
      BY <1>1, StandsTyped DEF Stands, a
    <3> HIDE DEF g
    <3> QED
      BY <2>1, <3>2, <3>3, <3>4, <3>5
  <2>3. \A j \in DOMAIN x.seen : j # k => Stands(y, j) = Stands(x, j)
    BY <1>5, <1>6, <1>16 DEF Stands
  <2>4. StartsOf(y) = StartsOf(x)
    BY <1>6, <1>16 DEF StartsOf
  <2>5. Moved(y, s) = Moved(x, s) + n
    <3>1. Moved(y, s) = new["quantity"] + new["defect"] - base["quantity"] - base["defect"]
      BY <1>7 DEF Moved
    <3>2. Moved(x, s) = have["quantity"] + have["defect"] - base["quantity"] - base["defect"]
      <4>1. CASE s \in x.read
        BY <1>14, <4>1 DEF Moved
      <4>2. CASE s \notin x.read
        <5>1. have = base /\ x.own[s] = x.base[s]
          BY <1>1, <1>2, <1>14, <4>2 DEF Untouched
        <5>2. x.base[s]["quantity"] \in Int /\ x.base[s]["defect"] \in Int
          BY <1>2 DEF Rows, Balances
        <5>3. Moved(x, s) = 0
          BY <5>1, <5>2 DEF Moved
        <5> QED
          BY <1>13, <5>1, <5>3
      <4> QED
        BY <4>1, <4>2
    <3> QED
      BY <1>2, <1>4, <1>13, <3>1, <3>2
  <2>6. \A r \in SKUs : r # s => Moved(y, r) = Moved(x, r)
    BY <1>7 DEF Moved
  <2>7. ASSUME NEW r \in SKUs
        PROVE  Signed(y.doc, Moved(y, r)) + Total(OfSku(y.seen, StartsOf(y), r))
                  = Total(OfSku(y.seen, StandsOf(y), r))
    <3> DEFINE D == DOMAIN x.seen
               f == OfSku(x.seen, StandsOf(x), r)
               g == OfSku(x.seen, StandsOf(y), r)
               b == Total(OfSku(x.seen, StartsOf(x), r))
    <3>1. f \in [D -> Nat] /\ Total(f) \in Nat /\ b \in Nat /\ IsFiniteSet(D)
      BY <1>1, SharesTyped, WholeIs
    <3>2. g \in [D -> Nat]
      <4>1. Whole(y) /\ Makes(y) /\ Pending(y)
        BY <1>8, <1>9, <1>10
      <4>2. OfSku(y.seen, StandsOf(y), r) \in [DOMAIN y.seen -> Nat]
        BY <4>1, SharesTyped
      <4> QED
        BY <1>6, <1>16, <4>2
    <3>3. Signed(x.doc, Moved(x, r)) + b = Total(f)
      BY <1>1 DEF Progress
    <3>4. Moved(x, r) \in Int /\ Signed(x.doc, Moved(x, r)) \in Int
      <4>1. /\ x.own[r]["quantity"] \in Int /\ x.own[r]["defect"] \in Int
            /\ x.base[r]["quantity"] \in Int /\ x.base[r]["defect"] \in Int
        BY <1>2 DEF Rows, Balances
      <4>2. Moved(x, r) \in Int
        BY <4>1 DEF Moved
      <4> QED
        BY <4>2, SignedIs
    <3>5. \A j \in D : j # k => g[j] = f[j]
      BY <2>3, <1>6, <1>16 DEF OfSku, StandsOf
    <3>6. g[k] = (IF s = r THEN Stands(y, k) ELSE 0) /\ f[k] = (IF s = r THEN Stands(x, k) ELSE 0)
      BY <1>6, <1>16 DEF OfSku, StandsOf, s
    <3>7. Stands(x, k) \in Nat
      BY <1>1, StandsTyped
    <3> HIDE DEF f, g, b
    <3>8. Total(g) = Total(f) + g[k] - f[k]
      BY <3>1, <3>2, <3>5, TotalMoves
    <3>9. CASE r = s
      <4>1. Total(g) = Total(f) + Signed(x.doc, n)
        BY <2>1, <2>2, <3>1, <3>6, <3>7, <3>8, <3>9
      <4>2. Signed(x.doc, Moved(y, r)) = Signed(x.doc, Moved(x, r)) + Signed(x.doc, n)
        <5>1. \A m \in Int : Signed(x.doc, m + n) = Signed(x.doc, m) + Signed(x.doc, n)
          BY <1>2, SignedIs
        <5>2. Moved(y, r) = Moved(x, r) + n
          BY <2>5, <3>9
        <5> QED
          BY <3>4, <5>1, <5>2
      <4>3. Signed(x.doc, Moved(y, r)) + b = Total(g)
        BY <2>1, <3>1, <3>3, <3>4, <4>1, <4>2
      <4> QED
        BY <1>6, <1>16, <2>4, <4>3 DEF g, b
    <3>10. CASE r # s
      <4>1. Total(g) = Total(f)
        BY <3>1, <3>6, <3>8, <3>10
      <4>2. Signed(x.doc, Moved(y, r)) + b = Total(g)
        BY <2>6, <3>3, <3>10, <4>1
      <4> QED
        BY <1>6, <1>16, <2>4, <4>2 DEF g, b
    <3> QED
      BY <3>9, <3>10
  <2> QED
    BY <2>7 DEF Progress
<1> QED
  BY <1>8, <1>9, <1>10, <1>11, <1>12 DEF Working, y, new

-----------------------------------------------------------------------------
(* The types *)

\* A handler that goes on with the same document and rows.
LEMMA SameWork ==
    ASSUME NEW x, Working(x), NEW y \in Work,
           y.op = x.op, y.doc = x.doc, y.seen = x.seen, y.after = x.after, y.fresh = x.fresh,
           y.todo = x.todo, y.read = x.read, y.base = x.base, y.own = x.own
    PROVE  Working(y)
<1>1. Whole(x) /\ Makes(x) /\ Pending(x) /\ Untouched(x) /\ Progress(x)
  BY DEF Working
<1>2. Whole(y)
  BY <1>1 DEF Whole
<1>3. Makes(y) /\ Pending(y) /\ Untouched(y)
  BY <1>1 DEF Makes, Pending, Untouched
<1>4. StartsOf(y) = StartsOf(x) /\ StandsOf(y) = StandsOf(x)
  BY DEF StartsOf, StandsOf, Stands
<1>5. Progress(y)
  BY <1>1, <1>4 DEF Progress, Moved
<1> QED
  BY <1>2, <1>3, <1>5 DEF Working

LEMMA BusyIs ==
    ASSUME AtWork, NEW w \in Sessions
    PROVE  /\ Busy(w) => Working(session[w]) /\ Whole(session[w])
           /\ ~Busy(w) <=> session[w] = NoWork
<1>1. session[w] = NoWork \/ Working(session[w])
  BY DEF AtWork
<1>2. Working(session[w]) => Whole(session[w]) /\ session[w].op # "none"
  BY WholeIs DEF Working, OutOps, InOps
<1>3. NoWork.op = "none"
  BY DEF NoWork
<1> QED
  BY <1>1, <1>2, <1>3 DEF Busy

\* One session changes.
LEMMA OthersKeep ==
    ASSUME AtWork, NEW w \in Sessions, NEW x, session' = [session EXCEPT ![w] = x]
    PROVE  /\ DOMAIN session' = Sessions /\ session'[w] = x
           /\ \A v \in Sessions \ {w} : /\ session'[v] = session[v]
                                       /\ LockedDoc(v)' = LockedDoc(v)
                                       /\ Busy(v)' = Busy(v)
           /\ x = NoWork \/ Working(x) => AtWork'
<1>1. /\ DOMAIN session' = Sessions /\ session'[w] = x
      /\ \A v \in Sessions \ {w} : session'[v] = session[v]
  BY DEF AtWork
<1>2. \A v \in Sessions \ {w} : LockedDoc(v)' = LockedDoc(v) /\ Busy(v)' = Busy(v)
  BY <1>1 DEF LockedDoc, Busy
<1>3. x = NoWork \/ Working(x) => AtWork'
  BY <1>1 DEF AtWork
<1> QED
  BY <1>1, <1>2, <1>3

\* What a handler's read or update leaves.
LEMMA WorkGoesOn ==
    ASSUME Typed, NEW w \in Sessions, Book(w) \/ Flush(w)
    PROVE  \E x : /\ session' = [session EXCEPT ![w] = x]
                  /\ UNCHANGED <<row, journal, paper, booked, edits>>
                  /\ \/ x = NoWork
                     \/ /\ Working(x) /\ x.op = session[w].op /\ x.doc = session[w].doc
                        /\ x.seen = session[w].seen /\ x.stage = session[w].stage
<1>1. Busy(w)
  BY DEF Book, Flush
<1>2. Working(session[w]) /\ Whole(session[w])
  BY <1>1, BusyIs DEF Typed
<1>3. CASE Book(w)
  <2>1. PICK k \in DOMAIN session[w].todo, part \in Balances :
          LET x   == session[w]
              new == [Have(x, x.seen[k].sku) EXCEPT ![part] = @ + x.todo[k][part]]
          IN  /\ x.todo[k][part] # 0
              /\ session' = [session EXCEPT ![w] =
                               IF EnoughFor(new) THEN BookedLine(x, k, part, new) ELSE NoWork]
    BY <1>3, Zenon DEF Book
  <2> DEFINE new == Added(session[w], k, part)
             y   == BookedLine(session[w], k, part, new)
  <2>2. session' = [session EXCEPT ![w] = IF EnoughFor(new) THEN y ELSE NoWork]
    BY <2>1, Zenon DEF Added
  <2>3. UNCHANGED <<row, journal, paper, booked, edits>>
    BY <1>3 DEF Book
  <2>4. k \in DOMAIN session[w].seen /\ row \in Rows
    BY <1>2 DEF Whole, Typed, Books
  <2>5. y.op = session[w].op /\ y.doc = session[w].doc
        /\ y.seen = session[w].seen /\ y.stage = session[w].stage
    BY <1>2, BookedKeeps
  <2>6. EnoughFor(new) => Working(y)
    BY <1>2, <2>4, BookedWorks
  <2> HIDE DEF y, new
  <2>7. CASE EnoughFor(new)
    BY <2>2, <2>3, <2>5, <2>6, <2>7
  <2>8. CASE ~EnoughFor(new)
    BY <2>2, <2>3, <2>8
  <2> QED
    BY <2>7, <2>8
<1>4. CASE Flush(w)
  <2>1. PICK s \in session[w].read \ session[w].flushed :
           session' = [session EXCEPT ![w].flushed = @ \cup {s}]
    BY <1>4 DEF Flush
  <2> DEFINE y == [session[w] EXCEPT !.flushed = @ \cup {s}]
  <2>2. session' = [session EXCEPT ![w] = y]
    BY <2>1
  <2>3. session[w] \in Work /\ s \in SKUs
    BY <1>2 DEF Whole, Work
  <2>4. /\ y.op = session[w].op /\ y.doc = session[w].doc /\ y.seen = session[w].seen
        /\ y.after = session[w].after /\ y.fresh = session[w].fresh
        /\ y.todo = session[w].todo /\ y.stage = session[w].stage /\ y.read = session[w].read
        /\ y.base = session[w].base /\ y.own = session[w].own /\ y \in Work
    BY <2>3 DEF Work
  <2> HIDE DEF y
  <2>5. Working(y)
    BY <1>2, <2>4, SameWork
  <2>6. UNCHANGED <<row, journal, paper, booked, edits>>
    BY <1>4 DEF Flush
  <2> QED
    BY <2>2, <2>4, <2>5, <2>6
<1> QED
  BY <1>3, <1>4

\* What the lock leaves: the handler with the receipt, or nothing.
LEMMA LockLeaves ==
    ASSUME Typed, NEW w \in Sessions, LockReceipt(w)
    PROVE  \E x : /\ session' = [session EXCEPT ![w] = x]
                  /\ UNCHANGED <<row, journal, paper, booked, edits>>
                  /\ \/ x = NoWork
                     \/ /\ Working(x) /\ x.op = session[w].op /\ x.doc = session[w].doc
                        /\ x.seen = session[w].seen /\ StillOpen(x.doc)
<1>1. Working(session[w]) /\ session[w] \in Work
  BY BusyIs DEF Typed, LockReceipt, Whole
<1> DEFINE y == [session[w] EXCEPT !.stage = "book"]
<1>2. UNCHANGED <<row, journal, paper, booked, edits>>
  BY DEF LockReceipt
<1>3. CASE StillOpen(session[w].doc)
  <2>1. session' = [session EXCEPT ![w] = y]
    BY <1>3 DEF LockReceipt
  <2>2. /\ y.op = session[w].op /\ y.doc = session[w].doc /\ y.seen = session[w].seen
        /\ y.after = session[w].after /\ y.fresh = session[w].fresh
        /\ y.todo = session[w].todo /\ y.read = session[w].read
        /\ y.base = session[w].base /\ y.own = session[w].own /\ y \in Work
    BY <1>1 DEF Work
  <2> HIDE DEF y
  <2>3. Working(y)
    BY <1>1, <2>2, SameWork
  <2> QED
    BY <1>2, <1>3, <2>1, <2>2, <2>3
<1>4. CASE ~StillOpen(session[w].doc)
  <2>1. session' = [session EXCEPT ![w] = NoWork]
    BY <1>4 DEF LockReceipt
  <2> QED
    BY <1>2, <2>1
<1> QED
  BY <1>3, <1>4

LEMMA UpdatedTyped ==
    ASSUME NEW x, Whole(x), NEW k, NEW l \in Line
    PROVE  Updated(x, k, l) \in Line
<1>1. CASE k \notin DOMAIN x.seen
  BY <1>1 DEF Updated
<1>2. CASE k \in DOMAIN x.seen
  <2> DEFINE n == Literal(x.seen[k].actual, x.after[k].actual, l.actual)
             m == Literal(x.seen[k].bad, x.after[k].bad, l.bad)
  <2>1. x.after[k] \in Line
    BY <1>2, WholeIs
  <2>2. n \in 0..MaxQty /\ m \in 0..MaxQty
    BY <2>1 DEF Literal, Line
  <2>3. Updated(x, k, l) = [l EXCEPT !.actual = n, !.bad = m]
    BY <1>2 DEF Updated
  <2> HIDE DEF n, m
  <2> QED
    BY <2>2, <2>3 DEF Line
<1> QED
  BY <1>1, <1>2

LEMMA LinesAfterTyped ==
    ASSUME NEW x, Whole(x), NEW lines \in LineSet
    PROVE  LinesAfter(x, lines) \in LineSet
<1>1. DOMAIN lines \subseteq Keys /\ lines \in [DOMAIN lines -> Line]
  BY LineSetIs
<1>2. CASE x.op = "edit_open"
  <2> DEFINE K == (DOMAIN lines \ DOMAIN x.seen) \cup DOMAIN x.fresh
             f == [k \in K |-> IF k \in DOMAIN x.fresh THEN x.fresh[k] ELSE lines[k]]
  <2>1. x.fresh \in LineSet
    BY DEF Whole, Work
  <2>2. DOMAIN x.fresh \subseteq Keys /\ x.fresh \in [DOMAIN x.fresh -> Line]
    BY <2>1, LineSetIs
  <2>3. DOMAIN f \subseteq Keys /\ f \in [DOMAIN f -> Line]
    BY <1>1, <2>2
  <2>4. LinesAfter(x, lines) = f
    BY <1>2 DEF LinesAfter
  <2> HIDE DEF f
  <2> QED
    BY <2>3, <2>4, LineSetIs
<1>3. CASE x.op # "edit_open"
  <2> DEFINE f == [k \in DOMAIN lines |-> Updated(x, k, lines[k])]
  <2>1. \A k \in DOMAIN lines : Updated(x, k, lines[k]) \in Line
    BY <1>1, UpdatedTyped
  <2>2. DOMAIN f \subseteq Keys /\ f \in [DOMAIN f -> Line]
    BY <1>1, <2>1
  <2>3. LinesAfter(x, lines) = f
    BY <1>3 DEF LinesAfter
  <2> HIDE DEF f
  <2> QED
    BY <2>2, <2>3, LineSetIs
<1> QED
  BY <1>2, <1>3

\* What a commit leaves, of any document.
LEMMA CommitIs ==
    ASSUME Typed, NEW w \in Sessions, Commit(w), NEW x, x = session[w], NEW d, d = x.doc
    PROVE  /\ d \in Docs /\ Working(x) /\ Whole(x) /\ AllBooked(x)
           /\ session' = [session EXCEPT ![w] = NoWork]
           /\ paper'[d].status = StatusAfter(x.op, paper[d].status)
           /\ paper'[d].lines = LinesAfter(x, paper[d].lines)
           /\ \A e \in Docs \ {d} : paper'[e] = paper[e] /\ journal'[e] = journal[e]
           /\ \A s \in SKUs, part \in Balances :
                 journal'[d][s][part] = journal[d][s][part] + x.own[s][part] - x.base[s][part]
           /\ Typed'
<1>1. Books /\ Papers /\ AtWork /\ Busy(w)
  BY DEF Typed, Commit
<1>2. Working(x) /\ Whole(x)
  BY <1>1, BusyIs
<1>3. d \in Docs /\ x.own \in Rows /\ x.base \in Rows /\ x.op \in OutOps \cup InOps
      /\ (x.op \in OutOps <=> d \in Shipments)
  BY <1>2, WholeIs
<1>4. AllBooked(x) /\ session' = [session EXCEPT ![w] = NoWork]
  BY DEF Commit
<1> DEFINE p == [status |-> StatusAfter(x.op, paper[d].status),
                 lines  |-> LinesAfter(x, paper[d].lines)]
<1>5. paper' = [paper EXCEPT ![d] = p]
  BY DEF Commit
<1>6. p.status = StatusAfter(x.op, paper[d].status) /\ p.lines = LinesAfter(x, paper[d].lines)
  OBVIOUS
<1>7. paper[d] \in [status : OutboundStatus \cup InboundStatus, lines : LineSet]
      /\ paper[d].status \in IF d \in Shipments THEN OutboundStatus ELSE InboundStatus
  BY <1>1, <1>3 DEF Papers
<1>8. p.lines \in LineSet
  BY <1>2, <1>7, LinesAfterTyped
<1>9. p.status \in IF d \in Shipments THEN OutboundStatus ELSE InboundStatus
  <2>1. CASE d \in Shipments
    <3>1. x.op \in OutOps
      BY <1>3, <2>1
    <3> QED
      BY <1>6, <1>7, <2>1, <3>1 DEF StatusAfter, OutOps, OutboundStatus, Accepting
  <2>2. CASE d \notin Shipments
    <3>1. x.op \in InOps
      BY <1>3, <2>2
    <3> QED
      BY <1>6, <1>7, <2>2, <3>1 DEF StatusAfter, InOps, InboundStatus, Accepting
  <2> QED
    BY <2>1, <2>2
<1>10. p \in [status : OutboundStatus \cup InboundStatus, lines : LineSet]
  BY <1>8, <1>9
<1> HIDE DEF p
<1>11. /\ Papers' /\ paper'[d] = p
       /\ \A e \in Docs \ {d} : paper'[e] = paper[e]
  <2>1. paper' \in [Docs -> [status : OutboundStatus \cup InboundStatus, lines : LineSet]]
        /\ paper'[d] = p /\ \A e \in Docs \ {d} : paper'[e] = paper[e]
    BY <1>1, <1>3, <1>5, <1>10 DEF Papers
  <2> QED
    BY <1>1, <1>9, <2>1 DEF Papers
<1>12. \A s \in SKUs, part \in Balances :
          journal[d][s][part] \in Int /\ x.own[s][part] \in Nat /\ x.base[s][part] \in Nat
  BY <1>1, <1>3 DEF Books, Rows, Nets
<1>13. \A s \in SKUs : JournalAfter(x, s, journal[d][s]) \in Nets
  BY <1>12 DEF JournalAfter, Nets
<1> DEFINE j == [s \in SKUs |-> JournalAfter(x, s, journal[d][s])]
<1>14. journal' = [journal EXCEPT ![d] = j]
  BY DEF Commit
<1>15. j \in [SKUs -> Nets]
       /\ \A s \in SKUs, part \in Balances :
             j[s][part] = journal[d][s][part] + x.own[s][part] - x.base[s][part]
  BY <1>13 DEF JournalAfter
<1> HIDE DEF j
<1>16. /\ journal' \in [Docs -> [SKUs -> Nets]] /\ journal'[d] = j
       /\ \A e \in Docs \ {d} : journal'[e] = journal[e]
  BY <1>1, <1>3, <1>14, <1>15 DEF Books
<1>17. row' \in Rows
  <2>1. row' = [s \in SKUs |-> IF s \in x.read THEN RowAfter(x, s) ELSE row[s]]
    BY DEF Commit
  <2>2. \A s \in SKUs : row[s] \in [Balances -> Nat]
    BY <1>1 DEF Books, Rows
  <2>3. \A s \in SKUs, part \in Balances :
           Literal(x.base[s][part], x.own[s][part], row[s][part]) \in Nat
    BY <1>12, <2>2 DEF Literal
  <2>4. \A s \in SKUs : RowAfter(x, s) \in [Balances -> Nat]
    BY <2>3 DEF RowAfter
  <2> QED
    BY <2>1, <2>2, <2>4 DEF Rows
<1>18. booked' \in [Docs -> [on : Nat, off : Nat]]
  <2> DEFINE n == IF x.op \in {"ship"} \cup Accepting THEN 1 ELSE 0
             m == IF x.op \in {"cancel_shipment", "cancel_receipt"} THEN 1 ELSE 0
  <2>1. booked' = [booked EXCEPT ![d] = [on |-> booked[d].on + n, off |-> booked[d].off + m]]
    BY DEF Commit
  <2>2. booked \in [Docs -> [on : Nat, off : Nat]] /\ n \in Nat /\ m \in Nat
    BY <1>1 DEF Books
  <2> HIDE DEF n, m
  <2>3. booked[d].on + n \in Nat /\ booked[d].off + m \in Nat
    BY <1>3, <2>2
  <2> QED
    BY <1>3, <2>1, <2>2, <2>3
<1>19. edits' \in 0..MaxEdits
  BY <1>1 DEF Books, Commit
<1>20. Books'
  BY <1>16, <1>17, <1>18, <1>19 DEF Books
<1>21. AtWork'
  BY <1>1, <1>4, OthersKeep
<1> QED
  BY <1>2, <1>3, <1>4, <1>6, <1>11, <1>15, <1>16, <1>20, <1>21 DEF Typed

\* A step that changes no book and one session.
LEMMA KeepsTyped ==
    ASSUME Typed, NEW w \in Sessions, NEW x, session' = [session EXCEPT ![w] = x],
           x = NoWork \/ Working(x), UNCHANGED <<row, journal, paper, booked>>,
           edits' \in 0..MaxEdits
    PROVE  Typed'
<1>1. AtWork'
  BY OthersKeep DEF Typed
<1>2. Books' /\ Papers'
  BY DEF Typed, Books, Papers
<1> QED
  BY <1>1, <1>2 DEF Typed

\* What a document holds in all is a number.
LEMMA UnitsTyped ==
    ASSUME NEW lines \in LineSet, NEW s
    PROVE  UnitsOf(lines, s) \in Nat
<1> DEFINE f == [k \in DOMAIN lines |-> IF lines[k].sku = s THEN Units(lines[k]) ELSE 0]
<1>1. IsFiniteSet(DOMAIN lines) /\ \A k \in DOMAIN lines : lines[k] \in Line
  BY LineSetIs
<1>2. f \in [DOMAIN lines -> Nat]
  BY <1>1, LineTyped
<1>3. UnitsOf(lines, s) = Total(f)
  BY DEF UnitsOf
<1> HIDE DEF f
<1> QED
  BY <1>1, <1>2, <1>3, TotalTyped

LEMMA StartLinesTyped == \A d \in Docs : StartLines[d] \in LineSet
<1> SUFFICES ASSUME NEW d \in Docs PROVE StartLines[d] \in LineSet
  OBVIOUS
<1>1. DOMAIN StartLines[d] \subseteq {0} \X Places /\ StartLines[d] \in [DOMAIN StartLines[d] -> Line]
  BY LinesAssumption
<1>2. {0} \X Places \subseteq Keys
  BY BoundsAssumption DEF Keys
<1> QED
  BY <1>1, <1>2, LineSetIs

\* A write-off's movements at the start.
LEMMA StartJournalIs ==
    ASSUME NEW d \in Docs, NEW s \in SKUs, NEW n, n = StartJournal(d, s)
    PROVE  /\ n \in Nets
           /\ n["quantity"] + n["defect"] = IF WrittenOff(d) THEN -UnitsOf(StartLines[d], s) ELSE 0
<1>1. UnitsOf(StartLines[d], s) \in Nat
  BY StartLinesTyped, UnitsTyped
<1>2. CASE WrittenOff(d)
  <2>1. n = OneSide("defect", -UnitsOf(StartLines[d], s)) /\ -UnitsOf(StartLines[d], s) \in Int
    BY <1>1, <1>2 DEF StartJournal
  <2>2. "defect" \in Balances
    BY DEF Balances
  <2> QED
    BY <1>2, <2>1, <2>2, OneSideIs
<1>3. CASE ~WrittenOff(d)
  BY <1>3, ZeroIs DEF StartJournal
<1> QED
  BY <1>2, <1>3

LEMMA TypedAtFirst == Init => Typed
<1> SUFFICES ASSUME Init PROVE Typed
  OBVIOUS
<1>1. row \in Rows
  BY OpeningAssumption DEF Init, Rows
<1>2. journal \in [Docs -> [SKUs -> Nets]]
  BY StartJournalIs DEF Init
<1>3. booked \in [Docs -> [on : Nat, off : Nat]] /\ edits \in 0..MaxEdits
  BY BoundsAssumption DEF Init
<1>4. Papers
  <2> DEFINE status(d) == IF d \in Receipts THEN "EXPECTED"
                          ELSE IF WrittenOff(d) THEN "SHIPPED" ELSE "DRAFT"
  <2>1. \A d \in Docs : status(d) \in IF d \in Shipments THEN OutboundStatus ELSE InboundStatus
    BY DocsAssumption DEF Docs, OutboundStatus, InboundStatus, WrittenOff
  <2>2. paper = [d \in Docs |-> [status |-> status(d), lines |-> StartLines[d]]]
    BY DEF Init
  <2> HIDE DEF status
  <2>3. \A d \in Docs : status(d) \in OutboundStatus \cup InboundStatus
    BY <2>1
  <2> QED
    BY <2>1, <2>2, <2>3, StartLinesTyped DEF Papers
<1>5. AtWork
  BY DEF Init, AtWork
<1> QED
  BY <1>1, <1>2, <1>3, <1>4, <1>5 DEF Typed, Books

LEMMA TypedAlways == Spec => []Typed
<1>1. Typed /\ [Next]_vars => Typed'
  <2> SUFFICES ASSUME Typed, [Next]_vars PROVE Typed'
    OBVIOUS
  <2>1. ASSUME NEW w \in Sessions, Request(w) PROVE Typed'
    <3>1. PICK x : Begun(w, x)
      BY <2>1, RequestBegins DEF Typed, Books
    <3> QED
      BY <3>1, KeepsTyped DEF Begun
  <2>2. ASSUME NEW w \in Sessions, LockReceipt(w) PROVE Typed'
    <3>1. PICK x : /\ session' = [session EXCEPT ![w] = x]
                   /\ UNCHANGED <<row, journal, paper, booked, edits>>
                   /\ x = NoWork \/ Working(x)
      BY <2>2, LockLeaves
    <3> QED
      BY <3>1, KeepsTyped DEF Typed, Books
  <2>3. ASSUME NEW w \in Sessions, Book(w) \/ Flush(w) PROVE Typed'
    <3>1. PICK x : /\ session' = [session EXCEPT ![w] = x]
                   /\ UNCHANGED <<row, journal, paper, booked, edits>>
                   /\ x = NoWork \/ Working(x)
      BY <2>3, WorkGoesOn
    <3> QED
      BY <3>1, KeepsTyped DEF Typed, Books
  <2>4. ASSUME NEW w \in Sessions, Commit(w) PROVE Typed'
    BY <2>4, CommitIs
  <2>5. ASSUME NEW w \in Sessions, Fail(w) \/ Victim(w) PROVE Typed'
    <3>1. /\ session' = [session EXCEPT ![w] = NoWork]
          /\ UNCHANGED <<row, journal, paper, booked, edits>>
      BY <2>5 DEF Fail, Victim, Rollback
    <3> QED
      BY <3>1, KeepsTyped DEF Typed, Books
  <2>6. CASE UNCHANGED vars
    BY <2>6 DEF vars, Typed, Books, Papers, AtWork
  <2> QED
    BY <2>1, <2>2, <2>3, <2>4, <2>5, <2>6 DEF Next
<1> QED
  BY <1>1, TypedAtFirst, PTL DEF Spec

\* Whatever handlers overlap, and whichever of them fail or are rolled back by
\* the database, no balance of a row is ever negative, and documents keep to the
\* statuses and the lines of their kind.
THEOREM TypeCorrect == Spec => []TypeOK
<1>1. Typed => TypeOK
  BY DEF Typed, Books, Papers, Rows, Nets, TypeOK
<1> QED
  BY <1>1, TypedAlways, PTL

-----------------------------------------------------------------------------
(* A receipt is booked once *)

\* The row lock of a receipt has one holder.
OneHolder ==
    \A v, w \in Sessions : v # w => LockedDoc(v) \cap LockedDoc(w) = {}

\* A session that holds it has seen, under the lock, that nothing is booked yet.
NotYetBooked ==
    \A w \in Sessions : \A d \in LockedDoc(w) : booked[d].on = 0

OnceInv == Typed /\ OneHolder /\ NotYetBooked /\ ReceiptBookedOnce

\* A step that books nothing and takes no receipt.
LEMMA QuietStep ==
    ASSUME OnceInv, Typed', NEW w \in Sessions, NEW x, session' = [session EXCEPT ![w] = x],
           booked' = booked, LockedDoc(w)' \subseteq LockedDoc(w)
    PROVE  OnceInv'
<1>1. \A v \in Sessions : LockedDoc(v)' \subseteq LockedDoc(v)
  BY OthersKeep DEF OnceInv, Typed
<1>2. OneHolder' /\ NotYetBooked' /\ ReceiptBookedOnce'
  BY <1>1 DEF OnceInv, OneHolder, NotYetBooked, ReceiptBookedOnce
<1> QED
  BY <1>2 DEF OnceInv

\* The lock is taken when it is free and nothing is booked; otherwise the
\* handler ends.
LEMMA LockStep ==
    ASSUME OnceInv, Typed', NEW w \in Sessions, LockReceipt(w)
    PROVE  OnceInv'
<1>1. PICK x : /\ session' = [session EXCEPT ![w] = x]
               /\ UNCHANGED <<row, journal, paper, booked, edits>>
               /\ \/ x = NoWork
                  \/ /\ Working(x) /\ x.op = session[w].op /\ x.doc = session[w].doc
                     /\ x.seen = session[w].seen /\ StillOpen(x.doc)
  BY LockLeaves DEF OnceInv
<1>2. AtWork /\ session'[w] = x
  BY <1>1, OthersKeep DEF OnceInv, Typed
<1>3. CASE x = NoWork
  <2>1. LockedDoc(w)' = {}
    BY <1>2, <1>3 DEF LockedDoc, Busy, NoWork
  <2> QED
    BY <1>1, <2>1, QuietStep
<1>4. CASE Working(x) /\ x.doc = session[w].doc /\ StillOpen(x.doc)
  <2> DEFINE d == x.doc
  <2>1. LockedDoc(w)' \subseteq {d} /\ booked[d].on = 0 /\ DocFree(w, d)
    BY <1>2, <1>4 DEF LockedDoc, LockReceipt, StillOpen
  <2>2. \A v \in Sessions \ {w} : LockedDoc(v)' = LockedDoc(v) /\ d \notin LockedDoc(v)
    BY <1>1, <1>2, <2>1, OthersKeep DEF DocFree
  <2> HIDE DEF d
  <2>3. OneHolder'
    BY <2>1, <2>2 DEF OnceInv, OneHolder
  <2>4. NotYetBooked' /\ ReceiptBookedOnce'
    BY <1>1, <2>1, <2>2 DEF OnceInv, NotYetBooked, ReceiptBookedOnce
  <2> QED
    BY <2>3, <2>4 DEF OnceInv
<1> QED
  BY <1>1, <1>3, <1>4

\* A commit that books a receipt is the holder's, and the first.
LEMMA CommitStep ==
    ASSUME OnceInv, Typed', NEW w \in Sessions, Commit(w)
    PROVE  OnceInv'
<1> DEFINE d == session[w].doc
           op == session[w].op
           n == IF op \in {"ship"} \cup Accepting THEN 1 ELSE 0
           m == IF op \in {"cancel_shipment", "cancel_receipt"} THEN 1 ELSE 0
<1>1. /\ d \in Docs /\ (op \in OutOps <=> d \in Shipments)
      /\ session' = [session EXCEPT ![w] = NoWork]
  BY CommitIs, WholeIs DEF OnceInv
<1>2. AtWork /\ booked \in [Docs -> [on : Nat, off : Nat]]
  BY DEF OnceInv, Typed, Books
<1>3. LockedDoc(w)' = {}
  BY <1>1, <1>2, OthersKeep DEF LockedDoc, Busy, NoWork
<1>4. \A v \in Sessions \ {w} : LockedDoc(v)' = LockedDoc(v)
  BY <1>1, <1>2, OthersKeep
<1>5. booked' = [booked EXCEPT ![d] = [on |-> booked[d].on + n, off |-> booked[d].off + m]]
  BY DEF Commit
<1>6. booked'[d].on = booked[d].on + n /\ \A e \in Docs \ {d} : booked'[e] = booked[e]
  <2> HIDE DEF d, n, m
  <2> QED
    BY <1>1, <1>2, <1>5
<1>8. ASSUME d \in Receipts, n = 1
      PROVE  d \in LockedDoc(w)
  <2>1. op \in Accepting
    BY <1>1, <1>8, DocsAssumption DEF OutOps
  <2> QED
    BY <2>1 DEF LockedDoc, Commit
<1>9. OneHolder'
  BY <1>3, <1>4 DEF OnceInv, OneHolder
<1>10. ASSUME NEW v \in Sessions \ {w}, NEW e \in LockedDoc(v)
       PROVE  booked'[e].on = 0
  <2>1. e \in Docs /\ booked[e].on = 0
    <3>1. Busy(v) /\ e = session[v].doc
      BY <1>10 DEF LockedDoc
    <3> QED
      BY <1>2, <3>1, BusyIs, WholeIs DEF OnceInv, NotYetBooked
  <2>2. CASE e = d
    <3>1. d \notin LockedDoc(w)
      BY <1>10, <2>2 DEF OnceInv, OneHolder
    <3>2. session[v].op \in Accepting /\ e = session[v].doc
      BY <1>10 DEF LockedDoc
    <3>3. Whole(session[v])
      BY <1>2, <1>10, BusyIs DEF LockedDoc
    <3>4. e \notin Shipments
      BY <3>2, <3>3, WholeIs DEF Accepting, OutOps
    <3>5. n = 0
      BY <1>8, <2>1, <2>2, <3>1, <3>4 DEF Docs
    <3> QED
      BY <1>2, <1>6, <2>1, <2>2, <3>5
  <2> QED
    BY <1>6, <2>1, <2>2
<1>11. NotYetBooked'
  BY <1>3, <1>4, <1>10 DEF NotYetBooked
<1>12. ASSUME NEW e \in Receipts
       PROVE  booked'[e].on <= 1
  <2>1. booked[e].on <= 1
    BY DEF OnceInv, ReceiptBookedOnce
  <2>2. CASE e = d /\ n = 1
    <3>1. booked[d].on = 0
      BY <1>8, <2>2 DEF OnceInv, NotYetBooked
    <3> QED
      BY <1>6, <2>2, <3>1
  <2>3. CASE e # d
    BY <1>6, <2>1, <2>3 DEF Docs
  <2>4. CASE e = d /\ n = 0
    <3>1. booked[d].on \in Nat
      BY <1>1, <1>2
    <3> HIDE DEF d, n
    <3> QED
      BY <1>6, <2>1, <2>4, <3>1
  <2> QED
    BY <2>2, <2>3, <2>4
<1>13. ReceiptBookedOnce'
  BY <1>12 DEF ReceiptBookedOnce
<1> QED
  BY <1>9, <1>11, <1>13 DEF OnceInv

LEMMA OnceAlways == Spec => []OnceInv
<1>1. Init => OnceInv
  <2> SUFFICES ASSUME Init PROVE OnceInv
    OBVIOUS
  <2>1. Typed /\ \A d \in Docs : booked[d].on = 0
    BY TypedAtFirst DEF Init
  <2>2. \A w \in Sessions : ~Busy(w)
    BY DEF Init, Busy, NoWork
  <2>3. \A w \in Sessions : LockedDoc(w) = {}
    BY <2>2 DEF LockedDoc
  <2> QED
    BY <2>1, <2>3 DEF OnceInv, OneHolder, NotYetBooked, ReceiptBookedOnce, Docs
<1>2. OnceInv /\ [Next]_vars /\ Typed' => OnceInv'
  <2> SUFFICES ASSUME OnceInv, [Next]_vars, Typed' PROVE OnceInv'
    OBVIOUS
  <2>0. AtWork
    BY DEF OnceInv, Typed
  <2>1. ASSUME NEW w \in Sessions, Request(w) PROVE OnceInv'
    <3>1. PICK x : Begun(w, x)
      BY <2>1, RequestBegins DEF OnceInv, Typed, Books
    <3>2. session' = [session EXCEPT ![w] = x] /\ (x.op \in Accepting => x.stage = "lock")
          /\ booked' = booked
      BY <3>1 DEF Begun
    <3>3. LockedDoc(w)' = {}
      BY <2>0, <3>2, OthersKeep DEF LockedDoc
    <3> QED
      BY <3>2, <3>3, QuietStep
  <2>2. ASSUME NEW w \in Sessions, Book(w) \/ Flush(w) PROVE OnceInv'
    <3>1. PICK x : /\ session' = [session EXCEPT ![w] = x]
                   /\ UNCHANGED <<row, journal, paper, booked, edits>>
                   /\ \/ x = NoWork
                      \/ /\ Working(x) /\ x.op = session[w].op /\ x.doc = session[w].doc
                         /\ x.seen = session[w].seen /\ x.stage = session[w].stage
      BY <2>2, WorkGoesOn DEF OnceInv
    <3>2. Busy(w) /\ session'[w] = x
      BY <2>0, <2>2, <3>1, OthersKeep DEF Book, Flush
    <3>3. LockedDoc(w)' \subseteq LockedDoc(w)
      BY <3>1, <3>2 DEF LockedDoc, Busy, NoWork
    <3> QED
      BY <3>1, <3>3, QuietStep
  <2>3. ASSUME NEW w \in Sessions, Fail(w) \/ Victim(w) PROVE OnceInv'
    <3>1. session' = [session EXCEPT ![w] = NoWork] /\ booked' = booked
      BY <2>3 DEF Fail, Victim, Rollback
    <3>2. LockedDoc(w)' = {}
      BY <2>0, <3>1, OthersKeep DEF LockedDoc, Busy, NoWork
    <3> QED
      BY <3>1, <3>2, QuietStep
  <2>4. CASE UNCHANGED vars
    BY <2>4 DEF vars, OnceInv, OneHolder, NotYetBooked, ReceiptBookedOnce, LockedDoc, Busy
  <2> QED
    BY <2>1, <2>2, <2>3, <2>4, LockStep, CommitStep DEF Next
<1> QED
  BY <1>1, <1>2, TypedAlways, PTL DEF Spec

\* Two clicks, a retried request and the sync's acceptance, over any lines, with
\* edits, cancellations, failures and deadlocks in between, book a receipt at most
\* once (the lock and the second look of accept_receipt and accept_receipt_ff).
THEOREM BookedOnceCorrect == Spec => []ReceiptBookedOnce
<1>1. OnceInv => ReceiptBookedOnce
  BY DEF OnceInv
<1> QED
  BY <1>1, OnceAlways, PTL

-----------------------------------------------------------------------------
(* Documents worked on by one request at a time say what was booked *)

\* What a document's status says of its net and of its units.
Tells(d, status, net, units) ==
    /\ status \in {"DRAFT", "EXPECTED"} => net = 0
    /\ status \in {"SHIPPED", "DELIVERED"} => net = -units
    /\ status = "ACCEPTED" => net = units
    /\ d \in Shipments /\ status = "CANCELLED" => net = 0

LEMMA PaperTells ==
    PaperTellsTheBooks <=>
        \A d \in Docs, s \in SKUs :
            Tells(d, paper[d].status, NetOf(d, s), UnitsOf(paper[d].lines, s))
BY DEF PaperTellsTheBooks, Tells

GoalsOf(x) == [k \in DOMAIN x.seen |-> GoalOf(x.op, x.seen[k], x.after[k])]

\* The whole handler moves what its document holds from its start to its goal.
LEMMA Settled ==
    ASSUME NEW x, Working(x), AllBooked(x), NEW s \in SKUs
    PROVE  /\ Signed(x.doc, Moved(x, s)) + Total(OfSku(x.seen, StartsOf(x), s))
                = Total(OfSku(x.seen, GoalsOf(x), s))
           /\ Moved(x, s) \in Int
<1>1. Whole(x) /\ Makes(x) /\ Pending(x) /\ Progress(x)
  BY DEF Working
<1>2. ASSUME NEW k \in DOMAIN x.seen
      PROVE  Stands(x, k) = GoalOf(x.op, x.seen[k], x.after[k])
  <2>1. x.todo[k] = Zero
    BY <1>1 DEF AllBooked, Whole
  <2>2. x.todo[k]["quantity"] = 0 /\ x.todo[k]["defect"] = 0
    BY <2>1, ZeroIs
  <2>3. GoalOf(x.op, x.seen[k], x.after[k]) \in Nat
    BY <1>1, StandsTyped
  <2>4. Signed(x.doc, 0) = 0 /\ Signed(x.doc, 0 + 0) = 0
    BY SignedIs
  <2> QED
    BY <2>2, <2>3, <2>4 DEF Stands
<1>3. StandsOf(x) = GoalsOf(x)
  BY <1>2 DEF StandsOf, GoalsOf
<1>4. Moved(x, s) \in Int
  <2>1. /\ x.own[s]["quantity"] \in Int /\ x.own[s]["defect"] \in Int
        /\ x.base[s]["quantity"] \in Int /\ x.base[s]["defect"] \in Int
    BY <1>1, WholeIs DEF Rows, Balances
  <2> QED
    BY <2>1 DEF Moved
<1> QED
  BY <1>1, <1>3, <1>4 DEF Progress

\* No line of a shipment or of an open receipt has defective units.
Good(x) ==
    x.op \in OutOps \cup Accepting \cup {"edit_open"} =>
        \A k \in DOMAIN x.seen : x.seen[k].bad = 0

\* Of the lines of a SKU the books hold nothing, or all units.
LEMMA StartsAre ==
    ASSUME NEW x, Working(x), Good(x), NEW s
    PROVE  /\ x.op \in {"ship", "deliver", "edit_open"} \cup Accepting =>
                 Total(OfSku(x.seen, StartsOf(x), s)) = 0
           /\ x.op \in {"cancel_shipment", "edit_accepted"} =>
                 Total(OfSku(x.seen, StartsOf(x), s)) = UnitsOf(x.seen, s)
<1> DEFINE f == OfSku(x.seen, StartsOf(x), s)
           u == [k \in DOMAIN x.seen |-> IF x.seen[k].sku = s THEN Units(x.seen[k]) ELSE 0]
<1>1. \A k \in DOMAIN x.seen : /\ x.seen[k] \in Line
                               /\ x.seen[k].actual \in Nat /\ x.seen[k].bad \in Nat
  BY WholeIs, LineTyped DEF Working
<1>2. CASE x.op \in {"ship", "deliver", "edit_open"} \cup Accepting
  <2>1. \A l : StartOf(x.op, l) = 0
    BY <1>2 DEF StartOf, Accepting
  <2>2. f \in [DOMAIN x.seen -> {0}]
    BY <2>1 DEF OfSku, StartsOf
  <2> HIDE DEF f
  <2>3. Total(f) = 0
    BY <2>2, TotalOfNone
  <2>4. x.op \notin {"cancel_shipment", "edit_accepted"}
    BY <1>2 DEF Accepting
  <2> QED
    BY <2>3, <2>4 DEF f
<1>3. CASE x.op \in {"cancel_shipment", "edit_accepted"}
  <2>1. ASSUME NEW k \in DOMAIN x.seen
        PROVE  StartOf(x.op, x.seen[k]) = Units(x.seen[k])
    <3>1. CASE x.op = "cancel_shipment"
      <4>1. StartOf(x.op, x.seen[k]) = x.seen[k].actual /\ x.seen[k].bad = 0
        BY <3>1 DEF StartOf, Good, OutOps
      <4> QED
        BY <1>1, <4>1 DEF Units
    <3>2. CASE x.op = "edit_accepted"
      BY <3>2 DEF StartOf
    <3> QED
      BY <1>3, <3>1, <3>2
  <2>2. f = u
    BY <2>1 DEF OfSku, StartsOf
  <2>3. UnitsOf(x.seen, s) = Total(u)
    BY DEF UnitsOf
  <2> HIDE DEF f, u
  <2>4. x.op \notin {"ship", "deliver", "edit_open"} \cup Accepting
    BY <1>3 DEF Accepting
  <2> QED
    BY <2>2, <2>3, <2>4 DEF f
<1>4. CASE x.op \notin {"ship", "deliver", "edit_open", "cancel_shipment", "edit_accepted"} \cup Accepting
  BY <1>4
<1> QED
  BY <1>2, <1>3, <1>4

LEMMA GoalsAre ==
    ASSUME NEW x, Working(x), Good(x), NEW s
    PROVE  /\ x.op \in {"deliver", "cancel_shipment", "edit_open"} =>
                 Total(OfSku(x.seen, GoalsOf(x), s)) = 0
           /\ x.op \in {"ship", "edit_accepted"} \cup Accepting =>
                 Total(OfSku(x.seen, GoalsOf(x), s)) = UnitsOf(x.after, s)
<1> DEFINE f == OfSku(x.seen, GoalsOf(x), s)
           u == [k \in DOMAIN x.after |-> IF x.after[k].sku = s THEN Units(x.after[k]) ELSE 0]
<1>1. DOMAIN x.after = DOMAIN x.seen /\ Makes(x)
  BY DEF Working, Whole
<1>2. \A k \in DOMAIN x.seen : /\ x.seen[k] \in Line /\ x.after[k] \in Line
                               /\ x.after[k].actual \in Nat /\ x.after[k].sku = x.seen[k].sku
  BY <1>1, WholeIs, LineTyped DEF Working, Makes, MakesOf
<1>3. CASE x.op \in {"deliver", "cancel_shipment", "edit_open"}
  <2>1. \A l, m : GoalOf(x.op, l, m) = 0
    BY <1>3 DEF GoalOf
  <2>2. f \in [DOMAIN x.seen -> {0}]
    BY <2>1 DEF OfSku, GoalsOf
  <2> HIDE DEF f
  <2>3. Total(f) = 0
    BY <2>2, TotalOfNone
  <2>4. x.op \notin {"ship", "edit_accepted"} \cup Accepting
    BY <1>3 DEF Accepting
  <2> QED
    BY <2>3, <2>4 DEF f
<1>4. CASE x.op \in {"ship", "edit_accepted"} \cup Accepting
  <2>1. ASSUME NEW k \in DOMAIN x.seen
        PROVE  GoalOf(x.op, x.seen[k], x.after[k]) = Units(x.after[k])
    <3>1. CASE x.op = "ship"
      <4>1. x.after[k] = x.seen[k] /\ x.seen[k].bad = 0
        BY <1>1, <3>1 DEF Makes, MakesOf, Accepting, Good, OutOps
      <4>2. GoalOf(x.op, x.seen[k], x.after[k]) = x.seen[k].actual
        BY <3>1 DEF GoalOf
      <4> QED
        BY <1>2, <4>1, <4>2 DEF Units
    <3>2. CASE x.op = "accept"
      <4>1. x.after[k].bad = 0
        BY <1>1, <3>2 DEF Makes, MakesOf, Accepting, Good
      <4>2. GoalOf(x.op, x.seen[k], x.after[k]) = x.after[k].actual
        BY <3>2 DEF GoalOf
      <4> QED
        BY <1>2, <4>1, <4>2 DEF Units
    <3>3. CASE x.op \in {"accept_ff", "edit_accepted"}
      BY <3>3 DEF GoalOf
    <3> QED
      BY <1>4, <3>1, <3>2, <3>3 DEF Accepting
  <2>2. f = u
    BY <1>1, <1>2, <2>1 DEF OfSku, GoalsOf
  <2>3. UnitsOf(x.after, s) = Total(u)
    BY DEF UnitsOf
  <2> HIDE DEF f, u
  <2>4. x.op \notin {"deliver", "cancel_shipment", "edit_open"}
    BY <1>4 DEF Accepting
  <2> QED
    BY <2>2, <2>3, <2>4 DEF f
<1>5. CASE x.op \notin {"deliver", "cancel_shipment", "edit_open", "ship", "edit_accepted"} \cup Accepting
  BY <1>5
<1> QED
  BY <1>3, <1>4, <1>5

\* A handler that writes what it loaded leaves the lines it made.
LEMMA LinesAre ==
    ASSUME NEW x, Working(x)
    PROVE  /\ x.op # "edit_open" => LinesAfter(x, x.seen) = x.after
           /\ x.op = "edit_open" => LinesAfter(x, x.seen) = x.fresh
<1>1. /\ DOMAIN x.after = DOMAIN x.seen /\ Makes(x) /\ Whole(x)
      /\ x.after \in LineSet /\ x.fresh \in LineSet
  BY DEF Working, Whole, Work
<1>2. x.after \in [DOMAIN x.seen -> Line] /\ x.fresh \in [DOMAIN x.fresh -> Line]
  BY <1>1, LineSetIs
<1>3. ASSUME x.op # "edit_open"
      PROVE  LinesAfter(x, x.seen) = x.after
  <2>1. ASSUME NEW k \in DOMAIN x.seen
        PROVE  Updated(x, k, x.seen[k]) = x.after[k]
    <3> DEFINE l == x.seen[k]
               m == x.after[k]
               n == Literal(l.actual, m.actual, l.actual)
               b == Literal(l.bad, m.bad, l.bad)
    <3>1. l \in Line /\ m \in Line /\ m.sku = l.sku /\ m.expected = l.expected
      BY <1>1, WholeIs DEF Makes, MakesOf
    <3>2. n = m.actual /\ b = m.bad
      BY DEF Literal
    <3>3. Updated(x, k, l) = [l EXCEPT !.actual = n, !.bad = b]
      BY DEF Updated
    <3> HIDE DEF l, m, n, b
    <3>4. [l EXCEPT !.actual = n, !.bad = b] = m
      BY <3>1, <3>2 DEF Line
    <3> QED
      BY <3>3, <3>4 DEF l, m
  <2>2. LinesAfter(x, x.seen) = [k \in DOMAIN x.seen |-> Updated(x, k, x.seen[k])]
    BY <1>3 DEF LinesAfter
  <2> QED
    BY <1>2, <2>1, <2>2
<1>4. ASSUME x.op = "edit_open"
      PROVE  LinesAfter(x, x.seen) = x.fresh
  <2>1. LinesAfter(x, x.seen) = [k \in DOMAIN x.fresh |-> x.fresh[k]]
    BY <1>4 DEF LinesAfter
  <2> QED
    BY <1>2, <2>1
<1> QED
  BY <1>3, <1>4

\* A handler that loaded its document as it is leaves it true.
LEMMA TruthOfOne ==
    ASSUME NEW x, Working(x), AllBooked(x), Good(x), NEW s \in SKUs, NEW net \in Int,
           Tells(x.doc, StatusFor(x.op), net, UnitsOf(x.seen, s))
    PROVE  Tells(x.doc, StatusAfter(x.op, StatusFor(x.op)), net + Moved(x, s),
                 UnitsOf(LinesAfter(x, x.seen), s))
<1> DEFINE d  == x.doc
           mv == Moved(x, s)
           S  == Total(OfSku(x.seen, StartsOf(x), s))
           G  == Total(OfSku(x.seen, GoalsOf(x), s))
           u  == UnitsOf(x.seen, s)
           a  == UnitsOf(x.after, s)
           z  == UnitsOf(LinesAfter(x, x.seen), s)
<1>1. Whole(x) /\ x.op \in OutOps \cup InOps /\ (x.op \in OutOps <=> d \in Shipments)
      /\ x.seen \in LineSet /\ x.after \in LineSet
  BY WholeIs DEF Working, Whole, Work
<1>2. u \in Nat /\ a \in Nat
  BY <1>1, UnitsTyped
<1>3. Signed(d, mv) + S = G /\ mv \in Int
  BY Settled
<1>4. /\ x.op \in {"ship", "deliver", "edit_open"} \cup Accepting => S = 0
      /\ x.op \in {"cancel_shipment", "edit_accepted"} => S = u
      /\ x.op \in {"deliver", "cancel_shipment", "edit_open"} => G = 0
      /\ x.op \in {"ship", "edit_accepted"} \cup Accepting => G = a
  BY StartsAre, GoalsAre
<1>5. /\ x.op # "edit_open" => z = a
      /\ x.op \in OutOps => a = u
  <2>1. x.op # "edit_open" => LinesAfter(x, x.seen) = x.after
    BY LinesAre
  <2>2. ASSUME x.op \in OutOps PROVE x.after = x.seen
    <3>1. x.op \notin Accepting \cup {"edit_accepted"}
      BY <2>2 DEF OutOps, Accepting
    <3>2. \A k \in DOMAIN x.seen : x.after[k] = x.seen[k]
      BY <3>1 DEF Working, Makes, MakesOf
    <3>3. x.seen \in [DOMAIN x.seen -> Line] /\ x.after \in [DOMAIN x.seen -> Line]
      BY <1>1, LineSetIs DEF Whole
    <3> QED
      BY <3>2, <3>3
  <2> QED
    BY <2>1, <2>2
<1>6. Tells(d, StatusFor(x.op), net, u)
  OBVIOUS
<1>7. d \in Shipments => Signed(d, mv) = -mv
  BY DEF Signed
<1>8. d \notin Shipments => Signed(d, mv) = mv
  BY DEF Signed
<1> HIDE DEF d, mv, S, G, u, a, z
<1>9. CASE x.op = "ship"
  <2>1. /\ x.op \in OutOps /\ StatusFor(x.op) = "DRAFT"
        /\ StatusAfter(x.op, StatusFor(x.op)) = "SHIPPED"
    BY <1>9 DEF OutOps, StatusFor, StatusAfter, Accepting
  <2>2. net = 0
    BY <1>6, <2>1 DEF Tells
  <2>3. net + mv = -z
    BY <1>1, <1>2, <1>3, <1>4, <1>5, <1>7, <1>9, <2>1, <2>2
  <2> QED
    BY <2>1, <2>3 DEF Tells, d, mv, z
<1>10. CASE x.op = "deliver"
  <2>1. /\ x.op \in OutOps /\ StatusFor(x.op) = "SHIPPED"
        /\ StatusAfter(x.op, StatusFor(x.op)) = "DELIVERED"
    BY <1>10 DEF OutOps, StatusFor, StatusAfter, Accepting
  <2>2. net = -u
    BY <1>6, <2>1 DEF Tells
  <2>3. net + mv = -z
    BY <1>1, <1>2, <1>3, <1>4, <1>5, <1>7, <1>10, <2>1, <2>2
  <2> QED
    BY <2>1, <2>3 DEF Tells, d, mv, z
<1>11. CASE x.op = "cancel_shipment"
  <2>1. /\ x.op \in OutOps /\ StatusFor(x.op) = "SHIPPED"
        /\ StatusAfter(x.op, StatusFor(x.op)) = "CANCELLED"
    BY <1>11 DEF OutOps, StatusFor, StatusAfter, Accepting
  <2>2. net = -u
    BY <1>6, <2>1 DEF Tells
  <2>3. net + mv = 0
    BY <1>1, <1>2, <1>3, <1>4, <1>7, <1>11, <2>1, <2>2
  <2> QED
    BY <2>1, <2>3 DEF Tells, d, mv, z
<1>12. CASE x.op \in Accepting
  <2>1. /\ x.op \notin OutOps /\ StatusFor(x.op) = "EXPECTED" /\ x.op # "edit_open"
        /\ StatusAfter(x.op, StatusFor(x.op)) = "ACCEPTED"
    BY <1>12 DEF OutOps, StatusFor, StatusAfter, Accepting
  <2>2. net = 0
    BY <1>6, <2>1 DEF Tells
  <2>3. net + mv = z
    BY <1>1, <1>2, <1>3, <1>4, <1>5, <1>8, <1>12, <2>1, <2>2
  <2> QED
    BY <2>1, <2>3 DEF Tells, d, mv, z
<1>13. CASE x.op = "edit_accepted"
  <2>1. /\ x.op \notin OutOps /\ StatusFor(x.op) = "ACCEPTED"
        /\ StatusAfter(x.op, StatusFor(x.op)) = "ACCEPTED"
    BY <1>13 DEF OutOps, StatusFor, StatusAfter, Accepting
  <2>2. net = u
    BY <1>6, <2>1 DEF Tells
  <2>3. net + mv = z
    BY <1>1, <1>2, <1>3, <1>4, <1>5, <1>8, <1>13, <2>1, <2>2
  <2> QED
    BY <2>1, <2>3 DEF Tells, d, mv, z
<1>14. CASE x.op = "edit_open"
  <2>1. /\ x.op \notin OutOps /\ StatusFor(x.op) = "EXPECTED"
        /\ StatusAfter(x.op, StatusFor(x.op)) = "EXPECTED"
    BY <1>14 DEF OutOps, StatusFor, StatusAfter, Accepting
  <2>2. net = 0
    BY <1>6, <2>1 DEF Tells
  <2>3. net + mv = 0
    BY <1>1, <1>2, <1>3, <1>4, <1>8, <1>14, <2>1, <2>2
  <2> QED
    BY <2>1, <2>3 DEF Tells, d, mv, z
<1>15. CASE x.op = "cancel_receipt"
  <2>1. d \notin Shipments /\ StatusAfter(x.op, StatusFor(x.op)) = "CANCELLED"
    BY <1>1, <1>15 DEF OutOps, StatusAfter, Accepting
  <2> QED
    BY <2>1 DEF Tells, d
<1> QED
  BY <1>1, <1>9, <1>10, <1>11, <1>12, <1>13, <1>14, <1>15 DEF OutOps, InOps, Accepting

LEMMA TruthAtFirst == Init => Truth
<1> SUFFICES ASSUME Init PROVE Truth
  OBVIOUS
<1>1. \A d \in Docs : /\ paper[d].lines = StartLines[d]
                      /\ paper[d].status = IF d \in Receipts THEN "EXPECTED"
                                           ELSE IF WrittenOff(d) THEN "SHIPPED" ELSE "DRAFT"
  BY DEF Init
<1>2. ASSUME NEW d \in Docs, NEW s \in SKUs
      PROVE  Tells(d, paper[d].status, NetOf(d, s), UnitsOf(paper[d].lines, s))
  <2>1. journal[d][s] = StartJournal(d, s)
    BY DEF Init
  <2>2. NetOf(d, s) = IF WrittenOff(d) THEN -UnitsOf(StartLines[d], s) ELSE 0
    BY <2>1, StartJournalIs DEF NetOf
  <2>3. WrittenOff(d) => d \notin Receipts
    BY DocsAssumption DEF WrittenOff
  <2> HIDE DEF WrittenOff
  <2> QED
    BY <1>1, <2>2, <2>3 DEF Tells, Docs
<1>3. NothingBadYet
  BY <1>1, LinesAssumption DEF NothingBadYet
<1>4. UpToDate
  BY DEF Init, UpToDate, Busy, NoWork
<1> QED
  BY <1>2, <1>3, <1>4, PaperTells DEF Truth

\* A step that changes no document and leaves a handler with its document as it is.
LEMMA KeepsTruth ==
    ASSUME AtWork, Truth, NEW w \in Sessions, NEW x, session' = [session EXCEPT ![w] = x],
           UNCHANGED <<journal, paper>>,
           \/ x = NoWork
           \/ paper[x.doc].lines = x.seen /\ paper[x.doc].status = StatusFor(x.op)
    PROVE  Truth'
<1>1. PaperTellsTheBooks'
  BY DEF Truth, PaperTellsTheBooks, NetOf
<1>2. NothingBadYet'
  BY DEF Truth, NothingBadYet
<1>3. ASSUME NEW v \in Sessions, Busy(v)'
      PROVE  /\ paper'[session'[v].doc].lines = session'[v].seen
             /\ paper'[session'[v].doc].status = StatusFor(session'[v].op)
  <2>1. session'[w] = x /\ \A u \in Sessions \ {w} : session'[u] = session[u] /\ Busy(u)' = Busy(u)
    BY OthersKeep
  <2>2. CASE v = w
    <3>1. x # NoWork
      BY <1>3, <2>1, <2>2 DEF Busy, NoWork
    <3> QED
      BY <2>1, <2>2, <3>1
  <2>3. CASE v # w
    BY <1>3, <2>1, <2>3 DEF Truth, UpToDate
  <2> QED
    BY <2>2, <2>3
<1>4. UpToDate'
  BY <1>3 DEF UpToDate
<1> QED
  BY <1>1, <1>2, <1>4 DEF Truth

\* A commit of a handler that works on its document alone.
LEMMA CommitTells ==
    ASSUME Typed, Truth, DocsApart, NEW w \in Sessions, Commit(w),
           NEW x, x = session[w], NEW d, d = x.doc
    PROVE  Truth'
<1>1. /\ d \in Docs /\ Working(x) /\ Whole(x) /\ AllBooked(x)
      /\ session' = [session EXCEPT ![w] = NoWork]
      /\ paper'[d].status = StatusAfter(x.op, paper[d].status)
      /\ paper'[d].lines = LinesAfter(x, paper[d].lines)
      /\ \A e \in Docs \ {d} : paper'[e] = paper[e] /\ journal'[e] = journal[e]
      /\ \A s \in SKUs, part \in Balances :
            journal'[d][s][part] = journal[d][s][part] + x.own[s][part] - x.base[s][part]
  BY CommitIs
<1>2. Busy(w) /\ AtWork /\ Books /\ PaperTellsTheBooks /\ NothingBadYet /\ UpToDate
  BY DEF Commit, Typed, Truth
<1>3. paper[d].lines = x.seen /\ paper[d].status = StatusFor(x.op)
  BY <1>2 DEF UpToDate
<1>4. x.op \in OutOps \cup InOps /\ (x.op \in OutOps <=> d \in Shipments)
      /\ x.own \in Rows /\ x.base \in Rows
  BY <1>1, WholeIs
<1>5. Good(x)
  <2>1. x.op \in Accepting \cup {"edit_open"} => StatusFor(x.op) = "EXPECTED"
    BY DEF StatusFor, Accepting
  <2>2. x.op \in OutOps \cup Accepting \cup {"edit_open"} =>
           d \in Shipments \/ paper[d].status = "EXPECTED"
    BY <1>3, <1>4, <2>1
  <2> QED
    BY <1>1, <1>2, <1>3, <2>2 DEF Good, NothingBadYet
<1>6. ASSUME NEW s \in SKUs
      PROVE  NetOf(d, s)' = NetOf(d, s) + Moved(x, s) /\ NetOf(d, s) \in Int
  <2>1. \A part \in Balances :
           /\ journal'[d][s][part] = journal[d][s][part] + x.own[s][part] - x.base[s][part]
           /\ journal[d][s][part] \in Int /\ x.own[s][part] \in Int /\ x.base[s][part] \in Int
    BY <1>1, <1>2, <1>4 DEF Books, Nets, Rows
  <2>2. "quantity" \in Balances /\ "defect" \in Balances
    BY DEF Balances
  <2>3. NetOf(d, s)' = journal'[d][s]["quantity"] + journal'[d][s]["defect"]
    BY DEF NetOf
  <2> QED
    BY <2>1, <2>2, <2>3 DEF NetOf, Moved
<1>7. ASSUME NEW e \in Docs, NEW s \in SKUs
      PROVE  Tells(e, paper'[e].status, NetOf(e, s)', UnitsOf(paper'[e].lines, s))
  <2>1. Tells(e, paper[e].status, NetOf(e, s), UnitsOf(paper[e].lines, s))
    BY <1>2, PaperTells
  <2>2. CASE e = d
    <3>1. Tells(d, StatusAfter(x.op, StatusFor(x.op)), NetOf(d, s) + Moved(x, s),
                UnitsOf(LinesAfter(x, x.seen), s))
      BY <1>1, <1>3, <1>5, <1>6, <2>1, <2>2, TruthOfOne
    <3>2. /\ paper'[d].status = StatusAfter(x.op, StatusFor(x.op))
          /\ paper'[d].lines = LinesAfter(x, x.seen)
      BY <1>1, <1>3
    <3> QED
      BY <1>6, <2>2, <3>1, <3>2
  <2>3. CASE e # d
    <3>1. paper'[e] = paper[e] /\ journal'[e] = journal[e]
      BY <1>1, <2>3
    <3>2. NetOf(e, s)' = NetOf(e, s)
      BY <3>1 DEF NetOf
    <3> QED
      BY <2>1, <3>1, <3>2
  <2> QED
    BY <2>2, <2>3
<1>8. PaperTellsTheBooks'
  BY <1>7 DEF PaperTellsTheBooks, Tells
<1>9. NothingBadYet'
  <2>1. ASSUME NEW e \in Docs, e \in Shipments \/ paper'[e].status = "EXPECTED"
        PROVE  \A k \in DOMAIN paper'[e].lines : paper'[e].lines[k].bad = 0
    <3>1. CASE e = d /\ d \in Shipments
      <4>1. x.op \in OutOps /\ x.op # "edit_open" /\ x.op \notin Accepting \cup {"edit_accepted"}
        BY <1>4, <3>1 DEF OutOps, Accepting
      <4>2. paper'[d].lines = x.after
        BY <1>1, <1>3, <4>1, LinesAre
      <4>3. \A k \in DOMAIN x.after : x.after[k] = x.seen[k] /\ x.seen[k].bad = 0
        BY <1>1, <1>5, <4>1 DEF Working, Whole, Makes, MakesOf, Good
      <4> QED
        BY <3>1, <4>2, <4>3
    <3>2. CASE e = d /\ d \notin Shipments
      <4>1. x.op \in InOps /\ StatusAfter(x.op, StatusFor(x.op)) = "EXPECTED"
        BY <1>1, <1>3, <1>4, <2>1, <3>2
      <4>2. x.op = "edit_open"
        BY <4>1 DEF InOps, StatusAfter, StatusFor, Accepting
      <4>3. paper'[d].lines = x.fresh
        BY <1>1, <1>3, <4>2, LinesAre
      <4> QED
        BY <1>1, <3>2, <4>3 DEF Working, Makes
    <3>3. CASE e # d
      BY <1>1, <1>2, <2>1, <3>3 DEF NothingBadYet
    <3> QED
      BY <3>1, <3>2, <3>3
  <2> QED
    BY <2>1 DEF NothingBadYet
<1>10. ASSUME NEW v \in Sessions, Busy(v)'
       PROVE  /\ paper'[session'[v].doc].lines = session'[v].seen
              /\ paper'[session'[v].doc].status = StatusFor(session'[v].op)
  <2>1. session'[w] = NoWork /\ \A u \in Sessions \ {w} : session'[u] = session[u] /\ Busy(u)' = Busy(u)
    BY <1>1, <1>2, OthersKeep
  <2>2. v # w
    BY <1>10, <2>1 DEF Busy, NoWork
  <2>3. Busy(v) /\ session'[v] = session[v]
    BY <1>10, <2>1, <2>2
  <2>4. session[v].doc # d
    BY <1>2, <2>2, <2>3 DEF DocsApart
  <2>5. session[v].doc \in Docs
    BY <1>2, <2>3, BusyIs, WholeIs
  <2> QED
    BY <1>1, <1>2, <2>3, <2>4, <2>5 DEF UpToDate
<1>11. UpToDate'
  BY <1>10 DEF UpToDate
<1> QED
  BY <1>8, <1>9, <1>11 DEF Truth

\* As long as no two requests work on one document at a time, whatever they
\* change on the rows they share, whichever fail and are rolled back, the
\* movements of every document are what its status and its lines say: none of a
\* draft, an expected receipt or a cancelled shipment, all units of a shipped,
\* delivered or accepted one (the handlers of warehouse_outbound.py and
\* warehouse_inbound.py).
THEOREM PaperCorrect == Spec /\ []DocsApart => []PaperTellsTheBooks
<1>1. Typed /\ Truth /\ DocsApart /\ [Next]_vars => Truth'
  <2> SUFFICES ASSUME Typed, Truth, DocsApart, [Next]_vars PROVE Truth'
    OBVIOUS
  <2>0. AtWork /\ Papers /\ UpToDate
    BY DEF Typed, Truth
  <2>1. ASSUME NEW w \in Sessions, Request(w) PROVE Truth'
    <3>1. PICK x : Begun(w, x)
      BY <2>1, RequestBegins DEF Typed, Books
    <3> QED
      BY <2>0, <3>1, KeepsTruth DEF Begun
  <2>2. ASSUME NEW w \in Sessions, LockReceipt(w) PROVE Truth'
    <3>1. PICK x : /\ session' = [session EXCEPT ![w] = x]
                   /\ UNCHANGED <<row, journal, paper, booked, edits>>
                   /\ \/ x = NoWork
                      \/ /\ Working(x) /\ x.op = session[w].op /\ x.doc = session[w].doc
                         /\ x.seen = session[w].seen /\ StillOpen(x.doc)
      BY <2>2, LockLeaves
    <3>2. /\ paper[session[w].doc].lines = session[w].seen
          /\ paper[session[w].doc].status = StatusFor(session[w].op)
      BY <2>0, <2>2 DEF UpToDate, LockReceipt
    <3> QED
      BY <2>0, <3>1, <3>2, KeepsTruth
  <2>3. ASSUME NEW w \in Sessions, Book(w) \/ Flush(w) PROVE Truth'
    <3>1. PICK x : /\ session' = [session EXCEPT ![w] = x]
                   /\ UNCHANGED <<row, journal, paper, booked, edits>>
                   /\ \/ x = NoWork
                      \/ /\ Working(x) /\ x.op = session[w].op /\ x.doc = session[w].doc
                         /\ x.seen = session[w].seen /\ x.stage = session[w].stage
      BY <2>3, WorkGoesOn
    <3>2. /\ paper[session[w].doc].lines = session[w].seen
          /\ paper[session[w].doc].status = StatusFor(session[w].op)
      BY <2>0, <2>3 DEF UpToDate, Book, Flush
    <3> QED
      BY <2>0, <3>1, <3>2, KeepsTruth
  <2>4. ASSUME NEW w \in Sessions, Commit(w) PROVE Truth'
    BY <2>4, CommitTells
  <2>5. ASSUME NEW w \in Sessions, Fail(w) \/ Victim(w) PROVE Truth'
    <3>1. /\ session' = [session EXCEPT ![w] = NoWork]
          /\ UNCHANGED <<row, journal, paper, booked, edits>>
      BY <2>5 DEF Fail, Victim, Rollback
    <3> QED
      BY <2>0, <3>1, KeepsTruth
  <2>6. CASE UNCHANGED vars
    BY <2>6 DEF vars, Truth, PaperTellsTheBooks, NothingBadYet, UpToDate, NetOf, Busy
  <2> QED
    BY <2>1, <2>2, <2>3, <2>4, <2>5, <2>6 DEF Next
<1>2. Truth => PaperTellsTheBooks
  BY DEF Truth
<1> QED
  BY <1>1, <1>2, TruthAtFirst, TypedAlways, PTL DEF Spec
=============================================================================
