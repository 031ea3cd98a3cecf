\* A shipment and a receipt whose lines name the same two rows, each handled by
\* two sessions at once; a receipt is accepted as expected.
SPECIFICATION FairSpec
CONSTANTS
    ship = ship
    gone = gone
    rec = rec
    recd = recd
    s1 = s1
    s2 = s2
    p1 = p1
    p2 = p2
    Sessions = {w1, w2}
    Shipments = {ship}
    Receipts = {rec}
    SKUs = {s1, s2}
    Places = {p1, p2}
    Defective = {}
    StartLines <- MCLines
    Opening <- MCOpening
    MaxQty = 1
    Reports = {}
    MaxEdits = 0
INVARIANTS
    TypeOK
    ReceiptBookedOnce
PROPERTIES
    EveryRequestEnds
CHECK_DEADLOCK FALSE
