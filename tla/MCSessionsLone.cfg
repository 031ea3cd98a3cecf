\* Every handler, one after another, failures included.
SPECIFICATION Spec
CONSTANTS
    ship = ship
    gone = gone
    rec = rec
    recd = recd
    s1 = s1
    s2 = s2
    p1 = p1
    p2 = p2
    Sessions = {w1}
    Shipments = {ship, gone}
    Receipts = {rec, recd}
    SKUs = {s1}
    Places = {p1}
    Defective = {gone, recd}
    StartLines <- MCLines
    Opening <- MCOpening
    MaxQty = 1
    Reports = {0, 1}
    MaxEdits = 2
INVARIANTS
    PaperTellsTheBooks
CHECK_DEADLOCK FALSE
