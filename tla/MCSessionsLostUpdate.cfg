\* Do two sessions leave the row with the sum of its movements?
SPECIFICATION Spec
CONSTANTS
    ship = ship
    gone = gone
    rec = rec
    recd = recd
    s1 = s1
    s2 = s2
    p1 = p1
    p2 = p2
    Sessions = {w1, w2}
    Shipments = {ship}
    Receipts = {rec}
    SKUs = {s1}
    Places = {p1}
    Defective = {}
    StartLines <- MCLines
    Opening <- MCOpening
    MaxQty = 1
    Reports = {0, 1}
    MaxEdits = 0
INVARIANTS
    RowIsJournalSum
CHECK_DEADLOCK FALSE
