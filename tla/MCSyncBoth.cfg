\* Both sides of one transfer of a single unit: a scheduled pass and one that a
\* person starts overlap.
SPECIFICATION FairSyncSpec
CONSTANTS
    wa = wa
    wb = wb
    out = out
    in1 = in1
    in2 = in2
    Transfers = {t1}
    Warehouses = {wa, wb}
    SKUs = {s1}
    Carriers = {c1}
    NoCarrier = NoCarrier
    Opening <- MCOpening
    MaxQty = 1
    MaxRounds = 1
    MaxStock = 0
    Corrections = {}
    Aggregated = {}
    RerouteAfterTrip = FALSE
    Requests = {out, in1}
    Outbound = {out}
    WarehouseOf <- MCWarehouseOf
    Passes = {p1, p2}
    Scheduled = {p1}
    NoTransfer = NoTransfer
    Cap = 2
INVARIANTS
    SyncTypeOK
PROPERTIES
    MarkerIsFinal
    HaulageSpec
    
    AutoSendHasVehicle
    KeepsTransferRules
    
CHECK_DEADLOCK FALSE
