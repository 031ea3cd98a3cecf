\* One transfer, two warehouses, two trips.
SPECIFICATION Spec
CONSTANTS
    Transfers = {t1}
    Warehouses = {wa, wb}
    SKUs = {s1}
    Carriers = {c1}
    NoCarrier = NoCarrier
    Opening <- MCOpening
    MaxQty = 2
    MaxRounds = 2
    MaxStock = 0
    Corrections <- MCCorrections
    Aggregated = {t1}
    RerouteAfterTrip = TRUE
INVARIANTS
    TypeOK
    LandedMatchesStatus
    PickupTellsTheTrip
    UnitsConserved
    TransitIsOwed
PROPERTIES
    ResendKeepsPickups
CHECK_DEADLOCK FALSE
