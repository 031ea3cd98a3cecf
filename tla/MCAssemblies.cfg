SPECIFICATION FairSpec
CONSTANTS
    a = a
    b = b
    Requests = {a, b}
    Supplies = {f}
    Gazelka = {b}
    Portal = {a}
    Convertible = {b}
    Callers = {p}
    sync = sync
    None = None
    AsOffered = TRUE
    MaxQty = 1
    MaxAttempts <- MCAttempts
    MaxSlips = 0
INVARIANTS
    TypeOK
    
    
    
PROPERTIES
    AcceptedGoesOn
CHECK_DEADLOCK FALSE
