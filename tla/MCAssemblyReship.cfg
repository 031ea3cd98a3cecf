\* One request, one person.
SPECIFICATION Spec
CONSTANTS
    a = a
    b = b
    Requests = {a}
    Supplies = {f}
    Gazelka = {}
    Portal = {}
    Convertible = {a}
    Callers = {p}
    sync = sync
    None = None
    AsOffered = TRUE
    MaxQty = 1
    MaxAttempts <- MCAttempts
    MaxSlips = 0
PROPERTIES
    ConvertedStaysIn
CHECK_DEADLOCK FALSE
