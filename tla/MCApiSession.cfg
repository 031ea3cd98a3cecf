\* One tab, a read and an upload; a refresh may break before the server.
SPECIFICATION FairSpec
CONSTANTS
    t1 = t1
    t2 = t2
    c1 = c1
    c2 = c2
    u1 = u1
    Tabs = {t1}
    Calls = {c1, u1}
    Uploads = {u1}
    TabOf <- OneTab
    Retries = 1
    MaxTokens = 3
    RefreshFaults = {"broken"}
INVARIANTS
    OncePerAttempt
PROPERTIES
    SessionSurvives
    EveryCallEnds
CHECK_DEADLOCK FALSE
