\* One tab with the matrix and a page that synchronises: two articles of one box,
\* two clicks or crosses, one synchronisation; another draft may take one article.
SPECIFICATION FairSpec
CONSTANTS
    Skus = {a, b}
    Tabs = {t1}
    Runners = {r1}
    Stock = 1
    MaxClicks = 2
    MaxSyncs = 1
    MaxRetry = 3
    Shared = {a}
    LateClicks = TRUE
    Windows = {}

    
    
PROPERTIES
    ManualIsSacred
    EveryEditEnds
CHECK_DEADLOCK FALSE
