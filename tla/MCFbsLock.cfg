\* The job and a hand-over that nothing cuts off; two orders, one of which may be
\* cancelled, and a newer one that can never be written off.
SPECIFICATION FairSpec
CONSTANTS
    s1 = s1
    s2 = s2
    Runs = {job, api}
    Bounded = {job}
    Job = job
    LastOrder = 3
    SKUs = {s1, s2}
    SKUOf <- MCSKUOf
    Linked = {1, 2}
    Cancellable = {2}
    Opening <- MCOpening
    Cap = 1
    Sold = {s2}
    MaxMishaps = 1
INVARIANTS
    TypeOK
    WrittenOffOnce
    RowTellsMoves
PROPERTIES
    ReleaseSparesOthers
    QueuedIsWritten
CHECK_DEADLOCK FALSE
