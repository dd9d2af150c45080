\* Two rounds of two targets, batches of two, a queue of three: a failed upload
\* followed by another round overflows the queue and shifts the batch boundaries.  Two
\* long results are too much for one body.
CONSTANTS
    Targets = 2
    BatchSize = 2
    MaxPending = 3
    BodyLimit = 1
    Kinds <- MCKinds
    InFlight = 3
    Rounds = 2
    MaxFaults = 2
    FailureCap = 1
SPECIFICATION FairSpec
INVARIANTS
    PendingIsNewest
    NothingVanishes
    DuplicatesOnlyAfterDoubt
PROPERTIES
    ImplementsPromise
    
