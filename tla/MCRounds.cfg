\* More targets than fit in one batch (201 and 200 in the program, 2 and 1 here),
\* and no fault at all.
CONSTANTS
    Targets = 2
    BatchSize = 1
    MaxPending = 3
    BodyLimit = 1
    Kinds <- MCKinds
    InFlight = 1
    Rounds = 2
    MaxFaults = 0
    FailureCap = 1
    Threshold = 2
SPECIFICATION CSpec
INVARIANT
    FailedMeansBadRounds
