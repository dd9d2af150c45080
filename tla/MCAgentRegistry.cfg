\* Four rounds of one result around a threshold of two, uploaded one or two at a time, two
\* requests at once, one fault and two deletions: enough for reports and deletions to
\* overtake each other and for a later one to repair the entry.
CONSTANTS
    Targets = 1
    BatchSize = 2
    MaxPending = 2
    BodyLimit = 1
    Kinds <- MCKinds
    InFlight = 2
    Rounds = 4
    MaxFaults = 1
    FailureCap = 1
    Threshold = 2
    MaxDeletions = 2
SPECIFICATION RSpec
INVARIANTS
    RTypeOK
    AsIfAtomic
    UnlistedIsUnknown
    CalmCountsRounds
