\* Six databases to start from, the tool at any time, one crash or failed statement, one
\* result saved; one save of the configuration.
CONSTANTS
    Names = {"web"}
    Addresses = {"one", "two"}
    Found <- AnyFound
    NewKey <- SavedKey
    MaxFaults = 1
    MaxSaves = 1
    Saved <- AnySaved
    Partial <- AnyPartial
    MaxEdits = 1
SPECIFICATION SSpec
INVARIANTS
    MeasurementsKept
    ServesCurrentSchema
PROPERTIES
    EventuallyServes
    CatchesUp
