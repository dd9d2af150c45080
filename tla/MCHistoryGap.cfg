\* One configuration, nothing fails: the cutoff of a query moves with the clock.
CONSTANTS
    Configs <- MCGapConfigs
    Ranges = {8}
    Phase = 0
    Ahead = 0
    Horizon = 8
    MaxResults = 2
    MaxReloads = 0
    MaxFaults = 0
SPECIFICATION Spec
INVARIANT AnswersEverything
