CONSTANTS
    Configs <- MCConfigs
    Ranges = {3, 5}
    Phase = 0
    Ahead = 0
    Horizon = 5
    MaxResults = 2
    MaxReloads = 1
    MaxFaults = 1
SPECIFICATION Spec
INVARIANTS
    TypeOK
    KeptUnlessTorn
    AnsweredOnce
    AnswersAllButGap
