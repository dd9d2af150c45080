\* Grids aligned, one configuration, nothing fails: a result in the first second of the
\* cutoff's bucket is enough.
CONSTANTS
    Configs <- MCLossConfigs
    Ranges = {6}
    Phase = 0
    Ahead = 0
    Horizon = 10
    MaxResults = 2
    MaxReloads = 0
    MaxFaults = 0
SPECIFICATION Spec
INVARIANT KeptUntilExpiry
