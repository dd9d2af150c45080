\* Three keys for two places, answers of one, two and four bytes for three: either limit
\* may be the one that evicts.  Entries live for one tick of four.
CONSTANTS
    k1 = k1
    k2 = k2
    k3 = k3
    r1 = r1
    r2 = r2
    Keys = {k1, k2, k3}
    Readers = {r1, r2}
    Writers = {w1}
    NoOne = NoOne
    TTL = 1
    MaxEntries = 2
    MaxBytes = 3
    Sizes = {1, 2, 4}
    MaxVersion = 2
    Horizon = 4
SPECIFICATION Spec
SYMMETRY Symmetry
INVARIANTS
    Accounted
    EvictionEnds
    FreshUnlessOvertaken
PROPERTY
    OnlyExpiredArePurged
