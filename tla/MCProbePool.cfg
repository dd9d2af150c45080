\* Up to four tasks for up to three workers, the default among them, and a pool larger
\* than the round.  The pool stops when the call has returned.
CONSTANTS
    MaxTasks = 4
    Concurrencies = {0, 1, 3, 5}
    Default = 2
SPECIFICATION FairSpec
CHECK_DEADLOCK FALSE
INVARIANTS
    NoSendAfterClose
    EachOnce
PROPERTIES
    ProbedIsKept
    Returns
