\* Four threads, each of which holds the lock up to twice in each mode.
CONSTANTS
    Threads = {t1, t2, t3, t4}
    MaxDepth = 2

SPECIFICATION FairSpec
INVARIANTS
    Exclusion
    WakeUpsAreNotLost
PROPERTIES
    WaitersGetIn
