\* Three packets, a ring of two, a window of two or three: slots are used again, packets come too early.
CONSTANTS
    MaxSends = 3
    IncomingBuffer = 2
    CanBuffer = 2
    MaxRetries = 2
    MaxOutlist = 2

SPECIFICATION FairSpec
INVARIANTS
    AnswersAreRight
PROPERTIES
    InOrderOnce
    NoneIsForgotten
CHECK_DEADLOCK FALSE
