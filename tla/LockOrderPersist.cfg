\* With persist.c: DBThread holds dbmtx while it looks at the arenas.
CONSTANTS
    HasPersist = TRUE

SPECIFICATION Spec
INVARIANTS
    NoDeadlock
