\* A zone without persistent scores.
CONSTANTS
    HasPersist = FALSE

SPECIFICATION Spec
INVARIANTS
    NoDeadlock
