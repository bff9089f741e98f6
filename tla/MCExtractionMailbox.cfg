SPECIFICATION Spec
CONSTANT MaxAttempt = 3
INVARIANTS
    StaleWorkIsCancelled
    FallbackOrder
PROPERTIES
    ImplementsLatestWins
    NobodyWaitsForever
CHECK_DEADLOCK FALSE
