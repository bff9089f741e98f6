SPECIFICATION Spec
CONSTANT MaxDeltas = 3
INVARIANTS
    HandleClosedOnce
    OkIsFinal
PROPERTY
    CancelEnds
