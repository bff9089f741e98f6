SPECIFICATION Spec
CONSTANT MaxDeltas = 3
INVARIANT
    OkIsWhole
