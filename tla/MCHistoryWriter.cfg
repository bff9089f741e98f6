CONSTANTS
    MaxHistory = 2
    BatchCapacity = 2
    Managers = {m1, m2}
    Kinds = {k1}
    Times <- MCTimes
    MaxEntries = 3
    MaxStarts = 2
SPECIFICATION Spec
INVARIANTS FlushAnswersForAll
PROPERTIES ImplementsHistoryStore DeletesWhatWasShown EveryEntryIsAttempted
CHECK_DEADLOCK FALSE
