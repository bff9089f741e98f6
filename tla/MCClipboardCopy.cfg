SPECIFICATION Spec
CONSTANTS
    Owners = {w1}
    MaxCalls = 2
    MaxWrites = 2
    SeqMod = 9
INVARIANTS
    ClipboardComesBack
    OldClipboardIsNotTheAnswer
PROPERTIES
    RestoreReplacesWhatSettled
    WorkerEnds
CHECK_DEADLOCK FALSE
