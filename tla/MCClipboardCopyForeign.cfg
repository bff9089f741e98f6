SPECIFICATION Spec
CONSTANTS
    Owners = {w1}
    MaxCalls = 1
    MaxWrites = 1
    SeqMod = 6
PROPERTIES
    OnlyTheCopyIsReplaced
CHECK_DEADLOCK FALSE
