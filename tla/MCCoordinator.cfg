SPECIFICATION Spec
CONSTANTS
    MaxId = 3
    TTL = 1
    MaxTime = 3
    MaxTarget = 2
    Capacity = 2
    MaxAge = 2
    word = word
    blank = blank
    Fingerprints <- MCPrints
    EmptyPrints <- MCEmpty
INVARIANTS
    OnlyActiveIsLive
    TerminalJobsNeverBlock
PROPERTIES
    RecentOnlyFromCurrentSuccess
    NoPriorityDowngrade
