SPECIFICATION Spec
CONSTANTS
    word = word
    letter = letter
    output = output
    NoSpot = NoSpot
    Spots <- MCSpots
    Near <- MCNear
    Output = output
    MaxReleases = 2
    MaxOutput = 3
    Marker = 1
    InlineLimit = 1
    Deltas <- MCDeltas
    MaxLabels = 2
    MaxPosts = 1
INVARIANTS
    TypeOK
    TimersMatchDeadlines
    HoverWorkIsCurrent
    SourceIsThere
    StaleDisplayIsScheduled
    OneSurface
    ClosedIsReported
PROPERTIES
    EveryReleaseIsObserved
CHECK_DEADLOCK FALSE
