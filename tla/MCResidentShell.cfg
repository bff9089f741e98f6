SPECIFICATION Spec
CONSTANTS
    MaxVisible = 2
    MaxPopup = 2
    MaxAttempt = 2
    MaxGeneration = 2
    MaxChunks = 2
    MaxId = 2
    TTL = 0
    word = word
    blank = blank
    first = first
    second = second
    Texts <- MCTexts
    RefusedTexts <- MCRefused
    Fingerprints <- MCGood
    EmptyPrints = {}
    Configs <- MCConfigs
SYMMETRY MCSymmetry
INVARIANTS
    OneLiveStream
    CachedOutputIsWhole
    RestIsQuiet
PROPERTIES
    AnswerServesItsRequest
