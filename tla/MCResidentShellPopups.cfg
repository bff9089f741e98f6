SPECIFICATION Spec
CONSTANTS
    MaxVisible = 2
    MaxPopup = 3
    MaxAttempt = 3
    MaxGeneration = 2
    MaxChunks = 1
    MaxId = 3
    TTL = 0
    word = word
    blank = blank
    first = first
    second = second
    Texts <- MCTexts
    RefusedTexts <- MCRefused
    Fingerprints <- MCGood
    EmptyPrints = {}
    Configs <- MCConfigs
SYMMETRY MCSymmetry
VIEW MCShellView
INVARIANTS
    PresentationIsWired
    AwaitedCanCome
PROPERTIES
    EvictionSparesWork
    PinnedPopupsStay
