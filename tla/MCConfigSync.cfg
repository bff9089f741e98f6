CONSTANTS
    Residents = {r1, r2}
    Managers = {m1, m2}
    NoChild = NoChild
    MaxProfiles = 2
    Targets = {"t1", "t2"}
    Hotkeys = {"k1", "k2"}
    Default <- MCDefault
    Edits <- MCEdits
    Budgets <- MCBudgets
SPECIFICATION Spec
INVARIANTS OneResident ChildSurvivesQuestions PagesAreCurrent RuntimeIsOfOnePiece
PROPERTIES ResidentFollowsFile
CHECK_DEADLOCK FALSE
