CONSTANTS
    Coroutines = {c1}
    Main = main
    NoThread = none
    MaxCCalls = 3
    MaxFrames = 1
    MaxTbc = 1
    RecoverGoPanics = TRUE
    Behaviours = {"goPanic"}
SPECIFICATION FairSpec
PROPERTY HandoffCompletes
CHECK_DEADLOCK FALSE
