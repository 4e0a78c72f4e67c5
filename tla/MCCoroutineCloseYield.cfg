CONSTANTS
    Coroutines = {c1}
    Main = main
    NoThread = none
    MaxCCalls = 3
    MaxFrames = 1
    MaxTbc = 1
    RecoverGoPanics = FALSE
    Behaviours = {"closeYield"}
SPECIFICATION Spec
INVARIANT YieldHasReceiver
