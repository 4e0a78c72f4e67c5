CONSTANTS
    Coroutines = {c1, c2}
    Main = main
    NoThread = none
    MaxCCalls = 3
    MaxFrames = 1
    MaxTbc = 2
    RecoverGoPanics = FALSE
    Behaviours = {}
SPECIFICATION Spec
SYMMETRY Symmetry
INVARIANTS TypeOK OneActive YieldHasReceiver ChainTellsTruth SyncYieldIsFlat HandlersAreOwed
PROPERTY DeadStaysDead
