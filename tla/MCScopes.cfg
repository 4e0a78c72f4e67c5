SPECIFICATION Spec
CONSTANTS
    Names = {"a"}
    LabelNames = {"l"}
    Most <- MCMost
    MaxStatements = 5
INVARIANTS LocalsAreInitialised CapturedAreClosed
CHECK_DEADLOCK FALSE
