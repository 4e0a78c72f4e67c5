SPECIFICATION Spec
CONSTANTS
    MaxSessions = 1
    MaxHandles = 2
    Sources = {main}
    Lines = {1, 2}
    MaxDepth = 2
    Nowhere = Nowhere
INVARIANTS PausedTellsTruth BreakpointsApplied
PROPERTIES StopsAndEndReported AdmittedIsServed
CHECK_DEADLOCK FALSE
