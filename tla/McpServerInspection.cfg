SPECIFICATION Spec
CONSTANTS
    Clients = {c1, c2}
    MaxSessions = 2
    Sources = {main}
    Lines = {1}
    MaxDepth = 2
    Nowhere = Nowhere
INVARIANT InspectionHasProgram
