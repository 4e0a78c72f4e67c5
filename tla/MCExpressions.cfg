SPECIFICATION Spec
CONSTANTS
    W = 4
    MaxC = 3
    MaxIndexRK = 1
    MaxSBx = 3
    FieldsPerFlush = 2
    Statements <- MCStatements
    Frames <- MCFrames
INVARIANTS CodeComputes ConstructorFills RegistersAndJumps
CHECK_DEADLOCK FALSE
