SPECIFICATION LibrarySpec
CONSTANTS
    W = 4
    Values <- MCValues
    Tables <- MCTables
    Rooms = {0, 3}
    MaxCaptures = 3
    MaxMatchDepth = 20
    ByteBits = 2
    SzInt = 2
    MaxIntSize = 4
    PatternCalls <- MCPatternCalls
    BytesCalls <- MCBytesCalls
    TextCalls <- MCTextCalls
    PackCalls <- MCPackCalls
    SortCalls <- MCSortCalls
INVARIANTS CallsAreExact PatternsMatch Utf8Agrees PackRoundTrips SortIsSafe
PROPERTY SortEnds
CHECK_DEADLOCK FALSE
