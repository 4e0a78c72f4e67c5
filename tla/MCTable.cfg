SPECIFICATION Spec
CONSTANTS
    Indexes <- MCIndexes
    IntOf <- MCIntOf
    Names = {}
    Objects = {o1}
    Plain = {p}
    Floats = {f2}
    Nil = Nil
    NotFound = NotFound
    MaxEntries = 2
INVARIANTS TypeOK OneSlotPerKey SearchBracketsBorder LoopIsSound
PROPERTY Refines
