CONSTANTS
    Objects = {o1, o2, o3}
    NoObject = none
    MaxNesting = 2
SPECIFICATION FairSpec
INVARIANTS TypeOK PendingMirrorsQueue OnceOnly
PROPERTY QueueDrains
