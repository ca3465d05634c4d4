\* Two producers with two values each over four nodes: a node is used again
\* while a push still holds it as the tail it read.
CONSTANTS
    PoolSize = 4
    Producers = {p1, p2}
    NULL = NULL
    MaxPushes = 2
SPECIFICATION Spec
INVARIANTS
    EveryNodeInOnePlace
    TailInList
    NothingLostOrDoubled
    OvertakenOnlyIfDetached
PROPERTIES
    IsFifo
    PopReturns
