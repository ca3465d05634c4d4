\* One block at first, as serializerPool has; two threads.
CONSTANTS
    Threads = {t1, t2}
    InitBlocks = 1
    MaxCalls = 5
SPECIFICATION Spec
SYMMETRY ThreadSymmetry
INVARIANTS
    EveryBlockInOnePlace
    CountersMatchStacks
    PopFindsBlockUnlessCountGrew
PROPERTIES
    IsBatchPool
\* All calls that the bound allows have returned, or the process has ended.
CHECK_DEADLOCK FALSE
