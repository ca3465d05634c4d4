\* Two sessions; the accept thread and two workers push over four nodes; with four jobs the
\* accept thread may push both new users while a worker pushes a receive or an end.
CONSTANTS
    PoolSize = 4
    Producers = {accept, w1, w2}
    AcceptThread = accept
    Sessions = {s0, s1}
    NULL = NULL
    MaxPushes = 2
    MaxJobs = 4
SPECIFICATION JobSpec
SYMMETRY WorkerSymmetry
INVARIANTS
    JobsInOrderUnlessDetached
CHECK_DEADLOCK FALSE
