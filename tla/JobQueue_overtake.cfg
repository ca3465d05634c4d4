\* Two sessions; the accept thread and two workers push over four nodes; the shortest
\* overtaking takes five jobs.
CONSTANTS
    PoolSize = 4
    Producers = {accept, w1, w2}
    AcceptThread = accept
    Sessions = {s0, s1}
    NULL = NULL
    MaxPushes = 2
    MaxJobs = 5
SPECIFICATION JobSpec
SYMMETRY WorkerSymmetry
INVARIANT EveryJobFindsItsUser
CHECK_DEADLOCK FALSE
