\* Two sessions, three packets, two of each; three sectors: a corner, its
\* neighbour, and one at the other edge that neither touches.
CONSTANTS
    Sessions = {s1, s2}
    Accounts = {7}
    Positions <- MCPositions
    MaxRecvs = 2
    MaxPackets = 3
SPECIFICATION Spec
SYMMETRY SessionSymmetry
INVARIANTS
    TypeOK
    TablesAgree
    HandledJobHasUser
    PacketsHeldByJobs
PROPERTIES
    MessageReachesNeighbours
\* Every session may be closed and handled, and a crash ends the process.
CHECK_DEADLOCK FALSE
