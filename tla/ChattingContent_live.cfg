\* Two sessions, two packets in one sector: pushes, the event and the pops.
\* No symmetry, for there is a liveness property.
CONSTANTS
    Sessions = {s1, s2}
    Accounts = {7}
    Positions <- MCOnePosition
    MaxRecvs = 2
    MaxPackets = 2
SPECIFICATION Spec
PROPERTIES
    ClosedUserIsRemoved
CHECK_DEADLOCK FALSE
