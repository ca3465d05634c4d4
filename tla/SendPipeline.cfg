\* Two sessions and two workers; packets of one and of two bytes of text.
CONSTANTS
    ByteSize = 4
    Xor <- XorBits
    staticKey = 2
    s1 = s1
    s2 = s2
    w1 = w1
    w2 = w2
    p1 = p1
    p2 = p2
    p3 = p3
    Sessions = {s1, s2}
    Workers = {w1, w2}
    Packets = {p1, p2, p3}
    Nobody = Nobody
    HeaderSize = 5
    Sends <- MCSends
    RandKeys = {1}
    SendQueueCap = 2
    SendBatch = 2
    MaxAccept = 2
    MaxFaults = 2
SYMMETRY Symmetry
SPECIFICATION Spec
INVARIANTS
    RefsExact
    PendingSendIsIntact
    SendedPopsWhatWasSent
    ClientReadsUnlessBroadcast
    InOrderUnlessRaced
CHECK_DEADLOCK FALSE
