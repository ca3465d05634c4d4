\* A ring of 8 cells, headers of 2 bytes, payloads of 0 and of 3 bytes, so
\* that a packet starts at every cell and several lie in the buffer at once.
CONSTANTS
    BufferSize = 8
    HeaderSize = 2
    PayloadSizes = {0, 3}
    MaxPackets = 3
    MaxConnections = 2
SPECIFICATION FairSpec
INVARIANTS
    UnreadIsStream
    PostedCellsAreFree
    NoPacketWaits
PROPERTIES
    IsPacketStream
    EverythingIsDelivered
\* The last connection ends, or a receive fills the buffer.
CHECK_DEADLOCK FALSE
