\* No reordering of store and load, so the packet is stranded by sendIO itself.
CONSTANTS
    maxSession = 1
    AcceptThread = accept
    Workers = {w1, w2}
    Contents = {content}
    NoSlot = NoSlot
    IDWrap = 65536
    SendQueueCap = 2
    SendBatch = 2
    PacketsPerRecv = 0
    MaxAccept = 1
    MaxSends = 3
    StoreLoadReorder = FALSE
SPECIFICATION Spec
INVARIANT QueuedPacketHasSender
\* The system stops when the bounds on accepts and sends are reached.
CHECK_DEADLOCK FALSE
