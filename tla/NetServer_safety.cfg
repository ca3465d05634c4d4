\* One slot, used twice; two workers and one sender. PacketsPerRecv 1 lets a
\* receive hold no packet or one; SendQueueCap 2 and SendBatch 1 leave a packet
\* behind a full batch.
CONSTANTS
    maxSession = 1
    AcceptThread = accept
    Workers = {w1, w2}
    Contents = {content}
    NoSlot = NoSlot
    IDWrap = 65536
    SendQueueCap = 2
    SendBatch = 1
    PacketsPerRecv = 1
    MaxAccept = 2
    MaxSends = 2
    StoreLoadReorder = TRUE
SPECIFICATION Spec
INVARIANTS
    TypeOK
    RefCountExact
    HeldSessionIsLive
    SlotOwnedOnce
    OneOperationAtATime
    RecvBetweenCallbacks
PROPERTIES
    CallbacksInOrder
    ReuseIsClean
\* The system stops when the bounds on accepts and sends are reached.
CHECK_DEADLOCK FALSE
