\* Two threads that log twice each, the logging thread and the destructor.
CONSTANTS
    Writers = {w1, w2}
    Grow = 1
    NoMessage = NoMessage
    MaxLogs = 2
    CanFail = TRUE
SPECIFICATION Spec
INVARIANTS
    EveryMessageInOnePlace
    WrittenInOrder
PROPERTIES
    EveryLineIsWritten
    DestructorReturns
CHECK_DEADLOCK FALSE
