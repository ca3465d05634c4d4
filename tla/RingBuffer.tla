------------------------------ MODULE RingBuffer ------------------------------
(***************************************************************************)
(* The ring buffer (ringBuffer.h, ringBuffer.cpp) as operators on a record: *)
(* the cells, and headPtr and tailPtr as offsets into them.  headPtr is the *)
(* cell before the first unread one, so one cell is never used.             *)
(***************************************************************************)
EXTENDS Integers, Sequences

CONSTANT BufferSize   \* a power of two, to which the constructor rounds up

ASSUME BufferSizeAssumption ==
    /\ BufferSize \in Nat /\ BufferSize >= 2
    /\ \E e \in 1 .. BufferSize : BufferSize = 2 ^ e

MaxSize == BufferSize - 1
Cells   == 0 .. BufferSize - 1

\* x & _maxSize, on which a difference of pointers may be negative.
Wrap(x) == x % BufferSize

Min2(a, b) == IF a < b THEN a ELSE b

Empty(cells) == [cells |-> cells, headPtr |-> 0, tailPtr |-> 0]

size(rb)     == Wrap(rb.tailPtr - rb.headPtr + BufferSize)
freeSize(rb) == Wrap(MaxSize - (rb.tailPtr - rb.headPtr + BufferSize))
head(rb) == Wrap(rb.headPtr + 1)
tail(rb) == Wrap(rb.tailPtr + 1)

\* Cells that may be written, or read, without going round the end.
DirectEnqueueSize(rb) ==
    IF tail(rb) <= rb.headPtr THEN rb.headPtr - tail(rb)
    ELSE BufferSize - tail(rb)
DirectDequeueSize(rb) ==
    IF head(rb) <= tail(rb) THEN tail(rb) - head(rb)
    ELSE BufferSize - head(rb)

MoveRear(rb, n) == [rb EXCEPT !.tailPtr = Wrap(@ + Min2(n, freeSize(rb)))]

\* Reading copies up to the end of the cells and then from their beginning.
front(rb, n) ==
    LET d == DirectDequeueSize(rb)
    IN  [i \in 1 .. Min2(n, size(rb)) |->
            rb.cells[IF i <= d THEN head(rb) + i - 1 ELSE i - d - 1]]
pop(rb, n) == [rb EXCEPT !.headPtr = Wrap(@ + Min2(n, size(rb)))]

clear(rb) == [rb EXCEPT !.headPtr = rb.tailPtr]
=============================================================================
