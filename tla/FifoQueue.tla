------------------------------ MODULE FifoQueue ------------------------------
(* What LockFreeQueue promises its users: a list of values that grows only at  *)
(* its end and loses values only at its front.  One step may add several.      *)
EXTENDS Naturals, Sequences

VARIABLE items

Init == items = <<>>

\* One or more pushes take effect; what was in the queue stays where it is.
Enqueue ==
    /\ Len(items') > Len(items)
    /\ SubSeq(items', 1, Len(items)) = items

Dequeue ==
    /\ items # <<>>
    /\ items' = Tail(items)

Spec == Init /\ [][Enqueue \/ Dequeue]_items
=============================================================================
