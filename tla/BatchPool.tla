------------------------------ MODULE BatchPool ------------------------------
(* What ChunkPool promises the threads: a batch of nodes is free or out, it is *)
(* handed out once until it is given back, and new ones are made on demand.    *)

CONSTANT Batch

VARIABLES free, out

Init == free \subseteq Batch /\ out = {}

Take ==
    \E b \in free : free' = free \ {b} /\ out' = out \cup {b}

Make ==
    /\ \E b \in Batch \ (free \cup out) : out' = out \cup {b}
    /\ UNCHANGED free

Return ==
    \E b \in out : out' = out \ {b} /\ free' = free \cup {b}

Spec == Init /\ [][Take \/ Make \/ Return]_<<free, out>>
==============================================================================
