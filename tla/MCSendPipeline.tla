---------------------------- MODULE MCSendPipeline ----------------------------
(* SendPipeline for TLC: chars of two bits, and who is sent to. *)
EXTENDS SendPipeline, TLC

CONSTANTS s1, s2, w1, w2, p1, p2, p3

Bit(a, i) == (a \div 2^i) % 2
XorBits(a, b) == MapThenSumSet(LAMBDA i : 2^i, {i \in 0 .. 1 : Bit(a, i) # Bit(b, i)})

To(sizes, lists) == {[size |-> n, to |-> l] : n \in sizes, l \in lists}
MCSends == <<To({1}, {<<s1, s2>>}), To({1, 2}, {<<s1>>}), To({2}, {<<s1>>})>>

Symmetry == Permutations(Workers) \union Permutations(Packets)
================================================================================
