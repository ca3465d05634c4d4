-------------------------- MODULE MCChattingContent --------------------------
(* Sectors and symmetry for checking ChattingContent with TLC.                 *)
EXTENDS ChattingContent, TLC

\* A corner, the sector diagonally next to it, and one on the far edge.
MCPositions == {<<0, 0>>, <<1, 1>>, <<50, 2>>}
MCOnePosition == {<<0, 0>>}

\* Sessions are interchangeable.
SessionSymmetry == Permutations(Sessions)
=============================================================================
