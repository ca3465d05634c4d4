----------------------------- MODULE MCNetServer -----------------------------
(* Model values, symmetry and bounds for checking NetServer with TLC.          *)
EXTENDS NetServer, TLC

\* The workers are interchangeable.
WorkerSymmetry == Permutations(Workers)
=============================================================================
