------------------------------ MODULE MCJobQueue ------------------------------
(* Symmetry for checking JobQueue with TLC.                                     *)
EXTENDS JobQueue, TLC

\* The workers are interchangeable.
WorkerSymmetry == Permutations(Producers \ {AcceptThread})
===============================================================================
