--------------------------- MODULE MCNodeManager ---------------------------
(* Bounded instances of NodeManager for TLC.                               *)
EXTENDS NodeManager, TLC

\* Callers are interchangeable (safety runs only).
CallerSymmetry == Permutations(Callers)
=============================================================================
