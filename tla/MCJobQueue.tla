----------------------------- MODULE MCJobQueue -----------------------------
(***************************************************************************)
(* JobQueue for TLC.                                                       *)
(***************************************************************************)
EXTENDS JobQueue, TLC

Symmetry == Permutations(Keys) \cup Permutations(Workers)
=============================================================================
