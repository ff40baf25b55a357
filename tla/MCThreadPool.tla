---------------------------- MODULE MCThreadPool ----------------------------
(***************************************************************************)
(* ThreadPool for TLC.                                                     *)
(***************************************************************************)
EXTENDS ThreadPool, TLC

Symmetry == Permutations(Workers) \cup Permutations(Items)
=============================================================================
