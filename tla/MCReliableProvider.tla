------------------------- MODULE MCReliableProvider -------------------------
(***************************************************************************)
(* ReliableProvider for TLC.                                               *)
(***************************************************************************)
EXTENDS ReliableProvider
=============================================================================
