----------------------------- MODULE MCJobHold -----------------------------
(***************************************************************************)
(* JobHold for TLC: who wrote the messages.                                *)
(***************************************************************************)
EXTENDS JobHold

OneContact == [m \in Msgs |-> "ann"]
=============================================================================
