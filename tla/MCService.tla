----------------------------- MODULE MCService -----------------------------
(***************************************************************************)
(* The service process on a small instance: one worker, a short queue and  *)
(* a second attempt at running the gateway.                                *)
(***************************************************************************)
EXTENDS Service
============================================================================
