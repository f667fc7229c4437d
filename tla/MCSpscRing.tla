----------------------------- MODULE MCSpscRing -----------------------------
(***************************************************************************)
(* A small instance of the receive ring for TLC.                           *)
(***************************************************************************)
EXTENDS SpscRing
=============================================================================
