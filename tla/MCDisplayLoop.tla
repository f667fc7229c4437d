---------------------------- MODULE MCDisplayLoop ---------------------------
(***************************************************************************)
(* Small instances of the display, USB and UI part of the loop for TLC.    *)
(***************************************************************************)
EXTENDS DisplayLoop
=============================================================================
