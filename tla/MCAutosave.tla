----------------------------- MODULE MCAutosave -----------------------------
(***************************************************************************)
(* Small instances of the autosave task for TLC.                           *)
(***************************************************************************)
EXTENDS Autosave
=============================================================================
