----------------------------- MODULE MCCoreSave -----------------------------
(***************************************************************************)
(* Small instances of the main loop's save for TLC.                        *)
(***************************************************************************)
EXTENDS CoreSave
=============================================================================
