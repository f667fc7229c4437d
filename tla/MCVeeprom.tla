----------------------------- MODULE MCVeeprom -----------------------------
(***************************************************************************)
(* Small instances of the virtual EEPROM for TLC.                          *)
(***************************************************************************)
EXTENDS Veeprom, TLC

\* Instruments and payloads are only compared for equality.
Symmetry == Permutations(Instruments) \cup Permutations(Payloads)
=============================================================================
