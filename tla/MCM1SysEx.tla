----------------------------- MODULE MCM1SysEx ------------------------------
EXTENDS M1SysEx, TLC

\* Contents are only compared for equality.
Symmetry == Permutations(Values)
=============================================================================
