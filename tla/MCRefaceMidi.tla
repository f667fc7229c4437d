---------------------------- MODULE MCRefaceMidi ----------------------------
EXTENDS RefaceMidi

MCOctaves == {0, 2}
=============================================================================
