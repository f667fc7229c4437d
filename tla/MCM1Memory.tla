----------------------------- MODULE MCM1Memory -----------------------------
EXTENDS M1Memory

CONSTANTS old, new

MCPreload == [s \in 0 .. LastSector |-> old]
MCContents == {old, new}
=============================================================================
