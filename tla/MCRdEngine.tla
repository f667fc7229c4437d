----------------------------- MODULE MCRdEngine -----------------------------
EXTENDS RdEngine

CONSTANTS slow, fast

\* The instrument of the higher rate has the lower limit.
MCBase == [i \in Instruments |-> IF i = slow THEN 2 ELSE 1]

\* The player's channel (or omni), and a channel nobody plays on.
MCSettings == {Channels, {}}
=============================================================================
