------------------------------ MODULE MCKeyfob ------------------------------
(* Keyfob for TLC: c1 is a coin of the data base, c2 lost its key.          *)
EXTENDS Keyfob

CONSTANTS c1, c2, k1

MCCoins    == {c1, c2}
MCKeys     == {k1}
MCSpaceKey == [c \in MCCoins |-> k1]
MCCoinKey  == [c \in MCCoins |-> IF c = c1 THEN k1 ELSE NoKey]
\* A failing disconnection leaves the connection up after its judgement.
MCFaults   == {"disconnect"}
\* The default, two pieces, and all of the challenge in one.
MCMtus     == {23, 65, 69}
=============================================================================
