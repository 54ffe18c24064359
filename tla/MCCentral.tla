----------------------------- MODULE MCCentral -----------------------------
(* Central for TLC: c1 is a coin of the data base, c2 was flashed with a    *)
(* key other than the central's, c3 has a bond but no space key (coin del   *)
(* stopped half way), c4 is a stranger.                                     *)
EXTENDS Central

CONSTANTS c1, c2, c3, c4, k1, k2

MCCoins    == {c1, c2, c3, c4}
MCBonded   == {c1, c2, c3}
MCKeys     == {k1, k2}
MCSpaceKey == [c \in MCCoins |-> IF c \in {c1, c2} THEN k1 ELSE NoKey]
MCCoinKey  == [c \in MCCoins |-> IF c = c2 THEN k2 ELSE k1]
AllFaults  == Calls
NoFaults   == {}
\* Every fault but those of the calls nothing retries.
SomeFaults == Calls \ {"scan_start", "disconnect", "bt_ready"}
=============================================================================
