---------------------------- MODULE MCSpaceKeys ----------------------------
(* SpaceKeys for TLC: one coin more than the table has slots.              *)
EXTENDS SpaceKeys, TLC

CONSTANTS a1, a2, a3, k1, k2

MCAddrs   == {a1, a2, a3}
MCKeys    == {k1, k2}
AllFaults == {"save", "read", "erase"}
NoFaults  == {}

\* Nothing distinguishes two addresses or two keys.
Same == Permutations(MCAddrs) \cup Permutations(MCKeys)
=============================================================================
