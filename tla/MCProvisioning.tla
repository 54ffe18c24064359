--------------------------- MODULE MCProvisioning ---------------------------
(* Provisioning for TLC: a station with two slots, and data bases that       *)
(* differ in a coin, in a key whose first byte is the same or another, and   *)
(* in the identity; the last one has a coin more than the station has slots. *)
EXTENDS Synchronisation, TLC

CONSTANTS a1, a2, a3, k1, k1x, k2, i1, i2

MCAddrs == {a1, a2, a3}
MCKeys  == {k1, k1x, k2}
MCIds   == {i1, i2}
MCFirstByte ==
  [k \in MCKeys \cup {NoKey, BadKey} |-> IF k \in {k1, k1x} THEN 1 ELSE IF k = k2 THEN 2 ELSE 0]

Data(i, m) == [id |-> i, coins |-> [a \in MCAddrs |-> IF a \in DOMAIN m THEN m[a] ELSE NoKey]]

MCDataBases == {
  Data(i1, (a1 :> k1) @@ (a2 :> k1)),
  Data(i1, (a1 :> k1x)),
  Data(i1, (a1 :> k2)),
  Data(i2, (a2 :> k2) @@ (a3 :> k1)),
  Data(i1, (a1 :> k1) @@ (a2 :> k1) @@ (a3 :> k1)) }

NoFaults == {}
=============================================================================
