------------------------------- MODULE KeyMap -------------------------------
(***************************************************************************)
(* What the table of space keys promises, without slots: a map from        *)
(* addresses to keys that refuses a new address only when it is full, says *)
(* whether a deleted address was there, refuses what is no address, and is *)
(* empty after a reset.                                                    *)
(* `result' is what the last spacekey_add or spacekey_del returned.        *)
(***************************************************************************)
EXTENDS Integers, FiniteSets

CONSTANTS Addrs, Keys, NoKey, BadKey, Capacity

VARIABLES map, result

mapVars == <<map, result>>

Empty   == [a \in Addrs |-> NoKey]
Present == {a \in Addrs : map[a] # NoKey}
Room(a) == a \in Present \/ Cardinality(Present) < Capacity

Init == map = Empty /\ result = "none"

Put(a, k) ==
  /\ Room(a)
  /\ map' = [map EXCEPT ![a] = k] /\ result' = "ok"

Refuse(a) ==
  /\ ~Room(a)
  /\ result' = "ENOSPC" /\ UNCHANGED map

Remove(a) ==
  /\ a \in Present
  /\ map' = [map EXCEPT ![a] = NoKey] /\ result' = "ok"

Missing(a) ==
  /\ a \notin Present
  /\ result' = "ENOENT" /\ UNCHANGED map

\* An addition or a deletion of no address.
Invalid == result' = "EINVAL" /\ UNCHANGED map

\* A record of the persistent store reaches the map; a record that cannot be
\* read may spoil the key it was to replace.
Record(a, k) ==
  /\ Room(a)
  /\ map' = [map EXCEPT ![a] = k] /\ UNCHANGED result

Forget(a) == map' = [map EXCEPT ![a] = NoKey] /\ UNCHANGED result

Damage(a) ==
  /\ a \in Present
  /\ map' = [map EXCEPT ![a] = BadKey] /\ UNCHANGED result

Reset == map' = Empty /\ result' = "none"

Next ==
  \/ \E a \in Addrs, k \in Keys : Put(a, k) \/ Record(a, k)
  \/ \E a \in Addrs : Refuse(a) \/ Remove(a) \/ Missing(a) \/ Forget(a) \/ Damage(a)
  \/ Invalid
  \/ Reset

Spec == Init /\ [][Next]_mapVars
=============================================================================
