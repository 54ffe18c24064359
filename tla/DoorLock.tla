------------------------------ MODULE DoorLock ------------------------------
(***************************************************************************)
(* What the base station promises about the door, without radio, buffers   *)
(* or timers: known coins come one at a time, a coin is challenged at most *)
(* once while it is there and its one answer is judged at most once; the   *)
(* judgement opens the door exactly for a coin whose key is the station's, *)
(* and the door shuts when the coin leaves.                                *)
(***************************************************************************)
CONSTANTS Coins, NoCoin, Bonded, Genuine

VARIABLES client, stage, door

lockVars == <<client, stage, door>>

Init == client = NoCoin /\ stage = "idle" /\ door = "shut"

Admit(c) ==
  /\ stage = "idle" /\ c \in Bonded
  /\ client' = c /\ stage' = "admitted" /\ door' = "shut"

Challenge ==
  /\ stage = "admitted"
  /\ stage' = "challenged" /\ UNCHANGED <<client, door>>

\* No random number could be drawn: this client gets no second chance.
Forfeit ==
  /\ stage = "admitted"
  /\ stage' = "spent" /\ UNCHANGED <<client, door>>

Judge ==
  /\ stage = "challenged"
  /\ stage' = "spent"
  /\ door' = IF client \in Genuine THEN "open" ELSE "shut"
  /\ UNCHANGED client

Leave ==
  /\ stage # "idle"
  /\ client' = NoCoin /\ stage' = "idle" /\ door' = "shut"

Next == \/ \E c \in Coins : Admit(c)
        \/ Challenge
        \/ Forfeit
        \/ Judge
        \/ Leave

Spec == Init /\ [][Next]_lockVars
=============================================================================
