------------------------------- MODULE MCCoin -------------------------------
(* Coin for TLC.                                                            *)
EXTENDS Coin

AllFaults  == Calls
SomeFaults == Calls \ {"disconnect"}
=============================================================================
