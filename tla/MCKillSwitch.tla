---------------------------- MODULE MCKillSwitch ----------------------------
(* Instances of KillSwitch for TLC.                                        *)
EXTENDS KillSwitch, TLC
=============================================================================
