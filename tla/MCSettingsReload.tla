-------------------------- MODULE MCSettingsReload --------------------------
(* Instances of SettingsReload for TLC.                                    *)
EXTENDS SettingsReload, TLC
=============================================================================
