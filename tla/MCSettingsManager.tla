------------------------- MODULE MCSettingsManager -------------------------
(* Instances of SettingsManager for TLC.  The .cfg gives the bounds.       *)
EXTENDS SettingsManager
=============================================================================
