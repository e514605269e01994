---------------------------- MODULE MCHotReload ----------------------------
(* Instances of HotReload for TLC.                                         *)
EXTENDS HotReload

CONSTANTS actions, models   \* two policies
=============================================================================
