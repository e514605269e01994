--------------------------- MODULE MCGDrivePoller ---------------------------
(* Instances of GDrivePoller for TLC.                                      *)
EXTENDS GDrivePoller
=============================================================================
