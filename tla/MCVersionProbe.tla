--------------------------- MODULE MCVersionProbe ---------------------------
(* Instances of VersionProbe for TLC.                                      *)
EXTENDS VersionProbe
=============================================================================
