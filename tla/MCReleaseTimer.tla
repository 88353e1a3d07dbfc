--------------------------- MODULE MCReleaseTimer ---------------------------
(* An instance of ReleaseTimer for TLC.                                    *)
EXTENDS ReleaseTimer
=============================================================================
