-------------------------- MODULE MCApisixRegistry --------------------------
(* Instances of ApisixRegistry for TLC.                                    *)
EXTENDS ApisixRegistry
=============================================================================
