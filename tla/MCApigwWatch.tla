---------------------------- MODULE MCApigwWatch ----------------------------
(* Instances of ApigwWatch for TLC.                                        *)
EXTENDS ApigwWatch
=============================================================================
