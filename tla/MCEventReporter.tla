-------------------------- MODULE MCEventReporter ---------------------------
(* Instances of EventReporter for TLC.                                     *)
EXTENDS EventReporter
=============================================================================
