-------------------------- MODULE MCLeaderElection --------------------------
(* Instances of LeaderElection for TLC.                                    *)
EXTENDS LeaderElection
=============================================================================
