-------------------------- MODULE MCCommitPipeline --------------------------
(* Instances of CommitPipeline for TLC.                                    *)
EXTENDS CommitPipeline, TLC

CONSTANTS a, b, gw           \* stages a and b of gateway gw

GatewayMap == [s \in {a, b} |-> gw]

StageSymmetry == Permutations({a, b})
=============================================================================
