----------------------------- MODULE StageSync ------------------------------
(***************************************************************************)
(* What the synchronisation pipeline promises, without its channels,       *)
(* timers and goroutines: the control plane changes the configuration of a *)
(* key (a stage, or the global resources), and now and then the version    *)
(* found in the control plane is brought to APISIX.  Versions may be       *)
(* skipped, but APISIX is never taken back to an older one, nor to one the *)
(* control plane has not written yet.                                      *)
(***************************************************************************)
EXTENDS Naturals

CONSTANT Keys

VARIABLES
    written,    \* [Keys -> Nat]: version in the control plane
    synced      \* [Keys -> Nat]: version last applied to APISIX

Init == written = [k \in Keys |-> 0] /\ synced = [k \in Keys |-> 0]

Write(k) ==
    /\ written' = [written EXCEPT ![k] = @ + 1]
    /\ UNCHANGED synced

SyncTo(k) ==
    /\ \E v \in synced[k]..written[k] : synced' = [synced EXCEPT ![k] = v]
    /\ UNCHANGED written

Next == \E k \in Keys : Write(k) \/ SyncTo(k)

Spec == Init /\ [][Next]_<<written, synced>>
=============================================================================
