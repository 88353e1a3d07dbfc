----------------------------- MODULE StageStore -----------------------------
(***************************************************************************)
(* What the store promises those who call it, without its caches, watches, *)
(* phases and intervals: while an Alter is in progress the resources of    *)
(* its owner move towards the wanted configuration, one at a time, and     *)
(* nothing else changes; it may break off anywhere; and one that returns   *)
(* no error has arrived.  This is what CommitPipeline makes of an Alter.   *)
(***************************************************************************)
CONSTANTS
    Targets,    \* [owners -> the sets of entries that may be asked for]
    OwnerOf     \* [ids -> owners]

VARIABLES
    stored,     \* the entries [type, id, spec] in the APISIX etcd
    goal        \* the Alter in progress: [owner, conf, state], or NoGoal

NoGoal == <<>>
Goals  == UNION {[owner : {o}, conf : Targets[o], state : {"busy"}] : o \in DOMAIN Targets}

Place(e) == <<e.type, e.id>>
Of(o)    == {e \in stored : OwnerOf[e.id] = o}

Init == stored = {} /\ goal = NoGoal

(* The next Alter begins, or none for the time being.                      *)
Ask ==
    /\ goal = NoGoal \/ goal.state = "done"
    /\ goal' \in Goals \union {NoGoal}
    /\ UNCHANGED stored

Put(e) ==
    /\ e \in goal.conf \ stored
    /\ stored' = {x \in stored : Place(x) # Place(e)} \union {e}

Remove(e) ==
    /\ e \in Of(goal.owner)
    /\ \A w \in goal.conf : Place(w) # Place(e)
    /\ stored' = stored \ {e}

(* The answer to a request that was carried out may be an error.           *)
Move ==
    /\ goal # NoGoal /\ goal.state = "busy"
    /\ (\E e \in goal.conf : Put(e)) \/ (\E e \in stored : Remove(e))
    /\ goal' \in {goal, NoGoal}

Arrive ==
    /\ goal # NoGoal /\ goal.state = "busy"
    /\ Of(goal.owner) = goal.conf
    /\ goal' = [goal EXCEPT !.state = "done"]
    /\ UNCHANGED stored

BreakOff == goal' = NoGoal /\ UNCHANGED stored

Next == Ask \/ Move \/ Arrive \/ BreakOff

Spec == Init /\ [][Next]_<<stored, goal>>
=============================================================================
