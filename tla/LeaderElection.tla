--------------------------- MODULE LeaderElection ---------------------------
(***************************************************************************)
(* pkg/leaderelection/etcd_election.go and its use by the runner           *)
(* (pkg/core/runner/etcd.go) and the agent: of several instances of the    *)
(* operator, the one whose key is the oldest under the election prefix     *)
(* runs its agent.  A key lives as long as the lease of its session, which *)
(* the instance keeps alive.  An instance that is told of its session's    *)
(* end by closeCh stops its agent, with it the process, and is started     *)
(* again by its environment.                                               *)
(***************************************************************************)
EXTENDS Integers, FiniteSets

CONSTANTS
    Instances,
    MaxTroubles          \* bound of the exploration: losses, errors and exits

VARIABLES
    main,        \* [Instances -> "waiting" | "woken" | "acting" | "down"]: the
                 \* goroutine of runner.Run
    elect,       \* [Instances -> "campaign" | "queued" | "leader" | "renew" | "ended"]:
                 \* the goroutine of elect and checkLeadership
    gen,         \* [Instances -> Nat]: number of its session, and of its channels
    waitGen,     \* [Instances -> Nat]: generation of the leadingCh main waits for
    heldGen,     \* [Instances -> Nat]: generation of the closeCh the agent selects on
    rev,         \* [Instances -> Nat]: creation revision of its campaign key
    cancelled,   \* [Instances -> BOOLEAN]: the root context is
    keepAlive,   \* [Instances -> BOOLEAN]: the session's keep-alives get through
    done,        \* [Instances -> BOOLEAN]: session.Done() is closed
    leases,      \* sessions [inst, gen] whose lease etcd holds
    keys,        \* [inst, gen, rev]: campaign keys in etcd
    newRev,      \* revision of the next key
    troubles     \* bound counter

electVars == <<main, elect, gen, waitGen, heldGen, rev, cancelled>>
etcdVars  == <<keepAlive, done, leases, keys, newRev>>
vars      == <<electVars, etcdVars, troubles>>

Session(i)   == [inst |-> i, gen |-> gen[i]]
SessionOf(k) == [inst |-> k.inst, gen |-> k.gen]
Alive(i)     == main[i] # "down"

Trouble == troubles < MaxTroubles /\ troubles' = troubles + 1

-----------------------------------------------------------------------------
(* Campaign puts the key, or finds the one an earlier call has put, and    *)
(* waits until no older one is left.  With an expired lease it fails, over *)
(* and over.                                                               *)
Campaign(i) ==
    /\ Alive(i) /\ elect[i] = "campaign" /\ ~cancelled[i]
    /\ Session(i) \in leases
    /\ elect' = [elect EXCEPT ![i] = "queued"]
    /\ LET own == {k \in keys : SessionOf(k) = Session(i)} IN
        IF own = {}
        THEN /\ keys' = keys \union {[inst |-> i, gen |-> gen[i], rev |-> newRev]}
             /\ rev' = [rev EXCEPT ![i] = newRev]
             /\ newRev' = newRev + 1
        ELSE UNCHANGED <<keys, rev, newRev>>
    /\ UNCHANGED <<main, gen, waitGen, heldGen, cancelled, keepAlive, done, leases, troubles>>

(* An error of etcd ends the wait; five seconds later elect tries again.   *)
CampaignFails(i) ==
    /\ Alive(i) /\ elect[i] = "queued" /\ ~cancelled[i]
    /\ Trouble
    /\ elect' = [elect EXCEPT ![i] = "campaign"]
    /\ UNCHANGED <<main, gen, waitGen, heldGen, rev, cancelled, etcdVars>>

(* Campaign looks for older keys only: its own may be gone by then.        *)
FirstInLineNext(i) == \A k \in keys : k.rev # rev[i] - 1   \* mutant: only the next older key
FirstInLine(i)     == \A k \in keys : k.rev >= rev[i]

Elected(i) ==
    /\ Alive(i) /\ elect[i] = "queued" /\ ~cancelled[i]
    /\ FirstInLine(i)
    /\ elect' = [elect EXCEPT ![i] = "leader"]
    /\ UNCHANGED <<main, gen, waitGen, heldGen, rev, cancelled, etcdVars, troubles>>

(* WaitForLeading, called once by each process: leadingCh of the first     *)
(* session, then whichever closeCh there is.                               *)
LeadingNot(i) == gen[i] > waitGen[i]                \* mutant: leadingCh stays open
Leading(i)    == gen[i] > waitGen[i] \/ elect[i] \in {"leader", "renew", "ended"}

Wake(i) ==
    /\ main[i] = "waiting"
    /\ Leading(i)
    /\ main' = [main EXCEPT ![i] = "woken"]
    /\ UNCHANGED <<elect, gen, waitGen, heldGen, rev, cancelled, etcdVars, troubles>>

ReadCloseCh(i) ==
    /\ main[i] = "woken"
    /\ main' = [main EXCEPT ![i] = "acting"]
    /\ heldGen' = [heldGen EXCEPT ![i] = gen[i]]
    /\ UNCHANGED <<elect, gen, waitGen, rev, cancelled, etcdVars, troubles>>

(* checkLeadership: the session is done: closeCh is closed ...             *)
LeadershipLost(i) ==
    /\ Alive(i) /\ elect[i] = "leader" /\ done[i]
    /\ elect' = [elect EXCEPT ![i] = "renew"]
    /\ UNCHANGED <<main, gen, waitGen, heldGen, rev, cancelled, etcdVars, troubles>>

(* ... and initElection makes a new session and new channels.              *)
NewSession(i) ==
    /\ gen' = [gen EXCEPT ![i] = @ + 1]
    /\ leases' = leases \union {[inst |-> i, gen |-> gen[i] + 1]}
    /\ keepAlive' = [keepAlive EXCEPT ![i] = TRUE]
    /\ done' = [done EXCEPT ![i] = FALSE]
    /\ elect' = [elect EXCEPT ![i] = "campaign"]

Renew(i) ==
    /\ Alive(i) /\ elect[i] = "renew"
    /\ NewSession(i)
    /\ UNCHANGED <<main, waitGen, heldGen, rev, cancelled, keys, newRev, troubles>>

(* The context is cancelled by a signal.  A leader revokes its lease, a    *)
(* campaigner deletes its key.                                             *)
Cancel(i) ==
    /\ Alive(i) /\ ~cancelled[i]
    /\ Trouble
    /\ cancelled' = [cancelled EXCEPT ![i] = TRUE]
    /\ UNCHANGED <<main, elect, gen, waitGen, heldGen, rev, etcdVars>>

CloseSession(i) ==
    /\ Alive(i) /\ elect[i] = "leader" /\ cancelled[i]
    /\ leases' = leases \ {Session(i)}
    /\ keys' = {k \in keys : SessionOf(k) # Session(i)}
    /\ done' = [done EXCEPT ![i] = TRUE]
    /\ elect' = [elect EXCEPT ![i] = "ended"]
    /\ UNCHANGED <<main, gen, waitGen, heldGen, rev, cancelled, keepAlive, newRev, troubles>>

Resign(i) ==
    /\ Alive(i) /\ elect[i] = "queued" /\ cancelled[i]
    /\ keys' = {k \in keys : SessionOf(k) # Session(i)}
    /\ elect' = [elect EXCEPT ![i] = "campaign"]
    /\ UNCHANGED <<main, gen, waitGen, heldGen, rev, cancelled, keepAlive, done, leases, newRev,
                   troubles>>

(* The end of a process; what it kept in memory is gone.                   *)
Down(i) ==
    /\ main' = [main EXCEPT ![i] = "down"]
    /\ elect' = [elect EXCEPT ![i] = "campaign"]
    /\ heldGen' = [heldGen EXCEPT ![i] = 0]
    /\ rev' = [rev EXCEPT ![i] = 0]
    /\ cancelled' = [cancelled EXCEPT ![i] = FALSE]
    /\ keepAlive' = [keepAlive EXCEPT ![i] = FALSE]
    /\ done' = [done EXCEPT ![i] = FALSE]
    /\ UNCHANGED <<gen, waitGen, leases, keys, newRev>>

(* The agent returns, and the process ends: at the close of the channel it *)
(* selects on, at the end of the context, or by os.Exit.                   *)
ToldToStop(i) == cancelled[i] \/ heldGen[i] < gen[i] \/ elect[i] \in {"renew", "ended"}

AgentStopsCtx(i) ==                                 \* mutant: keepAliveChan is not selected
    /\ main[i] = "acting" /\ cancelled[i]
    /\ Down(i)
    /\ UNCHANGED troubles
AgentStops(i) ==
    /\ main[i] = "acting"
    /\ ToldToStop(i)
    /\ Down(i)
    /\ UNCHANGED troubles

Exit(i) ==
    /\ Alive(i) /\ cancelled[i]
    /\ Down(i)
    /\ UNCHANGED troubles

Crash(i) ==
    /\ Alive(i)
    /\ Trouble
    /\ Down(i)

(* A new process: runner.Run up to WaitForLeading.                         *)
Start(i) ==
    /\ main[i] = "down"
    /\ NewSession(i)
    /\ main' = [main EXCEPT ![i] = "waiting"]
    /\ waitGen' = [waitGen EXCEPT ![i] = gen[i] + 1]
    /\ UNCHANGED <<heldGen, rev, cancelled, keys, newRev, troubles>>

-----------------------------------------------------------------------------
(* The session: keep-alives fail for as long as the lease lasts; then etcd *)
(* drops the lease with its key, and the client closes session.Done(), in  *)
(* either order.                                                           *)
LoseSession(i) ==
    /\ Alive(i) /\ keepAlive[i]
    /\ Trouble
    /\ keepAlive' = [keepAlive EXCEPT ![i] = FALSE]
    /\ UNCHANGED <<electVars, done, leases, keys, newRev>>

NoticeLoss(i) ==
    /\ Alive(i) /\ ~keepAlive[i] /\ ~done[i]
    /\ done' = [done EXCEPT ![i] = TRUE]
    /\ UNCHANGED <<electVars, keepAlive, leases, keys, newRev, troubles>>

KeptAlive(s) == s.gen = gen[s.inst] /\ Alive(s.inst) /\ keepAlive[s.inst]

WithoutLease(s) == keys                             \* mutant: keys put without the lease
Without(s)      == {k \in keys : SessionOf(k) # s}

Expire(s) ==
    /\ s \in leases /\ ~KeptAlive(s)
    /\ leases' = leases \ {s}
    /\ keys' = Without(s)
    /\ UNCHANGED <<electVars, keepAlive, done, newRev, troubles>>

-----------------------------------------------------------------------------
Init ==
    /\ main = [i \in Instances |-> "waiting"]
    /\ elect = [i \in Instances |-> "campaign"]
    /\ gen = [i \in Instances |-> 1] /\ waitGen = gen
    /\ heldGen = [i \in Instances |-> 0]
    /\ rev = [i \in Instances |-> 0]
    /\ cancelled = [i \in Instances |-> FALSE]
    /\ keepAlive = [i \in Instances |-> TRUE]
    /\ done = [i \in Instances |-> FALSE]
    /\ leases = {Session(i) : i \in Instances}
    /\ keys = {} /\ newRev = 1
    /\ troubles = 0

ElectStep(i) ==
    Campaign(i) \/ Elected(i) \/ LeadershipLost(i) \/ Renew(i) \/ CloseSession(i) \/ Resign(i)

MainStep(i) == Wake(i) \/ ReadCloseCh(i) \/ AgentStops(i) \/ Exit(i)

Next ==
    \/ \E i \in Instances :
        \/ ElectStep(i) \/ MainStep(i) \/ NoticeLoss(i) \/ Start(i)
        \/ LoseSession(i) \/ CampaignFails(i) \/ Cancel(i) \/ Crash(i)
    \/ \E s \in leases : Expire(s)

ExpireStep == \E s \in leases : Expire(s)

Spec     == Init /\ [][Next]_vars
FairSpec ==
    /\ Spec
    /\ WF_vars(ExpireStep)
    /\ \A i \in Instances :
        /\ WF_vars(ElectStep(i)) /\ WF_vars(MainStep(i))
        /\ WF_vars(NoticeLoss(i)) /\ WF_vars(Start(i))

-----------------------------------------------------------------------------
(* Type invariant; a key has a lease that etcd still holds.                *)
TypeOK ==
    /\ main \in [Instances -> {"waiting", "woken", "acting", "down"}]
    /\ elect \in [Instances -> {"campaign", "queued", "leader", "renew", "ended"}]
    /\ gen \in [Instances -> Nat] /\ waitGen \in [Instances -> Nat]
    /\ heldGen \in [Instances -> Nat] /\ rev \in [Instances -> Nat]
    /\ cancelled \in [Instances -> BOOLEAN]
    /\ keepAlive \in [Instances -> BOOLEAN] /\ done \in [Instances -> BOOLEAN]
    /\ leases \subseteq [inst : Instances, gen : Nat]
    /\ keys \subseteq [inst : Instances, gen : Nat, rev : Nat]
    /\ \A k \in keys : SessionOf(k) \in leases
    /\ newRev \in Nat

(* An instance whose agent will run on: its context is alive, the channel  *)
(* its agent selects on is open, and its session is kept alive.            *)
Stays(i) == main[i] = "acting" /\ ~ToldToStop(i) /\ keepAlive[i]

(* WaitForLeading looks at closeCh after leadingCh, without a lock: it may *)
(* return the channel of a session after the one it waited for.            *)
Heard(i) == heldGen[i] = waitGen[i]

(* Two agents with the channel of the session that was elected run at a    *)
(* time only while one of them is on its way out.                          *)
AtMostOneLeader == \A i, j \in Instances :
    Stays(i) /\ Stays(j) /\ Heard(i) /\ Heard(j) => i = j

(* Such an agent stops when its session is lost.                           *)
StopsOnLoss == \A i \in Instances :
    (main[i] = "acting" /\ Heard(i) /\ ~keepAlive[i]) ~> main[i] # "acting"

(* elect calls Campaign again and again with the session it has, also when *)
(* that has expired: the instance is never elected.                        *)
Stuck(i) == Alive(i) /\ elect[i] = "campaign" /\ Session(i) \notin leases

(* When the disturbances end there is an acting leader, for good, unless   *)
(* all the instances are left like that.                                   *)
ElectionCompletes == <>[]((\E i \in Instances : Stays(i)) \/ (\A i \in Instances : Stuck(i)))
=============================================================================
