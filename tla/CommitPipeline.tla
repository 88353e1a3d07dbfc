--------------------------- MODULE CommitPipeline ---------------------------
(***************************************************************************)
(* The path of a change from the control plane's watch channel to the      *)
(* APISIX etcd:                                                            *)
(*   pkg/core/agent/agent.go          EventAgent, one goroutine            *)
(*   pkg/core/committer/committer.go  Committer: a loop that commits the   *)
(*                                    keys of a group in parallel, the     *)
(*                                    stages of a gateway one at a time    *)
(*   pkg/core/synchronizer            Sync, under flushMux                 *)
(*   pkg/eventreporter                the version probe, which keeps the   *)
(*                                    gateway's slot after the commit, and *)
(*                                    the event queue (EventQueue), on     *)
(*                                    which reported commits and probes    *)
(*                                    wait while it is full                *)
(* The timer is the sync.Map of ReleaseTimer with Update and the taking of *)
(* an entry as single steps, and with time left out: any set of waiting    *)
(* keys may be due.  A configuration is its version number.                *)
(***************************************************************************)
EXTENDS Naturals, Sequences, FiniteSets

CONSTANTS
    Stages,         \* release ids of the stages
    Global,         \* GlobalResourceKey
    Gateways,
    GatewayOf,      \* [Stages -> Gateways]
    None,
    ChanSize,       \* capacity of commitResourceChan
    SegmentLength,  \* keys committed in parallel
    ProbeSize,      \* capacity of versionProbe.chain
    MaxRetry,       \* maxStageRetryCount
    MaxEvents, MaxFailures, MaxPanics, MaxGlobalPanics, MaxCleanups
                    \* bounds of the exploration

ASSUME GlobalAssumption  == Global \notin Stages
ASSUME GatewayAssumption == GatewayOf \in [Stages -> Gateways]
ASSUME SizeAssumption    == /\ ChanSize \in Nat \ {0}
                            /\ SegmentLength \in Nat \ {0}
                            /\ ProbeSize \in Nat \ {0}
                            /\ MaxRetry \in Nat

Keys  == Stages \union {Global}
Infos == [key : Keys, report : BOOLEAN, retry : 0..MaxRetry]

ASSUME NoneAssumption == None \notin Infos

(* put: a resource is written; delete: one is removed; release: the        *)
(* bk-release key of a publish; remove: the one with DeletePublishID.      *)
Events == [op : {"put", "delete", "release", "remove"}, key : Keys,
           ver : Nat, report : BOOLEAN]

VARIABLES
    queue,       \* the event queue: "open", "full", "clogged"
    written,     \* [Keys -> Nat]: version of the configuration in the control plane
    watch,       \* Seq(Events): watch channel of the agent
    timer,       \* [Keys -> Infos or None]
    outbox,      \* SUBSET Infos: the list the agent is sending
    commitChan,  \* Seq(SUBSET Infos): commitResourceChan
    batch,       \* SUBSET Infos: what the committer has left of a received list
    job,         \* [Keys -> record]: the commit goroutine of a key
    chanOf,      \* [Gateways -> Nat]: gatewayStageChanMap, 0 if absent
    made,        \* number of gateway channels created
    token,       \* channels whose one buffer place is taken
    probes,      \* version probes in progress
    synced,      \* [Keys -> Nat]: version last applied to APISIX
    \* history
    due,         \* [Keys -> Nat]: version of the last event that asks for a commit
    settled,     \* [Keys -> Nat]: version up to which changes are synced or given up
    events, failures, panics, globalPanics, cleanups   \* bound counters

agentVars == <<watch, timer, outbox>>
slotVars  == <<chanOf, made, token, probes>>
bounds    == <<events, failures, panics, globalPanics, cleanups>>
vars == <<queue, written, watch, timer, outbox, commitChan, batch, job, chanOf, made,
          token, probes, synced, due, settled, events, failures, panics, globalPanics,
          cleanups>>
pathVars == <<written, agentVars, commitChan, batch, job, slotVars, synced, due, settled,
              bounds>>

EventQ == INSTANCE EventQueue

NoJob == [pc |-> "none", report |-> FALSE, retry |-> 0, snap |-> 0, began |-> 0, chan |-> 0]

Larger(a, b) == IF a > b THEN a ELSE b

-----------------------------------------------------------------------------
(* The control plane: a resource is put or deleted, a publish is announced,*)
(* a stage is removed.  Every write is an event of the agent's watch.      *)
Announce(op, k, v, r) ==
    /\ events < MaxEvents
    /\ events' = events + 1
    /\ watch' = Append(watch, [op |-> op, key |-> k, ver |-> v, report |-> r])
    /\ UNCHANGED <<queue, timer, outbox, commitChan, batch, job, slotVars, synced, due, settled,
                   failures, panics, globalPanics, cleanups>>

PutResource(k, r) ==
    /\ written' = [written EXCEPT ![k] = @ + 1]
    /\ Announce("put", k, written[k] + 1, r)

DeleteResource(k) ==
    /\ written' = [written EXCEPT ![k] = @ + 1]
    /\ Announce("delete", k, written[k] + 1, FALSE)

Publish(k, op) ==
    /\ Announce(op, k, written[k], FALSE)
    /\ UNCHANGED written

-----------------------------------------------------------------------------
(* The agent.                                                              *)
AgentReady == outbox = {}
Waiting    == {k \in Keys : timer[k] # None}
Fresh(e)   == [key |-> e.key, report |-> e.report, retry |-> 0]

(* handleEvent skips the deletion of a resource of a stage.  (It skips as  *)
(* well what is labelled with no gateway and no stage; every key of the    *)
(* model has both.)                                                        *)
Skipped(e) == e.op = "delete" /\ e.key # Global

HandleResource ==
    /\ AgentReady /\ watch # <<>> /\ Head(watch).op \in {"put", "delete"}
    /\ LET e == Head(watch) IN
        IF Skipped(e)
        THEN UNCHANGED <<timer, due>>
        ELSE /\ timer' = [timer EXCEPT ![e.key] = Fresh(e)]
             /\ due' = [due EXCEPT ![e.key] = Larger(@, e.ver)]
    /\ watch' = Tail(watch)
    /\ UNCHANGED <<queue, written, outbox, commitChan, batch, job, slotVars, synced, settled,
                   bounds>>

(* handleTicker takes the entries that are due out of the timer.           *)
\* mutant: a listing empties the timer, due or not
TakenAll(S)  == [k \in Keys |-> None]
Taken(S)     == [k \in Keys |-> IF k \in S THEN None ELSE timer[k]]

Collect(S) ==
    /\ outbox' = {timer[k] : k \in S}
    /\ timer' = Taken(S)

HandleTick(S) ==
    /\ AgentReady
    /\ S # {}
    /\ Collect(S)
    /\ UNCHANGED <<queue, written, watch, commitChan, batch, job, slotVars, synced, due,
                   settled, bounds>>

(* A publish triggers handleTicker too, which may find nothing due.        *)
HandleRelease(S) ==
    /\ AgentReady /\ watch # <<>> /\ Head(watch).op = "release"
    /\ Collect(S)
    /\ watch' = Tail(watch)
    /\ UNCHANGED <<queue, written, commitChan, batch, job, slotVars, synced, due, settled, bounds>>

(* The removal of a stage goes to the committer past the timer.            *)
HandleRemove ==
    /\ AgentReady /\ watch # <<>> /\ Head(watch).op = "remove"
    /\ LET e == Head(watch) IN
        /\ outbox' = {Fresh(e)}
        /\ due' = [due EXCEPT ![e.key] = Larger(@, e.ver)]
    /\ watch' = Tail(watch)
    /\ UNCHANGED <<queue, written, timer, commitChan, batch, job, slotVars, synced, settled,
                   bounds>>

(* The agent blocks while the channel is full.                             *)
Send ==
    /\ outbox # {}
    /\ Len(commitChan) < ChanSize
    /\ commitChan' = Append(commitChan, outbox)
    /\ outbox' = {}
    /\ UNCHANGED <<queue, written, watch, timer, batch, job, slotVars, synced, due, settled,
                   bounds>>

-----------------------------------------------------------------------------
(* The committer loop.                                                     *)
GroupDone    == \A k \in Keys : job[k].pc = "none"

Receive ==
    /\ batch = {} /\ GroupDone
    /\ commitChan # <<>>
    /\ batch' = Head(commitChan)
    /\ commitChan' = Tail(commitChan)
    /\ UNCHANGED <<queue, written, agentVars, job, slotVars, synced, due, settled, bounds>>

KeysOf(list) == {i.key : i \in list}

NewJob(i) == [NoJob EXCEPT !.pc = IF i.key = Global THEN "list" ELSE "lock",
                           !.report = i.report, !.retry = i.retry, !.began = due[i.key]]

(* commitGroup starts a goroutine per key of the segment.                  *)
StartGroup(list) ==
    /\ GroupDone
    /\ list \subseteq batch /\ list # {}
    /\ Cardinality(list) = SegmentLength \/ (list = batch /\ Cardinality(list) < SegmentLength)
    /\ job' = [k \in Keys |-> IF k \in KeysOf(list)
                              THEN NewJob(CHOOSE i \in list : i.key = k) ELSE job[k]]
    /\ batch' = batch \ list
    /\ UNCHANGED <<queue, written, agentVars, commitChan, slotVars, synced, due, settled, bounds>>

-----------------------------------------------------------------------------
(* The commit of a key.  Stages go lock, enter, list, flush, alter, report *)
(* (or release after an error); the global resources list, flush, alter.   *)
At(k, pc)   == job[k].pc = pc
Goto(k, pc) == job' = [job EXCEPT ![k].pc = pc]
End(k)      == job' = [job EXCEPT ![k] = NoJob]
Gw(k)       == GatewayOf[k]

(* A commit that is reported sends events before it lists, before it syncs *)
(* and after an error; the sends are part of the step that they precede.   *)
CanReport(k) == job[k].report => EventQ!CanSend

(* commitGatewayStage: find or make the gateway's channel ...              *)
LockGateway(k) ==
    /\ At(k, "lock")
    /\ LET c == IF chanOf[Gw(k)] = 0 THEN made + 1 ELSE chanOf[Gw(k)]
       IN /\ job' = [job EXCEPT ![k].pc = "enter", ![k].chan = c]
          /\ chanOf' = [chanOf EXCEPT ![Gw(k)] = c]
          /\ made' = Larger(made, c)
    /\ UNCHANGED <<queue, written, agentVars, commitChan, batch, token, probes, synced, due,
                   settled, bounds>>

(* ... and put a token into it, which blocks while there is one.           *)
SlotFreeAny(c) == TRUE                         \* mutant: the send does not block
SlotFree(c)    == c \notin token

EnterGateway(k) ==
    /\ At(k, "enter")
    /\ SlotFree(job[k].chan)
    /\ token' = token \union {job[k].chan}
    /\ Goto(k, "list")
    /\ UNCHANGED <<queue, written, agentVars, commitChan, batch, chanOf, made, probes, synced, due,
                   settled, bounds>>

(* The configuration is read from the control plane as it is now ...       *)
SnapshotLagging(k) == due[k]..written[k]       \* mutant: as the last event had it
Snapshot(k) == {written[k]}

ListResources(k) ==
    /\ At(k, "list") /\ CanReport(k)
    /\ \E v \in Snapshot(k) : job' = [job EXCEPT ![k].pc = "flush", ![k].snap = v]
    /\ UNCHANGED <<queue, written, agentVars, commitChan, batch, slotVars, synced, due,
                   settled, bounds>>

(* ... and applied under flushMux.                                         *)
StartSync(k) ==
    /\ At(k, "flush") /\ CanReport(k)
    /\ \A j \in Keys : ~At(j, "alter")
    /\ Goto(k, "alter")
    /\ UNCHANGED <<queue, written, agentVars, commitChan, batch, slotVars, synced, due,
                   settled, bounds>>

FinishSync(k) ==
    /\ At(k, "alter")
    /\ synced' = [synced EXCEPT ![k] = job[k].snap]
    /\ settled' = [settled EXCEPT ![k] = Larger(@, job[k].snap)]
    /\ IF k = Global THEN End(k) ELSE Goto(k, "report")
    /\ UNCHANGED <<queue, written, agentVars, commitChan, batch, slotVars, due, bounds>>

(* retryStage: the info goes back into the timer, or the change is given   *)
(* up; either way the goroutine goes on to free the gateway's slot.        *)
RetryAllowedOnce(k) == job[k].retry + 1 < MaxRetry   \* mutant: off by one
RetryAllowed(k) == job[k].retry < MaxRetry
\* mutant: an error is counted by retryStage and by its caller
AgainTwice(k)   == [key |-> k, report |-> job[k].report, retry |-> job[k].retry + 2]
Again(k)        == [key |-> k, report |-> job[k].report, retry |-> job[k].retry + 1]

RetryStage(k) ==
    IF RetryAllowed(k)
    THEN /\ timer' = [timer EXCEPT ![k] = Again(k)]
         /\ UNCHANGED settled
    ELSE /\ settled' = [settled EXCEPT ![k] = Larger(@, job[k].began)]
         /\ UNCHANGED timer

FailCommit(k) ==
    /\ (At(k, "list") /\ CanReport(k)) \/ At(k, "alter")
    /\ failures < MaxFailures
    /\ failures' = failures + 1
    /\ RetryStage(k)
    /\ IF k = Global THEN End(k) ELSE Goto(k, "release")
    /\ UNCHANGED <<queue, written, watch, outbox, commitChan, batch, slotVars, synced, due,
                   events, panics, globalPanics, cleanups>>

(* Receiving from the channel blocks while it is empty.  After an error    *)
(* the failure is reported first.                                          *)
Release(k) ==
    /\ (At(k, "release") /\ CanReport(k)) \/ (At(k, "report") /\ ~job[k].report)
    /\ job[k].chan \in token
    /\ token' = token \ {job[k].chan}
    /\ End(k)
    /\ UNCHANGED <<queue, written, agentVars, commitChan, batch, chanOf, made, probes, synced, due,
                   settled, bounds>>

(* A panic in a stage's commit is recovered: the deferred functions take   *)
(* the token back, if there is one, and count the goroutine as done.       *)
PanicTokenKept(k) == token                     \* mutant: no deferred receive
PanicToken(k) == token \ {job[k].chan}

Panic(k) ==
    /\ k \in Stages /\ job[k].pc \in {"list", "flush", "alter"}
    /\ At(k, "list") => CanReport(k)
    /\ panics < MaxPanics
    /\ panics' = panics + 1
    /\ token' = PanicToken(k)
    /\ settled' = [settled EXCEPT ![k] = Larger(@, job[k].began)]
    /\ End(k)
    /\ UNCHANGED <<queue, written, agentVars, commitChan, batch, chanOf, made, probes, synced, due,
                   events, failures, globalPanics, cleanups>>

(* A panic in the commit of the global resources is recovered too, but the *)
(* goroutine is never counted as done: wg.Done is its last statement.      *)
PanicGlobal ==
    /\ job[Global].pc \in {"list", "flush", "alter"}
    /\ globalPanics < MaxGlobalPanics
    /\ globalPanics' = globalPanics + 1
    /\ settled' = [settled EXCEPT ![Global] = Larger(@, job[Global].began)]
    /\ Goto(Global, "dead")
    /\ UNCHANGED <<queue, written, agentVars, commitChan, batch, slotVars, synced, due,
                   events, failures, panics, cleanups>>

(* ReportLoadConfigurationResultEvent: a commit that is to be reported     *)
(* hands its slot to a version probe, of which there are ProbeSize.        *)
StartProbe(k) ==
    /\ At(k, "report") /\ job[k].report
    /\ Cardinality({p \in probes : p.pc \in {"probe", "verdict"}}) < ProbeSize
    /\ probes' = probes \union {[key |-> k, chan |-> job[k].chan, pc |-> "probe"]}
    /\ End(k)
    /\ UNCHANGED <<queue, written, agentVars, commitChan, batch, chanOf, made, token, synced, due,
                   settled, bounds>>

(* The probe ends well, and only frees the slot; or it ends in an error or *)
(* a timeout, and frees the slot once that verdict is in the queue.        *)
EndProbe(p) ==
    /\ p \in probes /\ p.pc = "probe"
    /\ \E next \in {"release", "verdict"} :
            probes' = (probes \ {p}) \union {[p EXCEPT !.pc = next]}
    /\ UNCHANGED <<queue, written, agentVars, commitChan, batch, job, chanOf, made, token, synced,
                   due, settled, bounds>>

SendVerdict(p) ==
    /\ p \in probes /\ p.pc = "verdict"
    /\ EventQ!CanSend
    /\ probes' = (probes \ {p}) \union {[p EXCEPT !.pc = "release"]}
    /\ UNCHANGED <<queue, written, agentVars, commitChan, batch, job, chanOf, made, token, synced,
                   due, settled, bounds>>

ReleaseProbe(p) ==
    /\ p \in probes /\ p.pc = "release"
    /\ p.chan \in token
    /\ token' = token \ {p.chan}
    /\ probes' = probes \ {p}
    /\ UNCHANGED <<queue, written, agentVars, commitChan, batch, job, chanOf, made, synced, due,
                   settled, bounds>>

(* CleanupGatewayChannel drains the channel and forgets it.                *)
CleanupGatewayChannel(g) ==
    /\ chanOf[g] # 0
    /\ cleanups < MaxCleanups
    /\ cleanups' = cleanups + 1
    /\ token' = token \ {chanOf[g]}
    /\ chanOf' = [chanOf EXCEPT ![g] = 0]
    /\ UNCHANGED <<queue, written, agentVars, commitChan, batch, job, made, probes, synced, due,
                   settled, events, failures, panics, globalPanics>>

(* The reporter takes events and other senders add them.                   *)
QueueStep(step) ==
    /\ step
    /\ UNCHANGED pathVars
QueueTake == QueueStep(EventQ!Take)

-----------------------------------------------------------------------------
Init ==
    /\ EventQ!Init
    /\ written = [k \in Keys |-> 0]
    /\ watch = <<>>
    /\ timer = [k \in Keys |-> None]
    /\ outbox = {}
    /\ commitChan = <<>>
    /\ batch = {}
    /\ job = [k \in Keys |-> NoJob]
    /\ chanOf = [g \in Gateways |-> 0]
    /\ made = 0
    /\ token = {}
    /\ probes = {}
    /\ synced = [k \in Keys |-> 0]
    /\ due = [k \in Keys |-> 0]
    /\ settled = [k \in Keys |-> 0]
    /\ events = 0 /\ failures = 0 /\ panics = 0 /\ globalPanics = 0 /\ cleanups = 0

ControlPlane ==
    \/ \E k \in Stages, r \in BOOLEAN : PutResource(k, r)
    \/ PutResource(Global, FALSE)
    \/ \E k \in Keys : DeleteResource(k)
    \/ \E k \in Stages, op \in {"release", "remove"} : Publish(k, op)

AgentEvent == HandleResource \/ (\E S \in SUBSET Waiting : HandleRelease(S)) \/ HandleRemove
AgentTick(k) == \E S \in SUBSET Waiting : k \in S /\ HandleTick(S)

CommitterLoop == Receive \/ \E list \in SUBSET batch : StartGroup(list)

SlotStep(k) == LockGateway(k) \/ EnterGateway(k) \/ Release(k) \/ StartProbe(k)

CommitStep(k) ==
    \/ k \in Stages /\ SlotStep(k)
    \/ ListResources(k) \/ StartSync(k) \/ FinishSync(k)

ProbeStep == \E p \in probes : EndProbe(p) \/ SendVerdict(p) \/ ReleaseProbe(p)

Next ==
    \/ ControlPlane
    \/ AgentEvent
    \/ \E k \in Keys : AgentTick(k)
    \/ Send
    \/ CommitterLoop
    \/ \E k \in Keys : CommitStep(k) \/ FailCommit(k) \/ Panic(k)
    \/ PanicGlobal
    \/ ProbeStep
    \/ QueueStep(EventQ!Next)
    \/ \E g \in Gateways : CleanupGatewayChannel(g)

Spec == Init /\ [][Next]_vars

(* Goroutines that can go on do; the agent's ticker comes round again and  *)
(* again, and a waiting key is due in the end (ReleaseTimer).  The sends   *)
(* to a gateway's channel and to the event queue and the lock on flushMux  *)
(* are served in the order of their arrival by the Go runtime, so nobody   *)
(* is overtaken for ever.                                                  *)
Fairness ==
    /\ WF_vars(AgentEvent)
    /\ \A k \in Keys : SF_vars(AgentTick(k))
    /\ WF_vars(Send)
    /\ WF_vars(CommitterLoop)
    /\ \A k \in Keys : SF_vars(CommitStep(k))
    /\ SF_vars(ProbeStep)
    /\ WF_vars(QueueTake)

FairSpec == Spec /\ Fairness

-----------------------------------------------------------------------------
Holding    == {"list", "flush", "alter", "report", "release"}
Holds(k)   == k \in Stages /\ job[k].pc \in Holding
HeldChans  == {job[k].chan : k \in {k \in Stages : Holds(k)}} \union {p.chan : p \in probes}

Queued(k) ==
    \/ timer[k] # None
    \/ k \in KeysOf(outbox)
    \/ \E n \in 1..Len(commitChan) : k \in KeysOf(commitChan[n])
    \/ k \in KeysOf(batch)

(* The commit in progress takes, or has taken, its configuration after the *)
(* last event of the key.                                                  *)
InCommit(k) ==
    \/ job[k].pc \in {"lock", "enter", "list"}
    \/ job[k].pc \in {"flush", "alter"} /\ job[k].snap >= due[k]

(* Type invariant.                                                         *)
Jobs == [pc : {"none", "lock", "enter", "dead"} \union Holding, report : BOOLEAN,
         retry : 0..MaxRetry, snap : Nat, began : Nat, chan : Nat]

TypeOK ==
    /\ queue \in {"open", "full", "clogged"}
    /\ written \in [Keys -> Nat] /\ synced \in [Keys -> Nat]
    /\ due \in [Keys -> Nat] /\ settled \in [Keys -> Nat]
    /\ watch \in Seq(Events)
    /\ timer \in [Keys -> Infos \union {None}]
    /\ outbox \subseteq Infos /\ batch \subseteq Infos
    /\ commitChan \in Seq(SUBSET Infos)
    /\ job \in [Keys -> Jobs]
    /\ chanOf \in [Gateways -> Nat] /\ made \in Nat
    /\ token \subseteq Nat
    /\ probes \subseteq [key : Stages, chan : Nat, pc : {"probe", "verdict", "release"}]
    /\ events \in Nat /\ failures \in Nat /\ panics \in Nat
    /\ globalPanics \in Nat /\ cleanups \in Nat

(* Between the reading of a stage's configuration and the end of its       *)
(* version probe no other stage of the same gateway is read, applied or    *)
(* probed, although the committer runs them in goroutines of their own     *)
(* and goes on to the next group while a probe is still under way.  This   *)
(* is over once CleanupGatewayChannel, which nothing calls, has run.       *)
OneAtATime ==
    /\ \A j, k \in Stages : j # k /\ Gw(j) = Gw(k) => ~(Holds(j) /\ Holds(k))
    /\ \A p \in probes, k \in Stages : Gw(p.key) = Gw(k) => ~Holds(k)
    /\ \A p, q \in probes : p # q => Gw(p.key) # Gw(q.key)

SerialPerGateway == cleanups = 0 => OneAtATime

(* A gateway's slot is taken only on behalf of a commit or a probe, also   *)
(* after a panic: a token nobody will take back blocks the gateway for     *)
(* good, and with it the committer.                                        *)
NoLeakedSlot == token \subseteq HeldChans

(* From the event on, a change is in the timer, in a list on its way to    *)
(* the committer, or in a commit that reads the configuration after the    *)
(* event, until it is applied or given up.                                 *)
ChangesNotLost == \A k \in Keys : due[k] > settled[k] => Queued(k) \/ InCommit(k)

(* As long as there were no more errors than maxStageRetryCount, nothing   *)
(* is given up, whichever keys and attempts the errors hit.                *)
NothingGivenUp ==
    failures <= MaxRetry /\ panics = 0 /\ globalPanics = 0 => settled = synced

(* What the properties above and the refinement below rest on.             *)
SnapInv ==
    \A k \in Keys : /\ synced[k] <= written[k]
                    /\ job[k].pc \in {"flush", "alter"} =>
                            synced[k] <= job[k].snap /\ job[k].snap <= written[k]

VersionInv ==
    /\ \A k \in Keys : due[k] <= written[k]
    /\ \A n \in 1..Len(watch) : watch[n].ver <= written[watch[n].key]

TimerInv == \A k \in Keys : timer[k] # None => timer[k].key = k

(* An event that came after a commit began has a commit of its own ahead.  *)
BeganInv ==
    \A k \in Keys : job[k].pc # "none" /\ due[k] > job[k].began => Queued(k)

(* While no channel is cleaned up, a gateway has one channel, every commit *)
(* and probe past its entry has put the token there, and it is the only    *)
(* one to have done so.                                                    *)
Joined(k) == k \in Stages /\ job[k].pc \in {"enter"} \union Holding

ChannelInv ==
    /\ cleanups = 0
    /\ \A x \in Gateways : chanOf[x] <= made
    /\ \A x, y \in Gateways : x # y /\ chanOf[x] = chanOf[y] => chanOf[x] = 0
    /\ \A k \in Stages : Joined(k) => chanOf[Gw(k)] # 0 /\ job[k].chan = chanOf[Gw(k)]
    /\ \A p \in probes : chanOf[Gw(p.key)] # 0 /\ p.chan = chanOf[Gw(p.key)]

TokenInv == \A c \in HeldChans : c \in token

(* The pipeline implements StageSync: APISIX only moves forward.           *)
Abstract  == INSTANCE StageSync
Refines   == Abstract!Spec

(* The two ways for the committer to stop for good: a panic in the global  *)
(* commit, and a cleanup that took the token a commit has to give back.    *)
WaitsForToken(k) ==
    /\ At(k, "release") \/ (At(k, "report") /\ ~job[k].report)
    /\ job[k].chan \notin token
    /\ \A j \in Stages : At(j, "enter") => job[j].chan # job[k].chan

CommitterStuck == At(Global, "dead") \/ \E k \in Stages : WaitsForToken(k)

(* When the events end, every change the agent has seen has been applied,  *)
(* or given up, after its retries or in a panic, unless one of those two   *)
(* has happened or the event queue is clogged.                             *)
EveryChangeSettled ==
    <>[](CommitterStuck \/ queue = "clogged" \/ \A k \in Keys : settled[k] >= due[k])
=============================================================================
