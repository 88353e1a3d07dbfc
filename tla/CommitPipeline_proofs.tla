----------------------- MODULE CommitPipeline_proofs ------------------------
(***************************************************************************)
(* Theorems about CommitPipeline, for every set of stages and gateways and *)
(* every value of the sizes and bounds.                                    *)
(***************************************************************************)
EXTENDS CommitPipeline, FiniteSetTheorems, TLAPS

-----------------------------------------------------------------------------
(* A step of the event queue leaves the path of the changes alone.         *)
LEMMA Idle == QueueStep(EventQ!Next) \/ UNCHANGED vars => UNCHANGED pathVars
BY DEF QueueStep, vars, pathVars, agentVars, slotVars, bounds

(* The typing of the functions the steps update.                           *)
LEMMA NoJobType == NoJob \in Jobs
BY SizeAssumption DEF NoJob, Jobs

LEMMA FreshType == ASSUME NEW e \in Events PROVE Fresh(e) \in Infos
BY SizeAssumption DEF Events, Fresh, Infos

LEMMA LargerType ==
    ASSUME NEW f \in [Keys -> Nat], NEW k \in Keys, NEW n \in Nat
    PROVE  [f EXCEPT ![k] = Larger(@, n)] \in [Keys -> Nat]
BY DEF Larger

(* A probe that goes on keeps its commit and its channel.                  *)
LEMMA ProbeGoesOn ==
    ASSUME TypeOK, NEW p \in probes, EndProbe(p) \/ SendVerdict(p)
    PROVE  \E q : /\ q.key = p.key /\ q.chan = p.chan
                  /\ probes' = (probes \ {p}) \union {q}
                  /\ UNCHANGED <<chanOf, made, token, cleanups, job>>
<1>1. PICK next \in {"release", "verdict"} :
            probes' = (probes \ {p}) \union {[p EXCEPT !.pc = next]}
  BY DEF EndProbe, SendVerdict
<1>2. [p EXCEPT !.pc = next].key = p.key /\ [p EXCEPT !.pc = next].chan = p.chan
  BY DEF TypeOK
<1>3. UNCHANGED <<chanOf, made, token, cleanups, job>>
  BY DEF EndProbe, SendVerdict, bounds
<1> QED BY <1>1, <1>2, <1>3

(* Type correctness.                                                       *)
LEMMA TypeInit == Init => TypeOK
BY NoJobType DEF Init, EventQ!Init, TypeOK

LEMMA TypeControlPlane == TypeOK /\ ControlPlane => TypeOK'
<1> SUFFICES ASSUME TypeOK, ControlPlane PROVE TypeOK'
  OBVIOUS
<1>1. ASSUME NEW op \in {"put", "delete", "release", "remove"}, NEW k \in Keys, NEW v \in Nat,
             NEW r \in BOOLEAN, Announce(op, k, v, r), written' \in [Keys -> Nat]
      PROVE  TypeOK'
  <2>1. watch' \in Seq(Events)
    BY <1>1 DEF TypeOK, Announce, Events
  <2>2. events' \in Nat
    BY <1>1 DEF TypeOK, Announce
  <2> QED BY <1>1, <2>1, <2>2 DEF TypeOK, Announce, slotVars
<1>2. ASSUME NEW k \in Keys, NEW r \in BOOLEAN, PutResource(k, r) PROVE TypeOK'
  <2>1. written' \in [Keys -> Nat] /\ written[k] + 1 \in Nat
    BY <1>2 DEF PutResource, TypeOK
  <2> QED BY <1>1, <1>2, <2>1 DEF PutResource
<1>3. ASSUME NEW k \in Keys, DeleteResource(k) PROVE TypeOK'
  <2>1. written' \in [Keys -> Nat] /\ written[k] + 1 \in Nat
    BY <1>3 DEF DeleteResource, TypeOK
  <2> QED BY <1>1, <1>3, <2>1 DEF DeleteResource
<1>4. ASSUME NEW k \in Keys, NEW op \in {"release", "remove"}, Publish(k, op) PROVE TypeOK'
  <2>1. written' \in [Keys -> Nat] /\ written[k] \in Nat
    BY <1>4 DEF Publish, TypeOK
  <2> QED BY <1>1, <1>4, <2>1 DEF Publish
<1> QED BY <1>2, <1>3, <1>4 DEF ControlPlane, Keys

LEMMA TypeAgent ==
    ASSUME TypeOK, AgentEvent \/ (\E k \in Keys : AgentTick(k)) \/ Send PROVE TypeOK'
<1>1. ASSUME watch # <<>> PROVE Head(watch) \in Events /\ Tail(watch) \in Seq(Events)
  BY <1>1 DEF TypeOK
<1>2. ASSUME NEW S \in SUBSET Waiting, Collect(S)
      PROVE  outbox' \subseteq Infos /\ timer' \in [Keys -> Infos \union {None}]
  <2>1. S \subseteq Keys /\ \A k \in S : timer[k] \in Infos
    BY <1>2 DEF Waiting, TypeOK
  <2>2. outbox' \subseteq Infos
    BY <1>2, <2>1 DEF Collect
  <2>3. timer' \in [Keys -> Infos \union {None}]
    BY <1>2 DEF Collect, Taken, TypeOK
  <2> QED BY <2>2, <2>3
<1>3. CASE HandleResource
  <2>1. timer' \in [Keys -> Infos \union {None}]
    BY <1>1, <1>3, FreshType DEF HandleResource, TypeOK
  <2>2. due' \in [Keys -> Nat]
    <3>1. Head(watch).key \in Keys /\ Head(watch).ver \in Nat /\ due \in [Keys -> Nat]
      BY <1>1, <1>3 DEF HandleResource, Events, TypeOK
    <3>2. CASE Skipped(Head(watch))
      BY <1>3, <3>1, <3>2 DEF HandleResource
    <3>3. CASE ~Skipped(Head(watch))
      <4>1. due' = [due EXCEPT ![Head(watch).key] = Larger(@, Head(watch).ver)]
        BY <1>3, <3>3 DEF HandleResource
      <4> QED BY <3>1, <4>1, LargerType
    <3> QED BY <3>2, <3>3
  <2>3. watch' \in Seq(Events)
    BY <1>1, <1>3 DEF HandleResource
  <2> QED BY <1>3, <2>1, <2>2, <2>3 DEF HandleResource, TypeOK, slotVars, bounds
<1>4. ASSUME NEW S \in SUBSET Waiting, HandleRelease(S) PROVE TypeOK'
  BY <1>1, <1>2, <1>4 DEF HandleRelease, TypeOK, slotVars, bounds
<1>5. CASE HandleRemove
  <2>1. outbox' \subseteq Infos
    BY <1>1, <1>5, FreshType DEF HandleRemove
  <2>2. due' \in [Keys -> Nat]
    BY <1>1, <1>5, LargerType DEF HandleRemove, TypeOK, Events
  <2> QED BY <1>1, <1>5, <2>1, <2>2 DEF HandleRemove, TypeOK, slotVars, bounds
<1>6. ASSUME NEW S \in SUBSET Waiting, HandleTick(S) PROVE TypeOK'
  BY <1>2, <1>6 DEF HandleTick, TypeOK, slotVars, bounds
<1>7. CASE Send
  <2>1. commitChan' \in Seq(SUBSET Infos)
    BY <1>7 DEF Send, TypeOK
  <2> QED BY <1>7, <2>1 DEF Send, TypeOK, slotVars, bounds
<1> QED BY <1>3, <1>4, <1>5, <1>6, <1>7 DEF AgentEvent, AgentTick

LEMMA TypeLoop == ASSUME TypeOK, CommitterLoop PROVE TypeOK'
<1>1. CASE Receive
  <2>1. batch' \subseteq Infos /\ commitChan' \in Seq(SUBSET Infos)
    BY <1>1 DEF Receive, TypeOK
  <2> QED BY <1>1, <2>1 DEF Receive, TypeOK, agentVars, slotVars, bounds
<1>2. ASSUME NEW list \in SUBSET batch, StartGroup(list) PROVE TypeOK'
  <2>1. ASSUME NEW i \in Infos PROVE NewJob(i) \in Jobs
    <3>1. i.key \in Keys /\ i.report \in BOOLEAN /\ i.retry \in 0..MaxRetry
      BY DEF Infos
    <3>2. due[i.key] \in Nat
      BY <3>1 DEF TypeOK
    <3> QED BY <3>1, <3>2 DEF NewJob, NoJob, Jobs, Holding
  <2>2. list \subseteq Infos
    BY DEF TypeOK
  <2>3. ASSUME NEW k \in KeysOf(list) PROVE (CHOOSE i \in list : i.key = k) \in Infos
    BY <2>2 DEF KeysOf
  <2>4. job' \in [Keys -> Jobs]
    BY <1>2, <2>1, <2>3 DEF StartGroup, TypeOK
  <2> QED BY <1>2, <2>4 DEF StartGroup, TypeOK, agentVars, slotVars, bounds
<1> QED BY <1>1, <1>2 DEF CommitterLoop

(* A commit moves on in its program.                                       *)
LEMMA GotoType ==
    ASSUME job \in [Keys -> Jobs], NEW k \in Keys,
           NEW pc \in {"none", "lock", "enter", "dead"} \union Holding
    PROVE  [job EXCEPT ![k].pc = pc] \in [Keys -> Jobs]
BY DEF Jobs

LEMMA SnapType ==
    ASSUME job \in [Keys -> Jobs], NEW k \in Keys, NEW n \in Nat
    PROVE  [job EXCEPT ![k].pc = "flush", ![k].snap = n] \in [Keys -> Jobs]
BY DEF Jobs, Holding

LEMMA EndType ==
    ASSUME job \in [Keys -> Jobs], NEW k \in Keys
    PROVE  [job EXCEPT ![k] = NoJob] \in [Keys -> Jobs]
BY NoJobType

LEMMA TypeCommit == ASSUME TypeOK, NEW k \in Keys, CommitStep(k) PROVE TypeOK'
<1>t. /\ written \in [Keys -> Nat] /\ synced \in [Keys -> Nat] /\ settled \in [Keys -> Nat]
      /\ job \in [Keys -> Jobs]
      /\ chanOf \in [Gateways -> Nat] /\ made \in Nat /\ token \subseteq Nat
      /\ probes \subseteq [key : Stages, chan : Nat, pc : {"probe", "verdict", "release"}]
  BY DEF TypeOK
<1>1. ASSUME k \in Stages, LockGateway(k) PROVE TypeOK'
  <2> DEFINE c == IF chanOf[Gw(k)] = 0 THEN made + 1 ELSE chanOf[Gw(k)]
  <2>1. c \in Nat
    BY <1>t, <1>1, GatewayAssumption DEF Gw
  <2>2. /\ job' = [job EXCEPT ![k].pc = "enter", ![k].chan = c]
        /\ chanOf' = [chanOf EXCEPT ![Gw(k)] = c]
        /\ made' = Larger(made, c)
    BY <1>t, <1>1 DEF LockGateway
  <2> HIDE DEF c
  <2>3. job' \in [Keys -> Jobs]
    BY <1>t, <2>1, <2>2 DEF Jobs
  <2>4. chanOf' \in [Gateways -> Nat] /\ made' \in Nat
    BY <1>t, <2>1, <2>2 DEF Larger
  <2> QED BY <1>1, <2>3, <2>4 DEF TypeOK, LockGateway, agentVars, bounds
<1>2. CASE EnterGateway(k)
  <2>1. job' \in [Keys -> Jobs]
    BY <1>t, <1>2, GotoType DEF EnterGateway, Goto, Holding
  <2>2. token' \subseteq Nat
    BY <1>t, <1>2 DEF EnterGateway, Jobs
  <2> QED BY <1>2, <2>1, <2>2 DEF TypeOK, EnterGateway, agentVars, bounds
<1>3. CASE ListResources(k)
  <2>1. job' = [job EXCEPT ![k].pc = "flush", ![k].snap = written[k]] /\ written[k] \in Nat
    BY <1>t, <1>3 DEF ListResources, Snapshot
  <2>2. job' \in [Keys -> Jobs]
    BY <1>t, <2>1, SnapType
  <2> QED BY <1>3, <2>2 DEF TypeOK, ListResources, agentVars, slotVars, bounds
<1>4. CASE StartSync(k)
  <2>1. job' \in [Keys -> Jobs]
    BY <1>t, <1>4, GotoType DEF StartSync, Goto, Holding
  <2> QED BY <1>4, <2>1 DEF TypeOK, StartSync, agentVars, slotVars, bounds
<1>5. CASE FinishSync(k)
  <2>1. job' \in [Keys -> Jobs]
    <3>1. CASE k = Global
      BY <1>t, <1>5, <3>1, EndType DEF FinishSync, End
    <3>2. CASE k # Global
      <4>1. job' = [job EXCEPT ![k].pc = "report"]
        BY <1>5, <3>2 DEF FinishSync, Goto
      <4> QED BY <1>t, <4>1, GotoType DEF Holding
    <3> QED BY <3>1, <3>2
  <2>2. job[k].snap \in Nat
    BY <1>t DEF Jobs
  <2>3. synced' \in [Keys -> Nat] /\ settled' \in [Keys -> Nat]
    BY <1>t, <1>5, <2>2, LargerType DEF FinishSync
  <2> QED BY <1>5, <2>1, <2>3 DEF TypeOK, FinishSync, agentVars, slotVars, bounds
<1>6. CASE Release(k)
  <2>1. job' \in [Keys -> Jobs] /\ token' \subseteq Nat
    BY <1>t, <1>6, EndType DEF Release, End
  <2> QED BY <1>6, <2>1 DEF TypeOK, Release, agentVars, bounds
<1>7. ASSUME k \in Stages, StartProbe(k) PROVE TypeOK'
  <2>1. job[k].chan \in Nat
    BY <1>t DEF Jobs
  <2>2. job' \in [Keys -> Jobs]
    BY <1>t, <1>7, EndType DEF StartProbe, End
  <2>3. probes' \subseteq [key : Stages, chan : Nat, pc : {"probe", "verdict", "release"}]
    BY <1>t, <1>7, <2>1 DEF StartProbe
  <2> QED BY <1>7, <2>2, <2>3 DEF TypeOK, StartProbe, agentVars, bounds
<1> QED BY <1>1, <1>2, <1>3, <1>4, <1>5, <1>6, <1>7 DEF CommitStep, SlotStep

LEMMA TypeFailure ==
    ASSUME TypeOK, NEW k \in Keys, FailCommit(k) \/ Panic(k) \/ PanicGlobal
    PROVE  TypeOK'
<1>t. /\ timer \in [Keys -> Infos \union {None}] /\ settled \in [Keys -> Nat]
      /\ job \in [Keys -> Jobs] /\ token \subseteq Nat
      /\ failures \in Nat /\ panics \in Nat /\ globalPanics \in Nat
  BY DEF TypeOK
<1>1. CASE FailCommit(k)
  <2>1. job' \in [Keys -> Jobs]
    <3>1. CASE k = Global
      BY <1>t, <1>1, <3>1, EndType DEF FailCommit, End
    <3>2. CASE k # Global
      <4>1. job' = [job EXCEPT ![k].pc = "release"]
        BY <1>1, <3>2 DEF FailCommit, Goto
      <4> QED BY <1>t, <4>1, GotoType DEF Holding
    <3> QED BY <3>1, <3>2
  <2>2. timer' \in [Keys -> Infos \union {None}] /\ settled' \in [Keys -> Nat]
    <3>1. CASE RetryAllowed(k)
      <4>1. Again(k) \in Infos
        BY <1>t, <3>1, SizeAssumption DEF RetryAllowed, Again, Infos, Jobs
      <4> QED BY <1>t, <1>1, <3>1, <4>1 DEF FailCommit, RetryStage
    <3>2. CASE ~RetryAllowed(k)
      <4>1. job[k].began \in Nat
        BY <1>t DEF Jobs
      <4>2. settled' = [settled EXCEPT ![k] = Larger(@, job[k].began)] /\ timer' = timer
        BY <1>1, <3>2 DEF FailCommit, RetryStage
      <4> QED BY <1>t, <4>1, <4>2, LargerType
    <3> QED BY <3>1, <3>2
  <2> QED BY <1>1, <2>1, <2>2 DEF TypeOK, FailCommit, slotVars
<1>2. CASE Panic(k)
  <2>1. job' \in [Keys -> Jobs] /\ token' \subseteq Nat
    BY <1>t, <1>2, EndType DEF Panic, PanicToken, End
  <2>2. settled' \in [Keys -> Nat]
    BY <1>t, <1>2, LargerType DEF Panic, Jobs
  <2> QED BY <1>2, <2>1, <2>2 DEF TypeOK, Panic, agentVars
<1>3. CASE PanicGlobal
  <2>1. Global \in Keys
    BY <1>t DEF Keys
  <2>2. job' \in [Keys -> Jobs]
    BY <1>t, <1>3, <2>1, GotoType DEF PanicGlobal, Goto
  <2>3. settled' \in [Keys -> Nat]
    BY <1>t, <1>3, <2>1, LargerType DEF PanicGlobal, Jobs
  <2>4. globalPanics' \in Nat
    BY <1>t, <1>3 DEF PanicGlobal
  <2> QED BY <1>3, <2>2, <2>3, <2>4 DEF TypeOK, PanicGlobal, agentVars, slotVars
<1> QED BY <1>1, <1>2, <1>3

LEMMA TypeProbe == ASSUME TypeOK, ProbeStep PROVE TypeOK'
<1> USE DEF TypeOK
<1>1. ASSUME NEW p \in probes, EndProbe(p) PROVE TypeOK'
  BY <1>1 DEF EndProbe, agentVars, bounds
<1>2. ASSUME NEW p \in probes, SendVerdict(p) PROVE TypeOK'
  BY <1>2 DEF SendVerdict, agentVars, bounds
<1>3. ASSUME NEW p \in probes, ReleaseProbe(p) PROVE TypeOK'
  BY <1>3 DEF ReleaseProbe, agentVars, bounds
<1> QED BY <1>1, <1>2, <1>3 DEF ProbeStep

LEMMA TypeQueue == TypeOK /\ QueueStep(EventQ!Next) => TypeOK'
BY DEF TypeOK, QueueStep, EventQ!Next, EventQ!Fill, EventQ!Take, EventQ!Clog, pathVars,
       agentVars, slotVars, bounds

LEMMA TypeCleanup ==
    ASSUME TypeOK, NEW x \in Gateways, CleanupGatewayChannel(x) PROVE TypeOK'
<1>1. chanOf' \in [Gateways -> Nat]
  BY DEF TypeOK, CleanupGatewayChannel
<1>2. token' \subseteq Nat
  BY DEF TypeOK, CleanupGatewayChannel
<1>3. cleanups' \in Nat
  BY DEF TypeOK, CleanupGatewayChannel
<1> QED BY <1>1, <1>2, <1>3 DEF TypeOK, CleanupGatewayChannel, agentVars

LEMMA TypeNext == TypeOK /\ [Next]_vars => TypeOK'
<1>1. ASSUME TypeOK, Next PROVE TypeOK'
  BY <1>1, TypeControlPlane, TypeAgent, TypeLoop, TypeCommit, TypeFailure, TypeProbe,
     TypeCleanup, TypeQueue DEF Next, Keys
<1>2. ASSUME TypeOK, UNCHANGED vars PROVE TypeOK'
  BY <1>2 DEF vars, TypeOK
<1> QED BY <1>1, <1>2

(* The variables always have their types.                                  *)
THEOREM PipelineTypeOK == Spec => []TypeOK
BY TypeInit, TypeNext, PTL DEF Spec

-----------------------------------------------------------------------------
(* How a step on the commit of k changes it.                               *)
LEMMA GotoFields ==
    ASSUME job \in [Keys -> Jobs], NEW k \in Keys, NEW pc, Goto(k, pc)
    PROVE  /\ job'[k].pc = pc /\ job'[k].snap = job[k].snap
           /\ job'[k].chan = job[k].chan /\ job'[k].began = job[k].began
           /\ job'[k].retry = job[k].retry
           /\ \A j \in Keys : j # k => job'[j] = job[j]
<1>1. job[k] \in Jobs
  OBVIOUS
<1> QED BY <1>1 DEF Goto, Jobs

LEMMA EndFields ==
    ASSUME job \in [Keys -> Jobs], NEW k \in Keys, End(k)
    PROVE  /\ job'[k].pc = "none" /\ job'[k].retry = 0
           /\ \A j \in Keys : j # k => job'[j] = job[j]
BY DEF End, NoJob

-----------------------------------------------------------------------------
(***************************************************************************)
(* CommitPipeline implements StageSync.                                    *)
(***************************************************************************)

LEMMA SnapKept ==
    ASSUME SnapInv, UNCHANGED <<written, synced>>, NEW k \in Keys,
           \A j \in Keys : j # k => job'[j] = job[j],
           job'[k].pc \in {"flush", "alter"} =>
                synced[k] <= job'[k].snap /\ job'[k].snap <= written[k]
    PROVE  SnapInv'
BY DEF SnapInv

LEMMA SnapUnchanged ==
    ASSUME SnapInv, UNCHANGED <<written, synced, job>> PROVE SnapInv'
BY DEF SnapInv

LEMMA WriteStep ==
    ASSUME TypeOK, SnapInv, NEW k \in Keys,
           written' = [written EXCEPT ![k] = @ + 1], UNCHANGED <<synced, job>>
    PROVE  SnapInv' /\ Abstract!Next
<1>1. written \in [Keys -> Nat] /\ synced \in [Keys -> Nat] /\ job \in [Keys -> Jobs]
  BY DEF TypeOK
<1>2. ASSUME NEW j \in Keys
      PROVE  /\ written[j] <= written'[j] /\ written[j] \in Nat /\ written'[j] \in Nat
             /\ synced[j] \in Nat /\ job[j].snap \in Nat
  BY <1>1 DEF Jobs
<1>3. SnapInv'
  BY <1>2 DEF SnapInv
<1>4. Abstract!Write(k)
  BY DEF Abstract!Write
<1> QED BY <1>3, <1>4 DEF Abstract!Next

(* A commit is either under way, and then what it read is between what     *)
(* APISIX has and what the control plane has, or it brings that to APISIX. *)
LEMMA CommitSnap ==
    ASSUME TypeOK, SnapInv, NEW k \in Keys, CommitStep(k)
    PROVE  SnapInv' /\ (Abstract!Next \/ UNCHANGED <<written, synced>>)
<1>1. /\ written \in [Keys -> Nat] /\ synced \in [Keys -> Nat]
      /\ job \in [Keys -> Jobs] /\ job[k] \in Jobs
  BY DEF TypeOK
<1>2. CASE LockGateway(k)
  <2>1. job'[k].pc = "enter" /\ \A j \in Keys : j # k => job'[j] = job[j]
    BY <1>1, <1>2 DEF LockGateway, Jobs
  <2>2. UNCHANGED <<written, synced>>
    BY <1>2 DEF LockGateway
  <2> QED BY <2>1, <2>2, SnapKept
<1>3. CASE EnterGateway(k)
  <2>1. Goto(k, "list") /\ UNCHANGED <<written, synced>>
    BY <1>3 DEF EnterGateway
  <2> QED BY <1>1, <2>1, GotoFields, SnapKept
<1>4. CASE ListResources(k)
  <2>1. job' = [job EXCEPT ![k].pc = "flush", ![k].snap = written[k]]
        /\ UNCHANGED <<written, synced>>
    BY <1>4 DEF ListResources, Snapshot
  <2>2. job'[k].snap = written[k] /\ \A j \in Keys : j # k => job'[j] = job[j]
    BY <1>1, <2>1 DEF Jobs
  <2>3. synced[k] <= written[k] /\ written[k] <= written[k]
    BY <1>1 DEF SnapInv
  <2> QED BY <2>1, <2>2, <2>3, SnapKept
<1>5. CASE StartSync(k)
  <2>1. Goto(k, "alter") /\ UNCHANGED <<written, synced>> /\ job[k].pc = "flush"
    BY <1>5 DEF StartSync, At
  <2>2. synced[k] <= job[k].snap /\ job[k].snap <= written[k]
    BY <2>1 DEF SnapInv
  <2> QED BY <1>1, <2>1, <2>2, GotoFields, SnapKept
<1>6. CASE FinishSync(k)
  <2>1. /\ job[k].pc = "alter" /\ UNCHANGED written
        /\ synced' = [synced EXCEPT ![k] = job[k].snap]
    BY <1>6 DEF FinishSync, At
  <2>2. synced[k] <= job[k].snap /\ job[k].snap <= written[k]
    BY <2>1 DEF SnapInv
  <2>3. Goto(k, "report") \/ End(k)
    BY <1>6 DEF FinishSync
  <2>4. job'[k].pc \in {"report", "none"} /\ \A j \in Keys : j # k => job'[j] = job[j]
    BY <1>1, <2>3, GotoFields, EndFields
  <2>5. synced'[k] = job[k].snap /\ \A j \in Keys : j # k => synced'[j] = synced[j]
    BY <1>1, <2>1
  <2>6. SnapInv'
    <3> SUFFICES ASSUME NEW j \in Keys
                 PROVE  /\ synced'[j] <= written'[j]
                        /\ job'[j].pc \in {"flush", "alter"} =>
                              synced'[j] <= job'[j].snap /\ job'[j].snap <= written'[j]
      BY DEF SnapInv
    <3>1. CASE j = k
      BY <2>1, <2>2, <2>4, <2>5, <3>1
    <3>2. CASE j # k
      BY <2>1, <2>4, <2>5, <3>2 DEF SnapInv
    <3> QED BY <3>1, <3>2
  <2>7. job[k].snap \in synced[k]..written[k]
    BY <1>1, <2>2 DEF Jobs
  <2>8. Abstract!SyncTo(k)
    BY <2>1, <2>7 DEF Abstract!SyncTo
  <2> QED BY <2>6, <2>8 DEF Abstract!Next
<1>7. CASE Release(k)
  <2>1. End(k) /\ UNCHANGED <<written, synced>>
    BY <1>7 DEF Release
  <2> QED BY <1>1, <2>1, EndFields, SnapKept
<1>8. CASE StartProbe(k)
  <2>1. End(k) /\ UNCHANGED <<written, synced>>
    BY <1>8 DEF StartProbe
  <2> QED BY <1>1, <2>1, EndFields, SnapKept
<1> QED BY <1>2, <1>3, <1>4, <1>5, <1>6, <1>7, <1>8 DEF CommitStep, SlotStep

LEMMA FailureSnap ==
    ASSUME TypeOK, SnapInv, NEW k \in Keys, FailCommit(k) \/ Panic(k) \/ PanicGlobal
    PROVE  SnapInv' /\ UNCHANGED <<written, synced>>
<1>1. job \in [Keys -> Jobs] /\ Global \in Keys
  BY DEF TypeOK, Keys
<1>2. UNCHANGED <<written, synced>>
  BY DEF FailCommit, Panic, PanicGlobal
<1>3. CASE FailCommit(k)
  <2>1. Goto(k, "release") \/ End(k)
    BY <1>3 DEF FailCommit
  <2> QED BY <1>1, <1>2, <2>1, GotoFields, EndFields, SnapKept
<1>4. CASE Panic(k)
  <2>1. End(k)
    BY <1>4 DEF Panic
  <2> QED BY <1>1, <1>2, <2>1, EndFields, SnapKept
<1>5. CASE PanicGlobal
  <2>1. Goto(Global, "dead")
    BY <1>5 DEF PanicGlobal
  <2> QED BY <1>1, <1>2, <2>1, GotoFields, SnapKept
<1> QED BY <1>2, <1>3, <1>4, <1>5

LEMMA StartSnap ==
    ASSUME TypeOK, SnapInv, NEW list \in SUBSET batch, StartGroup(list)
    PROVE  SnapInv' /\ UNCHANGED <<written, synced>>
<1>1. UNCHANGED <<written, synced>>
  BY DEF StartGroup
<1>2. ASSUME NEW i \in Infos PROVE NewJob(i).pc \in {"list", "lock"}
  BY DEF NewJob, NoJob
<1>3. ASSUME NEW k \in KeysOf(list) PROVE (CHOOSE i \in list : i.key = k) \in Infos
  BY DEF KeysOf, TypeOK
<1>4. ASSUME NEW k \in Keys PROVE job'[k].pc \in {"list", "lock"} \/ job'[k] = job[k]
  BY <1>2, <1>3 DEF StartGroup
<1> QED BY <1>1, <1>4 DEF SnapInv

LEMMA SnapNext ==
    ASSUME TypeOK, SnapInv, [Next]_vars
    PROVE  SnapInv' /\ [Abstract!Next]_<<written, synced>>
<1>1. CASE ControlPlane
  <2>1. ASSUME NEW k \in Keys, NEW r \in BOOLEAN, PutResource(k, r)
        PROVE  SnapInv' /\ Abstract!Next
    BY <2>1, WriteStep DEF PutResource, Announce
  <2>2. ASSUME NEW k \in Keys, DeleteResource(k) PROVE SnapInv' /\ Abstract!Next
    BY <2>2, WriteStep DEF DeleteResource, Announce
  <2>3. ASSUME NEW k \in Keys, NEW op, Publish(k, op)
        PROVE  SnapInv' /\ UNCHANGED <<written, synced>>
    BY <2>3, SnapUnchanged DEF Publish, Announce
  <2> QED BY <1>1, <2>1, <2>2, <2>3 DEF ControlPlane, Keys
<1>2. CASE AgentEvent
  <2>1. UNCHANGED <<written, synced, job>>
    BY <1>2 DEF AgentEvent, HandleResource, HandleRelease, HandleRemove
  <2> QED BY <2>1, SnapUnchanged
<1>3. ASSUME NEW k \in Keys, AgentTick(k) PROVE SnapInv' /\ UNCHANGED <<written, synced>>
  BY <1>3, SnapUnchanged DEF AgentTick, HandleTick
<1>4. CASE Send
  BY <1>4, SnapUnchanged DEF Send
<1>5. CASE CommitterLoop
  <2>1. CASE Receive
    BY <2>1, SnapUnchanged DEF Receive
  <2> QED BY <1>5, <2>1, StartSnap DEF CommitterLoop
<1>6. ASSUME NEW k \in Keys, CommitStep(k) \/ FailCommit(k) \/ Panic(k)
      PROVE  SnapInv' /\ [Abstract!Next]_<<written, synced>>
  BY <1>6, CommitSnap, FailureSnap
<1>7. CASE PanicGlobal
  BY <1>7, FailureSnap DEF Keys
<1>8. CASE ProbeStep
  BY <1>8, SnapUnchanged DEF ProbeStep, EndProbe, SendVerdict, ReleaseProbe
<1>9. ASSUME NEW x \in Gateways, CleanupGatewayChannel(x)
      PROVE  SnapInv' /\ UNCHANGED <<written, synced>>
  BY <1>9, SnapUnchanged DEF CleanupGatewayChannel
<1>10. CASE UNCHANGED pathVars
  BY <1>10, SnapUnchanged DEF pathVars, agentVars, slotVars, bounds
<1> QED BY <1>1, <1>2, <1>3, <1>4, <1>5, <1>6, <1>7, <1>8, <1>9, <1>10, Idle DEF Next

LEMMA SnapInit == Init => SnapInv /\ Abstract!Init
BY DEF Init, SnapInv, NoJob, Abstract!Init

(* APISIX is never taken back to an older configuration of a stage, nor to *)
(* one the control plane has not written, whatever the interleaving of     *)
(* agent, committer, probes, retries, failures and panics.                 *)
THEOREM PipelineRefines == Spec => Refines
<1>1. Spec => []TypeOK
  BY PipelineTypeOK
<1>2. Init => SnapInv /\ Abstract!Init
  BY SnapInit
<1>3. TypeOK /\ SnapInv /\ [Next]_vars => SnapInv' /\ [Abstract!Next]_<<written, synced>>
  BY SnapNext
<1> QED BY <1>1, <1>2, <1>3, PTL DEF Spec, Refines, Abstract!Spec

-----------------------------------------------------------------------------
(***************************************************************************)
(* No change is lost between the agent's watch and APISIX.                 *)
(***************************************************************************)

(* An entry of the timer is filed under its own key.                       *)
LEMMA TimerNext == ASSUME TypeOK, TimerInv, [Next]_vars PROVE TimerInv'
<1>t. timer \in [Keys -> Infos \union {None}] /\ watch \in Seq(Events)
  BY DEF TypeOK
<1>1. CASE UNCHANGED timer
  BY <1>1 DEF TimerInv
<1>2. ASSUME NEW k \in Keys, NEW i, i.key = k, timer' = [timer EXCEPT ![k] = i] PROVE TimerInv'
  BY <1>t, <1>2 DEF TimerInv
<1>3. ASSUME NEW S \in SUBSET Waiting, Collect(S) PROVE TimerInv'
  BY <1>t, <1>3 DEF Collect, Taken, TimerInv
<1>4. CASE HandleResource
  <2>1. Head(watch).key \in Keys /\ Fresh(Head(watch)).key = Head(watch).key
    <3>1. Head(watch) \in Events
      BY <1>t, <1>4 DEF HandleResource
    <3> QED BY <3>1 DEF Events, Fresh
  <2>2. UNCHANGED timer
        \/ timer' = [timer EXCEPT ![Head(watch).key] = Fresh(Head(watch))]
    BY <1>4 DEF HandleResource
  <2> QED BY <1>1, <1>2, <2>1, <2>2
<1>5. ASSUME NEW k \in Keys, FailCommit(k) PROVE TimerInv'
  <2>1. UNCHANGED timer \/ timer' = [timer EXCEPT ![k] = Again(k)]
    BY <1>5 DEF FailCommit, RetryStage
  <2>2. Again(k).key = k
    BY DEF Again
  <2> QED BY <1>1, <1>2, <2>1, <2>2
<1>6. ASSUME NEW k \in Keys, CommitStep(k) \/ Panic(k) PROVE UNCHANGED timer
  BY <1>6 DEF CommitStep, SlotStep, LockGateway, EnterGateway, ListResources, StartSync,
     FinishSync, Release, StartProbe, Panic, agentVars
<1>7. ControlPlane \/ HandleRemove \/ Send \/ CommitterLoop \/ PanicGlobal \/ ProbeStep
        => UNCHANGED timer
  BY DEF ControlPlane, PutResource, DeleteResource, Publish, Announce, HandleRemove, Send,
     CommitterLoop, Receive, StartGroup, PanicGlobal, ProbeStep, EndProbe, SendVerdict, ReleaseProbe, agentVars
<1>8. ASSUME NEW x \in Gateways, CleanupGatewayChannel(x) PROVE UNCHANGED timer
  BY <1>8 DEF CleanupGatewayChannel, agentVars
<1>9. UNCHANGED pathVars => UNCHANGED timer
  BY DEF pathVars, agentVars, slotVars, bounds
<1> QED BY <1>1, <1>3, <1>4, <1>5, <1>6, <1>7, <1>8, <1>9, Idle
        DEF Next, AgentEvent, AgentTick, HandleRelease, HandleTick

-----------------------------------------------------------------------------
(* No event is newer than what the control plane holds.                    *)
LEMMA VersionQueue ==
    ASSUME TypeOK, VersionInv, watch # <<>>, UNCHANGED written, watch' = Tail(watch),
           \/ UNCHANGED due
           \/ due' = [due EXCEPT ![Head(watch).key] = Larger(@, Head(watch).ver)]
    PROVE  VersionInv'
<1>t. /\ watch \in Seq(Events) /\ written \in [Keys -> Nat] /\ due \in [Keys -> Nat]
      /\ Head(watch) = watch[1] /\ 1 \in 1..Len(watch)
  BY DEF TypeOK
<1>1. Head(watch).ver <= written[Head(watch).key]
  BY <1>t DEF VersionInv
<1>2. ASSUME NEW n \in 1..Len(watch') PROVE watch'[n].ver <= written'[watch'[n].key]
  <2>1. n + 1 \in 1..Len(watch) /\ watch'[n] = watch[n + 1]
    BY <1>t
  <2> QED BY <2>1 DEF VersionInv
<1>3. ASSUME NEW k \in Keys PROVE due'[k] <= written'[k]
  <2>1. due[k] <= written[k]
    BY DEF VersionInv
  <2>2. due'[k] = due[k] \/ (k = Head(watch).key /\ due'[k] = Larger(due[k], Head(watch).ver))
    BY <1>t
  <2> QED BY <1>1, <2>1, <2>2 DEF Larger
<1> QED BY <1>2, <1>3 DEF VersionInv

LEMMA VersionUnchanged ==
    ASSUME VersionInv, UNCHANGED <<written, watch, due>> PROVE VersionInv'
BY DEF VersionInv

LEMMA VersionAnnounce ==
    ASSUME TypeOK, VersionInv, NEW k \in Keys, NEW op, NEW r, NEW v \in Nat,
           Announce(op, k, v, r), v = written'[k], written' \in [Keys -> Nat],
           \A j \in Keys : written[j] <= written'[j]
    PROVE  VersionInv'
<1>t. /\ watch \in Seq(Events) /\ written \in [Keys -> Nat] /\ due \in [Keys -> Nat]
  BY DEF TypeOK
<1> DEFINE e == [op |-> op, key |-> k, ver |-> v, report |-> r]
<1>1. watch' = Append(watch, e) /\ UNCHANGED due /\ e.ver = v /\ e.key = k
  BY DEF Announce
<1> HIDE DEF e
<1>2. ASSUME NEW n \in 1..Len(watch') PROVE watch'[n].ver <= written'[watch'[n].key]
  <2>1. CASE n \in 1..Len(watch)
    <3>1. watch'[n] = watch[n] /\ watch[n] \in Events
      BY <1>t, <1>1, <2>1
    <3>2. watch[n].key \in Keys /\ watch[n].ver \in Nat /\ watch[n].ver <= written[watch[n].key]
      BY <2>1, <3>1 DEF Events, VersionInv
    <3>3. written[watch[n].key] <= written'[watch[n].key]
      BY <3>2
    <3>4. written[watch[n].key] \in Nat /\ written'[watch[n].key] \in Nat
      BY <1>t, <3>2
    <3> QED BY <3>1, <3>2, <3>3, <3>4
  <2>2. CASE n = Len(watch) + 1
    BY <1>t, <1>1, <2>2
  <2> QED BY <1>t, <1>1, <2>1, <2>2
<1>3. ASSUME NEW j \in Keys PROVE due'[j] <= written'[j]
  <2>1. due[j] <= written[j] /\ written[j] <= written'[j]
    BY DEF VersionInv
  <2> QED BY <1>t, <1>1, <2>1
<1> QED BY <1>2, <1>3 DEF VersionInv

LEMMA VersionNext == ASSUME TypeOK, VersionInv, [Next]_vars PROVE VersionInv'
<1>t. written \in [Keys -> Nat]
  BY DEF TypeOK
<1>1. ASSUME NEW k \in Keys, NEW op, NEW r, Announce(op, k, written[k] + 1, r),
             written' = [written EXCEPT ![k] = @ + 1]
      PROVE  VersionInv'
  <2>1. /\ written' \in [Keys -> Nat] /\ written'[k] = written[k] + 1 /\ written[k] + 1 \in Nat
        /\ \A j \in Keys : written[j] <= written'[j]
    BY <1>t, <1>1
  <2> QED BY <1>1, <2>1, VersionAnnounce
<1>2. ASSUME NEW k \in Keys, NEW op, Publish(k, op) PROVE VersionInv'
  <2>1. /\ written' \in [Keys -> Nat] /\ written[k] \in Nat
        /\ \A j \in Keys : written[j] <= written'[j]
    BY <1>t, <1>2 DEF Publish
  <2> QED BY <1>2, <2>1, VersionAnnounce DEF Publish
<1>3. CASE ControlPlane
  BY <1>1, <1>2, <1>3 DEF ControlPlane, PutResource, DeleteResource, Keys
<1>4. CASE HandleResource
  BY <1>4, VersionQueue DEF HandleResource
<1>5. ASSUME NEW S \in SUBSET Waiting, HandleRelease(S) PROVE VersionInv'
  BY <1>5, VersionQueue DEF HandleRelease
<1>6. CASE HandleRemove
  BY <1>6, VersionQueue DEF HandleRemove
<1>7. ASSUME NEW k \in Keys,
             AgentTick(k) \/ CommitStep(k) \/ FailCommit(k) \/ Panic(k)
      PROVE  UNCHANGED <<written, watch, due>>
  BY <1>7 DEF AgentTick, HandleTick, CommitStep, SlotStep, LockGateway, EnterGateway,
     ListResources, StartSync, FinishSync, Release, StartProbe, FailCommit, Panic, agentVars
<1>8. Send \/ CommitterLoop \/ PanicGlobal \/ ProbeStep => UNCHANGED <<written, watch, due>>
  BY DEF Send, CommitterLoop, Receive, StartGroup, PanicGlobal, ProbeStep, EndProbe, SendVerdict,
     ReleaseProbe, agentVars
<1>9. ASSUME NEW x \in Gateways, CleanupGatewayChannel(x) PROVE UNCHANGED <<written, watch, due>>
  BY <1>9 DEF CleanupGatewayChannel, agentVars
<1>10. UNCHANGED pathVars => UNCHANGED <<written, watch, due>>
  BY DEF pathVars, agentVars, slotVars, bounds
<1> QED BY <1>3, <1>4, <1>5, <1>6, <1>7, <1>8, <1>9, <1>10, VersionUnchanged, Idle
        DEF Next, AgentEvent

-----------------------------------------------------------------------------
(* A change that is not settled is queued or in a commit that reads it.    *)
PathInv == BeganInv /\ ChangesNotLost

(* What is queued stays queued on its way to the committer.                *)
LEMMA QueuedStays ==
    ASSUME \/ UNCHANGED <<timer, outbox, commitChan, batch>>
           \/ /\ UNCHANGED <<outbox, commitChan, batch>>
              /\ \A k \in Keys : timer[k] # None => timer'[k] # None
    PROVE  \A k \in Keys : Queued(k) => Queued(k)'
BY DEF Queued

LEMMA QueuedCollect ==
    ASSUME TypeOK, TimerInv, AgentReady, NEW S \in SUBSET Waiting, Collect(S),
           UNCHANGED <<commitChan, batch>>
    PROVE  \A k \in Keys : Queued(k) => Queued(k)'
<1> SUFFICES ASSUME NEW k \in Keys, Queued(k) PROVE Queued(k)'
  OBVIOUS
<1>1. CASE timer[k] # None /\ k \in S
  <2>1. timer[k] \in outbox' /\ timer[k].key = k
    BY <1>1 DEF Collect, TimerInv
  <2> QED BY <2>1 DEF Queued, KeysOf
<1>2. CASE timer[k] # None /\ k \notin S
  <2>1. timer'[k] # None
    BY <1>2 DEF Collect, Taken
  <2> QED BY <2>1 DEF Queued
<1>3. k \notin KeysOf(outbox)
  BY DEF AgentReady, KeysOf
<1> QED BY <1>1, <1>2, <1>3 DEF Queued

LEMMA QueuedSend ==
    ASSUME TypeOK, Send PROVE \A k \in Keys : Queued(k) => Queued(k)'
<1> SUFFICES ASSUME NEW k \in Keys, Queued(k) PROVE Queued(k)'
  OBVIOUS
<1>t. /\ commitChan \in Seq(SUBSET Infos) /\ outbox \in SUBSET Infos
      /\ commitChan' = Append(commitChan, outbox) /\ UNCHANGED <<timer, batch>>
  BY DEF TypeOK, Send
<1>1. CASE k \in KeysOf(outbox)
  <2>1. Len(commitChan') = Len(commitChan) + 1 /\ commitChan'[Len(commitChan')] = outbox
        /\ Len(commitChan) \in Nat
    BY <1>t
  <2>2. Len(commitChan') \in 1..Len(commitChan')
    BY <2>1
  <2> QED BY <1>1, <2>1, <2>2 DEF Queued
<1>2. ASSUME NEW n \in 1..Len(commitChan), k \in KeysOf(commitChan[n]) PROVE Queued(k)'
  <2>1. n \in 1..Len(commitChan') /\ commitChan'[n] = commitChan[n]
    BY <1>t
  <2> QED BY <1>2, <2>1 DEF Queued
<1> QED BY <1>t, <1>1, <1>2 DEF Queued

LEMMA QueuedReceive ==
    ASSUME TypeOK, Receive PROVE \A k \in Keys : Queued(k) => Queued(k)'
<1> SUFFICES ASSUME NEW k \in Keys, Queued(k) PROVE Queued(k)'
  OBVIOUS
<1>t. /\ commitChan \in Seq(SUBSET Infos) /\ commitChan # <<>> /\ batch = {}
      /\ batch' = Head(commitChan) /\ commitChan' = Tail(commitChan)
      /\ UNCHANGED <<timer, outbox>>
  BY DEF TypeOK, Receive, agentVars
<1>1. ASSUME NEW n \in 1..Len(commitChan), k \in KeysOf(commitChan[n]) PROVE Queued(k)'
  <2>1. CASE n = 1
    BY <1>t, <1>1, <2>1 DEF Queued
  <2>2. CASE n # 1
    <3>1. n - 1 \in 1..Len(commitChan') /\ commitChan'[n - 1] = commitChan[n]
      BY <1>t, <2>2
    <3> QED BY <1>1, <3>1 DEF Queued
  <2> QED BY <2>1, <2>2
<1>2. k \notin KeysOf(batch)
  BY <1>t DEF KeysOf
<1> QED BY <1>t, <1>1, <1>2 DEF Queued

LEMMA PathKept ==
    ASSUME PathInv, UNCHANGED <<job, settled, due>>,
           \A k \in Keys : Queued(k) => Queued(k)'
    PROVE  PathInv'
BY DEF PathInv, BeganInv, ChangesNotLost, InCommit

(* An event of key x puts x in the queue.                                  *)
LEMMA PathEvent ==
    ASSUME PathInv, UNCHANGED <<job, settled>>, NEW x \in Keys, Queued(x)',
           \A k \in Keys : Queued(k) => Queued(k)',
           \A k \in Keys : k # x => due'[k] = due[k]
    PROVE  PathInv'
BY DEF PathInv, BeganInv, ChangesNotLost, InCommit

(* A step of the commit of x.                                              *)
LEMMA PathJob ==
    ASSUME PathInv, UNCHANGED due, NEW x \in Keys,
           \A k \in Keys : Queued(k) => Queued(k)',
           \A k \in Keys : k # x => job'[k] = job[k] /\ settled'[k] = settled[k],
           job'[x].pc # "none" => job[x].pc # "none" /\ job'[x].began = job[x].began,
           due[x] > settled'[x] => Queued(x)' \/ InCommit(x)'
    PROVE  PathInv'
BY DEF PathInv, BeganInv, ChangesNotLost, InCommit

LEMMA PathAgent == ASSUME TypeOK, TimerInv, PathInv, AgentEvent PROVE PathInv'
<1>t. timer \in [Keys -> Infos \union {None}] /\ due \in [Keys -> Nat]
  BY DEF TypeOK
<1>e. ASSUME watch # <<>> PROVE \E e \in Events, x \in Keys : e = Head(watch) /\ x = e.key
  <2>1. Head(watch) \in Events
    BY <1>e DEF TypeOK
  <2> QED BY <2>1 DEF Events
<1>1. CASE HandleResource
  <2>0. PICK e \in Events, x \in Keys : e = Head(watch) /\ x = e.key
    BY <1>1, <1>e DEF HandleResource
  <2>1. Fresh(e) # None /\ UNCHANGED <<outbox, commitChan, batch, job, settled>>
    BY <1>1, FreshType, NoneAssumption DEF HandleResource
  <2>2. CASE Skipped(e)
    <3>1. UNCHANGED <<timer, due>>
      BY <1>1, <2>0, <2>2 DEF HandleResource
    <3> QED BY <2>1, <3>1, QueuedStays, PathKept
  <2>3. CASE ~Skipped(e)
    <3>1. /\ timer' = [timer EXCEPT ![x] = Fresh(e)]
          /\ due' = [due EXCEPT ![x] = Larger(@, e.ver)]
      BY <1>1, <2>0, <2>3 DEF HandleResource
    <3>2. timer'[x] # None /\ \A k \in Keys : timer[k] # None => timer'[k] # None
      BY <1>t, <2>1, <3>1
    <3>3. \A k \in Keys : k # x => due'[k] = due[k]
      BY <1>t, <3>1
    <3>4. \A k \in Keys : Queued(k) => Queued(k)'
      BY <2>1, <3>2, QueuedStays
    <3>5. Queued(x)'
      BY <3>2 DEF Queued
    <3> QED BY <2>1, <3>3, <3>4, <3>5, PathEvent
  <2> QED BY <2>2, <2>3
<1>2. ASSUME NEW S \in SUBSET Waiting, HandleRelease(S) PROVE PathInv'
  BY <1>2, QueuedCollect, PathKept DEF HandleRelease
<1>3. CASE HandleRemove
  <2>0. PICK e \in Events, x \in Keys : e = Head(watch) /\ x = e.key
    BY <1>3, <1>e DEF HandleRemove
  <2>1. /\ outbox = {} /\ outbox' = {Fresh(e)}
        /\ due' = [due EXCEPT ![x] = Larger(@, e.ver)]
        /\ UNCHANGED <<timer, commitChan, batch, job, settled>>
    BY <1>3, <2>0 DEF HandleRemove, AgentReady
  <2>2. Queued(x)'
    <3>1. Fresh(e).key = x
      BY <2>0 DEF Fresh
    <3> QED BY <2>1, <3>1 DEF Queued, KeysOf
  <2>3. \A k \in Keys : Queued(k) => Queued(k)'
    BY <2>1 DEF Queued, KeysOf
  <2>4. \A k \in Keys : k # x => due'[k] = due[k]
    BY <1>t, <2>1
  <2> QED BY <2>1, <2>2, <2>3, <2>4, PathEvent
<1> QED BY <1>1, <1>2, <1>3 DEF AgentEvent

(* The keys of a segment are in a commit that began after their last event.*)
LEMMA PathStart ==
    ASSUME TypeOK, PathInv, NEW list \in SUBSET batch, StartGroup(list) PROVE PathInv'
<1>t. /\ due \in [Keys -> Nat] /\ job \in [Keys -> Jobs] /\ list \subseteq Infos
      /\ batch' = batch \ list /\ UNCHANGED <<timer, outbox, commitChan, due, settled>>
      /\ \A k \in Keys : job[k].pc = "none"
  BY DEF TypeOK, StartGroup, GroupDone, agentVars
<1>1. ASSUME NEW k \in Keys, k \in KeysOf(list)
      PROVE  job'[k].pc \in {"lock", "list"} /\ job'[k].began = due[k]
  <2> DEFINE i == CHOOSE i \in list : i.key = k
  <2>1. i.key = k
    BY <1>1 DEF KeysOf
  <2>2. job'[k] = NewJob(i)
    BY <1>t, <1>1 DEF StartGroup
  <2> HIDE DEF i
  <2>3. NewJob(i).pc \in {"lock", "list"} /\ NewJob(i).began = due[i.key]
    BY DEF NewJob, NoJob
  <2> QED BY <2>1, <2>2, <2>3
<1>2. ASSUME NEW k \in Keys, k \notin KeysOf(list)
      PROVE  job'[k] = job[k] /\ (Queued(k) => Queued(k)')
  <2>1. job'[k] = job[k]
    BY <1>t, <1>2 DEF StartGroup
  <2>2. k \in KeysOf(batch) => k \in KeysOf(batch')
    BY <1>t, <1>2 DEF KeysOf
  <2> QED BY <1>t, <2>1, <2>2 DEF Queued
<1>3. ASSUME NEW k \in Keys, due[k] > settled[k] PROVE Queued(k)' \/ InCommit(k)'
  <2>1. CASE k \in KeysOf(list)
    BY <1>1, <2>1 DEF InCommit
  <2>2. CASE k \notin KeysOf(list)
    BY <1>t, <1>2, <1>3, <2>2 DEF PathInv, ChangesNotLost, InCommit
  <2> QED BY <2>1, <2>2
<1>4. ASSUME NEW k \in Keys, job'[k].pc # "none", due[k] > job'[k].began PROVE Queued(k)'
  <2>1. k \in KeysOf(list)
    BY <1>t, <1>2, <1>4
  <2>2. due[k] \in Nat /\ due[k] > due[k]
    BY <1>t, <1>1, <1>4, <2>1
  <2> QED BY <2>2
<1> QED BY <1>t, <1>3, <1>4 DEF PathInv, BeganInv, ChangesNotLost

LEMMA PathCommit ==
    ASSUME TypeOK, VersionInv, PathInv, NEW k \in Keys, CommitStep(k) PROVE PathInv'
<1>t. /\ job \in [Keys -> Jobs] /\ job[k] \in Jobs /\ settled \in [Keys -> Nat]
      /\ due[k] \in Nat /\ written[k] \in Nat /\ settled[k] \in Nat
      /\ due[k] <= written[k]
      /\ due[k] > settled[k] => Queued(k) \/ InCommit(k)
  BY DEF TypeOK, VersionInv, PathInv, ChangesNotLost
<1>q. /\ \A j \in Keys : Queued(j) => Queued(j)'
      /\ UNCHANGED due
  <2>1. UNCHANGED <<timer, outbox, commitChan, batch, due>>
    BY DEF CommitStep, SlotStep, LockGateway, EnterGateway, ListResources, StartSync,
       FinishSync, Release, StartProbe, agentVars
  <2> QED BY <2>1, QueuedStays
<1>1. CASE LockGateway(k)
  <2>1. /\ job'[k].pc = "enter" /\ job'[k].began = job[k].began
        /\ \A j \in Keys : j # k => job'[j] = job[j]
    BY <1>t, <1>1 DEF LockGateway, Jobs
  <2>2. UNCHANGED settled /\ job[k].pc = "lock"
    BY <1>1 DEF LockGateway, At
  <2> QED BY <1>q, <2>1, <2>2, PathJob DEF InCommit
<1>2. CASE EnterGateway(k)
  <2>1. Goto(k, "list") /\ UNCHANGED settled /\ job[k].pc = "enter"
    BY <1>2 DEF EnterGateway, At
  <2> QED BY <1>t, <1>q, <2>1, GotoFields, PathJob DEF InCommit
<1>3. CASE ListResources(k)
  <2>1. /\ job' = [job EXCEPT ![k].pc = "flush", ![k].snap = written[k]]
        /\ UNCHANGED settled /\ job[k].pc = "list"
    BY <1>3 DEF ListResources, Snapshot, At
  <2>2. /\ job'[k].pc = "flush" /\ job'[k].snap = written[k] /\ job'[k].began = job[k].began
        /\ \A j \in Keys : j # k => job'[j] = job[j]
    BY <1>t, <2>1 DEF Jobs
  <2>3. InCommit(k)'
    BY <1>t, <1>q, <2>2 DEF InCommit
  <2> QED BY <1>q, <2>1, <2>2, <2>3, PathJob
<1>4. CASE StartSync(k)
  <2>1. Goto(k, "alter") /\ UNCHANGED settled /\ job[k].pc = "flush"
    BY <1>4 DEF StartSync, At
  <2>2. /\ job'[k].pc = "alter" /\ job'[k].snap = job[k].snap /\ job'[k].began = job[k].began
        /\ \A j \in Keys : j # k => job'[j] = job[j]
    BY <1>t, <2>1, GotoFields
  <2>3. InCommit(k) => InCommit(k)'
    BY <1>q, <2>1, <2>2 DEF InCommit
  <2> QED BY <1>t, <1>q, <2>1, <2>2, <2>3, PathJob
<1>5. CASE FinishSync(k)
  <2>1. /\ job[k].pc = "alter" /\ settled' = [settled EXCEPT ![k] = Larger(@, job[k].snap)]
        /\ Goto(k, "report") \/ End(k)
    BY <1>5 DEF FinishSync, At
  <2>2. /\ job'[k].pc = "none" \/ job'[k].began = job[k].began
        /\ \A j \in Keys : j # k => job'[j] = job[j]
    BY <1>t, <2>1, GotoFields, EndFields
  <2>3. /\ settled'[k] = Larger(settled[k], job[k].snap) /\ job[k].snap \in Nat
        /\ \A j \in Keys : j # k => settled'[j] = settled[j]
    BY <1>t, <2>1 DEF Jobs
  <2>4. settled'[k] >= settled[k] /\ settled'[k] >= job[k].snap /\ settled'[k] \in Nat
    BY <1>t, <2>3 DEF Larger
  <2>5. due[k] > settled'[k] => Queued(k)
    BY <1>t, <2>1, <2>3, <2>4 DEF InCommit
  <2> QED BY <1>q, <2>1, <2>2, <2>3, <2>5, PathJob
<1>6. CASE Release(k)
  <2>1. /\ End(k) /\ UNCHANGED settled /\ job[k].pc \in {"report", "release"}
    BY <1>6 DEF Release, At
  <2> QED BY <1>t, <1>q, <2>1, EndFields, PathJob DEF InCommit
<1>7. CASE StartProbe(k)
  <2>1. /\ End(k) /\ UNCHANGED settled /\ job[k].pc = "report"
    BY <1>7 DEF StartProbe, At
  <2> QED BY <1>t, <1>q, <2>1, EndFields, PathJob DEF InCommit
<1> QED BY <1>1, <1>2, <1>3, <1>4, <1>5, <1>6, <1>7 DEF CommitStep, SlotStep

(* A commit that ends in an error or a panic leaves nothing unsettled      *)
(* behind but what has been queued since it began.                         *)
LEMMA PathGivenUp ==
    ASSUME TypeOK, PathInv, NEW k \in Keys, job[k].pc # "none", UNCHANGED due,
           UNCHANGED <<timer, outbox, commitChan, batch>>,
           settled' = [settled EXCEPT ![k] = Larger(@, job[k].began)],
           \A j \in Keys : j # k => job'[j] = job[j],
           job'[k].pc = "none" \/ job'[k].began = job[k].began
    PROVE  PathInv'
<1>1. /\ settled[k] \in Nat /\ job[k].began \in Nat /\ due[k] \in Nat
      /\ settled'[k] = Larger(settled[k], job[k].began)
      /\ \A j \in Keys : j # k => settled'[j] = settled[j]
  BY DEF TypeOK, Jobs
<1>2. due[k] > settled'[k] => due[k] > job[k].began
  BY <1>1 DEF Larger
<1>3. \A j \in Keys : Queued(j) => Queued(j)'
  BY QueuedStays
<1>4. due[k] > settled'[k] => Queued(k)'
  BY <1>2, <1>3 DEF PathInv, BeganInv
<1> QED BY <1>1, <1>3, <1>4, PathJob

LEMMA PathFailure ==
    ASSUME TypeOK, PathInv, NEW k \in Keys, FailCommit(k) \/ Panic(k) \/ PanicGlobal
    PROVE  PathInv'
<1>t. job \in [Keys -> Jobs] /\ timer \in [Keys -> Infos \union {None}] /\ Global \in Keys
  BY DEF TypeOK, Keys
<1>1. CASE FailCommit(k)
  <2>1. /\ job[k].pc # "none" /\ UNCHANGED <<due, outbox, commitChan, batch>> /\ RetryStage(k)
        /\ Goto(k, "release") \/ End(k)
    BY <1>1 DEF FailCommit, At
  <2>2. /\ job'[k].pc = "none" \/ job'[k].began = job[k].began
        /\ \A j \in Keys : j # k => job'[j] = job[j]
    BY <1>t, <2>1, GotoFields, EndFields
  <2>3. CASE RetryAllowed(k)
    <3>1. timer' = [timer EXCEPT ![k] = Again(k)] /\ UNCHANGED settled
      BY <2>1, <2>3 DEF RetryStage
    <3>2. Again(k) # None
      BY <1>t, <2>3, SizeAssumption, NoneAssumption DEF RetryAllowed, Again, Infos, Jobs
    <3>3. timer'[k] # None /\ \A j \in Keys : timer[j] # None => timer'[j] # None
      BY <1>t, <3>1, <3>2
    <3>4. Queued(k)' /\ \A j \in Keys : Queued(j) => Queued(j)'
      BY <2>1, <3>3, QueuedStays DEF Queued
    <3> QED BY <2>1, <2>2, <3>1, <3>4, PathJob
  <2>4. CASE ~RetryAllowed(k)
    <3>1. settled' = [settled EXCEPT ![k] = Larger(@, job[k].began)] /\ UNCHANGED timer
      BY <2>1, <2>4 DEF RetryStage
    <3> QED BY <2>1, <2>2, <3>1, PathGivenUp
  <2> QED BY <2>3, <2>4
<1>2. CASE Panic(k)
  <2>1. /\ job[k].pc # "none" /\ UNCHANGED <<due, timer, outbox, commitChan, batch>> /\ End(k)
        /\ settled' = [settled EXCEPT ![k] = Larger(@, job[k].began)]
    BY <1>2 DEF Panic, agentVars
  <2> QED BY <1>t, <2>1, EndFields, PathGivenUp
<1>3. CASE PanicGlobal
  <2>1. /\ job[Global].pc # "none" /\ UNCHANGED <<due, timer, outbox, commitChan, batch>>
        /\ settled' = [settled EXCEPT ![Global] = Larger(@, job[Global].began)]
        /\ Goto(Global, "dead")
    BY <1>3 DEF PanicGlobal, agentVars
  <2> QED BY <1>t, <2>1, GotoFields, PathGivenUp
<1> QED BY <1>1, <1>2, <1>3

LEMMA PathNext ==
    ASSUME TypeOK, TimerInv, VersionInv, PathInv, [Next]_vars PROVE PathInv'
<1>1. ASSUME UNCHANGED <<timer, outbox, commitChan, batch, job, settled, due>> PROVE PathInv'
  BY <1>1, QueuedStays, PathKept
<1>2. ControlPlane \/ ProbeStep \/ UNCHANGED pathVars
        => UNCHANGED <<timer, outbox, commitChan, batch, job, settled, due>>
  BY DEF ControlPlane, PutResource, DeleteResource, Publish, Announce, ProbeStep, EndProbe, SendVerdict,
     ReleaseProbe, pathVars, agentVars
<1>3. ASSUME NEW x \in Gateways, CleanupGatewayChannel(x)
      PROVE  UNCHANGED <<timer, outbox, commitChan, batch, job, settled, due>>
  BY <1>3 DEF CleanupGatewayChannel, agentVars
<1>4. ASSUME NEW k \in Keys, AgentTick(k) PROVE PathInv'
  BY <1>4, QueuedCollect, PathKept DEF AgentTick, HandleTick
<1>5. CASE Send
  BY <1>5, QueuedSend, PathKept DEF Send
<1>6. CASE CommitterLoop
  <2>1. CASE Receive
    BY <2>1, QueuedReceive, PathKept DEF Receive
  <2> QED BY <1>6, <2>1, PathStart DEF CommitterLoop
<1>7. CASE PanicGlobal
  BY <1>7, PathFailure DEF Keys
<1> QED BY <1>1, <1>2, <1>3, <1>4, <1>5, <1>6, <1>7, Idle, PathAgent, PathCommit, PathFailure
        DEF Next

(* From the event on, a change is queued or in a commit that reads the     *)
(* configuration after it, until it is applied or given up.                *)
THEOREM PipelineChangesNotLost == Spec => []ChangesNotLost
<1>1. Init => TimerInv /\ VersionInv /\ PathInv
  BY DEF Init, TimerInv, VersionInv, PathInv, BeganInv, ChangesNotLost, NoJob
<1>2. TypeOK /\ TimerInv /\ VersionInv /\ PathInv /\ [Next]_vars
        => TimerInv' /\ VersionInv' /\ PathInv'
  BY TimerNext, VersionNext, PathNext
<1>3. PathInv => ChangesNotLost
  BY DEF PathInv
<1> QED BY <1>1, <1>2, <1>3, PipelineTypeOK, PTL DEF Spec

-----------------------------------------------------------------------------
(***************************************************************************)
(* Nothing is given up as long as the errors are few.                      *)
(***************************************************************************)

(* Wherever an info is, it was tried again after an error each time.       *)
RetryInv ==
    /\ \A k \in Keys : timer[k] # None => timer[k].retry <= failures
    /\ \A i \in outbox \union batch : i.retry <= failures
    /\ \A n \in 1..Len(commitChan) : \A i \in commitChan[n] : i.retry <= failures
    /\ \A k \in Keys : job[k].retry <= failures

LEMMA RetryKept ==
    ASSUME RetryInv, UNCHANGED <<timer, outbox, batch, commitChan, job, failures>>
    PROVE  RetryInv'
BY DEF RetryInv

LEMMA RetryCollect ==
    ASSUME TypeOK, RetryInv, NEW S \in SUBSET Waiting, Collect(S),
           UNCHANGED <<batch, commitChan, job, failures>>
    PROVE  RetryInv'
<1>1. ASSUME NEW i \in outbox' PROVE i.retry <= failures
  BY DEF Collect, Waiting, RetryInv
<1>2. ASSUME NEW k \in Keys, timer'[k] # None PROVE timer'[k].retry <= failures
  BY <1>2 DEF Collect, Taken, RetryInv
<1> QED BY <1>1, <1>2 DEF RetryInv

LEMMA RetryAgent ==
    ASSUME TypeOK, RetryInv, AgentEvent \/ (\E k \in Keys : AgentTick(k)) \/ Send
    PROVE  RetryInv'
<1>t. /\ failures \in Nat /\ timer \in [Keys -> Infos \union {None}]
      /\ commitChan \in Seq(SUBSET Infos) /\ outbox \in SUBSET Infos
  BY DEF TypeOK
<1>f. \A e : Fresh(e).retry = 0
  BY DEF Fresh
<1>1. CASE HandleResource
  <2>1. UNCHANGED <<outbox, batch, commitChan, job, failures>>
    BY <1>1 DEF HandleResource, bounds
  <2>2. UNCHANGED timer \/ timer' = [timer EXCEPT ![Head(watch).key] = Fresh(Head(watch))]
    BY <1>1 DEF HandleResource
  <2>3. \A k \in Keys : timer'[k] # None => timer'[k].retry <= failures
    BY <1>t, <1>f, <2>2 DEF RetryInv
  <2> QED BY <2>1, <2>3 DEF RetryInv
<1>2. ASSUME NEW S \in SUBSET Waiting, HandleRelease(S) \/ HandleTick(S) PROVE RetryInv'
  BY <1>2, RetryCollect DEF HandleRelease, HandleTick, bounds
<1>3. CASE HandleRemove
  <2>1. outbox' = {Fresh(Head(watch))} /\ UNCHANGED <<timer, batch, commitChan, job, failures>>
    BY <1>3 DEF HandleRemove, bounds
  <2> QED BY <1>t, <1>f, <2>1 DEF RetryInv
<1>4. CASE Send
  <2>1. /\ commitChan' = Append(commitChan, outbox) /\ outbox' = {}
        /\ UNCHANGED <<timer, batch, job, failures>>
    BY <1>4 DEF Send, bounds
  <2>2. ASSUME NEW n \in 1..Len(commitChan') PROVE \A i \in commitChan'[n] : i.retry <= failures
    <3>1. \/ n \in 1..Len(commitChan) /\ commitChan'[n] = commitChan[n]
          \/ commitChan'[n] = outbox
      BY <1>t, <2>1
    <3> QED BY <3>1 DEF RetryInv
  <2> QED BY <2>1, <2>2 DEF RetryInv
<1> QED BY <1>1, <1>2, <1>3, <1>4 DEF AgentEvent, AgentTick

LEMMA RetryLoop == ASSUME TypeOK, RetryInv, CommitterLoop PROVE RetryInv'
<1>t. failures \in Nat /\ commitChan \in Seq(SUBSET Infos)
  BY DEF TypeOK
<1>1. CASE Receive
  <2>1. /\ batch' = Head(commitChan) /\ commitChan' = Tail(commitChan) /\ commitChan # <<>>
        /\ UNCHANGED <<timer, outbox, job, failures>>
    BY <1>1 DEF Receive, agentVars, bounds
  <2>2. /\ 1 \in 1..Len(commitChan) /\ batch' = commitChan[1]
        /\ \A n \in 1..Len(commitChan') :
                n + 1 \in 1..Len(commitChan) /\ commitChan'[n] = commitChan[n + 1]
    BY <1>t, <2>1
  <2>3. \A i \in batch' : i.retry <= failures
    BY <2>2 DEF RetryInv
  <2>4. \A n \in 1..Len(commitChan') : \A i \in commitChan'[n] : i.retry <= failures
    BY <2>2 DEF RetryInv
  <2> QED BY <2>1, <2>3, <2>4 DEF RetryInv
<1>2. ASSUME NEW list \in SUBSET batch, StartGroup(list) PROVE RetryInv'
  <2>1. batch' \subseteq batch /\ UNCHANGED <<timer, outbox, commitChan, failures>>
    BY <1>2 DEF StartGroup, agentVars, bounds
  <2>2. ASSUME NEW k \in Keys PROVE job'[k].retry <= failures
    <3>1. CASE k \in KeysOf(list)
      <4> DEFINE i == CHOOSE i \in list : i.key = k
      <4>1. i \in list
        BY <3>1 DEF KeysOf
      <4>2. job'[k] = NewJob(i)
        BY <1>2, <3>1 DEF StartGroup
      <4> HIDE DEF i
      <4>3. NewJob(i).retry = i.retry
        BY DEF NewJob, NoJob
      <4> QED BY <4>1, <4>2, <4>3 DEF RetryInv
    <3>2. CASE k \notin KeysOf(list)
      BY <1>2, <3>2 DEF StartGroup, RetryInv
    <3> QED BY <3>1, <3>2
  <2> QED BY <2>1, <2>2 DEF RetryInv
<1> QED BY <1>1, <1>2 DEF CommitterLoop

(* The commit of k keeps the count of its retries, or ends.                *)
LEMMA RetryJob ==
    ASSUME TypeOK, NEW k \in Keys, CommitStep(k) \/ FailCommit(k) \/ Panic(k) \/ PanicGlobal
    PROVE  \A j \in Keys : job'[j].retry = job[j].retry \/ job'[j].retry = 0
<1>t. job \in [Keys -> Jobs] /\ job[k] \in Jobs
  BY DEF TypeOK
<1>1. ASSUME NEW x \in Keys, NEW pc, Goto(x, pc) \/ End(x)
      PROVE  \A j \in Keys : job'[j].retry = job[j].retry \/ job'[j].retry = 0
  BY <1>t, <1>1, GotoFields, EndFields
<1>2. CASE LockGateway(k)
  BY <1>t, <1>2 DEF LockGateway, Jobs
<1>3. CASE ListResources(k)
  BY <1>t, <1>3 DEF ListResources, Jobs
<1>4. CASE EnterGateway(k) \/ StartSync(k) \/ FinishSync(k) \/ Release(k) \/ StartProbe(k)
           \/ FailCommit(k) \/ Panic(k)
  <2>1. \E pc : Goto(k, pc) \/ End(k)
    BY <1>4 DEF EnterGateway, StartSync, FinishSync, Release, StartProbe, FailCommit, Panic
  <2> QED BY <1>1, <2>1
<1>5. CASE PanicGlobal
  BY <1>1, <1>5 DEF PanicGlobal, Keys
<1> QED BY <1>2, <1>3, <1>4, <1>5 DEF CommitStep, SlotStep

LEMMA RetryCommit ==
    ASSUME TypeOK, RetryInv, NEW k \in Keys,
           CommitStep(k) \/ FailCommit(k) \/ Panic(k) \/ PanicGlobal
    PROVE  RetryInv'
<1>t. /\ failures \in Nat /\ timer \in [Keys -> Infos \union {None}]
      /\ \A j \in Keys : job[j].retry \in Nat
  BY SizeAssumption DEF TypeOK, Jobs
<1>1. CASE FailCommit(k)
  <2>1. /\ failures' = failures + 1 /\ UNCHANGED <<outbox, batch, commitChan>>
        /\ UNCHANGED timer \/ timer' = [timer EXCEPT ![k] = Again(k)]
    BY <1>1 DEF FailCommit, RetryStage
  <2>2. Again(k).retry = job[k].retry + 1
    BY DEF Again
  <2>3. \A i \in outbox' \union batch' : i.retry <= failures'
    <3>1. ASSUME NEW i \in outbox \union batch PROVE i.retry <= failures'
      <4>1. i.retry <= failures /\ i.retry \in Nat
        BY SizeAssumption DEF RetryInv, TypeOK, Infos
      <4> QED BY <1>t, <2>1, <4>1
    <3> QED BY <2>1, <3>1
  <2>4. \A n \in 1..Len(commitChan') : \A i \in commitChan'[n] : i.retry <= failures'
    <3>1. ASSUME NEW n \in 1..Len(commitChan), NEW i \in commitChan[n]
          PROVE  i.retry <= failures'
      <4>1. i \in Infos
        BY DEF TypeOK
      <4>2. i.retry <= failures /\ i.retry \in Nat
        BY <4>1, SizeAssumption DEF RetryInv, Infos
      <4> QED BY <1>t, <2>1, <4>2
    <3> QED BY <2>1, <3>1
  <2>5. ASSUME NEW j \in Keys, timer'[j] # None PROVE timer'[j].retry <= failures'
    <3>1. CASE timer'[j] = timer[j]
      <4>1. timer[j] \in Infos /\ timer[j].retry <= failures
        BY <1>t, <2>5, <3>1 DEF RetryInv
      <4>2. timer[j].retry \in Nat
        BY <4>1, SizeAssumption DEF Infos
      <4> QED BY <1>t, <2>1, <3>1, <4>1, <4>2
    <3>2. CASE timer'[j] = Again(k)
      BY <1>t, <2>1, <2>2, <3>2 DEF RetryInv
    <3> QED BY <1>t, <2>1, <3>1, <3>2
  <2>6. ASSUME NEW j \in Keys PROVE job'[j].retry <= failures'
    <3>1. job'[j].retry = job[j].retry \/ job'[j].retry = 0
      BY <1>1, RetryJob
    <3> QED BY <1>t, <2>1, <3>1 DEF RetryInv
  <2> QED BY <2>3, <2>4, <2>5, <2>6 DEF RetryInv
<1>2. CASE CommitStep(k) \/ Panic(k) \/ PanicGlobal
  <2>1. UNCHANGED <<timer, outbox, batch, commitChan, failures>>
    BY <1>2 DEF CommitStep, SlotStep, LockGateway, EnterGateway, ListResources, StartSync,
                FinishSync, Release, StartProbe, Panic, PanicGlobal, agentVars, bounds
  <2>2. ASSUME NEW j \in Keys PROVE job'[j].retry <= failures
    <3>1. job'[j].retry = job[j].retry \/ job'[j].retry = 0
      BY <1>2, RetryJob
    <3> QED BY <1>t, <3>1 DEF RetryInv
  <2> QED BY <2>1, <2>2 DEF RetryInv
<1> QED BY <1>1, <1>2

LEMMA RetryNext == ASSUME TypeOK, RetryInv, [Next]_vars PROVE RetryInv'
<1>1. ControlPlane \/ ProbeStep \/ UNCHANGED pathVars
        => UNCHANGED <<timer, outbox, batch, commitChan, job, failures>>
  BY DEF ControlPlane, PutResource, DeleteResource, Publish, Announce, ProbeStep, EndProbe, SendVerdict,
     ReleaseProbe, pathVars, agentVars, bounds
<1>2. ASSUME NEW x \in Gateways, CleanupGatewayChannel(x)
      PROVE  UNCHANGED <<timer, outbox, batch, commitChan, job, failures>>
  BY <1>2 DEF CleanupGatewayChannel, agentVars
<1>3. CASE PanicGlobal
  BY <1>3, RetryCommit DEF Keys
<1> QED BY <1>1, <1>2, <1>3, Idle, RetryKept, RetryAgent, RetryLoop, RetryCommit DEF Next

(* A commit that fails for the last time has failed more often than that.  *)
LEMMA GivenUpNext ==
    ASSUME TypeOK, SnapInv, RetryInv, NothingGivenUp, [Next]_vars PROVE NothingGivenUp'
<1>t. /\ failures \in Nat /\ panics \in Nat /\ globalPanics \in Nat
      /\ synced \in [Keys -> Nat] /\ settled \in [Keys -> Nat] /\ job \in [Keys -> Jobs]
  BY DEF TypeOK
<1>1. CASE UNCHANGED <<synced, settled, failures, panics, globalPanics>>
  BY <1>1 DEF NothingGivenUp
<1>2. ASSUME NEW k \in Keys, FinishSync(k) PROVE NothingGivenUp'
  <2>1. /\ synced' = [synced EXCEPT ![k] = job[k].snap]
        /\ settled' = [settled EXCEPT ![k] = Larger(@, job[k].snap)]
        /\ UNCHANGED <<failures, panics, globalPanics>> /\ job[k].pc = "alter"
    BY <1>2 DEF FinishSync, At, bounds
  <2>2. synced[k] <= job[k].snap /\ synced[k] \in Nat /\ job[k].snap \in Nat
    BY <1>t, <2>1 DEF SnapInv, Jobs
  <2>3. ASSUME settled = synced PROVE settled' = synced'
    <3>1. Larger(settled[k], job[k].snap) = job[k].snap
      BY <2>2, <2>3 DEF Larger
    <3> QED BY <2>1, <2>3, <3>1
  <2> QED BY <2>1, <2>3 DEF NothingGivenUp
<1>3. ASSUME NEW k \in Keys, FailCommit(k) PROVE NothingGivenUp'
  <2>1. /\ failures' = failures + 1 /\ RetryStage(k)
        /\ UNCHANGED <<synced, panics, globalPanics>>
    BY <1>3 DEF FailCommit
  <2>2. CASE RetryAllowed(k)
    BY <1>t, <2>1, <2>2, SizeAssumption DEF RetryStage, NothingGivenUp
  <2>3. CASE ~RetryAllowed(k)
    <3>1. job[k].retry <= failures /\ job[k].retry \in Nat /\ ~(job[k].retry < MaxRetry)
      BY <1>t, <2>3, SizeAssumption DEF RetryInv, RetryAllowed, Jobs
    <3>2. ~(failures' <= MaxRetry)
      BY <1>t, <2>1, <3>1, SizeAssumption
    <3> QED BY <3>2 DEF NothingGivenUp
  <2> QED BY <2>2, <2>3
<1>4. ASSUME NEW k \in Keys, Panic(k) \/ PanicGlobal PROVE NothingGivenUp'
  BY <1>t, <1>4 DEF Panic, PanicGlobal, NothingGivenUp
<1>5. ASSUME NEW k \in Keys,
             CommitStep(k), ~FinishSync(k)
      PROVE  UNCHANGED <<synced, settled, failures, panics, globalPanics>>
  BY <1>5 DEF CommitStep, SlotStep, LockGateway, EnterGateway, ListResources, StartSync,
              Release, StartProbe, bounds
<1>6. ControlPlane \/ AgentEvent \/ (\E k \in Keys : AgentTick(k)) \/ Send \/ CommitterLoop
        \/ ProbeStep \/ UNCHANGED pathVars
        => UNCHANGED <<synced, settled, failures, panics, globalPanics>>
  BY DEF ControlPlane, PutResource, DeleteResource, Publish, Announce, AgentEvent,
     HandleResource, HandleRelease, HandleRemove, AgentTick, HandleTick, Send, CommitterLoop,
     Receive, StartGroup, ProbeStep, EndProbe, SendVerdict, ReleaseProbe, pathVars, bounds
<1>7. ASSUME NEW x \in Gateways, CleanupGatewayChannel(x)
      PROVE  UNCHANGED <<synced, settled, failures, panics, globalPanics>>
  BY <1>7 DEF CleanupGatewayChannel
<1>8. CASE PanicGlobal
  BY <1>4, <1>8 DEF Keys
<1> QED BY <1>1, <1>2, <1>3, <1>4, <1>5, <1>6, <1>7, <1>8, Idle DEF Next

(* Whichever keys and attempts up to maxStageRetryCount errors hit, and    *)
(* however the retries meet new events of the same keys in the timer, no   *)
(* change is given up.                                                     *)
THEOREM PipelineNothingGivenUp == Spec => []NothingGivenUp
<1>1. Init => SnapInv /\ RetryInv /\ NothingGivenUp
  BY SnapInit DEF Init, RetryInv, NothingGivenUp, NoJob
<1>2. TypeOK /\ SnapInv /\ RetryInv /\ NothingGivenUp /\ [Next]_vars
        => SnapInv' /\ RetryInv' /\ NothingGivenUp'
  BY SnapNext, RetryNext, GivenUpNext
<1> QED BY <1>1, <1>2, PipelineTypeOK, PTL DEF Spec

-----------------------------------------------------------------------------
(***************************************************************************)
(* The slots of the gateways: none is leaked, and, while no channel is     *)
(* cleaned up, each serves one commit or probe at a time.                  *)
(***************************************************************************)


(* The commit of k moves on, and the token of its slot with it.            *)
LEMMA SlotOfJob ==
    ASSUME NoLeakedSlot, NEW k \in Keys, UNCHANGED probes,
           \A j \in Keys : j # k => job'[j] = job[j],
           \/ token' \subseteq token /\ (Holds(k) => Holds(k)' /\ job'[k].chan = job[k].chan)
           \/ token' \subseteq token \ {job[k].chan}
    PROVE  NoLeakedSlot'
<1> SUFFICES ASSUME NEW c \in token' PROVE c \in HeldChans'
  BY DEF NoLeakedSlot
<1>1. c \in HeldChans
  BY DEF NoLeakedSlot
<1>2. CASE \E p \in probes : p.chan = c
  BY <1>2 DEF HeldChans
<1>3. CASE \E j \in Stages : Holds(j) /\ job[j].chan = c
  <2>1. PICK j \in Stages : Holds(j) /\ job[j].chan = c
    BY <1>3
  <2>2. Holds(j)' /\ job'[j].chan = c
    BY <2>1 DEF Holds, Keys
  <2> QED BY <2>2 DEF HeldChans
<1> QED BY <1>1, <1>2, <1>3 DEF HeldChans

LEMMA SlotsUnchanged ==
    ASSUME NoLeakedSlot, UNCHANGED <<job, probes>>, token' \subseteq token
    PROVE  NoLeakedSlot'
BY DEF NoLeakedSlot, HeldChans, Holds

LEMMA CommitSlot ==
    ASSUME TypeOK, NoLeakedSlot, NEW k \in Keys, CommitStep(k) PROVE NoLeakedSlot'
<1>t. job \in [Keys -> Jobs] /\ job[k] \in Jobs /\ (k \in Stages => k # Global)
  BY GlobalAssumption DEF TypeOK
<1>1. CASE LockGateway(k)
  <2>1. ~Holds(k) /\ UNCHANGED <<token, probes>>
    BY <1>1 DEF LockGateway, At, Holds, Holding
  <2>2. \A j \in Keys : j # k => job'[j] = job[j]
    BY <1>t, <1>1 DEF LockGateway
  <2> QED BY <2>1, <2>2, SlotOfJob
<1>2. ASSUME k \in Stages, EnterGateway(k) PROVE NoLeakedSlot'
  <2>1. Goto(k, "list") /\ token' = token \union {job[k].chan} /\ UNCHANGED probes /\ ~Holds(k)
    BY <1>2 DEF EnterGateway, At, Holds, Holding
  <2>2. Holds(k)' /\ job'[k].chan = job[k].chan /\ \A j \in Keys : j # k => job'[j] = job[j]
    BY <1>t, <1>2, <2>1, GotoFields DEF Holds, Holding
  <2>3. \A j \in Stages : Holds(j) => Holds(j)' /\ job'[j].chan = job[j].chan
    BY <2>1, <2>2 DEF Holds, Keys
  <2>4. job[k].chan \in HeldChans' /\ HeldChans \subseteq HeldChans'
    BY <1>2, <2>1, <2>2, <2>3 DEF HeldChans
  <2> QED BY <2>1, <2>4 DEF NoLeakedSlot
<1>3. CASE ListResources(k)
  <2>1. job' = [job EXCEPT ![k].pc = "flush", ![k].snap = written[k]]
        /\ UNCHANGED <<token, probes>>
    BY <1>3 DEF ListResources, Snapshot, slotVars
  <2>2. /\ job'[k].pc = "flush" /\ job'[k].chan = job[k].chan
        /\ \A j \in Keys : j # k => job'[j] = job[j]
    BY <1>t, <2>1 DEF Jobs
  <2> QED BY <2>1, <2>2, SlotOfJob DEF Holds, Holding
<1>4. CASE StartSync(k)
  <2>1. Goto(k, "alter") /\ UNCHANGED <<token, probes>>
    BY <1>4 DEF StartSync, slotVars
  <2> QED BY <1>t, <2>1, GotoFields, SlotOfJob DEF Holds, Holding
<1>5. CASE FinishSync(k)
  <2>0. UNCHANGED <<token, probes>>
    BY <1>5 DEF FinishSync, slotVars
  <2>1. (k = Global => End(k)) /\ (k # Global => Goto(k, "report"))
    BY <1>5 DEF FinishSync
  <2>2. \A j \in Keys : j # k => job'[j] = job[j]
    BY <1>t, <2>1, GotoFields, EndFields
  <2>3. Holds(k) => Holds(k)' /\ job'[k].chan = job[k].chan
    BY <1>t, <2>1, GotoFields DEF Holds, Holding
  <2> QED BY <2>0, <2>2, <2>3, SlotOfJob
<1>6. CASE Release(k)
  <2>1. End(k) /\ token' = token \ {job[k].chan} /\ UNCHANGED probes
    BY <1>6 DEF Release
  <2> QED BY <1>t, <2>1, EndFields, SlotOfJob
<1>7. CASE StartProbe(k)
  <2>1. /\ End(k) /\ UNCHANGED token
        /\ probes' = probes \union {[key |-> k, chan |-> job[k].chan, pc |-> "probe"]}
    BY <1>7 DEF StartProbe
  <2>2. \A j \in Keys : j # k => job'[j] = job[j]
    BY <1>t, <2>1, EndFields
  <2> DEFINE q == [key |-> k, chan |-> job[k].chan, pc |-> "probe"]
  <2>3. job[k].chan \in HeldChans' /\ \A p \in probes : p.chan \in HeldChans'
    <3>1. q \in probes' /\ probes \subseteq probes' /\ q.chan = job[k].chan
      BY <2>1
    <3> HIDE DEF q
    <3> QED BY <3>1 DEF HeldChans
  <2>4. \A j \in Stages : Holds(j) /\ j # k => job[j].chan \in HeldChans'
    BY <2>2 DEF HeldChans, Holds, Keys
  <2>5. HeldChans \subseteq HeldChans'
    BY <2>3, <2>4 DEF HeldChans
  <2> QED BY <2>1, <2>5 DEF NoLeakedSlot
<1> QED BY <1>1, <1>2, <1>3, <1>4, <1>5, <1>6, <1>7 DEF CommitStep, SlotStep

LEMMA FailureSlot ==
    ASSUME TypeOK, NoLeakedSlot, NEW k \in Keys, FailCommit(k) \/ Panic(k) \/ PanicGlobal
    PROVE  NoLeakedSlot'
<1>t. job \in [Keys -> Jobs] /\ Global \in Keys /\ Global \notin Stages
  BY GlobalAssumption DEF TypeOK, Keys
<1>1. CASE FailCommit(k)
  <2>0. UNCHANGED <<token, probes>>
    BY <1>1 DEF FailCommit, slotVars
  <2>1. (k = Global => End(k)) /\ (k # Global => Goto(k, "release"))
    BY <1>1 DEF FailCommit
  <2>2. \A j \in Keys : j # k => job'[j] = job[j]
    BY <1>t, <2>1, GotoFields, EndFields
  <2>3. Holds(k) => Holds(k)' /\ job'[k].chan = job[k].chan
    BY <1>t, <2>1, GotoFields DEF Holds, Holding
  <2> QED BY <2>0, <2>2, <2>3, SlotOfJob
<1>2. CASE Panic(k)
  <2>1. End(k) /\ token' = token \ {job[k].chan} /\ UNCHANGED probes
    BY <1>2 DEF Panic, PanicToken
  <2> QED BY <1>t, <2>1, EndFields, SlotOfJob
<1>3. CASE PanicGlobal
  <2>1. Goto(Global, "dead") /\ UNCHANGED <<token, probes>> /\ ~Holds(Global)
    BY <1>t, <1>3 DEF PanicGlobal, slotVars, Holds
  <2> QED BY <1>t, <2>1, GotoFields, SlotOfJob
<1> QED BY <1>1, <1>2, <1>3

LEMMA ProbeSlot == ASSUME TypeOK, NoLeakedSlot, ProbeStep PROVE NoLeakedSlot'
<1>1. UNCHANGED job
  BY DEF ProbeStep, EndProbe, SendVerdict, ReleaseProbe
<1>2. ASSUME NEW p \in probes, EndProbe(p) \/ SendVerdict(p) PROVE NoLeakedSlot'
  <2>1. PICK q : /\ q.chan = p.chan /\ UNCHANGED token
                 /\ probes' = (probes \ {p}) \union {q}
    BY <1>2, ProbeGoesOn
  <2>2. HeldChans \subseteq HeldChans'
    BY <1>1, <2>1 DEF HeldChans, Holds
  <2> QED BY <2>1, <2>2 DEF NoLeakedSlot
<1>3. ASSUME NEW p \in probes, ReleaseProbe(p) PROVE NoLeakedSlot'
  <2>1. token' = token \ {p.chan} /\ probes' = probes \ {p}
    BY <1>3 DEF ReleaseProbe
  <2>2. HeldChans \ {p.chan} \subseteq HeldChans'
    BY <1>1, <2>1 DEF HeldChans, Holds
  <2> QED BY <2>1, <2>2 DEF NoLeakedSlot
<1> QED BY <1>2, <1>3 DEF ProbeStep

LEMMA SlotNext == ASSUME TypeOK, NoLeakedSlot, [Next]_vars PROVE NoLeakedSlot'
<1>1. CASE ControlPlane
  BY <1>1, SlotsUnchanged DEF ControlPlane, PutResource, DeleteResource, Publish, Announce, slotVars
<1>2. CASE AgentEvent
  BY <1>2, SlotsUnchanged DEF AgentEvent, HandleResource, HandleRelease, HandleRemove, slotVars
<1>3. ASSUME NEW k \in Keys, AgentTick(k) PROVE NoLeakedSlot'
  BY <1>3, SlotsUnchanged DEF AgentTick, HandleTick, slotVars
<1>4. CASE Send
  BY <1>4, SlotsUnchanged DEF Send, slotVars
<1>5. CASE CommitterLoop
  <2>1. CASE Receive
    BY <2>1, SlotsUnchanged DEF Receive, slotVars
  <2>2. ASSUME NEW list \in SUBSET batch, StartGroup(list) PROVE NoLeakedSlot'
    <3>1. \A j \in Stages : ~Holds(j)
      BY <2>2 DEF StartGroup, GroupDone, Holds, Holding, Keys
    <3>2. UNCHANGED <<token, probes>>
      BY <2>2 DEF StartGroup, slotVars
    <3> QED BY <3>1, <3>2 DEF NoLeakedSlot, HeldChans
  <2> QED BY <1>5, <2>1, <2>2 DEF CommitterLoop
<1>6. ASSUME NEW k \in Keys, CommitStep(k) \/ FailCommit(k) \/ Panic(k) PROVE NoLeakedSlot'
  BY <1>6, CommitSlot, FailureSlot
<1>7. CASE PanicGlobal
  BY <1>7, FailureSlot DEF Keys
<1>8. CASE ProbeStep
  BY <1>8, ProbeSlot
<1>9. ASSUME NEW x \in Gateways, CleanupGatewayChannel(x) PROVE NoLeakedSlot'
  BY <1>9, SlotsUnchanged DEF CleanupGatewayChannel
<1>10. CASE UNCHANGED pathVars
  BY <1>10, SlotsUnchanged DEF pathVars, agentVars, slotVars, bounds
<1> QED BY <1>1, <1>2, <1>3, <1>4, <1>5, <1>6, <1>7, <1>8, <1>9, <1>10, Idle DEF Next

(* No slot of a gateway stays taken after the commit or the probe that     *)
(* took it, whatever fails, panics or is cleaned up.                       *)
THEOREM PipelineNoLeakedSlot == Spec => []NoLeakedSlot
<1>1. Init => NoLeakedSlot
  BY DEF Init, NoLeakedSlot
<1>2. TypeOK /\ NoLeakedSlot /\ [Next]_vars => NoLeakedSlot'
  BY SlotNext
<1> QED BY <1>1, <1>2, PipelineTypeOK, PTL DEF Spec

-----------------------------------------------------------------------------
(***************************************************************************)
(* Each gateway is committed and probed one stage at a time, until         *)
(* CleanupGatewayChannel, which nothing in the program calls, has run.     *)
(***************************************************************************)

(* One channel per gateway.                                                *)
LEMMA ChannelKept ==
    ASSUME ChannelInv, UNCHANGED <<chanOf, made, cleanups>>,
           \A j \in Stages : Joined(j)' => Joined(j) /\ job'[j].chan = job[j].chan,
           \A p \in probes' : \E q \in probes : p.key = q.key /\ p.chan = q.chan
    PROVE  ChannelInv'
BY DEF ChannelInv, Gw

LEMMA ChannelJob ==
    ASSUME ChannelInv, UNCHANGED <<chanOf, made, cleanups, probes>>, NEW k \in Keys,
           \A j \in Keys : j # k => job'[j] = job[j],
           Joined(k)' => Joined(k) /\ job'[k].chan = job[k].chan
    PROVE  ChannelInv'
<1>1. \A j \in Stages : Joined(j)' => Joined(j) /\ job'[j].chan = job[j].chan
  BY DEF Joined, Keys
<1> QED BY <1>1, ChannelKept

LEMMA ChannelSame ==
    ASSUME ChannelInv, UNCHANGED <<chanOf, made, cleanups, probes, job>> PROVE ChannelInv'
BY DEF ChannelInv, Joined, Gw

(* A gateway's first commit makes its channel, with a number of its own.   *)
LEMMA ChannelLock ==
    ASSUME TypeOK, ChannelInv, NEW k \in Stages, LockGateway(k) PROVE ChannelInv'
<1> DEFINE c == IF chanOf[Gw(k)] = 0 THEN made + 1 ELSE chanOf[Gw(k)]
<1>t. /\ job \in [Keys -> Jobs] /\ k \in Keys /\ chanOf \in [Gateways -> Nat] /\ made \in Nat
      /\ probes \subseteq [key : Stages, chan : Nat, pc : {"probe", "verdict", "release"}]
      /\ \A j \in Stages : Gw(j) \in Gateways /\ j \in Keys
  BY GatewayAssumption DEF TypeOK, Keys, Gw
<1>1. /\ job' = [job EXCEPT ![k].pc = "enter", ![k].chan = c]
      /\ chanOf' = [chanOf EXCEPT ![Gw(k)] = c]
      /\ made' = Larger(made, c) /\ UNCHANGED <<probes, cleanups>>
  BY DEF LockGateway, bounds
<1>2. /\ c \in Nat /\ c # 0
      /\ chanOf[Gw(k)] # 0 => c = chanOf[Gw(k)]
      /\ chanOf[Gw(k)] = 0 => c = made + 1
  BY <1>t
<1> HIDE DEF c
<1>3. /\ job'[k].chan = c /\ \A j \in Keys : j # k => job'[j] = job[j]
  BY <1>t, <1>1 DEF Jobs
<1>4. /\ chanOf'[Gw(k)] = c /\ \A x \in Gateways : x # Gw(k) => chanOf'[x] = chanOf[x]
      /\ made' \in Nat /\ made <= made' /\ c <= made'
  BY <1>t, <1>1, <1>2 DEF Larger
<1>5. \A x \in Gateways : chanOf[x] \in Nat /\ chanOf[x] <= made
  BY <1>t DEF ChannelInv
<1>6. cleanups' = 0
  BY <1>1 DEF ChannelInv
<1>7. ASSUME NEW x \in Gateways PROVE chanOf'[x] <= made'
  <2>1. CASE x = Gw(k)
    BY <1>4, <2>1
  <2>2. CASE x # Gw(k)
    <3>1. chanOf'[x] = chanOf[x] /\ chanOf[x] \in Nat /\ chanOf[x] <= made
      BY <1>4, <1>5, <2>2
    <3> QED BY <1>t, <1>4, <3>1
  <2> QED BY <2>1, <2>2
<1>8. ASSUME NEW x \in Gateways, x # Gw(k), chanOf'[x] = chanOf'[Gw(k)] PROVE chanOf'[x] = 0
  <2>1. chanOf[x] = c /\ chanOf'[x] = chanOf[x]
    BY <1>4, <1>8
  <2>2. CASE chanOf[Gw(k)] = 0
    BY <1>t, <1>2, <1>5, <2>1, <2>2
  <2>3. CASE chanOf[Gw(k)] # 0
    BY <1>t, <1>2, <1>8, <2>1, <2>3 DEF ChannelInv
  <2> QED BY <2>2, <2>3
<1>9. ASSUME NEW x \in Gateways, NEW y \in Gateways, x # y, chanOf'[x] = chanOf'[y]
      PROVE  chanOf'[x] = 0
  <2>1. CASE x = Gw(k)
    BY <1>8, <1>9, <2>1
  <2>2. CASE y = Gw(k)
    BY <1>8, <1>9, <2>2
  <2>3. CASE x # Gw(k) /\ y # Gw(k)
    BY <1>4, <1>9, <2>3 DEF ChannelInv
  <2> QED BY <2>1, <2>2, <2>3
<1>10. ASSUME NEW x \in Gateways, chanOf[x] # 0 PROVE chanOf'[x] = chanOf[x]
  BY <1>2, <1>4, <1>10
<1>11. ASSUME NEW j \in Stages, Joined(j)' PROVE chanOf'[Gw(j)] # 0 /\ job'[j].chan = chanOf'[Gw(j)]
  <2>1. CASE j = k
    BY <1>2, <1>3, <1>4, <2>1
  <2>2. CASE j # k
    <3>1. Joined(j) /\ job'[j] = job[j]
      BY <1>t, <1>3, <1>11, <2>2 DEF Joined
    <3>2. chanOf[Gw(j)] # 0 /\ job[j].chan = chanOf[Gw(j)]
      BY <3>1 DEF ChannelInv
    <3> QED BY <1>t, <1>10, <3>1, <3>2
  <2> QED BY <2>1, <2>2
<1>12. ASSUME NEW p \in probes PROVE chanOf'[Gw(p.key)] # 0 /\ p.chan = chanOf'[Gw(p.key)]
  <2>1. p.key \in Stages /\ chanOf[Gw(p.key)] # 0 /\ p.chan = chanOf[Gw(p.key)]
    BY <1>t DEF ChannelInv
  <2> QED BY <1>t, <1>10, <2>1
<1>13. \A j \in Stages : Gw(j)' = Gw(j)
  BY DEF Gw
<1>14. \A p \in probes : Gw(p.key)' = Gw(p.key)
  BY <1>t, <1>1 DEF Gw
<1> QED BY <1>1, <1>6, <1>7, <1>9, <1>11, <1>12 DEF ChannelInv, Gw

LEMMA ChannelCommit ==
    ASSUME TypeOK, ChannelInv, NEW k \in Keys, CommitStep(k) PROVE ChannelInv'
<1>t. job \in [Keys -> Jobs] /\ job[k] \in Jobs
  BY DEF TypeOK
<1>1. ASSUME k \in Stages, LockGateway(k) PROVE ChannelInv'
  BY <1>1, ChannelLock
<1>2. ASSUME k \in Stages, EnterGateway(k) PROVE ChannelInv'
  <2>1. Goto(k, "list") /\ job[k].pc = "enter" /\ UNCHANGED <<chanOf, made, cleanups, probes>>
    BY <1>2 DEF EnterGateway, At, bounds
  <2>2. Joined(k) /\ job'[k].chan = job[k].chan
    BY <1>t, <1>2, <2>1, GotoFields DEF Joined
  <2>3. \A j \in Keys : j # k => job'[j] = job[j]
    BY <1>t, <2>1, GotoFields
  <2> QED BY <2>1, <2>2, <2>3, ChannelJob
<1>3. CASE ListResources(k)
  <2>1. /\ job' = [job EXCEPT ![k].pc = "flush", ![k].snap = written[k]] /\ job[k].pc = "list"
        /\ UNCHANGED <<chanOf, made, cleanups, probes>>
    BY <1>3 DEF ListResources, Snapshot, At, slotVars, bounds
  <2>2. /\ job'[k].chan = job[k].chan
        /\ \A j \in Keys : j # k => job'[j] = job[j]
    BY <1>t, <2>1 DEF Jobs
  <2> QED BY <2>1, <2>2, ChannelJob DEF Joined, Holding
<1>4. CASE StartSync(k)
  <2>1. Goto(k, "alter") /\ job[k].pc = "flush" /\ UNCHANGED <<chanOf, made, cleanups, probes>>
    BY <1>4 DEF StartSync, At, slotVars, bounds
  <2>2. Joined(k)' => Joined(k)
    BY <2>1 DEF Joined, Holding
  <2> QED BY <1>t, <2>1, <2>2, GotoFields, ChannelJob
<1>5. CASE FinishSync(k)
  <2>1. job[k].pc = "alter" /\ UNCHANGED <<chanOf, made, cleanups, probes>>
    BY <1>5 DEF FinishSync, At, slotVars, bounds
  <2>2. Goto(k, "report") \/ End(k)
    BY <1>5 DEF FinishSync
  <2>3. Joined(k)' => Joined(k)
    BY <2>1 DEF Joined, Holding
  <2>4. Joined(k)' => job'[k].chan = job[k].chan
    BY <1>t, <2>2, GotoFields, EndFields DEF Joined, Holding
  <2>5. \A j \in Keys : j # k => job'[j] = job[j]
    BY <1>t, <2>2, GotoFields, EndFields
  <2> QED BY <2>1, <2>3, <2>4, <2>5, ChannelJob
<1>6. CASE Release(k)
  <2>1. End(k) /\ UNCHANGED <<chanOf, made, cleanups, probes>>
    BY <1>6 DEF Release, bounds
  <2> QED BY <1>t, <2>1, EndFields, ChannelJob DEF Joined, Holding
<1>7. ASSUME k \in Stages, StartProbe(k) PROVE ChannelInv'
  <2> DEFINE q == [key |-> k, chan |-> job[k].chan, pc |-> "probe"]
  <2>1. /\ End(k) /\ UNCHANGED <<chanOf, made, cleanups>> /\ job[k].pc = "report"
        /\ probes' = probes \union {q} /\ q.key = k /\ q.chan = job[k].chan
    BY <1>7 DEF StartProbe, At, bounds
  <2> HIDE DEF q
  <2>2. job'[k].pc = "none" /\ \A j \in Keys : j # k => job'[j] = job[j]
    BY <1>t, <2>1, EndFields
  <2>3. chanOf[Gw(k)] # 0 /\ job[k].chan = chanOf[Gw(k)]
    BY <1>7, <2>1 DEF ChannelInv, Joined, Holding
  <2>4. \A j \in Stages : Joined(j)' => Joined(j) /\ job'[j].chan = job[j].chan
    BY <2>2 DEF Joined, Holding, Keys
  <2>5. \A p \in probes' : chanOf'[Gw(p.key)] # 0 /\ p.chan = chanOf'[Gw(p.key)]
    BY <2>1, <2>3 DEF ChannelInv
  <2> QED BY <2>1, <2>4, <2>5 DEF ChannelInv, Gw
<1> QED BY <1>1, <1>2, <1>3, <1>4, <1>5, <1>6, <1>7 DEF CommitStep, SlotStep

LEMMA StartedAtLock ==
    ASSUME TypeOK, NEW list \in SUBSET batch, StartGroup(list)
    PROVE  \A j \in Stages : job'[j].pc \in {"none", "lock"}
<1> SUFFICES ASSUME NEW j \in Stages PROVE job'[j].pc \in {"none", "lock"}
  OBVIOUS
<1>t. j \in Keys /\ j # Global /\ job[j].pc = "none" /\ list \subseteq Infos
  BY GlobalAssumption DEF TypeOK, Keys, StartGroup, GroupDone
<1>1. CASE j \in KeysOf(list)
  <2> DEFINE i == CHOOSE i \in list : i.key = j
  <2>1. i.key = j
    BY <1>1 DEF KeysOf
  <2>2. job'[j] = NewJob(i)
    BY <1>t, <1>1 DEF StartGroup
  <2> HIDE DEF i
  <2>3. NewJob(i).pc = "lock"
    BY <1>t, <2>1 DEF NewJob, NoJob
  <2> QED BY <2>2, <2>3
<1>2. CASE j \notin KeysOf(list)
  BY <1>t, <1>2 DEF StartGroup
<1> QED BY <1>1, <1>2

LEMMA ChannelNext ==
    ASSUME TypeOK, ChannelInv, cleanups' = 0, [Next]_vars PROVE ChannelInv'
<1>t. /\ job \in [Keys -> Jobs] /\ cleanups = 0 /\ Global \in Keys /\ Global \notin Stages
      /\ probes \subseteq [key : Stages, chan : Nat, pc : {"probe", "verdict", "release"}]
  BY GlobalAssumption DEF TypeOK, ChannelInv, Keys
<1>1. CASE ControlPlane
  BY <1>1, ChannelSame DEF ControlPlane, PutResource, DeleteResource, Publish, Announce, slotVars
<1>2. CASE AgentEvent
  BY <1>2, ChannelSame
     DEF AgentEvent, HandleResource, HandleRelease, HandleRemove, slotVars, bounds
<1>3. ASSUME NEW k \in Keys, AgentTick(k) PROVE ChannelInv'
  BY <1>3, ChannelSame DEF AgentTick, HandleTick, slotVars, bounds
<1>4. CASE Send
  BY <1>4, ChannelSame DEF Send, slotVars, bounds
<1>5. CASE CommitterLoop
  <2>1. CASE Receive
    BY <2>1, ChannelSame DEF Receive, slotVars, bounds
  <2>2. ASSUME NEW list \in SUBSET batch, StartGroup(list) PROVE ChannelInv'
    <3>1. \A j \in Stages : ~Joined(j)'
      BY <2>2, StartedAtLock DEF Joined, Holding
    <3>2. UNCHANGED <<chanOf, made, cleanups, probes>>
      BY <2>2 DEF StartGroup, slotVars, bounds
    <3> QED BY <3>1, <3>2, ChannelKept
  <2> QED BY <1>5, <2>1, <2>2 DEF CommitterLoop
<1>6. ASSUME NEW k \in Keys, FailCommit(k) PROVE ChannelInv'
  <2>1. job[k].pc \in {"list", "alter"} /\ UNCHANGED <<chanOf, made, cleanups, probes>>
    BY <1>6 DEF FailCommit, At, slotVars
  <2>2. Goto(k, "release") \/ End(k)
    BY <1>6 DEF FailCommit
  <2>3. /\ \A j \in Keys : j # k => job'[j] = job[j]
        /\ job'[k].pc = "none" \/ job'[k].chan = job[k].chan
    BY <1>t, <2>2, GotoFields, EndFields
  <2> QED BY <2>1, <2>3, ChannelJob DEF Joined, Holding
<1>7. ASSUME NEW k \in Keys, Panic(k) PROVE ChannelInv'
  <2>1. End(k) /\ UNCHANGED <<chanOf, made, cleanups, probes>>
    BY <1>7 DEF Panic
  <2> QED BY <1>t, <2>1, EndFields, ChannelJob DEF Joined, Holding
<1>8. CASE PanicGlobal
  <2>1. Goto(Global, "dead") /\ UNCHANGED <<chanOf, made, cleanups, probes>>
    BY <1>8 DEF PanicGlobal, slotVars
  <2> QED BY <1>t, <2>1, GotoFields, ChannelJob DEF Joined
<1>9. CASE ProbeStep
  <2>1. UNCHANGED <<chanOf, made, cleanups, job>>
    BY <1>9 DEF ProbeStep, EndProbe, SendVerdict, ReleaseProbe, bounds
  <2>2. ASSUME NEW p \in probes, EndProbe(p) \/ SendVerdict(p)
        PROVE  \A r \in probes' : \E q \in probes : r.key = q.key /\ r.chan = q.chan
    BY <2>2, ProbeGoesOn
  <2>3. ASSUME NEW p \in probes, ReleaseProbe(p)
        PROVE  \A r \in probes' : \E q \in probes : r.key = q.key /\ r.chan = q.chan
    BY <2>3 DEF ReleaseProbe
  <2>4. \A j \in Stages : Joined(j)' => Joined(j) /\ job'[j].chan = job[j].chan
    BY <2>1 DEF Joined
  <2> QED BY <1>9, <2>1, <2>2, <2>3, <2>4, ChannelKept DEF ProbeStep
<1>10. ASSUME NEW x \in Gateways, CleanupGatewayChannel(x) PROVE FALSE
  BY <1>t, <1>10 DEF CleanupGatewayChannel
<1>11. CASE UNCHANGED pathVars
  BY <1>11, ChannelSame DEF pathVars, agentVars, slotVars, bounds
<1> QED BY <1>1, <1>2, <1>3, <1>4, <1>5, <1>6, <1>7, <1>8, <1>9, <1>10, <1>11, Idle, ChannelCommit
        DEF Next

-----------------------------------------------------------------------------
(* One token per channel.                                                  *)
TokensInv == TokenInv /\ OneAtATime

LEMMA TokensDef ==
    TokensInv <=>
        /\ \A j \in Stages : Holds(j) => job[j].chan \in token
        /\ \A p \in probes : p.chan \in token
        /\ OneAtATime
BY DEF TokensInv, TokenInv, HeldChans

(* The commit of k moves on within its slot, or is not in it.              *)
LEMMA TokensJob ==
    ASSUME TokensInv, UNCHANGED <<token, probes>>, NEW k \in Keys,
           \A j \in Keys : j # k => job'[j] = job[j],
           Holds(k)' => Holds(k) /\ job'[k].chan = job[k].chan
    PROVE  TokensInv'
<1>1. \A j \in Stages : Holds(j)' => Holds(j) /\ job'[j].chan = job[j].chan
  BY DEF Holds, Keys
<1>2. TokenInv'
  BY <1>1 DEF TokensInv, TokenInv, HeldChans
<1>3. OneAtATime'
  BY <1>1 DEF TokensInv, OneAtATime, Gw
<1> QED BY <1>2, <1>3 DEF TokensInv

LEMMA TokensSame ==
    ASSUME TokensInv, UNCHANGED <<token, probes, job>> PROVE TokensInv'
<1>1. \A j \in Stages : Holds(j)' <=> Holds(j)
  BY DEF Holds
<1>2. TokenInv'
  BY <1>1 DEF TokensInv, TokenInv, HeldChans
<1>3. OneAtATime'
  BY <1>1 DEF TokensInv, OneAtATime, Gw
<1> QED BY <1>2, <1>3 DEF TokensInv

(* The commits and probes of different gateways use different channels.    *)
LEMMA OtherChannel ==
    ASSUME ChannelInv, NEW j \in Stages, NEW k \in Stages, Gw(j) # Gw(k),
           chanOf[Gw(k)] # 0
    PROVE  chanOf[Gw(j)] # chanOf[Gw(k)]
BY GatewayAssumption DEF ChannelInv, Gw

(* The commit of k leaves its slot and takes the token along.              *)
LEMMA TokensEnd ==
    ASSUME TypeOK, ChannelInv, TokensInv, NEW k \in Stages, Holds(k), End(k),
           UNCHANGED probes, token' = token \ {job[k].chan}
    PROVE  TokensInv'
<1>t. /\ job \in [Keys -> Jobs] /\ k \in Keys
      /\ probes \subseteq [key : Stages, chan : Nat, pc : {"probe", "verdict", "release"}]
  BY DEF TypeOK, Keys
<1>1. /\ job'[k].pc = "none"
      /\ \A j \in Keys : j # k => job'[j] = job[j]
  BY <1>t, EndFields
<1>2. \A j \in Stages : Holds(j)' => j # k /\ Holds(j) /\ job'[j] = job[j]
  BY <1>1 DEF Holds, Holding, Keys
<1>3. job[k].chan = chanOf[Gw(k)] /\ chanOf[Gw(k)] # 0
  BY DEF ChannelInv, Joined, Holds
<1>4. ASSUME NEW j \in Stages, Holds(j)' PROVE job'[j].chan \in token'
  <2>1. Gw(j) # Gw(k)
    BY <1>2, <1>4 DEF TokensInv, OneAtATime
  <2>2. job[j].chan = chanOf[Gw(j)] /\ job[j].chan \in token
    BY <1>2, <1>4, TokensDef DEF ChannelInv, Joined, Holds
  <2> QED BY <1>2, <1>3, <1>4, <2>1, <2>2, OtherChannel
<1>5. ASSUME NEW p \in probes PROVE p.chan \in token'
  <2>1. p.key \in Stages /\ Gw(p.key) # Gw(k)
    BY <1>t DEF TokensInv, OneAtATime
  <2>2. p.chan = chanOf[Gw(p.key)] /\ p.chan \in token
    BY TokensDef DEF ChannelInv
  <2> QED BY <1>3, <2>1, <2>2, OtherChannel
<1>6. TokenInv'
  BY <1>4, <1>5 DEF TokenInv, HeldChans
<1>7. OneAtATime'
  BY <1>2 DEF TokensInv, OneAtATime, Gw
<1> QED BY <1>6, <1>7 DEF TokensInv

LEMMA TokensEnter ==
    ASSUME TypeOK, ChannelInv, TokensInv, NEW k \in Stages, EnterGateway(k) PROVE TokensInv'
<1>t. /\ job \in [Keys -> Jobs] /\ k \in Keys
      /\ probes \subseteq [key : Stages, chan : Nat, pc : {"probe", "verdict", "release"}]
  BY DEF TypeOK, Keys
<1>1. /\ Goto(k, "list") /\ job[k].pc = "enter" /\ UNCHANGED probes
      /\ job[k].chan \notin token /\ token' = token \union {job[k].chan}
  BY DEF EnterGateway, At, SlotFree
<1>2. job'[k].chan = job[k].chan /\ \A j \in Keys : j # k => job'[j] = job[j]
  BY <1>t, <1>1, GotoFields
<1>3. \A j \in Stages : Holds(j)' => j = k \/ (Holds(j) /\ job'[j] = job[j])
  BY <1>2 DEF Holds, Keys
<1>4. job[k].chan = chanOf[Gw(k)]
  BY <1>1 DEF ChannelInv, Joined
<1>5. ASSUME NEW j \in Stages, Holds(j) PROVE Gw(j) # Gw(k)
  <2>1. job[j].chan = chanOf[Gw(j)] /\ job[j].chan \in token
    BY <1>5, TokensDef DEF ChannelInv, Joined, Holds
  <2> QED BY <1>1, <1>4, <2>1
<1>6. ASSUME NEW p \in probes PROVE Gw(p.key) # Gw(k)
  <2>1. p.chan = chanOf[Gw(p.key)] /\ p.chan \in token
    BY TokensDef DEF ChannelInv
  <2> QED BY <1>1, <1>4, <2>1
<1>7. TokenInv'
  <2>1. \A j \in Stages : Holds(j)' => job'[j].chan \in token'
    BY <1>1, <1>2, <1>3, TokensDef
  <2>2. \A p \in probes : p.chan \in token'
    BY <1>1, TokensDef
  <2> QED BY <1>1, <2>1, <2>2 DEF TokenInv, HeldChans
<1>8. OneAtATime'
  BY <1>1, <1>3, <1>5, <1>6 DEF TokensInv, OneAtATime, Gw
<1> QED BY <1>7, <1>8 DEF TokensInv

(* A probe takes the slot over from the commit.                            *)
LEMMA TokensStartProbe ==
    ASSUME TypeOK, TokensInv, NEW k \in Stages, StartProbe(k) PROVE TokensInv'
<1> DEFINE q == [key |-> k, chan |-> job[k].chan, pc |-> "probe"]
<1>t. job \in [Keys -> Jobs] /\ k \in Keys
  BY DEF TypeOK, Keys
<1>1. /\ End(k) /\ UNCHANGED token /\ Holds(k)
      /\ probes' = probes \union {q} /\ q.key = k /\ q.chan = job[k].chan
  BY DEF StartProbe, At, Holds, Holding
<1> HIDE DEF q
<1>2. \A j \in Stages : Holds(j)' => j # k /\ Holds(j) /\ job'[j] = job[j]
  BY <1>t, <1>1, EndFields DEF Holds, Holding, Keys
<1>3. TokenInv'
  <2>1. \A j \in Stages : Holds(j)' => job'[j].chan \in token'
    BY <1>1, <1>2, TokensDef
  <2>2. \A p \in probes' : p.chan \in token'
    BY <1>1, TokensDef
  <2> QED BY <2>1, <2>2 DEF TokenInv, HeldChans
<1>4. OneAtATime'
  <2>1. \A j \in Stages : Holds(j) /\ j # k => Gw(j) # Gw(k)
    BY <1>1 DEF TokensInv, OneAtATime
  <2>2. \A p \in probes : Gw(p.key) # Gw(k)
    BY <1>1 DEF TokensInv, OneAtATime
  <2>3. \A p \in probes' : p \in probes \/ p = q
    BY <1>1
  <2>4. \A p \in probes, j \in Stages : Gw(p.key) = Gw(j) => ~Holds(j)
    BY DEF TokensInv, OneAtATime
  <2>5. \A p \in probes', j \in Stages : Gw(p.key) = Gw(j) => ~Holds(j)'
    BY <1>1, <1>2, <2>1, <2>3, <2>4
  <2>6. \A p, r \in probes' : p # r => Gw(p.key) # Gw(r.key)
    BY <1>1, <2>2, <2>3 DEF TokensInv, OneAtATime
  <2>7. \A i, j \in Stages : i # j /\ Gw(i) = Gw(j) => ~(Holds(i)' /\ Holds(j)')
    BY <1>2 DEF TokensInv, OneAtATime
  <2> QED BY <2>5, <2>6, <2>7 DEF OneAtATime, Gw
<1> QED BY <1>3, <1>4 DEF TokensInv

LEMMA TokensProbe ==
    ASSUME TypeOK, ChannelInv, TokensInv, ProbeStep PROVE TokensInv'
<1>t. probes \subseteq [key : Stages, chan : Nat, pc : {"probe", "verdict", "release"}]
  BY DEF TypeOK
<1>0. UNCHANGED job /\ \A j \in Stages : (Holds(j)' <=> Holds(j))
  BY DEF ProbeStep, EndProbe, SendVerdict, ReleaseProbe, Holds
<1>1. ASSUME NEW p \in probes, EndProbe(p) \/ SendVerdict(p) PROVE TokensInv'
  <2>1. PICK q : /\ probes' = (probes \ {p}) \union {q} /\ UNCHANGED token
                 /\ q.key = p.key /\ q.chan = p.chan
    BY <1>1, ProbeGoesOn
  <2>2. TokenInv'
    BY <1>0, <2>1, TokensDef DEF TokenInv, HeldChans
  <2>3. OneAtATime'
    BY <1>0, <2>1 DEF TokensInv, OneAtATime, Gw
  <2> QED BY <2>2, <2>3 DEF TokensInv
<1>2. ASSUME NEW p \in probes, ReleaseProbe(p) PROVE TokensInv'
  <2>1. probes' = probes \ {p} /\ token' = token \ {p.chan}
    BY <1>2 DEF ReleaseProbe
  <2>2. p.key \in Stages /\ p.chan = chanOf[Gw(p.key)] /\ chanOf[Gw(p.key)] # 0
    BY <1>t DEF ChannelInv
  <2>3. ASSUME NEW j \in Stages, Holds(j) PROVE job[j].chan \in token'
    <3>1. Gw(j) # Gw(p.key)
      BY <2>3 DEF TokensInv, OneAtATime
    <3>2. job[j].chan = chanOf[Gw(j)] /\ job[j].chan \in token
      BY <2>3, TokensDef DEF ChannelInv, Joined, Holds
    <3> QED BY <2>1, <2>2, <3>1, <3>2, OtherChannel
  <2>4. ASSUME NEW r \in probes, r # p PROVE r.chan \in token'
    <3>1. r.key \in Stages /\ Gw(r.key) # Gw(p.key)
      BY <1>t, <2>4 DEF TokensInv, OneAtATime
    <3>2. r.chan = chanOf[Gw(r.key)] /\ r.chan \in token
      BY TokensDef DEF ChannelInv
    <3> QED BY <2>1, <2>2, <3>1, <3>2, OtherChannel
  <2>5. TokenInv'
    BY <1>0, <2>1, <2>3, <2>4 DEF TokenInv, HeldChans
  <2>6. OneAtATime'
    BY <1>0, <2>1 DEF TokensInv, OneAtATime, Gw
  <2> QED BY <2>5, <2>6 DEF TokensInv
<1> QED BY <1>1, <1>2 DEF ProbeStep

LEMMA TokensCommit ==
    ASSUME TypeOK, ChannelInv, TokensInv, NEW k \in Keys, CommitStep(k) PROVE TokensInv'
<1>t. job \in [Keys -> Jobs] /\ job[k] \in Jobs /\ (k \in Stages => k # Global)
  BY GlobalAssumption DEF TypeOK
<1>1. CASE LockGateway(k)
  <2>1. /\ job'[k].pc = "enter" /\ \A j \in Keys : j # k => job'[j] = job[j]
        /\ UNCHANGED <<token, probes>>
    BY <1>t, <1>1 DEF LockGateway, Jobs
  <2> QED BY <2>1, TokensJob DEF Holds, Holding
<1>2. CASE ListResources(k)
  <2>1. /\ job' = [job EXCEPT ![k].pc = "flush", ![k].snap = written[k]] /\ job[k].pc = "list"
        /\ UNCHANGED <<token, probes>>
    BY <1>2 DEF ListResources, Snapshot, At, slotVars
  <2>2. job'[k].chan = job[k].chan /\ \A j \in Keys : j # k => job'[j] = job[j]
    BY <1>t, <2>1 DEF Jobs
  <2> QED BY <2>1, <2>2, TokensJob DEF Holds, Holding
<1>3. CASE StartSync(k)
  <2>1. Goto(k, "alter") /\ job[k].pc = "flush" /\ UNCHANGED <<token, probes>>
    BY <1>3 DEF StartSync, At, slotVars
  <2>2. Holds(k)' => Holds(k)
    BY <2>1 DEF Holds, Holding
  <2> QED BY <1>t, <2>1, <2>2, GotoFields, TokensJob
<1>4. CASE FinishSync(k)
  <2>1. job[k].pc = "alter" /\ UNCHANGED <<token, probes>>
    BY <1>4 DEF FinishSync, At, slotVars
  <2>2. Goto(k, "report") \/ End(k)
    BY <1>4 DEF FinishSync
  <2>3. Holds(k)' => Holds(k)
    BY <2>1 DEF Holds, Holding
  <2>4. Holds(k)' => job'[k].chan = job[k].chan
    BY <1>t, <2>2, GotoFields, EndFields DEF Holds, Holding
  <2>5. \A j \in Keys : j # k => job'[j] = job[j]
    BY <1>t, <2>2, GotoFields, EndFields
  <2> QED BY <2>1, <2>3, <2>4, <2>5, TokensJob
<1>5. ASSUME k \in Stages, Release(k) PROVE TokensInv'
  <2>1. /\ End(k) /\ UNCHANGED probes /\ token' = token \ {job[k].chan} /\ Holds(k)
    BY <1>5 DEF Release, At, Holds, Holding
  <2> QED BY <1>5, <2>1, TokensEnd
<1> QED BY <1>1, <1>2, <1>3, <1>4, <1>5, TokensEnter, TokensStartProbe DEF CommitStep, SlotStep

LEMMA TokensFailure ==
    ASSUME TypeOK, ChannelInv, TokensInv, NEW k \in Keys, FailCommit(k) \/ Panic(k) \/ PanicGlobal
    PROVE  TokensInv'
<1>t. job \in [Keys -> Jobs] /\ Global \in Keys /\ Global \notin Stages
  BY GlobalAssumption DEF TypeOK, Keys
<1>1. CASE FailCommit(k)
  <2>1. job[k].pc \in {"list", "alter"} /\ UNCHANGED <<token, probes>>
    BY <1>1 DEF FailCommit, At, slotVars
  <2>2. Goto(k, "release") \/ End(k)
    BY <1>1 DEF FailCommit
  <2>3. /\ \A j \in Keys : j # k => job'[j] = job[j]
        /\ job'[k].pc = "none" \/ job'[k].chan = job[k].chan
    BY <1>t, <2>2, GotoFields, EndFields
  <2> QED BY <2>1, <2>3, TokensJob DEF Holds, Holding
<1>2. CASE Panic(k)
  <2>1. /\ k \in Stages /\ Holds(k) /\ End(k) /\ UNCHANGED probes
        /\ token' = token \ {job[k].chan}
    BY <1>2 DEF Panic, PanicToken, Holds, Holding
  <2> QED BY <2>1, TokensEnd
<1>3. CASE PanicGlobal
  <2>1. Goto(Global, "dead") /\ UNCHANGED <<token, probes>>
    BY <1>3 DEF PanicGlobal, slotVars
  <2> QED BY <1>t, <2>1, GotoFields, TokensJob DEF Holds
<1> QED BY <1>1, <1>2, <1>3

LEMMA TokensNext ==
    ASSUME TypeOK, ChannelInv, TokensInv, cleanups' = 0, [Next]_vars PROVE TokensInv'
<1>1. CASE ControlPlane
  BY <1>1, TokensSame DEF ControlPlane, PutResource, DeleteResource, Publish, Announce, slotVars
<1>2. CASE AgentEvent
  BY <1>2, TokensSame DEF AgentEvent, HandleResource, HandleRelease, HandleRemove, slotVars
<1>3. ASSUME NEW k \in Keys, AgentTick(k) PROVE TokensInv'
  BY <1>3, TokensSame DEF AgentTick, HandleTick, slotVars
<1>4. CASE Send
  BY <1>4, TokensSame DEF Send, slotVars
<1>5. CASE CommitterLoop
  <2>1. CASE Receive
    BY <2>1, TokensSame DEF Receive, slotVars
  <2>2. ASSUME NEW list \in SUBSET batch, StartGroup(list) PROVE TokensInv'
    <3>1. \A j \in Stages : ~Holds(j)'
      BY <2>2, StartedAtLock DEF Holds, Holding
    <3>2. UNCHANGED <<token, probes>>
      BY <2>2 DEF StartGroup, slotVars
    <3>3. TokenInv'
      BY <3>1, <3>2, TokensDef DEF TokenInv, HeldChans
    <3>4. OneAtATime'
      BY <3>1, <3>2 DEF TokensInv, OneAtATime, Gw
    <3> QED BY <3>3, <3>4 DEF TokensInv
  <2> QED BY <1>5, <2>1, <2>2 DEF CommitterLoop
<1>6. CASE PanicGlobal
  BY <1>6, TokensFailure DEF Keys
<1>7. ASSUME NEW x \in Gateways, CleanupGatewayChannel(x) PROVE FALSE
  BY <1>7 DEF CleanupGatewayChannel, ChannelInv
<1>8. CASE UNCHANGED pathVars
  BY <1>8, TokensSame DEF pathVars, agentVars, slotVars, bounds
<1> QED BY <1>1, <1>2, <1>3, <1>4, <1>5, <1>6, <1>7, <1>8, Idle, TokensCommit, TokensFailure,
        TokensProbe DEF Next

(* What has been cleaned up stays so.                                      *)
LEMMA CleanupsGrow == ASSUME TypeOK, [Next]_vars, cleanups' = 0 PROVE cleanups = 0
<1>t. cleanups \in Nat
  BY DEF TypeOK
<1>1. CASE ControlPlane
  BY <1>1 DEF ControlPlane, PutResource, DeleteResource, Publish, Announce
<1>2. CASE AgentEvent \/ (\E k \in Keys : AgentTick(k)) \/ Send
  BY <1>2 DEF AgentEvent, HandleResource, HandleRelease, HandleRemove, AgentTick, HandleTick,
              Send, bounds
<1>3. CASE CommitterLoop
  BY <1>3 DEF CommitterLoop, Receive, StartGroup, bounds
<1>4. ASSUME NEW k \in Keys, CommitStep(k) PROVE cleanups' = cleanups
  BY <1>4 DEF CommitStep, SlotStep, LockGateway, EnterGateway, Release, StartProbe,
              ListResources, StartSync, FinishSync, bounds
<1>5. ASSUME NEW k \in Keys, FailCommit(k) \/ Panic(k) \/ PanicGlobal PROVE cleanups' = cleanups
  BY <1>5 DEF FailCommit, Panic, PanicGlobal
<1>6. CASE ProbeStep
  BY <1>6 DEF ProbeStep, EndProbe, SendVerdict, ReleaseProbe, bounds
<1>7. ASSUME NEW x \in Gateways, CleanupGatewayChannel(x) PROVE cleanups' = cleanups + 1
  BY <1>7 DEF CleanupGatewayChannel
<1>8. CASE UNCHANGED pathVars
  BY <1>8 DEF pathVars, agentVars, slotVars, bounds
<1>9. Global \in Keys
  BY DEF Keys
<1> QED BY <1>t, <1>1, <1>2, <1>3, <1>4, <1>5, <1>6, <1>7, <1>8, <1>9, Idle DEF Next

(* Until a cleanup no two stages of a gateway are read, applied or probed  *)
(* at a time, although each commit runs in a goroutine of its own and a    *)
(* probe outlives its group.                                               *)
SerialInv == cleanups = 0 => ChannelInv /\ TokensInv

THEOREM PipelineSerialPerGateway == Spec => []SerialPerGateway
<1>1. Init => SerialInv
  <2>1. Init => ChannelInv
    BY DEF Init, ChannelInv, Joined, Holding, NoJob, Keys
  <2>2. Init => TokensInv
    BY TokensDef DEF Init, OneAtATime, Holds, Holding, NoJob, Keys
  <2> QED BY <2>1, <2>2 DEF SerialInv
<1>2. TypeOK /\ SerialInv /\ [Next]_vars => SerialInv'
  BY ChannelNext, TokensNext, CleanupsGrow DEF SerialInv
<1>3. SerialInv => SerialPerGateway
  BY DEF SerialInv, TokensInv, SerialPerGateway
<1> QED BY <1>1, <1>2, <1>3, PipelineTypeOK, PTL DEF Spec

-----------------------------------------------------------------------------
(***************************************************************************)
(* The committer never stops with work before it, but in the two ways that *)
(* CommitterStuck names.                                                   *)
(***************************************************************************)
StageInPlace(k) == job[k].pc \in {"none", "lock", "enter"} \union Holding
GlobalInPlace   == job[Global].pc \in {"none", "list", "flush", "alter", "dead"}
PlaceInv        == GlobalInPlace /\ \A k \in Stages : StageInPlace(k)

LEMMA PlaceKept ==
    ASSUME TypeOK, PlaceInv, NEW k \in Keys, \A j \in Keys : j # k => job'[j] = job[j],
           k \in Stages => StageInPlace(k)', k = Global => GlobalInPlace'
    PROVE  PlaceInv'
BY GlobalAssumption DEF PlaceInv, StageInPlace, GlobalInPlace, Keys

LEMMA PlaceCommit ==
    ASSUME TypeOK, PlaceInv, NEW k \in Keys, CommitStep(k) PROVE PlaceInv'
<1>t. job \in [Keys -> Jobs] /\ (k \in Stages => k # Global)
  BY GlobalAssumption DEF TypeOK
<1>1. CASE LockGateway(k) /\ k \in Stages
  <2>1. PICK c : job' = [job EXCEPT ![k].pc = "enter", ![k].chan = c]
    BY <1>1 DEF LockGateway
  <2> QED BY <1>t, <1>1, <2>1, PlaceKept DEF StageInPlace, Jobs
<1>2. CASE (EnterGateway(k) \/ Release(k) \/ StartProbe(k)) /\ k \in Stages
  <2>1. Goto(k, "list") \/ End(k)
    BY <1>2 DEF EnterGateway, Release, StartProbe
  <2> QED BY <1>t, <1>2, <2>1, GotoFields, EndFields, PlaceKept DEF StageInPlace, Holding
<1>3. CASE ListResources(k)
  <2>1. PICK v \in Snapshot(k) : job' = [job EXCEPT ![k].pc = "flush", ![k].snap = v]
    BY <1>3 DEF ListResources
  <2> QED BY <1>t, <2>1, PlaceKept DEF StageInPlace, GlobalInPlace, Holding, Jobs
<1>4. CASE StartSync(k)
  BY <1>t, <1>4, GotoFields, PlaceKept DEF StartSync, StageInPlace, GlobalInPlace, Holding
<1>5. CASE FinishSync(k)
  <2>1. IF k = Global THEN End(k) ELSE Goto(k, "report")
    BY <1>5 DEF FinishSync
  <2> QED BY <1>t, <2>1, GotoFields, EndFields, PlaceKept DEF StageInPlace, GlobalInPlace, Holding
<1> QED BY <1>1, <1>2, <1>3, <1>4, <1>5 DEF CommitStep, SlotStep

LEMMA PlaceStart ==
    ASSUME TypeOK, PlaceInv, NEW list \in SUBSET batch, StartGroup(list) PROVE PlaceInv'
<1>1. \A j \in Stages : StageInPlace(j)'
  BY StartedAtLock DEF StageInPlace
<1>2. GlobalInPlace'
  <2>t. Global \in Keys /\ list \subseteq Infos
    BY DEF TypeOK, Keys
  <2>1. CASE Global \in KeysOf(list)
    <3> DEFINE i == CHOOSE i \in list : i.key = Global
    <3>1. i.key = Global
      BY <2>1 DEF KeysOf
    <3>2. job'[Global] = NewJob(i)
      BY <2>t, <2>1 DEF StartGroup
    <3> HIDE DEF i
    <3>3. NewJob(i).pc = "list"
      BY <3>1 DEF NewJob, NoJob
    <3> QED BY <3>2, <3>3 DEF GlobalInPlace
  <2>2. CASE Global \notin KeysOf(list)
    BY <2>t, <2>2 DEF StartGroup, PlaceInv, GlobalInPlace
  <2> QED BY <2>1, <2>2
<1> QED BY <1>1, <1>2 DEF PlaceInv

LEMMA PlaceSame == ASSUME PlaceInv, UNCHANGED job PROVE PlaceInv'
BY DEF PlaceInv, StageInPlace, GlobalInPlace

LEMMA PlaceNext == ASSUME TypeOK, PlaceInv, [Next]_vars PROVE PlaceInv'
<1>t. job \in [Keys -> Jobs] /\ Global \in Keys /\ Global \notin Stages
  BY GlobalAssumption DEF TypeOK, Keys
<1>1. CASE ControlPlane
  BY <1>1, PlaceSame DEF ControlPlane, PutResource, DeleteResource, Publish, Announce
<1>2. CASE AgentEvent
  BY <1>2, PlaceSame DEF AgentEvent, HandleResource, HandleRelease, HandleRemove
<1>3. ASSUME NEW k \in Keys, AgentTick(k) PROVE PlaceInv'
  BY <1>3, PlaceSame DEF AgentTick, HandleTick
<1>4. CASE Send \/ Receive
  BY <1>4, PlaceSame DEF Send, Receive
<1>5. CASE CommitterLoop
  BY <1>4, <1>5, PlaceStart DEF CommitterLoop
<1>6. ASSUME NEW k \in Keys, FailCommit(k) PROVE PlaceInv'
  <2>1. IF k = Global THEN End(k) ELSE Goto(k, "release")
    BY <1>6 DEF FailCommit
  <2> QED BY <1>t, <2>1, GotoFields, EndFields, PlaceKept DEF StageInPlace, GlobalInPlace, Holding
<1>7. ASSUME NEW k \in Keys, Panic(k) PROVE PlaceInv'
  <2>1. End(k) /\ k \in Stages
    BY <1>7 DEF Panic
  <2> QED BY <1>t, <2>1, EndFields, PlaceKept DEF StageInPlace
<1>8. CASE PanicGlobal
  <2>1. Goto(Global, "dead")
    BY <1>8 DEF PanicGlobal
  <2> QED BY <1>t, <2>1, GotoFields, PlaceKept DEF GlobalInPlace
<1>9. CASE ProbeStep
  BY <1>9, PlaceSame DEF ProbeStep, EndProbe, SendVerdict, ReleaseProbe
<1>10. ASSUME NEW x \in Gateways, CleanupGatewayChannel(x) PROVE PlaceInv'
  BY <1>10, PlaceSame DEF CleanupGatewayChannel
<1>11. CASE UNCHANGED pathVars
  BY <1>11, PlaceSame DEF pathVars, agentVars, slotVars, bounds
<1> QED BY <1>1, <1>2, <1>3, <1>4, <1>5, <1>6, <1>7, <1>8, <1>9, <1>10, <1>11, Idle, PlaceCommit
        DEF Next

(* What a commit, or a probe, needs to go on.                              *)
CommitReady(k) ==
    \/ job[k].pc \in {"lock", "alter"}
    \/ At(k, "enter") /\ SlotFree(job[k].chan)
    \/ At(k, "list") /\ CanReport(k)
    \/ At(k, "flush") /\ CanReport(k) /\ \A j \in Keys : ~At(j, "alter")
    \/ At(k, "report") /\ job[k].report
          /\ Cardinality({p \in probes : p.pc \in {"probe", "verdict"}}) < ProbeSize
    \/ ((At(k, "release") /\ CanReport(k)) \/ (At(k, "report") /\ ~job[k].report))
          /\ job[k].chan \in token
ProbeReady(p) ==
    \/ p.pc = "probe"
    \/ p.pc = "verdict" /\ EventQ!CanSend
    \/ p.pc = "release" /\ p.chan \in token

(* A full event queue that is not clogged has an event to be taken.        *)
SomeoneReady ==
    \/ \E k \in Keys : CommitReady(k)
    \/ \E p \in probes : ProbeReady(p)
    \/ queue = "full"

(* While a group is being committed one of its commits can go on, or a     *)
(* probe that a commit may be waiting for, or the reporter, if they wait   *)
(* for a place in its queue.                                               *)
NeverWedged == ~GroupDone => SomeoneReady \/ CommitterStuck \/ queue = "clogged"

LEMMA FlushReady ==
    ASSUME EventQ!CanSend, NEW k \in Keys, At(k, "flush")
    PROVE  \E j \in Keys : CommitReady(j)
BY DEF CommitReady, CanReport, At

LEMMA ProbeSlotReady ==
    ASSUME TypeOK, EventQ!CanSend, NEW k \in Keys, At(k, "report"), job[k].report
    PROVE  SomeoneReady
<1> DEFINE P == {p \in probes : p.pc \in {"probe", "verdict"}}
<1>1. CASE P = {}
  <2>1. Cardinality(P) < ProbeSize
    BY <1>1, FS_EmptySet, SizeAssumption
  <2> QED BY <2>1 DEF CommitReady, SomeoneReady
<1>2. CASE P # {}
  BY <1>2 DEF SomeoneReady, ProbeReady
<1> QED BY <1>1, <1>2

(* Whoever holds the token of a channel can go on, or waits for one who    *)
(* can.                                                                    *)
LEMMA HolderReady ==
    ASSUME TypeOK, NoLeakedSlot, EventQ!CanSend, NEW c \in token PROVE SomeoneReady
<1>1. c \in HeldChans
  BY DEF NoLeakedSlot
<1>2. CASE \E p \in probes : p.chan = c
  BY <1>2 DEF SomeoneReady, ProbeReady, TypeOK
<1>3. CASE \E j \in Stages : Holds(j) /\ job[j].chan = c
  <2>1. PICK j \in Stages : Holds(j) /\ job[j].chan = c
    BY <1>3
  <2>2. j \in Keys /\ job[j].pc \in Holding
    BY <2>1 DEF Holds, Keys
  <2>3. CASE At(j, "flush")
    BY <2>2, <2>3, FlushReady DEF SomeoneReady
  <2>4. CASE At(j, "report") /\ job[j].report
    BY <2>2, <2>4, ProbeSlotReady
  <2>5. CASE ~At(j, "flush") /\ ~(At(j, "report") /\ job[j].report)
    BY <2>1, <2>2, <2>5 DEF SomeoneReady, CommitReady, CanReport, At, Holding
  <2> QED BY <2>3, <2>4, <2>5
<1> QED BY <1>1, <1>2, <1>3 DEF HeldChans

LEMMA InvNeverWedged == ASSUME TypeOK, PlaceInv, NoLeakedSlot PROVE NeverWedged
<1> SUFFICES ASSUME ~GroupDone, queue = "open" PROVE SomeoneReady \/ CommitterStuck
  BY DEF NeverWedged, SomeoneReady, TypeOK
<1>q. EventQ!CanSend
  BY DEF EventQ!CanSend
<1>1. PICK k \in Keys : job[k].pc # "none"
  BY DEF GroupDone
<1>2. CASE job[k].pc \in {"lock", "list", "alter"}
  BY <1>2, <1>q DEF SomeoneReady, CommitReady, CanReport, At
<1>3. CASE At(k, "flush")
  BY <1>3, <1>q, FlushReady DEF SomeoneReady
<1>4. CASE At(k, "dead")
  <2>1. k = Global
    BY <1>4 DEF PlaceInv, StageInPlace, Holding, At, Keys
  <2> QED BY <1>4, <2>1 DEF CommitterStuck
<1>5. CASE At(k, "enter")
  <2>1. CASE job[k].chan \in token
    BY <1>q, <2>1, HolderReady
  <2>2. CASE job[k].chan \notin token
    BY <1>5, <2>2 DEF SomeoneReady, CommitReady, SlotFree
  <2> QED BY <2>1, <2>2
<1>6. CASE At(k, "report") /\ job[k].report
  BY <1>q, <1>6, ProbeSlotReady
<1>7. CASE At(k, "release") \/ (At(k, "report") /\ ~job[k].report)
  <2>1. k \in Stages
    BY <1>7 DEF PlaceInv, GlobalInPlace, At, Keys
  <2>2. CASE job[k].chan \in token
    BY <1>q, <1>7, <2>2 DEF SomeoneReady, CommitReady, CanReport
  <2>3. CASE job[k].chan \notin token /\ \E j \in Stages : At(j, "enter") /\ job[j].chan = job[k].chan
    BY <2>3 DEF SomeoneReady, CommitReady, SlotFree, Keys
  <2>4. CASE job[k].chan \notin token /\ \A j \in Stages : At(j, "enter") => job[j].chan # job[k].chan
    BY <1>7, <2>1, <2>4 DEF CommitterStuck, WaitsForToken
  <2> QED BY <2>2, <2>3, <2>4
<1>8. job[k].pc \in {"lock", "list", "alter", "flush", "dead", "enter", "report", "release"}
  BY <1>1 DEF PlaceInv, GlobalInPlace, StageInPlace, Holding, Keys
<1> QED BY <1>2, <1>3, <1>4, <1>5, <1>6, <1>7, <1>8 DEF At

(* Commits, probes, the gateways' channels, the lock on flushMux and the   *)
(* event queue never wait for one another in a circle: with a group under  *)
(* way somebody can go on, unless the committer has stopped in one of the  *)
(* two ways named or hanging requests to the core API have clogged the     *)
(* queue for good.                                                         *)
THEOREM PipelineNeverWedged == Spec => []NeverWedged
<1>1. Init => PlaceInv
  BY DEF Init, PlaceInv, StageInPlace, GlobalInPlace, NoJob, Keys
<1>2. TypeOK /\ PlaceInv /\ [Next]_vars => PlaceInv'
  BY PlaceNext
<1>3. TypeOK /\ PlaceInv /\ NoLeakedSlot => NeverWedged
  BY InvNeverWedged
<1> QED BY <1>1, <1>2, <1>3, PipelineTypeOK, PipelineNoLeakedSlot, PTL DEF Spec
=============================================================================
