---------------------------- MODULE ApisixStore -----------------------------
(***************************************************************************)
(* pkg/core/store/store.go: the store that brings the resources of a stage *)
(* in the APISIX etcd to a wanted configuration, one key at a time.        *)
(*                                                                         *)
(* Alter diffs the wanted configuration with the cached one, never with    *)
(* etcd itself.  The cache is fed by one watch per resource type, so it is *)
(* a view of etcd that lags; the data plane (APISIX) is another such view. *)
(* The callers hold flushMux for the whole Alter                           *)
(* (pkg/core/synchronizer/synchronizer.go), so there is one job at a time. *)
(***************************************************************************)
EXTENDS VirtualStage

CONSTANTS
    Stages,          \* stage keys, with VirtualStage one of them
    VirtualStage,    \* config.VirtualStageKey
    Global,          \* owner of the resources that carry no stage label
    Ids,             \* [Types -> set of resource ids]
    OwnerOf,         \* [id -> stage key or Global]: the label of the resource
    Configs,         \* [owner -> the configurations a commit may ask for]
    ExtraFiles,      \* what the file of the virtual stage may hold when it is read
    PlainMeta,       \* the meta of a stage's resource as it is stored
    RegistryInTime,  \* BOOLEAN: the cache has caught up when an Alter begins
    SleepCovers,     \* BOOLEAN: putInterval and delInterval outlast the lag
                     \* of the data plane
    MaxAlters, MaxFailures, MaxCrashes   \* bounds of the exploration

ASSUME VirtualAssumption == VirtualStage \in Stages
ASSUME GlobalAssumption  == Global \notin Stages

(* A resource carries the label of its owner; the ids of the routes that   *)
(* are built in are kept for the virtual stage.                            *)
ASSUME OwnerAssumption ==
    /\ \A t \in Types : \A id \in Ids[t] : OwnerOf[id] = Global <=> t \in GlobalTypes
    /\ \A id \in BuiltinRoutes : id \in Ids["routes"] /\ OwnerOf[id] = VirtualStage

VirtualConfigs == {MakeConfiguration(f) : f \in ExtraFiles}
ConfigsOf(o)   == IF o = VirtualStage THEN VirtualConfigs ELSE Configs[o]

Owners  == Stages \union {Global}
Viewers == {"registry", "dataplane"}
AllIds  == UNION {Ids[t] : t \in Types}

VARIABLES
    etcd,      \* [Types -> resource map]: the APISIX etcd
    view,      \* [Viewers -> [Types -> resource map]]: what a watcher has applied
    feed,      \* [Viewers -> [Types -> Seq]]: what its watch has yet to deliver
    job,       \* the Alter in progress, or Nil
    alters, failures, crashes            \* bound counters

vars == <<etcd, view, feed, job, alters, failures, crashes>>

-----------------------------------------------------------------------------
Wanted    == UNION {UNION {{c[t][id] : id \in DOMAIN c[t]} : t \in Types} :
                     c \in UNION {ConfigsOf(o) : o \in Owners}}

(* What batchPutResource makes of a resource before it writes it: the      *)
(* publish id is cleared and the times are set; the text of a plugin       *)
(* metadata, which has neither, is written as it is.                       *)
Cleared(t, r) == IF t \in GlobalTypes THEN r ELSE [r EXCEPT !.meta = PlainMeta]

Resources == {Cleared(t, r) : t \in Types, r \in Wanted}

MapsOver(t) == UNION {[S -> Resources] : S \in SUBSET Ids[t]}

(* What a commit asks for: resources of the owner, and for a route that    *)
(* names a service that service too.                                       *)
ASSUME ConfigAssumption ==
    \A o \in Owners : \A c \in ConfigsOf(o) :
        /\ \A t \in Types : \A id \in DOMAIN c[t] :
                /\ id \in Ids[t] /\ OwnerOf[id] = o
                /\ c[t][id] = Resource(c[t][id].spec, c[t][id].meta)
        /\ \A id \in DOMAIN c["routes"] :
                c["routes"][id].spec \in Ids["services"] =>
                    c["routes"][id].spec \in DOMAIN c["services"]

ASSUME NilAssumption ==
    /\ Nil \notin Resources
    /\ Nil \notin [Types -> UNION {MapsOver(t) : t \in Types}]
    /\ \A o \in Owners : Nil \notin ConfigsOf(o)

\* mutant: no interval before the services are deleted
PlanNoDelSleep == << <<"put", "ssls">>, <<"put", "services">>, <<"sleep", "put">>,
                     <<"put", "routes">>,
                     <<"delete", "routes">>, <<"delete", "ssls">>,
                     <<"delete", "services">> >>

(* The order of an Alter: services exist before a route that names them is *)
(* written, and outlive it when it is deleted.                             *)
StagePlan == << <<"put", "ssls">>, <<"put", "services">>, <<"sleep", "put">>,
                <<"put", "routes">>,
                <<"delete", "routes">>, <<"delete", "ssls">>,
                <<"sleep", "delete">>, <<"delete", "services">> >>

GlobalPlan == << <<"put", "plugin_metadata">>, <<"delete", "plugin_metadata">> >>

PlanOf(o) == IF o = Global THEN GlobalPlan ELSE StagePlan

-----------------------------------------------------------------------------
(* GetStageResources of one registry: those that carry the label.          *)
Labelled(f, o) == [id \in {i \in DOMAIN f : OwnerOf[i] = o} |-> f[id]]

\* mutant: the label of a cached resource is not looked at
CachedAll(o) == view["registry"]

(* Get and GetGlobal: the cached resources that carry the owner's label.   *)
Cached(o) == [t \in Types |-> Labelled(view["registry"][t], o)]

\* mutant: the first step is off by one
BeginAtZero(o, c) == [owner |-> o, conf |-> c, i |-> 0, put |-> Nothing, del |-> Nothing]

Begin(o, c) == [owner |-> o, conf |-> c, i |-> 1,
                put |-> DiffPut(Cached(o), c), del |-> DiffDelete(Cached(o), c)]

Active   == job # Nil
Done     == job.i > Len(PlanOf(job.owner))
Phase    == PlanOf(job.owner)[job.i]
Settled(v) == \A t \in Types : feed[v][t] = <<>>

(* A write to etcd is queued on the watches of both viewers, in order.     *)
Emit(t, id, r) ==
    feed' = [v \in Viewers |-> [feed[v] EXCEPT ![t] = Append(@, [id |-> id, r |-> r])]]

Stored(t, id, r) == etcd' = [etcd EXCEPT ![t] = WithId(@, id, r)]
Removed(t, id)   == etcd' = [etcd EXCEPT ![t] = WithoutId(@, id)]

-----------------------------------------------------------------------------
Init ==
    /\ etcd = Nothing
    /\ view = [v \in Viewers |-> Nothing]
    /\ feed = [v \in Viewers |-> [t \in Types |-> <<>>]]
    /\ job = Nil
    /\ alters = 0 /\ failures = 0 /\ crashes = 0

(* Sync calls Alter for a stage, SyncGlobal calls AlterGlobal first.       *)
Alter(o, c) ==
    /\ ~Active
    /\ alters < MaxAlters
    /\ RegistryInTime => Settled("registry")
    /\ job' = Begin(o, c)
    /\ alters' = alters + 1
    /\ UNCHANGED <<etcd, view, feed, failures, crashes>>

(* The write of one id of the current batch, as etcd and the watches of    *)
(* etcd see it.                                                            *)
ApplyPut(t, id) ==
    /\ Stored(t, id, Cleared(t, job.put[t][id]))
    /\ Emit(t, id, Cleared(t, job.put[t][id]))

ApplyDelete(t, id) ==
    /\ Removed(t, id)
    /\ IF id \in DOMAIN etcd[t] THEN Emit(t, id, Nil) ELSE UNCHANGED feed

(* batchPutResource and batchDeleteResource visit a Go map, in any order.  *)
PutResource(id) ==
    /\ Active /\ ~Done /\ Phase[1] = "put"
    /\ id \in DOMAIN job.put[Phase[2]]
    /\ ApplyPut(Phase[2], id)
    /\ job' = [job EXCEPT !.put[Phase[2]] = WithoutId(@, id)]
    /\ UNCHANGED <<view, alters, failures, crashes>>

DeleteResource(id) ==
    /\ Active /\ ~Done /\ Phase[1] = "delete"
    /\ id \in DOMAIN job.del[Phase[2]]
    /\ ApplyDelete(Phase[2], id)
    /\ job' = [job EXCEPT !.del[Phase[2]] = WithoutId(@, id)]
    /\ UNCHANGED <<view, alters, failures, crashes>>

(* The first etcd error ends the Alter; the request it answers may have    *)
(* been applied all the same.                                              *)
FailPut(id) ==
    /\ Active /\ ~Done /\ Phase[1] = "put"
    /\ id \in DOMAIN job.put[Phase[2]]
    /\ failures < MaxFailures
    /\ ApplyPut(Phase[2], id) \/ UNCHANGED <<etcd, feed>>
    /\ job' = Nil
    /\ failures' = failures + 1
    /\ UNCHANGED <<view, alters, crashes>>

FailDelete(id) ==
    /\ Active /\ ~Done /\ Phase[1] = "delete"
    /\ id \in DOMAIN job.del[Phase[2]]
    /\ failures < MaxFailures
    /\ ApplyDelete(Phase[2], id) \/ UNCHANGED <<etcd, feed>>
    /\ job' = Nil
    /\ failures' = failures + 1
    /\ UNCHANGED <<view, alters, crashes>>

(* A batch ends when its map is empty, an interval when the time is over;  *)
(* the second interval is slept only if there are services to delete.      *)
BatchDone ==
    CASE Phase[1] = "put"    -> DOMAIN job.put[Phase[2]] = {}
      [] Phase[1] = "delete" -> DOMAIN job.del[Phase[2]] = {}
      [] Phase[1] = "sleep"  ->
            \/ Phase[2] = "delete" /\ DOMAIN job.del["services"] = {}
            \/ SleepCovers => Settled("dataplane")

NextPhase ==
    /\ Active /\ ~Done
    /\ BatchDone
    /\ job' = [job EXCEPT !.i = @ + 1]
    /\ UNCHANGED <<etcd, view, feed, alters, failures, crashes>>

(* Alter returns.  SyncGlobal goes on to the virtual stage without letting *)
(* go of flushMux.                                                         *)
Finish ==
    /\ Active /\ Done
    /\ \/ job.owner # Global /\ job' = Nil
       \/ job.owner = Global /\ \E c \in VirtualConfigs : job' = Begin(VirtualStage, c)
    /\ UNCHANGED <<etcd, view, feed, alters, failures, crashes>>

(* incrSync of a viewer: the next event of one type's watch is applied.    *)
Deliver(v, t) ==
    /\ feed[v][t] # <<>>
    /\ LET e == Head(feed[v][t]) IN
        view' = [view EXCEPT ![v][t] = IF e.r = Nil THEN WithoutId(@, e.id)
                                       ELSE WithId(@, e.id, e.r)]
    /\ feed' = [feed EXCEPT ![v][t] = Tail(@)]
    /\ UNCHANGED <<etcd, job, alters, failures, crashes>>

(* fullSync of one registry, after its watch revision was compacted.       *)
FullSync(t) ==
    /\ feed["registry"][t] # <<>>
    /\ view' = [view EXCEPT !["registry"][t] = etcd[t]]
    /\ feed' = [feed EXCEPT !["registry"][t] = <<>>]
    /\ UNCHANGED <<etcd, job, alters, failures, crashes>>

(* The process dies; the next one builds its registries with a fullSync of *)
(* every type before it serves an Alter.                                   *)
Restart ==
    /\ crashes < MaxCrashes
    /\ job' = Nil
    /\ view' = [view EXCEPT !["registry"] = etcd]
    /\ feed' = [feed EXCEPT !["registry"] = [t \in Types |-> <<>>]]
    /\ crashes' = crashes + 1
    /\ UNCHANGED <<etcd, alters, failures>>

Next ==
    \/ \E o \in Owners \ {VirtualStage} : \E c \in Configs[o] : Alter(o, c)
    \/ \E id \in AllIds : PutResource(id)
    \/ \E id \in AllIds : DeleteResource(id)
    \/ \E id \in AllIds : FailPut(id)
    \/ \E id \in AllIds : FailDelete(id)
    \/ NextPhase
    \/ Finish
    \/ \E v \in Viewers, t \in Types : Deliver(v, t)
    \/ \E t \in Types : FullSync(t)
    \/ Restart

Spec == Init /\ [][Next]_vars

-----------------------------------------------------------------------------
(* A route names a service by its spec, unless it needs none.              *)
Dangling(m) == {id \in DOMAIN m["routes"] :
                    m["routes"][id].spec \in Ids["services"] \ DOMAIN m["services"]}

Mine(o) == [t \in Types |-> Labelled(etcd[t], o)]

(* Type invariant of the store.                                            *)
TypeOK ==
    /\ \A t \in Types : /\ etcd[t] \in MapsOver(t)
                        /\ \A v \in Viewers : view[v][t] \in MapsOver(t)
    /\ \A v \in Viewers, t \in Types : \A k \in DOMAIN feed[v][t] :
            feed[v][t][k] \in [id : Ids[t], r : Resources \union {Nil}]
    /\ Active => /\ job.owner \in Owners
                 /\ job.conf \in ConfigsOf(job.owner)
                 /\ job.i \in 1..Len(PlanOf(job.owner)) + 1
    /\ alters \in Nat /\ failures \in Nat /\ crashes \in Nat

(* "sleep putInterVal to avoid resource data inconsistency": whatever      *)
(* fails or dies half way, etcd never holds a route whose service is not   *)
(* there too, nor does APISIX ever see one, although it watches routes and *)
(* services separately and each watch has its own lag.                     *)
RefIntegrity == Dangling(etcd) = {} /\ Dangling(view["dataplane"]) = {}

(* An Alter that returns no error has brought the stage to the wanted      *)
(* configuration, in all that APISIX acts on.                              *)
SuccessMeansApplied ==
    (Active /\ Done) => \A t \in Types : SameSpecs(Mine(job.owner)[t], job.conf[t])

(* A step never removes from etcd a resource that the Alter in progress    *)
(* wants to keep, nor one of another stage.  "These routes are needed by   *)
(* external systems, never modify or delete them": whatever the extra file *)
(* holds, can no longer be read, or the stages do, a built-in route that   *)
(* is in etcd stays there as it is.                                        *)
OnlyUnwantedGoes ==
    [][\A t \in Types : \A id \in DOMAIN etcd[t] \ DOMAIN etcd'[t] :
            /\ Active
            /\ OwnerOf[id] = job.owner
            /\ id \notin DOMAIN job.conf[t]]_vars

BuiltinsStay ==
    [][\A id \in BuiltinRoutes \intersect DOMAIN etcd["routes"] :
            /\ id \in DOMAIN etcd'["routes"]
            /\ etcd'["routes"][id] = Cleared("routes", Builtins[id])]_vars

KeepsWanted == OnlyUnwantedGoes /\ BuiltinsStay

(* A write to the routes or services changes them: a resource that differs *)
(* from the stored one only in its labels, its publish id or its times is  *)
(* not written again, for APISIX rebuilds its router on every write.       *)
NoNeedlessWrite ==
    [][\A t \in {"routes", "services"} :
            Len(feed'["registry"][t]) > Len(feed["registry"][t]) => etcd'[t] # etcd[t]]_vars

-----------------------------------------------------------------------------
(* The store implements StageStore, which sees of a resource what APISIX   *)
(* acts on.                                                                *)
Entries(m) == UNION {{[type |-> t, id |-> id, spec |-> m[t][id].spec] : id \in DOMAIN m[t]} :
                     t \in Types}

Goal == IF Active THEN [owner |-> job.owner, conf  |-> Entries(job.conf),
                        state |-> IF Done THEN "done" ELSE "busy"]
                  ELSE <<>>

Promise == INSTANCE StageStore WITH
               Targets <- [o \in Owners |-> {Entries(c) : c \in ConfigsOf(o)}],
               stored  <- Entries(etcd),
               goal    <- Goal

(* An Alter moves the resources of its owner towards what is wanted and    *)
(* touches nothing else, whatever fails half way; it ends without an error *)
(* only when it has brought them there.                                    *)
Refines == Promise!Spec
=============================================================================
