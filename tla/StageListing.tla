---------------------------- MODULE StageListing ----------------------------
(***************************************************************************)
(* What the operator reads from the control plane's etcd                   *)
(* (pkg/core/registry/apigw.go from extractResourceMetadata on): a commit  *)
(* lists the keys of a stage and makes the stage's whole configuration of  *)
(* them, and what is not in it the store deletes from the data plane.  A   *)
(* key is ".../gateway/<gateway>/<stage>/<kind>/<id>" or                   *)
(* ".../global/<kind>/<id>"; names are sequences, as every query of etcd   *)
(* is one for the keys with a prefix.  A listing holds a stage's routes    *)
(* and services by the ids in the values, which nothing ties to the ids in *)
(* the keys.                                                               *)
(***************************************************************************)
EXTENDS ResourceValidator, Integers, SequencesExt

CONSTANTS
    Stages,       \* names of stages, Seq(Nat)
    ResourceIds,  \* Seq(Nat)
    Rank,         \* [ResourceIds -> 1..]: their order in the answers of etcd
    KindValues,   \* [kinds in use -> values, Junk among them or not]
    Junk,         \* a value that is not JSON
    SameId,       \* the id of a value is the one of its key
    MaxKeys       \* bound of the exploration

(* Of a value, besides what the validator looks at: .id, SameId or another *)
(* id or none; .labels, whether it has any.                                *)
AllKinds == {"route", "service", "ssl", "plugin_metadata", "_bk_release", "consumer"}
Kinds    == DOMAIN KindValues

Global    == <<-2>>                      \* the directory of the global resources
Slash     == -1
ReleaseId == <<>>                        \* a stage has one release key

ASSUME NamesAssumption ==
    /\ Kinds \subseteq AllKinds
    /\ \A n \in Stages \union ResourceIds : n \in Seq(Nat)
    /\ IsFiniteSet(ResourceIds)
    /\ Rank \in [ResourceIds -> 1..Cardinality(ResourceIds)]
    /\ \A i, j \in ResourceIds : Rank[i] = Rank[j] => i = j

KeysOf(stages, kind, ids) == [stage : stages, kind : {kind}, id : ids, value : KindValues[kind]]

Keys ==
    UNION ({KeysOf(Stages, kind, IF kind = "_bk_release" THEN {ReleaseId} ELSE ResourceIds) :
                kind \in Kinds}
        \union {KeysOf({Global}, kind, ResourceIds) :
                kind \in Kinds \ {"_bk_release", "route", "service"}})

VARIABLE kvs      \* the keys in etcd

SupportResourceTypeMap      == {"route", "service", "ssl", "plugin_metadata"}
SupportEventResourceTypeMap == {"route", "service", "plugin_metadata", "_bk_release"}

OfKind(S, kind) == {k \in S : k.kind = kind}

(* GetID: the "id" of the value, which may be absent.                      *)
ValueId(k) == IF k.value.id = SameId THEN <<k.stage, k.id>> ELSE k.value.id

(* A map from ids to routes that is filled key by key: of two with one id  *)
(* the later stays.                                                        *)
ById(S) == {k \in S : \A j \in S : ValueId(j) = ValueId(k) => Rank[j.id] <= Rank[k.id]}

Found(S) == [ok |-> TRUE, routes |-> ById(OfKind(S, "route")),
             services |-> ById(OfKind(S, "service"))]

(* An error, or a panic, which the commit recovers from: no listing.       *)
Failed == [ok |-> FALSE]

-----------------------------------------------------------------------------
(* Get with a prefix: ".../<stage>/".                                      *)
InStage(s) == {k \in kvs : IsPrefix(s \o <<Slash>>, k.stage \o <<Slash>>)}

(* extractResourceMetadata refuses a value it cannot parse, a kind of which*)
(* there are no events, and a short key of any kind but one.               *)
Extracted(k) ==
    /\ k.value # Junk
    /\ k.kind \in SupportEventResourceTypeMap
    /\ k.stage = Global => k.kind = "plugin_metadata"

(* What the validator lets through of the values in use.                   *)
Sound == [kind \in (Kinds \intersect SupportEventResourceTypeMap) \ {"_bk_release"} |->
            {c \in KindValues[kind] \ {Junk} : ValidateApisixJsonSchema(kind, c)}]

(* The version to validate against is in the labels: a value without them  *)
(* is a nil pointer.                                                       *)
Accepted(k) == Extracted(k) /\ k.value.labels /\ k.value \in Sound[k.kind]

(* ValueToStageResource: a release and an unsupported kind are passed      *)
(* over; any other key that is refused fails the whole listing.            *)
Relevant(S) == {k \in S : k.kind \in SupportResourceTypeMap}

ValueToStageResourceLax(S) == Found({k \in Relevant(S) : Accepted(k)})    \* mutant: skips it
ValueToStageResource(S) ==
    IF \A k \in Relevant(S) : Accepted(k) THEN Found(Relevant(S)) ELSE Failed

(* ValueToGlobalResource passes over nothing; its ids are those of the     *)
(* keys.                                                                   *)
ValueToGlobalResource(S) ==
    IF \A k \in S : k \in Relevant(S) /\ Accepted(k)
    THEN [ok |-> TRUE, metadata |-> OfKind(S, "plugin_metadata")] ELSE Failed

(* The listings of a commit: no keys are an empty configuration.           *)
ListStageResources(s) == ValueToStageResource(InStage(s))
ListGlobalResources   == ValueToGlobalResource(InStage(Global))

(* StageReleaseVersion, ".../<stage>/_bk_release/<id>": no key and one     *)
(* that is refused are errors.                                             *)
StageReleaseVersion(s) ==
    LET S == {k \in OfKind(InStage(s), "_bk_release") : IsPrefix(ReleaseId, k.id)}
    IN  IF \E k \in S : Extracted(k)
        THEN [ok |-> TRUE, release |-> CHOOSE k \in S : Extracted(k)] ELSE Failed

-----------------------------------------------------------------------------
(* The control plane writes and deletes keys one at a time.                *)
PutKey(k) ==
    /\ Cardinality(kvs) < MaxKeys
    /\ kvs' = {o \in kvs : <<o.stage, o.kind, o.id>> # <<k.stage, k.kind, k.id>>} \union {k}

DeleteKey(k) == kvs' = kvs \ {k}

ListingInit == kvs = {}
ListingNext == (\E k \in Keys : PutKey(k)) \/ (\E k \in kvs : DeleteKey(k))
ListingSpec == ListingInit /\ [][ListingNext]_kvs

-----------------------------------------------------------------------------
(* What a listing leaves out the store deletes from the data plane.  So    *)
(* there is none unless every route and service of the stage is accepted,  *)
(* and none of its plugins is one its schema refuses, whatever order they  *)
(* are looked at in.  The listing holds none of another stage.  It leaves  *)
(* out a route or a service of the stage only for another of the same kind *)
(* whose value has the same id, or has none either, and then it holds the  *)
(* last of these; if every value has the id of its key it leaves out none. *)
(* The global resources and the release of a stage are listed in full.     *)
Own(s, kind) == {k \in kvs : k.stage = s /\ k.kind = kind}

PluginsFit(k) == \A p \in DOMAIN k.value.plugins :
    IF Known(k.kind, p) THEN k.value.plugins[p] = "fits" ELSE p \in Inner

Stands(k, listed) ==
    \E j \in listed : ValueId(j) = ValueId(k) /\ Rank[k.id] <= Rank[j.id]

OncePerId(own, listed) ==
    /\ listed \subseteq own
    /\ \A k \in own : Stands(k, listed)
    /\ \A j, k \in listed : ValueId(j) = ValueId(k) => j = k
    /\ (\A k \in own : k.value.id = SameId) => listed = own

CompleteOrError ==
    /\ \A s \in Stages : ListStageResources(s).ok =>
        /\ OncePerId(Own(s, "route"), ListStageResources(s).routes)
        /\ OncePerId(Own(s, "service"), ListStageResources(s).services)
        /\ \A k \in Own(s, "route") \union Own(s, "service") : PluginsFit(k)
    /\ \A s \in Stages : StageReleaseVersion(s).ok =>
        StageReleaseVersion(s).release \in Own(s, "_bk_release")
    /\ ListGlobalResources.ok =>
        /\ ListGlobalResources.metadata = {k \in kvs : k.stage = Global}
        /\ \A k \in ListGlobalResources.metadata : PluginsFit(k)
=============================================================================
