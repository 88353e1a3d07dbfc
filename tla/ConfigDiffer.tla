---------------------------- MODULE ConfigDiffer ----------------------------
(***************************************************************************)
(* The pure comparison of pkg/core/differ/diff.go.                         *)
(*                                                                         *)
(* A resource is a record [spec, meta]: spec is everything APISIX acts on  *)
(* (a Go value and its JSON round trip are one spec, which is what         *)
(* transformMap and normalizeNodesValue are for), meta is what carries no  *)
(* meaning for APISIX: labels, context, retry count, create and update     *)
(* times, and the layout of a plugin metadata text.  A resource map is a   *)
(* function from ids to resources; a configuration is a record of one map  *)
(* per resource type.                                                      *)
(***************************************************************************)
EXTENDS FiniteSets

CONSTANT Nil      \* the nil configuration pointer

StageTypes  == {"routes", "services", "ssls"}
GlobalTypes == {"plugin_metadata"}
Types       == StageTypes \union GlobalTypes

Resource(s, m) == [spec |-> s, meta |-> m]

NoResources  == [id \in {} |-> Nil]                  \* the empty resource map
Nothing      == [t \in Types |-> NoResources]

(* Routes and services are compared without bookkeeping, SSLs with all     *)
(* their fields, plugin metadata byte by byte.                             *)
Same(t, a, b) == IF t \in {"routes", "services"} THEN a.spec = b.spec ELSE a = b

PutIdsAll(t, old, new) == DOMAIN new                \* mutant: everything has changed
PutIdsNew(t, old, new) == DOMAIN new \ DOMAIN old   \* mutant: changes are ignored

PutIds(t, old, new) ==
    {id \in DOMAIN new : id \notin DOMAIN old \/ ~Same(t, old[id], new[id])}

DeleteIds(t, old, new) == DOMAIN old \ DOMAIN new

DiffMapPut(t, old, new)    == [id \in PutIds(t, old, new) |-> new[id]]
DiffMapDelete(t, old, new) == [id \in DeleteIds(t, old, new) |-> old[id]]

(* Diff and DiffGlobal: old or new may be nil.                             *)
DiffPut(old, new) ==
    IF old = Nil \/ new = Nil THEN new
    ELSE [t \in Types |-> DiffMapPut(t, old[t], new[t])]

DiffDelete(old, new) ==
    IF old = Nil THEN Nil
    ELSE IF new = Nil THEN old
    ELSE [t \in Types |-> DiffMapDelete(t, old[t], new[t])]

-----------------------------------------------------------------------------
(* What a reader of the result does with it.                               *)
WithId(f, id, r) ==
    [i \in DOMAIN f \union {id} |-> IF i = id THEN r ELSE f[i]]
WithoutId(f, id) == [i \in DOMAIN f \ {id} |-> f[i]]

Overwrite(f, put, gone) ==
    [i \in (DOMAIN f \union DOMAIN put) \ gone |->
        IF i \in DOMAIN put THEN put[i] ELSE f[i]]

SameSpecs(f, g) ==
    /\ DOMAIN f = DOMAIN g
    /\ \A id \in DOMAIN f : f[id].spec = g[id].spec
=============================================================================
