---------------------------- MODULE VirtualStage ----------------------------
(***************************************************************************)
(* pkg/core/synchronizer/virtual_stage.go: the configuration of the        *)
(* virtual stage, made anew of an optional file and of the routes that are *)
(* built in.  The file is a list per type; it is Nil if no path is set or  *)
(* it cannot be opened, and otherwise what the decoder made of it before   *)
(* its first error.                                                        *)
(***************************************************************************)
EXTENDS ConfigDiffer, Naturals, Sequences

CONSTANTS
    BuiltinRoutes,   \* ids: health check, HEAD and not-found route
    BuiltinSpec,     \* what these are made of (they name no service)
    NoId             \* an entry of the file without an id

ASSUME BuiltinAssumption == NoId \notin BuiltinRoutes

makeExtraConfiguration(file) == IF file = Nil THEN [t \in StageTypes |-> <<>>] ELSE file

(* Entries that have an id; the last one of an id counts.                  *)
IdsIn(list)      == {list[i].id : i \in DOMAIN list} \ {NoId}
LastOf(list, id) == CHOOSE i \in DOMAIN list :
                        list[i].id = id /\ \A j \in i+1..Len(list) : list[j].id # id
FromList(list)   == [id \in IdsIn(list) |-> list[LastOf(list, id)].r]

Builtins == [id \in BuiltinRoutes |-> Resource(BuiltinSpec, 0)]

\* mutant: the file is read last
MakeExtrasLast(file) ==
    [t \in Types |->
        CASE t = "routes"  -> Overwrite(Builtins, FromList(makeExtraConfiguration(file)[t]), {})
          [] t \in {"services", "ssls"} -> FromList(makeExtraConfiguration(file)[t])
          [] OTHER         -> NoResources]

MakeConfiguration(file) ==
    [t \in Types |->
        CASE t = "routes"  -> Overwrite(FromList(makeExtraConfiguration(file)[t]), Builtins, {})
          [] t \in {"services", "ssls"} -> FromList(makeExtraConfiguration(file)[t])
          [] OTHER         -> NoResources]
=============================================================================
