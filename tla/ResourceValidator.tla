------------------------- MODULE ResourceValidator --------------------------
(***************************************************************************)
(* pkg/core/validator and pkg/utils/schema: whether a route, a service or  *)
(* plugin metadata that the control plane has written may go to APISIX.    *)
(* One that may not makes the listing of its stage fail, and with it every *)
(* commit of the stage.  What a JSON schema says of a value is data here:  *)
(*   c.version       apisix_version of the labels, cut at its dots         *)
(*   c.fits          what the schema of its kind says                      *)
(*   c.upstream      [passHost, upstreamHost, nodes, tls, type, hashOn,    *)
(*                   key], or NoUpstream                                   *)
(*   c.remoteAddrs   set of addresses                                      *)
(*   c.vars          set of items; <<>> stands for what is no list as well *)
(*   c.plugins       [plugin -> "fits", "unfit" or "no object"], by its    *)
(*                   schema, without a boolean "disable"                   *)
(***************************************************************************)
EXTENDS Naturals, Sequences, FiniteSets

CONSTANTS
    Inner,           \* plugins of the platform's own, whose names begin with "bk-"
    PluginSchemas    \* [schema type -> plugins schema.json has one for]

NoUpstream == [type |-> "none"]

SchemaVersions == {<<3, 13, "X">>}                  \* schemaVersionMap
AllowedOps     == {"==", "~=", ">", "<", "~~", "~*", "IN", "HAS"}

PluginsMustResourceMap == {"plugin_config", "plugin_metadata", "consumer_group", "global_rule"}

ToXVersion(v)        == IF Len(v) \in {2, 3} THEN SubSeq(v, 1, 2) \o <<"X">> ELSE <<>>
NewResourceSchema(c) == ToXVersion(c.version) \in SchemaVersions

-----------------------------------------------------------------------------
(* NodesFormat gives back what it cannot make a list of nodes of.          *)
NodesFormat(nodes) == IF nodes \in {"list", "weights"} THEN "list" ELSE nodes

(* A key in the variables, or in a header or cookie, has a schema.         *)
cHashKeySchemaCheck(hashOn, key) ==
    CASE hashOn = "consumer"             -> TRUE
      [] hashOn = "vars"                 -> key \in {"uri", "arg"}
      [] hashOn \in {"header", "cookie"} -> key \in {"uri", "arg", "name"}
      [] OTHER                           -> FALSE

HashOn(u) == IF u.hashOn = "" THEN "vars" ELSE u.hashOn

checkUpstream(u) == u = NoUpstream \/
    /\ u.passHost = "node" /\ u.nodes # "none" => NodesFormat(u.nodes) = "list"
    /\ u.passHost = "rewrite" => u.upstreamHost # ""
    /\ u.tls # "bad"                                \* sslx, of a certificate if there is one
    /\ u.type = "chash" =>
        /\ HashOn(u) = "consumer" \/ u.key # ""
        /\ cHashKeySchemaCheck(HashOn(u), u.key)

checkRemoteAddr(addrs) == "" \notin addrs

(* (name op value) or (name ! op value), the name a string.                *)
validateVarItem(item) ==
    /\ Len(item) \in {3, 4}
    /\ item[1] \notin {"number", "nil"}
    /\ Len(item) = 4 => item[2] = "!"
    /\ item[Len(item) - 1] \in AllowedOps
    /\ item[Len(item)] # "nil"

checkVars(vars) == \A item \in vars : validateVarItem(item)

checkConf(kind, c) ==
    /\ kind \in {"route", "service"} => checkUpstream(c.upstream)
    /\ kind = "route" => checkRemoteAddr(c.remoteAddrs) /\ checkVars(c.vars)

-----------------------------------------------------------------------------
(* getPlugins: which schema a plugin of the resource has.                  *)
SchemaType(kind) == IF kind = "plugin_metadata" THEN "metadata_schema" ELSE "schema"
Known(kind, p)   == p \in PluginSchemas[SchemaType(kind)]

(* A plugin without a schema is skipped if it is an inner one, and refused *)
(* otherwise.                                                              *)
PluginPasses(kind, p, verdict) == IF Known(kind, p) THEN verdict = "fits" ELSE p \in Inner

(* The loop over the plugins; Go's order is any.                           *)
Orders(S) == {o \in [1..Cardinality(S) -> S] : \A p \in S : \E n \in DOMAIN o : o[n] = p}

PluginsPassUntilInner(kind, plugins, order) ==      \* mutant: the skip ends the loop
    \A n \in DOMAIN order :
        \/ \E m \in 1..n - 1 : ~Known(kind, order[m]) /\ order[m] \in Inner
        \/ PluginPasses(kind, order[n], plugins[order[n]])

PluginsPass(kind, plugins, order) ==
    \A n \in DOMAIN order : PluginPasses(kind, order[n], plugins[order[n]])

Validate(kind, c, order) ==
    /\ NewResourceSchema(c)
    /\ c.fits
    /\ checkConf(kind, c)
    /\ kind \in PluginsMustResourceMap => DOMAIN c.plugins # {}
    /\ PluginsPass(kind, c.plugins, order)

(* What some run of ValidateApisixJsonSchema lets through.                 *)
ValidateApisixJsonSchema(kind, c) ==
    \E order \in Orders(DOMAIN c.plugins) : Validate(kind, c, order)
=============================================================================
