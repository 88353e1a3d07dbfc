--------------------------- MODULE MCApisixStore ----------------------------
(* Instances of ApisixStore for TLC.                                       *)
EXTENDS ApisixStore

CONSTANTS r1, b1, v1, v2, c1, p1,   \* ids: routes, services, ssl, metadata
          st, virt, glob            \* owners

One(id, r)  == [i \in {id} |-> r]
Just(t, f)  == [Nothing EXCEPT ![t] = f]

\* A stage whose route moves between two services, the virtual stage (one
\* built-in route, one ssl) and the global plugin metadata, with resources
\* that change in spec or only in their bookkeeping.
StoreStages == {st, virt}
StoreIds    == [t \in Types |-> CASE t = "routes" -> {r1, b1}
                                  [] t = "services" -> {v1, v2}
                                  [] t = "ssls" -> {c1}
                                  [] t = "plugin_metadata" -> {p1}]
StoreOwner  == [id \in {r1, b1, v1, v2, c1, p1} |->
                  CASE id = p1 -> glob [] id \in {b1, c1} -> virt [] OTHER -> st]

StageConf(v, x, m) ==
    [Nothing EXCEPT !["routes"] = One(r1, Resource(v, m)), !["services"] = One(v, Resource(x, m))]

StoreConfigs ==
    [o \in {st, virt, glob} |->
        CASE o = st   -> {Nothing, StageConf(v1, "x", 0), StageConf(v1, "x", 1),
                          StageConf(v1, "y", 0), StageConf(v2, "x", 0)}
          [] o = virt -> {}
          [] o = glob -> {Nothing, Just("plugin_metadata", One(p1, Resource("x", 0))),
                          Just("plugin_metadata", One(p1, Resource("x", 1)))}]

\* The extra file holds an ssl, a route without an id and one that claims a
\* built-in id; at times it cannot be read.
Entry(id, x) == [id |-> id, r |-> Resource(x, 0)]
StoreFiles ==
    {Nil,
     [t \in StageTypes |->
        CASE t = "ssls"   -> <<Entry(c1, "x")>>
          [] t = "routes" -> <<Entry(NoId, "y"), Entry(b1, "y")>>
          [] OTHER        -> <<>>]}
=============================================================================
