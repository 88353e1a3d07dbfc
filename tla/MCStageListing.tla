--------------------------- MODULE MCStageListing ---------------------------
(* Instances of StageListing for TLC: a stage, and one of whose name it is *)
(* a prefix; an id, and one of which it is a prefix.                       *)
EXTENDS StageListing

CONSTANT Absent     \* the id of a value without one

StageNames  == {<<7>>, <<7, 2>>}
ListingIds  == {<<1>>, <<1, 0>>}
ByteOrder   == [id \in ListingIds |-> Len(id)]

(* A known inner plugin, one without a schema, one of APISIX, and one that *)
(* nobody knows.                                                           *)
InnerPlugins == {"bk-mock", "bk-new"}
SchemaOf     == [schema |-> {"bk-mock", "cors"}, metadata_schema |-> {"cors"}]

Upstream == [passHost |-> "pass", upstreamHost |-> "", nodes |-> "weights", tls |-> "none",
             type |-> "roundrobin", hashOn |-> "", key |-> ""]
Hashed   == [Upstream EXCEPT !.type = "chash", !.key = "uri"]

Upstreams == {NoUpstream, Upstream, Hashed,
    [Upstream EXCEPT !.passHost = "node"], [Upstream EXCEPT !.passHost = "node", !.nodes = "odd"],
    [Upstream EXCEPT !.passHost = "rewrite"],
    [Upstream EXCEPT !.tls = "bad"],
    [Hashed EXCEPT !.key = ""], [Hashed EXCEPT !.key = "name"], [Hashed EXCEPT !.hashOn = "other"],
    [Hashed EXCEPT !.hashOn = "header", !.key = "name"],
    [Hashed EXCEPT !.hashOn = "consumer", !.key = ""]}

Conf == [id |-> SameId, labels |-> TRUE, version |-> <<3, 13, 0>>, fits |-> TRUE,
         upstream |-> NoUpstream, remoteAddrs |-> {}, vars |-> {}, plugins |-> <<>>]

(* The id of another key, of another stage, and none; no labels.           *)
Odd == {[Conf EXCEPT !.id = <<<<7>>, <<1>>>>], [Conf EXCEPT !.id = Absent],
        [Conf EXCEPT !.labels = FALSE]}

With(name, verdict) == [p \in {name} |-> verdict]

PluginSets == {With("no-such", "fits"),
    With("bk-new", "unfit") @@ With("cors", "unfit"),
    With("bk-mock", "fits") @@ With("cors", "no object"),
    With("bk-mock", "fits") @@ With("cors", "fits") @@ With("bk-new", "unfit")}

Vars == {{<<"arg", "==", "number">>, <<"arg", "!", "IN", "name">>}, {<<"number", "==", "a">>},
         {<<"arg", "==", "nil">>}, {<<"arg", "not", "IN", "name">>}, {<<"arg", "!", "==">>}, {<<>>}}

Routes == Odd
        \union {[Conf EXCEPT !.vars = v] : v \in Vars}
        \union {[Conf EXCEPT !.plugins = p] : p \in PluginSets}
        \union {[Conf EXCEPT !.version = v] : v \in {<<3, 11, 0>>, <<3>>}}
        \union {[Conf EXCEPT !.fits = FALSE], [Conf EXCEPT !.remoteAddrs = {"", "address"}]}

ServiceValues == Odd \union {[Conf EXCEPT !.upstream = u] : u \in Upstreams}
MetadataValues == {Conf, [Conf EXCEPT !.labels = FALSE],
                   [Conf EXCEPT !.plugins = With("cors", "fits")],
                   [Conf EXCEPT !.plugins = With("bk-new", "fits")],
                   [Conf EXCEPT !.plugins = With("cors", "unfit")]}

(* Of each kind, what the validator tells apart, and a value that is junk. *)
NotJson    == [junk |-> TRUE]
ValuesOf ==
    [route |-> Routes \union {NotJson}, service |-> ServiceValues, ssl |-> {Conf},
     plugin_metadata |-> MetadataValues, _bk_release |-> {Conf, NotJson}]
=============================================================================
