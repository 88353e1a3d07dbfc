------------------------- MODULE ApisixStore_proofs -------------------------
(***************************************************************************)
(* Theorems about ApisixStore, for all stages, resources and wanted        *)
(* configurations and any number of Alters, errors and crashes.            *)
(***************************************************************************)
EXTENDS ApisixStore, SequenceTheorems, TLAPS

Maps    == UNION {[S -> Resources] : S \in SUBSET AllIds}
Changes == [id : AllIds, r : Resources \union {Nil}]
Plans   == UNION {[S -> Wanted \union Resources] : S \in SUBSET AllIds}
Jobs    == [owner : Owners, conf : UNION {ConfigsOf(o) : o \in Owners}, i : Nat,
            put : [Types -> Plans], del : [Types -> Plans]]

(* What the variables are: per type, and as functions.                     *)
Typed == /\ \A t \in Types : /\ etcd[t] \in MapsOver(t)
                             /\ \A v \in Viewers : view[v][t] \in MapsOver(t)
         /\ \A v \in Viewers, t \in Types : \A k \in DOMAIN feed[v][t] :
                 feed[v][t][k] \in [id : Ids[t], r : Resources \union {Nil}]

Shaped == /\ etcd \in [Types -> Maps]
          /\ view \in [Viewers -> [Types -> Maps]]
          /\ feed \in [Viewers -> [Types -> Seq(Changes)]]

(* A view and what is on its way to it make up what is in etcd: the last   *)
(* change of an id on its way, or, without one, what the view has of it.   *)
Status(f, id) == IF id \in DOMAIN f THEN f[id] ELSE Nil

Lags(f, s, g) ==
    \A id \in AllIds :
        /\ (\A k \in 1..Len(s) : s[k].id # id) => Status(f, id) = Status(g, id)
        /\ \A k \in 1..Len(s) :
                (s[k].id = id /\ \A j \in k + 1..Len(s) : s[j].id # id) =>
                    s[k].r = Status(g, id)

LagInv == \A v \in Viewers, t \in Types : Lags(view[v][t], feed[v][t], etcd[t])

StoreInv == Typed /\ Shaped /\ LagInv

JobOK == Active => /\ job \in Jobs
                   /\ job.conf \in ConfigsOf(job.owner)
                   /\ job.i \in 1..Len(PlanOf(job.owner)) + 1

(* What the Alter in progress has yet to write and to remove, and that the *)
(* phases it has gone through left nothing behind.                         *)
PhaseDone(p) ==
    /\ p[1] = "put" => DOMAIN job.put[p[2]] = {}
    /\ p[1] = "delete" => DOMAIN job.del[p[2]] = {}

JobInv == Active =>
    /\ \A t \in Types : \A id \in DOMAIN job.put[t] :
            id \in DOMAIN job.conf[t] /\ job.put[t][id] = job.conf[t][id]
    /\ \A t \in Types : \A id \in DOMAIN job.del[t] :
            id \in Ids[t] /\ OwnerOf[id] = job.owner /\ id \notin DOMAIN job.conf[t]
    /\ \A j \in 1..job.i - 1 : PhaseDone(PlanOf(job.owner)[j])

(* The built-in routes in etcd are as they were built in.                  *)
BuiltinInv == \A id \in BuiltinRoutes \intersect DOMAIN etcd["routes"] :
                  etcd["routes"][id] = Cleared("routes", Builtins[id])

Counters == alters \in Nat /\ failures \in Nat /\ crashes \in Nat

(* What holds whatever the cache and the data plane have got to; TimeInv,  *)
(* RefInv and SleepInv need them to be in time.                            *)
IndInv == StoreInv /\ JobOK /\ JobInv /\ BuiltinInv /\ Counters

(* If the cache was in time: it is only what is still to be written that   *)
(* differs in etcd from what is wanted, and only what is still to be       *)
(* removed that is not wanted.                                             *)
Agrees(t, id) == id \in DOMAIN etcd[t] /\ etcd[t][id].spec = job.conf[t][id].spec
Differs(t, id) ==
    (id \in DOMAIN etcd[t] /\ t \in {"routes", "services"}) =>
        etcd[t][id].spec # job.conf[t][id].spec

TimeInv == Active =>
    /\ \A t \in Types : \A id \in DOMAIN job.conf[t] :
            IF id \in DOMAIN job.put[t] THEN Differs(t, id) ELSE Agrees(t, id)
    /\ \A t \in Types : \A id \in DOMAIN etcd[t] :
            (OwnerOf[id] = job.owner /\ id \notin DOMAIN job.conf[t]) => id \in DOMAIN job.del[t]
    /\ job.owner = Global => \A t \in StageTypes : feed["registry"][t] = <<>>

(* If the intervals outlast the lag of the data plane: a service that a    *)
(* route names, in etcd, in the data plane or on its way there, is in both *)
(* and not about to go.                                                    *)
OwnInv == \A id \in DOMAIN etcd["routes"] :
              etcd["routes"][id].spec \in Ids["services"] =>
                  OwnerOf[etcd["routes"][id].spec] = OwnerOf[id]

Stays(s) ==
    /\ s \in DOMAIN view["dataplane"]["services"]
    /\ \A k \in 1..Len(feed["dataplane"]["services"]) :
            feed["dataplane"]["services"][k].id = s => feed["dataplane"]["services"][k].r # Nil

Names(r, s) == r # Nil /\ r.spec = s
Named(s) ==
    \/ \E id \in DOMAIN etcd["routes"] : Names(etcd["routes"][id], s)
    \/ \E id \in DOMAIN view["dataplane"]["routes"] : Names(view["dataplane"]["routes"][id], s)
    \/ \E k \in 1..Len(feed["dataplane"]["routes"]) : Names(feed["dataplane"]["routes"][k].r, s)

NamedInv == \A s \in Ids["services"] : Named(s) => s \in DOMAIN etcd["services"] /\ Stays(s)

RefInv == OwnInv /\ NamedInv

SleepInv == (Active /\ job.owner # Global) =>
    /\ job.i > 3 => \A s \in DOMAIN job.conf["services"] :
                        s \in DOMAIN etcd["services"] /\ Stays(s)
    /\ (job.i > 7 /\ DOMAIN job.del["services"] # {}) => feed["dataplane"]["routes"] = <<>>

-----------------------------------------------------------------------------
(* The comparison, and the configuration of the virtual stage.             *)
Reached(t, f, new) == DOMAIN f = DOMAIN new /\ \A id \in DOMAIN new : Same(t, f[id], new[id])

(* What Diff and DiffGlobal say is to be put and deleted brings any old    *)
(* configuration to the new one, up to what APISIX takes for the same;     *)
(* with that done, there is nothing more to put or to delete.              *)
THEOREM DiffIsEnough ==
    ASSUME NEW old, NEW new, old # Nil, new # Nil, NEW t \in Types
    PROVE  LET after == Overwrite(old[t], DiffPut(old, new)[t], DOMAIN DiffDelete(old, new)[t])
           IN  /\ Reached(t, after, new[t])
               /\ PutIds(t, after, new[t]) = {} /\ DeleteIds(t, after, new[t]) = {}
<1> DEFINE f == old[t]
           g == new[t]
           put == DiffPut(old, new)[t]
           gone == DOMAIN DiffDelete(old, new)[t]
           after == Overwrite(f, put, gone)
<1>1. DOMAIN put = PutIds(t, f, g) /\ \A id \in DOMAIN put : put[id] = g[id]
  BY DEF DiffPut, DiffMapPut
<1>2. gone = DOMAIN f \ DOMAIN g
  BY DEF DiffDelete, DiffMapDelete, DeleteIds
<1> HIDE DEF f, g, put, gone
<1>3. /\ DOMAIN after = (DOMAIN f \union DOMAIN put) \ gone
      /\ \A i \in DOMAIN after : after[i] = IF i \in DOMAIN put THEN put[i] ELSE f[i]
  BY DEF Overwrite
<1> HIDE DEF after
<1>4. DOMAIN after = DOMAIN g
  BY <1>1, <1>2, <1>3 DEF PutIds
<1>5. ASSUME NEW id \in DOMAIN g PROVE Same(t, after[id], g[id])
  <2>1. CASE id \in DOMAIN put
    BY <1>1, <1>3, <1>4, <2>1 DEF Same
  <2>2. CASE id \notin DOMAIN put
    BY <1>1, <1>3, <1>4, <2>2 DEF PutIds
  <2> QED BY <2>1, <2>2
<1>6. PutIds(t, after, g) = {} /\ DeleteIds(t, after, g) = {}
  BY <1>4, <1>5 DEF PutIds, DeleteIds
<1> QED BY <1>4, <1>5, <1>6 DEF Reached, f, g, put, gone, after

(* And nothing less would do: whatever else is put and deleted, if that    *)
(* brings the old configuration to the new one it puts and deletes all     *)
(* that Diff and DiffGlobal say.                                           *)
THEOREM DiffIsMinimal ==
    ASSUME NEW old, NEW new, old # Nil, new # Nil, NEW t \in Types, NEW put, NEW gone,
           Reached(t, Overwrite(old[t], put, gone), new[t])
    PROVE  /\ DOMAIN DiffPut(old, new)[t] \subseteq DOMAIN put
           /\ DOMAIN DiffDelete(old, new)[t] \subseteq gone
<1> DEFINE f == old[t]
           g == new[t]
           after == Overwrite(f, put, gone)
<1>1. DOMAIN DiffPut(old, new)[t] = PutIds(t, f, g)
  BY DEF DiffPut, DiffMapPut
<1>2. DOMAIN DiffDelete(old, new)[t] = DOMAIN f \ DOMAIN g
  BY DEF DiffDelete, DiffMapDelete, DeleteIds
<1>3. DOMAIN after = DOMAIN g /\ \A id \in DOMAIN g : Same(t, after[id], g[id])
  BY DEF Reached
<1> HIDE DEF f, g
<1>4. /\ DOMAIN after = (DOMAIN f \union DOMAIN put) \ gone
      /\ \A i \in DOMAIN after : after[i] = IF i \in DOMAIN put THEN put[i] ELSE f[i]
  BY DEF Overwrite
<1> HIDE DEF after
<1>5. PutIds(t, f, g) \subseteq DOMAIN put
  BY <1>3, <1>4 DEF PutIds
<1>6. DOMAIN f \ DOMAIN g \subseteq gone
  BY <1>3, <1>4
<1> QED BY <1>1, <1>2, <1>5, <1>6

(* Whatever is in the extra file of the virtual stage, and if there is     *)
(* none: the configuration made of it has the built-in routes as they are. *)
THEOREM BuiltinsAlways ==
    ASSUME NEW file, NEW id \in BuiltinRoutes
    PROVE  /\ id \in DOMAIN MakeConfiguration(file)["routes"]
           /\ MakeConfiguration(file)["routes"][id] = Builtins[id]
<1> DEFINE extra == FromList(makeExtraConfiguration(file)["routes"])
<1>1. MakeConfiguration(file)["routes"] = Overwrite(extra, Builtins, {})
  BY DEF MakeConfiguration, Types, StageTypes
<1>2. DOMAIN Builtins = BuiltinRoutes
  BY DEF Builtins
<1> HIDE DEF extra
<1> QED BY <1>1, <1>2 DEF Overwrite

-----------------------------------------------------------------------------
(* Resource maps.                                                          *)
LEMMA MapIs ==
    ASSUME NEW f, NEW T, NEW R
    PROVE  f \in UNION {[S -> R] : S \in SUBSET T} <=>
           f = [i \in DOMAIN f |-> f[i]] /\ DOMAIN f \subseteq T /\ \A i \in DOMAIN f : f[i] \in R
<1>1. ASSUME f \in UNION {[S -> R] : S \in SUBSET T}
      PROVE  f = [i \in DOMAIN f |-> f[i]] /\ DOMAIN f \subseteq T
             /\ \A i \in DOMAIN f : f[i] \in R
  <2>1. PICK S \in SUBSET T : f \in [S -> R]
    BY <1>1
  <2> QED BY <2>1
<1>2. ASSUME f = [i \in DOMAIN f |-> f[i]], DOMAIN f \subseteq T, \A i \in DOMAIN f : f[i] \in R
      PROVE  f \in UNION {[S -> R] : S \in SUBSET T}
  <2>1. f \in [DOMAIN f -> R]
    BY <1>2
  <2> QED BY <1>2, <2>1
<1> QED BY <1>1, <1>2

LEMMA MapWith ==
    ASSUME NEW T, NEW R, NEW f \in UNION {[S -> R] : S \in SUBSET T}, NEW id \in T, NEW r \in R
    PROVE  WithId(f, id, r) \in UNION {[S -> R] : S \in SUBSET T}
<1> DEFINE g == WithId(f, id, r)
<1>1. DOMAIN f \subseteq T /\ \A i \in DOMAIN f : f[i] \in R
  BY MapIs
<1>2. g = [i \in DOMAIN f \union {id} |-> IF i = id THEN r ELSE f[i]]
  BY DEF WithId
<1>3. DOMAIN g = DOMAIN f \union {id} /\ \A i \in DOMAIN g : g[i] = IF i = id THEN r ELSE f[i]
  BY <1>2
<1>4. g = [i \in DOMAIN g |-> g[i]]
  BY <1>2
<1> HIDE DEF g
<1>5. DOMAIN g \subseteq T /\ \A i \in DOMAIN g : g[i] \in R
  BY <1>1, <1>3
<1>6. g \in UNION {[S -> R] : S \in SUBSET T}
  BY <1>4, <1>5, MapIs
<1> QED BY <1>6 DEF g

LEMMA MapWithout ==
    ASSUME NEW T, NEW R, NEW f \in UNION {[S -> R] : S \in SUBSET T}, NEW id
    PROVE  WithoutId(f, id) \in UNION {[S -> R] : S \in SUBSET T}
<1> DEFINE g == WithoutId(f, id)
<1>1. DOMAIN f \subseteq T /\ \A i \in DOMAIN f : f[i] \in R
  BY MapIs
<1>2. g = [i \in DOMAIN f \ {id} |-> f[i]]
  BY DEF WithoutId
<1>3. DOMAIN g = DOMAIN f \ {id} /\ \A i \in DOMAIN g : g[i] = f[i]
  BY <1>2
<1>4. g = [i \in DOMAIN g |-> g[i]]
  BY <1>2
<1> HIDE DEF g
<1>5. DOMAIN g \subseteq T /\ \A i \in DOMAIN g : g[i] \in R
  BY <1>1, <1>3
<1>6. g \in UNION {[S -> R] : S \in SUBSET T}
  BY <1>4, <1>5, MapIs
<1> QED BY <1>6 DEF g

LEMMA MapNone ==
    ASSUME NEW T, NEW R PROVE NoResources \in UNION {[S -> R] : S \in SUBSET T}
<1>1. NoResources = [i \in DOMAIN NoResources |-> NoResources[i]] /\ DOMAIN NoResources = {}
  BY DEF NoResources
<1> HIDE DEF NoResources
<1> QED BY <1>1, MapIs

LEMMA OverIsMap == ASSUME NEW t \in Types, NEW f \in MapsOver(t) PROVE f \in Maps
<1>1. f = [i \in DOMAIN f |-> f[i]] /\ DOMAIN f \subseteq Ids[t] /\ \A i \in DOMAIN f : f[i] \in Resources
  BY MapIs DEF MapsOver
<1>2. Ids[t] \subseteq AllIds
  BY DEF AllIds
<1> QED BY <1>1, <1>2, MapIs DEF Maps

LEMMA StatusWith ==
    ASSUME NEW f, NEW x, NEW r, NEW id
    PROVE  Status(WithId(f, x, r), id) = IF id = x THEN r ELSE Status(f, id)
BY DEF Status, WithId

LEMMA StatusWithout ==
    ASSUME NEW f, NEW x, NEW id
    PROVE  Status(WithoutId(f, x), id) = IF id = x THEN Nil ELSE Status(f, id)
BY DEF Status, WithoutId

LEMMA StatusIs ==
    ASSUME NEW f \in Maps, NEW id
    PROVE  /\ id \in DOMAIN f => f[id] \in Resources /\ f[id] # Nil /\ Status(f, id) = f[id]
           /\ id \notin DOMAIN f => Status(f, id) = Nil
           /\ DOMAIN f \subseteq AllIds
BY MapIs, NilAssumption DEF Maps, Status

(* Views that agree on the status of the ids agree.                        *)
LEMMA StatusSame ==
    ASSUME NEW f \in Maps, NEW g \in Maps, NEW id, Status(f, id) = Status(g, id)
    PROVE  (id \in DOMAIN f <=> id \in DOMAIN g) /\ (id \in DOMAIN f => f[id] = g[id])
BY StatusIs

-----------------------------------------------------------------------------
(* Views that lag.                                                         *)
LEMMA LagsNone ==
    ASSUME NEW f, NEW g, Lags(f, <<>>, g), NEW id \in AllIds PROVE Status(f, id) = Status(g, id)
BY DEF Lags

LEMMA LagsSync == ASSUME NEW g PROVE Lags(g, <<>>, g)
BY DEF Lags

LEMMA LagsWrite ==
    ASSUME NEW f, NEW s \in Seq(Changes), NEW g, NEW h, NEW e \in Changes, Lags(f, s, g),
           Status(h, e.id) = e.r,
           \A id \in AllIds : id # e.id => Status(h, id) = Status(g, id)
    PROVE  Lags(f, Append(s, e), h)
<1> DEFINE a == Append(s, e)
<1>1. /\ Len(s) \in Nat /\ Len(a) = Len(s) + 1 /\ a[Len(s) + 1] = e
      /\ \A k \in 1..Len(s) : a[k] = s[k]
  OBVIOUS
<1> HIDE DEF a
<1> SUFFICES ASSUME NEW id \in AllIds
             PROVE  /\ (\A k \in 1..Len(a) : a[k].id # id) => Status(f, id) = Status(h, id)
                    /\ \A k \in 1..Len(a) :
                            (a[k].id = id /\ \A j \in k + 1..Len(a) : a[j].id # id) =>
                                a[k].r = Status(h, id)
  BY DEF Lags, a
<1>2. CASE id = e.id
  <2>1. Len(s) + 1 \in 1..Len(a) /\ a[Len(s) + 1].id = id
    BY <1>1, <1>2
  <2>2. ASSUME NEW k \in 1..Len(a), \A j \in k + 1..Len(a) : a[j].id # id
        PROVE  k = Len(s) + 1
    BY <1>1, <2>1, <2>2
  <2> QED BY <1>1, <1>2, <2>1, <2>2
<1>3. CASE id # e.id
  <2>1. Status(h, id) = Status(g, id)
    BY <1>3
  <2>2. ASSUME \A k \in 1..Len(a) : a[k].id # id PROVE Status(f, id) = Status(g, id)
    <3>1. \A k \in 1..Len(s) : s[k].id # id
      BY <1>1, <2>2
    <3> QED BY <3>1 DEF Lags
  <2>3. ASSUME NEW k \in 1..Len(a), a[k].id = id, \A j \in k + 1..Len(a) : a[j].id # id
        PROVE  a[k].r = Status(g, id)
    <3>1. k \in 1..Len(s)
      BY <1>1, <1>3, <2>3
    <3>2. s[k].id = id /\ \A j \in k + 1..Len(s) : s[j].id # id
      BY <1>1, <2>3, <3>1
    <3> QED BY <1>1, <3>1, <3>2 DEF Lags
  <2> QED BY <2>1, <2>2, <2>3
<1> QED BY <1>2, <1>3

LEMMA LagsDeliver ==
    ASSUME NEW f, NEW h, NEW s \in Seq(Changes), s # <<>>, NEW g, Lags(f, s, g),
           Status(h, s[1].id) = s[1].r,
           \A id \in AllIds : id # s[1].id => Status(h, id) = Status(f, id)
    PROVE  Lags(h, Tail(s), g)
<1> DEFINE a == Tail(s)
<1>1. /\ Len(s) \in Nat \ {0} /\ Len(a) = Len(s) - 1
      /\ \A k \in 1..Len(a) : k + 1 \in 1..Len(s) /\ a[k] = s[k + 1]
      /\ \A k \in 1..Len(s) : k # 1 => k - 1 \in 1..Len(a) /\ s[k] = a[k - 1]
  OBVIOUS
<1> HIDE DEF a
<1> SUFFICES ASSUME NEW id \in AllIds
             PROVE  /\ (\A k \in 1..Len(a) : a[k].id # id) => Status(h, id) = Status(g, id)
                    /\ \A k \in 1..Len(a) :
                            (a[k].id = id /\ \A j \in k + 1..Len(a) : a[j].id # id) =>
                                a[k].r = Status(g, id)
  BY DEF Lags, a
<1>2. ASSUME \A k \in 1..Len(a) : a[k].id # id PROVE Status(h, id) = Status(g, id)
  <2>1. \A k \in 1..Len(s) : k # 1 => s[k].id # id
    BY <1>1, <1>2
  <2>2. CASE s[1].id = id
    <3>1. 1 \in 1..Len(s) /\ \A j \in 1 + 1..Len(s) : s[j].id # id
      BY <1>1, <2>1
    <3> QED BY <2>2, <3>1 DEF Lags
  <2>3. CASE s[1].id # id
    <3>1. \A k \in 1..Len(s) : s[k].id # id
      BY <2>1, <2>3
    <3> QED BY <2>3, <3>1 DEF Lags
  <2> QED BY <2>2, <2>3
<1>3. ASSUME NEW k \in 1..Len(a), a[k].id = id, \A j \in k + 1..Len(a) : a[j].id # id
      PROVE  a[k].r = Status(g, id)
  <2>1. k + 1 \in 1..Len(s) /\ s[k + 1] = a[k]
    BY <1>1
  <2>2. ASSUME NEW j \in (k + 1) + 1..Len(s) PROVE s[j].id # id
    <3>1. j - 1 \in k + 1..Len(a) /\ s[j] = a[j - 1]
      BY <1>1
    <3> QED BY <1>3, <3>1
  <2> QED BY <1>3, <2>1, <2>2 DEF Lags
<1> QED BY <1>2, <1>3

-----------------------------------------------------------------------------
(* A step changes the store in one of five ways: a write, a delivery, a    *)
(* full sync, a restart, or not at all.                                    *)
Changed(f, id, r) == IF r = Nil THEN WithoutId(f, id) ELSE WithId(f, id, r)

Write(t, id, r) ==
    /\ etcd' = [etcd EXCEPT ![t] = Changed(@, id, r)]
    /\ Emit(t, id, r)
    /\ view' = view

LEMMA ChangedIs ==
    ASSUME NEW t \in Types, NEW f \in MapsOver(t), NEW id \in Ids[t], NEW r \in Resources \union {Nil}
    PROVE  /\ Changed(f, id, r) \in MapsOver(t)
           /\ \A i : Status(Changed(f, id, r), i) = IF i = id THEN r ELSE Status(f, i)
<1>1. CASE r = Nil
  <2>1. Changed(f, id, r) = WithoutId(f, id)
    BY <1>1 DEF Changed
  <2>2. WithoutId(f, id) \in MapsOver(t)
    BY MapWithout DEF MapsOver
  <2>3. \A i : Status(WithoutId(f, id), i) = IF i = id THEN Nil ELSE Status(f, i)
    BY StatusWithout
  <2> QED BY <1>1, <2>1, <2>2, <2>3
<1>2. CASE r # Nil
  <2>1. r \in Resources /\ Changed(f, id, r) = WithId(f, id, r)
    BY <1>2 DEF Changed
  <2>2. WithId(f, id, r) \in MapsOver(t)
    BY <2>1, MapWith DEF MapsOver
  <2>3. \A i : Status(WithId(f, id, r), i) = IF i = id THEN r ELSE Status(f, i)
    BY StatusWith
  <2> QED BY <2>1, <2>2, <2>3
<1> QED BY <1>1, <1>2

(* What a write makes of etcd and of the watches.                          *)
LEMMA WriteIs ==
    ASSUME Typed, Shaped, NEW t \in Types, NEW id \in Ids[t], NEW r \in Resources \union {Nil},
           Write(t, id, r)
    PROVE  /\ etcd' \in [Types -> Maps] /\ etcd'[t] \in MapsOver(t)
           /\ \A u \in Types : u # t => etcd'[u] = etcd[u]
           /\ \A i : Status(etcd'[t], i) = IF i = id THEN r ELSE Status(etcd[t], i)
           /\ [id |-> id, r |-> r] \in Changes
           /\ feed' \in [Viewers -> [Types -> Seq(Changes)]]
           /\ \A v \in Viewers : feed'[v][t] = Append(feed[v][t], [id |-> id, r |-> r])
           /\ \A v \in Viewers, u \in Types : u # t => feed'[v][u] = feed[v][u]
           /\ view' = view
<1> DEFINE g == Changed(etcd[t], id, r)
           e == [id |-> id, r |-> r]
<1>1. etcd' = [etcd EXCEPT ![t] = g]
  BY DEF Write
<1>2. g \in MapsOver(t) /\ \A i : Status(g, i) = IF i = id THEN r ELSE Status(etcd[t], i)
  BY ChangedIs DEF Typed
<1>3. g \in Maps
  BY <1>2, OverIsMap
<1>4. e \in Changes
  BY DEF Changes, AllIds
<1>5. feed' = [v \in Viewers |-> [feed[v] EXCEPT ![t] = Append(@, e)]] /\ view' = view
  BY DEF Write, Emit
<1> HIDE DEF g, e
<1>6. etcd' \in [Types -> Maps] /\ etcd'[t] = g /\ \A u \in Types : u # t => etcd'[u] = etcd[u]
  BY <1>1, <1>3 DEF Shaped
<1>7. ASSUME NEW v \in Viewers
      PROVE  /\ feed'[v] \in [Types -> Seq(Changes)] /\ feed'[v][t] = Append(feed[v][t], e)
             /\ \A u \in Types : u # t => feed'[v][u] = feed[v][u]
  <2>1. feed[v] \in [Types -> Seq(Changes)] /\ feed'[v] = [feed[v] EXCEPT ![t] = Append(@, e)]
    BY <1>5 DEF Shaped
  <2>2. Append(feed[v][t], e) \in Seq(Changes)
    BY <1>4, <2>1
  <2> QED BY <2>1, <2>2
<1>8. feed' \in [Viewers -> [Types -> Seq(Changes)]]
  <2>1. feed' = [v \in Viewers |-> feed'[v]]
    BY <1>5
  <2> QED BY <1>7, <2>1
<1> QED BY <1>2, <1>4, <1>5, <1>6, <1>7, <1>8 DEF e

LEMMA WriteInv ==
    ASSUME StoreInv, NEW t \in Types, NEW id \in Ids[t], NEW r \in Resources \union {Nil},
           Write(t, id, r)
    PROVE  StoreInv'
<1> DEFINE e == [id |-> id, r |-> r]
<1>1. /\ etcd' \in [Types -> Maps] /\ etcd'[t] \in MapsOver(t)
      /\ \A u \in Types : u # t => etcd'[u] = etcd[u]
      /\ \A i : Status(etcd'[t], i) = IF i = id THEN r ELSE Status(etcd[t], i)
      /\ e \in Changes
      /\ feed' \in [Viewers -> [Types -> Seq(Changes)]]
      /\ \A v \in Viewers : feed'[v][t] = Append(feed[v][t], e)
      /\ \A v \in Viewers, u \in Types : u # t => feed'[v][u] = feed[v][u]
      /\ view' = view
  BY WriteIs DEF StoreInv
<1>2. e \in [id : Ids[t], r : Resources \union {Nil}] /\ e.id = id /\ e.r = r
  OBVIOUS
<1> HIDE DEF e
<1>3. ASSUME NEW v \in Viewers, NEW u \in Types
      PROVE  /\ Lags(view'[v][u], feed'[v][u], etcd'[u])
             /\ \A k \in DOMAIN feed'[v][u] : feed'[v][u][k] \in [id : Ids[u], r : Resources \union {Nil}]
  <2>1. /\ Lags(view[v][u], feed[v][u], etcd[u]) /\ feed[v][u] \in Seq(Changes)
        /\ \A k \in DOMAIN feed[v][u] : feed[v][u][k] \in [id : Ids[u], r : Resources \union {Nil}]
    BY DEF StoreInv, LagInv, Shaped, Typed
  <2>2. CASE u # t
    BY <1>1, <2>1, <2>2
  <2>3. CASE u = t
    <3>1. Lags(view'[v][t], Append(feed[v][t], e), etcd'[t])
      BY <1>1, <1>2, <2>1, <2>3, LagsWrite
    <3>2. ASSUME NEW k \in DOMAIN feed'[v][t] PROVE feed'[v][t][k] \in [id : Ids[t], r : Resources \union {Nil}]
      <4> DEFINE s == feed[v][t]
                 R == [id : Ids[t], r : Resources \union {Nil}]
      <4>1. s \in Seq(Changes) /\ k \in DOMAIN Append(s, e) /\ \A j \in DOMAIN s : s[j] \in R
        BY <1>1, <2>1, <2>3, <3>2
      <4>2. e \in R
        BY <1>2
      <4> HIDE DEF s, R
      <4>3. Append(s, e)[k] \in R
        BY <1>1, <4>1, <4>2
      <4> QED BY <1>1, <4>3 DEF s, R
    <3> QED BY <1>1, <2>3, <3>1, <3>2
  <2> QED BY <2>2, <2>3
<1>4. \A u \in Types : etcd'[u] \in MapsOver(u) /\ \A v \in Viewers : view'[v][u] \in MapsOver(u)
  BY <1>1 DEF StoreInv, Typed
<1>5. Typed'
  BY <1>3, <1>4 DEF Typed
<1>6. Shaped'
  BY <1>1 DEF StoreInv, Shaped
<1> QED BY <1>3, <1>5, <1>6 DEF StoreInv, LagInv

LEMMA DeliverIs ==
    ASSUME StoreInv, NEW v \in Viewers, NEW t \in Types, Deliver(v, t)
    PROVE  /\ feed[v][t] # <<>> /\ feed[v][t][1] \in [id : Ids[t], r : Resources \union {Nil}]
           /\ view' \in [Viewers -> [Types -> Maps]] /\ view'[v][t] \in MapsOver(t)
           /\ feed' \in [Viewers -> [Types -> Seq(Changes)]] /\ feed'[v][t] = Tail(feed[v][t])
           /\ \A i : Status(view'[v][t], i) =
                  IF i = feed[v][t][1].id THEN feed[v][t][1].r ELSE Status(view[v][t], i)
           /\ \A w \in Viewers, u \in Types : (w # v \/ u # t) =>
                  view'[w][u] = view[w][u] /\ feed'[w][u] = feed[w][u]
           /\ etcd' = etcd
<1> DEFINE s == feed[v][t]
           f == view[v][t]
           e == s[1]
<1>1. s \in Seq(Changes) /\ s # <<>> /\ Head(s) = s[1]
  BY DEF Deliver, StoreInv, Shaped
<1>2. 1 \in DOMAIN s
  BY <1>1
<1>3. e \in [id : Ids[t], r : Resources \union {Nil}]
  BY <1>2 DEF StoreInv, Typed
<1>4. e.id \in Ids[t] /\ e.r \in Resources \union {Nil}
  BY <1>3
<1> DEFINE g == Changed(f, e.id, e.r)
<1>5. g \in MapsOver(t) /\ \A i : Status(g, i) = IF i = e.id THEN e.r ELSE Status(f, i)
  <2>1. f \in MapsOver(t)
    BY DEF StoreInv, Typed
  <2> HIDE DEF e, f
  <2> QED BY <1>4, <2>1, ChangedIs
<1>6. g \in Maps
  BY <1>5, OverIsMap
<1>7. view' = [view EXCEPT ![v][t] = g]
  BY <1>1 DEF Deliver, Changed
<1>8. feed' = [feed EXCEPT ![v][t] = Tail(s)] /\ etcd' = etcd
  BY DEF Deliver
<1>9. Tail(s) \in Seq(Changes)
  BY <1>1
<1> HIDE DEF g, s
<1>10. view \in [Viewers -> [Types -> Maps]] /\ feed \in [Viewers -> [Types -> Seq(Changes)]]
  BY DEF StoreInv, Shaped
<1>11. /\ view' \in [Viewers -> [Types -> Maps]] /\ view'[v][t] = g
       /\ \A w \in Viewers, u \in Types : (w # v \/ u # t) => view'[w][u] = view[w][u]
  BY <1>6, <1>7, <1>10
<1>12. /\ feed' \in [Viewers -> [Types -> Seq(Changes)]] /\ feed'[v][t] = Tail(s)
       /\ \A w \in Viewers, u \in Types : (w # v \/ u # t) => feed'[w][u] = feed[w][u]
  BY <1>8, <1>9, <1>10
<1> QED BY <1>1, <1>3, <1>5, <1>8, <1>11, <1>12 DEF s

LEMMA DeliverInv ==
    ASSUME StoreInv, NEW v \in Viewers, NEW t \in Types, Deliver(v, t)
    PROVE  StoreInv'
<1>1. /\ feed[v][t] # <<>> /\ feed[v][t][1] \in [id : Ids[t], r : Resources \union {Nil}]
      /\ view' \in [Viewers -> [Types -> Maps]] /\ view'[v][t] \in MapsOver(t)
      /\ feed' \in [Viewers -> [Types -> Seq(Changes)]] /\ feed'[v][t] = Tail(feed[v][t])
      /\ \A i : Status(view'[v][t], i) =
             IF i = feed[v][t][1].id THEN feed[v][t][1].r ELSE Status(view[v][t], i)
      /\ \A w \in Viewers, u \in Types : (w # v \/ u # t) =>
             view'[w][u] = view[w][u] /\ feed'[w][u] = feed[w][u]
      /\ etcd' = etcd
  BY DeliverIs
<1>2. ASSUME NEW w \in Viewers, NEW u \in Types
      PROVE  /\ Lags(view'[w][u], feed'[w][u], etcd'[u]) /\ view'[w][u] \in MapsOver(u)
             /\ \A k \in DOMAIN feed'[w][u] : feed'[w][u][k] \in [id : Ids[u], r : Resources \union {Nil}]
  <2>1. /\ Lags(view[w][u], feed[w][u], etcd[u]) /\ feed[w][u] \in Seq(Changes)
        /\ view[w][u] \in MapsOver(u)
        /\ \A k \in DOMAIN feed[w][u] : feed[w][u][k] \in [id : Ids[u], r : Resources \union {Nil}]
    BY DEF StoreInv, LagInv, Shaped, Typed
  <2>2. CASE w # v \/ u # t
    BY <1>1, <2>1, <2>2
  <2>3. CASE w = v /\ u = t
    <3> DEFINE s == feed[v][t]
               h == view'[v][t]
               R == [id : Ids[t], r : Resources \union {Nil}]
    <3>1. s \in Seq(Changes) /\ s # <<>> /\ Lags(view[v][t], s, etcd[t]) /\ feed'[w][u] = Tail(s)
          /\ \A k \in DOMAIN s : s[k] \in R
      BY <1>1, <2>1, <2>3
    <3>2. /\ Status(h, s[1].id) = s[1].r
          /\ \A id \in AllIds : id # s[1].id => Status(h, id) = Status(view[v][t], id)
      BY <1>1
    <3> HIDE DEF s, h, R
    <3>3. Lags(h, Tail(s), etcd[t])
      BY <3>1, <3>2, LagsDeliver
    <3>4. ASSUME NEW k \in DOMAIN Tail(s) PROVE Tail(s)[k] \in R
      <4>1. k + 1 \in DOMAIN s /\ Tail(s)[k] = s[k + 1]
        BY <3>1
      <4> QED BY <3>1, <4>1
    <3> QED BY <1>1, <2>3, <3>1, <3>3, <3>4 DEF h, R
  <2> QED BY <2>2, <2>3
<1>3. \A u \in Types : etcd'[u] \in MapsOver(u)
  BY <1>1 DEF StoreInv, Typed
<1>4. Typed'
  BY <1>2, <1>3 DEF Typed
<1>5. Shaped'
  BY <1>1 DEF StoreInv, Shaped
<1> QED BY <1>2, <1>4, <1>5 DEF StoreInv, LagInv

LEMMA FullSyncIs ==
    ASSUME StoreInv, NEW t \in Types, FullSync(t)
    PROVE  /\ view' \in [Viewers -> [Types -> Maps]] /\ view'["registry"][t] = etcd[t]
           /\ feed' \in [Viewers -> [Types -> Seq(Changes)]] /\ feed'["registry"][t] = <<>>
           /\ \A w \in Viewers, u \in Types : (w # "registry" \/ u # t) =>
                  view'[w][u] = view[w][u] /\ feed'[w][u] = feed[w][u]
           /\ etcd' = etcd
<1> DEFINE g == etcd[t]
           S == Seq(Changes)
<1>1. "registry" \in Viewers
  BY DEF Viewers
<1>2. g \in Maps /\ <<>> \in S
  BY DEF StoreInv, Shaped
<1>3. view' = [view EXCEPT !["registry"][t] = g] /\ feed' = [feed EXCEPT !["registry"][t] = <<>>]
      /\ etcd' = etcd
  BY DEF FullSync
<1>4. view \in [Viewers -> [Types -> Maps]] /\ feed \in [Viewers -> [Types -> S]]
  BY DEF StoreInv, Shaped
<1> HIDE DEF g, S
<1>5. /\ view' \in [Viewers -> [Types -> Maps]] /\ view'["registry"][t] = g
      /\ \A w \in Viewers, u \in Types : (w # "registry" \/ u # t) => view'[w][u] = view[w][u]
  BY <1>1, <1>2, <1>3, <1>4
<1>6. /\ feed' \in [Viewers -> [Types -> S]] /\ feed'["registry"][t] = <<>>
      /\ \A w \in Viewers, u \in Types : (w # "registry" \/ u # t) => feed'[w][u] = feed[w][u]
  BY <1>1, <1>2, <1>3, <1>4
<1> QED BY <1>3, <1>5, <1>6 DEF g, S

LEMMA FullSyncInv ==
    ASSUME StoreInv, NEW t \in Types, FullSync(t)
    PROVE  StoreInv'
<1>1. /\ view' \in [Viewers -> [Types -> Maps]] /\ view'["registry"][t] = etcd[t]
      /\ feed' \in [Viewers -> [Types -> Seq(Changes)]] /\ feed'["registry"][t] = <<>>
      /\ \A w \in Viewers, u \in Types : (w # "registry" \/ u # t) =>
             view'[w][u] = view[w][u] /\ feed'[w][u] = feed[w][u]
      /\ etcd' = etcd
  BY FullSyncIs
<1>2. ASSUME NEW w \in Viewers, NEW u \in Types
      PROVE  /\ Lags(view'[w][u], feed'[w][u], etcd'[u]) /\ view'[w][u] \in MapsOver(u)
             /\ \A k \in DOMAIN feed'[w][u] : feed'[w][u][k] \in [id : Ids[u], r : Resources \union {Nil}]
  <2>1. CASE w # "registry" \/ u # t
    BY <1>1, <2>1 DEF StoreInv, LagInv, Typed
  <2>2. CASE w = "registry" /\ u = t
    BY <1>1, <2>2, LagsSync DEF StoreInv, Typed
  <2> QED BY <2>1, <2>2
<1>3. Typed'
  BY <1>1, <1>2 DEF StoreInv, Typed
<1>4. Shaped'
  BY <1>1 DEF StoreInv, Shaped
<1> QED BY <1>2, <1>3, <1>4 DEF StoreInv, LagInv

LEMMA RestartIs ==
    ASSUME StoreInv, Restart
    PROVE  /\ view' \in [Viewers -> [Types -> Maps]]
           /\ feed' \in [Viewers -> [Types -> Seq(Changes)]]
           /\ \A u \in Types : view'["registry"][u] = etcd[u] /\ feed'["registry"][u] = <<>>
           /\ \A u \in Types : view'["dataplane"][u] = view["dataplane"][u]
                               /\ feed'["dataplane"][u] = feed["dataplane"][u]
           /\ etcd' = etcd
<1> DEFINE S == Seq(Changes)
           M == [Types -> Maps]
           none == [t \in Types |-> <<>>]
<1>1. <<>> \in S
  OBVIOUS
<1>2. view \in [Viewers -> M] /\ feed \in [Viewers -> [Types -> S]] /\ etcd \in M
  BY DEF StoreInv, Shaped
<1> HIDE DEF S
<1>3. none \in [Types -> S] /\ \A u \in Types : none[u] = <<>>
  BY <1>1
<1>4. view' = [view EXCEPT !["registry"] = etcd] /\ feed' = [feed EXCEPT !["registry"] = none]
      /\ etcd' = etcd
  BY DEF Restart
<1> HIDE DEF none, M
<1>5. view' \in [Viewers -> M] /\ view'["registry"] = etcd /\ view'["dataplane"] = view["dataplane"]
  BY <1>2, <1>4 DEF Viewers
<1>6. feed' \in [Viewers -> [Types -> S]] /\ feed'["registry"] = none
      /\ feed'["dataplane"] = feed["dataplane"]
  BY <1>2, <1>3, <1>4 DEF Viewers
<1> QED BY <1>3, <1>4, <1>5, <1>6 DEF S, M

LEMMA RestartInv == ASSUME StoreInv, Restart PROVE StoreInv'
<1>1. /\ view' \in [Viewers -> [Types -> Maps]]
      /\ feed' \in [Viewers -> [Types -> Seq(Changes)]]
      /\ \A u \in Types : view'["registry"][u] = etcd[u] /\ feed'["registry"][u] = <<>>
      /\ \A u \in Types : view'["dataplane"][u] = view["dataplane"][u]
                          /\ feed'["dataplane"][u] = feed["dataplane"][u]
      /\ etcd' = etcd
  BY RestartIs
<1>2. ASSUME NEW w \in Viewers, NEW u \in Types
      PROVE  /\ Lags(view'[w][u], feed'[w][u], etcd'[u]) /\ view'[w][u] \in MapsOver(u)
             /\ \A k \in DOMAIN feed'[w][u] : feed'[w][u][k] \in [id : Ids[u], r : Resources \union {Nil}]
  <2>1. CASE w = "registry"
    BY <1>1, <2>1, LagsSync DEF StoreInv, Typed
  <2>2. CASE w = "dataplane"
    BY <1>1, <2>2 DEF StoreInv, LagInv, Typed
  <2> QED BY <2>1, <2>2 DEF Viewers
<1>3. Typed'
  BY <1>1, <1>2 DEF StoreInv, Typed
<1>4. Shaped'
  BY <1>1 DEF StoreInv, Shaped
<1> QED BY <1>2, <1>3, <1>4 DEF StoreInv, LagInv

LEMMA QuietInv == ASSUME StoreInv, UNCHANGED <<etcd, view, feed>> PROVE StoreInv'
BY DEF StoreInv, Typed, Shaped, LagInv, Lags, Status

-----------------------------------------------------------------------------
(* The Alter in progress.                                                  *)
LEMMA PlanIs ==
    ASSUME NEW o \in Owners
    PROVE  /\ Len(PlanOf(o)) = IF o = Global THEN 2 ELSE 8
           /\ \A i \in 1..Len(PlanOf(o)) :
                /\ PlanOf(o)[i][1] \in {"put", "delete", "sleep"}
                /\ PlanOf(o)[i][1] # "sleep" => PlanOf(o)[i][2] \in Types
<1>1. CASE o = Global
  <2>1. PlanOf(o) = GlobalPlan /\ Len(GlobalPlan) = 2
    BY <1>1 DEF PlanOf, GlobalPlan
  <2>2. \A i \in 1..2 : i = 1 \/ i = 2
    OBVIOUS
  <2> QED BY <1>1, <2>1, <2>2 DEF GlobalPlan, Types, GlobalTypes
<1>2. CASE o # Global
  <2>1. PlanOf(o) = StagePlan /\ Len(StagePlan) = 8
    BY <1>2 DEF PlanOf, StagePlan
  <2>2. \A i \in 1..8 : i = 1 \/ i = 2 \/ i = 3 \/ i = 4 \/ i = 5 \/ i = 6 \/ i = 7 \/ i = 8
    OBVIOUS
  <2> QED BY <1>2, <2>1, <2>2 DEF StagePlan, Types, StageTypes
<1> QED BY <1>1, <1>2

LEMMA ConfIs ==
    ASSUME NEW o \in Owners, NEW c \in ConfigsOf(o), NEW t \in Types, NEW id \in DOMAIN c[t]
    PROVE  /\ id \in Ids[t] /\ OwnerOf[id] = o
           /\ c[t][id] \in Wanted
           /\ Cleared(t, c[t][id]) \in Resources /\ Cleared(t, c[t][id]).spec = c[t][id].spec
<1>1. id \in Ids[t] /\ OwnerOf[id] = o /\ c[t][id] = Resource(c[t][id].spec, c[t][id].meta)
  BY ConfigAssumption
<1>2. c[t][id] \in Wanted
  BY DEF Wanted
<1>3. Cleared(t, c[t][id]).spec = c[t][id].spec
  BY <1>1 DEF Cleared, Resource
<1> QED BY <1>1, <1>2, <1>3 DEF Resources

LEMMA CachedIs ==
    ASSUME StoreInv, NEW o
    PROVE  /\ Cached(o) # Nil
           /\ \A t \in Types :
                /\ DOMAIN Cached(o)[t] = {i \in DOMAIN view["registry"][t] : OwnerOf[i] = o}
                /\ DOMAIN Cached(o)[t] \subseteq Ids[t]
                /\ \A i \in DOMAIN Cached(o)[t] : /\ Cached(o)[t][i] = view["registry"][t][i]
                                                  /\ Cached(o)[t][i] \in Resources
<1>1. ASSUME NEW t \in Types
      PROVE  /\ DOMAIN Cached(o)[t] = {i \in DOMAIN view["registry"][t] : OwnerOf[i] = o}
             /\ DOMAIN Cached(o)[t] \subseteq Ids[t]
             /\ \A i \in DOMAIN Cached(o)[t] : /\ Cached(o)[t][i] = view["registry"][t][i]
                                               /\ Cached(o)[t][i] \in Resources
             /\ Cached(o)[t] \in MapsOver(t)
  <2> DEFINE f == view["registry"][t]
             D == {i \in DOMAIN f : OwnerOf[i] = o}
             g == Cached(o)[t]
  <2>1. f \in MapsOver(t)
    BY DEF StoreInv, Typed, Viewers
  <2>2. DOMAIN f \subseteq Ids[t] /\ \A i \in DOMAIN f : f[i] \in Resources
    BY <2>1, MapIs DEF MapsOver
  <2>3. g = [i \in D |-> f[i]]
    BY DEF Cached, Labelled
  <2>4. DOMAIN g = D /\ (\A i \in D : g[i] = f[i]) /\ g = [i \in DOMAIN g |-> g[i]]
    BY <2>3
  <2> HIDE DEF g
  <2>5. DOMAIN g \subseteq Ids[t] /\ \A i \in DOMAIN g : g[i] \in Resources
    BY <2>2, <2>4
  <2>6. g \in MapsOver(t)
    BY <2>4, <2>5, MapIs DEF MapsOver
  <2> QED BY <2>4, <2>5, <2>6 DEF g
<1>2. Cached(o) \in [Types -> UNION {MapsOver(t) : t \in Types}]
  <2>1. Cached(o) = [t \in Types |-> Cached(o)[t]]
    BY DEF Cached
  <2>2. \A t \in Types : Cached(o)[t] \in UNION {MapsOver(u) : u \in Types}
    BY <1>1
  <2> HIDE DEF Cached
  <2> QED BY <2>1, <2>2
<1> QED BY <1>1, <1>2, NilAssumption

(* What is to be written is wanted, what is to be removed is not.          *)
LEMMA BeginIs ==
    ASSUME StoreInv, NEW o \in Owners, NEW c \in ConfigsOf(o)
    PROVE  LET j == Begin(o, c) IN
           /\ j \in Jobs /\ j.owner = o /\ j.conf = c /\ j.i = 1
           /\ \A t \in Types :
                /\ DOMAIN j.put[t] = PutIds(t, Cached(o)[t], c[t])
                /\ \A id \in DOMAIN j.put[t] : id \in DOMAIN c[t] /\ j.put[t][id] = c[t][id]
                /\ DOMAIN j.del[t] = DOMAIN Cached(o)[t] \ DOMAIN c[t]
<1> DEFINE j == Begin(o, c)
           old == Cached(o)
<1>1. old # Nil /\ c # Nil
  BY CachedIs, NilAssumption
<1>2. /\ j = [owner |-> o, conf |-> c, i |-> 1, put |-> j.put, del |-> j.del]
      /\ j.owner = o /\ j.conf = c /\ j.i = 1
      /\ j.put = [t \in Types |-> DiffMapPut(t, old[t], c[t])]
      /\ j.del = [t \in Types |-> DiffMapDelete(t, old[t], c[t])]
  BY <1>1 DEF Begin, DiffPut, DiffDelete
<1>3. \A t \in Types : /\ DOMAIN old[t] \subseteq Ids[t]
                       /\ \A i \in DOMAIN old[t] : old[t][i] \in Resources
  BY CachedIs
<1> HIDE DEF j, old
<1>4. ASSUME NEW t \in Types
      PROVE  /\ DOMAIN j.put[t] = PutIds(t, old[t], c[t])
             /\ \A id \in DOMAIN j.put[t] : id \in DOMAIN c[t] /\ j.put[t][id] = c[t][id]
             /\ DOMAIN j.del[t] = DOMAIN old[t] \ DOMAIN c[t]
             /\ j.put[t] \in Plans /\ j.del[t] \in Plans
  <2>1. j.put[t] = [id \in PutIds(t, old[t], c[t]) |-> c[t][id]]
    BY <1>2 DEF DiffMapPut
  <2>2. j.del[t] = [id \in DOMAIN old[t] \ DOMAIN c[t] |-> old[t][id]]
    BY <1>2 DEF DiffMapDelete, DeleteIds
  <2>3. PutIds(t, old[t], c[t]) \subseteq DOMAIN c[t]
    BY DEF PutIds
  <2>4. \A id \in DOMAIN c[t] : id \in AllIds /\ c[t][id] \in Wanted
    BY ConfIs DEF AllIds
  <2> DEFINE p == j.put[t]
             d == j.del[t]
  <2>5. DOMAIN p = PutIds(t, old[t], c[t]) /\ (\A id \in DOMAIN p : p[id] = c[t][id])
        /\ p = [id \in DOMAIN p |-> p[id]]
    BY <2>1
  <2>6. DOMAIN d = DOMAIN old[t] \ DOMAIN c[t] /\ (\A id \in DOMAIN d : d[id] = old[t][id])
        /\ d = [id \in DOMAIN d |-> d[id]]
    BY <2>2
  <2> HIDE DEF p, d
  <2>7. DOMAIN p \subseteq AllIds /\ \A id \in DOMAIN p : p[id] \in Wanted \union Resources
    BY <2>3, <2>4, <2>5
  <2>8. p \in Plans
    BY <2>5, <2>7, MapIs DEF Plans
  <2>9. DOMAIN d \subseteq AllIds /\ \A id \in DOMAIN d : d[id] \in Wanted \union Resources
    BY <1>3, <2>6 DEF AllIds
  <2>10. d \in Plans
    BY <2>6, <2>9, MapIs DEF Plans
  <2> QED BY <2>3, <2>5, <2>6, <2>8, <2>10 DEF p, d
<1>5. j.put \in [Types -> Plans] /\ j.del \in [Types -> Plans]
  BY <1>2, <1>4
<1>6. c \in UNION {ConfigsOf(u) : u \in Owners}
  OBVIOUS
<1>7. j \in Jobs
  <2> DEFINE p == j.put
             d == j.del
             C == UNION {ConfigsOf(u) : u \in Owners}
             P == [Types -> Plans]
  <2>1. j = [owner |-> o, conf |-> c, i |-> 1, put |-> p, del |-> d]
    BY <1>2
  <2>2. p \in P /\ d \in P /\ c \in C
    BY <1>5, <1>6
  <2> HIDE DEF p, d, C, P
  <2>3. j \in [owner : Owners, conf : C, i : Nat, put : P, del : P]
    BY <2>1, <2>2
  <2> QED BY <2>3 DEF Jobs, C, P
<1> QED BY <1>2, <1>4, <1>7 DEF j, old

(* Begin starts a well-formed job.                                         *)
LEMMA BeginInv ==
    ASSUME StoreInv, NEW o \in Owners, NEW c \in ConfigsOf(o), job' = Begin(o, c)
    PROVE  JobOK' /\ JobInv'
<1>1. /\ job' \in Jobs /\ job'.owner = o /\ job'.conf = c /\ job'.i = 1
      /\ \A t \in Types :
           /\ \A id \in DOMAIN job'.put[t] : id \in DOMAIN c[t] /\ job'.put[t][id] = c[t][id]
           /\ DOMAIN job'.del[t] = DOMAIN Cached(o)[t] \ DOMAIN c[t]
  BY BeginIs
<1>2. \A t \in Types : /\ DOMAIN Cached(o)[t] \subseteq Ids[t]
                       /\ \A i \in DOMAIN Cached(o)[t] : OwnerOf[i] = o
  BY CachedIs
<1>3. 1 \in 1..Len(PlanOf(o)) + 1
  BY PlanIs
<1>4. JobOK'
  BY <1>1, <1>3 DEF JobOK
<1>5. \A j \in 1..job'.i - 1 : FALSE
  BY <1>1
<1>6. JobInv'
  BY <1>1, <1>2, <1>5 DEF JobInv
<1> QED BY <1>4, <1>6

(* The write or removal that a batch may do next.                          *)
Putting(t, id) ==
    /\ Active /\ t \in Types /\ id \in DOMAIN job.put[t]
    /\ Write(t, id, Cleared(t, job.put[t][id]))

Deleting(t, id) ==
    /\ Active /\ t \in Types /\ id \in DOMAIN job.del[t] /\ id \in DOMAIN etcd[t]
    /\ Write(t, id, Nil)

Same3 == UNCHANGED <<etcd, view, feed>>

LEMMA PhaseIs ==
    ASSUME JobOK, Active, ~Done
    PROVE  /\ job.owner \in Owners /\ job.i \in 1..Len(PlanOf(job.owner))
           /\ Phase[1] \in {"put", "delete", "sleep"}
           /\ Phase[1] # "sleep" => Phase[2] \in Types
<1>1. job.owner \in Owners /\ job.i \in 1..Len(PlanOf(job.owner)) + 1
  BY DEF JobOK, Jobs
<1>2. Len(PlanOf(job.owner)) \in Nat
  BY <1>1, PlanIs
<1>3. job.i \in 1..Len(PlanOf(job.owner))
  BY <1>1, <1>2 DEF Done
<1> QED BY <1>1, <1>3, PlanIs DEF Phase

LEMMA PutReady ==
    ASSUME JobOK, JobInv, Active, NEW t \in Types, NEW id \in DOMAIN job.put[t]
    PROVE  /\ id \in Ids[t] /\ OwnerOf[id] = job.owner /\ id \in DOMAIN job.conf[t]
           /\ job.put[t][id] = job.conf[t][id]
           /\ Cleared(t, job.put[t][id]) \in Resources /\ Cleared(t, job.put[t][id]) # Nil
           /\ Cleared(t, job.put[t][id]).spec = job.conf[t][id].spec
<1>1. id \in DOMAIN job.conf[t] /\ job.put[t][id] = job.conf[t][id]
  BY DEF JobInv
<1>2. job.owner \in Owners /\ job.conf \in ConfigsOf(job.owner)
  BY DEF JobOK, Jobs
<1> QED BY <1>1, <1>2, ConfIs, NilAssumption

LEMMA ApplyPutIs ==
    ASSUME Active, NEW t \in Types, NEW id \in DOMAIN job.put[t],
           Cleared(t, job.put[t][id]) # Nil, ApplyPut(t, id), UNCHANGED view
    PROVE  Putting(t, id)
BY DEF Putting, ApplyPut, Stored, Write, Changed

LEMMA ApplyDeleteIs ==
    ASSUME StoreInv, Active, NEW t \in Types, NEW id \in DOMAIN job.del[t],
           ApplyDelete(t, id), UNCHANGED view
    PROVE  Deleting(t, id) \/ Same3
<1>1. CASE id \in DOMAIN etcd[t]
  BY <1>1 DEF Deleting, ApplyDelete, Removed, Write, Changed
<1>2. CASE id \notin DOMAIN etcd[t]
  <2>1. etcd[t] = [i \in DOMAIN etcd[t] |-> etcd[t][i]]
    BY MapIs DEF StoreInv, Typed, MapsOver
  <2>2. WithoutId(etcd[t], id) = etcd[t]
    BY <1>2, <2>1 DEF WithoutId
  <2>3. etcd' = [etcd EXCEPT ![t] = etcd[t]]
    BY <2>2 DEF ApplyDelete, Removed
  <2>4. etcd' = etcd
    BY <2>3 DEF StoreInv, Shaped
  <2> QED BY <1>2, <2>4 DEF ApplyDelete, Same3
<1> QED BY <1>1, <1>2

(* What a step does to the store.                                          *)
LEMMA PutStep ==
    ASSUME IndInv, NEW id, PutResource(id) \/ FailPut(id)
    PROVE  /\ Active /\ ~Done /\ Phase[1] = "put" /\ Phase[2] \in Types
           /\ id \in DOMAIN job.put[Phase[2]]
           /\ Putting(Phase[2], id) \/ (FailPut(id) /\ Same3)
<1>1. Active /\ ~Done /\ Phase[1] = "put" /\ id \in DOMAIN job.put[Phase[2]] /\ view' = view
  BY DEF PutResource, FailPut
<1>2. Phase[2] \in Types
  BY <1>1, PhaseIs DEF IndInv
<1>3. Cleared(Phase[2], job.put[Phase[2]][id]) # Nil
  BY <1>1, <1>2, PutReady DEF IndInv
<1>4. ApplyPut(Phase[2], id) \/ (FailPut(id) /\ Same3)
  BY <1>1 DEF PutResource, FailPut, Same3
<1> QED BY <1>1, <1>2, <1>3, <1>4, ApplyPutIs

LEMMA DeleteStep ==
    ASSUME IndInv, NEW id, DeleteResource(id) \/ FailDelete(id)
    PROVE  /\ Active /\ ~Done /\ Phase[1] = "delete" /\ Phase[2] \in Types
           /\ id \in DOMAIN job.del[Phase[2]]
           /\ Deleting(Phase[2], id) \/ Same3
<1>1. Active /\ ~Done /\ Phase[1] = "delete" /\ id \in DOMAIN job.del[Phase[2]] /\ view' = view
  BY DEF DeleteResource, FailDelete
<1>2. Phase[2] \in Types
  BY <1>1, PhaseIs DEF IndInv
<1>3. ApplyDelete(Phase[2], id) \/ Same3
  BY <1>1 DEF DeleteResource, FailDelete, Same3
<1> QED BY <1>1, <1>2, <1>3, ApplyDeleteIs DEF IndInv

(* What a write does to the ids of etcd.                                   *)
LEMMA PuttingIs ==
    ASSUME IndInv, NEW t, NEW id, Putting(t, id)
    PROVE  /\ StoreInv'
           /\ \A u \in Types : /\ u # t => etcd'[u] = etcd[u]
                               /\ DOMAIN etcd[u] \subseteq DOMAIN etcd'[u]
                               /\ DOMAIN etcd'[u] \subseteq DOMAIN etcd[u] \union {id}
                               /\ \A i \in DOMAIN etcd[u] :
                                    (u # t \/ i # id) => etcd'[u][i] = etcd[u][i]
           /\ id \in DOMAIN etcd'[t] /\ etcd'[t][id] = Cleared(t, job.put[t][id])
<1> DEFINE r == Cleared(t, job.put[t][id])
<1>1. Active /\ t \in Types /\ id \in DOMAIN job.put[t] /\ Write(t, id, r)
  BY DEF Putting
<1>2. id \in Ids[t] /\ r \in Resources /\ r # Nil
  BY <1>1, PutReady DEF IndInv
<1> HIDE DEF r
<1>3. StoreInv'
  BY <1>1, <1>2, WriteInv DEF IndInv
<1>4. /\ \A u \in Types : u # t => etcd'[u] = etcd[u]
      /\ \A i : Status(etcd'[t], i) = IF i = id THEN r ELSE Status(etcd[t], i)
  <2>1. Typed /\ Shaped /\ r \in Resources \union {Nil}
    BY <1>2 DEF IndInv, StoreInv
  <2> QED BY <1>1, <1>2, <2>1, WriteIs
<1>5. \A u \in Types : etcd[u] \in Maps /\ etcd'[u] \in Maps
  BY <1>3 DEF IndInv, StoreInv, Shaped
<1>6. ASSUME NEW i, i # id
      PROVE  (i \in DOMAIN etcd[t] <=> i \in DOMAIN etcd'[t])
             /\ (i \in DOMAIN etcd[t] => etcd'[t][i] = etcd[t][i])
  BY <1>1, <1>4, <1>5, <1>6, StatusSame
<1>7. id \in DOMAIN etcd'[t] /\ etcd'[t][id] = r
  BY <1>1, <1>2, <1>4, <1>5, StatusIs
<1>8. ASSUME NEW u \in Types
      PROVE  /\ u # t => etcd'[u] = etcd[u]
             /\ DOMAIN etcd[u] \subseteq DOMAIN etcd'[u]
             /\ DOMAIN etcd'[u] \subseteq DOMAIN etcd[u] \union {id}
             /\ \A i \in DOMAIN etcd[u] : (u # t \/ i # id) => etcd'[u][i] = etcd[u][i]
  BY <1>4, <1>6, <1>7
<1> QED BY <1>3, <1>7, <1>8 DEF r

LEMMA DeletingIs ==
    ASSUME IndInv, NEW t, NEW id, Deleting(t, id)
    PROVE  /\ StoreInv'
           /\ \A u \in Types : /\ u # t => etcd'[u] = etcd[u]
                               /\ DOMAIN etcd'[u] \subseteq DOMAIN etcd[u]
                               /\ \A i \in DOMAIN etcd[u] :
                                    (u # t \/ i # id) => i \in DOMAIN etcd'[u] /\ etcd'[u][i] = etcd[u][i]
           /\ id \notin DOMAIN etcd'[t]
<1>1. Active /\ t \in Types /\ id \in DOMAIN job.del[t] /\ Write(t, id, Nil)
  BY DEF Deleting
<1>2. id \in Ids[t]
  BY <1>1 DEF IndInv, JobInv
<1>3. StoreInv'
  BY <1>1, <1>2, WriteInv DEF IndInv
<1>4. /\ \A u \in Types : u # t => etcd'[u] = etcd[u]
      /\ \A i : Status(etcd'[t], i) = IF i = id THEN Nil ELSE Status(etcd[t], i)
  <2>1. Typed /\ Shaped /\ Nil \in Resources \union {Nil}
    BY DEF IndInv, StoreInv
  <2> QED BY <1>1, <1>2, <2>1, WriteIs
<1>5. \A u \in Types : etcd[u] \in Maps /\ etcd'[u] \in Maps
  BY <1>3 DEF IndInv, StoreInv, Shaped
<1>6. ASSUME NEW i, i # id
      PROVE  (i \in DOMAIN etcd[t] <=> i \in DOMAIN etcd'[t])
             /\ (i \in DOMAIN etcd[t] => etcd'[t][i] = etcd[t][i])
  BY <1>1, <1>4, <1>5, <1>6, StatusSame
<1>7. id \notin DOMAIN etcd'[t]
  BY <1>1, <1>4, <1>5, StatusIs
<1>8. ASSUME NEW u \in Types
      PROVE  /\ u # t => etcd'[u] = etcd[u]
             /\ DOMAIN etcd'[u] \subseteq DOMAIN etcd[u]
             /\ \A i \in DOMAIN etcd[u] :
                  (u # t \/ i # id) => i \in DOMAIN etcd'[u] /\ etcd'[u][i] = etcd[u][i]
  BY <1>4, <1>6, <1>7
<1> QED BY <1>3, <1>7, <1>8

(* The built-in routes are in every configuration of the virtual stage.    *)
LEMMA BuiltinWanted ==
    ASSUME JobOK, Active, job.owner = VirtualStage, NEW id \in BuiltinRoutes
    PROVE  id \in DOMAIN job.conf["routes"] /\ job.conf["routes"][id] = Builtins[id]
<1>1. PICK f \in ExtraFiles : job.conf = MakeConfiguration(f)
  BY DEF JobOK, ConfigsOf, VirtualConfigs
<1> QED BY <1>1, BuiltinsAlways

LEMMA BuiltinPut ==
    ASSUME IndInv, NEW t, NEW id, Putting(t, id)
    PROVE  BuiltinInv'
<1> SUFFICES ASSUME NEW b \in BuiltinRoutes, b \in DOMAIN etcd'["routes"]
             PROVE  etcd'["routes"][b] = Cleared("routes", Builtins[b])'
  BY DEF BuiltinInv
<1>1. "routes" \in Types
  BY DEF Types, StageTypes
<1>2. Cleared("routes", Builtins[b])' = Cleared("routes", Builtins[b])
  OBVIOUS
<1>3. CASE t = "routes" /\ id = b
  <2>1. Active /\ id \in DOMAIN job.put[t] /\ t \in Types
    BY DEF Putting
  <2>2. OwnerOf[b] = VirtualStage
    BY OwnerAssumption
  <2>3. job.owner = VirtualStage /\ job.put[t][id] = job.conf[t][id]
    BY <1>3, <2>1, <2>2, PutReady DEF IndInv
  <2>4. job.conf[t][id] = Builtins[b]
    BY <1>3, <2>1, <2>3, BuiltinWanted DEF IndInv
  <2>5. etcd'[t][id] = Cleared(t, job.put[t][id])
    BY PuttingIs
  <2> QED BY <1>2, <1>3, <2>3, <2>4, <2>5
<1>4. CASE t # "routes" \/ id # b
  <2>1. b \in DOMAIN etcd["routes"] /\ etcd'["routes"][b] = etcd["routes"][b]
    BY <1>1, <1>4, PuttingIs
  <2> QED BY <1>2, <2>1 DEF IndInv, BuiltinInv
<1> QED BY <1>3, <1>4

LEMMA BuiltinDelete ==
    ASSUME IndInv, NEW t, NEW id, Deleting(t, id)
    PROVE  BuiltinInv'
<1> SUFFICES ASSUME NEW b \in BuiltinRoutes, b \in DOMAIN etcd'["routes"]
             PROVE  etcd'["routes"][b] = Cleared("routes", Builtins[b])'
  BY DEF BuiltinInv
<1>1. "routes" \in Types
  BY DEF Types, StageTypes
<1>2. b \in DOMAIN etcd["routes"] /\ etcd'["routes"][b] = etcd["routes"][b]
  BY <1>1, DeletingIs
<1> QED BY <1>2 DEF IndInv, BuiltinInv

LEMMA BuiltinSame == ASSUME IndInv, UNCHANGED etcd PROVE BuiltinInv'
BY DEF IndInv, BuiltinInv

(* What a batch takes off the job, and the step from one phase to another. *)
LEMMA PutTaken ==
    ASSUME IndInv, NEW id, PutResource(id)
    PROVE  /\ job' \in Jobs /\ job'.owner = job.owner /\ job'.conf = job.conf /\ job'.i = job.i
           /\ job'.del = job.del
           /\ \A t \in Types : /\ t # Phase[2] => job'.put[t] = job.put[t]
                               /\ DOMAIN job'.put[t] \subseteq DOMAIN job.put[t]
                               /\ \A i \in DOMAIN job'.put[t] : job'.put[t][i] = job.put[t][i]
           /\ DOMAIN job'.put[Phase[2]] = DOMAIN job.put[Phase[2]] \ {id}
<1> DEFINE p == Phase[2]
           g == WithoutId(job.put[p], id)
           C == UNION {ConfigsOf(o) : o \in Owners}
<1>1. Active /\ p \in Types
  BY PutStep
<1>2. job \in Jobs /\ job.put \in [Types -> Plans]
  BY <1>1 DEF IndInv, JobOK, Jobs
<1>3. g \in Plans
  BY <1>1, <1>2, MapWithout DEF Plans
<1>4. DOMAIN g = DOMAIN job.put[p] \ {id} /\ \A i \in DOMAIN g : g[i] = job.put[p][i]
  BY DEF WithoutId
<1>5. job' = [job EXCEPT !.put[p] = g]
  BY DEF PutResource
<1>6. job \in [owner : Owners, conf : C, i : Nat, put : [Types -> Plans], del : [Types -> Plans]]
  BY <1>2 DEF Jobs
<1> HIDE DEF g, C, p
<1>7. /\ job' \in [owner : Owners, conf : C, i : Nat, put : [Types -> Plans], del : [Types -> Plans]]
      /\ job'.owner = job.owner /\ job'.conf = job.conf /\ job'.i = job.i /\ job'.del = job.del
      /\ job'.put = [job.put EXCEPT ![p] = g]
  BY <1>1, <1>3, <1>5, <1>6
<1>8. job' \in Jobs
  BY <1>7 DEF Jobs, C
<1> QED BY <1>1, <1>2, <1>4, <1>7, <1>8 DEF p

LEMMA DeleteTaken ==
    ASSUME IndInv, NEW id, DeleteResource(id)
    PROVE  /\ job' \in Jobs /\ job'.owner = job.owner /\ job'.conf = job.conf /\ job'.i = job.i
           /\ job'.put = job.put
           /\ \A t \in Types : /\ t # Phase[2] => job'.del[t] = job.del[t]
                               /\ DOMAIN job'.del[t] \subseteq DOMAIN job.del[t]
                               /\ \A i \in DOMAIN job'.del[t] : job'.del[t][i] = job.del[t][i]
           /\ DOMAIN job'.del[Phase[2]] = DOMAIN job.del[Phase[2]] \ {id}
<1> DEFINE p == Phase[2]
           g == WithoutId(job.del[p], id)
           C == UNION {ConfigsOf(o) : o \in Owners}
<1>1. Active /\ p \in Types
  BY DeleteStep
<1>2. job \in Jobs /\ job.del \in [Types -> Plans]
  BY <1>1 DEF IndInv, JobOK, Jobs
<1>3. g \in Plans
  BY <1>1, <1>2, MapWithout DEF Plans
<1>4. DOMAIN g = DOMAIN job.del[p] \ {id} /\ \A i \in DOMAIN g : g[i] = job.del[p][i]
  BY DEF WithoutId
<1>5. job' = [job EXCEPT !.del[p] = g]
  BY DEF DeleteResource
<1>6. job \in [owner : Owners, conf : C, i : Nat, put : [Types -> Plans], del : [Types -> Plans]]
  BY <1>2 DEF Jobs
<1> HIDE DEF g, C, p
<1>7. /\ job' \in [owner : Owners, conf : C, i : Nat, put : [Types -> Plans], del : [Types -> Plans]]
      /\ job'.owner = job.owner /\ job'.conf = job.conf /\ job'.i = job.i /\ job'.put = job.put
      /\ job'.del = [job.del EXCEPT ![p] = g]
  BY <1>1, <1>3, <1>5, <1>6
<1>8. job' \in Jobs
  BY <1>7 DEF Jobs, C
<1> QED BY <1>1, <1>2, <1>4, <1>7, <1>8 DEF p

LEMMA NextPhaseIs ==
    ASSUME IndInv, NextPhase
    PROVE  /\ Active /\ job' \in Jobs /\ job'.owner = job.owner /\ job'.conf = job.conf
           /\ job'.i = job.i + 1 /\ job'.put = job.put /\ job'.del = job.del
           /\ PhaseDone(Phase) /\ job.i \in 1..Len(PlanOf(job.owner))
<1> DEFINE C == UNION {ConfigsOf(o) : o \in Owners}
           P == [Types -> Plans]
<1>1. Active /\ job' = [job EXCEPT !.i = @ + 1] /\ ~Done
  BY DEF NextPhase
<1>2. job \in [owner : Owners, conf : C, i : Nat, put : P, del : P]
  BY <1>1 DEF IndInv, JobOK, Jobs
<1> HIDE DEF C, P
<1>3. /\ job' \in [owner : Owners, conf : C, i : Nat, put : P, del : P]
      /\ job'.owner = job.owner /\ job'.conf = job.conf
      /\ job'.i = job.i + 1 /\ job'.put = job.put /\ job'.del = job.del
  BY <1>1, <1>2
<1>4. job' \in Jobs
  BY <1>3 DEF Jobs, C, P
<1>5. /\ Phase[1] \in {"put", "delete", "sleep"}
      /\ job.i \in 1..Len(PlanOf(job.owner))
  BY <1>1, PhaseIs DEF IndInv
<1>6. PhaseDone(Phase)
  <2>1. Phase[1] = "put" => DOMAIN job.put[Phase[2]] = {}
    BY DEF NextPhase, BatchDone
  <2>2. Phase[1] = "delete" => DOMAIN job.del[Phase[2]] = {}
    BY DEF NextPhase, BatchDone
  <2> QED BY <2>1, <2>2 DEF PhaseDone
<1> QED BY <1>1, <1>3, <1>4, <1>5, <1>6

LEMMA JobFewer ==
    ASSUME JobOK, JobInv, Active, job' \in Jobs,
           job'.owner = job.owner, job'.conf = job.conf, job'.i = job.i,
           \A t \in Types :
              /\ DOMAIN job'.put[t] \subseteq DOMAIN job.put[t]
              /\ \A i \in DOMAIN job'.put[t] : job'.put[t][i] = job.put[t][i]
              /\ DOMAIN job'.del[t] \subseteq DOMAIN job.del[t]
    PROVE  JobOK' /\ JobInv'
<1>1. JobOK'
  BY DEF JobOK
<1>2. job.owner \in Owners /\ job.i \in 1..Len(PlanOf(job.owner)) + 1
      /\ Len(PlanOf(job.owner)) \in Nat
  BY PlanIs DEF JobOK, Jobs
<1>3. ASSUME NEW j \in 1..job'.i - 1 PROVE PhaseDone(PlanOf(job.owner)[j])'
  <2> DEFINE p == PlanOf(job.owner)[j]
  <2>1. j \in 1..job.i - 1 /\ j \in 1..Len(PlanOf(job.owner))
    BY <1>2
  <2>2. PhaseDone(p) /\ (p[1] # "sleep" => p[2] \in Types)
    BY <1>2, <2>1, PlanIs DEF JobInv
  <2> HIDE DEF p
  <2>3. (p[1] = "put" => DOMAIN job'.put[p[2]] = {}) /\ (p[1] = "delete" => DOMAIN job'.del[p[2]] = {})
    BY <2>2 DEF PhaseDone
  <2> QED BY <2>3 DEF PhaseDone, p
<1>4. \A t \in Types : \A id \in DOMAIN job'.put[t] :
          id \in DOMAIN job'.conf[t] /\ job'.put[t][id] = job'.conf[t][id]
  BY DEF JobInv
<1>5. \A t \in Types : \A id \in DOMAIN job'.del[t] :
          id \in Ids[t] /\ OwnerOf[id] = job'.owner /\ id \notin DOMAIN job'.conf[t]
  BY DEF JobInv
<1>6. JobInv'
  BY <1>3, <1>4, <1>5 DEF JobInv
<1> QED BY <1>1, <1>6

LEMMA NextPhaseJob == ASSUME IndInv, NextPhase PROVE JobOK' /\ JobInv'
<1>1. /\ Active /\ job' \in Jobs /\ job'.owner = job.owner /\ job'.conf = job.conf
      /\ job'.i = job.i + 1 /\ job'.put = job.put /\ job'.del = job.del
      /\ PhaseDone(Phase) /\ job.i \in 1..Len(PlanOf(job.owner))
  BY NextPhaseIs
<1>2. Len(PlanOf(job.owner)) \in Nat
  BY <1>1, PlanIs DEF Jobs
<1>3. job'.i \in 1..Len(PlanOf(job'.owner)) + 1
  BY <1>1, <1>2
<1>4. JobOK'
  BY <1>1, <1>3 DEF IndInv, JobOK
<1>5. ASSUME NEW j \in 1..job'.i - 1 PROVE PhaseDone(PlanOf(job.owner)[j])'
  <2>1. j \in 1..job.i - 1 \/ j = job.i
    BY <1>1
  <2>2. PhaseDone(PlanOf(job.owner)[j])
    BY <1>1, <2>1 DEF IndInv, JobInv, Phase
  <2> QED BY <1>1, <2>2 DEF PhaseDone
<1>6. JobInv'
  BY <1>1, <1>5 DEF IndInv, JobInv
<1> QED BY <1>4, <1>6

-----------------------------------------------------------------------------
(* The inductive invariant, step by step.                                  *)
LEMMA InitInv == ASSUME Init PROVE IndInv
<1>1. /\ etcd = Nothing /\ view = [v \in Viewers |-> Nothing]
      /\ feed = [v \in Viewers |-> [t \in Types |-> <<>>]] /\ job = Nil
  BY DEF Init
<1>2. Nothing = [t \in Types |-> NoResources] /\ DOMAIN NoResources = {}
  BY DEF Nothing, NoResources
<1>3. NoResources \in Maps /\ \A t \in Types : NoResources \in MapsOver(t)
  BY MapNone DEF Maps, MapsOver
<1> HIDE DEF NoResources
<1>4. Nothing \in [Types -> Maps] /\ \A t \in Types : Nothing[t] = NoResources
  BY <1>2, <1>3
<1>5. <<>> \in Seq(Changes)
  OBVIOUS
<1>6. \A v \in Viewers, t \in Types : view[v][t] = NoResources /\ feed[v][t] = <<>>
  BY <1>1, <1>4
<1>7. Shaped
  BY <1>1, <1>4, <1>5 DEF Shaped
<1>8. Typed
  BY <1>1, <1>3, <1>4, <1>6 DEF Typed
<1>9. LagInv
  BY <1>1, <1>4, <1>6, LagsSync DEF LagInv
<1>10. BuiltinInv
  BY <1>1, <1>2, <1>4 DEF BuiltinInv, Types, StageTypes
<1> QED BY <1>1, <1>7, <1>8, <1>9, <1>10
        DEF Init, IndInv, StoreInv, JobOK, JobInv, Active, Counters

LEMMA NextInv == ASSUME IndInv, [Next]_vars PROVE IndInv'
<1>1. ASSUME NEW o \in Owners, NEW c \in ConfigsOf(o), Alter(o, c) PROVE IndInv'
  <2>1. Same3 /\ job' = Begin(o, c)
    BY <1>1 DEF Alter, Same3
  <2>2. StoreInv' /\ BuiltinInv'
    BY <2>1, QuietInv, BuiltinSame DEF IndInv, Same3
  <2>3. JobOK' /\ JobInv'
    BY <2>1, BeginInv DEF IndInv
  <2> QED BY <1>1, <2>2, <2>3 DEF IndInv, Counters, Alter
<1>2. ASSUME NEW id, PutResource(id) PROVE IndInv'
  <2>1. Putting(Phase[2], id)
    <3>1. ~FailPut(id) \/ Putting(Phase[2], id)
      BY <1>2 DEF PutResource, FailPut, IndInv, Counters
    <3> QED BY <1>2, <3>1, PutStep
  <2>2. StoreInv' /\ BuiltinInv'
    BY <2>1, PuttingIs, BuiltinPut
  <2>3. JobOK' /\ JobInv'
    <3>1. Active
      BY <1>2 DEF PutResource
    <3> QED BY <1>2, <3>1, PutTaken, JobFewer DEF IndInv
  <2> QED BY <1>2, <2>2, <2>3 DEF IndInv, Counters, PutResource
<1>3. ASSUME NEW id, DeleteResource(id) PROVE IndInv'
  <2>1. Deleting(Phase[2], id) \/ Same3
    BY <1>3, DeleteStep
  <2>2. StoreInv' /\ BuiltinInv'
    BY <2>1, DeletingIs, BuiltinDelete, QuietInv, BuiltinSame DEF IndInv, Same3
  <2>3. JobOK' /\ JobInv'
    <3>1. Active
      BY <1>3 DEF DeleteResource
    <3> QED BY <1>3, <3>1, DeleteTaken, JobFewer DEF IndInv
  <2> QED BY <1>3, <2>2, <2>3 DEF IndInv, Counters, DeleteResource
<1>4. ASSUME NEW id, FailPut(id) \/ FailDelete(id) PROVE IndInv'
  <2>1. Putting(Phase[2], id) \/ Deleting(Phase[2], id) \/ Same3
    BY <1>4, PutStep, DeleteStep
  <2>2. StoreInv' /\ BuiltinInv'
    BY <2>1, PuttingIs, BuiltinPut, DeletingIs, BuiltinDelete, QuietInv, BuiltinSame
       DEF IndInv, Same3
  <2>3. job' = Nil /\ failures' = failures + 1 /\ UNCHANGED <<alters, crashes>>
    BY <1>4 DEF FailPut, FailDelete
  <2>4. JobOK' /\ JobInv' /\ Counters'
    BY <2>3 DEF JobOK, JobInv, Active, IndInv, Counters
  <2> QED BY <2>2, <2>4 DEF IndInv
<1>5. CASE NextPhase
  <2>1. Same3 /\ UNCHANGED <<alters, failures, crashes>>
    BY <1>5 DEF NextPhase, Same3
  <2> QED BY <1>5, <2>1, NextPhaseJob, QuietInv, BuiltinSame DEF IndInv, Same3, Counters
<1>6. CASE Finish
  <2>1. Same3 /\ UNCHANGED <<alters, failures, crashes>>
    BY <1>6 DEF Finish, Same3
  <2>2. JobOK' /\ JobInv'
    <3>1. CASE job' = Nil
      BY <3>1 DEF JobOK, JobInv, Active
    <3>2. CASE \E c \in VirtualConfigs : job' = Begin(VirtualStage, c)
      <4>1. PICK c \in ConfigsOf(VirtualStage) : job' = Begin(VirtualStage, c)
        BY <3>2 DEF ConfigsOf
      <4>2. VirtualStage \in Owners
        BY VirtualAssumption DEF Owners
      <4> QED BY <4>1, <4>2, BeginInv DEF IndInv
    <3> QED BY <1>6, <3>1, <3>2 DEF Finish
  <2> QED BY <2>1, <2>2, QuietInv, BuiltinSame DEF IndInv, Same3, Counters
<1>7. ASSUME NEW v \in Viewers, NEW t \in Types, Deliver(v, t) PROVE IndInv'
  <2>1. UNCHANGED <<etcd, job, alters, failures, crashes>>
    BY <1>7 DEF Deliver
  <2> QED BY <1>7, <2>1, DeliverInv, BuiltinSame
          DEF IndInv, JobOK, JobInv, PhaseDone, Active, Counters
<1>8. ASSUME NEW t \in Types, FullSync(t) PROVE IndInv'
  <2>1. UNCHANGED <<etcd, job, alters, failures, crashes>>
    BY <1>8 DEF FullSync
  <2> QED BY <1>8, <2>1, FullSyncInv, BuiltinSame
          DEF IndInv, JobOK, JobInv, PhaseDone, Active, Counters
<1>9. CASE Restart
  <2>1. job' = Nil /\ crashes' = crashes + 1 /\ UNCHANGED <<etcd, alters, failures>>
    BY <1>9 DEF Restart
  <2> QED BY <1>9, <2>1, RestartInv, BuiltinSame DEF IndInv, JobOK, JobInv, Active, Counters
<1>10. CASE UNCHANGED vars
  BY <1>10, QuietInv, BuiltinSame DEF IndInv, JobOK, JobInv, PhaseDone, Active, Counters, vars
<1>11. \A o \in Owners \ {VirtualStage} : Configs[o] = ConfigsOf(o)
  BY DEF ConfigsOf
<1> QED BY <1>1, <1>2, <1>3, <1>4, <1>5, <1>6, <1>7, <1>8, <1>9, <1>10, <1>11 DEF Next

LEMMA InductiveInvariant == Spec => []IndInv
<1> QED BY InitInv, NextInv, PTL DEF Spec

-----------------------------------------------------------------------------
(* Every resource in etcd, in a view or on its way to one is one that some *)
(* commit asked for, under an id of its type, and the Alter in progress is *)
(* within the plan of its owner.                                           *)
THEOREM StoreTypeOK == Spec => []TypeOK
<1>1. IndInv => TypeOK
  BY DEF IndInv, StoreInv, Typed, JobOK, Jobs, Counters, TypeOK
<1> QED BY <1>1, InductiveInvariant, PTL

(* Who takes a resource out of etcd, and which.                            *)
LEMMA Removal ==
    ASSUME IndInv, [Next]_vars, NEW t \in Types, NEW id \in DOMAIN etcd[t] \ DOMAIN etcd'[t]
    PROVE  Active /\ OwnerOf[id] = job.owner /\ id \notin DOMAIN job.conf[t]
<1>1. ASSUME etcd' = etcd PROVE FALSE
  BY <1>1
<1>2. ASSUME NEW u, NEW i, Putting(u, i) PROVE FALSE
  BY <1>2, PuttingIs
<1>3. ASSUME NEW u, NEW i, Deleting(u, i)
      PROVE  Active /\ OwnerOf[id] = job.owner /\ id \notin DOMAIN job.conf[t]
  <2>1. u = t /\ i = id
    BY <1>3, DeletingIs
  <2>2. Active /\ id \in DOMAIN job.del[t]
    BY <1>3, <2>1 DEF Deleting
  <2> QED BY <2>2 DEF IndInv, JobInv
<1>4. ASSUME NEW i, PutResource(i) \/ FailPut(i) PROVE FALSE
  BY <1>1, <1>2, <1>4, PutStep DEF Same3
<1>5. ASSUME NEW i, DeleteResource(i) \/ FailDelete(i)
      PROVE  Active /\ OwnerOf[id] = job.owner /\ id \notin DOMAIN job.conf[t]
  BY <1>1, <1>3, <1>5, DeleteStep DEF Same3
<1>6. (\E o \in Owners \ {VirtualStage} : \E c \in Configs[o] : Alter(o, c)) \/ NextPhase \/ Finish
      \/ (\E v \in Viewers, u \in Types : Deliver(v, u)) \/ (\E u \in Types : FullSync(u))
      \/ Restart \/ UNCHANGED vars => etcd' = etcd
  BY DEF Alter, NextPhase, Finish, Deliver, FullSync, Restart, vars
<1> QED BY <1>1, <1>4, <1>5, <1>6 DEF Next

(* Nothing but an unwanted resource of the owner being altered is ever     *)
(* taken out of etcd, and a built-in route that is in etcd stays there as  *)
(* it is: whatever the cache holds, however far it lags, whatever fails.   *)
THEOREM StoreKeepsWanted == Spec => KeepsWanted
<1> DEFINE Unwanted == \A t \in Types : \A id \in DOMAIN etcd[t] \ DOMAIN etcd'[t] :
                           /\ Active
                           /\ OwnerOf[id] = job.owner
                           /\ id \notin DOMAIN job.conf[t]
           Stay == \A id \in BuiltinRoutes \intersect DOMAIN etcd["routes"] :
                       /\ id \in DOMAIN etcd'["routes"]
                       /\ etcd'["routes"][id] = Cleared("routes", Builtins[id])
<1>1. IndInv /\ [Next]_vars => Unwanted
  BY Removal
<1>2. ASSUME IndInv, [Next]_vars PROVE Stay
  <2> SUFFICES ASSUME NEW id \in BuiltinRoutes, id \in DOMAIN etcd["routes"]
               PROVE  id \in DOMAIN etcd'["routes"] /\ etcd'["routes"][id] = Cleared("routes", Builtins[id])
    OBVIOUS
  <2>1. "routes" \in Types
    BY DEF Types, StageTypes
  <2>2. OwnerOf[id] = VirtualStage
    BY OwnerAssumption
  <2>3. id \in DOMAIN etcd'["routes"]
    <3>1. SUFFICES ASSUME id \notin DOMAIN etcd'["routes"] PROVE FALSE
      OBVIOUS
    <3>2. Active /\ OwnerOf[id] = job.owner /\ id \notin DOMAIN job.conf["routes"]
      BY <1>2, <2>1, <3>1, Removal
    <3> QED BY <1>2, <2>2, <3>2, BuiltinWanted DEF IndInv
  <2>4. BuiltinInv'
    BY <1>2, NextInv DEF IndInv
  <2>5. etcd'["routes"][id] = Cleared("routes", Builtins[id])
    <3>1. Cleared("routes", Builtins[id])' = Cleared("routes", Builtins[id])
      OBVIOUS
    <3> QED BY <2>3, <2>4, <3>1 DEF BuiltinInv
  <2> QED BY <2>3, <2>5
<1>3. Spec => [][Unwanted]_vars
  BY <1>1, InductiveInvariant, PTL DEF Spec
<1>4. Spec => [][Stay]_vars
  BY <1>2, InductiveInvariant, PTL DEF Spec
<1> QED BY <1>3, <1>4, PTL DEF KeepsWanted, OnlyUnwantedGoes, BuiltinsStay

-----------------------------------------------------------------------------
(* A cache that has caught up when an Alter begins.                        *)
LEMMA CaughtUp ==
    ASSUME StoreInv, NEW v \in Viewers, NEW t \in Types, feed[v][t] = <<>>, NEW id \in Ids[t]
    PROVE  /\ id \in DOMAIN view[v][t] <=> id \in DOMAIN etcd[t]
           /\ id \in DOMAIN etcd[t] => view[v][t][id] = etcd[t][id]
<1>1. id \in AllIds
  BY DEF AllIds
<1>2. Lags(view[v][t], <<>>, etcd[t])
  BY DEF StoreInv, LagInv
<1>3. Status(view[v][t], id) = Status(etcd[t], id)
  BY <1>1, <1>2, LagsNone
<1>4. view[v][t] \in Maps /\ etcd[t] \in Maps
  BY DEF StoreInv, Shaped
<1> QED BY <1>3, <1>4, StatusSame

LEMMA EtcdIds == ASSUME StoreInv, NEW t \in Types, NEW id \in DOMAIN etcd[t] PROVE id \in Ids[t]
BY MapIs DEF StoreInv, Typed, MapsOver

LEMMA BeginTime ==
    ASSUME StoreInv, NEW o \in Owners, NEW c \in ConfigsOf(o), job' = Begin(o, c),
           etcd' = etcd, feed' = feed,
           \A t \in Types : feed["registry"][t] = <<>> \/ \A id \in Ids[t] : OwnerOf[id] # o,
           o = Global => \A t \in StageTypes : feed["registry"][t] = <<>>
    PROVE  TimeInv'
<1> DEFINE old == Cached(o)
<1>1. /\ job'.owner = o /\ job'.conf = c
      /\ \A t \in Types : /\ DOMAIN job'.put[t] = PutIds(t, old[t], c[t])
                          /\ DOMAIN job'.del[t] = DOMAIN old[t] \ DOMAIN c[t]
  BY BeginIs
<1>2. ASSUME NEW t \in Types, NEW id \in Ids[t], OwnerOf[id] = o
      PROVE  /\ id \in DOMAIN old[t] <=> id \in DOMAIN etcd[t]
             /\ id \in DOMAIN etcd[t] => old[t][id] = etcd[t][id]
  <2>1. feed["registry"][t] = <<>> /\ "registry" \in Viewers
    BY <1>2 DEF Viewers
  <2>2. /\ id \in DOMAIN view["registry"][t] <=> id \in DOMAIN etcd[t]
        /\ id \in DOMAIN etcd[t] => view["registry"][t][id] = etcd[t][id]
    BY <1>2, <2>1, CaughtUp
  <2> QED BY <1>2, <2>2, CachedIs
<1> HIDE DEF old
<1>3. ASSUME NEW t \in Types, NEW id \in DOMAIN c[t]
      PROVE  IF id \in PutIds(t, old[t], c[t])
             THEN (id \in DOMAIN etcd[t] /\ t \in {"routes", "services"}) =>
                      etcd[t][id].spec # c[t][id].spec
             ELSE id \in DOMAIN etcd[t] /\ etcd[t][id].spec = c[t][id].spec
  <2>1. id \in Ids[t] /\ OwnerOf[id] = o
    BY ConfIs
  <2> QED BY <1>2, <2>1 DEF PutIds, Same
<1>4. ASSUME NEW t \in Types, NEW id \in DOMAIN etcd[t], OwnerOf[id] = o, id \notin DOMAIN c[t]
      PROVE  id \in DOMAIN old[t] \ DOMAIN c[t]
  BY <1>2, <1>4, EtcdIds
<1> QED BY <1>1, <1>3, <1>4 DEF TimeInv, Agrees, Differs

LEMMA WriteElsewhere ==
    ASSUME StoreInv, NEW t, NEW id, NEW r, Write(t, id, r), NEW v \in Viewers, NEW u \in Types, u # t
    PROVE  feed'[v][u] = feed[v][u]
<1>1. feed[v] \in [Types -> Seq(Changes)]
  BY DEF StoreInv, Shaped
<1>2. feed'[v] = [feed[v] EXCEPT ![t] = Append(@, [id |-> id, r |-> r])]
  BY DEF Write, Emit
<1> QED BY <1>1, <1>2

(* A batch leaves its id as it is wanted.                                  *)
LEMMA PutTime ==
    ASSUME IndInv, TimeInv, NEW id, PutResource(id)
    PROVE  TimeInv'
<1> DEFINE t == Phase[2]
<1>1. Active /\ t \in Types /\ id \in DOMAIN job.put[t] /\ Putting(t, id)
  <2>1. ~FailPut(id) \/ Putting(t, id)
    BY DEF PutResource, FailPut, IndInv, Counters
  <2> QED BY <2>1, PutStep
<1>2. /\ \A u \in Types : /\ u # t => etcd'[u] = etcd[u]
                          /\ DOMAIN etcd[u] \subseteq DOMAIN etcd'[u]
                          /\ DOMAIN etcd'[u] \subseteq DOMAIN etcd[u] \union {id}
                          /\ \A i \in DOMAIN etcd[u] :
                               (u # t \/ i # id) => etcd'[u][i] = etcd[u][i]
      /\ id \in DOMAIN etcd'[t] /\ etcd'[t][id] = Cleared(t, job.put[t][id])
  BY <1>1, PuttingIs
<1>3. /\ id \in Ids[t] /\ OwnerOf[id] = job.owner /\ id \in DOMAIN job.conf[t]
      /\ Cleared(t, job.put[t][id]).spec = job.conf[t][id].spec
  BY <1>1, PutReady DEF IndInv
<1>4. /\ job'.owner = job.owner /\ job'.conf = job.conf /\ job'.del = job.del
      /\ \A u \in Types : u # t => job'.put[u] = job.put[u]
      /\ DOMAIN job'.put[t] = DOMAIN job.put[t] \ {id}
  BY PutTaken
<1>5. Write(t, id, Cleared(t, job.put[t][id]))
  BY <1>1 DEF Putting
<1> HIDE DEF t
<1>6. ASSUME NEW u \in Types, NEW i \in DOMAIN job'.conf[u]
      PROVE  IF i \in DOMAIN job'.put[u] THEN Differs(u, i)' ELSE Agrees(u, i)'
  <2>1. CASE u = t /\ i = id
    BY <1>2, <1>3, <1>4, <2>1 DEF Agrees
  <2>2. CASE u # t \/ i # id
    <3>1. (i \in DOMAIN job'.put[u] <=> i \in DOMAIN job.put[u]) /\ i \in DOMAIN job.conf[u]
      BY <1>4, <2>2
    <3>2. IF i \in DOMAIN job.put[u] THEN Differs(u, i) ELSE Agrees(u, i)
      BY <1>1, <3>1 DEF TimeInv
    <3>3. (i \in DOMAIN etcd'[u] <=> i \in DOMAIN etcd[u])
          /\ (i \in DOMAIN etcd[u] => etcd'[u][i] = etcd[u][i])
      BY <1>2, <2>2
    <3> QED BY <1>4, <3>1, <3>2, <3>3 DEF Agrees, Differs
  <2> QED BY <2>1, <2>2
<1>7. ASSUME NEW u \in Types, NEW i \in DOMAIN etcd'[u], OwnerOf[i] = job'.owner,
             i \notin DOMAIN job'.conf[u]
      PROVE  i \in DOMAIN job'.del[u]
  <2>1. u # t \/ i # id
    BY <1>3, <1>4, <1>7
  <2>2. i \in DOMAIN etcd[u]
    BY <1>2, <1>7, <2>1
  <2> QED BY <1>1, <1>4, <1>7, <2>2 DEF TimeInv
<1>8. ASSUME job'.owner = Global, NEW u \in StageTypes PROVE feed'["registry"][u] = <<>>
  <2>1. t \in GlobalTypes
    BY <1>1, <1>3, <1>4, <1>8, OwnerAssumption
  <2>2. u # t /\ u \in Types /\ "registry" \in Viewers
    BY <2>1 DEF StageTypes, GlobalTypes, Types, Viewers
  <2>3. feed'["registry"][u] = feed["registry"][u]
    BY <1>5, <2>2, WriteElsewhere DEF IndInv
  <2> QED BY <1>1, <1>4, <1>8, <2>3 DEF TimeInv
<1> QED BY <1>6, <1>7, <1>8 DEF TimeInv

LEMMA DeleteTime ==
    ASSUME IndInv, TimeInv, NEW id, DeleteResource(id)
    PROVE  TimeInv'
<1> DEFINE t == Phase[2]
<1>1. Active /\ t \in Types /\ id \in DOMAIN job.del[t] /\ (Deleting(t, id) \/ Same3)
  BY DeleteStep
<1>2. /\ \A u \in Types : /\ DOMAIN etcd'[u] \subseteq DOMAIN etcd[u]
                          /\ \A i \in DOMAIN etcd[u] :
                               (u # t \/ i # id) => i \in DOMAIN etcd'[u] /\ etcd'[u][i] = etcd[u][i]
      /\ id \notin DOMAIN etcd'[t]
  <2>1. CASE Deleting(t, id)
    BY <2>1, DeletingIs
  <2>2. CASE Same3
    <3>1. id \notin DOMAIN etcd[t]
      <4>1. etcd' = [etcd EXCEPT ![t] = WithoutId(etcd[t], id)]
        BY DEF DeleteResource, ApplyDelete, Removed
      <4>2. WithoutId(etcd[t], id) = etcd[t]
        BY <1>1, <2>2, <4>1 DEF Same3, IndInv, StoreInv, Shaped
      <4>3. DOMAIN WithoutId(etcd[t], id) = DOMAIN etcd[t] \ {id}
        BY DEF WithoutId
      <4> QED BY <4>2, <4>3
    <3> QED BY <2>2, <3>1 DEF Same3
  <2> QED BY <1>1, <2>1, <2>2
<1>3. /\ OwnerOf[id] = job.owner /\ id \in Ids[t] /\ id \notin DOMAIN job.conf[t]
  BY <1>1 DEF IndInv, JobInv
<1>4. /\ job'.owner = job.owner /\ job'.conf = job.conf /\ job'.put = job.put
      /\ \A u \in Types : u # t => job'.del[u] = job.del[u]
      /\ DOMAIN job'.del[t] = DOMAIN job.del[t] \ {id}
  BY DeleteTaken
<1>5. ASSUME Deleting(t, id) PROVE Write(t, id, Nil)
  BY <1>5 DEF Deleting
<1> HIDE DEF t
<1>6. ASSUME NEW u \in Types, NEW i \in DOMAIN job'.conf[u]
      PROVE  IF i \in DOMAIN job'.put[u] THEN Differs(u, i)' ELSE Agrees(u, i)'
  <2>1. u # t \/ i # id
    BY <1>3, <1>4, <1>6
  <2>2. IF i \in DOMAIN job.put[u] THEN Differs(u, i) ELSE Agrees(u, i)
    BY <1>1, <1>4, <1>6 DEF TimeInv
  <2>3. (i \in DOMAIN etcd'[u] <=> i \in DOMAIN etcd[u])
        /\ (i \in DOMAIN etcd[u] => etcd'[u][i] = etcd[u][i])
    BY <1>2, <2>1
  <2> QED BY <1>4, <2>2, <2>3 DEF Agrees, Differs
<1>7. ASSUME NEW u \in Types, NEW i \in DOMAIN etcd'[u], OwnerOf[i] = job'.owner,
             i \notin DOMAIN job'.conf[u]
      PROVE  i \in DOMAIN job'.del[u]
  <2>1. i \in DOMAIN etcd[u] /\ (u # t \/ i # id)
    BY <1>2, <1>7
  <2>2. i \in DOMAIN job.del[u]
    BY <1>1, <1>4, <1>7, <2>1 DEF TimeInv
  <2> QED BY <1>4, <2>1, <2>2
<1>8. ASSUME job'.owner = Global, NEW u \in StageTypes PROVE feed'["registry"][u] = <<>>
  <2>1. t \in GlobalTypes
    BY <1>1, <1>3, <1>4, <1>8, OwnerAssumption
  <2>2. u # t /\ u \in Types /\ "registry" \in Viewers
    BY <2>1 DEF StageTypes, GlobalTypes, Types, Viewers
  <2>3. feed'["registry"][u] = feed["registry"][u]
    <3>1. CASE Deleting(t, id)
      BY <1>5, <2>2, <3>1, WriteElsewhere DEF IndInv
    <3>2. CASE Same3
      BY <3>2 DEF Same3
    <3> QED BY <1>1, <3>1, <3>2
  <2> QED BY <1>1, <1>4, <1>8, <2>3 DEF TimeInv
<1> QED BY <1>6, <1>7, <1>8 DEF TimeInv

LEMMA KeepTime ==
    ASSUME TimeInv, etcd' = etcd, Active' => Active,
           Active' => job'.owner = job.owner /\ job'.conf = job.conf
                      /\ job'.put = job.put /\ job'.del = job.del,
           \A t \in StageTypes : feed["registry"][t] = <<>> => feed'["registry"][t] = <<>>
    PROVE  TimeInv'
<1> SUFFICES ASSUME Active'
             PROVE  TimeInv'
  BY DEF TimeInv
<1>1. Active /\ job'.owner = job.owner /\ job'.conf = job.conf
      /\ job'.put = job.put /\ job'.del = job.del
  OBVIOUS
<1>2. \A t \in Types : \A id \in DOMAIN job'.conf[t] :
          IF id \in DOMAIN job'.put[t] THEN Differs(t, id)' ELSE Agrees(t, id)'
  BY <1>1 DEF TimeInv, Differs, Agrees
<1>3. \A t \in Types : \A id \in DOMAIN etcd'[t] :
          (OwnerOf[id] = job'.owner /\ id \notin DOMAIN job'.conf[t]) => id \in DOMAIN job'.del[t]
  BY <1>1 DEF TimeInv
<1>4. job'.owner = Global => \A t \in StageTypes : feed'["registry"][t] = <<>>
  BY <1>1 DEF TimeInv
<1> QED BY <1>2, <1>3, <1>4 DEF TimeInv

LEMMA InitTime == ASSUME Init PROVE TimeInv
BY DEF Init, TimeInv, Active

LEMMA NextTime ==
    ASSUME RegistryInTime, IndInv, TimeInv, [Next]_vars
    PROVE  TimeInv'
<1>1. ASSUME NEW o \in Owners, NEW c \in ConfigsOf(o), Alter(o, c) PROVE TimeInv'
  <2>1. /\ job' = Begin(o, c) /\ etcd' = etcd /\ feed' = feed
        /\ \A t \in Types : feed["registry"][t] = <<>>
    BY <1>1 DEF Alter, Settled
  <2> QED BY <2>1, BeginTime DEF IndInv, Types
<1>2. ASSUME NEW id, FailPut(id) \/ FailDelete(id) PROVE TimeInv'
  <2>1. job' = Nil
    BY <1>2 DEF FailPut, FailDelete
  <2> QED BY <2>1 DEF TimeInv, Active
<1>3. CASE NextPhase
  BY <1>3, NextPhaseIs, KeepTime DEF NextPhase
<1>4. CASE Finish
  <2>1. CASE job' = Nil
    BY <2>1 DEF TimeInv, Active
  <2>2. CASE job.owner = Global /\ \E c \in VirtualConfigs : job' = Begin(VirtualStage, c)
    <3>1. PICK c \in ConfigsOf(VirtualStage) : job' = Begin(VirtualStage, c)
      BY <2>2 DEF ConfigsOf
    <3>2. VirtualStage \in Owners /\ VirtualStage # Global
      BY VirtualAssumption, GlobalAssumption DEF Owners
    <3>3. ASSUME NEW t \in Types
          PROVE  feed["registry"][t] = <<>> \/ \A id \in Ids[t] : OwnerOf[id] # VirtualStage
      <4>1. CASE t \in StageTypes
        BY <1>4, <2>2, <4>1 DEF TimeInv, Finish
      <4>2. CASE t \in GlobalTypes
        BY <3>2, <4>2, OwnerAssumption
      <4> QED BY <4>1, <4>2 DEF Types
    <3>4. etcd' = etcd /\ feed' = feed
      BY <1>4 DEF Finish
    <3> QED BY <3>1, <3>2, <3>3, <3>4, BeginTime DEF IndInv
  <2> QED BY <1>4, <2>1, <2>2 DEF Finish
<1>5. ASSUME NEW v \in Viewers, NEW t \in Types, Deliver(v, t) PROVE TimeInv'
  <2>1. UNCHANGED <<etcd, job>>
    BY <1>5 DEF Deliver
  <2>2. \A u \in Types : feed["registry"][u] = <<>> => feed'["registry"][u] = <<>>
    <3>1. /\ feed[v][t] # <<>>
          /\ \A w \in Viewers, u \in Types : (w # v \/ u # t) => feed'[w][u] = feed[w][u]
      BY <1>5, DeliverIs DEF IndInv
    <3> QED BY <3>1 DEF Viewers
  <2> QED BY <2>1, <2>2, KeepTime DEF Types, Active
<1>6. ASSUME NEW t \in Types, FullSync(t) PROVE TimeInv'
  <2>1. UNCHANGED <<etcd, job>>
    BY <1>6 DEF FullSync
  <2>2. \A u \in Types : feed["registry"][u] = <<>> => feed'["registry"][u] = <<>>
    BY <1>6, FullSyncIs DEF IndInv, Viewers
  <2> QED BY <2>1, <2>2, KeepTime DEF Types, Active
<1>7. CASE Restart
  BY <1>7 DEF Restart, TimeInv, Active
<1>8. CASE UNCHANGED vars
  BY <1>8, KeepTime DEF vars, Active
<1>9. \A o \in Owners \ {VirtualStage} : Configs[o] = ConfigsOf(o)
  BY DEF ConfigsOf
<1> QED BY <1>1, <1>2, <1>3, <1>4, <1>5, <1>6, <1>7, <1>8, <1>9, PutTime, DeleteTime DEF Next

LEMMA InTime == ASSUME RegistryInTime PROVE Spec => [](IndInv /\ TimeInv)
<1>1. Init => IndInv /\ TimeInv
  BY InitInv, InitTime
<1>2. (IndInv /\ TimeInv) /\ [Next]_vars => (IndInv /\ TimeInv)'
  BY NextInv, NextTime
<1> QED BY <1>1, <1>2, PTL DEF Spec

(* When the last phase is over there is nothing left to write or remove.   *)
LEMMA NothingLeft ==
    ASSUME IndInv, Active, Done, NEW t \in Types
    PROVE  DOMAIN job.put[t] = {} /\ DOMAIN job.del[t] = {}
<1>1. /\ job.owner \in Owners /\ job.i \in Nat /\ job.i > Len(PlanOf(job.owner))
      /\ \A j \in 1..job.i - 1 : PhaseDone(PlanOf(job.owner)[j])
  BY DEF IndInv, JobOK, JobInv, Jobs, Done
<1>2. \A id \in DOMAIN job.put[t] \union DOMAIN job.del[t] : id \in Ids[t] /\ OwnerOf[id] = job.owner
  BY PutReady DEF IndInv, JobInv
<1>3. job.owner = Global => t \in GlobalTypes \/ DOMAIN job.put[t] \union DOMAIN job.del[t] = {}
  BY <1>2, OwnerAssumption
<1>4. job.owner # Global => t \notin GlobalTypes \/ DOMAIN job.put[t] \union DOMAIN job.del[t] = {}
  BY <1>2, OwnerAssumption
<1>5. CASE job.owner = Global /\ t \in GlobalTypes
  <2>1. PlanOf(job.owner) = GlobalPlan /\ 1 \in 1..job.i - 1 /\ 2 \in 1..job.i - 1
    BY <1>1, <1>5, PlanIs DEF PlanOf
  <2>2. PhaseDone(GlobalPlan[1]) /\ PhaseDone(GlobalPlan[2])
    BY <1>1, <2>1
  <2> QED BY <1>5, <2>2 DEF PhaseDone, GlobalPlan, GlobalTypes
<1>6. CASE job.owner # Global /\ t \in StageTypes
  <2>1. PlanOf(job.owner) = StagePlan /\ \A j \in 1..8 : j \in 1..job.i - 1
    BY <1>1, <1>6, PlanIs DEF PlanOf
  <2>2. \A j \in 1..8 : PhaseDone(StagePlan[j])
    BY <1>1, <2>1
  <2>3. /\ PhaseDone(<<"put", "ssls">>) /\ PhaseDone(<<"put", "services">>)
        /\ PhaseDone(<<"put", "routes">>) /\ PhaseDone(<<"delete", "routes">>)
        /\ PhaseDone(<<"delete", "ssls">>) /\ PhaseDone(<<"delete", "services">>)
    BY <2>2 DEF StagePlan
  <2> QED BY <1>6, <2>3 DEF PhaseDone, StageTypes
<1> QED BY <1>3, <1>4, <1>5, <1>6 DEF Types

(* If the cache has caught up when an Alter begins, one that returns no    *)
(* error has brought the owner's resources in etcd to what was wanted.     *)
THEOREM StoreSuccessMeansApplied ==
    ASSUME RegistryInTime PROVE Spec => []SuccessMeansApplied
<1>1. ASSUME IndInv, TimeInv PROVE SuccessMeansApplied
  <2> SUFFICES ASSUME Active, Done, NEW t \in Types
               PROVE  SameSpecs(Mine(job.owner)[t], job.conf[t])
    BY DEF SuccessMeansApplied
  <2>1. DOMAIN job.put[t] = {} /\ DOMAIN job.del[t] = {}
    BY <1>1, NothingLeft
  <2>2. \A id \in DOMAIN job.conf[t] : Agrees(t, id)
    BY <1>1, <2>1 DEF TimeInv
  <2>3. \A id \in DOMAIN etcd[t] : OwnerOf[id] = job.owner => id \in DOMAIN job.conf[t]
    BY <1>1, <2>1 DEF TimeInv
  <2>4. \A id \in DOMAIN job.conf[t] : OwnerOf[id] = job.owner
    BY <1>1, ConfIs DEF IndInv, JobOK, Jobs
  <2> DEFINE m == Mine(job.owner)[t]
  <2>5. m = [id \in {i \in DOMAIN etcd[t] : OwnerOf[i] = job.owner} |-> etcd[t][id]]
    BY DEF Mine, Labelled
  <2>6. DOMAIN m = {i \in DOMAIN etcd[t] : OwnerOf[i] = job.owner}
        /\ \A id \in DOMAIN m : m[id] = etcd[t][id]
    BY <2>5
  <2> HIDE DEF m
  <2>7. DOMAIN m = DOMAIN job.conf[t]
    BY <2>2, <2>3, <2>4, <2>6 DEF Agrees
  <2>8. \A id \in DOMAIN m : m[id].spec = job.conf[t][id].spec
    BY <2>2, <2>6, <2>7 DEF Agrees
  <2> QED BY <2>7, <2>8 DEF SameSpecs, m
<1> QED BY <1>1, InTime, PTL

(* If the cache has caught up when an Alter begins, a write to the routes  *)
(* or the services is never one that APISIX need not have seen.            *)
THEOREM StoreNoNeedlessWrite ==
    ASSUME RegistryInTime PROVE Spec => NoNeedlessWrite
<1> DEFINE Needed ==
        \A t \in {"routes", "services"} :
            Len(feed'["registry"][t]) > Len(feed["registry"][t]) => etcd'[t] # etcd[t]
<1>1. ASSUME IndInv, TimeInv, [Next]_vars PROVE Needed
  <2> SUFFICES ASSUME NEW t \in {"routes", "services"},
                      Len(feed'["registry"][t]) > Len(feed["registry"][t]), etcd'[t] = etcd[t]
               PROVE  FALSE
    OBVIOUS
  <2>1. t \in Types /\ "registry" \in Viewers
    BY DEF Types, StageTypes, Viewers
  <2>2. feed["registry"][t] \in Seq(Changes) /\ Len(feed["registry"][t]) \in Nat
    BY <1>1, <2>1 DEF IndInv, StoreInv, Shaped
  <2>3. ASSUME feed'["registry"][t] = feed["registry"][t] PROVE FALSE
    BY <2>2, <2>3
  <2>4. ASSUME feed'["registry"][t] = <<>> PROVE FALSE
    BY <2>2, <2>4
  <2>5. ASSUME NEW u, NEW id, u # t, NEW r, u \in Types, Write(u, id, r) PROVE FALSE
    BY <1>1, <2>1, <2>3, <2>5, WriteElsewhere DEF IndInv
  <2>6. ASSUME NEW id, Putting(t, id) PROVE FALSE
    <3>1. Active /\ id \in DOMAIN job.put[t]
      BY <2>6 DEF Putting
    <3>2. id \in DOMAIN etcd'[t] /\ etcd'[t][id] = Cleared(t, job.put[t][id])
      BY <1>1, <2>6, PuttingIs
    <3>3. id \in DOMAIN job.conf[t] /\ Cleared(t, job.put[t][id]).spec = job.conf[t][id].spec
      BY <1>1, <2>1, <3>1, PutReady DEF IndInv
    <3>4. Differs(t, id)
      BY <1>1, <2>1, <3>1, <3>3 DEF TimeInv
    <3> QED BY <3>2, <3>3, <3>4 DEF Differs
  <2>7. ASSUME NEW id, Deleting(t, id) PROVE FALSE
    <3>1. id \in DOMAIN etcd[t]
      BY <2>7 DEF Deleting
    <3> QED BY <1>1, <2>7, <3>1, DeletingIs
  <2>8. ASSUME NEW id, PutResource(id) \/ FailPut(id) PROVE FALSE
    <3>1. Putting(Phase[2], id) \/ Same3
      BY <1>1, <2>8, PutStep
    <3> QED BY <2>3, <2>5, <2>6, <3>1 DEF Putting, Same3
  <2>9. ASSUME NEW id, DeleteResource(id) \/ FailDelete(id) PROVE FALSE
    <3>1. Deleting(Phase[2], id) \/ Same3
      BY <1>1, <2>9, DeleteStep
    <3> QED BY <2>3, <2>5, <2>7, <3>1 DEF Deleting, Same3
  <2>10. ASSUME NEW v \in Viewers, NEW u \in Types, Deliver(v, u) PROVE FALSE
    <3>1. /\ feed[v][u] # <<>> /\ feed'[v][u] = Tail(feed[v][u])
          /\ \A w \in Viewers, x \in Types : (w # v \/ x # u) => feed'[w][x] = feed[w][x]
      BY <1>1, <2>10, DeliverIs DEF IndInv
    <3>2. CASE v = "registry" /\ u = t
      <4> DEFINE s == feed["registry"][t]
      <4>1. s \in Seq(Changes) /\ s # <<>> /\ Len(feed'["registry"][t]) = Len(Tail(s))
        BY <2>2, <3>1, <3>2
      <4> HIDE DEF s
      <4>2. Len(Tail(s)) < Len(s)
        BY <4>1
      <4>3. Len(Tail(s)) > Len(s)
        BY <4>1 DEF s
      <4> QED BY <4>1, <4>2, <4>3
    <3>3. CASE v # "registry" \/ u # t
      BY <2>1, <2>3, <3>1, <3>3
    <3> QED BY <3>2, <3>3
  <2>11. ASSUME NEW u \in Types, FullSync(u) PROVE FALSE
    <3>1. /\ feed'["registry"][u] = <<>>
          /\ u # t => feed'["registry"][t] = feed["registry"][t]
      BY <1>1, <2>1, <2>11, FullSyncIs DEF IndInv
    <3> QED BY <2>3, <2>4, <3>1
  <2>12. CASE Restart
    BY <1>1, <2>1, <2>4, <2>12, RestartIs DEF IndInv
  <2>13. (\E o \in Owners \ {VirtualStage} : \E c \in Configs[o] : Alter(o, c))
         \/ NextPhase \/ Finish \/ UNCHANGED vars => feed' = feed
    BY DEF Alter, NextPhase, Finish, vars
  <2> QED BY <1>1, <2>3, <2>8, <2>9, <2>10, <2>11, <2>12, <2>13 DEF Next
<1> QED BY <1>1, InTime, PTL DEF Spec, NoNeedlessWrite

-----------------------------------------------------------------------------
(* Routes and the services they name.                                      *)
LEMMA TypeNames ==
    "routes" \in Types /\ "services" \in Types /\ "dataplane" \in Viewers /\ "registry" \in Viewers
    /\ "routes" # "services"
BY DEF Types, StageTypes, Viewers

LEMMA StaysWrite ==
    ASSUME StoreInv, NEW t \in Types, NEW id \in Ids[t], NEW r \in Resources \union {Nil},
           Write(t, id, r), NEW s, Stays(s), t # "services" \/ id # s \/ r # Nil
    PROVE  Stays(s)'
<1> DEFINE f == feed["dataplane"]["services"]
           e == [id |-> id, r |-> r]
<1>1. /\ e \in Changes
      /\ t = "services" => feed'["dataplane"]["services"] = Append(f, e)
      /\ t # "services" => feed'["dataplane"]["services"] = f
      /\ view' = view
  BY WriteIs, TypeNames DEF StoreInv
<1>2. f \in Seq(Changes)
  BY TypeNames DEF StoreInv, Shaped
<1>3. e.id = id /\ e.r = r
  OBVIOUS
<1>4. \A k \in 1..Len(f) : f[k].id = s => f[k].r # Nil
  BY DEF Stays
<1> HIDE DEF f, e
<1>5. CASE t # "services"
  BY <1>1, <1>4, <1>5 DEF Stays
<1>6. CASE t = "services"
  <2>1. e.id = s => e.r # Nil
    BY <1>3, <1>6
  <2>2. \A k \in 1..Len(Append(f, e)) : Append(f, e)[k].id = s => Append(f, e)[k].r # Nil
    BY <1>1, <1>2, <1>4, <2>1
  <2> QED BY <1>1, <1>6, <2>2 DEF Stays
<1> QED BY <1>5, <1>6

LEMMA StaysDeliver ==
    ASSUME StoreInv, NEW v \in Viewers, NEW t \in Types, Deliver(v, t), NEW s, Stays(s)
    PROVE  Stays(s)'
<1> DEFINE f == feed["dataplane"]["services"]
           g == view["dataplane"]["services"]
           h == view'["dataplane"]["services"]
<1>1. /\ feed[v][t] # <<>>
      /\ feed'[v][t] = Tail(feed[v][t])
      /\ \A i : Status(view'[v][t], i) =
             IF i = feed[v][t][1].id THEN feed[v][t][1].r ELSE Status(view[v][t], i)
      /\ \A w \in Viewers, u \in Types : (w # v \/ u # t) =>
             view'[w][u] = view[w][u] /\ feed'[w][u] = feed[w][u]
      /\ view' \in [Viewers -> [Types -> Maps]]
  BY DeliverIs
<1>2. CASE v # "dataplane" \/ t # "services"
  BY <1>1, <1>2, TypeNames DEF Stays
<1>3. CASE v = "dataplane" /\ t = "services"
  <2>1. /\ f \in Seq(Changes) /\ f # <<>> /\ feed'["dataplane"]["services"] = Tail(f)
        /\ Status(h, s) = IF s = f[1].id THEN f[1].r ELSE Status(g, s)
        /\ g \in Maps /\ h \in Maps
    BY <1>1, <1>3, TypeNames DEF StoreInv, Shaped
  <2>2. s \in DOMAIN g /\ \A k \in 1..Len(f) : f[k].id = s => f[k].r # Nil
    BY DEF Stays
  <2> HIDE DEF f, g, h
  <2>3. 1 \in 1..Len(f)
    BY <2>1
  <2>4. Status(g, s) # Nil
    BY <2>1, <2>2, StatusIs
  <2>5. Status(h, s) # Nil
    BY <2>1, <2>2, <2>3, <2>4
  <2>6. s \in DOMAIN h
    BY <2>1, <2>5, StatusIs
  <2>7. \A k \in 1..Len(Tail(f)) : Tail(f)[k].id = s => Tail(f)[k].r # Nil
    <3>1. \A k \in 1..Len(Tail(f)) : k + 1 \in 1..Len(f) /\ Tail(f)[k] = f[k + 1]
      BY <2>1
    <3> QED BY <2>2, <3>1
  <2> QED BY <2>1, <2>6, <2>7 DEF Stays, h
<1> QED BY <1>2, <1>3

LEMMA NamedWrite ==
    ASSUME StoreInv, NEW t \in Types, NEW id \in Ids[t], NEW r \in Resources \union {Nil},
           Write(t, id, r), NEW s, Named(s)'
    PROVE  Named(s) \/ (t = "routes" /\ Names(r, s))
<1> DEFINE f == feed["dataplane"]["routes"]
           e == [id |-> id, r |-> r]
<1>1. /\ etcd' \in [Types -> Maps]
      /\ \A u \in Types : u # t => etcd'[u] = etcd[u]
      /\ \A i : Status(etcd'[t], i) = IF i = id THEN r ELSE Status(etcd[t], i)
      /\ e \in Changes
      /\ t = "routes" => feed'["dataplane"]["routes"] = Append(f, e)
      /\ t # "routes" => feed'["dataplane"]["routes"] = f
      /\ view' = view
  <2>1. Typed /\ Shaped
    BY DEF StoreInv
  <2>2. /\ \A v \in Viewers : feed'[v][t] = Append(feed[v][t], e)
        /\ \A v \in Viewers, u \in Types : u # t => feed'[v][u] = feed[v][u]
    BY <2>1, WriteIs
  <2>3. /\ t = "routes" => feed'["dataplane"]["routes"] = Append(f, e)
        /\ t # "routes" => feed'["dataplane"]["routes"] = f
    BY <2>2, TypeNames
  <2> QED BY <2>1, <2>3, WriteIs
<1>2. f \in Seq(Changes) /\ \A u \in Types : etcd[u] \in Maps /\ etcd'[u] \in Maps
  BY <1>1, TypeNames DEF StoreInv, Shaped
<1>3. e.r = r
  OBVIOUS
<1> HIDE DEF f, e
<1>4. CASE \E i \in DOMAIN etcd'["routes"] : Names(etcd'["routes"][i], s)
  <2>1. PICK i \in DOMAIN etcd'["routes"] : Names(etcd'["routes"][i], s)
    BY <1>4
  <2>2. CASE t # "routes"
    BY <1>1, <2>1, <2>2, TypeNames DEF Named
  <2>3. CASE t = "routes" /\ i = id
    <3>1. Status(etcd'[t], i) = etcd'[t][i]
      BY <1>2, <2>1, <2>3, StatusIs
    <3> QED BY <1>1, <2>1, <2>3, <3>1
  <2>4. CASE t = "routes" /\ i # id
    <3>1. Status(etcd[t], i) = Status(etcd'[t], i)
      BY <1>1, <2>4
    <3>2. i \in DOMAIN etcd[t] /\ etcd'[t][i] = etcd[t][i]
      BY <1>2, <2>1, <2>4, <3>1, StatusSame
    <3> QED BY <2>1, <2>4, <3>2 DEF Named
  <2> QED BY <2>2, <2>3, <2>4
<1>5. CASE \E i \in DOMAIN view'["dataplane"]["routes"] : Names(view'["dataplane"]["routes"][i], s)
  BY <1>1, <1>5 DEF Named
<1>6. CASE \E k \in 1..Len(feed'["dataplane"]["routes"]) : Names(feed'["dataplane"]["routes"][k].r, s)
  <2>1. CASE t # "routes"
    BY <1>1, <1>6, <2>1 DEF Named, f
  <2>2. CASE t = "routes"
    <3>1. PICK k \in 1..Len(Append(f, e)) : Names(Append(f, e)[k].r, s)
      BY <1>1, <1>6, <2>2
    <3>2. CASE k = Len(f) + 1
      <4>1. Append(f, e)[k] = e
        BY <1>1, <1>2, <3>2
      <4> QED BY <1>3, <2>2, <3>1, <4>1
    <3>3. CASE k # Len(f) + 1
      <4>1. k \in 1..Len(f) /\ Append(f, e)[k] = f[k]
        BY <1>1, <1>2, <3>1, <3>3
      <4> QED BY <3>1, <4>1 DEF Named, f
    <3> QED BY <3>2, <3>3
  <2> QED BY <2>1, <2>2
<1> QED BY <1>4, <1>5, <1>6 DEF Named

LEMMA NamedDeliver ==
    ASSUME StoreInv, NEW v \in Viewers, NEW t \in Types, Deliver(v, t), NEW s, Named(s)'
    PROVE  Named(s)
<1> DEFINE f == feed["dataplane"]["routes"]
           g == view["dataplane"]["routes"]
           h == view'["dataplane"]["routes"]
<1>1. /\ feed[v][t] # <<>>
      /\ feed'[v][t] = Tail(feed[v][t])
      /\ \A i : Status(view'[v][t], i) =
             IF i = feed[v][t][1].id THEN feed[v][t][1].r ELSE Status(view[v][t], i)
      /\ \A w \in Viewers, u \in Types : (w # v \/ u # t) =>
             view'[w][u] = view[w][u] /\ feed'[w][u] = feed[w][u]
      /\ view' \in [Viewers -> [Types -> Maps]]
      /\ etcd' = etcd
  BY DeliverIs
<1>2. CASE v # "dataplane" \/ t # "routes"
  BY <1>1, <1>2, TypeNames DEF Named
<1>3. CASE v = "dataplane" /\ t = "routes"
  <2>1. /\ f \in Seq(Changes) /\ f # <<>> /\ feed'["dataplane"]["routes"] = Tail(f)
        /\ \A i : Status(h, i) = IF i = f[1].id THEN f[1].r ELSE Status(g, i)
        /\ g \in Maps /\ h \in Maps
    BY <1>1, <1>3, TypeNames DEF StoreInv, Shaped
  <2>2. /\ (\E k \in 1..Len(f) : Names(f[k].r, s)) => Named(s)
        /\ (\E i \in DOMAIN g : Names(g[i], s)) => Named(s)
        /\ (\E i \in DOMAIN etcd["routes"] : Names(etcd["routes"][i], s)) => Named(s)
    BY DEF Named
  <2>3. \/ \E i \in DOMAIN etcd["routes"] : Names(etcd["routes"][i], s)
        \/ \E i \in DOMAIN h : Names(h[i], s)
        \/ \E k \in 1..Len(Tail(f)) : Names(Tail(f)[k].r, s)
    BY <1>1, <2>1 DEF Named
  <2> HIDE DEF f, g, h
  <2>4. 1 \in 1..Len(f)
    BY <2>1
  <2>5. ASSUME NEW i \in DOMAIN h, Names(h[i], s) PROVE Named(s)
    <3>1. Status(h, i) = h[i]
      BY <2>1, <2>5, StatusIs
    <3>2. CASE i = f[1].id
      BY <2>1, <2>2, <2>4, <2>5, <3>1, <3>2
    <3>3. CASE i # f[1].id
      <4>1. Status(g, i) = Status(h, i)
        BY <2>1, <3>3
      <4>2. i \in DOMAIN g /\ g[i] = h[i]
        BY <2>1, <4>1, StatusSame
      <4> QED BY <2>2, <2>5, <4>2
    <3> QED BY <3>2, <3>3
  <2>6. ASSUME NEW k \in 1..Len(Tail(f)), Names(Tail(f)[k].r, s) PROVE Named(s)
    <3>1. k + 1 \in 1..Len(f) /\ Tail(f)[k] = f[k + 1]
      BY <2>1
    <3> QED BY <2>2, <2>6, <3>1
  <2> QED BY <2>2, <2>3, <2>5, <2>6
<1> QED BY <1>2, <1>3

(* Which phase a batch or an interval belongs to.                          *)
LEMMA StagePhases ==
    ASSUME IndInv, Active, ~Done, job.owner # Global
    PROVE  /\ Phase = StagePlan[job.i] /\ job.i \in 1..8
           /\ Phase[1] = "put" /\ Phase[2] = "routes" => job.i = 4
           /\ Phase[1] = "delete" /\ Phase[2] = "services" => job.i = 8
           /\ job.i = 3 => Phase = <<"sleep", "put">>
           /\ job.i = 7 => Phase = <<"sleep", "delete">>
           /\ job.i > 7 => Phase = <<"delete", "services">>
<1>1. Phase = StagePlan[job.i] /\ job.i \in 1..8
  BY PhaseIs, PlanIs DEF IndInv, Phase, PlanOf
<1>2. \/ job.i = 1 \/ job.i = 2 \/ job.i = 3 \/ job.i = 4
      \/ job.i = 5 \/ job.i = 6 \/ job.i = 7 \/ job.i = 8
  BY <1>1
<1> QED BY <1>1, <1>2 DEF StagePlan

LEMMA StageDone ==
    ASSUME IndInv, Active, job.owner # Global
    PROVE  /\ job.i > 2 => DOMAIN job.put["services"] = {}
           /\ job.i > 4 => DOMAIN job.put["routes"] = {}
           /\ job.i > 5 => DOMAIN job.del["routes"] = {}
<1>1. /\ job.i \in Nat
      /\ \A j \in 1..job.i - 1 : PhaseDone(StagePlan[j])
  BY DEF IndInv, JobOK, JobInv, Jobs, PlanOf
<1>2. ASSUME job.i > 2 PROVE DOMAIN job.put["services"] = {}
  <2>1. PhaseDone(StagePlan[2])
    BY <1>1, <1>2
  <2> QED BY <2>1 DEF PhaseDone, StagePlan
<1>3. ASSUME job.i > 4 PROVE DOMAIN job.put["routes"] = {}
  <2>1. PhaseDone(StagePlan[4])
    BY <1>1, <1>3
  <2> QED BY <2>1 DEF PhaseDone, StagePlan
<1>4. ASSUME job.i > 5 PROVE DOMAIN job.del["routes"] = {}
  <2>1. PhaseDone(StagePlan[5])
    BY <1>1, <1>4
  <2> QED BY <2>1 DEF PhaseDone, StagePlan
<1> QED BY <1>2, <1>3, <1>4

(* Resources of routes and services belong to stages.                      *)
LEMMA StageOwned ==
    ASSUME NEW t \in {"routes", "services"}, NEW id \in Ids[t]
    PROVE  OwnerOf[id] # Global
<1>1. t \in Types /\ t \notin GlobalTypes
  BY DEF Types, StageTypes, GlobalTypes
<1> QED BY <1>1, OwnerAssumption

(* A route that is written names a service that has arrived.               *)
LEMMA PutRef ==
    ASSUME IndInv, RefInv, SleepInv, NEW t, NEW id, Putting(t, id),
           ~Done, Phase[1] = "put", Phase[2] = t
    PROVE  RefInv'
<1> DEFINE r == Cleared(t, job.put[t][id])
<1>1. Active /\ t \in Types /\ id \in DOMAIN job.put[t] /\ Write(t, id, r) /\ StoreInv
  BY DEF Putting, IndInv
<1>2. /\ id \in Ids[t] /\ OwnerOf[id] = job.owner /\ id \in DOMAIN job.conf[t]
      /\ r \in Resources /\ r # Nil /\ r.spec = job.conf[t][id].spec
  BY <1>1, PutReady DEF IndInv
<1>3. /\ \A u \in Types : /\ u # t => etcd'[u] = etcd[u]
                          /\ DOMAIN etcd[u] \subseteq DOMAIN etcd'[u]
                          /\ DOMAIN etcd'[u] \subseteq DOMAIN etcd[u] \union {id}
                          /\ \A i \in DOMAIN etcd[u] :
                               (u # t \/ i # id) => etcd'[u][i] = etcd[u][i]
      /\ id \in DOMAIN etcd'[t] /\ etcd'[t][id] = r
  BY PuttingIs
<1>4. job.owner \in Owners /\ job.conf \in ConfigsOf(job.owner)
  BY <1>1 DEF IndInv, JobOK, Jobs
<1> HIDE DEF r
<1>5. ASSUME t = "routes", r.spec \in Ids["services"]
      PROVE  /\ OwnerOf[r.spec] = job.owner
             /\ r.spec \in DOMAIN etcd["services"] /\ Stays(r.spec)
  <2>1. r.spec \in DOMAIN job.conf["services"]
    BY <1>2, <1>4, <1>5, ConfigAssumption
  <2>2. OwnerOf[r.spec] = job.owner
    BY <1>4, <2>1, ConfIs, TypeNames
  <2>3. job.owner # Global
    BY <1>2, <1>5, StageOwned
  <2>4. job.i = 4
    BY <1>1, <1>5, <2>3, StagePhases
  <2> QED BY <1>1, <2>1, <2>2, <2>3, <2>4 DEF SleepInv
<1>6. ASSUME NEW i \in DOMAIN etcd'["routes"], etcd'["routes"][i].spec \in Ids["services"]
      PROVE  OwnerOf[etcd'["routes"][i].spec] = OwnerOf[i]
  <2>1. CASE t = "routes" /\ i = id
    BY <1>2, <1>3, <1>5, <1>6, <2>1
  <2>2. CASE t # "routes" \/ i # id
    <3>1. i \in DOMAIN etcd["routes"] /\ etcd'["routes"][i] = etcd["routes"][i]
      BY <1>3, <2>2, TypeNames
    <3> QED BY <1>6, <3>1 DEF RefInv, OwnInv
  <2> QED BY <2>1, <2>2
<1>7. ASSUME NEW s \in Ids["services"], Named(s)' PROVE s \in DOMAIN etcd'["services"] /\ Stays(s)'
  <2>1. Named(s) \/ (t = "routes" /\ Names(r, s))
    BY <1>1, <1>2, <1>7, NamedWrite
  <2>2. s \in DOMAIN etcd["services"] /\ Stays(s)
    BY <1>5, <2>1 DEF RefInv, NamedInv, Names
  <2>3. Stays(s)'
    BY <1>1, <1>2, <2>2, StaysWrite
  <2> QED BY <1>3, <2>2, <2>3, TypeNames
<1> QED BY <1>6, <1>7 DEF RefInv, OwnInv, NamedInv

(* A service that is removed is named by no route any more.                *)
LEMMA DeletedUnnamed ==
    ASSUME IndInv, TimeInv, RefInv, SleepInv, NEW s, Deleting("services", s),
           ~Done, Phase[1] = "delete", Phase[2] = "services"
    PROVE  ~Named(s)
<1>1. Active /\ s \in DOMAIN job.del["services"]
  BY DEF Deleting
<1>2. s \in Ids["services"] /\ OwnerOf[s] = job.owner /\ s \notin DOMAIN job.conf["services"]
  BY <1>1, TypeNames DEF IndInv, JobInv
<1>3. job.owner # Global
  BY <1>2, StageOwned
<1>4. job.i = 8 /\ feed["dataplane"]["routes"] = <<>>
  <2>1. job.i = 8
    BY <1>1, <1>3, StagePhases
  <2> QED BY <1>1, <1>3, <2>1 DEF SleepInv
<1>5. DOMAIN job.put["routes"] = {} /\ DOMAIN job.del["routes"] = {}
  BY <1>1, <1>3, <1>4, StageDone
<1>6. ASSUME NEW id \in DOMAIN etcd["routes"], Names(etcd["routes"][id], s) PROVE FALSE
  <2>1. etcd["routes"][id].spec = s
    BY <1>6 DEF Names
  <2>2. OwnerOf[id] = job.owner
    BY <1>2, <2>1 DEF RefInv, OwnInv
  <2>3. id \in DOMAIN job.conf["routes"]
    BY <1>1, <1>5, <2>2, TypeNames DEF TimeInv
  <2>4. job.conf["routes"][id].spec = s
    BY <1>1, <1>5, <2>1, <2>3, TypeNames DEF TimeInv, Agrees
  <2>5. s \in DOMAIN job.conf["services"]
    BY <1>1, <1>2, <2>3, <2>4, ConfigAssumption DEF IndInv, JobOK, Jobs
  <2> QED BY <1>2, <2>5
<1>7. ASSUME NEW id \in DOMAIN view["dataplane"]["routes"],
             Names(view["dataplane"]["routes"][id], s)
      PROVE  FALSE
  <2>1. id \in Ids["routes"]
    BY TypeNames, MapIs DEF IndInv, StoreInv, Typed, MapsOver
  <2>2. id \in DOMAIN etcd["routes"] /\ view["dataplane"]["routes"][id] = etcd["routes"][id]
    BY <1>4, <2>1, CaughtUp, TypeNames DEF IndInv
  <2> QED BY <1>6, <1>7, <2>2
<1>8. \A k \in 1..Len(feed["dataplane"]["routes"]) : FALSE
  BY <1>4
<1> QED BY <1>6, <1>7, <1>8 DEF Named

LEMMA DeleteRef ==
    ASSUME IndInv, TimeInv, RefInv, SleepInv, NEW t, NEW id, Deleting(t, id),
           ~Done, Phase[1] = "delete", Phase[2] = t
    PROVE  RefInv'
<1>1. Active /\ t \in Types /\ id \in DOMAIN job.del[t] /\ Write(t, id, Nil) /\ StoreInv
  BY DEF Deleting, IndInv
<1>2. id \in Ids[t] /\ Nil \in Resources \union {Nil}
  BY <1>1 DEF IndInv, JobInv
<1>3. \A u \in Types : /\ u # t => etcd'[u] = etcd[u]
                       /\ DOMAIN etcd'[u] \subseteq DOMAIN etcd[u]
                       /\ \A i \in DOMAIN etcd[u] :
                            (u # t \/ i # id) => i \in DOMAIN etcd'[u] /\ etcd'[u][i] = etcd[u][i]
  BY DeletingIs
<1>4. id \notin DOMAIN etcd'[t]
  BY DeletingIs
<1>5. ASSUME NEW i \in DOMAIN etcd'["routes"], etcd'["routes"][i].spec \in Ids["services"]
      PROVE  OwnerOf[etcd'["routes"][i].spec] = OwnerOf[i]
  <2>1. i \in DOMAIN etcd["routes"] /\ etcd'["routes"][i] = etcd["routes"][i]
    BY <1>3, <1>4, TypeNames
  <2> QED BY <1>5, <2>1 DEF RefInv, OwnInv
<1>6. ASSUME NEW s \in Ids["services"], Named(s)' PROVE s \in DOMAIN etcd'["services"] /\ Stays(s)'
  <2>1. Named(s)
    BY <1>1, <1>2, <1>6, NamedWrite DEF Names
  <2>2. s \in DOMAIN etcd["services"] /\ Stays(s)
    BY <2>1 DEF RefInv, NamedInv
  <2>3. t # "services" \/ id # s
    BY <2>1, DeletedUnnamed
  <2>4. Stays(s)'
    BY <1>1, <1>2, <2>2, <2>3, StaysWrite
  <2> QED BY <1>3, <2>2, <2>3, <2>4, TypeNames
<1> QED BY <1>5, <1>6 DEF RefInv, OwnInv, NamedInv

LEMMA KeepRef ==
    ASSUME RefInv, etcd' = etcd, \A s : Named(s)' => Named(s), \A s : Stays(s) => Stays(s)'
    PROVE  RefInv'
<1>1. OwnInv'
  BY DEF RefInv, OwnInv
<1>2. NamedInv'
  BY DEF RefInv, NamedInv
<1> QED BY <1>1, <1>2 DEF RefInv

(* The intervals: what they have waited for stays as it is.                *)
LEMMA KeepSleep ==
    ASSUME SleepInv, Active, job'.owner = job.owner, job'.conf = job.conf, job'.i = job.i,
           DOMAIN job'.del["services"] \subseteq DOMAIN job.del["services"],
           job.owner # Global =>
              \A s \in DOMAIN job.conf["services"] :
                  (s \in DOMAIN etcd["services"] /\ Stays(s)) =>
                      (s \in DOMAIN etcd'["services"] /\ Stays(s)'),
           (job.owner # Global /\ job.i > 7 /\ feed["dataplane"]["routes"] = <<>>) =>
               feed'["dataplane"]["routes"] = <<>>
    PROVE  SleepInv'
<1> SUFFICES ASSUME job.owner # Global
             PROVE  /\ job.i > 3 => \A s \in DOMAIN job.conf["services"] :
                                        s \in DOMAIN etcd'["services"] /\ Stays(s)'
                    /\ (job.i > 7 /\ DOMAIN job'.del["services"] # {}) =>
                            feed'["dataplane"]["routes"] = <<>>
  BY DEF SleepInv
<1>1. ASSUME job.i > 3, NEW s \in DOMAIN job.conf["services"]
      PROVE  s \in DOMAIN etcd'["services"] /\ Stays(s)'
  BY <1>1 DEF SleepInv
<1>2. ASSUME job.i > 7, DOMAIN job'.del["services"] # {} PROVE feed'["dataplane"]["routes"] = <<>>
  BY <1>2 DEF SleepInv
<1> QED BY <1>1, <1>2

LEMMA PutSleep ==
    ASSUME IndInv, SleepInv, NEW id, PutResource(id)
    PROVE  SleepInv'
<1> DEFINE t == Phase[2]
           r == Cleared(t, job.put[t][id])
<1>1. Active /\ ~Done /\ Phase[1] = "put" /\ t \in Types /\ id \in DOMAIN job.put[t] /\ Putting(t, id)
  <2>1. ~FailPut(id) \/ Putting(t, id)
    BY DEF PutResource, FailPut, IndInv, Counters
  <2> QED BY <2>1, PutStep
<1>2. id \in Ids[t] /\ r \in Resources /\ r # Nil /\ Write(t, id, r)
  BY <1>1, PutReady DEF IndInv, Putting
<1>3. job'.owner = job.owner /\ job'.conf = job.conf /\ job'.i = job.i /\ job'.del = job.del
  BY PutTaken
<1>4. ASSUME NEW s, s \in DOMAIN etcd["services"], Stays(s)
      PROVE  s \in DOMAIN etcd'["services"] /\ Stays(s)'
  <2>1. DOMAIN etcd["services"] \subseteq DOMAIN etcd'["services"]
    BY <1>1, PuttingIs, TypeNames
  <2> QED BY <1>1, <1>2, <1>4, <2>1, StaysWrite DEF IndInv
<1>5. ASSUME job.owner # Global, job.i > 7 PROVE FALSE
  <2>1. Phase = <<"delete", "services">>
    BY <1>1, <1>5, StagePhases
  <2> QED BY <1>1, <2>1
<1> QED BY <1>1, <1>3, <1>4, <1>5, KeepSleep

LEMMA DeleteSleep ==
    ASSUME IndInv, SleepInv, NEW id, DeleteResource(id)
    PROVE  SleepInv'
<1> DEFINE t == Phase[2]
<1>1. /\ Active /\ ~Done /\ Phase[1] = "delete" /\ t \in Types /\ id \in DOMAIN job.del[t]
      /\ Deleting(t, id) \/ Same3
  BY DeleteStep
<1>2. id \in Ids[t] /\ id \notin DOMAIN job.conf[t] /\ Nil \in Resources \union {Nil}
  BY <1>1 DEF IndInv, JobInv
<1>3. /\ job'.owner = job.owner /\ job'.conf = job.conf /\ job'.i = job.i
      /\ DOMAIN job'.del["services"] \subseteq DOMAIN job.del["services"]
  BY DeleteTaken, TypeNames
<1>4. ASSUME NEW s \in DOMAIN job.conf["services"], s \in DOMAIN etcd["services"], Stays(s)
      PROVE  s \in DOMAIN etcd'["services"] /\ Stays(s)'
  <2>1. t # "services" \/ id # s
    BY <1>2
  <2>2. CASE Deleting(t, id)
    <3>1. s \in DOMAIN etcd'["services"]
      BY <1>4, <2>1, <2>2, DeletingIs, TypeNames
    <3>2. Write(t, id, Nil)
      BY <2>2 DEF Deleting
    <3>3. Stays(s)'
      BY <1>1, <1>2, <1>4, <2>1, <3>2, StaysWrite DEF IndInv
    <3> QED BY <3>1, <3>3
  <2>3. CASE Same3
    BY <1>4, <2>3 DEF Same3, Stays
  <2> QED BY <1>1, <2>2, <2>3
<1>5. ASSUME job.owner # Global, job.i > 7
      PROVE  feed'["dataplane"]["routes"] = feed["dataplane"]["routes"]
  <2>1. t # "routes"
    BY <1>1, <1>5, StagePhases
  <2>2. CASE Deleting(t, id)
    BY <2>1, <2>2, WriteElsewhere, TypeNames DEF IndInv, Deleting
  <2>3. CASE Same3
    BY <2>3 DEF Same3
  <2> QED BY <1>1, <2>2, <2>3
<1> HIDE DEF t
<1> QED BY <1>1, <1>3, <1>4, <1>5, KeepSleep

LEMMA NextPhaseSleep ==
    ASSUME SleepCovers, IndInv, TimeInv, SleepInv, NextPhase
    PROVE  SleepInv'
<1>1. /\ Active /\ job'.owner = job.owner /\ job'.conf = job.conf
      /\ job'.i = job.i + 1 /\ job'.del = job.del /\ job.i \in Nat
  BY NextPhaseIs
<1>2. ~Done /\ etcd' = etcd /\ view' = view /\ feed' = feed
  BY DEF NextPhase
<1> SUFFICES ASSUME job.owner # Global
             PROVE  /\ job.i + 1 > 3 => \A s \in DOMAIN job.conf["services"] :
                                            s \in DOMAIN etcd["services"] /\ Stays(s)
                    /\ (job.i + 1 > 7 /\ DOMAIN job.del["services"] # {}) =>
                            feed["dataplane"]["routes"] = <<>>
  BY <1>1, <1>2 DEF SleepInv, Stays
<1>3. ASSUME job.i = 3 PROVE Settled("dataplane")
  <2>1. Phase = <<"sleep", "put">>
    BY <1>1, <1>2, <1>3, StagePhases
  <2> QED BY <2>1 DEF NextPhase, BatchDone
<1>4. ASSUME job.i = 7, DOMAIN job.del["services"] # {} PROVE Settled("dataplane")
  <2>1. Phase = <<"sleep", "delete">>
    BY <1>1, <1>2, <1>4, StagePhases
  <2> QED BY <1>4, <2>1 DEF NextPhase, BatchDone
<1>5. ASSUME job.i + 1 > 3, NEW s \in DOMAIN job.conf["services"]
      PROVE  s \in DOMAIN etcd["services"] /\ Stays(s)
  <2>1. CASE job.i > 3
    BY <1>1, <2>1 DEF SleepInv
  <2>2. CASE job.i = 3
    <3>1. feed["dataplane"]["services"] = <<>>
      BY <1>3, <2>2, TypeNames DEF Settled
    <3>2. DOMAIN job.put["services"] = {}
      BY <1>1, <2>2, StageDone
    <3>3. s \in DOMAIN etcd["services"]
      BY <1>1, <3>2, TypeNames DEF TimeInv, Agrees
    <3>4. s \in Ids["services"]
      BY <3>3, EtcdIds, TypeNames DEF IndInv
    <3>5. s \in DOMAIN view["dataplane"]["services"]
      BY <3>1, <3>3, <3>4, CaughtUp, TypeNames DEF IndInv
    <3> QED BY <3>1, <3>3, <3>5 DEF Stays
  <2> QED BY <1>1, <1>5, <2>1, <2>2
<1>6. ASSUME job.i + 1 > 7, DOMAIN job.del["services"] # {} PROVE feed["dataplane"]["routes"] = <<>>
  <2>1. CASE job.i > 7
    BY <1>1, <1>6, <2>1 DEF SleepInv
  <2>2. CASE job.i = 7
    BY <1>4, <1>6, <2>2, TypeNames DEF Settled
  <2> QED BY <1>1, <1>6, <2>1, <2>2
<1> QED BY <1>5, <1>6

(* A step that leaves the data plane and etcd alone, and the job or its    *)
(* progress.                                                               *)
DataplaneSame ==
    /\ etcd' = etcd
    /\ view'["dataplane"] = view["dataplane"] /\ feed'["dataplane"] = feed["dataplane"]

LEMMA SameRef == ASSUME RefInv, DataplaneSame PROVE RefInv'
<1>1. \A s : Named(s)' => Named(s)
  BY DEF DataplaneSame, Named
<1>2. \A s : Stays(s) => Stays(s)'
  BY DEF DataplaneSame, Stays
<1> QED BY <1>1, <1>2, KeepRef DEF DataplaneSame

LEMMA SameSleep == ASSUME SleepInv, DataplaneSame, job' = job PROVE SleepInv'
<1>1. CASE Active
  BY <1>1, KeepSleep DEF DataplaneSame, Stays
<1>2. CASE ~Active
  BY <1>2 DEF SleepInv, Active
<1> QED BY <1>1, <1>2

LEMMA DeliverRef ==
    ASSUME StoreInv, RefInv, SleepInv, NEW v \in Viewers, NEW t \in Types, Deliver(v, t)
    PROVE  RefInv' /\ SleepInv'
<1>1. etcd' = etcd /\ job' = job
  BY DEF Deliver
<1>2. /\ \A s : Named(s)' => Named(s)
      /\ \A s : Stays(s) => Stays(s)'
  BY NamedDeliver, StaysDeliver
<1>3. feed["dataplane"]["routes"] = <<>> => feed'["dataplane"]["routes"] = <<>>
  <2>1. /\ feed[v][t] # <<>>
        /\ \A w \in Viewers, u \in Types : (w # v \/ u # t) => feed'[w][u] = feed[w][u]
    BY DeliverIs
  <2> QED BY <2>1, TypeNames
<1>4. RefInv'
  BY <1>1, <1>2, KeepRef
<1>5. CASE Active
  BY <1>1, <1>2, <1>3, <1>4, <1>5, KeepSleep
<1>6. CASE ~Active
  BY <1>1, <1>4, <1>6 DEF SleepInv, Active
<1> QED BY <1>5, <1>6

LEMMA InitRef == ASSUME Init PROVE RefInv /\ SleepInv
<1>1. /\ etcd = Nothing /\ view = [v \in Viewers |-> Nothing]
      /\ feed = [v \in Viewers |-> [t \in Types |-> <<>>]] /\ job = Nil
  BY DEF Init
<1>2. DOMAIN Nothing["routes"] = {}
  BY TypeNames DEF Nothing, NoResources
<1> HIDE DEF Nothing
<1>3. DOMAIN etcd["routes"] = {} /\ DOMAIN view["dataplane"]["routes"] = {}
      /\ feed["dataplane"]["routes"] = <<>>
  BY <1>1, <1>2, TypeNames
<1>4. \A s : ~Named(s)
  BY <1>3 DEF Named
<1> QED BY <1>1, <1>3, <1>4 DEF RefInv, OwnInv, NamedInv, SleepInv, Active

LEMMA NextRef ==
    ASSUME SleepCovers, IndInv, TimeInv, RefInv, SleepInv, [Next]_vars
    PROVE  RefInv' /\ SleepInv'
<1>1. ASSUME NEW o \in Owners, NEW c \in ConfigsOf(o), job' = Begin(o, c), Same3
      PROVE  RefInv' /\ SleepInv'
  <2>1. job'.i = 1
    BY <1>1 DEF Begin
  <2>2. RefInv'
    BY <1>1, SameRef DEF Same3, DataplaneSame
  <2> QED BY <2>1, <2>2 DEF SleepInv
<1>2. ASSUME job' = Nil, RefInv' PROVE RefInv' /\ SleepInv'
  BY <1>2 DEF SleepInv, Active
<1>3. ASSUME Same3 PROVE RefInv'
  BY <1>3, SameRef DEF Same3, DataplaneSame
<1>4. ASSUME NEW id, PutResource(id) \/ FailPut(id) PROVE RefInv' /\ SleepInv'
  <2>1. RefInv'
    BY <1>3, <1>4, PutStep, PutRef
  <2>2. CASE PutResource(id)
    BY <2>1, <2>2, PutSleep
  <2>3. CASE FailPut(id)
    BY <1>2, <2>1, <2>3 DEF FailPut
  <2> QED BY <1>4, <2>2, <2>3
<1>5. ASSUME NEW id, DeleteResource(id) \/ FailDelete(id) PROVE RefInv' /\ SleepInv'
  <2>1. RefInv'
    BY <1>3, <1>5, DeleteStep, DeleteRef
  <2>2. CASE DeleteResource(id)
    BY <2>1, <2>2, DeleteSleep
  <2>3. CASE FailDelete(id)
    BY <1>2, <2>1, <2>3 DEF FailDelete
  <2> QED BY <1>5, <2>2, <2>3
<1>6. ASSUME NEW o \in Owners, NEW c \in ConfigsOf(o), Alter(o, c) PROVE RefInv' /\ SleepInv'
  BY <1>1, <1>6 DEF Alter, Same3
<1>7. CASE NextPhase
  BY <1>3, <1>7, NextPhaseSleep DEF NextPhase, Same3
<1>8. CASE Finish
  <2>1. Same3
    BY <1>8 DEF Finish, Same3
  <2>2. CASE job' = Nil
    BY <1>2, <1>3, <2>1, <2>2
  <2>3. CASE \E c \in VirtualConfigs : job' = Begin(VirtualStage, c)
    BY <1>1, <2>1, <2>3, VirtualAssumption DEF ConfigsOf, Owners
  <2> QED BY <1>8, <2>2, <2>3 DEF Finish
<1>9. ASSUME NEW t \in Types, FullSync(t) PROVE RefInv' /\ SleepInv'
  <2>1. DataplaneSame /\ job' = job
    BY <1>9 DEF FullSync, DataplaneSame, IndInv, StoreInv, Shaped
  <2> QED BY <2>1, SameRef, SameSleep
<1>10. CASE Restart
  <2>1. DataplaneSame /\ job' = Nil
    BY <1>10 DEF Restart, DataplaneSame, IndInv, StoreInv, Shaped
  <2> QED BY <1>2, <2>1, SameRef
<1>11. CASE UNCHANGED vars
  BY <1>11, SameRef, SameSleep DEF vars, DataplaneSame
<1>12. \A o \in Owners \ {VirtualStage} : Configs[o] = ConfigsOf(o)
  BY DEF ConfigsOf
<1> QED BY <1>4, <1>5, <1>6, <1>7, <1>8, <1>9, <1>10, <1>11, <1>12, DeliverRef DEF Next, IndInv

(* If the cache has caught up when an Alter begins and the intervals       *)
(* outlast the lag of the data plane: whatever fails or dies half way,     *)
(* neither etcd nor APISIX ever has a route without the service it names.  *)
THEOREM StoreRefIntegrity ==
    ASSUME RegistryInTime, SleepCovers PROVE Spec => []RefIntegrity
<1>1. Init => RefInv /\ SleepInv
  BY InitRef
<1>2. IndInv /\ TimeInv /\ (RefInv /\ SleepInv) /\ [Next]_vars => (RefInv /\ SleepInv)'
  BY NextRef
<1>3. ASSUME StoreInv, RefInv PROVE RefIntegrity
  <2>1. ASSUME NEW id \in DOMAIN etcd["routes"], NEW s \in Ids["services"],
               etcd["routes"][id].spec = s
        PROVE  s \in DOMAIN etcd["services"]
    <3>1. Names(etcd["routes"][id], s)
      BY <1>3, <2>1, StatusIs, TypeNames DEF StoreInv, Shaped, Names
    <3> QED BY <1>3, <3>1 DEF Named, RefInv, NamedInv
  <2>2. ASSUME NEW id \in DOMAIN view["dataplane"]["routes"], NEW s \in Ids["services"],
               view["dataplane"]["routes"][id].spec = s
        PROVE  s \in DOMAIN view["dataplane"]["services"]
    <3>1. Names(view["dataplane"]["routes"][id], s)
      BY <1>3, <2>2, StatusIs, TypeNames DEF StoreInv, Shaped, Names
    <3> QED BY <1>3, <3>1 DEF Named, RefInv, NamedInv, Stays
  <2>3. Dangling(etcd) = {}
    BY <2>1 DEF Dangling
  <2>4. Dangling(view["dataplane"]) = {}
    BY <2>2 DEF Dangling
  <2> QED BY <2>3, <2>4 DEF RefIntegrity
<1>4. IndInv => StoreInv
  BY DEF IndInv
<1> QED BY <1>1, <1>2, <1>3, <1>4, InTime, PTL DEF Spec

-----------------------------------------------------------------------------
(* What StageStore sees of the store.                                      *)
Entry(t, id, s) == [type |-> t, id |-> id, spec |-> s]

LEMMA EntryIs ==
    ASSUME NEW t, NEW id, NEW s, NEW u, NEW i, NEW r
    PROVE  /\ Entry(t, id, s).type = t /\ Entry(t, id, s).id = id /\ Entry(t, id, s).spec = s
           /\ Entry(t, id, s) = Entry(u, i, r) => t = u /\ id = i /\ s = r
           /\ Promise!Place(Entry(t, id, s)) = <<t, id>>
BY DEF Entry, Promise!Place

LEMMA EntriesIs ==
    ASSUME NEW m
    PROVE  /\ \A t \in Types : \A id \in DOMAIN m[t] : Entry(t, id, m[t][id].spec) \in Entries(m)
           /\ \A e \in Entries(m) : \E t, id :
                  t \in Types /\ id \in DOMAIN m[t] /\ e = Entry(t, id, m[t][id].spec)
BY DEF Entries, Entry

(* Two maps with the same ids of the same spec have the same entries.      *)
LEMMA EntriesSame ==
    ASSUME NEW m, NEW n,
           \A t \in Types : /\ DOMAIN m[t] = DOMAIN n[t]
                            /\ \A id \in DOMAIN m[t] : m[t][id].spec = n[t][id].spec
    PROVE  Entries(m) = Entries(n)
<1>1. ASSUME NEW e \in Entries(m) PROVE e \in Entries(n)
  <2>1. PICK t, id : t \in Types /\ id \in DOMAIN m[t] /\ e = Entry(t, id, m[t][id].spec)
    BY EntriesIs
  <2>2. id \in DOMAIN n[t] /\ e = Entry(t, id, n[t][id].spec)
    BY <2>1
  <2> QED BY <2>2, EntriesIs
<1>2. ASSUME NEW e \in Entries(n) PROVE e \in Entries(m)
  <2>1. PICK t, id : t \in Types /\ id \in DOMAIN n[t] /\ e = Entry(t, id, n[t][id].spec)
    BY EntriesIs
  <2>2. id \in DOMAIN m[t] /\ e = Entry(t, id, m[t][id].spec)
    BY <2>1
  <2> QED BY <2>2, EntriesIs
<1> QED BY <1>1, <1>2

(* A write puts its entry where the entry of that place was.               *)
LEMMA PutEntries ==
    ASSUME IndInv, NEW t, NEW id, Putting(t, id)
    PROVE  LET e == Entry(t, id, job.conf[t][id].spec) IN
           /\ e \in Entries(job.conf)
           /\ Entries(etcd)' = {x \in Entries(etcd) : Promise!Place(x) # Promise!Place(e)} \union {e}
           /\ e \in Entries(etcd) => Entries(etcd)' = Entries(etcd)
<1> DEFINE s == job.conf[t][id].spec
           e == Entry(t, id, s)
           old == Entries(etcd)
           new == Entries(etcd')
<1>1. /\ Active /\ t \in Types /\ id \in DOMAIN job.conf[t]
      /\ Cleared(t, job.put[t][id]).spec = s
  BY PutReady DEF Putting, IndInv
<1>2. /\ \A u \in Types : /\ u # t => etcd'[u] = etcd[u]
                          /\ DOMAIN etcd[u] \subseteq DOMAIN etcd'[u]
                          /\ DOMAIN etcd'[u] \subseteq DOMAIN etcd[u] \union {id}
                          /\ \A i \in DOMAIN etcd[u] :
                               (u # t \/ i # id) => etcd'[u][i] = etcd[u][i]
      /\ id \in DOMAIN etcd'[t] /\ etcd'[t][id].spec = s
  BY <1>1, PuttingIs
<1>3. e \in Entries(job.conf)
  BY <1>1, EntriesIs
<1>4. e \in new
  BY <1>1, <1>2, EntriesIs
<1> HIDE DEF s
<1>5. ASSUME NEW x \in old, Promise!Place(x) # <<t, id>> PROVE x \in new
  <2>1. PICK u, i : u \in Types /\ i \in DOMAIN etcd[u] /\ x = Entry(u, i, etcd[u][i].spec)
    BY EntriesIs
  <2>2. u # t \/ i # id
    BY <1>5, <2>1, EntryIs
  <2>3. i \in DOMAIN etcd'[u] /\ etcd'[u][i] = etcd[u][i]
    BY <1>2, <2>1, <2>2
  <2>4. x = Entry(u, i, etcd'[u][i].spec)
    BY <2>1, <2>3
  <2> QED BY <2>1, <2>3, <2>4, EntriesIs
<1>6. ASSUME NEW x \in new, x # e PROVE x \in old /\ Promise!Place(x) # <<t, id>>
  <2>1. PICK u, i : u \in Types /\ i \in DOMAIN etcd'[u] /\ x = Entry(u, i, etcd'[u][i].spec)
    BY EntriesIs
  <2>2. u # t \/ i # id
    BY <1>2, <1>6, <2>1
  <2>3. i \in DOMAIN etcd[u] /\ etcd'[u][i] = etcd[u][i]
    BY <1>2, <2>1, <2>2
  <2>4. x = Entry(u, i, etcd[u][i].spec)
    BY <2>1, <2>3
  <2> QED BY <2>1, <2>2, <2>3, <2>4, EntriesIs, EntryIs
<1>7. Promise!Place(e) = <<t, id>>
  BY EntryIs
<1>8. ASSUME e \in old, NEW x \in old, Promise!Place(x) = <<t, id>> PROVE x = e
  <2>1. PICK u, i : u \in Types /\ i \in DOMAIN etcd[u] /\ x = Entry(u, i, etcd[u][i].spec)
    BY EntriesIs
  <2>2. u = t /\ i = id
    BY <1>8, <2>1, EntryIs
  <2>3. PICK v, j : v \in Types /\ j \in DOMAIN etcd[v] /\ e = Entry(v, j, etcd[v][j].spec)
    BY <1>8, EntriesIs
  <2>4. v = t /\ j = id
    BY <2>3, EntryIs
  <2> QED BY <2>1, <2>2, <2>3, <2>4
<1> HIDE DEF e, old, new
<1>9. new = {x \in old : Promise!Place(x) # Promise!Place(e)} \union {e}
  BY <1>4, <1>5, <1>6, <1>7
<1>10. e \in old => new = old
  BY <1>7, <1>8, <1>9
<1> QED BY <1>3, <1>9, <1>10 DEF e, s, old, new

(* A removal takes an entry of the owner from a place that is not wanted.  *)
LEMMA DeleteEntries ==
    ASSUME IndInv, NEW t, NEW id, Deleting(t, id)
    PROVE  LET e == Entry(t, id, etcd[t][id].spec) IN
           /\ e \in Entries(etcd) /\ OwnerOf[e.id] = job.owner
           /\ \A w \in Entries(job.conf) : Promise!Place(w) # Promise!Place(e)
           /\ Entries(etcd)' = Entries(etcd) \ {e}
<1> DEFINE e == Entry(t, id, etcd[t][id].spec)
           old == Entries(etcd)
           new == Entries(etcd')
<1>1. Active /\ t \in Types /\ id \in DOMAIN job.del[t] /\ id \in DOMAIN etcd[t]
  BY DEF Deleting
<1>2. OwnerOf[id] = job.owner /\ id \notin DOMAIN job.conf[t]
  BY <1>1 DEF IndInv, JobInv
<1>3. /\ \A u \in Types : /\ u # t => etcd'[u] = etcd[u]
                          /\ DOMAIN etcd'[u] \subseteq DOMAIN etcd[u]
                          /\ \A i \in DOMAIN etcd[u] :
                               (u # t \/ i # id) => i \in DOMAIN etcd'[u] /\ etcd'[u][i] = etcd[u][i]
      /\ id \notin DOMAIN etcd'[t]
  BY DeletingIs
<1>4. e \in old /\ OwnerOf[e.id] = job.owner /\ Promise!Place(e) = <<t, id>>
  BY <1>1, <1>2, EntriesIs, EntryIs
<1>5. ASSUME NEW w \in Entries(job.conf) PROVE Promise!Place(w) # <<t, id>>
  <2>1. PICK u, i : u \in Types /\ i \in DOMAIN job.conf[u] /\ w = Entry(u, i, job.conf[u][i].spec)
    BY EntriesIs
  <2>2. u # t \/ i # id
    BY <1>2, <2>1
  <2> QED BY <2>1, <2>2, EntryIs
<1>6. ASSUME NEW x \in old, x # e PROVE x \in new
  <2>1. PICK u, i : u \in Types /\ i \in DOMAIN etcd[u] /\ x = Entry(u, i, etcd[u][i].spec)
    BY EntriesIs
  <2>2. u # t \/ i # id
    BY <1>6, <2>1
  <2>3. i \in DOMAIN etcd'[u] /\ x = Entry(u, i, etcd'[u][i].spec)
    BY <1>3, <2>1, <2>2
  <2> QED BY <2>1, <2>3, EntriesIs
<1>7. ASSUME NEW x \in new PROVE x \in old /\ x # e
  <2>1. PICK u, i : u \in Types /\ i \in DOMAIN etcd'[u] /\ x = Entry(u, i, etcd'[u][i].spec)
    BY EntriesIs
  <2>2. u # t \/ i # id
    BY <1>3, <2>1
  <2>3. i \in DOMAIN etcd[u] /\ x = Entry(u, i, etcd[u][i].spec)
    BY <1>3, <2>1, <2>2
  <2> QED BY <2>1, <2>2, <2>3, EntriesIs, EntryIs
<1> HIDE DEF e, old, new
<1>8. new = old \ {e}
  BY <1>6, <1>7
<1> QED BY <1>4, <1>5, <1>8 DEF e, old, new

(* What the abstract goal is.                                              *)
LEMMA GoalIs ==
    /\ Active => /\ Goal # <<>> /\ Goal.owner = job.owner /\ Goal.conf = Entries(job.conf)
                 /\ Goal.state = IF Done THEN "done" ELSE "busy"
    /\ ~Active => Goal = <<>>
BY DEF Goal

(* An Alter that is done has arrived.                                      *)
Arrived == (Active /\ Done) => Promise!Of(job.owner) = Entries(job.conf)

LEMMA HasArrived ==
    ASSUME IndInv, TimeInv PROVE Arrived
<1> SUFFICES ASSUME Active, Done PROVE Promise!Of(job.owner) = Entries(job.conf)
  BY DEF Arrived
<1>1. ASSUME NEW t \in Types
      PROVE  /\ DOMAIN job.put[t] = {} /\ DOMAIN job.del[t] = {}
             /\ \A id \in DOMAIN job.conf[t] : Agrees(t, id) /\ OwnerOf[id] = job.owner
             /\ \A id \in DOMAIN etcd[t] : OwnerOf[id] = job.owner => id \in DOMAIN job.conf[t]
  <2>1. DOMAIN job.put[t] = {} /\ DOMAIN job.del[t] = {}
    BY NothingLeft
  <2>2. \A id \in DOMAIN job.conf[t] : OwnerOf[id] = job.owner
    BY ConfIs DEF IndInv, JobOK, Jobs
  <2> QED BY <2>1, <2>2 DEF TimeInv
<1>2. ASSUME NEW e \in Entries(etcd), OwnerOf[e.id] = job.owner PROVE e \in Entries(job.conf)
  <2>1. PICK t, id : t \in Types /\ id \in DOMAIN etcd[t] /\ e = Entry(t, id, etcd[t][id].spec)
    BY EntriesIs
  <2>2. OwnerOf[id] = job.owner
    BY <1>2, <2>1, EntryIs
  <2>3. id \in DOMAIN job.conf[t] /\ etcd[t][id].spec = job.conf[t][id].spec
    BY <1>1, <2>1, <2>2 DEF Agrees
  <2>4. e = Entry(t, id, job.conf[t][id].spec)
    BY <2>1, <2>3
  <2> QED BY <2>1, <2>3, <2>4, EntriesIs
<1>3. ASSUME NEW e \in Entries(job.conf) PROVE e \in Entries(etcd) /\ OwnerOf[e.id] = job.owner
  <2>1. PICK t, id : t \in Types /\ id \in DOMAIN job.conf[t] /\ e = Entry(t, id, job.conf[t][id].spec)
    BY EntriesIs
  <2>2. OwnerOf[id] = job.owner /\ id \in DOMAIN etcd[t] /\ etcd[t][id].spec = job.conf[t][id].spec
    BY <1>1, <2>1 DEF Agrees
  <2>3. e = Entry(t, id, etcd[t][id].spec)
    BY <2>1, <2>2
  <2> QED BY <2>1, <2>2, <2>3, EntriesIs, EntryIs
<1> QED BY <1>2, <1>3 DEF Promise!Of

(* The steps of the store as StageStore sees them.                         *)
SeenSame == Entries(etcd)' = Entries(etcd)
SeenStep == [Promise!Next]_<<Entries(etcd), Goal>>

Idle     == SeenSame /\ (Goal' = <<>> \/ Goal' = Goal)

LEMMA Broken == ASSUME Idle PROVE SeenStep
BY DEF Idle, SeenSame, SeenStep, Promise!Next, Promise!BreakOff, Promise!NoGoal

LEMMA SameGoal ==
    ASSUME job'.owner = job.owner, job'.conf = job.conf, job'.i = job.i, Active
    PROVE  Goal' = Goal \/ Goal' = <<>>
<1>1. Done' <=> Done
  BY DEF Done
<1>2. CASE Active'
  BY <1>1, <1>2 DEF Goal
<1>3. CASE ~Active'
  BY <1>3 DEF Goal
<1> QED BY <1>2, <1>3

LEMMA PutSeen == ASSUME IndInv, NEW id, PutResource(id) \/ FailPut(id) PROVE Idle \/ Promise!Move
<1> DEFINE t == Phase[2]
           e == Entry(t, id, job.conf[t][id].spec)
<1>1. Active /\ ~Done /\ (Putting(t, id) \/ (FailPut(id) /\ Same3))
  BY PutStep
<1>2. Goal' = Goal \/ Goal' = <<>>
  <2>1. CASE PutResource(id)
    BY <1>1, <2>1, PutTaken, SameGoal
  <2>2. CASE FailPut(id)
    BY <2>2 DEF FailPut, Goal, Active
  <2> QED BY <2>1, <2>2
<1>3. CASE Same3
  BY <1>2, <1>3 DEF Idle, SeenSame, Same3
<1>4. CASE Putting(t, id)
  <2>1. /\ e \in Entries(job.conf)
        /\ Entries(etcd)' = {x \in Entries(etcd) : Promise!Place(x) # Promise!Place(e)} \union {e}
        /\ e \in Entries(etcd) => SeenSame
    BY <1>4, PutEntries DEF SeenSame
  <2>2. Goal # <<>> /\ Goal.state = "busy" /\ Goal.conf = Entries(job.conf)
    BY <1>1, GoalIs
  <2> HIDE DEF e
  <2>3. CASE e \in Entries(etcd)
    BY <1>2, <2>1, <2>3 DEF Idle
  <2>4. CASE e \notin Entries(etcd)
    <3>1. Promise!Put(e)
      BY <2>1, <2>2, <2>4 DEF Promise!Put
    <3>2. Promise!Move
      BY <1>2, <2>1, <2>2, <3>1 DEF Promise!Move, Promise!NoGoal
    <3> QED BY <3>2
  <2> QED BY <2>3, <2>4
<1> QED BY <1>1, <1>3, <1>4

LEMMA DeleteSeen ==
    ASSUME IndInv, NEW id, DeleteResource(id) \/ FailDelete(id) PROVE Idle \/ Promise!Move
<1> DEFINE t == Phase[2]
           e == Entry(t, id, etcd[t][id].spec)
<1>1. Active /\ ~Done /\ (Deleting(t, id) \/ Same3)
  BY DeleteStep
<1>2. Goal' = Goal \/ Goal' = <<>>
  <2>1. CASE DeleteResource(id)
    BY <1>1, <2>1, DeleteTaken, SameGoal
  <2>2. CASE FailDelete(id)
    BY <2>2 DEF FailDelete, Goal, Active
  <2> QED BY <2>1, <2>2
<1>3. CASE Same3
  BY <1>2, <1>3 DEF Idle, SeenSame, Same3
<1>4. CASE Deleting(t, id)
  <2>1. /\ e \in Entries(etcd) /\ OwnerOf[e.id] = job.owner
        /\ \A w \in Entries(job.conf) : Promise!Place(w) # Promise!Place(e)
        /\ Entries(etcd)' = Entries(etcd) \ {e}
    BY <1>4, DeleteEntries
  <2>2. /\ Goal # <<>> /\ Goal.state = "busy"
        /\ Goal.owner = job.owner /\ Goal.conf = Entries(job.conf)
    BY <1>1, GoalIs
  <2> HIDE DEF e
  <2>3. Promise!Remove(e)
    BY <2>1, <2>2 DEF Promise!Remove, Promise!Of
  <2>4. Promise!Move
    BY <1>2, <2>1, <2>2, <2>3 DEF Promise!Move, Promise!NoGoal
  <2> QED BY <2>4
<1> QED BY <1>1, <1>3, <1>4

(* An Alter begins when there is none, or when the one before has arrived. *)
LEMMA BeginSeen ==
    ASSUME StoreInv, NEW o \in Owners, NEW c \in ConfigsOf(o), job' = Begin(o, c), etcd' = etcd,
           Goal = <<>> \/ Goal.state = "done"
    PROVE  SeenStep
<1> DEFINE targets == [x \in Owners |-> {Entries(k) : k \in ConfigsOf(x)}]
           g == [owner |-> o, conf |-> Entries(c), state |-> "busy"]
<1>1. job'.owner = o /\ job'.conf = c /\ job'.i = 1
  BY BeginIs
<1>2. ~Done'
  <2>1. Len(PlanOf(o)) \in Nat \ {0}
    BY PlanIs
  <2> QED BY <1>1, <2>1 DEF Done
<1>3. Goal' = g \/ Goal' = <<>>
  BY <1>1, <1>2 DEF Goal
<1>4. g \in Promise!Goals
  <2>1. o \in DOMAIN targets /\ Entries(c) \in targets[o]
    OBVIOUS
  <2> HIDE DEF targets
  <2>2. g \in [owner : {o}, conf : targets[o], state : {"busy"}]
    BY <2>1
  <2>3. g \in UNION {[owner : {x}, conf : targets[x], state : {"busy"}] : x \in DOMAIN targets}
    BY <2>1, <2>2
  <2> QED BY <2>3 DEF targets, Promise!Goals
<1> HIDE DEF g
<1>5. Promise!Ask
  BY <1>3, <1>4 DEF Promise!Ask, Promise!NoGoal
<1> QED BY <1>5 DEF SeenStep, Promise!Next

LEMMA NextPhaseSeen ==
    ASSUME IndInv, Arrived', NextPhase
    PROVE  SeenStep
<1>1. /\ Active /\ ~Done /\ etcd' = etcd
      /\ job'.owner = job.owner /\ job'.conf = job.conf
  BY NextPhaseIs DEF NextPhase
<1>2. SeenSame
  BY <1>1 DEF SeenSame
<1>3. CASE ~Active'
  BY <1>2, <1>3, Broken DEF Idle, Goal
<1>4. CASE Active' /\ ~Done'
  BY <1>1, <1>2, <1>4, Broken DEF Idle, Goal
<1>5. CASE Active' /\ Done'
  <2>1. Goal = [owner |-> job.owner, conf |-> Entries(job.conf), state |-> "busy"]
    BY <1>1 DEF Goal
  <2>2. Goal' = [owner |-> job.owner, conf |-> Entries(job.conf), state |-> "done"]
    BY <1>1, <1>5 DEF Goal
  <2>3. Promise!Of(job.owner) = Entries(job.conf)
    BY <1>1, <1>2, <1>5 DEF Arrived, Promise!Of, SeenSame
  <2>4. Goal # <<>>
    BY <1>1, GoalIs
  <2>5. Promise!Arrive
    BY <1>2, <2>1, <2>2, <2>3, <2>4 DEF Promise!Arrive, Promise!NoGoal, SeenSame
  <2> QED BY <2>5 DEF SeenStep, Promise!Next
<1> QED BY <1>3, <1>4, <1>5

LEMMA NextSeen == ASSUME IndInv, Arrived', [Next]_vars PROVE SeenStep
<1>1. ASSUME NEW o \in Owners, NEW c \in ConfigsOf(o), Alter(o, c) PROVE SeenStep
  <2>1. Goal = <<>>
    BY <1>1 DEF Alter, Goal
  <2> QED BY <1>1, <2>1, BeginSeen DEF Alter, IndInv
<1>2. CASE Finish
  <2>1. Active /\ Done /\ etcd' = etcd
    BY <1>2 DEF Finish
  <2>2. CASE job' = Nil
    BY <2>1, <2>2, Broken DEF Idle, SeenSame, Goal, Active
  <2>3. CASE \E c \in VirtualConfigs : job' = Begin(VirtualStage, c)
    <3>1. PICK c \in ConfigsOf(VirtualStage) : job' = Begin(VirtualStage, c)
      BY <2>3 DEF ConfigsOf
    <3>2. VirtualStage \in Owners
      BY VirtualAssumption DEF Owners
    <3>3. Goal.state = "done"
      BY <2>1, GoalIs
    <3> QED BY <2>1, <3>1, <3>2, <3>3, BeginSeen DEF IndInv
  <2> QED BY <1>2, <2>2, <2>3 DEF Finish
<1>3. ASSUME UNCHANGED <<etcd, job>> PROVE SeenStep
  BY <1>3, Broken DEF Idle, SeenSame, Goal, Active, Done
<1>4. (\E v \in Viewers, t \in Types : Deliver(v, t)) \/ (\E t \in Types : FullSync(t))
      \/ UNCHANGED vars => UNCHANGED <<etcd, job>>
  BY DEF Deliver, FullSync, vars
<1>5. CASE Restart
  BY <1>5, Broken DEF Restart, Idle, SeenSame, Goal, Active
<1>6. \A o \in Owners \ {VirtualStage} : Configs[o] = ConfigsOf(o)
  BY DEF ConfigsOf
<1>7. Promise!Move => SeenStep
  BY DEF SeenStep, Promise!Next
<1> QED BY <1>1, <1>2, <1>3, <1>4, <1>5, <1>6, <1>7, PutSeen, DeleteSeen, NextPhaseSeen, Broken
        DEF Next

LEMMA InitSeen == ASSUME Init PROVE Promise!Init
<1>1. etcd = Nothing /\ job = Nil
  BY DEF Init
<1>2. \A t \in Types : DOMAIN Nothing[t] = {}
  BY DEF Nothing, NoResources
<1>3. \A e \in Entries(etcd) : FALSE
  BY <1>1, <1>2, EntriesIs
<1>4. Goal = <<>>
  BY <1>1 DEF Goal, Active
<1> QED BY <1>3, <1>4 DEF Promise!Init, Promise!NoGoal

(* If the cache has caught up when an Alter begins, the store keeps the    *)
(* promise its callers build on: with its caches, watches, phases and      *)
(* intervals out of sight, an Alter does nothing but move the resources of *)
(* its owner, one at a time, towards what is wanted; it may break off      *)
(* anywhere, but does not return without an error before it has arrived.   *)
THEOREM StoreRefines == ASSUME RegistryInTime PROVE Spec => Refines
<1>1. Spec => []Arrived
  <2>1. IndInv /\ TimeInv => Arrived
    BY HasArrived
  <2> QED BY <2>1, InTime, PTL
<1>2. Init => Promise!Init
  BY InitSeen
<1>3. IndInv /\ Arrived' /\ [Next]_vars => [Promise!Next]_<<Entries(etcd), Goal>>
  BY NextSeen DEF SeenStep
<1> QED BY <1>1, <1>2, <1>3, InductiveInvariant, PTL DEF Spec, Refines, Promise!Spec

(* Whatever the cache holds, however far it lags and whatever fails: a     *)
(* step that changes what APISIX acts on is of an Alter in progress, and   *)
(* either brings one wanted resource to what is wanted or takes out one of *)
(* the owner's that is not wanted.                                         *)
THEOREM StoreMovesOnly == Spec => [][Entries(etcd)' # Entries(etcd) => Promise!Move]_vars
<1> DEFINE OnlyMoves == Entries(etcd)' # Entries(etcd) => Promise!Move
<1>1. ASSUME IndInv, [Next]_vars, ~SeenSame PROVE Promise!Move
  <2>1. (\E o \in Owners \ {VirtualStage} : \E c \in Configs[o] : Alter(o, c))
        \/ NextPhase \/ Finish \/ (\E v \in Viewers, u \in Types : Deliver(v, u))
        \/ (\E u \in Types : FullSync(u)) \/ Restart \/ UNCHANGED vars => SeenSame
    BY DEF Alter, NextPhase, Finish, Deliver, FullSync, Restart, vars, SeenSame
  <2> QED BY <1>1, <2>1, PutSeen, DeleteSeen DEF Next, Idle
<1>2. IndInv /\ [Next]_vars => OnlyMoves
  BY <1>1 DEF SeenSame
<1> QED BY <1>2, InductiveInvariant, PTL DEF Spec

-----------------------------------------------------------------------------
(* The copy that a viewer has of the resources of a type.                  *)
StatusOf(f, t) == [id \in Ids[t] |-> Status(f[t], id)]

Copy(v, t) == INSTANCE LaggingView WITH
                  Ids <- Ids[t], Values <- Resources, Copied <- Ids[t],
                  store <- StatusOf(etcd, t), view <- StatusOf(view[v], t), feed <- feed[v][t]

CopyStep(v, t) == [Copy(v, t)!Next]_<<StatusOf(etcd, t), StatusOf(view[v], t), feed[v][t]>>

LEMMA CopyWrite ==
    ASSUME IndInv, NEW v \in Viewers, NEW t \in Types,
           NEW u \in Types, NEW id \in Ids[u], NEW r \in Resources \union {Nil}, Write(u, id, r)
    PROVE  CopyStep(v, t)
<1>1. /\ \A w \in Types : w # u => etcd'[w] = etcd[w]
      /\ \A i : Status(etcd'[u], i) = IF i = id THEN r ELSE Status(etcd[u], i)
      /\ feed'[v][u] = Append(feed[v][u], [id |-> id, r |-> r])
      /\ \A w \in Types : w # u => feed'[v][w] = feed[v][w]
      /\ view' = view
  BY WriteIs DEF IndInv, StoreInv
<1>2. CASE u # t
  BY <1>1, <1>2 DEF CopyStep, StatusOf
<1>3. CASE u = t
  <2>1. StatusOf(etcd, t)' = [StatusOf(etcd, t) EXCEPT ![id] = r]
    BY <1>1, <1>3 DEF StatusOf
  <2>2. feed'[v][t] = Append(feed[v][t], [id |-> id, r |-> r]) /\ StatusOf(view[v], t)' = StatusOf(view[v], t)
    BY <1>1, <1>3 DEF StatusOf
  <2>3. Copy(v, t)!Write(id, r)
    BY <2>1, <2>2 DEF Copy!Write
  <2> QED BY <1>3, <2>3 DEF CopyStep, Copy!Next
<1> QED BY <1>2, <1>3

LEMMA CopyDeliver ==
    ASSUME IndInv, NEW v \in Viewers, NEW t \in Types,
           NEW w \in Viewers, NEW u \in Types, Deliver(w, u)
    PROVE  CopyStep(v, t)
<1>1. /\ feed[w][u] # <<>> /\ feed[w][u] \in Seq(Changes)
      /\ feed'[w][u] = Tail(feed[w][u])
      /\ \A i : Status(view'[w][u], i) =
             IF i = feed[w][u][1].id THEN feed[w][u][1].r ELSE Status(view[w][u], i)
      /\ \A x \in Viewers, y \in Types : (x # w \/ y # u) =>
             view'[x][y] = view[x][y] /\ feed'[x][y] = feed[x][y]
      /\ etcd' = etcd
  BY DeliverIs DEF IndInv, StoreInv, Shaped
<1>2. CASE w # v \/ u # t
  BY <1>1, <1>2 DEF CopyStep, StatusOf
<1>3. CASE w = v /\ u = t
  <2> DEFINE s == feed[v][t]
  <2>1. 1 \in 1..Len(s) /\ feed'[v][t] = SubSeq(s, 2, Len(s))
    <3>1. s \in Seq(Changes) /\ s # <<>> /\ feed'[v][t] = Tail(s)
      BY <1>1, <1>3
    <3> HIDE DEF s
    <3>2. Tail(s) = SubSeq(s, 2, Len(s)) /\ Len(s) \in Nat \ {0}
      BY <3>1, TailIsSubSeq
    <3> QED BY <3>1, <3>2 DEF s
  <2>2. ASSUME NEW id \in Ids[t] PROVE Status(view'[v][t], id) = Copy(v, t)!After(1, id)
    <3> DEFINE S == {i \in 1..1 : s[i].id = id}
    <3>1. Copy(v, t)!After(1, id) = IF S = {} THEN Status(view[v][t], id)
                                    ELSE s[CHOOSE i \in S : \A j \in S : j <= i].r
      BY DEF Copy!After, StatusOf
    <3>2. S = IF s[1].id = id THEN {1} ELSE {}
      OBVIOUS
    <3> HIDE DEF S
    <3>3. ASSUME s[1].id = id PROVE (CHOOSE i \in S : \A j \in S : j <= i) = 1
      BY <3>2, <3>3
    <3> HIDE DEF s
    <3> QED BY <1>1, <1>3, <3>1, <3>2, <3>3 DEF s
  <2>3. StatusOf(view[v], t)' = [id \in Ids[t] |-> Copy(v, t)!After(1, id)]
    BY <2>2 DEF StatusOf
  <2>4. Copy(v, t)!Deliver
    BY <1>1, <2>1, <2>3 DEF Copy!Deliver, StatusOf
  <2> QED BY <2>4 DEF CopyStep, Copy!Next
<1> QED BY <1>2, <1>3

LEMMA CopySync ==
    ASSUME NEW v, NEW t, etcd' = etcd, view'[v][t] = etcd[t], feed'[v][t] = <<>>
    PROVE  CopyStep(v, t)
<1>1. Copy(v, t)!FullSync
  BY DEF Copy!FullSync, StatusOf
<1> QED BY <1>1 DEF CopyStep, Copy!Next

LEMMA CopySame ==
    ASSUME NEW v, NEW t, etcd' = etcd, view'[v][t] = view[v][t], feed'[v][t] = feed[v][t]
    PROVE  CopyStep(v, t)
BY DEF CopyStep, StatusOf

LEMMA CopyNext ==
    ASSUME IndInv, NEW v \in Viewers, NEW t \in Types, [Next]_vars
    PROVE  CopyStep(v, t)
<1>1. ASSUME NEW u, NEW id, Putting(u, id) PROVE CopyStep(v, t)
  <2>1. u \in Types /\ id \in Ids[u] /\ Cleared(u, job.put[u][id]) \in Resources
    BY <1>1, PutReady DEF IndInv, Putting
  <2> QED BY <1>1, <2>1, CopyWrite DEF Putting
<1>2. ASSUME NEW u, NEW id, Deleting(u, id) PROVE CopyStep(v, t)
  <2>1. u \in Types /\ id \in Ids[u] /\ Nil \in Resources \union {Nil}
    BY <1>2 DEF IndInv, JobInv, Deleting
  <2> QED BY <1>2, <2>1, CopyWrite DEF Deleting
<1>3. ASSUME Same3 PROVE CopyStep(v, t)
  BY <1>3, CopySame DEF Same3
<1>4. ASSUME NEW id, PutResource(id) \/ FailPut(id) PROVE CopyStep(v, t)
  BY <1>1, <1>3, <1>4, PutStep
<1>5. ASSUME NEW id, DeleteResource(id) \/ FailDelete(id) PROVE CopyStep(v, t)
  BY <1>2, <1>3, <1>5, DeleteStep
<1>6. ASSUME NEW u \in Types, FullSync(u) PROVE CopyStep(v, t)
  <2>1. /\ view'["registry"][u] = etcd[u] /\ feed'["registry"][u] = <<>>
        /\ \A w \in Viewers, x \in Types : (w # "registry" \/ x # u) =>
               view'[w][x] = view[w][x] /\ feed'[w][x] = feed[w][x]
        /\ etcd' = etcd
    BY <1>6, FullSyncIs DEF IndInv
  <2>2. CASE v = "registry" /\ t = u
    BY <2>1, <2>2, CopySync
  <2>3. CASE v # "registry" \/ t # u
    BY <2>1, <2>3, CopySame
  <2> QED BY <2>2, <2>3
<1>7. CASE Restart
  <2>1. /\ view'["registry"][t] = etcd[t] /\ feed'["registry"][t] = <<>>
        /\ view'["dataplane"][t] = view["dataplane"][t]
        /\ feed'["dataplane"][t] = feed["dataplane"][t]
        /\ etcd' = etcd
    BY <1>7, RestartIs DEF IndInv
  <2>2. CASE v = "registry"
    BY <2>1, <2>2, CopySync
  <2>3. CASE v = "dataplane"
    BY <2>1, <2>3, CopySame
  <2> QED BY <2>2, <2>3 DEF Viewers
<1>8. (\E o \in Owners \ {VirtualStage} : \E c \in Configs[o] : Alter(o, c))
      \/ NextPhase \/ Finish \/ UNCHANGED vars => Same3
  BY DEF Alter, NextPhase, Finish, vars, Same3
<1>9. ASSUME NEW w \in Viewers, NEW u \in Types, Deliver(w, u) PROVE CopyStep(v, t)
  BY <1>9, CopyDeliver
<1> QED BY <1>3, <1>4, <1>5, <1>6, <1>7, <1>8, <1>9 DEF Next

LEMMA CopyInit == ASSUME Init, NEW v \in Viewers, NEW t \in Types PROVE Copy(v, t)!Init
<1>1. etcd[t] = NoResources /\ view[v][t] = NoResources /\ feed[v][t] = <<>>
  BY DEF Init, Nothing
<1>2. \A id : Status(NoResources, id) = Nil
  BY DEF Status, NoResources
<1> QED BY <1>1, <1>2 DEF Copy!Init, StatusOf

(* The cache and the data plane, as ApisixStore has them, are LaggingViews *)
(* of etcd, which is what ApisixRegistry is proved to keep: each of them   *)
(* goes through the states of etcd in their order, type by type.           *)
THEOREM StoreCopiesLag ==
    ASSUME NEW v \in Viewers, NEW t \in Types PROVE Spec => Copy(v, t)!Spec
<1>1. Init => Copy(v, t)!Init
  BY CopyInit
<1>2. IndInv /\ [Next]_vars => [Copy(v, t)!Next]_<<StatusOf(etcd, t), StatusOf(view[v], t), feed[v][t]>>
  BY CopyNext DEF CopyStep
<1> QED BY <1>1, <1>2, InductiveInvariant, PTL DEF Spec, Copy!Spec
=============================================================================
