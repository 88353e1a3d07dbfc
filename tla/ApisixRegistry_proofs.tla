----------------------- MODULE ApisixRegistry_proofs ------------------------
(***************************************************************************)
(* Theorems about ApisixRegistry, for all sets of keys and values and any  *)
(* number of writes, compactions, broken watches, failures and crashes.    *)
(***************************************************************************)
EXTENDS ApisixRegistry, SequenceTheorems, TLAPS

(* ValueAt for any log; and that the writes to a key, up to a revision,    *)
(* have a last one.                                                        *)
WritesTo(l, id, n) == {i \in 1..n : l[i].id = id}
At(l, id, n) ==
    LET S == {i \in 1..n : l[i].id = id}
    IN  IF S = {} THEN Nil ELSE l[CHOOSE i \in S : \A j \in S : j <= i].r
HasLast(l, id, n) ==
    \/ WritesTo(l, id, n) = {}
    \/ \E i \in WritesTo(l, id, n) : \A j \in WritesTo(l, id, n) : j <= i

(* The state of etcd is what its log says.                                 *)
LogInv ==
    /\ \A id \in Ids, n \in 0..Len(log) : HasLast(log, id, n)
    /\ \A id \in Ids : store[id] = At(log, id, Len(log))
    /\ \A n \in 1..Len(log) : log[n].id \in Clean => log[n].r \notin Unparsed

(* Where the watch goes on, and the response it has delivered.             *)
WatchInv ==
    /\ pc # "apply" => currentRevision >= pos /\ (ahead \/ currentRevision = pos)
    /\ pc = "sync" => ~watch.open
    /\ watch.open => watch.next \in 1..Len(log) + 1
    /\ pc = "wait" /\ watch.open => watch.next \in pos..pos + 1
    /\ pc = "apply" =>
            /\ watch.open /\ watch.next = resp.hi + 1
            /\ resp.lo \in pos..pos + 1 /\ resp.lo <= resp.hi + 1
            /\ pos <= resp.hi /\ resp.hi <= resp.rev

(* CacheIsOneState, value by value.                                        *)
ParsedValue(v) == IF v \in Unparsed THEN Nil ELSE v
CacheInv == \A id \in Ids \ stale : resources[id] = ParsedValue(At(log, id, pos))

IndInv == TypeOK /\ LogInv /\ WatchInv /\ CacheInv

-----------------------------------------------------------------------------
(* The last write to a key.                                                *)
LEMMA AtLast ==
    ASSUME NEW l, NEW id, NEW n \in Nat, NEW i \in WritesTo(l, id, n),
           \A j \in WritesTo(l, id, n) : j <= i
    PROVE  At(l, id, n) = l[i].r
<1> DEFINE S == {k \in 1..n : l[k].id = id}
           c == CHOOSE k \in S : \A j \in S : j <= k
<1>1. i \in S /\ \A j \in S : j <= i
  BY DEF WritesTo
<1> HIDE DEF S
<1>2. c \in S /\ \A j \in S : j <= c
  BY <1>1
<1> HIDE DEF c
<1>3. c <= i /\ i <= c
  BY <1>1, <1>2
<1>4. c = i
  BY <1>1, <1>2, <1>3 DEF S
<1>5. At(l, id, n) = l[c].r
  BY <1>1 DEF At, S, c
<1> QED BY <1>4, <1>5

LEMMA AtNone ==
    ASSUME NEW l, NEW id, NEW n \in Nat, WritesTo(l, id, n) = {} PROVE At(l, id, n) = Nil
BY DEF At, WritesTo

(* It is the same in two logs that agree on the writes to the key.         *)
LEMMA AtSame ==
    ASSUME NEW l, NEW k, NEW id, NEW n \in Nat, NEW m \in Nat, HasLast(l, id, n),
           WritesTo(k, id, m) = WritesTo(l, id, n),
           \A i \in WritesTo(l, id, n) : k[i].r = l[i].r
    PROVE  At(k, id, m) = At(l, id, n) /\ HasLast(k, id, m)
<1>1. CASE WritesTo(l, id, n) = {}
  BY <1>1, AtNone DEF HasLast
<1>2. CASE \E i \in WritesTo(l, id, n) : \A j \in WritesTo(l, id, n) : j <= i
  <2>1. PICK i \in WritesTo(l, id, n) : \A j \in WritesTo(l, id, n) : j <= i
    BY <1>2
  <2>2. At(l, id, n) = l[i].r
    BY <2>1, AtLast
  <2>3. At(k, id, m) = k[i].r
    BY <2>1, AtLast
  <2> QED BY <2>1, <2>2, <2>3 DEF HasLast
<1> QED BY <1>1, <1>2 DEF HasLast

LEMMA AtStep ==
    ASSUME NEW l, NEW id, NEW n \in Nat, HasLast(l, id, n)
    PROVE  /\ HasLast(l, id, n + 1)
           /\ At(l, id, n + 1) = IF l[n + 1].id = id THEN l[n + 1].r ELSE At(l, id, n)
<1>1. CASE l[n + 1].id = id
  <2>1. n + 1 \in WritesTo(l, id, n + 1) /\ \A j \in WritesTo(l, id, n + 1) : j <= n + 1
    BY <1>1 DEF WritesTo
  <2>2. At(l, id, n + 1) = l[n + 1].r
    BY <2>1, AtLast
  <2> QED BY <1>1, <2>1, <2>2 DEF HasLast
<1>2. CASE l[n + 1].id # id
  <2>1. WritesTo(l, id, n + 1) = WritesTo(l, id, n)
    BY <1>2 DEF WritesTo
  <2>2. At(l, id, n + 1) = At(l, id, n) /\ HasLast(l, id, n + 1)
    BY <2>1, AtSame
  <2> QED BY <1>2, <2>2
<1> QED BY <1>1, <1>2

(* Between two revisions without a write to the key nothing changes.       *)
LEMMA AtSkip ==
    ASSUME NEW l, NEW id, NEW n \in Nat, NEW m \in Nat, n <= m, HasLast(l, id, n),
           \A i \in n + 1..m : l[i].id # id
    PROVE  At(l, id, m) = At(l, id, n)
<1>1. WritesTo(l, id, m) = WritesTo(l, id, n)
  BY DEF WritesTo
<1> QED BY <1>1, AtSame

(* An append does not touch what was there.                                *)
LEMMA AtAppend ==
    ASSUME NEW l \in Seq(Events), NEW e \in Events, NEW id, NEW n \in 0..Len(l),
           HasLast(l, id, n)
    PROVE  At(Append(l, e), id, n) = At(l, id, n) /\ HasLast(Append(l, e), id, n)
<1>1. \A i \in 1..n : Append(l, e)[i] = l[i]
  OBVIOUS
<1>2. WritesTo(Append(l, e), id, n) = WritesTo(l, id, n)
  BY <1>1 DEF WritesTo
<1>3. \A i \in WritesTo(l, id, n) : Append(l, e)[i].r = l[i].r
  BY <1>1 DEF WritesTo
<1>4. n \in Nat
  OBVIOUS
<1> QED BY <1>2, <1>3, <1>4, AtSame

LEMMA NilParsed == Nil \notin Unparsed
BY UnparsedAssumption, NilAssumption

LEMMA ParsedIs == ASSUME NEW m, NEW id \in Ids PROVE Parsed(m)[id] = ParsedValue(m[id])
BY DEF Parsed, ParsedValue

LEMMA ValueAtIs == ASSUME NEW id, NEW n PROVE ValueAt(id, n) = At(log, id, n)
BY DEF ValueAt, At

-----------------------------------------------------------------------------
(* The invariant, and etcd.                                                *)
LEMMA IndInit == Init => IndInv
<1> SUFFICES ASSUME Init PROVE IndInv
  OBVIOUS
<1>1. Len(log) = 0 /\ log \in Seq(Events)
  BY DEF Init, EtcdInit
<1>2. TypeOK
  <2>1. EtcdTypeOK
    BY <1>1 DEF Init, EtcdInit, EtcdTypeOK, Some
  <2>2. resources \in [Ids -> Some] /\ stale \subseteq Ids
    BY DEF Init, Some
  <2>3. /\ watch \in [open : BOOLEAN, next : Nat, lost : BOOLEAN]
        /\ resp \in [lo : 1..Len(log) + 1, hi : 0..Len(log), rev : 0..Len(log), kept : 0..compacted]
    BY <1>1 DEF Init, EtcdInit, NoWatch, NoResp
  <2>4. currentRevision \in 0..Len(log) /\ pos \in 0..Len(log)
    BY <1>1 DEF Init
  <2>5. pc = "create" /\ ahead \in BOOLEAN
    BY DEF Init
  <2>6. failures \in Nat /\ crashes \in Nat
    BY DEF Init
  <2> QED BY <2>1, <2>2, <2>3, <2>4, <2>5, <2>6 DEF TypeOK
<1>3. \A id : WritesTo(log, id, 0) = {}
  BY DEF WritesTo
<1>4. \A id : At(log, id, 0) = Nil
  BY <1>3, AtNone
<1>5. LogInv
  BY <1>1, <1>3, <1>4 DEF Init, EtcdInit, LogInv, HasLast
<1>6. WatchInv
  BY DEF Init, NoWatch, WatchInv
<1>7. CacheInv
  BY <1>4, NilParsed DEF Init, CacheInv, ParsedValue
<1> QED BY <1>2, <1>5, <1>6, <1>7 DEF IndInv

LEMMA EtcdStays ==
    ASSUME IndInv, Etcd
    PROVE  /\ Len(log) \in Nat /\ Len(log') \in Nat /\ Len(log) <= Len(log')
           /\ TypeOK' /\ WatchInv'
<1> USE DEF IndInv, TypeOK, EtcdTypeOK, WatchInv, regVars
<1>1. CASE \E n \in 1..Newest : Compact(n)
  BY <1>1 DEF Etcd, Compact, Newest
<1>2. CASE \E id \in Ids, r \in Some : Write(id, r)
  <2>1. PICK id \in Ids, r \in Some : Write(id, r)
    BY <1>2
  <2>2. [id |-> id, r |-> r, prev |-> store[id]] \in Events
    BY <2>1 DEF Events
  <2>3. log' \in Seq(Events) /\ Len(log') = Len(log) + 1 /\ Len(log) \in Nat
    BY <2>1, <2>2 DEF Write
  <2>4. EtcdTypeOK'
    BY <2>1, <2>3 DEF Write
  <2> QED BY <2>1, <2>3, <2>4 DEF Etcd, Write
<1> QED BY <1>1, <1>2 DEF Etcd, EtcdStep

LEMMA IndEtcd == ASSUME IndInv, Etcd PROVE IndInv'
<1>1. TypeOK' /\ WatchInv'
  BY EtcdStays
<1>2. CASE \E n \in 1..Newest : Compact(n)
  BY <1>1, <1>2 DEF Etcd, Compact, IndInv, LogInv, CacheInv, regVars
<1>3. CASE \E id \in Ids, r \in Some : Write(id, r)
  <2>1. PICK id \in Ids, r \in Some : Write(id, r)
    BY <1>3
  <2> DEFINE e == [id |-> id, r |-> r, prev |-> store[id]]
             N == Len(log)
  <2>2. e \in Events /\ log \in Seq(Events) /\ N \in Nat /\ pos \in 0..N
    BY DEF IndInv, TypeOK, EtcdTypeOK, Events
  <2>3. /\ log' = Append(log, e) /\ Len(log') = N + 1 /\ log'[N + 1] = e
        /\ \A n \in 1..N : log'[n] = log[n]
    BY <2>1, <2>2 DEF Write
  <2>4. e.id = id /\ e.r = r
    OBVIOUS
  <2> HIDE DEF e, N
  <2>5. ASSUME NEW k \in Ids, NEW n \in 0..N
        PROVE  HasLast(log', k, n) /\ At(log', k, n) = At(log, k, n)
    BY <2>2, <2>3, AtAppend DEF IndInv, LogInv, N
  <2>6. ASSUME NEW k \in Ids
        PROVE  /\ HasLast(log', k, N + 1)
               /\ At(log', k, N + 1) = IF k = id THEN r ELSE At(log, k, N)
    <3>1. HasLast(log', k, N) /\ At(log', k, N) = At(log, k, N)
      BY <2>2, <2>5
    <3>2. /\ HasLast(log', k, N + 1)
          /\ At(log', k, N + 1) = IF log'[N + 1].id = k THEN log'[N + 1].r ELSE At(log', k, N)
      BY <2>2, <3>1, AtStep
    <3> QED BY <2>3, <2>4, <3>1, <3>2
  <2>7. \A k \in Ids, n \in 0..Len(log') : HasLast(log', k, n)
    BY <2>2, <2>3, <2>5, <2>6
  <2>8. \A k \in Ids : store'[k] = At(log', k, Len(log'))
    BY <2>1, <2>3, <2>6 DEF Write, IndInv, TypeOK, EtcdTypeOK, LogInv, N
  <2>9. \A n \in 1..Len(log') : log'[n].id \in Clean => log'[n].r \notin Unparsed
    <3>1. id \in Clean => r \notin Unparsed
      BY <2>1 DEF Etcd, Write, Clean, IndInv, TypeOK, EtcdTypeOK
    <3>2. \A n \in 1..Len(log') : n \in 1..N \/ n = N + 1
      BY <2>2, <2>3
    <3> QED BY <2>3, <2>4, <3>1, <3>2 DEF IndInv, LogInv, N
  <2>10. CacheInv'
    BY <2>2, <2>5 DEF Etcd, regVars, CacheInv, ParsedValue, IndInv
  <2> QED BY <1>1, <2>7, <2>8, <2>9, <2>10 DEF IndInv, LogInv, Clean
<1> QED BY <1>2, <1>3 DEF Etcd, EtcdStep

-----------------------------------------------------------------------------
LEMMA NoWatchType ==
    NoWatch \in [open : BOOLEAN, next : Nat, lost : BOOLEAN] /\ ~NoWatch.open
BY DEF NoWatch

(* What the steps of the goroutine have in common: etcd is unchanged, so   *)
(* that only the cache and the position have to be looked at.              *)
LEMMA SameLog == ASSUME IndInv, UNCHANGED etcdVars PROVE EtcdTypeOK' /\ LogInv'
BY DEF IndInv, TypeOK, EtcdTypeOK, LogInv, etcdVars, Clean

LEMMA IndCreate == ASSUME IndInv, CreateWatch PROVE IndInv'
<1> DEFINE s == StartRevision
<1>1. /\ currentRevision \in 0..Len(log) /\ pos \in 0..Len(log) /\ Len(log) \in Nat
      /\ log \in Seq(Events)
  BY DEF IndInv, TypeOK, EtcdTypeOK
<1>2. currentRevision >= pos /\ (ahead \/ currentRevision = pos)
  BY DEF CreateWatch, IndInv, WatchInv
<1>3. s \in Nat \ {0} /\ s >= currentRevision /\ s - 1 <= currentRevision
  BY <1>1 DEF StartRevision, Larger
<1> HIDE DEF s
<1>4. /\ watch' = [open |-> TRUE, next |-> s, lost |-> s < compacted]
      /\ pos' = Larger(pos, s - 1) /\ stale' = stale \union {log[n].id : n \in pos + 1..s - 1}
      /\ pc' = "wait"
      /\ UNCHANGED <<etcdVars, resources, currentRevision, resp, ahead, failures, crashes>>
  BY DEF CreateWatch, s
<1>5. pos' \in pos..currentRevision /\ pos' <= s /\ s <= pos' + 1 /\ (ahead \/ pos' = pos)
  BY <1>1, <1>2, <1>3, <1>4 DEF Larger
<1>6. {log[n].id : n \in pos + 1..s - 1} \subseteq Ids
  <2>1. \A n \in pos + 1..s - 1 : n \in 1..Len(log)
    BY <1>1, <1>3
  <2>2. \A n \in 1..Len(log) : log[n] \in Events
    BY <1>1
  <2> QED BY <2>1, <2>2 DEF Events
<1>7. TypeOK'
  BY <1>1, <1>3, <1>4, <1>5, <1>6, SameLog DEF IndInv, TypeOK, etcdVars
<1>8. WatchInv'
  BY <1>1, <1>2, <1>3, <1>4, <1>5 DEF WatchInv, etcdVars
<1>9. CacheInv'
  <2> SUFFICES ASSUME NEW id \in Ids \ stale'
               PROVE  resources'[id] = ParsedValue(At(log', id, pos'))
    BY DEF CacheInv, ParsedValue
  <2>1. id \in Ids \ stale /\ \A n \in pos + 1..s - 1 : log[n].id # id
    BY <1>4
  <2>2. \A n \in pos + 1..pos' : log[n].id # id
    BY <1>1, <1>3, <1>4, <2>1 DEF Larger
  <2>3. At(log, id, pos') = At(log, id, pos)
    BY <1>1, <1>5, <2>2, AtSkip DEF IndInv, LogInv
  <2> QED BY <1>4, <2>1, <2>3 DEF IndInv, CacheInv, etcdVars
<1> QED BY <1>4, <1>7, <1>8, <1>9, SameLog DEF IndInv

LEMMA IndReceive ==
    ASSUME IndInv, NEW n \in 1..Newest, NEW h \in 1..Newest, Receive(n, h) PROVE IndInv'
<1> USE DEF Receive, Newest
<1>1. Len(log) \in Nat /\ n \in watch.next..Len(log) /\ n <= h
  BY DEF IndInv, TypeOK, EtcdTypeOK, HeaderOf
<1>2. watch.next \in 1..Len(log) /\ watch.next \in pos..pos + 1 /\ pos \in 0..Len(log)
  BY <1>1 DEF IndInv, WatchInv, TypeOK
<1>3. TypeOK'
  <2>1. watch' \in [open : BOOLEAN, next : Nat, lost : BOOLEAN]
    BY <1>1, <1>2 DEF IndInv, TypeOK
  <2>2. resp' \in [lo : 1..Len(log) + 1, hi : 0..Len(log), rev : 0..Len(log), kept : 0..compacted]
    BY <1>1, <1>2 DEF IndInv, TypeOK, EtcdTypeOK
  <2> QED BY <2>1, <2>2, SameLog DEF IndInv, TypeOK, etcdVars
<1>4. WatchInv'
  BY <1>1, <1>2 DEF IndInv, TypeOK, WatchInv, etcdVars
<1>5. CacheInv'
  BY DEF IndInv, CacheInv, ParsedValue, etcdVars
<1> QED BY <1>3, <1>4, <1>5, SameLog DEF IndInv

LEMMA IndApply == ASSUME IndInv, ApplyEvent PROVE IndInv'
<1> DEFINE n == resp.lo
           e == log[n]
<1>1. Len(log) \in Nat /\ log \in Seq(Events) /\ pos \in 0..Len(log)
  BY DEF IndInv, TypeOK, EtcdTypeOK
<1>2. /\ pc = "apply" /\ n \in 1..Len(log) /\ n <= resp.hi /\ n \in pos..pos + 1
      /\ resp.hi \in 0..Len(log) /\ resp \in [lo : 1..Len(log) + 1, hi : 0..Len(log),
                                              rev : 0..Len(log), kept : 0..compacted]
  BY <1>1 DEF ApplyEvent, IndInv, TypeOK, WatchInv
<1>3. e \in Events /\ e.id \in Ids /\ e.r \in Some
  <2>1. e \in Events
    BY <1>1, <1>2
  <2> QED BY <2>1 DEF Events
<1>4. /\ pos' = Larger(pos, n) /\ resp' = [resp EXCEPT !.lo = @ + 1]
      /\ UNCHANGED <<etcdVars, currentRevision, pc, watch, ahead, failures, crashes>>
  BY DEF ApplyEvent
<1>5. \/ /\ Handled(e) /\ resources' = [resources EXCEPT ![e.id] = e.r]
         /\ stale' = stale \ {e.id}
      \/ resources' = resources /\ stale' = stale \union {e.id}
  BY DEF ApplyEvent
<1> HIDE DEF n, e
<1>6. pos' = n /\ resp'.lo = n + 1 /\ resp'.hi = resp.hi /\ resp'.rev = resp.rev
  BY <1>1, <1>2, <1>4 DEF Larger, n
<1>7. TypeOK'
  <2>1. resources' \in [Ids -> Some] /\ stale' \subseteq Ids
    BY <1>3, <1>5 DEF IndInv, TypeOK
  <2>2. resp' \in [lo : 1..Len(log) + 1, hi : 0..Len(log), rev : 0..Len(log), kept : 0..compacted]
    BY <1>1, <1>2, <1>4 DEF n
  <2>3. pos' \in 0..Len(log)
    BY <1>1, <1>2, <1>6
  <2> QED BY <1>4, <2>1, <2>2, <2>3, SameLog DEF IndInv, TypeOK, etcdVars
<1>8. WatchInv'
  BY <1>1, <1>2, <1>4, <1>6 DEF IndInv, WatchInv, etcdVars
<1>9. CacheInv'
  <2> SUFFICES ASSUME NEW id \in Ids \ stale'
               PROVE  resources'[id] = ParsedValue(At(log', id, pos'))
    BY DEF CacheInv, ParsedValue
  <2>1. log' = log
    BY <1>4 DEF etcdVars
  <2>2. CASE id = e.id
    <3>1. Handled(e) /\ resources'[id] = e.r
      BY <1>3, <1>5, <2>2 DEF IndInv, TypeOK
    <3>2. e.r \notin Unparsed
      BY <3>1, NilParsed DEF Handled
    <3>3. n - 1 \in 0..Len(log) /\ n - 1 \in Nat /\ (n - 1) + 1 = n
      BY <1>1, <1>2
    <3>4. At(log, id, n) = e.r
      BY <2>2, <3>3, AtStep DEF IndInv, LogInv, e
    <3> QED BY <1>6, <2>1, <3>1, <3>2, <3>4 DEF ParsedValue
  <2>3. CASE id # e.id
    <3>1. id \in Ids \ stale /\ resources'[id] = resources[id]
      BY <1>5, <2>3 DEF IndInv, TypeOK
    <3>2. At(log, id, n) = At(log, id, pos)
      <4>1. \A i \in pos + 1..n : log[i].id # id
        BY <1>1, <1>2, <2>3 DEF e
      <4> QED BY <1>1, <1>2, <4>1, AtSkip DEF IndInv, LogInv
    <3> QED BY <1>6, <2>1, <3>1, <3>2 DEF IndInv, CacheInv
  <2> QED BY <2>2, <2>3
<1> QED BY <1>4, <1>7, <1>8, <1>9, SameLog DEF IndInv

(* The steps that leave the cache and the position alone.                  *)
LEMMA IndWatch ==
    ASSUME IndInv, EndResponse \/ Compacted \/ WatchFails \/ FullSyncFails \/ ChannelEnds
    PROVE  IndInv'
<1>1. UNCHANGED <<etcdVars, resources, pos, stale>>
  BY DEF EndResponse, Compacted, WatchFails, FullSyncFails, ChannelEnds
<1>2. CacheInv'
  BY <1>1 DEF IndInv, CacheInv, ParsedValue, etcdVars
<1> USE DEF IndInv, TypeOK, EtcdTypeOK, WatchInv
<1>3. TypeOK' /\ WatchInv'
  <2>1. CASE EndResponse
    BY <1>1, <2>1, SameLog DEF EndResponse, RevisionSeen, NoResp, etcdVars
  <2>2. CASE Compacted \/ WatchFails
    <3>1. watch' \in [open : BOOLEAN, next : Nat, lost : BOOLEAN] /\ ~watch'.open
      BY <2>2, NoWatchType DEF Compacted, WatchFails
    <3>2. UNCHANGED <<currentRevision, resp, ahead, crashes>> /\ failures' \in Nat
      BY <2>2 DEF Compacted, WatchFails
    <3>3. pc = "wait" /\ pc' \in {"sync", "create"}
      BY <2>2 DEF Compacted, WatchFails
    <3> QED BY <1>1, <3>1, <3>2, <3>3, SameLog DEF etcdVars
  <2>3. CASE FullSyncFails \/ ChannelEnds
    BY <1>1, <2>3, SameLog DEF FullSyncFails, ChannelEnds, Recreate, etcdVars
  <2> QED BY <2>1, <2>2, <2>3
<1> QED BY <1>1, <1>2, <1>3, SameLog

(* A full sync is the newest state.                                        *)
LEMMA SyncedCache ==
    ASSUME IndInv, FullSynced, UNCHANGED etcdVars
    PROVE  /\ CacheInv' /\ resources' \in [Ids -> Some]
           /\ pos' = Len(log) /\ currentRevision' = Len(log) /\ stale' = {} /\ ahead' = FALSE
<1>1. /\ resources' = Parsed(store) /\ pos' = Len(log) /\ currentRevision' = Len(log)
      /\ stale' = {} /\ ahead' = FALSE
  BY DEF FullSynced, Newest
<1>2. \A id \in Ids : resources'[id] = ParsedValue(At(log, id, Len(log)))
  BY <1>1, ParsedIs DEF IndInv, LogInv
<1>3. CacheInv'
  BY <1>1, <1>2 DEF CacheInv, ParsedValue, etcdVars
<1>4. resources' \in [Ids -> Some]
  BY <1>1 DEF Parsed, IndInv, TypeOK, EtcdTypeOK, Some
<1> QED BY <1>1, <1>3, <1>4

LEMMA IndSync ==
    ASSUME IndInv, FullSync \/ EventPanics \/ Crash PROVE IndInv'
<1>1. FullSynced /\ UNCHANGED etcdVars /\ pc' = "create"
  BY DEF FullSync, EventPanics, Crash, Restart
<1>2. Len(log) \in Nat
  BY DEF IndInv, TypeOK, EtcdTypeOK
<1>3. UNCHANGED <<watch, resp>> \/ (watch' = NoWatch /\ resp' = NoResp)
  BY DEF FullSync, EventPanics, Crash, Restart
<1>4. failures' \in Nat /\ crashes' \in Nat
  BY DEF FullSync, EventPanics, Crash, Restart, IndInv, TypeOK
<1>5. /\ resources' \in [Ids -> Some] /\ pos' = Len(log) /\ currentRevision' = Len(log)
      /\ stale' = {} /\ ahead' = FALSE
  BY <1>1, SyncedCache
<1>6. TypeOK'
  <2>1. watch' \in [open : BOOLEAN, next : Nat, lost : BOOLEAN]
    BY <1>3, NoWatchType DEF IndInv, TypeOK
  <2>2. resp' \in [lo : 1..Len(log) + 1, hi : 0..Len(log), rev : 0..Len(log), kept : 0..compacted]
    BY <1>2, <1>3 DEF IndInv, TypeOK, EtcdTypeOK, NoResp
  <2>3. ahead' \in BOOLEAN /\ stale' \subseteq Ids
    BY <1>5
  <2>4. pos' \in 0..Len(log) /\ currentRevision' \in 0..Len(log)
    BY <1>2, <1>5
  <2> QED BY <1>1, <1>4, <1>5, <2>1, <2>2, <2>3, <2>4, SameLog DEF TypeOK, etcdVars
<1>7. watch'.open => watch'.next \in 1..Len(log) + 1
  BY <1>3 DEF IndInv, WatchInv, NoWatch
<1>8. WatchInv'
  BY <1>1, <1>2, <1>5, <1>7 DEF WatchInv, etcdVars
<1> QED BY <1>1, <1>6, <1>8, SyncedCache, SameLog DEF IndInv

LEMMA IndNext == ASSUME IndInv, [Next]_vars PROVE IndInv'
<1>1. CASE UNCHANGED vars
  <2>1. TypeOK' /\ WatchInv' /\ CacheInv'
    BY <1>1 DEF IndInv, TypeOK, EtcdTypeOK, WatchInv, CacheInv, ParsedValue, vars, etcdVars, regVars
  <2> QED BY <1>1, <2>1, SameLog DEF IndInv, vars
<1> QED
  BY <1>1, IndEtcd, IndCreate, IndReceive, IndApply, IndWatch, IndSync DEF Next, IncrSync

LEMMA InductiveInvariant == Spec => []IndInv
<1> QED BY IndInit, IndNext, PTL DEF Spec

-----------------------------------------------------------------------------
(* The variables keep their types: the cache never gets ahead of etcd.     *)
THEOREM RegistryTypeOK == Spec => []TypeOK
<1>1. IndInv => TypeOK
  BY DEF IndInv
<1> QED BY <1>1, InductiveInvariant, PTL

(* Whatever watch breaks, is repeated or compacted, the cache is the state *)
(* of etcd at one revision, in every key but the stale ones.               *)
THEOREM RegistryCacheIsOneState == Spec => []CacheIsOneState
<1>1. IndInv => CacheIsOneState
  BY ParsedIs, ValueAtIs DEF IndInv, CacheInv, CacheIsOneState
<1> QED BY <1>1, InductiveInvariant, PTL

(* With all events seen, the cache is what etcd holds now, in every key    *)
(* but the stale ones: what CatchesUp leaves to liveness is only that      *)
(* incrSync gets there.                                                    *)
CaughtUp == pos = Len(log) => \A id \in Ids \ stale : resources[id] = Parsed(store)[id]

THEOREM RegistryCaughtUp == Spec => []CaughtUp
<1>1. IndInv => CaughtUp
  BY ParsedIs DEF IndInv, LogInv, CacheInv, CaughtUp
<1> QED BY <1>1, InductiveInvariant, PTL

LEMMA InvWatchMeetsCache == ASSUME IndInv PROVE WatchMeetsCache
<1>1. Len(log) \in Nat /\ pos \in 0..Len(log) /\ log \in Seq(Events)
  BY DEF IndInv, TypeOK, EtcdTypeOK
<1>2. NoGap
  BY DEF IndInv, WatchInv, NoGap
<1>3. ASSUME pos > 0, Handled(log[pos]), log[pos].id \notin stale
      PROVE  resources[log[pos].id] = log[pos].r
  <2> DEFINE id == log[pos].id
  <2>1. id \in Ids
    <3>1. log[pos] \in Events
      BY <1>1, <1>3
    <3> QED BY <3>1 DEF Events
  <2>2. pos - 1 \in 0..Len(log) /\ pos - 1 \in Nat /\ (pos - 1) + 1 = pos
    BY <1>1, <1>3
  <2>3. At(log, id, pos) = log[pos].r
    BY <2>1, <2>2, AtStep DEF IndInv, LogInv
  <2>4. log[pos].r \notin Unparsed
    BY <1>3, NilParsed DEF Handled
  <2> QED BY <1>3, <2>1, <2>3, <2>4 DEF IndInv, CacheInv, ParsedValue
<1>4. OneRepeat
  BY <1>1, <1>3 DEF IndInv, TypeOK, WatchInv, OneRepeat, Larger
<1> QED BY <1>2, <1>4 DEF WatchMeetsCache

(* But after a response that etcd cut short, a watch starts where the      *)
(* cache is: it misses nothing, and repeats one event at most.             *)
THEOREM RegistryWatchMeetsCache == Spec => []WatchMeetsCache
<1> QED BY InvWatchMeetsCache, InductiveInvariant, PTL

-----------------------------------------------------------------------------
(* The refinement: in the keys with values that can be parsed the view is  *)
(* what the log says at the position of the cache.                         *)
ViewInv == \A id \in Clean : Seen(id) = At(log, id, pos)

LEMMA InvView == ASSUME IndInv PROVE ViewInv
<1> SUFFICES ASSUME NEW id \in Clean PROVE Seen(id) = At(log, id, pos)
  BY DEF ViewInv
<1>1. id \in Ids /\ pos \in 0..Len(log) /\ Len(log) \in Nat /\ pos \in Nat
  BY DEF Clean, IndInv, TypeOK, EtcdTypeOK
<1>2. At(log, id, pos) \notin Unparsed
  <2>1. HasLast(log, id, pos)
    BY <1>1 DEF IndInv, LogInv
  <2>2. CASE WritesTo(log, id, pos) = {}
    BY <1>1, <2>2, AtNone, NilParsed
  <2>3. ASSUME NEW i \in WritesTo(log, id, pos), \A j \in WritesTo(log, id, pos) : j <= i
        PROVE  At(log, id, pos) \notin Unparsed
    <3>1. At(log, id, pos) = log[i].r
      BY <1>1, <2>3, AtLast
    <3>2. i \in 1..Len(log) /\ log[i].id = id
      BY <1>1 DEF WritesTo
    <3> QED BY <3>1, <3>2 DEF IndInv, LogInv
  <2> QED BY <2>1, <2>2, <2>3 DEF HasLast
<1> QED BY <1>1, <1>2, ValueAtIs DEF Seen, IndInv, CacheInv, ParsedValue

(* What the view is after some of the events it has not seen.              *)
LEMMA AfterIs ==
    ASSUME IndInv, ViewInv, NEW n \in 1..Len(log) - pos, NEW id \in Clean
    PROVE  View!After(n, id) = At(log, id, pos + n)
<1> DEFINE S == {i \in 1..n : Unseen[i].id = id}
<1>1. id \in Ids /\ pos \in Nat /\ pos <= Len(log) /\ Len(log) \in Nat
  BY DEF Clean, IndInv, TypeOK, EtcdTypeOK
<1>2. pos + n \in 0..Len(log) /\ pos + n \in Nat /\ pos \in 0..Len(log)
  BY <1>1
<1>3. \A i \in 1..n : Unseen[i].id = log[pos + i].id /\ Unseen[i].r = log[pos + i].r
  BY <1>1 DEF Unseen
<1>4. S = {i \in 1..n : log[pos + i].id = id}
  BY <1>3
<1>5. View!After(n, id) = IF S = {} THEN Seen(id)
                          ELSE Unseen[CHOOSE i \in S : \A j \in S : j <= i].r
  BY DEF View!After
<1> HIDE DEF S
<1>6. CASE S = {}
  <2>1. \A i \in pos + 1..pos + n : log[i].id # id
    <3> SUFFICES ASSUME NEW i \in pos + 1..pos + n, log[i].id = id PROVE FALSE
      OBVIOUS
    <3>1. i - pos \in 1..n /\ pos + (i - pos) = i
      BY <1>1
    <3> QED BY <1>4, <1>6, <3>1
  <2>2. At(log, id, pos + n) = At(log, id, pos)
    BY <1>1, <1>2, <2>1, AtSkip DEF IndInv, LogInv
  <2> QED BY <1>5, <1>6, <2>2 DEF ViewInv
<1>7. CASE S # {}
  <2>1. PICK i \in WritesTo(log, id, pos + n) : \A j \in WritesTo(log, id, pos + n) : j <= i
    <3>1. PICK k \in S : TRUE
      BY <1>7
    <3>2. pos + k \in WritesTo(log, id, pos + n)
      BY <1>1, <1>4 DEF WritesTo
    <3> QED BY <1>1, <1>2, <3>2 DEF IndInv, LogInv, HasLast
  <2>2. \A k \in S : pos + k \in WritesTo(log, id, pos + n)
    BY <1>1, <1>4 DEF WritesTo
  <2>3. i - pos \in S /\ \A k \in S : k <= i - pos
    <3>1. i \in 1..pos + n /\ log[i].id = id
      BY DEF WritesTo
    <3>2. \A k \in S : k \in 1..n /\ pos + k <= i
      BY <1>4, <2>1, <2>2
    <3>3. i - pos \in 1..n /\ pos + (i - pos) = i
      BY <1>1, <1>7, <3>1, <3>2
    <3> QED BY <1>1, <1>4, <3>1, <3>2, <3>3
  <2> DEFINE c == CHOOSE k \in S : \A j \in S : j <= k
  <2>4. c \in S /\ \A j \in S : j <= c
    BY <2>3
  <2> HIDE DEF c
  <2>5. c = i - pos
    <3>1. c <= i - pos /\ i - pos <= c
      BY <2>3, <2>4
    <3>2. c \in Int /\ i - pos \in Int
      BY <1>4, <2>3, <2>4
    <3> QED BY <3>1, <3>2
  <2>6. View!After(n, id) = Unseen[c].r
    BY <1>5, <1>7 DEF c
  <2>7. c \in 1..n /\ pos + c = i
    BY <1>1, <1>4, <2>1, <2>4, <2>5 DEF WritesTo
  <2>8. Unseen[c].r = log[i].r
    BY <1>3, <2>7
  <2>9. At(log, id, pos + n) = log[i].r
    BY <1>2, <2>1, AtLast
  <2> QED BY <2>6, <2>8, <2>9
<1> QED BY <1>6, <1>7

(* The events still to be delivered are a sequence.                        *)
Unlabelled(e)    == [id |-> e.id, r |-> e.r]
FeedOf(l, p) == [n \in 1..Len(l) - p |-> Unlabelled(l[p + n])]

LEMMA FeedIs ==
    ASSUME NEW l \in Seq(Events), NEW p \in 0..Len(l)
    PROVE  /\ FeedOf(l, p) \in Seq([id : Ids, r : Some]) /\ Len(FeedOf(l, p)) = Len(l) - p
           /\ \A n \in 1..Len(l) - p : p + n \in 1..Len(l) /\ FeedOf(l, p)[n] = Unlabelled(l[p + n])
<1>1. Len(l) - p \in Nat /\ \A n \in 1..Len(l) - p : p + n \in 1..Len(l)
  OBVIOUS
<1>2. \A n \in 1..Len(l) : l[n] \in Events
  OBVIOUS
<1>3. \A n \in 1..Len(l) - p : Unlabelled(l[p + n]) \in [id : Ids, r : Some]
  BY <1>1, <1>2 DEF Events, Unlabelled
<1>4. FeedOf(l, p) \in [1..Len(l) - p -> [id : Ids, r : Some]]
  BY <1>3 DEF FeedOf
<1>5. FeedOf(l, p) \in Seq([id : Ids, r : Some])
  <2> DEFINE S == [id : Ids, r : Some]
             k == Len(l) - p
             f == FeedOf(l, p)
  <2>1. k \in Nat /\ f \in [1..k -> S]
    BY <1>1, <1>4
  <2> HIDE DEF S, k, f
  <2>2. f \in Seq(S)
    BY <2>1, SeqDef
  <2> QED BY <2>2 DEF f, S
<1>6. Len(FeedOf(l, p)) = Len(l) - p
  BY <1>1, <1>4, <1>5, LenProperties
<1> QED BY <1>1, <1>5, <1>6 DEF FeedOf

LEMMA UnseenIs == Unseen = FeedOf(log, pos)
BY DEF Unseen, FeedOf, Unlabelled

(* A step of the cache is a delivery of the events it passes.              *)
LEMMA CacheStep ==
    ASSUME IndInv, ViewInv, ViewInv', UNCHANGED <<store, log>>, pos' \in pos..Len(log)
    PROVE  [View!Next]_<<store, [id \in Clean |-> Seen(id)], Unseen>>
<1>1. pos \in Nat /\ pos <= Len(log) /\ Len(log) \in Nat /\ log \in Seq(Events)
  BY DEF IndInv, TypeOK, EtcdTypeOK
<1>2. CASE pos' = pos
  <2>1. Unseen' = Unseen
    BY <1>2 DEF Unseen
  <2>2. \A id \in Clean : Seen(id)' = Seen(id)
    BY <1>2 DEF ViewInv
  <2>3. [id \in Clean |-> Seen(id)]' = [id \in Clean |-> Seen(id)]
    BY <2>2 DEF Clean
  <2> QED BY <2>1, <2>3
<1>3. CASE pos' # pos
  <2>1. PICK n \in 1..Len(log) - pos : pos' = pos + n /\ n \in Nat
    <3>1. pos' \in Nat /\ pos' > pos /\ pos' <= Len(log)
      BY <1>1, <1>3
    <3>2. \A p, q, l \in Nat : p < q /\ q <= l => \E n \in 1..l - p : q = p + n /\ n \in Nat
      <4> TAKE p, q, l \in Nat
      <4> HAVE p < q /\ q <= l
      <4>1. q - p \in 1..l - p /\ q = p + (q - p) /\ q - p \in Nat
        OBVIOUS
      <4> QED BY <4>1
    <3> QED BY <1>1, <3>1, <3>2
  <2>2. /\ Unseen = FeedOf(log, pos) /\ Unseen' = FeedOf(log, pos')
        /\ pos \in 0..Len(log) /\ pos' \in 0..Len(log)
    BY <1>1 DEF Unseen, FeedOf, Unlabelled
  <2>3. /\ Len(Unseen) = Len(log) - pos /\ Unseen \in Seq([id : Ids, r : Some])
        /\ Unseen' = SubSeq(Unseen, n + 1, Len(Unseen))
    <3> DEFINE R == [id : Ids, r : Some]
               t == SubSeq(Unseen, n + 1, Len(Unseen))
    <3>1. /\ Unseen \in Seq(R) /\ Len(Unseen) = Len(log) - pos
          /\ Unseen' \in Seq(R) /\ Len(Unseen') = Len(log) - pos'
      BY <1>1, <2>2, FeedIs
    <3>2. \A i \in n + 1..Len(Unseen) : i \in 1..Len(Unseen)
      BY <2>1
    <3>3. \A i \in n + 1..Len(Unseen) : Unseen[i] \in R
      BY <3>1, <3>2, ElementOfSeq
    <3>4. n + 1 \in Int /\ Len(Unseen) \in Int
      BY <1>1, <2>1, <3>1
    <3>5. /\ t \in Seq(R)
          /\ Len(t) = IF n + 1 <= Len(Unseen) THEN Len(Unseen) - (n + 1) + 1 ELSE 0
          /\ \A i \in 1..Len(Unseen) - (n + 1) + 1 : t[i] = Unseen[(n + 1) + i - 1]
      BY <3>3, <3>4, SubSeqProperties
    <3>6. Len(t) = Len(Unseen')
      <4>1. Len(Unseen) - (n + 1) + 1 = Len(log) - pos'
        BY <1>1, <2>1, <3>1
      <4>2. n + 1 <= Len(Unseen) \/ Len(log) - pos' = 0
        BY <1>1, <2>1, <3>1
      <4>3. n + 1 > Len(Unseen) => Len(log) - pos' = 0
        BY <1>1, <2>1, <3>1
      <4> QED BY <3>1, <3>5, <4>1, <4>2, <4>3
    <3>7. ASSUME NEW i \in 1..Len(Unseen') PROVE Unseen'[i] = t[i]
      <4>1. i \in 1..Len(log) - pos' /\ n + i \in 1..Len(log) - pos /\ pos + (n + i) = pos' + i
        BY <1>1, <2>1, <3>1
      <4>2. Unseen'[i] = Unlabelled(log[pos' + i])
        BY <1>1, <2>2, <4>1, FeedIs
      <4>3. Unseen[n + i] = Unlabelled(log[pos' + i])
        BY <1>1, <2>2, <4>1, FeedIs
      <4>4. i \in 1..Len(Unseen) - (n + 1) + 1 /\ (n + 1) + i - 1 = n + i
        BY <1>1, <2>1, <3>1
      <4> QED BY <3>5, <4>2, <4>3, <4>4
    <3> HIDE DEF R, t
    <3>8. Unseen' = t
      BY <3>1, <3>5, <3>6, <3>7, SeqEqual
    <3> QED BY <3>1, <3>8 DEF R, t
  <2>4. \A id \in Clean : Seen(id)' = View!After(n, id)
    BY <2>1, AfterIs DEF ViewInv
  <2>5. [id \in Clean |-> Seen(id)]' = [id \in Clean |-> View!After(n, id)]
    BY <2>4 DEF Clean
  <2>6. n \in 1..Len(Unseen)
    BY <2>1, <2>3
  <2>7. View!Deliver
    BY <2>3, <2>5, <2>6 DEF View!Deliver
  <2> QED BY <2>7 DEF View!Next
<1> QED BY <1>2, <1>3

LEMMA WriteStep ==
    ASSUME IndInv, ViewInv, ViewInv', Etcd
    PROVE  [View!Next]_<<store, [id \in Clean |-> Seen(id)], Unseen>>
<1>1. pos \in Nat /\ pos <= Len(log) /\ Len(log) \in Nat /\ log \in Seq(Events)
  BY DEF IndInv, TypeOK, EtcdTypeOK
<1>2. CASE \E n \in 1..Newest : Compact(n)
  <2>1. UNCHANGED <<store, log, pos>>
    BY <1>2 DEF Etcd, Compact, regVars
  <2> QED BY <1>1, <2>1, CacheStep
<1>3. CASE \E id \in Ids, r \in Some : Write(id, r)
  <2>1. PICK id \in Ids, r \in Some : Write(id, r)
    BY <1>3
  <2> DEFINE e == [id |-> id, r |-> r, prev |-> store[id]]
             f == [id |-> id, r |-> r]
  <2>2. e \in Events /\ f \in [id : Ids, r : Some] /\ e.id = id /\ e.r = r
    BY DEF IndInv, TypeOK, EtcdTypeOK, Events
  <2>3. log' = Append(log, e) /\ store' = [store EXCEPT ![id] = r] /\ pos' = pos
    BY <2>1 DEF Write, Etcd, regVars
  <2>4. Unseen' = Append(Unseen, f)
    <3> DEFINE R == [id : Ids, r : Some]
    <3>1. /\ Len(log') = Len(log) + 1 /\ log'[Len(log) + 1] = e
          /\ \A i \in 1..Len(log) : log'[i] = log[i]
          /\ log' \in Seq(Events) /\ pos \in 0..Len(log) /\ pos \in 0..Len(log')
      BY <1>1, <2>2, <2>3
    <3> HIDE DEF e, f
    <3>2. Unseen = FeedOf(log, pos) /\ Unseen' = FeedOf(log', pos)
      BY <2>3 DEF Unseen, FeedOf, Unlabelled
    <3>3. /\ Unseen \in Seq(R) /\ Len(Unseen) = Len(log) - pos
          /\ Unseen' \in Seq(R) /\ Len(Unseen') = Len(log') - pos
      BY <1>1, <3>1, <3>2, FeedIs
    <3>4. /\ Append(Unseen, f) \in Seq(R) /\ Len(Append(Unseen, f)) = Len(Unseen) + 1
          /\ \A i \in 1..Len(Unseen) : Append(Unseen, f)[i] = Unseen[i]
          /\ Append(Unseen, f)[Len(Unseen) + 1] = f
      BY <2>2, <3>3
    <3>5. ASSUME NEW i \in 1..Len(Unseen') PROVE Unseen'[i] = Append(Unseen, f)[i]
      <4>1. i \in 1..Len(log') - pos /\ Unseen'[i] = Unlabelled(log'[pos + i])
        BY <3>1, <3>2, <3>3, FeedIs
      <4>2. CASE i \in 1..Len(Unseen)
        <5>1. i \in 1..Len(log) - pos
          BY <3>3, <4>2
        <5>2. Unseen[i] = Unlabelled(log[pos + i]) /\ pos + i \in 1..Len(log)
          BY <1>1, <3>1, <3>2, <5>1, FeedIs
        <5> QED BY <3>1, <3>4, <4>1, <4>2, <5>2
      <4>3. CASE i = Len(Unseen) + 1
        <5>1. pos + i = Len(log) + 1
          BY <1>1, <3>3, <4>3
        <5>2. f = Unlabelled(e)
          BY <2>2 DEF f, Unlabelled
        <5> QED BY <3>1, <3>4, <4>1, <4>3, <5>1, <5>2
      <4> QED BY <1>1, <3>1, <3>3, <4>2, <4>3
    <3>6. Len(Unseen') = Len(Append(Unseen, f))
      BY <1>1, <3>1, <3>3, <3>4
    <3> HIDE DEF R
    <3> QED BY <3>3, <3>4, <3>5, <3>6, SeqEqual
  <2>5. ASSUME NEW k \in Clean PROVE Seen(k)' = Seen(k)
    <3>1. k \in Ids /\ pos \in 0..Len(log)
      BY <1>1 DEF Clean
    <3>2. At(log', k, pos) = At(log, k, pos)
      BY <1>1, <2>2, <2>3, <3>1, AtAppend DEF IndInv, LogInv
    <3> QED BY <2>3, <3>2 DEF ViewInv
  <2>6. [k \in Clean |-> Seen(k)]' = [k \in Clean |-> Seen(k)]
    BY <2>5 DEF Clean
  <2>7. View!Write(id, r)
    BY <2>3, <2>4, <2>6 DEF View!Write
  <2> QED BY <2>7 DEF View!Next, Some
<1> QED BY <1>2, <1>3 DEF Etcd, EtcdStep

LEMMA ViewStep ==
    ASSUME IndInv, IndInv', ViewInv, ViewInv', [Next]_vars
    PROVE  [View!Next]_<<store, [id \in Clean |-> Seen(id)], Unseen>>
<1>1. pos \in 0..Len(log) /\ pos' \in 0..Len(log') /\ Len(log) \in Nat
  BY DEF IndInv, TypeOK, EtcdTypeOK
<1>2. CASE Etcd
  BY <1>2, WriteStep
<1>3. CASE CreateWatch
  BY <1>1, <1>3, CacheStep DEF CreateWatch, Larger, etcdVars, StartRevision, IndInv, TypeOK
<1>4. CASE ApplyEvent
  BY <1>1, <1>4, CacheStep DEF ApplyEvent, Larger, etcdVars, IndInv, TypeOK
<1>5. CASE FullSync \/ EventPanics \/ Crash
  BY <1>1, <1>5, CacheStep DEF FullSync, EventPanics, Crash, Restart, FullSynced, Newest, etcdVars
<1>6. CASE UNCHANGED <<store, log, pos>>
  BY <1>1, <1>6, CacheStep
<1> QED
  BY <1>2, <1>3, <1>4, <1>5, <1>6 DEF Next, IncrSync, Receive, EndResponse, Compacted, ChannelEnds,
     WatchFails, FullSyncFails, vars, regVars, etcdVars

LEMMA ViewInit == Init => View!Init
<1> SUFFICES ASSUME Init PROVE View!Init
  OBVIOUS
<1>1. Unseen = <<>>
  BY DEF Init, EtcdInit, Unseen
<1>2. [id \in Clean |-> Seen(id)] = [id \in Clean |-> Nil]
  BY DEF Init, Seen, Clean
<1> QED BY <1>1, <1>2 DEF Init, EtcdInit, View!Init

(* The cache goes through the states of etcd in their order: in the keys   *)
(* whose values can be parsed it is a lagging view.                        *)
THEOREM RegistryRefines == Spec => Refines
<1>1. Spec => [](IndInv /\ ViewInv)
  BY InductiveInvariant, InvView, PTL
<1>2. Init => View!Init
  BY ViewInit
<1>3. IndInv /\ ViewInv /\ IndInv' /\ ViewInv' /\ [Next]_vars
        => [View!Next]_<<store, [id \in Clean |-> Seen(id)], Unseen>>
  BY ViewStep
<1> QED BY <1>1, <1>2, <1>3, PTL DEF Spec, Refines, View!Spec
=============================================================================
