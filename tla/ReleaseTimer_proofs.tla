------------------------ MODULE ReleaseTimer_proofs -------------------------
(***************************************************************************)
(* Theorems about ReleaseTimer, for every set of keys, every length of the *)
(* two windows and any number of events and retries.                       *)
(***************************************************************************)
EXTENDS ReleaseTimer, TLAPS

Busy(t)    == thread[t].pc # "idle"
Holding(t) == thread[t].pc \in {"change", "store"}

(* Where the goroutines are: a committer updates its own key, and the      *)
(* agent does one thing at a time.                                         *)
Places ==
    /\ \A t \in Threads : Busy(t) => thread[t].key \in Keys
    /\ \A k \in Keys : Busy(k) => thread[k].key = k
    /\ \A t \in Threads : thread[t].ptr = None <=> ~Holding(t)
    /\ listing.pc \in {"append", "delete"} => listing.key \in Keys
    /\ listing.ptr = None <=> listing.pc # "append"
    /\ listing.pc # "idle" => ~Busy(Agent)
    /\ listing.pc = "idle" => \A k \in Keys : collected[k] = -1
    /\ listing.pc = "delete" => collected[listing.key] # -1

(* A key that has been waiting for a clock unit is in the map or in the    *)
(* list.  While it is not in the list its object is as old as the wait,    *)
(* and a goroutine that is about to store the key has that object.         *)
Waits(k)   == since[k] >= 1 /\ collected[k] = -1
Visited(k) == k \notin listing.todo /\ ~(listing.pc = "append" /\ listing.key = k)

AgeInv ==
    /\ \A k \in Keys : Waits(k) => entry[k] # None /\ heap[entry[k]].age >= since[k]
    /\ \A t \in Threads :
            Holding(t) /\ Waits(thread[t].key) => thread[t].ptr = entry[thread[t].key]
    /\ listing.pc # "idle" =>
            \A k \in Keys : Visited(k) /\ since[k] > ForceWindow => collected[k] # -1

(* Keys do not share objects.                                              *)
Points(o, k) ==
    \/ entry[k] = o
    \/ \E t \in Threads : thread[t].ptr = o /\ thread[t].key = k
    \/ listing.ptr = o /\ listing.key = k
Own == \A o \in Objs, k, l \in Keys : Points(o, k) /\ Points(o, l) => k = l

(* What the agent knows of a key is the newest release, wherever it has    *)
(* put it, as long as no committer writes it too.                          *)
AgentOn(k) == Busy(Agent) /\ thread[Agent].key = k

NewInv ==
    /\ \A k \in Keys : AgentOn(k) => thread[Agent].info = newest[k]
    /\ \A k \in Keys \ retried :
        /\ ~Busy(k)
        /\ entry[k] # None /\ ~AgentOn(k) => heap[entry[k]].info = newest[k]
        /\ AgentOn(k) /\ thread[Agent].pc = "store" => heap[thread[Agent].ptr].info = newest[k]
        /\ listing.pc = "append" /\ listing.key = k => heap[listing.ptr].info = newest[k]
        /\ collected[k] \in {-1, newest[k]}

-----------------------------------------------------------------------------
Goroutines == [pc : {"idle", "load", "change", "store"}, key : Keys \union {None},
               info : Infos, ptr : Objs \union {None}]

(* The variables keep their types, and the goroutines their places.        *)
LEMMA ModuloInfos == \A n \in Nat : n % Releases \in Infos
BY ReleaseAssumption DEF Infos

(* The goroutine of t goes on.                                             *)
LEMMA GoroutineMoves ==
    ASSUME NEW f \in [Threads -> Goroutines], NEW t \in Threads,
           NEW p \in {"idle", "load", "change", "store"}, NEW o \in Objs \union {None}
    PROVE  [f EXCEPT ![t].pc = p, ![t].ptr = o] \in [Threads -> Goroutines]
<1> DEFINE P == {"idle", "load", "change", "store"}
           K == Keys \union {None}
           O == Objs \union {None}
<1>1. f \in [Threads -> [pc : P, key : K, info : Infos, ptr : O]] /\ p \in P /\ o \in O
  BY DEF Goroutines
<1> HIDE DEF P, K, O
<1>2. [f EXCEPT ![t].pc = p, ![t].ptr = o] \in [Threads -> [pc : P, key : K, info : Infos, ptr : O]]
  BY <1>1
<1> QED BY <1>2 DEF Goroutines, P, K, O

(* What a tick and an update make of a timer.                              *)
LEMMA OlderIs ==
    ASSUME NEW t \in Timers
    PROVE  /\ Older(t) \in Timers /\ Older(t).info = t.info
           /\ Older(t).age = IF t.age > ForceWindow THEN t.age ELSE t.age + 1
<1>1. t.info \in Infos /\ t.age \in 0..(ForceWindow + 1) /\ t.left \in (-1)..WaitWindow
  BY DEF Timers
<1> DEFINE a == IF t.age > ForceWindow THEN t.age ELSE t.age + 1
           b == IF t.left < 0 THEN t.left ELSE t.left - 1
<1>2. a \in 0..(ForceWindow + 1) /\ b \in (-1)..WaitWindow
  BY <1>1, WindowAssumption
<1>3. Older(t) = [t EXCEPT !.age = a, !.left = b]
  BY DEF Older
<1> HIDE DEF a, b
<1>4. Older(t) \in Timers /\ Older(t).info = t.info /\ Older(t).age = a
  <2> DEFINE A == 0..(ForceWindow + 1)
             L == (-1)..WaitWindow
  <2>1. t \in [info : Infos, age : A, left : L] /\ t.info \in Infos /\ a \in A /\ b \in L
    BY <1>1, <1>2 DEF Timers
  <2> HIDE DEF A, L
  <2>2. Older(t) \in [info : Infos, age : A, left : L] /\ Older(t).info = t.info /\ Older(t).age = a
    BY <1>3, <2>1
  <2> QED BY <2>2 DEF A, L, Timers
<1> QED BY <1>4 DEF a

LEMMA UpdatedIs ==
    ASSUME NEW t \in Timers, NEW i \in Infos
    PROVE  /\ UpdatedTimer(t, i) \in Timers
           /\ UpdatedTimer(t, i).info = i /\ UpdatedTimer(t, i).age = t.age
<1> DEFINE A == 0..(ForceWindow + 1)
           L == (-1)..WaitWindow
<1>1. t \in [info : Infos, age : A, left : L] /\ WaitWindow \in L
  BY WindowAssumption DEF Timers
<1> HIDE DEF A, L
<1>2. /\ UpdatedTimer(t, i) \in [info : Infos, age : A, left : L]
      /\ UpdatedTimer(t, i).info = i /\ UpdatedTimer(t, i).age = t.age
  BY <1>1 DEF UpdatedTimer
<1> QED BY <1>2 DEF A, L, Timers

LEMMA FreeObject ==
    ASSUME Free # {}
    PROVE  (CHOOSE o \in Free : TRUE) \in Objs /\ ~InUse(CHOOSE o \in Free : TRUE)
BY DEF Free

LEMMA ThreadsAre == Agent \in Threads /\ Keys \subseteq Threads /\ Agent \notin Keys
BY AgentAssumption DEF Threads

LEMMA TypeInit == Init => TypeOK /\ Places
<1> SUFFICES ASSUME Init PROVE TypeOK /\ Places
  OBVIOUS
<1>1. 0 \in Infos
  BY ReleaseAssumption DEF Infos
<1>2. ResetTimer(0) \in Timers
  BY <1>1, WindowAssumption DEF ResetTimer, Timers
<1>3. TypeOK
  BY <1>1, <1>2, WindowAssumption DEF Init, TypeOK, IdleThread, IdleListing
<1>4. Places
  BY ThreadsAre DEF Init, Places, Busy, Holding, IdleThread, IdleListing
<1> QED BY <1>3, <1>4

LEMMA TypeBegin ==
    ASSUME TypeOK, Places, NEW t \in Threads, NEW k \in Keys, NEW i \in Infos,
           BeginUpdate(t, k, i), thread[t].pc = "idle", t = Agent => listing.pc = "idle",
           t \in Keys => t = k,
           UNCHANGED <<entry, heap, listing, collected>>,
           newest' \in [Keys -> Infos], inflight' \in [Keys -> SUBSET Infos], retried' \subseteq Keys
    PROVE  TypeOK' /\ Places'
<1>1. thread' = [thread EXCEPT ![t] = [pc |-> "load", key |-> k, info |-> i, ptr |-> None]]
  BY DEF BeginUpdate
<1>2. since' \in [Keys -> (-1)..(ForceWindow + 1)]
  BY WindowAssumption DEF BeginUpdate, TypeOK
<1>3. TypeOK'
  BY <1>1, <1>2 DEF TypeOK
<1>4. Places'
  BY <1>1, ThreadsAre DEF TypeOK, Places, Busy, Holding
<1> QED BY <1>3, <1>4

LEMMA TypeAgent == ASSUME TypeOK, Places, NEW k \in Keys, Event(k) PROVE TypeOK' /\ Places'
<1>1. newest[k] + 1 \in Nat
  BY DEF TypeOK, Infos
<1>2. (newest[k] + 1) % Releases \in Infos
  BY <1>1, ModuloInfos
<1>3. newest' \in [Keys -> Infos] /\ newest'[k] \in Infos
  BY <1>2 DEF Event, TypeOK
<1> QED BY <1>3, TypeBegin, ThreadsAre DEF Event, TypeOK

LEMMA TypeCommitter ==
    ASSUME TypeOK, Places, NEW k \in Keys, NEW i \in Infos, Retry(k, i) \/ Settle(k, i)
    PROVE  TypeOK' /\ Places'
<1>1. inflight' \in [Keys -> SUBSET Infos]
  BY DEF Retry, Settle, TypeOK
<1>2. CASE Retry(k, i)
  BY <1>1, <1>2, TypeBegin, ThreadsAre DEF Retry, TypeOK
<1>3. CASE Settle(k, i)
  BY <1>1, <1>3 DEF Settle, TypeOK, Places, Busy, Holding
<1> QED BY <1>2, <1>3

LEMMA TypeUpdate ==
    ASSUME TypeOK, Places, NEW t \in Threads, UpdateStep(t) PROVE TypeOK' /\ Places'
<1>1. CASE LoadMiss(t)
  <2> DEFINE o == CHOOSE o \in Free : TRUE
  <2>1. /\ thread[t].pc = "load" /\ o \in Objs
        /\ heap' = [heap EXCEPT ![o] = ResetTimer(thread[t].info)]
        /\ thread' = [thread EXCEPT ![t].pc = "store", ![t].ptr = o]
        /\ UNCHANGED <<entry, listing, collected, inflight, newest, since, retried>>
    BY <1>1, FreeObject DEF LoadMiss
  <2> HIDE DEF o
  <2>2. ResetTimer(thread[t].info) \in Timers
    BY WindowAssumption DEF TypeOK, ResetTimer, Timers
  <2>3. TypeOK'
    <3>1. thread' \in [Threads -> Goroutines]
      BY <2>1, GoroutineMoves DEF TypeOK, Goroutines
    <3>2. heap' \in [Objs -> Timers]
      BY <2>1, <2>2 DEF TypeOK
    <3> QED BY <2>1, <3>1, <3>2 DEF TypeOK, Goroutines
  <2>4. Places'
    BY <2>1, NoneAssumption, ThreadsAre DEF TypeOK, Places, Busy, Holding
  <2> QED BY <2>3, <2>4
<1>2. CASE LoadHit(t)
  <2>1. entry[thread[t].key] \in Objs /\ thread[t].pc = "load"
    BY <1>2 DEF LoadHit, TypeOK, Places, Busy
  <2>2. TypeOK'
    <3>1. thread' \in [Threads -> Goroutines]
      <4>1. /\ thread' = [thread EXCEPT ![t].pc = "change", ![t].ptr = entry[thread[t].key]]
            /\ entry[thread[t].key] \in Objs \union {None}
        BY <1>2, <2>1 DEF LoadHit
      <4> QED BY <4>1, GoroutineMoves DEF TypeOK, Goroutines
    <3> QED BY <1>2, <3>1 DEF LoadHit, TypeOK, Goroutines
  <2>3. Places'
    BY <1>2, <2>1, NoneAssumption, ThreadsAre DEF LoadHit, TypeOK, Places, Busy, Holding
  <2> QED BY <2>2, <2>3
<1>3. CASE Change(t)
  <2>1. thread[t].ptr \in Objs /\ thread[t].pc = "change"
    BY <1>3 DEF Change, TypeOK, Places, Holding
  <2>2. UpdatedTimer(heap[thread[t].ptr], thread[t].info) \in Timers
    BY <2>1, UpdatedIs DEF TypeOK
  <2>3. TypeOK'
    BY <1>3, <2>1, <2>2 DEF Change, TypeOK
  <2>4. Places'
    BY <1>3, <2>1, ThreadsAre DEF Change, TypeOK, Places, Busy, Holding
  <2> QED BY <2>3, <2>4
<1>4. CASE Store(t)
  <2>1. thread[t].ptr \in Objs /\ thread[t].key \in Keys
    BY <1>4 DEF Store, TypeOK, Places, Holding, Busy
  <2>2. 0 \in Infos
    BY ReleaseAssumption DEF Infos
  <2>3. TypeOK'
    BY <1>4, <2>1, <2>2 DEF Store, StoredPtr, IdleThread, TypeOK
  <2>4. Places'
    BY <1>4, ThreadsAre DEF Store, StoredPtr, IdleThread, TypeOK, Places, Busy, Holding
  <2> QED BY <2>3, <2>4
<1> QED BY <1>1, <1>2, <1>3, <1>4 DEF UpdateStep

LEMMA TypeList ==
    ASSUME TypeOK, Places, StartListing \/ ListStep PROVE TypeOK' /\ Places'
<1>1. CASE StartListing
  BY <1>1, NoneAssumption DEF StartListing, TypeOK, Places, Busy, Holding
<1>2. ASSUME NEW k \in Keys, Skip(k) PROVE TypeOK' /\ Places'
  BY <1>2 DEF Skip, TypeOK, Places, Busy, Holding
<1>3. ASSUME NEW k \in Keys, Pick(k) PROVE TypeOK' /\ Places'
  BY <1>3 DEF Pick, TypeOK, Places, Busy, Holding
<1>4. CASE Gather
  <2>1. listing.key \in Keys /\ heap[listing.ptr].info \in Infos
    BY <1>4 DEF Gather, TypeOK, Places, Timers
  <2>2. \A i \in Infos : i # -1
    BY DEF Infos
  <2>3. TypeOK'
    BY <1>4, <2>1 DEF Gather, TypeOK
  <2>4. Places'
    BY <1>4, <2>1, <2>2 DEF Gather, TypeOK, Places, Busy, Holding
  <2> QED BY <2>3, <2>4
<1>5. CASE Delete
  <2>1. TypeOK'
    BY <1>5 DEF Delete, WithoutKey, TypeOK, Places
  <2>2. Places'
    BY <1>5 DEF Delete, WithoutKey, TypeOK, Places, Busy, Holding
  <2> QED BY <2>1, <2>2
<1>6. CASE HandOver
  <2>1. /\ inflight' \in [Keys -> SUBSET Infos] /\ retried' \subseteq Keys
        /\ since' \in [Keys -> (-1)..(ForceWindow + 1)]
    BY <1>6, WindowAssumption DEF HandOver, TypeOK
  <2>2. TypeOK'
    BY <1>6, <2>1 DEF HandOver, IdleListing, TypeOK
  <2>3. Places'
    BY <1>6 DEF HandOver, IdleListing, TypeOK, Places, Busy, Holding
  <2> QED BY <2>2, <2>3
<1> QED BY <1>1, <1>2, <1>3, <1>4, <1>5, <1>6 DEF ListStep

LEMMA TypeTick == ASSUME TypeOK, Places, Tick PROVE TypeOK' /\ Places'
<1>1. ASSUME NEW t \in Timers PROVE Older(t) \in Timers
  BY OlderIs
<1>2. ResetTimer(0) \in Timers
  BY WindowAssumption, ReleaseAssumption DEF ResetTimer, Timers, Infos
<1>3. heap' \in [Objs -> Timers]
  BY <1>1, <1>2 DEF Tick, TypeOK
<1>4. since' \in [Keys -> (-1)..(ForceWindow + 1)]
  BY WindowAssumption DEF Tick, TypeOK
<1>5. TypeOK'
  BY <1>3, <1>4 DEF Tick, TypeOK
<1>6. Places'
  BY DEF Tick, Places, Busy, Holding
<1> QED BY <1>5, <1>6

LEMMA TypeNext == ASSUME TypeOK, Places, [Next]_vars PROVE TypeOK' /\ Places'
<1>1. CASE UNCHANGED vars
  BY <1>1 DEF TypeOK, Places, Busy, Holding, vars
<1> QED
  BY <1>1, TypeAgent, TypeCommitter, TypeUpdate, TypeList, TypeTick DEF Next

LEMMA TypeAndPlaces == Spec => [](TypeOK /\ Places)
<1> QED BY TypeInit, TypeNext, PTL DEF Spec

(* The variables keep their types.                                         *)
THEOREM TimerTypeOK == Spec => []TypeOK
<1> QED BY TypeAndPlaces, PTL

-----------------------------------------------------------------------------
(* No update is forgotten.                                                 *)
LEMMA ForgetBegin ==
    ASSUME TypeOK, Places, NoUpdateForgotten, NEW t \in Threads, NEW k \in Keys, NEW i \in Infos,
           BeginUpdate(t, k, i), ~Busy(t), UNCHANGED <<entry, collected>>
    PROVE  NoUpdateForgotten'
<1>1. /\ thread' = [thread EXCEPT ![t] = [pc |-> "load", key |-> k, info |-> i, ptr |-> None]]
      /\ \A l \in Keys : l # k => since'[l] = since[l]
  BY DEF BeginUpdate, TypeOK
<1>2. Updating(k)'
  BY <1>1 DEF Updating, TypeOK
<1>3. \A l \in Keys : Updating(l) => Updating(l)'
  BY <1>1 DEF Updating, TypeOK, Busy
<1> QED BY <1>1, <1>2, <1>3 DEF NoUpdateForgotten

LEMMA ForgetUpdate ==
    ASSUME TypeOK, Places, NoUpdateForgotten, NEW t \in Threads, UpdateStep(t)
    PROVE  NoUpdateForgotten'
<1>1. UNCHANGED <<since, collected>>
  BY DEF UpdateStep, LoadMiss, LoadHit, Change, Store
<1>2. CASE LoadMiss(t) \/ LoadHit(t) \/ Change(t)
  <2>1. entry' = entry
    BY <1>2 DEF LoadMiss, LoadHit, Change
  <2>2. \A u \in Threads : thread'[u].key = thread[u].key /\ (thread[u].pc # "idle" => thread'[u].pc # "idle")
    <3>1. CASE LoadMiss(t)
      BY <3>1 DEF LoadMiss, TypeOK
    <3>2. CASE LoadHit(t)
      BY <3>2 DEF LoadHit, TypeOK
    <3>3. CASE Change(t)
      BY <3>3 DEF Change, TypeOK
    <3> QED BY <1>2, <3>1, <3>2, <3>3
  <2> QED BY <1>1, <2>1, <2>2 DEF NoUpdateForgotten, Updating
<1>3. CASE Store(t)
  <2>1. thread[t].key \in Keys /\ thread[t].ptr # None
    BY <1>3 DEF Store, Places, Busy, Holding
  <2>2. /\ entry'[thread[t].key] # None
        /\ \A k \in Keys : k # thread[t].key => entry'[k] = entry[k]
        /\ \A u \in Threads : u # t => thread'[u] = thread[u]
    BY <1>3, <2>1 DEF Store, StoredPtr, TypeOK
  <2> QED BY <1>1, <2>1, <2>2 DEF NoUpdateForgotten, Updating
<1> QED BY <1>2, <1>3 DEF UpdateStep

LEMMA ForgetList ==
    ASSUME TypeOK, Places, NoUpdateForgotten, ListStep PROVE NoUpdateForgotten'
<1>1. thread' = thread
  BY DEF ListStep, Skip, Pick, Gather, Delete, HandOver
<1>2. CASE \E k \in Keys : Skip(k) \/ Pick(k)
  BY <1>1, <1>2 DEF Skip, Pick, NoUpdateForgotten, Updating
<1>3. CASE Gather
  <2>1. listing.key \in Keys /\ heap[listing.ptr].info # -1
    BY <1>3 DEF Gather, TypeOK, Places, Timers, Infos
  <2>2. \A k \in Keys : collected[k] # -1 => collected'[k] # -1
    BY <1>3, <2>1 DEF Gather, TypeOK
  <2> QED BY <1>1, <1>3, <2>2 DEF Gather, NoUpdateForgotten, Updating
<1>4. CASE Delete
  <2>1. \A k \in Keys : entry'[k] = entry[k] \/ collected[k] # -1
    BY <1>4 DEF Delete, WithoutKey, TypeOK, Places
  <2> QED BY <1>1, <1>4, <2>1 DEF Delete, NoUpdateForgotten, Updating
<1>5. CASE HandOver
  <2>1. \A k \in Keys : since'[k] # -1 => since[k] # -1 /\ collected[k] = -1
    BY <1>5 DEF HandOver
  <2> QED BY <1>1, <1>5, <2>1 DEF HandOver, NoUpdateForgotten, Updating
<1> QED BY <1>2, <1>3, <1>4, <1>5 DEF ListStep

LEMMA ForgetNext ==
    ASSUME TypeOK, Places, NoUpdateForgotten, [Next]_vars PROVE NoUpdateForgotten'
<1>1. ASSUME NEW k \in Keys, Event(k) PROVE NoUpdateForgotten'
  <2>1. newest'[k] \in Infos
    <3>1. newest[k] + 1 \in Nat
      BY DEF TypeOK, Infos
    <3> QED BY <1>1, <3>1, ModuloInfos DEF Event, TypeOK
  <2> QED BY <1>1, <2>1, ForgetBegin, ThreadsAre DEF Event, Busy
<1>2. ASSUME NEW k \in Keys, NEW i \in Infos, Retry(k, i) \/ Settle(k, i)
      PROVE  NoUpdateForgotten'
  <2>1. CASE Retry(k, i)
    BY <2>1, ForgetBegin, ThreadsAre DEF Retry, Busy
  <2>2. CASE Settle(k, i)
    BY <2>2 DEF Settle, NoUpdateForgotten, Updating
  <2> QED BY <1>2, <2>1, <2>2
<1>3. CASE StartListing
  BY <1>3 DEF StartListing, NoUpdateForgotten, Updating
<1>4. CASE Tick
  BY <1>4 DEF Tick, NoUpdateForgotten, Updating
<1>5. CASE UNCHANGED vars
  BY <1>5 DEF vars, NoUpdateForgotten, Updating
<1> QED BY <1>1, <1>2, <1>3, <1>4, <1>5, ForgetUpdate, ForgetList DEF Next

LEMMA ForgetInit == Init => NoUpdateForgotten
BY DEF Init, NoUpdateForgotten

(* However an update, a retry and the listing of one key interleave, the   *)
(* update is in the map, in the list or on its way into the map.           *)
THEOREM TimerNoUpdateForgotten == Spec => []NoUpdateForgotten
<1> QED BY TypeAndPlaces, ForgetInit, ForgetNext, PTL DEF Spec

-----------------------------------------------------------------------------
(* The wait is bounded.                                                    *)
LEMMA AgeBegin ==
    ASSUME TypeOK, Places, AgeInv, NEW t \in Threads, NEW k \in Keys, NEW i \in Infos,
           BeginUpdate(t, k, i), ~Busy(t), UNCHANGED <<entry, heap, listing, collected>>
    PROVE  AgeInv'
<1>1. /\ \A l \in Keys : since'[l] = since[l] \/ since'[l] = 0
      /\ \A u \in Threads : u # t => thread'[u] = thread[u]
      /\ thread'[t].pc = "load"
  BY DEF BeginUpdate, TypeOK
<1>2. \A l \in Keys : Waits(l)' => Waits(l) /\ since'[l] = since[l]
  BY <1>1 DEF Waits
<1>3. \A l \in Keys : since'[l] > ForceWindow => since[l] > ForceWindow
  BY <1>1, WindowAssumption
<1>4. \A u \in Threads : Holding(u)' => Holding(u) /\ thread'[u] = thread[u]
  BY <1>1 DEF Holding
<1>5. \A u \in Threads : Holding(u) => thread[u].key \in Keys
  BY DEF Places, Busy, Holding
<1> QED BY <1>2, <1>3, <1>4, <1>5 DEF AgeInv, Visited

LEMMA AgeUpdate ==
    ASSUME TypeOK, Places, AgeInv, NEW t \in Threads, UpdateStep(t) PROVE AgeInv'
<1>1. UNCHANGED <<since, collected, listing>>
  BY DEF UpdateStep, LoadMiss, LoadHit, Change, Store
<1>2. \A u \in Threads : Holding(u) => thread[u].key \in Keys
  BY DEF Places, Busy, Holding
<1>3. CASE LoadMiss(t)
  <2> DEFINE o == CHOOSE o \in Free : TRUE
  <2>1. /\ thread[t].pc = "load" /\ entry[thread[t].key] = None /\ o \in Objs /\ ~InUse(o)
        /\ heap' = [heap EXCEPT ![o] = ResetTimer(thread[t].info)]
        /\ thread' = [thread EXCEPT ![t].pc = "store", ![t].ptr = o] /\ entry' = entry
    BY <1>3, FreeObject DEF LoadMiss
  <2> HIDE DEF o
  <2>2. thread[t].key \in Keys
    BY <2>1 DEF Places, Busy
  <2>3. ~Waits(thread[t].key)
    BY <2>1, <2>2 DEF AgeInv
  <2>4. \A k \in Keys : entry[k] # None => heap'[entry[k]] = heap[entry[k]]
    BY <2>1 DEF TypeOK, InUse
  <2>5. \A u \in Threads : u # t => thread'[u] = thread[u]
    BY <2>1 DEF TypeOK
  <2>6. thread'[t].key = thread[t].key
    BY <2>1 DEF TypeOK
  <2>7. \A k \in Keys : Waits(k)' <=> Waits(k)
    BY <1>1 DEF Waits
  <2>8. \A u \in Threads : Holding(u)' /\ u # t => Holding(u)
    BY <2>5 DEF Holding
  <2>9. \A u \in Threads, k \in Keys :
            Holding(u)' /\ thread'[u].key = k /\ Waits(k) => thread'[u].ptr = entry[k]
    <3> SUFFICES ASSUME NEW u \in Threads, NEW k \in Keys,
                        Holding(u)', thread'[u].key = k, Waits(k)
                 PROVE  thread'[u].ptr = entry[k]
      OBVIOUS
    <3>1. u # t
      BY <2>3, <2>6
    <3> QED BY <2>5, <2>8, <3>1 DEF AgeInv
  <2>10. \A u \in Threads : Holding(u)' => thread'[u].key \in Keys
    BY <1>2, <2>2, <2>5, <2>6, <2>8
  <2>11. \A u \in Threads :
            (Holding(u) /\ Waits(thread[u].key) => thread[u].ptr = entry[thread[u].key])'
    BY <1>1, <2>1, <2>9, <2>10 DEF Waits
  <2>12. \A k \in Keys : (Waits(k) => entry[k] # None /\ heap[entry[k]].age >= since[k])'
    BY <1>1, <2>1, <2>4 DEF AgeInv, Waits
  <2>13. listing'.pc # "idle" =>
            \A k \in Keys : (Visited(k) /\ since[k] > ForceWindow => collected[k] # -1)'
    BY <1>1 DEF AgeInv, Visited
  <2> QED BY <2>11, <2>12, <2>13 DEF AgeInv
<1>4. CASE LoadHit(t)
  <2>1. /\ \A u \in Threads : u # t => thread'[u] = thread[u]
        /\ thread'[t].key = thread[t].key /\ thread'[t].ptr = entry[thread[t].key]
        /\ entry' = entry /\ heap' = heap
    BY <1>4 DEF LoadHit, TypeOK
  <2> QED BY <1>1, <2>1 DEF AgeInv, Waits, Holding, Visited
<1>5. CASE Change(t)
  <2>1. /\ \A u \in Threads : thread'[u].key = thread[u].key /\ thread'[u].ptr = thread[u].ptr
        /\ \A u \in Threads : Holding(u)' => Holding(u)
        /\ entry' = entry
    BY <1>5 DEF Change, TypeOK, Holding
  <2>2. \A o \in Objs : heap'[o].age = heap[o].age
    BY <1>5, UpdatedIs DEF Change, TypeOK
  <2> QED BY <1>1, <2>1, <2>2 DEF AgeInv, Waits, Visited, TypeOK
<1>6. CASE Store(t)
  <2>1. /\ thread[t].key \in Keys /\ Holding(t) /\ heap' = heap
        /\ entry' = [entry EXCEPT ![thread[t].key] = thread[t].ptr]
        /\ thread' = [thread EXCEPT ![t] = IdleThread]
    BY <1>6 DEF Store, StoredPtr, Places, Busy, Holding
  <2>2. \A k \in Keys : Waits(k) => entry'[k] = entry[k]
    BY <2>1 DEF AgeInv, TypeOK
  <2>3. \A u \in Threads : Holding(u)' => u # t /\ Holding(u) /\ thread'[u] = thread[u]
    BY <2>1 DEF Holding, IdleThread, TypeOK
  <2> QED BY <1>1, <1>2, <2>1, <2>2, <2>3 DEF AgeInv, Waits, Visited
<1> QED BY <1>3, <1>4, <1>5, <1>6 DEF UpdateStep

LEMMA AgeList ==
    ASSUME TypeOK, Places, AgeInv, StartListing \/ ListStep PROVE AgeInv'
<1>1. UNCHANGED <<thread, heap>>
  BY DEF StartListing, ListStep, Skip, Pick, Gather, Delete, HandOver
<1>2. \A t \in Threads : Holding(t) => thread[t].key \in Keys
  BY DEF Places, Busy, Holding
<1>3. CASE StartListing
  BY <1>1, <1>3 DEF StartListing, AgeInv, Waits, Holding, Visited
<1>4. ASSUME NEW k \in Keys, Skip(k) PROVE AgeInv'
  <2>1. since[k] > ForceWindow => collected[k] # -1
    <3> SUFFICES ASSUME since[k] > ForceWindow, collected[k] = -1 PROVE FALSE
      BY DEF TypeOK
    <3>1. since[k] \in Int /\ since[k] >= 1
      BY WindowAssumption DEF TypeOK
    <3>2. entry[k] # None /\ heap[entry[k]].age >= since[k]
      BY <3>1 DEF AgeInv, Waits
    <3>3. heap[entry[k]].age \in Int
      BY <3>2 DEF TypeOK, Timers
    <3> QED BY <1>4, <3>1, <3>2, <3>3, WindowAssumption DEF Skip, Due
  <2>2. /\ UNCHANGED <<entry, since, collected>> /\ listing.pc = "visit" /\ listing'.pc = "visit"
        /\ listing'.todo = listing.todo \ {k}
    BY <1>4 DEF Skip, TypeOK
  <2>3. \A l \in Keys : Visited(l)' => l = k \/ Visited(l)
    BY <2>2 DEF Visited
  <2> QED BY <1>1, <2>1, <2>2, <2>3 DEF AgeInv, Waits, Holding
<1>5. ASSUME NEW k \in Keys, Pick(k) PROVE AgeInv'
  <2>1. /\ UNCHANGED <<entry, since, collected>> /\ listing.pc = "visit"
        /\ listing' = [pc |-> "append", todo |-> listing.todo \ {k}, key |-> k, ptr |-> entry[k]]
    BY <1>5 DEF Pick
  <2>2. \A l \in Keys : Visited(l)' => Visited(l)
    BY <2>1 DEF Visited
  <2> QED BY <1>1, <2>1, <2>2 DEF AgeInv, Waits, Holding
<1>6. CASE Gather
  <2>1. listing.key \in Keys /\ heap[listing.ptr].info # -1
    BY <1>6 DEF Gather, TypeOK, Places, Timers, Infos
  <2>2. /\ UNCHANGED <<entry, since>> /\ listing.pc = "append" /\ listing'.pc = "delete"
        /\ listing'.todo = listing.todo /\ collected'[listing.key] # -1
        /\ \A k \in Keys : k # listing.key => collected'[k] = collected[k]
    BY <1>6, <2>1 DEF Gather, TypeOK
  <2>3. \A k \in Keys : Visited(k)' => k = listing.key \/ Visited(k)
    BY <2>2 DEF Visited
  <2>4. \A k \in Keys : Waits(k)' => Waits(k)
    BY <2>2 DEF Waits
  <2> QED BY <1>1, <1>2, <2>2, <2>3, <2>4 DEF AgeInv, Holding
<1>7. CASE Delete
  <2>1. /\ UNCHANGED <<since, collected>> /\ listing.pc = "delete" /\ listing'.pc = "visit"
        /\ listing'.todo = listing.todo /\ collected[listing.key] # -1 /\ listing.key \in Keys
        /\ \A k \in Keys : k # listing.key => entry'[k] = entry[k]
    BY <1>7 DEF Delete, WithoutKey, TypeOK, Places
  <2>2. \A k \in Keys : Visited(k)' => Visited(k)
    BY <2>1 DEF Visited
  <2>3. \A k \in Keys : Waits(k)' => Waits(k) /\ entry'[k] = entry[k]
    BY <2>1 DEF Waits
  <2> QED BY <1>1, <1>2, <2>1, <2>2, <2>3 DEF AgeInv, Holding
<1>8. CASE HandOver
  <2>1. /\ entry' = entry /\ listing'.pc = "idle"
        /\ \A k \in Keys : since'[k] = IF collected[k] # -1 THEN -1 ELSE since[k]
    BY <1>8 DEF HandOver, IdleListing
  <2>2. \A k \in Keys : Waits(k)' => Waits(k) /\ since'[k] = since[k]
    BY <2>1 DEF Waits
  <2> QED BY <1>1, <1>2, <2>1, <2>2 DEF AgeInv, Holding
<1> QED BY <1>3, <1>4, <1>5, <1>6, <1>7, <1>8 DEF ListStep

LEMMA AgeTick ==
    ASSUME TypeOK, Places, NoUpdateForgotten, AgeInv, Tick PROVE AgeInv'
<1>1. /\ listing.pc = "idle" /\ \A t \in Threads : thread[t].pc = "idle"
      /\ UNCHANGED <<entry, thread, listing, collected>>
  BY DEF Tick
<1>2. \A t \in Threads : ~Holding(t)'
  BY <1>1 DEF Holding
<1>3. ASSUME NEW k \in Keys, Waits(k)' PROVE entry[k] # None /\ heap'[entry[k]].age >= since'[k]
  <2>1. since[k] \in 0..(ForceWindow + 1) /\ collected[k] = -1
    BY <1>1, <1>3 DEF Tick, Waits, TypeOK
  <2>2. entry[k] # None
    BY <1>1, <2>1 DEF NoUpdateForgotten, Updating
  <2>3. entry[k] \in Objs /\ heap[entry[k]] \in Timers
    BY <2>2 DEF TypeOK
  <2>4. heap'[entry[k]] = Older(heap[entry[k]])
    BY <2>2, <2>3 DEF Tick, InUse
  <2>5. heap[entry[k]].age \in 0..(ForceWindow + 1)
    BY <2>3 DEF Timers
  <2>6. heap[entry[k]].age >= since[k]
    BY <2>1, <2>5 DEF AgeInv, Waits
  <2>7. since'[k] = IF since[k] \in 0..ForceWindow THEN since[k] + 1 ELSE since[k]
    BY DEF Tick
  <2>8. heap'[entry[k]].age = IF heap[entry[k]].age > ForceWindow THEN heap[entry[k]].age
                              ELSE heap[entry[k]].age + 1
    BY <2>3, <2>4, OlderIs
  <2> QED BY <2>1, <2>2, <2>5, <2>6, <2>7, <2>8, WindowAssumption
<1> QED BY <1>1, <1>2, <1>3 DEF AgeInv

LEMMA AgeNext ==
    ASSUME TypeOK, Places, NoUpdateForgotten, AgeInv, [Next]_vars PROVE AgeInv'
<1>1. ASSUME NEW k \in Keys, Event(k) PROVE AgeInv'
  <2>1. newest'[k] \in Infos
    <3>1. newest[k] + 1 \in Nat
      BY DEF TypeOK, Infos
    <3> QED BY <1>1, <3>1, ModuloInfos DEF Event, TypeOK
  <2> QED BY <1>1, <2>1, AgeBegin, ThreadsAre DEF Event, Busy
<1>2. ASSUME NEW k \in Keys, NEW i \in Infos, Retry(k, i) \/ Settle(k, i) PROVE AgeInv'
  <2>1. CASE Retry(k, i)
    BY <2>1, AgeBegin, ThreadsAre DEF Retry, Busy
  <2>2. CASE Settle(k, i)
    BY <2>2 DEF Settle, AgeInv, Waits, Holding, Visited
  <2> QED BY <1>2, <2>1, <2>2
<1>3. CASE UNCHANGED vars
  BY <1>3 DEF vars, AgeInv, Waits, Holding, Visited
<1> QED BY <1>1, <1>2, <1>3, AgeUpdate, AgeList, AgeTick DEF Next

LEMMA AgeInit == Init => AgeInv
BY DEF Init, AgeInv, Waits, Holding, IdleThread, IdleListing

(* A listing leaves no key behind that has been waiting longer than        *)
(* forceUpdateTimeWindow, however often events have put the commit off.    *)
THEOREM TimerWaitIsBounded == Spec => []WaitIsBounded
<1>1. AgeInv => WaitIsBounded
  BY DEF AgeInv, WaitIsBounded, ListingDone, Visited
<1> QED
  BY <1>1, TypeAndPlaces, TimerNoUpdateForgotten, AgeInit, AgeNext, PTL DEF Spec

-----------------------------------------------------------------------------
(* Objects are not shared.                                                 *)
LEMMA OwnKept ==
    ASSUME Own, \A o \in Objs, k \in Keys : Points(o, k)' => Points(o, k) PROVE Own'
BY DEF Own

LEMMA OwnUpdate ==
    ASSUME TypeOK, Places, Own, NEW t \in Threads, UpdateStep(t) PROVE Own'
<1>1. listing' = listing
  BY DEF UpdateStep, LoadMiss, LoadHit, Change, Store
<1>2. CASE LoadMiss(t)
  <2> DEFINE o == CHOOSE o \in Free : TRUE
  <2>1. /\ o \in Objs /\ ~InUse(o) /\ entry' = entry
        /\ thread' = [thread EXCEPT ![t].pc = "store", ![t].ptr = o]
    BY <1>2, FreeObject DEF LoadMiss
  <2> HIDE DEF o
  <2>2. \A k \in Keys : ~Points(o, k)
    BY <2>1 DEF Points, InUse
  <2>3. \A u \in Threads : u # t => thread'[u] = thread[u]
    BY <2>1 DEF TypeOK
  <2>4. thread'[t].key = thread[t].key /\ thread'[t].ptr = o
    BY <2>1 DEF TypeOK
  <2>5. \A p \in Objs, k \in Keys : Points(p, k)' => Points(p, k) \/ (p = o /\ k = thread[t].key)
    BY <1>1, <2>1, <2>3, <2>4 DEF Points
  <2> QED BY <2>2, <2>5 DEF Own
<1>3. CASE LoadHit(t)
  <2>1. /\ \A u \in Threads : u # t => thread'[u] = thread[u]
        /\ thread'[t].key = thread[t].key /\ thread'[t].ptr = entry[thread[t].key]
        /\ entry' = entry
    BY <1>3 DEF LoadHit, TypeOK
  <2>2. \A o \in Objs, k \in Keys : Points(o, k)' => Points(o, k)
    BY <1>1, <2>1 DEF Points
  <2> QED BY <2>2, OwnKept
<1>4. CASE Change(t)
  <2>1. /\ \A u \in Threads : thread'[u].key = thread[u].key /\ thread'[u].ptr = thread[u].ptr
        /\ entry' = entry
    BY <1>4 DEF Change, TypeOK
  <2>2. \A o \in Objs, k \in Keys : Points(o, k)' => Points(o, k)
    BY <1>1, <2>1 DEF Points
  <2> QED BY <2>2, OwnKept
<1>5. CASE Store(t)
  <2>1. /\ thread[t].key \in Keys
        /\ entry' = [entry EXCEPT ![thread[t].key] = thread[t].ptr]
        /\ \A u \in Threads : u # t => thread'[u] = thread[u]
        /\ thread'[t].ptr = None
    BY <1>5 DEF Store, StoredPtr, IdleThread, Places, Busy, TypeOK
  <2>2. \A o \in Objs, k \in Keys : Points(o, k)' => Points(o, k)
    <3> TAKE o \in Objs, k \in Keys
    <3>1. entry'[k] = IF k = thread[t].key THEN thread[t].ptr ELSE entry[k]
      BY <2>1 DEF TypeOK
    <3> QED BY <1>1, <2>1, <3>1, NoneAssumption DEF Points
  <2> QED BY <2>2, OwnKept
<1> QED BY <1>2, <1>3, <1>4, <1>5 DEF UpdateStep

LEMMA OwnBegin ==
    ASSUME TypeOK, Own, NEW t \in Threads, NEW k \in Keys, NEW i \in Infos,
           BeginUpdate(t, k, i), UNCHANGED <<entry, listing>>
    PROVE  Own'
<1>1. thread'[t].ptr = None /\ \A u \in Threads : u # t => thread'[u] = thread[u]
  BY DEF BeginUpdate, TypeOK
<1>2. \A o \in Objs, l \in Keys : Points(o, l)' => Points(o, l)
  BY <1>1, NoneAssumption DEF Points
<1> QED BY <1>2, OwnKept

LEMMA OwnList ==
    ASSUME TypeOK, Places, Own, StartListing \/ ListStep \/ Tick PROVE Own'
<1>1. thread' = thread
  BY DEF StartListing, ListStep, Skip, Pick, Gather, Delete, HandOver, Tick
<1>2. CASE StartListing \/ Tick \/ Gather \/ HandOver \/ \E k \in Keys : Skip(k)
  <2>1. entry' = entry /\ (listing'.ptr = None \/ (listing'.ptr = listing.ptr /\ listing'.key = listing.key))
    <3>1. CASE StartListing \/ HandOver
      BY <3>1 DEF StartListing, HandOver, IdleListing
    <3>2. CASE Tick
      BY <3>2 DEF Tick
    <3>3. CASE Gather
      BY <3>3 DEF Gather, TypeOK
    <3>4. CASE \E k \in Keys : Skip(k)
      BY <3>4 DEF Skip, TypeOK
    <3> QED BY <1>2, <3>1, <3>2, <3>3, <3>4
  <2>2. \A o \in Objs, k \in Keys : Points(o, k)' => Points(o, k)
    BY <1>1, <2>1, NoneAssumption DEF Points
  <2> QED BY <2>2, OwnKept
<1>3. ASSUME NEW k \in Keys, Pick(k) PROVE Own'
  <2>1. entry' = entry /\ listing'.ptr = entry[k] /\ listing'.key = k
    BY <1>3 DEF Pick
  <2>2. \A o \in Objs, l \in Keys : Points(o, l)' => Points(o, l)
    BY <1>1, <2>1 DEF Points
  <2> QED BY <2>2, OwnKept
<1>4. CASE Delete
  <2>1. listing'.ptr = None /\ \A k \in Keys : entry'[k] = entry[k] \/ entry'[k] = None
    BY <1>4 DEF Delete, WithoutKey, TypeOK, Places
  <2>2. \A o \in Objs, k \in Keys : Points(o, k)' => Points(o, k)
    BY <1>1, <2>1, NoneAssumption DEF Points
  <2> QED BY <2>2, OwnKept
<1> QED BY <1>2, <1>3, <1>4 DEF ListStep

LEMMA OwnNext == ASSUME TypeOK, Places, Own, [Next]_vars PROVE Own'
<1>1. ASSUME NEW k \in Keys, Event(k) PROVE Own'
  <2>1. newest'[k] \in Infos
    <3>1. newest[k] + 1 \in Nat
      BY DEF TypeOK, Infos
    <3> QED BY <1>1, <3>1, ModuloInfos DEF Event, TypeOK
  <2> QED BY <1>1, <2>1, OwnBegin, ThreadsAre DEF Event
<1>2. ASSUME NEW k \in Keys, NEW i \in Infos, Retry(k, i) \/ Settle(k, i) PROVE Own'
  <2>1. CASE Retry(k, i)
    BY <2>1, OwnBegin, ThreadsAre DEF Retry
  <2>2. CASE Settle(k, i)
    BY <2>2 DEF Settle, Own, Points
  <2> QED BY <1>2, <2>1, <2>2
<1>3. CASE UNCHANGED vars
  BY <1>3 DEF vars, Own, Points
<1> QED BY <1>1, <1>2, <1>3, OwnUpdate, OwnList DEF Next

LEMMA OwnInit == Init => Own
BY NoneAssumption DEF Init, Own, Points, IdleThread, IdleListing

-----------------------------------------------------------------------------
(* The newest release.                                                     *)
LEMMA NewBegin ==
    ASSUME TypeOK, Places, NewInv, NEW k \in Keys, Event(k) PROVE NewInv'
<1>1. newest[k] + 1 \in Nat
  BY DEF TypeOK, Infos
<1>2. newest'[k] \in Infos /\ \A l \in Keys : l # k => newest'[l] = newest[l]
  BY <1>1, ModuloInfos DEF Event, TypeOK
<1>3. /\ thread' = [thread EXCEPT ![Agent] = [pc |-> "load", key |-> k, info |-> newest'[k], ptr |-> None]]
      /\ ~Busy(Agent) /\ listing.pc = "idle"
      /\ UNCHANGED <<entry, heap, listing, collected, retried>>
  BY DEF Event, BeginUpdate, Busy
<1>4. thread'[Agent] = [pc |-> "load", key |-> k, info |-> newest'[k], ptr |-> None]
  BY <1>3, ThreadsAre DEF TypeOK
<1>5. \A l \in Keys : Busy(l)' <=> Busy(l)
  BY <1>3, ThreadsAre DEF TypeOK, Busy
<1>6. \A l \in Keys : AgentOn(l)' <=> l = k
  BY <1>4 DEF AgentOn, Busy
<1>7. \A l \in Keys : collected[l] = -1
  BY <1>3 DEF Places
<1> QED BY <1>2, <1>3, <1>4, <1>5, <1>6, <1>7 DEF NewInv, AgentOn

LEMMA NewRetry ==
    ASSUME TypeOK, Places, NewInv, NEW k \in Keys, NEW i \in Infos, Retry(k, i) \/ Settle(k, i)
    PROVE  NewInv'
<1>1. CASE Settle(k, i)
  BY <1>1 DEF Settle, NewInv, AgentOn, Busy
<1>2. CASE Retry(k, i)
  <2>1. /\ retried' = retried \union {k} /\ UNCHANGED <<entry, heap, listing, collected, newest>>
        /\ \A u \in Threads : u # k => thread'[u] = thread[u]
    BY <1>2, ThreadsAre DEF Retry, BeginUpdate, TypeOK
  <2>2. thread'[Agent] = thread[Agent]
    BY <2>1, ThreadsAre
  <2>3. \A l \in Keys : l # k => thread'[l] = thread[l]
    BY <2>1, ThreadsAre
  <2> QED BY <2>1, <2>2, <2>3 DEF NewInv, AgentOn, Busy
<1> QED BY <1>1, <1>2

(* A committer changes an object of its own key only.                      *)
LEMMA NewCommitter ==
    ASSUME TypeOK, Places, Own, NewInv, NEW t \in Keys, UpdateStep(t) PROVE NewInv'
<1>1. UNCHANGED <<listing, collected, newest, retried>>
  BY DEF UpdateStep, LoadMiss, LoadHit, Change, Store
<1>2. t \in Threads /\ Busy(t) /\ thread[t].key = t /\ t \in retried
  BY ThreadsAre DEF UpdateStep, LoadMiss, LoadHit, Change, Store, Busy, Places, NewInv
<1>3. \A u \in Threads : u # t => thread'[u] = thread[u]
  <2>1. CASE LoadMiss(t)
    BY <2>1 DEF LoadMiss, TypeOK
  <2>2. CASE LoadHit(t)
    BY <2>2 DEF LoadHit, TypeOK
  <2>3. CASE Change(t)
    BY <2>3 DEF Change, TypeOK
  <2>4. CASE Store(t)
    BY <2>4 DEF Store, TypeOK
  <2> QED BY <2>1, <2>2, <2>3, <2>4 DEF UpdateStep
<1>4. thread'[Agent] = thread[Agent] /\ \A l \in Keys : l # t => thread'[l] = thread[l]
  BY <1>3, ThreadsAre
<1>5. \A l \in Keys : l # t => entry'[l] = entry[l]
  BY <1>2 DEF UpdateStep, LoadMiss, LoadHit, Change, Store, TypeOK
<1>6. \A o \in Objs, l \in Keys : l # t /\ Points(o, l) => heap'[o] = heap[o]
  <2>1. CASE LoadMiss(t)
    <3> DEFINE p == CHOOSE o \in Free : TRUE
    <3>1. p \in Objs /\ ~InUse(p) /\ heap' = [heap EXCEPT ![p] = ResetTimer(thread[t].info)]
      BY <2>1, FreeObject DEF LoadMiss
    <3> HIDE DEF p
    <3> QED BY <3>1 DEF Points, InUse, TypeOK
  <2>2. CASE Change(t)
    <3>1. thread[t].ptr \in Objs /\ Points(thread[t].ptr, t)
      BY <1>2, <2>2 DEF Change, Places, Holding, Points, TypeOK
    <3>2. \A o \in Objs : o # thread[t].ptr => heap'[o] = heap[o]
      BY <2>2 DEF Change, TypeOK
    <3> QED BY <3>1, <3>2 DEF Own
  <2>3. CASE LoadHit(t) \/ Store(t)
    BY <2>3 DEF LoadHit, Store
  <2> QED BY <2>1, <2>2, <2>3 DEF UpdateStep
<1>7. ASSUME NEW k \in Keys \ retried
      PROVE  /\ ~Busy(k)'
             /\ (entry[k] # None /\ ~AgentOn(k) => heap[entry[k]].info = newest[k])'
             /\ (AgentOn(k) /\ thread[Agent].pc = "store" => heap[thread[Agent].ptr].info = newest[k])'
             /\ (listing.pc = "append" /\ listing.key = k => heap[listing.ptr].info = newest[k])'
             /\ (collected[k] \in {-1, newest[k]})'
  <2>1. k # t /\ AgentOn(k)' = AgentOn(k) /\ Busy(k)' = Busy(k) /\ entry'[k] = entry[k]
    BY <1>2, <1>4, <1>5 DEF AgentOn, Busy
  <2>2. entry[k] # None => heap'[entry[k]] = heap[entry[k]]
    BY <1>6, <2>1 DEF Points, TypeOK
  <2>3. AgentOn(k) /\ thread[Agent].pc = "store" => heap'[thread[Agent].ptr] = heap[thread[Agent].ptr]
    <3> SUFFICES ASSUME AgentOn(k), thread[Agent].pc = "store"
                 PROVE  heap'[thread[Agent].ptr] = heap[thread[Agent].ptr]
      OBVIOUS
    <3>1. thread[Agent].ptr \in Objs /\ Points(thread[Agent].ptr, k)
      BY ThreadsAre DEF Places, Holding, TypeOK, Points, AgentOn
    <3> QED BY <1>6, <2>1, <3>1
  <2>4. listing.pc = "append" /\ listing.key = k => heap'[listing.ptr] = heap[listing.ptr]
    BY <1>6, <2>1 DEF Points, Places, TypeOK
  <2> QED BY <1>1, <1>4, <2>1, <2>2, <2>3, <2>4 DEF NewInv
<1> QED BY <1>1, <1>4, <1>7 DEF NewInv, AgentOn, Busy

LEMMA NewAgent ==
    ASSUME TypeOK, Places, Own, NewInv, UpdateStep(Agent) PROVE NewInv'
<1> DEFINE a == thread[Agent].key
<1>1. /\ UNCHANGED <<listing, collected, newest, retried>>
      /\ Agent \in Threads /\ Busy(Agent) /\ a \in Keys /\ thread[Agent].info = newest[a]
      /\ listing.pc = "idle"
  BY ThreadsAre DEF UpdateStep, LoadMiss, LoadHit, Change, Store, Busy, Places, NewInv, AgentOn
<1>2. \A k \in Keys : thread'[k] = thread[k]
  <2>1. CASE LoadMiss(Agent)
    BY <2>1, ThreadsAre DEF LoadMiss, TypeOK
  <2>2. CASE LoadHit(Agent)
    BY <2>2, ThreadsAre DEF LoadHit, TypeOK
  <2>3. CASE Change(Agent)
    BY <2>3, ThreadsAre DEF Change, TypeOK
  <2>4. CASE Store(Agent)
    BY <2>4, ThreadsAre DEF Store, TypeOK
  <2> QED BY <2>1, <2>2, <2>3, <2>4 DEF UpdateStep
<1>3. \A k \in Keys : k # a => entry'[k] = entry[k]
  BY <1>1 DEF UpdateStep, LoadMiss, LoadHit, Change, Store, TypeOK
<1>4. \A o \in Objs, l \in Keys : l # a /\ Points(o, l) => heap'[o] = heap[o]
  <2>1. CASE LoadMiss(Agent)
    <3> DEFINE p == CHOOSE o \in Free : TRUE
    <3>1. p \in Objs /\ ~InUse(p) /\ heap' = [heap EXCEPT ![p] = ResetTimer(thread[Agent].info)]
      BY <2>1, FreeObject DEF LoadMiss
    <3> HIDE DEF p
    <3> QED BY <3>1 DEF Points, InUse, TypeOK
  <2>2. CASE Change(Agent)
    <3>1. thread[Agent].ptr \in Objs /\ Points(thread[Agent].ptr, a)
      BY <1>1, <2>2 DEF Change, Places, Holding, Points, TypeOK
    <3>2. \A o \in Objs : o # thread[Agent].ptr => heap'[o] = heap[o]
      BY <2>2 DEF Change, TypeOK
    <3> QED BY <1>1, <3>1, <3>2 DEF Own
  <2>3. CASE LoadHit(Agent) \/ Store(Agent)
    BY <2>3 DEF LoadHit, Store
  <2> QED BY <2>1, <2>2, <2>3 DEF UpdateStep
<1> HIDE DEF a
<1>5. \/ /\ thread'[Agent].pc # "idle" /\ thread'[Agent].key = a
         /\ thread'[Agent].info = newest[a]
         /\ thread'[Agent].pc = "store" => heap'[thread'[Agent].ptr].info = newest[a]
      \/ /\ thread'[Agent].pc = "idle"
         /\ a \notin retried => heap'[entry'[a]].info = newest[a]
  <2>1. CASE LoadMiss(Agent)
    <3> DEFINE p == CHOOSE o \in Free : TRUE
    <3>1. /\ p \in Objs /\ heap' = [heap EXCEPT ![p] = ResetTimer(thread[Agent].info)]
          /\ thread' = [thread EXCEPT ![Agent].pc = "store", ![Agent].ptr = p]
      BY <2>1, FreeObject DEF LoadMiss
    <3> HIDE DEF p
    <3>2. thread'[Agent].pc = "store" /\ thread'[Agent].ptr = p
      BY <1>1, <3>1 DEF TypeOK
    <3>3. thread'[Agent].key = a /\ thread'[Agent].info = newest[a]
      BY <1>1, <3>1 DEF TypeOK, a
    <3>4. heap'[p].info = newest[a]
      BY <1>1, <3>1 DEF TypeOK, ResetTimer
    <3> QED BY <3>2, <3>3, <3>4
  <2>2. CASE LoadHit(Agent)
    <3>1. thread'[Agent].pc = "change"
      BY <1>1, <2>2 DEF LoadHit, TypeOK
    <3>2. thread'[Agent].key = a /\ thread'[Agent].info = newest[a]
      BY <1>1, <2>2 DEF LoadHit, TypeOK, a
    <3> QED BY <3>1, <3>2
  <2>3. CASE Change(Agent)
    <3>1. /\ thread'[Agent].pc = "store" /\ thread'[Agent].key = a
          /\ thread'[Agent].info = newest[a] /\ thread'[Agent].ptr = thread[Agent].ptr
      BY <1>1, <2>3 DEF Change, TypeOK, a
    <3>2. thread[Agent].ptr \in Objs
      BY <1>1, <2>3 DEF Change, Places, Holding, TypeOK
    <3>3. heap'[thread[Agent].ptr] = UpdatedTimer(heap[thread[Agent].ptr], thread[Agent].info)
      BY <2>3, <3>2 DEF Change, TypeOK
    <3>4. heap'[thread[Agent].ptr].info = newest[a]
      BY <1>1, <3>2, <3>3, UpdatedIs DEF TypeOK
    <3> QED BY <3>1, <3>4
  <2>4. CASE Store(Agent)
    <3>1. thread'[Agent].pc = "idle" /\ entry'[a] = thread[Agent].ptr /\ heap' = heap
      BY <1>1, <2>4 DEF Store, StoredPtr, IdleThread, TypeOK, a
    <3>2. a \notin retried => heap[thread[Agent].ptr].info = newest[a]
      BY <1>1, <2>4 DEF Store, NewInv, AgentOn, a
    <3> QED BY <3>1, <3>2
  <2> QED BY <2>1, <2>2, <2>3, <2>4 DEF UpdateStep
<1>6. AgentOn(a)
  BY <1>1 DEF AgentOn, a
<1>7. ASSUME NEW k \in Keys \ retried
      PROVE  /\ ~Busy(k)'
             /\ (entry[k] # None /\ ~AgentOn(k) => heap[entry[k]].info = newest[k])'
             /\ (AgentOn(k) /\ thread[Agent].pc = "store" => heap[thread[Agent].ptr].info = newest[k])'
             /\ (listing.pc = "append" /\ listing.key = k => heap[listing.ptr].info = newest[k])'
             /\ (collected[k] \in {-1, newest[k]})'
  <2>1. CASE k = a
    BY <1>1, <1>2, <1>5, <2>1 DEF NewInv, AgentOn, Busy
  <2>2. CASE k # a
    <3>1. ~AgentOn(k) /\ ~AgentOn(k)'
      BY <1>5, <2>2 DEF AgentOn, Busy, a
    <3>2. entry[k] # None => heap'[entry[k]] = heap[entry[k]]
      BY <1>4, <2>2 DEF Points, TypeOK
    <3> QED BY <1>1, <1>2, <1>3, <2>2, <3>1, <3>2 DEF NewInv, Busy
  <2> QED BY <2>1, <2>2
<1>8. \A k \in Keys : AgentOn(k)' => thread'[Agent].info = newest'[k]
  BY <1>1, <1>5 DEF AgentOn, Busy
<1> QED BY <1>1, <1>7, <1>8 DEF NewInv

LEMMA NewList ==
    ASSUME TypeOK, Places, NewInv, StartListing \/ ListStep PROVE NewInv'
<1>1. UNCHANGED <<thread, heap, newest>> /\ ~Busy(Agent)
  BY DEF StartListing, ListStep, Skip, Pick, Gather, Delete, HandOver, ListingDone, Places, Busy
<1>2. CASE StartListing
  BY <1>1, <1>2 DEF StartListing, NewInv, AgentOn, Busy
<1>3. ASSUME NEW k \in Keys, Skip(k) PROVE NewInv'
  BY <1>1, <1>3 DEF Skip, NewInv, AgentOn, Busy, TypeOK
<1>4. ASSUME NEW k \in Keys, Pick(k) PROVE NewInv'
  BY <1>1, <1>4 DEF Pick, NewInv, AgentOn, Busy
<1>5. CASE Gather
  <2>1. /\ UNCHANGED <<entry, retried>> /\ listing.pc = "append" /\ listing'.pc = "delete"
        /\ collected' = [collected EXCEPT ![listing.key] = heap[listing.ptr].info]
    BY <1>5 DEF Gather, TypeOK
  <2>2. \A k \in Keys : collected'[k] = IF k = listing.key THEN heap[listing.ptr].info ELSE collected[k]
    BY <2>1 DEF TypeOK
  <2> QED BY <1>1, <2>1, <2>2 DEF NewInv, AgentOn, Busy
<1>6. CASE Delete
  <2>1. /\ UNCHANGED <<collected, retried>> /\ listing'.pc = "visit"
        /\ \A k \in Keys : entry'[k] = entry[k] \/ entry'[k] = None
    BY <1>6 DEF Delete, WithoutKey, TypeOK, Places
  <2> QED BY <1>1, <2>1 DEF NewInv, AgentOn, Busy
<1>7. CASE HandOver
  <2>1. /\ entry' = entry /\ listing'.pc = "idle"
        /\ \A k \in Keys : collected'[k] = -1
        /\ \A k \in Keys : k \notin retried' => k \notin retried \/ (entry[k] = None /\ ~Busy(k))
    BY <1>7 DEF HandOver, IdleListing, Busy
  <2> QED BY <1>1, <2>1 DEF NewInv, AgentOn, Busy
<1> QED BY <1>2, <1>3, <1>4, <1>5, <1>6, <1>7 DEF ListStep

LEMMA NewTick == ASSUME TypeOK, Places, NewInv, Tick PROVE NewInv'
<1>1. /\ UNCHANGED <<entry, thread, listing, collected, newest, retried>>
      /\ listing.pc = "idle" /\ ~Busy(Agent)
  BY ThreadsAre DEF Tick, Busy
<1>2. ASSUME NEW k \in Keys, entry[k] # None
      PROVE  heap'[entry[k]].info = heap[entry[k]].info
  <2>1. entry[k] \in Objs /\ heap[entry[k]] \in Timers /\ InUse(entry[k])
    BY <1>2 DEF TypeOK, InUse
  <2>2. heap'[entry[k]] = Older(heap[entry[k]])
    BY <2>1 DEF Tick
  <2> QED BY <2>1, <2>2, OlderIs
<1> QED BY <1>1, <1>2 DEF NewInv, AgentOn, Busy

LEMMA NewNext == ASSUME TypeOK, Places, Own, NewInv, [Next]_vars PROVE NewInv'
<1>1. CASE UNCHANGED vars
  BY <1>1 DEF vars, NewInv, AgentOn, Busy
<1>2. ASSUME NEW t \in Threads, UpdateStep(t) PROVE NewInv'
  BY <1>2, NewAgent, NewCommitter DEF Threads
<1> QED BY <1>1, <1>2, NewBegin, NewRetry, NewList, NewTick DEF Next

LEMMA NewInit == Init => NewInv
BY ThreadsAre DEF Init, NewInv, AgentOn, Busy, IdleThread, IdleListing

(* What is committed is labelled with the release of the last event of the *)
(* stage, unless a retry has put its older release back.                   *)
THEOREM TimerNewestRelease == Spec => []NewestRelease
<1>1. NewInv => NewestRelease
  BY DEF NewInv, NewestRelease
<1> QED BY <1>1, TypeAndPlaces, OwnInit, OwnNext, NewInit, NewNext, PTL DEF Spec
=============================================================================
