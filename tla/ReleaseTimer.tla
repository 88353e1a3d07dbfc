---------------------------- MODULE ReleaseTimer ----------------------------
(***************************************************************************)
(* pkg/core/agent/timer/timer.go: the sync.Map that gathers the changes of *)
(* a stage until they are due, and the two kinds of goroutine that use it: *)
(*   - the agent, which records events (Update) and collects what is due   *)
(*     (ListReleaseForCommit), one after the other;                        *)
(*   - the committer goroutine of a key, whose retryStage calls Update.    *)
(* Update loads a pointer, changes the object behind it and stores the     *)
(* pointer back, and the listing reads an entry before it deletes it, so   *)
(* the steps of the two interleave at the grain of single map operations.  *)
(***************************************************************************)
EXTENDS Integers, FiniteSets

CONSTANTS
    Keys,          \* stage release ids and GlobalResourceKey
    Agent,         \* the agent goroutine; the committer of key k is named k
    Objs,          \* addresses of CacheTimer objects
    None,
    WaitWindow,    \* eventsWaitingTimeWindow, in clock units
    ForceWindow,   \* forceUpdateTimeWindow
    Releases       \* releases of a key are told apart modulo this number

ASSUME AgentAssumption  == Agent \notin Keys
ASSUME NoneAssumption   == None \notin Objs /\ None \notin Keys
ASSUME WindowAssumption == WaitWindow \in Nat /\ ForceWindow \in Nat
ASSUME ReleaseAssumption == Releases \in Nat \ {0}

Threads == {Agent} \union Keys
Infos   == 0..(Releases - 1)     \* the release an info names

(* The CacheTimer object: age is the time since CachedTime and left the    *)
(* time to ShouldCommitTime, both kept only as far as the windows tell     *)
(* values apart.                                                           *)
Timers  == [info : Infos, age : 0..(ForceWindow + 1), left : (-1)..WaitWindow]

VARIABLES
    entry,      \* [Keys -> Objs or None]: the sync.Map
    heap,       \* [Objs -> Timers]
    thread,     \* [Threads -> record]: where each goroutine is in Update
    listing,    \* where the agent is in ListReleaseForCommit
    collected,  \* [Keys -> Infos or -1]: releaseInfos of this listing
    inflight,   \* [Keys -> SUBSET Infos]: handed over to the committer
    newest,     \* [Keys -> Infos]: the release of the last event
    \* history
    since,      \* [Keys -> age of the oldest update not handed over, or -1]
    retried     \* keys whose entry a retry may have written or be writing

vars == <<entry, heap, thread, listing, collected, inflight, newest, since, retried>>

IdleThread  == [pc |-> "idle", key |-> None, info |-> 0, ptr |-> None]
IdleListing == [pc |-> "idle", todo |-> {}, key |-> None, ptr |-> None]

(* An object is in use while the map or a goroutine points at it.          *)
InUse(o) == \/ \E k \in Keys : entry[k] = o
            \/ \E t \in Threads : thread[t].ptr = o
            \/ listing.ptr = o
Free     == {o \in Objs : ~InUse(o)}

-----------------------------------------------------------------------------
(* CacheTimer.Reset and CacheTimer.Update.                                 *)
ResetTimerLate(i)   == [info |-> i, age |-> 0, left |-> WaitWindow + 1]  \* mutant
ResetTimer(i)       == [info |-> i, age |-> 0, left |-> WaitWindow]
UpdatedTimerKeep(t, i)  == [t EXCEPT !.left = WaitWindow]  \* mutant: old release kept
UpdatedTimer(t, i)  == [t EXCEPT !.info = i, !.left = WaitWindow]

\* mutant: only a quiet key is due, however long it has been waiting
DueQuiet(t) == t.left < 0
Due(t) == t.left < 0 \/ t.age > ForceWindow

BeginUpdate(t, k, i) ==
    /\ thread' = [thread EXCEPT ![t] = [pc |-> "load", key |-> k, info |-> i, ptr |-> None]]
    /\ since' = [since EXCEPT ![k] = IF @ = -1 THEN 0 ELSE @]

(* The agent takes an event from the watch channel and calls Update.       *)
Event(k) ==
    /\ thread[Agent].pc = "idle" /\ listing.pc = "idle"
    /\ newest' = [newest EXCEPT ![k] = (@ + 1) % Releases]
    /\ BeginUpdate(Agent, k, newest'[k])
    /\ UNCHANGED <<entry, heap, listing, collected, inflight, retried>>

(* The commit of k fails and retryStage calls Update with its own info.    *)
Retry(k, i) ==
    /\ thread[k].pc = "idle"
    /\ i \in inflight[k]
    /\ inflight' = [inflight EXCEPT ![k] = @ \ {i}]
    /\ retried' = retried \union {k}
    /\ BeginUpdate(k, k, i)
    /\ UNCHANGED <<entry, heap, listing, collected, newest>>

(* The commit of k succeeds, or is given up.                               *)
Settle(k, i) ==
    /\ thread[k].pc = "idle"
    /\ i \in inflight[k]
    /\ inflight' = [inflight EXCEPT ![k] = @ \ {i}]
    /\ UNCHANGED <<entry, heap, thread, listing, collected, newest, since, retried>>

(* Update: Load finds nothing, a new object is prepared.                   *)
LoadMiss(t) ==
    /\ thread[t].pc = "load" /\ entry[thread[t].key] = None
    /\ Free # {}
    /\ LET o == CHOOSE o \in Free : TRUE IN
        /\ heap' = [heap EXCEPT ![o] = ResetTimer(thread[t].info)]
        /\ thread' = [thread EXCEPT ![t].pc = "store", ![t].ptr = o]
    /\ UNCHANGED <<entry, listing, collected, inflight, newest, since, retried>>

(* Update: Load finds the object of the key.                               *)
LoadHit(t) ==
    /\ thread[t].pc = "load" /\ entry[thread[t].key] # None
    /\ thread' = [thread EXCEPT ![t].pc = "change", ![t].ptr = entry[thread[t].key]]
    /\ UNCHANGED <<entry, heap, listing, collected, inflight, newest, since, retried>>

(* Update: the shared object is changed in place.                          *)
Change(t) ==
    /\ thread[t].pc = "change"
    /\ heap' = [heap EXCEPT ![thread[t].ptr] = UpdatedTimer(@, thread[t].info)]
    /\ thread' = [thread EXCEPT ![t].pc = "store"]
    /\ UNCHANGED <<entry, listing, collected, inflight, newest, since, retried>>

(* Update: the pointer is stored, whatever the map holds by now.           *)
StoredPtr(t) == thread[t].ptr

Store(t) ==
    /\ thread[t].pc = "store"
    /\ entry' = [entry EXCEPT ![thread[t].key] = StoredPtr(t)]
    /\ thread' = [thread EXCEPT ![t] = IdleThread]
    /\ UNCHANGED <<heap, listing, collected, inflight, newest, since, retried>>

-----------------------------------------------------------------------------
(* ListReleaseForCommit: Range visits every key once, in some order.       *)
StartListing ==
    /\ thread[Agent].pc = "idle" /\ listing.pc = "idle"
    /\ listing' = [pc |-> "visit", todo |-> Keys, key |-> None, ptr |-> None]
    /\ UNCHANGED <<entry, heap, thread, collected, inflight, newest, since, retried>>

\* mutant: the key is deleted whether it is due or not
SkipAndDelete(k) ==
    /\ listing.pc = "visit" /\ k \in listing.todo
    /\ entry[k] # None => ~Due(heap[entry[k]])
    /\ listing' = [listing EXCEPT !.todo = @ \ {k}]
    /\ entry' = [entry EXCEPT ![k] = None]
    /\ UNCHANGED <<heap, thread, collected, inflight, newest, since, retried>>

Skip(k) ==
    /\ listing.pc = "visit" /\ k \in listing.todo
    /\ entry[k] # None => ~Due(heap[entry[k]])
    /\ listing' = [listing EXCEPT !.todo = @ \ {k}]
    /\ UNCHANGED <<entry, heap, thread, collected, inflight, newest, since, retried>>

Pick(k) ==
    /\ listing.pc = "visit" /\ k \in listing.todo
    /\ entry[k] # None /\ Due(heap[entry[k]])
    /\ listing' = [pc |-> "append", todo |-> listing.todo \ {k}, key |-> k, ptr |-> entry[k]]
    /\ UNCHANGED <<entry, heap, thread, collected, inflight, newest, since, retried>>

Gather ==
    /\ listing.pc = "append"
    /\ collected' = [collected EXCEPT ![listing.key] = heap[listing.ptr].info]
    /\ listing' = [listing EXCEPT !.pc = "delete", !.ptr = None]
    /\ UNCHANGED <<entry, heap, thread, inflight, newest, since, retried>>

WithoutKey(k) == [entry EXCEPT ![k] = None]

Delete ==
    /\ listing.pc = "delete"
    /\ entry' = WithoutKey(listing.key)
    /\ listing' = [listing EXCEPT !.pc = "visit", !.key = None]
    /\ UNCHANGED <<heap, thread, collected, inflight, newest, since, retried>>

(* handleTicker sends the list, if there is one, to the commit channel.    *)
ListingDone == listing.pc = "visit" /\ listing.todo = {}

HandOver ==
    /\ ListingDone
    /\ LET ks == {k \in Keys : collected[k] # -1} IN
        /\ inflight' = [k \in Keys |->
                          IF k \in ks THEN inflight[k] \union {collected[k]} ELSE inflight[k]]
        /\ since' = [k \in Keys |-> IF k \in ks THEN -1 ELSE since[k]]
        /\ retried' = retried \ {k \in ks : entry[k] = None /\ thread[k].pc = "idle"}
    /\ collected' = [k \in Keys |-> -1]
    /\ listing' = IdleListing
    /\ UNCHANGED <<entry, heap, thread, newest>>

(* A clock unit passes.  Both windows are seconds and the code between two *)
(* of these states is a few map operations, so the clock stands still      *)
(* while any of them runs; objects nobody points at are collected.         *)
Older(t) == [t EXCEPT !.age = IF @ > ForceWindow THEN @ ELSE @ + 1,
                      !.left = IF @ < 0 THEN @ ELSE @ - 1]

Tick ==
    /\ listing.pc = "idle" /\ \A t \in Threads : thread[t].pc = "idle"
    /\ heap' = [o \in Objs |-> IF InUse(o) THEN Older(heap[o]) ELSE ResetTimer(0)]
    /\ since' = [k \in Keys |-> IF since[k] \in 0..ForceWindow THEN since[k] + 1 ELSE since[k]]
    /\ UNCHANGED <<entry, thread, listing, collected, inflight, newest, retried>>

Init ==
    /\ entry = [k \in Keys |-> None]
    /\ heap = [o \in Objs |-> ResetTimer(0)]
    /\ thread = [t \in Threads |-> IdleThread]
    /\ listing = IdleListing
    /\ collected = [k \in Keys |-> -1]
    /\ inflight = [k \in Keys |-> {}]
    /\ newest = [k \in Keys |-> 0]
    /\ since = [k \in Keys |-> -1]
    /\ retried = {}

UpdateStep(t) == LoadMiss(t) \/ LoadHit(t) \/ Change(t) \/ Store(t)
ListStep      == (\E k \in Keys : Skip(k) \/ Pick(k)) \/ Gather \/ Delete \/ HandOver

Next ==
    \/ \E k \in Keys : Event(k)
    \/ \E k \in Keys, i \in Infos : Retry(k, i) \/ Settle(k, i)
    \/ \E t \in Threads : UpdateStep(t)
    \/ StartListing
    \/ ListStep
    \/ Tick

Spec == Init /\ [][Next]_vars

(* A goroutine inside Update or the listing goes on; time passes; and the  *)
(* agent's select, which picks among its ready channels at random, serves  *)
(* the commit ticker again and again however many events there are.        *)
Fairness ==
    /\ \A t \in Threads : WF_vars(UpdateStep(t))
    /\ WF_vars(ListStep)
    /\ SF_vars(StartListing)
    /\ SF_vars(Tick)

FairSpec == Spec /\ Fairness

-----------------------------------------------------------------------------
(* Type invariant.                                                         *)
TypeOK ==
    /\ entry \in [Keys -> Objs \union {None}]
    /\ heap \in [Objs -> Timers]
    /\ thread \in [Threads -> [pc : {"idle", "load", "change", "store"},
                               key : Keys \union {None}, info : Infos,
                               ptr : Objs \union {None}]]
    /\ listing \in [pc : {"idle", "visit", "append", "delete"}, todo : SUBSET Keys,
                    key : Keys \union {None}, ptr : Objs \union {None}]
    /\ collected \in [Keys -> Infos \union {-1}]
    /\ inflight \in [Keys -> SUBSET Infos]
    /\ newest \in [Keys -> Infos]
    /\ since \in [Keys -> (-1)..(ForceWindow + 1)]
    /\ retried \subseteq Keys

Updating(k) == \E t \in Threads : thread[t].pc # "idle" /\ thread[t].key = k

(* No update is lost between Update's load and store and the listing's     *)
(* read and delete: until a commit of the key is handed over, the key is   *)
(* in the map, or in the list being made, or on its way into the map.      *)
NoUpdateForgotten ==
    \A k \in Keys : since[k] # -1 =>
        \/ entry[k] # None
        \/ collected[k] # -1
        \/ Updating(k)

(* However often a stage changes, a listing leaves no key behind that has  *)
(* been waiting longer than forceUpdateTimeWindow.                         *)
WaitIsBounded ==
    ListingDone => \A k \in Keys : since[k] > ForceWindow => collected[k] # -1

(* Unless a retry has put its older release back, what is committed is     *)
(* labelled with the release of the last event of the stage.               *)
NewestRelease ==
    ListingDone => \A k \in Keys \ retried : collected[k] \in {-1, newest[k]}

(* Every update is followed by a hand-over of its key.                     *)
EveryUpdateListed == \A k \in Keys : since[k] # -1 ~> since[k] = -1
=============================================================================
