--------------------------- MODULE ApisixRegistry ---------------------------
(***************************************************************************)
(* pkg/core/registry/apisix.go: the cache of the resources of one type,    *)
(* kept by one goroutine (incrSync) that watches the APISIX etcd from the  *)
(* revision of its last full sync or last response on.  The store diffs    *)
(* against this cache, never against etcd.                                 *)
(***************************************************************************)
EXTENDS EtcdLog

CONSTANTS
    Unparsed,        \* values parseResource makes no resource of: "init_dir",
                     \* "{}", what is not JSON
    Odd,             \* keys that may hold such a value
    MaxFailures, MaxCrashes      \* bounds of the exploration

ASSUME UnparsedAssumption == Unparsed \subseteq Values
ASSUME OddAssumption      == Odd \subseteq Ids

VARIABLES
    resources,       \* [Ids -> Some]: the cache
    currentRevision,
    pc,              \* "create", "wait", "apply", "sync": where incrSync is
    watch,           \* [open, next, lost]: the etcd watch channel
    resp,            \* [lo, hi, rev, kept]: the response: events still to be
                     \* handled, revision of the header, oldest revision with values
    \* history
    pos,             \* newest revision the cache has seen, or has passed over
    ahead,           \* the header of the last response was newer than its events
    stale,           \* keys whose last write was skipped, or passed over, since
                     \* the last full sync
    failures, crashes            \* bound counters

regVars == <<resources, currentRevision, pc, watch, resp, pos, ahead, stale>>
vars    == <<etcdVars, regVars, failures, crashes>>

NoWatch == [open |-> FALSE, next |-> 0, lost |-> FALSE]
NoResp  == [lo |-> 1, hi |-> 0, rev |-> 0, kept |-> 0]

Larger(a, b) == IF a > b THEN a ELSE b
Parsed(m)    == [id \in Ids |-> IF m[id] \in Unparsed THEN Nil ELSE m[id]]

-----------------------------------------------------------------------------
(* The value of a key at a revision: that of the last event before it.     *)
ValueAt(id, n) ==
    LET S == {i \in 1..n : log[i].id = id}
    IN  IF S = {} THEN Nil ELSE log[CHOOSE i \in S : \A j \in S : j <= i].r

(* fullSync: list the range, replace the cache, remember the revision.     *)
\* mutant: the range is read from a member of the cluster that lags behind
FullSyncedLagging ==
    \E n \in 0..Newest :
        /\ resources' = Parsed([id \in Ids |-> ValueAt(id, n)])
        /\ currentRevision' = n
        /\ pos' = n
        /\ stale' = {} /\ ahead' = FALSE
\* mutant: what is listed is merged into the cache
FullSyncedMerge ==
    /\ resources' = [id \in Ids |-> IF store[id] = Nil THEN resources[id] ELSE Parsed(store)[id]]
    /\ currentRevision' = Newest
    /\ pos' = Newest
    /\ stale' = {} /\ ahead' = FALSE
FullSynced ==
    /\ resources' = Parsed(store)
    /\ currentRevision' = Newest
    /\ pos' = Newest
    /\ stale' = {} /\ ahead' = FALSE

(* The channel is made anew, from the cached revision on.  That repeats the*)
(* last event, or passes over those between it and the revision of the     *)
(* last header.                                                            *)
StartRevisionPrev == Larger(currentRevision - 1, 1) \* mutant: one too early
StartRevision     == Larger(currentRevision, 1)

CreateWatch ==
    /\ pc = "create"
    /\ watch' = [open |-> TRUE, next |-> StartRevision, lost |-> StartRevision < compacted]
    /\ pos' = Larger(pos, StartRevision - 1)
    /\ stale' = stale \union {log[n].id : n \in pos + 1..StartRevision - 1}
    /\ pc' = "wait"
    /\ UNCHANGED <<etcdVars, resources, currentRevision, resp, ahead, failures, crashes>>

(* A response with the events up to revision n.                            *)
Receive(n, h) ==
    /\ pc = "wait" /\ watch.open /\ ~watch.lost
    /\ n \in watch.next..Newest
    /\ HeaderOf(n, h) /\ h >= currentRevision
    /\ resp' = [lo |-> watch.next, hi |-> n, rev |-> h, kept |-> compacted]
    /\ watch' = [watch EXCEPT !.next = n + 1]
    /\ pc' = "apply"
    /\ UNCHANGED <<etcdVars, resources, currentRevision, pos, ahead, stale, failures, crashes>>

(* handlerEvent: a deletion is applied through the value it deleted, which *)
(* is not there (PrevKv is nil) when it is compacted: that is a panic.     *)
Panics(n) == log[n].r = Nil /\ ValueGone(n, resp.kept)
Handled(e) == IF e.r = Nil THEN e.prev \notin Unparsed ELSE e.r \notin Unparsed

ApplyEvent ==
    /\ pc = "apply" /\ resp.lo <= resp.hi /\ ~Panics(resp.lo)
    /\ LET e == log[resp.lo] IN
        IF Handled(e)
        THEN /\ resources' = [resources EXCEPT ![e.id] = e.r]
             /\ stale' = stale \ {e.id}
        ELSE /\ stale' = stale \union {e.id}
             /\ UNCHANGED resources
    /\ pos' = Larger(pos, resp.lo)
    /\ resp' = [resp EXCEPT !.lo = @ + 1]
    /\ UNCHANGED <<etcdVars, currentRevision, pc, watch, ahead, failures, crashes>>

RevisionSeenNext == resp.rev + 1                    \* mutant: one too far
RevisionSeen     == resp.rev

EndResponse ==
    /\ pc = "apply" /\ resp.lo > resp.hi
    /\ currentRevision' = RevisionSeen
    /\ ahead' = (resp.rev > resp.hi)
    /\ resp' = NoResp
    /\ pc' = "wait"
    /\ UNCHANGED <<etcdVars, resources, watch, pos, stale, failures, crashes>>

(* The watch is cancelled because of a compaction, or for another reason.  *)
Compacted ==
    /\ pc = "wait" /\ watch.open /\ watch.next < compacted
    /\ watch' = NoWatch
    /\ pc' = "sync"
    /\ UNCHANGED <<etcdVars, resources, currentRevision, resp, pos, ahead, stale, failures, crashes>>

WatchFails ==
    /\ pc = "wait" /\ watch.open
    /\ failures < MaxFailures
    /\ failures' = failures + 1
    /\ watch' = NoWatch
    /\ pc' = "create"
    /\ UNCHANGED <<etcdVars, resources, currentRevision, resp, pos, ahead, stale, crashes>>

(* A failed full sync leaves the cancelled channel in place ...            *)
FullSync ==
    /\ pc = "sync"
    /\ FullSynced
    /\ pc' = "create"
    /\ UNCHANGED <<etcdVars, watch, resp, failures, crashes>>

FullSyncFails ==
    /\ pc = "sync"
    /\ failures < MaxFailures
    /\ failures' = failures + 1
    /\ pc' = "wait"
    /\ UNCHANGED <<etcdVars, resources, currentRevision, watch, resp, pos, ahead, stale, crashes>>

(* ... and what is read from it next is its end.                           *)
RecreateNot(old) == old                             \* mutant: no new channel
Recreate(old)    == "create"

ChannelEnds ==
    /\ pc = "wait" /\ ~watch.open
    /\ pc' = Recreate(pc)
    /\ UNCHANGED <<etcdVars, resources, currentRevision, watch, resp, pos, ahead, stale,
                   failures, crashes>>

(* The process dies, of a panic in this goroutine or of anything else, and *)
(* the next one starts.                                                    *)
Restart ==
    /\ FullSynced
    /\ watch' = NoWatch /\ resp' = NoResp
    /\ pc' = "create"
    /\ UNCHANGED <<etcdVars, failures>>

EventPanics ==
    /\ pc = "apply" /\ resp.lo <= resp.hi /\ Panics(resp.lo)
    /\ Restart
    /\ UNCHANGED crashes

Crash ==
    /\ crashes < MaxCrashes
    /\ crashes' = crashes + 1
    /\ Restart

Init ==
    /\ EtcdInit
    /\ resources = [id \in Ids |-> Nil]
    /\ currentRevision = 0 /\ pos = 0 /\ stale = {} /\ ahead = FALSE
    /\ pc = "create" /\ watch = NoWatch /\ resp = NoResp
    /\ failures = 0 /\ crashes = 0

IncrSync ==
    \/ CreateWatch
    \/ \E n, h \in 1..Newest : Receive(n, h)
    \/ EventPanics \/ ApplyEvent \/ EndResponse
    \/ Compacted \/ FullSync \/ ChannelEnds

Etcd ==
    /\ EtcdStep
    /\ \A id \in Ids \ Odd : store'[id] \notin Unparsed
    /\ UNCHANGED <<regVars, failures, crashes>>

Next ==
    \/ Etcd
    \/ IncrSync
    \/ WatchFails \/ FullSyncFails
    \/ Crash

Spec     == Init /\ [][Next]_vars
FairSpec == Spec /\ WF_vars(IncrSync)

-----------------------------------------------------------------------------
(* Type invariant.                                                         *)
TypeOK ==
    /\ EtcdTypeOK
    /\ resources \in [Ids -> Some]
    /\ currentRevision \in 0..Len(log) /\ pos \in 0..Len(log)
    /\ pc \in {"create", "wait", "apply", "sync"}
    /\ watch \in [open : BOOLEAN, next : Nat, lost : BOOLEAN]
    /\ resp \in [lo : 1..Len(log) + 1, hi : 0..Len(log), rev : 0..Len(log), kept : 0..compacted]
    /\ ahead \in BOOLEAN
    /\ stale \subseteq Ids
    /\ failures \in Nat /\ crashes \in Nat

(* Whatever watch breaks, is repeated or compacted, the cache is the state *)
(* of etcd at one revision, in every key but those whose last write could  *)
(* not be parsed or was passed over.                                       *)
CacheIsOneState ==
    \A id \in Ids \ stale : resources[id] = Parsed([i \in Ids |-> ValueAt(i, pos)])[id]

(* The watch and the cache meet: but after a response that etcd cut short, *)
(* the revision the next watch starts at is the one the cache is at, so    *)
(* that it misses nothing; and the event it repeats is one the cache holds *)
(* already.                                                                *)
NoGap ==
    /\ pc # "apply" => currentRevision >= pos /\ (ahead \/ currentRevision = pos)
    /\ pc = "wait" /\ watch.open => watch.next <= pos + 1
    /\ pc = "apply" => resp.lo <= pos + 1

OneRepeat ==
    /\ pos > 0 /\ Handled(log[pos]) /\ log[pos].id \notin stale => resources[log[pos].id] = log[pos].r
    /\ pc = "wait" /\ watch.open => watch.next >= Larger(pos, 1)
    /\ pc = "apply" => resp.lo >= Larger(pos, 1) /\ watch.next = resp.hi + 1

WatchMeetsCache == NoGap /\ OneRepeat

(* For the keys whose values can be parsed the cache is a lagging view, as *)
(* long as their last write was not passed over.                           *)
Clean     == Ids \ Odd
Seen(id)  == IF id \in stale THEN ValueAt(id, pos) ELSE resources[id]
Unseen    == [n \in 1..Len(log) - pos |-> [id |-> log[pos + n].id, r |-> log[pos + n].r]]

View == INSTANCE LaggingView
            WITH Copied <- Clean, view <- [id \in Clean |-> Seen(id)], feed <- Unseen
Refines == View!Spec

(* When the writes and the failures end, the cache ends up with them all,  *)
(* but for the keys it has skipped or passed over last.                    *)
CatchesUp == <>[](\A id \in Ids \ stale : resources[id] = Parsed(store)[id])
=============================================================================
