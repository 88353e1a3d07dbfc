----------------------------- MODULE ApigwWatch -----------------------------
(***************************************************************************)
(* pkg/core/registry/apigw.go, Watch: the goroutine that turns the watch   *)
(* of the control plane's etcd into events for the agent, and the agent's  *)
(* side of it (pkg/core/agent/agent.go): when the channel is closed it     *)
(* calls Watch again.  Nothing is listed, neither at the start nor then.   *)
(* A panic in either goroutine ends the process, and the next one starts.  *)
(***************************************************************************)
EXTENDS EtcdLog, FiniteSets

CONSTANTS
    Ignored,         \* keys of a kind that is not in SupportEventResourceTypeMap
    Metadata,        \* keys of global plugin metadata
    Releases,        \* _bk_release keys; the others are stages' resources
    Bare,            \* values without labels
    ChanSize,        \* watchEventChanSize
    MaxFailures      \* bound of the exploration: broken watches and crashes

ASSUME BareAssumption ==
    /\ Bare \subseteq Values
    /\ Metadata \subseteq Ids \ Ignored /\ Releases \subseteq Ids \ (Ignored \union Metadata)
ASSUME SizeAssumption == ChanSize \in Nat \ {0}

VARIABLES
    currentRevision,
    pc,              \* "create", "wait", "handle", "gone": where the goroutine is
    watch,           \* [open, next, lost, rev]: the etcd watch channel
    resp,            \* [lo, hi, rev, kept]: the response: events still to be
                     \* handled, revision of the header, oldest revision with values
    retCh,           \* Seq of revisions: events on their way to the agent
    \* history
    start,           \* revision the first watch started at, 0 before
    anew,            \* revision the last watch from now on started at
    taken,           \* revisions of the events the agent has taken
    newest,          \* revision of the last of them
    cut,             \* revisions between the last response and its header
    passed,          \* those of them a watch made anew passed over
    failures         \* bound counter

watchVars == <<currentRevision, pc, watch, resp, retCh>>
history   == <<start, anew, taken, newest, cut, passed>>
vars      == <<etcdVars, watchVars, history, failures>>

NoWatch == [open |-> FALSE, next |-> 0, lost |-> FALSE, rev |-> 0]
NoResp  == [lo |-> 1, hi |-> 0, rev |-> 0, kept |-> 0]

Supported(n) == log[n].id \notin Ignored
InChan       == {retCh[n] : n \in 1..Len(retCh)}

-----------------------------------------------------------------------------
(* WithRev(0) is a watch from now on, any other revision is included.      *)
StartRevisionNext == IF currentRevision = 0 THEN Newest + 1 ELSE currentRevision + 2 \* mutant
StartRevisionNewest == Newest + 1                   \* mutant: from now on, always
StartRevision     == IF currentRevision = 0 THEN Newest + 1 ELSE currentRevision

CreateWatch ==
    /\ pc = "create"
    /\ watch' = [open |-> TRUE, next |-> StartRevision, lost |-> StartRevision < compacted,
                 rev |-> currentRevision]
    /\ start' = IF start = 0 THEN StartRevision ELSE start
    /\ anew' = IF currentRevision = 0 THEN StartRevision ELSE anew
    /\ passed' = passed \union (cut \intersect 1..StartRevision - 1)
    /\ cut' = {}
    /\ pc' = "wait"
    /\ UNCHANGED <<etcdVars, currentRevision, resp, retCh, taken, newest, failures>>

(* A response with the events up to revision n; headers go forward.        *)
Receive(n, h) ==
    /\ pc = "wait" /\ watch.open /\ ~watch.lost
    /\ n \in watch.next..Newest
    /\ HeaderOf(n, h) /\ h >= watch.rev
    /\ resp' = [lo |-> watch.next, hi |-> n, rev |-> h, kept |-> compacted]
    /\ watch' = [watch EXCEPT !.next = n + 1, !.rev = h]
    /\ cut' = n + 1..h - 1
    /\ pc' = "handle"
    /\ UNCHANGED <<etcdVars, currentRevision, retCh, start, anew, taken, newest, passed,
                   failures>>

(* extractResourceMetadata reads the labels of plugin metadata whether they*)
(* are there or not, and handleEvent the value a deletion deleted, which is*)
(* not there (PrevKv is nil) when it is compacted.                         *)
Read(n)   == IF log[n].r = Nil THEN log[n].prev ELSE log[n].r
Panics(n) ==
    \/ log[n].r = Nil /\ ValueGone(n, resp.kept)
    \/ log[n].id \in Metadata /\ Read(n) \in Bare

(* The next event is sent to the agent, or skipped if handleEvent finds    *)
(* fault with it.  Only the first of these caches the header's revision.   *)
RevisionSeenOnce == IF currentRevision = 0 THEN resp.rev ELSE currentRevision   \* mutant
RevisionSeen     == resp.rev

HandleEvent ==
    /\ pc = "handle" /\ resp.lo <= resp.hi /\ ~Panics(resp.lo)
    /\ IF Supported(resp.lo)
       THEN /\ Len(retCh) < ChanSize
            /\ retCh' = Append(retCh, resp.lo)
            /\ currentRevision' = RevisionSeen
       ELSE UNCHANGED <<retCh, currentRevision>>
    /\ resp' = [resp EXCEPT !.lo = @ + 1]
    /\ UNCHANGED <<etcdVars, pc, watch, history, failures>>

EndResponse ==
    /\ pc = "handle" /\ resp.lo > resp.hi
    /\ resp' = NoResp
    /\ pc' = "wait"
    /\ UNCHANGED <<etcdVars, currentRevision, watch, retCh, history, failures>>

(* The watch breaks; five seconds later it is made anew.                   *)
RecreateNot == "wait"                               \* mutant: no new channel
Recreate    == "create"

WatchFails ==
    /\ pc = "wait" /\ watch.open
    /\ failures < MaxFailures
    /\ failures' = failures + 1
    /\ watch' = NoWatch
    /\ pc' = Recreate
    /\ UNCHANGED <<etcdVars, currentRevision, resp, retCh, history>>

(* After a compaction the goroutine forgets the revision and closes retCh. *)
Compacted ==
    /\ pc = "wait" /\ watch.open /\ watch.next < compacted
    /\ watch' = NoWatch
    /\ currentRevision' = 0
    /\ pc' = "gone"
    /\ UNCHANGED <<etcdVars, resp, retCh, history, failures>>

(* The agent takes an event, or finds the closed channel empty.  It reads  *)
(* the labels of a release at once, those of a stage's resource after the  *)
(* deletions have been skipped.                                            *)
AgentPanics(n) ==
    \/ log[n].id \notin Metadata /\ log[n].r \in Bare
    \/ log[n].id \in Releases /\ Read(n) \in Bare

AgentReceive ==
    /\ retCh # <<>> /\ ~AgentPanics(Head(retCh))
    /\ taken' = taken \union {Head(retCh)}
    /\ newest' = Head(retCh)
    /\ retCh' = Tail(retCh)
    /\ UNCHANGED <<etcdVars, currentRevision, pc, watch, resp, start, anew, cut, passed,
                   failures>>

CreateWatchChannel ==
    /\ retCh = <<>> /\ pc = "gone"
    /\ pc' = "create"
    /\ UNCHANGED <<etcdVars, currentRevision, watch, resp, retCh, history, failures>>

(* The next process watches from now on.                                   *)
Restart ==
    /\ currentRevision' = 0
    /\ pc' = "create" /\ watch' = NoWatch /\ resp' = NoResp
    /\ retCh' = <<>>
    /\ UNCHANGED <<etcdVars, history>>

EventPanics ==
    /\ \/ pc = "handle" /\ resp.lo <= resp.hi /\ Panics(resp.lo)
       \/ retCh # <<>> /\ AgentPanics(Head(retCh))
    /\ Restart
    /\ UNCHANGED failures

Crash ==
    /\ failures < MaxFailures
    /\ failures' = failures + 1
    /\ Restart

Init ==
    /\ EtcdInit
    /\ currentRevision = 0
    /\ pc = "create" /\ watch = NoWatch /\ resp = NoResp
    /\ retCh = <<>>
    /\ start = 0 /\ anew = 0 /\ taken = {} /\ newest = 0
    /\ cut = {} /\ passed = {}
    /\ failures = 0

WatchStep ==
    \/ CreateWatch
    \/ \E n, h \in 1..Newest : Receive(n, h)
    \/ HandleEvent \/ EndResponse
    \/ Compacted

AgentStep == AgentReceive \/ CreateWatchChannel

Etcd ==
    /\ EtcdStep
    /\ \A id \in Ignored : store'[id] \notin Bare
    /\ UNCHANGED <<watchVars, history, failures>>

Next ==
    \/ Etcd
    \/ WatchStep
    \/ WatchFails \/ Crash
    \/ AgentStep \/ EventPanics

Spec     == Init /\ [][Next]_vars
FairSpec == Spec /\ WF_vars(WatchStep \/ EventPanics) /\ WF_vars(AgentStep \/ EventPanics)

-----------------------------------------------------------------------------
(* Type invariant.                                                         *)
TypeOK ==
    /\ EtcdTypeOK
    /\ currentRevision \in 0..Len(log)
    /\ pc \in {"create", "wait", "handle", "gone"}
    /\ watch \in [open : BOOLEAN, next : 0..Len(log) + 1, lost : BOOLEAN, rev : 0..Len(log)]
    /\ resp \in [lo : 1..Len(log) + 1, hi : 0..Len(log), rev : 0..Len(log), kept : 0..compacted]
    /\ retCh \in Seq(1..Len(log)) /\ Len(retCh) <= ChanSize
    /\ start \in 0..anew /\ anew \in 0..Len(log) + 1
    /\ taken \subseteq 1..Len(log) /\ newest \in 0..Len(log)
    /\ cut \subseteq 1..Len(log) /\ passed \subseteq 1..Len(log)
    /\ failures \in Nat

(* From the revision on at which a watch from now on was last made, none   *)
(* of the events the watch has gone by is left out, however often it broke *)
(* and was made again from the cached revision, but for those between a    *)
(* response that etcd cut short and its header when it broke right then.   *)
GoneBy(n) == pc = "wait" /\ watch.open =>
    \A m \in n..watch.next - 1 :
        m <= Newest /\ Supported(m) => m \in taken \union InChan \union passed

NoEventSkipped == GoneBy(anew)

(* "need full sync to recover", says the log of a compaction: nothing that *)
(* happened since the very first watch is left out, by then at least.      *)
NothingLost == start # 0 => GoneBy(start)

(* Events may be repeated, but an older one never follows a newer one: the *)
(* release info the timer keeps for a stage is that of its last event.     *)
OrderKept == [][newest' >= newest]_vars

(* When the writes and the failures end, every event from that revision on *)
(* has reached the agent, but for those the watch has passed over.         *)
EveryEventTaken ==
    <>[](\A n \in 1..Newest : anew # 0 /\ n >= anew /\ Supported(n) => n \in taken \union passed)
=============================================================================
