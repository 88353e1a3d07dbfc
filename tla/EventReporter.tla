--------------------------- MODULE EventReporter ----------------------------
(***************************************************************************)
(* The event queue of pkg/eventreporter/reporter.go and its shutdown       *)
(* (cmd/init.go, cmd/root.go): commit jobs and probes add publish events   *)
(* to eventChain, one goroutine hands each to a goroutine that posts it to *)
(* the core API, and a signal closes the queue and waits until it is       *)
(* drained.                                                                *)
(***************************************************************************)
EXTENDS Integers, Sequences, FiniteSets

CONSTANTS
    Producers,           \* goroutines that add events
    EventsEach,          \* events a producer adds
    EventBufferSize, ReporterBufferSize,
    MaxHangs             \* bound of the exploration

ASSUME SizeAssumption ==
    EventsEach \in Nat /\ EventBufferSize \in Nat \ {0} /\ ReporterBufferSize \in Nat \ {0}

Events == Producers \X (1..EventsEach)
NoEvent == <<>>

VARIABLES
    eventChain,          \* Seq(Events)
    chainClosed,
    event,               \* the event the forwarder has taken from the queue
    forwarder,           \* "range", "dispatch", "close", "gone"
    reportChain,         \* slots taken
    reporting,           \* [Events -> Nat]: goroutines of reportEvent
    hook,                \* "none", "wait", "slept": where the signal handler is
    process,             \* "up", "exited"
    \* history
    sent,                \* [Producers -> Nat]: events it has put into the queue
    posted,              \* [Events -> Nat]: requests to the core API that have ended
    hung,                \* events whose request will never be answered
    panicked,            \* producers that sent on the closed queue
    timedOut             \* BOOLEAN: Shutdown gave up

queueVars   == <<eventChain, chainClosed>>
forwardVars == <<event, forwarder>>
reportVars  == <<reportChain, reporting, posted, hung>>
stopVars    == <<hook, process, timedOut>>
sendVars    == <<sent, panicked>>
vars        == <<queueVars, forwardVars, reportVars, stopVars, sendVars>>

Added == {e \in Events : e[2] <= sent[e[1]]}
Ended(p) == sent[p] = EventsEach \/ p \in panicked

-----------------------------------------------------------------------------
(* addEvent: waits while the queue is full, panics when it is closed.  The *)
(* panic ends the job; its goroutine recovers.                             *)
AddEvent(p) ==
    /\ process = "up" /\ ~Ended(p)
    /\ IF chainClosed
       THEN panicked' = panicked \union {p} /\ UNCHANGED <<eventChain, sent>>
       ELSE /\ Len(eventChain) < EventBufferSize
            /\ eventChain' = Append(eventChain, <<p, sent[p] + 1>>)
            /\ sent' = [sent EXCEPT ![p] = @ + 1]
            /\ UNCHANGED panicked
    /\ UNCHANGED <<chainClosed, forwardVars, reportVars, stopVars>>

(* Start: the forwarder ranges over the queue and takes a slot for each.   *)
Take ==
    /\ process = "up" /\ forwarder = "range" /\ eventChain # <<>>
    /\ event' = Head(eventChain)
    /\ eventChain' = Tail(eventChain)
    /\ forwarder' = "dispatch"
    /\ UNCHANGED <<chainClosed, reportVars, stopVars, sendVars>>

SlotFreeOneMore == reportChain <= ReporterBufferSize   \* mutant
SlotFree        == reportChain < ReporterBufferSize

Dispatch ==
    /\ process = "up" /\ forwarder = "dispatch"
    /\ SlotFree
    /\ reportChain' = reportChain + 1
    /\ reporting' = [reporting EXCEPT ![event] = @ + 1]
    /\ forwarder' = "range"
    /\ UNCHANGED <<event, posted, hung, queueVars, stopVars, sendVars>>

(* reportEvent posts its own copy of the event; success or not, that was   *)
(* the only attempt.                                                       *)
PostedShared(e) == event                            \* mutant: the closure shares the variable
Posted(e)       == e

SlotKept  == reportChain                            \* mutant: no release on an error
SlotGiven == reportChain - 1

ReportEvent(e) ==
    /\ process = "up" /\ reporting[e] > 0 /\ e \notin hung
    /\ reportChain' = SlotGiven
    /\ reporting' = [reporting EXCEPT ![e] = @ - 1]
    /\ posted' = [posted EXCEPT ![Posted(e)] = @ + 1]
    /\ UNCHANGED <<hung, queueVars, forwardVars, stopVars, sendVars>>

(* The request has no timeout: it may wait for ever, with its slot.        *)
Hang(e) ==
    /\ process = "up" /\ reporting[e] > 0 /\ e \notin hung
    /\ Cardinality(hung) < MaxHangs
    /\ hung' = hung \union {e}
    /\ UNCHANGED <<reportChain, reporting, posted, queueVars, forwardVars, stopVars, sendVars>>

(* The queue is closed and drained: the forwarder says so on close.        *)
DrainedAny == TRUE                                  \* mutant: it stops at the close
Drained    == eventChain = <<>>

Exhausted ==
    /\ process = "up" /\ forwarder = "range"
    /\ chainClosed /\ Drained
    /\ forwarder' = "close"
    /\ UNCHANGED <<event, queueVars, reportVars, stopVars, sendVars>>

(* A signal: the context is cancelled and Shutdown called.                 *)
Shutdown ==
    /\ process = "up" /\ hook = "none"
    /\ chainClosed' = TRUE
    /\ hook' = "wait"
    /\ UNCHANGED <<eventChain, process, timedOut, forwardVars, reportVars, sendVars>>

Closed ==
    /\ process = "up" /\ hook = "wait" /\ forwarder = "close"
    /\ forwarder' = "gone"
    /\ hook' = "slept"
    /\ UNCHANGED <<event, process, timedOut, queueVars, reportVars, sendVars>>

ShutdownTimeout ==
    /\ process = "up" /\ hook = "wait"
    /\ timedOut' = TRUE
    /\ hook' = "slept"
    /\ UNCHANGED <<process, queueVars, forwardVars, reportVars, sendVars>>

(* os.Exit after the hooks; or the agent sees the cancelled context and    *)
(* runner.Run, rootRun and main return.                                    *)
Exit ==
    /\ process = "up"
    /\ hook # "none"
    /\ process' = "exited"
    /\ UNCHANGED <<hook, timedOut, queueVars, forwardVars, reportVars, sendVars>>

Init ==
    /\ eventChain = <<>> /\ chainClosed = FALSE
    /\ event = NoEvent /\ forwarder = "range"
    /\ reportChain = 0 /\ reporting = [e \in Events |-> 0]
    /\ hook = "none" /\ process = "up"
    /\ sent = [p \in Producers |-> 0]
    /\ posted = [e \in Events |-> 0] /\ hung = {}
    /\ panicked = {} /\ timedOut = FALSE

Forward == Take \/ Dispatch \/ Exhausted
Reports == \E e \in Events : ReportEvent(e)

Next ==
    \/ \E p \in Producers : AddEvent(p)
    \/ Forward \/ Reports \/ \E e \in Events : Hang(e)
    \/ Shutdown \/ Closed \/ ShutdownTimeout \/ Exit

(* The core API answers every request but those that hang.                 *)
Spec     == Init /\ [][Next]_vars
FairSpec ==
    /\ Spec
    /\ WF_vars(Forward) /\ WF_vars(Reports)
    /\ \A p \in Producers : SF_vars(AddEvent(p))

-----------------------------------------------------------------------------
(* Type invariant; no more requests at a time than reportChain has slots.  *)
TypeOK ==
    /\ eventChain \in Seq(Events) /\ Len(eventChain) <= EventBufferSize
    /\ chainClosed \in BOOLEAN /\ timedOut \in BOOLEAN
    /\ event \in Events \union {NoEvent}
    /\ forwarder \in {"range", "dispatch", "close", "gone"}
    /\ reportChain \in 0..ReporterBufferSize /\ reporting \in [Events -> Nat]
    /\ hook \in {"none", "wait", "slept"} /\ process \in {"up", "exited"}
    /\ sent \in [Producers -> 0..EventsEach]
    /\ posted \in [Events -> Nat] /\ hung \subseteq Events
    /\ panicked \subseteq Producers

(* "Concurrent processing ... avoid closure problems": an added event is   *)
(* posted once, and none is posted that was not added.  The control plane  *)
(* may get the events of a publication in another order, but an event is   *)
(* overtaken only while it is being posted, never in the queue.            *)
Once == \A e \in Events : reporting[e] + posted[e] <= (IF e \in Added THEN 1 ELSE 0)

OvertakenOnlyInPool ==
    \A p \in Producers, m, n \in 1..EventsEach :
        m < n /\ posted[<<p, n>>] > 0 => reporting[<<p, m>>] + posted[<<p, m>>] > 0

PostedOnce == Once /\ OvertakenOnlyInPool

(* "Those who need to process the data before closing": once the shutdown  *)
(* hook is through, and did not give up, every event that was added before *)
(* the close is on its way at least.                                       *)
FlushedBeforeExit ==
    hook = "slept" /\ ~timedOut => \A e \in Added : reporting[e] + posted[e] > 0

(* Without a signal every job gets its events in and out, for as long as   *)
(* one place of the pool is not held by a request that hangs.              *)
PoolHung == Cardinality(hung) >= ReporterBufferSize

EveryEventPosted ==
    \A e \in Events : <>(posted[e] > 0 \/ hook # "none" \/ e \in hung \/ PoolHung)

(* To those who send to it the queue is EventQueue: whatever shutdown and  *)
(* hanging requests do, a full queue gets a place free in the end, unless  *)
(* the forwarder has an event in hand for a pool full of requests that     *)
(* hang; then it stays full for good.                                      *)
Full    == Len(eventChain) >= EventBufferSize
Clogged == Full /\ forwarder = "dispatch" /\ PoolHung

QueueState ==
    IF process = "exited" \/ Clogged THEN "clogged" ELSE IF Full THEN "full" ELSE "open"

AbstractQueue == INSTANCE EventQueue WITH queue <- QueueState
QueueRefines  == AbstractQueue!FairSpec
=============================================================================
