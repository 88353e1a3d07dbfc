----------------------------- MODULE EventQueue -----------------------------
(***************************************************************************)
(* The event queue of the reporter as its senders meet it: a send on       *)
(* reporter.eventChain (pkg/eventreporter/reporter.go) waits while the     *)
(* queue is full.  The queue is full for good once the requests to the     *)
(* core API that hang hold the whole pool of the reporter; otherwise a     *)
(* place comes free.  EventReporter implements this module; the modules    *)
(* that send to the queue instantiate it.                                  *)
(***************************************************************************)
VARIABLE queue         \* "open", "full", "clogged"

TypeOK == queue \in {"open", "full", "clogged"}

CanSend == queue = "open"

Init == queue = "open"

(* Senders take the last place; the forwarder takes the first event; the   *)
(* last place of the pool goes to a request that hangs, or the process is  *)
(* over.                                                                   *)
Fill == queue = "open" /\ queue' = "full"
Take == queue = "full" /\ queue' = "open"
Clog == queue # "clogged" /\ queue' = "clogged"

Next == Fill \/ Take \/ Clog

Spec     == Init /\ [][Next]_queue
FairSpec == Spec /\ WF_queue(Take)
=============================================================================
