---------------------------- MODULE VersionProbe ----------------------------
(***************************************************************************)
(* ReportLoadConfigurationResultEvent (pkg/eventreporter/reporter.go) and  *)
(* GetReleaseVersion (pkg/client/apisix.go): after a commit the operator   *)
(* asks APISIX for the version of the stage until it is the published one  *)
(* and reports whether the publication was loaded.  A probe is two         *)
(* goroutines: the inner one asks, the outer one waits for it or for a     *)
(* timeout; both send their verdict to the event queue (EventQueue), and   *)
(* wait while it is full.  What an answer means is decided by              *)
(* retry.Evaluator, a variable of the retry package that every probe sets  *)
(* before it asks.                                                         *)
(***************************************************************************)
EXTENDS Integers, FiniteSets

CONSTANTS
    Probes,           \* publish ids, each of a stage of its own
    BufferSize,       \* VersionProbe.BufferSize
    RetryCount,       \* VersionProbe.Retry.Count
    Answers           \* the answers explored, of AnswerKinds

(* No connection; a status of 500 and more or 429; a 404, or a body that   *)
(* cannot be read; a 200 with a version; any other status.                 *)
AnswerKinds == {"refused", "server", "missing", "version", "other"}

ASSUME ProbeAssumption == Probes \subseteq Nat \ {0} /\ IsFiniteSet(Probes)
ASSUME CountAssumption == BufferSize \in Nat /\ RetryCount \in Nat
ASSUME AnswerAssumption == Answers \subseteq AnswerKinds

None == 0

VARIABLES
    queue,            \* the event queue: "open", "full", "clogged"
    loaded,           \* [Probes -> Nat]: version APISIX answers with for the stage
    evaluator,        \* retry.Evaluator: the probe whose closure it is
    outer,            \* [Probes -> "new" | "select" | "failing" | "closing" | "ended"]
    inner,            \* [Probes -> "none" | "begin" | "send" | "try" | "passed" |
                      \*            "failed" | "report" | "ended"]
    captured,         \* [Probes -> Probes \union {None}]: evaluator of its request
    tries,            \* [Probes -> Nat]: answers that made it ask again
    retryError,       \* [Probes -> BOOLEAN]: *retryError is not nil
    errChan,          \* [Probes -> "empty" | "nil" | "err"]
    success, failure, \* [Probes -> Nat]: verdicts sent to eventChain
    \* history
    lastAnswer,       \* [Probes -> STRING]: the answer after which it did not ask again
    wrong             \* probes that reported success too early

vars == <<queue, loaded, evaluator, outer, inner, captured, tries, retryError, errChan, success,
          failure, lastAnswer, wrong>>

Holders == {p \in Probes : outer[p] \in {"select", "failing", "closing"}}

EventQ == INSTANCE EventQueue

-----------------------------------------------------------------------------
(* The reporter takes a slot of the chain, waits for APISIX to rebuild its *)
(* routes and starts the inner goroutine.                                  *)
SlotFreeOneMore == Cardinality(Holders) <= BufferSize   \* mutant
SlotFree        == Cardinality(Holders) < BufferSize

Begin(p) ==
    /\ outer[p] = "new"
    /\ SlotFree
    /\ outer' = [outer EXCEPT ![p] = "select"]
    /\ inner' = [inner EXCEPT ![p] = "begin"]
    /\ UNCHANGED <<queue, loaded, evaluator, captured, tries, retryError, errChan, success, failure,
                   lastAnswer, wrong>>

SetEvaluator(p) ==
    /\ inner[p] = "begin"
    /\ evaluator' = p
    /\ inner' = [inner EXCEPT ![p] = "send"]
    /\ UNCHANGED <<queue, loaded, outer, captured, tries, retryError, errChan, success, failure,
                   lastAnswer, wrong>>

(* Send makes a transport with the evaluator of the moment.                *)
Send(p) ==
    /\ inner[p] = "send"
    /\ captured' = [captured EXCEPT ![p] = evaluator]
    /\ inner' = [inner EXCEPT ![p] = "try"]
    /\ UNCHANGED <<queue, loaded, evaluator, outer, tries, retryError, errChan, success, failure,
                   lastAnswer, wrong>>

(* retryEvaluator, the closure of probe e, on an answer: its error, and    *)
(* what becomes of e's *retryError.  A status of 500 and more is asked     *)
(* about again, and leaves *retryError as it was.                          *)
IsLatestAny(v, e) == v > 0                          \* mutant: any version will do
IsLatest(v, e)    == v >= e

AsksAgain(a, v, e) ==
    a \in {"refused", "server", "missing"} \/ (a = "version" /\ ~IsLatest(v, e))

RetryErrorAfter(a, v, e) ==
    CASE a = "missing" -> TRUE
      [] a = "version" -> ~IsLatest(v, e)
      [] OTHER         -> retryError[e]

(* The closure reads the answer into the resp of probe e before it judges  *)
(* it: requests that share the closure may judge one another's version.    *)
Judged(p) == {loaded[p]} \union
    {loaded[q] : q \in {q \in Probes : captured[q] = captured[p] /\ inner[q] = "try"}}

(* When the retries are used up the transport returns what the last        *)
(* request did: an error of the connection, or a response.                 *)
StopsOn(a) == IF a = "refused" THEN "failed" ELSE "passed"

Answer(p, a) ==
    /\ inner[p] = "try"
    /\ \E v \in Judged(p) :
        LET e    == captured[p]
            more == AsksAgain(a, v, e) /\ tries[p] < RetryCount
        IN  /\ retryError' = [retryError EXCEPT ![e] = RetryErrorAfter(a, v, e)]
            /\ tries' = [tries EXCEPT ![p] = IF AsksAgain(a, v, e) THEN @ + 1 ELSE @]
            /\ inner' = [inner EXCEPT ![p] = IF more THEN "try" ELSE StopsOn(a)]
            /\ lastAnswer' = [lastAnswer EXCEPT ![p] = IF more THEN @ ELSE a]
    /\ UNCHANGED <<queue, loaded, evaluator, outer, captured, errChan, success, failure, wrong>>

(* errChan <- err; on the closed channel of a probe that has timed out the *)
(* goroutine panics, and recovers.                                         *)
Return(p) ==
    /\ inner[p] \in {"passed", "failed"}
    /\ LET err == inner[p] = "failed" \/ retryError[p] IN
        IF outer[p] = "ended"
        THEN inner' = [inner EXCEPT ![p] = "ended"] /\ UNCHANGED errChan
        ELSE /\ errChan' = [errChan EXCEPT ![p] = IF err THEN "err" ELSE "nil"]
             /\ inner' = [inner EXCEPT ![p] = IF err THEN "ended" ELSE "report"]
    /\ UNCHANGED <<queue, loaded, evaluator, outer, captured, tries, retryError, success, failure,
                   lastAnswer, wrong>>

ReportSuccess(p) ==
    /\ inner[p] = "report"
    /\ EventQ!CanSend
    /\ success' = [success EXCEPT ![p] = @ + 1]
    /\ wrong' = IF loaded[p] < p THEN wrong \union {p} ELSE wrong
    /\ inner' = [inner EXCEPT ![p] = "ended"]
    /\ UNCHANGED <<queue, loaded, evaluator, outer, captured, tries, retryError, errChan, failure,
                   lastAnswer>>

(* The outer goroutine: the result, or the timeout; when both are there,   *)
(* either.                                                                 *)
TakeResult(p) ==
    /\ outer[p] = "select" /\ errChan[p] # "empty"
    /\ errChan' = [errChan EXCEPT ![p] = "empty"]
    /\ outer' = [outer EXCEPT ![p] = IF errChan[p] = "err" THEN "failing" ELSE "closing"]
    /\ UNCHANGED <<queue, loaded, evaluator, inner, captured, tries, retryError, success,
                   failure, lastAnswer, wrong>>

AtTimeoutSilent == "closing"                        \* mutant: it only stops waiting
AtTimeout       == "failing"

ExpiredNever(p) == FALSE                            \* mutant: no timeout
Expired(p)      == outer[p] = "select"

TimeOut(p) ==
    /\ Expired(p)
    /\ outer' = [outer EXCEPT ![p] = AtTimeout]
    /\ UNCHANGED <<queue, loaded, evaluator, inner, captured, tries, retryError, errChan, success,
                   failure, lastAnswer, wrong>>

(* The failure goes to the queue; the slots are kept until it is in it.    *)
SendFailure(p) ==
    /\ outer[p] = "failing"
    /\ EventQ!CanSend
    /\ failure' = [failure EXCEPT ![p] = @ + 1]
    /\ outer' = [outer EXCEPT ![p] = "closing"]
    /\ UNCHANGED <<queue, loaded, evaluator, inner, captured, tries, retryError, errChan, success,
                   lastAnswer, wrong>>

(* The deferred functions: errChan is closed, the slots are given back.    *)
(* After a timeout an answer may come in before.                           *)
CloseErrChan(p) ==
    /\ outer[p] = "closing"
    /\ outer' = [outer EXCEPT ![p] = "ended"]
    /\ UNCHANGED <<queue, loaded, evaluator, inner, captured, tries, retryError, errChan, success,
                   failure, lastAnswer, wrong>>

(* Other senders and the reporter at the queue; APISIX loads a publication.*)
QueueStep(step) ==
    /\ step
    /\ UNCHANGED <<loaded, evaluator, outer, inner, captured, tries, retryError, errChan, success,
                   failure, lastAnswer, wrong>>
QueueTake == QueueStep(EventQ!Take)

Load(p) ==
    /\ loaded[p] < p
    /\ loaded' = [loaded EXCEPT ![p] = p]
    /\ UNCHANGED <<queue, evaluator, outer, inner, captured, tries, retryError, errChan, success,
                   failure, lastAnswer, wrong>>

-----------------------------------------------------------------------------
Init ==
    /\ EventQ!Init
    /\ loaded \in {f \in [Probes -> 0..Cardinality(Probes)] : \A p \in Probes : f[p] < p}
    /\ evaluator = None
    /\ outer = [p \in Probes |-> "new"] /\ inner = [p \in Probes |-> "none"]
    /\ captured = [p \in Probes |-> None]
    /\ tries = [p \in Probes |-> 0]
    /\ retryError = [p \in Probes |-> FALSE]
    /\ errChan = [p \in Probes |-> "empty"]
    /\ success = [p \in Probes |-> 0] /\ failure = [p \in Probes |-> 0]
    /\ lastAnswer = [p \in Probes |-> "none"] /\ wrong = {}

Asks(p)  == SetEvaluator(p) \/ Send(p) \/ Return(p) \/ ReportSuccess(p)
Waits(p) == TakeResult(p) \/ TimeOut(p) \/ SendFailure(p) \/ CloseErrChan(p)

Next ==
    \/ QueueStep(EventQ!Next)
    \/ \E p \in Probes :
        \/ Begin(p) \/ Asks(p) \/ Waits(p) \/ Load(p)
        \/ \E a \in Answers : Answer(p, a)

(* APISIX need not answer; a request has no timeout of its own.  Whoever   *)
(* waits to send is served in the order of arrival.                        *)
Spec     == Init /\ [][Next]_vars
FairSpec ==
    /\ Spec /\ WF_vars(QueueTake)
    /\ \A p \in Probes : SF_vars(Begin(p)) /\ SF_vars(Asks(p)) /\ SF_vars(Waits(p))

-----------------------------------------------------------------------------
(* Type invariant.                                                         *)
TypeOK ==
    /\ EventQ!TypeOK
    /\ loaded \in [Probes -> Nat]
    /\ evaluator \in Probes \union {None}
    /\ outer \in [Probes -> {"new", "select", "failing", "closing", "ended"}]
    /\ inner \in [Probes -> {"none", "begin", "send", "try", "passed", "failed", "report",
                             "ended"}]
    /\ captured \in [Probes -> Probes \union {None}]
    /\ tries \in [Probes -> 0..RetryCount + 1]
    /\ retryError \in [Probes -> BOOLEAN]
    /\ errChan \in [Probes -> {"empty", "nil", "err"}]
    /\ success \in [Probes -> 0..1] /\ failure \in [Probes -> 0..1]
    /\ lastAnswer \in [Probes -> Answers \union {"none"}] /\ wrong \subseteq Probes
    /\ Cardinality(Holders) <= BufferSize

(* "If the version is smaller than the current one, the current version    *)
(* has not been loaded yet": success is reported of a stage that APISIX    *)
(* has loaded in the published version, or in a newer one.                 *)
SuccessMeansLoaded == wrong = {}

(* Only three things lead a probe astray: a closure it shares with another *)
(* probe, because one of the two asked with the evaluator of the other;    *)
(* a last answer with a status that retryEvaluator does not know; and a    *)
(* last answer of status 500 and more or 429, which is not an error of the *)
(* request and leaves *retryError nil.                                     *)
Shared(p) == captured[p] # p \/ \E q \in Probes : q # p /\ captured[q] = p

WrongHasCause == \A p \in wrong : Shared(p) \/ lastAnswer[p] \in {"other", "server"}

(* A probe that is over has told the control plane how it ended, and once; *)
(* it has told both success and failure when the timeout was taken and the *)
(* good answer is still in errChan: because select chose between the two,  *)
(* or because the answer came before errChan was closed.                   *)
OneVerdict ==
    \A p \in Probes : outer[p] = "ended" /\ inner[p] = "ended" =>
        success[p] + failure[p] = IF errChan[p] = "nil" THEN 2 ELSE 1

(* Every probe ends, and gives back the slots of the chain and of its      *)
(* gateway, whether APISIX answers or not, unless requests to the core API *)
(* that hang have filled the event queue: then its verdict waits for good. *)
EveryProbeEnds == \A p \in Probes : <>(outer[p] = "ended" \/ queue = "clogged")
=============================================================================
