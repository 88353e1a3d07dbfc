------------------------ MODULE VersionProbe_proofs -------------------------
(***************************************************************************)
(* Theorems about VersionProbe, for every set of probes, every size of the *)
(* chain and every number of retries.                                      *)
(***************************************************************************)
EXTENDS VersionProbe, FiniteSetTheorems, TLAPS

(* What the two goroutines of a probe have told the control plane, by how  *)
(* far they are: errChan is filled once, by the inner one on its way, and  *)
(* emptied once, by the outer one if it is not late.                       *)
Asking(p) == inner[p] \in {"none", "begin", "send", "try", "passed", "failed"}

Over(p) == outer[p] \in {"closing", "ended"}

Verdict(p) ==
    /\ outer[p] = "new" <=> inner[p] = "none"
    /\ outer[p] \in {"new", "select", "failing"} => failure[p] = 0
    /\ Asking(p) => success[p] = 0 /\ errChan[p] = "empty" /\ (Over(p) => failure[p] = 1)
    /\ inner[p] = "report" =>
            /\ success[p] = 0
            /\ \/ errChan[p] = "nil" /\ (Over(p) => failure[p] = 1)
               \/ errChan[p] = "empty" /\ Over(p) /\ failure[p] = 0
    /\ inner[p] = "ended" =>
            \/ errChan[p] = "nil" /\ success[p] = 1 /\ (Over(p) => failure[p] = 1)
            \/ errChan[p] = "err" /\ success[p] = 0 /\ (Over(p) => failure[p] = 1)
            \/ errChan[p] = "empty" /\ Over(p) /\ success[p] = 1 /\ failure[p] = 0
            \/ /\ errChan[p] = "empty" /\ success[p] = 0
               /\ outer[p] = "failing" \/ (Over(p) /\ failure[p] = 1)

VerdictInv == \A p \in Probes : Verdict(p)
Before     == {"none", "begin", "send"}
TriesInv   == \A p \in Probes : /\ inner[p] \in Before => tries[p] = 0 /\ captured[p] = None
                                /\ inner[p] = "try" => tries[p] <= RetryCount

(* A probe whose closure is its own and whose last answer the closure      *)
(* knows goes on to report success only if it has heard its version or a   *)
(* newer one.                                                              *)
Clean(p) == ~Shared(p) /\ lastAnswer[p] \notin {"other", "server"}

Heard(p) ==
    /\ inner[p] = "passed" /\ Clean(p) => retryError[p] \/ loaded[p] >= p
    /\ inner[p] = "report" /\ Clean(p) => loaded[p] >= p
    /\ p \in wrong => inner[p] = "ended" /\ ~Clean(p)

HeardInv == \A p \in Probes : Heard(p)

IndInv == TypeOK /\ IsFiniteSet(Holders) /\ TriesInv /\ VerdictInv /\ HeardInv

-----------------------------------------------------------------------------
(* The slots: one is taken by Begin, and given back when a probe is over.  *)
LEMMA HoldersBegin ==
    ASSUME TypeOK, IsFiniteSet(Holders), NEW p \in Probes, Begin(p)
    PROVE  IsFiniteSet(Holders') /\ Cardinality(Holders') <= BufferSize
<1>1. Holders' = Holders \union {p} /\ p \notin Holders
  BY DEF TypeOK, Begin, Holders
<1>2. IsFiniteSet(Holders') /\ Cardinality(Holders') = Cardinality(Holders) + 1
  BY <1>1, FS_AddElement
<1>3. Cardinality(Holders) < BufferSize /\ Cardinality(Holders) \in Nat
  BY FS_CardinalityType DEF Begin, SlotFree
<1> QED BY <1>2, <1>3, CountAssumption

LEMMA HoldersFewer ==
    ASSUME TypeOK, IsFiniteSet(Holders), Holders' \subseteq Holders
    PROVE  IsFiniteSet(Holders') /\ Cardinality(Holders') <= BufferSize
<1>1. IsFiniteSet(Holders') /\ Cardinality(Holders') <= Cardinality(Holders)
  BY FS_Subset
<1>2. /\ Cardinality(Holders) \in Nat /\ Cardinality(Holders') \in Nat
      /\ Cardinality(Holders) <= BufferSize
  BY <1>1, FS_CardinalityType DEF TypeOK
<1> QED BY <1>1, <1>2, CountAssumption

LEMMA HoldersNext ==
    ASSUME TypeOK, IsFiniteSet(Holders), [Next]_vars
    PROVE  IsFiniteSet(Holders') /\ Cardinality(Holders') <= BufferSize
<1>1. CASE \E p \in Probes : Begin(p)
  BY <1>1, HoldersBegin
<1>2. CASE \E p \in Probes : Waits(p)
  <2>1. Holders' \subseteq Holders
    BY <1>2 DEF TypeOK, Waits, TakeResult, TimeOut, Expired, AtTimeout, SendFailure,
               CloseErrChan, Holders
  <2> QED BY <2>1, HoldersFewer
<1>3. CASE UNCHANGED outer
  BY <1>3, HoldersFewer DEF Holders
<1> QED BY <1>1, <1>2, <1>3
        DEF Next, QueueStep, Asks, SetEvaluator, Send, Return, ReportSuccess, Load, Answer, vars

-----------------------------------------------------------------------------
(* Types.                                                                  *)
LEMMA TypeNext ==
    ASSUME TypeOK, IsFiniteSet(Holders), TriesInv, VerdictInv, [Next]_vars
    PROVE  TypeOK'
<1>0. Cardinality(Holders') <= BufferSize
  BY HoldersNext
<1> USE <1>0, ProbeAssumption, CountAssumption DEF TypeOK, EventQ!TypeOK
<1>1. ASSUME NEW p \in Probes, Begin(p) PROVE TypeOK'
  BY <1>1 DEF Begin
<1>2. ASSUME NEW p \in Probes, SetEvaluator(p) PROVE TypeOK'
  BY <1>2 DEF SetEvaluator
<1>3. ASSUME NEW p \in Probes, Send(p) PROVE TypeOK'
  BY <1>3 DEF Send
<1>4. ASSUME NEW p \in Probes, Return(p) PROVE TypeOK'
  BY <1>4 DEF Return
<1>5. ASSUME NEW p \in Probes, ReportSuccess(p) PROVE TypeOK'
  <2>1. success[p] = 0
    BY <1>5 DEF VerdictInv, Verdict, ReportSuccess
  <2> QED BY <1>5, <2>1 DEF ReportSuccess
<1>6. ASSUME NEW p \in Probes, TakeResult(p) \/ TimeOut(p) PROVE TypeOK'
  BY <1>6 DEF TakeResult, TimeOut, AtTimeout
<1>7. ASSUME NEW p \in Probes, SendFailure(p) PROVE TypeOK'
  <2>1. failure[p] = 0
    BY <1>7 DEF VerdictInv, Verdict, SendFailure
  <2> QED BY <1>7, <2>1 DEF SendFailure
<1>8. ASSUME NEW p \in Probes, CloseErrChan(p) PROVE TypeOK'
  BY <1>8 DEF CloseErrChan
<1>9. ASSUME NEW p \in Probes, Load(p) PROVE TypeOK'
  BY <1>9 DEF Load
<1>10. ASSUME NEW p \in Probes, NEW a \in Answers, Answer(p, a) PROVE TypeOK'
  <2> PICK v \in Judged(p) :
        LET e    == captured[p]
            more == AsksAgain(a, v, e) /\ tries[p] < RetryCount
        IN  /\ retryError' = [retryError EXCEPT ![e] = RetryErrorAfter(a, v, e)]
            /\ tries' = [tries EXCEPT ![p] = IF AsksAgain(a, v, e) THEN @ + 1 ELSE @]
            /\ inner' = [inner EXCEPT ![p] = IF more THEN "try" ELSE StopsOn(a)]
            /\ lastAnswer' = [lastAnswer EXCEPT ![p] = IF more THEN @ ELSE a]
    BY <1>10 DEF Answer
  <2> DEFINE e == captured[p]  again == AsksAgain(a, v, e)
  <2>1. tries' \in [Probes -> 0..RetryCount + 1]
    <3>1. tries[p] + 1 \in 0..RetryCount + 1
      BY <1>10 DEF TriesInv, Answer
    <3> DEFINE T == 0..RetryCount + 1
    <3>2. tries \in [Probes -> T] /\ tries[p] + 1 \in T
      BY <3>1
    <3>3. tries' = [tries EXCEPT ![p] = IF again THEN @ + 1 ELSE @]
      OBVIOUS
    <3> HIDE DEF T, again
    <3>4. tries' \in [Probes -> T]
      BY <3>2, <3>3
    <3> QED BY <3>4 DEF T
  <2>2. retryError' \in [Probes -> BOOLEAN]
    <3>1. e \in Probes => RetryErrorAfter(a, v, e) \in BOOLEAN
      BY DEF RetryErrorAfter, IsLatest
    <3>2. retryError' = [retryError EXCEPT ![e] = RetryErrorAfter(a, v, e)]
      OBVIOUS
    <3>3. retryError \in [Probes -> BOOLEAN]
      OBVIOUS
    <3> DEFINE R == RetryErrorAfter(a, v, e)  x == e
    <3> HIDE DEF R, x
    <3>4. (x \in Probes => R \in BOOLEAN) /\ retryError' = [retryError EXCEPT ![x] = R]
      BY <3>1, <3>2 DEF R, x
    <3> QED BY ONLY <3>3, <3>4
  <2>3. /\ inner' \in [Probes -> {"none", "begin", "send", "try", "passed", "failed", "report",
                                  "ended"}]
        /\ lastAnswer' \in [Probes -> Answers \union {"none"}]
    BY DEF StopsOn
  <2> QED BY <1>10, <2>1, <2>2, <2>3 DEF Answer
<1>11. CASE UNCHANGED vars
  BY <1>11 DEF vars, Holders
<1>12. ASSUME QueueStep(EventQ!Next) PROVE TypeOK'
  BY <1>12 DEF QueueStep, EventQ!Next, EventQ!Fill, EventQ!Take, EventQ!Clog, EventQ!TypeOK
<1> QED BY <1>1, <1>2, <1>3, <1>4, <1>5, <1>6, <1>7, <1>8, <1>9, <1>10, <1>11,
            <1>12
        DEF Next, Asks, Waits

-----------------------------------------------------------------------------
(* The verdicts.  An action of one probe leaves those of the others alone. *)
LEMMA VerdictSame ==
    ASSUME NEW q, Verdict(q), outer'[q] = outer[q], inner'[q] = inner[q],
           errChan'[q] = errChan[q], success'[q] = success[q], failure'[q] = failure[q]
    PROVE  Verdict(q)'
BY DEF Verdict, Asking, Over

LEMMA VerdictNext == ASSUME TypeOK, VerdictInv, [Next]_vars PROVE VerdictInv'
<1> USE DEF TypeOK
<1>1. ASSUME NEW p \in Probes, NEW q \in Probes,
             \/ Begin(p) \/ Asks(p) \/ Waits(p) \/ Load(p)
             \/ \E a \in Answers : Answer(p, a),
             q # p
      PROVE  Verdict(q)'
  <2>1. /\ outer'[q] = outer[q] /\ inner'[q] = inner[q] /\ errChan'[q] = errChan[q]
        /\ success'[q] = success[q] /\ failure'[q] = failure[q]
    BY <1>1 DEF Begin, Asks, SetEvaluator, Send, Return, ReportSuccess, Waits, TakeResult,
                TimeOut, AtTimeout, SendFailure, CloseErrChan, Load, Answer
  <2> QED BY <2>1, VerdictSame DEF VerdictInv
<1>2. ASSUME NEW p \in Probes,
             \/ Begin(p) \/ Asks(p) \/ Waits(p) \/ Load(p)
             \/ \E a \in Answers : Answer(p, a)
      PROVE  Verdict(p)'
  <2>0. Verdict(p)
    BY DEF VerdictInv
  <2>1. CASE Begin(p)
    BY <2>0, <2>1 DEF Begin, Verdict, Asking, Over
  <2>2. CASE SetEvaluator(p) \/ Send(p)
    BY <2>0, <2>2 DEF SetEvaluator, Send, Verdict, Asking, Over
  <2>3. CASE Return(p)
    BY <2>0, <2>3 DEF Return, Verdict, Asking, Over
  <2>4. CASE ReportSuccess(p)
    BY <2>0, <2>4 DEF ReportSuccess, Verdict, Asking, Over
  <2>5. CASE TakeResult(p)
    BY <2>0, <2>5 DEF TakeResult, Verdict, Asking, Over
  <2>6. CASE TimeOut(p)
    BY <2>0, <2>6 DEF TimeOut, Expired, AtTimeout, Verdict, Asking, Over
  <2>7. CASE SendFailure(p) \/ CloseErrChan(p)
    BY <2>0, <2>7 DEF SendFailure, CloseErrChan, Verdict, Asking, Over
  <2>8. CASE Load(p)
    BY <2>0, <2>8 DEF Load, Verdict, Asking, Over
  <2>9. ASSUME NEW a \in Answers, Answer(p, a) PROVE Verdict(p)'
    BY <2>0, <2>9 DEF Answer, StopsOn, Verdict, Asking, Over
  <2> QED BY <1>2, <2>1, <2>2, <2>3, <2>4, <2>5, <2>6, <2>7, <2>8, <2>9 DEF Asks, Waits
<1>3. CASE UNCHANGED vars \/ QueueStep(EventQ!Next)
  BY <1>3, VerdictSame DEF vars, QueueStep, VerdictInv
<1> QED BY <1>1, <1>2, <1>3 DEF Next, VerdictInv

LEMMA TriesNext == ASSUME TypeOK, TriesInv, VerdictInv, [Next]_vars PROVE TriesInv'
<1> USE CountAssumption DEF TypeOK, TriesInv, Before
<1>1. ASSUME NEW p \in Probes, NEW a \in Answers, Answer(p, a) PROVE TriesInv'
  <2>1. ASSUME NEW q \in Probes, q # p
        PROVE  tries'[q] = tries[q] /\ inner'[q] = inner[q] /\ captured' = captured
    BY <1>1, <2>1 DEF Answer
  <2>2. inner'[p] \notin Before
    BY <1>1 DEF Answer, StopsOn
  <2>3. ASSUME inner'[p] = "try" PROVE tries'[p] <= RetryCount
    BY <1>1, <2>3 DEF Answer, StopsOn
  <2> QED BY <2>1, <2>2, <2>3
<1>2. ASSUME NEW p \in Probes, Begin(p) PROVE TriesInv'
  <2>1. inner[p] = "none"
    BY <1>2 DEF VerdictInv, Verdict, Begin
  <2> QED BY <1>2, <2>1 DEF Begin
<1>3. ASSUME NEW p \in Probes, Asks(p) PROVE TriesInv'
  <2>1. CASE SetEvaluator(p) \/ Send(p)
    BY <2>1 DEF SetEvaluator, Send
  <2>2. CASE Return(p) \/ ReportSuccess(p)
    BY <2>2 DEF Return, ReportSuccess
  <2> QED BY <1>3, <2>1, <2>2 DEF Asks
<1>4. ASSUME NEW p \in Probes, Waits(p) \/ Load(p) PROVE TriesInv'
  BY <1>4 DEF Load, Waits, TakeResult, TimeOut, SendFailure, CloseErrChan
<1> QED BY <1>1, <1>2, <1>3, <1>4 DEF Next, QueueStep, vars

-----------------------------------------------------------------------------
(* What a probe has heard.                                                 *)
LEMMA HeardSame ==
    ASSUME TypeOK, TypeOK', NEW q \in Probes, Heard(q),
           inner'[q] \in {"passed", "report"} => inner[q] = inner'[q],
           Clean(q)' => Clean(q), loaded'[q] >= loaded[q],
           inner[q] = "passed" /\ Clean(q)' /\ retryError[q] => retryError'[q],
           q \in wrong' => q \in wrong, inner[q] = "ended" => inner'[q] = "ended"
    PROVE  Heard(q)'
BY ProbeAssumption DEF Heard, TypeOK

LEMMA HeardNext ==
    ASSUME TypeOK, TypeOK', TriesInv, VerdictInv, HeardInv, [Next]_vars PROVE HeardInv'
<1> USE ProbeAssumption
<1>0. \A q \in Probes : Heard(q)
  BY DEF HeardInv
<1>1. ASSUME NEW p \in Probes, NEW a \in Answers, Answer(p, a), NEW q \in Probes
      PROVE  Heard(q)'
  <2> PICK v \in Judged(p) :
        LET e    == captured[p]
            more == AsksAgain(a, v, e) /\ tries[p] < RetryCount
        IN  /\ retryError' = [retryError EXCEPT ![e] = RetryErrorAfter(a, v, e)]
            /\ tries' = [tries EXCEPT ![p] = IF AsksAgain(a, v, e) THEN @ + 1 ELSE @]
            /\ inner' = [inner EXCEPT ![p] = IF more THEN "try" ELSE StopsOn(a)]
            /\ lastAnswer' = [lastAnswer EXCEPT ![p] = IF more THEN @ ELSE a]
    BY <1>1 DEF Answer
  <2>0. /\ captured' = captured /\ loaded' = loaded /\ wrong' = wrong /\ inner[p] = "try"
        /\ \A x \in Probes : Shared(x)' <=> Shared(x)
    BY <1>1 DEF Answer, Shared
  <2>1. CASE q # p
    <3>1. inner'[q] = inner[q] /\ lastAnswer'[q] = lastAnswer[q]
      BY <2>1 DEF TypeOK
    <3>2. Clean(q)' => retryError'[q] = retryError[q]
      <4>1. Clean(q)' => captured[p] # q
        BY <2>0, <2>1 DEF Clean, Shared
      <4> QED BY <4>1 DEF TypeOK
    <3> QED BY <1>0, <2>0, <3>1, <3>2, HeardSame DEF Clean, TypeOK
  <2>2. CASE q = p /\ inner'[p] # "passed"
    <3>1. inner'[p] \in {"try", "failed"}
      BY <2>2 DEF StopsOn, TypeOK
    <3> QED BY <1>0, <2>0, <2>2, <3>1 DEF Heard
  <2>3. CASE q = p /\ inner'[p] = "passed"
    <3>1. lastAnswer'[p] = a /\ a # "refused"
      BY <2>3 DEF StopsOn, TypeOK
    <3>2. ASSUME Clean(p)' PROVE retryError'[p] \/ loaded'[p] >= p
      <4>1. captured[p] = p /\ ~Shared(p) /\ a \in {"missing", "version"}
        BY <2>0, <3>1, <3>2, AnswerAssumption DEF Clean, Shared, AnswerKinds
      <4>2. v = loaded[p]
        BY <4>1 DEF Judged, Shared
      <4>3. retryError'[p] = RetryErrorAfter(a, loaded[p], p)
        BY <4>1, <4>2 DEF TypeOK
      <4> QED BY <2>0, <4>1, <4>3 DEF RetryErrorAfter, IsLatest, TypeOK
    <3>3. p \notin wrong
      BY <1>0, <2>0 DEF Heard
    <3> QED BY <2>0, <2>3, <3>2, <3>3 DEF Heard
  <2> QED BY <2>1, <2>2, <2>3
<1>2. ASSUME NEW p \in Probes, ReportSuccess(p), NEW q \in Probes PROVE Heard(q)'
  <2>1. /\ captured' = captured /\ lastAnswer' = lastAnswer /\ loaded' = loaded
        /\ inner'[p] = "ended" /\ inner[p] = "report" /\ retryError' = retryError
        /\ wrong' = IF loaded[p] < p THEN wrong \union {p} ELSE wrong
        /\ q # p => inner'[q] = inner[q]
    BY <1>2 DEF ReportSuccess, TypeOK
  <2>2. Clean(q)' <=> Clean(q)
    BY <2>1 DEF Clean, Shared
  <2>3. CASE q # p
    BY <1>0, <2>1, <2>2, <2>3, HeardSame DEF TypeOK
  <2>4. CASE q = p
    <3>1. loaded[p] < p => ~Clean(p)
      BY <1>0, <2>1 DEF Heard, TypeOK
    <3> QED BY <1>0, <2>1, <2>2, <2>4, <3>1 DEF Heard
  <2> QED BY <2>3, <2>4
<1>3. ASSUME NEW p \in Probes, Send(p), NEW q \in Probes PROVE Heard(q)'
  <2>1. /\ lastAnswer' = lastAnswer /\ loaded' = loaded /\ wrong' = wrong
        /\ retryError' = retryError /\ inner'[p] = "try" /\ inner[p] = "send"
        /\ q # p => inner'[q] = inner[q] /\ captured'[q] = captured[q]
        /\ captured[p] = None
        /\ \A x \in Probes : x # p => captured'[x] = captured[x]
    BY <1>3 DEF Send, TypeOK, TriesInv, Before
  <2>2. CASE q # p
    <3>1. Clean(q)' => Clean(q)
      <4>1. Shared(q) => Shared(q)'
        BY <2>1, <2>2 DEF Shared, None
      <4> QED BY <2>1, <4>1 DEF Clean
    <3> QED BY <1>0, <2>1, <2>2, <3>1, HeardSame DEF TypeOK
  <2>3. CASE q = p
    BY <1>0, <2>1, <2>3 DEF Heard
  <2> QED BY <2>2, <2>3
<1>4. ASSUME NEW p \in Probes, Return(p), NEW q \in Probes PROVE Heard(q)'
  <2>1. /\ captured' = captured /\ lastAnswer' = lastAnswer /\ wrong' = wrong
        /\ loaded' = loaded /\ retryError' = retryError
        /\ inner[p] \in {"passed", "failed"}
        /\ inner'[p] = "report" => inner[p] = "passed" /\ ~retryError[p]
        /\ inner'[p] \in {"report", "ended"}
        /\ q # p => inner'[q] = inner[q]
    BY <1>4 DEF Return, TypeOK
  <2>2. Clean(q)' <=> Clean(q)
    BY <2>1 DEF Clean, Shared
  <2>3. CASE q # p
    BY <1>0, <2>1, <2>2, <2>3, HeardSame DEF TypeOK
  <2>4. CASE q = p
    BY <1>0, <2>1, <2>2, <2>4 DEF Heard
  <2> QED BY <2>3, <2>4
<1>5. ASSUME NEW p \in Probes, NEW q \in Probes,
             Begin(p) \/ SetEvaluator(p) \/ Waits(p) \/ Load(p)
      PROVE  Heard(q)'
  <2>1. /\ captured' = captured /\ lastAnswer' = lastAnswer /\ wrong' = wrong
        /\ retryError' = retryError
        /\ inner'[q] \in {"passed", "report"} => inner[q] = inner'[q]
    BY <1>5 DEF Begin, SetEvaluator, Waits, TakeResult, TimeOut, SendFailure, CloseErrChan, Load,
                TypeOK
  <2>2. loaded'[q] >= loaded[q]
    BY <1>5 DEF Begin, SetEvaluator, Waits, TakeResult, TimeOut, SendFailure, CloseErrChan, Load,
                TypeOK
  <2>3. inner[q] = "ended" => inner'[q] = "ended"
    <3>1. Begin(p) => inner[p] = "none"
      BY DEF VerdictInv, Verdict, Begin
    <3> QED BY <1>5, <3>1 DEF Begin, SetEvaluator, Waits, TakeResult, TimeOut, SendFailure,
                        CloseErrChan, Load, TypeOK
  <2>4. Clean(q)' => Clean(q)
    BY <2>1 DEF Clean, Shared
  <2> QED BY <1>0, <2>1, <2>2, <2>3, <2>4, HeardSame
<1>6. ASSUME UNCHANGED vars \/ QueueStep(EventQ!Next), NEW q \in Probes PROVE Heard(q)'
  <2>1. /\ captured' = captured /\ lastAnswer' = lastAnswer /\ wrong' = wrong
        /\ retryError' = retryError /\ inner' = inner /\ loaded' = loaded
    BY <1>6 DEF vars, QueueStep
  <2>2. Clean(q)' => Clean(q)
    BY <2>1 DEF Clean, Shared
  <2> QED BY <1>0, <2>1, <2>2, HeardSame DEF TypeOK
<1> QED BY <1>1, <1>2, <1>3, <1>4, <1>5, <1>6 DEF Next, Asks, HeardInv

-----------------------------------------------------------------------------
LEMMA IndInit == Init => IndInv
<1> SUFFICES ASSUME Init PROVE IndInv
  OBVIOUS
<1>1. Holders = {}
  BY DEF Init, Holders
<1>2. IsFiniteSet(Holders) /\ Cardinality(Holders) = 0
  BY <1>1, FS_EmptySet
<1>3. loaded \in [Probes -> Nat]
  <2>1. Cardinality(Probes) \in Nat
    BY ProbeAssumption, FS_CardinalityType
  <2> QED BY <2>1 DEF Init
<1>4. TypeOK
  BY <1>2, <1>3, CountAssumption DEF Init, TypeOK, EventQ!Init, EventQ!TypeOK
<1>5. TriesInv /\ VerdictInv /\ HeardInv
  BY DEF Init, TriesInv, Before, VerdictInv, Verdict, Asking, Over, HeardInv,
         Heard
<1> QED BY <1>2, <1>4, <1>5 DEF IndInv

LEMMA IndNext == IndInv /\ [Next]_vars => IndInv'
BY TypeNext, HoldersNext, TriesNext, VerdictNext, HeardNext DEF IndInv

LEMMA InductiveInvariant == Spec => []IndInv
BY IndInit, IndNext, PTL DEF Spec

(* Every variable keeps its type: a probe sends each of its two verdicts   *)
(* at most once, and no more probes than the chain has slots are under way.*)
THEOREM ProbeTypeOK == Spec => []TypeOK
BY InductiveInvariant, PTL DEF IndInv

(* A probe reports a success that is none only by a closure it shares with *)
(* another probe, or when its last answer has a status that retryEvaluator *)
(* does not know, or one of 500 and more or 429.                           *)
THEOREM ProbeWrongHasCause == Spec => []WrongHasCause
<1>1. IndInv => WrongHasCause
  BY DEF IndInv, HeardInv, Heard, Clean, WrongHasCause, TypeOK
<1> QED BY <1>1, InductiveInvariant, PTL

(* A probe that is over has sent one verdict, or both when the timeout was *)
(* taken before the good answer that is still in errChan.                  *)
THEOREM ProbeOneVerdict == Spec => []OneVerdict
<1>1. IndInv => OneVerdict
  BY DEF IndInv, VerdictInv, Verdict, Over, OneVerdict
<1> QED BY <1>1, InductiveInvariant, PTL
=============================================================================
