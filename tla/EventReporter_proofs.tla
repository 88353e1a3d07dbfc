------------------------ MODULE EventReporter_proofs ------------------------
(***************************************************************************)
(* Theorems about EventReporter, for every set of producers, every number  *)
(* of events and every size of the queue and of the pool.                  *)
(***************************************************************************)
EXTENDS EventReporter, FiniteSetTheorems, TLAPS

Queued(e)  == \E n \in 1..Len(eventChain) : eventChain[n] = e
Taken(e)   == forwarder = "dispatch" /\ event = e
Waiting(e) == Queued(e) \/ Taken(e)
Handled(e) == reporting[e] + posted[e]

(* The queue holds added events, those of a producer in the order in which *)
(* it added them, and the forwarder has the one before them.               *)
QueueInv ==
    /\ \A n \in 1..Len(eventChain) : eventChain[n] \in Added
    /\ \A m, n \in 1..Len(eventChain) :
            m < n /\ eventChain[m][1] = eventChain[n][1] => eventChain[m][2] < eventChain[n][2]
    /\ forwarder = "dispatch" =>
            /\ event \in Added
            /\ \A n \in 1..Len(eventChain) :
                    eventChain[n][1] = event[1] => event[2] < eventChain[n][2]

(* An added event waits or has been handed out, once; and none of its      *)
(* producer's has been handed out while an earlier one waits.              *)
CountInv ==
    /\ \A e \in Added : Waiting(e) \/ Handled(e) = 1
    /\ \A e \in Events \ Added : Handled(e) = 0
    /\ \A e, f \in Events : Waiting(e) /\ e[1] = f[1] /\ e[2] <= f[2] => Handled(f) = 0

(* A place of the pool is taken for every event that is being posted.      *)
Active  == {e \in Events : reporting[e] > 0}
SlotInv == IsFiniteSet(Active) /\ reportChain = Cardinality(Active)

(* The forwarder leaves its loop when the queue is closed and empty, and   *)
(* the hook goes on when the forwarder has left or the time is up.         *)
StopInv ==
    /\ forwarder \in {"close", "gone"} => eventChain = <<>> /\ chainClosed
    /\ hook = "slept" /\ ~timedOut => forwarder = "gone"

IndInv == TypeOK /\ QueueInv /\ CountInv /\ SlotInv /\ StopInv

-----------------------------------------------------------------------------
(* Events are pairs.                                                       *)
LEMMA EventIsPair ==
    ASSUME NEW e \in Events
    PROVE  e = <<e[1], e[2]>> /\ e[1] \in Producers /\ e[2] \in 1..EventsEach
BY DEF Events

LEMMA IndInit == Init => IndInv
<1> SUFFICES ASSUME Init PROVE IndInv
  OBVIOUS
<1>1. Added = {}
  BY EventIsPair DEF Init, Added
<1>2. TypeOK
  <2>1. eventChain \in Seq(Events) /\ Len(eventChain) = 0
    BY DEF Init
  <2>2. event \in Events \union {NoEvent}
    BY DEF Init
  <2>3. /\ reporting \in [Events -> Nat] /\ posted \in [Events -> Nat]
        /\ sent \in [Producers -> 0..EventsEach] /\ reportChain \in 0..ReporterBufferSize
    BY SizeAssumption DEF Init
  <2>4. /\ chainClosed \in BOOLEAN /\ timedOut \in BOOLEAN /\ forwarder = "range"
        /\ hook = "none" /\ process = "up" /\ hung \subseteq Events /\ panicked \subseteq Producers
    BY DEF Init
  <2> QED BY <2>1, <2>2, <2>3, <2>4, SizeAssumption DEF TypeOK
<1>3. QueueInv /\ StopInv
  BY DEF Init, QueueInv, StopInv
<1>4. CountInv
  BY <1>1 DEF Init, CountInv, Waiting, Queued, Taken, Handled
<1>5. Active = {}
  BY DEF Init, Active
<1>6. SlotInv
  BY <1>5, FS_EmptySet DEF Init, SlotInv
<1> QED BY <1>2, <1>3, <1>4, <1>6 DEF IndInv

-----------------------------------------------------------------------------
(* The producers.                                                          *)
LEMMA IndAdd == ASSUME IndInv, NEW p \in Producers, AddEvent(p) PROVE IndInv'
<1>1. CASE chainClosed
  <2>1. panicked' = panicked \union {p} /\ UNCHANGED <<eventChain, sent>>
    BY <1>1 DEF AddEvent
  <2> QED
    BY <2>1 DEF AddEvent, IndInv, TypeOK, QueueInv, CountInv, SlotInv, StopInv, Active, Added,
                Waiting, Queued, Taken, Handled, queueVars, forwardVars, reportVars, stopVars
<1>2. CASE ~chainClosed
  <2> DEFINE new == <<p, sent[p] + 1>>
  <2>1. /\ eventChain' = Append(eventChain, new) /\ sent' = [sent EXCEPT ![p] = @ + 1]
        /\ Len(eventChain) < EventBufferSize /\ sent[p] # EventsEach
        /\ UNCHANGED <<panicked, chainClosed, forwardVars, reportVars, stopVars>>
    BY <1>2 DEF AddEvent, Ended
  <2>2. sent[p] \in 0..EventsEach /\ sent[p] + 1 \in 1..EventsEach /\ new \in Events
    <3>1. sent[p] \in 0..EventsEach /\ EventsEach \in Nat
      BY SizeAssumption DEF IndInv, TypeOK
    <3> QED BY <2>1, <3>1 DEF Events
  <2>3. Added' = Added \union {new} /\ new \notin Added
    <3>1. \A e \in Events : e \in Added' <=> (e \in Added \/ e = new)
      <4> SUFFICES ASSUME NEW e \in Events PROVE e \in Added' <=> (e \in Added \/ e = new)
        OBVIOUS
      <4>1. e = <<e[1], e[2]>> /\ e[1] \in Producers /\ e[2] \in Nat
        BY EventIsPair
      <4>2. e[1] # p => sent'[e[1]] = sent[e[1]]
        BY <2>1, <4>1 DEF IndInv, TypeOK
      <4>3. sent'[p] = sent[p] + 1
        BY <2>1 DEF IndInv, TypeOK
      <4> QED BY <4>1, <4>2, <4>3, <2>2 DEF Added
    <3> QED BY <3>1, <2>2 DEF Added
  <2>4. /\ Len(eventChain') = Len(eventChain) + 1
        /\ \A n \in 1..Len(eventChain) : eventChain'[n] = eventChain[n]
        /\ eventChain'[Len(eventChain) + 1] = new
        /\ Len(eventChain) \in Nat
    BY <2>1 DEF IndInv, TypeOK
  <2>5. TypeOK'
    BY <2>1, <2>2, SizeAssumption DEF IndInv, TypeOK, forwardVars, reportVars, stopVars
  <2>6. QueueInv'
    <3>1. \A n \in 1..Len(eventChain') :
            \/ n \in 1..Len(eventChain) /\ eventChain'[n] = eventChain[n]
            \/ eventChain'[n] = new
      BY <2>4
    <3>2. \A e \in Added : e[1] = p => e[2] < sent[p] + 1
      BY <2>2, EventIsPair DEF Added
    <3>3. new[1] = p /\ new[2] = sent[p] + 1
      OBVIOUS
    <3>4. \A n \in 1..Len(eventChain') : eventChain'[n] \in Added'
      BY <3>1, <2>3 DEF IndInv, QueueInv
    <3>5. \A m, n \in 1..Len(eventChain') :
            m < n /\ eventChain'[m][1] = eventChain'[n][1]
                => eventChain'[m][2] < eventChain'[n][2]
      <4> SUFFICES ASSUME NEW m \in 1..Len(eventChain'), NEW n \in 1..Len(eventChain'),
                          m < n, eventChain'[m][1] = eventChain'[n][1]
                   PROVE  eventChain'[m][2] < eventChain'[n][2]
        OBVIOUS
      <4>1. m \in 1..Len(eventChain) /\ eventChain'[m] = eventChain[m]
        BY <2>4
      <4>2. CASE n \in 1..Len(eventChain)
        BY <2>4, <4>1, <4>2 DEF IndInv, QueueInv
      <4>3. CASE n = Len(eventChain) + 1
        BY <2>4, <3>2, <3>3, <4>1, <4>3 DEF IndInv, QueueInv
      <4> QED BY <2>4, <4>2, <4>3
    <3>6. forwarder' = "dispatch" =>
            /\ event' \in Added'
            /\ \A n \in 1..Len(eventChain') :
                    eventChain'[n][1] = event'[1] => event'[2] < eventChain'[n][2]
      BY <2>1, <2>3, <3>1, <3>2, <3>3 DEF IndInv, QueueInv, forwardVars
    <3> QED BY <3>4, <3>5, <3>6 DEF QueueInv
  <2>7. CountInv'
    <3>1. \A e : Queued(e)' <=> (Queued(e) \/ e = new)
      <4> TAKE e
      <4>1. Queued(e) \/ e = new => Queued(e)'
        <5>1. CASE Queued(e)
          <6>1. PICK n \in 1..Len(eventChain) : eventChain[n] = e
            BY <5>1 DEF Queued
          <6>2. n \in 1..Len(eventChain') /\ eventChain'[n] = e
            BY <2>4, <6>1
          <6> QED BY <6>2 DEF Queued
        <5>2. CASE e = new
          <6>1. Len(eventChain) + 1 \in 1..Len(eventChain')
            BY <2>4
          <6> QED BY <2>4, <5>2, <6>1 DEF Queued
        <5> QED BY <5>1, <5>2
      <4>2. Queued(e)' => Queued(e) \/ e = new
        <5> SUFFICES ASSUME NEW n \in 1..Len(eventChain'), eventChain'[n] = e
                     PROVE  Queued(e) \/ e = new
          BY DEF Queued
        <5>1. n \in 1..Len(eventChain) \/ n = Len(eventChain) + 1
          BY <2>4
        <5> QED BY <2>4, <5>1 DEF Queued
      <4> QED BY <4>1, <4>2
    <3>2. \A e : Waiting(e)' <=> (Waiting(e) \/ e = new)
      BY <2>1, <3>1 DEF Waiting, Taken, forwardVars
    <3>3. \A e \in Events : Handled(e)' = Handled(e)
      BY <2>1 DEF Handled, reportVars
    <3>4. \A f \in Events : f[1] = p /\ sent[p] + 1 <= f[2] => f \notin Added
      BY <2>2, EventIsPair DEF Added
    <3>5. new[1] = p /\ new[2] = sent[p] + 1
      OBVIOUS
    <3> QED BY <2>2, <2>3, <3>2, <3>3, <3>4, <3>5 DEF IndInv, CountInv, Added
  <2>8. SlotInv'
    BY <2>1 DEF IndInv, SlotInv, Active, reportVars
  <2>9. StopInv'
    BY <1>2, <2>1 DEF IndInv, StopInv, forwardVars, stopVars
  <2> QED BY <2>5, <2>6, <2>7, <2>8, <2>9 DEF IndInv
<1> QED BY <1>1, <1>2

-----------------------------------------------------------------------------
(* The forwarder.                                                          *)
LEMMA IndTake == ASSUME IndInv, Take PROVE IndInv'
<1>1. /\ forwarder = "range" /\ forwarder' = "dispatch"
      /\ eventChain # <<>> /\ event' = Head(eventChain) /\ eventChain' = Tail(eventChain)
      /\ UNCHANGED <<chainClosed, reportVars, stopVars, sendVars>>
  BY DEF Take
<1>2. /\ Len(eventChain) \in Nat \ {0} /\ Len(eventChain') = Len(eventChain) - 1
      /\ \A n \in 1..Len(eventChain') : eventChain'[n] = eventChain[n + 1]
      /\ event' = eventChain[1] /\ eventChain' \in Seq(Events) /\ event' \in Events
  BY <1>1 DEF IndInv, TypeOK
<1>3. TypeOK'
  BY <1>1, <1>2, SizeAssumption DEF IndInv, TypeOK, reportVars, stopVars, sendVars
<1>4. Added' = Added
  BY <1>1 DEF Added, sendVars
<1>5. QueueInv'
  BY <1>1, <1>2, <1>4 DEF IndInv, QueueInv
<1>6. CountInv'
  <2>1. \A e : Queued(e) <=> (Queued(e)' \/ e = event')
    <3>1. \A n \in 1..Len(eventChain) : n = 1 \/ n - 1 \in 1..Len(eventChain')
      BY <1>2
    <3>2. \A n \in 2..Len(eventChain) : eventChain[n] = eventChain'[n - 1]
      BY <1>2
    <3>3. \A n \in 1..Len(eventChain') : n + 1 \in 1..Len(eventChain)
      BY <1>2
    <3> QED BY <1>2, <3>1, <3>2, <3>3 DEF Queued
  <2>2. \A e : Waiting(e)' <=> Waiting(e)
    BY <1>1, <2>1 DEF Waiting, Taken
  <2>3. \A e \in Events : Handled(e)' = Handled(e)
    BY <1>1 DEF Handled, reportVars
  <2> QED BY <1>4, <2>2, <2>3 DEF IndInv, CountInv, Added
<1>7. SlotInv' /\ StopInv'
  BY <1>1 DEF IndInv, SlotInv, Active, StopInv, reportVars, stopVars
<1> QED BY <1>3, <1>5, <1>6, <1>7 DEF IndInv

LEMMA IndDispatch == ASSUME IndInv, Dispatch PROVE IndInv'
<1>1. /\ forwarder = "dispatch" /\ forwarder' = "range" /\ reportChain < ReporterBufferSize
      /\ reportChain' = reportChain + 1 /\ reporting' = [reporting EXCEPT ![event] = @ + 1]
      /\ UNCHANGED <<event, posted, hung, queueVars, stopVars, sendVars>>
  BY DEF Dispatch, SlotFree
<1>2. event \in Added /\ event \in Events
  BY <1>1 DEF IndInv, QueueInv, Added
<1>3. Added' = Added
  BY <1>1 DEF Added, sendVars
<1>4. TypeOK'
  BY <1>1, <1>2, SizeAssumption DEF IndInv, TypeOK, queueVars, stopVars, sendVars
<1>5. QueueInv' /\ StopInv'
  BY <1>1, <1>3 DEF IndInv, QueueInv, StopInv, queueVars, stopVars
<1>6. Handled(event) = 0 /\ reporting[event] = 0 /\ posted[event] = 0
  <2>1. Handled(event) = 0
    BY <1>1, <1>2, EventIsPair DEF IndInv, CountInv, Waiting, Taken
  <2>2. reporting[event] \in Nat /\ posted[event] \in Nat
    BY <1>2 DEF IndInv, TypeOK
  <2> QED BY <2>1, <2>2 DEF Handled
<1>7. CountInv'
  <2>1. \A e : Queued(e)' <=> Queued(e)
    BY <1>1 DEF Queued, queueVars
  <2>2. \A n \in 1..Len(eventChain) :
            eventChain[n][1] = event[1] => event[2] < eventChain[n][2]
    BY <1>1 DEF IndInv, QueueInv
  <2>3. ~Queued(event)
    BY <1>2, <2>2, EventIsPair DEF Queued
  <2>4. \A e \in Events : Waiting(e)' <=> (Waiting(e) /\ e # event)
    BY <1>1, <2>1, <2>3 DEF Waiting, Taken
  <2>5. \A e \in Events : e # event => Handled(e)' = Handled(e)
    BY <1>1, <1>2 DEF Handled, IndInv, TypeOK
  <2>6. Handled(event)' = 1
    BY <1>1, <1>2, <1>6 DEF Handled, IndInv, TypeOK
  <2>7. \A e \in Events : Waiting(e)' /\ e[1] = event[1] => event[2] < e[2]
    BY <1>1, <2>1, <2>2 DEF Waiting, Taken, Queued
  <2>8. \A e, f \in Events : Waiting(e)' /\ e[1] = f[1] /\ e[2] <= f[2] => Handled(f)' = 0
    <3> SUFFICES ASSUME NEW e \in Events, NEW f \in Events,
                        Waiting(e)', e[1] = f[1], e[2] <= f[2]
                 PROVE  Handled(f)' = 0
      OBVIOUS
    <3>1. f # event
      BY <1>2, <2>7, EventIsPair
    <3> QED BY <3>1, <2>4, <2>5 DEF IndInv, CountInv
  <2>9. \A e \in Added' : Waiting(e)' \/ Handled(e)' = 1
    <3> SUFFICES ASSUME NEW e \in Added, e # event PROVE Waiting(e)' \/ Handled(e)' = 1
      BY <1>1, <1>3, <2>6
    <3> QED BY <2>4, <2>5 DEF IndInv, CountInv, Added
  <2>10. \A e \in Events \ Added' : Handled(e)' = 0
    BY <1>2, <1>3, <2>5 DEF IndInv, CountInv
  <2>11. Events' = Events
    BY DEF Events
  <2> QED BY <2>8, <2>9, <2>10, <2>11 DEF CountInv
<1>8. SlotInv'
  <2>1. Active' = Active \union {event} /\ event \notin Active
    BY <1>1, <1>2, <1>6 DEF Active, IndInv, TypeOK
  <2> QED BY <1>1, <2>1, FS_AddElement DEF IndInv, SlotInv
<1> QED BY <1>4, <1>5, <1>7, <1>8 DEF IndInv

LEMMA IndStop ==
    ASSUME IndInv, Exhausted \/ Shutdown \/ Closed \/ ShutdownTimeout \/ Exit PROVE IndInv'
<1> USE DEF queueVars, forwardVars, reportVars, stopVars, sendVars, IndInv
<1>1. UNCHANGED <<eventChain, event, reportVars, sendVars>>
  BY DEF Exhausted, Shutdown, Closed, ShutdownTimeout, Exit
<1>2. TypeOK'
  BY DEF Exhausted, Shutdown, Closed, ShutdownTimeout, Exit, TypeOK
<1>3. (forwarder' = "dispatch") <=> (forwarder = "dispatch")
  BY DEF Exhausted, Shutdown, Closed, ShutdownTimeout, Exit, StopInv
<1>4. QueueInv' /\ CountInv'
  BY <1>1, <1>3 DEF QueueInv, CountInv, Added, Waiting, Queued, Taken, Handled
<1>5. SlotInv'
  BY <1>1 DEF SlotInv, Active
<1>6. StopInv'
  BY DEF Exhausted, Shutdown, Closed, ShutdownTimeout, Exit, StopInv, Drained
<1> QED BY <1>2, <1>4, <1>5, <1>6

-----------------------------------------------------------------------------
(* The goroutines that post.                                               *)
LEMMA IndReport == ASSUME IndInv, NEW e \in Events, ReportEvent(e) PROVE IndInv'
<1>1. /\ reporting[e] > 0 /\ reportChain' = reportChain - 1
      /\ reporting' = [reporting EXCEPT ![e] = @ - 1]
      /\ posted' = [posted EXCEPT ![e] = @ + 1]
      /\ UNCHANGED <<hung, queueVars, forwardVars, stopVars, sendVars>>
  BY DEF ReportEvent, SlotGiven, Posted
<1>2. reporting[e] \in Nat /\ posted[e] \in Nat
  BY DEF IndInv, TypeOK
<1>3. \A f \in Events : Handled(f)' = Handled(f)
  BY <1>1, <1>2 DEF Handled, IndInv, TypeOK
<1>4. e \in Added /\ reporting[e] = 1
  BY <1>1, <1>2, EventIsPair DEF IndInv, CountInv, Handled
<1>5. QueueInv' /\ CountInv' /\ StopInv'
  BY <1>1, <1>3 DEF IndInv, QueueInv, CountInv, StopInv, Added, Waiting, Queued, Taken,
                    queueVars, forwardVars, stopVars, sendVars
<1>6. Active' = Active \ {e} /\ e \in Active
  BY <1>1, <1>4 DEF Active, IndInv, TypeOK
<1>7. SlotInv' /\ reportChain' \in Nat
  <2>1. IsFiniteSet(Active) /\ reportChain = Cardinality(Active)
    BY DEF IndInv, SlotInv
  <2>2. IsFiniteSet(Active') /\ Cardinality(Active') = Cardinality(Active) - 1
    BY <1>6, <2>1, FS_RemoveElement
  <2>3. Cardinality(Active') \in Nat
    BY <2>2, FS_CardinalityType
  <2> QED BY <1>1, <2>1, <2>2, <2>3 DEF SlotInv
<1>8. TypeOK'
  BY <1>1, <1>2, <1>7, SizeAssumption DEF IndInv, TypeOK, queueVars, forwardVars, stopVars, sendVars
<1> QED BY <1>5, <1>7, <1>8 DEF IndInv

LEMMA IndHang == ASSUME IndInv, NEW e \in Events, Hang(e) PROVE IndInv'
BY DEF Hang, IndInv, TypeOK, QueueInv, CountInv, SlotInv, StopInv, Active, Added, Waiting,
       Queued, Taken, Handled, queueVars, forwardVars, stopVars, sendVars

LEMMA IndNext == ASSUME IndInv, [Next]_vars PROVE IndInv'
<1>1. CASE UNCHANGED vars
  BY <1>1 DEF vars, IndInv, TypeOK, QueueInv, CountInv, SlotInv, StopInv, Active, Added,
              Waiting, Queued, Taken, Handled, queueVars, forwardVars, reportVars, stopVars,
              sendVars
<1> QED
  BY <1>1, IndAdd, IndTake, IndDispatch, IndStop, IndReport, IndHang DEF Next, Forward, Reports

LEMMA InductiveInvariant == Spec => []IndInv
<1> QED BY IndInit, IndNext, PTL DEF Spec

-----------------------------------------------------------------------------
(* The variables keep their types: the queue and the pool stay within      *)
(* their sizes, and no more slots are given back than were taken.          *)
THEOREM ReporterTypeOK == Spec => []TypeOK
<1>1. IndInv => TypeOK
  BY DEF IndInv
<1> QED BY <1>1, InductiveInvariant, PTL

LEMMA InvPostedOnce == ASSUME IndInv PROVE PostedOnce
<1> USE DEF IndInv
<1>1. Once
  <2>1. \A e \in Events : Waiting(e) => Handled(e) = 0
    BY EventIsPair DEF CountInv
  <2>2. \A e \in Events : reporting[e] + posted[e] \in Nat
    BY DEF TypeOK
  <2> QED BY <2>1, <2>2 DEF CountInv, Once, Handled
<1>2. OvertakenOnlyInPool
  <2> SUFFICES ASSUME NEW p \in Producers, NEW m \in 1..EventsEach, NEW n \in 1..EventsEach,
                      m < n, posted[<<p, n>>] > 0
               PROVE  reporting[<<p, m>>] + posted[<<p, m>>] > 0
    BY DEF OvertakenOnlyInPool
  <2> DEFINE e == <<p, m>>
             f == <<p, n>>
  <2>1. e \in Events /\ f \in Events /\ e[1] = p /\ e[2] = m /\ f[1] = p /\ f[2] = n
    BY DEF Events
  <2>2. Handled(f) # 0
    <3> HIDE DEF f
    <3>1. posted[f] > 0 /\ posted[f] \in Nat /\ reporting[f] \in Nat
      BY <2>1 DEF TypeOK, f
    <3> QED BY <3>1 DEF Handled
  <2> HIDE DEF e, f
  <2>3. f \in Added /\ sent[p] \in Nat
    BY <2>1, <2>2 DEF CountInv, TypeOK
  <2>4. e \in Added
    BY <2>1, <2>3, SizeAssumption DEF Added
  <2>5. ~Waiting(e)
    BY <2>1, <2>2 DEF CountInv
  <2>6. Handled(e) = 1
    BY <2>4, <2>5 DEF CountInv
  <2> QED BY <2>6 DEF Handled, e
<1> QED BY <1>1, <1>2 DEF PostedOnce

LEMMA InvFlushed == ASSUME IndInv PROVE FlushedBeforeExit
<1> SUFFICES ASSUME hook = "slept", ~timedOut, NEW e \in Added
             PROVE  reporting[e] + posted[e] > 0
  BY DEF FlushedBeforeExit
<1>1. forwarder = "gone" /\ eventChain = <<>>
  BY DEF IndInv, StopInv
<1>2. ~Waiting(e)
  BY <1>1 DEF Waiting, Queued, Taken
<1> QED BY <1>2 DEF IndInv, CountInv, Handled

(* An event is posted once and only after it was added, and is overtaken   *)
(* by a later one of its job only among those being posted.                *)
THEOREM ReporterPostedOnce == Spec => []PostedOnce
<1> QED BY InvPostedOnce, InductiveInvariant, PTL

(* After a shutdown that did not give up no added event is left behind.    *)
THEOREM ReporterFlushed == Spec => []FlushedBeforeExit
<1> QED BY InvFlushed, InductiveInvariant, PTL

-----------------------------------------------------------------------------
(* While an event waits, in the queue or with the forwarder, somebody will *)
(* move it on: the forwarder can go on, or a request is under way whose    *)
(* end frees a slot, or else requests that hang have filled the pool.      *)
NeverWedged ==
    eventChain # <<>> \/ forwarder = "dispatch" =>
        \/ forwarder = "range"
        \/ forwarder = "dispatch" /\ SlotFree
        \/ \E e \in Events : reporting[e] > 0 /\ e \notin hung
        \/ PoolHung

HungInv == IsFiniteSet(hung) /\ hung \subseteq Active

LEMMA HungNext == ASSUME IndInv, HungInv, [Next]_vars PROVE HungInv'
<1>2. CASE UNCHANGED <<hung, reporting>>
  BY <1>2 DEF HungInv, Active
<1>3. CASE Dispatch
  <2>1. \A e \in Events : reporting[e] \in Nat
    BY DEF IndInv, TypeOK
  <2>2. reporting' = [reporting EXCEPT ![event] = @ + 1] /\ UNCHANGED hung
    BY <1>3 DEF Dispatch
  <2>3. \A e \in Active : e \in Active'
    BY <2>1, <2>2 DEF Active, IndInv, TypeOK
  <2> QED BY <2>2, <2>3 DEF HungInv
<1>4. ASSUME NEW e \in Events, ReportEvent(e) PROVE HungInv'
  <2>1. reporting' = [reporting EXCEPT ![e] = @ - 1] /\ UNCHANGED hung /\ e \notin hung
    BY <1>4 DEF ReportEvent
  <2>2. \A f \in Active : f # e => f \in Active'
    BY <2>1 DEF Active, IndInv, TypeOK
  <2> QED BY <2>1, <2>2 DEF HungInv
<1>5. ASSUME NEW e \in Events, Hang(e) PROVE HungInv'
  <2>1. hung' = hung \union {e} /\ UNCHANGED reporting /\ e \in Active
    BY <1>5 DEF Hang, Active
  <2> QED BY <2>1, FS_AddElement DEF HungInv, Active
<1>6. ASSUME NEW p \in Producers, AddEvent(p) PROVE UNCHANGED <<hung, reporting>>
  BY <1>6 DEF AddEvent, reportVars
<1>7. Take \/ Exhausted \/ Shutdown \/ Closed \/ ShutdownTimeout \/ Exit \/ UNCHANGED vars
        => UNCHANGED <<hung, reporting>>
  BY DEF Take, Exhausted, Shutdown, Closed, ShutdownTimeout, Exit, vars, reportVars
<1> QED BY <1>2, <1>3, <1>4, <1>5, <1>6, <1>7 DEF Next, Forward, Reports

LEMMA HungInvariant == Spec => []HungInv
<1>1. Init => HungInv
  BY FS_EmptySet DEF Init, HungInv
<1> QED BY <1>1, HungNext, InductiveInvariant, PTL DEF Spec

LEMMA InvNeverWedged == ASSUME IndInv, HungInv PROVE NeverWedged
<1> SUFFICES ASSUME forwarder = "dispatch", ~SlotFree,
                    \A e \in Events : reporting[e] > 0 => e \in hung
             PROVE  PoolHung
  BY DEF NeverWedged, IndInv, TypeOK, StopInv
<1>1. Active \subseteq hung
  BY DEF Active
<1>2. Cardinality(Active) <= Cardinality(hung) /\ IsFiniteSet(Active)
  BY <1>1, FS_Subset DEF HungInv
<1>3. Cardinality(Active) \in Nat /\ Cardinality(hung) \in Nat
  BY <1>2, FS_CardinalityType DEF HungInv
<1>4. Cardinality(Active) = reportChain /\ reportChain \in Nat /\ ReporterBufferSize \in Nat
  BY SizeAssumption DEF IndInv, SlotInv, TypeOK
<1>5. reportChain >= ReporterBufferSize
  BY <1>4 DEF SlotFree
<1> QED BY <1>2, <1>3, <1>4, <1>5 DEF PoolHung

(* An event that waits is never left without somebody to move it on, but   *)
(* for a pool full of requests that hang: the safety half of               *)
(* EveryEventPosted.                                                       *)
THEOREM ReporterNeverWedged == Spec => []NeverWedged
<1> QED BY InvNeverWedged, InductiveInvariant, HungInvariant, PTL

-----------------------------------------------------------------------------
(* A pool full of requests that hang has no other.                         *)
LEMMA PoolHungIs ==
    ASSUME IndInv, HungInv, PoolHung
    PROVE  ~SlotFree /\ \A e \in Events : reporting[e] > 0 => e \in hung
<1>1. /\ IsFiniteSet(Active) /\ reportChain = Cardinality(Active) /\ hung \subseteq Active
      /\ reportChain <= ReporterBufferSize
      /\ ReporterBufferSize \in Nat /\ Cardinality(hung) >= ReporterBufferSize
  BY SizeAssumption DEF IndInv, SlotInv, HungInv, TypeOK, PoolHung
<1>2. /\ Cardinality(hung) <= Cardinality(Active)
      /\ Cardinality(hung) = Cardinality(Active) => hung = Active
  BY <1>1, FS_Subset
<1>3. Cardinality(hung) \in Nat /\ Cardinality(Active) \in Nat
  BY <1>1, FS_CardinalityType DEF HungInv
<1>4. reportChain = ReporterBufferSize /\ hung = Active
  BY <1>1, <1>2, <1>3
<1> QED BY <1>1, <1>4 DEF SlotFree, Active

(* What clogs the queue does not end.                                      *)
LEMMA CloggedStays ==
    ASSUME IndInv, HungInv, [Next]_vars, QueueState = "clogged" PROVE QueueState' = "clogged"
<1>1. CASE process = "exited"
  BY <1>1 DEF Next, Forward, Reports, AddEvent, Take, Dispatch, Exhausted, ReportEvent, Hang,
              Shutdown, Closed, ShutdownTimeout, Exit, vars, stopVars, QueueState
<1>2. CASE process = "up"
  <2>1. Clogged
    BY <1>2 DEF QueueState
  <2>2. ~SlotFree /\ \A e \in Events : reporting[e] > 0 => e \in hung
    BY <2>1, PoolHungIs DEF Clogged
  <2>3. ASSUME UNCHANGED <<eventChain, forwardVars, hung>> PROVE Clogged'
    BY <2>1, <2>3 DEF Clogged, Full, PoolHung, forwardVars
  <2>4. ASSUME NEW p \in Producers, AddEvent(p) PROVE UNCHANGED <<eventChain, forwardVars, hung>>
    BY <2>1, <2>4, SizeAssumption DEF AddEvent, Clogged, Full, IndInv, TypeOK, reportVars
  <2>5. ASSUME Forward \/ Reports \/ Closed PROVE FALSE
    BY <2>1, <2>2, <2>5
       DEF Forward, Reports, Closed, Take, Dispatch, Exhausted, ReportEvent, Clogged
  <2>6. ASSUME NEW e \in Events, Hang(e) PROVE FALSE
    <3>1. e \notin hung /\ reporting[e] > 0
      BY <2>6 DEF Hang
    <3> QED BY <2>2, <3>1
  <2>7. Shutdown \/ ShutdownTimeout \/ Exit \/ UNCHANGED vars
          => UNCHANGED <<eventChain, forwardVars, hung>>
    BY DEF Shutdown, ShutdownTimeout, Exit, vars, queueVars, reportVars
  <2>8. Clogged'
    BY <2>3, <2>4, <2>5, <2>6, <2>7 DEF Next
  <2> QED BY <2>8 DEF QueueState
<1> QED BY <1>1, <1>2 DEF IndInv, TypeOK

(* To commits and probes the reporter's queue is EventQueue, whatever the  *)
(* sizes of queue and pool: it is open, or full, or full for good.         *)
THEOREM ReporterRefinesQueue == Spec => AbstractQueue!Spec
<1>1. Init => AbstractQueue!Init
  BY SizeAssumption DEF Init, AbstractQueue!Init, QueueState, Clogged, Full
<1>2. IndInv /\ HungInv /\ [Next]_vars => [AbstractQueue!Next]_QueueState
  <2> SUFFICES ASSUME IndInv, HungInv, [Next]_vars PROVE [AbstractQueue!Next]_QueueState
    OBVIOUS
  <2>1. QueueState = "clogged" => QueueState' = "clogged"
    BY CloggedStays
  <2>2. QueueState \in {"open", "full", "clogged"} /\ QueueState' \in {"open", "full", "clogged"}
    BY DEF QueueState
  <2> QED
    BY <2>1, <2>2 DEF AbstractQueue!Next, AbstractQueue!Fill, AbstractQueue!Take,
                      AbstractQueue!Clog
<1> QED BY <1>1, <1>2, InductiveInvariant, HungInvariant, PTL DEF Spec, AbstractQueue!Spec
=============================================================================
