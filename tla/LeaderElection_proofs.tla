----------------------- MODULE LeaderElection_proofs ------------------------
(***************************************************************************)
(* Theorems about LeaderElection, for every set of instances and any       *)
(* number of lost sessions, errors, signals and crashes.                   *)
(***************************************************************************)
EXTENDS LeaderElection, TLAPS

(* Sessions have numbers up to that of the instance, and a key has the     *)
(* creation revision its instance remembers.                               *)
KeyInv ==
    /\ \A i \in Instances : rev[i] < newRev /\ waitGen[i] <= gen[i]
    /\ \A s \in leases : s.gen <= gen[s.inst]
    /\ \A k \in keys : k.rev < newRev
    /\ \A k, l \in keys : k.rev = l.rev => k = l
    /\ \A i \in Instances : \A k \in keys :
            Alive(i) /\ SessionOf(k) = Session(i) => k.rev = rev[i]

(* A session that is kept alive has its lease; and one that has campaigned *)
(* has its key for as long as it has its lease.                            *)
LeaseInv ==
    \A i \in Instances : Alive(i) =>
        /\ keepAlive[i] /\ elect[i] # "ended" => Session(i) \in leases
        /\ elect[i] \in {"queued", "leader"} /\ Session(i) \in leases =>
                \E k \in keys : SessionOf(k) = Session(i)

(* No key is older than that of a leader; and main goes on to act only     *)
(* after its session has been elected, or on a later one.                  *)
LeaderInv ==
    \A i \in Instances : Alive(i) =>
        /\ elect[i] = "leader" => \A k \in keys : k.rev >= rev[i]
        /\ main[i] \in {"woken", "acting"} /\ gen[i] = waitGen[i] =>
                elect[i] \in {"leader", "renew", "ended"}

-----------------------------------------------------------------------------
(* Type correctness.                                                       *)
LEMMA TypeInit == Init => TypeOK
BY DEF Init, TypeOK, Session, SessionOf

LEMMA TypeElect ==
    ASSUME TypeOK, NEW i \in Instances, ElectStep(i) \/ CampaignFails(i) PROVE TypeOK'
<1>1. CASE Campaign(i)
  BY <1>1 DEF TypeOK, Campaign, Session, SessionOf
<1>2. CASE Elected(i)
  BY <1>2 DEF TypeOK, Elected, etcdVars, SessionOf
<1>3. CASE LeadershipLost(i)
  BY <1>3 DEF TypeOK, LeadershipLost, etcdVars, SessionOf
<1>4. CASE Renew(i)
  BY <1>4 DEF TypeOK, Renew, NewSession, SessionOf
<1>5. CASE CloseSession(i)
  BY <1>5 DEF TypeOK, CloseSession, Session, SessionOf
<1>6. CASE Resign(i)
  BY <1>6 DEF TypeOK, Resign, SessionOf
<1>7. CASE CampaignFails(i)
  BY <1>7 DEF TypeOK, CampaignFails, etcdVars, SessionOf
<1> QED BY <1>1, <1>2, <1>3, <1>4, <1>5, <1>6, <1>7 DEF ElectStep

LEMMA TypeMain ==
    ASSUME TypeOK, NEW i \in Instances,
           MainStep(i) \/ Crash(i) \/ Start(i) \/ Cancel(i) \/ LoseSession(i) \/ NoticeLoss(i)
    PROVE  TypeOK'
<1>1. CASE Wake(i) \/ ReadCloseCh(i)
  BY <1>1 DEF TypeOK, Wake, ReadCloseCh, etcdVars, SessionOf
<1>2. CASE Down(i)
  BY <1>2 DEF TypeOK, Down, SessionOf
<1>3. CASE Start(i)
  BY <1>3 DEF TypeOK, Start, NewSession, SessionOf
<1>4. CASE Cancel(i)
  BY <1>4 DEF TypeOK, Cancel, etcdVars, SessionOf
<1>5. CASE LoseSession(i) \/ NoticeLoss(i)
  BY <1>5 DEF TypeOK, LoseSession, NoticeLoss, electVars, SessionOf
<1> QED BY <1>1, <1>2, <1>3, <1>4, <1>5 DEF MainStep, AgentStops, Exit, Crash

LEMMA TypeExpire == ASSUME TypeOK, NEW s \in leases, Expire(s) PROVE TypeOK'
BY DEF TypeOK, Expire, Without, electVars, SessionOf

LEMMA TypeNext == ASSUME TypeOK, [Next]_vars PROVE TypeOK'
<1>1. CASE UNCHANGED vars
  BY <1>1 DEF TypeOK, vars, electVars, etcdVars, SessionOf
<1> QED BY <1>1, TypeElect, TypeMain, TypeExpire DEF Next

(* The variables keep their types.                                         *)
THEOREM ElectionTypeOK == Spec => []TypeOK
<1> QED BY TypeInit, TypeNext, PTL DEF Spec

-----------------------------------------------------------------------------
(* The inductive invariant, by the goroutines and what etcd does.          *)
IndInv == KeyInv /\ LeaseInv /\ LeaderInv

LEMMA IndInit == Init => IndInv
BY DEF Init, IndInv, KeyInv, LeaseInv, LeaderInv, Session, SessionOf, Alive

LEMMA IndElect ==
    ASSUME TypeOK, IndInv, NEW i \in Instances, ElectStep(i) \/ CampaignFails(i) PROVE IndInv'
<1> USE DEF IndInv, TypeOK, Session, SessionOf, Alive
<1>1. CASE Campaign(i)
  <2>1. KeyInv'
    BY <1>1 DEF Campaign, KeyInv
  <2>2. LeaseInv'
    <3>1. keys \subseteq keys' /\ UNCHANGED <<main, gen, keepAlive, leases>>
      BY <1>1 DEF Campaign
    <3>2. \E k \in keys' : SessionOf(k) = Session(i)
      <4>1. CASE \E k \in keys : SessionOf(k) = Session(i)
        BY <3>1, <4>1
      <4>2. CASE ~ \E k \in keys : SessionOf(k) = Session(i)
        <5> DEFINE put == [inst |-> i, gen |-> gen[i], rev |-> newRev]
        <5>1. {k \in keys : SessionOf(k) = Session(i)} = {}
          BY <4>2
        <5>2. put \in keys'
          BY <1>1, <5>1 DEF Campaign
        <5>3. SessionOf(put) = Session(i)
          OBVIOUS
        <5> QED BY <5>2, <5>3
      <4> QED BY <4>1, <4>2
    <3>3. \A j \in Instances : j # i => elect'[j] = elect[j]
      BY <1>1 DEF Campaign
    <3>4. elect[i] # "ended" /\ elect'[i] # "ended"
      BY <1>1 DEF Campaign
    <3> QED BY <3>1, <3>2, <3>3, <3>4 DEF LeaseInv
  <2>3. LeaderInv'
    BY <1>1 DEF Campaign, LeaderInv, KeyInv
  <2> QED BY <2>1, <2>2, <2>3
<1>2. CASE Elected(i)
  BY <1>2 DEF Elected, FirstInLine, etcdVars, KeyInv, LeaseInv, LeaderInv
<1>3. CASE LeadershipLost(i)
  BY <1>3 DEF LeadershipLost, etcdVars, KeyInv, LeaseInv, LeaderInv
<1>4. CASE Renew(i)
  <2>1. KeyInv'
    BY <1>4 DEF Renew, NewSession, KeyInv
  <2>2. LeaseInv'
    BY <1>4 DEF Renew, NewSession, LeaseInv
  <2>3. LeaderInv'
    BY <1>4 DEF Renew, NewSession, LeaderInv, KeyInv
  <2> QED BY <2>1, <2>2, <2>3
<1>5. CASE CloseSession(i)
  <2>1. KeyInv'
    BY <1>5 DEF CloseSession, KeyInv
  <2>2. LeaseInv'
    BY <1>5 DEF CloseSession, LeaseInv
  <2>3. LeaderInv'
    BY <1>5 DEF CloseSession, LeaderInv
  <2> QED BY <2>1, <2>2, <2>3
<1>6. CASE Resign(i)
  BY <1>6 DEF Resign, KeyInv, LeaseInv, LeaderInv
<1>7. CASE CampaignFails(i)
  BY <1>7 DEF CampaignFails, etcdVars, KeyInv, LeaseInv, LeaderInv
<1> QED BY <1>1, <1>2, <1>3, <1>4, <1>5, <1>6, <1>7 DEF ElectStep

LEMMA IndMain ==
    ASSUME TypeOK, IndInv, NEW i \in Instances,
           MainStep(i) \/ Crash(i) \/ Start(i) \/ Cancel(i) \/ LoseSession(i) \/ NoticeLoss(i)
    PROVE  IndInv'
<1> USE DEF IndInv, TypeOK, Session, SessionOf, Alive
<1>1. CASE Wake(i) \/ ReadCloseCh(i)
  BY <1>1 DEF Wake, ReadCloseCh, Leading, etcdVars, KeyInv, LeaseInv, LeaderInv
<1>2. CASE Down(i)
  BY <1>2 DEF Down, KeyInv, LeaseInv, LeaderInv
<1>3. CASE Start(i)
  <2>1. KeyInv'
    BY <1>3 DEF Start, NewSession, KeyInv
  <2>2. LeaseInv'
    BY <1>3 DEF Start, NewSession, LeaseInv
  <2>3. LeaderInv'
    BY <1>3 DEF Start, NewSession, LeaderInv
  <2> QED BY <2>1, <2>2, <2>3
<1>4. CASE Cancel(i)
  BY <1>4 DEF Cancel, etcdVars, KeyInv, LeaseInv, LeaderInv
<1>5. CASE LoseSession(i) \/ NoticeLoss(i)
  BY <1>5 DEF LoseSession, NoticeLoss, electVars, KeyInv, LeaseInv, LeaderInv
<1> QED BY <1>1, <1>2, <1>3, <1>4, <1>5 DEF MainStep, AgentStops, Exit, Crash

LEMMA IndExpire == ASSUME TypeOK, IndInv, NEW s \in leases, Expire(s) PROVE IndInv'
<1> USE DEF IndInv, TypeOK, Session, SessionOf, Alive
<1>1. KeyInv' /\ LeaderInv'
  BY DEF Expire, Without, electVars, KeyInv, LeaderInv
<1>2. LeaseInv'
  BY DEF Expire, KeptAlive, Without, electVars, LeaseInv
<1> QED BY <1>1, <1>2

LEMMA IndNext == ASSUME TypeOK, IndInv, [Next]_vars PROVE IndInv'
<1>1. CASE UNCHANGED vars
  BY <1>1 DEF IndInv, KeyInv, LeaseInv, LeaderInv, vars, electVars, etcdVars,
              Session, SessionOf, Alive
<1> QED BY <1>1, IndElect, IndMain, IndExpire DEF Next

(* An agent that stays was elected in the session it has, and its key is   *)
(* there with the lease: it is the oldest one, and so is that of any other *)
(* such agent.                                                             *)
LEMMA LeaderHasKey ==
    ASSUME TypeOK, IndInv, NEW i \in Instances, Stays(i), Heard(i)
    PROVE  /\ elect[i] = "leader"
           /\ \E k \in keys : SessionOf(k) = Session(i) /\ k.rev = rev[i]
<1>1. gen[i] = waitGen[i] /\ main[i] = "acting" /\ keepAlive[i]
  BY DEF TypeOK, IndInv, KeyInv, Stays, Heard, ToldToStop
<1>2. elect[i] = "leader"
  BY <1>1 DEF IndInv, LeaderInv, Stays, ToldToStop, Alive
<1>3. \E k \in keys : SessionOf(k) = Session(i)
  BY <1>1, <1>2 DEF IndInv, LeaseInv, Alive
<1> QED BY <1>1, <1>2, <1>3 DEF IndInv, KeyInv, Alive

LEMMA OneLeader == ASSUME TypeOK, IndInv PROVE AtMostOneLeader
<1> SUFFICES ASSUME NEW i \in Instances, NEW j \in Instances,
                    Stays(i), Stays(j), Heard(i), Heard(j)
             PROVE  i = j
  BY DEF AtMostOneLeader
<1>1. PICK k \in keys : SessionOf(k) = Session(i) /\ k.rev = rev[i]
  BY LeaderHasKey
<1>2. PICK l \in keys : SessionOf(l) = Session(j) /\ l.rev = rev[j]
  BY LeaderHasKey
<1>3. k.rev >= rev[j] /\ l.rev >= rev[i]
  BY LeaderHasKey DEF IndInv, LeaderInv, Stays, Alive
<1>4. k.rev = l.rev
  BY <1>1, <1>2, <1>3 DEF TypeOK
<1> QED BY <1>1, <1>2, <1>4 DEF IndInv, KeyInv, SessionOf, Session

(* Two agents with the channel of the session that was elected run at a    *)
(* time only while one of them is on its way out, whatever sessions are    *)
(* lost, and processes stopped and started again.                          *)
THEOREM ElectionAtMostOneLeader == Spec => []AtMostOneLeader
<1>1. Spec => []TypeOK
  BY ElectionTypeOK
<1>2. Init => IndInv
  BY IndInit
<1>3. TypeOK /\ IndInv /\ [Next]_vars => IndInv'
  BY IndNext
<1>4. TypeOK /\ IndInv => AtMostOneLeader
  BY OneLeader
<1> QED BY <1>1, <1>2, <1>3, <1>4, PTL DEF Spec

-----------------------------------------------------------------------------
(* The safety half of StopsOnLoss: what is left to liveness is that the    *)
(* goroutines go on.                                                       *)
HeldInv == \A i \in Instances : heldGen[i] <= gen[i]

LEMMA HeldNext == ASSUME TypeOK, HeldInv, [Next]_vars PROVE HeldInv'
<1> USE DEF TypeOK, HeldInv
<1>1. ASSUME NEW i \in Instances, ElectStep(i) \/ CampaignFails(i) PROVE HeldInv'
  BY <1>1 DEF ElectStep, Campaign, Elected, LeadershipLost, Renew, NewSession, CloseSession,
              Resign, CampaignFails, etcdVars
<1>2. ASSUME NEW i \in Instances, Down(i) PROVE HeldInv'
  BY <1>2 DEF Down
<1>3. ASSUME NEW i \in Instances, MainStep(i) \/ Crash(i) PROVE HeldInv'
  BY <1>2, <1>3 DEF MainStep, Wake, ReadCloseCh, AgentStops, Exit, Crash, etcdVars
<1>4. ASSUME NEW i \in Instances, Start(i) \/ Cancel(i) \/ LoseSession(i) \/ NoticeLoss(i)
      PROVE  HeldInv'
  BY <1>4 DEF Start, NewSession, Cancel, LoseSession, NoticeLoss, electVars, etcdVars
<1>5. ASSUME NEW s \in leases, Expire(s) PROVE HeldInv'
  BY <1>5 DEF Expire, electVars
<1>6. CASE UNCHANGED vars
  BY <1>6 DEF vars, electVars
<1> QED BY <1>1, <1>3, <1>4, <1>5, <1>6 DEF Next

(* An agent with the channel of the session that was elected, which has    *)
(* not been told to stop, has an election goroutine that waits for the end *)
(* of the session and will close that very channel.                        *)
Watched == \A i \in Instances :
    (main[i] = "acting" /\ Heard(i) /\ ~ToldToStop(i)) => elect[i] = "leader" /\ heldGen[i] = gen[i]

THEOREM ElectionWatched == Spec => []Watched
<1>1. TypeOK /\ IndInv => Watched
  BY DEF TypeOK, IndInv, KeyInv, LeaderInv, Watched, Heard, ToldToStop, Alive
<1>2. Init => IndInv
  BY IndInit
<1>3. TypeOK /\ IndInv /\ [Next]_vars => IndInv'
  BY IndNext
<1> QED BY <1>1, <1>2, <1>3, ElectionTypeOK, PTL DEF Spec

(* There is no way back: an agent that was told to stop, or whose session  *)
(* is lost, remains so until it has stopped, whatever session its instance *)
(* gets after that.                                                        *)
NoWayBack == [][\A i \in Instances :
    (main[i] = "acting" /\ main'[i] = "acting" /\ Stays(i)') => Stays(i)]_vars

THEOREM ElectionNoWayBack == Spec => NoWayBack
<1> DEFINE Back == \A i \in Instances :
                       (main[i] = "acting" /\ main'[i] = "acting" /\ Stays(i)') => Stays(i)
<1>1. ASSUME TypeOK, HeldInv, [Next]_vars PROVE Back
  <2> SUFFICES ASSUME NEW i \in Instances, main[i] = "acting", main'[i] = "acting", Stays(i)'
               PROVE  Stays(i)
    OBVIOUS
  <2> USE <1>1 DEF TypeOK, HeldInv, Stays, ToldToStop
  <2>1. ASSUME NEW j \in Instances, ElectStep(j) \/ CampaignFails(j) PROVE Stays(i)
    BY <2>1 DEF ElectStep, Campaign, Elected, LeadershipLost, Renew, NewSession, CloseSession,
                Resign, CampaignFails, etcdVars
  <2>2. ASSUME NEW j \in Instances, Down(j) PROVE Stays(i)
    BY <2>2 DEF Down
  <2>3. ASSUME NEW j \in Instances, MainStep(j) \/ Crash(j) PROVE Stays(i)
    BY <2>2, <2>3 DEF MainStep, Wake, ReadCloseCh, AgentStops, Exit, Crash, etcdVars
  <2>4. ASSUME NEW j \in Instances, Start(j) \/ Cancel(j) \/ LoseSession(j) \/ NoticeLoss(j)
        PROVE  Stays(i)
    BY <2>4 DEF Start, NewSession, Cancel, LoseSession, NoticeLoss, electVars, etcdVars
  <2>5. ASSUME NEW s \in leases, Expire(s) PROVE Stays(i)
    BY <2>5 DEF Expire, electVars
  <2>6. CASE UNCHANGED vars
    BY <2>6 DEF vars, electVars, etcdVars
  <2> QED BY <2>1, <2>3, <2>4, <2>5, <2>6 DEF Next
<1>2. Init => HeldInv
  BY DEF Init, HeldInv
<1>3. TypeOK /\ HeldInv /\ [Next]_vars => HeldInv'
  BY HeldNext
<1> QED BY <1>1, <1>2, <1>3, ElectionTypeOK, PTL DEF Spec, NoWayBack
=============================================================================
