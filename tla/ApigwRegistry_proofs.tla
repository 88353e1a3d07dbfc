------------------------ MODULE ApigwRegistry_proofs ------------------------
(***************************************************************************)
(* Theorems about the two halves of pkg/core/registry/apigw.go: what it    *)
(* watches (ApigwWatch), for all sets of keys and values, any size of the  *)
(* channel and any number of writes, compactions, broken watches and       *)
(* crashes; and what it lists (StageListing), for all names, ids, plugins  *)
(* and values, any number of keys and any order of writes.                 *)
(***************************************************************************)
EXTENDS ApigwWatch, StageListing, SequenceTheorems, FiniteSetTheorems, WellFoundedInduction,
        TLAPS

(* Where the goroutine is, its watch and the response it handles; "cut"    *)
(* lies between the position of the watch and its last header.             *)
WatchInv ==
    /\ watch.open <=> pc \in {"wait", "handle"}
    /\ watch.open => watch.next >= 1 /\ cut = watch.next..watch.rev - 1
    /\ pc = "handle" =>
            /\ watch.next = resp.hi + 1 /\ watch.rev = resp.rev
            /\ resp.lo <= resp.hi + 1 /\ resp.hi <= resp.rev
    /\ start = 0 => pc = "create" /\ currentRevision = 0

(* The events sent are in order, and neither the cached revision nor the   *)
(* position lies before one of them.                                       *)
Sent     == InChan \union {newest}
Position == IF pc = "handle" THEN resp.lo ELSE watch.next

OrderInv ==
    /\ \A i, j \in 1..Len(retCh) : i <= j => retCh[i] <= retCh[j]
    /\ \A n \in Sent :
            /\ newest <= n
            /\ currentRevision # 0 => n <= currentRevision
            /\ watch.open => n <= Position

(* Nothing is left out before the position, and before the cached revision *)
(* only what is in hand or was cut off.                                    *)
Delivered(m) == Supported(m) => m \in taken \union InChan \union passed
InHand(m)    == pc = "handle" /\ m \in resp.lo..resp.hi

GoneInv ==
    /\ watch.open => \A m \in anew..Position - 1 : Delivered(m)
    /\ currentRevision # 0 =>
            \A m \in anew..currentRevision - 1 : Delivered(m) \/ InHand(m) \/ m \in cut

IndInv == TypeOK /\ WatchInv /\ OrderInv /\ GoneInv

-----------------------------------------------------------------------------
(* What etcd does: the log grows, and what was in it stays.                *)
LEMMA LogGrows ==
    ASSUME TypeOK, Etcd
    PROVE  /\ EtcdTypeOK'
           /\ Len(log) <= Len(log') /\ compacted <= compacted'
           /\ \A m \in 1..Len(log) : log'[m] = log[m]
<1>1. ASSUME NEW id \in Ids, NEW r \in Some, Write(id, r)
      PROVE  /\ EtcdTypeOK'
             /\ Len(log) <= Len(log') /\ compacted <= compacted'
             /\ \A m \in 1..Len(log) : log'[m] = log[m]
  <2> DEFINE e == [id |-> id, r |-> r, prev |-> store[id]]
  <2>1. e \in Events /\ store' \in [Ids -> Some]
    BY <1>1 DEF TypeOK, EtcdTypeOK, Events, Write
  <2>2. log \in Seq(Events) /\ log' = Append(log, e) /\ compacted' = compacted
           /\ compactions' = compactions
    BY <1>1 DEF TypeOK, EtcdTypeOK, Write
  <2> HIDE DEF e
  <2>3. log' \in Seq(Events) /\ Len(log') = Len(log) + 1
           /\ \A m \in 1..Len(log) : log'[m] = log[m]
    BY <2>1, <2>2
  <2> QED BY <2>1, <2>2, <2>3 DEF TypeOK, EtcdTypeOK
<1>2. ASSUME NEW n \in 1..Newest, Compact(n)
      PROVE  /\ EtcdTypeOK'
             /\ Len(log) <= Len(log') /\ compacted <= compacted'
             /\ \A m \in 1..Len(log) : log'[m] = log[m]
  BY <1>2 DEF TypeOK, EtcdTypeOK, Compact, Newest
<1> QED BY <1>1, <1>2 DEF Etcd, EtcdStep

(* The first and the others of the events on their way.                    *)
LEMMA Taking ==
    ASSUME NEW S, NEW s \in Seq(S), s # <<>>
    PROVE  /\ Tail(s) \in Seq(S) /\ Len(Tail(s)) = Len(s) - 1 /\ Head(s) = s[1]
           /\ Len(s) >= 1 /\ \A n \in 1..Len(s) - 1 : Tail(s)[n] = s[n + 1]
OBVIOUS

LEMMA Sending ==
    ASSUME NEW S, NEW s \in Seq(S), NEW e \in S
    PROVE  /\ Append(s, e) \in Seq(S) /\ Len(Append(s, e)) = Len(s) + 1
           /\ \A n \in 1..Len(s) : Append(s, e)[n] = s[n]
           /\ Append(s, e)[Len(s) + 1] = e
OBVIOUS

LEMMA TakenFromChan ==
    ASSUME TypeOK, AgentReceive
    PROVE  /\ Head(retCh) \in InChan
           /\ InChan' \subseteq InChan
           /\ InChan \subseteq InChan' \union {Head(retCh)}
<1>1. retCh \in Seq(1..Len(log)) /\ retCh # <<>> /\ retCh' = Tail(retCh)
  BY DEF TypeOK, AgentReceive
<1> DEFINE S == 1..Len(log)
<1> HIDE DEF S
<1>2. /\ retCh' \in Seq(S) /\ Len(retCh') = Len(retCh) - 1 /\ Head(retCh) = retCh[1]
      /\ Len(retCh) \in Nat /\ Len(retCh) >= 1
      /\ \A n \in 1..Len(retCh) - 1 : retCh'[n] = retCh[n + 1]
  BY <1>1, Taking DEF S
<1>3. Head(retCh) \in InChan
  BY <1>2 DEF InChan
<1>4. ASSUME NEW m \in InChan' PROVE m \in InChan
  <2>1. PICK n \in 1..Len(retCh') : m = retCh'[n]
    BY <1>4 DEF InChan
  <2>2. n + 1 \in 1..Len(retCh) /\ m = retCh[n + 1]
    BY <1>2, <2>1
  <2> QED BY <2>2 DEF InChan
<1>5. ASSUME NEW m \in InChan, m # Head(retCh) PROVE m \in InChan'
  <2>1. PICK n \in 1..Len(retCh) : m = retCh[n]
    BY <1>5 DEF InChan
  <2>2. n - 1 \in 1..Len(retCh') /\ m = retCh'[n - 1]
    BY <1>2, <1>5, <2>1
  <2> QED BY <2>2 DEF InChan
<1> QED BY <1>3, <1>4, <1>5

LEMMA SentToChan ==
    ASSUME TypeOK, NEW e \in 1..Len(log), retCh' = Append(retCh, e)
    PROVE  InChan' = InChan \union {e}
<1> DEFINE S == 1..Len(log)
<1>1. retCh \in Seq(S) /\ e \in S
  BY DEF TypeOK
<1> HIDE DEF S
<1>2. /\ Len(retCh') = Len(retCh) + 1 /\ Len(retCh) \in Nat
      /\ \A n \in 1..Len(retCh) : retCh'[n] = retCh[n]
      /\ retCh'[Len(retCh) + 1] = e
  BY <1>1, Sending
<1>3. 1..Len(retCh') = 1..Len(retCh) \union {Len(retCh) + 1}
  BY <1>2
<1> QED BY <1>2, <1>3 DEF InChan

LEMMA ChanRange == ASSUME TypeOK PROVE InChan \subseteq 1..Len(log)
<1> DEFINE S == 1..Len(log)
<1>1. retCh \in Seq(S)
  BY DEF TypeOK
<1> HIDE DEF S
<1>2. InChan \subseteq S
  BY <1>1, ElementOfSeq DEF InChan
<1> QED BY <1>2 DEF S

-----------------------------------------------------------------------------
(* Types.                                                                  *)
LEMMA StartIs ==
    ASSUME TypeOK
    PROVE  /\ StartRevision \in 1..Len(log) + 1
           /\ currentRevision # 0 => StartRevision = currentRevision
           /\ currentRevision = 0 => StartRevision = Len(log) + 1
BY DEF TypeOK, EtcdTypeOK, StartRevision, Newest

LEMMA TypeEtcd == ASSUME TypeOK, Etcd PROVE TypeOK'
<1>1. /\ EtcdTypeOK' /\ Len(log) <= Len(log') /\ compacted <= compacted'
      /\ Len(log) \in Nat /\ Len(log') \in Nat /\ compacted \in Nat /\ compacted' \in Nat
  BY LogGrows DEF TypeOK, EtcdTypeOK
<1>2. UNCHANGED <<watchVars, history, failures>>
  BY DEF Etcd
<1>3. (resp \in [lo : 1..Len(log) + 1, hi : 0..Len(log), rev : 0..Len(log), kept : 0..compacted])'
  <2> DEFINE L == 1..Len(log) + 1  H == 0..Len(log)  K == 0..compacted
  <2>1. resp \in [lo : L, hi : H, rev : H, kept : K]
    BY DEF TypeOK
  <2>2. L \subseteq L' /\ H \subseteq H' /\ K \subseteq K'
    BY <1>1
  <2> HIDE DEF L, H, K
  <2>3. resp' \in [lo : L', hi : H', rev : H', kept : K']
    BY <1>2, <2>1, <2>2 DEF watchVars
  <2> QED BY <2>3 DEF L, H, K
<1>4. (watch \in [open : BOOLEAN, next : 0..Len(log) + 1, lost : BOOLEAN, rev : 0..Len(log)])'
  <2> DEFINE N == 0..Len(log) + 1  H == 0..Len(log)
  <2>1. watch \in [open : BOOLEAN, next : N, lost : BOOLEAN, rev : H]
    BY DEF TypeOK
  <2>2. N \subseteq N' /\ H \subseteq H'
    BY <1>1
  <2> HIDE DEF N, H
  <2>3. watch' \in [open : BOOLEAN, next : N', lost : BOOLEAN, rev : H']
    BY <1>2, <2>1, <2>2 DEF watchVars
  <2> QED BY <2>3 DEF N, H
<1>5. (retCh \in Seq(1..Len(log)))'
  <2> DEFINE S == 1..Len(log)
  <2>1. retCh \in Seq(S) /\ S \subseteq S'
    BY <1>1 DEF TypeOK
  <2> HIDE DEF S
  <2>2. retCh \in Seq(S')
    BY <2>1
  <2> QED BY <1>2, <2>2 DEF S, watchVars
<1>6. (/\ currentRevision \in 0..Len(log)
       /\ start \in 0..anew /\ anew \in 0..Len(log) + 1
       /\ taken \subseteq 1..Len(log) /\ newest \in 0..Len(log)
       /\ cut \subseteq 1..Len(log) /\ passed \subseteq 1..Len(log))'
  <2>1. /\ currentRevision' = currentRevision /\ start' = start /\ anew' = anew
        /\ taken' = taken /\ newest' = newest /\ cut' = cut /\ passed' = passed
    BY <1>2 DEF watchVars, history
  <2>2. 1..Len(log) \subseteq 1..Len(log') /\ 0..Len(log) \subseteq 0..Len(log')
           /\ 0..Len(log) + 1 \subseteq 0..Len(log') + 1
    BY <1>1
  <2> QED BY <2>1, <2>2 DEF TypeOK
<1> QED BY <1>1, <1>2, <1>3, <1>4, <1>5, <1>6 DEF TypeOK, watchVars, history

LEMMA NoTypes ==
    ASSUME TypeOK
    PROVE  /\ NoWatch \in [open : BOOLEAN, next : 0..Len(log) + 1, lost : BOOLEAN,
                           rev : 0..Len(log)]
           /\ NoResp \in [lo : 1..Len(log) + 1, hi : 0..Len(log), rev : 0..Len(log),
                          kept : 0..compacted]
           /\ <<>> \in Seq(1..Len(log)) /\ Len(<<>>) <= ChanSize
<1> DEFINE L == 1..Len(log) + 1  N == 0..Len(log) + 1  H == 0..Len(log)  K == 0..compacted
<1>1. 1 \in L /\ 0 \in N /\ 0 \in H /\ 0 \in K
  BY DEF TypeOK, EtcdTypeOK
<1> HIDE DEF L, N, H, K
<1>2. /\ NoWatch \in [open : BOOLEAN, next : N, lost : BOOLEAN, rev : H]
      /\ NoResp \in [lo : L, hi : H, rev : H, kept : K]
  BY <1>1 DEF NoWatch, NoResp
<1>3. <<>> \in Seq(1..Len(log)) /\ Len(<<>>) <= ChanSize
  BY SizeAssumption
<1> QED BY <1>2, <1>3 DEF L, N, H, K

LEMMA TypeNext == ASSUME TypeOK, WatchInv, [Next]_vars PROVE TypeOK'
<1> USE DEF TypeOK, etcdVars, watchVars, history
<1>0. /\ Len(log) \in Nat /\ compacted \in Nat /\ compacted <= Len(log)
      /\ UNCHANGED etcdVars => EtcdTypeOK'
  BY DEF EtcdTypeOK
<1>1. CASE CreateWatch
  <2> DEFINE N == 0..Len(log) + 1  H == 0..Len(log)
  <2>1. StartRevision \in N /\ currentRevision \in H
    BY StartIs
  <2>2. watch' \in [open : BOOLEAN, next : N, lost : BOOLEAN, rev : H]
    <3> HIDE DEF N, H
    <3> QED BY <1>1, <2>1 DEF CreateWatch
  <2>3. start' \in 0..anew' /\ anew' \in 0..Len(log) + 1
    BY <1>0, <1>1, StartIs DEF CreateWatch, WatchInv
  <2>4. cut' \subseteq 1..Len(log) /\ passed' \subseteq 1..Len(log)
    BY <1>1 DEF CreateWatch
  <2> QED BY <1>0, <1>1, <2>2, <2>3, <2>4 DEF CreateWatch
<1>2. ASSUME NEW n \in 1..Newest, NEW h \in 1..Newest, Receive(n, h) PROVE TypeOK'
  <2> DEFINE L == 1..Len(log) + 1  N == 0..Len(log) + 1  H == 0..Len(log)  K == 0..compacted
  <2>1. /\ watch.next \in N /\ watch.next >= 1 /\ n + 1 \in N /\ n \in H /\ h \in H
        /\ compacted \in K
    <3>1. watch.next >= 1
      BY <1>2 DEF Receive, WatchInv
    <3>2. Len(log) \in Nat /\ watch.next \in N /\ compacted \in K
      BY <1>0
    <3>3. n \in 1..Len(log) /\ h \in 1..Len(log)
      BY <1>2 DEF Newest
    <3> QED BY <3>1, <3>2, <3>3
  <2>2. watch.next \in L
    BY <1>0, <2>1
  <2>3. watch' \in [open : BOOLEAN, next : N, lost : BOOLEAN, rev : H]
    <3> HIDE DEF N, H
    <3>1. watch \in [open : BOOLEAN, next : N, lost : BOOLEAN, rev : H]
      BY DEF N, H
    <3> QED BY <1>2, <2>1, <3>1 DEF Receive
  <2>4. resp' \in [lo : L, hi : H, rev : H, kept : K]
    <3> HIDE DEF L, N, H, K
    <3> QED BY <1>2, <2>1, <2>2 DEF Receive
  <2>5. cut' \subseteq 1..Len(log)
    <3>1. cut' = n + 1..h - 1
      BY ONLY <1>2 DEF Receive
    <3>2. Len(log) \in Nat /\ n \in 1..Len(log) /\ h \in 1..Len(log)
      BY ONLY <1>0, n \in 1..Newest, h \in 1..Newest DEF Newest
    <3>3. \A i \in n + 1..h - 1 : i \in 1..Len(log)
      BY ONLY <3>2
    <3> QED BY ONLY <3>1, <3>3
  <2> QED BY <1>0, <1>2, <2>3, <2>4, <2>5 DEF Receive
<1>3. CASE HandleEvent
  <2> DEFINE L == 1..Len(log) + 1  H == 0..Len(log)  K == 0..compacted
  <2>1. resp.lo \in 1..Len(log) /\ resp.lo + 1 \in L /\ resp.rev \in H
    BY <1>0, <1>3 DEF HandleEvent
  <2>2. resp' \in [lo : L, hi : H, rev : H, kept : K]
    <3> HIDE DEF L, H, K
    <3>1. resp \in [lo : L, hi : H, rev : H, kept : K]
      BY DEF L, H, K
    <3> QED BY <1>3, <2>1, <3>1 DEF HandleEvent
  <2>3. retCh' \in Seq(1..Len(log)) /\ Len(retCh') <= ChanSize
    <3> DEFINE S == 1..Len(log)
    <3>1. retCh \in Seq(S) /\ resp.lo \in S /\ Len(retCh) \in Nat
      BY <2>1
    <3> HIDE DEF S
    <3>2. CASE Supported(resp.lo)
      <4>1. retCh' = Append(retCh, resp.lo) /\ Len(retCh) < ChanSize
        BY <1>3, <3>2 DEF HandleEvent
      <4>2. retCh' \in Seq(S) /\ Len(retCh') = Len(retCh) + 1
        BY <3>1, <4>1, Sending
      <4>3. Len(retCh') <= ChanSize
        BY <3>1, <4>1, <4>2, SizeAssumption
      <4> QED BY <4>2, <4>3 DEF S
    <3>3. CASE ~Supported(resp.lo)
      BY <1>3, <3>3 DEF HandleEvent
    <3> QED BY <3>2, <3>3
  <2>4. currentRevision' \in 0..Len(log)
    BY <1>3, <2>1 DEF HandleEvent, RevisionSeen
  <2> QED BY <1>0, <1>3, <2>2, <2>3, <2>4 DEF HandleEvent
<1>4. CASE EndResponse
  BY <1>0, <1>4, NoTypes DEF EndResponse
<1>5. CASE Compacted
  <2>1. currentRevision' \in 0..Len(log) /\ pc' = "gone"
    BY <1>0, <1>5 DEF Compacted
  <2> QED BY <1>0, <1>5, <2>1, NoTypes DEF Compacted
<1>6. CASE WatchFails
  <2>1. failures' \in Nat
    BY <1>6 DEF WatchFails
  <2> QED BY <1>0, <1>6, <2>1, NoTypes DEF WatchFails, Recreate
<1>7. ASSUME Restart, failures' \in Nat PROVE TypeOK'
  <2>1. currentRevision' \in 0..Len(log) /\ pc' = "create"
    BY <1>0, <1>7 DEF Restart
  <2> QED BY <1>0, <1>7, <2>1, NoTypes DEF Restart
<1>8. CASE Crash
  <2>1. failures' \in Nat
    BY <1>8 DEF Crash
  <2> QED BY <1>7, <1>8, <2>1 DEF Crash
<1>9. CASE EventPanics
  BY <1>7, <1>9 DEF EventPanics
<1>10. CASE AgentReceive
  <2> DEFINE S == 1..Len(log)
  <2>1. retCh \in Seq(S) /\ retCh # <<>> /\ retCh' = Tail(retCh)
    BY <1>10 DEF AgentReceive
  <2> HIDE DEF S
  <2>2. retCh' \in Seq(S) /\ Len(retCh') = Len(retCh) - 1 /\ Head(retCh) \in S
           /\ Len(retCh) \in Nat
    BY <2>1, Taking
  <2>3. Len(retCh') <= ChanSize
    BY <2>2, SizeAssumption
  <2>4. newest' \in S /\ taken' \subseteq S
    BY <1>10, <2>2 DEF AgentReceive, S
  <2>5. newest' \in 0..Len(log)
    BY <2>4 DEF S
  <2> QED BY <1>0, <1>10, <2>2, <2>3, <2>4, <2>5 DEF AgentReceive, S
<1>11. CASE CreateWatchChannel
  BY <1>0, <1>11 DEF CreateWatchChannel
<1>12. CASE UNCHANGED vars
  BY <1>0, <1>12 DEF vars
<1>13. CASE Etcd
  BY <1>13, TypeEtcd
<1> QED BY <1>1, <1>2, <1>3, <1>4, <1>5, <1>6, <1>8, <1>9, <1>10, <1>11, <1>12, <1>13
        DEF Next, WatchStep, AgentStep

-----------------------------------------------------------------------------
(* The fields of the records, as numbers.                                  *)
LEMMA Numbers ==
    ASSUME TypeOK
    PROVE  /\ Len(log) \in Nat /\ currentRevision \in Nat /\ anew \in Nat /\ newest \in Nat
           /\ watch.next \in Nat /\ watch.rev \in Nat
           /\ resp.lo \in Nat /\ resp.hi \in Nat /\ resp.rev \in Nat
           /\ resp.lo >= 1 /\ resp.hi <= Len(log) /\ resp.rev <= Len(log)
BY DEF TypeOK, EtcdTypeOK

LEMMA Received ==
    ASSUME TypeOK, NEW n \in 1..Newest, NEW h \in 1..Newest, Receive(n, h)
    PROVE  /\ resp'.lo = watch.next /\ resp'.hi = n /\ resp'.rev = h
           /\ watch'.open /\ watch'.next = n + 1 /\ watch'.rev = h
           /\ n \in Nat /\ h \in Nat /\ n <= h /\ watch.next <= n /\ watch.rev <= h
<1>1. watch' = [watch EXCEPT !.next = n + 1, !.rev = h] /\ watch.open
  BY DEF Receive
<1>2. watch'.open /\ watch'.next = n + 1 /\ watch'.rev = h
  <2> DEFINE N == 0..Len(log) + 1  H == 0..Len(log)
  <2>1. watch \in [open : BOOLEAN, next : N, lost : BOOLEAN, rev : H]
    BY DEF TypeOK
  <2> HIDE DEF N, H
  <2> QED BY <1>1, <2>1
<1>3. n <= h
  BY Numbers DEF Receive, HeaderOf, Newest
<1>4. watch.next <= n /\ watch.rev <= h
  BY Numbers DEF Receive
<1> QED BY <1>2, <1>3, <1>4, Numbers DEF Receive, Newest

LEMMA Handled ==
    ASSUME TypeOK, HandleEvent
    PROVE  resp'.lo = resp.lo + 1 /\ resp'.hi = resp.hi /\ resp'.rev = resp.rev
<1> DEFINE L == 1..Len(log) + 1  H == 0..Len(log)  K == 0..compacted
<1>1. resp \in [lo : L, hi : H, rev : H, kept : K]
  BY DEF TypeOK
<1> HIDE DEF L, H, K
<1> QED BY <1>1 DEF HandleEvent

LEMMA WatchNext == ASSUME TypeOK, WatchInv, [Next]_vars PROVE WatchInv'
<1> USE Numbers DEF WatchInv
<1>1. CASE CreateWatch
  <2>1. start' # 0
    BY <1>1, StartIs DEF CreateWatch
  <2>2. watch'.next >= 1 /\ cut' = watch'.next..watch'.rev - 1
    BY <1>1, StartIs DEF CreateWatch
  <2> QED BY <1>1, <2>1, <2>2 DEF CreateWatch
<1>2. ASSUME NEW n \in 1..Newest, NEW h \in 1..Newest, Receive(n, h) PROVE WatchInv'
  <2>1. cut' = n + 1..h - 1 /\ pc' = "handle" /\ start' = start /\ pc = "wait"
    BY <1>2 DEF Receive
  <2> QED BY <1>2, <2>1, Received
<1>3. CASE HandleEvent
  BY <1>3, Handled DEF HandleEvent, history
<1>4. CASE EndResponse
  BY <1>4 DEF EndResponse, history
<1>5. CASE Compacted
  BY <1>5 DEF Compacted, history, NoWatch
<1>6. CASE WatchFails
  BY <1>6 DEF WatchFails, Recreate, history, NoWatch
<1>7. CASE Crash \/ EventPanics
  BY <1>7 DEF Crash, EventPanics, Restart, history, NoWatch
<1>8. CASE AgentReceive
  BY <1>8 DEF AgentReceive
<1>9. CASE CreateWatchChannel
  BY <1>9 DEF CreateWatchChannel, history
<1>10. CASE UNCHANGED vars \/ Etcd
  BY <1>10 DEF vars, Etcd, watchVars, history
<1> QED BY <1>1, <1>2, <1>3, <1>4, <1>5, <1>6, <1>7, <1>8, <1>9, <1>10
        DEF Next, WatchStep, AgentStep

-----------------------------------------------------------------------------
(* The order of the events.                                                *)
LEMMA SentRange == ASSUME TypeOK PROVE Sent \subseteq 0..Len(log)
<1>1. InChan \subseteq 0..Len(log)
  BY ChanRange
<1> QED BY <1>1 DEF Sent, TypeOK

(* As long as nothing is sent or taken, only the bounds can move, and only *)
(* upwards.                                                                *)
LEMMA OrderKeeps ==
    ASSUME TypeOK, TypeOK', OrderInv, UNCHANGED <<retCh, newest>>,
           currentRevision' = 0 \/ (currentRevision' = currentRevision),
           \A n \in Sent : watch'.open => n <= Position'
    PROVE  OrderInv'
<1>1. Sent' = Sent
  BY DEF Sent, InChan
<1> QED BY <1>1 DEF OrderInv

LEMMA OrderNext == ASSUME TypeOK, TypeOK', WatchInv, OrderInv, [Next]_vars PROVE OrderInv'
<1> USE Numbers, SentRange
<1>1. CASE CreateWatch
  <2>1. ASSUME NEW n \in Sent PROVE n <= StartRevision
    BY <1>1, StartIs DEF OrderInv
  <2>2. Position' = StartRevision
    BY <1>1 DEF CreateWatch, Position
  <2> QED BY <1>1, <2>1, <2>2, OrderKeeps DEF CreateWatch
<1>2. ASSUME NEW n \in 1..Newest, NEW h \in 1..Newest, Receive(n, h) PROVE OrderInv'
  <2>1. Position' = watch.next /\ Position = watch.next /\ watch.open
    BY <1>2, Received DEF Receive, Position
  <2> QED BY <1>2, <2>1, OrderKeeps DEF Receive, OrderInv
<1>3. CASE HandleEvent
  <2>1. /\ Position = resp.lo /\ Position' = resp.lo + 1 /\ watch.open /\ watch' = watch
        /\ newest' = newest /\ \A n \in Sent : n <= resp.lo
    BY <1>3, Handled DEF HandleEvent, Position, WatchInv, OrderInv, history
  <2>2. CASE ~Supported(resp.lo)
    BY <1>3, <2>1, <2>2, OrderKeeps DEF HandleEvent
  <2>3. CASE Supported(resp.lo)
    <3>1. /\ retCh' = Append(retCh, resp.lo) /\ currentRevision' = resp.rev
          /\ resp.lo \in 1..Len(log) /\ resp.lo <= resp.rev
      BY <1>3, <2>3 DEF HandleEvent, RevisionSeen, WatchInv
    <3>2. Sent' = Sent \union {resp.lo}
      BY <2>1, <3>1, SentToChan DEF Sent
    <3>3. \A n \in Sent' : /\ newest' <= n
                           /\ currentRevision' # 0 => n <= currentRevision'
                           /\ watch'.open => n <= Position'
      <4>1. newest <= resp.lo
        BY <2>1 DEF Sent
      <4>2. ASSUME NEW n \in Sent PROVE newest <= n /\ n <= resp.lo
        BY <2>1 DEF OrderInv
      <4> QED BY <2>1, <3>1, <3>2, <4>1, <4>2
    <3>4. ASSUME NEW i \in 1..Len(retCh'), NEW j \in 1..Len(retCh'), i <= j
          PROVE  retCh'[i] <= retCh'[j]
      <4> DEFINE S == 1..Len(log)
      <4>1. retCh \in Seq(S) /\ resp.lo \in S
        BY <3>1 DEF TypeOK
      <4> HIDE DEF S
      <4>2. /\ Len(retCh) \in Nat /\ Len(retCh') = Len(retCh) + 1
            /\ \A k \in 1..Len(retCh) : retCh'[k] = retCh[k]
            /\ retCh'[Len(retCh) + 1] = resp.lo
        BY <3>1, <4>1, Sending
      <4>3. CASE j \in 1..Len(retCh)
        BY <3>4, <4>2, <4>3 DEF OrderInv
      <4>4. CASE j = Len(retCh) + 1 /\ i \in 1..Len(retCh)
        <5>1. retCh[i] \in Sent
          BY <4>4 DEF Sent, InChan
        <5> QED BY <2>1, <4>2, <4>4, <5>1
      <4>5. CASE j = Len(retCh) + 1 /\ i = Len(retCh) + 1
        BY <4>2, <4>5
      <4> QED BY <3>4, <4>2, <4>3, <4>4, <4>5
    <3> QED BY <3>3, <3>4 DEF OrderInv
  <2> QED BY <2>2, <2>3
<1>4. CASE EndResponse
  <2>1. Position' = Position
    BY <1>4 DEF EndResponse, Position, WatchInv
  <2> QED BY <1>4, <2>1, OrderKeeps DEF EndResponse, history, OrderInv
<1>5. CASE Compacted \/ WatchFails
  BY <1>5, OrderKeeps DEF Compacted, WatchFails, history, NoWatch
<1>6. CASE Crash \/ EventPanics
  <2>1. retCh' = <<>> /\ newest' = newest /\ currentRevision' = 0 /\ ~watch'.open
    BY <1>6 DEF Crash, EventPanics, Restart, history, NoWatch
  <2>2. InChan' = {}
    BY <2>1 DEF InChan
  <2> QED BY <2>1, <2>2 DEF OrderInv, Sent
<1>7. CASE AgentReceive
  <2>1. newest' = Head(retCh) /\ Head(retCh) \in InChan /\ InChan' \subseteq InChan
    BY <1>7, TakenFromChan DEF AgentReceive
  <2>2. Sent' \subseteq Sent
    BY <2>1 DEF Sent
  <2> DEFINE S == 1..Len(log)
  <2>3. retCh \in Seq(S) /\ retCh # <<>> /\ retCh' = Tail(retCh)
    BY <1>7 DEF AgentReceive, TypeOK
  <2> HIDE DEF S
  <2>4. /\ Len(retCh') = Len(retCh) - 1 /\ Head(retCh) = retCh[1]
        /\ Len(retCh) \in Nat /\ Len(retCh) >= 1
        /\ \A n \in 1..Len(retCh) - 1 : retCh'[n] = retCh[n + 1]
    BY <2>3, Taking
  <2>5. ASSUME NEW i \in 1..Len(retCh'), NEW j \in 1..Len(retCh'), i <= j
        PROVE  retCh'[i] <= retCh'[j]
    BY <2>4, <2>5 DEF OrderInv
  <2>6. ASSUME NEW n \in Sent' PROVE newest' <= n
    <3>1. CASE n = newest'
      BY <3>1, <2>2
    <3>2. CASE n \in InChan'
      <4>1. PICK i \in 1..Len(retCh') : n = retCh'[i]
        BY <3>2 DEF InChan
      <4>2. i + 1 \in 1..Len(retCh) /\ n = retCh[i + 1] /\ 1 \in 1..Len(retCh) /\ 1 <= i + 1
        BY <2>4, <4>1
      <4>3. retCh[1] <= retCh[i + 1]
        BY <4>2 DEF OrderInv
      <4> QED BY <2>1, <2>4, <4>2, <4>3
    <3> QED BY <3>1, <3>2 DEF Sent
  <2>7. UNCHANGED <<currentRevision, watch, resp, pc>>
    BY <1>7 DEF AgentReceive
  <2> QED BY <2>2, <2>5, <2>6, <2>7 DEF OrderInv, Position
<1>8. CASE CreateWatchChannel
  BY <1>8, OrderKeeps DEF CreateWatchChannel, history, OrderInv, WatchInv
<1>9. CASE UNCHANGED vars \/ Etcd
  <2>1. UNCHANGED <<watchVars, history>>
    BY <1>9 DEF vars, Etcd
  <2> QED BY <2>1, OrderKeeps DEF watchVars, history, OrderInv, Position
<1> QED BY <1>1, <1>2, <1>3, <1>4, <1>5, <1>6, <1>7, <1>8, <1>9
        DEF Next, WatchStep, AgentStep

-----------------------------------------------------------------------------
(* What the watch has gone by.  Delivered events stay delivered, as long   *)
(* as the channel is not dropped.                                          *)
LEMMA DeliveredStays ==
    ASSUME UNCHANGED log, taken \union InChan \subseteq taken' \union InChan',
           passed \subseteq passed',
           NEW m, Delivered(m)
    PROVE  Delivered(m)'
BY DEF Delivered, Supported

LEMMA GoneNext ==
    ASSUME TypeOK, TypeOK', WatchInv, WatchInv', GoneInv, [Next]_vars PROVE GoneInv'
<1> USE Numbers
<1>1. CASE CreateWatch
  <2>1. /\ Position' = StartRevision /\ watch'.open /\ pc' = "wait"
        /\ UNCHANGED <<log, currentRevision, taken, retCh>> /\ passed \subseteq passed'
        /\ pc = "create"
    BY <1>1 DEF CreateWatch, etcdVars, Position
  <2>2. CASE currentRevision = 0
    <3>1. anew' = StartRevision
      BY <1>1, <2>2 DEF CreateWatch
    <3> QED BY <2>1, <2>2, <3>1, StartIs DEF GoneInv
  <2>3. CASE currentRevision # 0
    <3>1. /\ StartRevision = currentRevision /\ anew' = anew
          /\ passed' = passed \union (cut \intersect 1..currentRevision - 1)
      BY <1>1, <2>3, StartIs DEF CreateWatch
    <3>2. ASSUME NEW m \in anew..currentRevision - 1 PROVE Delivered(m)'
      <4>1. Delivered(m) \/ m \in cut
        BY <2>1, <2>3 DEF GoneInv, InHand
      <4>2. CASE Delivered(m)
        BY <2>1, <4>2, DeliveredStays DEF InChan
      <4>3. CASE m \in cut
        <5>1. m \in passed'
          BY <3>1, <4>3 DEF TypeOK
        <5> QED BY <5>1 DEF Delivered
      <4> QED BY <4>1, <4>2, <4>3
    <3> QED BY <2>1, <3>1, <3>2 DEF GoneInv
  <2> QED BY <2>2, <2>3
<1>2. ASSUME NEW n \in 1..Newest, NEW h \in 1..Newest, Receive(n, h) PROVE GoneInv'
  <2>1. /\ UNCHANGED <<log, currentRevision, anew, taken, retCh, passed>>
        /\ pc = "wait" /\ pc' = "handle" /\ watch.open
        /\ cut' = n + 1..h - 1 /\ cut = watch.next..watch.rev - 1
        /\ Position = watch.next /\ Position' = watch.next
    BY <1>2, Received DEF Receive, etcdVars, Position, WatchInv
  <2>2. \A m : Delivered(m) => Delivered(m)'
    BY <2>1, DeliveredStays DEF InChan
  <2>3. ASSUME NEW m \in cut PROVE m \in cut' \/ InHand(m)'
    BY <1>2, <2>1, <2>3, Received DEF InHand
  <2>4. ASSUME currentRevision # 0, NEW m \in anew..currentRevision - 1
        PROVE  Delivered(m)' \/ InHand(m)' \/ m \in cut'
    BY <2>1, <2>2, <2>3, <2>4 DEF GoneInv, InHand
  <2> QED BY <2>1, <2>2, <2>4 DEF GoneInv
<1>3. CASE HandleEvent
  <2>1. /\ UNCHANGED <<log, pc, watch, anew, taken, passed, cut>> /\ watch.open
        /\ pc = "handle" /\ resp.lo \in 1..Len(log) /\ resp.lo <= resp.hi
        /\ Position = resp.lo /\ Position' = resp.lo + 1
        /\ cut = resp.hi + 1..resp.rev - 1
    BY <1>3, Handled DEF HandleEvent, etcdVars, history, Position, WatchInv
  <2> PICK e \in Nat : e = resp.lo
    OBVIOUS
  <2>2. InChan \subseteq InChan' /\ Delivered(e)'
    <3>1. CASE Supported(resp.lo)
      <4>1. InChan' = InChan \union {resp.lo}
        BY <1>3, <2>1, <3>1, SentToChan DEF HandleEvent
      <4> QED BY <4>1 DEF Delivered
    <3>2. CASE ~Supported(resp.lo)
      BY <1>3, <2>1, <3>2 DEF HandleEvent, InChan, Delivered, Supported
    <3> QED BY <3>1, <3>2
  <2>3. \A m : Delivered(m) => Delivered(m)'
    BY <2>1, <2>2, DeliveredStays
  <2>4. \A m \in anew..e : Delivered(m)'
    <3>1. \A m \in anew..resp.lo - 1 : Delivered(m)
      BY <2>1 DEF GoneInv
    <3> QED BY <2>2, <2>3, <3>1
  <2>5. \A m : InHand(m) => m = resp.lo \/ InHand(m)'
    BY <1>3, <2>1, Handled DEF InHand
  <2>6. ASSUME currentRevision' # 0, NEW m \in anew..currentRevision' - 1
        PROVE  Delivered(m)' \/ InHand(m)' \/ m \in cut
    <3>1. CASE Supported(resp.lo)
      <4>1. currentRevision' = resp.rev
        BY <1>3, <3>1 DEF HandleEvent, RevisionSeen
      <4>2. m <= resp.lo \/ m \in resp.lo + 1..resp.hi \/ m \in cut
        BY <2>1, <2>6, <4>1
      <4> QED BY <1>3, <2>1, <2>4, <2>6, <4>1, <4>2, Handled DEF InHand
    <3>2. CASE ~Supported(resp.lo)
      <4>1. currentRevision' = currentRevision
        BY <1>3, <3>2 DEF HandleEvent
      <4>2. Delivered(m) \/ InHand(m) \/ m \in cut
        BY <2>6, <4>1 DEF GoneInv
      <4> QED BY <2>2, <2>3, <2>5, <4>2
    <3> QED BY <3>1, <3>2
  <2> QED BY <2>1, <2>4, <2>6 DEF GoneInv
<1>4. CASE EndResponse
  <2>1. /\ UNCHANGED <<log, currentRevision, watch, anew, taken, retCh, passed, cut>>
        /\ pc = "handle" /\ pc' = "wait" /\ resp.lo > resp.hi
        /\ Position' = Position
    BY <1>4 DEF EndResponse, etcdVars, history, Position, WatchInv
  <2>2. \A m : Delivered(m) => Delivered(m)'
    BY <2>1, DeliveredStays DEF InChan
  <2>3. \A m : ~InHand(m)
    BY <2>1 DEF InHand
  <2> QED BY <2>1, <2>2, <2>3 DEF GoneInv
<1>5. CASE WatchFails
  <2>1. /\ UNCHANGED <<log, currentRevision, anew, taken, retCh, passed, cut>>
        /\ ~watch'.open /\ pc = "wait"
    BY <1>5 DEF WatchFails, etcdVars, history, NoWatch
  <2>2. \A m : Delivered(m) => Delivered(m)'
    BY <2>1, DeliveredStays DEF InChan
  <2> QED BY <2>1, <2>2 DEF GoneInv, InHand
<1>6. CASE Compacted \/ Crash \/ EventPanics
  BY <1>6 DEF Compacted, Crash, EventPanics, Restart, NoWatch, GoneInv
<1>7. CASE AgentReceive
  <2>1. /\ UNCHANGED <<log, currentRevision, pc, watch, resp, anew, passed, cut>>
        /\ taken \union InChan \subseteq taken' \union InChan'
    BY <1>7, TakenFromChan DEF AgentReceive, etcdVars
  <2>2. \A m : Delivered(m) => Delivered(m)'
    BY <2>1, DeliveredStays
  <2> QED BY <2>1, <2>2 DEF GoneInv, InHand, Position
<1>8. CASE CreateWatchChannel
  <2>1. /\ UNCHANGED <<log, currentRevision, watch, anew, taken, retCh, passed, cut>>
        /\ pc = "gone" /\ ~watch.open
    BY <1>8 DEF CreateWatchChannel, etcdVars, history, WatchInv
  <2>2. \A m : Delivered(m) => Delivered(m)'
    BY <2>1, DeliveredStays DEF InChan
  <2> QED BY <2>1, <2>2 DEF GoneInv, InHand
<1>9. CASE UNCHANGED vars \/ Etcd
  <2>1. UNCHANGED <<watchVars, history>>
    BY <1>9 DEF vars, Etcd
  <2>2. \A m \in 1..Len(log) : log'[m] = log[m]
    BY <1>9, LogGrows DEF vars, etcdVars
  <2>3. \A m \in 1..Len(log) : Delivered(m) => Delivered(m)'
    BY <2>1, <2>2 DEF Delivered, Supported, InChan, watchVars, history
  <2>4. watch.open \/ currentRevision # 0 => anew >= 1
    <3>1. start \in 0..anew
      BY DEF TypeOK
    <3>2. watch.open \/ currentRevision # 0 => start # 0
      BY DEF WatchInv
    <3> QED BY <3>1, <3>2
  <2>5. Position <= Len(log) + 1 /\ currentRevision <= Len(log)
    <3>1. /\ resp.lo \in 1..Len(log) + 1 /\ watch.next \in 0..Len(log) + 1
          /\ currentRevision \in 0..Len(log)
      BY DEF TypeOK
    <3> QED BY <3>1 DEF Position
  <2> QED BY <2>1, <2>3, <2>4, <2>5 DEF GoneInv, InHand, Position, watchVars, history
<1> QED BY <1>1, <1>2, <1>3, <1>4, <1>5, <1>6, <1>7, <1>8, <1>9
        DEF Next, WatchStep, AgentStep

-----------------------------------------------------------------------------
LEMMA IndInit == Init => IndInv
<1> SUFFICES ASSUME Init PROVE IndInv
  OBVIOUS
<1>1. log = <<>> /\ Len(log) = 0 /\ EtcdTypeOK
  BY DEF Init, EtcdInit, EtcdTypeOK, Some
<1>2. retCh = <<>> /\ Len(retCh) = 0 /\ InChan = {} /\ retCh \in Seq(1..Len(log))
  BY DEF Init, InChan
<1>3. TypeOK
  <2>1. /\ EtcdTypeOK /\ retCh \in Seq(1..Len(log)) /\ Len(retCh) <= ChanSize
    BY <1>1, <1>2, SizeAssumption
  <2>2. compacted = 0
    BY DEF Init, EtcdInit
  <2> QED BY <1>1, <2>1, <2>2 DEF Init, TypeOK, NoWatch, NoResp
<1>4. WatchInv /\ OrderInv /\ GoneInv
  BY <1>2 DEF Init, WatchInv, OrderInv, GoneInv, Sent, NoWatch
<1> QED BY <1>3, <1>4 DEF IndInv

LEMMA IndNext == IndInv /\ [Next]_vars => IndInv'
BY TypeNext, WatchNext, OrderNext, GoneNext DEF IndInv

LEMMA InductiveInvariant == Spec => []IndInv
BY IndInit, IndNext, PTL DEF Spec

(* Every variable keeps its type, whatever the watch delivers and however  *)
(* often it is made anew.                                                  *)
THEOREM ApigwTypeOK == Spec => []TypeOK
BY InductiveInvariant, PTL DEF IndInv

(* From the revision of the last watch from now on, no event of a kind the *)
(* operator watches is left out, but for those cut off behind a response.  *)
THEOREM ApigwNoEventSkipped == Spec => []NoEventSkipped
<1>1. IndInv => NoEventSkipped
  BY DEF IndInv, GoneInv, NoEventSkipped, GoneBy, Position, Delivered
<1> QED BY <1>1, InductiveInvariant, PTL

(* The agent never takes an older event after a newer one.                 *)
THEOREM ApigwOrderKept == Spec => OrderKept
<1>1. IndInv /\ [Next]_vars => [newest' >= newest]_vars
  <2> SUFFICES ASSUME IndInv, [Next]_vars PROVE newest' >= newest
    OBVIOUS
  <2>1. newest \in Nat
    BY Numbers DEF IndInv
  <2>2. CASE AgentReceive
    <3>1. newest' = Head(retCh) /\ Head(retCh) \in InChan
      BY <2>2, TakenFromChan DEF AgentReceive, IndInv
    <3> QED BY <3>1 DEF IndInv, OrderInv, Sent
  <2>3. CASE UNCHANGED newest
    BY <2>1, <2>3
  <2>4. AgentReceive \/ UNCHANGED newest
    BY DEF Next, WatchStep, AgentStep, CreateWatch, Receive, HandleEvent, EndResponse,
           Compacted, WatchFails, Crash, EventPanics, Restart, CreateWatchChannel, Etcd,
           history, vars
  <2> QED BY <2>2, <2>3, <2>4
<1> QED BY <1>1, InductiveInvariant, PTL DEF Spec, OrderKept

-----------------------------------------------------------------------------
(* The listings.  The name of a stage and the slash after it are the       *)
(* beginning of no other stage's keys, though one name may begin another.  *)
LEMMA NameIs ==
    ASSUME NEW t \in Seq(Nat) \union {Global}
    PROVE  t \in Seq(Int) /\ Len(t) \in Nat /\ \A i \in 1..Len(t) : t[i] # -1
<1>1. CASE t \in Seq(Nat)
  BY <1>1
<1>2. CASE t = <<-2>>
  BY <1>2
<1> QED BY <1>1, <1>2 DEF Global

LEMMA PrefixStage ==
    ASSUME NEW s \in Seq(Nat) \union {Global}, NEW t \in Seq(Nat) \union {Global}
    PROVE  IsPrefix(s \o <<Slash>>, t \o <<Slash>>) <=> s = t
<1> DEFINE n == Len(s)
           m == Len(t)
           a == s \o <<Slash>>
           b == t \o <<Slash>>
<1>1. /\ t \in Seq(Int) /\ s \in Seq(Int) /\ n \in Nat /\ m \in Nat /\ Slash = -1
      /\ \A i \in 1..n : s[i] # -1
      /\ \A i \in 1..m : t[i] # -1
  BY NameIs DEF Slash
<1>2. /\ Len(a) = n + 1 /\ Len(b) = m + 1 /\ a \in Seq(Int) /\ b \in Seq(Int)
      /\ \A i \in 1..n : a[i] = s[i]
      /\ \A i \in 1..m : b[i] = t[i]
      /\ a[n + 1] = -1 /\ b[m + 1] = -1
  BY <1>1
<1>3. ASSUME IsPrefix(a, b) PROVE s = t
  <2>1. n + 1 <= m + 1 /\ SubSeq(a, 1, n + 1) = SubSeq(b, 1, n + 1)
    BY <1>2, <1>3 DEF IsPrefix
  <2> HIDE DEF n, m, a, b
  <2>2. \A i \in 1..n + 1 : a[i] = b[i]
    <3>1. ASSUME NEW i \in 1..n + 1 PROVE a[i] = b[i]
      <4>1. SubSeq(a, 1, n + 1)[i] = a[i] /\ SubSeq(b, 1, n + 1)[i] = b[i]
        BY <1>1, <1>2, <2>1
      <4> QED BY <2>1, <4>1
    <3> QED BY <3>1
  <2>3. n = m
    <3>1. ASSUME n < m PROVE FALSE
      <4>1. n + 1 \in 1..m /\ b[n + 1] = -1
        BY <1>1, <1>2, <2>2, <3>1
      <4> QED BY <1>1, <1>2, <4>1
    <3> QED BY <1>1, <2>1, <3>1
  <2>4. \A i \in 1..n : s[i] = t[i]
    BY <1>1, <1>2, <2>2, <2>3
  <2> QED BY <1>1, <2>3, <2>4, SeqEqual DEF n, m
<1>4. ASSUME s = t PROVE IsPrefix(a, b)
  BY <1>2, <1>4 DEF IsPrefix
<1> QED BY <1>3, <1>4

(* What is in etcd are keys, one of a name.                                *)
KeysOK ==
    /\ kvs \subseteq Keys
    /\ \A j, k \in kvs : j.stage = k.stage /\ j.kind = k.kind /\ j.id = k.id => j = k

(* What a key is.                                                          *)
LEMMA KeyIs ==
    ASSUME NEW k \in Keys
    PROVE  /\ k.stage \in Stages \union {Global}
           /\ k.kind \in Kinds
           /\ k.kind # "_bk_release" => k.id \in ResourceIds
           /\ k.kind = "_bk_release" => k.id = <<>>
           /\ k.stage = Global => k.kind \notin {"_bk_release", "route", "service"}
           /\ k.stage \in Seq(Nat) \union {Global}
           /\ k.id \in Seq(Nat)
<1>1. Stages \subseteq Seq(Nat) /\ ResourceIds \subseteq Seq(Nat)
  BY NamesAssumption
<1>2. Global \notin Seq(Nat)
  <2>1. ASSUME Global \in Seq(Nat) PROVE FALSE
    <3>1. <<-2>>[1] \in Nat
      BY <2>1 DEF Global
    <3> QED BY <3>1
  <2> QED BY <2>1
<1>3. CASE \E kind \in Kinds :
              k \in KeysOf(Stages, kind,
                        IF kind = "_bk_release" THEN {ReleaseId} ELSE ResourceIds)
  <2>1. PICK kind \in Kinds :
              k \in KeysOf(Stages, kind,
                        IF kind = "_bk_release" THEN {ReleaseId} ELSE ResourceIds)
    BY <1>3
  <2>2. /\ k.stage \in Stages /\ k.kind = kind
        /\ k.id \in IF kind = "_bk_release" THEN {ReleaseId} ELSE ResourceIds
    BY <2>1 DEF KeysOf
  <2>3. ReleaseId = <<>> /\ <<>> \in Seq(Nat)
    BY DEF ReleaseId
  <2>4. k.id \in Seq(Nat)
    BY <1>1, <2>2, <2>3
  <2> QED BY <1>1, <1>2, <2>2, <2>3, <2>4
<1>4. CASE \E kind \in Kinds \ {"_bk_release", "route", "service"} :
              k \in KeysOf({Global}, kind, ResourceIds)
  <2>1. PICK kind \in Kinds \ {"_bk_release", "route", "service"} :
              k \in KeysOf({Global}, kind, ResourceIds)
    BY <1>4
  <2>2. k.stage = Global /\ k.kind = kind /\ k.id \in ResourceIds
    BY <2>1 DEF KeysOf
  <2> QED BY <1>1, <2>1, <2>2
<1> QED BY <1>3, <1>4 DEF Keys

LEMMA WithStage ==
    ASSUME NEW K \in SUBSET Keys,
           NEW s \in Stages \union {Global}
    PROVE  {k \in K : IsPrefix(s \o <<Slash>>, k.stage \o <<Slash>>)} =
               {k \in K : k.stage = s}
<1>1. s \in Seq(Nat) \union {Global}
  BY NamesAssumption
<1>2. \A k \in K : k.stage \in Seq(Nat) \union {Global}
  BY KeyIs
<1>3. \A k \in K : IsPrefix(s \o <<Slash>>, k.stage \o <<Slash>>) <=> s = k.stage
  BY <1>1, <1>2, PrefixStage
<1> QED BY <1>3

LEMMA InStageIs ==
    ASSUME KeysOK, NEW s \in Stages \union {Global}
    PROVE  InStage(s) = {k \in kvs : k.stage = s}
BY WithStage DEF InStage, KeysOK

(* The validator: whatever order of the plugins let a value through, each  *)
(* of its plugins fits.                                                    *)
LEMMA AcceptedFits ==
    ASSUME NEW k \in Keys, Accepted(k),
           k.kind \in {"route", "service", "plugin_metadata"}
    PROVE  PluginsFit(k)
<1> DEFINE c == k.value
<1>1. k.kind \in (Kinds \intersect SupportEventResourceTypeMap) \ {"_bk_release"}
  BY KeyIs DEF SupportEventResourceTypeMap
<1>2. Sound[k.kind] = {d \in KindValues[k.kind] \ {Junk} :
                                  ValidateApisixJsonSchema(k.kind, d)}
  BY <1>1 DEF Sound
<1>3. ValidateApisixJsonSchema(k.kind, c)
  BY <1>2 DEF Accepted
<1>4. PICK order \in Orders(DOMAIN c.plugins) :
          PluginsPass(k.kind, c.plugins, order)
  BY <1>3 DEF ValidateApisixJsonSchema, Validate
<1>5. \A p \in DOMAIN c.plugins : \E n \in DOMAIN order : order[n] = p
  BY <1>4 DEF Orders
<1>6. \A p \in DOMAIN c.plugins : PluginPasses(k.kind, p, c.plugins[p])
  BY <1>4, <1>5 DEF PluginsPass
<1> QED BY <1>6 DEF PluginsFit, PluginPasses

(* Of the keys of one id the last is listed.                               *)
LEMMA LastStands ==
    ASSUME NEW S, \A k \in S : k.id \in ResourceIds, NEW k \in S
    PROVE  Stands(k, ById(S))
<1> DEFINE N == Cardinality(ResourceIds)
           C == {j \in S : ValueId(j) = ValueId(k)}
           T == {N - Rank[j.id] : j \in C}
<1>1. N \in Nat /\ \A j \in S : Rank[j.id] \in 1..N
  BY NamesAssumption, FS_CardinalityType
<1> HIDE DEF N
<1>2. T \subseteq Nat /\ T # {}
  BY <1>1
<1>3. PICK n \in T : \A m \in T : ~(<<m, n>> \in OpToRel(<, Nat))
  <2> HIDE DEF T
  <2> QED BY <1>2, WFMin, NatLessThanWellFounded
<1>4. \A m \in T : ~(m < n)
  BY <1>2, <1>3 DEF OpToRel
<1>5. PICK j \in C : n = N - Rank[j.id]
  OBVIOUS
<1>6. \A i \in C : Rank[i.id] <= Rank[j.id]
  BY <1>1, <1>4, <1>5
<1>7. ValueId(j) = ValueId(k) /\ \A i \in S : ValueId(i) = ValueId(j) => i \in C
  OBVIOUS
<1>8. j \in ById(S)
  BY <1>5, <1>6, <1>7 DEF ById
<1>9. Rank[k.id] <= Rank[j.id]
  BY <1>6
<1> QED BY <1>7, <1>8, <1>9 DEF Stands

(* A map filled with the keys of one kind of a stage.                      *)
LEMMA MapIs ==
    ASSUME KeysOK, NEW s, NEW kind \in {"route", "service"}
    PROVE  OncePerId(Own(s, kind), ById(Own(s, kind)))
<1> DEFINE own == Own(s, kind)
<1>1. own \subseteq kvs /\ \A k \in own : k \in Keys /\ k.stage = s /\ k.kind = kind
  BY DEF Own, KeysOK
<1>2. \A k \in own : k.id \in ResourceIds
  BY <1>1, KeyIs
<1>3. \A j, k \in own : Rank[j.id] \in Nat /\ (Rank[j.id] = Rank[k.id] => j = k)
  <2>1. \A j, k \in own : j.id = k.id => j = k
    BY <1>1 DEF KeysOK
  <2>2. Cardinality(ResourceIds) \in Nat
    BY NamesAssumption, FS_CardinalityType
  <2> QED BY <1>2, <2>1, <2>2, NamesAssumption
<1> HIDE DEF own
<1>4. ById(own) \subseteq own
  BY DEF ById
<1>5. \A k \in own : Stands(k, ById(own))
  BY <1>2, LastStands
<1>6. \A j, k \in ById(own) : ValueId(j) = ValueId(k) => j = k
  <2> SUFFICES ASSUME NEW j \in ById(own), NEW k \in ById(own), ValueId(j) = ValueId(k)
               PROVE  j = k
    OBVIOUS
  <2>1. Rank[j.id] <= Rank[k.id] /\ Rank[k.id] <= Rank[j.id]
    BY DEF ById
  <2> QED BY <1>3, <1>4, <2>1
<1>7. ASSUME \A k \in own : k.value.id = SameId PROVE ById(own) = own
  <2>1. ASSUME NEW j \in own, NEW k \in own, ValueId(j) = ValueId(k)
        PROVE  Rank[j.id] <= Rank[k.id]
    <3>1. <<j.stage, j.id>> = <<k.stage, k.id>>
      BY <1>7, <2>1 DEF ValueId
    <3> QED BY <1>3, <3>1
  <2> QED BY <2>1 DEF ById
<1> QED BY <1>4, <1>5, <1>6, <1>7 DEF OncePerId, own

(* A listing of a stage.                                                   *)
LEMMA ListingIs ==
    ASSUME KeysOK, NEW s \in Stages, ListStageResources(s).ok
    PROVE  /\ \A k \in kvs : (k.stage = s /\ k.kind \in SupportResourceTypeMap) => Accepted(k)
           /\ ListStageResources(s).routes = ById(Own(s, "route"))
           /\ ListStageResources(s).services = ById(Own(s, "service"))
<1> DEFINE S == {k \in kvs : k.stage = s}
           R == {k \in S : k.kind \in SupportResourceTypeMap}
<1>1. InStage(s) = S
  BY InStageIs
<1>2. Relevant(S) = R
  BY DEF Relevant
<1>3. ListStageResources(s) =
          IF \A k \in R : Accepted(k) THEN Found(R) ELSE Failed
  BY <1>1, <1>2 DEF ListStageResources, ValueToStageResource
<1>4. \A k \in R : Accepted(k)
  BY <1>3 DEF Failed
<1>5. OfKind(R, "route") = Own(s, "route") /\ OfKind(R, "service") = Own(s, "service")
  BY DEF OfKind, Own, SupportResourceTypeMap
<1>6. /\ Found(R).routes = ById(OfKind(R, "route"))
      /\ Found(R).services = ById(OfKind(R, "service"))
  BY DEF Found
<1>7. \A k \in kvs : (k.stage = s /\ k.kind \in SupportResourceTypeMap) => Accepted(k)
  BY <1>4
<1> HIDE DEF R
<1> QED BY <1>3, <1>4, <1>5, <1>6, <1>7

LEMMA GlobalListingIs ==
    ASSUME KeysOK, ListGlobalResources.ok
    PROVE  /\ ListGlobalResources.metadata = {k \in kvs : k.stage = Global}
           /\ \A k \in ListGlobalResources.metadata : PluginsFit(k)
<1> DEFINE S == {k \in kvs : k.stage = Global}
<1>1. InStage(Global) = S
  BY InStageIs
<1>2. ListGlobalResources =
          IF \A k \in S : k \in Relevant(S) /\ Accepted(k)
          THEN [ok |-> TRUE, metadata |-> OfKind(S, "plugin_metadata")] ELSE Failed
  BY <1>1 DEF ListGlobalResources, ValueToGlobalResource
<1>3. \A k \in S : Accepted(k)
  BY <1>2 DEF Failed
<1>4. ListGlobalResources.metadata = {k \in S : k.kind = "plugin_metadata"}
  BY <1>2, <1>3 DEF OfKind, Failed
<1>5. \A k \in S : k.kind = "plugin_metadata"
  BY <1>3 DEF Accepted, Extracted
<1>6. \A k \in S : PluginsFit(k)
  BY <1>3, <1>5, AcceptedFits DEF KeysOK
<1> QED BY <1>4, <1>5, <1>6

LEMMA VersionInfoIs ==
    ASSUME KeysOK, NEW s \in Stages, StageReleaseVersion(s).ok
    PROVE  StageReleaseVersion(s).release \in Own(s, "_bk_release")
<1> DEFINE S == {x \in OfKind(InStage(s), "_bk_release") : IsPrefix(ReleaseId, x.id)}
           k == CHOOSE x \in S : Extracted(x)
<1>1. StageReleaseVersion(s) =
          IF \E x \in S : Extracted(x) THEN [ok |-> TRUE, release |-> k] ELSE Failed
  BY DEF StageReleaseVersion
<1>2. \E x \in S : Extracted(x)
  BY <1>1 DEF Failed
<1>3. k \in S /\ StageReleaseVersion(s).release = k
  BY <1>1, <1>2
<1>4. InStage(s) = {x \in kvs : x.stage = s}
  BY InStageIs
<1>5. S \subseteq Own(s, "_bk_release")
  BY <1>4 DEF OfKind, Own
<1> QED BY <1>3, <1>5

LEMMA KeysInvariant == ListingSpec => []KeysOK
<1>1. ListingInit => KeysOK
  BY DEF ListingInit, KeysOK
<1>2. ASSUME KeysOK, [ListingNext]_kvs PROVE KeysOK'
  <2>1. ASSUME NEW k \in Keys, PutKey(k) PROVE KeysOK'
    <3>1. kvs' = {o \in kvs : <<o.stage, o.kind, o.id>> # <<k.stage, k.kind, k.id>>} \union {k}
      BY <2>1 DEF PutKey
    <3> QED BY <1>2, <3>1 DEF KeysOK
  <2>2. ASSUME NEW k \in kvs, DeleteKey(k) PROVE KeysOK'
    BY <1>2, <2>2 DEF DeleteKey, KeysOK
  <2>3. CASE UNCHANGED kvs
    BY <1>2, <2>3 DEF KeysOK
  <2> QED BY <1>2, <2>1, <2>2, <2>3 DEF ListingNext
<1> QED BY <1>1, <1>2, PTL DEF ListingSpec

(* For all names, also those that begin with one another, all ids of keys  *)
(* and of values and all values: a listing of a stage holds nothing of     *)
(* another stage and no plugin its schema refuses, and what it leaves out  *)
(* of the stage is another key of the same kind and the same id in the     *)
(* value than a later one that it holds; else there is no listing.  The    *)
(* release and the global resources are listed in full.                    *)
THEOREM ListingCompleteOrError == ListingSpec => []CompleteOrError
<1>1. ASSUME KeysOK PROVE CompleteOrError
  <2>1. ASSUME NEW s \in Stages, ListStageResources(s).ok
        PROVE  /\ OncePerId(Own(s, "route"), ListStageResources(s).routes)
               /\ OncePerId(Own(s, "service"), ListStageResources(s).services)
               /\ \A k \in Own(s, "route") \union Own(s, "service") : PluginsFit(k)
    <3>1. \A k \in Own(s, "route") \union Own(s, "service") :
              k \in Keys /\ k.kind \in {"route", "service"} /\ Accepted(k)
      BY <1>1, <2>1, ListingIs DEF Own, KeysOK, SupportResourceTypeMap
    <3>2. /\ ListStageResources(s).routes = ById(Own(s, "route"))
          /\ ListStageResources(s).services = ById(Own(s, "service"))
      BY <1>1, <2>1, ListingIs
    <3> QED BY <1>1, <3>1, <3>2, MapIs, AcceptedFits
  <2>2. \A s \in Stages : StageReleaseVersion(s).ok =>
            StageReleaseVersion(s).release \in Own(s, "_bk_release")
    BY <1>1, VersionInfoIs
  <2> QED BY <1>1, <2>1, <2>2, GlobalListingIs DEF CompleteOrError
<1> QED BY <1>1, KeysInvariant, PTL
=============================================================================
