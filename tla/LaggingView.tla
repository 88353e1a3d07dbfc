---------------------------- MODULE LaggingView -----------------------------
(***************************************************************************)
(* What a watcher of etcd promises to those who read its copy: the copy    *)
(* goes through the states of etcd in their order.  It lags by the events  *)
(* of feed, and now and then it skips some or all of them.  This           *)
(* is how ApisixStore sees the registries it diffs against.                *)
(***************************************************************************)
EXTENDS Naturals, Sequences

CONSTANTS
    Ids, Values, Nil,
    Copied    \* the keys the promise is about

VARIABLES
    store,    \* [Ids -> Values or Nil]: etcd
    view,     \* [Copied -> Values or Nil]: the copy
    feed      \* Seq of [id, r]: writes the copy has not seen

Init == /\ store = [id \in Ids |-> Nil]
        /\ view = [id \in Copied |-> Nil]
        /\ feed = <<>>

Write(id, r) ==
    /\ store' = [store EXCEPT ![id] = r]
    /\ feed' = Append(feed, [id |-> id, r |-> r])
    /\ UNCHANGED view

(* The last of the first n writes to a key, if there is one.               *)
After(n, id) ==
    LET S == {i \in 1..n : feed[i].id = id}
    IN  IF S = {} THEN view[id] ELSE feed[CHOOSE i \in S : \A j \in S : j <= i].r

Deliver ==
    \E n \in 1..Len(feed) :
        /\ view' = [id \in Copied |-> After(n, id)]
        /\ feed' = SubSeq(feed, n + 1, Len(feed))
        /\ UNCHANGED store

FullSync ==
    /\ view' = [id \in Copied |-> store[id]]
    /\ feed' = <<>>
    /\ UNCHANGED store

Next == (\E id \in Ids, r \in Values \union {Nil} : Write(id, r)) \/ Deliver \/ FullSync

Spec == Init /\ [][Next]_<<store, view, feed>>
=============================================================================
