------------------------------ MODULE EtcdLog -------------------------------
(***************************************************************************)
(* An etcd key range as its watchers see it (external: go.etcd.io/etcd).   *)
(* A revision is the number of writes so far; writes outside the range,    *)
(* which have revisions too, are left out.  A watch delivers the events    *)
(* from its start revision on, in responses of one or more events, the     *)
(* last or not of those there are; it is cancelled when the history it     *)
(* still needs has been compacted.                                         *)
(***************************************************************************)
EXTENDS Naturals, Sequences

CONSTANTS
    Ids,             \* keys of the range
    Values,          \* values a key may hold
    Nil,             \* no value
    MaxWrites, MaxCompactions    \* bounds of the exploration

ASSUME NilAssumption == Nil \notin Values

VARIABLES
    store,           \* [Ids -> Values or Nil]: the newest state
    log,             \* Seq of [id, r, prev]: event n has revision n
    compacted,       \* a watch cannot start below this revision
    compactions      \* bound counter

etcdVars == <<store, log, compacted, compactions>>

Newest  == Len(log)                                 \* Header.Revision
Some    == Values \union {Nil}
Events  == [id : Ids, r : Some, prev : Some]

(* The revision in the header of a response whose last event is n: that of *)
(* the event, or, for a watch that catches up and gets a part of what it   *)
(* has missed, the newest one.                                             *)
HeaderOf(n, h) == h \in {n, Newest}

(* The value before revision n is compacted away: "kept" is the oldest     *)
(* revision whose values are there.                                        *)
ValueGone(n, kept) == n - 1 < kept

Write(id, r) ==
    /\ Len(log) < MaxWrites
    /\ r # Nil \/ store[id] # Nil                   \* deleting nothing is no event
    /\ store' = [store EXCEPT ![id] = r]
    /\ log' = Append(log, [id |-> id, r |-> r, prev |-> store[id]])
    /\ UNCHANGED <<compacted, compactions>>

Compact(n) ==
    /\ compactions < MaxCompactions
    /\ n \in compacted + 1..Newest
    /\ compacted' = n
    /\ compactions' = compactions + 1
    /\ UNCHANGED <<store, log>>

EtcdInit ==
    /\ store = [id \in Ids |-> Nil]
    /\ log = <<>>
    /\ compacted = 0 /\ compactions = 0

EtcdStep ==
    \/ \E id \in Ids, r \in Some : Write(id, r)
    \/ \E n \in 1..Newest : Compact(n)

EtcdTypeOK ==
    /\ store \in [Ids -> Some]
    /\ log \in Seq(Events)
    /\ compacted \in 0..Len(log)
    /\ compactions \in Nat
=============================================================================
