---------------------------- MODULE SnapshotFeed ----------------------------
(***************************************************************************)
(* datahub::sorted_snapshot_data_feed (order book levels) and              *)
(* datahub::keyed_snapshot_data_feed (instruments), from                   *)
(* src/src/datahub/data_feed.hpp.  The two classes differ in how a batch is *)
(* merged into the cache; both tell their subscribers of a change with the  *)
(* whole cache.  Calls of a feed do not overlap here: SortedDataFeed has    *)
(* the interleavings of subscribe() with an acceptor.                      *)
(***************************************************************************)
EXTENDS Integers, Sequences, SequencesExt, SeqFilter

CONSTANTS
  Sort,         (* values of the SortField; any payload for a keyed feed   *)
  Key,          (* values of the KeyField                                  *)
  Matching,     (* the records the feed's data_condition accepts           *)
  Batch,        (* batches, of which a sorted feed is handed the sorted     *)
  Subscriber,
  MaxCache      (* bound: no batch that could outgrow it is offered        *)

Record == [sort : Sort, key : Key]

SortOf(r) == r.sort
KeyOf(r) == r.key

INSTANCE SnapshotMerge WITH SortField <- SortOf, KeyField <- KeyOf

ASSUME SortAssumption == Sort \subseteq Int
ASSUME BatchAssumption == Batch \subseteq Seq(Record)
ASSUME MatchingAssumption == Matching \subseteq Record

VARIABLES
  kind,           (* the class of the feed: sorted or keyed                *)
  cache,          (* m_cache                                               *)
  subscriptions,  (* m_subscriptions                                       *)
  held,           (* subscriptions whose owner keeps the shared_ptr        *)
  view,           (* the last snapshot each subscriber was handed          *)
  seen,           (* history: the matching records handed in               *)
  latest          (* history: the last record handed in for each key       *)

vars == <<kind, cache, subscriptions, held, view, seen, latest>>

Init ==
  /\ kind \in {"sorted", "keyed"}
  /\ cache = <<>>
  /\ subscriptions = <<>>
  /\ held = Subscriber
  /\ view = [s \in Subscriber |-> <<>>]
  /\ seen = {}
  /\ latest = <<>>

Ascending(s) == \A i, j \in DOMAIN s : i < j => s[i].sort <= s[j].sort

Merge(s, in) == IF kind = "sorted" THEN SortedMerge(s, in) ELSE KeyedMerge(s, in)

(* The last record of a batch with a key that it has; and the last record   *)
(* handed in for each key, after one more batch.                           *)
LastWith(k, in) == in[SelectLastInSeq(in, LAMBDA r : r.key = k)]

LatestAfter(before, in) ==
  [k \in {r.key : r \in ToSet(in)} \cup DOMAIN before |->
     IF \E r \in ToSet(in) : r.key = k THEN LastWith(k, in) ELSE before[k]]

(* Every live subscriber is handed the cache, the expired ones are erased.   *)
PushToSubscriptions(full) ==
  /\ subscriptions' = Only(subscriptions, held)
  /\ view' = [s \in Subscriber |->
                IF s \in held \cap ToSet(subscriptions) THEN full ELSE view[s]]

(* Mutation: nobody is told of a record that took the place of another.     *)
TellOfGrowth(m) ==
  \/ Len(m.cache) > Len(cache) /\ PushToSubscriptions(m.cache)
  \/ Len(m.cache) = Len(cache) /\ UNCHANGED <<subscriptions, view>>

Tell(m) ==
  \/ m.changed /\ PushToSubscriptions(m.cache)
  \/ ~m.changed /\ UNCHANGED <<subscriptions, view>>

(* The view of the batch the data_condition lets through.                  *)
Filtered(batch) == Only(batch, Matching)

(* The acceptor: filter, merge, and tell the subscribers if anything changed. *)
Accept(batch) ==
  LET in == Filtered(batch)
      m  == Merge(cache, in) IN
  /\ kind = "sorted" => Ascending(batch)
  /\ Len(cache) + Len(batch) <= MaxCache
  /\ seen' = seen \cup ToSet(in)
  /\ latest' = LatestAfter(latest, in)
  /\ cache' = m.cache
  /\ Tell(m)
  /\ UNCHANGED <<kind, held>>

(* A caller subscribes an object once.                                     *)
Subscribe(s) ==
  /\ s \notin ToSet(subscriptions)
  /\ view' = IF cache # <<>> /\ s \in held THEN [view EXCEPT ![s] = cache] ELSE view
  /\ subscriptions' = Append(subscriptions, s)
  /\ UNCHANGED <<kind, cache, held, seen, latest>>

Drop(s) ==
  /\ s \in held
  /\ held' = held \ {s}
  /\ UNCHANGED <<kind, cache, subscriptions, view, seen, latest>>

Next ==
  \/ \E batch \in Batch : Accept(batch)
  \/ \E s \in Subscriber : Subscribe(s)
  \/ \E s \in Subscriber : Drop(s)

Spec == Init /\ [][Next]_vars

-----------------------------------------------------------------------------
(* Properties.                                                             *)

TypeOK ==
  /\ kind \in {"sorted", "keyed"}
  /\ cache \in Seq(Matching)
  /\ subscriptions \in Seq(Subscriber)
  /\ held \subseteq Subscriber
  /\ view \in [Subscriber -> Seq(Matching)]
  /\ seen \subseteq Matching
  /\ \A k \in DOMAIN latest : k \in Key /\ latest[k] \in Matching

(* Every change, in place ones included, reaches every live subscriber: what*)
(* it holds is the cache (DATAHUB-041, 042, 045, 052 to 055).               *)
SnapshotsCurrent ==
  \A s \in ToSet(subscriptions) \cap held : view[s] = cache

(* For the sorted feed and batches that are sorted themselves: the single   *)
(* forward pass keeps the cache sorted, ties included.                      *)
CacheSorted == kind = "sorted" => Ascending(cache)

(* ... and it passes over no record on its way: what was handed in is there.*)
NothingLost == kind = "sorted" => ToSet(cache) = seen

(* The type invariant and what the one-pass merge owes the sorted feed.     *)
CacheInv == TypeOK /\ CacheSorted /\ NothingLost

(* For the keyed feed: each key has one record, the last one handed in for  *)
(* it, wherever in its batch and however often the key was repeated.        *)
LatestPerKey ==
  kind = "keyed" =>
    /\ \A i, j \in DOMAIN cache : i # j => cache[i].key # cache[j].key
    /\ ToSet(cache) = Range(latest)

(* ... and an update never moves a record: subscribers that index into the  *)
(* snapshot find a key where it was.                                        *)
PositionsStable ==
  [][kind = "keyed" =>
       \A i \in DOMAIN cache : i \in DOMAIN cache' /\ cache'[i].key = cache[i].key]_vars

=============================================================================
