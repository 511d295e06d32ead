--------------------------- MODULE SortedDataFeed ---------------------------
(***************************************************************************)
(* datahub::sorted_data_feed (src/src/datahub/data_feed.hpp), the          *)
(* incremental feed behind public trades, private orders and private       *)
(* trades.                                                                 *)
(*                                                                         *)
(* Two threads touch a feed.  The strand of the data_dispatcher runs the   *)
(* acceptor: it filters a batch, merges it record by record into the       *)
(* cache and pushes one snapshot or one increment to the subscribers.  The *)
(* caller of subscribe() and the owner of a subscription are the GUI       *)
(* thread.  The feed has no lock, so with SameThread = FALSE the loop      *)
(* iterations of the acceptor and the two halves of subscribe() interleave.*)
(* SameThread = TRUE is the use the datahub tests make of a feed: every    *)
(* call on one thread.                                                     *)
(*                                                                         *)
(* A record is its sort field and its key field; a batch is a sequence of  *)
(* records.  Each deque or list operation is one step; a read torn by a    *)
(* concurrent deque operation is not modelled.                             *)
(***************************************************************************)
EXTENDS Naturals, Sequences, SequencesExt

CONSTANTS
  Sort,         (* values of the SortField: timestamps                     *)
  Key,          (* values of the KeyField: execution or order ids          *)
  Matching,     (* the records the feed's data_condition accepts           *)
  Batch,        (* the batches a source may hand to the acceptor           *)
  Subscriber,   (* subscriptions                                           *)
  SameThread,   (* subscribe() is called on the acceptor's thread          *)
  MaxCache      (* bound: no batch that could outgrow it is offered        *)

Record == [sort : Sort, key : Key]

ASSUME SortAssumption == Sort \subseteq Nat
ASSUME MatchingAssumption == Matching \subseteq Record
ASSUME BatchAssumption == Batch \subseteq Seq(Record)
ASSUME SameThreadAssumption == SameThread \in BOOLEAN
ASSUME MaxCacheAssumption == MaxCache \in Nat

VARIABLES
  cache,             (* m_cache                                            *)
  subscriptions,     (* m_subscriptions: the weak_ptrs, in order           *)
  held,              (* subscriptions whose owner keeps the shared_ptr     *)
  subscribing,       (* subscribers inside subscribe(), snapshot served    *)
  pc,                (* the acceptor: idle, in its loop, or pushing        *)
  incoming,          (* records of the batch still to be merged            *)
  update,            (* update_kind of the running acceptor call           *)
  inserted,          (* its count of inserted records                      *)
  first_update_idx,  (* where the appended tail starts, 0-based            *)
  push_pos,          (* position of the push loop in m_subscriptions       *)
  view,              (* what each subscriber rebuilt from its callbacks    *)
  offered,           (* history: every matching record handed in           *)
  base               (* history: the cache when the acceptor was entered   *)

feed == <<cache, incoming, update, inserted, first_update_idx>>
vars == <<feed, subscriptions, held, subscribing, pc, push_pos, view,
          offered, base>>

-----------------------------------------------------------------------------
(* The acceptor.                                                           *)

(* The lazy filter view over a batch: the positions whose records match the *)
(* condition, in order.                                                    *)
FilterView(batch) ==
  { f \in UNION {[1..n -> DOMAIN batch] : n \in 0..Len(batch)} :
      /\ \A i, j \in DOMAIN f : i < j => f[i] < f[j]
      /\ Range(f) = {i \in DOMAIN batch : batch[i] \in Matching} }

(* The reverse scan stops at p: nothing from p on sorts before r, and p is *)
(* the first such position.                                                *)
ScanStopsAt(s, r, p) ==
  /\ p \in 1..Len(s) + 1
  /\ \A i \in p..Len(s) : ~(s[i].sort < r.sort)
  /\ p > 1 => s[p - 1].sort < r.sort

(* Mutation: insert before the element that stopped the scan.              *)
InsertionPointBeforeStop(s, r, p) ==
  ScanStopsAt(s, r, p + 1) \/ (p = 1 /\ ScanStopsAt(s, r, p))

InsertionPoint(s, r, p) == ScanStopsAt(s, r, p)

(* Mutations: compare the sort key only, or stop one element short.       *)
MetDuplicateIgnoringKey(s, r, p) == \E i \in p..Len(s) : s[i].sort = r.sort
MetDuplicatePastStop(s, r, p) == \E i \in p + 1..Len(s) : s[i] = r

(* An exact duplicate met on the way to p.                                 *)
MetDuplicate(s, r, p) == \E i \in p..Len(s) : s[i] = r

(* The record sorts at or after the tail: drop a re-send of the tail, else  *)
(* append, remembering where the appended window starts.                   *)
AppendAfter(r, window_start) ==
  /\ ~(r.sort < Last(cache).sort)
  /\ \/ /\ r = Last(cache)
        /\ UNCHANGED <<cache, update, inserted, first_update_idx>>
     \/ /\ r # Last(cache)
        /\ first_update_idx' = window_start
        /\ cache' = Append(cache, r)
        /\ inserted' = inserted + 1
        /\ UNCHANGED update

(* Mutation: every append restarts the window.                             *)
TailAppendRestartingWindow(r) == AppendAfter(r, Len(cache))

TailAppend(r) ==
  AppendAfter(r, IF inserted = 0 THEN Len(cache) ELSE first_update_idx)

(* The record sorts before the tail: find its place, drop it if its         *)
(* duplicate was met on the way, else insert and resync the subscribers.    *)
InsertBefore(r, kind) ==
  /\ r.sort < Last(cache).sort
  /\ \E p \in 1..Len(cache) + 1 :
       /\ InsertionPoint(cache, r, p)
       /\ \/ /\ MetDuplicate(cache, r, p)
             /\ UNCHANGED <<cache, update, inserted>>
          \/ /\ ~MetDuplicate(cache, r, p)
             /\ cache' = InsertAt(cache, p, r)
             /\ update' = kind
             /\ inserted' = inserted + 1
  /\ UNCHANGED first_update_idx

(* Mutation: a late record is announced like an appended one.              *)
OutOfOrderAsIncrement(r) == InsertBefore(r, update)

OutOfOrder(r) == InsertBefore(r, "snapshot")

(* Entry of the acceptor: an empty cache takes the whole batch as it comes. *)
Accept(batch) ==
  /\ pc = "idle"
  /\ SameThread => subscribing = {}
  /\ Len(cache) + Len(batch) <= MaxCache
  /\ \E f \in FilterView(batch) :
       LET in == [i \in DOMAIN f |-> batch[f[i]]] IN
       /\ in # <<>>
       /\ offered' = offered \cup ToSet(in)
       /\ \/ /\ cache = <<>>
             /\ cache' = in
             /\ incoming' = <<>>
             /\ update' = "snapshot"
             /\ inserted' = Len(in)
             /\ pc' = "push"
          \/ /\ cache # <<>>
             /\ incoming' = in
             /\ update' = "increment"
             /\ inserted' = 0
             /\ pc' = "merge"
             /\ UNCHANGED cache
  /\ base' = cache
  /\ first_update_idx' = 0
  /\ push_pos' = 1
  /\ UNCHANGED <<subscriptions, held, subscribing, view>>

(* One iteration of the merge loop.                                        *)
MergeOne ==
  /\ pc = "merge"
  /\ incoming # <<>>
  /\ TailAppend(Head(incoming)) \/ OutOfOrder(Head(incoming))
  /\ incoming' = Tail(incoming)
  /\ UNCHANGED <<subscriptions, held, subscribing, pc, push_pos, view, offered,
                 base>>

(* The end of the loop: push if anything was inserted.                     *)
MergeDone ==
  /\ pc = "merge"
  /\ incoming = <<>>
  /\ pc' = IF inserted > 0 THEN "push" ELSE "idle"
  /\ UNCHANGED <<feed, subscriptions, held, subscribing, push_pos, view, offered,
                 base>>

-----------------------------------------------------------------------------
(* The push loops.                                                         *)

(* What a callback leaves the subscriber with: a snapshot replaces what it  *)
(* had, an increment [first, last) is appended to it.                       *)
Delivered(old) ==
  IF update = "snapshot" THEN cache
  ELSE old \o SubSeq(cache, first_update_idx + 1, Len(cache))

(* Mutation: the loop steps past an erased element as well.                *)
PushOneSkippingAfterErase ==
  /\ pc = "push"
  /\ push_pos <= Len(subscriptions)
  /\ push_pos' = push_pos + 1
  /\ LET s == subscriptions[push_pos] IN
     \/ /\ s \in held
        /\ view' = [view EXCEPT ![s] = Delivered(@)]
        /\ UNCHANGED subscriptions
     \/ /\ s \notin held
        /\ subscriptions' = RemoveAt(subscriptions, push_pos)
        /\ UNCHANGED view
  /\ UNCHANGED <<feed, held, subscribing, pc, offered, base>>

(* One iteration: call a live subscriber, or erase an expired weak_ptr.    *)
PushOne ==
  /\ pc = "push"
  /\ push_pos <= Len(subscriptions)
  /\ LET s == subscriptions[push_pos] IN
     \/ /\ s \in held
        /\ view' = [view EXCEPT ![s] = Delivered(@)]
        /\ push_pos' = push_pos + 1
        /\ UNCHANGED subscriptions
     \/ /\ s \notin held
        /\ subscriptions' = RemoveAt(subscriptions, push_pos)
        /\ UNCHANGED <<view, push_pos>>
  /\ UNCHANGED <<feed, held, subscribing, pc, offered, base>>

PushDone ==
  /\ pc = "push"
  /\ push_pos > Len(subscriptions)
  /\ pc' = "idle"
  /\ UNCHANGED <<feed, subscriptions, held, subscribing, push_pos, view, offered,
                 base>>

-----------------------------------------------------------------------------
(* subscribe() and the owner of the subscription.                          *)

(* Mutation: subscribe() only registers.                                   *)
SubscribeWithoutSnapshot(s) ==
  /\ s \notin subscribing
  /\ s \notin ToSet(subscriptions)
  /\ SameThread => pc = "idle" /\ subscribing = {}
  /\ subscribing' = subscribing \cup {s}
  /\ UNCHANGED <<feed, subscriptions, held, pc, push_pos, view, offered, base>>

(* The first half of subscribe(): serve the cache, if there is one and the  *)
(* subscription is still alive.  A caller subscribes an object once.        *)
SubscribeSnapshot(s) ==
  /\ s \notin subscribing
  /\ s \notin ToSet(subscriptions)
  /\ SameThread => pc = "idle" /\ subscribing = {}
  /\ view' = IF cache # <<>> /\ s \in held
             THEN [view EXCEPT ![s] = cache]
             ELSE view
  /\ subscribing' = subscribing \cup {s}
  /\ UNCHANGED <<feed, subscriptions, held, pc, push_pos, offered, base>>

(* The second half: emplace_back on the list.                              *)
SubscribeAdd(s) ==
  /\ s \in subscribing
  /\ subscriptions' = Append(subscriptions, s)
  /\ subscribing' = subscribing \ {s}
  /\ UNCHANGED <<feed, held, pc, push_pos, view, offered, base>>

(* The owner lets the shared_ptr go.                                       *)
Drop(s) ==
  /\ s \in held
  /\ held' = held \ {s}
  /\ UNCHANGED <<feed, subscriptions, subscribing, pc, push_pos, view, offered,
                 base>>

-----------------------------------------------------------------------------
Init ==
  /\ cache = <<>>
  /\ subscriptions = <<>>
  /\ held = Subscriber
  /\ subscribing = {}
  /\ pc = "idle"
  /\ incoming = <<>>
  /\ update = "increment"
  /\ inserted = 0
  /\ first_update_idx = 0
  /\ push_pos = 1
  /\ view = [s \in Subscriber |-> <<>>]
  /\ offered = {}
  /\ base = <<>>

Next ==
  \/ \E batch \in Batch : Accept(batch)
  \/ MergeOne
  \/ MergeDone
  \/ PushOne
  \/ PushDone
  \/ \E s \in Subscriber : SubscribeSnapshot(s)
  \/ \E s \in Subscriber : SubscribeAdd(s)
  \/ \E s \in Subscriber : Drop(s)

Spec == Init /\ [][Next]_vars

(* Once entered, the acceptor and subscribe() run to their end: they are    *)
(* loops and straight-line code with no wait in them.  Nothing obliges a    *)
(* source to send or an owner to let go.                                    *)
Fairness ==
  /\ WF_vars(MergeOne \/ MergeDone \/ PushOne \/ PushDone)
  /\ \A s \in Subscriber : WF_vars(SubscribeAdd(s))

FairSpec == Spec /\ Fairness

-----------------------------------------------------------------------------
(* Properties.                                                             *)

Sorted(s) == \A i, j \in DOMAIN s : i < j => s[i].sort <= s[j].sort

TypeOK ==
  /\ cache \in Seq(Record)
  /\ subscriptions \in Seq(Subscriber)
  /\ held \subseteq Subscriber
  /\ subscribing \subseteq Subscriber
  /\ pc \in {"idle", "merge", "push"}
  /\ incoming \in Seq(Record)
  /\ update \in {"snapshot", "increment"}
  /\ inserted \in Nat
  /\ first_update_idx \in 0..Len(cache)
  /\ push_pos \in 1..Len(subscriptions) + 1
  /\ view \in [Subscriber -> Seq(Record)]
  /\ offered \subseteq Record
  /\ base \in Seq(Record)

(* DATAHUB-031, DATAHUB-034: no record is lost by the merge, whatever the   *)
(* order of arrival and however many records share its sort value: all that *)
(* was handed in is in the cache or still to be merged.                     *)
NothingLost == offered = ToSet(cache) \cup ToSet(incoming)

(* "The cache is kept sorted" (data_feed.hpp:111): from a sorted cache no    *)
(* step of the merge, append or late insertion, leaves an unsorted one.      *)
StaysSorted == [][cache # <<>> /\ Sorted(cache) => Sorted(cache')]_vars

(* A late insertion, which costs every subscriber a full resync, only       *)
(* happens for a record the sorted cache does not hold: the reverse scan    *)
(* cannot step over its duplicate.                                          *)
LateInsertIsNew ==
  [][ pc = "merge" /\ Sorted(cache) /\ Len(cache') > Len(cache)
        /\ SubSeq(cache', 1, Len(cache)) # cache
      => Head(incoming) \notin ToSet(cache) ]_vars

(* DATAHUB-032, DATAHUB-035: outside the acceptor, what a live registered   *)
(* subscriber reconstructed from snapshots and increments is the cache,     *)
(* record for record.                                                       *)
ViewsCurrent ==
  pc = "idle" => \A s \in ToSet(subscriptions) \cap held : view[s] = cache

(* Every record accepted reaches, eventually, each subscriber that is       *)
(* registered and stays alive.                                              *)
EventuallyDelivered ==
  \A s \in Subscriber, r \in Record :
    r \in offered /\ s \in ToSet(subscriptions)
      ~> s \notin held \/ r \in ToSet(view[s])

(* The feed implements the contract: a publication is the moment the push   *)
(* starts; until then the subscribers' log is the cache the acceptor found. *)
Attached == ToSet(subscriptions) \cap held

Contract ==
  INSTANCE FeedContract WITH
    log      <- IF pc = "merge" THEN base ELSE cache,
    attached <- Attached,
    view     <- [s \in Subscriber |-> IF s \in Attached THEN view[s] ELSE <<>>],
    stale    <- { s \in Attached : pc = "push" /\
                    \E i \in push_pos..Len(subscriptions) : subscriptions[i] = s }

ImplementsContract == Contract!Spec

(* The inductive strengthening of ViewsCurrent for SameThread = TRUE.       *)

(* The running call only grows the cache it found, and as long as it would  *)
(* announce an increment it left that cache alone as a prefix.              *)
GrownFromBase ==
  pc # "idle" =>
    /\ Len(cache) = Len(base) + inserted
    /\ ToSet(base) \subseteq ToSet(cache)
    /\ inserted = 0 => cache = base
    /\ update = "increment" /\ inserted > 0 =>
         /\ first_update_idx = Len(base)
         /\ \A i \in DOMAIN base : cache[i] = base[i]

(* Subscribers before the push position hold the new cache, those from it   *)
(* on the one the call started from.                                        *)
ViewsDuringPush ==
  /\ pc = "merge" => push_pos = 1
  /\ \A i \in DOMAIN subscriptions :
       subscriptions[i] \in held =>
         view[subscriptions[i]] =
           IF pc = "idle" \/ (pc = "push" /\ i < push_pos) THEN cache ELSE base

SubscriptionsDistinct ==
  /\ \A i, j \in DOMAIN subscriptions :
       i # j => subscriptions[i] # subscriptions[j]
  /\ subscribing \cap ToSet(subscriptions) = {}

SubscribingIsServed ==
  /\ subscribing # {} => pc = "idle"
  /\ \A s \in subscribing \cap held : view[s] = cache
  /\ \A s, t \in subscribing : s = t

NothingSeenBeforeFirstBatch ==
  /\ cache = <<>> => view = [s \in Subscriber |-> <<>>]
  /\ pc # "idle" => cache # <<>> /\ (pc = "push" => inserted > 0)

DeliveryInv ==
  /\ TypeOK
  /\ GrownFromBase
  /\ ViewsDuringPush
  /\ SubscriptionsDistinct
  /\ SubscribingIsServed
  /\ NothingSeenBeforeFirstBatch

=============================================================================
