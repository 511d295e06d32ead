------------------------ MODULE SortedDataFeedProofs ------------------------
(***************************************************************************)
(* Proofs about SortedDataFeed, for every set of records, batches and      *)
(* subscribers: what the cache holds and in which order, what each          *)
(* subscriber has been told, and, in the last part, that the feed used from *)
(* one thread implements FeedContract.                                     *)
(***************************************************************************)
EXTENDS SortedDataFeed, SeqEditTheorems

-----------------------------------------------------------------------------
(* The filter view of a batch is a sequence of records.                    *)
LEMMA FilterViewType ==
  ASSUME NEW batch \in Batch, NEW f \in FilterView(batch)
  PROVE  [i \in DOMAIN f |-> batch[f[i]]] \in Seq(Record)
<1>1. batch \in Seq(Record)  BY BatchAssumption
<1>2. PICK n \in 0..Len(batch) : f \in [1..n -> DOMAIN batch]
  BY DEF FilterView
<1>3. n \in Nat  BY <1>1, <1>2, LenProperties
<1>4. \A i \in 1..n : batch[f[i]] \in Record
  BY <1>1, <1>2, LenProperties, ElementOfSeq
<1>5. [i \in 1..n |-> batch[f[i]]] \in Seq(Record)
  BY <1>3, <1>4, IsASeq
<1>6. QED  BY <1>2, <1>5

(* What one loop iteration does to the cache: nothing, or one more record. *)
LEMMA MergeGrowth ==
  ASSUME TypeOK, incoming # <<>>,
         NEW r, r = Head(incoming),
         TailAppend(r) \/ OutOfOrder(r)
  PROVE  /\ r \in Record
         /\ update' \in {update, "snapshot"}
         /\ first_update_idx' \in 0..Len(cache')
         /\ \/ /\ UNCHANGED <<cache, inserted, update, first_update_idx>>
               /\ r \in ToSet(cache) \/ cache = <<>>
            \/ /\ cache' = Append(cache, r)
               /\ ~(r.sort < Last(cache).sort)
               /\ inserted' = inserted + 1
               /\ update' = update
               /\ first_update_idx' = IF inserted = 0 THEN Len(cache)
                                      ELSE first_update_idx
            \/ /\ \E p \in 1..Len(cache) + 1 :
                    /\ InsertionPoint(cache, r, p)
                    /\ ~MetDuplicate(cache, r, p)
                    /\ cache' = InsertAt(cache, p, r)
               /\ inserted' = inserted + 1
               /\ update' = "snapshot"
         /\ cache' \in Seq(Record)
         /\ inserted' \in Nat
<1>1. r \in Record  BY HeadTailProperties DEF TypeOK
<1>2. /\ cache \in Seq(Record)
      /\ Len(cache) \in Nat
      /\ inserted \in Nat
      /\ first_update_idx \in 0..Len(cache)
  BY LenProperties DEF TypeOK
<1>3. CASE TailAppend(r)
  <2>1. CASE r = Last(cache) /\ UNCHANGED <<cache, update, inserted, first_update_idx>>
    BY <1>1, <1>2, <2>1, ToSetProperties
  <2>2. CASE /\ ~(r.sort < Last(cache).sort)
             /\ first_update_idx' = IF inserted = 0 THEN Len(cache)
                                    ELSE first_update_idx
             /\ cache' = Append(cache, r)
             /\ inserted' = inserted + 1
             /\ UNCHANGED update
    <3>1. cache' \in Seq(Record) /\ Len(cache') = Len(cache) + 1
      BY <1>1, <1>2, <2>2, AppendProperties
    <3>2. first_update_idx' \in 0..Len(cache')  BY <1>2, <2>2, <3>1
    <3>3. QED  BY <1>1, <1>2, <2>2, <3>1, <3>2
  <2>3. QED  BY <1>3, <2>1, <2>2 DEF TailAppend, AppendAfter
<1>4. CASE OutOfOrder(r)
  <2>1. PICK p \in 1..Len(cache) + 1 :
          /\ InsertionPoint(cache, r, p)
          /\ \/ /\ MetDuplicate(cache, r, p)
                /\ UNCHANGED <<cache, update, inserted>>
             \/ /\ ~MetDuplicate(cache, r, p)
                /\ cache' = InsertAt(cache, p, r)
                /\ update' = "snapshot"
                /\ inserted' = inserted + 1
    BY <1>4 DEF OutOfOrder, InsertBefore
  <2>2. first_update_idx' = first_update_idx
    BY <1>4 DEF OutOfOrder, InsertBefore
  <2>3. CASE MetDuplicate(cache, r, p) /\ UNCHANGED <<cache, update, inserted>>
    <3>1. r \in ToSet(cache)
      BY <1>2, <2>3, ToSetProperties DEF MetDuplicate
    <3>2. QED  BY <1>1, <1>2, <2>2, <2>3, <3>1
  <2>4. CASE /\ ~MetDuplicate(cache, r, p)
             /\ cache' = InsertAt(cache, p, r)
             /\ update' = "snapshot"
             /\ inserted' = inserted + 1
    <3>1. cache' \in Seq(Record) /\ Len(cache') = Len(cache) + 1
      BY <1>1, <1>2, <2>4, InsertAtProperties
    <3>2. first_update_idx' \in 0..Len(cache')  BY <1>2, <2>2, <3>1
    <3>3. QED  BY <1>1, <1>2, <2>1, <2>4, <3>1, <3>2
  <2>5. QED  BY <2>1, <2>3, <2>4
<1>5. QED  BY <1>3, <1>4

-----------------------------------------------------------------------------
(* Type correctness, the iterator ranges included: the window announced by  *)
(* an increment and the position of the push loop are always inside their   *)
(* containers.                                                             *)
LEMMA InitType == Init => TypeOK
BY EmptySeq DEF Init, TypeOK

LEMMA NextType == TypeOK /\ [Next]_vars => TypeOK'
<1> SUFFICES ASSUME TypeOK, [Next]_vars  PROVE TypeOK'
  OBVIOUS
<1>1. ASSUME NEW batch \in Batch, Accept(batch)  PROVE TypeOK'
  <2>1. PICK f \in FilterView(batch) :
          LET in == [i \in DOMAIN f |-> batch[f[i]]] IN
          /\ offered' = offered \cup ToSet(in)
          /\ \/ /\ cache' = in
                /\ incoming' = <<>>
                /\ update' = "snapshot"
                /\ inserted' = Len(in)
                /\ pc' = "push"
             \/ /\ incoming' = in
                /\ update' = "increment"
                /\ inserted' = 0
                /\ pc' = "merge"
                /\ UNCHANGED cache
    BY <1>1 DEF Accept
  <2> DEFINE in == [i \in DOMAIN f |-> batch[f[i]]]
  <2>2. /\ in \in Seq(Record)
        /\ Len(in) \in Nat
        /\ ToSet(in) \subseteq Record
    BY FilterViewType, LenProperties, ToSetProperties
  <2>3. /\ offered' = offered \cup ToSet(in)
        /\ \/ /\ cache' = in
              /\ incoming' = <<>>
              /\ update' = "snapshot"
              /\ inserted' = Len(in)
              /\ pc' = "push"
           \/ /\ incoming' = in
              /\ update' = "increment"
              /\ inserted' = 0
              /\ pc' = "merge"
              /\ UNCHANGED cache
    BY <2>1
  <2> HIDE DEF in
  <2>4. /\ offered' \subseteq Record
        /\ cache' \in Seq(Record)
        /\ incoming' \in Seq(Record)
        /\ update' \in {"snapshot", "increment"}
        /\ inserted' \in Nat
        /\ pc' \in {"idle", "merge", "push"}
    <3>1. <<>> \in Seq(Record)  BY EmptySeq
    <3>2. offered' \subseteq Record  BY <2>2, <2>3 DEF TypeOK
    <3>3. cache' \in Seq(Record)  BY <2>2, <2>3 DEF TypeOK
    <3>4. incoming' \in Seq(Record)  BY <2>2, <2>3, <3>1
    <3>5. /\ update' \in {"snapshot", "increment"}
          /\ inserted' \in Nat
          /\ pc' \in {"idle", "merge", "push"}
      BY <2>2, <2>3
    <3>6. QED  BY <3>2, <3>3, <3>4, <3>5
  <2>5. /\ base' = cache
        /\ first_update_idx' = 0
        /\ push_pos' = 1
        /\ UNCHANGED <<subscriptions, held, subscribing, view>>
    BY <1>1 DEF Accept
  <2>6. first_update_idx' \in 0..Len(cache') /\ push_pos' \in 1..Len(subscriptions') + 1
    BY <2>4, <2>5, LenProperties DEF TypeOK
  <2>7. QED  BY <2>4, <2>5, <2>6 DEF TypeOK
<1>2. CASE MergeOne
  <2>1. incoming # <<>> /\ incoming' = Tail(incoming)
        /\ UNCHANGED <<subscriptions, held, subscribing, pc, push_pos, view,
                       offered, base>>
    BY <1>2 DEF MergeOne
  <2>2. /\ update' \in {update, "snapshot"}
        /\ first_update_idx' \in 0..Len(cache')
        /\ cache' \in Seq(Record)
        /\ inserted' \in Nat
    BY <1>2, MergeGrowth DEF MergeOne
  <2>3. incoming' \in Seq(Record)  BY <2>1, HeadTailProperties DEF TypeOK
  <2>4. QED  BY <2>1, <2>2, <2>3 DEF TypeOK
<1>3. CASE MergeDone
  BY <1>3 DEF MergeDone, TypeOK, feed
<1>4. CASE PushOne
  <2> DEFINE s == subscriptions[push_pos]
  <2>1. /\ push_pos \in 1..Len(subscriptions)
        /\ UNCHANGED <<feed, held, subscribing, pc, offered, base>>
        /\ s \in Subscriber
        /\ Len(subscriptions) \in Nat
    BY <1>4, ElementOfSeq, LenProperties DEF PushOne, TypeOK
  <2>2. CASE /\ s \in held
             /\ view' = [view EXCEPT ![s] = Delivered(@)]
             /\ push_pos' = push_pos + 1
             /\ UNCHANGED subscriptions
    <3>1. SubSeq(cache, first_update_idx + 1, Len(cache)) \in Seq(Record)
      <4>1. /\ first_update_idx + 1 \in Int
            /\ Len(cache) \in Int
            /\ \A i \in first_update_idx + 1..Len(cache) : cache[i] \in Record
        BY LenProperties, ElementOfSeq DEF TypeOK
      <4>2. QED  BY <4>1, SubSeqProperties
    <3>2. Delivered(view[s]) \in Seq(Record)
      BY <2>1, <3>1, ConcatProperties DEF Delivered, TypeOK
    <3>3. view' \in [Subscriber -> Seq(Record)]
      BY <2>1, <2>2, <3>2 DEF TypeOK
    <3>4. QED  BY <2>1, <2>2, <3>3 DEF TypeOK, feed
  <2>3. CASE /\ subscriptions' = RemoveAt(subscriptions, push_pos)
             /\ UNCHANGED <<view, push_pos>>
    <3>1. /\ subscriptions' \in Seq(Subscriber)
          /\ Len(subscriptions') = Len(subscriptions) - 1
      BY <2>1, <2>3, RemoveAtProperties DEF TypeOK
    <3>2. push_pos' \in 1..Len(subscriptions') + 1
      BY <2>1, <2>3, <3>1 DEF TypeOK
    <3>3. QED  BY <2>1, <2>3, <3>1, <3>2 DEF TypeOK, feed
  <2>4. QED  BY <1>4, <2>2, <2>3 DEF PushOne
<1>5. CASE PushDone
  BY <1>5 DEF PushDone, TypeOK, feed
<1>6. ASSUME NEW s \in Subscriber, SubscribeSnapshot(s)  PROVE TypeOK'
  <2>1. view' \in [Subscriber -> Seq(Record)]
    BY <1>6 DEF SubscribeSnapshot, TypeOK
  <2>2. QED  BY <1>6, <2>1 DEF SubscribeSnapshot, TypeOK, feed
<1>7. ASSUME NEW s \in Subscriber, SubscribeAdd(s)  PROVE TypeOK'
  <2>1. subscriptions' \in Seq(Subscriber) /\ Len(subscriptions') = Len(subscriptions) + 1
    BY <1>7, AppendProperties DEF SubscribeAdd, TypeOK
  <2>2. push_pos' \in 1..Len(subscriptions') + 1
    BY <1>7, <2>1, LenProperties DEF SubscribeAdd, TypeOK
  <2>3. QED  BY <1>7, <2>1, <2>2 DEF SubscribeAdd, TypeOK, feed
<1>8. ASSUME NEW s \in Subscriber, Drop(s)  PROVE TypeOK'
  BY <1>8 DEF Drop, TypeOK, feed
<1>9. CASE UNCHANGED vars
  BY <1>9 DEF vars, feed, TypeOK
<1>10. QED
  BY <1>1, <1>2, <1>3, <1>4, <1>5, <1>6, <1>7, <1>8, <1>9 DEF Next

THEOREM TypeCorrect == Spec => []TypeOK
<1>1. QED  BY InitType, NextType, PTL DEF Spec

-----------------------------------------------------------------------------
(* No record is lost.  Inductive with two facts about the acceptor: outside *)
(* its loop nothing is left to merge, and the loop only runs on a cache     *)
(* that has a tail to compare with.                                        *)
LoopInv ==
  /\ pc # "merge" => incoming = <<>>
  /\ pc = "merge" => cache # <<>>

LossInv == TypeOK /\ LoopInv /\ NothingLost

LEMMA InitLoss == Init => LossInv
BY InitType DEF Init, LossInv, LoopInv, NothingLost, ToSet

LEMMA NextLoss == LossInv /\ [Next]_vars => LossInv'
<1> SUFFICES ASSUME LossInv, [Next]_vars  PROVE LossInv'
  OBVIOUS
<1>0. TypeOK /\ TypeOK'  BY NextType DEF LossInv
<1> SUFFICES (LoopInv /\ NothingLost)'
  BY <1>0 DEF LossInv
<1> USE DEF LossInv, LoopInv, NothingLost
<1>1. ASSUME NEW batch \in Batch, Accept(batch)
      PROVE  (LoopInv /\ NothingLost)'
  <2> DEFINE in(f) == [i \in DOMAIN f |-> batch[f[i]]]
  <2>1. PICK f \in FilterView(batch) :
          /\ in(f) # <<>>
          /\ offered' = offered \cup ToSet(in(f))
          /\ \/ /\ cache = <<>>
                /\ cache' = in(f)
                /\ incoming' = <<>>
                /\ pc' = "push"
             \/ /\ cache # <<>>
                /\ incoming' = in(f)
                /\ pc' = "merge"
                /\ UNCHANGED cache
    BY <1>1 DEF Accept
  <2> HIDE DEF in
  <2>2. incoming = <<>>  BY <1>1 DEF Accept
  <2>3. ToSet(<<>>) = {}  BY DEF ToSet
  <2>4. offered = ToSet(cache)  BY <2>2, <2>3
  <2>5. CASE cache = <<>> /\ cache' = in(f) /\ incoming' = <<>> /\ pc' = "push"
    BY <2>1, <2>3, <2>4, <2>5
  <2>6. CASE cache # <<>> /\ incoming' = in(f) /\ pc' = "merge" /\ UNCHANGED cache
    BY <2>1, <2>4, <2>6
  <2>7. QED  BY <2>1, <2>5, <2>6
<1>2. CASE MergeOne
  <2> DEFINE r == Head(incoming)
  <2>1. /\ pc = "merge" /\ incoming # <<>> /\ cache # <<>>
        /\ TailAppend(r) \/ OutOfOrder(r)
        /\ incoming' = Tail(incoming)
        /\ UNCHANGED <<pc, offered>>
    BY <1>2 DEF MergeOne
  <2>2. ToSet(incoming) = ToSet(incoming') \cup {r}
    BY <1>0, <2>1, ToSetGrowth, HeadTailProperties DEF TypeOK
  <2>3. r \in Record /\ cache \in Seq(Record)
    BY <1>0, <2>1, HeadTailProperties DEF TypeOK
  <2> HIDE DEF r
  <2>4. ToSet(cache') = ToSet(cache) \cup {r} /\ cache' # <<>>
    <3>1. CASE cache' = cache /\ r \in ToSet(cache)
      BY <2>1, <3>1
    <3>2. CASE cache' = Append(cache, r)
      BY <2>3, <3>2, ToSetGrowth, AppendProperties
    <3>3. CASE \E p \in 1..Len(cache) + 1 : cache' = InsertAt(cache, p, r)
      <4>1. PICK p \in 1..Len(cache) + 1 : cache' = InsertAt(cache, p, r)
        BY <3>3
      <4>2. ToSet(cache') = ToSet(cache) \cup {r}
        BY <2>3, <4>1, ToSetGrowth
      <4>3. cache' # <<>>
        BY <2>3, <4>1, InsertAtProperties, LenProperties, EmptySeq
      <4>4. QED  BY <4>2, <4>3
    <3>4. QED
      BY <1>0, <2>1, <3>1, <3>2, <3>3, MergeGrowth DEF r
  <2>5. QED  BY <2>1, <2>2, <2>4
<1>3. CASE MergeDone  BY <1>3 DEF MergeDone, feed
<1>4. CASE PushOne  BY <1>4 DEF PushOne, feed
<1>5. CASE PushDone  BY <1>5 DEF PushDone, feed
<1>6. ASSUME NEW s \in Subscriber,
             SubscribeSnapshot(s) \/ SubscribeAdd(s) \/ Drop(s)
      PROVE  (LoopInv /\ NothingLost)'
  BY <1>6 DEF SubscribeSnapshot, SubscribeAdd, Drop, feed
<1>7. CASE UNCHANGED vars  BY <1>7 DEF vars, feed
<1>8. QED
  BY <1>1, <1>2, <1>3, <1>4, <1>5, <1>6, <1>7 DEF Next

LEMMA LossInvariant == Spec => []LossInv
<1>1. QED  BY InitLoss, NextLoss, PTL DEF Spec

(* Every matching record ever handed to the acceptor is in the cache or     *)
(* still in the batch being merged (data_feed.hpp, the loop at line 115).   *)
THEOREM NothingIsLost == Spec => []NothingLost
<1>1. LossInv => NothingLost  BY DEF LossInv
<1>2. QED  BY <1>1, LossInvariant, PTL

-----------------------------------------------------------------------------
(* The order of the cache.                                                 *)

(* Sorted, by positions.                                                   *)
LEMMA SortedByPosition ==
  ASSUME NEW s \in Seq(Record)
  PROVE  /\ Sorted(s) <=> \A i, j \in 1..Len(s) : i < j => s[i].sort <= s[j].sort
         /\ \A i \in 1..Len(s) : s[i] \in Record /\ s[i].sort \in Nat
<1>1. DOMAIN s = 1..Len(s)  BY LenProperties
<1>2. ASSUME NEW i \in 1..Len(s)  PROVE s[i] \in Record /\ s[i].sort \in Nat
  <2>1. s[i] \in Record  BY ElementOfSeq
  <2>2. QED  BY <2>1, SortAssumption DEF Record
<1>3. QED  BY <1>1, <1>2 DEF Sorted

LEMMA SortedAppend ==
  ASSUME NEW s \in Seq(Record), NEW r \in Record,
         s # <<>>, Sorted(s), ~(r.sort < Last(s).sort)
  PROVE  Sorted(Append(s, r))
<1> DEFINE t == Append(s, r)
<1>1. /\ t \in Seq(Record)
      /\ Len(t) = Len(s) + 1
      /\ \A i \in 1..Len(s) : t[i] = s[i]
      /\ t[Len(s) + 1] = r
  BY AppendProperties
<1>2. Len(s) \in Nat /\ Len(s) > 0 /\ Last(s) = s[Len(s)]
  BY ToSetProperties, LenProperties
<1>3. r.sort \in Nat  BY SortAssumption DEF Record
<1> HIDE DEF t
<1>4. ASSUME NEW i \in 1..Len(t), NEW j \in 1..Len(t), i < j
      PROVE  t[i].sort <= t[j].sort
  <2>1. i \in 1..Len(s) /\ t[i] = s[i]  BY <1>1, <1>2, <1>4
  <2>2. CASE j \in 1..Len(s)
    BY <1>1, <1>4, <2>1, <2>2, SortedByPosition
  <2>3. CASE j = Len(s) + 1
    <3>1. s[i].sort <= s[Len(s)].sort
      BY <1>2, <2>1, SortedByPosition
    <3>2. s[Len(s)].sort <= r.sort
      BY <1>2, <1>3, SortedByPosition
    <3>3. s[i].sort \in Nat /\ s[Len(s)].sort \in Nat
      BY <1>2, <2>1, SortedByPosition
    <3>4. s[i].sort <= r.sort  BY <3>1, <3>2, <3>3, <1>3
    <3>5. QED  BY <1>1, <2>1, <2>3, <3>4
  <2>4. QED  BY <1>1, <1>2, <2>2, <2>3
<1>5. QED  BY <1>1, <1>4, SortedByPosition DEF t

LEMMA SortedInsert ==
  ASSUME NEW s \in Seq(Record), NEW r \in Record,
         NEW p \in 1..Len(s) + 1, Sorted(s), ScanStopsAt(s, r, p)
  PROVE  Sorted(InsertAt(s, p, r))
<1> DEFINE t == InsertAt(s, p, r)
<1> HIDE DEF t
<1>1. /\ t \in Seq(Record)
      /\ Len(t) = Len(s) + 1
      /\ \A i \in 1..Len(s) + 1 :
           t[i] = IF i < p THEN s[i] ELSE IF i = p THEN r ELSE s[i - 1]
  <2>1. s \in Seq(Record) /\ p \in 1..Len(s) + 1 /\ r \in Record  OBVIOUS
  <2>2. QED  BY ONLY <2>1, InsertAtProperties DEF t
<1>2. Len(s) \in Nat  BY LenProperties
<1>3. r.sort \in Nat  BY SortAssumption DEF Record
<1>4. \A i \in 1..Len(s) : s[i].sort \in Nat  BY SortedByPosition
<1>5. \A i, j \in 1..Len(s) : i < j => s[i].sort <= s[j].sort
  BY SortedByPosition
<1>6. \A i \in 1..Len(s) : i < p => s[i].sort <= r.sort
  <2> SUFFICES ASSUME NEW i \in 1..Len(s), i < p  PROVE s[i].sort <= r.sort
    OBVIOUS
  <2>1. p - 1 \in 1..Len(s) /\ s[p - 1].sort < r.sort
    BY <1>2 DEF ScanStopsAt
  <2>2. s[i].sort <= s[p - 1].sort  BY <1>2, <1>4, <1>5, <2>1
  <2>3. QED  BY <1>3, <1>4, <2>1, <2>2
<1>7. \A i \in 1..Len(s) : i >= p => r.sort <= s[i].sort
  <2> SUFFICES ASSUME NEW i \in 1..Len(s), i >= p  PROVE r.sort <= s[i].sort
    OBVIOUS
  <2>1. ~(s[i].sort < r.sort)  BY <1>2 DEF ScanStopsAt
  <2>2. QED  BY <1>3, <1>4, <2>1
<1>8. ASSUME NEW i \in 1..Len(t), NEW j \in 1..Len(t), i < j
      PROVE  t[i].sort <= t[j].sort
  <2>1. CASE j < p
    <3>1. t[i] = s[i] /\ t[j] = s[j] /\ i \in 1..Len(s) /\ j \in 1..Len(s)
      BY <1>1, <1>2, <1>8, <2>1
    <3>2. QED  BY <1>5, <1>8, <3>1
  <2>2. CASE j = p
    <3>1. t[i] = s[i] /\ t[j] = r /\ i \in 1..Len(s)
      BY <1>1, <1>2, <1>8, <2>2
    <3>2. QED  BY <1>6, <1>8, <2>2, <3>1
  <2>3. CASE j > p /\ i < p
    <3>1. t[i] = s[i] /\ t[j] = s[j - 1] /\ i \in 1..Len(s) /\ j - 1 \in 1..Len(s)
      BY <1>1, <1>2, <1>8, <2>3
    <3>2. s[i].sort <= r.sort /\ r.sort <= s[j - 1].sort
      BY <1>2, <1>6, <1>7, <2>3, <3>1
    <3>3. QED  BY <1>3, <1>4, <3>1, <3>2
  <2>4. CASE j > p /\ i = p
    <3>1. t[i] = r /\ t[j] = s[j - 1] /\ j - 1 \in 1..Len(s)
      BY <1>1, <1>2, <1>8, <2>4
    <3>2. r.sort <= s[j - 1].sort  BY <1>2, <1>7, <2>4, <3>1
    <3>3. QED  BY <3>1, <3>2
  <2>5. CASE j > p /\ i > p
    <3>1. /\ t[i] = s[i - 1] /\ t[j] = s[j - 1]
          /\ i - 1 \in 1..Len(s) /\ j - 1 \in 1..Len(s) /\ i - 1 < j - 1
      BY <1>1, <1>2, <1>8, <2>5
    <3>2. QED  BY <1>5, <3>1
  <2>6. QED  BY <1>1, <1>2, <2>1, <2>2, <2>3, <2>4, <2>5
<1>9. QED  BY <1>1, <1>8, SortedByPosition DEF t

(* The reverse scan over a sorted cache meets every duplicate.             *)
LEMMA ScanMeetsDuplicate ==
  ASSUME NEW s \in Seq(Record), NEW r \in Record,
         NEW p \in 1..Len(s) + 1, Sorted(s), ScanStopsAt(s, r, p),
         r \in ToSet(s)
  PROVE  MetDuplicate(s, r, p)
<1>1. PICK i \in 1..Len(s) : s[i] = r  BY ToSetProperties
<1>2. Len(s) \in Nat /\ r.sort \in Nat
  BY LenProperties, SortAssumption DEF Record
<1>3. CASE i >= p  BY <1>1, <1>2, <1>3 DEF MetDuplicate
<1>4. CASE i < p
  <2>1. p - 1 \in 1..Len(s) /\ s[p - 1].sort < r.sort
    BY <1>1, <1>2, <1>4 DEF ScanStopsAt
  <2>2. s[i].sort <= s[p - 1].sort
    <3>1. CASE i = p - 1  BY <3>1, <2>1, SortedByPosition
    <3>2. CASE i < p - 1  BY <3>2, <2>1, SortedByPosition
    <3>3. QED  BY <1>2, <1>4, <3>1, <3>2
  <2>3. s[p - 1].sort \in Nat  BY <2>1, SortedByPosition
  <2>4. QED  BY <1>1, <1>2, <2>1, <2>2, <2>3
<1>5. QED  BY <1>2, <1>3, <1>4

LEMMA StepOrder ==
  ASSUME TypeOK, [Next]_vars, cache # <<>>, Sorted(cache)
  PROVE  /\ Sorted(cache')
         /\ pc = "merge" /\ Len(cache') > Len(cache)
              /\ SubSeq(cache', 1, Len(cache)) # cache
            => Head(incoming) \notin ToSet(cache)
<1>1. CASE MergeOne
  <2> DEFINE r == Head(incoming)
  <2>1. incoming # <<>> /\ (TailAppend(r) \/ OutOfOrder(r))
    BY <1>1 DEF MergeOne
  <2>2. cache \in Seq(Record) /\ r \in Record /\ Len(cache) \in Nat
    BY <2>1, HeadTailProperties, LenProperties DEF TypeOK
  <2> HIDE DEF r
  <2>3. CASE cache' = cache  BY <2>2, <2>3
  <2>4. CASE cache' = Append(cache, r) /\ ~(r.sort < Last(cache).sort)
    <3>1. Sorted(cache')  BY <2>2, <2>4, SortedAppend
    <3>2. SubSeq(cache', 1, Len(cache)) = cache
      <4>1. /\ cache' \in Seq(Record)
            /\ Len(cache') = Len(cache) + 1
            /\ \A i \in 1..Len(cache) : cache'[i] = cache[i]
        BY <2>2, <2>4, AppendProperties
      <4>2. \A i \in 1..Len(cache) : cache'[i] \in Record
        BY <4>1, <2>2, ElementOfSeq
      <4>3. 1 \in Int /\ Len(cache) \in Int /\ Len(cache) > 0
        BY <2>2, ToSetProperties
      <4>4. /\ SubSeq(cache', 1, Len(cache)) \in Seq(Record)
            /\ Len(SubSeq(cache', 1, Len(cache)))
                 = IF 1 <= Len(cache) THEN Len(cache) - 1 + 1 ELSE 0
            /\ \A i \in 1..Len(cache) - 1 + 1 :
                 SubSeq(cache', 1, Len(cache))[i] = cache'[1 + i - 1]
        BY <4>2, <4>3, SubSeqProperties
      <4>5. QED  BY <2>2, <4>1, <4>3, <4>4, SeqEqual
    <3>3. QED  BY <3>1, <3>2
  <2>5. CASE \E p \in 1..Len(cache) + 1 :
               /\ InsertionPoint(cache, r, p)
               /\ ~MetDuplicate(cache, r, p)
               /\ cache' = InsertAt(cache, p, r)
    <3>1. PICK p \in 1..Len(cache) + 1 :
               /\ InsertionPoint(cache, r, p)
               /\ ~MetDuplicate(cache, r, p)
               /\ cache' = InsertAt(cache, p, r)
      BY <2>5
    <3>2. ScanStopsAt(cache, r, p)  BY <3>1 DEF InsertionPoint
    <3>3. Sorted(cache')  BY <2>2, <3>1, <3>2, SortedInsert
    <3>4. r \notin ToSet(cache)
      BY <2>2, <3>1, <3>2, ScanMeetsDuplicate
    <3>5. QED  BY <3>3, <3>4 DEF r
  <2>6. QED  BY <2>1, <2>3, <2>4, <2>5, MergeGrowth DEF r
<1>2. CASE UNCHANGED cache
  <2>1. Len(cache') = Len(cache) /\ Len(cache) \in Nat
    BY <1>2, LenProperties DEF TypeOK
  <2>2. QED  BY <1>2, <2>1 DEF Sorted
<1>3. MergeOne \/ UNCHANGED cache
  BY DEF Next, vars, feed, Accept, MergeDone, PushOne, PushDone,
         SubscribeSnapshot, SubscribeAdd, Drop
<1>4. QED  BY <1>1, <1>2, <1>3

(* The merge keeps a sorted cache sorted, appends and late insertions alike. *)
THEOREM CacheStaysSorted == Spec => StaysSorted
<1>1. TypeOK /\ [Next]_vars
        => [cache # <<>> /\ Sorted(cache) => Sorted(cache')]_vars
  BY StepOrder
<1>2. QED  BY <1>1, TypeCorrect, PTL DEF Spec, StaysSorted

(* A full resync is never caused by a record the cache already has.        *)
THEOREM LateInsertsAreNew == Spec => LateInsertIsNew
<1>1. TypeOK /\ [Next]_vars
        => [ pc = "merge" /\ Sorted(cache) /\ Len(cache') > Len(cache)
               /\ SubSeq(cache', 1, Len(cache)) # cache
             => Head(incoming) \notin ToSet(cache) ]_vars
  <2> SUFFICES ASSUME TypeOK, [Next]_vars, pc = "merge", Sorted(cache),
                      Len(cache') > Len(cache),
                      SubSeq(cache', 1, Len(cache)) # cache
               PROVE  Head(incoming) \notin ToSet(cache)
    OBVIOUS
  <2>1. CASE cache # <<>>  BY <2>1, StepOrder
  <2>2. CASE cache = <<>>  BY <2>2 DEF ToSet
  <2>3. QED  BY <2>1, <2>2
<1>2. QED  BY <1>1, TypeCorrect, PTL DEF Spec, LateInsertIsNew

-----------------------------------------------------------------------------
(* Delivery, when every call is made on one thread.                        *)

(* An increment completes what a subscriber had to the whole cache.        *)
LEMMA IncrementCompletes ==
  ASSUME TypeOK, GrownFromBase, pc # "idle", inserted > 0
  PROVE  Delivered(base) = cache
<1>1. CASE update = "snapshot"  BY <1>1 DEF Delivered
<1>2. CASE update = "increment"
  <2> DEFINE tail == SubSeq(cache, first_update_idx + 1, Len(cache))
  <2>1. /\ cache \in Seq(Record) /\ base \in Seq(Record)
        /\ Len(cache) \in Nat /\ Len(base) \in Nat
        /\ Len(base) <= Len(cache)
        /\ DOMAIN base = 1..Len(base)
        /\ first_update_idx = Len(base)
        /\ \A i \in 1..Len(base) : cache[i] = base[i]
    <3>1. /\ cache \in Seq(Record) /\ base \in Seq(Record)
          /\ inserted \in Nat
      BY DEF TypeOK
    <3>2. /\ Len(cache) \in Nat /\ Len(base) \in Nat
          /\ DOMAIN base = 1..Len(base)
      BY <3>1, LenProperties
    <3>3. /\ Len(cache) = Len(base) + inserted
          /\ first_update_idx = Len(base)
          /\ \A i \in DOMAIN base : cache[i] = base[i]
      BY <1>2 DEF GrownFromBase
    <3>4. QED  BY <3>1, <3>2, <3>3
  <2>2. /\ tail \in Seq(Record)
        /\ Len(tail) = Len(cache) - Len(base)
        /\ \A i \in 1..Len(cache) - Len(base) : tail[i] = cache[Len(base) + i]
    <3>1. \A i \in Len(base) + 1..Len(cache) : cache[i] \in Record
      BY <2>1, ElementOfSeq
    <3>2. Len(base) + 1 \in Int /\ Len(cache) \in Int  BY <2>1
    <3>3. /\ tail \in Seq(Record)
          /\ Len(tail) = IF Len(base) + 1 <= Len(cache)
                         THEN Len(cache) - (Len(base) + 1) + 1 ELSE 0
          /\ \A i \in 1..Len(cache) - (Len(base) + 1) + 1 :
               tail[i] = cache[(Len(base) + 1) + i - 1]
      BY <2>1, <3>1, <3>2, SubSeqProperties
    <3>4. QED  BY <2>1, <3>3
  <2> HIDE DEF tail
  <2>3. /\ base \o tail \in Seq(Record)
        /\ Len(base \o tail) = Len(base) + Len(tail)
        /\ \A i \in 1..Len(base) + Len(tail) :
             (base \o tail)[i] = IF i <= Len(base) THEN base[i]
                                 ELSE tail[i - Len(base)]
    BY <2>1, <2>2, ConcatProperties
  <2>4. Len(base \o tail) = Len(cache)  BY <2>1, <2>2, <2>3
  <2>5. ASSUME NEW i \in 1..Len(cache)  PROVE (base \o tail)[i] = cache[i]
    <3>1. CASE i <= Len(base)  BY <2>1, <2>3, <2>4, <3>1
    <3>2. CASE i > Len(base)
      <4>1. i - Len(base) \in 1..Len(cache) - Len(base)  BY <2>1, <3>2
      <4>2. tail[i - Len(base)] = cache[Len(base) + (i - Len(base))]
        BY <2>2, <4>1
      <4>3. Len(base) + (i - Len(base)) = i /\ ~(i <= Len(base))
        BY <2>1, <3>2
      <4>4. (base \o tail)[i] = tail[i - Len(base)]
        BY <2>3, <2>4, <4>3
      <4>5. QED  BY <4>2, <4>3, <4>4
    <3>3. i <= Len(base) \/ i > Len(base)  BY <2>1
    <3>4. QED  BY <3>1, <3>2, <3>3
  <2>6. base \o tail = cache  BY <2>1, <2>3, <2>4, <2>5, SeqEqual
  <2>7. QED  BY <1>2, <2>6 DEF Delivered, tail
<1>3. QED  BY <1>1, <1>2 DEF TypeOK

LEMMA InitDelivery == Init => DeliveryInv
<1> SUFFICES ASSUME Init  PROVE DeliveryInv
  OBVIOUS
<1>1. TypeOK  BY InitType
<1>2. GrownFromBase /\ SubscribingIsServed /\ NothingSeenBeforeFirstBatch
  BY DEF Init, GrownFromBase, SubscribingIsServed, NothingSeenBeforeFirstBatch
<1>3. ViewsDuringPush /\ SubscriptionsDistinct
  BY DEF Init, ViewsDuringPush, SubscriptionsDistinct
<1>4. QED  BY <1>1, <1>2, <1>3 DEF DeliveryInv

(* Entering the acceptor.                                                  *)
LEMMA AcceptDelivery ==
  ASSUME SameThread, DeliveryInv, TypeOK', NEW batch \in Batch, Accept(batch)
  PROVE  DeliveryInv'
<1> DEFINE in(f) == [i \in DOMAIN f |-> batch[f[i]]]
<1>1. PICK f \in FilterView(batch) :
        /\ in(f) # <<>>
        /\ \/ /\ cache = <<>>
              /\ cache' = in(f)
              /\ update' = "snapshot"
              /\ inserted' = Len(in(f))
              /\ pc' = "push"
           \/ /\ cache # <<>>
              /\ update' = "increment"
              /\ inserted' = 0
              /\ pc' = "merge"
              /\ UNCHANGED cache
  BY DEF Accept
<1>2. in(f) \in Seq(Record)  BY FilterViewType
<1> HIDE DEF in
<1>3. Len(in(f)) \in Nat /\ Len(in(f)) > 0
  BY <1>1, <1>2, EmptySeq, LenProperties
<1>4. /\ pc = "idle" /\ subscribing = {}
      /\ base' = cache /\ push_pos' = 1
      /\ UNCHANGED <<subscriptions, held, subscribing, view>>
  BY DEF Accept
<1>5. GrownFromBase'
  <2>1. CASE cache = <<>>
    <3>1. Len(cache) = 0 /\ ToSet(cache) = {}  BY <2>1, EmptySeq DEF ToSet
    <3>2. /\ cache' = in(f) /\ update' = "snapshot" /\ inserted' = Len(in(f))
      BY <1>1, <2>1
    <3>3. QED  BY <1>3, <1>4, <3>1, <3>2 DEF GrownFromBase
  <2>2. CASE cache # <<>>
    <3>1. inserted' = 0 /\ cache' = cache  BY <1>1, <2>2
    <3>2. Len(cache) \in Nat  BY LenProperties DEF DeliveryInv, TypeOK
    <3>3. QED  BY <1>4, <3>1, <3>2 DEF GrownFromBase
  <2>3. QED  BY <2>1, <2>2
<1>6. ViewsDuringPush'
  <2>1. \A i \in DOMAIN subscriptions :
          subscriptions[i] \in held => view[subscriptions[i]] = cache
    BY <1>4 DEF DeliveryInv, ViewsDuringPush
  <2>2. \A i \in DOMAIN subscriptions : i >= 1
    BY LenProperties DEF DeliveryInv, TypeOK
  <2>3. pc' \in {"push", "merge"}  BY <1>1
  <2>4. \A i \in DOMAIN subscriptions : ~(i < 1)
    BY <2>2, LenProperties, SMTT(30) DEF DeliveryInv, TypeOK
  <2>5. QED  BY <1>4, <2>1, <2>3, <2>4 DEF ViewsDuringPush
<1>7. SubscriptionsDistinct' /\ SubscribingIsServed'
  BY <1>4 DEF DeliveryInv, SubscriptionsDistinct, SubscribingIsServed
<1>8. NothingSeenBeforeFirstBatch'
  BY <1>1, <1>3, <1>4 DEF NothingSeenBeforeFirstBatch
<1>9. QED  BY <1>5, <1>6, <1>7, <1>8 DEF DeliveryInv

(* One iteration of the merge loop.                                        *)
LEMMA MergeDelivery ==
  ASSUME DeliveryInv, TypeOK', MergeOne
  PROVE  DeliveryInv'
<1> DEFINE r == Head(incoming)
<1>1. /\ pc = "merge" /\ incoming # <<>> /\ TypeOK
      /\ TailAppend(r) \/ OutOfOrder(r)
      /\ UNCHANGED <<subscriptions, held, subscribing, pc, push_pos, view, base>>
  BY DEF MergeOne, DeliveryInv
<1> HIDE DEF r
<1>2. /\ cache \in Seq(Record) /\ base \in Seq(Record)
      /\ Len(cache) \in Nat /\ Len(base) \in Nat /\ inserted \in Nat
      /\ DOMAIN base = 1..Len(base)
      /\ Len(cache) = Len(base) + inserted
      /\ ToSet(base) \subseteq ToSet(cache)
      /\ inserted = 0 => cache = base
      /\ update = "increment" /\ inserted > 0 =>
           /\ first_update_idx = Len(base)
           /\ \A i \in 1..Len(base) : cache[i] = base[i]
  BY <1>1, LenProperties DEF DeliveryInv, TypeOK, GrownFromBase
<1>3. cache # <<>>  BY <1>1 DEF DeliveryInv, NothingSeenBeforeFirstBatch
<1>4. r \in Record  BY <1>1, MergeGrowth DEF r
<1>5. GrownFromBase' /\ cache' # <<>>
  <2>1. CASE UNCHANGED <<cache, inserted, update, first_update_idx>>
    BY <1>1, <1>2, <1>3, <2>1 DEF GrownFromBase
  <2>2. CASE /\ cache' = Append(cache, r)
             /\ inserted' = inserted + 1
             /\ update' = update
             /\ first_update_idx' = IF inserted = 0 THEN Len(cache)
                                    ELSE first_update_idx
    <3>1. /\ Len(cache') = Len(cache) + 1 /\ cache' # <<>>
          /\ \A i \in 1..Len(cache) : cache'[i] = cache[i]
      BY <1>2, <1>4, <2>2, AppendProperties
    <3>2. ToSet(cache') = ToSet(cache) \cup {r}
      BY <1>2, <1>4, <2>2, ToSetGrowth
    <3>3. Len(cache') = Len(base) + inserted' /\ inserted' # 0
      BY <1>2, <2>2, <3>1
    <3>4. ASSUME update' = "increment"
          PROVE  /\ first_update_idx' = Len(base)
                 /\ \A i \in 1..Len(base) : cache'[i] = base[i]
      <4>1. CASE inserted = 0  BY <1>2, <2>2, <3>1, <4>1
      <4>2. CASE inserted > 0
        <5>1. /\ first_update_idx' = Len(base)
              /\ \A i \in 1..Len(base) : cache[i] = base[i]
          BY <1>2, <2>2, <3>4, <4>2
        <5>2. \A i \in 1..Len(base) : i \in 1..Len(cache)  BY <1>2
        <5>3. QED  BY <3>1, <5>1, <5>2
      <4>3. QED  BY <1>2, <4>1, <4>2
    <3>5. QED  BY <1>1, <1>2, <3>1, <3>2, <3>3, <3>4 DEF GrownFromBase
  <2>3. CASE /\ \E p \in 1..Len(cache) + 1 : cache' = InsertAt(cache, p, r)
             /\ inserted' = inserted + 1
             /\ update' = "snapshot"
    <3>1. PICK p \in 1..Len(cache) + 1 : cache' = InsertAt(cache, p, r)
      BY <2>3
    <3>2. Len(cache') = Len(cache) + 1
      <4>1. cache \in Seq(Record) /\ r \in Record  BY <1>2, <1>4
      <4>2. Len(InsertAt(cache, p, r)) = Len(cache) + 1
        BY ONLY <4>1, p \in 1..Len(cache) + 1, InsertAtProperties
      <4>3. QED  BY <3>1, <4>2
    <3>3. ToSet(cache') = ToSet(cache) \cup {r}
      BY <1>2, <1>4, <3>1, ToSetGrowth
    <3>4. cache' # <<>>  BY <1>2, <3>2, EmptySeq
    <3>5. QED  BY <1>1, <1>2, <2>3, <3>2, <3>3, <3>4 DEF GrownFromBase
  <2>4. QED  BY <1>1, <2>1, <2>2, <2>3, MergeGrowth DEF r
<1>6. /\ ViewsDuringPush' /\ SubscriptionsDistinct' /\ SubscribingIsServed'
      /\ NothingSeenBeforeFirstBatch'
  <2>1. ViewsDuringPush'  BY <1>1 DEF DeliveryInv, ViewsDuringPush
  <2>2. SubscriptionsDistinct'  BY <1>1 DEF DeliveryInv, SubscriptionsDistinct
  <2>3. SubscribingIsServed'  BY <1>1 DEF DeliveryInv, SubscribingIsServed
  <2>4. NothingSeenBeforeFirstBatch'
    BY <1>1, <1>5 DEF DeliveryInv, NothingSeenBeforeFirstBatch
  <2>5. QED  BY <2>1, <2>2, <2>3, <2>4
<1>7. QED  BY <1>5, <1>6 DEF DeliveryInv

(* One iteration of the push loop.                                         *)
LEMMA PushDelivery ==
  ASSUME DeliveryInv, TypeOK', PushOne
  PROVE  DeliveryInv'
<1> DEFINE s == subscriptions[push_pos]
           n == Len(subscriptions)
<1>1. /\ pc = "push" /\ TypeOK
      /\ UNCHANGED <<cache, incoming, update, inserted, first_update_idx>>
      /\ UNCHANGED <<held, subscribing, pc, offered, base>>
      /\ subscribing = {}
  BY DEF PushOne, DeliveryInv, feed, SubscribingIsServed
<1>2. /\ subscriptions \in Seq(Subscriber) /\ n \in Nat
      /\ DOMAIN subscriptions = 1..n
      /\ push_pos \in 1..n
      /\ s \in Subscriber
  BY <1>1, LenProperties, ElementOfSeq DEF PushOne, TypeOK
<1>3. \A i, j \in 1..n : i # j => subscriptions[i] # subscriptions[j]
  BY <1>2 DEF DeliveryInv, SubscriptionsDistinct
<1>4. \A i \in 1..n : subscriptions[i] \in held =>
        view[subscriptions[i]] = IF i < push_pos THEN cache ELSE base
  BY <1>1, <1>2 DEF DeliveryInv, ViewsDuringPush
<1>5. GrownFromBase'
  BY <1>1 DEF DeliveryInv, GrownFromBase
<1>6. SubscribingIsServed' /\ (subscribing \cap ToSet(subscriptions) = {})'
  BY <1>1 DEF DeliveryInv, SubscribingIsServed
<1>7. NothingSeenBeforeFirstBatch'
  BY <1>1 DEF DeliveryInv, NothingSeenBeforeFirstBatch
<1>8. CASE /\ s \in held
           /\ view' = [view EXCEPT ![s] = Delivered(@)]
           /\ push_pos' = push_pos + 1
           /\ UNCHANGED subscriptions
  <2>1. Delivered(view[s]) = cache
    <3>1. view[s] = base  BY <1>2, <1>4, <1>8
    <3>2. inserted > 0
      BY <1>1 DEF DeliveryInv, NothingSeenBeforeFirstBatch
    <3>3. Delivered(base) = cache
      BY <1>1, <3>2, IncrementCompletes DEF DeliveryInv
    <3>4. QED  BY <3>1, <3>3
  <2>2. view' = [view EXCEPT ![s] = cache]  BY <1>8, <2>1
  <2>3. ASSUME NEW i \in 1..n, subscriptions[i] \in held
        PROVE  view'[subscriptions[i]] = IF i < push_pos + 1 THEN cache ELSE base
    <3>1. subscriptions[i] \in Subscriber  BY <1>2, ElementOfSeq
    <3>2. CASE i = push_pos
      <4>1. view'[s] = cache  BY <1>1, <1>2, <2>2 DEF TypeOK
      <4>2. i < push_pos + 1  BY <1>2, <3>2
      <4>3. QED  BY <3>2, <4>1, <4>2
    <3>3. CASE i # push_pos
      <4>1. subscriptions[i] # s  BY <1>2, <1>3, <3>3
      <4>2. view'[subscriptions[i]] = view[subscriptions[i]]
        BY <1>1, <2>2, <3>1, <4>1 DEF TypeOK
      <4>3. (i < push_pos + 1) <=> (i < push_pos)  BY <1>2, <3>3
      <4>4. QED  BY <1>4, <2>3, <4>2, <4>3
    <3>4. QED  BY <3>2, <3>3
  <2>4. ViewsDuringPush'
    BY <1>1, <1>2, <1>8, <2>3 DEF ViewsDuringPush
  <2>5. SubscriptionsDistinct'
    BY <1>2, <1>3, <1>6, <1>8 DEF SubscriptionsDistinct
  <2>6. QED
    BY <1>5, <1>6, <1>7, <2>4, <2>5 DEF DeliveryInv
<1>9. CASE /\ subscriptions' = RemoveAt(subscriptions, push_pos)
           /\ UNCHANGED <<view, push_pos>>
  <2> DEFINE t == subscriptions'
             old(i) == IF i < push_pos THEN i ELSE i + 1
  <2>1. /\ t \in Seq(Subscriber)
        /\ Len(t) = n - 1
        /\ \A i \in 1..n - 1 :
             t[i] = IF i < push_pos THEN subscriptions[i] ELSE subscriptions[i + 1]
    BY <1>2, <1>9, RemoveAtProperties
  <2>2. DOMAIN t = 1..n - 1  BY <2>1, LenProperties
  <2>3. \A i \in 1..n - 1 :
          /\ old(i) \in 1..n
          /\ t[i] = subscriptions[old(i)]
          /\ (i < push_pos) <=> (old(i) < push_pos)
    BY <1>2, <2>1
  <2>4. \A i, j \in 1..n - 1 : i # j => old(i) # old(j)
    BY <1>2
  <2> HIDE DEF old
  <2>5. ViewsDuringPush'
    <3>1. ASSUME NEW i \in 1..n - 1, t[i] \in held
          PROVE  view[t[i]] = IF i < push_pos THEN cache ELSE base
      BY <1>4, <2>3, <3>1
    <3>2. QED  BY <1>1, <1>9, <2>2, <3>1 DEF ViewsDuringPush
  <2>6. SubscriptionsDistinct'
    <3>1. \A i, j \in 1..n - 1 : i # j => t[i] # t[j]
      BY <1>3, <2>3, <2>4
    <3>2. QED  BY <1>6, <2>2, <3>1 DEF SubscriptionsDistinct
  <2>7. QED
    BY <1>5, <1>6, <1>7, <2>5, <2>6 DEF DeliveryInv
<1>10. QED  BY <1>8, <1>9 DEF PushOne

(* subscribe() and the owner.                                              *)
LEMMA SubscribeDelivery ==
  ASSUME SameThread, DeliveryInv, TypeOK', NEW s \in Subscriber,
         SubscribeSnapshot(s) \/ SubscribeAdd(s) \/ Drop(s)
  PROVE  DeliveryInv'
<1> DEFINE n == Len(subscriptions)
<1>0. /\ TypeOK
      /\ subscriptions \in Seq(Subscriber) /\ n \in Nat
      /\ DOMAIN subscriptions = 1..n
      /\ ToSet(subscriptions) = {subscriptions[i] : i \in 1..n}
  <2>1. TypeOK /\ subscriptions \in Seq(Subscriber)  BY DEF DeliveryInv, TypeOK
  <2>2. QED  BY <2>1, LenProperties, ToSetProperties
<1>1. CASE SubscribeSnapshot(s)
  <2>1. /\ UNCHANGED <<cache, incoming, update, inserted, first_update_idx>>
        /\ UNCHANGED <<subscriptions, held, pc, push_pos, offered, base>>
        /\ pc = "idle" /\ subscribing = {} /\ s \notin ToSet(subscriptions)
        /\ subscribing' = {s}
        /\ view' = IF cache # <<>> /\ s \in held
                   THEN [view EXCEPT ![s] = cache] ELSE view
    BY <1>1 DEF SubscribeSnapshot, feed
  <2>2. \A q \in Subscriber : q # s => view'[q] = view[q]
    BY <1>0, <2>1 DEF TypeOK
  <2>3. GrownFromBase'  BY <2>1 DEF DeliveryInv, GrownFromBase
  <2>4. ViewsDuringPush'
    <3>1. ASSUME NEW i \in 1..n, subscriptions[i] \in held
          PROVE  view'[subscriptions[i]] = cache
      <4>1. subscriptions[i] # s /\ subscriptions[i] \in Subscriber
        BY <1>0, <2>1, ElementOfSeq
      <4>2. view[subscriptions[i]] = cache
        BY <1>0, <2>1, <3>1 DEF DeliveryInv, ViewsDuringPush
      <4>3. QED  BY <2>2, <4>1, <4>2
    <3>2. QED  BY <1>0, <2>1, <3>1 DEF ViewsDuringPush
  <2>5. SubscriptionsDistinct'
    BY <2>1 DEF DeliveryInv, SubscriptionsDistinct
  <2>6. SubscribingIsServed'
    <3>1. ASSUME s \in held  PROVE view'[s] = cache
      <4>1. CASE cache # <<>>  BY <1>0, <2>1, <3>1, <4>1 DEF TypeOK
      <4>2. CASE cache = <<>>
        <5>1. view[s] = <<>>
          BY <4>2 DEF DeliveryInv, NothingSeenBeforeFirstBatch
        <5>2. QED  BY <2>1, <4>2, <5>1
      <4>3. QED  BY <4>1, <4>2
    <3>2. QED  BY <2>1, <3>1 DEF SubscribingIsServed
  <2>7. NothingSeenBeforeFirstBatch'
    BY <2>1 DEF DeliveryInv, NothingSeenBeforeFirstBatch
  <2>8. QED  BY <2>3, <2>4, <2>5, <2>6, <2>7 DEF DeliveryInv
<1>2. CASE SubscribeAdd(s)
  <2>1. /\ UNCHANGED <<cache, incoming, update, inserted, first_update_idx>>
        /\ UNCHANGED <<held, pc, push_pos, view, offered, base>>
        /\ s \in subscribing
        /\ subscriptions' = Append(subscriptions, s)
        /\ subscribing' = subscribing \ {s}
    BY <1>2 DEF SubscribeAdd, feed
  <2>2. /\ pc = "idle"
        /\ s \in held => view[s] = cache
        /\ \A q \in subscribing : q = s
        /\ s \notin ToSet(subscriptions)
    BY <2>1 DEF DeliveryInv, SubscribingIsServed, SubscriptionsDistinct
  <2>3. /\ subscriptions' \in Seq(Subscriber)
        /\ Len(subscriptions') = n + 1
        /\ \A i \in 1..n : subscriptions'[i] = subscriptions[i]
        /\ subscriptions'[n + 1] = s
    BY <1>0, <2>1, AppendProperties
  <2>4. DOMAIN subscriptions' = 1..n + 1  BY <2>3, LenProperties
  <2>5. \A i \in 1..n + 1 : i \in 1..n \/ i = n + 1  BY <1>0
  <2>6. GrownFromBase'  BY <2>1 DEF DeliveryInv, GrownFromBase
  <2>7. ViewsDuringPush'
    <3>1. ASSUME NEW i \in 1..n + 1, subscriptions'[i] \in held
          PROVE  view[subscriptions'[i]] = cache
      <4>1. CASE i \in 1..n
        BY <1>0, <2>2, <2>3, <3>1, <4>1 DEF DeliveryInv, ViewsDuringPush
      <4>2. CASE i = n + 1  BY <2>2, <2>3, <3>1, <4>2
      <4>3. QED  BY <2>5, <4>1, <4>2
    <3>2. QED  BY <2>1, <2>2, <2>4, <3>1 DEF ViewsDuringPush
  <2>8. SubscriptionsDistinct'
    <3>1. ASSUME NEW i \in 1..n + 1, NEW j \in 1..n + 1, i # j
          PROVE  subscriptions'[i] # subscriptions'[j]
      <4>1. \A k \in 1..n : subscriptions[k] # s  BY <1>0, <2>2
      <4>2. CASE i \in 1..n /\ j \in 1..n
        BY <1>0, <2>3, <3>1, <4>2 DEF DeliveryInv, SubscriptionsDistinct
      <4>3. CASE i = n + 1 /\ j \in 1..n  BY <2>3, <4>1, <4>3
      <4>4. CASE i \in 1..n /\ j = n + 1  BY <2>3, <4>1, <4>4
      <4>5. QED  BY <2>5, <3>1, <4>2, <4>3, <4>4
    <3>2. subscribing' = {}  BY <2>1, <2>2
    <3>3. QED  BY <2>4, <3>1, <3>2 DEF SubscriptionsDistinct
  <2>9. SubscribingIsServed'
    BY <2>1, <2>2 DEF SubscribingIsServed
  <2>10. NothingSeenBeforeFirstBatch'
    BY <2>1 DEF DeliveryInv, NothingSeenBeforeFirstBatch
  <2>11. QED  BY <2>6, <2>7, <2>8, <2>9, <2>10 DEF DeliveryInv
<1>3. CASE Drop(s)
  <2>1. /\ UNCHANGED <<cache, incoming, update, inserted, first_update_idx>>
        /\ UNCHANGED <<subscriptions, subscribing, pc, push_pos, view, offered, base>>
        /\ held' \subseteq held
    BY <1>3 DEF Drop, feed
  <2>2. GrownFromBase'  BY <2>1 DEF DeliveryInv, GrownFromBase
  <2>3. ViewsDuringPush'  BY <2>1 DEF DeliveryInv, ViewsDuringPush
  <2>4. SubscriptionsDistinct'  BY <2>1 DEF DeliveryInv, SubscriptionsDistinct
  <2>5. SubscribingIsServed'  BY <2>1 DEF DeliveryInv, SubscribingIsServed
  <2>6. NothingSeenBeforeFirstBatch'
    BY <2>1 DEF DeliveryInv, NothingSeenBeforeFirstBatch
  <2>7. QED  BY <2>2, <2>3, <2>4, <2>5, <2>6 DEF DeliveryInv
<1>4. QED  BY <1>1, <1>2, <1>3

LEMMA NextDelivery ==
  ASSUME SameThread  PROVE DeliveryInv /\ [Next]_vars => DeliveryInv'
<1> SUFFICES ASSUME DeliveryInv, [Next]_vars  PROVE DeliveryInv'
  OBVIOUS
<1>0. TypeOK /\ TypeOK'  BY NextType DEF DeliveryInv
<1>1. ASSUME NEW batch \in Batch, Accept(batch)  PROVE DeliveryInv'
  BY <1>0, <1>1, AcceptDelivery
<1>2. CASE MergeOne  BY <1>0, <1>2, MergeDelivery
<1>3. CASE MergeDone
  <2>1. /\ UNCHANGED <<cache, incoming, update, inserted, first_update_idx>>
        /\ UNCHANGED <<subscriptions, held, subscribing, push_pos, view, base>>
        /\ pc = "merge"
        /\ pc' = IF inserted > 0 THEN "push" ELSE "idle"
        /\ inserted \in Nat
    BY <1>0, <1>3 DEF MergeDone, feed, TypeOK
  <2>2. GrownFromBase'  BY <2>1 DEF DeliveryInv, GrownFromBase
  <2>3. ViewsDuringPush'
    <3>1. push_pos = 1  BY <2>1 DEF DeliveryInv, ViewsDuringPush
    <3>2. \A i \in DOMAIN subscriptions : ~(i < 1)
      BY <1>0, LenProperties DEF TypeOK
    <3>3. \A i \in DOMAIN subscriptions :
            subscriptions[i] \in held => view[subscriptions[i]] = base
      BY <2>1 DEF DeliveryInv, ViewsDuringPush
    <3>4. inserted = 0 => cache = base  BY <2>1 DEF DeliveryInv, GrownFromBase
    <3>5. QED  BY <2>1, <3>1, <3>2, <3>3, <3>4 DEF ViewsDuringPush
  <2>4. SubscriptionsDistinct'  BY <2>1 DEF DeliveryInv, SubscriptionsDistinct
  <2>5. SubscribingIsServed'  BY <2>1 DEF DeliveryInv, SubscribingIsServed
  <2>6. NothingSeenBeforeFirstBatch'
    BY <2>1 DEF DeliveryInv, NothingSeenBeforeFirstBatch
  <2>7. QED  BY <1>0, <2>2, <2>3, <2>4, <2>5, <2>6 DEF DeliveryInv
<1>4. CASE PushOne  BY <1>0, <1>4, PushDelivery
<1>5. CASE PushDone
  <2>1. /\ UNCHANGED <<cache, incoming, update, inserted, first_update_idx>>
        /\ UNCHANGED <<subscriptions, held, subscribing, push_pos, view, base>>
        /\ pc = "push" /\ pc' = "idle"
        /\ push_pos > Len(subscriptions)
    BY <1>5 DEF PushDone, feed
  <2>2. \A i \in DOMAIN subscriptions : i < push_pos
    BY <1>0, <2>1, LenProperties DEF TypeOK
  <2>3. ViewsDuringPush'  BY <2>1, <2>2 DEF DeliveryInv, ViewsDuringPush
  <2>4. GrownFromBase'  BY <2>1 DEF GrownFromBase
  <2>5. SubscriptionsDistinct'  BY <2>1 DEF DeliveryInv, SubscriptionsDistinct
  <2>6. SubscribingIsServed'  BY <2>1 DEF DeliveryInv, SubscribingIsServed
  <2>7. NothingSeenBeforeFirstBatch'
    BY <2>1 DEF DeliveryInv, NothingSeenBeforeFirstBatch
  <2>8. QED  BY <1>0, <2>3, <2>4, <2>5, <2>6, <2>7 DEF DeliveryInv
<1>6. ASSUME NEW s \in Subscriber,
             SubscribeSnapshot(s) \/ SubscribeAdd(s) \/ Drop(s)
      PROVE  DeliveryInv'
  BY <1>0, <1>6, SubscribeDelivery
<1>7. CASE UNCHANGED vars
  BY <1>7 DEF vars, feed, DeliveryInv, TypeOK, GrownFromBase, ViewsDuringPush,
              SubscriptionsDistinct, SubscribingIsServed,
              NothingSeenBeforeFirstBatch
<1>8. QED
  BY <1>1, <1>2, <1>3, <1>4, <1>5, <1>6, <1>7 DEF Next

(* With every call on one thread, each live registered subscriber can       *)
(* always rebuild the cache from the snapshots and increments it was sent.  *)
THEOREM SubscribersAreCurrent ==
  ASSUME SameThread
  PROVE  Spec => []ViewsCurrent
<1>1. Init => DeliveryInv  BY InitDelivery
<1>2. DeliveryInv /\ [Next]_vars => DeliveryInv'  BY NextDelivery
<1>3. DeliveryInv => ViewsCurrent
  <2> SUFFICES ASSUME DeliveryInv, pc = "idle",
                      NEW s \in ToSet(subscriptions) \cap held
               PROVE  view[s] = cache
    BY DEF ViewsCurrent
  <2>1. PICK i \in DOMAIN subscriptions : subscriptions[i] = s  BY DEF ToSet
  <2>2. QED  BY <2>1 DEF DeliveryInv, ViewsDuringPush
<1>4. QED  BY <1>1, <1>2, <1>3, PTL DEF Spec

-----------------------------------------------------------------------------
(* The refinement: each step of the feed is one of the contract's, or        *)
(* changes nothing the contract speaks of.  It rests on DeliveryInv, which   *)
(* says what every subscriber holds at every point of the push loop.        *)

(* The parties' view of the feed: what the contract's variables stand for.  *)
Log == IF pc = "merge" THEN base ELSE cache
Views == [s \in Subscriber |-> IF s \in Attached THEN view[s] ELSE <<>>]
Stale == {s \in Attached : pc = "push" /\
            \E i \in push_pos .. Len(subscriptions) : subscriptions[i] = s}

LEMMA Mapped ==
  /\ Contract!vars = <<Log, Attached, Views, Stale>>
  /\ Contract!Init <=> Log = <<>> /\ Attached = {} /\ Stale = {}
                       /\ Views = [s \in Subscriber |-> <<>>]
BY DEF Contract!vars, Contract!Init, Log, Views, Stale

(* A step that leaves the mapped variables alone is a stutter.             *)
LEMMA Stutter ==
  ASSUME UNCHANGED <<Log, Attached, Views, Stale>>
  PROVE  UNCHANGED Contract!vars
BY DEF Contract!vars, Log, Views, Stale

LEMMA PublishStep ==
  ASSUME Stale = {}, Log' \in Seq(Record), Log' # Log, ToSet(Log) \subseteq ToSet(Log'),
         Stale' = Attached, UNCHANGED <<Attached, Views>>
  PROVE  Contract!Next
<1>1. Contract!Publish
  BY DEF Contract!Publish, Contract!ToSet, ToSet, Log, Views, Stale
<1>. QED BY <1>1 DEF Contract!Next

LEMMA NotifyStep ==
  ASSUME NEW s \in Subscriber, s \in Stale, Views' = [Views EXCEPT ![s] = Log],
         Stale' = Stale \ {s}, UNCHANGED <<Log, Attached>>
  PROVE  Contract!Next
<1>1. Contract!Notify(s)
  BY DEF Contract!Notify, Log, Views, Stale
<1>. QED BY <1>1 DEF Contract!Next

LEMMA AttachStep ==
  ASSUME NEW s \in Subscriber, Stale = {}, s \notin Attached, Attached' = Attached \cup {s},
         Views' = [Views EXCEPT ![s] = Log], UNCHANGED <<Log, Stale>>
  PROVE  Contract!Next
<1>1. Contract!Attach(s)
  BY DEF Contract!Attach, Log, Views, Stale
<1>. QED BY <1>1 DEF Contract!Next

LEMMA DetachStep ==
  ASSUME NEW s \in Subscriber, s \in Attached, Attached' = Attached \ {s},
         Stale' = Stale \ {s}, Views' = [Views EXCEPT ![s] = <<>>], UNCHANGED Log
  PROVE  Contract!Next
<1>1. Contract!Detach(s)
  BY DEF Contract!Detach, Log, Views, Stale
<1>. QED BY <1>1 DEF Contract!Next

-----------------------------------------------------------------------------
(* Positions of the list, and who is at them.                              *)
LEMMA ListFacts ==
  ASSUME DeliveryInv
  PROVE  /\ subscriptions \in Seq(Subscriber) /\ Len(subscriptions) \in Nat
         /\ DOMAIN subscriptions = 1 .. Len(subscriptions)
         /\ push_pos \in 1 .. Len(subscriptions) + 1
         /\ ToSet(subscriptions) = {subscriptions[i] : i \in 1 .. Len(subscriptions)}
         /\ ToSet(subscriptions) \subseteq Subscriber
         /\ \A i, j \in 1 .. Len(subscriptions) :
              i # j => subscriptions[i] # subscriptions[j]
         /\ cache \in Seq(Record) /\ base \in Seq(Record) /\ inserted \in Nat
         /\ view \in [Subscriber -> Seq(Record)]
<1>1. subscriptions \in Seq(Subscriber)
  BY DEF DeliveryInv, TypeOK
<1>. QED BY <1>1, LenProperties, ToSetProperties, SMTT(30)
         DEF DeliveryInv, TypeOK, SubscriptionsDistinct

(* A push that is about to begin owes every attached subscriber a call.     *)
LEMMA AllStale ==
  ASSUME DeliveryInv, pc' = "push", push_pos' = 1, UNCHANGED <<subscriptions, held, view>>
  PROVE  Stale' = Attached /\ UNCHANGED <<Attached, Views>>
BY ListFacts DEF Stale, Attached, Views

LEMMA AcceptRefines ==
  ASSUME DeliveryInv, DeliveryInv', NEW batch \in Batch, Accept(batch)
  PROVE  [Contract!Next]_(Contract!vars)
<1>1. /\ pc = "idle" /\ push_pos' = 1 /\ base' = cache
      /\ UNCHANGED <<subscriptions, held, view>>
  BY DEF Accept
<1>2. Stale = {}
  BY <1>1 DEF Stale
<1>3. CASE cache = <<>> /\ pc' = "push"
  <2>1. Log = <<>> /\ Log' = cache' /\ cache' # <<>> /\ cache' \in Seq(Record)
    BY <1>1, <1>3, ListFacts DEF Log, DeliveryInv, TypeOK, NothingSeenBeforeFirstBatch
  <2>2. ToSet(Log) \subseteq ToSet(Log')
    BY <2>1 DEF ToSet
  <2>. QED BY <1>1, <1>2, <1>3, <2>1, <2>2, AllStale, PublishStep
<1>4. CASE UNCHANGED cache /\ pc' = "merge"
  <2>1. UNCHANGED <<Log, Attached, Views>>
    BY <1>1, <1>4 DEF Log, Views, Attached, Accept
  <2>2. UNCHANGED Stale
    BY <1>2, <1>4 DEF Stale
  <2>. QED BY <2>1, <2>2, Stutter
<1>. QED BY <1>3, <1>4 DEF Accept

LEMMA MergeRefines ==
  ASSUME DeliveryInv, MergeOne \/ MergeDone
  PROVE  [Contract!Next]_(Contract!vars)
<1>1. CASE MergeOne
  <2>1. UNCHANGED <<base, subscriptions, held, view, pc>> /\ pc = "merge"
    BY <1>1 DEF MergeOne
  <2>2. UNCHANGED <<Log, Attached, Views, Stale>>
    BY <2>1 DEF Log, Views, Attached, Stale
  <2>. QED BY <2>2, Stutter
<1>2. CASE MergeDone /\ inserted = 0
  <2>1. cache = base
    BY <1>2 DEF MergeDone, DeliveryInv, GrownFromBase
  <2>2. UNCHANGED <<cache, base, subscriptions, held, view>> /\ pc = "merge" /\ pc' = "idle"
    BY <1>2 DEF MergeDone, feed
  <2>3. UNCHANGED <<Log, Attached, Views, Stale>>
    BY <2>1, <2>2 DEF Log, Views, Attached, Stale
  <2>. QED BY <2>3, Stutter
<1>3. CASE MergeDone /\ inserted > 0
  <2>1. /\ pc = "merge" /\ pc' = "push" /\ push_pos' = 1
        /\ UNCHANGED <<cache, base, subscriptions, held, view>>
    BY <1>3 DEF MergeDone, feed, DeliveryInv, ViewsDuringPush
  <2>2. Log = base /\ Log' = cache /\ Stale = {}
    BY <2>1 DEF Log, Stale
  <2>3. Len(cache) = Len(base) + inserted /\ ToSet(base) \subseteq ToSet(cache)
    BY <2>1 DEF DeliveryInv, GrownFromBase
  <2>4. cache # base /\ cache \in Seq(Record)
    <3>1. Len(base) \in Nat /\ inserted \in Nat
      BY ListFacts, LenProperties
    <3>. QED BY <1>3, <2>3, <3>1, ListFacts
  <2>. QED BY <2>1, <2>2, <2>3, <2>4, AllStale, PublishStep
<1>4. inserted = 0 \/ inserted > 0
  BY ListFacts
<1>. QED BY <1>1, <1>2, <1>3, <1>4

LEMMA PushRefines ==
  ASSUME DeliveryInv, PushOne \/ PushDone
  PROVE  [Contract!Next]_(Contract!vars)
<1>. DEFINE n == Len(subscriptions)
            s == subscriptions[push_pos]
<1>1. CASE PushDone
  <2>1. Stale = {} /\ Stale' = {}
    BY <1>1, ListFacts DEF PushDone, Stale
  <2>2. UNCHANGED <<Log, Attached, Views>>
    BY <1>1 DEF PushDone, feed, Log, Views, Attached
  <2>. QED BY <2>1, <2>2, Stutter
<1>2. ASSUME PushOne
      PROVE  /\ pc = "push" /\ push_pos \in 1 .. n /\ s \in Subscriber
             /\ UNCHANGED <<cache, pc, held, base>>
  BY <1>2, ListFacts, ElementOfSeq DEF PushOne, feed
<1>3. CASE PushOne /\ s \in held
  <2>1. /\ view' = [view EXCEPT ![s] = Delivered(view[s])]
        /\ push_pos' = push_pos + 1 /\ UNCHANGED subscriptions
    BY <1>3 DEF PushOne
  <2>2. Delivered(view[s]) = cache
    <3>1. view[s] = base
      BY <1>2, <1>3, ListFacts DEF DeliveryInv, ViewsDuringPush
    <3>2. inserted > 0
      BY <1>2, <1>3 DEF DeliveryInv, NothingSeenBeforeFirstBatch
    <3>. QED BY <1>2, <1>3, <3>1, <3>2, IncrementCompletes DEF DeliveryInv
  <2>3. s \in Attached /\ UNCHANGED Attached
    BY <1>2, <1>3, <2>1, ListFacts DEF Attached
  <2>4. s \in Stale /\ Stale' = Stale \ {s}
    <3>1. \A i \in 1 .. n : subscriptions[i] = s <=> i = push_pos
      BY <1>2, <1>3, ListFacts
    <3>2. ASSUME NEW q \in Attached
          PROVE  (\E i \in push_pos + 1 .. n : subscriptions[i] = q)
                   <=> q # s /\ \E i \in push_pos .. n : subscriptions[i] = q
      BY <1>2, <1>3, <3>1, ListFacts
    <3>. QED BY <1>2, <1>3, <2>1, <2>3, <3>2, ListFacts DEF Stale
  <2>5. Log = cache /\ UNCHANGED Log
    BY <1>2, <1>3 DEF Log
  <2>6. Views' = [Views EXCEPT ![s] = Log]
    BY <1>2, <1>3, <2>1, <2>2, <2>3, <2>5, ListFacts DEF Views
  <2>. QED BY <1>2, <1>3, <2>3, <2>4, <2>5, <2>6, NotifyStep
<1>4. CASE PushOne /\ s \notin held
  <2>. DEFINE t == subscriptions'
  <2>1. t = RemoveAt(subscriptions, push_pos) /\ UNCHANGED <<view, push_pos>>
    BY <1>4 DEF PushOne
  <2>2. /\ t \in Seq(Subscriber) /\ Len(t) = n - 1
        /\ \A i \in 1 .. n - 1 :
             t[i] = IF i < push_pos THEN subscriptions[i] ELSE subscriptions[i + 1]
    BY <1>2, <1>4, <2>1, ListFacts, RemoveAtProperties
  <2>3. ToSet(t) = {t[i] : i \in 1 .. n - 1}
    BY <2>2, ToSetProperties
  <2>4. ASSUME NEW q \in held
        PROVE  /\ (\E i \in 1 .. n - 1 : t[i] = q) <=> \E i \in 1 .. n : subscriptions[i] = q
               /\ (\E i \in push_pos .. n - 1 : t[i] = q)
                    <=> \E i \in push_pos .. n : subscriptions[i] = q
    <3>. HIDE DEF t, n, s
    <3>1. subscriptions[push_pos] # q
      BY <1>4 DEF s
    <3>2. n \in Nat /\ push_pos \in Nat /\ 1 <= push_pos /\ push_pos <= n
      BY <1>2, <1>4, ListFacts DEF n
    <3>3. \A i \in 1 .. n - 1 :
            t[i] = IF i < push_pos THEN subscriptions[i] ELSE subscriptions[i + 1]
      BY <2>2 DEF n
    <3>4. ASSUME NEW i \in push_pos .. n - 1
          PROVE  t[i] = subscriptions[i + 1] /\ i + 1 \in push_pos .. n
      <4>1. i \in 1 .. n - 1 /\ ~(i < push_pos) /\ i + 1 \in push_pos .. n
        BY <3>2
      <4>. QED BY <3>3, <4>1
    <3>5. \A i \in 1 .. n : i < push_pos => i \in 1 .. n - 1 /\ t[i] = subscriptions[i]
      BY <3>2, <3>3
    <3>6. ASSUME NEW i \in push_pos .. n, subscriptions[i] = q
          PROVE  \E j \in push_pos .. n - 1 : t[j] = q
      <4>1. i - 1 \in push_pos .. n - 1 /\ i = (i - 1) + 1
        BY <3>1, <3>2, <3>6
      <4>. QED BY <3>4, <3>6, <4>1
    <3>7. (\E i \in push_pos .. n - 1 : t[i] = q)
            <=> \E i \in push_pos .. n : subscriptions[i] = q
      BY <3>4, <3>6
    <3>8. \A i \in 1 .. n - 1 : i < push_pos \/ i \in push_pos .. n - 1
      BY <3>2
    <3>9. push_pos .. n \subseteq 1 .. n /\ push_pos .. n - 1 \subseteq 1 .. n - 1
          /\ 1 .. n - 1 \subseteq 1 .. n
      BY <3>2
    <3>10. \A i \in 1 .. n : i < push_pos \/ i \in push_pos .. n
      BY <3>2
    <3>11. (\E i \in 1 .. n - 1 : t[i] = q) <=> \E i \in 1 .. n : subscriptions[i] = q
      <4>1. ASSUME NEW i \in 1 .. n - 1, t[i] = q PROVE \E j \in 1 .. n : subscriptions[j] = q
        BY <3>3, <3>7, <3>8, <3>9, <4>1
      <4>2. ASSUME NEW i \in 1 .. n, subscriptions[i] = q PROVE \E j \in 1 .. n - 1 : t[j] = q
        BY <3>5, <3>7, <3>9, <3>10, <4>2
      <4>. QED BY <4>1, <4>2
    <3>. QED BY <3>7, <3>11 DEF n
  <2>5. Attached' = Attached
    <3>1. held' = held /\ Attached' = ToSet(t) \cap held
      BY <1>2, <1>4 DEF Attached
    <3>2. ASSUME NEW q \in held
          PROVE  q \in ToSet(t) <=> q \in ToSet(subscriptions)
      BY <2>3, <2>4, ListFacts, ZenonT(30)
    <3>. QED BY <3>1, <3>2 DEF Attached
  <2>6. Stale' = Stale
    BY <1>2, <1>4, <2>1, <2>2, <2>4, <2>5 DEF Stale, Attached
  <2>7. UNCHANGED <<Log, Views>>
    BY <1>2, <1>4, <2>1, <2>5 DEF Log, Views
  <2>. QED BY <2>5, <2>6, <2>7, Stutter
<1>. QED BY <1>1, <1>3, <1>4

LEMMA SubscribeRefines ==
  ASSUME SameThread, DeliveryInv, NEW s \in Subscriber,
         SubscribeSnapshot(s) \/ SubscribeAdd(s) \/ Drop(s)
  PROVE  [Contract!Next]_(Contract!vars)
<1>1. CASE SubscribeSnapshot(s)
  <2>1. /\ UNCHANGED <<cache, base, pc, subscriptions, held, push_pos>> /\ s \notin Attached
        /\ \A q \in Subscriber : q # s => view'[q] = view[q]
    BY <1>1, ListFacts DEF SubscribeSnapshot, feed, Attached
  <2>2. UNCHANGED <<Log, Attached, Stale>>
    BY <2>1 DEF Log, Attached, Stale
  <2>3. UNCHANGED Views
    BY <2>1, <2>2 DEF Views
  <2>. QED BY <2>2, <2>3, Stutter
<1>2. CASE SubscribeAdd(s)
  <2>1. /\ UNCHANGED <<cache, base, pc, held, push_pos, view>>
        /\ subscriptions' = Append(subscriptions, s)
        /\ pc = "idle" /\ s \notin ToSet(subscriptions) /\ (s \in held => view[s] = cache)
    BY <1>2 DEF SubscribeAdd, feed, DeliveryInv, SubscribingIsServed, SubscriptionsDistinct
  <2>2. ToSet(subscriptions') = ToSet(subscriptions) \cup {s}
    BY <2>1, ListFacts, ToSetGrowth
  <2>3. Stale = {} /\ Stale' = {} /\ Log = cache /\ Log' = cache /\ s \notin Attached
    BY <2>1 DEF Stale, Log, Attached
  <2>4. CASE s \in held
    <3>1. Attached' = Attached \cup {s}
      BY <2>1, <2>2, <2>4 DEF Attached
    <3>2. Views' = [Views EXCEPT ![s] = Log]
      BY <2>1, <2>3, <2>4, <3>1 DEF Views
    <3>. QED BY <2>3, <3>1, <3>2, AttachStep
  <2>5. CASE s \notin held
    <3>1. Attached' = Attached
      BY <2>1, <2>2, <2>5 DEF Attached
    <3>2. UNCHANGED <<Log, Views, Stale>>
      BY <2>1, <2>3, <3>1 DEF Views
    <3>. QED BY <3>1, <3>2, Stutter
  <2>. QED BY <2>4, <2>5
<1>3. CASE Drop(s)
  <2>1. /\ UNCHANGED <<cache, base, pc, subscriptions, push_pos, view>>
        /\ held' = held \ {s}
    BY <1>3 DEF Drop, feed
  <2>2. UNCHANGED Log
    BY <2>1 DEF Log
  <2>3. Attached' = Attached \ {s} /\ Stale' = Stale \ {s}
    BY <2>1 DEF Attached, Stale
  <2>4. CASE s \in Attached
    <3>1. Views' = [Views EXCEPT ![s] = <<>>]
      BY <2>1, <2>3 DEF Views
    <3>. QED BY <2>2, <2>3, <2>4, <3>1, DetachStep
  <2>5. CASE s \notin Attached
    <3>1. UNCHANGED <<Attached, Stale>>
      BY <2>3, <2>5 DEF Stale
    <3>2. UNCHANGED Views
      BY <2>1, <3>1 DEF Views
    <3>. QED BY <2>2, <3>1, <3>2, Stutter
  <2>. QED BY <2>4, <2>5
<1>. QED BY <1>1, <1>2, <1>3

(* With every call on one thread the feed keeps its contract: one ordered    *)
(* log that only gains records, and every attached subscriber brought to     *)
(* exactly that log before the next publication (data_feed.hpp:90-189).      *)
THEOREM FeedKeepsContract ==
  ASSUME SameThread
  PROVE  Spec => ImplementsContract
<1>1. Init => Contract!Init
  BY Mapped DEF Init, Log, Views, Attached, Stale, ToSet
<1>2. DeliveryInv /\ DeliveryInv' /\ [Next]_vars => [Contract!Next]_(Contract!vars)
  <2>. SUFFICES ASSUME DeliveryInv, DeliveryInv', [Next]_vars
                PROVE  [Contract!Next]_(Contract!vars)
    OBVIOUS
  <2>1. CASE UNCHANGED vars
    <3>1. UNCHANGED <<Log, Attached, Views, Stale>>
      BY <2>1 DEF vars, feed, Log, Views, Attached, Stale
    <3>. QED BY <3>1, Stutter
  <2>2. CASE \E batch \in Batch : Accept(batch)
    BY <2>2, AcceptRefines
  <2>3. CASE MergeOne \/ MergeDone
    BY <2>3, MergeRefines
  <2>4. CASE PushOne \/ PushDone
    BY <2>4, PushRefines
  <2>5. CASE \E s \in Subscriber : SubscribeSnapshot(s) \/ SubscribeAdd(s) \/ Drop(s)
    BY <2>5, SubscribeRefines
  <2>. QED BY <2>1, <2>2, <2>3, <2>4, <2>5 DEF Next
<1>3. Spec => []DeliveryInv
  <2>1. Init => DeliveryInv
    BY InitDelivery
  <2>2. DeliveryInv /\ [Next]_vars => DeliveryInv'
    BY NextDelivery
  <2>. QED BY <2>1, <2>2, PTL DEF Spec
<1>. QED BY <1>1, <1>2, <1>3, PTL DEF Spec, ImplementsContract, Contract!Spec
=============================================================================
