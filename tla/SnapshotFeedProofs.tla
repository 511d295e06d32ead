------------------------- MODULE SnapshotFeedProofs -------------------------
(***************************************************************************)
(* Proofs about SnapshotFeed, for any records, batches and subscribers: the  *)
(* one-pass merge of the sorted feed loses nothing and keeps the order, the  *)
(* keyed feed holds the last record of each key where it always was, and    *)
(* every live subscriber holds the cache.                                  *)
(*                                                                         *)
(* Proofs about OrderBook, for any prices and sizes: the merge of a delta    *)
(* yields the exchange's book, and its feed has every price of it.          *)
(*                                                                         *)
(* A batch is merged by a fold.  Its run is a chain of values, one for each  *)
(* record, and what holds of the merge is shown by induction along it.  The  *)
(* two modules have an instance of SnapshotMerge each, over records and over *)
(* levels; a lemma that takes an operator cannot be applied by the provers,  *)
(* so the walk is followed once for each.                                   *)
(***************************************************************************)
EXTENDS SnapshotFeed, OrderBook, SeqEditTheorems, FiniteSetTheorems

LEMMA MatchingFacts ==
  ASSUME NEW r \in Matching
  PROVE  r \in Record /\ r.sort \in Int /\ r.key \in Key
BY SortAssumption, MatchingAssumption DEF Record

(* Records that a feed does not tell apart are equal.                      *)
LEMMA SameIsEqual ==
  ASSUME NEW r \in Matching, NEW t \in Matching
  PROVE  Same(r, t) <=> r = t
BY MatchingFacts DEF Same, SortOf, KeyOf, Record

-----------------------------------------------------------------------------
(* The walk of the sorted feed.                                            *)

MergeState ==
  {m \in [cache : Seq(Matching), pos : Nat, appending : BOOLEAN, changed : BOOLEAN] :
     m.pos \in 1..Len(m.cache) + 1}

(* Where the walk stops: all it passed sort before r, what it met does not.  *)
LEMMA AdvancedIs ==
  ASSUME NEW c \in Seq(Matching), NEW pos \in 1..Len(c) + 1, NEW r \in Matching
  PROVE  /\ Advanced(c, pos, r) \in pos..Len(c) + 1
         /\ \A i \in pos..Advanced(c, pos, r) - 1 : c[i].sort < r.sort
         /\ Advanced(c, pos, r) <= Len(c) => ~(c[Advanced(c, pos, r)].sort < r.sort)
<1>. DEFINE Stops(p) == /\ \A i \in pos..p - 1 : c[i].sort < r.sort
                        /\ p <= Len(c) => ~(c[p].sort < r.sort)
            B == {p \in pos..Len(c) : ~(c[p].sort < r.sort)}
<1>0. Len(c) \in Nat
  OBVIOUS
<1>1. \E p \in pos..Len(c) + 1 : Stops(p)
  <2>1. CASE B = {}
    <3>1. Stops(Len(c) + 1) /\ Len(c) + 1 \in pos..Len(c) + 1
      BY <1>0, <2>1
    <3>. QED BY <3>1
  <2>2. CASE B # {}
    <3>1. B \in SUBSET (1..Len(c))
      OBVIOUS
    <3>2. Min(B) \in B /\ \A j \in B : Min(B) <= j
      <4>. HIDE DEF B
      <4>. QED BY <1>0, <2>2, <3>1, MinIsPosition
    <3>3. PICK b \in B : \A j \in B : b <= j
      BY <3>2
    <3>4. b \in pos..Len(c) /\ ~(c[b].sort < r.sort)
      BY <3>3
    <3>5. ASSUME NEW i \in pos..b - 1 PROVE c[i].sort < r.sort
      <4>1. i \in pos..Len(c) /\ ~(b <= i)
        BY <1>0, <3>4
      <4>2. i \notin B
        BY <3>3, <4>1
      <4>. QED BY <4>1, <4>2
    <3>6. Stops(b) /\ b \in pos..Len(c) + 1
      BY <1>0, <3>4, <3>5
    <3>. QED BY <3>6
  <2>. QED BY <2>1, <2>2
<1>2. Advanced(c, pos, r) = CHOOSE p \in pos..Len(c) + 1 : Stops(p)
  BY DEF Advanced, SortOf
<1>3. Advanced(c, pos, r) \in pos..Len(c) + 1 /\ Stops(Advanced(c, pos, r))
  <2>. HIDE DEF Stops
  <2>. QED BY <1>1, <1>2
<1>. QED BY <1>3

(* The three things that can happen to a record r of the batch.             *)
Appends(m, r, new) ==
  /\ m.appending \/ \A i \in m.pos..Len(m.cache) : m.cache[i].sort < r.sort
  /\ new = [cache |-> Append(m.cache, r), pos |-> m.pos, appending |-> TRUE, changed |-> TRUE]

Meets(m, r, p, new) ==
  /\ p \in m.pos..Len(m.cache) /\ m.cache[p] = r
  /\ \A i \in m.pos..p - 1 : m.cache[i].sort < r.sort
  /\ new = [cache |-> m.cache, pos |-> p + 1, appending |-> m.appending, changed |-> m.changed]

Inserts(m, r, p, new) ==
  /\ p \in m.pos..Len(m.cache) /\ r.sort <= m.cache[p].sort
  /\ \A i \in m.pos..p - 1 : m.cache[i].sort < r.sort
  /\ new = [cache |-> InsertAt(m.cache, p, r), pos |-> p + 1, appending |-> m.appending, changed |-> TRUE]

LEMMA MergeOneIs ==
  ASSUME NEW m \in MergeState, NEW r \in Matching
  PROVE  /\ MergeOne(m, r) \in MergeState
         /\ \/ Appends(m, r, MergeOne(m, r))
            \/ \E p \in 1..Len(m.cache) : Meets(m, r, p, MergeOne(m, r)) \/ Inserts(m, r, p, MergeOne(m, r))
<1>. DEFINE c == m.cache
            p == Advanced(c, m.pos, r)
            new == MergeOne(m, r)
<1>0. /\ c \in Seq(Matching) /\ Len(c) \in Nat /\ m.pos \in 1..Len(c) + 1
      /\ m.appending \in BOOLEAN /\ m.changed \in BOOLEAN
      /\ m = [cache |-> c, pos |-> m.pos, appending |-> m.appending, changed |-> m.changed]
  BY DEF MergeState
<1>1. /\ p \in m.pos..Len(c) + 1
      /\ \A i \in m.pos..p - 1 : c[i].sort < r.sort
      /\ p <= Len(c) => ~(c[p].sort < r.sort)
  <2>. HIDE DEF c
  <2>. QED BY <1>0, AdvancedIs
<1>2. p <= Len(c) => c[p] \in Matching /\ c[p].sort \in Int /\ r.sort \in Int /\ (Same(r, c[p]) <=> r = c[p])
  <2>. SUFFICES ASSUME p <= Len(c)
                PROVE  c[p] \in Matching /\ c[p].sort \in Int /\ r.sort \in Int /\ (Same(r, c[p]) <=> r = c[p])
    OBVIOUS
  <2>1. c[p] \in Matching
    BY <1>0, <1>1
  <2>. QED BY <2>1, MatchingFacts, SameIsEqual
<1>3. CASE m.appending \/ p > Len(c)
  <2>1. new = [m EXCEPT !.cache = Append(c, r), !.appending = TRUE, !.changed = TRUE]
    BY <1>0, <1>1, <1>3 DEF MergeOne
  <2>2. new = [cache |-> Append(c, r), pos |-> m.pos, appending |-> TRUE, changed |-> TRUE]
    BY <1>0, <2>1
  <2>3. Append(c, r) \in Seq(Matching) /\ Len(Append(c, r)) = Len(c) + 1
    BY <1>0
  <2>4. new \in MergeState
    BY <1>0, <2>2, <2>3 DEF MergeState
  <2>5. m.appending \/ \A i \in m.pos..Len(c) : c[i].sort < r.sort
    BY <1>0, <1>1, <1>3
  <2>. QED BY <2>2, <2>4, <2>5 DEF Appends
<1>4. CASE ~m.appending /\ p <= Len(c) /\ r = c[p]
  <2>1. new = [m EXCEPT !.pos = p + 1]
    BY <1>2, <1>4 DEF MergeOne
  <2>2. new = [cache |-> c, pos |-> p + 1, appending |-> m.appending, changed |-> m.changed]
    BY <1>0, <2>1
  <2>3. p \in m.pos..Len(c) /\ p \in 1..Len(c) /\ p + 1 \in 1..Len(c) + 1
    BY <1>0, <1>1, <1>4
  <2>4. new \in MergeState
    <3>. HIDE DEF p
    <3>. QED BY <1>0, <2>2, <2>3 DEF MergeState
  <2>5. Meets(m, r, p, new)
    BY <1>1, <1>4, <2>2, <2>3 DEF Meets
  <2>. QED BY <2>3, <2>4, <2>5
<1>5. CASE ~m.appending /\ p <= Len(c) /\ r # c[p]
  <2>1. new = [m EXCEPT !.cache = InsertAt(c, p, r), !.pos = p + 1, !.changed = TRUE]
    BY <1>2, <1>5 DEF MergeOne
  <2>2. new = [cache |-> InsertAt(c, p, r), pos |-> p + 1, appending |-> m.appending, changed |-> TRUE]
    BY <1>0, <2>1
  <2>3. p \in m.pos..Len(c) /\ p \in 1..Len(c) /\ p \in 1..Len(c) + 1 /\ p + 1 \in 1..(Len(c) + 1) + 1
    BY <1>0, <1>1, <1>5
  <2>4. InsertAt(c, p, r) \in Seq(Matching) /\ Len(InsertAt(c, p, r)) = Len(c) + 1
    <3>. HIDE DEF c, p
    <3>. QED BY <1>0, <2>3, InsertAtProperties
  <2>5. new \in MergeState
    <3>. HIDE DEF p
    <3>. QED BY <1>0, <2>2, <2>3, <2>4 DEF MergeState
  <2>6. r.sort <= c[p].sort
    BY <1>1, <1>2, <1>5
  <2>7. Inserts(m, r, p, new)
    BY <1>1, <2>2, <2>3, <2>6 DEF Inserts
  <2>. QED BY <2>3, <2>5, <2>7
<1>. QED BY <1>0, <1>1, <1>3, <1>4, <1>5

(* The run of the walk along a batch.                                      *)
WalkStart(c) == [cache |-> c, pos |-> 1, appending |-> FALSE, changed |-> FALSE]

WalkRun(v, c, in) ==
  /\ v \in [0..Len(in) -> MergeState]
  /\ v[0] = WalkStart(c) /\ v[Len(in)] = FoldLeft(MergeOne, WalkStart(c), in)
  /\ \A i \in 1..Len(in) : v[i] = MergeOne(v[i - 1], in[i])

LEMMA WalkChain ==
  ASSUME NEW c \in Seq(Matching), NEW in \in Seq(Matching)
  PROVE  \E v : WalkRun(v, c, in)
<1>. DEFINE n == Len(in)
            base == WalkStart(c)
            step == [p \in (1..n) \X MergeState |-> MergeOne(p[2], in[p[1]])]
            k == CHOOSE f : f = [u \in SUBSET (DOMAIN in) |->
                   IF u = {} THEN base ELSE MergeOne(f[u \ {Max(u)}], in[Max(u)])]
<1>1. n \in Nat /\ DOMAIN in = 1..n /\ \A i \in 1..n : in[i] \in Matching
  OBVIOUS
<1>2. step \in [(1..n) \X MergeState -> MergeState]
  BY <1>1, MergeOneIs
<1>3. base \in MergeState
  BY DEF MergeState, WalkStart
<1>4. PICK h : FoldSolution(h, n, MergeState, base, step)
  <2>. HIDE DEF step, n, base
  <2>. QED BY <1>1, <1>2, <1>3, FoldExists
<1>5. \A u \in SUBSET (1..n) : u # {} => Max(u) \in 1..n
  BY <1>1, MaxIsPosition
<1>6. \A u \in SUBSET (1..n) :
        h[u] = IF u = {} THEN base ELSE MergeOne(h[u \ {Max(u)}], in[Max(u)])
  BY <1>4, <1>5 DEF FoldSolution
<1>7. h = [u \in SUBSET (DOMAIN in) |-> IF u = {} THEN base ELSE MergeOne(h[u \ {Max(u)}], in[Max(u)])]
  BY <1>1, <1>4, <1>6 DEF FoldSolution
<1>8. k = [u \in SUBSET (DOMAIN in) |-> IF u = {} THEN base ELSE MergeOne(k[u \ {Max(u)}], in[Max(u)])]
  BY <1>7
<1>9. FoldLeft(MergeOne, base, in) = k[DOMAIN in]
  BY DEF FoldLeft, MapThenFoldSet
<1>. HIDE DEF k
<1>10. k[{}] = base
  BY <1>8
<1>11. ASSUME NEW u \in SUBSET (1..n), u # {}, k[u \ {Max(u)}] \in MergeState
       PROVE  k[u] = step[<<Max(u), k[u \ {Max(u)}]>>]
  <2>1. k[u] = MergeOne(k[u \ {Max(u)}], in[Max(u)])
    BY <1>1, <1>8, <1>11
  <2>2. <<Max(u), k[u \ {Max(u)}]>> \in (1..n) \X MergeState
    BY <1>5, <1>11
  <2>. QED BY <2>1, <2>2
<1>12. PICK v : FoldRun(v, n, MergeState, base, step, k[1..n])
  <2>. HIDE DEF step, n, base
  <2>. QED BY <1>1, <1>2, <1>3, <1>10, <1>11, FoldChain
<1>13. ASSUME NEW i \in 1..n PROVE v[i] = MergeOne(v[i - 1], in[i])
  <2>1. i - 1 \in 0..n
    BY <1>1
  <2>2. v[i - 1] \in MergeState
    BY <1>12, <2>1 DEF FoldRun
  <2>3. v[i] = step[<<i, v[i - 1]>>]
    BY <1>12 DEF FoldRun
  <2>. QED BY <2>2, <2>3
<1>14. v \in [0..n -> MergeState] /\ v[0] = base /\ v[n] = k[DOMAIN in]
  <2>. HIDE DEF step, n, base
  <2>. QED BY <1>1, <1>12 DEF FoldRun
<1>15. v[n] = FoldLeft(MergeOne, base, in)
  <2>. HIDE DEF n, base
  <2>. QED BY <1>9, <1>14
<1>. QED BY <1>13, <1>14, <1>15 DEF WalkRun

(* d is c with r put before position p.                                    *)
Spliced(c, p, r, d) ==
  /\ d \in Seq(Matching) /\ Len(d) = Len(c) + 1
  /\ \A i \in 1..Len(c) + 1 :
       d[i] = IF i < p THEN c[i] ELSE IF i = p THEN r ELSE c[i - 1]

LEMMA SplicedIs ==
  ASSUME NEW c \in Seq(Matching), NEW r \in Matching
  PROVE  /\ Spliced(c, Len(c) + 1, r, Append(c, r)) /\ ToSet(Append(c, r)) = ToSet(c) \cup {r}
         /\ \A p \in 1..Len(c) + 1 : /\ Spliced(c, p, r, InsertAt(c, p, r))
                                     /\ ToSet(InsertAt(c, p, r)) = ToSet(c) \cup {r}
<1>1. Spliced(c, Len(c) + 1, r, Append(c, r))
  BY DEF Spliced
<1>2. ASSUME NEW p \in 1..Len(c) + 1 PROVE Spliced(c, p, r, InsertAt(c, p, r))
  <2>1. /\ InsertAt(c, p, r) \in Seq(Matching)
        /\ Len(InsertAt(c, p, r)) = Len(c) + 1
        /\ \A i \in 1..Len(c) + 1 :
             InsertAt(c, p, r)[i] = IF i < p THEN c[i] ELSE IF i = p THEN r ELSE c[i - 1]
    BY InsertAtProperties
  <2>. QED BY <2>1 DEF Spliced
<1>. QED BY <1>1, <1>2, ToSetGrowth

LEMMA SplicedAscending ==
  ASSUME NEW c \in Seq(Matching), Ascending(c), NEW r \in Matching,
         NEW p \in 1..Len(c) + 1, NEW d, Spliced(c, p, r, d),
         \A j \in 1..Len(c) : j < p => c[j].sort <= r.sort,
         \A j \in 1..Len(c) : p <= j => r.sort <= c[j].sort
  PROVE  Ascending(d)
<1>. SUFFICES ASSUME NEW i \in 1..Len(c) + 1, NEW j \in 1..Len(c) + 1, i < j
              PROVE  d[i].sort <= d[j].sort
  BY DEF Ascending, Spliced
<1>0. Len(c) \in Nat /\ p \in Nat /\ i \in Nat /\ j \in Nat
  OBVIOUS
<1>1. \A x \in 1..Len(c), y \in 1..Len(c) : x < y => c[x].sort <= c[y].sort
  BY DEF Ascending
<1>2. /\ d[i] = IF i < p THEN c[i] ELSE IF i = p THEN r ELSE c[i - 1]
      /\ d[j] = IF j < p THEN c[j] ELSE IF j = p THEN r ELSE c[j - 1]
  BY DEF Spliced
<1>3. CASE j < p
  <2>1. d[i] = c[i] /\ d[j] = c[j] /\ i \in 1..Len(c) /\ j \in 1..Len(c)
    BY <1>0, <1>2, <1>3
  <2>. QED BY <1>1, <2>1
<1>4. CASE j = p
  <2>1. d[i] = c[i] /\ d[j] = r /\ i \in 1..Len(c) /\ i < p
    BY <1>0, <1>2, <1>4
  <2>. QED BY <2>1
<1>5. CASE p < j
  <2>1. d[j] = c[j - 1] /\ j - 1 \in 1..Len(c) /\ p <= j - 1
    BY <1>0, <1>2, <1>5
  <2>2. CASE i < p
    <3>1. d[i] = c[i] /\ i \in 1..Len(c) /\ i < j - 1
      BY <1>0, <1>2, <2>1, <2>2
    <3>. QED BY <1>1, <2>1, <3>1
  <2>3. CASE i = p
    BY <1>2, <2>1, <2>3
  <2>4. CASE p < i
    <3>1. d[i] = c[i - 1] /\ i - 1 \in 1..Len(c) /\ i - 1 < j - 1
      BY <1>0, <1>2, <2>4
    <3>. QED BY <1>1, <2>1, <3>1
  <2>. QED BY <1>0, <2>2, <2>3, <2>4
<1>. QED BY <1>0, <1>3, <1>4, <1>5

(* What holds of the walk after i records: the cache is sorted and holds all *)
(* of them, what lies behind sorts before all that is to come, and nothing   *)
(* changed that is not reported.                                           *)
WalkInv(m, c, in, i) ==
  /\ m \in MergeState
  /\ Ascending(m.cache)
  /\ ToSet(m.cache) = ToSet(c) \cup {in[j] : j \in 1..i}
  /\ \A l \in i + 1..Len(in), j \in 1..Len(m.cache) :
       j < m.pos \/ m.appending => m.cache[j].sort <= in[l].sort
  /\ ~m.changed => m.cache = c

LEMMA WalkStep ==
  ASSUME NEW c \in Seq(Matching), NEW in \in Seq(Matching), Ascending(in),
         NEW i \in 1..Len(in), NEW m, WalkInv(m, c, in, i - 1)
  PROVE  WalkInv(MergeOne(m, in[i]), c, in, i)
<1>. DEFINE r == in[i]
            d == m.cache
            new == MergeOne(m, r)
<1>0. /\ i \in Nat /\ Len(in) \in Nat /\ (i - 1) + 1 = i
      /\ m \in MergeState /\ r \in Matching /\ r.sort \in Int
  BY MatchingFacts DEF WalkInv
<1>1. /\ d \in Seq(Matching) /\ Len(d) \in Nat /\ m.pos \in 1..Len(d) + 1
      /\ m.appending \in BOOLEAN
      /\ \A j \in 1..Len(d) : d[j] \in Matching /\ d[j].sort \in Int
  BY <1>0, MatchingFacts DEF MergeState
<1>2. \A j \in 1..Len(d) : j < m.pos \/ m.appending => d[j].sort <= r.sort
  BY <1>0 DEF WalkInv
<1>3. \A l \in i + 1..Len(in) : r.sort <= in[l].sort /\ in[l].sort \in Int
  <2>. SUFFICES ASSUME NEW l \in i + 1..Len(in) PROVE r.sort <= in[l].sort /\ in[l].sort \in Int
    OBVIOUS
  <2>1. l \in DOMAIN in /\ i \in DOMAIN in /\ i < l /\ in[l] \in Matching
    BY <1>0
  <2>. QED BY <2>1, MatchingFacts DEF Ascending
<1>4. {in[j] : j \in 1..i} = {in[j] : j \in 1..i - 1} \cup {r}
  <2>1. 1..i = (1..i - 1) \cup {i}
    BY <1>0
  <2>. QED BY <2>1
<1>5. /\ new \in MergeState
      /\ \/ Appends(m, r, new)
         \/ \E p \in 1..Len(d) : Meets(m, r, p, new) \/ Inserts(m, r, p, new)
  BY <1>0, MergeOneIs
<1>6. /\ Ascending(d) /\ ToSet(d) = ToSet(c) \cup {in[j] : j \in 1..i - 1}
      /\ ~m.changed => d = c
  BY DEF WalkInv
<1>. HIDE DEF new, d, r
<1>7. CASE Appends(m, r, new)
  <2>1. new.cache = Append(d, r) /\ new.pos = m.pos /\ new.appending = TRUE /\ new.changed = TRUE
    BY <1>7 DEF Appends, d
  <2>2. \A j \in 1..Len(d) : d[j].sort <= r.sort
    <3>1. m.appending \/ \A j \in m.pos..Len(d) : d[j].sort < r.sort
      BY <1>7 DEF Appends, d
    <3>2. ASSUME NEW j \in 1..Len(d), ~(j < m.pos \/ m.appending) PROVE d[j].sort <= r.sort
      <4>1. j \in m.pos..Len(d)
        BY <1>1, <3>2
      <4>. QED BY <1>0, <1>1, <3>1, <3>2, <4>1
    <3>. QED BY <1>2, <3>2
  <2>3. Spliced(d, Len(d) + 1, r, new.cache) /\ ToSet(new.cache) = ToSet(d) \cup {r}
    BY <1>0, <1>1, <2>1, SplicedIs
  <2>4. Ascending(new.cache)
    <3>1. /\ \A j \in 1..Len(d) : j < Len(d) + 1 => d[j].sort <= r.sort
          /\ \A j \in 1..Len(d) : Len(d) + 1 <= j => r.sort <= d[j].sort
          /\ Len(d) + 1 \in 1..Len(d) + 1
      BY <1>1, <2>2
    <3>. QED BY <1>0, <1>1, <1>6, <2>3, <3>1, SplicedAscending
  <2>5. \A j \in 1..Len(new.cache) : new.cache[j].sort <= r.sort /\ new.cache[j].sort \in Int
    <3>1. /\ Len(d) \in Nat /\ Len(new.cache) = Len(d) + 1
          /\ \A j \in 1..Len(d) + 1 : new.cache[j] = IF j < Len(d) + 1 THEN d[j] ELSE r
      BY <1>1, <2>3 DEF Spliced
    <3>2. ASSUME NEW j \in 1..Len(d) + 1 PROVE new.cache[j].sort <= r.sort /\ new.cache[j].sort \in Int
      <4>1. CASE j \in 1..Len(d)
        BY <1>1, <2>2, <3>1, <4>1
      <4>2. CASE j = Len(d) + 1
        BY <1>0, <3>1, <4>2
      <4>. QED BY <3>1, <4>1, <4>2
    <3>. QED BY <3>1, <3>2
  <2>6. \A l \in i + 1..Len(in), j \in 1..Len(new.cache) : new.cache[j].sort <= in[l].sort
    <3>1. r.sort \in Int
      BY <1>0
    <3>. QED BY <1>3, <2>5, <3>1
  <2>7. ToSet(new.cache) = ToSet(c) \cup {in[j] : j \in 1..i}
    BY <1>4, <1>6, <2>3
  <2>8. new \in MergeState
    BY <1>5
  <2>9. WalkInv(new, c, in, i)
    BY <2>1, <2>4, <2>6, <2>7, <2>8 DEF WalkInv
  <2>. QED BY <2>9 DEF new, r
<1>8. ASSUME NEW p \in 1..Len(d), Meets(m, r, p, new) PROVE WalkInv(new, c, in, i)
  <2>1. /\ new.cache = d /\ new.pos = p + 1 /\ new.appending = m.appending /\ new.changed = m.changed
        /\ d[p] = r /\ \A j \in m.pos..p - 1 : d[j].sort < r.sort
    BY <1>8 DEF Meets, d
  <2>2. r \in ToSet(d)
    BY <1>1, <2>1, ToSetProperties
  <2>3. ASSUME NEW j \in 1..Len(d), j < p + 1 \/ m.appending PROVE d[j].sort <= r.sort
    <3>0. j \in Nat /\ p \in Nat /\ m.pos \in Nat /\ d[j].sort \in Int /\ r.sort \in Int
      <4>1. Len(d) \in Nat /\ m.pos \in 1..Len(d) + 1
        BY <1>1
      <4>2. j \in Nat /\ p \in Nat /\ m.pos \in Nat
        BY <4>1
      <4>3. d[j].sort \in Int
        BY <1>1
      <4>4. r.sort \in Int
        BY <1>0
      <4>. QED BY <4>2, <4>3, <4>4
    <3>1. CASE j < m.pos \/ m.appending
      BY <1>2, <3>0, <3>1
    <3>2. CASE ~(j < m.pos \/ m.appending) /\ j < p
      <4>1. j \in m.pos..p - 1
        BY <3>0, <3>2
      <4>. QED BY <2>1, <3>0, <4>1
    <3>3. CASE j = p
      BY <2>1, <3>0, <3>3
    <3>. QED BY <2>3, <3>0, <3>1, <3>2, <3>3
  <2>4. \A l \in i + 1..Len(in), j \in 1..Len(d) : j < p + 1 \/ m.appending => d[j].sort <= in[l].sort
    <3>1. r.sort \in Int /\ \A j \in 1..Len(d) : d[j].sort \in Int
      BY <1>0, <1>1
    <3>2. \A j \in 1..Len(d) : j < p + 1 \/ m.appending => d[j].sort <= r.sort
      BY <2>3
    <3>. QED BY <1>3, <3>1, <3>2
  <2>5. ToSet(d) = ToSet(c) \cup {in[j] : j \in 1..i}
    BY <1>4, <1>6, <2>2
  <2>6. ToSet(new.cache) = ToSet(c) \cup {in[j] : j \in 1..i} /\ Ascending(new.cache)
    BY <1>6, <2>1, <2>5
  <2>7. \A l \in i + 1..Len(in), j \in 1..Len(new.cache) :
          j < new.pos \/ new.appending => new.cache[j].sort <= in[l].sort
    BY <2>1, <2>4
  <2>8. ~new.changed => new.cache = c
    BY <1>6, <2>1
  <2>. QED BY <1>5, <2>6, <2>7, <2>8 DEF WalkInv
<1>9. ASSUME NEW p \in 1..Len(d), Inserts(m, r, p, new) PROVE WalkInv(new, c, in, i)
  <2>1. /\ new.cache = InsertAt(d, p, r) /\ new.pos = p + 1 /\ new.appending = m.appending
        /\ new.changed = TRUE /\ r.sort <= d[p].sort
        /\ \A j \in m.pos..p - 1 : d[j].sort < r.sort
    BY <1>9 DEF Inserts, d
  <2>2. p \in 1..Len(d) + 1
    BY <1>1
  <2>3. Spliced(d, p, r, new.cache) /\ ToSet(new.cache) = ToSet(d) \cup {r}
    BY <1>0, <1>1, <2>1, <2>2, SplicedIs
  <2>4. \A j \in 1..Len(d) : j < p => d[j].sort <= r.sort
    <3>. SUFFICES ASSUME NEW j \in 1..Len(d), j < p PROVE d[j].sort <= r.sort
      OBVIOUS
    <3>1. CASE j < m.pos
      BY <1>2, <3>1
    <3>2. CASE ~(j < m.pos)
      <4>1. j \in m.pos..p - 1
        BY <1>1, <3>2
      <4>2. d[j].sort < r.sort
        BY <2>1, <4>1
      <4>. QED BY <1>0, <1>1, <4>2
    <3>. QED BY <3>1, <3>2
  <2>5. \A j \in 1..Len(d) : p <= j => r.sort <= d[j].sort
    <3>. SUFFICES ASSUME NEW j \in 1..Len(d), p <= j PROVE r.sort <= d[j].sort
      OBVIOUS
    <3>1. d[p].sort <= d[j].sort
      <4>1. p \in DOMAIN d /\ j \in DOMAIN d /\ d[j].sort \in Int
        BY <1>1
      <4>2. CASE p = j
        BY <4>1, <4>2
      <4>3. CASE p < j
        BY <1>6, <4>1, <4>3 DEF Ascending
      <4>. QED BY <1>1, <4>2, <4>3
    <3>. QED BY <1>0, <1>1, <2>1, <3>1
  <2>6. Ascending(new.cache)
    BY <1>0, <1>1, <1>6, <2>2, <2>3, <2>4, <2>5, SplicedAscending
  <2>7. \A j \in 1..Len(new.cache) : j < p + 1 \/ m.appending => new.cache[j].sort <= r.sort /\ new.cache[j].sort \in Int
    <3>. SUFFICES ASSUME NEW j \in 1..Len(d) + 1, j < p + 1 \/ m.appending
                  PROVE  new.cache[j].sort <= r.sort /\ new.cache[j].sort \in Int
      BY <2>3 DEF Spliced
    <3>1. new.cache[j] = IF j < p THEN d[j] ELSE IF j = p THEN r ELSE d[j - 1]
      BY <2>3 DEF Spliced
    <3>2. CASE j < p
      BY <1>1, <2>4, <3>1, <3>2
    <3>3. CASE j = p
      BY <1>0, <3>1, <3>3
    <3>4. CASE p < j
      <4>1. new.cache[j] = d[j - 1] /\ j - 1 \in 1..Len(d) /\ m.appending
        BY <1>1, <3>1, <3>4
      <4>. QED BY <1>1, <1>2, <4>1
    <3>. QED BY <3>2, <3>3, <3>4
  <2>8. \A l \in i + 1..Len(in), j \in 1..Len(new.cache) : j < p + 1 \/ m.appending => new.cache[j].sort <= in[l].sort
    <3>1. r.sort \in Int
      BY <1>0
    <3>2. ASSUME NEW l \in i + 1..Len(in), NEW j \in 1..Len(new.cache), j < p + 1 \/ m.appending
          PROVE  new.cache[j].sort <= in[l].sort
      <4>1. r.sort <= in[l].sort /\ in[l].sort \in Int
        BY <1>3
      <4>2. new.cache[j].sort <= r.sort /\ new.cache[j].sort \in Int
        BY <2>7, <3>2
      <4>. QED BY <3>1, <4>1, <4>2
    <3>. QED BY <3>2
  <2>9. ToSet(new.cache) = ToSet(c) \cup {in[j] : j \in 1..i}
    BY <1>4, <1>6, <2>3
  <2>. QED BY <1>5, <2>1, <2>6, <2>8, <2>9 DEF WalkInv
<1>. QED BY <1>5, <1>7, <1>8, <1>9 DEF new, r

(* The merge of the sorted feed as a whole.                                *)
LEMMA SortedMergeIs ==
  ASSUME NEW c \in Seq(Matching), NEW in \in Seq(Matching), Ascending(c), Ascending(in)
  PROVE  /\ SortedMerge(c, in).cache \in Seq(Matching)
         /\ Ascending(SortedMerge(c, in).cache)
         /\ ToSet(SortedMerge(c, in).cache) = ToSet(c) \cup ToSet(in)
         /\ ~SortedMerge(c, in).changed => SortedMerge(c, in).cache = c
<1>1. CASE c = <<>>
  <2>1. SortedMerge(c, in) = [cache |-> in, changed |-> in # <<>>]
    BY <1>1 DEF SortedMerge
  <2>2. ToSet(c) = {}
    BY <1>1 DEF ToSet
  <2>3. SortedMerge(c, in).cache = in
    BY <2>1
  <2>4. SortedMerge(c, in).changed = (in # <<>>)
    BY <2>1
  <2>5. ~SortedMerge(c, in).changed => in = <<>>
    BY <2>4
  <2>. QED BY <1>1, <2>2, <2>3, <2>5
<1>2. CASE c # <<>>
  <2>. DEFINE n == Len(in)
              last == FoldLeft(MergeOne, WalkStart(c), in)
  <2>1. SortedMerge(c, in) = [cache |-> last.cache, changed |-> last.changed]
    BY <1>2 DEF SortedMerge, WalkStart
  <2>2. PICK v : WalkRun(v, c, in)
    BY WalkChain
  <2>3. /\ n \in Nat /\ v[0] = WalkStart(c) /\ v[n] = last
        /\ \A i \in 1..n : v[i] = MergeOne(v[i - 1], in[i])
    BY <2>2 DEF WalkRun
  <2>. DEFINE T == {i \in 0..n : WalkInv(v[i], c, in, i)}
  <2>4. 0 \in T
    <3>1. WalkStart(c) \in MergeState
      BY DEF WalkStart, MergeState
    <3>2. 1..0 = {} /\ \A j \in 1..Len(c) : ~(j < 1)
      OBVIOUS
    <3>3. WalkInv(WalkStart(c), c, in, 0)
      BY <3>1, <3>2 DEF WalkInv, WalkStart
    <3>. QED BY <2>3, <3>3
  <2>5. ASSUME NEW i \in 1..n, i - 1 \in T PROVE i \in T
    <3>1. WalkInv(v[i - 1], c, in, i - 1)
      BY <2>5
    <3>2. WalkInv(MergeOne(v[i - 1], in[i]), c, in, i)
      BY <3>1, WalkStep
    <3>. QED BY <2>3, <3>2
  <2>6. 0..n \subseteq T
    <3>. HIDE DEF T, n
    <3>. QED BY <2>3, <2>4, <2>5, UpToInduction
  <2>7. WalkInv(last, c, in, n)
    BY <2>3, <2>6
  <2>8. ToSet(in) = {in[j] : j \in 1..n}
    BY ToSetProperties
  <2>. HIDE DEF last
  <2>. QED BY <2>1, <2>7, <2>8 DEF WalkInv, MergeState
<1>. QED BY <1>1, <1>2

-----------------------------------------------------------------------------
(* The updates of the keyed feed.                                          *)

OnePerKey(c) == \A i, j \in 1..Len(c) : i # j => c[i].key # c[j].key

(* A record takes the place of the one with its key, or the end.            *)
LEMMA UpsertIs ==
  ASSUME NEW c \in Seq(Matching), NEW r \in Matching
  PROVE  /\ Upsert(c, r) \in Seq(Matching)
         /\ \/ /\ \A i \in 1..Len(c) : c[i].key # r.key
               /\ Upsert(c, r) = Append(c, r)
            \/ \E p \in 1..Len(c) : c[p].key = r.key /\ Upsert(c, r) = [c EXCEPT ![p] = r]
<1>. DEFINE I == {i \in 1..Len(c) : c[i].key = r.key}
            at == IF I # {} THEN Min(I) ELSE 0
<1>0. Len(c) \in Nat
  OBVIOUS
<1>1. Upsert(c, r) = IF at = 0 THEN Append(c, r) ELSE [c EXCEPT ![at] = r]
  BY DEF Upsert, SelectInSeq, KeyOf
<1>2. CASE I = {}
  <2>1. Upsert(c, r) = Append(c, r)
    BY <1>1, <1>2
  <2>. QED BY <1>2, <2>1
<1>3. CASE I # {}
  <2>1. I \in SUBSET (1..Len(c))
    OBVIOUS
  <2>2. Min(I) \in I
    <3>. HIDE DEF I
    <3>. QED BY <1>0, <1>3, <2>1, MinIsPosition
  <2>3. PICK p \in 1..Len(c) : p = Min(I) /\ c[p].key = r.key
    BY <2>2
  <2>4. at = p /\ p # 0
    BY <1>3, <2>3
  <2>5. Upsert(c, r) = [c EXCEPT ![p] = r]
    BY <1>1, <2>4
  <2>6. [c EXCEPT ![p] = r] \in Seq(Matching)
    OBVIOUS
  <2>. QED BY <2>3, <2>5, <2>6
<1>. QED BY <1>2, <1>3

(* ... which leaves the others, and where they are.                        *)
LEMMA UpsertProperties ==
  ASSUME NEW c \in Seq(Matching), NEW r \in Matching, OnePerKey(c)
  PROVE  /\ OnePerKey(Upsert(c, r))
         /\ ToSet(Upsert(c, r)) = {x \in ToSet(c) : x.key # r.key} \cup {r}
         /\ Len(c) <= Len(Upsert(c, r))
         /\ \A i \in 1..Len(c) : Upsert(c, r)[i].key = c[i].key
<1>. DEFINE d == Upsert(c, r)
<1>0. /\ Len(c) \in Nat /\ d \in Seq(Matching) /\ Len(d) \in Nat
      /\ ToSet(c) = {c[i] : i \in 1..Len(c)} /\ ToSet(d) = {d[i] : i \in 1..Len(d)}
  <2>1. d \in Seq(Matching)
    BY UpsertIs
  <2>. HIDE DEF d
  <2>2. \A e \in Seq(Matching) : Len(e) \in Nat /\ ToSet(e) = {e[i] : i \in 1..Len(e)}
    BY ToSetProperties
  <2>. QED BY <2>1, <2>2
<1>1. CASE /\ \A i \in 1..Len(c) : c[i].key # r.key
           /\ d = Append(c, r)
  <2>1. /\ Len(d) = Len(c) + 1 /\ d[Len(c) + 1] = r
        /\ \A i \in 1..Len(c) : d[i] = c[i]
    BY <1>1
  <2>2. ToSet(d) = ToSet(c) \cup {r}
    BY <1>1, ToSetGrowth
  <2>3. \A x \in ToSet(c) : x.key # r.key
    BY <1>0, <1>1
  <2>4. OnePerKey(d)
    <3>. SUFFICES ASSUME NEW i \in 1..Len(c) + 1, NEW j \in 1..Len(c) + 1, i # j
                  PROVE  d[i].key # d[j].key
      BY <2>1 DEF OnePerKey
    <3>. HIDE DEF d
    <3>1. CASE i \in 1..Len(c) /\ j \in 1..Len(c)
      BY <2>1, <3>1 DEF OnePerKey
    <3>2. CASE i = Len(c) + 1
      <4>1. j \in 1..Len(c)
        BY <1>0, <3>2
      <4>. QED BY <1>1, <2>1, <3>2, <4>1
    <3>3. CASE j = Len(c) + 1
      <4>1. i \in 1..Len(c)
        BY <1>0, <3>3
      <4>. QED BY <1>1, <2>1, <3>3, <4>1
    <3>. QED BY <1>0, <3>1, <3>2, <3>3
  <2>. HIDE DEF d
  <2>. QED BY <1>0, <2>1, <2>2, <2>3, <2>4 DEF d
<1>2. ASSUME NEW p \in 1..Len(c), c[p].key = r.key, d = [c EXCEPT ![p] = r]
      PROVE  /\ OnePerKey(d)
             /\ ToSet(d) = {x \in ToSet(c) : x.key # r.key} \cup {r}
             /\ Len(c) <= Len(d)
             /\ \A i \in 1..Len(c) : d[i].key = c[i].key
  <2>1. /\ Len(d) = Len(c) /\ d[p] = r
        /\ \A i \in 1..Len(c) : i # p => d[i] = c[i]
    BY <1>2
  <2>. HIDE DEF d
  <2>2. \A i \in 1..Len(c) : d[i].key = c[i].key
    BY <1>2, <2>1
  <2>3. OnePerKey(d)
    BY <2>1, <2>2 DEF OnePerKey
  <2>4. \A i \in 1..Len(c) : c[i].key # r.key <=> i # p
    BY <1>2 DEF OnePerKey
  <2>5. ToSet(d) \subseteq {x \in ToSet(c) : x.key # r.key} \cup {r}
    BY <1>0, <2>1, <2>4
  <2>6. {x \in ToSet(c) : x.key # r.key} \subseteq ToSet(d)
    BY <1>0, <2>1, <2>4
  <2>7. r \in ToSet(d)
    BY <1>0, <2>1
  <2>. QED BY <1>0, <2>1, <2>2, <2>3, <2>5, <2>6, <2>7
<1>3. \/ /\ \A i \in 1..Len(c) : c[i].key # r.key
         /\ d = Append(c, r)
      \/ \E p \in 1..Len(c) : c[p].key = r.key /\ d = [c EXCEPT ![p] = r]
  BY UpsertIs
<1>. HIDE DEF d
<1>. QED BY <1>1, <1>2, <1>3 DEF d

(* The run of the updates along a batch.                                   *)
UpdateRun(v, c, in) ==
  /\ v \in [0..Len(in) -> Seq(Matching)]
  /\ v[0] = c /\ v[Len(in)] = FoldLeft(Upsert, c, in)
  /\ \A i \in 1..Len(in) : v[i] = Upsert(v[i - 1], in[i])

LEMMA UpdateChain ==
  ASSUME NEW c \in Seq(Matching), NEW in \in Seq(Matching)
  PROVE  \E v : UpdateRun(v, c, in)
<1>. DEFINE n == Len(in)
            Values == Seq(Matching)
            step == [p \in (1..n) \X Values |-> Upsert(p[2], in[p[1]])]
            k == CHOOSE f : f = [u \in SUBSET (DOMAIN in) |->
                   IF u = {} THEN c ELSE Upsert(f[u \ {Max(u)}], in[Max(u)])]
<1>1. n \in Nat /\ DOMAIN in = 1..n /\ \A i \in 1..n : in[i] \in Matching
  OBVIOUS
<1>2. step \in [(1..n) \X Values -> Values]
  BY <1>1, UpsertIs
<1>3. c \in Values
  OBVIOUS
<1>4. PICK h : FoldSolution(h, n, Values, c, step)
  <2>. HIDE DEF step, n, Values
  <2>. QED BY <1>1, <1>2, <1>3, FoldExists
<1>5. \A u \in SUBSET (1..n) : u # {} => Max(u) \in 1..n
  BY <1>1, MaxIsPosition
<1>6. \A u \in SUBSET (1..n) :
        h[u] = IF u = {} THEN c ELSE Upsert(h[u \ {Max(u)}], in[Max(u)])
  BY <1>4, <1>5 DEF FoldSolution
<1>7. h = [u \in SUBSET (DOMAIN in) |-> IF u = {} THEN c ELSE Upsert(h[u \ {Max(u)}], in[Max(u)])]
  BY <1>1, <1>4, <1>6 DEF FoldSolution
<1>8. k = [u \in SUBSET (DOMAIN in) |-> IF u = {} THEN c ELSE Upsert(k[u \ {Max(u)}], in[Max(u)])]
  BY <1>7
<1>9. FoldLeft(Upsert, c, in) = k[DOMAIN in]
  BY DEF FoldLeft, MapThenFoldSet
<1>. HIDE DEF k
<1>10. k[{}] = c
  BY <1>8
<1>11. ASSUME NEW u \in SUBSET (1..n), u # {}, k[u \ {Max(u)}] \in Values
       PROVE  k[u] = step[<<Max(u), k[u \ {Max(u)}]>>]
  <2>1. k[u] = Upsert(k[u \ {Max(u)}], in[Max(u)])
    BY <1>1, <1>8, <1>11
  <2>2. <<Max(u), k[u \ {Max(u)}]>> \in (1..n) \X Values
    BY <1>5, <1>11
  <2>. QED BY <2>1, <2>2
<1>12. PICK v : FoldRun(v, n, Values, c, step, k[1..n])
  <2>. HIDE DEF step, n, Values
  <2>. QED BY <1>1, <1>2, <1>3, <1>10, <1>11, FoldChain
<1>13. ASSUME NEW i \in 1..n PROVE v[i] = Upsert(v[i - 1], in[i])
  <2>1. i - 1 \in 0..n
    BY <1>1
  <2>2. v[i - 1] \in Values
    BY <1>12, <2>1 DEF FoldRun
  <2>3. v[i] = step[<<i, v[i - 1]>>]
    BY <1>12 DEF FoldRun
  <2>. QED BY <2>2, <2>3
<1>. QED BY <1>1, <1>9, <1>12, <1>13 DEF FoldRun, UpdateRun

(* What the first i records of a batch make of a cache: the last of them     *)
(* for each key, and the old records with other keys.                      *)
LastOfFirst(in, i) == {in[j] : j \in {j \in 1..i : \A l \in j + 1..i : in[l].key # in[j].key}}
Overwritten(c, in, i) == {x \in ToSet(c) : \E j \in 1..i : in[j].key = x.key}
Updated(c, in, i) == LastOfFirst(in, i) \cup (ToSet(c) \ Overwritten(c, in, i))

UpdateInv(s, c, in, i) ==
  /\ s \in Seq(Matching)
  /\ OnePerKey(s)
  /\ Len(c) <= Len(s) /\ \A j \in 1..Len(c) : s[j].key = c[j].key
  /\ ToSet(s) = Updated(c, in, i)

LEMMA UpdatedStep ==
  ASSUME NEW c \in Seq(Matching), NEW in \in Seq(Matching), NEW i \in 1..Len(in)
  PROVE  Updated(c, in, i) = {x \in Updated(c, in, i - 1) : x.key # in[i].key} \cup {in[i]}
<1>. DEFINE r == in[i]
            Old == {x \in Updated(c, in, i - 1) : x.key # r.key}
<1>0. Len(in) \in Nat /\ i \in Nat /\ 1..i = (1..i - 1) \cup {i}
  OBVIOUS
<1>1. r \in Updated(c, in, i)
  <2>1. i \in 1..i /\ \A l \in i + 1..i : FALSE
    BY <1>0
  <2>2. r \in LastOfFirst(in, i)
    BY <2>1 DEF LastOfFirst
  <2>. QED BY <2>2 DEF Updated
<1>2. Old \subseteq Updated(c, in, i)
  <2>. SUFFICES ASSUME NEW x \in Updated(c, in, i - 1), x.key # r.key PROVE x \in Updated(c, in, i)
    OBVIOUS
  <2>1. CASE x \in LastOfFirst(in, i - 1)
    <3>1. PICK j \in 1..i - 1 : in[j] = x /\ \A l \in j + 1..i - 1 : in[l].key # in[j].key
      BY <2>1 DEF LastOfFirst
    <3>2. \A l \in j + 1..i : l \in j + 1..i - 1 \/ l = i
      BY <1>0
    <3>3. j \in 1..i /\ \A l \in j + 1..i : in[l].key # in[j].key
      BY <1>0, <3>1, <3>2
    <3>. QED BY <3>1, <3>3 DEF Updated, LastOfFirst
  <2>2. CASE x \in ToSet(c) /\ x \notin Overwritten(c, in, i - 1)
    <3>1. \A j \in 1..i : in[j].key # x.key
      BY <1>0, <2>2 DEF Overwritten
    <3>. QED BY <2>2, <3>1 DEF Updated, Overwritten
  <2>. QED BY <2>1, <2>2 DEF Updated
<1>3. ASSUME NEW x \in Updated(c, in, i), x # r PROVE x \in Old
  <2>1. CASE x \in LastOfFirst(in, i)
    <3>1. PICK j \in 1..i : in[j] = x /\ \A l \in j + 1..i : in[l].key # in[j].key
      BY <2>1 DEF LastOfFirst
    <3>2. j # i
      BY <1>3, <3>1
    <3>3. j \in 1..i - 1 /\ i \in j + 1..i
      BY <1>0, <3>2
    <3>4. x.key # r.key
      BY <3>1, <3>3
    <3>5. \A l \in j + 1..i - 1 : l \in j + 1..i
      BY <1>0
    <3>6. x \in LastOfFirst(in, i - 1)
      BY <3>1, <3>3, <3>5 DEF LastOfFirst
    <3>. QED BY <3>4, <3>6 DEF Updated
  <2>2. CASE x \in ToSet(c) /\ x \notin Overwritten(c, in, i)
    <3>1. x \notin Overwritten(c, in, i - 1) /\ x.key # r.key
      BY <1>0, <2>2 DEF Overwritten
    <3>. QED BY <2>2, <3>1 DEF Updated
  <2>. QED BY <2>1, <2>2 DEF Updated
<1>. HIDE DEF Old, r
<1>4. Updated(c, in, i) = Old \cup {r}
  BY <1>1, <1>2, <1>3
<1>. QED BY <1>4 DEF Old, r

(* The merge of the keyed feed as a whole.                                 *)
LEMMA KeyedMergeIs ==
  ASSUME NEW c \in Seq(Matching), NEW in \in Seq(Matching)
  PROVE  /\ KeyedMerge(c, in).cache \in Seq(Matching)
         /\ ~KeyedMerge(c, in).changed => KeyedMerge(c, in).cache = c
         /\ OnePerKey(c) => UpdateInv(KeyedMerge(c, in).cache, c, in, Len(in))
<1>. DEFINE n == Len(in)
            last == FoldLeft(Upsert, c, in)
<1>0. KeyedMerge(c, in).cache = last /\ KeyedMerge(c, in).changed = (in # <<>>)
  BY DEF KeyedMerge
<1>1. PICK v : UpdateRun(v, c, in)
  BY UpdateChain
<1>2. /\ n \in Nat /\ v \in [0..n -> Seq(Matching)] /\ v[0] = c /\ v[n] = last
      /\ \A i \in 1..n : v[i] = Upsert(v[i - 1], in[i])
  BY <1>1 DEF UpdateRun
<1>3. last \in Seq(Matching)
  BY <1>2
<1>4. in = <<>> => last = c
  BY <1>2
<1>. HIDE DEF last
<1>5. ASSUME OnePerKey(c) PROVE UpdateInv(last, c, in, n)
  <2>. DEFINE T == {i \in 0..n : UpdateInv(v[i], c, in, i)}
  <2>1. 0 \in T
    <3>1. Updated(c, in, 0) = ToSet(c)
      <4>1. 1..0 = {}
        OBVIOUS
      <4>2. LastOfFirst(in, 0) = {} /\ Overwritten(c, in, 0) = {}
        BY <4>1 DEF LastOfFirst, Overwritten
      <4>. QED BY <4>2 DEF Updated
    <3>2. UpdateInv(c, c, in, 0)
      BY <1>5, <3>1 DEF UpdateInv
    <3>. QED BY <1>2, <3>2
  <2>2. ASSUME NEW i \in 1..n, i - 1 \in T PROVE i \in T
    <3>. DEFINE s == v[i - 1]
                d == Upsert(s, in[i])
    <3>1. UpdateInv(s, c, in, i - 1) /\ in[i] \in Matching /\ v[i] = d /\ s \in Seq(Matching)
      BY <1>2, <2>2 DEF UpdateInv
    <3>2. /\ OnePerKey(d) /\ d \in Seq(Matching)
          /\ ToSet(d) = {x \in ToSet(s) : x.key # in[i].key} \cup {in[i]}
          /\ Len(s) <= Len(d)
          /\ \A j \in 1..Len(s) : d[j].key = s[j].key
      <4>1. s \in Seq(Matching) /\ in[i] \in Matching /\ OnePerKey(s)
        BY <3>1 DEF UpdateInv
      <4>. HIDE DEF s
      <4>. QED BY <4>1, UpsertProperties, UpsertIs
    <3>3. ToSet(d) = Updated(c, in, i)
      BY <3>1, <3>2, UpdatedStep DEF UpdateInv
    <3>4. Len(c) <= Len(s) /\ \A j \in 1..Len(c) : s[j].key = c[j].key
      BY <3>1 DEF UpdateInv
    <3>. HIDE DEF s, d
    <3>5. Len(c) <= Len(d) /\ \A j \in 1..Len(c) : d[j].key = c[j].key
      <4>1. Len(c) \in Nat /\ Len(s) \in Nat /\ Len(d) \in Nat
        BY <3>1, <3>2
      <4>2. \A j \in 1..Len(c) : j \in 1..Len(s)
        BY <3>4, <4>1
      <4>. QED BY <3>2, <3>4, <4>1, <4>2
    <3>6. UpdateInv(d, c, in, i)
      BY <3>2, <3>3, <3>5 DEF UpdateInv
    <3>. QED BY <3>1, <3>6
  <2>3. 0..n \subseteq T
    <3>. HIDE DEF T, n
    <3>. QED BY <1>2, <2>1, <2>2, UpToInduction
  <2>. QED BY <1>2, <2>3
<1>. QED BY <1>0, <1>3, <1>4, <1>5

-----------------------------------------------------------------------------
(* What the feed takes of a batch keeps its order.                         *)
LEMMA FilteredIs ==
  ASSUME NEW batch \in Seq(Record)
  PROVE  /\ Filtered(batch) \in Seq(Matching)
         /\ Ascending(batch) => Ascending(Filtered(batch))
<1>1. Only(batch, Matching) \in Seq(Record) /\ ToSet(Only(batch, Matching)) \subseteq Matching
  BY OnlyIsSeq, OnlyToSet
<1>2. Only(batch, Matching) \in Seq(Matching)
  <2>. DEFINE f == Only(batch, Matching)
  <2>1. f \in Seq(Record) /\ \A i \in 1..Len(f) : f[i] \in ToSet(f)
    BY <1>1, ToSetProperties
  <2>. HIDE DEF f
  <2>2. \A i \in 1..Len(f) : f[i] \in Matching
    BY <1>1, <2>1 DEF f
  <2>3. f \in Seq(Matching)
    BY <2>1, <2>2
  <2>. QED BY <2>3 DEF f
<1>. DEFINE P == {s \in Seq(Record) : Ascending(s) => Ascending(Only(s, Matching))}
<1>3. <<>> \in P
  <2>1. Only(<<>>, Matching) = <<>>
    BY OnlyEmpty
  <2>. QED BY <2>1
<1>4. ASSUME NEW s \in Seq(Record), NEW e \in Record, s \in P PROVE Append(s, e) \in P
  <2>. DEFINE f == Only(s, Matching)
  <2>1. /\ f \in Seq(Record)
        /\ Only(Append(s, e), Matching) = IF e \in Matching THEN Append(f, e) ELSE f
    BY OnlyAppend
  <2>2. ToSet(f) \subseteq ToSet(s)
    BY OnlyToSet
  <2>. HIDE DEF f
  <2>. SUFFICES ASSUME Ascending(Append(s, e)) PROVE Ascending(Only(Append(s, e), Matching))
    BY <1>4
  <2>3. /\ Len(s) \in Nat /\ Len(Append(s, e)) = Len(s) + 1 /\ Append(s, e)[Len(s) + 1] = e
        /\ DOMAIN Append(s, e) = 1..Len(s) + 1
        /\ \A i \in 1..Len(s) : Append(s, e)[i] = s[i] /\ i \in DOMAIN Append(s, e) /\ i < Len(s) + 1
    OBVIOUS
  <2>4. Ascending(s)
    BY <2>3 DEF Ascending
  <2>5. Ascending(f)
    BY <1>4, <2>4 DEF f
  <2>6. \A i \in 1..Len(s) : s[i].sort <= e.sort
    <3>. SUFFICES ASSUME NEW i \in 1..Len(s) PROVE s[i].sort <= e.sort
      OBVIOUS
    <3>1. Len(s) + 1 \in DOMAIN Append(s, e)
      BY <2>3
    <3>2. Append(s, e)[i].sort <= Append(s, e)[Len(s) + 1].sort
      BY <2>3, <3>1 DEF Ascending
    <3>. QED BY <2>3, <3>2
  <2>7. \A x \in ToSet(f) : x.sort <= e.sort
    <3>1. ToSet(s) = {s[i] : i \in 1..Len(s)}
      BY ToSetProperties
    <3>. QED BY <2>2, <2>6, <3>1
  <2>8. \A i \in 1..Len(f) : f[i].sort <= e.sort
    BY <2>1, <2>7, ToSetProperties
  <2>9. Ascending(Append(f, e))
    <3>. SUFFICES ASSUME NEW i \in 1..Len(f) + 1, NEW j \in 1..Len(f) + 1, i < j
                  PROVE  Append(f, e)[i].sort <= Append(f, e)[j].sort
      BY <2>1 DEF Ascending
    <3>1. Len(f) \in Nat /\ i \in 1..Len(f) /\ Append(f, e)[i] = f[i]
      BY <2>1
    <3>2. CASE j \in 1..Len(f)
      <4>1. f[i].sort <= f[j].sort
        BY <2>1, <2>5, <3>1, <3>2 DEF Ascending
      <4>. QED BY <2>1, <3>1, <3>2, <4>1
    <3>3. CASE j = Len(f) + 1
      BY <2>1, <2>8, <3>1, <3>3
    <3>. QED BY <3>1, <3>2, <3>3
  <2>. QED BY <2>1, <2>5, <2>9
<1>5. Seq(Record) \subseteq P
  <2>. HIDE DEF P
  <2>. QED BY <1>3, <1>4, SeqSetInduction
<1>. QED BY <1>2, <1>5 DEF Filtered

-----------------------------------------------------------------------------
(* The record remembered for a key has that key.                           *)
LatestByKey == \A k \in DOMAIN latest : latest[k].key = k

(* Where the last record of a key is.                                      *)
LEMMA LastOfKey ==
  ASSUME NEW in \in Seq(Matching), NEW k, \E r \in ToSet(in) : r.key = k
  PROVE  \E p \in 1..Len(in) :
           /\ LastWith(k, in) = in[p]
           /\ in[p].key = k
           /\ \A l \in p + 1..Len(in) : in[l].key # k
<1>. DEFINE I == {i \in 1..Len(in) : in[i].key = k}
<1>0. Len(in) \in Nat /\ I \in SUBSET (1..Len(in))
  OBVIOUS
<1>1. I # {}
  BY ToSetProperties
<1>2. LastWith(k, in) = in[Max(I)]
  BY <1>1 DEF LastWith, SelectLastInSeq
<1>3. Max(I) \in I /\ \A j \in I : j <= Max(I)
  <2>. HIDE DEF I
  <2>. QED BY <1>0, <1>1, MaxIsPosition
<1>4. PICK p \in I : p = Max(I) /\ \A j \in I : j <= p
  BY <1>3
<1>5. \A l \in p + 1..Len(in) : l \notin I
  BY <1>0, <1>4
<1>6. \A l \in p + 1..Len(in) : in[l].key # k
  BY <1>0, <1>4, <1>5
<1>7. p \in 1..Len(in) /\ in[p].key = k
  BY <1>4
<1>8. LastWith(k, in) = in[p]
  BY <1>2, <1>4
<1>. QED BY <1>6, <1>7, <1>8

LEMMA LatestAfterIs ==
  ASSUME NEW before, NEW in \in Seq(Matching),
         \A k \in DOMAIN before : k \in Key /\ before[k] \in Matching /\ before[k].key = k
  PROVE  /\ \A k \in DOMAIN LatestAfter(before, in) :
              /\ k \in Key /\ LatestAfter(before, in)[k] \in Matching
              /\ LatestAfter(before, in)[k].key = k
         /\ \A c \in Seq(Matching) :
              ToSet(c) = Range(before) => Range(LatestAfter(before, in)) = Updated(c, in, Len(in))
<1>. DEFINE after == LatestAfter(before, in)
            New(k) == \E r \in ToSet(in) : r.key = k
            n == Len(in)
<1>0. /\ n \in Nat /\ ToSet(in) = {in[i] : i \in 1..n} /\ \A i \in 1..n : in[i] \in Matching
  BY ToSetProperties
<1>1. DOMAIN after = {r.key : r \in ToSet(in)} \cup DOMAIN before
  BY DEF LatestAfter
<1>2. ASSUME NEW k \in DOMAIN after, ~New(k) PROVE k \in DOMAIN before /\ after[k] = before[k]
  BY <1>1, <1>2 DEF LatestAfter
<1>3. ASSUME NEW k \in DOMAIN after, New(k)
      PROVE  \E p \in 1..n : after[k] = in[p] /\ in[p].key = k /\ \A l \in p + 1..n : in[l].key # k
  <2>1. after[k] = LastWith(k, in)
    BY <1>1, <1>3 DEF LatestAfter
  <2>. QED BY <1>3, <2>1, LastOfKey
<1>4. ASSUME NEW k \in DOMAIN after PROVE k \in Key /\ after[k] \in Matching /\ after[k].key = k
  <2>1. CASE ~New(k)
    BY <1>2, <2>1
  <2>2. CASE New(k)
    <3>1. PICK p \in 1..n : after[k] = in[p] /\ in[p].key = k
      BY <1>3, <2>2
    <3>. QED BY <1>0, <3>1, MatchingFacts
  <2>. QED BY <2>1, <2>2
<1>5. ASSUME NEW c \in Seq(Matching), ToSet(c) = Range(before)
      PROVE  Range(after) = Updated(c, in, n)
  <2>0. Range(after) = {after[k] : k \in DOMAIN after} /\ ToSet(c) = {before[k] : k \in DOMAIN before}
    BY <1>5 DEF Range
  <2>1. ASSUME NEW k \in DOMAIN after PROVE after[k] \in Updated(c, in, n)
    <3>1. CASE ~New(k)
      <4>1. k \in DOMAIN before /\ after[k] = before[k] /\ after[k].key = k
        BY <1>2, <1>4, <3>1
      <4>2. after[k] \in ToSet(c)
        BY <2>0, <4>1
      <4>3. after[k] \notin Overwritten(c, in, n)
        BY <1>0, <3>1, <4>1 DEF Overwritten
      <4>. QED BY <4>2, <4>3 DEF Updated
    <3>2. CASE New(k)
      <4>1. PICK p \in 1..n : after[k] = in[p] /\ in[p].key = k /\ \A l \in p + 1..n : in[l].key # k
        BY <1>3, <3>2
      <4>2. in[p] \in LastOfFirst(in, n)
        BY <4>1 DEF LastOfFirst
      <4>. QED BY <4>1, <4>2 DEF Updated
    <3>. QED BY <3>1, <3>2
  <2>2. ASSUME NEW x \in LastOfFirst(in, n) PROVE x \in Range(after)
    <3>1. PICK j \in 1..n : x = in[j] /\ \A l \in j + 1..n : in[l].key # in[j].key
      BY DEF LastOfFirst
    <3>2. in[j] \in ToSet(in) /\ New(in[j].key)
      BY <1>0
    <3>3. in[j].key \in DOMAIN after
      BY <1>1, <3>2
    <3>4. PICK p \in 1..n : after[in[j].key] = in[p] /\ in[p].key = in[j].key /\ \A l \in p + 1..n : in[l].key # in[j].key
      BY <1>3, <3>2, <3>3
    <3>5. p = j
      <4>1. CASE p < j
        <5>1. j \in p + 1..n
          BY <1>0, <4>1
        <5>. QED BY <3>4, <5>1
      <4>2. CASE j < p
        <5>1. p \in j + 1..n
          BY <1>0, <4>2
        <5>. QED BY <3>1, <3>4, <5>1
      <4>. QED BY <1>0, <4>1, <4>2
    <3>. QED BY <2>0, <3>1, <3>3, <3>4, <3>5
  <2>3. ASSUME NEW x \in ToSet(c), x \notin Overwritten(c, in, n) PROVE x \in Range(after)
    <3>1. PICK k \in DOMAIN before : x = before[k] /\ x.key = k
      BY <2>0
    <3>2. ~New(k) /\ k \in DOMAIN after
      BY <1>0, <1>1, <2>3, <3>1 DEF Overwritten
    <3>3. after[k] = x
      BY <1>2, <3>1, <3>2
    <3>. QED BY <2>0, <3>2, <3>3
  <2>. HIDE DEF after
  <2>. QED BY <2>0, <2>1, <2>2, <2>3 DEF Updated
<1>. QED BY <1>4, <1>5

-----------------------------------------------------------------------------
(* The inductive invariant: what the runs check, and two facts they rest on. *)
(* The keys under which records are remembered are theirs; and before the    *)
(* first record is in, nobody holds anything, so that a subscriber of an     *)
(* empty feed, who is told nothing, holds the cache all the same.            *)
NothingYet == cache = <<>> => \A s \in Subscriber : view[s] = <<>>

SnapInv == CacheInv /\ LatestPerKey /\ SnapshotsCurrent /\ LatestByKey /\ NothingYet

LEMMA InitSnap == Init => SnapInv
<1>. SUFFICES ASSUME Init PROVE SnapInv
  OBVIOUS
<1>1. <<>> \in Seq(Matching) /\ <<>> \in Seq(Subscriber) /\ DOMAIN <<>> = {}
  OBVIOUS
<1>2. TypeOK
  BY <1>1 DEF Init, TypeOK
<1>3. ToSet(<<>>) = {} /\ Range(<<>>) = {} /\ Ascending(<<>>)
  BY <1>1 DEF ToSet, Range, Ascending
<1>. QED BY <1>1, <1>2, <1>3 DEF Init, SnapInv, CacheInv, CacheSorted, NothingLost, LatestPerKey,
         SnapshotsCurrent, LatestByKey, NothingYet

(* What a batch does to the cache, whichever the feed.                     *)
LEMMA AcceptIs ==
  ASSUME SnapInv, NEW batch \in Batch, Accept(batch)
  PROVE  LET in == Filtered(batch)
             m == Merge(cache, in)
         IN /\ in \in Seq(Matching) /\ m.cache \in Seq(Matching) /\ cache' = m.cache
            /\ ~m.changed => m.cache = cache
            /\ m.cache = <<>> => cache = <<>>
            /\ kind = "sorted" => Ascending(m.cache) /\ ToSet(m.cache) = ToSet(cache) \cup ToSet(in)
            /\ kind = "keyed" => UpdateInv(m.cache, cache, in, Len(in))
<1>. DEFINE in == Filtered(batch)
            m == Merge(cache, in)
<1>0. batch \in Seq(Record) /\ cache \in Seq(Matching) /\ kind \in {"sorted", "keyed"}
  BY BatchAssumption DEF SnapInv, CacheInv, TypeOK
<1>1. in \in Seq(Matching) /\ (Ascending(batch) => Ascending(in))
  BY <1>0, FilteredIs
<1>2. cache' = m.cache
  BY DEF Accept
<1>3. CASE kind = "sorted"
  <2>1. Ascending(batch) /\ Ascending(cache) /\ m = SortedMerge(cache, in)
    BY <1>3 DEF Accept, SnapInv, CacheInv, CacheSorted, Merge
  <2>. HIDE DEF in
  <2>2. /\ m.cache \in Seq(Matching) /\ Ascending(m.cache)
        /\ ToSet(m.cache) = ToSet(cache) \cup ToSet(in)
        /\ ~m.changed => m.cache = cache
    BY <1>0, <1>1, <2>1, SortedMergeIs DEF in
  <2>3. m.cache = <<>> => cache = <<>>
    <3>1. ToSet(<<>>) = {}
      BY DEF ToSet
    <3>2. ASSUME cache # <<>> PROVE ToSet(cache) # {}
      <4>1. 1 \in 1..Len(cache)
        BY <1>0, <3>2
      <4>2. 1 \in DOMAIN cache
        BY <1>0, <4>1
      <4>. QED BY <4>2 DEF ToSet
    <3>. QED BY <2>2, <3>1, <3>2
  <2>. QED BY <1>1, <1>2, <1>3, <2>2, <2>3 DEF in
<1>4. CASE kind = "keyed"
  <2>1. m = KeyedMerge(cache, in)
    BY <1>4 DEF Merge
  <2>2. OnePerKey(cache)
    BY <1>0, <1>4 DEF SnapInv, LatestPerKey, OnePerKey
  <2>. HIDE DEF in
  <2>3. /\ m.cache \in Seq(Matching)
        /\ ~m.changed => m.cache = cache
        /\ UpdateInv(m.cache, cache, in, Len(in))
    BY <1>0, <1>1, <2>1, <2>2, KeyedMergeIs
  <2>4. m.cache = <<>> => cache = <<>>
    <3>1. Len(cache) <= Len(m.cache)
      BY <2>3 DEF UpdateInv
    <3>. QED BY <1>0, <2>3, <3>1
  <2>. QED BY <1>1, <1>2, <1>4, <2>3, <2>4 DEF in
<1>. QED BY <1>0, <1>3, <1>4

(* Whoever still listens after a batch holds the new cache.                *)
LEMMA TellIs ==
  ASSUME SnapInv, NEW m, m.cache \in Seq(Matching), ~m.changed => m.cache = cache,
         m.cache = <<>> => cache = <<>>, Tell(m), held' = held, cache' = m.cache
  PROVE  /\ subscriptions' \in Seq(Subscriber)
         /\ view' \in [Subscriber -> Seq(Matching)]
         /\ SnapshotsCurrent' /\ NothingYet'
<1>0. /\ subscriptions \in Seq(Subscriber) /\ view \in [Subscriber -> Seq(Matching)]
      /\ held \subseteq Subscriber /\ cache \in Seq(Matching)
  BY DEF SnapInv, CacheInv, TypeOK
<1>1. CASE m.changed /\ PushToSubscriptions(m.cache)
  <2>1. subscriptions' = Only(subscriptions, held)
    BY <1>1 DEF PushToSubscriptions
  <2>2. \A s \in Subscriber : view'[s] = IF s \in held \cap ToSet(subscriptions) THEN m.cache ELSE view[s]
    BY <1>1 DEF PushToSubscriptions
  <2>3. view' \in [Subscriber -> Seq(Matching)]
    BY <1>0, <1>1 DEF PushToSubscriptions
  <2>4. subscriptions' \in Seq(Subscriber) /\ ToSet(subscriptions') \subseteq ToSet(subscriptions)
    BY <1>0, <2>1, OnlyIsSeq, OnlyToSet
  <2>5. SnapshotsCurrent'
    BY <1>0, <2>2, <2>4 DEF SnapshotsCurrent
  <2>6. NothingYet'
    BY <2>2 DEF NothingYet, SnapInv
  <2>. QED BY <2>3, <2>4, <2>5, <2>6
<1>2. CASE ~m.changed /\ UNCHANGED <<subscriptions, view>>
  BY <1>0, <1>2 DEF SnapInv, SnapshotsCurrent, NothingYet
<1>. QED BY <1>1, <1>2 DEF Tell

LEMMA AcceptSnap ==
  ASSUME SnapInv, NEW batch \in Batch, Accept(batch)
  PROVE  SnapInv'
<1>. DEFINE in == Filtered(batch)
            m == Merge(cache, in)
            after == LatestAfter(latest, in)
<1>0. /\ in \in Seq(Matching) /\ m.cache \in Seq(Matching) /\ cache' = m.cache
      /\ ~m.changed => m.cache = cache
      /\ m.cache = <<>> => cache = <<>>
      /\ kind = "sorted" => Ascending(m.cache) /\ ToSet(m.cache) = ToSet(cache) \cup ToSet(in)
      /\ kind = "keyed" => UpdateInv(m.cache, cache, in, Len(in))
  BY AcceptIs
<1>1. /\ Tell(m) /\ kind' = kind /\ held' = held
      /\ seen' = seen \cup ToSet(in) /\ latest' = after
  BY DEF Accept
<1>. HIDE DEF m, in
<1>2. /\ subscriptions' \in Seq(Subscriber)
      /\ view' \in [Subscriber -> Seq(Matching)]
      /\ SnapshotsCurrent' /\ NothingYet'
  BY <1>0, <1>1, TellIs
<1>3. \A k \in DOMAIN latest : k \in Key /\ latest[k] \in Matching /\ latest[k].key = k
  BY DEF SnapInv, CacheInv, TypeOK, LatestByKey
<1>4. /\ \A k \in DOMAIN after : k \in Key /\ after[k] \in Matching /\ after[k].key = k
      /\ \A c \in Seq(Matching) : ToSet(c) = Range(latest) => Range(after) = Updated(c, in, Len(in))
  BY <1>0, <1>3, LatestAfterIs
<1>. HIDE DEF after
<1>5. ToSet(in) \subseteq Matching
  BY <1>0, ToSetProperties
<1>6. TypeOK'
  BY <1>0, <1>1, <1>2, <1>4, <1>5 DEF SnapInv, CacheInv, TypeOK
<1>7. CacheSorted' /\ NothingLost'
  BY <1>0, <1>1 DEF SnapInv, CacheInv, CacheSorted, NothingLost
<1>8. LatestPerKey'
  <2>. SUFFICES ASSUME kind = "keyed"
                PROVE  /\ \A i, j \in DOMAIN m.cache : i # j => m.cache[i].key # m.cache[j].key
                       /\ ToSet(m.cache) = Range(after)
    BY <1>0, <1>1 DEF LatestPerKey
  <2>1. UpdateInv(m.cache, cache, in, Len(in))
    BY <1>0
  <2>2. \A i, j \in DOMAIN m.cache : i # j => m.cache[i].key # m.cache[j].key
    BY <1>0, <2>1 DEF UpdateInv, OnePerKey
  <2>3. cache \in Seq(Matching) /\ ToSet(cache) = Range(latest)
    BY DEF SnapInv, CacheInv, TypeOK, LatestPerKey
  <2>4. ToSet(m.cache) = Range(after)
    BY <1>4, <2>1, <2>3 DEF UpdateInv
  <2>. QED BY <2>2, <2>4
<1>9. LatestByKey'
  BY <1>1, <1>4 DEF LatestByKey
<1>. QED BY <1>2, <1>6, <1>7, <1>8, <1>9 DEF SnapInv, CacheInv

LEMMA SubscribeSnap ==
  ASSUME SnapInv, NEW s \in Subscriber, Subscribe(s)
  PROVE  SnapInv'
<1>0. /\ subscriptions \in Seq(Subscriber) /\ view \in [Subscriber -> Seq(Matching)]
      /\ held \subseteq Subscriber /\ cache \in Seq(Matching)
  BY DEF SnapInv, CacheInv, TypeOK
<1>1. /\ subscriptions' = Append(subscriptions, s)
      /\ view' = IF cache # <<>> /\ s \in held THEN [view EXCEPT ![s] = cache] ELSE view
      /\ UNCHANGED <<kind, cache, held, seen, latest>>
  BY DEF Subscribe
<1>2. Append(subscriptions, s) \in Seq(Subscriber) /\ ToSet(Append(subscriptions, s)) = ToSet(subscriptions) \cup {s}
  BY <1>0, ToSetGrowth
<1>3. view' \in [Subscriber -> Seq(Matching)]
  BY <1>0, <1>1
<1>4. TypeOK'
  BY <1>1, <1>2, <1>3 DEF SnapInv, CacheInv, TypeOK
<1>5. NothingYet'
  BY <1>1 DEF SnapInv, NothingYet
<1>6. SnapshotsCurrent'
  <2>. SUFFICES ASSUME NEW r \in (ToSet(subscriptions) \cup {s}) \cap held PROVE view'[r] = cache
    BY <1>1, <1>2 DEF SnapshotsCurrent
  <2>1. CASE r = s
    <3>1. CASE cache = <<>>
      BY <1>0, <1>1, <2>1, <3>1 DEF SnapInv, NothingYet
    <3>2. CASE cache # <<>>
      BY <1>0, <1>1, <2>1, <3>2
    <3>. QED BY <3>1, <3>2
  <2>2. CASE r # s
    BY <1>0, <1>1, <2>2 DEF SnapInv, SnapshotsCurrent
  <2>. QED BY <2>1, <2>2
<1>7. CacheSorted' /\ NothingLost' /\ LatestPerKey' /\ LatestByKey'
  BY <1>1 DEF SnapInv, CacheInv, CacheSorted, NothingLost, LatestPerKey, LatestByKey
<1>. QED BY <1>4, <1>5, <1>6, <1>7 DEF SnapInv, CacheInv

LEMMA NextSnap == SnapInv /\ [Next]_vars => SnapInv'
<1>. SUFFICES ASSUME SnapInv, [Next]_vars PROVE SnapInv'
  OBVIOUS
<1>1. ASSUME NEW s \in Subscriber, Drop(s) PROVE SnapInv'
  BY <1>1 DEF Drop, SnapInv, CacheInv, TypeOK, CacheSorted, NothingLost, LatestPerKey,
              LatestByKey, SnapshotsCurrent, NothingYet
<1>2. CASE UNCHANGED vars
  BY <1>2 DEF vars, SnapInv, CacheInv, TypeOK, CacheSorted, NothingLost, LatestPerKey,
              LatestByKey, SnapshotsCurrent, NothingYet
<1>. QED BY <1>1, <1>2, AcceptSnap, SubscribeSnap DEF Next

LEMMA SnapInvariant == Spec => []SnapInv
BY InitSnap, NextSnap, PTL DEF Spec

(* The single forward pass of the sorted feed keeps the cache sorted, ties   *)
(* included, and passes over no record, for batches that are sorted: with    *)
(* the types of all variables.                                             *)
THEOREM CacheIsRight == Spec => []CacheInv
BY SnapInvariant, PTL DEF SnapInv

(* Every live subscriber holds the cache: no change is kept from it, the     *)
(* replacement of a record in place included.                              *)
THEOREM SnapshotsAreCurrent == Spec => []SnapshotsCurrent
BY SnapInvariant, PTL DEF SnapInv

(* The keyed feed has one record for each key, the last one handed in.      *)
THEOREM LatestIsKept == Spec => []LatestPerKey
BY SnapInvariant, PTL DEF SnapInv

(* ... and never moves one.                                                *)
THEOREM PositionsAreStable == Spec => PositionsStable
<1>1. SnapInv /\ [Next]_vars =>
        [kind = "keyed" =>
           \A i \in DOMAIN cache : i \in DOMAIN cache' /\ cache'[i].key = cache[i].key]_vars
  <2>. SUFFICES ASSUME SnapInv, [Next]_vars, kind = "keyed", NEW i \in DOMAIN cache
                PROVE  i \in DOMAIN cache' /\ cache'[i].key = cache[i].key
    OBVIOUS
  <2>1. ASSUME NEW batch \in Batch, Accept(batch)
        PROVE  i \in DOMAIN cache' /\ cache'[i].key = cache[i].key
    <3>. DEFINE in == Filtered(batch)
    <3>1. cache' \in Seq(Matching) /\ UpdateInv(cache', cache, in, Len(in))
      BY <2>1, AcceptIs
    <3>2. Len(cache) <= Len(cache') /\ \A j \in 1..Len(cache) : cache'[j].key = cache[j].key
      BY <3>1 DEF UpdateInv
    <3>3. cache \in Seq(Matching)
      BY DEF SnapInv, CacheInv, TypeOK
    <3>4. i \in 1..Len(cache) /\ i \in 1..Len(cache')
      BY <3>1, <3>2, <3>3
    <3>. QED BY <3>1, <3>2, <3>4
  <2>2. ASSUME ~\E batch \in Batch : Accept(batch) PROVE cache' = cache
    BY <2>2 DEF Next, Subscribe, Drop, vars
  <2>. QED BY <2>1, <2>2
<1>. QED BY SnapInvariant, <1>1, PTL DEF Spec, PositionsStable

-----------------------------------------------------------------------------
(* Sequences of levels.                                                    *)

(* What the handler makes of a delta: lowest price first, and of two entries *)
(* of one price at most one is a level.                                    *)
Rising(s) ==
  \A i, j \in DOMAIN s : i < j =>
    /\ s[i].price <= s[j].price
    /\ s[i].price = s[j].price => s[i].size = 0 \/ s[j].size = 0

LEMMA LevelFacts ==
  ASSUME NEW l \in Level
  PROVE  /\ l.price \in Price /\ l.price \in Int /\ l.size \in Int
         /\ l = [price |-> l.price, size |-> l.size]
BY PriceAssumption DEF Level

LEMMA FirstLevel ==
  ASSUME NEW s \in Seq(Level), s # <<>>
  PROVE  /\ Head(s) \in Level /\ Tail(s) \in Seq(Level)
         /\ ToSet(s) = ToSet(Tail(s)) \cup {Head(s)}
         /\ ByPrice(s) => /\ ByPrice(Tail(s))
                          /\ \A x \in ToSet(Tail(s)) : Head(s).price < x.price
         /\ Rising(s) => /\ Rising(Tail(s))
                         /\ \A x \in ToSet(Tail(s)) :
                              /\ Head(s).price <= x.price
                              /\ Head(s).price = x.price => Head(s).size = 0 \/ x.size = 0
<1>1. /\ Tail(s) \in Seq(Level) /\ Head(s) \in Level /\ Head(s) = s[1]
      /\ Len(s) \in Nat /\ Len(s) > 0 /\ Len(Tail(s)) = Len(s) - 1
      /\ \A i \in 1..Len(s) - 1 : Tail(s)[i] = s[i + 1]
  BY HeadTailProperties
<1>2. DOMAIN s = 1..Len(s) /\ DOMAIN Tail(s) = 1..Len(s) - 1
  BY <1>1
<1>3. ToSet(s) = ToSet(Tail(s)) \cup {Head(s)}
  BY <1>1, ToSetGrowth
<1>4. ToSet(Tail(s)) = {Tail(s)[i] : i \in 1..Len(s) - 1}
  BY <1>1, ToSetProperties
<1>. DEFINE t == Tail(s)
<1>5. \A i, j \in 1..Len(s) - 1 : i < j => /\ i + 1 \in 1..Len(s) /\ j + 1 \in 1..Len(s) /\ i + 1 < j + 1
                                           /\ t[i] = s[i + 1] /\ t[j] = s[j + 1]
  BY <1>1
<1>6. \A j \in 1..Len(s) - 1 : 1 \in 1..Len(s) /\ j + 1 \in 1..Len(s) /\ 1 < j + 1 /\ t[j] = s[j + 1]
  BY <1>1
<1>. HIDE DEF t
<1>7. ASSUME ByPrice(s) PROVE ByPrice(t) /\ \A x \in ToSet(t) : Head(s).price < x.price
  <2>1. \A i, j \in 1..Len(s) : i < j => s[i].price < s[j].price
    BY <1>2, <1>7 DEF ByPrice
  <2>2. ByPrice(t)
    BY <1>2, <1>5, <2>1 DEF ByPrice, t
  <2>3. \A x \in ToSet(t) : Head(s).price < x.price
    BY <1>1, <1>4, <1>6, <2>1 DEF t
  <2>. QED BY <2>2, <2>3
<1>8. ASSUME Rising(s)
      PROVE  /\ Rising(t)
             /\ \A x \in ToSet(t) : /\ Head(s).price <= x.price
                                    /\ Head(s).price = x.price => Head(s).size = 0 \/ x.size = 0
  <2>1. \A i, j \in 1..Len(s) : i < j => /\ s[i].price <= s[j].price
                                         /\ s[i].price = s[j].price => s[i].size = 0 \/ s[j].size = 0
    BY <1>2, <1>8 DEF Rising
  <2>2. Rising(t)
    BY <1>2, <1>5, <2>1 DEF Rising, t
  <2>3. \A x \in ToSet(t) : /\ Head(s).price <= x.price
                            /\ Head(s).price = x.price => Head(s).size = 0 \/ x.size = 0
    BY <1>1, <1>4, <1>6, <2>1 DEF t
  <2>. QED BY <2>2, <2>3
<1>. QED BY <1>1, <1>3, <1>7, <1>8 DEF t

LEMMA LastLevel ==
  ASSUME NEW s \in Seq(Level), ByPrice(s), NEW l \in Level, \A x \in ToSet(s) : x.price < l.price
  PROVE  Append(s, l) \in Seq(Level) /\ ByPrice(Append(s, l)) /\ ToSet(Append(s, l)) = ToSet(s) \cup {l}
<1>1. /\ Append(s, l) \in Seq(Level) /\ Len(s) \in Nat /\ DOMAIN Append(s, l) = 1..Len(s) + 1
      /\ \A i \in 1..Len(s) : Append(s, l)[i] = s[i]
      /\ Append(s, l)[Len(s) + 1] = l
  OBVIOUS
<1>2. \A i, j \in 1..Len(s) : i < j => s[i].price < s[j].price
  BY DEF ByPrice
<1>3. \A i \in 1..Len(s) : s[i].price < l.price
  BY ToSetProperties
<1>. DEFINE t == Append(s, l)
<1>4. ASSUME NEW i \in 1..Len(s) + 1, NEW j \in 1..Len(s) + 1, i < j PROVE t[i].price < t[j].price
  <2>1. i \in 1..Len(s) /\ t[i] = s[i]
    BY <1>1, <1>4
  <2>2. CASE j \in 1..Len(s)
    <3>1. t[j] = s[j]
      BY <1>1, <2>2
    <3>. QED BY <1>2, <1>4, <2>1, <2>2, <3>1
  <2>3. CASE j = Len(s) + 1
    <3>1. t[j] = l
      BY <1>1, <2>3
    <3>. QED BY <1>3, <2>1, <3>1
  <2>. QED BY <1>1, <2>2, <2>3
<1>5. ByPrice(t)
  <2>. HIDE DEF t
  <2>. QED BY <1>1, <1>4 DEF ByPrice, t
<1>. QED BY <1>1, <1>5, ToSetGrowth

(* A book in order has no more levels than there are prices.               *)
LEMMA LevelsFit ==
  ASSUME NEW s \in Seq(Level), ByPrice(s)
  PROVE  Len(s) <= Cardinality(Price)
<1>. DEFINE f == [i \in 1..Len(s) |-> s[i].price]
<1>1. Len(s) \in Nat /\ \A i \in 1..Len(s) : s[i] \in Level /\ s[i].price \in Price /\ s[i].price \in Int
  BY LevelFacts
<1>2. \A i, j \in 1..Len(s) : i < j => s[i].price < s[j].price
  BY DEF ByPrice
<1>3. f \in [1..Len(s) -> Price]
  BY <1>1
<1>4. \A i, j \in 1..Len(s) : f[i] = f[j] => i = j
  <2>. SUFFICES ASSUME NEW i \in 1..Len(s), NEW j \in 1..Len(s), s[i].price = s[j].price PROVE i = j
    OBVIOUS
  <2>1. ~(i < j) /\ ~(j < i)
    BY <1>1, <1>2
  <2>. QED BY <1>1, <2>1
<1>5. f \in Injection(1..Len(s), Price)
  <2>. HIDE DEF f
  <2>. QED BY <1>3, <1>4 DEF Injection, IsInjective
<1>6. IsFiniteSet(1..Len(s)) /\ Cardinality(1..Len(s)) = Len(s)
  <2>1. Cardinality(1..Len(s)) = IF 1 > Len(s) THEN 0 ELSE Len(s) - 1 + 1
    BY <1>1, FS_Interval
  <2>2. IsFiniteSet(1..Len(s))
    BY <1>1, FS_Interval
  <2>. QED BY <1>1, <2>1, <2>2
<1>. HIDE DEF f
<1>. QED BY <1>5, <1>6, PriceAssumption, FS_Injection

-----------------------------------------------------------------------------
(* The entries of a message.                                               *)

(* Prices have a highest one.                                              *)
LEMMA HighestPrice ==
  ASSUME NEW S \in SUBSET Price, S # {}
  PROVE  \E m \in S : \A p \in S : p <= m
<1>. DEFINE Has(U) == U # {} => \E m \in U : \A p \in U : p <= m
            T == {n \in Nat : \A U \in SUBSET Price : Cardinality(U) = n => Has(U)}
<1>1. \A U \in SUBSET Price : IsFiniteSet(U) /\ Cardinality(U) \in Nat
  BY PriceAssumption, FS_Subset, FS_CardinalityType
<1>2. 0 \in T
  BY <1>1, FS_EmptySet
<1>3. ASSUME NEW n \in Nat, n \in T PROVE n + 1 \in T
  <2>. SUFFICES ASSUME NEW U \in SUBSET Price, Cardinality(U) = n + 1, U # {}
                PROVE  \E m \in U : \A p \in U : p <= m
    OBVIOUS
  <2>1. PICK x \in U : TRUE
    OBVIOUS
  <2>2. U \ {x} \in SUBSET Price /\ Cardinality(U \ {x}) = n
    <3>1. IsFiniteSet(U)
      BY <1>1
    <3>2. Cardinality(U \ {x}) = Cardinality(U) - 1
      BY <2>1, <3>1, FS_RemoveElement
    <3>. QED BY <3>2
  <2>3. CASE U \ {x} = {}
    <3>1. x \in Int /\ \A p \in U : p = x
      BY <2>1, <2>3, PriceAssumption
    <3>. QED BY <2>1, <3>1
  <2>4. CASE U \ {x} # {}
    <3>1. PICK m \in U \ {x} : \A p \in U \ {x} : p <= m
      BY <1>3, <2>2, <2>4
    <3>2. m \in Int /\ x \in Int /\ \A p \in U : p \in Int
      BY PriceAssumption
    <3>3. CASE x <= m
      BY <3>1, <3>3
    <3>4. CASE m < x
      <4>1. \A p \in U : p <= x
        BY <3>1, <3>2, <3>4
      <4>. QED BY <2>1, <4>1
    <3>. QED BY <3>2, <3>3, <3>4
  <2>. QED BY <2>3, <2>4
<1>4. Nat \subseteq T
  <2>. HIDE DEF T
  <2>. QED BY <1>2, <1>3, NatSetInduction
<1>5. Has(S)
  <2>. HIDE DEF Has
  <2>. QED BY <1>1, <1>4
<1>. QED BY <1>5

(* s is the elements of S, lowest first.                                   *)
Sorted(S, s) ==
  /\ s \in [1..Cardinality(S) -> S]
  /\ ToSet(s) = S
  /\ \A i, j \in 1..Cardinality(S) : i < j => s[i] < s[j]

LEMMA InOrderIs ==
  ASSUME NEW S \in SUBSET Price
  PROVE  Sorted(S, InOrder(S)) /\ Cardinality(S) \in Nat
<1>. DEFINE T == {n \in Nat : \A U \in SUBSET Price : Cardinality(U) = n => \E s : Sorted(U, s)}
<1>1. \A U \in SUBSET Price : IsFiniteSet(U) /\ Cardinality(U) \in Nat
  BY PriceAssumption, FS_Subset, FS_CardinalityType
<1>2. 0 \in T
  <2>. SUFFICES ASSUME NEW U \in SUBSET Price, Cardinality(U) = 0 PROVE \E s : Sorted(U, s)
    OBVIOUS
  <2>1. U = {} /\ 1..Cardinality(U) = {}
    BY <1>1, FS_EmptySet
  <2>. DEFINE e == [i \in 1..Cardinality(U) |-> i]
  <2>2. e \in [1..Cardinality(U) -> U] /\ DOMAIN e = {}
    BY <2>1
  <2>3. ToSet(e) = U
    BY <2>1, <2>2 DEF ToSet
  <2>4. Sorted(U, e)
    BY <2>1, <2>2, <2>3 DEF Sorted
  <2>. QED BY <2>4
<1>3. ASSUME NEW n \in Nat, n \in T PROVE n + 1 \in T
  <2>. SUFFICES ASSUME NEW U \in SUBSET Price, Cardinality(U) = n + 1 PROVE \E s : Sorted(U, s)
    OBVIOUS
  <2>1. U # {}
    BY FS_EmptySet
  <2>2. PICK m \in U : \A p \in U : p <= m
    BY <2>1, HighestPrice
  <2>3. U \ {m} \in SUBSET Price /\ Cardinality(U \ {m}) = n
    <3>1. IsFiniteSet(U)
      BY <1>1
    <3>2. Cardinality(U \ {m}) = Cardinality(U) - 1
      BY <2>2, <3>1, FS_RemoveElement
    <3>. QED BY <3>2
  <2>4. PICK t : Sorted(U \ {m}, t)
    BY <1>3, <2>3
  <2>5. /\ t \in [1..n -> U \ {m}] /\ ToSet(t) = U \ {m}
        /\ \A i, j \in 1..n : i < j => t[i] < t[j]
    BY <2>3, <2>4 DEF Sorted
  <2>. DEFINE s == [i \in 1..n + 1 |-> IF i = n + 1 THEN m ELSE t[i]]
  <2>6. s[n + 1] = m /\ \A i \in 1..n : s[i] = t[i] /\ t[i] \in U \ {m}
    BY <2>5
  <2>7. \A i \in 1..n + 1 : i \in 1..n \/ i = n + 1
    OBVIOUS
  <2>8. s \in [1..n + 1 -> U]
    BY <2>5, <2>7
  <2>9. ToSet(s) = U
    <3>1. ToSet(s) = {s[i] : i \in 1..n + 1} /\ ToSet(t) = {t[i] : i \in 1..n}
      BY <2>5 DEF ToSet
    <3>2. \A i \in 1..n : i \in 1..n + 1
      OBVIOUS
    <3>3. n + 1 \in 1..n + 1
      OBVIOUS
    <3>. HIDE DEF s
    <3>. QED BY <2>2, <2>5, <2>6, <2>7, <3>1, <3>2, <3>3
  <2>10. ASSUME NEW i \in 1..n + 1, NEW j \in 1..n + 1, i < j PROVE s[i] < s[j]
    <3>1. i \in 1..n /\ s[i] = t[i] /\ t[i] \in U \ {m}
      BY <2>6, <2>10
    <3>2. CASE j \in 1..n
      BY <2>5, <2>6, <2>10, <3>1, <3>2
    <3>3. CASE j = n + 1
      <4>1. s[j] = m /\ t[i] <= m /\ t[i] # m /\ t[i] \in Int /\ m \in Int
        BY <2>2, <2>6, <3>1, <3>3, PriceAssumption
      <4>. QED BY <3>1, <4>1
    <3>. QED BY <2>7, <3>2, <3>3
  <2>11. Sorted(U, s)
    <3>. HIDE DEF s
    <3>. QED BY <2>8, <2>9, <2>10 DEF Sorted
  <2>. QED BY <2>11
<1>4. Nat \subseteq T
  <2>. HIDE DEF T
  <2>. QED BY <1>2, <1>3, NatSetInduction
<1>5. PICK s : Sorted(S, s)
  BY <1>1, <1>4
<1>6. InOrder(S) = CHOOSE f \in [1..Cardinality(S) -> S] :
                     ToSet(f) = S /\ \A i, j \in DOMAIN f : i < j => f[i] < f[j]
  BY DEF InOrder
<1>7. s \in [1..Cardinality(S) -> S] /\ ToSet(s) = S /\ \A i, j \in DOMAIN s : i < j => s[i] < s[j]
  BY <1>5 DEF Sorted
<1>8. /\ InOrder(S) \in [1..Cardinality(S) -> S] /\ ToSet(InOrder(S)) = S
      /\ \A i, j \in DOMAIN InOrder(S) : i < j => InOrder(S)[i] < InOrder(S)[j]
  BY <1>6, <1>7
<1>. QED BY <1>1, <1>8 DEF Sorted

(* The entries of one side, and of a message.                              *)
SideOf(old, new) == {[price |-> p, size |-> new[p]] : p \in Changed(old, new)}

Entries(old, new) == SideOf(Bids(old), Bids(new)) \cup SideOf(Asks(old), Asks(new))

LEMMA SideUpdateIs ==
  ASSUME NEW old \in [Price -> Int], NEW new \in [Price -> Int]
  PROVE  /\ SideUpdate(old, new) \in Seq(Level)
         /\ ByPrice(SideUpdate(old, new))
         /\ ToSet(SideUpdate(old, new)) = SideOf(old, new)
<1>. DEFINE S == Changed(old, new)
            n == Cardinality(S)
            asc == InOrder(S)
            side == SideUpdate(old, new)
<1>0. S \in SUBSET Price
  BY DEF Changed
<1>1. Sorted(S, asc) /\ n \in Nat
  <2>. HIDE DEF S
  <2>. QED BY <1>0, InOrderIs
<1>2. /\ asc \in [1..n -> S] /\ DOMAIN asc = 1..n /\ {asc[i] : i \in 1..n} = S
      /\ \A i, j \in 1..n : i < j => asc[i] < asc[j]
  BY <1>1 DEF Sorted, ToSet
<1>3. side = [i \in 1..n |-> [price |-> asc[i], size |-> new[asc[i]]]]
  BY <1>2 DEF SideUpdate
<1>. HIDE DEF asc, side, n, S
<1>4. \A i \in 1..n : side[i] \in Level /\ side[i] = [price |-> asc[i], size |-> new[asc[i]]] /\ side[i].price = asc[i]
  BY <1>0, <1>2, <1>3 DEF Level
<1>5. side \in Seq(Level) /\ Len(side) = n /\ DOMAIN side = 1..n
  <2>1. side \in [1..n -> Level]
    BY <1>3, <1>4
  <2>. QED BY <1>1, <1>3, <2>1
<1>6. ByPrice(side)
  BY <1>2, <1>4, <1>5 DEF ByPrice
<1>7. ToSet(side) = {[price |-> p, size |-> new[p]] : p \in S}
  <2>1. ToSet(side) = {side[i] : i \in 1..n}
    BY <1>5 DEF ToSet
  <2>2. \A i \in 1..n : asc[i] \in S /\ side[i] = [price |-> asc[i], size |-> new[asc[i]]]
    BY <1>2, <1>4
  <2>3. \A p \in S : \E i \in 1..n : p = asc[i]
    BY <1>2
  <2>4. \A p \in S : \E i \in 1..n : side[i] = [price |-> p, size |-> new[p]]
    BY <2>2, <2>3
  <2>5. ASSUME NEW x \in ToSet(side) PROVE x \in {[price |-> p, size |-> new[p]] : p \in S}
    <3>1. PICK i \in 1..n : x = side[i]
      BY <2>1
    <3>. QED BY <2>2, <3>1
  <2>6. ASSUME NEW p \in S PROVE [price |-> p, size |-> new[p]] \in ToSet(side)
    BY <2>1, <2>4
  <2>. QED BY <2>5, <2>6
<1>. QED BY <1>5, <1>6, <1>7 DEF SideOf, S, side

(* One side behind the other.                                              *)
LEMMA SidesRise ==
  ASSUME NEW s \in Seq(Level), NEW t \in Seq(Level), ByPrice(s), ByPrice(t),
         \A x \in ToSet(s), y \in ToSet(t) :
           x.price <= y.price /\ (x.price = y.price => x.size = 0 \/ y.size = 0)
  PROVE  s \o t \in Seq(Level) /\ Rising(s \o t) /\ ToSet(s \o t) = ToSet(s) \cup ToSet(t)
<1>. DEFINE m == Len(s)
            n == Len(t)
            c == s \o t
<1>1. m \in Nat /\ n \in Nat /\ DOMAIN s = 1..m /\ DOMAIN t = 1..n
  OBVIOUS
<1>2. /\ c \in Seq(Level) /\ DOMAIN c = 1..m + n /\ Len(c) = m + n
      /\ \A i \in 1..m + n : c[i] = IF i <= m THEN s[i] ELSE t[i - m]
  OBVIOUS
<1>3. ToSet(s) = {s[i] : i \in 1..m} /\ ToSet(t) = {t[i] : i \in 1..n} /\ ToSet(c) = {c[i] : i \in 1..m + n}
  BY <1>1, <1>2, ToSetProperties
<1>4. /\ \A i \in 1..m : s[i] \in Level /\ s[i].price \in Int
      /\ \A i \in 1..n : t[i] \in Level /\ t[i].price \in Int
  BY LevelFacts
<1>5. /\ \A i, j \in 1..m : i < j => s[i].price < s[j].price
      /\ \A i, j \in 1..n : i < j => t[i].price < t[j].price
  BY <1>1 DEF ByPrice
<1>6. \A i \in 1..m, j \in 1..n : s[i].price <= t[j].price /\ (s[i].price = t[j].price => s[i].size = 0 \/ t[j].size = 0)
  BY <1>3
<1>. HIDE DEF m, n, c
<1>7. ASSUME NEW i \in 1..m + n
      PROVE  \/ i \in 1..m /\ c[i] = s[i]
             \/ i - m \in 1..n /\ c[i] = t[i - m] /\ i > m
  BY <1>1, <1>2
<1>8. ASSUME NEW i \in 1..m + n, NEW j \in 1..m + n, i < j
      PROVE  c[i].price <= c[j].price /\ (c[i].price = c[j].price => c[i].size = 0 \/ c[j].size = 0)
  <2>1. CASE i \in 1..m /\ c[i] = s[i]
    <3>1. CASE j \in 1..m /\ c[j] = s[j]
      <4>1. s[i].price < s[j].price /\ s[i].price \in Int /\ s[j].price \in Int
        BY <1>4, <1>5, <1>8, <2>1, <3>1
      <4>. QED BY <2>1, <3>1, <4>1
    <3>2. CASE j - m \in 1..n /\ c[j] = t[j - m]
      BY <1>6, <2>1, <3>2
    <3>. QED BY <1>7, <3>1, <3>2
  <2>2. CASE i - m \in 1..n /\ c[i] = t[i - m] /\ i > m
    <3>1. j - m \in 1..n /\ c[j] = t[j - m] /\ i - m < j - m
      BY <1>1, <1>7, <1>8, <2>2
    <3>2. t[i - m].price < t[j - m].price /\ t[i - m].price \in Int /\ t[j - m].price \in Int
      BY <1>4, <1>5, <2>2, <3>1
    <3>. QED BY <2>2, <3>1, <3>2
  <2>. QED BY <1>7, <2>1, <2>2
<1>9. Rising(c)
  BY <1>2, <1>8 DEF Rising
<1>10. ToSet(c) = ToSet(s) \cup ToSet(t)
  <2>1. \A i \in 1..m : i \in 1..m + n /\ c[i] = s[i]
    BY <1>1, <1>2
  <2>2. \A i \in 1..n : i + m \in 1..m + n /\ c[i + m] = t[i]
    <3>. SUFFICES ASSUME NEW i \in 1..n PROVE i + m \in 1..m + n /\ c[i + m] = t[i]
      OBVIOUS
    <3>1. i + m \in 1..m + n /\ ~(i + m <= m) /\ (i + m) - m = i
      BY <1>1
    <3>2. c[i + m] = t[(i + m) - m]
      BY <1>2, <3>1
    <3>. QED BY <3>1, <3>2
  <2>. QED BY <1>3, <1>7, <2>1, <2>2
<1>. QED BY <1>2, <1>9, <1>10 DEF c

LEMMA BookFacts ==
  ASSUME NEW b \in Book
  PROVE  /\ b \in [Price -> Int] /\ Uncrossed(b)
         /\ Bids(b) \in [Price -> Int] /\ Asks(b) \in [Price -> Int]
         /\ \A p \in Price : /\ b[p] \in Int
                             /\ Bids(b)[p] = IF b[p] > 0 THEN b[p] ELSE 0
                             /\ Asks(b)[p] = IF b[p] < 0 THEN b[p] ELSE 0
<1>1. b \in [Price -> Int] /\ Uncrossed(b)
  BY MaxSizeAssumption DEF Book
<1>2. \A p \in Price : /\ b[p] \in Int
                       /\ Bids(b)[p] = IF b[p] > 0 THEN b[p] ELSE 0
                       /\ Asks(b)[p] = IF b[p] < 0 THEN b[p] ELSE 0
  BY <1>1 DEF Bids, Asks
<1>3. Bids(b) \in [Price -> Int] /\ Asks(b) \in [Price -> Int]
  BY <1>1 DEF Bids, Asks
<1>. QED BY <1>1, <1>2, <1>3

LEMMA ConcatenationIs ==
  ASSUME NEW old \in Book, NEW new \in Book, SidesApart(old, new)
  PROVE  /\ Concatenation(old, new) \in Seq(Level)
         /\ Rising(Concatenation(old, new))
         /\ ToSet(Concatenation(old, new)) = Entries(old, new)
<1>. DEFINE s == SideUpdate(Bids(old), Bids(new))
            t == SideUpdate(Asks(old), Asks(new))
<1>1. /\ s \in Seq(Level) /\ ByPrice(s) /\ ToSet(s) = SideOf(Bids(old), Bids(new))
      /\ t \in Seq(Level) /\ ByPrice(t) /\ ToSet(t) = SideOf(Asks(old), Asks(new))
  <2>1. /\ Bids(old) \in [Price -> Int] /\ Bids(new) \in [Price -> Int]
        /\ Asks(old) \in [Price -> Int] /\ Asks(new) \in [Price -> Int]
    BY BookFacts
  <2>. QED BY <2>1, SideUpdateIs
<1>2. ASSUME NEW x \in SideOf(Bids(old), Bids(new)), NEW y \in SideOf(Asks(old), Asks(new))
      PROVE  x.price <= y.price /\ (x.price = y.price => x.size = 0 \/ y.size = 0)
  <2>1. PICK p \in Changed(Bids(old), Bids(new)) : x = [price |-> p, size |-> Bids(new)[p]]
    BY DEF SideOf
  <2>2. PICK q \in Changed(Asks(old), Asks(new)) : y = [price |-> q, size |-> Asks(new)[q]]
    BY DEF SideOf
  <2>3. p <= q /\ p \in Price /\ q \in Price
    BY DEF SidesApart, Changed
  <2>4. Bids(new)[p] = 0 \/ Asks(new)[p] = 0
    BY <2>3, BookFacts
  <2>. QED BY <2>1, <2>2, <2>3, <2>4
<1>3. Concatenation(old, new) = s \o t
  BY DEF Concatenation
<1>. HIDE DEF s, t
<1>. QED BY <1>1, <1>2, <1>3, SidesRise DEF Entries

-----------------------------------------------------------------------------
(* The merge, seen as sets of levels: what it has put out, what of the       *)
(* message and what of the old book it has still to read.                   *)

Merges(b, Q, U, R) ==
  /\ Q \subseteq LevelsOf(b)
  /\ \A u \in U : u.size \in {0, b[u.price]}
  /\ \A x \in R : x \in LevelsOf(b) \/ \E u \in U : u.price = x.price
  /\ LevelsOf(b) \subseteq Q \cup U \cup R
  /\ \A u \in U : b[u.price] # 0 => [price |-> u.price, size |-> b[u.price]] \in Q \cup U
  /\ \A q \in Q : /\ \A x \in R : q.price < x.price
                  /\ \A u \in U : q.price < u.price \/ (q.price = u.price /\ u.size = 0)

LEMMA LevelsOfIs ==
  ASSUME NEW b \in Book
  PROVE  /\ LevelsOf(b) \subseteq Level
         /\ \A l \in Level : l \in LevelsOf(b) <=> l.size = b[l.price] /\ l.size # 0
<1>1. b \in [Price -> Int]
  BY BookFacts
<1>2. LevelsOf(b) \subseteq Level
  BY <1>1 DEF LevelsOf, Level
<1>3. ASSUME NEW l \in Level PROVE l \in LevelsOf(b) <=> l.size = b[l.price] /\ l.size # 0
  <2>1. l = [price |-> l.price, size |-> l.size] /\ l.price \in Price
    BY LevelFacts
  <2>2. ASSUME l \in LevelsOf(b) PROVE l.size = b[l.price] /\ l.size # 0
    BY <2>2 DEF LevelsOf
  <2>3. ASSUME l.size = b[l.price], l.size # 0 PROVE l \in LevelsOf(b)
    BY <2>1, <2>3 DEF LevelsOf
  <2>. QED BY <2>2, <2>3
<1>. QED BY <1>2, <1>3

(* An entry of a message.                                                  *)
LEMMA EntriesAre ==
  ASSUME NEW old \in Book, NEW new \in Book
  PROVE  /\ Entries(old, new) \subseteq Level
         /\ \A l \in Level :
              l \in Entries(old, new) <=>
                \/ Bids(old)[l.price] # Bids(new)[l.price] /\ l.size = Bids(new)[l.price]
                \/ Asks(old)[l.price] # Asks(new)[l.price] /\ l.size = Asks(new)[l.price]
<1>1. /\ \A p \in Price : Bids(new)[p] \in Int /\ Asks(new)[p] \in Int
  BY BookFacts
<1>2. Entries(old, new) \subseteq Level
  BY <1>1 DEF Entries, SideOf, Changed, Level
<1>3. ASSUME NEW l \in Level, NEW f, NEW g
      PROVE  l \in SideOf(f, g) <=> f[l.price] # g[l.price] /\ l.size = g[l.price]
  <2>1. l = [price |-> l.price, size |-> l.size] /\ l.price \in Price
    BY LevelFacts
  <2>2. ASSUME l \in SideOf(f, g) PROVE f[l.price] # g[l.price] /\ l.size = g[l.price]
    BY <2>2 DEF SideOf, Changed
  <2>3. ASSUME f[l.price] # g[l.price], l.size = g[l.price] PROVE l \in SideOf(f, g)
    BY <2>1, <2>3 DEF SideOf, Changed
  <2>. QED BY <2>2, <2>3
<1>. QED BY <1>2, <1>3 DEF Entries

(* A message meets the book that it was made for.                          *)
LEMMA MessageMerges ==
  ASSUME NEW old \in Book, NEW new \in Book
  PROVE  /\ Merges(new, {}, Entries(old, new), LevelsOf(old))
         /\ LevelsOf(old) = {} => \A u \in Entries(old, new) : u.size # 0
         /\ Entries(old, new) = {} => LevelsOf(old) = LevelsOf(new)
<1>. DEFINE U == Entries(old, new)
            R == LevelsOf(old)
<1>1. /\ \A p \in Price : /\ old[p] \in Int /\ new[p] \in Int
                          /\ Bids(old)[p] = IF old[p] > 0 THEN old[p] ELSE 0
                          /\ Asks(old)[p] = IF old[p] < 0 THEN old[p] ELSE 0
                          /\ Bids(new)[p] = IF new[p] > 0 THEN new[p] ELSE 0
                          /\ Asks(new)[p] = IF new[p] < 0 THEN new[p] ELSE 0
  BY BookFacts
<1>2. /\ U \subseteq Level
      /\ \A l \in Level :
           l \in U <=> \/ Bids(old)[l.price] # Bids(new)[l.price] /\ l.size = Bids(new)[l.price]
                       \/ Asks(old)[l.price] # Asks(new)[l.price] /\ l.size = Asks(new)[l.price]
  BY EntriesAre
<1>3. /\ R \subseteq Level /\ LevelsOf(new) \subseteq Level
      /\ \A l \in Level : l \in R <=> l.size = old[l.price] /\ l.size # 0
      /\ \A l \in Level : l \in LevelsOf(new) <=> l.size = new[l.price] /\ l.size # 0
  BY LevelsOfIs
<1>4. \A l \in Level : l.price \in Price /\ l.size \in Int /\ l = [price |-> l.price, size |-> l.size]
  BY LevelFacts
<1>. HIDE DEF U, R
<1>5. \A u \in U : u.size \in {0, new[u.price]}
  BY <1>1, <1>2, <1>4
<1>6. \A p \in Price : new[p] # 0 /\ new[p] # old[p] => [price |-> p, size |-> new[p]] \in U
  <2>. SUFFICES ASSUME NEW p \in Price, new[p] # 0, new[p] # old[p]
                PROVE  [price |-> p, size |-> new[p]] \in U
    OBVIOUS
  <2>. DEFINE l == [price |-> p, size |-> new[p]]
  <2>1. l \in Level /\ l.price = p /\ l.size = new[p]
    BY <1>1 DEF Level
  <2>. HIDE DEF l
  <2>2. \/ Bids(old)[p] # Bids(new)[p] /\ new[p] = Bids(new)[p]
        \/ Asks(old)[p] # Asks(new)[p] /\ new[p] = Asks(new)[p]
    BY <1>1
  <2>3. l \in U
    BY <1>2, <2>1, <2>2
  <2>. QED BY <2>3 DEF l
<1>7. \A p \in Price : new[p] # old[p] => \E u \in U : u.price = p
  <2>. SUFFICES ASSUME NEW p \in Price, new[p] # old[p] PROVE \E u \in U : u.price = p
    OBVIOUS
  <2>1. CASE new[p] # 0
    BY <1>6, <2>1
  <2>2. CASE new[p] = 0
    <3>. DEFINE l == [price |-> p, size |-> 0]
    <3>1. l \in Level /\ l.price = p /\ l.size = 0
      BY DEF Level
    <3>. HIDE DEF l
    <3>2. \/ Bids(old)[p] # Bids(new)[p] /\ 0 = Bids(new)[p]
          \/ Asks(old)[p] # Asks(new)[p] /\ 0 = Asks(new)[p]
      BY <1>1, <2>2
    <3>3. l \in U
      BY <1>2, <3>1, <3>2
    <3>. QED BY <3>1, <3>3
  <2>. QED BY <2>1, <2>2
<1>8. \A x \in R : x \in LevelsOf(new) \/ \E u \in U : u.price = x.price
  BY <1>3, <1>4, <1>7
<1>9. LevelsOf(new) \subseteq U \cup R
  BY <1>3, <1>4, <1>6
<1>10. \A u \in U : new[u.price] # 0 => [price |-> u.price, size |-> new[u.price]] \in U
  <2>. SUFFICES ASSUME NEW u \in U, new[u.price] # 0
                PROVE  new[u.price] # old[u.price]
    BY <1>2, <1>4, <1>6
  <2>. QED BY <1>1, <1>2, <1>4
<1>11. Merges(new, {}, U, R)
  BY <1>5, <1>8, <1>9, <1>10 DEF Merges
<1>12. ASSUME R = {}, NEW u \in U PROVE u.size # 0
  <2>1. old[u.price] = 0
    <3>. DEFINE l == [price |-> u.price, size |-> old[u.price]]
    <3>1. l \in Level /\ l.size = old[l.price]
      BY <1>1, <1>2, <1>4 DEF Level
    <3>2. l.size = 0
      BY <1>3, <1>12, <3>1
    <3>. QED BY <3>2
  <2>. QED BY <1>1, <1>2, <1>4, <2>1
<1>13. ASSUME U = {} PROVE R = LevelsOf(new)
  <2>1. \A p \in Price : new[p] = old[p]
    BY <1>7, <1>13
  <2>. QED BY <1>3, <1>4, <2>1
<1>. QED BY <1>11, <1>12, <1>13 DEF U, R

(* The output with an entry taken over, unless it is a deletion.           *)
With(Q, u) == IF u.size # 0 THEN Q \cup {u} ELSE Q

(* A level below all that is left of the message is kept.                  *)
LEMMA KeepMerges ==
  ASSUME NEW b \in Book, NEW Q \in SUBSET Level, NEW U \in SUBSET Level, NEW R \in SUBSET Level,
         NEW x \in Level, Merges(b, Q, U, R \cup {x}),
         \A y \in R : x.price < y.price, \A u \in U : x.price < u.price
  PROVE  Merges(b, Q \cup {x}, U, R)
<1>1. \A l \in Level : l.price \in Int
  BY LevelFacts
<1>2. x \in LevelsOf(b)
  BY <1>1 DEF Merges
<1>. QED BY <1>2 DEF Merges

(* An entry below all that is left of the old book is taken over.           *)
LEMMA InsertMerges ==
  ASSUME NEW b \in Book, NEW Q \in SUBSET Level, NEW U \in SUBSET Level, NEW R \in SUBSET Level,
         NEW u \in Level, Merges(b, Q, U \cup {u}, R),
         \A v \in U : u.price <= v.price /\ (u.price = v.price => u.size = 0 \/ v.size = 0),
         \A x \in R : u.price < x.price
  PROVE  Merges(b, With(Q, u), U, R)
<1>1. \A l \in Level : l.price \in Int
  BY LevelFacts
<1>2. \A l \in Level : l \in LevelsOf(b) <=> l.size = b[l.price] /\ l.size # 0
  BY LevelsOfIs
<1>3. \A v \in U : v.size \in {0, b[v.price]}
  BY DEF Merges
<1>4. u.size # 0 => u \in LevelsOf(b)
  BY <1>2 DEF Merges
<1>5. \A x \in R : x \in LevelsOf(b) \/ \E v \in U : v.price = x.price
  BY <1>1 DEF Merges
<1>6. LevelsOf(b) \subseteq With(Q, u) \cup U \cup R
  BY <1>2 DEF Merges, With
<1>7. \A v \in U : b[v.price] # 0 => [price |-> v.price, size |-> b[v.price]] \in With(Q, u) \cup U
  <2>. SUFFICES ASSUME NEW v \in U, b[v.price] # 0
                PROVE  [price |-> v.price, size |-> b[v.price]] \in With(Q, u) \cup U
    OBVIOUS
  <2>1. [price |-> v.price, size |-> b[v.price]] \in Q \cup U \cup {u}
    BY DEF Merges
  <2>2. [price |-> v.price, size |-> b[v.price]] = u => u.size # 0
    OBVIOUS
  <2>. QED BY <2>1, <2>2 DEF With
<1>8. \A q \in Q : q.price < u.price \/ u.size = 0
  BY DEF Merges
<1>9. \A q \in With(Q, u) : /\ \A x \in R : q.price < x.price
                            /\ \A v \in U : q.price < v.price \/ (q.price = v.price /\ v.size = 0)
  <2>1. \A q \in Q : /\ \A x \in R : q.price < x.price
                     /\ \A v \in U : q.price < v.price \/ (q.price = v.price /\ v.size = 0)
    BY DEF Merges
  <2>2. u.size # 0 => \A v \in U : u.price < v.price \/ (u.price = v.price /\ v.size = 0)
    BY <1>1
  <2>. QED BY <2>1, <2>2 DEF With
<1>10. With(Q, u) \subseteq LevelsOf(b)
  BY <1>4 DEF Merges, With
<1>. QED BY <1>3, <1>5, <1>6, <1>7, <1>9, <1>10 DEF Merges

(* An entry takes the place of the level of its price.                     *)
LEMMA UpdateMerges ==
  ASSUME NEW b \in Book, NEW Q \in SUBSET Level, NEW U \in SUBSET Level, NEW R \in SUBSET Level,
         NEW u \in Level, NEW x \in Level, x.price = u.price, Merges(b, Q, U \cup {u}, R \cup {x}),
         \A v \in U : u.price <= v.price /\ (u.price = v.price => u.size = 0 \/ v.size = 0),
         \A y \in R : x.price < y.price
  PROVE  Merges(b, With(Q, u), U, R)
<1>1. \A l \in Level : l.price \in Int /\ l = [price |-> l.price, size |-> l.size]
  BY LevelFacts
<1>2. \A l \in Level : l \in LevelsOf(b) <=> l.size = b[l.price] /\ l.size # 0
  BY LevelsOfIs
<1>3. LevelsOf(b) \subseteq Q \cup (U \cup {u}) \cup R
  <2>1. x \in LevelsOf(b) => x \in Q \cup (U \cup {u})
    <3>. SUFFICES ASSUME x \in LevelsOf(b) PROVE x \in Q \cup (U \cup {u})
      OBVIOUS
    <3>1. x = [price |-> u.price, size |-> b[u.price]] /\ b[u.price] # 0
      BY <1>1, <1>2
    <3>. QED BY <3>1 DEF Merges
  <2>. QED BY <2>1 DEF Merges
<1>4. Merges(b, Q, U \cup {u}, R)
  <2>1. \A y \in R : y \in LevelsOf(b) \/ \E v \in U \cup {u} : v.price = y.price
    BY DEF Merges
  <2>. QED BY <1>3, <2>1 DEF Merges
<1>5. \A y \in R : u.price < y.price
  OBVIOUS
<1>. QED BY <1>4, <1>5, InsertMerges

-----------------------------------------------------------------------------
(* The inductive invariant.                                                *)

BookTypes ==
  /\ book \in Book
  /\ pc \in {"idle", "accept", "merge", "push"}
  /\ levels \in Seq(Level) /\ ByPrice(levels)
  /\ update \in Seq(Level) /\ Rising(update)
  /\ rest \in Seq(Level) /\ ByPrice(rest)
  /\ result \in Seq(Level) /\ ByPrice(result)

(* Before the merge: the message meets the book it was made for, an empty    *)
(* book meets no deletion, and an empty message only an empty book.         *)
Accepting ==
  pc = "accept" =>
    /\ result = <<>>
    /\ Merges(book, {}, ToSet(update), ToSet(levels))
    /\ levels = <<>> => \A u \in ToSet(update) : u.size # 0
    /\ update = <<>> => levels = <<>>

Merging ==
  pc = "merge" => Merges(book, ToSet(result), ToSet(update), ToSet(rest))

Resting ==
  pc \in {"idle", "push"} =>
    result = <<>> /\ update = <<>> /\ ToSet(levels) = LevelsOf(book)

Mirrored == BookTypes /\ Accepting /\ Merging /\ Resting

LEMMA NoLevel ==
  /\ <<>> \in Seq(Level) /\ ByPrice(<<>>) /\ Rising(<<>>) /\ ToSet(<<>>) = {}
  /\ \A s \in Seq(Level) : ToSet(s) = {} => s = <<>>
<1>1. <<>> \in Seq(Level) /\ ByPrice(<<>>) /\ Rising(<<>>) /\ ToSet(<<>>) = {}
  BY DEF ByPrice, Rising, ToSet
<1>2. ASSUME NEW s \in Seq(Level), s # <<>> PROVE ToSet(s) # {}
  BY <1>2, FirstLevel
<1>. QED BY <1>1, <1>2

LEMMA EmptyBook ==
  /\ NoLevels \in Book /\ LevelsOf(NoLevels) = {}
  /\ \A new \in Book : SidesApart(NoLevels, new)
<1>1. NoLevels \in Book
  BY MaxSizeAssumption DEF NoLevels, Book, Uncrossed
<1>2. LevelsOf(NoLevels) = {}
  BY DEF LevelsOf, NoLevels
<1>3. ASSUME NEW new \in Book PROVE SidesApart(NoLevels, new)
  <2>. SUFFICES ASSUME NEW p \in Changed(Bids(NoLevels), Bids(new)),
                       NEW q \in Changed(Asks(NoLevels), Asks(new))
                PROVE  p <= q
    BY DEF SidesApart
  <2>1. p \in Price /\ q \in Price /\ Bids(NoLevels)[p] # Bids(new)[p] /\ Asks(NoLevels)[q] # Asks(new)[q]
    BY DEF Changed
  <2>2. Bids(NoLevels)[p] = 0 /\ Asks(NoLevels)[q] = 0
    BY <2>1 DEF Bids, Asks, NoLevels
  <2>3. new[p] > 0 /\ new[q] < 0 /\ Uncrossed(new)
    BY <2>1, <2>2, BookFacts
  <2>4. p < q /\ p \in Int /\ q \in Int
    BY <2>1, <2>3, PriceAssumption DEF Uncrossed
  <2>. QED BY <2>4
<1>. QED BY <1>1, <1>2, <1>3

LEMMA InitMirrored == BookInit => Mirrored
BY NoLevel, EmptyBook DEF BookInit, Mirrored, BookTypes, Accepting, Merging, Resting

LEMMA SnapshotMirrored ==
  ASSUME Mirrored, NEW new \in Book, Snapshot(new)
  PROVE  Mirrored'
<1>. DEFINE c == Concatenation(NoLevels, new)
<1>1. /\ c \in Seq(Level) /\ Rising(c) /\ ToSet(c) = Entries(NoLevels, new)
  BY EmptyBook, ConcatenationIs
<1>2. /\ Merges(new, {}, ToSet(c), {})
      /\ \A u \in ToSet(c) : u.size # 0
  BY <1>1, EmptyBook, MessageMerges
<1>3. /\ book' = new /\ levels' = <<>> /\ update' = c /\ pc' = "accept"
      /\ rest' = rest /\ result' = result /\ result = <<>>
  BY DEF Snapshot, Mirrored, Resting
<1>. HIDE DEF c
<1>4. BookTypes'
  BY <1>1, <1>3, NoLevel DEF Mirrored, BookTypes
<1>5. Accepting'
  BY <1>2, <1>3, NoLevel DEF Accepting
<1>. QED BY <1>3, <1>4, <1>5 DEF Mirrored, Merging, Resting

LEMMA DeltaMirrored ==
  ASSUME Mirrored, MayCross = FALSE, NEW new \in Book, Delta(new)
  PROVE  Mirrored'
<1>. DEFINE c == Concatenation(book, new)
<1>0. book \in Book /\ SidesApart(book, new) /\ levels \in Seq(Level)
  BY DEF Mirrored, BookTypes, Delta
<1>1. /\ c \in Seq(Level) /\ Rising(c) /\ ToSet(c) = Entries(book, new)
  BY <1>0, ConcatenationIs
<1>2. /\ book' = new /\ update' = c /\ pc' = "accept" /\ levels' = levels
      /\ rest' = rest /\ result' = result /\ result = <<>> /\ ToSet(levels) = LevelsOf(book)
      /\ book # new
  BY DEF Delta, Mirrored, Resting
<1>3. /\ Merges(new, {}, ToSet(c), ToSet(levels))
      /\ ToSet(levels) = {} => \A u \in ToSet(c) : u.size # 0
      /\ ToSet(c) = {} => LevelsOf(book) = LevelsOf(new)
  BY <1>0, <1>1, <1>2, MessageMerges
<1>. HIDE DEF c
<1>4. c # <<>>
  <2>. SUFFICES ASSUME c = <<>> PROVE book = new
    BY <1>2
  <2>1. LevelsOf(book) = LevelsOf(new)
    BY <1>3, NoLevel
  <2>2. ASSUME NEW p \in Price PROVE book[p] = new[p]
    <3>1. book[p] \in Int /\ new[p] \in Int
      BY <1>0, BookFacts
    <3>. DEFINE l == [price |-> p, size |-> book[p]]
                k == [price |-> p, size |-> new[p]]
    <3>2. l \in Level /\ k \in Level /\ l.price = p /\ l.size = book[p] /\ k.price = p /\ k.size = new[p]
      BY <3>1 DEF Level
    <3>. HIDE DEF l, k
    <3>3. /\ l \in LevelsOf(book) <=> book[p] # 0
          /\ k \in LevelsOf(new) <=> new[p] # 0
          /\ l \in LevelsOf(new) <=> book[p] = new[p] /\ book[p] # 0
          /\ k \in LevelsOf(book) <=> new[p] = book[p] /\ new[p] # 0
      BY <1>0, <3>2, LevelsOfIs
    <3>. QED BY <2>1, <3>1, <3>3
  <2>. QED BY <1>0, <2>2, BookFacts
<1>5. BookTypes'
  BY <1>1, <1>2 DEF Mirrored, BookTypes
<1>6. Accepting'
  BY <1>2, <1>3, <1>4, NoLevel DEF Accepting
<1>. QED BY <1>2, <1>5, <1>6 DEF Mirrored, Merging, Resting

LEMMA AcceptResetMirrored ==
  ASSUME Mirrored, AcceptReset
  PROVE  Mirrored'
<1>1. /\ levels = <<>> /\ update = <<>> /\ result = <<>> /\ levels' = <<>> /\ pc' = "idle"
      /\ UNCHANGED <<book, update, rest, result>>
      /\ Merges(book, {}, ToSet(update), ToSet(levels))
  BY DEF AcceptReset, Mirrored, Accepting
<1>2. LevelsOf(book) = {}
  BY <1>1, NoLevel DEF Merges
<1>3. BookTypes'
  BY <1>1, NoLevel DEF Mirrored, BookTypes
<1>. QED BY <1>1, <1>2, <1>3, NoLevel DEF Mirrored, Accepting, Merging, Resting

LEMMA AcceptInitialMirrored ==
  ASSUME Mirrored, AcceptInitial
  PROVE  Mirrored'
<1>1. /\ levels = <<>> /\ result = <<>> /\ levels' = update /\ update' = <<>> /\ pc' = "push"
      /\ UNCHANGED <<book, rest, result>>
      /\ Merges(book, {}, ToSet(update), ToSet(levels))
      /\ \A u \in ToSet(update) : u.size # 0
  BY DEF AcceptInitial, Mirrored, Accepting
<1>2. book \in Book /\ update \in Seq(Level) /\ Rising(update)
  BY DEF Mirrored, BookTypes
<1>3. ToSet(update) \subseteq Level
  BY <1>2, ToSetProperties
<1>4. ToSet(update) = LevelsOf(book)
  <2>1. LevelsOf(book) \subseteq ToSet(update)
    BY <1>1, NoLevel DEF Merges
  <2>2. \A u \in ToSet(update) : u.size = book[u.price] /\ u.size # 0
    BY <1>1 DEF Merges
  <2>3. ToSet(update) \subseteq LevelsOf(book)
    BY <1>2, <1>3, <2>2, LevelsOfIs
  <2>. QED BY <2>1, <2>3
<1>5. ByPrice(update)
  <2>1. \A i \in DOMAIN update : update[i] \in Level /\ update[i].price \in Int /\ update[i].size # 0
    <3>. SUFFICES ASSUME NEW i \in DOMAIN update
                  PROVE  update[i] \in Level /\ update[i].price \in Int /\ update[i].size # 0
      OBVIOUS
    <3>1. update[i] \in ToSet(update)
      BY DEF ToSet
    <3>. QED BY <1>1, <1>3, <3>1, LevelFacts
  <2>. QED BY <1>2, <2>1 DEF Rising, ByPrice
<1>6. BookTypes'
  BY <1>1, <1>5, NoLevel DEF Mirrored, BookTypes
<1>. QED BY <1>1, <1>4, <1>6 DEF Mirrored, Accepting, Merging, Resting

LEMMA AcceptMergeMirrored ==
  ASSUME Mirrored, AcceptMerge
  PROVE  Mirrored'
<1>1. /\ rest' = levels /\ pc' = "merge" /\ result = <<>>
      /\ UNCHANGED <<book, levels, update, result>>
      /\ Merges(book, {}, ToSet(update), ToSet(levels))
  BY DEF AcceptMerge, Mirrored, Accepting
<1>2. BookTypes'
  BY <1>1 DEF Mirrored, BookTypes
<1>3. Merging'
  BY <1>1, NoLevel DEF Merging
<1>. QED BY <1>1, <1>2, <1>3 DEF Mirrored, Accepting, Resting

LEMMA MergingFacts ==
  ASSUME Mirrored, pc = "merge"
  PROVE  /\ book \in Book /\ levels \in Seq(Level) /\ ByPrice(levels)
         /\ update \in Seq(Level) /\ Rising(update)
         /\ rest \in Seq(Level) /\ ByPrice(rest)
         /\ result \in Seq(Level) /\ ByPrice(result)
         /\ ToSet(update) \subseteq Level /\ ToSet(rest) \subseteq Level /\ ToSet(result) \subseteq Level
         /\ Merges(book, ToSet(result), ToSet(update), ToSet(rest))
BY ToSetProperties DEF Mirrored, BookTypes, Merging

LEMMA KeepExistingMirrored ==
  ASSUME Mirrored, KeepExisting
  PROVE  Mirrored'
<1>. DEFINE x == Head(rest)
            R == ToSet(Tail(rest))
            Q == ToSet(result)
            U == ToSet(update)
<1>1. /\ pc = "merge" /\ rest # <<>> /\ (update # <<>> => x.price < Head(update).price)
      /\ result' = Append(result, x) /\ rest' = Tail(rest)
      /\ UNCHANGED <<book, levels, pc, update>>
  BY DEF KeepExisting
<1>2. /\ book \in Book /\ levels \in Seq(Level) /\ ByPrice(levels)
      /\ update \in Seq(Level) /\ Rising(update)
      /\ rest \in Seq(Level) /\ ByPrice(rest)
      /\ result \in Seq(Level) /\ ByPrice(result)
      /\ U \subseteq Level /\ Q \subseteq Level
      /\ Merges(book, Q, U, ToSet(rest))
  BY <1>1, MergingFacts
<1>3. /\ x \in Level /\ Tail(rest) \in Seq(Level) /\ ByPrice(Tail(rest))
      /\ ToSet(rest) = R \cup {x} /\ \A y \in R : x.price < y.price
  BY <1>1, <1>2, FirstLevel
<1>4. \A u \in U : x.price < u.price
  <2>. SUFFICES ASSUME NEW u \in U PROVE x.price < u.price
    OBVIOUS
  <2>1. update # <<>>
    BY NoLevel
  <2>2. /\ Head(update) \in Level /\ U = ToSet(Tail(update)) \cup {Head(update)}
        /\ \A v \in ToSet(Tail(update)) : Head(update).price <= v.price
    BY <1>2, <2>1, FirstLevel
  <2>3. u.price \in Int /\ Head(update).price \in Int /\ x.price \in Int
    BY <1>2, <1>3, <2>2, LevelFacts
  <2>4. Head(update).price <= u.price
    BY <2>2, <2>3
  <2>. QED BY <1>1, <2>1, <2>3, <2>4
<1>5. R \subseteq Level
  BY <1>3, ToSetProperties
<1>6. Merges(book, Q \cup {x}, U, R)
  <2>. HIDE DEF x, R, Q, U
  <2>. QED BY <1>2, <1>3, <1>4, <1>5, KeepMerges
<1>7. \A y \in Q : y.price < x.price
  BY <1>2, <1>3 DEF Merges
<1>8. Append(result, x) \in Seq(Level) /\ ByPrice(Append(result, x)) /\ ToSet(Append(result, x)) = Q \cup {x}
  BY <1>2, <1>3, <1>7, LastLevel
<1>. HIDE DEF x, Q
<1>9. BookTypes'
  BY <1>1, <1>2, <1>3, <1>8 DEF BookTypes
<1>10. Merging'
  BY <1>1, <1>6, <1>8 DEF Merging
<1>. QED BY <1>1, <1>9, <1>10 DEF Mirrored, Accepting, Resting

(* Putting out an entry that is above all that was put out.                *)
LEMMA WithSizeIs ==
  ASSUME NEW s \in Seq(Level), ByPrice(s), NEW u \in Level,
         u.size # 0 => \A x \in ToSet(s) : x.price < u.price
  PROVE  /\ s \o WithSize(u) \in Seq(Level) /\ ByPrice(s \o WithSize(u))
         /\ ToSet(s \o WithSize(u)) = With(ToSet(s), u)
<1>1. CASE u.size # 0
  <2>1. s \o WithSize(u) = Append(s, u)
    BY <1>1 DEF WithSize
  <2>. QED BY <1>1, <2>1, LastLevel DEF With
<1>2. CASE u.size = 0
  <2>1. s \o WithSize(u) = s
    BY <1>2 DEF WithSize
  <2>. QED BY <1>2, <2>1 DEF With
<1>. QED BY <1>1, <1>2

LEMMA InsertNewMirrored ==
  ASSUME Mirrored, InsertNew
  PROVE  Mirrored'
<1>. DEFINE u == Head(update)
            U == ToSet(Tail(update))
            Q == ToSet(result)
            R == ToSet(rest)
            out == result \o WithSize(u)
<1>1. /\ pc = "merge" /\ update # <<>> /\ (rest # <<>> => u.price < Head(rest).price)
      /\ result' = out /\ update' = Tail(update)
      /\ UNCHANGED <<book, levels, pc, rest>>
  BY DEF InsertNew
<1>2. /\ book \in Book /\ levels \in Seq(Level) /\ ByPrice(levels)
      /\ update \in Seq(Level) /\ Rising(update)
      /\ rest \in Seq(Level) /\ ByPrice(rest)
      /\ result \in Seq(Level) /\ ByPrice(result)
      /\ R \subseteq Level /\ Q \subseteq Level
      /\ Merges(book, Q, ToSet(update), R)
  BY <1>1, MergingFacts
<1>3. /\ u \in Level /\ Tail(update) \in Seq(Level) /\ Rising(Tail(update))
      /\ ToSet(update) = U \cup {u}
      /\ \A v \in U : u.price <= v.price /\ (u.price = v.price => u.size = 0 \/ v.size = 0)
  BY <1>1, <1>2, FirstLevel
<1>4. \A x \in R : u.price < x.price
  <2>. SUFFICES ASSUME NEW x \in R PROVE u.price < x.price
    OBVIOUS
  <2>1. rest # <<>>
    BY NoLevel
  <2>2. /\ Head(rest) \in Level /\ R = ToSet(Tail(rest)) \cup {Head(rest)}
        /\ \A y \in ToSet(Tail(rest)) : Head(rest).price < y.price
    BY <1>2, <2>1, FirstLevel
  <2>3. x.price \in Int /\ Head(rest).price \in Int /\ u.price \in Int
    BY <1>2, <1>3, <2>2, LevelFacts
  <2>4. Head(rest).price <= x.price
    BY <2>2, <2>3
  <2>. QED BY <1>1, <2>1, <2>3, <2>4
<1>5. U \subseteq Level
  BY <1>3, ToSetProperties
<1>6. Merges(book, With(Q, u), U, R)
  <2>. HIDE DEF u, R, Q, U
  <2>. QED BY <1>2, <1>3, <1>4, <1>5, InsertMerges
<1>7. u.size # 0 => \A y \in Q : y.price < u.price
  BY <1>2, <1>3 DEF Merges
<1>8. out \in Seq(Level) /\ ByPrice(out) /\ ToSet(out) = With(Q, u)
  BY <1>2, <1>3, <1>7, WithSizeIs
<1>. HIDE DEF u, Q, out
<1>9. BookTypes'
  BY <1>1, <1>2, <1>3, <1>8 DEF BookTypes
<1>10. Merging'
  BY <1>1, <1>6, <1>8 DEF Merging
<1>. QED BY <1>1, <1>9, <1>10 DEF Mirrored, Accepting, Resting

LEMMA UpdateExistingMirrored ==
  ASSUME Mirrored, UpdateExisting
  PROVE  Mirrored'
<1>. DEFINE u == Head(update)
            x == Head(rest)
            U == ToSet(Tail(update))
            Q == ToSet(result)
            R == ToSet(Tail(rest))
            out == result \o WithSize(u)
<1>1. /\ pc = "merge" /\ update # <<>> /\ rest # <<>> /\ u.price = x.price
      /\ result' = out /\ update' = Tail(update) /\ rest' = Tail(rest)
      /\ UNCHANGED <<book, levels, pc>>
  BY DEF UpdateExisting
<1>2. /\ book \in Book /\ levels \in Seq(Level) /\ ByPrice(levels)
      /\ update \in Seq(Level) /\ Rising(update)
      /\ rest \in Seq(Level) /\ ByPrice(rest)
      /\ result \in Seq(Level) /\ ByPrice(result)
      /\ Q \subseteq Level
      /\ Merges(book, Q, ToSet(update), ToSet(rest))
  BY <1>1, MergingFacts
<1>3. /\ u \in Level /\ Tail(update) \in Seq(Level) /\ Rising(Tail(update))
      /\ ToSet(update) = U \cup {u}
      /\ \A v \in U : u.price <= v.price /\ (u.price = v.price => u.size = 0 \/ v.size = 0)
  BY <1>1, <1>2, FirstLevel
<1>4. /\ x \in Level /\ Tail(rest) \in Seq(Level) /\ ByPrice(Tail(rest))
      /\ ToSet(rest) = R \cup {x} /\ \A y \in R : x.price < y.price
  BY <1>1, <1>2, FirstLevel
<1>5. U \subseteq Level /\ R \subseteq Level
  BY <1>3, <1>4, ToSetProperties
<1>6. Merges(book, With(Q, u), U, R)
  <2>. HIDE DEF u, x, R, Q, U
  <2>. QED BY <1>1, <1>2, <1>3, <1>4, <1>5, UpdateMerges
<1>7. u.size # 0 => \A y \in Q : y.price < u.price
  BY <1>2, <1>3 DEF Merges
<1>8. out \in Seq(Level) /\ ByPrice(out) /\ ToSet(out) = With(Q, u)
  BY <1>2, <1>3, <1>7, WithSizeIs
<1>. HIDE DEF u, x, Q, out
<1>9. BookTypes'
  BY <1>1, <1>2, <1>3, <1>4, <1>8 DEF BookTypes
<1>10. Merging'
  BY <1>1, <1>6, <1>8 DEF Merging
<1>. QED BY <1>1, <1>9, <1>10 DEF Mirrored, Accepting, Resting

LEMMA MergeDoneMirrored ==
  ASSUME Mirrored, MergeDone
  PROVE  Mirrored'
<1>1. /\ pc = "merge" /\ rest = <<>> /\ update = <<>>
      /\ levels' = result /\ result' = <<>> /\ pc' = "push"
      /\ UNCHANGED <<book, update, rest>>
  BY DEF MergeDone
<1>2. Merges(book, ToSet(result), {}, {})
  BY <1>1, NoLevel, MergingFacts
<1>3. ToSet(result) = LevelsOf(book)
  BY <1>2 DEF Merges
<1>4. BookTypes'
  BY <1>1, NoLevel DEF Mirrored, BookTypes
<1>. QED BY <1>1, <1>3, <1>4 DEF Mirrored, Accepting, Merging, Resting

LEMMA PushMirrored ==
  ASSUME Mirrored, Push
  PROVE  Mirrored'
BY DEF Push, Mirrored, BookTypes, Accepting, Merging, Resting

LEMMA StutterMirrored ==
  ASSUME Mirrored, UNCHANGED bookVars
  PROVE  Mirrored'
BY DEF bookVars, Mirrored, BookTypes, Accepting, Merging, Resting

LEMMA NextMirrored ==
  ASSUME MayCross = FALSE, Mirrored, [BookNext]_bookVars
  PROVE  Mirrored'
BY SnapshotMirrored, DeltaMirrored, AcceptResetMirrored, AcceptInitialMirrored, AcceptMergeMirrored,
   KeepExistingMirrored, InsertNewMirrored, UpdateExistingMirrored, MergeDoneMirrored, PushMirrored,
   StutterMirrored DEF BookNext

-----------------------------------------------------------------------------
(* The feed of the book: the walk of SnapshotMerge, over prices.            *)

BookMergeState ==
  {m \in [cache : Seq(Level), pos : Nat, appending : BOOLEAN, changed : BOOLEAN] :
     m.pos \in 1..Len(m.cache) + 1}

(* Where the walk stops: all it passed sort before r, what it met does not.  *)
LEMMA BookAdvancedIs ==
  ASSUME NEW c \in Seq(Level), NEW pos \in 1..Len(c) + 1, NEW r \in Level
  PROVE  /\ ObFeed!Advanced(c, pos, r) \in pos..Len(c) + 1
         /\ \A i \in pos..ObFeed!Advanced(c, pos, r) - 1 : c[i].price < r.price
         /\ ObFeed!Advanced(c, pos, r) <= Len(c) => ~(c[ObFeed!Advanced(c, pos, r)].price < r.price)
<1>. DEFINE Stops(p) == /\ \A i \in pos..p - 1 : c[i].price < r.price
                        /\ p <= Len(c) => ~(c[p].price < r.price)
            B == {p \in pos..Len(c) : ~(c[p].price < r.price)}
<1>0. Len(c) \in Nat
  OBVIOUS
<1>1. \E p \in pos..Len(c) + 1 : Stops(p)
  <2>1. CASE B = {}
    <3>1. Stops(Len(c) + 1) /\ Len(c) + 1 \in pos..Len(c) + 1
      BY <1>0, <2>1
    <3>. QED BY <3>1
  <2>2. CASE B # {}
    <3>1. B \in SUBSET (1..Len(c))
      OBVIOUS
    <3>2. Min(B) \in B /\ \A j \in B : Min(B) <= j
      <4>. HIDE DEF B
      <4>. QED BY <1>0, <2>2, <3>1, MinIsPosition
    <3>3. PICK b \in B : \A j \in B : b <= j
      BY <3>2
    <3>4. b \in pos..Len(c) /\ ~(c[b].price < r.price)
      BY <3>3
    <3>5. ASSUME NEW i \in pos..b - 1 PROVE c[i].price < r.price
      <4>1. i \in pos..Len(c) /\ ~(b <= i)
        BY <1>0, <3>4
      <4>2. i \notin B
        BY <3>3, <4>1
      <4>. QED BY <4>1, <4>2
    <3>6. Stops(b) /\ b \in pos..Len(c) + 1
      BY <1>0, <3>4, <3>5
    <3>. QED BY <3>6
  <2>. QED BY <2>1, <2>2
<1>2. ObFeed!Advanced(c, pos, r) = CHOOSE p \in pos..Len(c) + 1 : Stops(p)
  BY DEF ObFeed!Advanced, PriceOf
<1>3. ObFeed!Advanced(c, pos, r) \in pos..Len(c) + 1 /\ Stops(ObFeed!Advanced(c, pos, r))
  <2>. HIDE DEF Stops
  <2>. QED BY <1>1, <1>2
<1>. QED BY <1>3

(* The three things that can happen to a record r of the batch.             *)
BookAppends(m, r, new) ==
  /\ m.appending \/ \A i \in m.pos..Len(m.cache) : m.cache[i].price < r.price
  /\ new = [cache |-> Append(m.cache, r), pos |-> m.pos, appending |-> TRUE, changed |-> TRUE]

BookMeets(m, r, p, new) ==
  /\ p \in m.pos..Len(m.cache) /\ m.cache[p].price = r.price
  /\ \A i \in m.pos..p - 1 : m.cache[i].price < r.price
  /\ new = [cache |-> m.cache, pos |-> p + 1, appending |-> m.appending, changed |-> m.changed]

BookInserts(m, r, p, new) ==
  /\ ~m.appending /\ p \in m.pos..Len(m.cache) /\ r.price < m.cache[p].price
  /\ \A i \in m.pos..p - 1 : m.cache[i].price < r.price
  /\ new = [cache |-> InsertAt(m.cache, p, r), pos |-> p + 1, appending |-> m.appending, changed |-> TRUE]

LEMMA BookMergeOneIs ==
  ASSUME NEW m \in BookMergeState, NEW r \in Level
  PROVE  /\ ObFeed!MergeOne(m, r) \in BookMergeState
         /\ \/ BookAppends(m, r, ObFeed!MergeOne(m, r))
            \/ \E p \in 1..Len(m.cache) : BookMeets(m, r, p, ObFeed!MergeOne(m, r)) \/ BookInserts(m, r, p, ObFeed!MergeOne(m, r))
<1>. DEFINE c == m.cache
            p == ObFeed!Advanced(c, m.pos, r)
            new == ObFeed!MergeOne(m, r)
<1>0. /\ c \in Seq(Level) /\ Len(c) \in Nat /\ m.pos \in 1..Len(c) + 1
      /\ m.appending \in BOOLEAN /\ m.changed \in BOOLEAN
      /\ m = [cache |-> c, pos |-> m.pos, appending |-> m.appending, changed |-> m.changed]
  BY DEF BookMergeState
<1>1. /\ p \in m.pos..Len(c) + 1
      /\ \A i \in m.pos..p - 1 : c[i].price < r.price
      /\ p <= Len(c) => ~(c[p].price < r.price)
  <2>. HIDE DEF c
  <2>. QED BY <1>0, BookAdvancedIs
<1>2. p <= Len(c) => c[p] \in Level /\ c[p].price \in Int /\ r.price \in Int /\ (ObFeed!Same(r, c[p]) <=> c[p].price = r.price)
  <2>. SUFFICES ASSUME p <= Len(c)
                PROVE  c[p] \in Level /\ c[p].price \in Int /\ r.price \in Int /\ (ObFeed!Same(r, c[p]) <=> c[p].price = r.price)
    OBVIOUS
  <2>1. c[p] \in Level
    BY <1>0, <1>1
  <2>. QED BY <2>1, LevelFacts DEF ObFeed!Same, PriceOf
<1>3. CASE m.appending \/ p > Len(c)
  <2>1. new = [m EXCEPT !.cache = Append(c, r), !.appending = TRUE, !.changed = TRUE]
    BY <1>0, <1>1, <1>3 DEF ObFeed!MergeOne
  <2>2. new = [cache |-> Append(c, r), pos |-> m.pos, appending |-> TRUE, changed |-> TRUE]
    BY <1>0, <2>1
  <2>3. Append(c, r) \in Seq(Level) /\ Len(Append(c, r)) = Len(c) + 1
    BY <1>0
  <2>4. new \in BookMergeState
    BY <1>0, <2>2, <2>3 DEF BookMergeState
  <2>5. m.appending \/ \A i \in m.pos..Len(c) : c[i].price < r.price
    BY <1>0, <1>1, <1>3
  <2>. QED BY <2>2, <2>4, <2>5 DEF BookAppends
<1>4. CASE ~m.appending /\ p <= Len(c) /\ c[p].price = r.price
  <2>1. new = [m EXCEPT !.pos = p + 1]
    BY <1>2, <1>4 DEF ObFeed!MergeOne
  <2>2. new = [cache |-> c, pos |-> p + 1, appending |-> m.appending, changed |-> m.changed]
    BY <1>0, <2>1
  <2>3. p \in m.pos..Len(c) /\ p \in 1..Len(c) /\ p + 1 \in 1..Len(c) + 1
    BY <1>0, <1>1, <1>4
  <2>4. new \in BookMergeState
    <3>. HIDE DEF p
    <3>. QED BY <1>0, <2>2, <2>3 DEF BookMergeState
  <2>5. BookMeets(m, r, p, new)
    BY <1>1, <1>4, <2>2, <2>3 DEF BookMeets
  <2>. QED BY <2>3, <2>4, <2>5
<1>5. CASE ~m.appending /\ p <= Len(c) /\ c[p].price # r.price
  <2>1. new = [m EXCEPT !.cache = InsertAt(c, p, r), !.pos = p + 1, !.changed = TRUE]
    BY <1>2, <1>5 DEF ObFeed!MergeOne, ObFeed!InsertAt, InsertAt
  <2>2. new = [cache |-> InsertAt(c, p, r), pos |-> p + 1, appending |-> m.appending, changed |-> TRUE]
    BY <1>0, <2>1
  <2>3. p \in m.pos..Len(c) /\ p \in 1..Len(c) /\ p \in 1..Len(c) + 1 /\ p + 1 \in 1..(Len(c) + 1) + 1
    BY <1>0, <1>1, <1>5
  <2>4. InsertAt(c, p, r) \in Seq(Level) /\ Len(InsertAt(c, p, r)) = Len(c) + 1
    <3>. HIDE DEF c, p
    <3>. QED BY <1>0, <2>3, InsertAtProperties
  <2>5. new \in BookMergeState
    <3>. HIDE DEF p
    <3>. QED BY <1>0, <2>2, <2>3, <2>4 DEF BookMergeState
  <2>6. r.price < c[p].price
    BY <1>1, <1>2, <1>5
  <2>7. BookInserts(m, r, p, new)
    BY <1>1, <1>5, <2>2, <2>3, <2>6 DEF BookInserts
  <2>. QED BY <2>3, <2>5, <2>7
<1>. QED BY <1>0, <1>1, <1>3, <1>4, <1>5

(* The run of the walk along a batch.                                      *)
BookWalkStart(c) == [cache |-> c, pos |-> 1, appending |-> FALSE, changed |-> FALSE]

BookWalkRun(v, c, in) ==
  /\ v \in [0..Len(in) -> BookMergeState]
  /\ v[0] = BookWalkStart(c) /\ v[Len(in)] = ObFeed!FoldLeft(ObFeed!MergeOne, BookWalkStart(c), in)
  /\ \A i \in 1..Len(in) : v[i] = ObFeed!MergeOne(v[i - 1], in[i])

LEMMA BookWalkChain ==
  ASSUME NEW c \in Seq(Level), NEW in \in Seq(Level)
  PROVE  \E v : BookWalkRun(v, c, in)
<1>. DEFINE n == Len(in)
            base == BookWalkStart(c)
            step == [p \in (1..n) \X BookMergeState |-> ObFeed!MergeOne(p[2], in[p[1]])]
            k == CHOOSE f : f = [u \in SUBSET (DOMAIN in) |->
                   IF u = {} THEN base ELSE ObFeed!MergeOne(f[u \ {Max(u)}], in[Max(u)])]
<1>1. n \in Nat /\ DOMAIN in = 1..n /\ \A i \in 1..n : in[i] \in Level
  OBVIOUS
<1>2. step \in [(1..n) \X BookMergeState -> BookMergeState]
  BY <1>1, BookMergeOneIs
<1>3. base \in BookMergeState
  BY DEF BookMergeState, BookWalkStart
<1>4. PICK h : FoldSolution(h, n, BookMergeState, base, step)
  <2>. HIDE DEF step, n, base
  <2>. QED BY <1>1, <1>2, <1>3, FoldExists
<1>5. \A u \in SUBSET (1..n) : u # {} => Max(u) \in 1..n
  BY <1>1, MaxIsPosition
<1>6. \A u \in SUBSET (1..n) :
        h[u] = IF u = {} THEN base ELSE ObFeed!MergeOne(h[u \ {Max(u)}], in[Max(u)])
  BY <1>4, <1>5 DEF FoldSolution
<1>7. h = [u \in SUBSET (DOMAIN in) |-> IF u = {} THEN base ELSE ObFeed!MergeOne(h[u \ {Max(u)}], in[Max(u)])]
  BY <1>1, <1>4, <1>6 DEF FoldSolution
<1>8. k = [u \in SUBSET (DOMAIN in) |-> IF u = {} THEN base ELSE ObFeed!MergeOne(k[u \ {Max(u)}], in[Max(u)])]
  BY <1>7
<1>9. ObFeed!FoldLeft(ObFeed!MergeOne, base, in) = k[DOMAIN in]
  BY DEF ObFeed!FoldLeft, ObFeed!MapThenFoldSet, ObFeed!Max, Max
<1>. HIDE DEF k
<1>10. k[{}] = base
  BY <1>8
<1>11. ASSUME NEW u \in SUBSET (1..n), u # {}, k[u \ {Max(u)}] \in BookMergeState
       PROVE  k[u] = step[<<Max(u), k[u \ {Max(u)}]>>]
  <2>1. k[u] = ObFeed!MergeOne(k[u \ {Max(u)}], in[Max(u)])
    BY <1>1, <1>8, <1>11
  <2>2. <<Max(u), k[u \ {Max(u)}]>> \in (1..n) \X BookMergeState
    BY <1>5, <1>11
  <2>. QED BY <2>1, <2>2
<1>12. PICK v : FoldRun(v, n, BookMergeState, base, step, k[1..n])
  <2>. HIDE DEF step, n, base
  <2>. QED BY <1>1, <1>2, <1>3, <1>10, <1>11, FoldChain
<1>13. ASSUME NEW i \in 1..n PROVE v[i] = ObFeed!MergeOne(v[i - 1], in[i])
  <2>1. i - 1 \in 0..n
    BY <1>1
  <2>2. v[i - 1] \in BookMergeState
    BY <1>12, <2>1 DEF FoldRun
  <2>3. v[i] = step[<<i, v[i - 1]>>]
    BY <1>12 DEF FoldRun
  <2>. QED BY <2>2, <2>3
<1>14. v \in [0..n -> BookMergeState] /\ v[0] = base /\ v[n] = k[DOMAIN in]
  <2>. HIDE DEF step, n, base
  <2>. QED BY <1>1, <1>12 DEF FoldRun
<1>15. v[n] = ObFeed!FoldLeft(ObFeed!MergeOne, base, in)
  <2>. HIDE DEF n, base
  <2>. QED BY <1>9, <1>14
<1>. QED BY <1>13, <1>14, <1>15 DEF BookWalkRun

(* The prices of a sequence of levels.                                     *)
PricesOf(s) == {l.price : l \in ToSet(s)}

(* c with r put before position p, for a price that fits there.             *)
LEMMA InsertedByPrice ==
  ASSUME NEW c \in Seq(Level), ByPrice(c), NEW r \in Level, NEW p \in 1..Len(c) + 1,
         \A j \in 1..Len(c) : j < p => c[j].price < r.price,
         \A j \in 1..Len(c) : p <= j => r.price < c[j].price,
         NEW d, d = InsertAt(c, p, r) \/ (p = Len(c) + 1 /\ d = Append(c, r))
  PROVE  /\ d \in Seq(Level) /\ Len(d) = Len(c) + 1 /\ ByPrice(d)
         /\ PricesOf(d) = PricesOf(c) \cup {r.price}
         /\ \A j \in 1..Len(d) : j <= p => d[j].price <= r.price
<1>0. Len(c) \in Nat /\ p \in Nat /\ r.price \in Int /\ \A i \in 1..Len(c) : c[i].price \in Int
  BY LevelFacts
<1>1. /\ d \in Seq(Level) /\ Len(d) = Len(c) + 1
      /\ \A i \in 1..Len(c) + 1 : d[i] = IF i < p THEN c[i] ELSE IF i = p THEN r ELSE c[i - 1]
  <2>1. CASE d = InsertAt(c, p, r)
    BY <2>1, InsertAtProperties
  <2>2. CASE p = Len(c) + 1 /\ d = Append(c, r)
    BY <1>0, <2>2
  <2>. QED BY <2>1, <2>2
<1>2. ToSet(d) = ToSet(c) \cup {r}
  <2>1. /\ ToSet(Append(c, r)) = ToSet(c) \cup {r}
        /\ \A i \in 1..Len(c) + 1 : ToSet(InsertAt(c, i, r)) = ToSet(c) \cup {r}
    BY ToSetGrowth
  <2>. QED BY <2>1
<1>3. \A x, y \in 1..Len(c) : x < y => c[x].price < c[y].price
  BY DEF ByPrice
<1>4. ASSUME NEW i \in 1..Len(c) + 1, NEW j \in 1..Len(c) + 1, i < j PROVE d[i].price < d[j].price
  <2>0. i \in Nat /\ j \in Nat
    OBVIOUS
  <2>1. CASE j < p
    <3>1. d[i] = c[i] /\ d[j] = c[j] /\ i \in 1..Len(c) /\ j \in 1..Len(c)
      BY <1>0, <1>1, <1>4, <2>0, <2>1
    <3>. QED BY <1>3, <1>4, <3>1
  <2>2. CASE j = p
    <3>1. d[i] = c[i] /\ d[j] = r /\ i \in 1..Len(c) /\ i < p
      BY <1>0, <1>1, <1>4, <2>0, <2>2
    <3>. QED BY <3>1
  <2>3. CASE p < j
    <3>1. d[j] = c[j - 1] /\ j - 1 \in 1..Len(c) /\ p <= j - 1
      BY <1>0, <1>1, <2>0, <2>3
    <3>2. CASE i < p
      <4>1. d[i] = c[i] /\ i \in 1..Len(c) /\ i < j - 1
        BY <1>0, <1>1, <2>0, <3>1, <3>2
      <4>. QED BY <1>3, <3>1, <4>1
    <3>3. CASE i = p
      <4>1. d[i] = r
        BY <1>1, <3>3
      <4>. QED BY <3>1, <4>1
    <3>4. CASE p < i
      <4>1. d[i] = c[i - 1] /\ i - 1 \in 1..Len(c) /\ i - 1 < j - 1
        BY <1>0, <1>1, <1>4, <2>0, <3>4
      <4>. QED BY <1>3, <3>1, <4>1
    <3>. QED BY <1>0, <2>0, <3>2, <3>3, <3>4
  <2>. QED BY <1>0, <2>0, <2>1, <2>2, <2>3
<1>5. ByPrice(d)
  <2>1. DOMAIN d = 1..Len(c) + 1
    BY <1>1
  <2>. QED BY <1>4, <2>1 DEF ByPrice
<1>6. ASSUME NEW j \in 1..Len(c) + 1, j <= p PROVE d[j].price <= r.price
  <2>1. CASE j < p
    <3>1. d[j] = c[j] /\ j \in 1..Len(c)
      BY <1>0, <1>1, <2>1
    <3>. QED BY <1>0, <2>1, <3>1
  <2>2. CASE j = p
    BY <1>0, <1>1, <2>2
  <2>. QED BY <1>0, <1>6, <2>1, <2>2
<1>7. PricesOf(d) = PricesOf(c) \cup {r.price}
  BY <1>2 DEF PricesOf
<1>. QED BY <1>1, <1>5, <1>6, <1>7

(* What holds of the walk after i levels: the cache is in order and has all  *)
(* their prices, and what lies behind is below all that is to come.         *)
BookWalkInv(m, in, i) ==
  /\ m \in BookMergeState
  /\ ByPrice(m.cache)
  /\ {in[j].price : j \in 1..i} \subseteq PricesOf(m.cache)
  /\ \A l \in i + 1..Len(in), j \in 1..Len(m.cache) :
       j < m.pos \/ m.appending => m.cache[j].price < in[l].price

LEMMA BookWalkStep ==
  ASSUME NEW in \in Seq(Level), ByPrice(in),
         NEW i \in 1..Len(in), NEW m, BookWalkInv(m, in, i - 1)
  PROVE  BookWalkInv(ObFeed!MergeOne(m, in[i]), in, i)
<1>. DEFINE r == in[i]
            d == m.cache
            new == ObFeed!MergeOne(m, r)
<1>0. /\ i \in Nat /\ Len(in) \in Nat /\ (i - 1) + 1 = i
      /\ m \in BookMergeState /\ r \in Level /\ r.price \in Int
  BY LevelFacts DEF BookWalkInv
<1>1. /\ d \in Seq(Level) /\ Len(d) \in Nat /\ m.pos \in 1..Len(d) + 1
      /\ m.appending \in BOOLEAN
      /\ \A j \in 1..Len(d) : d[j] \in Level /\ d[j].price \in Int
  <2>1. d \in Seq(Level) /\ Len(d) \in Nat /\ m.pos \in 1..Len(d) + 1 /\ m.appending \in BOOLEAN
    BY <1>0 DEF BookMergeState
  <2>2. \A j \in 1..Len(d) : d[j] \in Level
    BY <2>1, ElementOfSeq
  <2>. QED BY <2>1, <2>2, LevelFacts
<1>2. \A j \in 1..Len(d) : j < m.pos \/ m.appending => d[j].price < r.price
  BY <1>0 DEF BookWalkInv
<1>3. \A l \in i + 1..Len(in) : r.price < in[l].price /\ in[l].price \in Int
  <2>. SUFFICES ASSUME NEW l \in i + 1..Len(in) PROVE r.price < in[l].price /\ in[l].price \in Int
    OBVIOUS
  <2>1. l \in DOMAIN in /\ i \in DOMAIN in /\ i < l /\ in[l] \in Level
    BY <1>0
  <2>. QED BY <2>1, LevelFacts DEF ByPrice
<1>4. {in[j].price : j \in 1..i} = {in[j].price : j \in 1..i - 1} \cup {r.price}
  <2>1. 1..i = (1..i - 1) \cup {i}
    BY <1>0
  <2>. QED BY <2>1
<1>5. /\ new \in BookMergeState
      /\ \/ BookAppends(m, r, new)
         \/ \E p \in 1..Len(d) : BookMeets(m, r, p, new) \/ BookInserts(m, r, p, new)
  BY <1>0, BookMergeOneIs
<1>6. ByPrice(d) /\ {in[j].price : j \in 1..i - 1} \subseteq PricesOf(d)
  BY DEF BookWalkInv
<1>6a. \A x \in 1..Len(d), y \in 1..Len(d) : x < y => d[x].price < d[y].price
  BY <1>1, <1>6 DEF ByPrice
<1>. HIDE DEF new, d, r
<1>7. CASE BookAppends(m, r, new)
  <2>1. new.cache = Append(d, r) /\ new.pos = m.pos /\ new.appending = TRUE
    BY <1>7 DEF BookAppends, d
  <2>2. \A j \in 1..Len(d) : d[j].price < r.price
    BY <1>0, <1>1, <1>2, <1>7 DEF BookAppends, d
  <2>3. /\ Len(d) + 1 \in 1..Len(d) + 1
        /\ \A j \in 1..Len(d) : j < Len(d) + 1 => d[j].price < r.price
        /\ \A j \in 1..Len(d) : Len(d) + 1 <= j => r.price < d[j].price
    BY <1>1, <2>2
  <2>4. /\ new.cache \in Seq(Level) /\ Len(new.cache) = Len(d) + 1 /\ ByPrice(new.cache)
        /\ PricesOf(new.cache) = PricesOf(d) \cup {r.price}
        /\ \A j \in 1..Len(new.cache) : j <= Len(d) + 1 => new.cache[j].price <= r.price
    BY <1>0, <1>1, <1>6, <2>1, <2>3, InsertedByPrice
  <2>5. \A l \in i + 1..Len(in), j \in 1..Len(new.cache) : new.cache[j].price < in[l].price
    <3>1. \A j \in 1..Len(new.cache) : new.cache[j].price \in Int /\ new.cache[j].price <= r.price
      <4>1. \A j \in 1..Len(new.cache) : new.cache[j] \in Level
        BY <2>4, ElementOfSeq
      <4>2. \A j \in 1..Len(new.cache) : j <= Len(d) + 1
        BY <1>1, <2>4
      <4>3. \A l \in Level : l.price \in Int
        BY LevelFacts
      <4>. QED BY <2>4, <4>1, <4>2, <4>3
    <3>2. r.price \in Int
      BY <1>0
    <3>. QED BY <1>3, <3>1, <3>2
  <2>. QED BY <1>4, <1>5, <1>6, <2>4, <2>5 DEF BookWalkInv, new, r
<1>8. ASSUME NEW p \in 1..Len(d), BookMeets(m, r, p, new) PROVE BookWalkInv(new, in, i)
  <2>1. /\ new.cache = d /\ new.pos = p + 1 /\ new.appending = m.appending
        /\ d[p].price = r.price /\ \A j \in m.pos..p - 1 : d[j].price < r.price
    BY <1>8 DEF BookMeets, d
  <2>2. r.price \in PricesOf(d)
    <3>1. d[p] \in ToSet(d)
      BY <1>1, ToSetProperties
    <3>. QED BY <2>1, <3>1 DEF PricesOf
  <2>3. ASSUME NEW j \in 1..Len(d), j < p + 1 \/ m.appending PROVE d[j].price <= r.price
    <3>0. j \in Nat /\ p \in Nat /\ m.pos \in Nat /\ d[j].price \in Int /\ r.price \in Int
      <4>1. Len(d) \in Nat /\ m.pos \in 1..Len(d) + 1
        BY <1>1
      <4>2. j \in Nat /\ p \in Nat /\ m.pos \in Nat
        BY <4>1
      <4>3. d[j].price \in Int
        BY <1>1
      <4>4. r.price \in Int
        BY <1>0
      <4>. QED BY <4>2, <4>3, <4>4
    <3>1. CASE j < m.pos \/ m.appending
      BY <1>2, <3>0, <3>1
    <3>2. CASE ~(j < m.pos \/ m.appending) /\ j < p
      <4>1. j \in m.pos..p - 1
        BY <3>0, <3>2
      <4>. QED BY <2>1, <3>0, <4>1
    <3>3. CASE j = p
      BY <2>1, <3>0, <3>3
    <3>. QED BY <2>3, <3>0, <3>1, <3>2, <3>3
  <2>4. \A l \in i + 1..Len(in), j \in 1..Len(d) : j < p + 1 \/ m.appending => d[j].price < in[l].price
    <3>1. r.price \in Int /\ \A j \in 1..Len(d) : d[j].price \in Int
      BY <1>0, <1>1
    <3>2. \A j \in 1..Len(d) : j < p + 1 \/ m.appending => d[j].price <= r.price
      BY <2>3
    <3>. QED BY <1>3, <3>1, <3>2
  <2>. QED BY <1>4, <1>5, <1>6, <2>1, <2>2, <2>4 DEF BookWalkInv
<1>9. ASSUME NEW p \in 1..Len(d), BookInserts(m, r, p, new) PROVE BookWalkInv(new, in, i)
  <2>1. /\ new.cache = InsertAt(d, p, r) /\ new.pos = p + 1 /\ new.appending = m.appending
        /\ ~m.appending /\ r.price < d[p].price
        /\ \A j \in m.pos..p - 1 : d[j].price < r.price
    BY <1>9 DEF BookInserts, d
  <2>2. p \in 1..Len(d) + 1
    BY <1>1
  <2>3. \A j \in 1..Len(d) : j < p => d[j].price < r.price
    <3>. SUFFICES ASSUME NEW j \in 1..Len(d), j < p PROVE d[j].price < r.price
      OBVIOUS
    <3>1. CASE j < m.pos
      BY <1>2, <3>1
    <3>2. CASE ~(j < m.pos)
      <4>1. j \in m.pos..p - 1
        BY <1>1, <3>2
      <4>. QED BY <2>1, <4>1
    <3>. QED BY <3>1, <3>2
  <2>4. \A j \in 1..Len(d) : p <= j => r.price < d[j].price
    <3>. SUFFICES ASSUME NEW j \in 1..Len(d), p <= j PROVE r.price < d[j].price
      OBVIOUS
    <3>1. CASE p = j
      BY <2>1, <3>1
    <3>2. CASE p < j
      <4>1. d[p].price < d[j].price
        BY <1>6a, <3>2
      <4>. QED BY <1>0, <1>1, <2>1, <4>1
    <3>. QED BY <1>1, <3>1, <3>2
  <2>5. /\ new.cache \in Seq(Level) /\ Len(new.cache) = Len(d) + 1 /\ ByPrice(new.cache)
        /\ PricesOf(new.cache) = PricesOf(d) \cup {r.price}
        /\ \A j \in 1..Len(new.cache) : j <= p => new.cache[j].price <= r.price
    BY <1>0, <1>1, <1>6, <2>1, <2>2, <2>3, <2>4, InsertedByPrice
  <2>6. \A l \in i + 1..Len(in), j \in 1..Len(new.cache) : j < p + 1 \/ m.appending => new.cache[j].price < in[l].price
    <3>1. \A j \in 1..Len(new.cache) : j < p + 1 => new.cache[j].price \in Int /\ new.cache[j].price <= r.price
      <4>1. \A j \in 1..Len(new.cache) : new.cache[j] \in Level
        BY <2>5, ElementOfSeq
      <4>2. \A j \in 1..Len(new.cache) : j < p + 1 => j <= p
        BY <1>1, <2>5
      <4>3. \A l \in Level : l.price \in Int
        BY LevelFacts
      <4>. QED BY <2>5, <4>1, <4>2, <4>3
    <3>2. r.price \in Int
      BY <1>0
    <3>3. \A j \in 1..Len(new.cache) : j < p + 1 \/ m.appending => j < p + 1
      BY <2>1
    <3>4. ASSUME NEW l \in i + 1..Len(in), NEW j \in 1..Len(new.cache), j < p + 1
          PROVE  new.cache[j].price < in[l].price
      <4>1. r.price < in[l].price /\ in[l].price \in Int
        BY <1>3
      <4>2. new.cache[j].price \in Int /\ new.cache[j].price <= r.price
        BY <3>1, <3>4
      <4>. QED BY <3>2, <4>1, <4>2
    <3>. QED BY <3>3, <3>4
  <2>. QED BY <1>4, <1>5, <1>6, <2>1, <2>5, <2>6 DEF BookWalkInv
<1>. QED BY <1>5, <1>7, <1>8, <1>9 DEF new, r

(* A book in order put into the feed.                                      *)
LEMMA BookSortedMergeIs ==
  ASSUME NEW c \in Seq(Level), NEW in \in Seq(Level), ByPrice(c), ByPrice(in)
  PROVE  /\ ObFeed!SortedMerge(c, in).cache \in Seq(Level)
         /\ ByPrice(ObFeed!SortedMerge(c, in).cache)
         /\ PricesOf(in) \subseteq PricesOf(ObFeed!SortedMerge(c, in).cache)
<1>1. CASE c = <<>>
  <2>1. ObFeed!SortedMerge(c, in) = [cache |-> in, changed |-> in # <<>>]
    BY <1>1 DEF ObFeed!SortedMerge
  <2>2. ObFeed!SortedMerge(c, in).cache = in
    BY <2>1
  <2>. QED BY <2>2
<1>2. CASE c # <<>>
  <2>. DEFINE n == Len(in)
              last == ObFeed!FoldLeft(ObFeed!MergeOne, BookWalkStart(c), in)
  <2>1. ObFeed!SortedMerge(c, in) = [cache |-> last.cache, changed |-> last.changed]
    BY <1>2 DEF ObFeed!SortedMerge, BookWalkStart
  <2>2. PICK v : BookWalkRun(v, c, in)
    BY BookWalkChain
  <2>3. /\ n \in Nat /\ v[0] = BookWalkStart(c) /\ v[n] = last
        /\ \A i \in 1..n : v[i] = ObFeed!MergeOne(v[i - 1], in[i])
    BY <2>2 DEF BookWalkRun
  <2>. DEFINE T == {i \in 0..n : BookWalkInv(v[i], in, i)}
  <2>4. 0 \in T
    <3>1. BookWalkStart(c) \in BookMergeState
      BY DEF BookWalkStart, BookMergeState
    <3>2. 1..0 = {} /\ \A j \in 1..Len(c) : ~(j < 1)
      OBVIOUS
    <3>3. BookWalkInv(BookWalkStart(c), in, 0)
      BY <3>1, <3>2 DEF BookWalkInv, BookWalkStart
    <3>. QED BY <2>3, <3>3
  <2>5. ASSUME NEW i \in 1..n, i - 1 \in T PROVE i \in T
    <3>1. BookWalkInv(v[i - 1], in, i - 1)
      BY <2>5
    <3>2. BookWalkInv(ObFeed!MergeOne(v[i - 1], in[i]), in, i)
      BY <3>1, BookWalkStep
    <3>. QED BY <2>3, <3>2
  <2>6. 0..n \subseteq T
    <3>. HIDE DEF T, n
    <3>. QED BY <2>3, <2>4, <2>5, UpToInduction
  <2>7. BookWalkInv(last, in, n)
    BY <2>3, <2>6
  <2>8. PricesOf(in) = {in[j].price : j \in 1..n}
    <3>1. ToSet(in) = {in[j] : j \in 1..n}
      BY ToSetProperties
    <3>. QED BY <3>1 DEF PricesOf
  <2>. HIDE DEF last
  <2>. QED BY <2>1, <2>7, <2>8 DEF BookWalkInv, BookMergeState
<1>. QED BY <1>1, <1>2

-----------------------------------------------------------------------------
(* The feed holds every price of the book between messages.                 *)

Fed ==
  /\ fed \in Seq(Level) /\ ByPrice(fed)
  /\ pc = "idle" => PricesOf(levels) \subseteq PricesOf(fed)

BookIInv == Mirrored /\ Fed

LEMMA InitFed == BookInit => Fed
BY NoLevel DEF BookInit, Fed

LEMMA PushFed ==
  ASSUME Mirrored, Fed, Push
  PROVE  Fed'
<1>. DEFINE c == ObFeed!SortedMerge(fed, levels).cache
<1>1. fed' = c /\ levels' = levels
  BY DEF Push
<1>2. levels \in Seq(Level) /\ ByPrice(levels) /\ fed \in Seq(Level) /\ ByPrice(fed)
  BY DEF Mirrored, BookTypes, Fed
<1>3. c \in Seq(Level) /\ ByPrice(c) /\ PricesOf(levels) \subseteq PricesOf(c)
  BY <1>2, BookSortedMergeIs
<1>. HIDE DEF c
<1>. QED BY <1>1, <1>3 DEF Fed

LEMMA NextFed ==
  ASSUME Mirrored, Fed, [BookNext]_bookVars
  PROVE  Fed'
<1>1. ASSUME NEW new \in Book, Snapshot(new) \/ Delta(new) PROVE Fed'
  BY <1>1 DEF Fed, Snapshot, Delta
<1>2. CASE AcceptReset
  <2>1. levels' = <<>> /\ fed' = fed
    BY <1>2 DEF AcceptReset
  <2>2. PricesOf(levels') = {}
    BY <2>1, NoLevel DEF PricesOf
  <2>. QED BY <2>1, <2>2 DEF Fed
<1>3. CASE AcceptInitial \/ AcceptMerge \/ KeepExisting \/ InsertNew \/ UpdateExisting \/ MergeDone
  BY <1>3 DEF Fed, AcceptInitial, AcceptMerge, KeepExisting, InsertNew, UpdateExisting, MergeDone
<1>4. CASE Push
  BY <1>4, PushFed
<1>5. CASE UNCHANGED bookVars
  BY <1>5 DEF bookVars, Fed
<1>. QED BY <1>1, <1>2, <1>3, <1>4, <1>5 DEF BookNext

LEMMA BookInvariant ==
  ASSUME MayCross = FALSE
  PROVE  BookSpec => []BookIInv
<1>1. BookInit => BookIInv
  BY InitMirrored, InitFed DEF BookIInv
<1>2. BookIInv /\ [BookNext]_bookVars => BookIInv'
  BY NextMirrored, NextFed DEF BookIInv
<1>. QED BY <1>1, <1>2, PTL DEF BookSpec

(* For every set of prices and every bound on sizes: as long as no delta     *)
(* lists a bid above an ask, the book of orderbook.hpp is the exchange's     *)
(* after each message.                                                     *)
THEOREM BookIsMirrored ==
  ASSUME MayCross = FALSE
  PROVE  BookSpec => []MirrorsExchange
<1>1. BookIInv => MirrorsExchange
  BY DEF BookIInv, Mirrored, BookTypes, Resting, MirrorsExchange
<1>. QED BY <1>1, BookInvariant, PTL

(* ... and the feed behind it has every price of the book, once, ascending.  *)
THEOREM BookIsFed ==
  ASSUME MayCross = FALSE
  PROVE  BookSpec => []BookInv
<1>1. BookIInv => BookInv
  <2>. SUFFICES ASSUME BookIInv PROVE BookInv
    OBVIOUS
  <2>1. BookTypeOK
    BY LevelsFit DEF BookIInv, Mirrored, BookTypes, Fed, BookTypeOK
  <2>2. FeedCoversBook
    BY DEF BookIInv, Fed, PricesOf, FeedCoversBook
  <2>. QED BY <2>1, <2>2 DEF BookInv
<1>. QED BY <1>1, BookInvariant, PTL
=============================================================================
