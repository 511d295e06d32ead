-------------------------- MODULE SeqEditTheorems --------------------------
(***************************************************************************)
(* Facts about the sequence operators the specifications edit their caches *)
(* and queues with: insertion, removal, the set of elements, folds and      *)
(* filters.  Induction is over sets of naturals or of sequences instead of  *)
(* predicates: the provers cannot instantiate a lemma about an operator.    *)
(***************************************************************************)
EXTENDS Naturals, Sequences, SequencesExt, FiniteSetsExt, SeqFilter, SequenceTheorems,
        WellFoundedInduction, TLAPS

(* The sequence with e put before position p.                              *)
LEMMA InsertAtProperties ==
  ASSUME NEW S, NEW s \in Seq(S), NEW p \in 1..Len(s) + 1, NEW e \in S
  PROVE  /\ InsertAt(s, p, e) \in Seq(S)
         /\ Len(InsertAt(s, p, e)) = Len(s) + 1
         /\ \A i \in 1..Len(s) + 1 :
              InsertAt(s, p, e)[i] = IF i < p THEN s[i]
                                     ELSE IF i = p THEN e ELSE s[i - 1]
<1> DEFINE l == SubSeq(s, 1, p - 1)
           r == SubSeq(s, p, Len(s))
<1>1. /\ l \in Seq(S)
      /\ Len(l) = p - 1
      /\ \A i \in 1..p - 1 : l[i] = s[i]
  <2>1. \A i \in 1..p - 1 : s[i] \in S  BY ElementOfSeq, LenProperties
  <2>2. p - 1 \in Int /\ 1 \in Int  BY LenProperties
  <2>3. /\ l \in Seq(S)
        /\ Len(l) = IF 1 <= p - 1 THEN p - 1 - 1 + 1 ELSE 0
        /\ \A i \in 1..p - 1 - 1 + 1 : l[i] = s[1 + i - 1]
    BY <2>1, <2>2, SubSeqProperties
  <2>4. QED  BY <2>3, LenProperties
<1>2. /\ r \in Seq(S)
      /\ Len(r) = Len(s) - p + 1
      /\ \A i \in 1..Len(s) - p + 1 : r[i] = s[p + i - 1]
  <2>1. \A i \in p..Len(s) : s[i] \in S  BY ElementOfSeq, LenProperties
  <2>2. p \in Int /\ Len(s) \in Int  BY LenProperties
  <2>3. /\ r \in Seq(S)
        /\ Len(r) = IF p <= Len(s) THEN Len(s) - p + 1 ELSE 0
        /\ \A i \in 1..Len(s) - p + 1 : r[i] = s[p + i - 1]
    BY <2>1, <2>2, SubSeqProperties
  <2>4. QED  BY <2>3, LenProperties
<1>3. /\ <<e>> \in Seq(S)
      /\ Len(<<e>>) = 1
      /\ <<e>>[1] = e
  OBVIOUS
<1> DEFINE le == l \o <<e>>
<1> HIDE DEF l, r
<1>4. /\ le \in Seq(S)
      /\ Len(le) = p
      /\ \A i \in 1..p : le[i] = IF i < p THEN s[i] ELSE e
  <2>1. /\ le \in Seq(S)
        /\ Len(le) = p - 1 + 1
        /\ \A i \in 1..p - 1 + 1 :
             le[i] = IF i <= p - 1 THEN l[i] ELSE <<e>>[i - (p - 1)]
    BY <1>1, <1>3, ConcatProperties
  <2>2. QED  BY <1>1, <1>3, <2>1, LenProperties
<1> HIDE DEF le
<1>5. /\ le \o r \in Seq(S)
      /\ Len(le \o r) = p + (Len(s) - p + 1)
      /\ \A i \in 1..p + (Len(s) - p + 1) :
           (le \o r)[i] = IF i <= p THEN le[i] ELSE r[i - p]
  BY <1>2, <1>4, ConcatProperties
<1>6. InsertAt(s, p, e) = le \o r  BY DEF InsertAt, le, l, r
<1>7. Len(s) \in Nat /\ p + (Len(s) - p + 1) = Len(s) + 1  BY LenProperties
<1>8. ASSUME NEW i \in 1..Len(s) + 1
      PROVE  InsertAt(s, p, e)[i] = IF i < p THEN s[i]
                                    ELSE IF i = p THEN e ELSE s[i - 1]
  <2>1. (le \o r)[i] = IF i <= p THEN le[i] ELSE r[i - p]  BY <1>5, <1>7
  <2>2. CASE i <= p  BY <2>1, <2>2, <1>4, <1>6, <1>7
  <2>3. CASE i > p
    <3>1. i - p \in 1..Len(s) - p + 1  BY <2>3, <1>7
    <3>2. r[i - p] = s[p + (i - p) - 1]  BY <3>1, <1>2
    <3>3. p + (i - p) - 1 = i - 1 /\ ~(i <= p)  BY <2>3, <1>7
    <3>4. r[i - p] = s[i - 1]  BY <3>2, <3>3
    <3>5. InsertAt(s, p, e)[i] = s[i - 1]  BY <2>1, <3>3, <3>4, <1>6
    <3>6. QED  BY <2>3, <3>5, <1>7
  <2>4. QED  BY <2>2, <2>3, <1>7
<1>9. QED  BY <1>5, <1>6, <1>7, <1>8

(* The sequence without the element at position p.                         *)
LEMMA RemoveAtProperties ==
  ASSUME NEW S, NEW s \in Seq(S), NEW p \in 1..Len(s)
  PROVE  /\ RemoveAt(s, p) \in Seq(S)
         /\ Len(RemoveAt(s, p)) = Len(s) - 1
         /\ \A i \in 1..Len(s) - 1 :
              RemoveAt(s, p)[i] = IF i < p THEN s[i] ELSE s[i + 1]
<1> DEFINE l == SubSeq(s, 1, p - 1)
           r == SubSeq(s, p + 1, Len(s))
<1>0. Len(s) \in Nat /\ p \in Nat  BY LenProperties
<1>1. /\ l \in Seq(S)
      /\ Len(l) = p - 1
      /\ \A i \in 1..p - 1 : l[i] = s[i]
  <2>1. \A i \in 1..p - 1 : s[i] \in S  BY ElementOfSeq, LenProperties
  <2>2. p - 1 \in Int /\ 1 \in Int  BY <1>0
  <2>3. /\ l \in Seq(S)
        /\ Len(l) = IF 1 <= p - 1 THEN p - 1 - 1 + 1 ELSE 0
        /\ \A i \in 1..p - 1 - 1 + 1 : l[i] = s[1 + i - 1]
    BY <2>1, <2>2, SubSeqProperties
  <2>4. QED  BY <2>3, <1>0
<1>2. /\ r \in Seq(S)
      /\ Len(r) = Len(s) - p
      /\ \A i \in 1..Len(s) - p : r[i] = s[p + i]
  <2>1. \A i \in p + 1..Len(s) : s[i] \in S  BY ElementOfSeq, LenProperties
  <2>2. p + 1 \in Int /\ Len(s) \in Int  BY <1>0
  <2>3. /\ r \in Seq(S)
        /\ Len(r) = IF p + 1 <= Len(s) THEN Len(s) - (p + 1) + 1 ELSE 0
        /\ \A i \in 1..Len(s) - (p + 1) + 1 : r[i] = s[(p + 1) + i - 1]
    BY <2>1, <2>2, SubSeqProperties
  <2>4. QED  BY <2>3, <1>0
<1> HIDE DEF l, r
<1>3. /\ l \o r \in Seq(S)
      /\ Len(l \o r) = (p - 1) + (Len(s) - p)
      /\ \A i \in 1..(p - 1) + (Len(s) - p) :
           (l \o r)[i] = IF i <= p - 1 THEN l[i] ELSE r[i - (p - 1)]
  <2>1. /\ l \o r \in Seq(S)
        /\ Len(l \o r) = Len(l) + Len(r)
        /\ \A i \in 1..Len(l) + Len(r) :
             (l \o r)[i] = IF i <= Len(l) THEN l[i] ELSE r[i - Len(l)]
    BY <1>1, <1>2, ConcatProperties
  <2>2. Len(l) = p - 1 /\ Len(r) = Len(s) - p  BY <1>1, <1>2
  <2>3. QED  BY <2>1, <2>2
<1>4. RemoveAt(s, p) = l \o r  BY DEF RemoveAt, l, r
<1>5. (p - 1) + (Len(s) - p) = Len(s) - 1  BY <1>0
<1>6. ASSUME NEW i \in 1..Len(s) - 1
      PROVE  RemoveAt(s, p)[i] = IF i < p THEN s[i] ELSE s[i + 1]
  <2>1. (l \o r)[i] = IF i <= p - 1 THEN l[i] ELSE r[i - (p - 1)]
    BY <1>3, <1>5
  <2>2. CASE i < p  BY <2>1, <2>2, <1>0, <1>1, <1>4
  <2>3. CASE i >= p
    <3>1. i - (p - 1) \in 1..Len(s) - p  BY <2>3, <1>0
    <3>2. r[i - (p - 1)] = s[p + (i - (p - 1))]  BY <3>1, <1>2
    <3>3. p + (i - (p - 1)) = i + 1 /\ ~(i <= p - 1)  BY <2>3, <1>0
    <3>4. r[i - (p - 1)] = s[i + 1]  BY <3>2, <3>3
    <3>5. RemoveAt(s, p)[i] = s[i + 1]  BY <2>1, <3>3, <3>4, <1>4
    <3>6. QED  BY <2>3, <3>5, <1>0
  <2>4. QED  BY <2>2, <2>3, <1>0
<1>7. QED  BY <1>3, <1>4, <1>5, <1>6

(* What ToSet and Last mean for a sequence over S.                         *)
LEMMA ToSetProperties ==
  ASSUME NEW S, NEW s \in Seq(S)
  PROVE  /\ ToSet(s) = {s[i] : i \in 1..Len(s)}
         /\ ToSet(s) \subseteq S
         /\ s # <<>> => Last(s) \in S /\ Last(s) = s[Len(s)] /\ Len(s) > 0
BY LenProperties, ElementOfSeq, EmptySeq DEF ToSet, Last

(* Appending and inserting add one element to the set of elements.         *)
LEMMA ToSetGrowth ==
  ASSUME NEW S, NEW s \in Seq(S), NEW e \in S
  PROVE  /\ ToSet(Append(s, e)) = ToSet(s) \cup {e}
         /\ \A p \in 1..Len(s) + 1 : ToSet(InsertAt(s, p, e)) = ToSet(s) \cup {e}
         /\ s # <<>> => ToSet(s) = ToSet(Tail(s)) \cup {Head(s)}
<1>1. ToSet(Append(s, e)) = ToSet(s) \cup {e}
  <2>1. /\ Append(s, e) \in Seq(S)
        /\ Len(Append(s, e)) = Len(s) + 1
        /\ \A i \in 1..Len(s) : Append(s, e)[i] = s[i]
        /\ Append(s, e)[Len(s) + 1] = e
    BY AppendProperties
  <2>2. ToSet(Append(s, e)) = {Append(s, e)[i] : i \in 1..Len(s) + 1}
    BY <2>1, ToSetProperties
  <2>3. 1..Len(s) + 1 = (1..Len(s)) \cup {Len(s) + 1}  BY LenProperties
  <2>4. QED  BY <2>1, <2>2, <2>3, ToSetProperties
<1>2. ASSUME NEW p \in 1..Len(s) + 1
      PROVE  ToSet(InsertAt(s, p, e)) = ToSet(s) \cup {e}
  <2> DEFINE t == InsertAt(s, p, e)
  <2>1. /\ t \in Seq(S)
        /\ Len(t) = Len(s) + 1
        /\ \A i \in 1..Len(s) + 1 :
             t[i] = IF i < p THEN s[i] ELSE IF i = p THEN e ELSE s[i - 1]
    BY InsertAtProperties
  <2> HIDE DEF t
  <2>2. ToSet(t) = {t[i] : i \in 1..Len(s) + 1}
    BY <2>1, ToSetProperties
  <2>3. ToSet(s) = {s[i] : i \in 1..Len(s)}  BY ToSetProperties
  <2>4. Len(s) \in Nat  BY LenProperties
  <2>5. ASSUME NEW i \in 1..Len(s) + 1  PROVE t[i] \in ToSet(s) \cup {e}
    <3>1. CASE i < p  BY <3>1, <2>1, <2>3, <2>4
    <3>2. CASE i = p  BY <3>2, <2>1
    <3>3. CASE i > p
      <4>1. i - 1 \in 1..Len(s)  BY <3>3, <2>4
      <4>2. t[i] = s[i - 1]  BY <3>3, <2>1, <2>4
      <4>3. QED  BY <4>1, <4>2, <2>3
    <3>4. QED  BY <3>1, <3>2, <3>3, <2>4
  <2>6. e \in ToSet(t)  BY <2>1, <2>2
  <2>7. ASSUME NEW j \in 1..Len(s)  PROVE s[j] \in ToSet(t)
    <3>1. CASE j < p  BY <3>1, <2>1, <2>2, <2>4
    <3>2. CASE j >= p
      <4>1. j + 1 \in 1..Len(s) + 1 /\ ~(j + 1 < p) /\ j + 1 # p
        BY <3>2, <2>4
      <4>2. (j + 1) - 1 = j  BY <2>4
      <4>3. t[j + 1] = s[j]  BY <4>1, <4>2, <2>1
      <4>4. QED  BY <4>1, <4>3, <2>2
    <3>3. QED  BY <3>1, <3>2, <2>4
  <2>8. QED  BY <2>2, <2>3, <2>5, <2>6, <2>7 DEF t
<1>3. ASSUME s # <<>>  PROVE ToSet(s) = ToSet(Tail(s)) \cup {Head(s)}
  <2>1. /\ Tail(s) \in Seq(S)
        /\ Len(Tail(s)) = Len(s) - 1
        /\ \A i \in 1..Len(Tail(s)) : Tail(s)[i] = s[i + 1]
    BY <1>3, HeadTailProperties
  <2>2. Head(s) = s[1]  BY <1>3
  <2>3. Len(s) \in Nat /\ Len(s) > 0  BY <1>3, ToSetProperties, LenProperties
  <2>4. /\ ToSet(s) = {s[i] : i \in 1..Len(s)}
        /\ ToSet(Tail(s)) = {Tail(s)[i] : i \in 1..Len(s) - 1}
    BY <2>1, ToSetProperties
  <2>5. ASSUME NEW i \in 1..Len(s)  PROVE s[i] \in ToSet(Tail(s)) \cup {Head(s)}
    <3>1. CASE i = 1  BY <3>1, <2>2
    <3>2. CASE i > 1
      <4>1. i - 1 \in 1..Len(s) - 1 /\ (i - 1) + 1 = i  BY <3>2, <2>3
      <4>2. QED  BY <4>1, <2>1, <2>4
    <3>3. QED  BY <3>1, <3>2
  <2>6. ASSUME NEW i \in 1..Len(s) - 1  PROVE Tail(s)[i] \in ToSet(s)
    <3>1. i + 1 \in 1..Len(s)  BY <2>3
    <3>2. QED  BY <3>1, <2>1, <2>4
  <2>7. Head(s) \in ToSet(s)  BY <2>2, <2>3, <2>4
  <2>8. QED  BY <2>4, <2>5, <2>6, <2>7
<1>4. QED  BY <1>1, <1>2, <1>3

-----------------------------------------------------------------------------
(* Induction over the naturals, for a set instead of a predicate.          *)
LEMMA NatSetInduction ==
  ASSUME NEW S, 0 \in S, \A n \in Nat : n \in S => n + 1 \in S
  PROVE  Nat \subseteq S
<1>. DEFINE T == Nat \ S
            R == OpToRel(<, Nat)
<1>1. SUFFICES ASSUME T # {} PROVE FALSE
  OBVIOUS
<1>2. IsWellFoundedOn(R, Nat)
  BY NatLessThanWellFounded
<1>3. T \subseteq Nat
  OBVIOUS
<1>4. PICK x \in T : \A y \in T : ~(<<y, x>> \in R)
  <2>. HIDE DEF R, T
  <2>. QED BY <1>1, <1>2, <1>3, WFMin
<1>5. x # 0 /\ x \in Nat
  OBVIOUS
<1>6. x - 1 \in Nat /\ x - 1 < x /\ (x - 1) + 1 = x
  BY <1>5
<1>7. x - 1 \in T
  BY <1>6
<1>8. <<x - 1, x>> \in R
  BY <1>5, <1>6 DEF OpToRel
<1>. QED BY <1>4, <1>7, <1>8

(* ... up to a bound.                                                      *)
LEMMA UpToInduction ==
  ASSUME NEW n \in Nat, NEW S, 0 \in S, \A i \in 1..n : i - 1 \in S => i \in S
  PROVE  0..n \subseteq S
<1>. DEFINE T == {i \in Nat : i <= n => i \in S}
<1>1. 0 \in T
  OBVIOUS
<1>2. ASSUME NEW i \in Nat, i \in T PROVE i + 1 \in T
  <2>. SUFFICES ASSUME i + 1 <= n PROVE i + 1 \in S
    OBVIOUS
  <2>1. i + 1 \in 1..n /\ (i + 1) - 1 = i /\ i \in S
    BY <1>2
  <2>. QED BY <2>1
<1>3. Nat \subseteq T
  <2>. HIDE DEF T
  <2>. QED BY <1>1, <1>2, NatSetInduction
<1>. QED BY <1>3

(* The greatest of the first positions, and what is left without it.       *)
LEMMA MaxUpTo ==
  ASSUME NEW i \in Nat, i > 0
  PROVE  Max(1..i) = i /\ (1..i) \ {i} = 1..(i - 1)
<1>1. i \in 1..i /\ \A j \in 1..i : i >= j
  OBVIOUS
<1>2. ASSUME NEW x \in 1..i, \A j \in 1..i : x >= j PROVE x = i
  BY <1>1, <1>2
<1>. QED BY <1>1, <1>2 DEF Max

(* A non-empty set of positions has a greatest one, and without it all are  *)
(* smaller.                                                                *)
LEMMA MaxOfPositions ==
  ASSUME NEW k \in Nat, NEW u \in SUBSET (1..(k + 1)), k + 1 \in u
  PROVE  Max(u) = k + 1 /\ u \ {k + 1} \in SUBSET (1..k)
<1>1. \A j \in u : k + 1 >= j
  OBVIOUS
<1>2. ASSUME NEW x \in u, \A j \in u : x >= j PROVE x = k + 1
  BY <1>1, <1>2
<1>3. Max(u) = k + 1
  BY <1>1, <1>2 DEF Max
<1>. QED BY <1>3

(* A set of positions that is not empty has a greatest element.            *)
LEMMA MaxIsPosition ==
  ASSUME NEW n \in Nat, NEW u \in SUBSET (1..n), u # {}
  PROVE  Max(u) \in u /\ \A j \in u : j <= Max(u)
<1>. DEFINE R == {k \in Nat : \A w \in SUBSET (1..k) : w # {} => \E x \in w : \A j \in w : j <= x}
<1>1. 0 \in R
  <2>1. \A w \in SUBSET (1..0) : w = {}
    OBVIOUS
  <2>. QED BY <2>1
<1>2. ASSUME NEW k \in Nat, k \in R PROVE k + 1 \in R
  <2>. SUFFICES ASSUME NEW w \in SUBSET (1..(k + 1)), w # {}
                PROVE  \E x \in w : \A j \in w : j <= x
    OBVIOUS
  <2>1. CASE k + 1 \in w
    BY <2>1
  <2>2. CASE k + 1 \notin w
    <3>1. w \in SUBSET (1..k)
      BY <2>2
    <3>. QED BY <1>2, <3>1
  <2>. QED BY <2>1, <2>2
<1>3. n \in R
  <2>. HIDE DEF R
  <2>. QED BY <1>1, <1>2, NatSetInduction
<1>4. \E x \in u : \A j \in u : x >= j
  BY <1>3
<1>. QED BY <1>4 DEF Max

(* ... and a least one.                                                    *)
LEMMA MinIsPosition ==
  ASSUME NEW n \in Nat, NEW u \in SUBSET (1..n), u # {}
  PROVE  Min(u) \in u /\ \A j \in u : Min(u) <= j
<1>. DEFINE R == OpToRel(<, Nat)
<1>1. IsWellFoundedOn(R, Nat)
  BY NatLessThanWellFounded
<1>2. PICK x \in u : \A y \in u : ~(<<y, x>> \in R)
  <2>1. u \subseteq Nat
    OBVIOUS
  <2>. HIDE DEF R
  <2>. QED BY <1>1, <2>1, WFMin
<1>3. \A y \in u : x <= y
  <2>. SUFFICES ASSUME NEW y \in u, y < x PROVE FALSE
    OBVIOUS
  <2>1. <<y, x>> \in R
    BY DEF OpToRel
  <2>. QED BY <1>2, <2>1
<1>. QED BY <1>2, <1>3 DEF Min

(* The recursion of a fold over 1..n, as FoldLeft runs it, for a function h  *)
(* with values in S; and the same run as a chain of values.                 *)
FoldSolution(h, n, S, b, step) ==
  /\ h \in [SUBSET (1..n) -> S]
  /\ \A u \in SUBSET (1..n) :
       h[u] = IF u = {} THEN b ELSE step[<<Max(u), h[u \ {Max(u)}]>>]

FoldRun(v, n, S, b, step, last) ==
  /\ v \in [0..n -> S]
  /\ v[0] = b /\ v[n] = last
  /\ \A i \in 1..n : v[i] = step[<<i, v[i - 1]>>]

(* The recursion by which a sequence is folded has a solution.             *)
LEMMA FoldExists ==
  ASSUME NEW n \in Nat, NEW S, NEW b \in S, NEW step \in [(1..n) \X S -> S]
  PROVE  \E h : FoldSolution(h, n, S, b, step)
<1>. DEFINE Solves(h, k) ==
              \A u \in SUBSET (1..k) :
                h[u] = IF u = {} THEN b ELSE step[<<Max(u), h[u \ {Max(u)}]>>]
            Solvable(k) == \E h \in [SUBSET (1..k) -> S] : Solves(h, k)
            T == {k \in 0..n : Solvable(k)}
<1>1. 0 \in T
  <2>1. \A u \in SUBSET (1..0) : u = {}
    OBVIOUS
  <2>2. Solves([u \in SUBSET (1..0) |-> b], 0)
    BY <2>1
  <2>3. [u \in SUBSET (1..0) |-> b] \in [SUBSET (1..0) -> S]
    OBVIOUS
  <2>4. Solvable(0)
    <3>. HIDE DEF Solves
    <3>. QED BY <2>2, <2>3
  <2>. HIDE DEF Solvable
  <2>. QED BY <2>4
<1>2. ASSUME NEW i \in 1..n, i - 1 \in T PROVE i \in T
  <2>0. PICK k \in Nat : k = i - 1 /\ i = k + 1
    OBVIOUS
  <2>1. PICK h \in [SUBSET (1..k) -> S] : Solves(h, k)
    BY <1>2, <2>0
  <2>. DEFINE g == [u \in SUBSET (1..(k + 1)) |->
                      IF k + 1 \in u THEN step[<<k + 1, h[u \ {k + 1}]>>] ELSE h[u]]
  <2>2. \A u \in SUBSET (1..(k + 1)) : k + 1 \notin u => u \in SUBSET (1..k)
    OBVIOUS
  <2>3. \A u \in SUBSET (1..(k + 1)) : k + 1 \in u => Max(u) = k + 1 /\ u \ {k + 1} \in SUBSET (1..k)
    BY MaxOfPositions
  <2>4. g \in [SUBSET (1..(k + 1)) -> S]
    <3>1. \A u \in SUBSET (1..(k + 1)) : k + 1 \in u => step[<<k + 1, h[u \ {k + 1}]>>] \in S
      BY <2>0, <2>1, <2>3
    <3>. QED BY <3>1, <2>1, <2>2
  <2>5. ASSUME NEW u \in SUBSET (1..(k + 1))
        PROVE  g[u] = IF u = {} THEN b ELSE step[<<Max(u), g[u \ {Max(u)}]>>]
    <3>1. CASE k + 1 \in u
      <4>1. Max(u) = k + 1 /\ u \ {k + 1} \in SUBSET (1..k) /\ u # {}
        BY <3>1, <2>3
      <4>2. k + 1 \notin u \ {k + 1} /\ u \ {k + 1} \in SUBSET (1..(k + 1))
        OBVIOUS
      <4>3. g[u \ {k + 1}] = h[u \ {k + 1}]
        BY <4>2
      <4>4. g[u] = step[<<k + 1, h[u \ {k + 1}]>>]
        BY <3>1
      <4>. HIDE DEF g
      <4>. QED BY <4>1, <4>3, <4>4
    <3>2. CASE k + 1 \notin u
      <4>1. u \in SUBSET (1..k) /\ g[u] = h[u]
        BY <3>2, <2>2
      <4>2. h[u] = IF u = {} THEN b ELSE step[<<Max(u), h[u \ {Max(u)}]>>]
        BY <2>1, <4>1
      <4>3. u \ {Max(u)} \in SUBSET (1..(k + 1)) /\ k + 1 \notin u \ {Max(u)}
        BY <3>2
      <4>4. g[u \ {Max(u)}] = h[u \ {Max(u)}]
        BY <4>3
      <4>. HIDE DEF g
      <4>. QED BY <4>1, <4>2, <4>4
    <3>. QED BY <3>1, <3>2
  <2>6. Solves(g, k + 1)
    <3>. HIDE DEF g
    <3>. QED BY <2>5
  <2>7. Solvable(k + 1)
    <3>. HIDE DEF g, Solves
    <3>. QED BY <2>4, <2>6
  <2>. HIDE DEF Solvable
  <2>. QED BY <2>0, <2>7
<1>3. 0..n \subseteq T
  <2>. HIDE DEF T
  <2>. QED BY <1>1, <1>2, UpToInduction
<1>4. Solvable(n)
  <2>. HIDE DEF Solvable
  <2>. QED BY <1>3
<1>. QED BY <1>4 DEF FoldSolution

(* ... and any solution is a chain of steps along the sequence.            *)
LEMMA FoldChain ==
  ASSUME NEW n \in Nat, NEW S, NEW b \in S, NEW step \in [(1..n) \X S -> S],
         NEW k, k[{}] = b,
         \A u \in SUBSET (1..n) :
           u # {} /\ k[u \ {Max(u)}] \in S => k[u] = step[<<Max(u), k[u \ {Max(u)}]>>]
  PROVE  \E v : FoldRun(v, n, S, b, step, k[1..n])
<1>. DEFINE v == [i \in 0..n |-> k[1..i]]
            T == {i \in 0..n : v[i] \in S}
<1>1. v[0] = b
  <2>1. 1..0 = {}
    OBVIOUS
  <2>. QED BY <2>1
<1>2. ASSUME NEW i \in 1..n, v[i - 1] \in S PROVE v[i] = step[<<i, v[i - 1]>>]
  <2>1. i \in Nat /\ i > 0 /\ i - 1 \in 0..n /\ 1..i \in SUBSET (1..n) /\ 1..i # {}
    OBVIOUS
  <2>2. Max(1..i) = i /\ (1..i) \ {i} = 1..(i - 1)
    BY <2>1, MaxUpTo
  <2>3. k[1..(i - 1)] \in S
    BY <1>2, <2>1
  <2>4. k[1..i] = step[<<i, k[1..(i - 1)]>>]
    BY <2>1, <2>2, <2>3
  <2>. QED BY <2>1, <2>4
<1>3. 0 \in T
  BY <1>1
<1>4. ASSUME NEW i \in 1..n, i - 1 \in T PROVE i \in T
  <2>. HIDE DEF v
  <2>1. <<i, v[i - 1]>> \in (1..n) \X S
    BY <1>4
  <2>. QED BY <1>2, <1>4, <2>1
<1>5. 0..n \subseteq T
  <2>. HIDE DEF T
  <2>. QED BY <1>3, <1>4, UpToInduction
<1>6. v \in [0..n -> S] /\ v[n] = k[1..n]
  BY <1>5
<1>7. \A i \in 1..n : v[i] = step[<<i, v[i - 1]>>]
  <2>. HIDE DEF v
  <2>. QED BY <1>2, <1>6
<1>. HIDE DEF v
<1>. QED BY <1>1, <1>6, <1>7 DEF FoldRun

(* One step more at the end of a run is one step from where it ended.       *)
LEMMA FoldRunAppend ==
  ASSUME NEW n \in Nat, NEW S, NEW b, NEW f, NEW g, NEW v, NEW w, NEW x, NEW y,
         FoldRun(v, n, S, b, f, x), FoldRun(w, n + 1, S, b, g, y),
         \A i \in 1..n, e \in S : f[<<i, e>>] = g[<<i, e>>]
  PROVE  x \in S /\ y = g[<<n + 1, x>>]
<1>. DEFINE C == {i \in 0..n : v[i] = w[i]}
<1>1. /\ v \in [0..n -> S] /\ v[0] = b /\ v[n] = x
      /\ \A i \in 1..n : v[i] = f[<<i, v[i - 1]>>]
  BY DEF FoldRun
<1>2. /\ w[0] = b /\ w[n + 1] = y
      /\ \A i \in 1..(n + 1) : w[i] = g[<<i, w[i - 1]>>]
  BY DEF FoldRun
<1>3. 0 \in C
  BY <1>1, <1>2
<1>4. ASSUME NEW i \in 1..n, i - 1 \in C PROVE i \in C
  <2>1. i \in 1..(n + 1) /\ i \in 0..n /\ i - 1 \in 0..n /\ v[i - 1] = w[i - 1]
    BY <1>4
  <2>2. v[i - 1] \in S
    BY <1>1, <2>1
  <2>3. v[i] = f[<<i, v[i - 1]>>] /\ w[i] = g[<<i, w[i - 1]>>]
    BY <1>1, <1>2, <2>1
  <2>. QED BY <2>1, <2>2, <2>3
<1>5. 0..n \subseteq C
  <2>. HIDE DEF C
  <2>. QED BY <1>3, <1>4, UpToInduction
<1>6. v[n] = w[n] /\ x \in S
  BY <1>1, <1>5
<1>7. n + 1 \in 1..(n + 1) /\ (n + 1) - 1 = n
  OBVIOUS
<1>8. w[n + 1] = g[<<n + 1, w[n]>>]
  BY <1>2, <1>7
<1>. QED BY <1>1, <1>2, <1>6, <1>8

-----------------------------------------------------------------------------
(* A run v that keeps or skips an element of s at a time and ends in what   *)
(* the filter returns.                                                     *)
OnlyRun(v, s, T, S) ==
  /\ v \in [0..Len(s) -> Seq(T)]
  /\ v[0] = <<>> /\ v[Len(s)] = Only(s, S)
  /\ \A i \in 1..Len(s) : v[i] = IF s[i] \in S THEN Append(v[i - 1], s[i]) ELSE v[i - 1]

(* Every filtering is such a run.                                           *)
LEMMA OnlyChain ==
  ASSUME NEW T, NEW s \in Seq(T), NEW S
  PROVE  \E v : OnlyRun(v, s, T, S)
<1>. DEFINE n == Len(s)
            Values == Seq(T)
            base == <<>>
            Keep(kept, e) == IF e \in S THEN Append(kept, e) ELSE kept
            step == [p \in (1..n) \X Seq(T) |-> Keep(p[2], s[p[1]])]
            k == CHOOSE f : f = [u \in SUBSET (DOMAIN s) |->
                   IF u = {} THEN <<>> ELSE Keep(f[u \ {Max(u)}], s[Max(u)])]
<1>1. n \in Nat /\ DOMAIN s = 1..n /\ \A i \in 1..n : s[i] \in T
  OBVIOUS
<1>2. step \in [(1..n) \X Values -> Values]
  BY <1>1
<1>3. base \in Values
  OBVIOUS
<1>4. PICK h : FoldSolution(h, n, Values, base, step)
  <2>. HIDE DEF step, n, Values, base, Keep
  <2>. QED BY <1>1, <1>2, <1>3, FoldExists
<1>5. \A u \in SUBSET (1..n) : u # {} => Max(u) \in 1..n
  BY <1>1, MaxIsPosition
<1>6. \A u \in SUBSET (1..n) :
        h[u] = IF u = {} THEN <<>> ELSE Keep(h[u \ {Max(u)}], s[Max(u)])
  BY <1>4, <1>5 DEF FoldSolution
<1>7. h = [u \in SUBSET (DOMAIN s) |-> IF u = {} THEN <<>> ELSE Keep(h[u \ {Max(u)}], s[Max(u)])]
  BY <1>1, <1>4, <1>6 DEF FoldSolution
<1>8. k = [u \in SUBSET (DOMAIN s) |-> IF u = {} THEN <<>> ELSE Keep(k[u \ {Max(u)}], s[Max(u)])]
  BY <1>7
<1>9. Only(s, S) = k[DOMAIN s]
  BY DEF Only, FoldLeft, MapThenFoldSet
<1>. HIDE DEF k
<1>10. k[{}] = base
  BY <1>8
<1>11. ASSUME NEW u \in SUBSET (1..n), u # {}, k[u \ {Max(u)}] \in Values
       PROVE  k[u] = step[<<Max(u), k[u \ {Max(u)}]>>]
  <2>1. k[u] = Keep(k[u \ {Max(u)}], s[Max(u)])
    BY <1>1, <1>8, <1>11
  <2>2. <<Max(u), k[u \ {Max(u)}]>> \in (1..n) \X Seq(T)
    BY <1>5, <1>11
  <2>. QED BY <2>1, <2>2
<1>12. PICK v : FoldRun(v, n, Values, base, step, k[1..n])
  <2>. HIDE DEF step, n, Values, base, Keep
  <2>. QED BY <1>1, <1>2, <1>3, <1>10, <1>11, FoldChain
<1>13. ASSUME NEW i \in 1..n PROVE v[i] = Keep(v[i - 1], s[i])
  <2>1. i - 1 \in 0..n
    BY <1>1
  <2>2. v[i - 1] \in Seq(T)
    BY <1>12, <2>1 DEF FoldRun
  <2>3. v[i] = step[<<i, v[i - 1]>>]
    BY <1>12 DEF FoldRun
  <2>. QED BY <2>2, <2>3
<1>. QED BY <1>1, <1>9, <1>12, <1>13 DEF FoldRun, OnlyRun

(* Induction over sequences, by appending; again for a set.                *)
LEMMA SeqSetInduction ==
  ASSUME NEW T, NEW P, <<>> \in P,
         \A s \in Seq(T), e \in T : s \in P => Append(s, e) \in P
  PROVE  Seq(T) \subseteq P
<1>. DEFINE N == {n \in Nat : \A s \in Seq(T) : Len(s) = n => s \in P}
<1>1. 0 \in N
  OBVIOUS
<1>2. ASSUME NEW n \in Nat, n \in N PROVE n + 1 \in N
  <2>. SUFFICES ASSUME NEW s \in Seq(T), Len(s) = n + 1 PROVE s \in P
    OBVIOUS
  <2>. DEFINE f == SubSeq(s, 1, n)
  <2>1. f \in Seq(T) /\ Len(f) = n /\ s[n + 1] \in T
    OBVIOUS
  <2>2. s = Append(f, s[n + 1])
    <3>1. Append(f, s[n + 1]) \in Seq(T) /\ Len(Append(f, s[n + 1])) = n + 1
      BY <2>1
    <3>2. \A i \in 1..n + 1 : Append(f, s[n + 1])[i] = s[i]
      OBVIOUS
    <3>. QED BY <3>1, <3>2, SeqEqual
  <2>3. f \in P
    BY <1>2, <2>1
  <2>. QED BY <2>1, <2>2, <2>3
<1>3. Nat \subseteq N
  <2>. HIDE DEF N
  <2>. QED BY <1>1, <1>2, NatSetInduction
<1>. QED BY <1>3

(* An element appended is kept if it is in the set.                         *)
LEMMA OnlyAppend ==
  ASSUME NEW T, NEW s \in Seq(T), NEW e \in T, NEW S
  PROVE  /\ Only(s, S) \in Seq(T)
         /\ Only(Append(s, e), S) = IF e \in S THEN Append(Only(s, S), e) ELSE Only(s, S)
<1>. DEFINE n == Len(s)
            t == Append(s, e)
<1>2. /\ n \in Nat /\ t \in Seq(T) /\ Len(t) = n + 1 /\ t[n + 1] = e
      /\ \A i \in 1..n : t[i] = s[i]
  OBVIOUS
<1>3. PICK v : OnlyRun(v, s, T, S)
  BY OnlyChain
<1>. HIDE DEF t
<1>4. PICK w : OnlyRun(w, t, T, S)
  BY <1>2, OnlyChain
<1>. HIDE DEF n
<1>v. /\ v \in [0..n -> Seq(T)] /\ v[0] = <<>> /\ v[n] = Only(s, S)
      /\ \A i \in 1..n : v[i] = IF s[i] \in S THEN Append(v[i - 1], s[i]) ELSE v[i - 1]
  BY <1>3 DEF OnlyRun, n
<1>w. /\ w \in [0..(n + 1) -> Seq(T)] /\ w[0] = <<>> /\ w[n + 1] = Only(t, S)
      /\ \A i \in 1..(n + 1) : w[i] = IF t[i] \in S THEN Append(w[i - 1], t[i]) ELSE w[i - 1]
  BY <1>2, <1>4 DEF OnlyRun
<1>5. v[n] = w[n]
  <2>. DEFINE C == {i \in 0..n : v[i] = w[i]}
  <2>1. 0 \in C
    BY <1>2, <1>v, <1>w
  <2>2. ASSUME NEW i \in 1..n, i - 1 \in C PROVE i \in C
    <3>1. i \in 1..(n + 1) /\ t[i] = s[i] /\ i \in 0..n
      BY <1>2
    <3>2. v[i - 1] = w[i - 1]
      BY <2>2
    <3>3. v[i] = IF s[i] \in S THEN Append(v[i - 1], s[i]) ELSE v[i - 1]
      BY <1>v
    <3>4. w[i] = IF t[i] \in S THEN Append(w[i - 1], t[i]) ELSE w[i - 1]
      BY <1>w, <3>1
    <3>. QED BY <3>1, <3>2, <3>3, <3>4
  <2>3. 0..n \subseteq C
    <3>. HIDE DEF C
    <3>. QED BY <1>2, <2>1, <2>2, UpToInduction
  <2>. QED BY <1>2, <2>3
<1>6. w[n + 1] = IF e \in S THEN Append(w[n], e) ELSE w[n]
  <2>1. n + 1 \in 1..(n + 1) /\ (n + 1) - 1 = n
    BY <1>2
  <2>. QED BY <1>2, <1>w, <2>1
<1>7. v[n] \in Seq(T)
  BY <1>2, <1>v
<1>. QED BY <1>v, <1>w, <1>5, <1>6, <1>7 DEF t

(* Nothing is kept of nothing.                                             *)
LEMMA OnlyEmpty ==
  ASSUME NEW S
  PROVE  Only(<<>>, S) = <<>>
<1>1. <<>> \in Seq({}) /\ Len(<<>>) = 0
  OBVIOUS
<1>2. PICK v : OnlyRun(v, <<>>, {}, S)
  BY <1>1, OnlyChain
<1>. QED BY <1>1, <1>2 DEF OnlyRun

(* A filtered sequence is one over the same elements.                       *)
LEMMA OnlyIsSeq ==
  ASSUME NEW T, NEW s \in Seq(T), NEW S
  PROVE  Only(s, S) \in Seq(T)
<1>1. Len(s) \in 0..Len(s)
  OBVIOUS
<1>2. PICK v : OnlyRun(v, s, T, S)
  BY OnlyChain
<1>. QED BY <1>1, <1>2 DEF OnlyRun

(* Appending to the second of two sequences appends to both.               *)
LEMMA ConcatAppend ==
  ASSUME NEW T, NEW s \in Seq(T), NEW r \in Seq(T), NEW e \in T
  PROVE  s \o r \in Seq(T) /\ s \o Append(r, e) = Append(s \o r, e)
<1>1. s \o r \in Seq(T) /\ Append(r, e) \in Seq(T) /\ Len(s) \in Nat /\ Len(r) \in Nat
  OBVIOUS
<1>2. s \o Append(r, e) \in Seq(T) /\ Append(s \o r, e) \in Seq(T)
  BY <1>1
<1>3. Len(s \o Append(r, e)) = Len(s) + Len(r) + 1 /\ Len(Append(s \o r, e)) = Len(s) + Len(r) + 1
  BY <1>1
<1>4. \A i \in 1..Len(s) + Len(r) + 1 : (s \o Append(r, e))[i] = Append(s \o r, e)[i]
  BY <1>1
<1>. QED BY <1>1, <1>2, <1>3, <1>4, SeqEqual

(* The elements of two sequences one after the other.                      *)
LEMMA ToSetConcat ==
  ASSUME NEW T, NEW a \in Seq(T), NEW b \in Seq(T)
  PROVE  ToSet(a \o b) = ToSet(a) \cup ToSet(b)
<1>. DEFINE P == {r \in Seq(T) : ToSet(a \o r) = ToSet(a) \cup ToSet(r)}
<1>1. <<>> \in P
  <2>1. a \o <<>> = a /\ ToSet(<<>>) = {}
    BY DEF ToSet
  <2>. QED BY <2>1
<1>2. ASSUME NEW r \in Seq(T), NEW e \in T, r \in P PROVE Append(r, e) \in P
  <2>0. PICK c \in Seq(T) : c = a \o r
    BY ConcatAppend
  <2>1. a \o Append(r, e) = Append(c, e)
    BY <2>0, ConcatAppend
  <2>2. /\ ToSet(Append(r, e)) = ToSet(r) \cup {e} /\ ToSet(Append(c, e)) = ToSet(c) \cup {e}
        /\ Append(r, e) \in Seq(T)
    BY ToSetGrowth
  <2>. QED BY <1>2, <2>0, <2>1, <2>2
<1>3. Seq(T) \subseteq P
  <2>. HIDE DEF P
  <2>. QED BY <1>1, <1>2, SeqSetInduction
<1>. QED BY <1>3

(* What is kept is what is in the set.                                     *)
LEMMA OnlyToSet ==
  ASSUME NEW T, NEW s \in Seq(T), NEW S
  PROVE  ToSet(Only(s, S)) = ToSet(s) \cap S
<1>. DEFINE P == {r \in Seq(T) : ToSet(Only(r, S)) = ToSet(r) \cap S}
<1>1. <<>> \in P
  <2>1. ToSet(<<>>) = {}
    BY DEF ToSet
  <2>2. Only(<<>>, S) = <<>>
    BY OnlyEmpty
  <2>. QED BY <2>1, <2>2
<1>2. ASSUME NEW r \in Seq(T), NEW e \in T, r \in P PROVE Append(r, e) \in P
  <2>1. /\ Only(r, S) \in Seq(T)
        /\ Only(Append(r, e), S) = IF e \in S THEN Append(Only(r, S), e) ELSE Only(r, S)
    BY OnlyAppend
  <2>2. ToSet(Append(r, e)) = ToSet(r) \cup {e} /\ Append(r, e) \in Seq(T)
    BY ToSetGrowth
  <2>3. ToSet(Append(Only(r, S), e)) = ToSet(Only(r, S)) \cup {e}
    BY <2>1, ToSetGrowth
  <2>. QED BY <1>2, <2>1, <2>2, <2>3
<1>3. Seq(T) \subseteq P
  <2>. HIDE DEF P
  <2>. QED BY <1>1, <1>2, SeqSetInduction
<1>. QED BY <1>3

(* Filtering goes through concatenation.                                   *)
LEMMA OnlyConcat ==
  ASSUME NEW T, NEW s \in Seq(T), NEW t \in Seq(T), NEW S
  PROVE  Only(s \o t, S) = Only(s, S) \o Only(t, S)
<1>. DEFINE P == {r \in Seq(T) : Only(s \o r, S) = Only(s, S) \o Only(r, S)}
<1>0. Only(<<>>, S) = <<>>
  BY OnlyEmpty
<1>1. <<>> \in P
  <2>1. Only(s, S) \in Seq(T)
    BY OnlyIsSeq
  <2>. QED BY <1>0, <2>1
<1>2. ASSUME NEW r \in Seq(T), NEW e \in T, r \in P PROVE Append(r, e) \in P
  <2>1. /\ Only(r, S) \in Seq(T) /\ Only(s, S) \in Seq(T)
        /\ Only(Append(r, e), S) = IF e \in S THEN Append(Only(r, S), e) ELSE Only(r, S)
    BY OnlyAppend
  <2>0. PICK c \in Seq(T) : c = s \o r
    BY ConcatAppend
  <2>. DEFINE a == Only(s, S)
              b == Only(r, S)
  <2>2. s \o Append(r, e) = Append(c, e)
    BY <2>0, ConcatAppend
  <2>3. a \o Append(b, e) = Append(a \o b, e)
    <3>. HIDE DEF a, b
    <3>. QED BY <2>1, ConcatAppend, SMTT(30) DEF a, b
  <2>4. /\ Only(c, S) \in Seq(T)
        /\ Only(Append(c, e), S) = IF e \in S THEN Append(Only(c, S), e) ELSE Only(c, S)
    BY <2>0, OnlyAppend, ZenonT(30)
  <2>5. Only(c, S) = a \o b
    BY <1>2, <2>0
  <2>6. Append(r, e) \in Seq(T)
    OBVIOUS
  <2>. HIDE DEF a, b
  <2>. QED BY <2>0, <2>1, <2>2, <2>3, <2>4, <2>5, <2>6 DEF a, b
<1>3. Seq(T) \subseteq P
  <2>. HIDE DEF P
  <2>. QED BY <1>1, <1>2, SeqSetInduction
<1>. QED BY <1>3

(* Nothing is left out when everything is in the set.                      *)
LEMMA OnlyAll ==
  ASSUME NEW T, NEW s \in Seq(T), NEW S, ToSet(s) \subseteq S
  PROVE  Only(s, S) = s
<1>. DEFINE P == {r \in Seq(T) : ToSet(r) \subseteq S => Only(r, S) = r}
<1>1. <<>> \in P
  BY OnlyEmpty
<1>2. ASSUME NEW r \in Seq(T), NEW e \in T, r \in P PROVE Append(r, e) \in P
  <2>1. Only(Append(r, e), S) = IF e \in S THEN Append(Only(r, S), e) ELSE Only(r, S)
    BY OnlyAppend
  <2>2. ToSet(Append(r, e)) = ToSet(r) \cup {e} /\ Append(r, e) \in Seq(T)
    BY ToSetGrowth
  <2>3. ASSUME ToSet(Append(r, e)) \subseteq S PROVE Only(Append(r, e), S) = Append(r, e)
    <3>1. e \in S /\ Only(r, S) = r
      BY <1>2, <2>2, <2>3
    <3>. QED BY <2>1, <3>1
  <2>. QED BY <2>2, <2>3
<1>3. Seq(T) \subseteq P
  <2>. HIDE DEF P
  <2>. QED BY <1>1, <1>2, SeqSetInduction
<1>. QED BY <1>3

(* A sequence that is not empty has a last element and what is before it.   *)
LEMMA SplitLast ==
  ASSUME NEW T, NEW s \in Seq(T), s # <<>>
  PROVE  \E f \in Seq(T), e \in T : s = Append(f, e) /\ Last(s) = e
<1>1. PICK n \in Nat : Len(s) = n + 1
  <2>1. Len(s) \in Nat /\ Len(s) > 0
    OBVIOUS
  <2>2. Len(s) - 1 \in Nat /\ Len(s) = (Len(s) - 1) + 1
    BY <2>1
  <2>. QED BY <2>2
<1>. DEFINE f == SubSeq(s, 1, n)
<1>2. f \in Seq(T) /\ Len(f) = n /\ s[n + 1] \in T
  BY <1>1
<1>3. s = Append(f, s[n + 1])
  <2>1. Append(f, s[n + 1]) \in Seq(T) /\ Len(Append(f, s[n + 1])) = n + 1
    BY <1>2
  <2>2. \A i \in 1..n + 1 : Append(f, s[n + 1])[i] = s[i]
    BY <1>1
  <2>. QED BY <1>1, <2>1, <2>2, SeqEqual
<1>4. Last(s) = s[n + 1]
  BY <1>1 DEF Last
<1>. HIDE DEF f
<1>. QED BY <1>2, <1>3, <1>4

(* A number added to a summand is added to the sum.                         *)
LEMMA Shift == \A i, j, k \in Nat : (i + k) + j = (i + j) + k /\ i + (j + k) = (i + j) + k
OBVIOUS

(* What is kept of a sequence can be counted in two parts.                  *)
LEMMA OnlyInParts ==
  ASSUME NEW T, NEW s \in Seq(T), NEW D, NEW E, NEW S, ToSet(s) \subseteq D \cup E, D \cap E = {}
  PROVE  Len(Only(s, S)) = Len(Only(Only(s, D), S)) + Len(Only(Only(s, E), S))
<1>. DEFINE Parts(r) == Len(Only(r, S)) = Len(Only(Only(r, D), S)) + Len(Only(Only(r, E), S))
            P == {r \in Seq(T) : ToSet(r) \subseteq D \cup E => Parts(r)}
<1>1. <<>> \in P
  <2>1. \A X : Only(<<>>, X) = <<>>
    BY OnlyEmpty
  <2>. QED BY <2>1
<1>2. ASSUME NEW r \in Seq(T), NEW e \in T, r \in P PROVE Append(r, e) \in P
  <2>. DEFINE a == Only(r, D)
              b == Only(r, E)
              c == Only(r, S)
              q == Append(r, e)
              k == IF e \in S THEN 1 ELSE 0
  <2>0. ToSet(q) = ToSet(r) \cup {e} /\ q \in Seq(T)
    BY ToSetGrowth
  <2>. SUFFICES ASSUME ToSet(q) \subseteq D \cup E PROVE Parts(q)
    BY <2>0
  <2>1. Parts(r) /\ (e \in D <=> ~(e \in E))
    BY <1>2, <2>0
  <2>2. \A x \in Seq(T) : \A X :
          /\ Only(x, X) \in Seq(T)
          /\ Only(Append(x, e), X) = IF e \in X THEN Append(Only(x, X), e) ELSE Only(x, X)
    BY OnlyAppend
  <2>3. \A x \in Seq(T) : Len(x) \in Nat /\ Len(Append(x, e)) = Len(x) + 1
    OBVIOUS
  <2>4. \A x \in Seq(T) : \A X :
          Len(Only(Append(x, e), X)) = Len(Only(x, X)) + (IF e \in X THEN 1 ELSE 0)
    <3>1. ASSUME NEW x \in Seq(T), NEW X
          PROVE  Len(Only(Append(x, e), X)) = Len(Only(x, X)) + (IF e \in X THEN 1 ELSE 0)
      <4>1. /\ Only(x, X) \in Seq(T)
            /\ Only(Append(x, e), X) = IF e \in X THEN Append(Only(x, X), e) ELSE Only(x, X)
        BY <2>2
      <4>2. Len(Only(x, X)) \in Nat /\ Len(Append(Only(x, X), e)) = Len(Only(x, X)) + 1
        BY <2>3, <4>1
      <4>. QED BY <4>1, <4>2
    <3>. QED BY <3>1
  <2>5. a \in Seq(T) /\ b \in Seq(T)
    BY <2>2
  <2>6. /\ Only(q, D) = IF e \in D THEN Append(a, e) ELSE a
        /\ Only(q, E) = IF e \in E THEN Append(b, e) ELSE b
    BY <2>2
  <2>7. /\ Len(Only(q, S)) = Len(c) + k
        /\ Len(Only(Append(a, e), S)) = Len(Only(a, S)) + k
        /\ Len(Only(Append(b, e), S)) = Len(Only(b, S)) + k
        /\ k \in Nat
    BY <2>4, <2>5
  <2>8. Len(Only(a, S)) \in Nat /\ Len(Only(b, S)) \in Nat
    BY <2>2, <2>3, <2>5
  <2>9. Len(c) = Len(Only(a, S)) + Len(Only(b, S))
    BY <2>1
  <2>. HIDE DEF a, b, c, q
  <2>10. CASE e \in D
    <3>1. Only(q, D) = Append(a, e) /\ Only(q, E) = b
      BY <2>1, <2>6, <2>10
    <3>2. Len(Only(q, S)) = Len(Only(Only(q, D), S)) + Len(Only(Only(q, E), S))
      <4>1. /\ Len(Only(q, S)) = (Len(Only(a, S)) + Len(Only(b, S))) + k
            /\ Len(Only(Only(q, D), S)) + Len(Only(Only(q, E), S))
                 = (Len(Only(a, S)) + Len(Only(b, S))) + k
        <5>. DEFINE la == Len(Only(a, S))
                    lb == Len(Only(b, S))
        <5>1. la \in Nat /\ lb \in Nat /\ k \in Nat
          BY <2>7, <2>8
        <5>. HIDE DEF la, lb, k
        <5>2. (la + k) + lb = (la + lb) + k /\ la + (lb + k) = (la + lb) + k
          BY <5>1, Shift
        <5>. QED BY <2>7, <2>9, <3>1, <5>2 DEF la, lb
      <4>. QED BY <4>1
    <3>. QED BY <3>2
  <2>11. CASE ~(e \in D)
    <3>1. Only(q, D) = a /\ Only(q, E) = Append(b, e)
      BY <2>1, <2>6, <2>11
    <3>2. Len(Only(q, S)) = Len(Only(Only(q, D), S)) + Len(Only(Only(q, E), S))
      <4>1. /\ Len(Only(q, S)) = (Len(Only(a, S)) + Len(Only(b, S))) + k
            /\ Len(Only(Only(q, D), S)) + Len(Only(Only(q, E), S))
                 = (Len(Only(a, S)) + Len(Only(b, S))) + k
        <5>. DEFINE la == Len(Only(a, S))
                    lb == Len(Only(b, S))
        <5>1. la \in Nat /\ lb \in Nat /\ k \in Nat
          BY <2>7, <2>8
        <5>. HIDE DEF la, lb, k
        <5>2. (la + k) + lb = (la + lb) + k /\ la + (lb + k) = (la + lb) + k
          BY <5>1, Shift
        <5>. QED BY <2>7, <2>9, <3>1, <5>2 DEF la, lb
      <4>. QED BY <4>1
    <3>. QED BY <3>2
  <2>. QED BY <2>10, <2>11
<1>3. Seq(T) \subseteq P
  <2>. HIDE DEF P
  <2>. QED BY <1>1, <1>2, SeqSetInduction
<1>. QED BY <1>3

=============================================================================
