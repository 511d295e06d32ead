-------------------------- MODULE MainWindowProofs --------------------------
(***************************************************************************)
(* Proofs about MainWindow, for any number of nodes, tabs and symbols: the  *)
(* panels form a forest with one tree to a page, whatever is split, closed, *)
(* retyped or misread, and a click takes away the panel it was made on.      *)
(***************************************************************************)
EXTENDS MainWindow, SeqEditTheorems, FiniteSetTheorems

(* A set of nodes that no edge leads out of.                               *)
Closed(nodes, S, edges) ==
  \A p \in S : nodes[p].kind = "split" => Range(nodes[p][edges]) \subseteq S

Kid(nodes, p, k) == nodes[p].kind = "split" /\ k \in Range(nodes[p].kids)

(* The records the kinds of nodes are; what is drawn of a split is its kids. *)
SplitPanel ==
  {r \in [kind : {"split"}, kids : [1..2 -> Node], layout : [1..2 -> Node]] :
     r.layout = r.kids /\ r.kids[1] # r.kids[2]}

InstrumentPanel == [kind : {"instrument"}, chart : Symbol \cup {None}, menu : SUBSET Symbol]

WellMade(nodes) ==
  /\ nodes = [p \in Node |-> nodes[p]]
  /\ \A p \in Node :
       /\ nodes[p].kind \in LeafKind \cup {"free", "split"}
       /\ nodes[p].kind = "split" => nodes[p] \in SplitPanel
       /\ nodes[p].kind = "instrument" => nodes[p] \in InstrumentPanel

(* The nodes M hang together below the slots: no two of them share a child, *)
(* and no slot holds a child.                                              *)
Wired(M, nodes, slots) ==
  /\ M \subseteq Node
  /\ \A p \in M : nodes[p].kind # "free"
  /\ \A t \in DOMAIN slots : slots[t] \in M
  /\ Closed(nodes, M, "kids")
  /\ \A p, q \in M : \A k \in Node : Kid(nodes, p, k) /\ Kid(nodes, q, k) => p = q
  /\ \A t \in DOMAIN slots : \A p \in M : ~Kid(nodes, p, slots[t])
  /\ \A t, u \in DOMAIN slots : slots[t] = slots[u] => t = u

Used(nodes) == {n \in Node : nodes[n].kind # "free"}

(* Every node that is not free is below a slot.                            *)
Forest(nodes, slots) ==
  /\ WellMade(nodes)
  /\ Wired(Used(nodes), nodes, slots)
  /\ \A n \in Used(nodes) : \E t \in DOMAIN slots : n \in Tree(nodes, slots[t])

(* The tabs are a sequence of different ids, and a root is in its slot.     *)
Tabs ==
  /\ nextTab \in Nat
  /\ tabs \in Seq(0 .. nextTab - 1) /\ tabs # <<>>
  /\ \A i, j \in 1 .. Len(tabs) : tabs[i] = tabs[j] => i = j
  /\ pages = tabs
  /\ active \in 0 .. Len(tabs) - 1 /\ page = active + 1
  /\ DOMAIN slot = Range(tabs) /\ DOMAIN root \subseteq DOMAIN slot
  /\ \A t \in DOMAIN root : root[t] = slot[t]
  /\ misread \/ DOMAIN root = Range(tabs)

(* The inductive invariant.                                                *)
IInv == symbols \subseteq Symbol /\ Tabs /\ Forest(panel, slot) /\ MenusAreCurrent

-----------------------------------------------------------------------------
(* What is reached is the least set of nodes that holds the first one and   *)
(* that no edge leads out of.                                              *)
LEMMA ReachedProperties ==
  ASSUME NEW nodes, NEW n \in Node, NEW edges,
         \A p \in Node : nodes[p].kind = "split" => Range(nodes[p][edges]) \subseteq Node
  PROVE  /\ Reached(nodes, n, edges) \in SUBSET Node
         /\ n \in Reached(nodes, n, edges)
         /\ Closed(nodes, Reached(nodes, n, edges), edges)
         /\ \A S \in SUBSET Node :
              n \in S /\ Closed(nodes, S, edges) => Reached(nodes, n, edges) \subseteq S
<1>. DEFINE Grown(S) == WithNext(nodes, S, edges)
            Least(above) ==
              {m \in Node : \A S \in SUBSET Node : above \subseteq S /\ Closed(nodes, S, edges) => m \in S}
            Solves(f) == f = [above \in SUBSET Node |-> IF Grown(above) = above THEN above ELSE f[Grown(above)]]
            g == [above \in SUBSET Node |-> Least(above)]
            From == CHOOSE f : Solves(f)
<1>1. ASSUME NEW S \in SUBSET Node
      PROVE  /\ Grown(S) \in SUBSET Node /\ S \subseteq Grown(S)
             /\ Grown(S) = S <=> Closed(nodes, S, edges)
             /\ \A T \in SUBSET Node : S \subseteq T /\ Closed(nodes, T, edges) => Grown(S) \subseteq T
  BY DEF WithNext, Closed
<1>2. ASSUME NEW S \in SUBSET Node
      PROVE  Least(S) = IF Grown(S) = S THEN S ELSE Least(Grown(S))
  <2>1. CASE Grown(S) = S
    <3>1. Closed(nodes, S, edges)
      <4>. HIDE DEF Grown
      <4>. QED BY <1>1, <2>1
    <3>2. Least(S) = S
      BY <3>1
    <3>. QED BY <2>1, <3>2
  <2>2. CASE Grown(S) # S
    <3>. HIDE DEF Grown
    <3>. QED BY <1>1, <2>2
  <2>. QED BY <2>1, <2>2
<1>3. Solves(g)
  <2>. HIDE DEF Grown, Least
  <2>. QED BY <1>1, <1>2
<1>4. Solves(From)
  <2>. HIDE DEF Solves, g
  <2>. QED BY <1>3
<1>5. \A S \in SUBSET Node : From[S] = IF Grown(S) = S THEN S ELSE From[Grown(S)]
  <2>. HIDE DEF From, Grown
  <2>. QED BY <1>4
<1>. HIDE DEF From, Grown, Least, g
<1>. DEFINE T == {k \in Nat : \A S \in SUBSET Node : Cardinality(Node \ S) <= k => From[S] = Least(S)}
<1>6. IsFiniteSet(Node)
  BY WindowAssumption
<1>7. 0 \in T
  <2>. SUFFICES ASSUME NEW S \in SUBSET Node, Cardinality(Node \ S) <= 0 PROVE From[S] = Least(S)
    OBVIOUS
  <2>1. IsFiniteSet(Node \ S) /\ Cardinality(Node \ S) \in Nat
    BY <1>6, FS_Difference, FS_CardinalityType
  <2>2. Cardinality(Node \ S) = 0
    BY <2>1
  <2>3. Node \ S = {}
    BY <2>1, <2>2, FS_EmptySet
  <2>4. Grown(S) = S
    BY <1>1, <2>3
  <2>. QED BY <1>2, <1>5, <2>4
<1>8. ASSUME NEW k \in Nat, k \in T PROVE k + 1 \in T
  <2>. SUFFICES ASSUME NEW S \in SUBSET Node, Cardinality(Node \ S) <= k + 1 PROVE From[S] = Least(S)
    OBVIOUS
  <2>1. CASE Grown(S) = S
    BY <1>2, <1>5, <2>1
  <2>2. CASE Grown(S) # S
    <3>1. Grown(S) \in SUBSET Node /\ Node \ Grown(S) \in SUBSET (Node \ S) /\ Node \ Grown(S) # Node \ S
      BY <1>1, <2>2
    <3>2. IsFiniteSet(Node \ S) /\ Cardinality(Node \ S) \in Nat
      BY <1>6, FS_Difference, FS_CardinalityType
    <3>3. IsFiniteSet(Node \ Grown(S)) /\ Cardinality(Node \ Grown(S)) \in Nat
      BY <1>6, FS_Difference, FS_CardinalityType
    <3>4. \A A, B : IsFiniteSet(A) /\ B \in SUBSET A =>
            Cardinality(B) <= Cardinality(A) /\ (Cardinality(A) = Cardinality(B) => A = B)
      BY FS_Subset
    <3>5. Cardinality(Node \ Grown(S)) <= k
      BY <3>1, <3>2, <3>3, <3>4
    <3>6. From[Grown(S)] = Least(Grown(S))
      BY <1>8, <3>1, <3>5
    <3>. QED BY <1>2, <1>5, <2>2, <3>6
  <2>. QED BY <2>1, <2>2
<1>9. Nat \subseteq T
  <2>. HIDE DEF T
  <2>. QED BY <1>7, <1>8, NatSetInduction
<1>10. From[{n}] = Least({n})
  <2>1. {n} \in SUBSET Node
    OBVIOUS
  <2>2. Cardinality(Node \ {n}) \in Nat
    BY <1>6, FS_Difference, FS_CardinalityType
  <2>3. Cardinality(Node \ {n}) \in T /\ Cardinality(Node \ {n}) <= Cardinality(Node \ {n})
    <3>. HIDE DEF T
    <3>. QED BY <1>9, <2>2
  <2>. QED BY <2>1, <2>3
<1>11. Reached(nodes, n, edges) = From[{n}]
  BY DEF Reached, From, Grown
<1>12. Closed(nodes, Least({n}), edges)
  <2>. SUFFICES ASSUME NEW p \in Least({n}), nodes[p].kind = "split", NEW k \in Range(nodes[p][edges])
                PROVE  k \in Least({n})
    BY DEF Closed
  <2>1. p \in Node /\ k \in Node
    BY DEF Least
  <2>2. ASSUME NEW S \in SUBSET Node, {n} \subseteq S, Closed(nodes, S, edges) PROVE k \in S
    <3>1. p \in S
      BY <2>2 DEF Least
    <3>. QED BY <2>2, <3>1 DEF Closed
  <2>. QED BY <2>1, <2>2 DEF Least
<1>13. Least({n}) \in SUBSET Node /\ n \in Least({n})
  BY DEF Least
<1>14. \A S \in SUBSET Node : n \in S /\ Closed(nodes, S, edges) => Least({n}) \subseteq S
  BY DEF Least
<1>. QED BY <1>10, <1>11, <1>12, <1>13, <1>14

(* ... for the trees and what is drawn of them, which are the same.         *)
LEMMA TreeProperties ==
  ASSUME NEW nodes, WellMade(nodes), NEW n \in Node
  PROVE  /\ Tree(nodes, n) \in SUBSET Node
         /\ n \in Tree(nodes, n)
         /\ Closed(nodes, Tree(nodes, n), "kids")
         /\ \A S \in SUBSET Node : n \in S /\ Closed(nodes, S, "kids") => Tree(nodes, n) \subseteq S
         /\ Drawn(nodes, n) = Tree(nodes, n)
<1>1. ASSUME NEW p \in Node, nodes[p].kind = "split"
      PROVE  Range(nodes[p]["kids"]) \subseteq Node /\ nodes[p]["layout"] = nodes[p]["kids"]
  <2>1. nodes[p] \in SplitPanel
    BY <1>1 DEF WellMade
  <2>. QED BY <2>1 DEF SplitPanel, Range
<1>2. /\ Tree(nodes, n) \in SUBSET Node
      /\ n \in Tree(nodes, n)
      /\ Closed(nodes, Tree(nodes, n), "kids")
      /\ \A S \in SUBSET Node : n \in S /\ Closed(nodes, S, "kids") => Tree(nodes, n) \subseteq S
  BY <1>1, ReachedProperties DEF Tree
<1>3. \A p \in Node : nodes[p].kind = "split" => Range(nodes[p]["layout"]) \subseteq Node
  BY <1>1
<1>4. /\ Drawn(nodes, n) \in SUBSET Node
      /\ n \in Drawn(nodes, n)
      /\ Closed(nodes, Drawn(nodes, n), "layout")
      /\ \A S \in SUBSET Node : n \in S /\ Closed(nodes, S, "layout") => Drawn(nodes, n) \subseteq S
  BY <1>3, ReachedProperties DEF Drawn
<1>5. \A S \in SUBSET Node : Closed(nodes, S, "layout") <=> Closed(nodes, S, "kids")
  BY <1>1 DEF Closed
<1>. QED BY <1>2, <1>4, <1>5

(* Nodes that agree on a tree have the same tree.                          *)
LEMMA SameTree ==
  ASSUME NEW a, NEW b, WellMade(a), WellMade(b), NEW n \in Node,
         \A p \in Tree(a, n) : /\ a[p].kind = "split" <=> b[p].kind = "split"
                               /\ a[p].kind = "split" => a[p].kids = b[p].kids
  PROVE  Tree(b, n) = Tree(a, n)
<1>1. /\ Tree(a, n) \in SUBSET Node /\ n \in Tree(a, n) /\ Closed(a, Tree(a, n), "kids")
      /\ \A S \in SUBSET Node : n \in S /\ Closed(a, S, "kids") => Tree(a, n) \subseteq S
  BY TreeProperties
<1>2. /\ Tree(b, n) \in SUBSET Node /\ n \in Tree(b, n) /\ Closed(b, Tree(b, n), "kids")
      /\ \A S \in SUBSET Node : n \in S /\ Closed(b, S, "kids") => Tree(b, n) \subseteq S
  BY TreeProperties
<1>3. Closed(b, Tree(a, n), "kids")
  BY <1>1 DEF Closed
<1>4. Tree(b, n) \subseteq Tree(a, n)
  BY <1>1, <1>2, <1>3
<1>5. Closed(a, Tree(b, n), "kids")
  BY <1>2, <1>4 DEF Closed
<1>. QED BY <1>1, <1>2, <1>4, <1>5

(* A node of a tree other than its root hangs below another one of it.      *)
LEMMA ParentInTree ==
  ASSUME NEW nodes, WellMade(nodes), NEW n \in Node, NEW k \in Tree(nodes, n), k # n
  PROVE  \E p \in Tree(nodes, n) \ {k} : Kid(nodes, p, k)
<1>1. /\ Tree(nodes, n) \in SUBSET Node /\ n \in Tree(nodes, n) /\ Closed(nodes, Tree(nodes, n), "kids")
      /\ \A S \in SUBSET Node : n \in S /\ Closed(nodes, S, "kids") => Tree(nodes, n) \subseteq S
  BY TreeProperties
<1>2. SUFFICES ASSUME \A p \in Tree(nodes, n) \ {k} : ~Kid(nodes, p, k) PROVE FALSE
  OBVIOUS
<1>3. Closed(nodes, Tree(nodes, n) \ {k}, "kids")
  BY <1>1, <1>2 DEF Closed, Kid
<1>4. Tree(nodes, n) \ {k} \in SUBSET Node /\ n \in Tree(nodes, n) \ {k}
  BY <1>1
<1>. QED BY <1>1, <1>3, <1>4

(* The trees of the slots are within the nodes that are wired, and apart.   *)
LEMMA TreesApart ==
  ASSUME NEW nodes, WellMade(nodes), NEW M, NEW slots, Wired(M, nodes, slots)
  PROVE  /\ \A t \in DOMAIN slots : slots[t] \in Node /\ Tree(nodes, slots[t]) \subseteq M
         /\ \A t, u \in DOMAIN slots : t # u => Tree(nodes, slots[t]) \cap Tree(nodes, slots[u]) = {}
<1>1. ASSUME NEW t \in DOMAIN slots PROVE slots[t] \in Node /\ Tree(nodes, slots[t]) \subseteq M
  <2>1. slots[t] \in M /\ slots[t] \in Node /\ M \in SUBSET Node /\ Closed(nodes, M, "kids")
    BY DEF Wired
  <2>. QED BY <2>1, TreeProperties
<1>2. ASSUME NEW t \in DOMAIN slots, NEW u \in DOMAIN slots, t # u
      PROVE  Tree(nodes, slots[t]) \cap Tree(nodes, slots[u]) = {}
  <2>. DEFINE a == slots[t]
              b == slots[u]
              D == Tree(nodes, a) \ Tree(nodes, b)
  <2>1. a \in Node /\ b \in Node /\ a # b /\ Tree(nodes, a) \subseteq M /\ Tree(nodes, b) \subseteq M
    BY <1>1, <1>2 DEF Wired
  <2>2. \A p \in M : ~Kid(nodes, p, a) /\ ~Kid(nodes, p, b)
    BY DEF Wired
  <2>3. \A p, q \in M : \A k \in Node : Kid(nodes, p, k) /\ Kid(nodes, q, k) => p = q
    BY DEF Wired
  <2>. HIDE DEF a, b
  <2>4. /\ Tree(nodes, a) \in SUBSET Node /\ a \in Tree(nodes, a) /\ Closed(nodes, Tree(nodes, a), "kids")
        /\ \A S \in SUBSET Node : a \in S /\ Closed(nodes, S, "kids") => Tree(nodes, a) \subseteq S
    BY <2>1, TreeProperties
  <2>5. \A k \in Tree(nodes, b) : k # b => \E p \in Tree(nodes, b) : Kid(nodes, p, k)
    BY <2>1, ParentInTree
  <2>6. a \notin Tree(nodes, b)
    BY <2>1, <2>2, <2>5
  <2>7. Closed(nodes, D, "kids")
    <3>. SUFFICES ASSUME NEW p \in D, nodes[p].kind = "split", NEW k \in Range(nodes[p].kids)
                  PROVE  k \in D
      BY DEF Closed
    <3>1. Kid(nodes, p, k) /\ p \in M /\ k \in Tree(nodes, a) /\ k \in Node
      BY <2>1, <2>4 DEF Closed, Kid
    <3>2. ASSUME k \in Tree(nodes, b) PROVE FALSE
      <4>1. PICK q \in Tree(nodes, b) : Kid(nodes, q, k)
        BY <2>2, <2>5, <3>1, <3>2
      <4>2. q = p
        BY <2>1, <2>3, <3>1, <4>1
      <4>. QED BY <4>1, <4>2
    <3>. QED BY <3>1, <3>2
  <2>8. Tree(nodes, a) \subseteq D
    BY <2>4, <2>6, <2>7
  <2>9. Tree(nodes, a) \cap Tree(nodes, b) = {}
    BY <2>8
  <2>. QED BY <2>9 DEF a, b
<1>. QED BY <1>1, <1>2

(* The nodes of the trees of some roots.                                   *)
TreesOf(nodes, roots) == UNION {Tree(nodes, roots[t]) : t \in DOMAIN roots}

LEMMA TreesProperties ==
  ASSUME NEW nodes, WellMade(nodes), NEW roots, \A t \in DOMAIN roots : roots[t] \in Node
  PROVE  /\ TreesOf(nodes, roots) \in SUBSET Node
         /\ \A t \in DOMAIN roots : roots[t] \in TreesOf(nodes, roots)
         /\ Closed(nodes, TreesOf(nodes, roots), "kids")
         /\ \A S \in SUBSET Node :
              (\A t \in DOMAIN roots : roots[t] \in S) /\ Closed(nodes, S, "kids")
                => TreesOf(nodes, roots) \subseteq S
<1>1. ASSUME NEW t \in DOMAIN roots
      PROVE  /\ Tree(nodes, roots[t]) \in SUBSET Node
             /\ roots[t] \in Tree(nodes, roots[t])
             /\ Closed(nodes, Tree(nodes, roots[t]), "kids")
             /\ \A S \in SUBSET Node :
                  roots[t] \in S /\ Closed(nodes, S, "kids") => Tree(nodes, roots[t]) \subseteq S
  BY TreeProperties
<1>2. Closed(nodes, TreesOf(nodes, roots), "kids")
  BY <1>1 DEF Closed, TreesOf
<1>. QED BY <1>1, <1>2 DEF TreesOf

-----------------------------------------------------------------------------
(* What an event leaves of the nodes.                                      *)
Kept(nodes, roots, slots) ==
  [n \in Node |-> IF n \in Live(nodes, roots, slots) THEN nodes[n] ELSE Free]

InSlots(roots, slots) ==
  DOMAIN roots \subseteq DOMAIN slots /\ \A t \in DOMAIN roots : roots[t] = slots[t]

(* What hangs together below the slots is a forest once the rest is free,   *)
(* with the same trees.                                                    *)
LEMMA KeptForest ==
  ASSUME NEW nodes, WellMade(nodes), NEW M, NEW roots, NEW slots,
         Wired(M, nodes, slots), InSlots(roots, slots)
  PROVE  /\ Forest(Kept(nodes, roots, slots), slots)
         /\ TreesOf(Kept(nodes, roots, slots), roots) = TreesOf(nodes, roots)
         /\ \A n \in TreesOf(nodes, roots) : Kept(nodes, roots, slots)[n] = nodes[n]
<1>. DEFINE L == Live(nodes, roots, slots)
            new == Kept(nodes, roots, slots)
<1>1. \A t \in DOMAIN slots : slots[t] \in Node /\ Tree(nodes, slots[t]) \subseteq M
  BY TreesApart
<1>2. \A t \in DOMAIN slots : Drawn(nodes, slots[t]) = Tree(nodes, slots[t])
  BY <1>1, TreeProperties
<1>3. L = TreesOf(nodes, slots)
  BY <1>2 DEF Live, TreesOf, InSlots
<1>4. /\ L \in SUBSET Node
      /\ \A t \in DOMAIN slots : slots[t] \in L
      /\ Closed(nodes, L, "kids")
  BY <1>1, <1>3, TreesProperties
<1>5. L \subseteq M
  BY <1>1, <1>3 DEF TreesOf
<1>6. \A n \in Node : new[n] = IF n \in L THEN nodes[n] ELSE Free
  BY DEF Kept
<1>. HIDE DEF L, new
<1>7. WellMade(new)
  <2>1. new = [n \in Node |-> new[n]]
    BY DEF new, Kept
  <2>. QED BY <1>6, <2>1 DEF WellMade, Free
<1>8. Used(new) = L
  <2>1. M \subseteq Node /\ \A p \in M : nodes[p].kind # "free"
    BY DEF Wired
  <2>. QED BY <1>4, <1>5, <1>6, <2>1 DEF Used, Free
<1>9. Wired(L, new, slots)
  <2>1. \A p \in L : new[p] = nodes[p] /\ p \in M
    BY <1>4, <1>5, <1>6
  <2>2. Closed(new, L, "kids")
    BY <1>4, <2>1 DEF Closed
  <2>. QED BY <1>4, <2>1, <2>2 DEF Wired, Kid
<1>10. ASSUME NEW t \in DOMAIN slots PROVE Tree(new, slots[t]) = Tree(nodes, slots[t])
  <2>1. Tree(nodes, slots[t]) \subseteq L
    BY <1>3 DEF TreesOf
  <2>2. \A p \in Tree(nodes, slots[t]) : new[p] = nodes[p]
    BY <1>4, <1>6, <2>1
  <2>3. \A x \in Node : (\A p \in Tree(nodes, x) : new[p] = nodes[p]) => Tree(new, x) = Tree(nodes, x)
    BY <1>7, SameTree
  <2>. QED BY <1>1, <2>2, <2>3
<1>11. \A n \in L : \E t \in DOMAIN slots : n \in Tree(new, slots[t])
  BY <1>3, <1>10 DEF TreesOf
<1>12. Forest(new, slots)
  BY <1>7, <1>8, <1>9, <1>11 DEF Forest
<1>13. TreesOf(new, roots) = TreesOf(nodes, roots)
  BY <1>10 DEF TreesOf, InSlots
<1>14. \A n \in TreesOf(nodes, roots) : new[n] = nodes[n]
  BY <1>3, <1>4, <1>6 DEF TreesOf, InSlots
<1>. QED BY <1>12, <1>13, <1>14 DEF new

(* A change that leaves the kinds and the children alone leaves the trees.  *)
LEMMA SameForest ==
  ASSUME NEW a, NEW b, NEW slots, NEW roots, Forest(a, slots), WellMade(b), InSlots(roots, slots),
         \A p \in Node : a[p].kind = b[p].kind /\ (a[p].kind = "split" => a[p] = b[p])
  PROVE  /\ Forest(b, slots)
         /\ TreesOf(b, roots) = TreesOf(a, roots)
<1>1. WellMade(a) /\ Wired(Used(a), a, slots)
  BY DEF Forest
<1>2. Used(b) = Used(a)
  BY DEF Used
<1>3. \A t \in DOMAIN slots : slots[t] \in Node /\ Tree(a, slots[t]) \subseteq Used(a)
  BY <1>1, TreesApart
<1>4. \A x \in Node : (\A p \in Tree(a, x) : p \in Node) => Tree(b, x) = Tree(a, x)
  BY <1>1, SameTree
<1>5. \A t \in DOMAIN slots : Tree(b, slots[t]) = Tree(a, slots[t])
  BY <1>3, <1>4 DEF Used
<1>6. Wired(Used(b), b, slots)
  <2>1. Used(a) \subseteq Node
    BY DEF Used
  <2>2. Closed(b, Used(b), "kids")
    BY <1>1, <1>2, <2>1 DEF Wired, Closed
  <2>. QED BY <1>1, <1>2, <2>1, <2>2 DEF Wired, Kid
<1>7. Forest(b, slots)
  BY <1>2, <1>5, <1>6 DEF Forest
<1>. QED BY <1>5, <1>7 DEF TreesOf, InSlots

(* An event that ends with Keep, over nodes that are wired.                 *)
LEMMA KeepOutcome ==
  ASSUME NEW nodes, WellMade(nodes), NEW M, NEW roots, NEW slots,
         Wired(M, nodes, slots), InSlots(roots, slots), Keep(nodes, roots, slots)
  PROVE  /\ Forest(panel, slot)' /\ root' = roots /\ slot' = slots
         /\ InTree' = TreesOf(nodes, roots)
         /\ \A n \in InTree' : panel'[n] = nodes[n]
         /\ InTree' \in SUBSET Node /\ Closed(nodes, InTree', "kids")
         /\ \A t \in DOMAIN roots : roots[t] \in InTree'
         /\ \A S \in SUBSET Node :
              (\A t \in DOMAIN roots : roots[t] \in S) /\ Closed(nodes, S, "kids") => InTree' \subseteq S
<1>1. panel' = Kept(nodes, roots, slots) /\ root' = roots /\ slot' = slots
  BY DEF Keep, Kept
<1>2. InTree' = TreesOf(panel', root')
  BY DEF InTree, TreesOf
<1>3. /\ Forest(panel', slots)
      /\ TreesOf(panel', roots) = TreesOf(nodes, roots)
      /\ \A n \in TreesOf(nodes, roots) : panel'[n] = nodes[n]
  BY <1>1, KeptForest
<1>4. \A t \in DOMAIN roots : roots[t] \in Node
  BY DEF InSlots, Wired
<1>5. /\ TreesOf(nodes, roots) \in SUBSET Node
      /\ \A t \in DOMAIN roots : roots[t] \in TreesOf(nodes, roots)
      /\ Closed(nodes, TreesOf(nodes, roots), "kids")
      /\ \A S \in SUBSET Node :
           (\A t \in DOMAIN roots : roots[t] \in S) /\ Closed(nodes, S, "kids")
             => TreesOf(nodes, roots) \subseteq S
  BY <1>4, TreesProperties
<1>6. InTree' = TreesOf(nodes, roots)
  BY <1>1, <1>2, <1>3
<1>7. Forest(panel, slot)'
  BY <1>1, <1>3
<1>. QED BY <1>1, <1>3, <1>5, <1>6, <1>7

(* What holds of the trees in a state.                                     *)
LEMMA InTreeProperties ==
  ASSUME Forest(panel, slot), InSlots(root, slot)
  PROVE  /\ WellMade(panel) /\ Wired(Used(panel), panel, slot)
         /\ InTree \in SUBSET Node /\ InTree \subseteq Used(panel)
         /\ Closed(panel, InTree, "kids")
         /\ \A t \in DOMAIN root : root[t] \in InTree
         /\ \A S \in SUBSET Node :
              (\A t \in DOMAIN root : root[t] \in S) /\ Closed(panel, S, "kids") => InTree \subseteq S
<1>1. WellMade(panel) /\ Wired(Used(panel), panel, slot)
  BY DEF Forest
<1>2. \A t \in DOMAIN slot : slot[t] \in Node /\ Tree(panel, slot[t]) \subseteq Used(panel)
  BY <1>1, TreesApart
<1>3. \A t \in DOMAIN root : root[t] \in Node
  BY <1>2 DEF InSlots
<1>4. /\ TreesOf(panel, root) \in SUBSET Node
      /\ \A t \in DOMAIN root : root[t] \in TreesOf(panel, root)
      /\ Closed(panel, TreesOf(panel, root), "kids")
      /\ \A S \in SUBSET Node :
           (\A t \in DOMAIN root : root[t] \in S) /\ Closed(panel, S, "kids")
             => TreesOf(panel, root) \subseteq S
  BY <1>1, <1>3, TreesProperties
<1>5. InTree = TreesOf(panel, root)
  BY DEF InTree, TreesOf
<1>6. InTree \subseteq Used(panel)
  BY <1>2, <1>5 DEF TreesOf, InSlots
<1>. QED BY <1>1, <1>4, <1>5, <1>6

(* The nodes with another child below g.                                   *)
Rewired(nodes, g, old, other) ==
  LET kids == [i \in 1 .. 2 |-> IF nodes[g].kids[i] = old THEN other ELSE nodes[g].kids[i]]
  IN [nodes EXCEPT ![g].kids = kids, ![g].layout = kids]

(* The places a node may be replaced in: a tab, a parent or none.           *)
LEMMA ReplaceCases ==
  ASSUME NEW nodes, NEW old, NEW other, ReplaceNode(nodes, old, other)
  PROVE  \/ \E t \in DOMAIN root :
              root[t] = old /\ Keep(nodes, With(root, t, other), With(slot, t, other))
         \/ \E g \in InTree : /\ nodes[g].kind = "split" /\ old \in Range(nodes[g].kids)
                              /\ Keep(Rewired(nodes, g, old, other), root, slot)
         \/ /\ Keep(nodes, root, slot)
            /\ \A t \in DOMAIN root : root[t] # old
            /\ \A g \in InTree : ~Kid(nodes, g, old)
<1>. DEFINE tops == {t \in DOMAIN root : root[t] = old}
            parents == {p \in InTree : nodes[p].kind = "split" /\ old \in Range(nodes[p].kids)}
<1>1. CASE tops # {}
  <2>. DEFINE t == CHOOSE t \in tops : TRUE
  <2>1. Keep(nodes, With(root, t, other), With(slot, t, other))
    BY <1>1 DEF ReplaceNode
  <2>2. t \in tops
    BY <1>1
  <2>. QED BY <2>1, <2>2
<1>2. CASE tops = {} /\ parents # {}
  <2>. DEFINE g == CHOOSE p \in parents : TRUE
  <2>1. Keep(Rewired(nodes, g, old, other), root, slot)
    BY <1>2 DEF ReplaceNode, Rewired
  <2>2. g \in parents
    BY <1>2
  <2>. QED BY <2>1, <2>2
<1>3. CASE tops = {} /\ parents = {}
  <2>1. Keep(nodes, root, slot)
    BY <1>3 DEF ReplaceNode
  <2>2. \A t \in DOMAIN root : root[t] # old
    BY <1>3
  <2>3. \A g \in InTree : ~Kid(nodes, g, old)
    BY <1>3 DEF Kid
  <2>. QED BY <2>1, <2>2, <2>3
<1>. QED BY <1>1, <1>2, <1>3

(* Another child below g leaves it a split, and the other nodes alone.      *)
LEMMA RewiredProperties ==
  ASSUME NEW nodes, WellMade(nodes), NEW g \in Node, NEW old, NEW other \in Node,
         nodes[g].kind = "split", old \in Range(nodes[g].kids), other \notin Range(nodes[g].kids) \ {old}
  PROVE  /\ WellMade(Rewired(nodes, g, old, other))
         /\ \A p \in Node \ {g} : Rewired(nodes, g, old, other)[p] = nodes[p]
         /\ Rewired(nodes, g, old, other)[g].kind = "split"
         /\ Range(Rewired(nodes, g, old, other)[g].kids) = (Range(nodes[g].kids) \ {old}) \cup {other}
<1>. DEFINE kids == [i \in 1 .. 2 |-> IF nodes[g].kids[i] = old THEN other ELSE nodes[g].kids[i]]
            new == Rewired(nodes, g, old, other)
<1>1. nodes[g] \in SplitPanel
  BY DEF WellMade
<1>2. nodes[g].kids \in [1..2 -> Node] /\ nodes[g].kids[1] # nodes[g].kids[2]
  BY <1>1 DEF SplitPanel
<1>3. Range(nodes[g].kids) = {nodes[g].kids[1], nodes[g].kids[2]}
  BY <1>2 DEF Range
<1>4. kids \in [1..2 -> Node] /\ kids[1] # kids[2]
  BY <1>2, <1>3
<1>5. Range(kids) = (Range(nodes[g].kids) \ {old}) \cup {other}
  BY <1>2, <1>3 DEF Range
<1>6. /\ new = [p \in Node |-> new[p]]
      /\ \A p \in Node \ {g} : new[p] = nodes[p]
      /\ new[g] = [nodes[g] EXCEPT !.kids = kids, !.layout = kids]
  BY DEF Rewired, WellMade
<1>. HIDE DEF kids, new
<1>7. new[g] \in SplitPanel /\ new[g].kind = "split" /\ new[g].kids = kids
  BY <1>1, <1>4, <1>6 DEF SplitPanel
<1>8. WellMade(new)
  BY <1>6, <1>7 DEF WellMade
<1>. QED BY <1>5, <1>6, <1>7, <1>8 DEF new

(* A node of the trees is a root or hangs below another one.                *)
LEMMA HasPlace ==
  ASSUME Forest(panel, slot), InSlots(root, slot), NEW n \in InTree
  PROVE  (\E t \in DOMAIN root : root[t] = n) \/ (\E g \in InTree : Kid(panel, g, n))
<1>1. PICK t \in DOMAIN root : n \in Tree(panel, root[t])
  BY DEF InTree
<1>2. WellMade(panel) /\ root[t] \in Node
  BY InTreeProperties
<1>3. n = root[t] \/ \E g \in Tree(panel, root[t]) : Kid(panel, g, n)
  BY <1>1, <1>2, ParentInTree
<1>. QED BY <1>3 DEF InTree

-----------------------------------------------------------------------------
(* What an event does to the trees that puts nodes of F in and takes one    *)
(* panel n out at most; the others keep all but the children of a split.    *)
Exchanged(nodes, F, n) ==
  /\ Forest(panel, slot)' /\ InSlots(root, slot)'
  /\ DOMAIN root' = DOMAIN root /\ DOMAIN slot' = DOMAIN slot
  /\ InTree' \subseteq InTree \cup F
  /\ \A m \in InTree \ InTree' : m = n \/ panel[m].kind = "split"
  /\ \A m \in InTree' \cap F : panel'[m] = nodes[m]
  /\ \A m \in InTree' \ F : /\ panel'[m].kind = panel[m].kind
                            /\ panel[m].kind # "split" => panel'[m] = panel[m]

(* New nodes, with or without the panel n among their children, in place of *)
(* n: a split or a change of type (main_window.cpp:207-218,254-290).        *)
LEMMA FreshOutcome ==
  ASSUME Forest(panel, slot), InSlots(root, slot),
         NEW nodes, WellMade(nodes), NEW F \in SUBSET Node, NEW other \in F, NEW n \in Used(panel),
         panel[n].kind # "split", F \cap Used(panel) = {},
         \A p \in Node \ F : nodes[p] = panel[p],
         \A p \in F : nodes[p].kind # "free",
         \A p \in F : \A k \in Node : Kid(nodes, p, k) => k \in (F \cup {n}) \ {other},
         \A p, q \in F : \A k \in Node : Kid(nodes, p, k) /\ Kid(nodes, q, k) => p = q,
         ReplaceNode(nodes, n, other)
  PROVE  /\ Exchanged(nodes, F, n)
         /\ n \in InTree => /\ \A k \in Node : Kid(nodes, other, k) => k \in InTree'
                            /\ (\A p \in F : ~Kid(nodes, p, n)) => n \notin InTree'
<1>. DEFINE M == Used(panel) \cup F
            Rest == (InTree \cup F) \ {n}
<1>1. /\ WellMade(panel) /\ Wired(Used(panel), panel, slot)
      /\ InTree \in SUBSET Node /\ InTree \subseteq Used(panel)
      /\ Closed(panel, InTree, "kids")
      /\ \A t \in DOMAIN root : root[t] \in InTree
      /\ \A S \in SUBSET Node :
           (\A t \in DOMAIN root : root[t] \in S) /\ Closed(panel, S, "kids") => InTree \subseteq S
  BY InTreeProperties
<1>2. Used(panel) \subseteq Node /\ n \in Node /\ other \in Node /\ n \notin F /\ n # other
  BY DEF Used
<1>3. /\ \A p \in Used(panel) : nodes[p] = panel[p]
      /\ \A p \in Used(panel) : panel[p].kind # "free"
      /\ \A p \in Used(panel) : \A k : Kid(nodes, p, k) => Kid(panel, p, k) /\ k \in Used(panel)
      /\ \A t \in DOMAIN slot : slot[t] \in Used(panel)
      /\ \A p, q \in Used(panel) : \A k \in Node : Kid(nodes, p, k) /\ Kid(nodes, q, k) => p = q
      /\ \A t \in DOMAIN slot : \A p \in Used(panel) : ~Kid(nodes, p, slot[t])
      /\ \A t, u \in DOMAIN slot : slot[t] = slot[u] => t = u
  BY <1>1, <1>2 DEF Wired, Kid, Closed
<1>4. ASSUME NEW p \in F, nodes[p].kind = "split", NEW k \in Range(nodes[p].kids)
      PROVE  k \in Node /\ Kid(nodes, p, k)
  <2>1. nodes[p] \in SplitPanel
    BY <1>4 DEF WellMade
  <2>. QED BY <1>4, <2>1 DEF SplitPanel, Range, Kid
<1>5. Closed(nodes, M, "kids")
  BY <1>3, <1>4 DEF Closed, Kid
<1>6. CASE \E t \in DOMAIN root :
             root[t] = n /\ Keep(nodes, With(root, t, other), With(slot, t, other))
  <2>1. PICK t \in DOMAIN root :
               root[t] = n /\ Keep(nodes, With(root, t, other), With(slot, t, other))
    BY <1>6
  <2>. DEFINE roots == With(root, t, other)
              slots == With(slot, t, other)
  <2>2. /\ DOMAIN roots = DOMAIN root /\ DOMAIN slots = DOMAIN slot /\ t \in DOMAIN slot /\ slot[t] = n
        /\ \A u \in DOMAIN root : roots[u] = IF u = t THEN other ELSE root[u]
        /\ \A u \in DOMAIN slot : slots[u] = IF u = t THEN other ELSE slot[u]
    BY <2>1 DEF With, InSlots
  <2>. HIDE DEF roots, slots
  <2>3. InSlots(roots, slots)
    BY <2>2 DEF InSlots
  <2>4. \A p, q \in M : \A k \in Node : Kid(nodes, p, k) /\ Kid(nodes, q, k) => p = q
    BY <1>2, <1>3, <2>2
  <2>5. \A u \in DOMAIN slots : \A p \in M : ~Kid(nodes, p, slots[u])
    BY <1>2, <1>3, <2>2
  <2>6. \A u, v \in DOMAIN slots : slots[u] = slots[v] => u = v
    BY <1>2, <1>3, <2>2
  <2>7. Wired(M, nodes, slots)
    BY <1>2, <1>3, <1>5, <2>2, <2>4, <2>5, <2>6 DEF Wired
  <2>8. Keep(nodes, roots, slots)
    BY <2>1 DEF roots, slots
  <2>9. /\ Forest(panel, slot)' /\ root' = roots /\ slot' = slots
        /\ \A m \in InTree' : panel'[m] = nodes[m]
        /\ InTree' \in SUBSET Node /\ Closed(nodes, InTree', "kids")
        /\ \A u \in DOMAIN roots : roots[u] \in InTree'
        /\ \A S \in SUBSET Node :
             (\A u \in DOMAIN roots : roots[u] \in S) /\ Closed(nodes, S, "kids") => InTree' \subseteq S
    BY <2>3, <2>7, <2>8, KeepOutcome
  <2>10. InTree' \subseteq InTree \cup F
    <3>1. Closed(nodes, InTree \cup F, "kids")
      BY <1>1, <1>3, <1>4, <2>1 DEF Closed
    <3>2. \A u \in DOMAIN roots : roots[u] \in InTree \cup F
      BY <1>1, <2>2
    <3>. QED BY <1>1, <2>9, <3>1, <3>2
  <2>11. InTree \subseteq InTree' \cup {n} \cup F
    <3>1. Closed(panel, InTree' \cup {n} \cup F, "kids")
      <4>1. \A p \in F : panel[p].kind = "free"
        BY DEF Used
      <4>. QED BY <2>9, <4>1 DEF Closed
    <3>2. \A u \in DOMAIN root : root[u] \in InTree' \cup {n} \cup F
      BY <2>1, <2>2, <2>9
    <3>. QED BY <1>1, <1>2, <2>9, <3>1, <3>2
  <2>12. \A m \in InTree' \ F : panel'[m] = panel[m]
    BY <2>9
  <2>13. \A m \in InTree \ InTree' : m = n
    BY <1>1, <2>11
  <2>14. \A k \in Node : Kid(nodes, other, k) => k \in InTree'
    BY <2>2, <2>9 DEF Closed, Kid
  <2>15. ASSUME \A p \in F : ~Kid(nodes, p, n) PROVE n \notin InTree'
    <3>1. \A u \in DOMAIN roots : roots[u] \in Rest
      BY <1>1, <1>2, <1>3, <2>2 DEF InSlots
    <3>2. Closed(nodes, Rest, "kids")
      <4>. SUFFICES ASSUME NEW p \in Rest, nodes[p].kind = "split", NEW k \in Range(nodes[p].kids)
                    PROVE  k \in Rest
        BY DEF Closed
      <4>1. CASE p \in InTree
        BY <1>1, <1>2, <1>3, <2>2, <4>1 DEF Closed, Kid
      <4>2. CASE p \in F
        BY <1>4, <2>15, <4>2
      <4>. QED BY <4>1, <4>2
    <3>. QED BY <1>1, <2>9, <3>1, <3>2
  <2>16. Exchanged(nodes, F, n)
    BY <2>2, <2>3, <2>9, <2>10, <2>12, <2>13 DEF Exchanged
  <2>. QED BY <2>14, <2>15, <2>16
<1>7. CASE \E g \in InTree : /\ nodes[g].kind = "split" /\ n \in Range(nodes[g].kids)
                             /\ Keep(Rewired(nodes, g, n, other), root, slot)
  <2>1. PICK g \in InTree : /\ nodes[g].kind = "split" /\ n \in Range(nodes[g].kids)
                            /\ Keep(Rewired(nodes, g, n, other), root, slot)
    BY <1>7
  <2>. DEFINE new == Rewired(nodes, g, n, other)
  <2>2. g \in Used(panel) /\ g \in Node /\ g \notin F /\ Kid(nodes, g, n) /\ other \notin Range(nodes[g].kids)
    BY <1>1, <1>2, <1>3, <2>1 DEF Kid
  <2>3. /\ WellMade(new)
        /\ \A p \in Node \ {g} : new[p] = nodes[p]
        /\ new[g].kind = "split"
        /\ Range(new[g].kids) = (Range(nodes[g].kids) \ {n}) \cup {other}
    BY <1>2, <2>1, <2>2, RewiredProperties
  <2>. HIDE DEF new
  <2>4. \A p \in M : \A k : Kid(new, p, k) <=> IF p = g THEN k = other \/ (Kid(nodes, g, k) /\ k # n)
                                               ELSE Kid(nodes, p, k)
    BY <1>2, <2>1, <2>3 DEF Kid
  <2>5. Closed(new, M, "kids")
    BY <1>5, <1>2, <2>1, <2>2, <2>3 DEF Closed
  <2>6. \A p, q \in M : \A k \in Node : Kid(new, p, k) /\ Kid(new, q, k) => p = q
    BY <1>2, <1>3, <2>2, <2>4
  <2>7. \A u \in DOMAIN slot : \A p \in M : ~Kid(new, p, slot[u])
    BY <1>2, <1>3, <2>2, <2>4
  <2>8. \A p \in M : new[p].kind # "free"
    BY <1>2, <1>3, <2>3
  <2>9. Wired(M, new, slot)
    BY <1>2, <1>3, <2>5, <2>6, <2>7, <2>8 DEF Wired
  <2>10. Keep(new, root, slot)
    BY <2>1 DEF new
  <2>11. /\ Forest(panel, slot)' /\ root' = root /\ slot' = slot
         /\ \A m \in InTree' : panel'[m] = new[m]
         /\ InTree' \in SUBSET Node /\ Closed(new, InTree', "kids")
         /\ \A u \in DOMAIN root : root[u] \in InTree'
         /\ \A S \in SUBSET Node :
              (\A u \in DOMAIN root : root[u] \in S) /\ Closed(new, S, "kids") => InTree' \subseteq S
    BY <2>3, <2>9, <2>10, KeepOutcome
  <2>12. InTree' \subseteq InTree \cup F
    <3>1. Closed(new, InTree \cup F, "kids")
      <4>. SUFFICES ASSUME NEW p \in InTree \cup F, new[p].kind = "split", NEW k \in Range(new[p].kids)
                    PROVE  k \in InTree \cup F
        BY DEF Closed
      <4>1. CASE p = g
        BY <1>1, <1>3, <2>1, <2>2, <2>3, <4>1 DEF Closed
      <4>2. CASE p # g /\ p \in InTree
        BY <1>1, <1>3, <2>3, <4>2 DEF Closed
      <4>3. CASE p # g /\ p \in F
        BY <1>2, <1>4, <1>1, <2>1, <2>3, <4>3 DEF Closed
      <4>. QED BY <4>1, <4>2, <4>3
    <3>. QED BY <1>1, <2>11, <3>1
  <2>13. InTree \subseteq InTree' \cup {n} \cup F
    <3>1. Closed(panel, InTree' \cup {n} \cup F, "kids")
      <4>. SUFFICES ASSUME NEW p \in InTree', p \notin F, p # n, panel[p].kind = "split",
                           NEW k \in Range(panel[p].kids)
                    PROVE  k \in InTree' \cup {n}
        BY DEF Closed, Used
      <4>1. p \in Node /\ nodes[p] = panel[p]
        BY <2>11
      <4>2. CASE p = g
        BY <2>3, <2>11, <4>1, <4>2 DEF Closed
      <4>3. CASE p # g
        BY <2>3, <2>11, <4>1, <4>3 DEF Closed
      <4>. QED BY <4>2, <4>3
    <3>. QED BY <1>1, <1>2, <2>11, <3>1
  <2>14. \A m \in InTree' \ F : /\ panel'[m].kind = panel[m].kind
                                /\ panel[m].kind # "split" => panel'[m] = panel[m]
    BY <1>1, <2>1, <2>2, <2>3, <2>11
  <2>15. \A m \in InTree' \cap F : panel'[m] = nodes[m]
    BY <2>2, <2>3, <2>11
  <2>16. \A m \in InTree \ InTree' : m = n
    BY <1>1, <2>13
  <2>17. \A k \in Node : Kid(nodes, other, k) => k \in InTree'
    <3>1. g \in InTree' /\ other # g
      BY <1>1, <1>3, <2>1, <2>2, <2>16
    <3>2. other \in InTree' /\ new[other] = nodes[other]
      BY <1>2, <2>3, <2>11, <3>1 DEF Closed
    <3>. QED BY <2>11, <3>2 DEF Closed, Kid
  <2>18. ASSUME \A p \in F : ~Kid(nodes, p, n) PROVE n \notin InTree'
    <3>1. \A u \in DOMAIN root : root[u] \in Rest
      BY <1>1, <1>3, <2>2 DEF InSlots
    <3>2. Closed(new, Rest, "kids")
      <4>. SUFFICES ASSUME NEW p \in Rest, new[p].kind = "split", NEW k \in Range(new[p].kids)
                    PROVE  k \in Rest
        BY DEF Closed
      <4>1. CASE p = g
        BY <1>1, <1>2, <1>3, <2>1, <2>3, <4>1 DEF Closed
      <4>2. CASE p # g /\ p \in InTree
        <5>1. nodes[p] = panel[p] /\ new[p] = nodes[p] /\ p \in Used(panel)
          BY <1>1, <1>3, <2>3, <4>2
        <5>2. k \in InTree /\ Kid(nodes, p, k)
          BY <1>1, <4>2, <5>1 DEF Closed, Kid
        <5>. QED BY <1>2, <1>3, <2>2, <4>2, <5>1, <5>2
      <4>3. CASE p # g /\ p \in F
        BY <1>2, <1>4, <2>3, <2>18, <4>3
      <4>. QED BY <4>1, <4>2, <4>3
    <3>. QED BY <1>1, <2>11, <3>1, <3>2
  <2>19. Exchanged(nodes, F, n)
    BY <2>11, <2>12, <2>14, <2>15, <2>16 DEF Exchanged
  <2>. QED BY <2>17, <2>18, <2>19
<1>8. CASE /\ Keep(nodes, root, slot)
           /\ \A t \in DOMAIN root : root[t] # n
           /\ \A g \in InTree : ~Kid(nodes, g, n)
  <2>1. Closed(nodes, Used(panel), "kids")
    BY <1>3 DEF Closed, Kid
  <2>2. Wired(Used(panel), nodes, slot)
    BY <1>2, <1>3, <2>1 DEF Wired
  <2>3. /\ Forest(panel, slot)' /\ root' = root /\ slot' = slot
        /\ \A m \in InTree' : panel'[m] = nodes[m]
        /\ InTree' \in SUBSET Node /\ Closed(nodes, InTree', "kids")
        /\ \A u \in DOMAIN root : root[u] \in InTree'
        /\ \A S \in SUBSET Node :
             (\A u \in DOMAIN root : root[u] \in S) /\ Closed(nodes, S, "kids") => InTree' \subseteq S
    BY <1>8, <2>2, KeepOutcome
  <2>4. Closed(nodes, InTree, "kids")
    BY <1>1, <1>3 DEF Closed
  <2>5. InTree' \subseteq InTree
    BY <1>1, <2>3, <2>4
  <2>6. Closed(panel, InTree', "kids")
    BY <1>1, <1>3, <2>3, <2>5 DEF Closed
  <2>7. InTree \subseteq InTree'
    BY <1>1, <2>3, <2>6
  <2>8. Exchanged(nodes, F, n)
    BY <1>1, <1>3, <2>3, <2>5, <2>7 DEF Exchanged
  <2>9. n \notin InTree
    <3>1. \A g \in InTree : ~Kid(panel, g, n)
      BY <1>1, <1>3, <1>8 DEF Kid
    <3>. QED BY <1>8, <3>1, HasPlace
  <2>. QED BY <2>8, <2>9
<1>. QED BY <1>6, <1>7, <1>8, ReplaceCases

(* No node is its own child: it would hang below another one as well.       *)
LEMMA NoLoop ==
  ASSUME Forest(panel, slot), InSlots(root, slot), NEW p \in InTree
  PROVE  ~Kid(panel, p, p)
<1>1. WellMade(panel) /\ Wired(Used(panel), panel, slot)
  BY DEF Forest
<1>2. PICK t \in DOMAIN root : p \in Tree(panel, root[t])
  BY DEF InTree
<1>3. t \in DOMAIN slot /\ root[t] = slot[t]
  BY <1>2 DEF InSlots
<1>4. slot[t] \in Node /\ Tree(panel, slot[t]) \subseteq Used(panel)
  BY <1>1, <1>3, TreesApart
<1>5. \A x \in Node : \A k \in Tree(panel, x) : k # x => \E q \in Tree(panel, x) \ {k} : Kid(panel, q, k)
  BY <1>1, ParentInTree
<1>6. CASE p = slot[t]
  BY <1>1, <1>2, <1>3, <1>4, <1>6 DEF Wired
<1>7. CASE p # slot[t]
  <2>1. PICK q \in Tree(panel, slot[t]) \ {p} : Kid(panel, q, p)
    BY <1>2, <1>3, <1>4, <1>5, <1>7
  <2>. QED BY <1>1, <1>2, <1>3, <1>4, <2>1 DEF Wired, Used
<1>. QED BY <1>6, <1>7

(* The sibling of n in place of their parent p: n is closed                 *)
(* (main_window.cpp:235-252,254-290).                                      *)
LEMMA SiblingOutcome ==
  ASSUME Forest(panel, slot), InSlots(root, slot), NEW p \in InTree, panel[p].kind = "split",
         NEW n \in Range(panel[p].kids), panel[n].kind # "split",
         NEW s \in Range(panel[p].kids) \ {n}, ReplaceNode(panel, p, s)
  PROVE  Exchanged(panel, {}, n) /\ n \in InTree /\ n \notin InTree'
<1>. DEFINE M == Used(panel) \ {p}
            Rest == InTree \ {n, p}
            old == (InTree' \ {p}) \cup {n} \cup (IF s \in InTree' THEN {p} ELSE {})
<1>1. /\ WellMade(panel) /\ Wired(Used(panel), panel, slot)
      /\ InTree \in SUBSET Node /\ InTree \subseteq Used(panel)
      /\ Closed(panel, InTree, "kids")
      /\ \A t \in DOMAIN root : root[t] \in InTree
      /\ \A S \in SUBSET Node :
           (\A t \in DOMAIN root : root[t] \in S) /\ Closed(panel, S, "kids") => InTree \subseteq S
  BY InTreeProperties
<1>2. /\ Used(panel) \subseteq Node
      /\ \A q \in Used(panel) : panel[q].kind # "free"
      /\ \A t \in DOMAIN slot : slot[t] \in Used(panel)
      /\ \A q \in Used(panel) : \A k : Kid(panel, q, k) => k \in Used(panel)
      /\ \A q, r \in Used(panel) : \A k \in Node : Kid(panel, q, k) /\ Kid(panel, r, k) => q = r
      /\ \A t \in DOMAIN slot : \A q \in Used(panel) : ~Kid(panel, q, slot[t])
      /\ \A t, u \in DOMAIN slot : slot[t] = slot[u] => t = u
  BY <1>1 DEF Wired, Used, Closed, Kid
<1>3. Range(panel[p].kids) = {n, s} /\ n # s
  <2>1. panel[p] \in SplitPanel
    BY <1>1 DEF WellMade
  <2>. QED BY <2>1 DEF SplitPanel, Range
<1>4. Kid(panel, p, n) /\ Kid(panel, p, s) /\ ~Kid(panel, p, p) /\ \A k : Kid(panel, p, k) => k \in {n, s}
  BY <1>3, NoLoop DEF Kid
<1>5. n # p /\ s # p /\ p \in Used(panel) /\ {n, s} \subseteq Used(panel) /\ {n, s, p} \subseteq Node
      /\ {n, s} \subseteq InTree
  BY <1>1, <1>2, <1>3, <1>4 DEF Closed
<1>6. CASE \E t \in DOMAIN root : root[t] = p /\ Keep(panel, With(root, t, s), With(slot, t, s))
  <2>1. PICK t \in DOMAIN root : root[t] = p /\ Keep(panel, With(root, t, s), With(slot, t, s))
    BY <1>6
  <2>. DEFINE roots == With(root, t, s)
              slots == With(slot, t, s)
  <2>2. /\ DOMAIN roots = DOMAIN root /\ DOMAIN slots = DOMAIN slot /\ t \in DOMAIN slot /\ slot[t] = p
        /\ \A u \in DOMAIN root : roots[u] = IF u = t THEN s ELSE root[u]
        /\ \A u \in DOMAIN slot : slots[u] = IF u = t THEN s ELSE slot[u]
    BY <2>1 DEF With, InSlots
  <2>. HIDE DEF roots, slots
  <2>3. InSlots(roots, slots)
    BY <2>2 DEF InSlots
  <2>4. Closed(panel, M, "kids")
    <3>1. \A q \in Used(panel) : ~Kid(panel, q, p)
      BY <1>2, <2>2
    <3>. QED BY <1>2, <3>1 DEF Closed, Kid
  <2>5. \A u \in DOMAIN slots : slots[u] \in M /\ \A q \in M : ~Kid(panel, q, slots[u])
    BY <1>2, <1>4, <1>5, <2>2
  <2>6. \A u, v \in DOMAIN slots : slots[u] = slots[v] => u = v
    BY <1>2, <1>4, <1>5, <2>2
  <2>7. Wired(M, panel, slots)
    BY <1>2, <2>4, <2>5, <2>6 DEF Wired
  <2>8. Keep(panel, roots, slots)
    BY <2>1 DEF roots, slots
  <2>9. /\ Forest(panel, slot)' /\ root' = roots /\ slot' = slots
        /\ \A m \in InTree' : panel'[m] = panel[m]
        /\ InTree' \in SUBSET Node /\ Closed(panel, InTree', "kids")
        /\ \A u \in DOMAIN roots : roots[u] \in InTree'
        /\ \A S \in SUBSET Node :
             (\A u \in DOMAIN roots : roots[u] \in S) /\ Closed(panel, S, "kids") => InTree' \subseteq S
    BY <1>1, <2>3, <2>7, <2>8, KeepOutcome
  <2>10. InTree' \subseteq InTree
    BY <1>1, <1>5, <2>2, <2>9
  <2>11. InTree \subseteq InTree' \cup {n, p}
    <3>1. s \in InTree'
      BY <2>2, <2>9
    <3>2. Closed(panel, InTree' \cup {n, p}, "kids")
      BY <1>3, <2>9, <3>1 DEF Closed
    <3>. QED BY <1>1, <1>5, <2>1, <2>2, <2>9, <3>2
  <2>12. n \notin InTree'
    <3>1. \A u \in DOMAIN roots : roots[u] \in Rest
      BY <1>1, <1>2, <1>3, <1>4, <1>5, <2>2 DEF InSlots
    <3>2. Closed(panel, Rest, "kids")
      <4>. SUFFICES ASSUME NEW q \in Rest, panel[q].kind = "split", NEW k \in Range(panel[q].kids)
                    PROVE  k \in Rest
        BY DEF Closed
      <4>1. q \in Used(panel) /\ k \in InTree /\ k \in Node /\ Kid(panel, q, k)
        BY <1>1 DEF Closed, Kid
      <4>. QED BY <1>2, <1>4, <1>5, <2>2, <4>1
    <3>. QED BY <1>1, <2>9, <3>1, <3>2
  <2>13. Exchanged(panel, {}, n)
    BY <2>2, <2>3, <2>9, <2>10, <2>11 DEF Exchanged
  <2>. QED BY <1>5, <2>12, <2>13
<1>7. CASE \E g \in InTree : /\ panel[g].kind = "split" /\ p \in Range(panel[g].kids)
                             /\ Keep(Rewired(panel, g, p, s), root, slot)
  <2>1. PICK g \in InTree : /\ panel[g].kind = "split" /\ p \in Range(panel[g].kids)
                            /\ Keep(Rewired(panel, g, p, s), root, slot)
    BY <1>7
  <2>. DEFINE new == Rewired(panel, g, p, s)
  <2>2. Kid(panel, g, p) /\ g \in Used(panel) /\ g \in Node /\ g # p /\ ~Kid(panel, g, s)
    BY <1>1, <1>2, <1>4, <1>5, <2>1 DEF Kid
  <2>3. /\ WellMade(new)
        /\ \A q \in Node \ {g} : new[q] = panel[q]
        /\ new[g].kind = "split"
        /\ Range(new[g].kids) = (Range(panel[g].kids) \ {p}) \cup {s}
    <3>1. s \notin Range(panel[g].kids) \ {p}
      BY <2>1, <2>2 DEF Kid
    <3>. QED BY <1>1, <1>5, <2>1, <2>2, <3>1, RewiredProperties
  <2>. HIDE DEF new
  <2>4. \A q \in M : \A k : Kid(new, q, k) <=> IF q = g THEN k = s \/ (Kid(panel, g, k) /\ k # p)
                                               ELSE Kid(panel, q, k)
    BY <1>2, <2>1, <2>3 DEF Kid
  <2>5. \A q \in M : \A k : Kid(new, q, k) => k \in M
    BY <1>2, <1>5, <2>2, <2>4
  <2>6. \A q, r \in M : \A k \in Node : Kid(new, q, k) /\ Kid(new, r, k) => q = r
    BY <1>2, <1>4, <1>5, <2>2, <2>4
  <2>7. \A u \in DOMAIN slot : slot[u] \in M /\ \A q \in M : ~Kid(new, q, slot[u])
    BY <1>2, <1>4, <1>5, <2>2, <2>4
  <2>8. \A q \in M : new[q].kind # "free"
    BY <1>2, <2>3
  <2>9. Wired(M, new, slot)
    <3>1. Closed(new, M, "kids")
      BY <2>5 DEF Closed, Kid
    <3>. QED BY <1>2, <2>6, <2>7, <2>8, <3>1 DEF Wired
  <2>10. Keep(new, root, slot)
    BY <2>1 DEF new
  <2>11. /\ Forest(panel, slot)' /\ root' = root /\ slot' = slot
         /\ \A m \in InTree' : panel'[m] = new[m]
         /\ InTree' \in SUBSET Node /\ Closed(new, InTree', "kids")
         /\ \A u \in DOMAIN root : root[u] \in InTree'
         /\ \A S \in SUBSET Node :
              (\A u \in DOMAIN root : root[u] \in S) /\ Closed(new, S, "kids") => InTree' \subseteq S
    BY <2>3, <2>9, <2>10, KeepOutcome
  <2>12. InTree' \subseteq InTree
    <3>1. Closed(new, InTree, "kids")
      <4>. SUFFICES ASSUME NEW q \in InTree, new[q].kind = "split", NEW k \in Range(new[q].kids)
                    PROVE  k \in InTree
        BY DEF Closed
      <4>1. CASE q = g
        BY <1>1, <1>5, <2>1, <2>3, <4>1 DEF Closed
      <4>2. CASE q # g
        BY <1>1, <2>3, <4>2 DEF Closed
      <4>. QED BY <4>1, <4>2
    <3>. QED BY <1>1, <2>11, <3>1
  <2>13. InTree \subseteq old
    <3>1. Closed(panel, old, "kids")
      <4>. SUFFICES ASSUME NEW q \in old, panel[q].kind = "split", NEW k \in Range(panel[q].kids)
                    PROVE  k \in old
        BY DEF Closed
      <4>1. CASE q = p
        BY <1>3, <1>5, <2>11, <4>1
      <4>2. CASE q = g
        <5>1. g \in InTree' /\ s \in InTree'
          BY <2>2, <2>3, <2>11, <4>2 DEF Closed
        <5>2. k = p \/ k \in InTree'
          BY <2>3, <2>11, <4>2, <5>1 DEF Closed
        <5>. QED BY <5>1, <5>2
      <4>3. CASE q # p /\ q # g
        <5>1. q \in InTree' /\ new[q] = panel[q]
          BY <2>3, <2>11, <4>3
        <5>2. k \in InTree' /\ k # p
          BY <1>1, <1>2, <1>5, <2>2, <2>11, <2>12, <4>3, <5>1 DEF Closed, Kid
        <5>. QED BY <5>2
      <4>. QED BY <4>1, <4>2, <4>3
    <3>2. \A u \in DOMAIN root : root[u] \in old
      BY <2>7, <2>11 DEF InSlots
    <3>3. old \in SUBSET Node
      BY <1>5, <2>11
    <3>. QED BY <1>1, <3>1, <3>2, <3>3
  <2>14. \A m \in InTree' : /\ panel'[m].kind = panel[m].kind
                            /\ panel[m].kind # "split" => panel'[m] = panel[m]
    BY <1>1, <2>1, <2>2, <2>3, <2>11
  <2>15. \A m \in InTree \ InTree' : m = n \/ m = p
    BY <2>13
  <2>16. n \notin InTree'
    <3>1. \A u \in DOMAIN root : root[u] \in Rest
      BY <1>1, <1>2, <1>4, <1>5, <2>2 DEF InSlots
    <3>2. Closed(new, Rest, "kids")
      <4>. SUFFICES ASSUME NEW q \in Rest, new[q].kind = "split", NEW k \in Range(new[q].kids)
                    PROVE  k \in Rest
        BY DEF Closed
      <4>1. CASE q = g
        <5>1. k = s \/ (k \in InTree /\ k # p /\ Kid(panel, g, k))
          BY <1>1, <2>1, <2>3, <4>1 DEF Closed, Kid
        <5>2. k # n
          BY <1>2, <1>3, <1>4, <1>5, <2>2, <5>1
        <5>. QED BY <1>5, <5>1, <5>2
      <4>2. CASE q # g
        <5>1. q \in Used(panel) /\ k \in InTree /\ Kid(panel, q, k)
          BY <1>1, <2>3, <4>2 DEF Closed, Kid
        <5>. QED BY <1>2, <1>4, <1>5, <2>2, <4>2, <5>1
      <4>. QED BY <4>1, <4>2
    <3>. QED BY <1>1, <2>11, <3>1, <3>2
  <2>17. Exchanged(panel, {}, n)
    BY <2>11, <2>12, <2>14, <2>15 DEF Exchanged
  <2>. QED BY <1>5, <2>16, <2>17
<1>8. CASE /\ Keep(panel, root, slot)
           /\ \A t \in DOMAIN root : root[t] # p
           /\ \A g \in InTree : ~Kid(panel, g, p)
  BY <1>8, HasPlace
<1>. QED BY <1>6, <1>7, <1>8, ReplaceCases

-----------------------------------------------------------------------------
(* What a step may do to the panels that wait for a chart: leave a new one   *)
(* waiting.                                                                *)
WaitStep ==
  \A n \in Waiting' :
    /\ lists' = lists
    /\ n \in Waiting \/ (panel[n].kind = "free" /\ nextTab' = nextTab)

GoodStep == IInv' /\ WaitStep

(* The bar without one of its tabs (tab_bar.cpp:77-97).                     *)
LEMMA RemoveTabOutcome ==
  ASSUME Tabs, NEW id \in Range(tabs), Len(tabs) > 1, RemoveTab(id)
  PROVE  /\ tabs' \in Seq(0 .. nextTab - 1) /\ Len(tabs') = Len(tabs) - 1
         /\ \A i, j \in 1 .. Len(tabs') : tabs'[i] = tabs'[j] => i = j
         /\ Range(tabs') = Range(tabs) \ {id}
         /\ pages' = tabs'
         /\ active' \in 0 .. Len(tabs') - 1 /\ page' = active' + 1
<1>. DEFINE T == 0 .. nextTab - 1
            k == CHOOSE x \in 1 .. Len(tabs) : tabs[x] = id
<1>1. /\ tabs \in Seq(T) /\ nextTab \in Nat
      /\ \A i, j \in 1 .. Len(tabs) : tabs[i] = tabs[j] => i = j
      /\ pages = tabs /\ active \in 0 .. Len(tabs) - 1 /\ page = active + 1
  BY DEF Tabs
<1>. HIDE DEF T
<1>2. Len(tabs) \in Nat /\ DOMAIN tabs = 1 .. Len(tabs)
  BY <1>1, LenProperties
<1>3. k \in 1 .. Len(tabs) /\ tabs[k] = id
  BY <1>2 DEF Range
<1>4. /\ tabs' = RemoveAt(tabs, k) /\ pages' = RemoveAt(tabs, k)
      /\ active' = IF active >= Len(tabs) - 1 /\ active > 0 THEN Len(tabs) - 2 ELSE active
      /\ page' = IF Len(tabs) = 1 THEN 0 ELSE active' + 1
  BY <1>1 DEF RemoveTab
<1>. HIDE DEF k
<1>5. /\ tabs' \in Seq(T)
      /\ Len(tabs') = Len(tabs) - 1
      /\ \A i \in 1 .. Len(tabs) - 1 : tabs'[i] = IF i < k THEN tabs[i] ELSE tabs[i + 1]
  BY <1>1, <1>3, <1>4, RemoveAtProperties
<1>6. DOMAIN tabs' = 1 .. Len(tabs) - 1
  BY <1>5, LenProperties
<1>7. ASSUME NEW i \in 1 .. Len(tabs'), NEW j \in 1 .. Len(tabs'), tabs'[i] = tabs'[j] PROVE i = j
  <2>1. PICK a \in 1 .. Len(tabs) : tabs'[i] = tabs[a] /\ a = IF i < k THEN i ELSE i + 1
    BY <1>2, <1>3, <1>5
  <2>2. PICK b \in 1 .. Len(tabs) : tabs'[j] = tabs[b] /\ b = IF j < k THEN j ELSE j + 1
    BY <1>2, <1>3, <1>5
  <2>3. a = b
    BY <1>1, <1>7, <2>1, <2>2
  <2>. QED BY <1>2, <1>3, <1>5, <2>1, <2>2, <2>3
<1>8. Range(tabs') = Range(tabs) \ {id}
  <2>1. ASSUME NEW x \in Range(tabs') PROVE x \in Range(tabs) \ {id}
    <3>1. PICK i \in 1 .. Len(tabs) - 1 : x = tabs'[i]
      BY <1>6 DEF Range
    <3>2. PICK a \in 1 .. Len(tabs) : x = tabs[a] /\ a # k
      BY <1>2, <1>3, <1>5, <3>1
    <3>. QED BY <1>1, <1>2, <1>3, <3>2 DEF Range
  <2>2. ASSUME NEW x \in Range(tabs) \ {id} PROVE x \in Range(tabs')
    <3>1. PICK a \in 1 .. Len(tabs) : x = tabs[a]
      BY <1>2 DEF Range
    <3>2. a # k
      BY <1>3, <2>2, <3>1
    <3>3. \E i \in 1 .. Len(tabs) - 1 : tabs'[i] = tabs[a]
      <4>1. CASE a < k
        BY <1>2, <1>3, <1>5, <4>1
      <4>2. CASE a > k
        <5>1. a - 1 \in 1 .. Len(tabs) - 1 /\ ~(a - 1 < k) /\ (a - 1) + 1 = a
          BY <1>2, <1>3, <4>2
        <5>. QED BY <1>5, <5>1
      <4>. QED BY <1>2, <1>3, <3>2, <4>1, <4>2
    <3>. QED BY <1>6, <3>1, <3>3 DEF Range
  <2>. QED BY <2>1, <2>2
<1>9. active' \in 0 .. Len(tabs') - 1 /\ page' = active' + 1
  BY <1>1, <1>2, <1>4, <1>5
<1>. QED BY <1>4, <1>5, <1>7, <1>8, <1>9 DEF T

(* A new leaf is well made, and its menu is the current list.               *)
LEMMA LeafProperties ==
  ASSUME symbols \subseteq Symbol, NEW kind \in LeafKind
  PROVE  /\ Leaf(kind).kind = kind
         /\ kind = "instrument" =>
              /\ Leaf(kind) \in InstrumentPanel
              /\ Leaf(kind).menu = symbols /\ Leaf(kind).chart = None
BY DEF Leaf, LeafKind, InstrumentPanel

(* An exchange within a tab is a good step.                                 *)
LEMMA ExchangeStep ==
  ASSUME IInv, NEW nodes, NEW F \in SUBSET Node, NEW n \in Node, Exchanged(nodes, F, n), Unmoved,
         F \cap Used(panel) = {},
         \A m \in F : nodes[m].kind = "instrument" => nodes[m].menu = symbols
  PROVE  GoodStep
<1>1. InSlots(root, slot)
  BY DEF IInv, Tabs, InSlots
<1>2. InTree \in SUBSET Node /\ InTree \subseteq Used(panel)
  BY <1>1, InTreeProperties DEF IInv
<1>3. \A m \in InTree' : m \in F \/ (m \in InTree /\ m \notin F)
  BY DEF Exchanged
<1>4. Tabs'
  BY DEF IInv, Tabs, Unmoved, Exchanged, InSlots
<1>5. MenusAreCurrent'
  <2>1. symbols' = symbols
    BY DEF Unmoved
  <2>. SUFFICES ASSUME NEW m \in InTree', panel'[m].kind = "instrument"
                PROVE  panel'[m].menu = symbols
    BY <2>1 DEF MenusAreCurrent
  <2>2. CASE m \in F
    BY <2>2 DEF Exchanged
  <2>3. CASE m \in InTree /\ m \notin F
    <3>1. panel[m].kind = "instrument" /\ panel'[m] = panel[m]
      BY <2>3 DEF Exchanged
    <3>. QED BY <2>3, <3>1 DEF IInv, MenusAreCurrent
  <2>. QED BY <1>3, <2>2, <2>3
<1>6. IInv'
  BY <1>4, <1>5 DEF IInv, Exchanged, Unmoved
<1>7. WaitStep
  <2>. SUFFICES ASSUME NEW m \in Waiting' PROVE m \in Waiting \/ panel[m].kind = "free"
    BY DEF WaitStep, Unmoved
  <2>1. m \in InTree' /\ panel'[m].kind = "instrument" /\ panel'[m].chart = None /\ symbols # {}
    BY DEF Waiting, Unmoved
  <2>2. CASE m \in F
    BY <2>2 DEF Used
  <2>3. CASE m \in InTree /\ m \notin F
    <3>1. panel[m].kind = "instrument" /\ panel'[m] = panel[m]
      BY <2>1, <2>3 DEF Exchanged
    <3>. QED BY <2>1, <2>3, <3>1 DEF Waiting
  <2>. QED BY <1>3, <2>1, <2>2, <2>3
<1>. QED BY <1>6, <1>7 DEF GoodStep

(* An exchange takes no leaf but the panel n, and that one unless it is put  *)
(* back.                                                                   *)
LEMMA ExchangeGone ==
  ASSUME IInv, NEW nodes, NEW F \in SUBSET Node, NEW n \in Node, Exchanged(nodes, F, n),
         F \cap Used(panel) = {}, panel[n].kind \in LeafKind
  PROVE  /\ n \in InTree /\ n \notin InTree' => Gone = {n}
         /\ (n \in InTree => n \in InTree') => Gone = {}
<1>1. InTree \in SUBSET Node /\ InTree \subseteq Used(panel)
  BY InTreeProperties DEF IInv, Tabs, InSlots
<1>2. LeavesInTree = {m \in InTree : panel[m].kind \in LeafKind}
  BY DEF LeavesInTree, LeavesOf
<1>3. LeavesInTree' = {m \in InTree' : panel'[m].kind \in LeafKind}
  BY DEF LeavesInTree, LeavesOf
<1>4. ASSUME NEW m \in LeavesInTree, m \in InTree' PROVE m \in LeavesInTree'
  <2>1. m \in InTree /\ panel[m].kind \in LeafKind /\ m \notin F
    BY <1>1, <1>2
  <2>2. panel'[m].kind = panel[m].kind
    BY <1>4, <2>1 DEF Exchanged
  <2>. QED BY <1>3, <1>4, <2>1, <2>2
<1>5. \A m \in LeavesInTree : m \in InTree' \/ m = n
  BY <1>2 DEF Exchanged, LeafKind
<1>6. n \in InTree => n \in LeavesInTree
  BY <1>2
<1>7. n \notin InTree' => n \notin LeavesInTree'
  BY <1>3
<1>8. Gone = LeavesInTree \ LeavesInTree'
  BY DEF Gone
<1>9. ASSUME n \in InTree, n \notin InTree' PROVE Gone = {n}
  BY <1>4, <1>5, <1>6, <1>7, <1>8, <1>9
<1>10. ASSUME n \in InTree => n \in InTree' PROVE Gone = {}
  <2>1. \A m \in LeavesInTree : m \in InTree
    BY <1>2
  <2>. QED BY <1>4, <1>5, <1>8, <1>10, <2>1
<1>. QED BY <1>9, <1>10

(* What the steps need of the invariant.                                   *)
LEMMA StateFacts ==
  ASSUME IInv
  PROVE  /\ InSlots(root, slot) /\ Forest(panel, slot) /\ WellMade(panel)
         /\ Wired(Used(panel), panel, slot)
         /\ InTree \in SUBSET Node /\ InTree \subseteq Used(panel)
         /\ FreeNodes = Node \ Used(panel)
         /\ FreeNodes # {} => MakeNode \in FreeNodes
         /\ \A n \in Node : panel[n].kind # "free" => n \in Used(panel)
<1>1. InSlots(root, slot) /\ Forest(panel, slot)
  BY DEF IInv, Tabs, InSlots
<1>2. FreeNodes = Node \ Used(panel)
  BY DEF FreeNodes, Used
<1>3. FreeNodes # {} => MakeNode \in FreeNodes
  BY DEF MakeNode
<1>. QED BY <1>1, <1>2, <1>3, InTreeProperties DEF Used

(* A new leaf in place of the panel n is a good step.                       *)
LEMMA NewLeafStep ==
  ASSUME IInv, NEW n \in Node, NEW kind \in LeafKind, panel[n].kind \notin {"free", "split"},
         FreeNodes # {}, ReplaceNode([panel EXCEPT ![MakeNode] = Leaf(kind)], n, MakeNode), Unmoved
  PROVE  GoodStep /\ (n \in InTree => Gone = {n})
<1>. DEFINE new == MakeNode
            nodes == [panel EXCEPT ![new] = Leaf(kind)]
<1>1. /\ InSlots(root, slot) /\ Forest(panel, slot) /\ WellMade(panel)
      /\ new \in Node \ Used(panel) /\ n \in Used(panel)
  BY StateFacts
<1>2. /\ Leaf(kind).kind = kind
      /\ kind = "instrument" =>
           Leaf(kind) \in InstrumentPanel /\ Leaf(kind).menu = symbols /\ Leaf(kind).chart = None
  BY LeafProperties DEF IInv
<1>. HIDE DEF new
<1>3. /\ nodes = [p \in Node |-> nodes[p]]
      /\ nodes[new] = Leaf(kind)
      /\ \A p \in Node \ {new} : nodes[p] = panel[p]
  BY <1>1 DEF WellMade
<1>4. ReplaceNode(nodes, n, new)
  BY DEF new
<1>. HIDE DEF nodes
<1>5. WellMade(nodes)
  BY <1>1, <1>2, <1>3 DEF WellMade, LeafKind
<1>6. \A p \in {new} : nodes[p].kind # "free" /\ nodes[p].kind # "split"
  BY <1>2, <1>3 DEF LeafKind
<1>7. Exchanged(nodes, {new}, n) /\ (n \in InTree => n \notin InTree')
  <2>1. {new} \in SUBSET Node /\ new \in {new} /\ {new} \cap Used(panel) = {} /\ panel[n].kind # "split"
    BY <1>1
  <2>2. \A p \in {new} : \A k \in Node : ~Kid(nodes, p, k)
    BY <1>6 DEF Kid
  <2>. QED BY <1>1, <1>3, <1>4, <1>5, <1>6, <2>1, <2>2, FreshOutcome
<1>8. \A m \in {new} : nodes[m].kind = "instrument" => nodes[m].menu = symbols
  BY <1>2, <1>3
<1>9. {new} \in SUBSET Node /\ {new} \cap Used(panel) = {}
  BY <1>1
<1>10. panel[n].kind \in LeafKind
  BY <1>1 DEF WellMade
<1>11. GoodStep
  BY <1>7, <1>8, <1>9, ExchangeStep
<1>. QED BY <1>7, <1>9, <1>10, <1>11, ExchangeGone

LEMMA ChangeTypeStep ==
  ASSUME IInv, NEW n \in Node, NEW kind \in Choice, HandleChangeType(n, kind)
  PROVE  GoodStep /\ Gone = {n}
<1>1. panel[n].kind = "empty" /\ n \in InTree /\ kind \in LeafKind
  BY DEF HandleChangeType, Handles, Choice, LeafKind
<1>. QED BY <1>1, NewLeafStep DEF HandleChangeType

(* A split with the panel and a new leaf in place of the panel.             *)
LEMMA SplitStep ==
  ASSUME IInv, NEW n \in Node, NEW kind \in Choice, HandleSplit(n, kind)
  PROVE  GoodStep /\ Gone = {}
<1>. DEFINE new == MakeNode
            split == CHOOSE m \in FreeNodes \ {new} : TRUE
            nodes == [panel EXCEPT ![new] = Leaf(kind), ![split] = SplitNode(n, new)]
            F == {new, split}
<1>1. /\ InSlots(root, slot) /\ Forest(panel, slot) /\ WellMade(panel) /\ FreeNodes = Node \ Used(panel)
      /\ FreeNodes # {} => new \in FreeNodes
      /\ panel[n].kind \in {"plain", "instrument"} /\ n \in Used(panel)
  BY StateFacts DEF HandleSplit, Handles
<1>2. FreeNodes # {} /\ FreeNodes # {new}
  <2>1. Cardinality(FreeNodes) > 1
    BY DEF HandleSplit
  <2>2. Cardinality({}) = 0 /\ Cardinality({new}) = 1
    BY FS_EmptySet, FS_Singleton
  <2>. QED BY <2>1, <2>2
<1>3. new \in FreeNodes /\ FreeNodes \ {new} # {}
  BY <1>1, <1>2
<1>4. split \in FreeNodes \ {new}
  <2>. HIDE DEF new
  <2>. QED BY <1>3
<1>5. ReplaceNode(nodes, n, split) /\ Unmoved
  BY DEF HandleSplit
<1>6. /\ kind \in LeafKind /\ Leaf(kind).kind = kind
      /\ kind = "instrument" =>
           Leaf(kind) \in InstrumentPanel /\ Leaf(kind).menu = symbols /\ Leaf(kind).chart = None
  <2>1. kind \in LeafKind /\ symbols \subseteq Symbol
    BY DEF Choice, LeafKind, IInv
  <2>. QED BY <2>1, LeafProperties
<1>. HIDE DEF new, split
<1>7. /\ new \in Node /\ split \in Node /\ new # split /\ n \in Node /\ n # new /\ n # split
      /\ F \cap Used(panel) = {}
  BY <1>1, <1>3, <1>4
<1>8. /\ nodes = [p \in Node |-> nodes[p]]
      /\ nodes[new] = Leaf(kind) /\ nodes[split] = SplitNode(n, new)
      /\ \A p \in Node \ F : nodes[p] = panel[p]
  BY <1>1, <1>7 DEF WellMade
<1>. HIDE DEF nodes
<1>9. /\ SplitNode(n, new) \in SplitPanel /\ SplitNode(n, new).kind = "split"
      /\ Range(SplitNode(n, new).kids) = {n, new}
  <2>1. /\ <<n, new>> \in [1..2 -> Node] /\ <<n, new>>[1] = n /\ <<n, new>>[2] = new
    BY <1>7
  <2>2. Range(<<n, new>>) = {n, new}
    BY <2>1 DEF Range
  <2>. QED BY <1>7, <2>1, <2>2 DEF SplitNode, SplitPanel
<1>10. WellMade(nodes)
  BY <1>1, <1>6, <1>7, <1>8, <1>9 DEF WellMade, LeafKind
<1>11. \A p \in F : nodes[p].kind # "free" /\ (\A k \in Node : Kid(nodes, p, k) <=> p = split /\ k \in {n, new})
  BY <1>6, <1>7, <1>8, <1>9 DEF Kid, LeafKind
<1>12. Exchanged(nodes, F, n) /\ (n \in InTree => n \in InTree')
  <2>1. F \in SUBSET Node /\ split \in F /\ panel[n].kind # "split"
    BY <1>1, <1>7
  <2>2. \A p \in F : \A k \in Node : Kid(nodes, p, k) => k \in (F \cup {n}) \ {split}
    BY <1>7, <1>11
  <2>3. \A p, q \in F : \A k \in Node : Kid(nodes, p, k) /\ Kid(nodes, q, k) => p = q
    BY <1>11
  <2>4. Kid(nodes, split, n)
    BY <1>7, <1>11
  <2>. HIDE DEF F
  <2>5. \A p \in F : nodes[p].kind # "free"
    BY <1>11
  <2>6. /\ Exchanged(nodes, F, n)
        /\ n \in InTree => \A k \in Node : Kid(nodes, split, k) => k \in InTree'
    BY <1>1, <1>5, <1>7, <1>8, <1>10, <2>1, <2>2, <2>3, <2>5, FreshOutcome
  <2>. QED BY <2>4, <2>6
<1>13. \A m \in F : nodes[m].kind = "instrument" => nodes[m].menu = symbols
  BY <1>6, <1>8, <1>9
<1>14. F \in SUBSET Node /\ panel[n].kind \in LeafKind
  BY <1>1, <1>7 DEF LeafKind
<1>. HIDE DEF F
<1>15. GoodStep
  BY <1>5, <1>7, <1>12, <1>13, <1>14, ExchangeStep
<1>. QED BY <1>7, <1>12, <1>14, <1>15, ExchangeGone

LEMMA CloseStep ==
  ASSUME IInv, NEW n \in Node, HandleClose(n)
  PROVE  GoodStep /\ Gone = {n}
<1>1. InSlots(root, slot) /\ Forest(panel, slot)
  BY StateFacts
<1>2. PICK p \in InTree : /\ panel[p].kind = "split" /\ n \in Range(panel[p].kids)
                          /\ \E s \in Range(panel[p].kids) \ {n} : ReplaceNode(panel, p, s)
  BY DEF HandleClose
<1>3. panel[n].kind # "split" /\ panel[n].kind \in LeafKind /\ Unmoved
  BY DEF HandleClose, Handles, LeafKind
<1>4. Exchanged(panel, {}, n) /\ n \in InTree /\ n \notin InTree'
  BY <1>1, <1>2, <1>3, SiblingOutcome
<1>5. {} \in SUBSET Node /\ {} \cap Used(panel) = {}
  OBVIOUS
<1>6. \A m \in {} : panel[m].kind = "instrument" => panel[m].menu = symbols
  OBVIOUS
<1>7. GoodStep
  BY <1>3, <1>4, <1>5, <1>6, ExchangeStep
<1>. QED BY <1>3, <1>4, <1>5, <1>7, ExchangeGone

(* Fewer trees over the same nodes.                                        *)
LEMMA FewerTrees ==
  ASSUME IInv, NEW roots, NEW slots, DOMAIN roots \subseteq DOMAIN root, DOMAIN slots \subseteq DOMAIN slot,
         \A t \in DOMAIN roots : roots[t] = root[t], \A t \in DOMAIN slots : slots[t] = slot[t],
         DOMAIN roots \subseteq DOMAIN slots, Keep(panel, roots, slots), symbols' = symbols, lists' = lists
  PROVE  /\ Forest(panel, slot)' /\ root' = roots /\ slot' = slots
         /\ InTree' \subseteq InTree /\ MenusAreCurrent' /\ WaitStep
         /\ InTree' = TreesOf(panel, roots)
         /\ \A n \in InTree' : panel'[n] = panel[n]
<1>1. /\ InSlots(root, slot) /\ WellMade(panel) /\ Wired(Used(panel), panel, slot)
  BY StateFacts
<1>2. InSlots(roots, slots)
  BY <1>1 DEF InSlots
<1>3. Wired(Used(panel), panel, slots)
  BY <1>1 DEF Wired
<1>4. /\ Forest(panel, slot)' /\ root' = roots /\ slot' = slots
      /\ InTree' = TreesOf(panel, roots)
      /\ \A n \in InTree' : panel'[n] = panel[n]
  BY <1>1, <1>2, <1>3, KeepOutcome
<1>5. InTree' \subseteq InTree
  BY <1>4 DEF TreesOf, InTree
<1>6. MenusAreCurrent'
  BY <1>4, <1>5 DEF MenusAreCurrent, IInv
<1>7. WaitStep
  <2>. SUFFICES ASSUME NEW m \in Waiting' PROVE m \in Waiting
    BY DEF WaitStep
  <2>1. m \in InTree' /\ panel'[m].kind = "instrument" /\ panel'[m].chart = None /\ symbols # {}
    BY DEF Waiting
  <2>2. m \in InTree /\ panel'[m] = panel[m]
    BY <1>4, <1>5, <2>1
  <2>. QED BY <2>1, <2>2 DEF Waiting
<1>. QED BY <1>4, <1>5, <1>6, <1>7

(* The leaves of a tree go with its root.                                   *)
LEMMA TreeGone ==
  ASSUME IInv, NEW id, NEW roots, DOMAIN roots = DOMAIN root \ {id},
         \A t \in DOMAIN roots : roots[t] = root[t], InTree' = TreesOf(panel, roots),
         \A n \in InTree' : panel'[n] = panel[n]
  PROVE  Gone = UNION {LeavesOf(Tree(panel, root[t])) : t \in DOMAIN root \cap {id}}
<1>1. /\ InSlots(root, slot) /\ WellMade(panel) /\ Wired(Used(panel), panel, slot)
  BY StateFacts
<1>2. \A t, u \in DOMAIN root : t # u => Tree(panel, root[t]) \cap Tree(panel, root[u]) = {}
  BY <1>1, TreesApart DEF InSlots
<1>3. \A n : n \in InTree' <=> \E t \in DOMAIN root \ {id} : n \in Tree(panel, root[t])
  BY DEF TreesOf
<1>4. \A n : n \in InTree <=> \E t \in DOMAIN root : n \in Tree(panel, root[t])
  BY DEF InTree
<1>5. \A n : n \in LeavesInTree <=> n \in InTree /\ panel[n].kind \in LeafKind
  BY DEF LeavesInTree, LeavesOf
<1>6. \A n : n \in LeavesInTree' <=> n \in InTree' /\ panel[n].kind \in LeafKind
  BY DEF LeavesInTree, LeavesOf
<1>7. \A n : n \in InTree /\ n \notin InTree' <=> \E t \in DOMAIN root \cap {id} : n \in Tree(panel, root[t])
  BY <1>2, <1>3, <1>4
<1>8. \A n : n \in Gone <=> n \in InTree /\ n \notin InTree' /\ panel[n].kind \in LeafKind
  BY <1>5, <1>6 DEF Gone
<1>9. \A n : n \in Gone <=> \E t \in DOMAIN root \cap {id} :
                               n \in Tree(panel, root[t]) /\ panel[n].kind \in LeafKind
  BY <1>7, <1>8
<1>. QED BY <1>9 DEF LeavesOf

(* A tab goes with its tree.                                               *)
LEMMA RemoveTabStep ==
  ASSUME IInv, NEW id \in Range(tabs), Len(tabs) > 1, RemoveTab(id),
         Keep(panel, Without(root, id), Without(slot, id)), UNCHANGED <<nextTab, symbols, lists, misread>>
  PROVE  /\ GoodStep
         /\ Gone = UNION {LeavesOf(Tree(panel, root[t])) : t \in DOMAIN root \cap {id}}
<1>. DEFINE roots == Without(root, id)
            slots == Without(slot, id)
<1>1. Tabs
  BY DEF IInv
<1>2. /\ tabs' \in Seq(0 .. nextTab - 1) /\ Len(tabs') = Len(tabs) - 1
      /\ \A i, j \in 1 .. Len(tabs') : tabs'[i] = tabs'[j] => i = j
      /\ Range(tabs') = Range(tabs) \ {id}
      /\ pages' = tabs'
      /\ active' \in 0 .. Len(tabs') - 1 /\ page' = active' + 1
  BY <1>1, RemoveTabOutcome
<1>3. /\ DOMAIN slot = Range(tabs) /\ DOMAIN root \subseteq DOMAIN slot
      /\ \A t \in DOMAIN root : root[t] = slot[t]
      /\ misread \/ DOMAIN root = Range(tabs)
      /\ nextTab \in Nat /\ Len(tabs) \in Nat
  BY <1>1, LenProperties DEF Tabs
<1>4. /\ DOMAIN roots = DOMAIN root \ {id} /\ \A t \in DOMAIN roots : roots[t] = root[t]
      /\ DOMAIN slots = DOMAIN slot \ {id} /\ \A t \in DOMAIN slots : slots[t] = slot[t]
      /\ Keep(panel, roots, slots)
  BY DEF Without
<1>. HIDE DEF roots, slots
<1>5. DOMAIN roots \subseteq DOMAIN slots /\ DOMAIN roots \subseteq DOMAIN root /\ DOMAIN slots \subseteq DOMAIN slot
  BY <1>3, <1>4
<1>6. /\ Forest(panel, slot)' /\ root' = roots /\ slot' = slots /\ MenusAreCurrent' /\ WaitStep
      /\ InTree' = TreesOf(panel, roots) /\ \A n \in InTree' : panel'[n] = panel[n]
  BY <1>4, <1>5, FewerTrees
<1>7. tabs' # <<>>
  <2>1. Len(tabs') > 0
    BY <1>2, <1>3
  <2>. QED BY <2>1
<1>8. Tabs'
  BY <1>2, <1>3, <1>4, <1>6, <1>7 DEF Tabs
<1>9. IInv'
  BY <1>6, <1>8 DEF IInv
<1>. QED BY <1>4, <1>6, <1>9, TreeGone DEF GoodStep

LEMMA CloseTabStep ==
  ASSUME IInv, NEW id, CloseTab(id)
  PROVE  /\ GoodStep
         /\ Gone = UNION {LeavesOf(Tree(panel, root[t])) : t \in DOMAIN root \cap {id}}
BY RemoveTabStep DEF CloseTab

(* The only panel of a tab is closed: with its tab, in spite of it when the *)
(* erased id is misread, or for an empty panel in the last tab.             *)
LEMMA CloseRootStep ==
  ASSUME IInv, NEW n \in Node, HandleCloseRoot(n)
  PROVE  GoodStep /\ Gone = {n}
<1>1. PICK t \in DOMAIN root :
       /\ root[t] = n
       /\ \/ /\ Len(tabs) > 1
             /\ \/ RemoveTab(t) /\ Keep(panel, Without(root, t), Without(slot, t)) /\ UNCHANGED misread
                \/ /\ Keep(panel, Without(root, t), slot)
                   /\ misread' = TRUE
                   /\ UNCHANGED <<tabs, active, pages, page>>
             /\ UNCHANGED <<nextTab, symbols, lists>>
          \/ /\ Len(tabs) = 1
             /\ FreeNodes # {}
             /\ ReplaceNode([panel EXCEPT ![MakeNode] = Leaf("empty")], n, MakeNode)
             /\ Unmoved
  BY DEF HandleCloseRoot
<1>2. panel[n].kind \in {"plain", "instrument"}
  BY DEF HandleCloseRoot, Handles
<1>3. t \in Range(tabs) /\ n \in InTree
  BY <1>1, StateFacts, InTreeProperties DEF IInv, Tabs
<1>4. UNION {LeavesOf(Tree(panel, root[u])) : u \in DOMAIN root \cap {t}} = {n}
  <2>1. Tree(panel, n) = {n}
    <3>1. WellMade(panel) /\ n \in Node
      BY StateFacts
    <3>2. Closed(panel, {n}, "kids")
      BY <1>2 DEF Closed
    <3>. QED BY <3>1, <3>2, TreeProperties
  <2>2. LeavesOf({n}) = {n}
    BY <1>2 DEF LeavesOf, LeafKind
  <2>3. DOMAIN root \cap {t} = {t}
    OBVIOUS
  <2>. QED BY <1>1, <2>1, <2>2, <2>3
<1>5. CASE /\ Len(tabs) > 1 /\ RemoveTab(t) /\ Keep(panel, Without(root, t), Without(slot, t))
           /\ UNCHANGED misread /\ UNCHANGED <<nextTab, symbols, lists>>
  BY <1>3, <1>5, <1>4, RemoveTabStep
<1>6. CASE /\ Keep(panel, Without(root, t), slot) /\ misread' = TRUE
           /\ UNCHANGED <<tabs, active, pages, page>> /\ UNCHANGED <<nextTab, symbols, lists>>
  <2>. DEFINE roots == Without(root, t)
  <2>1. DOMAIN roots = DOMAIN root \ {t} /\ (\A u \in DOMAIN roots : roots[u] = root[u])
        /\ Keep(panel, roots, slot)
    BY <1>6 DEF Without
  <2>. HIDE DEF roots
  <2>2. DOMAIN roots \subseteq DOMAIN root /\ DOMAIN roots \subseteq DOMAIN slot
    BY <2>1 DEF IInv, Tabs
  <2>3. /\ Forest(panel, slot)' /\ root' = roots /\ slot' = slot /\ MenusAreCurrent' /\ WaitStep
        /\ InTree' = TreesOf(panel, roots) /\ \A m \in InTree' : panel'[m] = panel[m]
    BY <1>6, <2>1, <2>2, FewerTrees
  <2>4. Tabs'
    BY <1>6, <2>1, <2>2, <2>3 DEF IInv, Tabs
  <2>5. IInv'
    BY <1>6, <2>3, <2>4 DEF IInv
  <2>6. Gone = {n}
    BY <1>4, <2>1, <2>3, TreeGone
  <2>. QED BY <2>3, <2>5, <2>6 DEF GoodStep
<1>7. CASE /\ FreeNodes # {} /\ Unmoved
           /\ ReplaceNode([panel EXCEPT ![MakeNode] = Leaf("empty")], n, MakeNode)
  <2>1. "empty" \in LeafKind /\ panel[n].kind \notin {"free", "split"}
    BY <1>2 DEF LeafKind
  <2>. QED BY <1>3, <1>7, <2>1, NewLeafStep
<1>. QED BY <1>1, <1>5, <1>6, <1>7

(* A tab comes with a panel, whose chart is there when the list is.         *)
LEMMA NewTabStep ==
  ASSUME IInv, NEW kind \in Choice, NewTab(kind)
  PROVE  GoodStep
<1>. DEFINE new == MakeNode
            roots == With(root, nextTab, new)
            slots == With(slot, nextTab, new)
            M == Used(panel) \cup {new}
<1>1. /\ InSlots(root, slot) /\ WellMade(panel) /\ Wired(Used(panel), panel, slot)
      /\ InTree \in SUBSET Node /\ InTree \subseteq Used(panel)
      /\ new \in Node \ Used(panel)
  BY StateFacts DEF NewTab
<1>2. /\ kind \in LeafKind /\ Leaf(kind).kind = kind
      /\ kind = "instrument" =>
           Leaf(kind) \in InstrumentPanel /\ Leaf(kind).menu = symbols /\ Leaf(kind).chart = None
  <2>1. kind \in LeafKind /\ symbols \subseteq Symbol
    BY DEF Choice, LeafKind, IInv
  <2>. QED BY <2>1, LeafProperties
<1>3. PICK leaf \in IF kind = "instrument" /\ symbols # {}
                    THEN {[Leaf(kind) EXCEPT !.chart = s] : s \in DefaultSymbols}
                    ELSE {Leaf(kind)} :
            Keep([panel EXCEPT ![new] = leaf], roots, slots)
  BY DEF NewTab
<1>4. AddTab /\ symbols' = symbols /\ lists' = lists /\ misread' = misread
  BY DEF NewTab
<1>5. /\ leaf.kind = kind
      /\ kind = "instrument" =>
           /\ leaf \in InstrumentPanel /\ leaf.menu = symbols /\ leaf.chart \in symbols \cup {None}
           /\ symbols # {} => leaf.chart # None
  <2>1. CASE kind = "instrument" /\ symbols # {}
    <3>1. PICK s \in DefaultSymbols : leaf = [Leaf(kind) EXCEPT !.chart = s]
      BY <1>3, <2>1
    <3>2. s \in symbols /\ s \in Symbol /\ s # None
      BY WindowAssumption DEF DefaultSymbols, IInv
    <3>. QED BY <1>2, <2>1, <3>1, <3>2 DEF InstrumentPanel
  <2>2. CASE ~(kind = "instrument" /\ symbols # {})
    <3>1. leaf = Leaf(kind)
      BY <1>3, <2>2
    <3>. QED BY <1>2, <2>2, <3>1
  <2>. QED BY <2>1, <2>2
<1>. DEFINE nodes == [panel EXCEPT ![new] = leaf]
<1>6. Keep(nodes, roots, slots)
  BY <1>3
<1>. HIDE DEF new
<1>7. /\ nodes = [p \in Node |-> nodes[p]]
      /\ nodes[new] = leaf
      /\ \A p \in Node \ {new} : nodes[p] = panel[p]
  BY <1>1 DEF WellMade
<1>. HIDE DEF nodes
<1>8. Tabs /\ nextTab \in Nat /\ tabs \in Seq(0 .. nextTab - 1) /\ Len(tabs) \in Nat
      /\ DOMAIN tabs = 1 .. Len(tabs)
  BY LenProperties DEF IInv, Tabs
<1>9. nextTab \notin Range(tabs)
  <2>1. \A i \in 1 .. Len(tabs) : tabs[i] \in 0 .. nextTab - 1
    BY <1>8, ElementOfSeq
  <2>. QED BY <1>8, <2>1 DEF Range
<1>10. /\ DOMAIN roots = DOMAIN root \cup {nextTab} /\ DOMAIN slots = DOMAIN slot \cup {nextTab}
       /\ nextTab \notin DOMAIN root /\ nextTab \notin DOMAIN slot
       /\ \A u \in DOMAIN roots : roots[u] = IF u = nextTab THEN new ELSE root[u]
       /\ \A u \in DOMAIN slots : slots[u] = IF u = nextTab THEN new ELSE slot[u]
  BY <1>8, <1>9 DEF With, Tabs
<1>. HIDE DEF roots, slots
<1>11. InSlots(roots, slots)
  BY <1>1, <1>10 DEF InSlots
<1>12. WellMade(nodes)
  BY <1>1, <1>2, <1>5, <1>7 DEF WellMade, LeafKind
<1>13. Wired(M, nodes, slots)
  <2>1. /\ Used(panel) \subseteq Node
        /\ \A q \in Used(panel) : panel[q].kind # "free"
        /\ \A t \in DOMAIN slot : slot[t] \in Used(panel)
        /\ \A q \in Used(panel) : \A k : Kid(panel, q, k) => k \in Used(panel)
        /\ \A q, r \in Used(panel) : \A k \in Node : Kid(panel, q, k) /\ Kid(panel, r, k) => q = r
        /\ \A t \in DOMAIN slot : \A q \in Used(panel) : ~Kid(panel, q, slot[t])
        /\ \A t, u \in DOMAIN slot : slot[t] = slot[u] => t = u
    BY <1>1 DEF Wired, Closed, Kid
  <2>2. nodes[new].kind = kind /\ kind \notin {"free", "split"}
    BY <1>2, <1>5, <1>7 DEF LeafKind
  <2>3. \A q \in M : \A k : Kid(nodes, q, k) <=> q \in Used(panel) /\ Kid(panel, q, k)
    BY <1>1, <1>7, <2>1, <2>2 DEF Kid
  <2>4. Closed(nodes, M, "kids")
    BY <2>1, <2>3 DEF Closed, Kid
  <2>5. \A u \in DOMAIN slots : slots[u] \in M /\ \A q \in M : ~Kid(nodes, q, slots[u])
    BY <1>1, <1>10, <2>1, <2>3
  <2>6. \A u, v \in DOMAIN slots : slots[u] = slots[v] => u = v
    BY <1>1, <1>10, <2>1
  <2>7. \A q \in M : nodes[q].kind # "free"
    BY <1>7, <2>1, <2>2
  <2>. QED BY <1>1, <2>1, <2>3, <2>4, <2>5, <2>6, <2>7 DEF Wired
<1>14. /\ Forest(panel, slot)' /\ root' = roots /\ slot' = slots
       /\ InTree' = TreesOf(nodes, roots)
       /\ \A m \in InTree' : panel'[m] = nodes[m]
       /\ InTree' \in SUBSET Node
       /\ \A S \in SUBSET Node :
            (\A u \in DOMAIN roots : roots[u] \in S) /\ Closed(nodes, S, "kids") => InTree' \subseteq S
  BY <1>6, <1>11, <1>12, <1>13, KeepOutcome
<1>15. InTree' \subseteq InTree \cup {new}
  <2>1. Closed(panel, InTree, "kids") /\ \A t \in DOMAIN root : root[t] \in InTree
    BY StateFacts, InTreeProperties
  <2>2. Closed(nodes, InTree \cup {new}, "kids")
    <3>1. nodes[new].kind # "split"
      BY <1>2, <1>5, <1>7 DEF LeafKind
    <3>. QED BY <1>1, <1>7, <2>1, <3>1 DEF Closed
  <2>3. \A u \in DOMAIN roots : roots[u] \in InTree \cup {new}
    BY <1>10, <2>1
  <2>. QED BY <1>1, <1>14, <2>2, <2>3
<1>16. \A m \in InTree' : \/ m = new /\ panel'[m] = leaf
                          \/ m \in InTree /\ panel'[m] = panel[m]
  BY <1>1, <1>7, <1>14, <1>15
<1>17. MenusAreCurrent'
  BY <1>4, <1>5, <1>16 DEF MenusAreCurrent, IInv
<1>18. WaitStep
  <2>. SUFFICES ASSUME NEW m \in Waiting' PROVE m \in Waiting
    BY <1>4 DEF WaitStep
  <2>1. m \in InTree' /\ panel'[m].kind = "instrument" /\ panel'[m].chart = None /\ symbols # {}
    BY <1>4 DEF Waiting
  <2>2. panel'[m] # leaf
    BY <1>5, <2>1
  <2>3. m \in InTree /\ panel'[m] = panel[m]
    BY <1>16, <2>1, <2>2
  <2>. QED BY <2>1, <2>3 DEF Waiting
<1>19. /\ tabs' = Append(tabs, nextTab) /\ pages' = tabs' /\ nextTab' = nextTab + 1
       /\ active' = Len(tabs) /\ page' = Len(tabs) + 1
  BY <1>4, <1>8 DEF AddTab, Tabs
<1>20. /\ tabs' \in Seq(0 .. nextTab) /\ Len(tabs') = Len(tabs) + 1
       /\ \A i \in 1 .. Len(tabs) : tabs'[i] = tabs[i]
       /\ tabs'[Len(tabs) + 1] = nextTab
  <2>1. tabs \in Seq(0 .. nextTab) /\ nextTab \in 0 .. nextTab
    <3>1. \A i \in 1 .. Len(tabs) : tabs[i] \in 0 .. nextTab
      BY <1>8, ElementOfSeq
    <3>. QED BY <1>8, <3>1
  <2>. QED BY <1>19, <2>1, AppendProperties
<1>21. DOMAIN tabs' = 1 .. Len(tabs) + 1
  BY <1>20, LenProperties
<1>22. Range(tabs') = Range(tabs) \cup {nextTab}
  <2>1. \A i : i \in DOMAIN tabs' <=> i \in DOMAIN tabs \/ i = Len(tabs) + 1
    BY <1>8, <1>21
  <2>2. \A i \in DOMAIN tabs : tabs'[i] = tabs[i]
    BY <1>8, <1>20
  <2>. QED BY <1>20, <2>1, <2>2 DEF Range
<1>23. \A i, j \in 1 .. Len(tabs') : tabs'[i] = tabs'[j] => i = j
  <2>1. \A i \in 1 .. Len(tabs) : tabs[i] # nextTab
    BY <1>8, <1>9 DEF Range
  <2>2. \A i, j \in 1 .. Len(tabs) : tabs[i] = tabs[j] => i = j
    BY <1>8 DEF Tabs
  <2>. SUFFICES ASSUME NEW i \in 1 .. Len(tabs'), NEW j \in 1 .. Len(tabs'), tabs'[i] = tabs'[j]
                PROVE  i = j
    OBVIOUS
  <2>3. i \in 1 .. Len(tabs) \/ i = Len(tabs) + 1
    BY <1>8, <1>20
  <2>4. j \in 1 .. Len(tabs) \/ j = Len(tabs) + 1
    BY <1>8, <1>20
  <2>. QED BY <1>20, <2>1, <2>2, <2>3, <2>4
<1>24. Tabs'
  <2>1. tabs' # <<>>
    BY <1>8, <1>20
  <2>2. (nextTab + 1) - 1 = nextTab /\ nextTab' - 1 = nextTab /\ nextTab' \in Nat
    BY <1>8, <1>19
  <2>3. active' \in 0 .. Len(tabs') - 1 /\ page' = active' + 1
    BY <1>8, <1>19, <1>20
  <2>4. DOMAIN slot' = Range(tabs') /\ DOMAIN root' \subseteq DOMAIN slot'
        /\ \A t \in DOMAIN root' : root'[t] = slot'[t]
    BY <1>8, <1>10, <1>11, <1>14, <1>22 DEF InSlots, Tabs
  <2>5. misread' \/ DOMAIN root' = Range(tabs')
    BY <1>4, <1>8, <1>10, <1>14, <1>22 DEF Tabs
  <2>. QED BY <1>19, <1>20, <1>23, <2>1, <2>2, <2>3, <2>4, <2>5 DEF Tabs
<1>25. IInv'
  BY <1>4, <1>14, <1>17, <1>24 DEF IInv
<1>. QED BY <1>18, <1>25 DEF GoodStep

(* The other events leave the trees alone.                                 *)
LEMMA SameTrees ==
  ASSUME IInv, root' = root, slot' = slot, WellMade(panel'),
         \A p \in Node : panel[p].kind = panel'[p].kind /\ (panel[p].kind = "split" => panel[p] = panel'[p])
  PROVE  Forest(panel, slot)' /\ InTree' = InTree
<1>1. InSlots(root, slot) /\ Forest(panel, slot) /\ InTree \in SUBSET Node
  BY StateFacts
<1>2. Forest(panel', slot) /\ TreesOf(panel', root) = TreesOf(panel, root)
  BY <1>1, SameForest
<1>3. InTree' = TreesOf(panel', root') /\ InTree = TreesOf(panel, root)
  BY DEF InTree, TreesOf
<1>. QED BY <1>2, <1>3

LEMMA SwitchTabStep ==
  ASSUME IInv, NEW i, SwitchTab(i)
  PROVE  GoodStep
<1>1. UNCHANGED <<tabs, nextTab, pages, root, slot, panel, symbols, lists, misread>>
      /\ i \in 0 .. Len(tabs) - 1 /\ active' = i /\ page' = i + 1
  BY DEF SwitchTab
<1>2. InTree' = InTree
  BY <1>1 DEF InTree
<1>3. Tabs' /\ MenusAreCurrent'
  BY <1>1, <1>2 DEF IInv, Tabs, MenusAreCurrent
<1>4. Forest(panel, slot)'
  BY <1>1 DEF IInv
<1>5. WaitStep
  BY <1>1, <1>2 DEF WaitStep, Waiting
<1>6. IInv'
  BY <1>1, <1>3, <1>4 DEF IInv
<1>. QED BY <1>5, <1>6 DEF GoodStep

LEMMA InstallChartStep ==
  ASSUME IInv, NEW n \in Node, NEW s \in Symbol, InstallChart(n, s)
  PROVE  GoodStep
<1>1. /\ panel[n].kind = "instrument" /\ s \in panel[n].menu
      /\ panel' = [panel EXCEPT ![n].chart = s] /\ root' = root /\ slot' = slot /\ Unmoved
  BY DEF InstallChart, Handles
<1>2. WellMade(panel)
  BY StateFacts
<1>3. /\ panel' = [p \in Node |-> panel'[p]]
      /\ panel'[n] = [panel[n] EXCEPT !.chart = s]
      /\ \A p \in Node \ {n} : panel'[p] = panel[p]
  BY <1>1, <1>2 DEF WellMade
<1>4. /\ panel'[n] \in InstrumentPanel /\ panel'[n].kind = "instrument"
      /\ panel'[n].chart = s /\ panel'[n].menu = panel[n].menu
  <2>1. panel[n] \in InstrumentPanel
    BY <1>1, <1>2 DEF WellMade
  <2>. QED BY <1>3, <2>1 DEF InstrumentPanel
<1>5. WellMade(panel')
  BY <1>2, <1>3, <1>4 DEF WellMade, LeafKind
<1>6. Forest(panel, slot)' /\ InTree' = InTree
  <2>1. \A p \in Node : panel[p].kind = panel'[p].kind /\ (panel[p].kind = "split" => panel[p] = panel'[p])
    BY <1>1, <1>3, <1>4
  <2>. QED BY <1>1, <1>5, <2>1, SameTrees
<1>7. InTree \subseteq Node
  BY StateFacts
<1>8. Tabs'
  BY <1>1 DEF IInv, Tabs, Unmoved
<1>9. MenusAreCurrent'
  <2>. SUFFICES ASSUME NEW m \in InTree, panel'[m].kind = "instrument"
                PROVE  panel'[m].menu = symbols
    BY <1>1, <1>6 DEF MenusAreCurrent, Unmoved
  <2>1. CASE m = n
    BY <1>1, <1>4, <2>1 DEF IInv, MenusAreCurrent
  <2>2. CASE m # n
    BY <1>3, <1>7, <2>2 DEF IInv, MenusAreCurrent
  <2>. QED BY <2>1, <2>2
<1>10. WaitStep
  <2>. SUFFICES ASSUME NEW m \in Waiting' PROVE m \in Waiting
    BY <1>1 DEF WaitStep, Unmoved
  <2>1. m \in InTree /\ panel'[m].kind = "instrument" /\ panel'[m].chart = None /\ symbols # {}
    BY <1>1, <1>6 DEF Waiting, Unmoved
  <2>2. s # None
    BY WindowAssumption
  <2>3. panel'[m] = panel[m]
    BY <1>3, <1>4, <1>7, <2>1, <2>2
  <2>. QED BY <2>1, <2>3 DEF Waiting
<1>11. IInv'
  BY <1>1, <1>6, <1>8, <1>9 DEF IInv, Unmoved
<1>. QED BY <1>10, <1>11 DEF GoodStep

(* The list reaches every panel with an instrument, and ends every wait.    *)
LEMMA SymbolsStep ==
  ASSUME IInv, NEW list \in SUBSET Symbol, OnSymbolsArrived(list)
  PROVE  GoodStep
<1>1. /\ list # {} /\ symbols' = list /\ root' = root /\ slot' = slot
      /\ UNCHANGED <<tabs, nextTab, active, pages, page, root, slot, misread>>
  BY DEF OnSymbolsArrived
<1>2. PICK first \in DefaultSymbols' :
       panel' = [n \in Node |->
         IF n \in ForEachInstrumentLeaf
         THEN [panel[n] EXCEPT !.menu = list, !.chart = IF @ = None THEN first ELSE @]
         ELSE panel[n]]
  BY DEF OnSymbolsArrived
<1>3. first \in list /\ first # None /\ list \subseteq Symbol
  BY <1>1, WindowAssumption DEF DefaultSymbols
<1>4. WellMade(panel) /\ InTree \subseteq Node
  BY StateFacts
<1>6. /\ panel' = [p \in Node |-> panel'[p]]
      /\ \A p \in Node \ ForEachInstrumentLeaf : panel'[p] = panel[p]
      /\ \A p \in ForEachInstrumentLeaf :
           panel'[p] = [panel[p] EXCEPT !.menu = list, !.chart = IF @ = None THEN first ELSE @]
  BY <1>2, <1>4 DEF ForEachInstrumentLeaf
<1>7. ASSUME NEW p \in ForEachInstrumentLeaf
      PROVE  /\ panel'[p] \in InstrumentPanel /\ panel'[p].kind = "instrument" /\ panel[p].kind = "instrument"
             /\ panel'[p].menu = list /\ panel'[p].chart # None
  <2>1. p \in Node /\ p \in InTree /\ panel[p].kind = "instrument"
    BY <1>4 DEF ForEachInstrumentLeaf
  <2>2. panel[p] \in InstrumentPanel
    BY <1>4, <2>1 DEF WellMade
  <2>3. panel[p].chart \in Symbol \cup {None}
    BY <2>2 DEF InstrumentPanel
  <2>4. panel'[p] = [panel[p] EXCEPT !.menu = list, !.chart = IF @ = None THEN first ELSE @]
    BY <1>6
  <2>. QED BY <1>3, <2>1, <2>2, <2>3, <2>4 DEF InstrumentPanel
<1>8. WellMade(panel')
  BY <1>4, <1>6, <1>7 DEF WellMade, LeafKind
<1>9. Forest(panel, slot)' /\ InTree' = InTree
  <2>1. \A p \in Node : panel[p].kind = panel'[p].kind /\ (panel[p].kind = "split" => panel[p] = panel'[p])
    BY <1>6, <1>7
  <2>. QED BY <1>1, <1>8, <2>1, SameTrees
<1>10. \A m \in InTree : panel'[m].kind = "instrument" => m \in ForEachInstrumentLeaf
  BY <1>4, <1>6 DEF ForEachInstrumentLeaf
<1>11. MenusAreCurrent'
  BY <1>1, <1>7, <1>9, <1>10 DEF MenusAreCurrent
<1>12. Waiting' = {}
  BY <1>7, <1>9, <1>10 DEF Waiting
<1>13. Tabs'
  BY <1>1 DEF IInv, Tabs
<1>14. IInv'
  BY <1>1, <1>3, <1>9, <1>11, <1>13 DEF IInv
<1>15. WaitStep
  BY <1>12 DEF WaitStep
<1>. QED BY <1>14, <1>15 DEF GoodStep

-----------------------------------------------------------------------------
(* The window starts with one tab over one panel.                           *)
LEMMA InitWindow == Init => IInv
<1>. SUFFICES ASSUME Init PROVE IInv
  OBVIOUS
<1>. DEFINE n == CHOOSE m \in Node : TRUE
<1>1. n \in Node
  BY WindowAssumption
<1>2. /\ tabs = <<0>> /\ pages = <<0>> /\ nextTab = 1 /\ active = 0 /\ page = 1
      /\ symbols = {} /\ misread = FALSE
      /\ root = [t \in {0} |-> n] /\ slot = [t \in {0} |-> n]
      /\ panel = [m \in Node |->
            IF m = n THEN Leaf(IF Default = None THEN "empty" ELSE "instrument") ELSE Free]
  BY DEF Init
<1>3. PICK kind \in {"empty", "instrument"} : panel = [m \in Node |-> IF m = n THEN Leaf(kind) ELSE Free]
  BY <1>2
<1>. HIDE DEF n
<1>4. /\ Leaf(kind).kind = kind
      /\ kind = "instrument" =>
           Leaf(kind) \in InstrumentPanel /\ Leaf(kind).menu = symbols /\ Leaf(kind).chart = None
  <2>1. kind \in LeafKind /\ symbols \subseteq Symbol
    BY <1>2 DEF LeafKind
  <2>. QED BY <2>1, LeafProperties
<1>5. panel[n] = Leaf(kind) /\ \A p \in Node \ {n} : panel[p] = Free /\ panel[p].kind = "free"
  BY <1>1, <1>3 DEF Free
<1>6. WellMade(panel)
  <2>1. panel = [p \in Node |-> panel[p]]
    BY <1>3
  <2>. QED BY <1>4, <1>5, <2>1 DEF WellMade, LeafKind
<1>7. Used(panel) = {n}
  BY <1>1, <1>4, <1>5 DEF Used
<1>8. DOMAIN slot = {0} /\ slot[0] = n /\ DOMAIN root = {0} /\ root[0] = n
  BY <1>2
<1>9. Wired({n}, panel, slot)
  BY <1>1, <1>4, <1>5, <1>8 DEF Wired, Closed, Kid
<1>10. n \in Tree(panel, n) /\ Tree(panel, n) \subseteq {n}
  <2>1. Closed(panel, {n}, "kids") /\ {n} \in SUBSET Node
    BY <1>1, <1>9 DEF Wired
  <2>. QED BY <1>1, <1>6, <2>1, TreeProperties
<1>11. Forest(panel, slot)
  BY <1>6, <1>7, <1>8, <1>9, <1>10 DEF Forest
<1>12. Tabs
  <2>1. Range(tabs) = {0} /\ Len(tabs) = 1 /\ tabs[1] = 0 /\ tabs \in Seq(0 .. 0)
    BY <1>2 DEF Range
  <2>. QED BY <1>2, <1>8, <2>1 DEF Tabs
<1>13. InTree \subseteq {n}
  BY <1>8, <1>10 DEF InTree
<1>14. MenusAreCurrent
  BY <1>4, <1>5, <1>13 DEF MenusAreCurrent
<1>. QED BY <1>2, <1>11, <1>12, <1>14 DEF IInv

(* Every event is a good step.                                             *)
LEMMA WindowStep == IInv /\ Next => GoodStep
<1>. SUFFICES ASSUME IInv, Next PROVE GoodStep
  OBVIOUS
<1>1. ASSUME NEW kind \in Choice, NewTab(kind) PROVE GoodStep
  BY <1>1, NewTabStep
<1>2. ASSUME NEW id \in TabId, CloseTab(id) PROVE GoodStep
  BY <1>2, CloseTabStep
<1>3. ASSUME NEW i \in TabId, SwitchTab(i) PROVE GoodStep
  BY <1>3, SwitchTabStep
<1>4. ASSUME NEW n \in Node, NEW kind \in Choice, HandleChangeType(n, kind) PROVE GoodStep
  BY <1>4, ChangeTypeStep
<1>5. ASSUME NEW n \in Node, NEW kind \in Choice, HandleSplit(n, kind) PROVE GoodStep
  BY <1>5, SplitStep
<1>6. ASSUME NEW n \in Node, HandleCloseRoot(n) PROVE GoodStep
  BY <1>6, CloseRootStep
<1>7. ASSUME NEW n \in Node, HandleClose(n) PROVE GoodStep
  BY <1>7, CloseStep
<1>8. ASSUME NEW n \in Node, NEW s \in Symbol, InstallChart(n, s) PROVE GoodStep
  BY <1>8, InstallChartStep
<1>9. ASSUME NEW list \in Lists, OnSymbolsArrived(list) PROVE GoodStep
  <2>1. list \in SUBSET Symbol
    BY WindowAssumption
  <2>. QED BY <1>9, <2>1, SymbolsStep
<1>. QED BY <1>1, <1>2, <1>3, <1>4, <1>5, <1>6, <1>7, <1>8, <1>9 DEF Next, PanelEvent

LEMMA WindowStutter == IInv /\ UNCHANGED vars => IInv'
BY DEF vars, IInv, Tabs, MenusAreCurrent, InTree

(* The tabs, slots, trees and menus fit together in every reachable state.  *)
THEOREM WindowFits == Spec => []IInv
<1>1. IInv /\ [Next]_vars => IInv'
  BY WindowStep, WindowStutter DEF GoodStep
<1>. QED BY InitWindow, <1>1, PTL DEF Spec

(* The types; the page drawn is the active tab's (tab_bar.cpp:61-97), and   *)
(* every panel of every tab offers the list that came last, be it a part of  *)
(* an earlier one (main_window.cpp:119-125,292-325).                        *)
THEOREM MenusStayCurrent == Spec => []WindowInv
<1>1. IInv => WindowInv
  <2>. SUFFICES ASSUME IInv PROVE TypeOK
    BY DEF IInv, WindowInv
  <2>1. DOMAIN tabs = 1 .. Len(tabs) /\ \A i \in 1 .. Len(tabs) : tabs[i] \in 0 .. nextTab - 1
    BY LenProperties, ElementOfSeq DEF IInv, Tabs
  <2>2. IsInjective(tabs) /\ Range(tabs) \subseteq 0 .. nextTab - 1
    BY <2>1 DEF IInv, Tabs, IsInjective, Range
  <2>3. \A n \in Node : panel[n].kind \in LeafKind \cup {"free", "split"}
    BY DEF IInv, Forest, WellMade
  <2>. QED BY <2>2, <2>3 DEF TypeOK, IInv, Tabs
<1>. QED BY WindowFits, <1>1, PTL

(* What a page draws is the tree of its tab (main_window.cpp:254-290,       *)
(* panel_node.cpp:133-158).                                                *)
THEOREM TreesAreDrawn == Spec => []WindowShowsTrees
<1>1. IInv => WindowShowsTrees
  <2>. SUFFICES ASSUME IInv PROVE WindowShowsTrees
    OBVIOUS
  <2>1. InSlots(root, slot) /\ WellMade(panel) /\ Wired(Used(panel), panel, slot) /\ InTree \in SUBSET Node
    BY StateFacts
  <2>2. \A t \in DOMAIN root : slot[t] = root[t] /\ slot[t] \in Node
    BY <2>1, TreesApart DEF InSlots
  <2>3. \A t \in DOMAIN root : Drawn(panel, slot[t]) = Tree(panel, root[t])
    BY <2>1, <2>2, TreeProperties
  <2>4. \A p \in InTree : panel[p].kind = "split" => panel[p].layout = panel[p].kids
    BY <2>1 DEF WellMade, SplitPanel
  <2>. QED BY <2>2, <2>3, <2>4 DEF WindowShowsTrees, IInv, Tabs
<1>. QED BY WindowFits, <1>1, PTL

(* No panel is in two places or below itself, through every replacement     *)
(* (main_window.cpp:213-218,254-290): two children to a split, all           *)
(* different, and the trees of the tabs apart.                             *)
THEOREM PanelsAreInOnePlace == Spec => []EachPanelOnce
<1>1. IInv => EachPanelOnce
  <2>. SUFFICES ASSUME IInv PROVE EachPanelOnce
    OBVIOUS
  <2>. DEFINE splits == {p \in InTree : panel[p].kind = "split"}
              Children == UNION {Range(panel[p].kids) : p \in splits}
              First == {panel[p].kids[1] : p \in splits}
              Second == {panel[p].kids[2] : p \in splits}
  <2>1. /\ InSlots(root, slot) /\ WellMade(panel) /\ Wired(Used(panel), panel, slot)
        /\ InTree \in SUBSET Node /\ InTree \subseteq Used(panel)
    BY StateFacts
  <2>2. ASSUME NEW p \in splits
        PROVE  /\ panel[p].kids[1] \in Node /\ panel[p].kids[2] \in Node
               /\ panel[p].kids[1] # panel[p].kids[2]
               /\ Range(panel[p].kids) = {panel[p].kids[1], panel[p].kids[2]}
               /\ Kid(panel, p, panel[p].kids[1]) /\ Kid(panel, p, panel[p].kids[2])
    <3>1. panel[p] \in SplitPanel
      BY <2>1 DEF WellMade
    <3>. QED BY <3>1 DEF SplitPanel, Range, Kid
  <2>3. \A p, q \in splits : \A k \in Node : Kid(panel, p, k) /\ Kid(panel, q, k) => p = q
    BY <2>1 DEF Wired
  <2>4. IsFiniteSet(splits)
    <3>1. splits \in SUBSET Node /\ IsFiniteSet(Node)
      BY <2>1, WindowAssumption
    <3>. QED BY <3>1, FS_Subset
  <2>5. Children = First \cup Second
    BY <2>2, SMTT(30)
  <2>6. First \cap Second = {}
    BY <2>2, <2>3
  <2>. HIDE DEF splits
  <2>7. ASSUME NEW i \in {1, 2}
        PROVE  LET T == {panel[p].kids[i] : p \in splits}
               IN  IsFiniteSet(T) /\ Cardinality(T) = Cardinality(splits)
    <3>. DEFINE T == {panel[p].kids[i] : p \in splits}
                f == [p \in splits |-> panel[p].kids[i]]
    <3>1. f \in Bijection(splits, T)
      <4>1. f \in [splits -> T] /\ \A x \in T : \E p \in splits : f[p] = x
        OBVIOUS
      <4>2. \A p, q \in splits : f[p] = f[q] => p = q
        BY <2>2, <2>3
      <4>. HIDE DEF f, T
      <4>. QED BY <4>1, <4>2 DEF Bijection, Injection, Surjection, IsInjective
    <3>2. ExistsBijection(splits, T)
      <4>. HIDE DEF f, T
      <4>. QED BY <3>1 DEF ExistsBijection
    <3>. HIDE DEF T
    <3>3. IsFiniteSet(T) /\ Cardinality(T) = Cardinality(splits)
      BY <2>4, <3>2, FS_Bijection
    <3>. QED BY <3>3 DEF T
  <2>8. IsFiniteSet(First) /\ Cardinality(First) = Cardinality(splits)
    BY <2>7
  <2>9. IsFiniteSet(Second) /\ Cardinality(Second) = Cardinality(splits)
    BY <2>7
  <2>10. Cardinality(Children) = 2 * Cardinality(splits)
    <3>. HIDE DEF First, Second, Children
    <3>1. Cardinality(First \cup Second) = Cardinality(First) + Cardinality(Second) - Cardinality(First \cap Second)
      BY <2>8, <2>9, FS_Union
    <3>2. Cardinality(First \cap Second) = 0 /\ Cardinality(splits) \in Nat
      BY <2>4, <2>6, FS_EmptySet, FS_CardinalityType
    <3>. QED BY <2>5, <2>8, <2>9, <3>1, <3>2
  <2>11. ASSUME NEW t \in DOMAIN root PROVE root[t] \notin Children
    <3>1. t \in DOMAIN slot /\ root[t] = slot[t]
      BY <2>1 DEF InSlots
    <3>2. \A p \in splits : ~Kid(panel, p, root[t])
      BY <2>1, <3>1 DEF Wired, splits
    <3>. QED BY <3>2 DEF Kid, splits
  <2>12. \A t, u \in DOMAIN root : t # u => Tree(panel, root[t]) \cap Tree(panel, root[u]) = {}
    BY <2>1, TreesApart DEF InSlots
  <2>. QED BY <2>10, <2>11, <2>12 DEF EachPanelOnce, splits
<1>. QED BY WindowFits, <1>1, PTL

(* A click takes away the panel it was made on and no other, a split none,   *)
(* and a tab the panels of its tree (main_window.cpp:83-86,207-290).        *)
THEOREM TheClickedPanelGoes == Spec => TheClickedGoes
<1>1. IInv =>
        /\ \A n \in Node :
             HandleClose(n) \/ HandleCloseRoot(n) \/ (\E kind \in Choice : HandleChangeType(n, kind))
               => Gone = {n}
        /\ Gone # {} => \A n \in Node, kind \in Choice : ~HandleSplit(n, kind)
        /\ \A id \in TabId : CloseTab(id) =>
             Gone = UNION {LeavesOf(Tree(panel, root[t])) : t \in DOMAIN root \cap {id}}
  BY CloseStep, CloseRootStep, ChangeTypeStep, SplitStep, CloseTabStep
<1>2. IInv /\ [Next]_vars =>
        [/\ \A n \in Node :
              HandleClose(n) \/ HandleCloseRoot(n) \/ (\E kind \in Choice : HandleChangeType(n, kind))
                => Gone = {n}
         /\ Gone # {} => \A n \in Node, kind \in Choice : ~HandleSplit(n, kind)
         /\ \A id \in TabId : CloseTab(id) =>
              Gone = UNION {LeavesOf(Tree(panel, root[t])) : t \in DOMAIN root \cap {id}}]_vars
  BY <1>1
<1>. QED BY WindowFits, <1>2, PTL DEF Spec, TheClickedGoes

(* A panel waits for its chart only if a split or a change of type bore it,  *)
(* and no longer than to the next list (main_window.cpp:138-144,292-307).   *)
THEOREM OnlyNewPanelsWait == Spec => WaitsOnlyAfterSplit
<1>1. IInv /\ [Next]_vars =>
        [\A n \in Waiting' : /\ lists' = lists
                             /\ n \in Waiting \/ (panel[n].kind = "free" /\ nextTab' = nextTab)]_vars
  BY WindowStep DEF GoodStep, WaitStep
<1>. QED BY WindowFits, <1>1, PTL DEF Spec, WaitsOnlyAfterSplit

=============================================================================
