----------------------------- MODULE MainWindow -----------------------------
(***************************************************************************)
(* The tabs and the panel trees of the window (src/src/app/main_window.cpp, *)
(* tab_bar.cpp, panel_node.cpp).  Everything here runs on the GUI thread,   *)
(* one event after another; the instrument list arrives as a posted event.  *)
(*                                                                         *)
(* Two structures are kept side by side: the nodes with the map from tabs   *)
(* to their roots, and the elements that the window draws, which hold       *)
(* decks, pages and slots.  A user reaches only what is drawn.              *)
(*                                                                         *)
(* The node of a panel that has left both is free again: what its handlers  *)
(* may still keep alive is the subject of TradeCockpit.                     *)
(***************************************************************************)
EXTENDS Naturals, Sequences, FiniteSets, SequencesExt

CONSTANTS
  Node,      (* panel nodes                                                *)
  Symbol,    (* symbols of instruments                                     *)
  Lists,     (* the lists that are posted: the whole, or a part of it      *)
  Default,   (* the configured symbol, or none                             *)
  None,
  MaxTabs,   (* bound: tabs opened                                         *)
  MaxLists   (* bound: deliveries of the instrument list                   *)

ASSUME WindowAssumption ==
  /\ MaxTabs \in Nat \ {0} /\ MaxLists \in Nat
  /\ IsFiniteSet(Node) /\ Node # {}
  /\ Default \in Symbol \cup {None} /\ None \notin Symbol
  /\ Lists \subseteq SUBSET Symbol

VARIABLES
  tabs,      (* mTabs: the ids in the bar                                  *)
  nextTab,   (* mNextTabId                                                 *)
  active,    (* mActiveIndex                                               *)
  pages,     (* mPageDeck after its placeholder, by the tab of the page    *)
  page,      (* the selected child of mPageDeck                            *)
  root,      (* mTabRoots: tab -> node                                     *)
  slot,      (* what the deck of each page holds: tab -> node              *)
  panel,     (* the nodes                                                  *)
  symbols,   (* mSymbols                                                   *)
  lists,     (* deliveries of the list so far                              *)
  misread    (* whether an erased tab id was read back wrong               *)

vars == <<tabs, nextTab, active, pages, page, root, slot, panel, symbols, lists, misread>>

TabId == 0 .. MaxTabs - 1

Free == [kind |-> "free"]

(* Only an empty panel has a type selector and only the others can be split *)
(* or closed.  All types without an instrument are alike.                   *)
LeafKind == {"empty", "plain", "instrument"}
(* What the selectors offer.                                               *)
Choice == {"plain", "instrument"}

(* A chart is the symbol it was installed for; the menu is what             *)
(* SetInstruments was last given.                                          *)
Leaf(kind) ==
  IF kind = "instrument" THEN [kind |-> kind, chart |-> None, menu |-> symbols]
  ELSE [kind |-> kind]

SplitNode(first, second) ==
  [kind |-> "split", kids |-> <<first, second>>, layout |-> <<first, second>>]

(* A set of nodes with the next level, by the edges of a field of the split *)
(* nodes: "kids" is the tree, "layout" what is drawn.                       *)
WithNext(nodes, above, edges) ==
  LET splits == {m \in above : nodes[m].kind = "split"}
  IN above \cup UNION {Range(nodes[m][edges]) : m \in splits}

(* What is reached from a node.                                            *)
Reached(nodes, n, edges) ==
  LET From[above \in SUBSET Node] ==
        LET all == WithNext(nodes, above, edges)
        IN IF all = above THEN above ELSE From[all]
  IN From[{n}]

Tree(nodes, n) == Reached(nodes, n, "kids")
Drawn(nodes, n) == Reached(nodes, n, "layout")

(* The nodes a shared_ptr of a root or an element of a page leads to.       *)
Live(nodes, roots, slots) ==
  UNION ({Tree(nodes, roots[t]) : t \in DOMAIN roots} \cup {Drawn(nodes, slots[t]) : t \in DOMAIN slots})

(* The assignments every event ends with.                                  *)
Keep(nodes, roots, slots) ==
  /\ root' = roots
  /\ slot' = slots
  /\ panel' = [n \in Node |-> IF n \in Live(nodes, roots, slots) THEN nodes[n] ELSE Free]

InTree == UNION {Tree(panel, root[t]) : t \in DOMAIN root}

(* What the user can click: the page of the deck that is selected.          *)
OnScreen == IF page = 0 THEN {} ELSE Drawn(panel, slot[pages[page]])

FreeNodes == {n \in Node : panel[n].kind = "free"}
(* make_shared: which of the free nodes makes no difference.                *)
MakeNode == CHOOSE n \in FreeNodes : TRUE

DefaultSymbols ==
  IF Default \in symbols THEN {Default} ELSE symbols

Without(f, t) == [x \in DOMAIN f \ {t} |-> f[x]]
With(f, t, value) == [x \in DOMAIN f \cup {t} |-> IF x = t THEN value ELSE f[x]]

-----------------------------------------------------------------------------
(* The tab bar.                                                            *)

AddTab ==
  /\ tabs' = Append(tabs, nextTab)
  /\ pages' = Append(pages, nextTab)
  /\ nextTab' = nextTab + 1
  /\ active' = Len(tabs)
  /\ page' = Len(tabs) + 1

(* The index of the active tab moves only when it points past the end: a    *)
(* tab removed before it makes the next one active.                         *)
RemoveTab(id) ==
  IF id \notin Range(tabs)
  THEN UNCHANGED <<tabs, pages, active, page>>
  ELSE LET i == CHOOSE k \in 1 .. Len(tabs) : tabs[k] = id IN
       /\ tabs' = RemoveAt(tabs, i)
       /\ pages' = RemoveAt(pages, i)
       /\ active' = IF active >= Len(tabs) - 1 /\ active > 0 THEN Len(tabs) - 2 ELSE active
       /\ page' = IF Len(tabs) = 1 THEN 0 ELSE active' + 1

(* What a change within one tab leaves alone.                              *)
Unmoved == UNCHANGED <<tabs, nextTab, active, pages, page, symbols, lists, misread>>

SwitchTab(i) ==
  /\ i \in 0 .. Len(tabs) - 1
  /\ active' = i
  /\ page' = i + 1
  /\ UNCHANGED <<tabs, nextTab, pages, root, slot, panel, symbols, lists, misread>>

-----------------------------------------------------------------------------
(* The window.                                                             *)

(* OnNewTab; the chart is installed at once when there are symbols.         *)
NewTab(kind) ==
  /\ nextTab < MaxTabs
  /\ FreeNodes # {}
  /\ AddTab
  /\ \E leaf \in IF kind = "instrument" /\ symbols # {}
                 THEN {[Leaf(kind) EXCEPT !.chart = s] : s \in DefaultSymbols}
                 ELSE {Leaf(kind)} :
       Keep([panel EXCEPT ![MakeNode] = leaf], With(root, nextTab, MakeNode), With(slot, nextTab, MakeNode))
  /\ UNCHANGED <<symbols, lists, misread>>

(* A close button is drawn for every tab, if there is more than one.        *)
CloseTab(id) ==
  /\ Len(tabs) > 1
  /\ id \in Range(tabs)
  /\ RemoveTab(id)
  /\ Keep(panel, Without(root, id), Without(slot, id))
  /\ UNCHANGED <<nextTab, symbols, lists, misread>>

(* Mutation: the layout of the parent keeps the old element.                *)
ReplaceNodeUndrawn(nodes, old, other) ==
  LET tops == {t \in DOMAIN root : root[t] = old}
      parents == {p \in InTree : nodes[p].kind = "split" /\ old \in Range(nodes[p].kids)}
  IN CASE tops # {} ->
            LET t == CHOOSE t \in tops : TRUE
            IN Keep(nodes, With(root, t, other), With(slot, t, other))
       [] tops = {} /\ parents # {} ->
            LET p == CHOOSE p \in parents : TRUE
                kids == [i \in 1 .. 2 |-> IF nodes[p].kids[i] = old THEN other ELSE nodes[p].kids[i]]
            IN Keep([nodes EXCEPT ![p].kids = kids], root, slot)
       [] OTHER -> Keep(nodes, root, slot)

(* A root is replaced in its tab and slot, another node in its parent, whose *)
(* layout is rebuilt; a node that is in no tree stays where it is.           *)
ReplaceNode(nodes, old, other) ==
  LET tops == {t \in DOMAIN root : root[t] = old}
      parents == {p \in InTree : nodes[p].kind = "split" /\ old \in Range(nodes[p].kids)}
  IN CASE tops # {} ->
            LET t == CHOOSE t \in tops : TRUE
            IN Keep(nodes, With(root, t, other), With(slot, t, other))
       [] tops = {} /\ parents # {} ->
            LET p == CHOOSE p \in parents : TRUE
                kids == [i \in 1 .. 2 |-> IF nodes[p].kids[i] = old THEN other ELSE nodes[p].kids[i]]
            IN Keep([nodes EXCEPT ![p].kids = kids, ![p].layout = kids], root, slot)
       [] OTHER -> Keep(nodes, root, slot)

(* The handlers of a panel with an instrument hold their node, those of the *)
(* others lock a weak reference.                                           *)
Handles(n, kinds) ==
  /\ panel[n].kind \in kinds
  /\ n \in OnScreen
  /\ panel[n].kind = "instrument" \/ n \in InTree

HandleChangeType(n, kind) ==
  /\ Handles(n, {"empty"})
  /\ FreeNodes # {}
  /\ ReplaceNode([panel EXCEPT ![MakeNode] = Leaf(kind)], n, MakeNode)
  /\ Unmoved

HandleSplit(n, kind) ==
  /\ Handles(n, {"plain", "instrument"})
  /\ Cardinality(FreeNodes) > 1
  /\ LET split == CHOOSE m \in FreeNodes \ {MakeNode} : TRUE
     IN ReplaceNode([panel EXCEPT ![MakeNode] = Leaf(kind), ![split] = SplitNode(n, MakeNode)], n, split)
  /\ Unmoved

(* HandleClose on the root of a tab.  The id given to RemoveTab lies in the  *)
(* erased entry of the map: it is read back as it was, or as no tab's id.    *)
HandleCloseRoot(n) ==
  /\ Handles(n, {"plain", "instrument"})
  /\ \E t \in DOMAIN root :
       /\ root[t] = n
       /\ \/ /\ Len(tabs) > 1
             /\ \/ RemoveTab(t) /\ Keep(panel, Without(root, t), Without(slot, t)) /\ UNCHANGED misread
                \/ /\ Keep(panel, Without(root, t), slot)
                   /\ misread' = TRUE
                   /\ UNCHANGED <<tabs, active, pages, page>>
             /\ UNCHANGED <<nextTab, symbols, lists>>
          \/ /\ Len(tabs) = 1
             /\ FreeNodes # {}
             /\ ReplaceNode([panel EXCEPT ![MakeNode] = Leaf("empty")], n, MakeNode)
             /\ Unmoved

(* Mutation: the sibling takes the place of the closed panel only.          *)
HandleCloseSibling(n) ==
  /\ Handles(n, {"plain", "instrument"})
  /\ \E p \in InTree :
       /\ panel[p].kind = "split"
       /\ n \in Range(panel[p].kids)
       /\ \E sibling \in Range(panel[p].kids) \ {n} : ReplaceNode(panel, n, sibling)
  /\ Unmoved

(* Mutation: the node that is closed takes the place of its parent.         *)
HandleCloseKept(n) ==
  /\ Handles(n, {"plain", "instrument"})
  /\ \E p \in InTree :
       /\ panel[p].kind = "split"
       /\ n \in Range(panel[p].kids)
       /\ ReplaceNode(panel, p, n)
  /\ Unmoved

(* HandleClose elsewhere: the sibling takes the place of the parent.         *)
HandleClose(n) ==
  /\ Handles(n, {"plain", "instrument"})
  /\ \E p \in InTree :
       /\ panel[p].kind = "split"
       /\ n \in Range(panel[p].kids)
       /\ \E sibling \in Range(panel[p].kids) \ {n} : ReplaceNode(panel, p, sibling)
  /\ Unmoved

(* A symbol chosen from the menu of a panel.                               *)
InstallChart(n, s) ==
  /\ Handles(n, {"instrument"})
  /\ s \in panel[n].menu
  /\ panel' = [panel EXCEPT ![n].chart = s]
  /\ UNCHANGED <<root, slot>>
  /\ Unmoved

(* Mutation: only the panels that are drawn get the list.                   *)
ForEachLeafOnScreen == {n \in InTree \cap OnScreen : panel[n].kind = "instrument"}

ForEachInstrumentLeaf == {n \in InTree : panel[n].kind = "instrument"}

(* Mutation: the first chart is left to the user.                           *)
OnSymbolsArrivedMenus(list) ==
  /\ lists < MaxLists
  /\ symbols' = list
  /\ lists' = lists + 1
  /\ panel' = [n \in Node |->
       IF n \in ForEachInstrumentLeaf THEN [panel[n] EXCEPT !.menu = list] ELSE panel[n]]
  /\ UNCHANGED <<tabs, nextTab, active, pages, page, root, slot, misread>>

(* Whatever list is posted takes the place of the last one: a part of the   *)
(* list can come after the whole (trade_cockpit.cpp:161), and a chart stays   *)
(* though its symbol is not offered any more.                              *)
OnSymbolsArrived(list) ==
  /\ lists < MaxLists
  /\ list # {}
  /\ symbols' = list
  /\ lists' = lists + 1
  /\ \E first \in DefaultSymbols' :
       panel' = [n \in Node |->
         IF n \in ForEachInstrumentLeaf
         THEN [panel[n] EXCEPT !.menu = list, !.chart = IF @ = None THEN first ELSE @]
         ELSE panel[n]]
  /\ UNCHANGED <<tabs, nextTab, active, pages, page, root, slot, misread>>

-----------------------------------------------------------------------------
(* The first tab is opened before the event loop runs.                      *)
Init ==
  /\ tabs = <<0>> /\ pages = <<0>> /\ nextTab = 1
  /\ active = 0 /\ page = 1
  /\ symbols = {} /\ lists = 0
  /\ misread = FALSE
  /\ LET n == CHOOSE m \in Node : TRUE IN
       /\ root = [t \in {0} |-> n]
       /\ slot = [t \in {0} |-> n]
       /\ panel = [m \in Node |->
            IF m = n THEN Leaf(IF Default = None THEN "empty" ELSE "instrument") ELSE Free]

PanelEvent(n) ==
  \/ \E kind \in Choice : HandleChangeType(n, kind) \/ HandleSplit(n, kind)
  \/ HandleCloseRoot(n) \/ HandleClose(n)
  \/ \E s \in Symbol : InstallChart(n, s)

Next ==
  \/ \E kind \in Choice : NewTab(kind)
  \/ \E id \in TabId : CloseTab(id)
  \/ \E i \in TabId : SwitchTab(i)
  \/ \E n \in Node : PanelEvent(n)
  \/ \E list \in Lists : OnSymbolsArrived(list)

Spec == Init /\ [][Next]_vars

-----------------------------------------------------------------------------
(* Properties.                                                             *)

(* The variables have their types; there is always a tab, and the page that *)
(* is drawn is the active tab's (tab_bar.cpp:68,88-91,190).                 *)
TypeOK ==
  /\ tabs # <<>> /\ Range(tabs) \subseteq 0 .. nextTab - 1 /\ IsInjective(tabs)
  /\ pages = tabs
  /\ active \in 0 .. Len(tabs) - 1 /\ page = active + 1
  /\ DOMAIN root \subseteq Range(tabs) /\ DOMAIN slot = Range(tabs)
  /\ symbols \subseteq Symbol
  /\ \A n \in Node : panel[n].kind \in LeafKind \cup {"free", "split"}

(* No panel is in two places, or below itself: a replacement takes the old  *)
(* node out of the tree that the new one enters, though a split is made     *)
(* around a node that is still in it (main_window.cpp:213-218,254-290).     *)
EachPanelOnce ==
  LET trees == [t \in DOMAIN root |-> Tree(panel, root[t])]
      splits == {p \in InTree : panel[p].kind = "split"}
      Children == UNION {Range(panel[p].kids) : p \in splits}
  IN /\ Cardinality(Children) = 2 * Cardinality(splits)
     /\ \A t \in DOMAIN root :
          /\ root[t] \notin Children
          /\ \A u \in DOMAIN root \ {t} : trees[t] \cap trees[u] = {}

(* What a page draws is the tree of its tab, through every replacement, and *)
(* unless an erased id was misread every page has one.                      *)
WindowShowsTrees ==
  /\ \A t \in DOMAIN root : slot[t] = root[t] /\ Drawn(panel, slot[t]) = Tree(panel, root[t])
  /\ \A p \in InTree : panel[p].kind = "split" => panel[p].layout = panel[p].kids
  /\ misread \/ DOMAIN root = Range(tabs)

(* Every panel of every tab, drawn or not, whether it was there when the    *)
(* list came or was made since, offers the list that came last              *)
(* (main_window.cpp:119-125,148-197,292-325).                               *)
MenusAreCurrent ==
  \A n \in InTree : panel[n].kind = "instrument" => panel[n].menu = symbols

(* The type invariant and the currency of the menus.                       *)
WindowInv == TypeOK /\ MenusAreCurrent

LeavesOf(nodes) == {n \in nodes : panel[n].kind \in LeafKind}
LeavesInTree == LeavesOf(InTree)
Gone == LeavesInTree \ LeavesInTree'

(* A click takes away the panel it was made on and no other, wherever that   *)
(* is in the tree: its close, whether the sibling moves up, the tab goes, the *)
(* tab's id is misread or a new panel comes, and its change of type.  A split *)
(* takes none, and a tab the panels of its tree                             *)
(* (main_window.cpp:83-86,207-290).                                         *)
TheClickedGoes ==
  [][/\ \A n \in Node :
          HandleClose(n) \/ HandleCloseRoot(n) \/ (\E kind \in Choice : HandleChangeType(n, kind))
            => Gone = {n}
     /\ Gone # {} => \A n \in Node, kind \in Choice : ~HandleSplit(n, kind)
     /\ \A id \in TabId : CloseTab(id) =>
          Gone = UNION {LeavesOf(Tree(panel, root[t])) : t \in DOMAIN root \cap {id}}]_vars

Waiting == {n \in InTree : panel[n].kind = "instrument" /\ panel[n].chart = None /\ symbols # {}}

(* A panel waits for its chart with the list at hand only if it was born by *)
(* a split or a change of type, and the next list ends that; a panel of a   *)
(* new tab never does (main_window.cpp:138-144,207-218,292-307).            *)
WaitsOnlyAfterSplit ==
  [][\A n \in Waiting' :
       /\ lists' = lists
       /\ n \in Waiting \/ (panel[n].kind = "free" /\ nextTab' = nextTab)]_vars
=============================================================================
