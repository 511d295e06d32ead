---------------------------- MODULE TradeCockpit ----------------------------
(***************************************************************************)
(* The cockpit and the instrument panels it keeps up to date                *)
(* (src/src/cockpit/trade_cockpit.cpp, instrument_panel.cpp,                *)
(* src/src/app/instrument_panel_element.cpp).                               *)
(*                                                                         *)
(* Three threads meet here: the GUI, which opens, paints and drops panels;  *)
(* the heartbeat coUpdate; and the dispatcher strand that loads the list of *)
(* instruments and brings trades.  The last two share one io thread in the  *)
(* program (main.cpp:31) and need not in the tests.  mMutex guards the      *)
(* tables of the cockpit, one mDataMutex per panel its series and scene.    *)
(* The list itself has no lock.                                            *)
(*                                                                         *)
(* A scene is known by how many trades it shows.  MarkDirty has no caller,  *)
(* so a frame is the whole canvas or nothing.                              *)
(***************************************************************************)
EXTENDS Naturals, Sequences, FiniteSets

CONSTANTS
  Panel,        (* panels that are opened                                  *)
  Threads,      (* io threads; main.cpp:31 makes one                       *)
  Whole,        (* instruments in the list                                 *)
  MaxTrades,    (* bound: batches of trades for each panel                 *)
  None,         (* nobody holds the lock                                   *)
  Torn,         (* a scene in the middle of a layout                       *)
  Partial       (* a scene whose layout has thrown                         *)

ASSUME CockpitAssumption ==
  /\ Threads \in 1 .. 2 /\ Whole \in Nat \ {0} /\ MaxTrades \in Nat
  /\ None \notin {"gui", "beat", "data"} \cup Panel
  /\ {Torn, Partial} \cap 0 .. MaxTrades = {} /\ Torn # Partial

Thread == {"gui", "beat", "data"}

VARIABLES
  open,         (* the window exists                                       *)
  cache,        (* instruments in the cache of the list's feed             *)
  pushed,       (* that feed has called OnInstrumentsLoaded                *)
  subscribed,   (* the window's callback is in mInstrumentSubscribers      *)
  taken,        (* instruments the window's callback has copied            *)
  copied,       (* OnInstrumentsLoaded has copied it                       *)
  posted,       (* lists posted to the view                                *)
  lists,        (* lists the window has been given, by their length        *)
  mutex,        (* who holds mMutex                                        *)
  mPanels,      (* the panels registered                                   *)
  owners,       (* who holds a shared_ptr of each panel                    *)
  shown,        (* panels installed in the window                          *)
  pc,           (* where each thread stands                                *)
  cur,          (* the panel it is at                                      *)
  todo,         (* the panels it has yet to visit                          *)
  series,       (* batches of trades each panel has ingested               *)
  scene,        (* what its scene shows of them                            *)
  dirty,        (* mLayoutDirty                                            *)
  dataMutex,    (* who holds its mDataMutex                                *)
  screen,       (* what its pixels show                                    *)
  refresh       (* a refresh of the view has been posted                   *)

listVars == <<cache, pushed, subscribed, taken, copied, posted, lists>>
panelVars == <<series, scene, dirty, dataMutex, screen>>
vars == <<open, listVars, mutex, mPanels, owners, shown, pc, cur, todo, panelVars, refresh>>

Alive(p) == owners[p] # {}
(* The heartbeat and the strand begin something: with one io thread, only   *)
(* when the other is not in the middle of it.                              *)
IoFree(t) ==
  /\ pc[t] = "idle"
  /\ Threads = 1 => \A u \in {"beat", "data"} : pc[u] = "idle"
Goto(t, label) == pc' = [pc EXCEPT ![t] = label]
Visit(t, p) == cur' = [cur EXCEPT ![t] = p]

(* What a panel is made with, and what is left when its last holder lets go. *)
Hold(holders) ==
  LET Kept(f, made) == [p \in Panel |-> IF holders[p] = {} THEN made ELSE f[p]] IN
  /\ owners' = holders
  /\ series' = Kept(series, 0)
  /\ scene' = Kept(scene, 0)
  /\ screen' = Kept(screen, 0)
  /\ dirty' = Kept(dirty, TRUE)
  /\ UNCHANGED dataMutex

-----------------------------------------------------------------------------
(* DoUpdate, under mDataMutex, for whoever is at a panel with an update to  *)
(* make, and what he does next.                                            *)

AfterLayout ==
  [register |-> "store", allocate |-> "install", paint |-> "render", load |-> "loading",
   beat |-> "beating"]

LayoutBegin(t) ==
  /\ pc[t] \in DOMAIN AfterLayout \ {"paint"}
  /\ dataMutex[cur[t]] = None
  /\ dataMutex' = [dataMutex EXCEPT ![cur[t]] = t]
  /\ scene' = [scene EXCEPT ![cur[t]] = Torn]
  /\ UNCHANGED <<open, listVars, mutex, mPanels, owners, shown, pc, cur, todo, series, dirty,
                 screen, refresh>>

(* Mutation: the new scene does not mark the frame.                         *)
LayoutEndUnmarked(t) ==
  /\ pc[t] \in DOMAIN AfterLayout
  /\ dataMutex[cur[t]] = t
  /\ scene' = [scene EXCEPT ![cur[t]] = series[cur[t]]]
  /\ dataMutex' = [dataMutex EXCEPT ![cur[t]] = None]
  /\ Goto(t, AfterLayout[pc[t]])
  /\ refresh' = (refresh \/ pc[t] \in {"register", "load", "beat"})
  /\ UNCHANGED <<open, listVars, mutex, mPanels, owners, shown, cur, todo, series, dirty, screen>>

(* Update of the element posts a refresh, the paths of the GUI do not.      *)
LayoutEnd(t) ==
  /\ pc[t] \in DOMAIN AfterLayout
  /\ dataMutex[cur[t]] = t
  /\ scene' = [scene EXCEPT ![cur[t]] = series[cur[t]]]
  /\ dirty' = [dirty EXCEPT ![cur[t]] = TRUE]
  /\ dataMutex' = [dataMutex EXCEPT ![cur[t]] = None]
  /\ Goto(t, AfterLayout[pc[t]])
  /\ refresh' = (refresh \/ pc[t] \in {"register", "load", "beat"})
  /\ UNCHANGED <<open, listVars, mutex, mPanels, owners, shown, cur, todo, series, screen>>

-----------------------------------------------------------------------------
(* The GUI thread.                                                         *)

(* Mutation: the cache is looked at before the callback is listed.          *)
SubscribeInstrumentsLast ==
  \/ /\ pc["gui"] = "start"
     /\ taken' = cache
     /\ posted' = IF cache > 0 THEN Append(posted, cache) ELSE posted
     /\ Goto("gui", "deliver")
     /\ UNCHANGED subscribed
  \/ /\ pc["gui"] = "deliver"
     /\ mutex = None
     /\ subscribed' = TRUE
     /\ Goto("gui", "idle")
     /\ UNCHANGED <<taken, posted>>

(* Run subscribes to the list: the callback is listed under the lock; then,  *)
(* under none, it copies what the cache holds and posts its copy.           *)
SubscribeInstruments ==
  \/ /\ pc["gui"] = "start"
     /\ mutex = None
     /\ subscribed' = TRUE
     /\ Goto("gui", "deliver")
     /\ UNCHANGED <<taken, posted>>
  \/ /\ pc["gui"] = "deliver"
     /\ taken' = cache
     /\ Goto("gui", IF cache > 0 THEN "post" ELSE "idle")
     /\ UNCHANGED <<subscribed, posted>>
  \/ /\ pc["gui"] = "post"
     /\ posted' = Append(posted, taken)
     /\ Goto("gui", "idle")
     /\ UNCHANGED <<subscribed, taken>>

Subscribe ==
  /\ SubscribeInstruments
  /\ UNCHANGED <<open, cache, pushed, copied, lists, mutex, mPanels, owners, shown, cur, todo,
                 panelVars, refresh>>

Idle == open /\ pc["gui"] = "idle"

(* A posted list reaches the window.                                       *)
TakeList ==
  /\ Idle
  /\ posted # <<>>
  /\ posted' = Tail(posted)
  /\ lists' = Append(lists, Head(posted))
  /\ UNCHANGED <<open, cache, pushed, subscribed, taken, copied, mutex, mPanels, owners, shown, pc, cur,
                 todo, panelVars, refresh>>

(* A panel is made for a symbol of the list and subscribed to its trades.   *)
RegisterInstrumentPanel(p) ==
  /\ Idle
  /\ lists # <<>>
  /\ ~Alive(p) /\ p \notin mPanels
  /\ owners' = [owners EXCEPT ![p] = {"gui"}]
  /\ Visit("gui", p)
  /\ Goto("gui", "made")
  /\ UNCHANGED <<open, listVars, mutex, mPanels, shown, todo, panelVars, refresh>>

(* RegisterPanel updates it under mMutex, if there is a list.               *)
RegisterPanel ==
  /\ pc["gui"] = "made"
  /\ mutex = None
  /\ mutex' = "gui"
  /\ Goto("gui", IF cache > 0 THEN "register" ELSE "store")
  /\ UNCHANGED <<open, listVars, mPanels, owners, shown, cur, todo, panelVars, refresh>>

StorePanel ==
  /\ pc["gui"] = "store"
  /\ mPanels' = mPanels \cup {cur["gui"]}
  /\ mutex' = None
  /\ Goto("gui", "allocate")
  /\ UNCHANGED <<open, listVars, owners, shown, cur, todo, panelVars, refresh>>

(* The layout of the view has allocated the pixels and updated the panel.   *)
InstallChart ==
  /\ pc["gui"] = "install"
  /\ shown' = shown \cup {cur["gui"]}
  /\ refresh' = TRUE
  /\ Visit("gui", None)
  /\ Goto("gui", "idle")
  /\ UNCHANGED <<open, listVars, mutex, mPanels, owners, todo, panelVars>>

(* The window drops a panel: another symbol takes its place.                *)
DropPanel(p) ==
  /\ Idle
  /\ p \in shown
  /\ shown' = shown \ {p}
  /\ Hold([owners EXCEPT ![p] = @ \ {"gui"}])
  /\ UNCHANGED <<open, listVars, mutex, mPanels, pc, cur, todo, refresh>>

(* A resize reallocates the pixels of a panel.                             *)
Resize(p) ==
  /\ Idle
  /\ p \in shown
  /\ Visit("gui", p)
  /\ Goto("gui", "allocate")
  /\ UNCHANGED <<open, listVars, mutex, mPanels, owners, shown, todo, panelVars, refresh>>

Paint ==
  /\ Idle
  /\ refresh
  /\ refresh' = FALSE
  /\ todo' = [todo EXCEPT !["gui"] = shown]
  /\ Goto("gui", "painting")
  /\ UNCHANGED <<open, listVars, mutex, mPanels, owners, shown, cur, panelVars>>

(* OnUpdate: if a worker has the lock, or the last layout is not long ago,  *)
(* the scene is left as it is.                                             *)
OnUpdate ==
  /\ pc["gui"] = "painting"
  /\ \E p \in todo["gui"] :
       /\ Visit("gui", p)
       /\ todo' = [todo EXCEPT !["gui"] = @ \ {p}]
       /\ \/ /\ dataMutex[p] = None
             /\ dataMutex' = [dataMutex EXCEPT ![p] = "gui"]
             /\ scene' = [scene EXCEPT ![p] = Torn]
             /\ Goto("gui", "paint")
          \/ /\ Goto("gui", "render")
             /\ UNCHANGED <<dataMutex, scene>>
  /\ UNCHANGED <<open, listVars, mutex, mPanels, owners, shown, series, dirty, screen, refresh>>

Painted ==
  /\ pc["gui"] = "painting"
  /\ todo["gui"] = {}
  /\ Visit("gui", None)
  /\ Goto("gui", "idle")
  /\ UNCHANGED <<open, listVars, mutex, mPanels, owners, shown, todo, panelVars, refresh>>

(* Mutation: Render goes on while a worker has the lock.                    *)
RenderLocksNothing(p) == TRUE

RenderLocks(p) == dataMutex[p] = None

(* Render, under the lock of the panel from the mark to the last pixel.     *)
RenderBegin ==
  LET p == cur["gui"] IN
  /\ pc["gui"] = "render"
  /\ RenderLocks(p)
  /\ IF dirty[p]
     THEN /\ dirty' = [dirty EXCEPT ![p] = FALSE]
          /\ dataMutex' = [dataMutex EXCEPT ![p] = "gui"]
          /\ Goto("gui", "draw")
     ELSE Goto("gui", "painting") /\ UNCHANGED <<dirty, dataMutex>>
  /\ UNCHANGED <<open, listVars, mutex, mPanels, owners, shown, cur, todo, series, scene, screen,
                 refresh>>

RenderEnd ==
  LET p == cur["gui"] IN
  /\ pc["gui"] = "draw"
  /\ screen' = [screen EXCEPT ![p] = scene[p]]
  /\ dataMutex' = [dataMutex EXCEPT ![p] = None]
  /\ Goto("gui", "painting")
  /\ UNCHANGED <<open, listVars, mutex, mPanels, owners, shown, cur, todo, series, scene, dirty,
                 refresh>>

(* ~MainWindow: UnsubscribeInstruments, and the panels go.                  *)
CloseWindow ==
  /\ Idle
  /\ mutex = None
  /\ open' = FALSE
  /\ subscribed' = FALSE
  /\ shown' = {}
  /\ Hold([p \in Panel |-> owners[p] \ {"gui"}])
  /\ UNCHANGED <<cache, pushed, taken, copied, posted, lists, mutex, mPanels, pc, cur, todo, refresh>>

-----------------------------------------------------------------------------
(* The dispatcher strand.                                                  *)

(* The acceptor of the list puts in one instrument after the other.         *)
AcceptInstrument ==
  /\ IoFree("data")
  /\ cache < Whole
  /\ cache' = cache + 1
  /\ UNCHANGED <<open, pushed, subscribed, taken, copied, posted, lists, mutex, mPanels, owners,
                 shown, pc, cur, todo, panelVars, refresh>>

(* OnInstrumentsLoaded, under mMutex until the panels are updated.          *)
OnInstrumentsLoaded ==
  /\ IoFree("data")
  /\ cache = Whole /\ ~pushed
  /\ mutex = None
  /\ mutex' = "data"
  /\ pushed' = TRUE
  /\ copied' = subscribed
  /\ todo' = [todo EXCEPT !["data"] = mPanels]
  /\ Goto("data", "loading")
  /\ UNCHANGED <<open, cache, subscribed, taken, posted, lists, mPanels, owners, shown, cur,
                 panelVars, refresh>>

Letgo(t) == [p \in Panel |-> IF p = cur[t] THEN owners[p] \ {t} ELSE owners[p]]

(* Each panel that is alive is updated; the last one's pointer goes first.  *)
LoadPanel ==
  /\ pc["data"] = "loading"
  /\ \E p \in todo["data"] :
       /\ todo' = [todo EXCEPT !["data"] = @ \ {p}]
       /\ IF Letgo("data")[p] # {}
          THEN /\ Hold([Letgo("data") EXCEPT ![p] = @ \cup {"data"}])
               /\ Visit("data", p)
               /\ Goto("data", "load")
          ELSE /\ Hold(Letgo("data"))
               /\ Visit("data", None)
               /\ UNCHANGED pc
  /\ UNCHANGED <<open, listVars, mutex, mPanels, shown, refresh>>

(* The callback is called after the unlock; it posts to the view, if the    *)
(* view is still there.                                                    *)
CallSubscribers ==
  \/ /\ pc["data"] = "loading"
     /\ todo["data"] = {}
     /\ mutex' = None
     /\ Hold(Letgo("data"))
     /\ Visit("data", None)
     /\ Goto("data", "call")
     /\ UNCHANGED <<open, listVars, mPanels, shown, todo, refresh>>
  \/ /\ pc["data"] = "call"
     /\ posted' = IF copied /\ open THEN Append(posted, cache) ELSE posted
     /\ Goto("data", "idle")
     /\ UNCHANGED <<open, cache, pushed, subscribed, taken, copied, lists, mutex, mPanels, owners,
                    shown, cur, todo, panelVars, refresh>>

(* A batch of trades; what it changes is drawn by the heartbeat.            *)
OnPublicTrades(p) ==
  /\ IoFree("data")
  /\ Alive(p)
  /\ dataMutex[p] = None
  /\ series[p] < MaxTrades
  /\ series' = [series EXCEPT ![p] = @ + 1]
  /\ UNCHANGED <<open, listVars, mutex, mPanels, owners, shown, pc, cur, todo, scene, dirty,
                 dataMutex, screen, refresh>>

-----------------------------------------------------------------------------
(* The heartbeat.                                                          *)

(* Mutation: the panels are moved out of the table.                         *)
CoUpdateMoves ==
  /\ IoFree("beat") \/ pc["beat"] = "again"
  /\ mutex = None
  /\ mPanels' = {}
  /\ todo' = [todo EXCEPT !["beat"] = {p \in mPanels : Alive(p)}]
  /\ owners' = [p \in Panel |->
       IF p \in mPanels /\ Alive(p) THEN owners[p] \cup {"beat"} ELSE owners[p]]
  /\ Goto("beat", "beating")
  /\ UNCHANGED <<open, listVars, mutex, shown, cur, panelVars, refresh>>

(* Expired panels leave the table, the others are held for this round.      *)
CoUpdate ==
  /\ IoFree("beat") \/ pc["beat"] = "again"
  /\ mutex = None
  /\ mPanels' = {p \in mPanels : Alive(p)}
  /\ todo' = [todo EXCEPT !["beat"] = mPanels']
  /\ owners' = [p \in Panel |-> IF p \in mPanels' THEN owners[p] \cup {"beat"} ELSE owners[p]]
  /\ Goto("beat", "beating")
  /\ UNCHANGED <<open, listVars, mutex, shown, cur, panelVars, refresh>>

BeatPanel ==
  /\ pc["beat"] = "beating"
  /\ \E p \in todo["beat"] :
       /\ todo' = [todo EXCEPT !["beat"] = @ \ {p}]
       /\ Visit("beat", p)
  /\ Goto("beat", "beat")
  /\ UNCHANGED <<open, listVars, mutex, mPanels, owners, shown, panelVars, refresh>>

(* The layout of a panel throws: its lock is released without a mark, and    *)
(* the panels behind it are passed over.                                   *)
BeatThrows ==
  LET p == cur["beat"] IN
  /\ pc["beat"] = "beat"
  /\ dataMutex[p] = "beat"
  /\ scene' = [scene EXCEPT ![p] = Partial]
  /\ dataMutex' = [dataMutex EXCEPT ![p] = None]
  /\ todo' = [todo EXCEPT !["beat"] = {}]
  /\ Goto("beat", "thrown")
  /\ UNCHANGED <<open, listVars, mutex, mPanels, owners, shown, cur, series, dirty, screen,
                 refresh>>

(* The round is over: the panels are let go and the timer is set, or, with   *)
(* an exception caught, the next round begins at once.                      *)
BeatDone ==
  /\ pc["beat"] \in {"beating", "thrown"}
  /\ todo["beat"] = {}
  /\ Hold([p \in Panel |-> owners[p] \ {"beat"}])
  /\ Visit("beat", None)
  /\ Goto("beat", IF pc["beat"] = "thrown" THEN "again" ELSE "idle")
  /\ UNCHANGED <<open, listVars, mutex, mPanels, shown, todo, refresh>>

-----------------------------------------------------------------------------
Init ==
  /\ open = TRUE
  /\ cache = 0 /\ pushed = FALSE /\ subscribed = FALSE /\ taken = 0 /\ copied = FALSE
  /\ posted = <<>> /\ lists = <<>>
  /\ mutex = None /\ mPanels = {} /\ shown = {}
  /\ owners = [p \in Panel |-> {}]
  /\ pc = [t \in Thread |-> IF t = "gui" THEN "start" ELSE "idle"]
  /\ cur = [t \in Thread |-> None]
  /\ todo = [t \in Thread |-> {}]
  /\ series = [p \in Panel |-> 0] /\ scene = series /\ screen = series
  /\ dirty = [p \in Panel |-> TRUE]
  /\ dataMutex = [p \in Panel |-> None]
  /\ refresh = FALSE

(* Steps of the program, that follow from what has been begun ...           *)
GuiStep ==
  \/ Subscribe \/ TakeList
  \/ RegisterPanel \/ StorePanel \/ InstallChart
  \/ Paint \/ OnUpdate \/ Painted \/ RenderBegin \/ RenderEnd
DataStep == AcceptInstrument \/ OnInstrumentsLoaded \/ LoadPanel \/ CallSubscribers
BeatStep == CoUpdate \/ BeatPanel \/ BeatDone
LayoutStep(t) == LayoutBegin(t) \/ LayoutEnd(t)

(* ... and those of the user, the exchange and an update that fails.        *)
Environment ==
  \/ \E p \in Panel : RegisterInstrumentPanel(p) \/ DropPanel(p) \/ Resize(p) \/ OnPublicTrades(p)
  \/ CloseWindow
  \/ BeatThrows

Next ==
  \/ GuiStep \/ DataStep \/ BeatStep
  \/ \E t \in Thread : LayoutStep(t)
  \/ Environment

(* No lock is held across a wait, so a thread that asks for one again and   *)
(* again finds it free gets it.  The list arrives.                         *)
Fairness ==
  /\ SF_vars(GuiStep) /\ SF_vars(TakeList) /\ SF_vars(Paint)
  /\ SF_vars(DataStep) /\ SF_vars(BeatStep)
  /\ \A t \in Thread : SF_vars(LayoutStep(t))

Spec == Init /\ [][Next]_vars
FairSpec == Spec /\ Fairness

-----------------------------------------------------------------------------
(* Properties.                                                             *)

(* The variables have their types; who is in an update of a panel, or draws *)
(* it, keeps it alive.                                                     *)
TypeOK ==
  /\ open \in BOOLEAN /\ pushed \in BOOLEAN /\ subscribed \in BOOLEAN /\ copied \in BOOLEAN
  /\ cache \in 0 .. Whole /\ taken \in 0 .. Whole /\ Len(posted) <= 2 /\ Len(lists) <= 2
  /\ mutex \in Thread \cup {None}
  /\ owners \in [Panel -> SUBSET Thread]
  /\ series \in [Panel -> 0 .. MaxTrades] /\ scene \in [Panel -> 0 .. MaxTrades \cup {Torn, Partial}]
  /\ dataMutex \in [Panel -> Thread \cup {None}]
  /\ \A p \in Panel : dataMutex[p] # None => dataMutex[p] \in owners[p]

(* A panel the window shows stays in the table of the heartbeat.            *)
ShownAreRegistered == shown \subseteq mPanels

(* A frame that is not marked shows the scene as it was laid out last, if    *)
(* that layout was completed.                                              *)
UnmarkedIsDrawn ==
  \A p \in shown : ~dirty[p] /\ dataMutex[p] = None => screen[p] = scene[p] \/ scene[p] = Partial

(* What holds between the tables, marks and frames at any moment            *)
(* (trade_cockpit.cpp:52-63,106-114, instrument_panel.cpp:409-464).         *)
CockpitInv == TypeOK /\ ShownAreRegistered /\ UnmarkedIsDrawn

(* No frame is drawn from a scene in the middle of its layout, whichever of *)
(* the three threads lays it out (instrument_panel.cpp:441-449).            *)
FramesAreWhole == \A p \in Panel : screen[p] # Torn

(* Every trade a panel ingests is drawn, though nothing is posted for it,   *)
(* the paint may skip its own update and an update may throw: unless they    *)
(* throw for ever (instrument_panel.cpp:390-407,524-537,                    *)
(* trade_cockpit.cpp:47-80).                                               *)
TradesAreDrawn ==
  \/ []<><<BeatThrows>>_vars
  \/ \A p \in Panel, k \in 1 .. MaxTrades :
       (p \in shown /\ series[p] = k) ~> (p \notin shown \/ screen[p] \in k .. MaxTrades)

(* The window is given the whole list, whenever it subscribes.              *)
(* trade_cockpit.hpp:66-68: "a late subscriber never deadlocks waiting for  *)
(* the next event".                                                        *)
ListArrives == <>(~open \/ \E i \in DOMAIN lists : lists[i] = Whole)
=============================================================================
