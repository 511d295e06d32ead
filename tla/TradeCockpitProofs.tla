------------------------- MODULE TradeCockpitProofs -------------------------
(***************************************************************************)
(* Proofs about TradeCockpit, for any panels, one io thread or two, and any  *)
(* lengths: the tables, locks and marks fit together at any moment, and no   *)
(* frame is drawn from a scene in the middle of its layout, through updates  *)
(* that throw.                                                             *)
(***************************************************************************)
EXTENDS TradeCockpit, SequenceTheorems, TLAPS

(* Where the GUI thread is at a panel, and where a thread lays one out.     *)
AtPanel == {"made", "register", "store", "allocate", "install", "paint", "render", "draw"}
Layouts == {"register", "allocate", "paint", "load", "beat"}

GuiLabel == AtPanel \cup {"start", "deliver", "post", "idle", "painting"}
DataLabel == {"idle", "loading", "load", "call"}
BeatLabel == {"idle", "beating", "beat", "thrown", "again"}
Label == GuiLabel \cup DataLabel \cup BeatLabel

Types ==
  /\ open \in BOOLEAN /\ pushed \in BOOLEAN /\ subscribed \in BOOLEAN /\ copied \in BOOLEAN
  /\ cache \in 0 .. Whole /\ taken \in 0 .. Whole
  /\ posted \in Seq(0 .. Whole) /\ lists \in Seq(0 .. Whole)
  /\ mutex \in Thread \cup {None}
  /\ mPanels \subseteq Panel /\ shown \subseteq Panel
  /\ owners \in [Panel -> SUBSET Thread]
  /\ pc \in [Thread -> Label]
  /\ pc["gui"] \in GuiLabel /\ pc["data"] \in DataLabel /\ pc["beat"] \in BeatLabel
  /\ cur \in [Thread -> Panel \cup {None}]
  /\ todo \in [Thread -> SUBSET Panel]
  /\ series \in [Panel -> 0 .. MaxTrades]
  /\ scene \in [Panel -> 0 .. MaxTrades \cup {Torn, Partial}]
  /\ dirty \in [Panel -> BOOLEAN]
  /\ dataMutex \in [Panel -> Thread \cup {None}]
  /\ screen \in [Panel -> 0 .. MaxTrades \cup {Partial}]

(* Who is at a panel, or has yet to visit it, keeps it alive; the loading    *)
(* strand takes hold of the next one only when it is there.                *)
Held ==
  /\ \A p \in shown : "gui" \in owners[p]
  /\ pc["gui"] \in AtPanel => cur["gui"] \in Panel /\ "gui" \in owners[cur["gui"]]
  /\ pc["gui"] \in {"painting", "paint", "render", "draw"} => todo["gui"] \subseteq shown
  /\ pc["data"] = "load" => cur["data"] \in Panel /\ "data" \in owners[cur["data"]]
  /\ pc["beat"] \in {"beating", "beat"} => \A p \in todo["beat"] : "beat" \in owners[p]
  /\ pc["beat"] = "beat" => cur["beat"] \in Panel /\ "beat" \in owners[cur["beat"]]

(* A panel the window shows, or is about to, is in the table.               *)
Registered ==
  /\ shown \subseteq mPanels
  /\ pc["gui"] \in {"allocate", "install"} => cur["gui"] \in mPanels

(* Who has the lock of a panel lays it out or draws it, and a torn scene is  *)
(* in the hands of who lays it out.                                        *)
Locked ==
  /\ \A p \in Panel : dataMutex[p] # None =>
       /\ cur[dataMutex[p]] = p
       /\ pc[dataMutex[p]] \in Layouts \cup {"draw"}
  /\ \A p \in Panel : scene[p] = Torn =>
       /\ dataMutex[p] # None
       /\ pc[dataMutex[p]] \in Layouts
  /\ pc["gui"] \in {"paint", "draw"} => dataMutex[cur["gui"]] = "gui"

Drawn ==
  \A p \in Panel : ~dirty[p] /\ dataMutex[p] = None => screen[p] = scene[p] \/ scene[p] = Partial

(* The list is posted once for the subscription and once for its arrival.   *)
Delivered ==
  /\ pc["data"] # "idle" => pushed
  /\ Len(posted) + Len(lists) <=
       (IF pc["gui"] \in {"start", "deliver", "post"} THEN 0 ELSE 1)
         + (IF pushed /\ pc["data"] = "idle" THEN 1 ELSE 0)

IInv == Types /\ Held /\ Registered /\ Locked /\ Drawn /\ Delivered

-----------------------------------------------------------------------------
LEMMA Constants ==
  /\ Whole \in Nat /\ MaxTrades \in Nat /\ 0 \in 0 .. Whole /\ 0 \in 0 .. MaxTrades
  /\ Whole \in 0 .. Whole
  /\ None \notin Thread /\ None \notin Panel
  /\ Torn \notin 0 .. MaxTrades /\ Partial \notin 0 .. MaxTrades /\ Torn # Partial
BY CockpitAssumption DEF Thread

LEMMA InitIInv == Init => IInv
<1>. SUFFICES ASSUME Init PROVE IInv
  OBVIOUS
<1>. USE Constants DEF Init
<1>1. Types
  <2>1. /\ pc["gui"] = "start" /\ pc["data"] = "idle" /\ pc["beat"] = "idle"
        /\ pc \in [Thread -> Label]
    BY DEF Label, GuiLabel, DataLabel, Thread
  <2>2. posted \in Seq(0 .. Whole) /\ lists \in Seq(0 .. Whole)
    OBVIOUS
  <2>. QED BY <2>1, <2>2 DEF Types, GuiLabel, DataLabel, BeatLabel
<1>2. Held /\ Registered /\ Locked /\ Drawn /\ Delivered
  BY DEF Held, Registered, Locked, Drawn, Delivered, AtPanel, Thread
<1>. QED BY <1>1, <1>2 DEF IInv

LEMMA SubscribeStep == IInv /\ Subscribe => IInv'
<1>. SUFFICES ASSUME IInv, Subscribe PROVE IInv'
  OBVIOUS
<1>. USE Constants DEF Subscribe, SubscribeInstruments, panelVars, Goto, IInv
<1>1. ASSUME pc["gui"] = "start", subscribed' = TRUE, pc' = [pc EXCEPT !["gui"] = "deliver"],
             UNCHANGED <<taken, posted>>
      PROVE  IInv'
  <2>1. Types'
    BY <1>1 DEF Types, Label, GuiLabel, Thread
  <2>2. (Held /\ Registered /\ Delivered)'
    BY <1>1 DEF Types, Held, Registered, Delivered, AtPanel, Thread
  <2>3. (Locked /\ Drawn)'
    BY <1>1 DEF Types, Locked, Drawn, Layouts, Thread
  <2>. QED BY <2>1, <2>2, <2>3
<1>2. ASSUME pc["gui"] = "deliver", taken' = cache, UNCHANGED <<subscribed, posted>>,
             NEW next \in {"post", "idle"}, pc' = [pc EXCEPT !["gui"] = next]
      PROVE  IInv'
  <2>1. Types'
    BY <1>2 DEF Types, Label, GuiLabel, Thread
  <2>2. (Held /\ Registered)'
    BY <1>2 DEF Types, Held, Registered, AtPanel, Thread
  <2>3. Delivered'
    <3>1. Len(posted) \in Nat /\ Len(lists) \in Nat
      BY DEF Types
    <3>. QED BY <1>2, <3>1 DEF Types, Delivered, Thread
  <2>4. (Locked /\ Drawn)'
    BY <1>2 DEF Types, Locked, Drawn, Layouts, Thread
  <2>. QED BY <2>1, <2>2, <2>3, <2>4
<1>3. ASSUME pc["gui"] = "post", pc' = [pc EXCEPT !["gui"] = "idle"],
             UNCHANGED <<subscribed, taken>>, posted' = Append(posted, taken)
      PROVE  IInv'
  <2>1. /\ posted' \in Seq(0 .. Whole) /\ Len(posted') = Len(posted) + 1
        /\ Len(posted) \in Nat /\ Len(lists) \in Nat
    BY <1>3 DEF Types
  <2>2. Types'
    BY <1>3, <2>1 DEF Types, Label, GuiLabel, Thread
  <2>3. (Held /\ Registered)'
    BY <1>3 DEF Types, Held, Registered, AtPanel, Thread
  <2>4. Delivered'
    BY <1>3, <2>1 DEF Types, Delivered, Thread
  <2>5. (Locked /\ Drawn)'
    BY <1>3 DEF Types, Locked, Drawn, Layouts, Thread
  <2>. QED BY <2>2, <2>3, <2>4, <2>5
<1>. QED BY <1>1, <1>2, <1>3

LEMMA TakeListStep == IInv /\ TakeList => IInv'
<1>. SUFFICES ASSUME IInv, TakeList PROVE IInv'
  OBVIOUS
<1>. USE Constants DEF TakeList, panelVars, IInv, Idle
<1>1. /\ posted' \in Seq(0 .. Whole) /\ lists' \in Seq(0 .. Whole)
      /\ Len(posted') = Len(posted) - 1 /\ Len(lists') = Len(lists) + 1
      /\ Len(posted) \in Nat /\ Len(lists) \in Nat
  BY DEF Types
<1>2. Types'
  BY <1>1 DEF Types
<1>3. (Held /\ Registered /\ Locked /\ Drawn)'
  BY DEF Held, Registered, Locked, Drawn
<1>4. Delivered'
  <2>1. UNCHANGED <<pc, pushed>> /\ Delivered
    OBVIOUS
  <2>2. Len(posted') + Len(lists') = Len(posted) + Len(lists)
    BY <1>1
  <2>. HIDE DEF TakeList, panelVars, IInv, Idle
  <2>. QED BY <2>1, <2>2 DEF Delivered
<1>. QED BY <1>2, <1>3, <1>4

LEMMA RegisterStep ==
  IInv /\ ((\E p \in Panel : RegisterInstrumentPanel(p)) \/ RegisterPanel \/ StorePanel
           \/ InstallChart) => IInv'
<1>. USE Constants DEF panelVars, listVars, IInv, Idle, Goto, Visit, Alive
<1>1. ASSUME IInv, NEW p \in Panel, RegisterInstrumentPanel(p) PROVE IInv'
  <2>1. Types'
    BY <1>1 DEF RegisterInstrumentPanel, Types, Label, GuiLabel, Thread, AtPanel
  <2>2. (Held /\ Registered)'
    BY <1>1 DEF RegisterInstrumentPanel, Types, Held, Registered, AtPanel, Thread
  <2>3. (Locked /\ Drawn /\ Delivered)'
    BY <1>1, SMTT(30) DEF RegisterInstrumentPanel, Types, Locked, Drawn, Delivered, Layouts, Thread
  <2>. QED BY <2>1, <2>2, <2>3
<1>2. ASSUME IInv, RegisterPanel PROVE IInv'
  <2>1. Types'
    BY <1>2 DEF RegisterPanel, Types, Label, GuiLabel, Thread, AtPanel
  <2>2. (Held /\ Registered)'
    BY <1>2 DEF RegisterPanel, Types, Held, Registered, AtPanel, Thread
  <2>3. (Locked /\ Drawn /\ Delivered)'
    BY <1>2 DEF RegisterPanel, Types, Locked, Drawn, Delivered, Layouts, Thread
  <2>. QED BY <2>1, <2>2, <2>3
<1>3. ASSUME IInv, StorePanel PROVE IInv'
  <2>1. Types'
    BY <1>3 DEF StorePanel, Types, Held, Label, GuiLabel, Thread, AtPanel
  <2>2. (Held /\ Registered)'
    BY <1>3 DEF StorePanel, Types, Held, Registered, AtPanel, Thread
  <2>3. (Locked /\ Drawn /\ Delivered)'
    BY <1>3 DEF StorePanel, Types, Locked, Drawn, Delivered, Layouts, Thread
  <2>. QED BY <2>1, <2>2, <2>3
<1>4. ASSUME IInv, InstallChart PROVE IInv'
  <2>1. Types'
    BY <1>4 DEF InstallChart, Types, Held, Label, GuiLabel, Thread, AtPanel
  <2>2. (Held /\ Registered)'
    BY <1>4 DEF InstallChart, Types, Held, Registered, AtPanel, Thread
  <2>3. (Locked /\ Drawn /\ Delivered)'
    BY <1>4 DEF InstallChart, Types, Locked, Drawn, Delivered, Layouts, Thread
  <2>. QED BY <2>1, <2>2, <2>3
<1>. QED BY <1>1, <1>2, <1>3, <1>4

LEMMA LayoutStepInv == ASSUME NEW t \in Thread, IInv, LayoutStep(t) PROVE IInv'
<1>. USE Constants DEF listVars, IInv, Goto, AfterLayout
<1>1. CASE LayoutBegin(t)
  <2>. USE <1>1 DEF LayoutBegin
  <2>1. Types'
    BY DEF Types
  <2>2. (Held /\ Registered /\ Delivered)'
    BY DEF Held, Registered, Delivered
  <2>3. (Locked /\ Drawn)'
    BY DEF Types, Held, Locked, Drawn, AtPanel, Layouts, Thread, GuiLabel, DataLabel, BeatLabel
  <2>. QED BY <2>1, <2>2, <2>3
<1>2. CASE LayoutEnd(t)
  <2>. USE <1>2 DEF LayoutEnd
  <2>1. Types'
    BY SMTT(30) DEF Types, Held, Label, GuiLabel, DataLabel, BeatLabel, AtPanel, Thread
  <2>2. Held'
    BY SMTT(30) DEF Types, Held, AtPanel, Thread, GuiLabel, DataLabel, BeatLabel
  <2>4. (Registered /\ Delivered)'
    BY DEF Types, Registered, Delivered, AtPanel, Thread, GuiLabel, DataLabel, BeatLabel
  <2>3. (Locked /\ Drawn)'
    BY SMTT(30) DEF Types, Held, Locked, Drawn, AtPanel, Layouts, Thread, GuiLabel, DataLabel, BeatLabel
  <2>. QED BY <2>1, <2>2, <2>3, <2>4
<1>. QED BY <1>1, <1>2 DEF LayoutStep

(* What is left of the panels nobody holds is as it was made.               *)
LEMMA HoldFacts ==
  ASSUME IInv, NEW holders \in [Panel -> SUBSET Thread], Hold(holders)
  PROVE  /\ owners' = holders /\ dataMutex' = dataMutex
         /\ series' \in [Panel -> 0 .. MaxTrades]
         /\ scene' \in [Panel -> 0 .. MaxTrades \cup {Torn, Partial}]
         /\ dirty' \in [Panel -> BOOLEAN]
         /\ screen' \in [Panel -> 0 .. MaxTrades \cup {Partial}]
         /\ \A p \in Panel : scene'[p] = Torn => scene[p] = Torn
         /\ Drawn'
BY Constants DEF Hold, IInv, Types, Drawn

(* When the GUI thread lets go of every panel, the others hold what they did. *)
LEMMA LeftHeld ==
  ASSUME NEW holders, \A q \in Panel : holders[q] = owners[q] \ {"gui"},
         Held, pc["gui"] = "idle", todo["beat"] \subseteq Panel,
         owners' = holders, UNCHANGED <<pc, cur, todo>>, shown' = {}
  PROVE  Held'
<1>1. \A q \in Panel : /\ "data" \in owners[q] => "data" \in owners'[q]
                      /\ "beat" \in owners[q] => "beat" \in owners'[q]
  OBVIOUS
<1>2. pc["data"] = "load" => cur["data"] \in Panel /\ "data" \in owners'[cur["data"]]
  BY <1>1 DEF Held
<1>3. pc["beat"] = "beat" => cur["beat"] \in Panel /\ "beat" \in owners'[cur["beat"]]
  BY <1>1 DEF Held
<1>4. pc["beat"] \in {"beating", "beat"} => \A q \in todo["beat"] : "beat" \in owners'[q]
  BY <1>1 DEF Held
<1>. QED BY <1>2, <1>3, <1>4 DEF Held, AtPanel

LEMMA DropStep ==
  IInv /\ ((\E p \in Panel : DropPanel(p) \/ Resize(p)) \/ CloseWindow) => IInv'
<1>. USE Constants DEF panelVars, listVars, IInv, Idle, Goto, Visit
<1>1. ASSUME IInv, NEW p \in Panel, DropPanel(p) PROVE IInv'
  <2>. DEFINE holders == [owners EXCEPT ![p] = @ \ {"gui"}]
  <2>1. holders \in [Panel -> SUBSET Thread] /\ Hold(holders)
    BY <1>1 DEF DropPanel, Types
  <2>2. \A q \in Panel : holders[q] = IF q = p THEN owners[q] \ {"gui"} ELSE owners[q]
    BY <1>1 DEF Types
  <2>. HIDE DEF holders
  <2>3. Types'
    BY <1>1, <2>1, HoldFacts DEF DropPanel, Types
  <2>4. Held'
    BY <1>1, <2>1, <2>2, HoldFacts, ZenonT(30) DEF DropPanel, Types, Held, AtPanel, Thread
  <2>6. (Registered /\ Delivered)'
    BY <1>1 DEF DropPanel, Registered, Delivered
  <2>5. (Locked /\ Drawn)'
    BY <1>1, <2>1, HoldFacts DEF DropPanel, Locked
  <2>. QED BY <2>3, <2>4, <2>5, <2>6
<1>2. ASSUME IInv, NEW p \in Panel, Resize(p) PROVE IInv'
  <2>1. Types'
    BY <1>2 DEF Resize, Types, Label, GuiLabel, AtPanel, Thread
  <2>2. (Held /\ Registered /\ Delivered)'
    BY <1>2 DEF Resize, Types, Held, Registered, Delivered, AtPanel, Thread
  <2>3. (Locked /\ Drawn)'
    BY <1>2 DEF Resize, Types, Locked, Drawn, Layouts, Thread
  <2>. QED BY <2>1, <2>2, <2>3
<1>3. ASSUME IInv, CloseWindow PROVE IInv'
  <2>. DEFINE holders == [p \in Panel |-> owners[p] \ {"gui"}]
  <2>1. holders \in [Panel -> SUBSET Thread] /\ Hold(holders)
    BY <1>3 DEF CloseWindow, Types
  <2>2. \A q \in Panel : holders[q] = owners[q] \ {"gui"}
    OBVIOUS
  <2>. HIDE DEF holders
  <2>3. Types'
    BY <1>3, <2>1, HoldFacts DEF CloseWindow, Types
  <2>4. Held'
    <3>1. /\ owners' = holders /\ UNCHANGED <<pc, cur, todo>> /\ shown' = {}
          /\ pc["gui"] = "idle" /\ Held /\ todo["beat"] \subseteq Panel
      BY <1>3, <2>1, HoldFacts DEF CloseWindow, Types, Thread
    <3>. QED BY <2>2, <3>1, LeftHeld
  <2>6. (Registered /\ Delivered)'
    BY <1>3 DEF CloseWindow, Registered, Delivered
  <2>5. (Locked /\ Drawn)'
    BY <1>3, <2>1, HoldFacts DEF CloseWindow, Locked
  <2>. QED BY <2>3, <2>4, <2>5, <2>6
<1>. QED BY <1>1, <1>2, <1>3

LEMMA PaintStep ==
  IInv /\ (Paint \/ OnUpdate \/ Painted \/ RenderBegin \/ RenderEnd) => IInv'
<1>. USE Constants DEF panelVars, listVars, IInv, Idle, Goto, Visit
<1>1. ASSUME IInv, Paint PROVE IInv'
  <2>1. Types'
    BY <1>1 DEF Paint, Types, Label, GuiLabel, Thread
  <2>2. (Held /\ Registered /\ Delivered)'
    BY <1>1 DEF Paint, Types, Held, Registered, Delivered, AtPanel, Thread
  <2>3. (Locked /\ Drawn)'
    BY <1>1 DEF Paint, Types, Locked, Drawn, Layouts, Thread
  <2>. QED BY <2>1, <2>2, <2>3
<1>2. ASSUME IInv, OnUpdate PROVE IInv'
  <2>. PICK p \in todo["gui"] :
         /\ cur' = [cur EXCEPT !["gui"] = p]
         /\ todo' = [todo EXCEPT !["gui"] = @ \ {p}]
         /\ \/ /\ dataMutex[p] = None
               /\ dataMutex' = [dataMutex EXCEPT ![p] = "gui"]
               /\ scene' = [scene EXCEPT ![p] = Torn]
               /\ pc' = [pc EXCEPT !["gui"] = "paint"]
            \/ /\ pc' = [pc EXCEPT !["gui"] = "render"]
               /\ UNCHANGED <<dataMutex, scene>>
    BY <1>2 DEF OnUpdate
  <2>1. p \in Panel /\ p \in shown /\ "gui" \in owners[p]
    BY <1>2 DEF OnUpdate, Types, Held, Thread
  <2>2. CASE /\ dataMutex[p] = None
             /\ dataMutex' = [dataMutex EXCEPT ![p] = "gui"]
             /\ scene' = [scene EXCEPT ![p] = Torn]
             /\ pc' = [pc EXCEPT !["gui"] = "paint"]
    <3>1. Types'
      BY <1>2, <2>1, <2>2 DEF OnUpdate, Types, Label, GuiLabel, AtPanel, Thread
    <3>2. (Held /\ Registered /\ Delivered)'
      BY <1>2, <2>1, <2>2 DEF OnUpdate, Types, Held, Registered, Delivered, AtPanel, Thread
    <3>3. Locked'
      BY <1>2, <2>1, <2>2 DEF OnUpdate, Types, Locked, Layouts, Thread
    <3>4. Drawn'
      BY <1>2, <2>1, <2>2 DEF OnUpdate, Types, Drawn, Thread
    <3>. QED BY <3>1, <3>2, <3>3, <3>4
  <2>3. CASE pc' = [pc EXCEPT !["gui"] = "render"] /\ UNCHANGED <<dataMutex, scene>>
    <3>1. Types'
      BY <1>2, <2>1, <2>3 DEF OnUpdate, Types, Label, GuiLabel, AtPanel, Thread
    <3>2. (Held /\ Registered /\ Delivered)'
      BY <1>2, <2>1, <2>3 DEF OnUpdate, Types, Held, Registered, Delivered, AtPanel, Thread
    <3>3. (Locked /\ Drawn)'
      BY <1>2, <2>1, <2>3, SMTT(30) DEF OnUpdate, Types, Locked, Drawn, Layouts, Thread
    <3>. QED BY <3>1, <3>2, <3>3
  <2>. QED BY <2>2, <2>3
<1>3. ASSUME IInv, Painted PROVE IInv'
  <2>1. Types'
    BY <1>3 DEF Painted, Types, Label, GuiLabel, Thread
  <2>2. (Held /\ Registered /\ Delivered)'
    BY <1>3 DEF Painted, Types, Held, Registered, Delivered, AtPanel, Thread
  <2>3. (Locked /\ Drawn)'
    BY <1>3 DEF Painted, Types, Locked, Drawn, Layouts, Thread
  <2>. QED BY <2>1, <2>2, <2>3
<1>4. ASSUME IInv, RenderBegin PROVE IInv'
  <2>1. cur["gui"] \in Panel
    BY <1>4 DEF RenderBegin, Held, AtPanel
  <2>2. (Held /\ Registered /\ Delivered)'
    BY <1>4, <2>1, SMTT(30) DEF RenderBegin, Types, Held, Registered, Delivered, AtPanel, Thread
  <2>5. UNCHANGED <<open, listVars, mutex, mPanels, owners, shown, cur, todo, series, scene,
                    screen, refresh>>
    BY <1>4 DEF RenderBegin
  <2>3. CASE /\ dirty' = [dirty EXCEPT ![cur["gui"]] = FALSE]
             /\ dataMutex' = [dataMutex EXCEPT ![cur["gui"]] = "gui"]
             /\ pc' = [pc EXCEPT !["gui"] = "draw"]
             /\ dataMutex[cur["gui"]] = None
    <3>1. Types'
      BY <1>4, <2>1, <2>3, <2>5 DEF Types, Label, GuiLabel, AtPanel, Thread
    <3>2. Locked'
      BY <1>4, <2>1, <2>3, <2>5 DEF Types, Locked, Layouts, Thread
    <3>3. Drawn'
      BY <1>4, <2>1, <2>3, <2>5 DEF Types, Drawn, Thread
    <3>. QED BY <2>2, <3>1, <3>2, <3>3
  <2>4. CASE pc' = [pc EXCEPT !["gui"] = "painting"] /\ UNCHANGED <<dirty, dataMutex>>
    <3>1. Types'
      BY <1>4, <2>1, <2>4, <2>5 DEF Types, Label, GuiLabel, AtPanel, Thread
    <3>2. pc["gui"] = "render"
      BY <1>4 DEF RenderBegin
    <3>3. (Locked /\ Drawn)'
      BY <1>4, <2>4, <2>5, <3>2 DEF Types, Locked, Drawn, Layouts, Thread
    <3>. QED BY <2>2, <3>1, <3>3
  <2>. QED BY <1>4, <2>3, <2>4 DEF RenderBegin, RenderLocks
<1>5. ASSUME IInv, RenderEnd PROVE IInv'
  <2>1. /\ cur["gui"] \in Panel /\ dataMutex[cur["gui"]] = "gui"
        /\ scene[cur["gui"]] \in 0 .. MaxTrades \cup {Partial}
    <3>1. cur["gui"] \in Panel /\ dataMutex[cur["gui"]] = "gui"
      BY <1>5 DEF RenderEnd, Held, Locked, AtPanel
    <3>2. scene[cur["gui"]] # Torn
      BY <1>5, <3>1 DEF RenderEnd, Locked, Layouts
    <3>. QED BY <1>5, <3>1, <3>2 DEF Types
  <2>2. Types'
    BY <1>5, <2>1 DEF RenderEnd, Types, Label, GuiLabel, AtPanel, Thread
  <2>3. (Held /\ Registered /\ Delivered)'
    BY <1>5, <2>1 DEF RenderEnd, Types, Held, Registered, Delivered, AtPanel, Thread
  <2>4. (Locked /\ Drawn)'
    BY <1>5, <2>1 DEF RenderEnd, Types, Locked, Drawn, Layouts, Thread
  <2>. QED BY <2>2, <2>3, <2>4
<1>. QED BY <1>1, <1>2, <1>3, <1>4, <1>5

(* A thread that has no lock leaves the locks as they are.                  *)
LEMMA LockedKept ==
  ASSUME IInv, NEW t \in {"data", "beat"}, pc[t] \notin Layouts,
         dataMutex' = dataMutex, \A p \in Panel : scene'[p] = Torn => scene[p] = Torn,
         \A u \in Thread \ {t} : pc'[u] = pc[u] /\ cur'[u] = cur[u]
  PROVE  Locked'
<1>1. \A p \in Panel : dataMutex[p] # None =>
        /\ dataMutex[p] \in Thread \ {t}
        /\ pc'[dataMutex[p]] = pc[dataMutex[p]] /\ cur'[dataMutex[p]] = cur[dataMutex[p]]
  BY DEF IInv, Types, Locked, DataLabel, BeatLabel
<1>2. pc'["gui"] = pc["gui"] /\ cur'["gui"] = cur["gui"]
  BY DEF Thread
<1>. QED BY <1>1, <1>2 DEF IInv, Locked

LEMMA ListStep == IInv /\ (AcceptInstrument \/ OnInstrumentsLoaded) => IInv'
<1>. USE Constants DEF panelVars, listVars, IInv, IoFree, Goto
<1>1. ASSUME IInv, AcceptInstrument PROVE IInv'
  <2>1. Types'
    BY <1>1 DEF AcceptInstrument, Types
  <2>2. (Held /\ Registered /\ Locked /\ Drawn /\ Delivered)'
    BY <1>1 DEF AcceptInstrument, Held, Registered, Locked, Drawn, Delivered
  <2>. QED BY <2>1, <2>2
<1>2. ASSUME IInv, OnInstrumentsLoaded PROVE IInv'
  <2>1. Types'
    BY <1>2 DEF OnInstrumentsLoaded, Types, Label, DataLabel, Thread
  <2>2. (Held /\ Registered)'
    BY <1>2 DEF OnInstrumentsLoaded, Types, Held, Registered, Thread
  <2>3. (Locked /\ Drawn)'
    BY <1>2 DEF OnInstrumentsLoaded, Types, Locked, Drawn, Layouts, Thread
  <2>4. Delivered'
    BY <1>2 DEF OnInstrumentsLoaded, Types, Delivered, Thread
  <2>. QED BY <2>1, <2>2, <2>3, <2>4
<1>. QED BY <1>1, <1>2

LEMMA LetgoFacts ==
  ASSUME IInv
  PROVE  /\ Letgo("data") \in [Panel -> SUBSET Thread]
         /\ \A p \in Panel : /\ owners[p] \ {"data"} \subseteq Letgo("data")[p]
                             /\ Letgo("data")[p] \subseteq owners[p]
BY DEF Letgo, IInv, Types, Thread

LEMMA LoadStep == IInv /\ LoadPanel => IInv'
<1>. SUFFICES ASSUME IInv, LoadPanel PROVE IInv'
  OBVIOUS
<1>. USE Constants DEF listVars, Goto, Visit
<1>. DEFINE left == Letgo("data")
<1>1. /\ left \in [Panel -> SUBSET Thread]
      /\ \A p \in Panel : owners[p] \ {"data"} \subseteq left[p]
  BY LetgoFacts
<1>2. PICK p \in todo["data"] :
        /\ todo' = [todo EXCEPT !["data"] = @ \ {p}]
        /\ \/ /\ Hold([left EXCEPT ![p] = @ \cup {"data"}])
              /\ cur' = [cur EXCEPT !["data"] = p]
              /\ pc' = [pc EXCEPT !["data"] = "load"]
           \/ /\ Hold(left)
              /\ cur' = [cur EXCEPT !["data"] = None]
              /\ UNCHANGED pc
  BY DEF LoadPanel
<1>3. /\ p \in Panel /\ pc["data"] = "loading"
      /\ UNCHANGED <<open, listVars, mutex, mPanels, shown, refresh>>
  BY DEF LoadPanel, IInv, Types, Thread
<1>. HIDE DEF left
<1>4. CASE /\ Hold([left EXCEPT ![p] = @ \cup {"data"}])
           /\ cur' = [cur EXCEPT !["data"] = p]
           /\ pc' = [pc EXCEPT !["data"] = "load"]
  <2>. DEFINE holders == [left EXCEPT ![p] = @ \cup {"data"}]
  <2>1. /\ holders \in [Panel -> SUBSET Thread] /\ Hold(holders)
        /\ "data" \in holders[p] /\ \A q \in Panel : owners[q] \ {"data"} \subseteq holders[q]
    BY <1>1, <1>3, <1>4 DEF Thread
  <2>. HIDE DEF holders
  <2>2. Types'
    BY <1>2, <1>3, <1>4, <2>1, HoldFacts DEF IInv, Types, Label, DataLabel, Thread
  <2>3. Held'
    BY <1>2, <1>3, <1>4, <2>1, HoldFacts DEF IInv, Types, Held, Thread, AtPanel
  <2>4. (Registered /\ Delivered)'
    BY <1>2, <1>3, <1>4 DEF IInv, Types, Registered, Delivered, Thread
  <2>5. (Locked /\ Drawn)'
    <3>1. \A u \in Thread \ {"data"} : pc'[u] = pc[u] /\ cur'[u] = cur[u]
      BY <1>4 DEF IInv, Types
    <3>. QED BY <1>3, <2>1, <3>1, HoldFacts, LockedKept DEF Layouts
  <2>. QED BY <2>2, <2>3, <2>4, <2>5 DEF IInv
<1>5. CASE Hold(left) /\ cur' = [cur EXCEPT !["data"] = None] /\ UNCHANGED pc
  <2>2. Types'
    BY <1>1, <1>2, <1>3, <1>5, HoldFacts DEF IInv, Types, Thread
  <2>3. Held'
    BY <1>1, <1>2, <1>3, <1>5, HoldFacts DEF IInv, Types, Held, Thread, AtPanel
  <2>4. (Registered /\ Delivered)'
    BY <1>2, <1>3, <1>5 DEF IInv, Types, Registered, Delivered, Thread
  <2>5. (Locked /\ Drawn)'
    <3>1. \A u \in Thread \ {"data"} : pc'[u] = pc[u] /\ cur'[u] = cur[u]
      BY <1>5 DEF IInv, Types
    <3>. QED BY <1>1, <1>3, <1>5, <3>1, HoldFacts, LockedKept DEF Layouts
  <2>. QED BY <2>2, <2>3, <2>4, <2>5 DEF IInv
<1>. QED BY <1>2, <1>4, <1>5

LEMMA CallStep == IInv /\ CallSubscribers => IInv'
<1>. USE Constants DEF listVars, panelVars, Goto, Visit
<1>1. ASSUME IInv, pc["data"] = "loading", mutex' = None, Hold(Letgo("data")),
             cur' = [cur EXCEPT !["data"] = None], pc' = [pc EXCEPT !["data"] = "call"],
             UNCHANGED <<open, listVars, mPanels, shown, todo, refresh>>
      PROVE  IInv'
  <2>2. Types'
    BY <1>1, LetgoFacts, HoldFacts DEF IInv, Types, Label, DataLabel, Thread
  <2>3. Held'
    BY <1>1, LetgoFacts, HoldFacts DEF IInv, Types, Held, Thread, AtPanel
  <2>4. (Registered /\ Delivered)'
    BY <1>1 DEF IInv, Types, Registered, Delivered, Thread
  <2>5. (Locked /\ Drawn)'
    <3>1. \A u \in Thread \ {"data"} : pc'[u] = pc[u] /\ cur'[u] = cur[u]
      BY <1>1 DEF IInv, Types
    <3>. QED BY <1>1, <3>1, LetgoFacts, HoldFacts, LockedKept DEF Layouts
  <2>. QED BY <2>2, <2>3, <2>4, <2>5 DEF IInv
<1>2. ASSUME IInv, pc["data"] = "call", pc' = [pc EXCEPT !["data"] = "idle"],
             posted' = IF copied /\ open THEN Append(posted, cache) ELSE posted,
             UNCHANGED <<open, cache, pushed, subscribed, taken, copied, lists, mutex, mPanels,
                         owners, shown, cur, todo, panelVars, refresh>>
      PROVE  IInv'
  <2>1. /\ posted' \in Seq(0 .. Whole) /\ Len(posted') <= Len(posted) + 1
        /\ Len(posted) \in Nat /\ Len(lists) \in Nat /\ Len(posted') \in Nat
    <3>1. /\ Append(posted, cache) \in Seq(0 .. Whole)
          /\ Len(Append(posted, cache)) = Len(posted) + 1
          /\ posted \in Seq(0 .. Whole) /\ Len(posted) \in Nat /\ Len(lists) \in Nat
      BY <1>2 DEF IInv, Types
    <3>2. CASE copied /\ open
      BY <1>2, <3>1, <3>2
    <3>3. CASE ~ (copied /\ open)
      BY <1>2, <3>1, <3>3
    <3>. QED BY <3>2, <3>3
  <2>2. Types'
    BY <1>2, <2>1 DEF IInv, Types, Label, DataLabel, Thread
  <2>3. (Held /\ Registered)'
    BY <1>2 DEF IInv, Types, Held, Registered, Thread, AtPanel
  <2>4. Delivered'
    BY <1>2, <2>1 DEF IInv, Types, Delivered, Thread
  <2>5. (Locked /\ Drawn)'
    BY <1>2, SMTT(30) DEF IInv, Types, Locked, Drawn, Layouts, Thread
  <2>. QED BY <2>2, <2>3, <2>4, <2>5 DEF IInv
<1>. QED BY <1>1, <1>2 DEF CallSubscribers

LEMMA TradesStep == ASSUME IInv, NEW p \in Panel, OnPublicTrades(p) PROVE IInv'
<1>. USE Constants DEF listVars, IInv
<1>1. Types'
  BY DEF OnPublicTrades, Types
<1>2. (Held /\ Registered /\ Locked /\ Drawn /\ Delivered)'
  BY DEF OnPublicTrades, Held, Registered, Locked, Drawn, Delivered
<1>. QED BY <1>1, <1>2

LEMMA BeatStepInv == IInv /\ BeatStep => IInv'
<1>. USE Constants DEF listVars, panelVars, Goto, Visit
<1>1. ASSUME IInv, CoUpdate PROVE IInv'
  <2>1. /\ pc["beat"] \in {"idle", "again"} /\ pc' = [pc EXCEPT !["beat"] = "beating"]
        /\ mPanels' \subseteq mPanels /\ \A p \in mPanels : owners[p] # {} => p \in mPanels'
        /\ todo' = [todo EXCEPT !["beat"] = mPanels']
        /\ UNCHANGED <<open, listVars, mutex, shown, cur, panelVars, refresh>>
    BY <1>1 DEF CoUpdate, IoFree, Alive
  <2>2. /\ owners' \in [Panel -> SUBSET Thread]
        /\ \A p \in Panel : owners[p] \subseteq owners'[p]
        /\ \A p \in mPanels' : "beat" \in owners'[p]
    BY <1>1 DEF CoUpdate, IInv, Types, Thread
  <2>3. Types'
    BY <1>1, <2>1, <2>2 DEF IInv, Types, Label, BeatLabel, Thread
  <2>4. Held'
    BY <1>1, <2>1, <2>2 DEF IInv, Types, Held, Thread, AtPanel
  <2>5. (Registered /\ Delivered)'
    BY <1>1, <2>1 DEF IInv, Types, Held, Registered, Delivered, Thread, AtPanel
  <2>6. (Locked /\ Drawn)'
    BY <1>1, <2>1 DEF IInv, Types, Locked, Drawn, Layouts, Thread
  <2>. QED BY <2>3, <2>4, <2>5, <2>6 DEF IInv
<1>2. ASSUME IInv, BeatPanel PROVE IInv'
  <2>. PICK p \in todo["beat"] : todo' = [todo EXCEPT !["beat"] = @ \ {p}]
                                 /\ cur' = [cur EXCEPT !["beat"] = p]
    BY <1>2 DEF BeatPanel
  <2>1. p \in Panel /\ "beat" \in owners[p]
    BY <1>2 DEF BeatPanel, IInv, Types, Held, Thread
  <2>2. Types'
    BY <1>2, <2>1 DEF BeatPanel, IInv, Types, Label, BeatLabel, Thread
  <2>3. (Held /\ Registered /\ Delivered)'
    BY <1>2, <2>1 DEF BeatPanel, IInv, Types, Held, Registered, Delivered, Thread, AtPanel
  <2>4. (Locked /\ Drawn)'
    BY <1>2, <2>1 DEF BeatPanel, IInv, Types, Locked, Drawn, Layouts, Thread
  <2>. QED BY <2>2, <2>3, <2>4 DEF IInv
<1>3. ASSUME IInv, BeatDone PROVE IInv'
  <2>. DEFINE holders == [p \in Panel |-> owners[p] \ {"beat"}]
  <2>1. holders \in [Panel -> SUBSET Thread] /\ Hold(holders)
    BY <1>3 DEF BeatDone, IInv, Types
  <2>2. \A q \in Panel : holders[q] = owners[q] \ {"beat"}
    OBVIOUS
  <2>. HIDE DEF holders
  <2>3. Types'
    BY <1>3, <2>1, HoldFacts DEF BeatDone, IInv, Types, Label, BeatLabel, Thread
  <2>4. Held'
    <3>1. /\ \A u \in Thread \ {"beat"} : pc'[u] = pc[u] /\ cur'[u] = cur[u]
          /\ pc'["beat"] \in {"idle", "again"} /\ UNCHANGED <<shown, todo>> /\ owners' = holders
      BY <1>3, <2>1, HoldFacts DEF BeatDone, IInv, Types, Thread
    <3>2. shown \subseteq Panel
      BY <1>3 DEF IInv, Types
    <3>. QED BY <1>3, <2>2, <3>1, <3>2 DEF IInv, Held, Thread, AtPanel
  <2>5. (Registered /\ Delivered)'
    BY <1>3 DEF BeatDone, IInv, Types, Registered, Delivered, Thread
  <2>6. (Locked /\ Drawn)'
    <3>1. \A u \in Thread \ {"beat"} : pc'[u] = pc[u] /\ cur'[u] = cur[u]
      BY <1>3 DEF BeatDone, IInv, Types
    <3>. QED BY <1>3, <2>1, <3>1, HoldFacts, LockedKept DEF BeatDone, Layouts
  <2>. QED BY <2>3, <2>4, <2>5, <2>6 DEF IInv
<1>. QED BY <1>1, <1>2, <1>3 DEF BeatStep

(* A layout that throws lets the lock go, and its scene is torn no more.    *)
LEMMA ThrowStep == IInv /\ BeatThrows => IInv'
<1>. SUFFICES ASSUME IInv, BeatThrows PROVE IInv'
  OBVIOUS
<1>. USE Constants DEF BeatThrows, listVars, Goto
<1>1. cur["beat"] \in Panel /\ "beat" \in owners[cur["beat"]]
  BY DEF IInv, Held
<1>2. Types'
  BY <1>1 DEF IInv, Types, Label, BeatLabel, Thread
<1>3. (Held /\ Registered /\ Delivered)'
  BY <1>1 DEF IInv, Types, Held, Registered, Delivered, Thread, AtPanel
<1>4. Locked'
  BY <1>1 DEF IInv, Types, Locked, Layouts, Thread
<1>5. Drawn'
  BY <1>1 DEF IInv, Types, Drawn, Thread
<1>. QED BY <1>2, <1>3, <1>4, <1>5 DEF IInv

LEMMA NextIInv == IInv /\ [Next]_vars => IInv'
<1>. SUFFICES ASSUME IInv, [Next]_vars PROVE IInv'
  OBVIOUS
<1>1. CASE UNCHANGED vars
  BY <1>1 DEF vars, listVars, panelVars, IInv, Types, Held, Registered, Locked, Drawn, Delivered
<1>2. CASE GuiStep
  BY <1>2, SubscribeStep, TakeListStep, RegisterStep, PaintStep DEF GuiStep
<1>3. CASE DataStep
  BY <1>3, ListStep, LoadStep, CallStep DEF DataStep
<1>4. CASE BeatStep
  BY <1>4, BeatStepInv
<1>5. CASE \E t \in Thread : LayoutStep(t)
  BY <1>5, LayoutStepInv
<1>6. CASE Environment
  BY <1>6, RegisterStep, DropStep, TradesStep, ThrowStep DEF Environment
<1>. QED BY <1>1, <1>2, <1>3, <1>4, <1>5, <1>6 DEF Next

(* The inductive invariant of the three threads holds in every state.      *)
THEOREM Invariant == Spec => []IInv
BY InitIInv, NextIInv, PTL DEF Spec

(* Tables, marks and frames fit together at any moment, and who lays out or  *)
(* draws a panel keeps it alive (trade_cockpit.cpp:52-63,106-114,           *)
(* instrument_panel.cpp:409-464).                                          *)
THEOREM TablesFit == Spec => []CockpitInv
<1>1. IInv => CockpitInv
  <2>. SUFFICES ASSUME IInv PROVE CockpitInv
    OBVIOUS
  <2>1. Len(posted) <= 2 /\ Len(lists) <= 2
    <3>1. Len(posted) \in Nat /\ Len(lists) \in Nat
      BY DEF IInv, Types
    <3>. QED BY <3>1 DEF IInv, Delivered
  <2>2. \A p \in Panel : dataMutex[p] # None => dataMutex[p] \in owners[p]
    <3>. SUFFICES ASSUME NEW p \in Panel, dataMutex[p] # None PROVE dataMutex[p] \in owners[p]
      OBVIOUS
    <3>. DEFINE t == dataMutex[p]
    <3>1. t \in {"gui", "data", "beat"} /\ cur[t] = p /\ pc[t] \in Layouts \cup {"draw"}
      BY DEF IInv, Types, Locked, Thread
    <3>. HIDE DEF t
    <3>2. ASSUME t = "gui" PROVE t \in owners[p]
      BY <3>1, <3>2 DEF IInv, Types, Held, Layouts, AtPanel, GuiLabel
    <3>3. ASSUME t = "data" PROVE t \in owners[p]
      BY <3>1, <3>3 DEF IInv, Types, Held, Layouts, DataLabel
    <3>4. ASSUME t = "beat" PROVE t \in owners[p]
      BY <3>1, <3>4 DEF IInv, Types, Held, Layouts, BeatLabel
    <3>5. t \in owners[p]
      BY <3>1, <3>2, <3>3, <3>4
    <3>. QED BY <3>5 DEF t
  <2>3. TypeOK
    BY <2>1, <2>2 DEF IInv, Types, TypeOK
  <2>. QED BY <2>3 DEF CockpitInv, IInv, Types, Registered, Drawn, ShownAreRegistered, UnmarkedIsDrawn
<1>. QED BY <1>1, Invariant, PTL

(* No frame is drawn from a scene in the middle of its layout, whichever of  *)
(* the threads lays it out (instrument_panel.cpp:441-449).                  *)
THEOREM FramesStayWhole == Spec => []FramesAreWhole
<1>1. IInv => FramesAreWhole
  BY Constants DEF IInv, Types, FramesAreWhole
<1>. QED BY <1>1, Invariant, PTL
=============================================================================
