# Open Trader: TLA+ models, checks and proofs

Open Trader (`src/src/`) is a C++23 trading terminal. It keeps a live copy of an
exchange's public and private data, stores it in SQLite and draws it. This
directory holds TLA+ modules translated from that code, the TLC configurations
that check them on small instances, and proofs checked by TLAPS. Paths below
are relative to `src/src/` unless they say otherwise; `PROJECT.json` maps every
definition to the lines it models.

## 1. The system

### Threads and how the parts meet

`main.cpp` starts one `scheduler` with one io thread (the tests use two) and
runs the user interface on the main thread. There is almost no locking: what is
serialised is serialised by an asio strand, or by the accident of having one io
thread. Data flows in one direction:

    exchange -> websock_connection -> data_dispatcher -> data_adapter -> data_sink
                                                                          |     |
                                              subscriber <- data_feed <---+     +-> data_model (SQLite)

and control in the other: the user interface registers a panel with the cockpit,
the cockpit calls the data manager, and that one subscribes the panel to a feed
and sends a subscription message, all on the GUI thread.

### Components

| Component | State | Operations | What is hard | What makes it correct |
|---|---|---|---|---|
| Incremental feed `sorted_data_feed` (`datahub/data_feed.hpp`) | cache, list of weak subscriptions | acceptor (merge, then push a snapshot or a window), `subscribe` | window indices against late insertions, ties, expired subscribers, `subscribe` on another thread | nothing is lost, order is kept, every live subscriber can rebuild the cache |
| Snapshot feeds `sorted_snapshot_data_feed`, `keyed_snapshot_data_feed` | cache, list of weak subscriptions | acceptor, `subscribe` | one pass over two sequences with an iterator that moves; repeated keys | order, no loss, last value per key, subscribers hold the cache |
| Order book (`data/orderbook.hpp`, handler in `data/bybit/data_manager.cpp`) | levels | reset, initial load, two-pointer merge, push | the merge trusts the order of a concatenation | the book is the exchange's after each message |
| Ingest pipeline (`datahub/data_sink.hpp`, `data_model.hpp`) | bounded queue, strand, database | push and post, process, parse, feed, store | lost wake-ups, full queue, failing writes, dropped connection | each admitted message is handled once, in order, eventually |
| Websocket connection (`connect/websocket.*`) | status, stream, send channel, timer | three coroutines, `operator()`, `set_heartbeat` | every await can fail, the object may go away at each, full channel | payloads go out in order, on an open session only |
| HTTP query, resolver cache (`connect/http_query.*`, `connection_context.*`) | weak self, cache behind a strand | call, resolve, connect, respond, complete | the owner lets go at any await, two resolutions at once | an owner who stays is answered, once and truly; one who left before the handler was locked is not called |
| Data manager (`data/bybit/data_manager.*`) | sinks, feeds, per-symbol table | set up sources, subscribe, place and cancel orders | table shared by two threads | a subscriber gets the stream of its symbol |
| Trade cockpit (`cockpit/trade_cockpit.*`) | panels, instrument callbacks, copy of the list | register, subscribe, deliver the list, heartbeat | callbacks after unlock, a list read without a lock | a shown panel is updated, the window gets the list |
| Instrument panel (`cockpit/instrument_panel.*`, `app/instrument_panel_element.*`) | series, scene, pixels, dirty mark | two update circuits, render, data entry, resize | a try-lock that skips, a mark cleared before the work | whole frames only, no trade left undrawn |
| Candles and quote scratcher (`data/buoy_candle.*`, `cockpit/scratchers/quote_scratcher.*`) | closed candles, active candle | append, advance, reset | two writers (data, clock), re-sent and late trades, a pool drawn once | every trade counts once, in its period; the canvas shows the series |
| Tabs and panel tree (`app/`) | tabs, active index, tree of panels, what is drawn of it | add, remove, switch, split, close, change, install, list arrival | indices and references after removal, a node in two trees for a moment | what is drawn is the tree that is kept; a click takes the panel it was made on and no other |
| Currency (`data/currency.hpp`) | value and scale | parse, print, compare, add, multiply, divide, rescale | width, truncation, scales that move | exact while it fits; the mean of a candle is the volume-weighted one |

Not modelled: SQL text, JSON, metadata, drawing and geometry, widgets, configuration,
vendored code and the repository's tooling. They keep no protocol state, and
their content is text, pixels or calls of libraries. Four fifths of the lines
under `src/` are two vendored headers (`nlohmann/json.hpp`, `CLI11.hpp`); a share
of mapped lines of the whole says little about the program.

## 2. The modules

| Module | Models | Run by |
|---|---|---|
| `FeedContract` | what an incremental feed promises: a growing log, subscribers that hold it or are known to be behind | as a PROPERTY of `feed_merge` |
| `SortedDataFeed` | `sorted_data_feed`, one step per record merged and per subscriber told | `MCSortedDataFeed` |
| `SeqFilter` | the elements of a sequence that are in a set (`Only`) | through the next ones |
| `SeqEditTheorems` | induction in set form; lemmas on insertion, removal, concatenation, folds and `Only` | proofs only |
| `SortedDataFeedProofs` | theorems of `SortedDataFeed`; that it implements `FeedContract` | proofs only |
| `SnapshotMerge` | the two merges of the snapshot feeds, as operators | through the next two |
| `SnapshotFeed` | both snapshot feeds with subscribers | `MCSnapshotFeed` |
| `OrderBook` | exchange, handler, merge, and `SnapshotMerge` behind it | itself |
| `IngestPipeline` | dispatchers, strands, threads, adapters, sink, database | `MCIngestPipeline` |
| `WebsocketConnection` | the three coroutines of a connection | itself |
| `BuoyCandles` | the candle series, as operators | through `CandleChart` |
| `CandleChart` | the quote scratcher between feed, clock and canvas | itself |
| `Currency` | the fixed-point numbers, their wrap-around and their texts, as operators | through the next one |
| `CandleMean` | the active candle computed with those numbers | `MCCandleMean` |
| `HttpQuery` | the two coroutines of a query, the resolver cache behind its strand, the owner | itself |
| `MainWindow` | tab bar, pages, panel trees and what is drawn of them | `MCMainWindow` |
| `TradeCockpit` | cockpit and panels between GUI, heartbeat and dispatcher strand | itself |
| `SnapshotFeedProofs` | theorems of `SnapshotFeed` and of `OrderBook` in front of one | proofs only |
| `ConnectProofs` | theorems of `WebsocketConnection` and of `HttpQuery` | proofs only |
| `CandleChartProofs` | theorems of `CandleChart` and so of `BuoyCandles` | proofs only |
| `IngestPipelineProofs`, `TradeCockpitProofs`, `MainWindowProofs` | theorems of the modules they are named after | proofs only |

Conventions. A variable has the name of the member or local it stands for. An
action is the code between two points where another actor can come in: an await,
the end of a handler, or, where two threads touch the same data without a lock,
each element handled. An operator marked *Mutation* is a plausible bug put in
place of the definition it is named after, to see that a property notices;
nothing else uses it. Where the provers do not see through an operator of the
libraries, a definition says the same in other words: `Only` is a fold instead
of `SelectSeq`, `LatestAfter` a function instead of `@@`, `InOrder` a `CHOOSE`
instead of a sort, `SumOf` of `CandleChart` a fold with `+` written out,
`Reached` of `MainWindow` a function instead of a recursive operator. A record
is its sort value and its key; a message is a model value with the records it
carries.

### The incremental feed

`Accept` filters a batch and either takes it whole (empty cache) or starts the
loop; `MergeOne` handles one record (drop, append, insert late), `MergeDone`
chooses the push, `PushOne` handles one list entry (deliver or erase),
`PushDone` returns. `subscribe` is two steps, the snapshot and the list entry,
because the GUI thread calls it while the io thread may be in the acceptor; with
`SameThread = TRUE` it runs only between two acceptor calls. `view` is what a
subscriber has rebuilt from what it was given, as the panel's handler does:
reset on a snapshot, append on an increment.

### The snapshot feeds and the order book

`SnapshotMerge` folds the code's loop body over the batch. `SnapshotFeed` puts
subscribers around it for both classes. `OrderBook` has the exchange's true book
as a function from prices to signed sizes; a message is the difference of two
books or a whole one. `MayCross` lets a delta list a bid above an ask. Names of
`OrderBook` such as `BookInit` keep it apart from `SnapshotFeed`, with which
`SnapshotFeedProofs` reads it. The handler's `accept({})` and `accept(update)` and each
iteration of the merge are steps. `fed` is the cache of the feed behind, merged by
the instance `ObFeed`.

### The ingest pipeline

Per connection: `Push` and `Post` are the two halves of
`data_dispatcher::operator()`; `Start`, `Pop`, `Drained`, `Leave` are
`process_queue`; `Parses`, `ParseFails` an adapter; `Feed`, `Store`, `Stored`,
`StoreFails` the sink, which feeds a message first and writes its records after
that, one by one. `unsaved` collects what a failing write leaves out. The program
may end in any state: a crash is the end of a behaviour, nothing is read back from
the database at the next start, and so what a crash can lose is what `FedIsKept`
allows in a state. Threads are counted: a producer between push and post and a
running strand each hold one.

### The websocket connection

`exec`, `sender` and `heartbeat` are the program counters of the three
coroutines, `spawned` and `blocked` the enqueues that have not run or wait for
room. `Alive` says whether a weak reference can be locked. While `exec = "loop"`
the exec loop has the strand and nobody else runs on it.

### The candle chart

`series` is `mQuotes` with `mLastPrice`; `AppendTrades`, `AdvanceTo` and `Reset`
of `BuoyCandles` are the class's methods, the loop over trades a fold, the inner
loop over period boundaries its closed form (`Crossed`, `Roll`). `Increment` and
`LateTrade` are what `SortedDataFeed` delivers, `DoUpdate` the heartbeat or a
paint; `mDataMutex` makes each one step. `chart` holds what has been drawn of the
closed candles and the two values that `OnLayout` remembers of it. The mean is
computed as in the code, rounded at each trade, on numbers of one scale and any
size; the next two modules drop that simplification and the periods.

### The numbers of a candle

`Currency` has the operators of the class with their names (`Plus` is
`operator+`, and so on) modulo `Limit`; a text is two sequences of digits.
`CandleMean` lets trades arrive as texts of any scales and computes the active
candle as `AppendTrades` does. `Exact`, `Volume` and `Notional` are the true
numbers its properties compare with.

### The HTTP query

A task is one of a query's two coroutines: the resolution that its constructor
spawns for the cache's sake, or the request; `pc` says at which await it stands.
`Release` is the owner letting go, which `PlaceOrder` and `CancelOrder` do on
return; `QueryAlive` is what locking the weak reference yields. The completion
handler is two steps, `Lock` and `CallHandler`, since the owner lets go on another
thread; the lock keeps the query until the call is made. The query refers to the
context weakly as well: `ReleaseContext` lets its owner go at any time, a coroutine
at work keeps it (`ContextAlive`), and a request that finds none ends with the empty
text. Its names keep it
apart from `WebsocketConnection`, with which `ConnectProofs` reads it. `Store` is the
insertion of `connection_context.cpp:40`, which no longer runs on the strand that
`Look` was on. `Following` lists the stages each of which can fail or time out.

### The window

`panel` is the heap of nodes, `root` the table of trees, `slot` and `layout` what
each page and each split draws. A node's tree (`Reached`) is the fixpoint of adding
the drawn children, as `ContainsNode` walks them. `HandleClose`, `HandleSplit`, `HandleChangeType`
and `NewTab` are the handlers, whole, with `ReplaceNode` in them;
`OnSymbolsArrived` is the list's arrival at every tab; each list replaces the last
one, be it shorter (`Lists`), since the cockpit may post a part of the list after
the whole, and a chart of a symbol that is offered no more stays. `Choice` is what
the selectors offer. `MCMainWindow` lets TLC permute the nodes: free nodes are all
alike, an event that makes a node takes any of them (`CHOOSE`), so the states it
leads to by two choices differ by a permutation, and no property names a node.
`misread` remembers that
`HandleCloseRoot` has used the key of an entry it erased
(`main_window.cpp:225-226`): the model takes either outcome, the right tab closed
or none.

### The cockpit and its panels

Three program counters: the GUI, the heartbeat `coUpdate`, and the strand that
brings the instrument list and the trades. `mutex` and `dataMutex` are the two
kinds of lock, `owners` the shared pointers that keep a panel alive while
somebody works on it, `posted` the event queue of the view. A scene is the number
of trades it shows, `Torn` while it is laid out, or `Partial` after a layout that
threw. The window's subscription is three steps: it is listed under the lock, then
copies what the cache of the list holds (`taken`), then posts its copy, both without
a lock. `BeatThrows` is an update of the heartbeat that throws: the lock is released,
nothing is marked, the panels behind are passed over, and the next round begins
without the timer. With `Threads = 1` heartbeat
and strand share the io thread of `main.cpp:31`; the run takes two, which allows
more.

## 3. The runs

| Run | Instance | Shows |
|---|---|---|
| `feed_merge` | sort values 1..3, three keys, batches of up to two, two subscribers, cache up to 3 | no loss, order kept, late insertions are new, subscribers exact between calls, contract implemented, delivery guaranteed |
| `feed_gui_thread` (violation) | `SameThread = FALSE` | a subscriber can miss the first batch |
| `snapshot_feeds` | sort values 1..3, three keys of which one is filtered out, one subscriber, cache up to 4 | both merges and their deliveries |
| `book_mirror` | three prices, two sizes a side: every book to every book | the program's book is the exchange's |
| `book_crossed` (violation) | deltas that delete an ask below a new bid | a deleted ask stays |
| `ingest` | two connections, two threads, two adapters, queue of one, two messages each | exactly once, in order, no lost wake-up, what was fed is stored but for what is in hand and what failing writes left out, wherever the program ends |
| `connection` | channel of two, four payloads, heartbeats | order, no write without a session, everything sent while it lasts |
| `candles` | periods of two ticks, clock up to 6, three trades of two prices, up to four ticks old or one ahead | each trade counts at most once and at most one period late; nothing recent is lost but ties; only a rebuild makes the canvas stale |
| `currency` | six prices and three sizes of different scales, twelve bits, three trades | extremes, volume and texts exact while they fit; the mean within the digits cut off |
| `http` | two queries, two io threads, a context that may go first | true answers, one each, none for an owner who left before the handler was locked, one for each who stays |
| `window` | five nodes (symmetric), three tabs, two symbols, two lists, each the whole or a part | drawn is what is kept, each panel once, a click takes the panel it was made on, menus are those of the last list, who waits for a chart |
| `cockpit` | one panel, heartbeat and strand on two threads, two batches, a list of two, updates that throw | no frame in the middle of a layout, every trade drawn unless updates throw for ever, the list arrives |

**Bounds.** The merges compare a record with at most its neighbours in the cache
and in the batch, so three sort values (below, equal, above), enough keys for a
tie group of two and a stranger, and batches of two (one record changes what the
next one meets) reach every branch and every pair of branches. Two subscribers
let one expire while the other is served. Three prices with two sizes give every
relation of a delta's sides: apart, touching, crossing. A queue of one is full
after one message, so two messages meet it full, empty and being drained;
capacity enters the code in one comparison only (1024 and 64 there). Two
connections on two threads let both strands, or a strand and a producer, run
together, and wait for each other. A channel of two with four payloads and
heartbeats has room, is full and has two enqueues waiting. Three trades are a
first, a second batch and one more (or a late one); a delay of two periods
reaches the exception of `AppendTrades`, a clock of three periods a gap with
empty candles. Two ticks a period give equal, different and adjacent times.
Six prices and three sizes hold the same scale twice, each scale narrower and
wider than another, the largest number that fits twelve bits and one that does
not; with three trades a mean is the operand of another. Two queries on two threads
are what a race for the resolver cache takes, and the owner's threads are not
counted. Five nodes make a split of a split in one tab beside a leaf in another, and
a closed node used again; with three tabs one is removed before the active one and
one is left behind it; two lists come in either order, growing or shrinking, and
the second ends the wait of a panel split off after the first. One panel meets all
three threads at once; with two panels, two threads and one batch the invariants of
`TradeCockpit` hold as well (6,658,054 states), but the liveness properties take
too long to be a run.

**Fairness.** A feed's acceptor finishes what it began (`FairSpec` of
`SortedDataFeed`): it is sequential code without waits. A thread of the pool
picks up posted handlers and finishes them (`IngestPipeline`). A strand runs its
handlers in the order they became ready, so none waits for ever behind others:
strong fairness for the enqueues and the send loop of `WebsocketConnection`,
which also covers that a write ends, by the stream's own timeout at the latest.
The same holds of the coroutines of an HTTP query, whose every await has a
timeout. In `TradeCockpit` no lock is held across a wait, so a thread that asks
again and again gets it; the event queue of the view, the timer of the heartbeat
and the strand go on (strong fairness of each thread's steps, of taking a posted
list and of painting, since other events of the GUI come in between). No update has
to throw, and `TradesAreDrawn` claims nothing of a behaviour in which updates throw
for ever.
Nothing is assumed of the exchange, the network, the owner of an object or the
user: an open may fail for ever, a peer may stay silent.

**Deadlock** checking is off where the system really stops: nobody offers another
batch, the bounds on inputs are used up, or a connection or a query has ended. In
`window`, `cockpit` and `currency` it is on.

## 4. What the checks found

* `feed_gui_thread`: `SubscribeInstrument` calls `feed->subscribe` on the GUI
  thread (`data/bybit/data_manager.cpp:282`) with no lock against the acceptor. A
  subscriber that finds the cache empty and is listed after the first batch has
  been pushed is attached to a non-empty feed and has nothing.
* `book_crossed`: "bid prices < ask prices" holds of a book, not of a delta
  (`data/bybit/data_manager.cpp:192`). A bid that moves above a just deleted ask
  makes the update unsorted, the merge passes the ask before it sees the
  deletion, and the stale ask stays until the next snapshot.

Further divergences and observations, met while modelling. The models contain them
unless an item says otherwise, and the properties are stated so far as they hold:

* Tie groups (`datahub/data_feed.hpp:121`): a re-sent record that shares the
  tail's sort value but is not the tail itself is appended again, against
  DATAHUB-033. `LateInsertIsNew` is what holds.
* Deduplication (`datahub/data_sink.hpp:171-172`): DATAHUB-020 has the sink deduplicate
  "against the data_model and forwards only new records", DATAHUB-021 "forward only
  records not already stored", and `test/datahub/test_data_sink.cpp:66` names it. The
  code feeds every record first, then writes, and drops what the write returns; the
  database deduplicates itself only, and the feeds as far as `LateInsertIsNew` says.
  `ExactlyOnceInOrder` and `FedIsKept` are properties of that order, not of the
  documented one, and claim nothing of duplicates between two sources.
* Stale session (`connect/websocket.cpp:319`): after a failed write, a read that
  then completes normally sends the exec loop into a cycle that hands empty texts
  to the data handler and never gives its thread back. `TypeOK` of
  `WebsocketConnection` limits it to stale sessions. A stale session is never
  opened again.
* Candle periods (`data/buoy_candle.hpp:168`): `AppendTrades` on a series that
  goes on takes the start of the active candle for the next boundary. The second
  batch of a period closes the candle, and its trades and those of later periods
  are drawn one period late, against the comment of
  `test_quote_scratcher.cpp:39`. `AtMostOnePeriodLate` shows that it does not get
  worse.
* Redraw (`cockpit/scratchers/quote_scratcher.cpp:409`): the pool of closed
  candles is redrawn when the anchor changes, not when the series is rebuilt. A
  late trade rebuilds it on the same anchor; candles that changed, or are gone,
  stay on the canvas until the view moves enough. `OnlyRebuildsStale` shows that
  nothing else does this.
* Mean (`data/currency.hpp:102-106`): "notional/volume therefore lands back on the
  price scale" holds when the prices of a candle share a scale, which
  `MeanIsVolumeWeighted` presumes. If a price comes with fewer decimals and a size
  with more, the quotient loses the decimals of the mean: 0.3 at 1.5 and 0.07 at
  2 give a mean of 1, below the lowest price.
* Orders (`data/bybit/data_manager.cpp:321,342`): the query goes out of scope
  when `PlaceOrder` or `CancelOrder` returns. A request that the io thread has not
  taken up by then is never sent, and the callback of one that was is not called,
  against CONNECT-011, unless the return comes between the two steps of the
  completion handler.
* Completion handler (`connect/http_query.cpp:74-78`): the query is locked and then
  called, on the io thread. An owner on another thread who lets go in between is
  still called after he did; `LeaverIsNotCalled` speaks of those who left before the
  lock.
* Empty answer (`connect/http_query.cpp:88,141`): a request that finds its context gone
  ends with the empty text, which the handler gets as data (`QueryInv` says that
  nothing else does). The program does not get there: the data manager owns the
  context and its query, and the query is destroyed first.
* Resolver cache (`connect/connection_context.cpp:24,40`): "All operations run on
  the strand", but the insertion follows an await off it. With the single io thread
  of `main.cpp` nothing else runs beside it; with two, which the tests take
  (`test/bybit/test_orderbook.cpp:207`, `test/bybit/test_data_manager.cpp:57`), a look-up
  may: the run `http` has both at once. It shows that the queries are answered all
  the same; what two threads make of the map itself is not modelled.
* Split and change of type (`app/main_window.cpp:207-218`): a panel made after the
  list has come gets a menu and no chart, and shows "Loading..." until the user
  picks a symbol, although `main_window.hpp` has it installed "once the
  instrument list arrives". `WaitsOnlyAfterSplit` says which panels wait.
* Erased key (`app/main_window.cpp:225-226`): the tab to remove is read through a
  reference into the entry just erased. If it reads wrong, the tab stays in the
  bar with a dead page, possibly as the only tab, which has no close button.
* Tab before the active one (`app/tab_bar.cpp:85`): removing it keeps the index and
  so shows the tab to the right of the one the user looked at.
* Closed panels (`app/main_window.cpp:178-197`): the leaf's callbacks hold the
  holder that holds the leaf. A closed panel lives on with its chart, which the
  cockpit goes on updating, and its subscription, against
  `trade_cockpit.cpp:133`.
* Late subscriber (`cockpit/trade_cockpit.cpp:161`): the list is read without a
  lock while the strand fills it, copied and then posted, and the strand may post the
  whole in between: the last list of the window can be a part, so a panel may chart a
  symbol its menu has not. `ListArrives` says that the whole one comes at some time.
* Heartbeat (`cockpit/trade_cockpit.cpp:64-80`): a panel whose update throws starts the
  next round at once, without the timer, and those behind it are not reached. Its
  scene is half laid out and not marked; if a mark was pending, or another part of
  the window has the panel painted, that scene is what a frame shows (`FramesAreWhole`
  excludes only a scene under way, and `UnmarkedIsDrawn` such a scene). A layout that
  throws in every round keeps the single io thread from anything else, since no await
  is left in the loop; the run has two threads and draws every trade once the
  throwing stops. Nothing in the layout throws by itself; the allocation and the
  libraries it calls may. Updates that throw elsewhere (in a paint, under `mMutex` in
  `RegisterPanel` and `OnInstrumentsLoaded`) are not modelled.
* Per-symbol table (`data/bybit/data_manager.cpp:252`): `operator[]` on the GUI
  thread moves elements that the handlers on the io thread refer to. No model has
  the table (section 6).

## 5. What is proved

All for every value of the constants, under the assumptions named in the modules
(integer sort values and prices, positive capacities, finitely many prices and
nodes, a parser for each message) and those given below. Each inductive invariant
was checked by TLC on the instance of the run as well (the quantifier over `Nat` in
`Unsent` of `ConnectProofs` cut to the instance's payloads).

The provers cannot apply a lemma that takes an operator, the library's induction
rules among them. `SeqEditTheorems` therefore states induction over a *set*
(`NatSetInduction`, `UpToInduction`, `SeqSetInduction`, from the well-foundedness
of `<`), to which a proof passes the set of numbers or sequences for which its
claim holds, and states a fold as a chain of values (`FoldExists`, `FoldChain`):
there is one value for each prefix, each got from the one before. What a loop of
the code computes for inputs of any length is proved along such a chain.

**`SortedDataFeedProofs`**

* `TypeCorrect`: the state is well typed; the push position is in the list and
  the appended window in the cache.
* `NothingIsLost`: every record handed in is in the cache or still in the batch
  being merged. Inductive with the type invariant: each branch of the merge
  either drops a record equal to a cached one, or adds it.
* `CacheStaysSorted`, `LateInsertsAreNew`: action properties of the merge. They
  rest on a lemma that the reverse scan stops at the last record not above the
  new one, and on the lemmas of `SeqEditTheorems` on what insertion does to an
  ordered sequence.
* `SubscribersAreCurrent`: with `SameThread = TRUE`, every live subscriber's
  reconstruction is the cache between calls. Not inductive by itself:
  `DeliveryInv` adds that the running call only grew the cache it found
  (`GrownFromBase`), that while an increment is due that cache is still its
  prefix, and that subscribers before the push position hold the new cache and
  those after it the old one (`ViewsDuringPush`).

* `FeedKeepsContract`: with `SameThread = TRUE` the feed implements
  `FeedContract`. A step simulation under `DeliveryInv`: a first batch, or the end
  of a merge that inserted something, is a publication; a call of a live
  subscriber is its notification; entering the list is an attachment; letting go
  of a listed subscription is a detachment; every other step, the erasure of an
  expired entry included, changes nothing the contract speaks of. Without
  `SameThread` it is false, which is the finding of `feed_gui_thread`.

**`IngestPipelineProofs`**

* `TypeCorrect`, and `NoWakeupIsLost`: a queue that holds a message has a posted
  handler, a running strand, or a producer between push and post. By the cases of
  who pushes and who empties; `Watched` is the property of one connection.
* `DeliveredExactlyOnce`: of the messages some adapter parses, those a queue took are
  those its feed was given, followed by the one in hand and those still queued, in
  that order. Inductive with `ByItsParser`: a strand that feeds or stores does so for
  the adapter that parses its message. It rests on `Only` of a concatenation
  (`OnlyConcat`).
* `FedStaysKept`: what a feed was given is in the database, in hand to be written by
  the strand that fed it, or was given up by a write that threw. Inductive with the
  place a strand has reached: one that is not storing stands at its first record, and
  while it stores, the records before its place are stored or given up and those from
  it on are in hand. What is stored and what is given up only grows.

**`SnapshotFeedProofs`**

* `CacheIsRight`: the one-pass merge of `sorted_snapshot_data_feed` keeps the cache
  sorted and loses nothing, for sorted batches. `WalkInv` holds after each record of
  the batch: what the iterator has left behind sorts before all that is to come.
* `LatestIsKept`, `PositionsAreStable`: the keyed feed has one record for each key,
  the last one handed in, at its old place. Along the chain of `Upsert`s the cache
  is what the batch so far has overwritten and what it has not (`Updated`).
* `SnapshotsAreCurrent`: every live subscriber holds the cache; `SnapInv` adds that
  nobody holds anything while the cache is empty (`NothingYet`), since `subscribe`
  tells a subscriber nothing then.
* `BookIsMirrored`, with `MayCross = FALSE`: after each message the levels of
  `OrderBook` are the exchange's. In between the levels are neither the old book nor
  the new one; `Merges` says what the output, the rest of the message and the rest
  of the old levels hold together: the output is of the new book and below the
  rest, every level of the new book is in one of the three, an old level that is
  not in the new book has its entry still ahead, and where a price changes sides
  the deletion never outlives its replacement. It is stated over sets of levels;
  the order of the three sequences (`ByPrice`, `Rising`) is what lets a comparison
  of two heads decide it. `MessageMerges` shows it of every pair of books,
  `ConcatenationIs` that a message is `Rising` if its sides do not overlap. That is
  the step that fails in `book_crossed`.
* `BookIsFed`: the feed behind has every price of the book, once and ascending, and
  a book has no more levels than prices. `BookWalkInv` is `WalkInv` for prices.

**`ConnectProofs`**, the websocket

* `TypeCorrect`, with `SessionKnown` on which states of the session the
  coroutines can meet; `WritesOnOpenStream`, an action property.
* `SentInOrder`: payloads go out in the order of the calls. Inductive with `InLine`
  (what the send loop has in hand, the channel, the enqueues that wait for room and
  those not yet run stand in the order of their calls; heartbeats have no place in
  it) and `Unsent` (they are exactly the calls not written yet).

and the HTTP query

* `QueryCorrect`: types, and each handler called got what happened. `IInv` has a
  `Backed` part for each query: which outcome and calls each stage of its request
  allows.
* `NobodyIsCalledWhoLeft`: once an owner has let go before the completion handler has
  locked the query, no handler of it is called in any state that follows. Every step
  keeps `Abandoned`: nobody but the query's own request holds it, the request has not
  locked it, and no handler was called. The request never locks it later, since the
  weak pointer has expired. After the lock nothing of the kind holds.

**`TradeCockpitProofs`**

* `TablesFit` and `FramesStayWhole`, for any panels, either number of threads, and
  with `Torn` not a number of trades. The invariant has a part for each way the
  three threads lean on each other: who is at a panel keeps it alive (`Held`), the
  window shows registered panels only (`Registered`), a torn scene is in the hands
  of who holds its lock (`Locked`), an unmarked frame shows its scene unless its layout
  threw (`Drawn`), and the list is posted at most twice (`Delivered`).

**`MainWindowProofs`**

* `WindowFits`, `MenusStayCurrent`, `TreesAreDrawn`, `PanelsAreInOnePlace`: the state
  is well typed and each menu has the list, what a page draws is its tree, and a
  panel in use is in one slot of one page. `IInv` says that the used nodes are a
  forest (`Forest`): a split draws its two children, no node is a child of two splits
  or of two slots, what a slot holds is no child, and every used node is below a slot.
  `ReachedProperties` shows that a node's tree is the least set closed under
  children, whatever the number of nodes; the lemmas after it say which sets stay
  closed when one node takes the place of another (`Exchanged`), which is what
  `ReplaceNode` does in every handler. Without the forest an exchange could draw a
  node twice, as it is for a moment inside `HandleSplit`.
* `TheClickedPanelGoes`: of the panels in the trees, a close or a change of type takes
  away the one it was made on and nothing else, a split none, closing a tab those of
  its tree. An exchange gives a set of nodes without the clicked panel that holds the
  roots and is closed under children, so the new trees are within it
  (`FreshOutcome`, `SiblingOutcome`); the other panels stay since every one of them
  is still reached; that trees of tabs are apart decides the rest (`TreeGone`).
* `OnlyNewPanelsWait`: only panels made by a split or a change of type after the list
  wait for a chart, and the next list ends it.

**`CandleChartProofs`**, for any period, prices, sizes and delays

* `ChartStaysRight`: nothing but a rebuild makes the canvas stale. Whatever a batch
  or the clock does to a series, its closed candles keep their places and values
  (`Grows`), so the shapes drawn up to `chart.count` stay those of the first
  candles, and drawing the rest makes them all. It needs types only (`Typed`).
* `EveryTradeCounted`: an increment adds to the volume just the sizes of its trades
  later than the last one seen, unless the first of them is from before the previous
  period. A batch is refused whole when its first trade lies before the last
  closed candle; `Caught` says why such a trade is too old. The active candle starts at most
  a period after the last trade, or else not after the start of the clock's period;
  and when trades of the feed were refused, one of them is too old, and stays so.
* `CandlesAreRight`: each candle summarises the trades it counts, and each of those
  is in the candle of its period or the next. The inductive invariant is `Standing`:
  some assignment of delays to the trades explains the series (`Explains`), the
  counted trades are not later than the last one seen, and the price is the close of
  the active candle. The bound on the times is needed where an increment repeats the
  tail of the feed: if the tail was refused it may be taken in now, and then it must
  be behind every trade counted (`FrontExplains`). The delay of a new trade is
  chosen when it is counted; `Walked` is the invariant of the loop over a batch,
  whose boundary is the end of the active candle after a snapshot and its start in a
  series that goes on. So all trades of a snapshot have delay 0 and all that an
  increment counts delay 1, and closing candles delays nobody (`RollExplains`).

The loops over the trades are followed by induction over their sequence
(`SeqSetInduction`); for volumes, `SumOfIs`, `VolumeIs` and `TradedIs` give the sum
of nothing, of one number more, and its type.

**Only model-checked.**

* Liveness (`EventuallyDelivered`, `EventuallyHandled`, `EventuallySent`,
  `HeldIsAnswered`, `TradesAreDrawn`, `ListArrives`): TLAPS does not treat fairness
  and `ENABLED`.
* `NumberInv`, `MeanIsVolumeWeighted` of `CandleMean`. A scale is a power of ten:
  the backends do not establish that `10 ^ n` is a number, nor
  `10 ^ (n + 1) = 10 * 10 ^ n`, and the library has no theorem of either. The
  claims themselves are about products and quotients of wrapped numbers, which
  the SMT backend does not decide.
* `MirrorsExchange` with `MayCross = TRUE` is false, which is a finding.

## 6. Not modelled, and what is left

* The data manager's set-up and its per-symbol table
  (`data/bybit/data_manager.cpp:252`). The parts it joins are modelled each for one
  symbol; what the composition adds is the undefined behaviour of a table whose
  elements move under the handlers, recorded as a hazard. A model of two symbols
  over `OrderBook` and `IngestPipeline` would be the next module.
* The scheduler's start and stop: threads appear as bounds, and the program stops
  them only when it ends.
* The instrument panel's damage list, which nothing fills, and its transforms; the
  candle geometry of the scratchers, the rulers and indicators: floating-point
  numbers and calls of a drawing library.
* SQL text and binding: the effect of `InsertOrReplace` is a set of records, and
  every caller drops what it returns.
* Entities, metadata, connection errors, configuration, start-up and the widgets of
  `ui_builder`: no state that changes after construction.
* Vendored headers.
