---------------------------- MODULE CandleChart ----------------------------
(***************************************************************************)
(* The candle chart of an instrument panel: QuoteScratcher                  *)
(* (src/src/cockpit/scratchers/quote_scratcher.{hpp,cpp}) between the       *)
(* trades feed and the drawing.  The feed calls OnPublicTrades on the data  *)
(* thread, the heartbeat and the GUI call DoUpdate; both hold mDataMutex,   *)
(* so a call of either is one action.                                       *)
(*                                                                         *)
(* Closed candles are drawn once and kept: the chart holds what has been    *)
(* drawn, how many candles it takes for drawn, and the anchor at that time. *)
(* Wicks, colours and the view's geometry are left out, but for their one   *)
(* effect on the pool: any update may find that the floor or the pixel size *)
(* has changed.  The active candle is redrawn in every layout, so it needs  *)
(* no state.                                                                *)
(***************************************************************************)
EXTENDS BuoyCandles, SeqFilter, FiniteSets

CONSTANTS
  Price,      (* prices of trades                                          *)
  Size,       (* sizes of trades                                           *)
  MaxTime,    (* bound on the wall clock                                   *)
  MaxDelay,   (* how old a trade may be when it arrives                    *)
  MaxAhead,   (* how far the exchange's clock may be ahead                 *)
  MaxTrades   (* bound on the feed's cache                                 *)

ASSUME TradeAssumption == Price \subseteq Nat /\ Size \subseteq Nat \ {0}
ASSUME BoundAssumption == {MaxTime, MaxDelay, MaxAhead, MaxTrades} \subseteq Nat

VARIABLES
  now,     (* the wall clock                                               *)
  feed,    (* the cache of the trades feed, by time                        *)
  series,  (* mQuotes and mLastPrice                                       *)
  chart    (* the closed pool: shapes, mEmittedClosedCount,                *)
           (* mEmittedFirstBuoyTs                                          *)

vars == <<now, feed, series, chart>>

Trade ==
  [time : {t \in now - MaxDelay..now + MaxAhead : t >= 0}, price : Price, size : Size]

(* The shapes of the candles from one position of a series to another.     *)
Shapes(candles, first, last) == {<<i, candles[i]>> : i \in first..last}

BlankChart(anchor) == [shapes |-> {}, count |-> 0, anchor |-> anchor]

-----------------------------------------------------------------------------
(* The scratcher.                                                          *)

(* Mutation: drop only what is earlier than the last trade seen.           *)
UnseenOrLast(trades, last) == Only(trades, {t \in ToSet(trades) : t.time >= last})

(* IngestTradesAt skips what is not later than the last trade seen.        *)
Unseen(trades, last) == Only(trades, {t \in ToSet(trades) : t.time > last})

(* A new series is seeded with the first price.  An exception of            *)
(* AppendTrades ends in IngestAndScale and takes the batch with it.         *)
IngestTradesAt(s, trades, time) ==
  LET new == Unseen(trades, s.last)
      seeded == IF s.last = NoTime /\ new # <<>> THEN [s EXCEPT !.price = Head(new).price] ELSE s
  IN IF (s.last = NoTime /\ new = <<>>) \/ Rejects(s, new) THEN s
     ELSE AdvanceTo(AppendTrades(seeded, new), time)

(* OnPublicTrades, IngestAndScale.                                         *)
OnSnapshot(trades) == series' = IngestTradesAt(Reset(series), trades, now)
OnIncrement(trades) == series' = IngestTradesAt(series, trades, now)

(* Draw the closed candles that have not been drawn; afterwards `count' of *)
(* them are taken for drawn.                                               *)
Draw(s, refloored, count) ==
  LET base == IF chart.anchor # s.anchor \/ refloored THEN BlankChart(s.anchor) ELSE chart
  IN IF s.anchor = NoTime THEN BlankChart(NoTime)
     ELSE [base EXCEPT !.shapes = @ \cup Shapes(s.closed, base.count + 1, Len(s.closed)),
                       !.count = count]

(* Mutation: the active candle counts as drawn.                            *)
OnLayoutCountingActive(s, refloored) == Draw(s, refloored, Len(s.closed) + 1)

OnLayout(s, refloored) == Draw(s, refloored, Len(s.closed))

(* The heartbeat or the GUI: CalculateSize, then OnLayout.                 *)
DoUpdate ==
  /\ series' = AdvanceTo(series, now)
  /\ \E refloored \in BOOLEAN : chart' = OnLayout(series', refloored)
  /\ UNCHANGED <<now, feed>>

-----------------------------------------------------------------------------
(* The trades feed, which SortedDataFeed models, seen from a subscriber.   *)

Batch == {<<t>> : t \in Trade} \cup {<<t, u>> : t, u \in Trade}

(* A batch behind the tail is an increment, the first one a snapshot.  An   *)
(* increment may start with the tail when the subscription's snapshot was   *)
(* taken while it was under way.                                            *)
Increment ==
  \E batch \in Batch :
    /\ feed' = feed \o batch
    /\ Len(feed') <= MaxTrades
    /\ \A i \in 1..Len(feed') - 1 : feed'[i].time <= feed'[i + 1].time
    /\ IF feed = <<>> THEN OnSnapshot(batch)
       ELSE \E first \in Len(feed)..Len(feed) + 1 : OnIncrement(SubSeq(feed', first, Len(feed')))
    /\ UNCHANGED <<now, chart>>

(* A late trade goes before the trades of its time, and everything again.  *)
LateTrade ==
  /\ feed # <<>>
  /\ Len(feed) < MaxTrades
  /\ \E t \in Trade :
       /\ t.time < Last(feed).time
       /\ feed' = LET earlier == {u \in ToSet(feed) : u.time < t.time}
                  IN Only(feed, earlier) \o <<t>> \o Only(feed, ToSet(feed) \ earlier)
  /\ OnSnapshot(feed')
  /\ UNCHANGED <<now, chart>>

Tick ==
  /\ now < MaxTime
  /\ now' = now + 1
  /\ UNCHANGED <<feed, series, chart>>

Init ==
  /\ now = 0
  /\ feed = <<>>
  /\ series = NoSeries(0)
  /\ chart = BlankChart(NoTime)

Next == Increment \/ LateTrade \/ DoUpdate \/ Tick

Spec == Init /\ [][Next]_vars

-----------------------------------------------------------------------------
(* Properties.                                                             *)

Candles == Append(series.closed, series.active)

SumOf(numbers) == LET Plus(sum, n) == sum + n IN FoldLeft(Plus, 0, numbers)
Volume(candles) == SumOf([i \in DOMAIN candles |-> candles[i].volume])
Traded(trades) == SumOf([i \in DOMAIN trades |-> trades[i].size])

CandleType(c) ==
  /\ {c.min, c.max, c.close} \subseteq Price \cup {0}
  /\ {c.mean, c.volume} \subseteq Nat

(* The variables have their types; a series starts at the start of a period *)
(* (buoy_candle.hpp:149), and every time in it is at or after its anchor.   *)
TypeOK ==
  /\ now \in 0..MaxTime
  /\ Len(feed) <= MaxTrades
  /\ \A c \in ToSet(Candles) : CandleType(c)
  /\ series.anchor # NoTime =>
       /\ series.anchor >= 0 /\ series.anchor % Duration = 0
       /\ series.last >= series.anchor
       /\ feed # <<>>
  /\ \A shape \in chart.shapes : shape[1] \in Nat /\ CandleType(shape[2])
  /\ chart.count \in Nat

(* What a candle says of the trades it counts: exact volume, extent and     *)
(* close, and a mean within the extent although it is rounded at each trade. *)
Summarises(c, trades) ==
  /\ c.volume = Traded(trades)
  /\ c.close = Last(trades).price
  /\ {c.min, c.max} \subseteq {t.price : t \in ToSet(trades)}
  /\ \A t \in ToSet(trades) : c.min <= t.price /\ t.price <= c.max
  /\ c.min <= c.mean /\ c.mean <= c.max

(* The position of the candle whose period a trade falls in.               *)
Home(t) == (t.time - series.anchor) \div Duration + 1

(* The trades of the feed, each left out (-1) or counted in the candle a    *)
(* number of periods in `late' after its own, make up the series: a candle  *)
(* summarises its trades, one without trades carries the previous close.    *)
Explained(late) ==
  \E delay \in [DOMAIN feed -> late \cup {-1}] :
    LET counted == {j \in DOMAIN feed : delay[j] # -1}
        place(j) == Home(feed[j]) + delay[j]
        mine(i) == Only([j \in DOMAIN feed |-> j], {j \in counted : place(j) = i})
    IN /\ \A j \in counted : place(j) \in DOMAIN Candles
       /\ \A i \in DOMAIN Candles :
            \/ mine(i) # <<>> /\ Summarises(Candles[i], [k \in DOMAIN mine(i) |-> feed[mine(i)[k]]])
            \/ mine(i) = <<>> /\ i > 1 /\ Candles[i] = EmptyCandle(Candles[i - 1].close)

(* No trade is counted twice or more than one period late, whatever the     *)
(* clocks, the delays and the overlaps: AppendTrades, AdvanceTo and the     *)
(* deduplication agree on where the series stands                           *)
(* (quote_scratcher.hpp:184-192, buoy_candle.hpp:156-168).                  *)
AtMostOnePeriodLate == series.anchor # NoTime => Explained({0, 1})

(* The type invariant and the one above.                                   *)
CandleInv == TypeOK /\ AtMostOnePeriodLate

(* An increment counts exactly its trades that are later than the last one  *)
(* seen, unless the first of them is from before the previous period; a     *)
(* snapshot counts everything (quote_scratcher.hpp:223-229).                *)
CountsWhatItGets ==
  [][LET new == Unseen(feed', series.last)
         gained == Volume(Append(series'.closed, series'.active)) - Volume(Candles)
     IN feed' # feed =>
          IF feed # <<>> /\ IsPrefix(feed, feed')
          THEN new # <<>> /\ Head(new).time >= PeriodStart(now) - Duration
                 => gained = Traded(new)
          ELSE gained = Traded(feed') - Volume(Candles)]_vars

(* What is drawn is the start of the series, or will be dropped.           *)
ChartMatches(c, s) ==
  \/ c.anchor # s.anchor
  \/ /\ c.count <= Len(s.closed)
     /\ c.shapes = Shapes(s.closed, 1, c.count)

(* Without a rebuild the chart stays right: the closed candles are never    *)
(* rewritten, so drawing each of them once is enough                        *)
(* (quote_scratcher.cpp:443-455).                                           *)
OnlyRebuildsStale ==
  [][ChartMatches(chart, series) /\ IsPrefix(feed, feed') => ChartMatches(chart', series')]_vars
=============================================================================
