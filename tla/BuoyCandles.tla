---------------------------- MODULE BuoyCandles ----------------------------
(***************************************************************************)
(* BuoyCandleQuotes (src/src/data/buoy_candle.{hpp,cpp}): a series of       *)
(* candles of equal duration, all closed but the active one.  A candle's    *)
(* period is its position in the series, counted from the anchor, the first *)
(* trade's period.  The price the caller passes in and keeps afterwards     *)
(* (QuoteScratcher's mLastPrice) is part of the series here.                *)
(*                                                                         *)
(* Prices and sizes are natural numbers of one scale; sizes are positive.   *)
(***************************************************************************)
EXTENDS Integers, Sequences, SequencesExt

CONSTANT Duration   (* m_buoy_duration *)

ASSUME DurationAssumption == Duration \in Nat \ {0}

(* An optional timestamp without a value; every time is later.             *)
NoTime == -1

PeriodStart(time) == time - (time % Duration)

(* reset_active: a candle without trades carries the last price.           *)
EmptyCandle(price) ==
  [min |-> price, max |-> price, mean |-> price, close |-> price, volume |-> 0]

(* A trade enters a candle; the first one of the period opens it.          *)
AddTrade(candle, trade) ==
  LET opened == candle.volume = 0
      volume == candle.volume + trade.size
  IN [min    |-> IF opened \/ trade.price < candle.min THEN trade.price ELSE candle.min,
      max    |-> IF opened \/ candle.max < trade.price THEN trade.price ELSE candle.max,
      mean   |-> IF opened THEN trade.price
                 ELSE (candle.mean * candle.volume + trade.price * trade.size) \div volume,
      close  |-> trade.price,
      volume |-> volume]

(* Mutation: the active candle is closed and not reset.                    *)
RollWithoutReset(series, n) ==
  IF n <= 0 THEN series
  ELSE [series EXCEPT !.closed = @ \o [i \in 1..n |-> series.active]]

(* Close the active candle and n - 1 empty ones after it.                  *)
Roll(series, n) ==
  IF n <= 0 THEN series
  ELSE [series EXCEPT
          !.closed = @ \o <<series.active>> \o [i \in 1..n - 1 |-> EmptyCandle(series.price)],
          !.active = EmptyCandle(series.price)]

(* The boundaries a trade crosses, when the next one is at `next'.          *)
Crossed(next, time) ==
  IF time < next THEN 0 ELSE (time - next) \div Duration + 1

(* One turn of the loop over the trades, on a series and its next boundary; *)
(* nothing is closed before the first trade.                               *)
IngestTrade(state, trade) ==
  LET s == state.series
      n == Crossed(state.next, trade.time)
      rolled == IF s.active.volume = 0 /\ s.closed = <<>> THEN s ELSE Roll(s, n)
  IN [next   |-> state.next + n * Duration,
      series |-> [rolled EXCEPT !.active = AddTrade(@, trade),
                                !.last = trade.time, !.price = trade.price]]

NextBoundary(series) == series.anchor + Len(series.closed) * Duration

(* The first call after Reset starts over.                                 *)
Started(series, time) ==
  IF series.anchor # NoTime THEN series
  ELSE [series EXCEPT !.anchor = PeriodStart(time), !.last = NoTime,
                      !.closed = <<>>, !.active = EmptyCandle(series.price)]

(* AppendTrades throws, before it changes a series that goes on.           *)
Rejects(series, trades) ==
  /\ trades # <<>>
  /\ series.anchor # NoTime
  /\ \/ /\ series.closed # <<>>
        /\ Head(trades).time < NextBoundary(series) - Duration
     \/ Head(trades).time < series.last

AppendTrades(series, trades) ==
  IF trades = <<>> THEN series
  ELSE LET s == Started(series, Head(trades).time)
       IN FoldLeft(IngestTrade, [series |-> s, next |-> NextBoundary(s)], trades).series

(* The clock closes the candles whose period is over.                      *)
AdvanceTo(series, now) ==
  IF series.anchor = NoTime THEN series
  ELSE Roll(series, (PeriodStart(now) - NextBoundary(series)) \div Duration)

(* Reset: the candles stay until the next trade.                           *)
Reset(series) == [series EXCEPT !.anchor = NoTime, !.last = NoTime]

NoSeries(price) ==
  [anchor |-> NoTime, last |-> NoTime, price |-> price,
   closed |-> <<>>, active |-> EmptyCandle(price)]
=============================================================================
