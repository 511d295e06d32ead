----------------------------- MODULE CandleMean -----------------------------
(***************************************************************************)
(* The active candle of BuoyCandleQuotes (src/src/data/buoy_candle.hpp) on  *)
(* the fixed-point numbers it is kept in.  BuoyCandles has the periods and  *)
(* the order of the trades and takes numbers for exact; here the periods    *)
(* are left out and every price and size arrives as the exchange's text,    *)
(* with a scale of its own.                                                 *)
(***************************************************************************)
EXTENDS Currency, FiniteSets, FiniteSetsExt

CONSTANTS PriceText, SizeText,   (* what a trade may carry *)
          MaxTrades              (* bound: trades of one period *)

ASSUME CandleMeanAssumption ==
  /\ MaxTrades \in Nat
  /\ \A text \in PriceText \union SizeText :
       text.whole \in Seq(0..9) /\ text.frac \in Seq(0..9)

VARIABLES
  candle,      (* mCurCandle *)
  last_price,
  trades       (* history: the trades of the candle *)

vars == <<candle, last_price, trades>>

(* reset_active                                                            *)
ResetActive(price) ==
  [min |-> price, max |-> price, mean |-> price, close |-> price, volume |-> ZeroCur]

Init ==
  /\ candle = ResetActive(ZeroCur)
  /\ last_price = ZeroCur
  /\ trades = <<>>

(* What AppendTrades does with one trade of the candle's period.           *)
AddTrade(c, price, size) ==
  LET volume == Plus(c.volume, size)
  IN IF c.volume.raw = 0
     THEN [min |-> price, max |-> price, mean |-> price, close |-> price, volume |-> volume]
     ELSE [min    |-> IF Less(price, c.min) THEN price ELSE c.min,
           max    |-> IF Less(c.max, price) THEN price ELSE c.max,
           mean   |-> Over(Plus(Times(c.mean, c.volume), Times(price, size)), volume),
           close  |-> price,
           volume |-> volume]

(* A trade is read and enters the candle; a text that does not fit its      *)
(* number throws in the adapter, and the record goes no further.            *)
Trade(price_text, size_text) ==
  LET price == Parse(price_text)
      size  == Parse(size_text)
  IN /\ Len(trades) < MaxTrades
     /\ Overflow \notin {price.raw, size.raw}
     /\ candle' = AddTrade(candle, price, size)
     /\ last_price' = price
     /\ trades' = Append(trades, [price |-> price, size |-> size])

(* The period ends with a trade of a later one or by the clock.            *)
ClosePeriod ==
  /\ trades # <<>>
  /\ candle' = ResetActive(last_price)
  /\ trades' = <<>>
  /\ UNCHANGED last_price

Next ==
  \/ \E price_text \in PriceText, size_text \in SizeText : Trade(price_text, size_text)
  \/ ClosePeriod

Spec == Init /\ [][Next]_vars

-----------------------------------------------------------------------------
(* The exact numbers: on a scale that is no narrower, and of any size.     *)
Exact(c, decimals) == c.raw * 10 ^ (decimals - c.decimals)

Prices == {t.price : t \in ToSet(trades)}
Sizes  == {t.size : t \in ToSet(trades)}

ScaleOf(numbers) == Max({c.decimals : c \in numbers})

Total(number(_)) == FoldLeft(LAMBDA sum, t : sum + number(t), 0, trades)

Volume == Total(LAMBDA t : Exact(t.size, ScaleOf(Sizes)))

Notional ==
  Total(LAMBDA t : Exact(t.price, ScaleOf(Prices)) * Exact(t.size, ScaleOf(Sizes)))

IsCur(c) == c.raw \in 0..(Limit - 1) /\ c.decimals \in Nat

TypeOK ==
  /\ \A f \in {"min", "max", "mean", "close", "volume"} : IsCur(candle[f])
  /\ IsCur(last_price)
  /\ Len(trades) <= MaxTrades

(* The extremes of a candle are the least and the greatest price of its     *)
(* trades, as numbers, whatever the scales they were written on, and its    *)
(* volume is their exact sum, as long as the numbers fit on the widest of    *)
(* the scales.                                                              *)
ExtremesAreExact ==
  LET s == ScaleOf(Prices)
  IN trades # <<>> /\ (\A p \in Prices : Exact(p, s) < Limit) =>
       /\ Exact(candle.min, s) = Min({Exact(p, s) : p \in Prices})
       /\ Exact(candle.max, s) = Max({Exact(p, s) : p \in Prices})
       /\ Volume < Limit => Exact(candle.volume, ScaleOf(Sizes)) = Volume

(* What is written as text, to the database or the screen, is read back as   *)
(* the same number on the same scale, computed numbers included; and a text  *)
(* of the exchange that is accepted is written as it came.                   *)
PrintsWhatItReads ==
  /\ \A f \in {"min", "max", "mean", "close", "volume"} :
       Parse(to_string(candle[f])) = candle[f]
  /\ \A text \in PriceText \union SizeText :
       Parse(text).raw # Overflow => to_string(Parse(text)) = text

(* The type invariant and the two properties above.                        *)
NumberInv == TypeOK /\ ExtremesAreExact /\ PrintsWhatItReads

(* While the prices of a candle are on one scale and its notional fits the   *)
(* width, the mean stays on that scale and between the extremes, and after k *)
(* trades it is less than k units of its last digit below the true          *)
(* volume-weighted mean, never above it: each division cuts off less than   *)
(* one unit, of all the trades before it.                                   *)
MeanIsVolumeWeighted ==
  (/\ trades # <<>>
   /\ Cardinality({p.decimals : p \in Prices}) = 1
   /\ Notional < Limit) =>
    /\ candle.mean.decimals = ScaleOf(Prices)
    /\ candle.mean.raw \in candle.min.raw..candle.max.raw
    /\ candle.mean.raw * Volume <= Notional
    /\ Notional < (candle.mean.raw + Larger(Len(trades) - 1, 1)) * Volume
=============================================================================
