------------------------- MODULE CandleChartProofs -------------------------
(***************************************************************************)
(* Proofs about CandleChart, for any period, prices, sizes and delays, and   *)
(* batches of any trades the clock allows.                                  *)
(*                                                                         *)
(* ChartStaysRight: what is drawn stays right until the series is rebuilt,   *)
(* because the closed candles only grow on one anchor (Grows).              *)
(*                                                                         *)
(* EveryTradeCounted: an increment counts all that is new in it, a snapshot  *)
(* everything.  Caught says why only an old trade is refused: the boundary   *)
(* is never more than a period ahead of the last trade or of the clock.     *)
(*                                                                         *)
(* CandlesAreRight: each candle summarises its trades, and a trade is in the *)
(* candle of its period or in the next.  Walked follows the loop over the    *)
(* trades: its boundary is one period behind, or not, for the whole batch.  *)
(*                                                                         *)
(* AppendTrades is a fold; it is followed trade by trade, with the induction *)
(* over sequences of SeqEditTheorems.                                      *)
(***************************************************************************)
EXTENDS CandleChart, SeqEditTheorems

-----------------------------------------------------------------------------
(* The values of the chart.                                                *)

Money == Price \cup {0}
TradeRecord == [time : Nat, price : Price, size : Size]
CandleRecord == [min : Money, max : Money, mean : Nat, close : Money, volume : Nat]
Instant == Nat \cup {NoTime}
Series ==
  [anchor : Instant, last : Instant, price : Money, closed : Seq(CandleRecord), active : CandleRecord]
IngestState == [next : Int, series : Series]

LEMMA Numbers ==
  /\ Duration \in Nat /\ Duration > 0
  /\ \A p \in Money : p \in Nat
  /\ \A t \in TradeRecord : /\ t.time \in Nat /\ t.price \in Price /\ t.price \in Money /\ t.price \in Nat
                            /\ t.size \in Nat /\ t.size > 0
  /\ \A c \in CandleRecord : /\ c.min \in Money /\ c.max \in Money /\ c.mean \in Nat /\ c.close \in Money
                             /\ c.volume \in Nat
  /\ \A i \in Instant : i \in Int /\ i >= -1 /\ (i = NoTime \/ i >= 0)
  /\ MaxTime \in Nat /\ MaxDelay \in Nat /\ MaxAhead \in Nat /\ MaxTrades \in Nat
<1>1. Duration \in Nat /\ Duration > 0
  BY DurationAssumption
<1>2. \A p \in Money : p \in Nat
  BY TradeAssumption DEF Money
<1>3. \A t \in TradeRecord : /\ t.time \in Nat /\ t.price \in Price /\ t.price \in Money /\ t.size \in Nat /\ t.size > 0
  <2>1. \A x \in Size : x \in Nat /\ x > 0
    BY TradeAssumption
  <2>. QED BY <2>1 DEF TradeRecord, Money
<1>4. \A c \in CandleRecord : /\ c.min \in Money /\ c.max \in Money /\ c.mean \in Nat /\ c.close \in Money
                             /\ c.volume \in Nat
  BY DEF CandleRecord
<1>5. \A i \in Instant : i \in Int /\ i >= -1 /\ (i = NoTime \/ i >= 0)
  BY DEF Instant, NoTime
<1>6. MaxTime \in Nat /\ MaxDelay \in Nat /\ MaxAhead \in Nat /\ MaxTrades \in Nat
  BY BoundAssumption
<1>. QED BY <1>1, <1>2, <1>3, <1>4, <1>5, <1>6

(* Division by the duration.                                               *)
LEMMA DivisionIs ==
  ASSUME NEW n \in Int
  PROVE  /\ n \div Duration \in Int
         /\ (n \div Duration) * Duration <= n /\ n < ((n \div Duration) + 1) * Duration
         /\ \A q \in Int : q * Duration <= n /\ n < (q + 1) * Duration => q = n \div Duration
<1>1. Duration \in Nat /\ Duration > 0
  BY Numbers
<1>2. n \div Duration \in Int
  BY <1>1
<1>3. (n \div Duration) * Duration <= n /\ n < ((n \div Duration) + 1) * Duration
  BY <1>1
<1>4. ASSUME NEW q \in Int, q * Duration <= n, n < (q + 1) * Duration PROVE q = n \div Duration
  BY <1>1, <1>4
<1>. QED BY <1>2, <1>3, <1>4

LEMMA PeriodStartIs ==
  ASSUME NEW n \in Int
  PROVE  /\ PeriodStart(n) = (n \div Duration) * Duration
         /\ PeriodStart(n) \in Int /\ PeriodStart(n) <= n /\ n < PeriodStart(n) + Duration
         /\ PeriodStart(n) % Duration = 0
         /\ n >= 0 => PeriodStart(n) >= 0
<1>1. Duration \in Nat /\ Duration > 0
  BY Numbers
<1>2. n % Duration \in 0..Duration - 1 /\ n = ((n \div Duration) * Duration) + (n % Duration)
  BY <1>1
<1>3. PeriodStart(n) = (n \div Duration) * Duration
  <2>1. (n \div Duration) * Duration \in Int
    BY <1>1
  <2>. QED BY <1>1, <1>2, <2>1 DEF PeriodStart
<1>4. PeriodStart(n) \in Int /\ PeriodStart(n) <= n /\ n < PeriodStart(n) + Duration
  BY <1>1, <1>2 DEF PeriodStart
<1>5. PeriodStart(n) % Duration = 0
  <2>. DEFINE q == n \div Duration
              m == q * Duration
  <2>1. q \in Int /\ m \in Int /\ q * Duration <= m /\ m < (q + 1) * Duration
    BY <1>1
  <2>2. \A k \in Int : \A i \in Int :
          i * Duration <= k /\ k < (i + 1) * Duration => i = k \div Duration
    BY DivisionIs
  <2>3. m \div Duration = q
    <3>. HIDE DEF q, m
    <3>. QED BY <2>1, <2>2
  <2>4. \A k \in Int : k % Duration = k - (k \div Duration) * Duration
    BY <1>1
  <2>5. m % Duration = m - (m \div Duration) * Duration
    <3>. HIDE DEF m
    <3>. QED BY <2>1, <2>4
  <2>6. m % Duration = 0
    <3>. HIDE DEF q
    <3>1. m % Duration = m - q * Duration
      BY <2>3, <2>5
    <3>. QED BY <2>1, <3>1
  <2>. QED BY <1>3, <2>6
<1>6. ASSUME n >= 0 PROVE PeriodStart(n) >= 0
  <2>1. n \div Duration >= 0
    BY <1>1, <1>6
  <2>. QED BY <1>1, <1>3, <2>1
<1>. QED BY <1>3, <1>4, <1>5, <1>6

(* A mean of two numbers, however weighted and rounded, lies between them.  *)
LEMMA MeanBetween ==
  ASSUME NEW m \in Nat, NEW p \in Nat, NEW v \in Nat, NEW q \in Nat, q > 0,
         NEW lo \in Nat, NEW hi \in Nat, lo <= m, lo <= p, m <= hi, p <= hi
  PROVE  LET mean == (m * v + p * q) \div (v + q)
         IN mean \in Nat /\ lo <= mean /\ mean <= hi
<1>. DEFINE n == m * v + p * q
            d == v + q
            z == n \div d
<1>1. n \in Nat /\ d \in Nat /\ d > 0
  OBVIOUS
<1>2. lo * d <= n /\ n <= hi * d
  <2>1. lo * v <= m * v /\ m * v <= hi * v
    OBVIOUS
  <2>2. lo * q <= p * q /\ p * q <= hi * q
    OBVIOUS
  <2>3. lo * d = lo * v + lo * q /\ hi * d = hi * v + hi * q
    OBVIOUS
  <2>. QED BY <2>1, <2>2, <2>3
<1>3. z \in Int /\ z * d <= n /\ n < (z + 1) * d
  <2>. HIDE DEF n, d
  <2>. QED BY <1>1
<1>4. lo <= z
  <2>1. ASSUME z < lo PROVE FALSE
    <3>. HIDE DEF n, d, z
    <3>1. (z + 1) * d <= lo * d
      BY <1>1, <1>3, <2>1
    <3>. QED BY <1>1, <1>2, <1>3, <3>1
  <2>. HIDE DEF n, d, z
  <2>. QED BY <1>3, <2>1
<1>5. z <= hi
  <2>1. ASSUME hi < z PROVE FALSE
    <3>. HIDE DEF n, d, z
    <3>1. (hi + 1) * d <= z * d
      BY <1>1, <1>3, <2>1
    <3>2. (hi + 1) * d = hi * d + d
      BY <1>1
    <3>. QED BY <1>1, <1>2, <1>3, <3>1, <3>2
  <2>. HIDE DEF n, d, z
  <2>. QED BY <1>3, <2>1
<1>. HIDE DEF z
<1>6. z \in Nat
  BY <1>3, <1>4
<1>. QED BY <1>4, <1>5, <1>6 DEF z, n, d

(* What a trade makes of a candle.                                         *)
LEMMA AddTradeIs ==
  ASSUME NEW c \in CandleRecord, NEW t \in TradeRecord
  PROVE  LET d == AddTrade(c, t)
         IN /\ d \in CandleRecord /\ d.volume = c.volume + t.size /\ d.volume > 0 /\ d.close = t.price
            /\ c.volume = 0 => d.min = t.price /\ d.max = t.price /\ d.mean = t.price
            /\ c.volume # 0 =>
                 /\ d.min \in {c.min, t.price} /\ d.min <= c.min /\ d.min <= t.price
                 /\ d.max \in {c.max, t.price} /\ c.max <= d.max /\ t.price <= d.max
                 /\ c.min <= c.mean /\ c.mean <= c.max => d.min <= d.mean /\ d.mean <= d.max
<1>. DEFINE d == AddTrade(c, t)
            mean == (c.mean * c.volume + t.price * t.size) \div (c.volume + t.size)
<1>1. /\ t.price \in Money /\ t.price \in Nat /\ t.size \in Nat /\ t.size > 0
      /\ c.min \in Money /\ c.max \in Money /\ c.close \in Money /\ c.mean \in Nat /\ c.volume \in Nat
      /\ c.min \in Nat /\ c.max \in Nat
  BY Numbers
<1>2. c.volume + t.size \in Nat /\ c.volume + t.size > 0
  BY <1>1
<1>3. CASE c.volume = 0
  <2>1. d = [min |-> t.price, max |-> t.price, mean |-> t.price, close |-> t.price,
             volume |-> c.volume + t.size]
    BY <1>3 DEF AddTrade
  <2>2. /\ d.min = t.price /\ d.max = t.price /\ d.mean = t.price /\ d.close = t.price
        /\ d.volume = c.volume + t.size
    BY <2>1
  <2>3. d \in CandleRecord
    BY <1>1, <1>2, <2>1 DEF CandleRecord
  <2>. HIDE DEF d
  <2>. QED BY <1>2, <1>3, <2>2, <2>3 DEF d
<1>4. CASE c.volume # 0
  <2>0. c.volume \in Nat /\ c.volume > 0
    BY <1>1, <1>4
  <2>1. d = [min |-> IF t.price < c.min THEN t.price ELSE c.min,
             max |-> IF c.max < t.price THEN t.price ELSE c.max,
             mean |-> mean, close |-> t.price, volume |-> c.volume + t.size]
    BY <1>4 DEF AddTrade
  <2>2. \A m, p, v, q, lo, hi \in Nat :
          q > 0 /\ lo <= m /\ lo <= p /\ m <= hi /\ p <= hi =>
            LET z == (m * v + p * q) \div (v + q) IN z \in Nat /\ lo <= z /\ z <= hi
    BY MeanBetween
  <2>3. mean \in Nat
    <3>. DEFINE hi == IF c.mean < t.price THEN t.price ELSE c.mean
    <3>1. hi \in Nat /\ c.mean <= hi /\ t.price <= hi /\ 0 <= c.mean /\ 0 <= t.price /\ 0 \in Nat
      BY <1>1
    <3>. HIDE DEF hi
    <3>. QED BY <1>1, <2>2, <3>1
  <2>4. /\ d.min = IF t.price < c.min THEN t.price ELSE c.min
        /\ d.max = IF c.max < t.price THEN t.price ELSE c.max
        /\ d.mean = mean /\ d.close = t.price /\ d.volume = c.volume + t.size
    BY <2>1
  <2>5. d \in CandleRecord
    <3>. HIDE DEF mean
    <3>. QED BY <1>1, <1>2, <2>1, <2>3 DEF CandleRecord
  <2>6. /\ d.min \in {c.min, t.price} /\ d.min <= c.min /\ d.min <= t.price /\ d.min \in Nat
        /\ d.max \in {c.max, t.price} /\ c.max <= d.max /\ t.price <= d.max /\ d.max \in Nat
    <3>. HIDE DEF d
    <3>. QED BY <1>1, <2>4
  <2>7. ASSUME c.min <= c.mean, c.mean <= c.max PROVE d.min <= d.mean /\ d.mean <= d.max
    <3>1. d.min <= c.mean /\ c.mean <= d.max
      <4>. HIDE DEF d
      <4>. QED BY <1>1, <2>6, <2>7
    <3>2. d.min <= mean /\ mean <= d.max
      <4>. HIDE DEF d
      <4>. QED BY <1>1, <2>2, <2>6, <3>1, ZenonT(30)
    <3>. QED BY <2>4, <3>2
  <2>. HIDE DEF d, mean
  <2>. QED BY <1>2, <1>4, <2>4, <2>5, <2>6, <2>7 DEF d
<1>. QED BY <1>3, <1>4

(* Closing n candles: the series is continued, with empty candles at the    *)
(* last price behind the one that was active.                              *)
LEMMA RollIs ==
  ASSUME NEW s \in Series, NEW n \in Int
  PROVE  LET r == Roll(s, n)
         IN /\ r \in Series /\ r.anchor = s.anchor /\ r.last = s.last /\ r.price = s.price
            /\ n <= 0 => r = s
            /\ n > 0 =>
                 /\ Len(r.closed) = Len(s.closed) + n /\ r.active = EmptyCandle(s.price)
                 /\ \A i \in 1..Len(s.closed) + n :
                      r.closed[i] = IF i <= Len(s.closed) THEN s.closed[i]
                                    ELSE IF i = Len(s.closed) + 1 THEN s.active
                                    ELSE EmptyCandle(s.price)
<1>. DEFINE r == Roll(s, n)
            e == EmptyCandle(s.price)
            f == [i \in 1..n - 1 |-> e]
            h == s.closed \o <<s.active>>
            k == h \o f
<1>1. s.closed \in Seq(CandleRecord) /\ s.active \in CandleRecord /\ s.price \in Money
  BY DEF Series
<1>2. e \in CandleRecord
  BY <1>1, Numbers DEF EmptyCandle, CandleRecord
<1>3. CASE n <= 0
  <2>1. r = s
    BY <1>3 DEF Roll
  <2>. QED BY <1>3, <2>1
<1>4. CASE n > 0
  <2>1. f \in Seq(CandleRecord) /\ Len(f) = n - 1 /\ \A i \in 1..n - 1 : f[i] = e
    BY <1>2, <1>4
  <2>2. /\ h \in Seq(CandleRecord) /\ Len(h) = Len(s.closed) + 1
        /\ \A i \in 1..Len(s.closed) : h[i] = s.closed[i]
        /\ h[Len(s.closed) + 1] = s.active
    BY <1>1
  <2>3. /\ k \in Seq(CandleRecord) /\ Len(k) = Len(h) + (n - 1)
        /\ \A i \in 1..Len(h) : k[i] = h[i]
        /\ \A i \in Len(h) + 1..Len(h) + (n - 1) : k[i] = f[i - Len(h)]
    <3>1. \A x, y \in Seq(CandleRecord) :
            /\ x \o y \in Seq(CandleRecord) /\ Len(x \o y) = Len(x) + Len(y)
            /\ \A i \in 1..Len(x) : (x \o y)[i] = x[i]
            /\ \A i \in Len(x) + 1..Len(x) + Len(y) : (x \o y)[i] = y[i - Len(x)]
      OBVIOUS
    <3>. HIDE DEF f, h
    <3>2. h \in Seq(CandleRecord) /\ f \in Seq(CandleRecord) /\ Len(f) = n - 1
      BY <2>1, <2>2
    <3>3. /\ k \in Seq(CandleRecord) /\ Len(k) = Len(h) + Len(f)
          /\ \A i \in 1..Len(h) : k[i] = h[i]
          /\ \A i \in Len(h) + 1..Len(h) + Len(f) : k[i] = f[i - Len(h)]
      BY <3>1, <3>2, Zenon
    <3>. HIDE DEF k
    <3>. QED BY <3>2, <3>3
  <2>4. /\ Len(k) = Len(s.closed) + n
        /\ \A i \in 1..Len(s.closed) + n :
             k[i] = IF i <= Len(s.closed) THEN s.closed[i]
                    ELSE IF i = Len(s.closed) + 1 THEN s.active ELSE e
    <3>. HIDE DEF k, f, h, e
    <3>0. Len(s.closed) \in Nat
      BY <1>1
    <3>1. Len(k) = Len(s.closed) + n
      BY <2>2, <2>3, <3>0
    <3>2. ASSUME NEW i \in 1..Len(s.closed) + n
          PROVE  k[i] = IF i <= Len(s.closed) THEN s.closed[i]
                        ELSE IF i = Len(s.closed) + 1 THEN s.active ELSE e
      <4>1. CASE i <= Len(s.closed) + 1
        BY <2>2, <2>3, <3>0, <4>1
      <4>2. CASE i > Len(s.closed) + 1
        <5>1. i \in Len(h) + 1..Len(h) + (n - 1) /\ i - Len(h) \in 1..n - 1
          BY <2>2, <3>0, <4>2
        <5>2. k[i] = f[i - Len(h)] /\ f[i - Len(h)] = e
          BY <2>1, <2>3, <5>1
        <5>3. ~(i <= Len(s.closed)) /\ i # Len(s.closed) + 1
          BY <3>0, <4>2
        <5>. QED BY <5>2, <5>3
      <4>. QED BY <3>0, <4>1, <4>2
    <3>. QED BY <3>1, <3>2
  <2>5. r = [s EXCEPT !.closed = k, !.active = e]
    BY <1>4 DEF Roll
  <2>6. /\ r \in Series /\ r.anchor = s.anchor /\ r.last = s.last /\ r.price = s.price
        /\ r.closed = k /\ r.active = e
    <3>. HIDE DEF k, e, r
    <3>. QED BY <1>2, <2>3, <2>5 DEF Series
  <2>. HIDE DEF k, e, r
  <2>. QED BY <1>4, <2>4, <2>6 DEF r, e
<1>. QED BY <1>3, <1>4

(* b continues a.                                                          *)
Grows(a, b) == Len(a) <= Len(b) /\ \A i \in 1..Len(a) : a[i] = b[i]

LEMMA RollGrows ==
  ASSUME NEW s \in Series, NEW n \in Int
  PROVE  Grows(s.closed, Roll(s, n).closed)
<1>1. Len(s.closed) \in Nat
  BY DEF Series
<1>2. CASE n <= 0
  BY <1>1, <1>2, RollIs DEF Grows
<1>3. CASE n > 0
  <2>1. /\ Len(Roll(s, n).closed) = Len(s.closed) + n
        /\ \A i \in 1..Len(s.closed) + n : i <= Len(s.closed) => Roll(s, n).closed[i] = s.closed[i]
    BY <1>3, RollIs
  <2>. QED BY <1>1, <1>3, <2>1 DEF Grows
<1>. QED BY <1>2, <1>3

(* Nothing has been traded since the series began.                         *)
Fresh(s) == s.active.volume = 0 /\ s.closed = <<>>

Rolled(s, n) == IF Fresh(s) THEN s ELSE Roll(s, n)

(* One turn of the loop of AppendTrades.                                   *)
LEMMA IngestTradeIs ==
  ASSUME NEW st \in IngestState, NEW t \in TradeRecord
  PROVE  LET s == st.series
             n == Crossed(st.next, t.time)
             r == Rolled(s, n)
             w == IngestTrade(st, t)
         IN /\ w \in IngestState /\ n \in Nat /\ r \in Series /\ w.next = st.next + n * Duration
            /\ w.series.anchor = s.anchor /\ w.series.last = t.time /\ w.series.price = t.price
            /\ w.series.closed = r.closed /\ w.series.active = AddTrade(r.active, t)
            /\ Grows(s.closed, w.series.closed)
<1>. DEFINE s == st.series
            n == Crossed(st.next, t.time)
            r == Rolled(s, n)
            w == IngestTrade(st, t)
            v == [r EXCEPT !.active = AddTrade(@, t), !.last = t.time, !.price = t.price]
<1>1. s \in Series /\ st.next \in Int /\ t.time \in Nat /\ t.time \in Instant /\ t.price \in Money
  BY Numbers DEF IngestState, Instant
<1>2. n \in Nat
  <2>1. CASE t.time < st.next
    BY <2>1 DEF Crossed
  <2>2. CASE ~(t.time < st.next)
    <3>. DEFINE x == t.time - st.next
    <3>1. x \in Int /\ x >= 0
      BY <1>1, <2>2
    <3>2. x \div Duration \in Int /\ x \div Duration >= 0
      <4>. HIDE DEF x
      <4>. QED BY <3>1, Numbers
    <3>3. n = (x \div Duration) + 1
      BY <2>2 DEF Crossed
    <3>. HIDE DEF x
    <3>. QED BY <3>2, <3>3
  <2>. QED BY <2>1, <2>2
<1>3. r \in Series /\ r.anchor = s.anchor /\ Grows(s.closed, r.closed)
  <2>. HIDE DEF s, n
  <2>1. CASE Fresh(s)
    <3>1. Len(s.closed) \in Nat
      BY <1>1 DEF Series
    <3>. QED BY <1>1, <2>1, <3>1 DEF Rolled, Grows
  <2>2. CASE ~Fresh(s)
    BY <1>1, <1>2, <2>2, RollIs, RollGrows DEF Rolled
  <2>. QED BY <2>1, <2>2
<1>4. r.active \in CandleRecord
  <2>. HIDE DEF r
  <2>. QED BY <1>3 DEF Series
<1>5. AddTrade(r.active, t) \in CandleRecord
  <2>. HIDE DEF r
  <2>. QED BY <1>4, AddTradeIs
<1>6. w = [next |-> st.next + n * Duration, series |-> v]
  BY DEF IngestTrade, Rolled, Fresh
<1>7. /\ v \in Series /\ v.anchor = r.anchor /\ v.last = t.time /\ v.price = t.price
      /\ v.closed = r.closed /\ v.active = AddTrade(r.active, t)
  <2>. HIDE DEF r
  <2>. QED BY <1>1, <1>3, <1>5 DEF Series
<1>8. w \in IngestState /\ w.next = st.next + n * Duration /\ w.series = v
  <2>1. st.next + n * Duration \in Int
    BY <1>1, <1>2, Numbers
  <2>. HIDE DEF v, n, w
  <2>. QED BY <1>6, <1>7, <2>1 DEF IngestState
<1>. HIDE DEF v, n, w, r
<1>9. Grows(s.closed, w.series.closed)
  BY <1>3, <1>7, <1>8
<1>. QED BY <1>2, <1>3, <1>7, <1>8, <1>9 DEF n, w, r

(* The loop of AppendTrades.                                               *)
Ingested(st, trades) == FoldLeft(IngestTrade, st, trades)

IngestStep(trades) ==
  [p \in (1..Len(trades)) \X IngestState |-> IngestTrade(p[2], trades[p[1]])]

LEMMA IngestChain ==
  ASSUME NEW st \in IngestState, NEW trades \in Seq(TradeRecord)
  PROVE  \E v : FoldRun(v, Len(trades), IngestState, st, IngestStep(trades), Ingested(st, trades))
<1>. DEFINE n == Len(trades)
            step == IngestStep(trades)
            k == CHOOSE f : f = [u \in SUBSET (DOMAIN trades) |->
                   IF u = {} THEN st ELSE IngestTrade(f[u \ {Max(u)}], trades[Max(u)])]
<1>1. n \in Nat /\ DOMAIN trades = 1..n /\ \A i \in 1..n : trades[i] \in TradeRecord
  OBVIOUS
<1>2. /\ step \in [(1..n) \X IngestState -> IngestState]
      /\ \A p \in (1..n) \X IngestState : step[p] = IngestTrade(p[2], trades[p[1]])
  BY <1>1, IngestTradeIs DEF IngestStep
<1>. HIDE DEF step
<1>4. PICK h : FoldSolution(h, n, IngestState, st, step)
  <2>. HIDE DEF n
  <2>. QED BY <1>1, <1>2, FoldExists
<1>5. \A u \in SUBSET (1..n) : u # {} => Max(u) \in 1..n
  BY <1>1, MaxIsPosition
<1>6. \A u \in SUBSET (1..n) :
        h[u] = IF u = {} THEN st ELSE IngestTrade(h[u \ {Max(u)}], trades[Max(u)])
  BY <1>2, <1>4, <1>5 DEF FoldSolution
<1>7. h = [u \in SUBSET (DOMAIN trades) |-> IF u = {} THEN st ELSE IngestTrade(h[u \ {Max(u)}], trades[Max(u)])]
  BY <1>1, <1>4, <1>6 DEF FoldSolution
<1>8. k = [u \in SUBSET (DOMAIN trades) |-> IF u = {} THEN st ELSE IngestTrade(k[u \ {Max(u)}], trades[Max(u)])]
  BY <1>7
<1>9. Ingested(st, trades) = k[DOMAIN trades]
  BY DEF Ingested, FoldLeft, MapThenFoldSet
<1>. HIDE DEF k
<1>10. k[{}] = st
  BY <1>8
<1>11. ASSUME NEW u \in SUBSET (1..n), u # {}, k[u \ {Max(u)}] \in IngestState
       PROVE  k[u] = step[<<Max(u), k[u \ {Max(u)}]>>]
  <2>1. k[u] = IngestTrade(k[u \ {Max(u)}], trades[Max(u)])
    BY <1>1, <1>8, <1>11
  <2>2. <<Max(u), k[u \ {Max(u)}]>> \in (1..n) \X IngestState
    BY <1>5, <1>11
  <2>. QED BY <1>2, <2>1, <2>2
<1>12. PICK v : FoldRun(v, n, IngestState, st, step, k[1..n])
  <2>. HIDE DEF n
  <2>. QED BY <1>1, <1>2, <1>10, <1>11, FoldChain
<1>13. Ingested(st, trades) = k[1..n]
  BY <1>1, <1>9
<1>. QED BY <1>12, <1>13 DEF step

(* It goes through the trades one by one.                                  *)
LEMMA IngestedIs ==
  ASSUME NEW st \in IngestState
  PROVE  /\ Ingested(st, <<>>) = st
         /\ \A u \in Seq(TradeRecord), t \in TradeRecord :
              /\ Ingested(st, u) \in IngestState
              /\ Ingested(st, Append(u, t)) = IngestTrade(Ingested(st, u), t)
<1>1. Ingested(st, <<>>) = st
  <2>1. <<>> \in Seq(TradeRecord) /\ Len(<<>>) = 0
    OBVIOUS
  <2>2. PICK v : FoldRun(v, Len(<<>>), IngestState, st, IngestStep(<<>>), Ingested(st, <<>>))
    BY <2>1, IngestChain
  <2>. QED BY <2>1, <2>2 DEF FoldRun
<1>2. ASSUME NEW u \in Seq(TradeRecord), NEW t \in TradeRecord
      PROVE  /\ Ingested(st, u) \in IngestState
             /\ Ingested(st, Append(u, t)) = IngestTrade(Ingested(st, u), t)
  <2>. DEFINE n == Len(u)
              a == Append(u, t)
              x == Ingested(st, u)
              y == Ingested(st, a)
              f == IngestStep(u)
              g == IngestStep(a)
  <2>1. /\ n \in Nat /\ a \in Seq(TradeRecord) /\ Len(a) = n + 1 /\ a[n + 1] = t
        /\ \A i \in 1..n : a[i] = u[i]
    OBVIOUS
  <2>2. PICK v : FoldRun(v, n, IngestState, st, f, x)
    BY IngestChain
  <2>. HIDE DEF a
  <2>3. PICK w : FoldRun(w, n + 1, IngestState, st, g, y)
    BY <2>1, IngestChain
  <2>. HIDE DEF n, x, y
  <2>4. /\ \A p \in (1..n) \X IngestState : f[p] = IngestTrade(p[2], u[p[1]])
        /\ \A p \in (1..(n + 1)) \X IngestState : g[p] = IngestTrade(p[2], a[p[1]])
    BY <2>1 DEF IngestStep, n
  <2>. HIDE DEF f, g
  <2>5. \A i \in 1..n, e \in IngestState : f[<<i, e>>] = g[<<i, e>>]
    <3>1. ASSUME NEW i \in 1..n, NEW e \in IngestState PROVE f[<<i, e>>] = g[<<i, e>>]
      <4>1. <<i, e>> \in (1..n) \X IngestState /\ <<i, e>> \in (1..(n + 1)) \X IngestState
        BY <2>1
      <4>. QED BY <2>1, <2>4, <4>1
    <3>. QED BY <3>1
  <2>6. x \in IngestState /\ y = g[<<n + 1, x>>]
    BY <2>1, <2>2, <2>3, <2>5, FoldRunAppend
  <2>7. <<n + 1, x>> \in (1..(n + 1)) \X IngestState
    BY <2>1, <2>6
  <2>8. y = IngestTrade(x, t)
    BY <2>1, <2>4, <2>6, <2>7
  <2>. QED BY <2>6, <2>8 DEF x, y, a
<1>. QED BY <1>1, <1>2

LEMMA GrowsOn ==
  ASSUME NEW a \in Seq(CandleRecord), NEW b \in Seq(CandleRecord), NEW c \in Seq(CandleRecord)
  PROVE  Grows(a, a) /\ (Grows(a, b) /\ Grows(b, c) => Grows(a, c))
<1>1. Len(a) \in Nat /\ Len(b) \in Nat /\ Len(c) \in Nat
  OBVIOUS
<1>. QED BY <1>1 DEF Grows

(* Whatever is traded, closed candles stay as they are.                     *)
LEMMA IngestedGrows ==
  ASSUME NEW st \in IngestState, NEW trades \in Seq(TradeRecord)
  PROVE  LET w == Ingested(st, trades)
         IN /\ w \in IngestState /\ w.series \in Series /\ w.series.anchor = st.series.anchor
            /\ Grows(st.series.closed, w.series.closed)
<1>. DEFINE Fine(w) == /\ w \in IngestState /\ w.series \in Series /\ w.series.anchor = st.series.anchor
                       /\ Grows(st.series.closed, w.series.closed)
            P == {u \in Seq(TradeRecord) : Fine(Ingested(st, u))}
<1>0. \A w \in IngestState : w.series \in Series /\ w.series.closed \in Seq(CandleRecord)
  BY DEF IngestState, Series
<1>1. <<>> \in P
  <2>1. Fine(st)
    BY <1>0, GrowsOn
  <2>. HIDE DEF Fine
  <2>. QED BY <2>1, IngestedIs
<1>2. ASSUME NEW u \in Seq(TradeRecord), NEW t \in TradeRecord, u \in P PROVE Append(u, t) \in P
  <2>. DEFINE x == Ingested(st, u)
              y == IngestTrade(x, t)
  <2>1. Append(u, t) \in Seq(TradeRecord) /\ Ingested(st, Append(u, t)) = y /\ Fine(x)
    BY <1>2, IngestedIs
  <2>2. x \in IngestState
    BY <2>1
  <2>. HIDE DEF x
  <2>3. y \in IngestState /\ y.series.anchor = x.series.anchor /\ Grows(x.series.closed, y.series.closed)
    BY <2>2, IngestTradeIs
  <2>. HIDE DEF y
  <2>4. Grows(st.series.closed, y.series.closed)
    BY <1>0, <2>1, <2>2, <2>3, GrowsOn
  <2>5. Fine(y)
    BY <1>0, <2>1, <2>3, <2>4
  <2>. HIDE DEF Fine
  <2>. QED BY <2>1, <2>5
<1>3. Seq(TradeRecord) \subseteq P
  <2>. HIDE DEF P
  <2>. QED BY <1>1, <1>2, SeqSetInduction
<1>. QED BY <1>3

(* The clock closes candles and nothing else.                              *)
LEMMA AdvanceToIs ==
  ASSUME NEW s \in Series, NEW time \in Int
  PROVE  LET r == AdvanceTo(s, time)
             n == (PeriodStart(time) - NextBoundary(s)) \div Duration
         IN /\ r \in Series /\ r.anchor = s.anchor /\ r.last = s.last /\ r.price = s.price
            /\ Grows(s.closed, r.closed)
            /\ s.anchor = NoTime => r = s
            /\ s.anchor # NoTime => NextBoundary(s) \in Int /\ n \in Int /\ r = Roll(s, n)
<1>1. s.closed \in Seq(CandleRecord) /\ Len(s.closed) \in Nat /\ s.anchor \in Int
  BY Numbers DEF Series
<1>2. CASE s.anchor = NoTime
  <2>1. AdvanceTo(s, time) = s
    BY <1>2 DEF AdvanceTo
  <2>. QED BY <1>1, <1>2, <2>1, GrowsOn
<1>3. CASE s.anchor # NoTime
  <2>. DEFINE n == (PeriodStart(time) - NextBoundary(s)) \div Duration
  <2>1. NextBoundary(s) \in Int
    BY <1>1, Numbers DEF NextBoundary
  <2>2. PeriodStart(time) - NextBoundary(s) \in Int
    BY <2>1, PeriodStartIs
  <2>3. n \in Int
    BY <2>2, DivisionIs
  <2>4. AdvanceTo(s, time) = Roll(s, n)
    BY <1>3 DEF AdvanceTo
  <2>. HIDE DEF n
  <2>5. /\ Roll(s, n) \in Series /\ Roll(s, n).anchor = s.anchor /\ Roll(s, n).last = s.last
        /\ Roll(s, n).price = s.price /\ Grows(s.closed, Roll(s, n).closed)
    BY <2>3, RollIs, RollGrows
  <2>. QED BY <1>3, <2>1, <2>3, <2>4, <2>5 DEF n
<1>. QED BY <1>2, <1>3

(* A series that goes on takes a batch in, or not at all.                   *)
AtBoundary(s) == [series |-> s, next |-> NextBoundary(s)]

LEMMA UnseenIs ==
  ASSUME NEW trades \in Seq(TradeRecord), NEW last \in Instant
  PROVE  /\ Unseen(trades, last) \in Seq(TradeRecord)
         /\ last = NoTime => Unseen(trades, last) = trades
<1>1. Unseen(trades, last) \in Seq(TradeRecord)
  BY OnlyIsSeq DEF Unseen
<1>2. ToSet(trades) \subseteq TradeRecord
  BY ToSetProperties
<1>3. ASSUME last = NoTime PROVE ToSet(trades) \subseteq {t \in ToSet(trades) : t.time > last}
  BY <1>2, <1>3, Numbers DEF NoTime
<1>4. ASSUME last = NoTime PROVE Unseen(trades, last) = trades
  BY <1>3, <1>4, OnlyAll DEF Unseen
<1>. QED BY <1>1, <1>4

LEMMA ContinuedIs ==
  ASSUME NEW s \in Series, s.anchor # NoTime, s.last # NoTime,
         NEW trades \in Seq(TradeRecord), NEW time \in Int
  PROVE  LET new == Unseen(trades, s.last)
             w == Ingested(AtBoundary(s), new)
             r == IngestTradesAt(s, trades, time)
         IN /\ new \in Seq(TradeRecord) /\ AtBoundary(s) \in IngestState /\ w \in IngestState
            /\ Rejects(s, new) => r = s
            /\ ~Rejects(s, new) => r = AdvanceTo(w.series, time)
            /\ r \in Series /\ r.anchor = s.anchor /\ Grows(s.closed, r.closed)
<1>. DEFINE new == Unseen(trades, s.last)
            w == Ingested(AtBoundary(s), new)
            r == IngestTradesAt(s, trades, time)
<1>1. s.closed \in Seq(CandleRecord) /\ Len(s.closed) \in Nat /\ s.anchor \in Int /\ s.last \in Instant
  BY Numbers DEF Series
<1>2. new \in Seq(TradeRecord)
  BY <1>1, UnseenIs
<1>3. AtBoundary(s) \in IngestState /\ AtBoundary(s).series = s
  <2>1. NextBoundary(s) \in Int
    BY <1>1, Numbers DEF NextBoundary
  <2>. QED BY <2>1 DEF AtBoundary, IngestState
<1>4. r = IF Rejects(s, new) THEN s ELSE AdvanceTo(AppendTrades(s, new), time)
  BY DEF IngestTradesAt
<1>5. AppendTrades(s, new) = w.series
  <2>. HIDE DEF new
  <2>1. CASE new = <<>>
    <3>1. AppendTrades(s, new) = s
      BY <2>1 DEF AppendTrades
    <3>. QED BY <1>3, <2>1, <3>1, IngestedIs
  <2>2. CASE new # <<>>
    <3>1. Started(s, Head(new).time) = s
      BY DEF Started
    <3>. QED BY <2>2, <3>1 DEF AppendTrades, Ingested, AtBoundary
  <2>. QED BY <2>1, <2>2
<1>. HIDE DEF new
<1>6. /\ w \in IngestState /\ w.series \in Series /\ w.series.anchor = s.anchor
      /\ Grows(s.closed, w.series.closed)
  BY <1>2, <1>3, IngestedGrows
<1>. HIDE DEF w
<1>7. /\ AdvanceTo(w.series, time) \in Series /\ AdvanceTo(w.series, time).anchor = s.anchor
      /\ Grows(w.series.closed, AdvanceTo(w.series, time).closed)
  BY <1>6, AdvanceToIs
<1>8. w.series.closed \in Seq(CandleRecord) /\ AdvanceTo(w.series, time).closed \in Seq(CandleRecord)
  BY <1>6, <1>7 DEF Series
<1>9. Grows(s.closed, AdvanceTo(w.series, time).closed) /\ Grows(s.closed, s.closed)
  BY <1>1, <1>6, <1>7, <1>8, GrowsOn
<1>. HIDE DEF r
<1>. QED BY <1>2, <1>3, <1>4, <1>5, <1>6, <1>7, <1>9 DEF r, w, new

(* A snapshot is taken in from the start of its first period.               *)
Begun(t) ==
  [series |-> [anchor |-> PeriodStart(t.time), last |-> NoTime, price |-> t.price,
               closed |-> <<>>, active |-> EmptyCandle(t.price)],
   next |-> PeriodStart(t.time)]

LEMMA RebuiltIs ==
  ASSUME NEW s \in Series, NEW trades \in Seq(TradeRecord), trades # <<>>, NEW time \in Int
  PROVE  LET b == Begun(Head(trades))
             w == Ingested(b, trades)
             r == IngestTradesAt(Reset(s), trades, time)
         IN /\ b \in IngestState /\ w \in IngestState /\ w.series \in Series
            /\ r = AdvanceTo(w.series, time)
            /\ r \in Series /\ r.anchor = PeriodStart(Head(trades).time) /\ r.anchor # NoTime
<1>. DEFINE h == Head(trades)
            b == Begun(h)
            w == Ingested(b, trades)
            z == Reset(s)
            y == [z EXCEPT !.price = h.price]
            r == IngestTradesAt(z, trades, time)
<1>1. /\ h \in TradeRecord /\ h.time \in Nat /\ h.price \in Money
      /\ PeriodStart(h.time) \in Nat /\ PeriodStart(h.time) \in Instant
  <2>1. h \in TradeRecord
    OBVIOUS
  <2>2. h.time \in Nat /\ h.price \in Money
    BY <2>1, Numbers
  <2>3. PeriodStart(h.time) \in Nat
    BY <2>2, PeriodStartIs
  <2>. QED BY <2>1, <2>2, <2>3 DEF Instant
<1>. HIDE DEF h
<1>2. z = [s EXCEPT !.anchor = NoTime, !.last = NoTime]
  BY DEF Reset
<1>3. z.anchor = NoTime /\ z.last = NoTime /\ NoTime \in Instant
  BY <1>2 DEF Series, Instant
<1>4. Unseen(trades, z.last) = trades
  BY <1>3, UnseenIs
<1>5. ~Rejects(z, trades)
  BY <1>3 DEF Rejects
<1>6. r = AdvanceTo(AppendTrades(y, trades), time)
  BY <1>3, <1>4, <1>5 DEF IngestTradesAt, h
<1>7. b \in IngestState /\ b.series \in Series
  <2>1. EmptyCandle(h.price) \in CandleRecord
    BY <1>1, Numbers DEF EmptyCandle, CandleRecord
  <2>2. <<>> \in Seq(CandleRecord) /\ PeriodStart(h.time) \in Int
    BY <1>1
  <2>. QED BY <1>1, <1>3, <2>1, <2>2 DEF Begun, IngestState, Series
<1>8. AppendTrades(y, trades) = w.series
  <2>1. y = [anchor |-> NoTime, last |-> NoTime, price |-> h.price, closed |-> s.closed, active |-> s.active]
    <3>. HIDE DEF z
    <3>1. z = [anchor |-> NoTime, last |-> NoTime, price |-> s.price, closed |-> s.closed, active |-> s.active]
      BY <1>2 DEF Series
    <3>. QED BY <3>1
  <2>2. Started(y, h.time) = b.series
    <3>. HIDE DEF y, z
    <3>1. Started(y, h.time) = [y EXCEPT !.anchor = PeriodStart(h.time), !.last = NoTime,
                                         !.closed = <<>>, !.active = EmptyCandle(h.price)]
      BY <2>1 DEF Started
    <3>2. b.series = [anchor |-> PeriodStart(h.time), last |-> NoTime, price |-> h.price,
                      closed |-> <<>>, active |-> EmptyCandle(h.price)]
      BY DEF Begun
    <3>. QED BY <2>1, <3>1, <3>2
  <2>3. b = AtBoundary(b.series)
    <3>1. /\ Len(b.series.closed) = 0 /\ b.series.anchor = PeriodStart(h.time)
          /\ b = [series |-> b.series, next |-> PeriodStart(h.time)]
      BY DEF Begun
    <3>2. NextBoundary(b.series) = PeriodStart(h.time)
      BY <1>1, <3>1, Numbers DEF NextBoundary
    <3>. HIDE DEF b
    <3>. QED BY <3>1, <3>2 DEF AtBoundary
  <2>. HIDE DEF y, b
  <2>. QED BY <2>2, <2>3 DEF AppendTrades, Ingested, AtBoundary, h
<1>. HIDE DEF z, y
<1>9. b.series.anchor = PeriodStart(h.time)
  BY DEF Begun
<1>. HIDE DEF b
<1>10. w \in IngestState /\ w.series \in Series /\ w.series.anchor = PeriodStart(h.time)
  BY <1>7, <1>9, IngestedGrows
<1>. HIDE DEF w
<1>11. r = AdvanceTo(w.series, time) /\ r \in Series /\ r.anchor = PeriodStart(h.time)
  BY <1>6, <1>8, <1>10, AdvanceToIs, SMTT(30)
<1>12. PeriodStart(h.time) # NoTime
  BY <1>1 DEF NoTime
<1>. HIDE DEF r
<1>. QED BY <1>7, <1>10, <1>11, <1>12 DEF r, w, b, h, z

(* A batch that is taken in leaves its last time.                          *)
LEMMA IngestedLast ==
  ASSUME NEW st \in IngestState, NEW trades \in Seq(TradeRecord)
  PROVE  /\ trades = <<>> => Ingested(st, trades) = st
         /\ trades # <<>> => Ingested(st, trades).series.last = Last(trades).time
<1>1. CASE trades = <<>>
  BY <1>1, IngestedIs
<1>2. CASE trades # <<>>
  <2>1. PICK u \in Seq(TradeRecord), t \in TradeRecord : trades = Append(u, t) /\ Last(trades) = t
    BY <1>2, SplitLast
  <2>2. Ingested(st, u) \in IngestState /\ Ingested(st, trades) = IngestTrade(Ingested(st, u), t)
    BY <2>1, IngestedIs
  <2>3. Ingested(st, trades).series.last = t.time
    BY <2>2, IngestTradeIs, ZenonT(30)
  <2>. QED BY <1>2, <2>1, <2>3
<1>. QED BY <1>1, <1>2

-----------------------------------------------------------------------------
(* The feed.                                                               *)

ByTime(s) == \A i, j \in 1..Len(s) : i < j => s[i].time <= s[j].time

LEMMA ByTimeAppend ==
  ASSUME NEW s \in Seq(TradeRecord), NEW e \in TradeRecord
  PROVE  ByTime(Append(s, e)) <=> (ByTime(s) /\ \A x \in ToSet(s) : x.time <= e.time)
<1>. DEFINE n == Len(s)
            a == Append(s, e)
<1>1. n \in Nat /\ Len(a) = n + 1 /\ a[n + 1] = e /\ \A i \in 1..n : a[i] = s[i]
  OBVIOUS
<1>2. ToSet(s) = {s[i] : i \in 1..n}
  BY ToSetProperties
<1>. HIDE DEF a
<1>3. ASSUME ByTime(a) PROVE ByTime(s) /\ \A x \in ToSet(s) : x.time <= e.time
  <2>1. ByTime(s)
    BY <1>1, <1>3 DEF ByTime
  <2>2. \A i \in 1..n : s[i].time <= e.time
    <3>1. \A i \in 1..n : i \in 1..n + 1 /\ n + 1 \in 1..n + 1 /\ i < n + 1
      BY <1>1
    <3>. QED BY <1>1, <1>3, <3>1 DEF ByTime
  <2>. QED BY <1>2, <2>1, <2>2
<1>4. ASSUME ByTime(s), \A x \in ToSet(s) : x.time <= e.time PROVE ByTime(a)
  <2>. SUFFICES ASSUME NEW i \in 1..n + 1, NEW j \in 1..n + 1, i < j PROVE a[i].time <= a[j].time
    BY <1>1 DEF ByTime
  <2>1. CASE j \in 1..n
    <3>1. i \in 1..n
      BY <1>1, <2>1
    <3>. QED BY <1>1, <1>4, <2>1, <3>1 DEF ByTime
  <2>2. CASE j = n + 1
    <3>1. i \in 1..n
      BY <1>1, <2>2
    <3>2. s[i] \in ToSet(s)
      BY <1>2, <3>1
    <3>. QED BY <1>1, <1>4, <2>2, <3>1, <3>2
  <2>. QED BY <1>1, <2>1, <2>2
<1>. QED BY <1>3, <1>4 DEF a

LEMMA OnlyByTime ==
  ASSUME NEW s \in Seq(TradeRecord), ByTime(s), NEW S
  PROVE  ByTime(Only(s, S))
<1>. DEFINE P == {r \in Seq(TradeRecord) : ByTime(r) => ByTime(Only(r, S))}
<1>1. <<>> \in P
  BY OnlyEmpty
<1>2. ASSUME NEW r \in Seq(TradeRecord), NEW e \in TradeRecord, r \in P PROVE Append(r, e) \in P
  <2>1. /\ Only(r, S) \in Seq(TradeRecord)
        /\ Only(Append(r, e), S) = IF e \in S THEN Append(Only(r, S), e) ELSE Only(r, S)
    BY OnlyAppend
  <2>2. ToSet(Only(r, S)) = ToSet(r) \cap S
    BY OnlyToSet
  <2>3. ASSUME ByTime(Append(r, e)) PROVE ByTime(Only(Append(r, e), S))
    <3>1. ByTime(r) /\ \A x \in ToSet(r) : x.time <= e.time
      BY <2>3, ByTimeAppend
    <3>2. ByTime(Only(r, S)) /\ \A x \in ToSet(Only(r, S)) : x.time <= e.time
      BY <1>2, <2>2, <3>1
    <3>3. ByTime(Append(Only(r, S), e))
      BY <2>1, <3>2, ByTimeAppend
    <3>. QED BY <2>1, <3>2, <3>3
  <2>4. Append(r, e) \in Seq(TradeRecord)
    OBVIOUS
  <2>. QED BY <2>3, <2>4
<1>3. Seq(TradeRecord) \subseteq P
  <2>. HIDE DEF P
  <2>. QED BY <1>1, <1>2, SeqSetInduction
<1>. QED BY <1>3

LEMMA ByTimeConcat ==
  ASSUME NEW a \in Seq(TradeRecord), NEW b \in Seq(TradeRecord), ByTime(a), ByTime(b),
         \A x \in ToSet(a), y \in ToSet(b) : x.time <= y.time
  PROVE  ByTime(a \o b)
<1>. DEFINE P == {r \in Seq(TradeRecord) :
                    ByTime(r) /\ (\A x \in ToSet(a), y \in ToSet(r) : x.time <= y.time) => ByTime(a \o r)}
<1>1. <<>> \in P
  <2>1. a \o <<>> = a
    OBVIOUS
  <2>. QED BY <2>1
<1>2. ASSUME NEW r \in Seq(TradeRecord), NEW e \in TradeRecord, r \in P PROVE Append(r, e) \in P
  <2>1. a \o r \in Seq(TradeRecord) /\ a \o Append(r, e) = Append(a \o r, e)
    BY ConcatAppend
  <2>2. ToSet(Append(r, e)) = ToSet(r) \cup {e} /\ Append(r, e) \in Seq(TradeRecord)
    BY ToSetGrowth
  <2>3. ToSet(a \o r) = ToSet(a) \cup ToSet(r)
    BY ToSetConcat
  <2>4. ASSUME ByTime(Append(r, e)), \A x \in ToSet(a), y \in ToSet(Append(r, e)) : x.time <= y.time
        PROVE  ByTime(a \o Append(r, e))
    <3>1. ByTime(r) /\ \A x \in ToSet(r) : x.time <= e.time
      BY <2>4, ByTimeAppend
    <3>2. ByTime(a \o r)
      BY <1>2, <2>2, <2>4, <3>1
    <3>3. \A x \in ToSet(a \o r) : x.time <= e.time
      BY <2>2, <2>3, <2>4, <3>1
    <3>4. \A u \in Seq(TradeRecord) :
            ByTime(u) /\ (\A x \in ToSet(u) : x.time <= e.time) => ByTime(Append(u, e))
      BY ByTimeAppend
    <3>. QED BY <2>1, <3>2, <3>3, <3>4
  <2>. QED BY <2>2, <2>4
<1>3. Seq(TradeRecord) \subseteq P
  <2>. HIDE DEF P
  <2>. QED BY <1>1, <1>2, SeqSetInduction
<1>. QED BY <1>3

(* Trades each not earlier than the one before are in order.                *)
LEMMA StepwiseByTime ==
  ASSUME NEW s \in Seq(TradeRecord), \A i \in 1..Len(s) - 1 : s[i].time <= s[i + 1].time
  PROVE  ByTime(s)
<1>. DEFINE Stepwise(r) == \A i \in 1..Len(r) - 1 : r[i].time <= r[i + 1].time
            P == {r \in Seq(TradeRecord) : Stepwise(r) => ByTime(r)}
<1>1. <<>> \in P
  BY DEF ByTime
<1>2. ASSUME NEW r \in Seq(TradeRecord), NEW e \in TradeRecord, r \in P PROVE Append(r, e) \in P
  <2>. DEFINE n == Len(r)
              a == Append(r, e)
  <2>1. n \in Nat /\ a \in Seq(TradeRecord) /\ Len(a) = n + 1 /\ a[n + 1] = e /\ \A i \in 1..n : a[i] = r[i]
    OBVIOUS
  <2>2. ToSet(r) = {r[i] : i \in 1..n} /\ \A i \in 1..n : r[i] \in TradeRecord
    BY ToSetProperties
  <2>. HIDE DEF a, n
  <2>3. ASSUME Stepwise(a) PROVE ByTime(a)
    <3>1. \A i \in 1..n : a[i].time <= a[i + 1].time
      BY <2>1, <2>3
    <3>2. \A i \in 1..n - 1 : i \in 1..n /\ i + 1 \in 1..n
      BY <2>1
    <3>3. \A i \in 1..n - 1 : r[i].time <= r[i + 1].time
      BY <2>1, <3>1, <3>2
    <3>4. ByTime(r)
      BY <1>2, <3>3 DEF n
    <3>5. \A i \in 1..n : r[i].time <= e.time
      <4>1. CASE n = 0
        BY <4>1
      <4>2. CASE n > 0
        <5>1. n \in 1..n /\ r[n].time <= e.time
          BY <2>1, <3>1, <4>2
        <5>2. \A i \in 1..n : r[i].time <= r[n].time
          <6>1. ASSUME NEW i \in 1..n PROVE r[i].time <= r[n].time
            <7>1. CASE i = n
              BY <2>2, <7>1, <5>1, Numbers
            <7>2. CASE i < n
              BY <3>4, <5>1, <7>2 DEF ByTime, n
            <7>. QED BY <2>1, <7>1, <7>2
          <6>. QED BY <6>1
        <5>3. \A i \in 1..n : r[i].time \in Nat
          BY <2>2, Numbers
        <5>4. e.time \in Nat
          BY Numbers
        <5>. QED BY <5>1, <5>2, <5>3, <5>4
      <4>. QED BY <2>1, <4>1, <4>2
    <3>6. \A x \in ToSet(r) : x.time <= e.time
      BY <2>2, <3>5
    <3>. QED BY <3>4, <3>6, ByTimeAppend DEF a
  <2>. HIDE DEF Stepwise
  <2>. QED BY <2>1, <2>3 DEF a
<1>3. Seq(TradeRecord) \subseteq P
  <2>. HIDE DEF P
  <2>. QED BY <1>1, <1>2, SeqSetInduction
<1>. QED BY <1>3

(* A filter of a sequence with one trade more.                              *)
LEMMA OneMore ==
  \A X : \A s \in Seq(TradeRecord), x \in TradeRecord :
    /\ Only(s, X) \in Seq(TradeRecord)
    /\ Only(Append(s, x), X) = IF x \in X THEN Append(Only(s, X), x) ELSE Only(s, X)
BY OnlyAppend

(* A late trade: the feed stays in order, grows by one, and does not go on  *)
(* as it was, for its last trade is still the last.                         *)
LEMMA LateFeed ==
  ASSUME NEW f \in Seq(TradeRecord), f # <<>>, ByTime(f),
         NEW t \in TradeRecord, t.time < Last(f).time,
         NEW E, E = {u \in ToSet(f) : u.time < t.time}
  PROVE  LET g == Only(f, E) \o <<t>> \o Only(f, ToSet(f) \ E)
         IN g \in Seq(TradeRecord) /\ Len(g) = Len(f) + 1 /\ ByTime(g) /\ ~IsPrefix(f, g)
<1>0. PICK R : R = ToSet(f) \ E
  OBVIOUS
<1>. DEFINE a == Only(f, E)
            b == Only(f, R)
            h == a \o <<t>>
            g == h \o b
            L == {u \in TradeRecord : u.time > t.time}
<1>1. a \in Seq(TradeRecord) /\ b \in Seq(TradeRecord)
  BY OnlyIsSeq
<1>2. ToSet(a) = E /\ ToSet(b) = R /\ ToSet(f) \subseteq TradeRecord /\ ToSet(f) = E \cup R /\ E \cap R = {}
  <2>1. ToSet(a) = ToSet(f) \cap E /\ ToSet(b) = ToSet(f) \cap R
    BY OnlyToSet
  <2>2. ToSet(f) \subseteq TradeRecord
    BY ToSetProperties
  <2>. HIDE DEF a, b
  <2>. QED BY <1>0, <2>1, <2>2
<1>3. ByTime(a) /\ ByTime(b)
  BY OnlyByTime
<1>. HIDE DEF a, b
<1>4. h = Append(a, t) /\ h \in Seq(TradeRecord) /\ ToSet(h) = ToSet(a) \cup {t} /\ Len(h) = Len(a) + 1
  <2>1. \A s \in Seq(TradeRecord), e \in TradeRecord :
          ToSet(Append(s, e)) = ToSet(s) \cup {e} /\ Append(s, e) \in Seq(TradeRecord)
    BY ToSetGrowth
  <2>2. a \o <<t>> = Append(a, t) /\ Len(Append(a, t)) = Len(a) + 1
    BY <1>1
  <2>. QED BY <1>1, <2>1, <2>2
<1>5. (\A x \in ToSet(h) : x.time <= t.time) /\ (\A y \in ToSet(b) : t.time <= y.time)
  <2>1. \A x \in ToSet(f) : x.time \in Nat /\ t.time \in Nat
    BY <1>2, Numbers
  <2>2. t.time \in Nat
    BY Numbers
  <2>3. \A x \in E : x.time <= t.time
    BY <2>1
  <2>4. \A y \in R : t.time <= y.time
    BY <1>0, <2>1
  <2>. HIDE DEF h, a, b
  <2>. QED BY <1>2, <1>4, <2>2, <2>3, <2>4
<1>6. ByTime(h)
  <2>1. \A x \in ToSet(a) : x.time <= t.time
    BY <1>4, <1>5
  <2>. QED BY <1>1, <1>3, <1>4, <2>1, ByTimeAppend
<1>. HIDE DEF h
<1>7. g \in Seq(TradeRecord) /\ Len(g) = Len(a) + 1 + Len(b)
  BY <1>1, <1>4
<1>8. ByTime(g)
  <2>1. \A x \in ToSet(h), y \in ToSet(b) : x.time <= y.time
    <3>1. \A x \in ToSet(h) : x.time \in Nat
      BY <1>4, ToSetProperties, Numbers
    <3>2. \A y \in ToSet(b) : y.time \in Nat
      BY <1>2, Numbers
    <3>3. t.time \in Nat
      BY Numbers
    <3>. QED BY <1>5, <3>1, <3>2, <3>3
  <2>. QED BY <1>1, <1>3, <1>4, <1>6, <2>1, ByTimeConcat
<1>10. \A S : Len(Only(f, S)) = Len(Only(a, S)) + Len(Only(b, S))
  <2>0. ToSet(f) \subseteq E \cup R /\ E \cap R = {}
    BY <1>2
  <2>1. \A S : Len(Only(f, S)) = Len(Only(Only(f, E), S)) + Len(Only(Only(f, R), S))
    BY <2>0, OnlyInParts
  <2>. QED BY <2>1 DEF a, b
<1>11. Len(f) = Len(a) + Len(b)
  <2>2. \A s \in Seq(TradeRecord) : Only(s, TradeRecord) = s
    <3>1. \A s \in Seq(TradeRecord) : ToSet(s) \subseteq TradeRecord
      BY ToSetProperties
    <3>. QED BY <3>1, OnlyAll
  <2>3. Len(Only(f, TradeRecord)) = Len(Only(a, TradeRecord)) + Len(Only(b, TradeRecord))
    BY <1>10
  <2>. QED BY <1>1, <2>2, <2>3
<1>12. Len(g) = Len(f) + 1
  <2>1. Len(a) \in Nat /\ Len(b) \in Nat
    BY <1>1
  <2>. HIDE DEF g
  <2>. QED BY <1>7, <1>11, <2>1
<1>13. PICK e \in Seq(TradeRecord), l \in TradeRecord : f = Append(e, l) /\ Last(f) = l
  BY SplitLast
<1>14. l \in R /\ l \in L /\ l \in ToSet(f)
  <2>1. l \in ToSet(f) /\ l.time \in Nat /\ t.time \in Nat
    BY <1>13, ToSetGrowth, Numbers
  <2>. QED BY <1>0, <1>13, <2>1
<1>15. b = Append(Only(e, R), l) /\ Only(e, R) \in Seq(TradeRecord)
  <2>1. \A S : /\ Only(e, S) \in Seq(TradeRecord)
              /\ Only(Append(e, l), S) = IF l \in S THEN Append(Only(e, S), l) ELSE Only(e, S)
    BY OnlyAppend
  <2>. QED BY <1>13, <1>14, <2>1 DEF b
<1>16. g[Len(g)] = l
  <2>1. Len(b) \in Nat /\ Len(b) > 0 /\ b[Len(b)] = l
    BY <1>1, <1>15
  <2>. QED BY <1>1, <1>4, <2>1
<1>17. ASSUME IsPrefix(f, g) PROVE FALSE
  <2>. HIDE DEF g
  <2>1. Len(f) \in Nat /\ \A i \in 1..Len(f) : g[i] = f[i]
    <3>1. SubSeq(f, 1, Len(f)) = SubSeq(g, 1, Len(f)) /\ Len(f) \in Nat
      BY <1>17 DEF IsPrefix
    <3>2. \A i \in 1..Len(f) : SubSeq(f, 1, Len(f))[i] = f[i] /\ SubSeq(g, 1, Len(f))[i] = g[i]
      BY <1>7, <1>12
    <3>. QED BY <3>1, <3>2
  <2>2. g = Append(f, l)
    <3>1. /\ Append(f, l) \in Seq(TradeRecord) /\ Len(Append(f, l)) = Len(f) + 1
          /\ \A i \in 1..Len(f) : Append(f, l)[i] = f[i]
          /\ Append(f, l)[Len(f) + 1] = l
      OBVIOUS
    <3>2. \A i \in 1..Len(f) + 1 : g[i] = Append(f, l)[i]
      BY <1>12, <1>16, <2>1, <3>1
    <3>. QED BY <1>7, <1>12, <3>1, <3>2, SeqEqual
  <2>3. Only(g, L) = Append(Only(f, L), l) /\ Only(f, L) \in Seq(TradeRecord)
    <3>. HIDE DEF L
    <3>. QED BY <1>14, <2>2, OneMore
  <2>4. Only(g, L) = Only(h, L) \o Only(b, L)
    <3>1. \A S : \A s, u \in Seq(TradeRecord) : Only(s \o u, S) = Only(s, S) \o Only(u, S)
      BY OnlyConcat, SMTT(30)
    <3>. HIDE DEF L
    <3>. QED BY <1>1, <1>4, <3>1, ZenonT(30) DEF g
  <2>5. Only(h, L) = Only(a, L)
    <3>1. t \notin L
      BY Numbers
    <3>. HIDE DEF L
    <3>2. Only(Append(a, t), L) = Only(a, L)
      BY <1>1, <3>1, OneMore
    <3>. QED BY <1>4, <3>2
  <2>6. Only(a, L) \in Seq(TradeRecord) /\ Only(b, L) \in Seq(TradeRecord)
    BY <1>1, OnlyIsSeq
  <2>7. Len(Only(g, L)) = Len(Only(a, L)) + Len(Only(b, L))
    BY <2>4, <2>5, <2>6
  <2>8. Len(Only(f, L)) = Len(Only(a, L)) + Len(Only(b, L))
    BY <1>10
  <2>9. Len(Only(g, L)) = Len(Only(f, L)) + 1 /\ Len(Only(f, L)) \in Nat
    BY <2>3
  <2>. QED BY <2>7, <2>8, <2>9
<1>18. g = Only(f, E) \o <<t>> \o Only(f, ToSet(f) \ E)
  BY <1>0 DEF g, h, a, b
<1>. HIDE DEF g
<1>. QED BY <1>7, <1>8, <1>12, <1>17, <1>18
-----------------------------------------------------------------------------
(* What the variables hold.                                                *)

ChartRecord == [shapes : SUBSET (Nat \X CandleRecord), count : Nat, anchor : Instant]

Typed ==
  /\ now \in 0..MaxTime
  /\ feed \in Seq(TradeRecord) /\ Len(feed) <= MaxTrades /\ ByTime(feed)
  /\ series \in Series
  /\ chart \in ChartRecord
  /\ feed = <<>> => series.anchor = NoTime /\ series.last = NoTime /\ chart.anchor = NoTime
  /\ feed # <<>> => series.anchor # NoTime /\ series.last # NoTime

LEMMA TypedInit == Init => Typed
<1>. SUFFICES ASSUME Init PROVE Typed
  OBVIOUS
<1>1. NoTime \in Instant /\ 0 \in Money /\ 0 \in Nat
  BY DEF Instant, Money
<1>2. EmptyCandle(0) \in CandleRecord
  BY <1>1 DEF EmptyCandle, CandleRecord
<1>3. series \in Series /\ series.anchor = NoTime /\ series.last = NoTime
  <2>1. <<>> \in Seq(CandleRecord)
    OBVIOUS
  <2>2. series = [anchor |-> NoTime, last |-> NoTime, price |-> 0, closed |-> <<>>, active |-> EmptyCandle(0)]
    BY DEF Init, NoSeries
  <2>. QED BY <1>1, <1>2, <2>1, <2>2 DEF Series
<1>4. chart \in ChartRecord /\ chart.anchor = NoTime
  BY <1>1 DEF Init, BlankChart, ChartRecord
<1>5. feed = <<>> /\ feed \in Seq(TradeRecord) /\ Len(feed) = 0 /\ ByTime(feed) /\ now \in 0..MaxTime
  BY Numbers DEF Init, ByTime
<1>6. Len(feed) <= MaxTrades
  BY <1>5, Numbers
<1>. QED BY <1>3, <1>4, <1>5, <1>6 DEF Typed

LEMMA SequenceOfOneOrTwo ==
  ASSUME NEW S
  PROVE  \A x, y \in S : /\ <<x>> \in Seq(S) /\ <<x>> # <<>>
                        /\ <<x, y>> \in Seq(S) /\ <<x, y>> # <<>>
<1>1. \A x, y \in S : <<x, y>> \in Seq(S)
  OBVIOUS
<1>2. \A x, y \in S : <<x, y>> # <<>>
  OBVIOUS
<1>. QED BY <1>1, <1>2

(* The trades of an action.                                                *)
LEMMA TradeIs ==
  ASSUME now \in 0..MaxTime
  PROVE  Trade \subseteq TradeRecord /\ \A b \in Batch : b \in Seq(TradeRecord) /\ b # <<>>
<1>1. now \in Int /\ MaxDelay \in Int /\ MaxAhead \in Int
  BY Numbers
<1>2. {t \in now - MaxDelay..now + MaxAhead : t >= 0} \subseteq Nat
  BY <1>1
<1>3. Trade \subseteq TradeRecord
  BY <1>2 DEF Trade, TradeRecord
<1>4. \A t \in TradeRecord : <<t>> \in Seq(TradeRecord) /\ <<t>> # <<>>
  BY SequenceOfOneOrTwo, Zenon
<1>5. \A t, u \in TradeRecord : <<t, u>> \in Seq(TradeRecord) /\ <<t, u>> # <<>>
  BY SequenceOfOneOrTwo, Zenon
<1>6. ASSUME NEW b \in Batch PROVE b \in Seq(TradeRecord) /\ b # <<>>
  <2>1. (\E t \in Trade : b = <<t>>) \/ (\E t, u \in Trade : b = <<t, u>>)
    BY DEF Batch
  <2>. QED BY <1>3, <1>4, <1>5, <2>1
<1>. QED BY <1>3, <1>6

(* An increment: the feed goes on, and is not empty.                        *)
LEMMA IncrementIs ==
  ASSUME Typed, Increment
  PROVE  /\ feed' \in Seq(TradeRecord) /\ feed' # <<>> /\ Len(feed') <= MaxTrades /\ ByTime(feed')
         /\ now' = now /\ chart' = chart
         /\ \E batch \in Batch :
              /\ batch \in Seq(TradeRecord) /\ batch # <<>> /\ feed' = feed \o batch
              /\ feed = <<>> => feed' = batch /\ OnSnapshot(batch)
              /\ feed # <<>> =>
                   \E first \in Len(feed)..Len(feed) + 1 : OnIncrement(SubSeq(feed', first, Len(feed')))
<1>1. PICK batch \in Batch :
        /\ feed' = feed \o batch
        /\ Len(feed') <= MaxTrades
        /\ \A i \in 1..Len(feed') - 1 : feed'[i].time <= feed'[i + 1].time
        /\ IF feed = <<>> THEN OnSnapshot(batch)
           ELSE \E first \in Len(feed)..Len(feed) + 1 : OnIncrement(SubSeq(feed', first, Len(feed')))
        /\ UNCHANGED <<now, chart>>
  BY DEF Increment
<1>2. batch \in Seq(TradeRecord) /\ batch # <<>>
  BY TradeIs DEF Typed
<1>3. feed \in Seq(TradeRecord)
  BY DEF Typed
<1>4. feed' \in Seq(TradeRecord) /\ feed' # <<>> /\ (feed = <<>> => feed' = batch)
  BY <1>1, <1>2, <1>3
<1>5. ByTime(feed')
  BY <1>1, <1>4, StepwiseByTime
<1>. QED BY <1>1, <1>2, <1>4, <1>5

(* Part of the feed.                                                       *)
LEMMA PartOfFeed ==
  ASSUME NEW s \in Seq(TradeRecord), NEW first \in Nat, first > 0
  PROVE  SubSeq(s, first, Len(s)) \in Seq(TradeRecord)
OBVIOUS

(* What a late trade makes of the feed.                                    *)
LEMMA LateTradeIs ==
  ASSUME Typed, LateTrade
  PROVE  /\ feed # <<>> /\ feed' \in Seq(TradeRecord) /\ feed' # <<>> /\ Len(feed') <= MaxTrades
         /\ ByTime(feed') /\ ~IsPrefix(feed, feed')
         /\ OnSnapshot(feed') /\ now' = now /\ chart' = chart
<1>1. PICK t \in Trade :
        /\ t.time < Last(feed).time
        /\ feed' = LET earlier == {u \in ToSet(feed) : u.time < t.time}
                   IN Only(feed, earlier) \o <<t>> \o Only(feed, ToSet(feed) \ earlier)
  BY DEF LateTrade
<1>2. feed # <<>> /\ Len(feed) < MaxTrades /\ OnSnapshot(feed') /\ now' = now /\ chart' = chart
  BY DEF LateTrade
<1>3. feed \in Seq(TradeRecord) /\ ByTime(feed) /\ t \in TradeRecord
  BY TradeIs DEF Typed
<1>4. /\ feed' \in Seq(TradeRecord) /\ Len(feed') = Len(feed) + 1
      /\ ByTime(feed') /\ ~IsPrefix(feed, feed')
  BY <1>1, <1>2, <1>3, LateFeed
<1>5. Len(feed) \in Nat
  BY <1>3
<1>6. feed' # <<>> /\ Len(feed') <= MaxTrades
  BY <1>2, <1>4, <1>5, Numbers
<1>. QED BY <1>2, <1>4, <1>6

LEMMA LastIsTime ==
  ASSUME NEW trades \in Seq(TradeRecord), trades # <<>>
  PROVE  /\ Last(trades) \in TradeRecord /\ Last(trades).time \in Nat /\ Last(trades).time # NoTime
         /\ Head(trades) \in TradeRecord /\ Head(trades).time \in Nat
<1>1. Last(trades) \in TradeRecord /\ Head(trades) \in TradeRecord
  <2>1. Last(trades) \in TradeRecord
    BY ToSetProperties
  <2>. QED BY <2>1
<1>2. \A n \in Nat : n # NoTime
  BY DEF NoTime
<1>. QED BY <1>1, <1>2, Numbers

(* What the trades of an action make of the series.                        *)
LEMMA SnapshotSeries ==
  ASSUME Typed, NEW trades \in Seq(TradeRecord), trades # <<>>, OnSnapshot(trades)
  PROVE  /\ series' \in Series /\ series'.last # NoTime
         /\ series'.anchor = PeriodStart(Head(trades).time) /\ series'.anchor # NoTime
<1>. DEFINE b == Begun(Head(trades))
            w == Ingested(b, trades)
<1>1. series \in Series /\ now \in Int
  BY DEF Typed
<1>2. series' = IngestTradesAt(Reset(series), trades, now)
  BY DEF OnSnapshot
<1>3. /\ b \in IngestState /\ w.series \in Series /\ series' = AdvanceTo(w.series, now)
      /\ series' \in Series /\ series'.anchor = PeriodStart(Head(trades).time) /\ series'.anchor # NoTime
  BY <1>1, <1>2, RebuiltIs
<1>. HIDE DEF b
<1>4. w.series.last = Last(trades).time
  BY <1>3, IngestedLast
<1>. HIDE DEF w
<1>5. series'.last # NoTime
  BY <1>1, <1>3, <1>4, AdvanceToIs, LastIsTime, ZenonT(30)
<1>. QED BY <1>3, <1>5

LEMMA IncrementSeries ==
  ASSUME Typed, feed # <<>>, NEW trades \in Seq(TradeRecord), OnIncrement(trades)
  PROVE  /\ series' \in Series /\ series'.last # NoTime
         /\ series'.anchor = series.anchor /\ Grows(series.closed, series'.closed)
<1>. DEFINE new == Unseen(trades, series.last)
            b == AtBoundary(series)
            w == Ingested(b, new)
<1>1. series \in Series /\ now \in Int /\ series.anchor # NoTime /\ series.last # NoTime
  BY DEF Typed
<1>2. series' = IngestTradesAt(series, trades, now)
  BY DEF OnIncrement
<1>3. /\ new \in Seq(TradeRecord) /\ b \in IngestState /\ w \in IngestState
      /\ series' = series \/ series' = AdvanceTo(w.series, now)
      /\ series' \in Series /\ series'.anchor = series.anchor /\ Grows(series.closed, series'.closed)
  BY <1>1, <1>2, ContinuedIs
<1>4. w.series.last # NoTime
  <2>1. b.series = series
    BY DEF AtBoundary
  <2>. HIDE DEF new, b
  <2>2. CASE new = <<>>
    <3>1. w = b
      BY <1>3, <2>2, IngestedLast
    <3>. QED BY <1>1, <2>1, <3>1
  <2>3. CASE new # <<>>
    <3>1. w.series.last = Last(new).time
      BY <1>3, <2>3, IngestedLast
    <3>. QED BY <1>3, <2>3, <3>1, LastIsTime
  <2>. QED BY <2>2, <2>3
<1>5. series'.last # NoTime
  <2>. HIDE DEF w
  <2>1. w.series \in Series
    BY <1>3 DEF IngestState
  <2>. QED BY <1>1, <1>3, <1>4, <2>1, AdvanceToIs
<1>. QED BY <1>3, <1>5

(* What an update makes of the chart.                                      *)
LEMMA DrawnIs ==
  ASSUME NEW c \in Seq(CandleRecord), NEW n \in Nat
  PROVE  Shapes(c, n + 1, Len(c)) \subseteq Nat \X CandleRecord
<1>1. \A i \in n + 1..Len(c) : i \in Nat /\ c[i] \in CandleRecord
  BY ElementOfSeq
<1>. QED BY <1>1 DEF Shapes

LEMMA UpdatedChart ==
  ASSUME Typed, DoUpdate
  PROVE  /\ series' \in Series /\ series'.anchor = series.anchor /\ series'.last = series.last
         /\ Grows(series.closed, series'.closed)
         /\ now' = now /\ feed' = feed
         /\ chart' \in ChartRecord /\ chart'.anchor = series.anchor
         /\ series'.anchor # NoTime =>
              LET base == IF chart.anchor = series.anchor THEN chart ELSE BlankChart(series.anchor)
              IN \E from \in {base, BlankChart(series.anchor)} :
                   /\ from \in ChartRecord
                   /\ chart'.shapes = from.shapes \cup Shapes(series'.closed, from.count + 1, Len(series'.closed))
                   /\ chart'.count = Len(series'.closed)
<1>1. series \in Series /\ now \in Int /\ chart \in ChartRecord
  BY DEF Typed
<1>2. series' = AdvanceTo(series, now) /\ now' = now /\ feed' = feed
  BY DEF DoUpdate
<1>3. /\ series' \in Series /\ series'.anchor = series.anchor /\ series'.last = series.last
      /\ Grows(series.closed, series'.closed)
  BY <1>1, <1>2, AdvanceToIs
<1>4. PICK refloored \in BOOLEAN : chart' = Draw(series', refloored, Len(series'.closed))
  BY DEF DoUpdate, OnLayout
<1>5. /\ BlankChart(series.anchor) \in ChartRecord /\ BlankChart(series.anchor).anchor = series.anchor
      /\ BlankChart(NoTime) \in ChartRecord /\ BlankChart(NoTime).anchor = NoTime
  <2>1. series.anchor \in Instant /\ NoTime \in Instant
    BY <1>1 DEF Series, Instant
  <2>. QED BY <2>1 DEF BlankChart, ChartRecord
<1>6. CASE series'.anchor = NoTime
  <2>1. chart' = BlankChart(NoTime)
    BY <1>4, <1>6 DEF Draw
  <2>. QED BY <1>2, <1>3, <1>5, <1>6, <2>1
<1>7. CASE series'.anchor # NoTime
  <2>. DEFINE c == series'.closed
              from == IF chart.anchor # series'.anchor \/ refloored THEN BlankChart(series'.anchor) ELSE chart
              drawn == from.shapes \cup Shapes(c, from.count + 1, Len(c))
  <2>1. chart' = [from EXCEPT !.shapes = drawn, !.count = Len(c)]
    BY <1>4, <1>7 DEF Draw
  <2>2. from \in ChartRecord /\ from.anchor = series.anchor
    BY <1>1, <1>3, <1>5
  <2>3. from \in {IF chart.anchor = series.anchor THEN chart ELSE BlankChart(series.anchor),
                  BlankChart(series.anchor)}
    BY <1>3
  <2>4. c \in Seq(CandleRecord) /\ Len(c) \in Nat
    BY <1>3 DEF Series
  <2>. HIDE DEF c, from
  <2>5. drawn \in SUBSET (Nat \X CandleRecord)
    <3>1. from.count \in Nat /\ from.shapes \in SUBSET (Nat \X CandleRecord)
      BY <2>2 DEF ChartRecord
    <3>. QED BY <2>4, <3>1, DrawnIs
  <2>. HIDE DEF drawn
  <2>6. /\ chart' \in ChartRecord /\ chart'.anchor = series.anchor
        /\ chart'.shapes = drawn /\ chart'.count = Len(c)
    BY <2>1, <2>2, <2>4, <2>5 DEF ChartRecord
  <2>. QED BY <1>2, <1>3, <2>2, <2>3, <2>6 DEF drawn, c
<1>. QED BY <1>6, <1>7

LEMMA TypedStep == Typed /\ [Next]_vars => Typed'
<1>. SUFFICES ASSUME Typed, [Next]_vars PROVE Typed'
  OBVIOUS
<1>1. CASE Increment
  <2>1. /\ feed' \in Seq(TradeRecord) /\ feed' # <<>> /\ Len(feed') <= MaxTrades /\ ByTime(feed')
        /\ now' = now /\ chart' = chart
    BY <1>1, IncrementIs
  <2>2. PICK batch \in Seq(TradeRecord) :
          /\ batch # <<>> /\ feed' = feed \o batch
          /\ feed = <<>> => feed' = batch /\ OnSnapshot(batch)
          /\ feed # <<>> =>
               \E first \in Len(feed)..Len(feed) + 1 : OnIncrement(SubSeq(feed', first, Len(feed')))
    BY <1>1, IncrementIs
  <2>3. CASE feed = <<>>
    <3>1. series' \in Series /\ series'.last # NoTime /\ series'.anchor # NoTime
      BY <2>2, <2>3, SnapshotSeries
    <3>. QED BY <2>1, <3>1 DEF Typed
  <2>4. CASE feed # <<>>
    <3>1. PICK first \in Len(feed)..Len(feed) + 1 : OnIncrement(SubSeq(feed', first, Len(feed')))
      BY <2>2, <2>4
    <3>2. first \in Nat /\ first > 0
      BY <2>4 DEF Typed
    <3>3. SubSeq(feed', first, Len(feed')) \in Seq(TradeRecord)
      BY <2>1, <3>2, PartOfFeed
    <3>4. series' \in Series /\ series'.last # NoTime /\ series'.anchor = series.anchor
      BY <2>4, <3>1, <3>3, IncrementSeries
    <3>. QED BY <2>1, <2>4, <3>4 DEF Typed
  <2>. QED BY <2>3, <2>4
<1>2. CASE LateTrade
  <2>1. /\ feed' \in Seq(TradeRecord) /\ feed' # <<>> /\ Len(feed') <= MaxTrades /\ ByTime(feed')
        /\ OnSnapshot(feed') /\ now' = now /\ chart' = chart
    BY <1>2, LateTradeIs
  <2>2. series' \in Series /\ series'.last # NoTime /\ series'.anchor # NoTime
    BY <2>1, SnapshotSeries
  <2>. QED BY <2>1, <2>2 DEF Typed
<1>3. CASE DoUpdate
  <2>1. /\ series' \in Series /\ series'.anchor = series.anchor /\ series'.last = series.last
        /\ now' = now /\ feed' = feed /\ chart' \in ChartRecord /\ chart'.anchor = series.anchor
    BY <1>3, UpdatedChart
  <2>. QED BY <2>1 DEF Typed
<1>4. CASE Tick
  <2>1. now' \in 0..MaxTime /\ feed' = feed /\ series' = series /\ chart' = chart
    BY <1>4, Numbers DEF Tick, Typed
  <2>. QED BY <2>1 DEF Typed
<1>5. CASE UNCHANGED vars
  BY <1>5 DEF vars, Typed
<1>. QED BY <1>1, <1>2, <1>3, <1>4, <1>5 DEF Next

LEMMA TypedInvariant == Spec => []Typed
BY TypedInit, TypedStep, PTL DEF Spec

-----------------------------------------------------------------------------
(* The chart.                                                              *)

(* The first candles of a series that goes on are drawn as they were, and   *)
(* drawing the others makes the drawing whole.                             *)
LEMMA ShapesGrow ==
  ASSUME NEW a \in Seq(CandleRecord), NEW b \in Seq(CandleRecord), Grows(a, b),
         NEW n \in Nat, n <= Len(a)
  PROVE  /\ Shapes(a, 1, n) = Shapes(b, 1, n)
         /\ Shapes(b, 1, n) \cup Shapes(b, n + 1, Len(b)) = Shapes(b, 1, Len(b))
<1>1. Len(a) \in Nat /\ Len(b) \in Nat /\ n <= Len(b) /\ \A i \in 1..n : a[i] = b[i]
  <2>1. Len(a) \in Nat /\ Len(b) \in Nat
    OBVIOUS
  <2>. QED BY <2>1 DEF Grows
<1>2. Shapes(a, 1, n) = Shapes(b, 1, n)
  BY <1>1 DEF Shapes
<1>3. 1..Len(b) = (1..n) \cup (n + 1..Len(b))
  BY <1>1
<1>4. Shapes(b, 1, n) \cup Shapes(b, n + 1, Len(b)) = Shapes(b, 1, Len(b))
  BY <1>3 DEF Shapes
<1>. QED BY <1>2, <1>4

LEMMA MatchKept ==
  ASSUME NEW c \in ChartRecord, NEW s \in Series, NEW r \in Series,
         r.anchor = s.anchor, Grows(s.closed, r.closed), ChartMatches(c, s)
  PROVE  ChartMatches(c, r)
<1>1. s.closed \in Seq(CandleRecord) /\ r.closed \in Seq(CandleRecord) /\ c.count \in Nat
  BY DEF Series, ChartRecord
<1>2. CASE c.anchor # s.anchor
  BY <1>2 DEF ChartMatches
<1>3. CASE c.count <= Len(s.closed) /\ c.shapes = Shapes(s.closed, 1, c.count)
  <2>1. Shapes(s.closed, 1, c.count) = Shapes(r.closed, 1, c.count)
    BY <1>1, <1>3, ShapesGrow
  <2>2. c.count <= Len(r.closed)
    <3>1. Len(s.closed) \in Nat /\ Len(r.closed) \in Nat /\ Len(s.closed) <= Len(r.closed)
      BY <1>1 DEF Grows
    <3>. QED BY <1>1, <1>3, <3>1
  <2>. QED BY <1>3, <2>1, <2>2 DEF ChartMatches
<1>. QED BY <1>2, <1>3 DEF ChartMatches

(* Drawing what is missing makes the chart match, whether it starts from    *)
(* what is drawn or from nothing.                                          *)
LEMMA MatchDrawn ==
  ASSUME Typed, DoUpdate, ChartMatches(chart, series)
  PROVE  ChartMatches(chart', series')
<1>1. /\ series \in Series /\ chart \in ChartRecord
      /\ series' \in Series /\ series'.anchor = series.anchor /\ Grows(series.closed, series'.closed)
      /\ chart'.anchor = series.anchor /\ chart' \in ChartRecord
  BY UpdatedChart DEF Typed
<1>2. CASE series'.anchor = NoTime
  <2>1. chart' = BlankChart(NoTime)
    BY <1>2 DEF DoUpdate, OnLayout, Draw
  <2>2. chart'.count = 0 /\ chart'.shapes = {}
    BY <2>1 DEF BlankChart
  <2>3. series'.closed \in Seq(CandleRecord)
    BY <1>1 DEF Series
  <2>4. Len(series'.closed) \in Nat /\ Shapes(series'.closed, 1, 0) = {}
    BY <2>3 DEF Shapes
  <2>. QED BY <2>2, <2>4 DEF ChartMatches
<1>3. CASE series'.anchor # NoTime
  <2>. DEFINE blank == BlankChart(series.anchor)
              base == IF chart.anchor = series.anchor THEN chart ELSE blank
              c == series'.closed
  <2>1. PICK from \in {base, blank} :
          /\ from \in ChartRecord
          /\ chart'.shapes = from.shapes \cup Shapes(c, from.count + 1, Len(c))
          /\ chart'.count = Len(c)
    BY <1>3, UpdatedChart
  <2>2. c \in Seq(CandleRecord) /\ series.closed \in Seq(CandleRecord) /\ from.count \in Nat
    BY <1>1, <2>1 DEF Series, ChartRecord
  <2>3. from.count <= Len(series.closed) /\ from.shapes = Shapes(series.closed, 1, from.count)
    <3>1. CASE from = blank
      <4>1. from.count = 0 /\ from.shapes = {}
        BY <3>1 DEF BlankChart
      <4>2. Len(series.closed) \in Nat /\ Shapes(series.closed, 1, 0) = {}
        BY <2>2 DEF Shapes
      <4>. QED BY <4>1, <4>2
    <3>2. CASE from = chart /\ chart.anchor = series.anchor
      BY <3>2 DEF ChartMatches
    <3>. QED BY <2>1, <3>1, <3>2
  <2>4. from.shapes \cup Shapes(c, from.count + 1, Len(c)) = Shapes(c, 1, Len(c))
    <3>. HIDE DEF c
    <3>. QED BY <1>1, <2>2, <2>3, ShapesGrow DEF c
  <2>5. Len(c) \in Nat
    BY <2>2
  <2>. QED BY <2>1, <2>4, <2>5 DEF ChartMatches
<1>. QED BY <1>2, <1>3

(* Without a rebuild the chart stays right: whatever trades come and        *)
(* whenever the heartbeat and the GUI draw, closed candles are never        *)
(* rewritten and each of them is drawn once, so only a snapshot can make    *)
(* the drawing stale (quote_scratcher.cpp:443-455).                         *)
THEOREM ChartStaysRight == Spec => OnlyRebuildsStale
<1>1. ASSUME Typed, [Next]_vars
      PROVE  [ChartMatches(chart, series) /\ IsPrefix(feed, feed')
                => ChartMatches(chart', series')]_vars
  <2>. SUFFICES ASSUME Next, ChartMatches(chart, series), IsPrefix(feed, feed')
                PROVE  ChartMatches(chart', series')
    BY <1>1
  <2>0. series \in Series /\ chart \in ChartRecord
    BY <1>1 DEF Typed
  <2>1. CASE Increment
    <3>1. feed' \in Seq(TradeRecord) /\ feed' # <<>> /\ chart' = chart
      BY <1>1, <2>1, IncrementIs
    <3>2. PICK batch \in Seq(TradeRecord) :
            /\ batch # <<>> /\ feed' = feed \o batch
            /\ feed = <<>> => feed' = batch /\ OnSnapshot(batch)
            /\ feed # <<>> =>
                 \E first \in Len(feed)..Len(feed) + 1 : OnIncrement(SubSeq(feed', first, Len(feed')))
      BY <1>1, <2>1, IncrementIs
    <3>3. CASE feed = <<>>
      <4>1. series'.anchor # NoTime /\ chart.anchor = NoTime
        BY <1>1, <3>2, <3>3, SnapshotSeries DEF Typed
      <4>. QED BY <3>1, <4>1 DEF ChartMatches
    <3>4. CASE feed # <<>>
      <4>1. PICK first \in Len(feed)..Len(feed) + 1 : OnIncrement(SubSeq(feed', first, Len(feed')))
        BY <3>2, <3>4
      <4>2. first \in Nat /\ first > 0
        BY <1>1, <3>4 DEF Typed
      <4>3. SubSeq(feed', first, Len(feed')) \in Seq(TradeRecord)
        BY <3>1, <4>2, PartOfFeed
      <4>4. series' \in Series /\ series'.anchor = series.anchor /\ Grows(series.closed, series'.closed)
        BY <1>1, <3>4, <4>1, <4>3, IncrementSeries
      <4>. QED BY <2>0, <3>1, <4>4, MatchKept
    <3>. QED BY <3>3, <3>4
  <2>2. CASE LateTrade
    BY <1>1, <2>2, LateTradeIs
  <2>3. CASE DoUpdate
    BY <1>1, <2>3, MatchDrawn
  <2>4. CASE Tick
    BY <2>4 DEF Tick
  <2>. QED BY <2>1, <2>2, <2>3, <2>4 DEF Next
<1>. QED BY <1>1, TypedInvariant, PTL DEF Spec, OnlyRebuildsStale

-----------------------------------------------------------------------------
(* Sums.                                                                   *)

LEMMA AppendedIs ==
  ASSUME NEW T, NEW n \in Nat, NEW u \in Seq(T), NEW w \in Seq(T), NEW e \in T,
         Len(u) = n, Len(w) = n + 1, w[n + 1] = e, \A i \in 1..n : w[i] = u[i]
  PROVE  w = Append(u, e)
<1>1. /\ Append(u, e) \in Seq(T) /\ Len(Append(u, e)) = n + 1 /\ Append(u, e)[n + 1] = e
      /\ \A i \in 1..n : Append(u, e)[i] = u[i]
  OBVIOUS
<1>2. \A i \in 1..(n + 1) : w[i] = Append(u, e)[i]
  BY <1>1
<1>. QED BY <1>1, <1>2, SeqEqual

SumStep(numbers) == [p \in (1..Len(numbers)) \X Nat |-> p[2] + numbers[p[1]]]

LEMMA SumChain ==
  ASSUME NEW numbers \in Seq(Nat)
  PROVE  \E v : FoldRun(v, Len(numbers), Nat, 0, SumStep(numbers), SumOf(numbers))
<1>. DEFINE n == Len(numbers)
            step == SumStep(numbers)
            k == CHOOSE f : f = [u \in SUBSET (DOMAIN numbers) |->
                   IF u = {} THEN 0 ELSE f[u \ {Max(u)}] + numbers[Max(u)]]
<1>1. n \in Nat /\ DOMAIN numbers = 1..n /\ (\A i \in 1..n : numbers[i] \in Nat) /\ 0 \in Nat
  OBVIOUS
<1>2. /\ step \in [(1..n) \X Nat -> Nat]
      /\ \A p \in (1..n) \X Nat : step[p] = p[2] + numbers[p[1]]
  BY <1>1 DEF SumStep
<1>. HIDE DEF step
<1>4. PICK h : FoldSolution(h, n, Nat, 0, step)
  <2>. HIDE DEF n
  <2>. QED BY <1>1, <1>2, FoldExists
<1>5. \A u \in SUBSET (1..n) : u # {} => Max(u) \in 1..n
  BY <1>1, MaxIsPosition
<1>6. \A u \in SUBSET (1..n) :
        h[u] = IF u = {} THEN 0 ELSE h[u \ {Max(u)}] + numbers[Max(u)]
  BY <1>2, <1>4, <1>5 DEF FoldSolution
<1>7. h = [u \in SUBSET (DOMAIN numbers) |-> IF u = {} THEN 0 ELSE h[u \ {Max(u)}] + numbers[Max(u)]]
  BY <1>1, <1>4, <1>6 DEF FoldSolution
<1>8. k = [u \in SUBSET (DOMAIN numbers) |-> IF u = {} THEN 0 ELSE k[u \ {Max(u)}] + numbers[Max(u)]]
  BY <1>7
<1>9. SumOf(numbers) = k[DOMAIN numbers]
  BY DEF SumOf, FoldLeft, MapThenFoldSet
<1>. HIDE DEF k
<1>10. k[{}] = 0
  BY <1>8
<1>11. ASSUME NEW u \in SUBSET (1..n), u # {}, k[u \ {Max(u)}] \in Nat
       PROVE  k[u] = step[<<Max(u), k[u \ {Max(u)}]>>]
  <2>1. k[u] = k[u \ {Max(u)}] + numbers[Max(u)]
    BY <1>1, <1>8, <1>11
  <2>2. <<Max(u), k[u \ {Max(u)}]>> \in (1..n) \X Nat
    BY <1>5, <1>11
  <2>. QED BY <1>2, <2>1, <2>2
<1>12. PICK v : FoldRun(v, n, Nat, 0, step, k[1..n])
  <2>. HIDE DEF n
  <2>. QED BY <1>1, <1>2, <1>10, <1>11, FoldChain
<1>13. SumOf(numbers) = k[1..n]
  BY <1>1, <1>9
<1>. QED BY <1>12, <1>13 DEF step

(* A sum, and one number more.                                             *)
LEMMA SumOfIs ==
  /\ SumOf(<<>>) = 0
  /\ \A u \in Seq(Nat), t \in Nat : SumOf(u) \in Nat /\ SumOf(Append(u, t)) = SumOf(u) + t
<1>1. SumOf(<<>>) = 0
  <2>1. <<>> \in Seq(Nat) /\ Len(<<>>) = 0
    OBVIOUS
  <2>2. PICK v : FoldRun(v, Len(<<>>), Nat, 0, SumStep(<<>>), SumOf(<<>>))
    BY <2>1, SumChain
  <2>. QED BY <2>1, <2>2 DEF FoldRun
<1>2. ASSUME NEW u \in Seq(Nat), NEW t \in Nat
      PROVE  SumOf(u) \in Nat /\ SumOf(Append(u, t)) = SumOf(u) + t
  <2>. DEFINE n == Len(u)
              a == Append(u, t)
              x == SumOf(u)
              y == SumOf(a)
              f == SumStep(u)
              g == SumStep(a)
  <2>1. /\ n \in Nat /\ a \in Seq(Nat) /\ Len(a) = n + 1 /\ a[n + 1] = t
        /\ \A i \in 1..n : a[i] = u[i]
    OBVIOUS
  <2>2. PICK v : FoldRun(v, n, Nat, 0, f, x)
    BY SumChain
  <2>. HIDE DEF a
  <2>3. PICK w : FoldRun(w, n + 1, Nat, 0, g, y)
    BY <2>1, SumChain
  <2>. HIDE DEF n, x, y
  <2>4. /\ \A p \in (1..n) \X Nat : f[p] = p[2] + u[p[1]]
        /\ \A p \in (1..(n + 1)) \X Nat : g[p] = p[2] + a[p[1]]
    BY <2>1 DEF SumStep, n
  <2>. HIDE DEF f, g
  <2>5. \A i \in 1..n, e \in Nat : f[<<i, e>>] = g[<<i, e>>]
    <3>1. ASSUME NEW i \in 1..n, NEW e \in Nat PROVE f[<<i, e>>] = g[<<i, e>>]
      <4>1. <<i, e>> \in (1..n) \X Nat /\ <<i, e>> \in (1..(n + 1)) \X Nat
        BY <2>1
      <4>. QED BY <2>1, <2>4, <4>1
    <3>. QED BY <3>1
  <2>6. x \in Nat /\ y = g[<<n + 1, x>>]
    BY <2>1, <2>2, <2>3, <2>5, FoldRunAppend
  <2>7. <<n + 1, x>> \in (1..(n + 1)) \X Nat
    BY <2>1, <2>6
  <2>8. y = x + t
    BY <2>1, <2>4, <2>6, <2>7
  <2>. QED BY <2>6, <2>8 DEF x, y, a
<1>. QED BY <1>1, <1>2

(* The volume of candles, and of one candle more; the same for trades.     *)
LEMMA VolumeIs ==
  /\ Volume(<<>>) = 0
  /\ \A s \in Seq(CandleRecord), c \in CandleRecord :
       Volume(s) \in Nat /\ Volume(Append(s, c)) = Volume(s) + c.volume
<1>1. Volume(<<>>) = 0
  <2>1. [i \in DOMAIN <<>> |-> <<>>[i].volume] = <<>>
    OBVIOUS
  <2>. QED BY <2>1, SumOfIs DEF Volume
<1>2. ASSUME NEW s \in Seq(CandleRecord), NEW c \in CandleRecord
      PROVE  Volume(s) \in Nat /\ Volume(Append(s, c)) = Volume(s) + c.volume
  <2>. DEFINE n == Len(s)
              a == Append(s, c)
              u == [i \in DOMAIN s |-> s[i].volume]
              w == [i \in DOMAIN a |-> a[i].volume]
  <2>1. /\ n \in Nat /\ DOMAIN s = 1..n /\ DOMAIN a = 1..(n + 1) /\ a[n + 1] = c
        /\ \A i \in 1..n : a[i] = s[i] /\ s[i] \in CandleRecord
    OBVIOUS
  <2>2. c.volume \in Nat /\ \A i \in 1..n : s[i].volume \in Nat
    BY <2>1, Numbers
  <2>. HIDE DEF a, n
  <2>3. u \in Seq(Nat) /\ Len(u) = n
    BY <2>1, <2>2
  <2>4. w \in Seq(Nat) /\ Len(w) = n + 1 /\ w[n + 1] = c.volume /\ \A i \in 1..n : w[i] = u[i]
    BY <2>1, <2>2
  <2>5. Volume(s) = SumOf(u) /\ Volume(a) = SumOf(w)
    BY DEF Volume
  <2>. HIDE DEF u, w
  <2>6. w = Append(u, c.volume)
    BY <2>1, <2>2, <2>3, <2>4, AppendedIs
  <2>. QED BY <2>2, <2>3, <2>5, <2>6, SumOfIs DEF a
<1>. QED BY <1>1, <1>2

LEMMA TradedIs ==
  /\ Traded(<<>>) = 0
  /\ \A s \in Seq(TradeRecord), t \in TradeRecord :
       Traded(s) \in Nat /\ Traded(Append(s, t)) = Traded(s) + t.size
<1>1. Traded(<<>>) = 0
  <2>1. [i \in DOMAIN <<>> |-> <<>>[i].size] = <<>>
    OBVIOUS
  <2>. QED BY <2>1, SumOfIs DEF Traded
<1>2. ASSUME NEW s \in Seq(TradeRecord), NEW t \in TradeRecord
      PROVE  Traded(s) \in Nat /\ Traded(Append(s, t)) = Traded(s) + t.size
  <2>. DEFINE n == Len(s)
              a == Append(s, t)
              u == [i \in DOMAIN s |-> s[i].size]
              w == [i \in DOMAIN a |-> a[i].size]
  <2>1. /\ n \in Nat /\ DOMAIN s = 1..n /\ DOMAIN a = 1..(n + 1) /\ a[n + 1] = t
        /\ \A i \in 1..n : a[i] = s[i] /\ s[i] \in TradeRecord
    OBVIOUS
  <2>2. t.size \in Nat /\ \A i \in 1..n : s[i].size \in Nat
    BY <2>1, Numbers
  <2>. HIDE DEF a, n
  <2>3. u \in Seq(Nat) /\ Len(u) = n
    BY <2>1, <2>2
  <2>4. w \in Seq(Nat) /\ Len(w) = n + 1 /\ w[n + 1] = t.size /\ \A i \in 1..n : w[i] = u[i]
    BY <2>1, <2>2
  <2>5. Traded(s) = SumOf(u) /\ Traded(a) = SumOf(w)
    BY DEF Traded
  <2>. HIDE DEF u, w
  <2>6. w = Append(u, t.size)
    BY <2>1, <2>2, <2>3, <2>4, AppendedIs
  <2>. QED BY <2>2, <2>3, <2>5, <2>6, SumOfIs DEF a
<1>. QED BY <1>1, <1>2

(* The volume of a series, its active candle included.                     *)
VolumeOf(s) == Volume(Append(s.closed, s.active))

LEMMA VolumeOfIs ==
  ASSUME NEW s \in Series
  PROVE  /\ s.closed \in Seq(CandleRecord) /\ s.active \in CandleRecord
         /\ Volume(s.closed) \in Nat /\ s.active.volume \in Nat
         /\ VolumeOf(s) = Volume(s.closed) + s.active.volume /\ VolumeOf(s) \in Nat
<1>1. s.closed \in Seq(CandleRecord) /\ s.active \in CandleRecord
  BY DEF Series
<1>2. Volume(s.closed) \in Nat /\ s.active.volume \in Nat
  BY <1>1, VolumeIs, Numbers
<1>3. VolumeOf(s) = Volume(s.closed) + s.active.volume
  BY <1>1, VolumeIs DEF VolumeOf
<1>. QED BY <1>1, <1>2, <1>3

(* Candles without volume add none.                                        *)
LEMMA EmptyCandlesAddNothing ==
  ASSUME NEW a \in Seq(CandleRecord), NEW b \in Seq(CandleRecord), \A c \in ToSet(b) : c.volume = 0
  PROVE  Volume(a \o b) = Volume(a)
<1>. DEFINE P == {r \in Seq(CandleRecord) : (\A c \in ToSet(r) : c.volume = 0) => Volume(a \o r) = Volume(a)}
<1>1. <<>> \in P
  <2>1. a \o <<>> = a
    OBVIOUS
  <2>. QED BY <2>1
<1>2. ASSUME NEW r \in Seq(CandleRecord), NEW e \in CandleRecord, r \in P PROVE Append(r, e) \in P
  <2>1. /\ ToSet(Append(r, e)) = ToSet(r) \cup {e} /\ Append(r, e) \in Seq(CandleRecord)
        /\ a \o r \in Seq(CandleRecord) /\ a \o Append(r, e) = Append(a \o r, e)
    BY ToSetGrowth, ConcatAppend
  <2>2. ASSUME \A c \in ToSet(Append(r, e)) : c.volume = 0 PROVE Volume(a \o Append(r, e)) = Volume(a)
    <3>1. e.volume = 0 /\ Volume(a \o r) = Volume(a)
      BY <1>2, <2>1, <2>2
    <3>2. Volume(Append(a \o r, e)) = Volume(a \o r) + e.volume /\ Volume(a \o r) \in Nat
      <4>. HIDE <1>2
      <4>. QED BY <2>1, VolumeIs
    <3>. QED BY <2>1, <3>1, <3>2
  <2>. QED BY <2>1, <2>2
<1>3. Seq(CandleRecord) \subseteq P
  <2>. HIDE DEF P
  <2>. QED BY <1>1, <1>2, SeqSetInduction
<1>. QED BY <1>3

(* Closing candles moves volume and adds none.                             *)
LEMMA RollVolume ==
  ASSUME NEW s \in Series, NEW n \in Int
  PROVE  VolumeOf(Roll(s, n)) = VolumeOf(s)
<1>1. CASE n <= 0
  BY <1>1, RollIs
<1>2. CASE n > 0
  <2>. DEFINE e == EmptyCandle(s.price)
              f == [i \in 1..n - 1 |-> e]
              h == s.closed \o <<s.active>>
              r == Roll(s, n)
  <2>1. s.price \in Money /\ s.closed \in Seq(CandleRecord) /\ s.active \in CandleRecord
    BY DEF Series
  <2>2. e \in CandleRecord /\ e.volume = 0
    BY <2>1, Numbers DEF EmptyCandle, CandleRecord
  <2>. HIDE DEF e
  <2>3. f \in Seq(CandleRecord) /\ \A c \in ToSet(f) : c.volume = 0
    <3>1. f \in Seq(CandleRecord) /\ Len(f) = n - 1 /\ \A i \in 1..n - 1 : f[i] = e
      BY <1>2, <2>2
    <3>2. ToSet(f) = {f[i] : i \in 1..Len(f)}
      <4>. HIDE DEF f
      <4>. QED BY <3>1, ToSetProperties
    <3>. QED BY <2>2, <3>1, <3>2
  <2>4. h = Append(s.closed, s.active) /\ h \in Seq(CandleRecord)
    BY <2>1
  <2>5. r = [s EXCEPT !.closed = h \o f, !.active = e]
    BY <1>2 DEF Roll, e
  <2>. HIDE DEF f, h
  <2>6. r.closed = h \o f /\ r.active = e /\ r \in Series
    <3>1. r \in Series
      BY RollIs
    <3>. QED BY <2>5, <3>1 DEF Series
  <2>. HIDE DEF r
  <2>7. Volume(h \o f) = Volume(h)
    BY <2>3, <2>4, EmptyCandlesAddNothing
  <2>8. VolumeOf(r) = Volume(h) + 0 /\ Volume(h) \in Nat
    <3>1. VolumeOf(r) = Volume(r.closed) + r.active.volume /\ Volume(r.closed) \in Nat
      BY <2>6, VolumeOfIs
    <3>. QED BY <2>2, <2>6, <2>7, <3>1
  <2>9. VolumeOf(s) = Volume(h)
    BY <2>4 DEF VolumeOf
  <2>. QED BY <2>8, <2>9 DEF r
<1>. QED BY <1>1, <1>2

LEMMA AdvanceVolume ==
  ASSUME NEW s \in Series, NEW time \in Int
  PROVE  VolumeOf(AdvanceTo(s, time)) = VolumeOf(s)
BY AdvanceToIs, RollVolume, SMTT(30)

(* A trade that is taken in adds its size, and moves the boundary past its  *)
(* time, but not by more than a period.                                    *)
LEMMA IngestTradeAdds ==
  ASSUME NEW st \in IngestState, NEW t \in TradeRecord
  PROVE  LET w == IngestTrade(st, t)
         IN /\ VolumeOf(w.series) = VolumeOf(st.series) + t.size
            /\ NextBoundary(st.series) <= st.next => NextBoundary(w.series) <= w.next
            /\ w.next = st.next \/ w.next <= t.time + Duration
<1>. DEFINE s == st.series
            n == Crossed(st.next, t.time)
            r == Rolled(s, n)
            w == IngestTrade(st, t)
<1>1. /\ w \in IngestState /\ n \in Nat /\ r \in Series /\ w.next = st.next + n * Duration
      /\ w.series.anchor = s.anchor /\ w.series.closed = r.closed /\ w.series.active = AddTrade(r.active, t)
  BY IngestTradeIs
<1>2. s \in Series /\ w.series \in Series /\ st.next \in Int /\ t.time \in Nat /\ t.size \in Nat
      /\ Duration \in Nat /\ Duration > 0
  BY <1>1, Numbers DEF IngestState
<1>. HIDE DEF s, w
<1>3. VolumeOf(r) = VolumeOf(s)
  <2>. HIDE DEF n
  <2>. QED BY <1>1, <1>2, RollVolume DEF Rolled
<1>5. VolumeOf(w.series) = VolumeOf(s) + t.size
  <2>. HIDE DEF n, r
  <2>1. /\ r.active \in CandleRecord /\ VolumeOf(r) = Volume(r.closed) + r.active.volume
        /\ Volume(r.closed) \in Nat /\ r.active.volume \in Nat
    BY <1>1, VolumeOfIs
  <2>2. w.series.active.volume = r.active.volume + t.size
    BY <1>1, <2>1, AddTradeIs
  <2>3. VolumeOf(w.series) = Volume(w.series.closed) + w.series.active.volume
    BY <1>2, VolumeOfIs
  <2>. QED BY <1>1, <1>2, <1>3, <2>1, <2>2, <2>3
<1>6. ASSUME NextBoundary(s) <= st.next PROVE NextBoundary(w.series) <= w.next
  <2>. DEFINE l == Len(s.closed)
              m == Len(r.closed)
  <2>1. l \in Nat /\ s.anchor \in Int
    BY <1>2, Numbers DEF Series
  <2>2. m \in Nat /\ (m = l \/ m = l + n)
    <3>1. m = l \/ m = l + n
      <4>1. CASE Fresh(s) \/ n = 0
        BY <1>2, <4>1, RollIs DEF Rolled
      <4>2. CASE ~Fresh(s) /\ n > 0
        <5>. HIDE DEF n
        <5>. QED BY <1>1, <1>2, <4>2, RollIs DEF Rolled
      <4>. QED BY <1>1, <4>1, <4>2
    <3>. QED BY <1>1, <2>1, <3>1
  <2>3. m * Duration <= l * Duration + n * Duration
    <3>. HIDE DEF m, l, n
    <3>1. l * Duration \in Int /\ n * Duration \in Nat /\ (l + n) * Duration = l * Duration + n * Duration
      BY <1>1, <1>2, <2>1
    <3>2. CASE m = l
      <4>1. m * Duration = l * Duration
        BY <3>2
      <4>. QED BY <3>1, <4>1
    <3>3. CASE m = l + n
      <4>1. m * Duration = l * Duration + n * Duration
        BY <3>1, <3>3
      <4>. QED BY <3>1, <4>1
    <3>. QED BY <2>2, <3>2, <3>3
  <2>4. NextBoundary(w.series) = s.anchor + m * Duration /\ NextBoundary(s) = s.anchor + l * Duration
    BY <1>1 DEF NextBoundary
  <2>5. m * Duration \in Int /\ l * Duration \in Int /\ n * Duration \in Int
    <3>. HIDE DEF m, l, n
    <3>. QED BY <1>1, <1>2, <2>1, <2>2
  <2>. HIDE DEF m, l, n
  <2>. QED BY <1>1, <1>2, <1>6, <2>1, <2>3, <2>4, <2>5
<1>7. w.next = st.next \/ w.next <= t.time + Duration
  <2>1. CASE t.time < st.next
    <3>1. n = 0
      BY <2>1 DEF Crossed
    <3>. HIDE DEF n
    <3>. QED BY <1>1, <1>2, <3>1
  <2>2. CASE ~(t.time < st.next)
    <3>. DEFINE q == (t.time - st.next) \div Duration
    <3>1. n = q + 1
      BY <2>2 DEF Crossed
    <3>2. t.time - st.next \in Int
      BY <1>2
    <3>3. q \in Int /\ q * Duration <= t.time - st.next
      BY <3>2, DivisionIs
    <3>. HIDE DEF q, n
    <3>4. n * Duration = q * Duration + Duration /\ q * Duration \in Int
      BY <1>2, <3>1, <3>3
    <3>. QED BY <1>1, <1>2, <3>3, <3>4
  <2>. QED BY <2>1, <2>2
<1>. QED BY <1>5, <1>6, <1>7 DEF s, w

(* So does a batch.                                                        *)
LEMMA IngestedAdds ==
  ASSUME NEW st \in IngestState, NextBoundary(st.series) <= st.next, NEW y \in Int,
         NEW trades \in Seq(TradeRecord), \A t \in ToSet(trades) : t.time <= y
  PROVE  LET w == Ingested(st, trades)
         IN /\ w \in IngestState
            /\ VolumeOf(w.series) = VolumeOf(st.series) + Traded(trades)
            /\ NextBoundary(w.series) <= w.next
            /\ w.next = st.next \/ w.next <= y + Duration
<1>. DEFINE Added(w, u) == /\ VolumeOf(w.series) = VolumeOf(st.series) + Traded(u)
                           /\ NextBoundary(w.series) <= w.next
                           /\ w.next = st.next \/ w.next <= y + Duration
            P == {u \in Seq(TradeRecord) : (\A t \in ToSet(u) : t.time <= y) => Added(Ingested(st, u), u)}
<1>0. VolumeOf(st.series) \in Nat /\ Duration \in Nat
  BY VolumeOfIs, Numbers DEF IngestState
<1>1. <<>> \in P
  <2>1. Added(st, <<>>)
    BY <1>0, TradedIs
  <2>. HIDE DEF Added
  <2>. QED BY <2>1, IngestedIs
<1>2. ASSUME NEW u \in Seq(TradeRecord), NEW t \in TradeRecord, u \in P PROVE Append(u, t) \in P
  <2>. DEFINE x == Ingested(st, u)
              w == IngestTrade(x, t)
  <2>1. /\ Append(u, t) \in Seq(TradeRecord) /\ Ingested(st, Append(u, t)) = w /\ x \in IngestState
        /\ ToSet(Append(u, t)) = ToSet(u) \cup {t}
    BY IngestedIs, ToSetGrowth
  <2>2. ASSUME \A v \in ToSet(Append(u, t)) : v.time <= y PROVE Added(w, Append(u, t))
    <3>1. Added(x, u) /\ t.time <= y
      BY <1>2, <2>1, <2>2
    <3>. HIDE DEF x
    <3>2. /\ VolumeOf(w.series) = VolumeOf(x.series) + t.size
          /\ NextBoundary(x.series) <= x.next => NextBoundary(w.series) <= w.next
          /\ w.next = x.next \/ w.next <= t.time + Duration
          /\ w \in IngestState
      BY <2>1, IngestTradeAdds, IngestTradeIs
    <3>3. Traded(u) \in Nat /\ Traded(Append(u, t)) = Traded(u) + t.size
      BY TradedIs
    <3>. HIDE DEF w
    <3>4. t.size \in Nat /\ t.time \in Nat /\ w.next \in Int
      BY <3>2, Numbers DEF IngestState
    <3>. QED BY <1>0, <3>1, <3>2, <3>3, <3>4, SMTT(30)
  <2>. HIDE DEF Added
  <2>. QED BY <2>1, <2>2
<1>3. Seq(TradeRecord) \subseteq P
  <2>. HIDE DEF P
  <2>. QED BY <1>1, <1>2, SeqSetInduction
<1>4. Ingested(st, trades) \in IngestState
  BY IngestedGrows
<1>. QED BY <1>3, <1>4

(* The clock does not move the boundary beyond its own period.             *)
LEMMA AdvanceBoundary ==
  ASSUME NEW s \in Series, s.anchor # NoTime, NEW time \in Int
  PROVE  /\ NextBoundary(AdvanceTo(s, time)) \in Int
         /\ \/ NextBoundary(AdvanceTo(s, time)) = NextBoundary(s)
            \/ NextBoundary(AdvanceTo(s, time)) <= PeriodStart(time)
<1>. DEFINE n == (PeriodStart(time) - NextBoundary(s)) \div Duration
            r == AdvanceTo(s, time)
            l == Len(s.closed)
<1>1. /\ NextBoundary(s) \in Int /\ n \in Int /\ r = Roll(s, n) /\ r \in Series /\ r.anchor = s.anchor
      /\ PeriodStart(time) \in Int /\ Duration \in Nat /\ Duration > 0
  BY AdvanceToIs, PeriodStartIs, Numbers
<1>2. n * Duration <= PeriodStart(time) - NextBoundary(s)
  BY <1>1, DivisionIs
<1>3. l \in Nat /\ s.anchor \in Int
  BY Numbers DEF Series
<1>4. NextBoundary(s) = s.anchor + l * Duration /\ NextBoundary(r) = r.anchor + Len(r.closed) * Duration
  BY DEF NextBoundary
<1>. HIDE DEF n, r, l
<1>5. CASE n <= 0
  <2>1. r = s
    BY <1>1, <1>5, RollIs
  <2>. QED BY <1>1, <2>1 DEF r
<1>6. CASE n > 0
  <2>1. Len(r.closed) = l + n
    BY <1>1, <1>6, RollIs DEF l
  <2>2. (l + n) * Duration = l * Duration + n * Duration /\ l * Duration \in Int /\ n * Duration \in Int
    BY <1>1, <1>3
  <2>3. NextBoundary(r) = NextBoundary(s) + n * Duration
    BY <1>1, <1>3, <1>4, <2>1, <2>2
  <2>. QED BY <1>1, <1>2, <2>2, <2>3 DEF r
<1>. QED BY <1>1, <1>5, <1>6

-----------------------------------------------------------------------------
(* What a batch counts.                                                    *)

LEMMA PeriodsInOrder ==
  ASSUME NEW n \in Int, NEW m \in Int, n <= m
  PROVE  PeriodStart(n) <= PeriodStart(m)
<1>. DEFINE p == n \div Duration
            q == m \div Duration
<1>1. p \in Int /\ q \in Int /\ Duration \in Nat /\ Duration > 0
      /\ p * Duration <= n /\ m < (q + 1) * Duration
  BY DivisionIs, Numbers
<1>2. PeriodStart(n) = p * Duration /\ PeriodStart(m) = q * Duration
  BY PeriodStartIs
<1>. HIDE DEF p, q
<1>3. p * Duration < (q + 1) * Duration
  <2>1. p * Duration \in Int /\ (q + 1) * Duration \in Int
    BY <1>1
  <2>. QED BY <1>1, <2>1
<1>4. p < q + 1
  <2>1. ASSUME p >= q + 1 PROVE FALSE
    <3>1. p * Duration >= (q + 1) * Duration
      BY <1>1, <2>1
    <3>2. p * Duration \in Int /\ (q + 1) * Duration \in Int
      BY <1>1
    <3>. QED BY <1>3, <3>1, <3>2
  <2>. QED BY <1>1, <2>1
<1>5. p <= q
  BY <1>1, <1>4
<1>. QED BY <1>1, <1>2, <1>5

(* A filter looks at no other elements than the sequence has.              *)
LEMMA OnlySame ==
  ASSUME NEW T, NEW s \in Seq(T), NEW S, NEW R, ToSet(s) \cap S = ToSet(s) \cap R
  PROVE  Only(s, S) = Only(s, R)
<1>. DEFINE P == {u \in Seq(T) : ToSet(u) \cap S = ToSet(u) \cap R => Only(u, S) = Only(u, R)}
<1>1. <<>> \in P
  BY OnlyEmpty
<1>2. ASSUME NEW u \in Seq(T), NEW e \in T, u \in P PROVE Append(u, e) \in P
  <2>1. \A X : Only(Append(u, e), X) = IF e \in X THEN Append(Only(u, X), e) ELSE Only(u, X)
    BY OnlyAppend
  <2>2. ToSet(Append(u, e)) = ToSet(u) \cup {e} /\ Append(u, e) \in Seq(T)
    BY ToSetGrowth
  <2>3. ASSUME ToSet(Append(u, e)) \cap S = ToSet(Append(u, e)) \cap R
        PROVE  Only(Append(u, e), S) = Only(Append(u, e), R)
    <3>1. ToSet(u) \cap S = ToSet(u) \cap R /\ (e \in S <=> e \in R)
      <4>. DEFINE U == ToSet(u)
                  A == ToSet(Append(u, e))
      <4>1. A = U \cup {e} /\ A \cap S = A \cap R
        BY <2>2, <2>3
      <4>. HIDE DEF U, A
      <4>2. U \cap S = U \cap R /\ (e \in S <=> e \in R)
        BY <4>1
      <4>. QED BY <4>2 DEF U
    <3>2. Only(u, S) = Only(u, R)
      BY <1>2, <3>1
    <3>. QED BY <2>1, <3>1, <3>2
  <2>. QED BY <2>2, <2>3
<1>3. Seq(T) \subseteq P
  <2>. HIDE DEF P
  <2>. QED BY <1>1, <1>2, SeqSetInduction
<1>. QED BY <1>3

(* Trades that have been seen in front of others change nothing.           *)
LEMMA UnseenAfter ==
  ASSUME NEW a \in Seq(TradeRecord), NEW b \in Seq(TradeRecord), NEW last,
         \A x \in ToSet(a) : ~(x.time > last)
  PROVE  Unseen(a \o b, last) = Unseen(b, last)
<1>. DEFINE Later(s) == {t \in ToSet(s) : t.time > last}
            L == {t \in TradeRecord : t.time > last}
<1>1. \A s \in Seq(TradeRecord) : Only(s, Later(s)) = Only(s, L)
  <2>1. ASSUME NEW s \in Seq(TradeRecord) PROVE Only(s, Later(s)) = Only(s, L)
    <3>1. ToSet(s) \subseteq TradeRecord
      BY ToSetProperties
    <3>2. ToSet(s) \cap Later(s) = ToSet(s) \cap L
      BY <3>1
    <3>. HIDE DEF Later, L
    <3>. QED BY <3>2, OnlySame
  <2>. QED BY <2>1
<1>2. a \o b \in Seq(TradeRecord)
  BY ConcatAppend
<1>3. Unseen(a \o b, last) = Only(a \o b, L) /\ Unseen(b, last) = Only(b, L)
  BY <1>1, <1>2 DEF Unseen
<1>4. ToSet(a) \cap L = ToSet(a) \cap {}
  OBVIOUS
<1>. HIDE DEF L
<1>5. Only(a, L) = <<>>
  <2>1. Only(a, L) = Only(a, {})
    BY <1>4, OnlySame
  <2>2. Only(a, {}) \in Seq(TradeRecord) /\ ToSet(Only(a, {})) = {}
    BY OnlyIsSeq, OnlyToSet
  <2>3. Only(a, {}) = <<>>
    <3>1. \A s \in Seq(TradeRecord) : ToSet(s) = {} => s = <<>>
      <4>1. ASSUME NEW s \in Seq(TradeRecord), s # <<>> PROVE ToSet(s) # {}
        <5>1. PICK f \in Seq(TradeRecord), e \in TradeRecord : s = Append(f, e)
          BY <4>1, SplitLast
        <5>2. ToSet(Append(f, e)) = ToSet(f) \cup {e}
          BY ToSetGrowth
        <5>. QED BY <5>1, <5>2
      <4>. QED BY <4>1
    <3>. QED BY <2>2, <3>1
  <2>. QED BY <2>1, <2>3
<1>6. Only(a \o b, L) = Only(a, L) \o Only(b, L) /\ Only(b, L) \in Seq(TradeRecord)
  <2>1. \A X : Only(a \o b, X) = Only(a, X) \o Only(b, X)
    BY OnlyConcat
  <2>2. \A X : Only(b, X) \in Seq(TradeRecord)
    BY OnlyIsSeq
  <2>. QED BY <2>1, <2>2
<1>7. <<>> \o Only(b, L) = Only(b, L)
  BY <1>6
<1>. QED BY <1>3, <1>5, <1>6, <1>7

(* The first trade is the earliest, and the last one the latest.           *)
LEMMA HeadAndLast ==
  ASSUME NEW s \in Seq(TradeRecord), s # <<>>, ByTime(s)
  PROVE  /\ Head(s) \in ToSet(s) /\ Last(s) \in ToSet(s)
         /\ \A x \in ToSet(s) : Head(s).time <= x.time /\ x.time <= Last(s).time
<1>1. /\ Len(s) \in Nat /\ Len(s) > 0 /\ ToSet(s) = {s[i] : i \in 1..Len(s)}
      /\ Last(s) = s[Len(s)] /\ Head(s) = s[1]
  BY ToSetProperties
<1>2. \A i \in 1..Len(s) : s[i].time \in Nat
  BY ElementOfSeq, Numbers
<1>3. 1 \in 1..Len(s) /\ Len(s) \in 1..Len(s)
  BY <1>1
<1>4. ASSUME NEW i \in 1..Len(s) PROVE s[1].time <= s[i].time /\ s[i].time <= s[Len(s)].time
  <2>1. s[1].time <= s[i].time
    <3>1. CASE i = 1
      BY <1>2, <1>3, <3>1
    <3>2. CASE 1 < i
      BY <1>3, <3>2 DEF ByTime
    <3>. QED BY <3>1, <3>2
  <2>2. s[i].time <= s[Len(s)].time
    <3>1. CASE i = Len(s)
      BY <1>2, <1>3, <3>1
    <3>2. CASE i < Len(s)
      BY <1>3, <3>2 DEF ByTime
    <3>. QED BY <1>1, <3>1, <3>2
  <2>. QED BY <2>1, <2>2
<1>. QED BY <1>1, <1>3, <1>4

(* How far the series is ahead of the trades and the clock: the active      *)
(* candle starts at most one period behind the last trade, or is not ahead  *)
(* of the clock's period; and a trade that was refused is too old for good. *)
Boundary(s, time) ==
  NextBoundary(s) <= s.last + Duration \/ NextBoundary(s) <= PeriodStart(time)

TooOld(t, s, time) == t.time > s.last /\ t.time < PeriodStart(time) - Duration

Caught ==
  feed # <<>> =>
    /\ Boundary(series, now)
    /\ \/ \A x \in ToSet(feed) : x.time <= series.last
       \/ \E x \in ToSet(feed) : TooOld(x, series, now)

LEMMA AdvanceKeepsBoundary ==
  ASSUME NEW s \in Series, s.anchor # NoTime, NEW time \in Int,
         NextBoundary(s) <= s.last + Duration \/ NextBoundary(s) <= PeriodStart(time)
  PROVE  Boundary(AdvanceTo(s, time), time) /\ AdvanceTo(s, time).last = s.last
<1>. DEFINE r == AdvanceTo(s, time)
<1>1. r.last = s.last
  BY AdvanceToIs
<1>2. NextBoundary(r) = NextBoundary(s) \/ NextBoundary(r) <= PeriodStart(time)
  BY AdvanceBoundary
<1>. HIDE DEF r
<1>. QED BY <1>1, <1>2 DEF Boundary, r

LEMMA SnapshotCounts ==
  ASSUME Typed, NEW trades \in Seq(TradeRecord), trades # <<>>, ByTime(trades), OnSnapshot(trades)
  PROVE  /\ VolumeOf(series') = Traded(trades)
         /\ Boundary(series', now)
         /\ \A x \in ToSet(trades) : x.time <= series'.last
<1>. DEFINE h == Head(trades)
            b == Begun(h)
            w == Ingested(b, trades)
            y == Last(trades).time
<1>1. series \in Series /\ now \in Int
  BY DEF Typed
<1>2. series' = IngestTradesAt(Reset(series), trades, now)
  BY DEF OnSnapshot
<1>3. b \in IngestState /\ w \in IngestState /\ w.series \in Series /\ series' = AdvanceTo(w.series, now)
      /\ series'.anchor # NoTime /\ series' \in Series
  BY <1>1, <1>2, RebuiltIs
<1>4. /\ h \in TradeRecord /\ h.time \in Nat /\ y \in Nat /\ h.time <= y
      /\ \A x \in ToSet(trades) : x.time <= y
  BY HeadAndLast, LastIsTime
<1>5. /\ PeriodStart(h.time) \in Int /\ PeriodStart(h.time) <= h.time
      /\ Duration \in Nat /\ Duration > 0
  <2>1. \A n \in Int : PeriodStart(n) \in Int /\ PeriodStart(n) <= n
    BY PeriodStartIs
  <2>2. h.time \in Int
    BY <1>4
  <2>. HIDE DEF h
  <2>. QED BY <2>1, <2>2, Numbers
<1>6. /\ b.next = PeriodStart(h.time) /\ NextBoundary(b.series) = b.next /\ VolumeOf(b.series) = 0
  <2>1. /\ b.next = PeriodStart(h.time) /\ b.series.anchor = PeriodStart(h.time)
        /\ b.series.closed = <<>> /\ b.series.active = EmptyCandle(h.price)
    BY DEF Begun
  <2>2. Len(b.series.closed) = 0 /\ b.series.active.volume = 0
    BY <2>1 DEF EmptyCandle
  <2>3. b.series \in Series
    BY <1>3 DEF IngestState
  <2>. HIDE DEF b
  <2>4. NextBoundary(b.series) = PeriodStart(h.time)
    BY <1>5, <2>1, <2>2 DEF NextBoundary
  <2>5. VolumeOf(b.series) = 0
    BY <2>1, <2>2, <2>3, VolumeOfIs, VolumeIs
  <2>. QED BY <2>1, <2>4, <2>5
<1>. HIDE DEF b, h, y
<1>7. /\ VolumeOf(w.series) = VolumeOf(b.series) + Traded(trades)
      /\ NextBoundary(w.series) <= w.next
      /\ w.next = b.next \/ w.next <= y + Duration
  <2>1. NextBoundary(b.series) <= b.next
    BY <1>5, <1>6
  <2>2. y \in Int
    BY <1>4
  <2>. QED BY <1>3, <1>4, <2>1, <2>2, IngestedAdds
<1>8. w.series.last = y
  BY <1>3, IngestedLast DEF y
<1>. HIDE DEF w
<1>9. w.series.anchor = series'.anchor /\ w.next \in Int
  BY <1>1, <1>3, AdvanceToIs DEF IngestState
<1>10. NextBoundary(w.series) \in Int
  BY <1>1, <1>3, <1>9, AdvanceToIs
<1>11. NextBoundary(w.series) <= w.series.last + Duration
  BY <1>4, <1>5, <1>6, <1>7, <1>8, <1>9, <1>10
<1>12. Boundary(series', now) /\ series'.last = y
  BY <1>1, <1>3, <1>8, <1>9, <1>11, AdvanceKeepsBoundary
<1>13. VolumeOf(series') = Traded(trades)
  <2>1. VolumeOf(series') = VolumeOf(w.series)
    BY <1>1, <1>3, AdvanceVolume
  <2>2. Traded(trades) \in Nat
    BY <1>4, TradedIs
  <2>. QED BY <1>6, <1>7, <2>1, <2>2
<1>. QED BY <1>4, <1>12, <1>13

(* A batch is refused only when its first trade is too old.                *)
LEMMA IncrementCounts ==
  ASSUME Typed, Caught, feed # <<>>, NEW trades \in Seq(TradeRecord), ByTime(trades), OnIncrement(trades)
  PROVE  LET new == Unseen(trades, series.last)
         IN /\ Boundary(series', now)
            /\ \/ /\ series' = series /\ new # <<>>
                  /\ TooOld(Head(new), series, now) /\ Head(new) \in ToSet(trades)
               \/ /\ VolumeOf(series') = VolumeOf(series) + Traded(new)
                  /\ series.last <= series'.last
                  /\ \A x \in ToSet(trades) : x.time <= series'.last
<1>. DEFINE new == Unseen(trades, series.last)
            b == AtBoundary(series)
            w == Ingested(b, new)
            y == IF new = <<>> THEN series.last ELSE Last(new).time
<1>1. /\ series \in Series /\ now \in Int /\ series.anchor # NoTime /\ series.last # NoTime
      /\ series.last \in Nat
  <2>1. series \in Series /\ now \in Int /\ series.anchor # NoTime /\ series.last # NoTime
    BY DEF Typed
  <2>2. series.last \in Instant
    BY <2>1 DEF Series
  <2>. QED BY <2>1, <2>2 DEF Instant
<1>2. Boundary(series, now)
  BY DEF Caught
<1>3. /\ new \in Seq(TradeRecord) /\ b \in IngestState /\ w \in IngestState
      /\ Rejects(series, new) => series' = series
      /\ ~Rejects(series, new) => series' = AdvanceTo(w.series, now)
      /\ series' \in Series
  <2>1. series' = IngestTradesAt(series, trades, now)
    BY DEF OnIncrement
  <2>. QED BY <1>1, <2>1, ContinuedIs
<1>4. /\ ByTime(new) /\ \A x \in ToSet(new) : x \in ToSet(trades) /\ x.time > series.last
      /\ \A x \in ToSet(trades) : x \in ToSet(new) \/ ~(x.time > series.last)
  <2>1. ByTime(new)
    BY OnlyByTime DEF Unseen
  <2>2. ToSet(new) = ToSet(trades) \cap {t \in ToSet(trades) : t.time > series.last}
    BY OnlyToSet DEF Unseen
  <2>. HIDE DEF new
  <2>. QED BY <2>1, <2>2
<1>5. b.series = series /\ b.next = NextBoundary(series) /\ NextBoundary(series) \in Int
  <2>1. NextBoundary(series) \in Int
    BY <1>1, AdvanceToIs
  <2>. QED BY <2>1 DEF AtBoundary
<1>6. PeriodStart(now) \in Int /\ Duration \in Nat /\ Duration > 0
  BY <1>1, PeriodStartIs, Numbers
<1>. HIDE DEF new, b
<1>7. CASE Rejects(series, new)
  <2>1. new # <<>> /\ (Head(new).time < NextBoundary(series) - Duration \/ Head(new).time < series.last)
    BY <1>7 DEF Rejects
  <2>2. Head(new) \in ToSet(trades) /\ Head(new).time > series.last /\ Head(new).time \in Nat
    BY <1>3, <1>4, <2>1, HeadAndLast, LastIsTime
  <2>3. Head(new).time < NextBoundary(series) - Duration
    BY <1>1, <2>1, <2>2
  <2>4. Head(new).time < PeriodStart(now) - Duration
    BY <1>1, <1>2, <1>5, <1>6, <2>2, <2>3 DEF Boundary
  <2>. QED BY <1>2, <1>3, <1>7, <2>1, <2>2, <2>4 DEF TooOld, new
<1>8. CASE ~Rejects(series, new)
  <2>1. y \in Nat /\ series.last <= y /\ (\A x \in ToSet(new) : x.time <= y) /\ w.series.last = y
    <3>1. CASE new = <<>>
      <4>1. w = b
        BY <1>3, <3>1, IngestedLast
      <4>2. ToSet(new) = {}
        BY <3>1 DEF ToSet
      <4>. QED BY <1>1, <1>5, <3>1, <4>1, <4>2
    <3>2. CASE new # <<>>
      <4>1. w.series.last = Last(new).time
        BY <1>3, <3>2, IngestedLast
      <4>2. /\ Last(new) \in ToSet(new) /\ Last(new).time \in Nat
            /\ \A x \in ToSet(new) : x.time <= Last(new).time
        BY <1>3, <1>4, <3>2, HeadAndLast, LastIsTime
      <4>3. series.last <= Last(new).time
        BY <1>1, <1>4, <4>2
      <4>. HIDE DEF w
      <4>. QED BY <3>2, <4>1, <4>2, <4>3
    <3>. QED BY <3>1, <3>2
  <2>. HIDE DEF y
  <2>2. /\ VolumeOf(w.series) = VolumeOf(series) + Traded(new)
        /\ NextBoundary(w.series) <= w.next
        /\ w.next = b.next \/ w.next <= y + Duration
    <3>1. NextBoundary(b.series) <= b.next
      BY <1>5
    <3>2. y \in Int
      BY <2>1
    <3>. QED BY <1>3, <1>5, <2>1, <3>1, <3>2, IngestedAdds
  <2>3. w.series \in Series /\ w.next \in Int /\ w.series.anchor # NoTime
    <3>1. w.series.anchor = b.series.anchor /\ w.series \in Series /\ w \in IngestState
      BY <1>3, IngestedGrows
    <3>. HIDE DEF w
    <3>. QED BY <1>1, <1>5, <3>1 DEF IngestState
  <2>. HIDE DEF w
  <2>4. NextBoundary(w.series) \in Int
    BY <1>1, <2>3, AdvanceToIs
  <2>5. NextBoundary(w.series) <= w.series.last + Duration \/ NextBoundary(w.series) <= PeriodStart(now)
    BY <1>1, <1>2, <1>5, <1>6, <2>1, <2>2, <2>3, <2>4 DEF Boundary
  <2>6. Boundary(series', now) /\ series'.last = y
    BY <1>1, <1>3, <1>8, <2>1, <2>3, <2>5, AdvanceKeepsBoundary
  <2>7. VolumeOf(series') = VolumeOf(series) + Traded(new)
    BY <1>1, <1>3, <1>8, <2>2, <2>3, AdvanceVolume
  <2>8. \A x \in ToSet(trades) : x.time <= y
    <3>1. \A x \in ToSet(trades) : x.time \in Nat
      BY ToSetProperties, Numbers
    <3>. QED BY <1>1, <1>4, <2>1, <3>1
  <2>. QED BY <2>1, <2>6, <2>7, <2>8 DEF new
<1>. QED BY <1>7, <1>8

LEMMA EndOfConcat ==
  ASSUME NEW a \in Seq(TradeRecord), NEW b \in Seq(TradeRecord), b # <<>>
  PROVE  SubSeq(a \o b, Len(a) + 1, Len(a \o b)) = b
<1>. DEFINE n == Len(a)
            k == Len(b)
<1>1. n \in Nat /\ k \in Nat /\ k > 0 /\ Len(a \o b) = n + k
  OBVIOUS
<1>2. \A m, l \in n + 1..n + k : SubSeq(a \o b, m, l) = SubSeq(b, m - n, l - n)
  BY SubSeqOfConcat2
<1>3. SubSeq(b, 1, k) = b
  BY SubSeqFull
<1>. HIDE DEF n, k
<1>4. n + 1 \in n + 1..n + k /\ n + k \in n + 1..n + k /\ (n + 1) - n = 1 /\ (n + k) - n = k
  BY <1>1
<1>. QED BY <1>1, <1>2, <1>3, <1>4 DEF n

LEMMA EndByTime ==
  ASSUME NEW a \in Seq(TradeRecord), NEW b \in Seq(TradeRecord), ByTime(a \o b)
  PROVE  ByTime(b)
<1>. DEFINE P == {r \in Seq(TradeRecord) : ByTime(a \o r) => ByTime(r)}
<1>1. <<>> \in P
  BY DEF ByTime
<1>2. ASSUME NEW r \in Seq(TradeRecord), NEW e \in TradeRecord, r \in P PROVE Append(r, e) \in P
  <2>1. PICK c \in Seq(TradeRecord) : c = a \o r
    BY ConcatAppend
  <2>2. /\ a \o Append(r, e) = Append(c, e) /\ Append(r, e) \in Seq(TradeRecord)
        /\ ToSet(c) = ToSet(a) \cup ToSet(r)
    BY <2>1, ConcatAppend, ToSetConcat
  <2>3. \A u \in Seq(TradeRecord) :
          ByTime(Append(u, e)) <=> (ByTime(u) /\ \A x \in ToSet(u) : x.time <= e.time)
    BY ByTimeAppend
  <2>4. ASSUME ByTime(Append(c, e)) PROVE ByTime(Append(r, e))
    <3>1. ByTime(c) /\ \A x \in ToSet(r) : x.time <= e.time
      BY <2>2, <2>3, <2>4
    <3>. QED BY <1>2, <2>1, <2>3, <3>1
  <2>. QED BY <2>2, <2>4
<1>3. Seq(TradeRecord) \subseteq P
  <2>. HIDE DEF P
  <2>. QED BY <1>1, <1>2, SeqSetInduction
<1>. QED BY <1>3

(* The last trade of a feed in front of the trades behind it.               *)
LEMMA LastInFront ==
  ASSUME NEW f \in Seq(TradeRecord), f # <<>>, NEW batch \in Seq(TradeRecord)
  PROVE  \E e, b \in Seq(TradeRecord) :
           /\ f \o batch = e \o b /\ b # <<>> /\ Len(f) = Len(e) + 1
           /\ ToSet(e) \subseteq ToSet(f) /\ ToSet(batch) \subseteq ToSet(b)
<1>1. PICK e \in Seq(TradeRecord), l \in TradeRecord : f = Append(e, l)
  BY SplitLast
<1>2. <<l>> \in Seq(TradeRecord) /\ f = e \o <<l>>
  BY <1>1, AppendIsConcat, SequenceOfOneOrTwo
<1>3. PICK h \in Seq(TradeRecord) : h = <<l>>
  BY <1>2
<1>4. PICK b \in Seq(TradeRecord) : b = h \o batch
  BY ConcatAppend
<1>5. f \o batch = e \o b
  BY <1>2, <1>3, <1>4, ConcatAssociative
<1>6. b # <<>> /\ Len(f) = Len(e) + 1
  BY <1>1, <1>3, <1>4
<1>7. ToSet(b) = ToSet(h) \cup ToSet(batch)
  BY <1>4, ToSetConcat
<1>8. ToSet(f) = ToSet(e) \cup {l}
  BY <1>1, ToSetGrowth
<1>. QED BY <1>5, <1>6, <1>7, <1>8

(* The trades of an increment are the batch, or start with the tail of the  *)
(* feed before it.                                                         *)
LEMMA TailOfFeed ==
  ASSUME NEW f \in Seq(TradeRecord), f # <<>>, NEW batch \in Seq(TradeRecord), batch # <<>>,
         NEW first \in Len(f)..Len(f) + 1,
         NEW g \in Seq(TradeRecord), g = f \o batch, ByTime(g)
  PROVE  \E a, trades \in Seq(TradeRecord) :
           /\ trades = SubSeq(g, first, Len(g)) /\ g = a \o trades /\ ByTime(trades)
           /\ ToSet(a) \subseteq ToSet(f) /\ ToSet(batch) \subseteq ToSet(trades)
           /\ ToSet(trades) \subseteq ToSet(g)
<1>1. \E a, b \in Seq(TradeRecord) :
        /\ g = a \o b /\ b # <<>> /\ first = Len(a) + 1
        /\ ToSet(a) \subseteq ToSet(f) /\ ToSet(batch) \subseteq ToSet(b)
  <2>1. CASE first = Len(f) + 1
    BY <2>1
  <2>2. CASE first = Len(f)
    BY <2>2, LastInFront
  <2>3. Len(f) \in Nat
    OBVIOUS
  <2>4. first = Len(f) + 1 \/ first = Len(f)
    BY <2>3
  <2>. QED BY <2>1, <2>2, <2>4
<1>2. PICK a \in Seq(TradeRecord), b \in Seq(TradeRecord) :
        /\ g = a \o b /\ b # <<>> /\ first = Len(a) + 1
        /\ ToSet(a) \subseteq ToSet(f) /\ ToSet(batch) \subseteq ToSet(b)
  BY <1>1
<1>3. b = SubSeq(g, first, Len(g))
  BY <1>2, EndOfConcat
<1>4. ByTime(b)
  BY <1>2, EndByTime
<1>5. ToSet(b) \subseteq ToSet(g)
  BY <1>2, ToSetConcat
<1>. QED BY <1>2, <1>3, <1>4, <1>5

(* What an increment does to a feed that is not empty.                      *)
LEMMA FeedIncrement ==
  ASSUME Typed, Increment, feed # <<>>
  PROVE  \E a, batch, trades \in Seq(TradeRecord) :
           /\ batch # <<>> /\ feed' = feed \o batch /\ feed' = a \o trades
           /\ ToSet(a) \subseteq ToSet(feed) /\ ToSet(batch) \subseteq ToSet(trades)
           /\ ToSet(trades) \subseteq ToSet(feed')
           /\ ByTime(trades) /\ OnIncrement(trades)
<1>1. PICK batch \in Seq(TradeRecord) :
        /\ batch # <<>> /\ feed' = feed \o batch
        /\ \E first \in Len(feed)..Len(feed) + 1 : OnIncrement(SubSeq(feed', first, Len(feed')))
  BY IncrementIs
<1>2. PICK first \in Len(feed)..Len(feed) + 1 : OnIncrement(SubSeq(feed', first, Len(feed')))
  BY <1>1
<1>3. feed \in Seq(TradeRecord) /\ feed' \in Seq(TradeRecord) /\ ByTime(feed')
  BY IncrementIs DEF Typed
<1>4. PICK g \in Seq(TradeRecord) : g = feed'
  BY <1>3
<1>5. PICK a \in Seq(TradeRecord), trades \in Seq(TradeRecord) :
        /\ trades = SubSeq(g, first, Len(g)) /\ g = a \o trades /\ ByTime(trades)
        /\ ToSet(a) \subseteq ToSet(feed) /\ ToSet(batch) \subseteq ToSet(trades)
        /\ ToSet(trades) \subseteq ToSet(g)
  <2>1. batch # <<>> /\ g = feed \o batch /\ ByTime(g)
    BY <1>1, <1>3, <1>4
  <2>2. PICK f \in Seq(TradeRecord) : f = feed
    BY <1>3
  <2>3. \E a, trades \in Seq(TradeRecord) :
          /\ trades = SubSeq(g, first, Len(g)) /\ g = a \o trades /\ ByTime(trades)
          /\ ToSet(a) \subseteq ToSet(f) /\ ToSet(batch) \subseteq ToSet(trades)
          /\ ToSet(trades) \subseteq ToSet(g)
    <3>1. f # <<>> /\ g = f \o batch /\ first \in Len(f)..Len(f) + 1
      BY <2>1, <2>2
    <3>. QED BY <2>1, <3>1, TailOfFeed
  <2>. QED BY <2>2, <2>3
<1>. QED BY <1>1, <1>2, <1>4, <1>5

LEMMA PrefixConcat ==
  ASSUME NEW f \in Seq(TradeRecord), NEW b \in Seq(TradeRecord)
  PROVE  IsPrefix(f, f \o b)
<1>1. /\ f \o b \in Seq(TradeRecord) /\ Len(f) \in Nat /\ Len(f) <= Len(f \o b)
      /\ \A i \in 1..Len(f) : (f \o b)[i] = f[i]
  OBVIOUS
<1>. DEFINE g == f \o b
<1>. HIDE DEF g
<1>2. /\ SubSeq(f, 1, Len(f)) \in Seq(TradeRecord) /\ Len(SubSeq(f, 1, Len(f))) = Len(f)
      /\ SubSeq(g, 1, Len(f)) \in Seq(TradeRecord) /\ Len(SubSeq(g, 1, Len(f))) = Len(f)
      /\ \A i \in 1..Len(f) : SubSeq(f, 1, Len(f))[i] = f[i] /\ SubSeq(g, 1, Len(f))[i] = g[i]
  BY <1>1 DEF g
<1>3. SubSeq(f, 1, Len(f)) = SubSeq(g, 1, Len(f))
  BY <1>1, <1>2, SeqEqual DEF g
<1>. QED BY <1>1, <1>3 DEF IsPrefix, g

(* What comes behind a feed is not earlier than anything in it.            *)
LEMMA BeforeBatch ==
  ASSUME NEW a \in Seq(TradeRecord), NEW b \in Seq(TradeRecord), NEW g, g = a \o b, ByTime(g)
  PROVE  \A x \in ToSet(a), y \in ToSet(b) : x.time <= y.time
<1>. DEFINE n == Len(a)
            k == Len(b)
<1>1. /\ n \in Nat /\ k \in Nat /\ Len(g) = n + k
      /\ \A i \in 1..n + k : g[i] = IF i <= n THEN a[i] ELSE b[i - n]
  BY ConcatProperties
<1>2. ToSet(a) = {a[i] : i \in 1..n} /\ ToSet(b) = {b[i] : i \in 1..k}
  BY ToSetProperties
<1>. HIDE DEF n, k
<1>3. ASSUME NEW i \in 1..n, NEW j \in 1..k PROVE a[i].time <= b[j].time
  <2>1. i \in 1..n + k /\ n + j \in 1..n + k /\ i < n + j /\ i <= n /\ ~(n + j <= n) /\ (n + j) - n = j
    BY <1>1
  <2>2. g[i] = a[i] /\ g[n + j] = b[j]
    BY <1>1, <2>1
  <2>. QED BY <1>1, <2>1, <2>2 DEF ByTime
<1>. QED BY <1>2, <1>3

LEMMA CaughtInit == Init => Caught
BY DEF Init, Caught

LEMMA CaughtStep == Typed /\ Caught /\ [Next]_vars => Caught'
<1>. SUFFICES ASSUME Typed, Caught, [Next]_vars PROVE Caught'
  OBVIOUS
<1>0. series \in Series /\ now \in Int /\ feed \in Seq(TradeRecord)
  BY DEF Typed
<1>1. CASE Increment
  <2>1. now' = now /\ feed' \in Seq(TradeRecord) /\ feed' # <<>> /\ ByTime(feed')
    BY <1>1, IncrementIs
  <2>2. CASE feed = <<>>
    <3>1. feed' # <<>> /\ OnSnapshot(feed')
      BY <1>1, <2>2, IncrementIs
    <3>2. Boundary(series', now) /\ \A x \in ToSet(feed') : x.time <= series'.last
      BY <2>1, <3>1, SnapshotCounts
    <3>. QED BY <2>1, <3>2 DEF Caught, Boundary
  <2>3. CASE feed # <<>>
    <3>1. PICK a \in Seq(TradeRecord), batch \in Seq(TradeRecord), trades \in Seq(TradeRecord) :
            /\ batch # <<>> /\ feed' = feed \o batch /\ feed' = a \o trades
            /\ ToSet(a) \subseteq ToSet(feed) /\ ToSet(batch) \subseteq ToSet(trades)
            /\ ToSet(trades) \subseteq ToSet(feed')
            /\ ByTime(trades) /\ OnIncrement(trades)
      BY <1>1, <2>3, FeedIncrement
    <3>. DEFINE new == Unseen(trades, series.last)
    <3>2. /\ Boundary(series', now)
          /\ \/ series' = series /\ TooOld(Head(new), series, now) /\ Head(new) \in ToSet(trades)
             \/ \A x \in ToSet(trades) : x.time <= series'.last
      BY <2>3, <3>1, IncrementCounts
    <3>. HIDE DEF new
    <3>3. CASE series' = series /\ TooOld(Head(new), series, now) /\ Head(new) \in ToSet(trades)
      <4>1. TooOld(Head(new), series', now') /\ Head(new) \in ToSet(feed')
        BY <2>1, <3>1, <3>3
      <4>. QED BY <2>1, <3>2, <4>1 DEF Caught, Boundary, TooOld
    <3>4. CASE \A x \in ToSet(trades) : x.time <= series'.last
      <4>1. PICK z \in ToSet(batch) : z.time <= series'.last
        <5>1. PICK u \in Seq(TradeRecord), e \in TradeRecord : batch = Append(u, e)
          BY <3>1, SplitLast
        <5>2. e \in ToSet(batch)
          BY <5>1, ToSetGrowth
        <5>. QED BY <3>1, <3>4, <5>2
      <4>2. ToSet(feed') = ToSet(feed) \cup ToSet(batch)
        <5>1. \A f \in Seq(TradeRecord) : ToSet(f \o batch) = ToSet(f) \cup ToSet(batch)
          BY ToSetConcat
        <5>. QED BY <1>0, <3>1, <5>1
      <4>3. \A x \in ToSet(feed) : x.time <= z.time
        BY <1>0, <2>1, <3>1, BeforeBatch
      <4>4. series'.last \in Int /\ z.time \in Int /\ \A x \in ToSet(feed) : x.time \in Int
        <5>1. series' \in Series
          BY <2>3, <3>1, IncrementSeries
        <5>2. series'.last \in Instant
          BY <5>1 DEF Series
        <5>3. z.time \in Nat /\ \A x \in ToSet(feed) : x.time \in Nat
          BY <1>0, ToSetProperties, Numbers
        <5>4. series'.last \in Int
          BY <5>2, Numbers
        <5>. QED BY <5>3, <5>4
      <4>5. \A x \in ToSet(feed) : x.time <= series'.last
        BY <4>1, <4>3, <4>4
      <4>6. \A x \in ToSet(feed') : x.time <= series'.last
        BY <3>1, <3>4, <4>2, <4>5
      <4>. QED BY <2>1, <3>2, <4>6 DEF Caught, Boundary
    <3>. QED BY <3>2, <3>3, <3>4
  <2>. QED BY <2>2, <2>3
<1>2. CASE LateTrade
  <2>1. now' = now /\ feed' \in Seq(TradeRecord) /\ feed' # <<>> /\ ByTime(feed') /\ OnSnapshot(feed')
    BY <1>2, LateTradeIs
  <2>2. Boundary(series', now) /\ \A x \in ToSet(feed') : x.time <= series'.last
    BY <2>1, SnapshotCounts
  <2>. QED BY <2>1, <2>2 DEF Caught, Boundary
<1>3. CASE DoUpdate
  <2>1. now' = now /\ feed' = feed /\ series' = AdvanceTo(series, now)
    BY <1>3 DEF DoUpdate
  <2>2. ASSUME feed # <<>> PROVE Boundary(series', now) /\ series'.last = series.last
    <3>1. series.anchor # NoTime /\ Boundary(series, now)
      BY <2>2 DEF Typed, Caught
    <3>. QED BY <1>0, <2>1, <3>1, AdvanceKeepsBoundary DEF Boundary
  <2>. QED BY <2>1, <2>2 DEF Caught, Boundary, TooOld
<1>4. CASE Tick
  <2>1. now' = now + 1 /\ feed' = feed /\ series' = series
    BY <1>4 DEF Tick
  <2>2. PeriodStart(now) <= PeriodStart(now') /\ PeriodStart(now) \in Int /\ PeriodStart(now') \in Int
    <3>1. now + 1 \in Int /\ now <= now + 1
      BY <1>0
    <3>2. PeriodStart(now) <= PeriodStart(now + 1)
      BY <1>0, <3>1, PeriodsInOrder
    <3>3. \A n \in Int : PeriodStart(n) \in Int
      BY PeriodStartIs
    <3>. QED BY <1>0, <2>1, <3>1, <3>2, <3>3
  <2>3. ASSUME feed # <<>>
        PROVE  /\ Boundary(series, now')
               /\ \A x \in ToSet(feed) : TooOld(x, series, now) => TooOld(x, series, now')
    <3>1. Boundary(series, now) /\ NextBoundary(series) \in Int
      BY <1>0, <2>3, AdvanceToIs DEF Caught, Typed
    <3>2. \A x \in ToSet(feed) : x.time \in Nat /\ Duration \in Nat
      BY <1>0, ToSetProperties, Numbers
    <3>. QED BY <2>2, <3>1, <3>2 DEF Boundary, TooOld
  <2>. QED BY <2>1, <2>3 DEF Caught, Boundary, TooOld
<1>5. CASE UNCHANGED vars
  BY <1>5 DEF vars, Caught, Boundary, TooOld
<1>. QED BY <1>1, <1>2, <1>3, <1>4, <1>5 DEF Next

LEMMA CaughtInvariant == Spec => [](Typed /\ Caught)
<1>1. Init => Typed /\ Caught
  BY TypedInit, CaughtInit
<1>2. Typed /\ Caught /\ [Next]_vars => (Typed /\ Caught)'
  BY TypedStep, CaughtStep
<1>. QED BY <1>1, <1>2, PTL DEF Spec

(* An increment counts exactly its trades that are later than the last one  *)
(* seen, unless the first of them is from before the previous period; a     *)
(* snapshot counts everything (quote_scratcher.hpp:223-229).                *)
THEOREM EveryTradeCounted == Spec => CountsWhatItGets
<1>. DEFINE new == Unseen(feed', series.last)
            gained == Volume(Append(series'.closed, series'.active)) - Volume(Candles)
            Counts == feed' # feed =>
              IF feed # <<>> /\ IsPrefix(feed, feed')
              THEN new # <<>> /\ Head(new).time >= PeriodStart(now) - Duration => gained = Traded(new)
              ELSE gained = Traded(feed') - Volume(Candles)
<1>1. ASSUME Typed, Caught, [Next]_vars PROVE [Counts]_vars
  <2>. SUFFICES ASSUME Next, feed' # feed PROVE Counts
    BY <1>1
  <2>0. gained = VolumeOf(series') - VolumeOf(series) /\ Volume(Candles) = VolumeOf(series)
    BY DEF VolumeOf, Candles
  <2>1. series \in Series /\ VolumeOf(series) \in Nat /\ feed \in Seq(TradeRecord) /\ now \in Int
    BY <1>1, VolumeOfIs DEF Typed
  <2>2. CASE Increment /\ feed = <<>>
    <3>1. feed' \in Seq(TradeRecord) /\ feed' # <<>> /\ ByTime(feed') /\ OnSnapshot(feed')
      BY <1>1, <2>2, IncrementIs
    <3>2. VolumeOf(series') = Traded(feed')
      BY <1>1, <3>1, SnapshotCounts
    <3>. QED BY <2>0, <2>2, <3>2
  <2>3. CASE LateTrade
    <3>1. /\ feed' \in Seq(TradeRecord) /\ feed' # <<>> /\ ByTime(feed') /\ OnSnapshot(feed')
          /\ ~IsPrefix(feed, feed')
      BY <1>1, <2>3, LateTradeIs
    <3>2. VolumeOf(series') = Traded(feed')
      BY <1>1, <3>1, SnapshotCounts
    <3>. QED BY <2>0, <3>1, <3>2
  <2>4. CASE Increment /\ feed # <<>>
    <3>1. PICK a \in Seq(TradeRecord), batch \in Seq(TradeRecord), trades \in Seq(TradeRecord) :
            /\ batch # <<>> /\ feed' = feed \o batch /\ feed' = a \o trades
            /\ ToSet(a) \subseteq ToSet(feed) /\ ToSet(batch) \subseteq ToSet(trades)
            /\ ToSet(trades) \subseteq ToSet(feed')
            /\ ByTime(trades) /\ OnIncrement(trades)
      BY <1>1, <2>4, FeedIncrement
    <3>2. IsPrefix(feed, feed')
      BY <2>1, <3>1, PrefixConcat
    <3>3. feed' \in Seq(TradeRecord) /\ ByTime(feed')
      BY <1>1, <2>4, IncrementIs
    <3>4. ASSUME new # <<>>, Head(new).time >= PeriodStart(now) - Duration
          PROVE  gained = Traded(new)
      <4>1. \A x \in ToSet(feed) : x.time <= series.last
        <5>1. ASSUME NEW x \in ToSet(feed), TooOld(x, series, now) PROVE FALSE
          <6>1. ToSet(feed') = ToSet(feed) \cup ToSet(batch)
            <7>1. \A f \in Seq(TradeRecord) : ToSet(f \o batch) = ToSet(f) \cup ToSet(batch)
              BY ToSetConcat
            <7>. QED BY <2>1, <3>1, <7>1
          <6>2. x \in ToSet(new) /\ new \in Seq(TradeRecord) /\ ByTime(new)
            <7>1. \A f \in Seq(TradeRecord) :
                    /\ ToSet(Unseen(f, series.last)) = ToSet(f) \cap {t \in ToSet(f) : t.time > series.last}
                    /\ Unseen(f, series.last) \in Seq(TradeRecord)
                    /\ ByTime(f) => ByTime(Unseen(f, series.last))
              BY OnlyToSet, OnlyIsSeq, OnlyByTime DEF Unseen
            <7>2. /\ ToSet(new) = ToSet(feed') \cap {t \in ToSet(feed') : t.time > series.last}
                  /\ new \in Seq(TradeRecord) /\ ByTime(new)
              BY <3>3, <7>1
            <7>. HIDE DEF new
            <7>. QED BY <5>1, <6>1, <7>2 DEF TooOld
          <6>. HIDE DEF new
          <6>3. Head(new).time <= x.time /\ Head(new).time \in Nat
            BY <3>4, <6>2, HeadAndLast, LastIsTime
          <6>4. x.time \in Nat /\ PeriodStart(now) \in Int /\ Duration \in Nat
            BY <2>1, ToSetProperties, Numbers, PeriodStartIs
          <6>. QED BY <3>4, <5>1, <6>3, <6>4 DEF TooOld
        <5>. QED BY <1>1, <2>4, <5>1 DEF Caught
      <4>2. \A x \in ToSet(a) : ~(x.time > series.last)
        <5>1. series.last \in Instant
          BY <2>1 DEF Series
        <5>2. series.last \in Int /\ \A x \in ToSet(a) : x.time \in Nat
          BY <5>1, ToSetProperties, Numbers
        <5>. QED BY <3>1, <4>1, <5>2
      <4>3. new = Unseen(trades, series.last)
        BY <3>1, <4>2, UnseenAfter, SMTT(30)
      <4>. HIDE DEF new
      <4>4. \/ /\ new # <<>> /\ TooOld(Head(new), series, now)
            \/ VolumeOf(series') = VolumeOf(series) + Traded(new)
        BY <1>1, <2>4, <3>1, <4>3, IncrementCounts
      <4>5. new \in Seq(TradeRecord)
        BY <4>3, OnlyIsSeq DEF Unseen
      <4>6. Head(new).time \in Nat /\ PeriodStart(now) \in Int /\ Duration \in Nat /\ Traded(new) \in Nat
        BY <2>1, <3>4, <4>5, LastIsTime, Numbers, PeriodStartIs, TradedIs
      <4>. HIDE DEF gained
      <4>. QED BY <2>0, <2>1, <3>4, <4>4, <4>6 DEF TooOld
    <3>. HIDE DEF new, gained
    <3>. QED BY <2>4, <3>2, <3>4
  <2>5. CASE DoUpdate \/ Tick
    BY <2>5 DEF DoUpdate, Tick
  <2>. QED BY <2>2, <2>3, <2>4, <2>5 DEF Next
<1>. QED BY <1>1, CaughtInvariant, PTL DEF Spec, CountsWhatItGets

-----------------------------------------------------------------------------
(* Which trades a candle counts.  The definitions of CandleChart's Explained, *)
(* for any feed and any series.                                            *)

HomeIn(s, t) == (t.time - s.anchor) \div Duration + 1

CandlesOf(s) == Append(s.closed, s.active)

Positions(f) == [j \in DOMAIN f |-> j]

Placed(f, s, delay, i) == {j \in DOMAIN f : delay[j] # -1 /\ HomeIn(s, f[j]) + delay[j] = i}

Mine(f, s, delay, i) == Only(Positions(f), Placed(f, s, delay, i))

Picked(f, positions) == [k \in DOMAIN positions |-> f[positions[k]]]

TradesOf(f, s, delay, i) == Picked(f, Mine(f, s, delay, i))

(* A delay for one trade more.                                             *)
Extended(delay, n, v) == [j \in 1..(n + 1) |-> IF j = n + 1 THEN v ELSE delay[j]]

Delays == {-1, 0, 1}

LEMMA PositionsAppend ==
  ASSUME NEW f \in Seq(TradeRecord), NEW t \in TradeRecord
  PROVE  /\ Positions(f) \in Seq(Nat) /\ ToSet(Positions(f)) = 1..Len(f)
         /\ Positions(Append(f, t)) = Append(Positions(f), Len(f) + 1)
<1>. DEFINE n == Len(f)
            g == Append(f, t)
            p == Positions(f)
            q == Positions(g)
<1>1. n \in Nat /\ DOMAIN f = 1..n /\ DOMAIN g = 1..(n + 1)
  OBVIOUS
<1>. HIDE DEF n, g
<1>2. p \in Seq(Nat) /\ Len(p) = n /\ \A j \in 1..n : p[j] = j
  BY <1>1 DEF Positions
<1>3. q \in Seq(Nat) /\ Len(q) = n + 1 /\ \A j \in 1..(n + 1) : q[j] = j
  BY <1>1 DEF Positions
<1>. HIDE DEF p, q
<1>4. q = Append(p, n + 1)
  <2>1. n + 1 \in Nat /\ q[n + 1] = n + 1 /\ \A j \in 1..n : q[j] = p[j]
    BY <1>1, <1>2, <1>3
  <2>. QED BY <1>1, <1>2, <1>3, <2>1, AppendedIs
<1>5. ToSet(p) = 1..n
  <2>1. ToSet(p) = {p[j] : j \in 1..n}
    BY <1>2, ToSetProperties
  <2>. QED BY <1>2, <2>1
<1>. QED BY <1>2, <1>4, <1>5 DEF p, q, n, g

LEMMA FunctionIsSeq ==
  ASSUME NEW S, NEW n \in Nat, NEW h \in [1..n -> S]
  PROVE  h \in Seq(S) /\ Len(h) = n
OBVIOUS

(* The positions of a candle's trades, and which of them a new trade joins. *)
LEMMA MineAppend ==
  ASSUME NEW f \in Seq(TradeRecord), NEW t \in TradeRecord, NEW s,
         NEW delay \in [1..Len(f) -> Delays], NEW v \in Delays, NEW i \in Int
  PROVE  LET m == Mine(f, s, delay, i)
         IN /\ m \in Seq(Nat) /\ ToSet(m) = Placed(f, s, delay, i)
            /\ Mine(Append(f, t), s, Extended(delay, Len(f), v), i)
                 = IF v # -1 /\ HomeIn(s, t) + v = i THEN Append(m, Len(f) + 1) ELSE m
<1>. DEFINE n == Len(f)
            g == Append(f, t)
            e == Extended(delay, n, v)
            P == Placed(f, s, delay, i)
            Q == Placed(g, s, e, i)
<1>1. /\ n \in Nat /\ DOMAIN f = 1..n /\ DOMAIN g = 1..(n + 1) /\ g[n + 1] = t
      /\ \A j \in 1..n : g[j] = f[j]
  OBVIOUS
<1>2. /\ Positions(f) \in Seq(Nat) /\ ToSet(Positions(f)) = 1..n
      /\ Positions(g) = Append(Positions(f), n + 1)
  BY PositionsAppend
<1>. HIDE DEF n, g
<1>3. e[n + 1] = v /\ \A j \in 1..n : e[j] = delay[j]
  BY <1>1 DEF Extended
<1>. HIDE DEF e
<1>4. P \subseteq 1..n /\ Q \cap (1..n) = P
  BY <1>1, <1>3 DEF Placed
<1>5. n + 1 \in Q <=> (v # -1 /\ HomeIn(s, t) + v = i)
  BY <1>1, <1>3 DEF Placed
<1>6. /\ Only(Positions(f), P) \in Seq(Nat) /\ ToSet(Only(Positions(f), P)) = P
  <2>1. \A S : Only(Positions(f), S) \in Seq(Nat) /\ ToSet(Only(Positions(f), S)) = ToSet(Positions(f)) \cap S
    BY <1>2, OnlyIsSeq, OnlyToSet
  <2>. HIDE DEF P
  <2>2. Only(Positions(f), P) \in Seq(Nat) /\ ToSet(Only(Positions(f), P)) = ToSet(Positions(f)) \cap P
    BY <2>1, Zenon
  <2>3. (1..n) \cap P = P
    BY <1>4
  <2>. QED BY <1>2, <2>2, <2>3, Zenon
<1>. HIDE DEF P, Q
<1>7. Only(Positions(f), Q) = Only(Positions(f), P)
  <2>1. ToSet(Positions(f)) \cap Q = ToSet(Positions(f)) \cap P
    BY <1>2, <1>4
  <2>. QED BY <1>2, <2>1, OnlySame
<1>8. Only(Positions(g), Q) = IF n + 1 \in Q THEN Append(Only(Positions(f), Q), n + 1) ELSE Only(Positions(f), Q)
  <2>1. n + 1 \in Nat
    BY <1>1
  <2>2. PICK N : N = Nat
    OBVIOUS
  <2>3. PICK u \in Seq(N), e1 \in N : u = Positions(f) /\ e1 = n + 1
    BY <1>2, <2>1, <2>2
  <2>. HIDE <2>2
  <2>4. Only(Append(u, e1), Q) = IF e1 \in Q THEN Append(Only(u, Q), e1) ELSE Only(u, Q)
    BY OnlyAppend
  <2>. QED BY <1>2, <2>3, <2>4, Zenon
<1>. QED BY <1>5, <1>6, <1>7, <1>8 DEF Mine, P, Q, e, n, g

LEMMA PickedAppend ==
  ASSUME NEW f \in Seq(TradeRecord), NEW t \in TradeRecord,
         NEW m \in Seq(Nat), ToSet(m) \subseteq 1..Len(f)
  PROVE  /\ Picked(f, m) \in Seq(TradeRecord) /\ (Picked(f, m) = <<>> <=> m = <<>>)
         /\ Picked(Append(f, t), m) = Picked(f, m)
         /\ Picked(Append(f, t), Append(m, Len(f) + 1)) = Append(Picked(f, m), t)
<1>. DEFINE n == Len(f)
            g == Append(f, t)
            k == Len(m)
            r == Append(m, n + 1)
            p == Picked(f, m)
            q == Picked(g, r)
<1>1. /\ n \in Nat /\ g[n + 1] = t /\ \A j \in 1..n : g[j] = f[j] /\ f[j] \in TradeRecord
      /\ k \in Nat /\ DOMAIN m = 1..k /\ DOMAIN r = 1..(k + 1) /\ r[k + 1] = n + 1
      /\ \A j \in 1..k : r[j] = m[j]
  OBVIOUS
<1>2. \A j \in 1..k : m[j] \in 1..n
  BY <1>1, ToSetProperties
<1>. HIDE DEF n, g, k, r
<1>3. p \in Seq(TradeRecord) /\ Len(p) = k /\ \A j \in 1..k : p[j] = f[m[j]]
  BY <1>1, <1>2 DEF Picked
<1>4. Picked(g, m) = p
  BY <1>1, <1>2 DEF Picked
<1>5. q \in Seq(TradeRecord) /\ Len(q) = k + 1 /\ q[k + 1] = t /\ \A j \in 1..k : q[j] = f[m[j]]
  <2>1. \A j \in 1..(k + 1) : g[r[j]] \in TradeRecord
    <3>1. \A j \in 1..k : g[r[j]] \in TradeRecord
      BY <1>1, <1>2
    <3>2. \A j \in 1..(k + 1) : j \in 1..k \/ j = k + 1
      BY <1>1
    <3>. QED BY <1>1, <3>1, <3>2
  <2>2. q = [j \in 1..(k + 1) |-> g[r[j]]]
    BY <1>1 DEF Picked
  <2>3. k + 1 \in Nat /\ k + 1 \in 1..(k + 1) /\ \A j \in 1..k : j \in 1..(k + 1)
    BY <1>1
  <2>4. q \in Seq(TradeRecord) /\ Len(q) = k + 1
    <3>1. q \in [1..(k + 1) -> TradeRecord]
      BY <2>1, <2>2
    <3>. HIDE DEF q
    <3>2. PICK l \in Nat : l = k + 1
      BY <2>3
    <3>3. q \in [1..l -> TradeRecord]
      BY <3>1, <3>2, Zenon
    <3>4. q \in Seq(TradeRecord) /\ Len(q) = l
      BY <3>3, FunctionIsSeq
    <3>. QED BY <3>2, <3>4
  <2>5. \A j \in 1..k : q[j] = f[m[j]]
    BY <1>1, <1>2, <2>2, <2>3
  <2>6. q[k + 1] = t
    BY <1>1, <2>2, <2>3
  <2>. QED BY <2>4, <2>5, <2>6
<1>. HIDE DEF p, q
<1>6. q = Append(p, t)
  BY <1>1, <1>3, <1>5, AppendedIs
<1>7. p = <<>> <=> m = <<>>
  <2>1. p = <<>> <=> k = 0
    BY <1>3, EmptySeq
  <2>2. m = <<>> <=> k = 0
    BY EmptySeq DEF k
  <2>. QED BY <2>1, <2>2
<1>. QED BY <1>3, <1>4, <1>6, <1>7 DEF p, q, r, n, g

(* The trades of a candle, and whether a new trade joins them.             *)
LEMMA TradesAppend ==
  ASSUME NEW f \in Seq(TradeRecord), NEW t \in TradeRecord, NEW s,
         NEW delay \in [1..Len(f) -> Delays], NEW v \in Delays, NEW i \in Int
  PROVE  LET q == TradesOf(f, s, delay, i)
         IN /\ q \in Seq(TradeRecord) /\ (q = <<>> <=> Placed(f, s, delay, i) = {})
            /\ q = <<>> <=> Mine(f, s, delay, i) = <<>>
            /\ TradesOf(Append(f, t), s, Extended(delay, Len(f), v), i)
                 = IF v # -1 /\ HomeIn(s, t) + v = i THEN Append(q, t) ELSE q
<1>. DEFINE n == Len(f)
            g == Append(f, t)
            m == Mine(f, s, delay, i)
            e == Extended(delay, n, v)
            joins == v # -1 /\ HomeIn(s, t) + v = i
<1>1. /\ m \in Seq(Nat) /\ ToSet(m) = Placed(f, s, delay, i)
      /\ Mine(g, s, e, i) = IF joins THEN Append(m, n + 1) ELSE m
  BY MineAppend
<1>2. ToSet(m) \subseteq 1..n
  <2>1. DOMAIN f = 1..n
    OBVIOUS
  <2>. HIDE DEF m
  <2>. QED BY <1>1, <2>1 DEF Placed
<1>. HIDE DEF m
<1>3. /\ Picked(f, m) \in Seq(TradeRecord) /\ (Picked(f, m) = <<>> <=> m = <<>>)
      /\ Picked(g, m) = Picked(f, m)
      /\ Picked(g, Append(m, n + 1)) = Append(Picked(f, m), t)
  BY <1>1, <1>2, PickedAppend
<1>4. m = <<>> <=> ToSet(m) = {}
  <2>1. m = <<>> => ToSet(m) = {}
    BY DEF ToSet
  <2>2. ASSUME m # <<>> PROVE ToSet(m) # {}
    <3>1. m[1] \in ToSet(m)
      BY <1>1, <2>2, ToSetProperties
    <3>. QED BY <3>1
  <2>. QED BY <2>1, <2>2
<1>. HIDE DEF n, g, e, joins
<1>. QED BY <1>1, <1>3, <1>4 DEF TradesOf, m, n, g, e, joins

-----------------------------------------------------------------------------
(* What a candle says of the trades it counts.                             *)

(* The candles of a series by position, the last one active.               *)
CandleAt(s, i) == IF i <= Len(s.closed) THEN s.closed[i] ELSE s.active

(* A candle tells of its trades, or of none.                                *)
Told(s, i, trades) ==
  \/ trades # <<>> /\ Summarises(CandleAt(s, i), trades)
  \/ trades = <<>> /\ i > 1 /\ CandleAt(s, i) = EmptyCandle(CandleAt(s, i - 1).close)

(* Trades are counted in candles there are, and only those already seen.    *)
Counted(f, s, delay) ==
  /\ delay \in [1..Len(f) -> Delays]
  /\ \A j \in 1..Len(f) : delay[j] # -1 =>
       HomeIn(s, f[j]) + delay[j] \in 1..Len(s.closed) + 1 /\ f[j].time <= s.last

Explains(f, s, delay) ==
  /\ Counted(f, s, delay)
  /\ \A i \in 1..Len(s.closed) + 1 : Told(s, i, TradesOf(f, s, delay, i))

(* A candle that is opened summarises the trade that opens it; a trade more *)
(* keeps the summary true, the mean by MeanBetween.                         *)
LEMMA SummaryOfOne ==
  ASSUME NEW c \in CandleRecord, c.volume = 0, NEW t \in TradeRecord
  PROVE  Summarises(AddTrade(c, t), <<t>>)
<1>. DEFINE d == AddTrade(c, t)
<1>1. d.volume = t.size /\ d.close = t.price /\ d.min = t.price /\ d.max = t.price /\ d.mean = t.price
  <2>1. /\ d.volume = c.volume + t.size /\ d.close = t.price
        /\ d.min = t.price /\ d.max = t.price /\ d.mean = t.price
    BY AddTradeIs
  <2>. HIDE DEF d
  <2>. QED BY <2>1, Numbers
<1>2. t.price \in Nat /\ t.size \in Nat
  BY Numbers
<1>3. Traded(<<t>>) = t.size
  <2>1. <<>> \in Seq(TradeRecord) /\ <<t>> = Append(<<>>, t)
    OBVIOUS
  <2>2. Traded(Append(<<>>, t)) = 0 + t.size
    BY <2>1, TradedIs
  <2>. QED BY <1>2, <2>1, <2>2
<1>4. Last(<<t>>) = t /\ ToSet(<<t>>) = {t}
  BY DEF Last, ToSet
<1>. HIDE DEF d
<1>5. d.close = Last(<<t>>).price /\ {d.min, d.max} \subseteq {u.price : u \in ToSet(<<t>>)}
      /\ \A u \in ToSet(<<t>>) : d.min <= u.price /\ u.price <= d.max
  BY <1>1, <1>2, <1>4
<1>. QED BY <1>1, <1>2, <1>3, <1>5 DEF Summarises, d

LEMMA SummaryOfMore ==
  ASSUME NEW c \in CandleRecord, NEW q \in Seq(TradeRecord), q # <<>>, Summarises(c, q),
         NEW t \in TradeRecord
  PROVE  Summarises(AddTrade(c, t), Append(q, t))
<1>. DEFINE d == AddTrade(c, t)
            r == Append(q, t)
<1>1. /\ c.volume = Traded(q) /\ {c.min, c.max} \subseteq {u.price : u \in ToSet(q)}
      /\ \A u \in ToSet(q) : c.min <= u.price /\ u.price <= c.max
      /\ c.min <= c.mean /\ c.mean <= c.max
  BY DEF Summarises
<1>2. /\ t.price \in Nat /\ t.size \in Nat /\ c.min \in Nat /\ c.max \in Nat
      /\ \A u \in TradeRecord : u.price \in Nat
  BY Numbers
<1>3. c.volume # 0
  <2>1. PICK u \in Seq(TradeRecord), e \in TradeRecord : q = Append(u, e)
    BY SplitLast
  <2>2. Traded(u) \in Nat /\ Traded(Append(u, e)) = Traded(u) + e.size
    BY TradedIs
  <2>3. e.size \in Nat /\ e.size > 0
    BY Numbers
  <2>. QED BY <1>1, <2>1, <2>2, <2>3
<1>4. /\ d.volume = c.volume + t.size /\ d.close = t.price
      /\ d.min \in {c.min, t.price} /\ d.min <= c.min /\ d.min <= t.price
      /\ d.max \in {c.max, t.price} /\ c.max <= d.max /\ t.price <= d.max
      /\ d.min <= d.mean /\ d.mean <= d.max
  BY <1>1, <1>3, AddTradeIs
<1>5. Traded(r) = Traded(q) + t.size /\ ToSet(r) = ToSet(q) \cup {t} /\ ToSet(q) \subseteq TradeRecord
  BY TradedIs, ToSetGrowth, ToSetProperties
<1>6. Last(r) = t
  BY DEF Last
<1>. HIDE DEF d, r
<1>7. {d.min, d.max} \subseteq {u.price : u \in ToSet(r)}
  <2>1. c.min \in {u.price : u \in ToSet(r)} /\ c.max \in {u.price : u \in ToSet(r)}
        /\ t.price \in {u.price : u \in ToSet(r)}
    BY <1>1, <1>5
  <2>. QED BY <1>4, <2>1
<1>8. ASSUME NEW u \in ToSet(r) PROVE d.min <= u.price /\ u.price <= d.max
  <2>1. CASE u = t
    BY <1>4, <2>1
  <2>2. CASE u \in ToSet(q)
    <3>1. c.min <= u.price /\ u.price <= c.max /\ u.price \in Nat
      BY <1>1, <1>2, <1>5, <2>2
    <3>2. d.min \in Nat /\ d.max \in Nat
      BY <1>2, <1>4
    <3>. QED BY <1>2, <1>4, <3>1, <3>2
  <2>. QED BY <1>5, <2>1, <2>2
<1>. QED BY <1>1, <1>4, <1>5, <1>6, <1>7, <1>8 DEF Summarises, d, r

LEMMA TradesIs ==
  ASSUME NEW f \in Seq(TradeRecord), NEW t \in TradeRecord, NEW s,
         NEW delay \in [1..Len(f) -> Delays], NEW i \in Int
  PROVE  /\ TradesOf(f, s, delay, i) \in Seq(TradeRecord)
         /\ TradesOf(f, s, delay, i) = <<>> <=> Placed(f, s, delay, i) = {}
         /\ TradesOf(f, s, delay, i) = <<>> <=> Mine(f, s, delay, i) = <<>>
<1>1. -1 \in Delays
  BY DEF Delays
<1>2. /\ TradesOf(f, s, delay, i) \in Seq(TradeRecord)
      /\ TradesOf(f, s, delay, i) = <<>> <=> Placed(f, s, delay, i) = {}
  BY <1>1, TradesAppend
<1>3. TradesOf(f, s, delay, i) = <<>> <=> Mine(f, s, delay, i) = <<>>
  <2>0. PICK v \in Delays : TRUE
    BY <1>1
  <2>. DEFINE m == Mine(f, s, delay, i)
  <2>1. m \in Seq(Nat) /\ ToSet(m) = Placed(f, s, delay, i)
    BY MineAppend
  <2>2. ToSet(m) \subseteq 1..Len(f)
    <3>1. DOMAIN f = 1..Len(f)
      OBVIOUS
    <3>. HIDE DEF m
    <3>. QED BY <2>1, <3>1 DEF Placed
  <2>. HIDE DEF m
  <2>3. Picked(f, m) = <<>> <=> m = <<>>
    BY <2>1, <2>2, PickedAppend
  <2>. QED BY <2>3 DEF TradesOf, m
<1>. QED BY <1>2, <1>3

(* Only the anchor of a series says where a trade belongs.                 *)
LEMMA SameAnchor ==
  ASSUME NEW f, NEW s, NEW r, r.anchor = s.anchor, NEW delay, NEW i
  PROVE  /\ TradesOf(f, r, delay, i) = TradesOf(f, s, delay, i)
         /\ \A t : HomeIn(r, t) = HomeIn(s, t)
<1>1. \A t : HomeIn(r, t) = HomeIn(s, t)
  BY DEF HomeIn
<1>2. Placed(f, r, delay, i) = Placed(f, s, delay, i)
  BY <1>1 DEF Placed
<1>. QED BY <1>1, <1>2 DEF TradesOf, Mine

LEMMA HomeIs ==
  ASSUME NEW s \in Series, NEW t \in TradeRecord
  PROVE  HomeIn(s, t) \in Int
<1>1. t.time \in Int /\ s.anchor \in Int
  BY Numbers DEF Series
<1>2. t.time - s.anchor \in Int
  BY <1>1
<1>. QED BY <1>2, DivisionIs DEF HomeIn

(* The candles behind a series that is closed by the clock.                *)
LEMMA RollCandles ==
  ASSUME NEW s \in Series, s.price = s.active.close, NEW n \in Int
  PROVE  LET r == Roll(s, n)
             l == Len(s.closed)
         IN /\ l \in Nat /\ Len(r.closed) \in Nat /\ l <= Len(r.closed)
            /\ r.price = r.active.close /\ r.price = s.price
            /\ \A i \in 1..l + 1 : CandleAt(r, i) = CandleAt(s, i)
            /\ \A i \in l + 2..Len(r.closed) + 1 :
                 CandleAt(r, i) = EmptyCandle(CandleAt(r, i - 1).close)
<1>. DEFINE r == Roll(s, n)
            l == Len(s.closed)
            e == EmptyCandle(s.price)
<1>1. /\ l \in Nat /\ r \in Series /\ r.price = s.price
      /\ n <= 0 => r = s
      /\ n > 0 =>
           /\ Len(r.closed) = l + n /\ r.active = e
           /\ \A i \in 1..l + n : r.closed[i] = IF i <= l THEN s.closed[i]
                                                ELSE IF i = l + 1 THEN s.active ELSE e
  <2>1. l \in Nat
    BY DEF Series
  <2>. QED BY <2>1, RollIs
<1>2. e.close = s.price
  BY DEF EmptyCandle
<1>. HIDE DEF r, e, l
<1>3. CASE n <= 0
  <2>1. r = s /\ Len(r.closed) = l
    BY <1>1, <1>3 DEF l
  <2>2. l + 2..l + 1 = {}
    BY <1>1
  <2>. QED BY <1>1, <2>1, <2>2 DEF r, l
<1>4. CASE n > 0
  <2>1. /\ Len(r.closed) = l + n /\ r.active = e
        /\ \A i \in 1..l + n : r.closed[i] = IF i <= l THEN s.closed[i]
                                             ELSE IF i = l + 1 THEN s.active ELSE e
    BY <1>1, <1>4
  <2>2. ASSUME NEW i \in 1..l + 1 PROVE CandleAt(r, i) = CandleAt(s, i)
    <3>1. i \in 1..l + n /\ i <= Len(r.closed) /\ (i <= l \/ (i = l + 1 /\ ~(i <= l)))
      BY <1>1, <1>4, <2>1
    <3>. QED BY <2>1, <3>1 DEF CandleAt, l
  <2>3. ASSUME NEW i \in l + 2..l + n + 1 PROVE CandleAt(r, i) = e /\ CandleAt(r, i - 1).close = s.price
    <3>1. CandleAt(r, i) = e
      <4>1. CASE i <= l + n
        <5>1. i \in 1..l + n /\ ~(i <= l) /\ i # l + 1
          BY <1>1, <4>1
        <5>. QED BY <2>1, <4>1, <5>1 DEF CandleAt
      <4>2. CASE ~(i <= l + n)
        BY <2>1, <4>2 DEF CandleAt
      <4>. QED BY <4>1, <4>2
    <3>2. CASE i = l + 2
      <4>1. i - 1 \in 1..l + 1 /\ i - 1 = l + 1 /\ ~(l + 1 <= l)
        BY <1>1, <3>2
      <4>2. CandleAt(r, i - 1) = s.active
        BY <2>2, <4>1 DEF CandleAt, l
      <4>. QED BY <3>1, <4>2
    <3>3. CASE i # l + 2
      <4>1. i - 1 \in 1..l + n /\ ~(i - 1 <= l) /\ i - 1 # l + 1 /\ i - 1 <= l + n
        BY <1>1, <3>3
      <4>2. CandleAt(r, i - 1) = e
        BY <2>1, <4>1 DEF CandleAt
      <4>. QED BY <1>2, <3>1, <4>2
    <3>. QED BY <3>2, <3>3
  <2>4. Len(r.closed) \in Nat /\ l <= Len(r.closed) /\ r.price = r.active.close
    BY <1>1, <1>2, <1>4, <2>1
  <2>5. \A i \in l + 2..Len(r.closed) + 1 : CandleAt(r, i) = EmptyCandle(CandleAt(r, i - 1).close)
    BY <2>1, <2>3 DEF e
  <2>. QED BY <1>1, <2>2, <2>4, <2>5 DEF r, l
<1>. QED BY <1>3, <1>4

(* Closing candles leaves every trade where it is counted.                  *)
LEMMA RollExplains ==
  ASSUME NEW s \in Series, s.price = s.active.close, NEW n \in Int,
         NEW f \in Seq(TradeRecord), NEW t \in TradeRecord, NEW delay, Explains(f, s, delay)
  PROVE  Explains(f, Roll(s, n), delay)
<1>. DEFINE r == Roll(s, n)
            l == Len(s.closed)
            m == Len(r.closed)
<1>1. /\ l \in Nat /\ m \in Nat /\ l <= m
      /\ \A i \in 1..l + 1 : CandleAt(r, i) = CandleAt(s, i)
      /\ \A i \in l + 2..m + 1 : CandleAt(r, i) = EmptyCandle(CandleAt(r, i - 1).close)
  BY RollCandles
<1>2. r.anchor = s.anchor /\ r.last = s.last
  BY RollIs
<1>3. /\ delay \in [1..Len(f) -> Delays]
      /\ \A j \in 1..Len(f) : delay[j] # -1 =>
           HomeIn(s, f[j]) + delay[j] \in 1..l + 1 /\ f[j].time <= s.last
      /\ \A i \in 1..l + 1 : Told(s, i, TradesOf(f, s, delay, i))
  BY DEF Explains, Counted
<1>. HIDE DEF r, l, m
<1>4. \A i : TradesOf(f, r, delay, i) = TradesOf(f, s, delay, i)
  BY <1>2, SameAnchor
<1>5. \A u : HomeIn(r, u) = HomeIn(s, u)
  BY <1>2, SameAnchor
<1>6. 1..l + 1 \subseteq 1..m + 1
  BY <1>1
<1>7. ASSUME NEW i \in 1..m + 1 PROVE Told(r, i, TradesOf(f, r, delay, i))
  <2>1. CASE i \in 1..l + 1
    <3>1. CandleAt(r, i) = CandleAt(s, i) /\ Told(s, i, TradesOf(f, s, delay, i))
      BY <1>1, <1>3, <2>1
    <3>2. i > 1 => CandleAt(r, i - 1) = CandleAt(s, i - 1)
      <4>1. i > 1 => i - 1 \in 1..l + 1
        BY <1>1, <2>1
      <4>. QED BY <1>1, <4>1
    <3>3. TradesOf(f, r, delay, i) = TradesOf(f, s, delay, i)
      BY <1>4
    <3>. QED BY <3>1, <3>2, <3>3 DEF Told
  <2>2. CASE i \notin 1..l + 1
    <3>1. i \in l + 2..m + 1 /\ i > 1 /\ i \in Int
      BY <1>1, <2>2
    <3>2. Placed(f, s, delay, i) = {}
      <4>1. DOMAIN f = 1..Len(f)
        OBVIOUS
      <4>. QED BY <1>3, <2>2, <4>1 DEF Placed
    <3>3. TradesOf(f, s, delay, i) = <<>>
      BY <1>3, <3>1, <3>2, TradesIs
    <3>. QED BY <1>1, <1>4, <3>1, <3>3 DEF Told
  <2>. QED BY <2>1, <2>2
<1>8. Counted(f, r, delay)
  <2>1. \A j \in 1..Len(f) : delay[j] # -1 =>
          HomeIn(r, f[j]) + delay[j] \in 1..m + 1 /\ f[j].time <= r.last
    <3>1. \A j \in 1..Len(f) : delay[j] # -1 =>
            HomeIn(r, f[j]) + delay[j] \in 1..l + 1 /\ f[j].time <= r.last
      BY <1>2, <1>3, <1>5
    <3>. QED BY <1>6, <3>1
  <2>. QED BY <1>3, <2>1 DEF Counted, m
<1>. QED BY <1>7, <1>8 DEF Explains, r, m

LEMMA ExtendedIs ==
  ASSUME NEW n \in Nat, NEW delay \in [1..n -> Delays], NEW v \in Delays
  PROVE  LET e == Extended(delay, n, v)
         IN /\ e \in [1..n + 1 -> Delays] /\ e[n + 1] = v /\ \A j \in 1..n : e[j] = delay[j]
<1>1. \A j \in 1..n + 1 : j # n + 1 => j \in 1..n
  OBVIOUS
<1>2. \A j \in 1..n : j # n + 1 /\ j \in 1..n + 1
  OBVIOUS
<1>3. n + 1 \in 1..n + 1
  OBVIOUS
<1>. QED BY <1>1, <1>2, <1>3 DEF Extended

(* The trades counted, with one trade more.                                 *)
LEMMA CountedMore ==
  ASSUME NEW f \in Seq(TradeRecord), NEW t \in TradeRecord, NEW s, NEW delay, NEW v \in Delays,
         Counted(f, s, delay),
         v # -1 => HomeIn(s, t) + v \in 1..Len(s.closed) + 1 /\ t.time <= s.last
  PROVE  Counted(Append(f, t), s, Extended(delay, Len(f), v))
<1>. DEFINE n == Len(f)
            g == Append(f, t)
            e == Extended(delay, n, v)
<1>1. /\ n \in Nat /\ Len(g) = n + 1 /\ g[n + 1] = t /\ \A j \in 1..n : g[j] = f[j]
  OBVIOUS
<1>2. /\ delay \in [1..n -> Delays]
      /\ \A j \in 1..n : delay[j] # -1 =>
           HomeIn(s, f[j]) + delay[j] \in 1..Len(s.closed) + 1 /\ f[j].time <= s.last
  BY DEF Counted
<1>. HIDE DEF n, g
<1>3. e \in [1..n + 1 -> Delays] /\ e[n + 1] = v /\ \A j \in 1..n : e[j] = delay[j]
  BY <1>1, <1>2, ExtendedIs
<1>. HIDE DEF e
<1>4. ASSUME NEW j \in 1..n + 1, e[j] # -1
      PROVE  HomeIn(s, g[j]) + e[j] \in 1..Len(s.closed) + 1 /\ g[j].time <= s.last
  <2>1. CASE j = n + 1
    BY <1>1, <1>3, <1>4, <2>1
  <2>2. CASE j \in 1..n
    BY <1>1, <1>2, <1>3, <1>4, <2>2
  <2>3. j = n + 1 \/ j \in 1..n
    BY <1>1
  <2>. QED BY <2>1, <2>2, <2>3
<1>. QED BY <1>1, <1>3, <1>4 DEF Counted, e, g, n

(* A trade that is left out.                                               *)
LEMMA SkipExplains ==
  ASSUME NEW f \in Seq(TradeRecord), NEW t \in TradeRecord, NEW s \in Series, NEW delay,
         Explains(f, s, delay)
  PROVE  Explains(Append(f, t), s, Extended(delay, Len(f), -1))
<1>. DEFINE g == Append(f, t)
            e == Extended(delay, Len(f), -1)
<1>1. -1 \in Delays /\ Len(s.closed) \in Nat
  BY DEF Delays, Series
<1>2. Counted(f, s, delay) /\ delay \in [1..Len(f) -> Delays]
      /\ \A i \in 1..Len(s.closed) + 1 : Told(s, i, TradesOf(f, s, delay, i))
  BY DEF Explains, Counted
<1>3. Counted(g, s, e)
  BY <1>1, <1>2, CountedMore
<1>4. ASSUME NEW i \in 1..Len(s.closed) + 1 PROVE TradesOf(g, s, e, i) = TradesOf(f, s, delay, i)
  <2>1. i \in Int
    BY <1>1
  <2>2. \A v \in Delays :
          TradesOf(g, s, Extended(delay, Len(f), v), i)
            = IF v # -1 /\ HomeIn(s, t) + v = i THEN Append(TradesOf(f, s, delay, i), t)
              ELSE TradesOf(f, s, delay, i)
    BY <1>2, <2>1, TradesAppend
  <2>. HIDE DEF g
  <2>. QED BY <1>1, <2>2
<1>. HIDE DEF g, e
<1>. QED BY <1>2, <1>3, <1>4 DEF Explains, g, e

(* The last trade of a feed, when it is later than every trade counted.     *)
LEMMA FrontExplains ==
  ASSUME NEW f \in Seq(TradeRecord), NEW t \in TradeRecord, NEW s \in Series, NEW delay,
         Explains(Append(f, t), s, delay), ~(t.time <= s.last)
  PROVE  \E e : Explains(f, s, e)
<1>. DEFINE n == Len(f)
            g == Append(f, t)
            e == [j \in 1..n |-> delay[j]]
<1>1. n \in Nat /\ Len(g) = n + 1 /\ g[n + 1] = t /\ \A j \in 1..n : g[j] = f[j]
  OBVIOUS
<1>2. /\ delay \in [1..Len(g) -> Delays]
      /\ \A j \in 1..Len(g) : delay[j] # -1 =>
           HomeIn(s, g[j]) + delay[j] \in 1..Len(s.closed) + 1 /\ g[j].time <= s.last
      /\ \A i \in 1..Len(s.closed) + 1 : Told(s, i, TradesOf(g, s, delay, i))
  BY DEF Explains, Counted
<1>0. Len(s.closed) \in Nat /\ -1 \in Delays
  BY DEF Delays, Series
<1>. HIDE DEF n, g
<1>3. n + 1 \in 1..n + 1 /\ 1..n \subseteq 1..n + 1
  BY <1>1
<1>4. delay[n + 1] = -1
  BY <1>1, <1>2, <1>3
<1>5. e \in [1..n -> Delays] /\ \A j \in 1..n : e[j] = delay[j]
  BY <1>1, <1>2, <1>3
<1>6. delay = Extended(e, n, -1)
  <2>1. delay = [j \in 1..n + 1 |-> delay[j]]
    BY <1>1, <1>2
  <2>2. \A j \in 1..n + 1 : delay[j] = IF j = n + 1 THEN -1 ELSE e[j]
    <3>1. \A j \in 1..n + 1 : j = n + 1 \/ j \in 1..n
      BY <1>1
    <3>. HIDE DEF e
    <3>. QED BY <1>4, <1>5, <3>1
  <2>. HIDE DEF e
  <2>. QED BY <2>1, <2>2 DEF Extended
<1>7. Counted(f, s, e)
  BY <1>1, <1>2, <1>3, <1>5 DEF Counted, n
<1>. HIDE DEF e
<1>8. ASSUME NEW i \in 1..Len(s.closed) + 1 PROVE TradesOf(g, s, delay, i) = TradesOf(f, s, e, i)
  <2>1. i \in Int
    BY <1>0
  <2>2. \A d \in [1..Len(f) -> Delays], v \in Delays :
          TradesOf(Append(f, t), s, Extended(d, Len(f), v), i)
            = IF v # -1 /\ HomeIn(s, t) + v = i THEN Append(TradesOf(f, s, d, i), t)
              ELSE TradesOf(f, s, d, i)
    BY <2>1, TradesAppend
  <2>3. e \in [1..Len(f) -> Delays]
    BY <1>5 DEF n
  <2>. HIDE DEF e
  <2>. QED BY <1>0, <1>6, <2>2, <2>3 DEF g, n
<1>. QED BY <1>2, <1>7, <1>8 DEF Explains, n

(* A trade that enters the active candle.                                   *)
LEMMA AddExplains ==
  ASSUME NEW f \in Seq(TradeRecord), NEW t \in TradeRecord, NEW r \in Series, NEW w \in Series,
         NEW delay, NEW v \in {0, 1},
         w.anchor = r.anchor, w.closed = r.closed, w.active = AddTrade(r.active, t), w.last = t.time,
         ~(t.time < r.last), HomeIn(r, t) + v = Len(r.closed) + 1,
         Counted(f, r, delay),
         \A i \in 1..Len(r.closed) : Told(r, i, TradesOf(f, r, delay, i)),
         \/ Told(r, Len(r.closed) + 1, TradesOf(f, r, delay, Len(r.closed) + 1))
         \/ TradesOf(f, r, delay, Len(r.closed) + 1) = <<>> /\ r.active.volume = 0
  PROVE  Explains(Append(f, t), w, Extended(delay, Len(f), v))
<1>. DEFINE g == Append(f, t)
            e == Extended(delay, Len(f), v)
            l == Len(r.closed)
            q == TradesOf(f, r, delay, l + 1)
<1>1. l \in Nat /\ v \in Delays /\ v # -1 /\ r.active \in CandleRecord /\ t.time \in Int /\ r.last \in Int
  BY Numbers DEF Series, Delays
<1>2. delay \in [1..Len(f) -> Delays]
  BY DEF Counted
<1>3. Counted(f, w, delay)
  <2>1. \A u : HomeIn(w, u) = HomeIn(r, u)
    BY SameAnchor
  <2>2. \A j \in 1..Len(f) : delay[j] # -1 =>
          HomeIn(w, f[j]) + delay[j] \in 1..Len(w.closed) + 1 /\ f[j].time <= r.last
    BY <2>1 DEF Counted
  <2>3. \A j \in 1..Len(f) : f[j].time \in Nat
    BY Numbers
  <2>4. \A j \in 1..Len(f) : f[j].time <= r.last => f[j].time <= w.last
    BY <1>1, <2>3
  <2>. QED BY <1>2, <2>2, <2>4 DEF Counted
<1>4. Counted(g, w, e)
  <2>1. HomeIn(w, t) = HomeIn(r, t)
    BY SameAnchor
  <2>2. HomeIn(w, t) + v \in 1..Len(w.closed) + 1 /\ t.time <= w.last
    BY <1>1, <2>1
  <2>. QED BY <1>1, <1>3, <2>2, CountedMore
<1>5. ASSUME NEW i \in 1..l + 1
      PROVE  TradesOf(g, w, e, i) = IF i = l + 1 THEN Append(TradesOf(f, r, delay, i), t)
                                    ELSE TradesOf(f, r, delay, i)
  <2>1. TradesOf(g, w, e, i) = TradesOf(g, r, e, i)
    BY SameAnchor
  <2>2. i \in Int
    BY <1>1
  <2>3. TradesOf(g, r, e, i) = IF v # -1 /\ HomeIn(r, t) + v = i THEN Append(TradesOf(f, r, delay, i), t)
                               ELSE TradesOf(f, r, delay, i)
    BY <1>1, <1>2, <2>2, TradesAppend
  <2>4. HomeIn(r, t) + v = l + 1
    OBVIOUS
  <2>. HIDE DEF g, e, l
  <2>. QED BY <1>1, <2>1, <2>3, <2>4
<1>6. q \in Seq(TradeRecord)
  <2>1. \A i \in Int : TradesOf(f, r, delay, i) \in Seq(TradeRecord)
    BY <1>2, TradesIs
  <2>2. l + 1 \in Int
    BY <1>1
  <2>. QED BY <2>1, <2>2
<1>7. Summarises(w.active, Append(q, t)) /\ Append(q, t) # <<>>
  <2>1. CandleAt(r, l + 1) = r.active
    BY <1>1 DEF CandleAt
  <2>2. Told(r, l + 1, q) \/ (q = <<>> /\ r.active.volume = 0)
    OBVIOUS
  <2>3. r.active.volume = 0 \/ q # <<>>
    BY <2>1, <2>2 DEF Told, EmptyCandle
  <2>. HIDE DEF q, l
  <2>4. CASE q = <<>>
    <3>1. Append(q, t) = <<t>>
      BY <2>4
    <3>. QED BY <1>1, <2>3, <2>4, <3>1, SummaryOfOne
  <2>5. CASE q # <<>>
    <3>1. Summarises(r.active, q)
      BY <2>1, <2>2, <2>5 DEF Told
    <3>2. Append(q, t) # <<>>
      <4>1. Append(q, t) \in Seq(TradeRecord) /\ Len(Append(q, t)) = Len(q) + 1 /\ Len(q) \in Nat
        BY <1>6
      <4>. QED BY <4>1
    <3>. QED BY <1>1, <1>6, <2>5, <3>1, <3>2, SummaryOfMore
  <2>. QED BY <2>4, <2>5
<1>8. ASSUME NEW i \in 1..l + 1 PROVE Told(w, i, TradesOf(g, w, e, i))
  <2>1. CASE i = l + 1
    <3>1. CandleAt(w, i) = w.active
      BY <1>1, <2>1 DEF CandleAt
    <3>2. TradesOf(g, w, e, i) = Append(q, t)
      BY <1>5, <2>1
    <3>. HIDE DEF g, e, q
    <3>. QED BY <1>7, <3>1, <3>2 DEF Told
  <2>2. CASE i # l + 1
    <3>1. i \in 1..l /\ i <= l /\ i - 1 <= l
      BY <1>1, <2>2
    <3>2. CandleAt(w, i) = CandleAt(r, i) /\ CandleAt(w, i - 1) = CandleAt(r, i - 1)
      BY <3>1 DEF CandleAt
    <3>3. TradesOf(g, w, e, i) = TradesOf(f, r, delay, i)
      BY <1>5, <2>2
    <3>4. Told(r, i, TradesOf(f, r, delay, i))
      BY <3>1
    <3>. HIDE DEF g, e
    <3>. QED BY <3>2, <3>3, <3>4 DEF Told
  <2>. QED BY <2>1, <2>2
<1>. HIDE DEF g, e
<1>. QED BY <1>4, <1>8 DEF Explains, g, e

-----------------------------------------------------------------------------
(* The loop over the trades.                                               *)

(* A series that its feed explains, wherever it stands.                     *)
Sound(f, s) ==
  /\ s.anchor # NoTime /\ s.anchor % Duration = 0 /\ s.anchor <= s.last
  /\ s.price = s.active.close
  /\ ~Fresh(s)
  /\ \E delay : Explains(f, s, delay)

(* How far the loop's boundary is ahead of the active candle's start: the   *)
(* trades of a batch are one candle late when it is not.                    *)
Ahead(late) == IF late = 1 THEN 0 ELSE Duration

Walked(f, st, late) ==
  Sound(f, st.series) /\ st.next = NextBoundary(st.series) + Ahead(late)

(* The closed form of the inner loop finds the period of the trade.         *)
LEMMA CrossedIs ==
  ASSUME NEW next \in Int, NEW time \in Int, next - Duration <= time
  PROVE  LET m == next + Crossed(next, time) * Duration
         IN /\ Crossed(next, time) \in Nat
            /\ m - Duration <= time /\ time < m
<1>. DEFINE n == Crossed(next, time)
            z == (time - next) \div Duration
<1>1. Duration \in Nat /\ Duration > 0
  BY Numbers
<1>2. CASE time < next
  <2>1. n = 0
    BY <1>2 DEF Crossed
  <2>. QED BY <1>1, <1>2, <2>1
<1>3. CASE ~(time < next)
  <2>1. n = z + 1
    BY <1>3 DEF Crossed
  <2>2. time - next \in Int
    OBVIOUS
  <2>3. z \in Int /\ z * Duration <= time - next /\ time - next < (z + 1) * Duration
    BY <2>2, DivisionIs
  <2>4. z >= 0
    BY <1>1, <1>3
  <2>. HIDE DEF z, n
  <2>5. (z + 1) * Duration = z * Duration + Duration /\ z * Duration \in Int
    BY <1>1, <2>3
  <2>6. next + n * Duration = next + z * Duration + Duration
    BY <1>1, <2>1, <2>5
  <2>7. n \in Nat /\ n * Duration \in Int
    BY <1>1, <2>1, <2>3, <2>4
  <2>. QED BY <1>1, <2>3, <2>5, <2>6, <2>7 DEF n
<1>. QED BY <1>2, <1>3

(* Where a trade is counted that the loop takes up before the boundary m.   *)
LEMMA HomeBehind ==
  ASSUME NEW s \in Series, NEW t \in TradeRecord, NEW n \in Nat, NEW late \in {0, 1}, NEW m \in Int,
         m = NextBoundary(s) + Ahead(late) + n * Duration,
         m - Duration <= t.time, t.time < m
  PROVE  HomeIn(s, t) + late = Len(s.closed) + n + 1
<1>. DEFINE l == Len(s.closed)
            a == s.anchor
            x == t.time - a
            q == l + n - late
<1>1. l \in Nat /\ a \in Int /\ t.time \in Int /\ x \in Int /\ q \in Int /\ Duration \in Nat /\ Duration > 0
  BY Numbers DEF Series
<1>2. m = a + l * Duration + Ahead(late) + n * Duration
  BY DEF NextBoundary
<1>3. q * Duration <= x /\ x < (q + 1) * Duration
  <2>1. (l + n) * Duration = l * Duration + n * Duration /\ l * Duration \in Int /\ n * Duration \in Int
    <3>. HIDE DEF l, a, x, q
    <3>. QED BY <1>1
  <2>2. CASE late = 0
    <3>1. q = l + n /\ Ahead(late) = Duration
      BY <1>1, <2>2 DEF Ahead
    <3>2. (q + 1) * Duration = q * Duration + Duration /\ q * Duration \in Int
      BY <1>1
    <3>. HIDE DEF l, a
    <3>. QED BY <1>1, <1>2, <2>1, <3>1, <3>2
  <2>3. CASE late = 1
    <3>1. q + 1 = l + n /\ Ahead(late) = 0
      BY <1>1, <2>3 DEF Ahead
    <3>2. (q + 1) * Duration = q * Duration + Duration /\ q * Duration \in Int
      BY <1>1
    <3>. HIDE DEF l, a, q
    <3>. QED BY <1>1, <1>2, <2>1, <3>1, <3>2
  <2>. QED BY <2>2, <2>3
<1>4. q = x \div Duration
  <2>. HIDE DEF q, x
  <2>. QED BY <1>1, <1>3, DivisionIs
<1>5. HomeIn(s, t) = q + 1
  BY <1>4 DEF HomeIn
<1>. HIDE DEF l
<1>. QED BY <1>1, <1>5 DEF l

(* The clock keeps the series explained.                                    *)
LEMMA AdvanceSound ==
  ASSUME NEW f \in Seq(TradeRecord), f # <<>>, NEW s \in Series, NEW time \in Int, Sound(f, s)
  PROVE  Sound(f, AdvanceTo(s, time))
<1>. DEFINE r == AdvanceTo(s, time)
            n == (PeriodStart(time) - NextBoundary(s)) \div Duration
<1>1. s.anchor # NoTime /\ s.price = s.active.close /\ ~Fresh(s)
  BY DEF Sound
<1>2. n \in Int /\ r = Roll(s, n) /\ r \in Series /\ r.anchor = s.anchor /\ r.last = s.last
  BY <1>1, AdvanceToIs
<1>. HIDE DEF r, n
<1>3. r.price = r.active.close
  BY <1>1, <1>2, RollCandles
<1>4. ~Fresh(r)
  <2>1. CASE n <= 0
    BY <1>1, <1>2, <2>1, RollIs
  <2>2. CASE n > 0
    <3>1. Len(r.closed) = Len(s.closed) + n /\ Len(s.closed) \in Nat
      BY <1>2, <2>2, RollIs DEF Series
    <3>. QED BY <1>2, <2>2, <3>1 DEF Fresh
  <2>. QED BY <1>2, <2>1, <2>2
<1>5. PICK delay : Explains(f, s, delay)
  BY DEF Sound
<1>6. Head(f) \in TradeRecord
  OBVIOUS
<1>7. \A t \in TradeRecord : Explains(f, r, delay)
  BY <1>1, <1>2, <1>5, RollExplains
<1>8. Explains(f, r, delay)
  BY <1>6, <1>7
<1>. QED BY <1>1, <1>2, <1>3, <1>4, <1>8 DEF Sound, r

(* One turn of the loop keeps the series explained.                         *)
LEMMA StepWalked ==
  ASSUME NEW f \in Seq(TradeRecord), NEW st \in IngestState, NEW late \in {0, 1}, Walked(f, st, late),
         NEW t \in TradeRecord, st.next - Duration <= t.time, st.series.last <= t.time
  PROVE  Walked(Append(f, t), IngestTrade(st, t), late)
<1>. DEFINE s == st.series
            n == Crossed(st.next, t.time)
            r == Roll(s, n)
            w == IngestTrade(st, t)
            z == w.series
            l == Len(s.closed)
<1>1. /\ s \in Series /\ st.next \in Int /\ t.time \in Int /\ Duration \in Nat /\ l \in Nat
      /\ s.last \in Int /\ s.anchor \in Int
  BY Numbers DEF IngestState, Series
<1>2. /\ s.anchor # NoTime /\ s.anchor % Duration = 0 /\ s.anchor <= s.last
      /\ s.price = s.active.close /\ ~Fresh(s)
  BY DEF Walked, Sound
<1>3. /\ n \in Nat /\ (st.next + n * Duration) - Duration <= t.time /\ t.time < st.next + n * Duration
  BY <1>1, CrossedIs
<1>4. /\ w \in IngestState /\ r \in Series /\ w.next = st.next + n * Duration
      /\ z.anchor = s.anchor /\ z.last = t.time /\ z.price = t.price
      /\ z.closed = r.closed /\ z.active = AddTrade(r.active, t) /\ z \in Series
  <2>1. Rolled(s, n) = r
    BY <1>2 DEF Rolled
  <2>. HIDE DEF r
  <2>2. /\ w \in IngestState /\ r \in Series /\ w.next = st.next + n * Duration
        /\ z.anchor = s.anchor /\ z.last = t.time /\ z.price = t.price
        /\ z.closed = r.closed /\ z.active = AddTrade(r.active, t)
    BY <2>1, IngestTradeIs
  <2>3. z \in Series
    <3>1. w \in IngestState
      BY <2>2
    <3>. HIDE DEF w
    <3>. QED BY <3>1 DEF IngestState
  <2>. QED BY <2>2, <2>3
<1>5. r.anchor = s.anchor /\ r.last = s.last /\ Len(r.closed) = l + n
  <2>1. n <= 0 => n = 0
    BY <1>3
  <2>2. n \in Int
    BY <1>3
  <2>. HIDE DEF n
  <2>3. r.anchor = s.anchor /\ r.last = s.last
    BY <1>1, <2>2, RollIs
  <2>4. CASE n > 0
    BY <1>1, <2>2, <2>4, RollIs
  <2>5. CASE ~(n > 0)
    <3>1. r = s /\ n = 0
      BY <1>1, <1>3, <2>1, <2>5, RollIs
    <3>. QED BY <1>1, <2>3, <3>1
  <2>. QED BY <2>3, <2>4, <2>5
<1>6. PICK delay : Explains(f, s, delay)
  BY DEF Walked, Sound
<1>7. Explains(f, r, delay)
  <2>1. n \in Int
    BY <1>3
  <2>. HIDE DEF n, s
  <2>. QED BY <1>1, <1>2, <1>6, <2>1, RollExplains
<1>8. HomeIn(r, t) + late = Len(r.closed) + 1
  <2>1. HomeIn(r, t) = HomeIn(s, t)
    BY <1>5, SameAnchor
  <2>2. st.next = NextBoundary(s) + Ahead(late)
    BY DEF Walked
  <2>3. PICK m \in Int : m = st.next + n * Duration
    BY <1>1, <1>3
  <2>. HIDE DEF n, s, r
  <2>4. m = NextBoundary(s) + Ahead(late) + n * Duration
    BY <2>2, <2>3
  <2>5. HomeIn(s, t) + late = Len(s.closed) + n + 1
    BY <1>1, <1>3, <2>3, <2>4, HomeBehind
  <2>. QED BY <1>5, <2>1, <2>5 DEF s
<1>9. Explains(Append(f, t), z, Extended(delay, Len(f), late))
  <2>1. /\ Counted(f, r, delay)
        /\ \A i \in 1..Len(r.closed) + 1 : Told(r, i, TradesOf(f, r, delay, i))
    BY <1>7 DEF Explains
  <2>2. Len(r.closed) \in Nat
    BY <1>4 DEF Series
  <2>3. /\ \A i \in 1..Len(r.closed) : Told(r, i, TradesOf(f, r, delay, i))
        /\ Told(r, Len(r.closed) + 1, TradesOf(f, r, delay, Len(r.closed) + 1))
    <3>1. 1..Len(r.closed) \subseteq 1..Len(r.closed) + 1 /\ Len(r.closed) + 1 \in 1..Len(r.closed) + 1
      BY <2>2
    <3>. QED BY <2>1, <3>1
  <2>4. ~(t.time < r.last)
    BY <1>1, <1>5
  <2>. HIDE DEF r, z, s
  <2>. QED BY <1>4, <1>5, <1>8, <2>1, <2>3, <2>4, AddExplains
<1>10. w.next = NextBoundary(z) + Ahead(late)
  <2>1. st.next = s.anchor + l * Duration + Ahead(late) /\ Ahead(late) \in Int
    BY <1>1 DEF Walked, NextBoundary, Ahead
  <2>2. NextBoundary(z) = s.anchor + (l + n) * Duration
    BY <1>4, <1>5 DEF NextBoundary
  <2>3. (l + n) * Duration = l * Duration + n * Duration /\ l * Duration \in Int /\ n * Duration \in Int
    BY <1>1, <1>3
  <2>. HIDE DEF l, n, z, w
  <2>. QED BY <1>1, <1>4, <2>1, <2>2, <2>3, SMTT(30)
<1>11. z.anchor <= z.last /\ z.price = z.active.close /\ ~Fresh(z)
  <2>1. r.active \in CandleRecord
    BY <1>4 DEF Series
  <2>2. AddTrade(r.active, t).close = t.price /\ AddTrade(r.active, t).volume > 0
        /\ AddTrade(r.active, t) \in CandleRecord
    BY <2>1, AddTradeIs
  <2>3. z.active.volume # 0
    <3>1. z.active \in CandleRecord /\ z.active.volume > 0
      BY <1>4, <2>2
    <3>. HIDE DEF z
    <3>2. z.active.volume \in Nat
      BY <3>1, Numbers
    <3>. QED BY <3>1, <3>2
  <2>4. s.anchor <= t.time
    BY <1>1, <1>2
  <2>. HIDE DEF z
  <2>. QED BY <1>4, <2>2, <2>3, <2>4 DEF Fresh
<1>. HIDE DEF z, w, s
<1>. QED BY <1>2, <1>4, <1>9, <1>10, <1>11 DEF Walked, Sound, z, w

LEMMA SkipWalked ==
  ASSUME NEW f \in Seq(TradeRecord), NEW st \in IngestState, NEW late, Walked(f, st, late),
         NEW t \in TradeRecord
  PROVE  Walked(Append(f, t), st, late)
<1>1. st.series \in Series
  BY DEF IngestState
<1>2. PICK delay : Explains(f, st.series, delay)
  BY DEF Walked, Sound
<1>3. Explains(Append(f, t), st.series, Extended(delay, Len(f), -1))
  BY <1>1, <1>2, SkipExplains
<1>. QED BY <1>3 DEF Walked, Sound

(* What the loop has to find in the trades it takes in.                     *)
Ready(trades, st) ==
  /\ ByTime(trades)
  /\ \A x \in ToSet(trades) : st.next - Duration <= x.time /\ st.series.last <= x.time

(* A batch that is ready is so up to each of its trades.                    *)
LEMMA ReadyFor ==
  ASSUME NEW st \in IngestState, NextBoundary(st.series) <= st.next,
         NEW u \in Seq(TradeRecord), NEW t \in TradeRecord, Ready(Append(u, t), st)
  PROVE  LET w == Ingested(st, u)
         IN Ready(u, st) /\ w \in IngestState /\ w.next - Duration <= t.time /\ w.series.last <= t.time
<1>. DEFINE w == Ingested(st, u)
<1>1. /\ ByTime(u) /\ \A x \in ToSet(u) : x.time <= t.time
      /\ ToSet(Append(u, t)) = ToSet(u) \cup {t}
  BY ByTimeAppend, ToSetGrowth DEF Ready
<1>2. Ready(u, st) /\ st.next - Duration <= t.time /\ st.series.last <= t.time
  BY <1>1 DEF Ready
<1>3. t.time \in Int /\ Duration \in Nat /\ st.next \in Int
  BY Numbers DEF IngestState
<1>4. w \in IngestState /\ (w.next = st.next \/ w.next <= t.time + Duration)
  BY <1>1, <1>3, IngestedAdds
<1>5. w.next \in Int
  <2>. HIDE DEF w
  <2>. QED BY <1>4 DEF IngestState
<1>6. w.series.last <= t.time
  <2>1. CASE u = <<>>
    <3>1. w = st
      BY <2>1, IngestedLast
    <3>. QED BY <1>2, <3>1
  <2>2. CASE u # <<>>
    <3>1. w.series.last = Last(u).time
      BY <2>2, IngestedLast
    <3>2. Last(u) \in ToSet(u)
      BY <1>1, <2>2, HeadAndLast
    <3>. QED BY <1>1, <3>1, <3>2
  <2>. QED BY <2>1, <2>2
<1>. HIDE DEF w
<1>. QED BY <1>2, <1>3, <1>4, <1>5, <1>6 DEF w

(* The loop over a batch some of whose trades have been filtered out.       *)
LEMMA BatchWalked ==
  ASSUME NEW a \in Seq(TradeRecord), NEW st \in IngestState, NEW late \in {0, 1}, Walked(a, st, late),
         NEW batch \in Seq(TradeRecord), NEW S, Ready(Only(batch, S), st)
  PROVE  Walked(a \o batch, Ingested(st, Only(batch, S)), late)
<1>. DEFINE P == {r \in Seq(TradeRecord) :
                    Ready(Only(r, S), st) => Walked(a \o r, Ingested(st, Only(r, S)), late)}
<1>0. NextBoundary(st.series) <= st.next
  <2>1. st.series \in Series /\ st.series.anchor \in Int /\ Len(st.series.closed) \in Nat
    BY Numbers DEF IngestState, Series
  <2>2. NextBoundary(st.series) \in Int /\ Ahead(late) \in Nat
    BY <2>1, Numbers DEF NextBoundary, Ahead
  <2>. QED BY <2>2 DEF Walked
<1>1. <<>> \in P
  <2>1. a \o <<>> = a /\ Only(<<>>, S) = <<>> /\ Ingested(st, <<>>) = st
    BY OnlyEmpty, IngestedIs
  <2>. QED BY <2>1
<1>2. ASSUME NEW r \in Seq(TradeRecord), NEW t \in TradeRecord, r \in P PROVE Append(r, t) \in P
  <2>0. Append(r, t) \in Seq(TradeRecord)
    BY ToSetGrowth
  <2>1. PICK c \in Seq(TradeRecord) : c = a \o r
    BY ConcatAppend
  <2>2. a \o Append(r, t) = Append(c, t)
    BY <2>1, ConcatAppend
  <2>3. PICK u \in Seq(TradeRecord) : u = Only(r, S)
    BY OnlyIsSeq
  <2>4. Only(Append(r, t), S) = IF t \in S THEN Append(u, t) ELSE u
    <3>1. Only(Append(r, t), S) = IF t \in S THEN Append(Only(r, S), t) ELSE Only(r, S)
      BY OneMore
    <3>. QED BY <2>3, <3>1
  <2>5. Ready(u, st) => Walked(c, Ingested(st, u), late)
    BY <1>2, <2>1, <2>3
  <2>6. Ingested(st, u) \in IngestState /\ Ingested(st, Append(u, t)) = IngestTrade(Ingested(st, u), t)
    BY IngestedIs
  <2>7. CASE t \notin S
    <3>1. ASSUME Ready(u, st) PROVE Walked(Append(c, t), Ingested(st, u), late)
      BY <2>5, <2>6, <3>1, SkipWalked
    <3>. QED BY <2>0, <2>2, <2>4, <2>7, <3>1
  <2>8. CASE t \in S
    <3>1. ASSUME Ready(Append(u, t), st) PROVE Walked(Append(c, t), Ingested(st, Append(u, t)), late)
      <4>1. PICK w \in IngestState : w = Ingested(st, u)
        BY <2>6
      <4>2. Ready(u, st) /\ w.next - Duration <= t.time /\ w.series.last <= t.time
        BY <1>0, <3>1, <4>1, ReadyFor
      <4>3. Walked(c, w, late)
        BY <2>5, <4>1, <4>2
      <4>4. Walked(Append(c, t), IngestTrade(w, t), late)
        BY <4>2, <4>3, StepWalked
      <4>. QED BY <2>6, <4>1, <4>4
    <3>. QED BY <2>0, <2>2, <2>4, <2>8, <3>1
  <2>. QED BY <2>7, <2>8
<1>3. Seq(TradeRecord) \subseteq P
  <2>. HIDE DEF P
  <2>. QED BY <1>1, <1>2, SeqSetInduction
<1>. QED BY <1>3

(* The first trade of a snapshot.                                          *)
LEMMA FirstWalked ==
  ASSUME NEW t \in TradeRecord
  PROVE  Begun(t) \in IngestState /\ Walked(<<t>>, IngestTrade(Begun(t), t), 0)
<1>. DEFINE b == Begun(t)
            s == b.series
            w == IngestTrade(b, t)
            z == w.series
            p == PeriodStart(t.time)
<1>1. /\ t.time \in Nat /\ t.time \in Int /\ t.price \in Money /\ p \in Nat /\ p \in Int
      /\ p <= t.time /\ t.time < p + Duration /\ p % Duration = 0 /\ Duration \in Nat /\ Duration > 0
  <2>1. t.time \in Nat /\ t.price \in Money /\ Duration \in Nat /\ Duration > 0
    BY Numbers
  <2>2. t.time \in Int
    BY <2>1
  <2>3. p \in Int /\ p <= t.time /\ t.time < p + Duration /\ p % Duration = 0 /\ (t.time >= 0 => p >= 0)
    BY <2>2, PeriodStartIs
  <2>4. p \in Nat
    BY <2>1, <2>3
  <2>. QED BY <2>1, <2>2, <2>3, <2>4
<1>2. /\ b.next = p /\ s.anchor = p /\ s.last = NoTime /\ s.closed = <<>>
      /\ s.active = EmptyCandle(t.price)
  BY DEF Begun
<1>3. b \in IngestState /\ s \in Series
  <2>1. EmptyCandle(t.price) \in CandleRecord
    BY <1>1, Numbers DEF EmptyCandle, CandleRecord
  <2>2. <<>> \in Seq(CandleRecord) /\ p \in Instant /\ NoTime \in Instant
    BY <1>1 DEF Instant
  <2>. QED BY <1>1, <2>1, <2>2 DEF Begun, IngestState, Series
<1>. HIDE DEF b, p
<1>4. Fresh(s) /\ Rolled(s, Crossed(b.next, t.time)) = s
  BY <1>2 DEF Fresh, Rolled, EmptyCandle
<1>5. Crossed(b.next, t.time) = 1
  <2>1. p - Duration <= t.time
    BY <1>1
  <2>2. Crossed(p, t.time) = (t.time - p) \div Duration + 1
    BY <1>1 DEF Crossed
  <2>3. (t.time - p) \div Duration = 0
    <3>1. t.time - p \in Int /\ 0 * Duration <= t.time - p /\ t.time - p < (0 + 1) * Duration
      BY <1>1
    <3>2. \A x \in Int : 0 * Duration <= x /\ x < (0 + 1) * Duration => 0 = x \div Duration
      BY DivisionIs
    <3>. QED BY <3>1, <3>2
  <2>. QED BY <1>2, <2>2, <2>3
<1>6. /\ w \in IngestState /\ w.next = p + Duration
      /\ z.anchor = p /\ z.last = t.time /\ z.price = t.price
      /\ z.closed = <<>> /\ z.active = AddTrade(s.active, t) /\ z \in Series
  <2>1. /\ w \in IngestState /\ w.next = b.next + Crossed(b.next, t.time) * Duration
        /\ z.anchor = s.anchor /\ z.last = t.time /\ z.price = t.price
        /\ z.closed = s.closed /\ z.active = AddTrade(s.active, t)
    BY <1>3, <1>4, IngestTradeIs
  <2>2. z \in Series
    <3>1. w \in IngestState
      BY <2>1
    <3>. HIDE DEF w
    <3>. QED BY <3>1 DEF IngestState
  <2>3. 1 * Duration = Duration
    BY <1>1
  <2>. HIDE DEF w, s
  <2>. QED BY <1>2, <1>5, <2>1, <2>2, <2>3
<1>7. PICK f \in Seq(TradeRecord) : f = <<>>
  <2>1. <<>> \in Seq(TradeRecord)
    OBVIOUS
  <2>. QED BY <2>1
<1>8. PICK delay \in [1..Len(f) -> Delays] : TRUE
  <2>1. [j \in 1..Len(f) |-> 0] \in [1..Len(f) -> Delays]
    BY DEF Delays
  <2>. QED BY <2>1
<1>9. Len(f) = 0 /\ Append(f, t) = <<t>> /\ DOMAIN f = {}
  BY <1>7
<1>10. Explains(Append(f, t), z, Extended(delay, Len(f), 0))
  <2>1. Counted(f, s, delay)
    BY <1>9 DEF Counted
  <2>2. Len(s.closed) = 0
    BY <1>2
  <2>3. HomeIn(s, t) + 0 = Len(s.closed) + 1
    <3>1. t.time - p \in Int /\ 0 * Duration <= t.time - p /\ t.time - p < (0 + 1) * Duration
      BY <1>1
    <3>2. \A x \in Int : 0 * Duration <= x /\ x < (0 + 1) * Duration => 0 = x \div Duration
      BY DivisionIs
    <3>3. (t.time - p) \div Duration = 0
      BY <3>1, <3>2
    <3>. QED BY <1>2, <2>2, <3>3 DEF HomeIn
  <2>4. TradesOf(f, s, delay, Len(s.closed) + 1) = <<>> /\ s.active.volume = 0
    <3>1. Placed(f, s, delay, 1) = {}
      BY <1>9 DEF Placed
    <3>2. 1 \in Int
      OBVIOUS
    <3>3. TradesOf(f, s, delay, 1) = <<>>
      BY <3>1, <3>2, TradesIs
    <3>. QED BY <1>4, <2>2, <3>3 DEF Fresh
  <2>5. ~(t.time < s.last)
    BY <1>1, <1>2 DEF NoTime
  <2>6. \A i \in 1..Len(s.closed) : Told(s, i, TradesOf(f, s, delay, i))
    BY <2>2
  <2>. HIDE DEF s, z
  <2>. QED BY <1>2, <1>3, <1>6, <2>1, <2>3, <2>4, <2>5, <2>6, AddExplains
<1>11. z.active.close = t.price /\ ~Fresh(z)
  <2>1. s.active \in CandleRecord
    BY <1>3 DEF Series
  <2>2. AddTrade(s.active, t).close = t.price /\ AddTrade(s.active, t).volume > 0
    BY <2>1, AddTradeIs
  <2>3. z.active.volume # 0
    BY <1>6, <2>2
  <2>. QED BY <1>6, <2>2, <2>3 DEF Fresh
<1>12. w.next = NextBoundary(z) + Ahead(0)
  <2>1. Len(z.closed) = 0
    BY <1>6
  <2>. HIDE DEF w
  <2>. QED BY <1>1, <1>6, <2>1 DEF NextBoundary, Ahead
<1>13. z.anchor # NoTime
  BY <1>1, <1>6 DEF NoTime
<1>. HIDE DEF w
<1>. QED BY <1>1, <1>3, <1>6, <1>9, <1>10, <1>11, <1>12, <1>13 DEF Walked, Sound, w, b

(* A snapshot is counted trade by trade, each in its own candle.            *)
LEMMA SnapshotWalked ==
  ASSUME NEW trades \in Seq(TradeRecord), trades # <<>>, ByTime(trades)
  PROVE  Walked(trades, Ingested(Begun(Head(trades)), trades), 0)
<1>. DEFINE h == Head(trades)
            b == Begun(h)
            From(r) == r # <<>> /\ Head(r) = h /\ ByTime(r)
            P == {r \in Seq(TradeRecord) : From(r) => Walked(r, Ingested(b, r), 0)}
<1>1. h \in TradeRecord /\ b \in IngestState /\ Walked(<<h>>, IngestTrade(b, h), 0)
  <2>1. h \in TradeRecord
    OBVIOUS
  <2>. HIDE DEF h
  <2>. QED BY <2>1, FirstWalked
<1>2. NextBoundary(b.series) <= b.next /\ b.next <= h.time /\ b.series.last <= h.time /\ b.next \in Int
  <2>1. h.time \in Nat /\ h.time \in Int
    BY <1>1, Numbers
  <2>2. PeriodStart(h.time) \in Int /\ PeriodStart(h.time) <= h.time
    BY <2>1, PeriodStartIs
  <2>3. /\ b.next = PeriodStart(h.time) /\ b.series.anchor = PeriodStart(h.time)
        /\ b.series.last = NoTime /\ Len(b.series.closed) = 0
    BY DEF Begun
  <2>. HIDE DEF h, b
  <2>4. NextBoundary(b.series) = PeriodStart(h.time)
    BY <2>2, <2>3, Numbers DEF NextBoundary
  <2>. QED BY <2>1, <2>2, <2>3, <2>4 DEF NoTime
<1>. HIDE DEF b, h
<1>3. <<>> \in P
  OBVIOUS
<1>4. ASSUME NEW r \in Seq(TradeRecord), NEW t \in TradeRecord, r \in P PROVE Append(r, t) \in P
  <2>0. Append(r, t) \in Seq(TradeRecord)
    BY ToSetGrowth
  <2>1. SUFFICES ASSUME From(Append(r, t)) PROVE Walked(Append(r, t), Ingested(b, Append(r, t)), 0)
    BY <2>0
  <2>2. CASE r = <<>>
    <3>1. t = h
      BY <2>1, <2>2
    <3>2. Append(r, t) = <<h>> /\ Ingested(b, r) = b
      BY <1>1, <2>2, <3>1, IngestedIs
    <3>3. Ingested(b, Append(r, t)) = IngestTrade(Ingested(b, r), t)
      BY <1>1, IngestedIs
    <3>. QED BY <1>1, <3>1, <3>2, <3>3
  <2>3. CASE r # <<>>
    <3>1. Head(r) = h
      BY <2>1, <2>3
    <3>2. ByTime(r) /\ \A x \in ToSet(r) : x.time <= t.time
      BY <2>1, ByTimeAppend
    <3>3. Head(r) \in ToSet(r)
      BY <2>3, <3>2, HeadAndLast
    <3>4. Ready(Append(r, t), b)
      <4>1. \A x \in ToSet(Append(r, t)) : h.time <= x.time /\ x.time \in Nat
        <5>1. Head(Append(r, t)) = h /\ Append(r, t) # <<>> /\ ByTime(Append(r, t))
          BY <2>1
        <5>2. \A g \in Seq(TradeRecord) : g # <<>> /\ ByTime(g) =>
                \A x \in ToSet(g) : Head(g).time <= x.time
          BY HeadAndLast
        <5>3. \A x \in ToSet(Append(r, t)) : x.time \in Nat
          BY <2>0, ToSetProperties, Numbers
        <5>. QED BY <2>0, <5>1, <5>2, <5>3
      <4>2. h.time \in Nat /\ Duration \in Nat
        BY <1>1, Numbers
      <4>3. b.series.last \in Int
        BY <1>1, Numbers DEF IngestState, Series
      <4>4. \A x \in ToSet(Append(r, t)) : b.next - Duration <= x.time /\ b.series.last <= x.time
        BY <1>2, <4>1, <4>2, <4>3
      <4>. QED BY <2>1, <4>4 DEF Ready
    <3>5. Walked(r, Ingested(b, r), 0)
      BY <1>4, <2>3, <3>1, <3>2
    <3>6. PICK w \in IngestState : w = Ingested(b, r)
      BY <1>1, IngestedIs
    <3>7. w.next - Duration <= t.time /\ w.series.last <= t.time
      BY <1>1, <1>2, <3>4, <3>6, ReadyFor
    <3>8. 0 \in {0, 1}
      OBVIOUS
    <3>9. Walked(Append(r, t), IngestTrade(w, t), 0)
      BY <3>5, <3>6, <3>7, <3>8, StepWalked
    <3>10. Ingested(b, Append(r, t)) = IngestTrade(w, t)
      BY <1>1, <3>6, IngestedIs
    <3>. QED BY <3>9, <3>10
  <2>. QED BY <2>2, <2>3
<1>5. Seq(TradeRecord) \subseteq P
  <2>. HIDE DEF P
  <2>. QED BY <1>3, <1>4, SeqSetInduction
<1>6. From(trades)
  BY DEF h
<1>. QED BY <1>5, <1>6 DEF b, h

-----------------------------------------------------------------------------
(* The steps of the chart.                                                 *)

(* The inductive invariant behind CandleInv.  Beyond it, the counted trades  *)
(* are not later than the last one seen, which is why a tail that comes     *)
(* again can be taken for a new trade if it was refused, and the price is   *)
(* the active candle's close, which is what an empty candle carries on.     *)
Standing == feed # <<>> => Sound(feed, series)

(* A snapshot, and an increment or its refusal.                             *)
LEMMA SnapshotSound ==
  ASSUME Typed, NEW trades \in Seq(TradeRecord), trades # <<>>, ByTime(trades), OnSnapshot(trades)
  PROVE  Sound(trades, series')
<1>. DEFINE w == Ingested(Begun(Head(trades)), trades)
<1>1. series \in Series /\ now \in Int
  BY DEF Typed
<1>2. series' = IngestTradesAt(Reset(series), trades, now)
  BY DEF OnSnapshot
<1>3. w.series \in Series /\ series' = AdvanceTo(w.series, now)
  BY <1>1, <1>2, RebuiltIs
<1>4. Sound(trades, w.series)
  BY SnapshotWalked DEF Walked
<1>. HIDE DEF w
<1>. QED BY <1>1, <1>3, <1>4, AdvanceSound

LEMMA IncrementSound ==
  ASSUME Typed, feed # <<>>, NEW a \in Seq(TradeRecord), NEW batch \in Seq(TradeRecord),
         NEW trades \in Seq(TradeRecord), a \o batch # <<>>, Sound(a, series), ByTime(trades),
         Unseen(trades, series.last) = Unseen(batch, series.last), OnIncrement(trades)
  PROVE  Sound(a \o batch, series')
<1>. DEFINE S == {t \in ToSet(batch) : t.time > series.last}
            new == Only(batch, S)
            b == AtBoundary(series)
            w == Ingested(b, new)
<1>1. /\ series \in Series /\ now \in Int /\ series.anchor # NoTime /\ series.last # NoTime
      /\ series.anchor \in Int /\ series.last \in Int
  <2>1. series \in Series /\ now \in Int /\ series.anchor # NoTime /\ series.last # NoTime
    BY DEF Typed
  <2>2. series.anchor \in Instant /\ series.last \in Instant
    BY <2>1 DEF Series
  <2>. QED BY <2>1, <2>2, Numbers
<1>2. Unseen(trades, series.last) = new
  BY DEF Unseen
<1>3. /\ new \in Seq(TradeRecord) /\ b \in IngestState /\ w \in IngestState
      /\ Rejects(series, new) => series' = series
      /\ ~Rejects(series, new) => series' = AdvanceTo(w.series, now)
  <2>1. series' = IngestTradesAt(series, trades, now)
    BY DEF OnIncrement
  <2>2. LET n == Unseen(trades, series.last)
            v == Ingested(b, n)
        IN /\ n \in Seq(TradeRecord) /\ b \in IngestState /\ v \in IngestState
           /\ Rejects(series, n) => series' = series
           /\ ~Rejects(series, n) => series' = AdvanceTo(v.series, now)
    BY <1>1, <2>1, ContinuedIs
  <2>. HIDE DEF new, b
  <2>. QED BY <1>2, <2>2
<1>4. ByTime(new) /\ \A x \in ToSet(new) : x.time > series.last /\ x.time \in Nat
  <2>1. ByTime(Unseen(trades, series.last))
    BY OnlyByTime DEF Unseen
  <2>2. ToSet(Only(batch, S)) = ToSet(batch) \cap S
    BY OnlyToSet
  <2>3. \A x \in ToSet(new) : x.time \in Nat
    <3>. HIDE DEF new
    <3>. QED BY <1>3, ToSetProperties, Numbers
  <2>. QED BY <1>2, <2>1, <2>2, <2>3
<1>5. b.series = series /\ b.next = NextBoundary(series) /\ NextBoundary(series) \in Int
  <2>1. NextBoundary(series) \in Int
    BY <1>1, AdvanceToIs
  <2>. QED BY <2>1 DEF AtBoundary
<1>6. Walked(a, b, 1)
  <2>1. Ahead(1) = 0
    BY DEF Ahead
  <2>. HIDE DEF b
  <2>. QED BY <1>5, <2>1 DEF Walked
<1>7. PICK c \in Seq(TradeRecord) : c = a \o batch
  <2>1. a \o batch \in Seq(TradeRecord)
    OBVIOUS
  <2>. QED BY <2>1
<1>. HIDE DEF new, b, w, S
<1>8. CASE Rejects(series, new)
  <2>1. Only(batch, {}) = <<>> /\ Ingested(b, <<>>) = b
    <3>1. ToSet(Only(batch, {})) = ToSet(batch) \cap {} /\ Only(batch, {}) \in Seq(TradeRecord)
      BY OnlyToSet, OnlyIsSeq
    <3>2. ASSUME NEW u \in Seq(TradeRecord), ToSet(u) = {} PROVE u = <<>>
      <4>1. ToSet(u) = {u[i] : i \in 1..Len(u)} /\ Len(u) \in Nat
        BY ToSetProperties
      <4>2. ASSUME Len(u) # 0 PROVE FALSE
        <5>1. 1 \in 1..Len(u)
          BY <4>1, <4>2
        <5>. QED BY <3>2, <4>1, <5>1
      <4>. QED BY <4>2
    <3>. QED BY <1>3, <3>1, <3>2, IngestedIs
  <2>2. Ready(<<>>, b)
    BY DEF Ready, ByTime, ToSet
  <2>3. Walked(a \o batch, Ingested(b, Only(batch, {})), 1)
    <3>1. 1 \in {0, 1} /\ Ready(Only(batch, {}), b)
      BY <2>1, <2>2
    <3>. QED BY <1>3, <1>6, <3>1, BatchWalked
  <2>4. Sound(a \o batch, b.series)
    BY <2>1, <2>3 DEF Walked
  <2>. QED BY <1>3, <1>5, <1>8, <2>4
<1>9. CASE ~Rejects(series, new)
  <2>1. ASSUME NEW x \in ToSet(new) PROVE b.next - Duration <= x.time /\ b.series.last <= x.time
    <3>1. x.time > series.last /\ x.time \in Nat /\ Duration \in Nat /\ Duration > 0
      BY <1>4, Numbers
    <3>2. new # <<>>
      BY <2>1 DEF ToSet
    <3>3. Head(new).time <= x.time /\ Head(new).time \in Nat
      BY <1>3, <1>4, <3>2, HeadAndLast, LastIsTime
    <3>4. CASE series.closed # <<>>
      <4>1. ~(Head(new).time < NextBoundary(series) - Duration)
        BY <1>9, <1>1, <3>2, <3>4 DEF Rejects
      <4>. QED BY <1>1, <1>5, <3>1, <3>3, <4>1
    <3>5. CASE series.closed = <<>>
      <4>1. NextBoundary(series) = series.anchor
        <5>1. Len(series.closed) = 0
          BY <3>5
        <5>. QED BY <1>1, <3>1, <5>1 DEF NextBoundary
      <4>2. series.anchor <= series.last
        BY DEF Sound
      <4>. QED BY <1>1, <1>5, <3>1, <4>1, <4>2
    <3>. QED BY <3>4, <3>5
  <2>2. Ready(Only(batch, S), b)
    BY <1>4, <2>1 DEF Ready, new
  <2>3. Walked(a \o batch, Ingested(b, Only(batch, S)), 1)
    <3>1. 1 \in {0, 1}
      OBVIOUS
    <3>. QED BY <1>3, <1>6, <2>2, <3>1, BatchWalked
  <2>4. Sound(c, w.series)
    BY <1>7, <2>3 DEF Walked, w, new
  <2>5. w.series \in Series
    BY <1>3 DEF IngestState
  <2>. QED BY <1>1, <1>3, <1>7, <1>9, <2>4, <2>5, AdvanceSound
<1>. QED BY <1>8, <1>9

LEMMA LastApart ==
  ASSUME NEW f \in Seq(TradeRecord), f # <<>>
  PROVE  \E e \in Seq(TradeRecord), l \in TradeRecord : f = Append(e, l)
BY SplitLast

(* An increment that starts with the tail of the feed: either the tail is   *)
(* seen, or it had not been counted.                                       *)
LEMMA IncrementSplit ==
  ASSUME Typed, feed # <<>>, Sound(feed, series), Increment
  PROVE  \E a, batch, trades \in Seq(TradeRecord) :
           /\ feed' = a \o batch /\ feed' # <<>> /\ Sound(a, series) /\ ByTime(trades)
           /\ Unseen(trades, series.last) = Unseen(batch, series.last) /\ OnIncrement(trades)
<1>1. PICK batch \in Seq(TradeRecord) :
        /\ batch # <<>> /\ feed' = feed \o batch
        /\ \E first \in Len(feed)..Len(feed) + 1 : OnIncrement(SubSeq(feed', first, Len(feed')))
  BY IncrementIs
<1>2. PICK first \in Len(feed)..Len(feed) + 1 : OnIncrement(SubSeq(feed', first, Len(feed')))
  BY <1>1
<1>3. feed \in Seq(TradeRecord) /\ feed' \in Seq(TradeRecord) /\ feed' # <<>> /\ ByTime(feed')
  BY IncrementIs DEF Typed
<1>4. PICK f \in Seq(TradeRecord), g \in Seq(TradeRecord) : f = feed /\ g = feed'
  BY <1>3
<1>5. Len(f) \in Nat /\ first \in Len(f)..Len(f) + 1 /\ g = f \o batch /\ f # <<>> /\ ByTime(g)
  BY <1>1, <1>2, <1>3, <1>4
<1>6. CASE first = Len(f) + 1
  <2>1. SubSeq(g, first, Len(g)) = batch
    BY <1>1, <1>5, <1>6, EndOfConcat
  <2>2. ByTime(batch)
    BY <1>5, EndByTime
  <2>. QED BY <1>1, <1>2, <1>3, <1>4, <2>1, <2>2
<1>7. CASE first = Len(f)
  <2>1. PICK e \in Seq(TradeRecord), l \in TradeRecord : f = Append(e, l)
    <3>1. f # <<>>
      BY <1>5
    <3>. QED BY <3>1, LastApart
  <2>2. <<l>> \in Seq(TradeRecord) /\ f = e \o <<l>>
    BY <2>1, AppendIsConcat, SequenceOfOneOrTwo
  <2>3. PICK h \in Seq(TradeRecord) : h = <<l>>
    BY <2>2
  <2>4. PICK b \in Seq(TradeRecord) : b = h \o batch
    BY ConcatAppend
  <2>5. g = e \o b
    BY <1>5, <2>2, <2>3, <2>4, ConcatAssociative
  <2>6. b # <<>> /\ Len(f) = Len(e) + 1
    BY <2>1, <2>3, <2>4
  <2>7. SubSeq(g, first, Len(g)) = b
    BY <1>7, <2>5, <2>6, EndOfConcat
  <2>8. ByTime(b)
    BY <1>5, <2>5, EndByTime
  <2>9. CASE l.time <= series.last
    <3>1. \A x \in ToSet(h) : ~(x.time > series.last)
      <4>1. series.last \in Int /\ l.time \in Int
        <5>1. series.last \in Instant
          BY DEF Typed, Series
        <5>. QED BY <5>1, Numbers
      <4>2. ToSet(h) = {l}
        BY <2>3 DEF ToSet
      <4>. QED BY <2>9, <4>1, <4>2
    <3>2. Unseen(h \o batch, series.last) = Unseen(batch, series.last)
      BY <3>1, UnseenAfter
    <3>. QED BY <1>1, <1>2, <1>3, <1>4, <2>4, <2>7, <2>8, <3>2
  <2>10. CASE ~(l.time <= series.last)
    <3>1. Sound(e, series)
      <4>1. series \in Series
        BY DEF Typed
      <4>2. PICK delay : Explains(f, series, delay)
        BY <1>4 DEF Sound
      <4>3. PICK s \in Series : s = series
        BY <4>1
      <4>4. \E d : Explains(e, s, d)
        BY <2>1, <2>10, <4>2, <4>3, FrontExplains
      <4>. QED BY <4>3, <4>4 DEF Sound
    <3>. QED BY <1>2, <1>3, <1>4, <2>5, <2>7, <2>8, <3>1
  <2>. QED BY <2>9, <2>10
<1>8. first = Len(f) + 1 \/ first = Len(f)
  BY <1>5
<1>. QED BY <1>6, <1>7, <1>8

LEMMA StandingInit == Init => Standing
BY DEF Init, Standing

LEMMA StandingStep == Typed /\ Standing /\ [Next]_vars => Standing'
<1>. SUFFICES ASSUME Typed, Standing, [Next]_vars PROVE Standing'
  OBVIOUS
<1>0. series \in Series /\ now \in Int /\ feed \in Seq(TradeRecord)
  BY DEF Typed
<1>1. CASE UNCHANGED vars
  BY <1>1 DEF vars, Standing
<1>2. CASE Tick
  BY <1>2 DEF Tick, Standing
<1>3. CASE DoUpdate
  <2>1. series' = AdvanceTo(series, now) /\ feed' = feed
    BY <1>3 DEF DoUpdate
  <2>2. ASSUME feed # <<>> PROVE Sound(feed, AdvanceTo(series, now))
    BY <1>0, <2>2, AdvanceSound DEF Standing
  <2>. QED BY <2>1, <2>2 DEF Standing
<1>4. CASE LateTrade
  <2>1. feed' \in Seq(TradeRecord) /\ feed' # <<>> /\ ByTime(feed') /\ OnSnapshot(feed')
    BY <1>4, LateTradeIs
  <2>2. Sound(feed', series')
    <3>1. PICK g \in Seq(TradeRecord) : g = feed'
      BY <2>1
    <3>2. g # <<>> /\ ByTime(g) /\ OnSnapshot(g)
      BY <2>1, <3>1
    <3>3. Sound(g, series')
      BY <3>2, SnapshotSound
    <3>. QED BY <3>1, <3>3
  <2>. QED BY <2>2 DEF Standing
<1>5. CASE Increment /\ feed = <<>>
  <2>1. PICK batch \in Seq(TradeRecord) : batch # <<>> /\ feed' = batch /\ OnSnapshot(batch) /\ ByTime(feed')
    BY <1>5, IncrementIs
  <2>2. Sound(batch, series')
    BY <2>1, SnapshotSound
  <2>. QED BY <2>1, <2>2 DEF Standing
<1>6. CASE Increment /\ feed # <<>>
  <2>1. Sound(feed, series)
    BY <1>6 DEF Standing
  <2>2. PICK a \in Seq(TradeRecord), batch \in Seq(TradeRecord), trades \in Seq(TradeRecord) :
           /\ feed' = a \o batch /\ feed' # <<>> /\ Sound(a, series) /\ ByTime(trades)
           /\ Unseen(trades, series.last) = Unseen(batch, series.last) /\ OnIncrement(trades)
    BY <1>6, <2>1, IncrementSplit
  <2>3. a \o batch # <<>>
    BY <2>2
  <2>4. Sound(a \o batch, series')
    BY <1>6, <2>2, <2>3, IncrementSound
  <2>. QED BY <2>2, <2>4 DEF Standing
<1>. QED BY <1>1, <1>2, <1>3, <1>4, <1>5, <1>6 DEF Next

LEMMA StandingInvariant == Spec => [](Typed /\ Standing)
<1>1. Init => Typed /\ Standing
  BY TypedInit, StandingInit
<1>2. Typed /\ Standing /\ [Next]_vars => (Typed /\ Standing)'
  BY TypedStep, StandingStep
<1>. QED BY <1>1, <1>2, PTL DEF Spec

LEMMA StandingIsRight ==
  ASSUME Typed, Standing
  PROVE  AtMostOnePeriodLate
<1>. SUFFICES ASSUME series.anchor # NoTime PROVE Explained({0, 1})
  BY DEF AtMostOnePeriodLate
<1>1. /\ series \in Series /\ feed \in Seq(TradeRecord) /\ feed # <<>>
      /\ series.closed \in Seq(CandleRecord) /\ series.active \in CandleRecord /\ Len(series.closed) \in Nat
  <2>1. series \in Series /\ feed \in Seq(TradeRecord) /\ feed # <<>>
    BY DEF Typed
  <2>. QED BY <2>1 DEF Series
<1>2. PICK delay : Explains(feed, series, delay)
  BY <1>1 DEF Standing, Sound
<1>. DEFINE l == Len(series.closed)
<1>3. DOMAIN feed = 1..Len(feed)
  BY <1>1
<1>4. DOMAIN Candles = 1..l + 1 /\ \A i \in 1..l + 1 : Candles[i] = CandleAt(series, i)
  <2>1. \A s \in Seq(CandleRecord), c \in CandleRecord :
          /\ DOMAIN Append(s, c) = 1..Len(s) + 1
          /\ \A i \in 1..Len(s) + 1 : Append(s, c)[i] = IF i <= Len(s) THEN s[i] ELSE c
    OBVIOUS
  <2>. QED BY <1>1, <2>1 DEF Candles, CandleAt
<1>5. delay \in [DOMAIN feed -> {0, 1} \cup {-1}]
  BY <1>2, <1>3 DEF Explains, Counted, Delays
<1>6. \A t : Home(t) = HomeIn(series, t)
  BY DEF Home, HomeIn
<1>. DEFINE counted == {j \in DOMAIN feed : delay[j] # -1}
            place(j) == Home(feed[j]) + delay[j]
            mine(i) == Only([j \in DOMAIN feed |-> j], {j \in counted : place(j) = i})
<1>7. \A j \in counted : place(j) \in DOMAIN Candles
  <2>1. \A j \in 1..Len(feed) : delay[j] # -1 => HomeIn(series, feed[j]) + delay[j] \in 1..l + 1
    BY <1>2 DEF Explains, Counted
  <2>. HIDE DEF l
  <2>. QED BY <1>3, <1>4, <1>6, <2>1
<1>8. \A i : mine(i) = Mine(feed, series, delay, i)
  <2>1. \A i : {j \in counted : place(j) = i} = Placed(feed, series, delay, i)
    BY <1>6 DEF Placed
  <2>. QED BY <2>1 DEF Mine, Positions
<1>9. ASSUME NEW i \in DOMAIN Candles
      PROVE  \/ mine(i) # <<>> /\ Summarises(Candles[i], [k \in DOMAIN mine(i) |-> feed[mine(i)[k]]])
             \/ mine(i) = <<>> /\ i > 1 /\ Candles[i] = EmptyCandle(Candles[i - 1].close)
  <2>0. i \in 1..l + 1 /\ i \in Int
    BY <1>1, <1>4
  <2>1. Told(series, i, TradesOf(feed, series, delay, i))
    BY <1>2, <2>0 DEF Explains
  <2>2. PICK m : m = Mine(feed, series, delay, i)
    OBVIOUS
  <2>3. TradesOf(feed, series, delay, i) = Picked(feed, m)
    BY <2>2 DEF TradesOf
  <2>4. Picked(feed, m) = <<>> <=> m = <<>>
    <3>1. Head(feed) \in TradeRecord /\ -1 \in Delays
      BY <1>1 DEF Delays
    <3>2. \A f \in Seq(TradeRecord), t \in TradeRecord : \A d \in [1..Len(f) -> Delays] :
            TradesOf(f, series, d, i) = <<>> <=> Mine(f, series, d, i) = <<>>
      BY <2>0, TradesIs
    <3>3. delay \in [1..Len(feed) -> Delays]
      BY <1>2 DEF Explains, Counted
    <3>. QED BY <1>1, <2>2, <2>3, <3>1, <3>2, <3>3
  <2>5. mine(i) = m
    BY <1>8, <2>2
  <2>6. CandleAt(series, i) = Candles[i]
    BY <1>4, <2>0
  <2>7. i > 1 => CandleAt(series, i - 1) = Candles[i - 1]
    <3>1. i > 1 => i - 1 \in 1..l + 1
      BY <1>1, <2>0
    <3>. QED BY <1>4, <3>1
  <2>. HIDE DEF mine
  <2>8. CASE Picked(feed, m) # <<>> /\ Summarises(Candles[i], Picked(feed, m))
    BY <2>4, <2>5, <2>8 DEF Picked
  <2>9. CASE Picked(feed, m) = <<>> /\ i > 1 /\ Candles[i] = EmptyCandle(CandleAt(series, i - 1).close)
    BY <2>4, <2>5, <2>7, <2>9
  <2>. QED BY <2>1, <2>3, <2>6, <2>8, <2>9 DEF Told
<1>. HIDE DEF l
<1>. QED BY <1>5, <1>7, <1>9, Zenon DEF Explained

LEMMA StandingTypes ==
  ASSUME Typed, Standing
  PROVE  TypeOK
<1>1. /\ now \in 0..MaxTime /\ feed \in Seq(TradeRecord) /\ Len(feed) <= MaxTrades
      /\ series \in Series /\ chart \in ChartRecord
  BY DEF Typed
<1>2. \A c \in CandleRecord : CandleType(c)
  BY DEF CandleRecord, CandleType, Money
<1>3. \A c \in ToSet(Candles) : CandleType(c)
  <2>1. series.closed \in Seq(CandleRecord) /\ series.active \in CandleRecord
    BY <1>1 DEF Series
  <2>2. \A s \in Seq(CandleRecord) : ToSet(s) \subseteq CandleRecord
    BY ToSetProperties
  <2>3. Candles \in Seq(CandleRecord)
    BY <2>1 DEF Candles
  <2>. QED BY <1>2, <2>2, <2>3
<1>4. ASSUME series.anchor # NoTime
      PROVE  series.anchor >= 0 /\ series.anchor % Duration = 0 /\ series.last >= series.anchor /\ feed # <<>>
  <2>1. feed # <<>>
    BY <1>4 DEF Typed
  <2>2. series.anchor % Duration = 0 /\ series.anchor <= series.last
    BY <2>1 DEF Standing, Sound
  <2>3. series.anchor \in Int /\ series.anchor >= 0 /\ series.last \in Int
    <3>1. series.anchor \in Instant /\ series.last \in Instant
      BY <1>1 DEF Series
    <3>. QED BY <1>4, <3>1, Numbers
  <2>. QED BY <2>1, <2>2, <2>3
<1>5. chart.count \in Nat /\ \A shape \in chart.shapes : shape[1] \in Nat /\ CandleType(shape[2])
  <2>1. chart.count \in Nat /\ chart.shapes \subseteq Nat \X CandleRecord
    BY <1>1 DEF ChartRecord
  <2>. QED BY <1>2, <2>1
<1>. QED BY <1>1, <1>3, <1>4, <1>5 DEF TypeOK

(* Every candle of the series summarises the trades it counts, each of them *)
(* in its own period or in the next one, and none of them twice, whatever    *)
(* AppendTrades, AdvanceTo and the deduplication of IngestTradesAt are given *)
(* (buoy_candle.hpp:147-213, quote_scratcher.hpp:178-216).                   *)
THEOREM CandlesAreRight == Spec => []CandleInv
<1>1. Typed /\ Standing => CandleInv
  BY StandingIsRight, StandingTypes DEF CandleInv
<1>. QED BY <1>1, StandingInvariant, PTL
=============================================================================
