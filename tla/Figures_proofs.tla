----------------------------- MODULE Figures_proofs -----------------------------
(***************************************************************************)
(* Proofs about what the program works out from the ticks, one section each: *)
(* the tick candles, the profiler's figures, the servers' offset, the        *)
(* compared pair, the candle book, the projection of the market, the scale   *)
(* of a chart, the calendar, the behaviour of the brokers, latencies, the    *)
(* consensus, the dashboard's choices, the quote path.                       *)
(***************************************************************************)
EXTENDS TickCandles, Diagnostics, TimeAlignment, PairDifference, CandleBook, MarketView,
        ChartScale, CivilTime, BrokerBehaviour, LatencyMetrics, Consensus, Dashboard,
        QuotePath, Shared_proofs, SequenceTheorems

\* The minimum of a set of numbers.
LEMMA MinIsLeast ==
  ASSUME NEW S \in SUBSET Int, NEW k \in S, \A j \in S : k <= j
  PROVE  Min(S) = k
<1> DEFINE P(x) == x \in S /\ \A y \in S : x =< y
<1>1. P(k)
  OBVIOUS
<1>2. Min(S) = CHOOSE x : P(x)
  BY DEF Min
<1>3. P(CHOOSE x : P(x))
  BY <1>1
<1>4. Min(S) \in S /\ Min(S) <= k
  BY <1>2, <1>3
<1>5. Min(S) \in Int /\ k \in Int /\ k <= Min(S)
  BY <1>4
<1> QED BY <1>4, <1>5

-----------------------------------------------------------------------------
(* Tick candles (TickCandles). *)

\* The fields of a bar that decide what the next tick does to it.
Bars == [open : BarPrices, high : Int, low : Int, close : BarPrices,
         time : Nat, minute_changed : BOOLEAN, confirmed : BOOLEAN]

LEMMA HigherOrLower ==
  ASSUME NEW a \in Nat, NEW b \in Nat
  PROVE  Max({a, b}) \in Int /\ Min({a, b}) \in Int
<1>1. \E x \in {a, b} : \A y \in {a, b} : x >= y
  <2>1. CASE a >= b
    BY <2>1
  <2>2. CASE b >= a
    BY <2>2
  <2> QED BY <2>1, <2>2
<1>2. \E x \in {a, b} : \A y \in {a, b} : x =< y
  <2>1. CASE a =< b
    BY <2>1
  <2>2. CASE b =< a
    BY <2>2
  <2> QED BY <2>1, <2>2
<1>3. Max({a, b}) \in {a, b}
  BY <1>1 DEF Max
<1>4. Min({a, b}) \in {a, b}
  BY <1>2 DEF Min
<1> QED
  BY <1>3, <1>4

\* Besides what CandlesCorrect says: once there are bars the last one was opened by a
\* move, and while it is used again it is flat.  Without that a used bar could be
\* flat for good, or a new one follow an unconfirmed one.
CandlesInv ==
  /\ candles \in Seq(Bars) /\ Len(candles) <= MaxCandles
  /\ last_price \in BarPrices \cup {0}
  /\ has_unconfirmed \in BOOLEAN /\ is_reusing_candle \in BOOLEAN
  /\ candles # << >> => has_unconfirmed /\ last_price # 0
  /\ is_reusing_candle => candles # << >> /\ candles[Len(candles)].open = candles[Len(candles)].close
  /\ BarsConnect
  /\ OnlyLastIsUnconfirmed

\* A bar in the last place that opens where the one before it closed.
LEMMA LastBarReplaced ==
  ASSUME CandlesInv, candles # << >>, NEW bar \in Bars,
         bar.open = candles[Len(candles)].open,
         candles' = [candles EXCEPT ![Len(candles)] = bar],
         last_price' = bar.close, last_price' # 0, has_unconfirmed' = TRUE,
         is_reusing_candle' \in BOOLEAN, is_reusing_candle' <=> bar.open = bar.close
  PROVE  CandlesInv'
<1>1. PICK n \in Nat : n = Len(candles) /\ n >= 1 /\ n <= MaxCandles /\ DOMAIN candles = 1 .. n
  BY DEF CandlesInv
<1>2. /\ candles' \in Seq(Bars) /\ Len(candles') = n /\ DOMAIN candles' = 1 .. n /\ candles' # << >>
      /\ candles'[n] = bar /\ \A i \in 1 .. n : i # n => candles'[i] = candles[i]
  <2>1. candles \in Seq(Bars) /\ n \in 1 .. n
    BY <1>1 DEF CandlesInv
  <2> HIDE DEF Bars
  <2>2. /\ candles' \in Seq(Bars) /\ Len(candles') = n
        /\ \A j \in 1 .. n : candles'[j] = IF j = n THEN bar ELSE candles[j]
    BY <1>1, <2>1, ExceptSeq
  <2> QED
    BY <1>1, <2>1, <2>2
<1>3. BarsConnect'
  <2>1. ASSUME NEW i \in 2 .. n PROVE candles'[i].open = candles'[i - 1].close
    <3>1. candles[i].open = candles[i - 1].close /\ i - 1 \in 1 .. n /\ i - 1 # n /\ i \in 1 .. n
      BY <1>1 DEF CandlesInv, BarsConnect
    <3>2. candles'[i].open = candles[i].open
      BY <1>1, <1>2, <3>1
    <3> QED
      BY <1>2, <3>1, <3>2
  <2> QED
    BY <1>2, <2>1 DEF BarsConnect
<1>4. OnlyLastIsUnconfirmed'
  <2>1. ASSUME NEW i \in 1 .. n
        PROVE  /\ i < n => candles'[i].confirmed
               /\ candles'[i].open = candles'[i].close => i = n /\ is_reusing_candle'
    BY <1>1, <1>2 DEF CandlesInv, OnlyLastIsUnconfirmed
  <2> QED
    BY <1>2, <2>1 DEF OnlyLastIsUnconfirmed
<1>5. bar.close \in BarPrices
  BY DEF Bars
<1> QED
  BY <1>1, <1>2, <1>3, <1>4, <1>5 DEF CandlesInv

\* A bar after the last one, which is confirmed with it; the first may have to go.
LEMMA BarAppended ==
  ASSUME CandlesLimits, CandlesInv, ~is_reusing_candle, last_price # 0, NEW bar \in Bars,
         bar.open = last_price, bar.open # bar.close,
         NEW full, candles' = Append(full, bar),
         NEW bars,
         bars = IF has_unconfirmed /\ Len(candles) > 0 THEN Confirmed(candles) ELSE candles,
         full = IF Len(candles) >= MaxCandles THEN Tail(bars) ELSE bars,
         last_price' = bar.close, has_unconfirmed' = TRUE, is_reusing_candle' = FALSE
  PROVE  CandlesInv'
<1>1. PICK n \in Nat : n = Len(candles) /\ n <= MaxCandles /\ DOMAIN candles = 1 .. n
  BY DEF CandlesInv
<1>2. MaxCandles \in Nat /\ MaxCandles >= 1 /\ candles \in Seq(Bars)
  BY DEF CandlesLimits, CandlesInv
\* The bars before the new one keep their prices and are confirmed.
<1>3. /\ bars \in Seq(Bars) /\ Len(bars) = n
      /\ \A i \in 1 .. n : /\ bars[i].open = candles[i].open /\ bars[i].close = candles[i].close
                           /\ bars[i].confirmed
  <2>1. CASE n = 0
    BY <1>1, <1>2, <2>1
  <2>2. CASE n # 0
    <3>1. candles # << >> /\ has_unconfirmed /\ n \in 1 .. n
      BY <1>1, <2>2 DEF CandlesInv
    <3>2. bars = [candles EXCEPT ![n].confirmed = TRUE]
      BY <1>1, <2>2, <3>1 DEF Confirmed
    <3> DEFINE last == [candles[n] EXCEPT !.confirmed = TRUE]
    <3>3. last \in Bars /\ last.open = candles[n].open /\ last.close = candles[n].close /\ last.confirmed
      <4>1. candles[n] \in Bars
        BY <1>1, <1>2, <3>1, ElementOfSeq
      <4> QED BY <4>1 DEF Bars
    <3>4. bars = [candles EXCEPT ![Len(candles)] = last]
      BY <1>1, <3>2
    <3> HIDE DEF last, Bars
    <3>5. /\ bars \in Seq(Bars) /\ Len(bars) = n
          /\ \A j \in 1 .. n : bars[j] = IF j = n THEN last ELSE candles[j]
      <4>1. last \in Bars /\ Len(candles) \in 1 .. Len(candles)
        BY <1>1, <3>1, <3>3
      <4>2. /\ bars \in Seq(Bars) /\ Len(bars) = Len(candles)
            /\ \A j \in 1 .. Len(candles) : bars[j] = IF j = Len(candles) THEN last ELSE candles[j]
        BY <1>2, <3>4, <4>1, ExceptSeq
      <4> QED BY <1>1, <4>2
    <3>6. \A i \in 1 .. n : i < n => candles[i].confirmed
      BY <1>1 DEF CandlesInv, OnlyLastIsUnconfirmed
    <3>7. ASSUME NEW i \in 1 .. n
          PROVE  /\ bars[i].open = candles[i].open /\ bars[i].close = candles[i].close
                 /\ bars[i].confirmed
      <4>1. CASE i = n
        BY <3>3, <3>5, <4>1
      <4>2. CASE i # n
        BY <3>5, <3>6, <4>2
      <4> QED BY <4>1, <4>2
    <3> QED BY <3>5, <3>7
  <2> QED BY <2>1, <2>2
<1>4. PICK shift \in {0, 1} : shift = IF n >= MaxCandles THEN 1 ELSE 0
  OBVIOUS
<1>5. /\ full \in Seq(Bars) /\ Len(full) = n - shift
      /\ \A i \in 1 .. n - shift : full[i] = bars[i + shift]
  <2> HIDE DEF Bars
  <2>1. CASE n >= MaxCandles
    <3>1. bars # << >> /\ full = Tail(bars) /\ shift = 1
      BY <1>1, <1>2, <1>3, <1>4, <2>1
    <3> QED
      BY <1>3, <3>1, HeadTailProperties
  <2>2. CASE ~(n >= MaxCandles)
    BY <1>1, <1>3, <1>4, <2>2
  <2> QED BY <2>1, <2>2
<1>6. PICK m \in Nat : m = n - shift /\ m + 1 <= MaxCandles /\ m <= n
  BY <1>1, <1>2, <1>4
<1>7. /\ candles' \in Seq(Bars) /\ Len(candles') = m + 1 /\ candles'[m + 1] = bar
      /\ \A i \in 1 .. m : candles'[i] = full[i]
      /\ DOMAIN candles' = 1 .. m + 1 /\ candles' # << >>
  <2> HIDE DEF Bars
  <2>1. full \in Seq(Bars) /\ Len(full) = m /\ bar \in Bars
    BY <1>5, <1>6
  <2>2. /\ Append(full, bar) \in Seq(Bars) /\ Append(full, bar) # << >>
        /\ Len(Append(full, bar)) = m + 1 /\ Append(full, bar)[m + 1] = bar
        /\ \A i \in 1 .. m : Append(full, bar)[i] = full[i]
    BY <2>1, AppendProperties
  <2>3. \A s \in Seq(Bars) : DOMAIN s = 1 .. Len(s)
    OBVIOUS
  <2> QED BY <2>2, <2>3
<1>8. ASSUME NEW i \in 1 .. m
      PROVE  /\ candles'[i].open = candles[i + shift].open /\ candles'[i].close = candles[i + shift].close
             /\ candles'[i].confirmed /\ i + shift \in 1 .. n
  <2>1. i + shift \in 1 .. n
    BY <1>6
  <2>2. candles'[i] = full[i] /\ i \in 1 .. n - shift
    BY <1>6, <1>7
  <2>3. candles'[i] = bars[i + shift]
    BY <1>5, <2>2
  <2> HIDE DEF Bars
  <2> QED
    BY <1>3, <2>1, <2>3
<1>9. BarsConnect'
  <2>1. ASSUME NEW i \in 2 .. m + 1 PROVE candles'[i].open = candles'[i - 1].close
    <3>1. CASE i = m + 1
      <4>1. m \in 1 .. m /\ m + shift = n /\ n >= 1
        BY <1>6, <3>1
      <4>2. candles'[i - 1].close = candles[n].close
        <5>1. i - 1 = m
          BY <3>1
        <5> QED BY <1>8, <4>1, <5>1
      <4>3. candles[n].close = last_price
        BY <1>1, <4>1 DEF CandlesInv, BarsConnect
      <4> QED BY <1>7, <3>1, <4>2, <4>3
    <3>2. CASE i # m + 1
      <4>1. i \in 1 .. m /\ i - 1 \in 1 .. m /\ (i - 1) + shift = (i + shift) - 1
            /\ i + shift \in 2 .. n
        BY <1>6, <3>2
      <4>2. candles[i + shift].open = candles[(i + shift) - 1].close
        BY <1>1, <4>1 DEF CandlesInv, BarsConnect
      <4> QED BY <1>8, <4>1, <4>2, ZenonT(60)
    <3> QED BY <3>1, <3>2
  <2> QED
    BY <1>7, <2>1 DEF BarsConnect
<1>10. OnlyLastIsUnconfirmed'
  <2>1. ASSUME NEW i \in 1 .. m + 1
        PROVE  /\ i < m + 1 => candles'[i].confirmed
               /\ candles'[i].open # candles'[i].close
    <3>1. CASE i = m + 1
      BY <1>7, <3>1
    <3>2. CASE i # m + 1
      <4>1. i \in 1 .. m
        BY <3>2
      <4>2. candles[i + shift].open # candles[i + shift].close
        BY <1>1, <1>8, <4>1 DEF CandlesInv, OnlyLastIsUnconfirmed
      <4> QED BY <1>8, <4>1, <4>2
    <3> QED BY <3>1, <3>2
  <2> QED
    BY <1>7, <2>1 DEF OnlyLastIsUnconfirmed
<1>11. bar.close \in BarPrices /\ bar.close # 0
  BY DEF Bars, CandlesLimits
<1> QED
  BY <1>6, <1>7, <1>9, <1>10, <1>11 DEF CandlesInv

\* CandlesInv is inductive.
LEMMA CandlesStep == CandlesLimits /\ CandlesInv /\ [CandlesNext]_candleVars => CandlesInv'
<1> SUFFICES ASSUME CandlesLimits, CandlesInv, [CandlesNext]_candleVars PROVE CandlesInv'
  OBVIOUS
<1>1. ASSUME UNCHANGED <<candles, last_price, has_unconfirmed, is_reusing_candle>> PROVE CandlesInv'
  BY <1>1 DEF CandlesInv, BarsConnect, OnlyLastIsUnconfirmed
<1>2. CASE UNCHANGED candleVars
  BY <1>1, <1>2 DEF candleVars
<1>3. ASSUME NEW price \in BarPrices, NEW t \in BarTimes, OnPrice(price, t) PROVE CandlesInv'
  <2> DEFINE n == Len(candles)
             undecided == has_unconfirmed /\ n > 0 /\ ~is_reusing_candle
             bars == IF undecided THEN Confirmed(candles) ELSE candles
             reused == Bar(bars[n].open, price, t,
                           IF n > 1 THEN Minute(t) # Minute(bars[n - 1].time)
                                    ELSE bars[n].minute_changed)
             full == IF n >= MaxCandles THEN Tail(bars) ELSE bars
             next == Bar(last_price, price, t,
                         full # << >> /\ Minute(t) # Minute(full[Len(full)].time))
  <2>1. /\ n \in Nat /\ candles \in Seq(Bars) /\ price \in Nat /\ price # 0 /\ t \in Nat
        /\ n > 0 <=> candles # << >>
        /\ \A b \in BarPrices : b \in Nat
    BY DEF CandlesInv, CandlesLimits
  <2>2. CASE last_price = 0 \/ last_price = price
    <3>1. CASE last_price = price
      <4>1. UNCHANGED <<candles, last_price, has_unconfirmed, is_reusing_candle>>
        BY <1>3, <2>1, <3>1 DEF OnPrice
      <4> QED BY <1>1, <4>1
    <3>2. CASE last_price = 0
      <4>1. UNCHANGED <<candles, has_unconfirmed, is_reusing_candle>> /\ last_price' = price
        BY <1>3, <2>1, <3>2 DEF OnPrice
      <4>2. candles = << >>
        BY <3>2 DEF CandlesInv
      <4> QED
        BY <4>1, <4>2 DEF CandlesInv, BarsConnect, OnlyLastIsUnconfirmed
    <3> QED BY <2>2, <3>1, <3>2
  <2>3. CASE last_price \notin {0, price} /\ undecided /\ IsRebound(price)
    <3>1. /\ candles' = [candles EXCEPT ![n] = Cancelled(@)]
          /\ last_price' = candles[n].open /\ is_reusing_candle' = TRUE /\ has_unconfirmed' = has_unconfirmed
      BY <1>3, <2>1, <2>3 DEF OnPrice, PriceAfterRebound
    <3> DEFINE bar == Cancelled(candles[n])
    <3>2. candles[n] \in Bars /\ candles # << >>
      <4>1. n > 0 /\ n \in 1 .. Len(candles) /\ candles # << >>
        BY <2>1, <2>3
      <4> HIDE DEF Bars
      <4> QED BY <2>1, <4>1, ElementOfSeq
    <3>3. bar \in Bars /\ bar.open = candles[n].open /\ bar.close = candles[n].open
      <4>1. PICK old : old = candles[n]
        OBVIOUS
      <4>2. old \in Bars /\ old.open \in BarPrices
        BY <3>2, <4>1 DEF Bars
      <4>4. \A b \in BarPrices : b \in Int
        BY DEF CandlesLimits
      <4>5. old.open \in Int
        BY <4>2, <4>4
      <4>3. bar = [old EXCEPT !.close = old.open, !.high = old.open, !.low = old.open, !.confirmed = FALSE]
        BY <4>1 DEF Cancelled
      <4> HIDE DEF bar
      <4> QED
        BY <4>1, <4>2, <4>3, <4>5 DEF Bars
    <3>4. candles[n].open # 0 /\ has_unconfirmed
      BY <2>3, <3>2 DEF Bars, CandlesLimits
    <3>5. candles' = [candles EXCEPT ![Len(candles)] = bar]
      BY <3>1
    <3> HIDE DEF bar
    <3>6. has_unconfirmed' = TRUE
      BY <3>1, <3>4 DEF CandlesInv
    <3> QED
      BY <3>1, <3>2, <3>3, <3>4, <3>5, <3>6, LastBarReplaced
  <2>4. CASE last_price \notin {0, price} /\ ~(undecided /\ IsRebound(price))
    <3>1. /\ candles' = IF is_reusing_candle /\ n > 0 THEN [bars EXCEPT ![n] = reused]
                                                      ELSE Append(full, next)
          /\ last_price' = price /\ has_unconfirmed' = TRUE /\ is_reusing_candle' = FALSE
      BY <1>3, <2>1, <2>4 DEF OnPrice
    <3>2. last_price \in BarPrices /\ last_price \in Nat
      BY <2>1, <2>4 DEF CandlesInv
    <3>3. CASE is_reusing_candle
      <4>1. n > 0 /\ candles # << >> /\ bars = candles /\ candles[n] \in Bars
        BY <2>1, <3>3 DEF CandlesInv
      <4>2. candles[n].open = last_price
        BY <3>3, <4>1 DEF CandlesInv, BarsConnect
      <4>3. candles' = [candles EXCEPT ![Len(candles)] = reused]
        BY <3>1, <3>3, <4>1
      <4>4. reused \in Bars /\ reused.open = candles[Len(candles)].open /\ reused.close = price
        <5>1. (IF n > 1 THEN Minute(t) # Minute(bars[n - 1].time) ELSE bars[n].minute_changed) \in BOOLEAN
          BY <4>1 DEF Bars
        <5>2. PICK changed \in BOOLEAN : reused = Bar(candles[n].open, price, t, changed)
          BY <4>1, <5>1
        <5>3. Max({candles[n].open, price}) \in Int /\ Min({candles[n].open, price}) \in Int
          BY <2>1, <3>2, <4>2, HigherOrLower
        <5> HIDE DEF reused
        <5> QED
          BY <2>1, <3>2, <4>2, <5>2, <5>3 DEF Bars, Bar
      <4> HIDE DEF reused
      <4> QED
        BY <2>1, <2>4, <3>1, <3>2, <4>1, <4>2, <4>3, <4>4, LastBarReplaced
    <3>4. CASE ~is_reusing_candle
      <4>1. candles' = Append(full, next)
        BY <3>1, <3>4
      <4>2. bars = IF has_unconfirmed /\ Len(candles) > 0 THEN Confirmed(candles) ELSE candles
        BY <3>4
      <4>3. full = IF Len(candles) >= MaxCandles THEN Tail(bars) ELSE bars
        OBVIOUS
      <4>4. next \in Bars /\ next.open = last_price /\ next.close = price
        <5>1. PICK changed \in BOOLEAN : next = Bar(last_price, price, t, changed)
          OBVIOUS
        <5>2. Max({last_price, price}) \in Int /\ Min({last_price, price}) \in Int
          BY <2>1, <3>2, HigherOrLower
        <5> HIDE DEF next
        <5> QED
          BY <2>1, <3>2, <5>1, <5>2 DEF Bars, Bar
      <4> HIDE DEF next, full, bars
      <4> QED
        BY <2>4, <3>1, <3>4, <4>1, <4>2, <4>3, <4>4, BarAppended
    <3> QED BY <3>3, <3>4 DEF CandlesInv
  <2> QED
    BY <2>2, <2>3, <2>4
<1> QED
  BY <1>2, <1>3 DEF CandlesNext

\* The tick bars are one unbroken line of moves within their bound, of which only the
\* last may still be undone (TickCandleTracker::on_tick, tick_candle.rs).
THEOREM CandlesAreCorrect == CandlesLimits /\ CandlesSpec => []CandlesCorrect
<1> SUFFICES ASSUME CandlesLimits PROVE CandlesSpec => []CandlesCorrect
  OBVIOUS
<1>1. CandlesInit => CandlesInv
  <2> SUFFICES ASSUME CandlesInit PROVE CandlesInv
    OBVIOUS
  <2>1. /\ candles = << >> /\ last_price = 0 /\ has_unconfirmed = FALSE /\ is_reusing_candle = FALSE
    BY DEF CandlesInit
  <2>2. candles \in Seq(Bars) /\ Len(candles) = 0 /\ DOMAIN candles = {}
    BY <2>1
  <2>3. BarsConnect /\ OnlyLastIsUnconfirmed
    BY <2>1, <2>2 DEF BarsConnect, OnlyLastIsUnconfirmed
  <2>4. Len(candles) <= MaxCandles
    BY <2>2 DEF CandlesLimits
  <2> HIDE DEF Bars
  <2> QED
    BY <2>1, <2>2, <2>3, <2>4 DEF CandlesInv
<1>2. CandlesInv /\ [CandlesNext]_candleVars => CandlesInv'
  BY CandlesStep
<1>3. CandlesInv => CandlesCorrect
  BY DEF CandlesInv, CandlesCorrect, CandlesTypeOK
<1> QED
  BY <1>1, <1>2, <1>3, PTL DEF CandlesSpec

-----------------------------------------------------------------------------
(* The profiler and its worker (Diagnostics). *)

\* Besides what DiagnosticsCorrect says: outside a row nothing is held back, once the
\* worker is past the drain no sample is under way, and in the last row every stage
\* that is not still to be written is empty.  Without those the end could not be
\* told from an earlier row.
DiagnosticsInv ==
  /\ sampleChannel \in Seq(DiagnosticStages) /\ Len(sampleChannel) <= SampleCapacity
  /\ windows \in [DiagnosticStages -> Nat] /\ dropped \in Nat /\ recorded \in 0 .. MaxSamples
  /\ interval \in [drops : Nat, todo : SUBSET DiagnosticStages]
  /\ rows \in [accepted : Nat, dropped : Nat]
  /\ stopRequested \in BOOLEAN
  /\ summarizer \in {"loop", "row", "drain", "last", "write", "write_last", "ended", "failed"}
  /\ EverySampleAccountedFor
  /\ summarizer \in {"loop", "row", "drain", "last", "ended"} => interval = NoInterval
  /\ summarizer \in {"last", "write_last", "ended"} => stopRequested /\ sampleChannel = << >>
  /\ summarizer = "drain" => stopRequested
  /\ summarizer \in {"write_last", "ended"} =>
       dropped = 0 /\ \A s \in DiagnosticStages \ interval.todo : windows[s] = 0

\* The rings are a sequence of sizes.
LEMMA WindowsAreSizes ==
  ASSUME DiagnosticsLimits, NEW w \in [DiagnosticStages -> Nat]
  PROVE  w \in Seq(Nat) /\ Len(w) = StageCount /\ TotalOf(w) \in Nat
<1>1. w \in [1 .. StageCount -> Nat] /\ StageCount \in Nat
  BY DEF DiagnosticsLimits, DiagnosticStages
<1>2. w \in Seq(Nat) /\ Len(w) = StageCount
  BY <1>1
<1> QED
  BY <1>2, TotalType

LEMMA WindowChanges ==
  ASSUME DiagnosticsLimits, NEW w \in [DiagnosticStages -> Nat], NEW s \in DiagnosticStages, NEW n \in Nat
  PROVE  TotalOf([w EXCEPT ![s] = n]) + w[s] = TotalOf(w) + n
<1>1. w \in Seq(Nat) /\ s \in 1 .. Len(w)
  BY WindowsAreSizes DEF DiagnosticStages
<1> QED
  BY <1>1, TotalChange

LEMMA WindowWithinTotal ==
  ASSUME DiagnosticsLimits, NEW w \in [DiagnosticStages -> Nat], NEW s \in DiagnosticStages
  PROVE  w[s] <= TotalOf(w)
<1>1. [w EXCEPT ![s] = 0] \in [DiagnosticStages -> Nat]
  OBVIOUS
<1>2. TotalOf([w EXCEPT ![s] = 0]) + w[s] = TotalOf(w) + 0
  BY WindowChanges
<1>3. TotalOf([w EXCEPT ![s] = 0]) \in Nat /\ TotalOf(w) \in Nat /\ w[s] \in Nat
  BY <1>1, WindowsAreSizes
<1> QED
  BY <1>2, <1>3

LEMMA EmptyWindows ==
  ASSUME DiagnosticsLimits, NEW w, w = [s \in DiagnosticStages |-> 0]
  PROVE  TotalOf(w) = 0
<1>1. StageCount \in Nat /\ w = [i \in 1 .. StageCount |-> 0]
  BY DEF DiagnosticsLimits, DiagnosticStages
<1> QED
  BY <1>1, TotalZero

\* The account, in numbers, before a step and after it.
Account(a, b, c, d, e, h) ==
  /\ a \in Nat /\ b \in Nat /\ c \in Nat /\ d \in Nat /\ e \in Nat /\ h \in Nat
  /\ rows.accepted = a /\ rows.dropped = b /\ dropped = c /\ interval.drops = d
  /\ Len(sampleChannel) = e /\ Held = h

LEMMA AccountGiven ==
  ASSUME DiagnosticsLimits, DiagnosticsInv
  PROVE  \E a, b, c, d, e, h : Account(a, b, c, d, e, h) /\ recorded = a + b + c + d + e + h
<1>1. rows.accepted \in Nat /\ rows.dropped \in Nat /\ interval.drops \in Nat /\ dropped \in Nat
  BY DEF DiagnosticsInv
<1>2. Len(sampleChannel) \in Nat
  BY DEF DiagnosticsInv
<1>3. Held \in Nat
  BY WindowsAreSizes DEF DiagnosticsInv, Held
<1>4. recorded = rows.accepted + rows.dropped + dropped + interval.drops + Len(sampleChannel) + Held
  BY DEF DiagnosticsInv, EverySampleAccountedFor
<1>5. Account(rows.accepted, rows.dropped, dropped, interval.drops, Len(sampleChannel), Held)
  BY <1>1, <1>2, <1>3 DEF Account
<1> QED
  BY <1>4, <1>5

LEMMA AccountHolds ==
  ASSUME NEW a, NEW b, NEW c, NEW d, NEW e, NEW h, Account(a, b, c, d, e, h)',
         recorded' = a + b + c + d + e + h
  PROVE  EverySampleAccountedFor'
BY DEF Account, EverySampleAccountedFor

LEMMA DiagnosticsInvInit == DiagnosticsLimits /\ DiagnosticsInit => DiagnosticsInv
<1> SUFFICES ASSUME DiagnosticsLimits, DiagnosticsInit PROVE DiagnosticsInv
  OBVIOUS
<1>1. Held = 0
  BY EmptyWindows DEF DiagnosticsInit, Held
<1>2. sampleChannel = << >> /\ sampleChannel \in Seq(DiagnosticStages) /\ Len(sampleChannel) = 0
  BY DEF DiagnosticsInit
<1>3. EverySampleAccountedFor
  BY <1>1, <1>2 DEF DiagnosticsInit, EverySampleAccountedFor, NoInterval
<1>4. windows \in [DiagnosticStages -> Nat] /\ rows \in [accepted : Nat, dropped : Nat]
  BY DEF DiagnosticsInit
<1>5. interval \in [drops : Nat, todo : SUBSET DiagnosticStages]
  BY DEF DiagnosticsInit, NoInterval
<1>6. 0 \in 0 .. MaxSamples /\ 0 <= SampleCapacity
  BY DEF DiagnosticsLimits
<1> QED
  BY <1>2, <1>3, <1>4, <1>5, <1>6 DEF DiagnosticsInit, DiagnosticsInv

\* A sample the worker takes leaves the channel and enters a ring.
LEMMA TakenSample ==
  ASSUME DiagnosticsLimits, DiagnosticsInv, TakeSample
  PROVE  /\ sampleChannel' \in Seq(DiagnosticStages) /\ Len(sampleChannel') + 1 = Len(sampleChannel)
         /\ windows' \in [DiagnosticStages -> Nat] /\ Held' = Held + 1 /\ Held \in Nat
         /\ Len(sampleChannel') \in Nat
<1>1. /\ sampleChannel # << >> /\ sampleChannel \in Seq(DiagnosticStages)
      /\ windows \in [DiagnosticStages -> Nat]
  BY DEF TakeSample, DiagnosticsInv
<1>2. PICK s \in DiagnosticStages : s = Head(sampleChannel)
  BY <1>1
<1>3. windows' = [windows EXCEPT ![s] = windows[s] + 1] /\ windows[s] + 1 \in Nat /\ windows[s] \in Nat
  BY <1>1, <1>2 DEF TakeSample
<1>4. windows' \in [DiagnosticStages -> Nat]
  BY <1>1, <1>3
<1>5. TotalOf(windows') + windows[s] = TotalOf(windows) + (windows[s] + 1)
  BY <1>1, <1>3, WindowChanges
<1>6. TotalOf(windows') \in Nat /\ TotalOf(windows) \in Nat
  BY <1>1, <1>4, WindowsAreSizes
<1>7. Held' = Held + 1 /\ Held \in Nat
  BY <1>3, <1>5, <1>6 DEF Held
<1>8. sampleChannel' = Tail(sampleChannel)
  BY DEF TakeSample
<1>9. sampleChannel' \in Seq(DiagnosticStages) /\ Len(sampleChannel') + 1 = Len(sampleChannel) /\ Len(sampleChannel') \in Nat
  BY <1>1, <1>8
<1> QED
  BY <1>4, <1>7, <1>9

\* The ring of a stage goes into its row.
LEMMA WrittenStage ==
  ASSUME DiagnosticsLimits, DiagnosticsInv, WriteStage
  PROVE  DiagnosticsInv'
<1>1. PICK s \in interval.todo : /\ rows' = [rows EXCEPT !.accepted = @ + windows[s]]
                                 /\ windows' = [windows EXCEPT ![s] = 0]
                                 /\ interval' = [interval EXCEPT !.todo = @ \ {s}]
  BY DEF WriteStage
<1>2. s \in DiagnosticStages /\ windows \in [DiagnosticStages -> Nat]
  BY <1>1 DEF DiagnosticsInv
<1>3. windows' \in [DiagnosticStages -> Nat] /\ windows[s] \in Nat
  BY <1>1, <1>2
<1>4. Held' + windows[s] = Held + 0
  BY <1>1, <1>2, WindowChanges DEF Held
<1>5. Held' \in Nat /\ Held \in Nat
  BY <1>2, <1>3, WindowsAreSizes DEF Held
<1>6. /\ rows' \in [accepted : Nat, dropped : Nat]
      /\ rows'.accepted = rows.accepted + windows[s] /\ rows'.dropped = rows.dropped
      /\ rows.accepted \in Nat /\ rows.dropped \in Nat
  BY <1>1, <1>3, SMTT(30) DEF DiagnosticsInv
<1>7. /\ interval' \in [drops : Nat, todo : SUBSET DiagnosticStages]
      /\ interval'.drops = interval.drops /\ interval'.todo = interval.todo \ {s}
      /\ interval.drops \in Nat
  BY <1>1 DEF DiagnosticsInv
<1>8. /\ summarizer \in {"write", "write_last"}
      /\ UNCHANGED <<sampleChannel, dropped, summarizer, stopRequested, recorded>>
  BY DEF WriteStage
<1>9. EverySampleAccountedFor'
  <2>1. PICK a, b, c, d, e, h : Account(a, b, c, d, e, h) /\ recorded = a + b + c + d + e + h
    BY AccountGiven
  <2>2. PICK m \in Nat : m = windows[s]
    BY <1>3
  <2>3. PICK k \in Nat : k = Held'
    BY <1>5
  <2>7. a \in Nat /\ h \in Nat /\ Held = h
    BY <2>1 DEF Account
  <2>4. k + m = h /\ a + m \in Nat
    BY <1>4, <2>2, <2>3, <2>7
  <2>5. Account(a + m, b, c, d, e, k)'
    BY <1>6, <1>7, <1>8, <2>1, <2>2, <2>3, <2>4 DEF Account
  <2>6. recorded' = (a + m) + b + c + d + e + k
    <3>1. recorded' = a + b + c + d + e + h
      BY <1>8, <2>1
    <3>2. a \in Nat /\ b \in Nat /\ c \in Nat /\ d \in Nat /\ e \in Nat /\ h \in Nat
      BY <2>1 DEF Account
    <3> QED BY <2>4, <3>1, <3>2
  <2> QED
    BY <2>5, <2>6, AccountHolds
<1>10. \A r \in DiagnosticStages \ interval'.todo : summarizer = "write_last" => windows'[r] = 0
  BY <1>1, <1>2, <1>7 DEF DiagnosticsInv
<1> QED
  BY <1>3, <1>6, <1>7, <1>8, <1>9, <1>10 DEF DiagnosticsInv

\* DiagnosticsInv is inductive.
LEMMA DiagnosticsInvNext ==
  ASSUME DiagnosticsLimits, DiagnosticsInv, [DiagnosticsNext]_diagnosticsVars
  PROVE  DiagnosticsInv'
<1>1. PICK a, b, c, d, e, h : Account(a, b, c, d, e, h) /\ recorded = a + b + c + d + e + h
  BY AccountGiven
<1>2. ASSUME NEW s \in DiagnosticStages, RecordNs(s) PROVE DiagnosticsInv'
  <2>1. /\ ~stopRequested /\ recorded < MaxSamples /\ recorded' = recorded + 1
        /\ UNCHANGED <<windows, interval, rows, summarizer, stopRequested>> /\ Held' = Held
    BY <1>2 DEF RecordNs, Held
  <2>4. recorded' \in 0 .. MaxSamples
    BY <2>1 DEF DiagnosticsInv, DiagnosticsLimits
  <2>2. CASE Len(sampleChannel) < SampleCapacity /\ summarizer \notin {"ended", "failed"}
    <3>1. sampleChannel' = Append(sampleChannel, s) /\ dropped' = dropped
      BY <1>2, <2>2 DEF RecordNs
    <3>2. sampleChannel' \in Seq(DiagnosticStages) /\ Len(sampleChannel') = Len(sampleChannel) + 1
      BY <3>1 DEF DiagnosticsInv
    <3>3. Account(a, b, c, d, e + 1, h)' /\ recorded' = a + b + c + d + (e + 1) + h
      BY <1>1, <2>1, <3>1, <3>2 DEF Account
    <3>4. EverySampleAccountedFor'
      BY <3>3, AccountHolds
    <3>5. Len(sampleChannel') <= SampleCapacity
      BY <1>1, <2>2, <3>2 DEF DiagnosticsLimits, Account
    <3>6. summarizer \notin {"last", "write_last", "ended"}
      BY <2>1 DEF DiagnosticsInv
    <3> QED
      BY <2>1, <2>4, <3>1, <3>2, <3>4, <3>5, <3>6 DEF DiagnosticsInv
  <2>3. CASE ~(Len(sampleChannel) < SampleCapacity /\ summarizer \notin {"ended", "failed"})
    <3>1. dropped' = dropped + 1 /\ sampleChannel' = sampleChannel
      BY <1>2, <2>3 DEF RecordNs
    <3>2. Account(a, b, c + 1, d, e, h)' /\ recorded' = a + b + (c + 1) + d + e + h
      BY <1>1, <2>1, <3>1 DEF Account
    <3>3. EverySampleAccountedFor'
      BY <3>2, AccountHolds
    <3>4. dropped' \in Nat /\ summarizer \notin {"last", "write_last", "ended"}
      BY <2>1, <3>1 DEF DiagnosticsInv
    <3> QED
      BY <2>1, <2>4, <3>1, <3>3, <3>4 DEF DiagnosticsInv
  <2> QED BY <2>2, <2>3
<1>3. CASE StopAndJoin
  BY <1>3 DEF StopAndJoin, DiagnosticsInv, EverySampleAccountedFor, Held
<1>4. CASE SeeStop
  BY <1>4 DEF SeeStop, DiagnosticsInv, EverySampleAccountedFor, Held
<1>5. ASSUME TakeSample, UNCHANGED <<dropped, interval, rows, stopRequested, recorded>>,
             \/ summarizer = "loop" /\ summarizer' \in {"loop", "row"}
             \/ summarizer = "drain" /\ summarizer' = "drain"
      PROVE  DiagnosticsInv'
  <2>1. /\ sampleChannel' \in Seq(DiagnosticStages) /\ Len(sampleChannel') + 1 = Len(sampleChannel)
        /\ windows' \in [DiagnosticStages -> Nat] /\ Held' = Held + 1
        /\ Len(sampleChannel') \in Nat
    BY <1>5, TakenSample
  <2>2. Account(a, b, c, d, e - 1, h + 1)' /\ recorded' = a + b + c + d + (e - 1) + (h + 1)
    <3>1. e - 1 \in Nat /\ h + 1 \in Nat /\ Len(sampleChannel') = e - 1 /\ Held' = h + 1
      BY <1>1, <2>1 DEF Account
    <3>2. Account(a, b, c, d, e - 1, h + 1)'
      BY <1>1, <1>5, <3>1 DEF Account
    <3>3. recorded' = a + b + c + d + (e - 1) + (h + 1)
      BY <1>1, <1>5 DEF Account
    <3> QED BY <3>2, <3>3
  <2>3. EverySampleAccountedFor'
    BY <2>2, AccountHolds
  <2>4. Len(sampleChannel') <= SampleCapacity
    BY <2>1 DEF DiagnosticsInv, DiagnosticsLimits
  <2> QED
    BY <1>5, <2>1, <2>3, <2>4 DEF DiagnosticsInv
<1>6. CASE ReceiveSample
  BY <1>5, <1>6 DEF ReceiveSample
<1>7. CASE IntervalElapsed
  BY <1>7 DEF IntervalElapsed, DiagnosticsInv, EverySampleAccountedFor, Held
<1>8. CASE DrainSamples
  <2>1. CASE TakeSample /\ UNCHANGED summarizer
    BY <1>5, <1>8, <2>1 DEF DrainSamples
  <2>2. CASE Drained /\ summarizer' = "last" /\ UNCHANGED <<sampleChannel, windows>>
    BY <1>8, <2>2 DEF DrainSamples, Drained, DiagnosticsInv, EverySampleAccountedFor, Held
  <2> QED BY <1>8, <2>1, <2>2 DEF DrainSamples
<1>9. CASE BeginInterval
  <2>1. /\ summarizer \in {"row", "last"} /\ dropped' = 0
        /\ interval' = [drops |-> dropped, todo |-> {s \in DiagnosticStages : windows[s] > 0}]
        /\ summarizer' = IF summarizer = "row" THEN "write" ELSE "write_last"
        /\ UNCHANGED <<sampleChannel, windows, rows, stopRequested, recorded>> /\ Held' = Held
    BY <1>9 DEF BeginInterval, Held
  <2>2. /\ interval' \in [drops : Nat, todo : SUBSET DiagnosticStages] /\ interval'.drops = dropped
        /\ interval.drops = 0
    BY <2>1 DEF DiagnosticsInv, NoInterval
  <2>5. d = 0 /\ Account(a, b, 0, c, e, h)' /\ recorded' = a + b + 0 + c + e + h
    BY <1>1, <2>1, <2>2 DEF Account
  <2>3. EverySampleAccountedFor'
    BY <2>5, AccountHolds
  <2>4. \A s \in DiagnosticStages \ interval'.todo : windows[s] = 0
    <3>1. \A s \in DiagnosticStages : windows[s] \in Nat
      BY DEF DiagnosticsInv
    <3> QED BY <2>1, <3>1
  <2> QED
    BY <2>1, <2>2, <2>3, <2>4 DEF DiagnosticsInv
<1>10. CASE WriteStage
  BY <1>10, WrittenStage
<1>11. CASE EndInterval
  <2>1. /\ summarizer \in {"write", "write_last"} /\ interval.todo = {}
        /\ rows' = [rows EXCEPT !.dropped = @ + interval.drops] /\ interval' = NoInterval
        /\ summarizer' = IF summarizer = "write" THEN "loop" ELSE "ended"
        /\ UNCHANGED <<sampleChannel, dropped, windows, stopRequested, recorded>> /\ Held' = Held
    BY <1>11 DEF EndInterval, Held
  <2>2. interval'.drops = 0 /\ interval'.todo = {}
        /\ interval' \in [drops : Nat, todo : SUBSET DiagnosticStages]
    BY <2>1 DEF NoInterval
  <2>3. rows \in [accepted : Nat, dropped : Nat] /\ interval.drops \in Nat
    BY DEF DiagnosticsInv
  <2>4. rows' \in [accepted : Nat, dropped : Nat] /\ rows'.accepted = rows.accepted
        /\ rows'.dropped = rows.dropped + interval.drops
    BY <2>1, <2>3
  <2>5. Account(a, b + d, c, 0, e, h)' /\ recorded' = a + (b + d) + c + 0 + e + h
    BY <1>1, <2>1, <2>2, <2>4 DEF Account
  <2>6. EverySampleAccountedFor'
    BY <2>5, AccountHolds
  <2> QED
    BY <2>1, <2>2, <2>4, <2>6 DEF DiagnosticsInv
<1>12. CASE WriteFails
  BY <1>12 DEF WriteFails, DiagnosticsInv, EverySampleAccountedFor, Held
<1>13. CASE UNCHANGED diagnosticsVars
  BY <1>13 DEF diagnosticsVars, DiagnosticsInv, EverySampleAccountedFor, Held
<1> QED
  BY <1>2, <1>3, <1>4, <1>6, <1>7, <1>8, <1>9, <1>10, <1>11, <1>12, <1>13
     DEF DiagnosticsNext, Summarizer

LEMMA DiagnosticsInvGives == DiagnosticsLimits /\ DiagnosticsInv => DiagnosticsCorrect
<1> SUFFICES ASSUME DiagnosticsLimits, DiagnosticsInv PROVE DiagnosticsCorrect
  OBVIOUS
<1>1. /\ recorded = rows.accepted + rows.dropped + dropped + interval.drops + Len(sampleChannel) + Held
      /\ recorded \in 0 .. MaxSamples /\ dropped \in Nat /\ Len(sampleChannel) \in Nat /\ Held \in Nat
      /\ rows.accepted \in Nat /\ rows.dropped \in Nat /\ interval.drops \in Nat
      /\ windows \in [DiagnosticStages -> Nat] /\ MaxSamples \in Nat
  BY WindowsAreSizes DEF DiagnosticsInv, EverySampleAccountedFor, Held, DiagnosticsLimits
<1>2. windows \in [DiagnosticStages -> 0 .. MaxSamples]
  <2>1. ASSUME NEW s \in DiagnosticStages PROVE windows[s] \in 0 .. MaxSamples
    <3>1. windows[s] <= Held /\ windows[s] \in Nat
      BY <1>1, WindowWithinTotal DEF Held
    <3> QED BY <1>1, <3>1
  <2> QED BY <1>1, <2>1
<1>3. dropped \in 0 .. MaxSamples /\ interval.drops \in 0 .. MaxSamples
  BY <1>1
<1>4. DiagnosticsTypeOK
  BY <1>2, <1>3 DEF DiagnosticsInv, DiagnosticsTypeOK
<1>5. NothingHeldAtTheEnd
  <2> SUFFICES ASSUME summarizer = "ended" PROVE recorded = rows.accepted + rows.dropped
    BY DEF NothingHeldAtTheEnd
  <2>1. dropped = 0 /\ interval = NoInterval /\ sampleChannel = << >>
        /\ \A s \in DiagnosticStages \ interval.todo : windows[s] = 0
    BY DEF DiagnosticsInv
  <2>2. windows = [s \in DiagnosticStages |-> 0] /\ interval.drops = 0 /\ Len(sampleChannel) = 0
    BY <1>1, <2>1 DEF NoInterval
  <2>3. Held = 0
    BY <2>2, EmptyWindows DEF Held
  <2> QED
    BY <1>1, <2>1, <2>2, <2>3
<1> QED
  BY <1>4, <1>5 DEF DiagnosticsCorrect, DiagnosticsInv

\* The file of the profiler accounts for every sample once, and for all of them when
\* the worker has ended without a failed write (record_ns, diagnostics_worker,
\* diagnostics.rs).
THEOREM DiagnosticsAreCorrect == DiagnosticsLimits /\ DiagnosticsSpec => []DiagnosticsCorrect
<1> SUFFICES ASSUME DiagnosticsLimits PROVE DiagnosticsSpec => []DiagnosticsCorrect
  OBVIOUS
<1>1. DiagnosticsInit => DiagnosticsInv
  BY DiagnosticsInvInit
<1>2. DiagnosticsInv /\ [DiagnosticsNext]_diagnosticsVars => DiagnosticsInv'
  BY DiagnosticsInvNext
<1>3. DiagnosticsInv => DiagnosticsCorrect
  BY DiagnosticsInvGives
<1> QED
  BY <1>1, <1>2, <1>3, PTL DEF DiagnosticsSpec

-----------------------------------------------------------------------------
(* The servers' UTC offset (TimeAlignment). *)

\* An offset is found only for a broker with a fixed one, whose server's does not
\* change with the season; FoundOffsetIsTheServers alone would not survive SeasonChanges.
OffsetInv ==
  /\ OffsetTypeOK /\ summer \in BOOLEAN /\ auto_utc_offset \in BOOLEAN
  /\ OneOffsetPerBook /\ OnlyVerifiedCandles
  /\ found \in {"tick", "heartbeat"} => rule = "Fixed" /\ active_utc_offset = Server

LEMMA HourlyFacts ==
  ASSUME NEW q \in Int
  PROVE  Hourly(q) \in Int /\ Hourly(q) % Hour = 0
<1>1. \A k \in Int : (k * 4) % 4 = 0 /\ (0 - k * 4) % 4 = 0
  OBVIOUS
<1>2. CASE q >= 0
  <2>1. (q + 2) \div 4 \in Int /\ Hourly(q) = ((q + 2) \div 4) * 4
    BY <1>2 DEF Hourly, Hour
  <2> QED BY <1>1, <2>1 DEF Hour
<1>3. CASE ~(q >= 0)
  <2>1. (2 - q) \div 4 \in Int /\ Hourly(q) = 0 - ((2 - q) \div 4) * 4
    BY <1>3 DEF Hourly, Hour
  <2> QED BY <1>1, <2>1 DEF Hour
<1> QED BY <1>2, <1>3

\* A sample less than half an hour old is rounded to the server's offset.
LEMMA FreshSample ==
  ASSUME OffsetLimits, NEW age \in {0, 1}
  PROVE  Hourly(Server - age) = Server
<1>1. Server \in Int /\ Server % 4 = 0
  BY DEF OffsetLimits, Hour
<1>2. PICK k \in Int : Server = 4 * k
  BY <1>1
<1>3. CASE 4 * k - age >= 0
  <2>1. (4 * k - age + 2) \div 4 = k
    OBVIOUS
  <2> QED BY <1>2, <1>3, <2>1 DEF Hourly, Hour
<1>4. CASE ~(4 * k - age >= 0)
  <2>1. (2 - (4 * k - age)) \div 4 = 0 - k
    OBVIOUS
  <2> QED BY <1>2, <1>4, <2>1 DEF Hourly, Hour
<1> QED BY <1>2, <1>3, <1>4

\* What OffsetInv asks of the state a frame leaves, Set(s).
Settles(s) ==
  /\ s.offset \in Int /\ s.verified \in BOOLEAN
  /\ s.source # "configured" => s.offset % Hour = 0
  /\ s.book \subseteq {s.offset} /\ s.mid \subseteq {s.offset}
  /\ ~s.verified => s.book = {} /\ s.mid = {}
  /\ s.source \in {"tick", "heartbeat"} => rule = "Fixed" /\ s.offset = Server

LEMMA SetKeeps ==
  ASSUME OffsetInv, NEW s, Settles(s), Set(s), UNCHANGED <<rule, auto_utc_offset, summer>>
  PROVE  OffsetInv'
BY DEF OffsetInv, Settles, Set, OffsetTypeOK, OneOffsetPerBook, OnlyVerifiedCandles

LEMMA SameSettles == OffsetInv => Settles(Same)
BY DEF OffsetInv, Settles, Same, OffsetTypeOK, OneOffsetPerBook, OnlyVerifiedCandles

LEMMA TakenOverSettles ==
  ASSUME OffsetInv, NEW offset \in Int, offset % Hour = 0, NEW source,
         source \in {"tick", "heartbeat"} => rule = "Fixed" /\ offset = Server
  PROVE  Settles(TakeOver(offset, source))
<1>1. CASE active_utc_offset # offset \/ ~utc_verified
  BY <1>1 DEF TakeOver, Settles, MidBookCleared
<1>2. CASE ~(active_utc_offset # offset \/ ~utc_verified)
  BY <1>2 DEF TakeOver, Settles, OffsetInv, OffsetTypeOK, OneOffsetPerBook, OnlyVerifiedCandles
<1> QED BY <1>1, <1>2

LEMMA BatchKeeps ==
  ASSUME OffsetLimits, OffsetInv, NEW warmup \in BOOLEAN, NEW age \in Ages, TickBatch(warmup, age)
  PROVE  OffsetInv'
<1> DEFINE s == IF rule = "NyClose"
                THEN IF ResolveOffset(rule, 0) # active_utc_offset
                     THEN [TakeOver(ResolveOffset(rule, 0), "rule") EXCEPT !.verified = utc_verified]
                     ELSE Same
                ELSE IF auto_utc_offset /\ rule = "Fixed" /\ ~warmup
                THEN TakeOver(Hourly(ServerOffset - age), IF age < 2 THEN "tick" ELSE "late tick")
                ELSE Same
           t == IF Normalised(s) THEN [s EXCEPT !.book = @ \cup {s.offset}, !.mid = @ \cup {s.offset}]
                                 ELSE s
<1>1. Set(t) /\ UNCHANGED <<rule, auto_utc_offset, summer>>
  BY DEF TickBatch
<1>2. Settles(s)
  <2>1. CASE rule = "NyClose" /\ ResolveOffset(rule, 0) # active_utc_offset
    <3>1. PICK offset : offset = ResolveOffset(rule, 0)
      OBVIOUS
    <3>2. offset \in Int /\ offset % Hour = 0 /\ offset # active_utc_offset
      BY <2>1, <3>1 DEF ResolveOffset, Hour, OffsetInv
    <3>3. s = [offset |-> offset, verified |-> utc_verified, source |-> "rule", book |-> {}, mid |-> {}]
      BY <2>1, <3>1, <3>2 DEF TakeOver, MidBookCleared
    <3>4. utc_verified \in BOOLEAN
      BY DEF OffsetInv, OffsetTypeOK
    <3> HIDE DEF s
    <3> QED BY <3>2, <3>3, <3>4 DEF Settles
  <2>2. CASE rule = "Fixed" /\ auto_utc_offset /\ ~warmup
    <3>1. ServerOffset = Server /\ Server \in Int /\ age \in Nat
      BY <2>2 DEF ServerOffset, OffsetLimits
    <3>2. PICK offset : offset = Hourly(Server - age)
      OBVIOUS
    <3>3. offset \in Int /\ offset % Hour = 0
      BY <3>1, <3>2, HourlyFacts
    <3>4. PICK source : source = IF age < 2 THEN "tick" ELSE "late tick"
      OBVIOUS
    <3>5. source \in {"tick", "heartbeat"} => offset = Server
      <4> SUFFICES ASSUME source \in {"tick", "heartbeat"} PROVE offset = Server
        OBVIOUS
      <4>1. age \in {0, 1}
        <5>1. age < 2
          BY <3>4
        <5> QED BY <3>1, <5>1
      <4> QED BY <3>2, <4>1, FreshSample
    <3>6. s = TakeOver(offset, source)
      BY <2>2, <3>1, <3>2, <3>4
    <3> HIDE DEF s
    <3> QED BY <2>2, <3>3, <3>5, <3>6, TakenOverSettles
  <2>3. CASE ~(rule = "NyClose" /\ ResolveOffset(rule, 0) # active_utc_offset)
             /\ ~(rule = "Fixed" /\ auto_utc_offset /\ ~warmup)
    <3>1. s = Same
      BY <2>3
    <3> HIDE DEF s
    <3> QED BY <3>1, SameSettles
  <2> QED BY <2>1, <2>2, <2>3
<1>3. Settles(t)
  <2>1. s = Same \/ (\E o, v, c, b, m : s = [offset |-> o, verified |-> v, source |-> c, book |-> b, mid |-> m])
    BY DEF TakeOver, Same
  <2>2. \E o, v, c, b, m : s = [offset |-> o, verified |-> v, source |-> c, book |-> b, mid |-> m]
    BY <2>1 DEF Same
  <2> HIDE DEF s
  <2>3. PICK o, v, c, b, m : s = [offset |-> o, verified |-> v, source |-> c, book |-> b, mid |-> m]
    BY <2>2
  <2>4. CASE Normalised(s)
    <3>1. t = [offset |-> o, verified |-> v, source |-> c, book |-> b \cup {o}, mid |-> m \cup {o}] /\ v
      BY <2>3, <2>4 DEF Normalised
    <3> HIDE DEF t
    <3> QED BY <1>2, <2>3, <3>1 DEF Settles
  <2>5. CASE ~Normalised(s)
    BY <1>2, <2>5
  <2> QED BY <2>4, <2>5
<1> HIDE DEF t
<1> QED BY <1>1, <1>3, SetKeeps

LEMMA HeartbeatKeeps ==
  ASSUME OffsetLimits, OffsetInv, NEW has_sample \in BOOLEAN, NEW age \in Ages,
         Heartbeat(has_sample, age)
  PROVE  OffsetInv'
<1>1. PICK sample : sample = IF has_sample THEN ServerOffset - age ELSE 0
  OBVIOUS
<1>2. PICK s : s = IF /\ rule = "Fixed" /\ auto_utc_offset
                      /\ has_sample \/ sample # 0
                      /\ sample \in -12 * Hour..14 * Hour
                   THEN TakeOver(Hourly(sample), IF age < 2 THEN "heartbeat" ELSE "late tick") ELSE Same
  OBVIOUS
<1>3. Set(s) /\ UNCHANGED <<rule, auto_utc_offset, summer>>
  BY <1>1, <1>2 DEF Heartbeat
<1>4. Settles(s)
  <2>1. CASE /\ rule = "Fixed" /\ auto_utc_offset
             /\ has_sample \/ sample # 0
             /\ sample \in -12 * Hour..14 * Hour
    <3>1. has_sample /\ ServerOffset = Server /\ Server \in Int /\ age \in Nat
      BY <1>1, <2>1 DEF ServerOffset, OffsetLimits
    <3>2. PICK offset : offset = Hourly(sample)
      OBVIOUS
    <3>3. sample = Server - age /\ sample \in Int
      BY <1>1, <3>1
    <3>4. offset \in Int /\ offset % Hour = 0
      BY <3>2, <3>3, HourlyFacts
    <3>5. PICK source : source = IF age < 2 THEN "heartbeat" ELSE "late tick"
      OBVIOUS
    <3>6. source \in {"tick", "heartbeat"} => offset = Server
      <4> SUFFICES ASSUME source \in {"tick", "heartbeat"} PROVE offset = Server
        OBVIOUS
      <4>1. age \in {0, 1}
        <5>1. age < 2
          BY <3>5
        <5> QED BY <3>1, <5>1
      <4> QED BY <3>2, <3>3, <4>1, FreshSample
    <3>7. s = TakeOver(offset, source)
      BY <1>2, <2>1, <3>2, <3>5
    <3> QED BY <2>1, <3>4, <3>6, <3>7, TakenOverSettles
  <2>2. CASE ~(/\ rule = "Fixed" /\ auto_utc_offset
               /\ has_sample \/ sample # 0
               /\ sample \in -12 * Hour..14 * Hour)
    BY <1>2, <2>2, SameSettles
  <2> QED BY <2>1, <2>2
<1> QED BY <1>3, <1>4, SetKeeps

LEMMA OffsetInvInit == OffsetLimits /\ OffsetInit => OffsetInv
<1> SUFFICES ASSUME OffsetLimits, OffsetInit PROVE OffsetInv
  OBVIOUS
<1>1. active_utc_offset \in Int
  BY DEF OffsetInit, OffsetLimits, ResolveOffset, Hour
<1> QED
  BY <1>1 DEF OffsetInit, OffsetInv, OffsetTypeOK, OneOffsetPerBook, OnlyVerifiedCandles

\* OffsetInv is inductive.
LEMMA OffsetInvNext ==
  ASSUME OffsetLimits, OffsetInv, [OffsetNext]_offsetVars PROVE OffsetInv'
<1>1. CASE \E warmup \in BOOLEAN, age \in Ages : TickBatch(warmup, age)
  BY <1>1, BatchKeeps
<1>2. CASE \E has_sample \in BOOLEAN, age \in Ages : Heartbeat(has_sample, age)
  BY <1>2, HeartbeatKeeps
<1>3. CASE SeasonChanges
  BY <1>3 DEF SeasonChanges, OffsetInv, OffsetTypeOK, OneOffsetPerBook, OnlyVerifiedCandles
<1>4. CASE OnResetState
  BY <1>4 DEF OnResetState, OffsetInv, OffsetTypeOK, OneOffsetPerBook, OnlyVerifiedCandles
<1>5. CASE UNCHANGED offsetVars
  BY <1>5 DEF offsetVars, OffsetInv, OffsetTypeOK, OneOffsetPerBook, OnlyVerifiedCandles
<1> QED
  BY <1>1, <1>2, <1>3, <1>4, <1>5 DEF OffsetNext

\* A broker's candles were all placed with one verified offset, the one in force, and
\* one found from a fresh tick or heartbeat is the server's (process_frame,
\* engine.rs).
THEOREM OffsetIsCorrect == OffsetLimits /\ OffsetSpec => []OffsetCorrect
<1> SUFFICES ASSUME OffsetLimits PROVE OffsetSpec => []OffsetCorrect
  OBVIOUS
<1>1. OffsetInit => OffsetInv
  BY OffsetInvInit
<1>2. OffsetInv /\ [OffsetNext]_offsetVars => OffsetInv'
  BY OffsetInvNext
<1>3. OffsetInv => OffsetCorrect
  BY DEF OffsetInv, OffsetCorrect, FoundOffsetIsTheServers, ServerOffset
<1> QED
  BY <1>1, <1>2, <1>3, PTL DEF OffsetSpec

-----------------------------------------------------------------------------
(* The price difference of the compared pair (PairDifference). *)

PairPoints ==
  {p \in [at : 0 .. LastReceived, diff : Int, rx : [Sides -> Nat]] : InStep(p)}

\* Besides what PairCorrect says: as long as each side's ticks are in order, so are all
\* points computed, and one of the quotes is not older than the last of them.
PairInv ==
  /\ pair_quotes \in [Sides -> [mid : Nat, rx : 0 .. LastReceived]]
  /\ in_order \in BOOLEAN
  /\ offered \in Seq(PairPoints) /\ ring_buffer \in Seq(PairPoints)
  /\ Len(ring_buffer) <= MaxPoints /\ Len(ring_buffer) <= Len(offered)
  /\ \A i \in 1 .. Len(ring_buffer) :
       ring_buffer[i] = offered[Len(offered) - Len(ring_buffer) + i]
  /\ in_order =>
       /\ \A i \in 1 .. Len(offered) : \E s \in Sides : offered[i].at <= pair_quotes[s].rx
       /\ \A i, j \in 1 .. Len(offered) : i < j => offered[i].at <= offered[j].at
       /\ \A i \in 1 .. Len(ring_buffer) :
            offered[Len(offered)].at - ring_buffer[i].at <= Visible
  /\ Len(ring_buffer) < Len(offered) =>
       \/ Len(ring_buffer) = MaxPoints
       \/ \E j \in Len(offered) - Len(ring_buffer) + 1 .. Len(offered) :
            offered[Len(offered) - Len(ring_buffer)].at < offered[j].at - Visible

\* Pruned keeps the points from this one on.
FirstKept(points, now, first) ==
  /\ first \in 1 .. Len(points)
  /\ Pruned(points, now) = SubSeq(points, first, Len(points))
  /\ \E k \in 1 .. first : points[k].at >= now - Visible
  /\ first > Len(points) - MaxPoints
  /\ first > 1 => \/ points[first - 1].at < now - Visible
                  \/ first - 1 <= Len(points) - MaxPoints

\* The newest point always stays, so there is a first one that does.
LEMMA FirstStays ==
  ASSUME PairLimits, NEW points \in Seq(PairPoints), NEW now \in Nat,
         points # << >>, points[Len(points)].at = now
  PROVE  \E first : FirstKept(points, now, first)
<1> HIDE DEF PairPoints
<1>1. PICK n \in Nat : n = Len(points) /\ n >= 1 /\ DOMAIN points = 1 .. n
  OBVIOUS
<1>2. \A i \in 1 .. n : points[i].at \in Nat
  <2>1. \A i \in 1 .. n : points[i] \in PairPoints
    BY <1>1
  <2>2. \A q \in PairPoints : q.at \in 0 .. LastReceived
    BY DEF PairPoints
  <2> QED BY <2>1, <2>2 DEF PairLimits
<1>3. n \in Staying(points, now) /\ Staying(points, now) \in SUBSET Nat
  BY <1>1 DEF Staying, PairLimits
<1>4. PICK first \in Staying(points, now) : \A k \in Staying(points, now) : first <= k
  BY <1>3, LeastExists
<1>5. Min(Staying(points, now)) = first
  BY <1>3, <1>4 DEF Min
<1>6. /\ first \in 1 .. n /\ first > n - MaxPoints
      /\ \E k \in 1 .. first : points[k].at >= now - Visible
  BY <1>1, <1>4 DEF Staying
<1>7. ASSUME first > 1
      PROVE  points[first - 1].at < now - Visible \/ first - 1 <= n - MaxPoints
  <2>1. first - 1 \in 1 .. n /\ first - 1 \notin Staying(points, now)
    BY <1>3, <1>4, <1>6, <1>7
  <2>2. ~(points[first - 1].at >= now - Visible) \/ ~(first - 1 > n - MaxPoints)
    <3>1. first - 1 \in 1 .. first - 1
      BY <2>1
    <3> QED BY <1>1, <2>1, <3>1 DEF Staying
  <2> QED BY <1>2, <2>1, <2>2 DEF PairLimits
<1> QED
  BY <1>1, <1>5, <1>6, <1>7 DEF Pruned, FirstKept

\* A point is added, and the series pruned.
LEMMA PointAdded ==
  ASSUME PairLimits, PairInv, NEW p \in PairPoints, NEW now \in 0 .. LastReceived, p.at = now,
         pair_quotes' \in [Sides -> [mid : Nat, rx : 0 .. LastReceived]],
         \E s \in Sides : pair_quotes'[s].rx = now,
         in_order' \in BOOLEAN,
         in_order' => in_order /\ \A i \in 1 .. Len(offered) : offered[i].at <= now,
         offered' = Append(offered, p),
         ring_buffer' = Pruned(Append(ring_buffer, p), now)
  PROVE  PairInv'
<1> DEFINE points == Append(ring_buffer, p)
<1> HIDE DEF PairPoints
<1>1. PICK n \in Nat : n = Len(ring_buffer)
  BY DEF PairInv
<1>2. PICK l \in Nat : l = Len(offered) /\ n <= l
  BY <1>1 DEF PairInv
<1>3. /\ points \in Seq(PairPoints) /\ Len(points) = n + 1 /\ points # << >> /\ points[n + 1] = p
      /\ \A i \in 1 .. n : points[i] = ring_buffer[i]
  <2>1. ring_buffer \in Seq(PairPoints)
    BY DEF PairInv
  <2>2. /\ points \in Seq(PairPoints) /\ points # << >> /\ Len(points) = Len(ring_buffer) + 1
        /\ points[Len(ring_buffer) + 1] = p
        /\ \A i \in 1 .. Len(ring_buffer) : points[i] = ring_buffer[i]
    BY <2>1, AppendProperties
  <2> HIDE DEF points
  <2> QED BY <1>1, <2>2
<1>4. /\ offered' \in Seq(PairPoints) /\ Len(offered') = l + 1 /\ offered'[l + 1] = p
      /\ \A i \in 1 .. l : offered'[i] = offered[i]
  BY <1>2, AppendProperties DEF PairInv
<1>5. /\ \A i \in 1 .. l : offered[i] \in PairPoints
      /\ \A i \in 1 .. n : ring_buffer[i] \in PairPoints
  BY <1>1, <1>2 DEF PairInv
<1>6. \A q \in PairPoints : q.at \in Nat
  BY DEF PairPoints, PairLimits
<1>7. now \in Nat /\ Visible \in Nat /\ MaxPoints \in Nat /\ MaxPoints >= 1
  BY DEF PairInv, PairLimits
<1>8. PICK first : /\ first \in 1 .. n + 1
                   /\ ring_buffer' = SubSeq(points, first, n + 1)
                   /\ \E k \in 1 .. first : points[k].at >= now - Visible
                   /\ first > n + 1 - MaxPoints
                   /\ first > 1 => \/ points[first - 1].at < now - Visible
                                   \/ first - 1 <= n + 1 - MaxPoints
  <2>1. points[Len(points)].at = now
    BY <1>3
  <2> HIDE DEF points
  <2>2. ring_buffer' = Pruned(points, now)
    BY DEF points
  <2>3. \E first : FirstKept(points, now, first)
    BY <1>3, <1>7, <2>1, FirstStays
  <2>4. PICK k : FirstKept(points, now, k)
    BY <2>3
  <2>5. Len(points) = n + 1
    BY <1>3
  <2>6. /\ k \in 1 .. Len(points)
        /\ Pruned(points, now) = SubSeq(points, k, Len(points))
        /\ k > Len(points) - MaxPoints
        /\ k > 1 => \/ points[k - 1].at < now - Visible
                    \/ k - 1 <= Len(points) - MaxPoints
    BY <2>4, Zenon DEF FirstKept
  <2>7. k \in 1 .. n + 1 /\ k > n + 1 - MaxPoints
    BY <1>1, <1>7, <2>5, <2>6
  <2>8. ring_buffer' = SubSeq(points, k, n + 1)
    BY <2>2, <2>5, <2>6, Zenon
  <2>9. k > 1 => points[k - 1].at < now - Visible \/ k - 1 <= n + 1 - MaxPoints
    BY <1>1, <1>7, <2>5, <2>6, SMTT(30)
  <2>10. \E j \in 1 .. k : points[j].at >= now - Visible
    BY <2>4 DEF FirstKept
  <2> QED
    BY <2>7, <2>8, <2>9, <2>10
<1> HIDE DEF points
<1>9. PICK m \in Nat : m = n + 2 - first /\ m >= 1 /\ m <= MaxPoints /\ m <= n + 1
  BY <1>7, <1>8
<1>19. first \in Nat /\ first >= 1 /\ first <= n + 1 /\ m = n + 2 - first
  BY <1>8, <1>9
<1>10. /\ ring_buffer' \in Seq(PairPoints) /\ Len(ring_buffer') = m
       /\ \A i \in 1 .. m : ring_buffer'[i] = points[first + i - 1]
  <2>1. ring_buffer' \in Seq(PairPoints)
    BY <1>3, <1>8, SubSeqProperties
  <2>2. Len(ring_buffer') = m
    BY <1>3, <1>8, <1>9, SubSeqProperties
  <2>3. \A i \in 1 .. m : ring_buffer'[i] = points[first + i - 1]
    BY <1>3, <1>8, <1>9, SubSeqProperties
  <2> QED BY <2>1, <2>2, <2>3
\* The points with the new one are the end of all computed.
<1>11. ASSUME NEW i \in 1 .. n + 1
       PROVE  points[i] = offered'[l - n + i] /\ l - n + i \in 1 .. l + 1
  <2>1. CASE i = n + 1
    BY <1>2, <1>3, <1>4, <2>1
  <2>2. CASE i # n + 1
    <3>1. i \in 1 .. n /\ l - n + i \in 1 .. l
      BY <1>2, <2>2
    <3>2. ring_buffer[i] = offered[l - n + i]
      BY <1>1, <1>2, <3>1 DEF PairInv
    <3> QED BY <1>3, <1>4, <3>1, <3>2
  <2> QED BY <2>1, <2>2
<1>12. ASSUME NEW i \in 1 .. m
       PROVE  ring_buffer'[i] = offered'[l + 1 - m + i] /\ l + 1 - m + i \in 1 .. l + 1
  <2>1. first + i - 1 \in 1 .. n + 1 /\ l - n + (first + i - 1) = l + 1 - m + i
    BY <1>2, <1>19
  <2> QED BY <1>2, <1>9, <1>10, <1>11, <2>1
<1>13. ASSUME NEW i \in 1 .. l + 1
       PROVE  offered'[i].at \in Nat /\ (in_order' => offered'[i].at <= now)
  <2>1. CASE i = l + 1
    BY <1>4, <1>7, <2>1
  <2>2. CASE i # l + 1
    <3>1. i \in 1 .. l
      BY <2>2
    <3> QED BY <1>2, <1>4, <1>5, <1>6, <3>1
  <2> QED BY <2>1, <2>2
<1>14. ASSUME in_order', NEW i \in 1 .. l + 1, NEW j \in 1 .. l + 1, i < j
       PROVE  offered'[i].at <= offered'[j].at
  <2>1. CASE j = l + 1
    BY <1>4, <1>13, <1>14, <2>1
  <2>2. CASE j # l + 1
    <3>1. i \in 1 .. l /\ j \in 1 .. l
      BY <1>14, <2>2
    <3>2. offered[i].at <= offered[j].at
      BY <1>2, <1>14, <3>1 DEF PairInv
    <3> QED BY <1>4, <3>1, <3>2
  <2> QED BY <2>1, <2>2
<1>15. offered'[l + 1].at = now
  BY <1>4
\* In order of time, a point behind one in the window is in the window.
<1>17. ASSUME in_order', NEW i \in 1 .. m PROVE offered'[l + 1].at - ring_buffer'[i].at <= Visible
  <2>1. PICK k \in 1 .. first : points[k].at >= now - Visible
    BY <1>8
  <2>2. PICK x \in 1 .. l + 1 : x = l - n + k /\ points[k] = offered'[x]
    <3>1. k \in 1 .. n + 1
      BY <1>19
    <3> QED BY <1>11, <3>1
  <2>3. PICK y \in 1 .. l + 1 : y = l + 1 - m + i /\ ring_buffer'[i] = offered'[y]
    BY <1>12
  <2>4. x <= y
    BY <1>2, <1>9, <1>19, <2>2, <2>3
  <2>5. PICK u \in Nat, v \in Nat : u = offered'[x].at /\ v = offered'[y].at
    BY <1>13
  <2>6. u <= v
    <3>1. CASE x = y
      <4>1. u = v
        BY <2>5, <3>1
      <4> QED BY <4>1
    <3>2. CASE x # y
      <4>1. x < y
        BY <1>2, <2>4, <3>2
      <4> QED BY <1>14, <1>17, <2>5, <4>1
    <3> QED BY <3>1, <3>2
  <2>7. u >= now - Visible
    BY <2>1, <2>2, <2>5
  <2>8. now - v <= Visible
    BY <1>7, <2>6, <2>7
  <2> QED BY <1>15, <2>3, <2>5, <2>8
<1>18. ASSUME m < l + 1, m # MaxPoints
       PROVE  \E j \in l + 1 - m + 1 .. l + 1 : offered'[l + 1 - m].at < offered'[j].at - Visible
  <2>1. CASE first > 1
    <3>1. points[first - 1].at < now - Visible
      BY <1>7, <1>8, <1>9, <1>18, <2>1
    <3>2. first - 1 \in 1 .. n + 1 /\ l - n + (first - 1) = l + 1 - m
      BY <1>2, <1>19, <2>1
    <3>3. points[first - 1] = offered'[l - n + (first - 1)]
      BY <1>11, <3>2
    <3>4. l + 1 \in l + 1 - m + 1 .. l + 1
      BY <1>2, <1>9
    <3>5. offered'[l + 1 - m].at < offered'[l + 1].at - Visible
      BY <1>15, <3>1, <3>2, <3>3
    <3> QED BY <3>4, <3>5
  <2>2. CASE ~(first > 1)
    <3>1. first = 1 /\ m = n + 1 /\ n < l /\ n < MaxPoints
      BY <1>7, <1>8, <1>9, <1>18, <2>2
    <3>2. PICK j \in l - n + 1 .. l : offered[l - n].at < offered[j].at - Visible
      BY <1>1, <1>2, <3>1 DEF PairInv
    <3>3. l - n \in 1 .. l /\ j \in 1 .. l /\ l + 1 - m = l - n /\ j \in l + 1 - m + 1 .. l + 1
      BY <1>2, <3>1
    <3>4. offered'[l - n].at < offered'[j].at - Visible
      BY <1>4, <3>2, <3>3
    <3> QED BY <3>3, <3>4
  <2> QED BY <2>1, <2>2
<1>20. Len(ring_buffer') <= MaxPoints /\ Len(ring_buffer') <= Len(offered')
  BY <1>2, <1>4, <1>9, <1>10
<1>21. \A i \in 1 .. Len(ring_buffer') :
         ring_buffer'[i] = offered'[Len(offered') - Len(ring_buffer') + i]
  <2>1. Len(offered') = l + 1 /\ Len(ring_buffer') = m
    BY <1>4, <1>10
  <2>2. ASSUME NEW i \in 1 .. Len(ring_buffer')
        PROVE  ring_buffer'[i] = offered'[Len(offered') - Len(ring_buffer') + i]
    <3>1. i \in 1 .. m
      BY <2>1
    <3>2. Len(offered') - Len(ring_buffer') + i = l + 1 - m + i
      BY <2>1
    <3>3. ring_buffer'[i] = offered'[l + 1 - m + i]
      BY <1>12, <3>1
    <3> QED BY <3>2, <3>3
  <2> QED BY <2>2
<1>22. in_order' => \A i \in 1 .. Len(offered') : \E s \in Sides : offered'[i].at <= pair_quotes'[s].rx
  <2>1. PICK s \in Sides : pair_quotes'[s].rx = now
    OBVIOUS
  <2>2. ASSUME in_order', NEW i \in 1 .. Len(offered') PROVE offered'[i].at <= pair_quotes'[s].rx
    <3>1. i \in 1 .. l + 1
      BY <1>4
    <3> QED BY <1>13, <2>1, <2>2, <3>1
  <2> QED BY <2>2
<1>23. in_order' => \A i, j \in 1 .. Len(offered') : i < j => offered'[i].at <= offered'[j].at
  BY <1>4, <1>14
<1>24. in_order' => \A i \in 1 .. Len(ring_buffer') :
         offered'[Len(offered')].at - ring_buffer'[i].at <= Visible
  BY <1>4, <1>10, <1>17
<1>25. Len(ring_buffer') < Len(offered') =>
         \/ Len(ring_buffer') = MaxPoints
         \/ \E j \in Len(offered') - Len(ring_buffer') + 1 .. Len(offered') :
              offered'[Len(offered') - Len(ring_buffer')].at < offered'[j].at - Visible
  <2>1. Len(offered') = l + 1 /\ Len(ring_buffer') = m
    BY <1>4, <1>10
  <2>2. m < l + 1 =>
         \/ m = MaxPoints
         \/ \E j \in l + 1 - m + 1 .. l + 1 : offered'[l + 1 - m].at < offered'[j].at - Visible
    BY <1>18, Zenon
  <2>3. ASSUME Len(ring_buffer') < Len(offered'), Len(ring_buffer') # MaxPoints
        PROVE  \E j \in Len(offered') - Len(ring_buffer') + 1 .. Len(offered') :
                 offered'[Len(offered') - Len(ring_buffer')].at < offered'[j].at - Visible
    <3>1. PICK j \in l + 1 - m + 1 .. l + 1 : offered'[l + 1 - m].at < offered'[j].at - Visible
      BY <2>1, <2>2, <2>3
    <3>2. offered'[Len(offered') - Len(ring_buffer')].at < offered'[j].at - Visible
      <4>1. Len(offered') - Len(ring_buffer') = l + 1 - m
        BY <2>1
      <4> QED BY <3>1, <4>1
    <3>3. j \in Len(offered') - Len(ring_buffer') + 1 .. Len(offered')
      BY <2>1, <3>1
    <3> QED BY <3>2, <3>3
  <2> QED BY <2>3
<1>26. offered' \in Seq(PairPoints) /\ ring_buffer' \in Seq(PairPoints)
  BY <1>4, <1>10
<1>27. in_order' =>
         /\ \A i \in 1 .. Len(offered') : \E s \in Sides : offered'[i].at <= pair_quotes'[s].rx
         /\ \A i, j \in 1 .. Len(offered') : i < j => offered'[i].at <= offered'[j].at
         /\ \A i \in 1 .. Len(ring_buffer') :
              offered'[Len(offered')].at - ring_buffer'[i].at <= Visible
  BY <1>22, <1>23, <1>24
<1> QED
  BY <1>20, <1>21, <1>25, <1>26, <1>27, Zenon DEF PairInv

\* While each side's ticks are in order, those of the points and of the quote the
\* freshness check let through were received before this one.
LEMMA QuoteKeeps ==
  ASSUME PairLimits, PairInv, NEW s \in Sides, NEW mid \in PairPrices \cup {Nothing},
         NEW now \in 0 .. LastReceived, PairQuote(s, mid, now)
  PROVE  PairInv'
<1> DEFINE qs == [pair_quotes EXCEPT ![s] = [mid |-> mid, rx |-> now]]
<1>1. mid \in Nat /\ now \in Nat
  BY DEF PairLimits, Nothing
<1>2. /\ pair_quotes' = qs /\ qs \in [Sides -> [mid : Nat, rx : 0 .. LastReceived]]
      /\ qs[s].rx = now /\ \A t \in Sides \ {s} : qs[t] = pair_quotes[t]
      /\ in_order' = (in_order /\ pair_quotes[s].rx <= now)
  BY <1>1 DEF PairQuote, PairInv
<1>3. \A t \in Sides : qs[t].rx \in Nat /\ pair_quotes[t].rx \in Nat
  BY <1>2 DEF PairInv
<1>4. in_order' \in BOOLEAN
  BY <1>2 DEF PairInv
<1>5. in_order' => in_order /\ \A t \in Sides : pair_quotes[t].rx <= qs[t].rx
  <2>1. ASSUME in_order', NEW t \in Sides PROVE pair_quotes[t].rx <= qs[t].rx
    <3>1. CASE t = s
      BY <1>2, <2>1, <3>1
    <3>2. CASE t # s
      BY <1>2, <1>3, <3>2
    <3> QED BY <3>1, <3>2
  <2> QED BY <1>2, <2>1
<1>6. \A p \in PairPoints : p.at \in Nat
  BY DEF PairPoints, PairLimits
<1>7. \A i \in 1 .. Len(offered) : offered[i].at \in Nat
  <2>1. \A i \in 1 .. Len(offered) : offered[i] \in PairPoints
    BY DEF PairInv
  <2> QED BY <1>6, <2>1
<1>8. CASE mid # Nothing /\ Synchronized(qs, now)
  <2>1. /\ ring_buffer' = Pruned(Append(ring_buffer, Point(qs, now)), now)
        /\ offered' = Append(offered, Point(qs, now))
    BY <1>8 DEF PairQuote
  <2> HIDE DEF qs
  <2>2. \A t \in Sides : qs[t].rx <= now /\ now - qs[t].rx <= PairStale
    BY <1>8 DEF Synchronized, FreshSide
  <2>3. Point(qs, now) \in PairPoints
    <3>1. qs[1].mid \in Nat /\ qs[2].mid \in Nat /\ PairStale \in Nat
      BY <1>2 DEF Sides, PairLimits
    <3>2. qs[1].rx - qs[2].rx \in -MaxSkew .. MaxSkew
      BY <1>8 DEF Synchronized
    <3>3. PICK d \in Int : d = qs[1].mid - qs[2].mid
      BY <3>1
    <3>4. PICK r \in [Sides -> Nat] : r = [t \in Sides |-> qs[t].rx]
      BY <1>3
    <3>5. Point(qs, now) = [at |-> now, diff |-> d, rx |-> r]
      BY <3>3, <3>4 DEF Point
    <3>6. \A t \in Sides : r[t] \in (now - PairStale) .. now
      BY <1>1, <1>3, <2>2, <3>1, <3>4
    <3>7. r[1] - r[2] \in -MaxSkew .. MaxSkew
      BY <3>2, <3>4 DEF Sides
    <3>8. InStep([at |-> now, diff |-> d, rx |-> r])
      BY <3>6, <3>7 DEF InStep
    <3> QED BY <3>5, <3>8 DEF PairPoints
  <2>4. Point(qs, now).at = now
    BY DEF Point
  <2>5. in_order' => \A i \in 1 .. Len(offered) : offered[i].at <= now
    <3>1. ASSUME in_order', NEW i \in 1 .. Len(offered) PROVE offered[i].at <= now
      <4>1. PICK t \in Sides : offered[i].at <= pair_quotes[t].rx
        BY <1>5, <3>1 DEF PairInv
      <4>2. pair_quotes[t].rx <= qs[t].rx /\ qs[t].rx <= now
        BY <1>5, <2>2, <3>1
      <4> QED BY <1>1, <1>3, <1>7, <4>1, <4>2
    <3> QED BY <3>1
  <2>6. \E t \in Sides : pair_quotes'[t].rx = now
    BY <1>2
  <2> QED
    BY <1>2, <1>4, <1>5, <2>1, <2>3, <2>4, <2>5, <2>6, PointAdded
<1>9. CASE ~(mid # Nothing /\ Synchronized(qs, now))
  <2>1. UNCHANGED <<ring_buffer, offered>>
    BY <1>9 DEF PairQuote
  <2> HIDE DEF qs
  <2>2. ASSUME in_order', NEW i \in 1 .. Len(offered)
        PROVE  \E t \in Sides : offered[i].at <= pair_quotes'[t].rx
    <3>1. PICK t \in Sides : offered[i].at <= pair_quotes[t].rx
      BY <1>5, <2>2 DEF PairInv
    <3>2. pair_quotes[t].rx <= pair_quotes'[t].rx
      BY <1>2, <1>5, <2>2
    <3>3. offered[i].at <= pair_quotes'[t].rx
      BY <1>2, <1>3, <1>7, <3>1, <3>2
    <3> QED BY <3>3
  <2> HIDE DEF PairPoints
  <2> QED
    BY <1>2, <1>4, <1>5, <2>1, <2>2 DEF PairInv
<1> QED
  BY <1>8, <1>9

\* A quote is taken away: its time, and the series, stay.
LEMMA WithdrawKeeps ==
  ASSUME PairLimits, PairInv, NEW s \in Sides, Withdraw(s)
  PROVE  PairInv'
<1>1. \A t \in Sides : pair_quotes'[t].rx = pair_quotes[t].rx
  BY DEF Withdraw, PairInv
<1>2. pair_quotes' \in [Sides -> [mid : Nat, rx : 0 .. LastReceived]]
  BY DEF Withdraw, PairInv, Nothing
<1>3. ring_buffer' = ring_buffer /\ offered' = offered /\ in_order' = in_order
  BY DEF Withdraw
<1>4. in_order' => \A i \in 1 .. Len(offered') : \E t \in Sides : offered'[i].at <= pair_quotes'[t].rx
  BY <1>1, <1>3 DEF PairInv
<1> HIDE DEF PairPoints
<1> QED
  BY <1>2, <1>3, <1>4 DEF PairInv

\* An empty series.
LEMMA EmptyKeeps ==
  ASSUME PairLimits, pair_quotes' \in [Sides -> [mid : Nat, rx : 0 .. LastReceived]],
         ring_buffer' = << >>, offered' = << >>, in_order' \in BOOLEAN
  PROVE  PairInv'
<1> HIDE DEF PairPoints
<1> QED
  BY DEF PairInv, PairLimits

\* PairInv is inductive.
LEMMA PairInvNext ==
  ASSUME PairLimits, PairInv, [PairNext]_pairVars PROVE PairInv'
<1>1. CASE \E s \in Sides, mid \in PairPrices \cup {Nothing}, now \in 0 .. LastReceived :
             PairQuote(s, mid, now)
  BY <1>1, QuoteKeeps
<1>2. CASE \E s \in Sides : Withdraw(s)
  BY <1>2, WithdrawKeeps
<1>3. CASE SelectPair
  <2>1. \A s \in Sides : 3 - s \in Sides
    BY DEF Sides
  <2>2. pair_quotes' \in [Sides -> [mid : Nat, rx : 0 .. LastReceived]]
    BY <1>3, <2>1 DEF SelectPair, PairInv
  <2>3. ring_buffer' = << >> /\ offered' = << >> /\ in_order' \in BOOLEAN
    BY <1>3 DEF SelectPair, PairInv
  <2> QED
    BY <2>2, <2>3, EmptyKeeps
<1>4. CASE ResetPair
  <2>1. pair_quotes' \in [Sides -> [mid : Nat, rx : 0 .. LastReceived]]
    BY <1>4 DEF ResetPair, PairLimits, Nothing
  <2>2. ring_buffer' = << >> /\ offered' = << >> /\ in_order' \in BOOLEAN
    BY <1>4 DEF ResetPair
  <2> QED
    BY <2>1, <2>2, EmptyKeeps
<1>5. CASE UNCHANGED pairVars
  BY <1>5 DEF pairVars, PairInv
<1> QED
  BY <1>1, <1>2, <1>3, <1>4, <1>5 DEF PairNext

LEMMA PairInvInit == PairLimits /\ PairInit => PairInv
<1> SUFFICES ASSUME PairLimits, PairInit PROVE PairInv
  OBVIOUS
<1>1. pair_quotes \in [Sides -> [mid : Nat, rx : 0 .. LastReceived]]
  BY DEF PairInit, PairLimits, Nothing
<1>2. ring_buffer = << >> /\ offered = << >> /\ in_order \in BOOLEAN
  BY DEF PairInit
<1> HIDE DEF PairPoints
<1> QED
  BY <1>1, <1>2 DEF PairInv, PairLimits

LEMMA PairInvGives == PairLimits /\ PairInv => PairCorrect
<1> SUFFICES ASSUME PairLimits, PairInv PROVE PairCorrect
  OBVIOUS
<1> HIDE DEF PairPoints
<1>1. PICK n \in Nat : n = Len(ring_buffer) /\ DOMAIN ring_buffer = 1 .. n
  BY DEF PairInv
<1>2. PICK l \in Nat : l = Len(offered) /\ n <= l
  BY <1>1 DEF PairInv
<1>3. \A p \in PairPoints : p.at \in Nat /\ InStep(p)
  BY DEF PairPoints, PairLimits
<1>4. /\ \A i \in 1 .. n : ring_buffer[i] \in PairPoints /\ ring_buffer[i] = offered[l - n + i]
      /\ \A i \in 1 .. l : offered[i] \in PairPoints
  BY <1>1, <1>2 DEF PairInv
<1>5. ring_buffer = SubSeq(offered, l - n + 1, l)
  <2>1. offered \in Seq(PairPoints) /\ ring_buffer \in Seq(PairPoints)
    BY DEF PairInv
  <2>2. PICK t : t = SubSeq(offered, l - n + 1, l)
    OBVIOUS
  <2>3. t \in Seq(PairPoints) /\ Len(t) = n
    BY <1>2, <2>1, <2>2, SubSeqProperties
  <2>4. \A i \in 1 .. n : t[i] = offered[l - n + i]
    <3>1. ASSUME NEW i \in 1 .. n PROVE t[i] = offered[l - n + i]
      <4>1. t[i] = offered[(l - n + 1) + i - 1] /\ (l - n + 1) + i - 1 = l - n + i
        BY <1>2, <2>1, <2>2, SubSeqProperties
      <4> QED BY <4>1
    <3> QED BY <3>1
  <2>5. ring_buffer = t
    BY <1>1, <1>4, <2>1, <2>3, <2>4, SeqEqual
  <2> QED BY <2>2, <2>5
<1>6. ASSUME in_order, NEW i \in 1 .. n, NEW j \in 1 .. n, i < j
      PROVE  ring_buffer[j].at - ring_buffer[i].at \in 0 .. Visible
  <2>1. /\ l - n + i \in 1 .. l /\ l - n + j \in 1 .. l /\ l - n + i < l - n + j /\ l \in 1 .. l
    BY <1>2, <1>6
  <2>2. ring_buffer[i].at <= ring_buffer[j].at
    BY <1>2, <1>4, <1>6, <2>1 DEF PairInv
  <2>3. ring_buffer[j].at <= offered[l].at
    <3>1. CASE l - n + j = l
      BY <1>3, <1>4, <2>1, <3>1
    <3>2. CASE l - n + j # l
      <4>1. PICK k \in 1 .. l : k = l - n + j
        BY <2>1
      <4>2. k < l /\ l \in 1 .. l
        BY <1>2, <2>1, <3>2, <4>1
      <4>3. offered[k].at <= offered[l].at
        BY <1>2, <1>6, <4>2 DEF PairInv
      <4>4. ring_buffer[j] = offered[k]
        BY <1>4, <4>1
      <4> QED BY <4>3, <4>4
    <3> QED BY <3>1, <3>2
  <2>4. offered[l].at - ring_buffer[i].at <= Visible
    BY <1>1, <1>2, <1>6 DEF PairInv
  <2>5. ring_buffer[i].at \in Nat /\ ring_buffer[j].at \in Nat /\ offered[l].at \in Nat
    BY <1>3, <1>4, <2>1
  <2>6. Visible \in Nat
    BY DEF PairLimits
  <2> QED BY <2>2, <2>3, <2>4, <2>5, <2>6
<1>7. n < l => \/ n = MaxPoints
               \/ \E j \in l - n + 1 .. l : offered[l - n].at < offered[j].at - Visible
  BY <1>1, <1>2 DEF PairInv
<1>8. SeriesIsSynchronized
  BY <1>1, <1>2, <1>3, <1>4, <1>5, <1>6, <1>7 DEF SeriesIsSynchronized
<1> QED
  BY <1>8 DEF PairCorrect, PairTypeOK, PairInv

\* The difference series shows exactly the newest points at which both quotes of the
\* pair were fresh and in step, and it is in order of time whatever one broker's ticks
\* are forced out of turn before the other's (PairDifferenceTracker, process_frame,
\* force_drain_overflow).
THEOREM PairIsCorrect == PairLimits /\ PairSpec => []PairCorrect
<1> SUFFICES ASSUME PairLimits PROVE PairSpec => []PairCorrect
  OBVIOUS
<1>1. PairInit => PairInv
  BY PairInvInit
<1>2. PairInv /\ [PairNext]_pairVars => PairInv'
  BY PairInvNext
<1>3. PairInv => PairCorrect
  BY PairInvGives
<1> QED
  BY <1>1, <1>2, <1>3, PTL DEF PairSpec

-----------------------------------------------------------------------------
(* The candle book (CandleBook). *)

BookKeys == Nat \X Nat
BookTicks == [key : BookKeys, price : Prices]
BookSlots == [open : Prices, high : Int, low : Int, close : Prices,
              open_key : BookKeys, close_key : BookKeys, closed : BOOLEAN]

\* Tick i of fs is of the slot that starts at s.
InSlot(fs, s, i) == i \in DOMAIN fs /\ SlotStart(fs[i].key[1]) = s

\* The candle c is that of the ticks of the slot.
OpensAt(fs, s, c, i) ==
  /\ InSlot(fs, s, i) /\ c.open = fs[i].price /\ c.open_key = fs[i].key
  /\ \A j : InSlot(fs, s, j) => ~Earlier(fs[j].key, fs[i].key)
ClosesAt(fs, s, c, i) ==
  /\ InSlot(fs, s, i) /\ c.close = fs[i].price /\ c.close_key = fs[i].key
  /\ \A j : InSlot(fs, s, j) => ~Earlier(fs[i].key, fs[j].key)
HighAt(fs, s, c, i) ==
  /\ InSlot(fs, s, i) /\ c.high = fs[i].price
  /\ \A j : InSlot(fs, s, j) => fs[j].price <= fs[i].price
LowAt(fs, s, c, i) ==
  /\ InSlot(fs, s, i) /\ c.low = fs[i].price
  /\ \A j : InSlot(fs, s, j) => fs[i].price <= fs[j].price

CandleOf(fs, s, c) ==
  /\ \E i : OpensAt(fs, s, c, i)
  /\ \E i : ClosesAt(fs, s, c, i)
  /\ \E i : HighAt(fs, s, c, i)
  /\ \E i : LowAt(fs, s, c, i)

\* The ticks are in the order of their numbers.
Numbered(fs) ==
  /\ fs \in Seq(BookTicks)
  /\ \A i \in DOMAIN fs : fs[i].key[2] = i - 1 /\ fs[i].key[1] \in TickTimes

\* Besides what BookCorrect says: what a slot holds besides its prices, and a slot that
\* has ticks and is not there is so old that it does not come back.
BookInv ==
  /\ Numbered(folded) /\ utc_now \in 0 .. MaxNow
  /\ latest_slot \in {NoSlot} \cup {SlotStart(t) : t \in TickTimes} \cup 0 .. MaxNow
  /\ latest_slot = NoSlot => folded = << >>
  /\ \A s \in DOMAIN slots :
       /\ s \in Nat /\ slots[s] \in BookSlots /\ CandleOf(folded, s, slots[s])
       /\ slots[s].closed => s + Period <= utc_now
  /\ \A i \in DOMAIN folded :
       \/ SlotStart(folded[i].key[1]) \in DOMAIN slots
       \/ SlotStart(folded[i].key[1]) < Cutoff(latest_slot)

LEMMA SlotFacts ==
  ASSUME BookLimits, NEW t \in Nat
  PROVE  SlotStart(t) \in Nat /\ SlotStart(t) <= t /\ t < SlotStart(t) + Period
<1>1. PICK p \in Nat \ {0} : p = Period
  BY DEF BookLimits
<1>2. t \div p \in Nat /\ (t \div p) * p <= t /\ t < (t \div p) * p + p
  <2>1. t \div p \in Nat
    BY <1>1
  <2>2. (t \div p) * p <= t /\ t < (t \div p) * p + p
    BY <1>1
  <2> QED BY <2>1, <2>2
<1>3. (t \div p) * p \in Nat
  BY <1>2
<1> QED BY <1>1, <1>2, <1>3 DEF SlotStart

LEMMA SlotMonotone ==
  ASSUME BookLimits, NEW t \in Nat, NEW u \in Nat, t <= u
  PROVE  SlotStart(t) <= SlotStart(u)
<1>1. PICK p \in Nat \ {0} : p = Period
  BY DEF BookLimits
<1>2. PICK a \in Nat : a = t \div p
  BY <1>1
<1>3. PICK b \in Nat : b = u \div p
  BY <1>1
<1>4. t \div p <= u \div p
  BY <1>1
<1>5. a * p <= b * p
  <2>1. a <= b
    BY <1>2, <1>3, <1>4
  <2> QED BY <2>1, <1>1
<1> QED BY <1>1, <1>2, <1>3, <1>5 DEF SlotStart

LEMMA LesserOfTwo ==
  ASSUME NEW a \in Int, NEW b \in Int
  PROVE  Min({a, b}) = IF a <= b THEN a ELSE b
  BY DEF Min

LEMMA GreaterOfTwo ==
  ASSUME NEW a \in Int, NEW b \in Int
  PROVE  Max({a, b}) = IF a >= b THEN a ELSE b
  BY DEF Max

\* How far back the slots are kept.
LEMMA CutoffIs ==
  ASSUME BookLimits, NEW l \in Int, utc_now \in 0 .. MaxNow
  PROVE  \E w \in Nat : /\ w >= Period * Slots
                        /\ Cutoff(l) = (IF l <= SlotStart(utc_now) THEN l ELSE SlotStart(utc_now)) - w
                        /\ Period * (Slots + Slack - 1) = w
<1>1. PICK k \in Nat : k = Slots + Slack - 1 /\ k >= Slots
  BY DEF BookLimits
<1>2. PICK w \in Nat : w = Period * k /\ w >= Period * Slots
  <2>1. PICK p \in Nat : p = Period
    BY DEF BookLimits
  <2>2. PICK n \in Nat : n = Slots
    BY DEF BookLimits
  <2>3. p * k \in Nat /\ p * k >= p * n
    BY <1>1, <2>2
  <2> QED BY <2>1, <2>2, <2>3
<1>3. SlotStart(utc_now) \in Int
  BY SlotFacts DEF BookLimits
<1>4. Min({l, SlotStart(utc_now)}) = IF l <= SlotStart(utc_now) THEN l ELSE SlotStart(utc_now)
  BY <1>3, LesserOfTwo
<1> QED BY <1>1, <1>2, <1>4 DEF Cutoff

\* Earlier is a strict order, total but for equal keys.
LEMMA EarlierFacts ==
  ASSUME NEW a \in BookKeys, NEW b \in BookKeys, NEW c \in BookKeys
  PROVE  /\ ~Earlier(a, a)
         /\ Earlier(a, b) => ~Earlier(b, a)
         /\ Earlier(a, b) /\ Earlier(b, c) => Earlier(a, c)
         /\ ~Earlier(a, b) /\ ~Earlier(b, c) => ~Earlier(a, c)
<1>1. /\ a[1] \in Nat /\ a[2] \in Nat /\ b[1] \in Nat /\ b[2] \in Nat
      /\ c[1] \in Nat /\ c[2] \in Nat
  BY DEF BookKeys
<1> QED BY <1>1 DEF Earlier

\* The ticks fs and one more.
TickAdded(fs, gs, t, price, key) ==
  /\ Numbered(fs) /\ t \in TickTimes /\ price \in Prices
  /\ key = <<t, Len(fs)>> /\ gs = Append(fs, [key |-> key, price |-> price])

\* A tick more.
LEMMA TickAppended ==
  ASSUME BookLimits, NEW fs, NEW gs, NEW t, NEW price, NEW key, TickAdded(fs, gs, t, price, key)
  PROVE  /\ key \in BookKeys /\ Numbered(gs)
         /\ InSlot(gs, SlotStart(t), Len(fs) + 1)
         /\ gs[Len(fs) + 1].key = key /\ gs[Len(fs) + 1].price = price
         /\ \A s, i : InSlot(fs, s, i) => InSlot(gs, s, i) /\ gs[i] = fs[i]
         /\ \A s, i : InSlot(gs, s, i) =>
              InSlot(fs, s, i) \/ (i = Len(fs) + 1 /\ s = SlotStart(t))
<1>1. PICK n \in Nat : n = Len(fs) /\ DOMAIN fs = 1 .. n /\ fs \in Seq(BookTicks)
  BY DEF Numbered, TickAdded
<1>2. t \in Nat /\ price \in Prices
  BY DEF BookLimits, TickAdded
<1>3. PICK k : k = [key |-> key, price |-> price]
  OBVIOUS
<1>4. key \in BookKeys /\ k \in BookTicks /\ key[1] = t /\ key[2] = n /\ k.key = key /\ k.price = price
  BY <1>1, <1>2, <1>3 DEF BookKeys, BookTicks, TickAdded
<1>5. /\ gs \in Seq(BookTicks) /\ Len(gs) = n + 1 /\ DOMAIN gs = 1 .. n + 1 /\ gs[n + 1] = k
      /\ \A i \in 1 .. n : gs[i] = fs[i]
  <2>1. gs = Append(fs, k)
    BY <1>3 DEF TickAdded
  <2>2. gs \in Seq(BookTicks) /\ Len(gs) = n + 1 /\ gs[n + 1] = k /\ \A i \in 1 .. n : gs[i] = fs[i]
    BY <1>1, <1>4, <2>1, AppendProperties
  <2> QED BY <2>2
<1>6. ASSUME NEW i \in DOMAIN gs
      PROVE  gs[i].key[2] = i - 1 /\ gs[i].key[1] \in TickTimes
  <2>1. CASE i = n + 1
    BY <1>4, <1>5, <2>1 DEF TickAdded
  <2>2. CASE i # n + 1
    <3>1. i \in 1 .. n
      BY <1>5, <2>2
    <3>2. fs[i].key[2] = i - 1 /\ fs[i].key[1] \in TickTimes
      BY <1>1, <3>1 DEF Numbered, TickAdded
    <3> QED BY <1>5, <3>1, <3>2
  <2> QED BY <2>1, <2>2
<1>7. Numbered(gs)
  BY <1>5, <1>6 DEF Numbered
<1>8. InSlot(gs, SlotStart(t), n + 1)
  BY <1>4, <1>5 DEF InSlot
<1>9. ASSUME NEW s, NEW i, InSlot(fs, s, i) PROVE InSlot(gs, s, i) /\ gs[i] = fs[i]
  <2>1. i \in 1 .. n /\ i \in 1 .. n + 1 /\ SlotStart(fs[i].key[1]) = s
    BY <1>1, <1>9 DEF InSlot
  <2> QED BY <1>5, <2>1 DEF InSlot
<1>10. ASSUME NEW s, NEW i, InSlot(gs, s, i)
       PROVE  InSlot(fs, s, i) \/ (i = n + 1 /\ s = SlotStart(t))
  <2>1. i \in 1 .. n + 1 /\ SlotStart(gs[i].key[1]) = s
    BY <1>5, <1>10 DEF InSlot
  <2>2. CASE i = n + 1
    BY <1>4, <1>5, <2>1, <2>2
  <2>3. CASE i # n + 1
    <3>1. i \in 1 .. n
      BY <2>1, <2>3
    <3>2. gs[i] = fs[i]
      BY <1>5, <3>1
    <3> QED BY <1>1, <2>1, <3>1, <3>2 DEF InSlot
  <2> QED BY <2>2, <2>3
<1> QED BY <1>1, <1>4, <1>5, <1>7, <1>8, <1>9, <1>10

\* The tick's keys and prices are what they should be.
LEMMA TicksTyped ==
  ASSUME BookLimits, NEW fs, Numbered(fs), NEW s, NEW i, InSlot(fs, s, i)
  PROVE  fs[i].key \in BookKeys /\ fs[i].price \in Prices /\ fs[i].price \in Int
<1>1. fs \in Seq(BookTicks) /\ i \in DOMAIN fs
  BY DEF Numbered, InSlot
<1>2. fs[i] \in BookTicks
  BY <1>1
<1> QED BY <1>2 DEF BookTicks, BookLimits

\* Folding a tick gives the candle with it.
LEMMA FoldedIsCandle ==
  ASSUME BookLimits, NEW fs, NEW gs, NEW t, NEW price, NEW key, TickAdded(fs, gs, t, price, key),
         NEW c \in BookSlots, CandleOf(fs, SlotStart(t), c), NEW b \in BOOLEAN
  PROVE  /\ [Folded(c, key, price) EXCEPT !.closed = b] \in BookSlots
         /\ [Folded(c, key, price) EXCEPT !.closed = b].closed = b
         /\ CandleOf(gs, SlotStart(t), [Folded(c, key, price) EXCEPT !.closed = b])
<1> DEFINE began == SlotStart(t)
           n == Len(fs) + 1
<1>1. PICK d : d = [Folded(c, key, price) EXCEPT !.closed = b]
  OBVIOUS
<1>14. Numbered(fs) /\ price \in Prices
  BY DEF TickAdded
<1>2. price \in Int /\ c.high \in Int /\ c.low \in Int /\ c.open \in Prices /\ c.close \in Prices
      /\ c.open_key \in BookKeys /\ c.close_key \in BookKeys
  BY <1>14 DEF BookSlots, BookLimits
<1>3. /\ key \in BookKeys /\ Numbered(gs) /\ InSlot(gs, began, n)
      /\ gs[n].key = key /\ gs[n].price = price
      /\ \A i : InSlot(fs, began, i) => InSlot(gs, began, i) /\ gs[i] = fs[i]
      /\ \A i : InSlot(gs, began, i) => InSlot(fs, began, i) \/ i = n
  <2>1. /\ key \in BookKeys /\ Numbered(gs) /\ InSlot(gs, began, n)
        /\ gs[n].key = key /\ gs[n].price = price
    BY TickAppended
  <2>2. \A q, i : InSlot(fs, q, i) => InSlot(gs, q, i) /\ gs[i] = fs[i]
    BY TickAppended
  <2>3. \A q, i : InSlot(gs, q, i) => InSlot(fs, q, i) \/ (i = Len(fs) + 1 /\ q = SlotStart(t))
    BY TickAppended
  <2> QED BY <2>1, <2>2, <2>3
<1>4. /\ d.open = (IF Earlier(key, c.open_key) THEN price ELSE c.open)
      /\ d.open_key = (IF Earlier(key, c.open_key) THEN key ELSE c.open_key)
      /\ d.close = (IF Earlier(key, c.close_key) THEN c.close ELSE price)
      /\ d.close_key = (IF Earlier(key, c.close_key) THEN c.close_key ELSE key)
      /\ d.high = Max({c.high, price}) /\ d.low = Min({c.low, price}) /\ d.closed = b
      /\ DOMAIN d = DOMAIN c
  BY <1>1 DEF Folded, BookSlots
<1>5. /\ d.high = (IF c.high >= price THEN c.high ELSE price)
      /\ d.low = (IF c.low <= price THEN c.low ELSE price)
  BY <1>2, <1>4, GreaterOfTwo, LesserOfTwo
<1>13. /\ price <= d.high /\ \A v \in Int : v <= c.high => v <= d.high
       /\ d.low <= price /\ \A v \in Int : c.low <= v => d.low <= v
  <2>1. PICK x \in Int : x = c.high
    BY <1>2
  <2>2. PICK y \in Int : y = c.low
    BY <1>2
  <2>3. PICK p \in Int : p = price
    BY <1>2
  <2>4. d.high = (IF x >= p THEN x ELSE p) /\ d.low = (IF y <= p THEN y ELSE p)
    BY <1>5, <2>1, <2>2, <2>3
  <2>5. PICK u \in Int : u = d.high /\ u = (IF x >= p THEN x ELSE p)
    BY <2>4
  <2>6. PICK w \in Int : w = d.low /\ w = (IF y <= p THEN y ELSE p)
    BY <2>4
  <2>7. /\ p <= u /\ \A v \in Int : v <= x => v <= u
        /\ w <= p /\ \A v \in Int : y <= v => w <= v
    BY <2>5, <2>6
  <2> QED BY <2>1, <2>2, <2>3, <2>5, <2>6, <2>7
<1>6. d \in BookSlots
  <2>1. PICK h \in Int : h = Max({c.high, price})
    BY <1>2, GreaterOfTwo
  <2>2. PICK l \in Int : l = Min({c.low, price})
    BY <1>2, LesserOfTwo
  <2>3. PICK o \in Prices : o = IF Earlier(key, c.open_key) THEN price ELSE c.open
    BY <1>2, <1>14
  <2>4. PICK k \in BookKeys : k = IF Earlier(key, c.open_key) THEN key ELSE c.open_key
    BY <1>2, <1>3
  <2>5. PICK p \in Prices : p = IF Earlier(key, c.close_key) THEN c.close ELSE price
    BY <1>2, <1>14
  <2>6. PICK m \in BookKeys : m = IF Earlier(key, c.close_key) THEN c.close_key ELSE key
    BY <1>2, <1>3
  <2>7. Folded(c, key, price) =
          [c EXCEPT !.high = h, !.low = l, !.open = o, !.open_key = k, !.close = p, !.close_key = m]
    BY <2>1, <2>2, <2>3, <2>4, <2>5, <2>6, Zenon DEF Folded
  <2>8. [c EXCEPT !.high = h, !.low = l, !.open = o, !.open_key = k, !.close = p, !.close_key = m]
          \in BookSlots
    BY DEF BookSlots
  <2>9. [Folded(c, key, price) EXCEPT !.closed = b] \in BookSlots
    BY <2>7, <2>8 DEF BookSlots
  <2> QED BY <1>1, <2>9
<1> HIDE DEF began, n
<1>7. \A j : InSlot(fs, began, j) =>
        fs[j].key \in BookKeys /\ fs[j].price \in Int
  BY <1>14, TicksTyped
<1>8. \E i : OpensAt(gs, began, d, i)
  <2>1. PICK i : OpensAt(fs, began, c, i)
    BY DEF CandleOf, began
  <2>2. InSlot(fs, began, i) /\ c.open_key = fs[i].key /\ c.open = fs[i].price
    BY <2>1 DEF OpensAt
  <2>3. CASE Earlier(key, c.open_key)
    <3>1. ASSUME NEW j, InSlot(gs, began, j) PROVE ~Earlier(gs[j].key, key)
      <4>1. CASE j = n
        BY <1>3, <4>1, EarlierFacts
      <4>2. CASE InSlot(fs, began, j)
        <5>1. ~Earlier(fs[j].key, c.open_key) /\ gs[j] = fs[j] /\ fs[j].key \in BookKeys
          BY <1>3, <1>7, <2>1, <2>2, <4>2 DEF OpensAt
        <5> QED BY <1>2, <1>3, <2>3, <5>1, EarlierFacts
      <4> QED BY <1>3, <3>1, <4>1, <4>2
    <3>2. OpensAt(gs, began, d, n)
      BY <1>3, <1>4, <2>3, <3>1 DEF OpensAt
    <3> QED BY <3>2
  <2>4. CASE ~Earlier(key, c.open_key)
    <3>1. InSlot(gs, began, i) /\ gs[i] = fs[i]
      BY <1>3, <2>2
    <3>2. ASSUME NEW j, InSlot(gs, began, j) PROVE ~Earlier(gs[j].key, fs[i].key)
      <4>1. CASE j = n
        BY <1>3, <2>2, <2>4, <4>1
      <4>2. CASE InSlot(fs, began, j)
        BY <1>3, <2>1, <4>2 DEF OpensAt
      <4> QED BY <1>3, <3>2, <4>1, <4>2
    <3>3. OpensAt(gs, began, d, i)
      BY <1>4, <2>2, <2>4, <3>1, <3>2 DEF OpensAt
    <3> QED BY <3>3
  <2> QED BY <2>3, <2>4
<1>9. \E i : ClosesAt(gs, began, d, i)
  <2>1. PICK i : ClosesAt(fs, began, c, i)
    BY DEF CandleOf, began
  <2>2. InSlot(fs, began, i) /\ c.close_key = fs[i].key /\ c.close = fs[i].price
    BY <2>1 DEF ClosesAt
  <2>3. CASE ~Earlier(key, c.close_key)
    <3>1. ASSUME NEW j, InSlot(gs, began, j) PROVE ~Earlier(key, gs[j].key)
      <4>1. CASE j = n
        BY <1>3, <4>1, EarlierFacts
      <4>2. CASE InSlot(fs, began, j)
        <5>1. ~Earlier(c.close_key, fs[j].key) /\ gs[j] = fs[j] /\ fs[j].key \in BookKeys
          BY <1>3, <1>7, <2>1, <2>2, <4>2 DEF ClosesAt
        <5> QED BY <1>2, <1>3, <2>3, <5>1, EarlierFacts
      <4> QED BY <1>3, <3>1, <4>1, <4>2
    <3>2. ClosesAt(gs, began, d, n)
      BY <1>3, <1>4, <2>3, <3>1 DEF ClosesAt
    <3> QED BY <3>2
  <2>4. CASE Earlier(key, c.close_key)
    <3>1. InSlot(gs, began, i) /\ gs[i] = fs[i]
      BY <1>3, <2>2
    <3>2. ASSUME NEW j, InSlot(gs, began, j) PROVE ~Earlier(fs[i].key, gs[j].key)
      <4>1. CASE j = n
        <5>1. fs[i].key \in BookKeys /\ Earlier(key, fs[i].key) /\ gs[j].key = key
          BY <1>3, <1>7, <2>2, <2>4, <4>1
        <5>2. ~Earlier(fs[i].key, key)
          BY <1>3, <5>1, EarlierFacts
        <5> QED BY <5>1, <5>2
      <4>2. CASE InSlot(fs, began, j)
        BY <1>3, <2>1, <4>2 DEF ClosesAt
      <4> QED BY <1>3, <3>2, <4>1, <4>2
    <3>3. ClosesAt(gs, began, d, i)
      BY <1>4, <2>2, <2>4, <3>1, <3>2 DEF ClosesAt
    <3> QED BY <3>3
  <2> QED BY <2>3, <2>4
<1>10. \E i : HighAt(gs, began, d, i)
  <2>1. PICK i : HighAt(fs, began, c, i)
    BY DEF CandleOf, began
  <2>2. InSlot(fs, began, i) /\ c.high = fs[i].price
        /\ \A j : InSlot(fs, began, j) => fs[j].price <= c.high
    BY <2>1 DEF HighAt
  <2>3. ASSUME NEW j, InSlot(gs, began, j) PROVE gs[j].price <= d.high
    <3>1. CASE j = n
      BY <1>3, <1>13, <3>1
    <3>2. CASE InSlot(fs, began, j)
      <4>1. gs[j].price <= c.high /\ gs[j].price \in Int
        BY <1>3, <1>7, <2>2, <3>2
      <4> QED BY <1>13, <4>1
    <3> QED BY <1>3, <2>3, <3>1, <3>2
  <2>4. CASE c.high >= price
    <3>1. InSlot(gs, began, i) /\ d.high = gs[i].price
      BY <1>3, <1>5, <2>2, <2>4
    <3>2. HighAt(gs, began, d, i)
      BY <2>3, <3>1 DEF HighAt
    <3> QED BY <3>2
  <2>5. CASE ~(c.high >= price)
    <3>1. InSlot(gs, began, n) /\ d.high = gs[n].price
      BY <1>3, <1>5, <2>5
    <3>2. HighAt(gs, began, d, n)
      BY <2>3, <3>1 DEF HighAt
    <3> QED BY <3>2
  <2> QED BY <2>4, <2>5
<1>11. \E i : LowAt(gs, began, d, i)
  <2>1. PICK i : LowAt(fs, began, c, i)
    BY DEF CandleOf, began
  <2>2. InSlot(fs, began, i) /\ c.low = fs[i].price
        /\ \A j : InSlot(fs, began, j) => c.low <= fs[j].price
    BY <2>1 DEF LowAt
  <2>3. ASSUME NEW j, InSlot(gs, began, j) PROVE d.low <= gs[j].price
    <3>1. CASE j = n
      BY <1>3, <1>13, <3>1
    <3>2. CASE InSlot(fs, began, j)
      <4>1. c.low <= gs[j].price /\ gs[j].price \in Int
        BY <1>3, <1>7, <2>2, <3>2
      <4> QED BY <1>13, <4>1
    <3> QED BY <1>3, <2>3, <3>1, <3>2
  <2>4. CASE c.low <= price
    <3>1. InSlot(gs, began, i) /\ d.low = gs[i].price
      BY <1>3, <1>5, <2>2, <2>4
    <3>2. LowAt(gs, began, d, i)
      BY <2>3, <3>1 DEF LowAt
    <3> QED BY <3>2
  <2>5. CASE ~(c.low <= price)
    <3>1. InSlot(gs, began, n) /\ d.low = gs[n].price
      BY <1>3, <1>5, <2>5
    <3>2. LowAt(gs, began, d, n)
      BY <2>3, <3>1 DEF LowAt
    <3> QED BY <3>2
  <2> QED BY <2>4, <2>5
<1>12. CandleOf(gs, began, d)
  BY <1>8, <1>9, <1>10, <1>11 DEF CandleOf
<1> QED BY <1>1, <1>4, <1>6, <1>12 DEF began

\* A slot's first tick is its candle.
LEMMA NewSlotIsCandle ==
  ASSUME BookLimits, NEW fs, NEW gs, NEW t, NEW price, NEW key, TickAdded(fs, gs, t, price, key),
         \A i : ~InSlot(fs, SlotStart(t), i), NEW b \in BOOLEAN
  PROVE  /\ [NewSlot(key, price) EXCEPT !.closed = b] \in BookSlots
         /\ [NewSlot(key, price) EXCEPT !.closed = b].closed = b
         /\ CandleOf(gs, SlotStart(t), [NewSlot(key, price) EXCEPT !.closed = b])
<1> DEFINE began == SlotStart(t)
           n == Len(fs) + 1
<1>1. PICK d : d = [NewSlot(key, price) EXCEPT !.closed = b]
  OBVIOUS
<1>2. price \in Int /\ price \in Prices
  BY DEF BookLimits, TickAdded
<1>3. /\ key \in BookKeys /\ InSlot(gs, began, n)
      /\ gs[n].key = key /\ gs[n].price = price
      /\ \A i : InSlot(gs, began, i) => i = n
  <2>1. key \in BookKeys /\ InSlot(gs, began, n) /\ gs[n].key = key /\ gs[n].price = price
    BY TickAppended
  <2>2. \A q, i : InSlot(gs, q, i) => InSlot(fs, q, i) \/ (i = Len(fs) + 1 /\ q = SlotStart(t))
    BY TickAppended
  <2> QED BY <2>1, <2>2
<1>4. /\ d.open = price /\ d.close = price /\ d.high = price /\ d.low = price
      /\ d.open_key = key /\ d.close_key = key /\ d.closed = b
  BY <1>1 DEF NewSlot
<1>5. d \in BookSlots
  BY <1>1, <1>2, <1>3 DEF NewSlot, BookSlots
<1> HIDE DEF began, n
<1>6. ~Earlier(key, key) /\ price <= price
  BY <1>2, <1>3, EarlierFacts
<1>7. OpensAt(gs, began, d, n) /\ ClosesAt(gs, began, d, n)
  BY <1>3, <1>4, <1>6 DEF OpensAt, ClosesAt
<1>8. HighAt(gs, began, d, n) /\ LowAt(gs, began, d, n)
  BY <1>3, <1>4, <1>6 DEF HighAt, LowAt
<1>9. CandleOf(gs, began, d)
  BY <1>7, <1>8 DEF CandleOf
<1> QED BY <1>1, <1>4, <1>5, <1>9 DEF began

\* A tick of another slot leaves a candle as it is.
LEMMA OtherCandleStays ==
  ASSUME BookLimits, NEW fs, NEW gs, NEW t, NEW price, NEW key, TickAdded(fs, gs, t, price, key),
         NEW s, s # SlotStart(t), NEW c, CandleOf(fs, s, c)
  PROVE  CandleOf(gs, s, c)
<1>1. /\ \A i : InSlot(fs, s, i) => InSlot(gs, s, i) /\ gs[i] = fs[i]
      /\ \A i : InSlot(gs, s, i) => InSlot(fs, s, i)
  <2>1. \A q, i : InSlot(fs, q, i) => InSlot(gs, q, i) /\ gs[i] = fs[i]
    BY TickAppended
  <2>2. \A q, i : InSlot(gs, q, i) => InSlot(fs, q, i) \/ (i = Len(fs) + 1 /\ q = SlotStart(t))
    BY TickAppended
  <2> QED BY <2>1, <2>2
<1>2. \A i : OpensAt(fs, s, c, i) => OpensAt(gs, s, c, i)
  BY <1>1 DEF OpensAt
<1>3. \A i : ClosesAt(fs, s, c, i) => ClosesAt(gs, s, c, i)
  BY <1>1 DEF ClosesAt
<1>4. \A i : HighAt(fs, s, c, i) => HighAt(gs, s, c, i)
  BY <1>1 DEF HighAt
<1>5. \A i : LowAt(fs, s, c, i) => LowAt(gs, s, c, i)
  BY <1>1 DEF LowAt
<1> QED BY <1>2, <1>3, <1>4, <1>5 DEF CandleOf

\* The newest slot is a slot, or the present one, and the time from which slots are kept
\* does not go back.
LEMMA LatestFacts ==
  ASSUME BookLimits, utc_now \in 0 .. MaxNow, NEW t \in TickTimes,
         latest_slot \in {NoSlot} \cup {SlotStart(u) : u \in TickTimes} \cup 0 .. MaxNow
  PROVE  /\ LatestAfter(SlotStart(t)) \in {SlotStart(u) : u \in TickTimes} \cup 0 .. MaxNow
         /\ LatestAfter(SlotStart(t)) \in Nat
         /\ latest_slot # NoSlot => Cutoff(latest_slot) <= Cutoff(LatestAfter(SlotStart(t)))
<1>1. PICK cur \in Nat : cur = SlotStart(utc_now) /\ cur <= utc_now
  BY SlotFacts DEF BookLimits
<1>2. PICK began \in Nat : began = SlotStart(t)
  BY SlotFacts DEF BookLimits
<1>3. PICK p \in Nat : p = Period
  BY DEF BookLimits
<1>4. latest_slot = NoSlot \/ latest_slot \in Nat
  <2>1. \A u \in TickTimes : SlotStart(u) \in Nat
    BY SlotFacts DEF BookLimits
  <2> QED BY <2>1 DEF BookLimits
<1>5. PICK known \in Nat : known = IF latest_slot = NoSlot THEN began ELSE latest_slot
  BY <1>4
<1>6. LatestAfter(SlotStart(t)) = IF began <= cur + 2 * p /\ began > known THEN began
                                  ELSE IF known > cur + 2 * p THEN cur ELSE known
  BY <1>1, <1>2, <1>3, <1>5 DEF LatestAfter
<1>7. PICK l \in Nat : l = LatestAfter(SlotStart(t))
  BY <1>6
<1>8. l = began \/ l = cur \/ l = known
  BY <1>6, <1>7
<1>9. cur \in 0 .. MaxNow
  BY <1>1 DEF BookLimits
<1>10. began \in {SlotStart(u) : u \in TickTimes}
  BY <1>2
<1>11. known \in {SlotStart(u) : u \in TickTimes} \cup 0 .. MaxNow
  BY <1>5, <1>10
<1>12. ASSUME latest_slot # NoSlot PROVE Cutoff(latest_slot) <= Cutoff(l)
  <2>1. known = latest_slot
    BY <1>5, <1>12
  <2>2. PICK w \in Nat : /\ Cutoff(known) = (IF known <= cur THEN known ELSE cur) - w
                         /\ Period * (Slots + Slack - 1) = w
    BY <1>1, CutoffIs
  <2>3. PICK v \in Nat : /\ Cutoff(l) = (IF l <= cur THEN l ELSE cur) - v
                         /\ Period * (Slots + Slack - 1) = v
    BY <1>1, CutoffIs
  <2>4. v = w
    BY <2>2, <2>3
  <2>5. (IF known <= cur THEN known ELSE cur) <= (IF l <= cur THEN l ELSE cur)
    BY <1>6, <1>7
  <2>6. PICK a \in Int : a = IF known <= cur THEN known ELSE cur
    OBVIOUS
  <2>7. PICK b \in Int : b = IF l <= cur THEN l ELSE cur
    OBVIOUS
  <2> QED BY <2>1, <2>2, <2>3, <2>4, <2>5, <2>6, <2>7
<1> QED BY <1>7, <1>8, <1>9, <1>10, <1>11, <1>12

LEMMA CutoffIsInt ==
  ASSUME BookLimits, utc_now \in 0 .. MaxNow, NEW l \in Int
  PROVE  Cutoff(l) \in Int
<1>1. SlotStart(utc_now) \in Int
  BY SlotFacts DEF BookLimits
<1>2. PICK a \in Int : a = IF l <= SlotStart(utc_now) THEN l ELSE SlotStart(utc_now)
  BY <1>1
<1>3. PICK w \in Nat : Cutoff(l) = a - w
  BY <1>2, CutoffIs
<1> QED BY <1>3

LEMMA OnTickKeeps ==
  ASSUME BookLimits, BookInv, NEW t \in TickTimes, NEW price \in Prices, OnTick(t, price)
  PROVE  BookInv'
<1> DEFINE began == SlotStart(t)
           key == <<t, Len(folded)>>
           newest == LatestAfter(began)
           closed == began + Period <= utc_now
           slot == [IF began \in DOMAIN slots THEN Folded(slots[began], key, price)
                                              ELSE NewSlot(key, price) EXCEPT !.closed = closed]
           kept == {s \in DOMAIN slots \cup {began} : s >= Cutoff(newest)}
<1>1. /\ folded' = Append(folded, [key |-> key, price |-> price])
      /\ latest_slot' = newest /\ slots' = [s \in kept |-> IF s = began THEN slot ELSE slots[s]]
      /\ utc_now' = utc_now
  BY DEF OnTick
<1>2. TickAdded(folded, folded', t, price, key)
  BY <1>1 DEF TickAdded, BookInv
<1>3. /\ newest \in {SlotStart(u) : u \in TickTimes} \cup 0 .. MaxNow
      /\ newest \in Nat
      /\ latest_slot # NoSlot => Cutoff(latest_slot) <= Cutoff(newest)
  BY LatestFacts DEF BookInv
<1>4. began \in Nat /\ t \in Nat
  BY SlotFacts DEF BookLimits
<1>5. Cutoff(newest) \in Int /\ Cutoff(latest_slot)' = Cutoff(newest)
  BY <1>1, <1>3, CutoffIsInt DEF Cutoff, BookInv
<1>6. DOMAIN slots' = kept /\ closed \in BOOLEAN
  BY <1>1
<1>7. began \in kept => slots'[began] = slot
  BY <1>1
<1>8. \A s \in kept : s # began => slots'[s] = slots[s] /\ s \in DOMAIN slots
  BY <1>1
<1>9. \A s \in DOMAIN slots : s \in Nat
  BY DEF BookInv
<1>10. \A i \in DOMAIN folded :
         \/ SlotStart(folded[i].key[1]) \in DOMAIN slots
         \/ SlotStart(folded[i].key[1]) < Cutoff(newest)
  <2>1. ASSUME NEW i \in DOMAIN folded, SlotStart(folded[i].key[1]) \notin DOMAIN slots
        PROVE  SlotStart(folded[i].key[1]) < Cutoff(newest)
    <3>1. SlotStart(folded[i].key[1]) < Cutoff(latest_slot) /\ latest_slot # NoSlot
      BY <2>1 DEF BookInv
    <3>2. folded[i].key[1] \in Nat
      BY DEF BookInv, Numbered, BookLimits
    <3>3. SlotStart(folded[i].key[1]) \in Nat
      BY <3>2, SlotFacts
    <3>4. Cutoff(latest_slot) \in Int
      <4>1. latest_slot \in Int
        <5>1. \A u \in TickTimes : SlotStart(u) \in Nat
          BY SlotFacts DEF BookLimits
        <5> QED BY <5>1 DEF BookInv, NoSlot, BookLimits
      <4> QED BY <4>1, CutoffIsInt DEF BookInv
    <3>5. PICK q \in Nat : q = SlotStart(folded[i].key[1])
      BY <3>3
    <3>6. PICK c \in Int : c = Cutoff(latest_slot)
      BY <3>4
    <3>7. PICK d \in Int : d = Cutoff(newest)
      BY <1>5
    <3>8. q < c /\ c <= d
      BY <1>3, <3>1, <3>5, <3>6, <3>7
    <3>9. q < d
      BY <3>8
    <3> QED BY <3>5, <3>7, <3>9
  <2> QED BY <2>1
<1>11. ASSUME began \in kept
       PROVE  slot \in BookSlots /\ slot.closed = closed /\ CandleOf(folded', began, slot)
  <2>1. CASE began \in DOMAIN slots
    <3>1. slots[began] \in BookSlots /\ CandleOf(folded, began, slots[began])
      BY <2>1 DEF BookInv
    <3>2. slot = [Folded(slots[began], key, price) EXCEPT !.closed = closed]
      BY <2>1
    <3> HIDE DEF slot, key, closed
    <3> QED BY <1>2, <1>6, <3>1, <3>2, FoldedIsCandle
  <2>2. CASE began \notin DOMAIN slots
    <3>1. ASSUME NEW i, InSlot(folded, began, i) PROVE FALSE
      <4>1. began < Cutoff(newest) /\ began >= Cutoff(newest)
        BY <1>10, <1>11, <2>2, <3>1 DEF InSlot
      <4> QED BY <1>4, <1>5, <4>1
    <3>2. slot = [NewSlot(key, price) EXCEPT !.closed = closed]
      BY <2>2
    <3> HIDE DEF slot, key, closed
    <3> QED BY <1>2, <1>6, <3>1, <3>2, NewSlotIsCandle
  <2> QED BY <2>1, <2>2
<1> HIDE DEF slot, key, newest
<1>12. Numbered(folded') /\ \A q, i : InSlot(folded', q, i) => InSlot(folded, q, i) \/ q = began
  BY <1>2, TickAppended
<1>13. ASSUME NEW s \in DOMAIN slots'
       PROVE  /\ s \in Nat /\ slots'[s] \in BookSlots /\ CandleOf(folded', s, slots'[s])
              /\ slots'[s].closed => s + Period <= utc_now'
  <2>1. CASE s = began
    <3>1. slots'[s] = slot /\ began \in kept
      BY <1>6, <1>7, <1>13, <2>1
    <3> QED BY <1>1, <1>4, <1>11, <2>1, <3>1
  <2>2. CASE s # began
    <3>1. slots'[s] = slots[s] /\ s \in DOMAIN slots
      BY <1>6, <1>8, <1>13, <2>2
    <3>2. CandleOf(folded', s, slots[s])
      BY <1>2, <2>2, <3>1, OtherCandleStays DEF BookInv
    <3> QED BY <1>1, <3>1, <3>2 DEF BookInv
  <2> QED BY <2>1, <2>2
<1>14. ASSUME NEW i \in DOMAIN folded'
       PROVE  \/ SlotStart(folded'[i].key[1]) \in DOMAIN slots'
              \/ SlotStart(folded'[i].key[1]) < Cutoff(latest_slot)'
  <2>1. PICK q : q = SlotStart(folded'[i].key[1])
    OBVIOUS
  <2>2. InSlot(folded', q, i)
    BY <2>1 DEF InSlot
  <2>3. q \in DOMAIN slots \cup {began} \/ q < Cutoff(newest)
    <3>1. CASE q = began
      BY <3>1
    <3>2. CASE InSlot(folded, q, i)
      BY <1>10, <3>2 DEF InSlot
    <3> QED BY <1>12, <2>2, <3>1, <3>2
  <2>4. q \in DOMAIN slots \cup {began} => q \in Nat
    BY <1>4, <1>9
  <2> QED BY <1>5, <1>6, <2>1, <2>3, <2>4
<1>15. latest_slot' # NoSlot
  BY <1>1, <1>3 DEF NoSlot
<1>16. utc_now' \in 0 .. MaxNow
  BY <1>1 DEF BookInv
<1> QED
  BY <1>1, <1>3, <1>12, <1>13, <1>14, <1>15, <1>16 DEF BookInv

\* BookInv is inductive.
LEMMA BookInvNext ==
  ASSUME BookLimits, BookInv, [BookNext]_bookVars PROVE BookInv'
<1>1. CASE \E t \in TickTimes, price \in Prices : OnTick(t, price)
  BY <1>1, OnTickKeeps
<1>2. CASE ClearBroker
  <2>1. slots' = << >> /\ folded' = << >> /\ latest_slot' = NoSlot /\ utc_now' = utc_now
    BY <1>2 DEF ClearBroker
  <2> QED BY <2>1 DEF BookInv, Numbered
<1>3. CASE TimePasses
  <2>1. utc_now' = utc_now + 1 /\ utc_now < MaxNow /\ UNCHANGED <<slots, latest_slot, folded>>
        /\ utc_now \in Nat /\ MaxNow \in Nat
    BY <1>3 DEF TimePasses, BookInv, BookLimits
  <2>2. utc_now' \in 0 .. MaxNow
    BY <2>1
  <2>3. \A s \in DOMAIN slots : slots[s].closed => s + Period <= utc_now'
    <3>1. \A s \in DOMAIN slots : s \in Nat /\ (slots[s].closed => s + Period <= utc_now)
      BY DEF BookInv
    <3>2. Period \in Nat
      BY DEF BookLimits
    <3> QED BY <2>1, <3>1, <3>2
  <2>4. latest_slot \in Int
    <3>1. \A u \in TickTimes : SlotStart(u) \in Nat
      BY SlotFacts DEF BookLimits
    <3> QED BY <3>1 DEF BookInv, NoSlot, BookLimits
  <2>5. Cutoff(latest_slot) <= Cutoff(latest_slot)' /\ Cutoff(latest_slot) \in Int
        /\ Cutoff(latest_slot)' \in Int
    <3>1. PICK a \in Nat : a = SlotStart(utc_now)
      BY <2>1, SlotFacts
    <3>2. PICK b \in Nat : b = SlotStart(utc_now + 1)
      BY <2>1, SlotFacts
    <3>3. a <= b
      BY <2>1, <3>1, <3>2, SlotMonotone
    <3>4. PICK w \in Nat : w = Period * (Slots + Slack - 1)
      <4>1. utc_now \in 0 .. MaxNow
        BY DEF BookInv
      <4> QED BY <2>4, <4>1, CutoffIs
    <3>5. Cutoff(latest_slot) = Min({latest_slot, a}) - w
      BY <3>1, <3>4 DEF Cutoff
    <3>6. Cutoff(latest_slot)' = Min({latest_slot, b}) - w
      BY <2>1, <3>2, <3>4 DEF Cutoff
    <3>7. /\ Min({latest_slot, a}) = IF latest_slot <= a THEN latest_slot ELSE a
          /\ Min({latest_slot, b}) = IF latest_slot <= b THEN latest_slot ELSE b
      BY <2>4, LesserOfTwo
    <3>8. PICK x \in Int : x = Min({latest_slot, a})
      BY <2>4, <3>7
    <3>9. PICK y \in Int : y = Min({latest_slot, b})
      BY <2>4, <3>7
    <3>10. x <= y
      BY <2>4, <3>3, <3>7, <3>8, <3>9
    <3> QED BY <3>5, <3>6, <3>8, <3>9, <3>10
  <2>6. \A i \in DOMAIN folded :
          \/ SlotStart(folded[i].key[1]) \in DOMAIN slots
          \/ SlotStart(folded[i].key[1]) < Cutoff(latest_slot)'
    <3>1. \A i \in DOMAIN folded : folded[i].key[1] \in Nat
      BY DEF BookInv, Numbered, BookLimits
    <3>2. \A i \in DOMAIN folded : SlotStart(folded[i].key[1]) \in Nat
      BY <3>1, SlotFacts
    <3>3. \A q \in Nat : q < Cutoff(latest_slot) => q < Cutoff(latest_slot)'
      BY <2>5
    <3> QED BY <3>2, <3>3 DEF BookInv
  <2> QED BY <2>1, <2>2, <2>3, <2>6 DEF BookInv, NoSlot
<1>4. CASE UNCHANGED bookVars
  BY <1>4 DEF bookVars, BookInv, Cutoff
<1> QED
  BY <1>1, <1>2, <1>3, <1>4 DEF BookNext

LEMMA BookInvInit == BookLimits /\ BookInit => BookInv
  BY DEF BookLimits, BookInit, BookInv, Numbered

\* Of two different ticks one is earlier.
LEMMA TicksDiffer ==
  ASSUME BookLimits, NEW fs, Numbered(fs), NEW i \in DOMAIN fs, NEW j \in DOMAIN fs,
         ~Earlier(fs[i].key, fs[j].key), ~Earlier(fs[j].key, fs[i].key)
  PROVE  i = j
<1>1. fs[i].key[2] = i - 1 /\ fs[j].key[2] = j - 1
  BY DEF Numbered
<1>2. fs[i].key[1] \in Nat /\ fs[j].key[1] \in Nat
  BY DEF Numbered, BookLimits
<1>3. i \in Nat /\ j \in Nat
  BY DEF Numbered
<1> QED BY <1>1, <1>2, <1>3 DEF Earlier

LEMMA CandlesGiven ==
  ASSUME BookLimits, BookInv, NEW s \in DOMAIN slots
  PROVE  LET first == CHOOSE i \in TicksIn(s) : \A j \in TicksIn(s) : ~Earlier(folded[j].key, folded[i].key)
             last == CHOOSE i \in TicksIn(s) : \A j \in TicksIn(s) : ~Earlier(folded[i].key, folded[j].key)
             prices == {folded[i].price : i \in TicksIn(s)}
         IN /\ slots[s].open = folded[first].price /\ slots[s].close = folded[last].price
            /\ slots[s].high = Max(prices) /\ slots[s].low = Min(prices)
<1> DEFINE c == slots[s]
           Leads(i) == i \in TicksIn(s) /\ \A j \in TicksIn(s) : ~Earlier(folded[j].key, folded[i].key)
           Ends(i) == i \in TicksIn(s) /\ \A j \in TicksIn(s) : ~Earlier(folded[i].key, folded[j].key)
           first == CHOOSE i \in TicksIn(s) : \A j \in TicksIn(s) : ~Earlier(folded[j].key, folded[i].key)
           last == CHOOSE i \in TicksIn(s) : \A j \in TicksIn(s) : ~Earlier(folded[i].key, folded[j].key)
           prices == {folded[i].price : i \in TicksIn(s)}
<1>1. CandleOf(folded, s, c) /\ Numbered(folded)
  BY DEF BookInv
<1>2. \A i : i \in TicksIn(s) <=> InSlot(folded, s, i)
  BY DEF TicksIn, InSlot
<1>3. \A i \in TicksIn(s) : i \in DOMAIN folded /\ folded[i].price \in Int
  BY <1>1, <1>2, TicksTyped DEF InSlot
<1>4. c.open = folded[first].price
  <2>1. PICK i : OpensAt(folded, s, c, i)
    BY <1>1 DEF CandleOf
  <2>2. Leads(i) /\ c.open = folded[i].price
    BY <1>2, <2>1 DEF OpensAt
  <2>3. Leads(first)
    BY <2>2
  <2>4. i = first
    <3>1. ~Earlier(folded[i].key, folded[first].key) /\ ~Earlier(folded[first].key, folded[i].key)
      BY <2>2, <2>3
    <3>2. i \in DOMAIN folded /\ first \in DOMAIN folded
      BY <1>3, <2>2, <2>3
    <3> HIDE DEF first
    <3> QED BY <1>1, <3>1, <3>2, TicksDiffer
  <2> QED BY <2>2, <2>4
<1>5. c.close = folded[last].price
  <2>1. PICK i : ClosesAt(folded, s, c, i)
    BY <1>1 DEF CandleOf
  <2>2. Ends(i) /\ c.close = folded[i].price
    BY <1>2, <2>1 DEF ClosesAt
  <2>3. Ends(last)
    BY <2>2
  <2>4. i = last
    <3>1. ~Earlier(folded[i].key, folded[last].key) /\ ~Earlier(folded[last].key, folded[i].key)
      BY <2>2, <2>3
    <3>2. i \in DOMAIN folded /\ last \in DOMAIN folded
      BY <1>3, <2>2, <2>3
    <3> HIDE DEF last
    <3> QED BY <1>1, <3>1, <3>2, TicksDiffer
  <2> QED BY <2>2, <2>4
<1>6. c.high = Max(prices)
  <2>1. PICK i : HighAt(folded, s, c, i)
    BY <1>1 DEF CandleOf
  <2>2. c.high \in prices /\ c.high \in Int /\ \A x \in prices : x \in Int /\ c.high >= x
    BY <1>2, <1>3, <2>1 DEF HighAt
  <2> HIDE DEF prices
  <2>3. \A x \in prices : (\A y \in prices : x >= y) => x = c.high
    BY <2>2
  <2> QED BY <2>2, <2>3 DEF Max
<1>7. c.low = Min(prices)
  <2>1. PICK i : LowAt(folded, s, c, i)
    BY <1>1 DEF CandleOf
  <2>2. c.low \in prices /\ c.low \in Int /\ \A x \in prices : x \in Int /\ c.low <= x
    BY <1>2, <1>3, <2>1 DEF LowAt
  <2> HIDE DEF prices
  <2>3. \A x \in prices : (\A y \in prices : x <= y) => x = c.low
    BY <2>2
  <2> QED BY <2>2, <2>3 DEF Min
<1> QED BY <1>4, <1>5, <1>6, <1>7

LEMMA WindowGiven ==
  ASSUME BookLimits, BookInv, NEW i \in DOMAIN folded,
         SlotStart(folded[i].key[1]) > SlotStart(utc_now) - Period * Slots,
         SlotStart(folded[i].key[1]) <= SlotStart(utc_now)
  PROVE  SlotStart(folded[i].key[1]) \in DOMAIN slots
<1>1. folded[i].key[1] \in Nat
  BY DEF BookInv, Numbered, BookLimits
<1>2. PICK q \in Nat : q = SlotStart(folded[i].key[1])
  BY <1>1, SlotFacts
<1>3. PICK a \in Nat : a = SlotStart(utc_now)
  BY SlotFacts DEF BookInv, BookLimits
<1>4. latest_slot \in Int
  <2>1. \A u \in TickTimes : SlotStart(u) \in Nat
    BY SlotFacts DEF BookLimits
  <2> QED BY <2>1 DEF BookInv, NoSlot, BookLimits
<1>5. PICK w \in Nat : /\ w >= Period * Slots
                       /\ Cutoff(latest_slot) = (IF latest_slot <= a THEN latest_slot ELSE a) - w
  BY <1>3, <1>4, CutoffIs DEF BookInv
<1>6. PICK v \in Nat : v = Period * Slots
  BY DEF BookLimits
<1>7. ~(q < Cutoff(latest_slot))
  <2>1. PICK x \in Int : x = (IF latest_slot <= a THEN latest_slot ELSE a) /\ x <= a
    BY <1>4
  <2>2. Cutoff(latest_slot) = x - w
    BY <1>5, <2>1
  <2>3. q > a - v
    BY <1>2, <1>3, <1>6
  <2>4. w >= v
    BY <1>5, <1>6
  <2> QED BY <2>1, <2>2, <2>3, <2>4
<1> QED BY <1>2, <1>7 DEF BookInv

LEMMA RunningGiven ==
  ASSUME BookLimits, BookInv PROVE OnlyLastIsRunning
<1>1. PICK n \in Nat : n = Slots + 1 /\ n >= 1
  BY DEF BookLimits
<1>2. PICK p \in Nat \ {0} : p = Period
  BY DEF BookLimits
<1>3. utc_now \in Nat
  BY DEF BookInv
<1>4. PICK a \in Nat : a = SlotStart(utc_now) /\ a <= utc_now /\ utc_now < a + p
  <2>1. /\ SlotStart(utc_now) \in Nat /\ SlotStart(utc_now) <= utc_now
        /\ utc_now < SlotStart(utc_now) + Period
    BY <1>3, SlotFacts
  <2> QED BY <1>2, <2>1
<1>5. ViewState(a) = "Active"
  <2>1. ~(a + Period <= utc_now)
    BY <1>2, <1>3, <1>4
  <2>2. a \in DOMAIN slots => ~slots[a].closed
    BY <2>1 DEF BookInv
  <2> QED BY <2>1, <2>2 DEF ViewState
<1>6. ASSUME NEW s \in Int, s + p <= a PROVE ViewState(s) # "Active"
  <2>1. s + Period <= utc_now
    BY <1>2, <1>3, <1>4, <1>6
  <2> QED BY <2>1 DEF ViewState
<1>7. ASSUME NEW i \in 1 .. n
      PROVE  ViewState(a - p * (n - i)) = "Active" <=> i = n
  <2>1. CASE i = n
    <3>1. n - i = 0 /\ p * 0 = 0
      BY <2>1
    <3>2. a - p * (n - i) = a
      BY <3>1
    <3> QED BY <1>5, <2>1, <3>2
  <2>2. CASE i # n
    <3>1. PICK k \in Nat : k = n - i /\ k >= 1
      BY <2>2
    <3>2. p * k \in Nat /\ p * k >= p
      BY <3>1
    <3>3. a - p * k \in Int /\ (a - p * k) + p <= a
      BY <3>2
    <3> QED BY <1>6, <2>2, <3>1, <3>3
  <2> QED BY <2>1, <2>2
<1>8. PICK view : view = View(n)
  OBVIOUS
<1>9. view = [i \in 1 .. n |-> [start |-> a - p * (n - i), state |-> ViewState(a - p * (n - i))]]
  BY <1>2, <1>4, <1>8 DEF View
<1>10. DOMAIN view = 1 .. n /\ Len(view) = n /\ \A i \in 1 .. n : view[i].state = ViewState(a - p * (n - i))
  BY <1>9
<1> QED BY <1>1, <1>7, <1>8, <1>10 DEF OnlyLastIsRunning

LEMMA BookInvGives == BookLimits /\ BookInv => BookCorrect
<1> SUFFICES ASSUME BookLimits, BookInv PROVE BookCorrect
  OBVIOUS
<1>1. BookTypeOK
  BY DEF BookTypeOK, BookInv, BookSlots
<1>2. SlotsFoldTheirTicks
  BY CandlesGiven DEF SlotsFoldTheirTicks
<1>3. VisibleWindowKept
  BY WindowGiven DEF VisibleWindowKept
<1> QED BY <1>1, <1>2, <1>3, RunningGiven DEF BookCorrect

\* The candles of a book are those of the ticks received, none of the visible window is
\* missing, and a view shows only its last one as running (CandleBook::on_tick and
\* get_candle_view, candle.rs).
THEOREM BookIsCorrect == BookLimits /\ BookSpec => []BookCorrect
<1> SUFFICES ASSUME BookLimits PROVE BookSpec => []BookCorrect
  OBVIOUS
<1>1. BookInit => BookInv
  BY BookInvInit
<1>2. BookInv /\ [BookNext]_bookVars => BookInv'
  BY BookInvNext
<1>3. BookInv => BookCorrect
  BY BookInvGives
<1> QED
  BY <1>1, <1>2, <1>3, PTL DEF BookSpec

-----------------------------------------------------------------------------
(* What the screen is told about the feeds (MarketView). *)

FeedMoves == [feed : Feeds, rx : 0 .. MaxMono, move : {"Up", "Down"}]
FeedTicks == [feed : Feeds, rx : 0 .. MaxMono, move : {"none", "Up", "Down"}, spread : 0 .. 1]

\* The ticks of a tracker's queue, and of the merge, that were received at c or later.
QueuedSince(q, c) == {i \in DOMAIN q : q[i] >= c}
MergedSince(ms, f, c) ==
  {i \in DOMAIN ms : ms[i].feed = f /\ ms[i].spread > 0 /\ ms[i].rx >= c}

\* The move of a merged tick is still in the detector's queue.
IsQueued(es, tick) ==
  \E j : /\ j \in DOMAIN es /\ es[j] = [feed |-> tick.feed, rx |-> tick.rx, move |-> tick.move]

ViewTypes ==
  /\ mono \in 0 .. MaxMono /\ connected \in [Feeds -> BOOLEAN]
  /\ last_live \in [Feeds -> Int] /\ \A f \in Feeds : last_live[f] \in NeverLive .. mono
  /\ DOMAIN latest \subseteq Feeds
  /\ recent_events \in Seq(FeedMoves)
  /\ recent_ticks \in [Feeds -> Seq(0 .. MaxMono)]
  /\ merged \in Seq(FeedTicks)

\* The health knows the time of a quote that is not a warm-up one.
LiveKnown ==
  \A f \in DOMAIN latest :
    /\ latest[f].rx \in 0 .. mono
    /\ ~latest[f].warm => last_live[f] = latest[f].rx

MovesQueued ==
  \A i \in DOMAIN merged :
    merged[i].move # "none" /\ merged[i].rx >= mono - BurstWindow => IsQueued(recent_events, merged[i])

\* The tick rate is right for every shorter window too.
TicksCounted ==
  \A f \in Feeds : \A c \in Int : c >= mono - RateWindow =>
    Cardinality(QueuedSince(recent_ticks[f], c)) = Cardinality(MergedSince(merged, f, c))

\* None of the figures is inductive: they speak of the clock, which passes, and the
\* queues are pruned at the time of a frame, which may be earlier.
ViewInv == ViewTypes /\ LiveKnown /\ MovesQueued /\ TicksCounted

\* What is left of a queue from its first young element on.
KeptFrom(queue, young) ==
  IF young = {} THEN << >> ELSE SubSeq(queue, Min(young), Len(queue))

\* The queue r is q without its first m elements, none of them young.
OldDropped(S, q, young, r, m) ==
  /\ m \in 0 .. Len(q)
  /\ r \in Seq(S) /\ Len(r) = Len(q) - m
  /\ \A i \in 1 .. Len(q) - m : r[i] = q[i + m]
  /\ \A i \in 1 .. m : i \notin young

LEMMA KeptFromFacts ==
  ASSUME NEW S, NEW q \in Seq(S), NEW young \in SUBSET (1 .. Len(q))
  PROVE  \E m : OldDropped(S, q, young, KeptFrom(q, young), m)
<1>1. PICK n \in Nat : n = Len(q)
  OBVIOUS
<1>2. CASE young = {}
  <2>1. KeptFrom(q, young) = << >>
    BY <1>2 DEF KeptFrom
  <2>2. OldDropped(S, q, young, << >>, n)
    BY <1>1, <1>2 DEF OldDropped
  <2> QED BY <2>1, <2>2
<1>3. CASE young # {}
  <2>1. PICK k \in young : \A j \in young : k <= j
    <3>1. PICK e : e \in young
      BY <1>3
    <3>2. young \in SUBSET Nat
      BY <1>1
    <3> QED BY <3>1, <3>2, LeastExists
  <2>2. k \in 1 .. n
    BY <1>1
  <2>10. young \in SUBSET Nat
    BY <1>1
  <2>3. Min(young) = k
    BY <2>1, <2>10, MinIsLeast
  <2>4. KeptFrom(q, young) = SubSeq(q, k, n)
    BY <1>1, <1>3, <2>3 DEF KeptFrom
  <2>5. PICK m \in Nat : m = k - 1 /\ m <= n
    BY <2>2
  <2>6. PICK r : r = SubSeq(q, k, n)
    OBVIOUS
  <2>7. r \in Seq(S) /\ Len(r) = n - m
    BY <1>1, <2>2, <2>5, <2>6, SubSeqProperties
  <2>8. \A i \in 1 .. n - m : r[i] = q[i + m]
    <3>1. ASSUME NEW i \in 1 .. n - m PROVE r[i] = q[i + m]
      <4>1. k + i - 1 = i + m /\ i \in 1 .. n - k + 1
        BY <2>2, <2>5
      <4>2. r[i] = q[k + i - 1]
        BY <1>1, <2>2, <2>6, <4>1, SubSeqProperties
      <4> QED BY <4>1, <4>2
    <3> QED BY <3>1
  <2>9. \A i \in 1 .. m : i \notin young
    BY <1>1, <2>1, <2>2, <2>5
  <2>11. OldDropped(S, q, young, r, m)
    <3>1. m \in 0 .. n
      BY <2>5
    <3>2. m \in 0 .. Len(q) /\ Len(r) = Len(q) - m /\ \A i \in 1 .. Len(q) - m : r[i] = q[i + m]
      BY <1>1, <2>7, <2>8, <3>1
    <3> QED BY <2>7, <2>9, <3>2 DEF OldDropped
  <2> QED BY <2>4, <2>6, <2>11
<1> QED BY <1>2, <1>3

\* A queue that loses only old elements counts the same.
LEMMA KeptCounts ==
  ASSUME NEW q \in Seq(Nat), NEW c \in Int, NEW m \in 0 .. Len(q), NEW r \in Seq(Nat),
         Len(r) = Len(q) - m, \A i \in 1 .. Len(q) - m : r[i] = q[i + m],
         \A i \in 1 .. m : q[i] < c
  PROVE  Cardinality(QueuedSince(r, c)) = Cardinality(QueuedSince(q, c))
<1>1. PICK n \in Nat : n = Len(q) /\ m \in 0 .. n /\ m \in Nat
  OBVIOUS
<1>2. /\ DOMAIN q = 1 .. n /\ DOMAIN r = 1 .. n - m /\ \A i \in 1 .. n : q[i] \in Nat
      /\ \A i \in 1 .. n - m : r[i] = q[i + m]
      /\ \A i \in 1 .. m : q[i] < c
  BY <1>1
<1> DEFINE A == QueuedSince(r, c)
           B == QueuedSince(q, c)
           g == [i \in A |-> i + m]
<1>3. \A i : i \in A <=> i \in 1 .. n - m /\ r[i] >= c
  BY <1>2 DEF QueuedSince
<1>4. \A i : i \in B <=> i \in 1 .. n /\ q[i] >= c
  BY <1>2 DEF QueuedSince
<1> HIDE DEF A, B
<1>5. \A i \in A : i + m \in B
  <2>1. ASSUME NEW i \in A PROVE i + m \in B
    <3>1. i \in 1 .. n - m /\ q[i + m] >= c
      BY <1>2, <1>3
    <3>2. i + m \in 1 .. n
      BY <1>1, <3>1
    <3> QED BY <1>4, <3>1, <3>2
  <2> QED BY <2>1
<1>6. \A k \in B : \E i \in A : k = i + m
  <2>1. ASSUME NEW k \in B PROVE \E i \in A : k = i + m
    <3>1. k \in 1 .. n /\ q[k] >= c
      BY <1>4
    <3>2. ~(q[k] < c)
      BY <1>2, <3>1
    <3>3. k > m
      BY <1>1, <1>2, <3>1, <3>2
    <3>4. PICK i \in 1 .. n - m : i = k - m
      BY <1>1, <3>1, <3>3
    <3>5. i + m = k
      BY <1>1, <3>1, <3>4
    <3>6. r[i] = q[k]
      BY <1>2, <3>4, <3>5
    <3> QED BY <1>3, <3>1, <3>4, <3>5, <3>6
  <2> QED BY <2>1
<1>7. \A i, j \in A : i + m = j + m => i = j
  BY <1>1, <1>3
<1>8. g \in Bijection(A, B)
  <2>1. g \in [A -> B]
    BY <1>5
  <2>2. \A i, j \in A : g[i] = g[j] => i = j
    BY <1>7
  <2>3. \A k \in B : \E i \in A : g[i] = k
    BY <1>6
  <2>4. g \in Injection(A, B)
    BY <2>1, <2>2 DEF Injection, IsInjective
  <2>5. g \in Surjection(A, B)
    BY <2>1, <2>3 DEF Surjection
  <2> QED BY <2>4, <2>5 DEF Bijection
<1>9. IsFiniteSet(A)
  <2>1. IsFiniteSet(1 .. n - m)
    BY <1>1, FS_Interval
  <2>2. A \in SUBSET (1 .. n - m)
    BY <1>3
  <2> QED BY <2>1, <2>2, FS_Subset
<1>10. ExistsBijection(A, B)
  BY <1>8 DEF ExistsBijection
<1>11. Cardinality(B) = Cardinality(A)
  BY <1>9, <1>10, FS_Bijection
<1> QED BY <1>11 DEF A, B

LEMMA AppendCounts ==
  ASSUME NEW q \in Seq(Nat), NEW c \in Int, NEW rx \in Nat
  PROVE  /\ Cardinality(QueuedSince(q, c)) \in Nat
         /\ Cardinality(QueuedSince(Append(q, rx), c)) =
              Cardinality(QueuedSince(q, c)) + (IF rx >= c THEN 1 ELSE 0)
<1>1. PICK n \in Nat : n = Len(q) /\ DOMAIN q = 1 .. n
  OBVIOUS
<1>2. PICK r : r = Append(q, rx)
  OBVIOUS
<1>3. DOMAIN r = 1 .. n + 1 /\ r[n + 1] = rx /\ \A i \in 1 .. n : r[i] = q[i]
  BY <1>1, <1>2, AppendProperties
<1>4. QueuedSince(r, c) = QueuedSince(q, c) \cup (IF rx >= c THEN {n + 1} ELSE {})
  <2>1. ASSUME NEW i
        PROVE  i \in QueuedSince(r, c) <=>
                 i \in QueuedSince(q, c) \cup (IF rx >= c THEN {n + 1} ELSE {})
    <3>1. CASE i = n + 1
      BY <1>1, <1>3, <3>1 DEF QueuedSince
    <3>2. CASE i # n + 1
      BY <1>1, <1>3, <3>2 DEF QueuedSince
    <3> QED BY <3>1, <3>2
  <2> QED BY <2>1
<1>5. IsFiniteSet(QueuedSince(q, c)) /\ n + 1 \notin QueuedSince(q, c)
  <2>1. IsFiniteSet(1 .. n)
    BY FS_Interval
  <2>2. QueuedSince(q, c) \in SUBSET (1 .. n)
    BY <1>1 DEF QueuedSince
  <2>3. IsFiniteSet(QueuedSince(q, c))
    BY <2>1, <2>2, FS_Subset
  <2> QED BY <2>2, <2>3
<1>6. Cardinality(QueuedSince(q, c)) \in Nat
  BY <1>5, FS_CardinalityType
<1>7. CASE rx >= c
  <2>1. QueuedSince(r, c) = QueuedSince(q, c) \cup {n + 1}
    BY <1>4, <1>7
  <2>2. Cardinality(QueuedSince(r, c)) = Cardinality(QueuedSince(q, c)) + 1
    BY <1>5, <2>1, FS_AddElement
  <2> QED BY <1>2, <1>6, <1>7, <2>2
<1>8. CASE ~(rx >= c)
  <2>1. QueuedSince(r, c) = QueuedSince(q, c)
    BY <1>4, <1>8
  <2> QED BY <1>2, <1>6, <1>8, <2>1
<1> QED BY <1>7, <1>8

LEMMA MergedCounts ==
  ASSUME NEW ms \in Seq(FeedTicks), NEW tick \in FeedTicks, NEW f, NEW c \in Int
  PROVE  /\ Cardinality(MergedSince(ms, f, c)) \in Nat
         /\ Cardinality(MergedSince(Append(ms, tick), f, c)) =
              Cardinality(MergedSince(ms, f, c))
              + (IF tick.feed = f /\ tick.spread > 0 /\ tick.rx >= c THEN 1 ELSE 0)
<1> DEFINE counts == tick.feed = f /\ tick.spread > 0 /\ tick.rx >= c
<1>1. PICK n \in Nat : n = Len(ms) /\ DOMAIN ms = 1 .. n
  OBVIOUS
<1>2. PICK r : r = Append(ms, tick)
  OBVIOUS
<1>3. DOMAIN r = 1 .. n + 1 /\ r[n + 1] = tick /\ \A i \in 1 .. n : r[i] = ms[i]
  BY <1>1, <1>2, AppendProperties
<1>4. MergedSince(r, f, c) = MergedSince(ms, f, c) \cup (IF counts THEN {n + 1} ELSE {})
  <2>1. ASSUME NEW i
        PROVE  i \in MergedSince(r, f, c) <=>
                 i \in MergedSince(ms, f, c) \cup (IF counts THEN {n + 1} ELSE {})
    <3>1. CASE i = n + 1
      BY <1>1, <1>3, <3>1 DEF MergedSince
    <3>2. CASE i # n + 1
      BY <1>1, <1>3, <3>2 DEF MergedSince
    <3> QED BY <3>1, <3>2
  <2> QED BY <2>1
<1>5. IsFiniteSet(MergedSince(ms, f, c)) /\ n + 1 \notin MergedSince(ms, f, c)
  <2>1. IsFiniteSet(1 .. n)
    BY FS_Interval
  <2>2. MergedSince(ms, f, c) \in SUBSET (1 .. n)
    BY <1>1 DEF MergedSince
  <2>3. IsFiniteSet(MergedSince(ms, f, c))
    BY <2>1, <2>2, FS_Subset
  <2> QED BY <2>2, <2>3
<1>6. Cardinality(MergedSince(ms, f, c)) \in Nat
  BY <1>5, FS_CardinalityType
<1>7. CASE counts
  <2>1. MergedSince(r, f, c) = MergedSince(ms, f, c) \cup {n + 1}
    BY <1>4, <1>7
  <2>2. Cardinality(MergedSince(r, f, c)) = Cardinality(MergedSince(ms, f, c)) + 1
    BY <1>5, <2>1, FS_AddElement
  <2> QED BY <1>2, <1>6, <1>7, <2>2
<1>8. CASE ~counts
  <2>1. MergedSince(r, f, c) = MergedSince(ms, f, c)
    BY <1>4, <1>8
  <2> QED BY <1>2, <1>6, <1>8, <2>1
<1> QED BY <1>7, <1>8

LEMMA DropOldKeeps ==
  ASSUME NEW q, NEW c
  PROVE  /\ DropOld(q, c, LAMBDA t : t) = KeptFrom(q, QueuedSince(q, c))
         /\ DropOld(q, c, LAMBDA e : e.rx) = KeptFrom(q, {i \in DOMAIN q : q[i].rx >= c})
  BY DEF DropOld, KeptFrom, QueuedSince

LEMMA ViewInitial ==
  ASSUME ViewLimits, ViewInit
  PROVE  ViewInv
<1>1. Cardinality({}) = 0 /\ \A f, c : MergedSince(<< >>, f, c) = {} /\ QueuedSince(<< >>, c) = {}
  BY FS_EmptySet DEF MergedSince, QueuedSince
<1>2. ViewTypes /\ LiveKnown /\ MovesQueued
  BY DEF ViewLimits, ViewInit, ViewTypes, LiveKnown, MovesQueued, NeverLive
<1>3. TicksCounted
  BY <1>1 DEF ViewInit, TicksCounted
<1> QED
  BY <1>2, <1>3 DEF ViewInv

LEMMA SinceEarlier ==
  ASSUME NEW c \in Int, NEW now \in Int, NEW was \in Int, NEW w \in Int, c >= now - w, now >= was
  PROVE  c >= was - w
  OBVIOUS

\* Only a merge touches the queues.
LEMMA ViewQuiet ==
  ASSUME ViewLimits, ViewInv, mono' \in Nat, mono' >= mono,
         UNCHANGED <<recent_events, recent_ticks, merged>>
  PROVE  MovesQueued' /\ TicksCounted'
<1>1. mono \in Nat /\ BurstWindow \in Nat /\ RateWindow \in Nat
  BY DEF ViewLimits, ViewInv, ViewTypes
<1>2. ASSUME NEW i \in DOMAIN merged, merged[i].move # "none", merged[i].rx >= mono' - BurstWindow
      PROVE  IsQueued(recent_events, merged[i])
  <2>1. merged[i].rx \in Int
    <3>1. merged[i] \in FeedTicks
      BY DEF ViewInv, ViewTypes
    <3> QED BY <3>1 DEF FeedTicks, ViewLimits
  <2>2. merged[i].rx >= mono - BurstWindow
    BY <1>1, <1>2, <2>1
  <2> QED BY <1>2, <2>2 DEF ViewInv, MovesQueued
<1>3. ASSUME NEW f \in Feeds, NEW c \in Int, c >= mono' - RateWindow
      PROVE  Cardinality(QueuedSince(recent_ticks[f], c)) = Cardinality(MergedSince(merged, f, c))
  <2>1. c >= mono - RateWindow
    <3>1. PICK now \in Nat, was \in Nat, w \in Nat :
            now = mono' /\ was = mono /\ w = RateWindow /\ now >= was
      BY <1>1
    <3>2. c >= now - w
      BY <1>3, <3>1
    <3>3. c >= was - w
      <4>1. now >= was
        BY <3>1
      <4> QED BY <3>2, <4>1, SinceEarlier
    <3> QED BY <3>1, <3>3
  <2> QED BY <2>1 DEF ViewInv, TicksCounted
<1>4. MovesQueued'
  BY <1>2 DEF MovesQueued
<1>5. TicksCounted'
  BY <1>3 DEF TicksCounted
<1> QED BY <1>4, <1>5

LEMMA ConnectKeepsView ==
  ASSUME ViewLimits, ViewInv, NEW f \in Feeds, Connect(f) \/ End(f)
  PROVE  ViewInv'
<1>1. mono' = mono /\ mono \in Nat /\ UNCHANGED <<recent_events, recent_ticks, merged>>
  BY DEF ViewLimits, ViewInv, ViewTypes, Connect, End
<1>2. MovesQueued' /\ TicksCounted'
  BY <1>1, ViewQuiet
<1>3. latest' = [g \in DOMAIN latest \ {f} |-> latest[g]]
  BY DEF Connect, End, QuoteRemoved, Restrict
<1>4. \A g \in Feeds \ {f} : last_live'[g] = last_live[g]
  BY DEF Connect, End, ViewInv, ViewTypes
<1>5. ViewTypes'
  <2>1. CASE Connect(f)
    BY <1>1, <1>3, <2>1 DEF Connect, ViewInv, ViewTypes, NeverLive
  <2>2. CASE End(f)
    BY <1>1, <1>3, <2>2 DEF End, ViewInv, ViewTypes
  <2> QED BY <2>1, <2>2
<1>6. LiveKnown'
  <2>1. ASSUME NEW g \in DOMAIN latest'
        PROVE  latest'[g].rx \in 0 .. mono' /\ (~latest'[g].warm => last_live'[g] = latest'[g].rx)
    <3>1. g \in DOMAIN latest /\ g # f /\ latest'[g] = latest[g] /\ g \in Feeds
      BY <1>3 DEF ViewInv, ViewTypes
    <3> QED BY <1>1, <1>4, <3>1 DEF ViewInv, LiveKnown
  <2> QED BY <2>1 DEF LiveKnown
<1> QED
  BY <1>2, <1>5, <1>6 DEF ViewInv

LEMMA TimeKeepsView ==
  ASSUME ViewLimits, ViewInv, MonoPasses
  PROVE  ViewInv'
<1>1. mono \in Nat /\ mono' = mono + 1 /\ mono < MaxMono /\ MaxMono \in Nat
      /\ UNCHANGED <<connected, latest, last_live, recent_events, recent_ticks, merged>>
  BY DEF ViewLimits, ViewInv, ViewTypes, MonoPasses
<1>2. MovesQueued' /\ TicksCounted'
  BY <1>1, ViewQuiet
<1>3. ViewTypes'
  <2>1. mono' \in 0 .. MaxMono
    BY <1>1
  <2>2. \A f \in Feeds : last_live[f] \in NeverLive .. mono'
    BY <1>1 DEF ViewInv, ViewTypes, NeverLive
  <2> QED BY <1>1, <2>1, <2>2 DEF ViewInv, ViewTypes
<1>4. LiveKnown'
  <2>1. ASSUME NEW f \in DOMAIN latest PROVE latest[f].rx \in 0 .. mono'
    <3>1. latest[f].rx \in 0 .. mono
      BY DEF ViewInv, LiveKnown
    <3> QED BY <1>1, <3>1
  <2> QED BY <1>1, <2>1 DEF ViewInv, LiveKnown
<1> QED
  BY <1>2, <1>3, <1>4 DEF ViewInv

\* The moves' queue after a merge: what the cut keeps, and the new move.
LEMMA MovesAfterMerge ==
  ASSUME ViewLimits, ViewInv, NEW f \in Feeds, NEW rx \in 0 .. MaxMono, rx <= mono,
         NEW move \in {"none", "Up", "Down"}, NEW es,
         es = IF move = "none" THEN recent_events
              ELSE Append(DropOld(recent_events, EventCutoff(rx), LAMBDA e : e.rx),
                          [feed |-> f, rx |-> rx, move |-> move])
  PROVE  /\ es \in Seq(FeedMoves)
         /\ \A tick \in FeedTicks : tick.rx >= mono - BurstWindow /\ IsQueued(recent_events, tick)
              => IsQueued(es, tick)
         /\ move # "none" => \A tick : tick.feed = f /\ tick.rx = rx /\ tick.move = move
              => IsQueued(es, tick)
<1>1. CASE move = "none"
  BY <1>1 DEF ViewInv, ViewTypes
<1>2. CASE move # "none"
  <2> DEFINE young == {i \in DOMAIN recent_events : recent_events[i].rx >= EventCutoff(rx)}
             new == [feed |-> f, rx |-> rx, move |-> move]
  <2>1. recent_events \in Seq(FeedMoves) /\ young \in SUBSET (1 .. Len(recent_events))
    BY DEF ViewInv, ViewTypes
  <2>2. PICK kept : kept = KeptFrom(recent_events, young)
    OBVIOUS
  <2>3. es = Append(kept, new)
    BY <1>2, <2>2, DropOldKeeps
  <2>4. \E m : OldDropped(FeedMoves, recent_events, young, kept, m)
    BY <2>1, <2>2, KeptFromFacts
  <2>5. PICK m : OldDropped(FeedMoves, recent_events, young, kept, m)
    BY <2>4
  <2>6. PICK n \in Nat : n = Len(recent_events) /\ DOMAIN recent_events = 1 .. n
    BY <2>1
  <2>7. /\ m \in 0 .. n /\ kept \in Seq(FeedMoves) /\ Len(kept) = n - m
        /\ \A i \in 1 .. n - m : kept[i] = recent_events[i + m]
        /\ \A i \in 1 .. m : i \notin young
    BY <2>5, <2>6 DEF OldDropped
  <2>8. new \in FeedMoves
    BY <1>2 DEF FeedMoves
  <2> HIDE DEF new
  <2>9. es \in Seq(FeedMoves) /\ DOMAIN es = 1 .. n - m + 1 /\ es[n - m + 1] = new
        /\ \A i \in 1 .. n - m : es[i] = kept[i]
    <3>1. PICK p \in Nat : p = n - m
      BY <2>7
    <3>2. Len(kept) = p /\ kept \in Seq(FeedMoves)
      BY <2>7, <3>1
    <3>3. es \in Seq(FeedMoves) /\ Len(es) = p + 1 /\ es[p + 1] = new
          /\ \A i \in 1 .. p : es[i] = kept[i]
      <4>1. PICK seq \in Seq(FeedMoves), e \in FeedMoves : seq = kept /\ e = new
        BY <2>8, <3>2
      <4>2. Append(seq, e) \in Seq(FeedMoves) /\ Len(Append(seq, e)) = Len(seq) + 1
            /\ (\A i \in 1 .. Len(seq) : Append(seq, e)[i] = seq[i])
            /\ Append(seq, e)[Len(seq) + 1] = e
        BY AppendProperties
      <4> QED BY <2>3, <3>2, <4>1, <4>2
    <3>4. DOMAIN es = 1 .. p + 1
      BY <3>3
    <3> QED BY <3>1, <3>3, <3>4
  <2>10. ASSUME NEW tick \in FeedTicks, tick.rx >= mono - BurstWindow, IsQueued(recent_events, tick)
         PROVE  IsQueued(es, tick)
    <3>1. PICK j : j \in 1 .. n /\ recent_events[j] = [feed |-> tick.feed, rx |-> tick.rx, move |-> tick.move]
      BY <2>6, <2>10 DEF IsQueued
    <3>2. tick.rx \in Int /\ mono \in Int /\ BurstWindow \in Int
      BY DEF FeedTicks, ViewInv, ViewTypes, ViewLimits
    <3>3. recent_events[j].rx >= EventCutoff(rx)
      BY <2>10, <3>1, <3>2 DEF EventCutoff
    <3>4. j \in young
      BY <2>6, <3>1, <3>3
    <3>5. ~(j \in 1 .. m)
      BY <2>7, <3>4
    <3>6. PICK i \in 1 .. n - m : j = i + m
      <4>1. j > m /\ j \in 1 .. n /\ m \in 0 .. n
        BY <2>6, <2>7, <3>1, <3>5
      <4>2. j - m \in 1 .. n - m /\ j = (j - m) + m
        BY <4>1
      <4> QED BY <4>2
    <3>7. i \in DOMAIN es /\ es[i] = recent_events[j]
      BY <2>7, <2>9, <3>6, SMTT(30)
    <3> QED BY <3>1, <3>7 DEF IsQueued
  <2>11. ASSUME NEW tick, tick.feed = f, tick.rx = rx, tick.move = move
         PROVE  IsQueued(es, tick)
    <3>1. n - m + 1 \in DOMAIN es
      BY <2>7, <2>9
    <3> QED BY <2>9, <2>11, <3>1 DEF IsQueued, new
  <2> QED BY <2>9, <2>10, <2>11
<1> QED BY <1>1, <1>2

\* The tracker's queue after a merge counts one more where the tick counts.
LEMMA TicksAfterMerge ==
  ASSUME ViewLimits, ViewInv, NEW f \in Feeds, NEW rx \in 0 .. MaxMono, rx <= mono, NEW q,
         q = DropOld(Append(recent_ticks[f], rx), rx - RateWindow, LAMBDA t : t)
  PROVE  /\ q \in Seq(0 .. MaxMono)
         /\ \A c \in Int : c >= mono - RateWindow =>
              Cardinality(QueuedSince(q, c)) =
                Cardinality(QueuedSince(recent_ticks[f], c)) + (IF rx >= c THEN 1 ELSE 0)
<1>1. recent_ticks[f] \in Seq(0 .. MaxMono) /\ recent_ticks[f] \in Seq(Nat)
  BY DEF ViewInv, ViewTypes, ViewLimits
<1>2. PICK longer : longer = Append(recent_ticks[f], rx)
  OBVIOUS
<1>3. longer \in Seq(0 .. MaxMono) /\ longer \in Seq(Nat)
  BY <1>1, <1>2 DEF ViewLimits
<1> DEFINE young == QueuedSince(longer, rx - RateWindow)
<1>4. young \in SUBSET (1 .. Len(longer))
  BY <1>3 DEF QueuedSince
<1>5. q = KeptFrom(longer, young)
  BY <1>2, DropOldKeeps
<1>6. \E m : OldDropped(0 .. MaxMono, longer, young, q, m)
  BY <1>3, <1>4, <1>5, KeptFromFacts
<1>7. PICK m : OldDropped(0 .. MaxMono, longer, young, q, m)
  BY <1>6
<1>8. q \in Seq(0 .. MaxMono) /\ m \in 0 .. Len(longer) /\ Len(q) = Len(longer) - m
      /\ (\A i \in 1 .. Len(longer) - m : q[i] = longer[i + m])
      /\ \A i \in 1 .. m : i \notin young
  BY <1>7 DEF OldDropped
<1>9. q \in Seq(Nat)
  BY <1>8 DEF ViewLimits
<1>10. ASSUME NEW c \in Int, c >= mono - RateWindow
       PROVE  Cardinality(QueuedSince(q, c)) =
                Cardinality(QueuedSince(recent_ticks[f], c)) + (IF rx >= c THEN 1 ELSE 0)
  <2>1. ASSUME NEW i \in 1 .. m PROVE longer[i] < c
    <3>1. i \in DOMAIN longer /\ longer[i] \in Nat
      BY <1>3, <1>8
    <3>2. ~(longer[i] >= rx - RateWindow)
      BY <1>8, <3>1 DEF QueuedSince
    <3>3. mono \in Int /\ RateWindow \in Int /\ rx \in Int
      BY DEF ViewInv, ViewTypes, ViewLimits
    <3> QED BY <1>10, <3>1, <3>2, <3>3
  <2>2. Cardinality(QueuedSince(q, c)) = Cardinality(QueuedSince(longer, c))
    BY <1>3, <1>8, <1>9, <2>1, KeptCounts
  <2>3. rx \in Nat
    OBVIOUS
  <2> QED BY <1>1, <1>2, <2>2, <2>3, AppendCounts
<1> QED BY <1>8, <1>10

LEMMA MergeKeepsView ==
  ASSUME ViewLimits, ViewInv, NEW f \in Feeds, NEW rx \in 0 .. MaxMono, NEW warm \in BOOLEAN,
         NEW move \in {"none", "Up", "Down"}, NEW spread \in 0 .. 1,
         Merge(f, rx, warm, move, spread)
  PROVE  ViewInv'
<1> DEFINE tick == [feed |-> f, rx |-> rx, move |-> move, spread |-> spread]
<1>1. /\ mono' = mono /\ connected' = connected /\ rx <= mono /\ merged' = Append(merged, tick)
      /\ mono \in Nat
  BY DEF Merge, ViewInv, ViewTypes, ViewLimits
<1>2. tick \in FeedTicks /\ merged \in Seq(FeedTicks)
  BY DEF FeedTicks, ViewInv, ViewTypes
<1>3. merged' \in Seq(FeedTicks)
  BY <1>1, <1>2
<1>4. PICK n \in Nat : n = Len(merged) /\ DOMAIN merged = 1 .. n
  BY <1>2
<1>5. DOMAIN merged' = 1 .. n + 1 /\ merged'[n + 1] = tick /\ \A i \in 1 .. n : merged'[i] = merged[i]
  BY <1>1, <1>2, <1>4, AppendProperties
<1>6. recent_events' = IF move = "none" THEN recent_events
                       ELSE Append(DropOld(recent_events, EventCutoff(rx), LAMBDA e : e.rx),
                                   [feed |-> f, rx |-> rx, move |-> move])
  BY DEF Merge
<1>7. /\ recent_events' \in Seq(FeedMoves)
      /\ \A t \in FeedTicks : t.rx >= mono - BurstWindow /\ IsQueued(recent_events, t)
           => IsQueued(recent_events', t)
      /\ move # "none" => \A t : t.feed = f /\ t.rx = rx /\ t.move = move
           => IsQueued(recent_events', t)
  BY <1>1, <1>6, MovesAfterMerge
<1>8. MovesQueued'
  <2>1. ASSUME NEW i \in 1 .. n + 1, merged'[i].move # "none", merged'[i].rx >= mono - BurstWindow
        PROVE  IsQueued(recent_events', merged'[i])
    <3>1. CASE i = n + 1
      <4>1. merged'[i].feed = f /\ merged'[i].rx = rx /\ merged'[i].move = move /\ move # "none"
        BY <1>5, <2>1, <3>1
      <4> QED BY <1>7, <4>1
    <3>2. CASE i # n + 1
      <4>1. i \in DOMAIN merged /\ merged'[i] = merged[i] /\ merged[i] \in FeedTicks
        BY <1>2, <1>4, <1>5, <3>2
      <4>2. IsQueued(recent_events, merged[i])
        BY <2>1, <4>1 DEF ViewInv, MovesQueued
      <4> QED BY <1>7, <2>1, <4>1, <4>2
    <3> QED BY <3>1, <3>2
  <2> QED BY <1>1, <1>5, <2>1 DEF MovesQueued
<1>9. PICK q : q = DropOld(Append(recent_ticks[f], rx), rx - RateWindow, LAMBDA t : t)
  OBVIOUS
<1>10. recent_ticks \in [Feeds -> Seq(0 .. MaxMono)]
  BY DEF ViewInv, ViewTypes
<1>11. recent_ticks' = IF spread = 0 THEN recent_ticks ELSE [recent_ticks EXCEPT ![f] = q]
  BY <1>9 DEF Merge
<1>12. /\ q \in Seq(0 .. MaxMono)
       /\ \A c \in Int : c >= mono - RateWindow =>
            Cardinality(QueuedSince(q, c)) =
              Cardinality(QueuedSince(recent_ticks[f], c)) + (IF rx >= c THEN 1 ELSE 0)
  BY <1>1, <1>9, TicksAfterMerge
<1>13. recent_ticks' \in [Feeds -> Seq(0 .. MaxMono)]
  BY <1>10, <1>11, <1>12
<1>14. TicksCounted'
  <2>1. ASSUME NEW g \in Feeds, NEW c \in Int, c >= mono - RateWindow
        PROVE  Cardinality(QueuedSince(recent_ticks'[g], c)) = Cardinality(MergedSince(merged', g, c))
    <3>1. /\ Cardinality(MergedSince(merged, g, c)) \in Nat
          /\ Cardinality(MergedSince(merged', g, c)) =
               Cardinality(MergedSince(merged, g, c))
               + (IF tick.feed = g /\ tick.spread > 0 /\ tick.rx >= c THEN 1 ELSE 0)
      BY <1>1, <1>2, MergedCounts
    <3>2. Cardinality(QueuedSince(recent_ticks[g], c)) = Cardinality(MergedSince(merged, g, c))
      BY <2>1 DEF ViewInv, TicksCounted
    <3>3. CASE spread = 0 \/ g # f
      <4>1. recent_ticks'[g] = recent_ticks[g]
        BY <1>10, <1>11, <3>3
      <4>2. ~(tick.feed = g /\ tick.spread > 0 /\ tick.rx >= c)
        BY <3>3
      <4> QED BY <3>1, <3>2, <4>1, <4>2
    <3>4. CASE spread # 0 /\ g = f
      <4>1. recent_ticks'[g] = q
        BY <1>10, <1>11, <3>4
      <4>2. (tick.feed = g /\ tick.spread > 0 /\ tick.rx >= c) <=> rx >= c
        BY <3>4
      <4>3. Cardinality(QueuedSince(q, c)) =
              Cardinality(QueuedSince(recent_ticks[g], c)) + (IF rx >= c THEN 1 ELSE 0)
        BY <1>12, <2>1, <3>4
      <4> HIDE DEF tick
      <4> QED BY <3>1, <3>2, <4>1, <4>2, <4>3
    <3> QED BY <3>3, <3>4
  <2> QED BY <1>1, <2>1 DEF TicksCounted
<1>15. DOMAIN latest' = DOMAIN latest \cup {f} /\ latest'[f] = [rx |-> rx, warm |-> warm]
       /\ \A g \in DOMAIN latest \ {f} : latest'[g] = latest[g]
  BY DEF Merge
<1>16. last_live' = IF warm THEN last_live ELSE [last_live EXCEPT ![f] = rx]
  BY DEF Merge
<1>17. /\ last_live \in [Feeds -> Int] /\ \A g \in Feeds : last_live[g] \in NeverLive .. mono
       /\ DOMAIN latest \subseteq Feeds
  BY DEF ViewInv, ViewTypes
<1>18. last_live' \in [Feeds -> Int] /\ \A g \in Feeds : last_live'[g] \in NeverLive .. mono
  BY <1>1, <1>16, <1>17 DEF NeverLive
<1>19. ViewTypes'
  <2>1. mono \in 0 .. MaxMono /\ connected \in [Feeds -> BOOLEAN]
    BY DEF ViewInv, ViewTypes
  <2>2. DOMAIN latest' \subseteq Feeds
    BY <1>15, <1>17
  <2> QED BY <1>1, <1>3, <1>7, <1>13, <1>18, <2>1, <2>2 DEF ViewTypes
<1>20. LiveKnown'
  <2>1. ASSUME NEW g \in DOMAIN latest'
        PROVE  latest'[g].rx \in 0 .. mono /\ (~latest'[g].warm => last_live'[g] = latest'[g].rx)
    <3>1. CASE g = f
      BY <1>1, <1>15, <1>16, <1>17, <3>1
    <3>2. CASE g # f
      <4>1. g \in DOMAIN latest /\ g \in Feeds /\ latest'[g] = latest[g] /\ last_live'[g] = last_live[g]
        BY <1>15, <1>16, <1>17, <3>2
      <4> QED BY <4>1 DEF ViewInv, LiveKnown
    <3> QED BY <3>1, <3>2
  <2> QED BY <1>1, <2>1 DEF LiveKnown
<1> QED
  BY <1>8, <1>14, <1>19, <1>20 DEF ViewInv

\* ViewInv is inductive.
LEMMA ViewStep ==
  ASSUME ViewLimits, ViewInv, [ViewNext]_viewVars
  PROVE  ViewInv'
<1>1. ASSUME NEW f \in Feeds, Connect(f) \/ End(f) PROVE ViewInv'
  BY <1>1, ConnectKeepsView
<1>2. ASSUME NEW f \in Feeds, NEW rx \in 0 .. MaxMono, NEW warm \in BOOLEAN,
             NEW move \in {"none", "Up", "Down"}, NEW spread \in 0 .. 1,
             Merge(f, rx, warm, move, spread)
      PROVE  ViewInv'
  BY <1>2, MergeKeepsView
<1>3. CASE MonoPasses
  BY <1>3, TimeKeepsView
<1>4. CASE UNCHANGED viewVars
  BY <1>4 DEF viewVars, ViewInv, ViewTypes, LiveKnown, MovesQueued, TicksCounted
<1> QED
  BY <1>1, <1>2, <1>3, <1>4 DEF ViewNext

\* Three sets of feeds that have no feed in common have no more members than there
\* are feeds.
LEMMA ThreeDisjoint ==
  ASSUME IsFiniteSet(Feeds), NEW A \in SUBSET Feeds, NEW B \in SUBSET Feeds, NEW C \in SUBSET Feeds,
         A \cap B = {}, A \cap C = {}, B \cap C = {}
  PROVE  Cardinality(A) + Cardinality(B) + Cardinality(C) <= Cardinality(Feeds)
<1>1. IsFiniteSet(A) /\ IsFiniteSet(B) /\ IsFiniteSet(C)
  BY FS_Subset
<1>2. Cardinality({}) = 0
  BY FS_EmptySet
<1>3. /\ Cardinality(A) \in Nat /\ Cardinality(B) \in Nat /\ Cardinality(C) \in Nat
      /\ Cardinality(Feeds) \in Nat
  BY <1>1, FS_CardinalityType
<1>4. IsFiniteSet(A \cup B) /\ Cardinality(A \cup B) = Cardinality(A) + Cardinality(B)
  <2>1. Cardinality(A \cup B) = Cardinality(A) + Cardinality(B) - Cardinality(A \cap B)
        /\ IsFiniteSet(A \cup B)
    BY <1>1, FS_Union
  <2>2. A \cap B = {}
    OBVIOUS
  <2>3. PICK a \in Nat, b \in Nat : a = Cardinality(A) /\ b = Cardinality(B)
    BY <1>3
  <2>4. Cardinality(A \cup B) = a + b - 0
    BY <1>2, <2>1, <2>2, <2>3
  <2> QED BY <2>1, <2>3, <2>4
<1>5. Cardinality((A \cup B) \cup C) = Cardinality(A) + Cardinality(B) + Cardinality(C)
  <2>1. Cardinality((A \cup B) \cup C) =
          Cardinality(A \cup B) + Cardinality(C) - Cardinality((A \cup B) \cap C)
    BY <1>1, <1>4, FS_Union
  <2>2. (A \cup B) \cap C = {}
    OBVIOUS
  <2>3. PICK a \in Nat, b \in Nat, c \in Nat :
          a = Cardinality(A) /\ b = Cardinality(B) /\ c = Cardinality(C)
    BY <1>3
  <2>4. Cardinality((A \cup B) \cup C) = (a + b) + c - 0
    BY <1>2, <1>4, <2>1, <2>2, <2>3
  <2> QED BY <2>3, <2>4
<1>6. Cardinality((A \cup B) \cup C) <= Cardinality(Feeds)
  <2>1. (A \cup B) \cup C \in SUBSET Feeds
    OBVIOUS
  <2> QED BY <2>1, FS_Subset
<1> QED BY <1>5, <1>6

\* A move of the window is one of a feed that is not stale.
LEMMA EventsNowFacts ==
  ASSUME ViewInv, NEW dir, NEW i \in EventsNow(dir)
  PROVE  /\ i \in DOMAIN recent_events /\ i \in Nat /\ recent_events[i].move = dir
         /\ recent_events[i].feed \in Feeds \ StaleBrokers
<1>1. recent_events \in Seq(FeedMoves) /\ i \in DOMAIN recent_events
  BY DEF EventsNow, ViewInv, ViewTypes
<1>2. recent_events[i] \in FeedMoves /\ i \in Nat
  BY <1>1
<1>3. recent_events[i].feed \in Feeds
  BY <1>2 DEF FeedMoves
<1> QED BY <1>1, <1>2, <1>3 DEF EventsNow

\* ViewInv gives every figure of a projection.
LEMMA ViewInvGives ==
  ASSUME ViewLimits, ViewInv
  PROVE  ViewCorrect
<1>1. ViewTypeOK
  BY DEF ViewTypeOK, ViewInv, ViewTypes
<1>2. DisconnectedContributesNothing
  <2>1. ASSUME NEW f \in Feeds, ~connected[f]
        PROVE  /\ f \notin Consensus
               /\ \A dir \in {"Up", "Down"} : f \notin Cluster(dir) \cup Counted(dir)
               /\ \A g \in Feeds \ {f} : ~Comparable(f, g)
    <3>1. f \in StaleBrokers
      BY <2>1 DEF StaleBrokers
    <3>2. f \notin Consensus
      BY <3>1 DEF Consensus
    <3>3. ASSUME NEW dir, f \in Cluster(dir) \cup Counted(dir) PROVE FALSE
      <4>1. PICK i \in EventsNow(dir) : recent_events[i].feed = f
        BY <3>3 DEF Cluster, Counted
      <4> QED BY <3>1, <4>1, EventsNowFacts
    <3>4. \A g \in Feeds \ {f} : ~Comparable(f, g)
      BY <2>1 DEF Comparable
    <3> QED BY <3>2, <3>3, <3>4
  <2> QED BY <2>1 DEF DisconnectedContributesNothing
<1>3. AnalysedIsShownLive
  <2>1. ASSUME NEW f \in Consensus PROVE connected[f] /\ Freshness(f) = "Live"
    <3>1. f \in DOMAIN latest /\ f \notin StaleBrokers /\ f \in Feeds /\ ~latest[f].warm
          /\ mono - latest[f].rx <= StaleAfter
      BY DEF Consensus, ViewInv, ViewTypes
    <3>2. connected[f]
      BY <3>1 DEF StaleBrokers
    <3>3. latest[f].rx \in 0 .. mono /\ last_live[f] = latest[f].rx
      BY <3>1 DEF ViewInv, LiveKnown
    <3>4. mono \in Int /\ last_live[f] # NeverLive
      BY <3>3 DEF NeverLive, ViewInv, ViewTypes
    <3>5. mono - last_live[f] <= StaleAfter
      BY <3>1, <3>3
    <3> QED BY <3>2, <3>4, <3>5 DEF Freshness
  <2> QED BY <2>1 DEF AnalysedIsShownLive
<1>4. BreadthWithinFeeds
  <2>1. ASSUME NEW dir, NEW f \in Counted(dir)
        PROVE  /\ f \in Feeds /\ f \notin StaleBrokers
               /\ \E i \in EventsNow(dir) :
                    /\ recent_events[i].feed = f
                    /\ \A j \in EventsNow("Up") \cup EventsNow("Down") : recent_events[j].feed = f => j <= i
    <3>1. PICK i \in EventsNow(dir) :
            /\ recent_events[i].feed = f
            /\ \A j \in EventsNow("Up") \cup EventsNow("Down") : recent_events[j].feed = f => j <= i
      BY DEF Counted
    <3>2. f \in Feeds \ StaleBrokers
      BY <3>1, EventsNowFacts
    <3> QED BY <3>1, <3>2
  <2>2. Counted("Up") \cap Counted("Down") = {}
    <3>1. ASSUME NEW f, f \in Counted("Up"), f \in Counted("Down") PROVE FALSE
      <4>1. PICK i \in EventsNow("Up") :
              /\ recent_events[i].feed = f
              /\ \A k \in EventsNow("Up") \cup EventsNow("Down") : recent_events[k].feed = f => k <= i
        BY <2>1, <3>1
      <4>2. PICK j \in EventsNow("Down") :
              /\ recent_events[j].feed = f
              /\ \A k \in EventsNow("Up") \cup EventsNow("Down") : recent_events[k].feed = f => k <= j
        BY <2>1, <3>1
      <4>3. i \in Nat /\ j \in Nat /\ recent_events[i].move = "Up" /\ recent_events[j].move = "Down"
        BY <4>1, <4>2, EventsNowFacts
      <4>4. j <= i /\ i <= j
        BY <4>1, <4>2
      <4>5. i = j
        BY <4>3, <4>4
      <4> QED BY <4>3, <4>5
    <3> QED BY <3>1
  <2>3. StaleBrokers \in SUBSET Feeds
    BY DEF StaleBrokers
  <2>4. /\ Counted("Up") \in SUBSET Feeds /\ Counted("Down") \in SUBSET Feeds
        /\ Counted("Up") \cap StaleBrokers = {} /\ Counted("Down") \cap StaleBrokers = {}
    BY <2>1
  <2>5. IsFiniteSet(Feeds)
    BY DEF ViewLimits
  <2> QED BY <2>2, <2>3, <2>4, <2>5, ThreeDisjoint DEF BreadthWithinFeeds
<1>5. BurstIsComplete
  BY DEF BurstIsComplete, ViewInv, MovesQueued, IsQueued
<1>6. TickRateIsExact
  <2>1. ASSUME NEW f \in Feeds
        PROVE  TickRate(f) = Cardinality({i \in DOMAIN merged :
                 merged[i].feed = f /\ merged[i].spread > 0 /\ merged[i].rx >= mono - RateWindow})
    <3>1. mono - RateWindow \in Int /\ mono - RateWindow >= mono - RateWindow
      BY DEF ViewLimits, ViewInv, ViewTypes
    <3>2. Cardinality(QueuedSince(recent_ticks[f], mono - RateWindow)) =
            Cardinality(MergedSince(merged, f, mono - RateWindow))
      BY <3>1 DEF ViewInv, TicksCounted
    <3> QED BY <3>2 DEF TickRate, QueuedSince, MergedSince
  <2> QED BY <2>1 DEF TickRateIsExact
<1> QED
  BY <1>1, <1>2, <1>3, <1>4, <1>5, <1>6 DEF ViewCorrect

\* In whatever order frames are merged and connections end, a projection says of the
\* market what the merged ticks say: no disconnected feed is in a figure, the breadth
\* counts each feed once, no move of the window is missing from a burst, and the tick
\* rate is exact (make_projection_at, projection.rs).
THEOREM ViewIsCorrect == ViewLimits /\ ViewSpec => []ViewCorrect
<1> SUFFICES ASSUME ViewLimits PROVE ViewSpec => []ViewCorrect
  OBVIOUS
<1>1. ViewInit => ViewInv
  BY ViewInitial
<1>2. ViewInv /\ [ViewNext]_viewVars => ViewInv'
  BY ViewStep
<1>3. ViewInv => ViewCorrect
  BY ViewInvGives
<1> QED
  BY <1>1, <1>2, <1>3, PTL DEF ViewSpec

-----------------------------------------------------------------------------
(* The scale of a chart and its zoom (ChartScale). *)

HasGreatest(S) == \E m \in S : \A k \in S : k <= m

LEMMA GreatestExists ==
  ASSUME NEW S \in SUBSET Int, IsFiniteSet(S), S # {}
  PROVE  HasGreatest(S)
<1> DEFINE Good == {n \in Nat : \A T \in SUBSET S : Cardinality(T) = n + 1 => HasGreatest(T)}
<1>1. \A T \in SUBSET S : IsFiniteSet(T) /\ Cardinality(T) \in Nat
  BY FS_Subset, FS_CardinalityType
<1>2. 0 \in Good
  <2>1. ASSUME NEW T \in SUBSET S, Cardinality(T) = 1 PROVE HasGreatest(T)
    <3>1. PICK x : T = {x}
      BY <1>1, <2>1, FS_Singleton
    <3>2. x \in Int
      BY <3>1
    <3> QED BY <3>1, <3>2 DEF HasGreatest
  <2> QED BY <2>1
<1>3. ASSUME NEW n \in Nat, n \in Good PROVE n + 1 \in Good
  <2>1. ASSUME NEW T \in SUBSET S, Cardinality(T) = (n + 1) + 1 PROVE HasGreatest(T)
    <3>1. PICK x : x \in T
      BY <2>1, FS_EmptySet
    <3>2. Cardinality(T \ {x}) = Cardinality(T) - 1
      BY <1>1, <3>1, FS_RemoveElement
    <3>3. Cardinality(T \ {x}) = n + 1
      BY <2>1, <3>2
    <3>4. HasGreatest(T \ {x})
      BY <1>3, <3>3
    <3>5. PICK m \in T \ {x} : \A k \in T \ {x} : k <= m
      BY <3>4 DEF HasGreatest
    <3>6. m \in Int /\ x \in Int
      BY <3>1
    <3>7. CASE x <= m
      BY <3>5, <3>7 DEF HasGreatest
    <3>8. CASE ~(x <= m)
      <4>1. ASSUME NEW k \in T PROVE k <= x
        <5>1. k \in Int
          OBVIOUS
        <5>2. CASE k = x
          BY <3>6, <5>2
        <5>3. CASE k # x
          <6>1. k <= m
            BY <3>5, <5>3
          <6> QED BY <3>6, <3>8, <5>1, <6>1
        <5> QED BY <5>2, <5>3
      <4> QED BY <3>1, <4>1 DEF HasGreatest
    <3> QED BY <3>7, <3>8
  <2> QED BY <2>1
<1>4. Nat \subseteq Good
  <2> HIDE DEF Good
  <2> QED BY <1>2, <1>3, Induction
<1>5. Cardinality(S) \in Nat /\ Cardinality(S) # 0
  BY FS_CardinalityType, FS_EmptySet
<1>6. PICK n \in Nat : Cardinality(S) = n + 1
  <2>1. Cardinality(S) - 1 \in Nat /\ Cardinality(S) = (Cardinality(S) - 1) + 1
    BY <1>5
  <2> QED BY <2>1
<1> QED BY <1>4, <1>6

LEMMA MaxIsGreatest ==
  ASSUME NEW S \in SUBSET Int, NEW k \in S, \A j \in S : j <= k
  PROVE  Max(S) = k
<1> DEFINE P(x) == x \in S /\ \A y \in S : x >= y
<1>1. P(k)
  OBVIOUS
<1>2. Max(S) = CHOOSE x : P(x)
  BY DEF Max
<1>3. P(CHOOSE x : P(x))
  BY <1>1
<1>4. Max(S) \in S /\ k <= Max(S)
  BY <1>2, <1>3
<1>5. Max(S) \in Int /\ k \in Int /\ Max(S) <= k
  BY <1>4
<1> QED BY <1>4, <1>5

\* What a frame can follow.
Quotes(c) ==
  \E S \in SUBSET ScaleBrokers : c \in [S -> [price : ScalePrices, rx : 0 .. 1]]

\* The prices followed, with their extremes.
Spread(c, low, high) ==
  /\ low \in Nat /\ high \in Nat /\ low >= Deadzone /\ low <= high
  /\ low \in PricesOf(c) /\ high \in PricesOf(c)
  /\ Min(PricesOf(c)) = low /\ Max(PricesOf(c)) = high
  /\ \A p \in PricesOf(c) : p \in Nat /\ low <= p /\ p <= high

HasSpread(c) == \E low, high : Spread(c, low, high)

LEMMA QuotesFacts ==
  ASSUME ScaleLimits, NEW c, Quotes(c)
  PROVE  /\ IsFiniteSet(DOMAIN c) /\ \A b \in DOMAIN c : c[b].price \in ScalePrices
         /\ PricesOf(c) \in SUBSET Nat /\ PricesOf(c) \in SUBSET ScalePrices
<1>1. PICK S \in SUBSET ScaleBrokers : c \in [S -> [price : ScalePrices, rx : 0 .. 1]]
  BY DEF Quotes
<1>2. DOMAIN c = S /\ \A b \in S : c[b].price \in ScalePrices
  BY <1>1
<1>3. IsFiniteSet(S)
  BY FS_Subset DEF ScaleLimits
<1> QED BY <1>2, <1>3 DEF PricesOf, ScaleLimits

LEMMA SpreadExists ==
  ASSUME ScaleLimits, NEW c, Quotes(c), DOMAIN c # {}
  PROVE  HasSpread(c)
<1>1. IsFiniteSet(DOMAIN c) /\ PricesOf(c) \in SUBSET Nat /\ PricesOf(c) \in SUBSET ScalePrices
  BY QuotesFacts
<1>2. PricesOf(c) # {}
  BY DEF PricesOf
<1>3. IsFiniteSet(PricesOf(c))
  <2> DEFINE priceOf == [b \in DOMAIN c |-> c[b].price]
  <2>1. priceOf \in Surjection(DOMAIN c, PricesOf(c))
    BY DEF Surjection, PricesOf
  <2> HIDE DEF priceOf
  <2> QED BY <1>1, <2>1, FS_Surjection
<1>4. PICK low \in PricesOf(c) : \A p \in PricesOf(c) : low <= p
  BY <1>1, <1>2, LeastExists
<1>5. PricesOf(c) \in SUBSET Int
  BY <1>1
<1>6. HasGreatest(PricesOf(c))
  BY <1>2, <1>3, <1>5, GreatestExists
<1>7. PICK high \in PricesOf(c) : \A p \in PricesOf(c) : p <= high
  BY <1>6 DEF HasGreatest
<1>8. Min(PricesOf(c)) = low
  BY <1>4, <1>5, MinIsLeast
<1>9. Max(PricesOf(c)) = high
  BY <1>5, <1>7, MaxIsGreatest
<1>10. low \in Nat /\ high \in Nat /\ low <= high /\ low >= Deadzone
  BY <1>1, <1>4, <1>7 DEF ScaleLimits
<1>11. Spread(c, low, high)
  BY <1>1, <1>4, <1>7, <1>8, <1>9, <1>10 DEF Spread
<1> QED BY <1>11 DEF HasSpread

\* The k-th price from below, of n quotes.
QuotesBelow(c, p) == {b \in DOMAIN c : c[b].price < p}
QuotesUpTo(c, p) == {b \in DOMAIN c : c[b].price <= p}

KthPrice(c, k) ==
  CHOOSE p \in PricesOf(c) : Cardinality(QuotesBelow(c, p)) < k /\ Cardinality(QuotesUpTo(c, p)) >= k

LEMMA KthPriceExists ==
  ASSUME ScaleLimits, NEW c, Quotes(c), DOMAIN c # {},
         NEW k \in Nat, k >= 1, k <= Cardinality(DOMAIN c)
  PROVE  KthPrice(c, k) \in PricesOf(c)
<1>1. IsFiniteSet(DOMAIN c) /\ PricesOf(c) \in SUBSET Nat /\ \A b \in DOMAIN c : c[b].price \in PricesOf(c)
  BY QuotesFacts DEF PricesOf
<1>2. \A p : /\ IsFiniteSet(QuotesBelow(c, p)) /\ Cardinality(QuotesBelow(c, p)) \in Nat
             /\ IsFiniteSet(QuotesUpTo(c, p)) /\ Cardinality(QuotesUpTo(c, p)) \in Nat
  <2>1. ASSUME NEW p PROVE QuotesBelow(c, p) \in SUBSET DOMAIN c /\ QuotesUpTo(c, p) \in SUBSET DOMAIN c
    BY DEF QuotesBelow, QuotesUpTo
  <2> QED BY <1>1, <2>1, FS_Subset, FS_CardinalityType
<1> DEFINE Enough == {p \in PricesOf(c) : Cardinality(QuotesUpTo(c, p)) >= k}
<1>3. Enough # {}
  <2>1. PICK low, high : Spread(c, low, high)
    BY SpreadExists DEF HasSpread
  <2>2. QuotesUpTo(c, high) = DOMAIN c
    BY <1>1, <2>1 DEF Spread, QuotesUpTo
  <2>3. high \in Enough
    BY <1>2, <2>1, <2>2 DEF Spread
  <2> QED BY <2>3
<1>4. PICK p \in Enough : \A q \in Enough : p <= q
  <2>1. Enough \in SUBSET Nat
    BY <1>1
  <2> HIDE DEF Enough
  <2> QED BY <1>3, <2>1, LeastExists
<1>5. Cardinality(QuotesBelow(c, p)) < k
  <2> SUFFICES ASSUME Cardinality(QuotesBelow(c, p)) >= k PROVE FALSE
    BY <1>2
  <2>1. p \in Nat
    BY <1>1
  <2>2. QuotesBelow(c, p) # {}
    <3>1. Cardinality({}) = 0
      BY FS_EmptySet
    <3> QED BY <3>1
  <2> DEFINE lower == {q \in PricesOf(c) : q < p}
  <2>3. lower # {} /\ lower \in SUBSET Int
    BY <1>1, <2>2 DEF QuotesBelow
  <2>4. IsFiniteSet(lower)
    <3>1. lower \in SUBSET (0 .. p)
      BY <1>1, <2>1
    <3>2. IsFiniteSet(0 .. p)
      BY <2>1, FS_Interval
    <3> QED BY <3>1, <3>2, FS_Subset
  <2>5. HasGreatest(lower)
    <3> HIDE DEF lower
    <3> QED BY <2>3, <2>4, GreatestExists
  <2>6. PICK q \in lower : \A r \in lower : r <= q
    BY <2>5 DEF HasGreatest
  <2>7. q \in PricesOf(c) /\ q < p /\ q \in Nat
    BY <1>1, <2>6
  <2>8. QuotesUpTo(c, q) = QuotesBelow(c, p)
    <3>1. ASSUME NEW b \in DOMAIN c PROVE c[b].price <= q <=> c[b].price < p
      <4>1. c[b].price \in PricesOf(c) /\ c[b].price \in Nat
        BY <1>1
      <4>2. c[b].price < p => c[b].price <= q
        BY <2>6, <4>1
      <4> QED BY <2>1, <2>7, <4>1, <4>2
    <3> QED BY <3>1 DEF QuotesUpTo, QuotesBelow
  <2>9. q \in Enough
    BY <2>7, <2>8
  <2>10. p <= q
    BY <1>4, <2>9
  <2> QED BY <2>1, <2>7, <2>10
<1>6. p \in PricesOf(c) /\ Cardinality(QuotesUpTo(c, p)) >= k
  OBVIOUS
<1> QED BY <1>5, <1>6 DEF KthPrice

\* The median is a number, and not lower than the zone is wide.
LEMMA MedianIsPrice ==
  ASSUME ScaleLimits, NEW c, Quotes(c), DOMAIN c # {}
  PROVE  MedianPrice(c) \in Nat /\ MedianPrice(c) >= Deadzone
<1>1. IsFiniteSet(DOMAIN c)
  BY QuotesFacts
<1>2. Cardinality(DOMAIN c) \in Nat /\ Cardinality(DOMAIN c) # 0
  BY <1>1, FS_CardinalityType, FS_EmptySet
<1>3. PICK n \in Nat : n = Cardinality(DOMAIN c) /\ n >= 1
  BY <1>2
<1>4. PICK i \in Nat, j \in Nat : i = (n + 1) \div 2 /\ j = n \div 2 + 1
  BY <1>3
<1>5. i >= 1 /\ i <= n /\ j >= 1 /\ j <= n
  BY <1>3, <1>4
<1>6. KthPrice(c, i) \in PricesOf(c) /\ KthPrice(c, j) \in PricesOf(c)
  BY <1>3, <1>5, KthPriceExists
<1>7. PricesOf(c) \in SUBSET Nat /\ PricesOf(c) \in SUBSET ScalePrices
  BY QuotesFacts
<1>8. PICK x \in Nat, y \in Nat : x = KthPrice(c, i) /\ y = KthPrice(c, j) /\ x >= Deadzone /\ y >= Deadzone
  BY <1>6, <1>7 DEF ScaleLimits
<1>9. MedianPrice(c) = (x + y) \div 2
  BY <1>3, <1>4, <1>8 DEF MedianPrice, KthPrice, QuotesBelow, QuotesUpTo
<1>10. PICK d \in Nat : d = Deadzone
  BY DEF ScaleLimits
<1> QED BY <1>8, <1>9, <1>10

\* The stationary zone of an anchor.
InZone(a, p) == p <= a + Deadzone /\ p >= a - Deadzone

MedianFollowed(a, m) == a \in Nat /\ m \in Nat /\ InZone(a, m)

EdgeFollowed(a, latch, low, high) ==
  /\ a \in Nat /\ low \in Nat /\ high \in Nat /\ low <= high
  /\ IF high - low <= 2 * Deadzone THEN InZone(a, low) /\ InZone(a, high)
     ELSE InZone(a, low) \/ InZone(a, high) \/ latch = "none"

Anchors == Nat \cup {NoAnchor}

LEMMA MedianFollows ==
  ASSUME ScaleLimits, chart_anchor \in Anchors, NEW c, NEW m \in Nat, m >= Deadzone, m = MedianPrice(c)
  PROVE  MedianFollowed(FollowMedian(c).anchor, m) /\ FollowMedian(c).latch = "none"
<1>1. PICK d \in Nat, a \in Anchors : d = Deadzone /\ a = chart_anchor
  BY DEF ScaleLimits
<1>2. FollowMedian(c) = Placed(IF a = NoAnchor THEN m
                               ELSE IF m > a + d THEN m - d
                               ELSE IF m < a - d THEN m + d ELSE a, "none")
  BY <1>1 DEF FollowMedian
<1> QED BY <1>1, <1>2 DEF Placed, MedianFollowed, InZone, Anchors, NoAnchor

LEMMA EdgeFollows ==
  ASSUME ScaleLimits, chart_anchor \in Anchors, margin_edge_latch \in {"none", "top", "bottom"},
         NEW c, NEW low, NEW high, Spread(c, low, high)
  PROVE  /\ EdgeFollowed(FollowEdge(c).anchor, FollowEdge(c).latch, low, high)
         /\ FollowEdge(c).latch \in {"none", "top", "bottom"}
<1>1. PICK d \in Nat, l \in Nat, h \in Nat :
        d = Deadzone /\ l = low /\ h = high /\ l <= h /\ l >= d /\ h >= d
  BY DEF ScaleLimits, Spread
<1>2. PICK a \in Nat : a = IF chart_anchor = NoAnchor THEN (l + h) \div 2 ELSE chart_anchor
  BY <1>1 DEF Anchors
<1>3. (l + h) \div 2 \in Nat
  BY <1>1
<1>4. PICK f \in {"none", "top", "bottom"} : f = FollowedEdge(c)
  BY DEF FollowedEdge
<1> DEFINE above == h > a + d
           below == l < a - d
           edge == IF above /\ below THEN f
                   ELSE IF above THEN "top" ELSE IF below THEN "bottom" ELSE "none"
           placed == IF edge = "top" THEN h - d
                     ELSE IF edge = "bottom" THEN l + d
                     ELSE IF above /\ below THEN (l + h) \div 2 ELSE a
<1>5. FollowEdge(c) = Placed(placed, edge)
  BY <1>1, <1>2, <1>4 DEF FollowEdge, Spread
<1>6. edge \in {"none", "top", "bottom"}
  BY <1>4
<1>7. EdgeFollowed(placed, edge, l, h)
  BY <1>1, <1>2, <1>3, <1>4 DEF EdgeFollowed, InZone
<1> HIDE DEF placed, edge
<1> QED BY <1>1, <1>5, <1>6, <1>7 DEF Placed

\* Settled, from what is followed.
LEMMA MedianRests ==
  ASSUME ScaleLimits, NEW c, MedianFollowed(chart_anchor, MedianPrice(c))
  PROVE  FollowMedian(c).anchor = chart_anchor
<1>1. PICK d \in Nat, a \in Nat, m \in Nat :
        d = Deadzone /\ a = chart_anchor /\ m = MedianPrice(c) /\ InZone(a, m)
  BY DEF ScaleLimits, MedianFollowed
<1>2. FollowMedian(c) = Placed(IF a = NoAnchor THEN m
                               ELSE IF m > a + d THEN m - d
                               ELSE IF m < a - d THEN m + d ELSE a, "none")
  BY <1>1 DEF FollowMedian
<1> QED BY <1>1, <1>2 DEF Placed, InZone, NoAnchor

LEMMA EdgeRests ==
  ASSUME ScaleLimits, NEW c, NEW low, NEW high, Spread(c, low, high), chart_anchor \in Nat,
         InZone(chart_anchor, low), InZone(chart_anchor, high)
  PROVE  FollowEdge(c).anchor = chart_anchor
<1>1. PICK d \in Nat, a \in Nat, l \in Nat, h \in Nat :
        d = Deadzone /\ a = chart_anchor /\ l = low /\ h = high
  BY DEF ScaleLimits, Spread
<1>2. ~(h > a + d) /\ ~(l < a - d) /\ a # NoAnchor
  BY <1>1 DEF InZone, NoAnchor
<1>3. FollowEdge(c) = Placed(a, "none")
  BY <1>1, <1>2 DEF FollowEdge, Spread
<1> QED BY <1>1, <1>3 DEF Placed

\* What the last frame followed lies in the stationary zone of the anchor it set.
ScaleInv ==
  /\ ScaleTypeOK /\ chart_anchor \in Anchors
  /\ Following /\ follow = "median" => MedianFollowed(chart_anchor, MedianPrice(candidates))
  /\ Following /\ follow = "edge" =>
       \A low, high : Spread(candidates, low, high) =>
         EdgeFollowed(chart_anchor, margin_edge_latch, low, high)

LEMMA CandidatesAreQuotes ==
  ASSUME NEW c \in CandidateSets
  PROVE  Quotes(c)
  BY DEF CandidateSets, Quotes

LEMMA ScaleInitial ==
  ASSUME ScaleLimits, ScaleInit
  PROVE  ScaleInv
<1>1. candidates \in CandidateSets
  <2>1. candidates \in [{} -> [price : ScalePrices, rx : 0 .. 1]] /\ DOMAIN candidates = {}
    BY DEF ScaleInit
  <2> QED BY <2>1 DEF CandidateSets
<1>2. ~Following /\ drawn \in BOOLEAN
  BY DEF ScaleInit, Following
<1>3. chart_anchor \in Int /\ chart_anchor \in Anchors
  BY DEF ScaleInit, Anchors, NoAnchor
<1>4. ScaleTypeOK
  BY <1>1, <1>2, <1>3 DEF ScaleInit, ScaleTypeOK
<1> QED BY <1>2, <1>3, <1>4 DEF ScaleInv

LEMMA DrawFrameKeeps ==
  ASSUME ScaleLimits, ScaleInv, DrawFrame
  PROVE  ScaleInv'
<1>1. PICK c \in CandidateSets : \E fallback \in {0} \cup PricesOf(c) :
        LET placed == IF scale = "auto" THEN Placed(NoAnchor, "none") ELSE ResolvedAnchor(c, fallback)
        IN /\ chart_anchor' = placed.anchor /\ margin_edge_latch' = placed.latch
           /\ candidates' = c /\ drawn' = TRUE
           /\ UNCHANGED <<scale, follow>>
  BY DEF DrawFrame
<1>2. PICK fallback \in {0} \cup PricesOf(c) :
        LET placed == IF scale = "auto" THEN Placed(NoAnchor, "none") ELSE ResolvedAnchor(c, fallback)
        IN /\ chart_anchor' = placed.anchor /\ margin_edge_latch' = placed.latch
           /\ candidates' = c /\ drawn' = TRUE
           /\ UNCHANGED <<scale, follow>>
  BY <1>1
<1>3. /\ candidates' = c /\ drawn' = TRUE /\ scale' = scale /\ follow' = follow
      /\ scale \in {"auto", "fixed"} /\ follow \in {"median", "edge"}
      /\ chart_anchor \in Anchors /\ margin_edge_latch \in {"none", "top", "bottom"}
  BY <1>2 DEF ScaleInv, ScaleTypeOK
<1>4. Quotes(c)
  BY CandidatesAreQuotes
<1>5. CASE scale = "auto"
  <2>1. chart_anchor' = NoAnchor /\ margin_edge_latch' = "none"
    BY <1>2, <1>5 DEF Placed
  <2> QED BY <1>3, <1>5, <2>1 DEF ScaleInv, ScaleTypeOK, Anchors, Following, NoAnchor
<1>6. CASE scale = "fixed" /\ DOMAIN c = {}
  <2>1. chart_anchor' = HeldAnchor(fallback).anchor /\ margin_edge_latch' = HeldAnchor(fallback).latch
    BY <1>2, <1>6 DEF ResolvedAnchor
  <2>2. fallback \in Nat
    <3>1. PricesOf(c) \in SUBSET Nat
      BY <1>4, QuotesFacts
    <3> QED BY <3>1
  <2>3. chart_anchor' \in Anchors /\ margin_edge_latch' = "none"
    BY <1>3, <2>1, <2>2 DEF HeldAnchor, Placed, Anchors
  <2> QED BY <1>3, <1>6, <2>3 DEF ScaleInv, ScaleTypeOK, Anchors, Following, NoAnchor
<1>7. CASE scale = "fixed" /\ DOMAIN c # {} /\ follow = "median"
  <2>1. chart_anchor' = FollowMedian(c).anchor /\ margin_edge_latch' = FollowMedian(c).latch
    BY <1>2, <1>7 DEF ResolvedAnchor
  <2>2. MedianPrice(c) \in Nat /\ MedianPrice(c) >= Deadzone
    BY <1>4, <1>7, MedianIsPrice
  <2>3. MedianFollowed(chart_anchor', MedianPrice(c)) /\ margin_edge_latch' = "none"
    BY <1>3, <2>1, <2>2, MedianFollows
  <2>4. chart_anchor' \in Nat
    BY <2>3 DEF MedianFollowed
  <2>5. MedianPrice(candidates)' = MedianPrice(c)
    BY <1>3 DEF MedianPrice, PricesOf
  <2>6. MedianFollowed(chart_anchor, MedianPrice(candidates))'
    BY <2>3, <2>5 DEF MedianFollowed, InZone
  <2>7. ScaleTypeOK' /\ (chart_anchor \in Anchors)'
    BY <1>3, <2>3, <2>4 DEF ScaleTypeOK, Anchors
  <2> QED BY <1>3, <1>7, <2>6, <2>7 DEF ScaleInv
<1>8. CASE scale = "fixed" /\ DOMAIN c # {} /\ follow = "edge"
  <2>1. chart_anchor' = FollowEdge(c).anchor /\ margin_edge_latch' = FollowEdge(c).latch
    BY <1>2, <1>8 DEF ResolvedAnchor
  <2>2. \A low, high : Spread(c, low, high) =>
          EdgeFollowed(chart_anchor', margin_edge_latch', low, high)
    BY <1>3, <2>1, EdgeFollows
  <2>3. PICK low, high : Spread(c, low, high)
    BY <1>4, <1>8, SpreadExists DEF HasSpread
  <2>4. margin_edge_latch' \in {"none", "top", "bottom"} /\ chart_anchor' \in Nat
    BY <1>3, <2>1, <2>3, EdgeFollows DEF EdgeFollowed
  <2>5. ScaleTypeOK' /\ (chart_anchor \in Anchors)'
    BY <1>3, <2>4 DEF ScaleTypeOK, Anchors
  <2>6. (\A low_, high_ : Spread(candidates, low_, high_) =>
           EdgeFollowed(chart_anchor, margin_edge_latch, low_, high_))'
    BY <1>3, <2>2 DEF Spread, PricesOf, EdgeFollowed, InZone
  <2> QED BY <1>3, <1>8, <2>5, <2>6 DEF ScaleInv
<1> QED BY <1>3, <1>5, <1>6, <1>7, <1>8

\* ScaleInv is inductive.
LEMMA ScaleStep ==
  ASSUME ScaleLimits, ScaleInv, [ScaleNext]_scaleVars
  PROVE  ScaleInv'
<1>1. CASE DrawFrame
  BY <1>1, DrawFrameKeeps
<1>2. CASE SetScale \/ SetFollowCriteria
  <2>1. drawn' = FALSE /\ candidates' = candidates /\ margin_edge_latch' = "none"
        /\ scale' \in {"auto", "fixed"} /\ follow' \in {"median", "edge"}
        /\ chart_anchor' \in {NoAnchor, chart_anchor}
    BY <1>2 DEF SetScale, SetFollowCriteria, ScaleInv, ScaleTypeOK
  <2>2. ~Following'
    BY <2>1 DEF Following
  <2>3. chart_anchor' \in Int /\ chart_anchor' \in Anchors
    BY <2>1 DEF ScaleInv, Anchors, NoAnchor
  <2>4. ScaleTypeOK'
    BY <2>1, <2>3 DEF ScaleInv, ScaleTypeOK
  <2> QED BY <2>2, <2>3, <2>4 DEF ScaleInv
<1>3. CASE UNCHANGED scaleVars
  BY <1>3 DEF scaleVars, ScaleInv, ScaleTypeOK, Anchors, Following, MedianFollowed, MedianPrice,
              PricesOf, Spread, EdgeFollowed, InZone
<1> QED BY <1>1, <1>2, <1>3 DEF ScaleNext

LEMMA ScaleInvGives ==
  ASSUME ScaleLimits, ScaleInv
  PROVE  ScaleCorrect
<1>1. PICK d \in Nat, half \in Nat : d = Deadzone /\ half = Half /\ d <= half
  BY DEF ScaleLimits
<1>2. \A p \in Nat : chart_anchor \in Nat /\ InZone(chart_anchor, p) => InSight(p)
  BY <1>1 DEF InZone, InSight
<1>3. FollowedIsInSight /\ NarrowQuotesStandStill
  <2> SUFFICES ASSUME Following
               PROVE  /\ CASE follow = "median" -> InSight(MedianPrice(candidates))
                           [] follow = "edge" /\ Narrow -> \A p \in PricesOf(candidates) : InSight(p)
                           [] OTHER -> \/ InSight(Max(PricesOf(candidates)))
                                       \/ InSight(Min(PricesOf(candidates)))
                                       \/ margin_edge_latch = "none"
                      /\ follow = "median" \/ Narrow => Settled
    BY DEF FollowedIsInSight, NarrowQuotesStandStill
  <2>1. DOMAIN candidates # {} /\ candidates \in CandidateSets /\ follow \in {"median", "edge"}
    BY DEF Following, ScaleInv, ScaleTypeOK
  <2>2. Quotes(candidates)
    BY <2>1, CandidatesAreQuotes
  <2>3. CASE follow = "median"
    <3>1. MedianFollowed(chart_anchor, MedianPrice(candidates))
      BY <2>3 DEF ScaleInv
    <3>2. InSight(MedianPrice(candidates))
      BY <1>2, <3>1 DEF MedianFollowed
    <3>3. Settled
      BY <2>1, <2>3, <3>1, MedianRests DEF Settled, ResolvedAnchor
    <3> QED BY <2>3, <3>2, <3>3
  <2>4. CASE follow = "edge"
    <3>1. PICK low, high : Spread(candidates, low, high)
      BY <2>1, <2>2, SpreadExists DEF HasSpread
    <3>2. EdgeFollowed(chart_anchor, margin_edge_latch, low, high)
      BY <2>4, <3>1 DEF ScaleInv
    <3>3. Max(PricesOf(candidates)) = high /\ Min(PricesOf(candidates)) = low
          /\ low \in Nat /\ high \in Nat /\ chart_anchor \in Nat
      BY <3>1, <3>2 DEF Spread, EdgeFollowed
    <3>4. CASE Narrow
      <4>1. InZone(chart_anchor, low) /\ InZone(chart_anchor, high)
        BY <3>2, <3>3, <3>4 DEF Narrow, EdgeFollowed
      <4>2. ASSUME NEW p \in PricesOf(candidates) PROVE InSight(p)
        <5>1. p \in Nat /\ low <= p /\ p <= high
          BY <3>1 DEF Spread
        <5>2. PICK a \in Nat, l \in Nat, h \in Nat : a = chart_anchor /\ l = low /\ h = high
          BY <3>3
        <5>3. h <= a + d /\ l >= a - d
          BY <1>1, <4>1, <5>2 DEF InZone
        <5>4. p <= a + d /\ p >= a - d
          BY <1>1, <5>1, <5>2, <5>3
        <5>5. InZone(chart_anchor, p)
          BY <1>1, <5>2, <5>4 DEF InZone
        <5> QED BY <1>2, <3>3, <5>1, <5>5
      <4>3. Settled
        BY <2>1, <2>4, <3>1, <3>3, <4>1, EdgeRests DEF Settled, ResolvedAnchor
      <4> QED BY <2>4, <3>4, <4>2, <4>3
    <3>5. CASE ~Narrow
      <4>1. InZone(chart_anchor, low) \/ InZone(chart_anchor, high) \/ margin_edge_latch = "none"
        BY <3>2, <3>3, <3>5 DEF Narrow, EdgeFollowed
      <4>2. InSight(low) \/ InSight(high) \/ margin_edge_latch = "none"
        BY <1>2, <3>3, <4>1
      <4> QED BY <2>4, <3>3, <3>5, <4>2
    <3> QED BY <3>4, <3>5
  <2> QED BY <2>1, <2>3, <2>4
<1> QED BY <1>3 DEF ScaleCorrect, ScaleInv

\* Wherever the anchor was and however many brokers quote, what a fixed scale follows is
\* in sight, and the chart rests while the median is followed or the quotes lie close
\* together (resolve_candle_follow_scale, scale.rs).
THEOREM ScaleIsCorrect == ScaleLimits /\ ScaleSpec => []ScaleCorrect
<1> SUFFICES ASSUME ScaleLimits PROVE ScaleSpec => []ScaleCorrect
  OBVIOUS
<1>1. ScaleInit => ScaleInv
  BY ScaleInitial
<1>2. ScaleInv /\ [ScaleNext]_scaleVars => ScaleInv'
  BY ScaleStep
<1>3. ScaleInv => ScaleCorrect
  BY ScaleInvGives
<1> QED BY <1>1, <1>2, <1>3, PTL DEF ScaleSpec

-----------------------------------------------------------------------------
(* The calendar (CivilTime). *)

\* Rust's division with the code's correction is the floor.
FloorOf(a, n) == TruncDiv(IF a >= 0 THEN a ELSE a - (n - 1), n)

LEMMA FloorIs ==
  ASSUME NEW a \in Int
  PROVE  FloorOf(a, 400) = a \div 400 /\ FloorOf(a, 146097) = a \div 146097
<1>1. CASE a >= 0
  BY SMT, <1>1 DEF TruncDiv, FloorOf
<1>2. CASE a < 0
  <2>1. FloorOf(a, 400) = a \div 400
    BY SMT, <1>2 DEF TruncDiv, FloorOf
  <2>2. FloorOf(a, 146097) = a \div 146097
    BY SMT, <1>2 DEF TruncDiv, FloorOf
  <2> QED BY SMT, <2>1, <2>2
<1> QED BY SMT, <1>1, <1>2

\* The day doy, from 0, of a year that starts in March is day dom of month mm, from 0.
DayInMonth(mm, dom, doy) ==
  /\ mm \in 0 .. 11 /\ dom \in 1 .. 31 /\ doy \in Int
  /\ mm \in {1, 3, 6, 8} => dom <= 30
  /\ mm = 11 => dom <= 29
  /\ doy = (153 * mm + 2) \div 5 + dom - 1

LEMMA MonthOfDay ==
  ASSUME NEW mm, NEW dom, NEW doy, DayInMonth(mm, dom, doy)
  PROVE  (5 * doy + 2) \div 153 = mm
<1>1. CASE mm \in {0, 1, 2}
  BY SMT, <1>1 DEF DayInMonth
<1>2. CASE mm \in {3, 4, 5}
  BY SMT, <1>2 DEF DayInMonth
<1>3. CASE mm \in {6, 7, 8}
  BY SMT, <1>3 DEF DayInMonth
<1>4. CASE mm \in {9, 10, 11}
  BY SMT, <1>4 DEF DayInMonth
<1> QED BY SMT, <1>1, <1>2, <1>3, <1>4 DEF DayInMonth

\* A year that starts in March.
MarchYear(y, m) == IF m <= 2 THEN y - 1 ELSE y
MarchMonth(m) == IF m <= 2 THEN m + 9 ELSE m - 3
DayOfYear(m, dom) == (153 * MarchMonth(m) + 2) \div 5 + dom - 1
DaysBefore(yoe) == 365 * yoe + yoe \div 4 - yoe \div 100

IsDate(y, m, dom) == y \in Int /\ m \in 1 .. 12 /\ dom \in 1 .. LastOfMonth(y, m)

\* The parts of a date that both conversions compute.
Parts(y, m, dom, era, yoe, doy) ==
  /\ era \in Int /\ yoe \in 0 .. 399 /\ MarchYear(y, m) = era * 400 + yoe
  /\ doy \in 0 .. 365 /\ doy = DayOfYear(m, dom)
  /\ doy = 365 => (yoe + 1) % 4 = 0 /\ ((yoe + 1) % 100 # 0 \/ yoe = 399)
  /\ YmdToDays(y, m, dom) = era * EraDays + DaysBefore(yoe) + doy - 719468

HasParts(y, m, dom) == \E era, yoe, doy : Parts(y, m, dom, era, yoe, doy)

LEMMA PartsExist ==
  ASSUME NEW y, NEW m, NEW dom, IsDate(y, m, dom)
  PROVE  HasParts(y, m, dom)
<1>1. y \in Int /\ m \in 1 .. 12 /\ dom \in 1 .. 31
  BY DEF IsDate, LastOfMonth
<1>2. PICK yy \in Int : yy = MarchYear(y, m)
  BY <1>1 DEF MarchYear
<1>3. PICK mm \in 0 .. 11 : mm = MarchMonth(m)
  BY <1>1 DEF MarchMonth
<1>4. PICK era \in Int : era = yy \div 400
  OBVIOUS
<1>5. PICK yoe \in 0 .. 399 : yy = era * 400 + yoe
  <2>1. PICK rest \in 0 .. 399 : rest = yy - era * 400
    BY SMT, <1>4
  <2>2. yy = era * 400 + rest
    BY SMT, <2>1
  <2> QED BY <2>2
<1>6. PICK doy \in Int : doy = (153 * mm + 2) \div 5 + dom - 1
  BY <1>1, <1>3
<1>7. /\ doy \in 0 .. 365
      /\ doy = 365 => (yoe + 1) % 4 = 0 /\ ((yoe + 1) % 100 # 0 \/ yoe = 399)
  <2>1. m = 2 => mm = 11 /\ yy = y - 1
    BY <1>1, <1>2, <1>3 DEF MarchYear, MarchMonth
  <2>2. m # 2 => mm \in 0 .. 10 /\ dom <= 31
    BY <1>1, <1>2, <1>3 DEF MarchYear, MarchMonth
  <2>3. m # 2 => doy \in 0 .. 364
    <3>1. m # 2 /\ mm <= 9 => doy \in 0 .. 364
      BY <1>1, <1>6, <2>2
    <3>2. m # 2 /\ mm = 10 => doy \in 0 .. 364
      BY <1>1, <1>6, <2>2
    <3> QED BY <2>2, <3>1, <3>2
  <2>4. m = 2 => dom <= 28 \/ (dom = 29 /\ IsLeapYear(y))
    BY DEF IsDate, LastOfMonth
  <2>5. m = 2 => doy = 336 + dom
    BY SMT, <1>1, <1>6, <2>1
  <2>6. CASE m = 2 /\ dom <= 28
    BY <1>1, <2>5, <2>6
  <2>7. CASE m = 2 /\ dom = 29 /\ IsLeapYear(y)
    <3>1. y = era * 400 + yoe + 1
      BY <1>1, <1>5, <2>1, <2>7
    <3>2. (yoe + 1) % 4 = 0 /\ ((yoe + 1) % 100 # 0 \/ yoe = 399)
      BY <1>1, <2>7, <3>1 DEF IsLeapYear
    <3> QED BY <2>5, <2>7, <3>2
  <2> QED BY <2>3, <2>4, <2>6, <2>7
<1>8. YmdToDays(y, m, dom) = era * EraDays + DaysBefore(yoe) + doy - 719468
  <2>1. TruncDiv(IF yy >= 0 THEN yy ELSE yy - 399, 400) = era
    <3>1. FloorOf(yy, 400) = era
      BY SMT, <1>4, FloorIs
    <3> QED BY SMT, <3>1 DEF FloorOf
  <2>2. yy - era * 400 = yoe
    BY <1>5
  <2> QED BY <1>1, <1>2, <1>3, <1>6, <2>1, <2>2 DEF YmdToDays, DaysBefore, MarchYear, MarchMonth, EraDays
<1>9. Parts(y, m, dom, era, yoe, doy)
  BY <1>2, <1>3, <1>5, <1>6, <1>7, <1>8 DEF Parts, DayOfYear
<1> QED BY <1>9 DEF HasParts

\* The conversions are inverse to each other, on every date.
LEMMA DateRestored ==
  ASSUME NEW y, NEW m, NEW dom, IsDate(y, m, dom)
  PROVE  YmdToDays(y, m, dom) \in Int /\ CivilFromDays(YmdToDays(y, m, dom)) = <<y, m, dom>>
<1>1. y \in Int /\ m \in 1 .. 12 /\ dom \in 1 .. 31
  BY DEF IsDate, LastOfMonth
<1>2. PICK era, yoe, doy : Parts(y, m, dom, era, yoe, doy)
  BY PartsExist DEF HasParts
<1>3. era \in Int /\ yoe \in 0 .. 399 /\ doy \in 0 .. 365
  BY <1>2 DEF Parts
<1>4. PICK days \in Int : days = YmdToDays(y, m, dom)
  BY <1>2, <1>3 DEF Parts, DaysBefore, EraDays
<1>5. PICK doe \in Nat : doe = 365 * yoe + yoe \div 4 - yoe \div 100 + doy
  BY SMT, <1>3
<1>6. YearOfEra(doe) = yoe /\ doe < 146097
  <2>1. doy = 365 => (yoe + 1) % 4 = 0 /\ ((yoe + 1) % 100 # 0 \/ yoe = 399)
    BY SMT, <1>2 DEF Parts
  <2>2. YearOfEra(doe) = yoe
    BY SMT, <1>3, <1>5, <2>1 DEF YearOfEra
  <2>3. doe < 146097
    BY SMT, <1>3, <1>5, <2>1
  <2> QED BY SMT, <2>2, <2>3
<1>7. PICK z \in Int : z = days + 719468 /\ z = era * 146097 + doe
  BY SMT, <1>2, <1>3, <1>4, <1>5 DEF Parts, DaysBefore, EraDays
<1>8. TruncDiv(IF z >= 0 THEN z ELSE z - 146096, EraDays) = era
  <2>1. doe < 146097
    BY SMT, <1>6
  <2>2. z \div 146097 = era
    BY SMT, <1>3, <1>7, <2>1
  <2>3. FloorOf(z, 146097) = era
    BY SMT, <2>2, FloorIs
  <2> QED BY SMT, <2>3 DEF FloorOf, EraDays
<1>9. z - era * EraDays = doe
  BY SMT, <1>3, <1>7 DEF EraDays
<1>10. doe - (365 * yoe + yoe \div 4 - yoe \div 100) = doy
  BY <1>3, <1>5 DEF DaysBefore
<1>11. PICK mm \in 0 .. 11 : mm = MarchMonth(m)
  BY <1>1 DEF MarchMonth
<1>12. doy = (153 * mm + 2) \div 5 + dom - 1
  BY <1>2, <1>11 DEF Parts, DayOfYear
<1>13. (5 * doy + 2) \div 153 = mm
  <2>1. (mm \in {1, 3, 6, 8} => dom <= 30) /\ (mm = 11 => dom <= 29)
    BY <1>1, <1>11 DEF IsDate, LastOfMonth, MarchMonth
  <2>2. DayInMonth(mm, dom, doy)
    BY SMT, <1>1, <1>3, <1>12, <2>1 DEF DayInMonth
  <2> QED BY SMT, <2>2, MonthOfDay
<1>14. (IF mm < 10 THEN mm + 3 ELSE mm - 9) = m
  BY <1>1, <1>11 DEF MarchMonth
<1>15. yoe + era * 400 + (IF m <= 2 THEN 1 ELSE 0) = y
  BY <1>1, <1>2, <1>3 DEF Parts, MarchYear
<1>16. doy - (153 * mm + 2) \div 5 + 1 = dom
  BY <1>1, <1>12
<1>17. CivilFromDays(days) = <<y, m, dom>>
  BY <1>6, <1>7, <1>8, <1>9, <1>10, <1>13, <1>14, <1>15, <1>16 DEF CivilFromDays
<1> QED BY <1>4, <1>17

\* The day after a date, as NextDay walks it.
DateAfter(c) ==
  IF c[3] # LastOfMonth(c[1], c[2]) THEN <<c[1], c[2], c[3] + 1>>
  ELSE IF c[2] < 12 THEN <<c[1], c[2] + 1, 1>> ELSE <<c[1] + 1, 1, 1>>

\* YmdToDays without its eras.
LEMMA DaysWithoutEras ==
  ASSUME NEW y, NEW m, NEW dom, IsDate(y, m, dom)
  PROVE  LET yy == MarchYear(y, m)
         IN YmdToDays(y, m, dom) =
              365 * yy + yy \div 4 - yy \div 100 + yy \div 400 + DayOfYear(m, dom) - 719468
<1>1. PICK era, yoe, doy : Parts(y, m, dom, era, yoe, doy)
  BY PartsExist DEF HasParts
<1>2. PICK yy \in Int : yy = MarchYear(y, m)
  BY SMT DEF MarchYear, IsDate
<1>3. era \in Int /\ yoe \in 0 .. 399 /\ doy \in 0 .. 365 /\ yy = era * 400 + yoe
  BY SMT, <1>1, <1>2 DEF Parts
<1>4. yy \div 400 = era
  BY SMT, <1>3
<1>5. yy \div 100 = 4 * era + yoe \div 100
  BY SMT, <1>3
<1>6. yy \div 4 = 100 * era + yoe \div 4
  BY SMT, <1>3
<1>7. era * 146097 + (365 * yoe + yoe \div 4 - yoe \div 100) =
        365 * yy + yy \div 4 - yy \div 100 + yy \div 400
  BY SMT, <1>3, <1>4, <1>5, <1>6
<1>8. YmdToDays(y, m, dom) = era * 146097 + (365 * yoe + yoe \div 4 - yoe \div 100) + doy - 719468
  BY SMT, <1>1 DEF Parts, DaysBefore, EraDays
<1>9. doy = DayOfYear(m, dom)
  BY SMT, <1>1 DEF Parts
<1>10. PICK days \in Int : days = YmdToDays(y, m, dom)
  BY SMT, <1>3, <1>8
<1> QED BY SMT, <1>2, <1>3, <1>7, <1>8, <1>9

\* A date is one day before the next.
LEMMA DaysAfter ==
  ASSUME NEW y, NEW m, NEW dom, IsDate(y, m, dom), NEW y2, NEW m2, NEW dom2,
         DateAfter(<<y, m, dom>>) = <<y2, m2, dom2>>
  PROVE  IsDate(y2, m2, dom2) /\ YmdToDays(y2, m2, dom2) = YmdToDays(y, m, dom) + 1
<1>1. y \in Int /\ m \in 1 .. 12 /\ dom \in 1 .. 31 /\ dom <= LastOfMonth(y, m)
  BY SMT DEF IsDate, LastOfMonth
<1>2. <<y2, m2, dom2>> = IF dom # LastOfMonth(y, m) THEN <<y, m, dom + 1>>
                         ELSE IF m < 12 THEN <<y, m + 1, 1>> ELSE <<y + 1, 1, 1>>
  BY SMT DEF DateAfter
<1>3. PICK n \in 28 .. 31 : n = LastOfMonth(y, m)
  BY SMT DEF LastOfMonth
<1>4. CASE dom # n
  <2>1. y2 = y /\ m2 = m /\ dom2 = dom + 1
    BY SMT, <1>2, <1>3, <1>4
  <2>2. IsDate(y2, m2, dom2)
    BY SMT, <1>1, <1>3, <1>4, <2>1 DEF IsDate
  <2>3. DayOfYear(m2, dom2) = DayOfYear(m, dom) + 1 /\ DayOfYear(m, dom) \in Int
    BY SMT, <1>1, <2>1 DEF DayOfYear, MarchMonth
  <2>4. MarchYear(y2, m2) = MarchYear(y, m) /\ MarchYear(y, m) \in Int
    BY SMT, <1>1, <2>1 DEF MarchYear
  <2>5. PICK yy \in Int, doy \in Int : yy = MarchYear(y, m) /\ doy = DayOfYear(m, dom)
    BY <2>3, <2>4
  <2>6. YmdToDays(y, m, dom) = 365 * yy + yy \div 4 - yy \div 100 + yy \div 400 + doy - 719468
    BY SMT, <2>5, DaysWithoutEras
  <2>7. YmdToDays(y2, m2, dom2) =
          365 * yy + yy \div 4 - yy \div 100 + yy \div 400 + (doy + 1) - 719468
    BY SMT, <2>2, <2>3, <2>4, <2>5, DaysWithoutEras
  <2> QED BY SMT, <2>2, <2>5, <2>6, <2>7
<1>5. CASE dom = n
  <2>1. IF m < 12 THEN y2 = y /\ m2 = m + 1 /\ dom2 = 1 ELSE y2 = y + 1 /\ m2 = 1 /\ dom2 = 1
    BY SMT, <1>1, <1>2, <1>3, <1>5
  <2>2. IsDate(y2, m2, dom2)
    BY SMT, <1>1, <2>1 DEF IsDate, LastOfMonth
  <2>3. PICK yy \in Int, doy \in Int, yy2 \in Int, doy2 \in Int :
          /\ yy = MarchYear(y, m) /\ doy = DayOfYear(m, dom)
          /\ yy2 = MarchYear(y2, m2) /\ doy2 = DayOfYear(m2, dom2)
    BY SMT, <1>1, <2>1 DEF MarchYear, DayOfYear, MarchMonth
  <2>4. YmdToDays(y, m, dom) = 365 * yy + yy \div 4 - yy \div 100 + yy \div 400 + doy - 719468
    BY SMT, <2>3, DaysWithoutEras
  <2>5. YmdToDays(y2, m2, dom2) =
          365 * yy2 + yy2 \div 4 - yy2 \div 100 + yy2 \div 400 + doy2 - 719468
    BY SMT, <2>2, <2>3, DaysWithoutEras
  <2>6. CASE m # 2
    <3>1. yy2 = yy
      BY SMT, <1>1, <2>1, <2>3, <2>6 DEF MarchYear
    <3>2. n = IF m \in {4, 6, 9, 11} THEN 30 ELSE 31
      BY SMT, <1>1, <1>3, <2>6 DEF LastOfMonth
    <3>3. PICK mm \in 0 .. 11, mm2 \in 0 .. 11 : mm = MarchMonth(m) /\ mm2 = MarchMonth(m2)
      BY SMT, <1>1, <2>1 DEF MarchMonth
    <3>4. doy = (153 * mm + 2) \div 5 + n - 1
      <4>1. doy = (153 * mm + 2) \div 5 + dom - 1
        BY <2>3, <3>3 DEF DayOfYear
      <4> QED BY <1>5, <4>1
    <3>5. doy2 = (153 * mm2 + 2) \div 5
      <4>1. dom2 = 1
        BY <2>1
      <4>2. doy2 = (153 * mm2 + 2) \div 5 + dom2 - 1
        BY <2>3, <3>3 DEF DayOfYear
      <4> QED BY SMT, <4>1, <4>2
    <3>6. mm2 = mm + 1 /\ mm # 11
      BY SMT, <1>1, <2>1, <2>6, <3>3 DEF MarchMonth
    <3>7. n = IF mm \in {1, 3, 6, 8} THEN 30 ELSE 31
      BY SMT, <1>1, <2>6, <3>2, <3>3 DEF MarchMonth
    <3>8. doy2 = doy + 1
      BY SMT, <3>4, <3>5, <3>6, <3>7
    <3> QED BY SMT, <2>2, <2>4, <2>5, <3>1, <3>8
  <2>7. CASE m = 2
    <3>1. yy = y - 1 /\ yy2 = y /\ doy2 = 0 /\ doy = 336 + n
      BY SMT, <1>1, <1>5, <2>1, <2>3, <2>7 DEF MarchYear, DayOfYear, MarchMonth
    <3>2. n = IF IsLeapYear(y) THEN 29 ELSE 28
      BY SMT, <1>3, <2>7 DEF LastOfMonth
    <3>3. IsLeapYear(y) => n = 29 /\ (y \div 4) - ((y - 1) \div 4) = 1
            /\ (y \div 100) - ((y - 1) \div 100) = (y \div 400) - ((y - 1) \div 400)
      BY SMT, <1>1, <3>2 DEF IsLeapYear
    <3>4. ~IsLeapYear(y) => n = 28 /\ (y \div 4) - ((y - 1) \div 4)
            - ((y \div 100) - ((y - 1) \div 100)) + (y \div 400) - ((y - 1) \div 400) = 0
      BY SMT, <1>1, <3>2 DEF IsLeapYear
    <3>5. 365 * yy2 + yy2 \div 4 - yy2 \div 100 + yy2 \div 400 + doy2 =
            365 * yy + yy \div 4 - yy \div 100 + yy \div 400 + doy + 1
      <4>1. CASE IsLeapYear(y)
        BY SMT, <1>1, <3>1, <3>3, <4>1
      <4>2. CASE ~IsLeapYear(y)
        BY SMT, <1>1, <3>1, <3>4, <4>2
      <4> QED BY <4>1, <4>2
    <3> QED BY SMT, <2>2, <2>4, <2>5, <3>5
  <2> QED BY <2>6, <2>7
<1> QED BY <1>4, <1>5

\* The weekday is that of the day, 1970-01-01 being a Thursday.
LEMMA WeekdayOfDate ==
  ASSUME NEW y, NEW m, NEW dom, IsDate(y, m, dom)
  PROVE  DayOfWeek(y, m, dom) = (YmdToDays(y, m, dom) + 4) % 7
<1>1. PICK days \in Int : days = YmdToDays(y, m, dom) + 4
  BY DateRestored
<1>2. TruncDiv(days, 7) = IF days >= 0 THEN days \div 7 ELSE 0 - ((0 - days) \div 7)
  BY DEF TruncDiv
<1>3. PICK rem \in Int : rem = days - 7 * TruncDiv(days, 7)
  BY SMT, <1>2
<1>4. (IF rem < 0 THEN rem + 7 ELSE rem) = days % 7
  <2>1. CASE days >= 0
    BY SMT, <1>2, <1>3, <2>1
  <2>2. CASE days < 0
    BY SMT, <1>2, <1>3, <2>2
  <2> QED BY <2>1, <2>2
<1> QED BY SMT, <1>1, <1>3, <1>4 DEF DayOfWeek

\* The first of the month of a date.
LEMMA FirstOfMonth ==
  ASSUME NEW y, NEW m, NEW dom, IsDate(y, m, dom), NEW k \in 1 .. 28
  PROVE  IsDate(y, m, k) /\ YmdToDays(y, m, k) = YmdToDays(y, m, dom) - dom + k
<1>1. y \in Int /\ m \in 1 .. 12 /\ dom \in 1 .. 31 /\ IsDate(y, m, k)
  BY SMT DEF IsDate, LastOfMonth
<1>2. PICK yy \in Int : yy = MarchYear(y, m)
  BY SMT, <1>1 DEF MarchYear
<1>3. PICK base \in Int : base = (153 * MarchMonth(m) + 2) \div 5
  BY SMT, <1>1 DEF MarchMonth
<1>4. DayOfYear(m, dom) = base + dom - 1 /\ DayOfYear(m, k) = base + k - 1
  BY SMT, <1>3 DEF DayOfYear
<1>5. YmdToDays(y, m, dom) =
        365 * yy + yy \div 4 - yy \div 100 + yy \div 400 + (base + dom - 1) - 719468
  BY SMT, <1>2, <1>4, DaysWithoutEras
<1>6. YmdToDays(y, m, k) =
        365 * yy + yy \div 4 - yy \div 100 + yy \div 400 + (base + k - 1) - 719468
  BY SMT, <1>1, <1>2, <1>4, DaysWithoutEras
<1> QED BY SMT, <1>1, <1>2, <1>3, <1>5, <1>6

\* A date, its day, its weekday and the Sundays of its month so far.
Place(y, m, dom, days, wd, s) ==
  /\ IsDate(y, m, dom) /\ days = YmdToDays(y, m, dom)
  /\ wd = (days + 4) % 7 /\ s = (dom + 6 - wd) \div 7

\* The first Sunday of the month is day r + 1.
FirstSundayIs(y, m, dom, wd, s, r) ==
  /\ r \in 0 .. 6 /\ s \in 0 .. 5
  /\ (7 - DayOfWeek(y, m, 1)) % 7 = r
  /\ DayOfWeek(y, m, 1) = (IF r = 0 THEN 0 ELSE 7 - r)
  /\ dom = r + 1 + 7 * (s - 1) + wd

HasFirstSunday(y, m, dom, wd, s) == \E r : FirstSundayIs(y, m, dom, wd, s, r)

LEMMA PlaceIs ==
  ASSUME NEW y, NEW m, NEW dom, NEW days, NEW wd, NEW s, Place(y, m, dom, days, wd, s)
  PROVE  y \in Int /\ m \in 1 .. 12 /\ dom \in 1 .. 31 /\ days \in Int /\ wd \in 0 .. 6 /\ s \in 0 .. 5
<1>1. y \in Int /\ m \in 1 .. 12 /\ dom \in 1 .. 31 /\ IsDate(y, m, dom)
  BY SMT DEF Place, IsDate, LastOfMonth
<1>2. days \in Int
  BY <1>1, DateRestored DEF Place
<1>3. wd \in 0 .. 6
  BY SMT, <1>2 DEF Place
<1>4. s \in 0 .. 5
  BY SMT, <1>1, <1>3 DEF Place
<1> QED BY <1>1, <1>2, <1>3, <1>4

LEMMA FirstSunday ==
  ASSUME NEW y, NEW m, NEW dom, NEW days, NEW wd, NEW s, Place(y, m, dom, days, wd, s)
  PROVE  HasFirstSunday(y, m, dom, wd, s)
<1>1. y \in Int /\ m \in 1 .. 12 /\ dom \in 1 .. 31 /\ days \in Int /\ wd \in 0 .. 6 /\ s \in 0 .. 5
  BY PlaceIs
<1>2. IsDate(y, m, dom) /\ days = YmdToDays(y, m, dom) /\ wd = (days + 4) % 7
      /\ s = (dom + 6 - wd) \div 7
  BY DEF Place
<1>3. IsDate(y, m, 1) /\ YmdToDays(y, m, 1) = days - dom + 1
  BY <1>1, <1>2, FirstOfMonth
<1>4. DayOfWeek(y, m, 1) = (YmdToDays(y, m, 1) + 4) % 7
  BY <1>3, WeekdayOfDate
<1>5. DayOfWeek(y, m, 1) = (days - dom + 5) % 7
  BY SMT, <1>1, <1>3, <1>4
<1>6. PICK r \in 0 .. 6 : dom + 6 - wd = 7 * s + r
  <2>1. PICK x \in Int : x = dom + 6 - wd
    BY SMT, <1>1
  <2>2. s = x \div 7
    BY <1>2, <2>1
  <2>3. PICK rest \in 0 .. 6 : rest = x % 7
    BY SMT, <2>1
  <2>4. x = 7 * s + rest
    BY SMT, <2>2, <2>3
  <2>5. dom + 6 - wd = 7 * s + rest
    BY <2>1, <2>4
  <2> QED BY <2>5
<1>7. PICK q \in Int : days + 4 = 7 * q + wd
  <2>1. PICK p \in Int : p = (days + 4) \div 7
    BY SMT, <1>1
  <2>2. days + 4 = 7 * p + wd
    BY SMT, <1>1, <1>2, <2>1
  <2> QED BY <2>2
<1>8. days - dom + 5 = 7 * (q - s) + (7 - r)
  BY SMT, <1>1, <1>6, <1>7
<1>9. PICK t \in Int : t = q - s
  BY <1>1
<1>10. DayOfWeek(y, m, 1) = IF r = 0 THEN 0 ELSE 7 - r
  <2>1. DayOfWeek(y, m, 1) = (7 * t + (7 - r)) % 7
    BY <1>5, <1>8, <1>9
  <2>2. (7 * t + (7 - r)) % 7 = IF r = 0 THEN 0 ELSE 7 - r
    BY SMT, <1>6
  <2> QED BY <2>1, <2>2
<1>11. (7 - DayOfWeek(y, m, 1)) % 7 = r
  BY SMT, <1>10
<1>12. dom = r + 1 + 7 * (s - 1) + wd
  BY SMT, <1>1, <1>6
<1> QED BY <1>1, <1>10, <1>11, <1>12 DEF FirstSundayIs, HasFirstSunday

\* The live rule is the calendar's.
LiveDst(m, wd, s, hour) ==
  \/ m \in 4..10
  \/ m = 3 /\ (s > 2 \/ (s = 2 /\ (wd # 0 \/ hour >= 7)))
  \/ m = 11 /\ (s = 0 \/ (s = 1 /\ wd = 0 /\ hour < 6))

LEMMA LiveRule ==
  ASSUME NEW y, NEW m, NEW dom, NEW days, NEW wd, NEW s, Place(y, m, dom, days, wd, s),
         NEW hour \in 0 .. 23
  PROVE  IsUsDst(days, hour) <=> LiveDst(m, wd, s, hour)
<1>1. y \in Int /\ m \in 1 .. 12 /\ dom \in 1 .. 31 /\ days \in Int /\ wd \in 0 .. 6 /\ s \in 0 .. 5
  BY PlaceIs
<1>2. IsDate(y, m, dom) /\ days = YmdToDays(y, m, dom)
  BY DEF Place
<1>3. CivilFromDays(days) = <<y, m, dom>>
  BY <1>2, DateRestored
<1>4. PICK r : FirstSundayIs(y, m, dom, wd, s, r)
  BY FirstSunday DEF HasFirstSunday
<1>5. r \in 0 .. 6 /\ (7 - DayOfWeek(y, m, 1)) % 7 = r /\ dom = r + 1 + 7 * (s - 1) + wd
  BY <1>4 DEF FirstSundayIs
<1>6. NthSunday(y, m, 1) = r + 1 /\ NthSunday(y, m, 2) = r + 8
  BY SMT, <1>5 DEF NthSunday
<1>7. YmdToDays(y, m, r + 1) = days - dom + (r + 1) /\ YmdToDays(y, m, r + 8) = days - dom + (r + 8)
  <2>1. r + 1 \in 1 .. 28 /\ r + 8 \in 1 .. 28
    BY SMT, <1>5
  <2> QED BY <1>2, <2>1, FirstOfMonth
<1>8. PICK first \in Int, second \in Int : first = YmdToDays(y, m, r + 1) /\ second = YmdToDays(y, m, r + 8)
  BY SMT, <1>1, <1>5, <1>7
<1>9. IsUsDst(days, hour) <=>
        \/ m \in 4..10
        \/ m = 3 /\ days * 24 + hour >= second * 24 + 7
        \/ m = 11 /\ days * 24 + hour < first * 24 + 6
  BY <1>3, <1>6, <1>8 DEF IsUsDst
<1>10. first = days - 7 * (s - 1) - wd /\ second = days - 7 * (s - 2) - wd
  BY SMT, <1>1, <1>5, <1>7, <1>8
<1>11. days * 24 + hour >= second * 24 + 7 <=> s > 2 \/ (s = 2 /\ (wd # 0 \/ hour >= 7))
  BY SMT, <1>1, <1>10
<1>12. days * 24 + hour < first * 24 + 6 <=> s = 0 \/ (s = 1 /\ wd = 0 /\ hour < 6)
  BY SMT, <1>1, <1>10
<1> QED BY <1>9, <1>11, <1>12 DEF LiveDst

\* The replay's rule knows no hours.
DayDst(m, s) == m \in 4..10 \/ (m = 3 /\ s >= 2) \/ (m = 11 /\ s = 0)

LEMMA DayRule ==
  ASSUME NEW y, NEW m, NEW dom, NEW days, NEW wd, NEW s, Place(y, m, dom, days, wd, s)
  PROVE  IsUsDstDate(y, m, dom) <=> DayDst(m, s)
<1>1. y \in Int /\ m \in 1 .. 12 /\ dom \in 1 .. 31 /\ days \in Int /\ wd \in 0 .. 6 /\ s \in 0 .. 5
  BY PlaceIs
<1>2. PICK r : FirstSundayIs(y, m, dom, wd, s, r)
  BY FirstSunday DEF HasFirstSunday
<1>3. r \in 0 .. 6 /\ DayOfWeek(y, m, 1) = (IF r = 0 THEN 0 ELSE 7 - r) /\ dom = r + 1 + 7 * (s - 1) + wd
  BY <1>2 DEF FirstSundayIs
<1>4. PICK first \in 0 .. 6 : first = DayOfWeek(y, m, 1)
  BY SMT, <1>3
<1>5. SecondSunday(first) = r + 8 /\ 1 + (IF first = 0 THEN 0 ELSE 7 - first) = r + 1
  BY SMT, <1>3, <1>4 DEF SecondSunday
<1>6. dom >= r + 8 <=> s >= 2
  BY SMT, <1>1, <1>3
<1>7. dom < r + 1 <=> s = 0
  BY SMT, <1>1, <1>3
<1>8. IsUsDstDate(y, m, dom) <=>
        m \in 4..10 \/ (m = 3 /\ dom >= r + 8) \/ (m = 11 /\ dom < r + 1)
  BY <1>4, <1>5 DEF IsUsDstDate
<1> QED BY <1>6, <1>7, <1>8 DEF DayDst

\* The Sundays of the month on the next day.
SundaysAfter(y, m, dom, wd, s) ==
  (IF dom = LastOfMonth(y, m) THEN 0 ELSE s) + (IF wd = 6 THEN 1 ELSE 0)

LEMMA NextPlace ==
  ASSUME NEW y, NEW m, NEW dom, NEW days, NEW wd, NEW s, Place(y, m, dom, days, wd, s),
         NEW y2, NEW m2, NEW dom2, DateAfter(<<y, m, dom>>) = <<y2, m2, dom2>>
  PROVE  Place(y2, m2, dom2, days + 1, (wd + 1) % 7, SundaysAfter(y, m, dom, wd, s))
<1>1. y \in Int /\ m \in 1 .. 12 /\ dom \in 1 .. 31 /\ days \in Int /\ wd \in 0 .. 6 /\ s \in 0 .. 5
  BY PlaceIs
<1>2. IsDate(y, m, dom) /\ days = YmdToDays(y, m, dom) /\ wd = (days + 4) % 7
      /\ s = (dom + 6 - wd) \div 7
  BY DEF Place
<1>3. IsDate(y2, m2, dom2) /\ YmdToDays(y2, m2, dom2) = days + 1
  BY <1>2, DaysAfter
<1>4. PICK wd2 \in 0 .. 6 : wd2 = (wd + 1) % 7
  BY SMT, <1>1
<1>5. (days + 1 + 4) % 7 = wd2
  BY SMT, <1>1, <1>2, <1>4
<1>6. PICK n \in 28 .. 31 : n = LastOfMonth(y, m)
  BY SMT DEF LastOfMonth
<1>7. dom2 = IF dom = n THEN 1 ELSE dom + 1
  BY SMT, <1>6 DEF DateAfter
<1>8. SundaysAfter(y, m, dom, wd, s) = (dom2 + 6 - wd2) \div 7
  <2>1. PICK s2 \in Int : s2 = SundaysAfter(y, m, dom, wd, s)
    BY SMT, <1>1 DEF SundaysAfter
  <2>2. s2 = (IF dom = n THEN 0 ELSE s) + (IF wd = 6 THEN 1 ELSE 0)
    BY SMT, <1>6, <2>1 DEF SundaysAfter
  <2>3. wd2 = IF wd = 6 THEN 0 ELSE wd + 1
    BY SMT, <1>1, <1>4
  <2>4. s2 = (dom2 + 6 - wd2) \div 7
    <3>1. CASE dom = n
      BY SMT, <1>1, <1>7, <2>2, <2>3, <3>1
    <3>2. CASE dom # n
      <4>1. CASE wd = 6
        BY SMT, <1>1, <1>2, <1>7, <2>2, <2>3, <3>2, <4>1
      <4>2. CASE wd # 6
        BY SMT, <1>1, <1>2, <1>7, <2>2, <2>3, <3>2, <4>2
      <4> QED BY <4>1, <4>2
    <3> QED BY <3>1, <3>2
  <2> QED BY <2>1, <2>4
<1> QED BY <1>3, <1>4, <1>5, <1>8 DEF Place

\* Daylight saving time begins and ends on Sundays.
LEMMA NextDst ==
  ASSUME NEW y, NEW m, NEW dom, NEW days, NEW wd, NEW s, Place(y, m, dom, days, wd, s),
         NEW y2, NEW m2, NEW dom2, DateAfter(<<y, m, dom>>) = <<y2, m2, dom2>>, wd # 6
  PROVE  DayDst(m2, SundaysAfter(y, m, dom, wd, s)) <=> DayDst(m, s)
<1>1. y \in Int /\ m \in 1 .. 12 /\ dom \in 1 .. 31 /\ days \in Int /\ wd \in 0 .. 6 /\ s \in 0 .. 5
  BY PlaceIs
<1>2. s = (dom + 6 - wd) \div 7
  BY DEF Place
<1>3. PICK n \in 28 .. 31 : n = LastOfMonth(y, m)
  BY SMT DEF LastOfMonth
<1>4. m2 = IF dom # n THEN m ELSE IF m < 12 THEN m + 1 ELSE 1
  BY SMT, <1>3 DEF DateAfter
<1>5. SundaysAfter(y, m, dom, wd, s) = IF dom = n THEN 0 ELSE s
  BY SMT, <1>1, <1>3 DEF SundaysAfter
<1>6. m = 3 => n = 31
  BY SMT, <1>3 DEF LastOfMonth
<1>7. dom = 31 => s >= 2
  BY SMT, <1>1, <1>2
<1>8. CASE dom # n
  BY <1>4, <1>5, <1>8
<1>9. CASE dom = n
  <2>1. SundaysAfter(y, m, dom, wd, s) = 0 /\ m2 = IF m < 12 THEN m + 1 ELSE 1
    BY <1>4, <1>5, <1>9
  <2>2. m = 3 => s >= 2
    BY <1>6, <1>7, <1>9
  <2>3. m = 11 => s # 0
    BY SMT, <1>1, <1>2, <1>9
  <2> QED BY SMT, <1>1, <2>1, <2>2, <2>3 DEF DayDst
<1> QED BY <1>8, <1>9

-----------------------------------------------------------------------------
\* The walk is at a place of the calendar.
CivilInv ==
  /\ civil = <<civil[1], civil[2], civil[3]>>
  /\ Place(civil[1], civil[2], civil[3], day, weekday, sundays)

LEMMA CivilStarts ==
  ASSUME CivilLimits, CivilInit
  PROVE  CivilInv
<1>1. PICK s \in Starts :
        /\ day = s.day /\ civil = s.date /\ weekday = s.weekday
        /\ sundays = IF s.weekday = 0 THEN 1 ELSE 0
  BY DEF CivilInit
<1>2. /\ s.date \in Int \X (1 .. 12) \X {1}
      /\ s.day = YmdToDays(s.date[1], s.date[2], 1)
      /\ s.weekday = (s.day + 4) % 7
  BY DEF CivilLimits
<1>3. PICK y \in Int, m \in 1 .. 12 : civil = <<y, m, 1>>
  BY <1>1, <1>2
<1>4. day = YmdToDays(y, m, 1) /\ weekday = (day + 4) % 7
  BY <1>1, <1>2, <1>3
<1>5. IsDate(y, m, 1)
  BY SMT, <1>3 DEF IsDate, LastOfMonth
<1>6. PICK d \in Int : d = day
  BY <1>4, <1>5, DateRestored
<1>7. PICK wd \in 0 .. 6 : wd = weekday
  BY SMT, <1>4, <1>6
<1>8. sundays = (1 + 6 - wd) \div 7
  BY SMT, <1>1, <1>7
<1>9. Place(y, m, 1, day, weekday, sundays)
  BY <1>4, <1>5, <1>7, <1>8 DEF Place
<1> QED BY <1>3, <1>9 DEF CivilInv

LEMMA CivilSteps ==
  ASSUME CivilInv, [NextDay]_civilVars
  PROVE  CivilInv'
<1>1. CASE UNCHANGED civilVars
  BY <1>1 DEF CivilInv, civilVars
<1>2. CASE NextDay
  <2>1. PICK y, m, dom : y = civil[1] /\ m = civil[2] /\ dom = civil[3]
    OBVIOUS
  <2>2. civil = <<y, m, dom>> /\ Place(y, m, dom, day, weekday, sundays)
    BY <2>1 DEF CivilInv
  <2>3. y \in Int /\ m \in 1 .. 12 /\ dom \in 1 .. 31
    BY <2>2, PlaceIs
  <2>4. civil' = DateAfter(<<y, m, dom>>)
    BY <1>2, <2>2 DEF NextDay, DateAfter
  <2>5. PICK y2, m2, dom2 : civil' = <<y2, m2, dom2>>
    BY <2>4 DEF DateAfter
  <2>6. Place(y2, m2, dom2, day + 1, (weekday + 1) % 7, SundaysAfter(y, m, dom, weekday, sundays))
    BY <2>2, <2>4, <2>5, NextPlace
  <2>7. day' = day + 1 /\ weekday' = (weekday + 1) % 7
    BY <1>2 DEF NextDay
  <2>8. sundays' = SundaysAfter(y, m, dom, weekday, sundays)
    BY <1>2, <2>2 DEF NextDay, SundaysAfter
  <2>9. Place(y2, m2, dom2, day', weekday', sundays')
    BY <2>6, <2>7, <2>8
  <2>10. civil'[1] = y2 /\ civil'[2] = m2 /\ civil'[3] = dom2
    BY <2>5
  <2> QED BY <2>5, <2>9, <2>10 DEF CivilInv
<1> QED BY <1>1, <1>2

LEMMA CivilInvImplies ==
  ASSUME CivilInv
  PROVE  CalendarCorrect
<1>1. PICK y, m, dom : y = civil[1] /\ m = civil[2] /\ dom = civil[3]
  OBVIOUS
<1>2. civil = <<y, m, dom>> /\ Place(y, m, dom, day, weekday, sundays)
  BY <1>1 DEF CivilInv
<1>3. /\ y \in Int /\ m \in 1 .. 12 /\ dom \in 1 .. 31
      /\ day \in Int /\ weekday \in 0 .. 6 /\ sundays \in 0 .. 5
  BY <1>2, PlaceIs
<1>4. IsDate(y, m, dom) /\ day = YmdToDays(y, m, dom) /\ weekday = (day + 4) % 7
  BY <1>2 DEF Place
<1>5. ConversionsMatchCalendar
  BY <1>1, <1>2, <1>4, DateRestored, WeekdayOfDate DEF ConversionsMatchCalendar
<1>6. DstMatchesCalendar
  <2> SUFFICES ASSUME NEW hour \in {0, 5, 6, 7, 23}
               PROVE  IsUsDst(day, hour) <=> LiveDst(m, weekday, sundays, hour)
    BY <1>1 DEF DstMatchesCalendar, LiveDst
  <2> hour \in 0 .. 23
    OBVIOUS
  <2> QED BY <1>2, LiveRule
<1>7. ReplayAgreesWithLive
  <2> SUFFICES ASSUME NEW hour \in {0, 7, 12, 21, 22, 23}, NEW hours \in Int,
                      hours = 24 * day + hour, MarketOpen(hours)
               PROVE  /\ UtcToMt5(hours) = hours + NyCloseOffset(hours)
                      /\ Mt5ToUtc(UtcToMt5(hours)) = hours
    BY <1>3 DEF ReplayAgreesWithLive
  <2>1. hours \div 24 = day /\ hours % 24 = hour /\ hours - 24 * day = hour
    BY SMT, <1>3
  <2>2. weekday \in 1 .. 4 \/ (weekday = 0 /\ hour >= 22) \/ (weekday = 5 /\ hour < 22)
    BY <2>1 DEF MarketOpen
  <2>3. weekday # 6
    BY SMT, <2>2
  <2>4. IsUsDst(day, hour) <=> LiveDst(m, weekday, sundays, hour)
    <3>1. hour \in 0 .. 23
      OBVIOUS
    <3> QED BY <1>2, <3>1, LiveRule
  <2>5. LiveDst(m, weekday, sundays, hour) <=> DayDst(m, sundays)
    BY SMT, <1>3, <2>2 DEF LiveDst, DayDst
  <2>6. CivilFromDays(day) = <<y, m, dom>>
    BY <1>4, DateRestored
  <2>7. IsUsDstDate(y, m, dom) <=> DayDst(m, sundays)
    BY <1>2, DayRule
  <2>8. PICK offset \in {2, 3} : offset = IF DayDst(m, sundays) THEN 3 ELSE 2
    OBVIOUS
  <2>9. DateOffset(hours) = offset
    BY <2>1, <2>6, <2>7, <2>8 DEF DateOffset
  <2>10. NyCloseOffset(hours) = offset
    BY <2>1, <2>4, <2>5, <2>8 DEF NyCloseOffset
  <2>11. PICK local \in Int : local = hours + offset
    BY <2>8
  <2>12. DateOffset(local) = offset
    <3>1. CASE hour + offset < 24
      <4>1. local \div 24 = day
        BY SMT, <1>3, <2>11, <3>1
      <4> QED BY <2>6, <2>7, <2>8, <4>1 DEF DateOffset
    <3>2. CASE hour + offset >= 24
      <4>1. local \div 24 = day + 1
        BY SMT, <1>3, <2>11, <3>2
      <4>2. PICK y2, m2, dom2 : DateAfter(<<y, m, dom>>) = <<y2, m2, dom2>>
        BY DEF DateAfter
      <4>3. PICK s2 : s2 = SundaysAfter(y, m, dom, weekday, sundays)
        OBVIOUS
      <4>4. Place(y2, m2, dom2, day + 1, (weekday + 1) % 7, s2)
        BY <1>2, <4>2, <4>3, NextPlace
      <4>5. CivilFromDays(day + 1) = <<y2, m2, dom2>>
        <5>1. IsDate(y2, m2, dom2) /\ day + 1 = YmdToDays(y2, m2, dom2)
          BY <4>4 DEF Place
        <5> QED BY <5>1, DateRestored
      <4>6. IsUsDstDate(y2, m2, dom2) <=> DayDst(m2, s2)
        BY <4>4, DayRule
      <4>7. DayDst(m2, s2) <=> DayDst(m, sundays)
        BY <1>2, <2>3, <4>2, <4>3, NextDst
      <4> QED BY <2>8, <4>1, <4>5, <4>6, <4>7 DEF DateOffset
    <3> QED BY SMT, <2>8, <3>1, <3>2
  <2>13. UtcToMt5(hours) = local
    BY <2>9, <2>11 DEF UtcToMt5
  <2>14. Mt5ToUtc(local) = local - offset
    BY <2>12 DEF Mt5ToUtc
  <2> QED BY SMT, <2>8, <2>10, <2>11, <2>13, <2>14
<1> QED BY <1>5, <1>6, <1>7 DEF CalendarCorrect

\* The program's calendar agrees with the calendar on every day of every walk: the two
\* conversions are inverse to each other on every date, daylight saving time changes on
\* its Sundays, and the replay's server time is the live one whenever the market is open
\* (civil_date.rs, timezone.rs, driver.rs).
THEOREM CalendarIsCorrect == CivilLimits /\ CivilSpec => []CalendarCorrect
<1>1. CivilLimits /\ CivilInit => CivilInv
  BY CivilStarts
<1>2. CivilInv /\ [NextDay]_civilVars => CivilInv'
  BY CivilSteps
<1>3. CivilInv => CalendarCorrect
  BY CivilInvImplies
<1> QED BY <1>1, <1>2, <1>3, PTL DEF CivilSpec

-----------------------------------------------------------------------------
(* Numbers in ascending order (Aggregates). *)

\* Numbers, numbered.
Numbering(f) == IsFiniteSet(DOMAIN f) /\ DOMAIN f \subseteq Int /\ f \in [DOMAIN f -> Int]

UpTo(f, i) == {j \in DOMAIN f : f[j] < f[i] \/ (f[j] = f[i] /\ j <= i)}

\* Places are counted from 1, and what stands up to a place is ordered by inclusion.
LEMMA PlaceOfIs ==
  ASSUME NEW f, Numbering(f), NEW i \in DOMAIN f
  PROVE  /\ UpTo(f, i) \subseteq DOMAIN f /\ i \in UpTo(f, i) /\ IsFiniteSet(UpTo(f, i))
         /\ PlaceOf(f, i) = Cardinality(UpTo(f, i))
         /\ Cardinality(DOMAIN f) \in Nat /\ PlaceOf(f, i) \in 1 .. Cardinality(DOMAIN f)
<1>1. UpTo(f, i) \subseteq DOMAIN f /\ i \in UpTo(f, i)
  BY DEF UpTo, Numbering
<1>2. IsFiniteSet(UpTo(f, i)) /\ Cardinality(UpTo(f, i)) <= Cardinality(DOMAIN f)
  BY <1>1, FS_Subset DEF Numbering
<1>3. Cardinality(UpTo(f, i)) \in Nat /\ Cardinality(DOMAIN f) \in Nat
  BY <1>2, FS_CardinalityType DEF Numbering
<1>4. Cardinality(UpTo(f, i)) # 0
  BY <1>1, <1>2, FS_EmptySet
<1>5. PlaceOf(f, i) = Cardinality(UpTo(f, i))
  BY DEF PlaceOf, UpTo
<1> QED BY <1>1, <1>2, <1>3, <1>4, <1>5

LEMMA UpToOrdered ==
  ASSUME NEW f, Numbering(f), NEW i \in DOMAIN f, NEW j \in DOMAIN f,
         f[i] < f[j] \/ (f[i] = f[j] /\ i < j)
  PROVE  PlaceOf(f, i) < PlaceOf(f, j)
<1>1. UpTo(f, i) \subseteq UpTo(f, j)
  BY DEF UpTo, Numbering
<1>2. j \notin UpTo(f, i)
  BY DEF UpTo, Numbering
<1>3. UpTo(f, i) # UpTo(f, j)
  BY <1>2, PlaceOfIs
<1>4. Cardinality(UpTo(f, i)) <= Cardinality(UpTo(f, j)) /\ Cardinality(UpTo(f, i)) # Cardinality(UpTo(f, j))
  BY <1>1, <1>3, PlaceOfIs, FS_Subset
<1> QED BY <1>4, PlaceOfIs

\* Every element has a place of its own, and smaller values have smaller places.
LEMMA PlacesDiffer ==
  ASSUME NEW f, Numbering(f), NEW i \in DOMAIN f, NEW j \in DOMAIN f
  PROVE  /\ PlaceOf(f, i) = PlaceOf(f, j) => i = j
         /\ PlaceOf(f, i) <= PlaceOf(f, j) => f[i] <= f[j]
         /\ f[i] < f[j] => PlaceOf(f, i) < PlaceOf(f, j)
<1>1. f[i] \in Int /\ f[j] \in Int /\ i \in Int /\ j \in Int
  BY DEF Numbering
<1>2. PlaceOf(f, i) \in Int /\ PlaceOf(f, j) \in Int
  BY PlaceOfIs
<1>3. f[i] < f[j] \/ (f[i] = f[j] /\ i < j) => PlaceOf(f, i) < PlaceOf(f, j)
  BY UpToOrdered
<1>4. f[j] < f[i] \/ (f[i] = f[j] /\ j < i) => PlaceOf(f, j) < PlaceOf(f, i)
  BY UpToOrdered
<1> QED BY <1>1, <1>2, <1>3, <1>4

\* Every place is taken.
LEMMA PlacesTaken ==
  ASSUME NEW f, Numbering(f), NEW k \in 1 .. Cardinality(DOMAIN f)
  PROVE  \E i \in DOMAIN f : PlaceOf(f, i) = k
<1> DEFINE n == Cardinality(DOMAIN f)
           g == [i \in DOMAIN f |-> PlaceOf(f, i)]
<1>1. n \in Nat
  BY FS_CardinalityType DEF Numbering
<1>2. g \in [DOMAIN f -> 1 .. n]
  BY PlaceOfIs
<1>3. g \in Injection(DOMAIN f, 1 .. n)
  BY <1>2, PlacesDiffer DEF Injection, IsInjective
<1>4. IsFiniteSet(1 .. n) /\ Cardinality(1 .. n) = n
  BY <1>1, FS_Interval
<1>5. g \in Surjection(DOMAIN f, 1 .. n)
  BY <1>3, <1>4, FS_Injection
<1>6. \E i \in DOMAIN f : g[i] = k
  BY <1>5 DEF Surjection
<1> QED BY <1>6

\* The element at a place.
LEMMA KeyAt ==
  ASSUME NEW f, Numbering(f), NEW k \in 1 .. Cardinality(DOMAIN f)
  PROVE  /\ KeysByValue(f)[k] \in DOMAIN f /\ PlaceOf(f, KeysByValue(f)[k]) = k
         /\ Ascending(f)[k] = f[KeysByValue(f)[k]] /\ Ascending(f)[k] \in Int
<1>1. KeysByValue(f)[k] = CHOOSE i \in DOMAIN f : PlaceOf(f, i) = k
  BY DEF KeysByValue
<1>2. KeysByValue(f)[k] \in DOMAIN f /\ PlaceOf(f, KeysByValue(f)[k]) = k
  BY <1>1, PlacesTaken
<1>3. Ascending(f)[k] = f[KeysByValue(f)[k]]
  BY DEF Ascending
<1> QED BY <1>2, <1>3 DEF Numbering

LEMMA KeysOfPlaces ==
  ASSUME NEW f, Numbering(f), NEW i \in DOMAIN f
  PROVE  KeysByValue(f)[PlaceOf(f, i)] = i
BY PlaceOfIs, KeyAt, PlacesDiffer

\* What is below a number, and what is not above it.
Smaller(f, v) == {i \in DOMAIN f : f[i] < v}
NotLarger(f, v) == {i \in DOMAIN f : f[i] <= v}

\* The k-th number in ascending order has fewer than k below it and at least k not
\* above it.
IsNumber(f, k, v) ==
  /\ Cardinality(Smaller(f, v)) \in Nat /\ Cardinality(NotLarger(f, v)) \in Nat
  /\ Cardinality(Smaller(f, v)) < k /\ k <= Cardinality(NotLarger(f, v))

LEMMA CountsFinite ==
  ASSUME NEW f, Numbering(f), NEW v
  PROVE  /\ IsFiniteSet(Smaller(f, v)) /\ IsFiniteSet(NotLarger(f, v))
         /\ Cardinality(Smaller(f, v)) \in Nat /\ Cardinality(NotLarger(f, v)) \in Nat
<1>1. Smaller(f, v) \subseteq DOMAIN f /\ NotLarger(f, v) \subseteq DOMAIN f
  BY DEF Smaller, NotLarger
<1>2. IsFiniteSet(Smaller(f, v)) /\ IsFiniteSet(NotLarger(f, v))
  BY <1>1, FS_Subset DEF Numbering
<1> QED BY <1>2, FS_CardinalityType

LEMMA AscendingNumber ==
  ASSUME NEW f, Numbering(f), NEW k \in 1 .. Cardinality(DOMAIN f)
  PROVE  IsNumber(f, k, Ascending(f)[k])
<1>1. PICK i \in DOMAIN f : PlaceOf(f, i) = k /\ Ascending(f)[k] = f[i]
  BY KeyAt
<1>2. UpTo(f, i) \subseteq NotLarger(f, f[i])
  BY DEF UpTo, NotLarger, Numbering
<1>3. Smaller(f, f[i]) \subseteq UpTo(f, i) \ {i}
  BY DEF UpTo, Smaller, Numbering
<1>4. Cardinality(UpTo(f, i)) = k /\ IsFiniteSet(UpTo(f, i)) /\ i \in UpTo(f, i) /\ k \in Nat
  BY <1>1, PlaceOfIs
<1>5. Cardinality(UpTo(f, i) \ {i}) = k - 1 /\ IsFiniteSet(UpTo(f, i) \ {i})
  BY <1>4, FS_RemoveElement
<1>6. Cardinality(Smaller(f, f[i])) <= k - 1
  BY <1>3, <1>5, FS_Subset
<1>7. k <= Cardinality(NotLarger(f, f[i]))
  BY <1>2, <1>4, CountsFinite, FS_Subset
<1> QED BY <1>1, <1>4, <1>6, <1>7, CountsFinite DEF IsNumber

\* It is the only such number.
LEMMA NumberIsUnique ==
  ASSUME NEW f, Numbering(f), NEW k \in Nat, NEW v \in Int, NEW w \in Int,
         IsNumber(f, k, v), IsNumber(f, k, w)
  PROVE  v = w
<1>1. ASSUME NEW x \in Int, NEW y \in Int, IsNumber(f, k, x), IsNumber(f, k, y), x < y
      PROVE  FALSE
  <2>1. NotLarger(f, x) \subseteq Smaller(f, y)
    BY <1>1 DEF NotLarger, Smaller, Numbering
  <2>2. Cardinality(NotLarger(f, x)) <= Cardinality(Smaller(f, y))
    BY <2>1, CountsFinite, FS_Subset
  <2> QED BY <1>1, <2>2 DEF IsNumber
<1>2. ~(v < w) /\ ~(w < v)
  BY <1>1
<1> QED BY <1>2

\* The order does not depend on how the numbers are numbered.
LEMMA SameAscending ==
  ASSUME NEW f, Numbering(f), NEW g, Numbering(g), NEW h \in Bijection(DOMAIN f, DOMAIN g),
         \A i \in DOMAIN f : g[h[i]] = f[i]
  PROVE  Ascending(f) = Ascending(g)
<1>1. Cardinality(DOMAIN g) = Cardinality(DOMAIN f)
  BY FS_Bijection DEF Numbering, ExistsBijection
<1>2. ASSUME NEW v
      PROVE  /\ Cardinality(Smaller(g, v)) = Cardinality(Smaller(f, v))
             /\ Cardinality(NotLarger(g, v)) = Cardinality(NotLarger(f, v))
  <2>1. h \in [DOMAIN f -> DOMAIN g]
        /\ (\A i, j \in DOMAIN f : h[i] = h[j] => i = j)
        /\ (\A j \in DOMAIN g : \E i \in DOMAIN f : h[i] = j)
    BY DEF Bijection, Injection, Surjection, IsInjective
  <2>2. ASSUME NEW S \in SUBSET DOMAIN f, NEW T \in SUBSET DOMAIN g,
               \A i \in DOMAIN f : i \in S <=> h[i] \in T
        PROVE  Cardinality(T) = Cardinality(S)
    <3> DEFINE hh == [i \in S |-> h[i]]
    <3>1. hh \in [S -> T]
      BY <2>1, <2>2
    <3>2. \A i, j \in S : hh[i] = hh[j] => i = j
      BY <2>1
    <3>3. \A t \in T : \E i \in S : hh[i] = t
      BY <2>1, <2>2
    <3>4. hh \in Bijection(S, T)
      BY <3>1, <3>2, <3>3 DEF Bijection, Injection, Surjection, IsInjective
    <3>5. IsFiniteSet(S)
      BY FS_Subset DEF Numbering
    <3> QED BY <3>4, <3>5, FS_Bijection DEF ExistsBijection
  <2>3. Smaller(f, v) \in SUBSET DOMAIN f /\ Smaller(g, v) \in SUBSET DOMAIN g
        /\ (\A i \in DOMAIN f : i \in Smaller(f, v) <=> h[i] \in Smaller(g, v))
    BY <2>1 DEF Smaller
  <2>4. NotLarger(f, v) \in SUBSET DOMAIN f /\ NotLarger(g, v) \in SUBSET DOMAIN g
        /\ (\A i \in DOMAIN f : i \in NotLarger(f, v) <=> h[i] \in NotLarger(g, v))
    BY <2>1 DEF NotLarger
  <2> QED BY <2>2, <2>3, <2>4
<1>3. ASSUME NEW k \in 1 .. Cardinality(DOMAIN f) PROVE Ascending(f)[k] = Ascending(g)[k]
  <2>1. IsNumber(f, k, Ascending(f)[k]) /\ IsNumber(g, k, Ascending(g)[k])
    BY <1>1, AscendingNumber
  <2>2. IsNumber(f, k, Ascending(g)[k])
    BY <1>2, <2>1 DEF IsNumber
  <2>3. Ascending(f)[k] \in Int /\ Ascending(g)[k] \in Int
    BY <1>1, KeyAt
  <2>4. k \in Nat
    OBVIOUS
  <2> QED BY <2>1, <2>2, <2>3, <2>4, NumberIsUnique
<1> QED BY <1>1, <1>3 DEF Ascending

-----------------------------------------------------------------------------
(* The behaviour of the brokers (BrokerBehaviour). *)

\* The last m lifetimes among n times are the numbers d.
LastLives(times, d, n, m) ==
  \A i \in 1 .. m : d[i] = times[n - m + i] - times[n - m + i - 1]

\* The last lifetimes are the durations.
Lifetimes ==
  /\ heard = << >> => durations = << >>
  /\ heard # << >> =>
       /\ Len(durations) < Len(heard)
       /\ Len(durations) = MaxHistory \/ Len(durations) = Len(heard) - 1
       /\ LastLives(heard, durations, Len(heard), Len(durations))

Fingerprints == [lead : Nat, follow : Nat, moves : Nat, ticks : Nat, fresh : Nat]
Persistences == [price : QuotePrices \cup {None}, since : Int, first : Int, last : Int, valid : Nat]
Repricings ==
  [leads : Nat, follows : Nat, reversions : Nat, pending : {None} \cup 0 .. LastHeard,
   direction : {"none", "up", "down"}]

\* A price was first shown at the last time that was heard.
Hearing ==
  /\ clock \in 0 .. LastHeard /\ heard \in Seq(0 .. LastHeard)
  /\ durations \in Seq(Nat) /\ Len(durations) <= MaxHistory
  /\ persistence \in Persistences
  /\ (heard = << >>) <=> (persistence.price = None)
  /\ heard # << >> => persistence.since = heard[Len(heard)] /\ heard[Len(heard)] <= clock
  /\ Lifetimes

Counting ==
  /\ fingerprint \in Fingerprints
  /\ fingerprint.fresh = persistence.valid /\ fingerprint.fresh <= fingerprint.ticks
  /\ fingerprint.lead + fingerprint.follow = fingerprint.moves

BehaviourInv ==
  /\ Hearing
  /\ Counting
  /\ delays \in Seq(Nat) /\ Len(delays) <= MaxHistory
  /\ repricing \in Repricings /\ LeadsAnsweredOnce

LEMMA BehaviourStarts ==
  ASSUME BehaviourLimits, BehaviourInit
  PROVE  BehaviourInv
<1>1. 0 \in 0 .. LastHeard /\ MaxHistory \in Nat /\ 0 <= MaxHistory
  BY DEF BehaviourLimits
<1>2. Hearing
  BY <1>1 DEF BehaviourInit, Hearing, Lifetimes, None, Persistences
<1>3. Counting
  BY DEF BehaviourInit, Counting, None, Fingerprints
<1>4. repricing \in Repricings /\ LeadsAnsweredOnce
  BY DEF BehaviourInit, LeadsAnsweredOnce, None, Repricings
<1> QED BY <1>1, <1>2, <1>3, <1>4 DEF BehaviourInit, BehaviourInv

\* A full history drops its oldest entry.
Keeps(d, s, v) ==
  LET n == Len(d) IN
  /\ d \in Seq(Nat) /\ d[n] = v
  /\ Len(s) = MaxHistory => n = MaxHistory /\ \A i \in 1 .. n - 1 : d[i] = s[i + 1]
  /\ Len(s) # MaxHistory => n = Len(s) + 1 /\ \A i \in 1 .. n - 1 : d[i] = s[i]

LEMMA BoundedIs ==
  ASSUME BehaviourLimits, NEW s \in Seq(Nat), Len(s) <= MaxHistory, NEW v \in Nat
  PROVE  Keeps(Bounded(s, v), s, v) /\ Len(Bounded(s, v)) <= MaxHistory
<1>1. MaxHistory \in Nat \ {0} /\ Len(s) \in Nat
  BY DEF BehaviourLimits
<1>2. CASE Len(s) < MaxHistory
  <2>1. Bounded(s, v) = Append(s, v)
    BY <1>1, <1>2 DEF Bounded
  <2> QED BY <1>1, <1>2, <2>1 DEF Keeps
<1>3. CASE Len(s) = MaxHistory
  <2>1. Bounded(s, v) = Append(Tail(s), v)
    BY <1>1, <1>3 DEF Bounded
  <2>2. Tail(s) \in Seq(Nat) /\ Len(Tail(s)) = Len(s) - 1 /\ \A i \in 1 .. Len(s) - 1 : Tail(s)[i] = s[i + 1]
    BY <1>1, <1>3
  <2> QED BY <1>1, <1>3, <2>1, <2>2 DEF Keeps
<1> QED BY <1>1, <1>2, <1>3

\* A quote with a new price ends the lifetime of the last one.
LEMMA LifetimeEnds ==
  ASSUME BehaviourLimits, Hearing, heard' = Append(heard, clock),
         durations' = IF persistence.price = None THEN durations
                      ELSE Bounded(durations, clock - persistence.since)
  PROVE  /\ durations' \in Seq(Nat) /\ Len(durations') <= MaxHistory
         /\ heard' \in Seq(0 .. LastHeard) /\ heard' # << >> /\ heard'[Len(heard')] = clock
         /\ Lifetimes'
<1>1. /\ clock \in 0 .. LastHeard /\ LastHeard \in Nat /\ heard \in Seq(0 .. LastHeard)
      /\ durations \in Seq(Nat) /\ Len(durations) <= MaxHistory /\ Lifetimes
      /\ MaxHistory \in Nat \ {0}
  BY DEF Hearing, BehaviourLimits
<1>2. /\ heard' \in Seq(0 .. LastHeard) /\ Len(heard') = Len(heard) + 1 /\ Len(heard) \in Nat
      /\ heard' # << >> /\ heard'[Len(heard) + 1] = clock
      /\ \A i \in 1 .. Len(heard) : heard'[i] = heard[i]
  BY <1>1, SMTT(30)
<1>3. CASE persistence.price = None
  <2>1. heard = << >> /\ durations = << >> /\ durations' = << >>
    BY <1>1, <1>3 DEF Hearing, Lifetimes
  <2>2. Len(heard') = 1 /\ Len(durations') = 0
    BY <1>2, <2>1
  <2>3. Lifetimes'
    <3>1. \A i \in 1 .. Len(durations') : FALSE
      BY <2>2
    <3>2. Len(durations') < Len(heard') /\ Len(durations') = Len(heard') - 1
      BY <2>2
    <3> QED BY <1>2, <3>1, <3>2 DEF Lifetimes, LastLives
  <2> QED BY <1>1, <1>2, <2>1, <2>2, <2>3
<1>4. CASE persistence.price # None
  <2>1. heard # << >> /\ persistence.since = heard[Len(heard)] /\ heard[Len(heard)] <= clock
    BY <1>4 DEF Hearing
  <2>2. PICK n \in Nat \ {0} : n = Len(heard)
    BY <1>1, <2>1
  <2>3. heard[n] \in Int /\ heard[n] >= 0
    BY <1>1, <2>2
  <2>4. PICK v \in Nat : v = clock - heard[n]
    BY <1>1, <2>1, <2>2, <2>3
  <2>5. PICK d : d = Bounded(durations, v)
    OBVIOUS
  <2>6. durations' = d
    BY <1>4, <2>1, <2>2, <2>4, <2>5
  <2>7. PICK m \in Nat : m = Len(durations)
    BY <1>1
  <2>8. Keeps(d, durations, v) /\ Len(d) <= MaxHistory
    BY <1>1, <2>5, BoundedIs
  <2>9. PICK m2 \in Nat : m2 = Len(d) /\ m2 <= MaxHistory
    BY <2>8 DEF Keeps
  <2>10. /\ d \in Seq(Nat) /\ d[m2] = v
         /\ m = MaxHistory => m2 = m /\ \A i \in 1 .. m2 - 1 : d[i] = durations[i + 1]
         /\ m # MaxHistory => m2 = m + 1 /\ \A i \in 1 .. m2 - 1 : d[i] = durations[i]
    BY <2>7, <2>8, <2>9 DEF Keeps
  <2>11. /\ m < n /\ (m = MaxHistory \/ m = n - 1) /\ m <= MaxHistory
         /\ \A i \in 1 .. m : durations[i] = heard[n - m + i] - heard[n - m + i - 1]
    <3>1. m < n /\ (m = MaxHistory \/ m = n - 1) /\ m <= MaxHistory /\ LastLives(heard, durations, n, m)
      BY <1>1, <2>1, <2>2, <2>7 DEF Lifetimes
    <3> QED BY <3>1 DEF LastLives
  <2>12. m2 < n + 1 /\ (m2 = MaxHistory \/ m2 = n) /\ m2 \in Nat \ {0}
    BY <1>1, <2>10, <2>11
  <2>13. ASSUME NEW i \in 1 .. m2
         PROVE  d[i] = heard'[n + 1 - m2 + i] - heard'[n + 1 - m2 + i - 1]
    <3>1. CASE i = m2
      <4>1. n + 1 - m2 + i = n + 1 /\ n + 1 - m2 + i - 1 = n
        BY <3>1
      <4> QED BY <1>2, <2>2, <2>4, <2>10, <3>1, <4>1
    <3>2. CASE i # m2
      <4>1. CASE m = MaxHistory
        <5>1. d[i] = durations[i + 1] /\ i + 1 \in 1 .. m
          BY <2>10, <3>2, <4>1
        <5>2. durations[i + 1] = heard[n - m + (i + 1)] - heard[n - m + (i + 1) - 1]
          BY <2>11, <5>1
        <5>3. PICK j \in 1 .. n : j = n - m + i + 1 /\ j - 1 \in 1 .. n
          BY <2>11, <5>1
        <5>4. /\ n - m + (i + 1) = j /\ n + 1 - m2 + i = j
              /\ n - m + (i + 1) - 1 = j - 1 /\ n + 1 - m2 + i - 1 = j - 1
          BY <2>10, <4>1, <5>3
        <5>5. heard'[j] = heard[j] /\ heard'[j - 1] = heard[j - 1]
          BY <1>2, <2>2, <5>3
        <5> QED BY <5>1, <5>2, <5>4, <5>5, Zenon
      <4>2. CASE m # MaxHistory
        <5>1. d[i] = durations[i] /\ i \in 1 .. m
          BY <2>10, <3>2, <4>2
        <5>2. durations[i] = heard[n - m + i] - heard[n - m + i - 1]
          BY <2>11, <5>1
        <5>3. PICK j \in 1 .. n : j = n - m + i /\ j - 1 \in 1 .. n
          BY <2>11, <4>2, <5>1
        <5>4. n + 1 - m2 + i = j /\ n + 1 - m2 + i - 1 = j - 1 /\ n - m + i = j /\ n - m + i - 1 = j - 1
          BY <2>10, <4>2, <5>3
        <5>5. heard'[j] = heard[j] /\ heard'[j - 1] = heard[j - 1]
          BY <1>2, <2>2, <5>3
        <5> QED BY <5>1, <5>2, <5>4, <5>5, Zenon
      <4> QED BY <4>1, <4>2
    <3> QED BY <3>1, <3>2
  <2>14. Len(heard') = n + 1 /\ Len(durations') = m2
    BY <1>2, <2>2, <2>6, <2>9
  <2>15. Lifetimes'
    <3>1. Len(durations') < Len(heard')
      BY <2>12, <2>14
    <3>2. Len(durations') = MaxHistory \/ Len(durations') = Len(heard') - 1
      BY <2>12, <2>14
    <3>3. LastLives(heard', d, n + 1, m2)
      <4>1. PICK h : h = heard'
        OBVIOUS
      <4>2. \A i \in 1 .. m2 : d[i] = h[n + 1 - m2 + i] - h[n + 1 - m2 + i - 1]
        BY <2>13, <4>1, Zenon
      <4>3. LastLives(h, d, n + 1, m2)
        BY <4>2 DEF LastLives
      <4> QED BY <4>1, <4>3
    <3>4. LastLives(heard', durations', Len(heard'), Len(durations'))
      BY <2>6, <2>14, <3>3, Zenon
    <3> QED BY <1>2, <3>1, <3>2, <3>4 DEF Lifetimes
  <2> QED BY <1>1, <1>2, <2>2, <2>6, <2>9, <2>10, <2>15
<1> QED BY <1>3, <1>4

\* What a quote does to the tracker and the counters.
LEMMA QuoteHeard ==
  ASSUME BehaviourLimits, Hearing, Counting, NEW price \in QuotePrices, NEW live \in BOOLEAN,
         OnQuote(price, live)
  PROVE  Hearing' /\ Counting'
<1>0. /\ LastHeard \in Nat /\ price # None
      /\ UNCHANGED clock /\ clock \in 0 .. LastHeard /\ clock \in Int
  BY DEF BehaviourLimits, OnQuote, Hearing, None
<1>1. fingerprint' = RecordTick(live)
  BY DEF OnQuote
<1>2. /\ fingerprint' \in Fingerprints
      /\ fingerprint'.lead = fingerprint.lead /\ fingerprint'.follow = fingerprint.follow
      /\ fingerprint'.moves = fingerprint.moves /\ fingerprint'.ticks = fingerprint.ticks + 1
      /\ live => fingerprint'.fresh = fingerprint.fresh + 1
      /\ ~live => fingerprint'.fresh = fingerprint.fresh
  <2>1. fingerprint \in Fingerprints
    BY DEF Counting
  <2>2. PICK k \in Nat : k = (IF live THEN 1 ELSE 0) /\ (live => k = 1) /\ (~live => k = 0)
    OBVIOUS
  <2>3. fingerprint' = [fingerprint EXCEPT !.ticks = @ + 1, !.fresh = @ + k]
    BY <1>1, <2>2, Zenon DEF RecordTick
  <2>4. fingerprint' = [lead |-> fingerprint.lead, follow |-> fingerprint.follow,
                        moves |-> fingerprint.moves, ticks |-> fingerprint.ticks + 1,
                        fresh |-> fingerprint.fresh + k]
    BY <2>1, <2>3 DEF Fingerprints
  <2>5. fingerprint.lead \in Nat /\ fingerprint.follow \in Nat /\ fingerprint.moves \in Nat
        /\ fingerprint.ticks \in Nat /\ fingerprint.fresh \in Nat
    BY <2>1 DEF Fingerprints
  <2>6. fingerprint' \in Fingerprints
    BY <2>2, <2>4, <2>5 DEF Fingerprints
  <2> QED BY <2>2, <2>4, <2>5, <2>6
<1>3. /\ fingerprint.fresh = persistence.valid /\ fingerprint.fresh <= fingerprint.ticks
      /\ fingerprint.lead + fingerprint.follow = fingerprint.moves
      /\ fingerprint.fresh \in Nat /\ fingerprint.ticks \in Nat
  BY DEF Counting, Fingerprints
<1>4. persistence \in Persistences
  BY DEF Hearing
<1>5. CASE ~live
  <2>1. UNCHANGED <<persistence, durations, heard>>
    BY <1>5 DEF OnQuote
  <2>2. Hearing'
    BY <1>0, <2>1 DEF Hearing, Lifetimes
  <2> QED BY <1>2, <1>3, <1>5, <2>1, <2>2 DEF Counting
<1>6. CASE live /\ price = persistence.price
  <2>1. persistence' = Standing(persistence, clock) /\ UNCHANGED <<durations, heard>>
    BY <1>6 DEF OnQuote
  <2>2. /\ persistence' \in Persistences
        /\ persistence'.price = persistence.price /\ persistence'.since = persistence.since
        /\ persistence'.valid = persistence.valid + 1
    <3>1. persistence' = [price |-> persistence.price, since |-> persistence.since,
                          first |-> persistence.first, last |-> clock,
                          valid |-> persistence.valid + 1]
      BY <1>4, <2>1 DEF Persistences, Standing
    <3> QED BY <1>0, <1>4, <3>1 DEF Persistences
  <2>3. Hearing'
    BY <1>0, <2>1, <2>2 DEF Hearing, Lifetimes
  <2> QED BY <1>2, <1>3, <1>6, <2>2, <2>3 DEF Counting
<1>7. CASE live /\ price # persistence.price
  <2>1. /\ persistence' = Revised(persistence, price, clock)
        /\ durations' = IF persistence.price = None THEN durations
                        ELSE Bounded(durations, clock - persistence.since)
        /\ heard' = Append(heard, clock)
    BY <1>7 DEF OnQuote
  <2>2. /\ persistence' \in Persistences
        /\ persistence'.price = price /\ persistence'.since = clock
        /\ persistence'.valid = persistence.valid + 1
    <3>1. PICK f \in Int : f = (IF persistence.first = None THEN clock ELSE persistence.first)
      BY <1>0, <1>4 DEF Persistences
    <3>2. persistence' = [persistence EXCEPT !.price = price, !.since = clock, !.last = clock,
                                             !.valid = @ + 1, !.first = f]
      BY <2>1, <3>1, Zenon DEF Revised
    <3>3. persistence' = [price |-> price, since |-> clock, first |-> f, last |-> clock,
                          valid |-> persistence.valid + 1]
      BY <1>4, <3>2 DEF Persistences
    <3> QED BY <1>0, <1>4, <3>3 DEF Persistences
  <2>3. /\ durations' \in Seq(Nat) /\ Len(durations') <= MaxHistory
        /\ heard' \in Seq(0 .. LastHeard) /\ heard' # << >> /\ heard'[Len(heard')] = clock
        /\ Lifetimes'
    BY <2>1, LifetimeEnds
  <2>4. Hearing'
    BY <1>0, <2>2, <2>3 DEF Hearing
  <2> QED BY <1>2, <1>3, <1>7, <2>2, <2>4 DEF Counting
<1> QED BY <1>5, <1>6, <1>7

LEMMA BehaviourSteps ==
  ASSUME BehaviourLimits, BehaviourInv, [BehaviourNext]_behaviourVars
  PROVE  BehaviourInv'
<1>0. /\ LastHeard \in Nat /\ Spans \subseteq Nat /\ MaxHistory \in Nat
      /\ fingerprint \in Fingerprints /\ repricing \in Repricings /\ clock \in 0 .. LastHeard
  BY DEF BehaviourLimits, BehaviourInv, Hearing, Counting
<1>h. UNCHANGED <<clock, persistence, durations, heard>> => Hearing'
  BY DEF BehaviourInv, Hearing, Lifetimes
<1>c. UNCHANGED <<fingerprint, persistence>> => Counting'
  BY DEF BehaviourInv, Counting
<1>r. UNCHANGED repricing => repricing' \in Repricings /\ LeadsAnsweredOnce'
  BY DEF BehaviourInv, LeadsAnsweredOnce
<1>d. UNCHANGED delays => delays' \in Seq(Nat) /\ Len(delays') <= MaxHistory
  BY DEF BehaviourInv
<1>1. ASSUME NEW price \in QuotePrices, NEW live \in BOOLEAN, OnQuote(price, live)
      PROVE  BehaviourInv'
  <2>1. UNCHANGED <<repricing, delays>>
    BY <1>1 DEF OnQuote
  <2>2. Hearing' /\ Counting'
    BY <1>1, QuoteHeard DEF BehaviourInv
  <2> QED BY <1>r, <1>d, <2>1, <2>2 DEF BehaviourInv
<1>2. CASE RecordLead
  <2>1. fingerprint' = [fingerprint EXCEPT !.lead = @ + 1, !.moves = @ + 1]
        /\ UNCHANGED <<clock, persistence, durations, repricing, delays, heard>>
    BY <1>2 DEF RecordLead
  <2>2. /\ fingerprint' \in Fingerprints
        /\ fingerprint'.lead = fingerprint.lead + 1 /\ fingerprint'.follow = fingerprint.follow
        /\ fingerprint'.moves = fingerprint.moves + 1 /\ fingerprint'.ticks = fingerprint.ticks
        /\ fingerprint'.fresh = fingerprint.fresh
    <3>1. fingerprint' = [lead |-> fingerprint.lead + 1, follow |-> fingerprint.follow,
                          moves |-> fingerprint.moves + 1, ticks |-> fingerprint.ticks,
                          fresh |-> fingerprint.fresh]
      BY <1>0, <2>1 DEF Fingerprints
    <3> QED BY <1>0, <3>1 DEF Fingerprints
  <2>3. fingerprint.lead \in Nat /\ fingerprint.follow \in Nat /\ fingerprint.moves \in Nat
    BY <1>0 DEF Fingerprints
  <2>4. Counting'
    BY <2>1, <2>2, <2>3 DEF BehaviourInv, Counting
  <2> QED BY <1>h, <1>r, <1>d, <2>1, <2>4 DEF BehaviourInv
<1>3. ASSUME NEW span \in Spans, RecordFollow(span) PROVE BehaviourInv'
  <2>1. /\ fingerprint' = [fingerprint EXCEPT !.follow = @ + 1, !.moves = @ + 1]
        /\ delays' = Bounded(delays, span)
        /\ UNCHANGED <<clock, persistence, durations, repricing, heard>>
    BY <1>3 DEF RecordFollow
  <2>2. /\ fingerprint' \in Fingerprints
        /\ fingerprint'.lead = fingerprint.lead /\ fingerprint'.follow = fingerprint.follow + 1
        /\ fingerprint'.moves = fingerprint.moves + 1 /\ fingerprint'.ticks = fingerprint.ticks
        /\ fingerprint'.fresh = fingerprint.fresh
    <3>1. fingerprint' = [lead |-> fingerprint.lead, follow |-> fingerprint.follow + 1,
                          moves |-> fingerprint.moves + 1, ticks |-> fingerprint.ticks,
                          fresh |-> fingerprint.fresh]
      BY <1>0, <2>1 DEF Fingerprints
    <3> QED BY <1>0, <3>1 DEF Fingerprints
  <2>3. fingerprint.lead \in Nat /\ fingerprint.follow \in Nat /\ fingerprint.moves \in Nat
    BY <1>0 DEF Fingerprints
  <2>4. Counting'
    BY <2>1, <2>2, <2>3 DEF BehaviourInv, Counting
  <2>5. delays' \in Seq(Nat) /\ Len(delays') <= MaxHistory
    <3>1. span \in Nat /\ delays \in Seq(Nat) /\ Len(delays) <= MaxHistory
      BY <1>0 DEF BehaviourInv
    <3> QED BY <2>1, <3>1, BoundedIs DEF Keeps
  <2> QED BY <1>h, <1>r, <2>1, <2>4, <2>5 DEF BehaviourInv
<1>4. ASSUME NEW direction \in {"up", "down"}, OnLeadEvent(direction) PROVE BehaviourInv'
  <2>1. /\ repricing' = [repricing EXCEPT !.leads = @ + 1, !.pending = clock, !.direction = direction]
        /\ UNCHANGED <<clock, persistence, durations, fingerprint, delays, heard>>
    BY <1>4 DEF OnLeadEvent
  <2>2. /\ repricing' \in Repricings
        /\ repricing'.leads = repricing.leads + 1 /\ repricing'.follows = repricing.follows
        /\ repricing'.reversions = repricing.reversions
    <3>1. repricing' = [leads |-> repricing.leads + 1, follows |-> repricing.follows,
                        reversions |-> repricing.reversions, pending |-> clock,
                        direction |-> direction]
      BY <1>0, <2>1 DEF Repricings
    <3> QED BY <1>0, <3>1 DEF Repricings
  <2>3. /\ repricing.leads \in Nat /\ repricing.follows \in Nat /\ repricing.reversions \in Nat
    BY <1>0 DEF Repricings
  <2>4. repricing.follows + repricing.reversions <= repricing.leads
    <3>1. PICK open \in {0, 1} : repricing.follows + repricing.reversions + open <= repricing.leads
      BY DEF BehaviourInv, LeadsAnsweredOnce
    <3> QED BY <2>3, <3>1
  <2>5. LeadsAnsweredOnce'
    BY <2>2, <2>3, <2>4 DEF LeadsAnsweredOnce
  <2> QED BY <1>h, <1>c, <1>d, <2>1, <2>2, <2>5 DEF BehaviourInv
<1>5. ASSUME repricing.pending # None,
             UNCHANGED <<clock, persistence, durations, fingerprint, delays, heard>>,
             \/ repricing' = Resolved
             \/ repricing' = [Resolved EXCEPT !.reversions = @ + 1]
             \/ repricing' = [Resolved EXCEPT !.follows = @ + 1]
             \/ repricing' = repricing
      PROVE  BehaviourInv'
  <2>1. /\ repricing.leads \in Nat /\ repricing.follows \in Nat /\ repricing.reversions \in Nat
        /\ repricing.follows + repricing.reversions + 1 <= repricing.leads
    BY <1>0, <1>5 DEF BehaviourInv, LeadsAnsweredOnce, Repricings
  <2>2. /\ Resolved \in Repricings /\ Resolved.pending = None /\ Resolved.leads = repricing.leads
        /\ Resolved.follows = repricing.follows /\ Resolved.reversions = repricing.reversions
    BY <1>0 DEF Resolved, Repricings
  <2>3. PICK r : r = Resolved
    OBVIOUS
  <2>4. CASE repricing' = repricing
    BY <1>h, <1>c, <1>d, <1>r, <1>5, <2>4 DEF BehaviourInv
  <2>5. CASE repricing' # repricing
    <3>1. /\ repricing' \in Repricings /\ repricing'.pending = None
          /\ repricing'.leads = repricing.leads
          /\ repricing'.follows + repricing'.reversions <= repricing.follows + repricing.reversions + 1
      <4>1. CASE repricing' = r
        BY <2>1, <2>2, <2>3, <4>1
      <4>2. CASE repricing' = [r EXCEPT !.reversions = @ + 1]
        BY <2>1, <2>2, <2>3, <4>2 DEF Repricings
      <4>3. CASE repricing' = [r EXCEPT !.follows = @ + 1]
        BY <2>1, <2>2, <2>3, <4>3 DEF Repricings
      <4> QED BY <1>5, <2>3, <2>5, <4>1, <4>2, <4>3
    <3>2. repricing'.follows \in Nat /\ repricing'.reversions \in Nat
      BY <3>1 DEF Repricings
    <3>3. LeadsAnsweredOnce'
      BY <2>1, <3>1, <3>2 DEF LeadsAnsweredOnce
    <3> QED BY <1>h, <1>c, <1>d, <1>5, <3>1, <3>3 DEF BehaviourInv
  <2> QED BY <2>4, <2>5
<1>6. ASSUME NEW own \in BOOLEAN, NEW direction \in {"up", "down"}, OnSubsequentEvent(own, direction)
      PROVE  BehaviourInv'
  BY <1>5, <1>6 DEF OnSubsequentEvent, FollowedBy
<1>7. CASE CheckExpiration
  BY <1>5, <1>7 DEF CheckExpiration
<1>8. CASE AdvanceClock
  <2>1. clock' = clock + 1 /\ clock < LastHeard
        /\ UNCHANGED <<persistence, durations, repricing, fingerprint, delays, heard>>
    BY <1>8 DEF AdvanceClock
  <2>2. clock' \in 0 .. LastHeard
    BY <1>0, <2>1
  <2>3. heard # << >> => heard[Len(heard)] <= clock'
    <3>1. ASSUME heard # << >> PROVE heard[Len(heard)] \in Int /\ heard[Len(heard)] <= clock
      BY <1>0, <3>1 DEF BehaviourInv, Hearing
    <3> QED BY <1>0, <2>1, <3>1
  <2>4. Hearing'
    BY <2>1, <2>2, <2>3 DEF BehaviourInv, Hearing, Lifetimes
  <2> QED BY <1>c, <1>r, <1>d, <2>1, <2>4 DEF BehaviourInv
<1>9. CASE UNCHANGED behaviourVars
  BY <1>h, <1>c, <1>r, <1>d, <1>9 DEF behaviourVars, BehaviourInv
<1> QED BY <1>1, <1>2, <1>3, <1>4, <1>6, <1>7, <1>8, <1>9 DEF BehaviourNext

\* A percentile is a number.
LEMMA PercentileIsNumber ==
  ASSUME NEW s \in Seq(Nat), s # << >>
  PROVE  Percentile(s, 50) \in Int
<1>1. PICK n \in Nat \ {0} : n = Len(s) /\ DOMAIN s = 1 .. n
  OBVIOUS
<1>2. Numbering(s) /\ Cardinality(DOMAIN s) = n
  BY <1>1, FS_Interval DEF Numbering
<1>3. PICK rank \in Nat : rank = 50 * (n - 1)
  OBVIOUS
<1>4. PICK lower \in Nat : lower = rank \div 100
  BY SMT
<1>5. PICK weight \in 0 .. 99 : weight = rank % 100
  BY SMT
<1>6. PICK upper \in Nat : upper = IF weight = 0 THEN lower ELSE lower + 1
  OBVIOUS
<1>7. lower + 1 \in 1 .. n /\ upper + 1 \in 1 .. n
  BY SMT, <1>3, <1>4, <1>5, <1>6
<1>8. Ascending(s)[lower + 1] \in Int /\ Ascending(s)[upper + 1] \in Int
  BY <1>2, <1>7, KeyAt
<1>9. Percentile(s, 50) = Ascending(s)[lower + 1] * (100 - weight) + Ascending(s)[upper + 1] * weight
  BY <1>1, <1>3, <1>4, <1>5, <1>6 DEF Percentile
<1>10. \A a, b \in Int : a * (100 - weight) + b * weight \in Int
  OBVIOUS
<1> QED BY <1>8, <1>9, <1>10

LEMMA BehaviourInvImplies ==
  ASSUME BehaviourLimits, BehaviourInv
  PROVE  BehaviourCorrect
<1>1. BehaviourTypeOK
  BY DEF BehaviourInv, Hearing, Counting, BehaviourTypeOK
<1>2. LeadsAnsweredOnce
  BY DEF BehaviourInv
<1>3. DurationsAreLifetimes
  <2> DEFINE lives == [i \in 1 .. (Len(heard) - 1) |-> heard[i + 1] - heard[i]]
  <2>1. /\ durations \in Seq(Nat) /\ Len(durations) \in Nat /\ Len(heard) \in Nat
        /\ heard \in Seq(0 .. LastHeard) /\ MaxHistory \in Nat \ {0} /\ Lifetimes
    BY DEF BehaviourInv, Hearing, BehaviourLimits
  <2>2. CASE heard = << >>
    <3>1. durations = << >>
      BY <2>1, <2>2 DEF Lifetimes
    <3>2. Len(heard) - 1 = -1
      BY <2>2
    <3>3. lives = << >>
      BY <3>2
    <3>4. PICK l : l = lives
      OBVIOUS
    <3>5. l = << >> /\ Len(l) = 0 /\ Len(durations) = 0
      BY <3>1, <3>3, <3>4
    <3>6. SubSeq(l, Len(l) - Len(durations) + 1, Len(l)) = << >> /\ Len(l) >= Len(durations)
      BY <3>5
    <3>7. /\ durations = SubSeq(lives, Len(lives) - Len(durations) + 1, Len(lives))
          /\ Len(lives) >= Len(durations)
      BY <3>1, <3>4, <3>6
    <3> HIDE DEF lives
    <3> QED BY <2>2, <3>7, Zenon DEF DurationsAreLifetimes, lives
  <2>3. CASE heard # << >>
    <3>1. PICK n \in Nat \ {0} : n = Len(heard)
      BY <2>1, <2>3
    <3>2. PICK m \in Nat : m = Len(durations)
      BY <2>1
    <3>3. m < n /\ (m = MaxHistory \/ m = n - 1) /\ LastLives(heard, durations, n, m)
      BY <2>1, <2>3, <3>1, <3>2 DEF Lifetimes
    <3>4. \A i \in 1 .. n : heard[i] \in Int
      <4>1. 0 .. LastHeard \subseteq Int
        OBVIOUS
      <4>2. heard \in Seq(0 .. LastHeard) /\ n = Len(heard)
        BY <2>1, <3>1
      <4>3. PICK S : S = 0 .. LastHeard
        OBVIOUS
      <4>4. \A i \in 1 .. n : heard[i] \in S
        BY <4>2, <4>3, ElementOfSeq
      <4> QED BY <4>1, <4>3, <4>4
    <3>5. lives = [i \in 1 .. (n - 1) |-> heard[i + 1] - heard[i]]
      BY <3>1
    <3>6. PICK l : l = lives
      OBVIOUS
    <3>7. l = [i \in 1 .. (n - 1) |-> heard[i + 1] - heard[i]]
      BY <3>5, <3>6
    <3>8. \A i \in 1 .. n - 1 : heard[i + 1] - heard[i] \in Int
      BY <3>4
    <3>9. l \in Seq(Int) /\ Len(l) = n - 1 /\ \A i \in 1 .. n - 1 : l[i] = heard[i + 1] - heard[i]
      BY <3>7, <3>8
    <3>10. PICK p \in Nat : p = n - 1 /\ m <= p
      BY <3>3
    <3>11. PICK last : last = SubSeq(l, p - m + 1, p)
      OBVIOUS
    <3>12. last \in Seq(Int) /\ Len(last) = m /\ \A i \in 1 .. m : last[i] = l[p - m + i]
      <4>1. p - m + 1 \in 1 .. p + 1 /\ p \in 0 .. Len(l)
        BY <3>9, <3>10
      <4>2. \A i \in p - m + 1 .. p : l[i] \in Int
        BY <3>9, <3>10
      <4>3. last \in Seq(Int) /\ Len(last) = p - (p - m + 1) + 1
            /\ \A i \in 1 .. p - (p - m + 1) + 1 : last[i] = l[p - m + 1 + i - 1]
        BY <3>9, <3>10, <3>11, <4>1, <4>2
      <4>4. p - (p - m + 1) + 1 = m /\ \A i \in 1 .. m : p - m + 1 + i - 1 = p - m + i
        BY <3>10
      <4> QED BY <4>3, <4>4
    <3>13. ASSUME NEW i \in 1 .. m PROVE durations[i] = last[i]
      <4>1. PICK j \in 1 .. n - 1 : j = p - m + i
        BY <3>3, <3>10
      <4>2. j + 1 = n - m + i /\ j = n - m + i - 1
        BY <3>10, <4>1
      <4>3. durations[i] = heard[n - m + i] - heard[n - m + i - 1]
        BY <3>3 DEF LastLives
      <4>4. last[i] = l[j] /\ l[j] = heard[j + 1] - heard[j]
        BY <3>9, <3>12, <4>1
      <4> QED BY <4>2, <4>3, <4>4, Zenon
    <3>14. durations = last
      <4>1. durations \in Seq(Int) /\ Len(durations) = Len(last)
        BY <2>1, <3>2, <3>12
      <4>2. \A i \in 1 .. Len(durations) : durations[i] = last[i]
        BY <3>2, <3>13
      <4> QED BY <3>12, <4>1, <4>2, SeqEqual
    <3>15. durations = SubSeq(lives, Len(lives) - Len(durations) + 1, Len(lives))
      BY <3>2, <3>6, <3>9, <3>10, <3>11, <3>14, Zenon
    <3>16. Len(lives) = p /\ Len(lives) >= Len(durations)
      BY <3>2, <3>6, <3>9, <3>10
    <3>17. Len(durations) = MaxHistory \/ Len(durations) = Len(heard) - 1
      BY <3>1, <3>2, <3>3
    <3> HIDE DEF lives
    <3> QED BY <3>15, <3>16, <3>17, Zenon DEF DurationsAreLifetimes, lives
  <2> QED BY <2>2, <2>3
<1>4. HypothesesAreNested
  <2>1. /\ fingerprint \in [lead : Nat, follow : Nat, moves : Nat, ticks : Nat, fresh : Nat]
        /\ durations \in Seq(Nat) /\ delays \in Seq(Nat)
        /\ MinSamples \in Nat /\ StickyAfter \in Nat /\ AggregatedAfter \in Nat /\ FilteredAfter \in Nat
        /\ StickyAfter <= AggregatedAfter /\ AggregatedAfter <= FilteredAfter
    BY DEF BehaviourInv, Hearing, Counting, Fingerprints, BehaviourLimits
  <2>2. ASSUME NEW s \in Seq(Nat), NEW a \in Nat, NEW b \in Nat, a <= b, AtLeast(s, b)
        PROVE  AtLeast(s, a)
    <3>1. Percentile(s, 50) \in Int /\ Percentile(s, 50) >= 100 * b /\ s # << >>
      BY <2>2, PercentileIsNumber DEF AtLeast
    <3> QED BY <2>2, <3>1 DEF AtLeast
  <2>3. QuoteFiltering => FeedAggregation /\ StickyPricing
    <3>1. StickyAfter <= FilteredAfter
      BY <2>1
    <3> QED BY <2>1, <2>2, <3>1 DEF QuoteFiltering, FeedAggregation, StickyPricing
  <2>4. FeedAggregation => StickyPricing \/ DelayedRepricing \/ 100 * fingerprint.fresh < 80 * fingerprint.ticks
    <3>1. AtLeast(durations, AggregatedAfter) => StickyPricing
      BY <2>1, <2>2 DEF StickyPricing
    <3>2. AtLeast(delays, 3) => AtLeast(delays, 1)
      BY <2>1, <2>2
    <3>3. 100 * fingerprint.follow >= 40 * fingerprint.moves => 100 * fingerprint.follow >= 35 * fingerprint.moves
      BY <2>1
    <3>4. 100 * fingerprint.fresh >= 80 * fingerprint.ticks \/ 100 * fingerprint.fresh < 80 * fingerprint.ticks
      BY <2>1
    <3> QED BY <3>1, <3>2, <3>3, <3>4 DEF FeedAggregation, DelayedRepricing
  <2>5. /\ "filtering" \in Hypotheses <=> fingerprint.ticks >= MinSamples /\ QuoteFiltering
        /\ "aggregation" \in Hypotheses <=> fingerprint.ticks >= MinSamples /\ FeedAggregation
        /\ "sticky" \in Hypotheses <=> fingerprint.ticks >= MinSamples /\ StickyPricing
        /\ "delayed" \in Hypotheses <=> fingerprint.ticks >= MinSamples /\ DelayedRepricing
        /\ Hypotheses # {} => fingerprint.ticks >= MinSamples
    <3>1. CASE fingerprint.ticks < MinSamples
      BY <2>1, <3>1 DEF Hypotheses
    <3>2. CASE ~(fingerprint.ticks < MinSamples)
      <4>1. fingerprint.ticks >= MinSamples
        BY <2>1, <3>2
      <4> QED BY <3>2, <4>1, Zenon DEF Hypotheses
    <3> QED BY <3>1, <3>2
  <2> QED BY <2>3, <2>4, <2>5, Zenon DEF HypothesesAreNested
<1> QED BY <1>1, <1>2, <1>3, <1>4 DEF BehaviourCorrect

\* For every feed, whatever quotes and moves come: the durations are the last lifetimes
\* of its prices, a lead is answered at most once, and the hypotheses nest
\* (persistence.rs, fingerprint.rs, hypothesis.rs).
THEOREM BehaviourIsCorrect == BehaviourLimits /\ BehaviourSpec => []BehaviourCorrect
<1> SUFFICES ASSUME BehaviourLimits PROVE BehaviourSpec => []BehaviourCorrect
  OBVIOUS
<1>1. BehaviourInit => BehaviourInv
  BY BehaviourStarts
<1>2. BehaviourInv /\ [BehaviourNext]_behaviourVars => BehaviourInv'
  BY BehaviourSteps
<1>3. BehaviourInv => BehaviourCorrect
  BY BehaviourInvImplies
<1> QED BY <1>1, <1>2, <1>3, PTL DEF BehaviourSpec

-----------------------------------------------------------------------------
(* Latencies (LatencyMetrics). *)

\* The last n elements of a sequence.
LastElements(s, m, n) == SubSeq(s, m - n + 1, m)

AreLast(g, S, s, m, n) ==
  g \in Seq(S) /\ Len(g) = n /\ \A i \in 1 .. n : g[i] = s[m - n + i]

LEMMA LastElementsAre ==
  ASSUME NEW S, NEW s \in Seq(S), NEW m \in Nat, m = Len(s), NEW n \in 0 .. m
  PROVE  AreLast(LastElements(s, m, n), S, s, m, n)
<1>1. PICK l \in Int : l = m - n + 1
  OBVIOUS
<1>2. PICK g : g = SubSeq(s, l, m)
  OBVIOUS
<1>3. \A i \in l .. m : s[i] \in S
  <2>1. ASSUME NEW i \in l .. m PROVE s[i] \in S
    <3>1. i \in 1 .. Len(s)
      BY <1>1
    <3> QED BY <3>1, ElementOfSeq
  <2> QED BY <2>1
<1>4. /\ g \in Seq(S) /\ Len(g) = IF l <= m THEN m - l + 1 ELSE 0
      /\ \A i \in 1 .. m - l + 1 : g[i] = s[l + i - 1]
  BY <1>2, <1>3, SubSeqProperties
<1>5. Len(g) = n /\ m - l + 1 = n
  BY <1>1, <1>4
<1>6. ASSUME NEW i \in 1 .. n PROVE g[i] = s[m - n + i]
  <2>1. g[i] = s[l + i - 1]
    BY <1>4, <1>5
  <2>2. l + i - 1 = m - n + i
    BY <1>1
  <2> QED BY <2>1, <2>2
<1>7. g = LastElements(s, m, n)
  BY <1>1, <1>2 DEF LastElements
<1> QED BY <1>4, <1>5, <1>6, <1>7 DEF AreLast

\* Where the k-th most recent sample is.
SlotOf(c, w, k) == IF k < w THEN w - 1 - k ELSE w - 1 - k + c

\* Recording moves every sample one place back.
NextIndex(c, w, w2) ==
  /\ c \in Nat \ {0} /\ w \in 0 .. c - 1 /\ w2 \in 0 .. c - 1
  /\ w2 = IF w + 1 < c THEN w + 1 ELSE 0

SlotsMoved(c, w, w2) ==
  /\ SlotOf(c, w2, 0) = w
  /\ \A j \in 0 .. c - 2 : /\ SlotOf(c, w2, j + 1) = SlotOf(c, w, j)
                          /\ SlotOf(c, w, j) \in 0 .. c - 1
                          /\ SlotOf(c, w, j) # w

LEMMA SlotsMove ==
  ASSUME NEW c, NEW w, NEW w2, NextIndex(c, w, w2)
  PROVE  SlotsMoved(c, w, w2)
<1>1. CASE w + 1 < c
  <2>1. w2 = w + 1
    BY <1>1 DEF NextIndex
  <2> QED BY <2>1 DEF SlotOf, NextIndex, SlotsMoved
<1>2. CASE ~(w + 1 < c)
  <2>1. w2 = 0 /\ w = c - 1
    BY <1>2 DEF NextIndex
  <2> QED BY <2>1 DEF SlotOf, NextIndex, SlotsMoved
<1> QED BY <1>1, <1>2

\* The samples that are shown: the k-th slot before w holds the k-th last of m samples.
Shows(b, s, c, w, n, m) == \A k \in 0 .. n - 1 : b[SlotOf(c, w, k)] = s[m - k]

\* The valid slots hold the most recent samples, the newest before the write index.
RingInv ==
  /\ ring \in [buffer : [0 .. RingCapacity - 1 -> Nat], write_idx : 0 .. RingCapacity - 1,
               valid_count : 0 .. RingCapacity, total_samples : Nat]
  /\ samples \in Seq(Nat) /\ ring.total_samples = Len(samples)
  /\ ring.valid_count = Remembered
  /\ ring.valid_count < RingCapacity => ring.write_idx = ring.valid_count
  /\ Shows(ring.buffer, samples, RingCapacity, ring.write_idx, ring.valid_count, Len(samples))

\* The mask of the write index, as a case.
LEMMA SlotAfter ==
  ASSUME NEW c \in Nat \ {0}, NEW i \in 0 .. c - 1
  PROVE  (i + 1) % c = IF i + 1 < c THEN i + 1 ELSE 0
<1>1. CASE i + 1 < c
  BY SMT, <1>1
<1>2. CASE ~(i + 1 < c)
  <2>1. i + 1 = c
    BY <1>2
  <2>2. c % c = 0
    BY SMT
  <2> QED BY <1>2, <2>1, <2>2
<1> QED BY <1>1, <1>2

LEMMA RingStarts ==
  ASSUME LatencyLimits, LatencyInit
  PROVE  RingInv
<1>1. RingCapacity \in Nat \ {0} /\ 0 \in 0 .. RingCapacity - 1 /\ 0 \in 0 .. RingCapacity
  BY DEF LatencyLimits
<1>2. Len(samples) = 0 /\ samples \in Seq(Nat) /\ Remembered = 0
  BY <1>1 DEF LatencyInit, Remembered
<1>3. ring \in [buffer : [0 .. RingCapacity - 1 -> Nat], write_idx : 0 .. RingCapacity - 1,
               valid_count : 0 .. RingCapacity, total_samples : Nat]
      /\ ring.write_idx = 0 /\ ring.valid_count = 0 /\ ring.total_samples = 0
  BY <1>1 DEF LatencyInit, EmptyRing
<1>4. \A k \in 0 .. ring.valid_count - 1 : FALSE
  BY <1>3
<1> QED BY <1>1, <1>2, <1>3, <1>4 DEF RingInv, Shows

LEMMA SampleRecorded ==
  ASSUME LatencyLimits, RingInv, NEW v \in Nat, ring' = Recorded(ring, v), samples' = Append(samples, v)
  PROVE  RingInv'
<1>1. PICK c \in Nat \ {0} : c = RingCapacity
  BY DEF LatencyLimits
<1>2. PICK w \in 0 .. c - 1, n \in 0 .. c, m \in Nat :
        w = ring.write_idx /\ n = ring.valid_count /\ m = Len(samples)
  BY <1>1 DEF RingInv
<1>3. PICK b \in [0 .. c - 1 -> Nat] : b = ring.buffer
  BY <1>1 DEF RingInv
<1>4. /\ samples \in Seq(Nat) /\ ring.total_samples = m /\ n = (IF m < c THEN m ELSE c)
      /\ n < c => w = n
      /\ Shows(b, samples, c, w, n, m)
  BY <1>1, <1>2, <1>3 DEF RingInv, Remembered
<1>5. PICK w2 \in 0 .. c - 1 : w2 = (IF w + 1 < c THEN w + 1 ELSE 0)
  BY <1>1, <1>2
<1>s. SlotsMoved(c, w, w2)
  BY <1>5, SlotsMove DEF NextIndex
<1>6. PICK n2 \in 0 .. c : n2 = (IF n < c THEN n + 1 ELSE n)
  BY <1>1, <1>2
<1>7. PICK b2 \in [0 .. c - 1 -> Nat] : b2 = [b EXCEPT ![w] = v]
  BY <1>2, <1>3
<1>8. ring' = [buffer |-> b2, write_idx |-> w2, total_samples |-> m + 1, valid_count |-> n2]
  BY <1>1, <1>2, <1>3, <1>4, <1>5, <1>6, <1>7, SlotAfter DEF Recorded, NextSlot
<1>9. /\ ring'.buffer = b2 /\ ring'.write_idx = w2 /\ ring'.total_samples = m + 1 /\ ring'.valid_count = n2
      /\ ring' \in [buffer : [0 .. RingCapacity - 1 -> Nat], write_idx : 0 .. RingCapacity - 1,
                    valid_count : 0 .. RingCapacity, total_samples : Nat]
  BY <1>1, <1>2, <1>8, SMTT(30)
<1>10. /\ samples' \in Seq(Nat) /\ Len(samples') = m + 1 /\ samples'[m + 1] = v
       /\ \A i \in 1 .. m : samples'[i] = samples[i]
  BY <1>2, <1>4
<1>11. n2 = IF m + 1 < c THEN m + 1 ELSE c
  BY <1>2, <1>4, <1>6
<1>12. n2 < c => w2 = n2
  BY <1>4, <1>5, <1>6
<1>13. ASSUME NEW k \in 0 .. n2 - 1 PROVE b2[SlotOf(c, w2, k)] = samples'[m + 1 - k]
  <2>1. CASE k = 0
    <3>1. SlotOf(c, w2, k) = w
      BY <2>1, <1>s DEF SlotsMoved
    <3>2. m + 1 - k = m + 1
      BY <1>2, <2>1
    <3> QED BY <1>2, <1>7, <1>10, <3>1, <3>2
  <2>2. CASE k # 0
    <3>1. PICK j \in 0 .. n - 1 : j = k - 1
      BY <1>6, <2>2
    <3>2. PICK s \in 0 .. c - 1 : s = SlotOf(c, w, j) /\ s = SlotOf(c, w2, k) /\ s # w
      <4>1. j \in 0 .. c - 2 /\ k = j + 1
        BY <1>6, <2>2, <3>1
      <4> QED BY <4>1, <1>s DEF SlotsMoved
    <3>3. b2[s] = b[s] /\ b[s] = samples[m - j]
      BY <1>4, <1>7, <3>1, <3>2 DEF Shows
    <3>4. m - j \in 1 .. m /\ m + 1 - k = m - j
      BY <1>2, <1>4, <3>1
    <3> QED BY <1>10, <3>2, <3>3, <3>4
  <2> QED BY <2>1, <2>2
<1>14. /\ ring'.valid_count = Remembered'
       /\ ring'.valid_count < RingCapacity => ring'.write_idx = ring'.valid_count
  BY <1>1, <1>9, <1>10, <1>11, <1>12 DEF Remembered
<1>15. Shows(ring'.buffer, samples', RingCapacity, ring'.write_idx, ring'.valid_count, Len(samples'))
  <2>1. PICK s2 : s2 = samples'
    OBVIOUS
  <2>2. \A k \in 0 .. n2 - 1 : b2[SlotOf(c, w2, k)] = s2[m + 1 - k]
    BY <1>13, <2>1
  <2>3. Shows(b2, s2, c, w2, n2, m + 1)
    BY <2>2 DEF Shows
  <2> QED BY <1>1, <1>9, <1>10, <2>1, <2>3
<1>16. ring'.total_samples = Len(samples')
  BY <1>9, <1>10
<1> QED BY <1>9, <1>10, <1>14, <1>15, <1>16 DEF RingInv

LEMMA RingSteps ==
  ASSUME LatencyLimits, RingInv, [LatencyNext]_latencyVars
  PROVE  RingInv'
<1>1. ASSUME NEW from \in Stamps, NEW to \in Stamps, RecordStage(from, to) PROVE RingInv'
  <2>1. Elapsed(from, to) \in Nat
    BY DEF Elapsed, LatencyLimits
  <2> QED BY <1>1, <2>1, SampleRecorded DEF RecordStage
<1>2. CASE ClearMetrics
  <2>1. RingCapacity \in Nat \ {0} /\ 0 \in 0 .. RingCapacity - 1 /\ 0 \in 0 .. RingCapacity
    BY DEF LatencyLimits
  <2>2. samples' = << >> /\ Len(samples') = 0 /\ samples' \in Seq(Nat)
    BY <1>2 DEF ClearMetrics
  <2>3. ring' = [buffer |-> ring.buffer, write_idx |-> 0, valid_count |-> 0, total_samples |-> 0]
    BY <1>2 DEF ClearMetrics, Cleared, RingInv
  <2>4. ring.buffer \in [0 .. RingCapacity - 1 -> Nat]
    BY DEF RingInv
  <2>5. ring' \in [buffer : [0 .. RingCapacity - 1 -> Nat], write_idx : 0 .. RingCapacity - 1,
                   valid_count : 0 .. RingCapacity, total_samples : Nat]
        /\ ring'.write_idx = 0 /\ ring'.valid_count = 0 /\ ring'.total_samples = 0
    BY <2>1, <2>3, <2>4
  <2>6. Remembered' = 0
    BY <2>1, <2>2 DEF Remembered
  <2>7. \A k \in 0 .. ring'.valid_count - 1 : FALSE
    BY <2>5
  <2> QED BY <2>1, <2>2, <2>5, <2>6, <2>7 DEF RingInv, Shows
<1>3. CASE UNCHANGED latencyVars
  BY <1>3 DEF latencyVars, RingInv, Remembered
<1> QED BY <1>1, <1>2, <1>3 DEF LatencyNext, RecordPipelineStage

\* Which of the n recent samples the i-th slot of the window holds.
PlaceIn(c, w, n, i) == IF n < c THEN i ELSE IF i <= w THEN n - w + i ELSE i - w

SlotFor(c, w, n, j) == IF n < c THEN j ELSE IF j > n - w THEN j - (n - w) ELSE j + w

WellPlaced(c, w, n) ==
  /\ \A i \in 1 .. n : /\ PlaceIn(c, w, n, i) \in 1 .. n
                      /\ SlotOf(c, w, n - PlaceIn(c, w, n, i)) = i - 1
  /\ \A i, j \in 1 .. n : PlaceIn(c, w, n, i) = PlaceIn(c, w, n, j) => i = j
  /\ \A j \in 1 .. n : \E i \in 1 .. n : PlaceIn(c, w, n, i) = j

LEMMA SlotsPlaced ==
  ASSUME NEW c \in Nat \ {0}, NEW w \in 0 .. c - 1, NEW n \in 0 .. c, n < c => w = n
  PROVE  WellPlaced(c, w, n)
<1>1. CASE n < c
  <2>1. \A i \in 1 .. n : PlaceIn(c, w, n, i) = i /\ SlotOf(c, w, n - i) = i - 1
    BY <1>1 DEF PlaceIn, SlotOf
  <2> QED BY <2>1 DEF WellPlaced
<1>2. CASE ~(n < c)
  <2>1. n = c
    BY <1>2
  <2>2. ASSUME NEW i \in 1 .. n
        PROVE  PlaceIn(c, w, n, i) \in 1 .. n /\ SlotOf(c, w, n - PlaceIn(c, w, n, i)) = i - 1
    <3>1. CASE i <= w
      <4>1. PlaceIn(c, w, n, i) = n - w + i /\ n - (n - w + i) = w - i /\ w - i < w
        BY <2>1, <3>1 DEF PlaceIn
      <4>2. SlotOf(c, w, w - i) = i - 1 /\ n - w + i \in 1 .. n
        BY <2>1, <3>1 DEF SlotOf
      <4> QED BY <4>1, <4>2
    <3>2. CASE ~(i <= w)
      <4>1. PlaceIn(c, w, n, i) = i - w /\ n - (i - w) = n - i + w /\ ~(n - i + w < w)
        BY <2>1, <3>2 DEF PlaceIn
      <4>2. SlotOf(c, w, n - i + w) = i - 1 /\ i - w \in 1 .. n
        BY <2>1, <3>2 DEF SlotOf
      <4> QED BY <4>1, <4>2
    <3> QED BY <3>1, <3>2
  <2>3. ASSUME NEW i \in 1 .. n, NEW j \in 1 .. n, PlaceIn(c, w, n, i) = PlaceIn(c, w, n, j)
        PROVE  i = j
    BY <2>1, <2>3 DEF PlaceIn
  <2>4. ASSUME NEW j \in 1 .. n PROVE \E i \in 1 .. n : PlaceIn(c, w, n, i) = j
    <3>1. PICK i \in 1 .. n : i = SlotFor(c, w, n, j)
      <4>1. SlotFor(c, w, n, j) = (IF j > n - w THEN j - (n - w) ELSE j + w)
        BY <2>1 DEF SlotFor
      <4>2. j > n - w => j - (n - w) \in 1 .. n
        BY <2>1
      <4>3. ~(j > n - w) => j + w \in 1 .. n
        BY <2>1
      <4> QED BY <4>1, <4>2, <4>3
    <3>2. PlaceIn(c, w, n, i) = j
      BY <2>1, <3>1 DEF SlotFor, PlaceIn
    <3> QED BY <3>2
  <2> QED BY <2>2, <2>3, <2>4 DEF WellPlaced
<1> QED BY <1>1, <1>2

\* The window, and the samples it stands for.
LEMMA WindowIsRecent ==
  ASSUME LatencyLimits, RingInv
  PROVE  RingHoldsMostRecent
<1>1. PICK c \in Nat \ {0} : c = RingCapacity
  BY DEF LatencyLimits
<1>2. PICK w \in 0 .. c - 1, n \in 0 .. c, m \in Nat :
        w = ring.write_idx /\ n = ring.valid_count /\ m = Len(samples)
  BY <1>1 DEF RingInv
<1>3. PICK b \in [0 .. c - 1 -> Nat] : b = ring.buffer
  BY <1>1 DEF RingInv
<1>4. /\ samples \in Seq(Nat) /\ n = (IF m < c THEN m ELSE c) /\ n = Remembered
      /\ n < c => w = n
      /\ Shows(b, samples, c, w, n, m)
  BY <1>1, <1>2, <1>3 DEF RingInv, Remembered
<1>5. PICK f : f = [i \in 1 .. n |-> b[i - 1]]
  OBVIOUS
<1>6. PICK g : g = LastElements(samples, m, n)
  OBVIOUS
<1>7. g \in Seq(Nat) /\ Len(g) = n /\ \A i \in 1 .. n : g[i] = samples[m - n + i]
  <2>1. n \in 0 .. m /\ samples \in Seq(Nat) /\ m = Len(samples)
    BY <1>2, <1>4
  <2>2. AreLast(LastElements(samples, m, n), Nat, samples, m, n)
    BY <2>1, LastElementsAre
  <2> QED BY <1>6, <2>2 DEF AreLast
<1>8. DOMAIN f = 1 .. n /\ \A i \in 1 .. n : f[i] = b[i - 1] /\ f[i] \in Nat
  BY <1>2, <1>3, <1>5
<1>9. Numbering(f) /\ Numbering(g)
  <2>1. IsFiniteSet(1 .. n) /\ 1 .. n \subseteq Int
    BY FS_Interval
  <2>2. f \in [1 .. n -> Int]
    BY <1>5, <1>8
  <2>3. DOMAIN g = 1 .. n /\ g \in [1 .. n -> Int]
    BY <1>7
  <2> QED BY <1>8, <2>1, <2>2, <2>3 DEF Numbering
\* The sample of a slot.
<1> DEFINE h == [i \in 1 .. n |-> PlaceIn(c, w, n, i)]
<1>10. WellPlaced(c, w, n)
  BY <1>2, <1>4, SlotsPlaced
<1>13. h \in Bijection(DOMAIN f, DOMAIN g)
  <2>1. DOMAIN g = 1 .. n
    BY <1>7
  <2>2. h \in [1 .. n -> 1 .. n] /\ \A i, j \in 1 .. n : h[i] = h[j] => i = j
    BY <1>10 DEF WellPlaced
  <2>3. \A j \in 1 .. n : \E i \in 1 .. n : h[i] = j
    BY <1>10 DEF WellPlaced
  <2> HIDE DEF h
  <2> QED BY <1>8, <2>1, <2>2, <2>3 DEF Bijection, Injection, Surjection, IsInjective
<1>14. ASSUME NEW i \in 1 .. n PROVE g[h[i]] = f[i]
  <2>1. PICK x \in 1 .. n : x = h[i] /\ x = PlaceIn(c, w, n, i)
    BY <1>10 DEF WellPlaced
  <2>2. PICK k \in 0 .. n - 1 : k = n - x
    OBVIOUS
  <2>3. SlotOf(c, w, k) = i - 1
    BY <1>10, <2>1, <2>2 DEF WellPlaced
  <2>4. m - n + x = m - k
    BY <2>2
  <2>5. g[x] = samples[m - k]
    BY <1>7, <2>4
  <2> QED BY <1>4, <1>8, <2>1, <2>2, <2>3, <2>5 DEF Shows
<1>15. Ascending(f) = Ascending(g)
  <2> HIDE DEF h
  <2> QED BY <1>8, <1>9, <1>13, <1>14, SameAscending
<1>16. SortedWindow(ring) = Ascending(f)
  BY <1>2, <1>3, <1>5 DEF SortedWindow
<1> QED BY <1>2, <1>4, <1>6, <1>15, <1>16, Zenon DEF RingHoldsMostRecent, LastElements

\* The ascending numbers ascend.
LEMMA AscendingAscends ==
  ASSUME NEW f, Numbering(f), NEW i \in 1 .. Cardinality(DOMAIN f), NEW j \in 1 .. Cardinality(DOMAIN f), i <= j
  PROVE  Ascending(f)[i] <= Ascending(f)[j]
<1>1. PICK x \in DOMAIN f : PlaceOf(f, x) = i /\ Ascending(f)[i] = f[x]
  BY KeyAt
<1>2. PICK y \in DOMAIN f : PlaceOf(f, y) = j /\ Ascending(f)[j] = f[y]
  BY KeyAt
<1> QED BY <1>1, <1>2, PlacesDiffer

LEMMA RankIsNearest ==
  ASSUME LatencyLimits, RingInv
  PROVE  PercentileIsNearestRank
<1>1. PICK n \in Nat : n = ring.valid_count
  BY DEF LatencyLimits, RingInv
<1>2. PICK b \in [0 .. RingCapacity - 1 -> Nat] : b = ring.buffer
  BY DEF RingInv
<1>3. PICK f : f = [i \in 1 .. n |-> b[i - 1]]
  OBVIOUS
<1>4. n <= RingCapacity /\ RingCapacity \in Nat
  BY <1>1 DEF RingInv, LatencyLimits
<1>5. Numbering(f) /\ Cardinality(DOMAIN f) = n
  <2>1. IsFiniteSet(1 .. n) /\ Cardinality(1 .. n) = n /\ 1 .. n \subseteq Int
    BY FS_Interval
  <2>2. f \in [1 .. n -> Int] /\ DOMAIN f = 1 .. n
    BY <1>2, <1>3, <1>4
  <2> QED BY <2>1, <2>2 DEF Numbering
<1>6. PICK w : w = Ascending(f) /\ w = SortedWindow(ring)
  BY <1>1, <1>2, <1>3 DEF SortedWindow
<1>7. /\ \A i \in 1 .. n : w[i] \in Int
      /\ \A i, j \in 1 .. n : i <= j => w[i] <= w[j]
  BY <1>5, <1>6, KeyAt, AscendingAscends
<1>8. ASSUME NEW pct \in {50, 95, 99}, n # 0
      PROVE  LET p == PercentileAt(ring, pct) IN
             /\ \E i \in 1 .. n : w[i] = p
             /\ 100 * Cardinality(NotAbove(w, n, p)) >= pct * n
             /\ \A i \in 1 .. n : 100 * Cardinality(NotAbove(w, n, w[i])) >= pct * n => p <= w[i]
  <2>1. PICK q \in {50, 95, 99} : q = pct
    OBVIOUS
  <2>2. PICK x \in Nat : x = n * q
    OBVIOUS
  <2>3. PICK r \in Int : r = (x + 99) \div 100
    BY SMT
  <2>4. x <= 100 * n /\ x >= 50 * n
    BY <2>1, <2>2
  <2>5. r \in 1 .. n /\ 100 * r >= x /\ 100 * (r - 1) < x
    <3>1. 100 * r <= x + 99 /\ x + 99 < 100 * r + 100
      BY SMT, <2>2, <2>3
    <3> QED BY <1>8, <2>4, <3>1
  <2>6. PICK p : p = PercentileAt(ring, pct)
    OBVIOUS
  <2>7. p = w[r]
    <3>1. Rank(n, pct) = r
      BY <2>1, <2>2, <2>3 DEF Rank
    <3> QED BY <1>1, <1>6, <1>8, <2>5, <2>6, <3>1 DEF PercentileAt
  <2>8. x = pct * n
    BY <2>1, <2>2
  <2>9. ASSUME NEW v PROVE IsFiniteSet(NotAbove(w, n, v)) /\ Cardinality(NotAbove(w, n, v)) \in Nat
    <3>1. IsFiniteSet(1 .. n) /\ NotAbove(w, n, v) \subseteq 1 .. n
      BY FS_Interval DEF NotAbove
    <3> QED BY <3>1, FS_Subset, FS_CardinalityType
  <2>10. Cardinality(NotAbove(w, n, p)) >= r
    <3>1. 1 .. r \subseteq NotAbove(w, n, p)
      BY <1>7, <2>5, <2>7 DEF NotAbove
    <3>2. Cardinality(1 .. r) = r
      BY <2>5, FS_Interval
    <3> QED BY <2>5, <2>9, <3>1, <3>2, FS_Subset
  <2>11. ASSUME NEW i \in 1 .. n, 100 * Cardinality(NotAbove(w, n, w[i])) >= x PROVE p <= w[i]
    <3>1. SUFFICES ASSUME ~(p <= w[i]) PROVE FALSE
      OBVIOUS
    <3>2. NotAbove(w, n, w[i]) \subseteq 1 .. r - 1
      <4>1. ASSUME NEW j \in 1 .. n, w[j] <= w[i] PROVE j <= r - 1
        <5>1. ~(r <= j)
          BY <1>7, <2>5, <2>7, <3>1, <4>1
        <5> QED BY <2>5, <5>1
      <4> QED BY <4>1 DEF NotAbove
    <3>3. Cardinality(1 .. r - 1) = r - 1 /\ IsFiniteSet(1 .. r - 1)
      BY <2>5, FS_Interval
    <3>4. Cardinality(NotAbove(w, n, w[i])) <= r - 1
      BY <2>5, <3>2, <3>3, FS_Subset
    <3> QED BY <2>5, <2>9, <2>11, <3>4
  <2>12. 100 * Cardinality(NotAbove(w, n, p)) >= x
    BY <2>5, <2>9, <2>10
  <2>13. \E i \in 1 .. n : w[i] = p
    BY <2>5, <2>7
  <2> QED BY <2>6, <2>8, <2>11, <2>12, <2>13
<1> QED BY <1>1, <1>6, <1>8, SMTT(30) DEF PercentileIsNearestRank

\* Whatever is recorded and however often the ring is cleared, it holds the most recent
\* samples and its percentiles are the nearest ranks (latency.rs).
THEOREM LatencyIsCorrect == LatencyLimits /\ LatencySpec => []LatencyCorrect
<1> SUFFICES ASSUME LatencyLimits PROVE LatencySpec => []LatencyCorrect
  OBVIOUS
<1>1. LatencyInit => RingInv
  BY RingStarts
<1>2. RingInv /\ [LatencyNext]_latencyVars => RingInv'
  BY RingSteps
<1>3. RingInv => LatencyTypeOK
  BY DEF RingInv, LatencyTypeOK
<1>4. RingInv => LatencyCorrect
  BY <1>3, WindowIsRecent, RankIsNearest DEF LatencyCorrect
<1> QED BY <1>1, <1>2, <1>4, PTL DEF LatencySpec

-----------------------------------------------------------------------------
(* The consensus (Consensus). *)

QuoteRecords == [bid : Bids, spread : Spreads, rx : 0 .. LastTick]

QuotesInv ==
  /\ at \in 0 .. LastTick
  /\ DOMAIN quotes \subseteq Panel /\ quotes \in [DOMAIN quotes -> QuoteRecords]
  /\ \A b \in DOMAIN quotes : quotes[b].rx <= at

LEMMA QuotesSteps ==
  ASSUME ConsensusLimits, QuotesInv, [ConsensusNext]_consensusVars
  PROVE  QuotesInv'
<1>1. ASSUME NEW b \in Panel, NEW bid \in Bids, NEW spread \in Spreads, NEW step \in 0 .. 1,
             at + step <= LastTick, at' = at + step,
             quotes' = [c \in DOMAIN quotes \cup {b} |->
                          IF c = b THEN [bid |-> bid, spread |-> spread, rx |-> at'] ELSE quotes[c]]
      PROVE  QuotesInv'
  <2>1. at' \in 0 .. LastTick /\ at <= at' /\ at \in 0 .. LastTick /\ LastTick \in Nat
    BY <1>1 DEF QuotesInv, ConsensusLimits
  <2>2. PICK n : n = at'
    OBVIOUS
  <2>3. PICK q : q = [bid |-> bid, spread |-> spread, rx |-> n]
    OBVIOUS
  <2>4. q \in QuoteRecords /\ q.rx = n
    BY <2>1, <2>2, <2>3 DEF QuoteRecords
  <2>5. PICK D : D = DOMAIN quotes \cup {b} /\ D \subseteq Panel
    BY DEF QuotesInv
  <2>6. quotes' = [c \in D |-> IF c = b THEN q ELSE quotes[c]]
    BY <1>1, <2>2, <2>3, <2>5
  <2>7. DOMAIN quotes' = D
    BY <2>6
  <2>8. ASSUME NEW c \in D PROVE quotes'[c] \in QuoteRecords /\ quotes'[c].rx <= at'
    <3>1. CASE c = b
      BY <2>1, <2>2, <2>4, <2>6, <3>1
    <3>2. CASE c # b
      <4>1. c \in DOMAIN quotes /\ quotes'[c] = quotes[c]
        BY <2>5, <2>6, <3>2
      <4>2. quotes[c] \in QuoteRecords /\ quotes[c].rx <= at
        BY <4>1 DEF QuotesInv
      <4>3. quotes[c].rx \in Nat
        BY <2>1, <4>2 DEF QuoteRecords
      <4> QED BY <2>1, <4>1, <4>2, <4>3
    <3> QED BY <3>1, <3>2
  <2>9. quotes' \in [D -> QuoteRecords]
    BY <2>6, <2>8
  <2> QED BY <2>1, <2>5, <2>7, <2>8, <2>9 DEF QuotesInv
<1>2. CASE UNCHANGED consensusVars
  BY <1>2 DEF consensusVars, QuotesInv
<1> QED BY <1>1, <1>2 DEF ConsensusNext, QuoteArrives

\* The fresh quotes are finitely many, their prices numbers.
LEMMA FreshAre ==
  ASSUME ConsensusLimits, QuotesInv
  PROVE  /\ FreshNow \subseteq DOMAIN quotes /\ FreshNow \subseteq Int /\ IsFiniteSet(FreshNow)
         /\ Cardinality(FreshNow) \in Nat
         /\ \A b \in FreshNow : quotes[b] \in QuoteRecords /\ quotes[b].bid \in Int
                                /\ Ask(quotes[b]) \in Int /\ quotes[b].bid <= Ask(quotes[b])
                                /\ Mid(quotes[b]) \in Int
<1>1. FreshNow \subseteq DOMAIN quotes /\ DOMAIN quotes \subseteq Panel /\ Panel \subseteq Int /\ IsFiniteSet(Panel)
  BY DEF FreshNow, FreshQuotes, QuotesInv, ConsensusLimits
<1>2. IsFiniteSet(FreshNow) /\ Cardinality(FreshNow) \in Nat
  BY <1>1, FS_Subset, FS_CardinalityType
<1>3. ASSUME NEW b \in FreshNow
      PROVE  quotes[b] \in QuoteRecords /\ quotes[b].bid \in Int
             /\ Ask(quotes[b]) \in Int /\ quotes[b].bid <= Ask(quotes[b]) /\ Mid(quotes[b]) \in Int
  <2>1. quotes[b] \in QuoteRecords
    BY <1>1 DEF QuotesInv
  <2>2. PICK x \in Int, y \in Nat : x = quotes[b].bid /\ y = quotes[b].spread
    BY <2>1 DEF QuoteRecords, ConsensusLimits
  <2> QED BY <2>1, <2>2 DEF Ask, Mid
<1> QED BY <1>1, <1>2, <1>3

\* Half of a number and what is left.
LEMMA Halved ==
  ASSUME NEW n \in Nat
  PROVE  \E p \in Nat : p = n \div 2 /\ (n % 2 = 1 => n = 2 * p + 1) /\ (n % 2 # 1 => n = 2 * p)
<1>1. n \div 2 \in Nat /\ (n % 2 = 1 => n = 2 * (n \div 2) + 1) /\ (n % 2 # 1 => n = 2 * (n \div 2))
  BY SMT
<1> QED BY <1>1

\* The middle of numbers is a number.
LEMMA MiddleIsNumber ==
  ASSUME NEW f, Numbering(f), DOMAIN f # {}
  PROVE  Middle(f) \in Int
<1>1. PICK n \in Nat : n = Cardinality(DOMAIN f) /\ n # 0
  BY FS_CardinalityType, FS_EmptySet DEF Numbering
<1>2. PICK p \in Nat : p = n \div 2 /\ (n % 2 = 1 => n = 2 * p + 1) /\ (n % 2 # 1 => n = 2 * p)
  BY Halved
<1>3. PICK s : s = Ascending(f)
  OBVIOUS
<1>4. \A k \in 1 .. n : s[k] \in Int
  BY <1>1, <1>3, KeyAt
<1>5. CASE n % 2 = 1
  <2>1. p + 1 \in 1 .. n
    BY <1>2, <1>5
  <2>2. Middle(f) = 2 * s[p + 1]
    BY <1>1, <1>2, <1>3, <1>5 DEF Middle
  <2>3. s[p + 1] \in Int
    BY <1>4, <2>1
  <2> QED BY <2>2, <2>3
<1>6. CASE n % 2 # 1
  <2>1. p \in 1 .. n /\ p + 1 \in 1 .. n
    BY <1>1, <1>2, <1>6
  <2>2. Middle(f) = s[p] + s[p + 1]
    BY <1>1, <1>2, <1>3, <1>6 DEF Middle
  <2>3. s[p] \in Int /\ s[p + 1] \in Int
    BY <1>4, <2>1
  <2> QED BY <2>2, <2>3
<1> QED BY <1>5, <1>6

\* What lies beyond the k-th number.
LEMMA FewBeyond ==
  ASSUME NEW f, Numbering(f), NEW k \in 1 .. Cardinality(DOMAIN f),
         NEW O \in SUBSET DOMAIN f, \A i \in O : Ascending(f)[k] < f[i]
  PROVE  Cardinality(O) \in Nat /\ Cardinality(O) <= Cardinality(DOMAIN f) - k
<1>1. PICK v \in Int : v = Ascending(f)[k] /\ IsNumber(f, k, v)
  BY KeyAt, AscendingNumber
<1>2. k <= Cardinality(NotLarger(f, v)) /\ IsFiniteSet(NotLarger(f, v)) /\ NotLarger(f, v) \subseteq DOMAIN f
      /\ Cardinality(NotLarger(f, v)) \in Nat
  BY <1>1, CountsFinite DEF IsNumber, NotLarger
<1>3. O \subseteq DOMAIN f \ NotLarger(f, v)
  BY <1>1 DEF NotLarger, Numbering
<1>4. PICK D : D = DOMAIN f
  OBVIOUS
<1>5. IsFiniteSet(D) /\ Cardinality(D) \in Nat
  BY <1>4, FS_CardinalityType DEF Numbering
<1>6. NotLarger(f, v) \in SUBSET D
  BY <1>2, <1>4
<1>7. IsFiniteSet(D \ NotLarger(f, v)) /\ Cardinality(D \ NotLarger(f, v)) = Cardinality(D) - Cardinality(NotLarger(f, v))
  <2>1. D \cap NotLarger(f, v) = NotLarger(f, v)
    BY <1>6
  <2> QED BY <1>2, <1>5, <2>1, FS_Difference
<1>8. IsFiniteSet(O) /\ Cardinality(O) \in Nat /\ Cardinality(O) <= Cardinality(D \ NotLarger(f, v))
  BY <1>3, <1>4, <1>7, FS_Subset, FS_CardinalityType
<1> QED BY <1>2, <1>4, <1>5, <1>7, <1>8

\* A multiple of a number that is not negative.
LEMMA AtLeastTwice ==
  ASSUME NEW k \in Nat, k >= 2, NEW a \in Nat
  PROVE  k * a \in Nat /\ k * a >= 2 * a
<1>1. PICK j \in Nat : j = k - 2
  OBVIOUS
<1>2. j * a \in Nat
  BY SMT
<1>3. k * a = j * a + 2 * a
  BY <1>1, SMT
<1> QED BY <1>2, <1>3

\* The deviations from the middle by more than twice the middle deviation are few.
LEMMA FewOutliers ==
  ASSUME ConsensusLimits, QuotesInv
  PROVE  OutliersAreAMinority
<1>1. PICK F : F = FreshNow
  OBVIOUS
<1>2. /\ F \subseteq DOMAIN quotes /\ F \subseteq Int /\ IsFiniteSet(F) /\ Cardinality(F) \in Nat
      /\ \A b \in F : Mid(quotes[b]) \in Int
  BY <1>1, FreshAre
<1>3. SUFFICES ASSUME F # {} PROVE 2 * Cardinality(Outliers(F)) < Cardinality(F)
  BY <1>1 DEF OutliersAreAMinority
<1>4. PICK n \in Nat : n = Cardinality(F) /\ n # 0
  BY <1>2, <1>3, FS_EmptySet
<1>5. ConsensusMid(F) \in Int
  <2>1. DOMAIN FreshMids(F) = F /\ FreshMids(F) \in [F -> Int]
    BY <1>2 DEF FreshMids
  <2>2. Numbering(FreshMids(F))
    BY <1>2, <2>1 DEF Numbering
  <2> QED BY <1>3, <2>1, <2>2, MiddleIsNumber DEF ConsensusMid
<1>6. \A b \in F : AbsDeviation(F, b) \in Nat
  <2>1. ASSUME NEW b \in F PROVE AbsDeviation(F, b) \in Nat
    <3>1. PICK x \in Int : x = Deviation(F, b)
      BY <1>2, <1>5 DEF Deviation
    <3> QED BY <3>1 DEF AbsDeviation
  <2> QED BY <2>1
<1>7. PICK f : f = AbsDeviations(F)
  OBVIOUS
<1>8. DOMAIN f = F /\ Numbering(f) /\ \A b \in F : f[b] = AbsDeviation(F, b) /\ f[b] \in Nat
  <2>1. f \in [F -> Nat] /\ DOMAIN f = F
    BY <1>6, <1>7 DEF AbsDeviations
  <2>2. f \in [F -> Int]
    BY <2>1
  <2> QED BY <1>2, <1>6, <1>7, <2>1, <2>2 DEF AbsDeviations, Numbering
<1>9. CASE ~HasMad(F) \/ MedianAbsDeviation(F) = 0
  <2>1. Outliers(F) = {}
    BY <1>9 DEF Outliers
  <2> QED BY <1>4, <2>1, FS_EmptySet
<1>10. CASE ~(~HasMad(F) \/ MedianAbsDeviation(F) = 0)
  <2>1. PICK O : O = Outliers(F)
    OBVIOUS
  <2>2. O = {b \in F : BeyondMad(F, b)}
    BY <1>10, <2>1 DEF Outliers
  <2>3. PICK s : s = Ascending(f) /\ MedianAbsDeviation(F) = Middle(f)
    BY <1>7 DEF MedianAbsDeviation
  <2>4. \A k \in 1 .. n : s[k] \in Nat
    <3>1. ASSUME NEW k \in 1 .. n PROVE s[k] \in Nat
      <4>1. k \in 1 .. Cardinality(DOMAIN f)
        BY <1>4, <1>8
      <4> QED BY <1>8, <2>3, <4>1, KeyAt
    <3> QED BY <3>1
  <2>5. PICK p \in Nat : p = n \div 2 /\ (n % 2 = 1 => n = 2 * p + 1) /\ (n % 2 # 1 => n = 2 * p)
    BY Halved
  <2>6. PICK m \in Nat : m = MedianAbsDeviation(F) /\ m # 0
                         /\ (n % 2 = 1 => m = 2 * s[p + 1]) /\ (n % 2 # 1 => m = s[p] + s[p + 1])
    <3>1. CASE n % 2 = 1
      <4>1. p + 1 \in 1 .. n
        BY <2>5, <3>1
      <4>2. s[p + 1] \in Nat
        BY <2>4, <4>1
      <4>3. Middle(f) = 2 * s[p + 1]
        BY <1>4, <1>8, <2>3, <2>5, <3>1 DEF Middle
      <4> QED BY <1>10, <2>3, <3>1, <4>2, <4>3
    <3>2. CASE n % 2 # 1
      <4>1. p \in 1 .. n /\ p + 1 \in 1 .. n
        BY <1>4, <2>5, <3>2
      <4>2. s[p] \in Nat /\ s[p + 1] \in Nat
        BY <2>4, <4>1
      <4>3. Middle(f) = s[p] + s[p + 1]
        BY <1>4, <1>8, <2>3, <2>5, <3>2 DEF Middle
      <4> QED BY <1>10, <2>3, <3>2, <4>2, <4>3
    <3> QED BY <3>1, <3>2
  <2>7. p + 1 \in 1 .. n
    BY <1>4, <2>5
  <2>8. PICK t \in Nat : t = s[p + 1]
    BY <2>4, <2>7
  <2>9. m >= t
    <3>1. CASE n % 2 = 1
      BY <2>6, <2>8, <3>1
    <3>2. CASE n % 2 # 1
      <4>1. p \in 1 .. n
        BY <1>4, <2>5, <3>2
      <4>2. s[p] \in Nat
        BY <2>4, <4>1
      <4> QED BY <2>6, <2>8, <3>2, <4>2
    <3> QED BY <3>1, <3>2
  <2>10. ASSUME NEW b \in O PROVE t < f[b]
    <3>1. MadMultiplier * m < 2 * f[b] /\ f[b] \in Nat
      BY <1>8, <2>2, <2>6 DEF BeyondMad
    <3>2. PICK x \in Nat : x = MadMultiplier * m /\ x >= 2 * m
      BY AtLeastTwice DEF ConsensusLimits
    <3> QED BY <2>8, <2>9, <3>1, <3>2
  <2>11. O \in SUBSET DOMAIN f /\ \A b \in O : Ascending(f)[p + 1] < f[b]
    BY <1>8, <2>2, <2>3, <2>8, <2>10
  <2>12. Cardinality(O) \in Nat /\ Cardinality(O) <= n - (p + 1)
    <3>1. p + 1 \in 1 .. Cardinality(DOMAIN f) /\ Cardinality(DOMAIN f) = n
      BY <1>4, <1>8, <2>7
    <3> QED BY <1>8, <2>11, <3>1, FewBeyond
  <2>13. 2 * (n - (p + 1)) < n
    BY <1>4, <2>5
  <2> QED BY <1>4, <2>1, <2>12, <2>13
<1> QED BY <1>9, <1>10

\* Finitely many numbers, not none, have a greatest and a least.
LEMMA GreatestAndLeast ==
  ASSUME NEW f, Numbering(f), DOMAIN f # {}, NEW S, S = {f[i] : i \in DOMAIN f}
  PROVE  /\ Max(S) \in S /\ \A x \in S : x <= Max(S)
         /\ Min(S) \in S /\ \A x \in S : Min(S) <= x
<1>1. PICK n \in Nat : n = Cardinality(DOMAIN f) /\ n # 0
  BY FS_CardinalityType, FS_EmptySet DEF Numbering
<1>2. 1 \in 1 .. n /\ n \in 1 .. n
  BY <1>1
<1>3. PICK i \in DOMAIN f : PlaceOf(f, i) = 1
  BY <1>1, <1>2, PlacesTaken
<1>4. PICK j \in DOMAIN f : PlaceOf(f, j) = n
  BY <1>1, <1>2, PlacesTaken
<1>5. \A k \in DOMAIN f : f[i] <= f[k] /\ f[k] <= f[j]
  <2>1. ASSUME NEW k \in DOMAIN f PROVE f[i] <= f[k] /\ f[k] <= f[j]
    <3>1. PlaceOf(f, k) \in 1 .. n
      BY <1>1, PlaceOfIs
    <3>2. PlaceOf(f, i) <= PlaceOf(f, k) /\ PlaceOf(f, k) <= PlaceOf(f, j)
      BY <1>3, <1>4, <3>1
    <3> QED BY <3>2, PlacesDiffer
  <2> QED BY <2>1
<1>6. f[j] \in S /\ \A x \in S : x <= f[j] /\ f[i] \in S /\ f[i] <= x
  BY <1>5
<1>7. \A x \in S : f[j] >= x /\ f[i] <= x
  BY <1>5 DEF Numbering
<1>8. Max(S) \in S /\ \A x \in S : Max(S) >= x
  BY <1>6, <1>7 DEF Max
<1>9. Min(S) \in S /\ \A x \in S : Min(S) <= x
  BY <1>6, <1>7 DEF Min
<1>10. S \subseteq Int
  BY DEF Numbering
<1> QED BY <1>8, <1>9, <1>10

LEMMA CrossingsAre ==
  ASSUME ConsensusLimits, QuotesInv
  PROVE  CrossedAsTheRangesSay
<1>1. PICK F : F = FreshNow
  OBVIOUS
<1>2. /\ F \subseteq Int /\ IsFiniteSet(F)
      /\ \A b \in F : quotes[b].bid \in Int /\ Ask(quotes[b]) \in Int /\ quotes[b].bid <= Ask(quotes[b])
  BY <1>1, FreshAre
<1>3. PICK C : C = CrossedSnapshots(F)
  OBVIOUS
<1>4. \A a, b : <<a, b>> \in C <=> a \in F /\ b \in F /\ a # b /\ quotes[a].bid > Ask(quotes[b])
  BY <1>3 DEF CrossedSnapshots
<1>5. \A x \in C : x = <<x[1], x[2]>>
  BY <1>3 DEF CrossedSnapshots
<1>6. ASSUME NEW x \in C PROVE <<x[2], x[1]>> \notin C
  <2>1. PICK a, b : a = x[1] /\ b = x[2] /\ <<a, b>> \in C
    BY <1>5
  <2>2. SUFFICES ASSUME <<b, a>> \in C PROVE FALSE
    BY <2>1
  <2> QED BY <1>2, <1>4, <2>1, <2>2
<1>7. ASSUME F # {}
      PROVE  C # {} <=> Max({quotes[b].bid : b \in F}) > Min({Ask(quotes[b]) : b \in F})
  <2>1. PICK bids, asks : bids = {quotes[b].bid : b \in F} /\ asks = {Ask(quotes[b]) : b \in F}
    OBVIOUS
  <2>2. PICK f : f = [b \in F |-> quotes[b].bid]
    OBVIOUS
  <2>3. PICK g : g = [b \in F |-> Ask(quotes[b])]
    OBVIOUS
  <2>4. Numbering(f) /\ Numbering(g) /\ DOMAIN f = F /\ DOMAIN g = F
    BY <1>2, <2>2, <2>3 DEF Numbering
  <2>5. bids = {f[i] : i \in DOMAIN f} /\ asks = {g[i] : i \in DOMAIN g}
    BY <2>1, <2>2, <2>3
  <2>6. Max(bids) \in bids /\ \A x \in bids : x <= Max(bids)
    BY <1>7, <2>4, <2>5, GreatestAndLeast
  <2>7. Min(asks) \in asks /\ \A x \in asks : Min(asks) <= x
    BY <1>7, <2>4, <2>5, GreatestAndLeast
  <2>8. PICK a \in F : quotes[a].bid = Max(bids)
    BY <2>1, <2>6
  <2>9. PICK b \in F : Ask(quotes[b]) = Min(asks)
    BY <2>1, <2>7
  <2>10. ASSUME NEW x \in C PROVE Max(bids) > Min(asks)
    <3>1. PICK c, d : <<c, d>> \in C
      BY <1>5, <2>10
    <3>2. c \in F /\ d \in F /\ quotes[c].bid > Ask(quotes[d])
      BY <1>4, <3>1
    <3>3. quotes[c].bid <= Max(bids) /\ Min(asks) <= Ask(quotes[d])
      BY <2>1, <2>6, <2>7, <3>2
    <3> QED BY <1>2, <2>8, <2>9, <3>2, <3>3
  <2>11. ASSUME Max(bids) > Min(asks) PROVE C # {}
    <3>1. a # b
      BY <1>2, <2>8, <2>9, <2>11
    <3>2. <<a, b>> \in C
      BY <1>4, <2>8, <2>9, <2>11, <3>1
    <3> QED BY <3>2
  <2> QED BY <2>1, <2>10, <2>11
<1> QED BY <1>1, <1>3, <1>6, <1>7 DEF CrossedAsTheRangesSay

\* For every panel, whatever quotes arrive: fewer than half are outliers, and the
\* crossings are those the ranges of bids and asks show (consensus.rs).
THEOREM ConsensusIsCorrect == ConsensusLimits /\ ConsensusSpec => []ConsensusCorrect
<1> SUFFICES ASSUME ConsensusLimits PROVE ConsensusSpec => []ConsensusCorrect
  OBVIOUS
<1>1. ConsensusInit => QuotesInv
  BY DEF ConsensusInit, QuotesInv, ConsensusLimits
<1>2. QuotesInv /\ [ConsensusNext]_consensusVars => QuotesInv'
  BY QuotesSteps
<1>3. QuotesInv => ConsensusTypeOK
  BY DEF QuotesInv, ConsensusTypeOK
<1>4. QuotesInv => ConsensusCorrect
  BY <1>3, FewOutliers, CrossingsAre DEF ConsensusCorrect
<1> QED BY <1>1, <1>2, <1>4, PTL DEF ConsensusSpec

-----------------------------------------------------------------------------
(* The dashboard (Dashboard). *)

LEMMA ProductsOrdered ==
  ASSUME NEW a \in Int, NEW b \in Int, NEW c \in Int, c >= 0, a >= b PROVE a * c >= b * c
<1>1. (a - b) * c >= 0 BY SMT
<1> QED BY <1>1, SMT

LEMMA Division ==
  ASSUME NEW k \in Nat, NEW m \in Nat, m > 0
  PROVE /\ k \div m \in Nat /\ k % m \in 0 .. (m - 1) /\ k = m * (k \div m) + (k % m)
BY SMT

LEMMA TwoPlaces ==
  ASSUME NEW n \in Nat, n >= 2, NEW k \in 0 .. (n * (n - 1) - 1)
  PROVE  FirstPlace(n, k) \in 1 .. n /\ SecondPlace(n, k) \in 1 .. n /\ FirstPlace(n, k) # SecondPlace(n, k)
<1>1. PICK m \in Nat : m = n - 1 /\ m > 0
  OBVIOUS
<1>0. k \in Nat BY <1>1, SMT
<1>2. PICK q \in Nat, r \in 0 .. (m - 1) : q = k \div m /\ r = k % m /\ k = m * q + r
  BY <1>0, <1>1, Division
<1>3. k < n * m /\ n \in Int /\ m \in Int
  BY <1>1
<1>4. q < n
  <2> SUFFICES ASSUME q >= n PROVE FALSE
    OBVIOUS
  <2>1. q * m >= n * m
    BY <1>3, ProductsOrdered
  <2>2. m * q = q * m BY <1>1, SMT
  <2>3. m * q \in Int /\ n * m \in Int BY <1>3
  <2> QED BY <2>1, <2>2, <2>3, <1>2, <1>3
<1> QED BY <1>1, <1>2, <1>4 DEF FirstPlace, SecondPlace

-----------------------------------------------------------------------------
NoneTwice(s) == \A i, j \in 1 .. Len(s) : s[i] = s[j] => i = j

LEMMA CountNoneTwice ==
  ASSUME NEW S, NEW s \in Seq(S), NoneTwice(s)
  PROVE  Cardinality(ToSet(s)) = Len(s) /\ ToSet(s) \subseteq S
<1>1. Len(s) \in Nat /\ DOMAIN s = 1 .. Len(s) /\ s \in [1 .. Len(s) -> S]
  BY LenProperties
<1> DEFINE h == [i \in 1 .. Len(s) |-> s[i]]
<1>2. h \in Bijection(1 .. Len(s), ToSet(s))
  BY <1>1 DEF Bijection, Injection, Surjection, IsInjective, NoneTwice, ToSet
<1>3. IsFiniteSet(1 .. Len(s)) /\ Cardinality(1 .. Len(s)) = Len(s)
  BY <1>1, FS_Interval
<1>4. Cardinality(ToSet(s)) = Cardinality(1 .. Len(s))
  BY <1>2, <1>3, FS_Bijection DEF ExistsBijection
<1>5. ToSet(s) \subseteq S
  BY <1>1 DEF ToSet
<1> QED BY <1>3, <1>4, <1>5

\* The configurations' order lists every broker once.
Lists(s, T) ==
  /\ s \in Seq(T) /\ Len(s) = Cardinality(T) /\ Cardinality(T) \in Nat
  /\ NoneTwice(s) /\ ToSet(s) = T
  /\ \A i \in 1 .. Cardinality(T) : s[i] \in T

LEMMA ListsByValue ==
  ASSUME NEW f, Numbering(f)
  PROVE  Lists(KeysByValue(f), DOMAIN f)
<1> DEFINE T == DOMAIN f
           s == KeysByValue(f)
           n == Cardinality(T)
<1>1. n \in Nat
  BY FS_CardinalityType DEF Numbering
<1>2. \A k \in 1 .. n : s[k] \in T /\ PlaceOf(f, s[k]) = k
  BY KeyAt
<1>3. s \in [1 .. n -> T]
  BY <1>2 DEF KeysByValue
<1>4. s \in Seq(T)
  BY <1>1, <1>3, SeqDef
<1>5. Len(s) = n /\ DOMAIN s = 1 .. n
  BY <1>1, <1>3, <1>4, LenProperties
<1>6. NoneTwice(s)
  BY <1>2, <1>5 DEF NoneTwice
<1>7. \A i \in T : PlaceOf(f, i) \in 1 .. n /\ s[PlaceOf(f, i)] = i
  BY PlaceOfIs, KeysOfPlaces
<1>8. ToSet(s) = T
  BY <1>2, <1>5, <1>7 DEF ToSet
<1> QED BY <1>1, <1>2, <1>4, <1>5, <1>6, <1>8 DEF Lists

LEMMA ConfigOrder ==
  ASSUME NEW T, IsFiniteSet(T), T \subseteq Int
  PROVE  Lists(InConfigOrder(T), T)
<1>1. Numbering([x \in T |-> x]) /\ DOMAIN [x \in T |-> x] = T
  BY DEF Numbering
<1> QED BY <1>1, ListsByValue DEF InConfigOrder

\* A broker taken out of its place and put elsewhere.
LEMMA TakenOut ==
  ASSUME NEW S, NEW s \in Seq(S), NoneTwice(s), NEW i \in 1 .. Len(s)
  PROVE  /\ RemoveAt(s, i) \in Seq(S) /\ NoneTwice(RemoveAt(s, i))
         /\ Len(RemoveAt(s, i)) = Len(s) - 1
         /\ \A j \in 1 .. Len(s) - 1 : RemoveAt(s, i)[j] = IF j < i THEN s[j] ELSE s[j + 1]
<1>1. PICK n \in Nat : n = Len(s)
  BY LenProperties
<1>2. i \in Int /\ 1 <= i /\ i <= n
  BY <1>1
<1> DEFINE a == SubSeq(s, 1, i - 1)
           b == SubSeq(s, i + 1, n)
<1>3. \A j \in 1 .. n : s[j] \in S
  BY <1>1, ElementOfSeq
<1>4. a \in Seq(S) /\ Len(a) = i - 1 /\ \A j \in 1 .. i - 1 : a[j] = s[j]
  <2>1. \A j \in 1 .. i - 1 : s[j] \in S
    BY <1>2, <1>3
  <2>2. /\ a \in Seq(S) /\ Len(a) = (IF 1 <= i - 1 THEN i - 1 - 1 + 1 ELSE 0)
        /\ \A j \in 1 .. i - 1 - 1 + 1 : a[j] = s[1 + j - 1]
    BY <2>1, <1>2, SubSeqProperties
  <2>3. \A j \in 1 .. i - 1 : j \in 1 .. i - 1 - 1 + 1 /\ 1 + j - 1 = j
    BY <1>2
  <2> QED BY <2>2, <2>3, <1>2
<1>5. b \in Seq(S) /\ Len(b) = n - i /\ \A j \in 1 .. n - i : b[j] = s[i + j]
  <2>1. \A j \in i + 1 .. n : s[j] \in S
    BY <1>2, <1>3
  <2>2. /\ b \in Seq(S) /\ Len(b) = (IF i + 1 <= n THEN n - (i + 1) + 1 ELSE 0)
        /\ \A j \in 1 .. n - (i + 1) + 1 : b[j] = s[i + 1 + j - 1]
    BY <2>1, <1>2, <1>1, SubSeqProperties
  <2>3. \A j \in 1 .. n - i : j \in 1 .. n - (i + 1) + 1 /\ i + 1 + j - 1 = i + j
    BY <1>1, <1>2
  <2> QED BY <2>2, <2>3, <1>1, <1>2
<1> HIDE DEF a, b
<1>6. a \o b \in Seq(S) /\ Len(a \o b) = n - 1
      /\ \A j \in 1 .. n - 1 : (a \o b)[j] = IF j <= i - 1 THEN a[j] ELSE b[j - (i - 1)]
  <2>1. Len(a) + Len(b) = n - 1
    BY <1>1, <1>2, <1>4, <1>5
  <2> QED BY <2>1, <1>4, <1>5, ConcatProperties
<1>7. \A j \in 1 .. n - 1 : (a \o b)[j] = IF j < i THEN s[j] ELSE s[j + 1]
  <2> TAKE j \in 1 .. n - 1
  <2>1. CASE j < i
    BY <2>1, <1>1, <1>2, <1>4, <1>6
  <2>2. CASE ~(j < i)
    <3>1. j - (i - 1) \in 1 .. n - i /\ i + (j - (i - 1)) = j + 1 /\ ~(j <= i - 1)
      BY <2>2, <1>1, <1>2
    <3> QED BY <2>2, <3>1, <1>5, <1>6
  <2> QED BY <2>1, <2>2
<1>8. RemoveAt(s, i) = a \o b
  BY <1>1 DEF RemoveAt, a, b
<1>9. NoneTwice(a \o b)
  <2> SUFFICES ASSUME NEW p \in 1 .. n - 1, NEW q \in 1 .. n - 1, (a \o b)[p] = (a \o b)[q] PROVE p = q
    BY <1>6 DEF NoneTwice
  <2>1. \A x, y \in 1 .. n : s[x] = s[y] => x = y
    BY <1>1 DEF NoneTwice
  <2>2. p \in 1 .. n /\ q \in 1 .. n /\ p + 1 \in 1 .. n /\ q + 1 \in 1 .. n
    BY <1>1
  <2>3. CASE p < i /\ q < i
    BY <2>1, <2>2, <2>3, <1>7
  <2>4. CASE p < i /\ ~(q < i)
    <3>1. p # q + 1
      BY <2>4, <1>1, <1>2
    <3> QED BY <2>1, <2>2, <2>4, <3>1, <1>7
  <2>5. CASE ~(p < i) /\ q < i
    <3>1. q # p + 1
      BY <2>5, <1>1, <1>2
    <3> QED BY <2>1, <2>2, <2>5, <3>1, <1>7
  <2>6. CASE ~(p < i) /\ ~(q < i)
    <3>1. p + 1 = q + 1
      BY <2>1, <2>2, <2>6, <1>7
    <3> QED BY <3>1, <1>1
  <2> QED BY <2>3, <2>4, <2>5, <2>6
<1> QED BY <1>1, <1>6, <1>7, <1>8, <1>9

LEMMA Inserted ==
  ASSUME NEW S, NEW s \in Seq(S), NEW i \in 1 .. Len(s) + 1, NEW e \in S
  PROVE  /\ InsertAt(s, i, e) \in Seq(S) /\ Len(InsertAt(s, i, e)) = Len(s) + 1
         /\ \A j \in 1 .. Len(s) + 1 :
              InsertAt(s, i, e)[j] = IF j = i THEN e ELSE IF j < i THEN s[j] ELSE s[j - 1]
<1>1. PICK n \in Nat : n = Len(s)
  BY LenProperties
<1>2. i \in Int /\ 1 <= i /\ i <= n + 1
  BY <1>1
<1> DEFINE a == SubSeq(s, 1, i - 1)
           b == SubSeq(s, i, n)
           c == <<e>>
<1>3. \A j \in 1 .. n : s[j] \in S
  BY <1>1, ElementOfSeq
<1>4. a \in Seq(S) /\ Len(a) = i - 1 /\ \A j \in 1 .. i - 1 : a[j] = s[j]
  <2>1. \A j \in 1 .. i - 1 : s[j] \in S
    BY <1>2, <1>3
  <2>2. /\ a \in Seq(S) /\ Len(a) = (IF 1 <= i - 1 THEN i - 1 - 1 + 1 ELSE 0)
        /\ \A j \in 1 .. i - 1 - 1 + 1 : a[j] = s[1 + j - 1]
    BY <2>1, <1>2, SubSeqProperties
  <2>3. \A j \in 1 .. i - 1 : j \in 1 .. i - 1 - 1 + 1 /\ 1 + j - 1 = j
    BY <1>2
  <2> QED BY <2>2, <2>3, <1>2
<1>5. b \in Seq(S) /\ Len(b) = n - i + 1 /\ \A j \in 1 .. n - i + 1 : b[j] = s[i + j - 1]
  <2>1. \A j \in i .. n : s[j] \in S
    BY <1>2, <1>3
  <2>2. /\ b \in Seq(S) /\ Len(b) = (IF i <= n THEN n - i + 1 ELSE 0)
        /\ \A j \in 1 .. n - i + 1 : b[j] = s[i + j - 1]
    BY <2>1, <1>2, <1>1, SubSeqProperties
  <2> QED BY <2>2, <1>1, <1>2
<1>6. c \in Seq(S) /\ Len(c) = 1 /\ c[1] = e
  OBVIOUS
<1> HIDE DEF a, b, c
<1>7. a \o c \in Seq(S) /\ Len(a \o c) = i
      /\ \A j \in 1 .. i : (a \o c)[j] = IF j <= i - 1 THEN a[j] ELSE c[j - (i - 1)]
  <2>1. Len(a) + Len(c) = i
    BY <1>2, <1>4, <1>6
  <2>2. /\ a \o c \in Seq(S) /\ Len(a \o c) = Len(a) + Len(c)
        /\ \A j \in 1 .. Len(a) + Len(c) : (a \o c)[j] = IF j <= Len(a) THEN a[j] ELSE c[j - Len(a)]
    BY <1>4, <1>6, ConcatProperties
  <2>3. Len(a) = i - 1
    BY <1>4
  <2> QED BY <2>1, <2>2, <2>3
<1>8. \A j \in 1 .. i : (a \o c)[j] = IF j = i THEN e ELSE s[j]
  <2> TAKE j \in 1 .. i
  <2>1. CASE j = i
    <3>1. ~(j <= i - 1) /\ j - (i - 1) = 1
      BY <2>1, <1>2
    <3> QED BY <2>1, <3>1, <1>6, <1>7
  <2>2. CASE j # i
    BY <2>2, <1>2, <1>4, <1>7
  <2> QED BY <2>1, <2>2
<1> DEFINE d == a \o c
<1>9. d \in Seq(S) /\ Len(d) = i /\ \A j \in 1 .. i : d[j] = IF j = i THEN e ELSE s[j]
  BY <1>7, <1>8
<1>10. InsertAt(s, i, e) = d \o b
  BY <1>1 DEF InsertAt, a, b, c
<1> HIDE DEF d
<1>11. d \o b \in Seq(S) /\ Len(d \o b) = n + 1
      /\ \A j \in 1 .. n + 1 : (d \o b)[j] = IF j <= i THEN d[j] ELSE b[j - i]
  <2>1. Len(d) + Len(b) = n + 1
    BY <1>1, <1>2, <1>9, <1>5
  <2>2. /\ d \o b \in Seq(S) /\ Len(d \o b) = Len(d) + Len(b)
        /\ \A j \in 1 .. Len(d) + Len(b) : (d \o b)[j] = IF j <= Len(d) THEN d[j] ELSE b[j - Len(d)]
    BY <1>9, <1>5, ConcatProperties
  <2>3. Len(d) = i
    BY <1>9
  <2> QED BY <2>1, <2>2, <2>3
<1>12. \A j \in 1 .. n + 1 : (d \o b)[j] = IF j = i THEN e ELSE IF j < i THEN s[j] ELSE s[j - 1]
  <2> TAKE j \in 1 .. n + 1
  <2>1. CASE j <= i
    BY <2>1, <1>1, <1>2, <1>9, <1>11
  <2>2. CASE ~(j <= i)
    <3>1. j - i \in 1 .. n - i + 1 /\ i + (j - i) - 1 = j - 1 /\ j # i /\ ~(j < i)
      BY <2>2, <1>1, <1>2
    <3>2. b[j - i] = s[i + (j - i) - 1]
      BY <3>1, <1>5
    <3> QED BY <2>2, <3>1, <3>2, <1>11
  <2> QED BY <2>1, <2>2
<1> QED BY <1>1, <1>10, <1>11, <1>12

LEMMA PutIn ==
  ASSUME NEW S, NEW s \in Seq(S), NoneTwice(s), NEW i \in 1 .. Len(s) + 1, NEW e \in S,
         \A j \in 1 .. Len(s) : s[j] # e
  PROVE  InsertAt(s, i, e) \in Seq(S) /\ NoneTwice(InsertAt(s, i, e))
<1>1. PICK n \in Nat : n = Len(s)
  BY LenProperties
<1>2. i \in Int /\ 1 <= i /\ i <= n + 1
  BY <1>1
<1> DEFINE x == InsertAt(s, i, e)
<1>12. /\ x \in Seq(S) /\ Len(x) = n + 1
       /\ \A j \in 1 .. n + 1 : x[j] = IF j = i THEN e ELSE IF j < i THEN s[j] ELSE s[j - 1]
  BY <1>1, Inserted
<1> HIDE DEF x
<1>13. NoneTwice(x)
  <2> SUFFICES ASSUME NEW p \in 1 .. n + 1, NEW q \in 1 .. n + 1, x[p] = x[q] PROVE p = q
    BY <1>12 DEF NoneTwice
  <2>1. \A u, w \in 1 .. n : s[u] = s[w] => u = w
    BY <1>1 DEF NoneTwice
  <2>2. \A u \in 1 .. n : s[u] # e
    BY <1>1
  <2> DEFINE At(j) == IF j < i THEN j ELSE j - 1
  <2>3. \A j \in 1 .. n + 1 : j # i => At(j) \in 1 .. n /\ x[j] = s[At(j)]
    <3> SUFFICES ASSUME NEW j \in 1 .. n + 1, j # i PROVE At(j) \in 1 .. n /\ x[j] = s[At(j)]
      OBVIOUS
    <3>1. x[j] = IF j < i THEN s[j] ELSE s[j - 1]
      BY <1>12
    <3>2. CASE j < i
      <4>1. At(j) = j /\ j \in 1 .. n
        BY <3>2, <1>1, <1>2
      <4> QED BY <3>1, <3>2, <4>1
    <3>3. CASE ~(j < i)
      <4>1. At(j) = j - 1 /\ j - 1 \in 1 .. n
        BY <3>3, <1>1, <1>2
      <4> QED BY <3>1, <3>3, <4>1
    <3> QED BY <3>2, <3>3
  <2>4. x[i] = e
    BY <1>1, <1>2, <1>12
  <2> HIDE DEF At
  <2>5. CASE p = i \/ q = i
    <3>1. (p = i /\ q # i => s[At(q)] = e) /\ (q = i /\ p # i => s[At(p)] = e)
      BY <2>3, <2>4
    <3> QED BY <2>2, <2>3, <2>5, <3>1
  <2>6. CASE p # i /\ q # i
    <3>1. s[At(p)] = s[At(q)] /\ At(p) \in 1 .. n /\ At(q) \in 1 .. n
      BY <2>3, <2>6
    <3>2. At(p) = At(q)
      BY <3>1, <2>1
    <3> QED BY <3>2, <2>6, <1>1, <1>2 DEF At
  <2> QED BY <2>5, <2>6
<1> QED BY <1>12, <1>13 DEF x

\* Two lists without a common broker.
LEMMA BothLists ==
  ASSUME NEW S, NEW s \in Seq(S), NEW t \in Seq(S), NoneTwice(s), NoneTwice(t),
         ToSet(s) \cap ToSet(t) = {}
  PROVE  s \o t \in Seq(S) /\ NoneTwice(s \o t) /\ ToSet(s \o t) = ToSet(s) \cup ToSet(t)
<1>1. PICK m \in Nat, n \in Nat : m = Len(s) /\ n = Len(t)
  BY LenProperties
<1>2. s \o t \in Seq(S) /\ Len(s \o t) = m + n
      /\ \A i \in 1 .. m + n : (s \o t)[i] = IF i <= m THEN s[i] ELSE t[i - m]
  BY <1>1, ConcatProperties
<1>3. \A i \in 1 .. m : s[i] \in ToSet(s)
  BY <1>1, LenProperties DEF ToSet
<1>4. \A i \in 1 .. n : t[i] \in ToSet(t)
  BY <1>1, LenProperties DEF ToSet
<1>5. NoneTwice(s \o t)
  <2> SUFFICES ASSUME NEW i \in 1 .. m + n, NEW j \in 1 .. m + n, (s \o t)[i] = (s \o t)[j] PROVE i = j
    BY <1>2 DEF NoneTwice
  <2>1. (\A x, y \in 1 .. m : s[x] = s[y] => x = y) /\ (\A x, y \in 1 .. n : t[x] = t[y] => x = y)
    BY <1>1 DEF NoneTwice
  <2>2. \A x \in 1 .. m, y \in 1 .. n : s[x] # t[y]
    BY <1>3, <1>4
  <2>3. \A x \in 1 .. m + n : x > m => x - m \in 1 .. n
    BY <1>1
  <2>4. \A x \in 1 .. m + n : x <= m => x \in 1 .. m
    BY <1>1
  <2>5. CASE i <= m /\ j <= m
    BY <2>1, <2>4, <2>5, <1>2
  <2>6. CASE i > m /\ j > m
    <3>1. t[i - m] = t[j - m] /\ i - m \in 1 .. n /\ j - m \in 1 .. n
      BY <2>3, <2>6, <1>1, <1>2
    <3>2. i - m = j - m
      BY <3>1, <2>1
    <3> QED BY <3>2, <1>1
  <2>7. CASE i <= m /\ j > m
    BY <2>2, <2>3, <2>4, <2>7, <1>1, <1>2
  <2>8. CASE i > m /\ j <= m
    BY <2>2, <2>3, <2>4, <2>8, <1>1, <1>2
  <2> QED BY <2>5, <2>6, <2>7, <2>8, <1>1
<1>6. DOMAIN (s \o t) = 1 .. m + n /\ DOMAIN s = 1 .. m /\ DOMAIN t = 1 .. n
  BY <1>1, <1>2, LenProperties
<1>7. ToSet(s \o t) \subseteq ToSet(s) \cup ToSet(t)
  <2> SUFFICES ASSUME NEW i \in 1 .. m + n PROVE (s \o t)[i] \in ToSet(s) \cup ToSet(t)
    BY <1>6 DEF ToSet
  <2>1. CASE i <= m
    BY <2>1, <1>1, <1>2, <1>3
  <2>2. CASE i > m
    <3>1. i - m \in 1 .. n
      BY <2>2, <1>1
    <3> QED BY <3>1, <2>2, <1>1, <1>2, <1>4
  <2> QED BY <2>1, <2>2, <1>1
<1>8. ToSet(s) \subseteq ToSet(s \o t)
  <2> SUFFICES ASSUME NEW i \in 1 .. m PROVE s[i] \in ToSet(s \o t)
    BY <1>6 DEF ToSet
  <2>1. i \in 1 .. m + n /\ i <= m
    BY <1>1
  <2>2. (s \o t)[i] = s[i]
    BY <2>1, <1>2
  <2> QED BY <2>1, <2>2, <1>6 DEF ToSet
<1>9. ToSet(t) \subseteq ToSet(s \o t)
  <2> SUFFICES ASSUME NEW i \in 1 .. n PROVE t[i] \in ToSet(s \o t)
    BY <1>6 DEF ToSet
  <2>1. i + m \in 1 .. m + n /\ ~(i + m <= m) /\ i + m - m = i
    BY <1>1
  <2>2. (s \o t)[i + m] = t[i]
    BY <2>1, <1>2
  <2> QED BY <2>1, <2>2, <1>6 DEF ToSet
<1> QED BY <1>2, <1>5, <1>7, <1>8, <1>9

DashChoices == [pair : Int \X Int, hidden : SUBSET KnownBrokers, order : Seq(KnownBrokers),
            targets : SUBSET KnownBrokers, setting : BOOLEAN]

Readable(s) == s \in DashChoices /\ NoneTwice(s.order)

TwoOf(p, bs) == p \in Int \X Int /\ p[1] # p[2] /\ p[1] \in bs /\ p[2] \in bs

Usable(s, bs) ==
  /\ Readable(s)
  /\ Cardinality(bs \ s.hidden) >= 2
  /\ TwoOf(s.pair, bs)
  /\ s.targets \subseteq bs

\* What reconciliation leaves of each choice.
FitHidden(h, bs) == IF Cardinality(bs \ h) < 2 THEN {} ELSE h \cap bs

FitPair(p, v) ==
  IF p[1] # p[2] /\ {p[1], p[2]} \subseteq v THEN p ELSE <<InConfigOrder(v)[1], InConfigOrder(v)[2]>>

FitTargets(t, bs) == IF t = {} THEN bs ELSE t \cap bs

Fitted(s, bs) ==
  [pair |-> FitPair(s.pair, bs \ FitHidden(s.hidden, bs)), hidden |-> FitHidden(s.hidden, bs),
   order |-> s.order, targets |-> FitTargets(s.targets, bs), setting |-> s.setting]

LEMMA FiniteConfigurations ==
  ASSUME DashboardLimits, NEW bs \in Configurations, NEW h
  PROVE  /\ IsFiniteSet(bs \ h) /\ bs \ h \subseteq Int /\ Cardinality(bs \ h) \in Nat
         /\ bs \subseteq KnownBrokers /\ bs \subseteq Int /\ IsFiniteSet(bs)
         /\ Cardinality(bs) >= 2 /\ Cardinality(bs) \in Nat
<1>1. bs \subseteq KnownBrokers /\ Cardinality(bs) >= 2
  BY DEF Configurations
<1>2. IsFiniteSet(bs)
  BY <1>1, FS_Subset DEF DashboardLimits
<1>3. bs \ h \subseteq bs
  OBVIOUS
<1>4. IsFiniteSet(bs \ h)
  BY <1>2, <1>3, FS_Subset
<1> QED BY <1>1, <1>2, <1>4, FS_CardinalityType DEF DashboardLimits

LEMMA HiddenFits ==
  ASSUME DashboardLimits, NEW bs \in Configurations, NEW h \in SUBSET KnownBrokers
  PROVE  /\ FitHidden(h, bs) \in SUBSET KnownBrokers /\ FitHidden(h, bs) \subseteq bs
         /\ Cardinality(bs \ FitHidden(h, bs)) >= 2
         /\ FitHidden(FitHidden(h, bs), bs) = FitHidden(h, bs)
<1>1. Cardinality(bs) >= 2 /\ bs \subseteq KnownBrokers /\ Cardinality(bs \ h) \in Nat
  BY FiniteConfigurations
<1>2. bs \ {} = bs /\ bs \ (h \cap bs) = bs \ h /\ (h \cap bs) \cap bs = h \cap bs /\ {} \cap bs = {}
  OBVIOUS
<1>3. CASE Cardinality(bs \ h) < 2
  BY <1>1, <1>2, <1>3 DEF FitHidden
<1>4. CASE ~(Cardinality(bs \ h) < 2)
  BY <1>1, <1>2, <1>4 DEF FitHidden
<1> QED BY <1>3, <1>4

LEMMA PairFitted ==
  ASSUME NEW v, IsFiniteSet(v), v \subseteq Int, Cardinality(v) >= 2, NEW p \in Int \X Int
  PROVE  TwoOf(FitPair(p, v), v) /\ FitPair(FitPair(p, v), v) = FitPair(p, v)
         /\ (p[1] # p[2] /\ {p[1], p[2]} \subseteq v => FitPair(p, v) = p)
         /\ Len(InConfigOrder(v)) >= 2
<1> DEFINE s == InConfigOrder(v)
<1>1. Lists(s, v)
  BY ConfigOrder
<1>2. Len(s) >= 2 /\ s[1] \in v /\ s[2] \in v /\ s[1] # s[2]
  BY <1>1 DEF Lists, NoneTwice
<1>3. CASE p[1] # p[2] /\ {p[1], p[2]} \subseteq v
  BY <1>2, <1>3 DEF FitPair, TwoOf
<1>4. CASE ~(p[1] # p[2] /\ {p[1], p[2]} \subseteq v)
  <2>1. FitPair(p, v) = <<s[1], s[2]>>
    BY <1>4 DEF FitPair
  <2>2. TwoOf(<<s[1], s[2]>>, v)
    BY <1>2 DEF TwoOf
  <2> HIDE DEF s
  <2>3. FitPair(<<s[1], s[2]>>, v) = <<s[1], s[2]>>
    BY <1>2 DEF FitPair
  <2> QED BY <1>2, <1>4, <2>1, <2>2, <2>3 DEF s
<1> QED BY <1>3, <1>4

LEMMA ReconciledIs ==
  ASSUME DashboardLimits, NEW bs \in Configurations, NEW s, Readable(s)
  PROVE  Reconciled(s, bs) = Fitted(s, bs)
<1> DEFINE h == FitHidden(s.hidden, bs)
           v == bs \ h
           s1 == [pair |-> s.pair, hidden |-> h, order |-> s.order, targets |-> s.targets, setting |-> s.setting]
           s2 == [s1 EXCEPT !.pair = FitPair(s.pair, v)]
<1>1. /\ s = [pair |-> s.pair, hidden |-> s.hidden, order |-> s.order, targets |-> s.targets,
              setting |-> s.setting]
      /\ s.hidden \in SUBSET KnownBrokers /\ s.pair \in Int \X Int
  BY DEF Readable, DashChoices
<1>2. Cardinality(bs) >= 2
  BY FiniteConfigurations
<1>3. Unhidden(s, bs) = s1
  <2>1. (IF Cardinality(bs \ s.hidden) < 2 /\ Cardinality(bs) >= 2 THEN {} ELSE s.hidden \cap bs) = h
    BY <1>2 DEF FitHidden
  <2>2. Unhidden(s, bs) = [s EXCEPT !.hidden = h]
    BY <2>1 DEF Unhidden
  <2> HIDE DEF h
  <2> QED BY <1>1, <2>2
<1>4. IsFiniteSet(v) /\ v \subseteq Int /\ Cardinality(v) >= 2
  BY <1>1, HiddenFits, FiniteConfigurations
<1>5. WithPair(s1, bs) = s2
  <2>1. VisibleOf(s1, bs) = v /\ s1.pair = s.pair
    BY DEF VisibleOf
  <2>2. Len(InConfigOrder(v)) >= 2
    BY <1>1, <1>4, PairFitted
  <2> HIDE DEF v, h
  <2>3. CASE s.pair[1] # s.pair[2] /\ {s.pair[1], s.pair[2]} \subseteq v
    <3>1. PairFits(s1, bs)
      BY <2>1, <2>3 DEF PairFits
    <3>2. WithPair(s1, bs) = s1
      BY <3>1 DEF WithPair
    <3>3. FitPair(s.pair, v) = s.pair
      BY <2>3 DEF FitPair
    <3> QED BY <3>2, <3>3
  <2>4. CASE ~(s.pair[1] # s.pair[2] /\ {s.pair[1], s.pair[2]} \subseteq v)
    <3>1. ~PairFits(s1, bs)
      BY <2>1, <2>4 DEF PairFits
    <3>2. FitPair(s.pair, v) = <<InConfigOrder(v)[1], InConfigOrder(v)[2]>>
      BY <2>4 DEF FitPair
    <3> HIDE DEF s1
    <3>3. WithPair(s1, bs) = [s1 EXCEPT !.pair = <<InConfigOrder(v)[1], InConfigOrder(v)[2]>>]
      BY <2>1, <2>2, <3>1 DEF WithPair
    <3> QED BY <3>2, <3>3
  <2> QED BY <2>3, <2>4
<1>6. s2 = [pair |-> FitPair(s.pair, v), hidden |-> h, order |-> s.order, targets |-> s.targets, setting |-> s.setting]
  OBVIOUS
<1>7. WithTargets(s2, bs) = Fitted(s, bs)
  <2> HIDE DEF s2
  <2>1. WithTargets(s2, bs) = [s2 EXCEPT !.targets = FitTargets(s.targets, bs)]
    BY <1>6 DEF WithTargets, FitTargets
  <2> QED BY <2>1, <1>6 DEF Fitted
<1> QED BY <1>3, <1>5, <1>7 DEF Reconciled

LEMMA FittedUsable ==
  ASSUME DashboardLimits, NEW bs \in Configurations, NEW s, Readable(s)
  PROVE  Usable(Fitted(s, bs), bs)
<1>1. /\ s.hidden \in SUBSET KnownBrokers /\ s.pair \in Int \X Int /\ s.order \in Seq(KnownBrokers)
      /\ s.targets \in SUBSET KnownBrokers /\ s.setting \in BOOLEAN /\ NoneTwice(s.order)
  BY DEF Readable, DashChoices
<1> DEFINE h == FitHidden(s.hidden, bs)
           p == FitPair(s.pair, bs \ h)
           t == FitTargets(s.targets, bs)
<1>2. h \in SUBSET KnownBrokers /\ Cardinality(bs \ h) >= 2
  BY <1>1, HiddenFits
<1>3. TwoOf(p, bs \ h)
  BY <1>1, <1>2, FiniteConfigurations, PairFitted
<1>4. t \in SUBSET KnownBrokers /\ t \subseteq bs
  BY <1>1, FiniteConfigurations DEF FitTargets
<1>5. Fitted(s, bs) = [pair |-> p, hidden |-> h, order |-> s.order, targets |-> t, setting |-> s.setting]
  BY DEF Fitted
<1> HIDE DEF p, h, t
<1>6. TwoOf(p, bs)
  BY <1>3 DEF TwoOf
<1>7. [pair |-> p, hidden |-> h, order |-> s.order, targets |-> t, setting |-> s.setting] \in DashChoices
  BY <1>1, <1>2, <1>4, <1>6 DEF DashChoices, TwoOf
<1> QED BY <1>1, <1>2, <1>4, <1>5, <1>6, <1>7 DEF Usable, Readable

\* Usable choices are reconciled already once they have been reconciled.
LEMMA FittedTwice ==
  ASSUME DashboardLimits, NEW bs \in Configurations, NEW s, Usable(s, bs)
  PROVE  Fitted(Fitted(s, bs), bs) = Fitted(s, bs)
<1>1. /\ s.hidden \in SUBSET KnownBrokers /\ s.pair \in Int \X Int /\ s.targets \subseteq bs
  BY DEF Usable, Readable, DashChoices
<1> DEFINE h == FitHidden(s.hidden, bs)
           p == FitPair(s.pair, bs \ h)
           t == FitTargets(s.targets, bs)
<1>2. h \in SUBSET KnownBrokers /\ Cardinality(bs \ h) >= 2 /\ FitHidden(h, bs) = h
  BY <1>1, HiddenFits
<1>3. FitPair(p, bs \ h) = p
  BY <1>1, <1>2, FiniteConfigurations, PairFitted
<1>4. FitTargets(t, bs) = t
  BY <1>1 DEF FitTargets
<1>5. Fitted(s, bs) = [pair |-> p, hidden |-> h, order |-> s.order, targets |-> t, setting |-> s.setting]
  BY DEF Fitted
<1> HIDE DEF p, h, t
<1> DEFINE r == [pair |-> p, hidden |-> h, order |-> s.order, targets |-> t, setting |-> s.setting]
<1>6. r.pair = p /\ r.hidden = h /\ r.order = s.order /\ r.targets = t /\ r.setting = s.setting
  OBVIOUS
<1> HIDE DEF r
<1>7. Fitted(r, bs) = [pair |-> p, hidden |-> h, order |-> s.order, targets |-> t, setting |-> s.setting]
  BY <1>2, <1>3, <1>4, <1>6 DEF Fitted
<1> QED BY <1>5, <1>7 DEF r

\* The choices with every broker in the order.
Filled(order, bs) == order \o InConfigOrder(bs \ ToSet(order))

LEMMA OrderFilled ==
  ASSUME DashboardLimits, NEW bs \in Configurations, NEW order \in Seq(KnownBrokers), NoneTwice(order)
  PROVE  /\ Filled(order, bs) \in Seq(KnownBrokers) /\ NoneTwice(Filled(order, bs))
         /\ bs \subseteq ToSet(Filled(order, bs))
<1> DEFINE T == bs \ ToSet(order)
           t == InConfigOrder(T)
<1>1. IsFiniteSet(T) /\ T \subseteq Int /\ T \subseteq KnownBrokers
  BY FiniteConfigurations
<1>2. Lists(t, T)
  BY <1>1, ConfigOrder
<1>3. t \in Seq(KnownBrokers)
  BY <1>1, <1>2, SeqMonotonic DEF Lists
<1>4. ToSet(t) = T /\ NoneTwice(t)
  BY <1>2 DEF Lists
<1>5. ToSet(order) \cap ToSet(t) = {}
  BY <1>4
<1> HIDE DEF t
<1>6. order \o t \in Seq(KnownBrokers) /\ NoneTwice(order \o t) /\ ToSet(order \o t) = ToSet(order) \cup ToSet(t)
  BY <1>3, <1>4, <1>5, BothLists
<1>7. bs \subseteq ToSet(order) \cup ToSet(t)
  BY <1>4
<1>8. Filled(order, bs) = order \o t
  BY DEF Filled, t
<1> QED BY <1>6, <1>7, <1>8

-----------------------------------------------------------------------------
\* The part of the invariant about the choices.
DashboardInv ==
  /\ brokers \in Configurations
  /\ up \in BOOLEAN /\ state_dirty \in BOOLEAN /\ frame_drawn \in BOOLEAN
  /\ frame_drawn => up
  /\ file.is = "saved" => Readable(file.state)
  /\ Readable(app)
  /\ up => Usable(app, brokers) /\ engine_pair = app.pair
  /\ SavedIsShown

\* What the start of the program shows.
LEMMA LoadedUsable ==
  ASSUME DashboardLimits, NEW bs \in Configurations, NEW f, f.is = "saved" => Readable(f.state)
  PROVE  Usable(Loaded(f, bs), bs)
<1>1. Readable(Defaults) 
  <2>1. <<>> \in Seq(KnownBrokers) /\ Len(<<>>) = 0
    OBVIOUS
  <2>2. NoneTwice(Defaults.order)
    BY <2>1 DEF NoneTwice, Defaults
  <2>3. Defaults \in DashChoices
    BY <2>1 DEF Defaults, DashChoices, DashboardLimits
  <2> QED BY <2>2, <2>3 DEF Readable
<1>2. Readable(IF f.is = "saved" THEN f.state ELSE Defaults)
  BY <1>1
<1> QED BY <1>2, ReconciledIs, FittedUsable DEF Loaded

LEMMA DashboardStarts == ASSUME DashboardLimits PROVE DashboardInit => DashboardInv
<1> SUFFICES ASSUME DashboardInit PROVE DashboardInv
  OBVIOUS
<1>1. file.is # "saved"
  BY DEF DashboardInit, Unreadable
<1>2. Usable(app, brokers)
  BY <1>1, LoadedUsable DEF DashboardInit
<1>3. SavedIsShown
  <2>1. app = Loaded(file, brokers)
    BY DEF DashboardInit
  <2> QED BY <2>1 DEF SavedIsShown
<1> QED BY <1>1, <1>2, <1>3 DEF DashboardInit, DashboardInv, Usable

-----------------------------------------------------------------------------
\* A frame whose input is usable.
LEMMA FrameKeeps ==
  ASSUME DashboardLimits, DashboardInv, NEW changed, NEW marked \in BOOLEAN,
         Frame(changed, marked), Usable(changed, brokers)
  PROVE  DashboardInv'
<1> DEFINE o == Filled(changed.order, brokers)
           new == [changed EXCEPT !.order = InOrder(@)]
<1>1. brokers \in Configurations /\ up
  BY DEF DashboardInv, Frame
<1>2. /\ changed = [pair |-> changed.pair, hidden |-> changed.hidden, order |-> changed.order,
                    targets |-> changed.targets, setting |-> changed.setting]
      /\ changed.pair \in Int \X Int /\ changed.hidden \in SUBSET KnownBrokers
      /\ changed.order \in Seq(KnownBrokers) /\ changed.targets \in SUBSET KnownBrokers
      /\ changed.setting \in BOOLEAN /\ NoneTwice(changed.order)
  BY DEF Usable, Readable, DashChoices
<1>3. o \in Seq(KnownBrokers) /\ NoneTwice(o)
  BY <1>1, <1>2, OrderFilled
<1>4. InOrder(changed.order) = o
  BY DEF InOrder, Filled
<1> HIDE DEF o
<1>5. new = [pair |-> changed.pair, hidden |-> changed.hidden, order |-> o,
             targets |-> changed.targets, setting |-> changed.setting]
  BY <1>2, <1>4
<1>6. new \in DashChoices
  BY <1>2, <1>3, <1>5 DEF DashChoices
<1>7. /\ new.pair = changed.pair /\ new.hidden = changed.hidden /\ new.order = o
      /\ new.targets = changed.targets
  BY <1>5
<1> HIDE DEF new
<1>8. Usable(new, brokers)
  BY <1>3, <1>6, <1>7 DEF Usable, Readable
<1>9. /\ app' = new /\ state_dirty' = (state_dirty \/ marked \/ DirtyIfChanged(new))
      /\ engine_pair' = new.pair
      /\ frame_drawn' = TRUE /\ brokers' = brokers /\ up' = up /\ file' = file
  BY DEF Frame, new
<1>10. SavedIsShown'
  <2>1. CASE new = app /\ ~marked
    <3>1. state_dirty' = state_dirty /\ app' = app
      BY <1>9, <2>1 DEF DirtyIfChanged, DashboardInv
    <3> QED BY <3>1, <1>9 DEF SavedIsShown, DashboardInv, InOrder
  <2>2. CASE new # app \/ marked
    <3>1. state_dirty'
      BY <1>9, <2>2 DEF DirtyIfChanged
    <3> QED BY <3>1 DEF SavedIsShown
  <2> QED BY <2>1, <2>2
<1>11. state_dirty' \in BOOLEAN
  BY <1>9 DEF DashboardInv
<1> QED BY <1>1, <1>8, <1>9, <1>10, <1>11 DEF DashboardInv, Usable

LEMMA Changed ==
  ASSUME NEW s, Readable(s)
  PROVE  /\ s = [pair |-> s.pair, hidden |-> s.hidden, order |-> s.order, targets |-> s.targets,
                 setting |-> s.setting]
         /\ s.pair \in Int \X Int /\ s.hidden \in SUBSET KnownBrokers /\ s.order \in Seq(KnownBrokers)
         /\ s.targets \in SUBSET KnownBrokers /\ s.setting \in BOOLEAN /\ NoneTwice(s.order)
BY DEF Readable, DashChoices

LEMMA NewPair ==
  ASSUME DashboardLimits, NEW bs, NEW s, Usable(s, bs), NEW p, TwoOf(p, bs)
  PROVE  Usable([s EXCEPT !.pair = p], bs)
<1>1. [s EXCEPT !.pair = p] = [pair |-> p, hidden |-> s.hidden, order |-> s.order,
                               targets |-> s.targets, setting |-> s.setting]
  BY Changed DEF Usable
<1> DEFINE r == [pair |-> p, hidden |-> s.hidden, order |-> s.order, targets |-> s.targets, setting |-> s.setting]
<1>2. r \in DashChoices /\ r.pair = p /\ r.hidden = s.hidden /\ r.order = s.order /\ r.targets = s.targets
  BY Changed DEF DashChoices, TwoOf, Usable
<1> HIDE DEF r
<1> QED BY <1>1, <1>2 DEF Usable, Readable, r

LEMMA NewHidden ==
  ASSUME DashboardLimits, NEW bs, NEW s, Usable(s, bs), NEW h \in SUBSET KnownBrokers,
         Cardinality(bs \ h) >= 2
  PROVE  /\ Usable([s EXCEPT !.hidden = h], bs)
         /\ [s EXCEPT !.hidden = h].pair = s.pair
<1>1. [s EXCEPT !.hidden = h] = [pair |-> s.pair, hidden |-> h, order |-> s.order,
                                 targets |-> s.targets, setting |-> s.setting]
  BY Changed DEF Usable
<1> DEFINE r == [pair |-> s.pair, hidden |-> h, order |-> s.order, targets |-> s.targets, setting |-> s.setting]
<1>2. r \in DashChoices /\ r.pair = s.pair /\ r.hidden = h /\ r.order = s.order /\ r.targets = s.targets
  BY Changed DEF DashChoices, Usable
<1> HIDE DEF r
<1> QED BY <1>1, <1>2 DEF Usable, Readable, r

LEMMA NewOrder ==
  ASSUME DashboardLimits, NEW bs, NEW s, Usable(s, bs), NEW o \in Seq(KnownBrokers), NoneTwice(o)
  PROVE  Usable([s EXCEPT !.order = o], bs)
<1>1. [s EXCEPT !.order = o] = [pair |-> s.pair, hidden |-> s.hidden, order |-> o,
                                targets |-> s.targets, setting |-> s.setting]
  BY Changed DEF Usable
<1> DEFINE r == [pair |-> s.pair, hidden |-> s.hidden, order |-> o, targets |-> s.targets, setting |-> s.setting]
<1>2. r \in DashChoices /\ r.pair = s.pair /\ r.hidden = s.hidden /\ r.order = o /\ r.targets = s.targets
  BY Changed DEF DashChoices, Usable
<1> HIDE DEF r
<1> QED BY <1>1, <1>2 DEF Usable, Readable, r

LEMMA NewTargets ==
  ASSUME DashboardLimits, NEW bs, NEW s, Usable(s, bs), bs \subseteq KnownBrokers, NEW t \in SUBSET bs
  PROVE  Usable([s EXCEPT !.targets = t], bs)
<1>1. [s EXCEPT !.targets = t] = [pair |-> s.pair, hidden |-> s.hidden, order |-> s.order,
                                  targets |-> t, setting |-> s.setting]
  BY Changed DEF Usable
<1> DEFINE r == [pair |-> s.pair, hidden |-> s.hidden, order |-> s.order, targets |-> t, setting |-> s.setting]
<1>2. r \in DashChoices /\ r.pair = s.pair /\ r.hidden = s.hidden /\ r.order = s.order /\ r.targets = t
  BY Changed DEF DashChoices, Usable
<1> HIDE DEF r
<1> QED BY <1>1, <1>2 DEF Usable, Readable, r

LEMMA NewSetting ==
  ASSUME DashboardLimits, NEW bs, NEW s, Usable(s, bs)
  PROVE  Usable([s EXCEPT !.setting = ~@], bs)
<1> DEFINE g == ~s.setting
<1>1. [s EXCEPT !.setting = ~@] = [pair |-> s.pair, hidden |-> s.hidden, order |-> s.order,
                                   targets |-> s.targets, setting |-> g]
  BY Changed DEF Usable
<1>0. g \in BOOLEAN
  OBVIOUS
<1> HIDE DEF g
<1> DEFINE r == [pair |-> s.pair, hidden |-> s.hidden, order |-> s.order, targets |-> s.targets, setting |-> g]
<1>2. r \in DashChoices /\ r.pair = s.pair /\ r.hidden = s.hidden /\ r.order = s.order /\ r.targets = s.targets
  BY Changed, <1>0 DEF DashChoices, Usable
<1> HIDE DEF r
<1> QED BY <1>1, <1>2 DEF Usable, Readable, r

\* One broker of the pair exchanged for another, or for its partner.
LEMMA SidesKeep ==
  ASSUME DashboardLimits, NEW bs, bs \subseteq Int, NEW s, Usable(s, bs), NEW id \in bs
  PROVE  Usable(WithA(s, id), bs) /\ Usable(WithB(s, id), bs)
<1> DEFINE p == IF id = s.pair[2] THEN <<s.pair[2], s.pair[1]>> ELSE <<id, s.pair[2]>>
           q == IF id = s.pair[1] THEN <<s.pair[2], s.pair[1]>> ELSE <<s.pair[1], id>>
<1>1. TwoOf(p, bs) /\ TwoOf(q, bs)
  BY DEF Usable, TwoOf
<1>2. WithA(s, id) = [s EXCEPT !.pair = p] /\ WithB(s, id) = [s EXCEPT !.pair = q]
  BY DEF WithA, WithB
<1> HIDE DEF p, q
<1> QED BY <1>1, <1>2, NewPair

-----------------------------------------------------------------------------
Ready == DashboardInv /\ up /\ Usable(app, brokers) /\ brokers \in Configurations /\ brokers \subseteq Int
         /\ brokers \subseteq KnownBrokers /\ IsFiniteSet(brokers)

LEMMA ReadyWhenUp == ASSUME DashboardLimits, DashboardInv, up PROVE Ready
BY FiniteConfigurations DEF DashboardInv, Ready

LEMMA SelectKeeps == ASSUME DashboardLimits, DashboardInv, SelectBroker PROVE DashboardInv'
<1>1. Ready
  BY ReadyWhenUp DEF SelectBroker, Edit, Frame
<1>2. PICK id \in brokers : Edit(WithA(app, id)) \/ Edit(WithB(app, id))
  BY DEF SelectBroker
<1>3. Usable(WithA(app, id), brokers) /\ Usable(WithB(app, id), brokers)
  BY <1>1, SidesKeep DEF Ready
<1> QED BY <1>2, <1>3, FrameKeeps DEF Edit

\* The places of the visible brokers in the order.
LEMMA PairsUsable ==
  ASSUME DashboardLimits, Ready, NEW n, n = Cardinality(VisibleOf(app, brokers)),
         NEW k \in 0 .. (n * (n - 1) - 1)
  PROVE  TwoOf(PairAt(k), brokers)
<1> DEFINE v == brokers \ app.hidden
           shown == InOrder(app.order)
           ids == KeysByValue(PlacesShown)
<1>1. VisibleOf(app, brokers) = v /\ IsFiniteSet(v) /\ v \subseteq Int /\ n \in Nat /\ n >= 2 /\ n = Cardinality(v)
  BY FiniteConfigurations DEF VisibleOf, Ready, Usable
<1>2. shown = Filled(app.order, brokers)
  BY DEF InOrder, Filled
<1>3. shown \in Seq(KnownBrokers) /\ brokers \subseteq ToSet(shown)
  BY <1>2, Changed, OrderFilled DEF Ready, Usable
<1>4. DOMAIN shown \subseteq Int
  BY <1>3, LenProperties
<1> HIDE DEF shown
<1>5. PlacesShown = [id \in v |-> CHOOSE i \in DOMAIN shown : shown[i] = id]
  BY <1>1 DEF PlacesShown, shown
<1>6. \A id \in v : PlacesShown[id] \in Int
  <2> TAKE id \in v
  <2>1. \E i \in DOMAIN shown : shown[i] = id
    BY <1>3 DEF ToSet
  <2>2. PlacesShown[id] \in DOMAIN shown
    BY <2>1, <1>5
  <2> QED BY <2>2, <1>4
<1>7. DOMAIN PlacesShown = v
  BY <1>5
<1>8. Numbering(PlacesShown)
  BY <1>1, <1>5, <1>6, <1>7 DEF Numbering
<1>9. Lists(ids, v)
  BY <1>7, <1>8, ListsByValue
<1> HIDE DEF ids
<1> DEFINE i == FirstPlace(n, k)
           j == SecondPlace(n, k)
<1>10. i \in 1 .. n /\ j \in 1 .. n /\ i # j
  BY <1>1, TwoPlaces
<1>11. PairAt(k) = <<ids[i], ids[j]>>
  BY DEF PairAt, ids
<1> HIDE DEF i, j
<1>12. ids[i] \in v /\ ids[j] \in v /\ ids[i] # ids[j]
  BY <1>1, <1>9, <1>10 DEF Lists, NoneTwice
<1> QED BY <1>1, <1>11, <1>12 DEF TwoOf

LEMMA CycleKeeps == ASSUME DashboardLimits, DashboardInv, CyclePair PROVE DashboardInv'
<1>1. Ready
  BY ReadyWhenUp DEF CyclePair, Edit, Frame
<1> DEFINE n == Cardinality(VisibleOf(app, brokers))
           pairs == n * (n - 1)
           current == {k \in 0 .. (pairs - 1) : PairAt(k) = app.pair}
           k0 == IF current = {} THEN 0 ELSE CHOOSE k \in current : TRUE
<1>2. n >= 2 /\ n \in Nat
  BY <1>1, FiniteConfigurations DEF VisibleOf, Ready, Usable
<1>3. PICK step \in {1, pairs - 1} : Edit([app EXCEPT !.pair = PairAt((k0 + step) % pairs)])
  BY DEF CyclePair
<1> HIDE DEF n
<1>4. pairs \in Nat /\ pairs >= 2
  <2>1. PICK m \in Nat : m = n - 1 /\ m >= 1
    BY <1>2
  <2>2. n * m >= 1 * m /\ m * n >= 1 * n
    BY <1>2, <2>1, ProductsOrdered
  <2>3. n * m \in Nat /\ 1 * n = n /\ m * n = n * m
    BY <1>2, <2>1, SMT
  <2> QED BY <2>1, <2>2, <2>3, <1>2
<1> HIDE DEF pairs
<1>5. k0 \in Nat
  BY <1>4
<1> HIDE DEF k0
<1>6. k0 + step \in Nat
  BY <1>4, <1>5
<1>7. (k0 + step) % pairs \in 0 .. (pairs - 1)
  BY <1>4, <1>6, Division
<1>8. TwoOf(PairAt((k0 + step) % pairs), brokers)
  BY <1>1, <1>7, PairsUsable DEF n, pairs
<1>9. Usable([app EXCEPT !.pair = PairAt((k0 + step) % pairs)], brokers)
  BY <1>1, <1>8, NewPair DEF Ready
<1> QED BY <1>3, <1>9, FrameKeeps DEF Edit

LEMMA HideKeeps == ASSUME DashboardLimits, DashboardInv, HideBroker PROVE DashboardInv'
<1>1. Ready
  BY ReadyWhenUp DEF HideBroker, Edit, Frame
<1> DEFINE Left(id) == VisibleOf(app, brokers) \ {id}
           Hid(id) == [app EXCEPT !.hidden = @ \cup {id}]
           Other(id, b) == InConfigOrder(Left(id) \ {b})[1]
           Next3(id) == IF id = app.pair[1] THEN WithA(Hid(id), Other(id, app.pair[2]))
                        ELSE IF id = app.pair[2] THEN WithB(Hid(id), Other(id, app.pair[1]))
                        ELSE Hid(id)
<1>2. PICK id \in brokers \ app.hidden : Cardinality(Left(id)) >= 2 /\ Edit(Next3(id))
  BY DEF HideBroker
<1> DEFINE h == app.hidden \cup {id}
<1>3. h \in SUBSET KnownBrokers /\ Left(id) = brokers \ h
  BY <1>1, Changed DEF Ready, Usable, VisibleOf
<1>4. Hid(id) = [app EXCEPT !.hidden = h]
  OBVIOUS
<1>5. Usable(Hid(id), brokers) /\ Hid(id).pair = app.pair
  <2>1. Cardinality(brokers \ h) >= 2
    BY <1>2, <1>3
  <2> HIDE DEF h
  <2> QED BY <2>1, <1>1, <1>3, <1>4, NewHidden DEF Ready
<1>6. ASSUME NEW b PROVE Other(id, b) \in brokers
  <2> DEFINE T == Left(id) \ {b}
  <2>1. T \subseteq Left(id) /\ Left(id) \subseteq brokers /\ Left(id) \ T \subseteq {b}
    BY <1>3
  <2>2. IsFiniteSet(Left(id)) /\ IsFiniteSet(T) /\ T \subseteq Int
    BY <2>1, <1>1, FS_Subset DEF Ready
  <2>3. Cardinality(T) >= 1
    <3>1. Cardinality(T) \in Nat /\ Cardinality(Left(id)) \in Nat
      BY <2>2, FS_CardinalityType
    <3>2. CASE b \in Left(id)
      <4>1. Cardinality(T) = Cardinality(Left(id)) - 1
        BY <2>2, <3>2, FS_RemoveElement
      <4> HIDE DEF T, Left
      <4> QED BY <4>1, <1>2, <3>1
    <3>3. CASE b \notin Left(id)
      <4>1. T = Left(id)
        BY <3>3
      <4> HIDE DEF T, Left
      <4> QED BY <4>1, <1>2, <3>1
    <3> QED BY <3>2, <3>3
  <2> HIDE DEF T
  <2>4. Lists(InConfigOrder(T), T)
    BY <2>2, ConfigOrder
  <2>5. InConfigOrder(T)[1] \in T
    BY <2>3, <2>4 DEF Lists
  <2> QED BY <2>5, <2>1 DEF T
<1> HIDE DEF Hid, Other
<1>7. Usable(Next3(id), brokers)
  BY <1>1, <1>5, <1>6, SidesKeep DEF Ready
<1> HIDE DEF Next3, Left
<1> QED BY <1>2, <1>7, FrameKeeps DEF Edit

LEMMA ShowKeeps == ASSUME DashboardLimits, DashboardInv, ShowBroker PROVE DashboardInv'
<1>1. Ready
  BY ReadyWhenUp DEF ShowBroker, Edit, Frame
<1>2. PICK h \in SUBSET app.hidden : Edit([app EXCEPT !.hidden = h])
  <2>1. \E id \in app.hidden : Edit([app EXCEPT !.hidden = app.hidden \ {id}])
        \/ Edit([app EXCEPT !.hidden = {}])
    BY DEF ShowBroker
  <2> QED BY <2>1
<1>3. h \in SUBSET KnownBrokers
  BY <1>1, Changed DEF Ready, Usable
<1>4. Cardinality(brokers \ h) >= 2
  <2>1. brokers \ app.hidden \subseteq brokers \ h /\ IsFiniteSet(brokers \ h)
    BY <1>1, FiniteConfigurations DEF Ready
  <2>2. Cardinality(brokers \ app.hidden) <= Cardinality(brokers \ h)
    BY <2>1, FS_Subset
  <2>3. Cardinality(brokers \ app.hidden) \in Nat /\ Cardinality(brokers \ h) \in Nat
    BY <1>1, FiniteConfigurations DEF Ready
  <2> QED BY <2>2, <2>3, <1>1 DEF Ready, Usable
<1>5. Usable([app EXCEPT !.hidden = h], brokers)
  BY <1>1, <1>3, <1>4, NewHidden DEF Ready
<1> QED BY <1>2, <1>5, FrameKeeps DEF Edit

LEMMA MoveKeeps == ASSUME DashboardLimits, DashboardInv, MoveBrokerOrder PROVE DashboardInv'
<1>1. Ready
  BY ReadyWhenUp DEF MoveBrokerOrder, Edit, Frame
<1> DEFINE o == app.order
           At(id) == CHOOSE i \in DOMAIN o : o[i] = id
           Rest(id) == RemoveAt(o, At(id))
           PlaceAmong(id, target) == CHOOSE i \in DOMAIN Rest(id) : Rest(id)[i] = target
           Moved(id, target, after) == InsertAt(Rest(id), PlaceAmong(id, target) + after, id)
<1>2. PICK id \in brokers, target \in brokers, after \in {0, 1} :
        /\ id # target /\ {id, target} \subseteq ToSet(o)
        /\ Edit([app EXCEPT !.order = Moved(id, target, after)])
  BY DEF MoveBrokerOrder
<1>3. o \in Seq(KnownBrokers) /\ NoneTwice(o) /\ id \in KnownBrokers
  BY <1>1, Changed DEF Ready, Usable
<1>4. PICK n \in Nat : n = Len(o) /\ DOMAIN o = 1 .. n
  BY <1>3, LenProperties
<1> HIDE DEF o
<1>5. At(id) \in 1 .. n /\ o[At(id)] = id
  <2>1. \E i \in DOMAIN o : o[i] = id
    BY <1>2 DEF ToSet
  <2> QED BY <2>1, <1>4
<1>6. PICK j \in 1 .. n : o[j] = target
  BY <1>2, <1>4 DEF ToSet
<1>7. PICK a \in 1 .. n : a = At(id) /\ o[a] = id
  BY <1>5
<1>8. /\ RemoveAt(o, a) \in Seq(KnownBrokers) /\ NoneTwice(RemoveAt(o, a)) /\ Len(RemoveAt(o, a)) = n - 1
      /\ \A i \in 1 .. n - 1 : RemoveAt(o, a)[i] = IF i < a THEN o[i] ELSE o[i + 1]
  BY <1>3, <1>4, TakenOut
<1> DEFINE r == RemoveAt(o, a)
<1>9. r \in Seq(KnownBrokers) /\ NoneTwice(r) /\ Len(r) = n - 1 /\ DOMAIN r = 1 .. n - 1
  BY <1>8, LenProperties
<1>10. \A i \in 1 .. n - 1 : r[i] # id
  <2> TAKE i \in 1 .. n - 1
  <2>1. \A x, y \in 1 .. n : o[x] = o[y] => x = y
    BY <1>3, <1>4 DEF NoneTwice
  <2>2. r[i] = IF i < a THEN o[i] ELSE o[i + 1]
    BY <1>8
  <2>3. i \in 1 .. n /\ i + 1 \in 1 .. n
    BY <1>4
  <2> HIDE DEF r
  <2>4. CASE i < a
    BY <2>1, <2>2, <2>3, <2>4, <1>4, <1>7
  <2>6. a \in Int /\ i \in Int
    BY <1>4, <1>7
  <2>5. CASE ~(i < a)
    <3>1. i + 1 # a
      BY <2>5, <2>6
    <3> QED BY <2>1, <2>2, <2>3, <2>5, <3>1, <1>7
  <2> QED BY <2>4, <2>5
<1>11. \E i \in 1 .. n - 1 : r[i] = target
  <2>1. j # a
    BY <1>2, <1>6, <1>7
  <2>2. CASE j < a
    <3>1. j \in 1 .. n - 1
      BY <2>2, <1>4, <1>6, <1>7
    <3> QED BY <3>1, <2>2, <1>6, <1>8
  <2>3. CASE j > a
    <3>1. j - 1 \in 1 .. n - 1 /\ ~(j - 1 < a) /\ j - 1 + 1 = j
      BY <2>3, <1>4, <1>6, <1>7
    <3>2. r[j - 1] = o[j]
      BY <3>1, <1>8
    <3> QED BY <3>1, <3>2, <1>6
  <2> QED BY <2>1, <2>2, <2>3, <1>4
<1>12. Rest(id) = r
  BY <1>7
<1> HIDE DEF r, At, Rest
<1>13. PICK p \in 1 .. n - 1 : p = PlaceAmong(id, target)
  <2>1. \E i \in DOMAIN Rest(id) : Rest(id)[i] = target
    BY <1>9, <1>11, <1>12
  <2>2. PlaceAmong(id, target) \in DOMAIN Rest(id)
    BY <2>1
  <2> HIDE DEF PlaceAmong
  <2> QED BY <2>2, <1>9, <1>12
<1> HIDE DEF PlaceAmong
<1>14. Moved(id, target, after) = InsertAt(r, p + after, id) /\ p + after \in 1 .. Len(r) + 1
  BY <1>12, <1>13, <1>9, <1>4
<1>15. InsertAt(r, p + after, id) \in Seq(KnownBrokers) /\ NoneTwice(InsertAt(r, p + after, id))
  BY <1>3, <1>9, <1>10, <1>14, PutIn
<1> HIDE DEF Moved
<1>16. Usable([app EXCEPT !.order = Moved(id, target, after)], brokers)
  BY <1>1, <1>14, <1>15, NewOrder DEF Ready
<1> QED BY <1>2, <1>16, FrameKeeps DEF Edit

LEMMA ResetKeeps == ASSUME DashboardLimits, DashboardInv, ResetBrokerOrder PROVE DashboardInv'
<1>1. Ready
  BY ReadyWhenUp DEF ResetBrokerOrder, Edit, Frame
<1>2. Lists(InConfigOrder(brokers), brokers)
  BY <1>1, ConfigOrder DEF Ready
<1>3. InConfigOrder(brokers) \in Seq(KnownBrokers) /\ NoneTwice(InConfigOrder(brokers))
  BY <1>1, <1>2, SeqMonotonic DEF Ready, Lists
<1>4. Usable([app EXCEPT !.order = InConfigOrder(brokers)], brokers)
  BY <1>1, <1>3, NewOrder DEF Ready
<1> QED BY <1>4, FrameKeeps DEF ResetBrokerOrder, Edit

LEMMA ChooseKeeps == ASSUME DashboardLimits, DashboardInv, ChooseTargets PROVE DashboardInv'
<1>1. Ready
  BY ReadyWhenUp DEF ChooseTargets, Edit, Frame
<1>2. app.targets \subseteq brokers
  BY <1>1 DEF Ready, Usable
<1>3. PICK t \in SUBSET brokers : Edit([app EXCEPT !.targets = t])
  <2>1. CASE \E id \in brokers : Edit([app EXCEPT !.targets = (@ \cup {id}) \ (@ \cap {id})])
    <3>1. PICK id \in brokers : Edit([app EXCEPT !.targets = (app.targets \cup {id}) \ (app.targets \cap {id})])
      BY <2>1
    <3>2. (app.targets \cup {id}) \ (app.targets \cap {id}) \in SUBSET brokers
      BY <1>2
    <3> QED BY <3>1, <3>2
  <2>2. CASE Edit([app EXCEPT !.targets = brokers]) \/ Edit([app EXCEPT !.targets = {}])
    BY <2>2
  <2> QED BY <2>1, <2>2 DEF ChooseTargets
<1>4. Usable([app EXCEPT !.targets = t], brokers)
  BY <1>1, NewTargets DEF Ready
<1> QED BY <1>3, <1>4, FrameKeeps DEF Edit

LEMMA SettingKeeps == ASSUME DashboardLimits, DashboardInv, ChangeSetting PROVE DashboardInv'
<1>1. Ready
  BY ReadyWhenUp DEF ChangeSetting, Edit, Frame
<1>2. Usable([app EXCEPT !.setting = ~@], brokers)
  BY <1>1, NewSetting DEF Ready
<1> QED BY <1>2, FrameKeeps DEF ChangeSetting, Edit

LEMMA IdleKeeps == ASSUME DashboardLimits, DashboardInv, IdleFrame PROVE DashboardInv'
<1>1. Ready
  BY ReadyWhenUp DEF IdleFrame, Frame
<1> QED BY <1>1, FrameKeeps DEF IdleFrame, Ready

\* The time zone of the clock is no part of what is said of the choices.
LEMMA TimezoneKeeps ==
  ASSUME DashboardLimits, DashboardInv, ChooseTimezone \/ ClickClock PROVE DashboardInv'
<1>1. PICK marked \in BOOLEAN : Frame(app, marked)
  BY DEF ChooseTimezone, ClickClock
<1>2. Ready
  BY <1>1, ReadyWhenUp DEF Frame
<1> QED BY <1>1, <1>2, FrameKeeps DEF Ready

LEMMA EndFrameKeeps == ASSUME DashboardLimits, DashboardInv, EndFrame PROVE DashboardInv'
<1>1. Ready
  BY ReadyWhenUp DEF EndFrame
<1>2. frame_drawn' = FALSE /\ brokers' = brokers /\ up' = up /\ app' = app /\ engine_pair' = engine_pair
  BY DEF EndFrame
<1>3. CASE file' = file /\ state_dirty' = state_dirty
  <2>1. SavedIsShown'
    BY <1>2, <1>3 DEF DashboardInv, SavedIsShown, InOrder
  <2> QED BY <1>2, <1>3, <2>1 DEF DashboardInv
<1>4. CASE file' = Saved(app, chart_timezone) /\ state_dirty' = FALSE
  <2>1. file'.is = "saved" /\ file'.state = app
    BY <1>4 DEF Saved
  <2>2. Readable(app)
    BY DEF DashboardInv
  <2>3. Reconciled(app, brokers) = Fitted(app, brokers)
        /\ Usable(Fitted(app, brokers), brokers)
    BY <1>1, <2>2, ReconciledIs, FittedUsable DEF Ready
  <2>4. Loaded(file', brokers) = Fitted(app, brokers)
    BY <2>1, <2>3 DEF Loaded
  <2>5. Reconciled(Fitted(app, brokers), brokers) = Fitted(app, brokers)
    BY <1>1, <2>3, ReconciledIs, FittedTwice DEF Ready, Usable
  <2>6. SavedIsShown'
    BY <1>2, <2>3, <2>4, <2>5 DEF SavedIsShown
  <2> QED BY <1>2, <1>4, <2>1, <2>2, <2>6 DEF DashboardInv
<1> QED BY <1>3, <1>4 DEF EndFrame, DashboardInv

LEMMA LeaveKeeps == ASSUME DashboardLimits, DashboardInv, Leave PROVE DashboardInv'
<1>1. /\ up' = FALSE /\ frame_drawn' = FALSE /\ brokers' = brokers /\ app' = app
      /\ state_dirty' = state_dirty /\ engine_pair' = engine_pair
  BY DEF Leave
<1>2. SavedIsShown'
  BY <1>1 DEF SavedIsShown
<1>3. file'.is = "saved" => Readable(file'.state)
  <2>1. CASE file' = Saved(app, chart_timezone)
    BY <2>1 DEF Saved, DashboardInv
  <2>2. CASE file' = file
    BY <2>2 DEF DashboardInv
  <2>3. CASE file' = Unreadable("broken")
    BY <2>3 DEF Unreadable
  <2> QED BY <2>1, <2>2, <2>3 DEF Leave
<1> QED BY <1>1, <1>2, <1>3 DEF DashboardInv

LEMMA StartKeeps == ASSUME DashboardLimits, DashboardInv, StartAgain PROVE DashboardInv'
<1>1. PICK bs \in Configurations : brokers' = bs /\ app' = Loaded(file, bs) /\ engine_pair' = app'.pair
  BY DEF StartAgain
<1>2. up' = TRUE /\ state_dirty' = FALSE /\ frame_drawn' = frame_drawn /\ file' = file
  BY DEF StartAgain
<1>3. Usable(Loaded(file, bs), bs)
  BY LoadedUsable DEF DashboardInv
<1>4. SavedIsShown'
  <2>1. app' = Loaded(file', brokers')
    BY <1>1, <1>2
  <2> QED BY <2>1 DEF SavedIsShown
<1>5. Readable(app')
  BY <1>1, <1>3 DEF Usable
<1> QED BY <1>1, <1>2, <1>3, <1>4, <1>5 DEF DashboardInv

LEMMA StandKeeps == ASSUME DashboardInv, UNCHANGED dashboardVars PROVE DashboardInv'
<1>1. /\ brokers' = brokers /\ up' = up /\ app' = app /\ state_dirty' = state_dirty
      /\ frame_drawn' = frame_drawn /\ file' = file /\ engine_pair' = engine_pair
  BY DEF dashboardVars
<1>2. SavedIsShown'
  BY <1>1 DEF DashboardInv, SavedIsShown, InOrder
<1> QED BY <1>1, <1>2 DEF DashboardInv

\* The time zone is saved or the state is marked, but for a click on the clock.
LEMMA ZoneStarts == DashboardInit => TimezoneIsSaved
BY DEF DashboardInit, TimezoneIsSaved

\* The frames that leave the time zone alone never clear the mark.
LEMMA EditKeepsZone ==
  ASSUME DashboardInv, TimezoneIsSaved, NEW changed, Edit(changed) PROVE TimezoneIsSaved'
<1>1. /\ up' = up /\ file' = file /\ chart_timezone' = chart_timezone
      /\ clock_clicked' = clock_clicked /\ (state_dirty => state_dirty')
  BY DEF Edit, Frame
<1> QED BY <1>1 DEF TimezoneIsSaved, Edit, Frame

LEMMA ZoneKept ==
  ASSUME DashboardInv, TimezoneIsSaved, [DashboardNext]_dashboardVars PROVE TimezoneIsSaved'
<1>1. ASSUME NEW changed, Edit(changed) PROVE TimezoneIsSaved'
  BY <1>1, EditKeepsZone
<1>2. CASE SelectBroker
  BY <1>1, <1>2 DEF SelectBroker
<1>3. CASE CyclePair
  BY <1>1, <1>3 DEF CyclePair
<1>4. CASE HideBroker
  BY <1>1, <1>4 DEF HideBroker
<1>5. CASE ShowBroker
  BY <1>1, <1>5 DEF ShowBroker
<1>6. CASE MoveBrokerOrder
  BY <1>1, <1>6 DEF MoveBrokerOrder
<1>7. CASE ResetBrokerOrder
  BY <1>1, <1>7 DEF ResetBrokerOrder
<1>8. CASE ChooseTargets
  BY <1>1, <1>8 DEF ChooseTargets
<1>9. CASE ChangeSetting
  BY <1>1, <1>9 DEF ChangeSetting
<1>10. CASE IdleFrame
  <2>1. /\ up' = up /\ file' = file /\ chart_timezone' = chart_timezone
        /\ clock_clicked' = clock_clicked /\ (state_dirty => state_dirty')
    BY <1>10 DEF IdleFrame, Frame
  <2> QED BY <2>1 DEF TimezoneIsSaved
<1>11. CASE ChooseTimezone
  <2>1. state_dirty'
    BY <1>11 DEF ChooseTimezone, Frame
  <2> QED BY <2>1 DEF TimezoneIsSaved
<1>12. CASE ClickClock
  <2>1. clock_clicked'
    BY <1>12 DEF ClickClock
  <2> QED BY <2>1 DEF TimezoneIsSaved
<1>13. CASE EndFrame
  <2>1. up' = up /\ chart_timezone' = chart_timezone
    BY <1>13 DEF EndFrame
  <2>2. CASE UNCHANGED <<file, state_dirty, clock_clicked>>
    BY <2>1, <2>2 DEF TimezoneIsSaved
  <2>3. CASE file' = Saved(app, chart_timezone)
    BY <2>1, <2>3 DEF TimezoneIsSaved, Saved
  <2> QED BY <1>13, <2>2, <2>3 DEF EndFrame
<1>14. CASE Leave
  BY <1>14 DEF Leave, TimezoneIsSaved
<1>15. CASE StartAgain
  <2>1. chart_timezone' = file.zone /\ file' = file
    BY <1>15 DEF StartAgain
  <2> QED BY <2>1 DEF TimezoneIsSaved
<1>16. CASE UNCHANGED dashboardVars
  BY <1>16 DEF dashboardVars, TimezoneIsSaved
<1> QED BY <1>2, <1>3, <1>4, <1>5, <1>6, <1>7, <1>8, <1>9, <1>10, <1>11, <1>12, <1>13, <1>14,
           <1>15, <1>16 DEF DashboardNext

LEMMA DashboardSays ==
  ASSUME DashboardLimits, DashboardInv, TimezoneIsSaved PROVE DashboardCorrect
<1>1. Readable(app)
  BY DEF DashboardInv
<1>2. ToSet(app.order) \subseteq KnownBrokers /\ Cardinality(ToSet(app.order)) = Len(app.order)
  BY <1>1, Changed, CountNoneTwice
<1>3. DashboardTypeOK
  BY <1>1, <1>2, Changed DEF DashboardTypeOK, DashboardInv
<1>4. PairIsUsable
  BY DEF DashboardInv, PairIsUsable, Usable, TwoOf, VisibleOf
<1> QED BY <1>3, <1>4 DEF DashboardCorrect, DashboardInv

\* Whatever brokers are configured, hidden, moved and compared, and wherever the program
\* stops: two brokers stay visible, the engine analyses the pair that is shown, and with
\* nothing left to save the next start shows what this one does, the time zone too unless
\* the clock was clicked since the last save (dashboard/mod.rs, settings.rs).
THEOREM DashboardIsCorrect ==
  ASSUME DashboardLimits PROVE DashboardSpec => []DashboardCorrect
<1>1. DashboardInit => DashboardInv /\ TimezoneIsSaved
  BY DashboardStarts, ZoneStarts
<1>2. DashboardInv /\ TimezoneIsSaved /\ [DashboardNext]_dashboardVars
      => DashboardInv' /\ TimezoneIsSaved'
  <2> SUFFICES ASSUME DashboardInv, TimezoneIsSaved, [DashboardNext]_dashboardVars
               PROVE  DashboardInv' /\ TimezoneIsSaved'
    OBVIOUS
  <2>1. ASSUME DashboardNext PROVE DashboardInv'
    BY <2>1, IdleKeeps, SelectKeeps, CycleKeeps, HideKeeps, ShowKeeps, MoveKeeps, ResetKeeps,
       ChooseKeeps, SettingKeeps, TimezoneKeeps, EndFrameKeeps, LeaveKeeps, StartKeeps
       DEF DashboardNext
  <2>2. ASSUME UNCHANGED dashboardVars PROVE DashboardInv'
    BY <2>2, StandKeeps
  <2>3. TimezoneIsSaved'
    BY ZoneKept
  <2> QED BY <2>1, <2>2, <2>3
<1>3. DashboardInv /\ TimezoneIsSaved => DashboardCorrect
  BY DashboardSays
<1> QED BY <1>1, <1>2, <1>3, PTL DEF DashboardSpec

-----------------------------------------------------------------------------
(* The quote path (QuotePath). *)

Maps(V) == UNION {[D -> V] : D \in SUBSET QuoteBrokers}
Priced == [mid : MidPrices, at : Int]
Quoted == [mid : MidPrices, rx : Int, warm : BOOLEAN]

LEMMA MapIs ==
  ASSUME NEW V, NEW m
  PROVE  m \in Maps(V) <=> /\ DOMAIN m \subseteq QuoteBrokers /\ m = [b \in DOMAIN m |-> m[b]]
                           /\ \A b \in DOMAIN m : m[b] \in V
<1>1. ASSUME m \in Maps(V)
      PROVE  /\ DOMAIN m \subseteq QuoteBrokers /\ m = [b \in DOMAIN m |-> m[b]]
             /\ \A b \in DOMAIN m : m[b] \in V
  <2>1. PICK D \in SUBSET QuoteBrokers : m \in [D -> V]
    BY <1>1 DEF Maps
  <2> QED BY <2>1
<1>2. ASSUME DOMAIN m \subseteq QuoteBrokers, m = [b \in DOMAIN m |-> m[b]], \A b \in DOMAIN m : m[b] \in V
      PROVE  m \in Maps(V)
  <2>1. m \in [DOMAIN m -> V]
    BY <1>2
  <2> QED BY <2>1, <1>2 DEF Maps
<1> QED BY <1>1, <1>2

LEMMA PutIs ==
  ASSUME NEW V, NEW m \in Maps(V), NEW b \in QuoteBrokers, NEW v \in V
  PROVE  /\ Put(m, b, v) \in Maps(V) /\ DOMAIN Put(m, b, v) = DOMAIN m \cup {b}
         /\ Put(m, b, v)[b] = v /\ \A c \in DOMAIN m : c # b => Put(m, b, v)[c] = m[c]
<1>1. DOMAIN m \subseteq QuoteBrokers /\ \A c \in DOMAIN m : m[c] \in V
  BY MapIs
<1> DEFINE D == DOMAIN m \cup {b}
<1>2. Put(m, b, v) = [c \in D |-> IF c = b THEN v ELSE m[c]]
  BY DEF Put
<1>3. D \in SUBSET QuoteBrokers /\ Put(m, b, v) \in [D -> V]
  BY <1>1, <1>2
<1> QED BY <1>2, <1>3 DEF Maps

LEMMA MedianIsNumber ==
  ASSUME PathLimits, NEW m \in Maps(Priced), DOMAIN m # {}
  PROVE  MedianOfMids(m) \in Int
<1> DEFINE f == [b \in DOMAIN m |-> m[b].mid]
           n == Cardinality(DOMAIN m)
<1>1. DOMAIN m \subseteq Int /\ IsFiniteSet(DOMAIN m) /\ \A b \in DOMAIN m : m[b].mid \in Int
  <2>1. DOMAIN m \subseteq QuoteBrokers /\ \A b \in DOMAIN m : m[b] \in Priced
    BY MapIs
  <2> QED BY <2>1, FS_Subset DEF PathLimits, Priced
<1>2. Numbering(f) /\ DOMAIN f = DOMAIN m
  BY <1>1 DEF Numbering
<1>3. n \in Nat /\ n # 0
  BY <1>1, FS_CardinalityType, FS_EmptySet
<1> HIDE DEF f
<1>4. \A k \in 1 .. n : Ascending(f)[k] \in Int
  BY <1>2, KeyAt
<1> HIDE DEF n
<1>5. CASE n % 2 = 1
  <2>1. (n \div 2) + 1 \in 1 .. n
    BY <1>3, <1>5
  <2>2. MedianOfMids(m) = 2 * Ascending(f)[(n \div 2) + 1]
    BY <1>5 DEF MedianOfMids, f, n
  <2> QED BY <2>1, <2>2, <1>4
<1>6. CASE n % 2 # 1
  <2>1. (n \div 2) + 1 \in 1 .. n /\ n \div 2 \in 1 .. n
    BY <1>3, <1>6
  <2>2. MedianOfMids(m) = Ascending(f)[n \div 2] + Ascending(f)[(n \div 2) + 1]
    BY <1>6 DEF MedianOfMids, f, n
  <2> QED BY <2>1, <2>2, <1>4
<1> QED BY <1>5, <1>6

-----------------------------------------------------------------------------
Ways == {"warmup", "live", "rebuilt", "redrawn"}

Longest == IF Stale > MergeDistance THEN Stale ELSE MergeDistance

ShowsItsTime(p) ==
  /\ DOMAIN p.mids # {} => p.consensus = MedianOfMids(p.mids)
  /\ \A b \in DOMAIN p.mids :
       /\ p.made \in {"live", "rebuilt"} => p.mids[b].at <= p.at + MergeDistance
       /\ p.made = "live" => p.mids[b].at >= p.at - Longest

GoodPoints == {p \in [at : Int, mids : Maps(Priced), consensus : Int, made : Ways] : ShowsItsTime(p)}

LEMMA PointIsGood ==
  ASSUME PathLimits, NEW t \in Int, NEW m \in Maps(Priced), NEW made \in Ways,
         \A b \in DOMAIN m : /\ made \in {"live", "rebuilt"} => m[b].at <= t + MergeDistance
                             /\ made = "live" => m[b].at >= t - Longest
  PROVE  PathPoint(t, m, made) \in GoodPoints /\ PathPoint(t, m, made).at = t
         /\ PathPoint(t, m, made).mids = m /\ PathPoint(t, m, made).made = made
<1> DEFINE c == IF DOMAIN m = {} THEN 0 ELSE MedianOfMids(m)
           p == [at |-> t, mids |-> m, consensus |-> c, made |-> made]
<1>1. c \in Int
  <2>1. CASE DOMAIN m = {}
    BY <2>1
  <2>2. CASE DOMAIN m # {}
    <3>1. MedianOfMids(m) \in Int
      BY <2>2, MedianIsNumber
    <3> QED BY <2>2, <3>1
  <2> QED BY <2>1, <2>2
<1>2. PathPoint(t, m, made) = p
  BY DEF PathPoint
<1>3. DOMAIN m # {} => c = MedianOfMids(m)
  OBVIOUS
<1> HIDE DEF c
<1>4. p \in [at : Int, mids : Maps(Priced), consensus : Int, made : Ways]
  BY <1>1
<1>5. p.at = t /\ p.mids = m /\ p.consensus = c /\ p.made = made
  OBVIOUS
<1> HIDE DEF p
<1>6. ShowsItsTime(p)
  BY <1>3, <1>5 DEF ShowsItsTime
<1> QED BY <1>2, <1>4, <1>5, <1>6 DEF GoodPoints

\* A point that shows one more price of about its time.
LEMMA MergedIsGood ==
  ASSUME PathLimits, NEW p \in GoodPoints, NEW b \in QuoteBrokers, NEW price \in Priced,
         price.at <= p.at + MergeDistance, p.made = "live" => price.at >= p.at - MergeDistance
  PROVE  Merged(p, b, price) \in GoodPoints /\ Merged(p, b, price).at = p.at
         /\ Merged(p, b, price).mids = Put(p.mids, b, price) /\ Merged(p, b, price).made = p.made
<1>1. /\ p = [at |-> p.at, mids |-> p.mids, consensus |-> p.consensus, made |-> p.made]
      /\ p.at \in Int /\ p.mids \in Maps(Priced) /\ p.made \in Ways /\ ShowsItsTime(p)
  BY DEF GoodPoints
<1> DEFINE m == Put(p.mids, b, price)
           c == MedianOfMids(m)
           q == [at |-> p.at, mids |-> m, consensus |-> c, made |-> p.made]
<1>2. m \in Maps(Priced) /\ DOMAIN m = DOMAIN p.mids \cup {b} /\ m[b] = price
      /\ \A k \in DOMAIN p.mids : k # b => m[k] = p.mids[k]
  <2>1. PICK old \in Maps(Priced) : old = p.mids
    BY <1>1
  <2>2. /\ Put(old, b, price) \in Maps(Priced) /\ DOMAIN Put(old, b, price) = DOMAIN old \cup {b}
        /\ Put(old, b, price)[b] = price /\ \A k \in DOMAIN old : k # b => Put(old, b, price)[k] = old[k]
    BY PutIs
  <2> QED BY <2>1, <2>2
<1>3. Merged(p, b, price) = [p EXCEPT !.mids = m, !.consensus = c]
  BY DEF Merged
<1> HIDE DEF m
<1>4. c \in Int
  BY <1>2, MedianIsNumber
<1> HIDE DEF c
<1>5. Merged(p, b, price) = q
  BY <1>1, <1>3
<1>6. q \in [at : Int, mids : Maps(Priced), consensus : Int, made : Ways]
      /\ q.at = p.at /\ q.mids = m /\ q.consensus = c /\ q.made = p.made
  BY <1>1, <1>2, <1>4
<1> HIDE DEF q
<1>7. MergeDistance <= Longest /\ MergeDistance \in Int /\ Longest \in Int
  BY DEF Longest, PathLimits
<1>8. price.at \in Int
  BY DEF Priced
<1>9. ASSUME NEW k \in DOMAIN q.mids
      PROVE  /\ q.made \in {"live", "rebuilt"} => q.mids[k].at <= q.at + MergeDistance
             /\ q.made = "live" => q.mids[k].at >= q.at - Longest
  <2>1. CASE k = b
    <3>1. q.mids[k] = price
      BY <2>1, <1>2, <1>6
    <3> QED BY <3>1, <1>1, <1>6, <1>7, <1>8
  <2>2. CASE k # b
    <3>1. k \in DOMAIN p.mids /\ q.mids[k] = p.mids[k]
      BY <2>2, <1>2, <1>6, <1>9
    <3> QED BY <3>1, <1>1, <1>6 DEF ShowsItsTime
  <2> QED BY <2>1, <2>2
<1>10. ShowsItsTime(q)
  BY <1>6, <1>9 DEF ShowsItsTime, c
<1> QED BY <1>5, <1>6, <1>10 DEF GoodPoints, m

-----------------------------------------------------------------------------
FinePath(path) ==
  /\ path \in Seq(GoodPoints)
  /\ \A i, j \in 1 .. Len(path) : i < j => path[i].at <= path[j].at

LEMMA PathIs ==
  ASSUME NEW path, FinePath(path)
  PROVE  /\ Len(path) \in Nat /\ DOMAIN path = 1 .. Len(path)
         /\ \A i \in 1 .. Len(path) : path[i] \in GoodPoints /\ path[i].at \in Int
         /\ \A i, j \in 1 .. Len(path) : i <= j => path[i].at <= path[j].at
<1>1. Len(path) \in Nat /\ DOMAIN path = 1 .. Len(path)
  BY LenProperties DEF FinePath
<1>2. \A i \in 1 .. Len(path) : path[i] \in GoodPoints
  BY ElementOfSeq DEF FinePath
<1>3. \A i \in 1 .. Len(path) : path[i].at \in Int
  BY <1>2 DEF GoodPoints
<1> QED BY <1>1, <1>2, <1>3 DEF FinePath

LEMMA PrunedIsFine ==
  ASSUME NEW path, FinePath(path), NEW limit \in Nat
  PROVE  /\ FinePath(PathPruned(path, limit)) /\ Len(PathPruned(path, limit)) <= limit
         /\ Len(PathPruned(path, limit)) <= Len(path)
         /\ limit # 0 /\ path # << >> =>
              /\ Len(PathPruned(path, limit)) > 0
              /\ PathPruned(path, limit)[Len(PathPruned(path, limit))] = path[Len(path)]
         /\ \A i \in 1 .. Len(PathPruned(path, limit)) :
              \E j \in 1 .. Len(path) : PathPruned(path, limit)[i] = path[j]
<1>1. PICK n \in Nat : n = Len(path) /\ DOMAIN path = 1 .. n
  BY PathIs
<1>2. path \in Seq(GoodPoints) /\ \A i \in 1 .. n : path[i] \in GoodPoints
  BY <1>1, PathIs DEF FinePath
<1>3. path # << >> => n > 0
  BY <1>1, <1>2, EmptySeq
<1>4. CASE ~(n > limit)
  BY <1>1, <1>2, <1>3, <1>4 DEF PathPruned
<1>5. CASE n > limit
  <2> DEFINE s == SubSeq(path, n - limit + 1, n)
  <2>1. /\ s \in Seq(GoodPoints)
        /\ Len(s) = (IF n - limit + 1 <= n THEN n - (n - limit + 1) + 1 ELSE 0)
        /\ \A i \in 1 .. n - (n - limit + 1) + 1 : s[i] = path[n - limit + 1 + i - 1]
    <3>1. \A i \in n - limit + 1 .. n : path[i] \in GoodPoints
      BY <1>1, <1>2, <1>5
    <3> QED BY <3>1, <1>1, SubSeqProperties
  <2>2. PathPruned(path, limit) = s
    BY <1>1, <1>5 DEF PathPruned
  <2> HIDE DEF s
  <2>3. Len(s) = limit
    BY <2>1, <1>1, <1>5
  <2>4. \A i \in 1 .. limit : s[i] = path[n - limit + i] /\ n - limit + i \in 1 .. n
    <3> TAKE i \in 1 .. limit
    <3>1. i \in 1 .. n - (n - limit + 1) + 1 /\ n - limit + 1 + i - 1 = n - limit + i
      BY <1>1, <1>5
    <3> QED BY <3>1, <2>1, <1>1, <1>5
  <2>5. ASSUME NEW i \in 1 .. limit, NEW j \in 1 .. limit, i < j PROVE s[i].at <= s[j].at
    <3>1. n - limit + i <= n - limit + j
      BY <2>5, <1>1
    <3> QED BY <3>1, <2>4, <1>1, PathIs
  <2>6. FinePath(s)
    BY <2>1, <2>3, <2>5 DEF FinePath
  <2>7. limit # 0 => s[limit] = path[n]
    <3>1. limit # 0 => limit \in 1 .. limit /\ n - limit + limit = n
      BY <1>1
    <3> QED BY <3>1, <2>4
  <2> QED BY <2>2, <2>3, <2>4, <2>6, <2>7, <1>1, <1>5
<1> QED BY <1>4, <1>5, <1>1

LEMMA AppendIsFine ==
  ASSUME NEW path, FinePath(path), NEW p \in GoodPoints,
         \A i \in 1 .. Len(path) : path[i].at <= p.at
  PROVE  /\ FinePath(Append(path, p)) /\ Len(Append(path, p)) = Len(path) + 1
         /\ Append(path, p)[Len(path) + 1] = p /\ Append(path, p) # << >>
         /\ \A i \in 1 .. Len(path) : Append(path, p)[i] = path[i]
<1>1. PICK n \in Nat : n = Len(path)
  BY PathIs
<1> DEFINE s == Append(path, p)
<1>2. s \in Seq(GoodPoints) /\ Len(s) = n + 1 /\ s[n + 1] = p /\ \A i \in 1 .. n : s[i] = path[i]
  BY <1>1, AppendProperties DEF FinePath
<1>3. s # << >>
  BY <1>1
<1> HIDE DEF s
<1>4. ASSUME NEW i \in 1 .. n + 1, NEW j \in 1 .. n + 1, i < j PROVE s[i].at <= s[j].at
  <2>1. i \in 1 .. n /\ s[i] = path[i]
    BY <1>1, <1>2, <1>4
  <2>2. CASE j = n + 1
    BY <2>1, <2>2, <1>1, <1>2
  <2>3. CASE j # n + 1
    <3>1. j \in 1 .. n /\ s[j] = path[j]
      BY <2>3, <1>1, <1>2
    <3> QED BY <2>1, <3>1, <1>1, <1>4 DEF FinePath
  <2> QED BY <2>2, <2>3
<1>5. FinePath(s)
  BY <1>2, <1>4 DEF FinePath
<1> QED BY <1>1, <1>2, <1>3, <1>5 DEF s

LEMMA ReplaceIsFine ==
  ASSUME NEW path, FinePath(path), NEW k \in 1 .. Len(path), NEW q \in GoodPoints, q.at = path[k].at
  PROVE  /\ FinePath([path EXCEPT ![k] = q]) /\ Len([path EXCEPT ![k] = q]) = Len(path)
         /\ [path EXCEPT ![k] = q][k] = q
         /\ \A i \in 1 .. Len(path) : [path EXCEPT ![k] = q][i].at = path[i].at
<1>1. PICK n \in Nat : n = Len(path) /\ DOMAIN path = 1 .. n
  BY PathIs
<1> DEFINE s == [path EXCEPT ![k] = q]
<1>2. s \in Seq(GoodPoints) /\ Len(s) = n
  BY <1>1, ExceptSeq DEF FinePath
<1>3. \A i \in 1 .. n : s[i] = IF i = k THEN q ELSE path[i]
  BY <1>1
<1> HIDE DEF s
<1>4. \A i \in 1 .. n : s[i].at = path[i].at
  BY <1>3
<1>5. FinePath(s)
  BY <1>1, <1>2, <1>4 DEF FinePath
<1> QED BY <1>1, <1>2, <1>3, <1>4, <1>5 DEF s

LEMMA InsertIsFine ==
  ASSUME NEW path, FinePath(path), NEW p \in GoodPoints, NEW k \in 1 .. Len(path),
         \A i \in 1 .. Len(path) : i < k => path[i].at < p.at, path[k].at >= p.at
  PROVE  FinePath(InsertAt(path, k, p))
<1>1. PICK n \in Nat : n = Len(path)
  BY PathIs
<1> DEFINE s == InsertAt(path, k, p)
<1>2. k \in 1 .. n + 1 /\ k \in Int
  BY <1>1
<1>3. /\ s \in Seq(GoodPoints) /\ Len(s) = n + 1
      /\ \A j \in 1 .. n + 1 : s[j] = IF j = k THEN p ELSE IF j < k THEN path[j] ELSE path[j - 1]
  <2>1. path \in Seq(GoodPoints) /\ k \in 1 .. Len(path) + 1 /\ Len(path) + 1 = n + 1
    BY <1>1, <1>2 DEF FinePath
  <2>2. /\ s \in Seq(GoodPoints) /\ Len(s) = Len(path) + 1
        /\ \A j \in 1 .. Len(path) + 1 : s[j] = IF j = k THEN p ELSE IF j < k THEN path[j] ELSE path[j - 1]
    BY <2>1, Inserted
  <2> HIDE DEF s
  <2> QED BY <2>1, <2>2
<1> HIDE DEF s
<1>4. p.at \in Int
  BY DEF GoodPoints
<1>5. \A i \in 1 .. n : path[i].at \in Int
  BY <1>1, PathIs
<1>6. \A i \in 1 .. n : i >= k => path[i].at >= p.at
  <2> TAKE i \in 1 .. n
  <2> HAVE i >= k
  <2>1. path[k].at <= path[i].at
    BY <1>1, <1>2, PathIs
  <2> QED BY <2>1, <1>1, <1>4, <1>5
<1>7. ASSUME NEW i \in 1 .. n + 1, NEW j \in 1 .. n + 1, i < j PROVE s[i].at <= s[j].at
  <2>1. CASE j < k
    <3>1. i \in 1 .. n /\ j \in 1 .. n /\ i < k /\ s[i] = path[i] /\ s[j] = path[j]
      BY <2>1, <1>1, <1>2, <1>3, <1>7
    <3> QED BY <3>1, <1>1, <1>7, PathIs
  <2>2. CASE j = k
    <3>1. i \in 1 .. n /\ s[i] = path[i] /\ s[j] = p
      BY <2>2, <1>1, <1>2, <1>3, <1>7
    <3> QED BY <3>1, <2>2, <1>1, <1>4, <1>5, <1>7
  <2>3. CASE j > k
    <3>1. j - 1 \in 1 .. n /\ s[j] = path[j - 1] /\ j - 1 >= k
      BY <2>3, <1>1, <1>2, <1>3
    <3>2. CASE i < k
      <4>1. i \in 1 .. n /\ s[i] = path[i] /\ i <= j - 1
        BY <3>2, <2>3, <1>1, <1>2, <1>3, <1>7
      <4> QED BY <3>1, <4>1, <1>1, PathIs
    <3>3. CASE i = k
      BY <3>1, <3>3, <1>3, <1>6
    <3>4. CASE i > k
      <4>1. i - 1 \in 1 .. n /\ s[i] = path[i - 1] /\ i - 1 <= j - 1
        BY <3>4, <1>1, <1>2, <1>3, <1>7
      <4> QED BY <3>1, <4>1, <1>1, PathIs
    <3> QED BY <3>2, <3>3, <3>4, <1>2
  <2> QED BY <2>1, <2>2, <2>3, <1>2
<1> QED BY <1>3, <1>7 DEF FinePath, s

\* Where a tick before the last point belongs.
LEMMA PartitionIs ==
  ASSUME FinePath(realtime_quote_history), NEW t \in Int, realtime_quote_history # << >>,
         t < realtime_quote_history[Len(realtime_quote_history)].at
  PROVE  /\ PartitionPoint(t) \in 1 .. Len(realtime_quote_history)
         /\ realtime_quote_history[PartitionPoint(t)].at >= t
         /\ \A i \in 1 .. Len(realtime_quote_history) :
              i < PartitionPoint(t) => realtime_quote_history[i].at < t
<1> DEFINE path == realtime_quote_history
           S == {i \in 1 .. Len(path) : path[i].at >= t}
<1>1. PICK n \in Nat : n = Len(path) /\ DOMAIN path = 1 .. n
  BY PathIs
<1>2. n # 0
  BY <1>1, EmptySeq DEF FinePath
<1>3. \A i \in 1 .. n : path[i].at \in Int
  BY <1>1, PathIs
<1>4. n \in S
  BY <1>1, <1>2, <1>3
<1>5. S \in SUBSET Nat /\ S # {}
  BY <1>1, <1>4
<1>6. PICK m \in S : \A k \in S : m <= k
  BY <1>5, LeastExists
<1>7. m \in 1 .. n /\ path[m].at >= t
  BY <1>1, <1>6
<1>8. \A i \in 1 .. n : i < m => path[i].at < t
  <2> TAKE i \in 1 .. n
  <2> HAVE i < m
  <2>1. i \notin S
    BY <1>1, <1>6, <1>7
  <2> QED BY <2>1, <1>1, <1>3
<1>9. \A i \in 1 .. n : path[i].at < t => i < m
  <2> TAKE i \in 1 .. n
  <2> HAVE path[i].at < t
  <2>1. SUFFICES ASSUME m <= i PROVE FALSE
    BY <1>1, <1>7
  <2>2. path[m].at <= path[i].at
    BY <2>1, <1>1, <1>7, PathIs
  <2> QED BY <2>2, <1>3, <1>7
<1>10. {i \in DOMAIN path : path[i].at < t} = 1 .. m - 1
  BY <1>1, <1>7, <1>8, <1>9
<1>11. Cardinality(1 .. m - 1) = m - 1
  <2>1. m - 1 \in Nat /\ (m - 1) - 1 + 1 = m - 1
    BY <1>1, <1>7
  <2> QED BY <2>1, <1>1, <1>7, FS_Interval
<1>12. PartitionPoint(t) = m
  <2>1. PartitionPoint(t) = Cardinality({i \in DOMAIN path : path[i].at < t}) + 1
    BY DEF PartitionPoint
  <2>2. PartitionPoint(t) = (m - 1) + 1
    BY <2>1, <1>10, <1>11
  <2>3. m \in Int
    BY <1>7
  <2> QED BY <2>2, <2>3
<1> QED BY <1>1, <1>7, <1>8, <1>12

PathInv ==
  /\ FinePath(realtime_quote_history) /\ Len(realtime_quote_history) <= RebuildMax
  /\ path_quotes \in Maps(Quoted)


LEMMA PathStarts == ASSUME PathLimits PROVE PathInit => PathInv
<1> SUFFICES ASSUME PathInit PROVE PathInv
  OBVIOUS
<1>1. path_quotes \in Maps(Quoted)
  <2>1. DOMAIN path_quotes = {} /\ path_quotes = << >>
    BY DEF PathInit
  <2>2. path_quotes = [b \in {} |-> path_quotes[b]]
    BY <2>1
  <2> QED BY <2>1, <2>2, MapIs
<1>2. FinePath(realtime_quote_history) /\ Len(realtime_quote_history) <= RebuildMax
  BY DEF PathInit, FinePath, PathLimits
<1> QED BY <1>1, <1>2 DEF PathInv

\* The quotes a new point shows.
LEMMA ShownPrices ==
  ASSUME PathLimits, NEW newest \in Maps(Quoted), NEW b \in QuoteBrokers, NEW price \in Priced,
         NEW rx \in Int, NEW warm \in BOOLEAN, NEW valid \in BOOLEAN,
         ~warm => price.at = rx
  PROVE  /\ PricesShown(newest, b, price, rx, warm, valid) \in Maps(Priced)
         /\ \A c \in DOMAIN PricesShown(newest, b, price, rx, warm, valid) :
              ~warm => /\ PricesShown(newest, b, price, rx, warm, valid)[c].at <= rx
                       /\ PricesShown(newest, b, price, rx, warm, valid)[c].at >= rx - Stale
<1> DEFINE others == {c \in DOMAIN newest \ {b} : warm \/ Contemporary(newest[c], rx)}
           D == others \cup (IF valid THEN {b} ELSE {})
           m == [c \in D |-> IF c = b THEN price ELSE [mid |-> newest[c].mid, at |-> newest[c].rx]]
<1>1. PricesShown(newest, b, price, rx, warm, valid) = m
  BY DEF PricesShown
<1>2. /\ DOMAIN newest \subseteq QuoteBrokers
      /\ \A c \in DOMAIN newest : newest[c].mid \in MidPrices /\ newest[c].rx \in Int /\ newest[c].warm \in BOOLEAN
  <2>1. DOMAIN newest \subseteq QuoteBrokers /\ \A c \in DOMAIN newest : newest[c] \in Quoted
    BY MapIs
  <2> QED BY <2>1 DEF Quoted
<1>3. D \in SUBSET QuoteBrokers
  BY <1>2
<1>4. \A c \in D : c # b => c \in others
  OBVIOUS
<1>5. \A c \in others : c \in DOMAIN newest /\ (warm \/ Contemporary(newest[c], rx))
  OBVIOUS
<1> HIDE DEF D, others
<1>6. ASSUME NEW c \in D
      PROVE  m[c] \in Priced /\ (~warm => m[c].at <= rx /\ m[c].at >= rx - Stale)
  <2>1. CASE c = b
    <3>1. m[c] = price
      BY <2>1
    <3>2. Stale \in Nat
      BY DEF PathLimits
    <3> QED BY <3>1, <3>2
  <2>2. CASE c # b
    <3>1. m[c] = [mid |-> newest[c].mid, at |-> newest[c].rx]
      BY <2>2
    <3>2. c \in DOMAIN newest /\ (warm \/ Contemporary(newest[c], rx))
      BY <1>4, <1>5, <2>2
    <3>3. m[c] \in Priced /\ m[c].at = newest[c].rx
      BY <3>1, <3>2, <1>2 DEF Priced
    <3>4. Stale \in Nat /\ newest[c].rx \in Int
      BY <3>2, <1>2 DEF PathLimits
    <3> QED BY <3>2, <3>3, <3>4 DEF Contemporary
  <2> QED BY <2>1, <2>2
<1>7. m \in [D -> Priced] /\ DOMAIN m = D
  BY <1>6
<1> HIDE DEF m
<1> QED BY <1>1, <1>3, <1>6, <1>7 DEF Maps

LEMMA TickKeepsPath ==
  ASSUME PathLimits, PathInv, NEW b \in QuoteBrokers, NEW rx \in PathTimes, NEW t \in PathTimes,
         NEW warm \in BOOLEAN, NEW valid \in BOOLEAN, NEW mid \in MidPrices,
         QuoteTick(b, rx, t, warm, valid, mid)
  PROVE  PathInv'
<1> DEFINE path == realtime_quote_history
           late == path # << >> /\ t < path[Len(path)].at
           price == [mid |-> mid, at |-> t]
           newest == IF valid THEN Put(path_quotes, b, [mid |-> mid, rx |-> rx, warm |-> warm])
                     ELSE path_quotes
           shown == PricesShown(newest, b, price, rx, warm, valid)
           made == IF warm THEN "warmup" ELSE "live"
           point == PathPoint(t, shown, made)
           target == MergeTarget(t)
           here == CHOOSE i \in target : TRUE
           new == IF ~late THEN Append(path, point)
                  ELSE IF target # {} THEN [path EXCEPT ![here] = Merged(@, b, price)]
                  ELSE InsertAt(path, PartitionPoint(t), point)
<1>1. /\ ~warm => t = rx
      /\ path_quotes' = newest /\ realtime_quote_history' = PathPruned(new, VisibleTicks)
  BY DEF QuoteTick
<1>2. t \in Int /\ rx \in Int /\ price \in Priced /\ price.at = t /\ made \in Ways
  <2> HIDE DEF path, late, newest, shown, point, target, here, new
  <2>0. PathTimes \subseteq Nat
    BY DEF PathLimits
  <2>1. t \in Int /\ rx \in Int
    BY <2>0
  <2>2. price \in Priced /\ price.at = t
    <3>1. mid \in MidPrices /\ t \in Int
      BY <2>1
    <3> QED BY <3>1 DEF Priced
  <2>3. made \in Ways
    BY DEF Ways
  <2> QED BY <2>1, <2>2, <2>3
<1>3. newest \in Maps(Quoted)
  <2>1. [mid |-> mid, rx |-> rx, warm |-> warm] \in Quoted
    BY <1>2 DEF Quoted
  <2>2. Put(path_quotes, b, [mid |-> mid, rx |-> rx, warm |-> warm]) \in Maps(Quoted)
    BY <2>1, PutIs DEF PathInv
  <2> QED BY <2>2 DEF PathInv
<1> HIDE DEF newest, price
<1>4. shown \in Maps(Priced) /\ \A c \in DOMAIN shown : ~warm => shown[c].at <= rx /\ shown[c].at >= rx - Stale
  BY <1>1, <1>2, <1>3, ShownPrices
<1> HIDE DEF shown
<1>5. /\ MergeDistance \in Nat /\ Stale \in Nat /\ Longest >= Stale /\ Longest \in Int
      /\ VisibleTicks \in Nat /\ VisibleTicks <= RebuildMax /\ RebuildMax \in Nat
  BY DEF PathLimits, Longest
<1>6. ASSUME NEW c \in DOMAIN shown
      PROVE  /\ made \in {"live", "rebuilt"} => shown[c].at <= t + MergeDistance
             /\ made = "live" => shown[c].at >= t - Longest
  <2>1. CASE warm
    BY <2>1
  <2>2. CASE ~warm
    <3>0. shown[c] \in Priced
      BY <1>4, MapIs
    <3>1. shown[c].at \in Int
      BY <3>0 DEF Priced
    <3> QED BY <2>2, <3>1, <1>1, <1>2, <1>4, <1>5
  <2> QED BY <2>1, <2>2
<1> HIDE DEF made
<1>7. point \in GoodPoints /\ point.at = t
  BY <1>2, <1>4, <1>6, PointIsGood
<1> HIDE DEF point
<1>8. FinePath(path)
  BY DEF PathInv
<1>9. FinePath(new)
  <2>1. CASE ~late
    <3>1. \A i \in 1 .. Len(path) : path[i].at <= point.at
      <4> TAKE i \in 1 .. Len(path)
      <4>1. Len(path) \in 1 .. Len(path) /\ i <= Len(path)
        BY <1>8, PathIs
      <4>2. path # << >>
        BY <4>1
      <4>3. path[i].at <= path[Len(path)].at /\ path[i].at \in Int /\ path[Len(path)].at \in Int
        BY <4>1, <1>8, PathIs
      <4> QED BY <2>1, <4>2, <4>3, <1>2, <1>7
    <3>2. FinePath(Append(path, point))
      BY <3>1, <1>7, <1>8, AppendIsFine
    <3> HIDE DEF late, path
    <3> QED BY <2>1, <3>2
  <2>2. ASSUME late
        PROVE  /\ PartitionPoint(t) \in 1 .. Len(path) /\ path[PartitionPoint(t)].at >= t
               /\ \A i \in 1 .. Len(path) : i < PartitionPoint(t) => path[i].at < t
    BY <2>2, <1>2, <1>8, PartitionIs
  <2>3. CASE late /\ target # {}
    <3>1. here \in target
      BY <2>3
    <3>2. \A i \in 1 .. Len(path) : path[i].at \in Int /\ path[i] \in GoodPoints
      BY <1>8, PathIs
    <3>3. here \in 1 .. Len(path) /\ t <= path[here].at + MergeDistance /\ t >= path[here].at - MergeDistance
      <4>0. PICK k \in 1 .. Len(path) : k = PartitionPoint(t) /\ path[k].at >= t
                                         /\ \A i \in 1 .. Len(path) : i < k => path[i].at < t
        BY <2>2, <2>3
      <4>1. PICK h : h = here
        OBVIOUS
      <4>2. (h = k /\ path[k].at - t <= MergeDistance)
            \/ (h = k - 1 /\ k > 1 /\ t - path[k - 1].at <= MergeDistance)
        BY <3>1, <4>0, <4>1 DEF MergeTarget
      <4> HIDE DEF here
      <4>3. CASE h = k /\ path[k].at - t <= MergeDistance
        BY <4>0, <4>1, <4>3, <3>2, <1>2, <1>5
      <4>4. CASE h = k - 1 /\ k > 1 /\ t - path[k - 1].at <= MergeDistance
        <5>1. k - 1 \in 1 .. Len(path) /\ k - 1 < k
          BY <4>0, <4>4, <1>8, PathIs
        <5>2. path[k - 1].at < t /\ path[k - 1].at \in Int
          BY <5>1, <4>0, <3>2
        <5> QED BY <5>1, <5>2, <4>1, <4>4, <1>2, <1>5
      <4> QED BY <4>2, <4>3, <4>4
    <3> HIDE DEF here
    <3>4. Merged(path[here], b, price) \in GoodPoints /\ Merged(path[here], b, price).at = path[here].at
      BY <3>2, <3>3, <1>2, MergedIsGood
    <3>5. FinePath([path EXCEPT ![here] = Merged(path[here], b, price)])
      BY <3>3, <3>4, <1>8, ReplaceIsFine
    <3> HIDE DEF late, target, path
    <3>6. new = [path EXCEPT ![here] = Merged(path[here], b, price)]
      BY <2>3
    <3> HIDE DEF new
    <3> QED BY <3>5, <3>6
  <2>4. CASE late /\ target = {}
    <3>1. PICK k \in 1 .. Len(path) : k = PartitionPoint(t) /\ path[k].at >= t
                                         /\ \A i \in 1 .. Len(path) : i < k => path[i].at < t
      BY <2>2, <2>4
    <3>2. FinePath(InsertAt(path, k, point))
      BY <3>1, <1>7, <1>8, InsertIsFine
    <3>3. new = InsertAt(path, k, point)
      <4> HIDE DEF late, target, path
      <4> QED BY <2>4, <3>1
    <3> QED BY <3>2, <3>3
  <2> HIDE DEF late, target, new
  <2> QED BY <2>1, <2>3, <2>4
<1> HIDE DEF new
<1>10. FinePath(PathPruned(new, VisibleTicks)) /\ Len(PathPruned(new, VisibleTicks)) <= RebuildMax
  <2>1. FinePath(PathPruned(new, VisibleTicks)) /\ Len(PathPruned(new, VisibleTicks)) <= VisibleTicks
    BY <1>5, <1>9, PrunedIsFine
  <2>2. Len(PathPruned(new, VisibleTicks)) \in Nat
    BY <2>1, PathIs
  <2> QED BY <2>1, <2>2, <1>5
<1>11. PICK q : q = realtime_quote_history'
  OBVIOUS
<1>12. FinePath(q) /\ Len(q) <= RebuildMax
  BY <1>1, <1>10, <1>11
<1>13. FinePath(realtime_quote_history)' /\ Len(realtime_quote_history') <= RebuildMax
  BY <1>11, <1>12 DEF FinePath
<1> QED BY <1>1, <1>3, <1>13 DEF PathInv

-----------------------------------------------------------------------------
\* A group of places has a first and a last one.
LEMMA Ends ==
  ASSUME NEW n \in Nat, NEW S \in SUBSET (1 .. n), S # {}
  PROVE  LastOf(S) \in S /\ FirstOf(S) \in S /\ \A j \in S : FirstOf(S) <= j /\ j <= LastOf(S)
<1>1. PICK f \in S : \A j \in S : f <= j
  <2>1. S \in SUBSET Nat
    OBVIOUS
  <2> QED BY <2>1, LeastExists
<1>2. PICK l \in S : \A j \in S : j <= l
  <2> DEFINE T == {k \in 0 .. n : n - k \in S}
  <2>1. T \in SUBSET Nat /\ T # {}
    <3>1. PICK j \in S : TRUE
      OBVIOUS
    <3>2. n - j \in 0 .. n /\ n - (n - j) = j
      BY <3>1
    <3>3. n - j \in T
      BY <3>1, <3>2
    <3>4. T \in SUBSET Nat
      OBVIOUS
    <3> HIDE DEF T
    <3> QED BY <3>3, <3>4
  <2>2. PICK k \in T : \A i \in T : k <= i
    BY <2>1, LeastExists
  <2>3. ASSUME NEW j \in S PROVE j <= n - k
    <3>1. n - j \in 0 .. n /\ n - (n - j) = j
      OBVIOUS
    <3>2. n - j \in T
      BY <3>1
    <3>3. k <= n - j /\ k \in 0 .. n
      BY <3>2, <2>2
    <3> QED BY <3>1, <3>3
  <2> QED BY <2>2, <2>3
<1>3. FirstOf(S) \in S /\ \A j \in S : FirstOf(S) <= j
  BY <1>1 DEF FirstOf
<1>4. LastOf(S) \in S /\ \A j \in S : j <= LastOf(S)
  BY <1>2 DEF LastOf
<1> QED BY <1>3, <1>4

ReplayedTick == [broker : QuoteBrokers, at : Nat, mid : MidPrices]

InTime(ticks) ==
  /\ ticks \in Seq(ReplayedTick)
  /\ \A i, j \in 1 .. Len(ticks) : i <= j => ticks[i].at <= ticks[j].at

LEMMA WarmupIs ==
  ASSUME PathLimits, NEW ticks \in Warmups
  PROVE  /\ InTime(ticks) /\ Len(ticks) \in Nat /\ DOMAIN ticks = 1 .. Len(ticks)
<1>1. ticks \in Seq(ReplayedTick)
  BY DEF PathLimits, ReplayedTick
<1>2. Len(ticks) \in Nat /\ DOMAIN ticks = 1 .. Len(ticks)
  BY <1>1, LenProperties
<1>3. \A i, j \in 1 .. Len(ticks) : i <= j => ticks[i].at <= ticks[j].at
  BY <1>2 DEF PathLimits
<1> QED BY <1>1, <1>2, <1>3 DEF InTime

LEMMA ReplayedIs ==
  ASSUME PathLimits, NEW ticks, InTime(ticks), NEW i \in 1 .. Len(ticks)
  PROVE  /\ ticks[i] \in ReplayedTick /\ ticks[i].broker \in QuoteBrokers /\ ticks[i].at \in Nat
         /\ ticks[i].mid \in MidPrices /\ PriceOf(ticks[i]) \in Priced /\ PriceOf(ticks[i]).at = ticks[i].at
<1>1. ticks[i] \in ReplayedTick
  BY ElementOfSeq DEF InTime
<1> QED BY <1>1 DEF ReplayedTick, PriceOf, Priced

\* The prices after the first ticks.
LEMMA CurrentMidsAre ==
  ASSUME PathLimits, NEW ticks, InTime(ticks), NEW n \in 0 .. Len(ticks)
  PROVE  /\ CurrentMids(ticks, n) \in Maps(Priced)
         /\ \A b \in DOMAIN CurrentMids(ticks, n) :
              \A i \in 1 .. Len(ticks) : n < i => CurrentMids(ticks, n)[b].at <= ticks[i].at
<1> DEFINE Of(b) == {i \in 1 .. n : ticks[i].broker = b}
           D == {c \in QuoteBrokers : Of(c) # {}}
           m == [b \in D |-> PriceOf(ticks[LastOf(Of(b))])]
<1>1. CurrentMids(ticks, n) = m
  BY DEF CurrentMids
<1>2. Len(ticks) \in Nat /\ n \in Nat /\ n <= Len(ticks)
  BY LenProperties DEF InTime
<1>3. ASSUME NEW b \in D PROVE LastOf(Of(b)) \in 1 .. n
  <2>1. Of(b) \in SUBSET (1 .. n) /\ Of(b) # {}
    OBVIOUS
  <2> HIDE DEF Of
  <2> QED BY <2>1, <1>2, Ends
<1>4. D \in SUBSET QuoteBrokers
  OBVIOUS
<1> HIDE DEF D, Of
<1>5. ASSUME NEW b \in D
      PROVE  m[b] \in Priced /\ \A i \in 1 .. Len(ticks) : n < i => m[b].at <= ticks[i].at
  <2>1. PICK k \in 1 .. n : k = LastOf(Of(b))
    BY <1>3
  <2>2. m[b] = PriceOf(ticks[k]) /\ k \in 1 .. Len(ticks)
    BY <2>1, <1>2
  <2>3. m[b] \in Priced /\ m[b].at = ticks[k].at
    BY <2>2, ReplayedIs
  <2>4. ASSUME NEW i \in 1 .. Len(ticks), n < i PROVE m[b].at <= ticks[i].at
    <3>1. k <= i
      BY <2>1, <2>4, <1>2
    <3> QED BY <3>1, <2>2, <2>3 DEF InTime
  <2> QED BY <2>3, <2>4
<1>6. m \in [D -> Priced] /\ DOMAIN m = D
  BY <1>5
<1> HIDE DEF m
<1> QED BY <1>1, <1>4, <1>5, <1>6 DEF Maps

DrawStep(s, ticks, k, first, made) == IF k < first THEN s ELSE Drawn(s, ticks[k], made)

Blank(start) == [mids |-> start, last |-> 0, path |-> << >>]

\* What is drawn is what is reached with the last tick.
LEMMA DrawnReaches ==
  ASSUME NEW ticks, Len(ticks) \in Nat, NEW first, NEW start, NEW made, NEW R, Blank(start) \in R[0],
         \A k \in 1 .. Len(ticks) : \A x \in R[k - 1] : DrawStep(x, ticks, k, first, made) \in R[k]
  PROVE  DrawnFrom(ticks, first, start, made) \in R[Len(ticks)]
<1> DEFINE Equation(f, m) ==
             f = [k \in 0 .. m |-> IF k = 0 THEN Blank(start)
                                   ELSE DrawStep(f[k - 1], ticks, k, first, made)]
           Solved == {m \in Nat : \E f : Equation(f, m)}
           Reached(f) == {m \in Nat : m <= Len(ticks) => f[m] \in R[m]}
<1>1. Len(ticks) \in Nat
  OBVIOUS
<1>2. Nat \subseteq Solved
  <2>1. 0 \in Solved
    <3>1. Equation([k \in 0 .. 0 |-> Blank(start)], 0)
      OBVIOUS
    <3> QED BY <3>1
  <2>2. ASSUME NEW m \in Nat, m \in Solved PROVE m + 1 \in Solved
    <3>1. PICK f : Equation(f, m)
      BY <2>2
    <3> DEFINE g == [k \in 0 .. m + 1 |->
                       IF k = m + 1 THEN DrawStep(f[m], ticks, m + 1, first, made) ELSE f[k]]
    <3>2. \A k \in 0 .. m : f[k] = IF k = 0 THEN Blank(start) ELSE DrawStep(f[k - 1], ticks, k, first, made)
      BY <3>1
    <3>3. ASSUME NEW k \in 0 .. m + 1
          PROVE  g[k] = IF k = 0 THEN Blank(start) ELSE DrawStep(g[k - 1], ticks, k, first, made)
      <4>1. CASE k = m + 1
        <5>1. k # 0 /\ m \in 0 .. m + 1 /\ m # m + 1 /\ k - 1 = m
          BY <4>1
        <5>2. g[m] = f[m] /\ g[k] = DrawStep(f[m], ticks, m + 1, first, made)
          BY <4>1, <5>1
        <5> QED BY <4>1, <5>1, <5>2
      <4>2. CASE k # m + 1
        <5>1. k \in 0 .. m /\ (k # 0 => k - 1 \in 0 .. m + 1 /\ k - 1 # m + 1)
          BY <4>2
        <5>2. g[k] = f[k] /\ (k # 0 => g[k - 1] = f[k - 1])
          BY <4>2, <5>1
        <5> QED BY <3>2, <5>1, <5>2
      <4> QED BY <4>1, <4>2
    <3>4. g = [k \in 0 .. m + 1 |-> g[k]]
      OBVIOUS
    <3>5. Equation(g, m + 1)
      <4> HIDE DEF g
      <4> QED BY <3>3, <3>4
    <3> HIDE DEF g
    <3> QED BY <3>5
  <2> HIDE DEF Solved
  <2> QED BY <2>1, <2>2, Induction
<1>3. \E f : Equation(f, Len(ticks))
  BY <1>1, <1>2
<1> DEFINE after == CHOOSE f : Equation(f, Len(ticks))
<1>4. Equation(after, Len(ticks))
  BY <1>3
<1>5. DrawnFrom(ticks, first, start, made) = after[Len(ticks)]
  BY DEF DrawnFrom, DrawStep, Blank
<1> HIDE DEF after
<1>6. Nat \subseteq Reached(after)
  <2>1. 0 \in Reached(after)
    BY <1>1, <1>4
  <2>2. ASSUME NEW m \in Nat, m \in Reached(after) PROVE m + 1 \in Reached(after)
    <3> SUFFICES ASSUME m + 1 <= Len(ticks) PROVE after[m + 1] \in R[m + 1]
      OBVIOUS
    <3>1. m + 1 \in 1 .. Len(ticks) /\ after[m] \in R[m] /\ (m + 1) - 1 = m
      BY <1>1, <2>2
    <3>2. after[m + 1] = DrawStep(after[m], ticks, m + 1, first, made)
      BY <1>1, <1>4, <3>1
    <3> QED BY <3>1, <3>2
  <2> DEFINE S == Reached(after)
  <2>3. 0 \in S /\ \A m \in Nat : m \in S => m + 1 \in S
    BY <2>1, <2>2
  <2> HIDE DEF S
  <2>4. Nat \subseteq S
    BY <2>3, Induction
  <2> QED BY <2>4 DEF S
<1> QED BY <1>1, <1>5, <1>6

\* What is drawn after k ticks.
DrawnStates == [mids : Maps(Priced), last : Nat, path : Seq(GoodPoints)]

DrawnWell(s, ticks, k, first, made) ==
  /\ FinePath(s.path) /\ Len(s.path) <= RebuildMax
  /\ \A i \in 1 .. Len(s.path) : s.path[i].at <= s.last
  /\ Len(s.path) > 0 => s.path[Len(s.path)].mids = s.mids /\ s.path[Len(s.path)].made = made
  /\ made = "rebuilt" =>
       \A b \in DOMAIN s.mids :
         /\ \A i \in first .. Len(ticks) : k < i => s.mids[b].at <= ticks[i].at
         /\ first <= k => s.mids[b].at <= s.last

DrawnPath(path, last, mids, made) ==
  /\ FinePath(path) /\ Len(path) <= RebuildMax
  /\ \A i \in 1 .. Len(path) : path[i].at <= last
  /\ Len(path) > 0 => path[Len(path)].mids = mids /\ path[Len(path)].made = made

LEMMA PricePut ==
  ASSUME NEW m \in Maps(Priced), NEW b \in QuoteBrokers, NEW price \in Priced
  PROVE  /\ Put(m, b, price) \in Maps(Priced) /\ DOMAIN Put(m, b, price) = DOMAIN m \cup {b}
         /\ Put(m, b, price)[b] = price /\ \A c \in DOMAIN m : c # b => Put(m, b, price)[c] = m[c]
BY PutIs

LEMMA PointDrawn ==
  ASSUME PathLimits, NEW ticks, InTime(ticks), NEW first \in 1 .. Len(ticks), NEW made \in {"rebuilt", "redrawn"},
         NEW k \in first .. Len(ticks), NEW s \in DrawnStates, DrawnWell(s, ticks, k - 1, first, made)
  PROVE  /\ Drawn(s, ticks[k], made) \in DrawnStates
         /\ DrawnWell(Drawn(s, ticks[k], made), ticks, k, first, made)
<1>1. PICK N \in Nat : N = Len(ticks)
  BY LenProperties DEF InTime
<1>2. k \in 1 .. N /\ first \in 1 .. N /\ first <= k /\ k \in Int
  BY <1>1
<1>3. PICK t \in ReplayedTick : t = ticks[k]
  BY <1>1, <1>2, ReplayedIs
<1>4. t.broker \in QuoteBrokers /\ t.at \in Nat /\ PriceOf(t) \in Priced /\ PriceOf(t).at = t.at
  BY <1>1, <1>2, <1>3, ReplayedIs
<1>5. s.mids \in Maps(Priced) /\ s.last \in Nat /\ s.path \in Seq(GoodPoints)
  BY DEF DrawnStates
<1> DEFINE price == PriceOf(t)
           mids == Put(s.mids, t.broker, price)
<1>6. mids \in Maps(Priced) /\ DOMAIN mids = DOMAIN s.mids \cup {t.broker}
      /\ mids[t.broker] = price /\ \A c \in DOMAIN s.mids : c # t.broker => mids[c] = s.mids[c]
  <2>1. PICK old \in Maps(Priced) : old = s.mids
    BY <1>5
  <2>2. PICK b \in QuoteBrokers : b = t.broker
    BY <1>4
  <2>3. PICK v \in Priced : v = price
    BY <1>4
  <2>4. /\ Put(old, b, v) \in Maps(Priced) /\ DOMAIN Put(old, b, v) = DOMAIN old \cup {b}
        /\ Put(old, b, v)[b] = v /\ \A c \in DOMAIN old : c # b => Put(old, b, v)[c] = old[c]
    BY PricePut
  <2> QED BY <2>1, <2>2, <2>3, <2>4
<1> DEFINE reached == IF t.at > s.last THEN t.at ELSE s.last
<1>7. reached \in Nat /\ reached >= s.last /\ reached >= t.at
  BY <1>4, <1>5
<1> HIDE DEF reached
<1>8. \A c \in DOMAIN mids : mids[c] \in Priced /\ mids[c].at \in Int
  <2>1. \A c \in DOMAIN mids : mids[c] \in Priced
    BY <1>6, MapIs
  <2> QED BY <2>1 DEF Priced
<1>9. \A c \in DOMAIN s.mids : s.mids[c].at \in Int
  <2>1. \A c \in DOMAIN s.mids : s.mids[c] \in Priced
    BY <1>5, MapIs
  <2> QED BY <2>1 DEF Priced
<1>10. made = "rebuilt" => \A c \in DOMAIN s.mids : s.mids[c].at <= t.at
  BY <1>1, <1>2, <1>3 DEF DrawnWell
<1> HIDE DEF mids, price
<1>11. made = "rebuilt" => \A c \in DOMAIN mids : mids[c].at <= t.at
  <2> SUFFICES ASSUME made = "rebuilt", NEW c \in DOMAIN mids PROVE mids[c].at <= t.at
    OBVIOUS
  <2>1. CASE c = t.broker
    BY <2>1, <1>4, <1>6 DEF price
  <2>2. CASE c # t.broker
    BY <2>2, <1>6, <1>10
  <2> QED BY <2>1, <2>2
<1>12. made = "rebuilt" =>
         \A b \in DOMAIN mids :
           /\ \A i \in first .. N : k < i => mids[b].at <= ticks[i].at
           /\ first <= k => mids[b].at <= reached
  <2> SUFFICES ASSUME made = "rebuilt", NEW b \in DOMAIN mids
               PROVE  /\ \A i \in first .. N : k < i => mids[b].at <= ticks[i].at
                      /\ first <= k => mids[b].at <= reached
    OBVIOUS
  <2>1. mids[b].at <= t.at /\ mids[b].at \in Int
    BY <1>8, <1>11
  <2>2. ASSUME NEW i \in first .. N, k < i PROVE mids[b].at <= ticks[i].at
    <3>1. i \in 1 .. N /\ k <= i
      BY <2>2, <1>1, <1>2
    <3>2. t.at <= ticks[i].at /\ ticks[i].at \in Nat
      BY <3>1, <1>1, <1>2, <1>3, ReplayedIs DEF InTime
    <3> QED BY <3>2, <2>1, <1>4
  <2> QED BY <2>1, <2>2, <1>4, <1>7
<1> DEFINE path == s.path
           n == Len(path)
           onto == n > 0 /\ path[n].at = reached
           q == JoinedTo(path[n], t, mids)
           point == PathPoint(reached, mids, made)
           extended == IF onto THEN [path EXCEPT ![n] = q]
                    ELSE PathPruned(Append(path, point), RebuildMax)
<1>13. Drawn(s, t, made) = [mids |-> mids, last |-> reached, path |-> extended]
  BY DEF Drawn, mids, price, reached
<1>14. /\ FinePath(path) /\ n \in Nat /\ n <= RebuildMax
       /\ \A i \in 1 .. n : path[i].at <= s.last
       /\ n > 0 => path[n].mids = s.mids /\ path[n].made = made
  BY PathIs DEF DrawnWell
<1>15. /\ RebuildMax \in Nat /\ RebuildMax # 0 /\ MergeDistance \in Nat /\ made \in Ways /\ made # "live"
  BY DEF PathLimits, Ways
<1> DEFINE Fine == DrawnPath(extended, reached, mids, made)
<1>16. ASSUME onto PROVE Fine
  <2>1. n \in 1 .. n /\ path[n] \in GoodPoints /\ path[n].mids = s.mids /\ path[n].made = made
        /\ path[n].at = reached
    BY <1>14, <1>16, PathIs
  <2>2. price \in Priced /\ price.at <= path[n].at + MergeDistance /\ price.at = t.at
    BY <2>1, <1>4, <1>7, <1>15 DEF price
  <2>3. q = Merged(path[n], t.broker, price)
    BY <2>1 DEF Merged, mids, JoinedTo, price
  <2>4. q \in GoodPoints /\ q.at = reached /\ q.mids = mids /\ q.made = made
    <3>1. PICK p \in GoodPoints : p = path[n]
      BY <2>1
    <3>2. Merged(p, t.broker, price) \in GoodPoints /\ Merged(p, t.broker, price).at = p.at
          /\ Merged(p, t.broker, price).mids = Put(p.mids, t.broker, price)
          /\ Merged(p, t.broker, price).made = p.made
      BY <3>1, <2>1, <2>2, <1>4, <1>15, MergedIsGood
    <3> HIDE DEF q
    <3> QED BY <3>1, <3>2, <2>1, <2>3 DEF mids
  <2> HIDE DEF q
  <2>5. extended = [path EXCEPT ![n] = q]
    <3> HIDE DEF onto, path, n
    <3> QED BY <1>16
  <2>6. /\ FinePath([path EXCEPT ![n] = q]) /\ Len([path EXCEPT ![n] = q]) = n
        /\ [path EXCEPT ![n] = q][n] = q
        /\ \A i \in 1 .. n : [path EXCEPT ![n] = q][i].at = path[i].at
    BY <2>1, <2>4, <1>14, ReplaceIsFine
  <2>7. \A i \in 1 .. n : path[i].at <= reached
    <3>1. \A i \in 1 .. n : path[i].at \in Int
      BY <1>14, PathIs
    <3> QED BY <3>1, <1>5, <1>7, <1>14
  <2> DEFINE r == [path EXCEPT ![n] = q]
  <2>8. FinePath(r) /\ Len(r) = n /\ r[n] = q /\ (\A i \in 1 .. n : r[i].at <= reached)
    BY <2>6, <2>7
  <2> HIDE DEF r, extended, onto
  <2>9. extended = r
    BY <2>5 DEF r
  <2>10. DrawnPath(r, reached, mids, made)
    BY <2>4, <2>8, <1>14 DEF DrawnPath
  <2> QED BY <2>9, <2>10
<1>17. ASSUME ~onto PROVE Fine
  <2>1. \A b \in DOMAIN mids : /\ made \in {"live", "rebuilt"} => mids[b].at <= reached + MergeDistance
                               /\ made = "live" => mids[b].at >= reached - Longest
    BY <1>4, <1>7, <1>8, <1>11, <1>15
  <2>2. point \in GoodPoints /\ point.at = reached /\ point.mids = mids /\ point.made = made
    BY <2>1, <1>6, <1>7, <1>15, PointIsGood
  <2> HIDE DEF point
  <2>3. \A i \in 1 .. n : path[i].at <= reached
    <3>1. \A i \in 1 .. n : path[i].at \in Int
      BY <1>14, PathIs
    <3> QED BY <3>1, <1>5, <1>7, <1>14
  <2> DEFINE longer == Append(path, point)
  <2>4. FinePath(longer) /\ Len(longer) = n + 1 /\ longer[n + 1] = point /\ longer # << >>
        /\ \A i \in 1 .. n : longer[i] = path[i]
    BY <2>2, <2>3, <1>14, AppendIsFine
  <2>5. extended = PathPruned(longer, RebuildMax)
    <3> HIDE DEF onto, path, n, longer
    <3> QED BY <1>17 DEF longer
  <2> HIDE DEF longer
  <2>6. \A i \in 1 .. n + 1 : longer[i].at <= reached
    <3> TAKE i \in 1 .. n + 1
    <3>1. CASE i = n + 1
      BY <3>1, <2>2, <2>4, <1>7
    <3>2. CASE i # n + 1
      <4>1. i \in 1 .. n
        BY <3>2, <1>14
      <4> QED BY <4>1, <2>3, <2>4
    <3> QED BY <3>1, <3>2
  <2> DEFINE r == PathPruned(longer, RebuildMax)
  <2>7. /\ FinePath(r) /\ Len(r) <= RebuildMax /\ Len(r) > 0 /\ r[Len(r)] = longer[Len(longer)]
        /\ \A i \in 1 .. Len(r) : \E j \in 1 .. Len(longer) : r[i] = longer[j]
    BY <2>4, <1>15, PrunedIsFine
  <2> HIDE DEF r, extended
  <2>8. extended = r
    BY <2>5 DEF r
  <2>9. DrawnPath(r, reached, mids, made)
    <3>1. Len(longer) = n + 1 /\ longer[Len(longer)] = point
      BY <2>4
    <3>2. \A i \in 1 .. Len(r) : r[i].at <= reached
      BY <2>6, <2>7, <3>1
    <3> QED BY <2>2, <2>7, <3>1, <3>2 DEF DrawnPath
  <2> QED BY <2>8, <2>9
<1>18. Fine
  BY <1>16, <1>17
<1> HIDE DEF extended
<1>19. PICK d : d = [mids |-> mids, last |-> reached, path |-> extended]
  OBVIOUS
<1>20. d \in DrawnStates /\ d.mids = mids /\ d.last = reached /\ d.path = extended
  BY <1>6, <1>7, <1>18, <1>19 DEF DrawnStates, FinePath, DrawnPath
<1>21. DrawnWell(d, ticks, k, first, made)
  BY <1>1, <1>12, <1>18, <1>20 DEF DrawnWell, DrawnPath
<1> QED BY <1>3, <1>13, <1>19, <1>20, <1>21

\* The prices the drawing starts from, and what is drawn in the end.
LEMMA AllDrawn ==
  ASSUME PathLimits, NEW ticks, InTime(ticks), NEW first \in 1 .. Len(ticks),
         NEW made \in {"rebuilt", "redrawn"}, NEW start \in Maps(Priced),
         made = "rebuilt" => \A b \in DOMAIN start : \A i \in first .. Len(ticks) : start[b].at <= ticks[i].at
  PROVE  /\ DrawnFrom(ticks, first, start, made) \in DrawnStates
         /\ DrawnWell(DrawnFrom(ticks, first, start, made), ticks, Len(ticks), first, made)
<1> DEFINE R == [k \in 0 .. Len(ticks) |-> {s \in DrawnStates : DrawnWell(s, ticks, k, first, made)}]
<1>1. Len(ticks) \in Nat
  BY LenProperties DEF InTime
<1>2. Blank(start) \in R[0]
  <2>1. PICK s : s = Blank(start)
    OBVIOUS
  <2>2. << >> \in Seq(GoodPoints) /\ Len(<< >>) = 0
    OBVIOUS
  <2>3. s \in DrawnStates /\ s.mids = start /\ s.last = 0 /\ s.path = << >>
    BY <2>1, <2>2 DEF DrawnStates, Blank
  <2>4. FinePath(s.path) /\ Len(s.path) = 0
    BY <2>2, <2>3 DEF FinePath
  <2>5. 0 <= RebuildMax /\ ~(first <= 0)
    BY <1>1 DEF PathLimits
  <2>6. DrawnWell(s, ticks, 0, first, made)
    BY <2>3, <2>4, <2>5 DEF DrawnWell
  <2> QED BY <2>1, <2>3, <2>6, <1>1
<1>3. ASSUME NEW k \in 1 .. Len(ticks), NEW x \in R[k - 1]
      PROVE  DrawStep(x, ticks, k, first, made) \in R[k]
  <2>1. x \in DrawnStates /\ DrawnWell(x, ticks, k - 1, first, made)
    <3>1. k - 1 \in 0 .. Len(ticks)
      BY <1>1
    <3> QED BY <3>1, <1>3
  <2>2. CASE k < first
    <3>1. ~(first <= k) /\ ~(first <= k - 1) /\ \A i \in first .. Len(ticks) : k - 1 < i
      BY <2>2, <1>1
    <3>2. DrawnWell(x, ticks, k, first, made)
      BY <2>1, <3>1 DEF DrawnWell
    <3> QED BY <2>1, <2>2, <3>2, <1>1 DEF DrawStep
  <2>3. CASE ~(k < first)
    <3>1. k \in first .. Len(ticks)
      BY <2>3, <1>1
    <3>2. Drawn(x, ticks[k], made) \in DrawnStates /\ DrawnWell(Drawn(x, ticks[k], made), ticks, k, first, made)
      BY <2>1, <3>1, PointDrawn
    <3> QED BY <2>3, <3>2, <1>1 DEF DrawStep
  <2> QED BY <2>2, <2>3
<1>4. DrawnFrom(ticks, first, start, made) \in R[Len(ticks)]
  <2> HIDE DEF R
  <2> QED BY <1>1, <1>2, <1>3, DrawnReaches
<1> QED BY <1>1, <1>4

LEMMA TargetReached ==
  ASSUME PathLimits, NEW ticks, NEW first, NEW made \in {"rebuilt", "redrawn"},
         NEW target \in Nat, NEW s \in DrawnStates, NEW k, first <= k, DrawnWell(s, ticks, k, first, made)
  PROVE  FinePath(UpToTarget(s, target, made)) /\ Len(UpToTarget(s, target, made)) <= RebuildMax
<1>1. s.mids \in Maps(Priced) /\ s.last \in Nat /\ RebuildMax \in Nat /\ MergeDistance \in Nat
      /\ made \in Ways /\ made # "live"
  BY DEF DrawnStates, PathLimits, Ways
<1>2. FinePath(s.path) /\ Len(s.path) <= RebuildMax /\ \A i \in 1 .. Len(s.path) : s.path[i].at <= s.last
  BY DEF DrawnWell
<1>3. CASE s.last < target
  <2> DEFINE point == PathPoint(target, s.mids, made)
  <2>1. ASSUME NEW b \in DOMAIN s.mids
        PROVE  /\ made \in {"live", "rebuilt"} => s.mids[b].at <= target + MergeDistance
               /\ made = "live" => s.mids[b].at >= target - Longest
    <3>1. s.mids[b] \in Priced
      BY <1>1, MapIs
    <3>2. s.mids[b].at \in Int
      BY <3>1 DEF Priced
    <3>3. made = "rebuilt" => s.mids[b].at <= s.last
      BY DEF DrawnWell
    <3>4. made = "rebuilt" => s.mids[b].at <= target + MergeDistance
      <4>1. CASE made = "rebuilt"
        <5>1. s.mids[b].at <= s.last /\ s.last < target
          BY <3>3, <4>1, <1>3
        <5> HIDE DEF point
        <5> QED BY <5>1, <3>2, <1>1
      <4> QED BY <4>1
    <3>5. made # "live"
      BY <1>1
    <3> HIDE DEF point
    <3> QED BY <3>4, <3>5
  <2>2. point \in GoodPoints /\ point.at = target
    BY <2>1, <1>1, PointIsGood
  <2> HIDE DEF point
  <2>3. \A i \in 1 .. Len(s.path) : s.path[i].at <= target
    <3>1. \A i \in 1 .. Len(s.path) : s.path[i].at \in Int
      BY <1>2, PathIs
    <3> QED BY <3>1, <1>1, <1>2, <1>3
  <2>4. FinePath(Append(s.path, point))
    BY <2>2, <2>3, <1>2, AppendIsFine
  <2>5. UpToTarget(s, target, made) = PathPruned(Append(s.path, point), RebuildMax)
    BY <1>3 DEF UpToTarget, point
  <2> QED BY <2>4, <2>5, <1>1, PrunedIsFine
<1>4. CASE ~(s.last < target)
  BY <1>2, <1>4 DEF UpToTarget
<1> QED BY <1>3, <1>4

LEMMA RebuiltIsFine ==
  ASSUME PathLimits, NEW ticks \in Warmups, NEW target \in PathTimes
  PROVE  FinePath(Rebuilt(ticks, target)) /\ Len(Rebuilt(ticks, target)) <= RebuildMax
<1>1. InTime(ticks) /\ Len(ticks) \in Nat /\ DOMAIN ticks = 1 .. Len(ticks)
  BY WarmupIs
<1>2. PICK n \in Nat : n = Len(ticks)
  BY <1>1
<1>3. target \in Nat
  BY DEF PathLimits
<1> DEFINE window == InWindow(ticks, target)
           first == FirstOf(window)
<1>4. CASE ticks = << >>
  <2>1. Rebuilt(ticks, target) = << >>
    BY <1>4 DEF Rebuilt
  <2>2. << >> \in Seq(GoodPoints) /\ Len(<< >>) = 0
    OBVIOUS
  <2> QED BY <2>1, <2>2 DEF FinePath, PathLimits
<1>5. CASE ticks # << >> /\ window = {}
  <2>1. n \in 1 .. n /\ 1 \in 1 .. n
    BY <1>1, <1>2, <1>5, EmptySeq DEF InTime
  <2> DEFINE start == CurrentMids(ticks, n)
             extended == DrawnFrom(ticks, 1, start, "redrawn")
  <2>2. start \in Maps(Priced)
    BY <1>1, <1>2, CurrentMidsAre
  <2> HIDE DEF start
  <2>3. extended \in DrawnStates /\ DrawnWell(extended, ticks, n, 1, "redrawn")
    BY <2>1, <2>2, <1>1, <1>2, AllDrawn
  <2>4. Rebuilt(ticks, target) = UpToTarget(extended, target, "redrawn")
    BY <1>2, <1>5 DEF Rebuilt, start
  <2>5. 1 <= n
    BY <2>1
  <2>6. PICK s \in DrawnStates : s = extended
    BY <2>3
  <2> HIDE DEF extended
  <2>7. DrawnWell(s, ticks, n, 1, "redrawn")
    BY <2>3, <2>6
  <2>8. FinePath(UpToTarget(s, target, "redrawn")) /\ Len(UpToTarget(s, target, "redrawn")) <= RebuildMax
    BY <2>5, <2>7, <1>3, TargetReached
  <2> QED BY <2>4, <2>6, <2>8
<1>6. CASE ticks # << >> /\ window # {}
  <2>1. PICK f \in 1 .. n : f = first
    <3>1. window \in SUBSET (1 .. n)
      BY <1>1, <1>2 DEF InWindow
    <3> HIDE DEF window
    <3>2. first \in 1 .. n
      BY <3>1, <1>6, Ends
    <3> QED BY <3>2
  <2> DEFINE start == CurrentMids(ticks, f - 1)
             extended == DrawnFrom(ticks, f, start, "rebuilt")
  <2>2. f - 1 \in 0 .. n
    BY <2>1
  <2>3. start \in Maps(Priced)
        /\ \A b \in DOMAIN start : \A i \in 1 .. n : f - 1 < i => start[b].at <= ticks[i].at
    BY <2>2, <1>1, <1>2, CurrentMidsAre
  <2>4. \A b \in DOMAIN start : \A i \in f .. n : start[b].at <= ticks[i].at
    <3> HIDE DEF start
    <3>1. \A i \in f .. n : i \in 1 .. n /\ f - 1 < i
      BY <2>1
    <3> QED BY <3>1, <2>3
  <2> HIDE DEF start
  <2>5. extended \in DrawnStates /\ DrawnWell(extended, ticks, n, f, "rebuilt")
    BY <2>1, <2>3, <2>4, <1>1, <1>2, AllDrawn
  <2>6. Rebuilt(ticks, target) = UpToTarget(extended, target, "rebuilt")
    BY <2>1, <1>2, <1>6 DEF Rebuilt, start
  <2> HIDE DEF extended
  <2>7. f <= n
    BY <2>1
  <2>8. PICK s \in DrawnStates : s = extended
    BY <2>5
  <2>9. DrawnWell(s, ticks, n, f, "rebuilt")
    BY <2>5, <2>8
  <2>10. FinePath(UpToTarget(s, target, "rebuilt")) /\ Len(UpToTarget(s, target, "rebuilt")) <= RebuildMax
    BY <2>7, <2>9, <1>3, TargetReached
  <2> QED BY <2>6, <2>8, <2>10
<1> QED BY <1>4, <1>5, <1>6

LEMMA FedAre ==
  ASSUME PathLimits, NEW ticks \in Warmups, NEW target \in PathTimes, NEW released \in BOOLEAN
  PROVE  FedQuotes(ticks, target, released) \in Maps(Quoted)
<1>1. InTime(ticks) /\ Len(ticks) \in Nat /\ DOMAIN ticks = 1 .. Len(ticks)
  BY WarmupIs
<1>2. PICK n \in Nat : n = Len(ticks)
  BY <1>1
<1>3. target \in Nat
  BY DEF PathLimits
<1> DEFINE Of(b) == {i \in DOMAIN ticks : ticks[i].broker = b}
           Before(b) == Of(b) \ {LastOf(Of(b))}
           Fed == {b \in QuoteBrokers : Of(b) # {} /\ (released \/ Before(b) # {})}
           PlaceNow(b) == LastOf(IF released THEN Of(b) ELSE Before(b))
           m == [b \in Fed |-> [mid |-> ticks[PlaceNow(b)].mid,
                                rx |-> IF released THEN target ELSE ticks[PlaceNow(b)].at,
                                warm |-> ~released]]
<1>4. FedQuotes(ticks, target, released) = m
  BY DEF FedQuotes
<1>5. ASSUME NEW b \in Fed PROVE PlaceNow(b) \in 1 .. n
  <2>1. Of(b) \in SUBSET (1 .. n) /\ Before(b) \in SUBSET (1 .. n)
    BY <1>1, <1>2
  <2>2. Of(b) # {} /\ (released \/ Before(b) # {})
    OBVIOUS
  <2> HIDE DEF Of, Before
  <2> QED BY <2>1, <2>2, Ends
<1>6. Fed \in SUBSET QuoteBrokers
  OBVIOUS
<1> HIDE DEF Fed, PlaceNow
<1>7. ASSUME NEW b \in Fed PROVE m[b] \in Quoted
  <2>1. PICK k \in 1 .. n : k = PlaceNow(b)
    BY <1>5
  <2>2. ticks[k].at \in Nat /\ ticks[k].mid \in MidPrices
    BY <2>1, <1>1, <1>2, ReplayedIs
  <2>3. PICK t \in Int : t = IF released THEN target ELSE ticks[k].at
    BY <2>2, <1>3
  <2>4. PICK w \in BOOLEAN : w = ~released
    OBVIOUS
  <2>5. m[b] = [mid |-> ticks[k].mid, rx |-> t, warm |-> w]
    BY <2>1, <2>3, <2>4
  <2> HIDE DEF m
  <2> QED BY <2>2, <2>5 DEF Quoted
<1>8. m \in [Fed -> Quoted]
  BY <1>7
<1> HIDE DEF m
<1> QED BY <1>4, <1>6, <1>8 DEF Maps

\* Whatever live, late, warm-up and invalid quotes come and however often a seek rebuilds
\* it: the quote path is in time order, every consensus is the median of the prices its
\* point shows, and a point shows the prices of its time (tick/engine.rs).
THEOREM PathIsCorrect ==
  ASSUME PathLimits PROVE PathSpec => []PathCorrect
<1>1. PathInit => PathInv
  BY PathStarts
<1>2. PathInv /\ [PathNext]_pathVars => PathInv'
  <2> SUFFICES ASSUME PathInv, [PathNext]_pathVars PROVE PathInv'
    OBVIOUS
  <2>1. ASSUME NEW b \in QuoteBrokers, NEW rx \in PathTimes, NEW t \in PathTimes,
               NEW warm \in BOOLEAN, NEW valid \in BOOLEAN, NEW mid \in MidPrices,
               QuoteTick(b, rx, t, warm, valid, mid)
        PROVE  PathInv'
    BY <2>1, TickKeepsPath
  <2>2. ASSUME NEW ticks \in Warmups, NEW target \in PathTimes, NEW released \in BOOLEAN,
               Rebuild(ticks, target, released)
        PROVE  PathInv'
    <3>1. PICK q : q = realtime_quote_history'
      OBVIOUS
    <3>2. q = Rebuilt(ticks, target) /\ path_quotes' = FedQuotes(ticks, target, released)
      BY <2>2, <3>1 DEF Rebuild
    <3>3. FinePath(q) /\ Len(q) <= RebuildMax
      BY <3>2, RebuiltIsFine
    <3>4. FinePath(realtime_quote_history)' /\ Len(realtime_quote_history') <= RebuildMax
      BY <3>1, <3>3 DEF FinePath
    <3> QED BY <3>2, <3>4, FedAre DEF PathInv
  <2>3. CASE UNCHANGED pathVars
    BY <2>3 DEF pathVars, PathInv, FinePath
  <2> QED BY <2>1, <2>2, <2>3 DEF PathNext
<1>3. ASSUME PathInv PROVE PathCorrect
  <2>1. FinePath(realtime_quote_history)
    BY <1>3 DEF PathInv
  <2>2. \A i \in 1 .. Len(realtime_quote_history) : realtime_quote_history[i] \in GoodPoints
    BY <2>1, PathIs
  <2>3. PathSorted
    BY <2>1, PathIs DEF PathSorted
  <2>4. \A i \in DOMAIN realtime_quote_history : ShowsItsTime(realtime_quote_history[i])
    BY <2>1, <2>2, PathIs DEF GoodPoints
  <2>5. ConsensusIsMedian /\ PointsShowTheirTime
    BY <2>4 DEF ConsensusIsMedian, PointsShowTheirTime, ShowsItsTime, Longest
  <2>6. PathTypeOK
    <3>1. DOMAIN path_quotes \subseteq QuoteBrokers /\ \A b \in DOMAIN path_quotes : path_quotes[b] \in Quoted
      BY <1>3, MapIs DEF PathInv
    <3> QED BY <3>1, <1>3 DEF PathTypeOK, PathInv, Quoted
  <2> QED BY <2>3, <2>5, <2>6 DEF PathCorrect
<1> QED BY <1>1, <1>2, <1>3, PTL DEF PathSpec
=============================================================================
