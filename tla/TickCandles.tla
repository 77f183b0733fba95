------------------------------- MODULE TickCandles -------------------------------
(***************************************************************************)
(* Tick candles with small moves cancelled (src/src/tick/tick_candle.rs): one*)
(* bar per price change, except that a move which is undone at once and is no*)
(* larger than the threshold is folded away and its bar used again.  Prices  *)
(* are whole points, so that every change is at least one tenth of a point.  *)
(***************************************************************************)
EXTENDS Integers, SequencesExt, FiniteSetsExt

CONSTANTS
  BarPrices,       (* prices, above zero                                    *)
  BarTimes,        (* time_sec                                              *)
  MaxCandles,      (* max_candles                                           *)
  Threshold,       (* threshold_pips, in points                             *)
  MaxTickCount     (* bound: ticks                                          *)

VARIABLES
  candles,         (* the bars                                              *)
  last_price,      (* 0 before the first tick                               *)
  has_unconfirmed, is_reusing_candle,
  tickCount        (* bound                                                 *)

candleVars == <<candles, last_price, has_unconfirmed, is_reusing_candle, tickCount>>

CandlesInit ==
  /\ candles = << >> /\ last_price = 0
  /\ has_unconfirmed = FALSE /\ is_reusing_candle = FALSE /\ tickCount = 0

AbsOf(n) == IF n < 0 THEN 0 - n ELSE n

\* The move undoes the one of the last bar, which is not larger than the threshold.
IsRebound(price) ==
  LET prev == candles[Len(candles)].close - candles[Len(candles)].open
      diff == price - last_price
  IN prev * diff < 0 /\ AbsOf(prev) = AbsOf(diff) /\ AbsOf(diff) <= Threshold

Minute(t) == t \div 60

Bar(open, close, t, changed) ==
  [open |-> open, high |-> Max({open, close}), low |-> Min({open, close}), close |-> close,
   time |-> t, minute_changed |-> changed, confirmed |-> FALSE]

\* The bar's opening price is its high and low: all it moved is cancelled.
Cancelled(bar) == [bar EXCEPT !.close = bar.open, !.high = bar.open, !.low = bar.open,
                              !.confirmed = FALSE]

PriceAfterRebound(price) == candles[Len(candles)].open

\* Mutant: a bar that is not undone is never confirmed.
LeftOpen(bars) == bars
Confirmed(bars) == [bars EXCEPT ![Len(bars)].confirmed = TRUE]

\* on_tick: the first price, a price that does not differ, a rebound that cancels the
\* last bar, the next price in that bar again, or a new bar.
OnPrice(price, t) ==
  LET n == Len(candles)
      undecided == has_unconfirmed /\ n > 0 /\ ~is_reusing_candle
      bars == IF undecided THEN Confirmed(candles) ELSE candles
      reused == Bar(bars[n].open, price, t,
                    IF n > 1 THEN Minute(t) # Minute(bars[n - 1].time)
                             ELSE bars[n].minute_changed)
      full == IF n >= MaxCandles THEN Tail(bars) ELSE bars
      next == Bar(last_price, price, t,
                  full # << >> /\ Minute(t) # Minute(full[Len(full)].time))
  IN /\ tickCount < MaxTickCount /\ tickCount' = tickCount + 1
     /\ \/ /\ last_price = 0
           /\ last_price' = price
           /\ UNCHANGED <<candles, has_unconfirmed, is_reusing_candle>>
        \/ /\ last_price = price
           /\ UNCHANGED <<candles, last_price, has_unconfirmed, is_reusing_candle>>
        \/ /\ last_price \notin {0, price} /\ undecided /\ IsRebound(price)
           /\ candles' = [candles EXCEPT ![n] = Cancelled(@)]
           /\ last_price' = PriceAfterRebound(price)
           /\ is_reusing_candle' = TRUE
           /\ UNCHANGED has_unconfirmed
        \/ /\ last_price \notin {0, price} /\ ~(undecided /\ IsRebound(price))
           /\ candles' = IF is_reusing_candle /\ n > 0 THEN [bars EXCEPT ![n] = reused]
                                                       ELSE Append(full, next)
           /\ last_price' = price /\ has_unconfirmed' = TRUE /\ is_reusing_candle' = FALSE

CandlesNext == \E price \in BarPrices, t \in BarTimes : OnPrice(price, t)

CandlesSpec == CandlesInit /\ [][CandlesNext]_candleVars

CandlesLimits ==
  /\ BarPrices \subseteq Nat \ {0} /\ BarTimes \subseteq Nat
  /\ MaxCandles \in Nat \ {0} /\ Threshold \in Nat /\ MaxTickCount \in Nat

CandlesTypeOK ==
  /\ last_price \in BarPrices \cup {0} /\ Len(candles) <= MaxCandles
  /\ is_reusing_candle => has_unconfirmed /\ candles # << >>

\* The bars form one unbroken line, also across a bar that was cancelled and used
\* again: each opens where the one before it closed, and the last closes at the price
\* the next move is measured from.
BarsConnect ==
  /\ \A i \in 2..Len(candles) : candles[i].open = candles[i - 1].close
  /\ candles # << >> => candles[Len(candles)].close = last_price

\* Only the last bar is open to cancellation, and only it can be flat: a bar with a
\* successor is confirmed and has moved.
OnlyLastIsUnconfirmed ==
  \A i \in DOMAIN candles :
    /\ i < Len(candles) => candles[i].confirmed
    /\ candles[i].open = candles[i].close => i = Len(candles) /\ is_reusing_candle

\* The tick bars are one unbroken line of moves within their bound, of which only the last
\* may still be undone (TickCandleTracker::on_tick, tick_candle.rs).
CandlesCorrect == CandlesTypeOK /\ BarsConnect /\ OnlyLastIsUnconfirmed
=============================================================================
