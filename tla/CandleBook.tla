------------------------------- MODULE CandleBook -------------------------------
(***************************************************************************)
(* The candle book (src/src/tick/candle.rs): ticks folded into time slots,   *)
(* which slots are kept, and what a view of the last slots shows.  Brokers,  *)
(* periods and the two books (bid, mid) are independent of each other: the   *)
(* module has one of them.  Ticks come late and out of order, and with times *)
(* far in the future while the broker's UTC offset is wrong.                 *)
(***************************************************************************)
EXTENDS Integers, SequencesExt, FiniteSetsExt

CONSTANTS
  Period,         (* period_ms                                              *)
  TickTimes,      (* utc_ms of the ticks                                    *)
  Prices,
  Slots,          (* retention of the period                                *)
  Slack,          (* slots kept beyond it: 5 in the code                    *)
  MaxNow,         (* bound: the receive clock                               *)
  MaxBookTicks    (* bound: ticks since the book was cleared                *)

VARIABLES
  slots,          (* slot start -> slot                                     *)
  latest_slot,    (* latest_slot_by_broker, or NoSlot                       *)
  utc_now,        (* the receive clock, current_utc_now                     *)
  folded          (* history: the ticks since the book was last cleared     *)

bookVars == <<slots, latest_slot, utc_now, folded>>

NoSlot == -1
SlotStart(t) == (t \div Period) * Period

BookInit == slots = << >> /\ latest_slot = NoSlot /\ utc_now = 0 /\ folded = << >>

Earlier(k, l) == k[1] < l[1] \/ (k[1] = l[1] /\ k[2] < l[2])

NewSlot(key, price) ==
  [open |-> price, high |-> price, low |-> price, close |-> price,
   open_key |-> key, close_key |-> key, closed |-> FALSE]

\* Mutant: the tick received last closes the candle.
FoldedByArrival(s, key, price) ==
  [s EXCEPT !.high = Max({@, price}), !.low = Min({@, price}),
            !.open = IF Earlier(key, s.open_key) THEN price ELSE @,
            !.open_key = IF Earlier(key, @) THEN key ELSE @,
            !.close = price, !.close_key = key]
Folded(s, key, price) ==
  [s EXCEPT !.high = Max({@, price}), !.low = Min({@, price}),
            !.open = IF Earlier(key, s.open_key) THEN price ELSE @,
            !.open_key = IF Earlier(key, @) THEN key ELSE @,
            !.close = IF Earlier(key, s.close_key) THEN @ ELSE price,
            !.close_key = IF Earlier(key, @) THEN @ ELSE key]

\* The newest slot.  An erroneous future tick is never taken for it.
LatestAfter(start) ==
  LET current == SlotStart(utc_now)
      known == IF latest_slot = NoSlot THEN start ELSE latest_slot
      allowed == current + 2 * Period
  IN IF start <= allowed /\ start > known THEN start
     ELSE IF known > allowed THEN current ELSE known

Cutoff(latest) == Min({latest, SlotStart(utc_now)}) - Period * (Slots + Slack - 1)

\* on_tick, with a valid price.  Sequences only grow: the second part of the key is
\* the number of the tick.
OnTick(t, price) ==
  LET start == SlotStart(t)
      key == <<t, Len(folded)>>
      slot == [IF start \in DOMAIN slots THEN Folded(slots[start], key, price)
                                         ELSE NewSlot(key, price)
               EXCEPT !.closed = start + Period <= utc_now]
      latest == LatestAfter(start)
      kept == {s \in DOMAIN slots \cup {start} : s >= Cutoff(latest)}
  IN /\ Len(folded) < MaxBookTicks
     /\ folded' = Append(folded, [key |-> key, price |-> price])
     /\ latest_slot' = latest
     /\ slots' = [s \in kept |-> IF s = start THEN slot ELSE slots[s]]
     /\ UNCHANGED utc_now

\* clear_broker: the broker's UTC offset changed.
ClearBroker ==
  slots' = << >> /\ latest_slot' = NoSlot /\ folded' = << >> /\ UNCHANGED utc_now

TimePasses == utc_now < MaxNow /\ utc_now' = utc_now + 1 /\ UNCHANGED <<slots, latest_slot, folded>>

BookNext ==
  \/ \E t \in TickTimes, price \in Prices : OnTick(t, price)
  \/ ClearBroker
  \/ TimePasses

BookSpec == BookInit /\ [][BookNext]_bookVars

\* Ticks are of 1970 or later, and the code keeps more slots than it shows.
BookLimits ==
  /\ Period \in Nat \ {0} /\ TickTimes \subseteq Nat /\ Prices \subseteq Int
  /\ Slots \in Nat /\ Slack \in Nat \ {0} /\ MaxNow \in Nat /\ MaxBookTicks \in Nat

\* get_candle_view: the last n slots, up to the current one.
ViewState(s) == IF s \in DOMAIN slots
                THEN IF slots[s].closed \/ s + Period <= utc_now THEN "Closed" ELSE "Active"
                ELSE IF s + Period <= utc_now THEN "Empty" ELSE "Active"
View(n) == [i \in 1..n |-> LET s == SlotStart(utc_now) - Period * (n - i)
                           IN [start |-> s, state |-> ViewState(s)]]

BookTypeOK ==
  /\ latest_slot \in {NoSlot} \cup {SlotStart(t) : t \in TickTimes} \cup 0..MaxNow
  /\ \A s \in DOMAIN slots : slots[s].open \in Prices /\ slots[s].close \in Prices

TicksIn(s) == {i \in DOMAIN folded : SlotStart(folded[i].key[1]) = s}

\* Every slot the book has is the candle of all the ticks of its period, whatever
\* order they came in and although slots are dropped and clocks are wrong: the open
\* and close are those of the earliest and latest tick by time, then sequence.
SlotsFoldTheirTicks ==
  \A s \in DOMAIN slots :
    LET first == CHOOSE i \in TicksIn(s) : \A j \in TicksIn(s) : ~Earlier(folded[j].key, folded[i].key)
        last == CHOOSE i \in TicksIn(s) : \A j \in TicksIn(s) : ~Earlier(folded[i].key, folded[j].key)
        prices == {folded[i].price : i \in TicksIn(s)}
    IN /\ slots[s].open = folded[first].price /\ slots[s].close = folded[last].price
       /\ slots[s].high = Max(prices) /\ slots[s].low = Min(prices)

\* No tick of the visible window is missing from the book: a tick stamped in the
\* future does not push the window away ("ensure cutoff never exceeds
\* current_utc_now window, preventing premature pruning of active candles").
VisibleWindowKept ==
  \A i \in DOMAIN folded :
    LET s == SlotStart(folded[i].key[1])
    IN s > SlotStart(utc_now) - Period * Slots /\ s <= SlotStart(utc_now) => s \in DOMAIN slots

\* A view shows exactly one candle as running, the last; every other slot of it is
\* closed or empty, also when no tick has come since its period ended.
OnlyLastIsRunning ==
  LET view == View(Slots + 1)
  IN \A i \in DOMAIN view : (view[i].state = "Active") <=> i = Len(view)

\* The candles of a book are those of the ticks received, none of the visible window is
\* missing, and a view shows only its last one as running (CandleBook, candle.rs).
\* A slot is the candle of all its ticks, no tick of the visible window is lost and a
\* view shows only its last slot as running (CandleBook, candle.rs).
BookCorrect == BookTypeOK /\ SlotsFoldTheirTicks /\ VisibleWindowKept /\ OnlyLastIsRunning
=============================================================================
