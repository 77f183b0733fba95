--------------------------- MODULE PairDifference ---------------------------
(***************************************************************************)
(* The price-difference series of the selected pair: the part of           *)
(* process_frame in tick/engine.rs that picks the two quotes, and   *)
(* PairDifferenceTracker of metrics/price_diff.rs that keeps the points.   *)
(***************************************************************************)
EXTENDS Integers, Sequences, SequencesExt

CONSTANTS
  PairPrices,     \* mids of the quotes
  PairStale,      \* health.stale_after_ms
  MaxSkew,        \* matcher.max_quote_skew_ms
  Visible,        \* max_history_ns
  MaxPoints,      \* max_points
  LastReceived,   \* last receive time
  MaxOffered      \* bound on the points computed

Nothing == 0

VARIABLES
  pair_quotes,    \* latest_quotes of the pair: the mid, or Nothing, and its time
  ring_buffer,    \* PairDifferenceTracker.ring_buffer
  offered,        \* ghost: every point computed
  in_order        \* ghost: no side's tick was received before the side's last one

pairVars == <<pair_quotes, ring_buffer, offered, in_order>>

Sides == {1, 2}

PairInit ==
  /\ pair_quotes = [s \in Sides |-> [mid |-> Nothing, rx |-> 0]]
  /\ ring_buffer = <<>>
  /\ offered = <<>>
  /\ in_order = TRUE

\* Mutant: the quote may be younger than the tick.
FreshOrYounger(qs, s, now) == qs[s].mid # Nothing /\ now - qs[s].rx <= PairStale

\* A tick forced out of an overflowing queue is processed before earlier ones of the
\* other broker (force_drain_overflow), so a quote can be younger than the tick.
FreshSide(qs, s, now) ==
  qs[s].mid # Nothing /\ qs[s].rx <= now /\ now - qs[s].rx <= PairStale

Synchronized(qs, now) ==
  /\ \A s \in Sides : FreshSide(qs, s, now)
  /\ qs[1].rx - qs[2].rx \in -MaxSkew..MaxSkew

\* compute_and_record pops points from the front up to the first in the window, then
\* while they are too many: the first that stays is the first of both.
Staying(points, now) ==
  {i \in DOMAIN points : /\ \E j \in 1..i : points[j].at >= now - Visible
                         /\ i > Len(points) - MaxPoints}

Pruned(points, now) == SubSeq(points, Min(Staying(points, now)), Len(points))

Point(qs, now) ==
  [at |-> now, diff |-> qs[1].mid - qs[2].mid, rx |-> [s \in Sides |-> qs[s].rx]]

\* A valid tick of one side, received at any time.  A warm-up quote replaces the live
\* one, is never fresh and computes no point.
PairQuote(s, mid, now) ==
  /\ Len(offered) < MaxOffered
  /\ LET qs == [pair_quotes EXCEPT ![s] = [mid |-> mid, rx |-> now]] IN
     /\ pair_quotes' = qs
     /\ IF mid # Nothing /\ Synchronized(qs, now)
        THEN /\ ring_buffer' = Pruned(Append(ring_buffer, Point(qs, now)), now)
             /\ offered' = Append(offered, Point(qs, now))
        ELSE UNCHANGED <<ring_buffer, offered>>
  /\ in_order' = (in_order /\ pair_quotes[s].rx <= now)

\* The end of a connection takes the broker's quote away.
Withdraw(s) ==
  /\ pair_quotes' = [pair_quotes EXCEPT ![s].mid = Nothing]
  /\ UNCHANGED <<ring_buffer, offered, in_order>>

\* set_active_pair with the two brokers exchanged: a new series, the same quotes.
SelectPair ==
  /\ pair_quotes' = [s \in Sides |-> pair_quotes[3 - s]]
  /\ ring_buffer' = <<>>
  /\ offered' = <<>>
  /\ UNCHANGED in_order

\* reset_state of a seek: time may start again.
ResetPair ==
  /\ pair_quotes' = [s \in Sides |-> [mid |-> Nothing, rx |-> 0]]
  /\ ring_buffer' = <<>>
  /\ offered' = <<>>
  /\ in_order' = TRUE

PairNext ==
  \/ \E s \in Sides, mid \in PairPrices \cup {Nothing}, now \in 0..LastReceived :
       PairQuote(s, mid, now)
  \/ \E s \in Sides : Withdraw(s)
  \/ SelectPair \/ ResetPair

PairSpec == PairInit /\ [][PairNext]_pairVars

PairLimits ==
  /\ PairPrices \subseteq Nat \ {Nothing} /\ PairStale \in Nat /\ MaxSkew \in Nat
  /\ Visible \in Nat /\ MaxPoints \in Nat \ {0}
  /\ LastReceived \in Nat /\ MaxOffered \in Nat

-----------------------------------------------------------------------------
\* The ring stays within its bound.
PairTypeOK == Len(ring_buffer) <= MaxPoints /\ in_order \in BOOLEAN

\* Both quotes of a point were received when it was computed, not too long before,
\* and in step with each other.
InStep(point) ==
  /\ \A s \in Sides : point.rx[s] \in (point.at - PairStale)..point.at
  /\ point.rx[1] - point.rx[2] \in -MaxSkew..MaxSkew

\* The series shows the latest points of the pair, every one of them made of two fresh
\* quotes in step, none missing that neither left the window of a later one nor was
\* beyond the bound.  Whatever one broker's ticks are forced out of turn before the
\* other's, the series is in order of time and within the visible window as long as
\* each broker's own ticks are.
SeriesIsSynchronized ==
  /\ \A i \in DOMAIN ring_buffer : InStep(ring_buffer[i])
  /\ ring_buffer = SubSeq(offered, Len(offered) - Len(ring_buffer) + 1, Len(offered))
  /\ Len(ring_buffer) < Len(offered) =>
       LET gone == Len(offered) - Len(ring_buffer) IN
       \/ Len(ring_buffer) = MaxPoints
       \/ \E j \in gone + 1 .. Len(offered) : offered[gone].at < offered[j].at - Visible
  /\ in_order => \A i, j \in DOMAIN ring_buffer :
       i < j => ring_buffer[j].at - ring_buffer[i].at \in 0..Visible

\* The difference series shows exactly the newest points at which both quotes of the
\* pair were fresh and in step, in order of time over the ticks forced out of an
\* overflowing queue (PairDifferenceTracker, process_frame, force_drain_overflow).
PairCorrect == PairTypeOK /\ SeriesIsSynchronized
=============================================================================
