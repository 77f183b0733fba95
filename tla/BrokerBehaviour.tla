--------------------------- MODULE BrokerBehaviour ---------------------------
(***************************************************************************)
(* What the engine learns of one broker's feed: the quote persistence and  *)
(* repricing trackers of metrics/persistence.rs, the fingerprint of        *)
(* metrics/fingerprint.rs and the hypotheses metrics/hypothesis.rs draws   *)
(* from them.  Frequencies stay pairs of counters and are compared by      *)
(* cross-multiplication; times are scaled, with the thresholds as          *)
(* constants.                                                              *)
(***************************************************************************)
EXTENDS Integers, Sequences, Aggregates

CONSTANTS
  QuotePrices,    \* prices of a quote (bid and ask move together)
  LastHeard,      \* last receive time
  MaxQuotes,      \* bound on the quotes heard
  MaxMoves,       \* bound on the moves counted, and on the leads
  Spans,          \* spans of a burst cluster
  MaxHistory,     \* max_history of both trackers
  RepricingWindow,\* window_ns of the repricing tracker
  MinFollows,     \* the three follows eval_sticky_pricing asks for
  MinSamples,     \* min_sample_count
  StickyAfter,    \* sticky_pricing_min_persistence_ms
  AggregatedAfter,\* aggregation_persistence_threshold_ms
  FilteredAfter   \* the 250 ms of eval_quote_filtering

None == -1

VARIABLES
  clock,        \* receive time of the next quote or move
  persistence,  \* QuotePersistenceTracker
  durations,    \* its durations_ms
  repricing,    \* RepricingPersistenceTracker
  fingerprint,  \* counters of BrokerFingerprintTracker
  delays,       \* its delays_ms
  heard         \* ghost: times at which a live valid quote came with a new price

behaviourVars ==
  <<clock, persistence, durations, repricing, fingerprint, delays, heard>>

BehaviourInit ==
  /\ clock = 0
  /\ persistence = [price |-> None, since |-> None, first |-> None, last |-> None, valid |-> 0]
  /\ durations = <<>>
  /\ repricing = [leads |-> 0, follows |-> 0, reversions |-> 0,
                  pending |-> None, direction |-> "none"]
  /\ fingerprint = [lead |-> 0, follow |-> 0, moves |-> 0, ticks |-> 0, fresh |-> 0]
  /\ delays = <<>>
  /\ heard = <<>>

\* Both histories drop their oldest entry when full.
Bounded(history, value) ==
  IF Len(history) >= MaxHistory THEN Append(Tail(history), value) ELSE Append(history, value)

\* on_quote, unchanged price: only the last-seen time moves.
Standing(p, now) == [p EXCEPT !.last = now, !.valid = @ + 1]

Revised(p, price, now) ==
  [p EXCEPT !.price = price, !.since = now, !.last = now, !.valid = @ + 1,
            !.first = IF @ = None THEN now ELSE @]

\* record_tick: the engine calls no tick stale or an outlier.
RecordTick(live) ==
  [fingerprint EXCEPT !.ticks = @ + 1, !.fresh = @ + IF live THEN 1 ELSE 0]

\* QuotePersistenceTracker::on_quote and BrokerFingerprintTracker::record_tick,
\* for each tick the engine merges.
OnQuote(price, live) ==
  /\ fingerprint.ticks < MaxQuotes
  /\ fingerprint' = RecordTick(live)
  /\ IF ~live
     THEN UNCHANGED <<persistence, durations, heard>>
     ELSE IF price = persistence.price
     THEN /\ persistence' = Standing(persistence, clock)
          /\ UNCHANGED <<durations, heard>>
     ELSE /\ persistence' = Revised(persistence, price, clock)
          /\ durations' = IF persistence.price = None THEN durations
                          ELSE Bounded(durations, clock - persistence.since)
          /\ heard' = Append(heard, clock)
  /\ UNCHANGED <<clock, repricing, delays>>

\* A cluster the burst detector returned: its first broker led, the others
\* followed after the span of the whole cluster.
RecordLead ==
  /\ fingerprint.moves < MaxMoves
  /\ fingerprint' = [fingerprint EXCEPT !.lead = @ + 1, !.moves = @ + 1]
  /\ UNCHANGED <<clock, persistence, durations, repricing, delays, heard>>

RecordFollow(span) ==
  /\ fingerprint.moves < MaxMoves
  /\ fingerprint' = [fingerprint EXCEPT !.follow = @ + 1, !.moves = @ + 1]
  /\ delays' = Bounded(delays, span)
  /\ UNCHANGED <<clock, persistence, durations, repricing, heard>>

\* RepricingPersistenceTracker::on_lead_event.
OnLeadEvent(direction) ==
  /\ repricing.leads < MaxMoves
  /\ repricing' = [repricing EXCEPT !.leads = @ + 1, !.pending = clock, !.direction = direction]
  /\ UNCHANGED <<clock, persistence, durations, fingerprint, delays, heard>>

Expired == clock - repricing.pending > RepricingWindow
Resolved == [repricing EXCEPT !.pending = None, !.direction = "none"]
\* Mutant: a follower leaves the lead open for the next one.
StillOpen == repricing
FollowedBy == Resolved

\* on_subsequent_event: a move of this broker (own) or of another one.
OnSubsequentEvent(own, direction) ==
  /\ repricing.pending # None
  /\ repricing' =
       IF Expired THEN Resolved
       ELSE IF own /\ direction # repricing.direction
            THEN [Resolved EXCEPT !.reversions = @ + 1]
       ELSE IF ~own /\ direction = repricing.direction
            THEN [FollowedBy EXCEPT !.follows = @ + 1]
       ELSE repricing
  /\ UNCHANGED <<clock, persistence, durations, fingerprint, delays, heard>>

\* check_expiration.
CheckExpiration ==
  /\ repricing.pending # None /\ Expired
  /\ repricing' = Resolved
  /\ UNCHANGED <<clock, persistence, durations, fingerprint, delays, heard>>

AdvanceClock ==
  /\ clock < LastHeard /\ clock' = clock + 1
  /\ UNCHANGED <<persistence, durations, repricing, fingerprint, delays, heard>>

BehaviourNext ==
  \/ \E price \in QuotePrices, live \in BOOLEAN : OnQuote(price, live)
  \/ RecordLead
  \/ \E span \in Spans : RecordFollow(span)
  \/ \E direction \in {"up", "down"} : OnLeadEvent(direction)
  \/ \E own \in BOOLEAN, direction \in {"up", "down"} : OnSubsequentEvent(own, direction)
  \/ CheckExpiration
  \/ AdvanceClock

BehaviourSpec == BehaviourInit /\ [][BehaviourNext]_behaviourVars

\* The thresholds of HypothesisEngineConfig::default are in this order.
BehaviourLimits ==
  /\ QuotePrices \subseteq Nat /\ Spans \subseteq Nat
  /\ {LastHeard, MaxQuotes, MaxMoves, RepricingWindow, MinFollows, MinSamples} \subseteq Nat
  /\ {StickyAfter, AggregatedAfter, FilteredAfter} \subseteq Nat
  /\ MaxHistory \in Nat \ {0}
  /\ StickyAfter <= AggregatedAfter /\ AggregatedAfter <= FilteredAfter

-----------------------------------------------------------------------------
\* percentile and the median of compile_fingerprint, times 100: the value
\* pct (0..100) of the way through the sorted history, interpolated.
Percentile(history, pct) ==
  LET sorted == Ascending(history)
      rank == pct * (Len(history) - 1)
      lower == rank \div 100
      weight == rank % 100
      upper == IF weight = 0 THEN lower ELSE lower + 1
  IN sorted[lower + 1] * (100 - weight) + sorted[upper + 1] * weight

AtLeast(history, threshold) == history # <<>> /\ Percentile(history, 50) >= 100 * threshold

\* eval_delayed_repricing, with the default thresholds of the configuration.
DelayedRepricing ==
  /\ fingerprint.moves > 0 /\ 100 * fingerprint.follow >= 35 * fingerprint.moves
  /\ AtLeast(delays, 1)
  /\ 100 * fingerprint.fresh >= 80 * fingerprint.ticks

RepricingEvidence ==
  /\ repricing.follows >= MinFollows
  /\ 2 * repricing.follows >= repricing.leads
  /\ 5 * repricing.reversions <= repricing.leads

\* eval_sticky_pricing; the engine never marks a tick stale or an outlier, so
\* those two frequencies are 0.
StickyPricing ==
  \/ RepricingEvidence
  \/ AtLeast(durations, StickyAfter)
  \/ /\ fingerprint.moves > 0 /\ 100 * fingerprint.lead >= 40 * fingerprint.moves
     /\ delays # <<>> => Percentile(delays, 50) <= 100

\* eval_quote_filtering and eval_feed_aggregation.
QuoteFiltering == AtLeast(durations, FilteredAfter)
FeedAggregation ==
  \/ AtLeast(durations, AggregatedAfter)
  \/ /\ AtLeast(delays, 3)
     /\ fingerprint.moves > 0 /\ 100 * fingerprint.follow >= 40 * fingerprint.moves

\* HypothesisEngine::evaluate, behind its low-N guard.
Hypotheses ==
  IF fingerprint.ticks < MinSamples THEN {}
  ELSE {h \in {"delayed", "sticky", "filtering", "aggregation"} :
          \/ h = "delayed" /\ DelayedRepricing
          \/ h = "sticky" /\ StickyPricing
          \/ h = "filtering" /\ QuoteFiltering
          \/ h = "aggregation" /\ FeedAggregation}

-----------------------------------------------------------------------------
\* Histories stay within their bound, and every counted event is one kind.
BehaviourTypeOK ==
  /\ Len(durations) <= MaxHistory /\ Len(delays) <= MaxHistory
  /\ fingerprint.fresh = persistence.valid /\ fingerprint.fresh <= fingerprint.ticks
  /\ fingerprint.lead + fingerprint.follow = fingerprint.moves

\* The recorded durations are the last lifetimes of the broker's quotes: each is
\* the time from the quote that first showed a price to the one that replaced it,
\* whatever repetitions, warm-up and invalid quotes came between (on_quote).
DurationsAreLifetimes ==
  LET lives == [i \in 1..(Len(heard) - 1) |-> heard[i + 1] - heard[i]]
  IN /\ durations = SubSeq(lives, Len(lives) - Len(durations) + 1, Len(lives))
     /\ Len(lives) >= Len(durations)
     /\ Len(durations) = MaxHistory \/ Len(durations) = Len(heard) - 1 \/ heard = <<>>

\* Each lead is answered at most once, so the follow and the reversion rate never
\* add up to more than one (on_lead_event, on_subsequent_event, check_expiration).
LeadsAnsweredOnce ==
  LET open == IF repricing.pending = None THEN 0 ELSE 1
  IN repricing.follows + repricing.reversions + open <= repricing.leads

\* The evidence for filtering is evidence for aggregation and for sticky pricing
\* too, and no hypothesis is drawn from fewer ticks than the low-N guard asks.
HypothesesAreNested ==
  /\ "filtering" \in Hypotheses => {"aggregation", "sticky"} \subseteq Hypotheses
  /\ "aggregation" \in Hypotheses =>
       \/ Hypotheses \cap {"sticky", "delayed"} # {}
       \/ 100 * fingerprint.fresh < 80 * fingerprint.ticks
  /\ Hypotheses # {} => fingerprint.ticks >= MinSamples

\* What the hypotheses rest on is what was observed (persistence.rs, fingerprint.rs,
\* hypothesis.rs).
BehaviourCorrect ==
  BehaviourTypeOK /\ DurationsAreLifetimes /\ LeadsAnsweredOnce /\ HypothesesAreNested
=============================================================================
