------------------------------ MODULE Consensus ------------------------------
(***************************************************************************)
(* ConsensusCalculator::compute of metrics/consensus.rs over the latest    *)
(* quotes of all brokers.  Mids are kept doubled (bid + ask) and medians   *)
(* doubled again, so that every number of the code is an integer here.     *)
(***************************************************************************)
EXTENDS Integers, Sequences, FiniteSets, FiniteSetsExt, Aggregates

CONSTANTS
  Panel,        \* broker ids
  Bids,         \* bid prices
  Spreads,      \* spreads of valid quotes
  StaleAge,     \* stale_after_ms
  LastTick,     \* last receive time
  MadMultiplier

VARIABLES
  quotes,       \* latest_quotes
  at            \* receive time of the last merged tick, the `now' of compute

consensusVars == <<quotes, at>>

ConsensusInit ==
  /\ quotes = << >>
  /\ at = 0

Mid(q) == 2 * q.bid + q.spread
Ask(q) == q.bid + q.spread

\* The brokers whose quotes compute counts as fresh at `now'.
FreshQuotes(now) ==
  {b \in DOMAIN quotes : quotes[b].rx <= now /\ now - quotes[b].rx <= StaleAge}

\* compute_median_in_place of the values, doubled.
Middle(values) ==
  LET s == Ascending(values) n == Cardinality(DOMAIN values) IN
  IF n % 2 = 1 THEN 2 * s[(n \div 2) + 1] ELSE s[n \div 2] + s[(n \div 2) + 1]

FreshMids(fresh) == [b \in fresh |-> Mid(quotes[b])]
ConsensusMid(fresh) == Middle(FreshMids(fresh))

\* |mid - median|, on the doubled scale.
Deviation(fresh, b) == 2 * Mid(quotes[b]) - ConsensusMid(fresh)
AbsDeviation(fresh, b) == IF Deviation(fresh, b) < 0 THEN -Deviation(fresh, b)
                          ELSE Deviation(fresh, b)

\* compute_mad, only from four fresh brokers on; doubled once more.
HasMad(fresh) == Cardinality(fresh) >= 4
AbsDeviations(fresh) == [b \in fresh |-> AbsDeviation(fresh, b)]
MedianAbsDeviation(fresh) == Middle(AbsDeviations(fresh))

BeyondMad(fresh, b) ==
  MadMultiplier * MedianAbsDeviation(fresh) < 2 * AbsDeviation(fresh, b)

Outliers(fresh) ==
  IF ~HasMad(fresh) \/ MedianAbsDeviation(fresh) = 0 THEN {}
  ELSE {b \in fresh : BeyondMad(fresh, b)}

CrossedSnapshots(fresh) ==
  {p \in fresh \X fresh : p[1] # p[2] /\ quotes[p[1]].bid > Ask(quotes[p[2]])}

-----------------------------------------------------------------------------
\* latest_quotes as live valid ticks of broker b are merged.
QuoteArrives(b) ==
  \E bid \in Bids, spread \in Spreads, step \in 0..1 :
    /\ at + step <= LastTick
    /\ at' = at + step
    /\ quotes' = [c \in DOMAIN quotes \cup {b} |->
                 IF c = b THEN [bid |-> bid, spread |-> spread, rx |-> at'] ELSE quotes[c]]

ConsensusNext == \E b \in Panel : QuoteArrives(b)

ConsensusSpec == ConsensusInit /\ [][ConsensusNext]_consensusVars

\* ConsensusCalculator::new multiplies by three, and no caller chooses another factor.
ConsensusLimits ==
  /\ Panel \subseteq Int /\ IsFiniteSet(Panel)
  /\ Bids \subseteq Int /\ Spreads \subseteq Nat
  /\ StaleAge \in Nat /\ LastTick \in Nat
  /\ MadMultiplier \in Nat /\ MadMultiplier >= 2

-----------------------------------------------------------------------------
FreshNow == FreshQuotes(at)

\* Quotes of known brokers, none from the future.
ConsensusTypeOK ==
  /\ DOMAIN quotes \subseteq Panel
  /\ \A b \in DOMAIN quotes : quotes[b].rx <= at

\* Fewer than half of the fresh brokers are outliers, so the median a broker is
\* measured against is carried by brokers that are not (the MAD test of compute,
\* with its exemption for fewer than four brokers and for a MAD of zero).
OutliersAreAMinority == 2 * Cardinality(Outliers(FreshNow)) < Cardinality(FreshNow) \/ FreshNow = {}

\* No two fresh brokers cross each other both ways, and some pair is crossed
\* exactly when the highest bid is above the lowest ask (the nested loop of
\* compute against its ranges).
CrossedAsTheRangesSay ==
  LET crossed == CrossedSnapshots(FreshNow)
      bids == {quotes[b].bid : b \in FreshNow}
      asks == {Ask(quotes[b]) : b \in FreshNow}
  IN /\ \A p \in crossed : <<p[2], p[1]>> \notin crossed
     /\ FreshNow # {} => (crossed # {} <=> Max(bids) > Min(asks))

\* Dispersion and crossings are those of the fresh quotes (consensus.rs).
ConsensusCorrect == ConsensusTypeOK /\ OutliersAreAMinority /\ CrossedAsTheRangesSay
=============================================================================
