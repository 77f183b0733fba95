------------------------------ MODULE ChartScale ------------------------------
(***************************************************************************)
(* The price axis of the candle chart (src/src/ui/chart/scale.rs and the      *)
(* part of candlestick.rs that calls it).  With a fixed scale the chart shows *)
(* the prices within half a span of an anchor, and the anchor follows the     *)
(* brokers' quotes once they leave the stationary zone around it.  Anchor and *)
(* latch outlive the frame: they belong to the dashboard.                     *)
(*                                                                           *)
(* A price is a multiple of 2, so that midpoints are integers.  Broker ids    *)
(* are their own order.                                                       *)
(***************************************************************************)
EXTENDS Integers, FiniteSetsExt

CONSTANTS
  ScaleBrokers,   (* visible brokers                                           *)
  ScalePrices,    (* prices quoted                                             *)
  Half,           (* half_span: half of the configured span                    *)
  Deadzone        (* deadzone: 0.4 of the span                                 *)

VARIABLES
  scale,              (* candle_price_scale: "auto" or "fixed"                 *)
  follow,             (* candle_follow_criteria: "median" or "edge"            *)
  chart_anchor,       (* candle_chart_anchor, or NoAnchor                      *)
  margin_edge_latch,  (* candle_margin_edge_latch: "none", "top" or "bottom"   *)
  candidates,         (* what the last frame followed: broker -> price and rx  *)
  drawn               (* a frame was drawn since the settings changed          *)

scaleVars == <<scale, follow, chart_anchor, margin_edge_latch, candidates, drawn>>

NoAnchor == -1

\* extract_valid_quote_candidates_for_mode: connected, live, valid and recent quotes
\* of the visible brokers; which ones are is MarketView's business.  Times of receipt
\* are only compared.
CandidateSets ==
  {c \in UNION {[S -> [price : ScalePrices, rx : 0 .. 1]] : S \in SUBSET ScaleBrokers} :
     DOMAIN c # {} => \E b \in DOMAIN c : c[b].rx = 0}

PricesOf(c) == {c[b].price : b \in DOMAIN c}

ScaleInit ==
  /\ scale \in {"auto", "fixed"} /\ follow \in {"median", "edge"}
  /\ chart_anchor = NoAnchor /\ margin_edge_latch = "none"
  /\ candidates = << >> /\ drawn = FALSE

-----------------------------------------------------------------------------
(* resolve_candle_follow_scale                                                *)

Placed(anchor, latch) == [anchor |-> anchor, latch |-> latch]

\* No quote to follow: the chart stays, or starts at the fallback price.
HeldAnchor(fallback) == Placed(IF chart_anchor = NoAnchor THEN fallback ELSE chart_anchor, "none")

\* The median, of two brokers the mean; n brokers in general, by counting.
MedianPrice(c) ==
  LET n == Cardinality(DOMAIN c)
      AtPlace(k) == CHOOSE p \in PricesOf(c) :
        /\ Cardinality({b \in DOMAIN c : c[b].price < p}) < k
        /\ Cardinality({b \in DOMAIN c : c[b].price <= p}) >= k
  IN (AtPlace((n + 1) \div 2) + AtPlace(n \div 2 + 1)) \div 2

FollowMedian(c) ==
  LET m == MedianPrice(c)
  IN Placed(IF chart_anchor = NoAnchor THEN m
            ELSE IF m > chart_anchor + Deadzone THEN m - Deadzone
            ELSE IF m < chart_anchor - Deadzone THEN m + Deadzone
            ELSE chart_anchor, "none")

\* The broker of a price, the lower id of several.
BrokerAt(c, price) == Min({b \in DOMAIN c : c[b].price = price})

\* Both edges are out: the latched one is followed, else the more recent one.
FollowedEdge(c) ==
  LET top == c[BrokerAt(c, Max(PricesOf(c)))].rx
      bottom == c[BrokerAt(c, Min(PricesOf(c)))].rx
  IN IF margin_edge_latch # "none" THEN margin_edge_latch
     ELSE IF top > bottom THEN "top" ELSE IF top < bottom THEN "bottom" ELSE "none"

FollowEdge(c) ==
  LET high == Max(PricesOf(c))
      low == Min(PricesOf(c))
      anchor == IF chart_anchor = NoAnchor THEN (low + high) \div 2 ELSE chart_anchor
      above == high > anchor + Deadzone
      below == low < anchor - Deadzone
      edge == IF above /\ below THEN FollowedEdge(c)
              ELSE IF above THEN "top" ELSE IF below THEN "bottom" ELSE "none"
  IN Placed(CASE edge = "top" -> high - Deadzone
              [] edge = "bottom" -> low + Deadzone
              [] above /\ below /\ edge = "none" -> (low + high) \div 2
              [] OTHER -> anchor, edge)

ResolvedAnchor(c, fallback) ==
  IF DOMAIN c = {} THEN HeldAnchor(fallback)
  ELSE IF follow = "median" THEN FollowMedian(c) ELSE FollowEdge(c)

-----------------------------------------------------------------------------
\* A frame of the chart; an automatic scale fits the candles and forgets the anchor.
DrawFrame ==
  \E c \in CandidateSets : \E fallback \in {0} \cup PricesOf(c) :
    LET placed == IF scale = "auto" THEN Placed(NoAnchor, "none") ELSE ResolvedAnchor(c, fallback)
    IN /\ chart_anchor' = placed.anchor /\ margin_edge_latch' = placed.latch
       /\ candidates' = c /\ drawn' = TRUE
       /\ UNCHANGED <<scale, follow>>

\* Another scale, span or price mode (set_candle_price_scale, set_candle_price_mode).
SetScale ==
  /\ scale' \in {"auto", "fixed"}
  /\ chart_anchor' = NoAnchor /\ margin_edge_latch' = "none" /\ drawn' = FALSE
  /\ UNCHANGED <<follow, candidates>>

SetFollowCriteria ==
  /\ follow' \in {"median", "edge"} \ {follow}
  /\ margin_edge_latch' = "none" /\ drawn' = FALSE
  /\ UNCHANGED <<scale, chart_anchor, candidates>>

ScaleNext == DrawFrame \/ SetScale \/ SetFollowCriteria

ScaleSpec == ScaleInit /\ [][ScaleNext]_scaleVars

ScaleLimits ==
  /\ IsFiniteSet(ScaleBrokers) /\ ScaleBrokers \subseteq Nat /\ ScalePrices \subseteq Nat
  /\ Half \in Nat /\ Deadzone \in Nat /\ Deadzone <= Half
  /\ \A p \in ScalePrices : p >= Deadzone     \* else an anchor might look like NoAnchor

-----------------------------------------------------------------------------
\* The types of all variables.
ScaleTypeOK ==
  /\ scale \in {"auto", "fixed"} /\ follow \in {"median", "edge"}
  /\ chart_anchor \in Int /\ margin_edge_latch \in {"none", "top", "bottom"}
  /\ candidates \in CandidateSets /\ drawn \in BOOLEAN

Following == drawn /\ scale = "fixed" /\ DOMAIN candidates # {}

\* The quotes lie closer together than the stationary zone is wide.
Narrow == Max(PricesOf(candidates)) - Min(PricesOf(candidates)) <= 2 * Deadzone

InSight(p) == p <= chart_anchor + Half /\ p >= chart_anchor - Half

\* Wherever the anchor was, what the chart follows is in sight: the median, or every
\* quote while they lie close together, or else one of the two edges - but for two
\* edges quoted at the same time (resolve_candle_follow_scale).
FollowedIsInSight ==
  Following =>
    CASE follow = "median" -> InSight(MedianPrice(candidates))
      [] follow = "edge" /\ Narrow -> \A p \in PricesOf(candidates) : InSight(p)
      [] OTHER -> \/ InSight(Max(PricesOf(candidates))) \/ InSight(Min(PricesOf(candidates)))
                  \/ margin_edge_latch = "none"

Settled == ResolvedAnchor(candidates, 0).anchor = chart_anchor

\* Drawing the same quotes again leaves the chart where it is, while the quotes lie
\* close together or the median is followed.
NarrowQuotesStandStill ==
  Following /\ (follow = "median" \/ Narrow) => Settled

\* What a fixed scale follows is in sight, and the chart rests while narrow quotes do
\* (resolve_candle_follow_scale).
ScaleCorrect == ScaleTypeOK /\ FollowedIsInSight /\ NarrowQuotesStandStill
=============================================================================
