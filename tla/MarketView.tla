------------------------------- MODULE MarketView -------------------------------
(***************************************************************************)
(* What the screen is told about the feeds: the engine's health states, latest*)
(* quotes, move events and tick rates (src/src/tick/engine.rs), and the      *)
(* projection computed from them (src/src/tick/projection.rs, with           *)
(* src/src/metrics/burst.rs, consensus.rs and spread.rs).  Frames are merged *)
(* late: a tick may be merged after its connection has ended.                *)
(***************************************************************************)
EXTENDS Integers, SequencesExt, FiniteSetsExt

CONSTANTS
  Feeds,            (* configured brokers; the active pair is the first two *)
  MaxMono,          (* bound: the monotonic clock                           *)
  StaleAfter,       (* stale_after_ms                                       *)
  Skew,             (* max_quote_skew_ms                                    *)
  BurstWindow,      (* matching_window_ms                                   *)
  RateWindow,       (* one second                                           *)
  MaxMerged         (* bound: merged ticks                                  *)

NeverLive == -1

VARIABLES
  mono,             (* the clock                                            *)
  connected,        (* is_connected, and the health's connection            *)
  latest,           (* latest_quotes: feed -> [rx, warm]                    *)
  last_live,        (* last_live_tick_rx_mono                               *)
  recent_events,    (* of the burst detector                                *)
  recent_ticks,     (* of each spread tracker                               *)
  merged            (* history: every merged tick [feed, rx, move, spread]   *)

viewVars == <<mono, connected, latest, last_live, recent_events, recent_ticks, merged>>

ViewInit ==
  /\ mono = 0
  /\ connected = [f \in Feeds |-> FALSE]
  /\ latest = << >>
  /\ last_live = [f \in Feeds |-> NeverLive]
  /\ recent_events = << >>
  /\ recent_ticks = [f \in Feeds |-> << >>]
  /\ merged = << >>

QuoteRemoved(quotes, f) == Restrict(quotes, DOMAIN quotes \ {f})

\* on_ingress_item_at, Connected and End.
Connect(f) ==
  /\ connected' = [connected EXCEPT ![f] = TRUE]
  /\ latest' = QuoteRemoved(latest, f)
  /\ last_live' = [last_live EXCEPT ![f] = NeverLive]
  /\ UNCHANGED <<mono, recent_events, recent_ticks, merged>>

End(f) ==
  /\ connected[f]
  /\ connected' = [connected EXCEPT ![f] = FALSE]
  /\ latest' = QuoteRemoved(latest, f)
  /\ UNCHANGED <<mono, last_live, recent_events, recent_ticks, merged>>

\* Drops the events, or ticks, at the front that are older than the window.
DropOld(queue, cutoff, At(_)) ==
  LET young == {i \in DOMAIN queue : At(queue[i]) >= cutoff}
  IN IF young = {} THEN << >> ELSE SubSeq(queue, Min(young), Len(queue))

EventCutoff(rx) == rx - BurstWindow

\* process_frame with a valid tick received at rx: the spread tracker, which
\* passes over a tick without a spread, the latest quote, a move if the detector finds
\* one, and the health.
Merge(f, rx, warm, move, spread) ==
  /\ Len(merged) < MaxMerged /\ rx <= mono
  /\ warm => move = "none"
  /\ recent_ticks' = IF spread = 0 THEN recent_ticks ELSE [recent_ticks EXCEPT ![f] =
       DropOld(Append(@, rx), rx - RateWindow, LAMBDA t : t)]
  /\ latest' = [g \in DOMAIN latest \cup {f} |->
                  IF g = f THEN [rx |-> rx, warm |-> warm] ELSE latest[g]]
  /\ recent_events' = IF move = "none" THEN recent_events
                      ELSE Append(DropOld(recent_events, EventCutoff(rx), LAMBDA e : e.rx),
                                  [feed |-> f, rx |-> rx, move |-> move])
  /\ last_live' = IF warm THEN last_live ELSE [last_live EXCEPT ![f] = rx]
  /\ merged' = Append(merged, [feed |-> f, rx |-> rx, move |-> move, spread |-> spread])
  /\ UNCHANGED <<mono, connected>>

MonoPasses == mono < MaxMono /\ mono' = mono + 1
              /\ UNCHANGED <<connected, latest, last_live, recent_events, recent_ticks, merged>>

ViewNext ==
  \/ \E f \in Feeds : Connect(f) \/ End(f)
  \/ \E f \in Feeds, rx \in 0..MaxMono, warm \in BOOLEAN, move \in {"none", "Up", "Down"},
        spread \in 0..1 : Merge(f, rx, warm, move, spread)
  \/ MonoPasses

ViewSpec == ViewInit /\ [][ViewNext]_viewVars

ViewLimits ==
  /\ IsFiniteSet(Feeds) /\ MaxMono \in Nat /\ StaleAfter \in Nat /\ Skew \in Nat
  /\ BurstWindow \in Nat /\ RateWindow \in Nat /\ MaxMerged \in Nat

(***************************************************************************)
(* make_projection_at, at the time `mono`.                                   *)
(***************************************************************************)

\* data_freshness as projected for a connected feed.
Freshness(f) == IF last_live[f] = NeverLive THEN "Unknown"
                ELSE IF mono - last_live[f] <= StaleAfter THEN "Live" ELSE "Stale"

FreshQuote(f) == f \in DOMAIN latest /\ ~latest[f].warm /\ mono - latest[f].rx <= StaleAfter

\* Mutant: a feed that ended is not stale while its last quote is recent.
StaleByQuote == {f \in Feeds : ~FreshQuote(f)}
StaleBrokers == {f \in Feeds : ~connected[f] \/ ~FreshQuote(f)}

\* The brokers of the consensus, its fresh_count.
Consensus == {f \in DOMAIN latest \ StaleBrokers : ~latest[f].warm
                                                   /\ mono - latest[f].rx <= StaleAfter}

\* The active pair has a comparison when its quotes are of about the same time.
Comparable(a, b) ==
  /\ connected[a] /\ connected[b] /\ FreshQuote(a) /\ FreshQuote(b)
  /\ latest[a].rx - latest[b].rx \in -Skew..Skew

EventsNow(dir) ==
  {i \in DOMAIN recent_events :
     LET e == recent_events[i]
     IN e.move = dir /\ e.rx >= mono - BurstWindow /\ e.rx <= mono /\ e.feed \notin StaleBrokers}

\* detect_cluster_at: the brokers of a burst, in the order they are first seen, or
\* none when they are fewer than two.
Cluster(dir) ==
  LET feeds == {recent_events[i].feed : i \in EventsNow(dir)}
  IN IF Cardinality(feeds) >= 2 THEN feeds ELSE {}

\* compute_breadth_with_stale_brokers: each broker counts for its last move.
Counted(dir) ==
  LET moves == EventsNow("Up") \cup EventsNow("Down")
  IN {recent_events[i].feed : i \in {i \in EventsNow(dir) :
        \A j \in moves : recent_events[j].feed = recent_events[i].feed => j <= i}}

\* tick_rate_1s_at
TickRate(f) == Cardinality({i \in DOMAIN recent_ticks[f] : recent_ticks[f][i] >= mono - RateWindow})

ViewTypeOK ==
  /\ DOMAIN latest \subseteq Feeds
  /\ \A f \in Feeds : last_live[f] \in NeverLive..mono

\* A feed that is not connected contributes to nothing that is shown - not to the
\* comparison, the consensus, a burst or the breadth - although a frame merged after
\* the end of its connection gives it a latest quote again (is_connected in
\* fresh_quote and stale_brokers).
DisconnectedContributesNothing ==
  \A f \in Feeds : ~connected[f] =>
    /\ f \notin Consensus
    /\ \A dir \in {"Up", "Down"} : f \notin Cluster(dir) \cup Counted(dir)
    /\ \A g \in Feeds \ {f} : ~Comparable(f, g)

\* A feed the analysis uses is one the overview shows as connected and live: the two
\* are computed from different state, the latest quote and the health.
AnalysedIsShownLive ==
  \A f \in Consensus : connected[f] /\ Freshness(f) = "Live"

\* The breadth counts every broker at most once: up, down and stale never add up to
\* more than there are brokers.
BreadthWithinFeeds ==
  Cardinality(Counted("Up")) + Cardinality(Counted("Down")) + Cardinality(StaleBrokers)
    <= Cardinality(Feeds)

\* No move of the current window has been dropped from the detector's queue, in
\* whatever order late frames were merged: a burst is complete.
BurstIsComplete ==
  \A i \in DOMAIN merged :
    merged[i].move # "none" /\ merged[i].rx >= mono - BurstWindow =>
      \E j \in DOMAIN recent_events :
        recent_events[j] = [feed |-> merged[i].feed, rx |-> merged[i].rx, move |-> merged[i].move]

\* The tick rate shown is the number of live and warm-up ticks with a spread that were
\* received in the last second, also when no tick has come to prune the tracker's queue.
TickRateIsExact ==
  \A f \in Feeds :
    TickRate(f) = Cardinality({i \in DOMAIN merged : merged[i].feed = f /\ merged[i].spread > 0
                                                     /\ merged[i].rx >= mono - RateWindow})

\* What one projection says of the market: a disconnected feed is in no figure, what is
\* analysed is shown live, breadth and burst and tick rate count right
\* (make_projection_at, projection.rs).
ViewCorrect ==
  /\ ViewTypeOK /\ DisconnectedContributesNothing /\ AnalysedIsShownLive
  /\ BreadthWithinFeeds /\ BurstIsComplete /\ TickRateIsExact
=============================================================================
