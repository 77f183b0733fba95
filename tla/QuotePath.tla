-------------------------------- MODULE QuotePath --------------------------------
(***************************************************************************)
(* The realtime quote path of the engine (src/src/tick/engine.rs): the points*)
(* the chart draws, each with the price every broker had and their median.   *)
(* A live tick adds a point at its receive time, a warm-up tick one in the   *)
(* past, and a tick closer than 20 ms to a later point is merged into it.    *)
(* A seek rebuilds the path from the replayed ticks.                         *)
(***************************************************************************)
EXTENDS Integers, FiniteSets, SequencesExt, Aggregates

CONSTANTS
  QuoteBrokers,
  MidPrices,
  PathTimes,         (* mono_ns                                             *)
  MergeDistance,     (* 20 ms                                               *)
  Stale,             (* stale_after_ms                                      *)
  VisibleTicks,      (* display.visible_ticks                               *)
  RebuildMax,        (* max(visible_ticks, 1200)                            *)
  RebuildWindow,     (* visible_seconds + 10                                *)
  Warmups,           (* replayed ticks: sequences of [broker, at, mid]      *)
  MaxPathTicks       (* bound: ticks                                        *)

VARIABLES
  realtime_quote_history,
  path_quotes,       (* latest_quotes: broker -> [mid, rx, warm]            *)
  pathTicks          (* bound                                               *)

pathVars == <<realtime_quote_history, path_quotes, pathTicks>>

PathInit == realtime_quote_history = << >> /\ path_quotes = << >> /\ pathTicks = 0

\* HashMap::insert.
Put(map, b, value) == [c \in DOMAIN map \cup {b} |-> IF c = b THEN value ELSE map[c]]

\* compute_median_from_mids, doubled; `mids` has for each broker the price and, as a
\* history, the time it is of.
MedianOfMids(mids) ==
  LET sorted == Ascending([b \in DOMAIN mids |-> mids[b].mid])
      n == Cardinality(DOMAIN mids)
  IN IF n % 2 = 1 THEN 2 * sorted[(n \div 2) + 1]
                  ELSE sorted[n \div 2] + sorted[(n \div 2) + 1]

\* `made` is history: how the point came about.
PathPoint(at, mids, made) ==
  [at |-> at, mids |-> mids, consensus |-> IF DOMAIN mids = {} THEN 0 ELSE MedianOfMids(mids),
   made |-> made]

Contemporary(q, rx) == ~q.warm /\ q.rx <= rx /\ rx - q.rx <= Stale

\* The place of the first point that is not before `at`.
PartitionPoint(at) == Cardinality({i \in DOMAIN realtime_quote_history :
                                     realtime_quote_history[i].at < at}) + 1

\* The point a tick that comes before the last one is merged into, or none.
MergeTarget(at) ==
  LET i == PartitionPoint(at)
  IN IF realtime_quote_history[i].at - at <= MergeDistance THEN {i}
     ELSE IF i > 1 /\ at - realtime_quote_history[i - 1].at <= MergeDistance THEN {i - 1} ELSE {}

\* The tick's price enters the point, and its consensus is computed anew.
Merged(point, b, price) ==
  LET mids == Put(point.mids, b, price)
  IN [point EXCEPT !.mids = mids, !.consensus = MedianOfMids(mids)]

PathPruned(path, limit) ==
  IF Len(path) > limit THEN SubSeq(path, Len(path) - limit + 1, Len(path)) ELSE path

\* What a new point shows: the tick's price when it is valid, and the other brokers'.
PricesShown(latest, b, price, rx, warm, valid) ==
  LET others == {c \in DOMAIN latest \ {b} : warm \/ Contemporary(latest[c], rx)}
  IN [c \in others \cup (IF valid THEN {b} ELSE {}) |->
        IF c = b THEN price ELSE [mid |-> latest[c].mid, at |-> latest[c].rx]]

\* The part of process_frame that appends to the path.  A live tick is of its
\* receive time.  An invalid quote never becomes the latest one, but is merged into a
\* point as it is.
QuoteTick(b, rx, at, warm, valid, mid) ==
  LET path == realtime_quote_history
      late == path # << >> /\ at < path[Len(path)].at
      price == [mid |-> mid, at |-> at]
      latest == IF valid THEN Put(path_quotes, b, [mid |-> mid, rx |-> rx, warm |-> warm])
                         ELSE path_quotes
      point == PathPoint(at, PricesShown(latest, b, price, rx, warm, valid),
                         IF warm THEN "warmup" ELSE "live")
      target == MergeTarget(at)
      here == CHOOSE i \in target : TRUE
  IN /\ pathTicks < MaxPathTicks /\ pathTicks' = pathTicks + 1
     /\ ~warm => at = rx
     /\ at <= rx
     /\ path_quotes' = latest
     /\ realtime_quote_history' =
          PathPruned(IF ~late THEN Append(path, point)
                     ELSE IF target # {} THEN [path EXCEPT ![here] = Merged(@, b, price)]
                     ELSE InsertAt(path, PartitionPoint(at), point), VisibleTicks)

\* rebuild_quote_history_from_replay_ticks: the ticks before the window only give the
\* prices the lines start from - unless no tick is in the window, when all are drawn.
InWindow(ticks, target) ==
  {i \in DOMAIN ticks : ticks[i].at >= target - RebuildWindow /\ Len(ticks) - i < RebuildMax}

LastOf(places) == CHOOSE i \in places : \A j \in places : j <= i
FirstOf(places) == CHOOSE i \in places : \A j \in places : i <= j

PriceOf(t) == [mid |-> t.mid, at |-> t.at]

\* current_mids after the first n ticks: the last price of every broker.
CurrentMids(ticks, n) ==
  LET of(b) == {i \in 1 .. n : ticks[i].broker = b}
  IN [b \in {c \in QuoteBrokers : of(c) # {}} |-> PriceOf(ticks[LastOf(of(b))])]

\* The tick's price enters the last point, which gets the consensus of current_mids.
JoinedTo(point, t, mids) ==
  [point EXCEPT !.mids = Put(@, t.broker, PriceOf(t)), !.consensus = MedianOfMids(mids)]

\* One tick drawn: at the time of the last point it is added to that point.
Drawn(s, t, made) ==
  LET mids == Put(s.mids, t.broker, PriceOf(t))
      at == IF t.at > s.last THEN t.at ELSE s.last
      n == Len(s.path)
  IN [mids |-> mids, last |-> at,
      path |-> IF n > 0 /\ s.path[n].at = at
               THEN [s.path EXCEPT ![n] = JoinedTo(@, t, mids)]
               ELSE PathPruned(Append(s.path, PathPoint(at, mids, made)), RebuildMax)]

DrawnFrom(ticks, first, start, made) ==
  LET after[k \in 0 .. Len(ticks)] ==
        IF k = 0 THEN [mids |-> start, last |-> 0, path |-> << >>]
        ELSE IF k < first THEN after[k - 1] ELSE Drawn(after[k - 1], ticks[k], made)
  IN after[Len(ticks)]

\* The last prices are drawn up to the target.
UpToTarget(drawn, target, made) ==
  IF drawn.last < target
  THEN PathPruned(Append(drawn.path, PathPoint(target, drawn.mids, made)), RebuildMax)
  ELSE drawn.path

Rebuilt(ticks, target) ==
  LET window == InWindow(ticks, target)
      first == FirstOf(window)
  IN IF ticks = << >> THEN << >>
     ELSE IF window = {}
     THEN UpToTarget(DrawnFrom(ticks, 1, CurrentMids(ticks, Len(ticks)), "redrawn"),
                     target, "redrawn")
     ELSE UpToTarget(DrawnFrom(ticks, first, CurrentMids(ticks, first - 1), "rebuilt"),
                     target, "rebuilt")

\* The quotes the engine was fed before the rebuild (rebuild_at): all but the last
\* tick of a broker as warm-up, which is released at once, and the last as a live one of
\* the target, which is released when no connected broker is behind it.
FedQuotes(ticks, target, released) ==
  LET of(b) == {i \in DOMAIN ticks : ticks[i].broker = b}
      before(b) == of(b) \ {LastOf(of(b))}
      fed == {b \in QuoteBrokers : of(b) # {} /\ (released \/ before(b) # {})}
      last(b) == ticks[LastOf(IF released THEN of(b) ELSE before(b))]
  IN [b \in fed |-> [mid |-> last(b).mid, rx |-> IF released THEN target ELSE last(b).at,
                     warm |-> ~released]]

\* A seek: reset_state, the frames of the replayed ticks, then the rebuild.
Rebuild(ticks, target, released) ==
  /\ path_quotes' = FedQuotes(ticks, target, released)
  /\ realtime_quote_history' = Rebuilt(ticks, target)
  /\ UNCHANGED pathTicks

PathNext ==
  \/ \E b \in QuoteBrokers, rx, at \in PathTimes, warm, valid \in BOOLEAN, mid \in MidPrices :
       QuoteTick(b, rx, at, warm, valid, mid)
  \/ \E ticks \in Warmups, target \in PathTimes, released \in BOOLEAN :
       /\ \A i \in DOMAIN ticks : ticks[i].at <= target
       /\ Rebuild(ticks, target, released)

PathSpec == PathInit /\ [][PathNext]_pathVars

\* get_warmup_ticks gives the ticks of a seek in time order.
PathLimits ==
  /\ QuoteBrokers \subseteq Int /\ IsFiniteSet(QuoteBrokers)
  /\ MidPrices \subseteq Int /\ PathTimes \subseteq Nat
  /\ MergeDistance \in Nat /\ Stale \in Nat /\ RebuildWindow \in Nat
  /\ VisibleTicks \in Nat /\ RebuildMax \in Nat \ {0} /\ VisibleTicks <= RebuildMax
  /\ Warmups \subseteq Seq([broker : QuoteBrokers, at : Nat, mid : MidPrices])
  /\ \A ticks \in Warmups : \A i, j \in DOMAIN ticks : i <= j => ticks[i].at <= ticks[j].at

PathTypeOK ==
  /\ Len(realtime_quote_history) <= RebuildMax
  /\ \A b \in DOMAIN path_quotes : b \in QuoteBrokers /\ path_quotes[b].mid \in MidPrices

\* The path is in time order, although late ticks and warm-up ticks enter it in the
\* middle and a seek replaces it.
PathSorted ==
  \A i, j \in DOMAIN realtime_quote_history :
    i < j => realtime_quote_history[i].at <= realtime_quote_history[j].at

\* The consensus of every point is the median of the prices the point shows, after
\* every merge.
ConsensusIsMedian ==
  \A i \in DOMAIN realtime_quote_history :
    LET p == realtime_quote_history[i] IN DOMAIN p.mids # {} => p.consensus = MedianOfMids(p.mids)

\* A live point shows what was known at its time: no price from more than the merge
\* distance later, and none that was stale; nor does a rebuilt one show a later price.  (A
\* point a warm-up tick adds takes the current price of the other brokers, and a
\* rebuild from ticks that are all older than the window starts from their last
\* prices: the code asks no more of those.)
PointsShowTheirTime ==
  \A i \in DOMAIN realtime_quote_history :
    LET p == realtime_quote_history[i]
    IN \A b \in DOMAIN p.mids :
         /\ p.made \in {"live", "rebuilt"} => p.mids[b].at <= p.at + MergeDistance
         /\ p.made = "live" => p.mids[b].at >= p.at - (IF Stale > MergeDistance THEN Stale ELSE MergeDistance)

\* The realtime quote path says what was known when (tick/engine.rs).
PathCorrect == PathTypeOK /\ PathSorted /\ ConsensusIsMedian /\ PointsShowTheirTime
=============================================================================
