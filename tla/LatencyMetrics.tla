----------------------------- MODULE LatencyMetrics -----------------------------
(***************************************************************************)
(* Latency statistics (src/src/metrics/latency.rs): the ring of the most     *)
(* recent samples of a pipeline stage, nearest-rank percentiles over it, and *)
(* what a tick's timestamps record.  The rings of the stages are independent *)
(* of each other; the module has one of them.                                *)
(***************************************************************************)
EXTENDS Integers, Sequences, FiniteSets, Aggregates

CONSTANTS
  RingCapacity,     (* LATENCY_RING_CAPACITY, a power of two                *)
  Stamps,           (* possible timestamps; 0 is "never stamped"            *)
  MaxRecords        (* bound: recordings between two clears                 *)

VARIABLES
  ring,        (* LatencyRingBuffer                                         *)
  samples      (* history: every sample since the last clear                *)

latencyVars == <<ring, samples>>

EmptyRing == [buffer |-> [i \in 0..(RingCapacity - 1) |-> 0],
              write_idx |-> 0, valid_count |-> 0, total_samples |-> 0]

NextSlot(i) == (i + 1) % RingCapacity

Recorded(r, v) ==
  [ buffer |-> [r.buffer EXCEPT ![r.write_idx] = v],
    write_idx |-> NextSlot(r.write_idx),
    total_samples |-> r.total_samples + 1,
    valid_count |-> IF r.valid_count < RingCapacity THEN r.valid_count + 1 ELSE r.valid_count ]

\* The buffer keeps its old contents.
Cleared(r) == [r EXCEPT !.write_idx = 0, !.valid_count = 0, !.total_samples = 0]

SortedWindow(r) == Ascending([i \in 1..r.valid_count |-> r.buffer[i - 1]])

Rank(n, pct) == (n * pct + 99) \div 100

\* percentile_at, its rank clamped to the window; the maximum is the 100th percentile.
PercentileAt(r, pct) ==
  LET n == r.valid_count
      rank == Rank(n, pct)
  IN IF n = 0 THEN 0
     ELSE SortedWindow(r)[IF rank < 1 THEN 1 ELSE IF rank > n THEN n ELSE rank]

LatencyInit == ring = EmptyRing /\ samples = << >>

\* record_tick_to_engine and its likes: the difference, saturating at zero.
Elapsed(from, to) == IF to >= from THEN to - from ELSE 0

RecordStage(from, to) ==
  /\ ring' = Recorded(ring, Elapsed(from, to))
  /\ samples' = Append(samples, Elapsed(from, to))

\* record_pipeline_timestamps records the stages whose start was stamped and whose
\* end is not before it.
RecordPipelineStage(from, to) == from > 0 /\ to >= from /\ RecordStage(from, to)

ClearMetrics == ring' = Cleared(ring) /\ samples' = << >>

LatencyNext ==
  \/ /\ Len(samples) < MaxRecords
     /\ \E from, to \in Stamps : RecordStage(from, to) \/ RecordPipelineStage(from, to)
  \/ ClearMetrics

LatencySpec == LatencyInit /\ [][LatencyNext]_latencyVars

LatencyLimits == RingCapacity \in Nat \ {0} /\ Stamps \subseteq Nat /\ MaxRecords \in Nat

-----------------------------------------------------------------------------
LatencyTypeOK ==
  /\ ring.write_idx \in 0..(RingCapacity - 1)
  /\ ring.valid_count \in 0..RingCapacity
  /\ ring.total_samples = Len(samples)

\* How many of the samples the ring can hold.
Remembered == IF Len(samples) < RingCapacity THEN Len(samples) ELSE RingCapacity

\* The window holds exactly the most recent samples, also after the ring has
\* wrapped and after clear left old samples in the buffer.
RingHoldsMostRecent ==
  SortedWindow(ring)
    = Ascending(SubSeq(samples, Len(samples) - Remembered + 1, Len(samples)))

NotAbove(w, n, v) == {i \in 1 .. n : w[i] <= v}

\* percentile_at is the nearest-rank percentile: the least sample that at least
\* pct per cent of the window do not exceed.
PercentileIsNearestRank ==
  LET w == SortedWindow(ring)
      n == ring.valid_count
      Covers(v, pct) == 100 * Cardinality(NotAbove(w, n, v)) >= pct * n
  IN \A pct \in {50, 95, 99} : n # 0 =>
       /\ \E i \in 1 .. n : w[i] = PercentileAt(ring, pct)
       /\ Covers(PercentileAt(ring, pct), pct)
       /\ \A i \in 1 .. n : Covers(w[i], pct) => PercentileAt(ring, pct) <= w[i]

\* The latency statistics are those of the most recent samples (latency.rs).
LatencyCorrect == LatencyTypeOK /\ RingHoldsMostRecent /\ PercentileIsNearestRank
=============================================================================
