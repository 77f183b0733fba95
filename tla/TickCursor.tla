------------------------------- MODULE TickCursor -------------------------------
(***************************************************************************)
(* How the collector EA walks the terminal's tick history                    *)
(* (src/mt5/TickCollector.mq5): CopyTicks can only start at a millisecond, so *)
(* the cursor is a time and the number of ticks of that millisecond already   *)
(* sent.  One batch is outstanding; the cursor moves when it is acknowledged.  *)
(* What the network may do to batch and acknowledgement is StopAndWait's.     *)
(***************************************************************************)
EXTENDS Integers, SequencesExt

CONSTANTS
  BatchSize,       (* InpBatchCount and InpWarmupBatchCount                    *)
  MaxSameMsScan,   (* InpMaxSameMsScanTicks                                    *)
  ZeroRetries,     (* empty answers a warm-up accepts while it is far behind   *)
  LastMs,          (* bound: times of ticks                                    *)
  MaxTicks         (* bound: ticks in the history                              *)

VARIABLES
  tick_history,    (* external: times of the terminal's ticks, in their order  *)
  loading,         (* external: the terminal still downloads that history      *)
  tick_cursor,     (* g_cursor_time_msc, g_cursor_same_ms_count                *)
  phase,           (* g_current_phase; "idle" before PerformWarmup             *)
  outstanding,     (* the pending packet: places in the history                *)
  candidate,       (* the cursor it will be committed with                     *)
  zero_retries,    (* g_warmup_zero_retry_count                                *)
  warm_from,       (* history: place of the first tick of the warm-up          *)
  streamed,        (* history: places of the ticks acknowledged                *)
  blocked          (* history: the last collection was CURSOR_BLOCKED          *)

cursorVars == <<tick_history, loading, tick_cursor, phase, outstanding, candidate,
                zero_retries, warm_from, streamed, blocked>>

Start == [time |-> 0, same |-> 0]

CursorInit ==
  /\ tick_history = << >> /\ loading \in BOOLEAN
  /\ tick_cursor = Start /\ candidate = Start
  /\ phase = "idle"
  /\ outstanding = << >>
  /\ zero_retries = 0 /\ warm_from = 1
  /\ streamed = << >> /\ blocked = FALSE

TimeOfLast == IF tick_history = << >> THEN 1 ELSE Last(tick_history)

\* External: a tick, also in the millisecond of the last one.
TickArrives ==
  /\ Len(tick_history) < MaxTicks
  /\ \E t \in TimeOfLast .. LastMs : tick_history' = Append(tick_history, t)
  /\ UNCHANGED <<loading, tick_cursor, phase, outstanding, candidate, zero_retries,
                 warm_from, streamed, blocked>>

HistoryLoaded ==
  /\ loading /\ loading' = FALSE
  /\ UNCHANGED <<tick_history, tick_cursor, phase, outstanding, candidate, zero_retries,
                 warm_from, streamed, blocked>>

-----------------------------------------------------------------------------

FirstPlaceFrom(t) == Cardinality({i \in DOMAIN tick_history : tick_history[i] < t}) + 1

\* Also after a new start of TickScope (LoadConnectionSettings, another epoch):
\* what was outstanding is forgotten and the numbering starts again.
PerformWarmup ==
  \E t \in 1 .. TimeOfLast :
    /\ tick_cursor' = [time |-> t, same |-> 0]
    /\ warm_from' = FirstPlaceFrom(t)
    /\ phase' = "WARMING" /\ outstanding' = << >> /\ zero_retries' = 0
    /\ streamed' = << >> /\ blocked' = FALSE
    /\ UNCHANGED <<tick_history, loading, candidate>>

\* External: CopyTicks(from, count), as places in the history.  While the history is
\* loading it returns an error, which changes nothing, or nothing at all.
CopyTicks(from, count) ==
  IF loading THEN << >>
  ELSE [ i \in 1 .. Min({count, Len(tick_history) - FirstPlaceFrom(from) + 1})
           |-> FirstPlaceFrom(from) + i - 1 ]

\* Mutant: the cursor counts only the ticks of the batch.
CountWithinBatch(c, t) == [time |-> t, same |-> 1]
CountTick(c, t) == IF t = c.time THEN [c EXCEPT !.same = @ + 1] ELSE [time |-> t, same |-> 1]

CursorAfter(places) ==
  LET after[k \in 0 .. Len(places)] ==
        IF k = 0 THEN tick_cursor ELSE CountTick(after[k - 1], tick_history[places[k]])
  IN after[Len(places)]

GivesUp(n) == n >= ZeroRetries

BecomeLive == IF phase = "WARMING" THEN "LIVE" ELSE phase

\* TryCollectAndStream with nothing outstanding.  A warm-up that has caught up is
\* over; TimeCurrent is the time of the last tick, and 1 stands for ten seconds.
Collect ==
  /\ phase # "idle" /\ outstanding = << >>
  /\ LET count == tick_cursor.same + BatchSize
         copied == CopyTicks(tick_cursor.time, count)
         new == SubSeq(copied, tick_cursor.same + 1,
                       Min({Len(copied), tick_cursor.same + BatchSize}))
         retry == phase = "WARMING" /\ TimeOfLast - tick_cursor.time > 1
     IN \/ /\ count > MaxSameMsScan
           /\ blocked' = TRUE
           /\ UNCHANGED <<phase, outstanding, candidate, zero_retries>>
        \/ /\ count <= MaxSameMsScan /\ copied = << >>
           /\ zero_retries' = IF retry THEN zero_retries + 1 ELSE zero_retries
           /\ phase' = IF retry /\ ~GivesUp(zero_retries') THEN phase ELSE BecomeLive
           /\ blocked' = FALSE
           /\ UNCHANGED <<outstanding, candidate>>
        \/ /\ count <= MaxSameMsScan /\ copied # << >>
           /\ zero_retries' = 0
           /\ outstanding' = new
           /\ candidate' = IF new = << >> THEN candidate ELSE CursorAfter(new)
           /\ phase' = IF new = << >> THEN BecomeLive ELSE phase
           /\ blocked' = FALSE
  /\ UNCHANGED <<tick_history, loading, tick_cursor, warm_from, streamed>>

CommitAck ==
  /\ outstanding # << >>
  /\ tick_cursor' = candidate
  /\ streamed' = streamed \o outstanding
  /\ outstanding' = << >>
  /\ UNCHANGED <<tick_history, loading, phase, candidate, zero_retries, warm_from, blocked>>

CursorNext == TickArrives \/ HistoryLoaded \/ PerformWarmup \/ Collect \/ CommitAck

CursorSpec == CursorInit /\ [][CursorNext]_cursorVars
-----------------------------------------------------------------------------

CursorLimits ==
  /\ BatchSize \in Nat \ {0} /\ MaxSameMsScan \in Nat /\ ZeroRetries \in Nat \ {0}
  /\ LastMs \in Nat \ {0} /\ MaxTicks \in Nat

CursorTypeOK ==
  /\ tick_cursor \in [time : 0 .. LastMs, same : 0 .. MaxTicks]
  /\ candidate \in [time : 0 .. LastMs, same : 0 .. MaxTicks]
  /\ zero_retries \in 0 .. ZeroRetries
  /\ phase \in {"idle", "WARMING", "LIVE"}

\* The ticks sent since a warm-up are the history from its start on, without a gap
\* and without a repetition, however the ticks of one millisecond are spread over
\* batches and whenever they arrive.
StreamIsTheHistory ==
  \A i \in DOMAIN (streamed \o outstanding) :
    (streamed \o outstanding)[i] = warm_from + i - 1

\* The EA gets stuck (CURSOR_BLOCKED) only on a millisecond with more ticks than
\* the scan limit leaves room for.
BlockedOnlyByBurst ==
  blocked => Cardinality({i \in DOMAIN tick_history : tick_history[i] = tick_cursor.time})
               > MaxSameMsScan - BatchSize

\* The ticks the EA has had acknowledged are the terminal's history from the start
\* of the warm-up, none twice and none left out, however many share a millisecond
\* and however often CopyTicks answers nothing; only a burst longer than one scan
\* blocks it (CollectAndStreamTicks, TryCollectAndStream, TickCollector.mq5).
CollectorCorrect == CursorTypeOK /\ StreamIsTheHistory /\ BlockedOnlyByBurst
=============================================================================
