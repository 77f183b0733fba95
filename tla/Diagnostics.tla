------------------------------ MODULE Diagnostics ------------------------------
(***************************************************************************)
(* DiagnosticsRuntime (src/src/metrics/diagnostics.rs): producers submit     *)
(* timing samples to a bounded channel and never wait; a worker sums them up *)
(* in one-second rows of a CSV file until it is told to stop.  A sample is   *)
(* its stage, by its place in DiagnosticStage::ALL; the statistics of a      *)
(* stage's ring are LatencyMetrics.                                          *)
(***************************************************************************)
EXTENDS Naturals, SequencesExt, Aggregates

CONSTANTS
  StageCount,         (* DiagnosticStage::ALL.len()                         *)
  SampleCapacity,     (* SAMPLE_CHANNEL_CAPACITY                            *)
  MaxSamples          (* bound: samples recorded by the runtime's threads   *)

VARIABLES
  sampleChannel,   (* samples under way to the worker                       *)
  dropped,         (* dropped_samples                                       *)
  windows,         (* stage -> samples in its ring                          *)
  interval,        (* the row being written: drops taken, stages to write   *)
  rows,            (* accepted and dropped samples in the file              *)
  summarizer,      (* the worker thread                                     *)
  stopRequested,   (* finish() or drop has sent the stop message            *)
  recorded         (* history: calls of record_ns                           *)

diagnosticsVars == <<sampleChannel, dropped, windows, interval, rows, summarizer,
                     stopRequested, recorded>>

NoInterval == [drops |-> 0, todo |-> {}]
DiagnosticStages == 1 .. StageCount
Held == TotalOf(windows)

DiagnosticsInit ==
  /\ sampleChannel = << >> /\ dropped = 0
  /\ windows = [s \in DiagnosticStages |-> 0]
  /\ interval = NoInterval
  /\ rows = [accepted |-> 0, dropped |-> 0]
  /\ summarizer = "loop"
  /\ stopRequested = FALSE /\ recorded = 0

\* try_send fails when the channel is full or its receiver is gone.
RecordNs(s) ==
  /\ ~stopRequested   \* every thread with a handle has ended before finish()
  /\ recorded < MaxSamples
  /\ recorded' = recorded + 1
  /\ IF Len(sampleChannel) < SampleCapacity /\ summarizer \notin {"ended", "failed"}
     THEN sampleChannel' = Append(sampleChannel, s) /\ UNCHANGED dropped
     ELSE dropped' = dropped + 1 /\ UNCHANGED sampleChannel
  /\ UNCHANGED <<windows, interval, rows, summarizer, stopRequested>>

StopAndJoin ==
  /\ ~stopRequested /\ stopRequested' = TRUE
  /\ UNCHANGED <<sampleChannel, dropped, windows, interval, rows, summarizer, recorded>>

TakeSample ==
  /\ sampleChannel # << >>
  /\ windows' = [windows EXCEPT ![Head(sampleChannel)] = @ + 1]
  /\ sampleChannel' = Tail(sampleChannel)

\* The loop: stop first, else a sample or a timeout, then the end of the interval.
SeeStop ==
  /\ summarizer = "loop" /\ stopRequested
  /\ summarizer' = "drain"
  /\ UNCHANGED <<sampleChannel, dropped, windows, interval, rows, stopRequested, recorded>>

ReceiveSample ==
  /\ summarizer = "loop" /\ TakeSample
  /\ summarizer' \in {"loop", "row"}
  /\ UNCHANGED <<dropped, interval, rows, stopRequested, recorded>>

IntervalElapsed ==
  /\ summarizer = "loop" /\ sampleChannel = << >>
  /\ summarizer' = "row"
  /\ UNCHANGED <<sampleChannel, dropped, windows, interval, rows, stopRequested, recorded>>

Drained == sampleChannel = << >>

DrainSamples ==
  /\ summarizer = "drain"
  /\ \/ TakeSample /\ UNCHANGED summarizer
     \/ Drained /\ summarizer' = "last" /\ UNCHANGED <<sampleChannel, windows>>
  /\ UNCHANGED <<dropped, interval, rows, stopRequested, recorded>>

\* write_interval: the drops are taken first, then one row per stage that has
\* samples.  A failed write ends the worker with what it holds.
BeginInterval ==
  /\ summarizer \in {"row", "last"}
  /\ interval' = [drops |-> dropped, todo |-> {s \in DiagnosticStages : windows[s] > 0}]
  /\ dropped' = 0
  /\ summarizer' = IF summarizer = "row" THEN "write" ELSE "write_last"
  /\ UNCHANGED <<sampleChannel, windows, rows, stopRequested, recorded>>

WriteStage ==
  /\ summarizer \in {"write", "write_last"}
  /\ \E s \in interval.todo :
       /\ rows' = [rows EXCEPT !.accepted = @ + windows[s]]
       /\ windows' = [windows EXCEPT ![s] = 0]
       /\ interval' = [interval EXCEPT !.todo = @ \ {s}]
  /\ UNCHANGED <<sampleChannel, dropped, summarizer, stopRequested, recorded>>

EndInterval ==
  /\ summarizer \in {"write", "write_last"} /\ interval.todo = {}
  /\ rows' = [rows EXCEPT !.dropped = @ + interval.drops]
  /\ interval' = NoInterval
  /\ summarizer' = IF summarizer = "write" THEN "loop" ELSE "ended"
  /\ UNCHANGED <<sampleChannel, dropped, windows, stopRequested, recorded>>

WriteFails ==
  /\ summarizer \in {"write", "write_last"}
  /\ summarizer' = "failed"
  /\ UNCHANGED <<sampleChannel, dropped, windows, interval, rows, stopRequested, recorded>>

Summarizer ==
  \/ SeeStop \/ ReceiveSample \/ IntervalElapsed \/ DrainSamples
  \/ BeginInterval \/ WriteStage \/ EndInterval

DiagnosticsNext ==
  \/ \E s \in DiagnosticStages : RecordNs(s)
  \/ StopAndJoin \/ Summarizer \/ WriteFails

DiagnosticsSpec == DiagnosticsInit /\ [][DiagnosticsNext]_diagnosticsVars

DiagnosticsLimits == StageCount \in Nat /\ SampleCapacity \in Nat /\ MaxSamples \in Nat

-----------------------------------------------------------------------------
DiagnosticsTypeOK ==
  /\ sampleChannel \in Seq(DiagnosticStages) /\ Len(sampleChannel) <= SampleCapacity
  /\ windows \in [DiagnosticStages -> 0..MaxSamples]
  /\ dropped \in 0..MaxSamples /\ interval.drops \in 0..MaxSamples
  /\ interval.todo \subseteq DiagnosticStages
  /\ summarizer \in {"loop", "row", "drain", "last", "write", "write_last", "ended", "failed"}

\* Every sample is in the file, counted as dropped, or on its way there; none is
\* counted twice, whatever the producers do while a row is written.
EverySampleAccountedFor ==
  recorded = rows.accepted + rows.dropped + dropped + interval.drops
             + Len(sampleChannel) + Held

\* When the worker has ended after finish() and no write failed, the file accounts
\* for every sample.
NothingHeldAtTheEnd ==
  summarizer = "ended" => recorded = rows.accepted + rows.dropped

\* The file of the profiler accounts for every sample once, and for all of them when
\* the worker has ended without a failed write (record_ns, diagnostics_worker, diagnostics.rs).
DiagnosticsCorrect ==
  DiagnosticsTypeOK /\ EverySampleAccountedFor /\ NothingHeldAtTheEnd
=============================================================================
