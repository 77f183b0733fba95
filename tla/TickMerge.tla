------------------------------- MODULE TickMerge -------------------------------
(***************************************************************************)
(* The ingress handler and the multi-feed merge of TickEngine                *)
(* (src/src/tick/engine.rs, on_ingress_item_at).  The engine keeps one       *)
(* channel per broker: whether it is connected, the watermark up to which    *)
(* everything the broker sends is known to have arrived, and the frames that *)
(* wait for the slower brokers.  A frame may be processed once the lowest    *)
(* watermark of the connected brokers has reached its receive time.          *)
(*                                                                           *)
(* One call of on_ingress_item_at runs under the engine lock.  Its two loops *)
(* are modelled one iteration per step: phase says which loop the handler is *)
(* in, and no item is taken before the handler is back at "idle".            *)
(*                                                                           *)
(* A frame is what the merge tells apart: its broker, its receive time, its  *)
(* size on the wire, whether it is a warm-up frame, and what its payload does*)
(* to the quote tables:                                                      *)
(*   "quote"      a batch whose last tick is valid and new                   *)
(*   "duplicate"  a valid batch the sequence ledger has seen (LedgerSession) *)
(*   "none"       a heartbeat, a status, or a batch without a valid tick     *)
(***************************************************************************)
EXTENDS Naturals, Sequences, FiniteSets, Aggregates

CONSTANTS
  Brokers,           (* configured broker ids; the merge breaks ties by id *)
  MaxPendingFrames,  (* ingress.max_frames_per_broker                      *)
  MaxPendingBytes,   (* ingress.max_bytes_per_broker                       *)
  WireLens,          (* sizes a frame can have                             *)
  Payloads,          (* the payloads above that occur                      *)
  WarmupFlags,       (* whether warm-up and live frames occur              *)
  MaxTime,           (* bound: last instant of the receive clock           *)
  MaxGeneration      (* bound: connections per broker                      *)

\* Without a broker there is no receiver, and nothing happens.
ASSUME BrokersAssumption == Brokers \subseteq Nat /\ IsFiniteSet(Brokers) /\ Brokers # {}
\* AppConfig::validate: both budgets are positive (config/schema.rs).
ASSUME BudgetAssumption ==
  /\ MaxPendingFrames \in Nat \ {0}
  /\ MaxPendingBytes \in Nat \ {0}
ASSUME FrameAssumption ==
  /\ WireLens \subseteq Nat \ {0}
  /\ Payloads \subseteq {"quote", "duplicate", "none"}
  /\ WarmupFlags \subseteq BOOLEAN
ASSUME BoundAssumption == MaxTime \in Nat \ {0} /\ MaxGeneration \in Nat

VARIABLES
  is_connected,         (* BrokerChannelState.is_connected                 *)
  generation,           (* BrokerChannelState.generation                   *)
  watermark,            (* BrokerChannelState.watermark                    *)
  pending_frames,       (* BrokerChannelState.pending_frames               *)
  pending_frame_bytes,  (* BrokerChannelState.pending_frame_bytes          *)
  current_watermark,    (* TickEngine.current_watermark                    *)
  fast_quotes,          (* brokers with an entry in TickEngine.fast_quotes *)
  latest_quotes,        (* brokers with an entry in latest_quotes          *)
  overload,             (* brokers whose health.overload.engine is set     *)
  phase,                (* where on_ingress_item_at is                     *)
  current_item,         (* the item being handled: broker and the value of *)
                        (* is_disconnected it computed                     *)
  last_merged           (* history: receive time of the last live frame    *)
                        (* the merge released                              *)

channels == <<is_connected, generation, watermark>>
queues   == <<pending_frames, pending_frame_bytes>>
quotes   == <<fast_quotes, latest_quotes>>
engine   == <<channels, queues, quotes, current_watermark, overload, phase,
              current_item, last_merged>>

Time == 0 .. MaxTime

\* Receive clocks start after the run's origin: a live frame never has the
\* receive time zero that the merge key gives to warm-up frames.
Frame == [ broker_id   : Brokers,
           rx_mono_ns  : Time \ {0},
           wire_len    : WireLens,
           warmup      : WarmupFlags,
           payload     : Payloads ]

\* IngressItem (core/ports.rs).
ConnectedItem == [ type : {"Connected"}, broker_id : Brokers, generation : 1 .. MaxGeneration ]
ProgressItem  == [ type : {"Progress"}, broker_id : Brokers, watermark_ns : Time ]
FrameItem     == [ type : {"Frame"}, broker_id : Brokers, frame : Frame ]
EndItem       == [ type : {"End"}, broker_id : Brokers, generation : 1 .. MaxGeneration ]
IngressItem   == ConnectedItem \cup ProgressItem \cup FrameItem \cup EndItem

EngineInit ==
  /\ is_connected = [b \in Brokers |-> FALSE]
  /\ generation = [b \in Brokers |-> 0]
  /\ watermark = [b \in Brokers |-> 0]
  /\ pending_frames = [b \in Brokers |-> << >>]
  /\ pending_frame_bytes = [b \in Brokers |-> 0]
  /\ current_watermark = 0
  /\ fast_quotes = {}
  /\ latest_quotes = {}
  /\ overload = {}
  /\ phase = "idle"
  /\ current_item = [broker_id |-> CHOOSE b \in Brokers : TRUE, is_disconnected |-> FALSE]
  /\ last_merged = 0

-----------------------------------------------------------------------------
(* The item's own effect: the match of on_ingress_item_at, then the fast     *)
(* path.  The handler goes on to force_drain_overflow.                       *)

Handle(b, connected) ==
  /\ phase = "idle"
  /\ phase' = "overflow"
  /\ current_item' = [broker_id |-> b, is_disconnected |-> ~connected]
  /\ UNCHANGED <<current_watermark, overload, last_merged>>

\* Mutant: the channel keeps the generation of its first connection.
OnConnectedKeepingGeneration(item) ==
  LET b == item.broker_id
  IN /\ item.type = "Connected"
     /\ Handle(b, TRUE)
     /\ is_connected' = [is_connected EXCEPT ![b] = TRUE]
     /\ generation' = [generation EXCEPT ![b] = IF @ = 0 THEN item.generation ELSE @]
     /\ fast_quotes' = fast_quotes \ {b}
     /\ latest_quotes' = latest_quotes \ {b}
     /\ UNCHANGED <<watermark, queues>>

\* A new connection takes the channel over whatever its generation is.
OnConnected(item) ==
  LET b == item.broker_id
  IN /\ item.type = "Connected"
     /\ Handle(b, TRUE)
     /\ is_connected' = [is_connected EXCEPT ![b] = TRUE]
     /\ generation' = [generation EXCEPT ![b] = item.generation]
     /\ fast_quotes' = fast_quotes \ {b}
     /\ latest_quotes' = latest_quotes \ {b}
     /\ UNCHANGED <<watermark, queues>>

AdvanceWatermark(b, t) ==
  watermark' = [watermark EXCEPT ![b] = IF t > @ THEN t ELSE @]

\* Mutant: only frames advance the watermark.
OnProgressIgnored(item) ==
  /\ item.type = "Progress"
  /\ Handle(item.broker_id, is_connected[item.broker_id])
  /\ UNCHANGED <<watermark, is_connected, generation, queues, quotes>>

OnProgress(item) ==
  /\ item.type = "Progress"
  /\ Handle(item.broker_id, is_connected[item.broker_id])
  /\ AdvanceWatermark(item.broker_id, item.watermark_ns)
  /\ UNCHANGED <<is_connected, generation, queues, quotes>>

\* A frame is queued even if its connection was superseded or ended, and its
\* quote is exposed at once (extract_fast_path_quote, apply_fast_path_quote).
OnFrame(item) ==
  LET b == item.broker_id
      f == item.frame
  IN /\ item.type = "Frame"
     /\ Handle(b, is_connected[b])
     /\ AdvanceWatermark(b, f.rx_mono_ns)
     /\ pending_frames' = [pending_frames EXCEPT ![b] = Append(@, f)]
     /\ pending_frame_bytes' = [pending_frame_bytes EXCEPT ![b] = @ + f.wire_len]
     /\ fast_quotes' = IF f.payload = "none" THEN fast_quotes ELSE fast_quotes \cup {b}
     /\ UNCHANGED <<is_connected, generation, latest_quotes>>

\* Only the end of the channel's own connection disconnects it (generation 0,
\* "any", is never sent by the receivers).
OnEnd(item) ==
  LET b       == item.broker_id
      matches == generation[b] \in {0, item.generation}
  IN /\ item.type = "End"
     /\ Handle(b, is_connected[b] /\ ~matches)
     /\ is_connected' = [is_connected EXCEPT ![b] = @ /\ ~matches]
     /\ fast_quotes' = IF matches THEN fast_quotes \ {b} ELSE fast_quotes
     /\ latest_quotes' = IF matches THEN latest_quotes \ {b} ELSE latest_quotes
     /\ UNCHANGED <<generation, watermark, queues>>

OnIngressItem(item) ==
  OnConnected(item) \/ OnProgress(item) \/ OnFrame(item) \/ OnEnd(item)

-----------------------------------------------------------------------------
(* Processing one queued frame: pop_pending_frame and what process_frame     *)
(* does to the quote tables.                                                 *)

ProcessFront(b) ==
  LET f == Head(pending_frames[b])
  IN /\ pending_frames' = [pending_frames EXCEPT ![b] = Tail(@)]
     /\ pending_frame_bytes' =
          [pending_frame_bytes EXCEPT ![b] = IF @ > f.wire_len THEN @ - f.wire_len ELSE 0]
     /\ latest_quotes' = IF f.payload = "quote" THEN latest_quotes \cup {b} ELSE latest_quotes
     /\ fast_quotes' = IF f.payload = "quote" THEN fast_quotes \cup {b} ELSE fast_quotes

\* Mutant: one frame too many.
OverBudgetByMoreThanOne(b) ==
  \/ Len(pending_frames[b]) > MaxPendingFrames + 1
  \/ pending_frame_bytes[b] > MaxPendingBytes

\* Mutant: only frames are counted.
OverFrameBudget(b) == Len(pending_frames[b]) > MaxPendingFrames

OverBudget(b) ==
  \/ Len(pending_frames[b]) > MaxPendingFrames
  \/ pending_frame_bytes[b] > MaxPendingBytes

\* Mutant: the feed that is furthest ahead decides.
IsGreatestWatermark(w) ==
  /\ \E b \in Brokers : watermark[b] = w
  /\ \A b \in Brokers : watermark[b] <= w

\* The least watermark of the connected channels, or the greatest of all when
\* none is connected (calculate_global_watermark).
IsGlobalWatermark(w) ==
  LET connected == {b \in Brokers : is_connected[b]}
  IN IF connected # {}
     THEN /\ \E b \in connected : watermark[b] = w
          /\ \A b \in connected : w <= watermark[b]
     ELSE /\ w \in {watermark[b] : b \in Brokers} \cup {0}
          /\ \A b \in Brokers : watermark[b] <= w

\* One iteration of force_drain_overflow: over its budget, the broker whose
\* item is handled gives up its oldest frame without waiting for the others.
ForceDrain ==
  LET b == current_item.broker_id
  IN /\ phase = "overflow"
     /\ OverBudget(b)
     /\ pending_frames[b] # << >>
     /\ ProcessFront(b)
     /\ overload' = overload \cup {b}
     /\ UNCHANGED <<channels, current_watermark, phase, current_item, last_merged>>

\* The end of force_drain_overflow and the start of drain_and_process_merge.
StartMerge ==
  LET b == current_item.broker_id
  IN /\ phase = "overflow"
     /\ ~OverBudget(b) \/ pending_frames[b] = << >>
     /\ \E w \in Time : IsGlobalWatermark(w) /\ current_watermark' = w
     /\ phase' = "merge"
     /\ UNCHANGED <<channels, queues, quotes, overload, current_item, last_merged>>

\* A front frame may be taken when it is a warm-up frame or the global
\* watermark has reached it; among those, the least (time, broker id) goes
\* first, a warm-up frame counting as time zero.  Two fronts never share a
\* broker id, so the generation and index of the code's key never decide.
Mergeable(b) ==
  /\ pending_frames[b] # << >>
  /\ \/ Head(pending_frames[b]).warmup
     \/ Head(pending_frames[b]).rx_mono_ns <= current_watermark

MergeTime(b) ==
  IF Head(pending_frames[b]).warmup THEN 0 ELSE Head(pending_frames[b]).rx_mono_ns

\* Mutant: the broker id decides first.
PrecedesById(a, b) == a <= b

Precedes(a, b) ==
  \/ MergeTime(a) < MergeTime(b)
  \/ MergeTime(a) = MergeTime(b) /\ a <= b

MergeFront(b) ==
  /\ phase = "merge"
  /\ Mergeable(b)
  /\ \A c \in Brokers : Mergeable(c) => Precedes(b, c)
  /\ ProcessFront(b)
  /\ last_merged' = IF Head(pending_frames[b]).warmup THEN last_merged
                    ELSE Head(pending_frames[b]).rx_mono_ns
  /\ UNCHANGED <<channels, current_watermark, overload, phase, current_item>>

\* The merge loop ends; if the item left its broker disconnected, its quotes
\* are withdrawn once more, and the handler returns.
FinishItem ==
  /\ phase = "merge"
  /\ \A b \in Brokers : ~Mergeable(b)
  /\ LET gone == IF current_item.is_disconnected THEN {current_item.broker_id} ELSE {}
     IN /\ fast_quotes' = fast_quotes \ gone
        /\ latest_quotes' = latest_quotes \ gone
  /\ phase' = "idle"
  /\ UNCHANGED <<channels, queues, current_watermark, overload, current_item, last_merged>>

DrainStep == ForceDrain \/ StartMerge \/ (\E b \in Brokers : MergeFront(b)) \/ FinishItem

-----------------------------------------------------------------------------
\* The types of the engine's variables.
EngineTypeOK ==
  /\ is_connected \in [Brokers -> BOOLEAN]
  /\ generation \in [Brokers -> 0 .. MaxGeneration]
  /\ watermark \in [Brokers -> Time]
  /\ pending_frames \in [Brokers -> Seq(Frame)]
  /\ pending_frame_bytes \in [Brokers -> Nat]
  /\ current_watermark \in Time
  /\ fast_quotes \in SUBSET Brokers
  /\ latest_quotes \in SUBSET Brokers
  /\ overload \in SUBSET Brokers
  /\ phase \in {"idle", "overflow", "merge"}
  /\ current_item \in [broker_id : Brokers, is_disconnected : BOOLEAN]
  /\ last_merged \in Time

\* Whenever the engine lock is free, no broker holds more frames than its
\* configured budget, although only the broker whose item arrived is ever
\* checked for overflow (force_drain_overflow).
FramesWithinBudget ==
  phase = "idle" => \A b \in Brokers : Len(pending_frames[b]) <= MaxPendingFrames

FrameSizes(frames) == [i \in DOMAIN frames |-> frames[i].wire_len]

\* The byte counter of every channel is the size of the frames it holds - every
\* path that queues or releases a frame keeps it (pop_pending_frame, on a frame;
\* engine.rs) - and it is within the configured budget whenever the engine lock
\* is free.
BytesWithinBudget ==
  \A b \in Brokers :
    /\ pending_frame_bytes[b] = TotalOf(FrameSizes(pending_frames[b]))
    /\ phase = "idle" => pending_frame_bytes[b] <= MaxPendingBytes

\* What the projection shows of a broker (latest_quote and, first, fast_quotes;
\* tick/projection.rs) is withdrawn when the broker disconnects: whenever the
\* engine lock is free, a disconnected broker has no entry in the quote tables
\* (tests/replay_test.rs asserts engine.latest_quote(2).is_none() as
\* "disconnected").
DisconnectedHasNoQuote ==
  phase = "idle" => \A b \in Brokers : ~is_connected[b] => b \notin fast_quotes \cup latest_quotes
=============================================================================
