------------------------------ MODULE SyncArbiter ------------------------------
(***************************************************************************)
(* What one status message of TickReplay does (src/src/replay/arbiter.rs and  *)
(* handle_ws_message in driver.rs): trade overlay, direct JFX quote, the      *)
(* decision between a seek and a playback update, and the clock's phase.  The *)
(* rebuild a seek starts is one step here; ReplaySession has its steps.       *)
(* A unit of time is about 250 ms.                                           *)
(***************************************************************************)
EXTENDS VirtualClock, FiniteSets

CONSTANTS
  LastTime,       (* bound: TickReplay's times are 1..LastTime                 *)
  LastEpoch,      (* bound: seeks TickReplay numbers                           *)
  LastTrade,      (* bound: trades closed                                      *)
  HistoryMax,     (* MAX_REPLAY_TRADE_HISTORY                                  *)
  Deadband,       (* a step back no larger is no seek while playing            *)
  Forward,        (* nor is a step forward no larger                           *)
  Drift           (* largest drift sync_phase absorbs                          *)

VARIABLES
  replay,         (* external: TickReplay [time, epoch, playing, closed]       *)
  features,       (* external: which optional fields it sends                  *)
  memory,         (* SyncArbiter's fields                                      *)
  virtual,        (* the clock                                                 *)
  overlay,        (* ReplayTradeStore                                          *)
  rebuilt,        (* epoch of TickReplay the engine was last rebuilt for       *)
  direct_quote,   (* epoch of the direct quote in latest_quotes, or None       *)
  heard,          (* history: what the last message said, and its kind         *)
  moved           (* history: what TickReplay's time did since the last message *)

arbiterVars == <<replay, features, memory, virtual, overlay, rebuilt, direct_quote, heard, moved>>

None == -1
NewArbiter == [mt5_ms |-> 0, seek_epoch |-> 0, trade_revision |-> 0, was_playing |-> FALSE]

ArbiterInit ==
  /\ replay = [time |-> 1, epoch |-> 1, playing |-> FALSE, closed |-> 0]
  /\ features \in [epochs : BOOLEAN, revisions : BOOLEAN, quotes : BOOLEAN]
  /\ memory = NewArbiter
  /\ virtual = NewClock(0)
  /\ overlay = {}
  /\ rebuilt = None
  /\ direct_quote = None
  /\ heard = [kind |-> "nothing", closed |-> 0]
  /\ moved = [kind |-> "seek", steps |-> 0]

\* The fields of a message.  mt5_to_utc_ms shifts all times alike.
Epoch == IF features.epochs THEN replay.epoch ELSE 0
Revision == IF features.revisions THEN replay.closed + 1 ELSE 0

-----------------------------------------------------------------------------
(* TickReplay.                                                                *)

Moved(kind, steps) == moved' = [ kind  |-> IF moved.kind = "seek" THEN "seek" ELSE kind,
                                 steps |-> moved.steps + steps ]

\* Playing, it moves on; slowing down, it may fall back a little.
ReplayPlays ==
  /\ replay.playing
  /\ \/ /\ replay.time < LastTime /\ replay' = [replay EXCEPT !.time = @ + 1]
        /\ Moved("play", 1)
     \/ /\ replay.time > 1 /\ moved.steps = 0 /\ replay' = [replay EXCEPT !.time = @ - 1]
        /\ Moved("play", -1)
  /\ UNCHANGED <<memory, virtual, overlay, rebuilt, direct_quote, heard>>

ReplaySeeks ==
  /\ replay.epoch < LastEpoch
  /\ \E t \in 1 .. LastTime \ {replay.time} :
       replay' = [replay EXCEPT !.time = t, !.epoch = @ + 1]
  /\ Moved("seek", 0)
  /\ UNCHANGED <<memory, virtual, overlay, rebuilt, direct_quote, heard>>

ReplayChanges ==
  /\ \/ replay' = [replay EXCEPT !.playing = ~replay.playing]
     \/ replay.closed < LastTrade /\ replay' = [replay EXCEPT !.closed = @ + 1]
  /\ UNCHANGED <<memory, virtual, overlay, rebuilt, direct_quote, heard, moved>>

-----------------------------------------------------------------------------
(* evaluate and handle_ws_message.                                            *)

\* Mutant: no deadband.
AnyStepBack(diff) == diff < 0
LargeStepBack(diff) == diff < -Deadband

EpochChanged == Epoch > 0 /\ memory.seek_epoch > 0 /\ Epoch # memory.seek_epoch

SeekDetected ==
  LET diff == replay.time - memory.mt5_ms
  IN \/ EpochChanged
     \/ memory.mt5_ms = 0
     \/ IF ~replay.playing /\ ~memory.was_playing THEN diff # 0
        ELSE LargeStepBack(diff) \/ diff > Forward

RecentHistory(n) == {k \in 1 .. n : k > n - HistoryMax}

TradesChanged == Revision = 0 \/ Revision # memory.trade_revision

\* Mutant: a rebuild leaves the direct quote in place.
QuoteKept == direct_quote
QuoteReset == None

HandleStatus ==
  /\ overlay' = IF TradesChanged THEN RecentHistory(replay.closed) ELSE overlay
  /\ memory' = [ mt5_ms         |-> replay.time,
                 seek_epoch     |-> IF Epoch > 0 THEN Epoch ELSE memory.seek_epoch,
                 trade_revision |-> IF TradesChanged /\ Revision > 0 THEN Revision
                                    ELSE memory.trade_revision,
                 was_playing    |-> replay.playing ]
  /\ LET set == SetPlaying(virtual, replay.playing)
     IN IF SeekDetected
        THEN /\ rebuilt' = replay.epoch
             /\ direct_quote' = QuoteReset
             /\ virtual' = SetPlaying(SetTime(set, replay.time), replay.playing)
        ELSE /\ virtual' = SyncPhase(set, replay.time, Drift)
             /\ direct_quote' = IF features.quotes THEN replay.epoch ELSE direct_quote
             /\ UNCHANGED rebuilt
  /\ heard' = [kind |-> "status", closed |-> replay.closed]
  /\ moved' = [kind |-> "none", steps |-> 0]
  /\ UNCHANGED replay

\* TERMINATE, DISCONNECTED, or a message without a time: only the play state.
HandlePlayState ==
  /\ \E playing \in BOOLEAN :
       /\ virtual' = SetPlaying(virtual, playing)
       /\ memory' = [memory EXCEPT !.was_playing = playing]
  /\ heard' = [heard EXCEPT !.kind = "play_state"]
  /\ UNCHANGED <<replay, overlay, rebuilt, direct_quote, moved>>

VirtualTimePasses ==
  /\ virtual.playing
  /\ \/ Now(virtual) < LastTime /\ virtual' = [virtual EXCEPT !.elapsed = @ + 1]
     \/ virtual' = Sampled(virtual)
  /\ UNCHANGED <<replay, memory, overlay, rebuilt, direct_quote, heard, moved>>

ArbiterNext ==
  /\ \/ ReplayPlays \/ ReplaySeeks \/ ReplayChanges
     \/ HandleStatus \/ HandlePlayState \/ VirtualTimePasses
  /\ UNCHANGED features

ArbiterSpec == ArbiterInit /\ [][ArbiterNext]_arbiterVars
-----------------------------------------------------------------------------

ArbiterLimits ==
  /\ LastTime \in Nat \ {0} /\ LastEpoch \in Nat \ {0} /\ LastTrade \in Nat
  /\ HistoryMax \in Nat /\ Deadband \in Nat /\ Forward \in Nat /\ Drift \in Nat

ArbiterTypeOK ==
  /\ replay \in [time : 1 .. LastTime, epoch : 1 .. LastEpoch, playing : BOOLEAN,
                 closed : 0 .. LastTrade]
  /\ memory \in [mt5_ms : 0 .. LastTime, seek_epoch : 0 .. LastEpoch,
                 trade_revision : 0 .. LastTrade + 1, was_playing : BOOLEAN]
  /\ Now(virtual) \in 0 .. LastTime
  /\ overlay \subseteq 1 .. LastTrade
  /\ Cardinality(overlay) <= HistoryMax
  /\ rebuilt \in {None} \cup 1 .. LastEpoch

\* No seek goes unnoticed: the engine was rebuilt in the epoch TickReplay was in
\* when it last sent its status, however small the jump and whatever was played,
\* paused or lost between the messages.
RebuiltForEverySeek ==
  features.epochs /\ memory.mt5_ms # 0 => rebuilt = memory.seek_epoch

\* No rebuild without a cause (arbiter.rs: "enforces seek hysteresis to eliminate
\* false resets during playback"): the first message, a seek, or more playback
\* since the last message than a step may cover.
ResetsHaveACause ==
  HandleStatus /\ SeekDetected
    => \/ memory.mt5_ms = 0 \/ moved.kind = "seek"
       \/ moved.steps > Forward \/ moved.steps < -Deadband
       \/ ~memory.was_playing /\ moved.steps # 0

\* A status message that says paused leaves the clock where TickReplay is: the
\* time the clock had run ahead does not survive.
PausedClockAgrees ==
  heard.kind = "status" /\ ~memory.was_playing => Now(virtual) = memory.mt5_ms

\* The overlay shows the trades of the last status message, although unchanged
\* revisions are not parsed again.
OverlayShowsTrades == overlay = RecentHistory(heard.closed)

\* A direct quote never survives the rebuild for another position.
DirectQuoteIsCurrent ==
  features.epochs => direct_quote \in {None, rebuilt}

\* The replay's control state.  Every seek TickReplay numbers rebuilds the engine,
\* the clock agrees with a paused TickReplay, the overlay and the direct quote are
\* TickReplay's latest ones (SyncArbiter.process_message).
ArbiterCorrect ==
  /\ ArbiterTypeOK
  /\ RebuiltForEverySeek
  /\ PausedClockAgrees
  /\ OverlayShowsTrades
  /\ DirectQuoteIsCurrent

\* The engine's state is never thrown away without a cause, also when TickReplay
\* slows down and falls back a little (SyncArbiter.evaluate).
ResetsAreCaused == [][ResetsHaveACause]_arbiterVars
=============================================================================
