----------------------------- MODULE ReplaySession -----------------------------
(***************************************************************************)
(* The threads of a replay (src/src/replay): the WebSocket thread that takes  *)
(* TickReplay's status messages and rebuilds the state on a seek (driver.rs,  *)
(* rebuilder.rs, sync_client.rs), the playback pump (pump.rs), the publisher, *)
(* which samples the clock, and stop() (coordinator.rs).                      *)
(*                                                                           *)
(* The merged history is the constant sequence Ticks (MergeStream merges the  *)
(* sources into it) and the stream is a cursor into it.  The engine is what   *)
(* a seek and the pump see of it: the session and ledger of each channel and  *)
(* which ticks have been processed since reset_state().                       *)
(***************************************************************************)
EXTENDS VirtualClock, SequencesExt

CONSTANTS
  Ticks,           (* the history: records [broker, at], sorted by at           *)
  MaxTime,         (* bound: virtual times are 1..MaxTime                       *)
  LastSession,     (* bound: seeks                                              *)
  MinBatch, MaxBatch,
  ForwardSlack,    (* a longer step forward is a seek                           *)
  SnapLimit        (* largest drift sync_phase absorbs                          *)

VARIABLES
  clock, session_epoch,
  cursor,          (* the merged stream: index of the next tick                *)
  tick_engine,     (* channels and processed ticks                             *)
  arbiter,         (* SyncArbiter: last message's time and play state          *)
  ws, seek,        (* the WebSocket thread and the message it carries out      *)
  pump,            (* the pump's place and local variables                     *)
  replayRunning,   (* ReplayDriver.running                                     *)
  replayStop,      (* where ReplayCoordinator.stop() is                        *)
  horizon,         (* history: the latest time shown since the last seek       *)
  strayed          (* history: a pass across the last rebuild took ticks      *)

replayVars == << clock, session_epoch, cursor, tick_engine, arbiter, ws, seek, pump,
                 replayRunning, replayStop, horizon, strayed >>

ReplayTimes == 1 .. MaxTime
Sources == {Ticks[i].broker : i \in DOMAIN Ticks}
Upto(t) == {i \in DOMAIN Ticks : Ticks[i].at <= t}
Before(t) == {i \in DOMAIN Ticks : Ticks[i].at < t}

NoTime == 0
NoMessage == [target |-> NoTime, playing |-> FALSE]
Unset == -1
NoNumbers == [b \in Sources |-> Unset]
FreshEngine == [ session  |-> [b \in Sources |-> 0],
                 expected |-> [b \in Sources |-> 0],
                 shown    |-> {} ]

ReplayInit ==
  /\ clock = NewClock(NoTime)
  /\ session_epoch = 1
  /\ cursor = 1
  /\ tick_engine = FreshEngine
  /\ arbiter = [mt5_ms |-> NoTime, was_playing |-> FALSE]
  /\ ws = "offline" /\ seek = NoMessage
  /\ pump = [ at |-> "test", session |-> 1, playing |-> FALSE, now |-> 0, buf |-> << >>,
              limit |-> MinBatch, drained |-> Unset, next |-> NoNumbers, early |-> FALSE ]
  /\ replayRunning = TRUE /\ replayStop = "no"
  /\ horizon = NoTime /\ strayed = FALSE

Rebuilding == ws \in {"bumped", "frozen", "reset", "rebuilt", "unlocked", "seeked", "timed"}

\* parking_lot locks the rebuilder holds.
EngineFree == ws \notin {"reset", "rebuilt"}
StreamFree == ws \notin {"rebuilt", "unlocked"}

-----------------------------------------------------------------------------
(* The engine, as the pump and the rebuilder use it.                          *)

\* process_frame for tick i numbered s of session n: another session resets the
\* ledger; a number the ledger is past is dropped.
Processed(e, i, s, n) ==
  LET b == Ticks[i].broker
      expected == IF e.session[b] = n THEN e.expected[b] ELSE 0
  IN [ session  |-> [e.session EXCEPT ![b] = n],
       expected |-> [e.expected EXCEPT ![b] = IF s >= expected THEN s + 1 ELSE expected],
       shown    |-> IF s >= expected THEN e.shown \cup {i} ELSE e.shown ]

\* dispatch_replay_ticks: a broker's numbers go on from the pump's own count, or
\* from what the ledger expects when it has none.
DispatchTick(st, i, n) ==
  LET b == Ticks[i].broker
      s == IF st.next[b] = Unset THEN st.engine.expected[b] ELSE st.next[b]
  IN [engine |-> Processed(st.engine, i, s, n), next |-> [st.next EXCEPT ![b] = s + 1]]

\* The ticks of a buffer, one after the other.
DispatchAll(st, buf, n) ==
  LET after[k \in 0 .. Len(buf)] ==
        IF k = 0 THEN st ELSE DispatchTick(after[k - 1], buf[k], n)
  IN after[Len(buf)]

Dispatched(p) == DispatchAll([engine |-> tick_engine, next |-> p.next], p.buf, p.session)

-----------------------------------------------------------------------------
(* PlaybackPump::run_loop.                                                    *)

PumpGoes(place) == pump' = [pump EXCEPT !.at = place]

\* The variables of a pass are dead after it.
PassOver(p) ==
  [p EXCEPT !.at = "test", !.playing = FALSE, !.now = NoTime, !.buf = << >>, !.early = FALSE]

PumpStarts ==
  /\ pump.at = "test" /\ replayRunning
  /\ pump' = [ (IF session_epoch = pump.session THEN pump
                ELSE [pump EXCEPT !.session = session_epoch, !.limit = MinBatch,
                                  !.drained = Unset, !.next = NoNumbers])
               EXCEPT !.at = "playing", !.early = Rebuilding ]
  /\ UNCHANGED <<cursor, tick_engine, strayed>>

PumpReadsClock ==
  /\ \/ pump.at = "playing" /\ pump' = [pump EXCEPT !.playing = clock.playing, !.at = "now"]
     \/ /\ pump.at = "now"
        /\ pump' = IF ~pump.playing /\ pump.drained = Now(clock) THEN PassOver(pump)
                   ELSE [pump EXCEPT !.now = Now(clock), !.at = "pop"]
  /\ UNCHANGED <<cursor, tick_engine, strayed>>

\* The pass began while a rebuild was under way, or before one that has moved the
\* stream: its time and the stream's position do not belong together.
Straddles ==
  \/ pump.early
  \/ session_epoch # pump.session /\ ws \notin {"bumped", "frozen", "reset"}

\* pop_up_to_buf: at most limit ticks that are due.
PumpPops ==
  /\ pump.at = "pop" /\ StreamFree
  /\ LET due == {i \in Upto(pump.now) : cursor <= i /\ i < cursor + pump.limit}
     IN /\ cursor' = cursor + Cardinality(due)
        /\ pump' = [pump EXCEPT !.buf = [k \in 1 .. Cardinality(due) |-> cursor + k - 1],
                                !.at = "recheck"]
        /\ strayed' = (strayed \/ Straddles)
  /\ UNCHANGED tick_engine

Full(p) == Len(p.buf) >= p.limit

PumpRechecks ==
  /\ pump.at = "recheck"
  /\ IF session_epoch # pump.session THEN pump' = PassOver(pump)
     ELSE PumpGoes("lock")
  /\ UNCHANGED <<cursor, tick_engine, strayed>>

\* Mutant: the session is not looked at again under the engine lock.
SessionTrusted(p) == TRUE
SessionCurrent(p) == session_epoch = p.session

PumpDispatches ==
  /\ pump.at = "lock" /\ EngineFree
  /\ LET limit == IF Full(pump) THEN IF 2 * pump.limit < MaxBatch THEN 2 * pump.limit ELSE MaxBatch
                  ELSE IF pump.limit \div 2 > MinBatch THEN pump.limit \div 2 ELSE MinBatch
     IN IF SessionCurrent(pump)
        THEN /\ tick_engine' = Dispatched(pump).engine
             /\ pump' = PassOver([pump EXCEPT
                           !.next = Dispatched(pump).next, !.limit = limit,
                           !.drained = IF ~pump.playing /\ ~Full(pump) THEN pump.now ELSE @])
        ELSE /\ pump' = PassOver([pump EXCEPT !.limit = limit])
             /\ UNCHANGED tick_engine
  /\ UNCHANGED <<cursor, strayed>>

PumpEnds ==
  /\ pump.at = "test" /\ ~replayRunning
  /\ PumpGoes("ended")
  /\ UNCHANGED <<cursor, tick_engine, strayed>>

-----------------------------------------------------------------------------
(* The WebSocket thread.                                                      *)

WsGoes(from, to) == ws = from /\ ws' = to

\* evaluate: is the message a seek?
IsSeek(t, p, explicit) ==
  \/ arbiter.mt5_ms = NoTime
  \/ explicit
  \/ IF ~p /\ ~arbiter.was_playing THEN t # arbiter.mt5_ms
     ELSE t < arbiter.mt5_ms \/ t > arbiter.mt5_ms + ForwardSlack

\* A status message with a time.  Its play state is set at once; the phase or the
\* rebuild follow.
ReceiveStatus(t, p, explicit) ==
  /\ IF IsSeek(t, p, explicit)
     THEN WsGoes("ready", "seek") /\ session_epoch < LastSession
     ELSE WsGoes("ready", "sync")
  /\ arbiter' = [mt5_ms |-> t, was_playing |-> p]
  /\ seek' = [target |-> t, playing |-> p]
  /\ clock' = SetPlaying(clock, p)
  /\ UNCHANGED <<session_epoch, cursor, tick_engine, horizon, strayed>>

\* A message without a time, TERMINATE and, when the connection is lost,
\* DISCONNECTED.
ReceivePlayState(p) ==
  /\ \/ WsGoes("ready", "ready")
     \/ WsGoes("ready", "offline") /\ ~p
  /\ arbiter' = [arbiter EXCEPT !.was_playing = p]
  /\ clock' = SetPlaying(clock, p)
  /\ UNCHANGED <<session_epoch, cursor, tick_engine, seek, horizon, strayed>>

\* sync_phase
SyncToMessage ==
  /\ WsGoes("sync", "ready")
  /\ clock' = SyncPhase(clock, seek.target, SnapLimit)
  /\ horizon' = IF Now(clock') > horizon THEN Now(clock') ELSE horizon
  /\ seek' = NoMessage
  /\ UNCHANGED <<session_epoch, cursor, tick_engine, arbiter, strayed>>

BumpEpoch ==
  /\ WsGoes("seek", "bumped")
  /\ session_epoch' = session_epoch + 1
  /\ strayed' = FALSE
  /\ UNCHANGED <<clock, cursor, tick_engine, arbiter, seek, horizon>>

\* rebuild_at: the clock is frozen first.
FreezeClock ==
  /\ WsGoes("bumped", "frozen")
  /\ clock' = SetPlaying(clock, FALSE)
  /\ UNCHANGED <<session_epoch, cursor, tick_engine, arbiter, seek, horizon, strayed>>

\* Engine lock, reset_state.
ResetState ==
  /\ WsGoes("frozen", "reset")
  /\ tick_engine' = FreshEngine
  /\ UNCHANGED <<clock, session_epoch, cursor, arbiter, seek, horizon, strayed>>

\* Stream lock; the ticks up to the target, numbered from the empty ledger.
WarmUp ==
  LET warm == Upto(seek.target)
      count(b) == Cardinality({i \in warm : Ticks[i].broker = b})
  IN /\ WsGoes("reset", "rebuilt")
     /\ tick_engine' = [ session  |-> [b \in Sources |-> IF count(b) = 0 THEN 0 ELSE session_epoch],
                         expected |-> [b \in Sources |-> count(b)],
                         shown    |-> warm ]
     /\ UNCHANGED <<clock, session_epoch, cursor, arbiter, seek, horizon, strayed>>

UnlockEngine ==
  /\ WsGoes("rebuilt", "unlocked")
  /\ UNCHANGED <<clock, session_epoch, cursor, tick_engine, arbiter, seek, horizon, strayed>>

SeekCursor(t) == cursor' = Cardinality(Before(t)) + 1

\* seek_to_utc; the stream lock is released.
SeekStream ==
  /\ WsGoes("unlocked", "seeked")
  /\ SeekCursor(seek.target)
  /\ UNCHANGED <<clock, session_epoch, tick_engine, arbiter, seek, horizon, strayed>>

SetClock ==
  /\ \/ /\ WsGoes("seeked", "timed") /\ clock' = SetTime(clock, seek.target)
        /\ UNCHANGED seek
     \/ /\ WsGoes("timed", "ready") /\ clock' = SetPlaying(clock, seek.playing)
        /\ seek' = NoMessage
  /\ horizon' = seek.target
  /\ UNCHANGED <<session_epoch, cursor, tick_engine, arbiter, strayed>>

WsThreadLoops ==
  /\ \/ WsGoes("offline", "ready") /\ replayRunning
     \/ WsGoes("offline", "ended") /\ ~replayRunning
  /\ UNCHANGED <<clock, session_epoch, cursor, tick_engine, arbiter, seek, horizon, strayed>>

-----------------------------------------------------------------------------
(* Time, the publisher, and ReplayCoordinator::stop().                        *)

Elapse ==
  /\ clock.playing /\ Now(clock) < MaxTime
  /\ clock' = [clock EXCEPT !.elapsed = @ + 1]
  /\ horizon' = IF Now(clock') > horizon THEN Now(clock') ELSE horizon

PublisherSamples ==
  /\ replayStop = "no"
  /\ clock' = Sampled(clock)
  /\ UNCHANGED horizon

StopReplay ==
  \/ /\ replayStop = "no" /\ replayStop' = "joining" /\ replayRunning' = FALSE
  \/ /\ replayStop = "joining" /\ pump.at = "ended" /\ ws = "ended"
     /\ replayStop' = "done" /\ UNCHANGED replayRunning

-----------------------------------------------------------------------------

sessionVars == <<clock, session_epoch, arbiter, ws, seek, horizon>>
stopOnly == <<replayRunning, replayStop>>

PumpStep ==
  /\ PumpStarts \/ PumpReadsClock \/ PumpPops \/ PumpRechecks \/ PumpDispatches \/ PumpEnds
  /\ UNCHANGED <<sessionVars, stopOnly>>

TickReplaySends ==
  /\ \/ \E t \in ReplayTimes, p \in BOOLEAN, explicit \in BOOLEAN : ReceiveStatus(t, p, explicit)
     \/ \E p \in BOOLEAN : ReceivePlayState(p)
  /\ UNCHANGED <<pump, stopOnly>>

WsStep ==
  /\ \/ SyncToMessage \/ BumpEpoch \/ FreezeClock \/ ResetState \/ WarmUp
     \/ UnlockEngine \/ SeekStream \/ SetClock \/ WsThreadLoops
  /\ UNCHANGED <<pump, stopOnly>>

ClockStep ==
  /\ Elapse \/ PublisherSamples
  /\ UNCHANGED <<session_epoch, cursor, tick_engine, arbiter, ws, seek, pump, stopOnly, strayed>>

StopReplayStep ==
  /\ StopReplay
  /\ UNCHANGED <<sessionVars, cursor, tick_engine, pump, strayed>>

ReplayNext == PumpStep \/ TickReplaySends \/ WsStep \/ ClockStep \/ StopReplayStep

\* Threads run; TickReplay owes nobody a message, nor the end of a connection.
ReplayFairness ==
  /\ WF_replayVars(PumpStep) /\ WF_replayVars(WsStep)
  /\ WF_replayVars(replayStop = "joining" /\ StopReplayStep)

ReplaySpec == ReplayInit /\ [][ReplayNext]_replayVars /\ ReplayFairness

-----------------------------------------------------------------------------

\* The history is sorted, as the merge of the sources hands it out.
ReplayLimits ==
  /\ Ticks \in Seq([broker : Sources, at : Nat])
  /\ \A i, j \in DOMAIN Ticks : i <= j => Ticks[i].at <= Ticks[j].at
  /\ MaxTime \in Nat /\ LastSession \in Nat \ {0}
  /\ MinBatch \in Nat /\ MaxBatch \in Nat /\ MinBatch <= MaxBatch

ReplayTypeOK ==
  /\ clock \in [time : 0 .. MaxTime, elapsed : 0 .. MaxTime, playing : BOOLEAN]
  /\ Now(clock) <= MaxTime /\ horizon \in 0 .. MaxTime
  /\ session_epoch \in 1 .. LastSession
  /\ cursor \in 1 .. Len(Ticks) + 1
  /\ tick_engine.shown \subseteq DOMAIN Ticks
  /\ \A b \in Sources : tick_engine.session[b] \in 0 .. LastSession
  /\ pump.at \in {"test", "playing", "now", "pop", "recheck", "lock", "ended"}
  /\ pump.limit \in MinBatch .. MaxBatch /\ Len(pump.buf) <= MaxBatch
  /\ replayStop \in {"no", "joining", "done"} /\ strayed \in BOOLEAN

\* The engine never mixes two positions of the replay: once a seek has emptied it,
\* what it processes carries the new session, although the pump may still hold
\* ticks it popped before ("A seek occurred while popping ticks", pump.rs).
EngineHoldsOneSession ==
  ws \notin {"bumped", "frozen"} =>
    \A b \in Sources : tick_engine.session[b] \in {0, session_epoch}

\* Every tick the stream has handed out since the seek is in the engine, whatever
\* passes were discarded.  (strayed excepts the sessions whose rebuild a pass of the
\* pump straddled: it discards ticks of the new position, or takes ticks with the
\* old position's time.)
NothingSkipped ==
  ~Rebuilding /\ ~strayed /\ pump.at = "test" /\ session_epoch > 1 =>
    \A i \in DOMAIN Ticks : i < cursor => i \in tick_engine.shown

\* No tick is shown before the virtual time has reached it (same exception).
ShownWhenDue ==
  ~Rebuilding /\ ~strayed => \A i \in tick_engine.shown : Ticks[i].at <= horizon

\* No tick is shown before the virtual time has reached it: "Freeze clock
\* immediately so PlaybackPump pauses during state reconstruction" (rebuilder.rs).
NoTickFromTheFuture ==
  ~Rebuilding => \A i \in tick_engine.shown : Ticks[i].at <= horizon

\* A replay.  The engine never mixes two positions, no tick the stream handed out is
\* skipped and none is shown before its time, but in the sessions a pass of the pump
\* straddled (pump.rs, rebuilder.rs, driver.rs).
ReplayCorrect == ReplayTypeOK /\ EngineHoldsOneSession /\ NothingSkipped /\ ShownWhenDue

CaughtUp == Upto(Now(clock)) \subseteq tick_engine.shown

\* Ticks whose time has come are shown, also after a pause, or after a seek to
\* where the pump has been, unless another message is being handled.  (A part of
\* MCThreads!NothingWaitsForEver.)
TicksDue == ~CaughtUp /\ ws = "ready" /\ session_epoch > 1
TicksShown == CaughtUp \/ ws # "ready" \/ ~replayRunning \/ strayed

DueTicksShown == TicksDue ~> TicksShown

\* "Stop the driver and join threads" (driver.rs): stop() returns.  This does not hold
\* while the WebSocket stays open and silent: the client's loop over messages never
\* tests `running' (sync_client.rs).  No run checks it.
ReplayStopReturns == (replayStop = "joining") ~> (replayStop = "done")
=============================================================================
