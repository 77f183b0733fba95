----------------------------- MODULE VirtualClock -----------------------------
(***************************************************************************)
(* The replay clock of src/src/replay/clock.rs as a pure data type.  `elapsed`*)
(* is the virtual time since the state was last written, which a playing      *)
(* clock adds to `time` when it is read; the multiplier only says how fast it *)
(* grows.                                                                    *)
(***************************************************************************)
EXTENDS Integers

NewClock(t) == [time |-> t, elapsed |-> 0, playing |-> FALSE]

\* current_utc_ms
Now(c) == c.time + c.elapsed

\* sample(), and set_multiplier() with a new value: the elapsed time is applied.
Sampled(c) == [c EXCEPT !.time = Now(c), !.elapsed = 0]

SetTime(c, t) == [c EXCEPT !.time = t, !.elapsed = 0]

\* What has elapsed since the last write is not applied when the clock is paused.
SetPlaying(c, playing) ==
  IF c.playing = playing THEN c ELSE [c EXCEPT !.playing = playing, !.elapsed = 0]

Distance(a, b) == IF a < b THEN b - a ELSE a - b

\* sync_phase: a paused clock takes the time it is told, a playing one unless it
\* has drifted too far.
SyncPhase(c, target, limit) ==
  IF ~c.playing \/ Distance(Now(c), target) <= limit THEN SetTime(c, target) ELSE Sampled(c)
=============================================================================
