------------------------------ MODULE TimeAlignment ------------------------------
(***************************************************************************)
(* The UTC offset of a broker (src/src/tick/engine.rs, process_frame, *)
(* with src/src/tick/normalize.rs): found from the configured rule, from the *)
(* EA's heartbeats or from the times of live ticks, and the candle book that *)
(* is filled with the ticks it normalises.  Time is in quarters of an hour.  *)
(***************************************************************************)
EXTENDS Integers, FiniteSetsExt

CONSTANTS
  Rules,         (* TimezoneRule: "NyClose", "Fixed", "Jst", "Utc"          *)
  Configured,    (* utc_offset_sec of the configuration                     *)
  Server,        (* the broker's real offset, in winter                     *)
  Ages           (* how old a tick is when it is received                   *)

Hour == 4

VARIABLES
  rule, auto_utc_offset,       (* timezone_rule, auto_utc_offset            *)
  summer,                      (* US daylight saving time                   *)
  active_utc_offset,
  utc_verified,
  book,                        (* the offsets the book's candles were made with *)
  mid_book,
  found                        (* history: what the offset was last taken from  *)

offsetVars == <<rule, auto_utc_offset, summer, active_utc_offset, utc_verified,
                book, mid_book, found>>

\* The rule in force, and what the servers of the rule really do.
ResolveOffset(r, fallback) ==
  CASE r = "NyClose" -> (IF summer THEN 3 ELSE 2) * Hour
    [] r = "Jst" -> 9 * Hour
    [] r = "Utc" -> 0
    [] OTHER -> fallback

ServerOffset == IF rule = "Fixed" THEN Server ELSE ResolveOffset(rule, Server)

\* TickEngine::new; a fixed offset may have been verified by the user.
OffsetInit ==
  /\ rule \in Rules /\ auto_utc_offset \in BOOLEAN /\ summer \in BOOLEAN
  /\ active_utc_offset = ResolveOffset(rule, Configured)
  /\ utc_verified \in {rule # "Fixed"} \cup (IF rule = "Fixed" THEN {TRUE} ELSE {})
  /\ book = {} /\ mid_book = {}
  /\ found = "configured"

\* round_to_hourly_offset, half away from zero.
Hourly(q) == IF q >= 0 THEN ((q + Hour \div 2) \div Hour) * Hour
                       ELSE 0 - (((Hour \div 2 - q) \div Hour) * Hour)

\* Mutant: the candles made with the old offset stay in the book of mid prices.
MidBookKept(old) == old
MidBookCleared(old) == {}

\* The offset changed, or was verified: it is taken over and both books are cleared.
TakeOver(offset, source) ==
  IF active_utc_offset # offset \/ ~utc_verified
  THEN [offset |-> offset, verified |-> TRUE, source |-> source,
        book |-> {}, mid |-> MidBookCleared(mid_book)]
  ELSE [offset |-> active_utc_offset, verified |-> utc_verified, source |-> source,
        book |-> book, mid |-> mid_book]
Same == [offset |-> active_utc_offset, verified |-> utc_verified, source |-> found,
         book |-> book, mid |-> mid_book]

Set(s) ==
  /\ active_utc_offset' = s.offset /\ utc_verified' = s.verified /\ found' = s.source
  /\ book' = s.book /\ mid_book' = s.mid

\* normalize_tick refuses a tick while the offset is not verified.
Normalised(s) == s.verified

\* A tick batch: the NyClose rule is resolved again at the time of receipt, a fixed
\* offset found from the last tick of a live batch, and the ticks are normalised.
TickBatch(warmup, age) ==
  LET s == IF rule = "NyClose"
           THEN IF ResolveOffset(rule, 0) # active_utc_offset
                THEN [TakeOver(ResolveOffset(rule, 0), "rule") EXCEPT !.verified = utc_verified]
                ELSE Same
           ELSE IF auto_utc_offset /\ rule = "Fixed" /\ ~warmup
           THEN TakeOver(Hourly(ServerOffset - age), IF age < 2 THEN "tick" ELSE "late tick")
           ELSE Same
  IN /\ Set(IF Normalised(s) THEN [s EXCEPT !.book = @ \cup {s.offset}, !.mid = @ \cup {s.offset}]
                             ELSE s)
     /\ UNCHANGED <<rule, auto_utc_offset, summer>>

\* A heartbeat carries the server's offset, or zero when the EA has no sample; it is
\* not asked for by the other rules.
Heartbeat(has_sample, age) ==
  LET sample == IF has_sample THEN ServerOffset - age ELSE 0
  IN /\ Set(IF /\ rule = "Fixed" /\ auto_utc_offset
               /\ has_sample \/ sample # 0
               /\ sample \in -12 * Hour..14 * Hour
            THEN TakeOver(Hourly(sample), IF age < 2 THEN "heartbeat" ELSE "late tick") ELSE Same)
     /\ UNCHANGED <<rule, auto_utc_offset, summer>>

\* The season changes, while the market is closed.
SeasonChanges == summer' = ~summer
                 /\ UNCHANGED <<rule, auto_utc_offset, active_utc_offset, utc_verified, book, mid_book, found>>

\* reset_state empties the books and keeps the offset.
OnResetState == book' = {} /\ mid_book' = {}
              /\ UNCHANGED <<rule, auto_utc_offset, summer, active_utc_offset, utc_verified, found>>

OffsetNext ==
  \/ \E warmup \in BOOLEAN, age \in Ages : TickBatch(warmup, age)
  \/ \E has_sample \in BOOLEAN, age \in Ages : Heartbeat(has_sample, age)
  \/ SeasonChanges
  \/ OnResetState

OffsetSpec == OffsetInit /\ [][OffsetNext]_offsetVars

\* Brokers' servers run at whole hours.
OffsetLimits ==
  /\ Rules \subseteq {"NyClose", "Fixed", "Jst", "Utc"} /\ Configured \in Int
  /\ Server \in Int /\ Server % Hour = 0 /\ Ages \subseteq Nat

\* An offset that was found is one of whole hours (round_to_hourly_offset).
OffsetTypeOK ==
  /\ rule \in Rules /\ utc_verified \in BOOLEAN
  /\ active_utc_offset \in Int
  /\ found # "configured" => active_utc_offset % Hour = 0

\* The candles of a broker were all placed with the offset now in force, in both
\* books: whatever changed it also emptied them ("Purge any slots that were created
\* with the previous/unverified offset").
OneOffsetPerBook == book \subseteq {active_utc_offset} /\ mid_book \subseteq {active_utc_offset}

\* No candle is placed with an offset nobody vouches for: the books of a broker stay
\* empty until its offset is verified, by the rule, the user, a heartbeat or a tick.
OnlyVerifiedCandles == ~utc_verified => book = {} /\ mid_book = {}

\* An offset found from a tick or a heartbeat that is less than half an hour old is
\* the server's own.  (A live tick that is older, delivered after a pause, gives a
\* wrong one, and the next fresh one corrects it.)
FoundOffsetIsTheServers ==
  found \in {"tick", "heartbeat"} => active_utc_offset = ServerOffset

\* A broker's candles were all placed with one verified offset, the one in force, and
\* one found from a fresh tick or heartbeat is the server's (process_frame,
\* engine.rs).
OffsetCorrect ==
  OffsetTypeOK /\ OneOffsetPerBook /\ OnlyVerifiedCandles /\ FoundOffsetIsTheServers
=============================================================================
