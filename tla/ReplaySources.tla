----------------------------- MODULE ReplaySources -----------------------------
(***************************************************************************)
(* The recorded history a replay reads: one BrokerParquetSource per broker    *)
(* (src/src/replay/parquet_source.rs) with its monthly partitions and cursor, *)
(* and the MergeStream that interleaves them (merge_stream.rs).  The stream's *)
(* lock is held throughout a rebuild (rebuilder.rs) and a pop, so each is one *)
(* step.  The partition cache only saves reading a file again and is left out.*)
(***************************************************************************)
EXTENDS Integers, SequencesExt

CONSTANTS
  History,       (* broker -> its months, sorted: when each begins and ends,   *)
                 (* its ticks' times, whether its file can be read             *)
  Delay,         (* broker -> receive_delay_ms                                 *)
  LastUtc,       (* bound: what is sought                                      *)
  Retention,     (* warm-up covers [target - Retention, target]                *)
  MaxSeeks       (* bound                                                      *)

VARIABLES
  current,       (* broker -> current_partition_idx, 0 for none                *)
  position,      (* broker -> cursor into its ticks, 1 is the first            *)
  warmed,        (* history: broker -> ticks of the last warm-up               *)
  played,        (* history: ticks popped since the last seek, in order        *)
  sought         (* history: seeks, the last target and the brokers it loaded  *)

sourcesVars == <<current, position, warmed, played, sought>>

Brokers == DOMAIN History
TicksOf(b, p) == IF p = 0 THEN << >> ELSE History[b][p].ticks

\* A tick is named by its place; TickTime is its utc_ms.
PartTicks(b, p) == {[broker |-> b, part |-> p, index |-> i] : i \in DOMAIN TicksOf(b, p)}
AllTicks(b) == UNION {PartTicks(b, p) : p \in DOMAIN History[b]}
TickTime(x) == TicksOf(x.broker, x.part)[x.index]
Effective(x) == TickTime(x) + Delay[x.broker]

SourcesInit ==
  /\ current = [b \in Brokers |-> 0]
  /\ position = [b \in Brokers |-> 1]
  /\ warmed = [b \in Brokers |-> {}]
  /\ played = << >>
  /\ sought = [count |-> 0, target |-> 0, loaded |-> {}]

-----------------------------------------------------------------------------
(* BrokerParquetSource.                                                       *)

\* binary_search_by_key: the place of any tick with that time, or where one
\* would be.
Found(ticks, t) ==
  LET equal == {i \in DOMAIN ticks : ticks[i] = t}
  IN IF equal # {} THEN equal
     ELSE {Cardinality({i \in DOMAIN ticks : ticks[i] < t}) + 1}

\* load_for_utc_ms finds the partition of t's month.
Covering(b, t) ==
  {p \in DOMAIN History[b] : History[b][p].begins <= t /\ t < History[b][p].ends}
LoadFails(b, t) == \E p \in Covering(b, t) : p # current[b] /\ ~History[b][p].readable

\* get_warmup_range in partition p; the search for the end found `at`.
WarmRange(b, p, from, at, exact) ==
  {x \in PartTicks(b, p) : /\ \E i \in Found(TicksOf(b, p), from) : x.index >= i
                           /\ x.index < IF exact THEN at + 1 ELSE at}

\* peek: a source at the end of its partition enters the next one.
NextPart(b) ==
  IF /\ position[b] > Len(TicksOf(b, current[b]))
     /\ current[b] < Len(History[b]) /\ History[b][current[b] + 1].readable
  THEN current[b] + 1 ELSE current[b]
\* Mutant: the cursor is not reset.
NextIndexKept(b) == position[b]
NextIndex(b) == IF NextPart(b) = current[b] THEN position[b] ELSE 1
NextTick(b) == [broker |-> b, part |-> NextPart(b), index |-> NextIndex(b)]
HasNext(b) == NextIndex(b) \in DOMAIN TicksOf(b, NextPart(b))

-----------------------------------------------------------------------------
(* MergeStream.                                                               *)

ComesFirst(x, y) ==
  \/ Effective(x) < Effective(y)
  \/ Effective(x) = Effective(y) /\ x.broker <= y.broker

\* pop_up_to_buf finds nothing due: looking has entered next partitions.
LookAhead ==
  /\ position' = [c \in Brokers |-> NextIndex(c)]
  /\ current' = [c \in Brokers |-> NextPart(c)]
  /\ UNCHANGED <<warmed, played, sought>>

\* One tick of pop_up_to_buf.
PopTick ==
  \E b \in Brokers :
    /\ HasNext(b)
    /\ \A c \in Brokers : HasNext(c) => ComesFirst(NextTick(b), NextTick(c))
    /\ played' = Append(played, NextTick(b))
    /\ position' = [c \in Brokers |-> IF c = b THEN NextIndex(c) + 1 ELSE NextIndex(c)]
    /\ current' = [c \in Brokers |-> NextPart(c)]
    /\ UNCHANGED <<warmed, sought>>

\* MergeStream::load_for_utc_ms stops at the first broker whose file cannot be
\* read; a broker without a partition for the month keeps the one it has.
Loaded(t) ==
  {b \in Brokers : /\ Covering(b, t - Delay[b]) # {}
                   /\ \A c \in Brokers : c <= b => ~LoadFails(c, t - Delay[c])}
CurrentAfter(b, t) ==
  IF b \in Loaded(t) THEN CHOOSE p \in Covering(b, t - Delay[b]) : TRUE ELSE current[b]

\* rebuild_at: load, get_warmup_ticks, seek_to_utc.  The end of the warm-up and
\* the cursor come from the same search.
Rebuild(t) ==
  /\ sought.count < MaxSeeks
  /\ \E at \in [Brokers -> 1 .. LastUtc + 1] :
       /\ \A b \in Brokers : at[b] \in Found(TicksOf(b, CurrentAfter(b, t)), t - Delay[b])
       /\ position' = [b \in Brokers |-> at[b]]
       /\ warmed' = [b \in Brokers |->
            LET p == CurrentAfter(b, t)
                to == t - Delay[b]
                from == to - Retention
                ticks == TicksOf(b, p)
                before(q) == Cardinality({i \in DOMAIN TicksOf(b, q) : TicksOf(b, q)[i] <= to}) + 1
            IN WarmRange(b, p, from, at[b], at[b] \in DOMAIN ticks /\ ticks[at[b]] = to)
               \cup IF p > 1 /\ History[b][p - 1].readable
                    THEN WarmRange(b, p - 1, from, before(p - 1), FALSE) ELSE {}]
  /\ current' = [b \in Brokers |-> CurrentAfter(b, t)]
  /\ played' = << >>
  /\ sought' = [count |-> sought.count + 1, target |-> t, loaded |-> Loaded(t)]

SourcesNext == LookAhead \/ PopTick \/ \E t \in 0 .. LastUtc : Rebuild(t)

SourcesSpec == SourcesInit /\ [][SourcesNext]_sourcesVars
-----------------------------------------------------------------------------

\* read_parquet_ticks sorts a file's ticks and new() the partitions; a file holds the
\* ticks of its month; no retention is longer than a month.
MonthLimits(h) ==
  /\ h \in Seq([begins : Nat, ends : Nat, ticks : Seq(Nat), readable : BOOLEAN])
  /\ \A p \in DOMAIN h :
       /\ h[p].begins + Retention <= h[p].ends
       /\ \A i \in DOMAIN h[p].ticks : h[p].begins <= h[p].ticks[i] /\ h[p].ticks[i] < h[p].ends
       /\ \A i, j \in DOMAIN h[p].ticks : i < j => h[p].ticks[i] <= h[p].ticks[j]
  /\ \A p, q \in DOMAIN h : p < q => h[p].ends <= h[q].begins

SourcesLimits ==
  /\ Brokers \subseteq Nat /\ Delay \in [Brokers -> Nat]
  /\ LastUtc \in Nat /\ Retention \in Nat /\ MaxSeeks \in Nat
  /\ \A b \in Brokers : MonthLimits(History[b])

MonthsHaveTicks ==
  \A b \in Brokers : \A p \in DOMAIN History[b] : History[b][p].readable => TicksOf(b, p) # << >>

SourcesTypeOK ==
  \A b \in Brokers :
    /\ current[b] \in 0 .. Len(History[b])
    /\ position[b] \in 1 .. Len(TicksOf(b, current[b])) + 1
    /\ warmed[b] \subseteq AllTicks(b)

Ahead(x) ==
  \/ x.part > current[x.broker]
  \/ x.part = current[x.broker] /\ x.index >= position[x.broker]

\* Ticks come out in the order of their effective time and, at the same time, of
\* their broker (MergeStream: "next chronological tick across all 5 broker
\* sources"), across partitions too - as long as every month has a tick: peek enters
\* one partition at a time, and passes over a broker whose next month is empty.
PlayedInOrder ==
  MonthsHaveTicks => \A i \in 1 .. Len(played) - 1 : ComesFirst(played[i], played[i + 1])

\* No tick falls between the warm-up and the playback of a broker whose partition
\* was loaded, also at month boundaries and when several ticks have the target's
\* time: what is younger than the retention is warmed up, played, or ahead.
NothingLost ==
  \A b \in sought.loaded : \A x \in AllTicks(b) :
    History[b][x.part].readable /\ TickTime(x) > sought.target - Delay[b] - Retention
    => x \in warmed[b] \/ Ahead(x) \/ \E i \in DOMAIN played : played[i] = x

\* After a seek such a broker plays no tick of before the target, and none twice.
PlayedFromTarget ==
  /\ \A i, j \in DOMAIN played : played[i] = played[j] => i = j
  /\ \A i \in DOMAIN played :
       played[i].broker \in sought.loaded => Effective(played[i]) >= sought.target

\* The recorded history.  The merged sources play every recorded tick from the
\* sought time on, once and in order, across months that are missing or unreadable
\* (MergeStream, BrokerParquetSource).
SourcesCorrect ==
  /\ SourcesTypeOK
  /\ PlayedInOrder
  /\ NothingLost
  /\ PlayedFromTarget
=============================================================================
