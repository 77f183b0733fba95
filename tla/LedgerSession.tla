----------------------------- MODULE LedgerSession -----------------------------
(***************************************************************************)
(* One broker channel's ledger driven by the tick stream the engine feeds it *)
(* (process_frame, src/src/tick/engine.rs): any sequence number may arrive   *)
(* at any time - batches are retransmitted after a lost acknowledgement,     *)
(* connections overlap, ticks are lost - and a change of session resets the  *)
(* ledger.                                                                   *)
(*                                                                           *)
(* deliveries and missing are what the rest of the engine sees of a session: *)
(* how often each number was let through as New, and how often it was        *)
(* reported inside a SEQUENCE_GAP diagnostic.                                *)
(***************************************************************************)
EXTENDS SequenceLedger

VARIABLES
  ledger,      (* BrokerChannelState.ledger                                *)
  deliveries,  (* per sequence number: ticks processed as New              *)
  missing      (* per sequence number: SEQUENCE_GAP ranges that contain it *)

vars == <<ledger, deliveries, missing>>

InRange(s, gap) == gap # NoGap /\ gap[1] <= s /\ s <= gap[2]

Init ==
  /\ ledger = NewLedger
  /\ deliveries = [s \in Sequence |-> 0]
  /\ missing = [s \in Sequence |-> 0]

\* One tick of a TickBatch: only a New tick reaches the trackers, and a gap is
\* pushed to the diagnostics.
ObserveTick(s) ==
  LET gap == GapBefore(ledger, s)
  IN /\ ledger' = Observed(ledger, s)
     /\ deliveries' = IF Classify(ledger, s) = "New"
                      THEN [deliveries EXCEPT ![s] = @ + 1]
                      ELSE deliveries
     /\ missing' = [t \in Sequence |-> IF InRange(t, gap) THEN missing[t] + 1
                                                          ELSE missing[t]]

\* A batch or heartbeat of another session: ledger.reset() before its ticks.
\* The counters start again with the session they count for.
ChangeSession ==
  /\ ledger' = NewLedger
  /\ deliveries' = [s \in Sequence |-> 0]
  /\ missing' = [s \in Sequence |-> 0]

Next == ChangeSession \/ \E s \in Sequence : ObserveTick(s)

Spec == Init /\ [][Next]_vars

-----------------------------------------------------------------------------
\* Types of the three variables.
TypeOK ==
  /\ ledger \in Ledger
  /\ deliveries \in [Sequence -> Nat]
  /\ missing \in [Sequence -> Nat]

\* Within a session no tick is processed twice, however often its batch is
\* retransmitted and however long ago the ledger evicted its number from the
\* exact window (observe, ledger.rs); also at the u64 limit, where
\* expected_sequence saturates and stops moving past the last number.
AcceptedAtMostOnce == \A s \in Sequence : deliveries[s] <= 1

\* Every number below expected_sequence was either processed or reported
\* missing, and never both, never twice: the SEQUENCE_GAP diagnostics and the
\* processed ticks partition the stream.  A number that arrives late, after its
\* gap was reported, is not processed as well.
EveryNumberAccountedOnce ==
  /\ \A s \in Sequence : s < ledger.expected_sequence
                            => deliveries[s] + missing[s] = 1
  /\ \A s \in Sequence : s > ledger.expected_sequence
                            => deliveries[s] + missing[s] = 0
  /\ missing[ledger.expected_sequence] = 0

\* The two mirrors of the exact window agree - a number is in the hash set
\* exactly while it is in the eviction queue - and the window never outgrows its
\* configured capacity, although record_new only ever evicts after inserting.
WindowConsistent ==
  /\ ledger.seen_sequences
       = {ledger.recent_sequences[i] : i \in 1 .. Len(ledger.recent_sequences)}
  /\ Len(ledger.recent_sequences) <= Capacity

\* A tick is only called an exact duplicate when it really was processed before:
\* the DuplicateExact verdict is never given to a number that was skipped.
DuplicatesWereDelivered ==
  \A s \in Sequence : Classify(ledger, s) = "DuplicateExact" => deliveries[s] = 1

\* The ledger of one session after another: every number is processed at most once
\* and accounted for once, the window stays within its capacity, and a duplicate is
\* called one only if it is one (SequenceLedger).
LedgerCorrect ==
  /\ TypeOK
  /\ AcceptedAtMostOnce
  /\ EveryNumberAccountedOnce
  /\ WindowConsistent
  /\ DuplicatesWereDelivered
=============================================================================
