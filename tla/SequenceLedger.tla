---------------------------- MODULE SequenceLedger ----------------------------
(***************************************************************************)
(* The per-broker sequence ledger of src/src/tick/ledger.rs as a pure data   *)
(* type: a value and the functions the engine calls on it.  The engine keeps *)
(* one ledger per broker channel and asks it, for every tick of a batch,     *)
(* whether the tick is new, a duplicate or too late, and which sequence      *)
(* numbers were skipped.                                                     *)
(*                                                                           *)
(* Sequence numbers are u64 in the code; MaxSequence stands for u64::MAX and *)
(* the additions saturate at it.                                             *)
(***************************************************************************)
EXTENDS Naturals, Sequences

CONSTANTS
  Capacity,     (* history.ledger_capacity: sequences remembered exactly   *)
  MaxSequence   (* largest representable sequence number                   *)

\* AppConfig::validate refuses a ledger capacity of zero (config/schema.rs).
ASSUME CapacityAssumption    == Capacity \in Nat \ {0}
ASSUME MaxSequenceAssumption == MaxSequence \in Nat

Sequence == 0 .. MaxSequence

\* SequenceDisposition; IdentityConflict exists in the type but observe never
\* returns it.
Disposition == {"New", "DuplicateExact", "OutOfOrderUnverified"}

NoGap == <<>>

Ledger == [ expected_sequence : Sequence,
            seen_sequences    : SUBSET Sequence,
            recent_sequences  : Seq(Sequence) ]

NewLedger == [ expected_sequence |-> 0,
               seen_sequences    |-> {},
               recent_sequences  |-> << >> ]

SaturatingSucc(s) == IF s < MaxSequence THEN s + 1 ELSE MaxSequence

\* record_new.  The code's eviction loop runs at most once: a ledger never
\* holds more than Capacity sequences before the insertion.
RecordNew(l, s) ==
  LET recent == Append(l.recent_sequences, s)
      seen   == l.seen_sequences \cup {s}
      full   == Len(recent) > Capacity
  IN [ expected_sequence |-> SaturatingSucc(s),
       seen_sequences    |-> IF full THEN seen \ {Head(recent)} ELSE seen,
       recent_sequences  |-> IF full THEN Tail(recent) ELSE recent ]

\* Mutant: the window is not consulted for a number that is expected.
ClassifyByExpected(l, s) ==
  IF s >= l.expected_sequence THEN "New"
  ELSE IF s \in l.seen_sequences THEN "DuplicateExact"
  ELSE "OutOfOrderUnverified"

Classify(l, s) ==
  IF s \in l.seen_sequences THEN "DuplicateExact"
  ELSE IF s < l.expected_sequence THEN "OutOfOrderUnverified"
  ELSE "New"

\* The ledger after observe(s).
Observed(l, s) == IF Classify(l, s) = "New" THEN RecordNew(l, s) ELSE l

\* The skipped range observe(s) reports, as <<first, last>>, or NoGap.
GapBefore(l, s) ==
  IF Classify(l, s) = "New" /\ s > l.expected_sequence
  THEN <<l.expected_sequence, s - 1>>
  ELSE NoGap
=============================================================================
