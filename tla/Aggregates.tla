------------------------------ MODULE Aggregates ------------------------------
(***************************************************************************)
(* What the components work out of many numbers: the total of a sequence of  *)
(* sizes, which a byte counter of the program must agree with, and numbers   *)
(* in ascending order, which Rust's sorts give.  The total is a recursive    *)
(* function and an order is told by counting, because both can be reasoned   *)
(* about (Shared_proofs, Figures_proofs), which folds cannot.                *)
(***************************************************************************)
EXTENDS Integers, Sequences, FiniteSets

TotalOf(s) ==
  LET sum[n \in 0 .. Len(s)] == IF n = 0 THEN 0 ELSE sum[n - 1] + s[n]
  IN sum[Len(s)]

\* The place of i when the keys of f stand in the order of their values; of equal
\* values the smaller key comes first.
PlaceOf(f, i) == Cardinality({j \in DOMAIN f : f[j] < f[i] \/ (f[j] = f[i] /\ j <= i)})

KeysByValue(f) ==
  [k \in 1 .. Cardinality(DOMAIN f) |-> CHOOSE i \in DOMAIN f : PlaceOf(f, i) = k]

Ascending(f) == [k \in 1 .. Cardinality(DOMAIN f) |-> f[KeysByValue(f)[k]]]
=============================================================================
