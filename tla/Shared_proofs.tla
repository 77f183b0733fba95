------------------------------ MODULE Shared_proofs ------------------------------
(***************************************************************************)
(* Lemmas that the proofs about several modules use: induction, totals of    *)
(* sizes, and the operators of the sequence ledger.                          *)
(***************************************************************************)
EXTENDS Aggregates, SequenceLedger, TLAPS, FiniteSetTheorems, WellFoundedInduction

\* Induction over the natural numbers for a set instead of a predicate.  It follows
\* from the well-foundedness of finite sets: among the intervals 0 .. n whose n is
\* missing from S one is the least.
LEMMA Induction ==
  ASSUME NEW S, 0 \in S, \A n \in Nat : n \in S => n + 1 \in S
  PROVE  Nat \subseteq S
<1> SUFFICES ASSUME NEW m \in Nat, m \notin S PROVE FALSE
  OBVIOUS
<1> DEFINE Missed == {0 .. n : n \in Nat \ S}
<1>1. Missed \subseteq FiniteSubsetsOf(Nat)
  <2> SUFFICES ASSUME NEW n \in Nat PROVE 0 .. n \in FiniteSubsetsOf(Nat)
    OBVIOUS
  <2>1. IsFiniteSet(0 .. n)
    BY FS_Interval
  <2>2. 0 .. n \subseteq Nat
    OBVIOUS
  <2> QED BY <2>1, <2>2 DEF FiniteSubsetsOf
<1>2. PICK i \in Missed : \A j \in Missed : ~(<<j, i>> \in StrictSubsetOrdering(Nat))
  <2> Missed # {}
    OBVIOUS
  <2> HIDE DEF Missed
  <2> QED BY <1>1, FS_StrictSubsetOrderingWellFounded, WFMin
<1>3. PICK n \in Nat \ S : i = 0 .. n
  OBVIOUS
<1>4. n # 0 /\ n - 1 \in Nat /\ n - 1 \notin S
  OBVIOUS
<1>5. /\ 0 .. n - 1 \in Missed
      /\ 0 .. n - 1 \subseteq 0 .. n /\ n \in 0 .. n /\ n \notin 0 .. n - 1
  BY <1>4
<1>6. <<0 .. n - 1, i>> \in StrictSubsetOrdering(Nat)
  BY <1>3, <1>5 DEF StrictSubsetOrdering
<1> QED BY <1>2, <1>5, <1>6

\* A set of numbers that is not empty has a least element.
LEMMA LeastExists ==
  ASSUME NEW S \in SUBSET Nat, S # {}
  PROVE  \E m \in S : \A k \in S : m <= k
<1> SUFFICES ASSUME \A m \in S : \E k \in S : ~(m <= k)
             PROVE  FALSE
  OBVIOUS
<1> DEFINE Below == {n \in Nat : \A k \in S : n <= k}
<1>1. 0 \in Below
  OBVIOUS
<1>2. ASSUME NEW n \in Nat, n \in Below PROVE n + 1 \in Below
  <2>1. n \notin S
    BY <1>2
  <2>2. ASSUME NEW k \in S PROVE n + 1 <= k
    BY <1>2, <2>1, <2>2
  <2> QED
    BY <2>2
<1> HIDE DEF Below
<1>3. Nat \subseteq Below
  BY <1>1, <1>2, Induction
<1>4. PICK k \in S : TRUE
  OBVIOUS
<1>5. k + 1 \in Below
  BY <1>3, <1>4
<1> QED
  BY <1>4, <1>5 DEF Below

-----------------------------------------------------------------------------
(* What a total of sizes does when the sequence grows at its end, shrinks at
   its front or changes in one place (Aggregates), for sequences of any length. *)

\* f holds the totals of the prefixes of s.
PrefixSums(f, s) ==
  /\ f[0] = 0
  /\ \A i \in 1 .. Len(s) : f[i] = f[i - 1] + s[i]

\* The recursive definition of the total defines something.
LEMMA TotalIsDefined ==
  ASSUME NEW s \in Seq(Nat)
  PROVE  \E f \in [0 .. Len(s) -> Nat] : PrefixSums(f, s) /\ TotalOf(s) = f[Len(s)]
<1> DEFINE Equation(f, n) == f = [i \in 0 .. n |-> IF i = 0 THEN 0 ELSE f[i - 1] + s[i]]
           Solved == {n \in Nat : n <= Len(s) => \E f : Equation(f, n)}
<1>1. Nat \subseteq Solved
  <2>1. 0 \in Solved
    <3>1. Equation([i \in 0 .. 0 |-> 0], 0)
      OBVIOUS
    <3>. QED BY <3>1
  <2>2. ASSUME NEW n \in Nat, n \in Solved PROVE n + 1 \in Solved
    <3>1. SUFFICES ASSUME n + 1 <= Len(s) PROVE \E f : Equation(f, n + 1)
      OBVIOUS
    <3>2. PICK f : Equation(f, n)
      BY <2>2, <3>1
    <3> DEFINE g == [i \in 0 .. n + 1 |-> IF i = n + 1 THEN f[n] + s[n + 1] ELSE f[i]]
    <3>3. \A i \in 0 .. n : f[i] = IF i = 0 THEN 0 ELSE f[i - 1] + s[i]
      BY <3>2
    <3>4. \A i \in 0 .. n + 1 : g[i] = IF i = 0 THEN 0 ELSE g[i - 1] + s[i]
      BY <3>3
    <3>5. Equation(g, n + 1)
      BY <3>4
    <3>. QED BY <3>5
  <2> HIDE DEF Solved
  <2>. QED BY <2>1, <2>2, Induction
<1>2. Len(s) \in Nat
  OBVIOUS
<1>3. \E f : Equation(f, Len(s))
  BY <1>1, <1>2
<1> DEFINE sum == CHOOSE f : Equation(f, Len(s))
<1>4. Equation(sum, Len(s))
  BY <1>3
<1>5. TotalOf(s) = sum[Len(s)]
  BY DEF TotalOf
<1> HIDE DEF sum
<1>6. PrefixSums(sum, s)
  BY <1>2, <1>4 DEF PrefixSums
<1>7. \A i \in 0 .. Len(s) : sum[i] \in Nat
  <2> DEFINE Natural == {n \in Nat : n <= Len(s) => sum[n] \in Nat}
  <2>1. 0 \in Natural
    BY <1>6 DEF PrefixSums
  <2>2. ASSUME NEW n \in Nat, n \in Natural PROVE n + 1 \in Natural
    <3> SUFFICES ASSUME n + 1 <= Len(s) PROVE sum[n + 1] \in Nat
      OBVIOUS
    <3>1. n + 1 \in 1 .. Len(s) /\ sum[n] \in Nat
      BY <1>2, <2>2
    <3>2. s[n + 1] \in Nat
      BY <3>1
    <3>. QED BY <1>6, <3>1, <3>2 DEF PrefixSums
  <2>3. Nat \subseteq Natural
    <3> HIDE DEF Natural
    <3>. QED BY <2>1, <2>2, Induction
  <2>. QED BY <1>2, <2>3
<1>8. sum \in [0 .. Len(s) -> Nat]
  BY <1>4, <1>7
<1>. QED BY <1>5, <1>6, <1>8

\* Whoever counts the prefixes comes to the total.
LEMMA TotalIsUnique ==
  ASSUME NEW s \in Seq(Nat), NEW f, PrefixSums(f, s)
  PROVE  TotalOf(s) = f[Len(s)]
<1>1. PICK g \in [0 .. Len(s) -> Nat] : PrefixSums(g, s) /\ TotalOf(s) = g[Len(s)]
  BY TotalIsDefined
<1>2. Len(s) \in Nat
  OBVIOUS
<1> DEFINE Equal == {n \in Nat : n <= Len(s) => f[n] = g[n]}
<1>3. 0 \in Equal
  BY <1>1 DEF PrefixSums
<1>4. ASSUME NEW n \in Nat, n \in Equal PROVE n + 1 \in Equal
  <2> SUFFICES ASSUME n + 1 <= Len(s) PROVE f[n + 1] = g[n + 1]
    OBVIOUS
  <2>1. n + 1 \in 1 .. Len(s) /\ f[n] = g[n]
    BY <1>2, <1>4
  <2>. QED BY <1>1, <2>1 DEF PrefixSums
<1>5. Nat \subseteq Equal
  <2> HIDE DEF Equal
  <2>. QED BY <1>3, <1>4, Induction
<1>. QED BY <1>1, <1>2, <1>5

LEMMA TotalType ==
  ASSUME NEW s \in Seq(Nat)
  PROVE  TotalOf(s) \in Nat
  BY TotalIsDefined

LEMMA TotalZero ==
  ASSUME NEW n \in Nat
  PROVE  TotalOf([i \in 1 .. n |-> 0]) = 0
<1> DEFINE s == [i \in 1 .. n |-> 0]
           f == [i \in 0 .. n |-> 0]
<1>1. s \in Seq(Nat) /\ Len(s) = n /\ \A i \in 1 .. n : s[i] = 0
  OBVIOUS
<1>2. /\ DOMAIN f = 0 .. n /\ f[0] = 0 /\ f[n] = 0
      /\ \A i \in 1 .. n : i - 1 \in 0 .. n /\ f[i] = 0 /\ f[i - 1] = 0
  OBVIOUS
<1> HIDE DEF s, f
<1>3. PrefixSums(f, s)
  BY <1>1, <1>2 DEF PrefixSums
<1>4. TotalOf(s) = f[Len(s)]
  BY <1>1, <1>3, TotalIsUnique
<1>. QED BY <1>1, <1>2, <1>4 DEF s

LEMMA TotalEmpty == TotalOf(<< >>) = 0
<1>1. << >> \in Seq(Nat) /\ Len(<< >>) = 0
  OBVIOUS
<1>. QED BY <1>1, TotalIsDefined DEF PrefixSums

\* One more at the end.
LEMMA TotalAppend ==
  ASSUME NEW s \in Seq(Nat), NEW n \in Nat
  PROVE  TotalOf(Append(s, n)) = TotalOf(s) + n
<1>1. PICK L \in Nat : L = Len(s)
  OBVIOUS
<1>2. PICK f \in [0 .. L -> Nat] : PrefixSums(f, s) /\ TotalOf(s) = f[L]
  BY <1>1, TotalIsDefined
<1> DEFINE t == Append(s, n)
           g == [i \in 0 .. L + 1 |-> IF i = L + 1 THEN f[L] + n ELSE f[i]]
<1>3. /\ t \in Seq(Nat) /\ Len(t) = L + 1 /\ t[L + 1] = n
      /\ \A i \in 1 .. L : t[i] = s[i]
  BY <1>1
<1>4. g[0] = 0 /\ g[L] = f[L] /\ g[L + 1] = f[L] + n
  BY <1>2 DEF PrefixSums
<1> HIDE DEF t
<1>5. ASSUME NEW i \in 1 .. L PROVE g[i] = g[i - 1] + t[i]
  <2>1. g[i] = f[i] /\ g[i - 1] = f[i - 1] /\ t[i] = s[i]
    BY <1>3
  <2>. QED BY <1>1, <1>2, <2>1 DEF PrefixSums
<1> HIDE DEF g
<1>6. PrefixSums(g, t)
  <2> SUFFICES ASSUME NEW i \in 1 .. L + 1 PROVE g[i] = g[i - 1] + t[i]
    BY <1>3, <1>4 DEF PrefixSums
  <2>1. CASE i \in 1 .. L
    BY <1>5, <2>1
  <2>2. CASE i = L + 1
    BY <1>3, <1>4, <2>2
  <2>. QED BY <2>1, <2>2
<1>7. TotalOf(t) = g[L + 1]
  BY <1>3, <1>6, TotalIsUnique
<1>. QED BY <1>2, <1>4, <1>7 DEF t

\* One less at the front.
LEMMA TotalTail ==
  ASSUME NEW s \in Seq(Nat), s # << >>
  PROVE  TotalOf(s) = Head(s) + TotalOf(Tail(s))
<1>1. PICK L \in Nat : L = Len(Tail(s)) /\ Len(s) = L + 1
  OBVIOUS
<1>2. /\ Tail(s) \in Seq(Nat) /\ Head(s) \in Nat /\ s[1] = Head(s)
      /\ \A i \in 1 .. L : Tail(s)[i] = s[i + 1] /\ s[i + 1] \in Nat
  BY <1>1
<1>3. PICK f \in [0 .. L -> Nat] : PrefixSums(f, Tail(s)) /\ TotalOf(Tail(s)) = f[L]
  BY <1>1, <1>2, TotalIsDefined
<1>4. ASSUME NEW i \in 1 .. L
      PROVE  f[i] = f[i - 1] + s[i + 1] /\ f[i] \in Nat /\ f[i - 1] \in Nat /\ s[i + 1] \in Nat
  <2>1. f[i] \in Nat /\ f[i - 1] \in Nat
    BY <1>3
  <2>2. f[i] = f[i - 1] + Tail(s)[i]
    BY <1>1, <1>3 DEF PrefixSums
  <2>. QED BY <1>2, <2>1, <2>2
<1> DEFINE g == [i \in 0 .. L + 1 |-> IF i = 0 THEN 0 ELSE Head(s) + f[i - 1]]
<1>5. g[0] = 0 /\ g[L + 1] = Head(s) + f[L] /\ g[1] = Head(s)
  BY <1>1, <1>2, <1>3 DEF PrefixSums
<1>6. ASSUME NEW i \in 1 .. L PROVE g[i + 1] = g[i] + s[i + 1]
  <2>1. g[i + 1] = Head(s) + f[i] /\ g[i] = Head(s) + f[i - 1]
    OBVIOUS
  <2>2. PICK a \in Nat, b \in Nat, h \in Nat : a = f[i - 1] /\ b = s[i + 1] /\ h = Head(s)
    BY <1>2, <1>4
  <2>3. f[i] = a + b /\ g[i] = h + a
    BY <1>4, <2>1, <2>2
  <2> HIDE DEF g
  <2>4. g[i + 1] = h + (a + b)
    BY <2>1, <2>2, <2>3
  <2>5. h + (a + b) = (h + a) + b
    OBVIOUS
  <2>. QED BY <2>2, <2>3, <2>4, <2>5, Zenon
<1> HIDE DEF g
<1>7. ASSUME NEW i \in 1 .. L + 1 PROVE g[i] = g[i - 1] + s[i]
  <2>1. CASE i = 1
    BY <1>2, <1>5, <2>1
  <2>2. CASE i # 1
    <3>1. i - 1 \in 1 .. L /\ (i - 1) + 1 = i
      BY <2>2
    <3>. QED BY <1>6, <3>1
  <2>. QED BY <2>1, <2>2
<1>8. TotalOf(s) = g[Len(s)]
  BY <1>1, <1>5, <1>7, TotalIsUnique DEF PrefixSums
<1>. QED BY <1>1, <1>3, <1>5, <1>8

\* Another size in place k.
LEMMA TotalChange ==
  ASSUME NEW s \in Seq(Nat), NEW k \in 1 .. Len(s), NEW n \in Nat
  PROVE  TotalOf([s EXCEPT ![k] = n]) + s[k] = TotalOf(s) + n
<1>1. PICK L \in Nat : L = Len(s)
  OBVIOUS
<1>2. PICK f \in [0 .. L -> Nat] : PrefixSums(f, s) /\ TotalOf(s) = f[L]
  BY <1>1, TotalIsDefined
<1> DEFINE t == [s EXCEPT ![k] = n]
<1>3. /\ t \in Seq(Nat) /\ Len(t) = L /\ t[k] = n /\ s[k] \in Nat /\ k \in 1 .. L
      /\ \A i \in 1 .. L : i # k => t[i] = s[i]
  BY <1>1
<1>4. ASSUME NEW i \in 1 .. L
      PROVE  f[i] = f[i - 1] + s[i] /\ f[i] \in Nat /\ f[i - 1] \in Nat /\ s[i] \in Nat
  <2>1. f[i] \in Nat /\ f[i - 1] \in Nat
    BY <1>2
  <2>. QED BY <1>1, <1>2, <2>1 DEF PrefixSums
<1> HIDE DEF t
<1> DEFINE g == [i \in 0 .. L |-> IF i < k THEN f[i] ELSE (f[i] + n) - s[k]]
<1>5. ASSUME NEW i \in 1 .. L PROVE g[i] = g[i - 1] + t[i]
  <2>1. g[i] = IF i < k THEN f[i] ELSE (f[i] + n) - s[k]
    OBVIOUS
  <2>2. g[i - 1] = IF i - 1 < k THEN f[i - 1] ELSE (f[i - 1] + n) - s[k]
    OBVIOUS
  <2> HIDE DEF g
  <2>3. PICK a \in Nat, b \in Nat, c \in Nat : a = f[i - 1] /\ b = s[i] /\ c = s[k]
    BY <1>3, <1>4
  <2>4. f[i] = a + b /\ k \in Nat
    BY <1>3, <1>4, <2>3
  <2>5. CASE i < k
    <3>1. g[i] = a + b /\ g[i - 1] = a /\ t[i] = b
      BY <1>3, <2>1, <2>2, <2>3, <2>4, <2>5
    <3>. QED BY <3>1, Zenon
  <2>6. CASE i = k
    <3>1. g[i] = ((a + b) + n) - c /\ g[i - 1] = a /\ t[i] = n /\ b = c
      BY <1>3, <2>1, <2>2, <2>3, <2>4, <2>6
    <3>2. ((a + c) + n) - c = a + n
      OBVIOUS
    <3>. QED BY <3>1, <3>2, Zenon
  <2>7. CASE i > k
    <3>1. g[i] = ((a + b) + n) - c /\ g[i - 1] = (a + n) - c /\ t[i] = b
      BY <1>3, <2>1, <2>2, <2>3, <2>4, <2>7
    <3>2. ((a + b) + n) - c = ((a + n) - c) + b
      OBVIOUS
    <3>. QED BY <3>1, <3>2, Zenon
  <2>. QED BY <2>4, <2>5, <2>6, <2>7
<1>6. g[0] = 0 /\ g[L] = (f[L] + n) - s[k]
  BY <1>2, <1>3 DEF PrefixSums
<1> HIDE DEF g
<1>7. TotalOf(t) = g[L]
  BY <1>3, <1>5, <1>6, TotalIsUnique DEF PrefixSums
<1>8. f[L] \in Nat
  BY <1>2
<1>. QED BY <1>2, <1>3, <1>6, <1>7, <1>8 DEF t

-----------------------------------------------------------------------------
(* The same for two sequences that are compared element by element, as the    *)
(* sizes of a queue before and after a step are.                              *)

\* A sequence is determined by its length and its elements.
LEMMA SameElements ==
  ASSUME NEW s \in Seq(Nat), NEW t \in Seq(Nat), Len(s) = Len(t),
         \A i \in 1 .. Len(s) : s[i] = t[i]
  PROVE  s = t
<1>1. PICK n \in Nat : n = Len(s)
  OBVIOUS
<1>2. \A x \in Seq(Nat) : x \in [1 .. Len(x) -> Nat]
  OBVIOUS
<1>3. s \in [1 .. n -> Nat] /\ t \in [1 .. n -> Nat]
  BY <1>1, <1>2, Zenon
<1>. QED BY <1>1, <1>3

LEMMA TotalGrows ==
  ASSUME NEW s \in Seq(Nat), NEW t \in Seq(Nat), Len(t) = Len(s) + 1,
         \A i \in 1 .. Len(s) : t[i] = s[i]
  PROVE  TotalOf(t) = TotalOf(s) + t[Len(s) + 1]
<1>1. PICK n \in Nat : n = t[Len(s) + 1]
  <2>1. Len(s) + 1 \in 1 .. Len(t)
    OBVIOUS
  <2>. QED BY <2>1
<1>2. /\ Append(s, n) \in Seq(Nat) /\ Len(Append(s, n)) = Len(t)
      /\ \A i \in 1 .. Len(t) : Append(s, n)[i] = t[i]
  BY <1>1
<1>3. Append(s, n) = t
  BY <1>2, SameElements
<1>. QED BY <1>1, <1>3, TotalAppend

LEMMA TotalShrinks ==
  ASSUME NEW s \in Seq(Nat), NEW t \in Seq(Nat), Len(s) = Len(t) + 1,
         \A i \in 1 .. Len(t) : t[i] = s[i + 1]
  PROVE  TotalOf(s) = s[1] + TotalOf(t)
<1>1. /\ s # << >> /\ Head(s) = s[1] /\ Tail(s) \in Seq(Nat) /\ Len(Tail(s)) = Len(t)
      /\ \A i \in 1 .. Len(t) : Tail(s)[i] = s[i + 1]
  OBVIOUS
<1>2. \A i \in 1 .. Len(t) : Tail(s)[i] = t[i]
  BY <1>1
<1>3. Tail(s) = t
  BY <1>1, <1>2, SameElements
<1>. QED BY <1>1, <1>3, TotalTail

LEMMA TotalMoves ==
  ASSUME NEW s \in Seq(Nat), NEW t \in Seq(Nat), Len(s) = Len(t), NEW k \in 1 .. Len(s),
         \A i \in 1 .. Len(s) : i # k => t[i] = s[i]
  PROVE  TotalOf(t) + s[k] = TotalOf(s) + t[k]
<1>1. PICK n \in Nat : n = t[k]
  OBVIOUS
<1> DEFINE u == [s EXCEPT ![k] = n]
<1>2. /\ u \in Seq(Nat) /\ Len(u) = Len(s)
      /\ u[k] = n /\ \A i \in 1 .. Len(s) : i # k => u[i] = s[i]
  BY <1>1
<1> HIDE DEF u
<1>3. \A i \in 1 .. Len(s) : u[i] = t[i]
  BY <1>1, <1>2
<1>4. u = t
  BY <1>2, <1>3, SameElements
<1>5. TotalOf(u) + s[k] = TotalOf(s) + n
  BY TotalChange DEF u
<1>. QED BY <1>1, <1>4, <1>5

-----------------------------------------------------------------------------
(* The operators of SequenceLedger, for every window capacity and every width
   of the sequence counter. *)

Window(l) == {l.recent_sequences[i] : i \in 1 .. Len(l.recent_sequences)}

Distinct(s) == \A i, j \in 1 .. Len(s) : s[i] = s[j] => i = j

\* The hash set and the eviction queue hold the same numbers, each once, and no
\* more than the capacity.
WellFormed(l) ==
  /\ l \in Ledger
  /\ l.seen_sequences = Window(l)
  /\ Len(l.recent_sequences) <= Capacity
  /\ Distinct(l.recent_sequences)

\* A ledger that was reset.
LEMMA NewLedgerIsWellFormed ==
  /\ WellFormed(NewLedger)
  /\ NewLedger.expected_sequence = 0
  /\ NewLedger.seen_sequences = {}
<1>1. /\ NewLedger.expected_sequence = 0
      /\ NewLedger.seen_sequences = {}
      /\ NewLedger.recent_sequences = << >>
      /\ NewLedger \in Ledger
  BY MaxSequenceAssumption DEF NewLedger, Ledger, Sequence
<1>2. QED
  BY <1>1, CapacityAssumption DEF WellFormed, Window, Distinct

\* The successor stays in the range and moves on, but at the largest number.
LEMMA SaturatingSuccFacts ==
  ASSUME NEW s \in Sequence
  PROVE  /\ SaturatingSucc(s) \in Sequence
         /\ s < MaxSequence => SaturatingSucc(s) = s + 1
         /\ s = MaxSequence => SaturatingSucc(s) = s
         /\ s \in Nat /\ s <= MaxSequence
  BY MaxSequenceAssumption DEF SaturatingSucc, Sequence

\* What the three verdicts mean.
LEMMA ClassifyFacts ==
  ASSUME NEW l \in Ledger, NEW s \in Sequence
  PROVE  /\ Classify(l, s) = "New"
              <=> s \notin l.seen_sequences /\ s >= l.expected_sequence
         /\ Classify(l, s) = "DuplicateExact" <=> s \in l.seen_sequences
         /\ Classify(l, s) \in Disposition
<1>1. l.expected_sequence \in Nat /\ s \in Nat
  BY MaxSequenceAssumption DEF Ledger, Sequence
<1>2. QED
  BY <1>1 DEF Classify, Disposition

\* What record_new leaves in the window: the new number is in it, the others
\* come from the old window, it stays distinct and within the capacity.
LEMMA RecordNewWindow ==
  ASSUME NEW l, WellFormed(l), NEW s \in Sequence, s \notin l.seen_sequences,
         NEW m, m = RecordNew(l, s)
  PROVE  /\ WellFormed(m)
         /\ m.expected_sequence = SaturatingSucc(s)
         /\ s \in m.seen_sequences
         /\ m.seen_sequences \subseteq l.seen_sequences \cup {s}
<1> DEFINE old    == l.recent_sequences
           recent == Append(old, s)
           seen   == l.seen_sequences \cup {s}
           n      == Len(old)
<1>1. /\ old \in Seq(Sequence)
      /\ n \in Nat /\ n <= Capacity
      /\ l.seen_sequences = {old[i] : i \in 1 .. n}
      /\ \A i, j \in 1 .. n : old[i] = old[j] => i = j
  BY DEF WellFormed, Window, Distinct, Ledger
<1>2. /\ recent \in Seq(Sequence)
      /\ Len(recent) = n + 1
      /\ recent[n + 1] = s
      /\ \A i \in 1 .. n : recent[i] = old[i]
  BY <1>1
<1>3. seen = {recent[i] : i \in 1 .. n + 1}
  BY <1>1, <1>2
<1>4. \A i, j \in 1 .. n + 1 : recent[i] = recent[j] => i = j
  BY <1>1, <1>2
<1>5. SaturatingSucc(s) \in Sequence
  BY MaxSequenceAssumption DEF SaturatingSucc, Sequence
<1>6. CASE Len(recent) > Capacity
  <2>1. m = [ expected_sequence |-> SaturatingSucc(s),
              seen_sequences    |-> seen \ {Head(recent)},
              recent_sequences  |-> Tail(recent) ]
    BY <1>6 DEF RecordNew
  <2>2. n >= 1 /\ n = Capacity
    BY <1>1, <1>2, <1>6, CapacityAssumption
  <2>3. /\ Head(recent) = recent[1]
        /\ Tail(recent) \in Seq(Sequence)
        /\ Len(Tail(recent)) = n
        /\ \A i \in 1 .. n : Tail(recent)[i] = recent[i + 1]
    BY <1>2, <2>2
  <2>4. seen \ {recent[1]} = {Tail(recent)[i] : i \in 1 .. n}
    <3>1. ASSUME NEW x \in seen \ {recent[1]}
          PROVE  x \in {Tail(recent)[i] : i \in 1 .. n}
      <4>1. PICK i \in 1 .. n + 1 : x = recent[i]
        BY <1>3
      <4>2. i # 1
        BY <4>1, <3>1
      <4>3. i - 1 \in 1 .. n /\ Tail(recent)[i - 1] = recent[i]
        BY <1>1, <2>3, <4>2
      <4>4. QED
        BY <4>1, <4>3
    <3>2. ASSUME NEW i \in 1 .. n
          PROVE  Tail(recent)[i] \in seen \ {recent[1]}
      <4>1. i + 1 \in 1 .. n + 1 /\ 1 \in 1 .. n + 1 /\ i + 1 # 1
        BY <1>1
      <4>2. recent[i + 1] \in seen /\ recent[i + 1] # recent[1]
        BY <1>3, <1>4, <4>1
      <4>3. QED
        BY <2>3, <4>2
    <3>3. QED
      BY <3>1, <3>2
  <2>5. \A i, j \in 1 .. n : Tail(recent)[i] = Tail(recent)[j] => i = j
    <3>1. SUFFICES ASSUME NEW i \in 1 .. n, NEW j \in 1 .. n,
                          Tail(recent)[i] = Tail(recent)[j]
                   PROVE  i = j
      OBVIOUS
    <3>2. recent[i + 1] = recent[j + 1]
      BY <2>3, <3>1
    <3>3. i + 1 \in 1 .. n + 1 /\ j + 1 \in 1 .. n + 1
      BY <1>1
    <3>4. i + 1 = j + 1
      BY <1>4, <3>2, <3>3
    <3>5. QED
      BY <3>4, <1>1
  <2>6. s \in seen \ {recent[1]}
    BY <1>1, <1>2, <2>2
  <2>7. seen \ {recent[1]} \subseteq Sequence
    BY DEF WellFormed, Ledger
  <2>8. m \in Ledger
    BY <2>1, <2>3, <2>7, <1>5 DEF Ledger
  <2>9. /\ m.expected_sequence = SaturatingSucc(s)
        /\ m.seen_sequences = seen \ {recent[1]}
        /\ m.recent_sequences = Tail(recent)
    BY <2>1, <2>3
  <2> HIDE DEF old, recent, seen, n
  <2>10. seen \ {recent[1]} \subseteq l.seen_sequences \cup {s}
    BY DEF seen
  <2>11. /\ Len(m.recent_sequences) = n
         /\ \A i \in 1 .. n : m.recent_sequences[i] = Tail(recent)[i]
    BY <2>3, <2>9
  <2>12. m.seen_sequences = {m.recent_sequences[i] : i \in 1 .. Len(m.recent_sequences)}
    <3>1. 1 .. Len(m.recent_sequences) = 1 .. n
      BY <2>11
    <3>2. {m.recent_sequences[i] : i \in 1 .. n} = {Tail(recent)[i] : i \in 1 .. n}
      BY <2>9, Zenon
    <3>3. QED
      BY <2>4, <2>9, <3>1, <3>2, Zenon
  <2>13. Len(m.recent_sequences) <= Capacity
    BY <2>2, <2>11, <1>1
  <2>14. \A i, j \in 1 .. Len(m.recent_sequences) :
            m.recent_sequences[i] = m.recent_sequences[j] => i = j
    BY ZenonT(30), <2>5, <2>9, <2>11
  <2>15. WellFormed(m)
    BY <2>8, <2>12, <2>13, <2>14 DEF WellFormed, Window, Distinct
  <2>16. QED
    BY <2>6, <2>9, <2>10, <2>15
<1>7. CASE ~(Len(recent) > Capacity)
  <2>1. m = [ expected_sequence |-> SaturatingSucc(s),
              seen_sequences    |-> seen,
              recent_sequences  |-> recent ]
    BY <1>7 DEF RecordNew
  <2>2. seen \subseteq Sequence
    BY DEF WellFormed, Ledger
  <2>3. n + 1 <= Capacity
    BY <1>1, <1>2, <1>7, CapacityAssumption
  <2>4. QED
    BY <2>1, <2>2, <2>3, <1>2, <1>3, <1>4, <1>5 DEF Ledger, WellFormed, Window, Distinct
<1>8. QED
  BY <1>6, <1>7
=============================================================================
