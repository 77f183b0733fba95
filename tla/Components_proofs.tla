---------------------------- MODULE Components_proofs ----------------------------
(***************************************************************************)
(* Proofs about the components that stand on their own, one section each:    *)
(* the sequence ledger, the threads of the runtime, those of a replay, the      *)
(* deployment of the EA, the terminals, the replay's arbiter, the EA's cursor,  *)
(* the matcher of moves, the recorded history, the decoder of the wire, the raw *)
(* log's file.                                                                 *)
(***************************************************************************)
EXTENDS LedgerSession, Runtime, ReplaySession, Shared_proofs,
        Deployment, TerminalManager, SyncArbiter, TickCursor, EventMatcher,
        ReplaySources, StreamingDecoder, LogFile, SequenceTheorems

-----------------------------------------------------------------------------
(* The sequence ledger under one session after another (LedgerSession).       *)

\* The window holds distinct numbers, each of them delivered; and once the
\* counter is saturated and its last number was taken, that number is still in
\* the window.  AcceptedAtMostOnce alone is not inductive: it says nothing of
\* why the next New number was not delivered before.
LedgerInv ==
  /\ TypeOK
  /\ EveryNumberAccountedOnce
  /\ WellFormed(ledger)
  /\ \A s \in ledger.seen_sequences : deliveries[s] = 1
  /\ \/ deliveries[ledger.expected_sequence] = 0
     \/ /\ ledger.expected_sequence = MaxSequence
        /\ MaxSequence \in ledger.seen_sequences
        /\ deliveries[MaxSequence] = 1

-----------------------------------------------------------------------------
\* A number the ledger takes as New is at or beyond expected_sequence and was
\* never delivered.
LEMMA NewIsUndelivered ==
  ASSUME LedgerInv, NEW s \in Sequence, Classify(ledger, s) = "New"
  PROVE  /\ s >= ledger.expected_sequence
         /\ s \notin ledger.seen_sequences
         /\ deliveries[s] = 0
         /\ missing[s] = 0
<1>1. s >= ledger.expected_sequence /\ s \notin ledger.seen_sequences
  BY ClassifyFacts DEF LedgerInv, TypeOK
<1>2. CASE s > ledger.expected_sequence
  BY <1>1, <1>2 DEF LedgerInv, TypeOK, EveryNumberAccountedOnce, Sequence
<1>3. CASE s = ledger.expected_sequence
  BY <1>1, <1>3 DEF LedgerInv, EveryNumberAccountedOnce
<1>4. QED
  BY <1>1, <1>2, <1>3, MaxSequenceAssumption
     DEF LedgerInv, TypeOK, Ledger, Sequence

-----------------------------------------------------------------------------
LEMMA LedgerInvInit == Init => LedgerInv
<1> SUFFICES ASSUME Init PROVE LedgerInv
  OBVIOUS
<1>1. /\ ledger.expected_sequence = 0
      /\ ledger.seen_sequences = {}
      /\ WellFormed(ledger)
  BY NewLedgerIsWellFormed DEF Init
<1>2. TypeOK
  BY <1>1 DEF Init, TypeOK, WellFormed
<1>3. \A s \in Sequence : deliveries[s] = 0 /\ missing[s] = 0
  BY DEF Init
<1>4. 0 \in Sequence
  BY MaxSequenceAssumption DEF Sequence
<1>5. EveryNumberAccountedOnce
  BY <1>1, <1>3, <1>4 DEF EveryNumberAccountedOnce, Sequence
<1>6. QED
  BY <1>1, <1>2, <1>3, <1>4, <1>5 DEF LedgerInv

\* A tick that is not New leaves everything as it was.
LEMMA RejectedTickChangesNothing ==
  ASSUME TypeOK, NEW s \in Sequence, Classify(ledger, s) # "New", ObserveTick(s)
  PROVE  UNCHANGED vars
<1>1. GapBefore(ledger, s) = NoGap /\ Observed(ledger, s) = ledger
  BY DEF GapBefore, Observed
<1>2. missing' = missing
  BY <1>1 DEF ObserveTick, InRange, TypeOK
<1>3. QED
  BY <1>1, <1>2 DEF ObserveTick, vars

\* Processing a New tick keeps the accounting: the numbers between
\* expected_sequence and the tick become missing, the tick itself delivered.
LEMMA NewTickKeepsInv ==
  ASSUME LedgerInv, NEW s \in Sequence, Classify(ledger, s) = "New", ObserveTick(s)
  PROVE  LedgerInv'
<1> USE MaxSequenceAssumption
<1> DEFINE e == ledger.expected_sequence
<1>1. /\ s >= e
      /\ s \notin ledger.seen_sequences
      /\ deliveries[s] = 0
      /\ missing[s] = 0
  BY NewIsUndelivered
<1>2. /\ TypeOK
      /\ e \in Sequence
      /\ \A t \in Sequence : deliveries[t] \in Nat /\ missing[t] \in Nat
      /\ \A t \in ledger.seen_sequences : deliveries[t] = 1
      /\ ledger.seen_sequences \subseteq Sequence
  BY DEF LedgerInv, TypeOK, Ledger
<1>below. \A t \in Sequence : t < e => deliveries[t] + missing[t] = 1
  BY DEF LedgerInv, EveryNumberAccountedOnce
<1>above. \A t \in Sequence : t > e => deliveries[t] = 0 /\ missing[t] = 0
  <2>1. \A t \in Sequence : t > e => deliveries[t] + missing[t] = 0
    BY DEF LedgerInv, EveryNumberAccountedOnce
  <2> HIDE DEF e
  <2>2. QED
    BY <1>2, <2>1
<1>at. missing[e] = 0 /\ (e # MaxSequence => deliveries[e] = 0)
  BY DEF LedgerInv, EveryNumberAccountedOnce
<1>3. ledger' = RecordNew(ledger, s)
  BY DEF ObserveTick, Observed
<1>4. /\ WellFormed(ledger')
      /\ ledger' \in Ledger
      /\ ledger'.expected_sequence = SaturatingSucc(s)
      /\ s \in ledger'.seen_sequences
      /\ ledger'.seen_sequences \subseteq ledger.seen_sequences \cup {s}
  BY <1>1, <1>3, RecordNewWindow DEF LedgerInv, WellFormed
<1>5. deliveries' = [deliveries EXCEPT ![s] = 1]
  BY <1>1, <1>2 DEF ObserveTick, TypeOK
<1>6. \A t \in Sequence :
         missing'[t] = IF e <= t /\ t < s THEN missing[t] + 1 ELSE missing[t]
  BY <1>1, <1>2 DEF ObserveTick, GapBefore, InRange, NoGap, Sequence
<1>7. TypeOK'
  <2>1. missing' \in [Sequence -> Nat]
    BY <1>2 DEF ObserveTick, TypeOK
  <2>2. deliveries' \in [Sequence -> Nat]
    BY <1>2, <1>5 DEF TypeOK
  <2>3. QED
    BY <1>4, <2>1, <2>2 DEF TypeOK
<1>8. /\ deliveries'[s] = 1
      /\ \A t \in Sequence : t # s => deliveries'[t] = deliveries[t]
  BY <1>2, <1>5 DEF TypeOK
<1> DEFINE x == SaturatingSucc(s)
<1>9. /\ x \in Sequence
      /\ s < MaxSequence => x = s + 1
      /\ s = MaxSequence => x = s
      /\ s \in Nat /\ s <= MaxSequence
  BY SaturatingSuccFacts
<1>10. /\ EveryNumberAccountedOnce'
       /\ \/ deliveries'[x] = 0
          \/ x = MaxSequence /\ s = MaxSequence
  <2> HIDE DEF e, x
  <2>1. ASSUME NEW t \in Sequence, t < x
        PROVE  deliveries'[t] + missing'[t] = 1
    <3>1. t <= s /\ t \in Nat /\ e \in Nat
      BY <2>1, <1>2, <1>9 DEF Sequence
    <3>2. CASE t = s
      BY <3>2, <1>1, <1>6, <1>8, <1>9
    <3>3. CASE t < e
      BY <3>1, <3>3, <1>1, <1>6, <1>8, <1>9, <1>below
    <3>4. CASE e <= t /\ t < s
      <4>1. deliveries[t] = 0 /\ missing[t] = 0
        <5>1. CASE t = e
          BY <3>1, <3>4, <5>1, <1>9, <1>at
        <5>2. CASE t > e
          BY <5>2, <1>above
        <5>3. QED
          BY <3>1, <3>4, <5>1, <5>2
      <4>2. missing'[t] = 1 /\ deliveries'[t] = 0
        BY <3>1, <3>4, <4>1, <1>6, <1>8, <1>9
      <4>3. QED
        BY <4>2
    <3>5. QED
      BY <3>1, <3>2, <3>3, <3>4, <1>9
  <2>2. ASSUME NEW t \in Sequence, t > x
        PROVE  deliveries'[t] = 0 /\ missing'[t] = 0
    <3>1. t > s /\ t > e /\ t \in Nat /\ e \in Nat
      BY <2>2, <1>1, <1>2, <1>9 DEF Sequence
    <3>2. QED
      BY <3>1, <1>6, <1>8, <1>9, <1>above
  <2>3. missing'[x] = 0
    <3>1. CASE s = MaxSequence
      BY <3>1, <1>1, <1>6, <1>9
    <3>2. CASE s < MaxSequence
      <4>1. x > e /\ x > s /\ e \in Nat
        BY <3>2, <1>1, <1>2, <1>9 DEF Sequence
      <4>2. QED
        BY <4>1, <1>6, <1>9, <1>above
    <3>3. QED
      BY <3>1, <3>2, <1>9
  <2>4. \/ deliveries'[x] = 0
        \/ x = MaxSequence /\ s = MaxSequence
    <3>1. CASE s < MaxSequence
      <4>1. x > e /\ x # s
        BY <3>1, <1>1, <1>2, <1>9 DEF Sequence
      <4>2. QED
        BY <4>1, <1>8, <1>9, <1>above
    <3>2. QED
      BY <3>1, <1>9
  <2>5. ledger'.expected_sequence = x
    BY <1>4 DEF x
  <2>6. \A t \in Sequence : t > x => deliveries'[t] + missing'[t] = 0
    BY <2>2
  <2>7. QED
    BY <2>1, <2>3, <2>4, <2>5, <2>6 DEF EveryNumberAccountedOnce
<1>11. \A t \in ledger'.seen_sequences : deliveries'[t] = 1
  BY <1>2, <1>4, <1>8
<1>12. \/ deliveries'[x] = 0
       \/ /\ x = MaxSequence
          /\ MaxSequence \in ledger'.seen_sequences
          /\ deliveries'[MaxSequence] = 1
  BY <1>4, <1>8, <1>10
<1>13. QED
  BY <1>4, <1>7, <1>10, <1>11, <1>12 DEF LedgerInv

-----------------------------------------------------------------------------
\* The strengthened invariant is preserved by every step.
LEMMA LedgerInvNext == LedgerInv /\ [Next]_vars => LedgerInv'
<1> SUFFICES ASSUME LedgerInv, [Next]_vars PROVE LedgerInv'
  OBVIOUS
<1>1. CASE UNCHANGED vars
  BY <1>1 DEF vars, LedgerInv, TypeOK, EveryNumberAccountedOnce, WellFormed
<1>2. CASE ChangeSession
  <2>1. Init'
    BY <1>2 DEF ChangeSession, Init
  <2>2. QED
    BY <2>1, LedgerInvInit, PTL
<1>3. ASSUME NEW s \in Sequence, ObserveTick(s) PROVE LedgerInv'
  <2>1. CASE Classify(ledger, s) = "New"
    BY <1>3, <2>1, NewTickKeepsInv
  <2>2. CASE Classify(ledger, s) # "New"
    BY <1>1, <1>3, <2>2, RejectedTickChangesNothing DEF LedgerInv
  <2>3. QED
    BY <2>1, <2>2
<1>4. QED
  BY <1>1, <1>2, <1>3 DEF Next

LEMMA LedgerInvariant == Spec => []LedgerInv
  BY LedgerInvInit, LedgerInvNext, PTL DEF Spec

\* Types hold for every capacity and counter width.
THEOREM TypeCorrect == Spec => []TypeOK
<1>1. LedgerInv => TypeOK
  BY DEF LedgerInv
<1>2. QED
  BY LedgerInvariant, <1>1, PTL

\* The processed ticks and the reported gaps partition the numbers below
\* expected_sequence, in every session.
THEOREM Accounting == Spec => []EveryNumberAccountedOnce
<1>1. LedgerInv => EveryNumberAccountedOnce
  BY DEF LedgerInv
<1>2. QED
  BY LedgerInvariant, <1>1, PTL

\* No tick of a session is ever processed twice.
THEOREM AtMostOnce == Spec => []AcceptedAtMostOnce
<1>1. LedgerInv => AcceptedAtMostOnce
  <2> SUFFICES ASSUME LedgerInv, NEW s \in Sequence PROVE deliveries[s] <= 1
    BY DEF AcceptedAtMostOnce
  <2>1. /\ ledger.expected_sequence \in Sequence
        /\ deliveries[s] \in Nat /\ missing[s] \in Nat
    BY DEF LedgerInv, TypeOK, Ledger
  <2>2. CASE s = ledger.expected_sequence
    BY <2>1, <2>2 DEF LedgerInv
  <2>3. CASE s # ledger.expected_sequence
    BY <2>1, <2>3, MaxSequenceAssumption
       DEF LedgerInv, EveryNumberAccountedOnce, Sequence
  <2>4. QED
    BY <2>2, <2>3
<1>2. QED
  BY LedgerInvariant, <1>1, PTL

\* The hash set and the eviction queue agree and stay within the capacity.
THEOREM WindowBounded == Spec => []WindowConsistent
<1>1. LedgerInv => WindowConsistent
  BY DEF LedgerInv, WellFormed, Window, WindowConsistent
<1>2. QED
  BY LedgerInvariant, <1>1, PTL

\* DuplicateExact is only said of a tick that was processed in this session.
THEOREM DuplicatesDelivered == Spec => []DuplicatesWereDelivered
<1>1. LedgerInv => DuplicatesWereDelivered
  BY ClassifyFacts DEF LedgerInv, TypeOK, DuplicatesWereDelivered
<1>2. QED
  BY LedgerInvariant, <1>1, PTL

\* The ledger is correct in every session, for every capacity and counter width.
THEOREM LedgerIsCorrect == Spec => []LedgerCorrect
BY TypeCorrect, Accounting, AtMostOnce, WindowBounded, DuplicatesDelivered, PTL DEF LedgerCorrect

-----------------------------------------------------------------------------
(* The runtime's shutdown and its wake flag (Runtime), for any number of       *)
(* receivers and frames and every size of the channel and of a batch.          *)

Items == Frames \cup {Control}

LEMMA FrameIsNoControl ==
  ASSUME NEW f \in Frames
  PROVE  f # Control
<1>1. PICK r \in Receivers, k \in 1 .. MaxFrames : f = <<r, k>>
  BY DEF Frames
<1>2. Len(<<r, k>>) = 2 /\ Len(Control) = 1
  BY DEF Control
<1>3. QED
  BY <1>1, <1>2

-----------------------------------------------------------------------------
(* Types.                                                                     *)

CarriesFrame(place, kind) ==
  place = "persist" \/ (place \in {"check", "send"} /\ kind = "Frame")

\* The variables of the receiver threads: who submits a frame has read one.
ThreadTypes ==
  /\ at \in [Receivers -> {"listen", "read", "persist", "check", "send", "ack", "ended"}]
  /\ item \in [Receivers -> Kinds]
  /\ read \in [Receivers -> 0 .. MaxFrames]
  /\ \A r \in Receivers : CarriesFrame(at[r], item[r]) => read[r] >= 1

RuntimeTypeInv == RuntimeTypeOK /\ ThreadTypes /\ engine_channel \in Seq(Items)

LEMMA RuntimeTypeInit == RuntimeLimits /\ RuntimeInit => RuntimeTypeInv
<1> SUFFICES ASSUME RuntimeLimits, RuntimeInit PROVE RuntimeTypeInv
  OBVIOUS
<1>1. ThreadTypes
  BY DEF RuntimeLimits, RuntimeInit, ThreadTypes, CarriesFrame, Kinds
<1>2. engine_channel = << >> /\ engine_channel \in Seq(Items) /\ Len(engine_channel) <= ChannelCapacity
  BY DEF RuntimeLimits, RuntimeInit
<1>3. /\ running \in [Receivers -> BOOLEAN] /\ router \in {"serve", "ended"}
      /\ engine_batch \in 0 .. BatchMax /\ processed = {} /\ inTime = {}
  BY DEF RuntimeLimits, RuntimeInit
<1>4. /\ coordinator = "running" /\ routerRunning /\ workersRunning /\ ~pending
      /\ auto_deploy \in BOOLEAN /\ routerRunning \in BOOLEAN /\ workersRunning \in BOOLEAN
      /\ pending \in BOOLEAN /\ projected \in BOOLEAN /\ published \in BOOLEAN
      /\ worker = "test" /\ publisher = "test"
  BY DEF RuntimeInit
<1>5. \A i \in DOMAIN engine_channel : engine_channel[i] \in Frames \cup {Control}
  BY <1>2
<1>6. RuntimeTypeOK
  BY <1>1, <1>2, <1>3, <1>4, <1>5 DEF ThreadTypes, RuntimeTypeOK
<1>7. QED
  BY <1>1, <1>2, <1>6 DEF RuntimeTypeInv

LEMMA GotoKeepsThreadTypes ==
  ASSUME ThreadTypes, NEW r \in Receivers,
         NEW place \in {"listen", "read", "persist", "check", "send", "ack", "ended"},
         NEW kind \in Kinds, Goto(r, place, kind), UNCHANGED read,
         CarriesFrame(place, kind) => read[r] >= 1
  PROVE  ThreadTypes'
BY DEF ThreadTypes, Goto, CarriesFrame

LEMMA AfterSubmitKeepsThreadTypes ==
  ASSUME ThreadTypes, NEW r \in Receivers, NEW ok \in BOOLEAN, AfterSubmit(r, ok), UNCHANGED read
  PROVE  ThreadTypes'
<1>1. CASE item[r] = "Frame"
  <2>1. Goto(r, "ack", "Frame") \/ Goto(r, "check", "End")
    BY <1>1 DEF AfterSubmit
  <2>2. QED
    BY <2>1, GotoKeepsThreadTypes DEF Kinds, CarriesFrame
<1>2. CASE item[r] = "End"
  <2>1. Goto(r, "listen", "Progress")
    BY <1>2 DEF AfterSubmit
  <2>2. QED
    BY <2>1, GotoKeepsThreadTypes DEF Kinds, CarriesFrame
<1>3. CASE item[r] # "Frame" /\ item[r] # "End"
  <2>1. Goto(r, "read", "Progress")
    BY <1>3 DEF AfterSubmit
  <2>2. QED
    BY <2>1, GotoKeepsThreadTypes DEF Kinds, CarriesFrame
<1>4. QED
  BY <1>1, <1>2, <1>3

LEMMA ThreadKeepsThreadTypes ==
  ASSUME RuntimeLimits, ThreadTypes, NEW r \in Receivers, ReceiverProgress(r) \/ Peer(r)
  PROVE  ThreadTypes'
<1>1. CASE SubmitTest(r)
  <2>1. item[r] \in Kinds /\ (item[r] = "Frame" => read[r] >= 1)
    BY <1>1 DEF SubmitTest, ThreadTypes, CarriesFrame
  <2>2. CASE running[r]
    BY <1>1, <2>1, <2>2, GotoKeepsThreadTypes DEF SubmitTest, CarriesFrame
  <2>3. CASE ~running[r]
    BY <1>1, <2>3, AfterSubmitKeepsThreadTypes DEF SubmitTest
  <2>4. QED
    BY <2>2, <2>3
<1>2. CASE SubmitSend(r)
  <2>1. item[r] \in Kinds /\ (item[r] = "Frame" => read[r] >= 1)
    BY <1>2 DEF SubmitSend, ThreadTypes, CarriesFrame
  <2>2. (Goto(r, "check", item[r]) \/ AfterSubmit(r, TRUE) \/ AfterSubmit(r, FALSE)) /\ UNCHANGED read
    BY <1>2 DEF SubmitSend
  <2>3. CASE Goto(r, "check", item[r])
    <3>1. CarriesFrame("check", item[r]) => read[r] >= 1
      BY <2>1 DEF CarriesFrame
    <3>2. QED
      BY <2>1, <2>2, <2>3, <3>1, GotoKeepsThreadTypes
  <2>4. CASE AfterSubmit(r, TRUE) \/ AfterSubmit(r, FALSE)
    BY <2>2, <2>4, AfterSubmitKeepsThreadTypes
  <2>5. QED
    BY <2>2, <2>3, <2>4
<1>3. CASE PersistFrame(r)
  <2>1. read[r] >= 1
    BY <1>3 DEF PersistFrame, ThreadTypes, CarriesFrame
  <2>. QED
    BY <1>3, <2>1, GotoKeepsThreadTypes DEF PersistFrame, Kinds, CarriesFrame
<1>4. CASE SendAck(r)
  BY <1>4, GotoKeepsThreadTypes DEF SendAck, Kinds, CarriesFrame
<1>5. CASE ConnectionEnds(r)
  BY <1>5, GotoKeepsThreadTypes DEF ConnectionEnds, Kinds, CarriesFrame
<1>6. CASE ListenerEnds(r)
  BY <1>6, GotoKeepsThreadTypes DEF ListenerEnds, Kinds, CarriesFrame
<1>7. CASE AcceptConnection(r)
  BY <1>7, GotoKeepsThreadTypes DEF AcceptConnection, Kinds, CarriesFrame
<1>8. CASE ReadFrame(r)
  BY <1>8 DEF ReadFrame, Goto, ThreadTypes, Kinds, CarriesFrame, RuntimeLimits
<1>9. CASE ReadTimesOut(r)
  BY <1>9, GotoKeepsThreadTypes DEF ReadTimesOut, Kinds, CarriesFrame
<1>10. QED
  BY <1>1, <1>2, <1>3, <1>4, <1>5, <1>6, <1>7, <1>8, <1>9
     DEF ReceiverProgress, Peer, ReceiverQuits


\* What is sent is a frame that was read, or a control item.
LEMMA ReceiverKeepsTypes ==
  ASSUME RuntimeLimits, RuntimeTypeInv, NEW r \in Receivers, ReceiverProgress(r) \/ Peer(r)
  PROVE  RuntimeTypeInv'
<1>1. ThreadTypes'
  BY ThreadKeepsThreadTypes DEF RuntimeTypeInv
<1>2. /\ UNCHANGED <<coordinator, running, routerRunning, workersRunning, pending, auto_deploy,
                     router, worker, engine_batch, processed, publisher, projected, published>>
  BY DEF ReceiverProgress, Peer, stopVars, workerVars, publisherVars
<1>3. engine_channel' \in Seq(Items) /\ Len(engine_channel') <= ChannelCapacity /\ inTime' \subseteq Frames
  <2>1. CASE UNCHANGED <<engine_channel, inTime>>
    BY <2>1 DEF RuntimeTypeInv, RuntimeTypeOK
  <2>2. CASE SubmitSend(r) /\ ~UNCHANGED <<engine_channel, inTime>>
    <3>1. PICK it \in Items :
            /\ Len(engine_channel) < ChannelCapacity
            /\ it = IF item[r] = "Frame" THEN <<r, read[r]>> ELSE Control
            /\ engine_channel' = Append(engine_channel, it)
            /\ inTime' = IF it # Control /\ workersRunning THEN inTime \cup {it} ELSE inTime
      <4>1. item[r] = "Frame" => <<r, read[r]>> \in Items
        BY <2>2 DEF SubmitSend, RuntimeTypeInv, ThreadTypes, CarriesFrame, Items, Frames
      <4>2. QED
        BY <2>2, <4>1 DEF SubmitSend, ChannelAccepts, Items
    <3>2. engine_channel \in Seq(Items) /\ Len(engine_channel) \in Nat /\ inTime \subseteq Frames
      BY DEF RuntimeTypeInv, RuntimeTypeOK
    <3>3. engine_channel' \in Seq(Items) /\ Len(engine_channel') = Len(engine_channel) + 1
      BY <3>1, <3>2
    <3>4. inTime' \subseteq Frames
      BY <3>1, <3>2 DEF Items
    <3>5. QED
      BY <3>1, <3>2, <3>3, <3>4 DEF RuntimeLimits
  <2>3. QED
    BY <2>1, <2>2 DEF ReceiverProgress, Peer, SubmitTest
<1>4. QED
  BY <1>1, <1>2, <1>3 DEF RuntimeTypeInv, RuntimeTypeOK, ThreadTypes, Items

LEMMA WorkerKeepsTypes == RuntimeLimits /\ RuntimeTypeInv /\ WorkerStep => RuntimeTypeInv'
<1> SUFFICES ASSUME RuntimeLimits, RuntimeTypeInv, WorkerStep PROVE RuntimeTypeInv'
  OBVIOUS
<1>1. UNCHANGED <<coordinator, running, routerRunning, workersRunning, auto_deploy, at, item,
                  read, router, inTime, publisher>>
  BY DEF WorkerStep, stopVars, receiverVars
<1>2. ThreadTypes'
  BY <1>1 DEF RuntimeTypeInv, ThreadTypes
<1>3. CASE WorkerTests
  BY <1>1, <1>2, <1>3 DEF WorkerTests, LeaveIfEmpty, RuntimeTypeInv, RuntimeTypeOK
<1>4. CASE WorkerTakes
  <2>1. engine_channel # << >> /\ engine_channel' = Tail(engine_channel) /\ engine_channel \in Seq(Items)
    BY <1>4 DEF WorkerTakes, TakeItem, RuntimeTypeInv
  <2>2. engine_channel' \in Seq(Items) /\ Len(engine_channel') <= Len(engine_channel) /\ Head(engine_channel) \in Items
    BY <2>1
  <2>3. processed' \subseteq Frames
    BY <1>4, <2>2 DEF WorkerTakes, TakeItem, RuntimeTypeInv, RuntimeTypeOK, Items
  <2>4. engine_batch' \in 0 .. BatchMax /\ worker' = "batch" /\ UNCHANGED <<pending, projected, published>>
    BY <1>4 DEF WorkerTakes, RuntimeTypeInv, RuntimeTypeOK, RuntimeLimits
  <2>5. Len(engine_channel') <= ChannelCapacity /\ \A i \in DOMAIN engine_channel' : engine_channel'[i] \in Frames \cup {Control}
    BY <2>2 DEF RuntimeTypeInv, RuntimeTypeOK, Items, RuntimeLimits
  <2>6. QED
    BY <1>1, <1>2, <2>2, <2>3, <2>4, <2>5 DEF RuntimeTypeInv, RuntimeTypeOK
<1>5. CASE WorkerSignals
  <2>1. engine_batch' \in 0 .. BatchMax
    BY <1>5 DEF WorkerSignals, RuntimeLimits
  <2>2. QED
    BY ZenonT(30), <1>1, <1>2, <1>5, <2>1 DEF WorkerSignals, RuntimeTypeInv, RuntimeTypeOK
<1>6. QED
  BY <1>3, <1>4, <1>5 DEF WorkerStep

LEMMA RuntimeTypeNext == RuntimeLimits /\ RuntimeTypeInv /\ [RuntimeNext]_runtimeVars => RuntimeTypeInv'
<1> SUFFICES ASSUME RuntimeLimits, RuntimeTypeInv, [RuntimeNext]_runtimeVars PROVE RuntimeTypeInv'
  OBVIOUS
<1>1. CASE \E r \in Receivers : ReceiverProgress(r) \/ Peer(r)
  BY <1>1, ReceiverKeepsTypes
<1>2. CASE RouterProgress
  BY <1>2 DEF RouterProgress, RouterStep, stopVars, receiverVars, workerVars, publisherVars,
              RuntimeTypeInv, RuntimeTypeOK, ThreadTypes
<1>3. CASE WorkerStep
  BY <1>3, WorkerKeepsTypes
<1>4. CASE PublisherStep
  <2>1. UNCHANGED <<auto_deploy, stopVars, receiverVars, router, engine_channel, inTime, workerVars>>
    BY <1>4 DEF PublisherStep
  <2>2. /\ publisher' \in {"test", "project", "publish", "wait", "waiting", "ended"}
        /\ projected' \in BOOLEAN /\ published' \in BOOLEAN /\ pending' \in BOOLEAN
    BY <1>4 DEF PublisherStep, PublisherBuilds, PublisherWaits, PublisherWakes, RuntimeTypeInv, RuntimeTypeOK
  <2>3. QED
    BY <2>1, <2>2 DEF stopVars, receiverVars, workerVars, RuntimeTypeInv, RuntimeTypeOK, ThreadTypes
<1>5. CASE StopStep(StopRouter) \/ StopProgress
  <2>1. UNCHANGED <<auto_deploy, receiverVars, router, engine_channel, inTime, workerVars, publisherVars>>
    BY <1>5 DEF StopStep, StopProgress
  <2>2. /\ coordinator' \in {"running", "stop_receivers", "stop_workers", "wake", "join",
                             "finish_logger", "done"}
        /\ running' \in [Receivers -> BOOLEAN] /\ routerRunning' \in BOOLEAN
        /\ workersRunning' \in BOOLEAN /\ pending' \in BOOLEAN
    BY <1>5 DEF StopStep, StopProgress, StopRouter, StopReceiver, StopWorkers, JoinAndFinish,
                Advance, RuntimeTypeInv, RuntimeTypeOK
  <2>3. QED
    BY <2>1, <2>2 DEF receiverVars, workerVars, publisherVars, RuntimeTypeInv, RuntimeTypeOK, ThreadTypes
<1>6. CASE UNCHANGED runtimeVars
  BY <1>6 DEF runtimeVars, RuntimeTypeInv, RuntimeTypeOK, ThreadTypes
<1>7. QED
  BY <1>1, <1>2, <1>3, <1>4, <1>5, <1>6 DEF RuntimeNext

LEMMA RuntimeTypeInvariant == RuntimeLimits /\ RuntimeSpec => []RuntimeTypeInv
<1> SUFFICES ASSUME RuntimeLimits PROVE RuntimeSpec => []RuntimeTypeInv
  OBVIOUS
<1>1. RuntimeInit => RuntimeTypeInv
  BY RuntimeTypeInit
<1>2. RuntimeTypeInv /\ [RuntimeNext]_runtimeVars => RuntimeTypeInv'
  BY RuntimeTypeNext
<1>3. QED
  BY <1>1, <1>2, PTL DEF RuntimeSpec

-----------------------------------------------------------------------------
(* What is still true while the threads end, and while the publisher sleeps.  *)

\* A frame that was accepted in time is processed or still in the channel.
ChannelKeeps == \A f \in inTime : f \in processed \/ \E i \in DOMAIN engine_channel : engine_channel[i] = f

\* The worker decides to leave after the flag is cleared, when nothing accepted
\* before is left.
WorkerLeaves ==
  /\ worker \in {"test_empty", "leaving", "ended"} => ~workersRunning
  /\ worker \in {"leaving", "ended"} => inTime \subseteq processed

\* With the wake flag clear, what the publisher holds is what was signalled last.
WakeFlag ==
  ~pending => /\ publisher = "publish" => projected
              /\ publisher \in {"wait", "waiting"} => published

\* The router joins the connection threads, the coordinator the others.
ThreadsEnd ==
  /\ auto_deploy /\ router = "ended" => ConnectionThreadsEnded
  /\ coordinator \in {"finish_logger", "done"} => AllEnded

RuntimeInv == ChannelKeeps /\ WorkerLeaves /\ WakeFlag /\ ThreadsEnd

LEMMA RuntimeInvInit == RuntimeInit => RuntimeInv
BY DEF RuntimeInit, RuntimeInv, ChannelKeeps, WorkerLeaves, WakeFlag, ThreadsEnd, AllEnded

\* No thread starts again once it is waited for.
LEMMA ReceiverKeepsThreadsEnd ==
  ASSUME RuntimeTypeInv, ThreadsEnd, NEW r \in Receivers, ReceiverProgress(r) \/ Peer(r)
  PROVE  ThreadsEnd'
<1>1. UNCHANGED <<auto_deploy, coordinator, router, worker, publisher>>
  BY DEF ReceiverProgress, Peer, stopVars, workerVars, publisherVars
<1>2. \A q \in Receivers : q # r => at'[q] = at[q]
  BY DEF ReceiverProgress, Peer, SubmitTest, SubmitSend, PersistFrame, SendAck, ReceiverQuits,
         ListenerEnds, AcceptConnection, ReadFrame, ReadTimesOut, ConnectionEnds, AfterSubmit,
         Goto, RuntimeTypeInv, RuntimeTypeOK
<1>3. at[r] # "ended"
  BY DEF ReceiverProgress, Peer, SubmitTest, SubmitSend, PersistFrame, SendAck, ReceiverQuits,
         ListenerEnds, AcceptConnection, ReadFrame, ReadTimesOut, ConnectionEnds
<1>4. ~auto_deploy \/ at[r] # "listen" \/ router = "serve"
  BY DEF ReceiverProgress, Peer, SubmitTest, SubmitSend, PersistFrame, SendAck, ReceiverQuits,
         ListenerEnds, AcceptConnection, ReadFrame, ReadTimesOut, ConnectionEnds
<1>5. ~(auto_deploy /\ router = "ended") /\ coordinator \notin {"finish_logger", "done"}
  BY <1>3, <1>4 DEF ThreadsEnd, ConnectionThreadsEnded, AllEnded
<1>6. QED
  BY <1>1, <1>5 DEF ThreadsEnd

LEMMA ReceiverKeepsInv ==
  ASSUME RuntimeTypeInv, RuntimeInv, NEW r \in Receivers, ReceiverProgress(r) \/ Peer(r)
  PROVE  RuntimeInv'
<1>1. UNCHANGED <<workersRunning, pending, worker, processed, publisher, projected, published>>
  BY DEF ReceiverProgress, Peer, stopVars, workerVars, publisherVars
<1>2. \/ UNCHANGED <<engine_channel, inTime>>
      \/ \E it : /\ engine_channel' = Append(engine_channel, it)
                 /\ inTime' = IF it # Control /\ workersRunning THEN inTime \cup {it} ELSE inTime
  BY DEF ReceiverProgress, Peer, SubmitTest, SubmitSend
<1>3. ChannelKeeps'
  <2>1. CASE UNCHANGED <<engine_channel, inTime>>
    BY <1>1, <2>1 DEF RuntimeInv, ChannelKeeps
  <2>2. ASSUME NEW it, engine_channel' = Append(engine_channel, it), inTime' \in {inTime, inTime \cup {it}}
        PROVE  ChannelKeeps'
    <3>1. /\ Len(engine_channel) \in Nat /\ DOMAIN engine_channel = 1 .. Len(engine_channel)
          /\ DOMAIN engine_channel' = 1 .. Len(engine_channel) + 1
          /\ engine_channel'[Len(engine_channel) + 1] = it
          /\ \A i \in DOMAIN engine_channel : engine_channel'[i] = engine_channel[i]
      BY <2>2 DEF RuntimeTypeInv
    <3>2. ASSUME NEW f \in inTime'
          PROVE  f \in processed' \/ \E i \in DOMAIN engine_channel' : engine_channel'[i] = f
      <4>1. CASE f = it
        BY <3>1, <4>1
      <4>2. CASE f \in inTime
        BY <1>1, <3>1, <4>2 DEF RuntimeInv, ChannelKeeps
      <4>3. QED
        BY <2>2, <3>2, <4>1, <4>2
    <3>3. QED
      BY <3>2 DEF ChannelKeeps
  <2>3. QED
    BY <1>2, <2>1, <2>2
<1>4. WorkerLeaves'
  BY <1>1, <1>2 DEF RuntimeInv, WorkerLeaves
<1>5. WakeFlag'
  BY <1>1 DEF RuntimeInv, WakeFlag
<1>6. QED
  BY <1>3, <1>4, <1>5, ReceiverKeepsThreadsEnd DEF RuntimeInv

LEMMA WorkerKeepsInv ==
  ASSUME RuntimeTypeInv, RuntimeInv, WorkerStep
  PROVE  RuntimeInv'
<1>1. UNCHANGED <<coordinator, workersRunning, auto_deploy, at, router, inTime, publisher>>
  BY DEF WorkerStep, stopVars, receiverVars
<1>2. ThreadsEnd'
  <2>1. worker # "ended"
    BY DEF WorkerStep, WorkerTests, WorkerTakes, WorkerSignals
  <2>2. coordinator \notin {"finish_logger", "done"}
    BY <2>1 DEF RuntimeInv, ThreadsEnd, AllEnded
  <2>3. QED
    BY <1>1, <2>2 DEF RuntimeInv, ThreadsEnd, ConnectionThreadsEnded
<1>3. CASE WorkerTests
  <2>1. UNCHANGED <<engine_channel, processed, pending, projected, published>>
    BY <1>3 DEF WorkerTests
  <2>2. ChannelKeeps' /\ WakeFlag'
    BY <1>1, <2>1 DEF RuntimeInv, ChannelKeeps, WakeFlag
  <2>3. worker = "test_empty" /\ engine_channel = << >> => inTime \subseteq processed
    BY DEF RuntimeInv, ChannelKeeps
  <2>4. WorkerLeaves'
    BY <1>1, <1>3, <2>1, <2>3 DEF WorkerTests, LeaveIfEmpty, RuntimeInv, WorkerLeaves
  <2>5. QED
    BY <1>2, <2>2, <2>4 DEF RuntimeInv
<1>4. CASE WorkerTakes
  <2>1. /\ engine_channel # << >> /\ engine_channel \in Seq(Items) /\ engine_channel' = Tail(engine_channel)
        /\ processed' = processed \cup ({Head(engine_channel)} \ {Control})
        /\ worker' = "batch" /\ UNCHANGED <<pending, projected, published>>
    BY <1>4 DEF WorkerTakes, TakeItem, RuntimeTypeInv
  <2>2. ASSUME NEW f \in inTime, f \notin processed'
        PROVE  \E i \in DOMAIN engine_channel' : engine_channel'[i] = f
    <3>1. f # Control
      BY FrameIsNoControl DEF RuntimeTypeInv, RuntimeTypeOK
    <3>2. PICK i \in DOMAIN engine_channel : engine_channel[i] = f
      BY <2>1, <2>2 DEF RuntimeInv, ChannelKeeps
    <3>3. i # 1
      BY <2>1, <2>2, <3>1, <3>2
    <3>4. i - 1 \in DOMAIN engine_channel' /\ engine_channel'[i - 1] = f
      BY <2>1, <3>2, <3>3
    <3>5. QED
      BY <3>4
  <2>3. ChannelKeeps'
    BY <1>1, <2>2 DEF ChannelKeeps
  <2>4. QED
    BY <1>1, <1>2, <2>1, <2>3 DEF RuntimeInv, WorkerLeaves, WakeFlag
<1>5. CASE WorkerSignals
  BY <1>1, <1>2, <1>5 DEF WorkerSignals, RuntimeInv, ChannelKeeps, WorkerLeaves, WakeFlag
<1>6. QED
  BY <1>3, <1>4, <1>5 DEF WorkerStep

LEMMA PublisherKeepsInv ==
  ASSUME RuntimeInv, PublisherStep
  PROVE  RuntimeInv'
<1>1. UNCHANGED <<auto_deploy, coordinator, workersRunning, at, router, engine_channel, inTime,
                  worker, processed>>
  BY DEF PublisherStep, stopVars, receiverVars, workerVars
<1>2. ChannelKeeps' /\ WorkerLeaves'
  BY <1>1 DEF RuntimeInv, ChannelKeeps, WorkerLeaves
<1>3. publisher # "ended"
  BY DEF PublisherStep, PublisherBuilds, PublisherWaits, PublisherWakes
<1>4. ThreadsEnd'
  BY <1>1, <1>3 DEF RuntimeInv, ThreadsEnd, ConnectionThreadsEnded, AllEnded
<1>5. WakeFlag'
  BY DEF RuntimeInv, WakeFlag, PublisherStep, PublisherBuilds, PublisherWaits, PublisherWakes
<1>6. QED
  BY <1>2, <1>4, <1>5 DEF RuntimeInv

LEMMA RouterKeepsInv ==
  ASSUME RuntimeInv, RouterProgress
  PROVE  RuntimeInv'
<1>1. UNCHANGED <<auto_deploy, coordinator, workersRunning, at, engine_channel, inTime, worker,
                  processed, pending, publisher, projected, published>>
  BY DEF RouterProgress, stopVars, receiverVars, workerVars, publisherVars
<1>2. ChannelKeeps' /\ WorkerLeaves' /\ WakeFlag'
  BY <1>1 DEF RuntimeInv, ChannelKeeps, WorkerLeaves, WakeFlag
<1>3. ThreadsEnd'
  BY <1>1 DEF RuntimeInv, ThreadsEnd, ConnectionThreadsEnded, AllEnded, RouterProgress, RouterStep
<1>4. QED
  BY <1>2, <1>3 DEF RuntimeInv

LEMMA StopKeepsInv ==
  ASSUME RuntimeTypeInv, RuntimeInv, StopStep(StopRouter) \/ StopProgress
  PROVE  RuntimeInv'
<1>1. UNCHANGED <<auto_deploy, at, router, engine_channel, inTime, worker, processed, publisher,
                  projected, published>>
  BY DEF StopStep, StopProgress, receiverVars, workerVars, publisherVars
<1>2. /\ workersRunning' => workersRunning
      /\ pending => pending'
  BY DEF StopStep, StopProgress, StopRouter, StopReceiver, StopWorkers, JoinAndFinish
<1>3. coordinator' \in {"finish_logger", "done"} =>
        AllEnded \/ coordinator \in {"finish_logger", "done"}
  BY DEF StopStep, StopProgress, StopRouter, StopReceiver, StopWorkers, JoinAndFinish, Advance
<1>4. ChannelKeeps' /\ WorkerLeaves' /\ WakeFlag'
  BY <1>1, <1>2 DEF RuntimeInv, ChannelKeeps, WorkerLeaves, WakeFlag
<1>5. ThreadsEnd'
  BY <1>1, <1>3 DEF RuntimeInv, ThreadsEnd, ConnectionThreadsEnded, AllEnded
<1>6. QED
  BY <1>4, <1>5 DEF RuntimeInv

LEMMA RuntimeInvNext == RuntimeTypeInv /\ RuntimeInv /\ [RuntimeNext]_runtimeVars => RuntimeInv'
<1> SUFFICES ASSUME RuntimeTypeInv, RuntimeInv, [RuntimeNext]_runtimeVars PROVE RuntimeInv'
  OBVIOUS
<1>1. CASE UNCHANGED runtimeVars
  BY <1>1 DEF runtimeVars, RuntimeInv, ChannelKeeps, WorkerLeaves, WakeFlag, ThreadsEnd,
              ConnectionThreadsEnded, AllEnded
<1>2. QED
  BY <1>1, ReceiverKeepsInv, RouterKeepsInv, WorkerKeepsInv, PublisherKeepsInv, StopKeepsInv
     DEF RuntimeNext

LEMMA RuntimeInvariant == RuntimeLimits /\ RuntimeSpec => []RuntimeInv
BY RuntimeInvInit, RuntimeInvNext, RuntimeTypeInvariant, PTL DEF RuntimeSpec

\* The types of the runtime's variables; the channel never exceeds its capacity.
THEOREM RuntimeTypesAreCorrect == RuntimeLimits /\ RuntimeSpec => []RuntimeTypeOK
<1>1. RuntimeTypeInv => RuntimeTypeOK
  BY DEF RuntimeTypeInv
<1>2. QED
  BY <1>1, RuntimeTypeInvariant, PTL

\* A frame that a receiver got into the channel before shutdown cleared the
\* workers' flag is processed before the engine worker is gone.
THEOREM NothingLostBeforeStop == RuntimeLimits /\ RuntimeSpec => []LostOnlyAfterStop
<1>1. RuntimeInv => LostOnlyAfterStop
  BY DEF RuntimeInv, WorkerLeaves, LostOnlyAfterStop
<1>2. QED
  BY <1>1, RuntimeInvariant, PTL

\* No wakeup is lost: a publisher that sleeps has published what was signalled,
\* or the flag is set.
THEOREM NoLostWakeup == RuntimeLimits /\ RuntimeSpec => []SleeperIsCurrent
<1>1. RuntimeInv => SleeperIsCurrent
  BY DEF RuntimeInv, WakeFlag, SleeperIsCurrent
<1>2. QED
  BY <1>1, RuntimeInvariant, PTL

\* The raw log is finished only when no receiver or connection thread is left.
THEOREM LoggerEndsLast == RuntimeLimits /\ RuntimeSpec => []LoggerOutlivesThreads
<1>1. RuntimeInv => LoggerOutlivesThreads
  BY DEF RuntimeInv, ThreadsEnd, AllEnded, ConnectionThreadsEnded, LoggerOutlivesThreads
<1>2. QED
  BY <1>1, RuntimeInvariant, PTL

\* The runtime's threads: all of this together.
THEOREM RuntimeIsCorrect == RuntimeLimits /\ RuntimeSpec => []RuntimeCorrect
BY RuntimeTypesAreCorrect, NothingLostBeforeStop, NoLostWakeup, LoggerEndsLast, PTL
   DEF RuntimeCorrect

-----------------------------------------------------------------------------
(* The threads of a replay (ReplaySession), for every history and any number of *)
(* seeks.                                                                      *)

\* A subset of an interval that reaches down to the interval's start is an interval
\* from there, as long as it has elements.
LEMMA InitialSegment ==
  ASSUME NEW a \in Nat, NEW m \in Nat, NEW D \in SUBSET (a .. m),
         \A i \in D : \A j \in a .. i : j \in D
  PROVE  Cardinality(D) \in Nat /\ D = a .. a + Cardinality(D) - 1
<1> DEFINE Filled == {n \in Nat : a .. a + n - 1 \subseteq D}
<1>1. 0 \in Filled
  OBVIOUS
<1>2. \E n \in Nat : n \notin Filled
  <2>1. CASE a <= m
    <3>1. m - a + 2 \in Nat /\ m + 1 \in a .. a + (m - a + 2) - 1 /\ m + 1 \notin D
      BY <2>1
    <3> QED BY <3>1
  <2>2. CASE a > m
    <3>1. a \in a .. a + 1 - 1 /\ a \notin D
      BY <2>2
    <3> QED BY <3>1
  <2> QED BY <2>1, <2>2
<1>3. PICK n \in Nat : n \in Filled /\ n + 1 \notin Filled
  <2> HIDE DEF Filled
  <2> QED BY <1>1, <1>2, Induction
<1>4. a + n \notin D
  <2>1. a .. a + (n + 1) - 1 = (a .. a + n - 1) \cup {a + n}
    OBVIOUS
  <2> QED BY <1>3, <2>1
<1>5. D = a .. a + n - 1
  <2>1. ASSUME NEW i \in D PROVE i \in a .. a + n - 1
    <3>1. i \in a .. m /\ (i >= a + n => a + n \in a .. i)
      OBVIOUS
    <3> QED BY <1>4, <3>1
  <2> QED BY <1>3, <2>1
<1>6. Cardinality(a .. a + n - 1) = n
  <2>1. a \in Int /\ a + n - 1 \in Int
    OBVIOUS
  <2>2. Cardinality(a .. a + n - 1) = IF a > a + n - 1 THEN 0 ELSE (a + n - 1) - a + 1
    BY <2>1, FS_Interval
  <2> QED BY <2>2
<1> QED BY <1>5, <1>6

LEMMA TickFacts ==
  ASSUME ReplayLimits
  PROVE  /\ Len(Ticks) \in Nat /\ DOMAIN Ticks = 1 .. Len(Ticks)
         /\ \A i \in DOMAIN Ticks : Ticks[i].at \in Nat /\ Ticks[i].broker \in Sources
<1>1. Ticks \in Seq([broker : Sources, at : Nat])
  BY DEF ReplayLimits
<1>2. Len(Ticks) \in Nat /\ DOMAIN Ticks = 1 .. Len(Ticks)
  BY <1>1
<1>3. ASSUME NEW i \in DOMAIN Ticks
      PROVE  Ticks[i].at \in Nat /\ Ticks[i].broker \in Sources
  <2> DEFINE S == [broker : Sources, at : Nat]
  <2> HIDE DEF S
  <2>1. Ticks \in Seq(S)
    BY <1>1 DEF S
  <2>2. Ticks[i] \in S
    BY <2>1, <1>2, <1>3
  <2> QED BY <2>2 DEF S
<1> QED BY <1>2, <1>3

\* The ticks a pass of the pump takes are the next ones in the stream.
Due(c, limit, t) == {i \in Upto(t) : c <= i /\ i < c + limit}

LEMMA DueTicks ==
  ASSUME ReplayLimits, NEW c \in 1 .. Len(Ticks) + 1, NEW limit \in Nat, NEW t \in Nat,
         NEW due, due = Due(c, limit, t)
  PROVE  /\ Cardinality(due) \in Nat /\ due = c .. c + Cardinality(due) - 1
         /\ Cardinality(due) <= limit
         /\ c + Cardinality(due) \in 1 .. Len(Ticks) + 1
<1> USE DEF Due
<1>1. c \in Nat /\ Len(Ticks) \in Nat /\ due \subseteq c .. Len(Ticks)
  BY TickFacts DEF Upto
<1>2. \A i \in due : \A j \in c .. i : j \in due
  <2> SUFFICES ASSUME NEW i \in due, NEW j \in c .. i PROVE j \in due
    OBVIOUS
  <2>1. i \in DOMAIN Ticks /\ j \in DOMAIN Ticks /\ j <= i
    BY <1>1, TickFacts
  <2>2. Ticks[j].at <= Ticks[i].at /\ Ticks[i].at \in Nat /\ Ticks[j].at \in Nat
    BY <2>1, TickFacts DEF ReplayLimits
  <2>3. Ticks[j].at <= t /\ c <= j /\ j < c + limit
    BY <1>1, <2>2 DEF Upto
  <2> QED BY <2>1, <2>3 DEF Upto
<1>3. Cardinality(due) \in Nat /\ due = c .. c + Cardinality(due) - 1
  BY <1>1, <1>2, InitialSegment
<1>4. CASE Cardinality(due) = 0
  BY <1>1, <1>4, <1>3
<1>5. CASE Cardinality(due) > 0
  <2>1. c + Cardinality(due) - 1 \in due
    <3>1. \A k \in Nat : k > 0 => c + k - 1 \in c .. c + k - 1
      BY <1>1
    <3> QED BY <1>3, <1>5, <3>1
  <2>2. c + Cardinality(due) - 1 < c + limit /\ c + Cardinality(due) - 1 <= Len(Ticks)
    BY <2>1, <1>1
  <2> QED BY <1>1, <1>3, <2>2
<1> QED BY <1>3, <1>4, <1>5

\* The position of a seek is behind the ticks before its time, and behind no other.
LEMMA SoughtPosition ==
  ASSUME ReplayLimits, NEW t \in Nat
  PROVE  /\ Cardinality(Before(t)) + 1 \in 1 .. Len(Ticks) + 1
         /\ \A i \in DOMAIN Ticks : i < Cardinality(Before(t)) + 1 => i \in Upto(t)
<1>1. Len(Ticks) \in Nat /\ Before(t) \subseteq 1 .. Len(Ticks)
  BY TickFacts DEF Before
<1>2. \A i \in Before(t) : \A j \in 1 .. i : j \in Before(t)
  <2> SUFFICES ASSUME NEW i \in Before(t), NEW j \in 1 .. i PROVE j \in Before(t)
    OBVIOUS
  <2>1. i \in DOMAIN Ticks /\ j \in DOMAIN Ticks /\ j <= i
    BY <1>1, TickFacts
  <2>2. Ticks[j].at <= Ticks[i].at /\ Ticks[i].at \in Nat /\ Ticks[j].at \in Nat
    BY <2>1, TickFacts DEF ReplayLimits
  <2> QED BY <2>1, <2>2 DEF Before
<1>3. Cardinality(Before(t)) \in Nat /\ Before(t) = 1 .. 1 + Cardinality(Before(t)) - 1
  <2> 1 \in Nat
    OBVIOUS
  <2> QED BY <1>1, <1>2, InitialSegment
<1>4. \A i \in DOMAIN Ticks : i < Cardinality(Before(t)) + 1 => i \in Before(t)
  BY <1>3, TickFacts
<1>5. Before(t) \subseteq Upto(t)
  BY TickFacts DEF Before, Upto
<1>6. Cardinality(Before(t)) <= Len(Ticks)
  BY <1>1, <1>3
<1> QED BY <1>1, <1>3, <1>4, <1>5, <1>6

-----------------------------------------------------------------------------
(* What dispatch_replay_ticks leaves behind.                                   *)

\* The result of a buffer is what is reached with its last tick.
LEMMA DispatchReaches ==
  ASSUME NEW st, NEW n, NEW buf \in Seq(DOMAIN Ticks), NEW R, st \in R[0],
         \A k \in 1 .. Len(buf) : \A x \in R[k - 1] : DispatchTick(x, buf[k], n) \in R[k]
  PROVE  DispatchAll(st, buf, n) \in R[Len(buf)]
<1> DEFINE Equation(f, m) ==
             f = [k \in 0 .. m |-> IF k = 0 THEN st ELSE DispatchTick(f[k - 1], buf[k], n)]
           Solved == {m \in Nat : \E f : Equation(f, m)}
           Reached(f) == {m \in Nat : m <= Len(buf) => f[m] \in R[m]}
<1>1. Len(buf) \in Nat
  OBVIOUS
<1>2. Nat \subseteq Solved
  <2>1. 0 \in Solved
    <3>1. Equation([k \in 0 .. 0 |-> st], 0)
      OBVIOUS
    <3> QED BY <3>1
  <2>2. ASSUME NEW m \in Nat, m \in Solved PROVE m + 1 \in Solved
    <3>1. PICK f : Equation(f, m)
      BY <2>2
    <3> DEFINE g == [k \in 0 .. m + 1 |->
                       IF k = m + 1 THEN DispatchTick(f[m], buf[m + 1], n) ELSE f[k]]
    <3>2. \A k \in 0 .. m : f[k] = IF k = 0 THEN st ELSE DispatchTick(f[k - 1], buf[k], n)
      BY <3>1
    <3>3. ASSUME NEW k \in 0 .. m + 1
          PROVE  g[k] = IF k = 0 THEN st ELSE DispatchTick(g[k - 1], buf[k], n)
      <4>1. CASE k = m + 1
        <5>1. k # 0 /\ m \in 0 .. m + 1 /\ m # m + 1 /\ k - 1 = m
          BY <4>1
        <5>2. g[m] = f[m] /\ g[k] = DispatchTick(f[m], buf[m + 1], n)
          BY <4>1, <5>1
        <5> QED BY <4>1, <5>1, <5>2
      <4>2. CASE k # m + 1
        <5>1. k \in 0 .. m /\ (k # 0 => k - 1 \in 0 .. m + 1 /\ k - 1 # m + 1)
          BY <4>2
        <5>2. g[k] = f[k] /\ (k # 0 => g[k - 1] = f[k - 1])
          BY <4>2, <5>1
        <5> QED BY <3>2, <5>1, <5>2
      <4> QED BY <4>1, <4>2
    <3>4. g = [k \in 0 .. m + 1 |-> g[k]]
      OBVIOUS
    <3>5. Equation(g, m + 1)
      <4> HIDE DEF g
      <4> QED BY <3>3, <3>4
    <3> HIDE DEF g
    <3> QED BY <3>5
  <2> HIDE DEF Solved
  <2> QED BY <2>1, <2>2, Induction
<1>3. \E f : Equation(f, Len(buf))
  BY <1>1, <1>2
<1> DEFINE after == CHOOSE f : Equation(f, Len(buf))
<1>4. Equation(after, Len(buf))
  BY <1>3
<1>5. DispatchAll(st, buf, n) = after[Len(buf)]
  BY DEF DispatchAll
<1> HIDE DEF after
<1>6. Nat \subseteq Reached(after)
  <2>1. 0 \in Reached(after)
    BY <1>1, <1>4
  <2>2. ASSUME NEW m \in Nat, m \in Reached(after) PROVE m + 1 \in Reached(after)
    <3> SUFFICES ASSUME m + 1 <= Len(buf) PROVE after[m + 1] \in R[m + 1]
      OBVIOUS
    <3>1. m + 1 \in 1 .. Len(buf) /\ after[m] \in R[m] /\ (m + 1) - 1 = m
      BY <1>1, <2>2
    <3>2. after[m + 1] = DispatchTick(after[m], buf[m + 1], n)
      BY <1>1, <1>4, <3>1
    <3> QED BY <3>1, <3>2
  <2> DEFINE S == Reached(after)
  <2>3. 0 \in S /\ \A m \in Nat : m \in S => m + 1 \in S
    BY <2>1, <2>2
  <2> HIDE DEF S
  <2>4. Nat \subseteq S
    BY <2>3, Induction
  <2> QED BY <2>4 DEF S
<1> QED BY <1>1, <1>5, <1>6

EngineStates ==
  [ session  : [Sources -> 0 .. LastSession],
    expected : [Sources -> Nat],
    shown    : SUBSET DOMAIN Ticks ]
NextNumbers == [Sources -> Nat \cup {Unset}]

\* A tick the engine processes.
LEMMA TickDispatched ==
  ASSUME ReplayLimits, NEW n \in 1 .. LastSession, NEW i \in DOMAIN Ticks,
         NEW x \in [engine : EngineStates, next : NextNumbers],
         NEW y, y = DispatchTick(x, i, n)
  PROVE  /\ y \in [engine : EngineStates, next : NextNumbers]
         /\ \A b \in Sources : y.engine.session[b] \in {x.engine.session[b], n}
         /\ x.engine.shown \subseteq y.engine.shown
         /\ y.engine.shown \subseteq x.engine.shown \cup {i}
<1>1. i \in DOMAIN Ticks /\ Ticks[i].broker \in Sources /\ n \in 0 .. LastSession
  BY TickFacts DEF ReplayLimits
<1>2. x.engine \in EngineStates /\ x.next \in NextNumbers
  OBVIOUS
<1> DEFINE b == Ticks[i].broker
           s == IF x.next[b] = Unset THEN x.engine.expected[b] ELSE x.next[b]
<1>3. s \in Nat
  BY <1>1, <1>2 DEF EngineStates, NextNumbers
<1>4. y = [engine |-> Processed(x.engine, i, s, n), next |-> [x.next EXCEPT ![b] = s + 1]]
  BY DEF DispatchTick
<1> HIDE DEF s
<1>5. [x.next EXCEPT ![b] = s + 1] \in NextNumbers
  BY <1>1, <1>2, <1>3 DEF NextNumbers
<1>6. /\ Processed(x.engine, i, s, n) \in EngineStates
      /\ \A c \in Sources : Processed(x.engine, i, s, n).session[c] \in {x.engine.session[c], n}
      /\ x.engine.shown \subseteq Processed(x.engine, i, s, n).shown
      /\ Processed(x.engine, i, s, n).shown \subseteq x.engine.shown \cup {i}
  BY <1>1, <1>2, <1>3 DEF EngineStates, Processed
<1> QED BY <1>4, <1>5, <1>6

\* The pump's count of a broker, where it has one, is what the ledger expects.
CountsAgree(x, n) ==
  \A b \in Sources :
    x.next[b] = Unset \/ (x.engine.session[b] = n /\ x.engine.expected[b] = x.next[b])

\* Then the tick is not taken for a duplicate, and the counts agree again.
LEMMA TickShown ==
  ASSUME ReplayLimits, NEW n \in 1 .. LastSession, NEW i \in DOMAIN Ticks,
         NEW x \in [engine : EngineStates, next : NextNumbers], CountsAgree(x, n),
         NEW y, y = DispatchTick(x, i, n)
  PROVE  CountsAgree(y, n) /\ y.engine.shown = x.engine.shown \cup {i}
<1>1. i \in DOMAIN Ticks /\ Ticks[i].broker \in Sources
  BY TickFacts
<1>2. /\ x.engine.session \in [Sources -> 0 .. LastSession] /\ x.next \in NextNumbers
      /\ x.engine.expected \in [Sources -> Nat]
  BY DEF EngineStates
<1> DEFINE b == Ticks[i].broker
           s == IF x.next[b] = Unset THEN x.engine.expected[b] ELSE x.next[b]
           expected == IF x.engine.session[b] = n THEN x.engine.expected[b] ELSE 0
<1>3. s \in Nat /\ s >= expected
  BY <1>1, <1>2 DEF NextNumbers, CountsAgree
<1>4. y = [engine |-> Processed(x.engine, i, s, n), next |-> [x.next EXCEPT ![b] = s + 1]]
  BY DEF DispatchTick
<1> HIDE DEF s
<1>5. Processed(x.engine, i, s, n) =
        [ session  |-> [x.engine.session EXCEPT ![b] = n],
          expected |-> [x.engine.expected EXCEPT ![b] = s + 1],
          shown    |-> x.engine.shown \cup {i} ]
  BY <1>3 DEF Processed
<1>6. CountsAgree(y, n)
  BY <1>1, <1>2, <1>4, <1>5 DEF CountsAgree, NextNumbers
<1> QED BY <1>4, <1>5, <1>6

\* What a buffer does to the engine, whatever the counts are.
LEMMA BufferDispatched ==
  ASSUME ReplayLimits, NEW n \in 1 .. LastSession, NEW buf \in Seq(DOMAIN Ticks),
         NEW x \in [engine : EngineStates, next : NextNumbers],
         NEW y, y = DispatchAll(x, buf, n)
  PROVE  /\ y \in [engine : EngineStates, next : NextNumbers]
         /\ \A b \in Sources : y.engine.session[b] \in {x.engine.session[b], n}
         /\ x.engine.shown \subseteq y.engine.shown
         /\ y.engine.shown \subseteq x.engine.shown \cup {buf[k] : k \in DOMAIN buf}
<1> DEFINE States == [engine : EngineStates, next : NextNumbers]
           Fine(z) == /\ \A b \in Sources : z.engine.session[b] \in {x.engine.session[b], n}
                      /\ x.engine.shown \subseteq z.engine.shown
                      /\ z.engine.shown \subseteq x.engine.shown \cup {buf[k] : k \in DOMAIN buf}
           R == [k \in 0 .. Len(buf) |-> {z \in States : Fine(z)}]
<1>1. Len(buf) \in Nat /\ DOMAIN buf = 1 .. Len(buf)
  OBVIOUS
<1>2. x \in R[0]
  BY <1>1
<1>3. ASSUME NEW k \in 1 .. Len(buf), NEW z \in R[k - 1]
      PROVE  DispatchTick(z, buf[k], n) \in R[k]
  <2>1. z \in States /\ Fine(z) /\ buf[k] \in DOMAIN Ticks /\ k \in DOMAIN buf
    BY <1>1, <1>3
  <2> DEFINE w == DispatchTick(z, buf[k], n)
  <2> HIDE DEF w
  <2>2. /\ w \in States
        /\ \A b \in Sources : w.engine.session[b] \in {z.engine.session[b], n}
        /\ z.engine.shown \subseteq w.engine.shown
        /\ w.engine.shown \subseteq z.engine.shown \cup {buf[k]}
    <3> HIDE DEF Fine
    <3> QED BY <2>1, TickDispatched DEF w
  <2>3. Fine(w)
    BY <2>1, <2>2
  <2> QED BY <1>1, <2>2, <2>3 DEF w
<1>4. y \in R[Len(buf)]
  <2> HIDE DEF R
  <2> QED BY <1>2, <1>3, DispatchReaches
<1> QED BY <1>1, <1>4

\* Every tick of the buffer is processed when the counts agree.
LEMMA BufferShown ==
  ASSUME ReplayLimits, NEW n \in 1 .. LastSession, NEW buf \in Seq(DOMAIN Ticks),
         NEW x \in [engine : EngineStates, next : NextNumbers], CountsAgree(x, n),
         NEW y, y = DispatchAll(x, buf, n)
  PROVE  CountsAgree(y, n) /\ \A k \in DOMAIN buf : buf[k] \in y.engine.shown
<1> DEFINE States == [engine : EngineStates, next : NextNumbers]
           Fine(z, k) == CountsAgree(z, n) /\ \A j \in 1 .. k : buf[j] \in z.engine.shown
           R == [k \in 0 .. Len(buf) |-> {z \in States : Fine(z, k)}]
<1>1. Len(buf) \in Nat /\ DOMAIN buf = 1 .. Len(buf)
  OBVIOUS
<1>2. x \in R[0]
  BY <1>1
<1>3. ASSUME NEW k \in 1 .. Len(buf), NEW z \in R[k - 1]
      PROVE  DispatchTick(z, buf[k], n) \in R[k]
  <2>1. z \in States /\ Fine(z, k - 1) /\ buf[k] \in DOMAIN Ticks
    BY <1>1, <1>3
  <2> DEFINE w == DispatchTick(z, buf[k], n)
  <2> HIDE DEF w
  <2>2. w \in States
    <3> HIDE DEF Fine
    <3> QED BY <2>1, TickDispatched DEF w
  <2>3. CountsAgree(w, n) /\ w.engine.shown = z.engine.shown \cup {buf[k]}
    BY <2>1, TickShown DEF w
  <2>4. Fine(w, k)
    BY <2>1, <2>3
  <2> QED BY <1>1, <2>2, <2>4 DEF w
<1>4. y \in R[Len(buf)]
  <2> HIDE DEF R
  <2> QED BY <1>2, <1>3, DispatchReaches
<1> QED BY <1>1, <1>4

-----------------------------------------------------------------------------
(* Types.                                                                     *)

ClockType ==
  /\ clock \in [time : 0 .. MaxTime, elapsed : 0 .. MaxTime, playing : BOOLEAN]
  /\ Now(clock) <= MaxTime /\ horizon \in 0 .. MaxTime
  /\ arbiter \in [mt5_ms : 0 .. MaxTime, was_playing : BOOLEAN]

\* A seek is taken on only while the bound on sessions allows it.
WsType ==
  /\ ws \in { "offline", "ready", "sync", "seek", "bumped", "frozen", "reset", "rebuilt",
              "unlocked", "seeked", "timed", "ended" }
  /\ seek \in [target : 0 .. MaxTime, playing : BOOLEAN]
  /\ session_epoch \in 1 .. LastSession
  /\ ws = "seek" => session_epoch < LastSession

EngineType == tick_engine \in EngineStates /\ cursor \in 1 .. Len(Ticks) + 1

Places == {"test", "playing", "now", "pop", "recheck", "lock", "ended"}
Buffers == {buf \in Seq(DOMAIN Ticks) : Len(buf) <= MaxBatch}
Passes ==
  [ at : Places, session : 1 .. LastSession, playing : BOOLEAN, now : 0 .. MaxTime, buf : Buffers,
    limit : MinBatch .. MaxBatch, drained : Nat \cup {Unset}, next : NextNumbers, early : BOOLEAN ]

PumpType ==
  /\ pump \in Passes
  /\ replayStop \in {"no", "joining", "done"} /\ strayed \in BOOLEAN

ReplayTypeInv == ClockType /\ WsType /\ EngineType /\ PumpType

LEMMA ReplayTypeInit == ReplayLimits /\ ReplayInit => ReplayTypeInv
<1> SUFFICES ASSUME ReplayLimits, ReplayInit PROVE ReplayTypeInv
  OBVIOUS
<1> USE DEF ReplayInit, ReplayLimits
<1>1. ClockType
  BY DEF ClockType, NewClock, Now, NoTime
<1>2. WsType
  BY DEF WsType, NoMessage, NoTime
<1>3. EngineType
  BY TickFacts DEF EngineType, EngineStates, FreshEngine
<1>4. PumpType
  <2>1. << >> \in Buffers
    BY DEF Buffers
  <2>2. NoNumbers \in NextNumbers
    BY DEF NextNumbers, NoNumbers
  <2>3. pump \in Passes
    BY <2>1, <2>2 DEF Passes, Places
  <2> QED BY <2>3 DEF PumpType
<1> QED BY <1>1, <1>2, <1>3, <1>4 DEF ReplayTypeInv

\* The clock's functions keep the virtual time within what is known of it.
LEMMA ClockSteps ==
  ASSUME MaxTime \in Nat, NEW t \in 0 .. MaxTime, NEW p \in BOOLEAN, ClockType
  PROVE  /\ \A c \in {SetPlaying(clock, p), SetTime(clock, t), Sampled(clock),
                      SyncPhase(clock, t, SnapLimit)} :
              c \in [time : 0 .. MaxTime, elapsed : 0 .. MaxTime, playing : BOOLEAN] /\ Now(c) <= MaxTime
         /\ SetPlaying(clock, p).playing = p /\ Now(SetPlaying(clock, p)) <= Now(clock)
         /\ Now(SetTime(clock, t)) = t /\ SetTime(clock, t).playing = clock.playing
         /\ Now(Sampled(clock)) = Now(clock) /\ Sampled(clock).playing = clock.playing
<1> DEFINE Clocks == [time : 0 .. MaxTime, elapsed : 0 .. MaxTime, playing : BOOLEAN]
<1>1. /\ clock.time \in 0 .. MaxTime /\ clock.elapsed \in 0 .. MaxTime /\ clock.playing \in BOOLEAN
      /\ clock \in Clocks /\ clock.time + clock.elapsed \in 0 .. MaxTime
  BY DEF ClockType, Now
<1>0. 0 \in 0 .. MaxTime
  OBVIOUS
<1>2. /\ SetPlaying(clock, p) \in Clocks /\ Now(SetPlaying(clock, p)) <= Now(clock)
      /\ SetPlaying(clock, p).playing = p
  <2> DEFINE c == [clock EXCEPT !.playing = p, !.elapsed = 0]
  <2>1. c \in Clocks /\ c.time = clock.time /\ c.elapsed = 0 /\ c.playing = p
    BY <1>0, <1>1
  <2>2. SetPlaying(clock, p) = IF clock.playing = p THEN clock ELSE c
    BY DEF SetPlaying
  <2> HIDE DEF c, Clocks
  <2> QED BY <1>1, <2>1, <2>2 DEF Now
<1>3. /\ SetTime(clock, t) \in Clocks /\ Now(SetTime(clock, t)) = t
      /\ SetTime(clock, t).playing = clock.playing
  <2> DEFINE c == [clock EXCEPT !.time = t, !.elapsed = 0]
  <2>1. c \in Clocks /\ c.time = t /\ c.elapsed = 0 /\ c.playing = clock.playing
    BY <1>0, <1>1
  <2> HIDE DEF c, Clocks
  <2> QED BY <2>1 DEF Now, SetTime, c
<1>4. /\ Sampled(clock) \in Clocks /\ Now(Sampled(clock)) = Now(clock)
      /\ Sampled(clock).playing = clock.playing
  <2> DEFINE now == clock.time + clock.elapsed
             c == [clock EXCEPT !.time = now, !.elapsed = 0]
  <2>0. now \in 0 .. MaxTime
    BY <1>1
  <2> HIDE DEF now
  <2>1. c \in Clocks /\ c.time = now /\ c.elapsed = 0 /\ c.playing = clock.playing
    BY <1>0, <1>1, <2>0
  <2>2. Sampled(clock) = c /\ Now(clock) = now
    BY DEF Sampled, Now, now
  <2> HIDE DEF c, Clocks
  <2> QED BY <2>0, <2>1, <2>2 DEF Now
<1>5. SyncPhase(clock, t, SnapLimit) \in {SetTime(clock, t), Sampled(clock)}
  BY DEF SyncPhase
<1>6. Now(clock) \in 0 .. MaxTime
  BY <1>1 DEF Now
<1>7. Now(SetPlaying(clock, p)) <= MaxTime
  BY <1>1, <1>2, <1>6 DEF Now
<1> HIDE DEF Clocks
<1>8. \A c \in {SetPlaying(clock, p), SetTime(clock, t), Sampled(clock)} :
        c \in Clocks /\ Now(c) <= MaxTime
  BY <1>2, <1>3, <1>4, <1>6, <1>7
<1> QED BY <1>2, <1>3, <1>4, <1>5, <1>8 DEF Clocks

LEMMA PassGoesOn ==
  ASSUME NEW p \in Passes, NEW place \in Places
  PROVE  /\ [p EXCEPT !.at = place] \in Passes
         /\ \A buf \in Buffers : [p EXCEPT !.buf = buf, !.at = place] \in Passes
BY DEF Passes

LEMMA PassEnds ==
  ASSUME ReplayLimits, NEW p \in Passes
  PROVE  /\ PassOver(p) \in Passes
         /\ PassOver(p).at = "test" /\ PassOver(p).session = p.session
         /\ PassOver(p).next = p.next /\ PassOver(p).early = FALSE
<1>1. << >> \in Buffers /\ NoTime \in 0 .. MaxTime /\ "test" \in Places
  BY DEF ReplayLimits, Buffers, NoTime, Places
<1> QED BY <1>1 DEF Passes, PassOver

\* A pass takes the next ticks of the stream, as many as are due and fit.
LEMMA PopTakesNext ==
  ASSUME ReplayLimits, ReplayTypeInv, PumpPops
  PROVE  \E k \in Nat :
           /\ k <= pump.limit
           /\ cursor + k \in 1 .. Len(Ticks) + 1
           /\ \A j \in 1 .. k : cursor + j - 1 \in Upto(pump.now)
           /\ cursor' = cursor + k
           /\ pump' = [pump EXCEPT !.buf = [j \in 1 .. k |-> cursor + j - 1], !.at = "recheck"]
<1> DEFINE due == Due(cursor, pump.limit, pump.now)
           k == Cardinality(due)
<1>1. pump.limit \in Nat /\ pump.now \in Nat
  BY DEF ReplayTypeInv, PumpType, Passes, ReplayLimits
<1>2. cursor \in 1 .. Len(Ticks) + 1 /\ cursor \in Nat
  BY TickFacts DEF ReplayTypeInv, EngineType
<1>3. /\ k \in Nat /\ due = cursor .. cursor + k - 1 /\ k <= pump.limit
      /\ cursor + k \in 1 .. Len(Ticks) + 1
  BY <1>1, <1>2, DueTicks
<1>4. /\ cursor' = cursor + k
      /\ pump' = [pump EXCEPT !.buf = [j \in 1 .. k |-> cursor + j - 1], !.at = "recheck"]
  BY DEF PumpPops, Due
<1>5. due \subseteq Upto(pump.now)
  BY DEF Due
<1> HIDE DEF due, k
<1>6. \A j \in 1 .. k : cursor + j - 1 \in Upto(pump.now)
  BY <1>2, <1>3, <1>5
<1> QED BY <1>3, <1>4, <1>6

LEMMA PumpKeepsTypes == ReplayLimits /\ ReplayTypeInv /\ PumpStep => ReplayTypeInv'
<1> SUFFICES ASSUME ReplayLimits, ReplayTypeInv, PumpStep PROVE ReplayTypeInv'
  OBVIOUS
<1> USE DEF PumpStep, sessionVars, stopOnly
<1>1. ClockType' /\ WsType'
  BY DEF ReplayTypeInv, ClockType, WsType, Now
<1>2. pump \in Passes
  BY DEF ReplayTypeInv, PumpType
<1>3. strayed \in BOOLEAN /\ replayStop \in {"no", "joining", "done"} /\ UNCHANGED replayStop
  BY DEF ReplayTypeInv, PumpType
<1>4. CASE PumpStarts
  <2> DEFINE q == IF session_epoch = pump.session THEN pump
                  ELSE [pump EXCEPT !.session = session_epoch, !.limit = MinBatch,
                                    !.drained = Unset, !.next = NoNumbers]
  <2>1. NoNumbers \in NextNumbers /\ session_epoch \in 1 .. LastSession /\ MinBatch \in MinBatch .. MaxBatch
    BY DEF ReplayTypeInv, WsType, NextNumbers, NoNumbers, ReplayLimits
  <2>2. q \in Passes
    BY <1>2, <2>1 DEF Passes
  <2>3. pump' = [q EXCEPT !.at = "playing", !.early = Rebuilding]
    BY <1>4 DEF PumpStarts
  <2> HIDE DEF q
  <2>4. pump' \in Passes
    <3> DEFINE early == Rebuilding
    <3>1. early \in BOOLEAN
      BY DEF Rebuilding
    <3>2. pump' = [q EXCEPT !.at = "playing", !.early = early]
      BY <2>3
    <3> HIDE DEF early
    <3> QED BY <2>2, <3>1, <3>2 DEF Passes, Places
  <2> QED BY <1>1, <1>3, <1>4, <2>4 DEF PumpStarts, ReplayTypeInv, EngineType, PumpType
<1>5. CASE PumpReadsClock
  <2>1. Now(clock) \in 0 .. MaxTime /\ clock.playing \in BOOLEAN
    BY DEF ReplayTypeInv, ClockType, Now, ReplayLimits
  <2>2. \/ pump' = [pump EXCEPT !.playing = clock.playing, !.at = "now"]
        \/ pump' = PassOver(pump)
        \/ pump' = [pump EXCEPT !.now = Now(clock), !.at = "pop"]
    BY <1>5 DEF PumpReadsClock
  <2>3. pump' \in Passes
    <3> DEFINE playing == clock.playing
               now == Now(clock)
    <3> HIDE DEF playing, now
    <3>1. [pump EXCEPT !.playing = playing, !.at = "now"] \in Passes
      BY <1>2, <2>1 DEF Passes, Places, playing
    <3>2. [pump EXCEPT !.now = now, !.at = "pop"] \in Passes
      BY <1>2, <2>1 DEF Passes, Places, now
    <3> QED BY <1>2, <2>2, <3>1, <3>2, PassEnds, Zenon DEF playing, now
  <2> QED BY <1>1, <1>3, <1>5, <2>3 DEF PumpReadsClock, ReplayTypeInv, EngineType, PumpType
<1>6. CASE PumpPops
  <2>1. PICK k \in Nat : /\ k <= pump.limit
                         /\ cursor + k \in 1 .. Len(Ticks) + 1
                         /\ \A j \in 1 .. k : cursor + j - 1 \in Upto(pump.now)
                         /\ cursor' = cursor + k
                         /\ pump' = [pump EXCEPT !.buf = [j \in 1 .. k |-> cursor + j - 1], !.at = "recheck"]
    BY <1>6, PopTakesNext
  <2>2. pump.limit \in Nat /\ pump.limit <= MaxBatch
    BY <1>2 DEF Passes, ReplayLimits
  <2> DEFINE taken == [j \in 1 .. k |-> cursor + j - 1]
  <2>3. \A j \in 1 .. k : cursor + j - 1 \in DOMAIN Ticks
    BY <2>1 DEF Upto
  <2>4. taken \in Buffers
    <3>1. taken \in [1 .. k -> DOMAIN Ticks]
      BY <2>3
    <3>2. taken \in Seq(DOMAIN Ticks) /\ Len(taken) = k
      BY <3>1
    <3> QED BY <2>1, <2>2, <3>2 DEF Buffers, ReplayLimits
  <2> HIDE DEF taken
  <2>5. pump' \in Passes
    BY <1>2, <2>1, <2>4, PassGoesOn DEF Places, taken
  <2>6. strayed' \in BOOLEAN
    BY <1>3, <1>6 DEF PumpPops
  <2> QED BY <1>1, <1>3, <1>6, <2>1, <2>5, <2>6 DEF PumpPops, ReplayTypeInv, EngineType, PumpType
<1>7. CASE PumpRechecks
  <2>1. pump' \in Passes
    BY <1>2, <1>7, PassGoesOn, PassEnds DEF PumpRechecks, Places, PumpGoes
  <2> QED BY <1>1, <1>3, <1>7, <2>1 DEF PumpRechecks, ReplayTypeInv, EngineType, PumpType
<1>8. CASE PumpDispatches
  <2> DEFINE limit == IF Full(pump) THEN IF 2 * pump.limit < MaxBatch THEN 2 * pump.limit ELSE MaxBatch
                      ELSE IF pump.limit \div 2 > MinBatch THEN pump.limit \div 2 ELSE MinBatch
             d == Dispatched(pump)
             drained == IF ~pump.playing /\ ~Full(pump) THEN pump.now ELSE pump.drained
  <2>1. limit \in MinBatch .. MaxBatch
    <3>1. pump.limit \in MinBatch .. MaxBatch /\ pump.limit \in Nat
      BY <1>2 DEF Passes, ReplayLimits
    <3>2. pump.limit \div 2 \in Int /\ pump.limit \div 2 <= pump.limit
      BY <3>1
    <3> QED BY <3>1, <3>2 DEF ReplayLimits
  <2>2. d \in [engine : EngineStates, next : NextNumbers]
    <3>1. [engine |-> tick_engine, next |-> pump.next] \in [engine : EngineStates, next : NextNumbers]
      BY <1>2 DEF Passes, ReplayTypeInv, EngineType
    <3>2. pump.session \in 1 .. LastSession /\ pump.buf \in Seq(DOMAIN Ticks)
      BY <1>2 DEF Passes, Buffers
    <3> QED BY <3>1, <3>2, BufferDispatched DEF Dispatched
  <2>3. drained \in Nat \cup {Unset}
    BY <1>2 DEF Passes, ReplayLimits
  <2>4. \/ /\ tick_engine' = d.engine
           /\ pump' = PassOver([pump EXCEPT !.next = d.next, !.limit = limit, !.drained = drained])
        \/ pump' = PassOver([pump EXCEPT !.limit = limit]) /\ UNCHANGED tick_engine
    BY <1>2, <1>8 DEF PumpDispatches, Passes
  <2> HIDE DEF limit, d, drained
  <2>5. /\ [pump EXCEPT !.next = d.next, !.limit = limit, !.drained = drained] \in Passes
        /\ [pump EXCEPT !.limit = limit] \in Passes
    BY <1>2, <2>1, <2>2, <2>3 DEF Passes
  <2>6. pump' \in Passes /\ tick_engine' \in EngineStates
    BY <2>2, <2>4, <2>5, PassEnds DEF ReplayTypeInv, EngineType
  <2> QED BY <1>1, <1>3, <1>8, <2>6 DEF PumpDispatches, ReplayTypeInv, EngineType, PumpType
<1>9. CASE PumpEnds
  <2>1. pump' \in Passes
    BY <1>2, <1>9, PassGoesOn DEF PumpEnds, Places, PumpGoes
  <2> QED BY <1>1, <1>3, <1>9, <2>1 DEF PumpEnds, ReplayTypeInv, EngineType, PumpType
<1> QED BY <1>4, <1>5, <1>6, <1>7, <1>8, <1>9

LEMMA ReplayTypeNext == ReplayLimits /\ ReplayTypeInv /\ [ReplayNext]_replayVars => ReplayTypeInv'
<1> SUFFICES ASSUME ReplayLimits, ReplayTypeInv, [ReplayNext]_replayVars PROVE ReplayTypeInv'
  OBVIOUS
<1>1. CASE TickReplaySends
  <2>1. EngineType' /\ PumpType'
    BY <1>1 DEF TickReplaySends, ReceiveStatus, ReceivePlayState, stopOnly, ReplayTypeInv,
                EngineType, PumpType
  <2>2. CASE \E p \in BOOLEAN : ReceivePlayState(p)
    BY <1>1, <2>1, <2>2, ClockSteps
       DEF ReceivePlayState, WsGoes, ReplayTypeInv, WsType, ClockType, ReplayLimits
  <2>3. ASSUME NEW t \in ReplayTimes, NEW p \in BOOLEAN, NEW explicit \in BOOLEAN,
               ReceiveStatus(t, p, explicit)
        PROVE  ReplayTypeInv'
    <3>1. ClockType'
      BY <2>3, ClockSteps DEF ReceiveStatus, ReplayTypeInv, ClockType, ReplayLimits, ReplayTimes
    <3>2. WsType'
      BY <2>3 DEF ReceiveStatus, WsGoes, ReplayTypeInv, WsType, ReplayLimits, ReplayTimes
    <3> QED BY <2>1, <3>1, <3>2 DEF ReplayTypeInv
  <2> QED BY <1>1, <2>2, <2>3 DEF TickReplaySends
<1>2. CASE WsStep
  <2> USE DEF WsGoes, stopOnly
  <2>0. PumpType'
    BY <1>2 DEF WsStep, ReplayTypeInv, PumpType, SyncToMessage, BumpEpoch, FreezeClock, ResetState,
                WarmUp, UnlockEngine, SeekStream, SetClock, WsThreadLoops
  <2>1. CASE SyncToMessage
    <3>1. seek.target \in 0 .. MaxTime /\ NoMessage \in [target : 0 .. MaxTime, playing : BOOLEAN]
      BY DEF ReplayTypeInv, WsType, NoMessage, NoTime, ReplayLimits
    <3>2. /\ clock' \in [time : 0 .. MaxTime, elapsed : 0 .. MaxTime, playing : BOOLEAN]
          /\ Now(clock') <= MaxTime
      BY <2>1, <3>1, ClockSteps DEF ReplayTypeInv, ReplayLimits, SyncToMessage
    <3>3. Now(clock') \in 0 .. MaxTime
      BY <3>2 DEF Now, ReplayLimits
    <3>4. ClockType'
      BY <2>1, <3>2, <3>3 DEF SyncToMessage, ReplayTypeInv, ClockType
    <3> QED BY <2>0, <2>1, <3>1, <3>4 DEF SyncToMessage, ReplayTypeInv, WsType, EngineType
  <2>2. CASE BumpEpoch
    BY <2>0, <2>2 DEF BumpEpoch, ReplayTypeInv, WsType, EngineType, ClockType, Now, ReplayLimits
  <2>3. CASE FreezeClock
    BY <2>0, <2>3, ClockSteps DEF FreezeClock, ReplayTypeInv, WsType, EngineType, ClockType, ReplayLimits
  <2>4. CASE ResetState
    <3>1. FreshEngine \in EngineStates
      BY DEF FreshEngine, EngineStates, ReplayLimits
    <3> QED BY <2>0, <2>4, <3>1 DEF ResetState, ReplayTypeInv, WsType, EngineType, ClockType, Now
  <2>5. CASE WarmUp
    <3> DEFINE warm == Upto(seek.target)
               count(b) == Cardinality({i \in warm : Ticks[i].broker = b})
    <3>1. ASSUME NEW b PROVE count(b) \in Nat
      <4>1. {i \in warm : Ticks[i].broker = b} \in SUBSET (1 .. Len(Ticks)) /\ Len(Ticks) \in Nat
        BY TickFacts DEF Upto
      <4>2. IsFiniteSet(1 .. Len(Ticks))
        BY <4>1, FS_Interval
      <4>3. IsFiniteSet({i \in warm : Ticks[i].broker = b})
        BY <4>1, <4>2, FS_Subset
      <4> QED BY <4>3, FS_CardinalityType
    <3>2. /\ tick_engine' = [ session  |-> [b \in Sources |-> IF count(b) = 0 THEN 0 ELSE session_epoch],
                         expected |-> [b \in Sources |-> count(b)], shown |-> warm ]
          /\ UNCHANGED <<clock, session_epoch, cursor, arbiter, seek, horizon, strayed>>
          /\ ws = "reset" /\ ws' = "rebuilt"
      BY <2>5 DEF WarmUp
    <3>3. warm \subseteq DOMAIN Ticks
      BY DEF Upto
    <3> HIDE DEF warm, count
    <3>4. tick_engine' \in EngineStates
      BY <3>1, <3>2, <3>3 DEF EngineStates, ReplayTypeInv, WsType, ReplayLimits
    <3> QED BY <2>0, <3>2, <3>4 DEF ReplayTypeInv, WsType, EngineType, ClockType, Now
  <2>6. CASE UnlockEngine
    BY <2>0, <2>6 DEF UnlockEngine, ReplayTypeInv, WsType, EngineType, ClockType, Now
  <2>7. CASE SeekStream
    <3>1. cursor' \in 1 .. Len(Ticks) + 1
      <4>1. seek.target \in Nat
        BY DEF ReplayTypeInv, WsType, ReplayLimits
      <4> QED BY <2>7, <4>1, SoughtPosition DEF SeekStream, SeekCursor
    <3> QED BY <2>0, <2>7, <3>1 DEF SeekStream, ReplayTypeInv, WsType, EngineType, ClockType, Now
  <2>8. CASE SetClock
    <3>1. /\ seek.target \in 0 .. MaxTime /\ seek.playing \in BOOLEAN
          /\ NoMessage \in [target : 0 .. MaxTime, playing : BOOLEAN]
      BY DEF ReplayTypeInv, WsType, NoMessage, NoTime, ReplayLimits
    <3>2. /\ clock' \in [time : 0 .. MaxTime, elapsed : 0 .. MaxTime, playing : BOOLEAN]
          /\ Now(clock') <= MaxTime
      BY <2>8, <3>1, ClockSteps DEF ReplayTypeInv, ReplayLimits, SetClock
    <3>3. ClockType'
      BY <2>8, <3>1, <3>2 DEF SetClock, ReplayTypeInv, ClockType
    <3> QED BY <2>0, <2>8, <3>1, <3>3 DEF SetClock, ReplayTypeInv, WsType, EngineType
  <2>9. CASE WsThreadLoops
    BY <2>0, <2>9 DEF WsThreadLoops, ReplayTypeInv, WsType, EngineType, ClockType, Now
  <2> QED BY <1>2, <2>1, <2>2, <2>3, <2>4, <2>5, <2>6, <2>7, <2>8, <2>9 DEF WsStep
<1>3. CASE ClockStep
  <2>1. WsType' /\ EngineType' /\ PumpType'
    BY <1>3 DEF ClockStep, stopOnly, ReplayTypeInv, WsType, EngineType, PumpType
  <2>2. CASE Elapse
    <3> DEFINE next == [clock EXCEPT !.elapsed = @ + 1]
    <3>1. /\ clock \in [time : 0 .. MaxTime, elapsed : 0 .. MaxTime, playing : BOOLEAN]
          /\ clock.time + clock.elapsed < MaxTime /\ horizon \in 0 .. MaxTime /\ MaxTime \in Nat
      BY <2>2 DEF Elapse, ReplayTypeInv, ClockType, Now, ReplayLimits
    <3>2. clock.elapsed + 1 \in 0 .. MaxTime
      BY <3>1
    <3>3. /\ next \in [time : 0 .. MaxTime, elapsed : 0 .. MaxTime, playing : BOOLEAN]
          /\ next.time = clock.time /\ next.elapsed = clock.elapsed + 1
      BY <3>1, <3>2
    <3> HIDE DEF next
    <3>4. Now(next) \in 0 .. MaxTime
      BY <3>1, <3>3 DEF Now
    <3>5. clock' = next /\ horizon' \in {Now(next), horizon} /\ UNCHANGED arbiter
      BY <1>3, <2>2 DEF ClockStep, Elapse, next
    <3>6. ClockType'
      BY <3>1, <3>3, <3>4, <3>5 DEF ClockType, ReplayTypeInv, Now
    <3> QED BY <2>1, <3>6 DEF ReplayTypeInv
  <2>3. CASE PublisherSamples
    <3>1. 0 \in 0 .. MaxTime /\ FALSE \in BOOLEAN
      BY DEF ReplayLimits
    <3>2. /\ clock' \in [time : 0 .. MaxTime, elapsed : 0 .. MaxTime, playing : BOOLEAN]
          /\ Now(clock') <= MaxTime
      BY <2>3, <3>1, ClockSteps DEF PublisherSamples, ReplayTypeInv, ReplayLimits
    <3> QED BY <1>3, <2>1, <2>3, <3>2 DEF ClockStep, PublisherSamples, ReplayTypeInv, ClockType
  <2> QED BY <1>3, <2>2, <2>3 DEF ClockStep
<1>4. CASE StopReplayStep
  BY <1>4 DEF StopReplayStep, StopReplay, sessionVars, ReplayTypeInv, ClockType, WsType, EngineType,
              PumpType, Now
<1>5. CASE UNCHANGED replayVars
  BY <1>5 DEF replayVars, ReplayTypeInv, ClockType, WsType, EngineType, PumpType, Now
<1> QED BY <1>1, <1>2, <1>3, <1>4, <1>5, PumpKeepsTypes DEF ReplayNext

LEMMA ReplayTypeInvariant == ReplayLimits /\ ReplaySpec => []ReplayTypeInv
<1> SUFFICES ASSUME ReplayLimits PROVE ReplaySpec => []ReplayTypeInv
  OBVIOUS
<1>1. ReplayInit => ReplayTypeInv
  BY ReplayTypeInit
<1>2. ReplayTypeInv /\ [ReplayNext]_replayVars => ReplayTypeInv'
  BY ReplayTypeNext
<1> QED BY <1>1, <1>2, PTL DEF ReplaySpec

-----------------------------------------------------------------------------
(* The invariant.  A pass of the pump that belongs to the current session and  *)
(* began before its rebuild was over is known as early, and strayed once it has *)
(* taken ticks.  Every other current pass has a time that was reached and ticks *)
(* that follow the ones in the engine.                                        *)

Passing == pump.at \in {"playing", "now", "pop", "recheck", "lock"}
HoldsTicks == pump.at \in {"recheck", "lock"}
CurrentPass == pump.session = session_epoch
Warm == ws \in {"rebuilt", "unlocked", "seeked", "timed"}

\* A pass during the rebuild of its own session.
EarlyPass ==
  /\ pump.session <= session_epoch
  /\ Passing /\ CurrentPass /\ Rebuilding => pump.early
  /\ HoldsTicks /\ CurrentPass /\ pump.early => strayed

\* The pump's numbers and the ledger's.
NumbersAgree ==
  /\ ~strayed /\ CurrentPass /\ Rebuilding => pump.next = NoNumbers
  /\ ~strayed /\ CurrentPass =>
       \A b \in Sources :
         pump.next[b] = Unset \/ (tick_engine.session[b] = session_epoch /\ tick_engine.expected[b] = pump.next[b])

\* What the rebuild has done so far.
RebuildOrder ==
  /\ Warm => Upto(seek.target) \subseteq tick_engine.shown
  /\ Warm /\ ~strayed => tick_engine.shown \subseteq Upto(seek.target)
  /\ ws \in {"seeked", "timed"} /\ ~strayed => cursor = Cardinality(Before(seek.target)) + 1
  /\ ws \in {"frozen", "reset"} \/ Warm => ~clock.playing
  /\ ws = "timed" => Now(clock) = seek.target

\* A tick the stream has handed out is in the engine or in the current pass's buffer.
TicksHandedOn ==
  ~Rebuilding /\ ~strayed =>
    \A i \in DOMAIN Ticks : i < cursor =>
      i \in tick_engine.shown \/ (HoldsTicks /\ CurrentPass /\ \E k \in DOMAIN pump.buf : pump.buf[k] = i)

\* The times a pass goes by have been reached.
TimesReached ==
  /\ ~Rebuilding => Now(clock) <= horizon
  /\ pump.at = "pop" /\ CurrentPass /\ ~pump.early => pump.now <= horizon
  /\ HoldsTicks /\ CurrentPass /\ ~strayed => \A k \in DOMAIN pump.buf : Ticks[pump.buf[k]].at <= horizon

ReplayInv ==
  /\ EarlyPass /\ NumbersAgree /\ RebuildOrder /\ TicksHandedOn /\ TimesReached
  /\ EngineHoldsOneSession /\ ShownWhenDue

LEMMA ReplayInvInit == ReplayLimits /\ ReplayInit => ReplayInv
<1> SUFFICES ASSUME ReplayLimits, ReplayInit PROVE ReplayInv
  OBVIOUS
<1> USE DEF ReplayInit
<1>1. EarlyPass /\ NumbersAgree
  BY DEF EarlyPass, Passing, HoldsTicks, NumbersAgree, NoNumbers, Rebuilding
<1>2. RebuildOrder
  BY DEF RebuildOrder, Warm
<1>3. TicksHandedOn /\ TimesReached
  BY TickFacts DEF TicksHandedOn, TimesReached, HoldsTicks, NewClock, Now, NoTime
<1>4. EngineHoldsOneSession /\ ShownWhenDue
  BY DEF EngineHoldsOneSession, ShownWhenDue, FreshEngine
<1> QED BY <1>1, <1>2, <1>3, <1>4 DEF ReplayInv

LEMMA TicksGoOn ==
  ASSUME ReplayLimits, ReplayTypeInv, ReplayInv, PumpPops, UNCHANGED <<sessionVars, stopOnly>>
  PROVE  ReplayInv'
<1>1. PICK k \in Nat : /\ k <= pump.limit
                       /\ cursor + k \in 1 .. Len(Ticks) + 1
                       /\ \A j \in 1 .. k : cursor + j - 1 \in Upto(pump.now)
                       /\ cursor' = cursor + k
                       /\ pump' = [pump EXCEPT !.buf = [j \in 1 .. k |-> cursor + j - 1], !.at = "recheck"]
  BY PopTakesNext
<1> DEFINE taken == [j \in 1 .. k |-> cursor + j - 1]
<1>2. /\ pump.at = "pop" /\ ws \notin {"rebuilt", "unlocked"} /\ strayed' = (strayed \/ Straddles)
      /\ UNCHANGED <<clock, session_epoch, ws, seek, horizon, tick_engine>>
  BY DEF PumpPops, StreamFree, sessionVars
<1>3. pump \in Passes
  BY DEF ReplayTypeInv, PumpType
<1>4. /\ pump'.at = "recheck" /\ pump'.session = pump.session /\ pump'.buf = taken
      /\ pump'.next = pump.next /\ pump'.early = pump.early
  BY <1>1, <1>3 DEF Passes
<1>5. strayed \in BOOLEAN /\ Rebuilding' = Rebuilding /\ cursor \in Nat
  BY <1>2, TickFacts DEF ReplayTypeInv, PumpType, Rebuilding, EngineType
<1>6. DOMAIN taken = 1 .. k /\ \A j \in 1 .. k : taken[j] = cursor + j - 1
  OBVIOUS
<1>7. ~strayed' => /\ ~strayed /\ ~pump.early
                   /\ CurrentPass \/ ws \in {"bumped", "frozen", "reset"}
  BY <1>2, <1>5 DEF Straddles, CurrentPass
<1>8. CurrentPass' = CurrentPass
  BY <1>2, <1>4 DEF CurrentPass
<1>9. Passing /\ (CurrentPass /\ Rebuilding => pump.early)
  BY <1>2 DEF Passing, ReplayInv, EarlyPass
<1>10. ~strayed' /\ CurrentPass => ~Rebuilding /\ pump.now <= horizon
  BY <1>2, <1>7, <1>9 DEF ReplayInv, TimesReached
<1>11. EarlyPass'
  BY <1>2, <1>4, <1>5, <1>8, <1>9 DEF EarlyPass, ReplayInv, Straddles, Passing, HoldsTicks
<1>12. NumbersAgree'
  BY <1>2, <1>4, <1>5, <1>7, <1>8 DEF NumbersAgree, ReplayInv
<1>13. RebuildOrder'
  BY <1>2, <1>5, <1>7, <1>9 DEF RebuildOrder, ReplayInv, Warm, Rebuilding
<1>14. TicksHandedOn'
  <2> SUFFICES ASSUME ~Rebuilding, ~strayed', NEW i \in DOMAIN Ticks, i < cursor + k
               PROVE  \/ i \in tick_engine.shown
                      \/ HoldsTicks' /\ CurrentPass' /\ \E j \in DOMAIN taken : taken[j] = i
    BY <1>1, <1>2, <1>4, <1>5 DEF TicksHandedOn
  <2>1. CurrentPass /\ ~strayed
    BY <1>7 DEF Rebuilding
  <2>2. i \in Nat
    BY TickFacts
  <2>3. CASE i < cursor
    BY <1>2, <2>1, <2>3 DEF ReplayInv, TicksHandedOn, HoldsTicks
  <2>4. CASE i >= cursor
    <3>1. i - cursor + 1 \in 1 .. k /\ cursor + (i - cursor + 1) - 1 = i
      BY <1>1, <1>5, <2>2, <2>4
    <3>2. i - cursor + 1 \in DOMAIN taken /\ taken[i - cursor + 1] = i
      BY <1>6, <3>1
    <3> QED BY <1>4, <1>8, <2>1, <3>2 DEF HoldsTicks
  <2> QED BY <1>5, <2>2, <2>3, <2>4
<1>15. TimesReached'
  <2>1. ASSUME ~strayed', CurrentPass, NEW j \in DOMAIN taken PROVE Ticks[taken[j]].at <= horizon
    <3>1. taken[j] \in Upto(pump.now)
      BY <1>1, <1>6
    <3>2. Ticks[taken[j]].at \in Nat /\ Ticks[taken[j]].at <= pump.now
      BY <3>1, TickFacts DEF Upto
    <3>3. pump.now \in Nat /\ horizon \in Nat /\ pump.now <= horizon
      BY <1>3, <1>10, <2>1 DEF Passes, ReplayTypeInv, ClockType, ReplayLimits
    <3> QED BY <3>2, <3>3
  <2> QED BY <1>2, <1>4, <1>5, <1>8, <2>1 DEF ReplayInv, TimesReached, HoldsTicks, Now
<1>16. EngineHoldsOneSession' /\ ShownWhenDue'
  BY <1>2, <1>5, <1>7 DEF ReplayInv, EngineHoldsOneSession, ShownWhenDue
<1> QED BY <1>11, <1>12, <1>13, <1>14, <1>15, <1>16 DEF ReplayInv

LEMMA TicksAreProcessed ==
  ASSUME ReplayLimits, ReplayTypeInv, ReplayInv, PumpDispatches, UNCHANGED <<sessionVars, stopOnly>>
  PROVE  ReplayInv'
<1>1. /\ pump.at = "lock" /\ ws \notin {"reset", "rebuilt"}
      /\ UNCHANGED <<clock, session_epoch, ws, seek, horizon, cursor, strayed>>
  BY DEF PumpDispatches, EngineFree, sessionVars
<1>2. pump \in Passes /\ tick_engine \in EngineStates
  BY DEF ReplayTypeInv, PumpType, EngineType
<1> DEFINE limit == IF Full(pump) THEN IF 2 * pump.limit < MaxBatch THEN 2 * pump.limit ELSE MaxBatch
                    ELSE IF pump.limit \div 2 > MinBatch THEN pump.limit \div 2 ELSE MinBatch
           drained == IF ~pump.playing /\ ~Full(pump) THEN pump.now ELSE pump.drained
           d == Dispatched(pump)
<1>3. \/ /\ CurrentPass /\ tick_engine' = d.engine
         /\ pump' = PassOver([pump EXCEPT !.next = d.next, !.limit = limit, !.drained = drained])
      \/ ~CurrentPass /\ pump' = PassOver([pump EXCEPT !.limit = limit]) /\ UNCHANGED tick_engine
  BY <1>2 DEF PumpDispatches, SessionCurrent, CurrentPass, Passes
<1> HIDE DEF limit, drained, d
<1>4. /\ pump'.at = "test" /\ pump'.session = pump.session /\ pump'.early = FALSE
      /\ CurrentPass => pump'.next = d.next
      /\ ~CurrentPass => pump'.next = pump.next
  BY <1>2, <1>3 DEF PassOver, Passes
<1>5. /\ d \in [engine : EngineStates, next : NextNumbers]
      /\ \A b \in Sources : d.engine.session[b] \in {tick_engine.session[b], pump.session}
      /\ tick_engine.shown \subseteq d.engine.shown
      /\ d.engine.shown \subseteq tick_engine.shown \cup {pump.buf[k] : k \in DOMAIN pump.buf}
      /\ CountsAgree([engine |-> tick_engine, next |-> pump.next], pump.session) =>
           CountsAgree(d, pump.session) /\ \A k \in DOMAIN pump.buf : pump.buf[k] \in d.engine.shown
  <2> DEFINE x == [engine |-> tick_engine, next |-> pump.next]
  <2>1. x \in [engine : EngineStates, next : NextNumbers]
    BY <1>2 DEF Passes
  <2>2. pump.session \in 1 .. LastSession /\ pump.buf \in Seq(DOMAIN Ticks)
    BY <1>2 DEF Passes, Buffers
  <2>3. d = DispatchAll(x, pump.buf, pump.session) /\ x.engine = tick_engine
    BY DEF d, Dispatched
  <2> HIDE DEF x
  <2>4. /\ d \in [engine : EngineStates, next : NextNumbers]
        /\ \A b \in Sources : d.engine.session[b] \in {x.engine.session[b], pump.session}
        /\ x.engine.shown \subseteq d.engine.shown
        /\ d.engine.shown \subseteq x.engine.shown \cup {pump.buf[k] : k \in DOMAIN pump.buf}
    BY <2>1, <2>2, <2>3, BufferDispatched
  <2>5. CountsAgree(x, pump.session) =>
          CountsAgree(d, pump.session) /\ \A k \in DOMAIN pump.buf : pump.buf[k] \in d.engine.shown
    BY <2>1, <2>2, <2>3, BufferShown
  <2> QED BY <2>3, <2>4, <2>5 DEF x
<1>6. CurrentPass' = CurrentPass /\ Rebuilding' = Rebuilding /\ ~Passing' /\ ~HoldsTicks'
  BY <1>1, <1>4 DEF CurrentPass, Rebuilding, Passing, HoldsTicks
<1>7. HoldsTicks /\ Passing /\ (CurrentPass /\ Rebuilding => strayed)
  BY <1>1 DEF HoldsTicks, Passing, ReplayInv, EarlyPass
<1>8. /\ tick_engine.shown \subseteq tick_engine'.shown
      /\ ~CurrentPass => tick_engine' = tick_engine
      /\ tick_engine'.shown \subseteq tick_engine.shown \cup {pump.buf[k] : k \in DOMAIN pump.buf}
  BY <1>3, <1>5
<1>9. ~strayed /\ CurrentPass => CountsAgree([engine |-> tick_engine, next |-> pump.next], pump.session)
  BY DEF ReplayInv, NumbersAgree, CountsAgree, CurrentPass
<1>10. EarlyPass'
  BY <1>1, <1>4, <1>6 DEF ReplayInv, EarlyPass
<1>11. NumbersAgree'
  BY <1>1, <1>3, <1>4, <1>5, <1>6, <1>7, <1>9 DEF ReplayInv, NumbersAgree, CountsAgree, CurrentPass
<1>12. RebuildOrder'
  BY <1>1, <1>6, <1>7, <1>8 DEF ReplayInv, RebuildOrder, Warm, Rebuilding
<1>13. TicksHandedOn'
  <2> SUFFICES ASSUME ~Rebuilding, ~strayed, NEW i \in DOMAIN Ticks, i < cursor
               PROVE  i \in tick_engine'.shown
    BY <1>1, <1>6 DEF TicksHandedOn
  <2>1. i \in tick_engine.shown \/ (CurrentPass /\ \E k \in DOMAIN pump.buf : pump.buf[k] = i)
    BY DEF ReplayInv, TicksHandedOn
  <2> QED BY <1>3, <1>5, <1>8, <1>9, <2>1
<1>14. TimesReached'
  BY <1>1, <1>4, <1>6 DEF ReplayInv, TimesReached
<1>15. EngineHoldsOneSession'
  BY <1>1, <1>3, <1>5 DEF ReplayInv, EngineHoldsOneSession, CurrentPass
<1>16. ShownWhenDue'
  <2> SUFFICES ASSUME ~Rebuilding, ~strayed, NEW i \in tick_engine'.shown PROVE Ticks[i].at <= horizon
    BY <1>1, <1>6 DEF ShownWhenDue
  <2>1. CASE i \in tick_engine.shown
    BY <2>1 DEF ReplayInv, ShownWhenDue
  <2>2. CASE CurrentPass /\ \E k \in DOMAIN pump.buf : pump.buf[k] = i
    BY <1>7, <2>2 DEF ReplayInv, TimesReached
  <2> QED BY <1>8, <2>1, <2>2
<1> QED BY <1>10, <1>11, <1>12, <1>13, <1>14, <1>15, <1>16 DEF ReplayInv

LEMMA PumpKeepsReplayInv == ReplayLimits /\ ReplayTypeInv /\ ReplayInv /\ PumpStep => ReplayInv'
<1> SUFFICES ASSUME ReplayLimits, ReplayTypeInv, ReplayInv, PumpStep PROVE ReplayInv'
  OBVIOUS
<1>1. pump \in Passes
  BY DEF ReplayTypeInv, PumpType
<1>2. UNCHANGED <<clock, session_epoch, ws, seek, horizon>> /\ UNCHANGED <<sessionVars, stopOnly>>
  BY DEF PumpStep, sessionVars
<1>3. Rebuilding' = Rebuilding
  BY <1>2 DEF Rebuilding
<1>4. ASSUME UNCHANGED <<cursor, tick_engine, strayed>>
      PROVE  RebuildOrder' /\ EngineHoldsOneSession' /\ ShownWhenDue'
  BY <1>2, <1>3, <1>4 DEF ReplayInv, RebuildOrder, EngineHoldsOneSession, ShownWhenDue, Warm
<1>5. CASE PumpStarts
  <2>1. /\ pump.at = "test" /\ pump'.at = "playing" /\ pump'.session = session_epoch
        /\ pump'.early = Rebuilding
        /\ IF CurrentPass THEN pump'.next = pump.next ELSE pump'.next = NoNumbers
        /\ UNCHANGED <<cursor, tick_engine, strayed>>
    <3> DEFINE early == Rebuilding
               q == IF session_epoch = pump.session THEN pump
                    ELSE [pump EXCEPT !.session = session_epoch, !.limit = MinBatch,
                                      !.drained = Unset, !.next = NoNumbers]
    <3>1. pump.at = "test" /\ UNCHANGED <<cursor, tick_engine, strayed>> /\ pump' = [q EXCEPT !.at = "playing", !.early = early]
      BY <1>5 DEF PumpStarts
    <3>2. /\ DOMAIN q = DOMAIN pump /\ q.session = session_epoch
          /\ IF CurrentPass THEN q.next = pump.next ELSE q.next = NoNumbers
      BY <1>1 DEF Passes, CurrentPass
    <3>3. "at" \in DOMAIN pump /\ "early" \in DOMAIN pump /\ "session" \in DOMAIN pump /\ "next" \in DOMAIN pump
      BY <1>1 DEF Passes
    <3> HIDE DEF early, q
    <3>4. pump'.at = "playing" /\ pump'.session = q.session /\ pump'.early = early /\ pump'.next = q.next
      BY <3>1, <3>2, <3>3
    <3> QED BY <3>1, <3>2, <3>4 DEF early
  <2>2. EarlyPass'
    BY <1>2, <1>3, <2>1 DEF EarlyPass, HoldsTicks, ReplayTypeInv, WsType, ReplayLimits
  <2>3. NumbersAgree'
    BY <1>2, <1>3, <2>1 DEF NumbersAgree, ReplayInv, CurrentPass, NoNumbers
  <2>4. TicksHandedOn' /\ TimesReached'
    BY <1>2, <1>3, <2>1 DEF ReplayInv, TicksHandedOn, TimesReached, HoldsTicks, Now
  <2> QED BY <1>4, <2>1, <2>2, <2>3, <2>4 DEF ReplayInv
<1>6. CASE PumpReadsClock
  <2>1. /\ pump.at \in {"playing", "now"} /\ pump'.at \in {"now", "pop", "test"}
        /\ pump'.session = pump.session /\ pump'.next = pump.next
        /\ pump'.at # "test" => pump'.early = pump.early
        /\ pump'.at = "pop" => pump'.now = Now(clock)
        /\ UNCHANGED <<cursor, tick_engine, strayed>>
    <3> DEFINE playing == clock.playing
               now == Now(clock)
    <3>1. \/ pump' = [pump EXCEPT !.playing = playing, !.at = "now"]
          \/ pump' = PassOver(pump)
          \/ pump' = [pump EXCEPT !.now = now, !.at = "pop"]
      BY <1>6 DEF PumpReadsClock
    <3>2. pump.at \in {"playing", "now"} /\ UNCHANGED <<cursor, tick_engine, strayed>>
      BY <1>6 DEF PumpReadsClock
    <3> HIDE DEF playing, now
    <3>3. CASE pump' = [pump EXCEPT !.playing = playing, !.at = "now"]
      BY <1>1, <3>2, <3>3 DEF Passes
    <3>4. CASE pump' = PassOver(pump)
      BY <1>1, <3>2, <3>4, PassEnds
    <3>5. CASE pump' = [pump EXCEPT !.now = now, !.at = "pop"]
      BY <1>1, <3>2, <3>5 DEF Passes, now
    <3> QED BY <3>1, <3>3, <3>4, <3>5
  <2>2. EarlyPass' /\ NumbersAgree'
    BY <1>2, <1>3, <2>1 DEF EarlyPass, NumbersAgree, ReplayInv, Passing, HoldsTicks, CurrentPass
  <2>3. TicksHandedOn' /\ TimesReached'
    BY <1>2, <1>3, <2>1
       DEF ReplayInv, EarlyPass, Passing, CurrentPass, TicksHandedOn, TimesReached, HoldsTicks, Now
  <2> QED BY <1>4, <2>1, <2>2, <2>3 DEF ReplayInv
<1>7. CASE PumpRechecks
  <2>1. /\ pump.at = "recheck" /\ pump'.session = pump.session /\ pump'.next = pump.next
        /\ UNCHANGED <<cursor, tick_engine, strayed>>
        /\ \/ ~CurrentPass /\ pump'.at = "test"
           \/ pump'.at = "lock" /\ pump'.early = pump.early /\ pump'.buf = pump.buf
    <3>1. /\ pump.at = "recheck" /\ UNCHANGED <<cursor, tick_engine, strayed>>
          /\ \/ ~CurrentPass /\ pump' = PassOver(pump)
             \/ pump' = [pump EXCEPT !.at = "lock"]
      BY <1>7 DEF PumpRechecks, PumpGoes, CurrentPass
    <3> QED BY <1>1, <3>1, PassEnds DEF Passes
  <2>2. EarlyPass' /\ NumbersAgree'
    BY <1>2, <1>3, <2>1 DEF EarlyPass, NumbersAgree, ReplayInv, Passing, HoldsTicks, CurrentPass
  <2>3. TicksHandedOn' /\ TimesReached'
    BY <1>2, <1>3, <2>1
       DEF ReplayInv, CurrentPass, TicksHandedOn, TimesReached, HoldsTicks, Now
  <2> QED BY <1>4, <2>1, <2>2, <2>3 DEF ReplayInv
<1>8. CASE PumpEnds
  <2>1. /\ pump.at = "test" /\ pump'.at = "ended" /\ pump'.session = pump.session
        /\ pump'.next = pump.next /\ UNCHANGED <<cursor, tick_engine, strayed>>
    BY <1>1, <1>8 DEF PumpEnds, PumpGoes, Passes
  <2>2. EarlyPass' /\ NumbersAgree'
    BY <1>2, <1>3, <2>1 DEF EarlyPass, NumbersAgree, ReplayInv, Passing, HoldsTicks, CurrentPass
  <2>3. TicksHandedOn' /\ TimesReached'
    BY <1>2, <1>3, <2>1 DEF ReplayInv, TicksHandedOn, TimesReached, HoldsTicks, Now
  <2> QED BY <1>4, <2>1, <2>2, <2>3 DEF ReplayInv
<1> QED BY <1>2, <1>5, <1>6, <1>7, <1>8, TicksGoOn, TicksAreProcessed DEF PumpStep

\* What a step of the other threads leaves of the pump's part of the invariant.
LEMMA PumpStandsStill ==
  ASSUME ReplayInv, UNCHANGED <<session_epoch, tick_engine, cursor, pump, strayed>>,
         Rebuilding' = Rebuilding
  PROVE  EarlyPass' /\ NumbersAgree' /\ TicksHandedOn'
BY DEF ReplayInv, EarlyPass, NumbersAgree, TicksHandedOn, Passing, HoldsTicks, CurrentPass

\* The virtual time shown only grows between seeks.
LEMMA TimesStayReached ==
  ASSUME ReplayLimits, ReplayTypeInv, ReplayInv, UNCHANGED <<session_epoch, tick_engine, pump, strayed>>,
         Rebuilding' = Rebuilding, horizon \in Nat, horizon' \in Nat, horizon' >= horizon,
         ~Rebuilding => Now(clock') <= horizon'
  PROVE  TimesReached' /\ ShownWhenDue'
<1>1. pump.now \in Nat
  BY DEF ReplayTypeInv, PumpType, Passes, ReplayLimits
<1>2. \A i \in DOMAIN Ticks : Ticks[i].at \in Nat /\ (Ticks[i].at <= horizon => Ticks[i].at <= horizon')
  BY TickFacts
<1>3. tick_engine.shown \subseteq DOMAIN Ticks /\ \A k \in DOMAIN pump.buf : pump.buf[k] \in DOMAIN Ticks
  BY DEF ReplayTypeInv, EngineType, EngineStates, PumpType, Passes, Buffers
<1>4. Now(clock)' = Now(clock')
  BY DEF Now
<1>5. TimesReached'
  BY <1>1, <1>2, <1>3, <1>4 DEF ReplayInv, TimesReached, HoldsTicks, CurrentPass
<1>6. ShownWhenDue'
  BY <1>2, <1>3 DEF ReplayInv, ShownWhenDue
<1> QED BY <1>5, <1>6

LEMMA MessagesKeepReplayInv ==
  ReplayLimits /\ ReplayTypeInv /\ ReplayInv /\ TickReplaySends => ReplayInv'
<1> SUFFICES ASSUME ReplayLimits, ReplayTypeInv, ReplayInv, TickReplaySends PROVE ReplayInv'
  OBVIOUS
<1>1. PICK p \in BOOLEAN : clock' = SetPlaying(clock, p)
  BY DEF TickReplaySends, ReceiveStatus, ReceivePlayState
<1>2. /\ UNCHANGED <<session_epoch, cursor, tick_engine, horizon, strayed, pump>>
      /\ ws = "ready" /\ ws' \in {"ready", "offline", "seek", "sync"}
  BY DEF TickReplaySends, ReceiveStatus, ReceivePlayState, WsGoes
<1>3. ~Rebuilding /\ ~Rebuilding' /\ Rebuilding' = Rebuilding
  BY <1>2 DEF Rebuilding
<1>4. Now(clock') <= horizon' /\ horizon \in Nat /\ horizon' >= horizon
  <2>1. Now(clock') <= Now(clock) /\ Now(clock') \in Int /\ Now(clock) \in Int /\ horizon \in Nat
    <3>1. 0 \in 0 .. MaxTime /\ MaxTime \in Nat /\ ClockType
      BY DEF ReplayLimits, ReplayTypeInv
    <3>2. /\ clock' \in [time : 0 .. MaxTime, elapsed : 0 .. MaxTime, playing : BOOLEAN]
          /\ Now(clock') <= Now(clock)
      BY <1>1, <3>1, ClockSteps
    <3> QED BY <3>1, <3>2 DEF ClockType, Now
  <2>2. Now(clock) <= horizon
    BY <1>3 DEF ReplayInv, TimesReached
  <2> QED BY <1>2, <2>1, <2>2
<1>5. TimesReached' /\ ShownWhenDue'
  BY <1>2, <1>3, <1>4, TimesStayReached
<1>6. RebuildOrder' /\ EngineHoldsOneSession'
  BY <1>2 DEF ReplayInv, RebuildOrder, Warm, EngineHoldsOneSession
<1> QED BY <1>2, <1>3, <1>5, <1>6, PumpStandsStill DEF ReplayInv

\* The steps of a seek.  Between two of them a current pass is an early one.
LEMMA RebuildKeepsReplayInv ==
  ASSUME ReplayLimits, ReplayTypeInv, ReplayInv, UNCHANGED <<pump, stopOnly>>,
         BumpEpoch \/ FreezeClock \/ ResetState \/ WarmUp \/ UnlockEngine \/ SeekStream
  PROVE  ReplayInv'
<1>1. TicksHandedOn' /\ ShownWhenDue'
  BY DEF BumpEpoch, FreezeClock, ResetState, WarmUp, UnlockEngine, SeekStream, WsGoes, Rebuilding,
         TicksHandedOn, ShownWhenDue
<1>2. CASE BumpEpoch
  <2>1. /\ ws' = "bumped" /\ session_epoch' = session_epoch + 1 /\ strayed' = FALSE
        /\ UNCHANGED <<clock, cursor, tick_engine, seek, horizon, pump>>
    BY <1>2 DEF BumpEpoch, WsGoes
  <2>2. ~CurrentPass' /\ pump'.session <= session_epoch'
    <3>1. pump.session \in Nat /\ session_epoch \in Nat /\ pump.session <= session_epoch
      BY DEF ReplayTypeInv, PumpType, Passes, WsType, ReplayLimits, ReplayInv, EarlyPass
    <3> QED BY <2>1, <3>1 DEF CurrentPass
  <2>3. EarlyPass' /\ NumbersAgree' /\ TimesReached'
    BY <2>1, <2>2 DEF EarlyPass, NumbersAgree, TimesReached, Rebuilding
  <2>4. RebuildOrder' /\ EngineHoldsOneSession'
    BY <2>1 DEF RebuildOrder, Warm, EngineHoldsOneSession
  <2> QED BY <1>1, <2>3, <2>4 DEF ReplayInv
<1>3. ASSUME ~BumpEpoch
      PROVE  /\ Rebuilding /\ Rebuilding' /\ UNCHANGED <<session_epoch, horizon, strayed, seek>>
             /\ EarlyPass' /\ TimesReached'
  <2>1. Rebuilding /\ Rebuilding' /\ UNCHANGED <<session_epoch, horizon, strayed, seek>>
    BY <1>3 DEF FreezeClock, ResetState, WarmUp, UnlockEngine, SeekStream, WsGoes, Rebuilding
  <2>2. EarlyPass'
    BY <2>1 DEF ReplayInv, EarlyPass, Passing, HoldsTicks, CurrentPass
  <2>3. TimesReached'
    BY <2>1 DEF ReplayInv, EarlyPass, Passing, HoldsTicks, CurrentPass, TimesReached
  <2> QED BY <2>1, <2>2, <2>3
<1>4. CASE FreezeClock
  <2>1. /\ ws = "bumped" /\ ws' = "frozen" /\ UNCHANGED <<cursor, tick_engine>>
        /\ clock' = SetPlaying(clock, FALSE)
    BY <1>4 DEF FreezeClock, WsGoes
  <2>2. ~clock'.playing
    <3>1. 0 \in 0 .. MaxTime /\ MaxTime \in Nat /\ ClockType
      BY DEF ReplayLimits, ReplayTypeInv
    <3>2. SetPlaying(clock, FALSE).playing = FALSE
      BY <3>1, ClockSteps
    <3> QED BY <2>1, <3>2
  <2>3. ~BumpEpoch
    BY <2>1 DEF BumpEpoch, WsGoes
  <2>4. NumbersAgree'
    BY <1>3, <2>1, <2>3 DEF ReplayInv, NumbersAgree, CurrentPass
  <2>5. RebuildOrder' /\ EngineHoldsOneSession'
    BY <1>3, <2>1, <2>2, <2>3 DEF RebuildOrder, Warm, EngineHoldsOneSession
  <2> QED BY <1>1, <1>3, <2>3, <2>4, <2>5 DEF ReplayInv
<1>5. CASE ResetState
  <2>1. /\ ws = "frozen" /\ ws' = "reset" /\ tick_engine' = FreshEngine /\ UNCHANGED <<cursor, clock>>
    BY <1>5 DEF ResetState, WsGoes
  <2>3. ~BumpEpoch
    BY <2>1 DEF BumpEpoch, WsGoes
  <2>4. NumbersAgree'
    BY <1>3, <2>1, <2>3 DEF ReplayInv, NumbersAgree, CurrentPass, NoNumbers
  <2>5. RebuildOrder' /\ EngineHoldsOneSession'
    BY <1>3, <2>1, <2>3 DEF ReplayInv, RebuildOrder, Warm, EngineHoldsOneSession, FreshEngine
  <2> QED BY <1>1, <1>3, <2>3, <2>4, <2>5 DEF ReplayInv
<1>6. CASE WarmUp
  <2>1. /\ ws = "reset" /\ ws' = "rebuilt" /\ UNCHANGED <<cursor, clock>>
        /\ tick_engine'.shown = Upto(seek.target)
        /\ \A b \in Sources : tick_engine'.session[b] \in {0, session_epoch}
    BY <1>6 DEF WarmUp, WsGoes
  <2>3. ~BumpEpoch
    BY <2>1 DEF BumpEpoch, WsGoes
  <2>4. NumbersAgree'
    BY <1>3, <2>1, <2>3 DEF ReplayInv, NumbersAgree, CurrentPass, NoNumbers
  <2>5. RebuildOrder'
    BY <1>3, <2>1, <2>3 DEF ReplayInv, RebuildOrder, Warm, Upto
  <2>6. EngineHoldsOneSession'
    BY <1>3, <2>1, <2>3 DEF EngineHoldsOneSession
  <2> QED BY <1>1, <1>3, <2>3, <2>4, <2>5, <2>6 DEF ReplayInv
<1>7. CASE UnlockEngine
  <2>1. /\ ws = "rebuilt" /\ ws' = "unlocked" /\ UNCHANGED <<cursor, tick_engine, clock>>
    BY <1>7 DEF UnlockEngine, WsGoes
  <2>3. ~BumpEpoch
    BY <2>1 DEF BumpEpoch, WsGoes
  <2>4. NumbersAgree'
    BY <1>3, <2>1, <2>3 DEF ReplayInv, NumbersAgree, CurrentPass
  <2>5. RebuildOrder' /\ EngineHoldsOneSession'
    BY <1>3, <2>1, <2>3 DEF ReplayInv, RebuildOrder, Warm, EngineHoldsOneSession
  <2> QED BY <1>1, <1>3, <2>3, <2>4, <2>5 DEF ReplayInv
<1>8. CASE SeekStream
  <2>1. /\ ws = "unlocked" /\ ws' = "seeked" /\ UNCHANGED <<tick_engine, clock>>
        /\ cursor' = Cardinality(Before(seek.target)) + 1
    BY <1>8 DEF SeekStream, SeekCursor, WsGoes
  <2>3. ~BumpEpoch
    BY <2>1 DEF BumpEpoch, WsGoes
  <2>4. NumbersAgree'
    BY <1>3, <2>1, <2>3 DEF ReplayInv, NumbersAgree, CurrentPass
  <2>5. RebuildOrder' /\ EngineHoldsOneSession'
    BY <1>3, <2>1, <2>3 DEF ReplayInv, RebuildOrder, Warm, EngineHoldsOneSession
  <2> QED BY <1>1, <1>3, <2>3, <2>4, <2>5 DEF ReplayInv
<1> QED BY <1>2, <1>4, <1>5, <1>6, <1>7, <1>8

\* The last steps of a seek: the clock takes the target's time and goes on.
LEMMA SetClockKeepsReplayInv ==
  ASSUME ReplayLimits, ReplayTypeInv, ReplayInv, UNCHANGED <<pump, stopOnly>>, SetClock
  PROVE  ReplayInv'
<1>1. /\ ws \in {"seeked", "timed"} /\ horizon' = seek.target
      /\ UNCHANGED <<session_epoch, cursor, tick_engine, strayed, pump>>
  BY DEF SetClock, WsGoes
<1>2. Rebuilding /\ seek.target \in 0 .. MaxTime /\ seek.playing \in BOOLEAN /\ seek.target \in Nat
  BY <1>1 DEF Rebuilding, ReplayTypeInv, WsType, ReplayLimits
<1>3. /\ Passing /\ CurrentPass => pump.early
      /\ ~(HoldsTicks /\ CurrentPass /\ ~strayed)
  BY <1>2 DEF ReplayInv, EarlyPass, Passing, HoldsTicks
<1>4. EarlyPass'
  BY <1>1, <1>2, <1>3 DEF ReplayInv, EarlyPass, Passing, HoldsTicks, CurrentPass
<1>5. NumbersAgree'
  BY <1>1, <1>2 DEF ReplayInv, NumbersAgree, CurrentPass
<1>6. EngineHoldsOneSession'
  BY <1>1 DEF ReplayInv, EngineHoldsOneSession
<1>7. CASE ws = "seeked"
  <2>1. ws' = "timed" /\ clock' = SetTime(clock, seek.target) /\ seek' = seek
    BY <1>7 DEF SetClock, WsGoes
  <2>2. Now(clock') = seek.target /\ clock'.playing = clock.playing
    BY <1>2, <2>1, ClockSteps DEF ReplayTypeInv, ReplayLimits
  <2>3. Rebuilding' /\ Now(clock)' = Now(clock')
    BY <2>1 DEF Rebuilding, Now
  <2>4. RebuildOrder'
    BY <1>1, <1>7, <2>1, <2>2, <2>3 DEF ReplayInv, RebuildOrder, Warm
  <2>5. TicksHandedOn' /\ TimesReached' /\ ShownWhenDue'
    BY <1>1, <1>3, <2>3 DEF TicksHandedOn, TimesReached, ShownWhenDue, HoldsTicks, CurrentPass, Passing
  <2> QED BY <1>4, <1>5, <1>6, <2>4, <2>5 DEF ReplayInv
<1>8. CASE ws = "timed"
  <2>1. ws' = "ready" /\ clock' = SetPlaying(clock, seek.playing)
    BY <1>8 DEF SetClock, WsGoes
  <2>2. Now(clock') <= seek.target
    BY <1>2, <1>8, <2>1, ClockSteps DEF ReplayTypeInv, ReplayLimits, ReplayInv, RebuildOrder
  <2>3. ~Rebuilding' /\ Now(clock)' = Now(clock')
    BY <2>1 DEF Rebuilding, Now
  <2>4. RebuildOrder'
    BY <2>1 DEF RebuildOrder, Warm
  <2>5. ~strayed => /\ tick_engine.shown = Upto(seek.target)
                    /\ cursor = Cardinality(Before(seek.target)) + 1
    BY <1>8 DEF ReplayInv, RebuildOrder, Warm
  <2>6. TicksHandedOn'
    BY <1>1, <1>2, <2>5, SoughtPosition DEF TicksHandedOn
  <2>7. ShownWhenDue'
    BY <1>1, <2>5 DEF ShownWhenDue, Upto
  <2>8. TimesReached'
    BY <1>1, <1>3, <2>2, <2>3 DEF TimesReached, HoldsTicks, CurrentPass, Passing
  <2> QED BY <1>4, <1>5, <1>6, <2>4, <2>6, <2>7, <2>8 DEF ReplayInv
<1> QED BY <1>1, <1>7, <1>8

LEMMA ReplayInvNext ==
  ReplayLimits /\ ReplayTypeInv /\ ReplayTypeInv' /\ ReplayInv /\ [ReplayNext]_replayVars => ReplayInv'
<1> SUFFICES ASSUME ReplayLimits, ReplayTypeInv, ReplayTypeInv', ReplayInv, [ReplayNext]_replayVars
             PROVE  ReplayInv'
  OBVIOUS
<1>0. horizon \in Nat /\ horizon' \in Nat /\ Now(clock) \in Int /\ Now(clock') \in Int
  BY DEF ReplayTypeInv, ClockType, ReplayLimits, Now
<1>1. CASE WsStep
  <2>1. CASE SyncToMessage
    <3>1. /\ ws = "sync" /\ ws' = "ready"
          /\ horizon' = IF Now(clock') > horizon THEN Now(clock') ELSE horizon
          /\ UNCHANGED <<session_epoch, cursor, tick_engine, strayed, pump>>
      BY <1>1, <2>1 DEF WsStep, SyncToMessage, WsGoes
    <3>2. ~Rebuilding /\ Rebuilding' = Rebuilding
      BY <3>1 DEF Rebuilding
    <3>3. horizon' >= horizon /\ Now(clock') <= horizon'
      BY <1>0, <3>1
    <3>4. RebuildOrder' /\ EngineHoldsOneSession'
      BY <3>1 DEF ReplayInv, RebuildOrder, Warm, EngineHoldsOneSession
    <3> QED BY <1>0, <3>1, <3>2, <3>3, <3>4, PumpStandsStill, TimesStayReached DEF ReplayInv
  <2>2. CASE WsThreadLoops
    <3>1. /\ ws = "offline" /\ ws' \in {"ready", "ended"}
          /\ UNCHANGED <<clock, session_epoch, cursor, tick_engine, horizon, strayed, pump>>
      BY <1>1, <2>2 DEF WsStep, WsThreadLoops, WsGoes
    <3>2. ~Rebuilding /\ Rebuilding' = Rebuilding
      BY <3>1 DEF Rebuilding
    <3>3. horizon' >= horizon /\ Now(clock') <= horizon'
      BY <1>0, <3>1, <3>2 DEF ReplayInv, TimesReached
    <3>4. RebuildOrder' /\ EngineHoldsOneSession'
      BY <3>1 DEF ReplayInv, RebuildOrder, Warm, EngineHoldsOneSession
    <3> QED BY <1>0, <3>1, <3>2, <3>3, <3>4, PumpStandsStill, TimesStayReached DEF ReplayInv
  <2> QED BY <1>1, <2>1, <2>2, RebuildKeepsReplayInv, SetClockKeepsReplayInv DEF WsStep
<1>2. CASE ClockStep
  <2>1. UNCHANGED <<session_epoch, cursor, tick_engine, ws, seek, pump, strayed>>
    BY <1>2 DEF ClockStep
  <2>2. Rebuilding' = Rebuilding /\ Now(clock)' = Now(clock')
    BY <2>1 DEF Rebuilding, Now
  <2>3. horizon' >= horizon /\ (~Rebuilding => Now(clock') <= horizon') /\ clock'.playing = clock.playing
        /\ (clock.playing \/ Now(clock') = Now(clock))
    <3>1. CASE Elapse
      <4>1. clock'.playing = clock.playing /\ clock.playing
        BY <3>1 DEF Elapse, ReplayTypeInv, ClockType
      <4>2. horizon' = IF Now(clock') > horizon THEN Now(clock') ELSE horizon
        BY <3>1 DEF Elapse
      <4>3. horizon' >= horizon /\ Now(clock') <= horizon'
        BY <1>0, <4>2
      <4> QED BY <4>1, <4>3
    <3>2. CASE PublisherSamples
      <4>1. 0 \in 0 .. MaxTime /\ MaxTime \in Nat /\ ClockType
        BY DEF ReplayLimits, ReplayTypeInv
      <4>2. Now(clock') = Now(clock) /\ clock'.playing = clock.playing /\ horizon' = horizon
        BY <3>2, <4>1, ClockSteps DEF PublisherSamples
      <4> QED BY <1>0, <4>2 DEF ReplayInv, TimesReached
    <3> QED BY <1>2, <3>1, <3>2 DEF ClockStep
  <2>4. RebuildOrder' /\ EngineHoldsOneSession'
    BY <2>1, <2>2, <2>3 DEF ReplayInv, RebuildOrder, Warm, EngineHoldsOneSession
  <2> QED BY <1>0, <2>1, <2>2, <2>3, <2>4, PumpStandsStill, TimesStayReached DEF ReplayInv
<1>3. CASE StopReplayStep \/ UNCHANGED replayVars
  <2>1. UNCHANGED <<clock, session_epoch, ws, seek, horizon, cursor, tick_engine, pump, strayed>>
    BY <1>3 DEF StopReplayStep, sessionVars, replayVars
  <2>2. Rebuilding' = Rebuilding /\ Now(clock)' = Now(clock)
    BY <2>1 DEF Rebuilding, Now
  <2>3. RebuildOrder' /\ EngineHoldsOneSession' /\ ShownWhenDue' /\ TimesReached'
    BY <2>1, <2>2 DEF ReplayInv, RebuildOrder, Warm, EngineHoldsOneSession, ShownWhenDue, TimesReached,
                      HoldsTicks, CurrentPass
  <2> QED BY <2>1, <2>2, <2>3, PumpStandsStill DEF ReplayInv
<1> QED BY <1>1, <1>2, <1>3, PumpKeepsReplayInv, MessagesKeepReplayInv DEF ReplayNext

LEMMA ReplayInvariant == ReplayLimits /\ ReplaySpec => []ReplayInv
<1> SUFFICES ASSUME ReplayLimits PROVE ReplaySpec => []ReplayInv
  OBVIOUS
<1>1. ReplayInit => ReplayInv
  BY ReplayInvInit
<1>2. ReplayTypeInv /\ ReplayTypeInv' /\ ReplayInv /\ [ReplayNext]_replayVars => ReplayInv'
  BY ReplayInvNext
<1>3. ReplaySpec => []ReplayTypeInv
  BY ReplayTypeInvariant
<1> QED BY <1>1, <1>2, <1>3, PTL DEF ReplaySpec

\* A replay is correct, whatever the history, the sizes of the batches and the order
\* in which the threads run and the messages come: the engine never mixes two
\* positions, every tick the stream handed out since the last seek is in it between
\* two passes, and none is shown before the virtual time has reached it, but in a
\* session whose rebuild a pass of the pump straddled.
THEOREM ReplayIsCorrect == ReplayLimits /\ ReplaySpec => []ReplayCorrect
<1>1. ReplayTypeInv => ReplayTypeOK
  <2> SUFFICES ASSUME ReplayTypeInv PROVE ReplayTypeOK
    OBVIOUS
  <2>1. pump \in Passes /\ tick_engine \in EngineStates
    BY DEF ReplayTypeInv, PumpType, EngineType
  <2>2. pump.at \in Places /\ pump.limit \in MinBatch .. MaxBatch /\ Len(pump.buf) <= MaxBatch
    BY <2>1 DEF Passes, Buffers
  <2>3. tick_engine.shown \subseteq DOMAIN Ticks /\ \A b \in Sources : tick_engine.session[b] \in 0 .. LastSession
    BY <2>1 DEF EngineStates
  <2> QED BY <2>2, <2>3 DEF ReplayTypeInv, ClockType, WsType, EngineType, PumpType, Places, ReplayTypeOK
<1>2. ReplayInv => EngineHoldsOneSession /\ NothingSkipped /\ ShownWhenDue
  BY DEF ReplayInv, TicksHandedOn, HoldsTicks, NothingSkipped
<1> QED BY <1>1, <1>2, ReplayTypeInvariant, ReplayInvariant, PTL DEF ReplayCorrect

-----------------------------------------------------------------------------
(* Deployment of the EA (Deployment).                                         *)

Deploying == deployer.at \in {"next", "write", "map", "write_map", "compile"}

\* The k-th source's turn is over.
Passed(k) ==
  \/ deployer.at \in {"map", "write_map", "compile"}
  \/ deployer.at \in {"next", "write"} /\ k < deployer.file

Versions == [SourceNames -> Absent .. MaxVersion]

DeployStateOK ==
  /\ files \in [SourceNames -> [content : Absent .. MaxVersion, written : Absent .. files_clock]]
  /\ ex5 \in [built_from : Versions, written : Absent .. files_clock]
  /\ connection_map \in [epoch : Absent .. start, complete : BOOLEAN]
  /\ files_clock \in Nat \ {0}
  /\ release \in [SourceNames -> 1 .. MaxVersion]
  /\ start \in 1 .. MaxEpoch
  /\ deployer \in [at : {"next", "write", "map", "write_map", "compile", "compiled",
                         "up_to_date", "failed"},
                   file : DOMAIN Order]
  /\ results \subseteq SourceNames \cup {"failed"}
  /\ ea_settings \in [epoch : {Absent} \cup 1 .. start, ready : BOOLEAN]

\* A source whose turn is over is the one to deploy, or the deployment has failed; a
\* source that was not written after the EA's output is the one it was built from;
\* nothing has been compiled at this tick of the clock while a deployment is under way;
\* the EA is not ahead of the map.
DeployInv ==
  /\ DeployStateOK
  /\ \A k \in DOMAIN Order : Passed(k) /\ "failed" \notin results
       => files[Order[k]].content = release[Order[k]]
  /\ ex5.written # Absent =>
       \A f \in SourceNames : files[f].written <= ex5.written
                              => ex5.built_from[f] = files[f].content
  /\ Deploying => ex5.written < files_clock
  /\ connection_map.epoch > Empty => ea_settings.epoch <= connection_map.epoch
  /\ ReportedEaIsCurrent

\* Every source has its turn.
LEMMA OrderCovers ==
  ASSUME IsFiniteSet(SourceNames), SourceNames # {}
  PROVE  /\ Order \in [1 .. Cardinality(SourceNames) -> SourceNames]
         /\ Len(Order) = Cardinality(SourceNames) /\ Cardinality(SourceNames) \in Nat \ {0}
         /\ \A f \in SourceNames : \E k \in DOMAIN Order : Order[k] = f
<1> DEFINE n == Cardinality(SourceNames)
<1>1. n \in Nat /\ ExistsBijection(1 .. n, SourceNames)
  BY FS_CardinalityType
<1>2. PICK g \in Bijection(1 .. n, SourceNames) : TRUE
  BY <1>1 DEF ExistsBijection
<1>3. g \in [1 .. n -> SourceNames] /\ IsInjective(g)
  BY <1>2 DEF Bijection, Injection, Surjection, IsInjective
<1>4. Order \in [1 .. n -> SourceNames] /\ IsInjective(Order)
  BY <1>3 DEF Order, SetToSeq
<1>5. Order \in Injection(1 .. n, SourceNames)
  BY <1>4 DEF Injection
<1>6. IsFiniteSet(1 .. n) /\ Cardinality(1 .. n) = n
  BY <1>1, FS_Interval
<1>7. Order \in Surjection(1 .. n, SourceNames)
  BY <1>5, <1>6, FS_Injection
<1>8. \A f \in SourceNames : \E k \in 1 .. n : Order[k] = f
  BY <1>7 DEF Surjection
<1>9. n # 0
  BY FS_EmptySet
<1>10. Len(Order) = n /\ DOMAIN Order = 1 .. n
  BY <1>1, <1>4
<1> QED
  BY <1>1, <1>4, <1>8, <1>9, <1>10

LEMMA DeployInitially ==
  ASSUME DeployLimits, DeployInit
  PROVE  DeployInv
<1> USE DEF DeployInit, Absent, Empty, DeployLimits
<1>1. DOMAIN Order = 1 .. Cardinality(SourceNames) /\ Cardinality(SourceNames) \in Nat \ {0}
  BY OrderCovers
<1>2. files \in [SourceNames -> [content : Absent .. MaxVersion, written : Absent .. files_clock]]
  BY DEF NoFile
<1>3. ex5 \in [built_from : Versions, written : Absent .. files_clock]
  BY DEF Versions
<1>4. deployer.at = "next" /\ deployer.file = 1
  OBVIOUS
<1>5. DeployStateOK
  BY <1>1, <1>2, <1>3 DEF DeployStateOK
<1>6. \A k \in DOMAIN Order : ~Passed(k)
  BY <1>1, <1>4 DEF Passed
<1> QED
  BY <1>4, <1>5, <1>6 DEF DeployInv, ReportedEaIsCurrent

\* The step to the next source.
LEMMA NextSource ==
  ASSUME DeployLimits, DeployStateOK, deployer.at \in {"next", "write"}, deployer' = AfterFile
  PROVE  /\ deployer' \in [at : {"next", "map"}, file : DOMAIN Order]
         /\ File \in SourceNames
         /\ \A k \in DOMAIN Order : Passed(k)' => Passed(k) \/ k = deployer.file
<1>1. DOMAIN Order = 1 .. Cardinality(SourceNames) /\ Cardinality(SourceNames) \in Nat \ {0}
      /\ Len(Order) = Cardinality(SourceNames) /\ \A k \in DOMAIN Order : Order[k] \in SourceNames
  BY OrderCovers DEF DeployLimits
<1>2. deployer.file \in DOMAIN Order
  BY DEF DeployStateOK
<1>3. deployer' \in [at : {"next", "map"}, file : DOMAIN Order]
  BY <1>1, <1>2 DEF AfterFile
<1>4. ASSUME NEW k \in DOMAIN Order, Passed(k)'
      PROVE  Passed(k) \/ k = deployer.file
  <2>1. CASE deployer.file = Len(Order)
    BY <1>1, <1>2, <2>1 DEF Passed
  <2>2. CASE deployer.file # Len(Order)
    <3>1. deployer'.at = "next" /\ deployer'.file = deployer.file + 1
      BY <2>2 DEF AfterFile
    <3> QED
      BY <1>1, <1>2, <1>4, <3>1 DEF Passed
  <2> QED
    BY <2>1, <2>2
<1> QED
  BY <1>1, <1>2, <1>3, <1>4 DEF File

LEMMA DeployStep ==
  ASSUME DeployLimits, DeployInv, [DeployNext]_deployVars
  PROVE  DeployInv'
<1> USE DEF Absent, Empty
<1>0. DeployStateOK /\ IsFiniteSet(SourceNames) /\ MaxVersion \in Nat \ {0} /\ MaxEpoch \in Nat \ {0}
  BY DEF DeployInv, DeployLimits
<1>1. CASE SkipIdentical
  <2>1. deployer' \in [at : {"next", "map"}, file : DOMAIN Order] /\ File \in SourceNames
        /\ \A k \in DOMAIN Order : Passed(k)' => Passed(k) \/ k = deployer.file
    BY <1>0, <1>1, NextSource DEF SkipIdentical
  <2>2. DeployStateOK'
    BY <1>0, <1>1, <2>1 DEF SkipIdentical, DeployStateOK
  <2> QED
    BY <1>1, <2>1, <2>2 DEF SkipIdentical, DeployInv, ReportedEaIsCurrent, Deploying, File
<1>2. CASE TruncateFile
  <2>1. File \in SourceNames
    BY <1>0, OrderCovers DEF File, DeployStateOK, DeployLimits
  <2>2. deployer'.at = "write" /\ deployer'.file = deployer.file
    BY <1>0, <1>2 DEF TruncateFile, DeployStateOK
  <2>3. DeployStateOK'
    BY <1>0, <1>2, <2>1 DEF TruncateFile, DeployStateOK
  <2>4. ASSUME NEW k \in DOMAIN Order, Passed(k)', "failed" \notin results
        PROVE  files'[Order[k]].content = release[Order[k]]
    <3>1. Passed(k)
      BY <1>2, <2>2, <2>4 DEF Passed, TruncateFile
    <3>2. files[Order[k]].content = release[Order[k]]
      BY <3>1, <2>4 DEF DeployInv
    <3> QED
      BY <1>0, <1>2, <2>1, <3>2 DEF TruncateFile, DeployStateOK
  <2>5. ASSUME NEW f \in SourceNames, ex5.written # Absent, files'[f].written <= ex5.written
        PROVE  ex5.built_from[f] = files'[f].content
    <3>1. ex5.written < files_clock
      BY <1>2 DEF TruncateFile, DeployInv, Deploying
    <3>2. f # File
      BY <1>0, <1>2, <2>1, <2>5, <3>1 DEF TruncateFile, DeployStateOK
    <3> QED
      BY <1>0, <1>2, <2>5, <3>2 DEF TruncateFile, DeployStateOK, DeployInv
  <2> QED
    BY <1>2, <2>2, <2>3, <2>4, <2>5 DEF TruncateFile, DeployInv, ReportedEaIsCurrent, Deploying
<1>3. CASE WriteFile
  <2>1. deployer' \in [at : {"next", "map"}, file : DOMAIN Order] /\ File \in SourceNames
        /\ \A k \in DOMAIN Order : Passed(k)' => Passed(k) \/ k = deployer.file
    BY <1>0, <1>3, NextSource DEF WriteFile
  <2>3. DeployStateOK'
    BY <1>0, <1>3, <2>1 DEF WriteFile, DeployStateOK
  <2>4. ASSUME NEW k \in DOMAIN Order, Passed(k)', "failed" \notin results'
        PROVE  files'[Order[k]].content = release[Order[k]]
    <3>1. CASE Order[k] = File
      BY <1>0, <1>3, <2>1, <3>1 DEF WriteFile, DeployStateOK
    <3>2. CASE Order[k] # File
      <4>1. Passed(k) /\ "failed" \notin results
        BY <1>3, <2>1, <2>4, <3>2 DEF File, WriteFile
      <4>2. files[Order[k]].content = release[Order[k]]
        BY <4>1 DEF DeployInv
      <4> QED
        BY <1>0, <1>3, <2>1, <3>2, <4>2 DEF WriteFile, DeployStateOK
    <3> QED
      BY <3>1, <3>2
  <2>5. ASSUME NEW f \in SourceNames, ex5.written # Absent, files'[f].written <= ex5.written
        PROVE  ex5.built_from[f] = files'[f].content
    <3>1. ex5.written < files_clock
      BY <1>3 DEF WriteFile, DeployInv, Deploying
    <3>2. f # File
      BY <1>0, <1>3, <2>1, <2>5, <3>1 DEF WriteFile, DeployStateOK
    <3> QED
      BY <1>0, <1>3, <2>5, <3>2 DEF WriteFile, DeployStateOK, DeployInv
  <2> QED
    BY <1>3, <2>1, <2>3, <2>4, <2>5 DEF WriteFile, DeployInv, ReportedEaIsCurrent, Deploying
<1>4. CASE FailFile
  <2>1. deployer' \in [at : {"next", "map"}, file : DOMAIN Order] /\ File \in SourceNames
        /\ \A k \in DOMAIN Order : Passed(k)' => Passed(k) \/ k = deployer.file
    BY <1>0, <1>4, NextSource DEF FailFile
  <2>2. DeployStateOK'
    BY <1>0, <1>4, <2>1 DEF FailFile, DeployStateOK
  <2> QED
    BY <1>4, <2>1, <2>2 DEF FailFile, DeployInv, ReportedEaIsCurrent, Deploying
<1>5. CASE TruncateMap
  <2>1. deployer'.at = "write_map" /\ deployer'.file = deployer.file
    BY <1>0, <1>5 DEF TruncateMap, DeployStateOK
  <2>2. DeployStateOK'
    BY <1>0, <1>5, <2>1 DEF TruncateMap, DeployStateOK
  <2> QED
    BY <1>5, <2>1, <2>2 DEF TruncateMap, DeployInv, ReportedEaIsCurrent, Deploying, Passed
<1>6. CASE WriteMap
  <2>1. deployer'.at \in {"write_map", "compile"} /\ deployer'.file = deployer.file
        /\ connection_map'.epoch = start /\ connection_map' \in [epoch : {start}, complete : BOOLEAN]
        /\ deployer' \in [at : {"write_map", "compile"}, file : DOMAIN Order]
    <3>1. /\ connection_map \in [epoch : Absent .. start, complete : BOOLEAN]
          /\ deployer = [at |-> "write_map", file |-> deployer.file] /\ deployer.file \in DOMAIN Order
      BY <1>0, <1>6 DEF WriteMap, DeployStateOK
    <3>2. CASE connection_map' = [connection_map EXCEPT !.epoch = start] /\ UNCHANGED deployer
      BY <3>1, <3>2
    <3>3. CASE connection_map' = [epoch |-> start, complete |-> TRUE] /\ MapDone
      BY <3>1, <3>3 DEF MapDone
    <3> QED
      BY <1>6, <3>2, <3>3 DEF WriteMap
  <2>2. DeployStateOK'
    BY <1>0, <1>6, <2>1 DEF WriteMap, DeployStateOK
  <2>3. ea_settings.epoch <= start
    BY <1>0 DEF DeployStateOK
  <2> QED
    BY <1>6, <2>1, <2>2, <2>3 DEF WriteMap, DeployInv, ReportedEaIsCurrent, Deploying, Passed
<1>7. CASE FailMap
  <2>1. deployer'.at = "compile" /\ deployer'.file = deployer.file
    BY <1>0, <1>7 DEF FailMap, MapDone, DeployStateOK
  <2>2. DeployStateOK'
    BY <1>0, <1>7, <2>1 DEF FailMap, MapDone, DeployStateOK
  <2> QED
    BY <1>7, <2>1, <2>2 DEF FailMap, DeployInv, ReportedEaIsCurrent, Deploying, Passed
<1>8. CASE Compile
  <2>1. \A k \in DOMAIN Order : Passed(k)
    BY <1>8 DEF Compile, Passed
  <2>2. "failed" \notin results => \A f \in SourceNames : files[f].content = release[f]
    BY <1>0, <2>1, OrderCovers DEF DeployInv, DeployLimits
  <2>3. OutputIsCurrent /\ "failed" \notin results => ex5.built_from = release
    <3> SUFFICES ASSUME OutputIsCurrent, "failed" \notin results
                 PROVE  ex5.built_from = release
      OBVIOUS
    <3>1. \A f \in SourceNames : ex5.built_from[f] = release[f]
      BY <2>2 DEF DeployInv, OutputIsCurrent
    <3>2. ex5.built_from \in [SourceNames -> Absent .. MaxVersion] /\ release \in [SourceNames -> 1 .. MaxVersion]
      BY <1>0 DEF DeployStateOK, Versions
    <3> QED
      BY <3>1, <3>2
  <2>4. DOMAIN Order = 1 .. Cardinality(SourceNames) /\ Cardinality(SourceNames) \in Nat \ {0}
    BY OrderCovers DEF DeployLimits
  <2>5. ex5' \in {ex5, [built_from |-> [f \in SourceNames |-> files[f].content], written |-> files_clock]}
    BY <1>8 DEF Compile
  <2>6. /\ ex5' \in [built_from : Versions, written : Absent .. files_clock]
        /\ ex5'.written # Absent =>
             \A f \in SourceNames : files[f].written <= ex5'.written
                                    => ex5'.built_from[f] = files[f].content
    <3>1. CASE ex5' = ex5
      BY <1>0, <3>1 DEF DeployStateOK, DeployInv
    <3>2. CASE ex5' = [built_from |-> [f \in SourceNames |-> files[f].content], written |-> files_clock]
      <4>1. [f \in SourceNames |-> files[f].content] \in Versions
        BY <1>0 DEF DeployStateOK, Versions
      <4> QED
        BY <1>0, <3>2, <4>1 DEF DeployStateOK
    <3> QED
      BY <2>5, <3>1, <3>2
  <2>7. deployer' \in [at : {"failed", "up_to_date", "compiled"}, file : {1}]
    BY <1>8 DEF Compile, FinishDeployment
  <2>8. ReportedEaIsCurrent'
    <3>1. CASE "failed" \in results
      BY <1>8, <3>1 DEF Compile, FinishDeployment, ReportedEaIsCurrent
    <3>2. CASE "failed" \notin results /\ results = {} /\ OutputIsCurrent
      BY <1>8, <2>3, <3>2 DEF Compile, ReportedEaIsCurrent
    <3>3. CASE "failed" \notin results /\ (results # {} \/ ~OutputIsCurrent)
      <4>1. PICK success \in BOOLEAN :
              FinishDeployment(IF success /\ OutputIsCurrent' THEN "compiled" ELSE "failed")
        BY <1>8, <3>3 DEF Compile
      <4>2. CASE OutputIsCurrent'
        <5>1. ex5'.written # Absent /\ \A f \in SourceNames : files[f].written <= ex5'.written
          BY <1>8, <4>2 DEF OutputIsCurrent, Compile
        <5>2. \A f \in SourceNames : ex5'.built_from[f] = release[f]
          BY <2>2, <2>6, <3>3, <5>1
        <5>3. ex5'.built_from \in [SourceNames -> Absent .. MaxVersion] /\ release \in [SourceNames -> 1 .. MaxVersion]
          BY <1>0, <2>6 DEF DeployStateOK, Versions
        <5> QED
          BY <1>8, <5>2, <5>3 DEF Compile, ReportedEaIsCurrent
      <4>3. CASE ~OutputIsCurrent'
        BY <4>1, <4>3 DEF FinishDeployment, ReportedEaIsCurrent
      <4> QED
        BY <4>2, <4>3
    <3> QED
      BY <3>1, <3>2, <3>3
  <2>9. DeployStateOK'
    BY <1>0, <1>8, <2>4, <2>6, <2>7 DEF Compile, DeployStateOK
  <2> QED
    BY <1>8, <2>6, <2>7, <2>8, <2>9 DEF Compile, DeployInv, Deploying, Passed
<1>9. CASE Restart
  <2>1. DOMAIN Order = 1 .. Cardinality(SourceNames) /\ Cardinality(SourceNames) \in Nat \ {0}
    BY OrderCovers DEF DeployLimits
  <2>2. deployer'.at = "next" /\ deployer'.file = 1
    BY <1>9 DEF Restart
  <2>3. DeployStateOK'
    <3>1. files \in [SourceNames -> [content : Absent .. MaxVersion, written : Absent .. files_clock']]
      BY <1>0, <1>9 DEF Restart, DeployStateOK
    <3>2. ex5 \in [built_from : Versions, written : Absent .. files_clock']
      BY <1>0, <1>9 DEF Restart, DeployStateOK
    <3>3. deployer' \in [at : {"next"}, file : DOMAIN Order] /\ results' = {}
      BY <1>9, <2>1 DEF Restart
    <3>4. /\ start' \in 1 .. MaxEpoch /\ files_clock' \in Nat \ {0}
          /\ connection_map \in [epoch : Absent .. start', complete : BOOLEAN]
          /\ ea_settings \in [epoch : {Absent} \cup 1 .. start', ready : BOOLEAN]
      BY <1>0, <1>9 DEF Restart, DeployStateOK
    <3> QED
      BY <1>0, <1>9, <3>1, <3>2, <3>3, <3>4 DEF Restart, DeployStateOK
  <2>4. \A k \in DOMAIN Order : ~Passed(k)'
    BY <2>1, <2>2 DEF Passed
  <2>5. ex5'.written < files_clock'
    BY <1>0, <1>9 DEF Restart, DeployStateOK
  <2> QED
    BY <1>9, <2>2, <2>3, <2>4, <2>5 DEF Restart, DeployInv, ReportedEaIsCurrent
<1>10. CASE LoadConnectionSettings
  <2>1. DeployStateOK'
    <3>1. connection_map.epoch \in Absent .. start /\ connection_map.complete \in BOOLEAN
          /\ ea_settings.epoch \in {Absent} \cup 1 .. start
      BY <1>0 DEF DeployStateOK
    <3>2. ea_settings' \in [epoch : {Absent} \cup 1 .. start, ready : BOOLEAN]
      BY <1>10, <3>1 DEF LoadConnectionSettings, EpochRead
    <3> QED
      BY <1>0, <1>10, <3>2 DEF LoadConnectionSettings, DeployStateOK
  <2>2. connection_map.epoch > Empty => ea_settings'.epoch <= connection_map.epoch
    BY <1>0, <1>10 DEF LoadConnectionSettings, DeployStateOK, EpochRead
  <2> QED
    BY <1>10, <2>1, <2>2 DEF LoadConnectionSettings, DeployInv, ReportedEaIsCurrent, Deploying, Passed
<1>11. CASE UNCHANGED deployVars
  BY <1>11 DEF deployVars, DeployInv, DeployStateOK, Versions, Order, ReportedEaIsCurrent, Deploying, Passed
<1> QED
  BY <1>1, <1>2, <1>3, <1>4, <1>5, <1>6, <1>7, <1>8, <1>9, <1>10, <1>11 DEF DeployNext

LEMMA DeployGrows ==
  ASSUME DeployLimits, DeployInv, [DeployNext]_deployVars
  PROVE  [EpochOnlyGrows]_deployVars
<1> USE DEF Absent, Empty
<1>0. DeployStateOK
  BY DEF DeployInv
<1>1. start' \in Nat /\ start' >= start
  BY <1>0 DEF DeployStateOK, deployVars, DeployNext, SkipIdentical, TruncateFile, WriteFile,
    FailFile, TruncateMap, WriteMap, FailMap, Compile, Restart, LoadConnectionSettings
<1>2. CASE LoadConnectionSettings
  BY <1>0, <1>1, <1>2 DEF LoadConnectionSettings, DeployStateOK, DeployInv, EpochOnlyGrows, EpochRead
<1>3. CASE ea_settings' = ea_settings
  BY <1>0, <1>1, <1>3 DEF DeployStateOK, EpochOnlyGrows
<1> QED
  BY <1>2, <1>3 DEF deployVars, DeployNext, SkipIdentical, TruncateFile, WriteFile,
    FailFile, TruncateMap, WriteMap, FailMap, Compile, Restart

\* However often TickScope is killed and started again, with whatever sources, and
\* whether or not files can be written and MetaEditor works: a deployment that
\* reports the EA as current leaves one built from exactly its sources.
THEOREM DeploymentIsCorrect == DeployLimits /\ DeploySpec => []DeploymentCorrect
<1> SUFFICES ASSUME DeployLimits PROVE DeploySpec => []DeploymentCorrect
  OBVIOUS
<1>1. DeployInit => DeployInv
  BY DeployInitially
<1>2. DeployInv /\ [DeployNext]_deployVars => DeployInv'
  BY DeployStep
<1>3. DeployInv => DeploymentCorrect
  BY DEF DeployInv, DeployStateOK, DeployLimits, DeploymentCorrect, DeployTypeOK, Absent, Empty
<1> QED
  BY <1>1, <1>2, <1>3, PTL DEF DeploySpec

\* No step takes the EA back to an older epoch, or to one TickScope never wrote,
\* although it may read the map while it is being rewritten.
THEOREM EpochNeverFallsBack == DeployLimits /\ DeploySpec => EpochsGrow
<1> SUFFICES ASSUME DeployLimits PROVE DeploySpec => EpochsGrow
  OBVIOUS
<1>1. DeployInit => DeployInv
  BY DeployInitially
<1>2. DeployInv /\ [DeployNext]_deployVars => DeployInv'
  BY DeployStep
<1>3. DeployInv /\ [DeployNext]_deployVars => [EpochOnlyGrows]_deployVars
  BY DeployGrows
<1> QED
  BY <1>1, <1>2, <1>3, PTL DEF DeploySpec, EpochsGrow

-----------------------------------------------------------------------------
(* Starting and stopping terminals (TerminalManager).                         *)

\* A process runs what it was started from; the manager knows the processes of
\* executables it has resolved only; who is being stopped was started once.
ManagerInv ==
  /\ ManagerTypeOK
  /\ installed \subseteq Exes \ {NoExe}
  /\ started \in [Pids -> Exes \cup {NoExe}]
  /\ \A p \in Pids : process[p] \in {started[p], NoExe}
  /\ \A b \in TerminalBrokers : status_cache[b] \in Pids =>
       known_exe[b] # NoExe /\ started[status_cache[b]] = known_exe[b]
  /\ \A p \in Pids : closers[p] # "none" => started[p] # NoExe
  /\ StopTakesEffect

LEMMA ManagerInitially ==
  ASSUME ManagerLimits, ManagerInit
  PROVE  ManagerInv
BY DEF ManagerInit, ManagerInv, ManagerTypeOK, StopTakesEffect, Pids, NotFound, ManagerLimits

\* A poll finds the processes of the executables it knows.
LEMMA PolledIsOwn ==
  ASSUME ManagerLimits, ManagerInv, NEW procs,
         known_exe' = [b \in TerminalBrokers |-> ExeAfterPoll(b)],
         status_cache' \in ScannedStatuses(known_exe', procs)
  PROVE  /\ known_exe' \in [TerminalBrokers -> Exes \cup {NoExe}]
         /\ status_cache' \in [TerminalBrokers -> 0 .. MaxPid + 1]
         /\ \A b \in TerminalBrokers : status_cache'[b] \in Pids =>
              known_exe'[b] # NoExe /\ procs[status_cache'[b]] = known_exe'[b]
<1>1. \A b \in TerminalBrokers : Resolved(b) \in Exes \cup {NoExe}
  BY DEF Resolved, Exes
<1>2. known_exe' \in [TerminalBrokers -> Exes \cup {NoExe}]
  BY <1>1 DEF ExeAfterPoll, ManagerInv, ManagerTypeOK
<1>3. status_cache' \in [TerminalBrokers -> 0 .. MaxPid + 1]
  BY DEF ScannedStatuses
<1>4. ASSUME NEW b \in TerminalBrokers, status_cache'[b] \in Pids
      PROVE  known_exe'[b] # NoExe /\ procs[status_cache'[b]] = known_exe'[b]
  BY <1>4 DEF ScannedStatuses, Pids, Stopped, NotFound, RunningOf, ManagerLimits
<1> QED
  BY <1>2, <1>3, <1>4

LEMMA ManagerStep ==
  ASSUME ManagerLimits, ManagerInv, [ManagerNext]_managerVars
  PROVE  ManagerInv'
<1> USE DEF Pids
<1>1. CASE Poll
  <2>1. /\ known_exe' \in [TerminalBrokers -> Exes \cup {NoExe}]
        /\ status_cache' \in [TerminalBrokers -> 0 .. MaxPid + 1]
        /\ \A b \in TerminalBrokers : status_cache'[b] \in Pids =>
             known_exe'[b] # NoExe /\ process[status_cache'[b]] = known_exe'[b]
    BY <1>1, PolledIsOwn DEF Poll
  <2> QED
    BY <1>1, <2>1 DEF Poll, ManagerInv, ManagerTypeOK, StopTakesEffect
<1>2. ASSUME NEW targets \in SUBSET TerminalBrokers, Launch(targets)
      PROVE  ManagerInv'
  <2>1. /\ known_exe' \in [TerminalBrokers -> Exes \cup {NoExe}]
        /\ status_cache' \in [TerminalBrokers -> 0 .. MaxPid + 1]
        /\ \A b \in TerminalBrokers : status_cache'[b] \in Pids =>
             known_exe'[b] # NoExe /\ process'[status_cache'[b]] = known_exe'[b]
    BY <1>2, PolledIsOwn DEF Launch
  <2> DEFINE D == {b \in targets : known_exe[b] \in installed}
  <2>2. PICK pid \in Injection(D, Unused) :
       LET launched(p) == {b \in DOMAIN pid : pid[b] = p}
           with(procs) == [p \in Pids |-> IF launched(p) = {} THEN procs[p]
                                         ELSE known_exe[CHOOSE b \in launched(p) : TRUE]]
       IN process' = with(process) /\ started' = with(started)
    BY <1>2 DEF Launch
  <2> DEFINE launched(p) == {b \in DOMAIN pid : pid[b] = p}
             exe(p) == known_exe[CHOOSE b \in launched(p) : TRUE]
  <2>3. pid \in [D -> Unused]
    BY <2>2 DEF Injection
  <2>4. /\ process' = [p \in Pids |-> IF launched(p) = {} THEN process[p] ELSE exe(p)]
        /\ started' = [p \in Pids |-> IF launched(p) = {} THEN started[p] ELSE exe(p)]
    BY <2>2
  <2>5. ASSUME NEW p \in Pids, launched(p) # {}
        PROVE  exe(p) \in Exes \cup {NoExe} /\ p \in Unused
    <3>1. PICK b \in launched(p) : b = CHOOSE c \in launched(p) : TRUE
      BY <2>5
    <3>2. b \in D /\ pid[b] = p
      BY <2>3, <3>1
    <3>3. exe(p) = known_exe[b] /\ b \in TerminalBrokers
      BY <3>1, <3>2
    <3> QED
      BY <2>3, <3>2, <3>3 DEF ManagerInv, ManagerTypeOK
  <2> HIDE DEF launched, exe
  <2>6. /\ process' \in [Pids -> Exes \cup {NoExe}] /\ started' \in [Pids -> Exes \cup {NoExe}]
        /\ \A p \in Pids : process'[p] \in {started'[p], NoExe}
        /\ \A p \in Pids : started[p] # NoExe => started'[p] = started[p] /\ process'[p] = process[p]
    BY <2>4, <2>5 DEF ManagerInv, ManagerTypeOK, Unused
  <2>7. UNCHANGED <<installed, closers>>
    BY <1>2 DEF Launch
  <2>8. \A b \in TerminalBrokers : status_cache'[b] \in Pids =>
          known_exe'[b] # NoExe /\ started'[status_cache'[b]] = known_exe'[b]
    BY <2>1, <2>6
  <2>9. StopTakesEffect'
    BY <2>6, <2>7 DEF StopTakesEffect, ManagerInv
  <2>10. \A p \in Pids : closers'[p] # "none" => started'[p] # NoExe
    BY <2>6, <2>7 DEF ManagerInv
  <2> QED
    BY <2>1, <2>6, <2>7, <2>8, <2>9, <2>10 DEF ManagerInv, ManagerTypeOK
<1>3. ASSUME NEW b \in TerminalBrokers, Stop(b)
      PROVE  ManagerInv'
  <2>1. closers' = [closers EXCEPT ![status_cache[b]] = "close"] /\ status_cache[b] \in Pids
        /\ started[status_cache[b]] # NoExe
    BY <1>3 DEF Stop, ManagerInv
  <2> QED
    BY <1>3, <2>1 DEF Stop, ManagerInv, ManagerTypeOK, StopTakesEffect
<1>4. ASSUME NEW p \in Pids, PostClose(p) \/ ProcessExited(p) \/ WaitFails(p) \/ WaitTimesOut(p)
      PROVE  ManagerInv'
  <2>1. UNCHANGED <<installed, started, known_exe, status_cache>>
    BY <1>4 DEF PostClose, ProcessExited, WaitFails, WaitTimesOut
  <2>2. PICK to \in {"wait", "ended", "refused"} :
          /\ closers[p] # "none" /\ closers' = [closers EXCEPT ![p] = to]
          /\ process' = process \/ process' = [process EXCEPT ![p] = NoExe]
          /\ to = "ended" => process'[p] = NoExe
    BY <1>4 DEF PostClose, ProcessExited, WaitFails, WaitTimesOut, Closer, Terminated,
      ManagerInv, ManagerTypeOK
  <2> QED
    BY <2>1, <2>2 DEF ManagerInv, ManagerTypeOK, StopTakesEffect
<1>5. CASE OutsideWorld
  <2>1. UNCHANGED <<known_exe, status_cache, closers>>
    BY <1>5 DEF OutsideWorld
  <2>2. CASE /\ \E p \in Pids : process[p] # NoExe /\ process' = [process EXCEPT ![p] = NoExe]
             /\ UNCHANGED <<installed, started>>
    BY <2>1, <2>2 DEF ManagerInv, ManagerTypeOK, StopTakesEffect
  <2>3. CASE /\ Unused # {}
             /\ \E exe \in installed :
                  LET p == CHOOSE q \in Unused : TRUE
                  IN process' = [process EXCEPT ![p] = exe] /\ started' = [started EXCEPT ![p] = exe]
             /\ UNCHANGED installed
    <3>1. PICK p \in Unused, exe \in installed :
            process' = [process EXCEPT ![p] = exe] /\ started' = [started EXCEPT ![p] = exe]
      BY <2>3
    <3>2. p \in Pids /\ started[p] = NoExe /\ closers[p] = "none" /\ exe \in Exes
          /\ \A b \in TerminalBrokers : status_cache[b] # p
      BY <3>1 DEF Unused, ManagerInv, ManagerTypeOK
    <3> QED
      BY <2>1, <2>3, <3>1, <3>2 DEF ManagerInv, ManagerTypeOK, StopTakesEffect
  <2>4. CASE /\ \E exe \in Exes \ {NoExe} :
                  installed' = IF exe \in installed THEN installed \ {exe} ELSE installed \cup {exe}
             /\ UNCHANGED <<process, started>>
    BY <2>1, <2>4 DEF ManagerInv, ManagerTypeOK, StopTakesEffect
  <2> QED
    BY <1>5, <2>2, <2>3, <2>4 DEF OutsideWorld
<1>6. CASE UNCHANGED managerVars
  BY <1>6 DEF managerVars, ManagerInv, ManagerTypeOK, StopTakesEffect
<1> QED
  BY <1>1, <1>2, <1>3, <1>4, <1>5, <1>6 DEF ManagerNext

\* A poll, and a start of terminals, leave the configured executable in use.
LEMMA PollPrefersExplicit ==
  ASSUME ManagerInv, [ManagerNext]_managerVars
  PROVE  [ExplicitPathWins]_managerVars
<1>1. CASE known_exe' = [b \in TerminalBrokers |-> ExeAfterPoll(b)]
  <2>1. ASSUME NEW b \in TerminalBrokers, Explicit[b] \in installed
        PROVE  known_exe'[b] = Explicit[b]
    BY <1>1, <2>1 DEF ExeAfterPoll, NeedsResolution, Resolved, ManagerInv
  <2> QED
    BY <2>1 DEF ExplicitPathWins
<1>2. CASE UNCHANGED <<known_exe, status_cache>>
  BY <1>2 DEF ExplicitPathWins
<1> QED
  BY <1>1, <1>2 DEF ManagerNext, managerVars, Poll, Launch, Stop, PostClose, ProcessExited,
    WaitFails, WaitTimesOut, OutsideWorld

\* For any configuration, and whatever becomes of the terminals meanwhile: a stop
\* is for a process of the executable its broker's terminal was resolved to, no other,
\* and when it has run to its end without a refused call the process is gone.
THEOREM ManagerIsCorrect == ManagerLimits /\ ManagerSpec => []ManagerCorrect
<1> SUFFICES ASSUME ManagerLimits PROVE ManagerSpec => []ManagerCorrect
  OBVIOUS
<1>1. ManagerInit => ManagerInv
  BY ManagerInitially
<1>2. ManagerInv /\ [ManagerNext]_managerVars => ManagerInv'
  BY ManagerStep
<1>3. ManagerInv => ManagerCorrect
  BY DEF ManagerInv, ManagerCorrect, StopHitsOwnTerminal
<1> QED
  BY <1>1, <1>2, <1>3, PTL DEF ManagerSpec

\* A configured executable that exists is the one a poll leaves in use, also when it
\* appears after the discovered one was resolved.
THEOREM ExplicitPathAlwaysWins ==
  ManagerLimits /\ ManagerSpec => ExplicitPathIsUsed
<1> SUFFICES ASSUME ManagerLimits PROVE ManagerSpec => ExplicitPathIsUsed
  OBVIOUS
<1>1. ManagerInit => ManagerInv
  BY ManagerInitially
<1>2. ManagerInv /\ [ManagerNext]_managerVars => ManagerInv'
  BY ManagerStep
<1>3. ManagerInv /\ [ManagerNext]_managerVars => [ExplicitPathWins]_managerVars
  BY PollPrefersExplicit
<1> QED
  BY <1>1, <1>2, <1>3, PTL DEF ManagerSpec, ExplicitPathIsUsed

-----------------------------------------------------------------------------
(* What a status message of TickReplay does (SyncArbiter).                    *)

Replays == [time : 1 .. LastTime, epoch : 1 .. LastEpoch, playing : BOOLEAN, closed : 0 .. LastTrade]
Memories == [mt5_ms : 0 .. LastTime, seek_epoch : 0 .. LastEpoch,
             trade_revision : 0 .. LastTrade + 1, was_playing : BOOLEAN]
Virtuals == [time : Nat, elapsed : Nat, playing : BOOLEAN]

ArbiterStateOK ==
  /\ replay \in Replays
  /\ features \in [epochs : BOOLEAN, revisions : BOOLEAN, quotes : BOOLEAN]
  /\ memory \in Memories
  /\ virtual \in Virtuals /\ Now(virtual) <= LastTime
  /\ rebuilt \in {None} \cup 1 .. LastEpoch
  /\ heard \in [kind : {"nothing", "status", "play_state"}, closed : 0 .. LastTrade]
  /\ moved \in [kind : {"seek", "play", "none"}, steps : Int]

\* The arbiter has the epoch of the last message, and no epoch before the first; what
\* TickReplay has done since the last message is what its time and epoch differ by.
ArbiterInv ==
  /\ ArbiterStateOK
  /\ virtual.playing = memory.was_playing
  /\ memory.mt5_ms = 0 => moved.kind = "seek"
  /\ features.epochs =>
       /\ memory.mt5_ms # 0 => memory.seek_epoch = rebuilt /\ memory.seek_epoch > 0
       /\ memory.mt5_ms = 0 => memory.seek_epoch = 0
       /\ direct_quote \in {None, rebuilt}
  /\ ~features.epochs => memory.seek_epoch = 0
  /\ memory.trade_revision \in {0, heard.closed + 1}
  /\ ~features.revisions => memory.trade_revision = 0
  /\ overlay = RecentHistory(heard.closed)
  /\ moved.kind # "seek" =>
       /\ replay.time = memory.mt5_ms + moved.steps
       /\ features.epochs => replay.epoch = memory.seek_epoch
  /\ PausedClockAgrees

LEMMA ArbiterInitially ==
  ASSUME ArbiterLimits, ArbiterInit
  PROVE  ArbiterInv
<1>1. ArbiterStateOK
  BY DEF ArbiterLimits, ArbiterInit, ArbiterStateOK, Replays, Memories, Virtuals, NewArbiter,
    NewClock, Now, None
<1>2. RecentHistory(0) = {}
  BY DEF RecentHistory
<1> QED
  BY <1>1, <1>2 DEF ArbiterInit, ArbiterInv, NewArbiter, NewClock, PausedClockAgrees, None

\* What a write does to the clock.
LEMMA VirtualSteps ==
  ASSUME NEW c \in Virtuals, NEW p \in BOOLEAN, NEW t \in Nat, NEW d \in Nat
  PROVE  /\ SetPlaying(c, p) \in Virtuals /\ SetPlaying(c, p).playing = p
         /\ Now(SetPlaying(c, p)) <= Now(c)
         /\ SetTime(c, t) \in Virtuals /\ Now(SetTime(c, t)) = t
         /\ SetTime(c, t).playing = c.playing
         /\ Sampled(c) \in Virtuals /\ Now(Sampled(c)) = Now(c) /\ Sampled(c).playing = c.playing
         /\ SyncPhase(c, t, d) \in {SetTime(c, t), Sampled(c)}
         /\ ~c.playing => SyncPhase(c, t, d) = SetTime(c, t)
<1>1. c.time \in Nat /\ c.elapsed \in Nat /\ c.playing \in BOOLEAN /\ c.time + c.elapsed \in Nat
  BY DEF Virtuals
<1>2. SetPlaying(c, p) \in Virtuals /\ SetPlaying(c, p).playing = p /\ Now(SetPlaying(c, p)) <= Now(c)
  <2> DEFINE d1 == [c EXCEPT !.playing = p, !.elapsed = 0]
  <2>1. d1 \in Virtuals /\ d1.time = c.time /\ d1.elapsed = 0 /\ d1.playing = p
    BY <1>1 DEF Virtuals
  <2>2. SetPlaying(c, p) = IF c.playing = p THEN c ELSE d1
    BY DEF SetPlaying
  <2> HIDE DEF d1
  <2> QED
    BY <1>1, <2>1, <2>2 DEF Now
<1>3. SetTime(c, t) \in Virtuals /\ Now(SetTime(c, t)) = t /\ SetTime(c, t).playing = c.playing
  <2> DEFINE d1 == [c EXCEPT !.time = t, !.elapsed = 0]
  <2>1. d1 \in Virtuals /\ d1.time = t /\ d1.elapsed = 0 /\ d1.playing = c.playing
    BY <1>1 DEF Virtuals
  <2>2. SetTime(c, t) = d1
    BY DEF SetTime
  <2> HIDE DEF d1
  <2> QED
    BY <2>1, <2>2 DEF Now
<1>4. Sampled(c) \in Virtuals /\ Now(Sampled(c)) = Now(c) /\ Sampled(c).playing = c.playing
  <2> DEFINE now == c.time + c.elapsed
             d1 == [c EXCEPT !.time = now, !.elapsed = 0]
  <2>1. now \in Nat
    BY <1>1
  <2>2. Sampled(c) = d1 /\ Now(c) = now
    BY DEF Sampled, Now
  <2> HIDE DEF now
  <2>3. d1 \in Virtuals /\ d1.time = now /\ d1.elapsed = 0 /\ d1.playing = c.playing
    BY <1>1, <2>1 DEF Virtuals
  <2> HIDE DEF d1
  <2> QED
    BY <2>1, <2>2, <2>3 DEF Now
<1> QED
  BY <1>2, <1>3, <1>4 DEF SyncPhase

\* The clock after a status message.
LEMMA StatusSetsClock ==
  ASSUME ArbiterLimits, ArbiterStateOK, HandleStatus
  PROVE  /\ virtual' \in Virtuals /\ Now(virtual') <= LastTime
         /\ virtual'.playing = replay.playing
         /\ ~replay.playing => Now(virtual') = replay.time
<1> DEFINE p == replay.playing
           t == replay.time
           set == SetPlaying(virtual, p)
<1>1. p \in BOOLEAN /\ t \in 1 .. LastTime /\ virtual \in Virtuals /\ Now(virtual) <= LastTime
      /\ LastTime \in Nat /\ Drift \in Nat /\ t \in Nat
  BY DEF ArbiterStateOK, ArbiterLimits, Replays
<1>2. virtual' = IF SeekDetected THEN SetPlaying(SetTime(set, t), p) ELSE SyncPhase(set, t, Drift)
  BY DEF HandleStatus
<1> HIDE DEF p, t
<1>3. set \in Virtuals /\ set.playing = p /\ Now(set) <= Now(virtual) /\ Now(set) \in Nat /\ Now(virtual) \in Nat
  <2>1. set \in Virtuals /\ set.playing = p /\ Now(set) <= Now(virtual)
    BY <1>1, VirtualSteps
  <2> QED
    BY <1>1, <2>1 DEF Virtuals, Now
<1>4. /\ SetTime(set, t) \in Virtuals /\ Now(SetTime(set, t)) = t /\ SetTime(set, t).playing = p
      /\ Sampled(set) \in Virtuals /\ Now(Sampled(set)) = Now(set) /\ Sampled(set).playing = p
      /\ SyncPhase(set, t, Drift) \in {SetTime(set, t), Sampled(set)}
      /\ ~p => SyncPhase(set, t, Drift) = SetTime(set, t)
  BY <1>1, <1>3, VirtualSteps
<1>5. SetPlaying(SetTime(set, t), p) = SetTime(set, t)
  BY <1>4 DEF SetPlaying
<1>6. virtual' \in {SetTime(set, t), Sampled(set)} /\ (~p => virtual' = SetTime(set, t))
  BY <1>2, <1>4, <1>5
<1>7. virtual' \in Virtuals /\ Now(virtual') <= LastTime /\ virtual'.playing = p
      /\ (~p => Now(virtual') = t)
  BY <1>1, <1>3, <1>4, <1>6
<1> QED
  BY <1>7 DEF p, t

LEMMA StatusKeepsArbiterInv ==
  ASSUME ArbiterLimits, ArbiterInv, HandleStatus, UNCHANGED features
  PROVE  ArbiterInv'
<1>0. ArbiterStateOK
  BY DEF ArbiterInv
<1>1. /\ replay.time \in 1 .. LastTime /\ replay.epoch \in 1 .. LastEpoch
      /\ replay.playing \in BOOLEAN /\ replay.closed \in 0 .. LastTrade
      /\ memory.mt5_ms \in 0 .. LastTime /\ memory.seek_epoch \in 0 .. LastEpoch
      /\ memory.trade_revision \in 0 .. LastTrade + 1 /\ heard.closed \in 0 .. LastTrade
      /\ LastTime \in Nat /\ LastEpoch \in Nat /\ LastTrade \in Nat
  BY <1>0 DEF ArbiterStateOK, ArbiterLimits, Replays, Memories
<1>2. /\ virtual' \in Virtuals /\ Now(virtual') <= LastTime
      /\ virtual'.playing = replay.playing
      /\ ~replay.playing => Now(virtual') = replay.time
  BY <1>0, StatusSetsClock
<1>3. memory' = [ mt5_ms         |-> replay.time,
                  seek_epoch     |-> IF Epoch > 0 THEN Epoch ELSE memory.seek_epoch,
                  trade_revision |-> IF TradesChanged /\ Revision > 0 THEN Revision
                                     ELSE memory.trade_revision,
                  was_playing    |-> replay.playing ]
      /\ heard' = [kind |-> "status", closed |-> replay.closed]
      /\ moved' = [kind |-> "none", steps |-> 0] /\ replay' = replay
      /\ overlay' = IF TradesChanged THEN RecentHistory(replay.closed) ELSE overlay
  BY DEF HandleStatus
<1>4. /\ memory'.mt5_ms = replay.time /\ memory'.was_playing = replay.playing
      /\ features.epochs => memory'.seek_epoch = replay.epoch
      /\ ~features.epochs => memory'.seek_epoch = memory.seek_epoch
  BY <1>1, <1>3 DEF Epoch
<1>5. /\ memory'.trade_revision \in {0, replay.closed + 1}
      /\ ~features.revisions => memory'.trade_revision = 0
      /\ overlay' = RecentHistory(replay.closed)
  <2>1. CASE features.revisions
    <3>1. Revision = replay.closed + 1 /\ Revision > 0 /\ Revision # 0
      BY <1>1, <2>1 DEF Revision
    <3>2. CASE TradesChanged
      BY <1>3, <2>1, <3>1, <3>2
    <3>3. CASE ~TradesChanged
      <4>1. memory.trade_revision = replay.closed + 1
        BY <3>1, <3>3 DEF TradesChanged
      <4>2. heard.closed = replay.closed
        BY <1>1, <4>1 DEF ArbiterInv
      <4> QED
        BY <1>3, <2>1, <3>3, <4>1, <4>2 DEF ArbiterInv
    <3> QED
      BY <3>2, <3>3
  <2>2. CASE ~features.revisions
    <3>1. Revision = 0 /\ TradesChanged /\ memory'.trade_revision = memory.trade_revision
      BY <1>3, <2>2 DEF Revision, TradesChanged
    <3> QED
      BY <1>3, <2>2, <3>1 DEF ArbiterInv
  <2> QED
    BY <2>1, <2>2
<1>6. memory' \in Memories
  <2>1. memory'.seek_epoch \in 0 .. LastEpoch /\ memory'.trade_revision \in 0 .. LastTrade + 1
    BY <1>1, <1>4, <1>5
  <2> QED
    BY <1>1, <1>3, <2>1 DEF Memories
<1>7. /\ rebuilt' \in {None} \cup 1 .. LastEpoch
      /\ features.epochs => rebuilt' = replay.epoch /\ direct_quote' \in {None, rebuilt'}
  <2>1. CASE SeekDetected
    BY <1>1, <2>1 DEF HandleStatus, QuoteReset
  <2>2. CASE ~SeekDetected
    <3>1. /\ direct_quote' = (IF features.quotes THEN replay.epoch ELSE direct_quote)
          /\ rebuilt' = rebuilt
      BY <2>2 DEF HandleStatus
    <3>2. ~EpochChanged /\ memory.mt5_ms # 0
      BY <2>2 DEF SeekDetected
    <3>3. features.epochs => rebuilt = replay.epoch
      BY <1>1, <3>2 DEF EpochChanged, Epoch, ArbiterInv
    <3> QED
      BY <1>0, <3>1, <3>3 DEF ArbiterInv, ArbiterStateOK
  <2> QED
    BY <2>1, <2>2
<1>8. ArbiterStateOK'
  BY <1>0, <1>1, <1>2, <1>3, <1>6, <1>7 DEF ArbiterStateOK
<1>9. features' = features /\ moved'.kind = "none" /\ moved'.steps = 0 /\ heard'.closed = replay.closed
      /\ replay' = replay /\ heard'.kind = "status"
  BY <1>3
<1>10. PausedClockAgrees'
  BY <1>2, <1>4 DEF PausedClockAgrees
<1>11. ~features.epochs => memory'.seek_epoch = 0
  BY <1>4 DEF ArbiterInv
<1> QED
  BY <1>1, <1>2, <1>4, <1>5, <1>7, <1>8, <1>9, <1>10, <1>11 DEF ArbiterInv, RecentHistory

LEMMA ArbiterStep ==
  ASSUME ArbiterLimits, ArbiterInv, [ArbiterNext]_arbiterVars
  PROVE  ArbiterInv'
<1>0. ArbiterStateOK
  BY DEF ArbiterInv
<1>1. CASE HandleStatus /\ UNCHANGED features
  BY <1>1, StatusKeepsArbiterInv
<1>2. CASE HandlePlayState /\ UNCHANGED features
  <2>1. PICK p \in BOOLEAN : virtual' = SetPlaying(virtual, p)
                             /\ memory' = [memory EXCEPT !.was_playing = p]
    BY <1>2 DEF HandlePlayState
  <2>2. virtual' \in Virtuals /\ virtual'.playing = p /\ Now(virtual') <= Now(virtual)
    BY <1>0, <2>1, VirtualSteps DEF ArbiterStateOK
  <2>3. Now(virtual) \in Nat /\ Now(virtual') \in Nat /\ LastTime \in Nat
    BY <1>0, <2>2 DEF ArbiterStateOK, Virtuals, Now, ArbiterLimits
  <2>4. Now(virtual') <= LastTime
    BY <1>0, <2>2, <2>3 DEF ArbiterStateOK
  <2>5. memory' \in Memories /\ memory'.mt5_ms = memory.mt5_ms /\ memory'.seek_epoch = memory.seek_epoch
        /\ memory'.trade_revision = memory.trade_revision /\ memory'.was_playing = p
    BY <1>0, <2>1 DEF ArbiterStateOK, Memories
  <2>6. heard' = [heard EXCEPT !.kind = "play_state"]
        /\ UNCHANGED <<replay, overlay, rebuilt, direct_quote, moved, features>>
    BY <1>2 DEF HandlePlayState
  <2>7. heard' \in [kind : {"play_state"}, closed : 0 .. LastTrade] /\ heard'.closed = heard.closed
        /\ heard'.kind = "play_state"
    BY <1>0, <2>6 DEF ArbiterStateOK
  <2>8. ArbiterStateOK'
    BY <1>0, <2>2, <2>4, <2>5, <2>6, <2>7 DEF ArbiterStateOK
  <2> QED
    BY <2>2, <2>5, <2>6, <2>7, <2>8 DEF ArbiterInv, PausedClockAgrees, RecentHistory
<1>3. CASE VirtualTimePasses /\ UNCHANGED features
  <2>1. virtual.playing /\ UNCHANGED <<replay, memory, overlay, rebuilt, direct_quote, heard, moved, features>>
    BY <1>3 DEF VirtualTimePasses
  <2>2. virtual' \in Virtuals /\ Now(virtual') <= LastTime /\ virtual'.playing = virtual.playing
    <3>1. CASE Now(virtual) < LastTime /\ virtual' = [virtual EXCEPT !.elapsed = @ + 1]
      BY <1>0, <3>1 DEF ArbiterStateOK, Virtuals, Now, ArbiterLimits
    <3>2. CASE virtual' = Sampled(virtual)
      BY <1>0, <3>2, VirtualSteps DEF ArbiterStateOK
    <3> QED
      BY <1>3, <3>1, <3>2 DEF VirtualTimePasses
  <2>3. ArbiterStateOK'
    BY <1>0, <2>1, <2>2 DEF ArbiterStateOK
  <2>4. PausedClockAgrees'
    BY <2>1 DEF ArbiterInv, PausedClockAgrees
  <2> QED
    BY <2>1, <2>2, <2>3, <2>4 DEF ArbiterInv, RecentHistory
<1>4. CASE ReplayPlays /\ UNCHANGED features
  <2>1. UNCHANGED <<memory, virtual, overlay, rebuilt, direct_quote, heard, features>>
    BY <1>4 DEF ReplayPlays
  <2>2. PICK s \in {1, -1} : replay' = [replay EXCEPT !.time = @ + s] /\ Moved("play", s)
                             /\ replay.time + s \in 1 .. LastTime
    <3>1. CASE replay.time < LastTime /\ replay' = [replay EXCEPT !.time = @ + 1] /\ Moved("play", 1)
      BY <1>0, <3>1 DEF ArbiterStateOK, Replays, ArbiterLimits
    <3>2. CASE replay.time > 1 /\ replay' = [replay EXCEPT !.time = @ - 1] /\ Moved("play", -1)
      <4>1. replay.time - 1 = replay.time + (-1)
        BY <1>0 DEF ArbiterStateOK, Replays
      <4> QED
        BY <1>0, <3>2, <4>1 DEF ArbiterStateOK, Replays, ArbiterLimits
    <3> QED
      BY <1>4, <3>1, <3>2 DEF ReplayPlays
  <2>3. replay' \in Replays /\ replay'.time = replay.time + s /\ replay'.epoch = replay.epoch
    BY <1>0, <2>2 DEF ArbiterStateOK, Replays
  <2>4. moved' \in [kind : {"seek", "play"}, steps : Int] /\ moved'.steps = moved.steps + s
        /\ (moved.kind = "seek" <=> moved'.kind = "seek")
    BY <1>0, <2>2 DEF ArbiterStateOK, Moved
  <2>5. ArbiterStateOK'
    BY <1>0, <2>1, <2>3, <2>4 DEF ArbiterStateOK
  <2>6. moved'.kind # "seek" => replay'.time = memory.mt5_ms + moved'.steps
    BY <1>0, <2>3, <2>4 DEF ArbiterInv, ArbiterStateOK, Memories, Replays
  <2> QED
    BY <2>1, <2>3, <2>4, <2>5, <2>6 DEF ArbiterInv, PausedClockAgrees, RecentHistory
<1>5. CASE ReplaySeeks /\ UNCHANGED features
  <2>1. UNCHANGED <<memory, virtual, overlay, rebuilt, direct_quote, heard, features>>
    BY <1>5 DEF ReplaySeeks
  <2>2. replay' \in Replays
    <3>1. PICK t \in 1 .. LastTime \ {replay.time} :
            replay' = [replay EXCEPT !.time = t, !.epoch = @ + 1]
      BY <1>5 DEF ReplaySeeks
    <3>2. replay.epoch + 1 \in 1 .. LastEpoch /\ t \in 1 .. LastTime
      BY <1>0, <1>5 DEF ReplaySeeks, ArbiterStateOK, Replays, ArbiterLimits
    <3> QED
      BY <1>0, <3>1, <3>2 DEF ArbiterStateOK, Replays
  <2>3. moved' \in [kind : {"seek"}, steps : Int] /\ moved'.kind = "seek"
    BY <1>0, <1>5 DEF ReplaySeeks, ArbiterStateOK, Moved
  <2>4. ArbiterStateOK'
    BY <1>0, <2>1, <2>2, <2>3 DEF ArbiterStateOK
  <2> QED
    BY <2>1, <2>3, <2>4 DEF ArbiterInv, PausedClockAgrees, RecentHistory
<1>6. CASE ReplayChanges /\ UNCHANGED features
  <2>1. UNCHANGED <<memory, virtual, overlay, rebuilt, direct_quote, heard, moved, features>>
    BY <1>6 DEF ReplayChanges
  <2>2. replay' \in Replays /\ replay'.time = replay.time /\ replay'.epoch = replay.epoch
    <3>1. CASE replay' = [replay EXCEPT !.playing = ~replay.playing]
      BY <1>0, <3>1 DEF ArbiterStateOK, Replays
    <3>2. CASE replay.closed < LastTrade /\ replay' = [replay EXCEPT !.closed = @ + 1]
      <4>1. replay.closed + 1 \in 0 .. LastTrade
        BY <1>0, <3>2 DEF ArbiterStateOK, Replays, ArbiterLimits
      <4> QED
        BY <1>0, <3>2, <4>1 DEF ArbiterStateOK, Replays
    <3> QED
      BY <1>6, <3>1, <3>2 DEF ReplayChanges
  <2>3. ArbiterStateOK'
    BY <1>0, <2>1, <2>2 DEF ArbiterStateOK
  <2> QED
    BY <2>1, <2>2, <2>3 DEF ArbiterInv, PausedClockAgrees, RecentHistory
<1>7. CASE UNCHANGED arbiterVars
  BY <1>7 DEF arbiterVars, ArbiterInv, ArbiterStateOK, PausedClockAgrees, RecentHistory
<1> QED
  BY <1>1, <1>2, <1>3, <1>4, <1>5, <1>6, <1>7 DEF ArbiterNext

\* The history kept is no longer than it may be.
LEMMA HistoryIsBounded ==
  ASSUME HistoryMax \in Nat, NEW n \in Nat
  PROVE  RecentHistory(n) \subseteq 1 .. n /\ Cardinality(RecentHistory(n)) <= HistoryMax
<1> DEFINE newest == (n - HistoryMax + 1) .. n
<1>1. RecentHistory(n) \subseteq newest /\ RecentHistory(n) \subseteq 1 .. n
  BY DEF RecentHistory
<1>2. IsFiniteSet(newest) /\ Cardinality(newest) = HistoryMax
  <2>1. n - HistoryMax + 1 \in Int /\ n \in Int
    OBVIOUS
  <2> QED
    BY <2>1, FS_Interval
<1>3. Cardinality(RecentHistory(n)) <= Cardinality(newest)
  BY <1>1, <1>2, FS_Subset
<1> QED
  BY <1>1, <1>2, <1>3

LEMMA ArbiterInvIsCorrect ==
  ASSUME ArbiterLimits, ArbiterInv
  PROVE  ArbiterCorrect
<1>0. ArbiterStateOK
  BY DEF ArbiterInv
<1>1. heard.closed \in 0 .. LastTrade /\ heard.closed \in Nat /\ LastTrade \in Nat /\ HistoryMax \in Nat
  BY <1>0 DEF ArbiterStateOK, ArbiterLimits
<1>2. overlay \subseteq 1 .. LastTrade /\ Cardinality(overlay) <= HistoryMax
  <2>1. RecentHistory(heard.closed) \subseteq 1 .. heard.closed
        /\ Cardinality(RecentHistory(heard.closed)) <= HistoryMax
    BY <1>1, HistoryIsBounded
  <2>2. 1 .. heard.closed \subseteq 1 .. LastTrade
    BY <1>1
  <2> QED
    BY <2>1, <2>2 DEF ArbiterInv
<1>3. Now(virtual) \in 0 .. LastTime
  BY <1>0 DEF ArbiterStateOK, Virtuals, Now, ArbiterLimits
<1>4. ArbiterTypeOK
  BY <1>0, <1>2, <1>3 DEF ArbiterTypeOK, ArbiterStateOK, Replays, Memories
<1> QED
  BY <1>4 DEF ArbiterInv, ArbiterCorrect, RebuiltForEverySeek, OverlayShowsTrades, DirectQuoteIsCurrent

LEMMA ArbiterStepHasCause ==
  ASSUME ArbiterLimits, ArbiterInv
  PROVE  ResetsHaveACause
<1> SUFFICES ASSUME SeekDetected, memory.mt5_ms # 0, moved.kind # "seek"
             PROVE  \/ moved.steps > Forward \/ moved.steps < -Deadband
                    \/ ~memory.was_playing /\ moved.steps # 0
  BY DEF ResetsHaveACause
<1>1. /\ replay.time \in Int /\ memory.mt5_ms \in Int /\ moved.steps \in Int
      /\ Forward \in Int /\ Deadband \in Int
  BY DEF ArbiterInv, ArbiterStateOK, ArbiterLimits, Replays, Memories
<1>2. replay.time - memory.mt5_ms = moved.steps
  BY <1>1 DEF ArbiterInv
<1>3. ~EpochChanged
  BY DEF EpochChanged, Epoch, ArbiterInv
<1>4. IF ~replay.playing /\ ~memory.was_playing THEN moved.steps # 0
      ELSE LargeStepBack(moved.steps) \/ moved.steps > Forward
  BY <1>2, <1>3 DEF SeekDetected
<1> QED
  BY <1>1, <1>4 DEF LargeStepBack

\* For all times, trades, tolerances and optional fields: the engine is rebuilt in
\* every epoch TickReplay's messages come from, a paused clock agrees with the message,
\* and the overlay and the direct quote are of the position that is shown.
THEOREM ArbiterIsCorrect == ArbiterLimits /\ ArbiterSpec => []ArbiterCorrect
<1> SUFFICES ASSUME ArbiterLimits PROVE ArbiterSpec => []ArbiterCorrect
  OBVIOUS
<1>1. ArbiterInit => ArbiterInv
  BY ArbiterInitially
<1>2. ArbiterInv /\ [ArbiterNext]_arbiterVars => ArbiterInv'
  BY ArbiterStep
<1>3. ArbiterInv => ArbiterCorrect
  BY ArbiterInvIsCorrect
<1> QED
  BY <1>1, <1>2, <1>3, PTL DEF ArbiterSpec

\* The engine is reset for a seek, or for more playback than a step may cover, and
\* for nothing else.
THEOREM EngineResetsHaveACause == ArbiterLimits /\ ArbiterSpec => ResetsAreCaused
<1> SUFFICES ASSUME ArbiterLimits PROVE ArbiterSpec => ResetsAreCaused
  OBVIOUS
<1>1. ArbiterInit => ArbiterInv
  BY ArbiterInitially
<1>2. ArbiterInv /\ [ArbiterNext]_arbiterVars => ArbiterInv'
  BY ArbiterStep
<1>3. ArbiterInv => [ResetsHaveACause]_arbiterVars
  BY ArbiterStepHasCause
<1> QED
  BY <1>1, <1>2, <1>3, PTL DEF ArbiterSpec, ResetsAreCaused

-----------------------------------------------------------------------------
(* The EA's walk through the tick history (TickCursor).                       *)

Cursors == [time : 0 .. LastMs, same : 0 .. MaxTicks]

HistoryOK ==
  /\ tick_history \in Seq(1 .. LastMs) /\ Len(tick_history) <= MaxTicks
  /\ \A i, j \in DOMAIN tick_history : i <= j => tick_history[i] <= tick_history[j]

\* A cursor that stands before the p-th tick: it counts the ticks of its millisecond
\* that come earlier.
Stands(c, p) ==
  /\ c \in Cursors /\ c.time <= TimeOfLast
  /\ p \in 1 .. Len(tick_history) + 1
  /\ c.time > 0 /\ FirstPlaceFrom(c.time) + c.same = p
  /\ \A i \in DOMAIN tick_history : i < p => tick_history[i] <= c.time

NextPlace == warm_from + Len(streamed)

\* The cursor stands before the tick after the last one acknowledged, and the
\* candidate before the one after the outstanding packet; a blocked EA has nothing
\* outstanding and its cursor counts more ticks than a scan has room for.
CursorInv ==
  /\ HistoryOK
  /\ tick_cursor \in Cursors /\ candidate \in Cursors
  /\ phase \in {"idle", "WARMING", "LIVE"} /\ zero_retries \in 0 .. ZeroRetries
  /\ phase = "WARMING" => zero_retries < ZeroRetries
  /\ warm_from \in Nat \ {0}
  /\ outstanding \in Seq(Nat) /\ streamed \in Seq(Nat)
  /\ phase = "idle" => outstanding = << >> /\ streamed = << >> /\ ~blocked
  /\ phase # "idle" => Stands(tick_cursor, NextPlace)
  /\ outstanding # << >> => Stands(candidate, NextPlace + Len(outstanding)) /\ ~blocked
  /\ \A i \in DOMAIN streamed : streamed[i] = warm_from + i - 1
  /\ \A i \in DOMAIN outstanding : outstanding[i] = NextPlace + i - 1
  /\ blocked => tick_cursor.same + BatchSize > MaxSameMsScan

-----------------------------------------------------------------------------
(* Places in a sorted history.                                                *)

LEMMA HistoryFacts ==
  ASSUME CursorLimits, HistoryOK
  PROVE  /\ Len(tick_history) \in Nat /\ DOMAIN tick_history = 1 .. Len(tick_history)
         /\ \A i \in DOMAIN tick_history : tick_history[i] \in 1 .. LastMs
                                           /\ tick_history[i] <= TimeOfLast
         /\ TimeOfLast \in 1 .. LastMs
<1>1. /\ Len(tick_history) \in Nat /\ DOMAIN tick_history = 1 .. Len(tick_history)
      /\ \A i \in DOMAIN tick_history : tick_history[i] \in 1 .. LastMs
  <2> DEFINE times == 1 .. LastMs
  <2>1. tick_history \in Seq(times)
    BY DEF HistoryOK
  <2> HIDE DEF times
  <2>2. /\ Len(tick_history) \in Nat /\ DOMAIN tick_history = 1 .. Len(tick_history)
        /\ \A i \in DOMAIN tick_history : tick_history[i] \in times
    BY <2>1
  <2> QED
    BY <2>2 DEF times
<1>2. CASE tick_history = << >>
  BY <1>1, <1>2 DEF TimeOfLast, CursorLimits
<1>3. CASE tick_history # << >>
  <2>1. Len(tick_history) \in DOMAIN tick_history
    BY <1>1, <1>3
  <2>2. TimeOfLast = tick_history[Len(tick_history)]
    BY <1>3 DEF TimeOfLast, Last
  <2> QED
    BY <1>1, <2>1, <2>2 DEF HistoryOK
<1> QED
  BY <1>1, <1>2, <1>3

\* The ticks before a time are the ones before its first place.
LEMMA FirstPlace ==
  ASSUME CursorLimits, HistoryOK, NEW t \in Nat
  PROVE  /\ FirstPlaceFrom(t) \in 1 .. Len(tick_history) + 1
         /\ \A i \in DOMAIN tick_history : tick_history[i] < t <=> i < FirstPlaceFrom(t)
<1> DEFINE earlier == {i \in DOMAIN tick_history : tick_history[i] < t}
<1>1. /\ Len(tick_history) \in Nat /\ DOMAIN tick_history = 1 .. Len(tick_history)
      /\ \A i \in DOMAIN tick_history : tick_history[i] \in 1 .. LastMs
  BY HistoryFacts
<1>2. ASSUME NEW i \in earlier, NEW j \in 1 .. i
      PROVE  j \in earlier
  <2>1. j \in DOMAIN tick_history /\ i \in DOMAIN tick_history /\ j <= i /\ tick_history[i] < t
    BY <1>1
  <2>2. tick_history[j] <= tick_history[i] /\ LastMs \in Nat
    BY <2>1 DEF HistoryOK, CursorLimits
  <2> QED
    BY <1>1, <2>1, <2>2
<1>3. earlier \in SUBSET (1 .. Len(tick_history))
  BY <1>1
<1>4. FirstPlaceFrom(t) = Cardinality(earlier) + 1
  BY DEF FirstPlaceFrom
<1> HIDE DEF earlier
<1>5. Cardinality(earlier) \in Nat /\ earlier = 1 .. 1 + Cardinality(earlier) - 1
  BY <1>1, <1>2, <1>3, InitialSegment
<1>6. Cardinality(earlier) <= Len(tick_history)
  <2>1. IsFiniteSet(1 .. Len(tick_history)) /\ Cardinality(1 .. Len(tick_history)) = Len(tick_history)
    BY <1>1, FS_Interval
  <2> QED
    BY <1>3, <2>1, FS_Subset
<1>7. \A i \in DOMAIN tick_history : i \in earlier <=> i < FirstPlaceFrom(t)
  BY <1>1, <1>4, <1>5
<1> QED
  BY <1>1, <1>4, <1>5, <1>6, <1>7 DEF earlier

\* A place that divides the history at a time is the first one of that time.
LEMMA FirstPlaceIs ==
  ASSUME CursorLimits, HistoryOK, NEW t \in Nat, NEW p \in 1 .. Len(tick_history) + 1,
         \A i \in DOMAIN tick_history : tick_history[i] < t <=> i < p
  PROVE  FirstPlaceFrom(t) = p
<1>1. /\ FirstPlaceFrom(t) \in 1 .. Len(tick_history) + 1
      /\ \A i \in DOMAIN tick_history : tick_history[i] < t <=> i < FirstPlaceFrom(t)
  BY FirstPlace
<1>2. Len(tick_history) \in Nat /\ DOMAIN tick_history = 1 .. Len(tick_history)
  BY HistoryFacts
<1>3. \A i \in 1 .. Len(tick_history) : i < p <=> i < FirstPlaceFrom(t)
  BY <1>1, <1>2
<1>4. CASE FirstPlaceFrom(t) < p
  BY <1>1, <1>2, <1>3, <1>4
<1>5. CASE p < FirstPlaceFrom(t)
  BY <1>1, <1>2, <1>3, <1>5
<1> QED
  BY <1>1, <1>2, <1>4, <1>5

\* Counting the tick a cursor stands before moves it behind that tick.
LEMMA CountedStands ==
  ASSUME CursorLimits, HistoryOK, NEW c, NEW p \in DOMAIN tick_history, Stands(c, p)
  PROVE  Stands(CountTick(c, tick_history[p]), p + 1)
<1> DEFINE t == tick_history[p]
<1>1. /\ Len(tick_history) \in Nat /\ DOMAIN tick_history = 1 .. Len(tick_history)
      /\ \A i \in DOMAIN tick_history : tick_history[i] \in 1 .. LastMs
      /\ t \in 1 .. LastMs /\ t <= TimeOfLast
      /\ LastMs \in Nat /\ MaxTicks \in Nat /\ Len(tick_history) <= MaxTicks
      /\ p \in Nat /\ p + 1 \in 1 .. Len(tick_history) + 1
  BY HistoryFacts DEF CursorLimits, HistoryOK
<1>2. c.time \in 0 .. LastMs /\ c.same \in 0 .. MaxTicks /\ c \in Cursors /\ c.time \in Nat
  BY <1>1 DEF Stands, Cursors
<1>3. /\ FirstPlaceFrom(c.time) \in 1 .. Len(tick_history) + 1
      /\ \A i \in DOMAIN tick_history : tick_history[i] < c.time <=> i < FirstPlaceFrom(c.time)
  BY <1>2, FirstPlace
<1>4. \A i \in DOMAIN tick_history : i < p + 1 => tick_history[i] <= t
  BY <1>1 DEF HistoryOK
<1>5. CASE t = c.time
  <2>1. CountTick(c, t) = [c EXCEPT !.same = @ + 1]
    BY <1>5 DEF CountTick
  <2>2. c.same + 1 \in 0 .. MaxTicks
    BY <1>1, <1>2, <1>3 DEF Stands
  <2>3. CountTick(c, t) \in Cursors /\ CountTick(c, t).time = c.time
        /\ CountTick(c, t).same = c.same + 1
    BY <1>2, <2>1, <2>2 DEF Cursors
  <2>4. FirstPlaceFrom(c.time) + (c.same + 1) = p + 1
    BY <1>1, <1>2, <1>3 DEF Stands
  <2> DEFINE d == CountTick(c, t)
  <2>5. d \in Cursors /\ d.time = t /\ d.same = c.same + 1 /\ t > 0
        /\ FirstPlaceFrom(t) + (c.same + 1) = p + 1
    BY <1>1, <1>5, <2>3, <2>4
  <2> HIDE DEF d
  <2>6. Stands(d, p + 1)
    BY <1>1, <1>4, <2>5 DEF Stands
  <2> QED
    BY <2>6 DEF d
<1>6. CASE t # c.time
  <2>1. CountTick(c, t) = [time |-> t, same |-> 1]
    BY <1>6 DEF CountTick
  <2>2. t > c.time
    <3>1. FirstPlaceFrom(c.time) <= p
      BY <1>1, <1>2, <1>3 DEF Stands
    <3> QED
      BY <1>1, <1>2, <1>3, <1>6, <3>1
  <2>3. \A i \in DOMAIN tick_history : tick_history[i] < t <=> i < p
    <3>1. ASSUME NEW i \in DOMAIN tick_history
          PROVE  tick_history[i] < t <=> i < p
      <4>1. CASE i < p
        <5>1. tick_history[i] <= c.time
          BY <4>1 DEF Stands
        <5> QED
          BY <1>1, <1>2, <2>2, <4>1, <5>1
      <4>2. CASE i >= p
        <5>1. tick_history[p] <= tick_history[i]
          BY <4>2 DEF HistoryOK
        <5> QED
          BY <1>1, <4>2, <5>1
      <4> QED
        BY <1>1, <4>1, <4>2
    <3> QED
      BY <3>1
  <2>4. FirstPlaceFrom(t) = p
    <3>1. t \in Nat /\ p \in 1 .. Len(tick_history) + 1
      BY <1>1
    <3> HIDE DEF t
    <3> QED
      BY <2>3, <3>1, FirstPlaceIs
  <2>5. 1 \in 0 .. MaxTicks
    BY <1>1
  <2>6. CountTick(c, t) \in Cursors /\ CountTick(c, t).time = t /\ CountTick(c, t).same = 1
    BY <1>1, <2>1, <2>5 DEF Cursors
  <2> DEFINE d == CountTick(c, t)
  <2>7. d \in Cursors /\ d.time = t /\ d.same = 1 /\ t > 0 /\ FirstPlaceFrom(t) + 1 = p + 1
    BY <1>1, <2>4, <2>6
  <2> HIDE DEF d
  <2>8. Stands(d, p + 1)
    BY <1>1, <1>4, <2>7 DEF Stands
  <2> QED
    BY <2>8 DEF d
<1> QED
  BY <1>5, <1>6

\* What is reached place by place is reached by CursorAfter.
LEMMA CursorReaches ==
  ASSUME NEW places \in Seq(Nat), NEW R, tick_cursor \in R[0],
         \A k \in 1 .. Len(places) : \A c \in R[k - 1] : CountTick(c, tick_history[places[k]]) \in R[k]
  PROVE  CursorAfter(places) \in R[Len(places)]
<1> DEFINE Equation(f, m) ==
             f = [k \in 0 .. m |-> IF k = 0 THEN tick_cursor ELSE CountTick(f[k - 1], tick_history[places[k]])]
           Solved == {m \in Nat : \E f : Equation(f, m)}
           Reached(f) == {m \in Nat : m <= Len(places) => f[m] \in R[m]}
<1>1. Len(places) \in Nat
  OBVIOUS
<1>2. Nat \subseteq Solved
  <2>1. 0 \in Solved
    <3>1. Equation([k \in 0 .. 0 |-> tick_cursor], 0)
      OBVIOUS
    <3> QED BY <3>1
  <2>2. ASSUME NEW m \in Nat, m \in Solved PROVE m + 1 \in Solved
    <3>1. PICK f : Equation(f, m)
      BY <2>2
    <3> DEFINE g == [k \in 0 .. m + 1 |->
                       IF k = m + 1 THEN CountTick(f[m], tick_history[places[m + 1]]) ELSE f[k]]
    <3>2. \A k \in 0 .. m : f[k] = IF k = 0 THEN tick_cursor ELSE CountTick(f[k - 1], tick_history[places[k]])
      BY <3>1
    <3>3. ASSUME NEW k \in 0 .. m + 1
          PROVE  g[k] = IF k = 0 THEN tick_cursor ELSE CountTick(g[k - 1], tick_history[places[k]])
      <4>1. CASE k = m + 1
        <5>1. k # 0 /\ m \in 0 .. m + 1 /\ m # m + 1 /\ k - 1 = m
          BY <4>1
        <5>2. g[m] = f[m] /\ g[k] = CountTick(f[m], tick_history[places[m + 1]])
          BY <4>1, <5>1
        <5> QED BY <4>1, <5>1, <5>2
      <4>2. CASE k # m + 1
        <5>1. k \in 0 .. m /\ (k # 0 => k - 1 \in 0 .. m + 1 /\ k - 1 # m + 1)
          BY <4>2
        <5>2. g[k] = f[k] /\ (k # 0 => g[k - 1] = f[k - 1])
          BY <4>2, <5>1
        <5> QED BY <3>2, <5>1, <5>2
      <4> QED BY <4>1, <4>2
    <3>4. g = [k \in 0 .. m + 1 |-> g[k]]
      OBVIOUS
    <3>5. Equation(g, m + 1)
      <4> HIDE DEF g
      <4> QED BY <3>3, <3>4
    <3> HIDE DEF g
    <3> QED BY <3>5
  <2> HIDE DEF Solved
  <2> QED BY <2>1, <2>2, Induction
<1>3. \E f : Equation(f, Len(places))
  BY <1>1, <1>2
<1> DEFINE after == CHOOSE f : Equation(f, Len(places))
<1>4. Equation(after, Len(places))
  BY <1>3
<1>5. CursorAfter(places) = after[Len(places)]
  BY DEF CursorAfter
<1> HIDE DEF after
<1>6. Nat \subseteq Reached(after)
  <2>1. 0 \in Reached(after)
    BY <1>1, <1>4
  <2>2. ASSUME NEW m \in Nat, m \in Reached(after) PROVE m + 1 \in Reached(after)
    <3> SUFFICES ASSUME m + 1 <= Len(places) PROVE after[m + 1] \in R[m + 1]
      OBVIOUS
    <3>1. m + 1 \in 1 .. Len(places) /\ after[m] \in R[m] /\ (m + 1) - 1 = m
      BY <1>1, <2>2
    <3>2. after[m + 1] = CountTick(after[m], tick_history[places[m + 1]])
      BY <1>1, <1>4, <3>1
    <3> QED BY <3>1, <3>2
  <2> DEFINE S == Reached(after)
  <2>3. 0 \in S /\ \A m \in Nat : m \in S => m + 1 \in S
    BY <2>1, <2>2
  <2> HIDE DEF S
  <2>4. Nat \subseteq S
    BY <2>3, Induction
  <2> QED BY <2>4 DEF S
<1> QED BY <1>1, <1>5, <1>6

-----------------------------------------------------------------------------
(* The steps.                                                                 *)

LEMMA CursorInitially ==
  ASSUME CursorLimits, CursorInit
  PROVE  CursorInv
<1>1. tick_history = << >> /\ outstanding = << >> /\ streamed = << >>
  BY DEF CursorInit
<1>2. HistoryOK
  BY <1>1 DEF HistoryOK, CursorLimits
<1>3. tick_cursor \in Cursors /\ candidate \in Cursors
  BY DEF CursorInit, Start, Cursors, CursorLimits
<1>4. outstanding \in Seq(Nat) /\ streamed \in Seq(Nat) /\ DOMAIN streamed = {} /\ DOMAIN outstanding = {}
  BY <1>1
<1> QED
  BY <1>1, <1>2, <1>3, <1>4 DEF CursorInit, CursorInv, CursorLimits

\* A cursor stands where it stood when another tick arrives.
LEMMA ArrivalLeavesCursor ==
  ASSUME CursorLimits, HistoryOK, TickArrives
  PROVE  /\ HistoryOK' /\ \A c, p : Stands(c, p) => Stands(c, p)'
         /\ Len(tick_history') = Len(tick_history) + 1
<1>1. PICK t \in TimeOfLast .. LastMs : tick_history' = Append(tick_history, t)
  BY DEF TickArrives
<1>2. /\ Len(tick_history) \in Nat /\ DOMAIN tick_history = 1 .. Len(tick_history)
      /\ \A i \in DOMAIN tick_history : tick_history[i] \in 1 .. LastMs
                                        /\ tick_history[i] <= TimeOfLast
      /\ TimeOfLast \in 1 .. LastMs /\ LastMs \in Nat /\ MaxTicks \in Nat
  BY HistoryFacts DEF CursorLimits
<1>3. t \in 1 .. LastMs /\ TimeOfLast <= t
  BY <1>1, <1>2
<1>4. /\ tick_history' \in Seq(1 .. LastMs) /\ Len(tick_history') = Len(tick_history) + 1
      /\ DOMAIN tick_history' = 1 .. Len(tick_history) + 1
      /\ tick_history'[Len(tick_history) + 1] = t
      /\ \A i \in DOMAIN tick_history : tick_history'[i] = tick_history[i]
  <2> DEFINE times == 1 .. LastMs
  <2>1. tick_history \in Seq(times) /\ t \in times
    BY <1>3 DEF HistoryOK
  <2> HIDE DEF times
  <2>2. /\ tick_history' \in Seq(times) /\ Len(tick_history') = Len(tick_history) + 1
        /\ DOMAIN tick_history' = 1 .. Len(tick_history) + 1
        /\ tick_history'[Len(tick_history) + 1] = t
        /\ \A i \in DOMAIN tick_history : tick_history'[i] = tick_history[i]
    BY <1>1, <2>1
  <2> QED
    BY <2>2 DEF times
<1>5. HistoryOK'
  <2>1. Len(tick_history') <= MaxTicks
    BY <1>2, <1>4 DEF TickArrives
  <2>2. ASSUME NEW i \in DOMAIN tick_history', NEW j \in DOMAIN tick_history', i <= j
        PROVE  tick_history'[i] <= tick_history'[j]
    <3>1. CASE j \in DOMAIN tick_history
      <4>1. i \in DOMAIN tick_history
        BY <1>2, <1>4, <2>2, <3>1
      <4> QED
        BY <1>4, <2>2, <3>1, <4>1 DEF HistoryOK
    <3>2. CASE j \notin DOMAIN tick_history
      <4>1. j = Len(tick_history) + 1 /\ (i \in DOMAIN tick_history \/ i = j)
        BY <1>2, <1>4, <2>2, <3>2
      <4> QED
        BY <1>2, <1>3, <1>4, <4>1
    <3> QED
      BY <3>1, <3>2
  <2> QED
    BY <1>4, <2>1, <2>2 DEF HistoryOK
<1>6. TimeOfLast' = t
  BY <1>2, <1>4 DEF TimeOfLast, Last
<1>7. ASSUME NEW c, NEW p, Stands(c, p)
      PROVE  Stands(c, p)'
  <2>1. c.time \in Nat /\ c.time <= t /\ c \in Cursors /\ c.time <= TimeOfLast /\ c.time > 0
        /\ p \in 1 .. Len(tick_history) + 1 /\ p \in 1 .. Len(tick_history') + 1
    BY <1>2, <1>3, <1>4, <1>7 DEF Stands, Cursors
  <2>2. {i \in DOMAIN tick_history' : tick_history'[i] < c.time}
          = {i \in DOMAIN tick_history : tick_history[i] < c.time}
    BY <1>2, <1>3, <1>4, <2>1
  <2>3. FirstPlaceFrom(c.time)' = FirstPlaceFrom(c.time)
    BY <2>2 DEF FirstPlaceFrom
  <2>4. \A i \in DOMAIN tick_history' : i < p => i \in DOMAIN tick_history
    BY <1>2, <1>4, <2>1
  <2>5. \A i \in DOMAIN tick_history' : i < p => tick_history'[i] <= c.time
    BY <1>4, <1>7, <2>4 DEF Stands
  <2> QED
    BY <1>6, <1>7, <2>1, <2>3, <2>5 DEF Stands
<1> QED
  BY <1>4, <1>5, <1>7

\* Nothing about a cursor's place depends on anything but the history.
LEMMA SameHistory ==
  ASSUME UNCHANGED tick_history
  PROVE  (HistoryOK <=> HistoryOK') /\ \A c, p : Stands(c, p) <=> Stands(c, p)'
BY DEF HistoryOK, Stands, FirstPlaceFrom, TimeOfLast

\* A warm-up starts before the first tick of its time.
LEMMA WarmupStands ==
  ASSUME CursorLimits, HistoryOK, NEW t \in 1 .. TimeOfLast
  PROVE  /\ FirstPlaceFrom(t) \in Nat \ {0}
         /\ Stands([time |-> t, same |-> 0], FirstPlaceFrom(t))
<1>1. /\ Len(tick_history) \in Nat /\ TimeOfLast \in 1 .. LastMs /\ LastMs \in Nat /\ MaxTicks \in Nat
      /\ DOMAIN tick_history = 1 .. Len(tick_history)
      /\ \A i \in DOMAIN tick_history : tick_history[i] \in 1 .. LastMs
  BY HistoryFacts DEF CursorLimits
<1>2. t \in Nat /\ t > 0 /\ t \in 0 .. LastMs /\ t <= TimeOfLast
  BY <1>1
<1>3. /\ FirstPlaceFrom(t) \in 1 .. Len(tick_history) + 1
      /\ \A i \in DOMAIN tick_history : tick_history[i] < t <=> i < FirstPlaceFrom(t)
  BY <1>2, FirstPlace
<1>4. \A i \in DOMAIN tick_history : i < FirstPlaceFrom(t) => tick_history[i] <= t
  BY <1>1, <1>2, <1>3
<1> DEFINE c == [time |-> t, same |-> 0]
<1>5. c \in Cursors /\ c.time = t /\ c.same = 0
  BY <1>1, <1>2 DEF Cursors
<1> HIDE DEF c
<1>6. FirstPlaceFrom(c.time) + c.same = FirstPlaceFrom(t)
  BY <1>1, <1>3, <1>5
<1>7. Stands(c, FirstPlaceFrom(t))
  BY <1>2, <1>3, <1>4, <1>5, <1>6 DEF Stands
<1> QED
  BY <1>1, <1>3, <1>7 DEF c

LEMMA MinOfTwo ==
  ASSUME NEW a \in Nat, NEW b \in Nat
  PROVE  Min({a, b}) \in Nat /\ Min({a, b}) = IF a <= b THEN a ELSE b
<1>1. \E x \in {a, b} : \A y \in {a, b} : x =< y
  OBVIOUS
<1>2. Min({a, b}) \in {a, b} /\ \A y \in {a, b} : Min({a, b}) =< y
  BY <1>1 DEF Min
<1> QED
  BY <1>2

LEMMA LaterPart ==
  ASSUME NEW s \in Seq(Nat), NEW a \in Nat, NEW n \in Nat, a <= n, n <= Len(s)
  PROVE  /\ SubSeq(s, a + 1, n) \in Seq(Nat) /\ Len(SubSeq(s, a + 1, n)) = n - a
         /\ \A i \in 1 .. n - a : SubSeq(s, a + 1, n)[i] = s[a + i]
<1>1. /\ a + 1 \in Int /\ n \in Int /\ n - (a + 1) + 1 = n - a
      /\ \A i \in a + 1 .. n : s[i] \in Nat
      /\ \A i \in 1 .. n - a : (a + 1) + i - 1 = a + i
      /\ (IF a + 1 <= n THEN n - (a + 1) + 1 ELSE 0) = n - a
  OBVIOUS
<1> DEFINE r == SubSeq(s, a + 1, n)
<1>2. /\ r \in Seq(Nat)
      /\ Len(r) = IF a + 1 <= n THEN n - (a + 1) + 1 ELSE 0
      /\ \A i \in 1 .. n - (a + 1) + 1 : r[i] = s[(a + 1) + i - 1]
  BY <1>1, SubSeqProperties
<1> HIDE DEF r
<1>3. r \in Seq(Nat) /\ Len(r) = n - a /\ \A i \in 1 .. n - a : r[i] = s[a + i]
  BY <1>1, <1>2
<1> QED
  BY <1>3 DEF r

Copied == CopyTicks(tick_cursor.time, tick_cursor.same + BatchSize)
NewTicks == SubSeq(Copied, tick_cursor.same + 1, Min({Len(Copied), tick_cursor.same + BatchSize}))

\* What TryCollectAndStream takes from CopyTicks: the ticks that follow the cursor.
LEMMA TakenFollow ==
  ASSUME CursorLimits, HistoryOK, NEW p, Stands(tick_cursor, p)
  PROVE  /\ NewTicks \in Seq(Nat) /\ p + Len(NewTicks) \in 1 .. Len(tick_history) + 1
         /\ \A i \in DOMAIN NewTicks : NewTicks[i] = p + i - 1 /\ NewTicks[i] \in DOMAIN tick_history
<1> DEFINE f == FirstPlaceFrom(tick_cursor.time)
           count == tick_cursor.same + BatchSize
           L == Len(tick_history)
<1>1. /\ L \in Nat /\ DOMAIN tick_history = 1 .. L /\ BatchSize \in Nat \ {0}
      /\ tick_cursor.same \in Nat /\ count \in Nat /\ count > tick_cursor.same
      /\ tick_cursor.time \in Nat
  BY HistoryFacts DEF CursorLimits, Stands, Cursors
<1>2. f \in 1 .. L + 1
  BY <1>1, FirstPlace
<1>3. p = f + tick_cursor.same /\ p \in 1 .. L + 1
  BY DEF Stands
<1> HIDE DEF f, L
<1>4. CASE loading
  <2>1. Copied = << >> /\ Len(Copied) = 0
    BY <1>4 DEF CopyTicks, Copied
  <2>2. Min({Len(Copied), count}) = 0
    BY <1>1, <2>1, MinOfTwo
  <2>3. NewTicks = << >>
    BY <1>1, <2>1, <2>2, SubSeqEmpty DEF NewTicks
  <2>4. p + 0 \in 1 .. L + 1
    BY <1>1, <1>3
  <2>5. << >> \in Seq(Nat) /\ Len(<< >>) = 0 /\ DOMAIN << >> = {}
    OBVIOUS
  <2>6. L = Len(tick_history)
    BY DEF L
  <2> QED
    BY <2>3, <2>4, <2>5, <2>6, Zenon
<1>5. CASE ~loading
  <2> DEFINE n == Min({count, L - f + 1})
  <2>1. /\ n \in Nat /\ n <= count /\ n <= L - f + 1
        /\ n = count \/ n = L - f + 1
    <3>1. L - f + 1 \in Nat
      BY <1>1, <1>2
    <3> QED
      BY <1>1, <3>1, MinOfTwo
  <2>2. Copied = [i \in 1 .. n |-> f + i - 1]
    BY <1>5 DEF CopyTicks, f, L, Copied
  <2> HIDE DEF n
  <2>3. Copied \in Seq(Nat) /\ Len(Copied) = n /\ \A i \in 1 .. n : Copied[i] = f + i - 1
    BY <1>1, <1>2, <2>1, <2>2
  <2>4. Min({Len(Copied), count}) = n
    BY <1>1, <2>1, <2>3, MinOfTwo
  <2>5. NewTicks = SubSeq(Copied, tick_cursor.same + 1, n)
    BY <2>4 DEF NewTicks
  <2>6. tick_cursor.same <= n
    BY <1>1, <1>2, <1>3, <2>1
  <2> DEFINE s == tick_cursor.same
  <2>7. s \in Nat /\ s <= n /\ p = f + s /\ n <= Len(Copied) /\ NewTicks = SubSeq(Copied, s + 1, n)
    BY <1>1, <1>3, <2>1, <2>3, <2>5, <2>6
  <2> HIDE DEF s
  <2>8. /\ NewTicks \in Seq(Nat) /\ Len(NewTicks) = n - s
        /\ \A i \in 1 .. n - s : NewTicks[i] = Copied[s + i]
    <3>1. Copied \in Seq(Nat) /\ s \in Nat /\ n \in Nat /\ s <= n /\ n <= Len(Copied)
      BY <2>1, <2>3, <2>7
    <3> DEFINE r == SubSeq(Copied, s + 1, n)
    <3>2. r \in Seq(Nat) /\ Len(r) = n - s /\ \A i \in 1 .. n - s : r[i] = Copied[s + i]
      BY <3>1, LaterPart
    <3> HIDE DEF r
    <3>3. NewTicks = r
      BY <2>7 DEF r
    <3> QED
      BY <3>2, <3>3
  <2>9. L \in Nat /\ \A i \in 1 .. n : Copied[i] = f + i - 1
    BY <1>1, <2>3
  <2>10. /\ f + s + Len(NewTicks) \in 1 .. L + 1
         /\ \A i \in DOMAIN NewTicks : NewTicks[i] = f + s + i - 1 /\ NewTicks[i] \in 1 .. L
    <3>1. f + s + Len(NewTicks) \in 1 .. L + 1
      BY <1>2, <2>1, <2>7, <2>8, <2>9
    <3>2. DOMAIN NewTicks = 1 .. n - s
      BY <2>1, <2>7, <2>8
    <3>3. ASSUME NEW i \in 1 .. n - s
          PROVE  NewTicks[i] = f + s + i - 1 /\ NewTicks[i] \in 1 .. L
      <4>1. s + i \in 1 .. n
        BY <2>1, <2>7
      <4>2. NewTicks[i] = f + (s + i) - 1
        BY <2>8, <2>9, <4>1
      <4> QED
        BY <1>2, <2>1, <2>7, <2>9, <4>1, <4>2
    <3> QED
      BY <3>1, <3>2, <3>3
  <2>11. L = Len(tick_history)
    BY DEF L
  <2> QED
    BY <1>1, <2>7, <2>8, <2>10, <2>11
<1> QED
  BY <1>4, <1>5

\* The cursor the packet will be committed with stands behind the packet.
LEMMA CandidateStands ==
  ASSUME CursorLimits, HistoryOK, NEW p, Stands(tick_cursor, p), NEW new \in Seq(Nat),
         p + Len(new) \in 1 .. Len(tick_history) + 1,
         \A i \in DOMAIN new : new[i] = p + i - 1 /\ new[i] \in DOMAIN tick_history
  PROVE  Stands(CursorAfter(new), p + Len(new))
<1> DEFINE CursorsAt(k) == {c \in Cursors : Stands(c, p + k)}
           R == [k \in 0 .. Len(new) |-> CursorsAt(k)]
<1>1. Len(new) \in Nat /\ DOMAIN new = 1 .. Len(new) /\ p \in Nat
  <2>1. Len(tick_history) \in Nat
    BY HistoryFacts
  <2> QED
    BY <2>1 DEF Stands
<1>2. tick_cursor \in R[0]
  <2>1. p + 0 = p /\ tick_cursor \in Cursors
    BY <1>1 DEF Stands
  <2> QED
    BY <1>1, <2>1
<1>3. ASSUME NEW k \in 1 .. Len(new)
      PROVE  \A c \in R[k - 1] : CountTick(c, tick_history[new[k]]) \in R[k]
  <2>1. k - 1 \in 0 .. Len(new) /\ k \in 0 .. Len(new) /\ k \in DOMAIN new
        /\ p + k - 1 = p + (k - 1) /\ p + (k - 1) + 1 = p + k
    BY <1>1
  <2>2. new[k] = p + (k - 1) /\ p + (k - 1) \in DOMAIN tick_history
    BY <2>1
  <2> DEFINE q == p + (k - 1)
  <2>3. R[k - 1] = {c \in Cursors : Stands(c, q)} /\ R[k] = {c \in Cursors : Stands(c, q + 1)}
    BY <2>1
  <2>4. new[k] = q /\ q \in DOMAIN tick_history
    BY <2>2
  <2> HIDE DEF q, R
  <2> SUFFICES ASSUME NEW c \in R[k - 1]
               PROVE  CountTick(c, tick_history[q]) \in R[k]
    BY <2>4
  <2>5. Stands(c, q)
    BY <2>3
  <2>6. Stands(CountTick(c, tick_history[q]), q + 1)
    BY <2>4, <2>5, CountedStands
  <2>7. CountTick(c, tick_history[q]) \in Cursors
    BY <2>6 DEF Stands
  <2> QED
    BY <2>3, <2>6, <2>7
<1>4. CursorAfter(new) \in R[Len(new)]
  <2> HIDE DEF R
  <2> QED
    BY <1>2, <1>3, CursorReaches
<1> QED
  BY <1>1, <1>4

\* What the invariant says of the cursors and packets, when the history is the same.
LEMMA CollectKeeps ==
  ASSUME CursorLimits, CursorInv, Collect
  PROVE  CursorInv'
<1> USE DEF CursorLimits
<1>1. /\ HistoryOK /\ HistoryOK' /\ phase # "idle" /\ outstanding = << >>
      /\ Stands(tick_cursor, NextPlace)
      /\ UNCHANGED <<tick_history, loading, tick_cursor, warm_from, streamed>>
  <2>1. phase # "idle" /\ outstanding = << >>
        /\ UNCHANGED <<tick_history, loading, tick_cursor, warm_from, streamed>>
    BY DEF Collect
  <2>2. HistoryOK /\ Stands(tick_cursor, NextPlace)
    BY <2>1 DEF CursorInv
  <2> QED
    BY <2>1, <2>2, SameHistory
<1>2. Stands(tick_cursor, NextPlace)' /\ NextPlace' = NextPlace
  <2>1. NextPlace' = NextPlace
    BY <1>1 DEF NextPlace
  <2>2. \A c, p : Stands(c, p) <=> Stands(c, p)'
    BY <1>1, SameHistory
  <2> QED
    BY <1>1, <2>1, <2>2 DEF Stands, FirstPlaceFrom, TimeOfLast
<1>3. CASE /\ tick_cursor.same + BatchSize > MaxSameMsScan
           /\ blocked' = TRUE
           /\ UNCHANGED <<phase, outstanding, candidate, zero_retries>>
  BY <1>1, <1>2, <1>3 DEF CursorInv
<1>4. CASE /\ zero_retries' = IF phase = "WARMING" /\ TimeOfLast - tick_cursor.time > 1
                              THEN zero_retries + 1 ELSE zero_retries
           /\ phase' = IF /\ phase = "WARMING" /\ TimeOfLast - tick_cursor.time > 1
                          /\ ~GivesUp(zero_retries') THEN phase ELSE BecomeLive
           /\ blocked' = FALSE
           /\ UNCHANGED <<outstanding, candidate>>
  <2>1. /\ zero_retries' \in 0 .. ZeroRetries
        /\ phase' = "WARMING" => zero_retries' < ZeroRetries
        /\ phase' \in {"WARMING", "LIVE"}
    <3>1. /\ phase \in {"WARMING", "LIVE"} /\ zero_retries \in 0 .. ZeroRetries
          /\ phase = "WARMING" => zero_retries < ZeroRetries
      BY <1>1 DEF CursorInv
    <3>2. CASE phase = "WARMING" /\ TimeOfLast - tick_cursor.time > 1
      <4>1. zero_retries' = zero_retries + 1
        BY <1>4, <3>2
      <4>2. phase' = IF GivesUp(zero_retries') THEN "LIVE" ELSE "WARMING"
        BY <1>4, <3>2 DEF BecomeLive
      <4> QED
        BY <3>1, <3>2, <4>1, <4>2 DEF GivesUp
    <3>3. CASE ~(phase = "WARMING" /\ TimeOfLast - tick_cursor.time > 1)
      <4>1. zero_retries' = zero_retries /\ phase' = BecomeLive
        BY <1>4, <3>3
      <4>2. phase' = "LIVE"
        BY <3>1, <4>1 DEF BecomeLive
      <4> QED
        BY <3>1, <4>1, <4>2
    <3> QED
      BY <3>2, <3>3
  <2> QED
    BY <1>1, <1>2, <1>4, <2>1 DEF CursorInv
<1>5. CASE /\ zero_retries' = 0
           /\ outstanding' = NewTicks
           /\ candidate' = IF NewTicks = << >> THEN candidate ELSE CursorAfter(NewTicks)
           /\ phase' = IF NewTicks = << >> THEN BecomeLive ELSE phase
           /\ blocked' = FALSE
  <2>1. /\ NewTicks \in Seq(Nat) /\ NextPlace + Len(NewTicks) \in 1 .. Len(tick_history) + 1
        /\ \A i \in DOMAIN NewTicks : NewTicks[i] = NextPlace + i - 1
                                       /\ NewTicks[i] \in DOMAIN tick_history
    BY <1>1, TakenFollow
  <2>2. Stands(CursorAfter(NewTicks), NextPlace + Len(NewTicks))
    BY <1>1, <2>1, CandidateStands
  <2>3. NewTicks # << >> => Stands(candidate, NextPlace + Len(outstanding))'
    <3>1. SUFFICES ASSUME NewTicks # << >>
                   PROVE  Stands(candidate, NextPlace + Len(outstanding))'
      OBVIOUS
    <3>2. candidate' = CursorAfter(NewTicks) /\ outstanding' = NewTicks
      BY <1>5, <3>1
    <3> QED
      BY <1>1, <1>2, <2>2, <3>2 DEF Stands, FirstPlaceFrom, TimeOfLast
  <2>4. candidate' \in Cursors
    BY <1>5, <2>2 DEF CursorInv, Stands
  <2>5. /\ phase' \in {"WARMING", "LIVE"}
        /\ phase' = "WARMING" => zero_retries' < ZeroRetries
        /\ zero_retries' \in 0 .. ZeroRetries
    BY <1>1, <1>5 DEF CursorInv, BecomeLive
  <2>6. outstanding' \in Seq(Nat)
        /\ \A i \in DOMAIN outstanding' : outstanding'[i] = NextPlace' + i - 1
    BY <1>2, <1>5, <2>1
  <2>7. outstanding' # << >> => NewTicks # << >>
    BY <1>5
  <2> QED
    BY <1>1, <1>2, <1>5, <2>3, <2>4, <2>5, <2>6, <2>7 DEF CursorInv
<1> QED
  BY <1>3, <1>4, <1>5 DEF Collect, NewTicks, Copied

LEMMA CommitKeeps ==
  ASSUME CursorLimits, CursorInv, CommitAck
  PROVE  CursorInv'
<1>1. /\ outstanding # << >> /\ tick_cursor' = candidate
      /\ streamed' = streamed \o outstanding /\ outstanding' = << >>
      /\ UNCHANGED <<tick_history, loading, phase, candidate, zero_retries, warm_from, blocked>>
  BY DEF CommitAck
<1>2. /\ HistoryOK' /\ phase # "idle" /\ ~blocked
      /\ outstanding \in Seq(Nat) /\ streamed \in Seq(Nat) /\ warm_from \in Nat \ {0}
      /\ Stands(candidate, NextPlace + Len(outstanding))
      /\ \A i \in DOMAIN streamed : streamed[i] = warm_from + i - 1
      /\ \A i \in DOMAIN outstanding : outstanding[i] = warm_from + Len(streamed) + i - 1
  BY <1>1, SameHistory DEF CursorInv, NextPlace
<1>3. /\ streamed' \in Seq(Nat) /\ Len(streamed') = Len(streamed) + Len(outstanding)
      /\ \A i \in DOMAIN streamed' : streamed'[i] = warm_from + i - 1
  <2>1. /\ streamed' \in Seq(Nat) /\ Len(streamed') = Len(streamed) + Len(outstanding)
        /\ DOMAIN streamed' = 1 .. Len(streamed) + Len(outstanding)
        /\ Len(streamed) \in Nat /\ Len(outstanding) \in Nat
        /\ DOMAIN streamed = 1 .. Len(streamed) /\ DOMAIN outstanding = 1 .. Len(outstanding)
    BY <1>1, <1>2
  <2>2. ASSUME NEW i \in DOMAIN streamed'
        PROVE  streamed'[i] = warm_from + i - 1
    <3>1. CASE i <= Len(streamed)
      <4>1. streamed'[i] = streamed[i] /\ i \in DOMAIN streamed
        BY <1>1, <1>2, <2>1, <3>1
      <4> QED
        BY <1>2, <4>1
    <3>2. CASE i > Len(streamed)
      <4>1. streamed'[i] = outstanding[i - Len(streamed)] /\ i - Len(streamed) \in DOMAIN outstanding
        BY <1>1, <1>2, <2>1, <3>2, SMTT(30)
      <4> QED
        BY <1>2, <2>1, <4>1
    <3> QED
      BY <2>1, <3>1, <3>2
  <2> QED
    BY <2>1, <2>2
<1>4. NextPlace' = NextPlace + Len(outstanding)
  BY <1>1, <1>2, <1>3 DEF NextPlace
<1>5. Stands(tick_cursor, NextPlace)'
  BY <1>1, <1>2, <1>4 DEF Stands, FirstPlaceFrom, TimeOfLast
<1>6. tick_cursor' \in Cursors
  BY <1>5 DEF Stands, Cursors
<1>7. outstanding' \in Seq(Nat) /\ DOMAIN outstanding' = {}
  BY <1>1
<1>8. /\ candidate' \in Cursors /\ warm_from' \in Nat \ {0} /\ warm_from' = warm_from
      /\ phase' \in {"idle", "WARMING", "LIVE"} /\ zero_retries' \in 0 .. ZeroRetries
      /\ phase' = "WARMING" => zero_retries' < ZeroRetries
  BY <1>1 DEF CursorInv
<1>9. phase' # "idle" /\ ~blocked'
  BY <1>1, <1>2
<1>10. /\ phase' # "idle" => Stands(tick_cursor, NextPlace)'
       /\ outstanding' = << >> /\ (phase' = "idle" => FALSE)
       /\ (blocked' => FALSE) /\ \A i \in DOMAIN outstanding' : FALSE
  BY <1>1, <1>5, <1>7, <1>9
<1> HIDE DEF HistoryOK, Stands, NextPlace, Cursors
<1> QED
  BY <1>2, <1>3, <1>6, <1>7, <1>8, <1>10 DEF CursorInv

LEMMA CursorStep ==
  ASSUME CursorLimits, CursorInv, [CursorNext]_cursorVars
  PROVE  CursorInv'
<1>1. CASE TickArrives
  <2>1. HistoryOK' /\ \A c, p : Stands(c, p) => Stands(c, p)'
    BY <1>1, ArrivalLeavesCursor DEF CursorInv
  <2>2. UNCHANGED <<loading, tick_cursor, phase, outstanding, candidate, zero_retries,
                    warm_from, streamed, blocked>>
    BY <1>1 DEF TickArrives
  <2>3. NextPlace' = NextPlace
    BY <2>2 DEF NextPlace
  <2>4. ASSUME phase # "idle"
        PROVE  Stands(tick_cursor, NextPlace)'
    <3>1. PICK c, p : c = tick_cursor /\ p = NextPlace
      OBVIOUS
    <3>2. Stands(c, p)'
      BY <2>1, <2>4, <3>1 DEF CursorInv
    <3> QED
      BY <2>2, <2>3, <3>1, <3>2 DEF Stands, FirstPlaceFrom, TimeOfLast
  <2>5. ASSUME outstanding # << >>
        PROVE  Stands(candidate, NextPlace + Len(outstanding))'
    <3>1. PICK c, p : c = candidate /\ p = NextPlace + Len(outstanding)
      OBVIOUS
    <3>2. Stands(c, p)'
      BY <2>1, <2>5, <3>1 DEF CursorInv
    <3> QED
      BY <2>2, <2>3, <3>1, <3>2 DEF Stands, FirstPlaceFrom, TimeOfLast
  <2> QED
    BY <2>1, <2>2, <2>3, <2>4, <2>5 DEF CursorInv
<1>2. CASE HistoryLoaded \/ UNCHANGED cursorVars
  <2>1. UNCHANGED <<tick_history, tick_cursor, phase, outstanding, candidate, zero_retries,
                    warm_from, streamed, blocked>>
    BY <1>2 DEF HistoryLoaded, cursorVars
  <2> QED
    BY <2>1 DEF CursorInv, HistoryOK, NextPlace, Stands, FirstPlaceFrom, TimeOfLast
<1>3. CASE PerformWarmup
  <2>1. PICK t \in 1 .. TimeOfLast :
          /\ tick_cursor' = [time |-> t, same |-> 0]
          /\ warm_from' = FirstPlaceFrom(t)
          /\ phase' = "WARMING" /\ outstanding' = << >> /\ zero_retries' = 0
          /\ streamed' = << >> /\ blocked' = FALSE
          /\ UNCHANGED <<tick_history, loading, candidate>>
    BY <1>3 DEF PerformWarmup
  <2>2. /\ HistoryOK /\ HistoryOK' /\ FirstPlaceFrom(t) \in Nat \ {0}
        /\ Stands([time |-> t, same |-> 0], FirstPlaceFrom(t))
    BY <2>1, WarmupStands, SameHistory DEF CursorInv
  <2>3. NextPlace' = FirstPlaceFrom(t) /\ streamed' \in Seq(Nat) /\ outstanding' \in Seq(Nat)
        /\ DOMAIN streamed' = {} /\ DOMAIN outstanding' = {}
    BY <2>1, <2>2 DEF NextPlace
  <2>4. Stands(tick_cursor, NextPlace)' /\ tick_cursor' \in Cursors
    BY <2>1, <2>2, <2>3 DEF Stands, FirstPlaceFrom, TimeOfLast
  <2> QED
    BY <2>1, <2>2, <2>3, <2>4 DEF CursorInv, CursorLimits
<1> QED
  BY <1>1, <1>2, <1>3, CollectKeeps, CommitKeeps DEF CursorNext

-----------------------------------------------------------------------------

\* The cursor counts ticks of one millisecond only, so a blocked one stands in a burst.
LEMMA CursorCounts ==
  ASSUME CursorLimits, HistoryOK, NEW p, Stands(tick_cursor, p)
  PROVE  LET together == {i \in DOMAIN tick_history : tick_history[i] = tick_cursor.time}
         IN Cardinality(together) \in Nat /\ Cardinality(together) >= tick_cursor.same
<1> DEFINE together == {i \in DOMAIN tick_history : tick_history[i] = tick_cursor.time}
           f == FirstPlaceFrom(tick_cursor.time)
           counted == f .. p - 1
<1>1. /\ Len(tick_history) \in Nat /\ DOMAIN tick_history = 1 .. Len(tick_history)
      /\ \A i \in DOMAIN tick_history : tick_history[i] \in 1 .. LastMs
      /\ tick_cursor.time \in Nat /\ tick_cursor.same \in Nat
  BY HistoryFacts DEF Stands, Cursors, CursorLimits
<1>2. /\ f \in 1 .. Len(tick_history) + 1
      /\ \A i \in DOMAIN tick_history : tick_history[i] < tick_cursor.time <=> i < f
  BY <1>1, FirstPlace
<1>3. /\ f + tick_cursor.same = p /\ p \in 1 .. Len(tick_history) + 1
      /\ \A i \in DOMAIN tick_history : i < p => tick_history[i] <= tick_cursor.time
  BY DEF Stands
<1> HIDE DEF f
<1>4. counted \subseteq together
  <2> SUFFICES ASSUME NEW i \in counted PROVE i \in together
    OBVIOUS
  <2>1. i \in DOMAIN tick_history /\ i < p /\ ~(i < f)
    BY <1>1, <1>2, <1>3
  <2> QED
    BY <1>1, <1>2, <1>3, <2>1
<1>5. IsFiniteSet(counted) /\ Cardinality(counted) = tick_cursor.same
  <2>1. f \in Int /\ p - 1 \in Int /\ f <= p - 1 + 1 /\ p - 1 - f + 1 = tick_cursor.same
    BY <1>1, <1>2, <1>3
  <2> QED
    BY <1>1, <2>1, FS_Interval
<1>6. IsFiniteSet(together)
  <2>1. IsFiniteSet(1 .. Len(tick_history)) /\ together \subseteq 1 .. Len(tick_history)
    BY <1>1, FS_Interval
  <2> QED
    BY <2>1, FS_Subset
<1> HIDE DEF together, counted
<1>7. Cardinality(counted) <= Cardinality(together) /\ Cardinality(together) \in Nat
  BY <1>4, <1>6, FS_Subset, FS_CardinalityType
<1> QED
  BY <1>1, <1>5, <1>7 DEF together

LEMMA CursorCorrect ==
  ASSUME CursorLimits, CursorInv
  PROVE  CollectorCorrect
<1>1. CursorTypeOK
  BY DEF CursorInv, CursorTypeOK, Cursors
<1>2. StreamIsTheHistory
  <2>1. /\ outstanding \in Seq(Nat) /\ streamed \in Seq(Nat) /\ warm_from \in Nat
        /\ \A i \in DOMAIN streamed : streamed[i] = warm_from + i - 1
        /\ \A i \in DOMAIN outstanding : outstanding[i] = warm_from + Len(streamed) + i - 1
    BY DEF CursorInv, NextPlace
  <2> DEFINE all == streamed \o outstanding
  <2>2. /\ DOMAIN all = 1 .. Len(streamed) + Len(outstanding)
        /\ Len(streamed) \in Nat /\ Len(outstanding) \in Nat
        /\ DOMAIN streamed = 1 .. Len(streamed) /\ DOMAIN outstanding = 1 .. Len(outstanding)
    BY <2>1
  <2>3. ASSUME NEW i \in DOMAIN all
        PROVE  all[i] = warm_from + i - 1
    <3>1. CASE i <= Len(streamed)
      <4>1. all[i] = streamed[i] /\ i \in DOMAIN streamed
        BY <2>1, <2>2, <3>1
      <4> QED
        BY <2>1, <4>1
    <3>2. CASE i > Len(streamed)
      <4>1. all[i] = outstanding[i - Len(streamed)] /\ i - Len(streamed) \in DOMAIN outstanding
        BY <2>1, <2>2, <3>2
      <4> QED
        BY <2>1, <2>2, <4>1
    <3> QED
      BY <2>2, <3>1, <3>2
  <2> QED
    BY <2>3 DEF StreamIsTheHistory
<1>3. BlockedOnlyByBurst
  <2> SUFFICES ASSUME blocked
               PROVE  Cardinality({i \in DOMAIN tick_history : tick_history[i] = tick_cursor.time})
                        > MaxSameMsScan - BatchSize
    BY DEF BlockedOnlyByBurst
  <2>1. /\ Stands(tick_cursor, NextPlace) /\ HistoryOK
        /\ tick_cursor.same + BatchSize > MaxSameMsScan
        /\ tick_cursor.same \in 0 .. MaxTicks
    BY DEF CursorInv, Cursors
  <2> DEFINE n == Cardinality({i \in DOMAIN tick_history : tick_history[i] = tick_cursor.time})
  <2>2. n \in Nat /\ n >= tick_cursor.same
    BY <2>1, CursorCounts
  <2> HIDE DEF n
  <2>3. n > MaxSameMsScan - BatchSize
    BY <2>1, <2>2 DEF CursorLimits
  <2> QED
    BY <2>3 DEF n
<1> QED
  BY <1>1, <1>2, <1>3 DEF CollectorCorrect

\* Whatever ticks arrive and however they share their milliseconds, the EA streams
\* the history from where its warm-up began, every tick once and in order, and is
\* blocked only by a burst longer than its scan (CollectAndStreamTicks).
THEOREM CollectorIsCorrect == CursorLimits /\ CursorSpec => []CollectorCorrect
<1> SUFFICES ASSUME CursorLimits PROVE CursorSpec => []CollectorCorrect
  OBVIOUS
<1>1. CursorInit => CursorInv
  BY CursorInitially
<1>2. CursorInv /\ [CursorNext]_cursorVars => CursorInv'
  BY CursorStep
<1>3. CursorInv => CollectorCorrect
  BY CursorCorrect
<1> QED
  BY <1>1, <1>2, <1>3, PTL DEF CursorSpec

-----------------------------------------------------------------------------
(* Pairing the moves of two brokers (EventMatcher).                           *)

Moves == [broker : MatchedBrokers, at : 0 .. LastReceive, seq : Nat, from : Mids, to : Mids,
          direction : {"Up", "Down"}]
Matches == [leader : Moves, follower : Moves]

\* Each detector's last event ended at its anchor and began its cooldown.
DetectorInv ==
  /\ anchor \in [MatchedBrokers -> Mids \cup {NoQuote}]
  /\ cooldown_until \in [MatchedBrokers -> 0 .. LastReceive + Cooldown]
  /\ quotes_received \in [last : [MatchedBrokers -> 0 .. LastReceive], count : Nat]
  /\ fired \in [MatchedBrokers -> Seq(Moves)]
  /\ \A b \in MatchedBrokers :
       /\ Len(fired[b]) <= 2
       /\ fired[b] # << >> =>
            /\ anchor[b] = fired[b][Len(fired[b])].to
            /\ cooldown_until[b] = fired[b][Len(fired[b])].at + Cooldown
  /\ EventsAreSpaced

AllDifferent(s) == \A i, j \in DOMAIN s : s[i] = s[j] => i = j

\* The waiting and the matched events are all different and older than the n-th
\* quote.
QueueInv(n) ==
  /\ pending_events \in [MatchedBrokers -> Seq(Moves)]
  /\ matches \in Seq(Matches)
  /\ \A b \in MatchedBrokers :
       /\ Len(pending_events[b]) <= PendingCapacity
       /\ \A i \in DOMAIN pending_events[b] :
            pending_events[b][i].broker = b /\ pending_events[b][i].seq < n
       /\ AllDifferent(pending_events[b])
  /\ \A i \in DOMAIN matches : matches[i].leader.seq < n /\ matches[i].follower.seq < n
  /\ NoPairLeftWaiting /\ MatchedOnce /\ LeaderMovedFirst

MatcherInv == DetectorInv /\ QueueInv(quotes_received.count)

\* The distance of two times.
LEMMA Differences ==
  ASSUME NEW t \in Nat, NEW u \in Nat
  PROVE  Apart(t, u) \in Nat /\ Apart(t, u) = Apart(u, t)
BY DEF Apart

\* The best match is one of the candidates.
LEMMA BestMatchIsEligible ==
  ASSUME MatcherLimits, NEW e \in Moves, NEW queue \in Seq(Moves),
         \E i \in DOMAIN queue : Eligible(e, queue[i])
  PROVE  /\ BestMatch(e, queue) \in DOMAIN queue
         /\ Eligible(e, queue[BestMatch(e, queue)])
<1> DEFINE candidates == {i \in DOMAIN queue : Eligible(e, queue[i])}
           distance(i) == Apart(e.at, queue[i].at)
           better(i, j) == \/ distance(i) < distance(j)
                           \/ distance(i) = distance(j) /\ queue[i].seq <= queue[j].seq
<1>1. \A i \in DOMAIN queue : queue[i] \in Moves
  <2> HIDE DEF Moves
  <2> QED
    OBVIOUS
<1>2. \A i \in DOMAIN queue : distance(i) \in Nat /\ queue[i].seq \in Nat
  <2> SUFFICES ASSUME NEW i \in DOMAIN queue
               PROVE  distance(i) \in Nat /\ queue[i].seq \in Nat
    OBVIOUS
  <2>1. queue[i].at \in Nat /\ queue[i].seq \in Nat /\ e.at \in Nat
    BY <1>1 DEF Moves, MatcherLimits
  <2> QED
    BY <2>1, Differences
<1>3. candidates # {}
  OBVIOUS
<1> HIDE DEF distance
<1>4. PICK d \in {distance(i) : i \in candidates} : \A k \in {distance(i) : i \in candidates} : d <= k
  <2>1. {distance(i) : i \in candidates} \in SUBSET Nat /\ {distance(i) : i \in candidates} # {}
    BY <1>2, <1>3
  <2> QED
    BY <2>1, LeastExists
<1> DEFINE nearest == {i \in candidates : distance(i) = d}
<1>5. PICK s \in {queue[i].seq : i \in nearest} : \A k \in {queue[i].seq : i \in nearest} : s <= k
  <2>1. {queue[i].seq : i \in nearest} \in SUBSET Nat /\ {queue[i].seq : i \in nearest} # {}
    BY <1>2, <1>4
  <2> QED
    BY <2>1, LeastExists
<1>6. PICK best \in nearest : queue[best].seq = s
  BY <1>5
<1>7. best \in candidates /\ \A j \in candidates : better(best, j)
  <2> SUFFICES ASSUME NEW j \in candidates PROVE better(best, j)
    BY <1>6
  <2>1. distance(best) = d /\ d <= distance(j) /\ distance(j) \in Nat /\ distance(best) \in Nat
    BY <1>2, <1>4, <1>6
  <2>2. CASE distance(j) = d
    BY <1>5, <1>6, <2>1, <2>2
  <2>3. CASE distance(j) # d
    BY <2>1, <2>3
  <2> QED
    BY <2>2, <2>3
<1>8. BestMatch(e, queue) = CHOOSE i \in candidates : \A j \in candidates : better(i, j)
  BY DEF BestMatch, distance
<1> HIDE DEF candidates, better, nearest
<1>9. BestMatch(e, queue) \in candidates
  BY <1>7, <1>8
<1> QED
  BY <1>9 DEF candidates

\* What is left when one element is taken out.
LEMMA TakenOut ==
  ASSUME NEW S, NEW s \in Seq(S), NEW i \in DOMAIN s
  PROVE  /\ RemoveAt(s, i) \in Seq(S) /\ Len(RemoveAt(s, i)) = Len(s) - 1
         /\ \A j \in DOMAIN RemoveAt(s, i) :
              LET k == IF j < i THEN j ELSE j + 1
              IN k \in DOMAIN s /\ k # i /\ RemoveAt(s, i)[j] = s[k]
<1> DEFINE front == SubSeq(s, 1, i - 1)
           back == SubSeq(s, i + 1, Len(s))
<1>1. Len(s) \in Nat /\ DOMAIN s = 1 .. Len(s) /\ i \in 1 .. Len(s) /\ \A j \in 1 .. Len(s) : s[j] \in S
  OBVIOUS
<1>2. /\ front \in Seq(S) /\ Len(front) = i - 1
      /\ \A j \in 1 .. i - 1 : front[j] = s[j]
  <2>1. /\ 1 \in Int /\ i - 1 \in Int /\ (\A j \in 1 .. i - 1 : s[j] \in S)
        /\ (IF 1 <= i - 1 THEN i - 1 - 1 + 1 ELSE 0) = i - 1
        /\ i - 1 - 1 + 1 = i - 1 /\ \A j \in 1 .. i - 1 : 1 + j - 1 = j
    BY <1>1
  <2> QED
    BY <2>1, SubSeqProperties
<1>3. /\ back \in Seq(S) /\ Len(back) = Len(s) - i
      /\ \A j \in 1 .. Len(s) - i : back[j] = s[i + j]
  <2>1. /\ i + 1 \in Int /\ Len(s) \in Int /\ (\A j \in i + 1 .. Len(s) : s[j] \in S)
        /\ (IF i + 1 <= Len(s) THEN Len(s) - (i + 1) + 1 ELSE 0) = Len(s) - i
        /\ Len(s) - (i + 1) + 1 = Len(s) - i /\ \A j \in 1 .. Len(s) - i : i + 1 + j - 1 = i + j
    BY <1>1
  <2> QED
    BY <2>1, SubSeqProperties
<1>4. RemoveAt(s, i) = front \o back
  BY DEF RemoveAt
<1> HIDE DEF front, back
<1> DEFINE whole == front \o back
<1>5. /\ whole \in Seq(S) /\ Len(whole) = Len(s) - 1
      /\ DOMAIN whole = 1 .. Len(s) - 1
  <2>1. whole \in Seq(S) /\ Len(whole) = Len(front) + Len(back)
    BY <1>2, <1>3, ConcatProperties
  <2> HIDE DEF whole
  <2>2. Len(whole) = Len(s) - 1
    BY <1>1, <1>2, <1>3, <2>1
  <2>3. DOMAIN whole = 1 .. Len(whole)
    BY <2>1
  <2> QED
    BY <2>1, <2>2, <2>3
<1>6. \A j \in 1 .. Len(s) - 1 : whole[j] = IF j <= i - 1 THEN front[j] ELSE back[j - (i - 1)]
  BY <1>1, <1>2, <1>3, ConcatProperties
<1> HIDE DEF whole
<1>7. ASSUME NEW j \in 1 .. Len(s) - 1
      PROVE  /\ j < i => j \in DOMAIN s /\ j # i /\ whole[j] = s[j]
             /\ ~(j < i) => j + 1 \in DOMAIN s /\ j + 1 # i /\ whole[j] = s[j + 1]
  <2>1. CASE j < i
    <3>1. j \in 1 .. i - 1 /\ j \in 1 .. Len(s) /\ j <= i - 1
      BY <1>1, <2>1
    <3> QED
      BY <1>1, <1>2, <1>6, <2>1, <3>1
  <2>2. CASE ~(j < i)
    <3>1. j - (i - 1) \in 1 .. Len(s) - i /\ i + (j - (i - 1)) = j + 1 /\ j + 1 \in 1 .. Len(s)
          /\ j + 1 # i /\ ~(j <= i - 1)
      BY <1>1, <2>2
    <3>2. whole[j] = back[j - (i - 1)]
      BY <1>6, <3>1
    <3>3. back[j - (i - 1)] = s[j + 1]
      BY <1>3, <3>1
    <3> QED
      BY <1>1, <2>2, <3>1, <3>2, <3>3
  <2> QED
    BY <2>1, <2>2
<1>8. RemoveAt(s, i) = whole
  BY <1>4 DEF whole
<1> QED
  BY <1>5, <1>7, <1>8

\* A queue without one of its elements.
LEMMA QueueWithout ==
  ASSUME NEW S, NEW q \in Seq(S), NEW i \in DOMAIN q, AllDifferent(q)
  PROVE  /\ RemoveAt(q, i) \in Seq(S) /\ Len(RemoveAt(q, i)) = Len(q) - 1
         /\ AllDifferent(RemoveAt(q, i))
         /\ \A j \in DOMAIN RemoveAt(q, i) :
              /\ \E k \in DOMAIN q : RemoveAt(q, i)[j] = q[k]
              /\ RemoveAt(q, i)[j] # q[i]
<1> DEFINE r == RemoveAt(q, i)
           place(j) == IF j < i THEN j ELSE j + 1
<1>1. /\ r \in Seq(S) /\ Len(r) = Len(q) - 1
      /\ \A j \in DOMAIN r : place(j) \in DOMAIN q /\ place(j) # i /\ r[j] = q[place(j)]
  BY TakenOut
<1>2. ASSUME NEW j \in DOMAIN r, NEW k \in DOMAIN r, place(j) = place(k) PROVE j = k
  <2>1. j \in Int /\ k \in Int /\ i \in Int
    BY <1>1
  <2> QED
    BY <1>2, <2>1
<1> HIDE DEF r, place
<1>3. AllDifferent(r)
  BY <1>1, <1>2 DEF AllDifferent
<1>4. \A j \in DOMAIN r : (\E k \in DOMAIN q : r[j] = q[k]) /\ r[j] # q[i]
  BY <1>1 DEF AllDifferent
<1> QED
  BY <1>1, <1>3, <1>4 DEF r

\* A queue with a new element, which may have pushed out the oldest one.
LEMMA QueueWith ==
  ASSUME MatcherLimits, NEW q \in Seq(Moves), NEW e \in Moves, AllDifferent(q),
         Len(q) <= PendingCapacity, \A k \in DOMAIN q : q[k] # e
  PROVE  /\ Queued(q, e) \in Seq(Moves) /\ Len(Queued(q, e)) <= PendingCapacity
         /\ AllDifferent(Queued(q, e))
         /\ \A j \in DOMAIN Queued(q, e) :
              Queued(q, e)[j] = e \/ \E k \in DOMAIN q : Queued(q, e)[j] = q[k]
<1> DEFINE rest == IF Len(q) >= PendingCapacity THEN Tail(q) ELSE q
           n == Len(rest)
           r == Queued(q, e)
<1>1. PendingCapacity \in Nat /\ PendingCapacity > 0
  BY DEF MatcherLimits
<1>2. /\ rest \in Seq(Moves) /\ n \in Nat /\ n + 1 <= PendingCapacity
      /\ AllDifferent(rest)
      /\ \A j \in DOMAIN rest : \E k \in DOMAIN q : rest[j] = q[k]
  <2> HIDE DEF Moves
  <2>1. CASE Len(q) >= PendingCapacity
    <3>1. q # << >> /\ Len(q) \in Nat
      BY <1>1, <2>1
    <3>2. /\ Tail(q) \in Seq(Moves) /\ Len(Tail(q)) = Len(q) - 1
          /\ \A j \in 1 .. Len(q) - 1 : Tail(q)[j] = q[j + 1]
      BY <3>1
    <3>3. DOMAIN Tail(q) = 1 .. Len(q) - 1 /\ DOMAIN q = 1 .. Len(q)
      BY <3>1, <3>2
    <3>4. \A j \in DOMAIN Tail(q) : j \in Int /\ j + 1 \in DOMAIN q /\ Tail(q)[j] = q[j + 1]
      BY <3>1, <3>2, <3>3
    <3>5. AllDifferent(Tail(q))
      <4> SUFFICES ASSUME NEW j \in DOMAIN Tail(q), NEW k \in DOMAIN Tail(q),
                          Tail(q)[j] = Tail(q)[k]
                   PROVE  j = k
        BY DEF AllDifferent
      <4>1. j + 1 = k + 1
        BY <3>4 DEF AllDifferent
      <4> QED
        BY <3>4, <4>1
    <3>6. Len(Tail(q)) \in Nat /\ Len(Tail(q)) + 1 <= PendingCapacity
      BY <1>1, <3>1, <3>2
    <3>7. \A j \in DOMAIN Tail(q) : \E k \in DOMAIN q : Tail(q)[j] = q[k]
      BY <3>4
    <3>8. rest = Tail(q)
      BY <2>1
    <3> HIDE DEF rest
    <3> QED
      BY <3>2, <3>5, <3>6, <3>7, <3>8
  <2>2. CASE ~(Len(q) >= PendingCapacity)
    BY <1>1, <2>2
  <2> QED
    BY <2>1, <2>2
<1>3. r = Append(rest, e)
  BY DEF Queued
<1> HIDE DEF rest, r
<1>4. /\ r \in Seq(Moves) /\ Len(r) = n + 1 /\ DOMAIN r = 1 .. n + 1 /\ DOMAIN rest = 1 .. n
      /\ \A j \in 1 .. n : r[j] = rest[j]
      /\ r[n + 1] = e
  <2> HIDE DEF Moves
  <2> QED
    BY <1>2, <1>3
<1>5. \A j \in DOMAIN rest : rest[j] # e
  BY <1>2
<1>6. \A j \in DOMAIN r : j \in DOMAIN rest \/ j = n + 1
  <2> HIDE DEF n
  <2> QED
    BY <1>2, <1>4
<1>7. AllDifferent(r)
  BY <1>2, <1>4, <1>5, <1>6 DEF AllDifferent
<1>8. \A j \in DOMAIN r : r[j] = e \/ \E k \in DOMAIN q : r[j] = q[k]
  BY <1>2, <1>4, <1>6
<1> QED
  BY <1>2, <1>4, <1>7, <1>8 DEF r

\* An event is paired with the best match or waits (on_event).
LEMMA EventKeepsQueues ==
  ASSUME MatcherLimits, NEW n \in Nat, QueueInv(n), NEW e \in Moves, e.seq = n,
         OnEvent(e)
  PROVE  QueueInv(n + 1)'
<1> DEFINE other == 3 - e.broker
           mine == e.broker
           answered == \E i \in DOMAIN pending_events[other] : Eligible(e, pending_events[other][i])
           events(m) == {m.leader, m.follower}
<1>1. /\ mine \in MatchedBrokers /\ other \in MatchedBrokers /\ mine # other
      /\ \A b \in MatchedBrokers : b = mine \/ b = other
  BY DEF MatchedBrokers, Moves
<1>2. /\ pending_events \in [MatchedBrokers -> Seq(Moves)] /\ matches \in Seq(Matches)
      /\ \A b \in MatchedBrokers :
           /\ Len(pending_events[b]) <= PendingCapacity
           /\ AllDifferent(pending_events[b])
           /\ \A i \in DOMAIN pending_events[b] :
                 pending_events[b][i].broker = b /\ pending_events[b][i].seq < n
                 /\ pending_events[b][i] \in Moves
  <2> HIDE DEF Moves, Matches
  <2>1. \A b \in MatchedBrokers : \A i \in DOMAIN pending_events[b] : pending_events[b][i] \in Moves
    BY DEF QueueInv
  <2> QED
    BY <2>1 DEF QueueInv
<1>3. \A i \in DOMAIN matches : matches[i].leader.seq < n /\ matches[i].follower.seq < n
  BY DEF QueueInv
<1>4. NoPairLeftWaiting /\ MatchedOnce /\ LeaderMovedFirst
  BY DEF QueueInv
<1>5. \A b \in MatchedBrokers : \A i \in DOMAIN pending_events[b] : pending_events[b][i] # e
  BY <1>2
<1>6. CASE answered
  <2> DEFINE queue == pending_events[other]
             best == BestMatch(e, queue)
             f == queue[best]
             left == RemoveAt(queue, best)
             m == Match(e, f)
  <2>1. best \in DOMAIN queue /\ Eligible(e, f) /\ queue \in Seq(Moves)
    BY <1>1, <1>2, <1>6, BestMatchIsEligible
  <2>2. /\ left \in Seq(Moves) /\ Len(left) = Len(queue) - 1 /\ AllDifferent(left)
        /\ \A j \in DOMAIN left : (\E k \in DOMAIN queue : left[j] = queue[k]) /\ left[j] # f
    BY <1>1, <1>2, <2>1, QueueWithout
  <2>3. pending_events' = [pending_events EXCEPT ![other] = left] /\ matches' = Append(matches, m)
    BY <1>6 DEF OnEvent, WithoutMatched
  <2>4. f \in Moves /\ f.broker = other /\ f.seq < n /\ f # e
    BY <1>1, <1>2, <1>5, <2>1
  <2> HIDE DEF best, left, queue, f, answered, other, mine
  <2>5. /\ m \in Matches /\ events(m) = {e, f}
        /\ m.leader.at < m.follower.at /\ m.follower.at - m.leader.at <= MatchingWindow
        /\ m.leader.direction = m.follower.direction /\ m.leader.broker # m.follower.broker
    <3>1. e.at \in Int /\ f.at \in Int /\ e.at # f.at /\ e.direction = f.direction
          /\ Apart(e.at, f.at) <= MatchingWindow /\ e.broker # f.broker
      BY <1>1, <2>1, <2>4 DEF Eligible, Moves, mine, MatcherLimits
    <3>2. CASE e.at < f.at
      <4>1. m = [leader |-> e, follower |-> f] /\ f.at - e.at <= MatchingWindow
        BY <3>1, <3>2 DEF Match, Apart
      <4> HIDE DEF m, Moves
      <4> QED
        BY <2>4, <3>1, <3>2, <4>1 DEF Matches
    <3>3. CASE ~(e.at < f.at)
      <4>1. m = [leader |-> f, follower |-> e] /\ e.at - f.at <= MatchingWindow /\ f.at < e.at
        BY <3>1, <3>3 DEF Match, Apart
      <4> HIDE DEF m, Moves
      <4> QED
        BY <2>4, <3>1, <3>3, <4>1 DEF Matches
    <3> QED
      BY <3>2, <3>3
  <2> HIDE DEF m, Moves, Matches
  <2>6. /\ pending_events' \in [MatchedBrokers -> Seq(Moves)]
        /\ pending_events'[other] = left /\ pending_events'[mine] = pending_events[mine]
    BY <1>1, <1>2, <2>2, <2>3
  <2>7. \A b \in MatchedBrokers : \A i \in DOMAIN pending_events'[b] :
          /\ \E k \in DOMAIN pending_events[b] : pending_events'[b][i] = pending_events[b][k]
          /\ pending_events'[b][i] # f
    <3>1. \A i \in DOMAIN pending_events'[other] :
            /\ \E k \in DOMAIN pending_events[other] : pending_events'[other][i] = pending_events[other][k]
            /\ pending_events'[other][i] # f
      BY <2>2, <2>6 DEF queue
    <3>2. \A i \in DOMAIN pending_events'[mine] : pending_events'[mine][i] # f
      BY <1>1, <1>2, <2>4, <2>6
    <3> QED
      BY <1>1, <2>6, <3>1, <3>2
  <2>8. \A b \in MatchedBrokers : /\ Len(pending_events'[b]) <= PendingCapacity
                                 /\ AllDifferent(pending_events'[b])
    <3>1. Len(queue) <= PendingCapacity /\ Len(queue) \in Nat /\ PendingCapacity \in Nat
      BY <1>1, <1>2, <2>1 DEF queue, MatcherLimits
    <3>2. Len(left) <= PendingCapacity
      BY <2>2, <3>1
    <3> QED
      BY <1>1, <1>2, <2>2, <2>6, <3>2
  <2>9. /\ matches' \in Seq(Matches) /\ Len(matches) \in Nat
        /\ DOMAIN matches = 1 .. Len(matches) /\ DOMAIN matches' = 1 .. Len(matches) + 1
        /\ \A i \in DOMAIN matches : matches'[i] = matches[i]
        /\ matches'[Len(matches) + 1] = m
    BY <1>2, <2>3, <2>5
  <2>10. \A i \in DOMAIN matches' : (i \in DOMAIN matches /\ matches'[i] = matches[i])
                                  \/ (i = Len(matches) + 1 /\ matches'[i] = m)
    BY <2>9
  <2>11. n < n + 1 /\ \A k \in Nat : k < n => k < n + 1
    OBVIOUS
  <2>12. \A b \in MatchedBrokers : \A i \in DOMAIN pending_events'[b] :
           pending_events'[b][i].broker = b /\ pending_events'[b][i].seq < n + 1
    BY <1>2, <2>7, <2>11 DEF Moves
  <2>13. \A i \in DOMAIN matches' : matches'[i].leader.seq < n + 1 /\ matches'[i].follower.seq < n + 1
    <3>1. m.leader.seq < n + 1 /\ m.follower.seq < n + 1
      <4>1. m.leader \in {e, f} /\ m.follower \in {e, f}
        BY <2>5
      <4>2. e.seq < n + 1 /\ f.seq < n + 1
        BY <2>4, <2>11 DEF Moves
      <4> QED
        BY <4>1, <4>2
    <3>2. \A i \in DOMAIN matches : /\ matches[i].leader.seq \in Nat /\ matches[i].follower.seq \in Nat
      <4>1. \A i \in DOMAIN matches : matches[i] \in Matches
        BY <1>2
      <4> QED
        BY <4>1 DEF Matches, Moves
    <3> QED
      BY <1>3, <2>10, <2>11, <3>1, <3>2
  <2>14. NoPairLeftWaiting'
    BY <1>4, <2>7 DEF NoPairLeftWaiting, MatchedBrokers
  <2>15. \A i \in DOMAIN matches : e \notin events(matches[i]) /\ f \notin events(matches[i])
    <3>1. \A i \in DOMAIN matches : e \notin events(matches[i])
      BY <1>3
    <3>2. f \in ToSet(pending_events[other])
      BY <2>1 DEF queue, f, ToSet
    <3> QED
      BY <1>1, <1>4, <3>1, <3>2 DEF MatchedOnce
  <2>16. \A b \in MatchedBrokers : \A i \in DOMAIN pending_events'[b] :
           /\ pending_events'[b][i] \notin events(m)
           /\ \A k \in DOMAIN matches : pending_events'[b][i] \notin events(matches[k])
    <3>1. \A b \in MatchedBrokers : \A i \in DOMAIN pending_events'[b] :
            pending_events'[b][i] \in ToSet(pending_events[b])
      BY <2>7 DEF ToSet
    <3>2. \A b \in MatchedBrokers : \A x \in ToSet(pending_events[b]) :
            \A k \in DOMAIN matches : x \notin events(matches[k])
      BY <1>4 DEF MatchedOnce
    <3> QED
      BY <1>5, <2>5, <2>7, <3>1, <3>2
  <2> HIDE DEF events
  <2>17. \A i, j \in DOMAIN matches' : i # j => events(matches'[i]) \cap events(matches'[j]) = {}
    <3>1. \A i, j \in DOMAIN matches : i # j => events(matches[i]) \cap events(matches[j]) = {}
      BY <1>4 DEF MatchedOnce, events
    <3> QED
      BY <2>5, <2>10, <2>15, <3>1
  <2>18. \A i \in DOMAIN matches', b \in MatchedBrokers : events(matches'[i]) \cap ToSet(pending_events'[b]) = {}
    BY <2>10, <2>16 DEF ToSet
  <2>19. MatchedOnce'
    BY <2>17, <2>18 DEF MatchedOnce, events
  <2>20. LeaderMovedFirst'
    BY <1>4, <2>5, <2>10 DEF LeaderMovedFirst
  <2> QED
    BY <2>6, <2>8, <2>9, <2>12, <2>13, <2>14, <2>19, <2>20 DEF QueueInv
<1>7. CASE ~answered
  <2> DEFINE queue == pending_events[mine]
             longer == Queued(queue, e)
  <2>1. /\ longer \in Seq(Moves) /\ Len(longer) <= PendingCapacity /\ AllDifferent(longer)
        /\ \A j \in DOMAIN longer : longer[j] = e \/ \E k \in DOMAIN queue : longer[j] = queue[k]
    <3>1. /\ queue \in Seq(Moves) /\ AllDifferent(queue) /\ Len(queue) <= PendingCapacity
          /\ \A k \in DOMAIN queue : queue[k] # e
      BY <1>1, <1>2, <1>5
    <3> QED
      BY <3>1, QueueWith
  <2>2. pending_events' = [pending_events EXCEPT ![mine] = longer] /\ matches' = matches
    BY <1>7 DEF OnEvent
  <2>3. \A i \in DOMAIN pending_events[other] :
          ~Eligible(e, pending_events[other][i]) /\ ~Eligible(pending_events[other][i], e)
    <3> SUFFICES ASSUME NEW i \in DOMAIN pending_events[other]
                 PROVE  ~Eligible(e, pending_events[other][i]) /\ ~Eligible(pending_events[other][i], e)
      OBVIOUS
    <3>1. e.at \in Nat /\ pending_events[other][i].at \in Nat
      BY <1>1, <1>2 DEF Moves, MatcherLimits
    <3> QED
      BY <1>7, <3>1, Differences DEF Eligible
  <2> HIDE DEF longer, queue, answered, other, mine, Moves, Matches
  <2>4. /\ pending_events' \in [MatchedBrokers -> Seq(Moves)]
        /\ pending_events'[mine] = longer /\ pending_events'[other] = pending_events[other]
    BY <1>1, <1>2, <2>1, <2>2
  <2>5. \A b \in MatchedBrokers : \A i \in DOMAIN pending_events'[b] :
          \/ b = mine /\ pending_events'[b][i] = e
          \/ \E k \in DOMAIN pending_events[b] : pending_events'[b][i] = pending_events[b][k]
    BY <1>1, <2>1, <2>4 DEF queue
  <2>6. \A b \in MatchedBrokers : /\ Len(pending_events'[b]) <= PendingCapacity
                                 /\ AllDifferent(pending_events'[b])
    BY <1>1, <1>2, <2>1, <2>4
  <2>7. e.broker = mine /\ e.seq < n + 1 /\ \A k \in Nat : k < n => k < n + 1
    BY DEF mine
  <2>8. \A b \in MatchedBrokers : \A i \in DOMAIN pending_events'[b] :
          pending_events'[b][i].broker = b /\ pending_events'[b][i].seq < n + 1
    <3>1. \A b \in MatchedBrokers : \A i \in DOMAIN pending_events[b] :
            pending_events[b][i].broker = b /\ pending_events[b][i].seq < n + 1
      BY <1>2, <2>7 DEF Moves
    <3> QED
      BY <2>5, <2>7, <3>1
  <2>9. \A i \in DOMAIN matches' : matches'[i].leader.seq < n + 1 /\ matches'[i].follower.seq < n + 1
    <3>1. \A i \in DOMAIN matches : matches[i] \in Matches
      BY <1>2
    <3>2. \A i \in DOMAIN matches : matches[i].leader.seq \in Nat /\ matches[i].follower.seq \in Nat
      BY <3>1 DEF Matches, Moves
    <3> QED
      BY <1>3, <2>2, <2>7, <3>2
  <2>10. NoPairLeftWaiting'
    <3> SUFFICES ASSUME NEW i \in DOMAIN pending_events'[1], NEW j \in DOMAIN pending_events'[2]
                 PROVE  ~Eligible(pending_events'[1][i], pending_events'[2][j])
      BY DEF NoPairLeftWaiting
    <3>1. CASE mine = 1 /\ other = 2
      BY <1>4, <2>3, <2>4, <2>5, <3>1 DEF NoPairLeftWaiting, MatchedBrokers
    <3>2. CASE mine = 2 /\ other = 1
      BY <1>4, <2>3, <2>4, <2>5, <3>2 DEF NoPairLeftWaiting, MatchedBrokers
    <3> QED
      BY <1>1, <3>1, <3>2 DEF MatchedBrokers
  <2>11. MatchedOnce'
    <3>1. \A i \in DOMAIN matches : e \notin events(matches[i])
      BY <1>3
    <3>2. \A b \in MatchedBrokers : \A i \in DOMAIN pending_events'[b] :
            pending_events'[b][i] = e \/ pending_events'[b][i] \in ToSet(pending_events[b])
      BY <2>5 DEF ToSet
    <3> HIDE DEF events
    <3>3. /\ \A i, j \in DOMAIN matches : i # j => events(matches[i]) \cap events(matches[j]) = {}
          /\ \A i \in DOMAIN matches, b \in MatchedBrokers : events(matches[i]) \cap ToSet(pending_events[b]) = {}
      BY <1>4 DEF MatchedOnce, events
    <3>4. \A i \in DOMAIN matches, b \in MatchedBrokers : events(matches[i]) \cap ToSet(pending_events'[b]) = {}
      BY <3>1, <3>2, <3>3 DEF ToSet
    <3> QED
      BY <2>2, <3>3, <3>4 DEF MatchedOnce, events
  <2>12. LeaderMovedFirst'
    BY <1>4, <2>2 DEF LeaderMovedFirst
  <2> QED
    BY <1>2, <2>2, <2>4, <2>6, <2>8, <2>9, <2>10, <2>11, <2>12 DEF QueueInv
<1> QED
  BY <1>6, <1>7

\* The two last events of a broker, with a new one.
Remembered(q, e) == Append(IF Len(q) = 2 THEN Tail(q) ELSE q, e)

LEMMA LastTwo ==
  ASSUME NEW S, NEW q \in Seq(S), Len(q) <= 2, NEW e \in S
  PROVE  /\ Remembered(q, e) \in Seq(S) /\ Len(Remembered(q, e)) \in 1 .. 2
         /\ Remembered(q, e)[Len(Remembered(q, e))] = e
         /\ Len(Remembered(q, e)) = 2 => q # << >> /\ Remembered(q, e)[1] = q[Len(q)]
<1> DEFINE rest == IF Len(q) = 2 THEN Tail(q) ELSE q
           r == Append(rest, e)
<1>1. Len(q) \in {0, 1, 2} /\ (Len(q) # 0 => q # << >>)
  <2>1. Len(q) \in Nat /\ Len(<< >>) = 0
    OBVIOUS
  <2>2. \A k \in Nat : k <= 2 => k \in {0, 1, 2}
    OBVIOUS
  <2>3. Len(q) \in {0, 1, 2}
    BY <2>1, <2>2
  <2> QED
    BY <2>1, <2>3
<1>2. /\ rest \in Seq(S) /\ Len(rest) \in {0, 1}
      /\ Len(rest) = 1 => q # << >> /\ rest[1] = q[Len(q)]
  <2>1. CASE Len(q) = 2
    <3>1. Tail(q) \in Seq(S) /\ Len(Tail(q)) = 1 /\ Tail(q)[1] = q[2] /\ q # << >>
      BY <1>1, <2>1, HeadTailProperties
    <3> QED
      BY <2>1, <3>1
  <2>2. CASE Len(q) # 2
    BY <1>1, <2>2
  <2> QED
    BY <2>1, <2>2
<1> HIDE DEF rest
<1>3. /\ r \in Seq(S) /\ Len(r) = Len(rest) + 1
      /\ \A j \in 1 .. Len(rest) : r[j] = rest[j]
      /\ r[Len(rest) + 1] = e
  BY <1>2, AppendProperties
<1> HIDE DEF r
<1>4. Len(r) \in 1 .. 2 /\ r[Len(r)] = e /\ (Len(r) = 2 => q # << >> /\ r[1] = q[Len(q)])
  BY <1>2, <1>3
<1> QED
  BY <1>3, <1>4 DEF r, rest, Remembered

\* What is older than the n-th quote is older than the next one.
LEMMA OlderThanNext == ASSUME NEW n \in Nat, QueueInv(n) PROVE QueueInv(n + 1)
<1>1. \A k \in Nat : k < n => k < n + 1
  OBVIOUS
<1>2. \A b \in MatchedBrokers : \A i \in DOMAIN pending_events[b] : pending_events[b][i].seq \in Nat
  <2>1. \A b \in MatchedBrokers : \A i \in DOMAIN pending_events[b] : pending_events[b][i] \in Moves
    <3> HIDE DEF Moves
    <3> QED
      BY DEF QueueInv
  <2> QED
    BY <2>1 DEF Moves
<1>3. \A i \in DOMAIN matches : matches[i].leader.seq \in Nat /\ matches[i].follower.seq \in Nat
  <2>1. \A i \in DOMAIN matches : matches[i] \in Matches
    <3> HIDE DEF Matches
    <3> QED
      BY DEF QueueInv
  <2> QED
    BY <2>1 DEF Matches, Moves
<1> QED
  BY <1>1, <1>2, <1>3 DEF QueueInv

\* A quote moves its broker's detector on (on_quote of SignificantMidMoveDetector).
LEMMA QuoteKeepsMatcher ==
  ASSUME MatcherLimits, MatcherInv, NEW b \in MatchedBrokers, NEW t \in 0 .. LastReceive,
         NEW mid \in Mids, OnQuote(b, t, mid)
  PROVE  MatcherInv'
<1>0. PICK n \in Nat : n = quotes_received.count
  BY DEF MatcherInv, DetectorInv
<1> DEFINE old == fired[b]
           e == [broker |-> b, at |-> t, seq |-> n, from |-> anchor[b], to |-> mid,
                 direction |-> IF mid > anchor[b] THEN "Up" ELSE "Down"]
           fires == anchor[b] # NoQuote /\ MayFire(b, t) /\ Apart(mid, anchor[b]) >= Trigger
           new == Remembered(old, e)
<1>1. DetectorInv /\ QueueInv(n)
  BY <1>0 DEF MatcherInv
<1>2. LastReceive \in Nat /\ Cooldown \in Nat /\ Mids \subseteq Nat
  BY DEF MatcherLimits
<1>3. /\ quotes_received' \in [last : [MatchedBrokers -> 0 .. LastReceive], count : Nat]
      /\ quotes_received'.count = n + 1
  BY <1>0, <1>1 DEF OnQuote, DetectorInv
<1>4. CASE fires
  <2>1. e \in Moves /\ e.seq = n
    BY <1>1, <1>4 DEF Moves, DetectorInv
  <2>2. /\ anchor' = [anchor EXCEPT ![b] = mid]
        /\ cooldown_until' = [cooldown_until EXCEPT ![b] = t + Cooldown]
        /\ fired' = [fired EXCEPT ![b] = new]
        /\ OnEvent(e)
    BY <1>0, <1>4 DEF OnQuote, Remembered
  <2>3. QueueInv(n + 1)'
    <3> HIDE DEF e, fires
    <3> QED
      BY <1>1, <2>1, <2>2, EventKeepsQueues
  <2>4. t + Cooldown \in 0 .. LastReceive + Cooldown
    BY <1>2
  <2>5. /\ old \in Seq(Moves) /\ Len(old) <= 2
        /\ old # << >> => /\ anchor[b] = old[Len(old)].to
                         /\ cooldown_until[b] = old[Len(old)].at + Cooldown
    <3> HIDE DEF Moves
    <3> QED
      BY <1>1 DEF DetectorInv
  <2>6. /\ e.at = t /\ e.from = anchor[b] /\ e.to = mid
    OBVIOUS
  <2>7. MayFire(b, t) /\ Apart(mid, anchor[b]) >= Trigger
    BY <1>4
  <2> HIDE DEF e, fires, Moves
  <2>8. /\ new \in Seq(Moves) /\ Len(new) \in 1 .. 2 /\ new[Len(new)] = e
        /\ Len(new) = 2 => old # << >> /\ new[1] = old[Len(old)]
    <3> HIDE DEF old
    <3> QED
      BY <2>1, <2>5, LastTwo
  <2> HIDE DEF new, old
  <2>9. /\ anchor' \in [MatchedBrokers -> Mids \cup {NoQuote}]
        /\ cooldown_until' \in [MatchedBrokers -> 0 .. LastReceive + Cooldown]
        /\ fired' \in [MatchedBrokers -> Seq(Moves)]
        /\ anchor'[b] = mid /\ cooldown_until'[b] = t + Cooldown /\ fired'[b] = new
        /\ \A c \in MatchedBrokers \ {b} : /\ anchor'[c] = anchor[c] /\ fired'[c] = fired[c]
                                       /\ cooldown_until'[c] = cooldown_until[c]
    BY <1>1, <2>2, <2>4, <2>8 DEF DetectorInv
  <2>10. Len(new) = 2 => /\ new[2].at >= new[1].at + Cooldown
                         /\ new[2].from = new[1].to
                         /\ Apart(new[2].to, new[1].to) >= Trigger
    BY <2>5, <2>6, <2>7, <2>8 DEF MayFire
  <2>11. \A c \in MatchedBrokers :
           /\ Len(fired'[c]) <= 2
           /\ fired'[c] # << >> =>
                /\ anchor'[c] = fired'[c][Len(fired'[c])].to
                /\ cooldown_until'[c] = fired'[c][Len(fired'[c])].at + Cooldown
    <3> SUFFICES ASSUME NEW c \in MatchedBrokers
                 PROVE  /\ Len(fired'[c]) <= 2
                        /\ fired'[c] # << >> =>
                             /\ anchor'[c] = fired'[c][Len(fired'[c])].to
                             /\ cooldown_until'[c] = fired'[c][Len(fired'[c])].at + Cooldown
      OBVIOUS
    <3>1. CASE c = b
      BY <2>6, <2>8, <2>9, <3>1
    <3>2. CASE c # b
      BY <1>1, <2>9, <3>2 DEF DetectorInv
    <3> QED
      BY <3>1, <3>2
  <2>12. EventsAreSpaced'
    <3> SUFFICES ASSUME NEW c \in MatchedBrokers, Len(fired'[c]) = 2
                 PROVE  /\ fired'[c][2].at >= fired'[c][1].at + Cooldown
                        /\ fired'[c][2].from = fired'[c][1].to
                        /\ Apart(fired'[c][2].to, fired'[c][1].to) >= Trigger
      BY DEF EventsAreSpaced
    <3>1. CASE c = b
      BY <2>9, <2>10, <3>1
    <3>2. CASE c # b
      BY <1>1, <2>9, <3>2 DEF DetectorInv, EventsAreSpaced
    <3> QED
      BY <3>1, <3>2
  <2>13. DetectorInv'
    BY <1>3, <2>9, <2>11, <2>12 DEF DetectorInv
  <2> QED
    BY <1>3, <2>3, <2>13 DEF MatcherInv, QueueInv
<1>5. CASE ~fires
  <2>1. /\ UNCHANGED <<cooldown_until, fired, pending_events, matches>>
        /\ anchor' = IF anchor[b] = NoQuote THEN [anchor EXCEPT ![b] = mid] ELSE anchor
    BY <1>5 DEF OnQuote
  <2>2. QueueInv(n + 1)'
    BY <1>1, <2>1, OlderThanNext DEF QueueInv, NoPairLeftWaiting, MatchedOnce, LeaderMovedFirst
  <2>3. \A c \in MatchedBrokers :
          fired[c] # << >> => fired[c][Len(fired[c])].to # NoQuote
    <3>1. \A c \in MatchedBrokers : fired[c] # << >> => fired[c][Len(fired[c])] \in Moves
      <4> HIDE DEF Moves
      <4> QED
        BY <1>1 DEF DetectorInv
    <3> QED
      BY <3>1 DEF Moves, MatcherLimits
  <2>4. DetectorInv'
    BY <1>1, <1>3, <2>1, <2>3 DEF DetectorInv, EventsAreSpaced
  <2> QED
    BY <1>3, <2>2, <2>4 DEF MatcherInv, QueueInv
<1> QED
  BY <1>4, <1>5

\* MatcherInv is inductive.
LEMMA MatcherInitially == MatcherLimits /\ MatcherInit => MatcherInv
<1> SUFFICES ASSUME MatcherLimits, MatcherInit PROVE MatcherInv
  OBVIOUS
<1>1. DetectorInv
  BY DEF MatcherInit, MatcherLimits, DetectorInv, EventsAreSpaced
<1>2. QueueInv(0)
  BY DEF MatcherInit, MatcherLimits, QueueInv, AllDifferent, NoPairLeftWaiting,
         MatchedOnce, LeaderMovedFirst, MatchedBrokers
<1> QED
  BY <1>1, <1>2 DEF MatcherInv, MatcherInit

LEMMA MatcherStep ==
  ASSUME MatcherLimits, MatcherInv, [MatcherNext]_matcherVars PROVE MatcherInv'
<1>1. ASSUME NEW b \in MatchedBrokers, NEW t \in 0 .. LastReceive, NEW mid \in Mids, OnQuote(b, t, mid)
      PROVE  MatcherInv'
  BY <1>1, QuoteKeepsMatcher
<1>2. CASE SetActivePair
  <2>1. DetectorInv'
    BY <1>2 DEF SetActivePair, MatcherInv, DetectorInv, EventsAreSpaced
  <2>2. QueueInv(quotes_received.count)'
    BY <1>2 DEF SetActivePair, MatcherLimits, QueueInv, AllDifferent, NoPairLeftWaiting,
       MatchedOnce, LeaderMovedFirst, MatchedBrokers
  <2> QED
    BY <2>1, <2>2 DEF MatcherInv
<1>3. CASE UNCHANGED matcherVars
  BY <1>3 DEF matcherVars, MatcherInv, DetectorInv, QueueInv, EventsAreSpaced,
     NoPairLeftWaiting, MatchedOnce, LeaderMovedFirst
<1> QED
  BY <1>1, <1>2, <1>3 DEF MatcherNext

\* The pairing of moves: one to one, the leader first, nobody left waiting for a
\* partner that is there, and a cooldown between two events of a broker
\* (OneToOneEventMatcher, SignificantMidMoveDetector).
THEOREM MatcherIsCorrect == MatcherLimits /\ MatcherSpec => []MatcherCorrect
<1> SUFFICES ASSUME MatcherLimits PROVE MatcherSpec => []MatcherCorrect
  OBVIOUS
<1>1. MatcherInit => MatcherInv
  BY MatcherInitially
<1>2. MatcherInv /\ [MatcherNext]_matcherVars => MatcherInv'
  BY MatcherStep
<1>3. MatcherInv => MatcherCorrect
  BY DEF MatcherInv, DetectorInv, QueueInv, MatcherCorrect, MatcherTypeOK
<1> QED
  BY <1>1, <1>2, <1>3, PTL DEF MatcherSpec

-----------------------------------------------------------------------------
(* The recorded history under seeks and playback (ReplaySources).             *)

AheadOf(p, i, x) == x.part > p \/ (x.part = p /\ x.index >= i)
Latest == played[Len(played)]

SourcesTypes ==
  /\ current \in [Brokers -> Nat] /\ position \in [Brokers -> Nat]
  /\ warmed \in [Brokers -> SUBSET UNION {AllTicks(b) : b \in Brokers}]
  /\ played \in Seq(UNION {AllTicks(b) : b \in Brokers})
  /\ sought.target \in Int /\ sought.loaded \subseteq Brokers
  /\ SourcesTypeOK

\* What was played is behind the cursors, what is ahead of those that were sought
\* is not before the target, and the next tick of each broker follows the latest.
SourcesInv ==
  /\ SourcesTypes
  /\ \A i \in DOMAIN played : ~Ahead(played[i])
  /\ \A b \in sought.loaded : \A x \in AllTicks(b) : Ahead(x) => Effective(x) >= sought.target
  /\ NothingLost /\ PlayedFromTarget /\ PlayedInOrder
  /\ MonthsHaveTicks /\ played # << >> =>
       \A c \in Brokers : HasNext(c) => ComesFirst(Latest, NextTick(c))

\* The months of a broker.
LEMMA Months ==
  ASSUME SourcesLimits, NEW b \in Brokers
  PROVE  /\ Len(History[b]) \in Nat /\ DOMAIN History[b] = 1 .. Len(History[b])
         /\ Delay[b] \in Nat /\ b \in Nat /\ Retention \in Nat
         /\ \A p \in DOMAIN History[b] :
              /\ History[b][p].begins \in Nat /\ History[b][p].ends \in Nat
              /\ History[b][p].begins + Retention <= History[b][p].ends
              /\ TicksOf(b, p) = History[b][p].ticks
         /\ \A p, q \in DOMAIN History[b] : p < q => History[b][p].ends <= History[b][q].begins
         /\ TicksOf(b, 0) = << >>
<1> DEFINE M == [begins : Nat, ends : Nat, ticks : Seq(Nat), readable : BOOLEAN]
<1>1. MonthLimits(History[b]) /\ Delay[b] \in Nat /\ b \in Nat /\ Retention \in Nat
  BY DEF SourcesLimits
<1>2. /\ Len(History[b]) \in Nat /\ DOMAIN History[b] = 1 .. Len(History[b])
      /\ \A p \in DOMAIN History[b] : History[b][p] \in M
  <2> HIDE DEF M
  <2>1. History[b] \in Seq(M)
    BY <1>1 DEF MonthLimits, M
  <2> QED
    BY <2>1
<1>3. \A p \in DOMAIN History[b] : History[b][p].begins \in Nat /\ History[b][p].ends \in Nat
  BY <1>2
<1>4. \A p \in DOMAIN History[b] : p # 0
  BY <1>2
<1> QED
  BY <1>1, <1>2, <1>3, <1>4 DEF MonthLimits, TicksOf

\* The ticks of a month are sorted, and of their month; there are none outside.
LEMMA TicksOfMonth ==
  ASSUME SourcesLimits, NEW b \in Brokers, NEW p \in 0 .. Len(History[b])
  PROVE  /\ TicksOf(b, p) \in Seq(Nat) /\ Len(TicksOf(b, p)) \in Nat
         /\ DOMAIN TicksOf(b, p) = 1 .. Len(TicksOf(b, p))
         /\ \A i \in DOMAIN TicksOf(b, p) : TicksOf(b, p)[i] \in Nat
         /\ \A i, j \in DOMAIN TicksOf(b, p) : i <= j => TicksOf(b, p)[i] <= TicksOf(b, p)[j]
         /\ p # 0 => /\ p \in DOMAIN History[b]
                     /\ \A i \in DOMAIN TicksOf(b, p) : /\ History[b][p].begins <= TicksOf(b, p)[i]
                                                        /\ TicksOf(b, p)[i] < History[b][p].ends
<1>1. MonthLimits(History[b])
  BY DEF SourcesLimits
<1>2. p # 0 => p \in DOMAIN History[b] /\ TicksOf(b, p) = History[b][p].ticks
  BY Months
<1>3. TicksOf(b, p) \in Seq(Nat)
  <2>1. CASE p = 0
    BY <2>1 DEF TicksOf
  <2>2. CASE p # 0
    <3> DEFINE M == [begins : Nat, ends : Nat, ticks : Seq(Nat), readable : BOOLEAN]
    <3> HIDE DEF M
    <3>1. History[b] \in Seq(M)
      BY <1>1 DEF MonthLimits, M
    <3>2. History[b][p] \in M
      BY <1>2, <2>2, <3>1
    <3> QED
      BY <1>2, <2>2, <3>2 DEF M
  <2> QED
    BY <2>1, <2>2
<1>4. /\ Len(TicksOf(b, p)) \in Nat /\ DOMAIN TicksOf(b, p) = 1 .. Len(TicksOf(b, p))
      /\ \A i \in DOMAIN TicksOf(b, p) : TicksOf(b, p)[i] \in Nat
  BY <1>3
<1>5. p # 0 => /\ \A i, j \in DOMAIN TicksOf(b, p) : i < j => TicksOf(b, p)[i] <= TicksOf(b, p)[j]
               /\ \A i \in DOMAIN TicksOf(b, p) : /\ History[b][p].begins <= TicksOf(b, p)[i]
                                                  /\ TicksOf(b, p)[i] < History[b][p].ends
  BY <1>1, <1>2 DEF MonthLimits
<1>6. ASSUME NEW i \in DOMAIN TicksOf(b, p), NEW j \in DOMAIN TicksOf(b, p), i <= j
      PROVE  TicksOf(b, p)[i] <= TicksOf(b, p)[j]
  <2>1. CASE p = 0
    BY <2>1 DEF TicksOf
  <2>2. CASE p # 0 /\ i = j
    BY <1>4, <2>2
  <2>3. CASE p # 0 /\ i < j
    BY <1>5, <2>3
  <2> QED
    BY <1>4, <1>6, <2>1, <2>2, <2>3
<1> QED
  BY <1>2, <1>3, <1>4, <1>5, <1>6

\* A tick of a broker is a place in one of its months.
LEMMA Placed ==
  ASSUME SourcesLimits, NEW b \in Brokers, NEW x \in AllTicks(b)
  PROVE  /\ x.broker = b /\ x.part \in 1 .. Len(History[b])
         /\ x.part \in Nat /\ x.index \in Nat /\ x.index \in DOMAIN TicksOf(b, x.part)
         /\ x = [broker |-> b, part |-> x.part, index |-> x.index]
         /\ TickTime(x) = TicksOf(b, x.part)[x.index] /\ TickTime(x) \in Nat
         /\ History[b][x.part].begins <= TickTime(x) /\ TickTime(x) < History[b][x.part].ends
         /\ Effective(x) = TickTime(x) + Delay[b]
<1>1. PICK p \in DOMAIN History[b] : x \in PartTicks(b, p)
  BY DEF AllTicks
<1>2. PICK i \in DOMAIN TicksOf(b, p) : x = [broker |-> b, part |-> p, index |-> i]
  BY <1>1 DEF PartTicks
<1>3. Len(History[b]) \in Nat /\ p \in 1 .. Len(History[b]) /\ p \in 0 .. Len(History[b])
  BY <1>1, Months
<1>4. i \in Nat
  BY <1>3, TicksOfMonth
<1>5. x.broker = b /\ x.part = p /\ x.index = i
  BY <1>2
<1>6. TickTime(x) = TicksOf(b, p)[i]
  BY <1>5 DEF TickTime
<1> QED
  BY <1>2, <1>3, <1>4, <1>5, <1>6, TicksOfMonth DEF Effective

\* Every place in a month is a tick.
LEMMA PlaceIsTick ==
  ASSUME SourcesLimits, NEW b \in Brokers, NEW p \in 0 .. Len(History[b]),
         NEW i \in DOMAIN TicksOf(b, p)
  PROVE  [broker |-> b, part |-> p, index |-> i] \in AllTicks(b)
<1>1. p # 0
  BY DEF TicksOf
<1>2. p \in DOMAIN History[b]
  BY <1>1, Months
<1> QED
  BY <1>2 DEF AllTicks, PartTicks

\* A tick at a later place is not earlier.
LEMMA LaterPlaces ==
  ASSUME SourcesLimits, NEW b \in Brokers, NEW x \in AllTicks(b), NEW y \in AllTicks(b),
         x.part < y.part \/ (x.part = y.part /\ x.index <= y.index)
  PROVE  TickTime(x) <= TickTime(y)
<1>1. CASE x.part < y.part
  <2>1. /\ TickTime(x) \in Nat /\ TickTime(y) \in Nat
        /\ TickTime(x) < History[b][x.part].ends /\ History[b][y.part].begins <= TickTime(y)
        /\ x.part \in 1 .. Len(History[b]) /\ y.part \in 1 .. Len(History[b])
    BY Placed
  <2>2. /\ History[b][x.part].ends <= History[b][y.part].begins
        /\ History[b][x.part].ends \in Nat /\ History[b][y.part].begins \in Nat
    BY <1>1, <2>1, Months
  <2> QED
    BY <2>1, <2>2
<1>2. CASE x.part = y.part /\ x.index <= y.index
  <2>1. /\ x.part \in 1 .. Len(History[b])
        /\ TickTime(x) = TicksOf(b, x.part)[x.index] /\ TickTime(y) = TicksOf(b, x.part)[y.index]
        /\ x.index \in DOMAIN TicksOf(b, x.part) /\ y.index \in DOMAIN TicksOf(b, x.part)
    BY <1>2, Placed
  <2>2. x.part \in 0 .. Len(History[b])
    BY <2>1, Months
  <2> QED
    BY <1>2, <2>1, <2>2, TicksOfMonth
<1> QED
  BY <1>1, <1>2

\* The binary search of sorted ticks: from what it finds on, no tick is before the
\* time, and every tick after the time is there.
LEMMA SearchFinds ==
  ASSUME NEW ticks \in Seq(Nat), NEW t \in Int, NEW i \in Found(ticks, t),
         \A j, k \in DOMAIN ticks : j <= k => ticks[j] <= ticks[k]
  PROVE  /\ i \in 1 .. Len(ticks) + 1 /\ Len(ticks) \in Nat
         /\ \A j \in DOMAIN ticks : j >= i => ticks[j] >= t
         /\ \A j \in DOMAIN ticks : ticks[j] > t => j >= i
<1> DEFINE equal == {j \in DOMAIN ticks : ticks[j] = t}
           before == {j \in DOMAIN ticks : ticks[j] < t}
<1>1. Len(ticks) \in Nat /\ DOMAIN ticks = 1 .. Len(ticks) /\ \A j \in DOMAIN ticks : ticks[j] \in Nat
  OBVIOUS
<1>2. CASE equal # {}
  <2>1. i \in equal
    BY <1>2 DEF Found
  <2>2. i \in DOMAIN ticks /\ ticks[i] = t
    BY <2>1
  <2>3. ASSUME NEW j \in DOMAIN ticks, j >= i PROVE ticks[j] >= t
    BY <1>1, <2>2, <2>3
  <2>4. ASSUME NEW j \in DOMAIN ticks, ticks[j] > t PROVE j >= i
    BY <1>1, <2>2, <2>4
  <2> QED
    BY <1>1, <2>2, <2>3, <2>4
<1>3. CASE equal = {}
  <2>1. i = Cardinality(before) + 1
    BY <1>3 DEF Found
  <2>2. before \in SUBSET (1 .. Len(ticks))
    BY <1>1
  <2>3. ASSUME NEW k \in before, NEW j \in 1 .. k PROVE j \in before
    <3>1. j \in DOMAIN ticks /\ ticks[j] <= ticks[k] /\ ticks[k] < t
      BY <1>1, <2>3
    <3> QED
      BY <1>1, <3>1
  <2> HIDE DEF before
  <2>4. Cardinality(before) \in Nat /\ before = 1 .. 1 + Cardinality(before) - 1
    BY <1>1, <2>2, <2>3, InitialSegment
  <2>5. before = 1 .. i - 1 /\ i \in Nat /\ i >= 1
    BY <2>1, <2>4
  <2>6. i <= Len(ticks) + 1
    BY <1>1, <2>2, <2>5
  <2>7. \A j \in DOMAIN ticks : ticks[j] < t <=> j < i
    BY <1>1, <2>5 DEF before
  <2> QED
    BY <1>1, <2>5, <2>6, <2>7
<1> QED
  BY <1>2, <1>3

\* The search always finds a place.
LEMMA SearchEnds == \A ticks, t : Found(ticks, t) # {}
BY DEF Found

\* Where a broker's next tick is looked for: everything ahead is ahead of there too.
LEMMA NextLook ==
  ASSUME SourcesLimits, SourcesTypes, NEW b \in Brokers
  PROVE  /\ NextPart(b) \in 0 .. Len(History[b]) /\ NextPart(b) \in Nat /\ NextIndex(b) \in Nat
         /\ NextIndex(b) \in 1 .. Len(TicksOf(b, NextPart(b))) + 1
         /\ \A x \in AllTicks(b) : Ahead(x) <=> AheadOf(NextPart(b), NextIndex(b), x)
<1> DEFINE p == current[b]
           i == position[b]
<1>1. p \in 0 .. Len(History[b]) /\ p \in Nat /\ i \in Nat /\ i \in 1 .. Len(TicksOf(b, p)) + 1
  BY DEF SourcesTypes, SourcesTypeOK
<1>2. Len(History[b]) \in Nat
  BY Months
<1>3. \A x \in AllTicks(b) :
        /\ x.broker = b /\ x.part \in Nat /\ x.index \in Nat /\ x.index >= 1
        /\ x.part = p => x.index <= Len(TicksOf(b, p))
  <2> SUFFICES ASSUME NEW x \in AllTicks(b)
               PROVE  /\ x.broker = b /\ x.part \in Nat /\ x.index \in Nat /\ x.index >= 1
                      /\ x.part = p => x.index <= Len(TicksOf(b, p))
    OBVIOUS
  <2>1. /\ x.broker = b /\ x.part \in 1 .. Len(History[b]) /\ x.part \in Nat /\ x.index \in Nat
        /\ x.index \in DOMAIN TicksOf(b, x.part)
    BY Placed
  <2>2. DOMAIN TicksOf(b, x.part) = 1 .. Len(TicksOf(b, x.part)) /\ Len(TicksOf(b, x.part)) \in Nat
    BY <1>2, <2>1, TicksOfMonth
  <2> QED
    BY <2>1, <2>2
<1>4. Len(TicksOf(b, p)) \in Nat
  BY <1>1, TicksOfMonth
<1>5. CASE NextPart(b) = p
  <2>1. NextIndex(b) = i
    BY <1>5 DEF NextIndex
  <2> QED
    BY <1>1, <1>3, <1>5, <2>1 DEF Ahead, AheadOf
<1>6. CASE NextPart(b) # p
  <2>1. NextPart(b) = p + 1 /\ NextIndex(b) = 1 /\ i > Len(TicksOf(b, p)) /\ p < Len(History[b])
    BY <1>6 DEF NextPart, NextIndex
  <2>2. p + 1 \in 0 .. Len(History[b]) /\ p + 1 \in Nat
    BY <1>1, <1>2, <2>1
  <2>3. Len(TicksOf(b, p + 1)) \in Nat
    BY <2>2, TicksOfMonth
  <2>4. \A x \in AllTicks(b) : Ahead(x) <=> AheadOf(p + 1, 1, x)
    <3> SUFFICES ASSUME NEW x \in AllTicks(b) PROVE Ahead(x) <=> AheadOf(p + 1, 1, x)
      OBVIOUS
    <3>1. Ahead(x) <=> x.part > p \/ (x.part = p /\ x.index >= i)
      BY <1>3 DEF Ahead
    <3>2. ~(x.part = p /\ x.index >= i)
      BY <1>1, <1>3, <1>4, <2>1
    <3>3. x.part \in Nat /\ x.index \in Nat /\ x.index >= 1
      BY <1>3
    <3> HIDE DEF p, i
    <3> QED
      BY <1>1, <3>1, <3>2, <3>3 DEF AheadOf
  <2> QED
    BY <2>1, <2>2, <2>3, <2>4
<1> QED
  BY <1>5, <1>6

\* The next tick is the first one ahead.
LEMMA NextIsAhead ==
  ASSUME SourcesLimits, SourcesTypes, NEW b \in Brokers, HasNext(b)
  PROVE  /\ NextTick(b) \in AllTicks(b) /\ Ahead(NextTick(b))
         /\ \A x \in AllTicks(b) :
              /\ Ahead(x) /\ x # NextTick(b) <=> AheadOf(NextPart(b), NextIndex(b) + 1, x)
<1> DEFINE p == NextPart(b)
           i == NextIndex(b)
           next == NextTick(b)
<1>1. p \in 0 .. Len(History[b]) /\ p \in Nat /\ i \in Nat /\ i \in DOMAIN TicksOf(b, p)
  BY NextLook DEF HasNext
<1>2. next = [broker |-> b, part |-> p, index |-> i]
  BY DEF NextTick
<1>3. next \in AllTicks(b)
  BY <1>1, <1>2, PlaceIsTick
<1>4. Ahead(next)
  <2>1. next.part = p /\ next.index = i
    BY <1>2
  <2> QED
    BY <1>1, <1>3, <2>1, NextLook DEF AheadOf
<1>5. ASSUME NEW x \in AllTicks(b)
      PROVE  Ahead(x) /\ x # next <=> AheadOf(p, i + 1, x)
  <2>1. Ahead(x) <=> AheadOf(p, i, x)
    BY NextLook
  <2>2. x.part \in Nat /\ x.index \in Nat /\ x = [broker |-> b, part |-> x.part, index |-> x.index]
    BY Placed
  <2>3. x = next <=> x.part = p /\ x.index = i
    BY <1>2, <2>2
  <2> HIDE DEF p, i, next
  <2> QED
    BY <1>1, <2>1, <2>2, <2>3 DEF AheadOf
<1> QED
  BY <1>3, <1>4, <1>5

\* Looking again finds the same tick.
LEMMA LooksAgain ==
  ASSUME SourcesLimits, SourcesTypes, MonthsHaveTicks, NEW c \in Brokers,
         position'[c] = NextIndex(c), current'[c] = NextPart(c), HasNext(c)'
  PROVE  HasNext(c) /\ NextTick(c)' = NextTick(c)
<1> DEFINE p == NextPart(c)
           i == NextIndex(c)
<1>1. p \in 0 .. Len(History[c]) /\ i \in Nat /\ i \in 1 .. Len(TicksOf(c, p)) + 1
  BY NextLook
<1>2. DOMAIN TicksOf(c, p) = 1 .. Len(TicksOf(c, p)) /\ Len(TicksOf(c, p)) \in Nat
  BY <1>1, TicksOfMonth
<1>3. HasNext(c)
  <2> SUFFICES ASSUME i \notin DOMAIN TicksOf(c, p) PROVE FALSE
    BY DEF HasNext
  <2>1. i > Len(TicksOf(c, p))
    BY <1>1, <1>2
  <2>2. p = current[c]
    <3> SUFFICES ASSUME p # current[c] PROVE FALSE
      OBVIOUS
    <3>1. p = current[c] + 1 /\ i = 1 /\ History[c][p].readable
      BY DEF NextPart, NextIndex
    <3>2. p \in DOMAIN History[c]
      <4>1. current[c] \in Nat
        BY DEF SourcesTypes
      <4> QED
        BY <1>1, <3>1, <4>1, Months
    <3>3. TicksOf(c, p) # << >>
      BY <3>1, <3>2 DEF MonthsHaveTicks
    <3>4. Len(TicksOf(c, p)) # 0
      BY <1>1, <3>3, TicksOfMonth
    <3> QED
      BY <1>2, <2>1, <3>1, <3>4
  <2>3. i = position[c]
    BY <2>2 DEF NextIndex
  <2>4. NextPart(c)' = NextPart(c)
    BY <2>2, <2>3 DEF NextPart
  <2>5. NextIndex(c)' = i
    BY <2>2, <2>4 DEF NextIndex
  <2> QED
    BY <2>4, <2>5 DEF HasNext
<1>4. i \in DOMAIN TicksOf(c, p)
  BY <1>3 DEF HasNext
<1>5. NextPart(c)' = p
  BY <1>2, <1>4 DEF NextPart
<1>6. NextIndex(c)' = i
  BY <1>5 DEF NextIndex
<1> QED
  BY <1>3, <1>5, <1>6 DEF NextTick

\* The tick after the next one is not before it.
LEMMA LooksFurther ==
  ASSUME SourcesLimits, SourcesTypes, NEW b \in Brokers, HasNext(b),
         position'[b] = NextIndex(b) + 1, current'[b] = NextPart(b), HasNext(b)'
  PROVE  ComesFirst(NextTick(b), NextTick(b)')
<1> DEFINE p == NextPart(b)
           i == NextIndex(b)
           x == NextTick(b)
           y == [broker |-> b, part |-> NextPart(b)', index |-> NextIndex(b)']
<1>1. p \in 0 .. Len(History[b]) /\ p \in Nat /\ i \in Nat /\ i \in DOMAIN TicksOf(b, p)
  BY NextLook DEF HasNext
<1>2. y.index \in DOMAIN TicksOf(b, y.part)
  BY DEF HasNext
<1>3. \/ y.part = p /\ y.index = i + 1
      \/ y.part = p + 1 /\ p < Len(History[b])
  BY DEF NextPart, NextIndex
<1>4. Len(History[b]) \in Nat
  BY Months
<1>5. y.part \in 0 .. Len(History[b])
  BY <1>1, <1>3, <1>4
<1>6. y \in AllTicks(b)
  BY <1>2, <1>5, PlaceIsTick
<1>7. x \in AllTicks(b) /\ x.part = p /\ x.index = i
  BY NextIsAhead DEF NextTick
<1>8. TickTime(x) <= TickTime(y)
  <2>1. x.part < y.part \/ (x.part = y.part /\ x.index <= y.index)
    BY <1>1, <1>3, <1>7
  <2> HIDE DEF x, y
  <2> QED
    BY <1>6, <1>7, <2>1, LaterPlaces
<1>9. /\ Effective(x) = TickTime(x) + Delay[b] /\ Effective(y) = TickTime(y) + Delay[b]
      /\ TickTime(x) \in Nat /\ TickTime(y) \in Nat /\ x.broker = b /\ y.broker = b
  <2> HIDE DEF x, y
  <2> QED
    BY <1>6, <1>7, Placed
<1>10. Delay[b] \in Nat /\ b \in Nat
  BY Months
<1>11. ComesFirst(x, y)
  <2> HIDE DEF x, y
  <2> QED
    BY <1>8, <1>9, <1>10 DEF ComesFirst
<1>12. NextTick(b)' = y
  BY DEF NextTick
<1> QED
  BY <1>11, <1>12

\* Every played tick is some broker's.
LEMMA PlayedAreTicks ==
  ASSUME SourcesTypes
  PROVE  /\ Len(played) \in Nat /\ DOMAIN played = 1 .. Len(played)
         /\ \A i \in DOMAIN played : \E b \in Brokers : played[i] \in AllTicks(b)
<1> DEFINE S == UNION {AllTicks(b) : b \in Brokers}
<1>1. played \in Seq(S)
  BY DEF SourcesTypes
<1> HIDE DEF S
<1>2. Len(played) \in Nat /\ DOMAIN played = 1 .. Len(played) /\ \A i \in DOMAIN played : played[i] \in S
  BY <1>1
<1> QED
  BY <1>2 DEF S

\* Nothing is loaded at first.
LEMMA SourcesInitially == SourcesLimits /\ SourcesInit => SourcesInv
<1> SUFFICES ASSUME SourcesLimits, SourcesInit PROVE SourcesInv
  OBVIOUS
<1>1. \A b \in Brokers : Len(History[b]) \in Nat /\ TicksOf(b, 0) = << >>
  BY Months
<1>2. SourcesTypeOK
  BY <1>1 DEF SourcesInit, SourcesTypeOK
<1>3. played = << >> /\ sought.loaded = {} /\ sought.target = 0
  BY DEF SourcesInit
<1>4. SourcesTypes
  BY <1>2, <1>3 DEF SourcesTypes, SourcesInit
<1> QED
  BY <1>3, <1>4 DEF SourcesInv, NothingLost, PlayedFromTarget, PlayedInOrder

\* Looking for ticks that are not due (pop_up_to_buf) loses none.
LEMMA LookAheadKeeps ==
  ASSUME SourcesLimits, SourcesInv, LookAhead PROVE SourcesInv'
<1>1. SourcesTypes /\ UNCHANGED <<warmed, played, sought>>
  BY DEF SourcesInv, LookAhead
<1>2. \A b \in Brokers : position'[b] = NextIndex(b) /\ current'[b] = NextPart(b)
  BY DEF LookAhead
<1>3. \A b \in Brokers : \A x \in AllTicks(b) : Ahead(x)' <=> Ahead(x)
  <2> SUFFICES ASSUME NEW b \in Brokers, NEW x \in AllTicks(b) PROVE Ahead(x)' <=> Ahead(x)
    OBVIOUS
  <2>1. x.broker = b
    BY Placed
  <2> QED
    BY <1>1, <1>2, <2>1, NextLook DEF Ahead, AheadOf
<1>4. SourcesTypes'
  <2>1. SourcesTypeOK'
    BY <1>1, <1>2, NextLook DEF SourcesTypes, SourcesTypeOK
  <2>2. current' \in [Brokers -> Nat] /\ position' \in [Brokers -> Nat]
    BY <1>1, NextLook DEF LookAhead
  <2> QED
    BY <1>1, <2>1, <2>2 DEF SourcesTypes
<1>5. \A i \in DOMAIN played : Ahead(played[i])' <=> Ahead(played[i])
  BY <1>1, <1>3, PlayedAreTicks
<1>6. \A b \in sought.loaded : b \in Brokers
  BY <1>1 DEF SourcesTypes
<1>7. NothingLost'
  BY <1>1, <1>3, <1>6 DEF SourcesInv, NothingLost
<1>8. PlayedFromTarget' /\ PlayedInOrder'
  BY <1>1 DEF SourcesInv, PlayedFromTarget, PlayedInOrder
<1>9. /\ \A i \in DOMAIN played' : ~Ahead(played[i])'
      /\ \A b \in sought'.loaded : \A x \in AllTicks(b) : Ahead(x)' => Effective(x) >= sought'.target
  BY <1>1, <1>3, <1>5, <1>6 DEF SourcesInv
<1>10. ASSUME MonthsHaveTicks, played' # << >>, NEW c \in Brokers, HasNext(c)'
       PROVE  ComesFirst(Latest', NextTick(c)')
  <2>1. HasNext(c) /\ NextTick(c)' = NextTick(c)
    BY <1>1, <1>2, <1>10, LooksAgain
  <2>2. ComesFirst(Latest, NextTick(c)) /\ Latest' = Latest
    BY <1>1, <1>10, <2>1 DEF SourcesInv, Latest
  <2> QED
    BY <2>1, <2>2
<1> HIDE DEF Latest
<1>11. (\A i \in DOMAIN played : ~Ahead(played[i]))'
  BY <1>1, <1>9
<1> QED
  BY <1>4, <1>7, <1>8, <1>9, <1>10, <1>11 DEF SourcesInv

\* The tick that is played is the earliest next one.
LEMMA PopKeeps ==
  ASSUME SourcesLimits, SourcesInv, NEW b \in Brokers, HasNext(b),
         \A c \in Brokers : HasNext(c) => ComesFirst(NextTick(b), NextTick(c)),
         played' = Append(played, NextTick(b)),
         position' = [c \in Brokers |-> IF c = b THEN NextIndex(c) + 1 ELSE NextIndex(c)],
         current' = [c \in Brokers |-> NextPart(c)],
         UNCHANGED <<warmed, sought>>
  PROVE  SourcesInv'
<1> DEFINE x0 == NextTick(b)
           n == Len(played)
<1>1. SourcesTypes
  BY DEF SourcesInv
<1>2. /\ \A c \in Brokers : current'[c] = NextPart(c)
      /\ \A c \in Brokers \ {b} : position'[c] = NextIndex(c)
      /\ position'[b] = NextIndex(b) + 1
  OBVIOUS
<1>3. x0 \in AllTicks(b) /\ Ahead(x0) /\ x0.broker = b
  BY <1>1, NextIsAhead, Placed
<1>4. \A c \in Brokers : \A x \in AllTicks(c) :
        /\ x.broker = c
        /\ AheadOf(current'[x.broker], position'[x.broker], x) <=> (Ahead(x) /\ x # x0)
        /\ Ahead(x)' <=> (Ahead(x) /\ x # x0)
  <2> SUFFICES ASSUME NEW c \in Brokers, NEW x \in AllTicks(c)
               PROVE  /\ x.broker = c
                      /\ AheadOf(current'[x.broker], position'[x.broker], x) <=> (Ahead(x) /\ x # x0)
                      /\ Ahead(x)' <=> (Ahead(x) /\ x # x0)
    OBVIOUS
  <2>1. x.broker = c
    BY Placed
  <2>2. Ahead(x)' <=> AheadOf(current'[c], position'[c], x)
    BY <2>1 DEF Ahead, AheadOf
  <2>3. CASE c = b
    BY <1>1, <1>2, <2>1, <2>2, <2>3, NextIsAhead
  <2>4. CASE c # b
    BY <1>1, <1>2, <1>3, <2>1, <2>2, <2>4, NextLook
  <2> QED
    BY <2>3, <2>4
<1>5. /\ n \in Nat /\ DOMAIN played = 1 .. n
      /\ DOMAIN played' = 1 .. n + 1 /\ Len(played') = n + 1
      /\ \A i \in 1 .. n : played'[i] = played[i]
      /\ played'[n + 1] = x0
      /\ played' \in Seq(UNION {AllTicks(c) : c \in Brokers})
  <2> DEFINE S == UNION {AllTicks(c) : c \in Brokers}
  <2>1. played \in Seq(S) /\ x0 \in S
    BY <1>1, <1>3 DEF SourcesTypes
  <2> HIDE DEF S, x0
  <2>2. played' \in Seq(S) /\ n \in Nat /\ DOMAIN played = 1 .. n
    BY <2>1 DEF x0
  <2>3. Len(played') = n + 1 /\ played'[n + 1] = x0 /\ \A i \in 1 .. n : played'[i] = played[i]
    BY <2>1, AppendProperties DEF x0
  <2> QED
    BY <2>2, <2>3 DEF S
<1>6. \A i \in DOMAIN played' : (i \in DOMAIN played /\ played'[i] = played[i]) \/ (i = n + 1 /\ played'[i] = x0)
  BY <1>5
<1>7. \A i \in DOMAIN played : \E c \in Brokers : played[i] \in AllTicks(c)
  BY <1>1, PlayedAreTicks
<1>8. \A i \in DOMAIN played : ~Ahead(played[i])
  BY DEF SourcesInv
<1>9. SourcesTypes'
  <2>1. SourcesTypeOK'
    <3> SUFFICES ASSUME NEW c \in Brokers
                 PROVE  /\ current'[c] \in 0 .. Len(History[c])
                        /\ position'[c] \in 1 .. Len(TicksOf(c, current'[c])) + 1
                        /\ warmed'[c] \subseteq AllTicks(c)
      BY DEF SourcesTypeOK
    <3>1. /\ NextPart(c) \in 0 .. Len(History[c]) /\ NextIndex(c) \in Nat
          /\ NextIndex(c) \in 1 .. Len(TicksOf(c, NextPart(c))) + 1
      BY <1>1, NextLook
    <3>2. Len(TicksOf(c, NextPart(c))) \in Nat /\ DOMAIN TicksOf(c, NextPart(c)) = 1 .. Len(TicksOf(c, NextPart(c)))
      BY <3>1, TicksOfMonth
    <3>3. c = b => NextIndex(c) \in DOMAIN TicksOf(c, NextPart(c))
      BY DEF HasNext
    <3>4. position'[c] \in 1 .. Len(TicksOf(c, NextPart(c))) + 1
      BY <1>2, <3>1, <3>2, <3>3
    <3> QED
      BY <1>1, <1>2, <3>1, <3>4 DEF SourcesTypes, SourcesTypeOK
  <2>2. current' \in [Brokers -> Nat] /\ position' \in [Brokers -> Nat]
    BY <1>1, NextLook
  <2> QED
    BY <1>1, <1>5, <2>1, <2>2 DEF SourcesTypes
<1>10. \A c \in sought.loaded : c \in Brokers
  BY <1>1 DEF SourcesTypes
<1>11. \A i \in DOMAIN played' :
         ~AheadOf(current'[played'[i].broker], position'[played'[i].broker], played'[i])
  <2> SUFFICES ASSUME NEW i \in DOMAIN played'
               PROVE  ~AheadOf(current'[played'[i].broker], position'[played'[i].broker], played'[i])
    OBVIOUS
  <2>1. CASE i \in DOMAIN played /\ played'[i] = played[i]
    <3>1. ~Ahead(played[i]) /\ \E c \in Brokers : played[i] \in AllTicks(c)
      BY <1>7, <1>8, <2>1
    <3> QED
      BY <1>4, <2>1, <3>1
  <2>2. CASE i = n + 1 /\ played'[i] = x0
    BY <1>3, <1>4, <2>2
  <2> QED
    BY <1>6, <2>1, <2>2
<1>12. \A c \in sought'.loaded : \A x \in AllTicks(c) : Ahead(x)' => Effective(x) >= sought'.target
  BY <1>4, <1>10 DEF SourcesInv
<1>13. NothingLost'
  <2>1. \A x : (\E i \in DOMAIN played : played[i] = x) => \E i \in DOMAIN played' : played'[i] = x
    BY <1>5
  <2>2. \E i \in DOMAIN played' : played'[i] = x0
    BY <1>5
  <2> HIDE DEF x0
  <2> QED
    BY <1>4, <1>10, <2>1, <2>2 DEF SourcesInv, NothingLost
<1>14. PlayedFromTarget'
  <2>1. \A i \in DOMAIN played : played[i] # x0
    BY <1>3, <1>8
  <2>2. x0.broker \in sought.loaded => Effective(x0) >= sought.target
    BY <1>3 DEF SourcesInv
  <2>3. \A i, j \in DOMAIN played' : played'[i] = played'[j] => i = j
    <3> HIDE DEF x0
    <3> QED
      BY <1>6, <2>1 DEF SourcesInv, PlayedFromTarget
  <2>4. \A i \in DOMAIN played' :
          played'[i].broker \in sought.loaded => Effective(played'[i]) >= sought.target
    <3> HIDE DEF x0
    <3> QED
      BY <1>6, <2>2 DEF SourcesInv, PlayedFromTarget
  <2> QED
    BY <2>3, <2>4 DEF PlayedFromTarget
<1>15. PlayedInOrder'
  <2> SUFFICES ASSUME MonthsHaveTicks, NEW i \in 1 .. Len(played') - 1
               PROVE  ComesFirst(played'[i], played'[i + 1])
    BY DEF PlayedInOrder
  <2>1. CASE i = n
    <3>1. played'[i] = Latest /\ played'[i + 1] = x0 /\ played # << >>
      BY <1>5, <2>1 DEF Latest
    <3> QED
      BY <3>1 DEF SourcesInv
  <2>2. CASE i # n
    <3> HIDE DEF x0, n
    <3>1. i \in 1 .. n - 1 /\ i \in 1 .. n /\ i + 1 \in 1 .. n
      BY <1>5, <2>2
    <3> QED
      BY <1>5, <3>1 DEF SourcesInv, PlayedInOrder
  <2> QED
    BY <2>1, <2>2
<1>16. ASSUME MonthsHaveTicks, NEW c \in Brokers, HasNext(c)'
       PROVE  ComesFirst(Latest', NextTick(c)')
  <2>1. Latest' = x0
    BY <1>5 DEF Latest
  <2>2. CASE c = b
    BY <1>1, <1>2, <1>16, <2>1, <2>2, LooksFurther
  <2>3. CASE c # b
    <3>1. HasNext(c) /\ NextTick(c)' = NextTick(c)
      BY <1>1, <1>2, <1>16, <2>3, LooksAgain
    <3> QED
      BY <2>1, <3>1
  <2> QED
    BY <2>2, <2>3
<1> HIDE DEF x0, n
<1>17. (\A i \in DOMAIN played : ~Ahead(played[i]))'
  BY <1>11 DEF Ahead, AheadOf
<1> QED
  BY <1>9, <1>12, <1>13, <1>14, <1>15, <1>16, <1>17 DEF SourcesInv

\* What is ahead of the place the search found is not before the time.
LEMMA AheadIsNotBefore ==
  ASSUME SourcesLimits, NEW b \in Brokers, NEW q \in DOMAIN History[b], NEW to \in Int,
         NEW i \in Found(TicksOf(b, q), to), NEW x \in AllTicks(b),
         to < History[b][q].ends, AheadOf(q, i, x)
  PROVE  TickTime(x) >= to
<1>1. /\ x.part \in DOMAIN History[b] /\ x.index \in DOMAIN TicksOf(b, x.part)
      /\ TickTime(x) = TicksOf(b, x.part)[x.index] /\ TickTime(x) \in Nat
      /\ History[b][x.part].begins <= TickTime(x)
  BY Placed, Months
<1>2. q \in 0 .. Len(History[b]) /\ q \in Nat
  BY Months
<1>3. CASE x.part = q
  <2>1. TicksOf(b, q) \in Seq(Nat) /\ \A j, k \in DOMAIN TicksOf(b, q) : j <= k => TicksOf(b, q)[j] <= TicksOf(b, q)[k]
    BY <1>2, TicksOfMonth
  <2>2. \A j \in DOMAIN TicksOf(b, q) : j >= i => TicksOf(b, q)[j] >= to
    BY <2>1, SearchFinds
  <2>3. x.index >= i
    BY <1>2, <1>3 DEF AheadOf
  <2> QED
    BY <1>1, <1>3, <2>2, <2>3
<1>4. CASE x.part # q
  <2>1. q < x.part
    BY <1>4 DEF AheadOf
  <2>2. /\ History[b][q].ends <= History[b][x.part].begins
        /\ History[b][q].ends \in Nat /\ History[b][x.part].begins \in Nat
    BY <1>1, <2>1, Months
  <2> QED
    BY <1>1, <2>2
<1> QED
  BY <1>3, <1>4

\* The warm-up takes a tick after its start and before its end.
LEMMA InWarmRange ==
  ASSUME SourcesLimits, NEW b \in Brokers, NEW q \in DOMAIN History[b], NEW from \in Int,
         NEW x \in AllTicks(b), x.part = q, TickTime(x) > from,
         NEW i \in Int, x.index < i, NEW exact \in BOOLEAN
  PROVE  x \in WarmRange(b, q, from, i, exact)
<1>1. /\ x = [broker |-> b, part |-> q, index |-> x.index] /\ x.index \in DOMAIN TicksOf(b, q)
      /\ x.index \in Nat /\ TickTime(x) = TicksOf(b, q)[x.index]
  BY Placed
<1>2. x \in PartTicks(b, q)
  BY <1>1 DEF PartTicks
<1>3. PICK k \in Found(TicksOf(b, q), from) : TRUE
  BY SearchEnds
<1>4. q \in 0 .. Len(History[b])
  BY Months
<1>5. TicksOf(b, q) \in Seq(Nat) /\ \A j, m \in DOMAIN TicksOf(b, q) : j <= m => TicksOf(b, q)[j] <= TicksOf(b, q)[m]
  BY <1>4, TicksOfMonth
<1>6. x.index >= k
  BY <1>1, <1>5, SearchFinds
<1>7. x.index < IF exact THEN i + 1 ELSE i
  BY <1>1
<1> QED
  BY <1>2, <1>6, <1>7 DEF WarmRange

\* What the warm-up takes from the month before the loaded one.
WarmedBefore(b, q, from, to) ==
  IF q > 1 /\ History[b][q - 1].readable
  THEN WarmRange(b, q - 1, from,
                 Cardinality({i \in DOMAIN TicksOf(b, q - 1) : TicksOf(b, q - 1)[i] <= to}) + 1, FALSE)
  ELSE {}

\* What is younger than the retention is ahead of the cursor or warmed up.
LEMMA NothingBetween ==
  ASSUME SourcesLimits, NEW b \in Brokers, NEW q \in DOMAIN History[b], NEW to \in Int,
         NEW i \in Found(TicksOf(b, q), to), NEW x \in AllTicks(b), NEW exact \in BOOLEAN,
         History[b][q].begins <= to, History[b][x.part].readable,
         TickTime(x) > to - Retention, ~AheadOf(q, i, x)
  PROVE  x \in WarmRange(b, q, to - Retention, i, exact) \cup WarmedBefore(b, q, to - Retention, to)
<1>1. /\ x.part \in DOMAIN History[b] /\ x.index \in DOMAIN TicksOf(b, x.part) /\ x.index \in Nat
      /\ x.part \in Nat /\ TickTime(x) \in Nat /\ TickTime(x) < History[b][x.part].ends
  BY Placed, Months
<1>2. /\ q \in 0 .. Len(History[b]) /\ q \in Nat /\ Retention \in Nat /\ Len(History[b]) \in Nat
      /\ DOMAIN History[b] = 1 .. Len(History[b]) /\ History[b][q].begins \in Nat
  BY Months
<1>3. to - Retention \in Int
  BY <1>2
<1>4. i \in Int
  <2>1. TicksOf(b, q) \in Seq(Nat) /\ \A j, k \in DOMAIN TicksOf(b, q) : j <= k => TicksOf(b, q)[j] <= TicksOf(b, q)[k]
    BY <1>2, TicksOfMonth
  <2>2. i \in 1 .. Len(TicksOf(b, q)) + 1
    BY <2>1, SearchFinds
  <2> QED
    BY <2>2
<1>5. x.part <= q
  BY <1>1, <1>2 DEF AheadOf
<1>6. CASE x.part = q
  <2>1. x.index < i
    BY <1>1, <1>4, <1>6 DEF AheadOf
  <2> QED
    BY <1>3, <1>4, <1>6, <2>1, InWarmRange
<1>7. CASE x.part < q
  <2>1. q > 1 /\ q - 1 \in DOMAIN History[b] /\ q - 1 \in Nat /\ q - 1 < q /\ q - 1 \in 0 .. Len(History[b])
    BY <1>1, <1>2, <1>7
  <2>2. /\ History[b][q - 1].ends <= History[b][q].begins
        /\ History[b][q - 1].begins + Retention <= History[b][q - 1].ends
        /\ History[b][q - 1].ends \in Nat /\ History[b][q - 1].begins \in Nat
    BY <2>1, Months
  <2>3. x.part = q - 1
    <3> SUFFICES ASSUME x.part < q - 1 PROVE FALSE
      BY <1>1, <1>2, <1>7
    <3>1. History[b][x.part].ends <= History[b][q - 1].begins /\ History[b][x.part].ends \in Nat
      BY <1>1, <2>1, Months
    <3>2. TickTime(x) < History[b][q - 1].begins
      BY <1>1, <2>2, <3>1
    <3>3. History[b][q - 1].begins <= to - Retention
      <4> DEFINE begins == History[b][q - 1].begins
                 ends == History[b][q - 1].ends
                 beginning == History[b][q].begins
      <4>1. /\ begins \in Nat /\ ends \in Nat /\ beginning \in Nat /\ Retention \in Nat /\ to \in Int
            /\ begins + Retention <= ends /\ ends <= beginning /\ beginning <= to
        BY <1>2, <2>2
      <4> HIDE DEF begins, ends, beginning
      <4>2. begins <= to - Retention
        BY <4>1
      <4> QED
        BY <4>2 DEF begins
    <3>4. PICK time \in Nat, begins \in Nat, from \in Int :
             time = TickTime(x) /\ begins = History[b][q - 1].begins /\ from = to - Retention
      BY <1>1, <1>3, <2>2
    <3>5. time < begins /\ begins <= from /\ time > from
      BY <3>2, <3>3, <3>4, Zenon
    <3> QED
      BY <3>5
  <2> DEFINE ticks == TicksOf(b, q - 1)
             due == {k \in DOMAIN ticks : ticks[k] <= to}
  <2>4. /\ Len(ticks) \in Nat /\ DOMAIN ticks = 1 .. Len(ticks)
        /\ \A k \in DOMAIN ticks : ticks[k] \in Nat /\ ticks[k] < History[b][q - 1].ends
    <3>1. q - 1 \in 0 .. Len(History[b]) /\ q - 1 # 0
      BY <2>1
    <3>2. /\ Len(TicksOf(b, q - 1)) \in Nat /\ DOMAIN TicksOf(b, q - 1) = 1 .. Len(TicksOf(b, q - 1))
          /\ \A k \in DOMAIN TicksOf(b, q - 1) : TicksOf(b, q - 1)[k] \in Nat
          /\ \A k \in DOMAIN TicksOf(b, q - 1) : TicksOf(b, q - 1)[k] < History[b][q - 1].ends
      BY <3>1, TicksOfMonth
    <3> QED
      BY <3>2
  <2>5. \A k \in DOMAIN ticks : ticks[k] <= to
    <3> HIDE DEF ticks
    <3>1. History[b][q - 1].ends <= to
      BY <1>2, <2>2
    <3> QED
      BY <2>2, <2>4, <3>1
  <2>6. due = 1 .. Len(ticks)
    BY <2>4, <2>5
  <2>7. Cardinality(due) = Len(ticks)
    <3> HIDE DEF ticks, due
    <3>1. Len(ticks) \in Int /\ 1 \in Int
      BY <2>4
    <3>2. Cardinality(1 .. Len(ticks)) = IF 1 > Len(ticks) THEN 0 ELSE Len(ticks) - 1 + 1
      BY <3>1, FS_Interval
    <3> QED
      BY <2>4, <2>6, <3>2
  <2>8. x.index < Cardinality(due) + 1 /\ Cardinality(due) + 1 \in Int
    <3>1. x.index \in 1 .. Len(ticks)
      BY <1>1, <2>3, <2>4
    <3> HIDE DEF ticks, due
    <3> QED
      BY <2>4, <2>7, <3>1
  <2>9. x \in WarmRange(b, q - 1, to - Retention, Cardinality(due) + 1, FALSE)
    BY <1>3, <2>1, <2>3, <2>8, InWarmRange
  <2> QED
    BY <2>1, <2>3, <2>9 DEF WarmedBefore
<1> QED
  BY <1>1, <1>2, <1>5, <1>6, <1>7

\* A seek: what is sought is warmed up or ahead (rebuild_at).
LEMMA RebuildKeeps ==
  ASSUME SourcesLimits, SourcesInv, NEW t \in 0 .. LastUtc, Rebuild(t) PROVE SourcesInv'
<1> DEFINE q(b) == CurrentAfter(b, t)
           to(b) == t - Delay[b]
           exact(b, i) == i \in DOMAIN TicksOf(b, q(b)) /\ TicksOf(b, q(b))[i] = to(b)
<1>1. SourcesTypes
  BY DEF SourcesInv
<1>2. /\ played' = << >> /\ sought'.target = t /\ sought'.loaded = Loaded(t)
  BY DEF Rebuild
<1>3. /\ position' \in [Brokers -> Int] /\ current' = [b \in Brokers |-> q(b)]
      /\ DOMAIN warmed' = Brokers /\ warmed' = [b \in Brokers |-> warmed'[b]]
      /\ \A b \in Brokers :
           /\ position'[b] \in Found(TicksOf(b, q(b)), to(b))
           /\ warmed'[b] = WarmRange(b, q(b), to(b) - Retention, position'[b], exact(b, position'[b]))
                           \cup WarmedBefore(b, q(b), to(b) - Retention, to(b))
  <2>1. PICK places \in [Brokers -> 1 .. LastUtc + 1] :
          /\ \A b \in Brokers : places[b] \in Found(TicksOf(b, CurrentAfter(b, t)), t - Delay[b])
          /\ position' = [b \in Brokers |-> places[b]]
          /\ warmed' = [b \in Brokers |->
               WarmRange(b, q(b), to(b) - Retention, places[b], exact(b, places[b]))
               \cup WarmedBefore(b, q(b), to(b) - Retention, to(b))]
    BY DEF Rebuild, WarmedBefore
  <2>2. current' = [b \in Brokers |-> q(b)]
    BY DEF Rebuild
  <2> HIDE DEF q, to, exact
  <2> QED
    BY <2>1, <2>2 DEF q, to
<1>4. \A b \in Brokers : to(b) \in Int /\ Len(History[b]) \in Nat
  <2> SUFFICES ASSUME NEW b \in Brokers PROVE to(b) \in Int /\ Len(History[b]) \in Nat
    OBVIOUS
  <2>1. Delay[b] \in Nat /\ Len(History[b]) \in Nat /\ LastUtc \in Nat
    BY Months DEF SourcesLimits
  <2> QED
    BY <2>1
<1>5. \A b \in Loaded(t) :
        /\ b \in Brokers /\ q(b) \in DOMAIN History[b]
        /\ History[b][q(b)].begins <= to(b) /\ to(b) < History[b][q(b)].ends
  <2> SUFFICES ASSUME NEW b \in Loaded(t)
               PROVE  /\ b \in Brokers /\ q(b) \in DOMAIN History[b]
                      /\ History[b][q(b)].begins <= to(b) /\ to(b) < History[b][q(b)].ends
    OBVIOUS
  <2>1. Covering(b, to(b)) # {} /\ b \in Brokers
    BY DEF Loaded
  <2>2. q(b) = CHOOSE p \in Covering(b, to(b)) : TRUE
    BY DEF CurrentAfter
  <2>3. q(b) \in Covering(b, to(b))
    BY <2>1, <2>2
  <2> QED
    BY <2>1, <2>3 DEF Covering
<1>6. \A b \in Brokers : q(b) \in 0 .. Len(History[b])
  <2> SUFFICES ASSUME NEW b \in Brokers PROVE q(b) \in 0 .. Len(History[b])
    OBVIOUS
  <2>1. CASE b \in Loaded(t)
    BY <1>5, <2>1, Months
  <2>2. CASE b \notin Loaded(t)
    BY <1>1, <2>2 DEF CurrentAfter, SourcesTypes, SourcesTypeOK
  <2> QED
    BY <2>1, <2>2
<1>7. \A b \in Brokers :
        /\ position'[b] \in 1 .. Len(TicksOf(b, q(b))) + 1
        /\ position'[b] \in Nat
  <2> SUFFICES ASSUME NEW b \in Brokers
               PROVE  position'[b] \in 1 .. Len(TicksOf(b, q(b))) + 1 /\ position'[b] \in Nat
    OBVIOUS
  <2> DEFINE ticks == TicksOf(b, q(b))
             i == position'[b]
  <2>1. ticks \in Seq(Nat) /\ \A j, k \in DOMAIN ticks : j <= k => ticks[j] <= ticks[k]
    BY <1>6, TicksOfMonth
  <2>2. i \in Found(ticks, to(b)) /\ to(b) \in Int
    BY <1>3, <1>4
  <2> HIDE DEF ticks, i, to
  <2>3. i \in 1 .. Len(ticks) + 1 /\ Len(ticks) \in Nat
    BY <2>1, <2>2, SearchFinds
  <2> QED
    BY <2>3 DEF ticks, i
<1>8. \A b \in Brokers : warmed'[b] \subseteq AllTicks(b)
  <2> SUFFICES ASSUME NEW b \in Brokers PROVE warmed'[b] \subseteq AllTicks(b)
    OBVIOUS
  <2>1. \A p \in 0 .. Len(History[b]) : PartTicks(b, p) \subseteq AllTicks(b)
    BY PlaceIsTick DEF PartTicks
  <2>2. WarmRange(b, q(b), to(b) - Retention, position'[b], exact(b, position'[b])) \subseteq AllTicks(b)
    BY <1>6, <2>1 DEF WarmRange
  <2>3. WarmedBefore(b, q(b), to(b) - Retention, to(b)) \subseteq AllTicks(b)
    <3>1. q(b) > 1 => q(b) - 1 \in 0 .. Len(History[b])
      BY <1>4, <1>6
    <3> QED
      BY <2>1, <3>1 DEF WarmRange, WarmedBefore
  <2> QED
    BY <1>3, <2>2, <2>3
<1>9. SourcesTypes'
  <2>1. SourcesTypeOK'
    BY <1>3, <1>6, <1>7, <1>8 DEF SourcesTypeOK
  <2>2. current' \in [Brokers -> Nat]
    BY <1>3, <1>4, <1>6
  <2>3. position' \in [Brokers -> Nat]
    BY <1>3, <1>7
  <2>4. warmed' \in [Brokers -> SUBSET UNION {AllTicks(b) : b \in Brokers}]
    BY <1>3, <1>8
  <2>5. sought'.target \in Int /\ sought'.loaded \subseteq Brokers
    BY <1>2, <1>5
  <2> QED
    BY <1>2, <2>1, <2>2, <2>3, <2>4, <2>5 DEF SourcesTypes
<1>10. \A b \in Loaded(t) : \A x \in AllTicks(b) :
         Ahead(x)' <=> AheadOf(q(b), position'[b], x)
  BY <1>3, <1>5, Placed DEF Ahead, AheadOf
<1>11. \A b \in Loaded(t) : \A x \in AllTicks(b) : Ahead(x)' => Effective(x) >= t
  <2> SUFFICES ASSUME NEW b \in Loaded(t), NEW x \in AllTicks(b), AheadOf(q(b), position'[b], x)
               PROVE  Effective(x) >= t
    BY <1>10
  <2>1. /\ b \in Brokers /\ q(b) \in DOMAIN History[b] /\ to(b) \in Int /\ to(b) < History[b][q(b)].ends
        /\ position'[b] \in Found(TicksOf(b, q(b)), to(b))
    BY <1>3, <1>4, <1>5
  <2>2. TickTime(x) >= to(b)
    <3> HIDE DEF to, q
    <3> QED
      BY <2>1, AheadIsNotBefore
  <2>3. Effective(x) = TickTime(x) + Delay[b] /\ TickTime(x) \in Nat /\ Delay[b] \in Nat
    BY <2>1, Placed, Months
  <2> QED
    BY <2>2, <2>3
<1>12. NothingLost'
  <2> SUFFICES ASSUME NEW b \in Loaded(t), NEW x \in AllTicks(b), History[b][x.part].readable,
                      TickTime(x) > t - Delay[b] - Retention, ~AheadOf(q(b), position'[b], x)
               PROVE  x \in warmed'[b]
    BY <1>2, <1>10 DEF NothingLost
  <2>1. /\ b \in Brokers /\ q(b) \in DOMAIN History[b] /\ to(b) \in Int /\ History[b][q(b)].begins <= to(b)
        /\ position'[b] \in Found(TicksOf(b, q(b)), to(b))
        /\ TickTime(x) > to(b) - Retention /\ exact(b, position'[b]) \in BOOLEAN
    BY <1>3, <1>4, <1>5
  <2> HIDE DEF to, q, exact
  <2>2. x \in WarmRange(b, q(b), to(b) - Retention, position'[b], exact(b, position'[b]))
              \cup WarmedBefore(b, q(b), to(b) - Retention, to(b))
    BY <2>1, NothingBetween
  <2> QED
    BY <1>3, <2>1, <2>2
<1>13. PlayedFromTarget' /\ PlayedInOrder'
  BY <1>2 DEF PlayedFromTarget, PlayedInOrder
<1>14. (\A i \in DOMAIN played : ~Ahead(played[i]))'
  BY <1>2
<1> HIDE DEF q, to, exact
<1> QED
  BY <1>2, <1>9, <1>11, <1>12, <1>13, <1>14 DEF SourcesInv

\* SourcesInv is inductive.
LEMMA SourcesStep ==
  ASSUME SourcesLimits, SourcesInv, [SourcesNext]_sourcesVars PROVE SourcesInv'
<1>1. CASE LookAhead
  BY <1>1, LookAheadKeeps
<1>2. CASE PopTick
  BY <1>2, PopKeeps DEF PopTick
<1>3. CASE \E t \in 0 .. LastUtc : Rebuild(t)
  BY <1>3, RebuildKeeps
<1>4. CASE UNCHANGED sourcesVars
  BY <1>4 DEF sourcesVars, SourcesInv, SourcesTypes, SourcesTypeOK, NothingLost, PlayedFromTarget,
     PlayedInOrder, Ahead, Latest, HasNext, NextTick, NextIndex, NextPart
<1> QED
  BY <1>1, <1>2, <1>3, <1>4 DEF SourcesNext

\* A seek loses no recorded tick of a broker whose month was loaded: what is younger
\* than the retention is warmed up, played or still ahead; none is played twice, none
\* of before the target, and they come in order (MergeStream, BrokerParquetSource).
THEOREM SourcesAreCorrect == SourcesLimits /\ SourcesSpec => []SourcesCorrect
<1> SUFFICES ASSUME SourcesLimits PROVE SourcesSpec => []SourcesCorrect
  OBVIOUS
<1>1. SourcesInit => SourcesInv
  BY SourcesInitially
<1>2. SourcesInv /\ [SourcesNext]_sourcesVars => SourcesInv'
  BY SourcesStep
<1>3. SourcesInv => SourcesCorrect
  BY DEF SourcesInv, SourcesTypes, SourcesCorrect
<1> QED
  BY <1>1, <1>2, <1>3, PTL DEF SourcesSpec

-----------------------------------------------------------------------------
(* Strings put one behind the other (the wire's frames, the log's records). *)

\* Strings f[1], f[2], ... put one behind the other.
Joined(f, n) == FlattenSeq([i \in 1 .. n |-> f[i]])

\* They are sequences over S.
Parts(f, n, S) == \A i \in 1 .. n : f[i] \in Seq(S)

\* f holds what its prefixes come to.
PrefixJoins(g, f, n) ==
  /\ g[0] = << >>
  /\ \A i \in 1 .. n : g[i] = g[i - 1] \o f[i]

\* FlattenSeq is a recursive function, which defines something.
LEMMA JoinIsDefined ==
  ASSUME NEW S, NEW f, NEW n \in Nat, Parts(f, n, S)
  PROVE  \E g : g \in [0 .. n -> Seq(S)] /\ PrefixJoins(g, f, n) /\ Joined(f, n) = g[n]
<1> DEFINE s == [i \in 1 .. n |-> f[i]]
           Equation(h, m) == h = [i \in 1 .. m |-> IF i = 1 THEN s[i] ELSE h[i - 1] \o s[i]]
           Solved == {m \in Nat : m <= n => \E h : Equation(h, m)}
<1>1. Len(s) = n /\ \A i \in 1 .. n : s[i] = f[i]
  OBVIOUS
<1>2. CASE n = 0
  <2>1. s = << >>
    BY <1>2
  <2>2. Joined(f, n) = << >>
    BY <1>1, <1>2, <2>1 DEF Joined, FlattenSeq
  <2>3. PrefixJoins([i \in 0 .. n |-> << >>], f, n) /\ [i \in 0 .. n |-> << >>] \in [0 .. n -> Seq(S)]
    BY <1>2 DEF PrefixJoins
  <2> QED
    BY <1>2, <2>2, <2>3
<1>3. CASE n # 0
  <2>1. Nat \subseteq Solved
    <3>1. 0 \in Solved
      <4>1. Equation(<< >>, 0)
        OBVIOUS
      <4> QED BY <4>1
    <3>2. ASSUME NEW m \in Nat, m \in Solved PROVE m + 1 \in Solved
      <4> HIDE DEF Equation
      <4> SUFFICES ASSUME m + 1 <= n PROVE \E h : Equation(h, m + 1)
        OBVIOUS
      <4>1. PICK h : Equation(h, m)
        BY <3>2
      <4> USE DEF Equation
      <4> DEFINE k == [i \in 1 .. m + 1 |-> IF i = m + 1
                                            THEN IF i = 1 THEN s[i] ELSE h[m] \o s[i]
                                            ELSE h[i]]
      <4> HIDE DEF s
      <4>2. \A i \in 1 .. m : h[i] = IF i = 1 THEN s[i] ELSE h[i - 1] \o s[i]
        BY <4>1
      <4>3. \A i \in 1 .. m + 1 : k[i] = IF i = 1 THEN s[i] ELSE k[i - 1] \o s[i]
        BY <4>2
      <4>4. Equation(k, m + 1)
        BY <4>3
      <4> QED BY <4>4
    <3> HIDE DEF Solved
    <3> QED BY <3>1, <3>2, Induction
  <2>2. \E h : Equation(h, n)
    <3> HIDE DEF Equation
    <3> QED BY <2>1
  <2> DEFINE h == CHOOSE h : Equation(h, n)
  <2>3. Equation(h, n)
    BY <2>2
  <2>4. Joined(f, n) = h[n]
    <3>1. FlattenSeq(s) = IF Len(s) = 0 THEN s ELSE
                          (CHOOSE g : g = [i \in 1 .. Len(s) |-> IF i = 1 THEN s[i] ELSE g[i - 1] \o s[i]])[Len(s)]
      BY DEF FlattenSeq
    <3> HIDE DEF s
    <3>2. FlattenSeq(s) = h[n]
      BY <1>1, <1>3, <3>1
    <3> QED BY <3>2 DEF Joined, s
  <2> HIDE DEF h
  <2> DEFINE g == [i \in 0 .. n |-> IF i = 0 THEN << >> ELSE h[i]]
  <2>5. \A i \in 1 .. n : h[i] = IF i = 1 THEN f[i] ELSE h[i - 1] \o f[i]
    <3> HIDE DEF s
    <3>1. \A i \in 1 .. n : h[i] = IF i = 1 THEN s[i] ELSE h[i - 1] \o s[i]
      BY <2>3
    <3> QED BY <1>1, <3>1
  <2>6. PrefixJoins(g, f, n)
    <3>1. g[0] = << >>
      OBVIOUS
    <3>2. ASSUME NEW i \in 1 .. n PROVE g[i] = g[i - 1] \o f[i]
      <4>1. CASE i = 1
        <5>1. g[i] = f[i] /\ g[i - 1] = << >>
          BY <2>5, <4>1
        <5> QED BY <5>1, ConcatEmptySeq
      <4>2. CASE i # 1
        <5>1. g[i] = h[i] /\ g[i - 1] = h[i - 1]
          BY <4>2
        <5> QED BY <2>5, <4>2, <5>1
      <4> QED BY <4>1, <4>2
    <3> HIDE DEF g
    <3> QED BY <3>1, <3>2 DEF PrefixJoins
  <2>7. g[n] = h[n]
    BY <1>3
  <2>8. DOMAIN g = 0 .. n /\ g = [i \in 0 .. n |-> g[i]]
    OBVIOUS
  <2> HIDE DEF g
  <2> DEFINE Sequences_ == {m \in Nat : m <= n => g[m] \in Seq(S)}
  <2>9. Nat \subseteq Sequences_
    <3>1. 0 \in Sequences_
      <4>1. g[0] = << >> /\ << >> \in Seq(S)
        BY <2>6 DEF PrefixJoins
      <4> QED BY <4>1
    <3>2. ASSUME NEW m \in Nat, m \in Sequences_ PROVE m + 1 \in Sequences_
      <4> SUFFICES ASSUME m + 1 <= n PROVE g[m + 1] \in Seq(S)
        OBVIOUS
      <4>1. m + 1 \in 1 .. n /\ (m + 1) - 1 = m
        OBVIOUS
      <4>2. g[m + 1] = g[m] \o f[m + 1]
        BY <2>6, <4>1 DEF PrefixJoins
      <4>3. g[m] \in Seq(S) /\ f[m + 1] \in Seq(S)
        BY <3>2, <4>1 DEF Parts
      <4> QED BY <4>2, <4>3, ConcatProperties
    <3> HIDE DEF Sequences_
    <3> QED BY <3>1, <3>2, Induction
  <2>10. g \in [0 .. n -> Seq(S)]
    BY <2>8, <2>9
  <2> QED
    BY <2>4, <2>6, <2>7, <2>10
<1> QED
  BY <1>2, <1>3

\* There is only one way to put them together.
LEMMA JoinIsUnique ==
  ASSUME NEW S, NEW f, NEW n \in Nat, Parts(f, n, S),
         NEW g, PrefixJoins(g, f, n)
  PROVE  Joined(f, n) = g[n]
<1>1. PICK h : h \in [0 .. n -> Seq(S)] /\ PrefixJoins(h, f, n) /\ Joined(f, n) = h[n]
  BY JoinIsDefined
<1> DEFINE Equal == {m \in Nat : m <= n => g[m] = h[m]}
<1>2. 0 \in Equal
  BY <1>1 DEF PrefixJoins
<1>3. ASSUME NEW m \in Nat, m \in Equal PROVE m + 1 \in Equal
  <2> SUFFICES ASSUME m + 1 <= n PROVE g[m + 1] = h[m + 1]
    OBVIOUS
  <2>1. m + 1 \in 1 .. n /\ (m + 1) - 1 = m /\ g[m] = h[m]
    BY <1>3
  <2>2. g[m + 1] = g[m] \o f[m + 1] /\ h[m + 1] = h[m] \o f[m + 1]
    BY <1>1, <2>1 DEF PrefixJoins
  <2> QED BY <2>1, <2>2
<1>4. Nat \subseteq Equal
  <2> HIDE DEF Equal
  <2> QED BY <1>2, <1>3, Induction
<1> QED BY <1>1, <1>4

LEMMA JoinGrows ==
  ASSUME NEW S, NEW f, NEW n \in Nat, Parts(f, n + 1, S)
  PROVE  /\ Joined(f, 0) = << >>
         /\ Joined(f, n) \in Seq(S)
         /\ Joined(f, n + 1) = Joined(f, n) \o f[n + 1]
<1>1. Parts(f, n, S) /\ Parts(f, 0, S) /\ n + 1 \in Nat
  BY DEF Parts
<1>2. PICK m \in Nat : m = n + 1
  OBVIOUS
<1>3. PICK g : g \in [0 .. m -> Seq(S)] /\ PrefixJoins(g, f, m) /\ Joined(f, m) = g[m]
  <2>1. Parts(f, m, S)
    BY <1>2
  <2> QED BY <2>1, JoinIsDefined
<1>4. PrefixJoins(g, f, n) /\ PrefixJoins(g, f, 0)
  <2>1. \A i : i \in 1 .. n => i \in 1 .. m
    BY <1>2
  <2>2. \A i : ~(i \in 1 .. 0)
    OBVIOUS
  <2> QED BY <1>3, <2>1, <2>2, Zenon DEF PrefixJoins
<1>5. Joined(f, n) = g[n]
  BY <1>1, <1>4, JoinIsUnique, Zenon
<1>6. Joined(f, 0) = g[0]
  <2>1. 0 \in Nat
    OBVIOUS
  <2> QED BY <1>1, <1>4, <2>1, JoinIsUnique, Zenon
<1>7. m \in 1 .. m /\ m - 1 = n /\ n \in 0 .. m
  BY <1>2
<1> QED
  BY <1>2, <1>3, <1>5, <1>6, <1>7 DEF PrefixJoins

\* Cell p of the k-th of n strings of lengths size[1], size[2], ... is <<k, p>>.
CellStrings(f, n, size) ==
  /\ size \in [1 .. n -> Nat]
  /\ \A k \in 1 .. n : f[k] = [p \in 1 .. size[k] |-> <<k, p>>]

\* Where the k-th string ends.
JoinEnd(f, k) == Len(Joined(f, k))

\* Every cell is where the lengths of the strings before it say.
LEMMA CellsInPlace ==
  ASSUME NEW f, NEW n \in Nat, NEW size, CellStrings(f, n, size)
  PROVE  /\ Joined(f, n) \in Seq(Nat \X Nat)
         /\ JoinEnd(f, 0) = 0
         /\ \A k \in 0 .. n : JoinEnd(f, k) \in Nat
         /\ \A k \in 1 .. n : JoinEnd(f, k) = JoinEnd(f, k - 1) + size[k]
         /\ \A m \in 0 .. n : \A k \in 0 .. m : JoinEnd(f, k) <= JoinEnd(f, m)
         /\ \A k \in 1 .. n : \A p \in 1 .. size[k] : Joined(f, n)[JoinEnd(f, k - 1) + p] = <<k, p>>
<1> DEFINE Cells_ == Nat \X Nat
           Claim(m) == /\ Joined(f, m) \in Seq(Cells_)
                       /\ m > 0 => JoinEnd(f, m) = JoinEnd(f, m - 1) + size[m]
                       /\ \A k \in 0 .. m : JoinEnd(f, k) \in Nat
                       /\ \A k \in 1 .. m : JoinEnd(f, k - 1) + size[k] <= JoinEnd(f, m)
                       /\ \A k \in 1 .. m : \A p \in 1 .. size[k] :
                             Joined(f, m)[JoinEnd(f, k - 1) + p] = <<k, p>>
           Proved == {m \in Nat : m <= n => Claim(m)}
<1>1. ASSUME NEW k \in 1 .. n
      PROVE  /\ f[k] \in Seq(Cells_) /\ Len(f[k]) = size[k] /\ size[k] \in Nat
             /\ \A p \in 1 .. size[k] : f[k][p] = <<k, p>>
  <2>1. f[k] = [p \in 1 .. size[k] |-> <<k, p>>] /\ size[k] \in Nat
    BY DEF CellStrings
  <2> QED BY <2>1
<1>2. Parts(f, n, Cells_) /\ \A m \in Nat : m <= n => Parts(f, m, Cells_)
  BY <1>1 DEF Parts
<1> HIDE DEF Cells_
<1>3. ASSUME NEW m \in Nat, m + 1 <= n
      PROVE  /\ Joined(f, 0) = << >> /\ Joined(f, m) \in Seq(Cells_)
             /\ Joined(f, m + 1) = Joined(f, m) \o f[m + 1]
  <2>1. Parts(f, m + 1, Cells_)
    BY <1>2, <1>3
  <2> QED BY <2>1, JoinGrows
<1>4. Joined(f, 0) = << >>
  <2>1. CASE n = 0
    <3>1. PICK g : g \in [0 .. n -> Seq(Cells_)] /\ PrefixJoins(g, f, n) /\ Joined(f, n) = g[n]
      BY <1>2, JoinIsDefined
    <3> QED BY <2>1, <3>1 DEF PrefixJoins
  <2>2. CASE n # 0
    <3>1. 0 \in Nat /\ 0 + 1 <= n
      BY <2>2
    <3> QED BY <1>3, <3>1
  <2> QED BY <2>1, <2>2
<1>5. Claim(0)
  <2>1. Joined(f, 0) \in Seq(Cells_) /\ JoinEnd(f, 0) = 0
    <3>1. << >> \in Seq(Cells_) /\ Len(<< >>) = 0
      OBVIOUS
    <3> QED BY <1>4, <3>1, Zenon DEF JoinEnd
  <2>2. (\A k : ~(k \in 1 .. 0)) /\ \A k \in 0 .. 0 : k = 0
    OBVIOUS
  <2> QED BY <2>1, <2>2
<1>6. ASSUME NEW m \in Nat, m + 1 <= n, Claim(m) PROVE Claim(m + 1)
  <2> DEFINE old == Joined(f, m)
             new == Joined(f, m + 1)
  <2>1. /\ old \in Seq(Cells_) /\ f[m + 1] \in Seq(Cells_) /\ Len(f[m + 1]) = size[m + 1]
        /\ new = old \o f[m + 1] /\ size[m + 1] \in Nat
        /\ \A p \in 1 .. size[m + 1] : f[m + 1][p] = <<m + 1, p>>
    <3>1. m + 1 \in 1 .. n
      BY <1>6
    <3> QED BY <1>1, <1>3, <1>6, <3>1
  <2>2. /\ new \in Seq(Cells_) /\ Len(new) = Len(old) + size[m + 1] /\ Len(old) \in Nat
        /\ \A i \in 1 .. Len(old) : new[i] = old[i]
        /\ \A p \in 1 .. size[m + 1] : new[Len(old) + p] = <<m + 1, p>>
    <3> HIDE DEF old, new
    <3>1. \A i \in 1 .. Len(old) + Len(f[m + 1]) :
             new[i] = IF i <= Len(old) THEN old[i] ELSE f[m + 1][i - Len(old)]
      BY <2>1, ConcatProperties
    <3>2. new \in Seq(Cells_) /\ Len(new) = Len(old) + size[m + 1] /\ Len(old) \in Nat
      BY <2>1, ConcatProperties
    <3>3. ASSUME NEW p \in 1 .. size[m + 1] PROVE new[Len(old) + p] = <<m + 1, p>>
      <4>1. Len(old) + p \in 1 .. Len(old) + Len(f[m + 1]) /\ ~(Len(old) + p <= Len(old))
            /\ (Len(old) + p) - Len(old) = p
        BY <2>1, <3>2
      <4> QED BY <2>1, <3>1, <4>1
    <3> QED BY <2>1, <3>1, <3>2, <3>3
  <2>3. JoinEnd(f, m) = Len(old) /\ JoinEnd(f, m + 1) = Len(new) /\ (m + 1) - 1 = m
    BY DEF JoinEnd
  <2> HIDE DEF old, new
  <2>4. \A k \in 0 .. m + 1 : JoinEnd(f, k) \in Nat
    <3>1. \A k \in 0 .. m + 1 : k = m + 1 \/ k \in 0 .. m
      OBVIOUS
    <3>2. JoinEnd(f, m + 1) \in Nat
      BY <2>1, <2>2, <2>3
    <3> QED BY <1>6, <3>1, <3>2
  <2>5. ASSUME NEW k \in 1 .. m + 1
        PROVE  /\ JoinEnd(f, k - 1) + size[k] <= JoinEnd(f, m + 1)
               /\ \A p \in 1 .. size[k] : new[JoinEnd(f, k - 1) + p] = <<k, p>>
    <3>1. CASE k = m + 1
      <4>1. JoinEnd(f, k - 1) = Len(old) /\ JoinEnd(f, k) = Len(new) /\ size[k] = size[m + 1]
        BY <2>3, <3>1
      <4>2. Len(old) + size[m + 1] <= Len(new)
        BY <2>1, <2>2
      <4> QED BY <2>2, <2>3, <3>1, <4>1, <4>2
    <3>2. CASE k \in 1 .. m
      <4>1. JoinEnd(f, k - 1) \in Nat /\ size[k] \in Nat /\ JoinEnd(f, k - 1) + size[k] <= Len(old)
        <5>1. k - 1 \in 0 .. m /\ k \in 1 .. n
          BY <1>6, <3>2
        <5> QED BY <1>1, <1>6, <2>3, <3>2, <5>1
      <4>2. \A p \in 1 .. size[k] : JoinEnd(f, k - 1) + p \in 1 .. Len(old)
        BY <2>2, <4>1
      <4>3. \A p \in 1 .. size[k] : old[JoinEnd(f, k - 1) + p] = <<k, p>>
        BY <1>6, <3>2 DEF old
      <4>4. JoinEnd(f, k - 1) + size[k] <= JoinEnd(f, m + 1)
        BY <2>1, <2>2, <2>3, <4>1
      <4>5. \A p \in 1 .. size[k] : new[JoinEnd(f, k - 1) + p] = <<k, p>>
        BY <2>2, <4>2, <4>3, Zenon
      <4> QED BY <4>4, <4>5
    <3> QED BY <3>1, <3>2
  <2> QED
    BY <2>1, <2>2, <2>3, <2>4, <2>5 DEF new
<1>7. Nat \subseteq Proved
  <2>1. 0 \in Proved
    BY <1>5
  <2>2. ASSUME NEW m \in Nat, m \in Proved PROVE m + 1 \in Proved
    <3> HIDE DEF Claim
    <3> SUFFICES ASSUME m + 1 <= n PROVE Claim(m + 1)
      OBVIOUS
    <3>1. Claim(m)
      BY <2>2
    <3> QED BY <1>6, <3>1
  <2> HIDE DEF Proved
  <2> QED BY <2>1, <2>2, Induction
<1>8. \A m \in 0 .. n : Claim(m)
  <2> HIDE DEF Claim
  <2> QED BY <1>7
<1>9. ASSUME NEW k \in 1 .. n PROVE JoinEnd(f, k) = JoinEnd(f, k - 1) + size[k]
  BY <1>8
<1>10. JoinEnd(f, 0) = 0
  BY <1>4 DEF JoinEnd
<1>11. Claim(n)
  <2> HIDE DEF Claim
  <2> QED BY <1>8
<1>12. ASSUME NEW m \in 0 .. n, NEW k \in 0 .. m PROVE JoinEnd(f, k) <= JoinEnd(f, m)
  <2>1. JoinEnd(f, m) \in Nat
    BY <1>11
  <2>2. CASE k = 0
    BY <1>10, <2>1, <2>2
  <2>3. CASE k # 0
    <3>1. k \in 1 .. m /\ k \in 1 .. n
      BY <2>3
    <3>2. Claim(m)
      <4> HIDE DEF Claim
      <4> QED BY <1>8
    <3>3. JoinEnd(f, k - 1) + size[k] <= JoinEnd(f, m)
      BY <3>1, <3>2
    <3> QED BY <1>9, <3>1, <3>3
  <2> QED BY <2>2, <2>3
<1> QED
  BY <1>9, <1>10, <1>11, <1>12 DEF Cells_

-----------------------------------------------------------------------------
(* The decoder of the wire (StreamingDecoder). *)

\* The frames as strings of cells, and where frame k ends in the stream.
SentFrames == [k \in DOMAIN stream |-> EncodeFrame(k)]
WireEnd(k) == JoinEnd(SentFrames, k)
FrameSize(k) == HeaderLength + stream[k].payload_length

\* Every byte of the stream is where the lengths of the frames before it say.
LEMMA WireFacts ==
  ASSUME DecoderLimits, stream \in Streams
  PROVE  /\ Len(stream) \in Nat /\ DOMAIN stream = 1 .. Len(stream)
         /\ \A k \in 1 .. Len(stream) :
              /\ stream[k].payload_length \in Nat
              /\ stream[k].defect \in {"none", "header", "status"}
         /\ Wire \in Seq(Nat \X Nat) /\ Len(Wire) = WireEnd(Len(stream)) /\ WireEnd(0) = 0
         /\ \A k \in 0 .. Len(stream) : WireEnd(k) \in Nat
         /\ \A k \in 1 .. Len(stream) : WireEnd(k) = WireEnd(k - 1) + FrameSize(k)
         /\ \A k \in 1 .. Len(stream) : \A p \in 1 .. FrameSize(k) : Wire[WireEnd(k - 1) + p] = <<k, p>>
<1> DEFINE n == Len(stream)
           size == [k \in 1 .. n |-> FrameSize(k)]
<1>1. /\ n \in Nat /\ DOMAIN stream = 1 .. n
      /\ \A k \in 1 .. n : /\ stream[k].payload_length \in Nat
                           /\ stream[k].defect \in {"none", "header", "status"}
  <2> DEFINE R == [payload_length : Nat, defect : {"none", "header", "status"}]
  <2>1. stream \in Seq(R)
    BY DEF DecoderLimits
  <2>2. \A k \in DOMAIN stream : stream[k] \in R
    <3> HIDE DEF R
    <3> QED BY <2>1
  <2>3. n \in Nat /\ DOMAIN stream = 1 .. n
    BY <2>1
  <2> HIDE DEF n
  <2>4. ASSUME NEW k \in 1 .. n
        PROVE  stream[k].payload_length \in Nat /\ stream[k].defect \in {"none", "header", "status"}
    <3>1. stream[k] \in [payload_length : Nat, defect : {"none", "header", "status"}]
      BY <2>2, <2>3
    <3> QED BY <3>1
  <2> QED BY <2>3, <2>4
<1>2. \A k \in 1 .. n : size[k] = FrameSize(k) /\ FrameSize(k) \in Nat
  BY <1>1 DEF FrameSize, DecoderLimits
<1>3. \A k \in 1 .. n : SentFrames[k] = [p \in 1 .. FrameSize(k) |-> <<k, p>>]
  BY <1>1 DEF SentFrames, EncodeFrame, FrameSize
<1>4. CellStrings(SentFrames, n, size)
  BY <1>2, <1>3 DEF CellStrings
<1>5. Joined(SentFrames, n) = Wire
  <2>1. [i \in 1 .. n |-> SentFrames[i]] = SentFrames
    BY <1>1 DEF SentFrames
  <2> QED BY <2>1 DEF Joined, Wire, SentFrames
<1>6. WireEnd(n) = Len(Wire)
  BY <1>5 DEF WireEnd, JoinEnd
<1> HIDE DEF n, size
<1>7. /\ Joined(SentFrames, n) \in Seq(Nat \X Nat)
      /\ JoinEnd(SentFrames, 0) = 0
      /\ \A k \in 0 .. n : JoinEnd(SentFrames, k) \in Nat
      /\ \A k \in 1 .. n : JoinEnd(SentFrames, k) = JoinEnd(SentFrames, k - 1) + size[k]
      /\ \A k \in 1 .. n : \A p \in 1 .. size[k] :
           Joined(SentFrames, n)[JoinEnd(SentFrames, k - 1) + p] = <<k, p>>
  BY <1>1, <1>4, CellsInPlace
<1> QED
  BY <1>1, <1>2, <1>5, <1>6, <1>7 DEF WireEnd, n

\* The decoder stands at the end of the last frame it returned, and has buffered the
\* bytes after it.  FramesSurviveChunking alone is not inductive: that a header
\* stands where the next frame is looked for follows from where the frames end.
DecoderInv ==
  /\ stream \in Streams
  /\ received \in 0 .. Len(Wire)
  /\ buffer \in Seq(Nat \X Nat) /\ consumed \in 0 .. Len(buffer) /\ BufferIsBounded
  /\ refused \in {"none", "push", "frame"}
  /\ decoded \in Seq(Nat) /\ Len(decoded) <= Len(stream)
  /\ \A k \in 1 .. Len(decoded) : decoded[k] = k /\ Intact(k)
  /\ received - BufferLen = WireEnd(Len(decoded))
  /\ \A i \in 1 .. BufferLen : buffer[consumed + i] = Wire[WireEnd(Len(decoded)) + i]
  /\ refused = "frame" => ~Intact(Len(decoded) + 1)

LEMMA DecoderInvInit == DecoderLimits /\ DecoderInit => DecoderInv
<1> SUFFICES ASSUME DecoderLimits, DecoderInit PROVE DecoderInv
  OBVIOUS
<1>1. Len(stream) \in Nat /\ Wire \in Seq(Nat \X Nat) /\ WireEnd(0) = 0
  BY WireFacts DEF DecoderInit
<1>2. BufferLen = 0 /\ Len(decoded) = 0
  BY DEF DecoderInit, BufferLen
<1>3. MaxBuffer \in Nat
  BY DEF DecoderLimits, MaxBuffer
<1> QED
  BY <1>1, <1>2, <1>3 DEF DecoderInv, DecoderInit, BufferIsBounded

\* The stream does not change, and what is said of it does not either.
LEMMA StreamStays ==
  ASSUME stream' = stream
  PROVE  /\ Wire' = Wire
         /\ \A k : WireEnd(k)' = WireEnd(k)
         /\ \A k : Intact(k)' = Intact(k)
<1>1. \A k : EncodeFrame(k)' = EncodeFrame(k)
  BY DEF EncodeFrame
<1>2. SentFrames' = SentFrames
  BY <1>1 DEF SentFrames
<1> QED
  BY <1>1, <1>2 DEF Wire, WireEnd, JoinEnd, Joined, Intact

LEMMA PushKeepsInv == DecoderLimits /\ DecoderInv /\ Push => DecoderInv'
<1> SUFFICES ASSUME DecoderLimits, DecoderInv, Push PROVE DecoderInv'
  OBVIOUS
<1>1. /\ Wire' = Wire /\ UNCHANGED <<stream, decoded>>
      /\ \A k : WireEnd(k)' = WireEnd(k)
      /\ \A k : Intact(k)' = Intact(k)
  BY StreamStays DEF Push
<1>2. PICK n \in 1 .. MaxChunk :
         /\ received + n <= Len(Wire)
         /\ IF BufferLen + n > MaxBuffer
            THEN /\ refused' = "push"
                 /\ UNCHANGED <<received, buffer, consumed>>
            ELSE /\ buffer' = Compacted \o SubSeq(Wire, received + 1, received + n)
                 /\ consumed' = 0
                 /\ received' = received + n
                 /\ UNCHANGED refused
  BY DEF Push
<1>3. CASE BufferLen + n > MaxBuffer
  <2>1. BufferLen' = BufferLen /\ BufferIsBounded' = BufferIsBounded
    BY <1>2, <1>3 DEF BufferLen, BufferIsBounded, MaxBuffer
  <2> QED
    BY <1>1, <1>2, <1>3, <2>1 DEF DecoderInv
<1>4. CASE ~(BufferLen + n > MaxBuffer)
  <2> DEFINE more == SubSeq(Wire, received + 1, received + n)
  <2>1. /\ Wire \in Seq(Nat \X Nat) /\ Len(Wire) \in Nat /\ n \in Nat /\ received \in Nat
        /\ Len(buffer) \in Nat /\ consumed \in Nat /\ BufferLen \in Nat
        /\ BufferLen = Len(buffer) - consumed /\ MaxBuffer \in Nat
        /\ WireEnd(Len(decoded)) = received - BufferLen
    BY <1>2, WireFacts DEF DecoderInv, BufferLen, DecoderLimits, MaxBuffer
  <2>2. /\ more \in Seq(Nat \X Nat) /\ Len(more) = n
        /\ \A i \in 1 .. n : more[i] = Wire[received + i]
    <3>1. ASSUME NEW i \in received + 1 .. received + n PROVE Wire[i] \in Nat \X Nat
      <4>1. i \in 1 .. Len(Wire)
        BY <1>2, <2>1
      <4> QED BY <2>1, <4>1, ElementOfSeq
    <3>2. received + 1 \in Int /\ received + n \in Int /\ received + 1 <= received + n
          /\ (received + n) - (received + 1) + 1 = n
          /\ \A i \in 1 .. n : received + 1 + i - 1 = received + i
      BY <1>2, <2>1
    <3> QED
      BY <3>1, <3>2, SubSeqProperties
  <2>3. /\ Compacted \in Seq(Nat \X Nat) /\ Len(Compacted) = BufferLen
        /\ \A i \in 1 .. BufferLen : Compacted[i] = buffer[consumed + i]
    <3>1. \A i \in consumed + 1 .. Len(buffer) : buffer[i] \in Nat \X Nat
      BY <2>1 DEF DecoderInv
    <3>2. /\ consumed + 1 \in Int /\ Len(buffer) \in Int
          /\ Len(buffer) - (consumed + 1) + 1 = BufferLen
          /\ consumed + 1 <= Len(buffer) \/ BufferLen = 0
          /\ \A i \in 1 .. BufferLen : consumed + 1 + i - 1 = consumed + i
      BY <2>1 DEF DecoderInv
    <3> QED
      BY <2>1, <3>1, <3>2, SubSeqProperties DEF Compacted
  <2>4. buffer' = Compacted \o more /\ consumed' = 0 /\ received' = received + n /\ refused' = refused
    BY <1>2, <1>4
  <2> HIDE DEF more
  <2>5. /\ buffer' \in Seq(Nat \X Nat) /\ Len(buffer') = BufferLen + n
        /\ \A i \in 1 .. BufferLen + n :
             buffer'[i] = IF i <= BufferLen THEN Compacted[i] ELSE more[i - BufferLen]
    <3>1. /\ Len(buffer') = Len(Compacted) + Len(more)
          /\ \A i \in 1 .. Len(Compacted) + Len(more) :
               buffer'[i] = IF i <= Len(Compacted) THEN Compacted[i] ELSE more[i - Len(Compacted)]
      BY <2>2, <2>3, <2>4, ConcatProperties
    <3>2. buffer' \in Seq(Nat \X Nat)
      BY <2>2, <2>3, <2>4, ConcatProperties
    <3> QED
      BY <2>2, <2>3, <3>1, <3>2
  <2>6. BufferLen' = BufferLen + n /\ BufferIsBounded'
    <3>1. BufferLen' = Len(buffer') - consumed' /\ MaxBuffer' = MaxBuffer
      BY DEF BufferLen, MaxBuffer
    <3> QED
      BY <1>4, <2>1, <2>4, <2>5, <3>1 DEF BufferIsBounded
  <2>7. ASSUME NEW i \in 1 .. BufferLen + n
        PROVE  buffer'[0 + i] = Wire[WireEnd(Len(decoded)) + i]
    <3>1. CASE i <= BufferLen
      <4>1. i \in 1 .. BufferLen /\ 0 + i = i
        BY <2>1, <3>1
      <4> QED
        BY <2>3, <2>5, <3>1, <4>1 DEF DecoderInv
    <3>2. CASE ~(i <= BufferLen)
      <4>1. i - BufferLen \in 1 .. n /\ 0 + i = i
            /\ received + (i - BufferLen) = WireEnd(Len(decoded)) + i
        BY <2>1, <3>2
      <4> QED
        BY <2>2, <2>5, <3>2, <4>1
    <3> QED
      BY <3>1, <3>2
  <2>8. received' - BufferLen' = WireEnd(Len(decoded)) /\ received' \in 0 .. Len(Wire)
    BY <1>2, <2>1, <2>4, <2>6
  <2>9. consumed' \in 0 .. Len(buffer')
    BY <2>1, <2>4, <2>5
  <2> QED
    BY <1>1, <2>4, <2>5, <2>6, <2>7, <2>8, <2>9 DEF DecoderInv
<1> QED
  BY <1>3, <1>4

\* Where BufferLen bytes wait, the first of them is the header of the next frame.
LEMMA HeaderIsNext ==
  ASSUME DecoderLimits, DecoderInv, BufferLen >= HeaderLength
  PROVE  /\ Len(decoded) + 1 \in 1 .. Len(stream) /\ Len(decoded) \in Nat
         /\ buffer[consumed + 1] = <<Len(decoded) + 1, 1>>
         /\ AtHeader /\ HeadFrame = stream[Len(decoded) + 1]
         /\ FrameEnd = consumed + FrameSize(Len(decoded) + 1)
         /\ WireEnd(Len(decoded) + 1) = WireEnd(Len(decoded)) + FrameSize(Len(decoded) + 1)
         /\ FrameSize(Len(decoded) + 1) \in Nat
<1>1. PICK d \in Nat : d = Len(decoded)
  BY DEF DecoderInv
<1>2. /\ Len(stream) \in Nat /\ d <= Len(stream) /\ received \in Nat /\ received <= Len(Wire)
      /\ Len(Wire) = WireEnd(Len(stream)) /\ BufferLen \in Nat /\ BufferLen >= 1
      /\ received - BufferLen = WireEnd(d) /\ WireEnd(d) \in Nat
      /\ consumed \in Nat /\ HeaderLength \in Nat /\ HeaderLength >= 1
  <2>1. /\ Len(stream) \in Nat /\ Len(Wire) = WireEnd(Len(stream))
        /\ \A k \in 0 .. Len(stream) : WireEnd(k) \in Nat
    BY WireFacts DEF DecoderInv
  <2>2. d \in 0 .. Len(stream) /\ Len(stream) \in 0 .. Len(stream)
    BY <1>1, <2>1 DEF DecoderInv
  <2>3. Len(Wire) \in Nat /\ WireEnd(d) \in Nat
    BY <2>1, <2>2
  <2>4. Len(buffer) \in Nat /\ consumed \in Nat /\ consumed <= Len(buffer)
    BY DEF DecoderInv
  <2> QED
    BY <1>1, <2>1, <2>2, <2>3, <2>4 DEF DecoderInv, BufferLen, DecoderLimits
<1>3. d # Len(stream)
  <2>1. received > WireEnd(d)
    BY <1>2
  <2> QED
    BY <1>2, <2>1
<1>4. d + 1 \in 1 .. Len(stream) /\ (d + 1) - 1 = d
  BY <1>2, <1>3
<1>5. /\ stream[d + 1].payload_length \in Nat /\ WireEnd(d + 1) = WireEnd(d) + FrameSize(d + 1)
      /\ \A p \in 1 .. FrameSize(d + 1) : Wire[WireEnd(d) + p] = <<d + 1, p>>
  <2>1. /\ \A k \in 1 .. Len(stream) : stream[k].payload_length \in Nat
        /\ \A k \in 1 .. Len(stream) : WireEnd(k) = WireEnd(k - 1) + FrameSize(k)
        /\ \A k \in 1 .. Len(stream) : \A p \in 1 .. FrameSize(k) : Wire[WireEnd(k - 1) + p] = <<k, p>>
    BY WireFacts DEF DecoderInv
  <2>2. /\ WireEnd(d + 1) = WireEnd((d + 1) - 1) + FrameSize(d + 1)
        /\ \A p \in 1 .. FrameSize(d + 1) : Wire[WireEnd((d + 1) - 1) + p] = <<d + 1, p>>
    BY <1>4, <2>1, Zenon
  <2> QED
    BY <1>4, <2>1, <2>2
<1>6. FrameSize(d + 1) \in Nat /\ 1 \in 1 .. FrameSize(d + 1) /\ 1 \in 1 .. BufferLen
  <2>1. PICK p \in Nat : p = stream[d + 1].payload_length /\ FrameSize(d + 1) = HeaderLength + p
    BY <1>5 DEF FrameSize
  <2>2. HeaderLength + p \in Nat /\ HeaderLength + p >= 1
    BY <1>2
  <2>3. FrameSize(d + 1) \in Nat /\ FrameSize(d + 1) >= 1
    BY <2>1, <2>2
  <2> QED
    BY <1>2, <2>3
<1>7. buffer[consumed + 1] = <<d + 1, 1>>
  BY <1>1, <1>5, <1>6 DEF DecoderInv
<1>8. AtHeader /\ HeadFrame = stream[d + 1]
  BY <1>7 DEF AtHeader, HeadFrame
<1>9. FrameEnd = consumed + FrameSize(d + 1)
  BY <1>2, <1>5, <1>8 DEF FrameEnd, FrameSize
<1> QED
  BY <1>1, <1>4, <1>5, <1>6, <1>7, <1>8, <1>9

LEMMA NextFrameKeepsInv == DecoderLimits /\ DecoderInv /\ NextFrame => DecoderInv'
<1> SUFFICES ASSUME DecoderLimits, DecoderInv, NextFrame PROVE DecoderInv'
  OBVIOUS
<1>1. /\ Wire' = Wire /\ UNCHANGED <<stream, received>>
      /\ \A k : WireEnd(k)' = WireEnd(k)
      /\ \A k : Intact(k)' = Intact(k)
  BY StreamStays DEF NextFrame
<1>2. PICK d \in Nat : d = Len(decoded)
  BY DEF DecoderInv
<1>3. PICK size \in Nat : size = FrameSize(d + 1)
  BY <1>2, HeaderIsNext DEF NextFrame
<1>4. /\ d + 1 \in 1 .. Len(stream) /\ buffer[consumed + 1] = <<d + 1, 1>> /\ AtHeader
      /\ HeadFrame = stream[d + 1] /\ FrameEnd = consumed + size
      /\ WireEnd(d + 1) = WireEnd(d) + size
  BY <1>2, <1>3, HeaderIsNext DEF NextFrame
<1>5. CASE HeaderRefused \/ (FrameEnd <= Len(buffer) /\ StatusRefused)
  <2>1. refused' = "frame" /\ UNCHANGED <<buffer, consumed, decoded>>
    BY <1>4, <1>5 DEF NextFrame
  <2>2. ~Intact(d + 1)
    <3>1. stream[d + 1].payload_length \in Nat
      BY <1>4, WireFacts DEF DecoderInv
    <3> QED
      BY <1>4, <1>5, <3>1 DEF HeaderRefused, StatusRefused, Intact, DecoderLimits
  <2>3. BufferLen' = BufferLen /\ BufferIsBounded' = BufferIsBounded
    BY <2>1 DEF BufferLen, BufferIsBounded, MaxBuffer
  <2> QED
    BY <1>1, <1>2, <2>1, <2>2, <2>3 DEF DecoderInv
<1>6. CASE ~HeaderRefused /\ FrameEnd <= Len(buffer) /\ ~StatusRefused
  <2>1. /\ decoded' = Append(decoded, d + 1)
        /\ buffer' = IF FrameEnd = Len(buffer) THEN <<>> ELSE buffer
        /\ consumed' = IF FrameEnd = Len(buffer) THEN 0 ELSE FrameEnd
        /\ refused' = refused
    BY <1>4, <1>6 DEF NextFrame
  <2>2. Intact(d + 1)
    <3>1. stream[d + 1].defect \in {"none", "header", "status"}
      BY <1>4, WireFacts DEF DecoderInv
    <3>2. stream[d + 1].payload_length \in Nat
      BY <1>4, WireFacts DEF DecoderInv
    <3> QED
      BY <1>4, <1>6, <3>1, <3>2 DEF HeaderRefused, StatusRefused, Intact, DecoderLimits
  <2>3. /\ decoded' \in Seq(Nat) /\ Len(decoded') = d + 1 /\ Len(decoded') <= Len(stream')
        /\ \A k \in 1 .. Len(decoded') : decoded'[k] = k /\ Intact(k)'
    <3>1. decoded \in Seq(Nat) /\ \A k \in 1 .. d : decoded[k] = k /\ Intact(k)
      BY <1>2 DEF DecoderInv
    <3>2. /\ decoded' \in Seq(Nat) /\ Len(decoded') = d + 1 /\ decoded'[d + 1] = d + 1
          /\ \A k \in 1 .. d : decoded'[k] = decoded[k]
      BY <1>2, <2>1, <3>1
    <3>3. ASSUME NEW k \in 1 .. d + 1 PROVE decoded'[k] = k /\ Intact(k)'
      <4>1. CASE k = d + 1
        BY <1>1, <2>2, <3>2, <4>1
      <4>2. CASE k \in 1 .. d
        BY <1>1, <3>1, <3>2, <4>2
      <4> QED
        BY <4>1, <4>2
    <3> QED
      BY <1>1, <1>4, <3>2, <3>3, SMTT(30)
  <2>4. /\ Len(buffer) \in Nat /\ consumed \in Nat /\ BufferLen = Len(buffer) - consumed
        /\ WireEnd(d) = received - BufferLen /\ MaxBuffer \in Nat /\ Len(buffer) <= MaxBuffer
        /\ buffer \in Seq(Nat \X Nat) /\ received \in Nat
    BY <1>2, WireFacts DEF DecoderInv, BufferLen, BufferIsBounded, DecoderLimits, MaxBuffer
  <2>5. /\ buffer' \in Seq(Nat \X Nat) /\ Len(buffer') \in Nat /\ Len(buffer') <= Len(buffer)
        /\ consumed' \in 0 .. Len(buffer')
        /\ Len(buffer') - consumed' = Len(buffer) - FrameEnd
    <3>1. CASE FrameEnd = Len(buffer)
      <4>1. buffer' = <<>> /\ consumed' = 0 /\ Len(buffer') = 0 /\ buffer' \in Seq(Nat \X Nat)
        BY <2>1, <3>1
      <4> QED
        BY <2>4, <3>1, <4>1
    <3>2. CASE FrameEnd # Len(buffer)
      BY <1>4, <1>6, <2>1, <2>4, <3>2
    <3> QED
      BY <3>1, <3>2
  <2>6. /\ BufferLen' = BufferLen - size /\ BufferIsBounded' /\ BufferLen' \in Nat
    <3>1. BufferLen' = Len(buffer') - consumed' /\ MaxBuffer' = MaxBuffer
      BY DEF BufferLen, MaxBuffer
    <3>2. Len(buffer) - FrameEnd = BufferLen - size /\ BufferLen - size \in Nat
      <4>1. PICK l \in Nat : l = Len(buffer)
        BY <2>4
      <4>2. PICK c \in Nat : c = consumed
        BY <2>4
      <4>3. FrameEnd = c + size /\ BufferLen = l - c
        BY <1>4, <2>4, <4>1, <4>2
      <4>4. c + size <= l
        BY <1>6, <4>1, <4>3
      <4>5. l - (c + size) = (l - c) - size /\ (l - c) - size \in Nat
        BY <4>4
      <4> QED
        BY <4>1, <4>3, <4>5
    <3>3. BufferLen' = BufferLen - size
      BY <2>5, <3>1, <3>2
    <3>4. Len(buffer') <= MaxBuffer
      BY <2>4, <2>5
    <3> QED
      BY <3>1, <3>2, <3>3, <3>4 DEF BufferIsBounded
  <2>7. received - BufferLen' = WireEnd(d + 1)
    BY <1>4, <2>4, <2>6
  <2>8. ASSUME NEW i \in 1 .. BufferLen' PROVE buffer'[consumed' + i] = Wire[WireEnd(d + 1) + i]
    <3>1. FrameEnd # Len(buffer)
      BY <1>4, <2>4, <2>6, <2>8
    <3>2. buffer' = buffer /\ consumed' = consumed + size
      BY <1>4, <2>1, <3>1
    <3>3. size + i \in 1 .. BufferLen
      BY <2>4, <2>6
    <3>4. buffer[consumed + (size + i)] = Wire[WireEnd(d) + (size + i)]
      BY <1>2, <3>3 DEF DecoderInv
    <3>5. consumed' + i = consumed + (size + i) /\ WireEnd(d + 1) + i = WireEnd(d) + (size + i)
      BY <1>4, <2>4, <3>2
    <3> QED
      BY <3>2, <3>4, <3>5
  <2>9. refused' # "frame"
    BY <2>1 DEF NextFrame
  <2> QED
    BY <1>1, <2>1, <2>3, <2>5, <2>6, <2>7, <2>8, <2>9 DEF DecoderInv
<1> QED
  BY <1>4, <1>5, <1>6 DEF NextFrame

LEMMA DecoderInvNext == DecoderLimits /\ DecoderInv /\ [DecoderNext]_decoderVars => DecoderInv'
<1> SUFFICES ASSUME DecoderLimits, DecoderInv, [DecoderNext]_decoderVars PROVE DecoderInv'
  OBVIOUS
<1>1. CASE UNCHANGED decoderVars
  <2>1. UNCHANGED <<stream, received, buffer, consumed, decoded, refused>>
    BY <1>1 DEF decoderVars
  <2>2. /\ Wire' = Wire
        /\ \A k : WireEnd(k)' = WireEnd(k)
        /\ \A k : Intact(k)' = Intact(k)
    BY <2>1, StreamStays
  <2>3. BufferLen' = BufferLen /\ BufferIsBounded' = BufferIsBounded
    BY <2>1 DEF BufferLen, BufferIsBounded, MaxBuffer
  <2> QED
    BY <2>1, <2>2, <2>3 DEF DecoderInv
<1>2. CASE Push
  BY <1>2, PushKeepsInv
<1>3. CASE NextFrame
  BY <1>3, NextFrameKeepsInv
<1> QED
  BY <1>1, <1>2, <1>3 DEF DecoderNext, DecoderIdle

LEMMA DecoderInvGives == DecoderLimits /\ DecoderInv => DecoderCorrect
<1> SUFFICES ASSUME DecoderLimits, DecoderInv PROVE DecoderCorrect
  OBVIOUS
<1>1. /\ Len(decoded) \in Nat /\ DOMAIN decoded = 1 .. Len(decoded) /\ decoded \in Seq(Nat)
      /\ Len(buffer) \in Nat /\ consumed \in Nat /\ BufferLen \in Nat /\ received \in Nat
      /\ BufferLen = Len(buffer) - consumed /\ Wire \in Seq(Nat \X Nat) /\ Len(Wire) \in Nat
      /\ WireEnd(Len(decoded)) \in Nat
  BY WireFacts DEF DecoderInv, BufferLen
<1>2. DecoderTypeOK
  BY <1>1 DEF DecoderTypeOK, DecoderInv
<1>3. decoded = [k \in DOMAIN decoded |-> k]
  BY <1>1 DEF DecoderInv
<1>4. Compacted = SubSeq(Wire, received - BufferLen + 1, received)
  <2> DEFINE rest == SubSeq(Wire, received - BufferLen + 1, received)
  <2>1. /\ Compacted \in Seq(Nat \X Nat) /\ Len(Compacted) = BufferLen
        /\ \A i \in 1 .. BufferLen : Compacted[i] = buffer[consumed + i]
    <3>1. \A i \in consumed + 1 .. Len(buffer) : buffer[i] \in Nat \X Nat
      BY <1>1 DEF DecoderInv
    <3>2. /\ consumed + 1 \in Int /\ Len(buffer) \in Int
          /\ Len(buffer) - (consumed + 1) + 1 = BufferLen
          /\ consumed + 1 <= Len(buffer) \/ BufferLen = 0
          /\ \A i \in 1 .. BufferLen : consumed + 1 + i - 1 = consumed + i
      BY <1>1 DEF DecoderInv
    <3> QED
      BY <1>1, <3>1, <3>2, SubSeqProperties, SMTT(30) DEF Compacted
  <2>2. /\ rest \in Seq(Nat \X Nat) /\ Len(rest) = BufferLen
        /\ \A i \in 1 .. BufferLen : rest[i] = Wire[WireEnd(Len(decoded)) + i]
    <3>1. PICK from \in Nat : from = WireEnd(Len(decoded)) /\ received = from + BufferLen
                               /\ received - BufferLen + 1 = from + 1
      BY <1>1 DEF DecoderInv
    <3>2. ASSUME NEW i \in from + 1 .. received PROVE Wire[i] \in Nat \X Nat
      <4>1. i \in 1 .. Len(Wire)
        <5>1. received <= Len(Wire) /\ from + 1 >= 1
          BY <1>1, <3>1 DEF DecoderInv
        <5> QED BY <1>1, <3>1, <5>1
      <4> QED BY <1>1, <4>1, ElementOfSeq
    <3>3. /\ from + 1 \in Int /\ received \in Int /\ received - (from + 1) + 1 = BufferLen
          /\ from + 1 <= received \/ BufferLen = 0
          /\ \A i \in 1 .. BufferLen : from + 1 + i - 1 = from + i
      <4>1. PICK n \in Nat : n = BufferLen /\ received = from + n
        BY <1>1, <3>1
      <4> QED BY <4>1
    <3>4. rest = SubSeq(Wire, from + 1, received)
      BY <3>1
    <3> HIDE DEF rest
    <3>5. /\ rest \in Seq(Nat \X Nat)
          /\ Len(rest) = IF from + 1 <= received THEN received - (from + 1) + 1 ELSE 0
          /\ \A i \in 1 .. received - (from + 1) + 1 : rest[i] = Wire[from + 1 + i - 1]
      BY <3>2, <3>3, <3>4, SubSeqProperties
    <3> QED
      BY <3>1, <3>3, <3>5
  <2>3. \A i \in 1 .. BufferLen : Compacted[i] = rest[i]
    BY <2>1, <2>2 DEF DecoderInv
  <2> HIDE DEF rest
  <2>4. Compacted = rest
    BY <2>1, <2>2, <2>3, SeqEqual
  <2> QED
    BY <2>4 DEF rest
<1>5. ASSUME BufferLen > 0 PROVE AtHeader /\ buffer[consumed + 1][1] = Len(decoded) + 1
  <2>1. PICK d \in Nat : d = Len(decoded)
    BY <1>1
  <2>2. /\ Len(stream) \in Nat /\ d \in 0 .. Len(stream) /\ Len(Wire) = WireEnd(Len(stream))
        /\ received - BufferLen = WireEnd(d) /\ received <= Len(Wire)
    BY <2>1, WireFacts DEF DecoderInv
  <2>3. d # Len(stream)
    BY <1>1, <1>5, <2>1, <2>2
  <2>4. d + 1 \in 1 .. Len(stream) /\ (d + 1) - 1 = d
    BY <2>2, <2>3
  <2>5. \A p \in 1 .. FrameSize(d + 1) : Wire[WireEnd((d + 1) - 1) + p] = <<d + 1, p>>
    BY <2>4, WireFacts DEF DecoderInv
  <2>6. stream[d + 1].payload_length \in Nat
    BY <2>4, WireFacts DEF DecoderInv
  <2>7. 1 \in 1 .. FrameSize(d + 1) /\ 1 \in 1 .. BufferLen
    BY <1>1, <1>5, <2>6 DEF FrameSize, DecoderLimits
  <2>8. buffer[consumed + 1] = <<d + 1, 1>>
    BY <2>1, <2>4, <2>5, <2>7 DEF DecoderInv
  <2> QED
    BY <2>1, <2>8 DEF AtHeader
<1>6. FramesSurviveChunking
  BY <1>3, <1>4, <1>5 DEF FramesSurviveChunking
<1>7. OnlyDefectsRefused
  BY <1>1 DEF OnlyDefectsRefused, DecoderInv
<1> QED
  BY <1>2, <1>6, <1>7 DEF DecoderCorrect, DecoderInv

\* However a connection's bytes are cut into reads, the decoder returns the frames that
\* were sent, in order, refuses only a defective one, at which it stops, and keeps a
\* bounded buffer (StreamingDecoder::push and next_frame, codec.rs).
THEOREM DecoderIsCorrect == DecoderLimits /\ DecoderSpec => []DecoderCorrect
<1> SUFFICES ASSUME DecoderLimits PROVE DecoderSpec => []DecoderCorrect
  OBVIOUS
<1>1. DecoderInit => DecoderInv
  BY DecoderInvInit
<1>2. DecoderInv /\ [DecoderNext]_decoderVars => DecoderInv'
  BY DecoderInvNext
<1>3. DecoderInv => DecoderCorrect
  BY DecoderInvGives
<1> QED
  BY <1>1, <1>2, <1>3, PTL DEF DecoderSpec

-----------------------------------------------------------------------------
(* The raw log's file and its reader (LogFile). *)

\* The records as strings of cells.
Records == [k \in DOMAIN written |-> EncodeRecord(k)]
RecordSize(k) == EnvelopeLen + written[k]

\* Every cell of the file is where the lengths of the records before it say.
LEMMA RecordFacts ==
  ASSUME LogFileLimits, written \in Seq(Nat)
  PROVE  /\ Len(written) \in Nat /\ DOMAIN written = 1 .. Len(written)
         /\ \A k \in 1 .. Len(written) : RecordSize(k) \in Nat /\ EnvelopeLen <= RecordSize(k)
         /\ Len(Cells) = EndOf(Len(written)) /\ EndOf(0) = 0
         /\ \A k \in 0 .. Len(written) : EndOf(k) \in Nat
         /\ \A k \in 1 .. Len(written) : EndOf(k) = EndOf(k - 1) + RecordSize(k)
         /\ \A m \in 0 .. Len(written) : \A k \in 0 .. m : EndOf(k) <= EndOf(m)
         /\ \A k \in 1 .. Len(written) : \A p \in 1 .. RecordSize(k) : Cells[EndOf(k - 1) + p] = <<k, p>>
<1> DEFINE n == Len(written)
           size == [k \in 1 .. n |-> RecordSize(k)]
<1>1. n \in Nat /\ DOMAIN written = 1 .. n /\ \A k \in 1 .. n : written[k] \in Nat
  OBVIOUS
<1>2. \A k \in 1 .. n : RecordSize(k) \in Nat /\ EnvelopeLen <= RecordSize(k)
  BY <1>1 DEF RecordSize, LogFileLimits
<1>3. \A k \in 1 .. n : Records[k] = EncodeRecord(k)
  BY <1>1 DEF Records
<1>4. \A k \in 1 .. n : Records[k] = [p \in 1 .. RecordSize(k) |-> <<k, p>>]
  BY <1>3 DEF EncodeRecord, RecordSize
<1>5. CellStrings(Records, n, size)
  BY <1>2, <1>4 DEF CellStrings
<1>6. Joined(Records, n) = Cells
  <2>1. [i \in 1 .. n |-> Records[i]] = Records
    BY <1>1 DEF Records
  <2> QED BY <2>1 DEF Joined, Cells, Records
<1>7. ASSUME NEW k \in 0 .. n PROVE JoinEnd(Records, k) = EndOf(k)
  <2>1. \A j \in 1 .. k : Records[j] = EncodeRecord(j)
    BY <1>1, <1>3
  <2>2. [j \in 1 .. k |-> Records[j]] = [j \in 1 .. k |-> EncodeRecord(j)]
    BY <2>1
  <2> QED BY <2>2 DEF JoinEnd, Joined, EndOf
<1>8. \A k \in 1 .. n : size[k] = RecordSize(k)
  OBVIOUS
<1> HIDE DEF n, size
<1>9. /\ Joined(Records, n) \in Seq(Nat \X Nat)
      /\ JoinEnd(Records, 0) = 0
      /\ \A k \in 0 .. n : JoinEnd(Records, k) \in Nat
      /\ \A k \in 1 .. n : JoinEnd(Records, k) = JoinEnd(Records, k - 1) + size[k]
      /\ \A m \in 0 .. n : \A k \in 0 .. m : JoinEnd(Records, k) <= JoinEnd(Records, m)
      /\ \A k \in 1 .. n : \A p \in 1 .. size[k] :
           Joined(Records, n)[JoinEnd(Records, k - 1) + p] = <<k, p>>
  BY <1>1, <1>5, CellsInPlace, ZenonT(60)
<1>10. /\ 0 \in 0 .. n /\ n \in 0 .. n
       /\ \A k \in 1 .. n : k \in 0 .. n /\ k - 1 \in 0 .. n
       /\ \A m \in 0 .. n : \A k \in 0 .. m : k \in 0 .. n
  BY <1>1
<1>11. Len(Cells) = EndOf(n)
  BY <1>6, <1>7, <1>10 DEF JoinEnd
<1>12. \A k \in 1 .. n : EndOf(k) = EndOf(k - 1) + RecordSize(k)
  BY <1>7, <1>8, <1>9, <1>10
<1>13. \A m \in 0 .. n : \A k \in 0 .. m : EndOf(k) <= EndOf(m)
  BY <1>7, <1>9, <1>10
<1>14. \A k \in 1 .. n : \A p \in 1 .. RecordSize(k) : Cells[EndOf(k - 1) + p] = <<k, p>>
  BY <1>6, <1>7, <1>8, <1>9, <1>10
<1> QED
  BY <1>1, <1>2, <1>7, <1>9, <1>10, <1>11, <1>12, <1>13, <1>14 DEF n

\* The reader has returned the records up to where it stands; when it has ended, the
\* next one is cut or damaged.  While the file is written nothing is read.
ReaderInv ==
  LET m == Len(returned)
  IN  /\ on_disk \in 0 .. Len(Cells) /\ damaged \in 0 .. on_disk /\ file_position \in 0 .. on_disk
      /\ returned \in Seq(Nat) /\ m <= Len(written) /\ index = m
      /\ \A i \in 1 .. m : returned[i] = i
      /\ EndOf(m) <= on_disk
      /\ damaged = 0 \/ EndOf(m) < damaged
      /\ ending \in {"none", "clean", "truncated", "corrupt"}
      /\ ending = "none" => file_position = EndOf(m)
      /\ ending # "none" /\ m < Len(written) =>
           on_disk < EndOf(m + 1) \/ (damaged # 0 /\ damaged <= EndOf(m + 1))

LogInv ==
  /\ written \in Seq(Nat) /\ writing \in BOOLEAN
  /\ writing => /\ on_disk = 0 /\ damaged = 0 /\ file_position = 0
                /\ index = 0 /\ returned = << >> /\ ending = "none"
  /\ ~writing => ReaderInv

LEMMA CrashKeepsInv == LogFileLimits /\ LogInv /\ StopOrCrash => LogInv'
<1> SUFFICES ASSUME LogFileLimits, LogInv, StopOrCrash PROVE LogInv'
  OBVIOUS
<1>1. /\ writing /\ ~writing' /\ on_disk' \in 0 .. Len(Cells) /\ damaged' \in 0 .. on_disk'
      /\ UNCHANGED <<written, file_position, index, returned, ending>>
      /\ file_position = 0 /\ index = 0 /\ returned = << >> /\ ending = "none"
  BY DEF StopOrCrash, LogInv
<1>2. \A k : EncodeRecord(k)' = EncodeRecord(k)
  BY <1>1 DEF EncodeRecord
<1>3. Cells' = Cells /\ EndOf(0)' = EndOf(0)
  BY <1>1, <1>2 DEF Cells, EndOf
<1>4. /\ EndOf(0) = 0 /\ Len(Cells) \in Nat /\ Len(written) \in Nat
  <2>1. /\ Len(written) \in Nat /\ EndOf(0) = 0 /\ Len(Cells) = EndOf(Len(written))
        /\ \A k \in 0 .. Len(written) : EndOf(k) \in Nat
    BY RecordFacts DEF LogInv
  <2> QED BY <2>1
<1>5. Len(returned') = 0 /\ returned' \in Seq(Nat)
  BY <1>1
<1>6. ReaderInv'
  <2>1. EndOf(Len(returned))' = 0
    BY <1>3, <1>4, <1>5
  <2> QED
    BY <1>1, <1>3, <1>4, <1>5, <2>1 DEF ReaderInv
<1>7. writing' = FALSE /\ written' \in Seq(Nat)
  BY <1>1 DEF StopOrCrash, LogInv
<1> QED
  BY <1>6, <1>7 DEF LogInv

\* Where the reader stands and what is there.
LEMMA RecordAhead ==
  ASSUME LogFileLimits, LogInv, ~writing, ending = "none", NEW m \in Nat, m = Len(returned)
  PROVE  /\ file_position = EndOf(m) /\ EndOf(m) \in Nat
         /\ m \in 0 .. Len(written) /\ Len(written) \in Nat
         /\ on_disk \in Nat /\ on_disk <= EndOf(Len(written))
         /\ m < Len(written) =>
              /\ m + 1 \in 1 .. Len(written)
              /\ EndOf(m + 1) = EndOf(m) + RecordLen /\ At[1] = m + 1
              /\ RecordLen \in Nat /\ EnvelopeLen <= RecordLen
<1>1. ReaderInv /\ written \in Seq(Nat)
  BY DEF LogInv
<1>2. /\ Len(written) \in Nat /\ Len(Cells) = EndOf(Len(written))
      /\ \A k \in 0 .. Len(written) : EndOf(k) \in Nat
      /\ \A k \in 1 .. Len(written) : RecordSize(k) \in Nat /\ EnvelopeLen <= RecordSize(k)
      /\ \A k \in 1 .. Len(written) : EndOf(k) = EndOf(k - 1) + RecordSize(k)
      /\ \A k \in 1 .. Len(written) : \A p \in 1 .. RecordSize(k) : Cells[EndOf(k - 1) + p] = <<k, p>>
  BY <1>1, RecordFacts
<1>3. m \in 0 .. Len(written) /\ Len(written) \in 0 .. Len(written) /\ file_position = EndOf(m)
  BY <1>1, <1>2 DEF ReaderInv
<1>4. Len(Cells) \in Nat
  BY <1>2, <1>3
<1>5. on_disk \in Nat /\ on_disk <= EndOf(Len(written))
  BY <1>1, <1>2, <1>4 DEF ReaderInv
<1>6. ASSUME m < Len(written)
      PROVE  /\ m + 1 \in 1 .. Len(written)
             /\ EndOf(m + 1) = EndOf(m) + RecordLen /\ At[1] = m + 1
             /\ RecordLen \in Nat /\ EnvelopeLen <= RecordLen
  <2>1. m + 1 \in 1 .. Len(written) /\ (m + 1) - 1 = m
    BY <1>2, <1>6
  <2>2. 1 \in 1 .. RecordSize(m + 1)
    BY <1>2, <2>1 DEF LogFileLimits
  <2>3. Cells[EndOf(m) + 1] = <<m + 1, 1>>
    BY <1>2, <2>1, <2>2
  <2>4. At[1] = m + 1
    BY <1>3, <2>3 DEF At
  <2>5. RecordLen = RecordSize(m + 1)
    BY <2>4 DEF RecordLen, RecordSize
  <2> QED
    BY <1>2, <2>1, <2>4, <2>5
<1> QED
  BY <1>2, <1>3, <1>5, <1>6

LEMMA ReadKeepsInv == LogFileLimits /\ LogInv /\ NextRecord => LogInv'
<1> SUFFICES ASSUME LogFileLimits, LogInv, NextRecord PROVE LogInv'
  OBVIOUS
<1>1. /\ ~writing /\ ending = "none" /\ UNCHANGED <<written, on_disk, writing, damaged>>
      /\ ReaderInv /\ written \in Seq(Nat)
  BY DEF NextRecord, LogInv
<1>2. \A k : EncodeRecord(k)' = EncodeRecord(k)
  BY <1>1 DEF EncodeRecord
<1>3. Cells' = Cells /\ \A k : EndOf(k)' = EndOf(k)
  BY <1>1, <1>2 DEF Cells, EndOf
<1>4. PICK m \in Nat : m = Len(returned)
  BY <1>1 DEF ReaderInv
<1>5. /\ file_position = EndOf(m) /\ EndOf(m) \in Nat
      /\ m \in 0 .. Len(written) /\ Len(written) \in Nat
      /\ on_disk \in Nat /\ on_disk <= EndOf(Len(written))
      /\ m < Len(written) =>
           /\ m + 1 \in 1 .. Len(written)
           /\ EndOf(m + 1) = EndOf(m) + RecordLen /\ At[1] = m + 1
           /\ RecordLen \in Nat /\ EnvelopeLen <= RecordLen
  BY <1>1, <1>4, RecordAhead
<1>6. /\ EnvelopeLen \in Nat /\ EnvelopeLen >= 1 /\ EndOf(m) <= on_disk
      /\ damaged \in Nat /\ damaged <= on_disk /\ (damaged = 0 \/ EndOf(m) < damaged)
      /\ file_position \in 0 .. on_disk
  BY <1>1, <1>4, <1>5 DEF ReaderInv, LogFileLimits
\* An answer that is no record: it must be the next record's fault.
<1>7. ASSUME UNCHANGED <<index, returned>>, file_position' \in 0 .. on_disk,
             ending' \in {"clean", "truncated", "corrupt"},
             m < Len(written) => on_disk < EndOf(m + 1) \/ (damaged # 0 /\ damaged <= EndOf(m + 1))
      PROVE  LogInv'
  <2>1. EndOf(Len(returned))' = EndOf(m) /\ EndOf(Len(returned) + 1)' = EndOf(m + 1)
        /\ Len(returned') = m
    BY <1>3, <1>4, <1>7
  <2> QED
    BY <1>1, <1>3, <1>4, <1>7, <2>1 DEF LogInv, ReaderInv
<1>8. CASE EnvelopeCut
  <2>1. /\ UNCHANGED <<index, returned>> /\ file_position' = on_disk
        /\ ending' \in {"clean", "truncated", "corrupt"} /\ on_disk - file_position < EnvelopeLen
    BY <1>8 DEF EnvelopeCut, Remaining
  <2>2. m < Len(written) => on_disk < EndOf(m + 1)
    BY <1>5, <1>6, <2>1
  <2>3. file_position' \in 0 .. on_disk
    BY <1>5, <2>1
  <2> QED
    BY <1>7, <2>1, <2>2, <2>3
<1>9. ASSUME Remaining >= EnvelopeLen,
             NEW n \in IF LengthDamaged THEN 0..(3 * EnvelopeLen) \ {RecordLen} ELSE {RecordLen},
             ReadRecord(n)
      PROVE  LogInv'
  <2>1. file_position + EnvelopeLen <= on_disk
    BY <1>5, <1>6, <1>9 DEF Remaining
  <2>2. m < Len(written)
    <3>1. m # Len(written)
      BY <1>5, <1>6, <2>1
    <3> QED BY <1>5, <3>1
  <2>3. /\ m + 1 \in 1 .. Len(written) /\ EndOf(m + 1) = EndOf(m) + RecordLen /\ At[1] = m + 1
        /\ RecordLen \in Nat /\ EnvelopeLen <= RecordLen /\ n \in Nat
    BY <1>5, <1>6, <1>9, <2>2
  <2>4. CASE n < EnvelopeLen
    <3>1. LengthDamaged
      BY <1>6, <1>9, <2>3, <2>4
    <3>2. damaged = EndOf(m) + 1 /\ damaged # 0 /\ damaged <= EndOf(m + 1)
      BY <1>5, <1>6, <2>3, <3>1 DEF LengthDamaged
    <3>3. /\ UNCHANGED <<index, returned>> /\ ending' = "corrupt"
          /\ file_position' = file_position + EnvelopeLen
      BY <1>9, <2>4 DEF ReadRecord
    <3>4. file_position' \in 0 .. on_disk
      BY <1>5, <1>6, <2>1, <3>3
    <3> QED BY <1>7, <3>2, <3>3, <3>4
  <2>5. CASE ~(n < EnvelopeLen) /\ on_disk < file_position + n
    <3>1. /\ UNCHANGED <<index, returned>> /\ ending' = "truncated" /\ file_position' = on_disk
      BY <1>9, <2>5 DEF ReadRecord
    <3>2. on_disk < EndOf(m + 1) \/ (damaged # 0 /\ damaged <= EndOf(m + 1))
      <4>1. CASE LengthDamaged
        BY <1>5, <1>6, <2>3, <4>1 DEF LengthDamaged
      <4>2. CASE ~LengthDamaged
        BY <1>5, <1>9, <2>3, <2>5, <4>2
      <4> QED BY <4>1, <4>2
    <3>3. file_position' \in 0 .. on_disk
      BY <1>5, <3>1
    <3> QED BY <1>7, <3>1, <3>2, <3>3
  <2>6. CASE ~(n < EnvelopeLen) /\ ~(on_disk < file_position + n) /\ ~Verified(n)
    <3>1. /\ UNCHANGED <<index, returned>> /\ ending' = "corrupt" /\ file_position' = file_position + n
      BY <1>9, <2>6 DEF ReadRecord
    <3>2. damaged # 0 /\ damaged <= EndOf(m + 1)
      <4>1. CASE LengthDamaged
        BY <1>5, <1>6, <2>3, <4>1 DEF LengthDamaged
      <4>2. CASE ~LengthDamaged
        <5>1. n = RecordLen
          BY <1>9, <4>2
        <5> QED
          BY <1>5, <1>6, <2>3, <2>6, <5>1 DEF Verified, Holds
      <4> QED BY <4>1, <4>2
    <3>3. file_position' \in 0 .. on_disk
      BY <1>5, <1>6, <2>3, <2>6, <3>1
    <3> QED BY <1>7, <3>1, <3>2, <3>3
  <2>7. CASE ~(n < EnvelopeLen) /\ ~(on_disk < file_position + n) /\ Verified(n)
    <3>1. /\ returned' = Append(returned, m + 1) /\ index' = index + 1 /\ ending' = ending
          /\ file_position' = file_position + n
      BY <1>9, <2>3, <2>7 DEF ReadRecord
    <3>2. n = RecordLen /\ ~(file_position < damaged /\ damaged <= file_position + n)
      BY <2>7 DEF Verified, Holds
    <3>3. file_position' = EndOf(m + 1) /\ EndOf(m + 1) <= on_disk /\ EndOf(m + 1) \in Nat
          /\ (damaged = 0 \/ EndOf(m + 1) < damaged)
      BY <1>5, <1>6, <2>3, <2>7, <3>1, <3>2
    <3>4. /\ returned' \in Seq(Nat) /\ Len(returned') = m + 1
          /\ \A i \in 1 .. m + 1 : returned'[i] = i
      <4>1. returned \in Seq(Nat) /\ \A i \in 1 .. m : returned[i] = i
        BY <1>1, <1>4 DEF ReaderInv
      <4>2. /\ returned' \in Seq(Nat) /\ Len(returned') = m + 1 /\ returned'[m + 1] = m + 1
            /\ \A i \in 1 .. m : returned'[i] = returned[i]
        BY <1>4, <3>1, <4>1
      <4>3. ASSUME NEW i \in 1 .. m + 1 PROVE returned'[i] = i
        <5>1. i = m + 1 \/ i \in 1 .. m
          OBVIOUS
        <5> QED BY <4>1, <4>2, <5>1
      <4> QED BY <4>2, <4>3
    <3>5. index' = m + 1 /\ m + 1 <= Len(written')
      BY <1>1, <1>4, <2>3, <3>1 DEF ReaderInv
    <3>6. EndOf(Len(returned))' = EndOf(m + 1)
      BY <1>3, <3>4
    <3>7. ReaderInv'
      <4>1. on_disk' \in 0 .. Len(Cells') /\ damaged' \in 0 .. on_disk' /\ file_position' \in 0 .. on_disk'
        BY <1>1, <1>3, <1>5, <3>3 DEF ReaderInv
      <4> QED
        BY <1>1, <3>1, <3>3, <3>4, <3>5, <3>6, <4>1 DEF ReaderInv
    <3> QED BY <1>1, <3>7 DEF LogInv
  <2> QED
    BY <2>4, <2>5, <2>6, <2>7
<1> QED
  BY <1>8, <1>9 DEF NextRecord

LEMMA LogInvNext == LogFileLimits /\ LogInv /\ [LogFileNext]_logFileVars => LogInv'
<1> SUFFICES ASSUME LogFileLimits, LogInv, [LogFileNext]_logFileVars PROVE LogInv'
  OBVIOUS
<1>1. CASE UNCHANGED logFileVars
  <2>1. UNCHANGED <<written, on_disk, writing, damaged, file_position, index, returned, ending>>
    BY <1>1 DEF logFileVars
  <2>2. \A k : EncodeRecord(k)' = EncodeRecord(k)
    BY <2>1 DEF EncodeRecord
  <2>3. Cells' = Cells /\ \A k : EndOf(k)' = EndOf(k)
    BY <2>1, <2>2 DEF Cells, EndOf
  <2>4. ReaderInv' = ReaderInv
    BY <2>1, <2>3 DEF ReaderInv
  <2> QED BY <2>1, <2>4 DEF LogInv
<1>2. CASE WriteRecord
  BY <1>2 DEF WriteRecord, LogInv, LogFileLimits
<1>3. CASE StopOrCrash
  BY <1>3, CrashKeepsInv
<1>4. CASE NextRecord
  BY <1>4, ReadKeepsInv
<1> QED
  BY <1>1, <1>2, <1>3, <1>4 DEF LogFileNext, ReaderDone

LEMMA LogInvGives == LogFileLimits /\ LogInv => LogFileCorrect
<1> SUFFICES ASSUME LogFileLimits, LogInv PROVE LogFileCorrect
  OBVIOUS
<1>1. /\ Len(written) \in Nat /\ DOMAIN written = 1 .. Len(written)
      /\ Len(Cells) = EndOf(Len(written)) /\ EndOf(0) = 0
      /\ \A k \in 0 .. Len(written) : EndOf(k) \in Nat
      /\ \A m \in 0 .. Len(written) : \A k \in 0 .. m : EndOf(k) <= EndOf(m)
  BY RecordFacts DEF LogInv
<1>2. CASE writing
  <2>1. /\ on_disk = 0 /\ file_position = 0 /\ index = 0 /\ returned = << >> /\ ending = "none"
    BY <1>2 DEF LogInv
  <2>2. Len(Cells) \in Nat /\ Len(returned) = 0 /\ DOMAIN returned = {}
    BY <1>1, <2>1
  <2> QED
    BY <2>1, <2>2 DEF LogFileCorrect, LogFileTypeOK, WholeRecordsReadBack
<1>3. CASE ~writing
  <2>1. ReaderInv
    BY <1>3 DEF LogInv
  <2>2. PICK m \in Nat : m = Len(returned) /\ DOMAIN returned = 1 .. m /\ m \in 0 .. Len(written)
    BY <1>1, <2>1 DEF ReaderInv
  <2>3. on_disk \in Nat /\ damaged \in Nat /\ EndOf(m) \in Nat
    BY <1>1, <2>1, <2>2 DEF ReaderInv
  <2>4. ASSUME NEW k \in 1 .. m PROVE k \in WholeRecords
    <3>1. k \in 0 .. m /\ k \in 0 .. Len(written) /\ k \in DOMAIN written
      BY <1>1, <2>2
    <3>2. EndOf(k) <= EndOf(m) /\ EndOf(k) \in Nat
      BY <1>1, <2>2, <3>1
    <3>3. EndOf(m) <= on_disk /\ (damaged = 0 \/ EndOf(m) < damaged)
      BY <2>1, <2>2 DEF ReaderInv
    <3> QED BY <2>3, <3>1, <3>2, <3>3 DEF WholeRecords
  <2>5. ASSUME ending # "none", NEW k \in WholeRecords PROVE k \in 1 .. m
    <3>1. k \in 1 .. Len(written) /\ EndOf(k) <= on_disk /\ (damaged = 0 \/ EndOf(k) < damaged)
      BY <1>1 DEF WholeRecords
    <3> SUFFICES ASSUME m < k PROVE FALSE
      BY <2>2, <3>1
    <3>2. m + 1 \in 0 .. k /\ k \in 0 .. Len(written) /\ m + 1 \in 0 .. Len(written) /\ m < Len(written)
      BY <1>1, <2>2, <3>1
    <3>3. EndOf(m + 1) <= EndOf(k) /\ EndOf(m + 1) \in Nat /\ EndOf(k) \in Nat
      BY <1>1, <3>2
    <3>4. on_disk < EndOf(m + 1) \/ (damaged # 0 /\ damaged <= EndOf(m + 1))
      BY <2>1, <2>2, <2>5, <3>2 DEF ReaderInv
    <3> QED BY <2>3, <3>1, <3>3, <3>4
  <2>6. ending # "none" => Cardinality(WholeRecords) = m
    <3> SUFFICES ASSUME ending # "none" PROVE Cardinality(WholeRecords) = m
      OBVIOUS
    <3>1. WholeRecords = 1 .. m
      BY <2>4, <2>5
    <3>2. Cardinality(1 .. m) = m
      BY FS_Interval
    <3> QED BY <3>1, <3>2
  <2>7. LogFileTypeOK
    BY <2>1 DEF ReaderInv, LogFileTypeOK
  <2>8. \A i \in DOMAIN returned : returned[i] = i /\ i \in WholeRecords
    BY <2>1, <2>2, <2>4 DEF ReaderInv
  <2> QED
    BY <2>2, <2>6, <2>7, <2>8 DEF LogFileCorrect, WholeRecordsReadBack
<1> QED
  BY <1>2, <1>3

\* Whatever a crash or the disk left of a log file, the reader returns its whole
\* records, in order, up to the cut or the damage (LogFileReader, tlog_reader.rs).
THEOREM LogFileIsCorrect == LogFileLimits /\ LogFileSpec => []LogFileCorrect
<1> SUFFICES ASSUME LogFileLimits PROVE LogFileSpec => []LogFileCorrect
  OBVIOUS
<1>1. LogFileInit => LogInv
  BY DEF LogFileInit, LogInv
<1>2. LogInv /\ [LogFileNext]_logFileVars => LogInv'
  BY LogInvNext
<1>3. LogInv => LogFileCorrect
  BY LogInvGives
<1> QED
  BY <1>1, <1>2, <1>3, PTL DEF LogFileSpec
=============================================================================
