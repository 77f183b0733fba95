--------------------------- MODULE TickMerge_proofs ---------------------------
(***************************************************************************)
(* What one step of the ingress handler preserves, for every set of brokers  *)
(* and every budget: the types of the engine, and the frame budget; and what *)
(* a submission and the worker do to the channel.  The proofs about the two  *)
(* pipelines use these lemmas.                                               *)
(***************************************************************************)
EXTENDS IngressChannel, Shared_proofs

\* Between two items every queue is within its budget; while force_drain_overflow
\* runs, the queue of the item's broker, and no other, may be one frame over it.
BudgetInv ==
  \A b \in Brokers :
    \/ Len(pending_frames[b]) <= MaxPendingFrames
    \/ /\ phase = "overflow"
       /\ b = current_item.broker_id
       /\ Len(pending_frames[b]) = MaxPendingFrames + 1

EngineInv == EngineTypeOK /\ BudgetInv

-----------------------------------------------------------------------------
LEMMA EngineInitInv == EngineInit => EngineInv
<1> SUFFICES ASSUME EngineInit PROVE EngineInv
  OBVIOUS
<1>1. EngineTypeOK
  BY BrokersAssumption, BoundAssumption DEF EngineInit, EngineTypeOK, Time
<1>2. BudgetInv
  BY BudgetAssumption DEF EngineInit, BudgetInv
<1>3. QED
  BY <1>1, <1>2 DEF EngineInv

\* Taking a broker's oldest frame keeps the types, shortens that queue by one
\* and leaves the others alone.
LEMMA ProcessFrontTypes ==
  ASSUME EngineTypeOK, NEW b \in Brokers, pending_frames[b] # << >>, ProcessFront(b)
  PROVE  /\ pending_frames' \in [Brokers -> Seq(Frame)]
         /\ pending_frame_bytes' \in [Brokers -> Nat]
         /\ fast_quotes' \subseteq Brokers
         /\ latest_quotes' \subseteq Brokers
         /\ Len(pending_frames'[b]) = Len(pending_frames[b]) - 1
         /\ \A i \in 1 .. Len(pending_frames'[b]) :
               pending_frames'[b][i] = pending_frames[b][i + 1]
         /\ \A c \in Brokers \ {b} : pending_frames'[c] = pending_frames[c]
<1> DEFINE q == pending_frames[b]
           f == Head(q)
<1>1. q \in Seq(Frame) /\ q # << >>
  BY DEF EngineTypeOK
<1>2. /\ f \in Frame
      /\ Tail(q) \in Seq(Frame)
      /\ Len(Tail(q)) = Len(q) - 1
      /\ \A i \in 1 .. Len(Tail(q)) : Tail(q)[i] = q[i + 1]
  BY <1>1
<1>3. f.wire_len \in Nat
  BY <1>2, FrameAssumption DEF Frame
<1>4. pending_frames' = [pending_frames EXCEPT ![b] = Tail(q)]
  BY DEF ProcessFront
<1>5. pending_frame_bytes' \in [Brokers -> Nat]
  BY <1>3 DEF ProcessFront, EngineTypeOK
<1>6. fast_quotes' \subseteq Brokers /\ latest_quotes' \subseteq Brokers
  BY DEF ProcessFront, EngineTypeOK
<1> HIDE DEF q, f
<1>7. /\ pending_frames' \in [Brokers -> Seq(Frame)]
      /\ pending_frames'[b] = Tail(q)
      /\ \A c \in Brokers \ {b} : pending_frames'[c] = pending_frames[c]
  BY <1>2, <1>4 DEF EngineTypeOK
<1>8. QED
  BY <1>2, <1>5, <1>6, <1>7 DEF q

LEMMA OnConnectedInv ==
  ASSUME EngineInv, NEW item \in IngressItem, OnConnected(item)
  PROVE  EngineInv'
<1>1. item.broker_id \in Brokers /\ item.generation \in 0 .. MaxGeneration
  BY BoundAssumption DEF OnConnected, IngressItem, ConnectedItem, ProgressItem, FrameItem, EndItem
<1>2. EngineTypeOK'
  BY <1>1 DEF EngineInv, EngineTypeOK, OnConnected, Handle, queues
<1>3. BudgetInv'
  BY <1>1 DEF EngineInv, BudgetInv, OnConnected, Handle, queues
<1>4. QED
  BY <1>2, <1>3 DEF EngineInv

LEMMA OnProgressInv ==
  ASSUME EngineInv, NEW item \in IngressItem, OnProgress(item)
  PROVE  EngineInv'
<1>1. item.broker_id \in Brokers /\ item.watermark_ns \in Time
  BY DEF OnProgress, IngressItem, ConnectedItem, ProgressItem, FrameItem, EndItem
<1>2. EngineTypeOK'
  BY <1>1 DEF EngineInv, EngineTypeOK, OnProgress, Handle, AdvanceWatermark, queues, quotes
<1>3. BudgetInv'
  BY <1>1 DEF EngineInv, BudgetInv, OnProgress, Handle, queues
<1>4. QED
  BY <1>2, <1>3 DEF EngineInv

LEMMA OnFrameInv ==
  ASSUME EngineInv, NEW item \in IngressItem, OnFrame(item)
  PROVE  EngineInv'
<1> DEFINE b == item.broker_id
           f == item.frame
<1>1. b \in Brokers /\ f \in Frame
  BY DEF OnFrame, IngressItem, ConnectedItem, ProgressItem, FrameItem, EndItem
<1>2. f.wire_len \in Nat /\ f.rx_mono_ns \in Time
  BY <1>1, FrameAssumption DEF Frame
<1>3. /\ pending_frames' = [pending_frames EXCEPT ![b] = Append(@, f)]
      /\ phase' = "overflow" /\ current_item'.broker_id = b
  BY DEF OnFrame, Handle
<1>4. pending_frames \in [Brokers -> Seq(Frame)] /\ phase = "idle"
  BY DEF EngineInv, EngineTypeOK, OnFrame, Handle
<1>5. /\ pending_frames' \in [Brokers -> Seq(Frame)]
      /\ Len(pending_frames'[b]) = Len(pending_frames[b]) + 1
      /\ \A c \in Brokers \ {b} : pending_frames'[c] = pending_frames[c]
  BY <1>1, <1>3, <1>4
<1>6. EngineTypeOK'
  BY SMTT(30), <1>1, <1>2, <1>5 DEF EngineInv, EngineTypeOK, OnFrame, Handle, AdvanceWatermark
<1>7. \A c \in Brokers : Len(pending_frames[c]) <= MaxPendingFrames /\ Len(pending_frames[c]) \in Nat
  BY <1>4 DEF EngineInv, BudgetInv
<1>8. BudgetInv'
  BY <1>1, <1>3, <1>5, <1>7, BudgetAssumption DEF BudgetInv
<1>9. QED
  BY <1>6, <1>8 DEF EngineInv

LEMMA OnEndInv ==
  ASSUME EngineInv, NEW item \in IngressItem, OnEnd(item)
  PROVE  EngineInv'
<1>1. item.broker_id \in Brokers
  BY DEF IngressItem, ConnectedItem, ProgressItem, FrameItem, EndItem
<1>2. /\ is_connected' \in [Brokers -> BOOLEAN]
      /\ current_item' \in [broker_id : Brokers, is_disconnected : BOOLEAN]
      /\ phase' = "overflow" /\ phase = "idle"
      /\ UNCHANGED <<generation, watermark, pending_frames, pending_frame_bytes,
                     current_watermark, overload, last_merged>>
  BY <1>1, Zenon DEF EngineInv, EngineTypeOK, OnEnd, Handle, queues
<1>3. fast_quotes' \in SUBSET Brokers /\ latest_quotes' \in SUBSET Brokers
  BY DEF EngineInv, EngineTypeOK, OnEnd
<1>4. EngineTypeOK'
  BY <1>2, <1>3 DEF EngineInv, EngineTypeOK
<1>5. BudgetInv'
  BY <1>2 DEF EngineInv, BudgetInv
<1>6. QED
  BY <1>4, <1>5 DEF EngineInv

\* Handling an item keeps the engine's invariant.
LEMMA OnIngressItemInv ==
  ASSUME EngineInv, NEW item \in IngressItem, OnIngressItem(item)
  PROVE  EngineInv'
  BY OnConnectedInv, OnProgressInv, OnFrameInv, OnEndInv DEF OnIngressItem

LEMMA ForceDrainInv ==
  ASSUME EngineInv, ForceDrain
  PROVE  EngineInv'
<1> DEFINE b == current_item.broker_id
<1>1. /\ b \in Brokers /\ pending_frames[b] # << >> /\ phase' = "overflow"
      /\ ProcessFront(b) /\ phase = "overflow"
      /\ UNCHANGED <<channels, current_watermark, current_item, last_merged>>
      /\ overload' \in SUBSET Brokers
  BY DEF ForceDrain, EngineInv, EngineTypeOK
<1>2. EngineTypeOK
  BY DEF EngineInv
<1>3. /\ pending_frames' \in [Brokers -> Seq(Frame)]
      /\ pending_frame_bytes' \in [Brokers -> Nat]
      /\ fast_quotes' \subseteq Brokers
      /\ latest_quotes' \subseteq Brokers
      /\ Len(pending_frames'[b]) = Len(pending_frames[b]) - 1
      /\ \A c \in Brokers \ {b} : pending_frames'[c] = pending_frames[c]
  BY <1>1, <1>2, ProcessFrontTypes
<1>4. EngineTypeOK'
  BY <1>1, <1>2, <1>3 DEF EngineTypeOK, channels
<1>5. \A c \in Brokers : Len(pending_frames[c]) \in Nat
  BY <1>2 DEF EngineTypeOK
<1>6. BudgetInv'
  BY <1>1, <1>3, <1>5, BudgetAssumption DEF EngineInv, BudgetInv
<1>7. QED
  BY <1>4, <1>6 DEF EngineInv

LEMMA StartMergeInv ==
  ASSUME EngineInv, StartMerge
  PROVE  EngineInv'
<1>1. EngineTypeOK'
  BY DEF EngineInv, EngineTypeOK, StartMerge, channels, queues, quotes
<1>2. \A c \in Brokers : Len(pending_frames[c]) \in Nat
  BY DEF EngineInv, EngineTypeOK
<1>3. BudgetInv'
  BY <1>2, BudgetAssumption DEF EngineInv, BudgetInv, StartMerge, OverBudget, queues
<1>4. QED
  BY <1>1, <1>3 DEF EngineInv

LEMMA MergeFrontInv ==
  ASSUME EngineInv, NEW b \in Brokers, MergeFront(b)
  PROVE  EngineInv'
<1>1. /\ pending_frames[b] # << >> /\ ProcessFront(b) /\ phase = "merge" /\ phase' = "merge"
      /\ UNCHANGED <<channels, current_watermark, overload, current_item>>
      /\ last_merged' \in {last_merged, Head(pending_frames[b]).rx_mono_ns}
  BY DEF MergeFront, Mergeable
<1>2. EngineTypeOK
  BY DEF EngineInv
<1>3. /\ pending_frames' \in [Brokers -> Seq(Frame)]
      /\ pending_frame_bytes' \in [Brokers -> Nat]
      /\ fast_quotes' \subseteq Brokers
      /\ latest_quotes' \subseteq Brokers
      /\ Len(pending_frames'[b]) = Len(pending_frames[b]) - 1
      /\ \A c \in Brokers \ {b} : pending_frames'[c] = pending_frames[c]
  BY <1>1, <1>2, ProcessFrontTypes
<1>4. Head(pending_frames[b]) \in Frame
  BY <1>1, <1>2 DEF EngineTypeOK
<1>5. last_merged' \in Time
  BY <1>1, <1>2, <1>4 DEF EngineTypeOK, Frame
<1>6. EngineTypeOK'
  BY <1>1, <1>2, <1>3, <1>5 DEF EngineTypeOK, channels
<1>7. \A c \in Brokers : Len(pending_frames[c]) \in Nat
  BY <1>2 DEF EngineTypeOK
<1>8. BudgetInv'
  BY SMTT(30), <1>1, <1>3, <1>7, BudgetAssumption DEF EngineInv, BudgetInv
<1>9. QED
  BY <1>6, <1>8 DEF EngineInv

LEMMA FinishItemInv ==
  ASSUME EngineInv, FinishItem
  PROVE  EngineInv'
<1>1. fast_quotes' \in SUBSET Brokers /\ latest_quotes' \in SUBSET Brokers
  BY DEF EngineInv, EngineTypeOK, FinishItem
<1>2. EngineTypeOK'
  BY <1>1 DEF EngineInv, EngineTypeOK, FinishItem, channels, queues
<1>3. BudgetInv'
  BY DEF EngineInv, BudgetInv, FinishItem, queues
<1>4. QED
  BY <1>2, <1>3 DEF EngineInv

\* Every iteration of the handler's loops keeps the engine's invariant.
LEMMA DrainStepInv ==
  ASSUME EngineInv, DrainStep
  PROVE  EngineInv'
  BY ForceDrainInv, StartMergeInv, MergeFrontInv, FinishItemInv DEF DrainStep

\* A step that leaves the engine alone does, too.
LEMMA EngineUnchangedInv ==
  ASSUME EngineInv, UNCHANGED engine
  PROVE  EngineInv'
  BY DEF EngineInv, EngineTypeOK, BudgetInv, engine, channels, queues, quotes

LEMMA BudgetSuffices == EngineInv => FramesWithinBudget
  BY BudgetAssumption DEF EngineInv, EngineTypeOK, BudgetInv, FramesWithinBudget

-----------------------------------------------------------------------------
(* The byte counters.                                                         *)

\* Every counter is the size of its queue; while force_drain_overflow runs, the
\* counter of the item's broker, and no other, may be over the budget.
ByteInv ==
  \A b \in Brokers :
    /\ pending_frame_bytes[b] = TotalOf(FrameSizes(pending_frames[b]))
    /\ \/ pending_frame_bytes[b] <= MaxPendingBytes
       \/ phase = "overflow" /\ b = current_item.broker_id

LEMMA FrameSizesType ==
  ASSUME NEW q \in Seq(Frame)
  PROVE  /\ FrameSizes(q) \in Seq(Nat) /\ Len(FrameSizes(q)) = Len(q)
         /\ \A i \in 1 .. Len(q) : FrameSizes(q)[i] = q[i].wire_len
<1>1. DOMAIN q = 1 .. Len(q) /\ Len(q) \in Nat
  OBVIOUS
<1>2. ASSUME NEW i \in 1 .. Len(q)
      PROVE  q[i].wire_len \in Nat
  <2>1. q[i] \in Frame
    OBVIOUS
  <2>. QED BY <2>1, FrameAssumption DEF Frame
<1>3. FrameSizes(q) = [i \in 1 .. Len(q) |-> q[i].wire_len]
  BY <1>1 DEF FrameSizes
<1> DEFINE sizes == FrameSizes(q)
<1>4. sizes \in [1 .. Len(q) -> Nat]
  BY <1>2, <1>3
<1>5. \A i \in 1 .. Len(q) : sizes[i] = q[i].wire_len
  BY <1>3
<1> HIDE DEF sizes
<1>6. sizes \in Seq(Nat) /\ Len(sizes) = Len(q)
  BY <1>1, <1>4
<1>. QED BY <1>5, <1>6 DEF sizes

\* The size of a queue that a frame joins.
LEMMA FrameQueued ==
  ASSUME NEW q \in Seq(Frame), NEW f \in Frame
  PROVE  TotalOf(FrameSizes(Append(q, f))) = TotalOf(FrameSizes(q)) + f.wire_len
<1> DEFINE longer == Append(q, f)
           sizes == FrameSizes(q)
           more == FrameSizes(longer)
<1>1. /\ longer \in Seq(Frame) /\ Len(longer) = Len(q) + 1 /\ Len(q) \in Nat
      /\ longer[Len(q) + 1] = f
      /\ \A i \in 1 .. Len(q) : longer[i] = q[i]
  OBVIOUS
<1> HIDE DEF longer
<1>2. /\ sizes \in Seq(Nat) /\ Len(sizes) = Len(q)
      /\ \A i \in 1 .. Len(q) : sizes[i] = q[i].wire_len
  BY FrameSizesType
<1>3. /\ more \in Seq(Nat) /\ Len(more) = Len(q) + 1
      /\ \A i \in 1 .. Len(q) + 1 : more[i] = longer[i].wire_len
  BY <1>1, FrameSizesType
<1> HIDE DEF sizes, more
<1>4. \A i \in 1 .. Len(sizes) : more[i] = sizes[i]
  BY <1>1, <1>2, <1>3, SMTT(30)
<1>5. TotalOf(more) = TotalOf(sizes) + more[Len(sizes) + 1]
  BY <1>2, <1>3, <1>4, TotalGrows
<1>6. more[Len(sizes) + 1] = f.wire_len
  BY <1>1, <1>2, <1>3
<1>. QED BY <1>5, <1>6 DEF more, sizes, longer

\* The size of a queue whose oldest frame leaves.
LEMMA FrameReleased ==
  ASSUME NEW q \in Seq(Frame), q # << >>
  PROVE  /\ TotalOf(FrameSizes(q)) = Head(q).wire_len + TotalOf(FrameSizes(Tail(q)))
         /\ TotalOf(FrameSizes(Tail(q))) \in Nat
         /\ Head(q).wire_len \in Nat
<1> DEFINE rest == Tail(q)
           sizes == FrameSizes(q)
           fewer == FrameSizes(rest)
<1>1. /\ rest \in Seq(Frame) /\ Head(q) \in Frame /\ Head(q) = q[1]
      /\ Len(rest) = Len(q) - 1 /\ Len(q) \in Nat \ {0}
      /\ \A i \in 1 .. Len(q) - 1 : rest[i] = q[i + 1]
  OBVIOUS
<1>2. Head(q).wire_len \in Nat
  BY <1>1, FrameAssumption DEF Frame
<1> HIDE DEF rest
<1>3. /\ sizes \in Seq(Nat) /\ Len(sizes) = Len(q)
      /\ \A i \in 1 .. Len(q) : sizes[i] = q[i].wire_len
  BY FrameSizesType
<1>4. /\ fewer \in Seq(Nat) /\ Len(fewer) = Len(q) - 1
      /\ \A i \in 1 .. Len(q) - 1 : fewer[i] = rest[i].wire_len
  BY <1>1, FrameSizesType
<1> HIDE DEF sizes, fewer
<1>5. \A i \in 1 .. Len(q) - 1 : i + 1 \in 1 .. Len(q)
  BY <1>1
<1>6. \A i \in 1 .. Len(q) - 1 : fewer[i] = sizes[i + 1]
  <2> SUFFICES ASSUME NEW i \in 1 .. Len(q) - 1 PROVE fewer[i] = sizes[i + 1]
    OBVIOUS
  <2>1. fewer[i] = rest[i].wire_len /\ rest[i] = q[i + 1]
    BY <1>1, <1>4
  <2>2. sizes[i + 1] = q[i + 1].wire_len
    BY <1>3, <1>5
  <2>. QED BY <2>1, <2>2
<1>7. TotalOf(sizes) = sizes[1] + TotalOf(fewer) /\ TotalOf(fewer) \in Nat
  BY <1>1, <1>3, <1>4, <1>6, TotalShrinks, TotalType
<1>8. sizes[1] = Head(q).wire_len
  BY <1>1, <1>3
<1>. QED BY <1>2, <1>7, <1>8 DEF sizes, fewer, rest

LEMMA ByteInvInit == EngineInit => ByteInv
<1> SUFFICES ASSUME EngineInit, NEW b \in Brokers
    PROVE  /\ pending_frame_bytes[b] = TotalOf(FrameSizes(pending_frames[b]))
           /\ pending_frame_bytes[b] <= MaxPendingBytes
  BY DEF ByteInv
<1>1. pending_frame_bytes[b] = 0 /\ pending_frames[b] = << >>
  BY DEF EngineInit
<1>2. FrameSizes(<< >>) = << >>
  BY DEF FrameSizes
<1>. QED BY <1>1, <1>2, TotalEmpty, BudgetAssumption

\* Processing a broker's oldest frame keeps its counter and lowers it.
LEMMA ProcessFrontBytes ==
  ASSUME EngineTypeOK, ByteInv, NEW b \in Brokers, pending_frames[b] # << >>, ProcessFront(b)
  PROVE  /\ pending_frame_bytes'[b] = TotalOf(FrameSizes(pending_frames'[b]))
         /\ pending_frame_bytes'[b] <= pending_frame_bytes[b]
         /\ pending_frame_bytes[b] \in Nat /\ pending_frame_bytes'[b] \in Nat
         /\ \A c \in Brokers \ {b} :
               /\ pending_frame_bytes'[c] = pending_frame_bytes[c]
               /\ pending_frames'[c] = pending_frames[c]
<1> DEFINE q == pending_frames[b]
<1>1. q \in Seq(Frame) /\ q # << >>
  BY DEF EngineTypeOK
<1>2. /\ pending_frames'[b] = Tail(q)
      /\ pending_frame_bytes'[b] = IF pending_frame_bytes[b] > Head(q).wire_len
                                   THEN pending_frame_bytes[b] - Head(q).wire_len ELSE 0
      /\ \A c \in Brokers \ {b} :
               /\ pending_frame_bytes'[c] = pending_frame_bytes[c]
               /\ pending_frames'[c] = pending_frames[c]
  BY DEF ProcessFront, EngineTypeOK
<1>3. pending_frame_bytes[b] = TotalOf(FrameSizes(q))
  BY DEF ByteInv
<1> HIDE DEF q
<1>4. /\ TotalOf(FrameSizes(q)) = Head(q).wire_len + TotalOf(FrameSizes(Tail(q)))
      /\ TotalOf(FrameSizes(Tail(q))) \in Nat
      /\ Head(q).wire_len \in Nat
  BY <1>1, FrameReleased
<1>. QED BY <1>2, <1>3, <1>4

\* Handling an item keeps the counters: only a frame changes one, its own broker's.
LEMMA OnIngressItemBytes ==
  ASSUME EngineTypeOK, ByteInv, NEW item \in IngressItem, OnIngressItem(item)
  PROVE  ByteInv'
<1>1. CASE OnFrame(item)
  <2> DEFINE b == item.broker_id
             f == item.frame
  <2>1. b \in Brokers /\ f \in Frame
    BY <1>1 DEF OnFrame, IngressItem, ConnectedItem, ProgressItem, FrameItem, EndItem
  <2>2. /\ pending_frames'[b] = Append(pending_frames[b], f)
        /\ pending_frame_bytes'[b] = pending_frame_bytes[b] + f.wire_len
        /\ phase = "idle" /\ phase' = "overflow" /\ current_item'.broker_id = b
        /\ \A c \in Brokers \ {b} :
              /\ pending_frame_bytes'[c] = pending_frame_bytes[c]
              /\ pending_frames'[c] = pending_frames[c]
    BY <1>1, <2>1 DEF OnFrame, Handle, EngineTypeOK
  <2>3. pending_frame_bytes'[b] = TotalOf(FrameSizes(pending_frames'[b]))
    <3>1. pending_frames[b] \in Seq(Frame)
      BY <2>1 DEF EngineTypeOK
    <3>2. TotalOf(FrameSizes(pending_frames'[b])) = TotalOf(FrameSizes(pending_frames[b])) + f.wire_len
      BY <2>1, <2>2, <3>1, FrameQueued
    <3>. QED BY <2>1, <2>2, <3>2 DEF ByteInv
  <2> HIDE DEF b, f
  <2>. QED BY <2>1, <2>2, <2>3 DEF ByteInv
<1>2. CASE OnConnected(item) \/ OnProgress(item) \/ OnEnd(item)
  <2>1. phase = "idle" /\ UNCHANGED <<pending_frames, pending_frame_bytes>>
    BY <1>2 DEF OnConnected, OnProgress, OnEnd, Handle, queues
  <2>. QED BY <2>1 DEF ByteInv
<1>. QED BY <1>1, <1>2 DEF OnIngressItem

\* So does every iteration of the handler's loops; the overflow loop ends with the
\* counter within the budget, or with an empty queue, whose size is zero.
LEMMA DrainStepBytes ==
  ASSUME EngineTypeOK, ByteInv, DrainStep
  PROVE  ByteInv'
<1>1. CASE ForceDrain
  <2> DEFINE b == current_item.broker_id
  <2>1. /\ b \in Brokers /\ pending_frames[b] # << >> /\ ProcessFront(b)
        /\ phase = "overflow" /\ phase' = phase /\ current_item' = current_item
    BY <1>1 DEF ForceDrain, EngineTypeOK
  <2> HIDE DEF b
  <2>. QED BY <2>1, ProcessFrontBytes DEF ByteInv, b
<1>2. CASE StartMerge
  <2> DEFINE b == current_item.broker_id
  <2>1. /\ b \in Brokers /\ phase = "overflow"
        /\ UNCHANGED <<pending_frames, pending_frame_bytes>>
        /\ ~OverBudget(b) \/ pending_frames[b] = << >>
    BY <1>2 DEF StartMerge, EngineTypeOK, queues
  <2>2. pending_frame_bytes[b] \in Nat
    BY <2>1 DEF EngineTypeOK
  <2>3. CASE pending_frames[b] = << >>
    <3>1. FrameSizes(<< >>) = << >>
      BY DEF FrameSizes
    <3>2. pending_frame_bytes[b] = 0
      BY <2>1, <2>3, <3>1, TotalEmpty DEF ByteInv
    <3>. QED BY <2>1, <3>2, BudgetAssumption DEF ByteInv
  <2>4. CASE ~OverBudget(b)
    BY <2>1, <2>2, <2>4, BudgetAssumption DEF ByteInv, OverBudget
  <2>. QED BY <2>1, <2>3, <2>4
<1>3. ASSUME NEW b \in Brokers, MergeFront(b)
      PROVE  ByteInv'
  <2>1. /\ pending_frames[b] # << >> /\ ProcessFront(b) /\ phase = "merge" /\ phase' = phase
    BY <1>3 DEF MergeFront, Mergeable
  <2>. QED BY <2>1, ProcessFrontBytes, BudgetAssumption DEF ByteInv
<1>4. CASE FinishItem
  <2>1. phase = "merge" /\ UNCHANGED <<pending_frames, pending_frame_bytes>>
    BY <1>4 DEF FinishItem, queues
  <2>. QED BY <2>1 DEF ByteInv
<1>. QED BY <1>1, <1>2, <1>3, <1>4 DEF DrainStep

LEMMA EngineUnchangedBytes ==
  ASSUME ByteInv, UNCHANGED engine
  PROVE  ByteInv'
  BY DEF ByteInv, engine, queues

LEMMA BytesSuffice == ByteInv => BytesWithinBudget
  BY DEF ByteInv, BytesWithinBudget

-----------------------------------------------------------------------------
LEMMA CapacityType == IngressCapacity \in Nat
<1>1. Cardinality(Brokers) \in Nat
  BY BrokersAssumption, FS_CardinalityType
<1>2. QED
  BY <1>1, BudgetAssumption DEF IngressCapacity

\* What an accepted submission does to the channel.
LEMMA SubmitChannel ==
  ASSUME ChannelTypeOK, NEW item \in IngressItem, Submit(item)
  PROVE  /\ ingress' \in Seq(IngressItem)
         /\ Len(ingress') = Len(ingress) + 1
         /\ Len(ingress) \in Nat
         /\ Len(ingress') <= IngressCapacity
         /\ ingress'[Len(ingress) + 1] = item
         /\ \A i \in 1 .. Len(ingress) : ingress'[i] = ingress[i]
  BY CapacityType DEF ChannelTypeOK, Submit

\* What the worker's receive does to it.
LEMMA TakeChannel ==
  ASSUME ChannelTypeOK, TakeItem
  PROVE  /\ Head(ingress) \in IngressItem
         /\ Head(ingress) = ingress[1]
         /\ ingress' \in Seq(IngressItem)
         /\ Len(ingress') = Len(ingress) - 1
         /\ Len(ingress) \in Nat \ {0}
         /\ Len(ingress') <= IngressCapacity
         /\ \A i \in 1 .. Len(ingress') : ingress'[i] = ingress[i + 1]
         /\ UNCHANGED now
<1>1. /\ ingress # << >> /\ ingress' = Tail(ingress) /\ UNCHANGED now
      /\ ingress \in Seq(IngressItem) /\ Len(ingress) <= IngressCapacity
  BY DEF TakeItem, ChannelTypeOK
<1>2. QED
  BY <1>1, CapacityType

-----------------------------------------------------------------------------
\* A step of either pipeline moves the engine by one item or one iteration of the
\* handler's loops, or leaves it alone: the counters stay right.
LEMMA PipelineBytes ==
  ASSUME ChannelTypeOK, ByteInv, UNCHANGED engine \/ TakeItem \/ Drain
  PROVE  ByteInv'
<1>0. EngineTypeOK
  BY DEF ChannelTypeOK
<1>1. CASE UNCHANGED engine
  BY <1>1, EngineUnchangedBytes
<1>2. CASE TakeItem
  <2>1. Head(ingress) \in IngressItem /\ OnIngressItem(Head(ingress))
    BY <1>2, TakeChannel DEF TakeItem
  <2>. QED BY <1>0, <2>1, OnIngressItemBytes
<1>3. CASE Drain
  BY <1>0, <1>3, DrainStepBytes DEF Drain
<1>. QED BY <1>1, <1>2, <1>3
=============================================================================
