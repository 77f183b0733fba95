-------------------------- MODULE DirectIngest_proofs --------------------------
(***************************************************************************)
(* Proofs about DirectIngest, for every set of brokers, every budget and     *)
(* every bound: types and the frame budget first, then what the engine knows *)
(* of the connections, then the receive order.                               *)
(***************************************************************************)
EXTENDS DirectIngest, TickMerge_proofs

Attached == {"connected", "read", "frames", "read_progress", "end"}

\* What a thread holds at each point of its program: a connection has a
\* generation, a read has frames left and a clock sample.
ThreadInv ==
  \A b \in Brokers :
    /\ pc[b] \in Attached => accepted[b] >= 1
    /\ pc[b] = "frames" => decoded[b] >= 1 /\ sample[b] >= 1
    /\ pc[b] \in {"listen_progress", "read_progress"} => sample[b] >= 1

TypeInv == TypeOK /\ BudgetInv /\ ThreadInv

-----------------------------------------------------------------------------
\* The items a receiver submits are well-formed.
LEMMA SubmittedItem ==
  ASSUME TypeInv, NEW b \in Brokers
  PROVE  /\ pc[b] \in Attached =>
              /\ [type |-> "Connected", broker_id |-> b, generation |-> accepted[b]] \in IngressItem
              /\ [type |-> "End", broker_id |-> b, generation |-> accepted[b]] \in IngressItem
         /\ [type |-> "Progress", broker_id |-> b, watermark_ns |-> sample[b]] \in IngressItem
         /\ pc[b] = "frames" =>
              \A len \in WireLens, w \in WarmupFlags, p \in Payloads :
                [ type |-> "Frame", broker_id |-> b,
                  frame |-> [ broker_id |-> b, rx_mono_ns |-> sample[b],
                              wire_len |-> len, warmup |-> w, payload |-> p ] ] \in IngressItem
<1>1. accepted[b] \in 0 .. MaxGeneration /\ sample[b] \in Time
  BY DEF TypeInv, TypeOK
<1>2. pc[b] \in Attached => accepted[b] \in 1 .. MaxGeneration
  BY <1>1, BoundAssumption DEF TypeInv, ThreadInv
<1>3. pc[b] = "frames" => sample[b] \in Time \ {0}
  BY <1>1 DEF TypeInv, ThreadInv
<1>4. QED
  BY <1>1, <1>2, <1>3 DEF IngressItem, ConnectedItem, ProgressItem, EndItem, FrameItem, Frame

-----------------------------------------------------------------------------
LEMMA TypeInvInit == Init => TypeInv
<1> SUFFICES ASSUME Init PROVE TypeInv
  OBVIOUS
<1>1. EngineInv
  BY EngineInitInv DEF Init, ChannelInit
<1>2. ChannelTypeOK
  BY <1>1, CapacityType, BoundAssumption DEF Init, ChannelInit, ChannelTypeOK, EngineInv, Time
<1>3. TypeOK
  BY <1>2, BoundAssumption, ReadAssumption DEF Init, TypeOK, PC, Time
<1>4. ThreadInv
  BY DEF Init, ThreadInv, Attached
<1>5. QED
  BY <1>1, <1>3, <1>4 DEF TypeInv, EngineInv

\* A receiver's step leaves the engine alone and appends at most one
\* well-formed item to the channel.
LEMMA TypeInvReceiver ==
  ASSUME TypeInv, NEW b \in Brokers, Receiver(b)
  PROVE  TypeInv'
<1>1. now' = now /\ UNCHANGED engine /\ EngineInv
  BY DEF Receiver, Accept, SubmitConnected, Read, SubmitFrame, IdleSample,
         SubmitProgress, CloseConnection, SubmitEnd, TypeInv, TypeOK, ChannelTypeOK, EngineInv
<1>2. EngineTypeOK' /\ BudgetInv'
  BY <1>1, EngineUnchangedInv DEF EngineInv
<1>3. ingress' \in Seq(IngressItem) /\ Len(ingress') <= IngressCapacity
  <2>1. ingress' = ingress \/ \E item \in IngressItem : Submit(item)
    <3>1. CASE Accept(b) \/ Read(b) \/ IdleSample(b) \/ CloseConnection(b)
      BY <3>1 DEF Accept, Read, IdleSample, CloseConnection
    <3>2. CASE SubmitConnected(b)
      BY <3>2, SubmittedItem DEF SubmitConnected, Goto, Attached
    <3>3. CASE SubmitFrame(b)
      BY <3>3, SubmittedItem DEF SubmitFrame, SubmitSomeFrame, Goto
    <3>4. CASE SubmitProgress(b)
      BY <3>4, SubmittedItem DEF SubmitProgress
    <3>5. CASE SubmitEnd(b)
      BY <3>5, SubmittedItem DEF SubmitEnd, Goto, Attached
    <3>6. QED
      BY <3>1, <3>2, <3>3, <3>4, <3>5 DEF Receiver
  <2>2. QED
    BY <2>1, SubmitChannel DEF TypeInv, TypeOK, ChannelTypeOK
<1>4. ChannelTypeOK'
  BY <1>1, <1>2, <1>3 DEF TypeInv, TypeOK, ChannelTypeOK
<1> DEFINE Threads ==
      /\ pc \in [Brokers -> PC]
      /\ accepted \in [Brokers -> 0 .. MaxGeneration]
      /\ sample \in [Brokers -> Time]
      /\ decoded \in [Brokers -> 0 .. MaxFramesPerRead]
      /\ reads \in [Brokers -> 0 .. MaxReads]
<1>5. Threads /\ ThreadInv /\ now \in Time \ {0} /\ Time \subseteq Nat
  BY BoundAssumption DEF TypeInv, TypeOK, ChannelTypeOK, Time
<1>6. Threads' /\ ThreadInv'
  <2>1. CASE Accept(b)
    BY <1>5, <2>1, BoundAssumption, ReadAssumption DEF Accept, Goto, ThreadInv, Attached, PC
  <2>2. CASE SubmitConnected(b)
    BY <1>5, <2>2 DEF SubmitConnected, Goto, ThreadInv, Attached, PC
  <2>3. CASE Read(b)
    BY <1>5, <2>3, ReadAssumption DEF Read, Goto, ThreadInv, Attached, PC
  <2>4. CASE SubmitFrame(b)
    <3>1. decoded[b] \in 1 .. MaxFramesPerRead /\ pc[b] = "frames" /\ 0 \in Time
      BY <1>5, <2>4, ReadAssumption, BoundAssumption DEF SubmitFrame, Goto, ThreadInv, Time
    <3>2. QED
      BY <1>5, <2>4, <3>1, ReadAssumption DEF SubmitFrame, Goto, ThreadInv, Attached, PC
  <2>5. CASE IdleSample(b)
    BY <1>5, <2>5 DEF IdleSample, Goto, ThreadInv, Attached, PC
  <2>6. CASE SubmitProgress(b)
    BY <1>5, <2>6, BoundAssumption DEF SubmitProgress, Goto, ThreadInv, Attached, PC, Time
  <2>7. CASE CloseConnection(b)
    BY <1>5, <2>7, BoundAssumption, ReadAssumption
       DEF CloseConnection, Goto, ThreadInv, Attached, PC, Time
  <2>8. CASE SubmitEnd(b)
    BY <1>5, <2>8 DEF SubmitEnd, Goto, ThreadInv, Attached, PC
  <2>9. QED
    BY <2>1, <2>2, <2>3, <2>4, <2>5, <2>6, <2>7, <2>8 DEF Receiver
<1>7. QED
  BY <1>2, <1>4, <1>6 DEF TypeInv, TypeOK

LEMMA TypeInvNext == TypeInv /\ [Next]_vars => TypeInv'
<1> SUFFICES ASSUME TypeInv, [Next]_vars PROVE TypeInv'
  OBVIOUS
<1>0. EngineInv
  BY DEF TypeInv, TypeOK, ChannelTypeOK, EngineInv
<1>1. CASE Tick
  <2>1. now' \in Time \ {0} /\ UNCHANGED <<ingress, receivers>> /\ EngineInv'
    BY <1>0, <1>1, EngineUnchangedInv, BoundAssumption
       DEF Tick, AdvanceClock, TypeInv, TypeOK, ChannelTypeOK, Time
  <2>2. QED
    BY <2>1 DEF TypeInv, TypeOK, ChannelTypeOK, ThreadInv, EngineInv, receivers
<1>2. CASE \E b \in Brokers : Receiver(b)
  BY <1>2, TypeInvReceiver
<1>3. CASE TakeItem /\ UNCHANGED receivers
  <2>1. EngineInv'
    BY <1>0, <1>3, TakeChannel, OnIngressItemInv DEF TakeItem, TypeInv, TypeOK
  <2>2. ingress' \in Seq(IngressItem) /\ Len(ingress') <= IngressCapacity /\ now' = now
    BY <1>3, TakeChannel DEF TypeInv, TypeOK
  <2>3. QED
    BY <1>3, <2>1, <2>2 DEF TypeInv, TypeOK, ChannelTypeOK, ThreadInv, EngineInv, receivers
<1>4. CASE Drain /\ UNCHANGED receivers
  <2>1. EngineInv' /\ UNCHANGED <<now, ingress>>
    BY <1>0, <1>4, DrainStepInv DEF Drain
  <2>2. QED
    BY <1>4, <2>1 DEF TypeInv, TypeOK, ChannelTypeOK, ThreadInv, EngineInv, receivers
<1>5. CASE UNCHANGED vars
  <2>1. EngineInv' /\ UNCHANGED <<now, ingress, receivers>>
    BY <1>0, <1>5, EngineUnchangedInv DEF vars
  <2>2. QED
    BY <2>1 DEF TypeInv, TypeOK, ChannelTypeOK, ThreadInv, EngineInv, receivers
<1>6. QED
  BY <1>1, <1>2, <1>3, <1>4, <1>5 DEF Next, Worker

LEMMA TypeInvariant == Spec => []TypeInv
<1>1. Init => TypeInv
  BY TypeInvInit
<1>2. TypeInv /\ [Next]_vars => TypeInv'
  BY TypeInvNext
<1>3. QED
  BY <1>1, <1>2, PTL DEF Spec

\* Every variable of the pipeline keeps its type: the handler never leaves a
\* channel, a queue or a quote table in a state the code has no meaning for, and
\* every item the receivers submit is one the handler understands.
THEOREM TypeCorrect == Spec => []TypeOK
<1>1. TypeInv => TypeOK
  BY DEF TypeInv
<1>2. QED
  BY <1>1, TypeInvariant, PTL

\* No broker holds more frames than its budget whenever the engine lock is free,
\* although force_drain_overflow looks at one broker per item only.
THEOREM BudgetKept == Spec => []FramesWithinBudget
<1>1. TypeInv => FramesWithinBudget
  BY BudgetSuffices DEF TypeInv, TypeOK, ChannelTypeOK, EngineInv
<1>2. QED
  BY <1>1, TypeInvariant, PTL

\* The byte counter of every broker is the size of the frames its queue holds -
\* through the warm-up, the overflow drain and the merge, each of which lowers it
\* by itself - and is within the budget whenever the engine lock is free.
THEOREM BytesKept == Spec => []BytesWithinBudget
<1>1. Init => ByteInv
  BY ByteInvInit DEF Init, ChannelInit
<1>2. TypeInv /\ ByteInv /\ [Next]_vars => ByteInv'
  <2> SUFFICES ASSUME TypeInv, ByteInv, [Next]_vars PROVE ByteInv'
    OBVIOUS
  <2>1. ASSUME NEW b \in Brokers, Receiver(b) PROVE UNCHANGED engine
    BY <2>1 DEF Receiver, Accept, SubmitConnected, Read, SubmitFrame, IdleSample,
         SubmitProgress, CloseConnection, SubmitEnd
  <2>2. UNCHANGED engine \/ TakeItem \/ Drain
    BY <2>1 DEF Next, Worker, Tick, AdvanceClock, vars
  <2>. QED BY <2>2, PipelineBytes DEF TypeInv, TypeOK
<1>3. ByteInv => BytesWithinBudget
  BY BytesSuffice
<1>. QED BY <1>1, <1>2, <1>3, TypeInvariant, PTL DEF Spec

-----------------------------------------------------------------------------
(* What the engine will believe when the channel is drained.                 *)

\* The receiver has announced its connection and not yet its end.
Live(b) == pc[b] \in {"read", "frames", "read_progress", "end"}

\* Item i of the channel tells the engine of a connection of b.
Control(i, b) == ingress[i].type \in {"Connected", "End"} /\ ingress[i].broker_id = b

\* An End is preceded by the Connected of its own connection: in the channel, or
\* as the last one the engine has handled.
EndFollowsConnected(b) ==
  \A i \in DOMAIN ingress : Control(i, b) /\ ingress[i].type = "End" =>
    \/ \E j \in DOMAIN ingress :
         /\ j < i /\ Control(j, b)
         /\ ingress[j].type = "Connected" /\ ingress[j].generation = ingress[i].generation
         /\ \A k \in DOMAIN ingress : Control(k, b) => k <= j \/ k >= i
    \/ /\ \A k \in DOMAIN ingress : Control(k, b) => k >= i
       /\ generation[b] = ingress[i].generation

\* The last such item says what the receiver is doing now.
LastIsCurrent(b) ==
  \A i \in DOMAIN ingress :
    (Control(i, b) /\ \A k \in DOMAIN ingress : Control(k, b) => k <= i) =>
      IF ingress[i].type = "Connected"
      THEN Live(b) /\ ingress[i].generation = accepted[b]
      ELSE ~Live(b)

\* Without such an item the engine knows it already.
EngineKnows(b) ==
  (\A i \in DOMAIN ingress : ~Control(i, b)) =>
    /\ is_connected[b] <=> Live(b)
    /\ is_connected[b] => generation[b] = accepted[b]

\* The channel is finite: of several such items one is the last.  It is carried in
\* the invariant because to derive it takes an induction.
HasLast(b) ==
  (\E i \in DOMAIN ingress : Control(i, b)) =>
    \E i \in DOMAIN ingress :
      Control(i, b) /\ \A k \in DOMAIN ingress : Control(k, b) => k <= i

Agree(b) == EndFollowsConnected(b) /\ LastIsCurrent(b) /\ EngineKnows(b) /\ HasLast(b)

\* EngineAgreesWithReceiver is about an empty channel only; this is what has to
\* hold while items are under way.
AgreeInv == \A b \in Brokers : Agree(b)

LEMMA AgreeInvInit == Init => AgreeInv
<1> SUFFICES ASSUME Init, NEW b \in Brokers PROVE Agree(b)
  BY DEF AgreeInv
<1>1. ingress = << >> /\ ~is_connected[b] /\ pc[b] = "listen"
  BY DEF Init, ChannelInit, EngineInit
<1>2. DOMAIN ingress = {}
  BY <1>1
<1>3. QED
  BY <1>1, <1>2 DEF Agree, EndFollowsConnected, LastIsCurrent, EngineKnows, HasLast, Live

\* A step that sends nothing of broker b's connections and leaves them as they are.
LEMMA AgreeUnchanged ==
  ASSUME TypeInv, NEW b \in Brokers, AgreeInv,
         is_connected' = is_connected, generation' = generation,
         Live(b)' <=> Live(b), Live(b) => accepted'[b] = accepted[b],
         \/ ingress' = ingress
         \/ \E item \in IngressItem :
              /\ Submit(item)
              /\ item.broker_id # b \/ item.type \notin {"Connected", "End"}
  PROVE  Agree(b)'
<1> DEFINE N == Len(ingress)
<1>1. EndFollowsConnected(b) /\ LastIsCurrent(b) /\ EngineKnows(b) /\ HasLast(b)
  BY DEF AgreeInv, Agree
<1>2. CASE ingress' = ingress
  BY <1>1, <1>2 DEF Agree, EndFollowsConnected, LastIsCurrent, EngineKnows, HasLast, Control
<1>3. ASSUME NEW item \in IngressItem, Submit(item),
             item.broker_id # b \/ item.type \notin {"Connected", "End"}
      PROVE  Agree(b)'
  <2>1. /\ N \in Nat /\ DOMAIN ingress = 1 .. N /\ DOMAIN ingress' = 1 .. N + 1
        /\ ingress'[N + 1] = item /\ \A i \in 1 .. N : ingress'[i] = ingress[i]
    BY <1>3, SubmitChannel DEF TypeInv, TypeOK, ChannelTypeOK
  <2> DEFINE NextControl(i) == ingress'[i].type \in {"Connected", "End"} /\ ingress'[i].broker_id = b
  <2>2. /\ \A i : Control(i, b)' <=> NextControl(i)
        /\ \A i \in 1 .. N : NextControl(i) <=> Control(i, b)
        /\ ~NextControl(N + 1)
    BY <1>3, <2>1 DEF Control
  <2>3. \A i \in DOMAIN ingress' : NextControl(i) => i \in 1 .. N
    BY <2>1, <2>2
  <2> HIDE DEF NextControl
  <2>4. EndFollowsConnected(b)'
    BY <1>1, <2>1, <2>2, <2>3 DEF EndFollowsConnected
  <2>5. LastIsCurrent(b)'
    BY <1>1, <2>1, <2>2, <2>3 DEF LastIsCurrent
  <2>6. EngineKnows(b)'
    BY <1>1, <2>1, <2>2, <2>3 DEF EngineKnows
  <2>7. HasLast(b)'
    BY <1>1, <2>1, <2>2, <2>3 DEF HasLast
  <2>8. QED
    BY <2>4, <2>5, <2>6, <2>7 DEF Agree
<1>4. QED
  BY <1>2, <1>3

\* A connection is announced, or its end.
LEMMA AgreeAnnounced ==
  ASSUME TypeInv, NEW b \in Brokers, AgreeInv,
         is_connected' = is_connected, generation' = generation, accepted' = accepted,
         NEW t \in {"Connected", "End"},
         Submit([type |-> t, broker_id |-> b, generation |-> accepted[b]]),
         pc[b] \in Attached,
         t = "Connected" => ~Live(b) /\ Live(b)',
         t = "End" => Live(b) /\ ~Live(b)'
  PROVE  Agree(b)'
<1> DEFINE N == Len(ingress)
           item == [type |-> t, broker_id |-> b, generation |-> accepted[b]]
<1>1. EndFollowsConnected(b) /\ LastIsCurrent(b) /\ EngineKnows(b) /\ HasLast(b)
  BY DEF AgreeInv, Agree
<1>2. item \in IngressItem /\ item.type = t /\ item.broker_id = b /\ item.generation = accepted[b]
  BY SubmittedItem
<1>3. /\ N \in Nat /\ DOMAIN ingress = 1 .. N /\ DOMAIN ingress' = 1 .. N + 1
      /\ ingress'[N + 1] = item /\ \A i \in 1 .. N : ingress'[i] = ingress[i]
  BY <1>2, SubmitChannel DEF TypeInv, TypeOK, ChannelTypeOK
<1> DEFINE NextControl(i) == ingress'[i].type \in {"Connected", "End"} /\ ingress'[i].broker_id = b
<1>4. /\ \A i : Control(i, b)' <=> NextControl(i)
      /\ \A i \in 1 .. N : NextControl(i) <=> Control(i, b)
      /\ NextControl(N + 1)
  BY <1>2, <1>3 DEF Control
<1>5. \A i \in 1 .. N + 1 : i \in 1 .. N \/ i = N + 1
  BY <1>3
<1>n. N + 1 \in 1 .. N + 1 /\ \A i \in 1 .. N : ~(N + 1 <= i) /\ i < N + 1 /\ i \in 1 .. N + 1
  BY <1>3
<1> HIDE DEF NextControl, item, N
<1>6. ASSUME t = "End", NEW i \in 1 .. N + 1, NextControl(i), ingress'[i].type = "End"
      PROVE  \/ \E j \in 1 .. N + 1 :
                  /\ j < i /\ NextControl(j) /\ ingress'[j].type = "Connected"
                  /\ ingress'[j].generation = ingress'[i].generation
                  /\ \A k \in 1 .. N + 1 : NextControl(k) => k <= j \/ k >= i
             \/ /\ \A k \in 1 .. N + 1 : NextControl(k) => k >= i
                /\ generation[b] = ingress'[i].generation
  <2>1. CASE i = N + 1
    <3>1. CASE \E k \in 1 .. N : Control(k, b)
      <4>1. PICK j \in 1 .. N : Control(j, b) /\ \A k \in 1 .. N : Control(k, b) => k <= j
        BY <1>1, <1>3, <3>1 DEF HasLast
      <4>2. ingress[j].type = "Connected" /\ ingress[j].generation = accepted[b]
        BY <1>1, <1>3, <1>6, <4>1 DEF LastIsCurrent, Control
      <4>3. /\ j \in 1 .. N + 1 /\ j < i /\ NextControl(j) /\ ingress'[j] = ingress[j]
            /\ ingress'[i].generation = accepted[b]
        BY <1>2, <1>3, <1>4, <1>n, <2>1, <4>1
      <4>4. \A k \in 1 .. N + 1 : NextControl(k) => k <= j \/ k >= i
        BY <1>3, <1>4, <1>5, <2>1, <4>1
      <4>5. QED
        BY <4>2, <4>3, <4>4
    <3>2. CASE \A k \in 1 .. N : ~Control(k, b)
      <4>1. generation[b] = accepted[b]
        BY <1>1, <1>3, <1>6, <3>2 DEF EngineKnows
      <4>2. \A k \in 1 .. N + 1 : NextControl(k) => k >= i
        BY <1>3, <1>4, <1>5, <2>1, <3>2
      <4>3. QED
        BY <1>2, <1>3, <2>1, <4>1, <4>2
    <3>3. QED
      BY <3>1, <3>2
  <2>2. CASE i \in 1 .. N
    <3>1. \A k \in 1 .. N + 1 : k = N + 1 => k >= i
      BY <1>3, <2>2
    <3>2. ingress'[i] = ingress[i] /\ Control(i, b)
      BY <1>3, <1>4, <1>6, <2>2
    <3>3. CASE /\ \A k \in 1 .. N : Control(k, b) => k >= i
               /\ generation[b] = ingress[i].generation
      BY <1>4, <1>5, <3>1, <3>2, <3>3
    <3>4. CASE \E j \in 1 .. N :
                 /\ j < i /\ Control(j, b) /\ ingress[j].type = "Connected"
                 /\ ingress[j].generation = ingress[i].generation
                 /\ \A k \in 1 .. N : Control(k, b) => k <= j \/ k >= i
      BY <1>3, <1>4, <1>5, <1>n, <3>1, <3>2, <3>4
    <3>5. QED
      BY <1>1, <1>3, <1>6, <2>2, <3>2, <3>3, <3>4 DEF EndFollowsConnected
  <2>3. QED
    BY <1>5, <2>1, <2>2
<1>7. ASSUME t = "Connected", NEW i \in 1 .. N + 1, NextControl(i), ingress'[i].type = "End"
      PROVE  \/ \E j \in 1 .. N + 1 :
                  /\ j < i /\ NextControl(j) /\ ingress'[j].type = "Connected"
                  /\ ingress'[j].generation = ingress'[i].generation
                  /\ \A k \in 1 .. N + 1 : NextControl(k) => k <= j \/ k >= i
             \/ /\ \A k \in 1 .. N + 1 : NextControl(k) => k >= i
                /\ generation[b] = ingress'[i].generation
  <2>1. i \in 1 .. N
    BY <1>2, <1>3, <1>5, <1>7
  <2>2. \A k \in 1 .. N + 1 : k = N + 1 => k >= i
    BY <1>3, <2>1
  <2>3. ingress'[i] = ingress[i] /\ Control(i, b)
    BY <1>3, <1>4, <1>7, <2>1
  <2>4. CASE /\ \A k \in 1 .. N : Control(k, b) => k >= i
             /\ generation[b] = ingress[i].generation
    BY <1>4, <1>5, <2>2, <2>3, <2>4
  <2>5. CASE \E j \in 1 .. N :
               /\ j < i /\ Control(j, b) /\ ingress[j].type = "Connected"
               /\ ingress[j].generation = ingress[i].generation
               /\ \A k \in 1 .. N : Control(k, b) => k <= j \/ k >= i
    BY <1>3, <1>4, <1>5, <1>n, <2>2, <2>3, <2>5
  <2>6. QED
    BY <1>1, <1>3, <1>7, <2>1, <2>3, <2>4, <2>5 DEF EndFollowsConnected
<1>8. EndFollowsConnected(b)'
  BY <1>3, <1>4, <1>6, <1>7 DEF EndFollowsConnected
<1>9. LastIsCurrent(b)'
  <2> SUFFICES ASSUME NEW i \in 1 .. N + 1, NextControl(i),
                      \A k \in 1 .. N + 1 : NextControl(k) => k <= i
               PROVE  IF ingress'[i].type = "Connected"
                      THEN Live(b)' /\ ingress'[i].generation = accepted[b]
                      ELSE ~Live(b)'
    BY <1>3, <1>4 DEF LastIsCurrent
  <2>1. i = N + 1
    BY <1>4, <1>5, <1>n
  <2>2. QED
    BY <1>2, <1>3, <2>1
<1>10. EngineKnows(b)'
  BY <1>3, <1>4, <1>n DEF EngineKnows
<1>11. HasLast(b)'
  BY <1>3, <1>4, <1>5, <1>n DEF HasLast
<1>12. QED
  BY <1>8, <1>9, <1>10, <1>11 DEF Agree

\* The engine handles the oldest item.
LEMMA AgreeTaken ==
  ASSUME TypeInv, AgreeInv, TakeItem, UNCHANGED receivers, NEW b \in Brokers
  PROVE  Agree(b)'
<1> DEFINE N == Len(ingress)
           head == ingress[1]
<1>1. EndFollowsConnected(b) /\ LastIsCurrent(b) /\ EngineKnows(b) /\ HasLast(b)
  BY DEF AgreeInv, Agree
<1>2. /\ N \in Nat \ {0} /\ DOMAIN ingress = 1 .. N /\ DOMAIN ingress' = 1 .. N - 1
      /\ \A i \in 1 .. N - 1 : ingress'[i] = ingress[i + 1]
      /\ head \in IngressItem /\ OnIngressItem(head)
  BY TakeChannel DEF TakeItem, TypeInv, TypeOK, ChannelTypeOK
<1>3. (Live(b)' <=> Live(b)) /\ accepted' = accepted
  BY DEF receivers, Live
<1>4. \A i \in 1 .. N - 1 : Control(i, b)' <=> Control(i + 1, b)
  BY <1>2 DEF Control
\* The items, shifted.
<1>5. /\ \A i \in 1 .. N - 1 : i + 1 \in 1 .. N /\ ~(i + 1 <= 1)
      /\ 1 \in 1 .. N
      /\ \A k \in 1 .. N : k # 1 => k - 1 \in 1 .. N - 1 /\ (k - 1) + 1 = k
      /\ \A i, k \in 1 .. N - 1 : (i + 1 <= k + 1 <=> i <= k) /\ (i + 1 < k + 1 <=> i < k)
  BY <1>2
\* What the engine believes afterwards.
<1>6. /\ is_connected \in [Brokers -> BOOLEAN] /\ generation \in [Brokers -> Nat]
      /\ head.broker_id \in Brokers
  <2>1. head.broker_id \in Brokers
    BY <1>2 DEF IngressItem, ConnectedItem, ProgressItem, FrameItem, EndItem
  <2>2. 0 .. MaxGeneration \subseteq Nat
    BY BoundAssumption
  <2>3. QED
    BY <2>1, <2>2 DEF TypeInv, TypeOK, ChannelTypeOK, EngineTypeOK
<1>7. ASSUME ~Control(1, b)
      PROVE  is_connected'[b] = is_connected[b] /\ generation'[b] = generation[b]
  BY <1>2, <1>6, <1>7
  DEF OnIngressItem, OnConnected, OnProgress, OnFrame, OnEnd, Control
<1>8. ASSUME Control(1, b), head.type = "Connected"
      PROVE  is_connected'[b] /\ generation'[b] = head.generation
  BY <1>2, <1>6, <1>8
  DEF OnIngressItem, OnConnected, OnProgress, OnFrame, OnEnd, Control
<1>9. ASSUME Control(1, b), head.type = "End"
      PROVE  ~is_connected'[b]
  <2>1. generation[b] = head.generation
    <3>1. \A j \in 1 .. N : ~(j < 1)
      BY <1>2
    <3>2. QED
      BY <1>1, <1>2, <1>5, <1>9, <3>1 DEF EndFollowsConnected
  <2>2. QED
    BY <1>2, <1>6, <1>9, <2>1
    DEF OnIngressItem, OnConnected, OnProgress, OnFrame, OnEnd, Control
<1>a. Control(1, b) => head.type \in {"Connected", "End"}
  BY DEF Control
<1>10. EndFollowsConnected(b)'
  <2>a. ASSUME NEW i \in 1 .. N - 1, Control(i + 1, b), ingress[i + 1].type = "End"
        PROVE  \/ \E j \in 1 .. N - 1 :
                    /\ j < i /\ Control(j + 1, b)
                    /\ ingress[j + 1].type = "Connected"
                    /\ ingress[j + 1].generation = ingress[i + 1].generation
                    /\ \A k \in 1 .. N - 1 : Control(k + 1, b) => k <= j \/ k >= i
               \/ /\ \A k \in 1 .. N - 1 : Control(k + 1, b) => k >= i
                  /\ generation'[b] = ingress[i + 1].generation
    <3>1. CASE /\ \A k \in 1 .. N : Control(k, b) => k >= i + 1
               /\ generation[b] = ingress[i + 1].generation
      <4>1. ~Control(1, b)
        BY <1>2, <1>5, <3>1
      <4>2. \A k \in 1 .. N - 1 : Control(k + 1, b) => k >= i
        BY <1>2, <3>1
      <4>3. QED
        BY <1>7, <3>1, <4>1, <4>2
    <3>2. ASSUME NEW j \in 1 .. N,
                 /\ j < i + 1 /\ Control(j, b)
                 /\ ingress[j].type = "Connected"
                 /\ ingress[j].generation = ingress[i + 1].generation
                 /\ \A k \in 1 .. N : Control(k, b) => k <= j \/ k >= i + 1
          PROVE  \/ \E m \in 1 .. N - 1 :
                      /\ m < i /\ Control(m + 1, b)
                      /\ ingress[m + 1].type = "Connected"
                      /\ ingress[m + 1].generation = ingress[i + 1].generation
                      /\ \A k \in 1 .. N - 1 : Control(k + 1, b) => k <= m \/ k >= i
                 \/ /\ \A k \in 1 .. N - 1 : Control(k + 1, b) => k >= i
                    /\ generation'[b] = ingress[i + 1].generation
      <4>1. CASE j = 1
        <5>1. generation'[b] = ingress[i + 1].generation
          BY <1>8, <3>2, <4>1
        <5>2. \A k \in 1 .. N - 1 : Control(k + 1, b) => k >= i
          BY <1>2, <1>5, <3>2, <4>1
        <5>3. QED
          BY <5>1, <5>2
      <4>2. CASE j # 1
        <5> DEFINE m == j - 1
        <5>1. m \in 1 .. N - 1 /\ m + 1 = j /\ m < i
          BY <1>2, <3>2, <4>2
        <5>2. \A k \in 1 .. N - 1 : Control(k + 1, b) => k <= m \/ k >= i
          BY <1>2, <1>5, <3>2, <5>1
        <5> HIDE DEF m
        <5>3. QED
          BY <3>2, <5>1, <5>2
      <4>3. QED
        BY <4>1, <4>2
    <3>3. QED
      <4>1. i + 1 \in 1 .. N
        BY <1>5
      <4>2. \/ /\ \A k \in 1 .. N : Control(k, b) => k >= i + 1
               /\ generation[b] = ingress[i + 1].generation
            \/ \E j \in 1 .. N :
                 /\ j < i + 1 /\ Control(j, b)
                 /\ ingress[j].type = "Connected"
                 /\ ingress[j].generation = ingress[i + 1].generation
                 /\ \A k \in 1 .. N : Control(k, b) => k <= j \/ k >= i + 1
        <5>1. DOMAIN ingress = 1 .. N
          BY <1>2
        <5>2. i + 1 \in DOMAIN ingress /\ Control(i + 1, b) /\ ingress[i + 1].type = "End"
          BY <2>a, <4>1, <5>1
        <5>3. \/ /\ \A k \in DOMAIN ingress : Control(k, b) => k >= i + 1
                 /\ generation[b] = ingress[i + 1].generation
              \/ \E j \in DOMAIN ingress :
                   /\ j < i + 1 /\ Control(j, b)
                   /\ ingress[j].type = "Connected"
                   /\ ingress[j].generation = ingress[i + 1].generation
                   /\ \A k \in DOMAIN ingress : Control(k, b) => k <= j \/ k >= i + 1
          BY <1>1, <5>2, Zenon DEF EndFollowsConnected
        <5>4. QED
          BY <5>1, <5>3
      <4>3. QED
        BY <3>1, <3>2, <4>2
  <2>b. SUFFICES ASSUME NEW i \in DOMAIN ingress', Control(i, b)', ingress'[i].type = "End"
                 PROVE  \/ \E j \in DOMAIN ingress' :
                             /\ j < i /\ Control(j, b)'
                             /\ ingress'[j].type = "Connected"
                             /\ ingress'[j].generation = ingress'[i].generation
                             /\ \A k \in DOMAIN ingress' : Control(k, b)' => k <= j \/ k >= i
                        \/ /\ \A k \in DOMAIN ingress' : Control(k, b)' => k >= i
                           /\ generation'[b] = ingress'[i].generation
    BY DEF EndFollowsConnected
  <2>c. i \in 1 .. N - 1 /\ Control(i + 1, b) /\ ingress[i + 1].type = "End"
    BY <1>2, <1>4, <2>b
  <2>d. CASE /\ \A k \in 1 .. N - 1 : Control(k + 1, b) => k >= i
             /\ generation'[b] = ingress[i + 1].generation
    BY <1>2, <1>4, <2>c, <2>d
  <2>e. ASSUME NEW j \in 1 .. N - 1,
               j < i /\ Control(j + 1, b),
               ingress[j + 1].type = "Connected",
               ingress[j + 1].generation = ingress[i + 1].generation,
               \A k \in 1 .. N - 1 : Control(k + 1, b) => k <= j \/ k >= i
        PROVE  /\ j \in DOMAIN ingress' /\ Control(j, b)'
               /\ ingress'[j].type = "Connected"
               /\ ingress'[j].generation = ingress'[i].generation
               /\ \A k \in DOMAIN ingress' : Control(k, b)' => k <= j \/ k >= i
    BY <1>2, <1>4, <2>c, <2>e
  <2>f. QED
    BY <2>a, <2>c, <2>d, <2>e
<1>11. LastIsCurrent(b)'
  <2> SUFFICES ASSUME NEW i \in 1 .. N - 1, Control(i + 1, b),
                      \A k \in 1 .. N - 1 : Control(k + 1, b) => k <= i
               PROVE  IF ingress[i + 1].type = "Connected"
                      THEN Live(b) /\ ingress[i + 1].generation = accepted[b]
                      ELSE ~Live(b)
    BY <1>2, <1>3, <1>4 DEF LastIsCurrent
  <2>1. ASSUME NEW k \in 1 .. N, Control(k, b)
        PROVE  k <= i + 1
    <3>1. CASE k = 1
      BY <1>2, <3>1
    <3>2. CASE k # 1
      BY SMTT(30), <1>2, <1>5, <2>1, <3>2
    <3>3. QED
      BY <3>1, <3>2
  <2>2. QED
    BY <1>1, <1>2, <1>5, <2>1 DEF LastIsCurrent
<1>12. EngineKnows(b)'
  <2> SUFFICES ASSUME \A i \in 1 .. N - 1 : ~Control(i + 1, b)
               PROVE  /\ is_connected'[b] <=> Live(b)
                      /\ is_connected'[b] => generation'[b] = accepted[b]
    BY <1>2, <1>3, <1>4 DEF EngineKnows
  <2>1. \A k \in 1 .. N : Control(k, b) => k = 1
    BY <1>5
  <2>2. CASE Control(1, b)
    <3>1. \A k \in 1 .. N : Control(k, b) => k <= 1
      BY <2>1
    <3>2. IF head.type = "Connected" THEN Live(b) /\ head.generation = accepted[b] ELSE ~Live(b)
      BY <1>1, <1>2, <1>5, <2>2, <3>1 DEF LastIsCurrent
    <3>3. QED
      BY <1>8, <1>9, <1>a, <2>2, <3>2
  <2>3. CASE ~Control(1, b)
    <3>1. \A k \in 1 .. N : ~Control(k, b)
      BY <2>1, <2>3
    <3>2. QED
      BY <1>1, <1>2, <1>7, <2>3, <3>1 DEF EngineKnows
  <2>4. QED
    BY <2>2, <2>3
<1>13. HasLast(b)'
  <2> SUFFICES ASSUME NEW i \in 1 .. N - 1, Control(i + 1, b)
               PROVE  \E j \in 1 .. N - 1 :
                        Control(j + 1, b) /\ \A k \in 1 .. N - 1 : Control(k + 1, b) => k <= j
    BY <1>2, <1>4 DEF HasLast
  <2>1. PICK l \in 1 .. N : Control(l, b) /\ \A k \in 1 .. N : Control(k, b) => k <= l
    BY <1>1, <1>2, <1>5 DEF HasLast
  <2>2. l # 1
    BY <1>5, <2>1
  <2> DEFINE j == l - 1
  <2>3. j \in 1 .. N - 1 /\ j + 1 = l
    BY <1>2, <2>2
  <2>4. \A k \in 1 .. N - 1 : Control(k + 1, b) => k <= j
    BY <1>2, <1>5, <2>1, <2>3
  <2> HIDE DEF j
  <2>5. QED
    BY <2>1, <2>3, <2>4
<1>14. QED
  BY <1>10, <1>11, <1>12, <1>13 DEF Agree

LEMMA AgreeReceiver ==
  ASSUME TypeInv, AgreeInv, NEW b \in Brokers, Receiver(b), NEW c \in Brokers
  PROVE  Agree(c)'
<1>0. is_connected' = is_connected /\ generation' = generation
  BY DEF Receiver, Accept, SubmitConnected, Read, SubmitFrame, IdleSample, SubmitProgress,
         CloseConnection, SubmitEnd, engine, channels
<1>p. pc \in [Brokers -> PC] /\ accepted \in [Brokers -> 0 .. MaxGeneration]
  BY DEF TypeInv, TypeOK
<1>1. CASE Accept(b) \/ Read(b) \/ IdleSample(b) \/ CloseConnection(b)
  <2>1. ingress' = ingress
    BY <1>1 DEF Accept, Read, IdleSample, CloseConnection
  <2>2. (Live(c)' <=> Live(c)) /\ (Live(c) => accepted'[c] = accepted[c])
    BY <1>1, <1>p DEF Accept, Read, IdleSample, CloseConnection, Goto, Live
  <2>3. QED
    BY <1>0, <2>1, <2>2, AgreeUnchanged
<1>2. CASE SubmitFrame(b) \/ SubmitProgress(b)
  <2>1. (Live(c)' <=> Live(c)) /\ accepted'[c] = accepted[c]
    BY <1>2, <1>p DEF SubmitFrame, SubmitProgress, Goto, Live
  <2>2. \E item \in IngressItem : Submit(item) /\ item.type \notin {"Connected", "End"}
    <3>1. CASE SubmitFrame(b)
      BY <3>1, SubmittedItem DEF SubmitFrame, SubmitSomeFrame, Goto
    <3>2. CASE SubmitProgress(b)
      BY <3>2, SubmittedItem DEF SubmitProgress
    <3>3. QED
      BY <1>2, <3>1, <3>2
  <2>3. QED
    BY <1>0, <2>1, <2>2, AgreeUnchanged
<1>3. CASE SubmitConnected(b)
  <2> DEFINE item == [type |-> "Connected", broker_id |-> b, generation |-> accepted[b]]
  <2>1. /\ Submit(item) /\ pc[b] = "connected" /\ accepted' = accepted
        /\ pc' = [pc EXCEPT ![b] = "read"]
    BY <1>3 DEF SubmitConnected, Goto
  <2>2. item \in IngressItem /\ pc[b] \in Attached
    BY <2>1, SubmittedItem DEF Attached
  <2>3. CASE c = b
    <3>1. ~Live(b) /\ Live(b)'
      BY <1>p, <2>1 DEF Live
    <3>2. QED
      BY <1>0, <2>1, <2>2, <2>3, <3>1, AgreeAnnounced
  <2>4. CASE c # b
    <3>1. Live(c)' <=> Live(c)
      BY <1>p, <2>1, <2>4 DEF Live
    <3>2. QED
      BY <1>0, <2>1, <2>2, <2>4, <3>1, AgreeUnchanged
  <2>5. QED
    BY <2>3, <2>4
<1>4. CASE SubmitEnd(b)
  <2> DEFINE item == [type |-> "End", broker_id |-> b, generation |-> accepted[b]]
  <2>1. /\ Submit(item) /\ pc[b] = "end" /\ accepted' = accepted
        /\ pc' = [pc EXCEPT ![b] = "listen"]
    BY <1>4 DEF SubmitEnd, Goto
  <2>2. item \in IngressItem /\ pc[b] \in Attached
    BY <2>1, SubmittedItem DEF Attached
  <2>3. CASE c = b
    <3>1. Live(b) /\ ~Live(b)'
      BY <1>p, <2>1 DEF Live
    <3>2. QED
      BY <1>0, <2>1, <2>2, <2>3, <3>1, AgreeAnnounced
  <2>4. CASE c # b
    <3>1. Live(c)' <=> Live(c)
      BY <1>p, <2>1, <2>4 DEF Live
    <3>2. QED
      BY <1>0, <2>1, <2>2, <2>4, <3>1, AgreeUnchanged
  <2>5. QED
    BY <2>3, <2>4
<1>5. QED
  BY <1>1, <1>2, <1>3, <1>4 DEF Receiver

LEMMA AgreeInvNext == TypeInv /\ AgreeInv /\ [Next]_vars => AgreeInv'
<1> SUFFICES ASSUME TypeInv, AgreeInv, [Next]_vars, NEW b \in Brokers PROVE Agree(b)'
  BY DEF AgreeInv
<1>1. CASE \E c \in Brokers : Receiver(c)
  BY <1>1, AgreeReceiver
<1>2. CASE TakeItem /\ UNCHANGED receivers
  BY <1>2, AgreeTaken
<1>3. CASE Tick \/ (Drain /\ UNCHANGED receivers) \/ UNCHANGED vars
  <2>1. /\ ingress' = ingress /\ pc' = pc /\ accepted' = accepted
        /\ is_connected' = is_connected /\ generation' = generation
    BY <1>3
    DEF Tick, AdvanceClock, Drain, DrainStep, ForceDrain, StartMerge, MergeFront, FinishItem,
        vars, engine, channels, receivers
  <2>2. (Live(b)' <=> Live(b)) /\ accepted'[b] = accepted[b]
    BY <2>1 DEF Live
  <2>3. QED
    BY <2>1, <2>2, AgreeUnchanged
<1>4. QED
  BY <1>1, <1>2, <1>3 DEF Next, Worker

\* An End is never applied to a later connection of its broker, and none is
\* missed: with an empty channel the engine knows which brokers are connected and
\* by which connection, however often they reconnect.
THEOREM EngineAgrees == Spec => []EngineAgreesWithReceiver
<1>1. AgreeInv => EngineAgreesWithReceiver
  <2> SUFFICES ASSUME AgreeInv, ingress = << >>, NEW b \in Brokers
               PROVE  /\ is_connected[b] <=> pc[b] \in {"read", "frames", "read_progress", "end"}
                      /\ is_connected[b] => generation[b] = accepted[b]
    BY DEF EngineAgreesWithReceiver
  <2>1. DOMAIN ingress = {}
    OBVIOUS
  <2>2. QED
    BY <2>1 DEF AgreeInv, Agree, EngineKnows, Live
<1>2. Init => AgreeInv
  BY AgreeInvInit
<1>3. TypeInv /\ AgreeInv /\ [Next]_vars => AgreeInv'
  BY AgreeInvNext
<1>4. QED
  BY <1>1, <1>2, <1>3, TypeInvariant, PTL DEF Spec

-----------------------------------------------------------------------------
(***************************************************************************)
(* The receive order.  MergeInReceiveOrder follows from NothingOvertaken,    *)
(* which is not inductive: it does not say why a frame that is still to come *)
(* cannot be older than the watermark that lets another one go.  OrderInv    *)
(* says so, in eight parts.                                                  *)
(***************************************************************************)

Timed(item)    == item.type \in {"Progress", "Frame"}
ItemTime(item) == IF item.type = "Frame" THEN item.frame.rx_mono_ns ELSE item.watermark_ns

IsOf(item, type, b) == item.type = type /\ item.broker_id = b

Positions == 1 .. Len(ingress)

\* A broker's queue is in receive order, and its watermark is past all of it.
PendingSorted ==
  \A b \in Brokers :
    /\ \A i \in 1 .. Len(pending_frames[b]) :
          pending_frames[b][i].rx_mono_ns <= watermark[b]
    /\ \A i, j \in 1 .. Len(pending_frames[b]) :
          i <= j => pending_frames[b][i].rx_mono_ns <= pending_frames[b][j].rx_mono_ns

\* Nothing carries a time that has not come yet.
ClockBound ==
  /\ last_merged <= now
  /\ \A b \in Brokers : watermark[b] <= now
  /\ \A b \in Brokers : sample[b] <= now
  /\ \A i \in Positions : Timed(ingress[i]) => ItemTime(ingress[i]) <= now

\* One broker's times reach the engine in the order they were taken: what the
\* engine knows, then the channel, then what its thread holds.
ChannelSorted ==
  \A i \in Positions : Timed(ingress[i]) =>
    /\ watermark[ingress[i].broker_id] <= ItemTime(ingress[i])
    /\ \A j \in Positions :
          (i < j /\ Timed(ingress[j]) /\ ingress[j].broker_id = ingress[i].broker_id)
            => ItemTime(ingress[i]) <= ItemTime(ingress[j])

Holding(b) == pc[b] \in {"frames", "listen_progress", "read_progress"}

SampleLast ==
  \A b \in Brokers : Holding(b) =>
    /\ watermark[b] <= sample[b]
    /\ \A i \in Positions :
          Timed(ingress[i]) /\ ingress[i].broker_id = b => ItemTime(ingress[i]) <= sample[b]

\* While the merge runs, no connected broker's watermark is below the global one.
WatermarkIsLeast ==
  phase = "merge" => \A b \in Brokers : is_connected[b] => current_watermark <= watermark[b]

\* t is no earlier than anything the engine will know when it takes item i.
NotBefore(t, i) ==
  /\ \A b \in Brokers : watermark[b] <= t
  /\ \A k \in 1 .. i - 1 : Timed(ingress[k]) => ItemTime(ingress[k]) <= t

\* What is received on a connection is received after everything that entered
\* the channel before its Connected.
FramesAfterConnect ==
  \A i \in Positions : ingress[i].type = "Connected" =>
    /\ \A j \in Positions :
          i < j /\ IsOf(ingress[j], "Frame", ingress[i].broker_id)
            => NotBefore(ItemTime(ingress[j]), i)
    /\ pc[ingress[i].broker_id] = "frames" => NotBefore(sample[ingress[i].broker_id], i)

\* The broker's channel will be connected when the engine takes item j, because
\* it is now or because of a Connected ahead of j, and no End comes between.
ConnectedBefore(b, j) ==
  \/ /\ is_connected[b]
     /\ \A k \in 1 .. j - 1 : ~IsOf(ingress[k], "End", b)
  \/ \E i \in 1 .. j - 1 :
       /\ IsOf(ingress[i], "Connected", b)
       /\ \A k \in i + 1 .. j - 1 : ~IsOf(ingress[k], "End", b)

FramesWhileConnected ==
  \A b \in Brokers :
    /\ \A j \in Positions : IsOf(ingress[j], "Frame", b) => ConnectedBefore(b, j)
    /\ pc[b] \in {"read", "frames", "read_progress", "end"}
         => ConnectedBefore(b, Len(ingress) + 1)

OrderInv ==
  /\ PendingSorted
  /\ ClockBound
  /\ ChannelSorted
  /\ SampleLast
  /\ WatermarkIsLeast
  /\ FramesAfterConnect
  /\ FramesWhileConnected
  /\ NothingOvertaken

Inv == TypeInv /\ OrderInv

-----------------------------------------------------------------------------
\* The arithmetic types the steps below need.
LEMMA Times ==
  ASSUME TypeInv
  PROVE  /\ now \in Nat /\ last_merged \in Nat /\ current_watermark \in Nat
         /\ Len(ingress) \in Nat
         /\ \A b \in Brokers : watermark[b] \in Nat /\ sample[b] \in Nat
         /\ \A i \in Positions :
              /\ ingress[i].broker_id \in Brokers
              /\ Timed(ingress[i]) => ItemTime(ingress[i]) \in Nat
         /\ \A b \in Brokers : \A i \in 1 .. Len(pending_frames[b]) :
              pending_frames[b][i].rx_mono_ns \in Nat
<1>1. /\ now \in Nat /\ last_merged \in Nat /\ current_watermark \in Nat
      /\ \A b \in Brokers : watermark[b] \in Nat /\ sample[b] \in Nat
  BY BoundAssumption DEF TypeInv, TypeOK, ChannelTypeOK, EngineTypeOK, Time
<1>2. Len(ingress) \in Nat /\ \A i \in Positions : ingress[i] \in IngressItem
  BY DEF TypeInv, TypeOK, ChannelTypeOK, Positions
<1>3. \A item \in IngressItem :
        item.broker_id \in Brokers /\ (Timed(item) => ItemTime(item) \in Nat)
  BY BoundAssumption DEF IngressItem, ConnectedItem, ProgressItem, FrameItem, EndItem,
     Frame, Time, Timed, ItemTime
<1>4. \A b \in Brokers : \A i \in 1 .. Len(pending_frames[b]) : pending_frames[b][i] \in Frame
  BY DEF TypeInv, TypeOK, ChannelTypeOK, EngineTypeOK
<1>5. \A f \in Frame : f.rx_mono_ns \in Nat
  BY BoundAssumption DEF Frame, Time
<1>6. QED
  BY <1>1, <1>2, <1>3, <1>4, <1>5

LEMMA OrderInit == Init => OrderInv
<1> SUFFICES ASSUME Init PROVE OrderInv
  OBVIOUS
<1>1. Positions = {} /\ \A b \in Brokers : 1 .. Len(pending_frames[b]) = {}
  BY DEF Init, ChannelInit, EngineInit, Positions
<1>2. PendingSorted /\ ChannelSorted /\ FramesAfterConnect
  BY <1>1 DEF PendingSorted, ChannelSorted, FramesAfterConnect
<1>3. ClockBound /\ SampleLast /\ WatermarkIsLeast /\ FramesWhileConnected
  BY <1>1 DEF Init, ChannelInit, EngineInit, ClockBound, SampleLast, WatermarkIsLeast,
     FramesWhileConnected, Holding
<1>4. NothingOvertaken
  BY <1>1 DEF Init, ChannelInit, EngineInit, NothingOvertaken, Positions
<1>5. QED
  BY <1>2, <1>3, <1>4 DEF OrderInv

-----------------------------------------------------------------------------
(* Steps that leave the engine and the channel alone.                        *)

\* The clock goes on, and a thread may take a sample of it or drop the one it
\* has, or move to a point where it holds none; everything older is below the
\* sample.
LEMMA OrderQuiet ==
  ASSUME Inv, UNCHANGED <<engine, ingress>>, now' \in Nat, now' >= now,
         NEW b \in Brokers,
         \A c \in Brokers \ {b} : pc'[c] = pc[c] /\ sample'[c] = sample[c],
         \/ pc'[b] = pc[b] /\ sample'[b] = sample[b]
         \/ sample'[b] = now
         \/ sample'[b] \in {0, sample[b]} /\ ~Holding(b)',
         pc'[b] \in {"read", "frames", "read_progress", "end"}
           => pc[b] \in {"read", "frames", "read_progress", "end"}
  PROVE  OrderInv'
<1>1. TypeInv /\ OrderInv
  BY DEF Inv
<1>2. /\ UNCHANGED <<is_connected, watermark, pending_frames, current_watermark, phase,
                     last_merged, ingress>>
      /\ Positions' = Positions
  BY DEF engine, channels, queues, Positions
<1>3. PendingSorted' /\ ChannelSorted' /\ WatermarkIsLeast'
  BY <1>1, <1>2 DEF OrderInv, PendingSorted, ChannelSorted, WatermarkIsLeast
<1>4. \A c \in Brokers : sample'[c] \in Nat /\ sample'[c] <= now'
  BY <1>1, Times DEF OrderInv, ClockBound
<1>5. ClockBound'
  BY <1>1, <1>2, <1>4, Times DEF OrderInv, ClockBound
<1>6. \A c \in Brokers : Holding(c)' =>
        (Holding(c) /\ sample'[c] = sample[c]) \/ sample'[c] = now
  BY DEF Holding
<1>7. SampleLast'
  <2>1. \A c \in Brokers : watermark[c] <= now
    BY <1>1 DEF OrderInv, ClockBound
  <2>2. \A i \in Positions : Timed(ingress[i]) => ItemTime(ingress[i]) <= now
    BY <1>1 DEF OrderInv, ClockBound
  <2>3. QED
    BY <1>1, <1>2, <1>6, <2>1, <2>2 DEF OrderInv, SampleLast
<1>8. \A t, i : NotBefore(t, i)' <=> NotBefore(t, i)
  BY <1>2 DEF NotBefore
<1>9. \A c \in Brokers : pc'[c] = "frames" =>
        (pc[c] = "frames" /\ sample'[c] = sample[c]) \/ sample'[c] = now
  BY DEF Holding
<1>10. \A i \in Positions : NotBefore(now, i)
  BY <1>1 DEF OrderInv, ClockBound, NotBefore, Positions
<1>11. FramesAfterConnect'
  <2>1. \A i \in Positions : ingress[i].broker_id \in Brokers
    BY <1>1, Times
  <2>2. QED
    BY <1>1, <1>2, <1>8, <1>9, <1>10, <2>1 DEF OrderInv, FramesAfterConnect
<1>12. \A c, j : ConnectedBefore(c, j)' <=> ConnectedBefore(c, j)
  BY <1>2 DEF ConnectedBefore
<1>13. FramesWhileConnected'
  BY <1>1, <1>2, <1>12 DEF OrderInv, FramesWhileConnected
<1>14. NothingOvertaken'
  <2>1. last_merged <= now
    BY <1>1 DEF OrderInv, ClockBound
  <2>2. QED
    BY <1>1, <1>2, <1>9, <2>1 DEF OrderInv, NothingOvertaken
<1>15. QED
  BY <1>3, <1>5, <1>7, <1>11, <1>13, <1>14 DEF OrderInv

LEMMA OrderTick ==
  ASSUME Inv, Tick
  PROVE  OrderInv'
<1>1. PICK b : b \in Brokers
  BY BrokersAssumption
<1>2. now \in Nat
  BY Times DEF Inv
<1>3. QED
  BY <1>1, <1>2, OrderQuiet DEF Tick, AdvanceClock, receivers

LEMMA OrderQuietReceiver ==
  ASSUME Inv, NEW b \in Brokers,
         Accept(b) \/ Read(b) \/ IdleSample(b) \/ CloseConnection(b)
  PROVE  OrderInv'
<1>1. now \in Nat /\ pc \in [Brokers -> PC] /\ sample \in [Brokers -> Time]
  BY Times DEF Inv, TypeInv, TypeOK
<1>2. UNCHANGED <<engine, ingress, now>>
  BY DEF Accept, Read, IdleSample, CloseConnection
<1>3. \A c \in Brokers \ {b} : pc'[c] = pc[c] /\ sample'[c] = sample[c]
  BY <1>1 DEF Accept, Read, IdleSample, CloseConnection, Goto
<1>4. \/ sample'[b] = now
      \/ sample'[b] \in {0, sample[b]} /\ ~Holding(b)'
  BY <1>1 DEF Accept, Read, IdleSample, CloseConnection, Goto, Holding
<1>5. pc'[b] \in {"read", "frames", "read_progress", "end"}
        => pc[b] \in {"read", "frames", "read_progress", "end"}
  BY <1>1 DEF Accept, Read, IdleSample, CloseConnection, Goto
<1>6. QED
  BY <1>1, <1>2, <1>3, <1>4, <1>5, OrderQuiet

-----------------------------------------------------------------------------
(* Steps that submit an item.                                                *)

\* What was true of a position stays true when an item is appended behind it.
LEMMA AppendedItem ==
  ASSUME Inv, NEW item \in IngressItem, Submit(item), UNCHANGED <<engine, now>>
  PROVE  /\ Len(ingress) \in Nat
         /\ Positions' = Positions \cup {Len(ingress) + 1}
         /\ Positions = 1 .. Len(ingress)
         /\ ingress'[Len(ingress) + 1] = item
         /\ \A i \in Positions : ingress'[i] = ingress[i]
         /\ UNCHANGED <<is_connected, watermark, pending_frames, current_watermark, phase,
                        last_merged>>
         /\ \A t : \A i \in 1 .. Len(ingress) + 1 : NotBefore(t, i)' <=> NotBefore(t, i)
         /\ \A c : \A j \in 1 .. Len(ingress) + 1 :
               ConnectedBefore(c, j)' <=> ConnectedBefore(c, j)
         /\ \A c : ConnectedBefore(c, Len(ingress) + 1) /\ ~IsOf(item, "End", c)
               => ConnectedBefore(c, Len(ingress) + 1)'
         /\ \A c : IsOf(item, "Connected", c) => ConnectedBefore(c, Len(ingress) + 1)'
         /\ PendingSorted' /\ WatermarkIsLeast'
<1> DEFINE n == Len(ingress)
<1>1. TypeOK /\ OrderInv
  BY DEF Inv, TypeInv
<1>2. /\ n \in Nat /\ Len(ingress') = n + 1
      /\ ingress'[n + 1] = item
      /\ \A i \in 1 .. n : ingress'[i] = ingress[i]
  BY <1>1, SubmitChannel DEF TypeInv, TypeOK
<1>3. Positions' = Positions \cup {n + 1} /\ Positions = 1 .. n
  BY <1>2 DEF Positions
<1>4. UNCHANGED <<is_connected, watermark, pending_frames, current_watermark, phase, last_merged>>
  BY DEF engine, channels, queues
<1>5. \A t : \A i \in 1 .. n + 1 : NotBefore(t, i)' <=> NotBefore(t, i)
  BY <1>2, <1>4 DEF NotBefore
<1>6. \A c : \A j \in 1 .. n + 1 : ConnectedBefore(c, j)' <=> ConnectedBefore(c, j)
  BY SMTT(30), <1>2, <1>4 DEF ConnectedBefore
<1>7. ASSUME NEW c, ConnectedBefore(c, Len(ingress) + 1), ~IsOf(item, "End", c)
      PROVE  ConnectedBefore(c, Len(ingress) + 1)'
  <2>1. \A k \in 1 .. n : ~IsOf(ingress[k], "End", c) => ~IsOf(ingress'[k], "End", c)
    BY <1>2
  <2>2. CASE is_connected[c] /\ \A k \in 1 .. n : ~IsOf(ingress[k], "End", c)
    <3>1. \A k \in 1 .. n + 1 : ~IsOf(ingress'[k], "End", c)
      BY <1>2, <1>7, <2>1, <2>2
    <3>2. QED
      BY <1>2, <1>4, <2>2, <3>1 DEF ConnectedBefore
  <2>3. ASSUME NEW i \in 1 .. n, IsOf(ingress[i], "Connected", c),
               \A k \in i + 1 .. n : ~IsOf(ingress[k], "End", c)
        PROVE  ConnectedBefore(c, Len(ingress) + 1)'
    <3>1. \A k \in i + 1 .. n + 1 : ~IsOf(ingress'[k], "End", c)
      BY <1>2, <1>7, <2>1, <2>3
    <3>2. i \in 1 .. n + 1 /\ IsOf(ingress'[i], "Connected", c)
      BY <1>2, <2>3
    <3>3. QED
      BY <1>2, <3>1, <3>2 DEF ConnectedBefore
  <2>4. QED
    BY <1>2, <1>7, <2>2, <2>3 DEF ConnectedBefore
<1>8. \A c : IsOf(item, "Connected", c) => ConnectedBefore(c, Len(ingress) + 1)'
  BY <1>2 DEF ConnectedBefore
<1>9. PendingSorted' /\ WatermarkIsLeast'
  BY <1>1, <1>4 DEF OrderInv, PendingSorted, WatermarkIsLeast
<1>10. QED
  BY <1>2, <1>3, <1>4, <1>5, <1>6, <1>7, <1>8, <1>9

\* Connected: the thread holds no sample, and nothing it reads is before it.
LEMMA OrderSubmitConnected ==
  ASSUME Inv, NEW b \in Brokers, SubmitConnected(b)
  PROVE  OrderInv'
<1> DEFINE n    == Len(ingress)
           item == [type |-> "Connected", broker_id |-> b, generation |-> accepted[b]]
<1>1. TypeInv /\ OrderInv
  BY DEF Inv
<1>2. /\ Submit(item) /\ UNCHANGED <<engine, now, sample>> /\ item \in IngressItem
      /\ pc[b] = "connected" /\ pc'[b] = "read"
      /\ \A c \in Brokers \ {b} : pc'[c] = pc[c]
  BY <1>1, SubmittedItem DEF SubmitConnected, Goto, Attached, TypeInv, TypeOK
<1>3. /\ n \in Nat
      /\ Positions' = Positions \cup {n + 1} /\ Positions = 1 .. n
      /\ ingress'[n + 1] = item
      /\ \A i \in Positions : ingress'[i] = ingress[i]
      /\ UNCHANGED <<is_connected, watermark, pending_frames, current_watermark, phase,
                     last_merged, sample, now>>
      /\ PendingSorted' /\ WatermarkIsLeast'
  BY <1>2, AppendedItem
<1>4. \A t : \A i \in 1 .. n + 1 : NotBefore(t, i)' <=> NotBefore(t, i)
  BY <1>2, AppendedItem
<1>5. \A c : \A j \in 1 .. n + 1 : ConnectedBefore(c, j)' <=> ConnectedBefore(c, j)
  BY <1>2, AppendedItem
<1>6. ~Timed(item) /\ item.type = "Connected" /\ item.broker_id = b
  BY DEF Timed
<1>7. \A c \in Brokers : Holding(c)' <=> Holding(c)
  BY <1>2 DEF Holding
<1> HIDE DEF item
<1>8. ClockBound'
  BY <1>1, <1>3, <1>6 DEF OrderInv, ClockBound
<1>9. ChannelSorted'
  BY <1>1, <1>3, <1>6 DEF OrderInv, ChannelSorted
<1>10. SampleLast'
  BY <1>1, <1>3, <1>6, <1>7 DEF OrderInv, SampleLast
<1>11. FramesAfterConnect'
  <2>1. \A c \in Brokers : pc'[c] = "frames" <=> pc[c] = "frames"
    BY <1>2
  <2>2. \A i \in Positions : ingress[i].broker_id \in Brokers
    BY <1>1, Times
  <2>3. pc'[b] # "frames"
    BY <1>2
  <2>4. QED
    BY <1>1, <1>3, <1>4, <1>6, <2>1, <2>2, <2>3 DEF OrderInv, FramesAfterConnect, IsOf
<1>12. FramesWhileConnected'
  <2>1. \A c \in Brokers, j \in Positions' :
          IsOf(ingress'[j], "Frame", c) => ConnectedBefore(c, j)'
    BY <1>1, <1>3, <1>5, <1>6 DEF OrderInv, FramesWhileConnected, IsOf
  <2>2. ConnectedBefore(b, Len(ingress) + 1)'
    BY <1>2, <1>6, AppendedItem DEF IsOf
  <2>3. \A c \in Brokers \ {b} :
          ConnectedBefore(c, Len(ingress) + 1) => ConnectedBefore(c, Len(ingress) + 1)'
    BY <1>2, <1>6, AppendedItem DEF IsOf
  <2>4. QED
    BY <1>1, <1>2, <2>1, <2>2, <2>3 DEF OrderInv, FramesWhileConnected
<1>13. NothingOvertaken'
  BY <1>1, <1>2, <1>3, <1>6 DEF OrderInv, NothingOvertaken, Positions
<1>14. QED
  BY <1>3, <1>8, <1>9, <1>10, <1>11, <1>12, <1>13 DEF OrderInv

\* End: the thread goes back to listening; the items ahead of it are unaffected.
LEMMA OrderSubmitEnd ==
  ASSUME Inv, NEW b \in Brokers, SubmitEnd(b)
  PROVE  OrderInv'
<1> DEFINE n    == Len(ingress)
           item == [type |-> "End", broker_id |-> b, generation |-> accepted[b]]
<1>1. TypeInv /\ OrderInv
  BY DEF Inv
<1>2. /\ Submit(item) /\ UNCHANGED <<engine, now, sample>> /\ item \in IngressItem
      /\ pc[b] = "end" /\ pc'[b] = "listen"
      /\ \A c \in Brokers \ {b} : pc'[c] = pc[c]
  BY <1>1, SubmittedItem DEF SubmitEnd, Goto, Attached, TypeInv, TypeOK
<1>3. /\ n \in Nat
      /\ Positions' = Positions \cup {n + 1} /\ Positions = 1 .. n
      /\ ingress'[n + 1] = item
      /\ \A i \in Positions : ingress'[i] = ingress[i]
      /\ UNCHANGED <<is_connected, watermark, pending_frames, current_watermark, phase,
                     last_merged, sample, now>>
      /\ PendingSorted' /\ WatermarkIsLeast'
  BY <1>2, AppendedItem
<1>4. \A t : \A i \in 1 .. n + 1 : NotBefore(t, i)' <=> NotBefore(t, i)
  BY <1>2, AppendedItem
<1>5. \A c : \A j \in 1 .. n + 1 : ConnectedBefore(c, j)' <=> ConnectedBefore(c, j)
  BY <1>2, AppendedItem
<1>6. ~Timed(item) /\ item.type = "End" /\ item.broker_id = b
  BY DEF Timed
<1>7. \A c \in Brokers : Holding(c)' <=> Holding(c)
  BY <1>2 DEF Holding
<1> HIDE DEF item
<1>8. ClockBound'
  BY <1>1, <1>3, <1>6 DEF OrderInv, ClockBound
<1>9. ChannelSorted'
  BY <1>1, <1>3, <1>6 DEF OrderInv, ChannelSorted
<1>10. SampleLast'
  BY <1>1, <1>3, <1>6, <1>7 DEF OrderInv, SampleLast
<1>11. FramesAfterConnect'
  <2>1. \A c \in Brokers : pc'[c] = "frames" <=> pc[c] = "frames"
    BY <1>2
  <2>2. \A i \in Positions : ingress[i].broker_id \in Brokers
    BY <1>1, Times
  <2>3. QED
    BY <1>1, <1>3, <1>4, <1>6, <2>1, <2>2 DEF OrderInv, FramesAfterConnect, IsOf
<1>12. FramesWhileConnected'
  <2>1. \A c \in Brokers, j \in Positions' :
          IsOf(ingress'[j], "Frame", c) => ConnectedBefore(c, j)'
    BY <1>1, <1>3, <1>5, <1>6 DEF OrderInv, FramesWhileConnected, IsOf
  <2>2. \A c \in Brokers \ {b} :
          ConnectedBefore(c, Len(ingress) + 1) => ConnectedBefore(c, Len(ingress) + 1)'
    BY <1>2, <1>6, AppendedItem DEF IsOf
  <2>3. QED
    BY <1>1, <1>2, <2>1, <2>2 DEF OrderInv, FramesWhileConnected
<1>13. NothingOvertaken'
  BY <1>1, <1>2, <1>3, <1>6 DEF OrderInv, NothingOvertaken, Positions
<1>14. QED
  BY <1>3, <1>8, <1>9, <1>10, <1>11, <1>12, <1>13 DEF OrderInv

\* A Progress or a Frame carries the thread's sample, which is no older than
\* anything of its broker that is ahead of it.
LEMMA OrderSubmitTimed ==
  ASSUME Inv, NEW b \in Brokers, SubmitFrame(b) \/ SubmitProgress(b)
  PROVE  OrderInv'
<1> DEFINE n == Len(ingress)
<1>1. TypeInv /\ OrderInv
  BY DEF Inv
<1>2. PICK item \in IngressItem :
        /\ Submit(item)
        /\ item.broker_id = b /\ Timed(item) /\ ItemTime(item) = sample[b]
        /\ item.type = "Frame" => item.frame.rx_mono_ns = sample[b] /\ pc[b] = "frames"
  <2>1. CASE SubmitFrame(b)
    BY <1>1, <2>1, SubmittedItem DEF SubmitFrame, SubmitSomeFrame, Goto, Timed, ItemTime
  <2>2. CASE SubmitProgress(b)
    BY <1>1, <2>2, SubmittedItem DEF SubmitProgress, Timed, ItemTime
  <2>3. QED
    BY <2>1, <2>2
<1>3. /\ UNCHANGED <<engine, now>> /\ Holding(b)
      /\ \A c \in Brokers \ {b} : pc'[c] = pc[c] /\ sample'[c] = sample[c]
      /\ pc'[b] = "frames" => pc[b] = "frames"
      /\ Holding(b)' => sample'[b] = sample[b]
      /\ sample'[b] \in {0, sample[b]}
      /\ pc'[b] \in {"read", "frames", "read_progress", "end"}
           => pc[b] \in {"read", "frames", "read_progress", "end"}
  BY <1>1 DEF SubmitFrame, SubmitProgress, Goto, Holding, TypeInv, TypeOK
<1>4. /\ n \in Nat
      /\ Positions' = Positions \cup {n + 1} /\ Positions = 1 .. n
      /\ ingress'[n + 1] = item
      /\ \A i \in Positions : ingress'[i] = ingress[i]
      /\ UNCHANGED <<is_connected, watermark, pending_frames, current_watermark, phase,
                     last_merged, now>>
      /\ PendingSorted' /\ WatermarkIsLeast'
  BY <1>2, <1>3, AppendedItem
<1>5. \A t : \A i \in 1 .. n + 1 : NotBefore(t, i)' <=> NotBefore(t, i)
  BY <1>2, <1>3, AppendedItem
<1>6. \A c : \A j \in 1 .. n + 1 : ConnectedBefore(c, j)' <=> ConnectedBefore(c, j)
  BY <1>2, <1>3, AppendedItem
<1>7. /\ watermark[b] <= sample[b] /\ sample[b] <= now
      /\ \A i \in Positions :
            Timed(ingress[i]) /\ ingress[i].broker_id = b => ItemTime(ingress[i]) <= sample[b]
  BY <1>1, <1>3 DEF OrderInv, SampleLast, ClockBound
<1>8. /\ sample[b] \in Nat /\ now \in Nat
      /\ \A i \in Positions : ingress[i].broker_id \in Brokers
  BY <1>1, Times
<1>9. ClockBound'
  BY <1>1, <1>2, <1>3, <1>4, <1>7, <1>8 DEF OrderInv, ClockBound
<1>10. ChannelSorted'
  BY <1>1, <1>2, <1>4, <1>7 DEF OrderInv, ChannelSorted
<1>11. SampleLast'
  <2>1. \A c \in Brokers : Holding(c)' => Holding(c) /\ sample'[c] = sample[c]
    BY <1>3 DEF Holding
  <2>2. QED
    BY <1>1, <1>2, <1>4, <1>7, <1>8, <2>1 DEF OrderInv, SampleLast
<1>12. FramesAfterConnect'
  <2>1. \A c \in Brokers : pc'[c] = "frames" => pc[c] = "frames" /\ sample'[c] = sample[c]
    BY <1>3 DEF Holding
  <2>2. \A i \in Positions : ingress[i].type = "Connected" /\ ingress[i].broker_id = b
          /\ item.type = "Frame" => NotBefore(ItemTime(item), i)
    BY <1>1, <1>2 DEF OrderInv, FramesAfterConnect
  <2>3. item.type # "Connected"
    BY <1>2 DEF Timed
  <2>4. QED
    BY <1>1, <1>2, <1>4, <1>5, <1>8, <2>1, <2>2, <2>3 DEF OrderInv, FramesAfterConnect, IsOf
<1>13. FramesWhileConnected'
  <2>1. item.type # "End"
    BY <1>2 DEF Timed
  <2>2. \A c \in Brokers :
          ConnectedBefore(c, Len(ingress) + 1) => ConnectedBefore(c, Len(ingress) + 1)'
    BY <1>2, <1>3, <2>1, AppendedItem DEF IsOf
  <2>3. item.type = "Frame" => ConnectedBefore(b, n + 1)
    BY <1>1, <1>2 DEF OrderInv, FramesWhileConnected
  <2>4. \A c \in Brokers, j \in Positions' :
          IsOf(ingress'[j], "Frame", c) => ConnectedBefore(c, j)'
    BY <1>1, <1>2, <1>4, <1>6, <2>3 DEF OrderInv, FramesWhileConnected, IsOf
  <2>5. \A c \in Brokers : pc'[c] \in {"read", "frames", "read_progress", "end"}
          => pc[c] \in {"read", "frames", "read_progress", "end"}
    BY <1>3
  <2>6. QED
    BY <1>1, <2>2, <2>4, <2>5 DEF OrderInv, FramesWhileConnected
<1>14. NothingOvertaken'
  <2>1. \A c \in Brokers : pc'[c] = "frames" => pc[c] = "frames" /\ sample'[c] = sample[c]
    BY <1>3 DEF Holding
  <2>2. \A i \in Positions' : ingress'[i].type = "Frame"
          => ingress'[i].frame.rx_mono_ns >= last_merged
    BY <1>1, <1>2, <1>4 DEF OrderInv, NothingOvertaken, Positions
  <2>3. QED
    BY <1>1, <1>4, <2>1, <2>2 DEF OrderInv, NothingOvertaken, Positions
<1>15. QED
  BY <1>4, <1>9, <1>10, <1>11, <1>12, <1>13, <1>14 DEF OrderInv

-----------------------------------------------------------------------------
(* The worker takes an item.                                                 *)

\* A frame joins a queue at its end.
LEMMA AppendedFrame ==
  ASSUME NEW q \in Seq(Frame), NEW f \in Frame, NEW r, r = Append(q, f)
  PROVE  /\ Len(q) \in Nat /\ Len(r) = Len(q) + 1
         /\ r[Len(q) + 1] = f
         /\ \A i \in 1 .. Len(q) : r[i] = q[i]
  OBVIOUS

\* What the four handlers have in common, h being the item: they put its time
\* into its broker's watermark, its frame behind the broker's queue, and connect
\* or disconnect nothing but its broker.
LEMMA HandledItem ==
  ASSUME Inv, TakeItem, NEW h, h = Head(ingress)
  PROVE  /\ h \in IngressItem /\ h.broker_id \in Brokers
         /\ \A c \in Brokers : watermark'[c] =
              IF Timed(h) /\ c = h.broker_id /\ ItemTime(h) > watermark[c]
              THEN ItemTime(h) ELSE watermark[c]
         /\ \A c \in Brokers : pending_frames'[c] =
              IF IsOf(h, "Frame", c) THEN Append(pending_frames[c], h.frame)
              ELSE pending_frames[c]
         /\ \A c \in Brokers : IsOf(h, "Connected", c) => is_connected'[c]
         /\ \A c \in Brokers :
              ~IsOf(h, "Connected", c) /\ ~IsOf(h, "End", c) => is_connected'[c] = is_connected[c]
         /\ last_merged' = last_merged
         /\ phase' = "overflow"
<1>1. /\ h \in IngressItem /\ OnIngressItem(h)
      /\ is_connected \in [Brokers -> BOOLEAN] /\ watermark \in [Brokers -> Time]
      /\ pending_frames \in [Brokers -> Seq(Frame)]
  BY TakeChannel DEF Inv, TypeInv, TypeOK, ChannelTypeOK, EngineTypeOK, TakeItem
<1>2. h.broker_id \in Brokers
  BY <1>1 DEF IngressItem, ConnectedItem, ProgressItem, FrameItem, EndItem
<1>3. CASE OnConnected(h)
  BY <1>1, <1>2, <1>3 DEF OnConnected, Handle, queues, IsOf, Timed
<1>4. CASE OnProgress(h)
  BY <1>1, <1>2, <1>4 DEF OnProgress, Handle, AdvanceWatermark, queues, IsOf, Timed, ItemTime
<1>5. CASE OnFrame(h)
  BY <1>1, <1>2, <1>5 DEF OnFrame, Handle, AdvanceWatermark, IsOf, Timed, ItemTime
<1>6. CASE OnEnd(h)
  BY <1>1, <1>2, <1>6 DEF OnEnd, Handle, queues, IsOf, Timed
<1>7. QED
  BY <1>1, <1>2, <1>3, <1>4, <1>5, <1>6 DEF OnIngressItem

LEMMA OrderTakeItem ==
  ASSUME Inv, TakeItem, UNCHANGED receivers
  PROVE  OrderInv'
<1> DEFINE n == Len(ingress)
           h == ingress[1]
           b == h.broker_id
<1>1. TypeInv /\ OrderInv
  BY DEF Inv
<1>2. /\ n \in Nat \ {0}
      /\ Positions = 1 .. n /\ Positions' = 1 .. n - 1
      /\ Len(ingress') = n - 1
      /\ \A i \in 1 .. n - 1 : ingress'[i] = ingress[i + 1]
      /\ h = Head(ingress)
      /\ UNCHANGED <<now, pc, sample>>
  BY <1>1, TakeChannel DEF TypeInv, TypeOK, Positions, receivers
<1>3. /\ h \in IngressItem /\ b \in Brokers
      /\ \A c \in Brokers : watermark'[c] =
           IF Timed(h) /\ c = b /\ ItemTime(h) > watermark[c]
           THEN ItemTime(h) ELSE watermark[c]
      /\ \A c \in Brokers : pending_frames'[c] =
           IF IsOf(h, "Frame", c) THEN Append(pending_frames[c], h.frame)
           ELSE pending_frames[c]
      /\ \A c \in Brokers : IsOf(h, "Connected", c) => is_connected'[c]
      /\ \A c \in Brokers :
           ~IsOf(h, "Connected", c) /\ ~IsOf(h, "End", c) => is_connected'[c] = is_connected[c]
      /\ last_merged' = last_merged
      /\ phase' = "overflow"
  BY <1>2, HandledItem
<1>4. /\ now \in Nat /\ last_merged \in Nat
      /\ \A c \in Brokers : watermark[c] \in Nat /\ sample[c] \in Nat
      /\ \A i \in Positions :
           /\ ingress[i].broker_id \in Brokers
           /\ Timed(ingress[i]) => ItemTime(ingress[i]) \in Nat
      /\ \A c \in Brokers : pending_frames[c] \in Seq(Frame)
  BY <1>1, Times DEF TypeInv, TypeOK, ChannelTypeOK, EngineTypeOK
<1>5. /\ 1 \in Positions
      /\ \A i \in Positions' : i + 1 \in Positions /\ 1 < i + 1 /\ ingress'[i] = ingress[i + 1]
  BY <1>2
<1>6. Timed(h) => watermark[b] <= ItemTime(h) /\ ItemTime(h) \in Nat /\ ItemTime(h) <= now
  BY <1>1, <1>4, <1>5 DEF OrderInv, ChannelSorted, ClockBound
<1>7. IsOf(h, "Frame", b) =>
        h.frame \in Frame /\ h.frame.rx_mono_ns = ItemTime(h) /\ Timed(h)
  BY <1>3 DEF IsOf, Timed, ItemTime, IngressItem, ConnectedItem, ProgressItem, FrameItem, EndItem
<1> HIDE DEF n, h, b
<1>8. PendingSorted'
  <2>1. SUFFICES ASSUME NEW c \in Brokers
                 PROVE  /\ \A i \in 1 .. Len(pending_frames'[c]) :
                              pending_frames'[c][i].rx_mono_ns <= watermark'[c]
                        /\ \A i, j \in 1 .. Len(pending_frames'[c]) : i <= j =>
                              pending_frames'[c][i].rx_mono_ns <= pending_frames'[c][j].rx_mono_ns
    BY DEF PendingSorted
  <2>2. /\ \A i \in 1 .. Len(pending_frames[c]) :
              /\ pending_frames[c][i].rx_mono_ns <= watermark[c]
              /\ pending_frames[c][i].rx_mono_ns \in Nat
        /\ \A i, j \in 1 .. Len(pending_frames[c]) : i <= j =>
              pending_frames[c][i].rx_mono_ns <= pending_frames[c][j].rx_mono_ns
    BY <1>1, Times DEF OrderInv, PendingSorted
  <2>3. watermark'[c] \in Nat /\ watermark[c] <= watermark'[c]
    BY <1>3, <1>4, <1>6
  <2>4. CASE IsOf(h, "Frame", c)
    <3>1. /\ c = b /\ Timed(h) /\ h.frame \in Frame
          /\ h.frame.rx_mono_ns = ItemTime(h) /\ watermark'[c] = ItemTime(h)
      BY <1>3, <1>4, <1>6, <1>7, <2>4 DEF IsOf, b
    <3>2. /\ Len(pending_frames'[c]) = Len(pending_frames[c]) + 1
          /\ \A i \in 1 .. Len(pending_frames[c]) : pending_frames'[c][i] = pending_frames[c][i]
          /\ pending_frames'[c][Len(pending_frames[c]) + 1] = h.frame
          /\ Len(pending_frames[c]) \in Nat
      <4>1. pending_frames'[c] = Append(pending_frames[c], h.frame)
        BY <1>3, <2>4
      <4>2. pending_frames[c] \in Seq(Frame) /\ h.frame \in Frame
        BY <1>4, <3>1
      <4>3. QED
        BY <4>1, <4>2, AppendedFrame
    <3>3. \A i \in 1 .. Len(pending_frames'[c]) :
            \/ /\ i \in 1 .. Len(pending_frames[c])
               /\ pending_frames'[c][i].rx_mono_ns = pending_frames[c][i].rx_mono_ns
               /\ pending_frames'[c][i].rx_mono_ns <= watermark[c]
               /\ pending_frames'[c][i].rx_mono_ns \in Nat
            \/ /\ i = Len(pending_frames[c]) + 1
               /\ pending_frames'[c][i].rx_mono_ns = watermark'[c]
      <4>1. TAKE i \in 1 .. Len(pending_frames'[c])
      <4>2. CASE i \in 1 .. Len(pending_frames[c])
        <5>1. pending_frames'[c][i] = pending_frames[c][i]
          BY <3>2, <4>2
        <5>2. QED
          BY <2>2, <4>2, <5>1
      <4>3. CASE i = Len(pending_frames[c]) + 1
        <5>1. pending_frames'[c][i] = h.frame
          BY <3>2, <4>3
        <5>2. QED
          BY <3>1, <4>3, <5>1
      <4>4. i \in 1 .. Len(pending_frames[c]) \/ i = Len(pending_frames[c]) + 1
        <5>1. i \in 1 .. Len(pending_frames[c]) + 1
          BY <3>2, <4>1
        <5>2. QED
          BY <3>2, <5>1
      <4>5. QED
        BY <4>2, <4>3, <4>4
    <3>4. watermark[c] \in Nat
      BY <1>4
    <3>5. \A i \in 1 .. Len(pending_frames'[c]) : pending_frames'[c][i].rx_mono_ns <= watermark'[c]
      BY <2>3, <3>3, <3>4
    <3>6. ASSUME NEW i \in 1 .. Len(pending_frames'[c]), NEW j \in 1 .. Len(pending_frames'[c]),
                 i <= j
          PROVE  pending_frames'[c][i].rx_mono_ns <= pending_frames'[c][j].rx_mono_ns
      <4>1. CASE j = Len(pending_frames[c]) + 1
        BY <3>2, <3>3, <3>5, <4>1
      <4>2. CASE j \in 1 .. Len(pending_frames[c])
        BY SMTT(30), <2>2, <3>2, <3>6, <4>2
      <4>3. QED
        BY <3>2, <4>1, <4>2
    <3>7. QED
      BY <3>5, <3>6
  <2>5. CASE ~IsOf(h, "Frame", c)
    BY SMTT(30), <1>3, <1>4, <2>2, <2>3, <2>5
  <2>6. QED
    BY <2>4, <2>5
<1>9. ClockBound'
  <2>1. \A c \in Brokers : watermark'[c] <= now
    BY <1>1, <1>3, <1>4, <1>6 DEF OrderInv, ClockBound
  <2>2. QED
    BY <1>1, <1>2, <1>3, <1>5, <2>1 DEF OrderInv, ClockBound
<1>10. \A i \in Positions' : Timed(ingress'[i]) =>
         watermark'[ingress'[i].broker_id] <= ItemTime(ingress'[i])
  <2>1. SUFFICES ASSUME NEW i \in Positions', Timed(ingress'[i])
                 PROVE  watermark'[ingress'[i].broker_id] <= ItemTime(ingress'[i])
    OBVIOUS
  <2>2. i + 1 \in Positions /\ Timed(ingress[i + 1]) /\ ingress'[i] = ingress[i + 1]
    BY <1>5, <2>1
  <2>3. watermark[ingress[i + 1].broker_id] <= ItemTime(ingress[i + 1])
    BY <1>1, <2>2 DEF OrderInv, ChannelSorted
  <2>4. Timed(h) /\ ingress[i + 1].broker_id = b => ItemTime(h) <= ItemTime(ingress[i + 1])
    BY <1>1, <1>5, <2>2 DEF OrderInv, ChannelSorted, h, b
  <2>5. QED
    BY <1>3, <1>4, <2>2, <2>3, <2>4
<1>11. ChannelSorted'
  <2>1. \A i, j \in Positions' : i < j /\ Timed(ingress'[i]) /\ Timed(ingress'[j])
          /\ ingress'[j].broker_id = ingress'[i].broker_id
          => ItemTime(ingress'[i]) <= ItemTime(ingress'[j])
    <3>1. \A i, j \in Positions' : i < j => i + 1 < j + 1
      BY <1>2
    <3>2. QED
      BY <1>1, <1>5, <3>1 DEF OrderInv, ChannelSorted
  <2>2. QED
    BY <1>10, <2>1 DEF ChannelSorted
<1>12. SampleLast'
  <2>1. \A c \in Brokers : Holding(c)' <=> Holding(c)
    BY <1>2 DEF Holding
  <2>2. \A c \in Brokers : Holding(c) => watermark'[c] <= sample[c]
    <3>1. Timed(h) /\ Holding(b) => ItemTime(h) <= sample[b]
      BY <1>1, <1>3, <1>5 DEF OrderInv, SampleLast, h, b
    <3>2. QED
      BY <1>1, <1>3, <3>1 DEF OrderInv, SampleLast
  <2>3. QED
    BY <1>1, <1>2, <1>5, <2>1, <2>2 DEF OrderInv, SampleLast
<1>13. WatermarkIsLeast'
  BY <1>3 DEF WatermarkIsLeast
<1>14. \A t : \A i \in Positions' : NotBefore(t, i + 1) => NotBefore(t, i)'
  <2>1. SUFFICES ASSUME NEW t, NEW i \in Positions', NotBefore(t, i + 1)
                 PROVE  /\ \A c \in Brokers : watermark'[c] <= t
                        /\ \A k \in 1 .. i - 1 : Timed(ingress'[k]) => ItemTime(ingress'[k]) <= t
    BY DEF NotBefore
  <2>2. /\ \A c \in Brokers : watermark[c] <= t
        /\ \A k \in 1 .. i : Timed(ingress[k]) => ItemTime(ingress[k]) <= t
        /\ i \in 1 .. n - 1
    BY <1>2, <2>1 DEF NotBefore
  <2>3. Timed(h) => ItemTime(h) <= t
    BY <1>2, <2>2 DEF h
  <2>4. \A k \in 1 .. i - 1 : k + 1 \in 1 .. i /\ ingress'[k] = ingress[k + 1]
    BY <1>2, <2>2
  <2>5. QED
    BY <1>3, <2>2, <2>3, <2>4
<1>15. FramesAfterConnect'
  <2>1. \A i, j \in Positions' : i < j => i + 1 < j + 1
    BY <1>2
  <2>2. QED
    BY <1>1, <1>2, <1>5, <1>14, <2>1 DEF OrderInv, FramesAfterConnect
<1>16. \A c \in Brokers : \A j \in 1 .. n : ConnectedBefore(c, j + 1) => ConnectedBefore(c, j)'
  <2>1. SUFFICES ASSUME NEW c \in Brokers, NEW j \in 1 .. n, ConnectedBefore(c, j + 1)
                 PROVE  ConnectedBefore(c, j)'
    OBVIOUS
  <2>2. \A k \in 1 .. j - 1 : k + 1 \in 2 .. j /\ ingress'[k] = ingress[k + 1]
    BY <1>2
  <2>3. CASE is_connected[c] /\ \A k \in 1 .. j : ~IsOf(ingress[k], "End", c)
    <3>1. is_connected'[c]
      BY <1>2, <1>3, <2>3 DEF h
    <3>2. \A k \in 1 .. j - 1 : ~IsOf(ingress'[k], "End", c)
      BY <1>2, <2>2, <2>3
    <3>3. QED
      BY <3>1, <3>2 DEF ConnectedBefore
  <2>4. ASSUME NEW i \in 1 .. j, IsOf(ingress[i], "Connected", c),
               \A k \in i + 1 .. j : ~IsOf(ingress[k], "End", c)
        PROVE  ConnectedBefore(c, j)'
    <3>1. CASE i = 1
      <4>1. is_connected'[c]
        BY <1>3, <2>4, <3>1 DEF h
      <4>2. \A k \in 1 .. j - 1 : ~IsOf(ingress'[k], "End", c)
        BY <1>2, <2>2, <2>4, <3>1
      <4>3. QED
        BY <4>1, <4>2 DEF ConnectedBefore
    <3>2. CASE i > 1
      <4>1. i - 1 \in 1 .. j - 1 /\ ingress'[i - 1] = ingress[i]
        BY <1>2, <2>2, <3>2
      <4>2. \A k \in i .. j - 1 : ~IsOf(ingress'[k], "End", c)
        BY <1>2, <2>2, <2>4, <3>2
      <4>3. QED
        BY <2>4, <4>1, <4>2 DEF ConnectedBefore
    <3>3. QED
      BY <3>1, <3>2
  <2>5. QED
    BY <1>2, <2>1, <2>3, <2>4 DEF ConnectedBefore
<1>17. FramesWhileConnected'
  <2>1. Positions' \subseteq 1 .. n /\ n \in 1 .. n /\ Len(ingress') + 1 = n
    BY <1>2
  <2>2. \A c \in Brokers, j \in Positions' :
          IsOf(ingress'[j], "Frame", c) => ConnectedBefore(c, j)'
    BY <1>1, <1>5, <1>16, <2>1 DEF OrderInv, FramesWhileConnected
  <2>3. \A c \in Brokers : ConnectedBefore(c, n + 1) => ConnectedBefore(c, Len(ingress) + 1)'
    BY <1>16, <2>1
  <2>4. QED
    BY <1>1, <1>2, <2>2, <2>3 DEF OrderInv, FramesWhileConnected, n
<1>18. NothingOvertaken'
  <2>1. IsOf(h, "Frame", b) => h.frame.rx_mono_ns >= last_merged
    BY <1>1, <1>2, <1>3 DEF OrderInv, NothingOvertaken, IsOf, h, n
  <2>2. \A c \in Brokers : \A i \in 1 .. Len(pending_frames'[c]) :
          pending_frames'[c][i].rx_mono_ns >= last_merged
    <3>1. SUFFICES ASSUME NEW c \in Brokers, NEW i \in 1 .. Len(pending_frames'[c])
                   PROVE  pending_frames'[c][i].rx_mono_ns >= last_merged
      OBVIOUS
    <3>2. \A k \in 1 .. Len(pending_frames[c]) : pending_frames[c][k].rx_mono_ns >= last_merged
      BY <1>1 DEF OrderInv, NothingOvertaken
    <3>3. CASE IsOf(h, "Frame", c)
      <4>1. c = b /\ h.frame \in Frame
        BY <1>7, <3>3 DEF IsOf, b
      <4>2. pending_frames'[c] = Append(pending_frames[c], h.frame)
        BY <1>3, <3>3
      <4>3. QED
        BY <1>4, <2>1, <3>1, <3>2, <3>3, <4>1, <4>2
    <3>4. CASE ~IsOf(h, "Frame", c)
      BY <1>3, <3>1, <3>2, <3>4
    <3>5. QED
      BY <3>3, <3>4
  <2>3. \A i \in 1 .. Len(ingress') : ingress'[i].type = "Frame"
          => ingress'[i].frame.rx_mono_ns >= last_merged
    BY <1>1, <1>2, <1>3 DEF OrderInv, NothingOvertaken, n
  <2>4. QED
    BY <1>1, <1>2, <1>3, <2>2, <2>3 DEF OrderInv, NothingOvertaken
<1>19. QED
  BY <1>8, <1>9, <1>11, <1>12, <1>13, <1>15, <1>17, <1>18 DEF OrderInv

-----------------------------------------------------------------------------
(* Steps of the handler's loops.                                             *)

\* A step that changes the queues and the merge only: what is left to show are
\* the parts that speak of them.
LEMMA OrderEngineStep ==
  ASSUME Inv, UNCHANGED <<is_connected, watermark, ingress, now, receivers>>,
         PendingSorted', WatermarkIsLeast', last_merged' <= now,
         \A c \in Brokers : \A i \in 1 .. Len(pending_frames'[c]) :
           pending_frames'[c][i].rx_mono_ns >= last_merged',
         \A i \in Positions :
           ingress[i].type = "Frame" => ingress[i].frame.rx_mono_ns >= last_merged',
         \A c \in Brokers : pc[c] = "frames" => sample[c] >= last_merged'
  PROVE  OrderInv'
<1>1. OrderInv /\ UNCHANGED <<pc, sample, Positions>>
  BY DEF Inv, receivers, Positions
<1>2. ClockBound' /\ ChannelSorted' /\ SampleLast'
  BY <1>1 DEF OrderInv, ClockBound, ChannelSorted, SampleLast, Holding
<1>3. \A t, i : NotBefore(t, i)' <=> NotBefore(t, i)
  BY DEF NotBefore
<1>4. FramesAfterConnect'
  BY <1>1, <1>3 DEF OrderInv, FramesAfterConnect
<1>5. \A c, j : ConnectedBefore(c, j)' <=> ConnectedBefore(c, j)
  BY DEF ConnectedBefore
<1>6. FramesWhileConnected'
  BY <1>1, <1>5 DEF OrderInv, FramesWhileConnected
<1>7. NothingOvertaken'
  BY <1>1 DEF NothingOvertaken, Positions
<1>8. QED
  BY <1>2, <1>4, <1>6, <1>7 DEF OrderInv

\* A step that changes neither the queues nor what the merge released.
LEMMA OrderQueuesAlone ==
  ASSUME Inv, WatermarkIsLeast',
         UNCHANGED <<is_connected, watermark, pending_frames, last_merged, ingress, now, receivers>>
  PROVE  OrderInv'
<1>1. OrderInv /\ UNCHANGED pc /\ UNCHANGED sample
  BY DEF Inv, receivers
<1>2. PendingSorted' /\ NothingOvertaken'
  BY <1>1 DEF OrderInv, PendingSorted, NothingOvertaken
<1>3. ClockBound' /\ ChannelSorted' /\ SampleLast'
  BY <1>1 DEF OrderInv, ClockBound, ChannelSorted, SampleLast, Holding, Positions
<1>4. \A t, i : NotBefore(t, i)' <=> NotBefore(t, i)
  BY DEF NotBefore
<1>5. FramesAfterConnect'
  BY <1>1, <1>4 DEF OrderInv, FramesAfterConnect, Positions
<1>6. \A c, j : ConnectedBefore(c, j)' <=> ConnectedBefore(c, j)
  BY DEF ConnectedBefore
<1>7. FramesWhileConnected'
  BY <1>1, <1>6 DEF OrderInv, FramesWhileConnected, Positions
<1>8. QED
  BY <1>2, <1>3, <1>5, <1>7 DEF OrderInv

\* Taking the oldest frame of a queue leaves every queue sorted, and every frame
\* that is left was in a queue before.
LEMMA ProcessFrontOrder ==
  ASSUME Inv, UNCHANGED watermark, NEW b \in Brokers, pending_frames[b] # << >>, ProcessFront(b)
  PROVE  /\ PendingSorted'
         /\ \A c \in Brokers : \A i \in 1 .. Len(pending_frames'[c]) :
              \E k \in 1 .. Len(pending_frames[c]) :
                pending_frames'[c][i] = pending_frames[c][k]
<1>1. EngineTypeOK /\ PendingSorted
  BY DEF Inv, TypeInv, TypeOK, ChannelTypeOK, OrderInv
<1>2. /\ Len(pending_frames'[b]) = Len(pending_frames[b]) - 1
      /\ \A i \in 1 .. Len(pending_frames'[b]) : pending_frames'[b][i] = pending_frames[b][i + 1]
      /\ \A c \in Brokers \ {b} : pending_frames'[c] = pending_frames[c]
      /\ Len(pending_frames[b]) \in Nat
  BY <1>1, ProcessFrontTypes DEF EngineTypeOK
<1>3. \A i \in 1 .. Len(pending_frames'[b]) : i + 1 \in 1 .. Len(pending_frames[b])
  BY <1>2
<1>4. \A c \in Brokers : \A i \in 1 .. Len(pending_frames'[c]) :
        \E k \in 1 .. Len(pending_frames[c]) : pending_frames'[c][i] = pending_frames[c][k]
  BY <1>2, <1>3
<1>5. ASSUME NEW c \in Brokers
      PROVE  /\ \A i \in 1 .. Len(pending_frames'[c]) :
                   pending_frames'[c][i].rx_mono_ns <= watermark[c]
             /\ \A i, j \in 1 .. Len(pending_frames'[c]) : i <= j =>
                   pending_frames'[c][i].rx_mono_ns <= pending_frames'[c][j].rx_mono_ns
  <2>1. CASE c = b
    <3>1. \A i, j \in 1 .. Len(pending_frames'[b]) : i <= j => i + 1 <= j + 1
      BY <1>2
    <3>2. QED
      BY ZenonT(30), <1>1, <1>2, <1>3, <2>1, <3>1 DEF PendingSorted
  <2>2. CASE c # b
    BY <1>1, <1>2, <2>2 DEF PendingSorted
  <2>3. QED
    BY <2>1, <2>2
<1>6. QED
  BY <1>4, <1>5 DEF PendingSorted

LEMMA OrderForceDrain ==
  ASSUME Inv, ForceDrain, UNCHANGED <<ingress, now, receivers>>
  PROVE  OrderInv'
<1> DEFINE b == current_item.broker_id
<1>1. /\ b \in Brokers /\ pending_frames[b] # << >> /\ ProcessFront(b)
      /\ UNCHANGED <<is_connected, watermark, last_merged>> /\ phase' = "overflow"
  BY DEF ForceDrain, channels, Inv, TypeInv, TypeOK, ChannelTypeOK, EngineTypeOK
<1>2. /\ PendingSorted'
      /\ \A c \in Brokers : \A i \in 1 .. Len(pending_frames'[c]) :
           \E k \in 1 .. Len(pending_frames[c]) : pending_frames'[c][i] = pending_frames[c][k]
  BY <1>1, ProcessFrontOrder
<1>3. WatermarkIsLeast'
  BY <1>1 DEF WatermarkIsLeast
<1>4. NothingOvertaken /\ last_merged <= now
  BY DEF Inv, OrderInv, ClockBound
<1>5. QED
  BY <1>1, <1>2, <1>3, <1>4, OrderEngineStep DEF NothingOvertaken, Positions

LEMMA OrderStartMerge ==
  ASSUME Inv, StartMerge, UNCHANGED <<ingress, now, receivers>>
  PROVE  OrderInv'
<1>1. UNCHANGED <<is_connected, watermark, pending_frames, last_merged>>
  BY DEF StartMerge, channels, queues
<1>2. WatermarkIsLeast'
  BY <1>1 DEF StartMerge, IsGlobalWatermark, WatermarkIsLeast
<1>3. QED
  BY <1>1, <1>2, OrderQueuesAlone

LEMMA OrderFinishItem ==
  ASSUME Inv, FinishItem, UNCHANGED <<ingress, now, receivers>>
  PROVE  OrderInv'
<1>1. UNCHANGED <<is_connected, watermark, pending_frames, last_merged>> /\ phase' = "idle"
  BY DEF FinishItem, channels, queues
<1>2. WatermarkIsLeast'
  BY <1>1 DEF WatermarkIsLeast
<1>3. QED
  BY <1>1, <1>2, OrderQueuesAlone

\* The heart of it: when a live frame received at r is released, no frame that
\* is queued, in the channel or held by a thread was received before r.
LEMMA NothingOlder ==
  ASSUME Inv, NEW b \in Brokers, MergeFront(b), ~Head(pending_frames[b]).warmup,
         NEW r, r = Head(pending_frames[b]).rx_mono_ns
  PROVE  /\ r \in Nat /\ last_merged <= r /\ r <= now
         /\ \A c \in Brokers : \A i \in 1 .. Len(pending_frames[c]) :
              pending_frames[c][i].rx_mono_ns >= r
         /\ \A i \in Positions :
              ingress[i].type = "Frame" => ingress[i].frame.rx_mono_ns >= r
         /\ \A c \in Brokers : pc[c] = "frames" => sample[c] >= r
<1>1. TypeInv /\ OrderInv
  BY DEF Inv
<1>2. /\ pending_frames[b] # << >> /\ phase = "merge" /\ r <= current_watermark
      /\ \A c \in Brokers : Mergeable(c) => Precedes(b, c)
  BY DEF MergeFront, Mergeable
<1>3. \A c \in Brokers :
        /\ Len(pending_frames[c]) \in Nat
        /\ pending_frames[c] # << >> =>
             /\ 1 \in 1 .. Len(pending_frames[c])
             /\ Head(pending_frames[c]) = pending_frames[c][1]
             /\ Head(pending_frames[c]) \in Frame
        /\ pending_frames[c] = << >> => 1 .. Len(pending_frames[c]) = {}
  <2>1. ASSUME NEW q \in Seq(Frame)
        PROVE  /\ Len(q) \in Nat
               /\ q # << >> => 1 \in 1 .. Len(q) /\ Head(q) = q[1] /\ Head(q) \in Frame
               /\ q = << >> => 1 .. Len(q) = {}
    OBVIOUS
  <2>2. \A c \in Brokers : pending_frames[c] \in Seq(Frame)
    BY <1>1 DEF TypeInv, TypeOK, ChannelTypeOK, EngineTypeOK
  <2>3. QED
    BY <2>1, <2>2
<1>4. r \in Nat \ {0}
  BY <1>2, <1>3, BoundAssumption DEF Frame, Time
<1>5. /\ current_watermark \in Nat /\ now \in Nat /\ last_merged \in Nat
      /\ \A c \in Brokers : watermark[c] \in Nat /\ sample[c] \in Nat
      /\ \A c \in Brokers : \A i \in 1 .. Len(pending_frames[c]) :
           pending_frames[c][i].rx_mono_ns \in Nat
      /\ \A i \in Positions :
           /\ ingress[i].broker_id \in Brokers
           /\ Timed(ingress[i]) => ItemTime(ingress[i]) \in Nat
  BY <1>1, Times
<1>6. r <= watermark[b] /\ r <= now
  BY <1>1, <1>2, <1>3, <1>4, <1>5 DEF OrderInv, PendingSorted, ClockBound
<1>7. last_merged <= r
  BY <1>1, <1>2, <1>3 DEF OrderInv, NothingOvertaken
<1>8. \A c \in Brokers : \A i \in 1 .. Len(pending_frames[c]) : pending_frames[c][i].rx_mono_ns >= r
  <2>1. SUFFICES ASSUME NEW c \in Brokers, NEW i \in 1 .. Len(pending_frames[c])
                 PROVE  pending_frames[c][i].rx_mono_ns >= r
    OBVIOUS
  <2>2. pending_frames[c] # << >> /\ 1 \in 1 .. Len(pending_frames[c])
    BY <1>3, <2>1
  <2>3. Head(pending_frames[c]).rx_mono_ns >= r
    <3>1. Head(pending_frames[c]).rx_mono_ns \in Nat
      BY <1>3, <1>5, <2>2
    <3>2. CASE Mergeable(c)
      <4>1. MergeTime(b) = r /\ MergeTime(b) <= MergeTime(c)
        BY <1>2, <1>4, <3>1, <3>2 DEF Precedes, MergeTime
      <4>2. QED
        BY <1>4, <3>1, <4>1 DEF MergeTime
    <3>3. CASE ~Mergeable(c)
      BY <1>2, <1>4, <1>5, <2>2, <3>1, <3>3 DEF Mergeable
    <3>4. QED
      BY <3>2, <3>3
  <2>4. pending_frames[c][1].rx_mono_ns <= pending_frames[c][i].rx_mono_ns
    <3>1. 1 <= i
      BY <1>3, <2>1
    <3>2. QED
      BY <1>1, <2>1, <2>2, <3>1 DEF OrderInv, PendingSorted
  <2>5. pending_frames[c][1].rx_mono_ns \in Nat /\ pending_frames[c][i].rx_mono_ns \in Nat
    BY <1>5, <2>1, <2>2
  <2>6. pending_frames[c][1].rx_mono_ns >= r
    BY <1>3, <2>2, <2>3
  <2>7. QED
    BY <1>4, <2>4, <2>5, <2>6
<1>9. \A c \in Brokers : is_connected[c] => r <= watermark[c]
  BY <1>1, <1>2, <1>4, <1>5 DEF OrderInv, WatermarkIsLeast
<1>10. \A t : \A i \in Nat : NotBefore(t, i) => watermark[b] <= t
  BY DEF NotBefore
<1>11. ASSUME NEW i \in Positions, ingress[i].type = "Frame"
       PROVE  ingress[i].frame.rx_mono_ns >= r
  <2> DEFINE c == ingress[i].broker_id
  <2>1. /\ c \in Brokers /\ Timed(ingress[i]) /\ ItemTime(ingress[i]) \in Nat
        /\ ItemTime(ingress[i]) = ingress[i].frame.rx_mono_ns
        /\ IsOf(ingress[i], "Frame", c)
    BY <1>5, <1>11 DEF Timed, ItemTime, IsOf
  <2>2. ConnectedBefore(c, i)
    BY <1>1, <2>1 DEF OrderInv, FramesWhileConnected
  <2>3. CASE is_connected[c]
    <3>1. watermark[c] <= ItemTime(ingress[i])
      BY <1>1, <2>1 DEF OrderInv, ChannelSorted
    <3>2. QED
      BY <1>4, <1>5, <1>9, <2>1, <2>3, <3>1
  <2>4. CASE \E k \in 1 .. i - 1 : IsOf(ingress[k], "Connected", c)
    <3>1. PICK k \in 1 .. i - 1 : IsOf(ingress[k], "Connected", c)
      BY <2>4
    <3>2. k \in Positions /\ k < i /\ k \in Nat
      BY <1>1, <3>1, Times DEF Positions
    <3>3. NotBefore(ItemTime(ingress[i]), k)
      BY <1>1, <2>1, <3>1, <3>2 DEF OrderInv, FramesAfterConnect, IsOf
    <3>4. QED
      BY <1>4, <1>5, <1>6, <1>10, <2>1, <3>2, <3>3
  <2>5. QED
    BY <2>2, <2>3, <2>4 DEF ConnectedBefore
<1>12. ASSUME NEW c \in Brokers, pc[c] = "frames"
       PROVE  sample[c] >= r
  <2>1. ConnectedBefore(c, Len(ingress) + 1)
    BY <1>1, <1>12 DEF OrderInv, FramesWhileConnected
  <2>2. CASE is_connected[c]
    <3>1. watermark[c] <= sample[c]
      BY <1>1, <1>12 DEF OrderInv, SampleLast, Holding
    <3>2. QED
      BY <1>4, <1>5, <1>9, <2>2, <3>1
  <2>3. CASE \E k \in 1 .. Len(ingress) : IsOf(ingress[k], "Connected", c)
    <3>1. PICK k \in Positions : IsOf(ingress[k], "Connected", c)
      BY <2>3 DEF Positions
    <3>2. NotBefore(sample[c], k) /\ k \in Nat
      BY <1>1, <1>12, <3>1, Times DEF OrderInv, FramesAfterConnect, IsOf, Positions
    <3>3. QED
      BY <1>4, <1>5, <1>6, <1>10, <3>2
  <2>4. Len(ingress) \in Nat
    BY <1>1, Times
  <2>5. QED
    BY <2>1, <2>2, <2>3, <2>4 DEF ConnectedBefore
<1>13. QED
  BY <1>4, <1>6, <1>7, <1>8, <1>11, <1>12

LEMMA OrderMergeFront ==
  ASSUME Inv, NEW b \in Brokers, MergeFront(b), UNCHANGED <<ingress, now, receivers>>
  PROVE  OrderInv'
<1>1. /\ pending_frames[b] # << >> /\ ProcessFront(b)
      /\ UNCHANGED <<is_connected, watermark, current_watermark>>
      /\ last_merged' = IF Head(pending_frames[b]).warmup THEN last_merged
                        ELSE Head(pending_frames[b]).rx_mono_ns
  BY DEF MergeFront, Mergeable, channels
<1>2. /\ PendingSorted'
      /\ \A c \in Brokers : \A i \in 1 .. Len(pending_frames'[c]) :
           \E k \in 1 .. Len(pending_frames[c]) : pending_frames'[c][i] = pending_frames[c][k]
  BY <1>1, ProcessFrontOrder
<1>3. WatermarkIsLeast'
  BY <1>1 DEF Inv, OrderInv, WatermarkIsLeast, MergeFront
<1>4. /\ last_merged' <= now
      /\ \A c \in Brokers : \A i \in 1 .. Len(pending_frames[c]) :
           pending_frames[c][i].rx_mono_ns >= last_merged'
      /\ \A i \in Positions :
           ingress[i].type = "Frame" => ingress[i].frame.rx_mono_ns >= last_merged'
      /\ \A c \in Brokers : pc[c] = "frames" => sample[c] >= last_merged'
  <2>1. CASE Head(pending_frames[b]).warmup
    BY <1>1, <2>1 DEF Inv, OrderInv, ClockBound, NothingOvertaken, Positions
  <2>2. CASE ~Head(pending_frames[b]).warmup
    BY <1>1, <2>2, NothingOlder
  <2>3. QED
    BY <2>1, <2>2
<1>5. QED
  BY <1>1, <1>2, <1>3, <1>4, OrderEngineStep

-----------------------------------------------------------------------------
LEMMA OrderNext == Inv /\ [Next]_vars => OrderInv'
<1> SUFFICES ASSUME Inv, [Next]_vars PROVE OrderInv'
  OBVIOUS
<1>1. CASE Tick
  BY <1>1, OrderTick
<1>2. CASE \E b \in Brokers : Receiver(b)
  <2>1. PICK b \in Brokers : Receiver(b)
    BY <1>2
  <2>2. QED
    BY <2>1, OrderQuietReceiver, OrderSubmitConnected, OrderSubmitTimed, OrderSubmitEnd DEF Receiver
<1>3. CASE TakeItem /\ UNCHANGED receivers
  BY <1>3, OrderTakeItem
<1>4. CASE Drain /\ UNCHANGED receivers
  BY <1>4, OrderForceDrain, OrderStartMerge, OrderMergeFront, OrderFinishItem DEF Drain, DrainStep
<1>5. CASE UNCHANGED vars
  <2>1. UNCHANGED <<is_connected, watermark, pending_frames, current_watermark, phase,
                    last_merged, ingress, now, receivers>>
    BY <1>5 DEF vars, engine, channels, queues
  <2>2. WatermarkIsLeast'
    BY <2>1 DEF Inv, OrderInv, WatermarkIsLeast
  <2>3. QED
    BY <2>1, <2>2, OrderQueuesAlone
<1>6. QED
  BY <1>1, <1>2, <1>3, <1>4, <1>5 DEF Next, Worker

LEMMA OrderInvariant == Spec => []Inv
<1>1. Init => Inv
  BY TypeInvInit, OrderInit DEF Inv
<1>2. Inv /\ [Next]_vars => Inv'
  BY TypeInvNext, OrderNext DEF Inv
<1>3. QED
  BY <1>1, <1>2, PTL DEF Spec

\* No live frame that is still on its way is older than what the merge has
\* released: the watermark a broker reports is never ahead of its own frames.
THEOREM NothingIsOvertaken == Spec => []NothingOvertaken
<1>1. Inv => NothingOvertaken
  BY DEF Inv, OrderInv
<1>2. QED
  BY <1>1, OrderInvariant, PTL

\* The merge releases live frames in the order they were received, whatever the
\* receivers, the reconnections, the channel and the brokers' speeds.
THEOREM ReceiveOrder == Spec => MergeInReceiveOrder
<1>1. Inv /\ [Next]_vars => [last_merged' >= last_merged]_last_merged
  <2> SUFFICES ASSUME Inv, [Next]_vars, last_merged' # last_merged
               PROVE  last_merged' >= last_merged
    OBVIOUS
  <2>1. PICK b \in Brokers : MergeFront(b)
    BY DEF Next, Worker, Tick, AdvanceClock, Receiver, Accept, SubmitConnected, Read,
       SubmitFrame, IdleSample, SubmitProgress, CloseConnection, SubmitEnd, TakeItem,
       OnIngressItem, OnConnected, OnProgress, OnFrame, OnEnd, Handle, Drain, DrainStep,
       ForceDrain, StartMerge, FinishItem, vars, engine
  <2>2. /\ ~Head(pending_frames[b]).warmup
        /\ last_merged' = Head(pending_frames[b]).rx_mono_ns
    BY <2>1 DEF MergeFront
  <2>3. last_merged <= Head(pending_frames[b]).rx_mono_ns
    BY <2>1, <2>2, NothingOlder
  <2>4. QED
    BY <2>2, <2>3, Times, NothingOlder, <2>1 DEF Inv
<1>2. QED
  BY <1>1, OrderInvariant, PTL DEF Spec, MergeInReceiveOrder
=============================================================================
