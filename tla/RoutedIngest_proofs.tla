-------------------------- MODULE RoutedIngest_proofs --------------------------
(***************************************************************************)
(* Proofs about RoutedIngest, for every set of brokers, every number of      *)
(* connections and whichever failures of try_clone and spawn: types, the     *)
(* frame budget, the takeover and who ends a connected channel.              *)
(***************************************************************************)
EXTENDS RoutedIngest, TickMerge_proofs

\* What a connection thread holds at each point of its program, and where the
\* generations end that the router has handed out.
ThreadInv ==
  \A c \in Connections :
    /\ pc[c] = "frames" => decoded[c] >= 1 /\ sample[c] >= 1
    /\ c[2] > generations[c[1]] => pc[c] = "none"

TypeInv == TypeOK /\ BudgetInv /\ ThreadInv

-----------------------------------------------------------------------------
LEMMA ConnectionFacts ==
  /\ \A c \in Connections : c[1] \in Brokers /\ c[2] \in Generations /\ c = <<c[1], c[2]>>
  /\ \A b \in Brokers, g \in Generations : <<b, g>> \in Connections
  /\ Generations \subseteq Nat \ {0} /\ Generations \subseteq 0 .. MaxGeneration
  /\ 0 .. MaxGeneration \subseteq Nat /\ 0 \in 0 .. MaxGeneration
  BY BoundAssumption DEF Connections, Generations

\* The items the threads and the router submit are well-formed.
LEMMA SubmittedItem ==
  ASSUME TypeInv
  PROVE  /\ \A c \in Connections :
              /\ [type |-> "Connected", broker_id |-> c[1], generation |-> c[2]] \in IngressItem
              /\ [type |-> "End", broker_id |-> c[1], generation |-> c[2]] \in IngressItem
              /\ [type |-> "Progress", broker_id |-> c[1], watermark_ns |-> sample[c]] \in IngressItem
         /\ \A b \in Brokers :
              [type |-> "Progress", broker_id |-> b, watermark_ns |-> router_sample[b]] \in IngressItem
         /\ \A c \in Connections : pc[c] = "frames" =>
              \A len \in WireLens, w \in WarmupFlags, p \in Payloads :
                [ type |-> "Frame", broker_id |-> c[1],
                  frame |-> [ broker_id |-> c[1], rx_mono_ns |-> sample[c],
                              wire_len |-> len, warmup |-> w, payload |-> p ] ] \in IngressItem
<1>1. \A c \in Connections : c[1] \in Brokers /\ c[2] \in 1 .. MaxGeneration
  BY ConnectionFacts DEF Generations
<1>2. \A c \in Connections : sample[c] \in Time /\ (pc[c] = "frames" => sample[c] \in Time \ {0})
  BY DEF TypeInv, TypeOK, ThreadInv
<1>3. \A b \in Brokers : router_sample[b] \in Time
  BY DEF TypeInv, TypeOK
<1>4. QED
  BY <1>1, <1>2, <1>3 DEF IngressItem, ConnectedItem, ProgressItem, EndItem, FrameItem, Frame

-----------------------------------------------------------------------------
LEMMA TypeInvInit == Init => TypeInv
<1> SUFFICES ASSUME Init PROVE TypeInv
  OBVIOUS
<1>1. EngineInv
  BY EngineInitInv DEF Init, ChannelInit
<1>2. ChannelTypeOK
  BY <1>1, CapacityType, BoundAssumption DEF Init, ChannelInit, ChannelTypeOK, EngineInv, Time
<1>3. TypeOK
  BY <1>2, BoundAssumption, ReadAssumption DEF Init, TypeOK, PC, Time
<1>4. ThreadInv
  BY DEF Init, ThreadInv
<1>5. QED
  BY <1>1, <1>3, <1>4 DEF TypeInv, EngineInv

\* The variables of the threads, and of the router.
ThreadTypes ==
  /\ pc \in [Connections -> PC]
  /\ sample \in [Connections -> Time]
  /\ decoded \in [Connections -> 0 .. MaxFramesPerRead]
  /\ reads \in [Connections -> 0 .. MaxReads]

RouterTypes ==
  /\ generations \in [Brokers -> 0 .. MaxGeneration]
  /\ active_generations \in [Brokers -> 0 .. MaxGeneration]
  /\ active_sockets \in [Brokers -> 0 .. MaxGeneration]
  /\ shut \subseteq Connections
  /\ to_report \subseteq Brokers
  /\ router_sample \in [Brokers -> Time]

\* A step that leaves the engine alone and submits at most one item.
LEMMA SubmissionKeepsTypes ==
  ASSUME TypeInv, now' = now, UNCHANGED engine,
         ingress' = ingress \/ \E item \in IngressItem : Submit(item),
         ThreadTypes', RouterTypes', ThreadInv'
  PROVE  TypeInv'
<1>1. EngineInv'
  BY EngineUnchangedInv DEF TypeInv, TypeOK, ChannelTypeOK, EngineInv
<1>2. ingress' \in Seq(IngressItem) /\ Len(ingress') <= IngressCapacity
  BY SubmitChannel DEF TypeInv, TypeOK, ChannelTypeOK
<1>3. ChannelTypeOK'
  BY <1>1, <1>2 DEF TypeInv, TypeOK, ChannelTypeOK, EngineInv
<1>4. QED
  BY <1>1, <1>3 DEF TypeInv, TypeOK, ThreadTypes, RouterTypes, EngineInv

LEMMA TypeInvRouter ==
  ASSUME TypeInv, Router
  PROVE  TypeInv'
<1>1. /\ ThreadTypes /\ RouterTypes /\ ThreadInv /\ now \in Time /\ 0 \in Time
  BY BoundAssumption DEF TypeInv, TypeOK, ChannelTypeOK, ThreadTypes, RouterTypes, Time
<1>2. ASSUME NEW b \in Brokers, Route(b) PROVE TypeInv'
  <2> DEFINE g == generations[b] + 1
  <2>1. g \in Generations /\ <<b, g>> \in Connections
    BY <1>1, <1>2, ConnectionFacts DEF Route, RouterTypes, Generations
  <2>2. /\ generations' = [generations EXCEPT ![b] = g]
        /\ UNCHANGED <<engine, now, ingress, sample, decoded, reads, router>>
        /\ \E spawned \in BOOLEAN : pc' = [pc EXCEPT ![<<b, g>>] = IF spawned THEN "connected" ELSE "done"]
    BY <1>2, OutcomeAssumption DEF Route
  <2>3. /\ active_generations' \in [Brokers -> 0 .. MaxGeneration]
        /\ active_sockets' \in [Brokers -> 0 .. MaxGeneration]
    BY <1>1, <1>2, <2>1, ConnectionFacts DEF Route, RouterTypes
  <2>4. shut' \subseteq Connections
    <3>1. active_sockets[b] # 0 => <<b, active_sockets[b]>> \in Connections
      BY <1>1, ConnectionFacts DEF RouterTypes, Generations
    <3>2. QED
      BY <1>1, <1>2, <3>1 DEF Route, RouterTypes
  <2>5. ThreadTypes' /\ RouterTypes'
    BY <1>1, <2>1, <2>2, <2>3, <2>4, ConnectionFacts DEF ThreadTypes, RouterTypes, PC, router
  <2>6. ThreadInv'
    <3> SUFFICES ASSUME NEW c \in Connections
                 PROVE  /\ pc'[c] = "frames" => decoded[c] >= 1 /\ sample[c] >= 1
                        /\ c[2] > generations'[c[1]] => pc'[c] = "none"
      BY <2>2 DEF ThreadInv
    <3>1. CASE c = <<b, g>>
      <4>1. generations'[b] = g /\ c[1] = b /\ c[2] = g /\ ~(g > g)
        BY <1>1, <2>1, <2>2, <3>1, ConnectionFacts DEF RouterTypes
      <4>2. pc'[c] \in {"connected", "done"}
        BY <1>1, <2>1, <2>2, <3>1 DEF ThreadTypes
      <4>3. QED
        BY <4>1, <4>2
    <3>2. CASE c # <<b, g>>
      <4>1. pc'[c] = pc[c]
        BY <1>1, <2>1, <2>2, <3>2 DEF ThreadTypes
      <4>2. c[2] > generations'[c[1]] => c[2] > generations[c[1]]
        BY <1>1, <2>1, <2>2, ConnectionFacts DEF RouterTypes
      <4>3. QED
        BY <1>1, <4>1, <4>2 DEF ThreadInv
    <3>3. QED
      BY <3>1, <3>2
  <2>7. QED
    BY <2>2, <2>5, <2>6, SubmissionKeepsTypes
<1>3. CASE StartProgress
  BY <1>1, <1>3, SubmissionKeepsTypes
     DEF StartProgress, ThreadTypes, RouterTypes, ThreadInv, registry, connections
<1>4. ASSUME NEW b \in Brokers, RouterSample(b) PROVE TypeInv'
  BY <1>1, <1>4, SubmissionKeepsTypes
     DEF RouterSample, ThreadTypes, RouterTypes, ThreadInv, registry, connections
<1>5. ASSUME NEW b \in Brokers, RouterProgress(b) PROVE TypeInv'
  <2>1. \E item \in IngressItem : Submit(item)
    BY <1>5, SubmittedItem DEF RouterProgress
  <2>2. ThreadTypes' /\ RouterTypes' /\ ThreadInv'
    BY <1>1, <1>5 DEF RouterProgress, ThreadTypes, RouterTypes, ThreadInv, registry, connections
  <2>3. QED
    BY <1>5, <2>1, <2>2, SubmissionKeepsTypes DEF RouterProgress
<1>6. QED
  BY <1>2, <1>3, <1>4, <1>5 DEF Router

LEMMA TypeInvConnection ==
  ASSUME TypeInv, NEW c \in Connections, Connection(c)
  PROVE  TypeInv'
<1>1. /\ ThreadTypes /\ RouterTypes /\ ThreadInv /\ now \in Time \ {0} /\ 0 \in Time
      /\ Time \subseteq Nat
  BY BoundAssumption DEF TypeInv, TypeOK, ChannelTypeOK, ThreadTypes, RouterTypes, Time
<1>2. now' = now /\ UNCHANGED engine /\ UNCHANGED <<generations, shut, to_report, router_sample>>
  BY DEF Connection, SubmitConnected, Read, SubmitFrame, IdleSample, SubmitProgress,
         CloseConnection, SubmitEnd, DropGuard, registry, router
<1>3. RouterTypes'
  <2>1. CASE DropGuard(c)
    BY <1>1, <1>2, <2>1, ConnectionFacts DEF DropGuard, RouterTypes
  <2>2. CASE ~DropGuard(c)
    BY <1>1, <1>2, <2>2 DEF Connection, SubmitConnected, Read, SubmitFrame, IdleSample,
       SubmitProgress, CloseConnection, SubmitEnd, registry, RouterTypes
  <2>3. QED
    BY <2>1, <2>2
<1>4. ingress' = ingress \/ \E item \in IngressItem : Submit(item)
  <2>1. CASE Read(c) \/ IdleSample(c) \/ CloseConnection(c) \/ DropGuard(c)
    BY <2>1 DEF Read, IdleSample, CloseConnection, DropGuard
  <2>2. CASE SubmitConnected(c) \/ SubmitProgress(c) \/ SubmitEnd(c)
    BY <2>2, SubmittedItem DEF SubmitConnected, SubmitProgress, SubmitEnd
  <2>3. CASE SubmitFrame(c)
    BY <2>3, SubmittedItem DEF SubmitFrame, SubmitSomeFrame, Goto
  <2>4. QED
    BY <2>1, <2>2, <2>3 DEF Connection
\* A thread moves only itself, and is not a thread still to come.
<1>5. pc[c] # "none" => ~(c[2] > generations[c[1]])
  BY <1>1 DEF ThreadInv
<1> DEFINE Moved(to) == pc[c] # "none" /\ pc' = [pc EXCEPT ![c] = to]
<1>6. ThreadTypes' /\ ThreadInv'
  <2>1. ASSUME NEW to \in PC, to # "none", to # "frames", Moved(to),
               sample' \in {sample, [sample EXCEPT ![c] = 0], [sample EXCEPT ![c] = now]},
               decoded' \in {decoded, [decoded EXCEPT ![c] = 0]}, reads' = reads
        PROVE  ThreadTypes' /\ ThreadInv'
    BY <1>1, <1>2, <1>5, <2>1, ReadAssumption DEF ThreadTypes, ThreadInv
  <2>2. CASE SubmitConnected(c) \/ IdleSample(c) \/ SubmitProgress(c)
    BY <2>1, <2>2 DEF SubmitConnected, IdleSample, SubmitProgress, Goto, PC
  <2>3. CASE CloseConnection(c)
    BY <2>1, <2>3 DEF CloseConnection, Goto, PC
  <2>4. CASE SubmitEnd(c) \/ DropGuard(c)
    BY <2>1, <2>4 DEF SubmitEnd, DropGuard, Goto, PC
  <2>5. CASE Read(c)
    BY <1>1, <1>2, <1>5, <2>5, ReadAssumption DEF Read, Goto, ThreadTypes, ThreadInv, PC
  <2>6. CASE SubmitFrame(c)
    <3>1. decoded[c] \in 1 .. MaxFramesPerRead /\ pc[c] = "frames" /\ sample[c] >= 1
      BY <1>1, <2>6, ReadAssumption DEF SubmitFrame, Goto, ThreadTypes, ThreadInv
    <3>2. CASE decoded[c] = 1
      BY <1>1, <1>2, <1>5, <2>6, <3>1, <3>2, ReadAssumption
         DEF SubmitFrame, Goto, ThreadTypes, ThreadInv, PC
    <3>3. CASE decoded[c] # 1
      BY <1>1, <1>2, <1>5, <2>6, <3>1, <3>3, ReadAssumption
         DEF SubmitFrame, Goto, ThreadTypes, ThreadInv, PC
    <3>4. QED
      BY <3>2, <3>3
  <2>7. QED
    BY <2>2, <2>3, <2>4, <2>5, <2>6 DEF Connection
<1>7. QED
  BY <1>2, <1>3, <1>4, <1>6, SubmissionKeepsTypes

LEMMA TypeInvNext == TypeInv /\ [Next]_vars => TypeInv'
<1> SUFFICES ASSUME TypeInv, [Next]_vars PROVE TypeInv'
  OBVIOUS
<1> DEFINE others == <<generations, registry, connections, router>>
<1>0. EngineInv
  BY DEF TypeInv, TypeOK, ChannelTypeOK, EngineInv
<1>s. ASSUME EngineInv', UNCHANGED others, now' \in Time \ {0},
             ingress' \in Seq(IngressItem), Len(ingress') <= IngressCapacity
      PROVE  TypeInv'
  BY <1>s DEF TypeInv, TypeOK, ChannelTypeOK, ThreadInv, EngineInv, registry, connections, router
<1>1. CASE Tick
  <2>1. now' \in Time \ {0} /\ UNCHANGED ingress /\ UNCHANGED others /\ EngineInv'
    BY <1>0, <1>1, EngineUnchangedInv, BoundAssumption
       DEF Tick, AdvanceClock, TypeInv, TypeOK, ChannelTypeOK, Time
  <2>2. QED
    BY <2>1, <1>s DEF TypeInv, TypeOK, ChannelTypeOK
<1>2. CASE TakeItem /\ UNCHANGED others
  <2>1. EngineInv'
    BY <1>0, <1>2, TakeChannel, OnIngressItemInv DEF TakeItem, TypeInv, TypeOK
  <2>2. ingress' \in Seq(IngressItem) /\ Len(ingress') <= IngressCapacity /\ now' = now
    BY <1>2, TakeChannel DEF TypeInv, TypeOK
  <2>3. QED
    BY <1>2, <2>1, <2>2, <1>s DEF TypeInv, TypeOK, ChannelTypeOK
<1>3. CASE Drain /\ UNCHANGED others
  <2>1. EngineInv' /\ UNCHANGED <<now, ingress>>
    BY <1>0, <1>3, DrainStepInv DEF Drain
  <2>2. QED
    BY <1>3, <2>1, <1>s DEF TypeInv, TypeOK, ChannelTypeOK
<1>4. CASE UNCHANGED vars
  <2>1. EngineInv' /\ UNCHANGED <<now, ingress>> /\ UNCHANGED others
    BY <1>0, <1>4, EngineUnchangedInv DEF vars
  <2>2. QED
    BY <2>1, <1>s DEF TypeInv, TypeOK, ChannelTypeOK
<1>5. QED
  BY <1>1, <1>2, <1>3, <1>4, TypeInvRouter, TypeInvConnection DEF Next, Worker

LEMMA TypeInvariant == Spec => []TypeInv
BY TypeInvInit, TypeInvNext, PTL DEF Spec

\* Types of the routed pipeline, with any number of overlapping connections of a
\* broker; the ingress channel never exceeds its capacity.
THEOREM TypesAreCorrect == Spec => []TypeOK
<1>1. TypeInv => TypeOK
  BY DEF TypeInv
<1>2. QED
  BY <1>1, TypeInvariant, PTL

\* Also behind the router no broker holds more frames than its budget.
THEOREM BudgetKept == Spec => []FramesWithinBudget
<1>1. TypeInv => FramesWithinBudget
  BY BudgetSuffices DEF TypeInv, TypeOK, ChannelTypeOK, EngineInv
<1>2. QED
  BY <1>1, TypeInvariant, PTL

\* So are the byte counters: exact at every step, and within the budget whenever
\* the engine lock is free, however many connections of a broker feed its queue.
THEOREM BytesKept == Spec => []BytesWithinBudget
<1>1. Init => ByteInv
  BY ByteInvInit DEF Init, ChannelInit
<1>2. TypeInv /\ ByteInv /\ [Next]_vars => ByteInv'
  <2> SUFFICES ASSUME TypeInv, ByteInv, [Next]_vars PROVE ByteInv'
    OBVIOUS
  <2>1. ASSUME NEW c \in Connections, Connection(c) PROVE UNCHANGED engine
    BY <2>1 DEF Connection, SubmitConnected, Read, SubmitFrame, IdleSample,
         SubmitProgress, CloseConnection, SubmitEnd, DropGuard
  <2>2. Router => UNCHANGED engine
    BY DEF Router, StartProgress, Route, RouterSample, RouterProgress
  <2>3. UNCHANGED engine \/ TakeItem \/ Drain
    BY <2>1, <2>2 DEF Next, Worker, Tick, AdvanceClock, vars
  <2>. QED BY <2>3, PipelineBytes DEF TypeInv, TypeOK
<1>3. ByteInv => BytesWithinBudget
  BY BytesSuffice
<1>. QED BY <1>1, <1>2, <1>3, TypeInvariant, PTL DEF Spec

-----------------------------------------------------------------------------
(* The takeover.                                                             *)

\* With every socket cloned, a connection is registered with its socket or not at
\* all, and a connection that is neither ended nor shut is the registered one.
TakeoverInv ==
  /\ active_sockets = active_generations
  /\ \A c \in Connections : Running(c) /\ c \notin shut => active_sockets[c[1]] = c[2]

LEMMA TakeoverInvInit == Init => TakeoverInv
BY DEF Init, TakeoverInv, Running

LEMMA RouteKeepsTakeover ==
  ASSUME CloneOutcomes = {TRUE}, TypeInv, TakeoverInv, NEW b \in Brokers, Route(b)
  PROVE  TakeoverInv'
<1> DEFINE g == generations[b] + 1
<1>1. /\ pc \in [Connections -> PC]
      /\ active_generations \in [Brokers -> 0 .. MaxGeneration]
      /\ active_sockets \in [Brokers -> 0 .. MaxGeneration]
      /\ g \in Generations /\ <<b, g>> \in Connections
  BY ConnectionFacts DEF TypeInv, TypeOK, Route, Generations
<1>2. PICK spawned \in BOOLEAN :
        /\ active_generations' = [active_generations EXCEPT ![b] = IF spawned THEN g ELSE 0]
        /\ active_sockets' = [active_sockets EXCEPT ![b] = IF spawned THEN g ELSE 0]
        /\ pc' = [pc EXCEPT ![<<b, g>>] = IF spawned THEN "connected" ELSE "done"]
  BY OutcomeAssumption DEF Route
<1>3. shut' = IF active_sockets[b] = 0 THEN shut ELSE shut \cup {<<b, active_sockets[b]>>}
  BY DEF Route
<1>4. active_sockets' = active_generations'
  BY <1>2 DEF TakeoverInv
<1>5. ASSUME NEW c \in Connections, Running(c)', c \notin shut'
      PROVE  active_sockets'[c[1]] = c[2]
  <2>1. CASE c = <<b, g>>
    <3>1. spawned
      BY <1>1, <1>2, <1>5, <2>1 DEF Running
    <3>2. QED
      BY <1>1, <1>2, <2>1, <3>1
  <2>2. CASE c # <<b, g>>
    <3>1. Running(c) /\ c \notin shut
      BY <1>1, <1>2, <1>3, <1>5, <2>2 DEF Running
    <3>2. active_sockets[c[1]] = c[2] /\ c[2] # 0 /\ c = <<c[1], c[2]>> /\ c[1] \in Brokers
      BY <3>1, ConnectionFacts DEF TakeoverInv
    <3>3. c[1] # b
      BY <1>3, <1>5, <3>2
    <3>4. QED
      BY <1>1, <1>2, <3>2, <3>3
  <2>3. QED
    BY <2>1, <2>2
<1>6. QED
  BY <1>4, <1>5 DEF TakeoverInv

LEMMA DropGuardKeepsTakeover ==
  ASSUME TypeInv, TakeoverInv, NEW c \in Connections, DropGuard(c)
  PROVE  TakeoverInv'
<1>1. /\ pc \in [Connections -> PC] /\ pc' = [pc EXCEPT ![c] = "done"] /\ shut' = shut
      /\ active_generations \in [Brokers -> 0 .. MaxGeneration]
      /\ active_sockets \in [Brokers -> 0 .. MaxGeneration]
      /\ active_sockets = active_generations
  BY DEF DropGuard, Goto, TypeInv, TypeOK, TakeoverInv
<1>2. active_sockets' = active_generations'
  BY <1>1 DEF DropGuard
<1>3. ASSUME NEW d \in Connections, Running(d)', d \notin shut'
      PROVE  active_sockets'[d[1]] = d[2]
  <2>1. d # c /\ Running(d) /\ d \notin shut
    BY <1>1, <1>3 DEF Running
  <2>2. active_sockets[d[1]] = d[2] /\ d = <<d[1], d[2]>> /\ c = <<c[1], c[2]>>
    BY <2>1, ConnectionFacts DEF TakeoverInv
  <2>3. CASE active_generations[c[1]] = c[2]
    <3>1. d[1] # c[1]
      BY <1>1, <2>1, <2>2, <2>3
    <3>2. active_sockets' = [active_sockets EXCEPT ![c[1]] = 0]
      BY <2>3 DEF DropGuard
    <3>3. QED
      BY <1>1, <2>2, <3>1, <3>2, ConnectionFacts
  <2>4. CASE active_generations[c[1]] # c[2]
    BY <2>2, <2>4 DEF DropGuard
  <2>5. QED
    BY <2>3, <2>4
<1>4. QED
  BY <1>2, <1>3 DEF TakeoverInv

LEMMA TakeoverInvNext ==
  ASSUME CloneOutcomes = {TRUE}, TypeInv, TakeoverInv, [Next]_vars
  PROVE  TakeoverInv'
<1>1. CASE \E b \in Brokers : Route(b)
  BY <1>1, RouteKeepsTakeover
<1>2. CASE \E c \in Connections : DropGuard(c)
  BY <1>2, DropGuardKeepsTakeover
<1>3. ASSUME NEW c \in Connections, Connection(c), ~DropGuard(c)
      PROVE  TakeoverInv'
  <2>1. /\ UNCHANGED registry /\ pc[c] \notin {"none", "done"}
        /\ \E to \in PC : pc' = [pc EXCEPT ![c] = to]
    BY <1>3 DEF Connection, SubmitConnected, Read, SubmitFrame, IdleSample, SubmitProgress,
                CloseConnection, SubmitEnd, Goto, PC
  <2>2. \A d \in Connections : Running(d)' => Running(d)
    BY <2>1 DEF Running, TypeInv, TypeOK
  <2>3. QED
    BY <2>1, <2>2 DEF TakeoverInv, registry
<1>4. CASE Tick \/ Worker \/ StartProgress \/ UNCHANGED vars
           \/ \E b \in Brokers : RouterSample(b) \/ RouterProgress(b)
  <2>1. UNCHANGED registry /\ UNCHANGED pc
    BY <1>4 DEF Tick, Worker, StartProgress, RouterSample, RouterProgress, vars, registry, connections
  <2>2. QED
    BY <2>1 DEF TakeoverInv, Running, registry
<1>5. QED
  BY <1>1, <1>2, <1>3, <1>4 DEF Next, Router

\* However the connections of a broker start, fail to start, end and unregister, at
\* most one that runs has an open socket, as long as try_clone succeeds; where it
\* fails, the next takeover has no socket to shut.
THEOREM OneConnectionIsOpen == CloneOutcomes = {TRUE} /\ Spec => []OneOpenConnection
<1> SUFFICES ASSUME CloneOutcomes = {TRUE} PROVE Spec => []OneOpenConnection
  OBVIOUS
<1>1. TypeInv /\ TakeoverInv /\ [Next]_vars => TakeoverInv'
  BY TakeoverInvNext
<1>2. TakeoverInv => OneOpenConnection
  <2> SUFFICES ASSUME TakeoverInv, NEW b \in Brokers, NEW g \in Generations, NEW h \in Generations,
                      Running(<<b, g>>), <<b, g>> \notin shut,
                      Running(<<b, h>>), <<b, h>> \notin shut
               PROVE  g = h
    BY DEF OneOpenConnection
  <2>1. active_sockets[b] = g /\ active_sockets[b] = h
    BY ConnectionFacts DEF TakeoverInv
  <2>2. QED
    BY <2>1
<1>3. QED
  BY <1>1, <1>2, TakeoverInvInit, TypeInvariant, PTL DEF Spec

-----------------------------------------------------------------------------
(* Who ends a connected channel.                                             *)

\* The thread has announced its connection and not yet its end.
Live(c) == pc[c] \in {"read", "frames", "read_progress", "end"}

Item(type, c) == [type |-> type, broker_id |-> c[1], generation |-> c[2]]

\* An announced connection, in the channel or as the one the engine knows of, has
\* its End still to submit, or behind it in the channel.
OwnerInv ==
  /\ \A b \in Brokers : is_connected[b] =>
       /\ generation[b] \in Generations
       /\ \/ Live(<<b, generation[b]>>)
          \/ \E j \in DOMAIN ingress : ingress[j] = Item("End", <<b, generation[b]>>)
  /\ \A c \in Connections : \A i \in DOMAIN ingress : ingress[i] = Item("Connected", c) =>
       \/ Live(c)
       \/ \E j \in DOMAIN ingress : j > i /\ ingress[j] = Item("End", c)

LEMMA OwnerInvInit == Init => OwnerInv
<1> SUFFICES ASSUME Init PROVE OwnerInv
  OBVIOUS
<1>1. (\A b \in Brokers : ~is_connected[b]) /\ DOMAIN ingress = {}
  BY DEF Init, ChannelInit, EngineInit
<1>2. QED
  BY <1>1 DEF OwnerInv

LEMMA ItemFacts ==
  \A c, d \in Connections :
    /\ Item("End", c) # Item("Connected", d)
    /\ Item("End", c) = Item("End", d) => c = d
    /\ Item("Connected", c) = Item("Connected", d) => c = d
<1> SUFFICES ASSUME NEW c \in Connections, NEW d \in Connections
             PROVE  /\ Item("End", c) # Item("Connected", d)
                    /\ Item("End", c) = Item("End", d) => c = d
                    /\ Item("Connected", c) = Item("Connected", d) => c = d
  OBVIOUS
<1>1. \A t : Item(t, c).type = t /\ Item(t, c).broker_id = c[1] /\ Item(t, c).generation = c[2]
  BY DEF Item
<1>2. \A t : Item(t, d).type = t /\ Item(t, d).broker_id = d[1] /\ Item(t, d).generation = d[2]
  BY DEF Item
<1>3. c = <<c[1], c[2]>> /\ d = <<d[1], d[2]>>
  BY ConnectionFacts
<1>4. Item("End", c) # Item("Connected", d)
  BY <1>1, <1>2
<1>5. ASSUME NEW t, Item(t, c) = Item(t, d) PROVE c = d
  <2>1. c[1] = d[1] /\ c[2] = d[2]
    BY <1>1, <1>2, <1>5
  <2>2. QED
    BY <1>3, <2>1
<1>6. QED
  BY <1>4, <1>5

\* Nothing is submitted, and no thread submits its End.
LEMMA QuietKeepsOwner ==
  ASSUME OwnerInv, is_connected' = is_connected, generation' = generation, ingress' = ingress,
         \A c \in Connections : Live(c) => Live(c)'
  PROVE  OwnerInv'
<1>1. ASSUME NEW c \in Connections, pc[c] \in {"read", "frames", "read_progress", "end"}
      PROVE  pc'[c] \in {"read", "frames", "read_progress", "end"}
  BY <1>1 DEF Live
<1>2. ASSUME NEW b \in Brokers, is_connected[b]
      PROVE  /\ generation[b] \in Generations
             /\ \/ pc'[<<b, generation[b]>>] \in {"read", "frames", "read_progress", "end"}
                \/ \E j \in DOMAIN ingress : ingress[j] = Item("End", <<b, generation[b]>>)
  BY <1>1, <1>2, ConnectionFacts DEF OwnerInv, Live
<1>3. ASSUME NEW c \in Connections, NEW i \in DOMAIN ingress, ingress[i] = Item("Connected", c)
      PROVE  Live(c)' \/ \E j \in DOMAIN ingress : j > i /\ ingress[j] = Item("End", c)
  BY <1>3 DEF OwnerInv
<1>4. QED
  BY <1>2, <1>3 DEF OwnerInv, Live

\* An item is submitted; who is announced is live, who is no longer has sent its End.
LEMMA SubmissionKeepsOwner ==
  ASSUME TypeInv, OwnerInv, is_connected' = is_connected, generation' = generation,
         NEW item \in IngressItem, Submit(item),
         \A c \in Connections : Live(c) => Live(c)' \/ item = Item("End", c),
         \A c \in Connections : item = Item("Connected", c) => Live(c)'
  PROVE  OwnerInv'
<1> DEFINE N == Len(ingress)
<1>1. /\ N \in Nat /\ DOMAIN ingress = 1 .. N /\ DOMAIN ingress' = 1 .. N + 1
      /\ ingress'[N + 1] = item /\ \A i \in 1 .. N : ingress'[i] = ingress[i]
  BY SubmitChannel DEF TypeInv, TypeOK, ChannelTypeOK
<1>2. /\ N + 1 \in 1 .. N + 1 /\ \A i \in 1 .. N : i \in 1 .. N + 1 /\ N + 1 > i
      /\ \A i \in 1 .. N + 1 : i \in 1 .. N \/ i = N + 1
  BY <1>1
<1> HIDE DEF N
<1>3. ASSUME NEW b \in Brokers, is_connected[b]
      PROVE  /\ generation[b] \in Generations
             /\ \/ pc'[<<b, generation[b]>>] \in {"read", "frames", "read_progress", "end"}
                \/ \E j \in 1 .. N + 1 : ingress'[j] = Item("End", <<b, generation[b]>>)
  <2>1. generation[b] \in Generations /\ <<b, generation[b]>> \in Connections
    BY <1>3, ConnectionFacts DEF OwnerInv
  <2>2. CASE Live(<<b, generation[b]>>)
    <3>1. Live(<<b, generation[b]>>)' \/ item = Item("End", <<b, generation[b]>>)
      <4> DEFINE c == <<b, generation[b]>>
      <4>1. Live(c) => pc'[c] \in {"read", "frames", "read_progress", "end"} \/ item = Item("End", c)
        BY <2>1 DEF Live
      <4>2. QED
        BY <2>2, <4>1 DEF Live
    <3>2. QED
      BY <1>1, <1>2, <2>1, <3>1 DEF Live
  <2>3. CASE \E j \in 1 .. N : ingress[j] = Item("End", <<b, generation[b]>>)
    BY <1>1, <1>2, <2>1, <2>3
  <2>4. QED
    BY <1>1, <1>3, <2>2, <2>3 DEF OwnerInv
<1>4. ASSUME NEW c \in Connections, NEW i \in 1 .. N + 1, ingress'[i] = Item("Connected", c)
      PROVE  Live(c)' \/ \E j \in 1 .. N + 1 : j > i /\ ingress'[j] = Item("End", c)
  <2>1. CASE i = N + 1
    BY <1>1, <1>4, <2>1
  <2>2. CASE i \in 1 .. N /\ Live(c)
    BY <1>1, <1>2, <2>2
  <2>3. CASE i \in 1 .. N /\ \E j \in 1 .. N : j > i /\ ingress[j] = Item("End", c)
    BY <1>1, <1>2, <2>3
  <2>4. QED
    BY <1>1, <1>2, <1>4, <2>1, <2>2, <2>3 DEF OwnerInv
<1>5. QED
  BY <1>1, <1>3, <1>4 DEF OwnerInv, Live

\* The engine handles the oldest item.
LEMMA TakeKeepsOwner ==
  ASSUME TypeInv, OwnerInv, TakeItem, pc' = pc
  PROVE  OwnerInv'
<1> DEFINE N == Len(ingress)
           head == ingress[1]
<1>1. /\ N \in Nat \ {0} /\ DOMAIN ingress = 1 .. N /\ DOMAIN ingress' = 1 .. N - 1
      /\ \A i \in 1 .. N - 1 : ingress'[i] = ingress[i + 1]
      /\ head \in IngressItem /\ OnIngressItem(head)
  BY TakeChannel DEF TakeItem, TypeInv, TypeOK, ChannelTypeOK
<1>2. /\ \A i \in 1 .. N - 1 : i + 1 \in 1 .. N
      /\ 1 \in 1 .. N
      /\ \A k \in 1 .. N : k # 1 => k - 1 \in 1 .. N - 1 /\ ingress'[k - 1] = ingress[k]
      /\ \A i \in 1 .. N - 1, k \in 1 .. N : k > i + 1 => k # 1 /\ k - 1 > i
      /\ \A k \in 1 .. N : k > 1 => k # 1
  BY <1>1
<1>3. /\ is_connected \in [Brokers -> BOOLEAN] /\ generation \in [Brokers -> 0 .. MaxGeneration]
  BY DEF TypeInv, TypeOK, ChannelTypeOK, EngineTypeOK
<1> HIDE DEF N, head
\* An End that is not the item handled is still in the channel.
<1>4. ASSUME NEW c \in Connections, NEW j \in 1 .. N, ingress[j] = Item("End", c), j # 1
      PROVE  \E k \in 1 .. N - 1 : ingress'[k] = Item("End", c)
  BY <1>2, <1>4
<1>5. ASSUME NEW b \in Brokers, is_connected'[b]
      PROVE  /\ generation'[b] \in Generations
             /\ \/ Live(<<b, generation'[b]>>)
                \/ \E k \in 1 .. N - 1 : ingress'[k] = Item("End", <<b, generation'[b]>>)
  <2>1. CASE head.type = "Connected" /\ head.broker_id = b
    <3>1. generation'[b] = head.generation /\ head.generation \in Generations
          /\ head = Item("Connected", <<b, head.generation>>)
      BY <1>1, <1>3, <2>1 DEF OnIngressItem, OnConnected, OnProgress, OnFrame, OnEnd, IngressItem,
         ConnectedItem, ProgressItem, FrameItem, EndItem, Generations, Item
    <3>2. <<b, generation'[b]>> \in Connections /\ ingress[1] = Item("Connected", <<b, generation'[b]>>)
      BY <3>1, ConnectionFacts DEF head
    <3>3. \/ Live(<<b, generation'[b]>>)
          \/ \E j \in 1 .. N : j > 1 /\ ingress[j] = Item("End", <<b, generation'[b]>>)
      BY <1>1, <1>2, <3>2 DEF OwnerInv
    <3>4. QED
      BY <1>2, <1>4, <3>1, <3>2, <3>3
  <2>2. CASE ~(head.type = "Connected" /\ head.broker_id = b)
    <3>1. is_connected[b] /\ generation'[b] = generation[b]
      BY <1>1, <1>3, <1>5, <2>2 DEF OnIngressItem, OnConnected, OnProgress, OnFrame, OnEnd
    <3>2. head # Item("End", <<b, generation[b]>>)
      <4>1. SUFFICES ASSUME head = Item("End", <<b, generation[b]>>) PROVE FALSE
        OBVIOUS
      <4>2. head.type = "End" /\ head.broker_id = b /\ head.generation = generation[b]
        BY <4>1 DEF Item
      <4>3. ~is_connected'[b]
        BY <1>1, <1>3, <4>2 DEF OnIngressItem, OnConnected, OnProgress, OnFrame, OnEnd
      <4>4. QED
        BY <1>5, <4>3
    <3>3. generation[b] \in Generations /\ <<b, generation[b]>> \in Connections
      BY <3>1, ConnectionFacts DEF OwnerInv
    <3>4. \/ Live(<<b, generation[b]>>)
          \/ \E j \in 1 .. N : ingress[j] = Item("End", <<b, generation[b]>>)
      BY <1>1, <3>1 DEF OwnerInv
    <3>5. QED
      BY <1>4, <3>1, <3>2, <3>3, <3>4 DEF head
  <2>3. QED
    BY <2>1, <2>2
<1>6. ASSUME NEW c \in Connections, NEW i \in 1 .. N - 1, ingress'[i] = Item("Connected", c)
      PROVE  Live(c) \/ \E k \in 1 .. N - 1 : k > i /\ ingress'[k] = Item("End", c)
  <2>1. i + 1 \in 1 .. N /\ ingress[i + 1] = Item("Connected", c)
    BY <1>1, <1>2, <1>6
  <2>2. Live(c) \/ \E j \in 1 .. N : j > i + 1 /\ ingress[j] = Item("End", c)
    BY <1>1, <2>1 DEF OwnerInv
  <2>3. ASSUME NEW j \in 1 .. N, j > i + 1, ingress[j] = Item("End", c)
        PROVE  \E k \in 1 .. N - 1 : k > i /\ ingress'[k] = Item("End", c)
    BY <1>2, <2>3
  <2>4. QED
    BY <2>2, <2>3
<1>7. QED
  BY <1>1, <1>5, <1>6 DEF OwnerInv, Live

LEMMA OwnerInvConnection ==
  ASSUME TypeInv, OwnerInv, NEW c \in Connections, Connection(c)
  PROVE  OwnerInv'
<1>1. is_connected' = is_connected /\ generation' = generation /\ pc \in [Connections -> PC]
  BY DEF Connection, SubmitConnected, Read, SubmitFrame, IdleSample, SubmitProgress,
         CloseConnection, SubmitEnd, DropGuard, engine, channels, TypeInv, TypeOK
<1>2. CASE Read(c) \/ IdleSample(c) \/ CloseConnection(c) \/ DropGuard(c)
  <2>1. ingress' = ingress /\ \A d \in Connections : Live(d) => Live(d)'
    BY <1>1, <1>2 DEF Read, IdleSample, CloseConnection, DropGuard, Goto, Live
  <2>2. QED
    BY <1>1, <2>1, QuietKeepsOwner
<1>3. CASE SubmitFrame(c) \/ SubmitProgress(c)
  <2>1. PICK item \in IngressItem : Submit(item) /\ item.type \in {"Frame", "Progress"}
    <3>1. CASE SubmitFrame(c)
      BY <3>1, SubmittedItem DEF SubmitFrame, SubmitSomeFrame, Goto
    <3>2. CASE SubmitProgress(c)
      BY <3>2, SubmittedItem DEF SubmitProgress
    <3>3. QED
      BY <1>3, <3>1, <3>2
  <2>2. \A d \in Connections : Live(d) => Live(d)'
    BY <1>1, <1>3 DEF SubmitFrame, SubmitProgress, Goto, Live
  <2>3. \A d \in Connections : item # Item("Connected", d)
    BY <2>1 DEF Item
  <2>4. QED
    BY <1>1, <2>1, <2>2, <2>3, SubmissionKeepsOwner
<1>4. CASE SubmitConnected(c)
  <2>1. Submit(Item("Connected", c)) /\ Item("Connected", c) \in IngressItem
    BY <1>4, SubmittedItem DEF SubmitConnected, Item
  <2>2. Live(c)' /\ \A d \in Connections : Live(d) => Live(d)'
    BY <1>1, <1>4 DEF SubmitConnected, Goto, Live
  <2>3. \A d \in Connections : Item("Connected", c) = Item("Connected", d) => Live(d)'
    BY <2>2, ItemFacts
  <2>4. QED
    BY <1>1, <2>1, <2>2, <2>3, SubmissionKeepsOwner
<1>5. CASE SubmitEnd(c)
  <2>1. Submit(Item("End", c)) /\ Item("End", c) \in IngressItem
    BY <1>5, SubmittedItem DEF SubmitEnd, Item
  <2>2. \A d \in Connections : Live(d) => Live(d)' \/ Item("End", c) = Item("End", d)
    BY <1>1, <1>5 DEF SubmitEnd, Goto, Live
  <2>3. \A d \in Connections : Item("End", c) # Item("Connected", d)
    BY ItemFacts
  <2>4. QED
    BY <1>1, <2>1, <2>2, <2>3, SubmissionKeepsOwner
<1>6. QED
  BY <1>2, <1>3, <1>4, <1>5 DEF Connection

LEMMA OwnerInvNext == TypeInv /\ OwnerInv /\ [Next]_vars => OwnerInv'
<1> SUFFICES ASSUME TypeInv, OwnerInv, [Next]_vars PROVE OwnerInv'
  OBVIOUS
<1>1. ASSUME NEW b \in Brokers, Route(b) PROVE OwnerInv'
  <2> DEFINE g == generations[b] + 1
  <2>1. g \in Generations /\ <<b, g>> \in Connections /\ pc[<<b, g>>] = "none"
    <3>1. g \in Generations /\ g > generations[b]
      BY <1>1, ConnectionFacts DEF Route, TypeInv, TypeOK, Generations
    <3>2. QED
      BY <3>1, ConnectionFacts DEF TypeInv, ThreadInv
  <2>2. \E to : pc' = [pc EXCEPT ![<<b, g>>] = to]
    BY <1>1 DEF Route
  <2>3. \A c \in Connections : Live(c) => Live(c)'
    BY <2>1, <2>2 DEF Live, TypeInv, TypeOK
  <2>4. is_connected' = is_connected /\ generation' = generation /\ ingress' = ingress
    BY <1>1 DEF Route, engine, channels
  <2>5. QED
    BY <2>3, <2>4, QuietKeepsOwner
<1>2. ASSUME NEW b \in Brokers, RouterProgress(b) PROVE OwnerInv'
  <2> DEFINE item == [type |-> "Progress", broker_id |-> b, watermark_ns |-> router_sample[b]]
  <2>1. item \in IngressItem /\ Submit(item) /\ \A d \in Connections : item # Item("Connected", d)
    BY <1>2, SubmittedItem DEF RouterProgress, Item
  <2>2. /\ is_connected' = is_connected /\ generation' = generation
        /\ \A d \in Connections : Live(d) => Live(d)'
    BY <1>2 DEF RouterProgress, engine, channels, connections, Live
  <2>3. QED
    BY <2>1, <2>2, SubmissionKeepsOwner
<1>3. CASE Tick \/ StartProgress \/ UNCHANGED vars \/ \E b \in Brokers : RouterSample(b)
  <2>1. is_connected' = is_connected /\ generation' = generation /\ ingress' = ingress /\ pc' = pc
    BY <1>3 DEF Tick, AdvanceClock, StartProgress, RouterSample, vars, engine, channels, connections
  <2>2. QED
    BY <2>1, QuietKeepsOwner DEF Live
<1>4. CASE Worker
  <2>1. CASE TakeItem
    BY <1>4, <2>1, TakeKeepsOwner DEF Worker, connections
  <2>2. CASE Drain
    <3>1. is_connected' = is_connected /\ generation' = generation /\ ingress' = ingress /\ pc' = pc
      BY <1>4, <2>2 DEF Worker, connections, Drain, DrainStep, ForceDrain, StartMerge, MergeFront,
         FinishItem, channels
    <3>2. QED
      BY <3>1, QuietKeepsOwner DEF Live
  <2>3. QED
    BY <1>4, <2>1, <2>2 DEF Worker
<1>5. QED
  BY <1>1, <1>2, <1>3, <1>4, OwnerInvConnection DEF Next, Router

\* However many connections of a broker overlap and in which order their items are
\* handled, a connected channel has somebody to end it.
THEOREM ConnectedChannelsEnd == Spec => []ConnectedChannelHasOwner
<1>1. TypeInv /\ OwnerInv => ConnectedChannelHasOwner
  <2> SUFFICES ASSUME TypeInv, OwnerInv, NEW b \in Brokers, is_connected[b]
               PROVE  \/ pc[<<b, generation[b]>>] \in {"read", "frames", "read_progress", "end"}
                      \/ \E i \in 1 .. Len(ingress) :
                           ingress[i] = [type |-> "End", broker_id |-> b, generation |-> generation[b]]
    BY DEF ConnectedChannelHasOwner
  <2>1. DOMAIN ingress = 1 .. Len(ingress)
    BY DEF TypeInv, TypeOK, ChannelTypeOK
  <2>2. QED
    BY <2>1 DEF OwnerInv, Live, Item
<1>2. QED
  BY <1>1, OwnerInvInit, OwnerInvNext, TypeInvariant, PTL DEF Spec

\* Takeover at the shared router, for any number of brokers and connections, where
\* try_clone succeeds: the types, one open connection per broker, and an owner for
\* every connected channel.
THEOREM TakeoverIsCorrect == CloneOutcomes = {TRUE} /\ Spec => []TakeoverCorrect
BY TypesAreCorrect, OneConnectionIsOpen, ConnectedChannelsEnd, PTL DEF TakeoverCorrect
=============================================================================
