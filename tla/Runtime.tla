-------------------------------- MODULE Runtime --------------------------------
(***************************************************************************)
(* RuntimeCoordinator (src/src/runtime/coordinator.rs): its threads from     *)
(* start to shutdown.  A receiver thread per broker (or the router thread    *)
(* and its connection threads) fills the ingress channel, the engine worker  *)
(* drains it, the publisher turns engine revisions into snapshots, and       *)
(* stop() with wait_for_shutdown() ends them all.  What the items do to the  *)
(* engine is TickMerge's business; here an item is a frame or a control item.*)
(***************************************************************************)
EXTENDS Naturals, Sequences, FiniteSets

CONSTANTS
  Receivers,         (* the configured brokers' receivers                    *)
  ChannelCapacity,   (* of the ingress channel                               *)
  BatchMax,          (* items taken under one engine lock: 1 + 64            *)
  MaxFrames          (* bound: frames an EA sends a receiver                 *)

VARIABLES
  auto_deploy,       (* one shared router, or one listener per receiver      *)
  coordinator,       (* where stop() and wait_for_shutdown() are             *)
  running,           (* TransportReceiver.running                            *)
  routerRunning,     (* TransportRouter.running                              *)
  workersRunning,    (* RuntimeCoordinator.running                           *)
  at, item,          (* receiver threads: place in the code, item submitted  *)
  router,            (* the router thread                                    *)
  read,              (* frames read from each broker's sockets               *)
  engine_channel,    (* the ingress channel                                  *)
  worker,            (* the engine worker                                    *)
  engine_batch,      (* items taken under this lock                          *)
  processed,         (* frames the engine has handled                        *)
  inTime,            (* history: accepted before running was cleared         *)
  pending,           (* the wake flag                                       *)
  publisher,         (* the publisher thread                                *)
  projected, published  (* does the projection, the snapshot in the exchange,
                           cover everything the worker has signalled?       *)

\* What AppConfig::validate and the coordinator's constants see to.
RuntimeLimits == ChannelCapacity \in Nat /\ BatchMax \in Nat \ {0} /\ MaxFrames \in Nat

runtimeVars == << auto_deploy, coordinator, running, routerRunning, workersRunning,
  at, item, router, read, engine_channel, worker, engine_batch, processed, inTime,
  pending, publisher, projected, published >>

receiverVars == <<at, item, read>>
workerVars == <<worker, engine_batch, processed>>
publisherVars == <<publisher, projected, published>>
stopVars == <<coordinator, running, routerRunning, workersRunning>>

Frames == Receivers \X (1..MaxFrames)
\* Connected, Progress and End items.
Control == <<"control">>

\* What is sent when: the item's kind decides where its thread goes next.
Kinds == {"Connected", "Frame", "Progress", "End"}

RuntimeInit ==
  /\ auto_deploy \in BOOLEAN
  /\ coordinator = "running"
  /\ running = [r \in Receivers |-> TRUE]
  /\ routerRunning = TRUE /\ workersRunning = TRUE
  /\ at = [r \in Receivers |-> "listen"]
  /\ item = [r \in Receivers |-> "Progress"]
  /\ router = IF auto_deploy THEN "serve" ELSE "ended"
  /\ read = [r \in Receivers |-> 0]
  /\ engine_channel = << >>
  /\ worker = "test" /\ engine_batch = 0
  /\ processed = {} /\ inTime = {}
  /\ pending = FALSE
  /\ publisher = "test" /\ projected = TRUE /\ published = TRUE

RuntimeTypeOK ==
  /\ coordinator \in {"running", "stop_receivers", "stop_workers", "wake", "join",
                      "finish_logger", "done"}
  /\ running \in [Receivers -> BOOLEAN] /\ routerRunning \in BOOLEAN
  /\ workersRunning \in BOOLEAN /\ pending \in BOOLEAN /\ auto_deploy \in BOOLEAN
  /\ at \in [Receivers -> {"listen", "read", "persist", "check", "send", "ack", "ended"}]
  /\ item \in [Receivers -> Kinds]
  /\ router \in {"serve", "join", "ended"}
  /\ read \in [Receivers -> 0..MaxFrames]
  /\ Len(engine_channel) <= ChannelCapacity
  /\ \A i \in DOMAIN engine_channel : engine_channel[i] \in Frames \cup {Control}
  /\ worker \in {"test", "test_empty", "recv", "batch", "leaving", "ended"}
  /\ engine_batch \in 0..BatchMax
  /\ processed \subseteq Frames /\ inTime \subseteq Frames
  /\ publisher \in {"test", "project", "publish", "wait", "waiting", "ended"}
  /\ projected \in BOOLEAN /\ published \in BOOLEAN

-----------------------------------------------------------------------------
(* Receiver threads.                                                          *)

Goto(r, place, kind) ==
  /\ at' = [at EXCEPT ![r] = place]
  /\ item' = [item EXCEPT ![r] = kind]

\* accept() of the receiver's own listener, or route() of the shared one: the
\* connection's first item is Connected.
AcceptConnection(r) ==
  /\ at[r] = "listen"
  /\ IF auto_deploy THEN router = "serve" ELSE running[r]
  /\ Goto(r, "check", "Connected")
  /\ UNCHANGED read

\* Socket reads: a frame, a read that only times out, an end of the connection,
\* and the loop's own test of running.
ReadFrame(r) ==
  /\ at[r] = "read" /\ read[r] < MaxFrames
  /\ read' = [read EXCEPT ![r] = @ + 1]
  /\ Goto(r, "persist", "Frame")

ReadTimesOut(r) ==
  /\ at[r] = "read" /\ running[r]
  /\ Goto(r, "check", "Progress")
  /\ UNCHANGED read

ConnectionEnds(r) ==
  /\ at[r] = "read"
  /\ Goto(r, "check", "End")
  /\ UNCHANGED read

\* Stable storage accepts the frame, or fails and ends the connection.
PersistFrame(r) ==
  /\ at[r] = "persist"
  /\ Goto(r, "check", "Frame") \/ Goto(r, "check", "End")
  /\ UNCHANGED read

\* submit_ingress_item returned `ok`.
AfterSubmit(r, ok) ==
  CASE item[r] = "Frame" -> IF ok THEN Goto(r, "ack", "Frame") ELSE Goto(r, "check", "End")
    [] item[r] = "End" -> Goto(r, "listen", "Progress")
    [] OTHER -> Goto(r, "read", "Progress")

SubmitTest(r) ==
  /\ at[r] = "check"
  /\ IF running[r] THEN Goto(r, "send", item[r]) ELSE AfterSubmit(r, FALSE)
  /\ UNCHANGED <<engine_channel, inTime, read>>

ChannelAccepts(q) == Len(q) < ChannelCapacity

\* submit_timeout: accepted, full for 20 ms (then test running again), or closed.
SubmitSend(r) ==
  /\ at[r] = "send"
  /\ \/ /\ worker # "ended" /\ ChannelAccepts(engine_channel)
        /\ LET it == IF item[r] = "Frame" THEN <<r, read[r]>> ELSE Control IN
           /\ engine_channel' = Append(engine_channel, it)
           /\ inTime' = IF it # Control /\ workersRunning THEN inTime \cup {it} ELSE inTime
        /\ AfterSubmit(r, TRUE)
     \/ /\ worker # "ended" /\ ~ChannelAccepts(engine_channel)
        /\ Goto(r, "check", item[r])
        /\ UNCHANGED <<engine_channel, inTime>>
     \/ /\ worker = "ended"
        /\ AfterSubmit(r, FALSE)
        /\ UNCHANGED <<engine_channel, inTime>>
  /\ UNCHANGED read

SendAck(r) ==
  /\ at[r] = "ack"
  /\ Goto(r, "read", "Progress")
  /\ UNCHANGED read

\* run() returns once it sees running cleared; a connection thread is gone with
\* its connection and "listen" stands for no thread at all.
ListenerEnds(r) ==
  /\ at[r] = "listen" /\ ~auto_deploy /\ ~running[r]
  /\ Goto(r, "ended", "Progress")
  /\ UNCHANGED read

ReceiverQuits(r) == \* the read loop sees running cleared
  /\ ~running[r]
  /\ ConnectionEnds(r)

ConnectionThreadsEnded == \A r \in Receivers : at[r] = "listen"

RouterStep ==
  \/ router = "serve" /\ ~routerRunning /\ router' = "join"
  \/ router = "join" /\ ConnectionThreadsEnded /\ router' = "ended"

-----------------------------------------------------------------------------
(* The engine worker.                                                         *)

TakeItem ==
  /\ engine_channel # << >>
  /\ engine_channel' = Tail(engine_channel)
  /\ processed' = processed \cup ({Head(engine_channel)} \ {Control})

\* Mutant: the worker stops without looking at what is left in the channel.
LeaveAtOnce == worker' = "leaving"
LeaveIfEmpty == worker' = IF engine_channel = << >> THEN "leaving" ELSE "recv"

\* while running || !rx.is_empty(): two reads, then the channel is dropped.  A
\* timeout of recv makes the same test.
WorkerTests ==
  /\ \/ worker = "test" /\ worker' = IF workersRunning THEN "recv" ELSE "test_empty"
     \/ worker = "test_empty" /\ LeaveIfEmpty
     \/ worker = "recv" /\ engine_channel = << >> /\ worker' = "test"
     \/ worker = "leaving" /\ worker' = "ended"
  /\ UNCHANGED <<engine_channel, engine_batch, processed, pending, projected, published>>

WorkerTakes ==
  /\ \/ worker = "recv" /\ engine_batch' = 1
     \/ worker = "batch" /\ engine_batch < BatchMax /\ engine_batch' = engine_batch + 1
  /\ TakeItem
  /\ worker' = "batch"
  /\ UNCHANGED <<pending, projected, published>>

\* The engine lock is released and the publisher woken.
WorkerSignals ==
  /\ worker = "batch" /\ (engine_channel = << >> \/ engine_batch = BatchMax)
  /\ pending' = TRUE /\ projected' = FALSE /\ published' = FALSE
  /\ worker' = "test" /\ engine_batch' = 0
  /\ UNCHANGED <<engine_channel, processed>>

-----------------------------------------------------------------------------
(* The snapshot publisher.                                                    *)

EngineUnlocked == worker # "batch"

PublisherBuilds ==
  \/ /\ publisher = "test"
     /\ publisher' = IF workersRunning THEN "project" ELSE "ended"
     /\ UNCHANGED <<projected, published, pending>>
  \/ /\ publisher = "project" /\ EngineUnlocked
     /\ projected' = TRUE /\ publisher' = "publish"
     /\ UNCHANGED <<published, pending>>
  \/ /\ publisher = "publish"
     /\ published' = projected /\ publisher' = "wait"
     /\ UNCHANGED <<pending, projected>>

\* With the flag's lock held: wait only when nothing was signalled; the flag is
\* cleared before the next projection is made.
PublisherWaits ==
  /\ publisher = "wait"
  /\ IF ~pending /\ workersRunning
     THEN publisher' = "waiting" /\ UNCHANGED pending
     ELSE publisher' = "test" /\ pending' = FALSE
  /\ UNCHANGED <<projected, published>>

\* Notified (pending is set under the lock), or 200 ms have passed.
PublisherWakes ==
  /\ publisher = "waiting"
  /\ publisher' = "test" /\ pending' = FALSE
  /\ UNCHANGED <<projected, published>>

-----------------------------------------------------------------------------
(* stop() and wait_for_shutdown().                                            *)

Advance(from, to) == coordinator = from /\ coordinator' = to

AllEnded ==
  /\ router = "ended" /\ worker = "ended" /\ publisher = "ended"
  /\ auto_deploy \/ \A r \in Receivers : at[r] = "ended"

StopRouter ==
  /\ Advance("running", "stop_receivers")
  /\ routerRunning' = FALSE
  /\ UNCHANGED <<running, workersRunning, pending>>

StopReceiver ==
  /\ \E r \in Receivers : running[r] /\ running' = [running EXCEPT ![r] = FALSE]
  /\ coordinator = "stop_receivers"
  /\ coordinator' = IF \A r \in Receivers : ~running'[r] THEN "stop_workers" ELSE coordinator
  /\ UNCHANGED <<routerRunning, workersRunning, pending>>

StopWorkers ==
  \/ /\ Advance("stop_workers", "wake") /\ workersRunning' = FALSE
     /\ UNCHANGED <<running, routerRunning, pending>>
  \/ /\ Advance("wake", "join") /\ pending' = TRUE
     /\ UNCHANGED <<running, routerRunning, workersRunning>>

JoinAndFinish ==
  /\ \/ Advance("join", "finish_logger") /\ AllEnded
     \/ Advance("finish_logger", "done")
  /\ UNCHANGED <<running, routerRunning, workersRunning, pending>>

-----------------------------------------------------------------------------

ReceiverProgress(r) ==
  /\ \/ SubmitTest(r) \/ SubmitSend(r)
     \/ (PersistFrame(r) \/ SendAck(r) \/ ReceiverQuits(r) \/ ListenerEnds(r))
        /\ UNCHANGED <<engine_channel, inTime>>
  /\ UNCHANGED <<auto_deploy, stopVars, router, workerVars, pending, publisherVars>>

Peer(r) ==
  /\ AcceptConnection(r) \/ ReadFrame(r) \/ ReadTimesOut(r) \/ ConnectionEnds(r)
  /\ UNCHANGED <<auto_deploy, stopVars, router, engine_channel, inTime, workerVars, pending,
                 publisherVars>>

RouterProgress ==
  /\ RouterStep
  /\ UNCHANGED <<auto_deploy, stopVars, receiverVars, engine_channel, inTime, workerVars, pending,
                 publisherVars>>

WorkerStep ==
  /\ WorkerTests \/ WorkerTakes \/ WorkerSignals
  /\ UNCHANGED <<auto_deploy, stopVars, receiverVars, router, inTime, publisher>>

PublisherStep ==
  /\ PublisherBuilds \/ PublisherWaits \/ PublisherWakes
  /\ UNCHANGED <<auto_deploy, stopVars, receiverVars, router, engine_channel, inTime, workerVars>>

StopStep(A) ==
  /\ A
  /\ UNCHANGED <<auto_deploy, receiverVars, router, engine_channel, inTime, workerVars,
                 publisherVars>>

StopProgress == StopStep(StopReceiver \/ StopWorkers \/ JoinAndFinish)

RuntimeNext ==
  \/ \E r \in Receivers : ReceiverProgress(r) \/ Peer(r)
  \/ RouterProgress \/ WorkerStep \/ PublisherStep
  \/ StopStep(StopRouter) \/ StopProgress

RuntimeFairness ==
  /\ \A r \in Receivers : WF_runtimeVars(ReceiverProgress(r))
  /\ WF_runtimeVars(RouterProgress) /\ WF_runtimeVars(WorkerStep)
  /\ WF_runtimeVars(PublisherStep) /\ WF_runtimeVars(StopProgress)

RuntimeSpec == RuntimeInit /\ [][RuntimeNext]_runtimeVars /\ RuntimeFairness
-----------------------------------------------------------------------------

\* A frame accepted before shutdown cleared `running` is processed before the
\* worker is gone: the worker looks at the channel after it has seen the flag.
\* (A frame accepted later may be dropped with the channel, acknowledged or not.)
LostOnlyAfterStop == worker = "ended" => inTime \subseteq processed

\* No lost wakeup: while the publisher sleeps and nobody has set the flag, what
\* the worker last signalled is in the published snapshot.
SleeperIsCurrent ==
  publisher = "waiting" /\ ~pending => published

\* The raw log is finished only when no thread can still append to it, the
\* connection threads of the router included.
LoggerOutlivesThreads ==
  coordinator = "done" => \A r \in Receivers : at[r] \in {"listen", "ended"}

\* The runtime.  A frame accepted before shutdown cleared the flag is processed
\* before the engine worker ends; a sleeping publisher has published what the worker
\* last signalled; the raw log is finished only after every thread that appends to
\* it (coordinator.rs).
RuntimeCorrect ==
  RuntimeTypeOK /\ LostOnlyAfterStop /\ SleeperIsCurrent /\ LoggerOutlivesThreads

\* stop() is followed by the end of every thread, although peers keep their
\* connections open and the channel may be full.  (A part of MCThreads!NothingWaitsForEver.)
ShutdownCompletes == (coordinator # "running") ~> (coordinator = "done")
=============================================================================
