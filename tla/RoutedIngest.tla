------------------------------ MODULE RoutedIngest ------------------------------
(***************************************************************************)
(* The ingest pipeline behind the shared listener (mt5.auto_deploy on, the   *)
(* default): TransportRouter (src/src/transport/router.rs) gives every EA    *)
(* connection the broker's next generation and a thread of its own, shuts the*)
(* connection it supersedes, and, while idle, reports progress for every     *)
(* broker.  Two connections of one broker can therefore feed the channel at  *)
(* the same time, which TransportReceiver::run (DirectIngest) excludes.      *)
(*                                                                           *)
(* Route is one action: between the takeover, under the registry lock, and   *)
(* the spawn only older connections can touch the registry, and the          *)
(* generation they hold lets them change nothing.                            *)
(***************************************************************************)
EXTENDS IngressChannel

CONSTANTS
  CloneOutcomes,  (* does try_clone of the socket succeed: subset of BOOLEAN *)
  SpawnOutcomes   (* does the thread start: subset of BOOLEAN                *)

ASSUME OutcomeAssumption ==
  CloneOutcomes \subseteq BOOLEAN /\ SpawnOutcomes \subseteq BOOLEAN

\* A connection is a broker and the generation the router gave it.
Generations == 1 .. MaxGeneration
Connections == Brokers \X Generations

VARIABLES
  generations,         (* TransportRouter.generations: last one handed out  *)
  active_generations,  (* per broker: the registered connection, 0 for none *)
  active_sockets,      (* per broker: whose socket is registered, 0 for none*)
  shut,                (* connections whose socket was shut down            *)
  pc,                  (* per connection: where its thread is               *)
  sample,              (* per connection: the clock sample held, 0 for none *)
  decoded,             (* per connection: frames of the read still to submit*)
  reads,               (* per connection: reads that completed a frame      *)
  to_report,           (* brokers the idle router has still to report       *)
  router_sample        (* per broker: the sample the router is submitting   *)

registry    == <<active_generations, active_sockets, shut>>
connections == <<pc, sample, decoded, reads>>
router      == <<to_report, router_sample>>
vars == <<engine, now, ingress, generations, registry, connections, router>>

PC == {"none", "connected", "read", "frames", "read_progress", "end", "exit", "done"}

Running(c) == pc[c] \notin {"none", "done"}

Goto(c, from, to) ==
  /\ pc[c] = from
  /\ pc' = [pc EXCEPT ![c] = to]

Init ==
  /\ ChannelInit
  /\ generations = [b \in Brokers |-> 0]
  /\ active_generations = [b \in Brokers |-> 0]
  /\ active_sockets = [b \in Brokers |-> 0]
  /\ shut = {}
  /\ pc = [c \in Connections |-> "none"]
  /\ sample = [c \in Connections |-> 0]
  /\ decoded = [c \in Connections |-> 0]
  /\ reads = [c \in Connections |-> 0]
  /\ to_report = {}
  /\ router_sample = [b \in Brokers |-> 0]

-----------------------------------------------------------------------------
(* The router thread.                                                        *)

RouterIdle == to_report = {}

\* Mutant: the superseded connection's socket is left open.
RouteWithoutShutdown(b) ==
  LET g == generations[b] + 1
  IN /\ RouterIdle
     /\ g <= MaxGeneration
     /\ generations' = [generations EXCEPT ![b] = g]
     /\ active_generations' = [active_generations EXCEPT ![b] = g]
     /\ active_sockets' = [active_sockets EXCEPT ![b] = g]
     /\ pc' = [pc EXCEPT ![<<b, g>>] = "connected"]
     /\ UNCHANGED <<engine, now, ingress, shut, sample, decoded, reads, router>>

\* A connection for broker b passed the handshake.  If the thread does not
\* start, its guard is dropped with the closure and unregisters it at once.
Route(b) ==
  LET g == generations[b] + 1
  IN /\ RouterIdle
     /\ g <= MaxGeneration
     /\ generations' = [generations EXCEPT ![b] = g]
     /\ shut' = IF active_sockets[b] = 0 THEN shut ELSE shut \cup {<<b, active_sockets[b]>>}
     /\ \E cloned \in CloneOutcomes, spawned \in SpawnOutcomes :
          /\ active_generations' = [active_generations EXCEPT ![b] = IF spawned THEN g ELSE 0]
          /\ active_sockets' = [active_sockets EXCEPT ![b] = IF cloned /\ spawned THEN g ELSE 0]
          /\ pc' = [pc EXCEPT ![<<b, g>>] = IF spawned THEN "connected" ELSE "done"]
     /\ UNCHANGED <<engine, now, ingress, sample, decoded, reads, router>>

\* No connection waits: progress is due for every broker, connected or not.
StartProgress ==
  /\ RouterIdle
  /\ to_report' = Brokers
  /\ UNCHANGED <<engine, now, ingress, generations, registry, connections, router_sample>>

\* report_idle_progress, in the order the receiver map iterates.
RouterSample(b) ==
  /\ b \in to_report
  /\ \A a \in Brokers : router_sample[a] = 0
  /\ router_sample' = [router_sample EXCEPT ![b] = now]
  /\ UNCHANGED <<engine, now, ingress, generations, registry, connections, to_report>>

RouterProgress(b) ==
  /\ router_sample[b] # 0
  /\ Submit([type |-> "Progress", broker_id |-> b, watermark_ns |-> router_sample[b]])
  /\ router_sample' = [router_sample EXCEPT ![b] = 0]
  /\ to_report' = to_report \ {b}
  /\ UNCHANGED <<engine, now, generations, registry, connections>>

-----------------------------------------------------------------------------
(* The thread of connection c: handle_routed_connection.                     *)

SubmitConnected(c) ==
  /\ Goto(c, "connected", "read")
  /\ Submit([type |-> "Connected", broker_id |-> c[1], generation |-> c[2]])
  /\ UNCHANGED <<engine, now, generations, registry, sample, decoded, reads, router>>

\* A socket that was shut still delivers what it had buffered.
Read(c) ==
  /\ Goto(c, "read", "frames")
  /\ reads[c] < MaxReads
  /\ reads' = [reads EXCEPT ![c] = @ + 1]
  /\ sample' = [sample EXCEPT ![c] = now]
  /\ \E n \in 1 .. MaxFramesPerRead : decoded' = [decoded EXCEPT ![c] = n]
  /\ UNCHANGED <<engine, now, ingress, generations, registry, router>>

SubmitFrame(c) ==
  /\ Goto(c, "frames", IF decoded[c] = 1 THEN "read" ELSE "frames")
  /\ decoded' = [decoded EXCEPT ![c] = @ - 1]
  /\ sample' = [sample EXCEPT ![c] = IF decoded[c] = 1 THEN 0 ELSE @]
  /\ SubmitSomeFrame(c[1], sample[c])
  /\ UNCHANGED <<engine, now, generations, registry, reads, router>>

\* A read that times out; on a socket that was shut it returns at once instead.
IdleSample(c) ==
  /\ Goto(c, "read", "read_progress")
  /\ c \notin shut
  /\ sample' = [sample EXCEPT ![c] = now]
  /\ UNCHANGED <<engine, now, ingress, generations, registry, decoded, reads, router>>

SubmitProgress(c) ==
  /\ Goto(c, "read_progress", "read")
  /\ Submit([type |-> "Progress", broker_id |-> c[1], watermark_ns |-> sample[c]])
  /\ sample' = [sample EXCEPT ![c] = 0]
  /\ UNCHANGED <<engine, now, generations, registry, decoded, reads, router>>

\* End of file (shut or closed by the EA), timeout, error: see DirectIngest.
CloseConnection(c) ==
  /\ Goto(c, "read", "end") \/ Goto(c, "frames", "end")
  /\ decoded' = [decoded EXCEPT ![c] = 0]
  /\ sample' = [sample EXCEPT ![c] = 0]
  /\ UNCHANGED <<engine, now, ingress, generations, registry, reads, router>>

SubmitEnd(c) ==
  /\ Goto(c, "end", "exit")
  /\ Submit([type |-> "End", broker_id |-> c[1], generation |-> c[2]])
  /\ UNCHANGED <<engine, now, generations, registry, sample, decoded, reads, router>>

\* ActiveConnectionGuard::drop unregisters the connection, unless a later one
\* has registered itself.
DropGuard(c) ==
  LET current == active_generations[c[1]] = c[2]
  IN /\ Goto(c, "exit", "done")
     /\ active_generations' = IF current THEN [active_generations EXCEPT ![c[1]] = 0]
                              ELSE active_generations
     /\ active_sockets' = IF current THEN [active_sockets EXCEPT ![c[1]] = 0]
                          ELSE active_sockets
     /\ UNCHANGED <<engine, now, ingress, generations, shut, sample, decoded, reads, router>>

Connection(c) ==
  \/ SubmitConnected(c) \/ Read(c) \/ SubmitFrame(c) \/ IdleSample(c)
  \/ SubmitProgress(c) \/ CloseConnection(c) \/ SubmitEnd(c) \/ DropGuard(c)

Router ==
  \/ StartProgress
  \/ \E b \in Brokers : Route(b) \/ RouterSample(b) \/ RouterProgress(b)

-----------------------------------------------------------------------------
Tick == AdvanceClock /\ UNCHANGED <<generations, registry, connections, router>>

Worker == (TakeItem \/ Drain) /\ UNCHANGED <<generations, registry, connections, router>>

Next ==
  \/ Tick
  \/ Router
  \/ \E c \in Connections : Connection(c)
  \/ Worker

Spec == Init /\ [][Next]_vars

\* The worker runs; every thread's turn to submit comes (see DirectIngest); the
\* guard is dropped; a read of a socket that was shut returns.
Fairness ==
  /\ WF_vars(Worker)
  /\ \A b \in Brokers : SF_vars(RouterProgress(b))
  /\ \A c \in Connections :
       /\ SF_vars(SubmitConnected(c) \/ SubmitFrame(c) \/ SubmitProgress(c) \/ SubmitEnd(c))
       /\ WF_vars(DropGuard(c))
       /\ WF_vars(c \in shut /\ CloseConnection(c))

FairSpec == Spec /\ Fairness

(* The runs follow HandlerSpec, which completes each handler call before     *)
(* anything else moves (see DirectIngest); the proofs are about Spec.        *)
HandlerNext ==
  /\ Next
  /\ phase # "idle" => UNCHANGED <<now, ingress, generations, registry, connections, router>>

HandlerSpec == Init /\ [][HandlerNext]_vars

HandlerFairSpec == HandlerSpec /\ Fairness

-----------------------------------------------------------------------------
\* The types of all variables.
TypeOK ==
  /\ ChannelTypeOK
  /\ generations \in [Brokers -> 0 .. MaxGeneration]
  /\ active_generations \in [Brokers -> 0 .. MaxGeneration]
  /\ active_sockets \in [Brokers -> 0 .. MaxGeneration]
  /\ shut \subseteq Connections
  /\ pc \in [Connections -> PC]
  /\ sample \in [Connections -> Time]
  /\ decoded \in [Connections -> 0 .. MaxFramesPerRead]
  /\ reads \in [Connections -> 0 .. MaxReads]
  /\ to_report \subseteq Brokers
  /\ router_sample \in [Brokers -> Time]

\* Takeover: at most one running connection of a broker has a socket that was
\* not shut, however connections start, end and unregister (router.rs, "if a
\* previous connection is still active for this broker, shut down its socket").
OneOpenConnection ==
  \A b \in Brokers : \A g, h \in Generations :
    (/\ Running(<<b, g>>) /\ <<b, g>> \notin shut
     /\ Running(<<b, h>>) /\ <<b, h>> \notin shut) => g = h

\* A channel never stays connected without anybody to end it: the connection
\* whose generation holds the channel has its End still to submit, or to be
\* handled (engine.rs, Connected and End).
ConnectedChannelHasOwner ==
  \A b \in Brokers : is_connected[b] =>
    \/ pc[<<b, generation[b]>>] \in {"read", "frames", "read_progress", "end"}
    \/ \E i \in 1 .. Len(ingress) :
         ingress[i] = [type |-> "End", broker_id |-> b, generation |-> generation[b]]

\* Takeover at the shared router.  However connections start, end, fail to start and
\* unregister, at most one running connection of a broker has a socket that was not
\* shut, and a channel is connected only while the connection it is connected
\* through runs or its End is on the way (router.rs; engine.rs, Connected and End).
TakeoverCorrect == TypeOK /\ OneOpenConnection /\ ConnectedChannelHasOwner

\* A superseded connection comes to its end, whatever its peer does.
SupersededEventuallyEnds ==
  \A b \in Brokers : \A g, h \in Generations :
    g < h => (Running(<<b, g>>) /\ Running(<<b, h>>)) ~> ~Running(<<b, g>>)

\* The engine follows a broker's connections in the order the router made them:
\* the generation of a channel never goes back (the takeover test of
\* tests/transport_test.rs asserts that [1, 2] is recorded).
GenerationNeverRegresses ==
  [][\A b \in Brokers : generation'[b] >= generation[b]]_generation

\* See DirectIngest; here the router reports the progress of a broker whose
\* connection still holds frames it sampled earlier.
MergeInReceiveOrder == [][last_merged' >= last_merged]_last_merged
=============================================================================
