----------------------------- MODULE IngressChannel -----------------------------
(***************************************************************************)
(* What every receiver thread shares: the clock, the bounded ingress channel *)
(* and the engine worker that drains it into TickMerge                       *)
(* (src/src/runtime/coordinator.rs).  DirectIngest and RoutedIngest add the  *)
(* receiver threads of the two transports.                                   *)
(***************************************************************************)
EXTENDS TickMerge

CONSTANTS
  MaxFramesPerRead,  (* bound: frames one socket read completes            *)
  MaxReads           (* bound: reads per connection that complete a frame  *)

ASSUME ReadAssumption == MaxFramesPerRead \in Nat /\ MaxReads \in Nat

VARIABLES
  now,      (* the receive clock all threads share                         *)
  ingress   (* the bounded channel, oldest item first                      *)

\* bounded(max_frames_per_broker * brokers) in RuntimeCoordinator.
IngressCapacity == MaxPendingFrames * Cardinality(Brokers)

ChannelInit ==
  /\ EngineInit
  /\ now = 1
  /\ ingress = << >>

ChannelTypeOK ==
  /\ EngineTypeOK
  /\ now \in Time \ {0}
  /\ ingress \in Seq(IngressItem)
  /\ Len(ingress) <= IngressCapacity

\* Mutant: the channel is not bounded.
SubmitUnbounded(item) == ingress' = Append(ingress, item)

\* submit_ingress_item retries until the channel has room.
Submit(item) ==
  /\ Len(ingress) < IngressCapacity
  /\ ingress' = Append(ingress, item)

\* A frame decoded from a read whose clock sample was t.
SubmitSomeFrame(b, t) ==
  \E len \in WireLens, w \in WarmupFlags, p \in Payloads :
    Submit([ type |-> "Frame", broker_id |-> b,
             frame |-> [ broker_id |-> b, rx_mono_ns |-> t,
                         wire_len |-> len, warmup |-> w, payload |-> p ] ])

AdvanceClock ==
  /\ now < MaxTime
  /\ now' = now + 1
  /\ UNCHANGED <<engine, ingress>>

\* The engine worker (engine_worker_loop): recv, then the handler under the
\* engine lock.  The batch of up to 64 further items under the same lock is the
\* same sequence of handler calls.
TakeItem ==
  /\ ingress # << >>
  /\ OnIngressItem(Head(ingress))
  /\ ingress' = Tail(ingress)
  /\ UNCHANGED now

Drain == DrainStep /\ UNCHANGED <<now, ingress>>
=============================================================================
