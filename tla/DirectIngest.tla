------------------------------ MODULE DirectIngest ------------------------------
(***************************************************************************)
(* The ingest pipeline with one listener per broker (mt5.auto_deploy off):   *)
(* TransportReceiver::run (src/src/transport/tcp.rs) accepts a broker's      *)
(* connections one after the other in one thread, and every thread feeds the *)
(* ingress channel.                                                          *)
(*                                                                           *)
(* A receiver reads the clock once per socket read, before it decodes,       *)
(* persists and submits the frames that read completed; a read that times out*)
(* samples the clock for a Progress item instead.  Between the sample and the*)
(* submission anything can happen elsewhere: that gap is what the merge must *)
(* survive.                                                                  *)
(***************************************************************************)
EXTENDS IngressChannel

VARIABLES
  pc,       (* per broker: where its receiver thread is                    *)
  accepted, (* per broker: the thread's local `generation`                 *)
  sample,   (* per broker: the clock sample the thread holds, 0 for none   *)
  decoded,  (* per broker: frames of the read still to submit              *)
  reads     (* per broker: reads of this connection that completed a frame *)

receivers == <<pc, accepted, sample, decoded, reads>>
vars == <<engine, now, ingress, receivers>>

PC == {"listen", "listen_progress", "connected", "read", "frames",
       "read_progress", "end"}

Goto(b, from, to) ==
  /\ pc[b] = from
  /\ pc' = [pc EXCEPT ![b] = to]

Init ==
  /\ ChannelInit
  /\ pc = [b \in Brokers |-> "listen"]
  /\ accepted = [b \in Brokers |-> 0]
  /\ sample = [b \in Brokers |-> 0]
  /\ decoded = [b \in Brokers |-> 0]
  /\ reads = [b \in Brokers |-> 0]

Tick == AdvanceClock /\ UNCHANGED receivers

-----------------------------------------------------------------------------
(* The receiver thread of broker b.                                          *)

Accept(b) ==
  /\ Goto(b, "listen", "connected")
  /\ accepted[b] < MaxGeneration
  /\ accepted' = [accepted EXCEPT ![b] = @ + 1]
  /\ reads' = [reads EXCEPT ![b] = 0]
  /\ UNCHANGED <<engine, now, ingress, sample, decoded>>

SubmitConnected(b) ==
  /\ Goto(b, "connected", "read")
  /\ Submit([type |-> "Connected", broker_id |-> b, generation |-> accepted[b]])
  /\ UNCHANGED <<engine, now, accepted, sample, decoded, reads>>

\* A read completes n frames; all of them carry the sample taken here.
Read(b) ==
  /\ Goto(b, "read", "frames")
  /\ reads[b] < MaxReads
  /\ reads' = [reads EXCEPT ![b] = @ + 1]
  /\ sample' = [sample EXCEPT ![b] = now]
  /\ \E n \in 1 .. MaxFramesPerRead : decoded' = [decoded EXCEPT ![b] = n]
  /\ UNCHANGED <<engine, now, ingress, accepted>>

SubmitFrame(b) ==
  /\ Goto(b, "frames", IF decoded[b] = 1 THEN "read" ELSE "frames")
  /\ decoded' = [decoded EXCEPT ![b] = @ - 1]
  /\ sample' = [sample EXCEPT ![b] = IF decoded[b] = 1 THEN 0 ELSE @]
  /\ SubmitSomeFrame(b, sample[b])
  /\ UNCHANGED <<engine, now, accepted, reads>>

\* The accept or the read found nothing; a Progress item is due.
IdleSample(b) ==
  /\ Goto(b, "listen", "listen_progress") \/ Goto(b, "read", "read_progress")
  /\ sample' = [sample EXCEPT ![b] = now]
  /\ UNCHANGED <<engine, now, ingress, accepted, decoded, reads>>

SubmitProgress(b) ==
  /\ Goto(b, "listen_progress", "listen") \/ Goto(b, "read_progress", "read")
  /\ Submit([type |-> "Progress", broker_id |-> b, watermark_ns |-> sample[b]])
  /\ sample' = [sample EXCEPT ![b] = 0]
  /\ UNCHANGED <<engine, now, accepted, decoded, reads>>

\* handle_connection returns: end of file, activity timeout or socket error
\* while reading; a malformed frame, a failed durable write or a failed
\* acknowledgement in the middle of a read, whose other frames are dropped.
CloseConnection(b) ==
  /\ Goto(b, "read", "end") \/ Goto(b, "frames", "end")
  /\ decoded' = [decoded EXCEPT ![b] = 0]
  /\ sample' = [sample EXCEPT ![b] = 0]
  /\ UNCHANGED <<engine, now, ingress, accepted, reads>>

SubmitEnd(b) ==
  /\ Goto(b, "end", "listen")
  /\ Submit([type |-> "End", broker_id |-> b, generation |-> accepted[b]])
  /\ UNCHANGED <<engine, now, accepted, sample, decoded, reads>>

Receiver(b) ==
  \/ Accept(b) \/ SubmitConnected(b) \/ Read(b) \/ SubmitFrame(b)
  \/ IdleSample(b) \/ SubmitProgress(b) \/ CloseConnection(b) \/ SubmitEnd(b)

-----------------------------------------------------------------------------
Worker == (TakeItem \/ Drain) /\ UNCHANGED receivers

Next ==
  \/ Tick
  \/ \E b \in Brokers : Receiver(b)
  \/ Worker

Spec == Init /\ [][Next]_vars

\* The engine worker always runs and the clock goes on.  A thread whose submission
\* finds the channel full stays registered as a waiting sender, and every item the
\* worker takes wakes one: its turn comes although other threads fill the channel
\* up again, which is strong fairness.  A read and an accept time out every
\* progress interval, so a thread that waits in one keeps reporting progress; it
\* need not ever accept a connection, read a frame or be closed.
Fairness ==
  /\ WF_vars(Worker) /\ WF_vars(Tick)
  /\ \A b \in Brokers :
       /\ SF_vars(SubmitConnected(b) \/ SubmitFrame(b) \/ SubmitProgress(b) \/ SubmitEnd(b))
       /\ WF_vars(IdleSample(b))

FairSpec == Spec /\ Fairness

(* The steps of the ingress handler read and write engine variables only, and*)
(* no other step reads those, so they commute with everything the receivers  *)
(* and the clock do: the runs follow HandlerSpec, which completes each       *)
(* handler call before anything else moves.  The proofs are about Spec.      *)
HandlerNext ==
  /\ Next
  /\ phase # "idle" => UNCHANGED <<now, ingress, receivers>>

HandlerSpec == Init /\ [][HandlerNext]_vars

HandlerFairSpec == HandlerSpec /\ Fairness

-----------------------------------------------------------------------------
\* The types of all variables.
TypeOK ==
  /\ ChannelTypeOK
  /\ pc \in [Brokers -> PC]
  /\ accepted \in [Brokers -> 0 .. MaxGeneration]
  /\ sample \in [Brokers -> Time]
  /\ decoded \in [Brokers -> 0 .. MaxFramesPerRead]
  /\ reads \in [Brokers -> 0 .. MaxReads]

\* The merge releases live frames in the order of their receive times, across
\* all brokers, connections and reconnections: "The merge watermark normally
\* preserves a deterministic multi-feed ordering" (engine.rs).  Frames that
\* force_drain_overflow takes out of order, and says so, do not count.
MergeInReceiveOrder == [][last_merged' >= last_merged]_last_merged

\* Nothing that was received later overtakes: every live frame that is still
\* on its way - queued in the engine, queued in the channel, or being decoded by
\* a receiver - was received no earlier than the last frame the merge released.
NothingOvertaken ==
  \A b \in Brokers :
    /\ \A i \in 1 .. Len(pending_frames[b]) : pending_frames[b][i].rx_mono_ns >= last_merged
    /\ \A i \in 1 .. Len(ingress) :
         ingress[i].type = "Frame" => ingress[i].frame.rx_mono_ns >= last_merged
    /\ pc[b] = "frames" => sample[b] >= last_merged

\* Once the channel is drained, the engine and the receiver agree on which
\* brokers are connected and on the generation of the live connection: an End
\* is never applied to a later connection and never missed.
EngineAgreesWithReceiver ==
  (ingress = << >> /\ phase = "idle") =>
    \A b \in Brokers :
      /\ is_connected[b] <=> pc[b] \in {"read", "frames", "read_progress", "end"}
      /\ is_connected[b] => generation[b] = accepted[b]

\* A queued frame does not wait for ever: brokers that are silent or gone do not
\* hold the others' frames back.
PendingEventuallyDrained ==
  \A b \in Brokers : (pending_frames[b] # << >>) ~> (pending_frames[b] = << >>)
=============================================================================
