------------------------------ MODULE MCThreads ------------------------------
(***************************************************************************)
(* The parts whose threads and processes interleave, for TLC, side by side:  *)
(* the EA's batches and their acknowledgements, twice (with batches of two   *)
(* ticks; and, in Ack, with a second start of the EA), the threads of the    *)
(* runtime and those of a replay.  One part runs in a behaviour and the      *)
(* others stay where they start.                                             *)
(* TLC evaluates the constant definitions of StopAndWait once, with the      *)
(* values of the .cfg: Ack's sets of sequence numbers and batches are larger *)
(* than its bounds ask for, which changes none of its states.                *)
(***************************************************************************)
EXTENDS StopAndWait, Runtime, ReplaySession

CONSTANTS
  Parts,          \* the parts a behaviour may run
  Idle            \* what Ack's variables hold while another part runs

VARIABLES
  running_part,   \* the part that runs
  ack_session, ack_warmed_epoch, ack_current_sequence, ack_pending_batch,
  ack_pending_queued, ack_connection, ack_opened, ack_sent, ack_replies,
  ack_epoch, ack_thread, ack_held, ack_ingress, ack_batch, ack_ledger,
  ack_ledger_session, ack_delivered, ack_missing, ack_logged, ack_committed

\* One tick of each time, of one broker.
RecordedTicks == <<[broker |-> 1, at |-> 1], [broker |-> 1, at |-> 2]>>

ASSUME RuntimeWithinLimits == RuntimeLimits
ASSUME ReplayWithinLimits == ReplayLimits

Ack == INSTANCE StopAndWait WITH
  MaxSequence <- 1, BatchCount <- 1, MaxSession <- 2, session <- ack_session,
  warmed_epoch <- ack_warmed_epoch, current_sequence <- ack_current_sequence,
  pending_batch <- ack_pending_batch, pending_queued <- ack_pending_queued,
  connection <- ack_connection, opened <- ack_opened, sent <- ack_sent,
  replies <- ack_replies, epoch <- ack_epoch, thread <- ack_thread,
  held <- ack_held, ingress <- ack_ingress, batch <- ack_batch,
  ledger <- ack_ledger, ledger_session <- ack_ledger_session,
  delivered <- ack_delivered, missing <- ack_missing, logged <- ack_logged,
  committed <- ack_committed

ackVars ==
  << ack_session, ack_warmed_epoch, ack_current_sequence, ack_pending_batch,
     ack_pending_queued, ack_connection, ack_opened, ack_sent, ack_replies,
     ack_epoch, ack_thread, ack_held, ack_ingress, ack_batch, ack_ledger,
     ack_ledger_session, ack_delivered, ack_missing, ack_logged, ack_committed >>

-----------------------------------------------------------------------------
MCInit ==
  /\ running_part \in Parts
  /\ Init /\ RuntimeInit /\ ReplayInit
  /\ running_part # "runtime" => auto_deploy = FALSE
  /\ IF running_part = "ack" THEN Ack!Init
     ELSE /\ ack_session = Idle /\ ack_warmed_epoch = Idle /\ ack_current_sequence = Idle
          /\ ack_pending_batch = Idle /\ ack_pending_queued = Idle /\ ack_connection = Idle
          /\ ack_opened = Idle /\ ack_sent = Idle /\ ack_replies = Idle
          /\ ack_epoch = Idle /\ ack_thread = Idle /\ ack_held = Idle
          /\ ack_ingress = Idle /\ ack_batch = Idle /\ ack_ledger = Idle
          /\ ack_ledger_session = Idle /\ ack_delivered = Idle /\ ack_missing = Idle
          /\ ack_logged = Idle /\ ack_committed = Idle

BatchesRun ==
  running_part = "batches" /\ Next /\ UNCHANGED <<running_part, ackVars, runtimeVars, replayVars>>
AckRuns ==
  running_part = "ack" /\ Ack!Next /\ UNCHANGED <<running_part, vars, runtimeVars, replayVars>>
RuntimeRuns ==
  running_part = "runtime" /\ RuntimeNext /\ UNCHANGED <<running_part, vars, ackVars, replayVars>>
ReplayRuns ==
  running_part = "replay" /\ ReplayNext /\ UNCHANGED <<running_part, vars, ackVars, runtimeVars>>

MCNext == BatchesRun \/ AckRuns \/ RuntimeRuns \/ ReplayRuns

MCVars == <<running_part, vars, ackVars, runtimeVars, replayVars>>

\* The fairness of each module (StopAndWait's Fairness, RuntimeFairness,
\* ReplayFairness), for the part that runs.
MCFairness ==
  /\ WF_ackVars(running_part = "ack" /\ Ack!Connect)
  /\ WF_ackVars(running_part = "ack" /\ Ack!Send)
  /\ WF_ackVars(running_part = "ack" /\ Ack!PollAndCommitAck)
  /\ WF_ackVars(/\ running_part = "ack" /\ ack_connection # 0 /\ ack_thread[ack_connection] = "done"
                /\ Ack!ConnectionLost)
  /\ WF_ackVars(running_part = "ack" /\ Ack!TakeBatch)
  /\ WF_ackVars(running_part = "ack" /\ Ack!ObserveTick)
  /\ \A c \in Connections :
       WF_ackVars(/\ running_part = "ack"
                  /\ Ack!ReadBatch(c) \/ Ack!Persist(c) \/ Ack!SubmitBatch(c) \/ Ack!SendBatchAck(c))
  /\ \A r \in Receivers : WF_runtimeVars(running_part = "runtime" /\ ReceiverProgress(r))
  /\ WF_runtimeVars(running_part = "runtime" /\ RouterProgress)
  /\ WF_runtimeVars(running_part = "runtime" /\ WorkerStep)
  /\ WF_runtimeVars(running_part = "runtime" /\ PublisherStep)
  /\ WF_runtimeVars(running_part = "runtime" /\ StopProgress)
  /\ WF_replayVars(running_part = "replay" /\ PumpStep)
  /\ WF_replayVars(running_part = "replay" /\ WsStep)
  /\ WF_replayVars(running_part = "replay" /\ replayStop = "joining" /\ StopReplayStep)

MCSpec == MCInit /\ [][MCNext]_MCVars /\ MCFairness

-----------------------------------------------------------------------------
\* Nothing waits for ever.  A batch the EA holds is committed or given up for a
\* warm-up, also when the EA starts again (TickCollector.mq5, handle_connection);
\* stop() is followed by the end of every thread, whatever the peers do
\* (coordinator.rs); a tick whose time has come is shown, after a pause and after a
\* seek (pump.rs).
Waiting ==
  \/ running_part = "ack" /\ ack_pending_batch # NoBatch
  \/ running_part = "runtime" /\ coordinator # "running"
  \/ running_part = "replay" /\ TicksDue

Answered ==
  \/ running_part = "ack" /\ ack_pending_batch = NoBatch
  \/ running_part = "runtime" /\ coordinator = "done"
  \/ running_part = "replay" /\ TicksShown

NothingWaitsForEver == Waiting ~> Answered
=============================================================================
