------------------------------ MODULE StopAndWait ------------------------------
(***************************************************************************)
(* One broker's ticks from the collector EA (src/mt5/TickCollector.mq5) to   *)
(* the sequence ledger of the engine.  The EA keeps one numbered batch until *)
(* its acknowledgement arrives and sends it again on every new connection;   *)
(* a receiver thread per connection (src/src/transport/tcp.rs) writes it to  *)
(* the raw log, submits it to the ingress channel and acknowledges it.       *)
(*                                                                           *)
(* Connections break at any time, on either side, with whatever they carry.  *)
(* A thread that is busy when its connection breaks goes on with the batch it*)
(* holds, so threads of several connections may be at work.  TickScope itself*)
(* may be killed and started again (a new epoch in the connection map), and  *)
(* the EA may be reloaded (a new session).                                   *)
(*                                                                           *)
(* The merge keeps the frames of one broker in order, so ingress stands for  *)
(* the channel and the broker's queue in the engine together.                *)
(***************************************************************************)
EXTENDS SequenceLedger, FiniteSets

CONSTANTS
  BatchCount,      (* InpBatchCount: most ticks in a batch                 *)
  IngressCapacity, (* frames the channel and the queue hold                *)
  RawCapture,      (* is the raw log on                                    *)
  MaxConnections,  (* bound: connections                                   *)
  MaxEpoch,        (* bound: starts of TickScope                           *)
  MaxSession       (* bound: starts of the EA                              *)

ASSUME StopAndWaitAssumption ==
  /\ BatchCount \in Nat \ {0}
  /\ IngressCapacity \in Nat \ {0}
  /\ RawCapture \in BOOLEAN
  /\ MaxConnections \in Nat
  /\ MaxEpoch \in Nat \ {0}
  /\ MaxSession \in Nat \ {0}

VARIABLES
  \* the EA
  session,           (* g_session_id, numbered in the order they are made  *)
  warmed_epoch,      (* epoch the warm-up was started for (g_warmup_started*)
                     (* and g_session_epoch), 0 before the first           *)
  current_sequence,  (* g_current_sequence: next number to assign          *)
  pending_batch,     (* g_pending_packet while g_pending_batch             *)
  pending_queued,    (* g_pending_queued                                   *)
  connection,        (* the connected socket, 0 for none                   *)
  \* connections
  opened,            (* connections made so far                            *)
  sent,              (* per connection: batches on the way to TickScope    *)
  replies,           (* per connection: acknowledgements on the way back   *)
  \* TickScope
  epoch,             (* session_epoch of this start                        *)
  thread,            (* per connection: where its receiver thread is       *)
  held,              (* per connection: the batch the thread works on      *)
  ingress,           (* batches accepted and not yet taken by the engine   *)
  batch,             (* the batch the engine works on                      *)
  ledger,            (* BrokerChannelState.ledger                          *)
  ledger_session,    (* BrokerChannelState.session_id, 0 for none          *)
  \* history
  delivered,         (* ticks of this session processed as New, in order,  *)
                     (* since this start of TickScope                      *)
  missing,           (* numbers of this session reported in a SEQUENCE_GAP  *)
                     (* since then                                         *)
  logged,            (* <<epoch, session, number>> in the raw log          *)
  committed          (* <<epoch, session, number>> the EA has committed    *)

ea      == <<session, warmed_epoch, current_sequence, pending_batch, pending_queued, connection>>
network == <<opened, sent, replies>>
threads == <<thread, held>>
engine  == <<ingress, batch, ledger, ledger_session, delivered, missing>>
vars    == <<ea, network, epoch, threads, engine, logged, committed>>

Connections == 1 .. MaxConnections
NoBatch == [session |-> 0, first |-> 0, last |-> 0]
Batch == [session : 1 .. MaxSession, first : Sequence, last : Sequence]

Numbers(b) == b.first .. b.last

Init ==
  /\ session = 1
  /\ warmed_epoch = 0
  /\ current_sequence = 0
  /\ pending_batch = NoBatch
  /\ pending_queued = FALSE
  /\ connection = 0
  /\ opened = 0
  /\ sent = [c \in Connections |-> << >>]
  /\ replies = [c \in Connections |-> << >>]
  /\ epoch = 1
  /\ thread = [c \in Connections |-> "none"]
  /\ held = [c \in Connections |-> NoBatch]
  /\ ingress = << >>
  /\ batch = NoBatch
  /\ ledger = NewLedger
  /\ ledger_session = 0
  /\ delivered = << >>
  /\ missing = {}
  /\ logged = {}
  /\ committed = {}

-----------------------------------------------------------------------------
(* The EA.  Its handlers run one at a time.                                  *)

\* Mutant: the pending batch still counts as sent.
ConnectKeepingQueued ==
  /\ connection = 0
  /\ opened < MaxConnections
  /\ opened' = opened + 1
  /\ connection' = opened'
  /\ warmed_epoch' = epoch
  /\ current_sequence' = IF warmed_epoch = epoch THEN current_sequence ELSE 0
  /\ pending_batch' = IF warmed_epoch = epoch THEN pending_batch ELSE NoBatch
  /\ thread' = [thread EXCEPT ![opened'] = "read"]
  /\ UNCHANGED <<session, pending_queued, sent, replies, epoch, held, engine, logged, committed>>

\* SlowPathSupervisor: connect, greet, mark the pending batch for another
\* sending, and start the warm-up, which begins the numbering anew, if
\* TickScope was started since the last one or the EA is new.
Connect ==
  /\ connection = 0
  /\ opened < MaxConnections
  /\ opened' = opened + 1
  /\ connection' = opened'
  /\ pending_queued' = FALSE
  /\ warmed_epoch' = epoch
  /\ current_sequence' = IF warmed_epoch = epoch THEN current_sequence ELSE 0
  /\ pending_batch' = IF warmed_epoch = epoch THEN pending_batch ELSE NoBatch
  /\ thread' = [thread EXCEPT ![opened'] = "read"]
  /\ UNCHANGED <<session, sent, replies, epoch, held, engine, logged, committed>>

\* CollectAndStreamTicks without a pending batch: number the new ticks.  The
\* packet is queued by the same call (Send), or by a later one if that fails.
Collect ==
  /\ connection # 0
  /\ pending_batch = NoBatch
  /\ \E n \in 1 .. BatchCount :
       /\ current_sequence + n <= MaxSequence
       /\ pending_batch' = [ session |-> session,
                             first   |-> current_sequence,
                             last    |-> current_sequence + n - 1 ]
  /\ pending_queued' = FALSE
  /\ UNCHANGED <<session, warmed_epoch, current_sequence, connection, network, epoch,
                 threads, engine, logged, committed>>

\* QueuePendingBatch.
Send ==
  /\ connection # 0
  /\ pending_batch # NoBatch
  /\ ~pending_queued
  /\ pending_queued' = TRUE
  /\ sent' = [sent EXCEPT ![connection] = Append(@, pending_batch)]
  /\ UNCHANGED <<session, warmed_epoch, current_sequence, pending_batch, connection, opened,
                 replies, epoch, threads, engine, logged, committed>>

LastReply == replies[connection][Len(replies[connection])]

\* PollAndCommitAck: drain the acknowledgements; the exact one commits the
\* batch, any other one drops the connection.
PollAndCommitAck ==
  /\ connection # 0
  /\ replies[connection] # << >>
  /\ replies' = [replies EXCEPT ![connection] = << >>]
  /\ IF pending_batch = NoBatch
     THEN UNCHANGED <<current_sequence, pending_batch, pending_queued, connection, committed>>
     ELSE IF LastReply # pending_batch.last
     THEN /\ connection' = 0
          /\ pending_queued' = FALSE
          /\ UNCHANGED <<current_sequence, pending_batch, committed>>
     ELSE /\ current_sequence' = pending_batch.last + 1
          /\ pending_batch' = NoBatch
          /\ pending_queued' = FALSE
          /\ committed' = committed \cup {<<warmed_epoch, session, s>> : s \in Numbers(pending_batch)}
          /\ UNCHANGED connection
  /\ UNCHANGED <<session, warmed_epoch, opened, sent, epoch, threads, engine, logged>>

\* TryCollectAndStream gives up waiting for the acknowledgement.
AckTimeout ==
  /\ connection # 0
  /\ opened < MaxConnections
  /\ pending_batch # NoBatch
  /\ connection' = 0
  /\ pending_queued' = FALSE
  /\ UNCHANGED <<session, warmed_epoch, current_sequence, pending_batch, network, epoch,
                 threads, engine, logged, committed>>

\* The EA finds its socket broken (IsConnected, Flush, PollReplies).
ConnectionLost ==
  /\ connection # 0
  /\ opened < MaxConnections
  /\ connection' = 0
  /\ UNCHANGED <<session, warmed_epoch, current_sequence, pending_batch, pending_queued,
                 network, epoch, threads, engine, logged, committed>>

\* OnDeinit and OnInit.  OnInit keeps the pending batch's variables, if the
\* terminal does; the warm-up of the next connection clears them.
ReloadEA ==
  /\ session < MaxSession
  /\ opened < MaxConnections
  /\ session' = session + 1
  /\ connection' = 0
  /\ warmed_epoch' = 0
  /\ current_sequence' = 0
  /\ delivered' = << >>
  /\ missing' = {}
  /\ UNCHANGED <<pending_batch, pending_queued, network, epoch, threads, ingress, batch, ledger,
                 ledger_session, logged, committed>>

-----------------------------------------------------------------------------
(* The receiver thread of connection c.                                      *)

\* handle_connection reads and decodes a batch.
ReadBatch(c) ==
  /\ thread[c] = "read"
  /\ sent[c] # << >>
  /\ sent' = [sent EXCEPT ![c] = Tail(@)]
  /\ held' = [held EXCEPT ![c] = Head(sent[c])]
  /\ thread' = [thread EXCEPT ![c] = IF RawCapture THEN "persist" ELSE "submit"]
  /\ UNCHANGED <<ea, opened, replies, epoch, engine, logged, committed>>

\* Mutant: the write is not waited for.
PersistNothing(c) ==
  /\ thread[c] = "persist"
  /\ thread' = [thread EXCEPT ![c] = "submit"]
  /\ UNCHANGED <<ea, network, epoch, held, engine, logged, committed>>

\* persist_raw_frame: returns when the frame has reached stable storage.
Persist(c) ==
  /\ thread[c] = "persist"
  /\ thread' = [thread EXCEPT ![c] = "submit"]
  /\ logged' = logged \cup {<<epoch, held[c].session, s>> : s \in Numbers(held[c])}
  /\ UNCHANGED <<ea, network, epoch, held, engine, committed>>

\* Mutant: a full channel does not keep the batch from being acknowledged.
SubmitOrDrop(c) ==
  /\ thread[c] = "submit"
  /\ ingress' = IF Len(ingress) < IngressCapacity THEN Append(ingress, held[c]) ELSE ingress
  /\ thread' = [thread EXCEPT ![c] = "ack"]
  /\ UNCHANGED <<ea, network, epoch, held, batch, ledger, ledger_session, delivered, missing, logged,
                 committed>>

\* Mutant: the channel is not bounded.
SubmitUnbounded(c) ==
  /\ thread[c] = "submit"
  /\ ingress' = Append(ingress, held[c])
  /\ thread' = [thread EXCEPT ![c] = "ack"]
  /\ UNCHANGED <<ea, network, epoch, held, batch, ledger, ledger_session, delivered, missing, logged,
                 committed>>

\* submit_ingress_item waits until the channel has room.
SubmitBatch(c) ==
  /\ thread[c] = "submit"
  /\ Len(ingress) < IngressCapacity
  /\ ingress' = Append(ingress, held[c])
  /\ thread' = [thread EXCEPT ![c] = "ack"]
  /\ UNCHANGED <<ea, network, epoch, held, batch, ledger, ledger_session, delivered, missing, logged,
                 committed>>

\* Mutant: the acknowledgement names the number after the last.
SendNextAck(c) ==
  /\ thread[c] = "ack"
  /\ thread' = [thread EXCEPT ![c] = "read"]
  /\ held' = [held EXCEPT ![c] = NoBatch]
  /\ replies' = [replies EXCEPT ![c] = Append(@, held[c].last + 1)]
  /\ UNCHANGED <<ea, opened, sent, epoch, engine, logged, committed>>

\* send_batch_ack.
SendBatchAck(c) ==
  /\ thread[c] = "ack"
  /\ thread' = [thread EXCEPT ![c] = "read"]
  /\ held' = [held EXCEPT ![c] = NoBatch]
  /\ replies' = [replies EXCEPT ![c] = Append(@, held[c].last)]
  /\ UNCHANGED <<ea, opened, sent, epoch, engine, logged, committed>>

\* handle_connection returns: end of file, activity timeout or error while
\* reading, a failed durable write, a failed acknowledgement.
CloseConnection(c) ==
  /\ thread[c] \in {"read", "persist", "ack"}
  /\ c # connection \/ opened < MaxConnections
  /\ thread' = [thread EXCEPT ![c] = "done"]
  /\ held' = [held EXCEPT ![c] = NoBatch]
  /\ UNCHANGED <<ea, network, epoch, engine, logged, committed>>

Receiver(c) ==
  \/ ReadBatch(c) \/ Persist(c) \/ SubmitBatch(c) \/ SendBatchAck(c) \/ CloseConnection(c)

-----------------------------------------------------------------------------
(* The engine: process_frame, one tick a step.                               *)

EngineIdle == batch = NoBatch

\* Mutant: every batch resets the ledger.
TakeBatchResetting ==
  /\ EngineIdle
  /\ ingress # << >>
  /\ batch' = Head(ingress)
  /\ ingress' = Tail(ingress)
  /\ ledger' = NewLedger
  /\ ledger_session' = Head(ingress).session
  /\ UNCHANGED <<ea, network, epoch, threads, delivered, missing, logged, committed>>

\* A batch of another session resets the ledger.
TakeBatch ==
  /\ EngineIdle
  /\ ingress # << >>
  /\ batch' = Head(ingress)
  /\ ingress' = Tail(ingress)
  /\ ledger' = IF Head(ingress).session = ledger_session THEN ledger ELSE NewLedger
  /\ ledger_session' = Head(ingress).session
  /\ UNCHANGED <<ea, network, epoch, threads, delivered, missing, logged, committed>>

ObserveTick ==
  LET s == batch.first
  IN /\ ~EngineIdle
     /\ ledger' = Observed(ledger, s)
     /\ delivered' = IF batch.session = session /\ Classify(ledger, s) = "New"
                     THEN Append(delivered, s) ELSE delivered
     /\ missing' = IF batch.session = session /\ GapBefore(ledger, s) # NoGap
                   THEN missing \cup (GapBefore(ledger, s)[1] .. GapBefore(ledger, s)[2])
                   ELSE missing
     /\ batch' = IF s = batch.last THEN NoBatch ELSE [batch EXCEPT !.first = s + 1]
     /\ UNCHANGED <<ea, network, epoch, threads, ingress, ledger_session, logged, committed>>

-----------------------------------------------------------------------------
\* TickScope is killed and started again: only the raw log survives.  What the
\* EA's socket has received stays readable.
RestartTickScope ==
  /\ epoch < MaxEpoch
  /\ opened < MaxConnections
  /\ epoch' = epoch + 1
  /\ sent' = [c \in Connections |-> << >>]
  /\ thread' = [c \in Connections |-> IF thread[c] = "none" THEN "none" ELSE "done"]
  /\ held' = [c \in Connections |-> NoBatch]
  /\ ingress' = << >>
  /\ batch' = NoBatch
  /\ ledger' = NewLedger
  /\ ledger_session' = 0
  /\ delivered' = << >>
  /\ missing' = {}
  /\ UNCHANGED <<ea, opened, replies, logged, committed>>

Next ==
  \/ Connect \/ Collect \/ Send \/ PollAndCommitAck \/ AckTimeout \/ ConnectionLost \/ ReloadEA
  \/ \E c \in Connections : Receiver(c)
  \/ TakeBatch \/ ObserveTick
  \/ RestartTickScope

Spec == Init /\ [][Next]_vars

\* The EA's timer calls its handlers: it reconnects, sends and polls, and it
\* notices a connection TickScope has dropped.  Threads and the engine go on with
\* what they hold.  Faults are finite in number (MaxConnections): the last
\* connection is neither lost nor given up.
Fairness ==
  /\ WF_vars(Connect) /\ WF_vars(Send) /\ WF_vars(PollAndCommitAck)
  /\ WF_vars(connection # 0 /\ thread[connection] = "done" /\ ConnectionLost)
  /\ WF_vars(TakeBatch) /\ WF_vars(ObserveTick)
  /\ \A c \in Connections :
       WF_vars(ReadBatch(c) \/ Persist(c) \/ SubmitBatch(c) \/ SendBatchAck(c))

FairSpec == Spec /\ Fairness

-----------------------------------------------------------------------------
\* The types of all variables; the channel is within its capacity.
TypeOK ==
  /\ session \in 1 .. MaxSession
  /\ warmed_epoch \in 0 .. MaxEpoch
  /\ current_sequence \in 0 .. MaxSequence + 1
  /\ pending_batch \in Batch \cup {NoBatch}
  /\ pending_queued \in BOOLEAN
  /\ connection \in Connections \cup {0}
  /\ opened \in 0 .. MaxConnections
  /\ sent \in [Connections -> Seq(Batch)]
  /\ replies \in [Connections -> Seq(Sequence)]
  /\ epoch \in 1 .. MaxEpoch
  /\ thread \in [Connections -> {"none", "read", "persist", "submit", "ack", "done"}]
  /\ held \in [Connections -> Batch \cup {NoBatch}]
  /\ ingress \in Seq(Batch) /\ Len(ingress) <= IngressCapacity
  /\ batch \in Batch \cup {NoBatch}
  /\ ledger \in Ledger
  /\ ledger_session \in 0 .. MaxSession
  /\ delivered \in Seq(Sequence)
  /\ missing \subseteq Sequence
  /\ logged \subseteq (1 .. MaxEpoch) \X (1 .. MaxSession) \X Sequence
  /\ committed \subseteq (0 .. MaxEpoch) \X (1 .. MaxSession) \X Sequence

\* The EA's side of the stream: numbered since this start of TickScope.
Collected ==
  IF warmed_epoch # epoch THEN 0
  ELSE IF pending_batch = NoBatch THEN current_sequence
  ELSE pending_batch.last + 1

Stream == INSTANCE TickStream WITH collected <- Collected, delivered <- delivered

\* The ticks of a session are processed in order, none twice and none left out,
\* although batches are sent again and threads of broken connections submit
\* theirs late (TickCollector.mq5: "prevents a socket disconnect from becoming
\* an irreversible source-data gap").
ImplementsTickStream == Stream!Spec

\* A SEQUENCE_GAP diagnostic is true: "One or more source tick sequences were not
\* observed" (engine.rs) is not said of a tick that was processed.
GapsWereNotObserved ==
  \A i \in 1 .. Len(delivered) : delivered[i] \notin missing

\* The EA never forgets a tick TickScope may lose: what it has committed is
\* processed, or accepted and still queued, as long as TickScope lives.
CommittedIsAccepted ==
  warmed_epoch = epoch =>
    \A s \in 0 .. current_sequence - 1 :
      \/ \E i \in 1 .. Len(delivered) : delivered[i] = s
      \/ batch.session = session /\ s \in Numbers(batch)
      \/ \E i \in 1 .. Len(ingress) : ingress[i].session = session /\ s \in Numbers(ingress[i])

\* With the raw log on, a tick the EA has committed is on stable storage, also
\* after TickScope was killed (tcp.rs: "stable storage completes before the
\* bounded ingress accepts the frame").
CommittedIsDurable == RawCapture => committed \subseteq logged

\* The EA never meets the acknowledgement of another batch than its pending one:
\* the branch "Unexpected ACK" of PollAndCommitAck is never taken.
AcknowledgementsMatch ==
  (connection # 0 /\ replies[connection] # << >>) =>
    pending_batch # NoBatch /\ LastReply = pending_batch.last

\* A batch the EA holds is committed, or given up for a warm-up, in the end: no
\* sequence of faults leaves the EA waiting for ever.
PendingEventuallyCommitted ==
  (pending_batch # NoBatch) ~> (pending_batch = NoBatch)
=============================================================================
