--------------------------- MODULE StopAndWait_proofs ---------------------------
(***************************************************************************)
(* Proofs about StopAndWait, for every number of connections, sessions and   *)
(* starts of TickScope, every batch size and channel capacity.               *)
(***************************************************************************)
EXTENDS StopAndWait, Shared_proofs

\* A function on the connections, of whatever values.
OnConnections(f) == f = [c \in Connections |-> f[c]]

\* Connections are numbered as they are made, and one that is not made yet is
\* empty.
Plumbing ==
  /\ epoch \in Nat \ {0}
  /\ opened \in 0 .. MaxConnections
  /\ connection \in 0 .. opened
  /\ OnConnections(sent) /\ OnConnections(replies)
  /\ OnConnections(thread) /\ OnConnections(held)
  /\ \A c \in Connections : c > opened =>
       sent[c] = << >> /\ replies[c] = << >> /\ thread[c] = "none"

\* The pending batch is one of this session; only between a reload and the next
\* connection it may be an older one.
PendingIsOfSession ==
  /\ warmed_epoch # 0 => pending_batch = NoBatch \/ pending_batch.session = session
  /\ connection # 0 => warmed_epoch # 0

Busy(c) == thread[c] \in {"persist", "submit", "ack"}

\* Where the pending batch of connection c is: on the way to TickScope, with the
\* receiver thread, on the way back as an acknowledgement, or nowhere.
Nowhere(c)  == sent[c] = << >> /\ ~Busy(c) /\ replies[c] = << >>
OnTheWay(c) == sent[c] = <<pending_batch>> /\ ~Busy(c) /\ replies[c] = << >>
WithThread(c) == sent[c] = << >> /\ Busy(c) /\ held[c] = pending_batch /\ replies[c] = << >>
Answered(c) == sent[c] = << >> /\ ~Busy(c) /\ replies[c] = <<pending_batch.last>>

\* Stop and wait: a live connection carries the pending batch at most once, and
\* nothing else.
OneInFlight ==
  connection # 0 =>
    /\ thread[connection] # "none"
    /\ thread[connection] # "done" => warmed_epoch = epoch
    /\ pending_queued => pending_batch # NoBatch
    /\ \/ Nowhere(connection)
       \/ pending_queued /\ (OnTheWay(connection) \/ WithThread(connection) \/ Answered(connection))

\* What the thread has written, or acknowledged, is logged under the epoch the EA
\* will commit it for.
LoggedBeforeAck ==
  (RawCapture /\ connection # 0
   /\ (thread[connection] \in {"submit", "ack"} \/ replies[connection] # << >>))
    => \A s \in Numbers(pending_batch) : <<warmed_epoch, session, s>> \in logged

\* AcknowledgementsMatch and CommittedIsDurable are not inductive: an
\* acknowledgement is right because of where the batch was before it.
WaitInv ==
  Plumbing /\ PendingIsOfSession /\ OneInFlight /\ LoggedBeforeAck /\ CommittedIsDurable

-----------------------------------------------------------------------------
LEMMA WaitInvInit == Init => WaitInv
<1> SUFFICES ASSUME Init PROVE WaitInv
  OBVIOUS
<1>1. Plumbing
  BY StopAndWaitAssumption DEF Init, Plumbing, OnConnections, Connections
<1>2. QED
  BY <1>1 DEF Init, WaitInv, PendingIsOfSession, OneInFlight, LoggedBeforeAck, CommittedIsDurable

-----------------------------------------------------------------------------
(* The EA.                                                                   *)

LEMMA ConnectKeepsInv == WaitInv /\ Connect => WaitInv'
<1> SUFFICES ASSUME WaitInv, Connect PROVE WaitInv'
  OBVIOUS
<1> DEFINE n == opened + 1
<1>1. /\ n \in Connections /\ n # 0 /\ opened \in Nat
      /\ opened' = n /\ connection' = n /\ warmed_epoch' = epoch
      /\ sent[n] = << >> /\ replies[n] = << >>
  BY StopAndWaitAssumption DEF Connect, WaitInv, Plumbing, Connections
<1>2. /\ OnConnections(thread')
      /\ thread'[n] = "read"
      /\ \A d \in Connections : d # n => thread'[d] = thread[d]
  <2>1. thread' = [thread EXCEPT ![n] = "read"]
    BY DEF Connect
  <2>2. QED
    BY <1>1, <2>1 DEF WaitInv, Plumbing, OnConnections
<1>3. Plumbing'
  BY <1>1, <1>2, StopAndWaitAssumption DEF Connect, WaitInv, Plumbing, Connections, OnConnections, engine
<1>4. PendingIsOfSession'
  BY <1>1 DEF Connect, WaitInv, Plumbing, PendingIsOfSession
<1>5. OneInFlight'
  BY <1>1, <1>2 DEF Connect, OneInFlight, Nowhere, Busy
<1>6. LoggedBeforeAck' /\ CommittedIsDurable'
  BY <1>1, <1>2 DEF Connect, WaitInv, LoggedBeforeAck, CommittedIsDurable
<1>7. QED
  BY <1>3, <1>4, <1>5, <1>6 DEF WaitInv

LEMMA CollectKeepsInv == WaitInv /\ Collect => WaitInv'
<1> SUFFICES ASSUME WaitInv, Collect PROVE WaitInv'
  OBVIOUS
<1>1. /\ pending_batch = NoBatch /\ pending_batch'.session = session /\ pending_queued' = FALSE
      /\ UNCHANGED <<session, warmed_epoch, connection, opened, sent, replies, epoch, thread, held,
                     logged, committed>>
  BY DEF Collect, network, threads
<1>2. Nowhere(connection)
  BY <1>1 DEF Collect, WaitInv, OneInFlight
<1>3. Plumbing' /\ PendingIsOfSession' /\ CommittedIsDurable'
  BY <1>1 DEF WaitInv, Plumbing, PendingIsOfSession, CommittedIsDurable
<1>4. OneInFlight'
  BY <1>1, <1>2 DEF WaitInv, OneInFlight, Nowhere, Busy
<1>5. LoggedBeforeAck'
  BY <1>1, <1>2 DEF LoggedBeforeAck, Nowhere, Busy
<1>6. QED
  BY <1>3, <1>4, <1>5 DEF WaitInv

LEMMA SendKeepsInv == WaitInv /\ Send => WaitInv'
<1> SUFFICES ASSUME WaitInv, Send PROVE WaitInv'
  OBVIOUS
<1> DEFINE c == connection
<1>1. /\ c \in Connections /\ c <= opened /\ Nowhere(c) /\ pending_batch # NoBatch
  BY StopAndWaitAssumption DEF Send, WaitInv, Plumbing, OneInFlight, Connections
<1>2. /\ pending_queued' = TRUE
      /\ sent' = [sent EXCEPT ![c] = <<pending_batch>>]
      /\ UNCHANGED <<session, warmed_epoch, pending_batch, connection, opened, replies, epoch,
                     thread, held, logged, committed>>
  BY <1>1 DEF Send, threads, Nowhere
<1>3. /\ OnConnections(sent')
      /\ sent'[c] = <<pending_batch>>
      /\ \A d \in Connections : d # c => sent'[d] = sent[d]
  BY <1>1, <1>2 DEF WaitInv, Plumbing, OnConnections
<1>4. Plumbing'
  BY <1>1, <1>2, <1>3 DEF WaitInv, Plumbing, Connections
<1>5. PendingIsOfSession' /\ LoggedBeforeAck' /\ CommittedIsDurable'
  BY <1>1, <1>2 DEF WaitInv, PendingIsOfSession, LoggedBeforeAck, CommittedIsDurable
<1>6. OneInFlight'
  BY <1>1, <1>2, <1>3 DEF WaitInv, OneInFlight, OnTheWay, Nowhere, Busy
<1>7. QED
  BY <1>4, <1>5, <1>6 DEF WaitInv

LEMMA PollKeepsInv == WaitInv /\ PollAndCommitAck => WaitInv'
<1> SUFFICES ASSUME WaitInv, PollAndCommitAck PROVE WaitInv'
  OBVIOUS
<1> DEFINE c == connection
<1>1. c \in Connections /\ c <= opened
  BY StopAndWaitAssumption DEF PollAndCommitAck, WaitInv, Plumbing, Connections
<1>2. pending_queued /\ pending_batch # NoBatch /\ Answered(c) /\ ~Busy(c) /\ c # 0
  BY DEF PollAndCommitAck, WaitInv, OneInFlight, Nowhere, OnTheWay, WithThread, Answered
<1>3. LastReply = pending_batch.last
  <2>1. replies[c] = <<pending_batch.last>>
    BY <1>2 DEF Answered
  <2>2. QED
    BY <2>1 DEF LastReply
<1>4. /\ replies' = [replies EXCEPT ![c] = << >>]
      /\ pending_batch' = NoBatch /\ pending_queued' = FALSE
      /\ committed' = committed \cup {<<warmed_epoch, session, s>> : s \in Numbers(pending_batch)}
      /\ UNCHANGED <<session, warmed_epoch, connection, opened, sent, epoch, thread, held, logged>>
  BY <1>2, <1>3 DEF PollAndCommitAck, threads
<1>5. /\ OnConnections(replies')
      /\ replies'[c] = << >>
      /\ \A d \in Connections : d # c => replies'[d] = replies[d]
  BY <1>1, <1>4 DEF WaitInv, Plumbing, OnConnections
<1>6. Plumbing'
  BY <1>1, <1>4, <1>5 DEF WaitInv, Plumbing
<1>7. PendingIsOfSession'
  BY <1>4 DEF WaitInv, PendingIsOfSession
<1>8. OneInFlight' /\ LoggedBeforeAck'
  BY <1>2, <1>4, <1>5 DEF WaitInv, OneInFlight, LoggedBeforeAck, Nowhere, Answered, Busy
<1>9. CommittedIsDurable'
  <2>1. RawCapture => \A s \in Numbers(pending_batch) : <<warmed_epoch, session, s>> \in logged
    BY <1>2 DEF WaitInv, LoggedBeforeAck, Answered
  <2>2. QED
    BY <1>4, <2>1 DEF WaitInv, CommittedIsDurable
<1>10. QED
  BY <1>6, <1>7, <1>8, <1>9 DEF WaitInv

\* The EA is left without a connection, or TickScope is started again.
LEMMA FaultKeepsInv ==
  WaitInv /\ (AckTimeout \/ ConnectionLost \/ ReloadEA) => WaitInv'
<1> SUFFICES ASSUME WaitInv, AckTimeout \/ ConnectionLost \/ ReloadEA PROVE WaitInv'
  OBVIOUS
<1>1. /\ connection' = 0
      /\ warmed_epoch' = 0 \/ UNCHANGED <<warmed_epoch, session>>
      /\ UNCHANGED <<pending_batch, opened, sent, replies, epoch, thread, held, logged, committed>>
  BY DEF AckTimeout, ConnectionLost, ReloadEA, network, threads
<1>2. Plumbing'
  BY <1>1 DEF WaitInv, Plumbing
<1>3. PendingIsOfSession'
  BY <1>1 DEF WaitInv, PendingIsOfSession
<1>4. OneInFlight' /\ LoggedBeforeAck' /\ CommittedIsDurable'
  BY <1>1 DEF WaitInv, OneInFlight, LoggedBeforeAck, CommittedIsDurable
<1>5. QED
  BY <1>2, <1>3, <1>4 DEF WaitInv

LEMMA RestartKeepsInv == WaitInv /\ RestartTickScope => WaitInv'
<1> SUFFICES ASSUME WaitInv, RestartTickScope PROVE WaitInv'
  OBVIOUS
<1>1. /\ epoch' = epoch + 1
      /\ sent' = [c \in Connections |-> << >>]
      /\ thread' = [c \in Connections |-> IF thread[c] = "none" THEN "none" ELSE "done"]
      /\ held' = [c \in Connections |-> NoBatch]
      /\ UNCHANGED <<session, warmed_epoch, pending_batch, pending_queued, connection, opened,
                     replies, logged, committed>>
  BY DEF RestartTickScope, ea
<1>2. Plumbing'
  BY <1>1 DEF WaitInv, Plumbing, OnConnections
<1>3. PendingIsOfSession' /\ CommittedIsDurable'
  BY <1>1 DEF WaitInv, PendingIsOfSession, CommittedIsDurable
<1>4. connection # 0 => connection \in Connections
  BY StopAndWaitAssumption DEF WaitInv, Plumbing, Connections
<1>5. connection # 0 => thread'[connection] = "done" /\ sent'[connection] = << >>
  BY <1>1, <1>4 DEF WaitInv, OneInFlight
<1>6. OneInFlight' /\ LoggedBeforeAck'
  BY <1>1, <1>5 DEF WaitInv, OneInFlight, LoggedBeforeAck, Nowhere, OnTheWay, WithThread, Answered, Busy
<1>7. QED
  BY <1>2, <1>3, <1>6 DEF WaitInv

-----------------------------------------------------------------------------
(* The receiver threads.                                                     *)

\* The thread of another connection than the EA's, an old one, disturbs nothing.
LEMMA OldThreadKeepsInv ==
  ASSUME WaitInv, NEW c \in Connections, Receiver(c), c # connection
  PROVE  WaitInv'
<1>1. /\ logged \subseteq logged'
      /\ UNCHANGED <<session, warmed_epoch, pending_batch, pending_queued, connection, opened,
                     epoch, committed>>
  BY DEF Receiver, ReadBatch, Persist, SubmitBatch, SendBatchAck, CloseConnection, ea, network
<1>2. thread[c] # "none"
  BY DEF Receiver, ReadBatch, Persist, SubmitBatch, SendBatchAck, CloseConnection
<1>3. /\ \E v : sent' = [sent EXCEPT ![c] = v]
      /\ \E v : replies' = [replies EXCEPT ![c] = v]
      /\ \E v : thread' = [thread EXCEPT ![c] = v]
      /\ \E v : held' = [held EXCEPT ![c] = v]
  <2>1. \A f : OnConnections(f) => f = [f EXCEPT ![c] = f[c]]
    BY DEF OnConnections
  <2>2. /\ sent = [sent EXCEPT ![c] = sent[c]] /\ replies = [replies EXCEPT ![c] = replies[c]]
        /\ thread = [thread EXCEPT ![c] = thread[c]] /\ held = [held EXCEPT ![c] = held[c]]
    BY <2>1 DEF WaitInv, Plumbing
  <2>3. CASE ReadBatch(c)
    BY <2>2, <2>3 DEF ReadBatch
  <2>4. CASE Persist(c)
    BY <2>2, <2>4 DEF Persist, network
  <2>5. CASE SubmitBatch(c)
    BY <2>2, <2>5 DEF SubmitBatch, network
  <2>6. CASE SendBatchAck(c)
    BY <2>2, <2>6 DEF SendBatchAck
  <2>7. CASE CloseConnection(c)
    BY <2>2, <2>7 DEF CloseConnection, network
  <2>8. QED
    BY <2>3, <2>4, <2>5, <2>6, <2>7 DEF Receiver
<1>4. /\ OnConnections(sent') /\ OnConnections(replies')
      /\ OnConnections(thread') /\ OnConnections(held')
      /\ \A d \in Connections : d # c =>
           sent'[d] = sent[d] /\ replies'[d] = replies[d] /\ thread'[d] = thread[d] /\ held'[d] = held[d]
  BY <1>3 DEF WaitInv, Plumbing, OnConnections
<1>5. c <= opened
  BY <1>2 DEF WaitInv, Plumbing, Connections
<1>6. Plumbing'
  BY <1>1, <1>4, <1>5 DEF WaitInv, Plumbing, Connections
<1>7. PendingIsOfSession' /\ CommittedIsDurable'
  BY <1>1 DEF WaitInv, PendingIsOfSession, CommittedIsDurable
<1>8. connection # 0 => connection \in Connections
  BY StopAndWaitAssumption DEF WaitInv, Plumbing, Connections
<1>9. OneInFlight'
  BY <1>1, <1>4, <1>8 DEF WaitInv, OneInFlight, Nowhere, OnTheWay, WithThread, Answered, Busy
<1>10. LoggedBeforeAck'
  BY <1>1, <1>4, <1>8 DEF WaitInv, LoggedBeforeAck
<1>11. QED
  BY <1>6, <1>7, <1>9, <1>10 DEF WaitInv

\* A live connection is one of the connections made, and its thread runs for the
\* epoch the EA has warmed up for.
LEMMA LiveConnection ==
  ASSUME WaitInv, NEW c \in Connections, c = connection
  PROVE  /\ c # 0 /\ c <= opened
         /\ thread[c] # "done" => warmed_epoch = epoch
         /\ \/ Nowhere(c)
            \/ pending_queued /\ pending_batch # NoBatch
               /\ (OnTheWay(c) \/ WithThread(c) \/ Answered(c))
  BY DEF WaitInv, OneInFlight, Plumbing, Connections

LEMMA ReadKeepsInv ==
  ASSUME WaitInv, NEW c \in Connections, ReadBatch(c), c = connection
  PROVE  WaitInv'
<1>1. OnTheWay(c) /\ pending_queued /\ pending_batch # NoBatch /\ c <= opened /\ warmed_epoch = epoch
  BY LiveConnection DEF ReadBatch, Nowhere, OnTheWay, WithThread, Answered, Busy
<1>2. Tail(<<pending_batch>>) = << >> /\ Head(<<pending_batch>>) = pending_batch
  OBVIOUS
<1>3. /\ sent' = [sent EXCEPT ![c] = << >>]
      /\ held' = [held EXCEPT ![c] = pending_batch]
      /\ thread' = [thread EXCEPT ![c] = IF RawCapture THEN "persist" ELSE "submit"]
      /\ UNCHANGED <<session, warmed_epoch, pending_batch, pending_queued, connection, opened,
                     replies, epoch, logged, committed>>
  BY <1>1, <1>2 DEF ReadBatch, OnTheWay, ea
<1>4. /\ OnConnections(sent') /\ OnConnections(held') /\ OnConnections(thread')
      /\ sent'[c] = << >> /\ held'[c] = pending_batch
      /\ thread'[c] = IF RawCapture THEN "persist" ELSE "submit"
      /\ \A d \in Connections : d # c => sent'[d] = sent[d] /\ thread'[d] = thread[d]
  BY <1>3 DEF WaitInv, Plumbing, OnConnections
<1>5. Plumbing'
  BY <1>1, <1>3, <1>4 DEF WaitInv, Plumbing, Connections
<1>6. PendingIsOfSession' /\ CommittedIsDurable'
  BY <1>3 DEF WaitInv, PendingIsOfSession, CommittedIsDurable
<1>7. WithThread(c)' /\ thread'[c] # "none"
  BY <1>1, <1>3, <1>4 DEF OnTheWay, WithThread, Busy
<1>8. OneInFlight'
  BY <1>1, <1>3, <1>7 DEF OneInFlight
<1>9. LoggedBeforeAck'
  BY <1>1, <1>3, <1>4 DEF LoggedBeforeAck, OnTheWay
<1>10. QED
  BY <1>5, <1>6, <1>8, <1>9 DEF WaitInv

LEMMA PersistKeepsInv ==
  ASSUME WaitInv, NEW c \in Connections, Persist(c), c = connection
  PROVE  WaitInv'
<1>1. WithThread(c) /\ pending_queued /\ pending_batch # NoBatch /\ c <= opened /\ warmed_epoch = epoch
  BY LiveConnection DEF Persist, Nowhere, OnTheWay, WithThread, Answered, Busy
<1>2. /\ thread' = [thread EXCEPT ![c] = "submit"]
      /\ logged' = logged \cup {<<epoch, pending_batch.session, s>> : s \in Numbers(pending_batch)}
      /\ UNCHANGED <<session, warmed_epoch, pending_batch, pending_queued, connection, opened,
                     sent, replies, held, epoch, committed>>
  BY <1>1 DEF Persist, WithThread, ea, network
<1>3. /\ OnConnections(thread') /\ thread'[c] = "submit"
      /\ \A d \in Connections : d # c => thread'[d] = thread[d]
  BY <1>2 DEF WaitInv, Plumbing, OnConnections
<1>4. Plumbing'
  BY <1>1, <1>2, <1>3 DEF WaitInv, Plumbing, Connections
<1>5. PendingIsOfSession' /\ CommittedIsDurable'
  BY <1>2 DEF WaitInv, PendingIsOfSession, CommittedIsDurable
<1>6. WithThread(c)'
  BY <1>1, <1>2, <1>3 DEF WithThread, Busy
<1>7. OneInFlight'
  BY <1>1, <1>2, <1>3, <1>6 DEF OneInFlight
<1>8. LoggedBeforeAck'
  <2>1. pending_batch.session = session
    BY <1>1, LiveConnection DEF WaitInv, PendingIsOfSession
  <2>2. QED
    BY <1>1, <1>2, <2>1 DEF LoggedBeforeAck
<1>9. QED
  BY <1>4, <1>5, <1>7, <1>8 DEF WaitInv

LEMMA SubmitKeepsInv ==
  ASSUME WaitInv, NEW c \in Connections, SubmitBatch(c), c = connection
  PROVE  WaitInv'
<1>1. WithThread(c) /\ pending_queued /\ pending_batch # NoBatch /\ c <= opened /\ warmed_epoch = epoch
  BY LiveConnection DEF SubmitBatch, Nowhere, OnTheWay, WithThread, Answered, Busy
<1>2. /\ thread[c] = "submit"
      /\ thread' = [thread EXCEPT ![c] = "ack"]
      /\ UNCHANGED <<session, warmed_epoch, pending_batch, pending_queued, connection, opened,
                     sent, replies, held, epoch, logged, committed>>
  BY DEF SubmitBatch, ea, network
<1>3. /\ OnConnections(thread') /\ thread'[c] = "ack"
      /\ \A d \in Connections : d # c => thread'[d] = thread[d]
  BY <1>2 DEF WaitInv, Plumbing, OnConnections
<1>4. Plumbing'
  BY <1>1, <1>2, <1>3 DEF WaitInv, Plumbing, Connections
<1>5. PendingIsOfSession' /\ CommittedIsDurable'
  BY <1>2 DEF WaitInv, PendingIsOfSession, CommittedIsDurable
<1>6. WithThread(c)'
  BY <1>1, <1>2, <1>3 DEF WithThread, Busy
<1>7. OneInFlight'
  BY <1>1, <1>2, <1>3, <1>6 DEF OneInFlight
<1>8. LoggedBeforeAck'
  BY <1>2 DEF WaitInv, LoggedBeforeAck
<1>9. QED
  BY <1>4, <1>5, <1>7, <1>8 DEF WaitInv

LEMMA AckKeepsInv ==
  ASSUME WaitInv, NEW c \in Connections, SendBatchAck(c), c = connection
  PROVE  WaitInv'
<1>1. WithThread(c) /\ pending_queued /\ pending_batch # NoBatch /\ c <= opened /\ warmed_epoch = epoch
  BY LiveConnection DEF SendBatchAck, Nowhere, OnTheWay, WithThread, Answered, Busy
<1>2. Append(<< >>, pending_batch.last) = <<pending_batch.last>>
  OBVIOUS
<1>3. /\ thread[c] = "ack"
      /\ thread' = [thread EXCEPT ![c] = "read"]
      /\ held' = [held EXCEPT ![c] = NoBatch]
      /\ replies' = [replies EXCEPT ![c] = <<pending_batch.last>>]
      /\ UNCHANGED <<session, warmed_epoch, pending_batch, pending_queued, connection, opened,
                     sent, epoch, logged, committed>>
  BY <1>1, <1>2 DEF SendBatchAck, WithThread, ea
<1>4. /\ OnConnections(thread') /\ OnConnections(held') /\ OnConnections(replies')
      /\ thread'[c] = "read" /\ replies'[c] = <<pending_batch.last>>
      /\ \A d \in Connections : d # c => thread'[d] = thread[d] /\ replies'[d] = replies[d]
  BY <1>3 DEF WaitInv, Plumbing, OnConnections
<1>5. Plumbing'
  BY <1>1, <1>3, <1>4 DEF WaitInv, Plumbing, Connections
<1>6. PendingIsOfSession' /\ CommittedIsDurable'
  BY <1>3 DEF WaitInv, PendingIsOfSession, CommittedIsDurable
<1>7. Answered(c)'
  BY <1>1, <1>3, <1>4 DEF WithThread, Answered, Busy
<1>8. OneInFlight'
  BY <1>1, <1>3, <1>4, <1>7 DEF OneInFlight
<1>9. LoggedBeforeAck'
  BY <1>3, LiveConnection DEF WaitInv, LoggedBeforeAck
<1>10. QED
  BY <1>5, <1>6, <1>8, <1>9 DEF WaitInv

LEMMA CloseKeepsInv ==
  ASSUME WaitInv, NEW c \in Connections, CloseConnection(c), c = connection
  PROVE  WaitInv'
<1>1. /\ thread' = [thread EXCEPT ![c] = "done"]
      /\ held' = [held EXCEPT ![c] = NoBatch]
      /\ UNCHANGED <<session, warmed_epoch, pending_batch, pending_queued, connection, opened,
                     sent, replies, epoch, logged, committed>>
  BY DEF CloseConnection, ea, network
<1>2. /\ OnConnections(thread') /\ OnConnections(held') /\ thread'[c] = "done"
      /\ \A d \in Connections : d # c => thread'[d] = thread[d]
  BY <1>1 DEF WaitInv, Plumbing, OnConnections
<1>3. c <= opened
  BY LiveConnection
<1>4. Plumbing'
  BY <1>1, <1>2, <1>3 DEF WaitInv, Plumbing, Connections
<1>5. PendingIsOfSession' /\ CommittedIsDurable'
  BY <1>1 DEF WaitInv, PendingIsOfSession, CommittedIsDurable
<1>6. Nowhere(c)' \/ (pending_queued /\ pending_batch # NoBatch /\ (OnTheWay(c)' \/ Answered(c)'))
  BY <1>1, <1>2, LiveConnection DEF Nowhere, OnTheWay, WithThread, Answered, Busy
<1>7. OneInFlight'
  BY <1>1, <1>2, <1>6 DEF WaitInv, OneInFlight
<1>8. LoggedBeforeAck'
  BY <1>1, <1>2 DEF WaitInv, LoggedBeforeAck
<1>9. QED
  BY <1>4, <1>5, <1>7, <1>8 DEF WaitInv

-----------------------------------------------------------------------------
LEMMA WaitInvNext == WaitInv /\ [Next]_vars => WaitInv'
<1> SUFFICES ASSUME WaitInv, [Next]_vars PROVE WaitInv'
  OBVIOUS
<1>1. CASE Connect \/ Collect \/ Send \/ PollAndCommitAck
  BY <1>1, ConnectKeepsInv, CollectKeepsInv, SendKeepsInv, PollKeepsInv
<1>2. CASE AckTimeout \/ ConnectionLost \/ ReloadEA \/ RestartTickScope
  BY <1>2, FaultKeepsInv, RestartKeepsInv
<1>3. CASE \E c \in Connections : Receiver(c)
  <2>1. PICK c \in Connections : Receiver(c)
    BY <1>3
  <2>2. CASE c # connection
    BY <2>1, <2>2, OldThreadKeepsInv
  <2>3. CASE c = connection
    BY <2>1, <2>3, ReadKeepsInv, PersistKeepsInv, SubmitKeepsInv, AckKeepsInv, CloseKeepsInv
       DEF Receiver
  <2>4. QED
    BY <2>2, <2>3
<1>4. CASE TakeBatch \/ ObserveTick \/ UNCHANGED vars
  <2>1. UNCHANGED <<ea, network, epoch, threads, logged, committed>>
    BY <1>4 DEF TakeBatch, ObserveTick, vars
  <2>2. QED
    BY <2>1 DEF ea, network, threads, WaitInv, Plumbing, PendingIsOfSession, OneInFlight,
       LoggedBeforeAck, CommittedIsDurable, Nowhere, OnTheWay, WithThread, Answered, Busy
<1>5. QED
  BY <1>1, <1>2, <1>3, <1>4 DEF Next

LEMMA WaitInvariant == Spec => []WaitInv
  BY WaitInvInit, WaitInvNext, PTL DEF Spec

\* The acknowledgement the EA reads is the one of its pending batch.
LEMMA ReplyMatches ==
  ASSUME WaitInv, connection # 0, replies[connection] # << >>
  PROVE  pending_batch # NoBatch /\ LastReply = pending_batch.last
<1>1. pending_batch # NoBatch /\ replies[connection] = <<pending_batch.last>>
  BY DEF WaitInv, OneInFlight, Nowhere, OnTheWay, WithThread, Answered
<1>2. QED
  BY <1>1 DEF LastReply

\* The branch "Unexpected ACK" of PollAndCommitAck is dead code, whatever
\* connections break and however late old threads work.
THEOREM AckIsForPendingBatch == Spec => []AcknowledgementsMatch
<1>1. WaitInv => AcknowledgementsMatch
  BY ReplyMatches DEF AcknowledgementsMatch
<1>2. QED
  BY WaitInvariant, <1>1, PTL

\* With the raw log on, a tick the EA has committed is on stable storage, for any
\* number of faults on either side.
THEOREM CommittedTicksAreDurable == Spec => []CommittedIsDurable
<1>1. WaitInv => CommittedIsDurable
  BY DEF WaitInv
<1>2. QED
  BY WaitInvariant, <1>1, PTL

-----------------------------------------------------------------------------
(* Types.                                                                    *)

InOrder(b) == b.first <= b.last

\* TypeOK alone is not inductive: a tick number stays in its range because every
\* batch has ticks, and a receiver thread at work has a batch.
TypeInv ==
  /\ TypeOK
  /\ WellFormed(ledger)
  /\ pending_batch # NoBatch => InOrder(pending_batch)
  /\ \A c \in Connections : \A i \in 1 .. Len(sent[c]) : InOrder(sent[c][i])
  /\ \A c \in Connections : Busy(c) => held[c] \in Batch /\ InOrder(held[c])
  /\ \A i \in 1 .. Len(ingress) : InOrder(ingress[i])
  /\ batch # NoBatch => InOrder(batch)

LEMMA TypeInvInit == Init => TypeInv
<1> SUFFICES ASSUME Init PROVE TypeInv
  OBVIOUS
<1>1. WellFormed(ledger) /\ ledger \in Ledger
  BY NewLedgerIsWellFormed DEF Init, WellFormed
<1>2. TypeOK
  <2>1. /\ sent \in [Connections -> Seq(Batch)] /\ replies \in [Connections -> Seq(Sequence)]
        /\ thread \in [Connections -> {"none", "read", "persist", "submit", "ack", "done"}]
        /\ held \in [Connections -> Batch \cup {NoBatch}]
    BY DEF Init
  <2>2. /\ session \in 1 .. MaxSession /\ epoch \in 1 .. MaxEpoch /\ warmed_epoch \in 0 .. MaxEpoch
        /\ opened \in 0 .. MaxConnections /\ current_sequence \in 0 .. MaxSequence + 1
        /\ ledger_session \in 0 .. MaxSession
    BY StopAndWaitAssumption, MaxSequenceAssumption DEF Init
  <2>3. ingress \in Seq(Batch) /\ Len(ingress) <= IngressCapacity /\ delivered \in Seq(Sequence)
    BY StopAndWaitAssumption DEF Init
  <2>4. QED
    BY <1>1, <2>1, <2>2, <2>3 DEF Init, TypeOK
<1>3. \A c \in Connections : sent[c] = << >> /\ thread[c] = "none"
  BY DEF Init
<1>4. QED
  BY <1>1, <1>2, <1>3 DEF Init, TypeInv, Busy

\* The numbers of a batch are sequence numbers.
LEMMA NumbersAreSequences ==
  ASSUME NEW b \in Batch
  PROVE  /\ Numbers(b) \subseteq Sequence
         /\ b.session \in 1 .. MaxSession /\ b.first \in Sequence /\ b.last \in Sequence
         /\ b # NoBatch
  BY StopAndWaitAssumption, MaxSequenceAssumption DEF Batch, Numbers, Sequence, NoBatch

LEMMA EaKeepsTypes ==
  TypeInv /\ (Connect \/ Collect \/ Send \/ PollAndCommitAck) => TypeInv'
<1> SUFFICES ASSUME TypeInv PROVE Connect \/ Collect \/ Send \/ PollAndCommitAck => TypeInv'
  OBVIOUS
<1> USE StopAndWaitAssumption, MaxSequenceAssumption
<1>1. ASSUME Connect PROVE TypeInv'
  <2>1. /\ opened + 1 \in Connections
        /\ opened' = opened + 1 /\ connection' = opened + 1
        /\ thread' = [thread EXCEPT ![opened + 1] = "read"]
        /\ pending_batch' \in {pending_batch, NoBatch}
        /\ current_sequence' \in {current_sequence, 0}
        /\ pending_queued' = FALSE /\ warmed_epoch' = epoch
        /\ UNCHANGED <<session, sent, replies, epoch, held, ingress, batch, ledger, ledger_session,
                       delivered, missing, logged, committed>>
    BY <1>1 DEF Connect, TypeInv, TypeOK, Connections, engine
  <2>2. /\ thread' \in [Connections -> {"none", "read", "persist", "submit", "ack", "done"}]
        /\ \A c \in Connections : Busy(c)' => Busy(c)
    BY <2>1 DEF TypeInv, TypeOK, Busy
  <2>3. /\ opened' \in 0 .. MaxConnections /\ connection' \in Connections \cup {0}
        /\ warmed_epoch' \in 0 .. MaxEpoch /\ current_sequence' \in 0 .. MaxSequence + 1
        /\ pending_batch' \in Batch \cup {NoBatch} /\ pending_queued' \in BOOLEAN
    <3>1. opened' \in 0 .. MaxConnections /\ connection' \in Connections \cup {0}
      BY <2>1 DEF Connections
    <3>2. warmed_epoch' \in 0 .. MaxEpoch /\ current_sequence' \in 0 .. MaxSequence + 1
      BY <2>1 DEF TypeInv, TypeOK
    <3>3. pending_batch' \in Batch \cup {NoBatch} /\ pending_queued' \in BOOLEAN
      BY <2>1 DEF TypeInv, TypeOK
    <3>4. QED
      BY <3>1, <3>2, <3>3
  <2>4. TypeOK'
    BY <2>1, <2>2, <2>3 DEF TypeInv, TypeOK
  <2>5. QED
    BY <2>1, <2>2, <2>4 DEF TypeInv
<1>2. ASSUME Collect PROVE TypeInv'
  <2>1. PICK n \in 1 .. BatchCount :
          /\ current_sequence + n <= MaxSequence
          /\ pending_batch' = [session |-> session, first |-> current_sequence,
                               last |-> current_sequence + n - 1]
    BY <1>2 DEF Collect
  <2>2. /\ current_sequence \in Nat /\ n \in Nat /\ n >= 1 /\ session \in 1 .. MaxSession
    BY DEF TypeInv, TypeOK
  <2>3. /\ pending_batch' \in Batch /\ InOrder(pending_batch')
    BY <2>1, <2>2 DEF Batch, Sequence, InOrder
  <2>4. /\ pending_queued' = FALSE
        /\ UNCHANGED <<session, warmed_epoch, current_sequence, connection, opened, sent, replies,
                       epoch, thread, held, ingress, batch, ledger, ledger_session, delivered,
                       missing, logged, committed>>
    BY <1>2 DEF Collect, network, threads, engine
  <2>5. QED
    BY <2>3, <2>4 DEF TypeInv, TypeOK, Busy
<1>3. ASSUME Send PROVE TypeInv'
  <2>1. /\ connection \in Connections /\ pending_batch \in Batch /\ InOrder(pending_batch)
        /\ pending_queued' = TRUE
        /\ sent' = [sent EXCEPT ![connection] = Append(sent[connection], pending_batch)]
        /\ UNCHANGED <<session, warmed_epoch, current_sequence, pending_batch, connection, opened,
                       replies, epoch, thread, held, ingress, batch, ledger, ledger_session,
                       delivered, missing, logged, committed>>
    BY <1>3 DEF Send, TypeInv, TypeOK, threads, engine
  <2>2. Append(sent[connection], pending_batch) \in Seq(Batch)
    BY <2>1 DEF TypeInv, TypeOK
  <2>3. sent' \in [Connections -> Seq(Batch)]
    BY <2>1, <2>2 DEF TypeInv, TypeOK
  <2>4. ASSUME NEW c \in Connections, NEW i \in 1 .. Len(sent'[c])
        PROVE  InOrder(sent'[c][i])
    <3>1. CASE c # connection
      BY <2>1, <2>4, <3>1 DEF TypeInv, TypeOK
    <3>2. CASE c = connection
      <4>1. sent'[c] = Append(sent[c], pending_batch) /\ sent[c] \in Seq(Batch)
        BY <2>1, <3>2 DEF TypeInv, TypeOK
      <4>2. CASE i = Len(sent[c]) + 1
        BY <2>1, <4>1, <4>2
      <4>3. CASE i \in 1 .. Len(sent[c])
        BY <4>1, <4>3 DEF TypeInv
      <4>4. QED
        BY <2>4, <4>1, <4>2, <4>3
    <3>3. QED
      BY <3>1, <3>2
  <2>5. TypeOK'
    BY <2>1, <2>3 DEF TypeInv, TypeOK
  <2>6. QED
    BY <2>1, <2>4, <2>5 DEF TypeInv, Busy
<1>4. ASSUME PollAndCommitAck PROVE TypeInv'
  <2>1. /\ connection \in Connections
        /\ replies' = [replies EXCEPT ![connection] = << >>]
        /\ UNCHANGED <<session, warmed_epoch, opened, sent, epoch, thread, held, ingress, batch,
                       ledger, ledger_session, delivered, missing, logged>>
    BY <1>4 DEF PollAndCommitAck, TypeInv, TypeOK, threads, engine
  <2>2. /\ pending_queued' \in {pending_queued, FALSE}
        /\ connection' \in {connection, 0}
        /\ pending_batch' \in {pending_batch, NoBatch}
        /\ \/ UNCHANGED <<current_sequence, committed>>
           \/ /\ pending_batch # NoBatch
              /\ current_sequence' = pending_batch.last + 1
              /\ committed' = committed \cup {<<warmed_epoch, session, s>> : s \in Numbers(pending_batch)}
    <3>1. CASE pending_batch = NoBatch
      BY <1>4, <3>1 DEF PollAndCommitAck
    <3>2. CASE pending_batch # NoBatch /\ LastReply # pending_batch.last
      BY <1>4, <3>2 DEF PollAndCommitAck
    <3>3. CASE pending_batch # NoBatch /\ LastReply = pending_batch.last
      BY <1>4, <3>3 DEF PollAndCommitAck
    <3>4. QED
      BY <3>1, <3>2, <3>3
  <2>3. pending_batch # NoBatch => pending_batch \in Batch
    BY DEF TypeInv, TypeOK
  <2>4. current_sequence' \in 0 .. MaxSequence + 1
    BY <2>2, <2>3, NumbersAreSequences DEF TypeInv, TypeOK, Sequence
  <2>5. committed' \subseteq (0 .. MaxEpoch) \X (1 .. MaxSession) \X Sequence
    BY <2>2, <2>3, NumbersAreSequences DEF TypeInv, TypeOK
  <2>6. replies' \in [Connections -> Seq(Sequence)]
    BY <2>1 DEF TypeInv, TypeOK
  <2>7. TypeOK'
    BY <2>1, <2>2, <2>4, <2>5, <2>6 DEF TypeInv, TypeOK
  <2>8. QED
    BY <2>1, <2>2, <2>7 DEF TypeInv, Busy
<1>5. QED
  BY <1>1, <1>2, <1>3, <1>4

LEMMA FaultKeepsTypes ==
  TypeInv /\ (AckTimeout \/ ConnectionLost \/ ReloadEA \/ RestartTickScope) => TypeInv'
<1> SUFFICES ASSUME TypeInv
             PROVE  AckTimeout \/ ConnectionLost \/ ReloadEA \/ RestartTickScope => TypeInv'
  OBVIOUS
<1>1. ASSUME AckTimeout \/ ConnectionLost \/ ReloadEA PROVE TypeInv'
  <2>1. /\ session' \in 1 .. MaxSession
        /\ connection' = 0
        /\ pending_queued' \in BOOLEAN
        /\ warmed_epoch' \in 0 .. MaxEpoch
        /\ current_sequence' \in 0 .. MaxSequence + 1
        /\ delivered' \in Seq(Sequence) /\ missing' \subseteq Sequence
    <3>1. 0 \in 0 .. MaxEpoch /\ 0 \in 0 .. MaxSequence + 1 /\ << >> \in Seq(Sequence)
      BY StopAndWaitAssumption, MaxSequenceAssumption
    <3>2. session < MaxSession => session + 1 \in 1 .. MaxSession
      BY StopAndWaitAssumption DEF TypeInv, TypeOK
    <3>3. QED
      BY <1>1, <3>1, <3>2 DEF AckTimeout, ConnectionLost, ReloadEA, TypeInv, TypeOK, engine
  <2>2. UNCHANGED <<pending_batch, opened, sent, replies, epoch, thread, held, ingress, batch,
                    ledger, ledger_session, logged, committed>>
    BY <1>1 DEF AckTimeout, ConnectionLost, ReloadEA, network, threads, engine
  <2>3. TypeOK'
    BY <2>1, <2>2 DEF TypeInv, TypeOK
  <2>4. QED
    BY <2>2, <2>3 DEF TypeInv, Busy
<1>2. ASSUME RestartTickScope PROVE TypeInv'
  <2>1. /\ sent' = [c \in Connections |-> << >>]
        /\ thread' = [c \in Connections |-> IF thread[c] = "none" THEN "none" ELSE "done"]
        /\ held' = [c \in Connections |-> NoBatch]
        /\ ingress' = << >> /\ batch' = NoBatch
        /\ ledger' = NewLedger /\ ledger_session' = 0
        /\ delivered' = << >> /\ missing' = {}
        /\ UNCHANGED <<session, warmed_epoch, current_sequence, pending_batch, pending_queued,
                       connection, opened, replies, logged, committed>>
    BY <1>2 DEF RestartTickScope, ea
  <2>2. epoch' \in 1 .. MaxEpoch /\ ledger_session' \in 0 .. MaxSession
    BY <1>2, <2>1, StopAndWaitAssumption DEF RestartTickScope, TypeInv, TypeOK
  <2>3. /\ sent' \in [Connections -> Seq(Batch)]
        /\ thread' \in [Connections -> {"none", "read", "persist", "submit", "ack", "done"}]
        /\ held' \in [Connections -> Batch \cup {NoBatch}]
    BY <2>1
  <2>4. /\ ingress' \in Seq(Batch) /\ Len(ingress') <= IngressCapacity
        /\ delivered' \in Seq(Sequence)
    BY <2>1, StopAndWaitAssumption
  <2>5. WellFormed(ledger') /\ ledger' \in Ledger
    BY <2>1, NewLedgerIsWellFormed DEF WellFormed
  <2>6. TypeOK'
    BY <2>1, <2>2, <2>3, <2>4, <2>5 DEF TypeInv, TypeOK
  <2>7. \A c \in Connections : sent'[c] = << >> /\ ~Busy(c)'
    BY <2>1 DEF Busy
  <2>8. QED
    BY <2>1, <2>5, <2>6, <2>7 DEF TypeInv
<1>3. QED
  BY <1>1, <1>2

LEMMA ReceiverKeepsTypes ==
  ASSUME TypeInv, NEW c \in Connections, Receiver(c)
  PROVE  TypeInv'
<1> DEFINE Steps == {"none", "read", "persist", "submit", "ack", "done"}
<1>1. ASSUME ReadBatch(c) PROVE TypeInv'
  <2>1. /\ sent[c] \in Seq(Batch) /\ sent[c] # << >>
        /\ sent' = [sent EXCEPT ![c] = Tail(sent[c])]
        /\ held' = [held EXCEPT ![c] = Head(sent[c])]
        /\ thread' = [thread EXCEPT ![c] = IF RawCapture THEN "persist" ELSE "submit"]
        /\ UNCHANGED <<session, warmed_epoch, current_sequence, pending_batch, pending_queued,
                       connection, opened, replies, epoch, ingress, batch, ledger, ledger_session,
                       delivered, missing, logged, committed>>
    BY <1>1 DEF ReadBatch, TypeInv, TypeOK, ea, engine
  <2>2. /\ Head(sent[c]) = sent[c][1] /\ Head(sent[c]) \in Batch
        /\ 1 \in 1 .. Len(sent[c])
        /\ Tail(sent[c]) \in Seq(Batch)
        /\ \A i \in 1 .. Len(Tail(sent[c])) :
             Tail(sent[c])[i] = sent[c][i + 1] /\ i + 1 \in 1 .. Len(sent[c])
    BY <2>1
  <2>3. /\ sent' \in [Connections -> Seq(Batch)]
        /\ sent'[c] = Tail(sent[c])
        /\ \A d \in Connections : d # c => sent'[d] = sent[d]
    BY <2>1, <2>2 DEF TypeInv, TypeOK
  <2>4. /\ held' \in [Connections -> Batch \cup {NoBatch}]
        /\ held'[c] = Head(sent[c])
        /\ \A d \in Connections : d # c => held'[d] = held[d]
    BY <2>1, <2>2 DEF TypeInv, TypeOK
  <2>5. /\ thread' \in [Connections -> Steps]
        /\ \A d \in Connections : d # c => thread'[d] = thread[d]
    BY <2>1 DEF TypeInv, TypeOK
  <2>6. TypeOK'
    BY <2>1, <2>3, <2>4, <2>5 DEF TypeInv, TypeOK
  <2>7. InOrder(Head(sent[c])) /\ \A i \in 1 .. Len(sent'[c]) : InOrder(sent'[c][i])
    BY <2>2, <2>3 DEF TypeInv
  <2>8. \A d \in Connections : \A i \in 1 .. Len(sent'[d]) : InOrder(sent'[d][i])
    BY <2>3, <2>7 DEF TypeInv
  <2>9. \A d \in Connections : Busy(d)' => held'[d] \in Batch /\ InOrder(held'[d])
    BY <2>2, <2>4, <2>5, <2>7 DEF TypeInv, Busy
  <2>10. QED
    BY <2>1, <2>6, <2>8, <2>9 DEF TypeInv
<1>2. ASSUME Persist(c) PROVE TypeInv'
  <2>1. /\ Busy(c)
        /\ thread' = [thread EXCEPT ![c] = "submit"]
        /\ logged' = logged \cup {<<epoch, held[c].session, s>> : s \in Numbers(held[c])}
        /\ UNCHANGED <<session, warmed_epoch, current_sequence, pending_batch, pending_queued,
                       connection, opened, sent, replies, epoch, held, ingress, batch, ledger,
                       ledger_session, delivered, missing, committed>>
    BY <1>2 DEF Persist, Busy, ea, network, engine
  <2>2. /\ thread' \in [Connections -> Steps]
        /\ \A d \in Connections : Busy(d)' => Busy(d)
    BY <2>1 DEF TypeInv, TypeOK, Busy
  <2>3. logged' \subseteq (1 .. MaxEpoch) \X (1 .. MaxSession) \X Sequence
    BY <2>1, NumbersAreSequences DEF TypeInv, TypeOK
  <2>4. TypeOK'
    BY <2>1, <2>2, <2>3 DEF TypeInv, TypeOK
  <2>5. QED
    BY <2>1, <2>2, <2>4 DEF TypeInv
<1>3. ASSUME SubmitBatch(c) PROVE TypeInv'
  <2>1. /\ Busy(c)
        /\ thread' = [thread EXCEPT ![c] = "ack"]
        /\ Len(ingress) < IngressCapacity
        /\ ingress' = Append(ingress, held[c])
        /\ UNCHANGED <<session, warmed_epoch, current_sequence, pending_batch, pending_queued,
                       connection, opened, sent, replies, epoch, held, batch, ledger,
                       ledger_session, delivered, missing, logged, committed>>
    BY <1>3 DEF SubmitBatch, Busy, ea, network
  <2>2. /\ thread' \in [Connections -> Steps]
        /\ \A d \in Connections : Busy(d)' => Busy(d)
    BY <2>1 DEF TypeInv, TypeOK, Busy
  <2>3. held[c] \in Batch /\ InOrder(held[c]) /\ ingress \in Seq(Batch)
    BY <2>1 DEF TypeInv, TypeOK
  <2>4. /\ ingress' \in Seq(Batch) /\ Len(ingress') = Len(ingress) + 1
        /\ \A i \in 1 .. Len(ingress) : ingress'[i] = ingress[i]
        /\ ingress'[Len(ingress) + 1] = held[c]
    BY <2>1, <2>3
  <2>5. \A i \in 1 .. Len(ingress') : InOrder(ingress'[i])
    BY <2>3, <2>4 DEF TypeInv
  <2>6. Len(ingress') <= IngressCapacity
    BY <2>1, <2>3, <2>4, StopAndWaitAssumption
  <2>7. TypeOK'
    BY <2>1, <2>2, <2>4, <2>6 DEF TypeInv, TypeOK
  <2>8. QED
    BY <2>1, <2>2, <2>5, <2>7 DEF TypeInv
<1>4. ASSUME SendBatchAck(c) PROVE TypeInv'
  <2>1. /\ Busy(c)
        /\ thread' = [thread EXCEPT ![c] = "read"]
        /\ held' = [held EXCEPT ![c] = NoBatch]
        /\ replies' = [replies EXCEPT ![c] = Append(replies[c], held[c].last)]
        /\ UNCHANGED <<session, warmed_epoch, current_sequence, pending_batch, pending_queued,
                       connection, opened, sent, epoch, ingress, batch, ledger, ledger_session,
                       delivered, missing, logged, committed>>
    BY <1>4 DEF SendBatchAck, Busy, ea, engine
  <2>2. /\ thread' \in [Connections -> Steps] /\ held' \in [Connections -> Batch \cup {NoBatch}]
        /\ \A d \in Connections : Busy(d)' => Busy(d) /\ held'[d] = held[d]
    BY <2>1 DEF TypeInv, TypeOK, Busy
  <2>3. held[c].last \in Sequence /\ replies[c] \in Seq(Sequence)
    BY <2>1, NumbersAreSequences DEF TypeInv, TypeOK
  <2>4. Append(replies[c], held[c].last) \in Seq(Sequence)
    BY <2>3
  <2>5. replies' \in [Connections -> Seq(Sequence)]
    BY <2>1, <2>4 DEF TypeInv, TypeOK
  <2>6. TypeOK'
    BY <2>1, <2>2, <2>5 DEF TypeInv, TypeOK
  <2>7. QED
    BY <2>1, <2>2, <2>6 DEF TypeInv
<1>5. ASSUME CloseConnection(c) PROVE TypeInv'
  <2>1. /\ thread' = [thread EXCEPT ![c] = "done"]
        /\ held' = [held EXCEPT ![c] = NoBatch]
        /\ UNCHANGED <<session, warmed_epoch, current_sequence, pending_batch, pending_queued,
                       connection, opened, sent, replies, epoch, ingress, batch, ledger,
                       ledger_session, delivered, missing, logged, committed>>
    BY <1>5 DEF CloseConnection, ea, network, engine
  <2>2. /\ thread' \in [Connections -> Steps] /\ held' \in [Connections -> Batch \cup {NoBatch}]
        /\ \A d \in Connections : Busy(d)' => Busy(d) /\ held'[d] = held[d]
    BY <2>1 DEF TypeInv, TypeOK, Busy
  <2>3. TypeOK'
    BY <2>1, <2>2 DEF TypeInv, TypeOK
  <2>4. QED
    BY <2>1, <2>2, <2>3 DEF TypeInv
<1>6. QED
  BY <1>1, <1>2, <1>3, <1>4, <1>5 DEF Receiver

\* What TakeBatch moves.
LEMMA TakenBatch ==
  ASSUME TypeInv, TakeBatch
  PROVE  /\ batch = NoBatch /\ ingress \in Seq(Batch)
         /\ Len(ingress) \in Nat \ {0}
         /\ batch' = ingress[1] /\ batch' \in Batch /\ 1 \in 1 .. Len(ingress)
         /\ ingress' \in Seq(Batch)
         /\ Len(ingress') = Len(ingress) - 1
         /\ \A i \in 1 .. Len(ingress') :
              ingress'[i] = ingress[i + 1] /\ i + 1 \in 1 .. Len(ingress)
         /\ ledger_session' = batch'.session
         /\ ledger' = IF batch'.session = ledger_session THEN ledger ELSE NewLedger
         /\ UNCHANGED <<session, warmed_epoch, current_sequence, pending_batch, pending_queued,
                        connection, opened, sent, replies, epoch, thread, held,
                        delivered, missing, logged, committed>>
<1>1. ingress \in Seq(Batch) /\ ingress # << >>
  BY DEF TakeBatch, TypeInv, TypeOK
<1>2. /\ Len(ingress) \in Nat \ {0} /\ Head(ingress) = ingress[1] /\ ingress[1] \in Batch
      /\ 1 \in 1 .. Len(ingress)
      /\ Tail(ingress) \in Seq(Batch) /\ Len(Tail(ingress)) = Len(ingress) - 1
      /\ \A i \in 1 .. Len(Tail(ingress)) :
           Tail(ingress)[i] = ingress[i + 1] /\ i + 1 \in 1 .. Len(ingress)
  BY <1>1
<1>3. /\ batch = NoBatch /\ batch' = Head(ingress) /\ ingress' = Tail(ingress)
      /\ ledger_session' = Head(ingress).session
      /\ ledger' = IF Head(ingress).session = ledger_session THEN ledger ELSE NewLedger
      /\ UNCHANGED <<session, warmed_epoch, current_sequence, pending_batch, pending_queued,
                     connection, opened, sent, replies, epoch, thread, held,
                     delivered, missing, logged, committed>>
  BY DEF TakeBatch, EngineIdle, ea, network, threads
<1>4. QED
  BY <1>1, <1>2, <1>3

\* What one tick does to the ledger and to the batch it comes from.
LEMMA ObservedTick ==
  ASSUME TypeInv, ObserveTick
  PROVE  /\ batch \in Batch /\ batch.first \in Sequence /\ InOrder(batch)
         /\ WellFormed(ledger')
         /\ \/ batch' = NoBatch /\ batch.first = batch.last
            \/ /\ batch' \in Batch /\ batch'.session = batch.session
               /\ batch'.first = batch.first + 1 /\ batch'.last = batch.last
               /\ batch.first < batch.last
         /\ Classify(ledger, batch.first) # "New" => ledger' = ledger /\ delivered' = delivered
         /\ Classify(ledger, batch.first) = "New" =>
              /\ batch.first \notin ledger.seen_sequences
              /\ batch.first >= ledger.expected_sequence
              /\ ledger'.expected_sequence = SaturatingSucc(batch.first)
              /\ batch.first \in ledger'.seen_sequences
              /\ ledger'.seen_sequences \subseteq ledger.seen_sequences \cup {batch.first}
              /\ delivered' = IF batch.session = session THEN Append(delivered, batch.first)
                              ELSE delivered
         /\ UNCHANGED <<session, warmed_epoch, current_sequence, pending_batch, pending_queued,
                        connection, opened, sent, replies, epoch, thread, held, ingress,
                        ledger_session, logged, committed>>
<1> DEFINE s == batch.first
<1>1. /\ batch # NoBatch /\ batch \in Batch /\ InOrder(batch) /\ WellFormed(ledger) /\ ledger \in Ledger
  BY DEF ObserveTick, EngineIdle, TypeInv, TypeOK
<1>2. s \in Sequence /\ batch.last \in Sequence /\ batch.session \in 1 .. MaxSession
  BY <1>1, NumbersAreSequences
<1>3. /\ ledger' = Observed(ledger, s)
      /\ delivered' = IF batch.session = session /\ Classify(ledger, s) = "New"
                      THEN Append(delivered, s) ELSE delivered
      /\ batch' = IF s = batch.last THEN NoBatch ELSE [batch EXCEPT !.first = s + 1]
      /\ UNCHANGED <<session, warmed_epoch, current_sequence, pending_batch, pending_queued,
                     connection, opened, sent, replies, epoch, thread, held, ingress,
                     ledger_session, logged, committed>>
  BY DEF ObserveTick, ea, network, threads
<1>4. \/ batch' = NoBatch /\ s = batch.last
      \/ /\ batch' \in Batch /\ batch'.session = batch.session
         /\ batch'.first = s + 1 /\ batch'.last = batch.last /\ s < batch.last
  <2>1. CASE s # batch.last
    <3>1. s < batch.last /\ s + 1 \in Sequence
      BY <1>1, <1>2, <2>1, MaxSequenceAssumption DEF InOrder, Sequence
    <3>2. batch' = [session |-> batch.session, first |-> s + 1, last |-> batch.last]
      BY <1>1, <1>3, <2>1 DEF Batch
    <3>3. QED
      BY <1>2, <3>1, <3>2 DEF Batch
  <2>2. QED
    BY <1>3, <2>1
<1>5. CASE Classify(ledger, s) = "New"
  <2>1. s \notin ledger.seen_sequences /\ s >= ledger.expected_sequence
    BY <1>1, <1>2, <1>5, ClassifyFacts
  <2>2. ledger' = RecordNew(ledger, s)
    BY <1>3, <1>5 DEF Observed
  <2>3. /\ WellFormed(ledger')
        /\ ledger'.expected_sequence = SaturatingSucc(s)
        /\ s \in ledger'.seen_sequences
        /\ ledger'.seen_sequences \subseteq ledger.seen_sequences \cup {s}
    BY <1>1, <1>2, <2>1, <2>2, RecordNewWindow
  <2>4. QED
    BY <1>1, <1>2, <1>3, <1>4, <1>5, <2>1, <2>3
<1>6. CASE Classify(ledger, s) # "New"
  <2>1. ledger' = ledger /\ delivered' = delivered
    BY <1>3, <1>6 DEF Observed
  <2>2. QED
    BY <1>1, <1>2, <1>3, <1>4, <1>6, <2>1
<1>7. QED
  BY <1>5, <1>6

LEMMA EngineKeepsTypes == TypeInv /\ (TakeBatch \/ ObserveTick) => TypeInv'
<1> SUFFICES ASSUME TypeInv PROVE TakeBatch \/ ObserveTick => TypeInv'
  OBVIOUS
<1>1. ASSUME TakeBatch PROVE TypeInv'
  <2>1. WellFormed(ledger') /\ ledger' \in Ledger
    BY <1>1, TakenBatch, NewLedgerIsWellFormed DEF TypeInv, WellFormed
  <2>2. ledger_session' \in 0 .. MaxSession
    BY <1>1, TakenBatch, NumbersAreSequences
  <2>3. Len(ingress') <= IngressCapacity
    BY SMTT(30), <1>1, TakenBatch, StopAndWaitAssumption DEF TypeInv, TypeOK
  <2>4. TypeOK'
    BY <1>1, <2>1, <2>2, <2>3, TakenBatch DEF TypeInv, TypeOK
  <2>5. InOrder(batch') /\ \A i \in 1 .. Len(ingress') : InOrder(ingress'[i])
    BY <1>1, TakenBatch DEF TypeInv
  <2>6. QED
    BY <1>1, <2>1, <2>4, <2>5, TakenBatch DEF TypeInv, Busy
<1>2. ASSUME ObserveTick PROVE TypeInv'
  <2>1. delivered' \in Seq(Sequence)
    <3>1. delivered \in Seq(Sequence) /\ batch.first \in Sequence
      BY <1>2, ObservedTick DEF TypeInv, TypeOK
    <3>2. Append(delivered, batch.first) \in Seq(Sequence)
      BY <3>1
    <3>3. QED
      BY <1>2, <3>1, <3>2 DEF ObserveTick
  <2>2. missing' \subseteq Sequence
    <3>1. batch.first \in Sequence /\ ledger.expected_sequence \in Sequence /\ missing \subseteq Sequence
      BY <1>2, ObservedTick DEF TypeInv, TypeOK, Ledger
    <3>2. GapBefore(ledger, batch.first) # NoGap =>
            GapBefore(ledger, batch.first)[1] .. GapBefore(ledger, batch.first)[2] \subseteq Sequence
      BY <3>1, MaxSequenceAssumption DEF GapBefore, Sequence
    <3>3. QED
      BY <1>2, <3>1, <3>2 DEF ObserveTick
  <2>3. ledger' \in Ledger
    BY <1>2, ObservedTick DEF WellFormed
  <2>4. batch' # NoBatch => batch' \in Batch /\ InOrder(batch')
    <3>1. batch.first \in Nat /\ batch.last \in Nat
      BY <1>2, ObservedTick, NumbersAreSequences DEF Sequence
    <3>2. QED
      BY <1>2, <3>1, ObservedTick DEF InOrder
  <2>5. TypeOK'
    BY <1>2, <2>1, <2>2, <2>3, <2>4, ObservedTick DEF TypeInv, TypeOK
  <2>6. QED
    BY <1>2, <2>4, <2>5, ObservedTick DEF TypeInv, Busy
<1>3. QED
  BY <1>1, <1>2

LEMMA TypeInvariant == Spec => []TypeInv
<1>1. TypeInv /\ UNCHANGED vars => TypeInv'
  BY DEF TypeInv, TypeOK, Busy, vars, ea, network, threads, engine
<1>2. TypeInv /\ [Next]_vars => TypeInv'
  BY <1>1, EaKeepsTypes, FaultKeepsTypes, ReceiverKeepsTypes, EngineKeepsTypes DEF Next
<1>3. QED
  BY TypeInvInit, <1>2, PTL DEF Spec

\* The types of StopAndWait's variables, and the bound of the ingress channel:
\* no thread of a broken connection gets a batch past it.
THEOREM TypesAreCorrect == Spec => []TypeOK
<1>1. TypeInv => TypeOK
  BY DEF TypeInv
<1>2. QED
  BY TypeInvariant, <1>1, PTL

-----------------------------------------------------------------------------
(* Nothing committed is lost, whatever the ledger is reset by.               *)

Own(b) == b.session = session

Taken(s) == \E i \in 1 .. Len(delivered) : delivered[i] = s

\* s is processed, in the engine's hands, or in one of the first n batches queued.
AheadOf(n, s) ==
  \/ Taken(s)
  \/ Own(batch) /\ s \in Numbers(batch)
  \/ \E i \in 1 .. n : Own(ingress[i]) /\ s \in Numbers(ingress[i])

Accepted(s) == AheadOf(Len(ingress), s)

\* A batch on its way was numbered by this start of the EA for this start of
\* TickScope, unless it is of an earlier start of the EA.
Numbered(b) ==
  /\ b.session <= session
  /\ Own(b) => warmed_epoch = epoch /\ b.last < Collected

\* Before a batch is accepted, all that precede it are committed.
Follows(b) == Own(b) => b.first <= current_sequence

\* What the EA numbers next.
NumberingInv ==
  /\ warmed_epoch <= epoch
  /\ pending_batch # NoBatch => pending_batch.session <= session
  /\ warmed_epoch # 0 /\ pending_batch # NoBatch =>
       Own(pending_batch) /\ pending_batch.first = current_sequence

\* Every copy of a batch that TickScope may still work on.
CopiesInv ==
  /\ \A c \in Connections : \A i \in 1 .. Len(sent[c]) :
       /\ sent[c][i].session <= session
       /\ thread[c] # "done" => Numbered(sent[c][i]) /\ Follows(sent[c][i])
  /\ \A c \in Connections : Busy(c) => Numbered(held[c]) /\ Follows(held[c])
  /\ \A i \in 1 .. Len(ingress) : Numbered(ingress[i])
  /\ batch # NoBatch => Numbered(batch)

\* No copy overtakes what precedes it.
QueueInv ==
  /\ \A i \in 1 .. Len(ingress) : Own(ingress[i]) =>
       \A s \in Nat : s < ingress[i].first => AheadOf(i - 1, s)
  /\ Own(batch) => \A s \in Nat : s < batch.first => Taken(s)

\* The ledger refuses only what was processed; it may have forgotten more.
LedgerInv ==
  /\ ledger_session <= session
  /\ batch # NoBatch => ledger_session = batch.session
  /\ ledger_session = session =>
       /\ \A s \in ledger.seen_sequences : Taken(s)
       /\ \A s \in Nat : s < ledger.expected_sequence => Taken(s)

\* The acknowledgement of the pending batch follows its acceptance.
AckedIsAccepted ==
  ( /\ connection # 0 /\ warmed_epoch = epoch /\ pending_batch # NoBatch
    /\ thread[connection] = "ack" \/ replies[connection] # << >> )
  => \A s \in Numbers(pending_batch) : Accepted(s)

AcceptedInv == warmed_epoch = epoch => \A s \in Nat : s < current_sequence => Accepted(s)

DeliveryInv ==
  /\ NumberingInv /\ CopiesInv /\ QueueInv /\ LedgerInv
  /\ AckedIsAccepted /\ AcceptedInv

LEMMA DeliveryInvInit == Init => DeliveryInv
<1> SUFFICES ASSUME Init PROVE DeliveryInv
  OBVIOUS
<1>1. /\ \A c \in Connections : sent[c] = << >> /\ ~Busy(c)
      /\ ingress = << >> /\ batch = NoBatch /\ session = 1 /\ connection = 0
      /\ warmed_epoch = 0 /\ current_sequence = 0 /\ epoch = 1 /\ ledger_session = 0
      /\ pending_batch = NoBatch
  BY DEF Init, Busy
<1>2. NumberingInv /\ CopiesInv
  BY <1>1 DEF NumberingInv, CopiesInv
<1>3. QueueInv /\ LedgerInv
  BY <1>1 DEF QueueInv, LedgerInv, Own, NoBatch
<1>4. AckedIsAccepted /\ AcceptedInv
  BY <1>1 DEF AckedIsAccepted, AcceptedInv
<1>5. QED
  BY <1>2, <1>3, <1>4 DEF DeliveryInv

-----------------------------------------------------------------------------
\* Steps of the EA and the threads before the queue: neither the queue nor the
\* engine is touched.
LEMMA SameQueue ==
  ASSUME UNCHANGED <<session, ingress, batch, ledger, ledger_session, delivered>>,
         QueueInv, LedgerInv
  PROVE  /\ QueueInv' /\ LedgerInv'
         /\ \A n, s : AheadOf(n, s)' <=> AheadOf(n, s)
         /\ \A s : Accepted(s)' <=> Accepted(s)
  BY DEF QueueInv, LedgerInv, AheadOf, Accepted, Taken, Own

\* The fields of the batches on their way are numbers.
LEMMA FieldsAreNumbers ==
  ASSUME TypeInv,
         NEW b, \/ \E c \in Connections : Busy(c) /\ b = held[c]
                \/ \E c \in Connections : \E i \in 1 .. Len(sent[c]) : b = sent[c][i]
                \/ \E i \in 1 .. Len(ingress) : b = ingress[i]
                \/ batch # NoBatch /\ b = batch
  PROVE  b \in Batch /\ b.session \in Nat \ {0} /\ b.first \in Nat /\ b.last \in Nat
<1>1. b \in Batch
  BY DEF TypeInv, TypeOK
<1>2. QED
  BY <1>1, NumbersAreSequences, StopAndWaitAssumption, MaxSequenceAssumption DEF Sequence

LEMMA EaTypes ==
  ASSUME TypeInv
  PROVE  /\ session \in Nat \ {0} /\ epoch \in Nat \ {0} /\ warmed_epoch \in Nat
         /\ current_sequence \in Nat
         /\ pending_batch # NoBatch =>
              /\ pending_batch \in Batch /\ pending_batch.session \in Nat
              /\ pending_batch.first \in Nat /\ pending_batch.last \in Nat
              /\ pending_batch.first <= pending_batch.last
         /\ Collected \in Nat
<1>1. /\ session \in Nat \ {0} /\ epoch \in Nat \ {0} /\ warmed_epoch \in Nat
      /\ current_sequence \in Nat
  BY StopAndWaitAssumption, MaxSequenceAssumption DEF TypeInv, TypeOK
<1>2. pending_batch # NoBatch =>
        /\ pending_batch \in Batch /\ pending_batch.session \in Nat
        /\ pending_batch.first \in Nat /\ pending_batch.last \in Nat
        /\ pending_batch.first <= pending_batch.last
  BY SMTT(30), NumbersAreSequences, StopAndWaitAssumption, MaxSequenceAssumption
     DEF TypeInv, TypeOK, InOrder, Sequence
<1>3. QED
  BY <1>1, <1>2 DEF Collected

LEMMA ConnectKeepsDelivery ==
  ASSUME TypeInv, WaitInv, DeliveryInv, Connect
  PROVE  DeliveryInv'
<1> DEFINE n == opened + 1
<1>1. /\ n \in Connections /\ n # 0
      /\ opened' = n /\ connection' = n /\ warmed_epoch' = epoch
      /\ current_sequence' = IF warmed_epoch = epoch THEN current_sequence ELSE 0
      /\ pending_batch' = IF warmed_epoch = epoch THEN pending_batch ELSE NoBatch
      /\ thread' = [thread EXCEPT ![n] = "read"]
      /\ sent[n] = << >> /\ replies[n] = << >>
      /\ UNCHANGED <<session, sent, replies, epoch, held, ingress, batch, ledger, ledger_session,
                     delivered>>
  BY StopAndWaitAssumption DEF Connect, WaitInv, Plumbing, Connections, engine
<1>2. /\ thread'[n] = "read"
      /\ \A d \in Connections : d # n => thread'[d] = thread[d]
  BY <1>1 DEF TypeInv, TypeOK
<1>3. QueueInv' /\ LedgerInv' /\ \A s : Accepted(s)' <=> Accepted(s)
  BY <1>1, SameQueue DEF DeliveryInv
<1>4. NumberingInv'
  BY <1>1, EaTypes DEF DeliveryInv, NumberingInv, Own
<1>5. \A b : Numbered(b) => Numbered(b)'
  BY <1>1 DEF Numbered, Own, Collected
<1>6. \A b : Numbered(b) /\ Follows(b) => Follows(b)'
  BY <1>1 DEF Numbered, Follows, Own
<1>7. CopiesInv'
  BY <1>1, <1>2, <1>5, <1>6 DEF DeliveryInv, CopiesInv, Busy
<1>8. AckedIsAccepted'
  BY <1>1, <1>2 DEF AckedIsAccepted
<1>9. AcceptedInv'
  BY <1>1, <1>3 DEF DeliveryInv, AcceptedInv
<1>10. QED
  BY <1>3, <1>4, <1>7, <1>8, <1>9 DEF DeliveryInv

LEMMA CollectKeepsDelivery ==
  ASSUME TypeInv, WaitInv, DeliveryInv, Collect
  PROVE  DeliveryInv'
<1>1. /\ pending_batch = NoBatch /\ connection # 0
      /\ UNCHANGED <<session, warmed_epoch, current_sequence, connection, sent, replies, epoch,
                     thread, held, ingress, batch, ledger, ledger_session, delivered>>
  BY DEF Collect, network, threads, engine
<1>2. PICK k \in 1 .. BatchCount :
        pending_batch' = [session |-> session, first |-> current_sequence,
                          last |-> current_sequence + k - 1]
  BY DEF Collect
<1>3. /\ k \in Nat /\ k >= 1 /\ current_sequence \in Nat /\ session # 0
      /\ pending_batch' # NoBatch /\ pending_batch'.session = session
      /\ pending_batch'.first = current_sequence
      /\ pending_batch'.last = current_sequence + k - 1
  BY <1>2, EaTypes, StopAndWaitAssumption DEF NoBatch
<1>4. QueueInv' /\ LedgerInv' /\ \A s : Accepted(s)' <=> Accepted(s)
  BY <1>1, SameQueue DEF DeliveryInv
<1>5. NumberingInv'
  BY <1>1, <1>3, EaTypes DEF DeliveryInv, NumberingInv, Own
<1>6. Collected' = IF warmed_epoch = epoch THEN Collected + k ELSE Collected
  BY <1>1, <1>3 DEF Collected
<1>7. ASSUME NEW b, b.last \in Nat, Numbered(b) PROVE Numbered(b)'
  BY <1>1, <1>3, <1>6, <1>7, EaTypes DEF Numbered, Own
<1>8. CopiesInv'
  BY <1>1, <1>7, FieldsAreNumbers DEF DeliveryInv, CopiesInv, Busy, Follows, Own
<1>9. AckedIsAccepted'
  <2>1. Nowhere(connection)
    BY <1>1 DEF WaitInv, OneInFlight
  <2>2. QED
    BY <1>1, <2>1 DEF AckedIsAccepted, Nowhere, Busy
<1>10. AcceptedInv'
  BY <1>1, <1>4 DEF DeliveryInv, AcceptedInv
<1>11. QED
  BY <1>4, <1>5, <1>8, <1>9, <1>10 DEF DeliveryInv

LEMMA SendKeepsDelivery ==
  ASSUME TypeInv, WaitInv, DeliveryInv, Send
  PROVE  DeliveryInv'
<1> DEFINE c == connection
<1>1. /\ c \in Connections /\ c # 0 /\ pending_batch # NoBatch /\ Nowhere(c)
      /\ thread[c] # "done" => warmed_epoch = epoch
      /\ warmed_epoch # 0
  BY StopAndWaitAssumption
     DEF Send, WaitInv, Plumbing, PendingIsOfSession, OneInFlight, Connections
<1>2. /\ sent' = [sent EXCEPT ![c] = <<pending_batch>>]
      /\ UNCHANGED <<session, warmed_epoch, current_sequence, pending_batch, connection, replies,
                     epoch, thread, held, ingress, batch, ledger, ledger_session, delivered>>
  BY <1>1 DEF Send, threads, engine, Nowhere
<1>3. /\ sent'[c] = <<pending_batch>>
      /\ \A d \in Connections : d # c => sent'[d] = sent[d]
  BY <1>1, <1>2 DEF TypeInv, TypeOK
<1>4. QueueInv' /\ LedgerInv' /\ \A s : Accepted(s)' <=> Accepted(s)
  BY <1>2, SameQueue DEF DeliveryInv
<1>5. NumberingInv' /\ AckedIsAccepted' /\ AcceptedInv'
  BY <1>2, <1>4 DEF DeliveryInv, NumberingInv, AckedIsAccepted, AcceptedInv, Own
<1>6. \A b : (Numbered(b) => Numbered(b)') /\ (Follows(b) => Follows(b)')
  BY <1>2 DEF Numbered, Follows, Own, Collected
<1>7. /\ pending_batch.session <= session
      /\ thread[c] # "done" => Numbered(pending_batch) /\ Follows(pending_batch)
  BY <1>1, EaTypes DEF DeliveryInv, NumberingInv, Numbered, Follows, Own, Collected
<1>8. \A i \in 1 .. Len(sent'[c]) : sent'[c][i] = pending_batch
  BY <1>3
<1>9. CopiesInv'
  BY <1>2, <1>3, <1>6, <1>7, <1>8 DEF DeliveryInv, CopiesInv, Busy
<1>10. QED
  BY <1>4, <1>5, <1>9 DEF DeliveryInv

LEMMA PollKeepsDelivery ==
  ASSUME TypeInv, WaitInv, DeliveryInv, PollAndCommitAck
  PROVE  DeliveryInv'
<1> DEFINE c == connection
<1>1. /\ c \in Connections /\ c # 0 /\ replies[c] # << >> /\ warmed_epoch # 0
      /\ pending_batch # NoBatch /\ LastReply = pending_batch.last
  BY ReplyMatches, StopAndWaitAssumption
     DEF PollAndCommitAck, WaitInv, Plumbing, PendingIsOfSession, Connections
<1>2. /\ current_sequence' = pending_batch.last + 1 /\ pending_batch' = NoBatch
      /\ UNCHANGED <<session, warmed_epoch, connection, sent, epoch,
                     thread, held, ingress, batch, ledger, ledger_session, delivered>>
  BY <1>1 DEF PollAndCommitAck, threads, engine
<1>3. /\ pending_batch.first = current_sequence /\ Own(pending_batch)
      /\ pending_batch.last \in Nat /\ current_sequence \in Nat
      /\ current_sequence <= pending_batch.last
  BY <1>1, EaTypes DEF DeliveryInv, NumberingInv
<1>4. QueueInv' /\ LedgerInv' /\ \A s : Accepted(s)' <=> Accepted(s)
  BY <1>2, SameQueue DEF DeliveryInv
<1>5. NumberingInv' /\ AckedIsAccepted'
  BY <1>2, EaTypes DEF DeliveryInv, NumberingInv, AckedIsAccepted
<1>6. Collected' = Collected
  BY <1>1, <1>2, <1>3 DEF Collected
<1>7. ASSUME NEW b, b.first \in Nat
      PROVE  (Numbered(b) => Numbered(b)') /\ (Follows(b) => Follows(b)')
  BY <1>2, <1>3, <1>6, <1>7 DEF Numbered, Follows, Own
<1>8. CopiesInv'
  BY <1>2, <1>7, FieldsAreNumbers DEF DeliveryInv, CopiesInv, Busy
<1>9. AcceptedInv'
  <2>1. SUFFICES ASSUME warmed_epoch = epoch, NEW s \in Nat, s < pending_batch.last + 1
                 PROVE  Accepted(s)
    BY <1>2, <1>4 DEF AcceptedInv
  <2>2. CASE s < current_sequence
    BY <2>1, <2>2 DEF DeliveryInv, AcceptedInv
  <2>3. CASE s >= current_sequence
    <3>1. s \in Numbers(pending_batch)
      BY <1>3, <2>1, <2>3 DEF Numbers
    <3>2. QED
      BY <1>1, <2>1, <3>1 DEF DeliveryInv, AckedIsAccepted
  <2>4. QED
    BY <1>3, <2>2, <2>3
<1>10. QED
  BY <1>4, <1>5, <1>8, <1>9 DEF DeliveryInv

LEMMA FaultKeepsDelivery ==
  ASSUME TypeInv, WaitInv, DeliveryInv, AckTimeout \/ ConnectionLost \/ ReloadEA
  PROVE  DeliveryInv'
<1>1. CASE AckTimeout \/ ConnectionLost
  <2>1. /\ connection' = 0
        /\ UNCHANGED <<session, warmed_epoch, current_sequence, pending_batch, sent, replies,
                       epoch, thread, held, ingress, batch, ledger, ledger_session, delivered>>
    BY <1>1 DEF AckTimeout, ConnectionLost, network, threads, engine
  <2>2. QueueInv' /\ LedgerInv' /\ \A s : Accepted(s)' <=> Accepted(s)
    BY <2>1, SameQueue DEF DeliveryInv
  <2>3. \A b : (Numbered(b) => Numbered(b)') /\ (Follows(b) => Follows(b)')
    BY <2>1 DEF Numbered, Follows, Own, Collected
  <2>4. CopiesInv'
    BY <2>1, <2>3 DEF DeliveryInv, CopiesInv, Busy
  <2>5. NumberingInv' /\ AckedIsAccepted' /\ AcceptedInv'
    BY <2>1, <2>2 DEF DeliveryInv, NumberingInv, AckedIsAccepted, AcceptedInv, Own
  <2>6. QED
    BY <2>2, <2>4, <2>5 DEF DeliveryInv
<1>2. CASE ReloadEA
  <2>1. /\ session' = session + 1 /\ connection' = 0 /\ warmed_epoch' = 0
        /\ UNCHANGED <<pending_batch, sent, epoch, thread, held, ingress, batch, ledger,
                       ledger_session>>
    BY <1>2 DEF ReloadEA, network, threads
  <2>2. ASSUME NEW b, b.session \in Nat, b.session <= session
        PROVE  b.session <= session' /\ ~Own(b)' /\ Numbered(b)' /\ Follows(b)'
    BY <2>1, <2>2, EaTypes DEF Numbered, Follows, Own
  <2>3. CopiesInv'
    BY <2>1, <2>2, FieldsAreNumbers DEF DeliveryInv, CopiesInv, Numbered, Busy
  <2>4. QueueInv'
    <3>1. ~Own(batch)' /\ \A i \in 1 .. Len(ingress) : ~Own(ingress[i])'
      <4>1. NoBatch.session = 0
        BY DEF NoBatch
      <4>2. QED
        BY SMTT(30), <2>1, <2>2, <4>1, FieldsAreNumbers, EaTypes DEF DeliveryInv, CopiesInv, Numbered, Own
    <3>2. QED
      BY <2>1, <3>1 DEF QueueInv, Own
  <2>5. LedgerInv'
    BY <2>1, EaTypes DEF DeliveryInv, LedgerInv, TypeInv, TypeOK
  <2>6. NumberingInv' /\ AckedIsAccepted' /\ AcceptedInv'
    BY <2>1, EaTypes DEF DeliveryInv, NumberingInv, AckedIsAccepted, AcceptedInv
  <2>7. QED
    BY <2>3, <2>4, <2>5, <2>6 DEF DeliveryInv
<1>3. QED
  BY <1>1, <1>2

LEMMA RestartKeepsDelivery ==
  ASSUME TypeInv, DeliveryInv, RestartTickScope
  PROVE  DeliveryInv'
<1>1. /\ epoch' = epoch + 1
      /\ sent' = [c \in Connections |-> << >>]
      /\ thread' = [c \in Connections |-> IF thread[c] = "none" THEN "none" ELSE "done"]
      /\ ingress' = << >> /\ batch' = NoBatch /\ ledger_session' = 0
      /\ UNCHANGED <<session, warmed_epoch, current_sequence, pending_batch>>
  BY DEF RestartTickScope, ea
<1>2. warmed_epoch <= epoch /\ warmed_epoch # epoch' /\ warmed_epoch < epoch'
  BY <1>1, EaTypes DEF DeliveryInv, NumberingInv
<1>3. \A c \in Connections : sent'[c] = << >> /\ ~Busy(c)'
  BY <1>1 DEF Busy
<1>4. NumberingInv' /\ CopiesInv'
  BY <1>1, <1>2, <1>3, EaTypes DEF DeliveryInv, NumberingInv, CopiesInv, Own
<1>5. QueueInv' /\ LedgerInv'
  BY <1>1, EaTypes DEF QueueInv, LedgerInv, Own, NoBatch
<1>6. AckedIsAccepted' /\ AcceptedInv'
  BY <1>1, <1>2 DEF AckedIsAccepted, AcceptedInv
<1>7. QED
  BY <1>4, <1>5, <1>6 DEF DeliveryInv

LEMMA ReadKeepsDelivery ==
  ASSUME TypeInv, DeliveryInv, NEW c \in Connections, ReadBatch(c)
  PROVE  DeliveryInv'
<1>1. /\ thread[c] = "read" /\ sent[c] \in Seq(Batch) /\ sent[c] # << >>
      /\ sent' = [sent EXCEPT ![c] = Tail(sent[c])]
      /\ held' = [held EXCEPT ![c] = Head(sent[c])]
      /\ thread' = [thread EXCEPT ![c] = IF RawCapture THEN "persist" ELSE "submit"]
      /\ UNCHANGED <<session, warmed_epoch, current_sequence, pending_batch, connection, replies,
                     epoch, ingress, batch, ledger, ledger_session, delivered>>
  BY DEF ReadBatch, TypeInv, TypeOK, ea, engine
<1>2. /\ sent'[c] = Tail(sent[c]) /\ held'[c] = sent[c][1]
      /\ 1 \in 1 .. Len(sent[c])
      /\ \A i \in 1 .. Len(sent'[c]) : sent'[c][i] = sent[c][i + 1] /\ i + 1 \in 1 .. Len(sent[c])
      /\ thread'[c] \in {"persist", "submit"}
      /\ \A d \in Connections : d # c =>
           sent'[d] = sent[d] /\ held'[d] = held[d] /\ thread'[d] = thread[d]
  BY <1>1 DEF TypeInv, TypeOK
<1>3. QueueInv' /\ LedgerInv' /\ \A s : Accepted(s)' <=> Accepted(s)
  BY <1>1, SameQueue DEF DeliveryInv
<1>4. \A b : (Numbered(b) => Numbered(b)') /\ (Follows(b) => Follows(b)')
  BY <1>1 DEF Numbered, Follows, Own, Collected
<1>5. CopiesInv'
  BY <1>1, <1>2, <1>4 DEF DeliveryInv, CopiesInv, Busy
<1>6. NumberingInv' /\ AckedIsAccepted' /\ AcceptedInv'
  BY <1>1, <1>2, <1>3, EaTypes, StopAndWaitAssumption
     DEF DeliveryInv, NumberingInv, AckedIsAccepted, AcceptedInv, Own, TypeInv, TypeOK
<1>7. QED
  BY <1>3, <1>5, <1>6 DEF DeliveryInv

\* Writing to the raw log and closing only end a thread's turn.
LEMMA PersistAndCloseKeepDelivery ==
  ASSUME TypeInv, DeliveryInv, NEW c \in Connections, Persist(c) \/ CloseConnection(c)
  PROVE  DeliveryInv'
<1>1. /\ \/ thread' = [thread EXCEPT ![c] = "submit"] /\ thread[c] = "persist" /\ UNCHANGED held
         \/ thread' = [thread EXCEPT ![c] = "done"] /\ held' = [held EXCEPT ![c] = NoBatch]
      /\ UNCHANGED <<session, warmed_epoch, current_sequence, pending_batch, connection, sent,
                     replies, epoch, ingress, batch, ledger, ledger_session, delivered>>
  BY DEF Persist, CloseConnection, ea, network, engine
<1>2. \A d \in Connections :
        /\ Busy(d)' => Busy(d) /\ held'[d] = held[d]
        /\ thread[d] = "done" => thread'[d] = "done"
        /\ thread'[d] = "ack" => thread[d] = "ack"
  BY <1>1 DEF TypeInv, TypeOK, Busy
<1>3. QueueInv' /\ LedgerInv' /\ \A s : Accepted(s)' <=> Accepted(s)
  BY <1>1, SameQueue DEF DeliveryInv
<1>4. \A b : (Numbered(b) => Numbered(b)') /\ (Follows(b) => Follows(b)')
  BY <1>1 DEF Numbered, Follows, Own, Collected
<1>5. CopiesInv'
  BY <1>1, <1>2, <1>4 DEF DeliveryInv, CopiesInv
<1>6. NumberingInv' /\ AckedIsAccepted' /\ AcceptedInv'
  BY <1>1, <1>2, <1>3, StopAndWaitAssumption
     DEF DeliveryInv, NumberingInv, AckedIsAccepted, AcceptedInv, Own, TypeInv, TypeOK
<1>7. QED
  BY <1>3, <1>5, <1>6 DEF DeliveryInv

\* The queue grows at its end: all that precedes the batch is committed, hence
\* accepted before it.
LEMMA SubmitKeepsDelivery ==
  ASSUME TypeInv, WaitInv, DeliveryInv, NEW c \in Connections, SubmitBatch(c)
  PROVE  DeliveryInv'
<1> DEFINE n == Len(ingress)
<1>1. /\ thread[c] = "submit" /\ Busy(c)
      /\ thread' = [thread EXCEPT ![c] = "ack"]
      /\ ingress' = Append(ingress, held[c])
      /\ UNCHANGED <<session, warmed_epoch, current_sequence, pending_batch, connection, sent,
                     replies, epoch, held, batch, ledger, ledger_session, delivered>>
  BY DEF SubmitBatch, Busy, ea, network
<1>2. /\ \A d \in Connections : (Busy(d)' => Busy(d)) /\ (thread[d] = "done" => thread'[d] = "done")
      /\ \A d \in Connections : d # c => thread'[d] = thread[d]
  BY <1>1 DEF TypeInv, TypeOK, Busy
<1>3. held[c] \in Batch /\ held[c].first \in Nat /\ held[c].session \in Nat \ {0}
  BY <1>1, FieldsAreNumbers
<1>4. /\ n \in Nat /\ Len(ingress') = n + 1 /\ ingress'[n + 1] = held[c]
      /\ \A i \in 1 .. n : ingress'[i] = ingress[i]
      /\ 1 .. n + 1 = (1 .. n) \cup {n + 1}
  <2>1. ingress \in Seq(Batch)
    BY DEF TypeInv, TypeOK
  <2>2. QED
    BY <1>1, <1>3, <2>1
<1>5. /\ \A m \in 0 .. n : \A s : AheadOf(m, s)' <=> AheadOf(m, s)
      /\ \A s : Accepted(s) => Accepted(s)'
      /\ \A s : Own(held[c]) /\ s \in Numbers(held[c]) => Accepted(s)'
  <2>1. \A m \in 0 .. n : \A i \in 1 .. m : ingress'[i] = ingress[i]
    BY <1>4
  <2>2. \A m \in 0 .. n : \A s : AheadOf(m, s)' <=> AheadOf(m, s)
    BY <1>1, <2>1 DEF AheadOf, Taken, Own
  <2>3. \A s : Accepted(s) => Accepted(s)'
    BY <1>1, <1>4 DEF Accepted, AheadOf, Taken, Own
  <2>4. \A s : Own(held[c]) /\ s \in Numbers(held[c]) => Accepted(s)'
    BY <1>1, <1>4 DEF Accepted, AheadOf, Own
  <2>5. QED
    BY <2>2, <2>3, <2>4
<1>6. \A b : (Numbered(b) => Numbered(b)') /\ (Follows(b) => Follows(b)')
  BY <1>1 DEF Numbered, Follows, Own, Collected
<1>7. Numbered(held[c]) /\ Follows(held[c])
  BY <1>1 DEF DeliveryInv, CopiesInv
<1>8. CopiesInv'
  <2>1. \A i \in 1 .. Len(ingress') : Numbered(ingress[i])'
    BY <1>4, <1>6, <1>7 DEF DeliveryInv, CopiesInv
  <2>2. QED
    BY <1>1, <1>2, <1>6, <2>1 DEF DeliveryInv, CopiesInv
<1>9. QueueInv'
  <2>1. ASSUME NEW i \in 1 .. Len(ingress'), Own(ingress[i])', NEW s \in Nat, s < ingress'[i].first
        PROVE  AheadOf(i - 1, s)'
    <3>1. CASE i \in 1 .. n
      <4>1. AheadOf(i - 1, s) /\ i - 1 \in 0 .. n
        BY <1>1, <1>4, <2>1, <3>1 DEF DeliveryInv, QueueInv, Own
      <4>2. QED
        BY <1>5, <4>1
    <3>2. CASE i = n + 1
      <4>1. Own(held[c]) /\ s < held[c].first
        BY <1>1, <1>4, <2>1, <3>2 DEF Own
      <4>2. warmed_epoch = epoch /\ s < current_sequence
        BY <1>3, <1>7, <4>1, EaTypes DEF Numbered, Follows
      <4>3. AheadOf(n, s)
        BY <4>2 DEF DeliveryInv, AcceptedInv, Accepted
      <4>4. QED
        BY <1>4, <1>5, <3>2, <4>3
    <3>3. QED
      BY <1>4, <2>1, <3>1, <3>2
  <2>2. QED
    BY <1>1, <2>1 DEF DeliveryInv, QueueInv, Own, Taken
<1>10. LedgerInv' /\ NumberingInv' /\ AcceptedInv'
  BY <1>1, <1>5 DEF DeliveryInv, LedgerInv, NumberingInv, AcceptedInv, Own, Taken
<1>11. AckedIsAccepted'
  <2>1. CASE c = connection
    <3>1. held[c] = pending_batch /\ warmed_epoch # 0
      BY <1>1, <2>1, LiveConnection DEF Nowhere, OnTheWay, WithThread, Answered, WaitInv, PendingIsOfSession
    <3>2. Own(held[c])
      BY <1>3, <3>1, NumbersAreSequences DEF DeliveryInv, NumberingInv
    <3>3. QED
      BY <1>1, <1>5, <3>1, <3>2 DEF AckedIsAccepted
  <2>2. CASE c # connection
    <3>1. connection # 0 => connection \in Connections
      BY DEF TypeInv, TypeOK
    <3>2. QED
      BY <1>1, <1>2, <1>5, <2>2, <3>1 DEF DeliveryInv, AckedIsAccepted
  <2>3. QED
    BY <2>1, <2>2
<1>12. QED
  BY <1>8, <1>9, <1>10, <1>11 DEF DeliveryInv

LEMMA AckKeepsDelivery ==
  ASSUME TypeInv, WaitInv, DeliveryInv, NEW c \in Connections, SendBatchAck(c)
  PROVE  DeliveryInv'
<1>1. /\ thread[c] = "ack"
      /\ thread' = [thread EXCEPT ![c] = "read"]
      /\ held' = [held EXCEPT ![c] = NoBatch]
      /\ replies' = [replies EXCEPT ![c] = Append(replies[c], held[c].last)]
      /\ UNCHANGED <<session, warmed_epoch, current_sequence, pending_batch, connection, sent,
                     epoch, ingress, batch, ledger, ledger_session, delivered>>
  BY DEF SendBatchAck, ea, engine
<1>2. /\ \A d \in Connections :
           /\ Busy(d)' => Busy(d) /\ held'[d] = held[d]
           /\ thread[d] = "done" => thread'[d] = "done"
           /\ thread'[d] = "ack" => thread[d] = "ack"
      /\ \A d \in Connections : d # c => replies'[d] = replies[d]
  BY <1>1 DEF TypeInv, TypeOK, Busy
<1>3. QueueInv' /\ LedgerInv' /\ \A s : Accepted(s)' <=> Accepted(s)
  BY <1>1, SameQueue DEF DeliveryInv
<1>4. \A b : (Numbered(b) => Numbered(b)') /\ (Follows(b) => Follows(b)')
  BY <1>1 DEF Numbered, Follows, Own, Collected
<1>5. CopiesInv'
  BY <1>1, <1>2, <1>4 DEF DeliveryInv, CopiesInv
<1>6. NumberingInv' /\ AcceptedInv'
  BY <1>1, <1>3 DEF DeliveryInv, NumberingInv, AcceptedInv, Own
<1>7. AckedIsAccepted'
  <2>1. connection # 0 => connection \in Connections
    BY DEF TypeInv, TypeOK
  <2>2. QED
    BY <1>1, <1>2, <1>3, <2>1 DEF DeliveryInv, AckedIsAccepted
<1>8. QED
  BY <1>3, <1>5, <1>6, <1>7 DEF DeliveryInv

LEMMA TakeKeepsDelivery ==
  ASSUME TypeInv, DeliveryInv, TakeBatch
  PROVE  DeliveryInv'
<1> DEFINE n == Len(ingress)
<1>1. /\ n \in Nat \ {0} /\ Len(ingress') = n - 1
      /\ batch' = ingress[1] /\ 1 \in 1 .. n /\ batch' # NoBatch
      /\ \A i \in 1 .. n - 1 : ingress'[i] = ingress[i + 1] /\ i + 1 \in 1 .. n
      /\ UNCHANGED <<session, warmed_epoch, current_sequence, pending_batch, connection, sent,
                     replies, epoch, thread, held, delivered>>
  BY TakenBatch, NumbersAreSequences
<1>2. ~Own(batch)
  BY TakenBatch, EaTypes DEF Own, NoBatch
<1>3. ASSUME NEW m \in 1 .. n, NEW s, AheadOf(m, s) PROVE AheadOf(m - 1, s)'
  <2>1. CASE Taken(s)
    BY <1>1, <2>1 DEF AheadOf, Taken
  <2>2. ASSUME NEW i \in 1 .. m, Own(ingress[i]), s \in Numbers(ingress[i]) PROVE AheadOf(m - 1, s)'
    <3>1. CASE i = 1
      BY <1>1, <2>2, <3>1 DEF AheadOf, Own
    <3>2. CASE i # 1
      <4>1. i - 1 \in 1 .. m - 1 /\ i - 1 \in 1 .. n - 1 /\ (i - 1) + 1 = i
        BY <1>1, <3>2
      <4>2. ingress'[i - 1] = ingress[i]
        BY <1>1, <4>1
      <4>3. QED
        BY <1>1, <2>2, <4>1, <4>2 DEF AheadOf, Own
    <3>3. QED
      BY <3>1, <3>2
  <2>3. QED
    BY <1>2, <1>3, <2>1, <2>2 DEF AheadOf
<1>4. \A s : Accepted(s) => Accepted(s)'
  BY <1>1, <1>3 DEF Accepted
<1>5. \A b : (Numbered(b) => Numbered(b)') /\ (Follows(b) => Follows(b)')
  BY <1>1 DEF Numbered, Follows, Own, Collected
<1>6. CopiesInv'
  BY <1>1, <1>5 DEF DeliveryInv, CopiesInv, Busy
<1>7. QueueInv'
  <2>1. ASSUME NEW i \in 1 .. n - 1, Own(ingress[i + 1]), NEW s \in Nat, s < ingress[i + 1].first
        PROVE  AheadOf(i - 1, s)'
    <3>1. i + 1 \in 1 .. n /\ i \in 1 .. n /\ (i + 1) - 1 = i
      BY <1>1
    <3>2. AheadOf(i, s)
      BY <2>1, <3>1 DEF DeliveryInv, QueueInv
    <3>3. QED
      BY <1>3, <3>1, <3>2
  <2>2. ASSUME Own(ingress[1]), NEW s \in Nat, s < ingress[1].first PROVE Taken(s)
    <3>1. AheadOf(1 - 1, s)
      BY <1>1, <2>2 DEF DeliveryInv, QueueInv
    <3>2. QED
      BY <1>2, <3>1 DEF AheadOf
  <2>3. QED
    BY <1>1, <2>1, <2>2 DEF QueueInv, Own, Taken
<1>8. LedgerInv'
  <2>1. /\ ledger_session' = batch'.session /\ batch'.session <= session
        /\ ledger' = IF batch'.session = ledger_session THEN ledger ELSE NewLedger
    BY <1>1, TakenBatch DEF DeliveryInv, CopiesInv, Numbered
  <2>2. CASE batch'.session = ledger_session
    BY <1>1, <2>1, <2>2 DEF DeliveryInv, LedgerInv, Taken
  <2>3. CASE batch'.session # ledger_session
    BY <1>1, <2>1, <2>3, NewLedgerIsWellFormed DEF LedgerInv
  <2>4. QED
    BY <2>2, <2>3
<1>9. NumberingInv' /\ AckedIsAccepted' /\ AcceptedInv'
  BY <1>1, <1>4 DEF DeliveryInv, NumberingInv, AckedIsAccepted, AcceptedInv, Own
<1>10. QED
  BY <1>6, <1>7, <1>8, <1>9 DEF DeliveryInv

\* After its step the tick is processed, now or before.
LEMMA TickIsTaken ==
  ASSUME TypeInv, DeliveryInv, ObserveTick, Own(batch)
  PROVE  /\ \A s : Taken(s) => Taken(s)'
         /\ \A s : s = batch.first => Taken(s)'
<1>1. /\ batch \in Batch /\ batch.first \in Sequence /\ batch # NoBatch
      /\ delivered \in Seq(Sequence) /\ ledger \in Ledger
  BY ObservedTick, NumbersAreSequences DEF TypeInv, TypeOK
<1>2. ledger_session = session
  BY <1>1 DEF DeliveryInv, LedgerInv, Own
<1>3. CASE Classify(ledger, batch.first) = "New"
  <2>1. delivered' = Append(delivered, batch.first)
    BY <1>3, ObservedTick DEF Own
  <2>2. /\ Len(delivered') = Len(delivered) + 1 /\ Len(delivered) \in Nat
        /\ delivered'[Len(delivered) + 1] = batch.first
        /\ \A i \in 1 .. Len(delivered) : delivered'[i] = delivered[i]
    BY <1>1, <2>1
  <2>3. QED
    BY <2>2 DEF Taken
<1>4. CASE Classify(ledger, batch.first) # "New"
  <2>1. delivered' = delivered
    BY <1>4, ObservedTick
  <2>2. batch.first \in ledger.seen_sequences \/ batch.first < ledger.expected_sequence
    <3>1. batch.first \in Nat /\ ledger.expected_sequence \in Nat
      BY <1>1, MaxSequenceAssumption DEF Ledger, Sequence
    <3>2. QED
      BY <1>1, <1>4, <3>1, ClassifyFacts
  <2>3. batch.first \in Nat
    BY <1>1, MaxSequenceAssumption DEF Sequence
  <2>4. Taken(batch.first)
    BY <1>2, <2>2, <2>3 DEF DeliveryInv, LedgerInv
  <2>5. QED
    BY <2>1, <2>4 DEF Taken
<1>5. QED
  BY <1>3, <1>4

LEMMA ObserveKeepsDelivery ==
  ASSUME TypeInv, DeliveryInv, ObserveTick
  PROVE  DeliveryInv'
<1> DEFINE t == batch.first
<1>1. /\ batch # NoBatch /\ batch \in Batch
      /\ t \in Nat /\ batch.last \in Nat /\ batch.session \in Nat \ {0} /\ t \in Sequence
      /\ \/ batch' = NoBatch /\ t = batch.last
         \/ /\ batch' \in Batch /\ batch'.session = batch.session
            /\ batch'.first = t + 1 /\ batch'.last = batch.last
            /\ t < batch.last
      /\ UNCHANGED <<session, warmed_epoch, current_sequence, pending_batch, connection, sent,
                     replies, epoch, thread, held, ingress, ledger_session>>
  BY ObservedTick, NumbersAreSequences, StopAndWaitAssumption, MaxSequenceAssumption DEF Sequence
<1>2. /\ ledger_session = batch.session /\ session # 0 /\ NoBatch.session = 0
  BY <1>1, EaTypes DEF DeliveryInv, LedgerInv, NoBatch
<1>3. \A b : (Numbered(b) => Numbered(b)') /\ (Follows(b) => Follows(b)')
  BY <1>1 DEF Numbered, Follows, Own, Collected
<1>4. CopiesInv'
  <2>1. batch' # NoBatch => Numbered(batch)'
    BY <1>1 DEF DeliveryInv, CopiesInv, Numbered, Own, Collected
  <2>2. QED
    BY <1>1, <1>3, <2>1 DEF DeliveryInv, CopiesInv, Busy
<1>5. /\ \A m, s : AheadOf(m, s) => AheadOf(m, s)'
      /\ \A s : Taken(s) => Taken(s)'
      /\ Own(batch)' => \A s \in Nat : s < batch'.first => Taken(s)'
      /\ LedgerInv'
  <2>1. CASE ~Own(batch)
    <3>1. delivered' = delivered /\ ~Own(batch)'
      BY <1>1, <1>2, <2>1, ObservedTick DEF Own
    <3>2. LedgerInv'
      BY <1>1, <1>2, <2>1 DEF DeliveryInv, LedgerInv, Own
    <3>3. QED
      BY <1>1, <2>1, <3>1, <3>2 DEF AheadOf, Taken, Own
  <2>2. CASE Own(batch)
    <3>1. (\A s : Taken(s) => Taken(s)') /\ (\A s : s = t => Taken(s)')
      BY <2>2, TickIsTaken
    <3>2. \A s \in Nat : s <= t => Taken(s)'
      BY <1>1, <2>2, <3>1 DEF DeliveryInv, QueueInv
    <3>3. \A s : s \in Numbers(batch) => s = t \/ (Own(batch)' /\ s \in Numbers(batch)')
      BY <1>1, <2>2 DEF Numbers, Own
    <3>4. \A m, s : AheadOf(m, s) => AheadOf(m, s)'
      BY <1>1, <2>2, <3>1, <3>3 DEF AheadOf, Own
    <3>5. Own(batch)' => \A s \in Nat : s < batch'.first => Taken(s)'
      BY <1>1, <1>2, <3>2 DEF Own
    <3>6. LedgerInv'
      <4>1. ledger_session = session
        BY <1>2, <2>2 DEF Own
      <4>2. /\ \A s \in ledger.seen_sequences : Taken(s)'
            /\ \A s \in Nat : s < ledger.expected_sequence => Taken(s)'
        BY <3>1, <4>1 DEF DeliveryInv, LedgerInv
      <4>3. CASE Classify(ledger, t) = "New"
        <5>1. /\ ledger'.expected_sequence = SaturatingSucc(t)
              /\ ledger'.seen_sequences \subseteq ledger.seen_sequences \cup {t}
          BY <4>3, ObservedTick
        <5>2. \A s \in Nat : s < SaturatingSucc(t) => s <= t
          BY <1>1, SaturatingSuccFacts, MaxSequenceAssumption
        <5>3. QED
          BY <1>1, <1>2, <3>1, <3>2, <4>2, <5>1, <5>2 DEF DeliveryInv, LedgerInv
      <4>4. CASE Classify(ledger, t) # "New"
        <5>1. ledger' = ledger
          BY <4>4, ObservedTick
        <5>2. QED
          BY <1>1, <1>2, <4>2, <5>1 DEF DeliveryInv, LedgerInv
      <4>5. QED
        BY <4>3, <4>4
    <3>7. QED
      BY <3>1, <3>4, <3>5, <3>6
  <2>3. QED
    BY <2>1, <2>2
<1>6. QueueInv'
  BY <1>1, <1>5 DEF DeliveryInv, QueueInv, Own
<1>7. NumberingInv' /\ AckedIsAccepted' /\ AcceptedInv'
  BY <1>1, <1>5 DEF DeliveryInv, NumberingInv, AckedIsAccepted, AcceptedInv, Own, Accepted
<1>8. QED
  BY <1>4, <1>5, <1>6, <1>7 DEF DeliveryInv

LEMMA DeliveryInvariant == Spec => []DeliveryInv
<1>1. ASSUME TypeInv, WaitInv, DeliveryInv, UNCHANGED vars PROVE DeliveryInv'
  BY <1>1 DEF vars, ea, network, threads, engine, DeliveryInv, NumberingInv, CopiesInv, QueueInv,
     LedgerInv, AckedIsAccepted, AcceptedInv, Numbered, Follows, Own, Collected, Accepted, AheadOf,
     Taken, Busy
<1>2. TypeInv /\ WaitInv /\ DeliveryInv /\ [Next]_vars => DeliveryInv'
  BY <1>1, ConnectKeepsDelivery, CollectKeepsDelivery, SendKeepsDelivery, PollKeepsDelivery,
     FaultKeepsDelivery, RestartKeepsDelivery, ReadKeepsDelivery, PersistAndCloseKeepDelivery,
     SubmitKeepsDelivery, AckKeepsDelivery, TakeKeepsDelivery, ObserveKeepsDelivery
     DEF Next, Receiver
<1>3. QED
  BY DeliveryInvInit, TypeInvariant, WaitInvariant, <1>2, PTL DEF Spec

\* As long as TickScope lives, every tick the EA has committed - and will never send
\* again - is processed or queued, for any number of faults and reloads.
THEOREM CommittedTicksAreAccepted == Spec => []CommittedIsAccepted
<1>1. TypeInv /\ DeliveryInv => CommittedIsAccepted
  <2> SUFFICES ASSUME TypeInv, DeliveryInv, warmed_epoch = epoch, NEW s \in 0 .. current_sequence - 1
               PROVE  AheadOf(Len(ingress), s)
    BY DEF CommittedIsAccepted, AheadOf, Taken, Own
  <2>1. s \in Nat /\ s < current_sequence
    BY EaTypes
  <2>2. QED
    BY <2>1 DEF DeliveryInv, AcceptedInv, Accepted
<1>2. QED
  BY TypeInvariant, DeliveryInvariant, <1>1, PTL

-----------------------------------------------------------------------------
(* The refinement of TickStream.                                             *)

\* A batch of an earlier start of the EA that reaches the engine after one of a
\* later start resets the ledger: the run stop_and_wait_reload shows what follows.
\* The refinement holds of the behaviours in which none does.
NoStraggler == TakeBatch => Head(ingress).session >= ledger_session

SessionsInOrder == [][NoStraggler]_vars

\* What is processed is a prefix of the natural numbers, and a ledger that is in
\* this session expects the next one.
StreamInv ==
  /\ \A i \in 1 .. Len(delivered) : delivered[i] = i - 1
  /\ Len(delivered) <= MaxSequence + 1
  /\ ledger_session # session => delivered = << >>
  /\ ledger_session = session =>
       /\ Len(delivered) <= MaxSequence => ledger.expected_sequence = Len(delivered)
       /\ Len(delivered) = MaxSequence + 1 =>
            ledger.expected_sequence = MaxSequence /\ MaxSequence \in ledger.seen_sequences

LEMMA StreamInvInit == Init => StreamInv
<1> SUFFICES ASSUME Init PROVE StreamInv
  OBVIOUS
<1>1. delivered = << >> /\ ledger_session = 0 /\ session = 1
  BY DEF Init
<1>2. Len(delivered) = 0
  BY <1>1
<1>3. QED
  BY <1>1, <1>2, MaxSequenceAssumption DEF StreamInv

\* A tick of this session is new only if it is the next one.
LEMMA NewTickIsNext ==
  ASSUME TypeInv, DeliveryInv, StreamInv, ObserveTick, Own(batch),
         Classify(ledger, batch.first) = "New"
  PROVE  /\ batch.first = Len(delivered) /\ Len(delivered) \in Nat
         /\ Len(delivered) <= MaxSequence
         /\ ledger_session = session
         /\ warmed_epoch = epoch /\ Len(delivered) < Collected
<1> DEFINE t == batch.first
           n == Len(delivered)
<1>1. /\ batch \in Batch /\ batch # NoBatch /\ t \in Nat /\ t <= MaxSequence /\ t <= batch.last
      /\ batch.last \in Nat /\ t \in Sequence
      /\ t \notin ledger.seen_sequences /\ t >= ledger.expected_sequence
  BY ObservedTick, NumbersAreSequences, MaxSequenceAssumption DEF Sequence, InOrder
<1>2. ledger_session = session
  BY <1>1 DEF DeliveryInv, LedgerInv, Own
<1>3. warmed_epoch = epoch /\ batch.last < Collected
  BY <1>1 DEF DeliveryInv, CopiesInv, Numbered
<1>4. n \in Nat
  BY DEF TypeInv, TypeOK
<1>5. t <= n
  <2>1. SUFFICES ASSUME n < t PROVE FALSE
    BY <1>1, <1>4
  <2>2. Taken(n)
    BY <1>4, <2>1 DEF DeliveryInv, QueueInv
  <2>3. PICK i \in 1 .. n : delivered[i] = n
    BY <2>2 DEF Taken
  <2>4. QED
    BY <1>4, <2>3 DEF StreamInv
<1>6. n <= MaxSequence
  <2>1. SUFFICES ASSUME n = MaxSequence + 1 PROVE FALSE
    BY <1>4, MaxSequenceAssumption DEF StreamInv
  <2>2. QED
    BY <1>1, <1>2, <2>1, MaxSequenceAssumption DEF StreamInv
<1>7. t = n
  BY <1>1, <1>2, <1>4, <1>5, <1>6 DEF StreamInv
<1>8. QED
  BY <1>1, <1>2, <1>3, <1>4, <1>6, <1>7, EaTypes

LEMMA ObserveKeepsStream ==
  ASSUME TypeInv, DeliveryInv, StreamInv, ObserveTick
  PROVE  StreamInv'
<1>1. /\ UNCHANGED <<session, ledger_session>>
      /\ batch # NoBatch /\ ledger_session = batch.session
  BY ObservedTick, NumbersAreSequences DEF DeliveryInv, LedgerInv
<1>2. CASE ~Own(batch)
  <2>1. delivered' = delivered
    BY <1>2, ObservedTick DEF Own
  <2>2. QED
    BY <1>1, <1>2, <2>1 DEF StreamInv, Own
<1>3. CASE Classify(ledger, batch.first) # "New"
  <2>1. delivered' = delivered /\ ledger' = ledger
    BY <1>3, ObservedTick
  <2>2. QED
    BY <1>1, <2>1 DEF StreamInv
<1>4. CASE Own(batch) /\ Classify(ledger, batch.first) = "New"
  <2> DEFINE n == Len(delivered)
  <2>1. n \in Nat /\ n <= MaxSequence /\ batch.first = n /\ n \in Sequence
    BY <1>4, NewTickIsNext, ObservedTick
  <2>2. /\ delivered' = Append(delivered, n) /\ delivered \in Seq(Sequence)
        /\ ledger'.expected_sequence = SaturatingSucc(n)
        /\ n \in ledger'.seen_sequences
    BY <1>4, <2>1, ObservedTick DEF Own, TypeInv, TypeOK
  <2>3. /\ Len(delivered') = n + 1 /\ delivered'[n + 1] = n
        /\ \A i \in 1 .. n : delivered'[i] = i - 1
    BY <2>1, <2>2 DEF StreamInv
  <2>4. \A i \in 1 .. n + 1 : delivered'[i] = i - 1
    BY <2>1, <2>3
  <2>5. CASE n < MaxSequence
    BY <1>1, <1>4, <2>1, <2>2, <2>3, <2>4, <2>5, SaturatingSuccFacts, MaxSequenceAssumption
       DEF StreamInv, Own
  <2>6. CASE n = MaxSequence
    BY <1>1, <1>4, <2>1, <2>2, <2>3, <2>4, <2>6, SaturatingSuccFacts, MaxSequenceAssumption
       DEF StreamInv, Own
  <2>7. QED
    BY <2>1, <2>5, <2>6, MaxSequenceAssumption
<1>5. QED
  BY <1>2, <1>3, <1>4

LEMMA TakeKeepsStream ==
  ASSUME TypeInv, DeliveryInv, StreamInv, TakeBatch, NoStraggler
  PROVE  StreamInv'
<1>1. /\ UNCHANGED <<session, delivered>>
      /\ ledger_session' = batch'.session
      /\ ledger' = IF batch'.session = ledger_session THEN ledger ELSE NewLedger
      /\ batch' = ingress[1] /\ 1 \in 1 .. Len(ingress)
  BY TakenBatch
<1>2. ledger_session <= batch'.session
  BY StopAndWaitAssumption, TakenBatch, NumbersAreSequences DEF NoStraggler, TakeBatch, TypeInv, TypeOK
<1>3. batch'.session <= session /\ batch'.session \in Nat /\ ledger_session \in Nat /\ session \in Nat
  BY <1>1, TakenBatch, NumbersAreSequences, StopAndWaitAssumption
     DEF DeliveryInv, CopiesInv, Numbered, TypeInv, TypeOK
<1>4. CASE batch'.session = ledger_session
  BY <1>1, <1>4 DEF StreamInv
<1>5. CASE batch'.session # ledger_session
  <2>1. delivered = << >>
    BY <1>2, <1>3, <1>5 DEF StreamInv
  <2>2. Len(delivered) = 0
    BY <2>1
  <2>3. QED
    BY <1>1, <1>5, <2>1, <2>2, NewLedgerIsWellFormed, MaxSequenceAssumption DEF StreamInv
<1>6. QED
  BY <1>4, <1>5

LEMMA StreamInvNext ==
  TypeInv /\ DeliveryInv /\ StreamInv /\ [Next]_vars /\ [NoStraggler]_vars => StreamInv'
<1> SUFFICES ASSUME TypeInv, DeliveryInv, StreamInv, [Next]_vars, [NoStraggler]_vars
             PROVE  StreamInv'
  OBVIOUS
<1>1. CASE UNCHANGED <<session, ledger, ledger_session, delivered>>
  BY <1>1 DEF StreamInv
<1>2. CASE Connect \/ Collect \/ Send \/ PollAndCommitAck \/ AckTimeout \/ ConnectionLost
  BY <1>1, <1>2 DEF Connect, Collect, Send, PollAndCommitAck, AckTimeout, ConnectionLost, engine
<1>3. CASE \E c \in Connections : Receiver(c)
  BY <1>1, <1>3 DEF Receiver, ReadBatch, Persist, SubmitBatch, SendBatchAck, CloseConnection, ea, engine
<1>4. CASE ReloadEA \/ RestartTickScope
  <2>1. delivered' = << >> /\ ledger_session' # session'
    BY SMTT(30), <1>4, EaTypes DEF ReloadEA, RestartTickScope, ea, DeliveryInv, LedgerInv, TypeInv, TypeOK
  <2>2. Len(delivered') = 0
    BY <2>1
  <2>3. QED
    BY <2>1, <2>2, MaxSequenceAssumption DEF StreamInv
<1>5. CASE TakeBatch
  <2>1. batch' # batch
    BY <1>5, TakenBatch, NumbersAreSequences
  <2>2. NoStraggler
    BY <2>1 DEF vars, engine
  <2>3. QED
    BY <1>5, <2>2, TakeKeepsStream
<1>6. CASE ObserveTick
  BY <1>6, ObserveKeepsStream
<1>7. CASE UNCHANGED vars
  BY <1>1, <1>7 DEF vars, ea, engine
<1>8. QED
  BY <1>2, <1>3, <1>4, <1>5, <1>6, <1>7 DEF Next

LEMMA StreamInvariant == Spec /\ SessionsInOrder => []StreamInv
  BY StreamInvInit, StreamInvNext, TypeInvariant, DeliveryInvariant, PTL DEF Spec, SessionsInOrder

\* Every step of StopAndWait is a step of the stream, or no step of it.
LEMMA StepRefines ==
  ASSUME TypeInv, WaitInv, DeliveryInv, StreamInv, [Next]_vars
  PROVE  [Stream!Next]_(Stream!vars)
<1> USE DEF Stream!vars
<1>1. CASE Connect
  <2>1. UNCHANGED <<delivered, epoch>> /\ warmed_epoch' = epoch
        /\ current_sequence' = (IF warmed_epoch = epoch THEN current_sequence ELSE 0)
        /\ pending_batch' = (IF warmed_epoch = epoch THEN pending_batch ELSE NoBatch)
    BY <1>1 DEF Connect, engine
  <2>2. Collected' = Collected
    BY <2>1 DEF Collected
  <2>3. QED
    BY <2>1, <2>2
<1>2. CASE Collect
  <2>1. PICK k \in 1 .. BatchCount :
          pending_batch' = [session |-> session, first |-> current_sequence,
                            last |-> current_sequence + k - 1]
    BY <1>2 DEF Collect
  <2>2. /\ pending_batch = NoBatch /\ UNCHANGED <<delivered, epoch, warmed_epoch, current_sequence>>
        /\ pending_batch'.last = current_sequence + k - 1 /\ pending_batch' # NoBatch
        /\ k \in Nat /\ k >= 1 /\ current_sequence \in Nat
    BY <1>2, <2>1, EaTypes, StopAndWaitAssumption DEF Collect, engine, NoBatch
  <2>3. CASE warmed_epoch = epoch
    <3>1. Collected = current_sequence /\ Collected' = current_sequence + k
      BY <2>2, <2>3 DEF Collected
    <3>2. QED
      BY <2>2, <3>1 DEF Stream!Next, Stream!Collect
  <2>4. CASE warmed_epoch # epoch
    BY <2>2, <2>4 DEF Collected
  <2>5. QED
    BY <2>3, <2>4
<1>3. CASE PollAndCommitAck
  <2>1. /\ pending_batch # NoBatch /\ LastReply = pending_batch.last
    BY <1>3, ReplyMatches DEF PollAndCommitAck
  <2>2. /\ current_sequence' = pending_batch.last + 1 /\ pending_batch' = NoBatch
        /\ UNCHANGED <<delivered, epoch, warmed_epoch>>
    BY <1>3, <2>1 DEF PollAndCommitAck, engine
  <2>3. QED
    BY <2>1, <2>2 DEF Collected
<1>4. CASE Send \/ AckTimeout \/ ConnectionLost
  BY <1>4 DEF Send, AckTimeout, ConnectionLost, engine, Collected
<1>5. CASE ReloadEA
  <2>1. warmed_epoch' # epoch' /\ delivered' = << >>
    BY <1>5, EaTypes DEF ReloadEA
  <2>2. QED
    BY <2>1 DEF Collected, Stream!Next, Stream!Restart
<1>6. CASE RestartTickScope
  <2>1. warmed_epoch' # epoch' /\ delivered' = << >>
    BY <1>6, EaTypes DEF RestartTickScope, ea, DeliveryInv, NumberingInv
  <2>2. QED
    BY <2>1 DEF Collected, Stream!Next, Stream!Restart
<1>7. CASE \E c \in Connections : Receiver(c)
  BY <1>7 DEF Receiver, ReadBatch, Persist, SubmitBatch, SendBatchAck, CloseConnection, ea, engine, Collected
<1>8. CASE TakeBatch
  BY <1>8 DEF TakeBatch, ea, Collected
<1>9. CASE ObserveTick
  <2>1. Collected' = Collected
    BY <1>9 DEF ObserveTick, ea, Collected
  <2>2. CASE Own(batch) /\ Classify(ledger, batch.first) = "New"
    <3>1. /\ batch.first = Len(delivered) /\ Len(delivered) < Collected
          /\ delivered' = Append(delivered, batch.first)
      BY <1>9, <2>2, NewTickIsNext, ObservedTick DEF Own
    <3>2. QED
      BY <2>1, <3>1 DEF Stream!Next, Stream!Deliver
  <2>3. CASE ~(Own(batch) /\ Classify(ledger, batch.first) = "New")
    BY <1>9, <2>1, <2>3, ObservedTick DEF Own
  <2>4. QED
    BY <2>2, <2>3
<1>10. CASE UNCHANGED vars
  BY <1>10 DEF vars, ea, engine, Collected
<1>11. QED
  BY <1>1, <1>2, <1>3, <1>4, <1>5, <1>6, <1>7, <1>8, <1>9, <1>10 DEF Next

\* The EA, the receiver threads and the engine together implement TickStream: the
\* ticks of a start of the EA are processed in order, none twice and none left out,
\* for any number of connections, faults, starts of TickScope and reloads, as long
\* as no batch of an earlier start of the EA is taken after one of a later start.
THEOREM ImplementsStream == Spec /\ SessionsInOrder => ImplementsTickStream
<1>1. Init => Stream!Init
  BY DEF Init, Stream!Init, Collected
<1>2. TypeInv /\ WaitInv /\ DeliveryInv /\ StreamInv /\ [Next]_vars => [Stream!Next]_(Stream!vars)
  BY StepRefines
<1>3. QED
  BY <1>1, <1>2, StreamInvariant, TypeInvariant, WaitInvariant, DeliveryInvariant, PTL
     DEF Spec, ImplementsTickStream, Stream!Spec

\* In particular, while the EA is not reloaded.
COROLLARY OneStartImplementsStream ==
  ASSUME MaxSession = 1
  PROVE  Spec => ImplementsTickStream
<1>1. TypeInv => NoStraggler
  <2> SUFFICES ASSUME TypeInv, TakeBatch PROVE Head(ingress).session >= ledger_session
    BY DEF NoStraggler
  <2>1. Head(ingress) \in Batch
    BY DEF TakeBatch, TypeInv, TypeOK
  <2>2. QED
    BY <2>1, NumbersAreSequences, StopAndWaitAssumption DEF TypeInv, TypeOK
<1>2. QED
  BY <1>1, TypeInvariant, ImplementsStream, PTL DEF SessionsInOrder

\* The same hypothesis is all that GapsWereNotObserved needs: a SEQUENCE_GAP that
\* names a processed tick comes from a batch of an earlier start of the EA.
THEOREM GapsAreTrue == Spec /\ SessionsInOrder => []GapsWereNotObserved
<1> DEFINE NoneMissing == missing = {}
<1>1. Init => NoneMissing
  BY DEF Init
<1>2. TypeInv /\ DeliveryInv /\ StreamInv /\ NoneMissing /\ [Next]_vars => NoneMissing'
  <2> SUFFICES ASSUME TypeInv, DeliveryInv, StreamInv, missing = {}, [Next]_vars PROVE missing' = {}
    OBVIOUS
  <2>1. CASE ObserveTick
    <3>1. batch \in Batch /\ batch.first \in Sequence
      BY <2>1, ObservedTick
    <3>2. CASE Own(batch) /\ Classify(ledger, batch.first) = "New"
      <4>1. ledger.expected_sequence = batch.first /\ batch.first \in Nat
        BY <2>1, <3>2, NewTickIsNext DEF StreamInv
      <4>2. GapBefore(ledger, batch.first) = NoGap
        BY <4>1 DEF GapBefore
      <4>3. QED
        BY <2>1, <4>2 DEF ObserveTick
    <3>3. CASE ~(Own(batch) /\ Classify(ledger, batch.first) = "New")
      BY <2>1, <3>3 DEF ObserveTick, GapBefore, Own
    <3>4. QED
      BY <3>2, <3>3
  <2>2. CASE ReloadEA \/ RestartTickScope
    BY <2>2 DEF ReloadEA, RestartTickScope
  <2>3. CASE UNCHANGED missing
    BY <2>3
  <2>4. QED
    BY <2>1, <2>2, <2>3 DEF Next, Connect, Collect, Send, PollAndCommitAck, AckTimeout,
       ConnectionLost, Receiver, ReadBatch, Persist, SubmitBatch, SendBatchAck, CloseConnection,
       TakeBatch, ea, engine, vars
<1>3. NoneMissing => GapsWereNotObserved
  BY DEF GapsWereNotObserved
<1> HIDE DEF NoneMissing
<1>4. QED
  BY <1>1, <1>2, <1>3, StreamInvariant, TypeInvariant, DeliveryInvariant, PTL DEF Spec
=============================================================================
