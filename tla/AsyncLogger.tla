------------------------------- MODULE AsyncLogger -------------------------------
(***************************************************************************)
(* The raw log writer (src/src/storage/tlog_writer.rs).  Producers - the     *)
(* receiver threads, and the coordinator's start-up record - reserve bytes   *)
(* and put records into a bounded channel; one worker thread writes them to  *)
(* a file per broker and day and answers the producers that wait for stable  *)
(* storage.  Any write can fail: the logger then stops for good.  The        *)
(* coordinator calls finish() when it has joined the producers.              *)
(*                                                                           *)
(* A record is <<producer, number>>.  What has reached a file and not yet    *)
(* stable storage is lost if the machine stops: synced says how far each     *)
(* broker's log is safe.                                                     *)
(***************************************************************************)
EXTENDS Integers, SequencesExt, Aggregates

CONSTANTS
  Producers,        (* threads that append or flush                          *)
  Brokers,          (* log_broker_id                                         *)
  MaxQueueRecords,  (* max_queue_records                                     *)
  MaxQueueBytes,    (* max_queue_bytes                                       *)
  Sizes,            (* queued_record_bytes of the records that occur         *)
  MaxCalls,         (* bound: calls of a producer                            *)
  MaxDay            (* bound: UTC days                                       *)

ASSUME AsyncLoggerAssumption ==
  /\ IsFiniteSet(Producers)
  /\ MaxQueueRecords \in Nat \ {0}
  /\ MaxQueueBytes \in Nat \ {0}
  /\ Sizes \subseteq Nat \ {0}
  /\ MaxCalls \in Nat
  /\ MaxDay \in Nat \ {0}

VARIABLES
  \* producers
  pc,            (* where the producer is in its call                        *)
  call,          (* its current call, NoCall between calls                   *)
  calls,         (* calls it has started                                     *)
  reply,         (* its reply channel: "none", "ok" or "err"                 *)
  \* AsyncLogger
  channel,       (* commands sent, oldest first                              *)
  open,          (* does the worker still own the receiving end              *)
  running, fault, queued_bytes,
  \* the worker
  worker,        (* where the worker is                                      *)
  command,       (* the command it has received, NoCall for none             *)
  opened_on,     (* writers: day of each broker's open file, 0 for none      *)
  today,         (* current UTC date                                         *)
  log,           (* per broker: records written, over all its files          *)
  synced,        (* per broker: how many of them are on stable storage       *)
  finished,      (* has the coordinator joined the producers                 *)
  \* history
  accepted,      (* per broker: records the channel accepted, in order       *)
  confirmed,     (* <<broker, record>> whose durable append returned Ok      *)
  mark           (* per producer: Len(accepted) when it sent its flush       *)

producers == <<pc, call, calls, reply>>
files     == <<opened_on, log, synced>>
shared    == <<channel, open, running, fault, queued_bytes>>
history   == <<accepted, confirmed, mark>>
vars == <<producers, shared, worker, command, files, today, finished, history>>

NoCall == [op |-> "none"]

\* try_append and append_durable of a record, and flush.
AppendCall(p, b, n, durable) ==
  [ op |-> "append", by |-> p, record |-> <<p, calls[p] + 1>>, broker_id |-> b,
    bytes |-> n, durable |-> durable ]
FlushCall(p) == [op |-> "flush", by |-> p]

Waits(c) == c.op = "flush" \/ c.durable

Init ==
  /\ pc = [p \in Producers |-> "idle"]
  /\ call = [p \in Producers |-> NoCall]
  /\ calls = [p \in Producers |-> 0]
  /\ reply = [p \in Producers |-> "none"]
  /\ channel = << >>
  /\ open = TRUE
  /\ running = TRUE
  /\ fault = FALSE
  /\ queued_bytes = 0
  /\ worker = "loop"
  /\ command = NoCall
  /\ opened_on = [b \in Brokers |-> 0]
  /\ today = 1
  /\ log = [b \in Brokers |-> << >>]
  /\ synced = [b \in Brokers |-> 0]
  /\ accepted = [b \in Brokers |-> << >>]
  /\ finished = FALSE
  /\ confirmed = {}
  /\ mark = [p \in Producers |-> [b \in Brokers |-> 0]]

-----------------------------------------------------------------------------
(* A producer's call.                                                        *)

Goto(p, from, to) == pc[p] = from /\ pc' = [pc EXCEPT ![p] = to]

Return(p) ==
  /\ pc' = [pc EXCEPT ![p] = "idle"]
  /\ call' = [call EXCEPT ![p] = NoCall]

Start(p) ==
  /\ ~finished
  /\ Goto(p, "idle", "check")
  /\ calls[p] < MaxCalls
  /\ calls' = [calls EXCEPT ![p] = @ + 1]
  /\ \/ \E b \in Brokers, n \in Sizes, durable \in BOOLEAN :
          call' = [call EXCEPT ![p] = AppendCall(p, b, n, durable)]
     \/ call' = [call EXCEPT ![p] = FlushCall(p)]
  /\ reply' = [reply EXCEPT ![p] = "none"]
  /\ UNCHANGED <<shared, worker, command, files, today, finished, history>>

\* try_enqueue and flush look at the fault first; try_enqueue also at running
\* and at the size of the record alone.
Check(p) ==
  /\ pc[p] = "check"
  /\ IF \/ fault
        \/ call[p].op = "append" /\ (~running \/ call[p].bytes > MaxQueueBytes)
     THEN Return(p)
     ELSE /\ pc' = [pc EXCEPT ![p] = IF call[p].op = "append" THEN "reserve" ELSE "send"]
          /\ UNCHANGED call
  /\ UNCHANGED <<calls, reply, shared, worker, command, files, today, finished, history>>

\* Full: append_durable sleeps and tries again, try_append gives up.
GiveUpOrRetry(p) ==
  IF call[p].durable
  THEN pc' = [pc EXCEPT ![p] = "check"] /\ UNCHANGED call
  ELSE Return(p)

\* Mutant: the budget is checked before the record's own bytes are added.
ReserveLate(p) ==
  /\ pc[p] = "reserve"
  /\ IF queued_bytes > MaxQueueBytes
     THEN GiveUpOrRetry(p) /\ UNCHANGED queued_bytes
     ELSE /\ Goto(p, "reserve", "send")
          /\ queued_bytes' = queued_bytes + call[p].bytes
          /\ UNCHANGED call
  /\ UNCHANGED <<calls, reply, channel, open, running, fault, worker, command, files, today,
                 finished, history>>

\* reserve_bytes: its compare-exchange makes it one step.
Reserve(p) ==
  /\ pc[p] = "reserve"
  /\ IF queued_bytes + call[p].bytes > MaxQueueBytes
     THEN GiveUpOrRetry(p) /\ UNCHANGED queued_bytes
     ELSE /\ Goto(p, "reserve", "send")
          /\ queued_bytes' = queued_bytes + call[p].bytes
          /\ UNCHANGED call
  /\ UNCHANGED <<calls, reply, channel, open, running, fault, worker, command, files, today,
                 finished, history>>

\* try_send: accepted, or full, or the worker is gone.
Send(p) ==
  /\ pc[p] = "send"
  /\ \/ /\ open
        /\ Len(channel) < MaxQueueRecords
        /\ channel' = Append(channel, call[p])
        /\ IF Waits(call[p])
           THEN pc' = [pc EXCEPT ![p] = "wait"] /\ UNCHANGED call
           ELSE Return(p)
        /\ IF call[p].op = "flush"
           THEN /\ mark' = [mark EXCEPT ![p] = [b \in Brokers |-> Len(accepted[b])]]
                /\ UNCHANGED accepted
           ELSE /\ accepted' = [accepted EXCEPT ![call[p].broker_id] = Append(@, call[p].record)]
                /\ UNCHANGED mark
     \/ /\ ~open \/ Len(channel) >= MaxQueueRecords
        /\ IF call[p].op = "append"
           THEN pc' = [pc EXCEPT ![p] = "release"] /\ UNCHANGED call
           ELSE IF open THEN UNCHANGED <<pc, call>>
           ELSE Return(p)
        /\ UNCHANGED <<channel, accepted, mark>>
  /\ UNCHANGED <<calls, reply, open, running, fault, queued_bytes, worker, command, files, today,
                 finished, confirmed>>

\* Mutant: the bytes of a record the channel refused stay reserved.
ReleaseNothing(p) ==
  /\ pc[p] = "release"
  /\ IF open THEN GiveUpOrRetry(p) ELSE Return(p)
  /\ UNCHANGED <<calls, reply, shared, worker, command, files, today, finished, history>>

\* The bytes of a refused record are given back.
Release(p) ==
  /\ pc[p] = "release"
  /\ queued_bytes' = queued_bytes - call[p].bytes
  /\ IF open THEN GiveUpOrRetry(p) ELSE Return(p)
  /\ UNCHANGED <<calls, reply, channel, open, running, fault, worker, command, files, today,
                 finished, history>>

\* The reply ends the wait, or the end of its sender.
Wait(p) ==
  /\ pc[p] = "wait"
  /\ reply[p] # "none"
  /\ Return(p)
  /\ confirmed' = IF call[p].op = "append" /\ reply[p] = "ok"
                  THEN confirmed \cup {<<call[p].broker_id, call[p].record>>} ELSE confirmed
  /\ UNCHANGED <<calls, reply, shared, worker, command, files, today,
                 finished, accepted, mark>>

Producer(p) ==
  \/ Check(p) \/ Reserve(p) \/ Send(p) \/ Release(p) \/ Wait(p)

-----------------------------------------------------------------------------
(* worker_loop.                                                              *)

Answer(c, result) ==
  reply' = IF Waits(c) THEN [reply EXCEPT ![c.by] = result] ELSE reply

Fail == fault' = TRUE /\ running' = FALSE

\* The loop's condition, and recv_timeout with a command there.
Receive ==
  /\ worker = "loop"
  /\ channel # << >>
  /\ command' = Head(channel)
  /\ channel' = Tail(channel)
  /\ worker' = Head(channel).op
  /\ UNCHANGED <<producers, open, running, fault, queued_bytes, files, today, finished, history>>

Stop ==
  /\ worker = "loop"
  /\ channel = << >>
  /\ ~running
  /\ worker' = "last_flush"
  /\ UNCHANGED <<producers, shared, command, files, today, finished, history>>

\* Mutant: a durable record is answered before its file is synced.
WriteRecordUnsynced ==
  LET b == command.broker_id
  IN /\ worker = "append"
     /\ queued_bytes' = queued_bytes - command.bytes
     /\ log' = [log EXCEPT ![b] = Append(@, command.record)]
     /\ opened_on' = [opened_on EXCEPT ![b] = today]
     /\ Answer(command, "ok")
     /\ command' = NoCall
     /\ worker' = "loop"
     /\ UNCHANGED <<pc, call, calls, channel, open, running, fault, synced, today, finished,
                    history>>

\* A record is written, with a new file for a new day (the old one is synced
\* first) and a sync of its own if it is to be durable.
WriteRecord ==
  LET b == command.broker_id
      rotated == opened_on[b] \notin {0, today}
  IN /\ worker = "append"
     /\ queued_bytes' = queued_bytes - command.bytes
     /\ log' = [log EXCEPT ![b] = Append(@, command.record)]
     /\ synced' = [synced EXCEPT ![b] = IF command.durable THEN Len(log'[b])
                                        ELSE IF rotated THEN Len(log[b]) ELSE @]
     /\ opened_on' = [opened_on EXCEPT ![b] = today]
     /\ Answer(command, "ok")
     /\ command' = NoCall
     /\ worker' = "loop"
     /\ UNCHANGED <<pc, call, calls, channel, open, running, fault, today, finished, history>>

\* Mutant: the worker goes on after a failed write.
FailToWriteAndGoOn ==
  /\ worker = "append"
  /\ queued_bytes' = queued_bytes - command.bytes
  /\ Answer(command, "err")
  /\ command' = NoCall
  /\ worker' = "loop"
  /\ UNCHANGED <<pc, call, calls, channel, open, running, fault, files, today, finished, history>>

\* Opening, encoding, writing or syncing fails: the worker leaves its loop.
FailToWrite ==
  /\ worker = "append"
  /\ queued_bytes' = queued_bytes - command.bytes
  /\ \/ UNCHANGED log
     \/ log' = [log EXCEPT ![command.broker_id] = Append(@, command.record)]
  /\ Fail
  /\ Answer(command, "err")
  /\ command' = NoCall
  /\ worker' = "last_flush"
  /\ UNCHANGED <<pc, call, calls, channel, open, opened_on, synced, today, finished, history>>

AllSynced == [b \in Brokers |-> Len(log[b])]

\* Mutant: buffers are handed to the system and not synced.
FlushWithoutSync ==
  /\ worker = "flush"
  /\ Answer(command, "ok")
  /\ command' = NoCall
  /\ worker' = IF running THEN "loop" ELSE "last_flush"
  /\ UNCHANGED <<pc, call, calls, shared, files, today, finished, history>>

\* A flush command: every file is synced.  It ends the loop of a worker that was
\* told to stop, whatever is left in the channel.
Flush ==
  /\ worker = "flush"
  /\ synced' = AllSynced
  /\ Answer(command, "ok")
  /\ command' = NoCall
  /\ worker' = IF running THEN "loop" ELSE "last_flush"
  /\ UNCHANGED <<pc, call, calls, shared, opened_on, log, today, finished, history>>

FailToFlush ==
  /\ worker = "flush"
  /\ \E b \in Brokers : opened_on[b] # 0
  /\ Fail
  /\ Answer(command, "err")
  /\ command' = NoCall
  /\ worker' = "last_flush"
  /\ UNCHANGED <<pc, call, calls, channel, open, queued_bytes, files, today, finished, history>>

\* The flush of every flush_interval_ms does not sync; it may fail.
FailPeriodicFlush ==
  /\ worker = "loop"
  /\ \E b \in Brokers : opened_on[b] # 0
  /\ Fail
  /\ worker' = "last_flush"
  /\ UNCHANGED <<producers, channel, open, queued_bytes, command, files, today, finished, history>>

\* After the loop: sync every file, unless there was a fault.
LastFlush ==
  /\ worker = "last_flush"
  /\ worker' = "exit"
  /\ \/ UNCHANGED synced /\ fault /\ UNCHANGED fault
     \/ synced' = AllSynced /\ ~fault /\ UNCHANGED fault
     \/ UNCHANGED synced /\ ~fault /\ fault' = TRUE /\ \E b \in Brokers : opened_on[b] # 0
  /\ UNCHANGED <<producers, channel, open, running, queued_bytes, command, opened_on, log, today,
                 finished, history>>

\* Mutant: the commands left in the channel keep their reply channels alive.
ExitKeepingQueue ==
  /\ worker = "exit"
  /\ worker' = "exited"
  /\ open' = FALSE
  /\ UNCHANGED <<producers, channel, running, fault, queued_bytes, command, files, today,
                 finished, history>>

\* The worker's end closes the channel and drops what is left in it.  A dropped
\* record takes the only sender of its reply with it, and append_durable returns;
\* flush() has sent a clone and holds a sender itself, so it never hears of the end.
Exit ==
  /\ worker = "exit"
  /\ worker' = "exited"
  /\ open' = FALSE
  /\ channel' = << >>
  /\ reply' = [p \in Producers |->
                 IF \E c \in ToSet(channel) : c.op = "append" /\ c.durable /\ c.by = p
                 THEN "err" ELSE reply[p]]
  /\ UNCHANGED <<pc, call, calls, running, fault, queued_bytes, command, files, today, finished,
                 history>>

Worker ==
  \/ Receive \/ Stop \/ WriteRecord \/ FailToWrite \/ Flush \/ FailToFlush \/ LastFlush \/ Exit

-----------------------------------------------------------------------------
\* Mutant: finish() does not wait for the producers.
FinishAtOnce ==
  /\ ~finished
  /\ finished' = TRUE
  /\ running' = FALSE
  /\ UNCHANGED <<producers, channel, open, fault, queued_bytes, worker, command, files, today,
                 history>>

\* wait_for_shutdown joins the receiver threads and then calls finish().
Finish ==
  /\ ~finished
  /\ \A p \in Producers : pc[p] = "idle"
  /\ finished' = TRUE
  /\ running' = FALSE
  /\ UNCHANGED <<producers, channel, open, fault, queued_bytes, worker, command, files, today,
                 history>>

NewDay ==
  /\ today < MaxDay
  /\ today' = today + 1
  /\ UNCHANGED <<producers, shared, worker, command, files, finished, history>>

Next ==
  \/ \E p \in Producers : Start(p) \/ Producer(p)
  \/ Worker \/ FailPeriodicFlush
  \/ Finish \/ NewDay

Spec == Init /\ [][Next]_vars

\* Threads are scheduled.
Fairness == WF_vars(Worker) /\ \A p \in Producers : WF_vars(Producer(p))

FairSpec == Spec /\ Fairness

-----------------------------------------------------------------------------
Record == Producers \X (1 .. MaxCalls)

Calls ==
  [op : {"none"}] \cup [op : {"flush"}, by : Producers] \cup
  [op : {"append"}, by : Producers, record : Record, broker_id : Brokers, bytes : Sizes,
   durable : BOOLEAN]

\* The types of all variables; the channel and the reserved bytes are within their
\* bounds, and a broker's safe records are records it wrote.
TypeOK ==
  /\ pc \in [Producers -> {"idle", "check", "reserve", "send", "release", "wait"}]
  /\ call \in [Producers -> Calls]
  /\ calls \in [Producers -> 0 .. MaxCalls]
  /\ reply \in [Producers -> {"none", "ok", "err"}]
  /\ channel \in Seq(Calls) /\ Len(channel) <= MaxQueueRecords
  /\ {open, running, fault, finished} \subseteq BOOLEAN
  /\ queued_bytes \in Int /\ queued_bytes <= MaxQueueBytes
  /\ worker \in {"loop", "append", "flush", "last_flush", "exit", "exited"}
  /\ command \in Calls
  /\ opened_on \in [Brokers -> 0 .. MaxDay]
  /\ today \in 1 .. MaxDay
  /\ log \in [Brokers -> Seq(Record)]
  /\ synced \in [Brokers -> Nat]
  /\ \A b \in Brokers : synced[b] \in 0 .. Len(log[b])
  /\ accepted \in [Brokers -> Seq(Record)]
  /\ confirmed \subseteq Brokers \X Record
  /\ mark \in [Producers -> [Brokers -> Nat]]

\* The bytes reserved for a record: of the commands in the channel, of the
\* producers that have not yet sent theirs or have to give it back, and of the
\* record the worker holds.
RecordBytes(c) == IF c.op = "append" THEN c.bytes ELSE 0
ChannelBytes == TotalOf([i \in DOMAIN channel |-> RecordBytes(channel[i])])

Threads == SetToSeq(Producers)
Reserved(p) == IF pc[p] \in {"send", "release"} THEN RecordBytes(call[p]) ELSE 0
ReservedBytes == TotalOf([i \in DOMAIN Threads |-> Reserved(Threads[i])])

HandledBytes == IF worker = "append" THEN command.bytes ELSE 0

\* No byte is lost or counted twice between the producers that reserve and the
\* worker that releases: queued_bytes never falls below zero, and while the channel
\* is open it is the size of the records on their way from a reservation to the
\* worker's release.
BytesAccountedFor ==
  /\ queued_bytes >= 0
  /\ open => queued_bytes = ChannelBytes + ReservedBytes + HandledBytes

\* A broker's log never has a hole: what is written are the first records the
\* channel accepted, in that order (the record index of the files counts on it),
\* whatever fails.
LogHasNoHole == \A b \in Brokers : IsPrefix(log[b], accepted[b])

\* append_durable: when it has returned Ok, the record is on stable storage ("The
\* reliable receiver only ACKs a source batch after its raw frame has reached
\* stable storage", tlog_writer.rs), and with LogHasNoHole so is every record of
\* its broker accepted before it.
ConfirmedIsSafe ==
  \A c \in confirmed : \E i \in 1 .. synced[c[1]] : log[c[1]][i] = c[2]

\* flush: "Flush every record accepted so far" (core/ports.rs).  When it is
\* answered with Ok, every record accepted before the command was sent is safe,
\* of every broker and every file.
FlushCoversAccepted ==
  \A p \in Producers :
    (pc[p] = "wait" /\ call[p].op = "flush" /\ reply[p] = "ok")
      => \A b \in Brokers : synced[b] >= mark[p][b]

\* A worker that ends without a fault has made every accepted record safe: nothing
\* is left in the channel when finish() returns.
AcceptedIsWritten ==
  (worker = "exited" /\ ~fault) =>
    \A b \in Brokers : log[b] = accepted[b] /\ synced[b] = Len(log[b])

\* A flush whose command was left in the channel by a worker that failed.
FlushForgotten(p) ==
  call[p].op = "flush" /\ pc[p] = "wait" /\ worker = "exited" /\ fault

\* Every call returns but a flush forgotten by a worker that failed: no producer
\* waits for ever for the answer to a record, retries for ever on a full queue, or
\* waits for a flush while the worker lives (try_append, append_durable, flush).
CallsReturn ==
  \A p \in Producers : (pc[p] # "idle") ~> (pc[p] = "idle" \/ FlushForgotten(p))

\* flush() answers its caller also when the worker has ended: "Logger worker stopped
\* before flush completed" (tlog_writer.rs, AsyncLogger::flush).
FlushesReturn ==
  \A p \in Producers : (pc[p] = "wait" /\ call[p].op = "flush") ~> (pc[p] = "idle")
=============================================================================
