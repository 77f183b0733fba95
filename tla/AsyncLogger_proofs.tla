--------------------------- MODULE AsyncLogger_proofs ---------------------------
(***************************************************************************)
(* Proofs about AsyncLogger, for every number of producers and brokers, every *)
(* capacity and budget, and any number of days and calls.                    *)
(***************************************************************************)
EXTENDS AsyncLogger, Shared_proofs

AppendCalls ==
  [op : {"append"}, by : Producers, record : Record, broker_id : Brokers, bytes : Sizes,
   durable : BOOLEAN]
FlushCalls == [op : {"flush"}, by : Producers]

\* A producer's call is its own, and it is one the producer's place allows.
CallsAreOwn ==
  \A p \in Producers :
    /\ call[p].op = "none" <=> pc[p] = "idle"
    /\ call[p].op # "none" => call[p].by = p
    /\ pc[p] \in {"reserve", "release"} => call[p].op = "append"
    /\ pc[p] = "wait" => Waits(call[p])

\* The worker's place says what it holds; only commands are sent.
CommandFits ==
  /\ \A i \in DOMAIN channel : channel[i].op # "none"
  /\ worker \in {"append", "flush"} => command.op = worker

TypeInv == TypeOK /\ CallsAreOwn /\ CommandFits

-----------------------------------------------------------------------------
(* Types.                                                                    *)

LEMMA CallFacts ==
  ASSUME NEW c \in Calls
  PROVE  /\ c.op \in {"none", "append", "flush"}
         /\ c.op = "append" => c \in AppendCalls
         /\ c.op = "flush" => c \in FlushCalls
  BY DEF Calls, AppendCalls, FlushCalls

LEMMA NoCallFacts == NoCall \in Calls /\ NoCall.op = "none"
  BY DEF NoCall, Calls

LEMMA TypeInvInit == Init => TypeInv
<1> SUFFICES ASSUME Init PROVE TypeInv
  OBVIOUS
<1>1. << >> \in Seq(Calls) /\ << >> \in Seq(Record) /\ Len(<< >>) = 0
  OBVIOUS
<1>2. TypeOK
  <2>1. pc \in [Producers -> {"idle", "check", "reserve", "send", "release", "wait"}]
    BY DEF Init
  <2>2. call \in [Producers -> Calls] /\ command \in Calls
    BY NoCallFacts DEF Init
  <2>3. calls \in [Producers -> 0 .. MaxCalls] /\ reply \in [Producers -> {"none", "ok", "err"}]
    BY AsyncLoggerAssumption DEF Init
  <2>4. channel \in Seq(Calls) /\ Len(channel) <= MaxQueueRecords
    BY <1>1, AsyncLoggerAssumption DEF Init
  <2>5. queued_bytes \in Int /\ queued_bytes <= MaxQueueBytes
    BY AsyncLoggerAssumption DEF Init
  <2>6. opened_on \in [Brokers -> 0 .. MaxDay] /\ today \in 1 .. MaxDay
    BY AsyncLoggerAssumption DEF Init
  <2>7. log \in [Brokers -> Seq(Record)] /\ accepted \in [Brokers -> Seq(Record)]
    BY <1>1 DEF Init
  <2>8. \A b \in Brokers : synced[b] \in 0 .. Len(log[b])
    BY <1>1 DEF Init
  <2>9. mark \in [Producers -> [Brokers -> Nat]]
    BY DEF Init
  <2>. QED BY <2>1, <2>2, <2>3, <2>4, <2>5, <2>6, <2>7, <2>8, <2>9 DEF Init, TypeOK
<1>3. CallsAreOwn
  BY NoCallFacts DEF Init, CallsAreOwn
<1>4. CommandFits
  BY <1>1 DEF Init, CommandFits
<1>. QED BY <1>2, <1>3, <1>4 DEF TypeInv

\* The command is accepted, or not.
SendAccepted(p) ==
  /\ pc[p] = "send"
  /\ open
  /\ Len(channel) < MaxQueueRecords
  /\ channel' = Append(channel, call[p])
  /\ IF Waits(call[p])
     THEN pc' = [pc EXCEPT ![p] = "wait"] /\ UNCHANGED call
     ELSE Return(p)
  /\ IF call[p].op = "flush"
     THEN /\ mark' = [mark EXCEPT ![p] = [b \in Brokers |-> Len(accepted[b])]]
          /\ UNCHANGED accepted
     ELSE /\ accepted' = [accepted EXCEPT ![call[p].broker_id] = Append(@, call[p].record)]
          /\ UNCHANGED mark
  /\ UNCHANGED <<calls, reply, open, running, fault, queued_bytes, worker, command, files, today,
                 finished, confirmed>>

SendRefused(p) ==
  /\ pc[p] = "send"
  /\ IF call[p].op = "append"
     THEN pc' = [pc EXCEPT ![p] = "release"] /\ UNCHANGED call
     ELSE IF open THEN UNCHANGED <<pc, call>>
     ELSE Return(p)
  /\ UNCHANGED <<calls, reply, shared, worker, command, files, today, finished, history>>

LEMMA SendCases ==
  ASSUME TypeInv, NEW p \in Producers, Send(p)
  PROVE  SendAccepted(p) \/ SendRefused(p)
<1>a. Len(channel) \in Nat /\ MaxQueueRecords \in Nat
  BY AsyncLoggerAssumption DEF TypeInv, TypeOK
<1>1. CASE open /\ Len(channel) < MaxQueueRecords
  BY <1>1, <1>a DEF Send, SendAccepted
<1>2. CASE ~(open /\ Len(channel) < MaxQueueRecords)
  BY <1>2, <1>a DEF Send, SendRefused, shared, history
<1>. QED BY <1>1, <1>2

LEMMA SendTypes ==
  ASSUME TypeInv, NEW p \in Producers, Send(p)
  PROVE  TypeInv'
<1>c. call[p] \in Calls
  BY DEF TypeInv, TypeOK
<1>1. call[p].op \in {"append", "flush"} /\ call[p].by = p
  BY <1>c, CallFacts DEF TypeInv, CallsAreOwn, Send
<1>2. call[p].op = "append" =>
        /\ call[p].broker_id \in Brokers
        /\ call[p].record \in Record
  BY <1>c, CallFacts DEF AppendCalls
<1>3. CASE SendAccepted(p)
  <2>1. /\ channel' \in Seq(Calls) /\ Len(channel') <= MaxQueueRecords
        /\ \A i \in DOMAIN channel' :
             channel'[i] = call[p] \/ (i \in DOMAIN channel /\ channel'[i] = channel[i])
    <3>1. channel \in Seq(Calls) /\ channel' = Append(channel, call[p]) /\ Len(channel) < MaxQueueRecords
      BY <1>3 DEF TypeInv, TypeOK, SendAccepted
    <3>. QED BY <3>1, <1>c, AsyncLoggerAssumption
  <2>2. accepted' \in [Brokers -> Seq(Record)]
    <3>1. CASE call[p].op = "flush"
      BY <1>3, <3>1 DEF TypeInv, TypeOK, SendAccepted
    <3>2. CASE call[p].op = "append"
      <4>1. accepted' = [accepted EXCEPT ![call[p].broker_id] = Append(@, call[p].record)]
        BY <1>3, <3>2 DEF SendAccepted
      <4>2. Append(accepted[call[p].broker_id], call[p].record) \in Seq(Record)
        BY <1>2, <3>2 DEF TypeInv, TypeOK
      <4>. QED BY <4>1, <4>2 DEF TypeInv, TypeOK
    <3>. QED BY <1>1, <3>1, <3>2
  <2>3. mark' \in [Producers -> [Brokers -> Nat]]
    <3>1. [b \in Brokers |-> Len(accepted[b])] \in [Brokers -> Nat]
      BY DEF TypeInv, TypeOK
    <3>. QED BY <1>3, <3>1 DEF TypeInv, TypeOK, SendAccepted
  <2>4. /\ pc' \in [Producers -> {"idle", "check", "reserve", "send", "release", "wait"}]
        /\ call' \in [Producers -> Calls]
    BY ZenonT(30), <1>3, NoCallFacts DEF TypeInv, TypeOK, SendAccepted, Return
  <2>5. TypeOK'
    BY <1>3, <2>1, <2>2, <2>3, <2>4 DEF TypeInv, TypeOK, SendAccepted, files
  <2>6. CallsAreOwn'
    <3>1. CASE Waits(call[p])
      <4>1. pc' = [pc EXCEPT ![p] = "wait"] /\ call' = call
        BY <1>3, <3>1 DEF SendAccepted
      <4>. QED BY <4>1, <1>1, <3>1 DEF TypeInv, TypeOK, CallsAreOwn, Waits
    <3>2. CASE ~Waits(call[p])
      <4>1. pc' = [pc EXCEPT ![p] = "idle"] /\ call' = [call EXCEPT ![p] = NoCall]
        BY <1>3, <3>2 DEF SendAccepted, Return
      <4>. QED BY <4>1, NoCallFacts DEF TypeInv, TypeOK, CallsAreOwn, Waits
    <3>. QED BY <3>1, <3>2
  <2>7. CommandFits'
    BY <1>3, <1>1, <2>1 DEF TypeInv, CommandFits, SendAccepted
  <2>. QED BY <2>5, <2>6, <2>7 DEF TypeInv
<1>4. CASE SendRefused(p)
  <2>1. /\ pc' \in [Producers -> {"idle", "check", "reserve", "send", "release", "wait"}]
        /\ call' \in [Producers -> Calls]
    BY <1>4, NoCallFacts DEF TypeInv, TypeOK, SendRefused, Return
  <2>2. TypeOK'
    BY <1>4, <2>1 DEF TypeInv, TypeOK, SendRefused, shared, files, history
  <2>3. CallsAreOwn'
    BY <1>4, <1>1, NoCallFacts DEF TypeInv, TypeOK, CallsAreOwn, SendRefused, Return
  <2>4. CommandFits'
    BY <1>4 DEF TypeInv, CommandFits, SendRefused, shared
  <2>. QED BY <2>2, <2>3, <2>4 DEF TypeInv
<1>. QED BY <1>3, <1>4, SendCases

LEMMA ProducerTypes ==
  ASSUME TypeInv, NEW p \in Producers, Start(p) \/ Producer(p)
  PROVE  TypeInv'
<1> USE AsyncLoggerAssumption
<1>c. call[p] \in Calls
  BY DEF TypeInv, TypeOK
<1>1. CASE Start(p)
  <2>1. calls[p] + 1 \in 1 .. MaxCalls
    BY <1>1 DEF TypeInv, TypeOK, Start
  <2>2. PICK c \in AppendCalls \cup FlushCalls : call' = [call EXCEPT ![p] = c] /\ c.by = p
    <3>1. FlushCall(p) \in FlushCalls /\ FlushCall(p).by = p
      BY DEF FlushCall, FlushCalls
    <3>2. ASSUME NEW b \in Brokers, NEW n \in Sizes, NEW d \in BOOLEAN
          PROVE  AppendCall(p, b, n, d) \in AppendCalls /\ AppendCall(p, b, n, d).by = p
      <4>1. <<p, calls[p] + 1>> \in Record
        BY <2>1 DEF Record
      <4>. QED BY <4>1 DEF AppendCall, AppendCalls
    <3>. QED BY <1>1, <3>1, <3>2 DEF Start
  <2>3. c \in Calls /\ c.op \in {"append", "flush"}
    BY DEF Calls, AppendCalls, FlushCalls
  <2>4. TypeOK'
    BY <1>1, <2>1, <2>2, <2>3
    DEF TypeInv, TypeOK, Start, Goto, shared, files, history
  <2>5. CallsAreOwn'
    BY <1>1, <2>2, <2>3 DEF TypeInv, TypeOK, CallsAreOwn, Start, Goto, Waits
  <2>6. CommandFits'
    BY <1>1 DEF TypeInv, CommandFits, Start, shared
  <2>. QED BY <2>4, <2>5, <2>6 DEF TypeInv
<1>2. CASE Check(p)
  <2>1. TypeOK'
    <3>1. /\ pc' \in [Producers -> {"idle", "check", "reserve", "send", "release", "wait"}]
          /\ call' \in [Producers -> Calls]
      <4>1. CASE fault \/ (call[p].op = "append" /\ (~running \/ call[p].bytes > MaxQueueBytes))
        <5>1. Return(p)
          BY <1>2, <4>1 DEF Check
        <5>. QED BY <5>1, NoCallFacts DEF TypeInv, TypeOK, Return
      <4>2. CASE ~(fault \/ (call[p].op = "append" /\ (~running \/ call[p].bytes > MaxQueueBytes)))
        BY <1>2, <4>2 DEF TypeInv, TypeOK, Check
      <4>. QED BY <4>1, <4>2
    <3>. QED BY <1>2, <3>1 DEF TypeInv, TypeOK, Check, shared, files, history
  <2>2. CallsAreOwn'
    BY <1>2, <1>c, CallFacts, NoCallFacts
    DEF TypeInv, TypeOK, CallsAreOwn, Check, Return
  <2>3. CommandFits'
    BY <1>2 DEF TypeInv, CommandFits, Check, shared
  <2>. QED BY <2>1, <2>2, <2>3 DEF TypeInv
<1>3. CASE Reserve(p)
  <2>1. call[p] \in AppendCalls
    BY <1>3, <1>c, CallFacts DEF TypeInv, CallsAreOwn, Reserve
  <2>2. call[p].bytes \in Nat
    BY <2>1 DEF AppendCalls
  <2>3. TypeOK'
    <3>1. /\ pc' \in [Producers -> {"idle", "check", "reserve", "send", "release", "wait"}]
          /\ call' \in [Producers -> Calls]
      BY <1>3, NoCallFacts DEF TypeInv, TypeOK, Reserve, GiveUpOrRetry, Goto, Return
    <3>2. queued_bytes' \in Int /\ queued_bytes' <= MaxQueueBytes
      BY <1>3, <2>2 DEF TypeInv, TypeOK, Reserve
    <3>. QED BY <1>3, <3>1, <3>2 DEF TypeInv, TypeOK, Reserve, files, history
  <2>4. CallsAreOwn'
    BY <1>3 DEF TypeInv, TypeOK, CallsAreOwn, Reserve, GiveUpOrRetry, Goto, Return, NoCall, Waits
  <2>5. CommandFits'
    BY <1>3 DEF TypeInv, CommandFits, Reserve
  <2>. QED BY <2>3, <2>4, <2>5 DEF TypeInv
<1>4. CASE Send(p)
  BY <1>4, SendTypes
<1>5. CASE Release(p)
  <2>1. call[p] \in AppendCalls
    BY <1>5, <1>c, CallFacts DEF TypeInv, CallsAreOwn, Release
  <2>2. call[p].bytes \in Nat
    BY <2>1 DEF AppendCalls
  <2>3. TypeOK'
    <3>1. /\ pc' \in [Producers -> {"idle", "check", "reserve", "send", "release", "wait"}]
          /\ call' \in [Producers -> Calls]
      BY <1>5, NoCallFacts DEF TypeInv, TypeOK, Release, GiveUpOrRetry, Return
    <3>2. queued_bytes' \in Int /\ queued_bytes' <= MaxQueueBytes
      BY <1>5, <2>2 DEF TypeInv, TypeOK, Release
    <3>. QED BY <1>5, <3>1, <3>2 DEF TypeInv, TypeOK, Release, files, history
  <2>4. CallsAreOwn'
    BY <1>5 DEF TypeInv, TypeOK, CallsAreOwn, Release, GiveUpOrRetry, Return, NoCall, Waits
  <2>5. CommandFits'
    BY <1>5 DEF TypeInv, CommandFits, Release
  <2>. QED BY <2>3, <2>4, <2>5 DEF TypeInv
<1>6. CASE Wait(p)
  <2>1. call[p].op = "append" => call[p].broker_id \in Brokers /\ call[p].record \in Record
    BY <1>c, CallFacts DEF AppendCalls
  <2>2. confirmed' \subseteq Brokers \X Record
    BY <1>6, <2>1 DEF TypeInv, TypeOK, Wait
  <2>3. TypeOK'
    BY <1>6, <2>2 DEF TypeInv, TypeOK, Wait, Return, shared, files, Calls, NoCall
  <2>4. CallsAreOwn'
    BY <1>6 DEF TypeInv, TypeOK, CallsAreOwn, Wait, Return, NoCall, Waits
  <2>5. CommandFits'
    BY <1>6 DEF TypeInv, CommandFits, Wait, shared
  <2>. QED BY <2>3, <2>4, <2>5 DEF TypeInv
<1>. QED BY <1>1, <1>2, <1>3, <1>4, <1>5, <1>6 DEF Producer

LEMMA WorkerTypes ==
  ASSUME TypeInv, Worker \/ FailPeriodicFlush
  PROVE  TypeInv'
<1> USE AsyncLoggerAssumption
<1>a. worker = "append" =>
        /\ command \in AppendCalls /\ command.bytes \in Nat
        /\ command.broker_id \in Brokers /\ command.record \in Record
        /\ command.by \in Producers
  BY CallFacts DEF TypeInv, TypeOK, CommandFits, AppendCalls
<1>b. worker = "flush" => command.by \in Producers
  BY CallFacts DEF TypeInv, TypeOK, CommandFits, FlushCalls
<1>c. NoCall \in Calls
  BY DEF NoCall, Calls
<1>1. CASE Receive
  <2>1. /\ Head(channel) \in Calls /\ Tail(channel) \in Seq(Calls)
        /\ Len(Tail(channel)) = Len(channel) - 1
        /\ \A i \in DOMAIN Tail(channel) : i + 1 \in DOMAIN channel
                                         /\ Tail(channel)[i] = channel[i + 1]
        /\ 1 \in DOMAIN channel /\ Head(channel) = channel[1]
    BY <1>1 DEF TypeInv, TypeOK, Receive
  <2>2. Head(channel).op \in {"append", "flush"}
    BY <2>1, CallFacts DEF TypeInv, CommandFits
  <2>3. TypeOK'
    BY <1>1, <2>1, <2>2 DEF TypeInv, TypeOK, Receive, producers, files, history
  <2>4. CallsAreOwn' /\ CommandFits'
    BY <1>1, <2>1, <2>2 DEF TypeInv, CallsAreOwn, CommandFits, Receive, producers
  <2>. QED BY <2>3, <2>4 DEF TypeInv
<1>2. CASE Stop
  BY <1>2 DEF TypeInv, TypeOK, CallsAreOwn, CommandFits, Stop, producers, shared, files, history
<1>3. CASE WriteRecord
  <2>1. log' \in [Brokers -> Seq(Record)]
    <3>1. Append(log[command.broker_id], command.record) \in Seq(Record)
      BY <1>3, <1>a DEF TypeInv, TypeOK, WriteRecord
    <3>. QED BY <1>3, <3>1 DEF TypeInv, TypeOK, WriteRecord
  <2>2. \A b \in Brokers : synced'[b] \in 0 .. Len(log'[b])
    <3>1. /\ log' = [log EXCEPT ![command.broker_id] = Append(@, command.record)]
          /\ \A b \in Brokers : synced'[b] \in {Len(log'[b]), Len(log[b]), synced[b]}
      BY <1>3, <1>a DEF TypeInv, TypeOK, WriteRecord
    <3>2. \A b \in Brokers : Len(log'[b]) >= Len(log[b])
      BY <3>1, <1>a DEF TypeInv, TypeOK
    <3>3. \A b \in Brokers : Len(log[b]) \in Nat /\ synced[b] \in 0 .. Len(log[b])
      BY DEF TypeInv, TypeOK
    <3>4. \A b \in Brokers : Len(log'[b]) \in Nat
      BY <2>1
    <3>. QED BY <3>1, <3>2, <3>3, <3>4
  <2>3. reply' \in [Producers -> {"none", "ok", "err"}]
    BY <1>3, <1>a DEF TypeInv, TypeOK, WriteRecord, Answer
  <2>4. opened_on' \in [Brokers -> 0 .. MaxDay]
    BY <1>3, <1>a DEF TypeInv, TypeOK, WriteRecord
  <2>5. queued_bytes' \in Int /\ queued_bytes' <= MaxQueueBytes
    <3>1. queued_bytes' = queued_bytes - command.bytes
      BY <1>3 DEF WriteRecord
    <3>2. command.bytes \in Nat
      BY <1>3, <1>a DEF WriteRecord
    <3>. QED BY <3>1, <3>2 DEF TypeInv, TypeOK
  <2>6. TypeOK'
    <3>1. synced' \in [Brokers -> Nat]
      <4>1. \A b \in Brokers : Len(log'[b]) \in Nat /\ Len(log[b]) \in Nat
        BY <2>1 DEF TypeInv, TypeOK
      <4>. QED BY <1>3, <1>a, <4>1 DEF TypeInv, TypeOK, WriteRecord
    <3>. QED BY <1>3, <1>c, <2>1, <2>2, <2>3, <2>4, <2>5, <3>1
         DEF TypeInv, TypeOK, WriteRecord, history
  <2>7. CallsAreOwn' /\ CommandFits'
    BY <1>3 DEF TypeInv, CallsAreOwn, CommandFits, WriteRecord
  <2>. QED BY <2>6, <2>7 DEF TypeInv
<1>4. CASE FailToWrite
  <2>1. log' \in [Brokers -> Seq(Record)] /\ \A b \in Brokers : synced'[b] \in 0 .. Len(log'[b])
    <3>1. CASE UNCHANGED log
      BY <1>4, <3>1 DEF TypeInv, TypeOK, FailToWrite
    <3>2. CASE log' = [log EXCEPT ![command.broker_id] = Append(@, command.record)]
      <4>1. Append(log[command.broker_id], command.record) \in Seq(Record)
        BY <1>4, <1>a DEF TypeInv, TypeOK, FailToWrite
      <4>2. log' \in [Brokers -> Seq(Record)] /\ \A b \in Brokers : Len(log'[b]) >= Len(log[b])
        BY SMTT(30), <1>4, <1>a, <3>2, <4>1 DEF TypeInv, TypeOK, FailToWrite
      <4>. QED BY <1>4, <4>2 DEF TypeInv, TypeOK, FailToWrite
    <3>. QED BY <1>4, <3>1, <3>2 DEF FailToWrite
  <2>2. reply' \in [Producers -> {"none", "ok", "err"}]
    BY <1>4, <1>a DEF TypeInv, TypeOK, FailToWrite, Answer
  <2>3. queued_bytes' \in Int /\ queued_bytes' <= MaxQueueBytes
    BY SMTT(30), <1>4, <1>a DEF TypeInv, TypeOK, FailToWrite
  <2>4. TypeOK'
    BY <1>4, <1>c, <2>1, <2>2, <2>3 DEF TypeInv, TypeOK, FailToWrite, Fail, history
  <2>5. CallsAreOwn' /\ CommandFits'
    BY <1>4 DEF TypeInv, CallsAreOwn, CommandFits, FailToWrite
  <2>. QED BY <2>4, <2>5 DEF TypeInv
<1>5. CASE Flush \/ FailToFlush
  <2>1. reply' \in [Producers -> {"none", "ok", "err"}]
    BY <1>5, <1>b DEF TypeInv, TypeOK, Flush, FailToFlush, Answer
  <2>2. \A b \in Brokers : synced'[b] \in 0 .. Len(log'[b])
    BY <1>5 DEF TypeInv, TypeOK, Flush, FailToFlush, AllSynced, files
  <2>3. TypeOK'
    <3>1. synced' \in [Brokers -> Nat]
      BY <1>5 DEF TypeInv, TypeOK, Flush, FailToFlush, AllSynced, files
    <3>. QED BY <1>5, <1>c, <2>1, <2>2, <3>1
    DEF TypeInv, TypeOK, Flush, FailToFlush, Fail, shared, files, history
  <2>4. CallsAreOwn' /\ CommandFits'
    BY <1>5 DEF TypeInv, CallsAreOwn, CommandFits, Flush, FailToFlush, shared
  <2>. QED BY <2>3, <2>4 DEF TypeInv
<1>6. CASE FailPeriodicFlush
  BY <1>6
  DEF TypeInv, TypeOK, CallsAreOwn, CommandFits, FailPeriodicFlush, Fail, producers, files, history
<1>7. CASE LastFlush
  <2>1. \A b \in Brokers : synced'[b] \in 0 .. Len(log'[b])
    BY <1>7 DEF TypeInv, TypeOK, LastFlush, AllSynced
  <2>2. TypeOK'
    <3>1. synced' \in [Brokers -> Nat]
      BY <1>7 DEF TypeInv, TypeOK, LastFlush, AllSynced
    <3>. QED BY <1>7, <2>1, <3>1 DEF TypeInv, TypeOK, LastFlush, producers, history
  <2>3. CallsAreOwn' /\ CommandFits'
    BY <1>7 DEF TypeInv, CallsAreOwn, CommandFits, LastFlush, producers
  <2>. QED BY <2>2, <2>3 DEF TypeInv
<1>8. CASE Exit
  <2>1. reply' \in [Producers -> {"none", "ok", "err"}]
    BY <1>8 DEF TypeInv, TypeOK, Exit
  <2>2. channel' \in Seq(Calls) /\ Len(channel') <= MaxQueueRecords /\ DOMAIN channel' = {}
    BY <1>8 DEF Exit
  <2>3. TypeOK'
    BY <1>8, <2>1, <2>2 DEF TypeInv, TypeOK, Exit, files, history
  <2>4. CallsAreOwn' /\ CommandFits'
    BY <1>8, <2>2 DEF TypeInv, CallsAreOwn, CommandFits, Exit
  <2>. QED BY <2>3, <2>4 DEF TypeInv
<1>. QED BY <1>1, <1>2, <1>3, <1>4, <1>5, <1>6, <1>7, <1>8 DEF Worker

LEMMA TypeInvStep == TypeInv /\ [Next]_vars => TypeInv'
<1> SUFFICES ASSUME TypeInv, [Next]_vars PROVE TypeInv'
  OBVIOUS
<1>1. CASE \E p \in Producers : Start(p) \/ Producer(p)
  BY <1>1, ProducerTypes
<1>2. CASE Worker \/ FailPeriodicFlush
  BY <1>2, WorkerTypes
<1>3. CASE Finish
  BY <1>3
  DEF TypeInv, TypeOK, CallsAreOwn, CommandFits, Finish, producers, files, history
<1>4. CASE NewDay
  BY <1>4, AsyncLoggerAssumption
  DEF TypeInv, TypeOK, CallsAreOwn, CommandFits, NewDay, producers, shared, files, history
<1>5. CASE UNCHANGED vars
  BY <1>5
  DEF TypeInv, TypeOK, CallsAreOwn, CommandFits, vars, producers, shared, files, history
<1>. QED BY <1>1, <1>2, <1>3, <1>4, <1>5 DEF Next

\* Every variable keeps its type: the channel never holds more commands than its
\* capacity, the reservations never exceed the byte budget whatever the sizes of
\* the records, and no more records are counted as safe than were written.
THEOREM TypesAreCorrect == Spec => []TypeOK
<1>1. TypeInv => TypeOK
  BY DEF TypeInv
<1>. QED BY <1>1, TypeInvInit, TypeInvStep, PTL DEF Spec

-----------------------------------------------------------------------------
(* What the safety properties rest on.                                       *)

Working == worker \in {"loop", "append", "flush"}

\* The worker ends for one of two reasons: a write failed, or the coordinator
\* has joined every producer.
EndsForAReason ==
  /\ ~running => fault \/ finished
  /\ ~Working => ~running
  /\ Working => ~fault
  /\ finished => \A p \in Producers : pc[p] = "idle"
  /\ ~open => worker = "exited"

Holding == worker \in {"append", "flush"}

Awaited(c) == pc[c.by] = "wait" /\ call[c.by] = c /\ reply[c.by] = "none"

\* A command that somebody waits for belongs to a producer that waits for it and
\* has no answer yet; there is one such command at most for a producer.
OneWaiter ==
  /\ \A p \in Producers :
       pc[p] \in {"check", "reserve", "send", "release"} => reply[p] = "none"
  /\ \A i \in DOMAIN channel : Waits(channel[i]) => Awaited(channel[i])
  /\ Holding /\ Waits(command) => Awaited(command)
  /\ \A i, j \in DOMAIN channel :
       (Waits(channel[i]) /\ Waits(channel[j]) /\ channel[i].by = channel[j].by) => i = j
  /\ Holding /\ Waits(command) =>
       \A i \in DOMAIN channel : Waits(channel[i]) => channel[i].by # command.by

\* A record is accepted once: it carries the number of its producer's call.
AcceptedOnce ==
  /\ \A p \in Producers : call[p].op = "append" => call[p].record = <<p, calls[p]>>
  /\ \A b \in Brokers : \A k \in DOMAIN accepted[b] :
       LET p == accepted[b][k][1]
       IN /\ accepted[b][k][2] <= calls[p]
          /\ pc[p] \in {"check", "reserve", "send", "release"} => accepted[b][k][2] < calls[p]
  /\ \A b \in Brokers : \A k, l \in DOMAIN accepted[b] : accepted[b][k] = accepted[b][l] => k = l

\* How many records of a broker are written, or with the worker.
Taken(b) ==
  IF worker = "append" /\ command.broker_id = b THEN Len(log[b]) + 1 ELSE Len(log[b])

\* Position k of what broker b's channel accepted is queued at i.
QueuedAt(b, k, i) ==
  channel[i].op = "append" /\ channel[i].broker_id = b /\ channel[i].record = accepted[b][k]

\* While the worker works, the accepted records are, in order, the ones written,
\* the one it holds and the ones queued.
QueueIsTheRest ==
  Working =>
    \A b \in Brokers :
      /\ Taken(b) <= Len(accepted[b])
      /\ worker = "append" /\ command.broker_id = b => accepted[b][Taken(b)] = command.record
      /\ \A k \in Taken(b) + 1 .. Len(accepted[b]) : \E i \in DOMAIN channel : QueuedAt(b, k, i)
      /\ \A i \in DOMAIN channel : (channel[i].op = "append" /\ channel[i].broker_id = b) =>
           \E k \in Taken(b) + 1 .. Len(accepted[b]) : QueuedAt(b, k, i)
      /\ \A k, l \in DOMAIN accepted[b], i, j \in DOMAIN channel :
           (QueuedAt(b, k, i) /\ QueuedAt(b, l, j) /\ i < j) => k < l

WrittenInOrder ==
  \A b \in Brokers :
    /\ Len(log[b]) <= Len(accepted[b])
    /\ \A k \in DOMAIN log[b] : log[b][k] = accepted[b][k]

NothingLeft ==
  (~Working /\ ~fault) =>
    \A b \in Brokers : /\ Len(log[b]) = Len(accepted[b])
                       /\ worker # "last_flush" => synced[b] = Len(log[b])

LogInv == AcceptedOnce /\ QueueIsTheRest /\ WrittenInOrder /\ NothingLeft

\* What a flush must cover is written, with the worker or queued before it.
FlushIsBehind ==
  /\ \A p \in Producers, b \in Brokers : mark[p][b] <= Len(accepted[b])
  /\ Working =>
       \A b \in Brokers :
         /\ \A i \in DOMAIN channel : channel[i].op = "flush" =>
              \A k \in Taken(b) + 1 .. mark[channel[i].by][b] :
                \E j \in DOMAIN channel : j < i /\ QueuedAt(b, k, j)
         /\ worker = "flush" => Len(log[b]) >= mark[command.by][b]

\* A record whose durable append was answered with Ok is safe before its producer
\* has read the answer.
Safe(b, r) == \E i \in 1 .. synced[b] : log[b][i] = r

AnsweredIsSafe ==
  \A p \in Producers :
    (pc[p] = "wait" /\ call[p].op = "append" /\ reply[p] = "ok")
      => Safe(call[p].broker_id, call[p].record)

AnswerInv == FlushCoversAccepted /\ AnsweredIsSafe /\ ConfirmedIsSafe

LoggerInv == EndsForAReason /\ OneWaiter /\ LogInv /\ FlushIsBehind /\ AnswerInv

-----------------------------------------------------------------------------
(* Steps that leave the queue, the files and the answers alone.              *)

\* What is sent or held is an append or a flush of a producer.
LEMMA CommandFacts ==
  ASSUME TypeInv
  PROVE  /\ \A i \in DOMAIN channel :
              /\ channel[i] \in Calls /\ channel[i].op \in {"append", "flush"}
              /\ channel[i].by \in Producers
              /\ channel[i].op = "append" => channel[i].broker_id \in Brokers
         /\ Holding =>
              /\ command.op = worker /\ command.by \in Producers
              /\ worker = "append" => command.broker_id \in Brokers
<1>1. \A c \in Calls : c.op # "none" =>
        /\ c.op \in {"append", "flush"} /\ c.by \in Producers
        /\ c.op = "append" => c.broker_id \in Brokers
  BY CallFacts DEF AppendCalls, FlushCalls
<1>2. \A i \in DOMAIN channel : channel[i] \in Calls
  BY DEF TypeInv, TypeOK
<1>. QED BY <1>1, <1>2 DEF TypeInv, TypeOK, CommandFits, Holding

LEMMA RecordFacts ==
  ASSUME TypeInv
  PROVE  \A b \in Brokers : \A k \in DOMAIN accepted[b] :
           /\ accepted[b][k] \in Record
           /\ accepted[b][k][1] \in Producers /\ accepted[b][k][2] \in Nat
<1>1. \A b \in Brokers : \A k \in DOMAIN accepted[b] : accepted[b][k] \in Record
  BY DEF TypeInv, TypeOK
<1>2. \A x \in Record : x[1] \in Producers /\ x[2] \in Nat
  BY DEF Record
<1>. QED BY <1>1, <1>2

LEMMA TakenFacts ==
  ASSUME TypeInv
  PROVE  \A b \in Brokers :
           /\ Len(log[b]) \in Nat /\ DOMAIN log[b] = 1 .. Len(log[b])
           /\ Taken(b) \in {Len(log[b]), Len(log[b]) + 1} /\ Taken(b) \in Nat
  BY DEF Taken, TypeInv, TypeOK

LEMMA LoggerInvInit == Init => LoggerInv
<1> SUFFICES ASSUME Init PROVE LoggerInv
  OBVIOUS
<1>1. EndsForAReason /\ OneWaiter
  BY DEF Init, EndsForAReason, Working, OneWaiter, Holding
<1>2. LogInv
  BY NoCallFacts
  DEF Init, LogInv, AcceptedOnce, QueueIsTheRest, WrittenInOrder, NothingLeft, Working, Taken
<1>3. FlushIsBehind
  BY DEF Init, FlushIsBehind, Working, Taken
<1>4. AnswerInv
  BY DEF Init, AnswerInv, FlushCoversAccepted, AnsweredIsSafe, ConfirmedIsSafe
<1>. QED BY <1>1, <1>2, <1>3, <1>4 DEF LoggerInv

\* Nothing written is changed or lost, and nothing safe becomes unsafe.
Grows ==
  \A b \in Brokers : /\ synced'[b] >= synced[b]
                     /\ \A i \in DOMAIN log[b] : log'[b][i] = log[b][i]

LEMMA SafeStays ==
  ASSUME TypeInv, TypeInv', Grows, NEW b \in Brokers, NEW r, Safe(b, r)
  PROVE  Safe(b, r)'
<1>1. PICK i \in 1 .. synced[b] : log[b][i] = r
  BY DEF Safe
<1>2. /\ synced[b] \in 0 .. Len(log[b]) /\ log[b] \in Seq(Record)
      /\ synced'[b] \in 0 .. Len(log'[b]) /\ log'[b] \in Seq(Record)
  BY DEF TypeInv, TypeOK
<1>3. i \in DOMAIN log[b] /\ i \in 1 .. synced'[b]
  BY <1>1, <1>2 DEF Grows
<1>4. log'[b][i] = r
  BY <1>1, <1>3 DEF Grows
<1>. QED BY <1>3, <1>4 DEF Safe

\* A step that answers nobody with Ok keeps the promises made.
LEMMA NoNewAnswer ==
  ASSUME TypeInv, TypeInv', AnswerInv, Grows, confirmed' = confirmed,
         \A p \in Producers : (pc'[p] = "wait" /\ reply'[p] = "ok") =>
           /\ pc[p] = "wait" /\ reply[p] = "ok"
           /\ call'[p] = call[p] /\ mark'[p] = mark[p]
  PROVE  AnswerInv'
<1>1. FlushCoversAccepted'
  <2> SUFFICES ASSUME NEW p \in Producers, pc'[p] = "wait", call'[p].op = "flush",
                      reply'[p] = "ok", NEW b \in Brokers
               PROVE  synced'[b] >= mark'[p][b]
    BY DEF FlushCoversAccepted
  <2>1. synced[b] >= mark[p][b] /\ mark'[p][b] = mark[p][b]
    BY DEF AnswerInv, FlushCoversAccepted
  <2>2. synced[b] \in Int /\ synced'[b] \in Int /\ mark[p][b] \in Int
    BY DEF TypeInv, TypeOK
  <2>. QED BY <2>1, <2>2 DEF Grows
<1>2. AnsweredIsSafe'
  <2> SUFFICES ASSUME NEW p \in Producers, pc'[p] = "wait", call'[p].op = "append",
                      reply'[p] = "ok"
               PROVE  Safe(call[p].broker_id, call[p].record)'
    BY DEF AnsweredIsSafe
  <2>1. call[p] \in Calls /\ call'[p] = call[p]
    BY DEF TypeInv, TypeOK
  <2>2. call[p].broker_id \in Brokers
    BY <2>1, CallFacts DEF AppendCalls
  <2>3. \A b, x : b = call[p].broker_id /\ x = call[p].record => Safe(b, x)'
    BY <2>2, SafeStays DEF AnswerInv, AnsweredIsSafe
  <2>. QED BY <2>1, <2>3 DEF Safe
<1>3. ConfirmedIsSafe'
  <2> SUFFICES ASSUME NEW c \in confirmed PROVE \E i \in 1 .. synced'[c[1]] : log'[c[1]][i] = c[2]
    BY DEF ConfirmedIsSafe
  <2>1. c[1] \in Brokers /\ Safe(c[1], c[2])
    BY DEF TypeInv, TypeOK, AnswerInv, ConfirmedIsSafe, Safe
  <2>2. \A b, x : b = c[1] /\ x = c[2] => Safe(b, x)'
    BY <2>1, SafeStays
  <2>. QED BY <2>2 DEF Safe
<1>. QED BY <1>1, <1>2, <1>3 DEF AnswerInv

Quiet == UNCHANGED <<channel, open, fault, worker, command, log, synced, accepted>>

LEMMA QuietKeepsLog ==
  ASSUME Quiet, mark' = mark
  PROVE  /\ QueueIsTheRest => QueueIsTheRest'
         /\ WrittenInOrder => WrittenInOrder'
         /\ NothingLeft => NothingLeft'
         /\ FlushIsBehind => FlushIsBehind'
<1>a. /\ \A b : Taken(b)' = Taken(b)
      /\ \A b, k, i : QueuedAt(b, k, i)' <=> QueuedAt(b, k, i)
      /\ channel' = channel /\ accepted' = accepted /\ log' = log
      /\ worker' = worker /\ command' = command
  BY DEF Quiet, Taken, QueuedAt
<1>1. QueueIsTheRest => QueueIsTheRest'
  BY <1>a DEF QueueIsTheRest, Working
<1>2. (WrittenInOrder => WrittenInOrder') /\ (NothingLeft => NothingLeft')
  BY DEF Quiet, WrittenInOrder, NothingLeft, Working
<1>3. FlushIsBehind => FlushIsBehind'
  BY <1>a DEF FlushIsBehind, Working
<1>. QED BY <1>1, <1>2, <1>3

LEMMA QuietSteps ==
  ASSUME TypeInv, TypeInv', LoggerInv, NEW p \in Producers,
         \/ Start(p) \/ Check(p) \/ Reserve(p) \/ SendRefused(p) \/ Release(p)
  PROVE  LoggerInv'
<1>a. /\ Quiet /\ confirmed' = confirmed /\ mark' = mark
      /\ running' = running /\ finished' = finished
  BY DEF Quiet, Start, Check, Reserve, SendRefused, Release, shared, files, history
<1>b. /\ pc[p] # "wait" /\ pc'[p] # "wait" /\ ~finished
      /\ \A q \in Producers \ {p} : /\ pc'[q] = pc[q] /\ call'[q] = call[q]
                                   /\ reply'[q] = reply[q] /\ calls'[q] = calls[q]
  <2>1. ~finished
    <3>1. pc[p] # "idle" => ~finished
      BY DEF LoggerInv, EndsForAReason
    <3>. QED BY <3>1 DEF Start, Check, Reserve, SendRefused, Release
  <2>2. CASE Start(p)
    BY <2>1, <2>2 DEF TypeInv, TypeOK, Start, Goto
  <2>3. CASE Check(p)
    BY <2>1, <2>3 DEF TypeInv, TypeOK, Check, Return
  <2>4. CASE Reserve(p)
    BY <2>1, <2>4 DEF TypeInv, TypeOK, Reserve, GiveUpOrRetry, Goto, Return
  <2>5. CASE SendRefused(p)
    BY <2>1, <2>5 DEF TypeInv, TypeOK, SendRefused, Return
  <2>6. CASE Release(p)
    BY <2>1, <2>6 DEF TypeInv, TypeOK, Release, GiveUpOrRetry, Return
  <2>. QED BY <2>2, <2>3, <2>4, <2>5, <2>6
<1>c. /\ pc'[p] \in {"check", "reserve", "send", "release"} => reply'[p] = "none"
      /\ Start(p) \/ (calls'[p] = calls[p] /\ call'[p] \in {call[p], NoCall} /\ pc[p] # "idle")
  <2>1. CASE Start(p)
    BY <2>1 DEF TypeInv, TypeOK, Start
  <2>2. CASE Check(p)
    BY <2>2 DEF TypeInv, TypeOK, LoggerInv, OneWaiter, Check, Return
  <2>3. CASE Reserve(p)
    BY <2>3 DEF TypeInv, TypeOK, LoggerInv, OneWaiter, Reserve, GiveUpOrRetry, Goto, Return
  <2>4. CASE SendRefused(p)
    BY <2>4 DEF TypeInv, TypeOK, LoggerInv, OneWaiter, SendRefused, Return
  <2>5. CASE Release(p)
    BY <2>5 DEF TypeInv, TypeOK, LoggerInv, OneWaiter, Release, GiveUpOrRetry, Return
  <2>. QED BY <2>1, <2>2, <2>3, <2>4, <2>5
<1>1. EndsForAReason'
  BY <1>a, <1>b DEF LoggerInv, EndsForAReason, Working, Quiet
<1>2. OneWaiter'
  <2>1. \A c : (c.by \in Producers /\ Awaited(c)) => Awaited(c)'
    BY <1>b DEF Awaited
  <2>2. \A i \in DOMAIN channel : channel[i].by \in Producers
    BY CommandFacts
  <2>3. Holding => command.by \in Producers
    BY CommandFacts
  <2>4. /\ \A i \in DOMAIN channel : Waits(channel[i]) => Awaited(channel[i])'
        /\ Holding /\ Waits(command) => Awaited(command)'
    <3>1. \A c : Awaited(c)' = (pc'[c.by] = "wait" /\ call'[c.by] = c /\ reply'[c.by] = "none")
      BY DEF Awaited
    <3>2. channel' = channel /\ command' = command
      BY <1>a DEF Quiet
    <3>. QED BY <2>1, <2>2, <2>3, <3>2, <1>b DEF LoggerInv, OneWaiter, Awaited
  <2>5. \A q \in Producers :
          pc'[q] \in {"check", "reserve", "send", "release"} => reply'[q] = "none"
    BY <1>b, <1>c DEF LoggerInv, OneWaiter
  <2>. QED BY <1>a, <2>4, <2>5 DEF LoggerInv, OneWaiter, Quiet, Holding, Waits
<1>3. AcceptedOnce'
  <2>1. accepted' = accepted
    BY <1>a DEF Quiet
  <2>2. \A b \in Brokers : \A k \in DOMAIN accepted[b] :
          accepted[b][k][1] \in Producers /\ accepted[b][k][2] \in Nat
    BY RecordFacts
  <2>3. \A q \in Producers : calls[q] \in Nat /\ calls'[q] \in Nat
    BY DEF TypeInv, TypeOK
  <2>4. \A q \in Producers : call'[q].op = "append" => call'[q].record = <<q, calls'[q]>>
    <3>1. CASE Start(p)
      <4>1. calls'[p] = calls[p] + 1
        BY <3>1 DEF TypeInv, TypeOK, Start
      <4>2. \/ \E b \in Brokers, size \in Sizes, durable \in BOOLEAN :
                 call'[p] = AppendCall(p, b, size, durable)
            \/ call'[p] = FlushCall(p)
        BY <3>1 DEF TypeInv, TypeOK, Start
      <4>3. call'[p].op = "append" => call'[p].record = <<p, calls'[p]>>
        <5>1. CASE call'[p] = FlushCall(p)
          BY <5>1 DEF FlushCall
        <5>2. ASSUME NEW b \in Brokers, NEW size \in Sizes, NEW durable \in BOOLEAN,
                     call'[p] = AppendCall(p, b, size, durable)
              PROVE  call'[p].record = <<p, calls'[p]>>
          BY <4>1, <5>2 DEF AppendCall
        <5>. QED BY <4>2, <5>1, <5>2
      <4>4. \A q \in Producers : q # p => call'[q] = call[q] /\ calls'[q] = calls[q]
        BY <1>b
      <4>5. \A q \in Producers : call[q].op = "append" => call[q].record = <<q, calls[q]>>
        BY DEF LoggerInv, LogInv, AcceptedOnce
      <4>. QED BY <4>3, <4>4, <4>5
    <3>2. CASE ~Start(p)
      BY <1>b, <1>c, <3>2, NoCallFacts DEF LoggerInv, LogInv, AcceptedOnce
    <3>. QED BY <3>1, <3>2
  <2>5. /\ calls'[p] >= calls[p]
        /\ pc'[p] \in {"check", "reserve", "send", "release"} =>
              calls'[p] > calls[p] \/ pc[p] \in {"check", "reserve", "send", "release"}
    <3>1. CASE Start(p)
      BY <3>1, <2>3 DEF TypeInv, TypeOK, Start
    <3>2. CASE ~Start(p)
      BY <1>b, <1>c, <2>3, <3>2 DEF TypeInv, TypeOK
    <3>. QED BY <3>1, <3>2
  <2>6. \A b \in Brokers : \A k \in DOMAIN accepted[b] :
          LET q == accepted[b][k][1]
          IN /\ accepted[b][k][2] <= calls'[q]
             /\ pc'[q] \in {"check", "reserve", "send", "release"} => accepted[b][k][2] < calls'[q]
    <3> SUFFICES ASSUME NEW b \in Brokers, NEW k \in DOMAIN accepted[b], NEW q \in Producers,
                        q = accepted[b][k][1]
                 PROVE  /\ accepted[b][k][2] <= calls'[q]
                        /\ pc'[q] \in {"check", "reserve", "send", "release"}
                              => accepted[b][k][2] < calls'[q]
      BY <2>2
    <3>1. /\ accepted[b][k][2] <= calls[q]
          /\ pc[q] \in {"check", "reserve", "send", "release"} => accepted[b][k][2] < calls[q]
      BY DEF LoggerInv, LogInv, AcceptedOnce
    <3>. QED BY <1>b, <2>2, <2>3, <2>5, <3>1
  <2>. QED BY <2>1, <2>4, <2>6 DEF LoggerInv, LogInv, AcceptedOnce
<1>4. LogInv' /\ FlushIsBehind'
  BY <1>a, <1>3, QuietKeepsLog DEF LoggerInv, LogInv
<1>5. AnswerInv'
  <2>1. Grows
    BY <1>a DEF Grows, Quiet, TypeInv, TypeOK
  <2>. QED BY <1>a, <1>b, <2>1, NoNewAnswer DEF LoggerInv
<1>. QED BY <1>1, <1>2, <1>4, <1>5 DEF LoggerInv

LEMMA WaitStep ==
  ASSUME TypeInv, TypeInv', LoggerInv, NEW p \in Producers, Wait(p)
  PROVE  LoggerInv'
<1>a. /\ Quiet /\ mark' = mark /\ running' = running /\ finished' = finished
      /\ calls' = calls /\ reply' = reply /\ pc[p] = "wait" /\ reply[p] # "none"
      /\ pc' = [pc EXCEPT ![p] = "idle"] /\ call' = [call EXCEPT ![p] = NoCall]
  BY DEF Quiet, Wait, Return, shared, files
<1>b. /\ pc'[p] = "idle" /\ call'[p] = NoCall
      /\ \A q \in Producers \ {p} : pc'[q] = pc[q] /\ call'[q] = call[q]
  BY <1>a DEF TypeInv, TypeOK
<1>1. EndsForAReason'
  BY <1>a, <1>b DEF LoggerInv, EndsForAReason, Working, Quiet
<1>2. OneWaiter'
  <2>1. \A c : (c.by \in Producers /\ Awaited(c)) => Awaited(c)'
    BY <1>a, <1>b DEF Awaited
  <2>2. /\ \A i \in DOMAIN channel : Waits(channel[i]) => Awaited(channel[i])'
        /\ Holding /\ Waits(command) => Awaited(command)'
    <3>1. channel' = channel /\ command' = command
      BY <1>a DEF Quiet
    <3>. QED BY <2>1, <3>1, <1>a, <1>b, CommandFacts DEF LoggerInv, OneWaiter, Awaited
  <2>3. \A q \in Producers :
          pc'[q] \in {"check", "reserve", "send", "release"} => reply'[q] = "none"
    BY <1>a, <1>b DEF LoggerInv, OneWaiter
  <2>. QED BY <1>a, <2>2, <2>3 DEF LoggerInv, OneWaiter, Quiet, Holding, Waits
<1>3. AcceptedOnce'
  BY <1>a, <1>b, NoCallFacts, RecordFacts DEF LoggerInv, LogInv, AcceptedOnce, Quiet
<1>4. LogInv' /\ FlushIsBehind'
  BY <1>a, <1>3, QuietKeepsLog DEF LoggerInv, LogInv
<1>5. AnswerInv'
  <2>1. FlushCoversAccepted' /\ AnsweredIsSafe'
    BY <1>a, <1>b
    DEF LoggerInv, AnswerInv, FlushCoversAccepted, AnsweredIsSafe, Safe, Quiet
  <2>2. ASSUME NEW c \in confirmed' PROVE Safe(c[1], c[2])
    <3>1. CASE c \in confirmed
      BY <3>1 DEF LoggerInv, AnswerInv, ConfirmedIsSafe, Safe
    <3>2. CASE c \notin confirmed
      <4>1. /\ call[p].op = "append" /\ reply[p] = "ok"
            /\ c = <<call[p].broker_id, call[p].record>>
        BY <3>2 DEF Wait
      <4>. QED BY <1>a, <4>1 DEF LoggerInv, AnswerInv, AnsweredIsSafe
    <3>. QED BY <3>1, <3>2
  <2>3. ConfirmedIsSafe'
    BY <1>a, <2>2 DEF ConfirmedIsSafe, Safe, Quiet
  <2>. QED BY <2>1, <2>3 DEF AnswerInv
<1>. QED BY <1>1, <1>2, <1>4, <1>5 DEF LoggerInv

-----------------------------------------------------------------------------
(* A command joins the queue.                                                *)

\* In the order the records were accepted, the new one is the last.
LEMMA AppendJoins ==
  ASSUME TypeInv, TypeInv', LoggerInv, NEW p \in Producers, SendAccepted(p),
         call[p].op = "append"
  PROVE  LogInv' /\ FlushIsBehind'
<1> DEFINE bb == call[p].broker_id
           r == call[p].record
           L == Len(channel)
           n == Len(accepted[bb])
<1>a. /\ call[p] \in AppendCalls /\ bb \in Brokers /\ r \in Record /\ call[p].by = p
      /\ r = <<p, calls[p]>> /\ calls[p] \in Nat
  <2>1. call[p] \in AppendCalls /\ call[p].by = p /\ calls[p] \in Nat
    BY CallFacts DEF TypeInv, TypeOK, CallsAreOwn
  <2>2. r = <<p, calls[p]>>
    BY DEF LoggerInv, LogInv, AcceptedOnce
  <2>. QED BY <2>1, <2>2 DEF AppendCalls
<1>b. /\ worker' = worker /\ command' = command /\ log' = log /\ synced' = synced /\ mark' = mark
      /\ fault' = fault /\ finished' = finished /\ calls' = calls
      /\ \A b : Taken(b)' = Taken(b)
  BY DEF SendAccepted, files, Taken
<1>c. /\ L \in Nat /\ DOMAIN channel = 1 .. L /\ DOMAIN channel' = 1 .. L + 1
      /\ \A i \in 1 .. L : channel'[i] = channel[i]
      /\ channel'[L + 1] = call[p]
  <2>1. channel' = Append(channel, call[p]) /\ channel \in Seq(Calls) /\ call[p] \in Calls
    BY DEF SendAccepted, TypeInv, TypeOK
  <2>. QED BY <2>1
<1>d. /\ n \in Nat /\ DOMAIN accepted[bb] = 1 .. n /\ DOMAIN accepted'[bb] = 1 .. n + 1
      /\ Len(accepted'[bb]) = n + 1
      /\ \A k \in 1 .. n : accepted'[bb][k] = accepted[bb][k]
      /\ accepted'[bb][n + 1] = r
      /\ \A b \in Brokers \ {bb} : accepted'[b] = accepted[b]
  <2>1. accepted' = [accepted EXCEPT ![bb] = Append(@, r)]
    BY DEF SendAccepted
  <2>2. accepted'[bb] = Append(accepted[bb], r) /\ accepted[bb] \in Seq(Record)
    BY <1>a, <2>1 DEF TypeInv, TypeOK
  <2>3. \A b \in Brokers \ {bb} : accepted'[b] = accepted[b]
    BY <2>1 DEF TypeInv, TypeOK
  <2>4. n \in Nat /\ DOMAIN accepted[bb] = 1 .. n
    BY <2>2
  <2>5. /\ Len(accepted'[bb]) = n + 1 /\ DOMAIN accepted'[bb] = 1 .. n + 1
        /\ accepted'[bb][n + 1] = r
    BY <2>2
  <2>6. \A k \in 1 .. n : accepted'[bb][k] = accepted[bb][k]
    BY <2>2
  <2>. QED BY <2>3, <2>4, <2>5, <2>6
<1>e. /\ \A q \in Producers \ {p} : pc'[q] = pc[q] /\ call'[q] = call[q]
      /\ pc[p] = "send" /\ pc'[p] \in {"idle", "wait"}
      /\ call'[p] \in {call[p], NoCall}
  <2>1. CASE Waits(call[p])
    BY <2>1 DEF SendAccepted, TypeInv, TypeOK
  <2>2. CASE ~Waits(call[p])
    BY <2>2 DEF SendAccepted, Return, TypeInv, TypeOK
  <2>. QED BY <2>1, <2>2
\* The record is new.
<1>f. \A b \in Brokers : \A k \in DOMAIN accepted[b] : accepted[b][k] # r
  <2> SUFFICES ASSUME NEW b \in Brokers, NEW k \in DOMAIN accepted[b], accepted[b][k] = r
               PROVE  FALSE
    OBVIOUS
  <2>1. accepted[b][k][1] = p /\ accepted[b][k][2] = calls[p]
    BY <1>a
  <2>. QED BY <1>a, <1>e, <2>1 DEF LoggerInv, LogInv, AcceptedOnce
<1>1. AcceptedOnce'
  <2>1. \A q \in Producers : call'[q].op = "append" => call'[q].record = <<q, calls'[q]>>
    BY <1>b, <1>e, NoCallFacts DEF LoggerInv, LogInv, AcceptedOnce
  <2>2. ASSUME NEW b \in Brokers, NEW k \in DOMAIN accepted'[b]
        PROVE  LET q == accepted'[b][k][1]
               IN /\ accepted'[b][k][2] <= calls'[q]
                  /\ pc'[q] \in {"check", "reserve", "send", "release"}
                       => accepted'[b][k][2] < calls'[q]
    <3>1. CASE b = bb /\ k = n + 1
      <4>1. accepted'[b][k] = <<p, calls'[p]>>
        BY <1>a, <1>b, <1>d, <3>1
      <4>. QED BY <1>a, <1>b, <1>e, <4>1
    <3>2. CASE ~(b = bb /\ k = n + 1)
      <4>1. k \in DOMAIN accepted[b] /\ accepted'[b][k] = accepted[b][k]
        <5>1. CASE b = bb
          <6>1. k \in 1 .. n + 1 /\ k # n + 1
            BY <1>d, <3>2, <5>1
          <6>2. k \in 1 .. n
            BY <1>d, <6>1
          <6>. QED BY <1>d, <5>1, <6>2
        <5>2. CASE b # bb
          BY <1>d, <5>2
        <5>. QED BY <5>1, <5>2
      <4>. QED BY <1>b, <1>e, <4>1, RecordFacts DEF LoggerInv, LogInv, AcceptedOnce
    <3>. QED BY <3>1, <3>2
  <2>3. ASSUME NEW b \in Brokers, NEW k \in DOMAIN accepted'[b], NEW l \in DOMAIN accepted'[b],
               accepted'[b][k] = accepted'[b][l]
        PROVE  k = l
    <3>1. CASE b = bb
      <4>1. \A m \in 1 .. n : accepted'[bb][m] # r
        BY <1>a, <1>d, <1>f
      <4>2. k \in 1 .. n + 1 /\ l \in 1 .. n + 1
        BY <1>d, <3>1
      <4>3. CASE k = n + 1 \/ l = n + 1
        <5>1. CASE k = n + 1 /\ l # n + 1
          <6>1. l \in 1 .. n /\ accepted'[bb][l] = r
            BY <1>d, <2>3, <3>1, <4>2, <5>1
          <6>. QED BY <4>1, <6>1
        <5>2. CASE k # n + 1 /\ l = n + 1
          <6>1. k \in 1 .. n /\ accepted'[bb][k] = r
            BY <1>d, <2>3, <3>1, <4>2, <5>2
          <6>. QED BY <4>1, <6>1
        <5>. QED BY <4>3, <5>1, <5>2
      <4>4. CASE k \in 1 .. n /\ l \in 1 .. n
        <5>1. accepted[bb][k] = accepted[bb][l]
          BY <1>d, <2>3, <3>1, <4>4
        <5>. QED BY <1>a, <1>d, <4>4, <5>1 DEF LoggerInv, LogInv, AcceptedOnce
      <4>. QED BY SMTT(30), <1>d, <4>2, <4>3, <4>4
    <3>2. CASE b # bb
      BY <1>d, <2>3, <3>2 DEF LoggerInv, LogInv, AcceptedOnce
    <3>. QED BY <3>1, <3>2
  <2>. QED BY <2>1, <2>2, <2>3 DEF AcceptedOnce
\* What is queued, and where.
<1>g. ASSUME NEW b \in Brokers, NEW k \in DOMAIN accepted'[b], NEW i \in 1 .. L + 1
      PROVE  QueuedAt(b, k, i)' <=>
               \/ b = bb /\ k = n + 1 /\ i = L + 1
               \/ i \in 1 .. L /\ k \in DOMAIN accepted[b] /\ QueuedAt(b, k, i)
               \/ i \in 1 .. L /\ b = bb /\ k = n + 1
                  /\ channel[i].op = "append" /\ channel[i].broker_id = b /\ channel[i].record = r
  <2>0. QueuedAt(b, k, i)' <=> /\ channel'[i].op = "append" /\ channel'[i].broker_id = b
                               /\ channel'[i].record = accepted'[b][k]
    BY DEF QueuedAt
  <2>1. CASE b = bb /\ k = n + 1
    <3>1. CASE i = L + 1
      BY <1>c, <1>d, <2>0, <2>1, <3>1
    <3>2. CASE i \in 1 .. L
      BY <1>c, <1>d, <2>0, <2>1, <3>2
    <3>. QED BY <1>c, <3>1, <3>2
  <2>2. CASE ~(b = bb /\ k = n + 1)
    <3>0. k \in DOMAIN accepted[b] /\ accepted'[b][k] = accepted[b][k]
      <4>1. CASE b = bb
        <5>1. k \in 1 .. n + 1 /\ k # n + 1
          BY <1>d, <2>2, <4>1
        <5>2. k \in 1 .. n
          BY <1>d, <5>1
        <5>. QED BY <1>d, <4>1, <5>2
      <4>2. CASE b # bb
        BY <1>d, <4>2
      <4>. QED BY <4>1, <4>2
    <3>1. CASE i = L + 1
      <4>1. ~QueuedAt(b, k, i)'
        BY <1>c, <1>f, <2>0, <3>0, <3>1
      <4>. QED BY <1>c, <2>2, <3>1, <4>1
    <3>2. CASE i \in 1 .. L
      BY <1>c, <2>0, <2>2, <3>0, <3>2 DEF QueuedAt
    <3>. QED BY <1>c, <3>1, <3>2
  <2>. QED BY <2>1, <2>2
<1>h. ASSUME Working, NEW i \in 1 .. L, channel[i].op = "append", channel[i].broker_id = bb
      PROVE  channel[i].record # r
  <2>1. PICK k \in Taken(bb) + 1 .. Len(accepted[bb]) : QueuedAt(bb, k, i)
    BY <1>a, <1>c, <1>h DEF LoggerInv, LogInv, QueueIsTheRest
  <2>2. k \in DOMAIN accepted[bb]
    <3>1. Taken(bb) \in Nat
      BY <1>a, TakenFacts
    <3>. QED BY <1>d, <2>1, <3>1
  <2>. QED BY <1>a, <1>f, <2>1, <2>2 DEF QueuedAt
<1>t. \A b \in Brokers : /\ Taken(b) \in Nat /\ Len(accepted[b]) \in Nat
                         /\ DOMAIN accepted[b] = 1 .. Len(accepted[b])
                         /\ DOMAIN accepted'[b] = 1 .. Len(accepted'[b])
                         /\ Len(accepted'[b]) \in Nat /\ Len(accepted'[b]) >= Len(accepted[b])
  <2>1. \A b \in Brokers : Taken(b) \in Nat
    BY SMTT(30) DEF Taken, TypeInv, TypeOK
  <2>2. \A b \in Brokers : accepted[b] \in Seq(Record) /\ accepted'[b] \in Seq(Record)
    BY DEF TypeInv, TypeOK
  <2>3. \A b \in Brokers : Len(accepted'[b]) >= Len(accepted[b])
    BY <1>d, <2>2
  <2>. QED BY <2>1, <2>2, <2>3
<1>2. QueueIsTheRest'
  <2> SUFFICES ASSUME Working, NEW b \in Brokers
               PROVE
      /\ Taken(b) <= Len(accepted'[b])
      /\ worker = "append" /\ command.broker_id = b => accepted'[b][Taken(b)] = command.record
      /\ \A k \in Taken(b) + 1 .. Len(accepted'[b]) : \E i \in DOMAIN channel' : QueuedAt(b, k, i)'
      /\ \A i \in DOMAIN channel' : (channel'[i].op = "append" /\ channel'[i].broker_id = b) =>
           \E k \in Taken(b) + 1 .. Len(accepted'[b]) : QueuedAt(b, k, i)'
      /\ \A k, l \in DOMAIN accepted'[b], i, j \in DOMAIN channel' :
           (QueuedAt(b, k, i)' /\ QueuedAt(b, l, j)' /\ i < j) => k < l
    BY <1>b DEF QueueIsTheRest, Working
  <2>o. /\ Taken(b) <= Len(accepted[b])
        /\ worker = "append" /\ command.broker_id = b => accepted[b][Taken(b)] = command.record
        /\ \A k \in Taken(b) + 1 .. Len(accepted[b]) : \E i \in DOMAIN channel : QueuedAt(b, k, i)
        /\ \A i \in DOMAIN channel : (channel[i].op = "append" /\ channel[i].broker_id = b) =>
             \E k \in Taken(b) + 1 .. Len(accepted[b]) : QueuedAt(b, k, i)
        /\ \A k, l \in DOMAIN accepted[b], i, j \in DOMAIN channel :
             (QueuedAt(b, k, i) /\ QueuedAt(b, l, j) /\ i < j) => k < l
    BY DEF LoggerInv, LogInv, QueueIsTheRest
  <2>1. Taken(b) <= Len(accepted'[b])
    BY <1>t, <2>o
  <2>2. ASSUME worker = "append", command.broker_id = b
        PROVE  accepted'[b][Taken(b)] = command.record
    <3>1. Taken(b) \in 1 .. Len(accepted[b])
      BY <1>t, <2>o, <2>2 DEF Taken, TypeInv, TypeOK
    <3>. QED BY <1>d, <2>o, <2>2, <3>1
  <2>3. ASSUME NEW k \in Taken(b) + 1 .. Len(accepted'[b])
        PROVE  \E i \in DOMAIN channel' : QueuedAt(b, k, i)'
    <3>0. k \in DOMAIN accepted'[b]
      BY <1>t
    <3>1. CASE k <= Len(accepted[b])
      <4>1. PICK i \in DOMAIN channel : QueuedAt(b, k, i)
        BY <1>t, <2>o, <3>1
      <4>. QED BY <1>c, <1>g, <1>t, <3>0, <3>1, <4>1
    <3>2. CASE k > Len(accepted[b])
      <4>1. b = bb /\ k = n + 1
        BY SMTT(30), <1>d, <1>t, <3>0, <3>2
      <4>. QED BY <1>c, <1>g, <3>0, <4>1
    <3>. QED BY <1>t, <3>1, <3>2
  <2>4. ASSUME NEW i \in DOMAIN channel', channel'[i].op = "append", channel'[i].broker_id = b
        PROVE  \E k \in Taken(b) + 1 .. Len(accepted'[b]) : QueuedAt(b, k, i)'
    <3>1. CASE i = L + 1
      <4>1. b = bb
        BY <1>c, <2>4, <3>1
      <4>2. n + 1 \in Taken(b) + 1 .. Len(accepted'[b]) /\ n + 1 \in DOMAIN accepted'[b]
        BY <1>d, <1>t, <2>o, <4>1
      <4>. QED BY <1>c, <1>g, <3>1, <4>1, <4>2
    <3>2. CASE i \in 1 .. L
      <4>1. PICK k \in Taken(b) + 1 .. Len(accepted[b]) : QueuedAt(b, k, i)
        BY <1>c, <2>o, <2>4, <3>2
      <4>2. k \in Taken(b) + 1 .. Len(accepted'[b]) /\ k \in DOMAIN accepted[b]
            /\ k \in DOMAIN accepted'[b]
        BY <1>t, <4>1
      <4>. QED BY <1>c, <1>g, <3>2, <4>1, <4>2
    <3>. QED BY <1>c, <3>1, <3>2
  <2>5. ASSUME NEW k \in DOMAIN accepted'[b], NEW l \in DOMAIN accepted'[b],
               NEW i \in DOMAIN channel', NEW j \in DOMAIN channel',
               QueuedAt(b, k, i)', QueuedAt(b, l, j)', i < j
        PROVE  k < l
    <3>1. i \in 1 .. L /\ k \in DOMAIN accepted[b] /\ QueuedAt(b, k, i)
      <4>1. i \in 1 .. L
        BY <1>c, <2>5
      <4>. QED BY <1>c, <1>g, <1>h, <2>5, <4>1
    <3>2. CASE j = L + 1
      <4>1. ~(j \in 1 .. L)
        BY <1>c, <3>2
      <4>2. b = bb /\ l = n + 1
        BY <1>c, <1>g, <2>5, <4>1
      <4>. QED BY <1>d, <3>1, <4>2
    <3>3. CASE j \in 1 .. L
      <4>1. l \in DOMAIN accepted[b] /\ QueuedAt(b, l, j)
        BY <1>c, <1>g, <1>h, <2>5, <3>3
      <4>. QED BY <1>c, <2>5, <2>o, <3>1, <3>3, <4>1
    <3>. QED BY <1>c, <3>2, <3>3
  <2>. QED BY <2>1, <2>2, <2>3, <2>4, <2>5
<1>3. WrittenInOrder'
  <2> SUFFICES ASSUME NEW b \in Brokers
               PROVE  /\ Len(log[b]) <= Len(accepted'[b])
                      /\ \A k \in DOMAIN log[b] : log[b][k] = accepted'[b][k]
    BY <1>b DEF WrittenInOrder
  <2>1. /\ Len(log[b]) <= Len(accepted[b])
        /\ \A k \in DOMAIN log[b] : log[b][k] = accepted[b][k]
    BY DEF LoggerInv, LogInv, WrittenInOrder
  <2>2. log[b] \in Seq(Record)
    BY DEF TypeInv, TypeOK
  <2>3. \A k \in 1 .. Len(accepted[b]) : accepted'[b][k] = accepted[b][k]
    BY <1>d
  <2>. QED BY SMTT(30), <1>t, <2>1, <2>2, <2>3
<1>4. NothingLeft'
  <2>1. Working \/ fault
    <3>1. ~finished
      BY <1>e DEF LoggerInv, EndsForAReason
    <3>. QED BY <3>1 DEF LoggerInv, EndsForAReason
  <2>. QED BY <1>b, <2>1 DEF NothingLeft, Working
<1>5. FlushIsBehind'
  <2>0. \A q \in Producers, b \in Brokers : mark[q][b] \in Nat
    BY DEF TypeInv, TypeOK
  <2>1. \A q \in Producers, b \in Brokers : mark[q][b] <= Len(accepted'[b])
    BY <1>t, <2>0 DEF LoggerInv, FlushIsBehind
  <2>2. ASSUME Working, NEW b \in Brokers, NEW i \in DOMAIN channel', channel'[i].op = "flush",
               NEW k \in Taken(b) + 1 .. mark[channel'[i].by][b]
        PROVE  \E j \in DOMAIN channel' : j < i /\ QueuedAt(b, k, j)'
    <3>1. i \in 1 .. L /\ channel'[i] = channel[i]
      BY <1>c, <2>2
    <3>2. PICK j \in DOMAIN channel : j < i /\ QueuedAt(b, k, j)
      BY <1>c, <2>2, <3>1 DEF LoggerInv, FlushIsBehind
    <3>3. mark[channel[i].by][b] \in Nat /\ mark[channel[i].by][b] <= Len(accepted[b])
      BY <1>c, <2>0, <3>1, CommandFacts DEF LoggerInv, FlushIsBehind
    <3>4. k \in DOMAIN accepted[b] /\ k \in DOMAIN accepted'[b]
      BY <1>t, <2>2, <3>1, <3>3
    <3>. QED BY <1>c, <1>g, <3>2, <3>4
  <2>3. worker = "flush" /\ Working => \A b \in Brokers : Len(log[b]) >= mark[command.by][b]
    BY DEF LoggerInv, FlushIsBehind
  <2>. QED BY <1>b, <2>1, <2>2, <2>3 DEF FlushIsBehind, Working
<1>. QED BY <1>1, <1>2, <1>3, <1>4, <1>5 DEF LogInv

\* A flush joins behind every record accepted so far.
LEMMA FlushJoins ==
  ASSUME TypeInv, TypeInv', LoggerInv, NEW p \in Producers, SendAccepted(p),
         call[p].op = "flush"
  PROVE  LogInv' /\ FlushIsBehind'
<1> DEFINE L == Len(channel)
<1>a. /\ worker' = worker /\ command' = command /\ log' = log /\ synced' = synced
      /\ accepted' = accepted /\ fault' = fault /\ finished' = finished /\ calls' = calls
      /\ \A b : Taken(b)' = Taken(b)
      /\ mark' = [mark EXCEPT ![p] = [b \in Brokers |-> Len(accepted[b])]]
      /\ pc' = [pc EXCEPT ![p] = "wait"] /\ call' = call /\ pc[p] = "send" /\ call[p].by = p
  BY DEF SendAccepted, files, Taken, Waits, TypeInv, CallsAreOwn
<1>b. /\ L \in Nat /\ DOMAIN channel = 1 .. L /\ DOMAIN channel' = 1 .. L + 1
      /\ \A i \in 1 .. L : channel'[i] = channel[i]
      /\ channel'[L + 1] = call[p]
  <2>1. channel' = Append(channel, call[p]) /\ channel \in Seq(Calls) /\ call[p] \in Calls
    BY DEF SendAccepted, TypeInv, TypeOK
  <2>. QED BY <2>1
<1>c. \A b, k : \A i \in 1 .. L : QueuedAt(b, k, i)' <=> QueuedAt(b, k, i)
  BY <1>a, <1>b DEF QueuedAt
<1>d. \A b, k, i : i = L + 1 => ~QueuedAt(b, k, i)'
  BY <1>b DEF QueuedAt
<1>e. \A q \in Producers, b \in Brokers :
        /\ Len(accepted[b]) \in Nat /\ mark[q][b] \in Nat
        /\ mark'[q][b] = IF q = p THEN Len(accepted[b]) ELSE mark[q][b]
  BY <1>a DEF TypeInv, TypeOK
<1>1. AcceptedOnce'
  <2>1. \A q \in Producers :
          pc'[q] \in {"check", "reserve", "send", "release"} =>
            pc[q] \in {"check", "reserve", "send", "release"}
    BY <1>a DEF TypeInv, TypeOK
  <2>. QED BY <1>a, <2>1, RecordFacts DEF LoggerInv, LogInv, AcceptedOnce
<1>2. QueueIsTheRest'
  <2> SUFFICES ASSUME Working, NEW b \in Brokers
               PROVE
      /\ Taken(b) <= Len(accepted[b])
      /\ worker = "append" /\ command.broker_id = b => accepted[b][Taken(b)] = command.record
      /\ \A k \in Taken(b) + 1 .. Len(accepted[b]) : \E i \in DOMAIN channel' : QueuedAt(b, k, i)'
      /\ \A i \in DOMAIN channel' : (channel'[i].op = "append" /\ channel'[i].broker_id = b) =>
           \E k \in Taken(b) + 1 .. Len(accepted[b]) : QueuedAt(b, k, i)'
      /\ \A k, l \in DOMAIN accepted[b], i, j \in DOMAIN channel' :
           (QueuedAt(b, k, i)' /\ QueuedAt(b, l, j)' /\ i < j) => k < l
    BY <1>a DEF QueueIsTheRest, Working
  <2>o. /\ Taken(b) <= Len(accepted[b])
        /\ worker = "append" /\ command.broker_id = b => accepted[b][Taken(b)] = command.record
        /\ \A k \in Taken(b) + 1 .. Len(accepted[b]) : \E i \in DOMAIN channel : QueuedAt(b, k, i)
        /\ \A i \in DOMAIN channel : (channel[i].op = "append" /\ channel[i].broker_id = b) =>
             \E k \in Taken(b) + 1 .. Len(accepted[b]) : QueuedAt(b, k, i)
        /\ \A k, l \in DOMAIN accepted[b], i, j \in DOMAIN channel :
             (QueuedAt(b, k, i) /\ QueuedAt(b, l, j) /\ i < j) => k < l
    BY DEF LoggerInv, LogInv, QueueIsTheRest
  <2>1. \A k \in Taken(b) + 1 .. Len(accepted[b]) : \E i \in DOMAIN channel' : QueuedAt(b, k, i)'
    BY <1>b, <1>c, <2>o
  <2>2. \A i \in DOMAIN channel' : (channel'[i].op = "append" /\ channel'[i].broker_id = b) =>
           \E k \in Taken(b) + 1 .. Len(accepted[b]) : QueuedAt(b, k, i)'
    BY <1>b, <1>c, <2>o
  <2>3. \A k, l \in DOMAIN accepted[b], i, j \in DOMAIN channel' :
           (QueuedAt(b, k, i)' /\ QueuedAt(b, l, j)' /\ i < j) => k < l
    BY <1>b, <1>c, <1>d, <2>o
  <2>. QED BY <2>o, <2>1, <2>2, <2>3
<1>3. WrittenInOrder'
  BY <1>a DEF LoggerInv, LogInv, WrittenInOrder
<1>4. NothingLeft'
  BY <1>a DEF LoggerInv, LogInv, NothingLeft, Working
<1>5. FlushIsBehind'
  <2>1. \A q \in Producers, b \in Brokers : mark'[q][b] <= Len(accepted[b])
    BY <1>e DEF LoggerInv, FlushIsBehind
  <2>2. ASSUME Working, NEW b \in Brokers, NEW i \in DOMAIN channel', channel'[i].op = "flush",
               NEW k \in Taken(b) + 1 .. mark'[channel'[i].by][b]
        PROVE  \E j \in DOMAIN channel' : j < i /\ QueuedAt(b, k, j)'
    <3>1. CASE i = L + 1
      <4>1. k \in Taken(b) + 1 .. Len(accepted[b])
        BY <1>a, <1>b, <1>e, <2>2, <3>1
      <4>2. PICK j \in DOMAIN channel : QueuedAt(b, k, j)
        BY <2>2, <4>1 DEF LoggerInv, LogInv, QueueIsTheRest
      <4>. QED BY <1>b, <1>c, <3>1, <4>2
    <3>2. CASE i \in 1 .. L
      <4>1. channel[i].op = "flush" /\ channel[i].by \in Producers /\ channel'[i] = channel[i]
        BY <1>b, <2>2, <3>2, CommandFacts
      <4>2. channel[i].by # p
        <5>1. pc[channel[i].by] = "wait"
          BY <1>b, <3>2, <4>1 DEF LoggerInv, OneWaiter, Waits, Awaited
        <5>. QED BY <1>a, <5>1
      <4>3. k \in Taken(b) + 1 .. mark[channel[i].by][b]
        BY <1>e, <2>2, <4>1, <4>2
      <4>4. PICK j \in DOMAIN channel : j < i /\ QueuedAt(b, k, j)
        BY <1>b, <2>2, <3>2, <4>1, <4>3 DEF LoggerInv, FlushIsBehind
      <4>. QED BY <1>b, <1>c, <4>4
    <3>. QED BY <1>b, <3>1, <3>2
  <2>3. ASSUME Working, worker = "flush", NEW b \in Brokers
        PROVE  Len(log[b]) >= mark'[command.by][b]
    <3>1. command.op = "flush" /\ command.by \in Producers
      BY <2>3, CommandFacts DEF Holding
    <3>2. command.by # p
      BY <1>a, <2>3, <3>1 DEF LoggerInv, OneWaiter, Holding, Waits, Awaited
    <3>. QED BY <1>e, <2>3, <3>1, <3>2 DEF LoggerInv, FlushIsBehind
  <2>. QED BY <1>a, <2>1, <2>2, <2>3 DEF FlushIsBehind, Working
<1>. QED BY <1>1, <1>2, <1>3, <1>4, <1>5 DEF LogInv

LEMMA SendStep ==
  ASSUME TypeInv, TypeInv', LoggerInv, NEW p \in Producers, SendAccepted(p)
  PROVE  LoggerInv'
<1> DEFINE L == Len(channel)
<1>a. /\ worker' = worker /\ command' = command /\ log' = log /\ synced' = synced
      /\ fault' = fault /\ finished' = finished /\ running' = running /\ open' = open
      /\ reply' = reply /\ confirmed' = confirmed
  BY DEF SendAccepted, files
<1>b. /\ L \in Nat /\ DOMAIN channel = 1 .. L /\ DOMAIN channel' = 1 .. L + 1
      /\ \A i \in 1 .. L : channel'[i] = channel[i]
      /\ channel'[L + 1] = call[p]
  <2>1. channel' = Append(channel, call[p]) /\ channel \in Seq(Calls) /\ call[p] \in Calls
    BY DEF SendAccepted, TypeInv, TypeOK
  <2>. QED BY <2>1
<1>c. /\ \A q \in Producers \ {p} : pc'[q] = pc[q] /\ call'[q] = call[q] /\ mark'[q] = mark[q]
      /\ pc[p] = "send" /\ pc'[p] \in {"idle", "wait"} /\ reply[p] = "none"
      /\ Waits(call[p]) => pc'[p] = "wait" /\ call'[p] = call[p]
      /\ call[p].op \in {"append", "flush"} /\ call[p].by = p
  <2>1. reply[p] = "none" /\ call[p].op \in {"append", "flush"} /\ call[p].by = p
    BY CallFacts DEF SendAccepted, LoggerInv, OneWaiter, TypeInv, TypeOK, CallsAreOwn
  <2>2. \A q \in Producers \ {p} : mark'[q] = mark[q]
    BY <2>1 DEF SendAccepted, TypeInv, TypeOK
  <2>3. CASE Waits(call[p])
    BY <2>1, <2>2, <2>3 DEF SendAccepted, TypeInv, TypeOK
  <2>4. CASE ~Waits(call[p])
    BY <2>1, <2>2, <2>4 DEF SendAccepted, Return, TypeInv, TypeOK
  <2>. QED BY <2>3, <2>4
<1>1. EndsForAReason'
  BY <1>a, <1>c DEF LoggerInv, EndsForAReason, Working
<1>2. OneWaiter'
  <2> DEFINE StillAwaited(c) == pc'[c.by] = "wait" /\ call'[c.by] = c /\ reply'[c.by] = "none"
  <2>0. \A c : (c.by \in Producers /\ Awaited(c)) => c.by # p /\ StillAwaited(c)
    BY <1>a, <1>c DEF Awaited
  <2>1. \A q \in Producers :
          pc'[q] \in {"check", "reserve", "send", "release"} => reply'[q] = "none"
    BY <1>a, <1>c DEF LoggerInv, OneWaiter
  <2>2. \A i \in 1 .. L : Waits(channel[i]) => channel[i].by # p /\ StillAwaited(channel[i])
    BY <1>b, <2>0, CommandFacts DEF LoggerInv, OneWaiter
  <2>3. Waits(call[p]) => StillAwaited(call[p])
    BY <1>a, <1>c
  <2>4. \A i \in DOMAIN channel' : Waits(channel'[i]) => StillAwaited(channel'[i])
    BY <1>b, <2>2, <2>3
  <2>5. Holding /\ Waits(command) => command.by # p /\ StillAwaited(command)
    BY <1>a, <2>0, CommandFacts DEF LoggerInv, OneWaiter, Awaited
  <2>6. \A i, j \in DOMAIN channel' :
          (Waits(channel'[i]) /\ Waits(channel'[j]) /\ channel'[i].by = channel'[j].by) => i = j
    BY <1>b, <1>c, <2>2 DEF LoggerInv, OneWaiter
  <2>7. Holding /\ Waits(command) =>
          \A i \in DOMAIN channel' : Waits(channel'[i]) => channel'[i].by # command.by
    BY <1>b, <1>c, <2>5 DEF LoggerInv, OneWaiter
  <2>. QED BY <1>a, <2>1, <2>4, <2>5, <2>6, <2>7 DEF OneWaiter, Holding, Waits, Awaited
<1>3. LogInv' /\ FlushIsBehind'
  BY <1>c, AppendJoins, FlushJoins
<1>4. AnswerInv'
  <2>1. Grows
    BY <1>a DEF Grows, TypeInv, TypeOK
  <2>. QED BY <1>a, <1>c, <2>1, NoNewAnswer DEF LoggerInv
<1>. QED BY <1>1, <1>2, <1>3, <1>4 DEF LoggerInv

-----------------------------------------------------------------------------
(* The worker takes a command: the oldest record in the queue of a broker is  *)
(* the first one accepted and not written.                                   *)

LEMMA ReceiveStep ==
  ASSUME TypeInv, TypeInv', LoggerInv, Receive
  PROVE  LoggerInv'
<1> DEFINE c == channel[1]
           N == Len(channel)
<1>a. /\ worker = "loop" /\ command' = c /\ worker' = c.op
      /\ pc' = pc /\ call' = call /\ calls' = calls /\ reply' = reply /\ log' = log
      /\ synced' = synced /\ accepted' = accepted /\ mark' = mark /\ confirmed' = confirmed
      /\ fault' = fault /\ running' = running /\ finished' = finished /\ open' = open
  BY DEF Receive, producers, files, history, TypeInv, TypeOK
<1>b. /\ N \in Nat /\ N >= 1 /\ DOMAIN channel = 1 .. N /\ DOMAIN channel' = 1 .. N - 1
      /\ \A i \in 1 .. N - 1 : channel'[i] = channel[i + 1]
  <2>1. channel' = Tail(channel) /\ channel \in Seq(Calls) /\ channel # << >>
    BY DEF Receive, TypeInv, TypeOK
  <2>. QED BY <2>1
<1>c. c.op \in {"append", "flush"} /\ c.by \in Producers
      /\ (c.op = "append" => c.broker_id \in Brokers)
  BY <1>b, CommandFacts
<1>w. Working
  BY <1>a DEF Working
<1>t. \A b \in Brokers : /\ Len(log[b]) \in Nat /\ Taken(b) = Len(log[b])
                         /\ DOMAIN accepted[b] = 1 .. Len(accepted[b])
                         /\ Len(accepted[b]) \in Nat
                         /\ \A q \in Producers : mark[q][b] \in Nat
  <2>1. \A b \in Brokers : Len(log[b]) \in Nat /\ Taken(b) = Len(log[b])
    BY <1>a, TakenFacts DEF Taken
  <2>2. \A b \in Brokers : DOMAIN accepted[b] = 1 .. Len(accepted[b]) /\ Len(accepted[b]) \in Nat
    BY DEF TypeInv, TypeOK
  <2>3. \A b \in Brokers, q \in Producers : mark[q][b] \in Nat
    BY DEF TypeInv, TypeOK
  <2>. QED BY <2>1, <2>2, <2>3
<1> DEFINE T(b) == IF c.op = "append" /\ c.broker_id = b THEN Len(log[b]) + 1 ELSE Len(log[b])
<1>u. \A b : Taken(b)' = T(b)
  BY <1>a DEF Taken
<1>v. \A b \in Brokers :
        /\ T(b) \in Nat /\ T(b) >= Len(log[b])
        /\ c.op = "append" /\ c.broker_id = b => T(b) = Len(log[b]) + 1
        /\ ~(c.op = "append" /\ c.broker_id = b) => T(b) = Len(log[b])
  BY <1>t
<1> HIDE DEF T
<1>q. \A b, k : \A i \in 1 .. N - 1 : QueuedAt(b, k, i)' <=> QueuedAt(b, k, i + 1)
  BY <1>a, <1>b DEF QueuedAt
<1>o. ASSUME NEW b \in Brokers
      PROVE  /\ Len(log[b]) <= Len(accepted[b])
             /\ \A k \in Len(log[b]) + 1 .. Len(accepted[b]) : \E i \in 1 .. N : QueuedAt(b, k, i)
             /\ \A i \in 1 .. N : (channel[i].op = "append" /\ channel[i].broker_id = b) =>
                  \E k \in Len(log[b]) + 1 .. Len(accepted[b]) : QueuedAt(b, k, i)
             /\ \A k, l \in 1 .. Len(accepted[b]), i, j \in 1 .. N :
                  (QueuedAt(b, k, i) /\ QueuedAt(b, l, j) /\ i < j) => k < l
             /\ \A k, l \in 1 .. Len(accepted[b]) : accepted[b][k] = accepted[b][l] => k = l
  <2>1. /\ Taken(b) = Len(log[b]) /\ DOMAIN accepted[b] = 1 .. Len(accepted[b])
        /\ DOMAIN channel = 1 .. N
    BY <1>b, <1>t
  <2>2. /\ Taken(b) <= Len(accepted[b])
        /\ \A k \in Taken(b) + 1 .. Len(accepted[b]) : \E i \in DOMAIN channel : QueuedAt(b, k, i)
        /\ \A i \in DOMAIN channel : (channel[i].op = "append" /\ channel[i].broker_id = b) =>
             \E k \in Taken(b) + 1 .. Len(accepted[b]) : QueuedAt(b, k, i)
        /\ \A k, l \in DOMAIN accepted[b], i, j \in DOMAIN channel :
             (QueuedAt(b, k, i) /\ QueuedAt(b, l, j) /\ i < j) => k < l
    BY <1>w DEF LoggerInv, LogInv, QueueIsTheRest
  <2>3. \A k, l \in DOMAIN accepted[b] : accepted[b][k] = accepted[b][l] => k = l
    BY DEF LoggerInv, LogInv, AcceptedOnce
  <2>. QED BY <2>1, <2>2, <2>3
\* The head of the queue is the next record of its broker, or no record of it.
<1>h. ASSUME NEW b \in Brokers, c.op = "append", c.broker_id = b
      PROVE  /\ Len(log[b]) + 1 <= Len(accepted[b])
             /\ QueuedAt(b, Len(log[b]) + 1, 1)
             /\ \A k \in 1 .. Len(accepted[b]) : QueuedAt(b, k, 1) => k = Len(log[b]) + 1
  <2>1. PICK k \in Len(log[b]) + 1 .. Len(accepted[b]) : QueuedAt(b, k, 1)
    BY <1>b, <1>h, <1>o
  <2>2. Len(log[b]) + 1 \in 1 .. Len(accepted[b]) /\ k \in 1 .. Len(accepted[b])
    BY <1>t, <2>1
  <2>3. PICK i \in 1 .. N : QueuedAt(b, Len(log[b]) + 1, i)
    BY SMTT(30), <1>o, <1>t, <2>2
  <2>4. CASE i = 1
    <3>1. \A l \in 1 .. Len(accepted[b]) : QueuedAt(b, l, 1) => l = Len(log[b]) + 1
      BY SMTT(30), <1>o, <2>2, <2>3, <2>4 DEF QueuedAt
    <3>. QED BY <2>2, <2>3, <2>4, <3>1
  <2>5. CASE i # 1
    <3>1. 1 \in 1 .. N /\ 1 < i
      BY <1>b, <2>3, <2>5
    <3>2. k < Len(log[b]) + 1
      BY <1>o, <2>1, <2>2, <2>3, <3>1
    <3>. QED BY <1>t, <2>1, <3>2
  <2>. QED BY <2>4, <2>5
<1>n. ASSUME NEW b \in Brokers, ~(c.op = "append" /\ c.broker_id = b), NEW k
      PROVE  ~QueuedAt(b, k, 1)
  BY <1>n DEF QueuedAt
\* What is taken is no longer queued, and the rest is.
<1>k. ASSUME NEW b \in Brokers, NEW k \in Len(log[b]) + 1 .. Len(accepted[b]),
             k > T(b)
      PROVE  ~QueuedAt(b, k, 1)
  <2>1. CASE c.op = "append" /\ c.broker_id = b
    <3>1. k \in 1 .. Len(accepted[b]) /\ k # Len(log[b]) + 1
      BY <1>k, <1>t, <1>v, <2>1
    <3>. QED BY <1>h, <2>1, <3>1
  <2>2. CASE ~(c.op = "append" /\ c.broker_id = b)
    BY <1>n, <2>2
  <2>. QED BY <2>1, <2>2
<1>1. EndsForAReason'
  BY <1>a, <1>c DEF LoggerInv, EndsForAReason, Working
<1>2. OneWaiter'
  <2>0. \A i \in DOMAIN channel' : i + 1 \in DOMAIN channel /\ channel'[i] = channel[i + 1]
                                /\ i + 1 # 1 /\ 1 \in DOMAIN channel
    BY <1>b
  <2>1. \A x : Awaited(x) <=> (pc'[x.by] = "wait" /\ call'[x.by] = x /\ reply'[x.by] = "none")
    BY <1>a DEF Awaited
  <2> DEFINE StillAwaited(x) == pc'[x.by] = "wait" /\ call'[x.by] = x /\ reply'[x.by] = "none"
  <2>2. \A i \in DOMAIN channel' : Waits(channel'[i]) => StillAwaited(channel'[i])
    BY <2>0, <2>1 DEF LoggerInv, OneWaiter
  <2>3. Waits(c) => StillAwaited(c)
    BY <1>b, <2>1 DEF LoggerInv, OneWaiter
  <2>4. \A i, j \in DOMAIN channel' :
          (Waits(channel'[i]) /\ Waits(channel'[j]) /\ channel'[i].by = channel'[j].by) => i = j
    <3> SUFFICES ASSUME NEW i \in DOMAIN channel', NEW j \in DOMAIN channel', Waits(channel'[i]),
                        Waits(channel'[j]), channel'[i].by = channel'[j].by
                 PROVE  i = j
      OBVIOUS
    <3>1. i + 1 = j + 1
      BY <2>0 DEF LoggerInv, OneWaiter
    <3>. QED BY <1>b, <3>1
  <2>5. Waits(c) => \A i \in DOMAIN channel' : Waits(channel'[i]) => channel'[i].by # c.by
    BY <2>0 DEF LoggerInv, OneWaiter
  <2>6. \A q \in Producers :
          pc'[q] \in {"check", "reserve", "send", "release"} => reply'[q] = "none"
    BY <1>a DEF LoggerInv, OneWaiter
  <2>. QED BY <1>a, <2>2, <2>3, <2>4, <2>5, <2>6 DEF OneWaiter, Waits, Awaited
<1>3. AcceptedOnce'
  BY <1>a DEF LoggerInv, LogInv, AcceptedOnce
<1>4. QueueIsTheRest'
  <2> SUFFICES ASSUME NEW b \in Brokers
               PROVE
      /\ T(b) <= Len(accepted[b])
      /\ c.op = "append" /\ c.broker_id = b => accepted[b][T(b)] = c.record
      /\ \A k \in T(b) + 1 .. Len(accepted[b]) : \E i \in DOMAIN channel' : QueuedAt(b, k, i)'
      /\ \A i \in DOMAIN channel' : (channel'[i].op = "append" /\ channel'[i].broker_id = b) =>
           \E k \in T(b) + 1 .. Len(accepted[b]) : QueuedAt(b, k, i)'
      /\ \A k, l \in DOMAIN accepted[b], i, j \in DOMAIN channel' :
              (QueuedAt(b, k, i)' /\ QueuedAt(b, l, j)' /\ i < j) => k < l
    BY <1>a, <1>u DEF QueueIsTheRest
  <2>1. /\ T(b) <= Len(accepted[b])
        /\ c.op = "append" /\ c.broker_id = b => accepted[b][T(b)] = c.record
    BY <1>h, <1>o, <1>v DEF QueuedAt
  <2>2. ASSUME NEW k \in T(b) + 1 .. Len(accepted[b])
        PROVE  \E i \in DOMAIN channel' : QueuedAt(b, k, i)'
    <3>1. k \in Len(log[b]) + 1 .. Len(accepted[b]) /\ k > T(b)
      BY <1>t, <1>v
    <3>2. PICK i \in 1 .. N : QueuedAt(b, k, i)
      BY <1>o, <3>1
    <3>3. i # 1
      BY <1>k, <3>1, <3>2
    <3>4. i - 1 \in 1 .. N - 1 /\ (i - 1) + 1 = i
      BY <1>b, <3>3
    <3>5. QueuedAt(b, k, (i - 1) + 1)
      BY <3>2, <3>4
    <3>6. \E j \in 1 .. N - 1 : QueuedAt(b, k, j + 1)
      BY <3>4, <3>5
    <3>. QED BY <1>b, <1>q, <3>6
  <2>3. ASSUME NEW i \in DOMAIN channel', channel'[i].op = "append", channel'[i].broker_id = b
        PROVE  \E k \in T(b) + 1 .. Len(accepted[b]) : QueuedAt(b, k, i)'
    <3>1. i \in 1 .. N - 1 /\ i + 1 \in 1 .. N /\ i + 1 > 1 /\ 1 \in 1 .. N
          /\ channel'[i] = channel[i + 1]
      BY <1>b
    <3>2. PICK k \in Len(log[b]) + 1 .. Len(accepted[b]) : QueuedAt(b, k, i + 1)
      BY <1>o, <2>3, <3>1
    <3>3. k > T(b)
      <4>1. CASE c.op = "append" /\ c.broker_id = b
        <5>1. /\ QueuedAt(b, Len(log[b]) + 1, 1)
              /\ Len(log[b]) + 1 \in 1 .. Len(accepted[b]) /\ k \in 1 .. Len(accepted[b])
          BY <1>h, <1>t, <3>2, <4>1
        <5>2. Len(log[b]) + 1 < k
          BY <1>o, <3>1, <3>2, <5>1
        <5>. QED BY <1>v, <4>1, <5>2
      <4>2. CASE ~(c.op = "append" /\ c.broker_id = b)
        BY <1>t, <1>v, <3>2, <4>2
      <4>. QED BY <4>1, <4>2
    <3>4. k \in T(b) + 1 .. Len(accepted[b])
      BY <1>t, <1>v, <3>2, <3>3
    <3>. QED BY <1>q, <3>1, <3>2, <3>4
  <2>4. ASSUME NEW k \in DOMAIN accepted[b], NEW l \in DOMAIN accepted[b],
               NEW i \in DOMAIN channel', NEW j \in DOMAIN channel',
               QueuedAt(b, k, i)', QueuedAt(b, l, j)', i < j
        PROVE  k < l
    <3>1. /\ i + 1 \in 1 .. N /\ j + 1 \in 1 .. N /\ i + 1 < j + 1
          /\ QueuedAt(b, k, i + 1) /\ QueuedAt(b, l, j + 1)
      BY <1>b, <1>q, <2>4
    <3>. QED BY <1>o, <1>t, <3>1
  <2>. QED BY <2>1, <2>2, <2>3, <2>4
<1>5. WrittenInOrder' /\ NothingLeft'
  BY <1>a, <1>c DEF LoggerInv, LogInv, WrittenInOrder, NothingLeft, Working
<1>6. FlushIsBehind'
  <2>1. ASSUME NEW b \in Brokers, NEW i \in DOMAIN channel', channel'[i].op = "flush",
               NEW k \in Taken(b)' + 1 .. mark[channel'[i].by][b]
        PROVE  \E j \in DOMAIN channel' : j < i /\ QueuedAt(b, k, j)'
    <3>1. i \in 1 .. N - 1 /\ i + 1 \in 1 .. N /\ channel'[i] = channel[i + 1]
          /\ channel[i + 1].by \in Producers
      BY <1>b, CommandFacts
    <3>2. /\ k \in Len(log[b]) + 1 .. mark[channel[i + 1].by][b]
          /\ k > T(b)
      <4>1. k \in T(b) + 1 .. mark[channel[i + 1].by][b]
        BY <1>u, <2>1, <3>1
      <4>. QED BY <1>t, <1>v, <3>1, <4>1
    <3>3. k \in Len(log[b]) + 1 .. Len(accepted[b])
      BY <1>t, <3>1, <3>2 DEF LoggerInv, FlushIsBehind
    <3>4. PICK j \in 1 .. N : j < i + 1 /\ QueuedAt(b, k, j)
      BY <1>b, <1>t, <1>w, <2>1, <3>1, <3>2 DEF LoggerInv, FlushIsBehind
    <3>5. j # 1
      BY <1>k, <3>2, <3>3, <3>4
    <3>6. j - 1 \in 1 .. N - 1 /\ (j - 1) + 1 = j /\ j - 1 < i
      BY <1>b, <3>1, <3>4, <3>5
    <3>7. QueuedAt(b, k, (j - 1) + 1)
      BY <3>4, <3>6
    <3>8. \E m \in 1 .. N - 1 : m < i /\ QueuedAt(b, k, m + 1)
      BY <3>6, <3>7
    <3>. QED BY <1>b, <1>q, <3>8
  <2>2. ASSUME c.op = "flush", NEW b \in Brokers
        PROVE  Len(log[b]) >= mark[c.by][b]
    <3>1. \A k \in Len(log[b]) + 1 .. mark[c.by][b] : FALSE
      <4>1. \A k \in Taken(b) + 1 .. mark[c.by][b] :
              \E j \in DOMAIN channel : j < 1 /\ QueuedAt(b, k, j)
        BY <1>b, <1>w, <2>2 DEF LoggerInv, FlushIsBehind
      <4>. QED BY <1>b, <1>t, <4>1
    <3>. QED BY <1>c, <1>t, <3>1
  <2>. QED BY <1>a, <2>1, <2>2 DEF LoggerInv, FlushIsBehind
<1>7. AnswerInv'
  <2>1. Grows
    BY <1>a DEF Grows, TypeInv, TypeOK
  <2>. QED BY <1>a, <2>1, NoNewAnswer DEF LoggerInv
<1>. QED BY <1>1, <1>2, <1>3, <1>4, <1>5, <1>6, <1>7 DEF LoggerInv, LogInv

-----------------------------------------------------------------------------
(* The worker answers.                                                       *)

\* The answered command's producer is the only one whose reply changes, and no
\* other command that waits is its.
LEMMA AnswerKeepsWaiters ==
  ASSUME TypeInv, LoggerInv, Holding, NEW result, Answer(command, result),
         UNCHANGED <<pc, call, channel>>, worker' \notin {"append", "flush"}
  PROVE  /\ OneWaiter'
         /\ \A q \in Producers : reply'[q] # reply[q] =>
              /\ Waits(command) /\ q = command.by
              /\ call[q] = command /\ pc[q] = "wait" /\ reply'[q] = result
<1>1. command.by \in Producers /\ reply \in [Producers -> {"none", "ok", "err"}]
  BY CommandFacts DEF TypeInv, TypeOK
<1>2. \A q \in Producers : reply'[q] # reply[q] =>
        Waits(command) /\ q = command.by /\ reply'[q] = result
  BY <1>1 DEF Answer
<1>3. Waits(command) => call[command.by] = command /\ pc[command.by] = "wait"
  BY DEF LoggerInv, OneWaiter, Awaited
<1>4. \A i \in DOMAIN channel : Waits(channel[i]) =>
        pc[channel[i].by] = "wait" /\ call[channel[i].by] = channel[i]
        /\ reply'[channel[i].by] = "none"
  <2> SUFFICES ASSUME NEW i \in DOMAIN channel, Waits(channel[i])
               PROVE  /\ pc[channel[i].by] = "wait" /\ call[channel[i].by] = channel[i]
                      /\ reply'[channel[i].by] = "none"
    OBVIOUS
  <2>1. Awaited(channel[i]) /\ channel[i].by \in Producers
    BY CommandFacts DEF LoggerInv, OneWaiter
  <2>2. reply'[channel[i].by] = reply[channel[i].by]
    BY <1>2, <2>1 DEF LoggerInv, OneWaiter
  <2>. QED BY <2>1, <2>2 DEF Awaited
<1>5. \A q \in Producers : pc[q] \in {"check", "reserve", "send", "release"} => reply'[q] = "none"
  BY <1>2, <1>3 DEF LoggerInv, OneWaiter
<1>6. \A i, j \in DOMAIN channel :
        (Waits(channel[i]) /\ Waits(channel[j]) /\ channel[i].by = channel[j].by) => i = j
  BY DEF LoggerInv, OneWaiter
<1>7. OneWaiter'
  BY <1>4, <1>5, <1>6 DEF OneWaiter, Awaited, Waits, Holding
<1>. QED BY <1>2, <1>3, <1>7

LEMMA WriteStep ==
  ASSUME TypeInv, TypeInv', LoggerInv, WriteRecord
  PROVE  LoggerInv'
<1> DEFINE bb == command.broker_id
           n == Len(log[bb])
<1>a. /\ worker = "append" /\ worker' = "loop" /\ pc' = pc /\ call' = call /\ calls' = calls
      /\ channel' = channel /\ accepted' = accepted /\ mark' = mark /\ confirmed' = confirmed
      /\ fault' = fault /\ running' = running /\ finished' = finished /\ open' = open
      /\ Answer(command, "ok") /\ log' = [log EXCEPT ![bb] = Append(@, command.record)]
      /\ bb \in Brokers /\ command.record \in Record /\ command \in AppendCalls
      /\ command.op = "append"
  <2>1. command \in AppendCalls
    BY CallFacts DEF WriteRecord, TypeInv, TypeOK, CommandFits
  <2>. QED BY <2>1 DEF WriteRecord, AppendCalls, history
<1>b. Working /\ Holding /\ ~fault
  BY <1>a DEF Working, Holding, LoggerInv, EndsForAReason
<1>c. /\ n \in Nat /\ log'[bb] \in Seq(Record) /\ Len(log'[bb]) = n + 1
      /\ DOMAIN log[bb] = 1 .. n /\ DOMAIN log'[bb] = 1 .. n + 1
      /\ \A k \in 1 .. n : log'[bb][k] = log[bb][k]
      /\ log'[bb][n + 1] = command.record
      /\ \A b \in Brokers \ {bb} : log'[b] = log[b]
  <2>1. log'[bb] = Append(log[bb], command.record) /\ log[bb] \in Seq(Record)
    BY <1>a DEF TypeInv, TypeOK
  <2>2. \A b \in Brokers \ {bb} : log'[b] = log[b]
    BY <1>a DEF TypeInv, TypeOK
  <2>. QED BY <1>a, <2>1, <2>2
<1>d. \A b \in Brokers : /\ Taken(b)' = Taken(b) /\ Taken(b) = Len(log'[b])
                         /\ Len(log[b]) \in Nat
  <2>1. \A b : Taken(b)' = Len(log'[b])
    BY <1>a DEF Taken
  <2>2. Taken(bb) = n + 1
    BY <1>a DEF Taken
  <2>3. \A b \in Brokers \ {bb} : Taken(b) = Len(log[b])
    BY DEF Taken
  <2>. QED BY <1>c, <2>1, <2>2, <2>3, TakenFacts
<1>e. \A b, k, i : QueuedAt(b, k, i)' <=> QueuedAt(b, k, i)
  BY <1>a DEF QueuedAt
<1>g. Grows
  <2>1. \A b \in Brokers : \A i \in DOMAIN log[b] : log'[b][i] = log[b][i]
    BY <1>c
  <2>2. \A b \in Brokers : synced[b] \in 0 .. Len(log[b]) /\ Len(log'[b]) >= Len(log[b])
    <3>1. \A b \in Brokers : synced[b] \in 0 .. Len(log[b])
      BY DEF TypeInv, TypeOK
    <3>. QED BY <1>d, <3>1, TakenFacts
  <2>3. \A b \in Brokers : synced'[b] \in {Len(log'[b]), Len(log[b]), synced[b]}
    BY <1>a DEF WriteRecord, TypeInv, TypeOK
  <2>4. \A b \in Brokers : synced'[b] \in Int
    BY DEF TypeInv, TypeOK
  <2>. QED BY <1>d, <2>1, <2>2, <2>3, <2>4 DEF Grows
<1>1. EndsForAReason'
  BY <1>a, <1>b DEF LoggerInv, EndsForAReason, Working
<1>2. /\ OneWaiter'
      /\ \A q \in Producers : reply'[q] # reply[q] =>
           Waits(command) /\ q = command.by /\ call[q] = command
  BY <1>a, <1>b, AnswerKeepsWaiters
<1>3. AcceptedOnce'
  BY <1>a DEF LoggerInv, LogInv, AcceptedOnce
<1>4. QueueIsTheRest'
  <2>1. Working' /\ worker' # "append"
    BY <1>a DEF Working
  <2>. QED BY <1>a, <1>b, <1>d, <1>e, <2>1 DEF LoggerInv, LogInv, QueueIsTheRest
<1>5. WrittenInOrder'
  <2> SUFFICES ASSUME NEW b \in Brokers
               PROVE  /\ Len(log'[b]) <= Len(accepted[b])
                      /\ \A k \in DOMAIN log'[b] : log'[b][k] = accepted[b][k]
    BY <1>a DEF WrittenInOrder
  <2>1. Len(log'[b]) <= Len(accepted[b])
    BY <1>b, <1>d DEF LoggerInv, LogInv, QueueIsTheRest
  <2>2. CASE b = bb
    <3>1. accepted[b][n + 1] = command.record
      BY <1>a, <1>b, <1>c, <1>d, <2>2 DEF LoggerInv, LogInv, QueueIsTheRest
    <3>2. \A k \in 1 .. n : log[b][k] = accepted[b][k]
      BY <1>c, <2>2 DEF LoggerInv, LogInv, WrittenInOrder
    <3>3. \A k \in 1 .. n + 1 : k = n + 1 \/ k \in 1 .. n
      BY <1>c
    <3>. QED BY <1>c, <2>1, <2>2, <3>1, <3>2, <3>3
  <2>3. CASE b # bb
    BY <1>c, <2>1, <2>3 DEF LoggerInv, LogInv, WrittenInOrder
  <2>. QED BY <2>2, <2>3
<1>6. NothingLeft'
  BY <1>a DEF NothingLeft, Working
<1>7. FlushIsBehind'
  <2>1. Working' /\ worker' # "flush"
    BY <1>a DEF Working
  <2>. QED BY <1>a, <1>b, <1>d, <1>e, <2>1 DEF LoggerInv, FlushIsBehind
<1>8. AnswerInv'
  <2>1. FlushCoversAccepted'
    <3> SUFFICES ASSUME NEW q \in Producers, pc[q] = "wait", call[q].op = "flush",
                        reply'[q] = "ok", NEW b \in Brokers
                 PROVE  synced'[b] >= mark[q][b]
      BY <1>a DEF FlushCoversAccepted
    <3>1. reply[q] = "ok"
      BY <1>2, <1>a
    <3>2. synced[b] >= mark[q][b]
      BY <3>1 DEF LoggerInv, AnswerInv, FlushCoversAccepted
    <3>3. synced[b] \in Int /\ synced'[b] \in Int /\ mark[q][b] \in Int
      BY DEF TypeInv, TypeOK
    <3>. QED BY <1>g, <3>2, <3>3 DEF Grows
  <2>2. AnsweredIsSafe'
    <3> SUFFICES ASSUME NEW q \in Producers, pc[q] = "wait", call[q].op = "append",
                        reply'[q] = "ok"
                 PROVE  \E i \in 1 .. synced'[call[q].broker_id] :
                          log'[call[q].broker_id][i] = call[q].record
      BY <1>a DEF AnsweredIsSafe, Safe
    <3>0. call[q].broker_id \in Brokers
      BY CallFacts DEF TypeInv, TypeOK, AppendCalls
    <3>1. CASE reply'[q] = reply[q]
      <4>1. Safe(call[q].broker_id, call[q].record)
        BY <3>1 DEF LoggerInv, AnswerInv, AnsweredIsSafe
      <4>2. \A b, x : b = call[q].broker_id /\ x = call[q].record => Safe(b, x)'
        BY <1>g, <3>0, <4>1, SafeStays
      <4>. QED BY <4>2 DEF Safe
    <3>2. CASE reply'[q] # reply[q]
      <4>1. call[q] = command /\ command.durable
        BY <1>2, <1>a, <3>2 DEF Waits
      <4>2. synced'[bb] = n + 1
        BY <1>a, <1>c, <4>1 DEF WriteRecord, TypeInv, TypeOK
      <4>3. n + 1 \in 1 .. synced'[bb] /\ log'[bb][n + 1] = command.record
        BY <1>c, <4>2
      <4>. QED BY <4>1, <4>3
    <3>. QED BY <3>1, <3>2
  <2>3. ConfirmedIsSafe'
    <3> SUFFICES ASSUME NEW c \in confirmed
                 PROVE  \E i \in 1 .. synced'[c[1]] : log'[c[1]][i] = c[2]
      BY <1>a DEF ConfirmedIsSafe
    <3>1. c[1] \in Brokers /\ Safe(c[1], c[2])
      BY DEF TypeInv, TypeOK, LoggerInv, AnswerInv, ConfirmedIsSafe, Safe
    <3>2. \A b, x : b = c[1] /\ x = c[2] => Safe(b, x)'
      BY <1>g, <3>1, SafeStays
    <3>. QED BY <3>2 DEF Safe
  <2>. QED BY <2>1, <2>2, <2>3 DEF AnswerInv
<1>. QED BY <1>1, <1>2, <1>3, <1>4, <1>5, <1>6, <1>7, <1>8 DEF LoggerInv, LogInv

LEMMA FlushStep ==
  ASSUME TypeInv, TypeInv', LoggerInv, Flush
  PROVE  LoggerInv'
<1>a. /\ worker = "flush" /\ pc' = pc /\ call' = call /\ calls' = calls /\ log' = log
      /\ channel' = channel /\ accepted' = accepted /\ mark' = mark /\ confirmed' = confirmed
      /\ fault' = fault /\ running' = running /\ finished' = finished /\ open' = open
      /\ Answer(command, "ok") /\ synced' = [b \in Brokers |-> Len(log[b])]
      /\ command.op = "flush" /\ command.by \in Producers
  BY CommandFacts DEF Flush, shared, history, AllSynced, Holding
<1>b. Working /\ Holding /\ ~fault /\ Waits(command)
  BY <1>a DEF Working, Holding, Waits, LoggerInv, EndsForAReason
\* The worker was not told to stop: somebody waits for it.
<1>c. worker' = "loop"
  <2>1. pc[command.by] = "wait"
    BY <1>b DEF LoggerInv, OneWaiter, Awaited
  <2>2. ~finished
    BY <1>a, <2>1 DEF LoggerInv, EndsForAReason
  <2>3. running
    BY <1>b, <2>2 DEF LoggerInv, EndsForAReason
  <2>. QED BY <2>3 DEF Flush
<1>d. \A b \in Brokers : Taken(b)' = Taken(b)
  BY <1>a, <1>c DEF Taken
<1>e. \A b, k, i : QueuedAt(b, k, i)' <=> QueuedAt(b, k, i)
  BY <1>a DEF QueuedAt
<1>g. Grows
  <2>1. \A b \in Brokers : synced[b] <= Len(log[b])
    BY DEF TypeInv, TypeOK
  <2>. QED BY <1>a, <2>1 DEF Grows
<1>1. EndsForAReason'
  BY <1>a, <1>b, <1>c DEF LoggerInv, EndsForAReason, Working
<1>2. /\ OneWaiter'
      /\ \A q \in Producers : reply'[q] # reply[q] => q = command.by /\ call[q] = command
  BY <1>a, <1>b, <1>c, AnswerKeepsWaiters
<1>3. AcceptedOnce'
  BY <1>a DEF LoggerInv, LogInv, AcceptedOnce
<1>4. QueueIsTheRest'
  <2>1. Working' /\ worker' # "append"
    BY <1>c DEF Working
  <2>. QED BY <1>a, <1>b, <1>d, <1>e, <2>1 DEF LoggerInv, LogInv, QueueIsTheRest
<1>5. WrittenInOrder' /\ NothingLeft'
  BY <1>a, <1>c DEF LoggerInv, LogInv, WrittenInOrder, NothingLeft, Working
<1>6. FlushIsBehind'
  <2>1. Working' /\ worker' # "flush"
    BY <1>c DEF Working
  <2>. QED BY <1>a, <1>b, <1>d, <1>e, <2>1 DEF LoggerInv, FlushIsBehind
<1>7. AnswerInv'
  <2>1. FlushCoversAccepted'
    <3> SUFFICES ASSUME NEW q \in Producers, pc[q] = "wait", call[q].op = "flush",
                        reply'[q] = "ok", NEW b \in Brokers
                 PROVE  synced'[b] >= mark[q][b]
      BY <1>a DEF FlushCoversAccepted
    <3>1. CASE reply'[q] = reply[q]
      <4>1. synced[b] >= mark[q][b]
        BY <3>1 DEF LoggerInv, AnswerInv, FlushCoversAccepted
      <4>2. synced[b] \in Int /\ synced'[b] \in Int /\ mark[q][b] \in Int
        BY DEF TypeInv, TypeOK
      <4>. QED BY <1>g, <4>1, <4>2 DEF Grows
    <3>2. CASE reply'[q] # reply[q]
      BY <1>2, <1>a, <1>b, <3>2 DEF LoggerInv, FlushIsBehind
    <3>. QED BY <3>1, <3>2
  <2>2. AnsweredIsSafe'
    <3> SUFFICES ASSUME NEW q \in Producers, pc[q] = "wait", call[q].op = "append",
                        reply'[q] = "ok"
                 PROVE  \E i \in 1 .. synced'[call[q].broker_id] :
                          log'[call[q].broker_id][i] = call[q].record
      BY <1>a DEF AnsweredIsSafe, Safe
    <3>0. call[q].broker_id \in Brokers
      BY CallFacts DEF TypeInv, TypeOK, AppendCalls
    <3>1. reply[q] = "ok"
      BY <1>2, <1>a
    <3>2. Safe(call[q].broker_id, call[q].record)
      BY <3>1 DEF LoggerInv, AnswerInv, AnsweredIsSafe
    <3>3. \A b, x : b = call[q].broker_id /\ x = call[q].record => Safe(b, x)'
      BY <1>g, <3>0, <3>2, SafeStays
    <3>. QED BY <3>3 DEF Safe
  <2>3. ConfirmedIsSafe'
    <3> SUFFICES ASSUME NEW c \in confirmed
                 PROVE  \E i \in 1 .. synced'[c[1]] : log'[c[1]][i] = c[2]
      BY <1>a DEF ConfirmedIsSafe
    <3>1. c[1] \in Brokers /\ Safe(c[1], c[2])
      BY DEF TypeInv, TypeOK, LoggerInv, AnswerInv, ConfirmedIsSafe, Safe
    <3>2. \A b, x : b = c[1] /\ x = c[2] => Safe(b, x)'
      BY <1>g, <3>1, SafeStays
    <3>. QED BY <3>2 DEF Safe
  <2>. QED BY <2>1, <2>2, <2>3 DEF AnswerInv
<1>. QED BY <1>1, <1>2, <1>3, <1>4, <1>5, <1>6, <1>7 DEF LoggerInv, LogInv

-----------------------------------------------------------------------------
(* The worker ends.                                                          *)

LEMMA FailStep ==
  ASSUME TypeInv, TypeInv', LoggerInv, FailToWrite \/ FailToFlush
  PROVE  LoggerInv'
<1>a. /\ Holding /\ Working /\ worker' = "last_flush" /\ fault' = TRUE /\ running' = FALSE
      /\ pc' = pc /\ call' = call /\ calls' = calls /\ synced' = synced /\ channel' = channel
      /\ accepted' = accepted /\ mark' = mark /\ confirmed' = confirmed
      /\ finished' = finished /\ open' = open /\ Answer(command, "err")
  BY DEF FailToWrite, FailToFlush, Fail, files, history, Holding, Working
<1>l. ASSUME NEW b \in Brokers
      PROVE  /\ log'[b] = log[b] \/ (worker = "append" /\ command.broker_id = b
                                    /\ log'[b] = Append(log[b], command.record))
             /\ log[b] \in Seq(Record) /\ Taken(b) \in Nat /\ Len(log[b]) \in Nat
             /\ worker = "append" => command.record \in Record
  <2>1. worker = "append" => command.record \in Record
    BY CallFacts DEF TypeInv, TypeOK, CommandFits, AppendCalls
  <2>2. log \in [Brokers -> Seq(Record)]
    BY DEF TypeInv, TypeOK
  <2>3. log' = log \/ (worker = "append"
                       /\ log' = [log EXCEPT ![command.broker_id] = Append(@, command.record)])
    BY DEF FailToWrite, FailToFlush, files
  <2>. QED BY <2>1, <2>2, <2>3, TakenFacts
<1>1. EndsForAReason'
  BY <1>a DEF LoggerInv, EndsForAReason, Working
<1>2. /\ OneWaiter'
      /\ \A q \in Producers : reply'[q] # reply[q] => reply'[q] = "err"
  BY <1>a, AnswerKeepsWaiters
<1>3. AcceptedOnce'
  BY <1>a DEF LoggerInv, LogInv, AcceptedOnce
<1>4. QueueIsTheRest' /\ NothingLeft' /\ FlushIsBehind'
  BY <1>a DEF LoggerInv, QueueIsTheRest, NothingLeft, FlushIsBehind, Working
<1>5. WrittenInOrder'
  <2> SUFFICES ASSUME NEW b \in Brokers
               PROVE  /\ Len(log'[b]) <= Len(accepted[b])
                      /\ \A k \in DOMAIN log'[b] : log'[b][k] = accepted[b][k]
    BY <1>a DEF WrittenInOrder
  <2>1. CASE log'[b] = log[b]
    BY <2>1 DEF LoggerInv, LogInv, WrittenInOrder
  <2>2. CASE worker = "append" /\ command.broker_id = b
              /\ log'[b] = Append(log[b], command.record)
    <3>1. Taken(b) = Len(log[b]) + 1
      BY <2>2 DEF Taken
    <3>2. Len(log[b]) + 1 <= Len(accepted[b]) /\ accepted[b][Len(log[b]) + 1] = command.record
      BY <1>a, <2>2, <3>1 DEF LoggerInv, LogInv, QueueIsTheRest
    <3>3. /\ Len(log'[b]) = Len(log[b]) + 1 /\ DOMAIN log'[b] = 1 .. Len(log[b]) + 1
          /\ \A k \in 1 .. Len(log[b]) : log'[b][k] = log[b][k]
          /\ log'[b][Len(log[b]) + 1] = command.record
          /\ DOMAIN log[b] = 1 .. Len(log[b])
      BY <1>l, <2>2
    <3>4. \A k \in 1 .. Len(log[b]) + 1 : k = Len(log[b]) + 1 \/ k \in 1 .. Len(log[b])
      BY <1>l
    <3>5. \A k \in 1 .. Len(log[b]) : log[b][k] = accepted[b][k]
      BY <3>3 DEF LoggerInv, LogInv, WrittenInOrder
    <3>. QED BY <3>2, <3>3, <3>4, <3>5
  <2>. QED BY <1>l, <2>1, <2>2
<1>6. AnswerInv'
  <2>1. Grows
    <3>1. ASSUME NEW b \in Brokers PROVE \A i \in DOMAIN log[b] : log'[b][i] = log[b][i]
      BY SMTT(30), <1>l
    <3>2. \A b \in Brokers : synced[b] \in Int
      BY DEF TypeInv, TypeOK
    <3>. QED BY <1>a, <3>1, <3>2 DEF Grows
  <2>2. \A q \in Producers : reply'[q] = "ok" => reply[q] = "ok"
    BY <1>2
  <2>. QED BY <1>a, <2>1, <2>2, NoNewAnswer DEF LoggerInv
<1>. QED BY <1>1, <1>2, <1>3, <1>4, <1>5, <1>6 DEF LoggerInv, LogInv

LEMMA LeaveLoopStep ==
  ASSUME TypeInv, TypeInv', LoggerInv, Stop \/ FailPeriodicFlush
  PROVE  LoggerInv'
<1>a. /\ worker = "loop" /\ worker' = "last_flush" /\ pc' = pc /\ call' = call /\ calls' = calls
      /\ reply' = reply /\ synced' = synced /\ channel' = channel /\ log' = log
      /\ accepted' = accepted /\ mark' = mark /\ confirmed' = confirmed
      /\ finished' = finished /\ open' = open /\ running' = FALSE
      /\ fault' = TRUE \/ (channel = << >> /\ fault' = fault /\ ~running)
  BY DEF Stop, FailPeriodicFlush, Fail, producers, shared, files, history, TypeInv, TypeOK
<1>b. Working /\ ~fault
  BY <1>a DEF Working, LoggerInv, EndsForAReason
<1>1. EndsForAReason'
  BY <1>a, <1>b DEF LoggerInv, EndsForAReason, Working
<1>2. OneWaiter'
  BY <1>a DEF LoggerInv, OneWaiter, Holding, Awaited
<1>3. AcceptedOnce' /\ WrittenInOrder'
  BY <1>a DEF LoggerInv, LogInv, AcceptedOnce, WrittenInOrder
<1>4. QueueIsTheRest' /\ FlushIsBehind'
  BY <1>a DEF LoggerInv, QueueIsTheRest, FlushIsBehind, Working
<1>5. NothingLeft'
  <2> SUFFICES ASSUME ~fault', NEW b \in Brokers PROVE Len(log[b]) = Len(accepted[b])
    BY <1>a DEF NothingLeft
  <2>1. DOMAIN channel = {}
    BY <1>a
  <2>2. \A k \in Taken(b) + 1 .. Len(accepted[b]) : FALSE
    BY <1>b, <2>1 DEF LoggerInv, LogInv, QueueIsTheRest
  <2>3. /\ Taken(b) = Len(log[b]) /\ Taken(b) <= Len(accepted[b]) /\ Len(log[b]) \in Nat
        /\ Len(accepted[b]) \in Nat
    <3>1. Taken(b) = Len(log[b]) /\ Taken(b) <= Len(accepted[b])
      BY <1>a, <1>b DEF Taken, LoggerInv, LogInv, QueueIsTheRest
    <3>. QED BY <3>1 DEF TypeInv, TypeOK
  <2>. QED BY <2>2, <2>3
<1>6. AnswerInv'
  <2>1. Grows
    BY <1>a DEF Grows, TypeInv, TypeOK
  <2>. QED BY <1>a, <2>1, NoNewAnswer DEF LoggerInv
<1>. QED BY <1>1, <1>2, <1>3, <1>4, <1>5, <1>6 DEF LoggerInv, LogInv

LEMMA ExitStep ==
  ASSUME TypeInv, TypeInv', LoggerInv, LastFlush \/ Exit
  PROVE  LoggerInv'
<1>a. /\ worker \in {"last_flush", "exit"} /\ worker' \in {"exit", "exited"}
      /\ pc' = pc /\ call' = call /\ calls' = calls /\ log' = log
      /\ accepted' = accepted /\ mark' = mark /\ confirmed' = confirmed
      /\ finished' = finished /\ running' = running
      /\ fault => fault'
      /\ \/ channel' = channel /\ reply' = reply /\ open' = open
         \/ /\ channel' = << >> /\ worker' = "exited"
            /\ \A q \in Producers : reply'[q] = reply[q] \/
                 (reply'[q] = "err" /\ \E i \in DOMAIN channel :
                                          Waits(channel[i]) /\ channel[i].by = q)
  <2>1. CASE LastFlush
    BY <2>1 DEF LastFlush, producers, history
  <2>2. CASE Exit
    <3>1. ASSUME NEW q \in Producers, reply'[q] # reply[q]
          PROVE  reply'[q] = "err" /\ \E i \in DOMAIN channel :
                                        Waits(channel[i]) /\ channel[i].by = q
      <4>1. /\ \E c \in ToSet(channel) : c.op = "append" /\ c.durable /\ c.by = q
            /\ reply'[q] = "err"
        BY <2>2, <3>1 DEF Exit
      <4>2. PICK i \in DOMAIN channel : channel[i].durable /\ channel[i].by = q
        BY <4>1 DEF ToSet
      <4>. QED BY <4>1, <4>2 DEF Waits
    <3>2. /\ worker = "exit" /\ worker' = "exited" /\ channel' = << >>
          /\ pc' = pc /\ call' = call /\ calls' = calls /\ log' = log
          /\ accepted' = accepted /\ mark' = mark /\ confirmed' = confirmed
          /\ finished' = finished /\ running' = running /\ fault' = fault
      BY <2>2 DEF Exit, files, history
    <3>. QED BY <3>1, <3>2
  <2>. QED BY <2>1, <2>2
<1>s. ASSUME NEW b \in Brokers
      PROVE  /\ synced'[b] \in {synced[b], Len(log[b])}
             /\ worker = "last_flush" /\ ~fault' => synced'[b] = Len(log[b])
             /\ worker # "last_flush" => synced'[b] = synced[b] /\ fault' = fault
             /\ synced[b] \in 0 .. Len(log[b]) /\ Len(log[b]) \in Nat
  <2>1. synced[b] \in 0 .. Len(log[b]) /\ Len(log[b]) \in Nat
    BY DEF TypeInv, TypeOK
  <2>2. CASE LastFlush
    BY <2>1, <2>2 DEF LastFlush, AllSynced
  <2>3. CASE Exit
    BY <2>1, <2>3 DEF Exit, files
  <2>. QED BY <2>1, <2>2, <2>3
<1>1. EndsForAReason'
  <2>1. open' = open \/ worker' = "exited"
    BY <1>a
  <2>2. worker' = "exited" \/ worker # "exited"
    BY <1>a
  <2>. QED BY <1>a, <2>1, <2>2 DEF LoggerInv, EndsForAReason, Working
<1>2. OneWaiter'
  <2>1. CASE channel' = channel /\ reply' = reply
    BY <1>a, <2>1 DEF LoggerInv, OneWaiter, Holding, Awaited
  <2>2. CASE channel' = << >> /\ ~(channel' = channel /\ reply' = reply)
    <3>1. DOMAIN channel' = {} /\ worker' \notin {"append", "flush"}
      BY <1>a, <2>2
    <3>2. ASSUME NEW q \in Producers, pc[q] \in {"check", "reserve", "send", "release"}
          PROVE  reply'[q] = "none"
      <4>1. \A i \in DOMAIN channel : Waits(channel[i]) => pc[channel[i].by] = "wait"
        BY DEF LoggerInv, OneWaiter, Awaited
      <4>. QED BY <1>a, <2>2, <3>2, <4>1 DEF LoggerInv, OneWaiter
    <3>. QED BY <1>a, <3>1, <3>2 DEF OneWaiter, Holding
  <2>. QED BY <1>a, <2>1, <2>2
<1>3. AcceptedOnce' /\ WrittenInOrder'
  BY <1>a DEF LoggerInv, LogInv, AcceptedOnce, WrittenInOrder
<1>4. QueueIsTheRest'
  BY <1>a DEF QueueIsTheRest, Working
<1>5. FlushIsBehind'
  BY <1>a DEF LoggerInv, FlushIsBehind, Working
<1>6. NothingLeft'
  BY <1>a, <1>s DEF LoggerInv, LogInv, NothingLeft, Working
<1>7. AnswerInv'
  <2>1. Grows
    BY <1>a, <1>s DEF Grows
  <2>2. \A q \in Producers : reply'[q] = "ok" => reply[q] = "ok"
    BY <1>a
  <2>. QED BY <1>a, <2>1, <2>2, NoNewAnswer DEF LoggerInv
<1>. QED BY <1>1, <1>2, <1>3, <1>4, <1>5, <1>6, <1>7 DEF LoggerInv, LogInv

LEMMA OtherSteps ==
  ASSUME TypeInv, TypeInv', LoggerInv, Finish \/ NewDay \/ UNCHANGED vars
  PROVE  LoggerInv'
<1>a. /\ Quiet /\ pc' = pc /\ call' = call /\ calls' = calls /\ reply' = reply
      /\ mark' = mark /\ confirmed' = confirmed
      /\ \/ running' = running /\ finished' = finished
         \/ /\ running' = FALSE /\ finished' = TRUE
            /\ \A p \in Producers : pc[p] = "idle"
  BY DEF Finish, NewDay, vars, Quiet, producers, shared, files, history
<1>1. EndsForAReason'
  BY <1>a DEF LoggerInv, EndsForAReason, Working, Quiet
<1>2. OneWaiter' /\ AcceptedOnce'
  BY <1>a DEF LoggerInv, LogInv, OneWaiter, AcceptedOnce, Holding, Awaited, Quiet
<1>3. LogInv' /\ FlushIsBehind'
  BY <1>a, <1>2, QuietKeepsLog DEF LoggerInv, LogInv
<1>4. AnswerInv'
  <2>1. Grows
    BY <1>a DEF Grows, Quiet, TypeInv, TypeOK
  <2>. QED BY <1>a, <2>1, NoNewAnswer DEF LoggerInv
<1>. QED BY <1>1, <1>2, <1>3, <1>4 DEF LoggerInv

LEMMA LoggerInvStep == TypeInv /\ LoggerInv /\ [Next]_vars => LoggerInv'
<1> SUFFICES ASSUME TypeInv, LoggerInv, [Next]_vars PROVE LoggerInv'
  OBVIOUS
<1>0. TypeInv'
  BY TypeInvStep
<1>1. CASE \E p \in Producers : Start(p) \/ Producer(p)
  BY <1>0, <1>1, QuietSteps, SendCases, SendStep, WaitStep DEF Producer
<1>2. CASE Worker \/ FailPeriodicFlush
  BY <1>0, <1>2, ReceiveStep, WriteStep, FlushStep, FailStep, LeaveLoopStep, ExitStep DEF Worker
<1>3. CASE Finish \/ NewDay \/ UNCHANGED vars
  BY <1>0, <1>3, OtherSteps
<1>. QED BY <1>1, <1>2, <1>3 DEF Next

LEMMA LoggerInvariant == Spec => [](TypeInv /\ LoggerInv)
<1>. QED BY TypeInvInit, LoggerInvInit, TypeInvStep, LoggerInvStep, PTL DEF Spec

\* The files of a broker never have a hole and never change the order in which the
\* receiver threads' records were accepted, however many threads append and
\* whichever write fails.
THEOREM LogsHaveNoHole == Spec => []LogHasNoHole
<1>1. TypeInv /\ LoggerInv => LogHasNoHole
  <2> SUFFICES ASSUME TypeInv, LoggerInv, NEW b \in Brokers PROVE IsPrefix(log[b], accepted[b])
    BY DEF LogHasNoHole
  <2>1. /\ Len(log[b]) <= Len(accepted[b])
        /\ \A k \in DOMAIN log[b] : log[b][k] = accepted[b][k]
    BY DEF LoggerInv, LogInv, WrittenInOrder
  <2>2. log[b] \in Seq(Record) /\ accepted[b] \in Seq(Record)
    BY DEF TypeInv, TypeOK
  <2>3. SubSeq(log[b], 1, Len(log[b])) = SubSeq(accepted[b], 1, Len(log[b]))
    BY <2>1, <2>2
  <2>. QED BY <2>1, <2>3 DEF IsPrefix
<1>. QED BY <1>1, LoggerInvariant, PTL

\* A record whose append_durable returned Ok, which is what the receiver
\* acknowledges to the EA, stays on stable storage.
THEOREM ConfirmedRecordsAreSafe == Spec => []ConfirmedIsSafe
<1>1. LoggerInv => ConfirmedIsSafe
  BY DEF LoggerInv, AnswerInv
<1>. QED BY <1>1, LoggerInvariant, PTL

\* A flush() answered with Ok has made safe every record accepted before it.
THEOREM FlushesCoverAccepted == Spec => []FlushCoversAccepted
<1>1. LoggerInv => FlushCoversAccepted
  BY DEF LoggerInv, AnswerInv
<1>. QED BY <1>1, LoggerInvariant, PTL

\* finish() after the producers are joined leaves nothing behind, unless a write
\* failed.
THEOREM AcceptedRecordsAreWritten == Spec => []AcceptedIsWritten
<1>1. TypeInv /\ LoggerInv => AcceptedIsWritten
  <2> SUFFICES ASSUME TypeInv, LoggerInv, worker = "exited", ~fault, NEW b \in Brokers
               PROVE  log[b] = accepted[b] /\ synced[b] = Len(log[b])
    BY DEF AcceptedIsWritten
  <2>1. Len(log[b]) = Len(accepted[b]) /\ synced[b] = Len(log[b])
    BY DEF LoggerInv, LogInv, NothingLeft, Working
  <2>2. \A k \in DOMAIN log[b] : log[b][k] = accepted[b][k]
    BY DEF LoggerInv, LogInv, WrittenInOrder
  <2>3. log[b] \in Seq(Record) /\ accepted[b] \in Seq(Record)
    BY DEF TypeInv, TypeOK
  <2>. QED BY <2>1, <2>2, <2>3
<1>. QED BY <1>1, LoggerInvariant, PTL


-----------------------------------------------------------------------------
(* The reserved bytes.                                                       *)

\* queued_bytes covers every record on its way to the worker's release; what a
\* closed channel drops with its records stays reserved for good.
BytesInv ==
  /\ queued_bytes >= ChannelBytes + ReservedBytes + HandledBytes
  /\ open => queued_bytes = ChannelBytes + ReservedBytes + HandledBytes

\* The threads are listed without repetition, each of them once.
LEMMA ThreadFacts ==
  /\ Cardinality(Producers) \in Nat
  /\ Threads \in [1 .. Cardinality(Producers) -> Producers]
  /\ \A i, j \in 1 .. Cardinality(Producers) : Threads[i] = Threads[j] => i = j
  /\ \A p \in Producers : \E i \in 1 .. Cardinality(Producers) : Threads[i] = p
<1> DEFINE N == Cardinality(Producers)
<1>1. N \in Nat /\ ExistsBijection(1 .. N, Producers) /\ IsFiniteSet(Producers)
  BY AsyncLoggerAssumption, FS_CardinalityType
<1>2. PICK f \in [1 .. N -> Producers] : IsInjective(f)
  BY <1>1 DEF ExistsBijection, Bijection, Injection
<1>3. Threads \in [1 .. N -> Producers] /\ IsInjective(Threads)
  BY <1>2 DEF Threads, SetToSeq
<1>4. Threads \in Injection(1 .. N, Producers)
  BY <1>3 DEF Injection
<1>5. Cardinality(1 .. N) = N
  BY <1>1, FS_Interval
<1>6. Threads \in Surjection(1 .. N, Producers)
  BY <1>1, <1>4, <1>5, FS_Injection
<1>. QED BY <1>1, <1>3, <1>6 DEF IsInjective, Surjection

LEMMA RecordBytesType ==
  ASSUME NEW c \in Calls
  PROVE  RecordBytes(c) \in Nat
<1>1. c.op = "append" => c.bytes \in Sizes
  BY CallFacts DEF AppendCalls
<1>. QED BY <1>1, AsyncLoggerAssumption DEF RecordBytes

\* The sizes of the commands in a channel.
LEMMA ChannelSizes ==
  ASSUME NEW q \in Seq(Calls), NEW sizes, sizes = [i \in DOMAIN q |-> RecordBytes(q[i])]
  PROVE  /\ sizes \in Seq(Nat) /\ Len(sizes) = Len(q) /\ Len(q) \in Nat
         /\ \A i \in 1 .. Len(q) : sizes[i] = RecordBytes(q[i])
<1>1. DOMAIN q = 1 .. Len(q) /\ Len(q) \in Nat
  OBVIOUS
<1>2. \A i \in 1 .. Len(q) : RecordBytes(q[i]) \in Nat
  <2> SUFFICES ASSUME NEW i \in 1 .. Len(q) PROVE RecordBytes(q[i]) \in Nat
    OBVIOUS
  <2>1. q[i] \in Calls
    OBVIOUS
  <2>. QED BY <2>1, RecordBytesType
<1>3. sizes = [i \in 1 .. Len(q) |-> RecordBytes(q[i])]
  BY <1>1
<1>4. sizes \in [1 .. Len(q) -> Nat]
  BY <1>2, <1>3
<1>. QED BY <1>1, <1>3, <1>4

\* A command joins the channel, or its oldest command leaves.
LEMMA ChannelGrows ==
  ASSUME NEW q \in Seq(Calls), NEW c \in Calls
  PROVE  TotalOf([i \in DOMAIN Append(q, c) |-> RecordBytes(Append(q, c)[i])])
           = TotalOf([i \in DOMAIN q |-> RecordBytes(q[i])]) + RecordBytes(c)
<1> DEFINE longer == Append(q, c)
           sizes == [i \in DOMAIN q |-> RecordBytes(q[i])]
           more == [i \in DOMAIN longer |-> RecordBytes(longer[i])]
<1>1. /\ longer \in Seq(Calls) /\ Len(longer) = Len(q) + 1 /\ longer[Len(q) + 1] = c
      /\ \A i \in 1 .. Len(q) : longer[i] = q[i]
  OBVIOUS
<1> HIDE DEF longer
<1>2. /\ sizes \in Seq(Nat) /\ Len(sizes) = Len(q) /\ Len(q) \in Nat
      /\ \A i \in 1 .. Len(q) : sizes[i] = RecordBytes(q[i])
  BY ChannelSizes
<1>3. /\ more \in Seq(Nat) /\ Len(more) = Len(longer)
      /\ \A i \in 1 .. Len(longer) : more[i] = RecordBytes(longer[i])
  BY <1>1, ChannelSizes
<1> HIDE DEF sizes, more
<1>4. Len(more) = Len(sizes) + 1 /\ \A i \in 1 .. Len(sizes) : more[i] = sizes[i]
  BY <1>1, <1>2, <1>3
<1>5. TotalOf(more) = TotalOf(sizes) + more[Len(sizes) + 1]
  BY <1>2, <1>3, <1>4, TotalGrows
<1>6. more[Len(sizes) + 1] = RecordBytes(c)
  BY <1>1, <1>2, <1>3
<1>. QED BY <1>5, <1>6 DEF more, sizes, longer

LEMMA ChannelShrinks ==
  ASSUME NEW q \in Seq(Calls), q # << >>
  PROVE  TotalOf([i \in DOMAIN q |-> RecordBytes(q[i])])
           = RecordBytes(Head(q)) + TotalOf([i \in DOMAIN Tail(q) |-> RecordBytes(Tail(q)[i])])
<1> DEFINE rest == Tail(q)
           sizes == [i \in DOMAIN q |-> RecordBytes(q[i])]
           fewer == [i \in DOMAIN rest |-> RecordBytes(rest[i])]
<1>1. /\ rest \in Seq(Calls) /\ Len(q) = Len(rest) + 1 /\ Len(rest) \in Nat /\ Head(q) = q[1]
      /\ \A i \in 1 .. Len(rest) : rest[i] = q[i + 1] /\ i + 1 \in 1 .. Len(q)
  OBVIOUS
<1> HIDE DEF rest
<1>2. /\ sizes \in Seq(Nat) /\ Len(sizes) = Len(q)
      /\ \A i \in 1 .. Len(q) : sizes[i] = RecordBytes(q[i])
  BY ChannelSizes
<1>3. /\ fewer \in Seq(Nat) /\ Len(fewer) = Len(rest)
      /\ \A i \in 1 .. Len(rest) : fewer[i] = RecordBytes(rest[i])
  BY <1>1, ChannelSizes
<1> HIDE DEF sizes, fewer
<1>4. \A i \in 1 .. Len(fewer) : fewer[i] = sizes[i + 1]
  <2> SUFFICES ASSUME NEW i \in 1 .. Len(rest) PROVE fewer[i] = sizes[i + 1]
    BY <1>3
  <2>1. fewer[i] = RecordBytes(rest[i]) /\ rest[i] = q[i + 1] /\ i + 1 \in 1 .. Len(q)
    BY <1>1, <1>3
  <2>. QED BY <2>1, <1>2
<1>5. TotalOf(sizes) = sizes[1] + TotalOf(fewer)
  BY <1>1, <1>2, <1>3, <1>4, TotalShrinks
<1>6. sizes[1] = RecordBytes(Head(q))
  BY <1>1, <1>2
<1>. QED BY <1>5, <1>6 DEF sizes, fewer, rest

\* A step of one producer changes no other producer's share of the reserved bytes.
LEMMA OneShareChanges ==
  ASSUME NEW f \in [Producers -> Nat], NEW g \in [Producers -> Nat], NEW p \in Producers,
         \A q \in Producers \ {p} : g[q] = f[q]
  PROVE  TotalOf([i \in DOMAIN Threads |-> g[Threads[i]]]) + f[p]
           = TotalOf([i \in DOMAIN Threads |-> f[Threads[i]]]) + g[p]
<1> DEFINE s == [i \in DOMAIN Threads |-> f[Threads[i]]]
           t == [i \in DOMAIN Threads |-> g[Threads[i]]]
<1>1. PICK N \in Nat : N = Cardinality(Producers)
  BY ThreadFacts
<1>2. Threads \in [1 .. N -> Producers]
  BY <1>1, ThreadFacts
<1>3. /\ s \in [1 .. N -> Nat] /\ t \in [1 .. N -> Nat]
      /\ \A i \in 1 .. N : s[i] = f[Threads[i]] /\ t[i] = g[Threads[i]]
  BY <1>2
<1>4. PICK k \in 1 .. N : Threads[k] = p
  BY <1>1, ThreadFacts
<1>5. \A i \in 1 .. N : i # k => Threads[i] \in Producers \ {p}
  BY <1>1, <1>2, <1>4, ThreadFacts
<1> HIDE DEF s, t
<1>6. s \in Seq(Nat) /\ t \in Seq(Nat) /\ Len(s) = N /\ Len(t) = N
  <2>1. \A x \in [1 .. N -> Nat] : x \in Seq(Nat) /\ Len(x) = N
    OBVIOUS
  <2>. QED BY <1>3, <2>1
<1>7. \A i \in 1 .. N : i # k => t[i] = s[i]
  BY <1>3, <1>5
<1>8. TotalOf(t) + s[k] = TotalOf(s) + t[k]
  BY <1>6, <1>7, TotalMoves
<1>. QED BY <1>3, <1>4, <1>8 DEF s, t

SharesTypeOK ==
  /\ \A p \in Producers : Reserved(p) \in Nat
  /\ ChannelBytes \in Nat /\ ReservedBytes \in Nat /\ HandledBytes \in Nat

LEMMA SharesType == TypeInv => SharesTypeOK
<1> SUFFICES ASSUME TypeInv PROVE SharesTypeOK
  OBVIOUS
<1>1. \A p \in Producers : Reserved(p) \in Nat
  BY RecordBytesType DEF Reserved, TypeInv, TypeOK
<1>2. ChannelBytes \in Nat
  <2>1. channel \in Seq(Calls)
    BY DEF TypeInv, TypeOK
  <2>2. [i \in DOMAIN channel |-> RecordBytes(channel[i])] \in Seq(Nat)
    BY <2>1, ChannelSizes
  <2>. QED BY <2>2, TotalType DEF ChannelBytes
<1>3. ReservedBytes \in Nat
  <2>1. PICK N \in Nat : N = Cardinality(Producers)
    BY ThreadFacts
  <2>2. Threads \in [1 .. N -> Producers]
    BY <2>1, ThreadFacts
  <2>3. [i \in DOMAIN Threads |-> Reserved(Threads[i])] \in [1 .. N -> Nat]
    BY <1>1, <2>2
  <2>4. [i \in DOMAIN Threads |-> Reserved(Threads[i])] \in Seq(Nat)
    BY <2>3
  <2>. QED BY <2>4, TotalType DEF ReservedBytes
<1>4. HandledBytes \in Nat
  <2>1. worker = "append" => command \in Calls /\ command.op = "append"
    BY DEF TypeInv, TypeOK, CommandFits
  <2>2. worker = "append" => command.bytes \in Nat
    BY <2>1, RecordBytesType DEF RecordBytes
  <2>. QED BY <2>2 DEF HandledBytes
<1>. QED BY <1>1, <1>2, <1>3, <1>4 DEF SharesTypeOK

LEMMA SharesTypeNext == TypeInv' => SharesTypeOK'
  BY SharesType, PTL

LEMMA ShareChanges ==
  ASSUME TypeInv, TypeInv', NEW p \in Producers,
         \A q \in Producers \ {p} : pc'[q] = pc[q] /\ call'[q] = call[q]
  PROVE  ReservedBytes' + Reserved(p) = ReservedBytes + Reserved(p)'
<1> DEFINE f == [q \in Producers |-> Reserved(q)]
           g == [q \in Producers |-> Reserved(q)']
<1>1. f \in [Producers -> Nat]
  BY SharesType DEF SharesTypeOK
<1>2. \A q \in Producers : Reserved(q)' \in Nat
  BY SharesTypeNext DEF SharesTypeOK
<1>3. g \in [Producers -> Nat]
  BY <1>2
<1>4. \A q \in Producers \ {p} : g[q] = f[q]
  BY DEF Reserved
<1>5. \A i \in DOMAIN Threads : Threads[i] \in Producers
  BY ThreadFacts
<1>6. /\ ReservedBytes = TotalOf([i \in DOMAIN Threads |-> f[Threads[i]]])
      /\ ReservedBytes' = TotalOf([i \in DOMAIN Threads |-> g[Threads[i]]])
  <2>1. \A i \in DOMAIN Threads : f[Threads[i]] = Reserved(Threads[i])
    BY <1>5
  <2>2. \A i \in DOMAIN Threads : g[Threads[i]] = Reserved(Threads[i])'
    BY <1>5
  <2> HIDE DEF f, g
  <2>3. [i \in DOMAIN Threads |-> f[Threads[i]]] = [i \in DOMAIN Threads |-> Reserved(Threads[i])]
    BY <2>1
  <2>4. [i \in DOMAIN Threads |-> g[Threads[i]]] = [i \in DOMAIN Threads |-> Reserved(Threads[i])']
    BY <2>2
  <2>. QED BY <2>3, <2>4 DEF ReservedBytes
<1>7. f[p] = Reserved(p) /\ g[p] = Reserved(p)'
  OBVIOUS
<1> HIDE DEF f, g
<1>8. TotalOf([i \in DOMAIN Threads |-> g[Threads[i]]]) + f[p]
        = TotalOf([i \in DOMAIN Threads |-> f[Threads[i]]]) + g[p]
  BY <1>1, <1>3, <1>4, OneShareChanges
<1>. QED BY <1>6, <1>7, <1>8, Zenon

LEMMA BytesInvInit == Init => BytesInv
<1> SUFFICES ASSUME Init PROVE BytesInv
  OBVIOUS
<1>1. TypeInv
  BY TypeInvInit
<1>2. ChannelBytes = 0
  <2>1. channel = << >>
    BY DEF Init
  <2>2. [i \in DOMAIN channel |-> RecordBytes(channel[i])] = << >>
    BY <2>1
  <2>. QED BY <2>2, TotalEmpty DEF ChannelBytes
<1>3. ReservedBytes = 0
  <2>1. PICK N \in Nat : N = Cardinality(Producers)
    BY ThreadFacts
  <2>2. Threads \in [1 .. N -> Producers]
    BY <2>1, ThreadFacts
  <2>3. \A p \in Producers : Reserved(p) = 0
    BY DEF Init, Reserved
  <2> DEFINE s == [i \in DOMAIN Threads |-> Reserved(Threads[i])]
             zeros == [i \in 1 .. N |-> 0]
  <2>4. s = zeros
    BY <2>2, <2>3
  <2>5. TotalOf(zeros) = 0
    BY <2>1, TotalZero
  <2>. QED BY <2>4, <2>5, Zenon DEF ReservedBytes
<1>4. HandledBytes = 0
  BY DEF Init, HandledBytes
<1>5. queued_bytes = 0
  BY DEF Init
<1>. QED BY <1>2, <1>3, <1>4, <1>5 DEF BytesInv

\* A producer reserves and gives back, and hands what it reserved to the channel.
LEMMA BytesInvProducer ==
  ASSUME TypeInv, TypeInv', BytesInv, NEW p \in Producers, Start(p) \/ Producer(p)
  PROVE  BytesInv'
<1>1. /\ pc \in [Producers -> {"idle", "check", "reserve", "send", "release", "wait"}]
      /\ call \in [Producers -> Calls] /\ channel \in Seq(Calls) /\ queued_bytes \in Int
      /\ call[p] \in Calls
  BY DEF TypeInv, TypeOK
<1>2. \A q \in Producers \ {p} : pc'[q] = pc[q] /\ call'[q] = call[q]
  BY <1>1, SendCases DEF Start, Producer, Check, Reserve, SendAccepted, SendRefused, Release, Wait,
       Goto, Return, GiveUpOrRetry
<1>3. ReservedBytes' + Reserved(p) = ReservedBytes + Reserved(p)'
  BY <1>2, ShareChanges
<1>4. /\ Reserved(p) \in Nat /\ Reserved(p)' \in Nat
      /\ ReservedBytes \in Nat /\ ReservedBytes' \in Nat /\ ChannelBytes \in Nat /\ ChannelBytes' \in Nat
      /\ HandledBytes \in Nat /\ HandledBytes' \in Nat
  BY SharesType, SharesTypeNext DEF SharesTypeOK
<1>5. HandledBytes' = HandledBytes /\ open' = open
  BY SendCases DEF Start, Producer, Check, Reserve, SendAccepted, SendRefused, Release, Wait, shared,
       HandledBytes
<1>6. RecordBytes(call[p]) \in Nat
  BY <1>1, RecordBytesType
<1>r. PICK old \in Nat, new \in Nat : old = Reserved(p) /\ new = Reserved(p)'
  BY <1>4
<1>s. ReservedBytes' = ReservedBytes + new - old
  BY <1>3, <1>4, <1>r
<1>7. CASE Start(p) \/ Check(p) \/ SendRefused(p) \/ Wait(p)
  <2>1. UNCHANGED <<channel, queued_bytes>>
    BY <1>7 DEF Start, Check, SendRefused, Wait, shared
  <2>2. new = old
    <3>1. CASE Start(p) \/ Wait(p)
      BY <1>1, <1>r, <3>1 DEF Start, Wait, Goto, Return, Reserved
    <3>2. CASE Check(p)
      BY <1>1, <1>r, <3>2 DEF Check, Return, Reserved, RecordBytes
    <3>3. CASE SendRefused(p)
      BY <1>1, <1>r, <3>3 DEF SendRefused, Return, Reserved, RecordBytes
    <3>. QED BY <1>7, <3>1, <3>2, <3>3
  <2>3. ChannelBytes' = ChannelBytes
    BY <2>1 DEF ChannelBytes
  <2>. QED BY <1>s, <1>4, <1>5, <2>1, <2>2, <2>3 DEF BytesInv
<1>8. CASE Reserve(p)
  <2>1. channel' = channel /\ call[p].op = "append" /\ RecordBytes(call[p]) = call[p].bytes
    BY <1>8 DEF Reserve, RecordBytes, TypeInv, CallsAreOwn
  <2>2. ChannelBytes' = ChannelBytes
    BY <2>1 DEF ChannelBytes
  <2>3. old = 0
    BY <1>8, <1>r DEF Reserve, Reserved
  <2>4. \/ queued_bytes' = queued_bytes /\ new = 0
        \/ queued_bytes' = queued_bytes + call[p].bytes /\ new = call[p].bytes
    BY <1>1, <1>r, <1>8, <2>1 DEF Reserve, GiveUpOrRetry, Return, Goto, Reserved
  <2>. QED BY <1>1, <1>s, <1>4, <1>5, <1>6, <2>1, <2>2, <2>3, <2>4 DEF BytesInv
<1>9. CASE SendAccepted(p)
  <2>1. channel' = Append(channel, call[p]) /\ queued_bytes' = queued_bytes
    BY <1>9 DEF SendAccepted
  <2>2. old = RecordBytes(call[p]) /\ new = 0
    BY <1>1, <1>r, <1>9 DEF SendAccepted, Reserved, Return
  <2>3. ChannelBytes' = ChannelBytes + old
    BY <1>1, <2>1, <2>2, ChannelGrows DEF ChannelBytes
  <2>4. ReservedBytes' = ReservedBytes - old
    BY <1>s, <1>4, <2>2
  <2>. QED BY <1>1, <1>4, <1>5, <2>1, <2>3, <2>4 DEF BytesInv
<1>10. CASE Release(p)
  <2>1. /\ channel' = channel /\ call[p].op = "append" /\ RecordBytes(call[p]) = call[p].bytes
        /\ queued_bytes' = queued_bytes - call[p].bytes
    BY <1>10 DEF Release, RecordBytes, TypeInv, CallsAreOwn
  <2>2. ChannelBytes' = ChannelBytes
    BY <2>1 DEF ChannelBytes
  <2>3. old = call[p].bytes /\ new = 0
    BY <1>1, <1>r, <1>10, <2>1 DEF Release, GiveUpOrRetry, Return, Reserved
  <2>4. ReservedBytes' = ReservedBytes - old /\ queued_bytes' = queued_bytes - old
    BY <1>s, <1>4, <2>1, <2>3
  <2>. QED BY <1>1, <1>4, <1>5, <2>2, <2>4 DEF BytesInv
<1>. QED BY <1>7, <1>8, <1>9, <1>10, SendCases DEF Producer

\* The worker takes a command from the channel and gives its bytes back.
LEMMA BytesInvWorker ==
  ASSUME TypeInv, TypeInv', BytesInv, Worker \/ FailPeriodicFlush
  PROVE  BytesInv'
<1>1. channel \in Seq(Calls) /\ queued_bytes \in Int /\ command \in Calls
  BY DEF TypeInv, TypeOK
<1>2. /\ ReservedBytes \in Nat /\ ReservedBytes' \in Nat /\ ChannelBytes \in Nat
      /\ ChannelBytes' \in Nat /\ HandledBytes \in Nat /\ HandledBytes' \in Nat
  BY SharesType, SharesTypeNext DEF SharesTypeOK
<1>3. ReservedBytes' = ReservedBytes
  <2>1. UNCHANGED <<pc, call>>
    BY DEF Worker, Receive, Stop, WriteRecord, FailToWrite, Flush, FailToFlush, FailPeriodicFlush,
         LastFlush, Exit, producers
  <2>. QED BY <2>1 DEF ReservedBytes, Reserved
<1>4. CASE Receive
  <2>1. /\ channel # << >> /\ channel' = Tail(channel) /\ command' = Head(channel)
        /\ worker' = Head(channel).op /\ worker = "loop"
        /\ queued_bytes' = queued_bytes /\ open' = open
    BY <1>4 DEF Receive
  <2>2. ChannelBytes = RecordBytes(Head(channel)) + ChannelBytes'
    BY <1>1, <2>1, ChannelShrinks DEF ChannelBytes
  <2>3. HandledBytes = 0 /\ HandledBytes' = RecordBytes(Head(channel))
    BY <2>1 DEF HandledBytes, RecordBytes
  <2>. QED BY <1>1, <1>2, <1>3, <2>1, <2>2, <2>3, SMTT(30) DEF BytesInv
<1>5. CASE WriteRecord \/ FailToWrite
  <2>1. /\ channel' = channel /\ worker = "append" /\ worker' \in {"loop", "last_flush"}
        /\ queued_bytes' = queued_bytes - command.bytes /\ open' = open
    BY <1>5 DEF WriteRecord, FailToWrite
  <2>2. ChannelBytes' = ChannelBytes /\ HandledBytes = command.bytes /\ HandledBytes' = 0
    BY <2>1 DEF ChannelBytes, HandledBytes
  <2>. QED BY <1>1, <1>2, <1>3, <2>1, <2>2 DEF BytesInv
<1>6. CASE Stop \/ Flush \/ FailToFlush \/ FailPeriodicFlush \/ LastFlush
  <2>1. /\ channel' = channel /\ worker # "append" /\ worker' # "append"
        /\ queued_bytes' = queued_bytes /\ open' = open
    BY <1>6 DEF Stop, Flush, FailToFlush, FailPeriodicFlush, LastFlush, shared
  <2>2. ChannelBytes' = ChannelBytes /\ HandledBytes = 0 /\ HandledBytes' = 0
    BY <2>1 DEF ChannelBytes, HandledBytes
  <2>. QED BY <1>1, <1>2, <1>3, <2>1, <2>2 DEF BytesInv
<1>7. CASE Exit
  <2>1. /\ channel' = << >> /\ worker = "exit" /\ worker' = "exited"
        /\ queued_bytes' = queued_bytes /\ open' = FALSE
    BY <1>7 DEF Exit
  <2>2. HandledBytes = 0 /\ HandledBytes' = 0
    BY <2>1 DEF HandledBytes
  <2>3. ChannelBytes' = 0
    <3>1. [i \in DOMAIN << >> |-> RecordBytes(<< >>[i])] = << >>
      OBVIOUS
    <3>. QED BY <2>1, <3>1, TotalEmpty DEF ChannelBytes
  <2>. QED BY <1>1, <1>2, <1>3, <2>1, <2>2, <2>3 DEF BytesInv
<1>. QED BY <1>4, <1>5, <1>6, <1>7 DEF Worker

LEMMA BytesInvStep == TypeInv /\ BytesInv /\ [Next]_vars => BytesInv'
<1> SUFFICES ASSUME TypeInv, BytesInv, [Next]_vars PROVE BytesInv'
  OBVIOUS
<1>1. TypeInv'
  BY TypeInvStep
<1>2. CASE \E p \in Producers : Start(p) \/ Producer(p)
  BY <1>1, <1>2, BytesInvProducer
<1>3. CASE Worker \/ FailPeriodicFlush
  BY <1>1, <1>3, BytesInvWorker
<1>4. CASE Finish \/ NewDay \/ UNCHANGED vars
  <2>1. UNCHANGED <<pc, call, channel, worker, command, queued_bytes, open>>
    BY <1>4 DEF Finish, NewDay, vars, producers, shared
  <2>. QED BY <2>1 DEF BytesInv, ChannelBytes, ReservedBytes, Reserved, HandledBytes
<1>. QED BY <1>2, <1>3, <1>4 DEF Next

\* queued_bytes, the budget that stops the receivers, is exact while the worker
\* lives: it is the size of the records in the channel, of those on either side of
\* it, and of nothing else; and it never becomes negative, which in the code would
\* wrap an unsigned counter.
THEOREM BytesAreAccountedFor == Spec => []BytesAccountedFor
<1>1. TypeInv /\ BytesInv => BytesAccountedFor
  <2> SUFFICES ASSUME TypeInv, BytesInv PROVE BytesAccountedFor
    OBVIOUS
  <2>1. ChannelBytes \in Nat /\ ReservedBytes \in Nat /\ HandledBytes \in Nat /\ queued_bytes \in Int
    BY SharesType DEF SharesTypeOK, TypeInv, TypeOK
  <2>. QED BY <2>1 DEF BytesInv, BytesAccountedFor
<1>. QED BY <1>1, TypeInvInit, TypeInvStep, BytesInvInit, BytesInvStep, PTL DEF Spec
=============================================================================
