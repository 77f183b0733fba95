---------------------------- MODULE TerminalManager ----------------------------
(***************************************************************************)
(* Starting and stopping MT5 terminals (src/src/runtime/terminal_manager.rs)  *)
(* from the dashboard's buttons and at start-up (main.rs).  Processes come    *)
(* and go without TickScope; the manager knows them from its last scan.  A    *)
(* path is an executable of Exes.  Processes are numbered; reuse of a number  *)
(* by the system is left out.                                                *)
(***************************************************************************)
EXTENDS Naturals, Functions

CONSTANTS
  Explicit,        (* broker -> its configured terminal_path, or NoExe         *)
  Discovered,      (* broker -> executable of its discovered terminal, or NoExe*)
  MaxPid           (* bound: processes                                         *)

VARIABLES
  installed,       (* external: the executables there are                      *)
  process,         (* external: pid -> its executable while it runs, or NoExe  *)
  started,         (* history: pid -> executable it was started from           *)
  known_exe,       (* broker_terminals                                         *)
  status_cache,    (* broker -> pid, Stopped or NotFound                       *)
  closers          (* pid -> where its stop thread is: "none", "close", "wait";*)
                   (* it has "ended", or the system "refused" one of its calls *)

managerVars == <<installed, process, started, known_exe, status_cache, closers>>

TerminalBrokers == DOMAIN Explicit
NoExe == "no exe"
Exes == {Explicit[b] : b \in TerminalBrokers} \cup {Discovered[b] : b \in TerminalBrokers}
Pids == 1 .. MaxPid
Stopped == 0
NotFound == MaxPid + 1
Unused == {p \in Pids : started[p] = NoExe}

ManagerInit ==
  /\ installed \in SUBSET (Exes \ {NoExe})
  /\ process = [p \in Pids |-> NoExe] /\ started = process
  /\ known_exe = [b \in TerminalBrokers |-> NoExe]
  /\ status_cache = [b \in TerminalBrokers |-> NotFound]
  /\ closers = [p \in Pids |-> "none"]

-----------------------------------------------------------------------------

\* resolve_terminal_path: the configured file, or the discovered terminal.
Resolved(b) == IF Explicit[b] \in installed THEN Explicit[b]
               ELSE IF Discovered[b] \in installed THEN Discovered[b] ELSE NoExe

\* Mutant: what was resolved once is kept.
ResolveOnce(b) == known_exe[b] = NoExe
NeedsResolution(b) ==
  \/ known_exe[b] = NoExe
  \/ Explicit[b] # NoExe /\ known_exe[b] # Explicit[b]

ExeAfterPoll(b) == IF NeedsResolution(b) THEN Resolved(b) ELSE known_exe[b]

\* The running process that a scan reports for an executable: the last one it meets.
\* It does not see a process it may not ask for its path, and a failed snapshot sees
\* none: the terminal then counts as stopped.
RunningOf(exe, procs) == {p \in Pids : procs[p] = exe}

ScannedStatuses(exes, procs) ==
  {cache \in [TerminalBrokers -> 0 .. MaxPid + 1] :
     \A b \in TerminalBrokers :
       \/ exes[b] = NoExe /\ cache[b] = NotFound
       \/ exes[b] # NoExe /\ cache[b] = Stopped
       \/ exes[b] # NoExe /\ cache[b] \in RunningOf(exes[b], procs)}

\* poll_status; the throttle only delays it.
Poll ==
  /\ known_exe' = [b \in TerminalBrokers |-> ExeAfterPoll(b)]
  /\ status_cache' \in ScannedStatuses(known_exe', process)
  /\ UNCHANGED <<installed, process, started, closers>>

\* Launch (header.rs, broker_overview.rs): for every target whose status is Stopped
\* the executable known for it is started, then a forced poll follows.  A failed
\* start changes nothing.
Launch(targets) ==
  /\ targets # {} /\ \A b \in targets : status_cache[b] = Stopped
  /\ \E pid \in Injection({b \in targets : known_exe[b] \in installed}, Unused) :
       LET launched(p) == {b \in DOMAIN pid : pid[b] = p}
           with(procs) == [p \in Pids |-> IF launched(p) = {} THEN procs[p]
                                         ELSE known_exe[CHOOSE b \in launched(p) : TRUE]]
       IN process' = with(process) /\ started' = with(started)
  /\ known_exe' = [c \in TerminalBrokers |-> ExeAfterPoll(c)]
  /\ status_cache' \in ScannedStatuses(known_exe', process')
  /\ UNCHANGED <<installed, closers>>

\* stop: a detached thread for the pid of the last scan, and another one when the
\* first was refused.  Two at a time for one process are left out.
Stop(b) ==
  /\ status_cache[b] \in Pids /\ closers[status_cache[b]] \in {"none", "refused"}
  /\ closers' = [closers EXCEPT ![status_cache[b]] = "close"]
  /\ UNCHANGED <<installed, process, started, known_exe, status_cache>>

-----------------------------------------------------------------------------
(* stop_terminal_process_async.  A process whose termination the system has   *)
(* accepted counts as gone.                                                   *)

Closer(p, from, to) == closers[p] = from /\ closers' = [closers EXCEPT ![p] = to]

\* WM_CLOSE, then OpenProcess.  The thread returns without a word for any null
\* handle: the process is gone, or the system does not let TickScope have it.
PostClose(p) ==
  /\ IF process[p] = NoExe THEN Closer(p, "close", "ended")
     ELSE Closer(p, "close", "wait") \/ Closer(p, "close", "refused")
  /\ UNCHANGED <<installed, process, started, known_exe, status_cache>>

ProcessExited(p) ==
  /\ process[p] = NoExe
  /\ Closer(p, "wait", "ended")
  /\ UNCHANGED <<installed, process, started, known_exe, status_cache>>

\* Any result of the wait but WAIT_TIMEOUT is taken for an exit, a failure too.
WaitFails(p) ==
  /\ process[p] # NoExe
  /\ Closer(p, "wait", "refused")
  /\ UNCHANGED <<installed, process, started, known_exe, status_cache>>

\* Mutant: the time-out is only logged.
LeftRunning(p) == process
Terminated(p) == [process EXCEPT ![p] = NoExe]

\* TerminateProcess; its result is not looked at.
WaitTimesOut(p) ==
  /\ process[p] # NoExe
  /\ \/ Closer(p, "wait", "ended") /\ process' = Terminated(p)
     \/ Closer(p, "wait", "refused") /\ UNCHANGED process
  /\ UNCHANGED <<installed, started, known_exe, status_cache>>

\* External: a terminal ends or is started by the user, an executable is installed
\* or removed.
OutsideWorld ==
  /\ \/ /\ \E p \in Pids : process[p] # NoExe /\ process' = [process EXCEPT ![p] = NoExe]
        /\ UNCHANGED <<installed, started>>
     \/ /\ Unused # {}
        /\ \E exe \in installed :
             LET p == CHOOSE q \in Unused : TRUE
             IN process' = [process EXCEPT ![p] = exe] /\ started' = [started EXCEPT ![p] = exe]
        /\ UNCHANGED installed
     \/ /\ \E exe \in Exes \ {NoExe} :
             installed' = IF exe \in installed THEN installed \ {exe} ELSE installed \cup {exe}
        /\ UNCHANGED <<process, started>>
  /\ UNCHANGED <<known_exe, status_cache, closers>>

ManagerNext ==
  \/ Poll \/ OutsideWorld
  \/ \E targets \in SUBSET TerminalBrokers : Launch(targets)
  \/ \E b \in TerminalBrokers : Stop(b)
  \/ \E p \in Pids : PostClose(p) \/ ProcessExited(p) \/ WaitFails(p) \/ WaitTimesOut(p)

ManagerSpec == ManagerInit /\ [][ManagerNext]_managerVars
-----------------------------------------------------------------------------

ManagerLimits == MaxPid \in Nat

ManagerTypeOK ==
  /\ process \in [Pids -> Exes \cup {NoExe}]
  /\ known_exe \in [TerminalBrokers -> Exes \cup {NoExe}]
  /\ status_cache \in [TerminalBrokers -> 0 .. MaxPid + 1]
  /\ closers \in [Pids -> {"none", "close", "wait", "ended", "refused"}]

\* What a Stop button would close is a process of the executable the manager has
\* resolved for that broker, also after another path was resolved for it.
StopHitsOwnTerminal ==
  \A b \in TerminalBrokers :
    status_cache[b] \in Pids => started[status_cache[b]] = known_exe[b]

\* A stop the system refused nothing leaves no process behind when its thread has run
\* to its end, whether or not the terminal reacts to WM_CLOSE ("graceful termination
\* with timeout fallback", terminal_manager.rs), also when an earlier stop of the same
\* process was refused.  A refused call leaves the terminal running, unreported.
StopTakesEffect == \A p \in Pids : closers[p] = "ended" => process[p] = NoExe

\* What TickScope does to a terminal: a stop is for the terminal of its own broker and
\* no other, and ends it unless the system refuses a call (TerminalManager::stop).
ManagerCorrect == ManagerTypeOK /\ StopHitsOwnTerminal /\ StopTakesEffect

\* A configured executable that exists is the one a poll leaves in use, also when
\* it appears after the discovered one was resolved.
ExplicitPathWins ==
  known_exe' # known_exe \/ status_cache' # status_cache
    => \A b \in TerminalBrokers :
         Explicit[b] \in installed => known_exe'[b] = Explicit[b]

\* No poll leaves another executable in use while the configured one exists
\* (TerminalManager::poll).
ExplicitPathIsUsed == [][ExplicitPathWins]_managerVars
=============================================================================
