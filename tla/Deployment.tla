------------------------------- MODULE Deployment -------------------------------
(***************************************************************************)
(* Deployment of the collector EA into one terminal's data folder             *)
(* (src/src/deploy): three source files and the connection map are written if *)
(* they differ, the EA is compiled if anything changed or its output is not   *)
(* current, and the EA reads the map while TickScope may be rewriting it.     *)
(* TickScope may be killed between any two steps.  A file is what it contains *)
(* - a version, or nothing while it is being written - and when it was        *)
(* written.                                                                  *)
(***************************************************************************)
EXTENDS Integers, SequencesExt

CONSTANTS
  SourceNames,     (* TickCollector.mq5, Protocol.mqh, SocketClient.mqh        *)
  MaxVersion,      (* bound: versions of TickScope's copy of the sources       *)
  MaxEpoch         (* bound: starts of TickScope                               *)

VARIABLES
  files,           (* source -> [content, written]                             *)
  ex5,             (* the compiled EA: [built_from, written]                   *)
  connection_map,  (* [epoch in its header, Empty or Absent; complete: END line] *)
  files_clock,     (* the file system's clock                                  *)
  release,         (* version of each source this start of TickScope deploys   *)
  start,           (* session_epoch of this start                              *)
  deployer,        (* where the deployment is                                  *)
  results,         (* FileDeployResults that are Created or Updated            *)
  ea_settings      (* g_session_epoch and g_connection_ready                   *)

deployVars == <<files, ex5, connection_map, files_clock, release, start, deployer,
                results, ea_settings>>

Absent == -1
Empty == 0
NoFile == [content |-> Absent, written |-> Absent]
Order == SetToSeq(SourceNames)

DeployInit ==
  /\ files = [f \in SourceNames |-> NoFile]
  /\ ex5 = [built_from |-> [f \in SourceNames |-> Absent], written |-> Absent]
  /\ connection_map = [epoch |-> Absent, complete |-> FALSE]
  /\ files_clock = 1
  /\ release = [f \in SourceNames |-> 1]
  /\ start = 1 /\ deployer = [at |-> "next", file |-> 1]
  /\ results = {} /\ ea_settings = [epoch |-> Absent, ready |-> FALSE]

-----------------------------------------------------------------------------
(* deploy_to_terminal and deploy_file_idempotent.                             *)

File == Order[deployer.file]
AfterFile == IF deployer.file = Len(Order) THEN [at |-> "map", file |-> 1]
             ELSE [at |-> "next", file |-> deployer.file + 1]

SkipIdentical ==
  /\ deployer.at = "next" /\ files[File].content = release[File]
  /\ deployer' = AfterFile
  /\ UNCHANGED <<files, ex5, connection_map, files_clock, release, start, results, ea_settings>>

\* fs::write truncates the file and then writes it.
TruncateFile ==
  /\ deployer.at = "next" /\ files[File].content # release[File]
  /\ files' = [files EXCEPT ![File] = [content |-> Empty, written |-> files_clock]]
  /\ deployer' = [deployer EXCEPT !.at = "write"]
  /\ UNCHANGED <<ex5, connection_map, files_clock, release, start, results, ea_settings>>

WriteFile ==
  /\ deployer.at = "write"
  /\ files' = [files EXCEPT ![File] = [content |-> release[File], written |-> files_clock]]
  /\ results' = results \cup {File}
  /\ deployer' = AfterFile
  /\ UNCHANGED <<ex5, connection_map, files_clock, release, start, ea_settings>>

\* A file that cannot be read or written fails the compilation later, not the
\* deployment of the other files.
FailFile ==
  /\ deployer.at \in {"next", "write"}
  /\ results' = results \cup {"failed"}
  /\ deployer' = AfterFile
  /\ UNCHANGED <<files, ex5, connection_map, files_clock, release, start, ea_settings>>

\* connection_map_contents names the start, so the map always differs.  It is
\* truncated and then written from its header to its END line.
TruncateMap ==
  /\ deployer.at = "map"
  /\ connection_map' = [epoch |-> Empty, complete |-> FALSE]
  /\ deployer' = [deployer EXCEPT !.at = "write_map"]
  /\ UNCHANGED <<files, ex5, files_clock, release, start, results, ea_settings>>

MapDone == deployer' = [deployer EXCEPT !.at = "compile"]

WriteMap ==
  /\ deployer.at = "write_map"
  /\ \/ /\ connection_map.epoch = Empty
        /\ connection_map' = [connection_map EXCEPT !.epoch = start] /\ UNCHANGED deployer
     \/ connection_map' = [epoch |-> start, complete |-> TRUE] /\ MapDone
  /\ UNCHANGED <<files, ex5, files_clock, release, start, results, ea_settings>>

FailMap ==
  /\ deployer.at \in {"map", "write_map"}
  /\ results' = results \cup {"failed"} /\ MapDone
  /\ UNCHANGED <<files, ex5, connection_map, files_clock, release, start, ea_settings>>

-----------------------------------------------------------------------------
(* compile_deployed_ea.                                                       *)

\* Mutant: an output that exists is taken for current.
OutputExists == ex5.written # Absent
OutputIsCurrent ==
  ex5.written # Absent /\ \A f \in SourceNames : files[f].content # Absent
                                                 /\ files[f].written <= ex5.written

FinishDeployment(status) == deployer' = [at |-> status, file |-> 1]

\* MetaEditor is external: it may be missing, fail, or report success, and in
\* either case may have written the output or not.
Compile ==
  /\ deployer.at = "compile"
  /\ UNCHANGED <<files, connection_map, files_clock, release, start, results, ea_settings>>
  /\ \/ /\ "failed" \in results
        /\ FinishDeployment("failed") /\ UNCHANGED ex5
     \/ /\ "failed" \notin results /\ results = {} /\ OutputIsCurrent
        /\ FinishDeployment("up_to_date") /\ UNCHANGED ex5
     \/ /\ "failed" \notin results /\ (results # {} \/ ~OutputIsCurrent)
        /\ ex5' \in {ex5, [ built_from |-> [f \in SourceNames |-> files[f].content],
                            written |-> files_clock ]}
        /\ \E success \in BOOLEAN :
             FinishDeployment(IF success /\ OutputIsCurrent' THEN "compiled" ELSE "failed")

\* TickScope is killed, or ends, and is started again, perhaps with other sources
\* (load_source_files).  Restarting takes longer than the clock's resolution.
Restart ==
  /\ start < MaxEpoch
  /\ start' = start + 1
  /\ files_clock' = files_clock + 1
  /\ release' \in [SourceNames -> 1 .. MaxVersion]
  /\ deployer' = [at |-> "next", file |-> 1] /\ results' = {}
  /\ UNCHANGED <<files, ex5, connection_map, ea_settings>>

-----------------------------------------------------------------------------

\* Mutant: the epoch of a header that is not there yet.
EpochTaken ==
  IF connection_map.epoch = Absent THEN ea_settings.epoch ELSE connection_map.epoch
EpochRead ==
  IF connection_map.epoch \in {Absent, Empty} THEN ea_settings.epoch ELSE connection_map.epoch

\* LoadConnectionSettings takes the epoch from the header at once; a map without
\* its END line leaves the EA unconnected.
LoadConnectionSettings ==
  /\ ea_settings' =
       [epoch |-> EpochRead, ready |-> connection_map.complete]
  /\ UNCHANGED <<files, ex5, connection_map, files_clock, release, start, deployer, results>>

DeployNext ==
  \/ SkipIdentical \/ TruncateFile \/ WriteFile \/ FailFile \/ TruncateMap \/ WriteMap
  \/ FailMap \/ Compile \/ Restart \/ LoadConnectionSettings

DeploySpec == DeployInit /\ [][DeployNext]_deployVars
-----------------------------------------------------------------------------

\* There are sources, and "failed" is none of them.
DeployLimits ==
  /\ IsFiniteSet(SourceNames) /\ SourceNames # {} /\ "failed" \notin SourceNames
  /\ MaxVersion \in Nat \ {0} /\ MaxEpoch \in Nat \ {0}

DeployTypeOK ==
  /\ \A f \in SourceNames : files[f].content \in Absent .. MaxVersion
  /\ connection_map.epoch \in Absent .. MaxEpoch
  /\ results \subseteq SourceNames \cup {"failed"}
  /\ ea_settings.epoch \in {Absent} \cup 1 .. MaxEpoch

\* A deployment that reports Compiled or UpToDate leaves an EA that was built from
\* exactly the sources of this start, whatever an earlier one that was killed or
\* could not compile left behind.
ReportedEaIsCurrent ==
  deployer.at \in {"compiled", "up_to_date"} => ex5.built_from = release

\* Deployment of the EA.  A deployment that reports an EA as current has compiled it
\* from the sources it deployed, whatever an earlier one left behind
\* (deploy_to_terminal).
DeploymentCorrect == DeployTypeOK /\ ReportedEaIsCurrent

\* No step takes the EA back to an older epoch, or to one TickScope never wrote.
EpochOnlyGrows ==
  ea_settings'.epoch >= ea_settings.epoch /\ ea_settings'.epoch <= start'

\* The epochs of the EA only grow, whenever it reads the map that TickScope may be
\* writing (LoadConnectionSettings).
EpochsGrow == [][EpochOnlyGrows]_deployVars
=============================================================================
