------------------------------- MODULE LogFile -------------------------------
(***************************************************************************)
(* One raw-log file: what encode_record and create_file_header of          *)
(* storage/tlog_writer.rs put into it, what a crash or a failing disk      *)
(* leaves of it, and what LogFileReader::next_record of                    *)
(* storage/tlog_reader.rs reads back.                                      *)
(*                                                                         *)
(* A record is EnvelopeLen cells of envelope (length, kind, index and      *)
(* checksum) and a payload; the file is the sequence of the cells after    *)
(* the file header.  The reader's position counts cells, as the read_exact *)
(* of a file moves it: a read that hits the end has consumed what was left.*)
(***************************************************************************)
EXTENDS Integers, Sequences, FiniteSets, SequencesExt

CONSTANTS
  EnvelopeLen,    \* RECORD_ENVELOPE_LEN, in cells; the length is in the first one
  PayloadLens,    \* payload lengths of the records, in cells
  MaxRecords      \* records written before the crash

VARIABLES
  written,      \* payload lengths of the records appended so far
  on_disk,      \* how many cells of them reached the file; written out when open
  writing,      \* TRUE until the writer stops or crashes
  damaged,      \* 0, or the one cell whose content the disk changed
  file_position,\* position of the reader
  index,        \* LogFileReader.current_index
  returned,     \* the records next_record returned, in order
  ending        \* its answer that was not a record, or "none"

logFileVars == <<written, on_disk, writing, damaged, file_position, index, returned, ending>>

\* encode_record: the cells of record k.
EncodeRecord(k) == [place \in 1..(EnvelopeLen + written[k]) |-> <<k, place>>]

Cells == FlattenSeq([k \in DOMAIN written |-> EncodeRecord(k)])

LogFileInit ==
  /\ written = <<>>
  /\ on_disk = 0
  /\ writing = TRUE
  /\ damaged = 0
  /\ file_position = 0
  /\ index = 0
  /\ returned = <<>>
  /\ ending = "none"

WriteRecord ==
  /\ writing
  /\ Len(written) < MaxRecords
  /\ \E n \in PayloadLens : written' = Append(written, n)
  /\ UNCHANGED <<on_disk, writing, damaged, file_position, index, returned, ending>>

\* The process ends: BufWriter wrote any prefix of what was appended, and the
\* disk may have changed one cell of it.
StopOrCrash ==
  /\ writing
  /\ writing' = FALSE
  /\ on_disk' \in 0..Len(Cells)
  /\ damaged' \in 0..on_disk'
  /\ UNCHANGED <<written, file_position, index, returned, ending>>

Remaining == on_disk - file_position

\* Where read_exact leaves the position when fewer than n cells are there.
ReadExactEnd(n) == IF Remaining >= n THEN file_position + n ELSE on_disk

\* next_record while the envelope is cut: the position is compared with the end
\* of the file after read_exact has taken the cells that were there.
EnvelopeCut ==
  /\ Remaining < EnvelopeLen
  /\ ending' = IF ReadExactEnd(EnvelopeLen) = on_disk THEN "clean" ELSE "truncated"
  /\ file_position' = on_disk
  /\ UNCHANGED <<index, returned>>

At == Cells[file_position + 1]
RecordLen == EnvelopeLen + written[At[1]]
Holds(cell, first, n) == first < cell /\ cell <= first + n

\* A damaged length field: below the envelope, or any other length.
LengthDamaged == damaged = file_position + 1

\* Mutant: the checksum is not compared.
NotVerified(n) == n = RecordLen
\* The checksum covers every cell of the record, its own field apart.
Verified(n) == n = RecordLen /\ ~Holds(damaged, file_position, n)

ReadRecord(n) ==
  LET after == file_position + EnvelopeLen
      end == file_position + n
  IN IF n < EnvelopeLen
     THEN /\ ending' = "corrupt"
          /\ file_position' = after
          /\ UNCHANGED <<index, returned>>
     ELSE IF on_disk < end
     THEN /\ ending' = "truncated"
          /\ file_position' = on_disk
          /\ UNCHANGED <<index, returned>>
     ELSE /\ file_position' = end
          /\ IF Verified(n)
             THEN /\ returned' = Append(returned, At[1])
                  /\ index' = index + 1
                  /\ UNCHANGED ending
             ELSE /\ ending' = "corrupt"
                  /\ UNCHANGED <<index, returned>>

\* LogFileReader::next_record: a consumer stops at the first answer that is not
\* a record, as the callers in tests/storage_test.rs do.
NextRecord ==
  /\ ~writing
  /\ ending = "none"
  /\ \/ EnvelopeCut
     \/ /\ Remaining >= EnvelopeLen
        /\ \E n \in IF LengthDamaged THEN 0..(3 * EnvelopeLen) \ {RecordLen}
                    ELSE {RecordLen} : ReadRecord(n)
  /\ UNCHANGED <<written, on_disk, writing, damaged>>

ReaderDone ==
  /\ ending # "none"
  /\ UNCHANGED logFileVars

LogFileNext == WriteRecord \/ StopOrCrash \/ NextRecord \/ ReaderDone

LogFileSpec == LogFileInit /\ [][LogFileNext]_logFileVars

LogFileLimits == EnvelopeLen \in Nat \ {0} /\ PayloadLens \subseteq Nat /\ MaxRecords \in Nat

-----------------------------------------------------------------------------
\* The reader's counter counts the records it returned, and its position stays
\* inside the file.
LogFileTypeOK ==
  /\ on_disk \in 0..Len(Cells)
  /\ file_position \in 0..on_disk
  /\ index = Len(returned)
  /\ ending \in {"none", "clean", "truncated", "corrupt"}

\* Where record k ends in the file.
EndOf(k) == Len(FlattenSeq([j \in 1..k |-> EncodeRecord(j)]))

\* The records that lie wholly on the disk, before any damage.
WholeRecords ==
  {k \in DOMAIN written : EndOf(k) <= on_disk /\ (damaged = 0 \/ EndOf(k) < damaged)}

\* Whatever the crash and the disk left, reading returns the records that are
\* whole, from the first and in order, every one of them before it ends, and
\* never one that was cut or changed (length, truncation and checksum tests of
\* next_record).
WholeRecordsReadBack ==
  /\ \A i \in DOMAIN returned : returned[i] = i /\ i \in WholeRecords
  /\ ending # "none" => Len(returned) = Cardinality(WholeRecords)

\* Whatever a crash or the disk left of a log file, the reader returns its whole records,
\* in order, up to the cut or the damage, and stays inside the file (LogFileReader,
\* tlog_reader.rs).
LogFileCorrect == LogFileTypeOK /\ WholeRecordsReadBack
=============================================================================
