---------------------------- MODULE RecordStore ----------------------------
(***************************************************************************)
(* The record store of a session on disk                                   *)
(* (src/include/util/VariableRecordStorePersist.h, VariableRecordStoreBase.h). *)
(*                                                                         *)
(* A record is appended to the last data file, which is left for a new one *)
(* when it is full, and then to the index file, by the data file's number  *)
(* and the offset where the record ends; a record starts where the one     *)
(* before it ends.  Marks are bits of an attribute byte in the index; sets *)
(* in memory mirror them and are rebuilt from them at a restart, after the *)
(* lengths of the data files have been compared with the index, in blocks. *)
(*                                                                         *)
(* Every call holds the store's lock, so an action is one call, and a      *)
(* crash may come in the middle of its writes.  Data is flushed before the *)
(* index but not synchronised: when the machine crashes, files may be cut. *)
(***************************************************************************)
EXTENDS FiniteSetsExt, Integers

CONSTANTS
  Base,         \* m_baseSequence; 0 would underflow in an empty store
  Records,      \* what producers send: [size |-> bytes, flags |-> attribute bits]
  MaxFileSize,  \* m_maxFileSize
  BlockSize,    \* index records that init reads at a time
  MaxCount,     \* bound: records of the store
  MaxFaults     \* bound: crashes, failed writes, and stores that are thrown away

\* Bits of the attribute byte.  A transaction's state is a number in bits 3 to 5.
DELETED == 1
REMOTE == 2
EXPIRED == 3
COMMIT == 4
TransState(attr) == (IF 3 \in attr THEN 1 ELSE 0) + (IF 4 \in attr THEN 2 ELSE 0)

ASSUME StoreAssumption ==
  /\ Base \in Nat \ {0} /\ MaxFileSize \in Nat \ {0} /\ BlockSize \in Nat \ {0}
  /\ MaxCount \in Nat /\ MaxFaults \in Nat
  /\ Records \subseteq [size : 1 .. MaxFileSize, flags : SUBSET {DELETED, REMOTE, COMMIT}]

VARIABLES
  running,   \* is the store open?
  fileCount, \* m_dataFileCount
  deleted,   \* m_deletedSequenceSet
  remote,    \* m_remoteSequenceSet
  expired,   \* m_expiredSequenceSet
  trans,     \* m_transactionSequences, 0 where there is none
  early,     \* m_notDeleteSequenceSet: deletions of records that are still to come
  index,     \* the index file: "none", "started" or "ready", and its end
  count,     \* complete records of the index file, m_recordCount while running
  recs,      \* these records: [file, off, attr]
  length,    \* of each data file
  place,     \* history: where each record's bytes are, and what it was added with
  told,      \* history: what markDeleted was told and must remember
  aged,      \* history: records that were marked expired
  dropped,   \* history: of these, the ones that are not in expired since a restart
  clean,     \* history: no crash has cut or torn a file
  short,     \* history: a failed write, or one that was given up, may have left bytes
  faults

memory == <<fileCount, deleted, remote, expired, trans, early>>
disk == <<index, count, recs, length>>
history == <<place, told, aged, dropped, clean, short>>
vars == <<running, memory, disk, history, faults>>

Seqs == Base .. Base + count - 1
Files == 0 .. MaxCount + MaxFaults
ABSENT == -1

-----------------------------------------------------------------------------
(* Data files *)

\* Mutant: the new record is forgotten when the file's size is checked.
RollsLate(size) == length[fileCount - 1] >= MaxFileSize

\* addToDataFile: does the record go to a new file?
Rolls(size) == length[fileCount - 1] + size > MaxFileSize

Target(size) == IF Rolls(size) THEN fileCount ELSE fileCount - 1
Start(size) == IF Rolls(size) THEN 0 ELSE length[fileCount - 1]

\* n bytes are appended; a new file is truncated, should it exist.
Appended(size, n) == [length EXCEPT ![Target(size)] = Start(size) + n]

\* Where the record before ends, and which file it is in.
Before(s) == IF s = Base THEN [file |-> 0, off |-> 0]
             ELSE [file |-> recs[s - 1].file, off |-> recs[s - 1].off]

\* Mutant: a record starts where the one before it ends, in whatever file.
RegionRunsOn(s) ==
  [file |-> recs[s].file,
   from |-> Before(s).off,
   to   |-> recs[s].off]

\* readSingleMessageBuffer, getMany...: the bytes of a record, by the index.
Region(s) ==
  [file |-> recs[s].file,
   from |-> IF Before(s).file = recs[s].file THEN Before(s).off ELSE 0,
   to   |-> recs[s].off]

-----------------------------------------------------------------------------
(* init *)

Last == Base + count - 1
LastFile == Before(Last + 1).file

\* Records are read in blocks; a block whose first and last record are in one file
\* is skipped, and with it the end of the file before.
BlockStart(s) == s - ((s - Base) % BlockSize)
BlockEnd(s) == Min({BlockStart(s) + BlockSize - 1, Last})
Skipped(s) == recs[BlockStart(s)].file = recs[BlockEnd(s)].file

\* validateDataFile
EndsAsIndexed(r) == length[r.file] = r.off

\* Mutant: the last file is not compared with the index.
LengthsMatchButLast ==
  \A s \in Seqs : Before(s).file # recs[s].file /\ ~Skipped(s) => EndsAsIndexed(Before(s))

LengthsMatch ==
  /\ \A s \in Seqs : Before(s).file # recs[s].file /\ ~Skipped(s) => EndsAsIndexed(Before(s))
  /\ EndsAsIndexed(Before(Last + 1))

\* Mutant: the number of files is taken for the number of the last one.
DataFilesExistAndOne == \A f \in 0 .. LastFile + 1 : length[f] # ABSENT

DataFilesExist == \A f \in 0 .. LastFile - 1 : length[f] # ABSENT

IsNew == index = "none" /\ length[0] = ABSENT
Exists == index # "none" /\ length[0] # ABSENT
CanOpen ==
  \/ IsNew
  \/ Exists /\ index = "started"
  \/ index = "ready" /\ length[0] # ABSENT /\ DataFilesExist /\ LengthsMatch

\* rebuildInfoFromIndex
Marked(bit) == {s \in Seqs : bit \in recs[s].attr}

NoRecords == [s \in {} |-> 0]

Init ==
  /\ running = FALSE /\ fileCount = 1
  /\ deleted = {} /\ remote = {} /\ expired = {} /\ early = {} /\ trans = NoRecords
  /\ index = "none" /\ count = 0 /\ recs = NoRecords
  /\ length = [f \in Files |-> ABSENT]
  /\ place = NoRecords /\ told = {} /\ aged = {} /\ dropped = {}
  /\ clean = TRUE /\ short = FALSE /\ faults = 0

Open ==
  /\ ~running /\ CanOpen
  /\ running' = TRUE
  /\ index' = "ready"
  /\ length' = IF IsNew THEN [length EXCEPT ![0] = 0] ELSE length
  /\ fileCount' = LastFile + 1
  /\ deleted' = Marked(DELETED) /\ remote' = Marked(REMOTE)
  /\ trans' = [s \in Seqs |-> TransState(recs[s].attr)]
  /\ expired' = {} /\ early' = {}
  /\ dropped' = aged
  /\ UNCHANGED <<count, recs, place, told, aged, clean, short, faults>>

\* The index file is created, and got its header or not, but there is no data file.
TornCreate ==
  /\ ~running /\ IsNew /\ faults < MaxFaults
  /\ index' \in {"started", "ready"}
  /\ clean' = FALSE /\ faults' = faults + 1
  /\ UNCHANGED <<running, memory, count, recs, length, place, told, aged, dropped, short>>

\* The history of a store that begins anew.
Forgotten == place' = NoRecords /\ told' = {} /\ aged' = {} /\ dropped' = {}

\* init without append: the index file is truncated, and the first data file.
Recreate ==
  /\ ~running /\ Exists
  /\ faults < MaxFaults /\ faults' = faults + 1
  /\ running' = TRUE
  /\ fileCount' = 1
  /\ deleted' = {} /\ remote' = {} /\ trans' = NoRecords /\ expired' = {} /\ early' = {}
  /\ index' = "ready" /\ count' = 0 /\ recs' = NoRecords
  /\ length' = [length EXCEPT ![0] = 0]
  /\ Forgotten /\ clean' = TRUE /\ short' = FALSE

\* The same up to the index file or its header: the data file still has its bytes.
TornRecreate ==
  /\ ~running /\ Exists
  /\ faults < MaxFaults /\ faults' = faults + 1
  /\ index' \in {"started", "ready"} /\ count' = 0 /\ recs' = NoRecords
  /\ Forgotten /\ clean' = FALSE /\ short' = (index' = "started")
  /\ UNCHANGED <<running, memory, length>>

-----------------------------------------------------------------------------
(* Calls *)

\* Mutant: a deletion that came before its record is forgotten.
AttrForgets(flags, s) == flags

\* addMessageAttribute: a deletion may have come before its record.
Attr(flags, s) == flags \cup IF s \in early THEN {DELETED} ELSE {}

add(r) ==
  LET s == Base + count
      attr == Attr(r.flags, s)
      with(f, x) == [t \in Seqs \cup {s} |-> IF t = s THEN x ELSE f[t]]
      end == Start(r.size) + r.size
  IN
  /\ running /\ count < MaxCount
  /\ fileCount' = Target(r.size) + 1
  /\ length' = Appended(r.size, r.size)
  /\ count' = count + 1
  /\ recs' = with(recs, [file |-> Target(r.size), off |-> end, attr |-> attr])
  /\ place' = with(place, [file |-> Target(r.size), from |-> Start(r.size), to |-> end, flags |-> r.flags])
  /\ trans' = with(trans, TransState(attr))
  /\ remote' = IF REMOTE \in attr THEN remote \cup {s} ELSE remote
  /\ deleted' = IF DELETED \in attr THEN deleted \cup {s} ELSE deleted
  /\ early' = early \ {s}
  /\ UNCHANGED <<running, expired, index, told, aged, dropped, clean, short, faults>>

\* writeToDataFile throws when the disk is full; what was written stays.
ShortWrite(r) ==
  /\ running /\ count < MaxCount /\ faults < MaxFaults
  /\ fileCount' = Target(r.size) + 1
  /\ \E n \in 0 .. r.size - 1 : length' = Appended(r.size, n)
  /\ short' = TRUE /\ clean' = FALSE /\ faults' = faults + 1
  /\ UNCHANGED <<running, deleted, remote, expired, trans, early, index, count, recs,
                 place, told, aged, dropped>>

\* Mutant: the byte is replaced by the mark.
MarkAlone(from, to, bit) ==
  recs' = [s \in Seqs |-> IF s \in from .. to THEN [recs[s] EXCEPT !.attr = {bit}] ELSE recs[s]]

\* markAttribute
Mark(from, to, bit) ==
  recs' = [s \in Seqs |-> IF s \in from .. to THEN [recs[s] EXCEPT !.attr = @ \cup {bit}] ELSE recs[s]]

markDeleted(from, to) ==
  /\ running
  /\ Mark(from, to, DELETED)
  /\ deleted' = deleted \cup (from .. to \cap Seqs)
  /\ early' = early \cup (from .. to \ Seqs)
  /\ told' = told \cup from .. to
  /\ UNCHANGED <<running, fileCount, remote, expired, trans, index, count, length,
                 place, aged, dropped, clean, short, faults>>

markExpired(from, to) ==
  /\ running /\ from \in Seqs
  /\ Mark(from, to, EXPIRED)
  /\ expired' = expired \cup (from .. to \cap Seqs)
  /\ aged' = aged \cup (from .. to \cap Seqs) /\ dropped' = dropped \ from .. to
  /\ UNCHANGED <<running, fileCount, deleted, remote, trans, early, index, count, length,
                 place, told, clean, short, faults>>

-----------------------------------------------------------------------------
(* Crashes *)

\* The process ends; deletions of records to come are only in memory.
Ends ==
  /\ running /\ faults < MaxFaults /\ faults' = faults + 1
  /\ running' = FALSE
  /\ fileCount' = 1
  /\ deleted' = {} /\ remote' = {} /\ expired' = {} /\ early' = {} /\ trans' = NoRecords
  /\ dropped' = {}

Crash ==
  /\ Ends
  /\ told' = told \cap Seqs
  /\ UNCHANGED <<disk, place, aged, clean, short>>

\* The destructor with deleteOnExit, perhaps cut: first the index file goes, then the
\* data files, of which the first ones are gone.
Remove ==
  /\ Ends
  /\ \E gone \in 0 .. fileCount :
       /\ length' = [f \in Files |-> IF f < gone THEN ABSENT ELSE length[f]]
       /\ clean' = (gone > 0)
  /\ index' = "none" /\ count' = 0 /\ recs' = NoRecords
  /\ Forgotten /\ short' = FALSE

\* In add: a new file was opened, part of the record or all of it was written, and
\* perhaps part of the index record.
TornAdd(r) ==
  /\ Ends /\ count < MaxCount
  /\ \E n \in 0 .. r.size :
       /\ length' = Appended(r.size, n)
       /\ index' \in IF n = r.size THEN {"ready", "torn"} ELSE {"ready"}
       /\ clean' = (clean /\ (n = 0 \/ (Rolls(r.size) /\ index' = "ready")))
  /\ told' = told \cap Seqs
  /\ UNCHANGED <<count, recs, place, aged, short>>

\* In markAttribute: some records of the range were marked.
TornMark(from, to, bit) ==
  /\ Ends /\ from .. to \subseteq Seqs
  /\ Mark(from, to, bit)
  /\ told' = (told \cap Seqs) \cup IF bit = DELETED THEN from .. to ELSE {}
  /\ aged' = aged \cup IF bit = EXPIRED THEN from .. to ELSE {}
  /\ UNCHANGED <<index, count, length, place, clean, short>>

\* The machine crashes: a data file and the index file may have lost their ends.
PowerLoss ==
  /\ Ends
  /\ \E f \in 0 .. fileCount - 1, c \in 0 .. count :
       /\ \E n \in 0 .. length[f] : length' = [length EXCEPT ![f] = n]
       /\ count' = c
       /\ recs' = [s \in Base .. Base + c - 1 |-> recs[s]]
       /\ place' = [s \in Base .. Base + c - 1 |-> place[s]]
       /\ told' = told \cap Base .. Base + c - 1
       /\ aged' = aged \cap Base .. Base + c - 1
  /\ clean' = FALSE
  /\ UNCHANGED <<index, short>>

Ranges == {p \in (Base .. Base + MaxCount - 1) \X (Base .. Base + MaxCount - 1) : p[1] <= p[2]}

Next ==
  \/ Open \/ TornCreate \/ Recreate \/ TornRecreate
  \/ Crash \/ PowerLoss \/ Remove
  \/ \E r \in Records : add(r) \/ ShortWrite(r) \/ TornAdd(r)
  \/ \E p \in Ranges : markDeleted(p[1], p[2]) \/ markExpired(p[1], p[2])
  \/ \E p \in Ranges, bit \in {DELETED, EXPIRED} : TornMark(p[1], p[2], bit)

Spec == Init /\ [][Next]_vars

-----------------------------------------------------------------------------
(* Properties *)

Regions == [file : Files, from : Nat, to : Nat]

\* Types.  No data file grows over its limit.
TypeOK ==
  /\ running \in BOOLEAN /\ clean \in BOOLEAN /\ short \in BOOLEAN
  /\ index \in {"none", "started", "ready", "torn"}
  /\ count \in 0 .. MaxCount /\ faults \in 0 .. MaxFaults
  /\ fileCount \in 1 .. MaxCount + MaxFaults + 1
  /\ length \in [Files -> ABSENT .. MaxFileSize]
  /\ recs \in [Seqs -> [file : Files, off : 1 .. MaxFileSize, attr : SUBSET {1, 2, 3, 4}]]
  /\ deleted \subseteq Seqs /\ remote \subseteq Seqs /\ expired \subseteq Seqs

\* An open store reads each record from where its bytes are, and the file still
\* has them, after crashes in the middle of add and after files were cut; it refuses
\* to open rather than return other bytes (init, addToDataFile, readSingleMessageBuffer).
\* Bytes that a failed write left, or a store that was thrown away in part, may come in
\* front of a record.
ReadsBack ==
  running =>
    \A s \in Seqs :
      LET read == Region(s)
          kept == place[s]
      IN  /\ read.file = kept.file /\ read.to = kept.to
          /\ IF short THEN read.from <= kept.from ELSE read.from = kept.from
          /\ length[kept.file] >= kept.to

\* Marks stay what the callers asked for.  Those of deleted and remote records are in
\* memory as long as the store is open, across restarts, also a deletion that came before
\* its record, and a transaction's state unless the record was marked expired.  The mark
\* of an expired record is only in the index across a restart, of an open or a closed
\* store: expired is not rebuilt from it, and has what was marked since the store was
\* opened (markDeleted, markExpired, addMessageAttribute, rebuildInfoFromIndex).
MarksAreKept ==
  /\ \A s \in Seqs : EXPIRED \in recs[s].attr <=> s \in aged
  /\ running =>
       /\ deleted = {s \in Seqs : s \in told \/ DELETED \in place[s].flags}
       /\ remote = {s \in Seqs : REMOTE \in place[s].flags}
       /\ expired = aged \ dropped
       /\ \A s \in Seqs \ aged : trans[s] = TransState(place[s].flags)

\* A store that was not damaged opens again: after a crash between calls, in the
\* middle of a mark, or in an add that had only just begun a new data file.
CleanReopens == ~running /\ clean => CanOpen
=============================================================================
