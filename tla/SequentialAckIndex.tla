------------------------- MODULE SequentialAckIndex -------------------------
(***************************************************************************)
(* The sequential acknowledgement index of one consumer of a session store *)
(* (src/include/util/SequentialAckIndexFile.h).                            *)
(*                                                                         *)
(* A sequential consumer acknowledges the records of each level in order,  *)
(* so the index is one cursor per level.  The durable variant keeps them   *)
(* in a file of one slot with its CRC per level behind a header; a file of *)
(* the first version of the program, one cursor for all levels, is turned  *)
(* into the new format when it is opened.                                  *)
(*                                                                         *)
(* Calls come under the store's lock, so an action is one call.  A crash   *)
(* may tear the file write of a call: the CRCs are there for that.         *)
(***************************************************************************)
EXTENDS FiniteSetsExt

CONSTANTS
  Base,         \* m_baseSequence
  Levels,       \* the levels that producers use
  MaxCount,     \* bound: records of the store
  MaxRestarts   \* bound: crashes

MAX_LEVEL == 9

ASSUME SequentialAssumption ==
  /\ Base \in Nat
  /\ Levels \subseteq 0 .. MAX_LEVEL
  /\ MaxCount \in Nat /\ MaxRestarts \in Nat

VARIABLES
  durable,   \* m_isDurable
  standby,   \* may an acknowledgement arrive before its record?
  up,        \* is the index open?
  count,     \* records of the store
  stored,    \* the level of each of them
  known,     \* m_currentRecordCount
  cursor,    \* m_multiAckRecord: acknowledged records of a level, as a count
  file,      \* the .SAI file
  acked,     \* history: the last sequence acknowledged of each level
  torn,      \* history: has a write been torn?
  restarts

role == <<durable, standby>>
vars == <<role, up, count, stored, known, cursor, file, acked, torn, restarts>>

-----------------------------------------------------------------------------
(* The store, and the file *)

Seqs == Base .. Base + count - 1
Everyone(n) == [l \in Levels |-> n]

HEAD_SIZE == 10
RECORD_SIZE == 12
OLD_LENGTH == 12
VERSION11_FILELENGTH == HEAD_SIZE + RECORD_SIZE * 10

BAD == -1  \* a slot whose CRC does not match

\* length; does it start with version 1.1; the slots; the cursor of an old file
NoFile == [len |-> 0, header |-> FALSE, slot |-> Everyone(BAD), old |-> BAD]
OldFile(n) == [NoFile EXCEPT !.len = OLD_LENGTH, !.old = n]
Generated(c) == [len |-> VERSION11_FILELENGTH, header |-> TRUE, slot |-> c, old |-> BAD]

SlotEnd(l) == HEAD_SIZE + RECORD_SIZE * (l + 1)

\* Mutant: the seek forgets the header and hits the middle of a slot.
WrittenAcross(f, l, n) == [f EXCEPT !.len = Max({@, SlotEnd(l)}), !.slot[l] = BAD]

\* writeRecord: a seek behind the end of the file leaves a hole, without a header.
Written(f, l, n) == [f EXCEPT !.len = Max({@, SlotEnd(l)}), !.slot[l] = n]

\* readVersion1_1 takes any file that has a 1 in one half of the version.
Readable(f) == f.header /\ \A l \in Levels : f.slot[l] # BAD

\* Slots before the first bad one, in the order of levels, have been taken over.
\* clearBadFile then resets them and leaves an empty file.
Cleared == [file |-> NoFile, cursor |-> Everyone(0)]

\* Mutant: a cursor of the old format is not limited by the store.
OldCursorUncapped(f, n) == f.old

\* readOldVersion
OldCursor(f, n) == Min({f.old, n})

\* init of the durable variant: what it leaves in the file and in the cursors.
IsOldFile(f) == f.len > 0 /\ count > 0
Opened(f) ==
  IF ~IsOldFile(f) THEN [file |-> Generated(Everyone(0)), cursor |-> Everyone(0)]
  ELSE IF f.len = OLD_LENGTH
    THEN LET c == IF f.old = BAD THEN Everyone(0) ELSE Everyone(OldCursor(f, count))
         IN  [file |-> Generated(c), cursor |-> c]
  ELSE IF f.len = VERSION11_FILELENGTH
    THEN IF Readable(f) THEN [file |-> f, cursor |-> f.slot] ELSE Cleared
  ELSE [file |-> Generated(Everyone(0)), cursor |-> Everyone(0)]

\* Does init write the file anew?
Regenerates(f) == ~(IsOldFile(f) /\ f.len = VERSION11_FILELENGTH)

\* What a crash can leave of a file that is written from its start.
TornFiles == {[NoFile EXCEPT !.len = n, !.header = (n >= 2)] : n \in {0, 1, 12, 13, 70}}

-----------------------------------------------------------------------------
(* Operations *)

CountFor(s) == s - Base + 1

Init ==
  /\ durable \in BOOLEAN /\ standby \in BOOLEAN
  /\ up = FALSE /\ cursor = Everyone(0) /\ known = 0 /\ torn = FALSE /\ restarts = 0
  /\ count \in 0 .. MaxCount /\ stored \in [Seqs -> Levels]
  /\ \/ /\ file = NoFile
        /\ acked = Everyone(Base - 1)
     \/ \E n \in 0 .. MaxCount + 1 :
          /\ durable
          /\ file = OldFile(n)
          /\ acked = Everyone(Base - 1 + Min({n, count}))

\* init
Open ==
  /\ ~up
  /\ up' = TRUE /\ known' = count
  /\ IF durable
       THEN /\ file' = Opened(file).file
            /\ cursor' = Opened(file).cursor
            /\ UNCHANGED acked
       ELSE /\ cursor' = Everyone(count)
            /\ acked' = Everyone(Base - 1 + count)
            /\ UNCHANGED file
  /\ UNCHANGED <<role, count, stored, torn, restarts>>

\* generateFile truncates the file before it writes it: a crash in between.
TornOpen ==
  /\ ~up /\ durable /\ restarts < MaxRestarts
  /\ Regenerates(file)
  /\ file' \in TornFiles
  /\ torn' = TRUE /\ restarts' = restarts + 1
  /\ UNCHANGED <<role, up, count, stored, known, cursor, acked>>

\* The store gets a record, and then the index is told.
StoreAdd(l) ==
  /\ up /\ count < MaxCount
  /\ count' = count + 1
  /\ stored' = [s \in Seqs \cup {Base + count} |-> IF s \in Seqs THEN stored[s] ELSE l]
  /\ UNCHANGED <<role, up, known, cursor, file, acked, torn, restarts>>

addRecord ==
  /\ up /\ known # count
  /\ known' = count
  /\ UNCHANGED <<role, up, count, stored, cursor, file, acked, torn, restarts>>

\* The acknowledgements that may arrive: of a record, at its level, and on a
\* standby also of one that is still to come, at the level the primary sends.
Ackable(l, s) == IF s \in Seqs THEN stored[s] = l ELSE standby

Acked(l, s) == acked' = [acked EXCEPT ![l] = Max({@, s})]

\* Mutant: acknowledgements are taken in whatever order they come.
ackRecordAnyOrder(l, s) ==
  /\ up /\ Ackable(l, s)
  /\ Acked(l, s)
  /\ cursor' = [cursor EXCEPT ![l] = CountFor(s)]
  /\ file' = IF durable THEN Written(file, l, CountFor(s)) ELSE file
  /\ UNCHANGED <<role, up, count, stored, known, torn, restarts>>

\* Mutant: an acknowledgement moves the cursor in memory only.
ackRecordUnwritten(l, s) ==
  /\ up /\ Ackable(l, s)
  /\ Acked(l, s)
  /\ cursor' = [cursor EXCEPT ![l] = Max({@, CountFor(s)})]
  /\ UNCHANGED <<role, up, count, stored, known, file, torn, restarts>>

\* ackRecord: a cursor only moves forward, and its slot is rewritten.
ackRecord(l, s) ==
  /\ up /\ Ackable(l, s)
  /\ Acked(l, s)
  /\ \/ /\ CountFor(s) > cursor[l]
        /\ cursor' = [cursor EXCEPT ![l] = CountFor(s)]
        /\ file' = IF durable THEN Written(file, l, CountFor(s)) ELSE file
     \/ CountFor(s) <= cursor[l] /\ UNCHANGED <<cursor, file>>
  /\ UNCHANGED <<role, up, count, stored, known, torn, restarts>>

\* A crash in the middle of a slot's write; at the end of the file it is cut off.
TornAck(l, s) ==
  /\ up /\ durable /\ restarts < MaxRestarts
  /\ Ackable(l, s) /\ CountFor(s) > cursor[l]
  /\ \/ /\ file.len >= SlotEnd(l)
        /\ file' = [file EXCEPT !.slot[l] = BAD]
     \/ /\ file.len < SlotEnd(l)
        /\ \E n \in {2, 6} : file' = [file EXCEPT !.len = Max({@, SlotEnd(l) - RECORD_SIZE + n})]
  /\ up' = FALSE /\ cursor' = Everyone(0) /\ known' = 0
  /\ torn' = TRUE /\ restarts' = restarts + 1
  /\ UNCHANGED <<role, count, stored, acked>>

\* A crash between calls.  The store comes back with all its records, as after the end
\* of the process; what a crash of the machine may take from it is not modelled.
Crash ==
  /\ up /\ restarts < MaxRestarts
  /\ up' = FALSE /\ cursor' = Everyone(0) /\ known' = 0
  /\ restarts' = restarts + 1
  /\ UNCHANGED <<role, count, stored, acked, file, torn>>

Next ==
  \/ Open
  \/ TornOpen
  \/ \E l \in Levels : StoreAdd(l)
  \/ addRecord
  \/ \E l \in Levels, s \in Base .. Base + MaxCount - 1 : ackRecord(l, s) \/ TornAck(l, s)
  \/ Crash

Spec == Init /\ [][Next]_vars

-----------------------------------------------------------------------------
(* Queries *)

\* Mutant: the first record behind the cursor counts as acknowledged.
isRecordAckedOneMore(l, s) == s <= cursor[l] + 1

isRecordAcked(l, s) == s <= cursor[l]

\* validateFile
Valid(f) ==
  \/ f.len = 0
  \/ f.len = OLD_LENGTH /\ f.old # BAD
  \/ f.len = VERSION11_FILELENGTH /\ f.header /\ \A l \in Levels : f.slot[l] # BAD

-----------------------------------------------------------------------------
(* Properties *)

FileType ==
  [len : 0 .. VERSION11_FILELENGTH, header : BOOLEAN,
   slot : [Levels -> BAD .. MaxCount], old : BAD .. MaxCount + 1]

\* Types.
TypeOK ==
  /\ durable \in BOOLEAN /\ standby \in BOOLEAN /\ up \in BOOLEAN /\ torn \in BOOLEAN
  /\ count \in 0 .. MaxCount /\ known \in 0 .. MaxCount
  /\ stored \in [Seqs -> Levels]
  /\ cursor \in [Levels -> 0 .. MaxCount]
  /\ file \in FileType
  /\ restarts \in 0 .. MaxRestarts

Answer(s) == isRecordAcked(stored[s], s)

\* A record is never taken for acknowledged that its consumer has not reached:
\* it would never be delivered.  Whatever is torn
\* (init, readOldVersion, readVersion1_1, ackRecord).
NoInventedAck == up => \A s \in Seqs : Answer(s) => s <= acked[stored[s]]

\* On a primary, as long as no write has been torn, restarts and the change of the
\* format lose no acknowledgement either.  An index that is not durable takes all
\* records that it finds for acknowledged (init).
AnswersAreExact ==
  up /\ ~torn /\ ~standby => \A s \in Seqs : Answer(s) <=> s <= acked[stored[s]]

\* A running index never goes back, whatever the order of the acknowledgements.
NeverGoesBack == [][up /\ up' => \A l \in Levels : cursor'[l] >= cursor[l]]_vars

\* As long as no write has been torn, an open index's file is one that its own
\* validateFile accepts and that holds the cursors in memory.
FileIsTheIndex ==
  up /\ durable /\ ~torn =>
    /\ Valid(file)
    /\ file.len = VERSION11_FILELENGTH
    /\ file.slot = cursor
=============================================================================
