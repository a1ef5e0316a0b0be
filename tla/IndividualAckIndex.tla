------------------------ MODULE IndividualAckIndex ------------------------
(***************************************************************************)
(* The individual acknowledgement index of one consumer of a session store *)
(* (src/include/util/IndividualAckIndexFile.h), durable variant.           *)
(*                                                                         *)
(* On disk it is an 8-byte header, the first sequence that is not          *)
(* acknowledged, followed by one byte per record.  In memory it is a set   *)
(* of scattered pending records plus one trailing block of pending         *)
(* records [blockStart, blockEnd], 0 standing for "no block".              *)
(*                                                                         *)
(* The owner (AckIndexVariableRecordStore) holds the store's lock around   *)
(* each call, so one action is one call; a crash may fall between any two  *)
(* file writes of a call.  The store itself grows by a separate call, so   *)
(* it may be ahead of the index, and, when AckAhead holds (a standby whose *)
(* index is synchronised faster than its store), behind it.                *)
(***************************************************************************)
EXTENDS FiniteSetsExt

CONSTANTS
  Base,         \* m_baseSequence
  MaxCount,     \* bound: records of the store
  MaxRestarts,  \* bound: crashes
  AckAhead      \* may an acknowledgement arrive before the record does?

ASSUME ConstantsAssumption ==
  /\ Base \in Nat
  /\ MaxCount \in Nat
  /\ MaxRestarts \in Nat
  /\ AckAhead \in BOOLEAN

VARIABLES
  up,          \* is the broker process running with the index open?
  mem,         \* the members of the index object
  file,        \* the contents of the .VRAI file
  storeCount,  \* record count of the session store
  restarts     \* crashes so far

vars == <<up, mem, file, storeCount, restarts>>

-----------------------------------------------------------------------------
(* Data *)

HeaderSize == 8

FRESH == 0
RETRANSMIT == 1
ACKED == 2
Marks == {FRESH, RETRANSMIT, ACKED}

Seqs == Base .. Base + MaxCount - 1
Known(n) == Base .. Base + n - 1
\* Mutant: the count forgets that sequences start at Base, as if always at 0.
CountForFromZero(s) == s + 1

CountFor(s) == s - Base + 1

NoHeader == -1  \* the header has not been written yet

\* File: header, number of bytes after it, the byte of each record.  A byte at
\* or beyond bodyLen reads as FRESH once something is written behind it.
NoFile == [header |-> NoHeader, bodyLen |-> 0, byte |-> [s \in Seqs |-> FRESH]]

\* Members: count = m_recordCount, first = m_firstNonAckSeq, len =
\* m_currentFileLength - HEADER_SIZE, nonAck = the keys of m_NonAckSet and
\* redeliver = those mapped to true.
Closed == [count |-> 0, first |-> Base, nonAck |-> {}, redeliver |-> {},
           blockStart |-> 0, blockEnd |-> 0, len |-> 0]

Block(m) == IF m.blockStart = 0 THEN {} ELSE m.blockStart .. m.blockEnd
Pending(m) == m.nonAck \cup Block(m)

Larger(a, b) == IF a > b THEN a ELSE b
Smaller(a, b) == IF a < b THEN a ELSE b

-----------------------------------------------------------------------------
(* init *)

\* Mutant: the scan always stops before the last record of the file.
ScannedShort(f, n) == f.header .. Base + Smaller(n, f.bodyLen) - 2

\* The replay of an existing file against a store of n > 0 records.
Scanned(f, n) == f.header .. Base + Smaller(n, f.bodyLen) - 1

\* The records after the last one that is not FRESH form the block.
Trailing(f, n) ==
  {s \in Scanned(f, n) : \A t \in Scanned(f, n) : t >= s => f.byte[t] = FRESH}

\* A file shorter than the store leaves the rest of the store in the block; the
\* scan then ended at the file's end, so that part always continues the tail.
Replay(f, n) ==
  LET tail      == Trailing(f, n)
      scattered == {s \in Scanned(f, n) \ tail : f.byte[s] # ACKED}
      missing   == n > f.bodyLen
  IN  [count      |-> n,
       first      |-> IF f.header - Base < f.bodyLen
                        THEN Smaller(f.header, Base + n) ELSE f.header,
       nonAck     |-> scattered,
       redeliver  |-> {s \in scattered : f.byte[s] = RETRANSMIT},
       blockStart |-> IF tail # {} THEN Min(tail)
                      ELSE IF missing THEN Base + f.bodyLen ELSE 0,
       blockEnd   |-> IF tail # {} \/ missing THEN Base + n - 1 ELSE 0,
       len        |-> f.bodyLen]

\* A new file, or any file when the store is empty: only the header is written.
FileLength(f) == IF f.header = NoHeader THEN 0 ELSE HeaderSize + f.bodyLen

Fresh(f, n) ==
  [count |-> n, first |-> Base, nonAck |-> {}, redeliver |-> {},
   blockStart |-> IF n = 0 THEN 0 ELSE Base,
   blockEnd   |-> IF n = 0 THEN 0 ELSE Base + n - 1,
   len        |-> FileLength(f)]

IsOldFile(f, n) == f.header # NoHeader /\ n > 0

InitMem(f, n) == IF IsOldFile(f, n) THEN Replay(f, n) ELSE Fresh(f, n)
InitFile(f, n) == IF IsOldFile(f, n) THEN f ELSE [f EXCEPT !.header = Base]

-----------------------------------------------------------------------------
(* addRecord, ackRecord and markRetransmit as functions of members and file *)

NextSeq(m) == Base + m.count
NothingPending(m) == m.nonAck = {} /\ m.blockStart = 0
IsNew(m, s) == CountFor(s) > m.count

\* The block is extended only when its end is two past the next sequence, which
\* never happens: in practice each addRecord moves the block into the set.
AddMem(m, s) ==
  IF IsNew(m, s)
    THEN LET extends == m.blockStart # 0 /\ m.blockEnd = NextSeq(m) + 1
         IN  [m EXCEPT !.count = CountFor(s),
                       !.first = IF NothingPending(m) THEN NextSeq(m) ELSE @,
                       !.nonAck = IF extends THEN @ ELSE Pending(m),
                       !.blockStart = IF extends THEN @ ELSE NextSeq(m),
                       !.blockEnd = s,
                       !.len = @ + CountFor(s) - m.count]
    ELSE [m EXCEPT !.len = Larger(@, CountFor(s))]

\* fillByte appends at the end of the file, wherever that is.
Added(m, s) ==
  IF IsNew(m, s) THEN CountFor(s) - m.count ELSE Larger(m.len, CountFor(s)) - m.len

\* Mutant: the header follows every new record, not only when none is pending.
AddHeaderAlways(m, f, s) ==
  IF IsNew(m, s) THEN [f EXCEPT !.header = NextSeq(m)] ELSE f

AddHeader(m, f, s) ==
  IF IsNew(m, s) /\ NothingPending(m) THEN [f EXCEPT !.header = NextSeq(m)] ELSE f

AddFile(m, f, s) == [AddHeader(m, f, s) EXCEPT !.bodyLen = @ + Added(m, s)]

\* ackRecord and markRetransmit first make an unknown record known.
Grown(m, s) == IF IsNew(m, s) THEN AddMem(m, s) ELSE m
GrownFile(m, f, s) == IF IsNew(m, s) THEN AddFile(m, f, s) ELSE f

WriteByte(f, s, mark) ==
  [header  |-> f.header,
   bodyLen |-> Larger(f.bodyLen, CountFor(s)),
   byte    |-> [f.byte EXCEPT ![s] = mark]]

\* Mutant: the block is not reset when its last record is cut off.
CutBlockNoReset(m, s) ==
  [m EXCEPT !.nonAck = @ \cup (m.blockStart .. s - 1), !.blockStart = s + 1]

\* Cut the block after s: what precedes s is scattered now.
CutBlock(m, s) ==
  [m EXCEPT !.nonAck = @ \cup (m.blockStart .. s - 1),
            !.blockStart = IF s = m.blockEnd THEN 0 ELSE s + 1,
            !.blockEnd = IF s = m.blockEnd THEN 0 ELSE @]

\* Mutant: the block is forgotten, as when only the set is searched.
FirstPendingOfSet(m, nonAck) ==
  IF nonAck # {} THEN Min(nonAck) ELSE Base + m.count

\* The first pending record, or one past the last record.
FirstPending(m, nonAck) ==
  IF nonAck # {} THEN Min(nonAck)
  ELSE IF m.blockStart = 0 THEN Base + m.count ELSE m.blockStart

\* Mutant: a retransmit mark outlives the record's acknowledgement.
AckMemKeepsMark(m, s) ==
  IF s \in Block(m)
    THEN CutBlock(m, s)
    ELSE [m EXCEPT !.nonAck = @ \ {s}, !.first = FirstPending(m, m.nonAck \ {s})]

AckMem(m, s) ==
  IF s \in Block(m)
    THEN CutBlock(m, s)
    ELSE [m EXCEPT !.nonAck = @ \ {s}, !.redeliver = @ \ {s},
                   !.first = FirstPending(m, m.nonAck \ {s})]

\* The header is written when the first pending record changed, and never when
\* the block was cut.
AckFile(m, f, s) ==
  LET rest  == m.nonAck \ {s}
      moved == s \notin Block(m) /\ (rest = {} \/ m.first # Min(rest))
  IN  [WriteByte(f, s, ACKED) EXCEPT
         !.header = IF moved THEN FirstPending(m, rest) ELSE @]

MarkMem(m, s) ==
  IF s \in m.nonAck
    THEN [m EXCEPT !.redeliver = @ \cup {s}]
    ELSE IF s \in Block(m)
      THEN [CutBlock(m, s) EXCEPT !.nonAck = @ \cup {s}, !.redeliver = @ \cup {s}]
      ELSE m

MarkFile(m, f, s) == IF s \in Pending(m) THEN WriteByte(f, s, RETRANSMIT) ELSE f

-----------------------------------------------------------------------------
(* Queries *)

\* Mutant: off by one at the start of the block.
isRecordAckedOffByOne(m, s) ==
  /\ ~IsNew(m, s)
  /\ s \notin m.nonAck
  /\ m.blockStart = 0 \/ s <= m.blockStart

isRecordAcked(m, s) ==
  /\ ~IsNew(m, s)
  /\ s \notin m.nonAck
  /\ m.blockStart = 0 \/ s < m.blockStart

getFirstNonAckRecord(m) == m.first

-----------------------------------------------------------------------------
(* The system *)

Init ==
  /\ up = FALSE
  /\ mem = Closed
  /\ file = NoFile
  /\ storeCount \in 0 .. MaxCount
  /\ restarts = 0

\* The session store appends a record; the index is told by a later call.
StoreAdd ==
  /\ up
  /\ storeCount < MaxCount
  /\ storeCount' = storeCount + 1
  /\ UNCHANGED <<up, mem, file, restarts>>

Open ==
  /\ ~up
  /\ up' = TRUE
  /\ mem' = InitMem(file, storeCount)
  /\ file' = InitFile(file, storeCount)
  /\ UNCHANGED <<storeCount, restarts>>

addRecord(s) ==
  /\ up
  /\ s \in Known(storeCount)
  /\ mem' = AddMem(mem, s)
  /\ file' = AddFile(mem, file, s)
  /\ UNCHANGED <<up, storeCount, restarts>>

Ackable == IF AckAhead THEN Seqs ELSE Known(storeCount)

ackRecord(s) ==
  /\ up
  /\ s \in Ackable
  /\ mem' = AckMem(Grown(mem, s), s)
  /\ file' = AckFile(Grown(mem, s), GrownFile(mem, file, s), s)
  /\ UNCHANGED <<up, storeCount, restarts>>

markRetransmit(s) ==
  /\ up
  /\ s \in Known(storeCount)
  /\ mem' = MarkMem(Grown(mem, s), s)
  /\ file' = MarkFile(Grown(mem, s), GrownFile(mem, file, s), s)
  /\ UNCHANGED <<up, storeCount, restarts>>

\* What a crash can leave of one call's file writes, in the order of the code.
TornAdd(m, f, s) ==
  {f} \cup {[AddHeader(m, f, s) EXCEPT !.bodyLen = @ + k] : k \in 0 .. Added(m, s)}

TornAck(m, f, s) == {WriteByte(GrownFile(m, f, s), s, ACKED)}

Crash ==
  /\ up
  /\ restarts < MaxRestarts
  /\ up' = FALSE
  /\ mem' = Closed
  /\ \/ file' = file
     \/ \E s \in Ackable : file' \in TornAdd(mem, file, s)
     \/ \E s \in Ackable : file' \in TornAck(mem, file, s)
  /\ restarts' = restarts + 1
  /\ UNCHANGED storeCount

Next ==
  \/ StoreAdd
  \/ Open
  \/ \E s \in Seqs : addRecord(s) \/ ackRecord(s) \/ markRetransmit(s)
  \/ Crash

Spec == Init /\ [][Next]_vars

-----------------------------------------------------------------------------
(* Properties *)

\* Every member stays within the ranges of the code's types and bounds.
FileType ==
  [header : Int, bodyLen : Nat, byte : [Seqs -> Marks]]

MemType ==
  [count : 0 .. MaxCount, first : Nat, nonAck : SUBSET Seqs,
   redeliver : SUBSET Seqs, blockStart : Nat, blockEnd : Nat, len : Nat]

TypeOK ==
  /\ up \in BOOLEAN
  /\ mem \in MemType
  /\ file \in FileType
  /\ storeCount \in 0 .. MaxCount
  /\ restarts \in 0 .. MaxRestarts

\* The members say what the comment at IndividualAckIndexFile.h:74-77 says they
\* do: the block is the tail of the known records, the set lies before it, and
\* nothing is in both, after any mix of calls, crashes and replays.
BlockIsTheTail ==
  up => /\ mem.blockStart = 0 <=> mem.blockEnd = 0
        /\ mem.blockStart # 0 =>
             /\ mem.blockStart \in Known(mem.count)
             /\ mem.blockEnd = Base + mem.count - 1
             /\ \A s \in mem.nonAck : s < mem.blockStart
        /\ mem.redeliver \subseteq mem.nonAck
        /\ mem.nonAck \subseteq Known(mem.count)

\* The members and the file tell the same story after each call: a record is
\* pending in memory exactly when its byte is not ACKED, and its retransmit
\* flag is its byte's.
MemoryMatchesFile ==
  up => /\ Pending(mem) = {s \in Known(mem.count) : file.byte[s] # ACKED}
        /\ mem.redeliver = {s \in Known(mem.count) : file.byte[s] = RETRANSMIT}

\* init trusts the header and never looks at the records before it: no state
\* of the file, torn by a crash or not, may hide a pending record there.
HeaderHidesNothing ==
  \A s \in Known(storeCount) : s < file.header => file.byte[s] = ACKED

\* What getMinNonAckRecord hands to the store for trimming never lies beyond a
\* record the consumer still owes an acknowledgement for.
FirstNonAckIsSafe ==
  up => \A s \in Pending(mem) : getFirstNonAckRecord(mem) <= s

\* isRecordAcked answers true exactly for the records of the store whose
\* acknowledgement is in the file.
AnswersFromFile ==
  up => \A s \in Known(storeCount) : isRecordAcked(mem, s) <=> file.byte[s] = ACKED

\* An acknowledgement that reached the file answers for its record for good,
\* even when the store's record arrived after it (IAckIndexFile.h:47-49).
EarlyAckCounts ==
  up => \A s \in Known(storeCount) : file.byte[s] = ACKED => isRecordAcked(mem, s)

\* Seen through what a restart would recover, the index is a ledger: no
\* acknowledgement is lost or invented by any crash, and no record is skipped.
Recovered == IF up THEN mem ELSE InitMem(file, storeCount)

Ledger == INSTANCE AckLedger WITH
  high <- Recovered.count,
  pending <- Pending(Recovered),
  redeliver <- Recovered.redeliver

ImplementsLedger == Ledger!Spec

=============================================================================
