---------------------------- MODULE RecordReads ----------------------------
(***************************************************************************)
(* Reading many records of the store on disk at a time                     *)
(* (src/include/util/VariableRecordStorePersist.h).                        *)
(*                                                                         *)
(* Five functions read a run of records into a buffer, each in its own     *)
(* way: they walk the index, gather what lies together in one data file    *)
(* into one read, and stop at the end, before a record that does not fit,  *)
(* or at one that is not ready.  A sixth keeps a block of a data file for  *)
(* the records that a query looks at.  Each must give what reading record  *)
(* by record gives.                                                        *)
(*                                                                         *)
(* Records count from 1, as positions in the index.  A byte is the file    *)
(* and the place that it was read from.                                    *)
(*                                                                         *)
(* The last data file has a handle of its own.  The others share one,      *)
(* which is opened for a read and closed behind it, except by the two      *)
(* functions that read record by record.  What a read finds open is its    *)
(* last parameter, tmp, and what it leaves open a part of its result.      *)
(* When a file cannot be opened the read throws; these are the reads that  *)
(* return.                                                                 *)
(***************************************************************************)
EXTENDS RecordStore, Sequences

CONSTANT MaxRoom \* bound: the room in a reader's buffer

ASSUME ReadsAssumption == MaxRoom \in Nat

\* readIndexRecord: in front of the index are the zeroes of its variables, behind its
\* end those of a read that failed.
At(idx, i) == IF i \in DOMAIN idx THEN idx[i] ELSE [file |-> 0, off |-> 0]

\* Where record i begins: where the one before it ends, or with its file.
From(idx, i) == IF At(idx, i - 1).file = At(idx, i).file THEN At(idx, i - 1).off ELSE 0

\* m_pTempDataFile: the file it has open, and the number of the last one, which it is
\* not used for; and of the stream, whether it changes its file when it is opened again.
CLOSED == -1
Handles(last) == [open : {CLOSED} \cup 0 .. last - 1, last : {last}, reopens : BOOLEAN]

acquireDataFile(tmp, f) ==
  IF f = tmp.last \/ (tmp.open # CLOSED /\ ~tmp.reopens) THEN tmp ELSE [tmp EXCEPT !.open = f]
releaseDataFile(tmp, f) == IF f < tmp.last THEN [tmp EXCEPT !.open = CLOSED] ELSE tmp

\* The file that is read when f was acquired.
Source(tmp, f) == IF f = tmp.last THEN f ELSE acquireDataFile(tmp, f).open

\* readFromDataFile
Bytes(file, from, to) == [k \in 1 .. to - from |-> <<file, from + k>>]

\* A read that acquires its file and releases it.
Fetch(tmp, f, from, to) == Bytes(Source(tmp, f), from, to)
After(tmp, f) == releaseDataFile(acquireDataFile(tmp, f), f)

\* readSingleMessageBuffer: as much as there is room for.
readSingle(idx, i, room, tmp) ==
  [out |-> Fetch(tmp, idx[i].file, From(idx, i), Min({idx[i].off, From(idx, i) + room})),
   tmp |-> After(tmp, idx[i].file)]

-----------------------------------------------------------------------------
(* getMany, of a format without prefix and suffix *)

\* One record more is promised.  What was gathered is read when the batch is complete,
\* the next record does not fit, or it is in another file.
Promise(idx, a, b, room, st) ==
  LET counted == [st EXCEPT !.n = @ + 1, !.indices = Append(@, st.bytes), !.bytes = @ + st.len]
      next == At(idx, a + counted.n)
      len == IF next.file = st.file THEN next.off - st.to ELSE next.off
      read == [counted EXCEPT !.out = @ \o Fetch(st.tmp, st.file, st.from, st.to), !.tmp = After(@, st.file)]
  IN IF counted.n >= b - a + 1 \/ counted.bytes + len > room THEN [read EXCEPT !.on = FALSE]
     ELSE IF next.file # st.file THEN [read EXCEPT !.file = next.file, !.from = 0, !.to = next.off, !.len = len]
     ELSE [counted EXCEPT !.to = next.off, !.len = len]

getMany(idx, a, b, room, tmp) ==
  LET first == [n |-> 0, bytes |-> 0, indices |-> <<>>, out |-> <<>>, on |-> TRUE, tmp |-> tmp,
                file |-> idx[a].file, from |-> From(idx, a), to |-> idx[a].off,
                len |-> idx[a].off - From(idx, a)]
      turn[k \in 0 .. b - a + 1] ==
        IF k = 0 THEN first
        ELSE IF turn[k - 1].on THEN Promise(idx, a, b, room, turn[k - 1]) ELSE turn[k - 1]
  IN turn[b - a + 1]

-----------------------------------------------------------------------------
(* getManyReady, getManyWithPrefixSuffix without conversion *)

\* Mutant: the room that is left is not computed again for a new file.
TurnSameLimit(idx, room, unready, st) ==
  LET next == At(idx, st.cur + 1)
      ready == st.cur + 1 \notin unready
      counted == [st EXCEPT !.cur = @ + 1, !.next = next, !.to = st.next.off, !.n = @ + 1]
  IN IF next.file = st.file /\ ready THEN counted
     ELSE [counted EXCEPT !.out = @ \o Fetch(st.tmp, st.file, st.from, st.next.off),
                          !.tmp = After(@, st.file),
                          !.file = next.file, !.from = 0, !.to = 0, !.on = ready]

\* One turn of the loop: the record is counted, and the next one looked at; when that is
\* in another file, or not ready, what was gathered is read.
Turn(idx, room, unready, st) ==
  LET next == At(idx, st.cur + 1)
      ready == st.cur + 1 \notin unready
      counted == [st EXCEPT !.cur = @ + 1, !.next = next, !.to = st.next.off, !.n = @ + 1]
      out == st.out \o Fetch(st.tmp, st.file, st.from, st.next.off)
  IN IF next.file = st.file /\ ready THEN counted
     ELSE [counted EXCEPT !.out = out, !.tmp = After(@, st.file), !.file = next.file,
                          !.from = 0, !.to = 0, !.limit = room - Len(out), !.on = ready]

Batch(idx, a, b, room, unready, tmp) ==
  LET from == From(idx, a)
      first == [cur |-> a, next |-> idx[a], n |-> 0, out |-> <<>>, on |-> TRUE, tmp |-> tmp,
                file |-> idx[a].file, from |-> from, to |-> from, limit |-> from + room]
      turn[k \in 0 .. b - a + 1] ==
        IF k = 0 THEN first
        ELSE LET st == turn[k - 1] IN
             IF st.on /\ st.next.off <= st.limit /\ st.cur <= b THEN Turn(idx, room, unready, st) ELSE st
      end == turn[b - a + 1]
      left == end.to - end.from
  IN IF left > 0 /\ left <= room - Len(end.out)
     THEN [n |-> end.n, out |-> end.out \o Fetch(end.tmp, end.file, end.from, end.to),
           tmp |-> After(end.tmp, end.file)]
     ELSE [n |-> end.n, out |-> end.out, tmp |-> end.tmp]

getManyWithPrefixSuffixNoConversion(idx, a, b, room, tmp) == Batch(idx, a, b, room, {}, tmp)

\* The first record always gets room.
getManyReady(idx, a, b, room, unready, tmp) ==
  IF a \in unready THEN [n |-> 0, out |-> <<>>, tmp |-> tmp]
  ELSE Batch(idx, a, b, Max({room, idx[a].off - From(idx, a)}), unready, tmp)

-----------------------------------------------------------------------------
(* Formats with a prefix of p bytes and a suffix of q *)

\* getDataStart, getDataEnd: the data of record i, read from a file.
Data(file, idx, i, p, q) == Bytes(file, From(idx, i) + p, idx[i].off - q)

\* pFileHandle of the functions that read record by record: the file that was acquired,
\* and the one that it reads.
Acquired(tmp, f) == [tmp |-> acquireDataFile(tmp, f), file |-> f, source |-> Source(tmp, f)]

\* Mutant: the file before is not released.
MovedOn(at, f) == IF f = at.file THEN at ELSE Acquired(at.tmp, f)

\* It is released when the next record is in another file; nothing releases the last.
Moved(at, f) == IF f = at.file THEN at ELSE Acquired(releaseDataFile(at.tmp, at.file), f)

\* One turn of getMany, which leaves prefix and suffix out: the next record, when it fits.
DataTurn(idx, i, room, p, q, st) ==
  LET moved == [st EXCEPT !.at = Moved(@, idx[i].file)]
      next == Data(moved.at.source, idx, i, p, q)
  IN IF Len(next) > room - Len(st.out) THEN moved
     ELSE [moved EXCEPT !.n = @ + 1, !.out = @ \o next, !.indices = Append(@, Len(st.out))]

\* The first record is read without asking whether there is room: over says that it went
\* past the buffer's end, and then the call ends in ways that are not told here.
getManyData(idx, a, b, room, p, q, tmp) ==
  LET opened == Acquired(tmp, idx[a].file)
      data == Data(opened.source, idx, a, p, q)
      first == [n |-> 1, out |-> data, indices |-> <<0>>, over |-> Len(data) > room, at |-> opened]
      turn[k \in 0 .. b - a] ==
        IF k = 0 THEN first
        ELSE LET st == turn[k - 1] IN
             IF st.n = k /\ ~st.over THEN DataTurn(idx, a + k, room, p, q, st) ELSE st
  IN turn[b - a]

\* The prefix and suffix of the output format, which tell the length of the data.
Wrapped(data, p, q) == [k \in 1 .. p |-> <<-1, Len(data)>>] \o data \o [k \in 1 .. q |-> <<-2, Len(data)>>]

\* getManyWithPrefixSuffix from one format to another, of p2 and q2 bytes.
ConvertedTurn(idx, i, room, p, q, p2, q2, st) ==
  LET moved == [st EXCEPT !.at = Moved(@, idx[i].file)]
      next == Wrapped(Data(moved.at.source, idx, i, p, q), p2, q2)
  IN IF Len(next) > room - Len(st.out) THEN moved ELSE [moved EXCEPT !.n = @ + 1, !.out = @ \o next]

getManyWithPrefixSuffixConversion(idx, a, b, room, p, q, p2, q2, tmp) ==
  LET first == [n |-> 0, out |-> <<>>, at |-> Acquired(tmp, idx[a].file)]
      turn[k \in 0 .. b - a + 1] ==
        IF k = 0 THEN first
        ELSE LET st == turn[k - 1] IN
             IF st.n = k - 1 THEN ConvertedTurn(idx, a + k - 1, room, p, q, p2, q2, st) ELSE st
  IN turn[b - a + 1]

-----------------------------------------------------------------------------
(* getRecordData: the block of a data file that a query keeps *)

NoBlock == [file |-> -1, source |-> -1, off |-> 0, len |-> 0]
FileEnd(idx, f) == Max({idx[i].off : i \in {i \in DOMAIN idx : idx[i].file = f}})

\* The block after record i was asked for, when size bytes are read ahead.
BlockFor(idx, block, i, size, tmp) ==
  LET from == From(idx, i)
      to == idx[i].off
      inside(x) == block.off <= x /\ x <= block.off + block.len
  IN IF idx[i].file = block.file /\ inside(from) /\ from < block.off + block.len /\ inside(to)
     THEN block
     ELSE [file |-> idx[i].file, source |-> Source(tmp, idx[i].file), off |-> from,
           len |-> Min({Max({size, to - from}), FileEnd(idx, idx[i].file) - from})]

getRecordData(idx, block, i, size, tmp) ==
  LET b == BlockFor(idx, block, i, size, tmp)
      content == Bytes(b.source, b.off, b.off + b.len)
      skip == From(idx, i) - b.off
  IN [k \in 1 .. idx[i].off - From(idx, i) |-> content[skip + k]]

-----------------------------------------------------------------------------
(* Properties *)

\* The layouts of an index: each record ends behind the one before it, or in a later file.
Places == [file : Files, off : 1 .. MaxFileSize]
Behind(x, y) == x.file < y.file \/ (x.file = y.file /\ x.off < y.off)
Layouts == UNION {{idx \in [1 .. n -> Places] : \A i \in 2 .. n : Behind(idx[i - 1], idx[i])} : n \in 0 .. MaxCount}

\* The same layout for records that are three times as long, to have a prefix and a suffix.
Tripled(idx) == [i \in DOMAIN idx |-> [idx[i] EXCEPT !.off = 3 * @]]

\* What each record gives: as it is, without prefix and suffix, and in another format.
Whole(idx) == [i \in DOMAIN idx |-> Bytes(idx[i].file, From(idx, i), idx[i].off)]
Inner(idx, p, q) == [i \in DOMAIN idx |-> Data(idx[i].file, idx, i, p, q)]
Other(idx, p, q, p2, q2) == [i \in DOMAIN idx |-> Wrapped(Data(idx[i].file, idx, i, p, q), p2, q2)]

\* The first n records from a, one after the other.
Together(item, a, n) ==
  LET all[k \in 0 .. n] == IF k = 0 THEN <<>> ELSE all[k - 1] \o item[a + k - 1] IN all[n]

\* r is what the first records from a to b give, as many as fit, and no less than least.
IsPrefix(r, item, a, b, room, least) ==
  /\ r.n \in least .. b - a + 1
  /\ r.out = Together(item, a, r.n)
  /\ r.n > least => Len(r.out) <= room
  /\ r.n <= b - a => Len(Together(item, a, r.n + 1)) > room

Offsets(r, item, a) == \A k \in 1 .. r.n : r.indices[k] = Len(Together(item, a, k - 1))

\* What the other reads leave open is at most what they found open.
Leaves(tmp, left) == left \in {tmp, [tmp EXCEPT !.open = CLOSED]}

WellMany(idx, a, b, room, tmp) ==
  LET r == getMany(idx, a, b, room, tmp)
  IN IsPrefix(r, Whole(idx), a, b, room, 1) /\ Offsets(r, Whole(idx), a) /\ Leaves(tmp, r.tmp)

WellBatch(idx, a, b, room, tmp) ==
  LET r == getManyWithPrefixSuffixNoConversion(idx, a, b, room, tmp)
  IN IsPrefix(r, Whole(idx), a, b, room, 0) /\ Leaves(tmp, r.tmp)

\* Up to the first record that is not ready.
WellReady(idx, a, b, room, tmp) ==
  \A unready \in SUBSET (a .. Min({b + 1, Len(idx)})) :
    LET last == Min({b + 1} \cup unready) - 1
        r == getManyReady(idx, a, b, room, unready, tmp)
    IN /\ IF last < a THEN r.n = 0 ELSE IsPrefix(r, Whole(idx), a, last, room, 1)
       /\ Leaves(tmp, r.tmp)

\* Unless the first record was read past the end of the buffer.
WellData(idx, a, b, room, p, q, tmp) ==
  LET r == getManyData(idx, a, b, room, p, q, tmp)
  IN IF r.over THEN Len(Inner(idx, p, q)[a]) > room
     ELSE IsPrefix(r, Inner(idx, p, q), a, b, room, 0) /\ Offsets(r, Inner(idx, p, q), a)

WellConverted(idx, a, b, room, p, q, p2, q2, tmp) ==
  IsPrefix(getManyWithPrefixSuffixConversion(idx, a, b, room, p, q, p2, q2, tmp),
           Other(idx, p, q, p2, q2), a, b, room, 0)

WellSingle(idx, i, room, tmp) ==
  LET r == readSingle(idx, i, room, tmp)
  IN r.out = SubSeq(Whole(idx)[i], 1, Min({room, Len(Whole(idx)[i])})) /\ Leaves(tmp, r.tmp)

\* A record read from the block that was kept when another was read.
WellBlock(idx, i, j, size, tmp) ==
  getRecordData(idx, BlockFor(idx, NoBlock, i, size, tmp), j, size, tmp) = Whole(idx)[j]

ReadsWell(idx, tmp) ==
  /\ \A a, b \in DOMAIN idx, room \in 1 .. MaxRoom : a <= b =>
       /\ WellMany(idx, a, b, room, tmp) /\ WellBatch(idx, a, b, room, tmp) /\ WellReady(idx, a, b, room, tmp)
       /\ WellData(Tripled(idx), a, b, 3 * room, 1, 1, tmp)
       /\ WellConverted(Tripled(idx), a, b, 3 * room, 1, 1, 1, 2, tmp)
  /\ \A i \in DOMAIN idx, room \in 1 .. MaxRoom : WellSingle(idx, i, room, tmp)
  /\ \A i, j \in DOMAIN idx, size \in 1 .. 2 * MaxRoom : WellBlock(Tripled(idx), i, j, size, tmp)

\* A handle that is right whatever file is asked for.
Usable(tmp) == tmp.open = CLOSED \/ tmp.reopens

\* The stores: how the records lie, and the number of the last data file.
Stores == {s \in Layouts \X Files : \A i \in DOMAIN s[1] : s[1][i].file <= s[2]}

Readings == {<<s, \A tmp \in Handles(s[2]) : Usable(tmp) => ReadsWell(s[1], tmp)>> : s \in Stores}

Layout == [k \in 1 .. count |-> [file |-> recs[Base + k - 1].file, off |-> recs[Base + k - 1].off]]

\* However the records came to lie in the data files, after crashes and failed writes too,
\* every way of reading many of them gives the bytes of each, in order, and as many as fit
\* or are ready; none is cut, left out or counted without being read (getMany,
\* getManyReady, getManyWithPrefixSuffix, getRecordData).  This holds for a read that
\* finds the handle of the other data files closed, and for one that finds it left open
\* if opening it again changes its file; and, of getMany with prefix and suffix, when the
\* first record fits, which it does not ask.
ManyIsEach == running => <<<<Layout, fileCount - 1>>, TRUE>> \in Readings
=============================================================================
