----------------------------- MODULE MemoryStore -----------------------------
(***************************************************************************)
(* The record store of a session in memory, and the acknowledgement        *)
(* indexes of its consumers                                                *)
(* (src/include/util/VariableRecordStoreMemory.h, VariableRecordStoreBase.h, *)
(* AckIndexVariableRecordStore.h).                                         *)
(*                                                                         *)
(* The bytes of the records are in a circular buffer, their places in a    *)
(* deque whose front is the record m_beginSequence.  When the buffer is    *)
(* full, the records that all consumers acknowledged are dropped; when     *)
(* that is not enough and the buffer may not grow, the older half is       *)
(* dropped, acknowledged or not.  A reader is told how many of the records *)
(* that it asked for are gone.                                             *)
(*                                                                         *)
(* A call holds the store's lock, which is recursive, so an action is one  *)
(* call.  A durable consumer has the members of an IndividualAckIndex.     *)
(* Levels are in LevelIndex; properties and groups of messages, and the    *)
(* states of transactions, which only the store on disk reads again, are   *)
(* left out.                                                               *)
(***************************************************************************)
EXTENDS SequencesExt, FiniteSetsExt, Integers

CONSTANTS
  Base,      \* m_baseSequence of the store; 1, as setNewBeginSequence wants
  Garbage,   \* what m_baseSequence of the index store may hold: it is set
             \* from m_options, which is not initialised yet
  Names,     \* consumers
  Records,   \* what is added: [size |-> bytes, attr |-> attribute bits]
  Capacity,  \* defaultMemorySize
  MaxSize,   \* maxMemorySize
  MaxCount,  \* bound: records, also those that setNewBeginSequence skips
  MaxMarks,  \* bound: calls that mark sequences
  Focuses    \* bound: which calls one behaviour may make, see focus

ASSUME MemoryAssumption ==
  /\ Base = 1 /\ Garbage \subseteq Nat /\ Garbage # {}
  /\ Capacity \in Nat \ {0} /\ MaxSize \in Nat /\ Capacity <= MaxSize
  /\ Records \subseteq [size : 1 .. MaxSize, attr : SUBSET {1, 2}]
  /\ MaxCount \in Nat /\ MaxMarks \in Nat
  /\ Focuses \subseteq SUBSET {"marks", "acks"} /\ Focuses # {}

VARIABLES
  ackBase,   \* m_baseSequence of the index store
  store,     \* [begin, count, index, data]: see Empty
  sets,      \* [deleted, early, expired, remote, unready]: sets of sequences
  consumers, \* m_ackIndexFileMap
  told,      \* history: sequences that markDeleted was told of
  dropped,   \* history: records that trimming dropped although a consumer owes them
  focus,     \* bound: may the behaviour mark sequences, and may it have consumers?
  marks

once == <<ackBase, focus>>
vars == <<once, store, sets, consumers, told, dropped, marks>>

DELETED == 1
REMOTE == 2
EXPIRED == 3

End(st) == Base + st.count - 1
Live(st) == st.begin .. End(st)
Known == Base .. End(store)
AllSeqs == Base .. Base + MaxCount - 1

-----------------------------------------------------------------------------
(* CircularRawBuffer: the bytes in it from the oldest, and where that one is.
   A byte is the sequence it belongs to. *)

Size(d) == Len(d.bytes)

ignore(d, n) ==
  [d EXCEPT !.first = (@ + n) % d.capacity, !.bytes = SubSeq(@, n + 1, Len(@))]

write(d, bytes) == [d EXCEPT !.bytes = @ \o bytes]
WriteIndex(d) == (d.first + Size(d)) % d.capacity

\* A larger buffer, with the bytes at its start, or where they were, should they not wrap.
extended(d, n) ==
  LET c == Min({MaxSize, Max({2 * d.capacity, Size(d) + n})})
  IN {[d EXCEPT !.first = 0, !.capacity = c]}
     \cup (IF d.first + Size(d) <= d.capacity THEN {[d EXCEPT !.capacity = c]} ELSE {})

\* n bytes from a place on; bytes that are not in use are 0.
copy(d, start, n) ==
  [k \in 1 .. n |-> LET at == (start + k - 1 - d.first) % d.capacity
                    IN IF at < Size(d) THEN d.bytes[at + 1] ELSE 0]

-----------------------------------------------------------------------------
(* The deque of places: [start, len, attr] of each live record *)

Empty ==
  [begin |-> Base, count |-> 0, index |-> <<>>,
   data |-> [first |-> 0, capacity |-> Capacity, bytes |-> <<>>]]

At(st, s) == st.index[s - st.begin + 1]

\* The bytes of the first records, for each number of them.
Summed(index) ==
  LET sum[n \in 0 .. Len(index)] == IF n = 0 THEN 0 ELSE sum[n - 1] + index[n].len IN sum

Bytes(st, a, b) == Summed(st.index)[b - st.begin + 1] - Summed(st.index)[a - st.begin]

\* Mutant: the bytes of the dropped records stay in the buffer.
deleteRecordKeepsBytes(st, e) ==
  LET n == Max({0, Min({e, End(st)}) - st.begin + 1})
  IN [st EXCEPT !.begin = @ + n, !.index = SubSeq(@, n + 1, Len(@))]

\* deleteRecord: everything up to e, or up to the last record.
deleteRecord(st, e) ==
  LET n == Max({0, Min({e, End(st)}) - st.begin + 1})
  IN [st EXCEPT !.begin = @ + n, !.index = SubSeq(@, n + 1, Len(@)),
                !.data = ignore(@, Bytes(st, st.begin, st.begin + n - 1))]

\* Mutant: the places stay although the bytes were moved.
MovedStale(st, d) == [st EXCEPT !.data = d]

\* extendMemoryBuffer: the new places of all records, when the bytes were moved.
Moved(st, d) ==
  [st EXCEPT !.data = d,
     !.index = IF d.first = st.data.first THEN @
               ELSE [k \in DOMAIN @ |-> [@[k] EXCEPT !.start =
                      d.first + Bytes(st, st.begin, st.begin + k - 2)]]]

extendMemoryBuffer(st, n) == {Moved(st, d) : d \in extended(st.data, n)}

-----------------------------------------------------------------------------
(* Acknowledgements *)

Ack == INSTANCE IndividualAckIndex WITH
  MaxRestarts <- 0, AckAhead <- FALSE, up <- TRUE, mem <- Empty, file <- Empty,
  storeCount <- store.count, restarts <- 0

\* init of an index.  One that is not durable keeps no record of anything, and its first
\* record stays where the store ended when it came; a sequential one always gives 0.
Kinds == {"durable", "volatile", "sequential"}
NewIndex(kind) ==
  [kind |-> kind,
   mem  |-> IF kind = "durable" THEN Ack!Fresh(Ack!NoFile, store.count)
            ELSE [Ack!Closed EXCEPT !.first = IF kind = "volatile" THEN Base + store.count ELSE 0]]

\* getFirstNonAckRecord: SequentialAckIndexFile gives 0, whatever was acknowledged.
FirstOf(c) == Ack!getFirstNonAckRecord(c.mem)

\* Records a durable consumer was told of, or will be, and did not acknowledge.
Owed(c) == IF c.kind # "durable" THEN {}
           ELSE Ack!Pending(c.mem) \cup (Base + c.mem.count .. End(store))

\* Mutant: the last consumer decides.
MinOfLast(order) ==
  IF order = <<>> THEN 0 ELSE FirstOf(consumers[order[Len(order)]])

\* getMinNonAckRecord; without consumers the caller's 0 stays.
getMinNonAckRecord(order) ==
  LET min[k \in 0 .. Len(order)] == IF k = 0 THEN ackBase + store.count
                                    ELSE Min({min[k - 1], FirstOf(consumers[order[k]])})
  IN IF order = <<>> THEN 0 ELSE min[Len(order)]

Orders == SetToSeqs(DOMAIN consumers)

-----------------------------------------------------------------------------
(* Adding *)

\* addToDataFile, first part
trimmed(st, size, min) ==
  IF size + Size(st.data) > st.data.capacity /\ min > st.begin THEN deleteRecord(st, min - 1) ELSE st

\* addToDataFile, second part: until the record fits.
halved(st, size) ==
  LET f[n \in 0 .. st.count] ==
        IF n = 0 THEN st
        ELSE LET now == f[n - 1] IN
             IF size + Size(now.data) > MaxSize
             THEN deleteRecord(now, (now.begin + Base + now.count) \div 2) ELSE now
  IN f[st.count]

\* addToDataFile, third part
rooms(st, size) ==
  IF size + Size(st.data) > st.data.capacity THEN extendMemoryBuffer(st, size) ELSE {st}

Stored(st, size, attr) ==
  [st EXCEPT !.count = @ + 1,
             !.data = write(@, [k \in 1 .. size |-> End(st) + 1]),
             !.index = Append(@, [start |-> WriteIndex(st.data), len |-> size, attr |-> attr])]

\* Mutant: an early deletion is forgotten when its record comes.
noteEarly(s, attr) ==
  [sets EXCEPT !.deleted = IF DELETED \in attr THEN @ \cup {s} ELSE @,
               !.remote  = IF REMOTE \in attr THEN @ \cup {s} ELSE @,
               !.early   = @ \ {s}]

\* addMessageAttribute, the sets
note(s, attr) ==
  [sets EXCEPT !.deleted = IF DELETED \in attr \/ s \in sets.early THEN @ \cup {s} ELSE @,
               !.remote  = IF REMOTE \in attr THEN @ \cup {s} ELSE @,
               !.early   = @ \ {s}]

attribute(s, attr) == attr \cup (IF s \in sets.early THEN {DELETED} ELSE {})

OwedBySome == UNION {Owed(consumers[c]) : c \in DOMAIN consumers}

Init ==
  /\ ackBase \in Garbage /\ focus \in Focuses
  /\ store = Empty
  /\ sets = [deleted |-> {}, early |-> {}, expired |-> {}, remote |-> {}, unready |-> {}]
  /\ consumers = <<>>
  /\ told = {} /\ dropped = {} /\ marks = 0

\* add; the bytes come first, so that the sequence is that of the new record.
Add(size, attr) ==
  /\ store.count < MaxCount
  /\ \E order \in Orders :
       LET one == trimmed(store, size, getMinNonAckRecord(order))
           two == halved(one, size)
       IN /\ \E three \in rooms(two, size) :
               store' = Stored(three, size, attribute(End(store) + 1, attr))
          /\ dropped' = dropped \cup (OwedBySome \cap (store.begin .. one.begin - 1))
  /\ sets' = note(End(store) + 1, attr)
  /\ UNCHANGED <<once, consumers, told, marks>>

\* setNewBeginSequence: what a peer dropped goes here, too, and what it never sent is skipped.
setNewBeginSequence(s) ==
  /\ s \in AllSeqs /\ s > store.begin
  /\ store' = [(IF store.count < s - 1 THEN [deleteRecord(store, store.count) EXCEPT !.count = s - 1]
                                       ELSE deleteRecord(store, s - 1)) EXCEPT !.begin = s]
  /\ UNCHANGED <<once, sets, consumers, told, dropped, marks>>

-----------------------------------------------------------------------------
(* Consumers *)

\* addAckIndexFile: an index of that name is replaced, or kept.
addAckIndexFile(n, kind, eraseIfExist) ==
  /\ "acks" \in focus
  /\ n \in DOMAIN consumers => eraseIfExist
  /\ consumers' = [c \in DOMAIN consumers \cup {n} |-> IF c = n THEN NewIndex(kind) ELSE consumers[c]]
  /\ UNCHANGED <<once, store, sets, told, dropped, marks>>

\* The length of the stream that stands for the file plays no part.
Tell(n, mem) ==
  /\ consumers' = [consumers EXCEPT ![n].mem = [mem EXCEPT !.len = 0]]
  /\ UNCHANGED <<once, store, sets, told, dropped, marks>>

Durable == {n \in DOMAIN consumers : consumers[n].kind = "durable"}

addAckRecordToSequence(n, s) ==
  /\ n \in Durable /\ s \in Known
  /\ Tell(n, Ack!AddMem(consumers[n].mem, s))

ackRecord(n, s) ==
  /\ n \in Durable /\ s \in Known
  /\ Tell(n, Ack!AckMem(Ack!Grown(consumers[n].mem, s), s))

-----------------------------------------------------------------------------
(* Marks *)

\* markAttribute: the attribute is written anew, whatever it was; none if it throws.
markAttribute(a, b, mark) ==
  IF a > b \/ ~({a, b} \subseteq Known) THEN {}
  ELSE {[store EXCEPT !.index = [k \in DOMAIN @ |->
          IF store.begin + k - 1 \in a .. b THEN [@[k] EXCEPT !.attr = {mark}] ELSE @[k]]]}

Counted ==
  /\ "marks" \in focus /\ marks < MaxMarks /\ marks' = marks + 1
  /\ UNCHANGED <<once, consumers, dropped>>

\* markDeleted: what is still to come is remembered.
markDeleted(a, b) ==
  LET last == Min({b, End(store)})
      early == Max({a, End(store) + 1}) .. b
      here == IF a > End(store) THEN {} ELSE a .. last
  IN /\ Counted
     /\ IF here = {} THEN UNCHANGED store ELSE store' \in markAttribute(a, last, DELETED)
     /\ sets' = [sets EXCEPT !.early = @ \cup early, !.deleted = @ \cup here]
     /\ told' = told \cup (a .. b)

\* markExpired: what is still to come is forgotten.
markExpired(a, b) ==
  LET last == Min({b, End(store)}) IN
  /\ Counted /\ a <= End(store)
  /\ store' \in markAttribute(a, last, EXPIRED)
  /\ sets' = [sets EXCEPT !.expired = @ \cup (a .. last)]
  /\ UNCHANGED told

setSequenceNotReady(s) ==
  /\ Counted
  /\ sets' = [sets EXCEPT !.unready = @ \cup {s}] /\ UNCHANGED <<store, told>>

setSequenceReady(s) ==
  /\ sets' = [sets EXCEPT !.unready = @ \ {s}]
  /\ UNCHANGED <<once, store, consumers, told, dropped, marks>>

setAllSequenceReady ==
  /\ sets' = [sets EXCEPT !.unready = {}]
  /\ UNCHANGED <<once, store, consumers, told, dropped, marks>>

-----------------------------------------------------------------------------
(* Queries by mark *)

\* From a to b, what is left of a set.
Listed(set, a, b) == set \cap (Max({a, store.begin}) .. b)
getDeletedSequences(a, b) == Listed(sets.deleted, a, b)
getExpiredSequences(a, b) == Listed(sets.expired, a, b)
getRemoteSequences(a, b) == Listed(sets.remote, a, b)
getRemoteOrDeletedSequences(a, b) == Listed(sets.remote \cup sets.deleted, a, b)
getNotDeletedSequences == sets.early

-----------------------------------------------------------------------------
(* Reading: first and second of startEndPosition, the records, expiredCount and the bytes *)

CanRead(a, b) == {a, b} \subseteq Known /\ a <= b

\* Mutant: off by one.
AllGoneShort(a, b) == [first |-> b + 1, second |-> b + 1, n |-> 0, expired |-> b - a, bytes |-> <<>>]

\* Nothing from a to b is left.
AllGone(a, b) == [first |-> b + 1, second |-> b + 1, n |-> 0, expired |-> b - a + 1, bytes |-> <<>>]

\* From the record from on, records that fit up to a barred one; the first is taken,
\* whatever its size.
LastFitting(from, b, max, barred) ==
  LET room == Max({max, At(store, from).len})
      f[s \in from .. b] ==
        IF s < b /\ Bytes(store, from, s + 1) <= room /\ s + 1 \notin barred THEN f[s + 1] ELSE s
  IN f[from]

ReadUpTo(a, from, to) ==
  [first |-> from, second |-> to, n |-> to - from + 1, expired |-> from - a,
   bytes |-> copy(store.data, At(store, from).start, Bytes(store, from, to))]

\* getMany with the positions
getMany(a, b, max) ==
  LET from == Max({a, store.begin}) IN
  IF b < store.begin THEN AllGone(a, b)
  ELSE ReadUpTo(a, from, LastFitting(from, b, max, {}))

\* getMany with the indices: where each record's bytes begin.
getManyIndices(a, b, max) ==
  LET r == getMany(a, b, max) IN
  IF b < store.begin THEN <<>> ELSE [k \in 1 .. r.n |-> Bytes(store, r.first, r.first + k - 2)]

\* Mutant: a record that is not ready does not end the batch.
getManyReadySkips(a, b, max) ==
  LET from == Max({a, store.begin}) IN
  IF b < store.begin THEN AllGone(a, b)
  ELSE IF from \in sets.unready
       THEN [AllGone(a, b) EXCEPT !.first = from, !.second = from, !.expired = from - a]
  ELSE ReadUpTo(a, from, LastFitting(from, b, max, {}))

getManyReady(a, b, max) ==
  LET from == Max({a, store.begin}) IN
  IF b < store.begin THEN AllGone(a, b)
  ELSE IF from \in sets.unready
       THEN [AllGone(a, b) EXCEPT !.first = from, !.second = from, !.expired = from - a]
  ELSE ReadUpTo(a, from, LastFitting(from, b, max, sets.unready))

\* readSingleMessageBuffer, getRecordSizeWithPrefixSuffix
readSingleMessageBuffer(s) == copy(store.data, At(store, s).start, At(store, s).len)

-----------------------------------------------------------------------------
(* Queries by time *)

\* getIndexTimeStamp: 0 for a record that is gone.
TimeOf(time, s) == IF s \in DOMAIN time THEN time[s] ELSE 0

\* Mutant: the halves do not overlap, and the step from the lower one is lost.
findSeqByTimeStampLoses(time, t, from, to, findHead) ==
  LET f[a \in from .. to, b \in from .. to] ==
        LET mid == a + (b - a) \div 2 IN
        IF a >= b THEN a
        ELSE IF TimeOf(time, mid) = t THEN mid
        ELSE IF TimeOf(time, mid) > t THEN f[a, mid - 1] ELSE f[mid + 1, b]
  IN f[from, to]

findSeqByTimeStamp(time, t, from, to, findHead) ==
  LET f[p \in {q \in (from .. to) \X (from .. to) : q[1] <= q[2]}] ==
        LET a == p[1]
            b == p[2]
            mid == a + (b - a) \div 2 IN
        IF a = b THEN a
        ELSE IF b - a = 1 THEN (IF findHead THEN IF t = TimeOf(time, a) THEN a ELSE b
                                            ELSE IF t = TimeOf(time, b) THEN b ELSE a)
        ELSE IF TimeOf(time, mid) = t THEN mid
        ELSE IF TimeOf(time, mid) > t THEN f[<<a, mid>>] ELSE f[<<mid, b>>]
  IN f[<<from, to>>]

\* queryMessageIDs between two times, 0 for none, without other conditions.  It takes
\* m_recordCount for the last sequence.
queryMessageIDs(time, count, t1, t2) ==
  LET start == Min({t1, t2})
      end == Max({t1, t2})
      head == IF start # 0 /\ start >= TimeOf(time, Base)
              THEN findSeqByTimeStamp(time, start, 1, count, TRUE) ELSE 1
      tail == IF end # 0 /\ end <= TimeOf(time, count)
              THEN findSeqByTimeStamp(time, end, 1, count, FALSE) ELSE count
  IN IF count = 0 \/ (start # 0 /\ start > TimeOf(time, count)) \/ (end # 0 /\ end < TimeOf(time, Base))
     THEN {} ELSE head .. tail

-----------------------------------------------------------------------------
(* The system *)

Next ==
  \/ \E r \in Records : Add(r.size, r.attr)
  \/ \E s \in AllSeqs : setNewBeginSequence(s)
  \/ \E n \in Names, kind \in Kinds, e \in BOOLEAN : addAckIndexFile(n, kind, e)
  \/ \E n \in Names, s \in AllSeqs : addAckRecordToSequence(n, s) \/ ackRecord(n, s)
  \/ \E a, b \in AllSeqs : markDeleted(a, b) \/ markExpired(a, b)
  \/ \E s \in AllSeqs : setSequenceNotReady(s) \/ setSequenceReady(s)
  \/ setAllSequenceReady

Spec == Init /\ [][Next]_vars

-----------------------------------------------------------------------------
(* Properties *)

\* Types, and what the parts of the store have in common: one place per live record, and
\* as many bytes as the places say, within the limits of the buffer.
StoreType ==
  [begin : Nat, count : 0 .. MaxCount,
   index : Seq([start : Nat, len : 1 .. MaxSize, attr : SUBSET {DELETED, REMOTE, EXPIRED}]),
   data  : [first : Nat, capacity : Capacity .. MaxSize, bytes : Seq(AllSeqs)]]

TypeOK ==
  /\ store \in StoreType
  /\ sets \in [{"deleted", "early", "expired", "remote", "unready"} -> SUBSET AllSeqs]
  /\ Len(store.index) = End(store) - store.begin + 1
  /\ Size(store.data) = Bytes(store, store.begin, End(store))
  /\ Size(store.data) <= store.data.capacity

\* However often the buffer wrapped, grew or was trimmed, a read gives the bytes of the
\* records that it names, in order, and where each of them begins.
AreBytesOf(bytes, a, b) ==
  /\ Len(bytes) = Bytes(store, a, b)
  /\ \A s \in a .. b : \A i \in 1 .. At(store, s).len : bytes[Bytes(store, a, s - 1) + i] = s

ReadsBack ==
  /\ \A s \in Live(store) : AreBytesOf(readSingleMessageBuffer(s), s, s)
  /\ \A a, b \in Known, max \in 1 .. MaxSize : CanRead(a, b) =>
       \A r \in {getMany(a, b, max), getManyReady(a, b, max)} :
         /\ r.n > 0 => AreBytesOf(r.bytes, r.first, r.second)
         /\ LET at == getManyIndices(a, b, max)
                all == getMany(a, b, max).bytes
            IN \A k \in DOMAIN at : all[at[k] + 1] = Max({a, store.begin}) + k - 1

\* A reader that goes on behind second, or at second when it got nothing, has got or
\* was told to be gone every sequence before: none is skipped, none is counted twice.
\* Ready reads never hand out a record that is not ready, and end early only at one or
\* when the next record does not fit.
GoesOn(r) == IF r.n > 0 THEN r.second + 1 ELSE r.second

ReadsSkipNothing ==
  \A a, b \in Known, max \in 1 .. MaxSize : CanRead(a, b) =>
    LET all == getMany(a, b, max)
        ready == getManyReady(a, b, max)
        next == GoesOn(ready)
    IN /\ all.n + all.expired = GoesOn(all) - a
       /\ ready.n + ready.expired = next - a
       /\ ready.n > 0 => sets.unready \cap (ready.first .. ready.second) = {}
       /\ next <= b => \/ next \in sets.unready
                       \/ ready.n > 0 /\ Len(ready.bytes) + At(store, next).len > max

\* Trimming drops no record that a durable consumer has still to acknowledge, whatever
\* the index store's base is, and in whatever order the indexes are asked.
TrimmedWasAcked == dropped = {}

\* What was marked as deleted, before or after it came, is known to be deleted as long as
\* it is there; a bit in its place is never without its sequence in the set.
With(mark) == {s \in Live(store) : mark \in At(store, s).attr}

DeletedIsKept ==
  LET last == End(store) IN
  /\ told \subseteq sets.deleted \cup getNotDeletedSequences
  /\ \A a \in Known :
       LET left == (a .. last) \cap Live(store) IN
       /\ (told \cup With(DELETED)) \cap left \subseteq getDeletedSequences(a, last)
       /\ With(EXPIRED) \cap left \subseteq getExpiredSequences(a, last)
       /\ With(REMOTE) \cap left \subseteq getRemoteSequences(a, last)
       /\ getRemoteOrDeletedSequences(a, last)
            = getRemoteSequences(a, last) \cup getDeletedSequences(a, last)

\* A query between two times finds every message that is left and was added between them,
\* as long as no two were added at once.
Rising(begin, count) ==
  {t \in [begin .. count -> 1 .. MaxCount + 1] : \A a, b \in begin .. count : a < b => t[a] < t[b]}

QueryFinds ==
  [begin \in 1 .. MaxCount + 1 |-> [count \in 0 .. MaxCount |->
     \A time \in Rising(begin, count) : \A t1, t2 \in 0 .. MaxCount + 2 : t1 <= t2 =>
       queryMessageIDs(time, count, t1, t2) \cap (begin .. count) =
         {s \in begin .. count : t1 <= time[s] /\ (t2 = 0 \/ time[s] <= t2)}]]

QueryFindsAll == QueryFinds[store.begin][store.count]

=============================================================================
