# LightMQ: a TLA+ model of the message store

LightMQ is a message queue: brokers that keep messages per session, and a C++
client.  The repository holds the headers and, for most of the client and of the
broker, shared libraries without source.  The code that *is* there, as templates
and inline functions under `src/include/util`, is the layer on which everything
else rests: what a broker keeps on disk and in memory about the messages of a
session, who has acknowledged them, which of them wait for a consumer, how
parameters become bytes, and the queue by which threads hand work to a select
loop.  That layer is what this project models.  There are no tests in the
repository, so the models are read from the code and from its comments.

Contents: [Inventory](#inventory) · [Models](#models) · [Runs](#runs) ·
[Proofs](#proofs) · [Where comment and code differ](#where-comment-and-code-differ) ·
[What is not modelled](#what-is-not-modelled)

## Inventory

### Components

| Component (`src/include/util/`) | State it keeps | Operations | Status |
|---|---|---|---|
| Individual acknowledgement index (`IndividualAckIndexFile.h`) | file: header and one byte per record; memory: a set and a trailing block of pending records | `init`, `addRecord`, `ackRecord`, `markRetransmit`, queries | modelled in its durable variant, proved |
| Sequential acknowledgement index (`SequentialAckIndexFile.h`) | file: one slot with CRC per level, in two formats; memory: a cursor per level | `init`, `addRecord`, `ackRecord`, queries, `validateFile` | modelled, proved |
| Level index (`VariableRecordStoreBase.h`) | ranges of default-level records, lists for the other levels | `addLevelInfo`, `moveRecordLevel`, `getFirstNoAckByLevel`, `checkDefaultLevel`, `getRecordLevel` | modelled, proved |
| Record store on disk (`VariableRecordStorePersist.h`, `VariableRecordStoreBase.h`) | data files, an index file with an attribute byte per record, sets that mirror the marks | `init` with and without append, `add`, `markDeleted`, `markExpired`, removal at exit, six ways of reading many records | modelled in its main operations, proved |
| Record store in memory (`VariableRecordStoreMemory.h`, `VariableRecordStoreBase.h`) | a circular buffer of bytes, a deque of places, begin and count, sets of marks | `add` with trimming and growth, `setNewBeginSequence`, `markAttribute`, ready flags, reading, queries by mark and time | modelled |
| Session store with index (`AckIndexVariableRecordStore.h`) | a record store and one index per consumer | `addAckIndexFile`, `add`, acknowledgements, `getMinNonAckRecord` | modelled with the store in memory |
| Message blocks (`MessageBlocksNew.h`) | a map or a deque of ranges, with a total | `pushBack`, `insert`, `getFirst`, `split`, `getNextMatched`, `forward`, `removeExpired`, `clear` | modelled |
| Sequence algorithms (`SequenceUtil.h`) | none | `splitSequence`, `getContinuousSequences`, `subBlocks` | modelled |
| Selectable queue (`LightmqSelectableQueue.h`) | queue, pipe, write buffer, count of silent items, three locks | `push`, `pushSilently`, `notifyEvent`, `onEvent`, `init`, `close`, `setListener` | modelled, proved |
| Packaging of parameters (`PackageParameters.h`, `UnpackageParameters.h`, `UnpackageUnorderedParameters.h`) | none over calls | writing, reading in order, in any order, by identity | modelled |
| JSON parameters, variants (`JsonSerialize.h`, `VariantMap.h`) | none over calls | writing, reading | modelled |
| Provider information (`ProviderInfoSessionStore.h`) | a file of records with CRCs, a map | `init`, `updateRecord`, `rebuild` | modelled |
| Receipts and expiry (`ReceiptManager.h`, `ExpireService.h`) | listeners by receipt, a set ordered by time | register, receipt, timeout | not modelled: declared only |
| Notified thread (`NotifiedFlagThread.h`) | a word of flags, a condition variable | `notifyFlag`, `waitNotifyFor` | not modelled: callers have no source |
| Multi lock (`MultiLockGuard.h`, `ILock.h`) | a set of locks | lock all, unlock all | not modelled: callers have no source |
| Queue with write events, circular buffers, group messages, session schedule | see `PROJECT.json` | | not modelled |
| Properties, HTTP headers, logging, start-up | none over calls | conversions | not modelled |
| Client API (`qmapi/`), wire protocol (`protocol/`), framework (`depfw/`) | declared only | declared only | not modelled: no source |

### How they interact

* A producer's message goes through `AckIndexVariableRecordStore::add` to the
  record store, which appends it to a data file, then to the index file, then to
  the level index; then the store tells the acknowledgement index of every
  consumer (`addRecord`).  All of it happens under the store's lock.  The files
  are separate: a crash may leave any of them ahead of another.
* A consumer's acknowledgement goes to its own index (`ackRecord`).  A store in
  memory is trimmed, when its buffer is full, by the least record that some index
  still waits for; a reader that comes too late is told how many records are gone.
* What waits for a consumer is kept as blocks of sequences; blocks move from one
  container to another when they are given out, split, given back or expire.
* The last message of each client is kept in a file of its own; when that file is
  broken it is rebuilt from the session stores.
* On a standby broker, records and acknowledgements are replicated by separate
  streams: an acknowledgement may come before its record
  (`IAckIndexFile.h:46-50`).
* Reading for a consumer goes by level: the level index gives the next record of
  a level, the acknowledgement index whether it still has to be sent, and the
  record store its bytes.
* Threads hand results to the select loop by a selectable queue.

### Hard behaviours

* Crashes between any two file writes, of one file or of several, and in the
  middle of one.  Data is flushed but not synchronised, so a power loss may also
  cut files.
* Restarts: every index is rebuilt from files that were written by a process
  that died.
* Order: acknowledgements out of order, for unknown records, or before their
  records; deletions that come before their records.
* Boundaries: base sequence 0 and the marker 0, files that are exactly full,
  blocks of the index that end where a file does, a buffer that wraps, buffers that
  end in the middle of a field.
* Long sequences of legal calls: blocks that are merged, split and put back;
  iterators kept over an insertion; totals kept beside what they count.
* Interleavings: threads that push while others notify, from one buffer under
  different locks, with a pipe that may be full.

`PROJECT.json` lists them at their lines under `hazards`.

### What makes the components correct

* *Acknowledgement indexes*: no acknowledgement is invented (the record would
  never be delivered) and none is lost (it would be delivered twice), whatever
  crashes; memory is what a restart would rebuild; the store is never told to trim
  a record that is still wanted.
* *Level index*: no record falls out of it, and a consumer that asks for the next
  record of a level is never sent past one.
* *Record stores*: a record is read from its own bytes, alone or with others, or the
  store refuses to open; marks are kept, in memory and in the index, except that a restart
  does not read the set of expired records back; a store that was not damaged opens;
  trimming respects those who still wait.
* *Message blocks*: every message is in one place, and given at most once.
* *Packaging*: what was written is read back, or refused; never something else.
* *Provider information*: no client's last message is forgotten.
* *Queue*: each item reaches the listener once and in order, and no item waits for
  a byte that nobody will write.

## Models

The modules follow the code's names; a comment at the head of each says what one
action is.  All but the queue are single calls under a lock, so an action is a
whole call, and a crash is an action that performs a prefix of the call's writes.

### `IndividualAckIndex`, `AckLedger`

`mem` is the object's members, `file` the `.VRAI` file; `storeCount` stands for
the record store, which grows by itself (`StoreAdd`) and may be ahead of the
index.  `Open` is `init` on whatever file there is (`InitMem`, `InitFile`);
`addRecord`, `ackRecord`, `markRetransmit` are the calls, which also grow the index
up to the record they are given.  `TornAdd` and `TornAck` say what the file
may look like when the process dies inside a call, `Crash` that it does.
`AckAhead` chooses a standby.

`AckLedger` is the abstract specification: the records known, those pending, and
those to be redelivered; a call adds records, acknowledges one, or marks one, and
nothing else ever changes them.  The refinement mapping is *what a restart
would recover*: the members while the process runs, and `InitMem` of the file when it
does not.  So a crash must be a stutter, or the step that the torn call was to
make, and a restart must be a stutter.

### `SequentialAckIndex`

`cursor` is `m_multiAckRecord`, `file` the `.SAI` file: its length, whether its
header is there, the slots (`BAD` is a slot whose CRC fails), and the one cursor of
the old format.  `Open` follows `init` through all its branches: no file, the
old format, the new one, and a bad one, which is truncated.  `TornOpen` and
`TornAck` tear the writes.  The history `acked` holds what the consumer has
really acknowledged, `torn` whether a write has ever been torn.
`Levels` is a parameter, as are the roles: durable or not, primary or standby.
`getFirstNonAckRecord` is left out: it always answers 0 (see below).

### `LevelIndex`

`stored` is the level in the data file of each record, which survives; the rest is
in memory.  `add` extends the index.  After a restart the index
starts with one range of the default level, and `walk` passes the data files one
record at a time and moves each record of another level (`moveRecordLevel`); the
process may die during it.  The ranges are the code's `std::map`, with the empty
range `[1, 0]` that it really contains.

### `RecordStore`

`length` is the length of each data file; `recs` the records of the index file:
data file, end offset and attributes; `index` the state of the index file itself.
`place` is a history: where each record was really put and with which flags.
So are `told`, the deletions that must be remembered, `aged`, the records that were marked expired, and
`dropped`, those of `aged` that were not marked again since the store was opened: `init`
rebuilds the sets of deleted and remote records and the transactions from the attribute
bytes, but not the set of expired ones, and `expired` is then `aged` without `dropped`.
`add` is `addToDataFile` and `addIndexRecord` with the rollover to a new file
in between; `ShortWrite` is a write to the data file that fails half-way;
`Mark` and its callers set bits; `Open` is `init` with all its checks
(`CanOpen`), among them the comparison of the lengths of data files in blocks
(`LengthsMatch`), and the rebuilding of the sets (`Marked`).  `Recreate` is `init` without
`append`, `Remove` the destructor with `deleteOnExit`.  `TornCreate`, `TornRecreate`,
`TornAdd`, `TornMark` and `Ends` say how a process may end, `PowerLoss` cuts a data file
or the index.

Abstractions: the contents of a record are its size and flags; a mark is durable
once written (a byte in place); of the files not synchronised, a power loss cuts any
one data file and the index.

### `RecordReads`

The functions of the same store that read a run of records into a buffer:
`getMany` with and without prefix and suffix, `getManyReady`,
`getManyWithPrefixSuffix` with and without conversion, and the block of a data
file that a query keeps (`getRecordData`).  Each loop is a recursive function over its
turns, with the code's variables (`file`, `from`, `to`, `limit`).  A byte
is the file and place that it came from, so that a byte of another record is seen.
The unready set is a parameter of the read: a read holds the lock.

All data files but the last share one handle (`m_pTempDataFile`), the parameter `tmp` of
each read: the file it has open, if any.  A read acquires and releases it where the code
does, reads the bytes of the file that the handle really has (`Source`), and gives it back
as it leaves it.  Whether a stream that is open changes its file when it is opened again
belongs to the stream and not to this code: a handle says so itself (`reopens`), and the
property speaks of every handle that does, and of one that does not when a read finds it
closed (`Usable`).  `getMany` of a format with prefix and `getManyWithPrefixSuffix` with
conversion leave the handle open.  The first of them reads its first record without
asking for room: `over` says that it went past the buffer's end.  `ManyIsEach` says that
this happens exactly when that record is longer than the room (`WellData`), and nothing
of what such a call gives.  A read whose file cannot be opened throws, and is not among
the results.

### `MemoryStore`

A session's store in memory together with its consumers, as
`AckIndexVariableRecordStore` holds them.  `store` has the deque of places and the
circular buffer (`CircularRawBuffer`, external, from its use): a read copies bytes
from a *place*, so it is right only if places follow every move of the bytes.  `add`
trims by `getMinNonAckRecord`, halves the store as often as needed, and lets the buffer
grow.  The durable consumers' members are those of `IndividualAckIndex`, by `INSTANCE`:
the store does not restart, so only the members matter, and the two modules share the
code of the index.  `consumers` is asked in any order (`Orders`), as the hash table
would.

`ackBase` may be anything in `Garbage`: the code initialises it from a member that
is not initialised yet.  `focus` separates behaviours that mark sequences from
those that have consumers in TLC's run; a call of either kind does not touch what the
other kind uses, and both together would be too many states.  The proofs need no such bound.

### `SequenceUtil`, `MessageBlocks`

`SequenceUtil` has the three algorithms, a function of the turns of each loop, on
numbers that wrap at `Modulus`.  Messages are numbered from 1 to `MaxSeq`, and the number behind the last
one is still a number (`MaxSeq + 1 < Modulus`): at the end of the type, the sequence behind the
last one would be 0, and 64 bits are not used up.  In
`MessageBlocks` a map of blocks and a deque of blocks get every operation of
`MessageBlocksMapImpl` and `MessageBlocksDequeImpl`; histories say where each message must be.  `insert`
looks at the block behind the new one before it knows that there is one: what it then
reads is any member of `Strays`.  `broken` ends a behaviour whose next step in the code
would be on memory that is not there: an iterator that was erased, a walk past the end.

### `Packaging`

`format`, `types` and `values` are two parameters of any types; `put` and `ReadField` follow
the overloads for a type by recursion over the type.  A buffer is a sequence of unmarked
tokens, so a reader that lost its way reads a length for a tag, as the code would.
`Send` cuts the buffer anywhere.  JSON has no buffer: its tokenizer is external, and
what can go wrong is in how values are put and got.

### `ProviderInfo`

`file` is a sequence of cells, and a record as many cells as its name needs; a record
whose cells do not belong together has a wrong CRC.  `updateRecord` writes in place
(`Place`, `WriteAt`), `CrashInWrite` a part of it; `init` reads the file in pieces of `Buffer`
cells and computes places as the code does; `rebuild` runs its loops message by message
(`Replay`), so that a crash may come between two of them.

### `SelectableQueue`

The only component that runs without one lock around it.  Each thread has a `pc`;
each section under a lock, and each use of the write buffer, is a step, because
`notifyEvent` uses the buffer without the lock that `push` takes for it.  The
pipe is external: a non-blocking pipe that takes as many bytes as fit.  The
selector is external and level-triggered: `onEvent` may run whenever the queue
is registered and the pipe is not empty.  The select loop reads a byte, takes a
batch and calls the listener item by item.

Two threads inside `ByteBuffer` at once are a data race.  The model makes
`setLimit(n).setPosition(0)` one step and a write another, and so lets one thread write what
another has aimed, and the other then nothing.  A finer race, in which both
write the same bytes, only leaves more bytes in the pipe, because each caller
goes by what its own write returned.

### Modules for TLC and for proofs

`MC<Module>` gives instances where a definition is needed for a constant;
`<Module>Proofs` holds the theorems of a module, behind the few facts about minima, maxima
and loops that they use.

## Runs

| Run | Question | Expectation |
|---|---|---|
| `individual` | Is a primary's index consistent under calls, torn writes and restarts, and does it implement `AckLedger`? | passes |
| `individual_standby` | Does an acknowledgement that comes before its record count for good, as the comment says? | violated |
| `sequential` | Does an index invent or lose acknowledgements, over torn writes and both formats? | passes |
| `level` | Is every record in its level's list, and is none skipped, before and after restarts? | passes |
| `record_store` | Does a store read its own bytes, alone and together, and keep its marks? | passes |
| `memory_store` | Are reads right however the buffer wraps, grows and is trimmed, and does trimming respect consumers? | passes |
| `message_blocks` | Is each message in one place, whatever is merged, split and put back? | passes |
| `message_blocks_iterator` | Does `insert` leave other blocks alone, as its comment says? | violated |
| `packaging` | Is what was written read back, or refused? | passes |
| `provider_info` | Does the file have what the map has, and is nothing forgotten? | passes |
| `provider_info_places` | Does an update go to the file and the map, as the comment says? | violated |
| `selectable_queue` | Is each item delivered, once and in order, and does no call hang? | passes |

Every property of a passing run has a mutant in `PROJECT.json`: a definition,
changed by a mistake somebody could make in that code, with which the run must fail.
The mutated forms stand before the definitions they replace, marked *Mutant*.

### Bounds, and why they are enough

* *Individual index*: 4 records (3 on a standby) and 3 (2) crashes.  The file's
  shape is decided by a header, a block and a set: 4 records are enough for a set
  with a gap, a block behind it and a cut of the block in its middle, and 3 crashes
  for a torn write, a torn repair, and a restart that sees both.
* *Sequential index*: levels 4 and 9 and 3 records: two levels are needed to
  have slots torn separately and to have a hole before a slot.  3 restarts change a
  file of the old format, tear that change, and repair it.
* *Level index*: levels 0, 4 and 9 and 6 records: a range can be cut at both
  ends and in the middle, twice.  2 restarts interrupt a walk and repeat it.
* *Record store*: files of size 2 and records of size 1 and 2: a record that fills
  a file, two that do, one that does not fit.  3 records and 2 faults: a
  torn `add` or short write, and a damage at the restart after it.  The index is read
  in one block (`BlockSize` 4); see below for stores where it is not.  Reads of many
  records are asked of every layout that 3 records can have, every range, every room
  up to two files (`MaxRoom` 4), every set of unready records and every handle that a
  read may find (`Handles`).
* *Memory store*: a buffer of 2 that may grow to 4, records of size 1 and 2, 3
  records: the buffer wraps, grows when it wraps and when it does not, and
  overflows.  Two consumers of three kinds are enough for a minimum that depends on
  the order; they differ in name only, and no property is temporal, so they
  are symmetric.
* *Message blocks*: 4 sequences: a block with neighbours on both sides and a gap.  The proofs
  need no bound.
* *Packaging*: every type next to one of a few others, in both orders, because
  a reader that goes wrong goes wrong in what is next to it; values that are
  empty, one and two long; every cut.
* *Provider information*: 3 clients with names of two lengths (the third record is
  where places go wrong), a buffer that holds one record and a part of another, 2
  sessions of 2 messages, 3 starts: a torn record, a rebuild that does not end, and
  another.  `provider_info_places` has a larger buffer.
* *Queue*: three threads, a pipe of 2 bytes, 3 items and 2 calls of `notifyEvent`: a
  thread that writes, one that aims the same buffer and one that counts; the pipe
  can be full.  `MaxNotifies` also keeps a thread from calling `notifyEvent` for
  ever while another waits for its lock; the locks of the code are not fair.

`CHECK_DEADLOCK FALSE` stands where the system may really stop: all its records
are added, its restarts or calls used up, its parameters read, the store damaged so
that it refuses to open, or, in `MessageBlocks`, its memory broken.

### Fairness

Only the queue has liveness properties.  Its select loop runs as long as the
application does, and the operating system runs every thread that can run: weak
fairness of `select`, and of `step(t)` for each thread.  Nobody is obliged to
call `push`, `notifyEvent`, `init` or `setListener`: `Delivery` assumes that a
listener is set, that the queue is registered for good and that silent
items are notified, and asks nothing once a call has reported a failure.
A lock that is released is acquired in the end because calls are bounded.

### What the violations show

* `individual_standby`: after a restart with the record file behind the
  acknowledgement file, `init` forgets the acknowledgements beyond the store's
  count; the records are sent again when they arrive.
* `message_blocks_iterator`: `getNextMatched` takes a part out of a block, having
  moved its iterator to the next one, and inserts the rest; `insert` merges the
  rest with the next block and erases that.
* `provider_info_places`: `init` adds the position in its buffer to the place of every
  record, a sum that is too large from the third on; the client's next update goes
  over another record, or behind the end of the file.

## Proofs

TLC checks the instances above; TLAPS proves the following for every value of the
constants, under the stated assumptions.

| Module | Assumes | Proved | Argument |
|---|---|---|---|
| `IndividualAckIndexProofs` | `Primary`: `Base > 0` and `~AckAhead` | types, `BlockIsTheTail`, `MemoryMatchesFile`, `HeaderHidesNothing`, `FirstNonAckIsSafe`, `AnswersFromFile`, `ImplementsLedger` | see below |
| `SequentialAckIndexProofs` | `Plain`: `Base = 1` | types, `NoInventedAck`, `AnswersAreExact`, `FileIsTheIndex`, `NeverGoesBack` | cursors, file and history agree as long as no write is torn; a torn file is one of the few shapes that `Open` recognises |
| `LevelIndexProofs` | `Base = 1`, where the walk starts | types, `NothingLost`, `RangesDisjoint`, `NeverSkips`, `CheckIsExact`, `DefaultIsExact` | the record that the walk looks at is always in the last range, which reaches the end of the store; each change keeps the ranges disjoint and every other record covered |
| `RecordStoreProofs` | none; `MaxCount <= BlockSize` for `ReadsBack` | types, `MarksAreKept`, `CleanReopens`, `ReadsBack`, `ManyIsEach` | see below |
| `MemoryStoreProofs` | `Base = 1`, what `setNewBeginSequence` wants | types, `ReadsBack`, `ReadsSkipNothing`, `TrimmedWasAcked`, `DeletedIsKept`, `QueryFindsAll` | see below |
| `MessageBlocksProofs` | sequences end before the numbers do: `MaxSeq + 1 < Modulus` | `EachInOnePlace`, `TotalsCover`, `SequencesSplit` | see below |
| `ProviderInfoProofs` | a buffer that holds any one record | `FileHasMapIfPlaced`, `NothingForgotten`, `RebuildFindsLatest` | see below |
| `SelectableQueueProofs` | none | types, `EveryItemHasAByte`, `InOrder` | items are paid for by bytes; items only move from the head of one sequence to the tail of the one before |

*Individual index.*  None of the properties is inductive: what a restart computes
depends on the file alone, and on what the header hides.  The inductive
invariant says, of the file (`FileInv`), that the records before its header are
acknowledged and that there is nothing behind the known records and its end; of
the members (`MemInv`), that the block is the tail and the pending records are exactly
the known ones whose byte is not `ACKED`.  The central lemmas say that replaying
such a file gives such members; the refinement follows, because the mapping is
that replay.

*Sequential index.*  Three facts are invariant together: neither a cursor in memory nor a
slot that passes its CRC is ever beyond what was acknowledged (`Behind`); until a write
is torn, the file of an open index is an image of the cursors (`Image`); and on
a primary both are what was acknowledged (`Exact`, relative to the first two).

*Record store.*  On the types stand four facts.  `Marks`: the attribute byte of each
record says what was asked of it, and `early` holds the deletions that have no record
yet; so what a restart reads from the bytes is what memory had.  It also says that the byte of
a record has its expiry, and that the set in memory has what was marked since the start.
`Laid` and `Ended`: records lie one behind the other, and the last data file ends with the last of them unless a write
has failed.  `Cleanly`: a store that was not damaged has every file that the index
names, as long as it names it; so `CanOpen` holds, for any `BlockSize`.  `Kept`: an
open store still has the bytes of its records.  It rests on the comparison in `init`,
which looks at every data file only when the index is read in one block: for each record
that is not in the last file there is a first later one in another file, and there the length was
compared.  Without the assumption the theorem is false.

*Reading many records.*  `ManyIsEach` is proved for any index whose records lie one behind the other, as `Laid`
says, and any room.  For each loop there is one statement of what its variables are after k turns:
what was read is the first records, and `from` to `to` is what was gathered behind them in the same file
(`ManyHas`, `BatchHas`; `Fitting` for the two loops that gather nothing).  A turn keeps it, so it holds of
the last, and what was read and gathered together is `Together` of the records that fit; the
loops that read record by record have theirs in `DataHas` and `WrappedHas`.  The handle is a part of each: from one that is closed, or that opening
replaces, what is acquired is the file asked for (`Fetched`), and so it stays at each change of file
(`IsAt`, `Moves`).  Of `getMany` with prefix the statement is for a first record that fits.  That the bytes
of neighbours join (`Joins`) needs that a record begins where the one before it ends, or with its file.

*Store in memory.*  Three facts tie places to bytes (`Good`): the bytes in the buffer are as many
as the places say and fit in it (`Fits`); each place is where the record before it ends, counted
round the buffer, and its bytes are those of its record (`Lies`).  `Lies` is of the
whole deque, because dropping records, writing behind the last one and moving the
bytes into a larger buffer each change either every place or none.  A full store is halved until the
record fits, and that ends because each turn drops a record.  For trimming, the pending
records of a durable consumer are never before its `first` (`Ordered`), so that the least `first` of
any consumers, in any order and from any base, is behind none that is owed.  `Noted` says that each
mark in a place is in its set; that none of `early` has a place is what lets `add` move it to `deleted`.
The query is proved by itself, for any rising times: at each turn of the search the record that is looked for is
between its ends.  `Focuses` may hold any kinds of calls, so the theorems are also
about behaviours that mark sequences and have consumers, which the run separates.

*Message blocks.*  None of the three is inductive: `split` takes as many messages as the total says, and so
needs to know how total and blocks differ; the total is right only if each message is in one block.  The invariant
has both at once: each sequence is in exactly one of seven places (`Placed`), and the map and the deque
hold blocks that are apart, whose messages the total covers, and counts exactly as
long as none has expired there or was lost (`Holds`, `HoldsD`).  `Holds` also speaks of a map in the middle of an
operation, together with what was lost on the way: insertion keeps it whatever it reads behind the map
(`InsertHolds`), each turn of a loop then keeps it, and at the end the step is a move between places.  In
`getNextMatched` a turn needs more: the blocks that the loop has not reached must still be there as
they were (`Pending`), which `insert` keeps unless it erases one, and the erased block is
where the loop goes wrong.  `SequencesSplit` follows from the shape of the map alone (`SplitsHold`):
an ascending sequence has exactly one division into longest runs (`RunsAreUnique`), both
algorithms give the runs of the rest, and so the same.

*Provider information.*  While no place was computed wrongly, the file is the records of the map and
nothing else (`Covers`): each cell belongs to the record of its client, at its place.  Reading such a file
finds each record (`CoversReads`), in whatever pieces the buffer takes it; a cut write
leaves a record whose parts do not belong together, which no start reads.  `Remembered` says
what a restart would read of a store that is down; `Gathered` that a rebuild has the last
message of those it has gone over, and so, when none is left, of all.

Loops whose result the proofs need are recursive functions over numbers, not `RECURSIVE` operators: the
bytes of the first records (`Summed`), the minimum over the consumers (`getMinNonAckRecord`), the halving
(`halved`), the records that fit (`LastFitting`), the search (`findSeqByTimeStamp`), the records passed by
`init` (`Passed`), the ways to read many records, the algorithms on sequences and the loops over blocks.  What such a function computes is proved without the library's induction, which takes an
operator: the numbers for which a fact fails have a least one (`UpTo`), and a function that takes
the steps exists because there is one for each number (`Recursion`; `LoopExists` and `LoopReaches` for a loop of a
bounded number of turns).

*Queue.*  `EveryItemHasAByte` counts: items in the queue on one side; bytes in the
pipe, the byte in the select loop's hand, threads that owe one, and the silent
count on the other.  It needs only `Locked`, that one thread at a time pays for the
silent items, and no lock on the buffer: whoever writes fewer bytes than it
aimed for reports a failure.  `InOrder` says that delivered, taken and queued items
concatenate to the items pushed.

Each step proof has one case per action of `Next`.

Only model-checked:

* the liveness of the queue (`Delivery`, `CallsReturn`), which is out of the prover's reach with fairness
  and ENABLED;
* the properties of `Packaging`, which follows types by `RECURSIVE` operators.

The individual index on a standby is covered by its violated run only.

## Where comment and code differ

Shown by runs (`findings` in `PROJECT.json`): see the violations above.  Met on
the way, and without a run of their own:

* With base sequence 0, the default of `StoreOptions`, the block of the
  individual index starts at 0, which also means that there is no block
  (`IndividualAckIndexFile.h:385`; comment in line 78): its records count as
  acknowledged.  The sequential index then compares a sequence with a count
  (`SequentialAckIndexFile.h:358`), the level walk starts at 1, and an empty record
  store's last sequence is 2^64 - 1 (`VariableRecordStoreBase.h:522`).  The models
  take a base of at least 1.
* The comment on `m_firstNonAckSeq` (`IndividualAckIndexFile.h:73`) promises the first
  record that is not acknowledged; the code lets it lag behind.  It is safe
  (`FirstNonAckIsSafe`), and trims less.
* The branch for a continuous block in `addRecord` (`IndividualAckIndexFile.h:391`) is
  never taken.
* The default ranges of a store that starts empty contain the range `[1, 0]`.
* `getFirstNonAckRecord` of the sequential index searches from 0 for the minimum
  (`SequentialAckIndexFile.h:573-578`) and so always finds 0; `IAckIndexFile.h:44` promises
  the first record that is not acknowledged.  A store in memory with such a
  consumer is never trimmed.
* Acknowledgement indexes.  A slot with a bad CRC makes `init` of the sequential index
  truncate the file without writing a header (`SequentialAckIndexFile.h:485`); the next
  acknowledgement leaves a hole where the version should be, and the restart
  after that rejects the file.  When a store that was not synchronised loses its last
  records, their successors are born acknowledged (`SequentialAckIndexFile.h:324`; the comment
  in line 193 says that there are never more acknowledged records than records).
* Level index.  The walk after a restart does not cut a record of another level
  out of a default range in some positions (`VariableRecordStoreBase.h:803`, comment in
  191): the lists are right (`level`), the count of default records is not.
* Record store on disk.  `getMany` of a format with prefix reads its first record at the
  buffer's position (`VariableRecordStorePersist.h:961`) and compares lengths only for
  the next ones (982): a first record that is longer than the room goes past the buffer's
  end.  `IVariableRecordStore.h:142` promises records up to the capacity of the buffer, and
  the function for formats without prefix makes room first (1033-1035).  `init` skips
  blocks of the index that lie in one data file, and with them the comparison of the file before (`VariableRecordStorePersist.h:2297`, comment in
  2252): with blocks of one record TLC finds a cut data file that is opened.  The bit of
  expiry is one of the bits of the transaction state (`VariableRecordStoreBase.h:61`): a committed
  message that expires has another state.  A crash between the truncation of the index
  and that of the data file leaves the old bytes in front of the first record
  (`VariableRecordStorePersist.h:2205`).  `getIndexTimeStamp` looks one record too early
  (555).  `getMany` with prefix (952-982) and `getManyWithPrefixSuffix` with conversion (1338-1363)
  do not release their last data file, and the next read opens the open handle (2608).  The set of
  expired records is not rebuilt at a restart (2030-2071), so that `getExpiredSequences`
  (`VariableRecordStoreBase.h:584`) forgets what the attribute bytes still have; no text says
  that it should not, and `MarksAreKept` states it as it is.
* Store in memory.  `setNewBeginSequence` compares a sequence with a count and so needs
  base sequence 1, as the model has.  A query's times are swapped when the end is 0, which means
  that there is none (`VariableRecordStoreBase.h:251`).  `getOldestDeletedSequence` takes
  `begin()` of an unordered set for the least (457).  `setAllSequenceReady` (696) takes no
  lock.  `m_baseSequence` of `AckIndexVariableRecordStore` (170) is set from a member that is
  initialised after it.
* Message blocks.  `insert` tests its right neighbour where it means the left one
  (`MessageBlocksNew.h:298`), and so drops a block in between; `removeExpired` does not reduce
  the total, so that a later `split` walks past the end (516).
* Packaging.  A variant is read by identity as nothing (`UnpackageParameters.h:294`); an
  empty list or map in its order is not written and then refused; nested JSON arrays use
  the outer length (`JsonSerialize.h:541`); a list of maps in JSON does not compile;
  strings end at a byte 0 in JSON (165).
* Queue.  A listener that throws leaves the batch in `m_popStore` (`LightmqSelectableQueue.h:259`), which
  the next event does not clear.  `NotifiedFlagThread` waits without a predicate (55).
* Protocol.  `RecoveryMessage::setExpiredMessageSeqs` inserts a member into itself instead of
  its argument (`protocol/RecoveryMessage.h`).

## What is not modelled

* Of the modelled components: the variant of the individual index without a
  file, whose calls do nothing; base sequence 0; of the record store on disk the
  properties that `init` rebuilds from message data and the group messages, which
  `UnCompleteGroupMessageManager` decides (it has no source), and a read whose data file
  cannot be opened; of
  `AckIndexVariableRecordStore` the calls that only pass on to the store or an index, and the
  persistent mode as a composition: its parts are modelled one by one, and what
  a crash between them does is the individual index's `StoreAdd` and `AckAhead`; of the
  queue a listener that throws; of the index file of a consumer the loss of its tail by a
  power loss.
* What is declared but has no source: the client (`qmapi/`), the handlers of the
  protocol, the broker, the arbitrator, `ReceiptManager` and `ExpireService`.  Half of the
  repository's lines are such declarations, and constants, accessors and interfaces.
* `NotifiedFlagThread`, `MultiLockGuard`: what they do depends on how they are called,
  and no caller is in the repository.
* Conversions and parsing without state: properties, variants to and from text,
  HTTP headers, URIs, strings.

The definitions that stand for code name a fifth of the repository's lines, and not
much more could be: besides the declarations, what is left under `src/include/util` is
comments, code that is commented out (large parts of `VariableRecordStorePersist.h`, as
619-779 and 1953-1973), functions that are never called (`getManyImpl_DELETE`,
1137-1249, and what only it calls), type traits, declarations of members and overloads that
pass on.
