----------------------------- MODULE ProviderInfo -----------------------------
(***************************************************************************)
(* Which message of each client the broker took last: a map and a file     *)
(* with one record per client, which is overwritten in place               *)
(* (src/include/util/ProviderInfoSessionStore.h).  What the file has lost  *)
(* is found again in the session stores.                                   *)
(*                                                                         *)
(* The file is a sequence of cells.  A record of client c has Size[c] of   *)
(* them, the name being of any length; its CRC is right if all are parts   *)
(* of the same record.  The provider's own message ID goes along with the  *)
(* broker's and is left out.  All calls hold m_pisLock.                    *)
(***************************************************************************)
EXTENDS Integers, Sequences, FiniteSetsExt

CONSTANTS
  Clients,     \* names of clients
  Size,        \* the cells of a client's record
  Buffer,      \* PROVIDER_INFO_BUFFER: how many cells init reads at a time
  Sessions,    \* the sessions, numbers
  MaxMessages, \* bound: messages in a session's store
  MaxStarts    \* bound: calls of init

ASSUME ProviderInfoAssumption ==
  /\ Size \in [Clients -> Nat \ {0}] /\ Sessions \subseteq Nat
  /\ \A c \in Clients : Size[c] <= Buffer
  /\ MaxMessages \in Nat /\ MaxStarts \in Nat

VARIABLES
  phase,   \* "down", "up", "failed": init has thrown, or "rebuilding"
  map,     \* m_providerMessageInfoMap: for some clients, [broker, pos]
  file,    \* the file's cells
  stores,  \* for each session the clients that sent its messages, in order
  left,    \* rebuild: the messages that it has still to go over
  starts,  \* how often init was called
  \* History:
  taken,   \* the broker's IDs in map when a call last returned
  partial, \* has the file been emptied and not been filled again?
  placed   \* did init find the place of every record?

counters == <<stores, starts>>
vars == <<phase, map, file, left, taken, partial, placed, counters>>

NoInfo == [c \in {} |-> 0]
Messages == UNION {{<<s, n>> : n \in DOMAIN stores[s]} : s \in Sessions}
Sender(id) == stores[id[1]][id[2]]

\* MessageID's order: by session, then by sequence
Before(a, b) == a[1] < b[1] \/ (a[1] = b[1] /\ a[2] < b[2])

-----------------------------------------------------------------------------
(* The file *)

\* What lies between the end and a record that is written behind it.
HOLE == [client |-> "", broker |-> <<0, 0>>, part |-> 0]

Record(c, id) == [k \in 1 .. Size[c] |-> [client |-> c, broker |-> id, part |-> k]]

\* seekp and write
WriteAt(f, pos, cells) ==
  [k \in 1 .. Max({Len(f), pos + Len(cells)}) |->
    IF k \in pos + 1 .. pos + Len(cells) THEN cells[k - pos] ELSE IF k <= Len(f) THEN f[k] ELSE HOLE]

Nothing == [ok |-> TRUE, whole |-> TRUE, start |-> 0, base |-> 0, recordPos |-> 0, map |-> NoInfo]

Put(m, c, info) == [d \in DOMAIN m \cup {c} |-> IF d = c THEN info ELSE m[d]]

\* One cell behind others.  recordPos grows by the position in the buffer, which holds the
\* file from base on, and goes on with the first record that is not there as a whole.
NextCell(f, acc, k) ==
  LET cell == f[k]
      isNext == cell.part = k - acc.start /\ (cell.part > 1 => f[k - 1] = [cell EXCEPT !.part = @ - 1])
      base == IF k > acc.base + Buffer THEN acc.start ELSE acc.base
  IN IF ~acc.ok \/ ~isNext THEN [acc EXCEPT !.ok = FALSE]
     ELSE IF cell.part < Size[cell.client] THEN [acc EXCEPT !.whole = FALSE]
     ELSE [ok |-> TRUE, whole |-> TRUE, start |-> k, base |-> base,
           recordPos |-> acc.recordPos + k - base,
           map |-> Put(acc.map, cell.client, [broker |-> cell.broker, pos |-> acc.recordPos])]

\* What is known behind each cell.
Passed(f) == LET at[k \in 0 .. Len(f)] == IF k = 0 THEN Nothing ELSE NextCell(f, at[k - 1], k) IN at
Parsed(f) == Passed(f)[Len(f)]

\* Mutant: what has been read before a broken record is kept.
ReadableAlways(f) == TRUE

\* No CRC is wrong, and no half record is left at the end.
Readable(f) == Parsed(f).ok /\ Parsed(f).whole

Loaded(f) == Parsed(f).map

-----------------------------------------------------------------------------
(* updateRecord *)

\* Mutant: an earlier message replaces a later one.
IsNewsAlways(m, c, id) == TRUE

\* Is there anything to write?
IsNews(m, c, id) == c \in DOMAIN m => Before(m[c].broker, id)

\* Mutant: an update is written to the end.
PlaceAtEnd(m, f, c) == Len(f)

\* A new record goes to the end, an update to where the record is.
Place(m, f, c) == IF c \in DOMAIN m THEN m[c].pos ELSE Len(f)

\* updateRecord with all of writeInfoIntoFile
Updated(c, id) ==
  LET pos == Place(map, file, c) IN
  IF IsNews(map, c, id)
  THEN map' = Put(map, c, [broker |-> id, pos |-> pos]) /\ file' = WriteAt(file, pos, Record(c, id))
  ELSE UNCHANGED <<map, file>>

BrokerIDs(m) == [c \in DOMAIN m |-> m[c].broker]

-----------------------------------------------------------------------------
(* The calls *)

Init ==
  /\ phase = "down" /\ map = NoInfo /\ file = <<>>
  /\ stores = [s \in Sessions |-> <<>>]
  /\ left = {} /\ starts = 0 /\ taken = NoInfo /\ partial = FALSE /\ placed = TRUE

\* A session store gets a message.
Receive(s, c) ==
  /\ phase = "up" /\ Len(stores[s]) < MaxMessages
  /\ stores' = [stores EXCEPT ![s] = Append(@, c)]
  /\ UNCHANGED <<phase, map, file, left, starts, taken, partial, placed>>

\* For any message in the stores: threads may come in any order.
updateRecord(id) ==
  /\ phase = "up"
  /\ Updated(Sender(id), id)
  /\ taken' = BrokerIDs(map')
  /\ UNCHANGED <<phase, left, counters, partial, placed>>

\* The process ends in writeInfoIntoFile: the beginning of the record is in the file.
CrashInWrite(c, id) ==
  /\ IsNews(map, c, id)
  /\ \E n \in 0 .. Size[c] : file' = WriteAt(file, Place(map, file, c), SubSeq(Record(c, id), 1, n))
  /\ phase' = "down" /\ map' = NoInfo /\ left' = {}
  /\ UNCHANGED <<counters, taken, partial, placed>>

\* Stopped, or crashed between two writes
Stop ==
  /\ phase # "down"
  /\ phase' = "down" /\ map' = NoInfo /\ left' = {}
  /\ UNCHANGED <<counters, file, taken, partial, placed>>

\* Are the records where map has them?
Placed(m, f) == \A c \in DOMAIN m, k \in 1 .. Len(f) :
  f[k].client = c <=> k \in m[c].pos + 1 .. m[c].pos + Size[c]

\* Reads the file; if any of it is broken, empties it and throws.
init ==
  /\ phase = "down" /\ starts < MaxStarts
  /\ starts' = starts + 1
  /\ IF Readable(file)
     THEN /\ phase' = "up" /\ map' = Loaded(file)
          /\ placed' = (placed /\ Placed(map', file))
          /\ taken' = IF partial THEN BrokerIDs(map') ELSE taken
          /\ UNCHANGED <<file, partial>>
     ELSE /\ phase' = "failed" /\ map' = NoInfo
          /\ file' = <<>> /\ partial' = TRUE /\ placed' = TRUE
          /\ UNCHANGED taken
  /\ UNCHANGED <<stores, left>>

\* rebuild, up to its loops: the caller's answer to an exception of init
rebuild ==
  /\ phase = "failed"
  /\ phase' = "rebuilding" /\ map' = NoInfo /\ file' = <<>> /\ left' = Messages
  /\ UNCHANGED <<counters, taken, partial, placed>>

\* The first message of a session that is left; the sessions are in the order of a hash table.
IsDue(id) == /\ id \in left
             /\ \A other \in left : other[1] = id[1] => other[2] >= id[2]
             /\ \A other \in Messages \ left : other[1] # id[1] => <<other[1], Len(stores[other[1]])>> \notin left

\* One turn of its loops
Replay(id) ==
  /\ phase = "rebuilding" /\ IsDue(id)
  /\ Updated(Sender(id), id)
  /\ left' = left \ {id}
  /\ UNCHANGED <<phase, counters, taken, partial, placed>>

RebuildReturns ==
  /\ phase = "rebuilding" /\ left = {}
  /\ phase' = "up" /\ partial' = FALSE /\ taken' = BrokerIDs(map)
  /\ UNCHANGED <<map, file, left, counters, placed>>

Crash == \E id \in IF phase = "up" THEN Messages ELSE {i \in left : IsDue(i)} : CrashInWrite(Sender(id), id)

Next ==
  \/ \E s \in Sessions, c \in Clients : Receive(s, c)
  \/ \E id \in Messages : updateRecord(id) \/ Replay(id)
  \/ Crash \/ Stop \/ init \/ rebuild \/ RebuildReturns

Spec == Init /\ [][Next]_vars

-----------------------------------------------------------------------------
(* Properties *)

\* "We update the record in both file and map": the file, read again, would give the map.
FileHasMap == phase \in {"up", "rebuilding"} =>
                Readable(file) /\ BrokerIDs(Loaded(file)) = BrokerIDs(map)

\* So it is, and no record has two places, unless init got a place wrong.
FileHasMapIfPlaced == placed => FileHasMap /\ Placed(map, file)

\* Whatever write a crash has cut, and after whatever rebuild: what was taken of each
\* client is not forgotten, unless a rebuild was due and did not end.
NothingForgotten ==
  phase = "up" /\ placed /\ ~partial =>
    \A c \in DOMAIN taken : c \in DOMAIN map /\ ~Before(map[c].broker, taken[c])

\* A rebuild finds each client's last message, in whatever order it takes the stores.
Latest == [c \in {Sender(id) : id \in Messages} |->
            CHOOSE id \in Messages : Sender(id) = c /\ \A other \in Messages : Sender(other) = c => ~Before(id, other)]
RebuildFindsLatest == [][phase = "rebuilding" /\ phase' = "up" => BrokerIDs(map') = Latest]_vars

=============================================================================
