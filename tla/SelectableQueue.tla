-------------------------- MODULE SelectableQueue --------------------------
(***************************************************************************)
(* The queue between threads and a select loop                             *)
(* (src/include/util/LightmqSelectableQueue.h).                            *)
(*                                                                         *)
(* Threads append items under a lock and then write a byte per item to a   *)
(* non-blocking pipe, either at once (push) or later for all items that    *)
(* were pushed silently (notifyEvent).  The select loop calls onEvent      *)
(* while the pipe is readable: it reads one byte, takes a batch of items   *)
(* under the lock, and calls the listener without it.                      *)
(*                                                                         *)
(* push and notifyEvent write from the same buffer, but only push takes    *)
(* the buffer's lock, so that preparing the buffer and writing from it are *)
(* steps of their own.  Within a write, reading and moving the buffer's    *)
(* position are one step: a caller goes by the number of bytes that its    *)
(* own write has put into the pipe, so that two writes of the same bytes   *)
(* would only leave more of them.                                          *)
(***************************************************************************)
EXTENDS FiniteSetsExt, Integers, Sequences

CONSTANTS
  Threads,
  BatchSizes,   \* that owners choose
  PipeCapacity, \* of the pipe and of the write buffer
  MaxItems,     \* bound: items that are pushed
  MaxNotifies,  \* bound: calls of notifyEvent; the locks are spin locks, not fair
  NoThread

ASSUME QueueAssumption ==
  /\ BatchSizes \subseteq Nat \ {0} /\ PipeCapacity \in Nat \ {0}
  /\ MaxItems \in Nat /\ MaxNotifies \in Nat
  /\ IsFiniteSet(Threads) /\ NoThread \notin Threads

VARIABLES
  batchSize,  \* m_readBatchSize
  registered, \* with the selector?
  listening,  \* is m_listener set?
  queue,      \* m_queue: items, numbered in the order in which they were pushed
  pipe,       \* bytes in the pipe
  buffer,     \* m_pWriteBuffer: [pos, lim]
  writing,    \* who holds m_writeBufferLock
  silent,     \* m_silentItemCount
  counting,   \* who holds m_silentItemCountLock
  todo,       \* byteToWrite of notifyEvent
  pc,         \* where each thread is
  loop,       \* where the select loop is
  popStore,   \* m_popStore
  pushed,     \* history: number of items pushed
  notifies,   \* history: number of calls of notifyEvent
  delivered,  \* history: items that the listener was called with
  failed      \* history: push has returned false or notifyEvent has thrown

channel == <<queue, pipe, popStore, delivered>>
notifying == <<silent, counting, todo>>
setup == <<batchSize, registered, listening>>
calls == <<pushed, notifies>>
vars == <<setup, channel, buffer, writing, notifying, pc, loop, calls, failed>>

Init ==
  /\ batchSize \in BatchSizes /\ registered = FALSE /\ listening = FALSE
  /\ queue = <<>> /\ pipe = 0 /\ popStore = <<>> /\ delivered = <<>>
  /\ buffer = [pos |-> 0, lim |-> PipeCapacity]
  /\ writing = NoThread /\ counting = NoThread
  /\ silent = 0 /\ todo = 0
  /\ pc = [t \in Threads |-> "idle"] /\ loop = "select"
  /\ pushed = 0 /\ notifies = 0 /\ failed = FALSE

Goes(t, from, to) == pc[t] = from /\ pc' = [pc EXCEPT ![t] = to]

-----------------------------------------------------------------------------
(* The owner *)

init ==
  /\ ~registered /\ registered' = TRUE
  /\ UNCHANGED <<batchSize, listening, channel, buffer, writing, notifying, pc, loop, calls, failed>>

close ==
  /\ registered /\ registered' = FALSE
  /\ UNCHANGED <<batchSize, listening, channel, buffer, writing, notifying, pc, loop, calls, failed>>

setListener ==
  /\ ~listening /\ listening' = TRUE
  /\ UNCHANGED <<batchSize, registered, channel, buffer, writing, notifying, pc, loop, calls, failed>>

-----------------------------------------------------------------------------
(* Threads *)

Enqueue(t, next) ==
  /\ pushed < MaxItems /\ pushed' = pushed + 1
  /\ queue' = Append(queue, pushed + 1)
  /\ Goes(t, "idle", next)
  /\ UNCHANGED <<setup, pipe, popStore, delivered, buffer, writing, notifying, loop, notifies, failed>>

push(t) == Enqueue(t, "queued")
pushSilently(t) == Enqueue(t, "uncounted")

\* setLimit(n).setPosition(0)
Aimed(n) == [pos |-> 0, lim |-> n]

\* Mutant: the pipe takes everything.
WrittenAll == buffer.lim - buffer.pos

\* Bytes that a write from the buffer puts into the pipe.
Written == Min({buffer.lim - buffer.pos, PipeCapacity - pipe})

WriteBuffer ==
  /\ pipe' = pipe + Written
  /\ buffer' = [buffer EXCEPT !.pos = @ + Written]

pushAim(t) ==
  /\ writing = NoThread /\ writing' = t
  /\ Goes(t, "queued", "aimed")
  /\ buffer' = Aimed(1)
  /\ UNCHANGED <<setup, channel, notifying, loop, calls, failed>>

\* Mutant: a pipe that is not empty needs no byte.
pushWriteOnce(t) ==
  /\ Goes(t, "aimed", "idle")
  /\ IF pipe = 0 THEN WriteBuffer ELSE UNCHANGED <<pipe, buffer>>
  /\ writing' = NoThread
  /\ failed' = (failed \/ (pipe = 0 /\ Written = 0))
  /\ UNCHANGED <<setup, queue, popStore, delivered, notifying, loop, calls>>

pushWrite(t) ==
  /\ Goes(t, "aimed", "idle")
  /\ WriteBuffer
  /\ writing' = NoThread
  /\ failed' = (failed \/ Written = 0)
  /\ UNCHANGED <<setup, queue, popStore, delivered, notifying, loop, calls>>

countSilent(t) ==
  /\ counting = NoThread
  /\ Goes(t, "uncounted", "idle")
  /\ silent' = silent + 1
  /\ UNCHANGED <<setup, channel, buffer, writing, counting, todo, loop, calls, failed>>

notifyEvent(t) ==
  /\ notifies < MaxNotifies /\ notifies' = notifies + 1
  /\ counting = NoThread /\ counting' = t
  /\ Goes(t, "idle", "notify")
  /\ todo' = silent
  /\ UNCHANGED <<setup, channel, buffer, writing, silent, loop, pushed, failed>>

Attempt == Min({todo, PipeCapacity})

notifyAim(t) ==
  /\ todo > 0
  /\ Goes(t, "notify", "notifyAimed")
  /\ buffer' = Aimed(Attempt)
  /\ UNCHANGED <<setup, channel, writing, notifying, loop, calls, failed>>

notifyWrite(t) ==
  /\ Written = Attempt
  /\ Goes(t, "notifyAimed", "notify")
  /\ WriteBuffer
  /\ todo' = todo - Attempt
  /\ UNCHANGED <<setup, queue, popStore, delivered, writing, silent, counting, loop, calls, failed>>

\* Mutant: the lock is kept when notifyEvent throws.
notifyThrowLocked(t) ==
  /\ Written # Attempt
  /\ Goes(t, "notifyAimed", "idle")
  /\ WriteBuffer
  /\ failed' = TRUE
  /\ UNCHANGED <<setup, queue, popStore, delivered, writing, silent, counting, todo, loop, calls>>

\* The count stays, also for what has been written.
notifyThrow(t) ==
  /\ Written # Attempt
  /\ Goes(t, "notifyAimed", "idle")
  /\ WriteBuffer
  /\ counting' = NoThread /\ failed' = TRUE
  /\ UNCHANGED <<setup, queue, popStore, delivered, writing, silent, todo, loop, calls>>

notifyDone(t) ==
  /\ todo = 0
  /\ Goes(t, "notify", "idle")
  /\ silent' = 0 /\ counting' = NoThread
  /\ UNCHANGED <<setup, channel, buffer, writing, todo, loop, calls, failed>>

-----------------------------------------------------------------------------
(* The select loop *)

\* Mutant: onEvent reads whatever is in the pipe.
LeftInPipeNothing == 0

\* m_readBuffer holds one byte.
LeftInPipe == pipe - 1

onEvent ==
  /\ registered /\ listening /\ loop = "select" /\ pipe > 0
  /\ pipe' = LeftInPipe /\ loop' = "take"
  /\ UNCHANGED <<setup, queue, popStore, delivered, buffer, writing, notifying, pc, calls, failed>>

Batch == Min({batchSize, Len(queue)})

takeBatch ==
  /\ loop = "take" /\ loop' = "call"
  /\ popStore' = popStore \o SubSeq(queue, 1, Batch)
  /\ queue' = SubSeq(queue, Batch + 1, Len(queue))
  /\ UNCHANGED <<setup, pipe, delivered, buffer, writing, notifying, pc, calls, failed>>

\* Mutant: m_popStore is not cleared.
NotCleared == popStore

\* The items that are left to call the listener with, clear at the end.
Cleared == Tail(popStore)

callListener ==
  /\ loop = "call" /\ popStore # <<>>
  /\ delivered' = Append(delivered, Head(popStore))
  /\ popStore' = Cleared
  /\ loop' = IF Len(popStore) = 1 THEN "select" ELSE "call"
  /\ UNCHANGED <<setup, queue, pipe, buffer, writing, notifying, pc, calls, failed>>

nothingTaken ==
  /\ loop = "call" /\ popStore = <<>> /\ loop' = "select"
  /\ UNCHANGED <<setup, channel, buffer, writing, notifying, pc, calls, failed>>

-----------------------------------------------------------------------------
step(t) ==
  \/ pushAim(t) \/ pushWrite(t) \/ countSilent(t)
  \/ notifyAim(t) \/ notifyWrite(t) \/ notifyThrow(t) \/ notifyDone(t)

select == onEvent \/ takeBatch \/ callListener \/ nothingTaken

Next ==
  \/ init \/ close \/ setListener
  \/ \E t \in Threads : push(t) \/ pushSilently(t) \/ notifyEvent(t) \/ step(t)
  \/ select

\* The scheduler runs every thread that can run, and the select loop; nobody has to
\* call anything.
Fairness == WF_vars(select) /\ \A t \in Threads : WF_vars(step(t))

Spec == Init /\ [][Next]_vars /\ Fairness

-----------------------------------------------------------------------------
(* Properties *)

Idle == {"idle"}
Unsignalled == {"queued", "aimed", "uncounted"}
Notifies == {"notify", "notifyAimed"}

\* Types.  The pipe holds no more than it can.
TypeOK ==
  /\ batchSize \in BatchSizes
  /\ registered \in BOOLEAN /\ listening \in BOOLEAN /\ failed \in BOOLEAN
  /\ queue \in Seq(Nat) /\ popStore \in Seq(Nat) /\ delivered \in Seq(Nat)
  /\ pipe \in 0 .. PipeCapacity
  /\ buffer \in [pos : 0 .. PipeCapacity, lim : 0 .. PipeCapacity] /\ buffer.pos <= buffer.lim
  /\ writing \in Threads \cup {NoThread} /\ counting \in Threads \cup {NoThread}
  /\ pushed \in 0 .. MaxItems /\ notifies \in 0 .. MaxNotifies /\ silent \in Nat /\ todo \in Nat
  /\ pc \in [Threads -> Idle \cup Unsignalled \cup Notifies]
  /\ loop \in {"select", "take", "call"}

\* The listener gets every item once, in the order in which the items were pushed,
\* whichever thread pushed them and however (push, pushSilently, onEvent).
InOrder == delivered \o popStore \o queue = [i \in 1 .. pushed |-> i]

\* Items that are owed a byte: pushed and not yet written, or not yet notified.
Pending == {t \in Threads : pc[t] \in Unsignalled}
Owed == Cardinality(Pending) + IF counting = NoThread THEN silent ELSE todo
Taking == IF loop = "take" THEN 1 ELSE 0

\* No call fails without saying so: as long as none has, there is a byte in the pipe
\* for every item, or a thread on the way to write one, although push and notifyEvent
\* overwrite each other's buffer (push, notifyEvent, onEvent).
EveryItemHasAByte == ~failed => Len(queue) <= pipe + Taking + Owed

\* What is pushed reaches the listener, if the queue stays registered, silent items
\* are notified, and no call has reported a failure.
Delivery ==
  (<>listening /\ <>[](registered /\ silent = 0)) =>
    \A i \in 1 .. MaxItems : pushed >= i ~> (\E j \in DOMAIN delivered : delivered[j] = i) \/ failed

\* No call waits for ever for a lock, also when notifyEvent throws while it holds one.
CallsReturn == \A t \in Threads : pc[t] # "idle" ~> pc[t] = "idle"
=============================================================================
