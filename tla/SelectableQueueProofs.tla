----------------------- MODULE SelectableQueueProofs -----------------------
(***************************************************************************)
(* Proofs about the queue between threads and a select loop, for any       *)
(* number of threads and items, and any capacity of the pipe.              *)
(*                                                                         *)
(* The argument: as long as no call has failed, the items in the queue are *)
(* no more than the bytes in the pipe, the one that onEvent has read but   *)
(* not used, and those owed by threads and by notifyEvent                  *)
(* (EveryItemHasAByte).  That notifyEvent can pay for the silent items     *)
(* needs that only one thread does so at a time (Locked).                  *)
(*                                                                         *)
(* Items are never reordered because every step that moves them takes them *)
(* from the head of one sequence to the tail of the one before it          *)
(* (InOrder, inductive under the types).                                   *)
(***************************************************************************)
EXTENDS SelectableQueue, FiniteSetTheorems, SequenceTheorems, TLAPS

-----------------------------------------------------------------------------
(* The less of two numbers *)

\* Of two integers.
LEMMA MinOfPair ==
  ASSUME NEW a \in Int, NEW b \in Int
  PROVE  Min({a, b}) = IF a <= b THEN a ELSE b
<1>1. \E x \in {a, b} : \A y \in {a, b} : x <= y
  OBVIOUS
<1>2. Min({a, b}) \in {a, b} /\ \A y \in {a, b} : Min({a, b}) <= y
  BY <1>1 DEF Min
<1>. QED  BY <1>2

-----------------------------------------------------------------------------
(* The invariant *)

Locked == \A t \in Threads : pc[t] \in Notifies => counting = t

IInv == TypeOK /\ Locked /\ EveryItemHasAByte

Counters == Idle \cup Unsignalled \cup Notifies

-----------------------------------------------------------------------------
(* Bytes and threads *)

\* A write puts no more into the pipe than there is in the buffer and room for.
LEMMA WrittenBounds ==
  ASSUME TypeOK
  PROVE  /\ Written \in Nat
         /\ Written <= buffer.lim - buffer.pos
         /\ Written <= PipeCapacity - pipe
<1>1. buffer.lim - buffer.pos \in Nat /\ PipeCapacity - pipe \in Nat
  BY QueueAssumption DEF TypeOK
<1>2. Written = IF buffer.lim - buffer.pos <= PipeCapacity - pipe
                THEN buffer.lim - buffer.pos ELSE PipeCapacity - pipe
  BY <1>1, MinOfPair DEF Written
<1>. QED  BY <1>1, <1>2

BufferOK ==
  /\ buffer \in [pos : 0 .. PipeCapacity, lim : 0 .. PipeCapacity]
  /\ buffer.pos <= buffer.lim

LEMMA WriteTypes ==
  ASSUME TypeOK, WriteBuffer
  PROVE  (pipe \in 0 .. PipeCapacity)' /\ BufferOK'
<1>. USE QueueAssumption DEF TypeOK
<1>1. pipe' \in 0 .. PipeCapacity
  <2>1. pipe' = pipe + Written /\ Written \in Nat /\ Written <= PipeCapacity - pipe
    BY WrittenBounds DEF WriteBuffer
  <2>. QED  BY <2>1
<1>2. buffer.pos + Written \in 0 .. PipeCapacity /\ buffer.pos + Written <= buffer.lim
  BY WrittenBounds
<1>3. buffer' = [buffer EXCEPT !.pos = buffer.pos + Written]
  BY DEF WriteBuffer
<1>. QED  BY <1>1, <1>2, <1>3 DEF BufferOK

LEMMA AttemptBounds ==
  ASSUME TypeOK
  PROVE  Attempt \in 0 .. PipeCapacity /\ Attempt <= todo
<1>1. todo \in Nat /\ PipeCapacity \in Nat
  BY QueueAssumption DEF TypeOK
<1>2. Attempt = IF todo <= PipeCapacity THEN todo ELSE PipeCapacity
  BY <1>1, MinOfPair DEF Attempt
<1>. QED  BY <1>1, <1>2

\* onEvent takes an item if there is one.
LEMMA BatchBounds ==
  ASSUME TypeOK
  PROVE  Batch \in 0 .. Len(queue) /\ (Len(queue) > 0 => Batch > 0)
<1>1. batchSize \in Nat \ {0} /\ Len(queue) \in Nat
  BY QueueAssumption DEF TypeOK
<1>2. Batch = IF batchSize <= Len(queue) THEN batchSize ELSE Len(queue)
  BY <1>1, MinOfPair DEF Batch
<1>. QED  BY <1>1, <1>2

\* A batch and the rest of a queue.
LEMMA Split ==
  ASSUME NEW s \in Seq(Nat), NEW k \in 0 .. Len(s)
  PROVE  /\ SubSeq(s, 1, k) \in Seq(Nat)
         /\ SubSeq(s, k + 1, Len(s)) \in Seq(Nat)
         /\ Len(SubSeq(s, k + 1, Len(s))) = Len(s) - k
         /\ SubSeq(s, 1, k) \o SubSeq(s, k + 1, Len(s)) = s
<1>1. Len(s) \in Int /\ 1 \in Int /\ k \in Int /\ k + 1 \in Int
  OBVIOUS
<1>2. (\A i \in 1 .. k : s[i] \in Nat) /\ (\A i \in k + 1 .. Len(s) : s[i] \in Nat)
  OBVIOUS
<1>3. SubSeq(s, 1, k) \in Seq(Nat)
  BY <1>1, <1>2, SubSeqProperties, Zenon
<1>4. /\ SubSeq(s, k + 1, Len(s)) \in Seq(Nat)
      /\ Len(SubSeq(s, k + 1, Len(s))) = IF k + 1 <= Len(s) THEN Len(s) - (k + 1) + 1 ELSE 0
  <2>1. ASSUME NEW m \in Int, NEW n \in Int, \A i \in m .. n : s[i] \in Nat
        PROVE  /\ SubSeq(s, m, n) \in Seq(Nat)
               /\ Len(SubSeq(s, m, n)) = IF m <= n THEN n - m + 1 ELSE 0
    BY <2>1, SubSeqProperties
  <2>. QED  BY <1>1, <1>2, <2>1
<1>5. SubSeq(s, 1, k) \o SubSeq(s, k + 1, Len(s)) = SubSeq(s, 1, Len(s))
  <2>1. 1 \in 1 .. Len(s) + 1 /\ k \in 1 - 1 .. Len(s) /\ Len(s) \in k .. Len(s)
    BY <1>1
  <2>. QED  BY <2>1, ConcatAdjacentSubSeq, Zenon
<1>6. SubSeq(s, 1, Len(s)) = s
  BY SubSeqFull
<1>7. Len(SubSeq(s, k + 1, Len(s))) = Len(s) - k
  BY <1>1, <1>4
<1>. QED  BY <1>3, <1>4, <1>5, <1>6, <1>7, Zenon

\* How the number of threads that owe a byte changes when one of them moves on.
LEMMA PendingMoves ==
  ASSUME TypeOK, NEW t \in Threads, NEW from, NEW to, Goes(t, from, to)
  PROVE  /\ Cardinality(Pending) \in Nat /\ Cardinality(Pending') \in Nat
         /\ from \notin Unsignalled /\ to \in Unsignalled =>
              Cardinality(Pending') = Cardinality(Pending) + 1
         /\ from \in Unsignalled /\ to \notin Unsignalled =>
              Cardinality(Pending') = Cardinality(Pending) - 1
         /\ (from \in Unsignalled <=> to \in Unsignalled) => Pending' = Pending
<1>1. pc \in [Threads -> Counters] /\ pc[t] = from /\ pc' = [pc EXCEPT ![t] = to]
  BY DEF TypeOK, Goes, Counters
<1>2. IsFiniteSet(Pending)
  BY QueueAssumption, FS_Subset DEF Pending
<1>3. CASE to \in Unsignalled
  <2>1. Pending' = Pending \cup {t}
    BY <1>1, <1>3 DEF Pending
  <2>2. t \in Pending <=> from \in Unsignalled
    BY <1>1 DEF Pending
  <2>. QED  BY <1>2, <1>3, <2>1, <2>2, FS_AddElement, FS_CardinalityType
<1>4. CASE to \notin Unsignalled
  <2>1. Pending' = Pending \ {t}
    BY <1>1, <1>4 DEF Pending
  <2>2. t \in Pending <=> from \in Unsignalled
    BY <1>1 DEF Pending
  <2>. QED  BY <1>2, <1>4, <2>1, <2>2, FS_RemoveElement, FS_CardinalityType
<1>. QED  BY <1>3, <1>4

LEMMA PendingStays ==
  ASSUME TypeOK, UNCHANGED pc
  PROVE  Pending' = Pending /\ Cardinality(Pending) \in Nat
<1>1. IsFiniteSet(Pending)
  BY QueueAssumption, FS_Subset DEF Pending
<1>. QED  BY <1>1, FS_CardinalityType DEF Pending

-----------------------------------------------------------------------------
(* Types *)

LEMMA TypeInit == Init => TypeOK
<1>. SUFFICES ASSUME Init PROVE TypeOK
  OBVIOUS
<1>. USE QueueAssumption DEF Init
<1>1. queue \in Seq(Nat) /\ popStore \in Seq(Nat) /\ delivered \in Seq(Nat)
  OBVIOUS
<1>2. buffer \in [pos : 0 .. PipeCapacity, lim : 0 .. PipeCapacity] /\ buffer.pos <= buffer.lim
  OBVIOUS
<1>3. pc \in [Threads -> Idle \cup Unsignalled \cup Notifies]
  BY DEF Idle
<1>4. registered \in BOOLEAN /\ listening \in BOOLEAN /\ failed \in BOOLEAN
  OBVIOUS
<1>5. pipe \in 0 .. PipeCapacity /\ pushed \in 0 .. MaxItems /\ notifies \in 0 .. MaxNotifies
  OBVIOUS
<1>. QED  BY <1>1, <1>2, <1>3, <1>4, <1>5, Zenon DEF TypeOK

LEMMA TypeStep == TypeOK /\ [Next]_vars => TypeOK'
<1>. SUFFICES ASSUME TypeOK, [Next]_vars PROVE TypeOK'
  OBVIOUS
<1>. USE QueueAssumption DEF TypeOK, Idle, Unsignalled, Notifies, BufferOK
<1>1. CASE init \/ close \/ setListener
  BY <1>1 DEF init, close, setListener, channel, notifying, calls
<1>2. ASSUME NEW t \in Threads, push(t) \/ pushSilently(t) PROVE TypeOK'
  <2>1. PICK to \in {"queued", "uncounted"} : Enqueue(t, to)
    BY <1>2 DEF push, pushSilently
  <2>2. pushed' \in 0 .. MaxItems /\ pushed + 1 \in Nat
    BY <2>1 DEF Enqueue
  <2>3. queue' \in Seq(Nat)
    BY <2>1, <2>2 DEF Enqueue
  <2>4. pc' \in [Threads -> Idle \cup Unsignalled \cup Notifies]
    BY <2>1 DEF Enqueue, Goes
  <2>. QED  BY <2>1, <2>2, <2>3, <2>4 DEF Enqueue, setup, notifying
<1>3. ASSUME NEW t \in Threads, notifyEvent(t) PROVE TypeOK'
  BY <1>3 DEF notifyEvent, Goes, setup, channel
<1>4. ASSUME NEW t \in Threads, pushAim(t) PROVE TypeOK'
  BY <1>4 DEF pushAim, Goes, Aimed, setup, channel, notifying, calls
<1>5. ASSUME NEW t \in Threads, pushWrite(t) PROVE TypeOK'
  <2>1. (pipe \in 0 .. PipeCapacity)' /\ BufferOK'
    BY <1>5, WriteTypes DEF pushWrite
  <2>2. failed' \in BOOLEAN
    BY <1>5, Zenon DEF pushWrite
  <2>. QED  BY <1>5, <2>1, <2>2 DEF pushWrite, Goes, setup, notifying, calls
<1>6. ASSUME NEW t \in Threads, countSilent(t) PROVE TypeOK'
  BY <1>6 DEF countSilent, Goes, setup, channel, calls
<1>7. ASSUME NEW t \in Threads, notifyAim(t) PROVE TypeOK'
  BY <1>7, AttemptBounds DEF notifyAim, Goes, Aimed, setup, channel, notifying, calls
<1>8. ASSUME NEW t \in Threads, notifyWrite(t) PROVE TypeOK'
  <2>1. (pipe \in 0 .. PipeCapacity)' /\ BufferOK'
    BY <1>8, WriteTypes DEF notifyWrite
  <2>2. todo' \in Nat
    BY <1>8, AttemptBounds DEF notifyWrite
  <2>. QED  BY <1>8, <2>1, <2>2 DEF notifyWrite, Goes, setup, calls
<1>9. ASSUME NEW t \in Threads, notifyThrow(t) PROVE TypeOK'
  <2>1. (pipe \in 0 .. PipeCapacity)' /\ BufferOK'
    BY <1>9, WriteTypes DEF notifyThrow
  <2>. QED  BY <1>9, <2>1 DEF notifyThrow, Goes, setup, calls
<1>10. ASSUME NEW t \in Threads, notifyDone(t) PROVE TypeOK'
  BY <1>10 DEF notifyDone, Goes, setup, channel, calls
<1>11. CASE onEvent
  BY <1>11 DEF onEvent, LeftInPipe, setup, notifying, calls
<1>12. CASE takeBatch
  <2>1. SubSeq(queue, 1, Batch) \in Seq(Nat) /\ SubSeq(queue, Batch + 1, Len(queue)) \in Seq(Nat)
    BY BatchBounds, Split
  <2>. QED  BY <1>12, <2>1, SMTT(30) DEF takeBatch, setup, notifying, calls
<1>13. CASE callListener \/ nothingTaken
  <2>1. popStore' \in Seq(Nat) /\ delivered' \in Seq(Nat)
    <3>1. CASE callListener
      <4>1. Head(popStore) \in Nat /\ Tail(popStore) \in Seq(Nat)
        BY <3>1, HeadTailProperties DEF callListener
      <4>. QED  BY <3>1, <4>1 DEF callListener, Cleared
    <3>2. CASE nothingTaken
      BY <3>2 DEF nothingTaken, channel
    <3>. QED  BY <1>13, <3>1, <3>2
  <2>2. loop' \in {"select", "take", "call"}
    BY <1>13, Zenon DEF callListener, nothingTaken
  <2>. QED
    BY <1>13, <2>1, <2>2 DEF callListener, nothingTaken, setup, channel, notifying, calls
<1>14. CASE UNCHANGED vars
  BY <1>14 DEF vars, setup, channel, notifying, calls
<1>. QED
  BY <1>1, <1>2, <1>3, <1>4, <1>5, <1>6, <1>7, <1>8, <1>9, <1>10, <1>11, <1>12, <1>13, <1>14
     DEF Next, step, select

\* Types, for any threads, batches, items and capacity of the pipe.
THEOREM TypeCorrect == Spec => []TypeOK
BY TypeInit, TypeStep, PTL DEF Spec

-----------------------------------------------------------------------------
(* Bytes for items *)

LEMMA LockedStep == TypeOK /\ Locked /\ [Next]_vars => Locked'
<1>. SUFFICES ASSUME TypeOK, Locked, [Next]_vars, NEW u \in Threads, pc'[u] \in Notifies
              PROVE  counting' = u
  BY DEF Locked
<1>. USE QueueAssumption DEF TypeOK, Locked, Idle, Unsignalled, Notifies, Goes
<1>1. CASE init \/ close \/ setListener
  BY <1>1 DEF init, close, setListener, notifying
<1>2. ASSUME NEW t \in Threads, push(t) \/ pushSilently(t) PROVE counting' = u
  BY <1>2 DEF push, pushSilently, Enqueue, notifying
<1>3. ASSUME NEW t \in Threads, notifyEvent(t) PROVE counting' = u
  BY <1>3 DEF notifyEvent
<1>4. ASSUME NEW t \in Threads, pushAim(t) \/ pushWrite(t) \/ countSilent(t) PROVE counting' = u
  BY <1>4 DEF pushAim, pushWrite, countSilent, notifying
<1>5. ASSUME NEW t \in Threads, notifyAim(t) \/ notifyWrite(t) PROVE counting' = u
  BY <1>5 DEF notifyAim, notifyWrite, notifying
<1>6. ASSUME NEW t \in Threads, notifyThrow(t) \/ notifyDone(t) PROVE counting' = u
  BY <1>6 DEF notifyThrow, notifyDone
<1>7. CASE select \/ UNCHANGED vars
  BY <1>7 DEF select, onEvent, takeBatch, callListener, nothingTaken, vars, notifying
<1>. QED
  BY <1>1, <1>2, <1>3, <1>4, <1>5, <1>6, <1>7 DEF Next, step

LEMMA BytesInit == Init => Locked /\ EveryItemHasAByte
<1>. SUFFICES ASSUME Init PROVE Locked /\ EveryItemHasAByte
  OBVIOUS
<1>1. Locked
  BY DEF Init, Locked, Notifies
<1>2. Pending = {}
  BY DEF Init, Pending, Unsignalled
<1>. QED  BY <1>1, <1>2, FS_EmptySet DEF Init, EveryItemHasAByte, Owed, Taking

LEMMA BytesStep == IInv /\ [Next]_vars => EveryItemHasAByte'
<1>. SUFFICES ASSUME IInv, [Next]_vars, ~failed' PROVE (Len(queue) <= pipe + Taking + Owed)'
  BY DEF EveryItemHasAByte
<1>. DEFINE Bytes == Len(queue) <= pipe + Taking + Owed
<1>a. TypeOK /\ Locked
  BY DEF IInv
<1>b. ~failed
  BY <1>a DEF Next, vars, step, select, init, close, setListener, push, pushSilently, Enqueue,
     notifyEvent, pushAim, pushWrite, countSilent, notifyAim, notifyWrite, notifyThrow,
     notifyDone, onEvent, takeBatch, callListener, nothingTaken, TypeOK
<1>c. Bytes
  BY <1>b DEF IInv, EveryItemHasAByte
<1>d. Len(queue) \in Nat /\ pipe \in Nat /\ Taking \in Nat /\ silent \in Nat /\ todo \in Nat
  BY <1>a, QueueAssumption DEF TypeOK, Taking
<1>1. CASE init \/ close \/ setListener \/ UNCHANGED vars
  BY <1>1, <1>c DEF init, close, setListener, vars, channel, notifying, Owed, Taking, Pending
<1>2. ASSUME NEW t \in Threads, push(t) \/ pushSilently(t) PROVE Bytes'
  <2>1. PICK to \in {"queued", "uncounted"} : Enqueue(t, to)
    BY <1>2 DEF push, pushSilently
  <2>2. Cardinality(Pending') = Cardinality(Pending) + 1 /\ Cardinality(Pending) \in Nat
    BY <1>a, <2>1, PendingMoves DEF Enqueue, Unsignalled
  <2>3. Len(queue') = Len(queue) + 1
    BY <1>a, <2>1 DEF Enqueue, TypeOK
  <2>. QED  BY <1>c, <1>d, <2>1, <2>2, <2>3, SMTT(30) DEF Enqueue, notifying, Owed, Taking
<1>3. ASSUME NEW t \in Threads, notifyEvent(t) PROVE Bytes'
  <2>1. Pending' = Pending
    BY <1>3, <1>a, PendingMoves DEF notifyEvent, Unsignalled
  <2>. QED  BY <1>3, <1>c, <2>1, QueueAssumption DEF notifyEvent, channel, Owed, Taking
<1>4. ASSUME NEW t \in Threads, pushAim(t) PROVE Bytes'
  <2>1. Pending' = Pending
    BY <1>4, <1>a, PendingMoves DEF pushAim, Unsignalled
  <2>. QED  BY <1>4, <1>c, <2>1 DEF pushAim, channel, notifying, Owed, Taking
<1>5. ASSUME NEW t \in Threads, pushWrite(t) PROVE Bytes'
  <2>1. Cardinality(Pending') = Cardinality(Pending) - 1 /\ Cardinality(Pending) \in Nat
    BY <1>5, <1>a, PendingMoves DEF pushWrite, Unsignalled
  <2>2. Written # 0
    BY <1>5, Zenon DEF pushWrite
  <2>3. Written \in Nat
    BY <1>a, WrittenBounds
  <2>4. pipe' = pipe + Written /\ UNCHANGED <<queue, silent, todo, counting, loop>>
    BY <1>5 DEF pushWrite, WriteBuffer, notifying
  <2>. QED  BY <1>c, <1>d, <2>1, <2>2, <2>3, <2>4 DEF Owed, Taking
<1>6. ASSUME NEW t \in Threads, countSilent(t) PROVE Bytes'
  <2>1. Cardinality(Pending') = Cardinality(Pending) - 1 /\ Cardinality(Pending) \in Nat
    BY <1>6, <1>a, PendingMoves DEF countSilent, Unsignalled
  <2>. QED  BY <1>6, <1>c, <1>d, <2>1 DEF countSilent, channel, Owed, Taking
<1>7. ASSUME NEW t \in Threads, notifyAim(t) PROVE Bytes'
  <2>1. Pending' = Pending
    BY <1>7, <1>a, PendingMoves DEF notifyAim, Unsignalled
  <2>. QED  BY <1>7, <1>c, <2>1 DEF notifyAim, channel, notifying, Owed, Taking
<1>8. ASSUME NEW t \in Threads, notifyWrite(t) PROVE Bytes'
  <2>1. Pending' = Pending /\ Cardinality(Pending) \in Nat
    BY <1>8, <1>a, PendingMoves DEF notifyWrite, Unsignalled
  <2>2. counting = t /\ t # NoThread /\ counting' = counting
    BY <1>8, <1>a, QueueAssumption DEF notifyWrite, Goes, Locked, Notifies
  <2>3. pipe' = pipe + Attempt /\ todo' = todo - Attempt /\ Attempt \in Nat
    BY <1>8, <1>a, AttemptBounds, QueueAssumption DEF notifyWrite, WriteBuffer
  <2>. QED  BY <1>8, <1>c, <1>d, <2>1, <2>2, <2>3 DEF notifyWrite, Owed, Taking
<1>9. ASSUME NEW t \in Threads, notifyThrow(t) PROVE Bytes'
  BY <1>9 DEF notifyThrow
<1>10. ASSUME NEW t \in Threads, notifyDone(t) PROVE Bytes'
  <2>1. Pending' = Pending
    BY <1>10, <1>a, PendingMoves DEF notifyDone, Unsignalled
  <2>2. counting = t /\ t # NoThread
    BY <1>10, <1>a, QueueAssumption DEF notifyDone, Goes, Locked, Notifies
  <2>. QED  BY <1>10, <1>c, <2>1, <2>2 DEF notifyDone, channel, Owed, Taking
<1>11. CASE onEvent
  <2>1. Pending' = Pending /\ Cardinality(Pending) \in Nat
    BY <1>11, <1>a, PendingStays DEF onEvent
  <2>. QED  BY <1>11, <1>c, <1>d, <2>1 DEF onEvent, LeftInPipe, notifying, Owed, Taking
<1>12. CASE takeBatch
  <2>1. Pending' = Pending /\ Cardinality(Pending) \in Nat
    BY <1>12, <1>a, PendingStays DEF takeBatch
  <2>2. Len(queue') = Len(queue) - Batch
    BY <1>12, <1>a, <1>d, BatchBounds, Split DEF takeBatch, TypeOK
  <2>3. Batch \in 0 .. Len(queue) /\ (Len(queue) > 0 => Batch > 0)
    BY <1>a, BatchBounds
  <2>. QED  BY <1>12, <1>c, <1>d, <2>1, <2>2, <2>3, SMTT(30) DEF takeBatch, notifying, Owed, Taking
<1>13. CASE callListener \/ nothingTaken
  <2>1. Pending' = Pending
    BY <1>13, <1>a, PendingStays DEF callListener, nothingTaken
  <2>2. Taking' = Taking
    BY <1>13 DEF callListener, nothingTaken, Taking
  <2>. QED  BY <1>13, <1>c, <2>1, <2>2 DEF callListener, nothingTaken, channel, notifying, Owed
<1>. QED
  BY <1>1, <1>2, <1>3, <1>4, <1>5, <1>6, <1>7, <1>8, <1>9, <1>10, <1>11, <1>12, <1>13
     DEF Next, step, select

\* No item is left in the queue without a byte that will fetch it, unless a call has
\* reported a failure, for any threads, batches, items and capacity of the pipe.
THEOREM EveryItemHasAByteCorrect == Spec => []EveryItemHasAByte
<1>1. Init => IInv
  BY TypeInit, BytesInit DEF IInv
<1>2. IInv /\ [Next]_vars => IInv'
  BY TypeStep, LockedStep, BytesStep DEF IInv
<1>3. IInv => EveryItemHasAByte
  BY DEF IInv
<1>. QED  BY <1>1, <1>2, <1>3, PTL DEF Spec

-----------------------------------------------------------------------------
(* Order *)

\* Taking a batch moves items from one sequence to the next.
LEMMA Regroup ==
  \A d, p, x, y \in Seq(Nat) : d \o (p \o x) \o y = d \o p \o (x \o y)
<1>. TAKE d, p, x, y \in Seq(Nat)
<1>1. d \o p \in Seq(Nat)
  BY ConcatProperties
<1>2. (d \o p) \o x = d \o (p \o x)
  BY ConcatAssociative, SMTT(30)
<1>3. ((d \o p) \o x) \o y = (d \o p) \o (x \o y)
  BY <1>1, ConcatAssociative, SMTT(30)
<1>. QED  BY <1>2, <1>3

LEMMA HeadAndTail ==
  ASSUME NEW d \in Seq(Nat), NEW p \in Seq(Nat), p # <<>>
  PROVE  Append(d, Head(p)) \o Tail(p) = d \o p
<1>1. /\ Head(p) \in Nat /\ Tail(p) \in Seq(Nat) /\ Len(Tail(p)) = Len(p) - 1
      /\ \A i \in 1 .. Len(Tail(p)) : Tail(p)[i] = p[i + 1]
  BY HeadTailProperties
<1>2. <<Head(p)>> \in Seq(Nat) /\ Append(d, Head(p)) = d \o <<Head(p)>>
  BY <1>1
<1>3. <<Head(p)>> \o Tail(p) = p
  <2>. DEFINE q == <<Head(p)>> \o Tail(p)
  <2>1. /\ q \in Seq(Nat) /\ Len(q) = 1 + Len(Tail(p))
        /\ \A i \in 1 .. 1 + Len(Tail(p)) :
             q[i] = IF i <= 1 THEN <<Head(p)>>[i] ELSE Tail(p)[i - 1]
    BY <1>1, <1>2, ConcatProperties
  <2>2. Len(q) = Len(p) /\ \A i \in 1 .. Len(q) : q[i] = p[i]
    BY <1>1, <2>1
  <2>. HIDE DEF q
  <2>. QED  BY <2>1, <2>2, SeqEqual DEF q
<1>4. (d \o <<Head(p)>>) \o Tail(p) = d \o (<<Head(p)>> \o Tail(p))
  BY <1>1, <1>2, ConcatAssociative, SMTT(30)
<1>. QED  BY <1>2, <1>3, <1>4

LEMMA OrderStep == TypeOK /\ InOrder /\ [Next]_vars => InOrder'
<1>. SUFFICES ASSUME TypeOK, InOrder, [Next]_vars PROVE InOrder'
  OBVIOUS
<1>a. queue \in Seq(Nat) /\ popStore \in Seq(Nat) /\ delivered \in Seq(Nat)
  BY DEF TypeOK
<1>1. ASSUME NEW t \in Threads, push(t) \/ pushSilently(t) PROVE InOrder'
  <2>. DEFINE before == delivered \o popStore
  <2>1. queue' = Append(queue, pushed + 1) /\ pushed' = pushed + 1
        /\ UNCHANGED <<delivered, popStore>> /\ pushed + 1 \in Nat /\ pushed \in Nat
    BY <1>1, QueueAssumption, SMTT(30) DEF push, pushSilently, Enqueue, TypeOK
  <2>2. before \in Seq(Nat) /\ <<pushed + 1>> \in Seq(Nat)
    BY <1>a, <2>1, ConcatProperties
  <2>3. before \o Append(queue, pushed + 1) = Append(before \o queue, pushed + 1)
    <3>1. before \o (queue \o <<pushed + 1>>) = (before \o queue) \o <<pushed + 1>>
      BY <1>a, <2>2, ConcatAssociative, SMTT(30)
    <3>2. before \o queue \in Seq(Nat)
      BY <1>a, <2>2, ConcatProperties
    <3>3. Append(queue, pushed + 1) = queue \o <<pushed + 1>>
      BY <1>a, <2>1, AppendIsConcat, Zenon
    <3>4. Append(before \o queue, pushed + 1) = (before \o queue) \o <<pushed + 1>>
      BY <2>1, <3>2, AppendIsConcat, Zenon
    <3>. QED  BY <3>1, <3>3, <3>4, Zenon
  <2>4. Append([i \in 1 .. pushed |-> i], pushed + 1) = [i \in 1 .. pushed + 1 |-> i]
    BY <2>1
  <2>. QED  BY <2>1, <2>3, <2>4 DEF InOrder
<1>2. CASE takeBatch
  <2>. DEFINE x == SubSeq(queue, 1, Batch)
              y == SubSeq(queue, Batch + 1, Len(queue))
  <2>1. x \in Seq(Nat) /\ y \in Seq(Nat)
    BY <1>a, BatchBounds, Split
  <2>4. x \o y = queue
    BY <1>a, BatchBounds, Split
  <2>2. popStore' = popStore \o x /\ queue' = y /\ UNCHANGED <<delivered, pushed>>
    BY <1>2 DEF takeBatch, calls
  <2>. HIDE DEF x, y
  <2>3. delivered \o (popStore \o x) \o y = delivered \o popStore \o (x \o y)
    <3>1. \A a, b \in Seq(Nat) :
            delivered \o (popStore \o a) \o b = delivered \o popStore \o (a \o b)
      BY <1>a, Regroup
    <3>. QED  BY <2>1, <3>1, Zenon
  <2>. QED  BY <2>2, <2>3, <2>4 DEF InOrder
<1>3. CASE callListener
  <2>1. Append(delivered, Head(popStore)) \o Tail(popStore) = delivered \o popStore
    BY <1>a, <1>3, HeadAndTail DEF callListener
  <2>. QED  BY <1>3, <2>1 DEF callListener, Cleared, InOrder, calls
<1>4. CASE UNCHANGED <<queue, popStore, delivered, pushed>>
  BY <1>4 DEF InOrder
<1>. QED
  <2>1. \/ UNCHANGED <<queue, popStore, delivered, pushed>>
        \/ takeBatch \/ callListener \/ \E t \in Threads : push(t) \/ pushSilently(t)
    BY Zenon DEF Next, step, select, init, close, setListener, notifyEvent, pushAim, pushWrite,
       countSilent, notifyAim, notifyWrite, notifyThrow, notifyDone, onEvent, nothingTaken,
       vars, channel, calls
  <2>. QED  BY <1>1, <1>2, <1>3, <1>4, <2>1

\* Items reach the listener once each and in the order in which they were pushed, for any
\* threads, batches, items and capacity of the pipe.
THEOREM InOrderCorrect == Spec => []InOrder
<1>1. Init => InOrder
  <2>. SUFFICES ASSUME Init PROVE InOrder
    OBVIOUS
  <2>1. [i \in 1 .. 0 |-> i] = <<>>
    OBVIOUS
  <2>. QED  BY <2>1 DEF Init, InOrder
<1>. QED  BY <1>1, TypeInit, TypeStep, OrderStep, PTL DEF Spec
=============================================================================
