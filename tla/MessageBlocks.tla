---------------------------- MODULE MessageBlocks ----------------------------
(***************************************************************************)
(* The blocks of messages that wait for a consumer                         *)
(* (src/include/util/MessageBlocksNew.h).                                  *)
(*                                                                         *)
(* A block is a run of sequences of one kind (level, retransmitted or not, *)
(* member of a group or not).  MessageBlocksMapImpl keeps blocks by their  *)
(* first sequence, MessageBlocksDequeImpl in the order they came; both     *)
(* count their messages in m_totalCount, and split moves messages from one *)
(* container to another.                                                   *)
(*                                                                         *)
(* insert looks at the block behind the new one without asking whether     *)
(* there is one: it then reads memory behind the map, here any member of   *)
(* Strays.                                                                 *)
(***************************************************************************)
EXTENDS SequenceUtil, FiniteSetsExt, Functions

CONSTANTS
  MaxSeq,  \* bound: sequences are 1 .. MaxSeq
  Kinds,   \* kinds of messages
  Strays   \* what reading behind the map may give

Seqs == 1 .. MaxSeq
Blocks == {b \in [from : Seqs, to : Seqs, kind : Kinds] : b.from <= b.to}

\* Sequences end before the numbers do.
ASSUME BlocksAssumption ==
  MaxSeq \in Nat \ {0} /\ MaxSeq + 1 < Modulus /\ Strays \subseteq Blocks /\ Strays # {}

VARIABLES
  map,     \* m_messageMap and m_totalCount: [blocks |-> set, total |-> count]
  deque,   \* m_messageDeque and m_totalCount: [blocks |-> sequence, total |-> count]
  fresh,   \* history: sequences that were not yet put in
  given,   \* history: sequences that a consumer has
  expired, \* history: sequences that removeExpired dropped, of each container
  lost,    \* history: sequences that an insertion dropped
  broken   \* "no", or the memory error that ended the behaviour

vars == <<map, deque, fresh, given, expired, lost, broken>>

-----------------------------------------------------------------------------
(* Blocks: BlockElementBase, BriefBlock (declared in the header only) *)

RangeOf(b) == b.from .. b.to
messageCnt(b) == b.to - b.from + 1
isNextTo(b, a) == b.from = a.to + 1 /\ b.kind = a.kind
Joined(a, b) == [a EXCEPT !.to = b.to]

Held(bs) == UNION {RangeOf(b) : b \in bs}
Lowest(bs) == CHOOSE b \in bs : \A c \in bs : b.from <= c.from
Highest(bs) == CHOOSE b \in bs : \A c \in bs : c.from <= b.from
InMap == Held(map.blocks)
InDeque == Held(Range(deque.blocks))

\* split of a block: the first n messages, and the others.
First(b, n) == [b EXCEPT !.to = b.from + n - 1]
Others(b, n) == [b EXCEPT !.from = b.from + n]

\* subtract
Subtract(total, n) == IF total <= n THEN 0 ELSE total - n

-----------------------------------------------------------------------------
(* Insertion, on [blocks, total, lost, erased]: the map, what was lost on the way, and
   whether a block of the map was erased *)

Work(m) == [blocks |-> m.blocks, total |-> m.total, lost |-> {}, erased |-> FALSE]

\* Mutant: the block behind stays although it was appended.
insertKeeps(w, b, stray) ==
  LET behind == {x \in w.blocks : x.from >= b.from}
      it == IF behind = {} THEN stray ELSE Lowest(behind)
  IN [w EXCEPT !.blocks = @ \cup {IF isNextTo(it, b) THEN Joined(b, it) ELSE b},
               !.total = @ + messageCnt(b)]

\* insert: the test of whether b follows the block on its left asks the block on its right.
insert(w, b, stray) ==
  LET behind == {x \in w.blocks : x.from >= b.from}
      before == w.blocks \ behind
      it == IF behind = {} THEN stray ELSE Lowest(behind)
      toLeft == before # {} /\ isNextTo(it, b)
      left == Highest(before)
      grown == IF ~toLeft THEN b ELSE IF isNextTo(b, left) THEN Joined(left, b) ELSE left
      merges == behind # {} /\ isNextTo(it, grown)
      replaced == (IF toLeft THEN {left} ELSE {}) \cup (IF merges THEN {it} ELSE {})
  IN
  IF it.from = b.from THEN [w EXCEPT !.lost = @ \cup RangeOf(b)]
  ELSE [blocks |-> (w.blocks \ replaced) \cup {IF merges THEN Joined(grown, it) ELSE grown},
        total  |-> w.total + messageCnt(b),
        lost   |-> IF toLeft /\ ~isNextTo(b, left) THEN w.lost \cup RangeOf(b) ELSE w.lost,
        erased |-> w.erased \/ merges]

\* Mutant: a block that is appended to the last one is not counted.
pushBackMapUncounted(w, b, stray) ==
  IF w.blocks # {} /\ isNextTo(b, Highest(w.blocks))
  THEN [w EXCEPT !.blocks = (@ \ {Highest(@)}) \cup {Joined(Highest(@), b)}]
  ELSE insert(w, b, stray)

\* MessageBlocksMapImpl::pushBack
pushBackMap(w, b, stray) ==
  IF w.blocks # {} /\ isNextTo(b, Highest(w.blocks))
  THEN [w EXCEPT !.blocks = (@ \ {Highest(@)}) \cup {Joined(Highest(@), b)}, !.total = @ + messageCnt(b)]
  ELSE insert(w, b, stray)

\* MessageBlocksDequeImpl::pushBack
pushBackDeque(d, b) ==
  [blocks |-> IF d.blocks # <<>> /\ isNextTo(b, d.blocks[Len(d.blocks)])
              THEN [d.blocks EXCEPT ![Len(d.blocks)] = Joined(@, b)]
              ELSE Append(d.blocks, b),
   total  |-> d.total + messageCnt(b)]

\* The deque without the first n messages of its first block.
Without(d, n) ==
  [blocks |-> IF n = messageCnt(Head(d.blocks)) THEN Tail(d.blocks)
              ELSE [d.blocks EXCEPT ![1] = Others(@, n)],
   total  |-> d.total - n]

Keep(w) ==
  /\ map' = [blocks |-> w.blocks, total |-> w.total]
  /\ lost' = lost \cup w.lost

-----------------------------------------------------------------------------
(* Putting in *)

Init ==
  /\ map = [blocks |-> {}, total |-> 0] /\ deque = [blocks |-> <<>>, total |-> 0]
  /\ fresh = Seqs /\ given = {} /\ expired = [map |-> {}, deque |-> {}] /\ lost = {}
  /\ broken = "no"

\* New messages, or messages that a consumer gives back.
Source(b) ==
  \/ RangeOf(b) \subseteq fresh /\ fresh' = fresh \ RangeOf(b) /\ given' = given
  \/ RangeOf(b) \subseteq given /\ given' = given \ RangeOf(b) /\ fresh' = fresh

Insert(b, stray) ==
  /\ broken = "no" /\ Source(b)
  /\ Keep(insert(Work(map), b, stray))
  /\ UNCHANGED <<deque, expired, broken>>

PushBackMap(b, stray) ==
  /\ broken = "no" /\ Source(b)
  /\ Keep(pushBackMap(Work(map), b, stray))
  /\ UNCHANGED <<deque, expired, broken>>

PushBackDeque(b) ==
  /\ broken = "no" /\ Source(b)
  /\ deque' = pushBackDeque(deque, b)
  /\ UNCHANGED <<map, expired, lost, broken>>

-----------------------------------------------------------------------------
(* Taking out *)

getFirstMap ==
  /\ broken = "no" /\ map.blocks # {}
  /\ LET b == Lowest(map.blocks) IN
     /\ map' = [blocks |-> map.blocks \ {b}, total |-> Subtract(map.total, messageCnt(b))]
     /\ given' = given \cup RangeOf(b)
  /\ UNCHANGED <<deque, fresh, expired, lost, broken>>

getFirstDeque ==
  /\ broken = "no" /\ deque.blocks # <<>>
  /\ deque' = Without(deque, messageCnt(Head(deque.blocks)))
  /\ given' = given \cup RangeOf(Head(deque.blocks))
  /\ UNCHANGED <<map, fresh, expired, lost, broken>>

\* getFirst(size) of the map takes blocks as long as they follow one another and
\* no more than size messages were taken, then puts back what is too much.
FollowUp(first, size) ==
  {b \in map.blocks :
     /\ b.from - first.from <= size
     /\ \A s \in first.from .. b.to : \E c \in map.blocks : s \in RangeOf(c) /\ c.kind = first.kind}

getFirstNMap(size, stray) ==
  /\ broken = "no" /\ map.blocks # {}
  /\ LET first == Lowest(map.blocks)
         taken == FollowUp(first, size)
         be == Joined(first, Highest(taken))
         w == [Work(map) EXCEPT !.blocks = @ \ taken, !.total = Subtract(@, messageCnt(be))]
     IN IF messageCnt(be) > size
        THEN Keep(insert(w, Others(be, size), stray)) /\ given' = given \cup RangeOf(First(be, size))
        ELSE Keep(w) /\ given' = given \cup RangeOf(be)
  /\ UNCHANGED <<deque, fresh, expired, broken>>

getFirstNDeque(size) ==
  /\ broken = "no" /\ deque.blocks # <<>>
  /\ LET b == Head(deque.blocks)
         n == Min({size, messageCnt(b)})
     IN deque' = Without(deque, n) /\ given' = given \cup RangeOf(First(b, n))
  /\ UNCHANGED <<map, fresh, expired, lost, broken>>

\* One turn of the loop of split: the first block, or as much of it as is asked for, is
\* moved.
MoveToDeque(st) ==
  LET b == Lowest(st.map.blocks)
      n == Min({st.count, messageCnt(b)})
  IN IF st.count = 0 \/ st.map.blocks = {} THEN st
     ELSE [map   |-> [blocks |-> (st.map.blocks \ {b}) \cup (IF n = messageCnt(b) THEN {} ELSE {Others(b, n)}),
                      total  |-> st.map.total - n],
           deque |-> pushBackDeque(st.deque, First(b, n)),
           count |-> st.count - n]

\* split of the map into the deque.
splitMap(count) ==
  /\ broken = "no" /\ map.blocks # {}
  /\ LET turn[k \in 0 .. count] ==
           IF k = 0 THEN [map |-> map, deque |-> deque, count |-> Min({count, map.total})]
           ELSE MoveToDeque(turn[k - 1])
     IN map' = turn[count].map /\ deque' = turn[count].deque
  /\ UNCHANGED <<fresh, given, expired, lost, broken>>

MoveToMap(st, stray) ==
  LET b == Head(st.deque.blocks)
      n == Min({st.count, messageCnt(b)})
  IN IF st.count = 0 \/ st.deque.blocks = <<>> THEN st
     ELSE [w     |-> pushBackMap(st.w, First(b, n), stray),
           deque |-> Without(st.deque, n),
           count |-> st.count - n]

\* split of the deque into the map: the loop ends when it has what m_totalCount
\* promised, wherever the deque ends.
splitDeque(count, stray) ==
  /\ broken = "no" /\ deque.blocks # <<>>
  /\ LET turn[k \in 0 .. count] ==
           IF k = 0 THEN [w |-> Work(map), deque |-> deque, count |-> Min({count, deque.total})]
           ELSE MoveToMap(turn[k - 1], stray)
         end == turn[count]
     IN /\ Keep(end.w)
        /\ deque' = end.deque
        /\ broken' = IF end.count > 0 THEN "overrun" ELSE "no"
  /\ UNCHANGED <<fresh, given, expired>>

\* removeExpired: whole blocks from the front; m_totalCount stays.
removeExpiredMap(bs) ==
  /\ broken = "no" /\ bs # {} /\ bs \subseteq map.blocks
  /\ \A b \in bs, c \in map.blocks \ bs : b.from < c.from
  /\ map' = [map EXCEPT !.blocks = @ \ bs]
  /\ expired' = [expired EXCEPT !.map = @ \cup Held(bs)]
  /\ UNCHANGED <<deque, fresh, given, lost, broken>>

removeExpiredDeque(n) ==
  /\ broken = "no" /\ n <= Len(deque.blocks)
  /\ deque' = [deque EXCEPT !.blocks = SubSeq(@, n + 1, Len(@))]
  /\ expired' = [expired EXCEPT !.deque = @ \cup Held(Range(SubSeq(deque.blocks, 1, n)))]
  /\ UNCHANGED <<map, fresh, given, lost, broken>>

\* clear: the messages stay in the record store and can be put in again.
clearMap ==
  /\ broken = "no"
  /\ map' = [blocks |-> {}, total |-> 0]
  /\ given' = given \cup InMap
  /\ UNCHANGED <<deque, fresh, expired, lost, broken>>

clearDeque ==
  /\ broken = "no"
  /\ deque' = [blocks |-> <<>>, total |-> 0]
  /\ given' = given \cup InDeque
  /\ UNCHANGED <<map, fresh, expired, lost, broken>>

-----------------------------------------------------------------------------
(* Matching *)

\* Where forward and getNextMatched begin: at the first block that does not begin before
\* the cursor, or at the one before it unless the cursor is on its right.
StartAt(cursor) ==
  LET behind == {x \in map.blocks : x.from >= cursor}
      before == map.blocks \ behind
  IN behind \cup {x \in before : x = Highest(before) /\ cursor <= x.to}

\* forward: the messages behind the cursor.
forward(cursor) == UNION {Max({x.from, cursor + 1}) .. x.to : x \in StartAt(cursor)}

\* A set of sequences in ascending order.
Sorted(set) ==
  LET asc[n \in 0 .. MaxSeq] ==
        IF n = 0 THEN <<>> ELSE IF n \in set THEN Append(asc[n - 1], n) ELSE asc[n - 1]
  IN asc[MaxSeq]

\* What the callback leaves of from .. to when it takes hit.
Left(from, to, hit) == subBlocks(from, to, getContinuousSequences(Sorted(hit)))

\* The pieces of x are inserted one after the other.
InsertAll(w, x, pieces, stray) ==
  LET turn[k \in 0 .. Len(pieces)] ==
        IF k = 0 THEN w
        ELSE insert(turn[k - 1], [x EXCEPT !.from = pieces[k][1], !.to = pieces[k][2]], stray)
  IN turn[Len(pieces)]

\* One turn of the loop of getNextMatched: of the block x, the messages behind the
\* cursor, at most what remains; those that the callback takes are left out of the
\* pieces that are inserted in place of x.  The iterator to the next block was
\* taken before, and is used unless nothing remains to be looked for.
Turn(acc, x, cursor, taken, stray) ==
  LET from == Max({x.from, cursor + 1})
      to == Min({x.to, from + acc.remain - 1})
      hit == taken \cap from .. to
      without == [acc.w EXCEPT !.blocks = @ \ {x}, !.total = Subtract(@, messageCnt(x)), !.erased = FALSE]
      pieces == (IF x.from < from THEN <<<<x.from, from - 1>>>> ELSE <<>>)
                \o Left(from, to, hit)
                \o (IF to < x.to THEN <<<<to + 1, x.to>>>> ELSE <<>>)
      w == InsertAll(without, x, pieces, stray)
  IN
  IF acc.remain = 0 \/ x.to <= cursor \/ acc.dangling THEN acc
  ELSE [w |-> IF hit = {} THEN acc.w ELSE w,
        remain |-> acc.remain - (to - from + 1),
        hits |-> acc.hits \cup hit,
        dangling |-> hit # {} /\ w.erased /\ acc.remain > to - from + 1]

getNextMatched(cursor, limit, taken, stray) ==
  /\ broken = "no" /\ taken # {} /\ taken \subseteq forward(cursor)
  /\ LET turn[s \in 0 .. MaxSeq] ==  \* the block that begins at s
           IF s = 0 THEN [w |-> Work(map), remain |-> limit, hits |-> {}, dangling |-> FALSE]
           ELSE IF \E x \in StartAt(cursor) : x.from = s
           THEN Turn(turn[s - 1], CHOOSE x \in StartAt(cursor) : x.from = s, cursor, taken, stray)
           ELSE turn[s - 1]
         end == turn[MaxSeq]
     IN /\ Keep(end.w)
        /\ given' = given \cup end.hits
        /\ broken' = IF end.dangling THEN "dangling" ELSE "no"
  /\ UNCHANGED <<deque, fresh, expired>>

Next ==
  \/ \E b \in Blocks, stray \in Strays : Insert(b, stray) \/ PushBackMap(b, stray)
  \/ \E b \in Blocks : PushBackDeque(b)
  \/ getFirstMap \/ getFirstDeque \/ clearMap \/ clearDeque
  \/ \E n \in Seqs, stray \in Strays : getFirstNMap(n, stray) \/ splitDeque(n, stray)
  \/ \E n \in Seqs : getFirstNDeque(n) \/ splitMap(n) \/ removeExpiredDeque(n)
  \/ \E bs \in SUBSET map.blocks : removeExpiredMap(bs)
  \/ \E cursor \in 0 .. MaxSeq - 1, limit \in Seqs, taken \in SUBSET Seqs, stray \in Strays :
       getNextMatched(cursor, limit, taken, stray)

Spec == Init /\ [][Next]_vars

-----------------------------------------------------------------------------
(* Properties *)

Apart(bs) == \A b, c \in bs : b # c => RangeOf(b) \cap RangeOf(c) = {}

\* No message is in two blocks, in two containers, or with a consumer and in a block:
\* through merging, splitting, matching and putting back, each is given at most once,
\* and it is missing only where insert drops it (insert, getFirst, split, getNextMatched).
EachInOnePlace ==
  LET places == <<fresh, InMap, InDeque, given, expired.map, expired.deque, lost>> IN
  /\ Apart(map.blocks) /\ Apart(Range(deque.blocks))
  /\ \A i, j \in DOMAIN deque.blocks : i # j => deque.blocks[i] # deque.blocks[j]
  /\ \A i, j \in DOMAIN places : i # j => places[i] \cap places[j] = {}
  /\ UNION Range(places) = Seqs

\* getMessageCount is never less than the blocks hold, so that split moves as many
\* messages as were asked for; it is more only after an expiry, which is not
\* subtracted, or a loss, which is counted (m_totalCount in every operation).  So split
\* walks past the end of the deque only when messages have expired there.
TotalsCover ==
  /\ map.total >= Cardinality(InMap) /\ deque.total >= Cardinality(InDeque)
  /\ expired.map \cup lost = {} => map.total = Cardinality(InMap)
  /\ expired.deque = {} => deque.total = Cardinality(InDeque) /\ broken # "overrun"

\* On what the map holds and any range: forward shows all behind the cursor;
\* splitSequence and subBlocks leave the same blocks, which are the range without
\* them, and getContinuousSequences makes as few blocks as it can (SequenceUtil).
SequencesSplit ==
  LET runs == getContinuousSequences(Sorted(InMap))
      Cover(bs) == UNION {b[1] .. b[2] : b \in Range(bs)}
  IN
  /\ Cover(runs) = InMap
  /\ \A i \in 2 .. Len(runs) : runs[i][1] > runs[i - 1][2] + 1
  /\ \A from, to \in Seqs :
       LET inside == {s \in InMap : from <= s /\ s <= to}
           left == splitSequence(Sorted(InMap), from, to - from + 1)
       IN from <= to => /\ {s \in forward(from) : s <= to} = inside \ {from}
                        /\ left = Left(from, to, inside)
                        /\ Cover(left) = (from .. to) \ inside

\* insert executes no merging, as its comment says, so that the iterator that
\* getNextMatched keeps over its insertions stays valid.
IteratorStaysValid == broken # "dangling"
=============================================================================
