---------------------------- MODULE SequenceUtil ----------------------------
(***************************************************************************)
(* The algorithms on sequences (src/include/util/SequenceUtil.h).  Input   *)
(* sequences ascend; a block is a pair of its first and last sequence.     *)
(* The functions are templates over an unsigned type, whose numbers wrap.  *)
(***************************************************************************)
EXTENDS Integers, Sequences

CONSTANT Modulus  \* the numbers of the type are 0 .. Modulus - 1: 2^w, for w bits

ASSUME SequenceAssumption == Modulus \in Nat \ {0}

Wrap(n) == n % Modulus

\* A node ends the piece before it, if there is one.
SplitAt(acc, i) ==
  [last |-> Wrap(i + 1),
   segs |-> IF i = acc.last THEN acc.segs ELSE Append(acc.segs, <<acc.last, i - 1>>)]

\* splitSequence: what is left of count sequences from startSeq without the nodes.
splitSequence(splitNode, startSeq, count) ==
  LET endSeq == Wrap(startSeq + count - 1)
      turn[k \in 0 .. Len(splitNode)] ==
        IF k = 0 THEN [last |-> startSeq, segs |-> <<>>]
        ELSE IF splitNode[k] \in startSeq .. endSeq THEN SplitAt(turn[k - 1], splitNode[k])
        ELSE turn[k - 1]
      cut == turn[Len(splitNode)]
  IN IF cut.last <= endSeq THEN Append(cut.segs, <<cut.last, endSeq>>) ELSE cut.segs

\* Mutant: a gap of one is taken for none.
JoinedOverGap(acc, s) ==
  IF acc # <<>> /\ s <= acc[Len(acc)][2] + 2
  THEN [acc EXCEPT ![Len(acc)] = <<@[1], s>>]
  ELSE Append(acc, <<s, s>>)

\* A sequence continues the last block, or begins one.
Continued(acc, s) ==
  IF acc # <<>> /\ s = Wrap(acc[Len(acc)][2] + 1)
  THEN [acc EXCEPT ![Len(acc)] = <<@[1], s>>]
  ELSE Append(acc, <<s, s>>)

\* getContinuousSequences: the blocks that the sequences make up.
getContinuousSequences(sequences) ==
  LET turn[k \in 0 .. Len(sequences)] ==
        IF k = 0 THEN <<>> ELSE Continued(turn[k - 1], sequences[k])
  IN turn[Len(sequences)]

\* A block ends what is left before it.
CutOut(acc, b) ==
  [head |-> Wrap(b[2] + 1),
   res  |-> IF b[1] = acc.head THEN acc.res ELSE Append(acc.res, <<acc.head, b[1] - 1>>)]

\* subBlocks: what the blocks leave of startSeq .. endSeq.
subBlocks(startSeq, endSeq, seqBlocks) ==
  LET turn[k \in 0 .. Len(seqBlocks)] ==
        IF k = 0 THEN [head |-> startSeq, res |-> <<>>] ELSE CutOut(turn[k - 1], seqBlocks[k])
      cut == turn[Len(seqBlocks)]
  IN IF cut.head <= endSeq THEN Append(cut.res, <<cut.head, endSeq>>) ELSE cut.res
=============================================================================
