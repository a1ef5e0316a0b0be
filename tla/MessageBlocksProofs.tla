------------------------ MODULE MessageBlocksProofs ------------------------
(***************************************************************************)
(* Proofs about the blocks of messages that wait for a consumer, for any   *)
(* number of sequences and any kinds.                                      *)
(*                                                                         *)
(* First what the algorithms on sequences and on one block give.  The      *)
(* loops are recursive functions: LoopExists and LoopReaches say that      *)
(* their values are what the turns lead to, so that for each loop only a   *)
(* turn is looked at.                                                      *)
(*                                                                         *)
(* The invariant (Inv): each sequence is in one of seven places (Placed),  *)
(* and each container holds blocks that are apart, whose messages its      *)
(* total covers, exactly if none has expired there or was lost (Holds,     *)
(* HoldsD).  Holds also speaks of a map in the middle of an operation,     *)
(* with what was lost on the way, so that each insertion of a loop can be  *)
(* shown to keep it.  In getNextMatched the blocks behind the one that is  *)
(* looked at must still be in the map (Pending), unless an insertion       *)
(* erased a block, and then the loop stops.                                *)
(***************************************************************************)
EXTENDS MessageBlocks, FiniteSetTheorems, SequenceTheorems, WellFoundedInduction, TLAPS

-----------------------------------------------------------------------------
(* The least and the greatest element of a set, and loops *)

\* A nonempty set of naturals has a least element, and Min finds it.
LEMMA MinExists ==
  ASSUME NEW S, S \subseteq Nat, S # {}
  PROVE  Min(S) \in S /\ \A y \in S : Min(S) <= y
<1> DEFINE R == OpToRel(<, Nat)
<1>0. \A x, y \in Nat : <<y, x>> \in R <=> y < x
  BY Zenon DEF OpToRel
<1>a. IsWellFoundedOn(R, Nat)
  BY NatLessThanWellFounded
<1> HIDE DEF R
<1>1. \E x \in S : \A y \in S : ~(<<y, x>> \in R)
  BY <1>a, WFMin
<1>2. \E x \in S : \A y \in S : x <= y
  <2>1. PICK x \in S : \A y \in S : ~(<<y, x>> \in R)
    BY <1>1
  <2>2. ASSUME NEW y \in S PROVE x <= y
    <3>1. ~(<<y, x>> \in R)
      BY <2>1
    <3>2. x \in Nat /\ y \in Nat
      OBVIOUS
    <3>3. ~(y < x)
      BY <1>0, <3>1, <3>2, Zenon
    <3>. QED  BY <3>2, <3>3
  <2>. QED  BY <2>2
<1>. QED  BY <1>2 DEF Min

\* So has a bounded one a greatest element: the mirror image has a least one.
LEMMA MaxExists ==
  ASSUME NEW S, S \subseteq Nat, S # {}, NEW n \in Nat, \A x \in S : x <= n
  PROVE  Max(S) \in S /\ \A y \in S : Max(S) >= y
<1> DEFINE M == {x \in 0 .. n : n - x \in S}
<1>1. M \subseteq Nat /\ M # {}
  <2>1. PICK x \in S : TRUE
    OBVIOUS
  <2>2. n - x \in 0 .. n /\ n - (n - x) = x
    BY <2>1
  <2>. QED  BY <2>1, <2>2
<1>2. Min(M) \in M /\ \A y \in M : Min(M) <= y
  BY <1>1, MinExists
<1>3. n - Min(M) \in S
  BY <1>2
<1>4. ASSUME NEW y \in S PROVE n - Min(M) >= y
  <2>1. n - y \in M
    <3>1. n - y \in 0 .. n /\ n - (n - y) = y
      OBVIOUS
    <3>. QED  BY <3>1
  <2>2. Min(M) <= n - y /\ Min(M) \in 0 .. n
    BY <1>2, <2>1
  <2>. QED  BY <2>2
<1>. HIDE DEF M
<1>5. \E x \in S : \A y \in S : x >= y
  BY <1>3, <1>4
<1>. QED  BY <1>5 DEF Max

\* Of two integers.
LEMMA MaxOfPair ==
  ASSUME NEW a \in Int, NEW b \in Int
  PROVE  Max({a, b}) = IF a >= b THEN a ELSE b
<1>1. \E x \in {a, b} : \A y \in {a, b} : x >= y
  OBVIOUS
<1>2. Max({a, b}) \in {a, b} /\ \A y \in {a, b} : Max({a, b}) >= y
  BY <1>1 DEF Max
<1>. QED  BY <1>2

LEMMA MinOfPair ==
  ASSUME NEW a \in Int, NEW b \in Int
  PROVE  Min({a, b}) = IF a <= b THEN a ELSE b
<1>1. \E x \in {a, b} : \A y \in {a, b} : x <= y
  OBVIOUS
<1>2. Min({a, b}) \in {a, b} /\ \A y \in {a, b} : Min({a, b}) <= y
  BY <1>1 DEF Min
<1>. QED  BY <1>2

\* What holds at 0 and goes from each number to the next holds up to the last.
LEMMA UpTo ==
  ASSUME NEW n \in Nat, NEW T, 0 \in T, \A k \in 0 .. n - 1 : k \in T => k + 1 \in T
  PROVE  \A k \in 0 .. n : k \in T
<1> DEFINE F == {k \in 0 .. n : k \notin T}
<1>1. F = {}
  <2>. SUFFICES ASSUME F # {} PROVE FALSE
    OBVIOUS
  <2>1. PICK k \in F : \A j \in F : k <= j
    <3>1. F \subseteq Nat
      OBVIOUS
    <3>. HIDE DEF F
    <3>. QED  BY <3>1, MinExists
  <2>2. k \in 0 .. n /\ k \notin T /\ k # 0
    OBVIOUS
  <2>3. k - 1 \in 0 .. n - 1 /\ k - 1 \notin F /\ k - 1 \in 0 .. n
    BY <2>1, <2>2
  <2>4. k - 1 \in T
    BY <2>3
  <2>5. (k - 1) + 1 \in T
    BY <2>3, <2>4
  <2>6. (k - 1) + 1 = k
    BY <2>2
  <2>. QED  BY <2>2, <2>5, <2>6
<1>. QED  BY <1>1

\* A loop of n turns: its states after each number of them are a function, if each turn
\* leads from the states that the turns before may have reached to those of this one.
IsLoop(g, n, v, F) == DOMAIN g = 0 .. n /\ g[0] = v /\ \A k \in 1 .. n : g[k] = F[k][g[k - 1]]

LEMMA LoopExists ==
  ASSUME NEW n \in Nat, NEW W, NEW v, v \in W[0], NEW F,
         \A k \in 1 .. n : \A x \in W[k - 1] : F[k][x] \in W[k]
  PROVE  \E g : /\ g = [k \in 0 .. n |-> g[k]] /\ IsLoop(g, n, v, F)
                /\ \A k \in 0 .. n : g[k] \in W[k]
<1> DEFINE Is(g, m) == /\ g = [k \in 0 .. m |-> g[k]] /\ IsLoop(g, m, v, F)
                       /\ \A k \in 0 .. m : g[k] \in W[k]
           T == {m \in 0 .. n : \E g : Is(g, m)}
<1>1. 0 \in T
  <2>. DEFINE g == [k \in 0 .. 0 |-> v]
  <2>1. g[0] = v /\ 1 .. 0 = {} /\ 0 .. 0 = {0} /\ DOMAIN g = 0 .. 0
    OBVIOUS
  <2>2. g = [k \in 0 .. 0 |-> g[k]]
    OBVIOUS
  <2>. HIDE DEF g
  <2>3. IsLoop(g, 0, v, F)
    BY <2>1 DEF IsLoop
  <2>4. Is(g, 0)
    BY <2>1, <2>2, <2>3
  <2>5. 0 \in 0 .. n
    OBVIOUS
  <2>. HIDE DEF Is
  <2>. QED  BY <2>4, <2>5
<1>2. ASSUME NEW m \in 0 .. n - 1, m \in T PROVE m + 1 \in T
  <2>1. PICK g : Is(g, m)
    BY <1>2
  <2>. DEFINE h == [k \in 0 .. m + 1 |-> IF k = m + 1 THEN F[m + 1][g[m]] ELSE g[k]]
  <2>2. m \in Nat /\ m + 1 \in 1 .. n /\ m \in 0 .. m /\ m + 1 \in 0 .. n /\ (m + 1) - 1 = m
    OBVIOUS
  <2>3. F[m + 1][g[m]] \in W[m + 1]
    <3>1. g[m] \in W[m]
      BY <2>1, <2>2
    <3>. QED  BY <2>2, <3>1
  <2>4. \A k \in 0 .. m : h[k] = g[k]
    <3>1. \A k \in 0 .. m : k \in 0 .. m + 1 /\ k # m + 1
      BY <2>2
    <3>. QED  BY <3>1
  <2>5. h[m + 1] = F[m + 1][g[m]]
    <3>1. m + 1 \in 0 .. m + 1
      BY <2>2
    <3>. QED  BY <3>1
  <2>6. h = [k \in 0 .. m + 1 |-> h[k]] /\ DOMAIN h = 0 .. m + 1
    OBVIOUS
  <2>. HIDE DEF h
  <2>7. h[0] = v
    <3>1. 0 \in 0 .. m
      BY <2>2
    <3>. QED  BY <2>1, <2>4, <3>1 DEF IsLoop
  <2>8. ASSUME NEW k \in 1 .. m + 1 PROVE h[k] = F[k][h[k - 1]]
    <3>1. CASE k = m + 1
      <4>1. h[m] = g[m] /\ k - 1 = m
        BY <2>2, <2>4, <3>1
      <4>. QED  BY <2>5, <3>1, <4>1
    <3>2. CASE k # m + 1
      <4>1. k \in 1 .. m /\ k \in 0 .. m /\ k - 1 \in 0 .. m
        BY <2>2, <3>2
      <4>2. g[k] = F[k][g[k - 1]]
        BY <2>1, <4>1 DEF IsLoop
      <4>. QED  BY <2>4, <4>1, <4>2
    <3>. QED  BY <3>1, <3>2
  <2>9. ASSUME NEW k \in 0 .. m + 1 PROVE h[k] \in W[k]
    <3>1. k = m + 1 \/ k \in 0 .. m
      BY <2>2
    <3>. QED  BY <2>1, <2>3, <2>4, <2>5, <3>1
  <2>10. Is(h, m + 1)
    BY <2>6, <2>7, <2>8, <2>9 DEF IsLoop
  <2>. HIDE DEF Is
  <2>. QED  BY <2>2, <2>10
<1>3. n \in T
  <2>. HIDE DEF T
  <2>1. \A k \in 0 .. n : k \in T
    BY <1>1, <1>2, UpTo
  <2>. QED  BY <2>1
<1>. QED  BY <1>3

\* Whatever takes these turns reaches these states.
Takes(f, n, v, W, F) == f[0] = v /\ \A k \in 1 .. n : f[k - 1] \in W[k - 1] => f[k] = F[k][f[k - 1]]

LEMMA LoopReaches ==
  ASSUME NEW n \in Nat, NEW W, NEW v, v \in W[0], NEW F,
         \A k \in 1 .. n : \A x \in W[k - 1] : F[k][x] \in W[k],
         NEW f, Takes(f, n, v, W, F)
  PROVE  \A k \in 0 .. n : f[k] \in W[k]
<1> DEFINE T == {k \in 0 .. n : f[k] \in W[k]}
<1>1. 0 \in T
  BY DEF Takes
<1>2. ASSUME NEW k \in 0 .. n - 1, k \in T PROVE k + 1 \in T
  <2>1. k + 1 \in 1 .. n /\ k + 1 \in 0 .. n /\ (k + 1) - 1 = k
    OBVIOUS
  <2>2. f[k] \in W[k]
    BY <1>2
  <2>3. f[k + 1] = F[k + 1][f[k]] /\ F[k + 1][f[k]] \in W[k + 1]
    BY <2>1, <2>2 DEF Takes
  <2>. QED  BY <2>1, <2>3
<1>. HIDE DEF T
<1>3. \A k \in 0 .. n : k \in T
  BY <1>1, <1>2, UpTo
<1>. QED  BY <1>3 DEF T

-----------------------------------------------------------------------------
(* The algorithms on sequences *)

LEMMA WrapIs ==
  ASSUME NEW a \in 0 .. Modulus - 1
  PROVE  Wrap(a) = a
<1>1. Modulus \in Nat \ {0}
  BY SequenceAssumption
<1>2. \A m \in Nat \ {0} : \A n \in 0 .. m - 1 : n % m = n
  BY Z3
<1>. QED  BY <1>1, <1>2 DEF Wrap

\* The runs of a set: its longest intervals, in ascending order.
Covers(p, D) == \A d \in Int : d \in D <=> \E i \in 1 .. Len(p) : d \in p[i][1] .. p[i][2]

IsRuns(p, D) ==
  /\ p \in Seq(Int \X Int) /\ D \subseteq Int
  /\ \A i \in 1 .. Len(p) : p[i][1] <= p[i][2]
  /\ \A i \in 2 .. Len(p) : p[i - 1][2] + 1 < p[i][1]
  /\ Covers(p, D)

LEMMA PairIs ==
  ASSUME NEW p \in Seq(Int \X Int), NEW i \in 1 .. Len(p)
  PROVE  p[i] \in Int \X Int /\ p[i][1] \in Int /\ p[i][2] \in Int /\ p[i] = <<p[i][1], p[i][2]>>
<1>1. p[i] \in Int \X Int
  BY ElementOfSeq
<1>. QED  BY <1>1

\* Each run is behind all before it, with a gap in between; pieces need no gap.
Rises(p, gap) ==
  /\ p \in Seq(Int \X Int)
  /\ \A i \in 1 .. Len(p) : p[i][1] <= p[i][2]
  /\ \A i \in 2 .. Len(p) : p[i - 1][2] + gap < p[i][1]

LEMMA AllRise ==
  ASSUME NEW gap \in Nat, NEW p, Rises(p, gap), NEW i \in 1 .. Len(p), NEW j \in 1 .. Len(p), i < j
  PROVE  p[i][2] + gap < p[j][1]
<1>1. /\ \A k \in 1 .. Len(p) : p[k][1] \in Int /\ p[k][2] \in Int /\ p[k][1] <= p[k][2]
      /\ Len(p) \in Nat
  BY PairIs, LenProperties DEF Rises
<1> DEFINE n == Len(p) - i - 1
           T == {k \in 0 .. n : p[i][2] + gap < p[i + 1 + k][1]}
<1>2. n \in Nat /\ j - i - 1 \in 0 .. n
  BY <1>1
<1>3. 0 \in T
  <2>1. i + 1 \in 2 .. Len(p) /\ (i + 1) - 1 = i /\ i + 1 + 0 = i + 1 /\ 0 \in 0 .. n
    BY <1>1, <1>2
  <2>2. p[(i + 1) - 1][2] + gap < p[i + 1][1]
    BY <2>1 DEF Rises
  <2>. QED  BY <2>1, <2>2
<1>4. ASSUME NEW k \in 0 .. n - 1, k \in T PROVE k + 1 \in T
  <2>1. /\ i + 1 + k \in 1 .. Len(p) /\ i + 1 + (k + 1) \in 2 .. Len(p) /\ (i + 1 + (k + 1)) - 1 = i + 1 + k
        /\ k + 1 \in 0 .. n /\ i + 1 + (k + 1) \in 1 .. Len(p)
    BY <1>1, <1>2
  <2>2. p[i + 1 + k][2] + gap < p[i + 1 + (k + 1)][1]
    <3>1. p[(i + 1 + (k + 1)) - 1][2] + gap < p[i + 1 + (k + 1)][1]
      BY <2>1 DEF Rises
    <3>. QED  BY <2>1, <3>1
  <2>3. p[i][2] + gap < p[i + 1 + k][1]
    BY <1>4
  <2>4. p[i][2] + gap < p[i + 1 + (k + 1)][1]
    <3> DEFINE a == p[i][2]
               b == p[i + 1 + k][1]
               c == p[i + 1 + k][2]
               d == p[i + 1 + (k + 1)][1]
    <3>1. a \in Int /\ b \in Int /\ c \in Int /\ d \in Int /\ b <= c
      BY <1>1, <2>1
    <3>2. a + gap < b /\ c + gap < d
      BY <2>2, <2>3
    <3>. HIDE DEF a, b, c, d
    <3>3. a + gap < d
      BY <3>1, <3>2
    <3>. QED  BY <3>3 DEF a, d
  <2>. QED  BY <2>1, <2>4
<1>. HIDE DEF T, n
<1>5. j - i - 1 \in T
  BY <1>2, <1>3, <1>4, UpTo
<1>6. i + 1 + (j - i - 1) = j
  BY <1>1
<1>. QED  BY <1>5, <1>6 DEF T

LEMMA RunsRise == ASSUME NEW p, NEW D, IsRuns(p, D) PROVE Rises(p, 1)
BY DEF IsRuns, Rises

\* The runs of a set are as many in any two sequences of them, and the same.
LEMMA RunsAgree ==
  ASSUME NEW D, NEW p, IsRuns(p, D), NEW q, IsRuns(q, D)
  PROVE  Len(p) <= Len(q) /\ \A i \in 1 .. Len(p) : p[i] = q[i]
<1>1. /\ \A i \in 1 .. Len(p) : p[i][1] \in Int /\ p[i][2] \in Int /\ p[i][1] <= p[i][2] /\ p[i] = <<p[i][1], p[i][2]>>
      /\ \A i \in 1 .. Len(q) : q[i][1] \in Int /\ q[i][2] \in Int /\ q[i][1] <= q[i][2] /\ q[i] = <<q[i][1], q[i][2]>>
      /\ Len(p) \in Nat /\ Len(q) \in Nat
  BY PairIs DEF IsRuns
<1>2. /\ \A i, j \in 1 .. Len(p) : i < j => p[i][2] + 1 < p[j][1]
      /\ \A i, j \in 1 .. Len(q) : i < j => q[i][2] + 1 < q[j][1]
  BY RunsRise, AllRise
<1>3. \A d \in Int : (\E i \in 1 .. Len(p) : d \in p[i][1] .. p[i][2]) <=> (\E i \in 1 .. Len(q) : d \in q[i][1] .. q[i][2])
  BY DEF IsRuns, Covers
<1> DEFINE T == {n \in 0 .. Len(p) : n <= Len(q) /\ \A i \in 1 .. n : p[i] = q[i]}
<1>4. 0 \in T
  BY <1>1
<1>5. ASSUME NEW n \in 0 .. Len(p) - 1, n \in T PROVE n + 1 \in T
  <2>1. n + 1 \in 1 .. Len(p) /\ n + 1 \in 0 .. Len(p) /\ n <= Len(q) /\ \A i \in 1 .. n : p[i] = q[i]
    BY <1>1, <1>5
  <2>. HIDE DEF T
  <2>2. PICK j \in 1 .. Len(q) : p[n + 1][1] \in q[j][1] .. q[j][2]
    <3>1. p[n + 1][1] \in Int /\ p[n + 1][1] \in p[n + 1][1] .. p[n + 1][2]
      BY <1>1, <2>1
    <3>. QED  BY <1>3, <2>1, <3>1
  <2>3. j >= n + 1
    <3>1. ASSUME j \in 1 .. n PROVE FALSE
      <4>1. p[j] = q[j] /\ j \in 1 .. Len(p) /\ j < n + 1
        BY <2>1, <3>1
      <4>2. p[j][2] + 1 < p[n + 1][1]
        BY <1>2, <2>1, <4>1
      <4>. QED  BY <1>1, <2>1, <2>2, <4>1, <4>2
    <3>. QED  BY <3>1
  <2>4. n + 1 \in 1 .. Len(q) /\ q[n + 1][1] <= p[n + 1][1]
    <3>1. n + 1 \in 1 .. Len(q)
      BY <1>1, <2>3
    <3>2. CASE j = n + 1
      BY <2>2, <3>1, <3>2
    <3>3. CASE j > n + 1
      <4>1. q[n + 1][2] + 1 < q[j][1]
        BY <1>2, <3>1, <3>3
      <4>. QED  BY <1>1, <2>1, <2>2, <3>1, <4>1
    <3>. QED  BY <2>3, <3>1, <3>2, <3>3
  <2>5. p[n + 1][1] <= q[n + 1][1]
    <3>1. PICK k \in 1 .. Len(p) : q[n + 1][1] \in p[k][1] .. p[k][2]
      <4>1. q[n + 1][1] \in Int /\ q[n + 1][1] \in q[n + 1][1] .. q[n + 1][2]
        BY <1>1, <2>4
      <4>. QED  BY <1>3, <2>4, <4>1
    <3>2. ASSUME k \in 1 .. n PROVE FALSE
      <4>1. p[k] = q[k] /\ k \in 1 .. Len(q) /\ k < n + 1
        BY <1>1, <2>1, <3>2
      <4>2. q[k][2] + 1 < q[n + 1][1]
        BY <1>2, <2>4, <4>1
      <4>. QED  BY <1>1, <2>4, <3>1, <4>1, <4>2
    <3>3. CASE k = n + 1
      BY <3>1, <3>3
    <3>4. CASE k > n + 1
      <4>1. p[n + 1][2] + 1 < p[k][1]
        BY <1>2, <2>1, <3>4
      <4>. QED  BY <1>1, <2>1, <2>4, <3>1, <4>1
    <3>. QED  BY <2>1, <3>1, <3>2, <3>3, <3>4
  <2> DEFINE a == p[n + 1][1]
             e == p[n + 1][2]
             f == q[n + 1][2]
  <2>6. a \in Int /\ e \in Int /\ f \in Int /\ a <= e /\ a <= f /\ q[n + 1][1] = a
    BY <1>1, <2>1, <2>4, <2>5
  <2>7. ASSUME e < f PROVE FALSE
    <3>1. e + 1 \in Int /\ e + 1 \in q[n + 1][1] .. q[n + 1][2]
      BY <2>6, <2>7
    <3>2. PICK k \in 1 .. Len(p) : e + 1 \in p[k][1] .. p[k][2]
      BY <1>3, <2>4, <3>1
    <3>3. CASE k < n + 1
      <4>1. p[k][2] + 1 < a
        BY <1>2, <2>1, <3>3
      <4>. QED  BY <1>1, <2>6, <3>2, <4>1
    <3>4. CASE k = n + 1
      BY <2>6, <3>2, <3>4
    <3>5. CASE k > n + 1
      <4>1. e + 1 < p[k][1]
        BY <1>2, <2>1, <3>5
      <4>. QED  BY <1>1, <2>6, <3>2, <4>1
    <3>. QED  BY <2>1, <3>2, <3>3, <3>4, <3>5
  <2>8. ASSUME f < e PROVE FALSE
    <3>1. f + 1 \in Int /\ f + 1 \in p[n + 1][1] .. p[n + 1][2]
      BY <2>6, <2>8
    <3>2. PICK k \in 1 .. Len(q) : f + 1 \in q[k][1] .. q[k][2]
      BY <1>3, <2>1, <3>1
    <3>3. CASE k < n + 1
      <4>1. q[k][2] + 1 < a /\ q[k][1] \in Int /\ q[k][2] \in Int
        BY <1>1, <1>2, <2>4, <2>6, <3>3
      <4>. HIDE DEF a, f
      <4>. QED  BY <2>6, <3>2, <4>1
    <3>4. CASE k = n + 1
      <4>1. f + 1 \in q[n + 1][1] .. f
        BY <3>2, <3>4
      <4>. QED  BY <2>6, <4>1
    <3>5. CASE k > n + 1
      <4>1. f + 1 < q[k][1] /\ q[k][1] \in Int /\ q[k][2] \in Int
        BY <1>1, <1>2, <2>4, <3>5
      <4>. HIDE DEF f
      <4>. QED  BY <3>2, <4>1
    <3>. QED  BY <2>4, <3>2, <3>3, <3>4, <3>5
  <2>9. p[n + 1] = q[n + 1]
    <3>1. e = f
      BY <2>6, <2>7, <2>8
    <3>. QED  BY <1>1, <2>1, <2>4, <2>6, <3>1
  <2>10. \A i \in 1 .. n + 1 : p[i] = q[i]
    <3>1. \A i \in 1 .. n + 1 : i \in 1 .. n \/ i = n + 1
      OBVIOUS
    <3>. QED  BY <2>1, <2>9, <3>1
  <2>. QED  BY <1>1, <2>1, <2>4, <2>10 DEF T
<1>. HIDE DEF T
<1>6. Len(p) \in T
  <2>1. \A n \in 0 .. Len(p) : n \in T
    BY <1>1, <1>4, <1>5, UpTo
  <2>. QED  BY <1>1, <2>1
<1>. QED  BY <1>6 DEF T

LEMMA RunsAreUnique ==
  ASSUME NEW D, NEW p, IsRuns(p, D), NEW q, IsRuns(q, D)
  PROVE  p = q
<1>1. Len(p) <= Len(q) /\ (\A i \in 1 .. Len(p) : p[i] = q[i]) /\ Len(q) <= Len(p)
  BY RunsAgree
<1>2. p \in Seq(Int \X Int) /\ q \in Seq(Int \X Int) /\ Len(p) \in Nat /\ Len(q) \in Nat
  BY DEF IsRuns
<1>3. Len(p) = Len(q)
  BY <1>1, <1>2
<1>. QED  BY <1>1, <1>2, <1>3, SeqEqual

\* A further run behind all others.
LEMMA RunAppended ==
  ASSUME NEW p, NEW D, IsRuns(p, D), NEW a \in Int, NEW b \in Int, a <= b, \A d \in D : d + 1 < a,
         NEW E, E = D \cup (a .. b)
  PROVE  IsRuns(Append(p, <<a, b>>), E)
<1> DEFINE q == Append(p, <<a, b>>)
<1>1. p \in Seq(Int \X Int) /\ Len(p) \in Nat /\ D \subseteq Int
  BY LenProperties DEF IsRuns
<1>2. <<a, b>> \in Int \X Int
  OBVIOUS
<1>3. /\ q \in Seq(Int \X Int) /\ Len(q) = Len(p) + 1 /\ q[Len(p) + 1] = <<a, b>>
      /\ \A i \in 1 .. Len(p) : q[i] = p[i]
  BY <1>1, <1>2, AppendProperties
<1>. HIDE DEF q
<1>4. \A i \in 1 .. Len(q) : i \in 1 .. Len(p) \/ i = Len(p) + 1
  BY <1>1, <1>3
<1>5. ASSUME NEW i \in 1 .. Len(q) PROVE q[i][1] <= q[i][2]
  <2>1. CASE i \in 1 .. Len(p)
    BY <1>3, <2>1 DEF IsRuns
  <2>2. CASE i = Len(p) + 1
    BY <1>3, <2>2
  <2>. QED  BY <1>4, <2>1, <2>2
<1>6. ASSUME NEW i \in 2 .. Len(q) PROVE q[i - 1][2] + 1 < q[i][1]
  <2>1. i - 1 \in 1 .. Len(p) /\ i \in 1 .. Len(q)
    <3>1. Len(q) = Len(p) + 1 /\ Len(p) \in Nat
      BY <1>1, <1>3
    <3>. QED  BY <3>1
  <2>2. CASE i \in 1 .. Len(p)
    <3>1. q[i - 1] = p[i - 1]
      BY <1>3, <2>1
    <3>2. q[i] = p[i]
      BY <1>3, <2>2
    <3>3. i \in 2 .. Len(p)
      BY <2>2
    <3>4. p[i - 1][2] + 1 < p[i][1]
      BY <3>3 DEF IsRuns
    <3>. QED  BY <3>1, <3>2, <3>4
  <2>3. CASE i = Len(p) + 1
    <3>1. p[i - 1][2] \in D
      <4>1. p[i - 1][1] \in Int /\ p[i - 1][2] \in Int /\ p[i - 1][1] <= p[i - 1][2]
        BY <1>1, <2>1, PairIs DEF IsRuns
      <4>2. p[i - 1][2] \in p[i - 1][1] .. p[i - 1][2]
        BY <4>1
      <4>. QED  BY <2>1, <4>1, <4>2 DEF IsRuns, Covers
    <3>2. p[i - 1][2] + 1 < a
      BY <3>1
    <3>3. q[i - 1] = p[i - 1]
      BY <1>3, <2>1
    <3>4. q[i][1] = a
      BY <1>3, <2>3
    <3>. QED  BY <3>2, <3>3, <3>4
  <2>. QED  BY <1>4, <2>1, <2>2, <2>3
<1>7. Covers(q, E)
  <2>. SUFFICES ASSUME NEW d \in Int
                PROVE  d \in E <=> \E i \in 1 .. Len(q) : d \in q[i][1] .. q[i][2]
    BY DEF Covers
  <2>1. d \in D <=> \E i \in 1 .. Len(p) : d \in p[i][1] .. p[i][2]
    BY DEF IsRuns, Covers
  <2>2. ASSUME NEW i \in 1 .. Len(p) PROVE i \in 1 .. Len(q) /\ q[i] = p[i]
    BY <1>1, <1>3
  <2>3. Len(p) + 1 \in 1 .. Len(q) /\ q[Len(p) + 1][1] = a /\ q[Len(p) + 1][2] = b
    BY <1>1, <1>3
  <2>4. CASE d \in D
    <3>1. PICK i \in 1 .. Len(p) : d \in p[i][1] .. p[i][2]
      BY <2>1, <2>4
    <3>. QED  BY <2>2, <2>4, <3>1
  <2>5. CASE d \in a .. b
    BY <2>3, <2>5
  <2>6. CASE d \notin E
    <3>1. ASSUME NEW i \in 1 .. Len(q), d \in q[i][1] .. q[i][2] PROVE FALSE
      <4>1. CASE i \in 1 .. Len(p)
        BY <2>1, <2>2, <2>6, <3>1, <4>1
      <4>2. CASE i = Len(p) + 1
        BY <2>3, <2>6, <3>1, <4>2
      <4>. QED  BY <1>4, <4>1, <4>2
    <3>. QED  BY <2>6, <3>1
  <2>. QED  BY <2>4, <2>5, <2>6
<1>8. E \subseteq Int
  BY <1>1
<1>. QED  BY <1>3, <1>5, <1>6, <1>7, <1>8 DEF IsRuns, q

\* The last run goes on.
LEMMA RunExtended ==
  ASSUME NEW p, NEW D, IsRuns(p, D), p # <<>>, NEW s, s = p[Len(p)][2] + 1
  PROVE  IsRuns([p EXCEPT ![Len(p)] = <<@[1], s>>], D \cup {s})
<1> DEFINE n == Len(p)
           q == [p EXCEPT ![n] = <<@[1], s>>]
<1>1. p \in Seq(Int \X Int) /\ n \in Nat /\ D \subseteq Int /\ n \in 1 .. Len(p)
  <2>1. p \in Seq(Int \X Int) /\ D \subseteq Int
    BY DEF IsRuns
  <2>2. Len(p) \in Nat /\ Len(p) # 0
    BY <2>1, EmptySeq
  <2>. QED  BY <2>1, <2>2
<1>2. p[n][1] \in Int /\ p[n][2] \in Int /\ s \in Int /\ p[n][1] <= p[n][2] /\ <<p[n][1], s>> \in Int \X Int
  BY <1>1, PairIs DEF IsRuns
<1>3. q \in Seq(Int \X Int) /\ Len(q) = n /\ q[n] = <<p[n][1], s>> /\ \A i \in 1 .. n : i # n => q[i] = p[i]
  <2>1. q = [p EXCEPT ![n] = <<p[n][1], s>>]
    OBVIOUS
  <2>2. q \in Seq(Int \X Int) /\ Len(q) = n
    BY <1>1, <1>2, <2>1, ExceptSeq
  <2>. QED  BY <1>1, <2>2
<1>. HIDE DEF q
<1>4. \A i \in 1 .. Len(q) : q[i][1] = p[i][1] /\ p[i][2] <= q[i][2] /\ (i # n => q[i][2] = p[i][2])
  <2>1. \A i \in 1 .. n : p[i][2] \in Int
    BY <1>1, PairIs
  <2>2. q[n][1] = p[n][1] /\ q[n][2] = s
    BY <1>3
  <2>3. ASSUME NEW i \in 1 .. n PROVE q[i][1] = p[i][1] /\ p[i][2] <= q[i][2] /\ (i # n => q[i][2] = p[i][2])
    <3>1. CASE i = n
      BY <1>2, <2>2, <3>1
    <3>2. CASE i # n
      BY <1>3, <2>1, <3>2
    <3>. QED  BY <3>1, <3>2
  <2>. QED  BY <1>3, <2>3
<1>5. ASSUME NEW i \in 1 .. Len(q) PROVE q[i][1] <= q[i][2]
  <2>1. i \in 1 .. n /\ p[i][1] \in Int /\ p[i][2] \in Int /\ p[i][1] <= p[i][2]
    BY <1>1, <1>3, PairIs DEF IsRuns
  <2>2. CASE i = n
    BY <1>2, <1>3, <2>2
  <2>3. CASE i # n
    BY <1>3, <2>1, <2>3
  <2>. QED  BY <2>2, <2>3
<1>6. ASSUME NEW i \in 2 .. Len(q) PROVE q[i - 1][2] + 1 < q[i][1]
  <2>1. i - 1 \in 1 .. Len(q) /\ i - 1 # n /\ i \in 2 .. Len(p) /\ i \in 1 .. Len(q)
    <3>1. Len(q) = Len(p) /\ Len(p) \in Nat
      BY <1>1, <1>3
    <3>. QED  BY <3>1
  <2>2. p[i - 1][2] + 1 < p[i][1]
    BY <2>1 DEF IsRuns
  <2>. QED  BY <1>4, <2>1, <2>2
<1>7. Covers(q, D \cup {s})
  <2>. SUFFICES ASSUME NEW d \in Int
                PROVE  d \in D \cup {s} <=> \E i \in 1 .. Len(q) : d \in q[i][1] .. q[i][2]
    BY DEF Covers
  <2>1. d \in D <=> \E i \in 1 .. Len(p) : d \in p[i][1] .. p[i][2]
    BY DEF IsRuns, Covers
  <2>2. d \in q[n][1] .. q[n][2] <=> d \in p[n][1] .. p[n][2] \/ d = s
    BY <1>2, <1>3
  <2>3. \A i \in 1 .. n : i # n => (d \in q[i][1] .. q[i][2] <=> d \in p[i][1] .. p[i][2])
    BY <1>3
  <2>. QED  BY <1>1, <1>3, <2>1, <2>2, <2>3
<1>8. D \cup {s} \subseteq Int
  BY <1>1, <1>2
<1>. QED  BY <1>3, <1>5, <1>6, <1>7, <1>8 DEF IsRuns, q

\* The last run ends with the greatest number.
LEMMA LastIsGreatest ==
  ASSUME NEW p, NEW D, IsRuns(p, D), p # <<>>
  PROVE  /\ Len(p) \in 1 .. Len(p) /\ p[Len(p)][2] \in D /\ p[Len(p)][1] \in Int /\ p[Len(p)][2] \in Int
         /\ \A d \in D : d <= p[Len(p)][2]
<1> DEFINE n == Len(p)
<1>1. p \in Seq(Int \X Int) /\ D \subseteq Int /\ n \in Nat /\ n \in 1 .. n
  <2>1. p \in Seq(Int \X Int) /\ D \subseteq Int
    BY DEF IsRuns
  <2>2. Len(p) \in Nat /\ Len(p) # 0
    BY <2>1, EmptySeq
  <2>. QED  BY <2>1, <2>2
<1>2. \A i \in 1 .. n : p[i][1] \in Int /\ p[i][2] \in Int /\ p[i][1] <= p[i][2]
  BY <1>1, PairIs DEF IsRuns
<1>3. p[n][2] \in D
  <2>1. p[n][1] \in Int /\ p[n][2] \in Int /\ p[n][1] <= p[n][2]
    BY <1>1, <1>2
  <2>2. p[n][2] \in p[n][1] .. p[n][2]
    BY <2>1
  <2>. QED  BY <1>1, <2>1, <2>2 DEF IsRuns, Covers
<1>4. ASSUME NEW d \in D PROVE d <= p[n][2]
  <2>1. PICK i \in 1 .. n : d \in p[i][1] .. p[i][2]
    BY <1>1 DEF IsRuns, Covers
  <2>2. CASE i = n
    BY <1>1, <1>2, <2>1, <2>2
  <2>3. CASE i # n
    <3>1. i < n
      BY <1>1, <2>3
    <3>2. p[i][2] + 1 < p[n][1]
      BY <1>1, <3>1, RunsRise, AllRise
    <3>3. d \in Int /\ d <= p[i][2] /\ p[i][2] \in Int /\ p[n][1] \in Int /\ p[n][2] \in Int /\ p[n][1] <= p[n][2]
      BY <1>1, <1>2, <2>1
    <3>. QED  BY <3>2, <3>3
  <2>. QED  BY <2>2, <2>3
<1>. QED  BY <1>1, <1>2, <1>3, <1>4

LEMMA NoRuns == IsRuns(<<>>, {})
<1>1. <<>> \in Seq(Int \X Int) /\ Len(<<>>) = 0
  BY EmptySeq
<1>. QED  BY <1>1 DEF IsRuns, Covers

\* The numbers of a set in ascending order, and those that the first k of them are.
Ascends(q, D) ==
  /\ q \in Seq(Int) /\ D \subseteq Int
  /\ \A i, j \in 1 .. Len(q) : i < j => q[i] < q[j]
  /\ \A d \in Int : d \in D <=> \E i \in 1 .. Len(q) : d = q[i]

FirstOf(q, k) == {q[i] : i \in 1 .. k}

LEMMA NumberAppended ==
  ASSUME NEW q, NEW D, Ascends(q, D), NEW s \in Int, \A d \in D : d < s, NEW E, E = D \cup {s}
  PROVE  Ascends(Append(q, s), E)
<1> DEFINE r == Append(q, s)
<1>1. q \in Seq(Int) /\ Len(q) \in Nat /\ D \subseteq Int
  BY LenProperties DEF Ascends
<1>2. r \in Seq(Int) /\ Len(r) = Len(q) + 1 /\ r[Len(q) + 1] = s /\ \A i \in 1 .. Len(q) : r[i] = q[i] /\ q[i] \in Int
  BY <1>1, AppendProperties, ElementOfSeq
<1>. HIDE DEF r
<1>3. \A i \in 1 .. Len(r) : i \in 1 .. Len(q) \/ i = Len(q) + 1
  BY <1>1, <1>2
<1>4. \A i \in 1 .. Len(q) : q[i] \in D /\ i \in 1 .. Len(r)
  BY <1>1, <1>2 DEF Ascends
<1>5. ASSUME NEW i \in 1 .. Len(r), NEW j \in 1 .. Len(r), i < j PROVE r[i] < r[j]
  <2>1. i \in 1 .. Len(q)
    BY <1>1, <1>3, <1>5
  <2>2. CASE j \in 1 .. Len(q)
    BY <1>2, <1>5, <2>1, <2>2 DEF Ascends
  <2>3. CASE j = Len(q) + 1
    BY <1>2, <1>4, <2>1, <2>3
  <2>. QED  BY <1>3, <2>2, <2>3
<1>6. ASSUME NEW d \in Int PROVE d \in E <=> \E i \in 1 .. Len(r) : d = r[i]
  <2>1. d \in D <=> \E i \in 1 .. Len(q) : d = q[i]
    BY DEF Ascends
  <2>2. Len(q) + 1 \in 1 .. Len(r)
    BY <1>1, <1>2
  <2>. QED  BY <1>2, <1>3, <1>4, <2>1, <2>2
<1>. QED  BY <1>1, <1>2, <1>5, <1>6 DEF Ascends, r

LEMMA FirstAre ==
  ASSUME NEW q, NEW D, Ascends(q, D)
  PROVE  /\ Len(q) \in Nat /\ FirstOf(q, 0) = {} /\ FirstOf(q, Len(q)) = D
         /\ \A k \in 1 .. Len(q) : /\ q[k] \in Int /\ q[k] \in D /\ FirstOf(q, k) = FirstOf(q, k - 1) \cup {q[k]}
                                   /\ \A d \in FirstOf(q, k - 1) : d \in D /\ d < q[k]
<1>1. q \in Seq(Int) /\ D \subseteq Int /\ Len(q) \in Nat /\ \A i \in 1 .. Len(q) : q[i] \in Int
  BY LenProperties, ElementOfSeq DEF Ascends
<1>2. \A i \in 1 .. Len(q) : q[i] \in D
  BY <1>1 DEF Ascends
<1>3. FirstOf(q, 0) = {}
  BY DEF FirstOf
<1>4. FirstOf(q, Len(q)) = D
  BY <1>1, <1>2 DEF FirstOf, Ascends
<1>5. ASSUME NEW k \in 1 .. Len(q)
      PROVE  FirstOf(q, k) = FirstOf(q, k - 1) \cup {q[k]} /\ \A d \in FirstOf(q, k - 1) : d \in D /\ d < q[k]
  <2>1. \A i : i \in 1 .. k <=> i \in 1 .. k - 1 \/ i = k
    BY <1>1
  <2>2. \A i \in 1 .. k - 1 : i \in 1 .. Len(q) /\ i < k
    BY <1>1
  <2>. QED  BY <1>2, <2>1, <2>2 DEF FirstOf, Ascends
<1>. QED  BY <1>1, <1>2, <1>3, <1>4, <1>5

\* Sorted gives them.
LEMMA SortedIs ==
  ASSUME NEW set \in SUBSET Seqs
  PROVE  Ascends(Sorted(set), set)
<1> DEFINE N == MaxSeq
           first == <<>>
           Step(n, x) == IF n \in set THEN Append(x, n) ELSE x
           Is(g) == g = [n \in 0 .. N |-> IF n = 0 THEN first ELSE Step(n, g[n - 1])]
           st == CHOOSE g : Is(g)
           W == [n \in 0 .. N |-> {x \in Seq(Int) : Ascends(x, set \cap 1 .. n)}]
           F == [n \in 1 .. N |-> [x \in W[n - 1] |-> Step(n, x)]]
<1>1. N \in Nat
  BY BlocksAssumption
<1>2. first \in W[0]
  <2>1. set \cap 1 .. 0 = {} /\ <<>> \in Seq(Int) /\ Len(<<>>) = 0 /\ 0 \in 0 .. N
    BY <1>1, EmptySeq
  <2>. QED  BY <2>1 DEF Ascends
<1>3. ASSUME NEW n \in 1 .. N, NEW x \in W[n - 1] PROVE Step(n, x) \in W[n]
  <2>1. n - 1 \in 0 .. N /\ n \in 0 .. N /\ n \in Int /\ \A d \in 1 .. n - 1 : d < n
    BY <1>1
  <2>2. Ascends(x, set \cap 1 .. n - 1)
    BY <2>1
  <2>3. \A d : d \in 1 .. n <=> d \in 1 .. n - 1 \/ d = n
    BY <2>1
  <2>4. CASE n \in set
    <3>1. set \cap 1 .. n = (set \cap 1 .. n - 1) \cup {n}
      BY <2>3, <2>4
    <3>2. Ascends(Append(x, n), set \cap 1 .. n)
      BY <2>1, <2>2, <3>1, NumberAppended
    <3>. QED  BY <2>1, <2>4, <3>2 DEF Ascends
  <2>5. CASE n \notin set
    <3>1. set \cap 1 .. n = set \cap 1 .. n - 1
      BY <2>3, <2>5
    <3>. QED  BY <2>1, <2>2, <2>5, <3>1 DEF Ascends
  <2>. QED  BY <2>4, <2>5
<1>4. \A k \in 1 .. N : \A x \in W[k - 1] : F[k][x] = Step(k, x) /\ F[k][x] \in W[k]
  <2>. HIDE DEF N, W, Step
  <2>. QED  BY <1>3
<1>. HIDE DEF N, first, Step, W, F
<1>5. \E g : Is(g)
  <2>1. PICK g : /\ g = [k \in 0 .. N |-> g[k]] /\ IsLoop(g, N, first, F)
                 /\ \A k \in 0 .. N : g[k] \in W[k]
    BY <1>1, <1>2, <1>4, LoopExists
  <2>2. ASSUME NEW k \in 0 .. N
        PROVE  g[k] = IF k = 0 THEN first ELSE Step(k, g[k - 1])
    <3>1. CASE k = 0
      BY <2>1, <3>1 DEF IsLoop
    <3>2. CASE k # 0
      <4>1. k \in 1 .. N /\ k - 1 \in 0 .. N
        BY <1>1, <3>2
      <4>2. g[k] = F[k][g[k - 1]] /\ g[k - 1] \in W[k - 1]
        BY <2>1, <4>1 DEF IsLoop
      <4>. QED  BY <1>4, <3>2, <4>1, <4>2
    <3>. QED  BY <3>1, <3>2
  <2>3. Is(g)
    BY <2>1, <2>2
  <2>. QED  BY <2>3
<1>6. Is(st)
  BY <1>5
<1>. HIDE DEF st
<1>7. st[0] = first /\ \A k \in 1 .. N : st[k] = Step(k, st[k - 1])
  <2>1. \A k \in 1 .. N : k \in 0 .. N /\ k # 0
    BY <1>1
  <2>2. \A k \in 0 .. N : st[k] = IF k = 0 THEN first ELSE Step(k, st[k - 1])
    BY <1>6
  <2>. QED  BY <1>1, <2>1, <2>2
<1>. HIDE DEF Is
<1>8. Takes(st, N, first, W, F)
  BY <1>4, <1>7 DEF Takes
<1>9. \A k \in 0 .. N : st[k] \in W[k]
  BY <1>1, <1>2, <1>4, <1>8, LoopReaches
<1>10. st[N] \in W[N]
  BY <1>1, <1>9
<1>11. Sorted(set) = st[N]
  BY DEF Sorted, st, Is, Step, first, N
<1>12. set \cap 1 .. N = set
  BY DEF Seqs, N
<1>13. N \in 0 .. N
  BY <1>1
<1>. QED  BY <1>10, <1>11, <1>12, <1>13 DEF W

\* A sequence behind all others continues the last run or begins one.
LEMMA ContinuedIs ==
  ASSUME NEW p, NEW D \in SUBSET Seqs, IsRuns(p, D), NEW s \in Seqs, \A d \in D : d < s
  PROVE  IsRuns(Continued(p, s), D \cup {s})
<1>1. MaxSeq \in Nat /\ Modulus \in Nat /\ MaxSeq + 1 < Modulus /\ s \in Int /\ D \subseteq Int
  BY BlocksAssumption, SequenceAssumption DEF Seqs
<1>2. CASE p = <<>>
  <2>1. p \in Seq(Int \X Int) /\ Len(p) = 0
    BY <1>2, EmptySeq
  <2>2. D = {}
    <3>1. \A d \in D : d \in Int
      BY <1>1
    <3>. QED  BY <2>1, <3>1 DEF IsRuns, Covers
  <2>3. D \cup {s} = D \cup (s .. s) /\ s <= s
    BY <1>1
  <2>4. IsRuns(Append(p, <<s, s>>), D \cup {s})
    BY <1>1, <2>2, <2>3, RunAppended
  <2>. QED  BY <1>2, <2>4 DEF Continued
<1>3. CASE p # <<>>
  <2> DEFINE e == p[Len(p)][2]
  <2>1. e \in D /\ e \in Int /\ \A d \in D : d <= e
    BY <1>3, LastIsGreatest
  <2>. HIDE DEF e
  <2>2. e < s /\ e \in 0 .. Modulus - 1 /\ e + 1 \in 0 .. Modulus - 1
    BY <1>1, <2>1 DEF Seqs
  <2>3. Wrap(e + 1) = e + 1
    BY <2>2, WrapIs
  <2>4. CASE s = e + 1
    <3>1. Continued(p, s) = [p EXCEPT ![Len(p)] = <<@[1], s>>]
      BY <1>3, <2>3, <2>4 DEF Continued, e
    <3>2. IsRuns([p EXCEPT ![Len(p)] = <<@[1], s>>], D \cup {s})
      BY <1>3, <2>4, RunExtended DEF e
    <3>. QED  BY <3>1, <3>2
  <2>5. CASE s # e + 1
    <3>1. Continued(p, s) = Append(p, <<s, s>>)
      BY <2>3, <2>5 DEF Continued, e
    <3>2. \A d \in D : d + 1 < s
      BY <1>1, <2>1, <2>2, <2>5
    <3>3. D \cup {s} = D \cup (s .. s) /\ s <= s
      BY <1>1
    <3>4. IsRuns(Append(p, <<s, s>>), D \cup {s})
      BY <1>1, <3>2, <3>3, RunAppended
    <3>. QED  BY <3>1, <3>4
  <2>. QED  BY <2>4, <2>5
<1>. QED  BY <1>2, <1>3

\* getContinuousSequences gives the runs of what its sequences are.
LEMMA ContinuousAre ==
  ASSUME NEW D \in SUBSET Seqs, NEW q, Ascends(q, D)
  PROVE  IsRuns(getContinuousSequences(q), D)
<1> DEFINE N == Len(q)
           first == <<>>
           Step(k, x) == Continued(x, q[k])
           Is(g) == g = [k \in 0 .. N |-> IF k = 0 THEN first ELSE Step(k, g[k - 1])]
           st == CHOOSE g : Is(g)
           W == [k \in 0 .. N |-> {x \in Seq(Int \X Int) : IsRuns(x, FirstOf(q, k))}]
           F == [k \in 1 .. N |-> [x \in W[k - 1] |-> Step(k, x)]]
<1>0. /\ FirstOf(q, 0) = {} /\ FirstOf(q, Len(q)) = D
      /\ \A k \in 1 .. N : /\ q[k] \in Seqs /\ FirstOf(q, k) = FirstOf(q, k - 1) \cup {q[k]}
                           /\ FirstOf(q, k - 1) \in SUBSET Seqs
                           /\ \A d \in FirstOf(q, k - 1) : d < q[k]
  BY FirstAre
<1>1. N \in Nat
  BY FirstAre
<1>2. first \in W[0]
  <2>1. <<>> \in Seq(Int \X Int) /\ 0 \in 0 .. N
    BY <1>1, EmptySeq
  <2>. QED  BY <1>0, <2>1, NoRuns
<1>3. ASSUME NEW k \in 1 .. N, NEW x \in W[k - 1] PROVE Step(k, x) \in W[k]
  <2>1. k - 1 \in 0 .. N /\ k \in 0 .. N
    BY <1>1
  <2>2. IsRuns(x, FirstOf(q, k - 1))
    BY <2>1
  <2>3. IsRuns(Continued(x, q[k]), FirstOf(q, k - 1) \cup {q[k]})
    <3>. HIDE DEF W
    <3>. QED  BY <1>0, <2>2, ContinuedIs
  <2>. QED  BY <1>0, <2>1, <2>3 DEF IsRuns
<1>4. \A k \in 1 .. N : \A x \in W[k - 1] : F[k][x] = Step(k, x) /\ F[k][x] \in W[k]
  <2>. HIDE DEF N, W, Step
  <2>. QED  BY <1>3
<1>. HIDE DEF N, first, Step, W, F
<1>5. \E g : Is(g)
  <2>1. PICK g : /\ g = [k \in 0 .. N |-> g[k]] /\ IsLoop(g, N, first, F)
                 /\ \A k \in 0 .. N : g[k] \in W[k]
    BY <1>1, <1>2, <1>4, LoopExists
  <2>2. ASSUME NEW k \in 0 .. N
        PROVE  g[k] = IF k = 0 THEN first ELSE Step(k, g[k - 1])
    <3>1. CASE k = 0
      BY <2>1, <3>1 DEF IsLoop
    <3>2. CASE k # 0
      <4>1. k \in 1 .. N /\ k - 1 \in 0 .. N
        BY <1>1, <3>2
      <4>2. g[k] = F[k][g[k - 1]] /\ g[k - 1] \in W[k - 1]
        BY <2>1, <4>1 DEF IsLoop
      <4>. QED  BY <1>4, <3>2, <4>1, <4>2
    <3>. QED  BY <3>1, <3>2
  <2>3. Is(g)
    BY <2>1, <2>2
  <2>. QED  BY <2>3
<1>6. Is(st)
  BY <1>5
<1>. HIDE DEF st
<1>7. st[0] = first /\ \A k \in 1 .. N : st[k] = Step(k, st[k - 1])
  <2>1. \A k \in 1 .. N : k \in 0 .. N /\ k # 0
    BY <1>1
  <2>2. \A k \in 0 .. N : st[k] = IF k = 0 THEN first ELSE Step(k, st[k - 1])
    BY <1>6
  <2>. QED  BY <1>1, <2>1, <2>2
<1>. HIDE DEF Is
<1>8. Takes(st, N, first, W, F)
  BY <1>4, <1>7 DEF Takes
<1>9. \A k \in 0 .. N : st[k] \in W[k]
  BY <1>1, <1>2, <1>4, <1>8, LoopReaches
<1>10. st[N] \in W[N]
  BY <1>1, <1>9
<1>11. getContinuousSequences(q) = st[N]
  BY DEF getContinuousSequences, st, Is, Step, first, N
<1>12. N \in 0 .. N
  BY <1>1
<1>. QED  BY <1>0, <1>10, <1>11, <1>12 DEF W, N

\* What a set leaves free before n, when everything before h is known and it begins at n.
LEMMA LeftBefore ==
  ASSUME NEW D, NEW from \in Int, NEW h \in Int, NEW n \in Int, from <= h, h <= n,
         NEW p, IsRuns(p, (from .. h - 1) \ D), h = from \/ h - 1 \in D, \A d \in h .. n - 1 : d \notin D
  PROVE  IsRuns(IF n = h THEN p ELSE Append(p, <<h, n - 1>>), (from .. n - 1) \ D)
<1>1. CASE n = h
  BY <1>1
<1>2. CASE n # h
  <2> DEFINE L == (from .. h - 1) \ D
             E == (from .. n - 1) \ D
  <2>1. h <= n - 1 /\ n - 1 \in Int
    BY <1>2
  <2>2. E = L \cup (h .. n - 1)
    <3>1. \A d : d \in from .. n - 1 <=> d \in from .. h - 1 \/ d \in h .. n - 1
      BY <2>1
    <3>. QED  BY <3>1
  <2>3. \A d \in L : d + 1 < h
    <3>. SUFFICES ASSUME NEW d \in L PROVE d + 1 < h
      OBVIOUS
    <3>1. d \in from .. h - 1 /\ d \notin D
      OBVIOUS
    <3>2. h # from /\ d # h - 1
      BY <3>1
    <3>. QED  BY <3>1, <3>2
  <2>. HIDE DEF E, L
  <2>4. IsRuns(Append(p, <<h, n - 1>>), E)
    BY <2>1, <2>2, <2>3, RunAppended DEF L
  <2>. QED  BY <1>2, <2>4 DEF E
<1>. QED  BY <1>1, <1>2

\* What a run holds, and that nothing lies between it and the run before.
LEMMA RunIs ==
  ASSUME NEW r, NEW H, IsRuns(r, H), NEW k \in 1 .. Len(r)
  PROVE  /\ Len(r) \in Nat /\ r[k][1] \in Int /\ r[k][2] \in Int /\ r[k][1] <= r[k][2]
         /\ r[k][1] .. r[k][2] \subseteq H
         /\ k > 1 => r[k - 1][2] \in H /\ r[k - 1][2] + 1 < r[k][1]
         /\ \A d \in H : d < r[k][1] => k > 1 /\ d <= r[k - 1][2]
<1>1. r \in Seq(Int \X Int) /\ H \subseteq Int /\ Len(r) \in Nat
  BY LenProperties DEF IsRuns
<1>2. \A i \in 1 .. Len(r) : r[i][1] \in Int /\ r[i][2] \in Int /\ r[i][1] <= r[i][2]
  BY <1>1, PairIs DEF IsRuns
<1>3. ASSUME NEW i \in 1 .. Len(r) PROVE r[i][1] .. r[i][2] \subseteq H
  BY <1>2, <1>3 DEF IsRuns, Covers
<1>4. k > 1 => r[k - 1][2] \in H /\ r[k - 1][2] + 1 < r[k][1]
  <2>. SUFFICES ASSUME k > 1 PROVE r[k - 1][2] \in H /\ r[k - 1][2] + 1 < r[k][1]
    OBVIOUS
  <2>1. k - 1 \in 1 .. Len(r) /\ k \in 2 .. Len(r)
    BY <1>1
  <2>2. r[k - 1][2] \in r[k - 1][1] .. r[k - 1][2]
    <3>1. r[k - 1][1] \in Int /\ r[k - 1][2] \in Int /\ r[k - 1][1] <= r[k - 1][2]
      BY <1>2, <2>1
    <3>. QED  BY <3>1
  <2>. QED  BY <1>3, <2>1, <2>2 DEF IsRuns
<1>5. ASSUME NEW d \in H, d < r[k][1] PROVE k > 1 /\ d <= r[k - 1][2]
  <2>1. PICK i \in 1 .. Len(r) : d \in r[i][1] .. r[i][2]
    BY <1>1 DEF IsRuns, Covers
  <2>2. d \in Int /\ r[k][1] \in Int /\ r[i][1] \in Int /\ r[i][2] \in Int /\ r[k][2] \in Int /\ r[i][1] <= d /\ d <= r[i][2]
    BY <1>1, <1>2, <2>1
  <2>3. i < k
    <3>1. CASE i = k
      BY <1>5, <2>2, <3>1
    <3>2. CASE k < i
      <4>1. r[k][2] + 1 < r[i][1] /\ r[k][1] <= r[k][2]
        BY <1>2, <3>2, RunsRise, AllRise
      <4>. QED  BY <1>5, <2>2, <4>1
    <3>. QED  BY <1>1, <3>1, <3>2
  <2>4. k - 1 \in 1 .. Len(r) /\ k > 1
    BY <1>1, <2>3
  <2>5. CASE i = k - 1
    BY <2>2, <2>4, <2>5
  <2>6. CASE i < k - 1
    <3>1. r[i][2] + 1 < r[k - 1][1] /\ r[k - 1][1] \in Int /\ r[k - 1][2] \in Int /\ r[k - 1][1] <= r[k - 1][2]
      BY <1>2, <2>4, <2>6, RunsRise, AllRise
    <3>. QED  BY <2>2, <2>4, <3>1
  <2>. QED  BY <1>1, <2>3, <2>4, <2>5, <2>6
<1>. QED  BY <1>1, <1>2, <1>3, <1>4, <1>5

\* subBlocks gives the runs of what the runs of H leave of from .. to.
LEMMA SubBlocksAre ==
  ASSUME NEW from \in Seqs, NEW to \in Seqs, from <= to, NEW H \in SUBSET (from .. to), NEW r, IsRuns(r, H)
  PROVE  IsRuns(subBlocks(from, to, r), (from .. to) \ H)
<1> DEFINE N == Len(r)
           first == [head |-> from, res |-> <<>>]
           Step(k, x) == CutOut(x, r[k])
           Is(g) == g = [k \in 0 .. N |-> IF k = 0 THEN first ELSE Step(k, g[k - 1])]
           st == CHOOSE g : Is(g)
           W == [k \in 0 .. N |-> {x \in [head : Int, res : Seq(Int \X Int)] :
                                     /\ x.head \in from .. to + 1
                                     /\ x.head = IF k = 0 THEN from ELSE r[k][2] + 1
                                     /\ IsRuns(x.res, (from .. x.head - 1) \ H)}]
           F == [k \in 1 .. N |-> [x \in W[k - 1] |-> Step(k, x)]]
<1>0. from \in Int /\ to \in Int /\ from \in 1 .. MaxSeq /\ to \in 1 .. MaxSeq /\ MaxSeq \in Nat /\ Modulus \in Nat
      /\ MaxSeq + 1 < Modulus /\ \A d \in H : d \in Int
  BY BlocksAssumption, SequenceAssumption DEF Seqs
<1>1. N \in Nat
  BY LenProperties DEF IsRuns
<1>2. first \in W[0]
  <2>1. <<>> \in Seq(Int \X Int) /\ 0 \in 0 .. N /\ (from .. from - 1) \ H = {} /\ from \in from .. to + 1
    BY <1>0, <1>1, EmptySeq
  <2>. QED  BY <1>0, <2>1, NoRuns
<1>3. ASSUME NEW k \in 1 .. N, NEW x \in W[k - 1] PROVE Step(k, x) \in W[k]
  <2> DEFINE h == x.head
             n == r[k][1]
             m == r[k][2]
  <2>1. k - 1 \in 0 .. N /\ k \in 0 .. N /\ k # 0 /\ (k - 1 = 0 <=> ~(k > 1))
    BY <1>1
  <2>2. /\ x \in [head : Int, res : Seq(Int \X Int)] /\ h \in from .. to + 1
        /\ h = IF k - 1 = 0 THEN from ELSE r[k - 1][2] + 1
        /\ IsRuns(x.res, (from .. h - 1) \ H)
    BY <2>1
  <2>. HIDE DEF h, W
  <2>3. /\ n \in Int /\ m \in Int /\ n <= m /\ n .. m \subseteq H
        /\ k > 1 => r[k - 1][2] \in H /\ r[k - 1][2] + 1 < n
        /\ \A d \in H : d < n => k > 1 /\ d <= r[k - 1][2]
    BY RunIs
  <2>. HIDE DEF n, m
  <2>4. n \in H /\ m \in H /\ n \in from .. to /\ m \in from .. to
    BY <2>3
  <2>5. h <= n /\ (h = from \/ h - 1 \in H) /\ h \in Int
    <3>1. CASE k > 1
      <4>1. r[k - 1][2] \in H /\ r[k - 1][2] + 1 < n
        BY <2>3, <3>1
      <4>2. k - 1 # 0
        BY <3>1
      <4>3. h = r[k - 1][2] + 1
        BY <2>2, <4>2
      <4>4. r[k - 1][2] \in Int
        BY <1>0, <4>1
      <4>. QED  BY <4>1, <4>3, <4>4, <2>3
    <3>2. CASE ~(k > 1)
      BY <1>0, <2>1, <2>2, <2>4, <3>2
    <3>. QED  BY <3>1, <3>2
  <2>6. \A d \in h .. n - 1 : d \notin H
    <3>. SUFFICES ASSUME NEW d \in h .. n - 1, d \in H PROVE FALSE
      OBVIOUS
    <3>1. d < n
      BY <2>3, <2>5
    <3>2. k > 1 /\ d <= r[k - 1][2] /\ r[k - 1][2] \in Int
      <4>1. k > 1 /\ d <= r[k - 1][2]
        BY <2>3, <3>1
      <4>2. r[k - 1][2] \in H
        BY <2>3, <4>1
      <4>. QED  BY <1>0, <4>1, <4>2
    <3>3. h = r[k - 1][2] + 1
      BY <2>1, <2>2, <3>2
    <3>. QED  BY <3>2, <3>3
  <2> DEFINE p == IF n = h THEN x.res ELSE Append(x.res, <<h, n - 1>>)
  <2>7. IsRuns(p, (from .. n - 1) \ H)
    <3>1. from <= h
      BY <1>0, <2>2
    <3>2. IsRuns(x.res, (from .. h - 1) \ H)
      BY <2>2
    <3>3. n \in Int
      BY <2>3
    <3>4. IsRuns(IF n = h THEN x.res ELSE Append(x.res, <<h, n - 1>>), (from .. n - 1) \ H)
      BY <1>0, <2>5, <2>6, <3>1, <3>2, <3>3, LeftBefore
    <3>. QED  BY <3>4
  <2>8. (from .. n - 1) \ H = (from .. (m + 1) - 1) \ H
    <3>1. \A d : d \in from .. (m + 1) - 1 <=> d \in from .. n - 1 \/ d \in n .. m
      BY <1>0, <2>3, <2>4
    <3>. QED  BY <2>3, <3>1
  <2>9. Wrap(m + 1) = m + 1
    <3>1. m + 1 \in 0 .. Modulus - 1
      BY <1>0, <2>4
    <3>. QED  BY <3>1, WrapIs
  <2>10. Step(k, x) = [head |-> m + 1, res |-> p]
    BY <2>9 DEF CutOut, n, m, h
  <2>11. p \in Seq(Int \X Int)
    BY <2>7 DEF IsRuns
  <2>12. m + 1 \in from .. to + 1 /\ m + 1 \in Int
    BY <1>0, <2>4
  <2>. HIDE DEF p, Step
  <2>13. Step(k, x) \in [head : Int, res : Seq(Int \X Int)] /\ Step(k, x).head = m + 1 /\ Step(k, x).res = p
    BY <2>10, <2>11, <2>12
  <2>14. IsRuns(Step(k, x).res, (from .. Step(k, x).head - 1) \ H)
    BY <2>7, <2>8, <2>13
  <2>. QED  BY <2>1, <2>12, <2>13, <2>14 DEF W, m
<1>4. \A k \in 1 .. N : \A x \in W[k - 1] : F[k][x] = Step(k, x) /\ F[k][x] \in W[k]
  <2>. HIDE DEF N, W, Step
  <2>. QED  BY <1>3
<1>. HIDE DEF N, first, Step, W, F
<1>5. \E g : Is(g)
  <2>1. PICK g : /\ g = [k \in 0 .. N |-> g[k]] /\ IsLoop(g, N, first, F)
                 /\ \A k \in 0 .. N : g[k] \in W[k]
    BY <1>1, <1>2, <1>4, LoopExists
  <2>2. ASSUME NEW k \in 0 .. N
        PROVE  g[k] = IF k = 0 THEN first ELSE Step(k, g[k - 1])
    <3>1. CASE k = 0
      BY <2>1, <3>1 DEF IsLoop
    <3>2. CASE k # 0
      <4>1. k \in 1 .. N /\ k - 1 \in 0 .. N
        BY <1>1, <3>2
      <4>2. g[k] = F[k][g[k - 1]] /\ g[k - 1] \in W[k - 1]
        BY <2>1, <4>1 DEF IsLoop
      <4>. QED  BY <1>4, <3>2, <4>1, <4>2
    <3>. QED  BY <3>1, <3>2
  <2>3. Is(g)
    BY <2>1, <2>2
  <2>. QED  BY <2>3
<1>6. Is(st)
  BY <1>5
<1>. HIDE DEF st
<1>7. st[0] = first /\ \A k \in 1 .. N : st[k] = Step(k, st[k - 1])
  <2>1. \A k \in 1 .. N : k \in 0 .. N /\ k # 0
    BY <1>1
  <2>2. \A k \in 0 .. N : st[k] = IF k = 0 THEN first ELSE Step(k, st[k - 1])
    BY <1>6
  <2>. QED  BY <1>1, <2>1, <2>2
<1>. HIDE DEF Is
<1>8. Takes(st, N, first, W, F)
  BY <1>4, <1>7 DEF Takes
<1>9. \A k \in 0 .. N : st[k] \in W[k]
  BY <1>1, <1>2, <1>4, <1>8, LoopReaches
<1>10. st[N] \in W[N]
  BY <1>1, <1>9
<1> DEFINE x == st[N]
           h == x.head
<1>11. /\ h \in from .. to + 1 /\ h = IF N = 0 THEN from ELSE r[N][2] + 1
       /\ IsRuns(x.res, (from .. h - 1) \ H)
  <2>1. N \in 0 .. N
    BY <1>1
  <2>. QED  BY <1>10, <2>1 DEF W
<1>12. subBlocks(from, to, r) = IF h <= to THEN Append(x.res, <<h, to>>) ELSE x.res
  BY DEF subBlocks, st, Is, Step, first, N
<1>. HIDE DEF x, h
<1>13. (h = from \/ h - 1 \in H) /\ \A d \in h .. (to + 1) - 1 : d \notin H
  <2>1. CASE N = 0
    <3>1. H = {}
      <4>1. r = <<>>
        BY <2>1, EmptySeq DEF N, IsRuns
      <4>2. \A d \in H : d \in Int
        BY <1>0
      <4>. QED  BY <2>1, <4>2 DEF IsRuns, Covers, N
    <3>. QED  BY <1>11, <2>1, <3>1
  <2>2. CASE N # 0
    <3>1. r # <<>>
      BY <2>2, EmptySeq DEF N, IsRuns
    <3>2. r[N][2] \in H /\ r[N][2] \in Int /\ \A d \in H : d <= r[N][2]
      BY <3>1, LastIsGreatest DEF N
    <3>3. h = r[N][2] + 1
      BY <1>11, <2>2
    <3>. QED  BY <1>0, <3>2, <3>3
  <2>. QED  BY <2>1, <2>2
<1>14. IsRuns(IF to + 1 = h THEN x.res ELSE Append(x.res, <<h, (to + 1) - 1>>), (from .. (to + 1) - 1) \ H)
  <2>1. h <= to + 1 /\ h \in Int /\ from <= h /\ to + 1 \in Int
    BY <1>0, <1>11
  <2>. QED  BY <1>0, <1>11, <1>13, <2>1, LeftBefore
<1>15. (to + 1) - 1 = to /\ (to + 1 = h <=> ~(h <= to))
  BY <1>0, <1>11
<1>. QED  BY <1>12, <1>14, <1>15

\* splitSequence gives the runs of what the nodes leave of from .. to.
LEMMA SplitSequenceIs ==
  ASSUME NEW from \in Seqs, NEW to \in Seqs, from <= to, NEW D \in SUBSET Seqs, NEW q, Ascends(q, D)
  PROVE  IsRuns(splitSequence(q, from, to - from + 1), (from .. to) \ D)
<1> DEFINE N == Len(q)
           first == [last |-> from, segs |-> <<>>]
           Step(k, x) == IF q[k] \in from .. to THEN SplitAt(x, q[k]) ELSE x
           Is(g) == g = [k \in 0 .. N |-> IF k = 0 THEN first ELSE Step(k, g[k - 1])]
           st == CHOOSE g : Is(g)
           W == [k \in 0 .. N |-> {x \in [last : Int, segs : Seq(Int \X Int)] :
                                     /\ x.last \in from .. to + 1
                                     /\ x.last = from \/ x.last - 1 \in FirstOf(q, k)
                                     /\ \A d \in FirstOf(q, k) : d <= to => d < x.last
                                     /\ IsRuns(x.segs, (from .. x.last - 1) \ D)}]
           F == [k \in 1 .. N |-> [x \in W[k - 1] |-> Step(k, x)]]
<1>0. from \in Int /\ to \in Int /\ from \in 1 .. MaxSeq /\ to \in 1 .. MaxSeq /\ MaxSeq \in Nat /\ Modulus \in Nat
      /\ MaxSeq + 1 < Modulus /\ \A d \in D : d \in Int
  BY BlocksAssumption, SequenceAssumption DEF Seqs
<1>a. /\ N \in Nat /\ FirstOf(q, 0) = {} /\ FirstOf(q, N) = D
      /\ \A k \in 1 .. N : /\ q[k] \in Int /\ q[k] \in D /\ FirstOf(q, k) = FirstOf(q, k - 1) \cup {q[k]}
                           /\ \A d \in FirstOf(q, k - 1) : d \in D /\ d < q[k]
  BY FirstAre
<1>b. Wrap(from + (to - from + 1) - 1) = to
  <2>1. from + (to - from + 1) - 1 = to /\ to \in 0 .. Modulus - 1
    BY <1>0
  <2>. QED  BY <2>1, WrapIs
<1>1. N \in Nat
  BY <1>a
<1>2. first \in W[0]
  <2>1. <<>> \in Seq(Int \X Int) /\ 0 \in 0 .. N /\ (from .. from - 1) \ D = {} /\ from \in from .. to + 1
    BY <1>0, <1>1, EmptySeq
  <2>. QED  BY <1>0, <1>a, <2>1, NoRuns
<1>3. ASSUME NEW k \in 1 .. N, NEW x \in W[k - 1] PROVE Step(k, x) \in W[k]
  <2> DEFINE h == x.last
             n == q[k]
             C == FirstOf(q, k - 1)
             E == FirstOf(q, k)
  <2>1. k - 1 \in 0 .. N /\ k \in 0 .. N
    BY <1>1
  <2>2. /\ x \in [last : Int, segs : Seq(Int \X Int)] /\ h \in from .. to + 1
        /\ h = from \/ h - 1 \in C
        /\ \A d \in C : d <= to => d < h
        /\ IsRuns(x.segs, (from .. h - 1) \ D)
    BY <2>1
  <2>3. n \in Int /\ n \in D /\ E = C \cup {n} /\ \A d \in C : d \in D /\ d \in Int /\ d < n
    BY <1>0, <1>a
  <2>4. \A d \in D : d < n => d \in C
    <3>. SUFFICES ASSUME NEW d \in D, d < n PROVE d \in C
      OBVIOUS
    <3>1. PICK i \in 1 .. N : d = q[i]
      BY <1>0 DEF Ascends
    <3>2. i < k
      <4>1. CASE i = k
        BY <1>0, <2>3, <3>1, <4>1
      <4>2. CASE k < i
        <5>1. q[k] < q[i]
          BY <4>2 DEF Ascends
        <5>. QED  BY <1>0, <2>3, <3>1, <5>1
      <4>. QED  BY <1>1, <4>1, <4>2
    <3>3. i \in 1 .. k - 1
      BY <1>1, <3>2
    <3>. QED  BY <3>1, <3>3 DEF FirstOf
  <2>. HIDE DEF h, n, W, C, E
  <2>5. CASE n \in from .. to
    <3>1. h <= n /\ h \in Int /\ from <= h /\ (h = from \/ h - 1 \in D)
      <4>1. CASE h = from
        BY <1>0, <2>5, <4>1
      <4>2. CASE h # from
        <5>1. h - 1 \in C
          BY <2>2, <4>2
        <5>2. h - 1 < n /\ h - 1 \in D
          BY <2>3, <5>1
        <5>. QED  BY <1>0, <2>2, <2>3, <5>2
      <4>. QED  BY <4>1, <4>2
    <3>2. \A d \in h .. n - 1 : d \notin D
      <4>. SUFFICES ASSUME NEW d \in h .. n - 1, d \in D PROVE FALSE
        OBVIOUS
      <4>1. d < n /\ d <= to /\ d >= h
        BY <1>0, <2>3, <2>5, <3>1
      <4>2. d \in C
        BY <2>4, <4>1
      <4>. QED  BY <2>2, <3>1, <4>1, <4>2
    <3> DEFINE p == IF n = h THEN x.segs ELSE Append(x.segs, <<h, n - 1>>)
    <3>3. IsRuns(p, (from .. n - 1) \ D)
      <4>1. IsRuns(x.segs, (from .. h - 1) \ D)
        BY <2>2
      <4>2. n \in Int
        BY <2>3
      <4>3. IsRuns(IF n = h THEN x.segs ELSE Append(x.segs, <<h, n - 1>>), (from .. n - 1) \ D)
        BY <1>0, <3>1, <3>2, <4>1, <4>2, LeftBefore
      <4>. QED  BY <4>3
    <3>4. (from .. n - 1) \ D = (from .. (n + 1) - 1) \ D
      <4>1. \A d : d \in from .. (n + 1) - 1 <=> d \in from .. n - 1 \/ d = n
        BY <1>0, <2>3, <2>5
      <4>. QED  BY <2>3, <4>1
    <3>5. Wrap(n + 1) = n + 1
      <4>1. n + 1 \in 0 .. Modulus - 1
        BY <1>0, <2>5
      <4>. QED  BY <4>1, WrapIs
    <3>6. Step(k, x) = [last |-> n + 1, segs |-> p]
      BY <2>5, <3>5 DEF SplitAt, n, h
    <3>7. p \in Seq(Int \X Int)
      BY <3>3 DEF IsRuns
    <3>8. n + 1 \in from .. to + 1 /\ n + 1 \in Int /\ (n + 1) - 1 \in E
      BY <1>0, <2>3, <2>5
    <3>9. \A d \in E : d <= to => d < n + 1
      <4>1. \A d \in C : d < n + 1
        BY <2>3
      <4>. QED  BY <2>3, <4>1
    <3>. HIDE DEF p, Step
    <3>10. Step(k, x) \in [last : Int, segs : Seq(Int \X Int)] /\ Step(k, x).last = n + 1 /\ Step(k, x).segs = p
      BY <3>6, <3>7, <3>8
    <3>11. IsRuns(Step(k, x).segs, (from .. Step(k, x).last - 1) \ D)
      BY <3>3, <3>4, <3>10
    <3>. QED  BY <2>1, <3>8, <3>9, <3>10, <3>11 DEF W, E
  <2>6. CASE n \notin from .. to
    <3>1. Step(k, x) = x
      BY <2>6 DEF n
    <3>2. n <= to => n < h
      BY <1>0, <2>2, <2>3, <2>6
    <3>3. (h = from \/ h - 1 \in E) /\ \A d \in E : d <= to => d < h
      BY <2>2, <2>3, <3>2
    <3>. HIDE DEF Step
    <3>. QED  BY <2>1, <2>2, <3>1, <3>3 DEF W, E, h
  <2>. QED  BY <2>5, <2>6
<1>4. \A k \in 1 .. N : \A x \in W[k - 1] : F[k][x] = Step(k, x) /\ F[k][x] \in W[k]
  <2>. HIDE DEF N, W, Step
  <2>. QED  BY <1>3
<1>. HIDE DEF N, first, Step, W, F
<1>5. \E g : Is(g)
  <2>1. PICK g : /\ g = [k \in 0 .. N |-> g[k]] /\ IsLoop(g, N, first, F)
                 /\ \A k \in 0 .. N : g[k] \in W[k]
    BY <1>1, <1>2, <1>4, LoopExists
  <2>2. ASSUME NEW k \in 0 .. N
        PROVE  g[k] = IF k = 0 THEN first ELSE Step(k, g[k - 1])
    <3>1. CASE k = 0
      BY <2>1, <3>1 DEF IsLoop
    <3>2. CASE k # 0
      <4>1. k \in 1 .. N /\ k - 1 \in 0 .. N
        BY <1>1, <3>2
      <4>2. g[k] = F[k][g[k - 1]] /\ g[k - 1] \in W[k - 1]
        BY <2>1, <4>1 DEF IsLoop
      <4>. QED  BY <1>4, <3>2, <4>1, <4>2
    <3>. QED  BY <3>1, <3>2
  <2>3. Is(g)
    BY <2>1, <2>2
  <2>. QED  BY <2>3
<1>6. Is(st)
  BY <1>5
<1>. HIDE DEF st
<1>7. st[0] = first /\ \A k \in 1 .. N : st[k] = Step(k, st[k - 1])
  <2>1. \A k \in 1 .. N : k \in 0 .. N /\ k # 0
    BY <1>1
  <2>2. \A k \in 0 .. N : st[k] = IF k = 0 THEN first ELSE Step(k, st[k - 1])
    BY <1>6
  <2>. QED  BY <1>1, <2>1, <2>2
<1>. HIDE DEF Is
<1>8. Takes(st, N, first, W, F)
  BY <1>4, <1>7 DEF Takes
<1>9. \A k \in 0 .. N : st[k] \in W[k]
  BY <1>1, <1>2, <1>4, <1>8, LoopReaches
<1>10. st[N] \in W[N]
  BY <1>1, <1>9
<1> DEFINE x == st[N]
           h == x.last
<1>11. /\ h \in from .. to + 1 /\ (h = from \/ h - 1 \in D)
       /\ \A d \in D : d <= to => d < h
       /\ IsRuns(x.segs, (from .. h - 1) \ D)
  <2>1. N \in 0 .. N
    BY <1>1
  <2>. QED  BY <1>a, <1>10, <2>1 DEF W
<1>12. splitSequence(q, from, to - from + 1) = IF h <= to THEN Append(x.segs, <<h, to>>) ELSE x.segs
  <2>1. splitSequence(q, from, to - from + 1) =
          LET endSeq == Wrap(from + (to - from + 1) - 1)
              turn[k \in 0 .. Len(q)] ==
                IF k = 0 THEN [last |-> from, segs |-> <<>>]
                ELSE IF q[k] \in from .. endSeq THEN SplitAt(turn[k - 1], q[k])
                ELSE turn[k - 1]
              cut == turn[Len(q)]
          IN IF cut.last <= endSeq THEN Append(cut.segs, <<cut.last, endSeq>>) ELSE cut.segs
    BY DEF splitSequence
  <2>. QED  BY <1>b, <2>1 DEF st, Is, Step, first, N
<1>. HIDE DEF x, h
<1>13. \A d \in h .. (to + 1) - 1 : d \notin D
  BY <1>0, <1>11
<1>14. IsRuns(IF to + 1 = h THEN x.segs ELSE Append(x.segs, <<h, (to + 1) - 1>>), (from .. (to + 1) - 1) \ D)
  <2>1. h <= to + 1 /\ h \in Int /\ from <= h /\ to + 1 \in Int
    BY <1>0, <1>11
  <2>. QED  BY <1>0, <1>11, <1>13, <2>1, LeftBefore
<1>15. (to + 1) - 1 = to /\ (to + 1 = h <=> ~(h <= to))
  BY <1>0, <1>11
<1>. QED  BY <1>12, <1>14, <1>15

-----------------------------------------------------------------------------
(* Blocks *)

LEMMA SeqsAre == MaxSeq \in Nat /\ 1 \in Seqs /\ \A s : s \in Seqs <=> s \in Int /\ 1 <= s /\ s <= MaxSeq
BY BlocksAssumption DEF Seqs

LEMMA BlockIs ==
  ASSUME NEW b \in Blocks
  PROVE  /\ b.from \in Int /\ b.to \in Int /\ b.from \in Seqs /\ b.to \in Seqs /\ b.from <= b.to /\ b.kind \in Kinds
         /\ 1 <= b.from /\ b.to <= MaxSeq
         /\ RangeOf(b) \subseteq Seqs /\ b.from \in RangeOf(b) /\ b.to \in RangeOf(b)
         /\ messageCnt(b) \in Nat /\ messageCnt(b) >= 1
         /\ IsFiniteSet(RangeOf(b)) /\ Cardinality(RangeOf(b)) = messageCnt(b)
<1>1. b.from \in Seqs /\ b.to \in Seqs /\ b.from <= b.to /\ b.kind \in Kinds
  BY DEF Blocks
<1>2. b.from \in Int /\ b.to \in Int /\ 1 <= b.from /\ b.to <= MaxSeq /\ MaxSeq \in Nat
  BY <1>1, SeqsAre
<1>3. RangeOf(b) \subseteq Seqs /\ b.from \in RangeOf(b) /\ b.to \in RangeOf(b)
  BY <1>1, <1>2, SeqsAre DEF RangeOf
<1>4. messageCnt(b) \in Nat /\ messageCnt(b) >= 1
  BY <1>1, <1>2 DEF messageCnt
<1>5. IsFiniteSet(RangeOf(b)) /\ Cardinality(RangeOf(b)) = messageCnt(b)
  BY <1>1, <1>2, FS_Interval DEF RangeOf, messageCnt
<1>. QED  BY <1>1, <1>2, <1>3, <1>4, <1>5

LEMMA LowestIs ==
  ASSUME NEW bs \in SUBSET Blocks, bs # {}
  PROVE  Lowest(bs) \in bs /\ \A c \in bs : Lowest(bs).from <= c.from
<1> DEFINE S == {b.from : b \in bs}
<1>1. S \subseteq Nat /\ S # {}
  BY BlockIs
<1>2. Min(S) \in S /\ \A y \in S : Min(S) <= y
  <2>. HIDE DEF S
  <2>. QED  BY <1>1, MinExists
<1>3. PICK b \in bs : b.from = Min(S)
  BY <1>2
<1>4. \A c \in bs : b.from <= c.from
  BY <1>2, <1>3
<1>. QED  BY <1>4 DEF Lowest

LEMMA HighestIs ==
  ASSUME NEW bs \in SUBSET Blocks, bs # {}
  PROVE  Highest(bs) \in bs /\ \A c \in bs : c.from <= Highest(bs).from
<1> DEFINE S == {b.from : b \in bs}
<1>1. S \subseteq Nat /\ S # {} /\ MaxSeq \in Nat
  BY BlockIs, SeqsAre
<1>2. \A x \in S : x <= MaxSeq
  BY BlockIs, SeqsAre
<1>3. Max(S) \in S /\ \A y \in S : Max(S) >= y
  <2>. HIDE DEF S
  <2>. QED  BY <1>1, <1>2, MaxExists
<1>4. PICK b \in bs : b.from = Max(S)
  BY <1>3
<1>5. \A c \in bs : c.from <= b.from
  <2>. SUFFICES ASSUME NEW c \in bs PROVE c.from <= b.from
    OBVIOUS
  <2>1. Max(S) >= c.from /\ b.from \in Int /\ c.from \in Int
    BY <1>3, BlockIs
  <2>. QED  BY <1>4, <2>1
<1>. QED  BY <1>5 DEF Highest

LEMMA HeldIs ==
  ASSUME NEW bs \in SUBSET Blocks
  PROVE  /\ Held(bs) \in SUBSET Seqs /\ \A s : s \in Held(bs) <=> \E b \in bs : s \in RangeOf(b)
         /\ IsFiniteSet(Held(bs)) /\ Cardinality(Held(bs)) \in Nat
<1>1. Held(bs) \in SUBSET Seqs
  BY BlockIs DEF Held
<1>2. IsFiniteSet(Seqs)
  BY SeqsAre, FS_Interval DEF Seqs
<1>3. IsFiniteSet(Held(bs)) /\ Cardinality(Held(bs)) \in Nat
  BY <1>1, <1>2, FS_Subset, FS_CardinalityType
<1>. QED  BY <1>1, <1>3 DEF Held

\* Blocks that share nothing are in order.
LEMMA InOrder ==
  ASSUME NEW bs \in SUBSET Blocks, Apart(bs), NEW b \in bs, NEW c \in bs
  PROVE  /\ b.from < c.from => b.to < c.from
         /\ b.from = c.from => b = c
         /\ \A s \in RangeOf(b) : s \in RangeOf(c) => b = c
<1>1. /\ b.from \in Int /\ b.to \in Int /\ b.from <= b.to /\ c.from \in Int /\ c.to \in Int /\ c.from <= c.to
      /\ b.from \in RangeOf(b) /\ c.from \in RangeOf(c)
  BY BlockIs
<1>2. \A s \in RangeOf(b) : s \in RangeOf(c) => b = c
  BY DEF Apart
<1>3. ASSUME b.from < c.from, ~(b.to < c.from) PROVE FALSE
  <2>1. c.from \in RangeOf(b)
    BY <1>1, <1>3 DEF RangeOf
  <2>2. b = c
    BY <1>1, <1>2, <2>1
  <2>. QED  BY <1>1, <1>3, <2>2
<1>4. b.from = c.from => b = c
  BY <1>1, <1>2
<1>. QED  BY <1>2, <1>3, <1>4

-----------------------------------------------------------------------------
(* SequencesSplit *)

LEMMA StartIs ==
  ASSUME NEW cursor \in Int, map.blocks \in SUBSET Blocks, Apart(map.blocks)
  PROVE  /\ StartAt(cursor) \subseteq map.blocks
         /\ \A x \in map.blocks : x.to > cursor => x \in StartAt(cursor)
<1> DEFINE behind == {x \in map.blocks : x.from >= cursor}
           before == map.blocks \ behind
<1>1. StartAt(cursor) = behind \cup {x \in before : x = Highest(before) /\ cursor <= x.to}
  BY DEF StartAt
<1>2. ASSUME NEW x \in map.blocks, x.to > cursor PROVE x \in StartAt(cursor)
  <2>1. x.from \in Int /\ x.to \in Int
    BY BlockIs
  <2>2. CASE x \in behind
    BY <1>1, <2>2
  <2>3. CASE x \notin behind
    <3> DEFINE y == Highest(before)
    <3>1. x \in before /\ before \in SUBSET Blocks
      BY <2>3
    <3>2. y \in before /\ x.from <= y.from
      BY <3>1, HighestIs
    <3>3. y \in map.blocks /\ y.from < cursor /\ y.from \in Int
      <4>1. y \in map.blocks /\ y \notin behind
        BY <3>2
      <4>2. y.from \in Int /\ ~(y.from >= cursor)
        BY <4>1, BlockIs
      <4>. QED  BY <4>1, <4>2
    <3>. HIDE DEF y
    <3>4. x.from = y.from
      <4>1. CASE x.from < y.from
        <5>1. x.to < y.from
          BY <3>3, <4>1, InOrder
        <5>. QED  BY <1>2, <2>1, <3>3, <5>1
      <4>. QED  BY <2>1, <3>2, <3>3, <4>1
    <3>5. x = y
      BY <3>3, <3>4, InOrder
    <3>6. cursor <= x.to
      BY <1>2, <2>1
    <3>. QED  BY <1>1, <3>1, <3>5, <3>6 DEF y
  <2>. QED  BY <2>2, <2>3
<1>. QED  BY <1>1, <1>2

\* forward shows all messages behind the cursor.
LEMMA ForwardIs ==
  ASSUME NEW cursor \in Int, map.blocks \in SUBSET Blocks, Apart(map.blocks)
  PROVE  forward(cursor) = {s \in InMap : cursor < s}
<1>1. ASSUME NEW x \in StartAt(cursor)
      PROVE  \A s : s \in Max({x.from, cursor + 1}) .. x.to <=> s \in RangeOf(x) /\ cursor < s
  <2>1. x.from \in Int /\ x.to \in Int
    BY StartIs, BlockIs
  <2>2. Max({x.from, cursor + 1}) = IF x.from >= cursor + 1 THEN x.from ELSE cursor + 1
    BY <2>1, MaxOfPair
  <2>. QED  BY <2>1, <2>2 DEF RangeOf
<1>2. \A s : s \in forward(cursor) <=> \E x \in StartAt(cursor) : s \in RangeOf(x) /\ cursor < s
  BY <1>1 DEF forward
<1>3. \A s : s \in InMap <=> \E x \in map.blocks : s \in RangeOf(x)
  BY DEF InMap, Held
<1>4. ASSUME NEW s, NEW x \in map.blocks, s \in RangeOf(x), cursor < s PROVE x \in StartAt(cursor)
  <2>1. x.to > cursor
    BY <1>4, BlockIs DEF RangeOf
  <2>. QED  BY <2>1, StartIs
<1>. QED  BY <1>2, <1>3, <1>4, StartIs

LEMMA CoverIs ==
  ASSUME NEW p, NEW D, IsRuns(p, D)
  PROVE  UNION {b[1] .. b[2] : b \in Range(p)} = D
<1>1. p \in Seq(Int \X Int) /\ D \subseteq Int /\ DOMAIN p = 1 .. Len(p)
  BY LenProperties DEF IsRuns
<1>2. \A d : d \in UNION {b[1] .. b[2] : b \in Range(p)} <=> \E i \in 1 .. Len(p) : d \in p[i][1] .. p[i][2]
  BY <1>1 DEF Range
<1>3. \A i \in 1 .. Len(p) : p[i][1] .. p[i][2] \subseteq Int
  BY <1>1, PairIs
<1>. QED  BY <1>1, <1>2, <1>3 DEF IsRuns, Covers

LEMMA LeftIs ==
  ASSUME NEW from \in Seqs, NEW to \in Seqs, from <= to, NEW H \in SUBSET (from .. to)
  PROVE  IsRuns(Left(from, to, H), (from .. to) \ H)
<1>1. H \in SUBSET Seqs
  BY SeqsAre
<1>2. Ascends(Sorted(H), H)
  BY <1>1, SortedIs
<1>3. IsRuns(getContinuousSequences(Sorted(H)), H)
  BY <1>1, <1>2, ContinuousAre
<1>. QED  BY <1>3, SubBlocksAre DEF Left

LEMMA SplitsHold ==
  ASSUME map.blocks \in SUBSET Blocks, Apart(map.blocks)
  PROVE  SequencesSplit
<1> DEFINE runs == getContinuousSequences(Sorted(InMap))
           Cover(bs) == UNION {b[1] .. b[2] : b \in Range(bs)}
<1>1. InMap \in SUBSET Seqs
  BY HeldIs DEF InMap
<1>2. Ascends(Sorted(InMap), InMap)
  BY <1>1, SortedIs
<1>3. IsRuns(runs, InMap)
  BY <1>1, <1>2, ContinuousAre
<1>4. Cover(runs) = InMap
  BY <1>3, CoverIs
<1>5. \A i \in 2 .. Len(runs) : runs[i][1] > runs[i - 1][2] + 1
  <2>. HIDE DEF runs
  <2>. SUFFICES ASSUME NEW i \in 2 .. Len(runs) PROVE runs[i][1] > runs[i - 1][2] + 1
    OBVIOUS
  <2>1. i \in 1 .. Len(runs) /\ i - 1 \in 1 .. Len(runs)
    <3>1. Len(runs) \in Nat
      BY <1>3, LenProperties DEF IsRuns
    <3>. QED  BY <3>1
  <2>2. runs[i - 1][2] + 1 < runs[i][1]
    BY <1>3 DEF IsRuns
  <2>3. runs[i - 1][2] \in Int /\ runs[i][1] \in Int
    BY <1>3, <2>1, PairIs DEF IsRuns
  <2>. QED  BY <2>2, <2>3
<1>6. ASSUME NEW from \in Seqs, NEW to \in Seqs, from <= to
      PROVE  LET inside == {s \in InMap : from <= s /\ s <= to}
                 left == splitSequence(Sorted(InMap), from, to - from + 1)
             IN /\ {s \in forward(from) : s <= to} = inside \ {from}
                /\ left = Left(from, to, inside)
                /\ Cover(left) = (from .. to) \ inside
  <2> DEFINE inside == {s \in InMap : from <= s /\ s <= to}
             left == splitSequence(Sorted(InMap), from, to - from + 1)
  <2>1. from \in Int /\ to \in Int /\ \A s \in InMap : s \in Int
    BY <1>1, SeqsAre
  <2>2. inside \in SUBSET (from .. to) /\ (from .. to) \ inside = (from .. to) \ InMap
    BY <2>1
  <2>3. {s \in forward(from) : s <= to} = inside \ {from}
    <3>1. forward(from) = {s \in InMap : from < s}
      BY <2>1, ForwardIs
    <3>. QED  BY <2>1, <3>1
  <2>. HIDE DEF inside, left
  <2>4. IsRuns(left, (from .. to) \ inside)
    <3>1. IsRuns(left, (from .. to) \ InMap)
      BY <1>1, <1>2, <1>6, SplitSequenceIs DEF left
    <3>. QED  BY <2>2, <3>1
  <2>5. IsRuns(Left(from, to, inside), (from .. to) \ inside)
    BY <1>6, <2>2, LeftIs
  <2>6. left = Left(from, to, inside)
    BY <2>4, <2>5, RunsAreUnique
  <2>7. Cover(left) = (from .. to) \ inside
    BY <2>4, CoverIs
  <2>. QED  BY <2>3, <2>6, <2>7 DEF inside, left
<1>. QED  BY <1>4, <1>5, <1>6 DEF SequencesSplit

-----------------------------------------------------------------------------
(* Joining and splitting blocks *)

LEMMA JoinedIs ==
  ASSUME NEW a \in Blocks, NEW b \in Blocks, a.from <= b.to
  PROVE  /\ Joined(a, b) \in Blocks /\ Joined(a, b).from = a.from /\ Joined(a, b).to = b.to
         /\ Joined(a, b).kind = a.kind /\ RangeOf(Joined(a, b)) = a.from .. b.to
<1>1. Joined(a, b) \in Blocks /\ Joined(a, b).from = a.from /\ Joined(a, b).to = b.to /\ Joined(a, b).kind = a.kind
  BY DEF Joined, Blocks
<1>. QED  BY <1>1 DEF RangeOf

LEMMA NextIs ==
  ASSUME NEW a \in Blocks, NEW b \in Blocks, isNextTo(b, a)
  PROVE  /\ Joined(a, b) \in Blocks /\ Joined(a, b).from = a.from /\ Joined(a, b).to = b.to
         /\ Joined(a, b).kind = a.kind /\ RangeOf(Joined(a, b)) = RangeOf(a) \cup RangeOf(b)
         /\ b.from = a.to + 1
<1>1. b.from = a.to + 1
  BY DEF isNextTo
<1>2. a.from \in Int /\ a.to \in Int /\ b.from \in Int /\ b.to \in Int /\ a.from <= a.to /\ b.from <= b.to
  BY BlockIs
<1>3. a.from <= b.to
  BY <1>1, <1>2
<1>4. a.from .. b.to = (a.from .. a.to) \cup (b.from .. b.to)
  BY <1>1, <1>2
<1>. QED  BY <1>1, <1>3, <1>4, JoinedIs DEF RangeOf

LEMMA HalvesAre ==
  ASSUME NEW b \in Blocks, NEW n \in 1 .. messageCnt(b)
  PROVE  /\ First(b, n) \in Blocks /\ messageCnt(First(b, n)) = n
         /\ RangeOf(First(b, n)) \subseteq RangeOf(b) /\ Cardinality(RangeOf(First(b, n))) = n
         /\ n = messageCnt(b) => RangeOf(First(b, n)) = RangeOf(b)
         /\ n # messageCnt(b) => /\ Others(b, n) \in Blocks
                                 /\ RangeOf(Others(b, n)) = RangeOf(b) \ RangeOf(First(b, n))
<1> DEFINE f == First(b, n)
           o == Others(b, n)
<1>1. /\ b.from \in Int /\ b.to \in Int /\ 1 <= b.from /\ b.to <= MaxSeq /\ MaxSeq \in Nat /\ b.kind \in Kinds
      /\ n \in Int /\ 1 <= n /\ n <= b.to - b.from + 1
  BY BlockIs, SeqsAre DEF messageCnt
<1>2. b = [from |-> b.from, to |-> b.to, kind |-> b.kind]
  BY DEF Blocks
<1>3. f = [from |-> b.from, to |-> b.from + n - 1, kind |-> b.kind]
  BY <1>2 DEF First
<1>4. o = [from |-> b.from + n, to |-> b.to, kind |-> b.kind]
  BY <1>2 DEF Others
<1>. HIDE DEF f, o
<1>5. f \in Blocks
  <2>1. b.from \in Seqs /\ b.from + n - 1 \in Seqs /\ b.from <= b.from + n - 1
    BY <1>1, SeqsAre
  <2>. QED  BY <1>1, <1>3, <2>1 DEF Blocks
<1>6. messageCnt(f) = n /\ RangeOf(f) = b.from .. b.from + n - 1 /\ RangeOf(f) \subseteq RangeOf(b)
  BY <1>1, <1>3 DEF messageCnt, RangeOf
<1>7. n = messageCnt(b) => RangeOf(f) = RangeOf(b)
  BY <1>1, <1>3 DEF messageCnt, RangeOf
<1>8. n # messageCnt(b) => o \in Blocks /\ RangeOf(o) = RangeOf(b) \ RangeOf(f)
  <2>. SUFFICES ASSUME n # messageCnt(b) PROVE o \in Blocks /\ RangeOf(o) = RangeOf(b) \ RangeOf(f)
    OBVIOUS
  <2>1. n < b.to - b.from + 1
    BY <1>1 DEF messageCnt
  <2>2. b.from + n \in Seqs /\ b.to \in Seqs /\ b.from + n <= b.to
    BY <1>1, <2>1, SeqsAre
  <2>3. o \in Blocks
    BY <1>1, <1>4, <2>2 DEF Blocks
  <2>4. RangeOf(o) = b.from + n .. b.to /\ RangeOf(b) = b.from .. b.to
    BY <1>4 DEF RangeOf
  <2>. QED  BY <1>1, <1>6, <2>1, <2>3, <2>4
<1>9. Cardinality(RangeOf(f)) = n
  BY <1>5, <1>6, BlockIs
<1>. QED  BY <1>5, <1>6, <1>7, <1>8, <1>9 DEF f, o

\* A block that holds the messages of others, and X, takes their place.
Replaces(bs, R, b, X, cs) ==
  /\ bs \in SUBSET Blocks /\ Apart(bs) /\ R \in SUBSET bs /\ b \in Blocks
  /\ X \cap Held(bs) = {} /\ RangeOf(b) = Held(R) \cup X
  /\ cs = (bs \ R) \cup {b}

LEMMA Replaced ==
  ASSUME NEW bs, NEW R, NEW b, NEW X, NEW cs, Replaces(bs, R, b, X, cs)
  PROVE  cs \in SUBSET Blocks /\ Apart(cs) /\ Held(cs) = Held(bs) \cup X
<1>0. /\ bs \in SUBSET Blocks /\ Apart(bs) /\ R \in SUBSET bs /\ b \in Blocks
      /\ X \cap Held(bs) = {} /\ RangeOf(b) = Held(R) \cup X
      /\ cs = (bs \ R) \cup {b}
  BY DEF Replaces
<1>1. cs \in SUBSET Blocks
  BY <1>0
<1>2. ASSUME NEW c \in bs \ R PROVE RangeOf(c) \cap RangeOf(b) = {}
  <2>1. RangeOf(c) \cap Held(R) = {}
    BY <1>0 DEF Apart, Held
  <2>2. RangeOf(c) \subseteq Held(bs)
    BY DEF Held
  <2>. QED  BY <1>0, <2>1, <2>2
<1>3. Apart(cs)
  BY <1>0, <1>2 DEF Apart
<1>4. Held(cs) = Held(bs) \cup X
  <2>1. Held(cs) = Held(bs \ R) \cup RangeOf(b)
    BY <1>0 DEF Held
  <2>2. Held(bs) = Held(bs \ R) \cup Held(R)
    BY <1>0 DEF Held
  <2>. QED  BY <1>0, <2>1, <2>2
<1>. QED  BY <1>1, <1>3, <1>4

LEMMA Removed ==
  ASSUME NEW bs \in SUBSET Blocks, Apart(bs), NEW R \in SUBSET bs
  PROVE  bs \ R \in SUBSET Blocks /\ Apart(bs \ R) /\ Held(bs \ R) = Held(bs) \ Held(R) /\ Held(R) \subseteq Held(bs)
<1>1. Apart(bs \ R)
  BY DEF Apart
<1>2. Held(R) \subseteq Held(bs)
  BY DEF Held
<1>3. \A s : s \in Held(bs \ R) <=> s \in Held(bs) /\ s \notin Held(R)
  <2>1. ASSUME NEW s, s \in Held(bs \ R), s \in Held(R) PROVE FALSE
    <3>1. PICK b \in bs \ R : s \in RangeOf(b)
      BY <2>1 DEF Held
    <3>2. PICK c \in R : s \in RangeOf(c)
      BY <2>1 DEF Held
    <3>. QED  BY <3>1, <3>2 DEF Apart
  <2>2. Held(bs) = Held(bs \ R) \cup Held(R)
    BY DEF Held
  <2>. QED  BY <2>1, <2>2
<1>. QED  BY <1>1, <1>2, <1>3

LEMMA HeldOne == ASSUME NEW b PROVE Held({b}) = RangeOf(b)
BY DEF Held

\* How many messages there are when some come or go.
LEMMA Count ==
  ASSUME NEW S \in SUBSET Seqs, NEW R \in SUBSET Seqs
  PROVE  /\ IsFiniteSet(S) /\ Cardinality(S) \in Nat /\ Cardinality(R) \in Nat
         /\ S \cap R = {} => Cardinality(S \cup R) = Cardinality(S) + Cardinality(R)
         /\ R \subseteq S => Cardinality(S \ R) = Cardinality(S) - Cardinality(R) /\ Cardinality(R) <= Cardinality(S)
<1>1. IsFiniteSet(Seqs)
  BY SeqsAre, FS_Interval DEF Seqs
<1>2. IsFiniteSet(S) /\ IsFiniteSet(R)
  BY <1>1, FS_Subset
<1>3. Cardinality(S) \in Nat /\ Cardinality(R) \in Nat
  BY <1>2, FS_CardinalityType
<1>4. S \cap R = {} => Cardinality(S \cup R) = Cardinality(S) + Cardinality(R)
  <2>. SUFFICES ASSUME S \cap R = {} PROVE Cardinality(S \cup R) = Cardinality(S) + Cardinality(R)
    OBVIOUS
  <2>1. Cardinality(S \cup R) = Cardinality(S) + Cardinality(R) - Cardinality(S \cap R)
    BY <1>2, FS_Union
  <2>2. Cardinality(S \cap R) = 0
    BY FS_EmptySet
  <2>. QED  BY <1>3, <2>1, <2>2
<1>5. R \subseteq S => Cardinality(S \ R) = Cardinality(S) - Cardinality(R) /\ Cardinality(R) <= Cardinality(S)
  <2>. SUFFICES ASSUME R \subseteq S
                PROVE Cardinality(S \ R) = Cardinality(S) - Cardinality(R) /\ Cardinality(R) <= Cardinality(S)
    OBVIOUS
  <2>1. Cardinality(S \ R) = Cardinality(S) - Cardinality(S \cap R)
    BY <1>2, FS_Difference
  <2>2. S \cap R = R
    OBVIOUS
  <2>3. Cardinality(R) <= Cardinality(S)
    BY <1>2, FS_Subset
  <2>. QED  BY <2>1, <2>2, <2>3
<1>. QED  BY <1>2, <1>3, <1>4, <1>5

-----------------------------------------------------------------------------
(* The map while messages are put in: S is what it holds and what was lost on the way *)

WorkRecords == [blocks : SUBSET Blocks, total : Nat, lost : SUBSET Seqs, erased : BOOLEAN]

Holds(w, S, exact) ==
  /\ w \in WorkRecords /\ Apart(w.blocks)
  /\ Held(w.blocks) \cap w.lost = {} /\ Held(w.blocks) \cup w.lost = S
  /\ Cardinality(Held(w.blocks)) <= w.total
  /\ exact /\ w.lost = {} => w.total = Cardinality(Held(w.blocks))

LEMMA CardIsNat == ASSUME NEW S \in SUBSET Seqs PROVE Cardinality(S) \in Nat
BY Count

\* The messages of a block come in.
LEMMA ComesIn ==
  ASSUME NEW w, NEW S, NEW e, Holds(w, S, e), NEW b \in Blocks, RangeOf(b) \cap S = {},
         NEW v, v \in WorkRecords, Apart(v.blocks), Held(v.blocks) = Held(w.blocks) \cup RangeOf(b),
         v.total = w.total + messageCnt(b), v.lost = w.lost
  PROVE  Holds(v, S \cup RangeOf(b), e)
<1> DEFINE H == Held(w.blocks)
           R == RangeOf(b)
<1>1. w \in WorkRecords /\ H \cap w.lost = {} /\ H \cup w.lost = S
  BY DEF Holds
<1>2. H \in SUBSET Seqs /\ R \in SUBSET Seqs /\ R \cap H = {} /\ R \cap w.lost = {} /\ w.total \in Nat
  BY <1>1, BlockIs, HeldIs DEF WorkRecords
<1>3. Cardinality(R) = messageCnt(b) /\ messageCnt(b) \in Nat
  BY BlockIs
<1>4. Cardinality(H) \in Nat /\ Cardinality(H \cup R) = Cardinality(H) + messageCnt(b)
  <2>. HIDE DEF H, R
  <2>1. H \cap R = {}
    BY <1>2
  <2>. QED  BY <1>2, <1>3, <2>1, Count
<1>5. Cardinality(H) <= w.total /\ (e /\ w.lost = {} => w.total = Cardinality(H))
  BY DEF Holds
<1>6. Cardinality(Held(v.blocks)) <= v.total /\ (e /\ v.lost = {} => v.total = Cardinality(Held(v.blocks)))
  <2>1. Cardinality(Held(v.blocks)) = Cardinality(H) + messageCnt(b)
    BY <1>4
  <2>. QED  BY <1>2, <1>3, <1>4, <1>5, <2>1
<1>7. Held(v.blocks) \cap v.lost = {} /\ Held(v.blocks) \cup v.lost = S \cup R
  BY <1>1, <1>2
<1>. QED  BY <1>6, <1>7 DEF Holds

\* The messages of a block are lost, counted or not.
LEMMA IsLost ==
  ASSUME NEW w, NEW S, NEW e, Holds(w, S, e), NEW b \in Blocks, RangeOf(b) \cap S = {},
         NEW v, v \in WorkRecords, v.blocks = w.blocks, v.total >= w.total, v.lost = w.lost \cup RangeOf(b)
  PROVE  Holds(v, S \cup RangeOf(b), e)
<1>1. w \in WorkRecords /\ v.lost # {} /\ Apart(v.blocks)
  BY BlockIs DEF Holds
<1>2. Cardinality(Held(v.blocks)) <= v.total
  <2>1. Cardinality(Held(w.blocks)) \in Nat /\ w.total \in Nat /\ v.total \in Nat
    BY <1>1, HeldIs DEF WorkRecords
  <2>2. Cardinality(Held(w.blocks)) <= w.total
    BY DEF Holds
  <2>. QED  BY <2>1, <2>2
<1>. QED  BY <1>1, <1>2 DEF Holds

\* insert: the new messages are in the map or lost, and the blocks behind them stay unless
\* one was erased.
LEMMA InsertHolds ==
  ASSUME NEW w, NEW S, NEW e, Holds(w, S, e), NEW b \in Blocks, RangeOf(b) \cap S = {}, NEW stray \in Blocks
  PROVE  /\ Holds(insert(w, b, stray), S \cup RangeOf(b), e)
         /\ w.erased => insert(w, b, stray).erased
         /\ \A y \in w.blocks : y.from > b.from => y \in insert(w, b, stray).blocks \/ insert(w, b, stray).erased
<1> DEFINE bs == w.blocks
           behind == {x \in bs : x.from >= b.from}
           before == bs \ behind
           it == IF behind = {} THEN stray ELSE Lowest(behind)
           toLeft == before # {} /\ isNextTo(it, b)
           left == Highest(before)
           grown == IF ~toLeft THEN b ELSE IF isNextTo(b, left) THEN Joined(left, b) ELSE left
           merges == behind # {} /\ isNextTo(it, grown)
           replaced == (IF toLeft THEN {left} ELSE {}) \cup (IF merges THEN {it} ELSE {})
           v == [blocks |-> (bs \ replaced) \cup {IF merges THEN Joined(grown, it) ELSE grown},
                 total  |-> w.total + messageCnt(b),
                 lost   |-> IF toLeft /\ ~isNextTo(b, left) THEN w.lost \cup RangeOf(b) ELSE w.lost,
                 erased |-> w.erased \/ merges]
           i == insert(w, b, stray)
<1>1. i = IF it.from = b.from THEN [w EXCEPT !.lost = @ \cup RangeOf(b)] ELSE v
  BY DEF insert
<1>2. /\ w \in WorkRecords /\ bs \in SUBSET Blocks /\ Apart(bs) /\ w.total \in Nat /\ w.lost \in SUBSET Seqs
      /\ w.erased \in BOOLEAN /\ Held(bs) \subseteq S
  BY DEF Holds, WorkRecords
<1>3. it \in Blocks /\ (behind # {} => it \in bs /\ it.from >= b.from)
  BY <1>2, LowestIs
<1>4. before # {} => left \in bs /\ left.from < b.from
  <2>. SUFFICES ASSUME before # {} PROVE left \in bs /\ left.from < b.from
    OBVIOUS
  <2>1. left \in before
    BY <1>2, HighestIs
  <2>2. left \in bs /\ ~(left.from >= b.from)
    BY <2>1
  <2>3. left.from \in Int /\ b.from \in Int
    BY <1>2, <2>2, BlockIs
  <2>. QED  BY <2>2, <2>3
<1>5. RangeOf(b) \cap Held(bs) = {} /\ RangeOf(b) \in SUBSET Seqs /\ messageCnt(b) \in Nat /\ b.from \in Int
  BY <1>2, BlockIs
<1>6. CASE it.from = b.from
  <2>1. /\ i \in WorkRecords /\ i.blocks = w.blocks /\ i.total = w.total /\ i.lost = w.lost \cup RangeOf(b)
        /\ i.erased = w.erased
    <3>. HIDE DEF it, v
    <3>. QED  BY <1>1, <1>2, <1>5, <1>6 DEF WorkRecords
  <2>. HIDE DEF i
  <2>2. i.total >= w.total
    BY <1>2, <2>1
  <2>3. Holds(i, S \cup RangeOf(b), e)
    BY <2>1, <2>2, IsLost
  <2>. QED  BY <2>1, <2>3 DEF i
<1>7. CASE it.from # b.from
  <2>1. i = v
    BY <1>1, <1>7
  <2>. HIDE DEF i, it, left
  <2>2. CASE toLeft /\ ~isNextTo(b, left)
    <3>1. grown = left /\ left \in bs
      BY <1>4, <2>2
    <3>2. ~merges
      <4>. SUFFICES ASSUME merges PROVE FALSE
        OBVIOUS
      <4>1. it.from = left.to + 1 /\ it.from = b.to + 1
        BY <2>2, <3>1 DEF isNextTo
      <4>2. left.to = b.to
        BY <1>2, <3>1, <4>1, BlockIs
      <4>3. b.to \in RangeOf(b) /\ b.to \in RangeOf(left)
        BY <1>2, <3>1, <4>2, BlockIs
      <4>4. b.to \in Held(bs)
        BY <3>1, <4>3 DEF Held
      <4>. QED  BY <1>5, <4>3, <4>4
    <3>3. v = [blocks |-> (bs \ {left}) \cup {left}, total |-> w.total + messageCnt(b),
               lost |-> w.lost \cup RangeOf(b), erased |-> w.erased]
      <4>1. replaced = {left}
        BY <2>2, <3>2
      <4>2. w.erased \/ merges = w.erased
        BY <1>2, <3>2
      <4>. HIDE DEF replaced, merges, grown
      <4>. QED  BY <1>2, <2>2, <3>1, <3>2, <4>1
    <3>. HIDE DEF v
    <3>4. (bs \ {left}) \cup {left} = bs
      BY <3>1
    <3>5. i = [blocks |-> bs, total |-> w.total + messageCnt(b), lost |-> w.lost \cup RangeOf(b), erased |-> w.erased]
      BY <2>1, <3>3, <3>4
    <3>6. i.blocks = w.blocks /\ i.total = w.total + messageCnt(b) /\ i.lost = w.lost \cup RangeOf(b)
          /\ i.erased = w.erased
      BY <3>5
    <3>7. i \in WorkRecords /\ i.total >= w.total
      BY <1>2, <1>5, <3>5 DEF WorkRecords
    <3>8. Holds(i, S \cup RangeOf(b), e)
      BY <3>6, <3>7, IsLost
    <3>. QED  BY <3>6, <3>8 DEF i
  <2>3. CASE ~(toLeft /\ ~isNextTo(b, left))
    <3> DEFINE L == IF toLeft THEN {left} ELSE {}
               I == IF merges THEN {it} ELSE {}
               new == IF merges THEN Joined(grown, it) ELSE grown
    <3>1. grown \in Blocks /\ L \subseteq bs /\ RangeOf(grown) = Held(L) \cup RangeOf(b)
      <4>1. CASE ~toLeft
        <5>1. grown = b /\ L = {} /\ Held({}) = {}
          BY <4>1 DEF Held
        <5>. HIDE DEF grown, L
        <5>. QED  BY <5>1
      <4>2. CASE toLeft
        <5>1. grown = Joined(left, b) /\ L = {left} /\ isNextTo(b, left) /\ left \in bs
          BY <1>4, <2>3, <4>2
        <5>. HIDE DEF grown, L
        <5>2. left \in Blocks
          BY <1>2, <5>1
        <5>3. grown \in Blocks /\ RangeOf(grown) = RangeOf(left) \cup RangeOf(b)
          BY <5>1, <5>2, NextIs
        <5>4. Held(L) = RangeOf(left)
          BY <5>1, HeldOne
        <5>. QED  BY <5>1, <5>3, <5>4
      <4>. QED  BY <4>1, <4>2
    <3>. HIDE DEF grown, L, toLeft
    <3>2. new \in Blocks /\ I \subseteq bs /\ RangeOf(new) = Held(I) \cup RangeOf(grown)
      <4>1. CASE ~merges
        <5>1. new = grown /\ I = {} /\ Held({}) = {}
          BY <4>1 DEF Held
        <5>. HIDE DEF new, I
        <5>. QED  BY <3>1, <5>1
      <4>2. CASE merges
        <5>1. new = Joined(grown, it) /\ I = {it} /\ isNextTo(it, grown) /\ it \in bs
          BY <1>3, <4>2
        <5>. HIDE DEF new, I
        <5>2. new \in Blocks /\ RangeOf(new) = RangeOf(grown) \cup RangeOf(it)
          BY <1>3, <3>1, <5>1, NextIs
        <5>3. Held(I) = RangeOf(it)
          BY <5>1, HeldOne
        <5>. QED  BY <5>1, <5>2, <5>3
      <4>. QED  BY <4>1, <4>2
    <3>3. replaced = L \cup I
      BY DEF L, toLeft
    <3>. HIDE DEF new, I
    <3>4. L \cup I \in SUBSET bs /\ RangeOf(new) = Held(L \cup I) \cup RangeOf(b)
      <4>1. Held(L \cup I) = Held(L) \cup Held(I)
        BY DEF Held
      <4>. QED  BY <3>1, <3>2, <4>1
    <3>5. i = [blocks |-> (bs \ (L \cup I)) \cup {new}, total |-> w.total + messageCnt(b), lost |-> w.lost,
               erased |-> w.erased \/ merges]
      <4>1. v.lost = w.lost
        BY <2>3 DEF toLeft
      <4>2. v.blocks = (bs \ (L \cup I)) \cup {new}
        BY <3>3 DEF new, grown, toLeft
      <4>3. v.total = w.total + messageCnt(b) /\ v.erased = (w.erased \/ merges)
        BY DEF grown, toLeft
      <4>4. v = [blocks |-> v.blocks, total |-> v.total, lost |-> v.lost, erased |-> v.erased]
        OBVIOUS
      <4>. HIDE DEF v, merges
      <4>. QED  BY <2>1, <4>1, <4>2, <4>3, <4>4
    <3> DEFINE cs == (bs \ (L \cup I)) \cup {new}
    <3>6. cs \in SUBSET Blocks /\ Apart(cs) /\ Held(cs) = Held(bs) \cup RangeOf(b)
      <4>. HIDE DEF cs, bs
      <4> DEFINE R == L \cup I
      <4>1. cs = (bs \ R) \cup {new}
        BY DEF cs
      <4>2. bs \in SUBSET Blocks /\ Apart(bs) /\ R \in SUBSET bs /\ new \in Blocks
        BY <1>2, <3>2, <3>4
      <4>3. RangeOf(b) \cap Held(bs) = {} /\ RangeOf(new) = Held(R) \cup RangeOf(b)
        BY <1>5, <3>4
      <4>. HIDE DEF R
      <4>4. Replaces(bs, R, new, RangeOf(b), cs)
        BY <4>1, <4>2, <4>3 DEF Replaces
      <4>. QED  BY <4>4, Replaced
    <3>7. i.blocks = cs /\ i.total = w.total + messageCnt(b) /\ i.lost = w.lost /\ i.erased = (w.erased \/ merges)
      <4>. HIDE DEF merges
      <4>. QED  BY <3>5
    <3>8. i \in WorkRecords
      <4>1. (w.erased \/ merges) \in BOOLEAN
        OBVIOUS
      <4>2. w.total + messageCnt(b) \in Nat
        BY <1>2, <1>5
      <4>. HIDE DEF merges, cs
      <4>. QED  BY <1>2, <3>5, <3>6, <4>1, <4>2 DEF WorkRecords, cs
    <3>9. Holds(i, S \cup RangeOf(b), e)
      <4>. HIDE DEF cs, bs
      <4>. QED  BY <3>6, <3>7, <3>8, ComesIn DEF bs
    <3>10. ASSUME NEW y \in w.blocks, y.from > b.from PROVE y \in i.blocks \/ i.erased
      <4>1. y \notin L
        <5>1. L # {} => L = {left} /\ left.from < b.from /\ left.from \in Int
          <6>1. toLeft => left \in bs /\ left.from < b.from
            BY <1>4 DEF toLeft
          <6>. QED  BY <1>2, <6>1, BlockIs DEF L
        <5>. QED  BY <1>5, <3>10, <5>1
      <4>2. CASE y \in I
        <5>1. merges
          BY <4>2 DEF I
        <5>. QED  BY <3>7, <5>1
      <4>3. CASE y \notin I
        BY <3>7, <4>1, <4>3
      <4>. QED  BY <4>2, <4>3
    <3>. HIDE DEF merges
    <3>. QED  BY <3>7, <3>9, <3>10 DEF i
  <2>. QED  BY <2>2, <2>3
<1>. QED  BY <1>6, <1>7

LEMMA PushBackMapHolds ==
  ASSUME NEW w, NEW S, NEW e, Holds(w, S, e), NEW b \in Blocks, RangeOf(b) \cap S = {}, NEW stray \in Blocks
  PROVE  Holds(pushBackMap(w, b, stray), S \cup RangeOf(b), e)
<1> DEFINE bs == w.blocks
           hi == Highest(bs)
           v == pushBackMap(w, b, stray)
<1>1. CASE ~(bs # {} /\ isNextTo(b, hi))
  <2>1. v = insert(w, b, stray)
    BY <1>1 DEF pushBackMap
  <2>. HIDE DEF v
  <2>. QED  BY <2>1, InsertHolds DEF v
<1>2. CASE bs # {} /\ isNextTo(b, hi)
  <2>1. /\ w \in WorkRecords /\ bs \in SUBSET Blocks /\ Apart(bs) /\ w.total \in Nat /\ w.lost \in SUBSET Seqs
        /\ Held(bs) \subseteq S /\ messageCnt(b) \in Nat
    BY BlockIs DEF Holds, WorkRecords
  <2>2. hi \in bs /\ hi \in Blocks
    BY <1>2, <2>1, HighestIs
  <2>3. Joined(hi, b) \in Blocks /\ RangeOf(Joined(hi, b)) = RangeOf(hi) \cup RangeOf(b)
    BY <1>2, <2>2, NextIs
  <2> DEFINE cs == (bs \ {hi}) \cup {Joined(hi, b)}
  <2>4. cs \in SUBSET Blocks /\ Apart(cs) /\ Held(cs) = Held(bs) \cup RangeOf(b)
    <3>1. Replaces(bs, {hi}, Joined(hi, b), RangeOf(b), cs)
      <4>1. RangeOf(b) \cap Held(bs) = {} /\ Held({hi}) = RangeOf(hi)
        BY <2>1, HeldOne
      <4>. HIDE DEF hi
      <4>. QED  BY <2>1, <2>2, <2>3, <4>1 DEF Replaces
    <3>. HIDE DEF cs
    <3>. QED  BY <3>1, Replaced
  <2>5. v = [w EXCEPT !.blocks = cs, !.total = w.total + messageCnt(b)]
    BY <1>2 DEF pushBackMap
  <2>. HIDE DEF v, cs
  <2>6. v.blocks = cs /\ v.total = w.total + messageCnt(b) /\ v.lost = w.lost /\ v \in WorkRecords
    <3>1. w.total + messageCnt(b) \in Nat
      BY <2>1
    <3>. QED  BY <2>1, <2>4, <2>5, <3>1 DEF WorkRecords
  <2>7. Holds(v, S \cup RangeOf(b), e)
    BY <2>4, <2>6, ComesIn
  <2>. QED  BY <2>7 DEF v
<1>. QED  BY <1>1, <1>2

\* Blocks go, and their messages are subtracted.
LEMMA GoesOut ==
  ASSUME NEW w, NEW S, NEW e, Holds(w, S, e), NEW R \in SUBSET w.blocks,
         NEW v, v \in WorkRecords, v.blocks = w.blocks \ R, v.lost = w.lost,
         v.total = w.total - Cardinality(Held(R)) \/ v.total = Subtract(w.total, Cardinality(Held(R)))
  PROVE  Holds(v, S \ Held(R), e)
<1> DEFINE H == Held(w.blocks)
           n == Cardinality(Held(R))
<1>1. w \in WorkRecords /\ H \cap w.lost = {} /\ H \cup w.lost = S /\ Apart(w.blocks) /\ w.blocks \in SUBSET Blocks
      /\ w.total \in Nat
  BY DEF Holds, WorkRecords
<1>2. Apart(v.blocks) /\ Held(v.blocks) = H \ Held(R) /\ Held(R) \subseteq H /\ H \in SUBSET Seqs
  <2>1. Apart(w.blocks \ R) /\ Held(w.blocks \ R) = Held(w.blocks) \ Held(R) /\ Held(R) \subseteq Held(w.blocks)
    BY <1>1, Removed
  <2>2. Held(w.blocks) \in SUBSET Seqs
    BY <1>1, HeldIs
  <2>. QED  BY <2>1, <2>2
<1>3. /\ Cardinality(H) \in Nat /\ n \in Nat /\ n <= Cardinality(H) /\ Cardinality(H \ Held(R)) = Cardinality(H) - n
  <2>1. Held(R) \in SUBSET Seqs
    BY <1>2
  <2>. HIDE DEF H
  <2>. QED  BY <1>2, <2>1, Count
<1>4. Cardinality(H) <= w.total /\ (e /\ w.lost = {} => w.total = Cardinality(H))
  BY DEF Holds
<1>5. v.total = w.total - n
  <2>. HIDE DEF n, H
  <2>1. v.total = w.total - n \/ v.total = Subtract(w.total, n)
    BY DEF n
  <2>. QED  BY <1>1, <1>3, <1>4, <2>1 DEF Subtract
<1>6. Cardinality(Held(v.blocks)) <= v.total /\ (e /\ v.lost = {} => v.total = Cardinality(Held(v.blocks)))
  <2>1. Cardinality(Held(v.blocks)) = Cardinality(H) - n
    BY <1>2, <1>3
  <2>. HIDE DEF n, H
  <2>. QED  BY <1>1, <1>3, <1>4, <1>5, <2>1
<1>7. Held(v.blocks) \cap v.lost = {} /\ Held(v.blocks) \cup v.lost = S \ Held(R)
  BY <1>1, <1>2
<1>. QED  BY <1>2, <1>6, <1>7 DEF Holds

-----------------------------------------------------------------------------
(* The deque: S is what it holds *)

DequeRecords == [blocks : Seq(Blocks), total : Nat]

HoldsD(d, S, exact) ==
  /\ d \in DequeRecords
  /\ \A i, j \in 1 .. Len(d.blocks) : i # j => RangeOf(d.blocks[i]) \cap RangeOf(d.blocks[j]) = {}
  /\ \A s : s \in S <=> \E i \in 1 .. Len(d.blocks) : s \in RangeOf(d.blocks[i])
  /\ Cardinality(S) <= d.total
  /\ exact => d.total = Cardinality(S)

LEMMA DequeIs ==
  ASSUME NEW d, NEW S, NEW e, HoldsD(d, S, e)
  PROVE  /\ d.blocks \in Seq(Blocks) /\ d.total \in Nat /\ Len(d.blocks) \in Nat
         /\ \A i \in 1 .. Len(d.blocks) : d.blocks[i] \in Blocks /\ RangeOf(d.blocks[i]) \subseteq S
         /\ S \in SUBSET Seqs /\ Cardinality(S) \in Nat /\ Held(Range(d.blocks)) = S
<1>1. d.blocks \in Seq(Blocks) /\ d.total \in Nat /\ Len(d.blocks) \in Nat
  BY LenProperties DEF HoldsD, DequeRecords
<1>2. \A i \in 1 .. Len(d.blocks) : d.blocks[i] \in Blocks /\ RangeOf(d.blocks[i]) \subseteq S
  BY <1>1, ElementOfSeq DEF HoldsD
<1>3. S \in SUBSET Seqs
  BY <1>2, BlockIs DEF HoldsD
<1>4. Held(Range(d.blocks)) = S
  <2>1. DOMAIN d.blocks = 1 .. Len(d.blocks)
    BY <1>1
  <2>2. \A s : s \in Held(Range(d.blocks)) <=> \E i \in 1 .. Len(d.blocks) : s \in RangeOf(d.blocks[i])
    BY <2>1 DEF Held, Range
  <2>. QED  BY <2>2 DEF HoldsD
<1>. QED  BY <1>1, <1>2, <1>3, <1>4, CardIsNat

LEMMA PushBackDequeHolds ==
  ASSUME NEW d, NEW S, NEW e, HoldsD(d, S, e), NEW b \in Blocks, RangeOf(b) \cap S = {}
  PROVE  HoldsD(pushBackDeque(d, b), S \cup RangeOf(b), e)
<1> DEFINE q == d.blocks
           n == Len(q)
           last == q[n]
           r == IF q # <<>> /\ isNextTo(b, last) THEN [q EXCEPT ![n] = Joined(last, b)] ELSE Append(q, b)
           v == pushBackDeque(d, b)
<1>1. v = [blocks |-> r, total |-> d.total + messageCnt(b)]
  BY DEF pushBackDeque
<1>2. /\ q \in Seq(Blocks) /\ d.total \in Nat /\ n \in Nat /\ \A i \in 1 .. n : q[i] \in Blocks /\ RangeOf(q[i]) \subseteq S
      /\ S \in SUBSET Seqs /\ messageCnt(b) \in Nat /\ RangeOf(b) \in SUBSET Seqs /\ Cardinality(RangeOf(b)) = messageCnt(b)
      /\ Cardinality(S) \in Nat
  BY DequeIs, BlockIs
<1>3. /\ \A i, j \in 1 .. n : i # j => RangeOf(q[i]) \cap RangeOf(q[j]) = {}
      /\ \A s : s \in S <=> \E i \in 1 .. n : s \in RangeOf(q[i])
      /\ Cardinality(S) <= d.total /\ (e => d.total = Cardinality(S))
  BY DEF HoldsD
<1>4. Cardinality(S \cup RangeOf(b)) = Cardinality(S) + messageCnt(b)
  <2>1. S \cap RangeOf(b) = {}
    OBVIOUS
  <2>. QED  BY <1>2, <2>1, Count
<1>5. /\ r \in Seq(Blocks)
      /\ \A i, j \in 1 .. Len(r) : i # j => RangeOf(r[i]) \cap RangeOf(r[j]) = {}
      /\ \A s : s \in S \cup RangeOf(b) <=> \E i \in 1 .. Len(r) : s \in RangeOf(r[i])
  <2>. HIDE DEF q
  <2>1. CASE q # <<>> /\ isNextTo(b, last)
    <3>1. n \in 1 .. n
      BY <1>2, <2>1, EmptySeq
    <3>2. Joined(last, b) \in Blocks /\ RangeOf(Joined(last, b)) = RangeOf(last) \cup RangeOf(b)
      BY <1>2, <2>1, <3>1, NextIs
    <3>3. r = [q EXCEPT ![n] = Joined(last, b)]
      BY <2>1
    <3>4. r \in Seq(Blocks) /\ Len(r) = n /\ r[n] = Joined(last, b) /\ \A i \in 1 .. n : i # n => r[i] = q[i]
      <4>. HIDE DEF r
      <4>. QED  BY <1>2, <3>1, <3>2, <3>3, ExceptSeq
    <3>. HIDE DEF r, last
    <3>5. \A i \in 1 .. n : RangeOf(r[i]) = IF i = n THEN RangeOf(q[i]) \cup RangeOf(b) ELSE RangeOf(q[i])
      BY <3>2, <3>4 DEF last
    <3>6. ASSUME NEW i \in 1 .. n, NEW j \in 1 .. n, i # j PROVE RangeOf(r[i]) \cap RangeOf(r[j]) = {}
      <4>1. RangeOf(q[i]) \cap RangeOf(q[j]) = {} /\ RangeOf(q[i]) \cap RangeOf(b) = {} /\ RangeOf(q[j]) \cap RangeOf(b) = {}
        BY <1>2, <1>3, <3>6
      <4>. QED  BY <3>5, <3>6, <4>1
    <3>7. \A s : s \in S \cup RangeOf(b) <=> \E i \in 1 .. n : s \in RangeOf(r[i])
      BY <1>3, <3>1, <3>5
    <3>. QED  BY <3>4, <3>6, <3>7
  <2>2. CASE ~(q # <<>> /\ isNextTo(b, last))
    <3>1. r = Append(q, b)
      BY <2>2
    <3>2. r \in Seq(Blocks) /\ Len(r) = n + 1 /\ r[n + 1] = b /\ \A i \in 1 .. n : r[i] = q[i]
      BY <1>2, <3>1, AppendProperties
    <3>. HIDE DEF r
    <3>3. \A i \in 1 .. n + 1 : i \in 1 .. n \/ i = n + 1
      BY <1>2
    <3>4. n + 1 \in 1 .. n + 1 /\ \A i \in 1 .. n : i \in 1 .. n + 1
      BY <1>2
    <3>5. ASSUME NEW i \in 1 .. n + 1, NEW j \in 1 .. n + 1, i # j PROVE RangeOf(r[i]) \cap RangeOf(r[j]) = {}
      <4>1. CASE i \in 1 .. n /\ j \in 1 .. n
        BY <1>3, <3>2, <3>5, <4>1
      <4>2. CASE i = n + 1 /\ j \in 1 .. n
        BY <1>2, <3>2, <4>2
      <4>3. CASE i \in 1 .. n /\ j = n + 1
        BY <1>2, <3>2, <4>3
      <4>. QED  BY <3>3, <3>5, <4>1, <4>2, <4>3
    <3>6. \A s : s \in S \cup RangeOf(b) <=> \E i \in 1 .. n + 1 : s \in RangeOf(r[i])
      BY <1>3, <3>2, <3>3, <3>4
    <3>. QED  BY <3>2, <3>5, <3>6
  <2>. QED  BY <2>1, <2>2
<1>6. d.total + messageCnt(b) \in Nat /\ Cardinality(S \cup RangeOf(b)) <= d.total + messageCnt(b)
      /\ (e => d.total + messageCnt(b) = Cardinality(S \cup RangeOf(b)))
  BY <1>2, <1>3, <1>4
<1>. HIDE DEF v, r
<1>7. v \in DequeRecords /\ v.blocks = r /\ v.total = d.total + messageCnt(b)
  BY <1>1, <1>5, <1>6 DEF DequeRecords
<1>8. HoldsD(v, S \cup RangeOf(b), e)
  BY <1>5, <1>6, <1>7 DEF HoldsD
<1>. QED  BY <1>8 DEF v

\* The first messages of the deque go.
LEMMA WithoutHolds ==
  ASSUME NEW d, NEW S, NEW e, HoldsD(d, S, e), d.blocks # <<>>, NEW n \in 1 .. messageCnt(Head(d.blocks))
  PROVE  /\ Head(d.blocks) \in Blocks /\ RangeOf(First(Head(d.blocks), n)) \subseteq S /\ n <= d.total
         /\ Without(d, n).total = d.total - n
         /\ HoldsD(Without(d, n), S \ RangeOf(First(Head(d.blocks), n)), e)
<1> DEFINE q == d.blocks
           N == Len(q)
           b == Head(q)
           f == First(b, n)
           r == IF n = messageCnt(b) THEN Tail(q) ELSE [q EXCEPT ![1] = Others(b, n)]
           v == Without(d, n)
           T == S \ RangeOf(f)
<1>1. v = [blocks |-> r, total |-> d.total - n]
  <2>1. b = q[1]
    BY DequeIs
  <2>. QED  BY <2>1 DEF Without
<1>2. /\ q \in Seq(Blocks) /\ d.total \in Nat /\ N \in Nat /\ S \in SUBSET Seqs
      /\ \A i \in 1 .. N : q[i] \in Blocks /\ RangeOf(q[i]) \subseteq S
  BY DequeIs
<1>3. /\ \A i, j \in 1 .. N : i # j => RangeOf(q[i]) \cap RangeOf(q[j]) = {}
      /\ \A s : s \in S <=> \E i \in 1 .. N : s \in RangeOf(q[i])
      /\ Cardinality(S) <= d.total /\ (e => d.total = Cardinality(S))
  BY DEF HoldsD
<1>4. 1 \in 1 .. N /\ b = q[1] /\ b \in Blocks /\ q # <<>>
  <2>1. N # 0
    BY <1>2, EmptySeq
  <2>2. 1 \in 1 .. N
    BY <1>2, <2>1
  <2>. QED  BY <1>2, <2>2
<1>. HIDE DEF q, b
<1>5. /\ f \in Blocks /\ RangeOf(f) \subseteq RangeOf(b) /\ Cardinality(RangeOf(f)) = n /\ n \in Nat /\ n >= 1
      /\ n = messageCnt(b) => RangeOf(f) = RangeOf(b)
      /\ n # messageCnt(b) => Others(b, n) \in Blocks /\ RangeOf(Others(b, n)) = RangeOf(b) \ RangeOf(f)
  <2>1. n \in 1 .. messageCnt(b) /\ messageCnt(b) \in Nat
    BY <1>4, BlockIs DEF b, q
  <2>. QED  BY <1>4, <2>1, HalvesAre
<1>. HIDE DEF f
<1>6. RangeOf(f) \subseteq S
  BY <1>2, <1>4, <1>5
<1>7. Cardinality(S) \in Nat /\ Cardinality(T) = Cardinality(S) - n /\ n <= Cardinality(S)
  <2>1. RangeOf(f) \in SUBSET Seqs
    BY <1>2, <1>6
  <2>. QED  BY <1>2, <1>5, <1>6, <2>1, Count
<1>8. /\ r \in Seq(Blocks)
      /\ \A i, j \in 1 .. Len(r) : i # j => RangeOf(r[i]) \cap RangeOf(r[j]) = {}
      /\ \A s : s \in T <=> \E i \in 1 .. Len(r) : s \in RangeOf(r[i])
  <2>1. CASE n = messageCnt(b)
    <3>1. r = Tail(q)
      BY <2>1
    <3>2. r \in Seq(Blocks) /\ Len(r) = N - 1 /\ \A i \in 1 .. N - 1 : r[i] = q[i + 1]
      <4>. HIDE DEF r
      <4>. QED  BY <1>2, <1>4, <3>1, HeadTailProperties
    <3>. HIDE DEF r, N
    <3>3. \A i \in 1 .. N - 1 : i + 1 \in 1 .. N /\ i + 1 # 1
      BY <1>2
    <3>4. ASSUME NEW i \in 1 .. N - 1, NEW j \in 1 .. N - 1, i # j PROVE RangeOf(r[i]) \cap RangeOf(r[j]) = {}
      <4>1. i + 1 # j + 1
        BY <3>4
      <4>. QED  BY <1>3, <3>2, <3>3, <4>1
    <3>5. ASSUME NEW s PROVE s \in T <=> \E i \in 1 .. N - 1 : s \in RangeOf(r[i])
      <4>1. ASSUME NEW i \in 1 .. N - 1, s \in RangeOf(r[i]) PROVE s \in T
        <5>1. s \in S /\ s \notin RangeOf(b)
          BY <1>3, <1>4, <3>2, <3>3, <4>1
        <5>. QED  BY <1>5, <5>1
      <4>2. ASSUME s \in T PROVE \E i \in 1 .. N - 1 : s \in RangeOf(r[i])
        <5>1. PICK i \in 1 .. N : s \in RangeOf(q[i])
          BY <1>3, <4>2
        <5>2. i # 1
          BY <1>4, <1>5, <2>1, <4>2, <5>1
        <5>3. i - 1 \in 1 .. N - 1 /\ (i - 1) + 1 = i
          BY <1>2, <5>2
        <5>. QED  BY <3>2, <5>1, <5>3
      <4>. QED  BY <4>1, <4>2
    <3>. QED  BY <3>2, <3>4, <3>5
  <2>2. CASE n # messageCnt(b)
    <3> DEFINE o == Others(b, n)
    <3>1. r = [q EXCEPT ![1] = o]
      BY <2>2
    <3>2. o \in Blocks /\ RangeOf(o) = RangeOf(b) \ RangeOf(f)
      BY <1>5, <2>2
    <3>. HIDE DEF o, r, N
    <3>3. r \in Seq(Blocks) /\ Len(r) = N /\ r[1] = o /\ \A i \in 1 .. N : i # 1 => r[i] = q[i]
      BY <1>2, <1>4, <3>1, <3>2, ExceptSeq DEF N
    <3>4. \A i \in 1 .. N : RangeOf(r[i]) = IF i = 1 THEN RangeOf(q[i]) \ RangeOf(f) ELSE RangeOf(q[i])
      BY <1>4, <3>2, <3>3
    <3>5. ASSUME NEW i \in 1 .. N, NEW j \in 1 .. N, i # j PROVE RangeOf(r[i]) \cap RangeOf(r[j]) = {}
      <4>1. RangeOf(r[i]) \subseteq RangeOf(q[i]) /\ RangeOf(r[j]) \subseteq RangeOf(q[j])
        BY <3>4
      <4>2. RangeOf(q[i]) \cap RangeOf(q[j]) = {}
        BY <1>3, <3>5
      <4>. QED  BY <4>1, <4>2
    <3>6. ASSUME NEW s PROVE s \in T <=> \E i \in 1 .. N : s \in RangeOf(r[i])
      <4>1. ASSUME NEW i \in 1 .. N, s \in RangeOf(r[i]) PROVE s \in T
        <5>1. CASE i = 1
          BY <1>3, <3>4, <4>1, <5>1
        <5>2. CASE i # 1
          <6>1. s \in S /\ s \notin RangeOf(b)
            BY <1>3, <1>4, <3>4, <4>1, <5>2
          <6>. QED  BY <1>5, <6>1
        <5>. QED  BY <5>1, <5>2
      <4>2. ASSUME s \in T PROVE \E i \in 1 .. N : s \in RangeOf(r[i])
        <5>1. PICK i \in 1 .. N : s \in RangeOf(q[i])
          BY <1>3, <4>2
        <5>. QED  BY <3>4, <4>2, <5>1
      <4>. QED  BY <4>1, <4>2
    <3>. QED  BY <3>3, <3>5, <3>6
  <2>. QED  BY <2>1, <2>2
<1>9. d.total - n \in Nat /\ n <= d.total /\ Cardinality(T) <= d.total - n /\ (e => d.total - n = Cardinality(T))
  <2>. HIDE DEF T
  <2>. QED  BY <1>2, <1>3, <1>5, <1>7
<1>. HIDE DEF v, r, T
<1>10. v \in DequeRecords /\ v.blocks = r /\ v.total = d.total - n
  BY <1>1, <1>8, <1>9 DEF DequeRecords
<1>11. HoldsD(v, T, e)
  BY <1>8, <1>9, <1>10 DEF HoldsD
<1>. QED  BY <1>4, <1>6, <1>9, <1>10, <1>11 DEF v, T, f, b, q

\* The first n blocks of the deque.
LEMMA FrontIs ==
  ASSUME NEW d, NEW S, NEW e, HoldsD(d, S, e), NEW n \in Nat, 1 <= n, n <= Len(d.blocks),
         NEW R, R = Held(Range(SubSeq(d.blocks, 1, n)))
  PROVE  R \subseteq S /\ R # {} /\ \A s : s \in R <=> \E i \in 1 .. n : s \in RangeOf(d.blocks[i])
<1> DEFINE q == d.blocks
           N == Len(q)
           f == SubSeq(q, 1, n)
<1>1. /\ q \in Seq(Blocks) /\ d.total \in Nat /\ N \in Nat /\ S \in SUBSET Seqs /\ Cardinality(S) \in Nat
      /\ \A i \in 1 .. N : q[i] \in Blocks /\ RangeOf(q[i]) \subseteq S
  BY DequeIs
<1>2. /\ \A i, j \in 1 .. N : i # j => RangeOf(q[i]) \cap RangeOf(q[j]) = {}
      /\ \A s : s \in S <=> \E i \in 1 .. N : s \in RangeOf(q[i])
      /\ Cardinality(S) <= d.total /\ d \in DequeRecords
  BY DEF HoldsD
<1>. HIDE DEF q
<1>3. f \in Seq(Blocks) /\ Len(f) = n /\ \A i \in 1 .. n : f[i] = q[i] /\ i \in 1 .. N
  <2>1. \A i \in 1 .. n : i \in 1 .. N
    BY <1>1 DEF q
  <2>2. 1 \in 1 .. Len(q) + 1 /\ n \in 1 - 1 .. Len(q)
    BY <1>1 DEF q
  <2>3. f \in Seq(Blocks) /\ Len(f) = n - 1 + 1 /\ \A i \in 1 .. n - 1 + 1 : f[i] = q[1 + i - 1]
    <3>. HIDE DEF f
    <3>1. f = SubSeq(q, 1, n) /\ n >= 1
      BY DEF f
    <3>. QED  BY <1>1, <2>2, <3>1, SubSeqProperties
  <2>. HIDE DEF f, N
  <2>4. n - 1 + 1 = n /\ \A i \in 1 .. n : 1 + i - 1 = i
    OBVIOUS
  <2>. QED  BY <2>1, <2>3, <2>4
<1>. HIDE DEF f
<1>5. \A s : s \in R <=> \E i \in 1 .. n : s \in RangeOf(q[i])
  <2>1. R = Held(Range(f)) /\ DOMAIN f = 1 .. n
    BY <1>3 DEF f, q
  <2>. QED  BY <1>3, <2>1 DEF Held, Range
<1>6. R \subseteq S /\ R # {}
  <2>1. 1 \in 1 .. n /\ 1 \in 1 .. N
    BY <1>3
  <2>2. q[1].from \in RangeOf(q[1])
    BY <1>1, <2>1, BlockIs
  <2>. QED  BY <1>2, <1>3, <1>5, <2>1, <2>2
<1>. QED  BY <1>5, <1>6 DEF q

\* Whole blocks go from the front of the deque, and stay counted.
LEMMA ExpiredHolds ==
  ASSUME NEW d, NEW S, NEW e, HoldsD(d, S, e), NEW n \in Nat, 1 <= n, n <= Len(d.blocks),
         NEW R, R = Held(Range(SubSeq(d.blocks, 1, n)))
  PROVE  HoldsD([d EXCEPT !.blocks = SubSeq(@, n + 1, Len(@))], S \ R, FALSE)
<1> DEFINE q == d.blocks
           N == Len(q)
           r == SubSeq(q, n + 1, N)
           v == [d EXCEPT !.blocks = SubSeq(@, n + 1, Len(@))]
<1>1. /\ q \in Seq(Blocks) /\ d.total \in Nat /\ N \in Nat /\ S \in SUBSET Seqs /\ Cardinality(S) \in Nat
      /\ \A i \in 1 .. N : q[i] \in Blocks /\ RangeOf(q[i]) \subseteq S
  BY DequeIs
<1>2. /\ \A i, j \in 1 .. N : i # j => RangeOf(q[i]) \cap RangeOf(q[j]) = {}
      /\ \A s : s \in S <=> \E i \in 1 .. N : s \in RangeOf(q[i])
      /\ Cardinality(S) <= d.total /\ d \in DequeRecords
  BY DEF HoldsD
<1>. HIDE DEF q
<1>4. r \in Seq(Blocks) /\ Len(r) = N - n /\ \A i \in 1 .. N - n : r[i] = q[n + i] /\ n + i \in 1 .. N
  <2>1. \A i \in 1 .. N - n : n + i \in 1 .. N /\ (n + 1) + i - 1 = n + i
    BY <1>1
  <2>2. n + 1 \in 1 .. Len(q) + 1 /\ N \in (n + 1) - 1 .. Len(q) /\ N - n = (IF n + 1 <= N THEN N - (n + 1) + 1 ELSE 0)
    BY <1>1 DEF q
  <2>3. r \in Seq(Blocks) /\ Len(r) = (IF n + 1 <= N THEN N - (n + 1) + 1 ELSE 0)
        /\ \A i \in 1 .. N - (n + 1) + 1 : r[i] = q[(n + 1) + i - 1]
    <3>. HIDE DEF r, N
    <3>1. r = SubSeq(q, n + 1, N)
      BY DEF r
    <3>. QED  BY <1>1, <2>2, <3>1, SubSeqProperties
  <2>4. N - (n + 1) + 1 = N - n
    BY <1>1
  <2>. HIDE DEF r, N
  <2>. QED  BY <2>1, <2>2, <2>3, <2>4
<1>. HIDE DEF r
<1>5. \A s : s \in R <=> \E i \in 1 .. n : s \in RangeOf(q[i])
  BY FrontIs DEF q
<1>6. R \subseteq S
  BY FrontIs
<1>7. \A s : s \in S \ R <=> \E i \in 1 .. N - n : s \in RangeOf(r[i])
  <2>1. ASSUME NEW s, NEW i \in 1 .. N - n, s \in RangeOf(r[i]) PROVE s \in S \ R
    <3>1. s \in RangeOf(q[n + i]) /\ n + i \in 1 .. N
      BY <1>4, <2>1
    <3>2. \A j \in 1 .. n : j # n + i /\ j \in 1 .. N
      BY <1>1 DEF q
    <3>. QED  BY <1>2, <1>5, <3>1, <3>2
  <2>2. ASSUME NEW s \in S \ R PROVE \E i \in 1 .. N - n : s \in RangeOf(r[i])
    <3>1. PICK i \in 1 .. N : s \in RangeOf(q[i])
      BY <1>2
    <3>2. i \notin 1 .. n
      BY <1>5, <3>1
    <3>3. i - n \in 1 .. N - n /\ n + (i - n) = i
      BY <1>1, <3>2
    <3>. QED  BY <1>4, <3>1, <3>3
  <2>. QED  BY <2>1, <2>2
<1>8. \A i, j \in 1 .. N - n : i # j => RangeOf(r[i]) \cap RangeOf(r[j]) = {}
  <2>. SUFFICES ASSUME NEW i \in 1 .. N - n, NEW j \in 1 .. N - n, i # j PROVE RangeOf(r[i]) \cap RangeOf(r[j]) = {}
    OBVIOUS
  <2>1. n + i # n + j
    OBVIOUS
  <2>. QED  BY <1>2, <1>4, <2>1
<1>9. Cardinality(S \ R) <= d.total
  <2>1. R \in SUBSET Seqs
    BY <1>1, <1>6
  <2>2. Cardinality(S \ R) = Cardinality(S) - Cardinality(R) /\ Cardinality(R) \in Nat
    BY <1>1, <1>6, <2>1, Count
  <2>. QED  BY <1>1, <1>2, <2>2
<1>10. v \in DequeRecords /\ v.blocks = r /\ v.total = d.total
  <2>1. v = [d EXCEPT !.blocks = r]
    BY DEF r, q
  <2>. HIDE DEF v
  <2>. QED  BY <1>1, <1>2, <1>4, <2>1 DEF DequeRecords
<1>. HIDE DEF v
<1>11. HoldsD(v, S \ R, FALSE)
  BY <1>4, <1>7, <1>8, <1>9, <1>10 DEF HoldsD
<1>. QED  BY <1>11 DEF v

-----------------------------------------------------------------------------
(* The pieces of a block are inserted one after the other *)

Pieces(p, D) ==
  /\ p \in Seq(Int \X Int) /\ D \subseteq Int
  /\ \A i \in 1 .. Len(p) : p[i][1] <= p[i][2]
  /\ \A i, j \in 1 .. Len(p) : i < j => p[i][2] < p[j][1]
  /\ Covers(p, D)

Part(p, k) == UNION {p[i][1] .. p[i][2] : i \in 1 .. k}

LEMMA RunsArePieces ==
  ASSUME NEW p, NEW D, IsRuns(p, D)
  PROVE  Pieces(p, D)
<1>1. p \in Seq(Int \X Int) /\ \A i \in 1 .. Len(p) : p[i][1] \in Int /\ p[i][2] \in Int
  BY PairIs DEF IsRuns
<1>2. \A i, j \in 1 .. Len(p) : i < j => p[i][2] < p[j][1]
  <2>. SUFFICES ASSUME NEW i \in 1 .. Len(p), NEW j \in 1 .. Len(p), i < j PROVE p[i][2] < p[j][1]
    OBVIOUS
  <2>1. p[i][2] + 1 < p[j][1]
    BY RunsRise, AllRise
  <2>. QED  BY <1>1, <2>1
<1>. QED  BY <1>1, <1>2 DEF IsRuns, Pieces

LEMMA NoPieces == Pieces(<<>>, {})
BY NoRuns, RunsArePieces

LEMMA OnePiece ==
  ASSUME NEW a \in Int, NEW b \in Int, a <= b
  PROVE  Pieces(<<<<a, b>>>>, a .. b)
<1>1. <<<<a, b>>>> \in Seq(Int \X Int) /\ Len(<<<<a, b>>>>) = 1 /\ <<<<a, b>>>>[1] = <<a, b>> /\ \A i \in 1 .. 1 : i = 1
  OBVIOUS
<1>. QED  BY <1>1 DEF Pieces, Covers

LEMMA PiecesJoined ==
  ASSUME NEW p, NEW D, Pieces(p, D), NEW q, NEW E, Pieces(q, E), \A d \in D, g \in E : d < g
  PROVE  Pieces(p \o q, D \cup E)
<1> DEFINE r == p \o q
           m == Len(p)
           n == Len(q)
<1>1. /\ p \in Seq(Int \X Int) /\ q \in Seq(Int \X Int) /\ m \in Nat /\ n \in Nat /\ D \subseteq Int /\ E \subseteq Int
      /\ \A i \in 1 .. m : p[i][1] \in Int /\ p[i][2] \in Int /\ p[i][1] <= p[i][2]
      /\ \A i \in 1 .. n : q[i][1] \in Int /\ q[i][2] \in Int /\ q[i][1] <= q[i][2]
  BY LenProperties, PairIs DEF Pieces
<1>2. /\ r \in Seq(Int \X Int) /\ Len(r) = m + n
      /\ \A i \in 1 .. m : r[i] = p[i]
      /\ \A i \in 1 .. n : r[m + i] = q[i]
  <2>1. /\ r \in Seq(Int \X Int) /\ Len(r) = m + n
        /\ \A i \in 1 .. m + n : r[i] = IF i <= m THEN p[i] ELSE q[i - m]
    BY <1>1, ConcatProperties
  <2>. HIDE DEF r, m, n
  <2>2. \A i \in 1 .. m : i \in 1 .. m + n /\ i <= m
    BY <1>1
  <2>3. \A i \in 1 .. n : m + i \in 1 .. m + n /\ ~(m + i <= m) /\ (m + i) - m = i
    BY <1>1
  <2>. QED  BY <2>1, <2>2, <2>3
<1>. HIDE DEF r, m, n
<1>3. ASSUME NEW i \in 1 .. m + n PROVE i \in 1 .. m \/ \E j \in 1 .. n : i = m + j
  <2>1. CASE i <= m
    BY <1>1, <2>1
  <2>2. CASE ~(i <= m)
    <3>1. i - m \in 1 .. n /\ i = m + (i - m)
      BY <1>1, <2>2
    <3>. QED  BY <3>1
  <2>. QED  BY <2>1, <2>2
<1>4. /\ \A i \in 1 .. m : p[i][1] .. p[i][2] \subseteq D /\ p[i][1] \in D /\ p[i][2] \in D
      /\ \A i \in 1 .. n : q[i][1] .. q[i][2] \subseteq E /\ q[i][1] \in E /\ q[i][2] \in E
  <2>1. ASSUME NEW i \in 1 .. m PROVE p[i][1] .. p[i][2] \subseteq D /\ p[i][1] \in D /\ p[i][2] \in D
    <3>1. p[i][1] .. p[i][2] \subseteq D
      BY <1>1 DEF Pieces, Covers, m
    <3>2. p[i][1] \in p[i][1] .. p[i][2] /\ p[i][2] \in p[i][1] .. p[i][2]
      BY <1>1
    <3>. QED  BY <3>1, <3>2
  <2>2. ASSUME NEW i \in 1 .. n PROVE q[i][1] .. q[i][2] \subseteq E /\ q[i][1] \in E /\ q[i][2] \in E
    <3>1. q[i][1] .. q[i][2] \subseteq E
      BY <1>1 DEF Pieces, Covers, n
    <3>2. q[i][1] \in q[i][1] .. q[i][2] /\ q[i][2] \in q[i][1] .. q[i][2]
      BY <1>1
    <3>. QED  BY <3>1, <3>2
  <2>. QED  BY <2>1, <2>2
<1>5. \A i \in 1 .. m + n : r[i][1] <= r[i][2]
  BY <1>1, <1>2, <1>3
<1>6. ASSUME NEW i \in 1 .. m + n, NEW j \in 1 .. m + n, i < j PROVE r[i][2] < r[j][1]
  <2>1. CASE i \in 1 .. m /\ j \in 1 .. m
    BY <1>2, <1>6, <2>1 DEF Pieces, m
  <2>2. CASE i \in 1 .. m /\ j \notin 1 .. m
    BY <1>2, <1>3, <1>4, <2>2
  <2>3. CASE i \notin 1 .. m /\ j \in 1 .. m
    BY <1>1, <1>6, <2>3
  <2>4. CASE i \notin 1 .. m /\ j \notin 1 .. m
    <3>1. PICK k \in 1 .. n : i = m + k
      BY <1>3, <2>4
    <3>2. PICK l \in 1 .. n : j = m + l
      BY <1>3, <2>4
    <3>3. k < l
      BY <1>1, <1>6, <3>1, <3>2
    <3>4. q[k][2] < q[l][1]
      BY <3>3 DEF Pieces, n
    <3>. QED  BY <1>2, <3>1, <3>2, <3>4
  <2>. QED  BY <2>1, <2>2, <2>3, <2>4
<1>7. Covers(r, D \cup E)
  <2>. SUFFICES ASSUME NEW d \in Int
                PROVE  d \in D \cup E <=> \E i \in 1 .. m + n : d \in r[i][1] .. r[i][2]
    BY <1>2 DEF Covers
  <2>1. \A i \in 1 .. m : i \in 1 .. m + n
    BY <1>1
  <2>2. \A i \in 1 .. n : m + i \in 1 .. m + n
    BY <1>1
  <2>3. CASE d \in D
    <3>1. PICK i \in 1 .. m : d \in p[i][1] .. p[i][2]
      BY <2>3 DEF Pieces, Covers, m
    <3>. QED  BY <1>2, <2>1, <2>3, <3>1
  <2>4. CASE d \in E
    <3>1. PICK i \in 1 .. n : d \in q[i][1] .. q[i][2]
      BY <2>4 DEF Pieces, Covers, n
    <3>2. m + i \in 1 .. m + n /\ r[m + i] = q[i]
      BY <1>2, <2>2
    <3>. QED  BY <2>4, <3>1, <3>2
  <2>5. CASE d \notin D \cup E
    <3>1. ASSUME NEW i \in 1 .. m + n, d \in r[i][1] .. r[i][2] PROVE FALSE
      <4>1. CASE i \in 1 .. m
        BY <1>2, <1>4, <2>5, <3>1, <4>1
      <4>2. CASE i \notin 1 .. m
        <5>1. PICK j \in 1 .. n : i = m + j
          BY <1>3, <4>2
        <5>. QED  BY <1>2, <1>4, <2>5, <3>1, <5>1
      <4>. QED  BY <4>1, <4>2
    <3>. QED  BY <2>5, <3>1
  <2>. QED  BY <2>3, <2>4, <2>5
<1>. QED  BY <1>1, <1>2, <1>5, <1>6, <1>7 DEF Pieces, r

LEMMA PartsAre ==
  ASSUME NEW p, NEW D, Pieces(p, D)
  PROVE  /\ Len(p) \in Nat /\ Part(p, 0) = {} /\ Part(p, Len(p)) = D
         /\ \A k \in 1 .. Len(p) : /\ p[k][1] \in D /\ p[k][2] \in D /\ p[k][1] \in Int /\ p[k][2] \in Int
                                   /\ p[k][1] <= p[k][2] /\ p[k][1] .. p[k][2] \subseteq D
                                   /\ Part(p, k) = Part(p, k - 1) \cup (p[k][1] .. p[k][2])
                                   /\ Part(p, k - 1) \cap (p[k][1] .. p[k][2]) = {}
<1>1. /\ p \in Seq(Int \X Int) /\ Len(p) \in Nat /\ D \subseteq Int
      /\ \A i \in 1 .. Len(p) : p[i][1] \in Int /\ p[i][2] \in Int /\ p[i][1] <= p[i][2]
  BY LenProperties, PairIs DEF Pieces
<1>2. Part(p, 0) = {}
  BY DEF Part
<1>3. \A i \in 1 .. Len(p) : p[i][1] .. p[i][2] \subseteq D
  BY <1>1 DEF Pieces, Covers
<1>4. Part(p, Len(p)) = D
  <2>1. \A d \in D : \E i \in 1 .. Len(p) : d \in p[i][1] .. p[i][2]
    BY <1>1 DEF Pieces, Covers
  <2>. QED  BY <1>3, <2>1 DEF Part
<1>5. ASSUME NEW k \in 1 .. Len(p)
      PROVE  /\ p[k][1] \in D /\ p[k][2] \in D
             /\ Part(p, k) = Part(p, k - 1) \cup (p[k][1] .. p[k][2])
             /\ Part(p, k - 1) \cap (p[k][1] .. p[k][2]) = {}
  <2>1. p[k][1] \in p[k][1] .. p[k][2] /\ p[k][2] \in p[k][1] .. p[k][2]
    BY <1>1
  <2>2. \A i : i \in 1 .. k <=> i \in 1 .. k - 1 \/ i = k
    BY <1>1
  <2>3. Part(p, k) = Part(p, k - 1) \cup (p[k][1] .. p[k][2])
    BY <2>2 DEF Part
  <2>4. ASSUME NEW d \in Part(p, k - 1), d \in p[k][1] .. p[k][2] PROVE FALSE
    <3>1. PICK i \in 1 .. k - 1 : d \in p[i][1] .. p[i][2]
      BY DEF Part
    <3>2. i \in 1 .. Len(p) /\ i < k
      BY <1>1
    <3>3. p[i][2] < p[k][1]
      BY <3>2 DEF Pieces
    <3>4. p[i][2] \in Int /\ p[k][1] \in Int /\ d \in Int /\ d <= p[i][2] /\ p[k][1] <= d
      <4>1. p[i][1] \in Int /\ p[i][2] \in Int /\ p[k][1] \in Int /\ p[k][2] \in Int
        BY <1>1, <3>2
      <4>. QED  BY <2>4, <3>1, <4>1
    <3>. QED  BY <3>3, <3>4
  <2>. QED  BY <1>3, <2>1, <2>3, <2>4
<1>. QED  BY <1>1, <1>2, <1>3, <1>4, <1>5

LEMMA InsertAllHolds ==
  ASSUME NEW w, NEW S, NEW e, Holds(w, S, e), NEW x \in Blocks, NEW p, NEW D, Pieces(p, D),
         D \subseteq RangeOf(x), D \cap S = {}, NEW stray \in Blocks
  PROVE  /\ Holds(InsertAll(w, x, p, stray), S \cup D, e)
         /\ \A y \in w.blocks : y.from > x.to => \/ y \in InsertAll(w, x, p, stray).blocks
                                                 \/ InsertAll(w, x, p, stray).erased
<1> DEFINE N == Len(p)
           first == w
           Piece(k) == [x EXCEPT !.from = p[k][1], !.to = p[k][2]]
           Step(k, v) == insert(v, [x EXCEPT !.from = p[k][1], !.to = p[k][2]], stray)
           Is(g) == g = [k \in 0 .. N |-> IF k = 0 THEN first ELSE Step(k, g[k - 1])]
           st == CHOOSE g : Is(g)
           W == [k \in 0 .. N |-> {v \in WorkRecords :
                                     /\ Holds(v, S \cup Part(p, k), e)
                                     /\ \A y \in w.blocks : y.from > x.to => y \in v.blocks \/ v.erased}]
           F == [k \in 1 .. N |-> [v \in W[k - 1] |-> Step(k, v)]]
<1>a. /\ N \in Nat /\ Part(p, 0) = {} /\ Part(p, N) = D
      /\ \A k \in 1 .. N : /\ p[k][1] \in D /\ p[k][2] \in D /\ p[k][1] \in Int /\ p[k][2] \in Int
                           /\ p[k][1] <= p[k][2] /\ p[k][1] .. p[k][2] \subseteq D
                           /\ Part(p, k) = Part(p, k - 1) \cup (p[k][1] .. p[k][2])
                           /\ Part(p, k - 1) \cap (p[k][1] .. p[k][2]) = {}
  BY PartsAre
<1>1. N \in Nat
  BY <1>a
<1>2. first \in W[0]
  <2>1. 0 \in 0 .. N /\ S \cup Part(p, 0) = S
    BY <1>1, <1>a
  <2>2. w \in WorkRecords
    BY DEF Holds
  <2>. QED  BY <2>1, <2>2
<1>3. ASSUME NEW k \in 1 .. N, NEW v \in W[k - 1] PROVE Step(k, v) \in W[k]
  <2> DEFINE b == Piece(k)
             u == insert(v, b, stray)
             T == S \cup Part(p, k - 1)
  <2>1. k - 1 \in 0 .. N /\ k \in 0 .. N
    BY <1>1
  <2>2. v \in WorkRecords /\ Holds(v, T, e) /\ \A y \in w.blocks : y.from > x.to => y \in v.blocks \/ v.erased
    BY <2>1
  <2>3. b \in Blocks /\ b.from = p[k][1] /\ RangeOf(b) = p[k][1] .. p[k][2]
    <3>1. p[k][1] \in Seqs /\ p[k][2] \in Seqs /\ p[k][1] <= p[k][2]
      BY <1>a, BlockIs
    <3>2. x = [from |-> x.from, to |-> x.to, kind |-> x.kind] /\ x.kind \in Kinds
      BY DEF Blocks
    <3>3. b = [from |-> p[k][1], to |-> p[k][2], kind |-> x.kind]
      BY <3>2
    <3>. HIDE DEF b
    <3>. QED  BY <3>1, <3>2, <3>3 DEF Blocks, RangeOf
  <2>4. T \cap RangeOf(b) = {} /\ S \cup Part(p, k) = T \cup RangeOf(b)
    BY <1>a, <2>3
  <2>5. \A y \in w.blocks : y.from > x.to => y.from > b.from
    <3>1. x.to \in Int /\ b.from \in Int /\ b.from <= x.to
      <4>1. p[k][1] \in RangeOf(x)
        BY <1>a
      <4>. QED  BY <2>3, <4>1, BlockIs DEF RangeOf
    <3>2. \A y \in w.blocks : y.from \in Int
      BY BlockIs DEF Holds, WorkRecords
    <3>. QED  BY <3>1, <3>2
  <2>. HIDE DEF T, b, W
  <2>6. /\ Holds(u, T \cup RangeOf(b), e) /\ (v.erased => u.erased)
        /\ \A y \in v.blocks : y.from > b.from => y \in u.blocks \/ u.erased
    BY <2>2, <2>3, <2>4, InsertHolds
  <2>7. Step(k, v) = u
    BY DEF b
  <2>. HIDE DEF u, Step
  <2>8. u \in WorkRecords
    BY <2>6 DEF Holds
  <2>9. \A y \in w.blocks : y.from > x.to => y \in u.blocks \/ u.erased
    BY <2>2, <2>5, <2>6
  <2>. QED  BY <2>1, <2>4, <2>6, <2>7, <2>8, <2>9 DEF W
<1>4. \A k \in 1 .. N : \A a \in W[k - 1] : F[k][a] = Step(k, a) /\ F[k][a] \in W[k]
  <2>. HIDE DEF N, W, Step
  <2>. QED  BY <1>3
<1>. HIDE DEF N, first, Step, W, F
<1>5. \E g : Is(g)
  <2>1. PICK g : /\ g = [k \in 0 .. N |-> g[k]] /\ IsLoop(g, N, first, F)
                 /\ \A k \in 0 .. N : g[k] \in W[k]
    BY <1>1, <1>2, <1>4, LoopExists
  <2>2. ASSUME NEW k \in 0 .. N
        PROVE  g[k] = IF k = 0 THEN first ELSE Step(k, g[k - 1])
    <3>1. CASE k = 0
      BY <2>1, <3>1 DEF IsLoop
    <3>2. CASE k # 0
      <4>1. k \in 1 .. N /\ k - 1 \in 0 .. N
        BY <1>1, <3>2
      <4>2. g[k] = F[k][g[k - 1]] /\ g[k - 1] \in W[k - 1]
        BY <2>1, <4>1 DEF IsLoop
      <4>. QED  BY <1>4, <3>2, <4>1, <4>2
    <3>. QED  BY <3>1, <3>2
  <2>3. Is(g)
    BY <2>1, <2>2
  <2>. QED  BY <2>3
<1>6. Is(st)
  BY <1>5
<1>. HIDE DEF st
<1>7. st[0] = first /\ \A k \in 1 .. N : st[k] = Step(k, st[k - 1])
  <2>1. \A k \in 1 .. N : k \in 0 .. N /\ k # 0
    BY <1>1
  <2>2. \A k \in 0 .. N : st[k] = IF k = 0 THEN first ELSE Step(k, st[k - 1])
    BY <1>6
  <2>. QED  BY <1>1, <2>1, <2>2
<1>. HIDE DEF Is
<1>8. Takes(st, N, first, W, F)
  BY <1>4, <1>7 DEF Takes
<1>9. \A k \in 0 .. N : st[k] \in W[k]
  BY <1>1, <1>2, <1>4, <1>8, LoopReaches
<1>10. st[N] \in W[N]
  BY <1>1, <1>9
<1>11. InsertAll(w, x, p, stray) = st[N]
  BY DEF InsertAll, st, Is, Step, first, N
<1>12. N \in 0 .. N
  BY <1>1
<1>. QED  BY <1>a, <1>10, <1>11, <1>12 DEF W, N

-----------------------------------------------------------------------------
(* Matching: S is what the map held before, and a block is still where it was until its
   turn has come, unless there will be none *)

TurnRecords == [w : WorkRecords, remain : Nat, hits : SUBSET Seqs, dangling : BOOLEAN]

Matches(acc, S, exact) == acc \in TurnRecords /\ acc.hits \subseteq S /\ Holds(acc.w, S \ acc.hits, exact)

Pending(acc, y) == acc.remain = 0 \/ acc.dangling \/ y \in acc.w.blocks

LEMMA TurnHolds ==
  ASSUME NEW acc, NEW S, NEW e, Matches(acc, S, e), NEW x \in Blocks, Pending(acc, x),
         NEW cursor \in Int, 0 <= cursor, NEW taken, NEW stray \in Blocks
  PROVE  /\ Matches(Turn(acc, x, cursor, taken, stray), S, e)
         /\ \A y \in Blocks : y.from > x.to /\ Pending(acc, y) => Pending(Turn(acc, x, cursor, taken, stray), y)
<1> DEFINE from == Max({x.from, cursor + 1})
           to == Min({x.to, from + acc.remain - 1})
           hit == taken \cap from .. to
           without == [acc.w EXCEPT !.blocks = @ \ {x}, !.total = Subtract(@, messageCnt(x)), !.erased = FALSE]
           p1 == IF x.from < from THEN <<<<x.from, from - 1>>>> ELSE <<>>
           p2 == Left(from, to, hit)
           p3 == IF to < x.to THEN <<<<to + 1, x.to>>>> ELSE <<>>
           pieces == p1 \o p2 \o p3
           w == InsertAll(without, x, pieces, stray)
           t == Turn(acc, x, cursor, taken, stray)
<1>1. t = IF acc.remain = 0 \/ x.to <= cursor \/ acc.dangling THEN acc
          ELSE [w |-> IF hit = {} THEN acc.w ELSE w,
                remain |-> acc.remain - (to - from + 1),
                hits |-> acc.hits \cup hit,
                dangling |-> hit # {} /\ w.erased /\ acc.remain > to - from + 1]
  BY DEF Turn
<1>2. /\ acc.w \in WorkRecords /\ acc.remain \in Nat /\ acc.hits \in SUBSET Seqs /\ acc.dangling \in BOOLEAN
      /\ acc.hits \subseteq S /\ Holds(acc.w, S \ acc.hits, e)
  BY DEF Matches, TurnRecords
<1>3. /\ x.from \in Int /\ x.to \in Int /\ x.from <= x.to /\ 1 <= x.from /\ x.to <= MaxSeq /\ MaxSeq \in Nat
      /\ RangeOf(x) = x.from .. x.to /\ messageCnt(x) \in Nat /\ RangeOf(x) \subseteq Seqs
      /\ Cardinality(RangeOf(x)) = messageCnt(x)
  BY BlockIs, SeqsAre DEF RangeOf
<1>4. CASE acc.remain = 0 \/ x.to <= cursor \/ acc.dangling
  <2>1. t = acc
    BY <1>1, <1>4
  <2>. HIDE DEF t
  <2>. QED  BY <2>1 DEF t
<1>5. CASE ~(acc.remain = 0 \/ x.to <= cursor \/ acc.dangling)
  <2>1. x \in acc.w.blocks /\ acc.remain >= 1 /\ cursor < x.to /\ ~acc.dangling
    BY <1>2, <1>3, <1>5 DEF Pending
  <2>2. from = IF x.from >= cursor + 1 THEN x.from ELSE cursor + 1
    BY <1>3, MaxOfPair
  <2>. HIDE DEF from
  <2>3. from \in Int /\ x.from <= from /\ from <= x.to
    BY <1>3, <2>1, <2>2
  <2>4. to = IF x.to <= from + acc.remain - 1 THEN x.to ELSE from + acc.remain - 1
    <3>1. from + acc.remain - 1 \in Int
      BY <1>2, <2>3
    <3>. QED  BY <1>3, <3>1, MinOfPair
  <2>. HIDE DEF to
  <2>5. to \in Int /\ from <= to /\ to <= x.to /\ to - from + 1 <= acc.remain
    BY <1>2, <1>3, <2>1, <2>3, <2>4
  <2>6. from \in Seqs /\ to \in Seqs /\ from .. to \subseteq RangeOf(x) /\ hit \in SUBSET (from .. to)
    BY <1>3, <2>3, <2>5, SeqsAre
  <2> DEFINE n == acc.remain - (to - from + 1)
             d == hit # {} /\ w.erased /\ acc.remain > to - from + 1
  <2>7. n \in Nat /\ (acc.remain > to - from + 1 \/ n = 0)
    BY <1>2, <2>3, <2>5
  <2>8. t = [w |-> IF hit = {} THEN acc.w ELSE w, remain |-> n, hits |-> acc.hits \cup hit, dangling |-> d]
    BY <1>1, <1>5
  <2>9. acc.hits \cup hit \in SUBSET Seqs
    BY <1>2, <1>3, <2>6
  <2>10. d \in BOOLEAN
    OBVIOUS
  <2>. HIDE DEF t, n, hit, w
  <2>11. CASE hit = {}
    <3>1. t.w = acc.w /\ t.remain = n /\ t.hits = acc.hits /\ t.dangling = FALSE
      BY <2>8, <2>11
    <3>2. t = [w |-> acc.w, remain |-> n, hits |-> acc.hits, dangling |-> FALSE]
      BY <2>8, <2>11
    <3>3. t \in TurnRecords
      BY <1>2, <2>7, <3>2 DEF TurnRecords
    <3>4. \A y \in Blocks : Pending(acc, y) => Pending(t, y)
      BY <2>1, <3>1 DEF Pending
    <3>. QED  BY <1>2, <3>1, <3>3, <3>4 DEF Matches, t
  <2>12. CASE hit # {}
    <3>1. RangeOf(x) \subseteq S \ acc.hits
      <4>1. Held(acc.w.blocks) \subseteq S \ acc.hits
        BY <1>2 DEF Holds
      <4>. QED  BY <2>1, <4>1 DEF Held
    <3>2. Holds(without, (S \ acc.hits) \ RangeOf(x), e) /\ without.blocks = acc.w.blocks \ {x}
      <4>1. without.blocks = acc.w.blocks \ {x} /\ without.lost = acc.w.lost
            /\ without.total = Subtract(acc.w.total, messageCnt(x))
        BY <1>2 DEF WorkRecords
      <4>2. without \in WorkRecords
        <5>1. Subtract(acc.w.total, messageCnt(x)) \in Nat
          <6>1. acc.w.total \in Nat
            BY <1>2 DEF WorkRecords
          <6>. QED  BY <1>3, <6>1 DEF Subtract
        <5>. QED  BY <1>2, <5>1 DEF WorkRecords
      <4>3. Held({x}) = RangeOf(x) /\ {x} \in SUBSET acc.w.blocks
        BY <2>1, HeldOne
      <4>. HIDE DEF without
      <4>4. Holds(without, (S \ acc.hits) \ Held({x}), e)
        <5>1. without.total = Subtract(acc.w.total, Cardinality(Held({x})))
          BY <1>3, <4>1, <4>3
        <5>. QED  BY <1>2, <4>1, <4>2, <4>3, <5>1, GoesOut
      <4>. QED  BY <4>1, <4>3, <4>4
    <3>. HIDE DEF without
    <3>3. Pieces(pieces, RangeOf(x) \ hit)
      <4>1. Pieces(p1, x.from .. from - 1)
        <5>1. CASE x.from < from
          <6>1. from - 1 \in Int /\ x.from <= from - 1
            BY <1>3, <2>3, <5>1
          <6>2. Pieces(<<<<x.from, from - 1>>>>, x.from .. from - 1)
            BY <1>3, <6>1, OnePiece
          <6>. QED  BY <5>1, <6>2
        <5>2. CASE ~(x.from < from)
          <6>1. x.from .. from - 1 = {}
            BY <1>3, <2>3, <5>2
          <6>. QED  BY <5>2, <6>1, NoPieces
        <5>. QED  BY <5>1, <5>2
      <4>2. Pieces(p2, (from .. to) \ hit)
        BY <2>5, <2>6, LeftIs, RunsArePieces
      <4>3. Pieces(p3, to + 1 .. x.to)
        <5>1. CASE to < x.to
          <6>1. to + 1 \in Int /\ to + 1 <= x.to
            BY <1>3, <2>5, <5>1
          <6>2. Pieces(<<<<to + 1, x.to>>>>, to + 1 .. x.to)
            BY <1>3, <6>1, OnePiece
          <6>. QED  BY <5>1, <6>2
        <5>2. CASE ~(to < x.to)
          <6>1. to + 1 .. x.to = {}
            BY <1>3, <2>5, <5>2
          <6>. QED  BY <5>2, <6>1, NoPieces
        <5>. QED  BY <5>1, <5>2
      <4> DEFINE A == x.from .. from - 1
                 B == (from .. to) \ hit
                 C == to + 1 .. x.to
      <4>4. (\A a \in A, b \in B : a < b) /\ (\A a \in A \cup B, c \in C : a < c)
        BY <1>3, <2>3, <2>5
      <4>5. (A \cup B) \cup C = RangeOf(x) \ hit
        <5>1. \A s : s \in x.from .. x.to <=> s \in x.from .. from - 1 \/ s \in from .. to \/ s \in to + 1 .. x.to
          BY <1>3, <2>3, <2>5
        <5>2. (\A s \in A : s \notin from .. to) /\ \A s \in C : s \notin from .. to
          BY <1>3, <2>3, <2>5
        <5>. QED  BY <1>3, <2>6, <5>1, <5>2
      <4>. HIDE DEF A, B, C, p1, p2, p3
      <4>6. Pieces(p1 \o p2, A \cup B)
        BY <4>1, <4>2, <4>4, PiecesJoined DEF A, B
      <4>7. Pieces((p1 \o p2) \o p3, (A \cup B) \cup C)
        BY <4>3, <4>4, <4>6, PiecesJoined DEF C
      <4>. QED  BY <4>5, <4>7
    <3>. HIDE DEF pieces
    <3> DEFINE D == RangeOf(x) \ hit
               T == (S \ acc.hits) \ RangeOf(x)
    <3>4. /\ Holds(w, T \cup D, e)
          /\ \A y \in without.blocks : y.from > x.to => y \in w.blocks \/ w.erased
      <4>1. D \subseteq RangeOf(x) /\ D \cap T = {}
        OBVIOUS
      <4>2. Holds(without, T, e) /\ Pieces(pieces, D)
        BY <3>2, <3>3
      <4>. HIDE DEF D, T
      <4>. QED  BY <4>1, <4>2, InsertAllHolds DEF w
    <3>5. T \cup D = S \ (acc.hits \cup hit) /\ acc.hits \cup hit \subseteq S
      BY <1>2, <2>6, <3>1
    <3>. HIDE DEF D, T, d
    <3>6. t.w = w /\ t.remain = n /\ t.hits = acc.hits \cup hit /\ t.dangling = d
      BY <2>8, <2>12
    <3>7. t \in TurnRecords
      <4>1. w \in WorkRecords
        BY <3>4 DEF Holds
      <4>2. t = [w |-> w, remain |-> n, hits |-> acc.hits \cup hit, dangling |-> d]
        BY <2>8, <2>12
      <4>. QED  BY <2>7, <2>9, <2>10, <4>1, <4>2 DEF TurnRecords
    <3>8. Matches(t, S, e)
      BY <3>4, <3>5, <3>6, <3>7 DEF Matches
    <3>9. ASSUME NEW y \in Blocks, y.from > x.to, Pending(acc, y) PROVE Pending(t, y)
      <4>1. y \in acc.w.blocks /\ y # x
        <5>1. y # x
          BY <1>3, <3>9
        <5>. QED  BY <2>1, <3>9, <5>1 DEF Pending
      <4>2. y \in w.blocks \/ w.erased
        BY <3>2, <3>4, <3>9, <4>1
      <4>3. d \/ n = 0 \/ y \in w.blocks
        BY <2>7, <2>12, <4>2 DEF d
      <4>. QED  BY <3>6, <4>3 DEF Pending
    <3>. QED  BY <3>8, <3>9 DEF t
  <2>. QED  BY <2>11, <2>12
<1>. QED  BY <1>4, <1>5

LEMMA WorkIs ==
  ASSUME NEW m, m \in [blocks : SUBSET Blocks, total : Nat]
  PROVE  /\ Work(m) \in WorkRecords /\ Work(m).blocks = m.blocks /\ Work(m).total = m.total /\ Work(m).lost = {}
<1>1. m.blocks \in SUBSET Blocks /\ m.total \in Nat
  OBVIOUS
<1>. QED  BY <1>1 DEF Work, WorkRecords

\* getNextMatched takes hits out of the map and leaves the rest there, or loses it.
LEMMA MatchedHolds ==
  ASSUME map.blocks \in SUBSET Blocks, NEW e, Holds(Work(map), InMap, e), Apart(map.blocks),
         NEW cursor \in Int, 0 <= cursor, NEW limit \in Nat, NEW taken, NEW stray \in Blocks,
         getNextMatched(cursor, limit, taken, stray)
  PROVE  \E acc : /\ Matches(acc, InMap, e) /\ Keep(acc.w) /\ given' = given \cup acc.hits
                  /\ broken' = IF acc.dangling THEN "dangling" ELSE "no"
<1> DEFINE N == MaxSeq
           Start(s) == CHOOSE x \in StartAt(cursor) : x.from = s
           first == [w |-> Work(map), remain |-> limit, hits |-> {}, dangling |-> FALSE]
           Step(s, acc) == IF \E x \in StartAt(cursor) : x.from = s
                           THEN Turn(acc, CHOOSE x \in StartAt(cursor) : x.from = s, cursor, taken, stray)
                           ELSE acc
           Is(g) == g = [s \in 0 .. N |-> IF s = 0 THEN first ELSE Step(s, g[s - 1])]
           st == CHOOSE g : Is(g)
           W == [s \in 0 .. N |-> {acc \in TurnRecords :
                                     Matches(acc, InMap, e) /\ \A y \in map.blocks : y.from > s => Pending(acc, y)}]
           F == [s \in 1 .. N |-> [acc \in W[s - 1] |-> Step(s, acc)]]
<1>1. N \in Nat
  BY SeqsAre
<1>2. first \in W[0]
  <2>1. Work(map) \in WorkRecords /\ Work(map).blocks = map.blocks
    BY DEF Holds, Work
  <2>2. first \in TurnRecords
    BY <2>1 DEF TurnRecords
  <2>3. first.w = Work(map) /\ first.hits = {}
    OBVIOUS
  <2>. HIDE DEF first
  <2>4. Matches(first, InMap, e)
    <3>1. InMap \ {} = InMap
      OBVIOUS
    <3>. QED  BY <2>2, <2>3, <3>1 DEF Matches
  <2>5. \A y \in map.blocks : Pending(first, y)
    BY <2>1, <2>3 DEF Pending
  <2>6. 0 \in 0 .. N
    BY <1>1
  <2>. QED  BY <2>2, <2>4, <2>5, <2>6
<1>3. ASSUME NEW s \in 1 .. N, NEW acc \in W[s - 1] PROVE Step(s, acc) \in W[s]
  <2>1. s - 1 \in 0 .. N /\ s \in 0 .. N /\ s \in Int
    BY <1>1
  <2>2. acc \in TurnRecords /\ Matches(acc, InMap, e) /\ \A y \in map.blocks : y.from > s - 1 => Pending(acc, y)
    BY <2>1
  <2>. HIDE DEF W
  <2>3. \A y \in map.blocks : y.from \in Int /\ y \in Blocks
    BY BlockIs
  <2>4. CASE \E x \in StartAt(cursor) : x.from = s
    <3> DEFINE x == Start(s)
               t == Turn(acc, x, cursor, taken, stray)
    <3>1. x \in StartAt(cursor) /\ x.from = s
      BY <2>4
    <3>. HIDE DEF x
    <3>2. x \in map.blocks /\ x \in Blocks
      BY <3>1, StartIs
    <3>3. Pending(acc, x)
      BY <2>1, <2>2, <3>1, <3>2
    <3>4. /\ Matches(t, InMap, e)
          /\ \A y \in Blocks : y.from > x.to /\ Pending(acc, y) => Pending(t, y)
      BY <2>2, <3>2, <3>3, TurnHolds
    <3>5. Step(s, acc) = t
      BY <2>4 DEF x
    <3>. HIDE DEF t, Step
    <3>6. ASSUME NEW y \in map.blocks, y.from > s PROVE Pending(t, y)
      <4>1. y.from > x.to
        <5>1. x.from < y.from
          BY <2>1, <2>3, <3>1, <3>6
        <5>2. x.to < y.from
          BY <3>2, <5>1, InOrder
        <5>. QED  BY <2>3, <3>2, <5>2, BlockIs
      <4>2. Pending(acc, y)
        BY <2>1, <2>2, <2>3, <3>6
      <4>. QED  BY <2>3, <3>4, <4>1, <4>2
    <3>7. t \in TurnRecords
      BY <3>4 DEF Matches
    <3>. QED  BY <2>1, <3>4, <3>5, <3>6, <3>7 DEF W
  <2>5. CASE ~\E x \in StartAt(cursor) : x.from = s
    <3>1. Step(s, acc) = acc
      BY <2>5
    <3>2. \A y \in map.blocks : y.from > s => Pending(acc, y)
      BY <2>1, <2>2, <2>3
    <3>. HIDE DEF Step
    <3>. QED  BY <2>1, <2>2, <3>1, <3>2 DEF W
  <2>. QED  BY <2>4, <2>5
<1>4. \A k \in 1 .. N : \A x \in W[k - 1] : F[k][x] = Step(k, x) /\ F[k][x] \in W[k]
  <2>. HIDE DEF N, W, Step
  <2>. QED  BY <1>3
<1>. HIDE DEF N, first, Step, W, F
<1>5. \E g : Is(g)
  <2>1. PICK g : /\ g = [k \in 0 .. N |-> g[k]] /\ IsLoop(g, N, first, F)
                 /\ \A k \in 0 .. N : g[k] \in W[k]
    BY <1>1, <1>2, <1>4, LoopExists
  <2>2. ASSUME NEW k \in 0 .. N
        PROVE  g[k] = IF k = 0 THEN first ELSE Step(k, g[k - 1])
    <3>1. CASE k = 0
      BY <2>1, <3>1 DEF IsLoop
    <3>2. CASE k # 0
      <4>1. k \in 1 .. N /\ k - 1 \in 0 .. N
        BY <1>1, <3>2
      <4>2. g[k] = F[k][g[k - 1]] /\ g[k - 1] \in W[k - 1]
        BY <2>1, <4>1 DEF IsLoop
      <4>. QED  BY <1>4, <3>2, <4>1, <4>2
    <3>. QED  BY <3>1, <3>2
  <2>3. Is(g)
    BY <2>1, <2>2
  <2>. QED  BY <2>3
<1>6. Is(st)
  BY <1>5
<1>. HIDE DEF st
<1>7. st[0] = first /\ \A k \in 1 .. N : st[k] = Step(k, st[k - 1])
  <2>1. \A k \in 1 .. N : k \in 0 .. N /\ k # 0
    BY <1>1
  <2>2. \A k \in 0 .. N : st[k] = IF k = 0 THEN first ELSE Step(k, st[k - 1])
    BY <1>6
  <2>. QED  BY <1>1, <2>1, <2>2
<1>. HIDE DEF Is
<1>8. Takes(st, N, first, W, F)
  BY <1>4, <1>7 DEF Takes
<1>9. \A k \in 0 .. N : st[k] \in W[k]
  BY <1>1, <1>2, <1>4, <1>8, LoopReaches
<1>10. st[N] \in W[N]
  BY <1>1, <1>9
<1>11. /\ Keep(st[N].w) /\ given' = given \cup st[N].hits
       /\ broken' = IF st[N].dangling THEN "dangling" ELSE "no"
  BY DEF getNextMatched, st, Is, Step, first, N
<1>12. Matches(st[N], InMap, e)
  <2>1. N \in 0 .. N
    BY <1>1
  <2>. QED  BY <1>10, <2>1 DEF W
<1>. QED  BY <1>11, <1>12

-----------------------------------------------------------------------------
(* Splitting: S is what the map and the deque hold together *)

MapIn(m, deq, S, e, g) ==
  \E A, B : Holds(m, A, e) /\ HoldsD(deq, B, g) /\ A \cap B = {} /\ A \cup B = S

LEMMA MoveToDequeHolds ==
  ASSUME NEW st, st \in [map : [blocks : SUBSET Blocks, total : Nat], deque : DequeRecords, count : Nat],
         NEW S, NEW e, NEW g, MapIn(Work(st.map), st.deque, S, e, g)
  PROVE  /\ MoveToDeque(st) \in [map : [blocks : SUBSET Blocks, total : Nat], deque : DequeRecords, count : Nat]
         /\ MapIn(Work(MoveToDeque(st).map), MoveToDeque(st).deque, S, e, g)
<1> DEFINE bs == st.map.blocks
           b == Lowest(bs)
           n == Min({st.count, messageCnt(b)})
           R == IF n = messageCnt(b) THEN {} ELSE {Others(b, n)}
           m == [blocks |-> (bs \ {b}) \cup R, total |-> st.map.total - n]
           d == pushBackDeque(st.deque, First(b, n))
           t == MoveToDeque(st)
<1>1. t = IF st.count = 0 \/ bs = {} THEN st ELSE [map |-> m, deque |-> d, count |-> st.count - n]
  BY DEF MoveToDeque
<1>2. bs \in SUBSET Blocks /\ st.map.total \in Nat /\ st.deque \in DequeRecords /\ st.count \in Nat
      /\ st.map \in [blocks : SUBSET Blocks, total : Nat]
  OBVIOUS
<1>3. CASE st.count = 0 \/ bs = {}
  <2>1. t = st
    BY <1>1, <1>3
  <2>. HIDE DEF t
  <2>. QED  BY <2>1 DEF t
<1>4. CASE ~(st.count = 0 \/ bs = {})
  <2>1. t = [map |-> m, deque |-> d, count |-> st.count - n]
    BY <1>1, <1>4
  <2>. HIDE DEF t
  <2>2. PICK A, B : Holds(Work(st.map), A, e) /\ HoldsD(st.deque, B, g) /\ A \cap B = {} /\ A \cup B = S
    BY DEF MapIn
  <2>3. /\ Apart(bs) /\ Held(bs) = A /\ Cardinality(A) <= st.map.total
        /\ e => st.map.total = Cardinality(A)
    <3>1. Work(st.map).blocks = bs /\ Work(st.map).total = st.map.total /\ Work(st.map).lost = {}
      BY <1>2, WorkIs
    <3>. HIDE DEF bs
    <3>. QED  BY <2>2, <3>1 DEF Holds
  <2>4. b \in bs /\ b \in Blocks
    BY <1>2, <1>4, LowestIs
  <2>. HIDE DEF b
  <2>5. n \in 1 .. messageCnt(b) /\ n \in Nat /\ n <= st.count
    <3>1. messageCnt(b) \in Nat /\ messageCnt(b) >= 1 /\ st.count >= 1
      BY <1>2, <1>4, <2>4, BlockIs
    <3>2. n = IF st.count <= messageCnt(b) THEN st.count ELSE messageCnt(b)
      BY <1>2, <3>1, MinOfPair
    <3>. HIDE DEF n
    <3>. QED  BY <1>2, <3>1, <3>2
  <2>. HIDE DEF n
  <2> DEFINE f == First(b, n)
  <2>6. /\ f \in Blocks /\ RangeOf(f) \subseteq RangeOf(b) /\ Cardinality(RangeOf(f)) = n
        /\ n = messageCnt(b) => RangeOf(f) = RangeOf(b)
        /\ n # messageCnt(b) => Others(b, n) \in Blocks /\ RangeOf(Others(b, n)) = RangeOf(b) \ RangeOf(f)
    BY <2>4, <2>5, HalvesAre
  <2>. HIDE DEF f
  <2>7. RangeOf(b) \subseteq A
    BY <2>3, <2>4 DEF Held
  <2> DEFINE cs == (bs \ {b}) \cup R
             A2 == A \ RangeOf(f)
  <2>8. cs \in SUBSET Blocks /\ Apart(cs) /\ Held(cs) = A2
    <3>1. /\ bs \ {b} \in SUBSET Blocks /\ Apart(bs \ {b}) /\ Held(bs \ {b}) = A \ RangeOf(b)
      <4>1. {b} \in SUBSET bs /\ Held({b}) = RangeOf(b)
        BY <2>4, HeldOne
      <4>. HIDE DEF bs
      <4>2. bs \ {b} \in SUBSET Blocks /\ Apart(bs \ {b}) /\ Held(bs \ {b}) = Held(bs) \ Held({b})
        BY <1>2, <2>3, <4>1, Removed
      <4>. QED  BY <2>3, <4>1, <4>2
    <3>. HIDE DEF bs
    <3>2. CASE n = messageCnt(b)
      <4>1. cs = bs \ {b} /\ A2 = A \ RangeOf(b)
        BY <2>6, <3>2
      <4>. QED  BY <3>1, <4>1
    <3>3. CASE n # messageCnt(b)
      <4> DEFINE o == Others(b, n)
      <4>1. cs = (bs \ {b}) \cup {o} /\ o \in Blocks /\ RangeOf(o) = RangeOf(b) \ RangeOf(f)
        BY <2>6, <3>3
      <4>. HIDE DEF cs, o
      <4>2. Replaces(bs \ {b}, {}, o, RangeOf(o), cs)
        <5>1. Held({}) = {}
          BY DEF Held
        <5>2. RangeOf(o) \cap Held(bs \ {b}) = {}
          BY <3>1, <4>1
        <5>3. {} \in SUBSET (bs \ {b}) /\ cs = ((bs \ {b}) \ {}) \cup {o} /\ RangeOf(o) = {} \cup RangeOf(o)
          BY <4>1
        <5>. QED  BY <3>1, <4>1, <5>1, <5>2, <5>3 DEF Replaces
      <4>3. cs \in SUBSET Blocks /\ Apart(cs) /\ Held(cs) = Held(bs \ {b}) \cup RangeOf(o)
        BY <4>2, Replaced
      <4>4. Held(bs \ {b}) \cup RangeOf(o) = A2
        BY <2>6, <2>7, <3>1, <4>1
      <4>. QED  BY <4>3, <4>4
    <3>. QED  BY <3>2, <3>3
  <2>. HIDE DEF cs
  <2>9. Cardinality(A2) = Cardinality(A) - n /\ Cardinality(A) \in Nat /\ n <= Cardinality(A)
    <3>1. A \in SUBSET Seqs
      BY <1>2, <2>3, HeldIs
    <3>2. RangeOf(f) \in SUBSET Seqs /\ RangeOf(f) \subseteq A
      BY <2>6, <2>7, <3>1
    <3>. QED  BY <2>6, <3>1, <3>2, Count
  <2>. HIDE DEF A2
  <2>10. m \in [blocks : SUBSET Blocks, total : Nat] /\ m.blocks = cs /\ m.total = st.map.total - n
    <3>1. m = [blocks |-> cs, total |-> st.map.total - n]
      BY DEF cs
    <3>2. st.map.total - n \in Nat
      BY <1>2, <2>3, <2>5, <2>9
    <3>. HIDE DEF m
    <3>. QED  BY <2>8, <3>1, <3>2
  <2>. HIDE DEF m
  <2>11. Holds(Work(m), A2, e)
    <3>1. /\ Work(m) \in WorkRecords /\ Work(m).blocks = cs /\ Work(m).total = st.map.total - n /\ Work(m).lost = {}
      BY <2>10, WorkIs
    <3>2. Cardinality(A2) <= st.map.total - n /\ (e => st.map.total - n = Cardinality(A2))
      BY <1>2, <2>3, <2>5, <2>9
    <3>. QED  BY <2>8, <3>1, <3>2 DEF Holds
  <2>12. HoldsD(d, B \cup RangeOf(f), g)
    <3>1. RangeOf(f) \cap B = {}
      BY <2>2, <2>6, <2>7
    <3>. QED  BY <2>2, <2>6, <3>1, PushBackDequeHolds DEF f
  <2>. HIDE DEF d
  <2>13. A2 \cap (B \cup RangeOf(f)) = {} /\ A2 \cup (B \cup RangeOf(f)) = S
    BY <2>2, <2>6, <2>7 DEF A2
  <2>14. d \in DequeRecords
    BY <2>12 DEF HoldsD
  <2>15. st.count - n \in Nat
    BY <1>2, <2>5
  <2>16. t.map = m /\ t.deque = d /\ t \in [map : [blocks : SUBSET Blocks, total : Nat], deque : DequeRecords, count : Nat]
    BY <2>1, <2>10, <2>14, <2>15
  <2>17. MapIn(Work(t.map), t.deque, S, e, g)
    BY <2>11, <2>12, <2>13, <2>16 DEF MapIn
  <2>. QED  BY <2>16, <2>17 DEF t
<1>. QED  BY <1>3, <1>4

LEMMA SplitMapHolds ==
  ASSUME NEW S, NEW e, NEW g, map \in [blocks : SUBSET Blocks, total : Nat], MapIn(Work(map), deque, S, e, g),
         deque \in DequeRecords, NEW count \in Nat, splitMap(count)
  PROVE  /\ MapIn(Work(map'), deque', S, e, g)
         /\ map' \in [blocks : SUBSET Blocks, total : Nat] /\ deque' \in DequeRecords
<1> DEFINE N == count
           first == [map |-> map, deque |-> deque, count |-> Min({count, map.total})]
           Step(k, x) == MoveToDeque(x)
           Is(f) == f = [k \in 0 .. N |-> IF k = 0 THEN first ELSE Step(k, f[k - 1])]
           st == CHOOSE f : Is(f)
           T == {x \in [map : [blocks : SUBSET Blocks, total : Nat], deque : DequeRecords, count : Nat] :
                   MapIn(Work(x.map), x.deque, S, e, g)}
           W == [k \in 0 .. N |-> T]
           F == [k \in 1 .. N |-> [x \in W[k - 1] |-> Step(k, x)]]
<1>1. N \in Nat
  OBVIOUS
<1>2. first \in W[0]
  <2>1. 0 \in 0 .. N
    OBVIOUS
  <2>2. Min({count, map.total}) \in Nat
    <3>1. map.total \in Nat
      OBVIOUS
    <3>2. Min({count, map.total}) = IF count <= map.total THEN count ELSE map.total
      BY <3>1, MinOfPair
    <3>. QED  BY <3>1, <3>2
  <2>. QED  BY <2>1, <2>2
<1>3. ASSUME NEW k \in 1 .. N, NEW x \in W[k - 1] PROVE Step(k, x) \in W[k]
  <2>1. k - 1 \in 0 .. N /\ k \in 0 .. N
    OBVIOUS
  <2>2. W[k - 1] = T /\ W[k] = T
    BY <2>1
  <2>3. x \in T
    BY <2>2
  <2>4. Step(k, x) \in T
    BY <2>3, MoveToDequeHolds
  <2>. QED  BY <2>2, <2>4
<1>4. \A k \in 1 .. N : \A x \in W[k - 1] : F[k][x] = Step(k, x) /\ F[k][x] \in W[k]
  <2>. HIDE DEF N, W, Step
  <2>. QED  BY <1>3
<1>. HIDE DEF N, first, Step, W, F
<1>5. \E f : Is(f)
  <2>1. PICK f : /\ f = [k \in 0 .. N |-> f[k]] /\ IsLoop(f, N, first, F)
                 /\ \A k \in 0 .. N : f[k] \in W[k]
    BY <1>1, <1>2, <1>4, LoopExists
  <2>2. ASSUME NEW k \in 0 .. N
        PROVE  f[k] = IF k = 0 THEN first ELSE Step(k, f[k - 1])
    <3>1. CASE k = 0
      BY <2>1, <3>1 DEF IsLoop
    <3>2. CASE k # 0
      <4>1. k \in 1 .. N /\ k - 1 \in 0 .. N
        BY <1>1, <3>2
      <4>2. f[k] = F[k][f[k - 1]] /\ f[k - 1] \in W[k - 1]
        BY <2>1, <4>1 DEF IsLoop
      <4>. QED  BY <1>4, <3>2, <4>1, <4>2
    <3>. QED  BY <3>1, <3>2
  <2>3. Is(f)
    BY <2>1, <2>2
  <2>. QED  BY <2>3
<1>6. Is(st)
  BY <1>5
<1>. HIDE DEF st
<1>7. st[0] = first /\ \A k \in 1 .. N : st[k] = Step(k, st[k - 1])
  <2>1. \A k \in 1 .. N : k \in 0 .. N /\ k # 0
    BY <1>1
  <2>2. \A k \in 0 .. N : st[k] = IF k = 0 THEN first ELSE Step(k, st[k - 1])
    BY <1>6
  <2>. QED  BY <1>1, <2>1, <2>2
<1>. HIDE DEF Is
<1>8. Takes(st, N, first, W, F)
  BY <1>4, <1>7 DEF Takes
<1>9. \A k \in 0 .. N : st[k] \in W[k]
  BY <1>1, <1>2, <1>4, <1>8, LoopReaches
<1>10. st[N] \in W[N]
  BY <1>1, <1>9
<1>11. map' = st[N].map /\ deque' = st[N].deque
  BY DEF splitMap, st, Is, Step, first, N
<1>12. st[N] \in T
  <2>1. N \in 0 .. N
    BY <1>1
  <2>. QED  BY <1>10, <2>1 DEF W
<1>. QED  BY <1>11, <1>12

SplitRecords == [w : WorkRecords, deque : DequeRecords, count : Nat]

LEMMA MoveToMapHolds ==
  ASSUME NEW st \in SplitRecords, NEW S, NEW e, NEW g, MapIn(st.w, st.deque, S, e, g), st.count <= st.deque.total,
         NEW stray \in Blocks
  PROVE  LET t == MoveToMap(st, stray)
         IN  /\ t \in SplitRecords /\ MapIn(t.w, t.deque, S, e, g) /\ t.count <= t.deque.total
             /\ IF st.count = 0 \/ st.deque.blocks = <<>> THEN t = st ELSE t.count < st.count
<1> DEFINE q == st.deque.blocks
           b == Head(q)
           n == Min({st.count, messageCnt(b)})
           f == First(b, n)
           v == pushBackMap(st.w, f, stray)
           d == Without(st.deque, n)
           t == MoveToMap(st, stray)
<1>1. t = IF st.count = 0 \/ q = <<>> THEN st ELSE [w |-> v, deque |-> d, count |-> st.count - n]
  BY DEF MoveToMap
<1>2. st.w \in WorkRecords /\ st.deque \in DequeRecords /\ st.count \in Nat /\ q \in Seq(Blocks) /\ st.deque.total \in Nat
  BY DEF SplitRecords, DequeRecords
<1>3. CASE st.count = 0 \/ q = <<>>
  <2>1. t = st
    BY <1>1, <1>3
  <2>. HIDE DEF t
  <2>. QED  BY <1>3, <2>1 DEF t
<1>4. CASE ~(st.count = 0 \/ q = <<>>)
  <2>1. t = [w |-> v, deque |-> d, count |-> st.count - n]
    BY <1>1, <1>4
  <2>. HIDE DEF t
  <2>2. PICK A, B : Holds(st.w, A, e) /\ HoldsD(st.deque, B, g) /\ A \cap B = {} /\ A \cup B = S
    BY DEF MapIn
  <2>3. b \in Blocks
    <3>1. b = q[1] /\ Len(q) # 0 /\ Len(q) \in Nat
      BY <1>2, <1>4, EmptySeq
    <3>2. 1 \in 1 .. Len(q)
      BY <3>1
    <3>. QED  BY <1>2, <3>1, <3>2, ElementOfSeq
  <2>4. n \in 1 .. messageCnt(b) /\ n \in Nat /\ n <= st.count /\ 1 <= n
    <3>. HIDE DEF b
    <3>1. messageCnt(b) \in Nat /\ messageCnt(b) >= 1 /\ st.count >= 1
      BY <1>2, <1>4, <2>3, BlockIs
    <3>2. n = IF st.count <= messageCnt(b) THEN st.count ELSE messageCnt(b)
      BY <1>2, <3>1, MinOfPair
    <3>. HIDE DEF n
    <3>. QED  BY <1>2, <3>1, <3>2
  <2>. HIDE DEF n
  <2>5. f \in Blocks
    BY <2>3, <2>4, HalvesAre
  <2>6. RangeOf(f) \subseteq B /\ n <= st.deque.total /\ d.total = st.deque.total - n /\ HoldsD(d, B \ RangeOf(f), g)
    BY <1>4, <2>2, <2>4, WithoutHolds
  <2>. HIDE DEF d, f
  <2>7. Holds(v, A \cup RangeOf(f), e)
    <3>1. RangeOf(f) \cap A = {}
      BY <2>2, <2>6
    <3>. QED  BY <2>2, <2>5, <3>1, PushBackMapHolds
  <2>. HIDE DEF v
  <2>8. (A \cup RangeOf(f)) \cap (B \ RangeOf(f)) = {} /\ (A \cup RangeOf(f)) \cup (B \ RangeOf(f)) = S
    BY <2>2, <2>6
  <2>9. v \in WorkRecords /\ d \in DequeRecords /\ st.count - n \in Nat
    BY <1>2, <2>4, <2>6, <2>7 DEF Holds, HoldsD
  <2>10. t.w = v /\ t.deque = d /\ t.count = st.count - n /\ t \in SplitRecords
    BY <2>1, <2>9 DEF SplitRecords
  <2>11. MapIn(t.w, t.deque, S, e, g)
    BY <2>6, <2>7, <2>8, <2>10 DEF MapIn
  <2>12. t.count <= t.deque.total /\ t.count < st.count
    <3>1. t.deque.total = st.deque.total - n
      BY <2>6, <2>10
    <3>. QED  BY <1>2, <2>4, <2>10, <3>1
  <2>. QED  BY <1>4, <2>10, <2>11, <2>12 DEF t
<1>. QED  BY <1>3, <1>4

\* splitDeque ends before its count does only when more was counted than there was.
LEMMA SplitDequeHolds ==
  ASSUME NEW S, NEW e, NEW g, Work(map) \in WorkRecords, MapIn(Work(map), deque, S, e, g), deque \in DequeRecords,
         NEW count \in Nat, NEW stray \in Blocks, splitDeque(count, stray)
  PROVE  \E x \in SplitRecords : /\ MapIn(x.w, x.deque, S, e, g) /\ Keep(x.w) /\ deque' = x.deque
                                 /\ broken' = IF x.count > 0 THEN "overrun" ELSE "no"
                                 /\ g => x.count = 0
<1> DEFINE N == count
           first == [w |-> Work(map), deque |-> deque, count |-> Min({count, deque.total})]
           Step(k, x) == MoveToMap(x, stray)
           Is(f) == f = [k \in 0 .. N |-> IF k = 0 THEN first ELSE Step(k, f[k - 1])]
           st == CHOOSE f : Is(f)
           W == [k \in 0 .. N |-> {x \in SplitRecords :
                                     /\ MapIn(x.w, x.deque, S, e, g) /\ x.count <= x.deque.total
                                     /\ x.count <= N - k \/ x.deque.blocks = <<>>}]
           F == [k \in 1 .. N |-> [x \in W[k - 1] |-> Step(k, x)]]
<1>1. N \in Nat
  OBVIOUS
<1>2. first \in W[0]
  <2>1. 0 \in 0 .. N
    OBVIOUS
  <2>2. deque.total \in Nat
    BY DEF DequeRecords
  <2>3. Min({count, deque.total}) = IF count <= deque.total THEN count ELSE deque.total
    BY <2>2, MinOfPair
  <2>4. Min({count, deque.total}) \in Nat /\ Min({count, deque.total}) <= deque.total /\ Min({count, deque.total}) <= N - 0
    BY <2>2, <2>3
  <2>5. first \in SplitRecords
    BY <2>4 DEF SplitRecords
  <2>. QED  BY <2>1, <2>4, <2>5
<1>3. ASSUME NEW k \in 1 .. N, NEW x \in W[k - 1] PROVE Step(k, x) \in W[k]
  <2> DEFINE t == MoveToMap(x, stray)
  <2>1. k - 1 \in 0 .. N /\ k \in 0 .. N
    OBVIOUS
  <2>2. /\ x \in SplitRecords /\ MapIn(x.w, x.deque, S, e, g) /\ x.count <= x.deque.total
        /\ x.count <= N - (k - 1) \/ x.deque.blocks = <<>>
    BY <2>1
  <2>3. /\ t \in SplitRecords /\ MapIn(t.w, t.deque, S, e, g) /\ t.count <= t.deque.total
        /\ IF x.count = 0 \/ x.deque.blocks = <<>> THEN t = x ELSE t.count < x.count
    <3>. HIDE DEF W
    <3>. QED  BY <2>2, MoveToMapHolds
  <2>. HIDE DEF t, W
  <2>4. t.count <= N - k \/ t.deque.blocks = <<>>
    <3>1. x.count \in Nat /\ t.count \in Nat
      BY <2>2, <2>3 DEF SplitRecords
    <3>. QED  BY <2>2, <2>3, <3>1
  <2>5. Step(k, x) = t
    BY DEF t
  <2>. HIDE DEF Step
  <2>. QED  BY <2>1, <2>3, <2>4, <2>5 DEF W
<1>4. \A k \in 1 .. N : \A x \in W[k - 1] : F[k][x] = Step(k, x) /\ F[k][x] \in W[k]
  <2>. HIDE DEF N, W, Step
  <2>. QED  BY <1>3
<1>. HIDE DEF N, first, Step, W, F
<1>5. \E f : Is(f)
  <2>1. PICK f : /\ f = [k \in 0 .. N |-> f[k]] /\ IsLoop(f, N, first, F)
                 /\ \A k \in 0 .. N : f[k] \in W[k]
    BY <1>1, <1>2, <1>4, LoopExists
  <2>2. ASSUME NEW k \in 0 .. N
        PROVE  f[k] = IF k = 0 THEN first ELSE Step(k, f[k - 1])
    <3>1. CASE k = 0
      BY <2>1, <3>1 DEF IsLoop
    <3>2. CASE k # 0
      <4>1. k \in 1 .. N /\ k - 1 \in 0 .. N
        BY <1>1, <3>2
      <4>2. f[k] = F[k][f[k - 1]] /\ f[k - 1] \in W[k - 1]
        BY <2>1, <4>1 DEF IsLoop
      <4>. QED  BY <1>4, <3>2, <4>1, <4>2
    <3>. QED  BY <3>1, <3>2
  <2>3. Is(f)
    BY <2>1, <2>2
  <2>. QED  BY <2>3
<1>6. Is(st)
  BY <1>5
<1>. HIDE DEF st
<1>7. st[0] = first /\ \A k \in 1 .. N : st[k] = Step(k, st[k - 1])
  <2>1. \A k \in 1 .. N : k \in 0 .. N /\ k # 0
    BY <1>1
  <2>2. \A k \in 0 .. N : st[k] = IF k = 0 THEN first ELSE Step(k, st[k - 1])
    BY <1>6
  <2>. QED  BY <1>1, <2>1, <2>2
<1>. HIDE DEF Is
<1>8. Takes(st, N, first, W, F)
  BY <1>4, <1>7 DEF Takes
<1>9. \A k \in 0 .. N : st[k] \in W[k]
  BY <1>1, <1>2, <1>4, <1>8, LoopReaches
<1>10. st[N] \in W[N]
  BY <1>1, <1>9
<1> DEFINE x == st[N]
<1>11. Keep(x.w) /\ deque' = x.deque /\ broken' = IF x.count > 0 THEN "overrun" ELSE "no"
  BY DEF splitDeque, st, Is, Step, first, N
<1>12. /\ x \in SplitRecords /\ MapIn(x.w, x.deque, S, e, g) /\ x.count <= x.deque.total
       /\ x.count <= N - N \/ x.deque.blocks = <<>>
  <2>1. N \in 0 .. N
    BY <1>1
  <2>. QED  BY <1>10, <2>1 DEF W
<1>. HIDE DEF x
<1>13. g => x.count = 0
  <2>. SUFFICES ASSUME g PROVE x.count = 0
    OBVIOUS
  <2>1. x.count \in Nat
    BY <1>12 DEF SplitRecords
  <2>2. CASE x.count <= N - N
    BY <1>1, <2>1, <2>2
  <2>3. CASE x.deque.blocks = <<>>
    <3>1. PICK A, B : HoldsD(x.deque, B, g)
      BY <1>12 DEF MapIn
    <3>2. B = {}
      <4>1. Len(x.deque.blocks) = 0
        BY <2>3
      <4>. QED  BY <3>1, <4>1 DEF HoldsD
    <3>3. x.deque.total = 0
      BY <3>1, <3>2, FS_EmptySet DEF HoldsD
    <3>. QED  BY <1>12, <2>1, <3>3
  <2>. QED  BY <1>12, <2>2, <2>3
<1>. QED  BY <1>11, <1>12, <1>13

-----------------------------------------------------------------------------
(* The blocks that follow one another from the first *)

LEMMA FollowUpIs ==
  ASSUME NEW bs, bs = map.blocks, bs \in SUBSET Blocks, Apart(bs), bs # {}, NEW size \in Nat,
         NEW first, first = Lowest(bs), NEW taken, taken = FollowUp(first, size)
  PROVE  /\ taken \in SUBSET bs /\ Joined(first, Highest(taken)) \in Blocks
         /\ RangeOf(Joined(first, Highest(taken))) = Held(taken)
<1> DEFINE hi == Highest(taken)
<1>1. first \in bs /\ \A c \in bs : first.from <= c.from
  BY LowestIs
<1>2. \A b : b \in taken <=> /\ b \in bs /\ b.from - first.from <= size
                             /\ \A s \in first.from .. b.to : \E c \in bs : s \in RangeOf(c) /\ c.kind = first.kind
  BY DEF FollowUp
<1>3. \A b \in bs : b \in Blocks /\ b.from \in Int /\ b.to \in Int /\ b.from <= b.to /\ RangeOf(b) = b.from .. b.to
  BY BlockIs DEF RangeOf
<1>4. first \in taken
  <2>1. first.from - first.from <= size
    BY <1>1, <1>3
  <2>2. \A s \in first.from .. first.to : s \in RangeOf(first)
    BY DEF RangeOf
  <2>. QED  BY <1>1, <1>2, <2>1, <2>2
<1>5. taken \in SUBSET bs
  BY <1>2
<1>6. hi \in taken /\ \A c \in taken : c.from <= hi.from
  <2>1. taken \in SUBSET Blocks /\ taken # {}
    BY <1>4, <1>5
  <2>. QED  BY <2>1, HighestIs
<1>. HIDE DEF hi
<1>7. hi \in bs /\ hi.from \in Int /\ hi.to \in Int /\ hi.from <= hi.to /\ first.from \in Int /\ first.from <= hi.from
  BY <1>1, <1>3, <1>5, <1>6
<1>8. \A c \in bs : c.from <= hi.from => c.to <= hi.to
  <2>. SUFFICES ASSUME NEW c \in bs, c.from <= hi.from PROVE c.to <= hi.to
    OBVIOUS
  <2>1. c.from \in Int /\ c.to \in Int
    BY <1>3
  <2>2. CASE c.from = hi.from
    <3>1. c = hi
      BY <1>7, <2>2, InOrder
    <3>. QED  BY <1>7, <3>1
  <2>3. CASE c.from < hi.from
    <3>1. c.to < hi.from
      BY <1>7, <2>3, InOrder
    <3>. QED  BY <1>7, <2>1, <3>1
  <2>. QED  BY <1>7, <2>1, <2>2, <2>3
<1>9. Joined(first, hi) \in Blocks /\ RangeOf(Joined(first, hi)) = first.from .. hi.to
  <2>1. first.from <= hi.to /\ first \in Blocks /\ hi \in Blocks
    BY <1>1, <1>3, <1>7
  <2>. QED  BY <2>1, JoinedIs
<1>10. ASSUME NEW s \in Held(taken) PROVE s \in first.from .. hi.to
  <2>1. PICK b \in taken : s \in RangeOf(b)
    BY DEF Held
  <2>2. b \in bs /\ first.from <= b.from /\ b.to <= hi.to
    BY <1>1, <1>5, <1>6, <1>8, <2>1
  <2>3. b.from \in Int /\ b.to \in Int /\ s \in b.from .. b.to
    BY <1>3, <2>1, <2>2
  <2>. QED  BY <1>7, <2>2, <2>3
<1>11. ASSUME NEW s \in first.from .. hi.to PROVE s \in Held(taken)
  <2>1. PICK c \in bs : s \in RangeOf(c) /\ c.kind = first.kind
    BY <1>2, <1>6
  <2>2. c.from \in Int /\ c.to \in Int /\ c.from <= s /\ s <= c.to /\ s <= hi.to /\ s \in Int
    BY <1>3, <1>7, <2>1
  <2>3. c.from <= hi.from
    <3>1. CASE hi.from < c.from
      <4>1. hi.to < c.from
        BY <1>7, <3>1, InOrder
      <4>. QED  BY <1>7, <2>2, <4>1
    <3>. QED  BY <1>7, <2>2, <3>1
  <2>4. c.to <= hi.to
    BY <1>8, <2>3
  <2>5. c.from - first.from <= size
    <3>1. hi.from - first.from <= size
      BY <1>2, <1>6
    <3>. QED  BY <1>7, <2>2, <2>3, <3>1
  <2>6. \A r \in first.from .. c.to : r \in first.from .. hi.to
    BY <1>7, <2>2, <2>4
  <2>7. \A r \in first.from .. c.to : \E x \in bs : r \in RangeOf(x) /\ x.kind = first.kind
    BY <1>2, <1>6, <2>6
  <2>8. c \in taken
    BY <1>2, <2>5, <2>7
  <2>. QED  BY <2>1, <2>8 DEF Held
<1>. QED  BY <1>5, <1>9, <1>10, <1>11 DEF hi

-----------------------------------------------------------------------------
(* The inductive invariant *)

MapExact == expired.map \cup lost = {}

MapOK == map \in [blocks : SUBSET Blocks, total : Nat] /\ Holds(Work(map), InMap, MapExact)

DequeExact == expired.deque = {}

DequeOK == HoldsD(deque, InDeque, DequeExact)

\* Each sequence is in exactly one of these sets.
Placed(a, b, c, d, e, f, g) ==
  /\ a \cup b \cup c \cup d \cup e \cup f \cup g = Seqs
  /\ a \cap (b \cup c \cup d \cup e \cup f \cup g) = {} /\ b \cap (c \cup d \cup e \cup f \cup g) = {}
  /\ c \cap (d \cup e \cup f \cup g) = {} /\ d \cap (e \cup f \cup g) = {} /\ e \cap (f \cup g) = {} /\ f \cap g = {}

PlacesOK ==
  /\ expired \in [map : SUBSET Seqs, deque : SUBSET Seqs]
  /\ Placed(fresh, InMap, InDeque, given, expired.map, expired.deque, lost)

Inv == MapOK /\ DequeOK /\ PlacesOK /\ (DequeExact => broken # "overrun")

LEMMA InvInit == Init => Inv
<1>. SUFFICES ASSUME Init PROVE Inv
  OBVIOUS
<1>1. /\ map = [blocks |-> {}, total |-> 0] /\ deque = [blocks |-> <<>>, total |-> 0]
      /\ fresh = Seqs /\ given = {} /\ expired = [map |-> {}, deque |-> {}] /\ lost = {} /\ broken = "no"
  BY DEF Init
<1>2. Held({}) = {} /\ Cardinality({}) = 0
  BY FS_EmptySet DEF Held
<1>3. InMap = {} /\ map.blocks = {} /\ map.total = 0 /\ map \in [blocks : SUBSET Blocks, total : Nat]
  BY <1>1, <1>2 DEF InMap
<1>4. MapOK
  <2>1. Work(map) \in WorkRecords /\ Work(map).blocks = {} /\ Work(map).total = 0 /\ Work(map).lost = {}
    BY <1>3, WorkIs
  <2>2. Apart({})
    BY DEF Apart
  <2>. QED  BY <1>2, <1>3, <2>1, <2>2 DEF MapOK, Holds
<1>5. InDeque = {}
  <2>1. Range(<<>>) = {}
    BY DEF Range
  <2>. QED  BY <1>1, <1>2, <2>1 DEF InDeque
<1>6. DequeOK
  <2>1. <<>> \in Seq(Blocks) /\ Len(<<>>) = 0
    BY EmptySeq
  <2>2. deque \in DequeRecords /\ deque.blocks = <<>> /\ deque.total = 0
    BY <1>1, <2>1 DEF DequeRecords
  <2>. QED  BY <1>2, <1>5, <2>1, <2>2 DEF DequeOK, HoldsD
<1>7. PlacesOK
  BY <1>1, <1>3, <1>5 DEF PlacesOK, Placed
<1>. QED  BY <1>1, <1>4, <1>6, <1>7 DEF Inv

LEMMA InvIs ==
  ASSUME Inv
  PROVE  /\ map.blocks \in SUBSET Blocks /\ map.total \in Nat /\ Apart(map.blocks) /\ InMap = Held(map.blocks)
         /\ Work(map).blocks = map.blocks /\ Work(map).total = map.total /\ Work(map).lost = {}
         /\ Work(map) \in WorkRecords /\ Holds(Work(map), InMap, MapExact)
         /\ HoldsD(deque, InDeque, DequeExact) /\ deque \in DequeRecords
         /\ expired.map \in SUBSET Seqs /\ expired.deque \in SUBSET Seqs
         /\ Placed(fresh, InMap, InDeque, given, expired.map, expired.deque, lost)
         /\ fresh \in SUBSET Seqs /\ given \in SUBSET Seqs /\ lost \in SUBSET Seqs
         /\ InMap \in SUBSET Seqs /\ InDeque \in SUBSET Seqs
<1>1. map \in [blocks : SUBSET Blocks, total : Nat] /\ Holds(Work(map), InMap, MapExact)
  BY DEF Inv, MapOK
<1>2. Work(map) \in WorkRecords /\ Work(map).blocks = map.blocks /\ Work(map).total = map.total /\ Work(map).lost = {}
  BY <1>1, WorkIs
<1>3. Apart(map.blocks) /\ InMap = Held(map.blocks)
  BY <1>1, <1>2 DEF Holds, InMap
<1>4. HoldsD(deque, InDeque, DequeExact) /\ deque \in DequeRecords
  BY DEF Inv, DequeOK, HoldsD
<1>5. expired.map \in SUBSET Seqs /\ expired.deque \in SUBSET Seqs
  BY DEF Inv, PlacesOK
<1>6. Placed(fresh, InMap, InDeque, given, expired.map, expired.deque, lost)
  BY DEF Inv, PlacesOK
<1>7. fresh \in SUBSET Seqs /\ given \in SUBSET Seqs /\ lost \in SUBSET Seqs /\ InMap \in SUBSET Seqs /\ InDeque \in SUBSET Seqs
  BY <1>6 DEF Placed
<1>. QED  BY <1>1, <1>2, <1>3, <1>4, <1>5, <1>6, <1>7

-----------------------------------------------------------------------------
(* What a step does to the map, to the deque, and to where the messages are *)

LEMMA KeepHolds ==
  ASSUME NEW w, NEW S, NEW e, Holds(w, S, e), Keep(w), MapExact' => e
  PROVE  /\ MapOK' /\ lost' = lost \cup w.lost /\ InMap' = Held(w.blocks)
         /\ InMap' \cap w.lost = {} /\ InMap' \cup w.lost = S
<1>1. /\ w \in WorkRecords /\ Apart(w.blocks) /\ w.blocks \in SUBSET Blocks /\ w.total \in Nat
      /\ Held(w.blocks) \cap w.lost = {} /\ Held(w.blocks) \cup w.lost = S
      /\ Cardinality(Held(w.blocks)) <= w.total
      /\ e /\ w.lost = {} => w.total = Cardinality(Held(w.blocks))
  BY DEF Holds, WorkRecords
<1>2. map' = [blocks |-> w.blocks, total |-> w.total] /\ lost' = lost \cup w.lost
  BY DEF Keep
<1>3. /\ map' \in [blocks : SUBSET Blocks, total : Nat] /\ map'.blocks = w.blocks /\ map'.total = w.total
  BY <1>1, <1>2
<1>4. InMap' = Held(w.blocks)
  BY <1>3 DEF InMap
<1>5. MapExact' => e /\ w.lost = {}
  BY <1>2 DEF MapExact
<1>6. Holds(Work(map'), InMap', MapExact')
  <2>1. Work(map') \in WorkRecords /\ Work(map').blocks = w.blocks /\ Work(map').total = w.total /\ Work(map').lost = {}
    BY <1>3, WorkIs
  <2>. QED  BY <1>1, <1>4, <1>5, <2>1 DEF Holds
<1>. QED  BY <1>1, <1>2, <1>3, <1>4, <1>6 DEF MapOK

\* A step on the map alone.
LEMMA MapStep ==
  ASSUME Inv, NEW w, NEW S, Holds(w, S, MapExact), Keep(w), deque' = deque, expired' = expired,
         broken' # "overrun" \/ broken' = broken,
         Placed(fresh', S, InDeque, given', expired.map, expired.deque, lost)
  PROVE  Inv'
<1>1. MapExact' => MapExact
  BY DEF Keep, MapExact
<1>2. MapOK' /\ lost' = lost \cup w.lost /\ InMap' \cap w.lost = {} /\ InMap' \cup w.lost = S
  BY <1>1, KeepHolds
<1>3. InDeque' = InDeque /\ DequeExact' = DequeExact
  BY DEF InDeque, DequeExact
<1>4. DequeOK'
  BY <1>3 DEF Inv, DequeOK
<1>5. Placed(fresh', InMap', InDeque', given', expired'.map, expired'.deque, lost')
  <2> DEFINE a == fresh'
             b == InMap'
             c == InDeque
             d == given'
             x == expired.map
             y == expired.deque
             z == lost
             l == w.lost
  <2>1. Placed(a, b \cup l, c, d, x, y, z) /\ b \cap l = {}
    BY <1>2
  <2>. HIDE DEF a, b, c, d, x, y, z, l
  <2>2. Placed(a, b, c, d, x, y, z \cup l)
    BY <2>1 DEF Placed
  <2>. QED  BY <1>2, <1>3, <2>2 DEF a, b, c, d, x, y, z, l
<1>6. expired' \in [map : SUBSET Seqs, deque : SUBSET Seqs]
  BY DEF Inv, PlacesOK
<1>7. DequeExact' => broken' # "overrun"
  BY <1>3 DEF Inv
<1>. QED  BY <1>2, <1>4, <1>5, <1>6, <1>7 DEF Inv, PlacesOK

\* A step on the deque alone.
LEMMA DequeStep ==
  ASSUME Inv, NEW S, HoldsD(deque', S, DequeExact), map' = map, expired' = expired, lost' = lost, broken' = broken,
         Placed(fresh', InMap, S, given', expired.map, expired.deque, lost)
  PROVE  Inv'
<1>1. InDeque' = S
  <2>1. Held(Range(deque'.blocks)) = S
    BY DequeIs
  <2>. QED  BY <2>1 DEF InDeque
<1>2. DequeExact' = DequeExact /\ InMap' = InMap /\ MapExact' = MapExact
  BY DEF DequeExact, InMap, MapExact
<1>3. DequeOK'
  BY <1>1, <1>2 DEF DequeOK
<1>4. MapOK'
  BY <1>2 DEF Inv, MapOK
<1>5. PlacesOK'
  BY <1>1, <1>2 DEF Inv, PlacesOK
<1>. QED  BY <1>2, <1>3, <1>4, <1>5 DEF Inv

LEMMA SourceIs ==
  ASSUME Inv, NEW b \in Blocks, Source(b)
  PROVE  /\ RangeOf(b) \cap InMap = {} /\ RangeOf(b) \cap InDeque = {}
         /\ Placed(fresh', InMap \cup RangeOf(b), InDeque, given', expired.map, expired.deque, lost)
         /\ Placed(fresh', InMap, InDeque \cup RangeOf(b), given', expired.map, expired.deque, lost)
<1>1. Placed(fresh, InMap, InDeque, given, expired.map, expired.deque, lost)
  BY InvIs
<1> DEFINE R == RangeOf(b)
           x == expired.map
           y == expired.deque
<1>2. \/ R \subseteq fresh /\ fresh' = fresh \ R /\ given' = given
      \/ R \subseteq given /\ given' = given \ R /\ fresh' = fresh
  BY DEF Source
<1>. HIDE DEF R, x, y
<1>3. Placed(fresh, InMap, InDeque, given, x, y, lost)
  BY <1>1 DEF x, y
<1>4. /\ R \cap InMap = {} /\ R \cap InDeque = {}
      /\ Placed(fresh', InMap \cup R, InDeque, given', x, y, lost)
      /\ Placed(fresh', InMap, InDeque \cup R, given', x, y, lost)
  <2>1. CASE R \subseteq fresh /\ fresh' = fresh \ R /\ given' = given
    BY <1>3, <2>1 DEF Placed
  <2>2. CASE R \subseteq given /\ given' = given \ R /\ fresh' = fresh
    BY <1>3, <2>2 DEF Placed
  <2>. QED  BY <1>2, <2>1, <2>2
<1>. QED  BY <1>4 DEF R, x, y

\* A consumer takes R from the map.
LEMMA GivenFromMap ==
  ASSUME Inv, NEW R, R \subseteq InMap, fresh' = fresh, given' = given \cup R
  PROVE  Placed(fresh', InMap \ R, InDeque, given', expired.map, expired.deque, lost)
<1> DEFINE x == expired.map
           y == expired.deque
<1>1. Placed(fresh, InMap, InDeque, given, x, y, lost)
  BY InvIs
<1>. HIDE DEF x, y
<1>2. Placed(fresh', InMap \ R, InDeque, given', x, y, lost)
  BY <1>1 DEF Placed
<1>. QED  BY <1>2 DEF x, y

LEMMA GivenFromDeque ==
  ASSUME Inv, NEW R, R \subseteq InDeque, fresh' = fresh, given' = given \cup R
  PROVE  Placed(fresh', InMap, InDeque \ R, given', expired.map, expired.deque, lost)
<1> DEFINE x == expired.map
           y == expired.deque
<1>1. Placed(fresh, InMap, InDeque, given, x, y, lost)
  BY InvIs
<1>. HIDE DEF x, y
<1>2. Placed(fresh', InMap, InDeque \ R, given', x, y, lost)
  BY <1>1 DEF Placed
<1>. QED  BY <1>2 DEF x, y

-----------------------------------------------------------------------------
(* Every step keeps the invariant *)

LEMMA InsertInv ==
  ASSUME Inv, NEW b \in Blocks, NEW stray \in Blocks, Insert(b, stray) \/ PushBackMap(b, stray)
  PROVE  Inv'
<1>1. Source(b) /\ UNCHANGED <<deque, expired, broken>>
  BY DEF Insert, PushBackMap
<1>2. /\ RangeOf(b) \cap InMap = {}
      /\ Placed(fresh', InMap \cup RangeOf(b), InDeque, given', expired.map, expired.deque, lost)
  BY <1>1, SourceIs
<1>3. Holds(Work(map), InMap, MapExact)
  BY InvIs
<1>4. CASE Insert(b, stray)
  <2> DEFINE w == insert(Work(map), b, stray)
  <2>1. Keep(w)
    BY <1>4 DEF Insert
  <2>2. Holds(w, InMap \cup RangeOf(b), MapExact)
    BY <1>2, <1>3, InsertHolds
  <2>. HIDE DEF w
  <2>. QED  BY <1>1, <1>2, <2>1, <2>2, MapStep
<1>5. CASE PushBackMap(b, stray)
  <2> DEFINE w == pushBackMap(Work(map), b, stray)
  <2>1. Keep(w)
    BY <1>5 DEF PushBackMap
  <2>2. Holds(w, InMap \cup RangeOf(b), MapExact)
    BY <1>2, <1>3, PushBackMapHolds
  <2>. HIDE DEF w
  <2>. QED  BY <1>1, <1>2, <2>1, <2>2, MapStep
<1>. QED  BY <1>4, <1>5

LEMMA PushBackDequeInv ==
  ASSUME Inv, NEW b \in Blocks, PushBackDeque(b)
  PROVE  Inv'
<1>1. Source(b) /\ UNCHANGED <<map, expired, lost, broken>> /\ deque' = pushBackDeque(deque, b)
  BY DEF PushBackDeque
<1>2. /\ RangeOf(b) \cap InDeque = {}
      /\ Placed(fresh', InMap, InDeque \cup RangeOf(b), given', expired.map, expired.deque, lost)
  BY <1>1, SourceIs
<1>3. HoldsD(deque, InDeque, DequeExact)
  BY InvIs
<1>4. HoldsD(deque', InDeque \cup RangeOf(b), DequeExact)
  BY <1>1, <1>2, <1>3, PushBackDequeHolds
<1>. QED  BY <1>1, <1>2, <1>4, DequeStep

LEMMA GetFirstMapInv == ASSUME Inv, getFirstMap PROVE Inv'
<1> DEFINE b == Lowest(map.blocks)
           v == [blocks |-> map.blocks \ {b}, total |-> Subtract(map.total, messageCnt(b))]
<1>1. /\ map.blocks # {} /\ map' = v /\ given' = given \cup RangeOf(b)
      /\ UNCHANGED <<deque, fresh, expired, lost, broken>>
  BY DEF getFirstMap
<1>2. /\ map.blocks \in SUBSET Blocks /\ map.total \in Nat /\ InMap = Held(map.blocks)
      /\ Holds(Work(map), InMap, MapExact) /\ Work(map).blocks = map.blocks /\ Work(map).total = map.total
      /\ Work(map).lost = {}
  BY InvIs
<1>3. b \in map.blocks /\ b \in Blocks
  BY <1>1, <1>2, LowestIs
<1>. HIDE DEF b
<1>4. RangeOf(b) \subseteq InMap /\ Held({b}) = RangeOf(b) /\ {b} \in SUBSET Work(map).blocks
  BY <1>2, <1>3, HeldOne DEF Held
<1>5. v \in [blocks : SUBSET Blocks, total : Nat]
  <2>1. Subtract(map.total, messageCnt(b)) \in Nat
    BY <1>2, <1>3, BlockIs DEF Subtract
  <2>. QED  BY <1>2, <2>1
<1>6. v.blocks = map.blocks \ {b} /\ v.total = Subtract(map.total, messageCnt(b))
  OBVIOUS
<1>. HIDE DEF v
<1>7. Holds(Work(v), InMap \ RangeOf(b), MapExact)
  <2>1. /\ Work(v) \in WorkRecords /\ Work(v).blocks = Work(map).blocks \ {b} /\ Work(v).lost = Work(map).lost
        /\ Work(v).total = Subtract(Work(map).total, messageCnt(b))
    BY <1>2, <1>5, <1>6, WorkIs
  <2>2. Work(v).total = Subtract(Work(map).total, Cardinality(Held({b})))
    BY <1>3, <1>4, <2>1, BlockIs
  <2>3. Holds(Work(v), InMap \ Held({b}), MapExact)
    BY <1>2, <1>4, <2>1, <2>2, GoesOut
  <2>. QED  BY <1>4, <2>3
<1>8. Keep(Work(v))
  <2>1. Work(v).blocks = v.blocks /\ Work(v).total = v.total /\ Work(v).lost = {}
    BY <1>5, WorkIs
  <2>2. v = [blocks |-> v.blocks, total |-> v.total]
    BY DEF v
  <2>. QED  BY <1>1, <2>1, <2>2 DEF Keep
<1>9. Placed(fresh', InMap \ RangeOf(b), InDeque, given', expired.map, expired.deque, lost)
  BY <1>1, <1>4, GivenFromMap
<1>. QED  BY <1>1, <1>7, <1>8, <1>9, MapStep

\* The first n messages of the deque are given.
LEMMA FromDequeInv ==
  ASSUME Inv, deque.blocks # <<>>, NEW n \in 1 .. messageCnt(Head(deque.blocks)),
         deque' = Without(deque, n), given' = given \cup RangeOf(First(Head(deque.blocks), n)),
         UNCHANGED <<map, fresh, expired, lost, broken>>
  PROVE  Inv'
<1> DEFINE R == RangeOf(First(Head(deque.blocks), n))
<1>1. HoldsD(deque, InDeque, DequeExact)
  BY InvIs
<1>2. R \subseteq InDeque /\ HoldsD(deque', InDeque \ R, DequeExact)
  BY <1>1, WithoutHolds
<1>3. given' = given \cup R
  OBVIOUS
<1>. HIDE DEF R
<1>4. Placed(fresh', InMap, InDeque \ R, given', expired.map, expired.deque, lost)
  BY <1>2, <1>3, GivenFromDeque
<1>. QED  BY <1>2, <1>4, DequeStep

LEMMA HeadIs ==
  ASSUME Inv, deque.blocks # <<>>
  PROVE  Head(deque.blocks) \in Blocks
<1>1. deque.blocks \in Seq(Blocks)
  BY InvIs, DequeIs
<1>2. Head(deque.blocks) = deque.blocks[1] /\ Len(deque.blocks) # 0 /\ Len(deque.blocks) \in Nat
  BY <1>1, EmptySeq
<1>3. 1 \in 1 .. Len(deque.blocks)
  BY <1>2
<1>. QED  BY <1>1, <1>2, <1>3, ElementOfSeq

LEMMA GetFirstDequeInv == ASSUME Inv, getFirstDeque PROVE Inv'
<1> DEFINE b == Head(deque.blocks)
           n == messageCnt(b)
<1>1. /\ deque.blocks # <<>> /\ deque' = Without(deque, n) /\ given' = given \cup RangeOf(b)
      /\ UNCHANGED <<map, fresh, expired, lost, broken>>
  BY DEF getFirstDeque
<1>2. b \in Blocks
  BY <1>1, HeadIs
<1>3. n \in 1 .. n
  <2>. HIDE DEF b
  <2>1. n \in Nat /\ n >= 1
    BY <1>2, BlockIs
  <2>. HIDE DEF n
  <2>. QED  BY <2>1
<1>4. RangeOf(First(b, n)) = RangeOf(b)
  BY <1>2, <1>3, HalvesAre
<1>. QED  BY <1>1, <1>3, <1>4, FromDequeInv

LEMMA GetFirstNDequeInv == ASSUME Inv, NEW size \in Seqs, getFirstNDeque(size) PROVE Inv'
<1> DEFINE b == Head(deque.blocks)
           n == Min({size, messageCnt(b)})
<1>1. /\ deque.blocks # <<>> /\ deque' = Without(deque, n) /\ given' = given \cup RangeOf(First(b, n))
      /\ UNCHANGED <<map, fresh, expired, lost, broken>>
  BY DEF getFirstNDeque
<1>2. b \in Blocks
  BY <1>1, HeadIs
<1>3. n \in 1 .. messageCnt(b)
  <2>. HIDE DEF b
  <2>1. messageCnt(b) \in Nat /\ messageCnt(b) >= 1 /\ size \in Int /\ size >= 1
    BY <1>2, BlockIs, SeqsAre
  <2>2. n = IF size <= messageCnt(b) THEN size ELSE messageCnt(b)
    BY <2>1, MinOfPair
  <2>. HIDE DEF n
  <2>. QED  BY <2>1, <2>2
<1>. QED  BY <1>1, <1>3, FromDequeInv

LEMMA GetFirstNMapInv ==
  ASSUME Inv, NEW size \in Seqs, NEW stray \in Blocks, getFirstNMap(size, stray)
  PROVE  Inv'
<1> DEFINE bs == map.blocks
           first == Lowest(bs)
           taken == FollowUp(first, size)
           be == Joined(first, Highest(taken))
           w == [Work(map) EXCEPT !.blocks = @ \ taken, !.total = Subtract(@, messageCnt(be))]
           v == insert(w, Others(be, size), stray)
<1>1. /\ bs # {} /\ UNCHANGED <<deque, fresh, expired, broken>>
      /\ IF messageCnt(be) > size
         THEN Keep(v) /\ given' = given \cup RangeOf(First(be, size))
         ELSE Keep(w) /\ given' = given \cup RangeOf(be)
  BY DEF getFirstNMap
<1>2. /\ bs \in SUBSET Blocks /\ Apart(bs) /\ InMap = Held(bs) /\ Holds(Work(map), InMap, MapExact)
      /\ Work(map).blocks = bs /\ Work(map) \in WorkRecords
  BY InvIs
<1>3. size \in Nat /\ size >= 1
  BY SeqsAre
<1>4. taken \in SUBSET bs /\ be \in Blocks /\ RangeOf(be) = Held(taken)
  BY <1>1, <1>2, <1>3, FollowUpIs
<1>5. Keep(v) \/ Keep(w)
  BY <1>1
<1>. HIDE DEF first, taken, be
<1>6. Cardinality(Held(taken)) = messageCnt(be) /\ messageCnt(be) \in Nat
  BY <1>4, BlockIs
<1>7. RangeOf(be) \subseteq InMap
  BY <1>2, <1>4 DEF Held
<1>8. Holds(w, InMap \ RangeOf(be), MapExact)
  <2>1. w.blocks = Work(map).blocks \ taken /\ w.lost = Work(map).lost /\ w.total = Subtract(Work(map).total, messageCnt(be))
    BY <1>2 DEF WorkRecords
  <2>2. w \in WorkRecords
    <3>1. Subtract(Work(map).total, messageCnt(be)) \in Nat
      <4>1. Work(map).total \in Nat
        BY <1>2 DEF WorkRecords
      <4>. QED  BY <1>6, <4>1 DEF Subtract
    <3>. QED  BY <1>2, <3>1 DEF WorkRecords
  <2>. HIDE DEF w
  <2>3. taken \in SUBSET Work(map).blocks /\ w.total = Subtract(Work(map).total, Cardinality(Held(taken)))
    BY <1>2, <1>4, <1>6, <2>1
  <2>4. Holds(w, InMap \ Held(taken), MapExact)
    BY <1>2, <2>1, <2>2, <2>3, GoesOut
  <2>. QED  BY <1>4, <2>4
<1>. HIDE DEF w
<1>9. CASE messageCnt(be) > size
  <2> DEFINE f == First(be, size)
             o == Others(be, size)
  <2>1. Keep(v) /\ given' = given \cup RangeOf(f)
    BY <1>1, <1>9
  <2>2. /\ RangeOf(f) \subseteq RangeOf(be) /\ o \in Blocks /\ RangeOf(o) = RangeOf(be) \ RangeOf(f)
    <3>1. size \in 1 .. messageCnt(be) /\ size # messageCnt(be)
      BY <1>3, <1>6, <1>9
    <3>. QED  BY <1>4, <3>1, HalvesAre
  <2>3. Holds(v, (InMap \ RangeOf(be)) \cup RangeOf(o), MapExact)
    <3>1. RangeOf(o) \cap (InMap \ RangeOf(be)) = {}
      BY <2>2
    <3>. HIDE DEF o
    <3>. QED  BY <1>8, <2>2, <3>1, InsertHolds DEF o
  <2>. HIDE DEF v, f, o
  <2>4. (InMap \ RangeOf(be)) \cup RangeOf(o) = InMap \ RangeOf(f) /\ RangeOf(f) \subseteq InMap
    BY <1>7, <2>2
  <2>5. Placed(fresh', InMap \ RangeOf(f), InDeque, given', expired.map, expired.deque, lost)
    BY <1>1, <2>1, <2>4, GivenFromMap
  <2>6. Holds(v, InMap \ RangeOf(f), MapExact)
    BY <2>3, <2>4
  <2>. QED  BY <1>1, <2>1, <2>5, <2>6, MapStep
<1>10. CASE ~(messageCnt(be) > size)
  <2>1. Keep(w) /\ given' = given \cup RangeOf(be)
    BY <1>1, <1>10
  <2>2. Placed(fresh', InMap \ RangeOf(be), InDeque, given', expired.map, expired.deque, lost)
    BY <1>1, <1>7, <2>1, GivenFromMap
  <2>. QED  BY <1>1, <1>8, <2>1, <2>2, MapStep
<1>. QED  BY <1>9, <1>10

LEMMA BothAre ==
  ASSUME Inv
  PROVE  MapIn(Work(map), deque, InMap \cup InDeque, MapExact, DequeExact)
<1>1. Holds(Work(map), InMap, MapExact) /\ HoldsD(deque, InDeque, DequeExact)
  BY InvIs
<1>2. InMap \cap InDeque = {}
  <2>1. Placed(fresh, InMap, InDeque, given, expired.map, expired.deque, lost)
    BY InvIs
  <2>. QED  BY <2>1 DEF Placed
<1>. QED  BY <1>1, <1>2 DEF MapIn

\* Messages change between the map and the deque, and some are lost.
LEMMA Shifted ==
  ASSUME Inv, NEW A, NEW B, A \cap B = {}, A \cup B = InMap \cup InDeque,
         NEW C, NEW L, C \cup L = A, C \cap L = {}, fresh' = fresh, given' = given
  PROVE  Placed(fresh', C, B, given', expired.map, expired.deque, lost \cup L)
<1> DEFINE x == expired.map
           y == expired.deque
<1>1. Placed(fresh, InMap, InDeque, given, x, y, lost)
  BY InvIs
<1>. HIDE DEF x, y
<1>2. Placed(fresh, A, B, given, x, y, lost)
  BY <1>1 DEF Placed
<1>3. Placed(fresh, C, B, given, x, y, lost \cup L)
  BY <1>2 DEF Placed
<1>. QED  BY <1>3 DEF x, y

LEMMA SplitMapInv == ASSUME Inv, NEW count \in Seqs, splitMap(count) PROVE Inv'
<1>1. fresh' = fresh /\ given' = given /\ expired' = expired /\ lost' = lost /\ broken' = broken
  BY DEF splitMap
<1>2. count \in Nat /\ map \in [blocks : SUBSET Blocks, total : Nat] /\ deque \in DequeRecords
  BY SeqsAre, InvIs DEF Inv, MapOK
<1>3. /\ MapIn(Work(map'), deque', InMap \cup InDeque, MapExact, DequeExact)
      /\ map' \in [blocks : SUBSET Blocks, total : Nat]
  BY <1>2, BothAre, SplitMapHolds
<1>4. PICK A, B : /\ Holds(Work(map'), A, MapExact) /\ HoldsD(deque', B, DequeExact)
                  /\ A \cap B = {} /\ A \cup B = InMap \cup InDeque
  BY <1>3 DEF MapIn
<1>5. InMap' = A
  <2>1. Work(map').blocks = map'.blocks /\ Work(map').lost = {}
    BY <1>3, WorkIs
  <2>. QED  BY <1>4, <2>1 DEF Holds, InMap
<1>6. InDeque' = B
  <2>1. Held(Range(deque'.blocks)) = B
    BY <1>4, DequeIs
  <2>. QED  BY <2>1 DEF InDeque
<1>7. MapExact' = MapExact /\ DequeExact' = DequeExact
  BY <1>1 DEF MapExact, DequeExact
<1>8. Placed(fresh', InMap', InDeque', given', expired'.map, expired'.deque, lost')
  <2>1. Placed(fresh', A, B, given', expired.map, expired.deque, lost \cup {})
    BY <1>1, <1>4, Shifted
  <2>2. lost \cup {} = lost
    OBVIOUS
  <2>. QED  BY <1>1, <1>5, <1>6, <2>1, <2>2
<1>9. MapOK' /\ DequeOK'
  BY <1>3, <1>4, <1>5, <1>6, <1>7 DEF MapOK, DequeOK
<1>. QED  BY <1>1, <1>7, <1>8, <1>9 DEF Inv, PlacesOK

LEMMA SplitDequeInv == ASSUME Inv, NEW count \in Seqs, NEW stray \in Blocks, splitDeque(count, stray) PROVE Inv'
<1>1. fresh' = fresh /\ given' = given /\ expired' = expired
  BY DEF splitDeque
<1>2. count \in Nat /\ Work(map) \in WorkRecords /\ deque \in DequeRecords
  BY SeqsAre, InvIs
<1>3. PICK x \in SplitRecords : /\ MapIn(x.w, x.deque, InMap \cup InDeque, MapExact, DequeExact)
                                /\ Keep(x.w) /\ deque' = x.deque
                                /\ broken' = IF x.count > 0 THEN "overrun" ELSE "no"
                                /\ DequeExact => x.count = 0
  BY <1>2, BothAre, SplitDequeHolds
<1>4. PICK A, B : /\ Holds(x.w, A, MapExact) /\ HoldsD(deque', B, DequeExact)
                  /\ A \cap B = {} /\ A \cup B = InMap \cup InDeque
  BY <1>3 DEF MapIn
<1>5. DequeExact' = DequeExact /\ (MapExact' => MapExact)
  BY <1>1, <1>3 DEF MapExact, DequeExact, Keep
<1>6. MapOK' /\ lost' = lost \cup x.w.lost /\ InMap' \cap x.w.lost = {} /\ InMap' \cup x.w.lost = A
  BY <1>3, <1>4, <1>5, KeepHolds
<1>7. InDeque' = B
  <2>1. Held(Range(deque'.blocks)) = B
    BY <1>4, DequeIs
  <2>. QED  BY <2>1 DEF InDeque
<1>8. Placed(fresh', InMap', InDeque', given', expired'.map, expired'.deque, lost')
  <2> DEFINE C == InMap'
             L == x.w.lost
  <2>1. C \cup L = A /\ C \cap L = {}
    BY <1>6
  <2>. HIDE DEF C, L
  <2>2. Placed(fresh', C, B, given', expired.map, expired.deque, lost \cup L)
    BY <1>1, <1>4, <2>1, Shifted
  <2>. QED  BY <1>1, <1>6, <1>7, <2>2 DEF C, L
<1>9. DequeOK'
  BY <1>4, <1>5, <1>7 DEF DequeOK
<1>10. DequeExact' => broken' # "overrun"
  BY <1>3, <1>5
<1>11. expired' \in [map : SUBSET Seqs, deque : SUBSET Seqs]
  BY <1>1 DEF Inv, PlacesOK
<1>. QED  BY <1>6, <1>8, <1>9, <1>10, <1>11 DEF Inv, PlacesOK

\* Blocks that expire leave the map; that they are no longer counted is not asked for.
LEMMA RemoveExpiredMapInv == ASSUME Inv, NEW bs \in SUBSET map.blocks, removeExpiredMap(bs) PROVE Inv'
<1> DEFINE R == Held(bs)
<1>1. /\ bs # {} /\ map' = [map EXCEPT !.blocks = @ \ bs] /\ expired' = [expired EXCEPT !.map = @ \cup R]
      /\ UNCHANGED <<deque, fresh, given, lost, broken>>
  BY DEF removeExpiredMap
<1>2. /\ map \in [blocks : SUBSET Blocks, total : Nat] /\ map.blocks \in SUBSET Blocks /\ map.total \in Nat
      /\ Apart(map.blocks) /\ InMap = Held(map.blocks) /\ InMap \in SUBSET Seqs
      /\ Work(map).blocks = map.blocks /\ Work(map).total = map.total /\ Holds(Work(map), InMap, MapExact)
  BY InvIs DEF Inv, MapOK
<1>3. map' \in [blocks : SUBSET Blocks, total : Nat] /\ map'.blocks = map.blocks \ bs /\ map'.total = map.total
  BY <1>1, <1>2
<1>4. /\ map'.blocks \in SUBSET Blocks /\ Apart(map'.blocks) /\ InMap' = Held(map'.blocks)
      /\ InMap' = InMap \ R /\ R \subseteq InMap
  <2>1. /\ map.blocks \ bs \in SUBSET Blocks /\ Apart(map.blocks \ bs)
        /\ Held(map.blocks \ bs) = Held(map.blocks) \ Held(bs) /\ Held(bs) \subseteq Held(map.blocks)
    BY <1>2, Removed
  <2>2. InMap' = Held(map'.blocks)
    BY DEF InMap
  <2>. QED  BY <1>2, <1>3, <2>1, <2>2
<1>5. R # {}
  <2>1. PICK b \in bs : TRUE
    BY <1>1
  <2>2. b \in Blocks /\ b \in bs
    BY <1>2, <2>1
  <2>3. RangeOf(b) # {}
    BY <2>2, BlockIs
  <2>. QED  BY <2>2, <2>3 DEF Held
<1>6. expired' \in [map : SUBSET Seqs, deque : SUBSET Seqs] /\ expired'.map = expired.map \cup R /\ expired'.deque = expired.deque
  <2>1. expired \in [map : SUBSET Seqs, deque : SUBSET Seqs] /\ R \in SUBSET Seqs
    BY <1>2, <1>4 DEF Inv, PlacesOK
  <2>. HIDE DEF R
  <2>. QED  BY <1>1, <2>1
<1>7. ~MapExact' /\ DequeExact' = DequeExact
  BY <1>5, <1>6 DEF MapExact, DequeExact
<1>8. Cardinality(InMap') <= map'.total
  <2>1. Cardinality(InMap) <= map.total
    BY <1>2 DEF Holds
  <2>2. Cardinality(InMap') = Cardinality(InMap) - Cardinality(R) /\ Cardinality(R) \in Nat /\ Cardinality(InMap) \in Nat
    <3>1. R \in SUBSET Seqs /\ InMap \in SUBSET Seqs
      BY <1>2, <1>4
    <3>. HIDE DEF R
    <3>. QED  BY <1>4, <3>1, Count
  <2>. QED  BY <1>2, <1>3, <2>1, <2>2
<1>9. MapOK'
  <2>1. Work(map') \in WorkRecords /\ Work(map').blocks = map'.blocks /\ Work(map').total = map'.total /\ Work(map').lost = {}
    BY <1>3, WorkIs
  <2>. QED  BY <1>3, <1>4, <1>7, <1>8, <2>1 DEF MapOK, Holds
<1>10. InDeque' = InDeque
  BY <1>1 DEF InDeque
<1>11. DequeOK'
  BY <1>1, <1>7, <1>10 DEF Inv, DequeOK
<1>12. Placed(fresh', InMap', InDeque', given', expired'.map, expired'.deque, lost')
  <2> DEFINE x == expired.map
             y == expired.deque
  <2>1. Placed(fresh, InMap, InDeque, given, x, y, lost)
    BY InvIs
  <2>. HIDE DEF x, y, R
  <2>2. Placed(fresh, InMap \ R, InDeque, given, x \cup R, y, lost)
    BY <1>4, <2>1 DEF Placed
  <2>. QED  BY <1>1, <1>4, <1>6, <1>10, <2>2 DEF x, y
<1>. QED  BY <1>1, <1>6, <1>7, <1>9, <1>11, <1>12 DEF Inv, PlacesOK

LEMMA RemoveExpiredDequeInv == ASSUME Inv, NEW n \in Seqs, removeExpiredDeque(n) PROVE Inv'
<1> DEFINE R == Held(Range(SubSeq(deque.blocks, 1, n)))
           S == InDeque \ R
<1>1. /\ n <= Len(deque.blocks) /\ deque' = [deque EXCEPT !.blocks = SubSeq(@, n + 1, Len(@))]
      /\ expired' = [expired EXCEPT !.deque = @ \cup R] /\ UNCHANGED <<map, fresh, given, lost, broken>>
  BY DEF removeExpiredDeque
<1>2. n \in Nat /\ 1 <= n
  BY SeqsAre
<1>3. HoldsD(deque, InDeque, DequeExact) /\ InDeque \in SUBSET Seqs
  BY InvIs
<1>4. R \subseteq InDeque /\ R # {} /\ HoldsD(deque', S, FALSE)
  <2>1. R = Held(Range(SubSeq(deque.blocks, 1, n)))
    OBVIOUS
  <2>. HIDE DEF R
  <2>3. n \in Nat /\ 1 <= n /\ n <= Len(deque.blocks)
    BY <1>1, <1>2
  <2> DEFINE v == [deque EXCEPT !.blocks = SubSeq(@, n + 1, Len(@))]
  <2>4. R \subseteq InDeque /\ R # {}
    BY <1>3, <2>1, <2>3, FrontIs
  <2>5. HoldsD(v, InDeque \ R, FALSE)
    BY <1>3, <2>1, <2>3, ExpiredHolds
  <2>. QED  BY <1>1, <2>4, <2>5
<1>. HIDE DEF R, S
<1>5. InDeque' = S
  <2>1. Held(Range(deque'.blocks)) = S
    BY <1>4, DequeIs
  <2>. QED  BY <2>1 DEF InDeque
<1>6. expired' \in [map : SUBSET Seqs, deque : SUBSET Seqs] /\ expired'.map = expired.map /\ expired'.deque = expired.deque \cup R
  <2>1. expired \in [map : SUBSET Seqs, deque : SUBSET Seqs] /\ R \in SUBSET Seqs
    BY <1>3, <1>4 DEF Inv, PlacesOK
  <2>. QED  BY <1>1, <2>1
<1>7. ~DequeExact' /\ MapExact' = MapExact /\ InMap' = InMap
  BY <1>1, <1>4, <1>6 DEF MapExact, DequeExact, InMap
<1>8. DequeOK'
  BY <1>4, <1>5, <1>7 DEF DequeOK, HoldsD
<1>9. MapOK'
  BY <1>1, <1>7 DEF Inv, MapOK
<1>10. Placed(fresh', InMap', InDeque', given', expired'.map, expired'.deque, lost')
  <2> DEFINE x == expired.map
             y == expired.deque
  <2>1. Placed(fresh, InMap, InDeque, given, x, y, lost)
    BY InvIs
  <2>. HIDE DEF x, y
  <2>2. Placed(fresh, InMap, InDeque \ R, given, x, y \cup R, lost)
    BY <1>4, <2>1 DEF Placed
  <2>. QED  BY <1>1, <1>5, <1>6, <1>7, <2>2 DEF x, y, S
<1>. QED  BY <1>6, <1>7, <1>8, <1>9, <1>10 DEF Inv, PlacesOK

LEMMA ClearMapInv == ASSUME Inv, clearMap PROVE Inv'
<1> DEFINE v == [blocks |-> {}, total |-> 0]
<1>1. map' = v /\ given' = given \cup InMap /\ UNCHANGED <<deque, fresh, expired, lost, broken>>
  BY DEF clearMap
<1>2. Held({}) = {} /\ Cardinality({}) = 0 /\ Apart({}) /\ InMap \ InMap = {}
  BY FS_EmptySet DEF Held, Apart
<1>3. Work(v) \in WorkRecords /\ Work(v).blocks = {} /\ Work(v).total = 0 /\ Work(v).lost = {}
  BY WorkIs
<1>4. Holds(Work(v), {}, MapExact)
  BY <1>2, <1>3 DEF Holds
<1>5. Keep(Work(v))
  BY <1>1, <1>3 DEF Keep
<1>6. Placed(fresh', InMap \ InMap, InDeque, given', expired.map, expired.deque, lost)
  BY <1>1, GivenFromMap
<1>7. Placed(fresh', {}, InDeque, given', expired.map, expired.deque, lost)
  BY <1>2, <1>6
<1>. HIDE DEF v
<1>. QED  BY <1>1, <1>4, <1>5, <1>7, MapStep

LEMMA ClearDequeInv == ASSUME Inv, clearDeque PROVE Inv'
<1>1. deque' = [blocks |-> <<>>, total |-> 0] /\ given' = given \cup InDeque /\ UNCHANGED <<map, fresh, expired, lost, broken>>
  BY DEF clearDeque
<1>2. <<>> \in Seq(Blocks) /\ Len(<<>>) = 0 /\ Cardinality({}) = 0 /\ InDeque \ InDeque = {}
  BY EmptySeq, FS_EmptySet
<1>3. deque' \in DequeRecords /\ deque'.blocks = <<>> /\ deque'.total = 0
  BY <1>1, <1>2 DEF DequeRecords
<1>4. HoldsD(deque', {}, DequeExact)
  BY <1>2, <1>3 DEF HoldsD
<1>5. Placed(fresh', InMap, InDeque \ InDeque, given', expired.map, expired.deque, lost)
  BY <1>1, GivenFromDeque
<1>6. Placed(fresh', InMap, {}, given', expired.map, expired.deque, lost)
  BY <1>2, <1>5
<1>. QED  BY <1>1, <1>4, <1>6, DequeStep

LEMMA GetNextMatchedInv ==
  ASSUME Inv, NEW cursor \in 0 .. MaxSeq - 1, NEW limit \in Seqs, NEW taken \in SUBSET Seqs, NEW stray \in Blocks,
         getNextMatched(cursor, limit, taken, stray)
  PROVE  Inv'
<1>1. UNCHANGED <<deque, fresh, expired>>
  BY DEF getNextMatched
<1>2. map.blocks \in SUBSET Blocks /\ Apart(map.blocks) /\ Holds(Work(map), InMap, MapExact)
  BY InvIs
<1>3. cursor \in Int /\ 0 <= cursor /\ limit \in Nat
  BY BlocksAssumption, SeqsAre
<1>4. PICK acc : /\ Matches(acc, InMap, MapExact) /\ Keep(acc.w) /\ given' = given \cup acc.hits
                 /\ broken' = IF acc.dangling THEN "dangling" ELSE "no"
  BY <1>2, <1>3, MatchedHolds
<1>5. acc.hits \subseteq InMap /\ Holds(acc.w, InMap \ acc.hits, MapExact)
  BY <1>4 DEF Matches
<1>6. Placed(fresh', InMap \ acc.hits, InDeque, given', expired.map, expired.deque, lost)
  BY <1>1, <1>4, <1>5, GivenFromMap
<1>7. broken' # "overrun"
  BY <1>4
<1>. QED  BY <1>1, <1>4, <1>5, <1>6, <1>7, MapStep

LEMMA InvNext == Inv /\ [Next]_vars => Inv'
<1>. SUFFICES ASSUME Inv, [Next]_vars PROVE Inv'
  OBVIOUS
<1>1. Strays \subseteq Blocks
  BY BlocksAssumption
<1>2. ASSUME NEW b \in Blocks, NEW stray \in Strays, Insert(b, stray) \/ PushBackMap(b, stray) PROVE Inv'
  BY <1>1, <1>2, InsertInv
<1>3. ASSUME NEW b \in Blocks, PushBackDeque(b) PROVE Inv'
  BY <1>3, PushBackDequeInv
<1>4. CASE getFirstMap
  BY <1>4, GetFirstMapInv
<1>5. CASE getFirstDeque
  BY <1>5, GetFirstDequeInv
<1>6. CASE clearMap
  BY <1>6, ClearMapInv
<1>7. CASE clearDeque
  BY <1>7, ClearDequeInv
<1>8. ASSUME NEW n \in Seqs, NEW stray \in Strays, getFirstNMap(n, stray) \/ splitDeque(n, stray) PROVE Inv'
  BY <1>1, <1>8, GetFirstNMapInv, SplitDequeInv
<1>9. ASSUME NEW n \in Seqs, getFirstNDeque(n) \/ splitMap(n) \/ removeExpiredDeque(n) PROVE Inv'
  BY <1>9, GetFirstNDequeInv, SplitMapInv, RemoveExpiredDequeInv
<1>10. ASSUME NEW bs \in SUBSET map.blocks, removeExpiredMap(bs) PROVE Inv'
  BY <1>10, RemoveExpiredMapInv
<1>11. ASSUME NEW cursor \in 0 .. MaxSeq - 1, NEW limit \in Seqs, NEW taken \in SUBSET Seqs, NEW stray \in Strays,
              getNextMatched(cursor, limit, taken, stray)
       PROVE  Inv'
  BY <1>1, <1>11, GetNextMatchedInv
<1>12. CASE UNCHANGED vars
  <2>1. UNCHANGED <<map, deque, fresh, given, expired, lost, broken>>
    BY <1>12 DEF vars
  <2>2. MapExact' = MapExact /\ DequeExact' = DequeExact /\ InMap' = InMap /\ InDeque' = InDeque
    BY <2>1 DEF MapExact, DequeExact, InMap, InDeque
  <2>. QED  BY <2>1, <2>2 DEF Inv, MapOK, DequeOK, PlacesOK
<1>. QED  BY <1>2, <1>3, <1>4, <1>5, <1>6, <1>7, <1>8, <1>9, <1>10, <1>11, <1>12 DEF Next

LEMMA InvHolds == Spec => []Inv
<1>1. Init => Inv
  BY InvInit
<1>2. Inv /\ [Next]_vars => Inv'
  BY InvNext
<1>. QED  BY <1>1, <1>2, PTL DEF Spec

-----------------------------------------------------------------------------
(* What the invariant says *)

LEMMA OnePlace == Inv => EachInOnePlace
<1>. SUFFICES ASSUME Inv PROVE EachInOnePlace
  OBVIOUS
<1> DEFINE x == expired.map
           y == expired.deque
           places == <<fresh, InMap, InDeque, given, x, y, lost>>
<1>1. Apart(map.blocks) /\ HoldsD(deque, InDeque, DequeExact) /\ Placed(fresh, InMap, InDeque, given, x, y, lost)
  BY InvIs
<1>2. DOMAIN deque.blocks = 1 .. Len(deque.blocks) /\ \A i \in 1 .. Len(deque.blocks) : RangeOf(deque.blocks[i]) # {}
  <2>1. deque.blocks \in Seq(Blocks) /\ \A i \in 1 .. Len(deque.blocks) : deque.blocks[i] \in Blocks
    BY <1>1, DequeIs
  <2>2. \A b \in Blocks : RangeOf(b) # {}
    BY BlockIs
  <2>. QED  BY <2>1, <2>2
<1>3. \A i, j \in 1 .. Len(deque.blocks) : i # j => RangeOf(deque.blocks[i]) \cap RangeOf(deque.blocks[j]) = {}
  BY <1>1 DEF HoldsD
<1>4. \A i, j \in DOMAIN deque.blocks : i # j => deque.blocks[i] # deque.blocks[j]
  BY <1>2, <1>3
<1>5. Apart(Range(deque.blocks))
  <2>. SUFFICES ASSUME NEW b \in Range(deque.blocks), NEW c \in Range(deque.blocks), b # c
                PROVE  RangeOf(b) \cap RangeOf(c) = {}
    BY DEF Apart
  <2>1. PICK i \in DOMAIN deque.blocks : b = deque.blocks[i]
    BY DEF Range
  <2>2. PICK j \in DOMAIN deque.blocks : c = deque.blocks[j]
    BY DEF Range
  <2>3. i # j
    BY <2>1, <2>2
  <2>. QED  BY <1>2, <1>3, <2>1, <2>2, <2>3
<1>. HIDE DEF x, y
<1>6. \A i, j \in DOMAIN places : i # j => places[i] \cap places[j] = {}
  <2>1. DOMAIN places = 1 .. 7
    OBVIOUS
  <2>2. /\ places[1] = fresh /\ places[2] = InMap /\ places[3] = InDeque /\ places[4] = given
        /\ places[5] = x /\ places[6] = y /\ places[7] = lost
    OBVIOUS
  <2>. HIDE DEF places
  <2>3. \A i, j \in 1 .. 7 : i < j => places[i] \cap places[j] = {}
    <3>1. \A j \in 1 .. 7 : 1 < j => places[1] \cap places[j] = {}
      BY <1>1, <2>2 DEF Placed
    <3>2. \A j \in 1 .. 7 : 2 < j => places[2] \cap places[j] = {}
      BY <1>1, <2>2 DEF Placed
    <3>3. \A j \in 1 .. 7 : 3 < j => places[3] \cap places[j] = {}
      BY <1>1, <2>2 DEF Placed
    <3>4. \A j \in 1 .. 7 : 4 < j => places[4] \cap places[j] = {}
      BY <1>1, <2>2 DEF Placed
    <3>5. \A j \in 1 .. 7 : 5 < j => places[5] \cap places[j] = {}
      BY <1>1, <2>2 DEF Placed
    <3>6. \A j \in 1 .. 7 : 6 < j => places[6] \cap places[j] = {}
      BY <1>1, <2>2 DEF Placed
    <3>. HIDE DEF x, y
    <3>. QED  BY <3>1, <3>2, <3>3, <3>4, <3>5, <3>6
  <2>. QED  BY <2>1, <2>3
<1>7. UNION Range(places) = Seqs
  <2>1. Range(places) = {fresh, InMap, InDeque, given, x, y, lost}
    BY DEF Range
  <2>. HIDE DEF places
  <2>. QED  BY <1>1, <2>1 DEF Placed
<1>. QED  BY <1>1, <1>4, <1>5, <1>6, <1>7 DEF EachInOnePlace, x, y

LEMMA Covered == Inv => TotalsCover
<1>. SUFFICES ASSUME Inv PROVE TotalsCover
  OBVIOUS
<1>1. /\ InMap = Held(map.blocks) /\ Work(map).blocks = map.blocks /\ Work(map).total = map.total
      /\ Work(map).lost = {} /\ Holds(Work(map), InMap, MapExact) /\ HoldsD(deque, InDeque, DequeExact)
      /\ InMap \in SUBSET Seqs /\ InDeque \in SUBSET Seqs /\ map.total \in Nat /\ deque \in DequeRecords
  BY InvIs
<1>2. Cardinality(InMap) <= map.total /\ (MapExact => map.total = Cardinality(InMap))
  BY <1>1 DEF Holds
<1>3. Cardinality(InDeque) <= deque.total /\ (DequeExact => deque.total = Cardinality(InDeque))
  BY <1>1 DEF HoldsD
<1>4. Cardinality(InMap) \in Nat /\ Cardinality(InDeque) \in Nat /\ deque.total \in Nat
  BY <1>1, CardIsNat DEF DequeRecords
<1>5. DequeExact => broken # "overrun"
  BY DEF Inv
<1>6. map.total >= Cardinality(InMap) /\ deque.total >= Cardinality(InDeque)
  BY <1>1, <1>2, <1>3, <1>4
<1>. QED  BY <1>2, <1>3, <1>5, <1>6 DEF TotalsCover, MapExact, DequeExact

\* No message is in two blocks or containers, or with a consumer and in a block; it is missing
\* only where insert drops it (insert, getFirst, split, getNextMatched).
THEOREM EachInOnePlaceCorrect == Spec => []EachInOnePlace
<1>1. Inv => EachInOnePlace
  BY OnePlace
<1>. QED  BY <1>1, InvHolds, PTL

\* m_totalCount is never less than what the blocks hold, more only after an expiry or a loss, and
\* split leaves the deque only after an expiry (getMessageCount, removeExpired, split).
THEOREM TotalsCoverCorrect == Spec => []TotalsCover
<1>1. Inv => TotalsCover
  BY Covered
<1>. QED  BY <1>1, InvHolds, PTL

\* On what the map holds and any range: forward shows all behind the cursor; splitSequence and
\* subBlocks leave the same blocks, and getContinuousSequences makes as few as it can.
THEOREM SequencesSplitCorrect == Spec => []SequencesSplit
<1>1. Inv => SequencesSplit
  <2>. SUFFICES ASSUME Inv PROVE SequencesSplit
    OBVIOUS
  <2>1. map.blocks \in SUBSET Blocks /\ Apart(map.blocks)
    BY InvIs
  <2>. QED  BY <2>1, SplitsHold
<1>. QED  BY <1>1, InvHolds, PTL

=============================================================================
