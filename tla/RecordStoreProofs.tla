-------------------------- MODULE RecordStoreProofs --------------------------
(***************************************************************************)
(* Proofs about the record store on disk, for any records, base sequence   *)
(* above 0, file size, number of records and faults.                       *)
(*                                                                         *)
(* Three inductive invariants stand on the types.  Marks: the attribute    *)
(* byte of each record says what was asked of it, and early holds the      *)
(* deletions that were told and have no record yet.  Laid and Ended: the   *)
(* records lie one behind the other, and the last data file ends with the  *)
(* last of them unless a write has failed.  Cleanly: a store that was not  *)
(* damaged has every file that the index names, as long as it names it.    *)
(*                                                                         *)
(* That an open store still has the bytes of its records (Kept) rests on   *)
(* the comparison in init, which looks at every data file when the index   *)
(* is read in one block: it is proved for these stores, and false for      *)
(* others.                                                                 *)
(*                                                                         *)
(* That every way of reading many records gives the bytes of each          *)
(* (ManyIsEach) is proved for any index whose records lie one behind the   *)
(* other, loop by loop: what a loop has after each turn is stated, a turn  *)
(* is shown to keep it, and the loops are recursive functions, of which    *)
(* LoopExists and LoopReaches say that their values are what the turns     *)
(* lead to.                                                                *)
(***************************************************************************)
EXTENDS RecordReads, SequenceTheorems, WellFoundedInduction, TLAPS

-----------------------------------------------------------------------------
(* The least and the greatest element of a set, and loops *)

\* A nonempty set of naturals has a least element, and Min finds it.
LEMMA MinExists ==
  ASSUME NEW S, S \subseteq Nat, S # {}
  PROVE  Min(S) \in S /\ \A y \in S : Min(S) <= y
<1> DEFINE R == OpToRel(<, Nat)
<1>0. \A x, y \in Nat : <<y, x>> \in R <=> y < x
  BY Zenon DEF OpToRel
<1>a. IsWellFoundedOn(R, Nat)
  BY NatLessThanWellFounded
<1> HIDE DEF R
<1>1. \E x \in S : \A y \in S : ~(<<y, x>> \in R)
  BY <1>a, WFMin
<1>2. \E x \in S : \A y \in S : x <= y
  <2>1. PICK x \in S : \A y \in S : ~(<<y, x>> \in R)
    BY <1>1
  <2>2. ASSUME NEW y \in S PROVE x <= y
    <3>1. ~(<<y, x>> \in R)
      BY <2>1
    <3>2. x \in Nat /\ y \in Nat
      OBVIOUS
    <3>3. ~(y < x)
      BY <1>0, <3>1, <3>2, Zenon
    <3>. QED  BY <3>2, <3>3
  <2>. QED  BY <2>2
<1>. QED  BY <1>2 DEF Min

\* So has a bounded one a greatest element: the mirror image has a least one.
LEMMA MaxExists ==
  ASSUME NEW S, S \subseteq Nat, S # {}, NEW n \in Nat, \A x \in S : x <= n
  PROVE  Max(S) \in S /\ \A y \in S : Max(S) >= y
<1> DEFINE M == {x \in 0 .. n : n - x \in S}
<1>1. M \subseteq Nat /\ M # {}
  <2>1. PICK x \in S : TRUE
    OBVIOUS
  <2>2. n - x \in 0 .. n /\ n - (n - x) = x
    BY <2>1
  <2>. QED  BY <2>1, <2>2
<1>2. Min(M) \in M /\ \A y \in M : Min(M) <= y
  BY <1>1, MinExists
<1>3. n - Min(M) \in S
  BY <1>2
<1>4. ASSUME NEW y \in S PROVE n - Min(M) >= y
  <2>1. n - y \in M
    <3>1. n - y \in 0 .. n /\ n - (n - y) = y
      OBVIOUS
    <3>. QED  BY <3>1
  <2>2. Min(M) <= n - y /\ Min(M) \in 0 .. n
    BY <1>2, <2>1
  <2>. QED  BY <2>2
<1>. HIDE DEF M
<1>5. \E x \in S : \A y \in S : x >= y
  BY <1>3, <1>4
<1>. QED  BY <1>5 DEF Max

\* Of two integers.
LEMMA MaxOfPair ==
  ASSUME NEW a \in Int, NEW b \in Int
  PROVE  Max({a, b}) = IF a >= b THEN a ELSE b
<1>1. \E x \in {a, b} : \A y \in {a, b} : x >= y
  OBVIOUS
<1>2. Max({a, b}) \in {a, b} /\ \A y \in {a, b} : Max({a, b}) >= y
  BY <1>1 DEF Max
<1>. QED  BY <1>2

LEMMA MinOfPair ==
  ASSUME NEW a \in Int, NEW b \in Int
  PROVE  Min({a, b}) = IF a <= b THEN a ELSE b
<1>1. \E x \in {a, b} : \A y \in {a, b} : x <= y
  OBVIOUS
<1>2. Min({a, b}) \in {a, b} /\ \A y \in {a, b} : Min({a, b}) <= y
  BY <1>1 DEF Min
<1>. QED  BY <1>2

\* What holds at 0 and goes from each number to the next holds up to the last.
LEMMA UpTo ==
  ASSUME NEW n \in Nat, NEW T, 0 \in T, \A k \in 0 .. n - 1 : k \in T => k + 1 \in T
  PROVE  \A k \in 0 .. n : k \in T
<1> DEFINE F == {k \in 0 .. n : k \notin T}
<1>1. F = {}
  <2>. SUFFICES ASSUME F # {} PROVE FALSE
    OBVIOUS
  <2>1. PICK k \in F : \A j \in F : k <= j
    <3>1. F \subseteq Nat
      OBVIOUS
    <3>. HIDE DEF F
    <3>. QED  BY <3>1, MinExists
  <2>2. k \in 0 .. n /\ k \notin T /\ k # 0
    OBVIOUS
  <2>3. k - 1 \in 0 .. n - 1 /\ k - 1 \notin F /\ k - 1 \in 0 .. n
    BY <2>1, <2>2
  <2>4. k - 1 \in T
    BY <2>3
  <2>5. (k - 1) + 1 \in T
    BY <2>3, <2>4
  <2>6. (k - 1) + 1 = k
    BY <2>2
  <2>. QED  BY <2>2, <2>5, <2>6
<1>. QED  BY <1>1

\* A loop of n turns: its states after each number of them are a function, if each turn
\* leads from the states that the turns before may have reached to those of this one.
IsLoop(g, n, v, F) == DOMAIN g = 0 .. n /\ g[0] = v /\ \A k \in 1 .. n : g[k] = F[k][g[k - 1]]

LEMMA LoopExists ==
  ASSUME NEW n \in Nat, NEW W, NEW v, v \in W[0], NEW F,
         \A k \in 1 .. n : \A x \in W[k - 1] : F[k][x] \in W[k]
  PROVE  \E g : /\ g = [k \in 0 .. n |-> g[k]] /\ IsLoop(g, n, v, F)
                /\ \A k \in 0 .. n : g[k] \in W[k]
<1> DEFINE Is(g, m) == /\ g = [k \in 0 .. m |-> g[k]] /\ IsLoop(g, m, v, F)
                       /\ \A k \in 0 .. m : g[k] \in W[k]
           T == {m \in 0 .. n : \E g : Is(g, m)}
<1>1. 0 \in T
  <2>. DEFINE g == [k \in 0 .. 0 |-> v]
  <2>1. g[0] = v /\ 1 .. 0 = {} /\ 0 .. 0 = {0} /\ DOMAIN g = 0 .. 0
    OBVIOUS
  <2>2. g = [k \in 0 .. 0 |-> g[k]]
    OBVIOUS
  <2>. HIDE DEF g
  <2>3. IsLoop(g, 0, v, F)
    BY <2>1 DEF IsLoop
  <2>4. Is(g, 0)
    BY <2>1, <2>2, <2>3
  <2>5. 0 \in 0 .. n
    OBVIOUS
  <2>. HIDE DEF Is
  <2>. QED  BY <2>4, <2>5
<1>2. ASSUME NEW m \in 0 .. n - 1, m \in T PROVE m + 1 \in T
  <2>1. PICK g : Is(g, m)
    BY <1>2
  <2>. DEFINE h == [k \in 0 .. m + 1 |-> IF k = m + 1 THEN F[m + 1][g[m]] ELSE g[k]]
  <2>2. m \in Nat /\ m + 1 \in 1 .. n /\ m \in 0 .. m /\ m + 1 \in 0 .. n /\ (m + 1) - 1 = m
    OBVIOUS
  <2>3. F[m + 1][g[m]] \in W[m + 1]
    <3>1. g[m] \in W[m]
      BY <2>1, <2>2
    <3>. QED  BY <2>2, <3>1
  <2>4. \A k \in 0 .. m : h[k] = g[k]
    <3>1. \A k \in 0 .. m : k \in 0 .. m + 1 /\ k # m + 1
      BY <2>2
    <3>. QED  BY <3>1
  <2>5. h[m + 1] = F[m + 1][g[m]]
    <3>1. m + 1 \in 0 .. m + 1
      BY <2>2
    <3>. QED  BY <3>1
  <2>6. h = [k \in 0 .. m + 1 |-> h[k]] /\ DOMAIN h = 0 .. m + 1
    OBVIOUS
  <2>. HIDE DEF h
  <2>7. h[0] = v
    <3>1. 0 \in 0 .. m
      BY <2>2
    <3>. QED  BY <2>1, <2>4, <3>1 DEF IsLoop
  <2>8. ASSUME NEW k \in 1 .. m + 1 PROVE h[k] = F[k][h[k - 1]]
    <3>1. CASE k = m + 1
      <4>1. h[m] = g[m] /\ k - 1 = m
        BY <2>2, <2>4, <3>1
      <4>. QED  BY <2>5, <3>1, <4>1
    <3>2. CASE k # m + 1
      <4>1. k \in 1 .. m /\ k \in 0 .. m /\ k - 1 \in 0 .. m
        BY <2>2, <3>2
      <4>2. g[k] = F[k][g[k - 1]]
        BY <2>1, <4>1 DEF IsLoop
      <4>. QED  BY <2>4, <4>1, <4>2
    <3>. QED  BY <3>1, <3>2
  <2>9. ASSUME NEW k \in 0 .. m + 1 PROVE h[k] \in W[k]
    <3>1. k = m + 1 \/ k \in 0 .. m
      BY <2>2
    <3>. QED  BY <2>1, <2>3, <2>4, <2>5, <3>1
  <2>10. Is(h, m + 1)
    BY <2>6, <2>7, <2>8, <2>9 DEF IsLoop
  <2>. HIDE DEF Is
  <2>. QED  BY <2>2, <2>10
<1>3. n \in T
  <2>. HIDE DEF T
  <2>1. \A k \in 0 .. n : k \in T
    BY <1>1, <1>2, UpTo
  <2>. QED  BY <2>1
<1>. QED  BY <1>3

\* Whatever takes these turns reaches these states.
Takes(f, n, v, W, F) == f[0] = v /\ \A k \in 1 .. n : f[k - 1] \in W[k - 1] => f[k] = F[k][f[k - 1]]

LEMMA LoopReaches ==
  ASSUME NEW n \in Nat, NEW W, NEW v, v \in W[0], NEW F,
         \A k \in 1 .. n : \A x \in W[k - 1] : F[k][x] \in W[k],
         NEW f, Takes(f, n, v, W, F)
  PROVE  \A k \in 0 .. n : f[k] \in W[k]
<1> DEFINE T == {k \in 0 .. n : f[k] \in W[k]}
<1>1. 0 \in T
  BY DEF Takes
<1>2. ASSUME NEW k \in 0 .. n - 1, k \in T PROVE k + 1 \in T
  <2>1. k + 1 \in 1 .. n /\ k + 1 \in 0 .. n /\ (k + 1) - 1 = k
    OBVIOUS
  <2>2. f[k] \in W[k]
    BY <1>2
  <2>3. f[k + 1] = F[k + 1][f[k]] /\ F[k + 1][f[k]] \in W[k + 1]
    BY <2>1, <2>2 DEF Takes
  <2>. QED  BY <2>1, <2>3
<1>. HIDE DEF T
<1>3. \A k \in 0 .. n : k \in T
  BY <1>1, <1>2, UpTo
<1>. QED  BY <1>3 DEF T

-----------------------------------------------------------------------------
(* The invariants *)

\* TypeOK does not carry itself: the number of data files is bounded by the records and
\* the faults that there have been, and a closed store holds nothing in memory.
Types ==
  /\ TypeOK
  /\ place \in [Seqs -> [file : Nat, from : Nat, to : Nat, flags : SUBSET {DELETED, REMOTE, COMMIT}]]
  /\ aged \subseteq Seqs
  /\ \A s \in Seqs : recs[s].file <= s - Base + 1 + faults
  /\ index \in {"none", "started"} => count = 0
  /\ running =>
       /\ index = "ready"
       /\ trans \in [Seqs -> Nat]
       /\ fileCount <= count + faults + 1
       /\ length[fileCount - 1] # ABSENT
  /\ ~running => deleted = {} /\ remote = {} /\ expired = {} /\ early = {}

\* The byte of each record.
Bytewise ==
  \A s \in Seqs :
    /\ DELETED \in recs[s].attr <=> s \in told \/ DELETED \in place[s].flags
    /\ REMOTE \in recs[s].attr <=> REMOTE \in place[s].flags
    /\ EXPIRED \in recs[s].attr <=> s \in aged
    /\ COMMIT \in recs[s].attr <=> COMMIT \in place[s].flags

Marks ==
  /\ Bytewise
  /\ running =>
       /\ early = told \ Seqs
       /\ deleted = Marked(DELETED) /\ remote = Marked(REMOTE) /\ expired = aged \ dropped
       /\ \A s \in Seqs \ aged : trans[s] = TransState(recs[s].attr)
  /\ ~running => told \subseteq Seqs

\* The records lie one behind the other, where they were put.
Laid ==
  /\ \A s \in Seqs : place[s].file = recs[s].file /\ place[s].to = recs[s].off
  /\ \A s \in Seqs : IF short THEN Region(s).from <= place[s].from ELSE Region(s).from = place[s].from
  /\ \A s, t \in Seqs : s < t =>
       \/ recs[s].file < recs[t].file
       \/ recs[s].file = recs[t].file /\ recs[s].off < recs[t].off

\* Where the last record ends, in a file of this number.
EndIn(f) == IF LastFile = f THEN Before(Last + 1).off ELSE 0

\* The last data file ends with the last record.
Ended ==
  /\ index = "started" /\ length[0] # ABSENT /\ ~short => length[0] = 0
  /\ running =>
       /\ LastFile <= fileCount - 1
       /\ IF short THEN EndIn(fileCount - 1) <= length[fileCount - 1]
                   ELSE EndIn(fileCount - 1) = length[fileCount - 1]

\* Every data file that the index names is there, and ends with its last record.
Intact ==
  /\ index = "ready"
  /\ \A f \in 0 .. LastFile : length[f] # ABSENT
  /\ \A s \in Seqs : Before(s).file # recs[s].file => EndsAsIndexed(Before(s))
  /\ EndsAsIndexed(Before(Last + 1))

Cleanly ==
  clean => /\ ~short
           /\ running => Intact /\ LastFile = fileCount - 1
           /\ ~running => IsNew \/ Intact

\* The bytes of every record are there.
Kept == running => \A s \in Seqs : recs[s].off <= length[recs[s].file]

-----------------------------------------------------------------------------
(* Reading the state *)

\* What the assumptions say of a record.
LEMMA RecordFacts ==
  ASSUME NEW r \in Records
  PROVE  /\ r.size \in 1 .. MaxFileSize
         /\ r.flags \in SUBSET {DELETED, REMOTE, COMMIT}
         /\ r.flags \in SUBSET {1, 2, 3, 4}
BY StoreAssumption, SMT DEF DELETED, REMOTE, COMMIT

\* Where the last record ends.
LEMMA LastEnd ==
  ASSUME Types
  PROVE  /\ Last + 1 = Base + count
         /\ count = 0 => Before(Last + 1) = [file |-> 0, off |-> 0]
         /\ count > 0 => /\ Last \in Seqs
                         /\ Before(Last + 1) = [file |-> recs[Last].file, off |-> recs[Last].off]
         /\ LastFile \in Files /\ LastFile <= count + faults
         /\ Before(Last + 1).off \in 0 .. MaxFileSize
         /\ Before(Last + 1).off = 0 => count = 0
<1>1. count \in Nat /\ faults \in Nat /\ Base \in Nat
  BY StoreAssumption DEF Types, TypeOK
<1>2. Last + 1 = Base + count
  BY <1>1 DEF Last
<1>3. CASE count = 0
  <2>1. Before(Last + 1) = [file |-> 0, off |-> 0]
    BY <1>1, <1>2, <1>3 DEF Before
  <2>. QED  BY <1>1, <1>2, <1>3, <2>1, StoreAssumption DEF Files, LastFile
<1>4. CASE count > 0
  <2>1. Last \in Seqs /\ (Last + 1) - 1 = Last /\ Last + 1 # Base
    BY <1>1, <1>4 DEF Last, Seqs
  <2>2. Before(Last + 1) = [file |-> recs[Last].file, off |-> recs[Last].off]
    BY <2>1 DEF Before
  <2>3. recs[Last] \in [file : Files, off : 1 .. MaxFileSize, attr : SUBSET {1, 2, 3, 4}]
    BY <2>1 DEF Types, TypeOK
  <2>4. recs[Last].file <= count + faults
    <3>1. recs[Last].file <= Last - Base + 1 + faults
      BY <2>1 DEF Types
    <3>. QED  BY <1>1, <3>1 DEF Last
  <2>. QED  BY <1>2, <1>4, <2>1, <2>2, <2>3, <2>4, StoreAssumption DEF LastFile
<1>. QED  BY <1>1, <1>3, <1>4

\* Where the bytes of the next record go.
LEMMA Appending ==
  ASSUME Types, running, count < MaxCount, NEW size \in 1 .. MaxFileSize
  PROVE  /\ fileCount - 1 \in Files /\ fileCount \in Files
         /\ length[fileCount - 1] \in 0 .. MaxFileSize
         /\ Target(size) \in {fileCount - 1, fileCount}
         /\ Target(size) = fileCount => Rolls(size) /\ Start(size) = 0
         /\ Target(size) = fileCount - 1 => ~Rolls(size) /\ Start(size) = length[fileCount - 1]
         /\ Start(size) \in 0 .. MaxFileSize
         /\ Start(size) + size \in 1 .. MaxFileSize
         /\ \A n \in 0 .. size :
              /\ Appended(size, n) \in [Files -> ABSENT .. MaxFileSize]
              /\ Appended(size, n)[Target(size)] = Start(size) + n
              /\ \A f \in Files : f # Target(size) => Appended(size, n)[f] = length[f]
<1>1. /\ count \in Nat /\ faults \in 0 .. MaxFaults /\ MaxCount \in Nat /\ MaxFaults \in Nat
      /\ fileCount \in Nat \ {0} /\ fileCount <= count + faults + 1 /\ MaxFileSize \in Nat
  BY StoreAssumption DEF Types, TypeOK
<1>2. fileCount - 1 \in Files /\ fileCount \in Files
  BY <1>1 DEF Files
<1>3. length \in [Files -> ABSENT .. MaxFileSize] /\ length[fileCount - 1] # ABSENT
  BY DEF Types, TypeOK
<1>4. length[fileCount - 1] \in 0 .. MaxFileSize
  BY <1>2, <1>3, <1>1 DEF ABSENT
<1>5. /\ Target(size) \in {fileCount - 1, fileCount} /\ Target(size) \in Files
      /\ Target(size) = fileCount => Rolls(size) /\ Start(size) = 0
      /\ Target(size) = fileCount - 1 => ~Rolls(size) /\ Start(size) = length[fileCount - 1]
  BY <1>1, <1>2 DEF Target, Start
<1>6. Start(size) \in 0 .. MaxFileSize /\ Start(size) + size \in 1 .. MaxFileSize
  BY <1>1, <1>4 DEF Start, Rolls
<1>7. ASSUME NEW n \in 0 .. size
      PROVE  /\ Appended(size, n) \in [Files -> ABSENT .. MaxFileSize]
             /\ Appended(size, n)[Target(size)] = Start(size) + n
             /\ \A f \in Files : f # Target(size) => Appended(size, n)[f] = length[f]
  <2>1. Start(size) + n \in ABSENT .. MaxFileSize
    BY <1>1, <1>6 DEF ABSENT
  <2>. QED  BY <1>3, <1>5, <2>1 DEF Appended
<1>. QED  BY <1>2, <1>4, <1>5, <1>6, <1>7

\* What an add changes in the index and the histories.
LEMMA Adding ==
  ASSUME Types, NEW r \in Records, add(r)
  PROVE  LET s == Base + count IN
         /\ s \notin Seqs /\ Seqs' = Seqs \cup {s} /\ count' = count + 1
         /\ recs' = [t \in Seqs' |-> IF t = s THEN [file |-> Target(r.size), off |-> Start(r.size) + r.size,
                                                    attr |-> Attr(r.flags, s)] ELSE recs[t]]
         /\ place' = [t \in Seqs' |-> IF t = s THEN [file |-> Target(r.size), from |-> Start(r.size),
                                                     to |-> Start(r.size) + r.size, flags |-> r.flags] ELSE place[t]]
         /\ trans' = [t \in Seqs' |-> IF t = s THEN TransState(Attr(r.flags, s)) ELSE trans[t]]
<1>1. count \in Nat /\ Base \in Nat /\ count' = count + 1
  BY StoreAssumption DEF Types, TypeOK, add
<1>2. Base + count \notin Seqs /\ Seqs' = Seqs \cup {Base + count}
  BY <1>1, SMT DEF Seqs
<1>. QED  BY <1>1, <1>2 DEF add

\* A mark changes the attribute byte of the records in its range.
LEMMA Marking ==
  ASSUME NEW from, NEW to, NEW bit, Mark(from, to, bit), UNCHANGED count, Types
  PROVE  /\ Seqs' = Seqs /\ DOMAIN recs' = Seqs
         /\ \A s \in Seqs : /\ recs'[s].file = recs[s].file /\ recs'[s].off = recs[s].off
                            /\ recs'[s].attr = IF s \in from .. to THEN recs[s].attr \cup {bit} ELSE recs[s].attr
         /\ bit \in 1 .. 4 =>
              recs' \in [Seqs -> [file : Files, off : 1 .. MaxFileSize, attr : SUBSET {1, 2, 3, 4}]]
         /\ \A s : s \in Seqs \/ s = Base + count => Before(s)' = Before(s)
<1>1. Seqs' = Seqs /\ count \in Nat /\ Base \in Nat
  BY StoreAssumption DEF Seqs, Types, TypeOK
<1>2. recs \in [Seqs -> [file : Files, off : 1 .. MaxFileSize, attr : SUBSET {1, 2, 3, 4}]]
  BY DEF Types, TypeOK
<1>3. recs' = [s \in Seqs |-> IF s \in from .. to THEN [recs[s] EXCEPT !.attr = @ \cup {bit}] ELSE recs[s]]
  BY DEF Mark
<1>4. ASSUME NEW s \in Seqs
      PROVE  /\ recs'[s].file = recs[s].file /\ recs'[s].off = recs[s].off
             /\ recs'[s].attr = IF s \in from .. to THEN recs[s].attr \cup {bit} ELSE recs[s].attr
             /\ bit \in 1 .. 4 => recs'[s] \in [file : Files, off : 1 .. MaxFileSize, attr : SUBSET {1, 2, 3, 4}]
  <2>1. recs[s] \in [file : Files, off : 1 .. MaxFileSize, attr : SUBSET {1, 2, 3, 4}]
    BY <1>2
  <2>2. CASE s \in from .. to
    <3>1. recs'[s] = [recs[s] EXCEPT !.attr = @ \cup {bit}]
      BY <1>3, <2>2
    <3>. QED  BY <2>1, <2>2, <3>1
  <2>3. CASE s \notin from .. to
    BY <1>3, <2>1, <2>3
  <2>. QED  BY <2>2, <2>3
<1>5. ASSUME NEW s, s \in Seqs \/ s = Base + count PROVE Before(s)' = Before(s)
  <2>1. CASE s = Base
    BY <2>1 DEF Before
  <2>2. CASE s # Base
    <3>1. s - 1 \in Seqs
      BY <1>1, <1>5, <2>2 DEF Seqs
    <3>. QED  BY <1>4, <2>2, <3>1 DEF Before
  <2>. QED  BY <2>1, <2>2
<1>. QED  BY <1>1, <1>3, <1>4, <1>5

\* So a record has the bits that it had, and the new one in the range.
LEMMA MarkingBits ==
  ASSUME NEW from, NEW to, NEW bit, Mark(from, to, bit), UNCHANGED count, Types
  PROVE  /\ Seqs' = Seqs
         /\ \A s \in Seqs : \A b : b \in recs'[s].attr <=> b \in recs[s].attr \/ (b = bit /\ s \in from .. to)
<1>1. /\ Seqs' = Seqs
      /\ \A s \in Seqs : recs'[s].attr = IF s \in from .. to THEN recs[s].attr \cup {bit} ELSE recs[s].attr
  BY Marking
<1>2. ASSUME NEW s \in Seqs, NEW b
      PROVE  b \in recs'[s].attr <=> b \in recs[s].attr \/ (b = bit /\ s \in from .. to)
  <2>1. CASE s \in from .. to
    <3>1. recs'[s].attr = recs[s].attr \cup {bit}
      BY <1>1, <2>1
    <3>. QED  BY <2>1, <3>1, Zenon
  <2>2. CASE s \notin from .. to
    BY <1>1, <2>2
  <2>. QED  BY <2>1, <2>2
<1>. QED  BY <1>1, <1>2

LEMMA Bits ==
  /\ DELETED = 1 /\ REMOTE = 2 /\ EXPIRED = 3 /\ COMMIT = 4
  /\ DELETED # REMOTE /\ DELETED # EXPIRED /\ DELETED # COMMIT
  /\ REMOTE # EXPIRED /\ REMOTE # COMMIT /\ EXPIRED # COMMIT
BY DEF DELETED, REMOTE, EXPIRED, COMMIT

-----------------------------------------------------------------------------
(* Types *)

LEMMA TypesInit == Init => Types
<1>. SUFFICES ASSUME Init PROVE Types
  OBVIOUS
<1>1. Seqs = {}
  BY StoreAssumption, SMT DEF Init, Seqs
<1>2. TypeOK
  <2>1. recs \in [Seqs -> [file : Files, off : 1 .. MaxFileSize, attr : SUBSET {1, 2, 3, 4}]]
    BY <1>1 DEF Init, NoRecords
  <2>2. length \in [Files -> ABSENT .. MaxFileSize]
    BY StoreAssumption DEF Init, ABSENT
  <2>3. running \in BOOLEAN /\ clean \in BOOLEAN /\ short \in BOOLEAN
    BY Zenon DEF Init
  <2>4. /\ count \in 0 .. MaxCount /\ faults \in 0 .. MaxFaults
        /\ fileCount \in 1 .. MaxCount + MaxFaults + 1
    BY StoreAssumption DEF Init
  <2>5. /\ index \in {"none", "started", "ready", "torn"}
        /\ deleted \subseteq Seqs /\ remote \subseteq Seqs /\ expired \subseteq Seqs
    BY DEF Init
  <2>. QED  BY <2>1, <2>2, <2>3, <2>4, <2>5, Zenon DEF TypeOK
<1>3. place \in [Seqs -> [file : Nat, from : Nat, to : Nat, flags : SUBSET {DELETED, REMOTE, COMMIT}]]
  BY <1>1 DEF Init, NoRecords
<1>. QED  BY <1>1, <1>2, <1>3 DEF Types, Init

LEMMA TypesOpen == Types /\ Open => Types'
<1>. SUFFICES ASSUME Types, Open PROVE Types'
  OBVIOUS
<1>1. Seqs' = Seqs /\ count' = count /\ recs' = recs /\ faults' = faults /\ place' = place
      /\ aged' = aged /\ running'
  BY DEF Open, history, Seqs
<1>2. fileCount' = LastFile + 1 /\ LastFile \in Files /\ LastFile <= count + faults
  BY LastEnd DEF Open
<1>3. length' \in [Files -> ABSENT .. MaxFileSize] /\ length'[LastFile] # ABSENT
  <2>1. length \in [Files -> ABSENT .. MaxFileSize] /\ 0 \in Files
    BY StoreAssumption DEF Types, TypeOK, Files
  <2>2. IsNew \/ (index = "started" /\ length[0] # ABSENT) \/ (length[0] # ABSENT /\ LengthsMatch)
    BY DEF Open, CanOpen, Exists
  <2>3. count = 0 => LastFile = 0
    BY LastEnd DEF LastFile
  <2>4. CASE IsNew
    <3>1. LastFile = 0 /\ length' = [length EXCEPT ![0] = 0]
      BY <2>3, <2>4 DEF IsNew, Types, Open
    <3>. QED  BY <2>1, <3>1, StoreAssumption DEF ABSENT
  <2>5. CASE ~IsNew
    <3>1. length' = length
      BY <2>5 DEF Open
    <3>2. CASE index = "started"
      <4>1. LastFile = 0
        BY <2>3, <3>2 DEF Types
      <4>. QED  BY <2>1, <2>2, <2>5, <3>1, <3>2, <4>1 DEF LengthsMatch, EndsAsIndexed, LastFile, ABSENT
    <3>3. CASE index # "started"
      <4>1. length[LastFile] = Before(Last + 1).off
        BY <2>2, <2>5, <3>3 DEF LengthsMatch, EndsAsIndexed, LastFile
      <4>2. Before(Last + 1).off \in 0 .. MaxFileSize
        BY LastEnd
      <4>. QED  BY <2>1, <3>1, <4>1, <4>2 DEF ABSENT
    <3>. QED  BY <3>2, <3>3
  <2>. QED  BY <2>4, <2>5
<1>4. trans' \in [Seqs -> Nat]
  <2>1. ASSUME NEW s \in Seqs PROVE TransState(recs[s].attr) \in Nat
    BY DEF TransState
  <2>. QED  BY <2>1, <1>1 DEF Open
<1>5. TypeOK'
  <2>1. deleted' \subseteq Seqs /\ remote' \subseteq Seqs /\ expired' \subseteq Seqs
    BY DEF Open, Marked
  <2>2. fileCount' \in 1 .. MaxCount + MaxFaults + 1
    BY <1>2, StoreAssumption DEF Files
  <2>. QED  BY <1>1, <1>3, <2>1, <2>2 DEF Types, TypeOK, Open, history
<1>6. fileCount' <= count' + faults' + 1 /\ length'[fileCount' - 1] # ABSENT
  BY <1>1, <1>2, <1>3, StoreAssumption DEF Types, TypeOK, Files
<1>. QED  BY <1>1, <1>4, <1>5, <1>6, StoreAssumption DEF Types, Open

\* A closed store whose index was left alone, or emptied.
LEMMA TypesClosed ==
  ASSUME Types, running' = FALSE,
         faults' \in 0 .. MaxFaults, faults <= faults',
         fileCount' = 1 \/ fileCount' = fileCount,
         clean' \in BOOLEAN, short' \in BOOLEAN,
         index' \in {"none", "started", "ready", "torn"},
         index' \in {"none", "started"} => count' = 0,
         length' \in [Files -> ABSENT .. MaxFileSize],
         deleted' = {}, remote' = {}, expired' = {}, early' = {},
         \/ UNCHANGED <<count, recs, place, aged>>
         \/ count' = 0 /\ recs' = NoRecords /\ place' = NoRecords /\ aged' = {}
  PROVE  Types'
<1>1. fileCount' \in 1 .. MaxCount + MaxFaults + 1
  BY StoreAssumption DEF Types, TypeOK
<1>2. running' \in BOOLEAN
  OBVIOUS
<1>3. CASE UNCHANGED <<count, recs, place, aged>>
  <2>1. Seqs' = Seqs
    BY <1>3 DEF Seqs
  <2>2. ASSUME NEW s \in Seqs PROVE recs[s].file <= s - Base + 1 + faults'
    <3>1. s \in Int /\ recs[s].file \in Int /\ faults \in Int /\ faults' \in Int
      BY StoreAssumption DEF Types, TypeOK, Seqs, Files
    <3>2. recs[s].file <= s - Base + 1 + faults
      BY DEF Types
    <3>. QED  BY <3>1, <3>2, StoreAssumption
  <2>. QED  BY <1>1, <1>2, <1>3, <2>1, <2>2 DEF Types, TypeOK
<1>4. CASE count' = 0 /\ recs' = NoRecords /\ place' = NoRecords /\ aged' = {}
  <2>1. Seqs' = {}
    BY <1>4, StoreAssumption, SMT DEF Seqs
  <2>2. /\ recs' \in [Seqs' -> [file : Files, off : 1 .. MaxFileSize, attr : SUBSET {1, 2, 3, 4}]]
        /\ place' \in [Seqs' -> [file : Nat, from : Nat, to : Nat, flags : SUBSET {DELETED, REMOTE, COMMIT}]]
    BY <1>4, <2>1 DEF NoRecords
  <2>3. TypeOK'
    BY <1>1, <1>2, <1>4, <2>2, StoreAssumption DEF TypeOK
  <2>. QED  BY <1>4, <2>1, <2>2, <2>3 DEF Types
<1>. QED  BY <1>3, <1>4

LEMMA TypesTornCreate == Types /\ TornCreate => Types'
<1>. SUFFICES ASSUME Types, TornCreate PROVE Types'
  OBVIOUS
<1>1. faults' \in 0 .. MaxFaults /\ faults <= faults'
  BY StoreAssumption DEF Types, TypeOK, TornCreate
<1>2. count = 0 /\ deleted = {} /\ remote = {} /\ expired = {} /\ early = {}
  BY DEF Types, TornCreate, IsNew
<1>3. running' = FALSE /\ clean' \in BOOLEAN /\ short' \in BOOLEAN
  BY Zenon DEF Types, TypeOK, TornCreate
<1>. QED  BY <1>1, <1>2, <1>3, TypesClosed DEF Types, TypeOK, TornCreate, memory

LEMMA TypesTornRecreate == Types /\ TornRecreate => Types'
<1>. SUFFICES ASSUME Types, TornRecreate PROVE Types'
  OBVIOUS
<1>1. faults' \in 0 .. MaxFaults /\ faults <= faults'
  BY StoreAssumption DEF Types, TypeOK, TornRecreate
<1>2. deleted = {} /\ remote = {} /\ expired = {} /\ early = {}
  BY DEF Types, TornRecreate
<1>3. running' = FALSE /\ clean' \in BOOLEAN /\ short' \in BOOLEAN
  <2>1. clean' = FALSE /\ short' = (index' = "started") /\ running' = running /\ ~running
    BY DEF TornRecreate
  <2>. QED  BY <2>1, Zenon DEF Types, TypeOK
<1>. QED  BY <1>1, <1>2, <1>3, TypesClosed DEF Types, TypeOK, TornRecreate, Forgotten, memory

LEMMA TypesRecreate == Types /\ Recreate => Types'
<1>. SUFFICES ASSUME Types, Recreate PROVE Types'
  OBVIOUS
<1>1. faults' \in 0 .. MaxFaults
  BY StoreAssumption DEF Types, TypeOK, Recreate
<1>2. Seqs' = {}
  BY StoreAssumption, SMT DEF Recreate, Seqs
<1>3. /\ recs' \in [Seqs' -> [file : Files, off : 1 .. MaxFileSize, attr : SUBSET {1, 2, 3, 4}]]
      /\ place' \in [Seqs' -> [file : Nat, from : Nat, to : Nat, flags : SUBSET {DELETED, REMOTE, COMMIT}]]
      /\ trans' \in [Seqs' -> Nat]
  BY <1>2 DEF Recreate, Forgotten, NoRecords
<1>4. length' \in [Files -> ABSENT .. MaxFileSize] /\ length'[0] = 0
  BY StoreAssumption DEF Types, TypeOK, Recreate, Files, ABSENT
<1>5. TypeOK'
  <2>1. running' \in BOOLEAN /\ clean' \in BOOLEAN /\ short' \in BOOLEAN
    BY Zenon DEF Recreate
  <2>2. /\ count' \in 0 .. MaxCount /\ fileCount' \in 1 .. MaxCount + MaxFaults + 1
        /\ index' \in {"none", "started", "ready", "torn"}
        /\ deleted' \subseteq Seqs' /\ remote' \subseteq Seqs' /\ expired' \subseteq Seqs'
    BY StoreAssumption DEF Recreate
  <2>. QED  BY <1>1, <1>3, <1>4, <2>1, <2>2, Zenon DEF TypeOK
<1>. QED  BY <1>1, <1>2, <1>3, <1>4, <1>5 DEF Types, Recreate, Forgotten, ABSENT

LEMMA TypesCrash == Types /\ Crash => Types'
<1>. SUFFICES ASSUME Types, Crash PROVE Types'
  OBVIOUS
<1>1. faults' \in 0 .. MaxFaults /\ faults <= faults'
  BY StoreAssumption DEF Types, TypeOK, Crash, Ends
<1>. QED  BY <1>1, TypesClosed DEF Types, TypeOK, Crash, Ends, disk

LEMMA TypesRemove == Types /\ Remove => Types'
<1>. SUFFICES ASSUME Types, Remove PROVE Types'
  OBVIOUS
<1>1. faults' \in 0 .. MaxFaults /\ faults <= faults'
  BY StoreAssumption DEF Types, TypeOK, Remove, Ends
<1>2. PICK gone \in 0 .. fileCount :
        /\ length' = [f \in Files |-> IF f < gone THEN ABSENT ELSE length[f]]
        /\ clean' = (gone > 0)
  BY DEF Remove
<1>3. length' \in [Files -> ABSENT .. MaxFileSize] /\ clean' \in BOOLEAN
  BY <1>2, StoreAssumption DEF Types, TypeOK, ABSENT
<1>. QED  BY <1>1, <1>3, TypesClosed DEF Types, TypeOK, Remove, Ends, Forgotten

LEMMA TypesTornAdd == ASSUME NEW r \in Records PROVE Types /\ TornAdd(r) => Types'
<1>. SUFFICES ASSUME Types, TornAdd(r) PROVE Types'
  OBVIOUS
<1>1. faults' \in 0 .. MaxFaults /\ faults <= faults'
  BY StoreAssumption DEF Types, TypeOK, TornAdd, Ends
<1>2. PICK n \in 0 .. r.size :
        /\ length' = Appended(r.size, n)
        /\ index' \in IF n = r.size THEN {"ready", "torn"} ELSE {"ready"}
        /\ clean' = (clean /\ (n = 0 \/ (Rolls(r.size) /\ index' = "ready")))
  BY DEF TornAdd
<1>3. length' \in [Files -> ABSENT .. MaxFileSize]
  BY <1>2, RecordFacts, Appending DEF TornAdd, Ends
<1>4. clean' \in BOOLEAN /\ index' \in {"ready", "torn"}
  BY <1>2 DEF Types, TypeOK
<1>. QED  BY <1>1, <1>3, <1>4, TypesClosed DEF Types, TypeOK, TornAdd, Ends

\* A store whose index has other marks, and is open or closed as before.
LEMMA TypesTornMark == ASSUME NEW from, NEW to, NEW bit \in {DELETED, EXPIRED} PROVE Types /\ TornMark(from, to, bit) => Types'
<1>. SUFFICES ASSUME Types, TornMark(from, to, bit) PROVE Types'
  OBVIOUS
<1>1. faults' \in 0 .. MaxFaults /\ faults <= faults' /\ faults \in Nat
  BY StoreAssumption DEF Types, TypeOK, TornMark, Ends
<1>2. Mark(from, to, bit) /\ UNCHANGED count
  BY DEF TornMark
<1>3. /\ Seqs' = Seqs /\ \A s \in Seqs : recs'[s].file = recs[s].file
      /\ recs' \in [Seqs -> [file : Files, off : 1 .. MaxFileSize, attr : SUBSET {1, 2, 3, 4}]]
  <2>1. bit \in 1 .. 4
    BY DEF DELETED, EXPIRED
  <2>. QED  BY <1>2, <2>1, Marking
<1>4. ASSUME NEW s \in Seqs PROVE recs'[s].file <= s - Base + 1 + faults'
  <2>1. s \in Int /\ recs[s].file \in Int /\ faults' \in Int
    BY <1>1, StoreAssumption DEF Types, TypeOK, Seqs, Files
  <2>2. recs[s].file <= s - Base + 1 + faults
    BY DEF Types
  <2>. QED  BY <1>1, <1>3, <2>1, <2>2, StoreAssumption
<1>5. TypeOK'
  <2>1. running' \in BOOLEAN /\ clean' \in BOOLEAN /\ short' \in BOOLEAN
    BY Zenon DEF Types, TypeOK, TornMark, Ends
  <2>2. /\ count' \in 0 .. MaxCount /\ fileCount' \in 1 .. MaxCount + MaxFaults + 1
        /\ index' \in {"none", "started", "ready", "torn"}
        /\ length' \in [Files -> ABSENT .. MaxFileSize]
        /\ deleted' \subseteq Seqs' /\ remote' \subseteq Seqs' /\ expired' \subseteq Seqs'
    BY StoreAssumption DEF Types, TypeOK, TornMark, Ends
  <2>. QED  BY <1>1, <1>3, <2>1, <2>2, Zenon DEF TypeOK
<1>6. aged' \subseteq Seqs'
  BY <1>3 DEF Types, TornMark
<1>. QED  BY <1>1, <1>3, <1>4, <1>5, <1>6 DEF Types, TornMark, Ends

LEMMA TypesPowerLoss == Types /\ PowerLoss => Types'
<1>. SUFFICES ASSUME Types, PowerLoss PROVE Types'
  OBVIOUS
<1>1. faults' \in 0 .. MaxFaults /\ faults <= faults' /\ faults \in Nat
  BY StoreAssumption DEF Types, TypeOK, PowerLoss, Ends
<1>2. PICK f \in 0 .. fileCount - 1, c \in 0 .. count :
       /\ \E n \in 0 .. length[f] : length' = [length EXCEPT ![f] = n]
       /\ count' = c
       /\ recs' = [s \in Base .. Base + c - 1 |-> recs[s]]
       /\ place' = [s \in Base .. Base + c - 1 |-> place[s]]
       /\ aged' = aged \cap Base .. Base + c - 1
  BY DEF PowerLoss
<1>3. length' \in [Files -> ABSENT .. MaxFileSize]
  <2>1. f \in Files
    BY StoreAssumption DEF Types, TypeOK, Files
  <2>2. length[f] <= MaxFileSize /\ length[f] \in Int
    BY <2>1, StoreAssumption DEF Types, TypeOK, ABSENT
  <2>3. PICK n \in 0 .. length[f] : length' = [length EXCEPT ![f] = n]
    BY <1>2
  <2>4. n \in ABSENT .. MaxFileSize
    BY <2>2, StoreAssumption DEF ABSENT
  <2>. QED  BY <2>3, <2>4 DEF Types, TypeOK
<1>4. Seqs' = Base .. Base + c - 1 /\ Seqs' \subseteq Seqs /\ count' \in 0 .. MaxCount
  <2>1. count \in 0 .. MaxCount /\ MaxCount \in Nat /\ Base \in Nat /\ count' = c
    BY <1>2, StoreAssumption DEF Types, TypeOK
  <2>2. c \in Nat /\ c <= count
    BY <2>1
  <2>3. Seqs' = Base .. Base + c - 1
    BY <2>1 DEF Seqs
  <2>4. Base .. Base + c - 1 \subseteq Base .. Base + count - 1
    BY <2>1, <2>2
  <2>. QED  BY <2>1, <2>2, <2>3, <2>4 DEF Seqs
<1>5. recs' \in [Seqs' -> [file : Files, off : 1 .. MaxFileSize, attr : SUBSET {1, 2, 3, 4}]]
  BY <1>2, <1>4 DEF Types, TypeOK
<1>6. place' \in [Seqs' -> [file : Nat, from : Nat, to : Nat, flags : SUBSET {DELETED, REMOTE, COMMIT}]]
  BY <1>2, <1>4 DEF Types
<1>7. ASSUME NEW s \in Seqs' PROVE recs'[s].file <= s - Base + 1 + faults'
  <2>1. recs'[s] = recs[s] /\ s \in Seqs /\ s \in Int /\ recs[s].file \in Nat
    BY <1>2, <1>4, StoreAssumption DEF Types, TypeOK, Seqs, Files
  <2>2. recs[s].file <= s - Base + 1 + faults
    BY <2>1 DEF Types
  <2>. QED  BY <1>1, <2>1, <2>2, StoreAssumption
<1>8. TypeOK'
  <2>1. running' \in BOOLEAN /\ clean' \in BOOLEAN /\ short' \in BOOLEAN
    BY Zenon DEF Types, TypeOK, PowerLoss, Ends
  <2>2. /\ fileCount' \in 1 .. MaxCount + MaxFaults + 1
        /\ index' \in {"none", "started", "ready", "torn"}
        /\ deleted' \subseteq Seqs' /\ remote' \subseteq Seqs' /\ expired' \subseteq Seqs'
    BY StoreAssumption DEF Types, TypeOK, PowerLoss, Ends
  <2>. QED  BY <1>1, <1>3, <1>4, <1>5, <2>1, <2>2, Zenon DEF TypeOK
<1>9. index' = "ready"
  BY DEF Types, PowerLoss, Ends
<1>. QED  BY <1>2, <1>4, <1>6, <1>7, <1>8, <1>9 DEF Types, PowerLoss, Ends

LEMMA TypesAdd == ASSUME NEW r \in Records PROVE Types /\ add(r) => Types'
<1>. SUFFICES ASSUME Types, add(r) PROVE Types'
  OBVIOUS
<1>. DEFINE s == Base + count
<1>1. running /\ count < MaxCount /\ running' = running /\ faults' = faults /\ count' = count + 1
      /\ index' = index /\ aged' = aged /\ expired' = expired
  BY DEF add
<1>2. /\ r.size \in 1 .. MaxFileSize /\ r.flags \in SUBSET {DELETED, REMOTE, COMMIT}
      /\ Attr(r.flags, s) \in SUBSET {1, 2, 3, 4}
  BY RecordFacts DEF Attr, DELETED
<1>3. /\ count \in Nat /\ faults \in 0 .. MaxFaults /\ Base \in Nat /\ fileCount \in Nat
      /\ fileCount <= count + faults + 1 /\ MaxCount \in Nat /\ MaxFaults \in Nat
  BY <1>1, StoreAssumption DEF Types, TypeOK
<1>4. /\ Target(r.size) \in Files /\ Target(r.size) <= count + faults + 1
      /\ Start(r.size) \in Nat /\ Start(r.size) + r.size \in 1 .. MaxFileSize
      /\ length' \in [Files -> ABSENT .. MaxFileSize]
      /\ length'[Target(r.size)] # ABSENT
  <2>1. length' = Appended(r.size, r.size) /\ r.size \in 0 .. r.size
    BY <1>2, StoreAssumption DEF add
  <2>2. /\ Target(r.size) \in {fileCount - 1, fileCount} /\ fileCount - 1 \in Files /\ fileCount \in Files
        /\ Start(r.size) \in 0 .. MaxFileSize /\ Start(r.size) + r.size \in 1 .. MaxFileSize
        /\ length' \in [Files -> ABSENT .. MaxFileSize]
        /\ length'[Target(r.size)] = Start(r.size) + r.size
    BY <1>1, <1>2, <2>1, Appending
  <2>. QED  BY <1>3, <2>2, StoreAssumption DEF ABSENT
<1>5. s \notin Seqs /\ Seqs' = Seqs \cup {s}
  BY Adding
<1>6. recs' \in [Seqs' -> [file : Files, off : 1 .. MaxFileSize, attr : SUBSET {1, 2, 3, 4}]]
  <2>1. recs' = [t \in Seqs' |-> IF t = s THEN [file |-> Target(r.size), off |-> Start(r.size) + r.size,
                                                attr |-> Attr(r.flags, s)] ELSE recs[t]]
    BY Adding
  <2>. QED  BY <1>2, <1>4, <1>5, <2>1 DEF Types, TypeOK
<1>7. place' \in [Seqs' -> [file : Nat, from : Nat, to : Nat, flags : SUBSET {DELETED, REMOTE, COMMIT}]]
  <2>1. place' = [t \in Seqs' |-> IF t = s THEN [file |-> Target(r.size), from |-> Start(r.size),
                                                 to |-> Start(r.size) + r.size, flags |-> r.flags] ELSE place[t]]
    BY Adding
  <2>2. Target(r.size) \in Nat /\ Start(r.size) + r.size \in Nat
    BY <1>4, StoreAssumption DEF Files
  <2>. QED  BY <1>2, <1>4, <1>5, <2>1, <2>2 DEF Types
<1>8. trans' \in [Seqs' -> Nat]
  <2>1. trans' = [t \in Seqs' |-> IF t = s THEN TransState(Attr(r.flags, s)) ELSE trans[t]]
    BY Adding
  <2>2. TransState(Attr(r.flags, s)) \in Nat
    BY DEF TransState
  <2>. QED  BY <1>1, <1>5, <2>1, <2>2 DEF Types
<1>9. ASSUME NEW t \in Seqs' PROVE recs'[t].file <= t - Base + 1 + faults'
  <2>1. recs' = [u \in Seqs' |-> IF u = s THEN [file |-> Target(r.size), off |-> Start(r.size) + r.size,
                                                attr |-> Attr(r.flags, s)] ELSE recs[u]]
    BY Adding
  <2>2. CASE t = s
    BY <1>1, <1>3, <1>4, <2>1, <2>2
  <2>3. CASE t # s
    BY <1>1, <1>5, <2>1, <2>3 DEF Types
  <2>. QED  BY <2>2, <2>3
<1>10. TypeOK'
  <2>1. running' \in BOOLEAN /\ clean' \in BOOLEAN /\ short' \in BOOLEAN
    BY Zenon DEF Types, TypeOK, add
  <2>2. count' \in 0 .. MaxCount /\ faults' \in 0 .. MaxFaults
    BY <1>1, <1>3
  <2>3. fileCount' \in 1 .. MaxCount + MaxFaults + 1
    BY <1>4, <1>3 DEF Files, add
  <2>4. deleted' \subseteq Seqs' /\ remote' \subseteq Seqs' /\ expired' \subseteq Seqs'
    BY <1>5 DEF add, Types, TypeOK
  <2>. QED  BY <1>1, <1>4, <1>6, <2>1, <2>2, <2>3, <2>4 DEF Types, TypeOK
<1>11. fileCount' <= count' + faults' + 1 /\ length'[fileCount' - 1] # ABSENT
  <2>1. fileCount' = Target(r.size) + 1 /\ Target(r.size) \in Int
    BY <1>4, StoreAssumption DEF add, Files
  <2>. QED  BY <1>1, <1>3, <1>4, <2>1
<1>. QED  BY <1>1, <1>5, <1>7, <1>8, <1>9, <1>10, <1>11 DEF Types

LEMMA TypesShortWrite == ASSUME NEW r \in Records PROVE Types /\ ShortWrite(r) => Types'
<1>. SUFFICES ASSUME Types, ShortWrite(r) PROVE Types'
  OBVIOUS
<1>1. /\ running /\ count < MaxCount /\ running' = running /\ faults' = faults + 1 /\ faults' <= MaxFaults
      /\ count \in Nat /\ faults \in Nat /\ Base \in Nat /\ fileCount \in Nat
      /\ fileCount <= count + faults + 1 /\ MaxCount \in Nat /\ MaxFaults \in Nat
  BY StoreAssumption DEF Types, TypeOK, ShortWrite
<1>2. r.size \in 1 .. MaxFileSize
  BY RecordFacts
<1>3. PICK n \in 0 .. r.size - 1 : length' = Appended(r.size, n)
  BY DEF ShortWrite
<1>4. /\ Target(r.size) \in Files /\ Target(r.size) <= count + faults + 1
      /\ length' \in [Files -> ABSENT .. MaxFileSize]
      /\ length'[Target(r.size)] # ABSENT
  <2>1. n \in 0 .. r.size
    BY <1>2, <1>3, StoreAssumption
  <2>2. /\ Target(r.size) \in {fileCount - 1, fileCount} /\ fileCount - 1 \in Files /\ fileCount \in Files
        /\ Start(r.size) \in 0 .. MaxFileSize
        /\ length' \in [Files -> ABSENT .. MaxFileSize]
        /\ length'[Target(r.size)] = Start(r.size) + n
    BY <1>1, <1>2, <1>3, <2>1, Appending
  <2>. QED  BY <1>1, <2>1, <2>2, StoreAssumption DEF ABSENT
<1>5. Seqs' = Seqs /\ recs' = recs /\ place' = place /\ aged' = aged /\ trans' = trans /\ index' = index
      /\ fileCount' = Target(r.size) + 1
  BY DEF ShortWrite, Seqs
<1>6. ASSUME NEW s \in Seqs PROVE recs[s].file <= s - Base + 1 + faults'
  <2>1. s \in Int /\ recs[s].file \in Int
    BY StoreAssumption DEF Types, TypeOK, Seqs, Files
  <2>2. recs[s].file <= s - Base + 1 + faults
    BY DEF Types
  <2>. QED  BY <1>1, <2>1, <2>2
<1>7. TypeOK'
  <2>1. running' \in BOOLEAN /\ clean' \in BOOLEAN /\ short' \in BOOLEAN
    BY Zenon DEF Types, TypeOK, ShortWrite
  <2>2. fileCount' \in 1 .. MaxCount + MaxFaults + 1
    BY <1>1, <1>4, <1>5 DEF Files
  <2>3. faults' \in 0 .. MaxFaults
    BY <1>1
  <2>. QED  BY <1>4, <1>5, <2>1, <2>2, <2>3 DEF Types, TypeOK, ShortWrite
<1>8. fileCount' <= count' + faults' + 1 /\ length'[fileCount' - 1] # ABSENT
  <2>1. Target(r.size) \in Int /\ count' = count
    BY <1>4, StoreAssumption DEF Files, ShortWrite
  <2>. QED  BY <1>1, <1>4, <1>5, <2>1
<1>. QED  BY <1>1, <1>5, <1>6, <1>7, <1>8 DEF Types

\* A mark on an open store.
LEMMA TypesMarked ==
  ASSUME Types, running, NEW from, NEW to, NEW bit \in 1 .. 4, Mark(from, to, bit),
         UNCHANGED <<running, fileCount, remote, trans, index, count, length, place, clean, short, faults>>,
         deleted' \subseteq Seqs, expired' \subseteq Seqs, aged' \subseteq Seqs
  PROVE  Types'
<1>1. /\ Seqs' = Seqs /\ \A s \in Seqs : recs'[s].file = recs[s].file
      /\ recs' \in [Seqs -> [file : Files, off : 1 .. MaxFileSize, attr : SUBSET {1, 2, 3, 4}]]
  BY Marking
<1>2. TypeOK'
  BY <1>1 DEF Types, TypeOK
<1>. QED  BY <1>1, <1>2 DEF Types

LEMMA TypesMarkDeleted == ASSUME NEW from, NEW to PROVE Types /\ markDeleted(from, to) => Types'
<1>. SUFFICES ASSUME Types, markDeleted(from, to) PROVE Types'
  OBVIOUS
<1>1. DELETED \in 1 .. 4
  BY DEF DELETED
<1>2. deleted' \subseteq Seqs /\ expired' \subseteq Seqs /\ aged' \subseteq Seqs
  BY DEF markDeleted, Types, TypeOK
<1>. QED  BY <1>1, <1>2, TypesMarked DEF markDeleted

LEMMA TypesMarkExpired == ASSUME NEW from, NEW to PROVE Types /\ markExpired(from, to) => Types'
<1>. SUFFICES ASSUME Types, markExpired(from, to) PROVE Types'
  OBVIOUS
<1>1. EXPIRED \in 1 .. 4
  BY DEF EXPIRED
<1>2. deleted' \subseteq Seqs /\ expired' \subseteq Seqs /\ aged' \subseteq Seqs
  BY DEF markExpired, Types, TypeOK
<1>. QED  BY <1>1, <1>2, TypesMarked DEF markExpired

LEMMA TypesNext == Types /\ [Next]_vars => Types'
<1>1. Types /\ UNCHANGED vars => Types'
  <2>. SUFFICES ASSUME Types, UNCHANGED vars PROVE Types'
    OBVIOUS
  <2>1. UNCHANGED <<running, fileCount, deleted, remote, expired, trans, early, index, count, recs, length,
                    place, told, aged, clean, short, faults>> /\ Seqs' = Seqs
    BY DEF vars, memory, disk, history, Seqs
  <2>. QED  BY <2>1 DEF Types, TypeOK
<1>. QED
  BY <1>1, TypesOpen, TypesTornCreate, TypesRecreate, TypesTornRecreate, TypesCrash, TypesPowerLoss, TypesRemove,
     TypesAdd, TypesShortWrite, TypesTornAdd, TypesMarkDeleted, TypesMarkExpired, TypesTornMark DEF Next

LEMMA TypesAlways == Spec => []Types
<1>. QED  BY TypesInit, TypesNext, PTL DEF Spec

\* The store's variables keep their types, no data file grows over its limit, and the
\* files are numbered by what was written.
THEOREM TypeCorrect == Spec => []TypeOK
<1>1. Types => TypeOK
  BY DEF Types
<1>. QED  BY <1>1, TypesAlways, PTL

-----------------------------------------------------------------------------
(* Marks *)

LEMMA MarksInit == Init => Marks
<1>. SUFFICES ASSUME Init PROVE Marks
  OBVIOUS
<1>1. Seqs = {}
  BY StoreAssumption, SMT DEF Init, Seqs
<1>. QED  BY <1>1 DEF Marks, Bytewise, Init

\* An emptied store has nothing to remember.
LEMMA MarksEmptied ==
  ASSUME count' = 0, told' = {}, early' = {}, deleted' = {}, remote' = {}, expired' = {}, aged' = {}
  PROVE  Marks'
<1>1. Seqs' = {}
  BY StoreAssumption, SMT DEF Seqs
<1>. QED  BY <1>1 DEF Marks, Bytewise, Marked

\* A store that ends keeps the bytes of the records that are left, and forgets the
\* deletions of records that did not come.
LEMMA MarksClosed ==
  ASSUME Marks, running' = FALSE, Seqs' \subseteq Seqs,
         told' = told \cap Seqs', aged' = aged \cap Seqs',
         \A s \in Seqs' : recs'[s].attr = recs[s].attr /\ place'[s].flags = place[s].flags
  PROVE  Marks'
<1>1. Bytewise'
  BY DEF Marks, Bytewise
<1>. QED  BY <1>1 DEF Marks

LEMMA MarksOpen == Types /\ Marks /\ Open => Marks'
<1>. SUFFICES ASSUME Types, Marks, Open PROVE Marks'
  OBVIOUS
<1>1. /\ Seqs' = Seqs /\ recs' = recs /\ place' = place /\ told' = told /\ aged' = aged
      /\ early' = {} /\ told \subseteq Seqs /\ running'
      /\ trans' = [s \in Seqs |-> TransState(recs[s].attr)]
      /\ deleted' = Marked(DELETED) /\ remote' = Marked(REMOTE) /\ expired' = aged' \ dropped'
  BY DEF Open, Seqs, Marks
<1>2. Bytewise'
  BY <1>1 DEF Marks, Bytewise
<1>3. deleted' = Marked(DELETED)' /\ remote' = Marked(REMOTE)'
  BY <1>1 DEF Marked, DELETED, REMOTE
<1>. QED  BY <1>1, <1>2, <1>3 DEF Marks

LEMMA MarksTornCreate == Types /\ Marks /\ TornCreate => Marks'
<1>. SUFFICES ASSUME Types, Marks, TornCreate PROVE Marks'
  OBVIOUS
<1>1. running' = FALSE /\ Seqs' = Seqs /\ told' = told /\ aged' = aged
  BY DEF TornCreate, Seqs, Types, TypeOK
<1>2. told \subseteq Seqs /\ aged \subseteq Seqs
  BY DEF Marks, Types, TornCreate
<1>. QED  BY <1>1, <1>2, MarksClosed DEF TornCreate

LEMMA MarksAdd == ASSUME NEW r \in Records PROVE Types /\ Marks /\ add(r) => Marks'
<1>. SUFFICES ASSUME Types, Marks, add(r) PROVE Marks'
  OBVIOUS
<1>. DEFINE s == Base + count
            attr == Attr(r.flags, s)
<1>1. /\ running /\ told' = told /\ aged' = aged /\ early' = early \ {s}
      /\ expired' = expired /\ dropped' = dropped
      /\ remote' = (IF REMOTE \in attr THEN remote \cup {s} ELSE remote)
      /\ deleted' = (IF DELETED \in attr THEN deleted \cup {s} ELSE deleted)
  BY DEF add
<1>2. s \notin Seqs /\ Seqs' = Seqs \cup {s}
  BY Adding
<1>3. /\ recs'[s].attr = attr /\ place'[s].flags = r.flags /\ trans'[s] = TransState(attr)
      /\ \A t \in Seqs : recs'[t] = recs[t] /\ place'[t] = place[t] /\ trans'[t] = trans[t]
  <2>1. recs' = [t \in Seqs' |-> IF t = s THEN [file |-> Target(r.size), off |-> Start(r.size) + r.size,
                                                attr |-> attr] ELSE recs[t]]
    BY Adding
  <2>2. place' = [t \in Seqs' |-> IF t = s THEN [file |-> Target(r.size), from |-> Start(r.size),
                                                 to |-> Start(r.size) + r.size, flags |-> r.flags] ELSE place[t]]
    BY Adding
  <2>3. trans' = [t \in Seqs' |-> IF t = s THEN TransState(attr) ELSE trans[t]]
    BY Adding
  <2>. HIDE DEF s, attr
  <2>. QED  BY <1>2, <2>1, <2>2, <2>3
<1>4. s \in early <=> s \in told
  BY <1>1, <1>2 DEF Marks
<1>5. s \notin aged /\ EXPIRED \notin r.flags
  BY <1>2, RecordFacts DEF Types, EXPIRED, DELETED, REMOTE, COMMIT
<1>6. /\ DELETED \in attr <=> s \in told \/ DELETED \in r.flags
      /\ REMOTE \in attr <=> REMOTE \in r.flags
      /\ EXPIRED \in attr <=> s \in aged
      /\ COMMIT \in attr <=> COMMIT \in r.flags
  BY <1>4, <1>5 DEF Attr, DELETED, REMOTE, EXPIRED, COMMIT
<1>. HIDE DEF s, attr
<1>7. Bytewise'
  BY <1>1, <1>2, <1>3, <1>6 DEF Marks, Bytewise, DELETED, REMOTE, EXPIRED, COMMIT
<1>8. early' = told' \ Seqs'
  BY <1>1, <1>2 DEF Marks
<1>9. deleted' = Marked(DELETED)'
  <2>1. deleted = Marked(DELETED)
    BY <1>1 DEF Marks
  <2>2. Marked(DELETED)' = {t \in Seqs' : DELETED \in recs'[t].attr}
    BY DEF Marked, DELETED
  <2>. QED  BY <1>1, <1>2, <1>3, <2>1, <2>2 DEF Marked
<1>10. remote' = Marked(REMOTE)'
  <2>1. remote = Marked(REMOTE)
    BY <1>1 DEF Marks
  <2>2. Marked(REMOTE)' = {t \in Seqs' : REMOTE \in recs'[t].attr}
    BY DEF Marked, REMOTE
  <2>. QED  BY <1>1, <1>2, <1>3, <2>1, <2>2 DEF Marked
<1>11. ASSUME NEW t \in Seqs' \ aged' PROVE trans'[t] = TransState(recs'[t].attr)
  BY <1>1, <1>2, <1>3 DEF Marks
<1>12. running' /\ running /\ expired' = aged' \ dropped'
  BY <1>1 DEF add, Marks
<1>. QED  BY <1>7, <1>8, <1>9, <1>10, <1>11, <1>12 DEF Marks

\* Marking a range of records deleted changes that bit of their bytes only.
LEMMA MarkedDeleted ==
  ASSUME Types, Marks, NEW from, NEW to, Mark(from, to, DELETED),
         UNCHANGED <<count, place, aged>>,
         \A s \in Seqs : s \in told' <=> s \in told \/ s \in from .. to
  PROVE  Bytewise'
<1>1. /\ Seqs' = Seqs
      /\ \A s \in Seqs : \A b : b \in recs'[s].attr <=> b \in recs[s].attr \/ (b = DELETED /\ s \in from .. to)
  BY MarkingBits
<1>. QED  BY <1>1, Bits DEF Marks, Bytewise

LEMMA MarksMarkDeleted == ASSUME NEW from, NEW to PROVE Types /\ Marks /\ markDeleted(from, to) => Marks'
<1>. SUFFICES ASSUME Types, Marks, markDeleted(from, to) PROVE Marks'
  OBVIOUS
<1>1. /\ running /\ running' /\ Mark(from, to, DELETED) /\ UNCHANGED <<count, place, aged>>
      /\ told' = told \cup from .. to /\ early' = early \cup (from .. to \ Seqs)
      /\ deleted' = deleted \cup (from .. to \cap Seqs) /\ remote' = remote /\ trans' = trans
      /\ expired' = expired /\ dropped' = dropped
  BY DEF markDeleted
<1>2. /\ Seqs' = Seqs
      /\ \A s \in Seqs : \A b : b \in recs'[s].attr <=> b \in recs[s].attr \/ (b = DELETED /\ s \in from .. to)
  BY <1>1, MarkingBits
<1>3. Bytewise'
  BY <1>1, MarkedDeleted
<1>4. /\ early = told \ Seqs /\ deleted = Marked(DELETED) /\ remote = Marked(REMOTE)
      /\ \A s \in Seqs \ aged : trans[s] = TransState(recs[s].attr)
  BY <1>1 DEF Marks
<1>5. early' = told' \ Seqs'
  BY <1>1, <1>2, <1>4
<1>6. deleted' = {s \in Seqs' : DELETED \in recs'[s].attr}
  BY <1>1, <1>2, <1>4 DEF Marked
<1>7. remote' = {s \in Seqs' : REMOTE \in recs'[s].attr}
  BY <1>1, <1>2, <1>4, Bits DEF Marked
<1>8. ASSUME NEW s \in Seqs PROVE TransState(recs'[s].attr) = TransState(recs[s].attr)
  <2>1. (3 \in recs'[s].attr <=> 3 \in recs[s].attr) /\ (4 \in recs'[s].attr <=> 4 \in recs[s].attr)
    BY <1>2, Bits
  <2>. QED  BY <2>1 DEF TransState
<1>9. deleted' = Marked(DELETED)' /\ remote' = Marked(REMOTE)'
  BY <1>6, <1>7 DEF Marked, DELETED, REMOTE
<1>. QED  BY <1>1, <1>2, <1>3, <1>4, <1>5, <1>8, <1>9 DEF Marks

LEMMA MarksTornMark ==
  ASSUME NEW from, NEW to, NEW bit \in {DELETED, EXPIRED}
  PROVE  Types /\ Marks /\ TornMark(from, to, bit) => Marks'
<1>. SUFFICES ASSUME Types, Marks, TornMark(from, to, bit) PROVE Marks'
  OBVIOUS
<1>1. /\ running' = FALSE /\ Mark(from, to, bit) /\ UNCHANGED <<count, place>>
      /\ told' = (told \cap Seqs) \cup (IF bit = DELETED THEN from .. to ELSE {})
      /\ aged' = aged \cup (IF bit = EXPIRED THEN from .. to ELSE {})
      /\ from .. to \subseteq Seqs /\ Seqs' = Seqs
  BY DEF TornMark, Ends, Seqs
<1>2. CASE bit = DELETED
  <2>1. aged' = aged
    BY <1>1, <1>2 DEF DELETED, EXPIRED
  <2>2. Bytewise'
    BY <1>1, <1>2, <2>1, MarkedDeleted
  <2>. QED  BY <1>1, <1>2, <2>2 DEF Marks
<1>3. CASE bit = EXPIRED
  <2>1. told' = told \cap Seqs /\ aged' = aged \cup from .. to
    BY <1>1, <1>3 DEF DELETED, EXPIRED
  <2>2. \A s \in Seqs : \A b : b \in recs'[s].attr <=> b \in recs[s].attr \/ (b = EXPIRED /\ s \in from .. to)
    BY <1>1, <1>3, MarkingBits
  <2>3. Bytewise'
    BY <1>1, <2>1, <2>2, Bits DEF Marks, Bytewise
  <2>. QED  BY <1>1, <2>1, <2>3 DEF Marks
<1>. QED  BY <1>2, <1>3

LEMMA MarksMarkExpired == ASSUME NEW from, NEW to PROVE Types /\ Marks /\ markExpired(from, to) => Marks'
<1>. SUFFICES ASSUME Types, Marks, markExpired(from, to) PROVE Marks'
  OBVIOUS
<1>1. /\ running /\ running' /\ Mark(from, to, EXPIRED) /\ UNCHANGED <<count, place, told>>
      /\ aged' = aged \cup (from .. to \cap Seqs) /\ early' = early
      /\ deleted' = deleted /\ remote' = remote /\ trans' = trans
      /\ expired' = expired \cup (from .. to \cap Seqs) /\ dropped' = dropped \ from .. to
  BY DEF markExpired
<1>2. /\ Seqs' = Seqs
      /\ \A s \in Seqs : \A b : b \in recs'[s].attr <=> b \in recs[s].attr \/ (b = EXPIRED /\ s \in from .. to)
  BY <1>1, MarkingBits
<1>3. Bytewise'
  BY <1>1, <1>2, Bits DEF Marks, Bytewise
<1>4. /\ early = told \ Seqs /\ deleted = Marked(DELETED) /\ remote = Marked(REMOTE)
      /\ \A s \in Seqs \ aged : trans[s] = TransState(recs[s].attr)
  BY <1>1 DEF Marks
<1>5. deleted' = {s \in Seqs' : DELETED \in recs'[s].attr}
  BY <1>1, <1>2, <1>4, Bits DEF Marked
<1>6. remote' = {s \in Seqs' : REMOTE \in recs'[s].attr}
  BY <1>1, <1>2, <1>4, Bits DEF Marked
<1>7. ASSUME NEW s \in Seqs' \ aged' PROVE trans'[s] = TransState(recs'[s].attr)
  <2>1. s \in Seqs \ aged /\ s \notin from .. to
    BY <1>1, <1>2
  <2>2. (3 \in recs'[s].attr <=> 3 \in recs[s].attr) /\ (4 \in recs'[s].attr <=> 4 \in recs[s].attr)
    BY <1>2, <2>1
  <2>. QED  BY <1>1, <1>4, <2>1, <2>2 DEF TransState
<1>8. deleted' = Marked(DELETED)' /\ remote' = Marked(REMOTE)'
  BY <1>5, <1>6 DEF Marked, DELETED, REMOTE
<1>9. expired' = aged' \ dropped'
  BY <1>1 DEF Marks, Types
<1>. QED  BY <1>1, <1>2, <1>3, <1>4, <1>7, <1>8, <1>9 DEF Marks

LEMMA MarksPowerLoss == Types /\ Marks /\ PowerLoss => Marks'
<1>. SUFFICES ASSUME Types, Marks, PowerLoss PROVE Marks'
  OBVIOUS
<1>1. PICK c \in 0 .. count :
       /\ count' = c
       /\ recs' = [s \in Base .. Base + c - 1 |-> recs[s]]
       /\ place' = [s \in Base .. Base + c - 1 |-> place[s]]
       /\ told' = told \cap Base .. Base + c - 1
       /\ aged' = aged \cap Base .. Base + c - 1
  BY DEF PowerLoss
<1>2. Seqs' = Base .. Base + c - 1
  BY <1>1 DEF Seqs
<1>3. Seqs' \subseteq Seqs
  <2>1. count \in Nat /\ Base \in Nat
    BY StoreAssumption DEF Types, TypeOK
  <2>2. c \in Nat /\ c <= count
    BY <2>1
  <2>3. Base .. Base + c - 1 \subseteq Base .. Base + count - 1
    BY <2>1, <2>2
  <2>. QED  BY <1>2, <2>3 DEF Seqs
<1>4. running' = FALSE
  BY DEF PowerLoss, Ends
<1>. QED  BY <1>1, <1>2, <1>3, <1>4, MarksClosed

LEMMA MarksCrash == Types /\ Marks /\ (Crash \/ \E r \in Records : TornAdd(r)) => Marks'
<1>. SUFFICES ASSUME Types, Marks, Crash \/ \E r \in Records : TornAdd(r) PROVE Marks'
  OBVIOUS
<1>1. running' = FALSE /\ Seqs' = Seqs /\ told' = told \cap Seqs /\ UNCHANGED <<recs, place, aged>>
  BY DEF Crash, TornAdd, Ends, disk, Seqs
<1>2. aged \subseteq Seqs
  BY DEF Types
<1>. QED  BY <1>1, <1>2, MarksClosed

LEMMA MarksNext == Types /\ Marks /\ [Next]_vars => Marks'
<1>1. Types /\ Marks /\ (UNCHANGED vars \/ \E r \in Records : ShortWrite(r)) => Marks'
  <2>. SUFFICES ASSUME Marks, UNCHANGED vars \/ \E r \in Records : ShortWrite(r) PROVE Marks'
    OBVIOUS
  <2>1. UNCHANGED <<running, deleted, remote, expired, trans, early, recs, place, told, aged, dropped>> /\ Seqs' = Seqs
    BY DEF vars, memory, disk, history, Seqs, ShortWrite
  <2>. QED  BY <2>1 DEF Marks, Bytewise, Marked
<1>2. Types /\ Marks /\ Remove => Marks'
  BY MarksEmptied DEF Remove, Ends, Forgotten
<1>3. Types /\ Marks /\ Recreate => Marks'
  BY MarksEmptied DEF Recreate, Forgotten
<1>4. Types /\ Marks /\ TornRecreate => Marks'
  <2>. SUFFICES ASSUME Types, Marks, TornRecreate PROVE Marks'
    OBVIOUS
  <2>1. early' = {} /\ deleted' = {} /\ remote' = {} /\ expired' = {}
    BY DEF Types, TornRecreate, memory
  <2>. QED  BY <2>1, MarksEmptied DEF TornRecreate, Forgotten
<1>. QED
  BY <1>1, <1>2, <1>3, <1>4, MarksOpen, MarksTornCreate, MarksAdd, MarksMarkDeleted, MarksTornMark,
     MarksMarkExpired, MarksPowerLoss, MarksCrash DEF Next

\* What the callers asked to mark is what the sets in memory and the index hold, for any
\* number of records and restarts, of crashes in the middle of a mark or of an add, and of
\* files that were cut; the set of expired records has those that were marked since the
\* store was opened.
THEOREM MarksAreKeptCorrect == Spec => []MarksAreKept
<1>1. Types /\ Marks => MarksAreKept
  <2>. SUFFICES ASSUME Types, Marks, running PROVE MarksAreKept
    BY DEF MarksAreKept, Marks, Bytewise
  <2>1. deleted = Marked(DELETED) /\ remote = Marked(REMOTE)
    BY DEF Marks
  <2>2. deleted = {s \in Seqs : s \in told \/ DELETED \in place[s].flags}
    BY <2>1 DEF Marks, Bytewise, Marked
  <2>3. remote = {s \in Seqs : REMOTE \in place[s].flags}
    BY <2>1 DEF Marks, Bytewise, Marked
  <2>4. ASSUME NEW s \in Seqs \ aged PROVE trans[s] = TransState(place[s].flags)
    <3>1. trans[s] = TransState(recs[s].attr)
      BY DEF Marks
    <3>2. 3 \notin recs[s].attr /\ (4 \in recs[s].attr <=> 4 \in place[s].flags)
      BY DEF Marks, Bytewise, EXPIRED, COMMIT
    <3>3. 3 \notin place[s].flags
      BY DEF Types, DELETED, REMOTE, COMMIT
    <3>. QED  BY <3>1, <3>2, <3>3 DEF TransState
  <2>5. expired = aged \ dropped /\ \A s \in Seqs : EXPIRED \in recs[s].attr <=> s \in aged
    BY DEF Marks, Bytewise
  <2>. QED  BY <2>2, <2>3, <2>4, <2>5 DEF MarksAreKept
<1>2. Spec => []Marks
  BY MarksInit, MarksNext, TypesAlways, PTL DEF Spec
<1>. QED  BY <1>1, <1>2, TypesAlways, PTL

-----------------------------------------------------------------------------
(* Where the records lie *)

LEMMA RecordTypes ==
  ASSUME Types, NEW s \in Seqs
  PROVE  /\ count > 0 /\ s \in Int /\ Base <= s /\ s <= Last /\ Last \in Seqs
         /\ recs[s].file \in Nat /\ recs[s].off \in 1 .. MaxFileSize /\ recs[s].off \in Nat
         /\ place[s].from \in Nat
         /\ Before(s).file \in Nat /\ Before(s).off \in Nat
         /\ s = Base => Before(s) = [file |-> 0, off |-> 0]
         /\ s # Base => s - 1 \in Seqs /\ Before(s) = [file |-> recs[s - 1].file, off |-> recs[s - 1].off]
<1>1. count \in Nat /\ Base \in Nat
  BY StoreAssumption DEF Types, TypeOK
<1>2. count > 0 /\ s \in Int /\ Base <= s /\ s <= Last /\ Last \in Seqs
  BY <1>1 DEF Seqs, Last
<1>3. ASSUME NEW t \in Seqs PROVE recs[t].file \in Nat /\ recs[t].off \in 1 .. MaxFileSize /\ recs[t].off \in Nat
  <2>1. recs[t] \in [file : Files, off : 1 .. MaxFileSize, attr : SUBSET {1, 2, 3, 4}]
    BY DEF Types, TypeOK
  <2>2. recs[t].file \in Files /\ recs[t].off \in 1 .. MaxFileSize
    BY <2>1
  <2>. QED  BY <2>2, StoreAssumption DEF Files
<1>4. s = Base => Before(s) = [file |-> 0, off |-> 0]
  BY DEF Before
<1>5. s # Base => s - 1 \in Seqs /\ Before(s) = [file |-> recs[s - 1].file, off |-> recs[s - 1].off]
  <2>1. s # Base => s - 1 \in Seqs
    BY <1>1, <1>2 DEF Seqs
  <2>. QED  BY <2>1 DEF Before
<1>6. Before(s).file \in Nat /\ Before(s).off \in Nat
  BY <1>3, <1>4, <1>5
<1>7. place[s].from \in Nat
  BY DEF Types
<1>. QED  BY <1>2, <1>3, <1>4, <1>5, <1>6, <1>7

\* No record lies behind the last one.
LEMMA LastIsBehind ==
  ASSUME Types, Laid, NEW s \in Seqs
  PROVE  /\ recs[s].file <= LastFile
         /\ recs[s].file = LastFile => recs[s].off <= Before(Last + 1).off
         /\ Before(s).file <= recs[s].file
         /\ Before(s).file <= LastFile
<1>1. Before(Last + 1) = [file |-> recs[Last].file, off |-> recs[Last].off] /\ LastFile = recs[Last].file
  BY RecordTypes, LastEnd DEF LastFile
<1>2. /\ s \in Int /\ Last \in Int /\ s <= Last /\ Last \in Seqs /\ Base \in Int
      /\ recs[s].file \in Nat /\ recs[s].off \in Nat /\ recs[Last].file \in Nat /\ recs[Last].off \in Nat
  BY RecordTypes, StoreAssumption
<1>3. recs[s].file < recs[Last].file \/ (recs[s].file = recs[Last].file /\ recs[s].off <= recs[Last].off)
  <2>1. CASE s = Last
    BY <1>2, <2>1
  <2>2. CASE s < Last
    <3>1. \/ recs[s].file < recs[Last].file
          \/ recs[s].file = recs[Last].file /\ recs[s].off < recs[Last].off
      BY <1>2, <2>2 DEF Laid
    <3>. QED  BY <1>2, <3>1
  <2>. QED  BY <1>2, <2>1, <2>2
<1>4. Before(s).file <= recs[s].file
  <2>1. CASE s = Base
    BY <1>2, <2>1, RecordTypes
  <2>2. CASE s # Base
    <3>1. s - 1 \in Seqs /\ Before(s).file = recs[s - 1].file /\ recs[s - 1].file \in Nat /\ s - 1 < s
      BY <1>2, <2>2, RecordTypes
    <3>2. recs[s - 1].file < recs[s].file \/ recs[s - 1].file = recs[s].file
      BY <3>1 DEF Laid
    <3>. QED  BY <1>2, <3>1, <3>2
  <2>. QED  BY <2>1, <2>2
<1>5. Before(s).file \in Nat
  BY RecordTypes
<1>. QED  BY <1>1, <1>2, <1>3, <1>4, <1>5

\* Records that were left where they are.
LEMMA Untouched ==
  ASSUME Types, NEW c \in 0 .. count, count' = c,
         \A s \in Base .. Base + c - 1 : recs'[s].file = recs[s].file /\ recs'[s].off = recs[s].off
  PROVE  /\ Seqs' = Base .. Base + c - 1 /\ Seqs' \subseteq Seqs
         /\ \A s \in Seqs' : Before(s)' = Before(s) /\ Region(s)' = Region(s)
<1>1. count \in Nat /\ Base \in Nat
  BY StoreAssumption DEF Types, TypeOK
<1>2. c \in Nat /\ c <= count
  BY <1>1
<1>3. Seqs' = Base .. Base + c - 1
  BY DEF Seqs
<1>4. Seqs' \subseteq Seqs
  <2>1. Base .. Base + c - 1 \subseteq Base .. Base + count - 1
    BY <1>1, <1>2
  <2>. QED  BY <1>3, <2>1 DEF Seqs
<1>5. ASSUME NEW s \in Seqs' PROVE Before(s)' = Before(s) /\ Region(s)' = Region(s)
  <2>1. s # Base => s - 1 \in Base .. Base + c - 1
    BY <1>1, <1>2, <1>3
  <2>2. Before(s)' = Before(s)
    BY <2>1 DEF Before
  <2>. QED  BY <1>3, <2>2 DEF Region
<1>. QED  BY <1>3, <1>4, <1>5

LEMMA LaidUntouched ==
  ASSUME Types, Laid, NEW c \in 0 .. count, count' = c,
         \A s \in Base .. Base + c - 1 : /\ recs'[s].file = recs[s].file /\ recs'[s].off = recs[s].off
                                         /\ place'[s] = place[s],
         short' = short \/ short' = TRUE
  PROVE  Laid'
<1>1. /\ Seqs' = Base .. Base + c - 1 /\ Seqs' \subseteq Seqs
      /\ \A s \in Seqs' : Before(s)' = Before(s) /\ Region(s)' = Region(s)
  BY Untouched
<1>2. \A s \in Seqs' : place'[s].file = recs'[s].file /\ place'[s].to = recs'[s].off
  BY <1>1 DEF Laid
<1>3. ASSUME NEW s \in Seqs'
      PROVE  IF short' THEN Region(s)'.from <= place'[s].from ELSE Region(s)'.from = place'[s].from
  <2>1. IF short THEN Region(s).from <= place[s].from ELSE Region(s).from = place[s].from
    BY <1>1 DEF Laid
  <2>2. place[s].from \in Nat /\ Region(s)'.from = Region(s).from /\ place'[s].from = place[s].from
    BY <1>1, RecordTypes
  <2>. QED  BY <2>1, <2>2
<1>4. ASSUME NEW s \in Seqs', NEW t \in Seqs', s < t
      PROVE  \/ recs'[s].file < recs'[t].file
             \/ recs'[s].file = recs'[t].file /\ recs'[s].off < recs'[t].off
  BY <1>1, <1>4 DEF Laid
<1>. QED  BY <1>2, <1>3, <1>4 DEF Laid

LEMMA LaidEmpty == ASSUME count' = 0 PROVE Laid'
<1>1. Seqs' = {}
  BY StoreAssumption, SMT DEF Seqs
<1>. QED  BY <1>1 DEF Laid

LEMMA LaidMarked ==
  ASSUME Types, Laid, NEW from, NEW to, NEW bit, Mark(from, to, bit), UNCHANGED <<count, place, short>>
  PROVE  Laid'
<1>1. count \in 0 .. count /\ Seqs = Base .. Base + count - 1
  BY StoreAssumption DEF Types, TypeOK, Seqs
<1>2. \A s \in Seqs : recs'[s].file = recs[s].file /\ recs'[s].off = recs[s].off
  BY Marking
<1>. QED  BY <1>1, <1>2, LaidUntouched

LEMMA LaidPowerLoss == Types /\ Laid /\ PowerLoss => Laid'
<1>. SUFFICES ASSUME Types, Laid, PowerLoss PROVE Laid'
  OBVIOUS
<1>1. PICK c \in 0 .. count :
       /\ count' = c
       /\ recs' = [s \in Base .. Base + c - 1 |-> recs[s]]
       /\ place' = [s \in Base .. Base + c - 1 |-> place[s]]
  BY DEF PowerLoss
<1>2. short' = short
  BY DEF PowerLoss
<1>. QED  BY <1>1, <1>2, LaidUntouched

\* A new record begins where its bytes are, as the last file ends with the record before.
LEMMA LaidAdd == ASSUME NEW r \in Records PROVE Types /\ Laid /\ Ended /\ add(r) => Laid' /\ Ended'
<1>. SUFFICES ASSUME Types, Laid, Ended, add(r) PROVE Laid' /\ Ended'
  OBVIOUS
<1>. DEFINE size == r.size
<1>0. PICK s : s = Base + count
  OBVIOUS
<1>1. /\ running /\ running' /\ count < MaxCount /\ count' = count + 1 /\ short' = short
      /\ length' = Appended(size, size) /\ fileCount' = Target(size) + 1 /\ index' = index
  BY DEF add
<1>2. size \in 1 .. MaxFileSize /\ size \in 0 .. size /\ size \in Nat /\ size > 0
  BY RecordFacts, StoreAssumption
<1>3. count \in Nat /\ Base \in Nat /\ fileCount \in Nat /\ Last + 1 = s
  BY <1>0, LastEnd, StoreAssumption DEF Types, TypeOK
<1>4. s \notin Seqs /\ Seqs' = Seqs \cup {s}
  BY <1>0, Adding
<1>5. /\ recs'[s].file = Target(size) /\ recs'[s].off = Start(size) + size
      /\ place'[s].file = Target(size) /\ place'[s].to = Start(size) + size /\ place'[s].from = Start(size)
      /\ \A t \in Seqs : recs'[t] = recs[t] /\ place'[t] = place[t]
  <2>1. recs' = [t \in Seqs' |-> IF t = s THEN [file |-> Target(size), off |-> Start(size) + size,
                                                attr |-> Attr(r.flags, s)] ELSE recs[t]]
    BY <1>0, Adding
  <2>2. place' = [t \in Seqs' |-> IF t = s THEN [file |-> Target(size), from |-> Start(size),
                                                 to |-> Start(size) + size, flags |-> r.flags] ELSE place[t]]
    BY <1>0, Adding
  <2>. HIDE DEF size
  <2>. QED  BY <1>4, <2>1, <2>2
<1>6. /\ Target(size) \in {fileCount - 1, fileCount}
      /\ Target(size) = fileCount => Start(size) = 0
      /\ Target(size) = fileCount - 1 => Start(size) = length[fileCount - 1]
      /\ Start(size) \in Nat /\ Target(size) \in Nat
      /\ length'[Target(size)] = Start(size) + size
  <2>1. /\ Target(size) \in {fileCount - 1, fileCount}
        /\ Target(size) = fileCount => Start(size) = 0
        /\ Target(size) = fileCount - 1 => Start(size) = length[fileCount - 1]
        /\ Start(size) \in 0 .. MaxFileSize /\ fileCount - 1 \in Files /\ fileCount \in Files
        /\ length'[Target(size)] = Start(size) + size
    BY <1>1, <1>2, Appending
  <2>. QED  BY <2>1, StoreAssumption DEF Files
<1>7. /\ LastFile <= fileCount - 1
      /\ IF short THEN EndIn(fileCount - 1) <= length[fileCount - 1]
                  ELSE EndIn(fileCount - 1) = length[fileCount - 1]
      /\ LastFile \in Nat /\ Before(Last + 1).off \in Nat
  <2>1. LastFile \in Nat /\ Before(Last + 1).off \in Nat
    BY LastEnd, StoreAssumption DEF Files
  <2>. QED  BY <1>1, <2>1 DEF Ended
\* The records before.
<1>8. ASSUME NEW t \in Seqs
      PROVE  /\ Before(t)' = Before(t) /\ Region(t)' = Region(t)
             /\ t < s /\ ~(s < t) /\ t \in Int
             /\ \/ recs[t].file < Target(size)
                \/ recs[t].file = Target(size) /\ recs[t].off < Start(size) + size
  <2>0. t \in Int /\ Base <= t /\ t <= Last /\ recs[t].file \in Nat /\ recs[t].off \in Nat
    BY RecordTypes
  <2>1. t \in Int /\ Base <= t /\ t < s /\ recs[t].file \in Nat /\ recs[t].off \in Nat
    <3>1. s \in Int /\ Last = s - 1
      BY <1>0, <1>3 DEF Last
    <3>. QED  BY <2>0, <3>1
  <2>2. t # Base => t - 1 \in Seqs
    BY RecordTypes
  <2>3. Before(t)' = Before(t)
    BY <1>5, <2>2 DEF Before
  <2>4. Region(t)' = Region(t)
    BY <1>5, <2>3 DEF Region
  <2>5. recs[t].file <= LastFile /\ (recs[t].file = LastFile => recs[t].off <= Before(Last + 1).off)
    BY LastIsBehind
  <2>6. \/ recs[t].file < Target(size)
        \/ recs[t].file = Target(size) /\ recs[t].off < Start(size) + size
    <3>1. CASE Target(size) = fileCount
      BY <1>3, <1>7, <2>1, <2>5, <3>1
    <3>2. CASE Target(size) = fileCount - 1
      <4>1. CASE LastFile = fileCount - 1
        <5>1. Before(Last + 1).off <= Start(size)
          BY <1>6, <1>7, <3>2, <4>1 DEF EndIn
        <5>. QED  BY <1>2, <1>6, <1>7, <2>1, <2>5, <3>2, <4>1, <5>1
      <4>2. CASE LastFile # fileCount - 1
        BY <1>3, <1>7, <2>1, <2>5, <3>2, <4>2
      <4>. QED  BY <4>1, <4>2
    <3>. QED  BY <1>6, <3>1, <3>2
  <2>7. s \in Int
    BY <1>0, <1>3
  <2>8. ~(s < t)
    BY <2>1, <2>7
  <2>. QED  BY <2>1, <2>3, <2>4, <2>6, <2>8
\* The new one.
<1>9. Before(s)' = Before(s)
  <2>1. CASE count = 0
    <3>1. s = Base
      BY <1>0, <1>3, <2>1
    <3>. QED  BY <3>1 DEF Before
  <2>2. CASE count > 0
    <3>1. s - 1 \in Seqs
      BY <1>0, <1>3, <2>2 DEF Seqs
    <3>. QED  BY <1>5, <3>1 DEF Before
  <2>. QED  BY <1>3, <2>1, <2>2
<1>10. Region(s)'.from = IF LastFile = Target(size) THEN Before(Last + 1).off ELSE 0
  <2>1. Before(s)'.file = LastFile /\ Before(s)'.off = Before(Last + 1).off
    BY <1>3, <1>9 DEF LastFile
  <2>2. Region(s)'.from = IF Before(s)'.file = recs'[s].file THEN Before(s)'.off ELSE 0
    BY DEF Region
  <2>. QED  BY <1>5, <2>1, <2>2
<1>11. IF short THEN Region(s)'.from <= Start(size) ELSE Region(s)'.from = Start(size)
  <2>1. CASE Target(size) = fileCount
    <3>1. LastFile # Target(size)
      BY <1>3, <1>7, <2>1
    <3>. QED  BY <1>6, <1>10, <2>1, <3>1
  <2>2. CASE Target(size) = fileCount - 1
    BY <1>6, <1>7, <1>10, <2>2 DEF EndIn
  <2>. QED  BY <1>6, <2>1, <2>2
<1>. HIDE DEF size
<1>12. Laid'
  <2>1. \A t \in Seqs' : place'[t].file = recs'[t].file /\ place'[t].to = recs'[t].off
    BY <1>4, <1>5 DEF Laid
  <2>2. ASSUME NEW t \in Seqs'
        PROVE  IF short' THEN Region(t)'.from <= place'[t].from ELSE Region(t)'.from = place'[t].from
    <3>1. CASE t = s
      BY <1>1, <1>5, <1>11, <3>1
    <3>2. CASE t \in Seqs
      <4>1. IF short THEN Region(t).from <= place[t].from ELSE Region(t).from = place[t].from
        BY <3>2 DEF Laid
      <4>2. Region(t)' = Region(t) /\ place'[t] = place[t]
        BY <1>5, <1>8, <3>2
      <4>. QED  BY <1>1, <4>1, <4>2
    <3>. QED  BY <1>4, <3>1, <3>2
  <2>3. ASSUME NEW t \in Seqs', NEW u \in Seqs', t < u
        PROVE  \/ recs'[t].file < recs'[u].file
               \/ recs'[t].file = recs'[u].file /\ recs'[t].off < recs'[u].off
    <3>1. CASE t \in Seqs /\ u \in Seqs
      BY <1>5, <2>3, <3>1 DEF Laid
    <3>2. CASE t \in Seqs /\ u = s
      BY <1>5, <1>8, <3>2
    <3>3. t # s
      <4>1. s \in Int
        BY <1>0, <1>3
      <4>. QED  BY <1>4, <1>8, <2>3, <4>1
    <3>. QED  BY <1>4, <3>1, <3>2, <3>3
  <2>. QED  BY <2>1, <2>2, <2>3 DEF Laid
<1>13. Ended'
  <2>1. Before(Last + 1)' = [file |-> Target(size), off |-> Start(size) + size]
    <3>1. Last' + 1 = s + 1 /\ s + 1 # Base /\ (s + 1) - 1 = s
      BY <1>0, <1>1, <1>3 DEF Last
    <3>. QED  BY <1>5, <3>1 DEF Before
  <2>2. LastFile' = Target(size)
    BY <2>1 DEF LastFile
  <2>3. fileCount' - 1 = Target(size)
    BY <1>1, <1>6
  <2>4. EndIn(fileCount - 1)' = Start(size) + size
    BY <2>1, <2>2, <2>3 DEF EndIn
  <2>5. index' # "started"
    BY <1>1 DEF Types
  <2>. QED  BY <1>1, <1>2, <1>6, <2>2, <2>3, <2>4, <2>5 DEF Ended
<1>. QED  BY <1>12, <1>13

LEMMA LaidInit == Init => Laid /\ Ended
<1>. SUFFICES ASSUME Init PROVE Laid /\ Ended
  OBVIOUS
<1>1. Seqs = {}
  BY StoreAssumption, SMT DEF Init, Seqs
<1>2. Laid
  BY <1>1 DEF Laid
<1>3. Ended
  BY DEF Ended, Init
<1>. QED  BY <1>2, <1>3

LEMMA LaidOpen == Types /\ Laid /\ Ended /\ Open => Laid' /\ Ended'
<1>. SUFFICES ASSUME Types, Laid, Ended, Open PROVE Laid' /\ Ended'
  OBVIOUS
<1>1. /\ recs' = recs /\ place' = place /\ short' = short /\ count' = count /\ index' = "ready"
      /\ fileCount' = LastFile + 1 /\ Seqs' = Seqs
  BY DEF Open, history, Seqs
<1>2. Laid'
  BY <1>1 DEF Laid, Region, Before
<1>3. Before(Last + 1)' = Before(Last + 1) /\ LastFile' = LastFile
  BY <1>1 DEF Before, Last, LastFile
<1>4. LastFile \in Files /\ LastFile \in Nat /\ (count = 0 => LastFile = 0 /\ Before(Last + 1).off = 0)
  BY LastEnd, StoreAssumption DEF Files, LastFile
<1>5. EndIn(fileCount - 1)' = Before(Last + 1).off /\ LastFile' <= fileCount' - 1 /\ fileCount' - 1 = LastFile
  BY <1>1, <1>3, <1>4 DEF EndIn
<1>6. IF short THEN Before(Last + 1).off <= length'[LastFile] ELSE Before(Last + 1).off = length'[LastFile]
  <2>1. length \in [Files -> ABSENT .. MaxFileSize] /\ 0 \in Files
    BY StoreAssumption DEF Types, TypeOK, Files
  <2>2. CASE IsNew
    <3>1. count = 0 /\ length'[0] = 0
      BY <2>1, <2>2 DEF IsNew, Types, Open
    <3>. QED  BY <1>4, <3>1
  <2>3. CASE ~IsNew /\ index = "started"
    <3>1. count = 0 /\ length' = length /\ length[0] # ABSENT
      BY <2>3 DEF Types, Open, CanOpen, Exists
    <3>2. length[0] >= 0
      BY <2>1, <3>1, StoreAssumption DEF ABSENT
    <3>3. ~short => length[0] = 0
      BY <2>3, <3>1 DEF Ended
    <3>. QED  BY <1>4, <3>1, <3>2, <3>3
  <2>4. CASE ~IsNew /\ index # "started"
    <3>1. length' = length /\ EndsAsIndexed(Before(Last + 1))
      BY <2>4 DEF Open, CanOpen, LengthsMatch
    <3>2. length'[LastFile] = Before(Last + 1).off
      BY <3>1 DEF EndsAsIndexed, LastFile
    <3>3. Before(Last + 1).off \in Int
      BY LastEnd
    <3>. QED  BY <3>2, <3>3
  <2>. QED  BY <2>2, <2>3, <2>4
<1>. QED  BY <1>1, <1>2, <1>5, <1>6 DEF Ended

LEMMA LaidShortWrite == ASSUME NEW r \in Records PROVE Types /\ Laid /\ Ended /\ ShortWrite(r) => Laid' /\ Ended'
<1>. SUFFICES ASSUME Types, Laid, Ended, ShortWrite(r) PROVE Laid' /\ Ended'
  OBVIOUS
<1>. DEFINE size == r.size
<1>1. /\ running /\ running' /\ count < MaxCount /\ count' = count /\ short' = TRUE /\ recs' = recs
      /\ place' = place /\ index' = index /\ fileCount' = Target(size) + 1
  BY DEF ShortWrite
<1>2. PICK n \in 0 .. size - 1 : length' = Appended(size, n)
  BY DEF ShortWrite
<1>3. size \in 1 .. MaxFileSize /\ n \in 0 .. size /\ n \in Nat
  BY RecordFacts, StoreAssumption
<1>. HIDE DEF size
<1>4. Laid'
  <2>1. count \in 0 .. count
    BY StoreAssumption DEF Types, TypeOK
  <2>. QED  BY <1>1, <2>1, LaidUntouched
<1>5. /\ Target(size) \in {fileCount - 1, fileCount} /\ fileCount \in Nat
      /\ Target(size) = fileCount => Start(size) = 0
      /\ Target(size) = fileCount - 1 => Start(size) = length[fileCount - 1]
      /\ Start(size) \in Nat /\ length'[Target(size)] = Start(size) + n
  <2>1. /\ Target(size) \in {fileCount - 1, fileCount}
        /\ Target(size) = fileCount => Start(size) = 0
        /\ Target(size) = fileCount - 1 => Start(size) = length[fileCount - 1]
        /\ Start(size) \in 0 .. MaxFileSize
        /\ length'[Target(size)] = Start(size) + n
    BY <1>1, <1>2, <1>3, Appending
  <2>. QED  BY <2>1, StoreAssumption DEF Types, TypeOK
<1>6. /\ LastFile <= fileCount - 1
      /\ EndIn(fileCount - 1) <= length[fileCount - 1]
      /\ LastFile \in Nat /\ Before(Last + 1).off \in Nat
  <2>1. LastFile \in Nat /\ Before(Last + 1).off \in Nat
    BY LastEnd, StoreAssumption DEF Files
  <2>2. EndIn(fileCount - 1) \in Nat
    BY <2>1 DEF EndIn
  <2>3. EndIn(fileCount - 1) <= length[fileCount - 1]
    BY <1>1, <2>2 DEF Ended
  <2>. QED  BY <1>1, <2>1, <2>3 DEF Ended
<1>7. Before(Last + 1)' = Before(Last + 1) /\ LastFile' = LastFile
  BY <1>1 DEF Before, Last, LastFile
<1>8. EndIn(fileCount - 1)' = (IF LastFile = Target(size) THEN Before(Last + 1).off ELSE 0)
  <2>1. fileCount' - 1 = Target(size)
    BY <1>1, <1>5
  <2>. QED  BY <1>7, <2>1 DEF EndIn
<1>9. EndIn(fileCount - 1)' <= length'[fileCount' - 1] /\ LastFile' <= fileCount' - 1
  <2>1. fileCount' - 1 = Target(size)
    BY <1>1, <1>5
  <2>2. CASE Target(size) = fileCount
    <3>1. EndIn(fileCount - 1)' = 0
      BY <1>5, <1>6, <1>8, <2>2
    <3>. QED  BY <1>3, <1>5, <1>6, <1>7, <2>1, <2>2, <3>1
  <2>3. CASE Target(size) = fileCount - 1
    <3>1. EndIn(fileCount - 1)' <= Start(size)
      BY <1>5, <1>6, <1>8, <2>3 DEF EndIn
    <3>2. EndIn(fileCount - 1)' \in Nat
      BY <1>6, <1>8
    <3>. QED  BY <1>3, <1>5, <1>6, <1>7, <2>1, <2>3, <3>1, <3>2
  <2>. QED  BY <1>5, <2>2, <2>3
<1>10. index' # "started"
  BY <1>1 DEF Types
<1>. QED  BY <1>1, <1>4, <1>9, <1>10 DEF Ended

\* A mark of a store that stays open.
LEMMA LaidMark ==
  ASSUME Types, Laid, Ended, running, NEW from, NEW to, NEW bit, Mark(from, to, bit),
         UNCHANGED <<running, count, place, short, index, fileCount, length>>
  PROVE  Laid' /\ Ended'
<1>1. Laid'
  BY LaidMarked
<1>2. Last + 1 = Base + count /\ Last' = Last
  BY LastEnd DEF Last
<1>3. Before(Last + 1)' = Before(Last + 1)
  <2>1. \A s : s \in Seqs \/ s = Base + count => Before(s)' = Before(s)
    BY Marking
  <2>2. ASSUME NEW s, s = Last + 1 PROVE Before(s)' = Before(s)
    BY <1>2, <2>1, <2>2
  <2>. QED  BY <1>2, <2>2 DEF Before
<1>4. Ended'
  BY <1>3 DEF Ended, EndIn, LastFile
<1>. QED  BY <1>1, <1>4

LEMMA LaidNext == Types /\ Laid /\ Ended /\ [Next]_vars => Laid' /\ Ended'
<1>1. Types /\ Laid /\ Ended /\ UNCHANGED vars => Laid' /\ Ended'
  <2>. SUFFICES ASSUME Laid, Ended, UNCHANGED vars PROVE Laid' /\ Ended'
    OBVIOUS
  <2>1. UNCHANGED <<running, fileCount, index, count, recs, length, place, short>> /\ Seqs' = Seqs /\ Last' = Last
    BY DEF vars, memory, disk, history, Seqs, Last
  <2>2. Laid'
    BY <2>1 DEF Laid, Region, Before
  <2>3. Ended'
    BY <2>1 DEF Ended, EndIn, LastFile, Before
  <2>. QED  BY <2>2, <2>3
<1>2. Types /\ Laid /\ Ended /\ TornCreate => Laid' /\ Ended'
  <2>. SUFFICES ASSUME Types, Laid, TornCreate PROVE Laid' /\ Ended'
    OBVIOUS
  <2>1. UNCHANGED <<running, recs, place, short, length, count>> /\ Seqs' = Seqs
    BY DEF TornCreate, Seqs
  <2>2. Laid'
    BY <2>1 DEF Laid, Region, Before
  <2>3. ~running' /\ length'[0] = ABSENT
    BY DEF TornCreate, IsNew
  <2>. QED  BY <2>2, <2>3 DEF Ended, ABSENT
<1>3. Types /\ Laid /\ Ended /\ Recreate => Laid' /\ Ended'
  <2>. SUFFICES ASSUME Types, Recreate PROVE Laid' /\ Ended'
    OBVIOUS
  <2>1. count' = 0 /\ fileCount' = 1 /\ length'[0] = 0 /\ index' = "ready"
    BY StoreAssumption DEF Recreate, Types, TypeOK, Files
  <2>2. Laid'
    BY <2>1, LaidEmpty
  <2>3. Before(Last + 1)' = [file |-> 0, off |-> 0]
    <3>1. Last' + 1 = Base
      BY <2>1, StoreAssumption DEF Last
    <3>. QED  BY <3>1 DEF Before
  <2>4. LastFile' = 0 /\ EndIn(fileCount - 1)' = 0
    BY <2>1, <2>3 DEF LastFile, EndIn
  <2>. QED  BY <2>1, <2>2, <2>4 DEF Ended
<1>4. Types /\ Laid /\ Ended /\ TornRecreate => Laid' /\ Ended'
  <2>. SUFFICES ASSUME Types, TornRecreate PROVE Laid' /\ Ended'
    OBVIOUS
  <2>1. count' = 0 /\ short' = (index' = "started") /\ ~running'
    BY DEF TornRecreate
  <2>. QED  BY <2>1, LaidEmpty DEF Ended
<1>5. Types /\ Laid /\ Ended /\ (Crash \/ \E r \in Records : TornAdd(r)) => Laid' /\ Ended'
  <2>. SUFFICES ASSUME Types, Laid, Crash \/ \E r \in Records : TornAdd(r) PROVE Laid' /\ Ended'
    OBVIOUS
  <2>1. UNCHANGED <<recs, place, short, count>> /\ Seqs' = Seqs /\ ~running' /\ running
    BY DEF Crash, TornAdd, Ends, disk, Seqs
  <2>2. Laid'
    BY <2>1 DEF Laid, Region, Before
  <2>3. index' # "started"
    BY <2>1 DEF Crash, TornAdd, Types, disk
  <2>. QED  BY <2>1, <2>2, <2>3 DEF Ended
<1>6. Types /\ Laid /\ Ended /\ (\E p \in Ranges, bit \in {DELETED, EXPIRED} : TornMark(p[1], p[2], bit)) => Laid' /\ Ended'
  <2>. SUFFICES ASSUME Types, Laid, NEW from, NEW to, NEW bit, TornMark(from, to, bit) PROVE Laid' /\ Ended'
    OBVIOUS
  <2>1. Mark(from, to, bit) /\ UNCHANGED <<count, place, short, index>> /\ ~running' /\ running
    BY DEF TornMark, Ends
  <2>2. Laid'
    BY <2>1, LaidMarked
  <2>3. index' # "started"
    BY <2>1 DEF Types
  <2>. QED  BY <2>1, <2>2, <2>3 DEF Ended
<1>7. Types /\ Laid /\ Ended /\ PowerLoss => Laid' /\ Ended'
  <2>. SUFFICES ASSUME Types, Laid, PowerLoss PROVE Laid' /\ Ended'
    OBVIOUS
  <2>1. index' # "started" /\ ~running'
    BY DEF PowerLoss, Ends, Types
  <2>. QED  BY <2>1, LaidPowerLoss DEF Ended
<1>8. Types /\ Laid /\ Ended /\ Remove => Laid' /\ Ended'
  <2>. SUFFICES ASSUME Remove PROVE Laid' /\ Ended'
    OBVIOUS
  <2>1. index' # "started" /\ ~running' /\ count' = 0
    BY DEF Remove, Ends
  <2>. QED  BY <2>1, LaidEmpty DEF Ended
<1>9. ASSUME NEW p \in Ranges PROVE Types /\ Laid /\ Ended /\ markDeleted(p[1], p[2]) => Laid' /\ Ended'
  <2>. SUFFICES ASSUME Types, Laid, Ended, NEW from, NEW to, markDeleted(from, to) PROVE Laid' /\ Ended'
    OBVIOUS
  <2>1. running /\ Mark(from, to, DELETED) /\ UNCHANGED <<running, count, place, short, index, fileCount, length>>
    BY DEF markDeleted
  <2>. QED  BY <2>1, LaidMark
<1>10. ASSUME NEW p \in Ranges PROVE Types /\ Laid /\ Ended /\ markExpired(p[1], p[2]) => Laid' /\ Ended'
  <2>. SUFFICES ASSUME Types, Laid, Ended, NEW from, NEW to, markExpired(from, to) PROVE Laid' /\ Ended'
    OBVIOUS
  <2>1. running /\ Mark(from, to, EXPIRED) /\ UNCHANGED <<running, count, place, short, index, fileCount, length>>
    BY DEF markExpired
  <2>. QED  BY <2>1, LaidMark
<1>. QED
  BY <1>1, <1>2, <1>3, <1>4, <1>5, <1>6, <1>7, <1>8, <1>9, <1>10, LaidAdd, LaidOpen, LaidShortWrite DEF Next

-----------------------------------------------------------------------------
(* Stores that were not damaged *)

\* A store stays intact when its records and the files that hold them are left alone.
LEMMA IntactUntouched ==
  ASSUME Types, Laid, Intact, count' = count, index' = "ready",
         \A s \in Seqs : recs'[s].file = recs[s].file /\ recs'[s].off = recs[s].off,
         \A f \in 0 .. LastFile : length'[f] = length[f]
  PROVE  Intact' /\ LastFile' = LastFile
<1>1. /\ count \in 0 .. count /\ Seqs = Base .. Base + count - 1 /\ Last' = Last /\ Last + 1 = Base + count
      /\ count \in Nat /\ Base \in Nat
  BY LastEnd, StoreAssumption DEF Types, TypeOK, Seqs, Last
<1>2. Seqs' = Seqs /\ \A s \in Seqs : Before(s)' = Before(s)
  BY <1>1, Untouched
<1>3. Before(Last + 1)' = Before(Last + 1)
  <2>1. Last + 1 # Base => (Last + 1) - 1 \in Seqs
    BY <1>1 DEF Seqs, Last
  <2>. QED  BY <1>1, <2>1 DEF Before
<1>4. LastFile' = LastFile /\ LastFile \in Nat
  BY <1>3, LastEnd, StoreAssumption DEF LastFile, Files
<1>5. \A f \in 0 .. LastFile' : length'[f] # ABSENT
  BY <1>4 DEF Intact, ABSENT
<1>6. ASSUME NEW s \in Seqs', Before(s)'.file # recs'[s].file PROVE EndsAsIndexed(Before(s))'
  <2>1. EndsAsIndexed(Before(s))
    BY <1>2, <1>6 DEF Intact
  <2>2. Before(s).file \in 0 .. LastFile
    BY <1>2, <1>4, LastIsBehind, RecordTypes
  <2>. QED  BY <1>2, <2>1, <2>2 DEF EndsAsIndexed
<1>7. EndsAsIndexed(Before(Last + 1))'
  <2>1. EndsAsIndexed(Before(Last + 1)) /\ Before(Last + 1).file \in 0 .. LastFile
    BY <1>4 DEF Intact, LastFile
  <2>. QED  BY <1>3, <2>1 DEF EndsAsIndexed
<1>. QED  BY <1>4, <1>5, <1>6, <1>7 DEF Intact

\* An empty store with an empty data file.
LEMMA IntactEmpty ==
  ASSUME count' = 0, index' = "ready", length'[0] = 0
  PROVE  Intact' /\ LastFile' = 0
<1>1. Seqs' = {} /\ Last' + 1 = Base
  <2>1. Seqs' = {}
    BY StoreAssumption, SMT DEF Seqs
  <2>2. Last' + 1 = Base
    BY StoreAssumption DEF Last
  <2>. QED  BY <2>1, <2>2
<1>2. Before(Last + 1)' = [file |-> 0, off |-> 0]
  BY <1>1 DEF Before
<1>3. LastFile' = 0
  BY <1>2 DEF LastFile
<1>4. \A f \in 0 .. LastFile' : length'[f] # ABSENT
  BY <1>3 DEF ABSENT
<1>5. EndsAsIndexed(Before(Last + 1))'
  BY <1>2 DEF EndsAsIndexed
<1>. QED  BY <1>1, <1>3, <1>4, <1>5 DEF Intact

LEMMA CleanlyOpen == Types /\ Laid /\ Cleanly /\ Open => Cleanly'
<1>. SUFFICES ASSUME Types, Laid, Cleanly, Open, clean PROVE Cleanly'
  BY DEF Cleanly, Open, history
<1>1. /\ recs' = recs /\ short' = short /\ count' = count /\ index' = "ready" /\ running' /\ ~running
      /\ fileCount' = LastFile + 1 /\ clean' = clean
  BY DEF Open, history
<1>2. LastFile \in Nat
  BY LastEnd, StoreAssumption DEF Files
<1>3. CASE IsNew
  <2>1. count' = 0 /\ length'[0] = 0
    BY <1>1, <1>3, StoreAssumption DEF IsNew, Types, TypeOK, Open, Files
  <2>2. LastFile' = LastFile
    BY <1>1 DEF LastFile, Before, Last
  <2>. QED  BY <1>1, <1>2, <2>1, <2>2, IntactEmpty DEF Cleanly
<1>4. CASE ~IsNew
  <2>1. Intact /\ length' = length
    BY <1>1, <1>4 DEF Cleanly, Open
  <2>. QED  BY <1>1, <1>2, <2>1, IntactUntouched DEF Cleanly
<1>. QED  BY <1>3, <1>4

LEMMA CleanlyAdd == ASSUME NEW r \in Records PROVE Types /\ Laid /\ Cleanly /\ add(r) => Cleanly'
<1>. SUFFICES ASSUME Types, Laid, Cleanly, add(r), clean PROVE Cleanly'
  BY DEF Cleanly, add
<1>. DEFINE size == r.size
<1>0. PICK s : s = Base + count
  OBVIOUS
<1>1. /\ running /\ running' /\ count < MaxCount /\ count' = count + 1 /\ short' = short /\ clean' = clean
      /\ length' = Appended(size, size) /\ fileCount' = Target(size) + 1 /\ index' = index
  BY DEF add
<1>2. size \in 1 .. MaxFileSize /\ size \in 0 .. size /\ size \in Nat
  BY RecordFacts, StoreAssumption
<1>3. Intact /\ LastFile = fileCount - 1 /\ ~short
  BY <1>1 DEF Cleanly
<1>4. /\ count \in Nat /\ Base \in Nat /\ fileCount \in Nat /\ Last + 1 = s /\ LastFile \in Nat
  <2>1. Last + 1 = s /\ LastFile \in Files
    BY <1>0, LastEnd
  <2>2. count \in Nat /\ fileCount \in Nat
    BY DEF Types, TypeOK
  <2>3. Base \in Nat /\ Files \subseteq Nat
    BY StoreAssumption DEF Files
  <2>. QED  BY <2>1, <2>2, <2>3
<1>5. s \notin Seqs /\ Seqs' = Seqs \cup {s}
  BY <1>0, Adding
<1>6. /\ recs'[s].file = Target(size) /\ recs'[s].off = Start(size) + size
      /\ \A t \in Seqs : recs'[t] = recs[t]
  <2>1. recs' = [t \in Seqs' |-> IF t = s THEN [file |-> Target(size), off |-> Start(size) + size,
                                                attr |-> Attr(r.flags, s)] ELSE recs[t]]
    BY <1>0, Adding
  <2>. HIDE DEF size
  <2>. QED  BY <1>5, <2>1
<1>. HIDE DEF size
<1>7. /\ Target(size) \in {fileCount - 1, fileCount} /\ Target(size) \in Nat /\ Start(size) \in Nat
      /\ length'[Target(size)] = Start(size) + size
      /\ \A f \in 0 .. LastFile : f # Target(size) => length'[f] = length[f]
  <2>1. /\ Target(size) \in {fileCount - 1, fileCount} /\ fileCount \in Files /\ fileCount - 1 \in Files
        /\ Start(size) \in 0 .. MaxFileSize
        /\ length'[Target(size)] = Start(size) + size
        /\ \A f \in Files : f # Target(size) => length'[f] = length[f]
    BY <1>1, <1>2, Appending
  <2>2. \A f \in 0 .. LastFile : f \in Files
    BY LastEnd, StoreAssumption DEF Files
  <2>. QED  BY <2>1, <2>2, StoreAssumption DEF Files
<1>8. Before(Last + 1)' = [file |-> Target(size), off |-> Start(size) + size]
  <2>1. Last' + 1 = s + 1 /\ s + 1 # Base /\ (s + 1) - 1 = s
    BY <1>0, <1>1, <1>4 DEF Last
  <2>. QED  BY <1>6, <2>1 DEF Before
<1>9. LastFile' = Target(size) /\ LastFile' = fileCount' - 1
  BY <1>1, <1>7, <1>8 DEF LastFile
<1>10. EndsAsIndexed(Before(Last + 1))'
  BY <1>7, <1>8 DEF EndsAsIndexed
<1>11. ASSUME NEW f \in 0 .. LastFile' PROVE length'[f] # ABSENT
  <2>1. CASE f = Target(size)
    BY <1>2, <1>7, <2>1 DEF ABSENT
  <2>2. CASE f # Target(size)
    <3>1. f \in 0 .. LastFile
      BY <1>3, <1>4, <1>7, <1>9, <2>2
    <3>. QED  BY <1>3, <1>7, <2>2, <3>1 DEF Intact, ABSENT
  <2>. QED  BY <2>1, <2>2
<1>12. ASSUME NEW t \in Seqs', Before(t)'.file # recs'[t].file PROVE EndsAsIndexed(Before(t))'
  <2>1. CASE t \in Seqs
    <3>1. Before(t)' = Before(t)
      BY <1>6, <2>1, RecordTypes DEF Before
    <3>2. Before(t).file # recs[t].file
      BY <1>6, <1>12, <2>1, <3>1
    <3>3. EndsAsIndexed(Before(t))
      BY <1>3, <2>1, <3>2 DEF Intact
    <3>4. Before(t).file \in 0 .. LastFile /\ Before(t).file < LastFile
      <4>1. Before(t).file \in Nat /\ recs[t].file \in Nat
        BY <2>1, RecordTypes
      <4>2. Before(t).file <= recs[t].file /\ recs[t].file <= LastFile
        BY <2>1, LastIsBehind
      <4>. QED  BY <1>4, <3>2, <4>1, <4>2
    <3>5. Before(t).file # Target(size)
      BY <1>3, <1>4, <1>7, <3>4
    <3>. QED  BY <1>7, <3>1, <3>3, <3>4, <3>5 DEF EndsAsIndexed
  <2>2. CASE t = s
    <3>1. Before(s)' = Before(s)
      <4>1. s # Base => s - 1 \in Seqs
        BY <1>0, <1>4 DEF Seqs
      <4>. QED  BY <1>6, <4>1 DEF Before
    <3>2. Before(s) = Before(Last + 1) /\ Before(s).file = LastFile
      BY <1>4 DEF LastFile
    <3>3. LastFile # Target(size) /\ LastFile \in 0 .. LastFile
      BY <1>4, <1>6, <1>12, <2>2, <3>1, <3>2
    <3>4. EndsAsIndexed(Before(s))
      BY <1>3, <3>2 DEF Intact
    <3>. QED  BY <1>7, <2>2, <3>1, <3>2, <3>3, <3>4 DEF EndsAsIndexed
  <2>. QED  BY <1>5, <2>1, <2>2
<1>13. index' = "ready"
  BY <1>1, <1>3 DEF Intact
<1>. QED  BY <1>1, <1>3, <1>9, <1>10, <1>11, <1>12, <1>13 DEF Cleanly, Intact

LEMMA CleanlyTornAdd == ASSUME NEW r \in Records PROVE Types /\ Laid /\ Cleanly /\ TornAdd(r) => Cleanly'
<1>. SUFFICES ASSUME Types, Laid, Cleanly, TornAdd(r), clean' PROVE Cleanly'
  BY DEF Cleanly
<1>1. PICK n \in 0 .. r.size :
        /\ length' = Appended(r.size, n)
        /\ index' \in IF n = r.size THEN {"ready", "torn"} ELSE {"ready"}
        /\ clean' = (clean /\ (n = 0 \/ (Rolls(r.size) /\ index' = "ready")))
  BY DEF TornAdd
<1>2. running /\ running' = FALSE /\ count < MaxCount /\ UNCHANGED <<count, recs, short>>
  BY DEF TornAdd, Ends
<1>3. clean /\ (n = 0 \/ (Rolls(r.size) /\ index' = "ready"))
  BY <1>1
<1>4. r.size \in 1 .. MaxFileSize /\ r.size # 0
  BY RecordFacts, StoreAssumption
<1>5. index' = "ready"
  BY <1>1, <1>3, <1>4
<1>6. Intact /\ LastFile = fileCount - 1 /\ ~short
  BY <1>2, <1>3 DEF Cleanly
<1>7. ASSUME NEW f \in 0 .. LastFile PROVE length'[f] = length[f]
  <2>1. f \in Files
    BY LastEnd, StoreAssumption DEF Files
  <2>2. /\ Target(r.size) \in {fileCount - 1, fileCount} /\ fileCount \in Nat
        /\ Target(r.size) = fileCount - 1 => ~Rolls(r.size) /\ Start(r.size) = length[fileCount - 1]
        /\ length[fileCount - 1] \in 0 .. MaxFileSize
        /\ length'[Target(r.size)] = Start(r.size) + n
        /\ \A g \in Files : g # Target(r.size) => length'[g] = length[g]
    BY <1>1, <1>2, <1>4, Appending, StoreAssumption, SMTT(30) DEF Types, TypeOK
  <2>3. CASE f = Target(r.size)
    <3>1. Target(r.size) = fileCount - 1 /\ n = 0
      BY <1>3, <1>6, <2>2, <2>3
    <3>. QED  BY <2>2, <2>3, <3>1
  <2>. QED  BY <2>1, <2>2, <2>3
<1>. QED  BY <1>2, <1>5, <1>6, <1>7, IntactUntouched DEF Cleanly

\* Marks, and a crash between calls, leave the files alone.
LEMMA CleanlyUntouched ==
  ASSUME Types, Laid, Cleanly, running, UNCHANGED <<count, index, length, short, clean>>,
         \A s \in Seqs : recs'[s].file = recs[s].file /\ recs'[s].off = recs[s].off,
         running' = FALSE \/ (running' /\ fileCount' = fileCount)
  PROVE  Cleanly'
<1>1. clean => Intact /\ LastFile = fileCount - 1 /\ ~short /\ index' = "ready"
  BY DEF Cleanly, Intact
<1>2. clean => Intact' /\ LastFile' = LastFile
  BY <1>1, IntactUntouched
<1>. QED  BY <1>1, <1>2 DEF Cleanly

LEMMA CleanlyRemove == Types /\ Cleanly /\ Remove => Cleanly'
<1>. SUFFICES ASSUME Types, Remove, clean' PROVE Cleanly'
  BY DEF Cleanly
<1>1. PICK gone \in 0 .. fileCount :
        /\ length' = [f \in Files |-> IF f < gone THEN ABSENT ELSE length[f]]
        /\ clean' = (gone > 0)
  BY DEF Remove
<1>2. 0 \in Files
  BY StoreAssumption DEF Files
<1>3. length'[0] = ABSENT
  BY <1>1, <1>2 DEF ABSENT
<1>4. index' = "none" /\ short' = FALSE /\ running' = FALSE
  BY DEF Remove, Ends
<1>. QED  BY <1>3, <1>4 DEF Cleanly, IsNew, ABSENT

LEMMA CleanlyNext == Types /\ Laid /\ Cleanly /\ [Next]_vars => Cleanly'
<1>1. Types /\ Laid /\ Cleanly /\ UNCHANGED vars => Cleanly'
  <2>. SUFFICES ASSUME Cleanly, UNCHANGED vars PROVE Cleanly'
    OBVIOUS
  <2>1. UNCHANGED <<running, fileCount, index, count, recs, length, short, clean>> /\ Seqs' = Seqs /\ Last' = Last
    BY DEF vars, memory, disk, history, Seqs, Last
  <2>2. LastFile' = LastFile /\ (Intact' <=> Intact) /\ (IsNew' <=> IsNew)
    BY <2>1 DEF LastFile, Before, Intact, IsNew, EndsAsIndexed, ABSENT
  <2>. QED  BY <2>1, <2>2 DEF Cleanly
<1>2. ASSUME NEW r \in Records PROVE TornCreate \/ TornRecreate \/ PowerLoss \/ ShortWrite(r) => Cleanly'
  BY DEF TornCreate, TornRecreate, PowerLoss, ShortWrite, Cleanly
<1>3. TornCreate \/ TornRecreate \/ PowerLoss => Cleanly'
  BY DEF TornCreate, TornRecreate, PowerLoss, Cleanly
<1>4. Types /\ Laid /\ Cleanly /\ Recreate => Cleanly'
  <2>. SUFFICES ASSUME Types, Recreate PROVE Cleanly'
    OBVIOUS
  <2>1. count' = 0 /\ fileCount' = 1 /\ length'[0] = 0 /\ index' = "ready" /\ running' /\ short' = FALSE
    BY StoreAssumption DEF Recreate, Types, TypeOK, Files
  <2>. QED  BY <2>1, IntactEmpty DEF Cleanly
<1>5. Types /\ Laid /\ Cleanly /\ Crash => Cleanly'
  BY CleanlyUntouched DEF Crash, Ends, disk
<1>6. ASSUME NEW from, NEW to
      PROVE  /\ Types /\ Laid /\ Cleanly
             /\ markDeleted(from, to) \/ markExpired(from, to) \/ \E bit \in {DELETED, EXPIRED} : TornMark(from, to, bit)
             => Cleanly'
  <2>. SUFFICES ASSUME Types, Laid, Cleanly,
                       markDeleted(from, to) \/ markExpired(from, to) \/ \E bit \in {DELETED, EXPIRED} : TornMark(from, to, bit)
                PROVE  Cleanly'
    OBVIOUS
  <2>1. /\ running /\ UNCHANGED <<count, index, length, short, clean>>
        /\ running' = FALSE \/ (running' /\ fileCount' = fileCount)
        /\ Mark(from, to, DELETED) \/ Mark(from, to, EXPIRED)
    BY DEF markDeleted, markExpired, TornMark, Ends
  <2>2. \A s \in Seqs : recs'[s].file = recs[s].file /\ recs'[s].off = recs[s].off
    BY <2>1, Marking
  <2>. QED  BY <2>1, <2>2, CleanlyUntouched
<1>. QED
  BY <1>1, <1>2, <1>3, <1>4, <1>5, <1>6, CleanlyOpen, CleanlyAdd, CleanlyTornAdd, CleanlyRemove DEF Next

LEMMA LaidAlways == Spec => [](Laid /\ Ended)
<1>. QED  BY LaidInit, LaidNext, TypesAlways, PTL DEF Spec

\* A store that no crash has cut or torn opens again, whatever was added and marked,
\* after a crash between calls, in the middle of a mark, or in an add that had only
\* begun a new data file, for any size of the blocks in which init reads the index.
THEOREM CleanReopensCorrect == Spec => []CleanReopens
<1>1. Init => Cleanly
  <2>. SUFFICES ASSUME Init PROVE Cleanly
    OBVIOUS
  <2>1. length[0] = ABSENT
    BY StoreAssumption DEF Init, Files, ABSENT
  <2>. QED  BY <2>1 DEF Init, Cleanly, IsNew
<1>2. Types /\ Cleanly => CleanReopens
  <2>. SUFFICES ASSUME Types, Cleanly, ~running, clean, ~IsNew PROVE CanOpen
    BY DEF CleanReopens, CanOpen
  <2>1. Intact
    BY DEF Cleanly
  <2>2. LastFile \in Nat
    BY LastEnd, StoreAssumption DEF Files
  <2>3. length[0] # ABSENT /\ DataFilesExist
    BY <2>1, <2>2 DEF Intact, DataFilesExist
  <2>4. LengthsMatch
    BY <2>1 DEF Intact, LengthsMatch
  <2>. QED  BY <2>1, <2>3, <2>4 DEF CanOpen, Intact
<1>3. Spec => []Cleanly
  BY <1>1, CleanlyNext, TypesAlways, LaidAlways, PTL DEF Spec
<1>. QED  BY <1>2, <1>3, TypesAlways, PTL

-----------------------------------------------------------------------------
(* Stores whose index is read in one block *)

LEMMA Remainder ==
  ASSUME NEW a \in Nat, NEW b \in Nat, a < b
  PROVE  a % b = a
BY Z3

\* Init then compares each data file with the last record in it.
LEMMA NothingSkipped ==
  ASSUME Types, Laid, MaxCount <= BlockSize, LengthsMatch, NEW s \in Seqs, recs[s].file # LastFile
  PROVE  recs[s].off <= length[recs[s].file]
<1>1. /\ s \in Int /\ Base <= s /\ s <= Last /\ Last \in Seqs /\ Last \in Int /\ Base \in Nat /\ count > 0
      /\ count \in Nat /\ Last = Base + count - 1 /\ count <= MaxCount /\ BlockSize \in Nat /\ MaxCount \in Nat
      /\ Seqs = Base .. Last
  BY RecordTypes, StoreAssumption DEF Types, TypeOK, Last, Seqs
<1>2. LastFile = recs[Last].file
  BY <1>1, LastEnd DEF LastFile
<1>. DEFINE later == {t \in Seqs : s < t /\ recs[t].file # recs[s].file}
<1>3. s < Last /\ Last \in later
  <2>1. s # Last
    BY <1>2
  <2>2. s < Last
    BY <1>1, <2>1
  <2>. QED  BY <1>1, <1>2, <2>2
<1>4. PICK t : t \in later /\ \A u \in later : t <= u
  <2>1. later \subseteq Nat /\ later # {}
    BY <1>1, <1>3
  <2>. QED  BY <2>1, MinExists
<1>5. t \in Seqs /\ s < t /\ t # Base /\ t \in Int /\ t <= Last
  BY <1>1, <1>4
\* The record before t is in the file of s.
<1>6. t - 1 \in Seqs /\ Before(t) = [file |-> recs[t - 1].file, off |-> recs[t - 1].off]
  BY <1>5, RecordTypes
<1>7. recs[t - 1].file = recs[s].file /\ recs[s].off <= recs[t - 1].off
  <2>1. recs[s].off \in Nat /\ recs[t - 1].off \in Nat
    BY <1>6, RecordTypes
  <2>2. CASE t - 1 = s
    BY <2>1, <2>2
  <2>3. CASE t - 1 # s
    <3>1. s < t - 1 /\ t - 1 < t
      BY <1>1, <1>5, <2>3
    <3>2. t - 1 \notin later
      BY <1>4, <1>5, <3>1
    <3>3. recs[t - 1].file = recs[s].file
      BY <1>6, <3>1, <3>2
    <3>4. recs[s].off < recs[t - 1].off
      <4>1. recs[s].file \in Nat
        BY RecordTypes
      <4>. QED  BY <1>6, <3>1, <3>3, <4>1 DEF Laid
    <3>. QED  BY <2>1, <3>3, <3>4
  <2>. QED  BY <2>2, <2>3
<1>8. Before(t).file # recs[t].file
  BY <1>4, <1>6, <1>7
\* The block of t is the whole index, whose ends are in different files.
<1>9. BlockStart(t) = Base
  <2>1. t - Base \in Nat /\ t - Base < BlockSize
    BY <1>1, <1>5
  <2>2. (t - Base) % BlockSize = t - Base
    BY <1>1, <2>1, Remainder
  <2>. QED  BY <1>1, <1>5, <2>2 DEF BlockStart
<1>10. BlockEnd(t) = Last
  <2>1. BlockEnd(t) = Min({Base + BlockSize - 1, Last})
    BY <1>9 DEF BlockEnd
  <2>2. Base + BlockSize - 1 \in Int /\ Last <= Base + BlockSize - 1
    BY <1>1
  <2>3. Min({Base + BlockSize - 1, Last}) = IF Base + BlockSize - 1 <= Last THEN Base + BlockSize - 1 ELSE Last
    BY <1>1, <2>2, MinOfPair
  <2>. QED  BY <1>1, <2>1, <2>2, <2>3
<1>11. recs[Base].file # recs[Last].file
  <2>1. /\ recs[Base].file \in Nat /\ recs[s].file \in Nat /\ recs[Last].file \in Nat /\ Base \in Seqs
    BY <1>1, RecordTypes
  <2>2. recs[Base].file <= recs[s].file
    <3>1. CASE s = Base
      BY <2>1, <3>1
    <3>2. CASE s # Base
      <4>1. Base < s
        BY <1>1, <3>2
      <4>2. recs[Base].file < recs[s].file \/ recs[Base].file = recs[s].file
        BY <2>1, <4>1 DEF Laid
      <4>. QED  BY <2>1, <4>2
    <3>. QED  BY <3>1, <3>2
  <2>3. recs[s].file <= recs[Last].file /\ recs[s].file # recs[Last].file
    BY <1>2, LastIsBehind
  <2>. QED  BY <2>1, <2>2, <2>3
<1>12. ~Skipped(t)
  BY <1>9, <1>10, <1>11 DEF Skipped
<1>13. length[recs[t - 1].file] = recs[t - 1].off
  BY <1>5, <1>6, <1>8, <1>12 DEF LengthsMatch, EndsAsIndexed
<1>. QED  BY <1>7, <1>13

LEMMA KeptOpen == MaxCount <= BlockSize /\ Types /\ Laid /\ Open => Kept'
<1>. SUFFICES ASSUME MaxCount <= BlockSize, Types, Laid, Open PROVE Kept'
  OBVIOUS
<1>1. recs' = recs /\ Seqs' = Seqs
  BY DEF Open, Seqs
<1>2. ASSUME NEW s \in Seqs PROVE recs[s].off <= length[recs[s].file] /\ length' = length
  <2>1. count > 0
    BY RecordTypes
  <2>2. ~IsNew /\ index # "started" /\ LengthsMatch
    BY <2>1 DEF Open, CanOpen, IsNew, Types
  <2>3. length' = length
    BY <2>2 DEF Open
  <2>4. CASE recs[s].file = LastFile
    <3>1. recs[s].off <= Before(Last + 1).off
      BY <2>4, LastIsBehind
    <3>2. length[LastFile] = Before(Last + 1).off
      BY <2>2 DEF LengthsMatch, EndsAsIndexed, LastFile
    <3>. QED  BY <2>3, <2>4, <3>1, <3>2
  <2>5. CASE recs[s].file # LastFile
    BY <2>2, <2>3, <2>5, NothingSkipped
  <2>. QED  BY <2>4, <2>5
<1>. QED  BY <1>1, <1>2 DEF Kept

\* Bytes at the end of the last file, or a new file, leave the records where they are.
LEMMA KeptAppended ==
  ASSUME Types, Laid, Ended, Kept, running, count < MaxCount,
         NEW size \in 1 .. MaxFileSize, NEW n \in 0 .. size, NEW s \in Seqs
  PROVE  recs[s].off <= Appended(size, n)[recs[s].file]
<1>1. /\ Target(size) \in {fileCount - 1, fileCount} /\ fileCount \in Nat
      /\ Target(size) = fileCount - 1 => Start(size) = length[fileCount - 1]
      /\ Start(size) \in Nat /\ n \in Nat
      /\ Appended(size, n)[Target(size)] = Start(size) + n
      /\ \A f \in Files : f # Target(size) => Appended(size, n)[f] = length[f]
  <2>1. /\ Target(size) \in {fileCount - 1, fileCount}
        /\ Target(size) = fileCount - 1 => Start(size) = length[fileCount - 1]
        /\ Start(size) \in 0 .. MaxFileSize
        /\ Appended(size, n)[Target(size)] = Start(size) + n
        /\ \A f \in Files : f # Target(size) => Appended(size, n)[f] = length[f]
    BY Appending
  <2>. QED  BY <2>1, StoreAssumption DEF Types, TypeOK
<1>2. recs[s].file \in Files /\ recs[s].file \in Nat /\ recs[s].off \in Nat
  <2>1. recs[s] \in [file : Files, off : 1 .. MaxFileSize, attr : SUBSET {1, 2, 3, 4}]
    BY DEF Types, TypeOK
  <2>. QED  BY <2>1, RecordTypes
<1>3. recs[s].file <= fileCount - 1
  <2>1. recs[s].file <= LastFile /\ LastFile <= fileCount - 1 /\ LastFile \in Nat
    BY LastIsBehind, LastEnd, StoreAssumption DEF Ended, Files
  <2>. QED  BY <1>1, <1>2, <2>1
<1>4. recs[s].off <= length[recs[s].file]
  BY DEF Kept
<1>5. CASE recs[s].file = Target(size)
  <2>1. Target(size) = fileCount - 1
    BY <1>1, <1>3, <1>5
  <2>. QED  BY <1>1, <1>2, <1>4, <1>5, <2>1
<1>6. CASE recs[s].file # Target(size)
  BY <1>1, <1>2, <1>4, <1>6
<1>. QED  BY <1>5, <1>6

LEMMA KeptAdd == ASSUME NEW r \in Records PROVE Types /\ Laid /\ Ended /\ Kept /\ add(r) => Kept'
<1>. SUFFICES ASSUME Types, Laid, Ended, Kept, add(r) PROVE Kept'
  OBVIOUS
<1>0. PICK s : s = Base + count
  OBVIOUS
<1>1. running /\ count < MaxCount /\ length' = Appended(r.size, r.size)
  BY DEF add
<1>2. r.size \in 1 .. MaxFileSize /\ r.size \in 0 .. r.size /\ r.size \in Nat
  BY RecordFacts, StoreAssumption
<1>3. s \notin Seqs /\ Seqs' = Seqs \cup {s}
  BY <1>0, Adding
<1>4. /\ recs'[s].file = Target(r.size) /\ recs'[s].off = Start(r.size) + r.size
      /\ \A t \in Seqs : recs'[t] = recs[t]
  <2>1. recs' = [t \in Seqs' |-> IF t = s THEN [file |-> Target(r.size), off |-> Start(r.size) + r.size,
                                                attr |-> Attr(r.flags, s)] ELSE recs[t]]
    BY <1>0, Adding
  <2>. QED  BY <1>3, <2>1
<1>5. \A t \in Seqs : recs[t].off <= length'[recs[t].file]
  BY <1>1, <1>2, KeptAppended
<1>6. recs'[s].off <= length'[recs'[s].file]
  <2>1. length'[Target(r.size)] = Start(r.size) + r.size /\ Start(r.size) \in 0 .. MaxFileSize
    BY <1>1, <1>2, Appending
  <2>. QED  BY <1>2, <1>4, <2>1, StoreAssumption
<1>. QED  BY <1>3, <1>4, <1>5, <1>6 DEF Kept

LEMMA KeptNext == MaxCount <= BlockSize /\ Types /\ Laid /\ Ended /\ Kept /\ [Next]_vars => Kept'
<1>1. Kept /\ UNCHANGED vars => Kept'
  <2>1. UNCHANGED vars => UNCHANGED <<running, recs, length>> /\ Seqs' = Seqs
    BY DEF vars, memory, disk, history, Seqs
  <2>. QED  BY <2>1 DEF Kept
<1>2. Types /\ (TornCreate \/ TornRecreate \/ Crash \/ PowerLoss \/ Remove \/ \E r \in Records : TornAdd(r)) => Kept'
  BY DEF TornCreate, TornRecreate, Crash, PowerLoss, Remove, TornAdd, Ends, Kept
<1>3. Recreate => Kept'
  <2>. SUFFICES ASSUME Recreate PROVE Kept'
    OBVIOUS
  <2>1. Seqs' = {}
    BY StoreAssumption, SMT DEF Recreate, Seqs
  <2>. QED  BY <2>1 DEF Kept
<1>4. ASSUME NEW r \in Records PROVE Types /\ Laid /\ Ended /\ Kept /\ ShortWrite(r) => Kept'
  <2>. SUFFICES ASSUME Types, Laid, Ended, Kept, ShortWrite(r) PROVE Kept'
    OBVIOUS
  <2>1. running /\ count < MaxCount /\ recs' = recs /\ Seqs' = Seqs
    BY DEF ShortWrite, Seqs
  <2>2. PICK n \in 0 .. r.size - 1 : length' = Appended(r.size, n)
    BY DEF ShortWrite
  <2>3. r.size \in 1 .. MaxFileSize /\ n \in 0 .. r.size
    BY RecordFacts, StoreAssumption
  <2>4. \A s \in Seqs : recs[s].off <= length'[recs[s].file]
    BY <2>1, <2>2, <2>3, KeptAppended
  <2>. QED  BY <2>1, <2>4 DEF Kept
<1>5. ASSUME NEW from, NEW to
      PROVE  /\ Types /\ Kept
             /\ markDeleted(from, to) \/ markExpired(from, to) \/ \E bit \in {DELETED, EXPIRED} : TornMark(from, to, bit)
             => Kept'
  <2>. SUFFICES ASSUME Types, Kept,
                       markDeleted(from, to) \/ markExpired(from, to) \/ \E bit \in {DELETED, EXPIRED} : TornMark(from, to, bit)
                PROVE  Kept'
    OBVIOUS
  <2>1. /\ running /\ UNCHANGED <<count, length>> /\ Seqs' = Seqs
        /\ Mark(from, to, DELETED) \/ Mark(from, to, EXPIRED)
    BY DEF markDeleted, markExpired, TornMark, Ends, Seqs
  <2>2. \A s \in Seqs : recs'[s].file = recs[s].file /\ recs'[s].off = recs[s].off
    BY <2>1, Marking
  <2>. QED  BY <2>1, <2>2 DEF Kept
<1>. QED  BY <1>1, <1>2, <1>3, <1>4, <1>5, KeptOpen, KeptAdd DEF Next

\* When init reads the whole index in one block, an open store finds the bytes of every
\* record, after any crashes, failed writes and files that were cut.  In a longer index
\* init skips a block that begins and ends in one file, and what was cut before it.
THEOREM ReadsBackCorrect == MaxCount <= BlockSize => (Spec => []ReadsBack)
<1>. SUFFICES ASSUME MaxCount <= BlockSize PROVE Spec => []ReadsBack
  OBVIOUS
<1>1. Init => Kept
  BY DEF Init, Kept
<1>2. Types /\ Laid /\ Ended /\ Kept /\ [Next]_vars => Kept'
  BY KeptNext
<1>3. Types /\ Laid /\ Kept => ReadsBack
  <2>. SUFFICES ASSUME Types, Laid, Kept, running, NEW s \in Seqs
                PROVE  /\ Region(s).file = place[s].file /\ Region(s).to = place[s].to
                       /\ IF short THEN Region(s).from <= place[s].from ELSE Region(s).from = place[s].from
                       /\ length[place[s].file] >= place[s].to
    BY DEF ReadsBack
  <2>1. place[s].file = recs[s].file /\ place[s].to = recs[s].off
    BY DEF Laid
  <2>2. Region(s).file = recs[s].file /\ Region(s).to = recs[s].off
    BY DEF Region
  <2>3. IF short THEN Region(s).from <= place[s].from ELSE Region(s).from = place[s].from
    BY DEF Laid
  <2>4. length[recs[s].file] >= recs[s].off
    <3>1. recs[s] \in [file : Files, off : 1 .. MaxFileSize, attr : SUBSET {1, 2, 3, 4}]
      BY DEF Types, TypeOK
    <3>2. length[recs[s].file] \in Int /\ recs[s].off \in Int
      BY <3>1, StoreAssumption DEF Types, TypeOK, ABSENT
    <3>. QED  BY <3>2 DEF Kept
  <2>. QED  BY <2>1, <2>2, <2>3, <2>4
<1>4. Spec => []Kept
  BY <1>1, <1>2, TypesAlways, LaidAlways, PTL DEF Spec
<1>. QED  BY <1>3, <1>4, TypesAlways, LaidAlways, PTL

-----------------------------------------------------------------------------
(* Reading many records: bytes, and records one after the other *)

\* Bytes of files, and those that are written around data.
Cell == Int \X Int

LEMMA BytesAre ==
  ASSUME NEW f \in Int, NEW from \in Int, NEW to \in Int
  PROVE  /\ Bytes(f, from, to) \in Seq(Cell)
         /\ Len(Bytes(f, from, to)) = IF from <= to THEN to - from ELSE 0
         /\ \A k \in 1 .. to - from : Bytes(f, from, to)[k] = <<f, from + k>>
<1> DEFINE n == IF from <= to THEN to - from ELSE 0
           s == [k \in 1 .. n |-> <<f, from + k>>]
<1>1. n \in Nat /\ 1 .. to - from = 1 .. n
  OBVIOUS
<1>2. Bytes(f, from, to) = s
  BY <1>1 DEF Bytes
<1>3. s \in Seq(Cell) /\ Len(s) = n
  <2>1. \A k \in 1 .. n : <<f, from + k>> \in Cell
    BY <1>1 DEF Cell
  <2>2. s \in [1 .. n -> Cell]
    BY <2>1
  <2>. HIDE DEF s, n
  <2>. QED  BY <1>1, <2>2
<1>4. \A k \in 1 .. n : s[k] = <<f, from + k>>
  OBVIOUS
<1>. HIDE DEF s
<1>. QED  BY <1>1, <1>2, <1>3, <1>4

\* What lies together in a file.
LEMMA BytesJoin ==
  ASSUME NEW f \in Int, NEW a \in Int, NEW b \in Int, NEW c \in Int, a <= b, b <= c
  PROVE  Bytes(f, a, b) \o Bytes(f, b, c) = Bytes(f, a, c)
<1> DEFINE s == Bytes(f, a, b)
           t == Bytes(f, b, c)
           u == Bytes(f, a, c)
<1>1. s \in Seq(Cell) /\ Len(s) = b - a /\ \A k \in 1 .. b - a : s[k] = <<f, a + k>>
  BY BytesAre
<1>a. t \in Seq(Cell) /\ Len(t) = c - b /\ \A k \in 1 .. c - b : t[k] = <<f, b + k>>
  BY BytesAre
<1>b. u \in Seq(Cell) /\ Len(u) = c - a /\ \A k \in 1 .. c - a : u[k] = <<f, a + k>>
  <2>1. a <= c
    OBVIOUS
  <2>. QED  BY <2>1, BytesAre
<1>. HIDE DEF s, t, u
<1>2. /\ s \o t \in Seq(Cell) /\ Len(s \o t) = Len(s) + Len(t)
      /\ \A i \in 1 .. Len(s) + Len(t) : (s \o t)[i] = IF i <= Len(s) THEN s[i] ELSE t[i - Len(s)]
  BY <1>1, <1>a, ConcatProperties
<1>3. Len(s \o t) = c - a
  BY <1>1, <1>a, <1>2
<1>4. ASSUME NEW i \in 1 .. c - a PROVE (s \o t)[i] = u[i]
  <2>0. i \in 1 .. Len(s) + Len(t)
    BY <1>1, <1>a
  <2>1. CASE i <= b - a
    <3>1. (s \o t)[i] = s[i] /\ i \in 1 .. b - a
      BY <1>1, <1>2, <2>0, <2>1
    <3>. QED  BY <1>1, <1>b, <3>1
  <2>2. CASE ~(i <= b - a)
    <3>1. i - (b - a) \in 1 .. c - b
      BY <2>2
    <3>2. (s \o t)[i] = t[i - (b - a)]
      BY <1>1, <1>2, <2>0, <2>2
    <3>3. t[i - (b - a)] = <<f, b + (i - (b - a))>> /\ b + (i - (b - a)) = a + i
      BY <1>a, <3>1
    <3>4. u[i] = <<f, a + i>>
      BY <1>b
    <3>. QED  BY <3>2, <3>3, <3>4
  <2>. QED  BY <2>1, <2>2
<1>5. s \o t = u
  BY <1>b, <1>2, <1>3, <1>4, SeqEqual
<1>. QED  BY <1>5 DEF s, t, u

LEMMA NoBytes ==
  ASSUME NEW f \in Int, NEW a \in Int, NEW s \in Seq(Cell)
  PROVE  Bytes(f, a, a) = <<>> /\ s \o Bytes(f, a, a) = s
<1>1. Bytes(f, a, a) \in Seq(Cell) /\ Len(Bytes(f, a, a)) = 0
  <2>1. a <= a /\ a - a = 0
    OBVIOUS
  <2>. QED  BY <2>1, BytesAre
<1>2. Bytes(f, a, a) = <<>>
  BY <1>1, EmptySeq
<1>. QED  BY <1>2, ConcatEmptySeq

\* A file's bytes from a to b, and then to c, behind s.
Joins(s, f, a, b, c) == (s \o Bytes(f, a, b)) \o Bytes(f, b, c) = s \o Bytes(f, a, c)

LEMMA Joining ==
  ASSUME NEW s \in Seq(Cell), NEW f \in Int, NEW a \in Int, NEW b \in Int, NEW c \in Int, a <= b, b <= c
  PROVE  Joins(s, f, a, b, c)
<1> DEFINE t == Bytes(f, a, b)
           u == Bytes(f, b, c)
<1>1. t \in Seq(Cell) /\ u \in Seq(Cell)
  BY BytesAre
<1>2. t \o u = Bytes(f, a, c)
  BY BytesJoin
<1>. HIDE DEF t, u
<1>3. (s \o t) \o u = s \o (t \o u)
  BY <1>1, ConcatAssociative
<1>4. (s \o t) \o u = s \o Bytes(f, a, c)
  BY <1>2, <1>3
<1>. QED  BY <1>4 DEF t, u, Joins

\* Together, record by record.
Cells(item, a, n) == \A k \in 1 .. n : item[a + k - 1] \in Seq(Cell)

LEMMA TogetherIs ==
  ASSUME NEW item, NEW a \in Int, NEW n \in Nat, Cells(item, a, n)
  PROVE  /\ Together(item, a, 0) = <<>>
         /\ \A k \in 0 .. n : Together(item, a, k) \in Seq(Cell)
         /\ \A k \in 1 .. n : Together(item, a, k) = Together(item, a, k - 1) \o item[a + k - 1]
<1> DEFINE F == [k \in 1 .. n |-> [x \in Seq(Cell) |-> x \o item[a + k - 1]]]
           W == [k \in 0 .. n |-> Seq(Cell)]
<1>1. \A k \in 1 .. n : \A x \in W[k - 1] : F[k][x] = x \o item[a + k - 1] /\ F[k][x] \in W[k]
  <2>. TAKE k \in 1 .. n
  <2>. TAKE x \in W[k - 1]
  <2>1. k - 1 \in 0 .. n /\ k \in 0 .. n
    OBVIOUS
  <2>2. x \in Seq(Cell) /\ W[k] = Seq(Cell)
    BY <2>1
  <2>3. F[k][x] = x \o item[a + k - 1]
    BY <2>2
  <2>4. item[a + k - 1] \in Seq(Cell)
    BY DEF Cells
  <2>5. x \o item[a + k - 1] \in Seq(Cell)
    BY <2>2, <2>4, ConcatProperties
  <2>. QED  BY <2>2, <2>3, <2>5
<1>2. <<>> \in W[0]
  BY EmptySeq
<1>3. PICK g : /\ g = [k \in 0 .. n |-> g[k]] /\ IsLoop(g, n, <<>>, F)
               /\ \A k \in 0 .. n : g[k] \in W[k]
  <2>. HIDE DEF F, W
  <2>. QED  BY <1>1, <1>2, LoopExists
<1>4. /\ g[0] = <<>> /\ \A k \in 0 .. n : g[k] \in Seq(Cell)
      /\ \A k \in 1 .. n : g[k] = g[k - 1] \o item[a + k - 1]
  <2>1. \A k \in 1 .. n : k - 1 \in 0 .. n
    OBVIOUS
  <2>2. \A k \in 1 .. n : g[k] = g[k - 1] \o item[a + k - 1]
    <3>. HIDE DEF F, W
    <3>. QED  BY <1>1, <1>3, <2>1 DEF IsLoop
  <2>. QED  BY <1>3, <2>2 DEF IsLoop
<1>5. ASSUME NEW m \in 0 .. n PROVE Together(item, a, m) = g[m]
  <2> DEFINE Is(f) == f = [k \in 0 .. m |-> IF k = 0 THEN <<>> ELSE f[k - 1] \o item[a + k - 1]]
             h == [k \in 0 .. m |-> g[k]]
             f == CHOOSE x : Is(x)
  <2>1. Is(h)
    <3>1. ASSUME NEW k \in 0 .. m PROVE g[k] = IF k = 0 THEN <<>> ELSE h[k - 1] \o item[a + k - 1]
      <4>1. CASE k = 0
        BY <1>4, <4>1
      <4>2. CASE k # 0
        <5>1. k \in 1 .. n /\ k - 1 \in 0 .. m
          BY <4>2
        <5>2. h[k - 1] = g[k - 1]
          BY <5>1
        <5>. HIDE DEF h
        <5>. QED  BY <1>4, <4>2, <5>1, <5>2
      <4>. QED  BY <4>1, <4>2
    <3>. QED  BY <3>1
  <2>2. Is(f)
    BY <2>1
  <2>3. Together(item, a, m) = f[m]
    BY DEF Together
  <2>. HIDE DEF f
  <2>4. \A k \in 0 .. m : f[k] = IF k = 0 THEN <<>> ELSE f[k - 1] \o item[a + k - 1]
    BY <2>2
  <2>. HIDE DEF Is
  <2> DEFINE T == {k \in 0 .. m : f[k] = g[k]}
  <2>5. 0 \in T
    BY <1>4, <2>4
  <2>6. ASSUME NEW k \in 0 .. m - 1, k \in T PROVE k + 1 \in T
    <3>1. k + 1 \in 0 .. m /\ k + 1 \in 1 .. n /\ (k + 1) - 1 = k /\ k + 1 # 0
      OBVIOUS
    <3>2. f[k + 1] = f[k] \o item[a + (k + 1) - 1]
      BY <2>4, <3>1
    <3>3. g[k + 1] = g[k] \o item[a + (k + 1) - 1]
      BY <1>4, <3>1
    <3>. QED  BY <2>6, <3>1, <3>2, <3>3
  <2>. HIDE DEF T
  <2>7. m \in Nat /\ m \in 0 .. m
    OBVIOUS
  <2>8. \A k \in 0 .. m : k \in T
    BY <2>5, <2>6, <2>7, UpTo
  <2>. QED  BY <2>3, <2>7, <2>8 DEF T
<1>6. 0 \in 0 .. n /\ \A k \in 1 .. n : k \in 0 .. n /\ k - 1 \in 0 .. n
  OBVIOUS
<1>. HIDE DEF F, W
<1>. QED  BY <1>4, <1>5, <1>6

LEMMA LengthsAre ==
  ASSUME NEW item, NEW a \in Int, NEW n \in Nat, Cells(item, a, n)
  PROVE  /\ Len(Together(item, a, 0)) = 0
         /\ \A k \in 0 .. n : Len(Together(item, a, k)) \in Nat
         /\ \A k \in 1 .. n : /\ Len(item[a + k - 1]) \in Nat
                              /\ Len(Together(item, a, k)) = Len(Together(item, a, k - 1)) + Len(item[a + k - 1])
<1>1. ASSUME NEW k \in 1 .. n
      PROVE  /\ Len(item[a + k - 1]) \in Nat
             /\ Len(Together(item, a, k)) = Len(Together(item, a, k - 1)) + Len(item[a + k - 1])
  <2>1. k - 1 \in 0 .. n
    OBVIOUS
  <2>2. item[a + k - 1] \in Seq(Cell) /\ Together(item, a, k - 1) \in Seq(Cell)
    BY <2>1, TogetherIs DEF Cells
  <2>3. Together(item, a, k) = Together(item, a, k - 1) \o item[a + k - 1]
    BY TogetherIs
  <2>. QED  BY <2>2, <2>3, ConcatProperties, LenProperties
<1>2. \A k \in 0 .. n : Len(Together(item, a, k)) \in Nat
  BY TogetherIs, LenProperties
<1>3. Len(Together(item, a, 0)) = 0
  BY TogetherIs, EmptySeq
<1>. QED  BY <1>1, <1>2, <1>3

-----------------------------------------------------------------------------
(* Reading many records: indexes *)

IndexRecords(m) == [file : Nat, off : 1 .. m]
IsIndex(idx, m) ==
  m \in Nat /\ idx \in Seq(IndexRecords(m)) /\ \A i \in 2 .. Len(idx) : Behind(idx[i - 1], idx[i])

LEMMA IndexIs ==
  ASSUME NEW idx, NEW m, IsIndex(idx, m)
  PROVE  /\ Len(idx) \in Nat /\ DOMAIN idx = 1 .. Len(idx)
         /\ \A i \in Int : At(idx, i).file \in Nat /\ At(idx, i).off \in Nat
         /\ \A i \in 1 .. Len(idx) :
              /\ At(idx, i) = idx[i]
              /\ idx[i].file \in Nat /\ idx[i].off \in Nat /\ idx[i].off <= m
              /\ From(idx, i) \in Nat /\ From(idx, i) < idx[i].off
              /\ Whole(idx)[i] = Bytes(idx[i].file, From(idx, i), idx[i].off)
         /\ \A i \in 1 .. Len(idx) : i + 1 <= Len(idx) =>
              From(idx, i + 1) = IF idx[i].file = idx[i + 1].file THEN idx[i].off ELSE 0
<1>1. Len(idx) \in Nat /\ DOMAIN idx = 1 .. Len(idx)
  BY LenProperties DEF IsIndex
<1>2. ASSUME NEW i \in 1 .. Len(idx)
      PROVE  /\ At(idx, i) = idx[i] /\ idx[i].file \in Nat
             /\ idx[i].off \in Nat /\ idx[i].off >= 1 /\ idx[i].off <= m
  <2>1. idx[i] \in IndexRecords(m) /\ m \in Nat
    BY ElementOfSeq DEF IsIndex
  <2>2. idx[i].file \in Nat /\ idx[i].off \in 1 .. m
    BY <2>1 DEF IndexRecords
  <2>3. At(idx, i) = idx[i]
    BY <1>1 DEF At
  <2>. QED  BY <2>1, <2>2, <2>3
<1>3. ASSUME NEW i \in Int PROVE At(idx, i).file \in Nat /\ At(idx, i).off \in Nat
  <2>1. CASE i \in 1 .. Len(idx)
    BY <1>2, <2>1
  <2>2. CASE i \notin 1 .. Len(idx)
    <3>1. At(idx, i) = [file |-> 0, off |-> 0]
      BY <1>1, <2>2 DEF At
    <3>. QED  BY <3>1
  <2>. QED  BY <2>1, <2>2
<1>4. ASSUME NEW i \in 1 .. Len(idx), i + 1 <= Len(idx)
      PROVE  /\ From(idx, i + 1) = IF idx[i].file = idx[i + 1].file THEN idx[i].off ELSE 0
             /\ From(idx, i + 1) < idx[i + 1].off
  <2>1. i + 1 \in 1 .. Len(idx) /\ i + 1 \in 2 .. Len(idx) /\ (i + 1) - 1 = i
    BY <1>1, <1>4
  <2>2. At(idx, i) = idx[i] /\ At(idx, i + 1) = idx[i + 1]
    BY <1>2, <2>1
  <2>3. From(idx, i + 1) = IF idx[i].file = idx[i + 1].file THEN idx[i].off ELSE 0
    BY <2>1, <2>2 DEF From
  <2>4. Behind(idx[i], idx[i + 1])
    BY <2>1 DEF IsIndex
  <2>5. /\ idx[i].file \in Nat /\ idx[i + 1].file \in Nat
        /\ idx[i].off \in Nat /\ idx[i + 1].off \in Nat /\ idx[i + 1].off >= 1
    BY <1>2, <2>1
  <2>. QED  BY <2>3, <2>4, <2>5 DEF Behind
<1>5. ASSUME NEW i \in 1 .. Len(idx) PROVE From(idx, i) \in Nat /\ From(idx, i) < idx[i].off
  <2>1. CASE i = 1
    <3>1. At(idx, i - 1) = [file |-> 0, off |-> 0]
      BY <1>1, <2>1 DEF At
    <3>2. From(idx, i) = 0
      BY <3>1 DEF From
    <3>. QED  BY <1>2, <3>2
  <2>2. CASE i # 1
    <3>1. i - 1 \in 1 .. Len(idx) /\ (i - 1) + 1 = i /\ i <= Len(idx)
      BY <1>1, <2>2
    <3>2. From(idx, i) < idx[i].off /\ From(idx, i) = IF idx[i - 1].file = idx[i].file THEN idx[i - 1].off ELSE 0
      BY <1>4, <3>1
    <3>3. idx[i - 1].off \in Nat
      BY <1>2, <3>1
    <3>. QED  BY <3>2, <3>3
  <2>. QED  BY <2>1, <2>2
<1>6. \A i \in 1 .. Len(idx) : Whole(idx)[i] = Bytes(idx[i].file, From(idx, i), idx[i].off)
  BY <1>1 DEF Whole
<1>. QED  BY <1>1, <1>2, <1>3, <1>4, <1>5, <1>6

\* The records from a to b.
LEMMA WholeAre ==
  ASSUME NEW idx, NEW m, IsIndex(idx, m), NEW a \in 1 .. Len(idx), NEW b \in a .. Len(idx)
  PROVE  /\ Together(Whole(idx), a, 0) = <<>> /\ Len(Together(Whole(idx), a, 0)) = 0
         /\ \A k \in 0 .. b - a + 1 :
              Together(Whole(idx), a, k) \in Seq(Cell) /\ Len(Together(Whole(idx), a, k)) \in Nat
         /\ \A k \in 0 .. b - a :
              /\ a + k \in 1 .. Len(idx)
              /\ Together(Whole(idx), a, k + 1)
                   = Together(Whole(idx), a, k) \o Bytes(idx[a + k].file, From(idx, a + k), idx[a + k].off)
              /\ Len(Together(Whole(idx), a, k + 1))
                   = Len(Together(Whole(idx), a, k)) + (idx[a + k].off - From(idx, a + k))
<1> DEFINE n == b - a + 1
<1>1. Len(idx) \in Nat /\ n \in Nat /\ a \in Int
  BY IndexIs
<1>2. ASSUME NEW i \in 1 .. Len(idx)
      PROVE  /\ Whole(idx)[i] = Bytes(idx[i].file, From(idx, i), idx[i].off)
             /\ Whole(idx)[i] \in Seq(Cell) /\ Len(Whole(idx)[i]) = idx[i].off - From(idx, i)
  <2>1. /\ idx[i].file \in Int /\ From(idx, i) \in Int /\ idx[i].off \in Int /\ From(idx, i) <= idx[i].off
        /\ Whole(idx)[i] = Bytes(idx[i].file, From(idx, i), idx[i].off)
    BY IndexIs
  <2>. QED  BY <2>1, BytesAre
<1>3. \A k \in 1 .. n : a + k - 1 \in 1 .. Len(idx)
  BY <1>1
<1>4. Cells(Whole(idx), a, n)
  BY <1>2, <1>3 DEF Cells
<1>5. ASSUME NEW k \in 0 .. b - a
      PROVE  /\ a + k \in 1 .. Len(idx)
             /\ Together(Whole(idx), a, k + 1)
                  = Together(Whole(idx), a, k) \o Bytes(idx[a + k].file, From(idx, a + k), idx[a + k].off)
             /\ Len(Together(Whole(idx), a, k + 1))
                  = Len(Together(Whole(idx), a, k)) + (idx[a + k].off - From(idx, a + k))
  <2>1. k + 1 \in 1 .. n /\ (k + 1) - 1 = k /\ a + (k + 1) - 1 = a + k /\ a + k \in 1 .. Len(idx)
    BY <1>1
  <2>. HIDE DEF n
  <2>2. /\ Together(Whole(idx), a, k + 1) = Together(Whole(idx), a, k) \o Whole(idx)[a + k]
    BY <1>1, <1>4, <2>1, TogetherIs
  <2>3. Len(Together(Whole(idx), a, k + 1)) = Len(Together(Whole(idx), a, k)) + Len(Whole(idx)[a + k])
    BY <1>1, <1>4, <2>1, LengthsAre
  <2>. QED  BY <1>2, <2>1, <2>2, <2>3
<1>6. \A k \in 0 .. n : Together(Whole(idx), a, k) \in Seq(Cell) /\ Len(Together(Whole(idx), a, k)) \in Nat
  <2>. HIDE DEF n
  <2>. QED  BY <1>1, <1>4, TogetherIs, LengthsAre
<1>7. Together(Whole(idx), a, 0) = <<>> /\ Len(Together(Whole(idx), a, 0)) = 0
  <2>. HIDE DEF n
  <2>. QED  BY <1>1, <1>4, TogetherIs, LengthsAre
<1>. QED  BY <1>5, <1>6, <1>7

-----------------------------------------------------------------------------
(* Reading many records: the handle of the other data files *)

InIndex(idx, f) == \E i \in 1 .. Len(idx) : f = idx[i].file

\* The handles that a read may find, and what the reads that release it make of one.
AllHandles == [open : Int, last : Int, reopens : BOOLEAN]
HandlesOf(idx) == {t \in AllHandles : Usable(t) /\ \A i \in 1 .. Len(idx) : idx[i].file <= t.last}
Lefts(tmp) == {tmp, [tmp EXCEPT !.open = CLOSED]}

\* A read through a handle that is right reads the file that was asked for.
LEMMA Handled ==
  ASSUME NEW tmp \in AllHandles, Usable(tmp), NEW f \in Nat, f <= tmp.last
  PROVE  /\ acquireDataFile(tmp, f) = (IF f = tmp.last THEN tmp ELSE [tmp EXCEPT !.open = f])
         /\ Source(tmp, f) = f
         /\ After(tmp, f) \in Lefts(tmp)
<1>1. tmp.open \in Int /\ tmp.last \in Int /\ (tmp.open = CLOSED \/ tmp.reopens)
  BY DEF AllHandles, Usable
<1>2. CASE f = tmp.last
  <2>1. acquireDataFile(tmp, f) = tmp /\ Source(tmp, f) = f
    BY <1>2 DEF acquireDataFile, Source
  <2>2. After(tmp, f) = tmp
    BY <1>1, <1>2, <2>1 DEF After, releaseDataFile
  <2>. QED  BY <1>2, <2>1, <2>2 DEF Lefts
<1>3. CASE f # tmp.last
  <2>1. acquireDataFile(tmp, f) = [tmp EXCEPT !.open = f]
    BY <1>1, <1>3 DEF acquireDataFile
  <2>2. Source(tmp, f) = f
    BY <1>3, <2>1 DEF Source, AllHandles
  <2>3. After(tmp, f) = [tmp EXCEPT !.open = CLOSED]
    <3>1. [tmp EXCEPT !.open = f].last = tmp.last /\ f < tmp.last
      BY <1>1, <1>3 DEF AllHandles
    <3>. QED  BY <2>1, <3>1 DEF After, releaseDataFile, AllHandles
  <2>. QED  BY <1>3, <2>1, <2>2, <2>3 DEF Lefts
<1>. QED  BY <1>2, <1>3

\* So does every read of a batch.
LEMMA Fetched ==
  ASSUME NEW idx, NEW m, IsIndex(idx, m), NEW tmp \in HandlesOf(idx), NEW now \in Lefts(tmp),
         NEW f, InIndex(idx, f)
  PROVE  (\A from, to : Fetch(now, f, from, to) = Bytes(f, from, to)) /\ After(now, f) \in Lefts(tmp)
<1>1. tmp \in AllHandles /\ Usable(tmp) /\ f \in Nat /\ f <= tmp.last
  BY IndexIs DEF HandlesOf, InIndex
<1>2. /\ now \in AllHandles /\ Usable(now) /\ now.last = tmp.last
      /\ [now EXCEPT !.open = CLOSED] = [tmp EXCEPT !.open = CLOSED]
  <2>1. CASE now = tmp
    BY <1>1, <2>1
  <2>2. CASE now = [tmp EXCEPT !.open = CLOSED]
    <3>1. now = [open |-> CLOSED, last |-> tmp.last, reopens |-> tmp.reopens]
      BY <1>1, <2>2 DEF AllHandles
    <3>2. now \in AllHandles /\ now.open = CLOSED /\ now.last = tmp.last
      BY <1>1, <3>1 DEF AllHandles, CLOSED
    <3>3. [now EXCEPT !.open = CLOSED] = [open |-> CLOSED, last |-> tmp.last, reopens |-> tmp.reopens]
      BY <3>1
    <3>. QED  BY <2>2, <3>1, <3>2, <3>3 DEF Usable
  <2>. QED  BY <2>1, <2>2 DEF Lefts
<1>3. Source(now, f) = f /\ After(now, f) \in Lefts(now)
  BY <1>1, <1>2, Handled
<1>4. After(now, f) \in Lefts(tmp)
  BY <1>2, <1>3 DEF Lefts
<1>. QED  BY <1>3, <1>4 DEF Fetch

-----------------------------------------------------------------------------
(* getMany *)

ManyStates(tmp) ==
  [n : Nat, bytes : Nat, indices : Seq(Nat), out : Seq(Cell), on : BOOLEAN, tmp : Lefts(tmp),
   file : Nat, from : Nat, to : Nat, len : Nat]

\* After k turns: the loop goes on with record a + k, whose bytes and those gathered before
\* it are still to be read; or it has ended.
ManyHas(idx, a, b, room, k, x) ==
  LET T(j) == Together(Whole(idx), a, j) IN
  /\ Len(x.indices) = x.n /\ \A j \in 1 .. x.n : x.indices[j] = Len(T(j - 1))
  /\ x.on => /\ x.n = k /\ k <= b - a
             /\ x.file = idx[a + k].file /\ x.to = idx[a + k].off
             /\ x.from <= From(idx, a + k) /\ x.len = idx[a + k].off - From(idx, a + k)
             /\ x.out \o Bytes(x.file, x.from, From(idx, a + k)) = T(k) /\ x.bytes = Len(T(k))
             /\ k >= 1 => Len(T(k + 1)) <= room
  /\ ~x.on => /\ x.n \in 1 .. b - a + 1 /\ x.out = T(x.n)
              /\ x.n > 1 => Len(T(x.n)) <= room
              /\ x.n <= b - a => Len(T(x.n + 1)) > room

LEMMA ManyStep ==
  ASSUME NEW idx, NEW m, IsIndex(idx, m), NEW a \in 1 .. Len(idx), NEW b \in a .. Len(idx), NEW room \in Nat,
         NEW tmp \in HandlesOf(idx),
         NEW k \in 0 .. b - a, NEW x \in ManyStates(tmp), ManyHas(idx, a, b, room, k, x), x.on = TRUE
  PROVE  /\ Promise(idx, a, b, room, x) \in ManyStates(tmp)
         /\ ManyHas(idx, a, b, room, k + 1, Promise(idx, a, b, room, x))
<1> DEFINE T(j) == Together(Whole(idx), a, j)
           counted == [x EXCEPT !.n = @ + 1, !.indices = Append(@, x.bytes), !.bytes = @ + x.len]
           next == At(idx, a + counted.n)
           len == IF next.file = x.file THEN next.off - x.to ELSE next.off
           read == [counted EXCEPT !.out = @ \o Fetch(x.tmp, x.file, x.from, x.to), !.tmp = After(@, x.file)]
           y == Promise(idx, a, b, room, x)
           from == From(idx, a + k)
           from2 == From(idx, a + k + 1)
           indices == Append(x.indices, x.bytes)
<1>1. /\ Len(idx) \in Nat /\ k \in Nat /\ a + k \in 1 .. Len(idx) /\ a + k \in Int /\ a + k + 1 \in Int
      /\ k \in 0 .. b - a + 1 /\ k + 1 \in 0 .. b - a + 1 /\ k + 1 \in Nat /\ a \in Int /\ b \in Int
  BY IndexIs
<1>2. /\ x.n = k /\ x.file = idx[a + k].file /\ x.to = idx[a + k].off
      /\ x.from <= from /\ x.len = x.to - from
      /\ x.out \o Bytes(x.file, x.from, from) = T(k) /\ x.bytes = Len(T(k))
      /\ k >= 1 => Len(T(k + 1)) <= room
      /\ Len(x.indices) = k /\ \A j \in 1 .. k : x.indices[j] = Len(T(j - 1))
  BY DEF ManyHas
<1>3. /\ x.n \in Nat /\ x.bytes \in Nat /\ x.indices \in Seq(Nat) /\ x.out \in Seq(Cell) /\ x.on \in BOOLEAN /\ x.tmp \in Lefts(tmp)
      /\ x.file \in Nat /\ x.from \in Nat /\ x.to \in Nat /\ x.len \in Nat
  BY DEF ManyStates
<1>4. from \in Nat /\ from < x.to
  BY <1>1, <1>2, IndexIs
<1>5. /\ T(k + 1) = T(k) \o Bytes(x.file, from, x.to)
      /\ Len(T(k + 1)) = Len(T(k)) + (x.to - from)
      /\ Len(T(k)) \in Nat /\ T(k + 1) \in Seq(Cell) /\ Len(T(k + 1)) \in Nat
  <2>1. /\ T(k + 1) = T(k) \o Bytes(idx[a + k].file, from, idx[a + k].off)
        /\ Len(T(k + 1)) = Len(T(k)) + (idx[a + k].off - from)
        /\ Len(T(k)) \in Nat /\ T(k + 1) \in Seq(Cell) /\ Len(T(k + 1)) \in Nat
    BY <1>1, WholeAre
  <2>. HIDE DEF T, from
  <2>. QED  BY <1>2, <2>1
<1>a. counted.n = k + 1 /\ counted.bytes = x.bytes + x.len /\ counted.indices = indices
  BY <1>2 DEF ManyStates
<1>b. next = At(idx, a + k + 1)
  <2>1. a + (k + 1) = a + k + 1
    BY <1>1
  <2>. QED  BY <1>a, <2>1
<1>c. next.file \in Nat /\ next.off \in Nat
  BY <1>1, <1>b, IndexIs
<1>. HIDE DEF T
<1>6. x.out \o Bytes(x.file, x.from, x.to) = T(k + 1)
  <2>1. x.file \in Int /\ x.from \in Int /\ from \in Int /\ x.to \in Int /\ x.from <= from /\ from <= x.to
    <3>. HIDE DEF from
    <3>. QED  BY <1>2, <1>3, <1>4
  <2>2. Joins(x.out, x.file, x.from, from, x.to)
    <3>1. x.out \in Seq(Cell)
      BY <1>3
    <3>. HIDE DEF from
    <3>. QED  BY <2>1, <3>1, Joining
  <2>3. (x.out \o Bytes(x.file, x.from, from)) \o Bytes(x.file, from, x.to) = x.out \o Bytes(x.file, x.from, x.to)
    <3>. HIDE DEF from
    <3>. QED  BY <2>2 DEF Joins
  <2>. QED  BY <1>2, <1>5, <2>3
<1>7. counted.bytes = Len(T(k + 1))
  <2>. HIDE DEF from, counted
  <2>. QED  BY <1>2, <1>3, <1>4, <1>5, <1>a
<1>8. /\ indices \in Seq(Nat) /\ Len(indices) = k + 1
      /\ \A j \in 1 .. k + 1 : indices[j] = Len(T(j - 1))
  <2>1. indices \in Seq(Nat) /\ Len(indices) = k + 1
    BY <1>2, <1>3
  <2>2. ASSUME NEW j \in 1 .. k + 1 PROVE indices[j] = Len(T(j - 1))
    <3>1. CASE j = k + 1
      <4>1. j - 1 = k
        BY <1>1, <3>1
      <4>2. indices[k + 1] = x.bytes
        <5>. HIDE DEF from, next, len, read, counted, y, from2
        <5>1. indices[Len(x.indices) + 1] = x.bytes
          BY <1>3, AppendProperties
        <5>. QED  BY <1>2, <5>1
      <4>. QED  BY <1>2, <3>1, <4>1, <4>2
    <3>2. CASE j # k + 1
      <4>1. j \in 1 .. k
        BY <1>1, <3>2
      <4>2. indices[j] = x.indices[j]
        BY <1>2, <1>3, <4>1
      <4>. QED  BY <1>2, <4>1, <4>2
    <3>. QED  BY <3>1, <3>2
  <2>. QED  BY <2>1, <2>2
<1>9. ASSUME k + 1 <= b - a
      PROVE  /\ next = idx[a + k + 1] /\ from2 = (IF x.file = next.file THEN x.to ELSE 0)
             /\ len = next.off - from2 /\ len \in Nat
             /\ Len(T(k + 2)) = Len(T(k + 1)) + len
  <2>1. /\ a + (k + 1) = a + k + 1 /\ a + k + 1 \in 1 .. Len(idx) /\ a + k + 1 <= Len(idx)
        /\ k + 1 \in 0 .. b - a /\ (k + 1) + 1 = k + 2
    BY <1>1, <1>9
  <2>2. next = idx[a + k + 1]
    BY <1>b, <2>1, IndexIs
  <2>3. from2 = IF x.file = next.file THEN x.to ELSE 0
    <3>1. from2 = IF idx[a + k].file = idx[a + k + 1].file THEN idx[a + k].off ELSE 0
      BY <1>1, <2>1, IndexIs
    <3>. HIDE DEF from2, next, from
    <3>. QED  BY <1>2, <2>2, <3>1
  <2>4. from2 \in Nat /\ from2 < next.off
    BY <2>1, <2>2, IndexIs
  <2>5. len = next.off - from2
    <3>. HIDE DEF next, from2
    <3>. QED  BY <1>3, <1>c, <2>3, <2>4
  <2>6. len \in Nat
    <3>. HIDE DEF next, from2, len
    <3>. QED  BY <1>c, <2>4, <2>5
  <2>7. Len(T((k + 1) + 1)) = Len(T(k + 1)) + (idx[a + (k + 1)].off - From(idx, a + (k + 1)))
    BY <2>1, WholeAre DEF T
  <2>8. Len(T(k + 2)) = Len(T(k + 1)) + (next.off - from2)
    BY <2>1, <2>2, <2>7
  <2>. HIDE DEF next, from2, len
  <2>. QED  BY <2>2, <2>3, <2>5, <2>6, <2>8
<1> DEFINE stop == counted.n >= b - a + 1 \/ counted.bytes + len > room
           u == [read EXCEPT !.on = FALSE]
           v == [read EXCEPT !.file = next.file, !.from = 0, !.to = next.off, !.len = len]
           w == [counted EXCEPT !.to = next.off, !.len = len]
<1>d. /\ stop => y = u
      /\ ~stop /\ next.file # x.file => y = v
      /\ ~stop /\ next.file = x.file => y = w
  <2>1. y = IF stop THEN u ELSE IF next.file # x.file THEN v ELSE w
    BY DEF Promise
  <2>. HIDE DEF stop, u, v, w, y, next, from, from2, counted, read, len, indices
  <2>2. stop => y = u
    BY <2>1
  <2>3. ~stop /\ next.file # x.file => y = v
    BY <2>1
  <2>4. ~stop /\ next.file = x.file => y = w
    BY <2>1
  <2>. QED  BY <2>2, <2>3, <2>4
<1>e. /\ counted \in ManyStates(tmp) /\ counted.n = k + 1 /\ counted.bytes = Len(T(k + 1)) /\ counted.indices = indices
      /\ counted.out = x.out /\ counted.on /\ counted.file = x.file /\ counted.from = x.from
      /\ counted.to = x.to /\ counted.len = x.len /\ counted.tmp = x.tmp
  <2>1. /\ counted.out = x.out /\ counted.on /\ counted.file = x.file /\ counted.from = x.from
        /\ counted.to = x.to /\ counted.len = x.len /\ counted.tmp = x.tmp
    BY DEF ManyStates
  <2>2. x.n + 1 \in Nat /\ x.bytes + x.len \in Nat
    <3>. HIDE DEF counted, read, y, len, next, from, from2, indices
    <3>1. x.n \in Nat
      BY <1>3
    <3>2. x.bytes \in Nat
      BY <1>3
    <3>3. x.len \in Nat
      BY <1>3
    <3>4. x.n + 1 \in Nat
      BY <3>1
    <3>5. x.bytes + x.len \in Nat
      BY <3>2, <3>3
    <3>. QED  BY <3>4, <3>5
  <2>3. counted \in ManyStates(tmp)
    BY <1>3, <1>8, <2>2 DEF ManyStates
  <2>. HIDE DEF counted
  <2>. QED  BY <1>7, <1>a, <2>1, <2>3
<1>f. /\ read \in ManyStates(tmp) /\ read.n = k + 1 /\ read.bytes = Len(T(k + 1)) /\ read.indices = indices
      /\ read.out = T(k + 1) /\ read.on /\ read.file = x.file /\ read.from = x.from
      /\ read.to = x.to /\ read.len = x.len
  <2>0. InIndex(idx, x.file)
    BY <1>1, <1>2 DEF InIndex
  <2>a. (\A lo, hi : Fetch(x.tmp, x.file, lo, hi) = Bytes(x.file, lo, hi)) /\ After(x.tmp, x.file) \in Lefts(tmp)
    BY <1>3, <2>0, Fetched
  <2>1. counted.out \o Fetch(x.tmp, x.file, x.from, x.to) = T(k + 1)
    BY <1>6, <1>e, <2>a
  <2> DEFINE left == After(x.tmp, x.file)
  <2>2. read = [counted EXCEPT !.out = T(k + 1), !.tmp = left]
    BY <1>e, <2>1
  <2>b. left \in Lefts(tmp)
    BY <2>a
  <2>. HIDE DEF left
  <2>. HIDE DEF read, counted, indices
  <2>3. /\ read.n = k + 1 /\ read.bytes = Len(T(k + 1)) /\ read.indices = indices
        /\ read.out = T(k + 1) /\ read.on /\ read.file = x.file /\ read.from = x.from
        /\ read.to = x.to /\ read.len = x.len
    BY <1>e, <2>2 DEF ManyStates
  <2>4. read \in ManyStates(tmp)
    BY <1>5, <1>e, <2>2, <2>b DEF ManyStates
  <2>. QED  BY <2>3, <2>4
<1>. HIDE DEF y, counted, read, len, next, from, from2, indices
<1>10. CASE counted.n >= b - a + 1 \/ counted.bytes + len > room
  <2>a. y = [read EXCEPT !.on = FALSE]
    BY <1>10, <1>d
  <2>1. y.n = k + 1 /\ y.indices = indices /\ y.out = T(k + 1) /\ ~y.on
    BY <1>f, <2>a DEF ManyStates
  <2>2. y \in ManyStates(tmp)
    BY <1>f, <2>a DEF ManyStates
  <2>3. k + 1 > 1 => Len(T(k + 1)) <= room
    BY <1>1, <1>2
  <2>4. k + 1 <= b - a => Len(T(k + 2)) > room
    <3>. SUFFICES ASSUME k + 1 <= b - a PROVE Len(T(k + 2)) > room
      OBVIOUS
    <3>1. Len(T(k + 1)) + len > room
      BY <1>1, <1>7, <1>10, <1>a
    <3>. QED  BY <1>9, <3>1
  <2>5. k + 1 \in 1 .. b - a + 1 /\ (k + 1) + 1 = k + 2
    BY <1>1
  <2>6. ManyHas(idx, a, b, room, k + 1, y)
    BY <1>8, <2>1, <2>3, <2>4, <2>5 DEF ManyHas, T
  <2>. QED  BY <2>2, <2>6 DEF y
<1>11. CASE ~(counted.n >= b - a + 1 \/ counted.bytes + len > room)
  <2>0. k + 1 <= b - a /\ Len(T(k + 2)) <= room
    <3>1. ~(k + 1 >= b - a + 1) /\ ~(Len(T(k + 1)) + len > room)
      BY <1>7, <1>11, <1>a
    <3>2. k + 1 <= b - a
      BY <1>1, <3>1
    <3>3. len \in Nat /\ Len(T(k + 2)) = Len(T(k + 1)) + len
      BY <1>9, <3>2
    <3>. QED  BY <1>5, <3>1, <3>2, <3>3
  <2> DEFINE new == next.file # x.file
             start == IF new THEN 0 ELSE x.from
             bytes == IF new THEN T(k + 1) ELSE x.out
  <2>2. /\ next = idx[a + k + 1] /\ from2 = (IF x.file = next.file THEN x.to ELSE 0)
        /\ len = next.off - from2 /\ len \in Nat
    BY <1>9, <2>0
  <2>1. /\ y.n = k + 1 /\ y.bytes = Len(T(k + 1)) /\ y.indices = indices /\ y.out = bytes /\ y.on
        /\ y.file = next.file /\ y.from = start /\ y.to = next.off /\ y.len = len /\ y \in ManyStates(tmp)
    <3>1. CASE new
      <4>1. y = [read EXCEPT !.file = next.file, !.from = 0, !.to = next.off, !.len = len]
        BY <1>11, <1>d, <3>1
      <4>2. y \in ManyStates(tmp)
        BY <1>c, <1>f, <2>2, <4>1 DEF ManyStates
      <4>3. /\ y.n = k + 1 /\ y.bytes = Len(T(k + 1)) /\ y.indices = indices /\ y.out = T(k + 1) /\ y.on
            /\ y.file = next.file /\ y.from = 0 /\ y.to = next.off /\ y.len = len
        BY <1>f, <4>1 DEF ManyStates
      <4>. QED  BY <3>1, <4>2, <4>3
    <3>2. CASE ~new
      <4>1. y = [counted EXCEPT !.to = next.off, !.len = len]
        BY <1>11, <1>d, <3>2
      <4>2. y \in ManyStates(tmp)
        BY <1>c, <1>e, <2>2, <4>1 DEF ManyStates
      <4>3. /\ y.n = k + 1 /\ y.bytes = Len(T(k + 1)) /\ y.indices = indices /\ y.out = x.out /\ y.on
            /\ y.file = x.file /\ y.from = x.from /\ y.to = next.off /\ y.len = len
        BY <1>e, <4>1 DEF ManyStates
      <4>. QED  BY <3>2, <4>2, <4>3
    <3>. QED  BY <3>1, <3>2
  <2>5. bytes \o Bytes(next.file, start, from2) = T(k + 1) /\ start <= from2
    <3>1. CASE new
      <4>1. from2 = 0 /\ start = 0 /\ bytes = T(k + 1)
        BY <2>2, <3>1
      <4>2. next.file \in Int /\ 0 \in Int
        BY <1>c
      <4>. HIDE DEF start, bytes, new
      <4>3. T(k + 1) \o Bytes(next.file, 0, 0) = T(k + 1)
        BY <1>5, <4>2, NoBytes
      <4>. QED  BY <4>1, <4>3
    <3>2. CASE ~new
      <4>1. from2 = x.to /\ start = x.from /\ bytes = x.out /\ next.file = x.file
        BY <2>2, <3>2
      <4>2. x.from <= x.to
        BY <1>2, <1>3, <1>4
      <4>. HIDE DEF start, bytes, new
      <4>. QED  BY <1>6, <4>1, <4>2
    <3>. QED  BY <3>1, <3>2
  <2>6. a + (k + 1) = a + k + 1 /\ (k + 1) + 1 = k + 2
    BY <1>1
  <2>. HIDE DEF bytes, start, new
  <2>7. ManyHas(idx, a, b, room, k + 1, y)
    BY <1>8, <2>0, <2>1, <2>2, <2>5, <2>6 DEF ManyHas, T, from2
  <2>. QED  BY <2>1, <2>7 DEF y
<1>. QED  BY <1>10, <1>11

LEMMA ManyStarts ==
  ASSUME NEW idx, NEW m, IsIndex(idx, m), NEW a \in 1 .. Len(idx), NEW b \in a .. Len(idx), NEW room \in Nat,
         NEW tmp \in HandlesOf(idx),
         NEW x, x = [n |-> 0, bytes |-> 0, indices |-> <<>>, out |-> <<>>, on |-> TRUE, tmp |-> tmp,
                     file |-> idx[a].file, from |-> From(idx, a), to |-> idx[a].off,
                     len |-> idx[a].off - From(idx, a)]
  PROVE  x \in ManyStates(tmp) /\ ManyHas(idx, a, b, room, 0, x)
<1> DEFINE T(j) == Together(Whole(idx), a, j)
           from == From(idx, a)
           len == idx[a].off - from
<1>1. /\ a + 0 = a /\ a \in 1 .. Len(idx) /\ 0 <= b - a /\ b - a \in Nat
  BY IndexIs
<1>2. idx[a].file \in Nat /\ from \in Nat /\ from < idx[a].off /\ idx[a].off \in Nat
  BY IndexIs
<1>3. len \in Nat
  <2>. HIDE DEF from
  <2>. QED  BY <1>2
<1>4. T(0) = <<>> /\ Len(T(0)) = 0
  BY WholeAre
<1>. HIDE DEF T, from, len
<1>5. <<>> \in Seq(Nat) /\ Len(<<>>) = 0 /\ <<>> \in Seq(Cell)
  BY EmptySeq
<1>6. <<>> \o Bytes(idx[a].file, from, from) = <<>>
  <2>1. Bytes(idx[a].file, from, from) = <<>>
    <3>1. idx[a].file \in Int /\ from \in Int
      BY <1>2
    <3>. QED  BY <1>5, <3>1, NoBytes
  <2>. QED  BY <1>5, <2>1, ConcatEmptySeq
<1>7. x \in ManyStates(tmp)
  BY <1>2, <1>3, <1>5 DEF ManyStates, Lefts, from, len
<1>8. /\ x.n = 0 /\ x.bytes = 0 /\ x.indices = <<>> /\ x.out = <<>> /\ x.on = TRUE
      /\ x.file = idx[a].file /\ x.from = from /\ x.to = idx[a].off /\ x.len = len
  BY DEF from, len
<1>9. ManyHas(idx, a, b, room, 0, x)
  BY <1>1, <1>2, <1>4, <1>5, <1>6, <1>8 DEF ManyHas, T, from, len
<1>. QED  BY <1>7, <1>9

LEMMA ManyEnded ==
  ASSUME NEW idx, NEW a, NEW b, NEW room, NEW k, NEW j, NEW x, ManyHas(idx, a, b, room, k, x), ~x.on
  PROVE  ManyHas(idx, a, b, room, j, x)
BY DEF ManyHas

LEMMA ManyIs ==
  ASSUME NEW idx, NEW m, IsIndex(idx, m), NEW a \in 1 .. Len(idx), NEW b \in a .. Len(idx), NEW room \in Nat,
         NEW tmp \in HandlesOf(idx)
  PROVE  WellMany(idx, a, b, room, tmp)
<1> DEFINE N == b - a + 1
           first == [n |-> 0, bytes |-> 0, indices |-> <<>>, out |-> <<>>, on |-> TRUE, tmp |-> tmp,
                     file |-> idx[a].file, from |-> From(idx, a), to |-> idx[a].off,
                     len |-> idx[a].off - From(idx, a)]
           Is(g) == g = [k \in 0 .. N |->
                           IF k = 0 THEN first
                           ELSE IF g[k - 1].on THEN Promise(idx, a, b, room, g[k - 1]) ELSE g[k - 1]]
           st == CHOOSE g : Is(g)
           W == [k \in 0 .. N |-> {x \in ManyStates(tmp) : ManyHas(idx, a, b, room, k, x)}]
           F == [k \in 1 .. N |-> [x \in ManyStates(tmp) |-> IF x.on THEN Promise(idx, a, b, room, x) ELSE x]]
<1>1. Len(idx) \in Nat /\ N \in Nat /\ N \in 0 .. N /\ 0 \in 0 .. N
  BY IndexIs
<1>2. first \in W[0]
  <2>1. first \in ManyStates(tmp) /\ ManyHas(idx, a, b, room, 0, first)
    <3>. HIDE DEF first
    <3>. QED  BY ManyStarts DEF first
  <2>. HIDE DEF first
  <2>. QED  BY <1>1, <2>1
<1>. HIDE DEF first
<1>3. ASSUME NEW k \in 1 .. N, NEW x \in W[k - 1]
      PROVE  F[k][x] = (IF x.on THEN Promise(idx, a, b, room, x) ELSE x) /\ F[k][x] \in W[k]
  <2>1. k - 1 \in 0 .. N /\ k - 1 \in 0 .. b - a /\ k \in 0 .. N /\ (k - 1) + 1 = k
    BY <1>1
  <2>2. x \in ManyStates(tmp) /\ ManyHas(idx, a, b, room, k - 1, x)
    BY <2>1
  <2>3. F[k][x] = IF x.on THEN Promise(idx, a, b, room, x) ELSE x
    BY <2>2
  <2>4. F[k][x] \in ManyStates(tmp) /\ ManyHas(idx, a, b, room, k, F[k][x])
    <3>. HIDE DEF F, W
    <3>1. x.on \in BOOLEAN
      BY <2>2 DEF ManyStates
    <3>2. CASE x.on = TRUE
      BY <2>1, <2>2, <2>3, <3>2, ManyStep
    <3>3. CASE x.on = FALSE
      BY <2>2, <2>3, <3>3, ManyEnded
    <3>. QED  BY <3>1, <3>2, <3>3
  <2>. QED  BY <2>1, <2>3, <2>4
<1>a. \A k \in 1 .. N : \A x \in W[k - 1] : F[k][x] \in W[k]
  <2>. HIDE DEF F, W, N
  <2>. QED  BY <1>3
<1>4. \E g : Is(g)
  <2>1. PICK g : /\ g = [k \in 0 .. N |-> g[k]] /\ IsLoop(g, N, first, F)
                 /\ \A k \in 0 .. N : g[k] \in W[k]
    <3>. HIDE DEF F, W, N
    <3>. QED  BY <1>1, <1>2, <1>a, LoopExists
  <2>. HIDE DEF F, W
  <2>2. ASSUME NEW k \in 0 .. N
        PROVE  g[k] = IF k = 0 THEN first
                      ELSE IF g[k - 1].on THEN Promise(idx, a, b, room, g[k - 1]) ELSE g[k - 1]
    <3>1. CASE k = 0
      BY <2>1, <3>1 DEF IsLoop
    <3>2. CASE k # 0
      <4>1. k \in 1 .. N /\ k - 1 \in 0 .. N
        BY <1>1, <3>2
      <4>2. g[k] = F[k][g[k - 1]] /\ g[k - 1] \in W[k - 1]
        BY <2>1, <4>1 DEF IsLoop
      <4>. QED  BY <1>3, <3>2, <4>1, <4>2
    <3>. QED  BY <3>1, <3>2
  <2>3. Is(g)
    BY <2>1, <2>2
  <2>. QED  BY <2>3
<1>5. Is(st)
  BY <1>4
<1>6. getMany(idx, a, b, room, tmp) = st[N]
  BY DEF getMany, first
<1>. HIDE DEF st
<1>7. \A k \in 0 .. N : st[k] = IF k = 0 THEN first
                               ELSE IF st[k - 1].on THEN Promise(idx, a, b, room, st[k - 1]) ELSE st[k - 1]
  BY <1>5
<1>8. st[0] = first
  BY <1>1, <1>7
<1>9. \A k \in 1 .. N : st[k - 1] \in W[k - 1] => st[k] = F[k][st[k - 1]]
  <2>1. \A k \in 1 .. N : k \in 0 .. N /\ k # 0
    BY <1>1
  <2>. HIDE DEF F, W, N
  <2>. QED  BY <1>3, <1>7, <2>1
<1>10. \A k \in 0 .. N : st[k] \in W[k]
  <2>. HIDE DEF F, W, N
  <2>1. Takes(st, N, first, W, F)
    BY <1>8, <1>9 DEF Takes
  <2>. QED  BY <1>1, <1>2, <1>a, <2>1, LoopReaches
<1> DEFINE r == st[N]
<1>11. r \in ManyStates(tmp) /\ ManyHas(idx, a, b, room, N, r)
  BY <1>1, <1>10
<1>. HIDE DEF r
<1>12. ~(N <= b - a)
  BY <1>1
<1>13. r.on = FALSE
  BY <1>11, <1>12 DEF ManyHas, ManyStates
<1>14. IsPrefix(r, Whole(idx), a, b, room, 1)
  <2>. HIDE DEF N
  <2>. QED  BY <1>11, <1>13 DEF ManyHas, IsPrefix
<1>15. Offsets(r, Whole(idx), a)
  <2>. HIDE DEF N
  <2>. QED  BY <1>11 DEF ManyHas, Offsets
<1>16. Leaves(tmp, r.tmp)
  BY <1>11 DEF ManyStates, Lefts, Leaves
<1>. QED  BY <1>6, <1>14, <1>15, <1>16 DEF WellMany, r

-----------------------------------------------------------------------------
(* getMany with prefix and suffix, getManyWithPrefixSuffix with conversion *)

\* The first records from a, as many as fit of k, and no less than least.
Fitting(x, item, a, room, least, k) ==
  /\ x.n \in least .. k
  /\ x.out = Together(item, a, x.n)
  /\ x.n > least => Len(x.out) <= room
  /\ x.n < k => Len(Together(item, a, x.n + 1)) > room

\* The next record fits behind all that there were.
Fits(x, k, room, next) == x.n = k /\ Len(next) <= room - Len(x.out)

LEMMA FittingStep ==
  ASSUME NEW item, NEW a \in Int, NEW n \in Nat, Cells(item, a, n), NEW room \in Int,
         NEW least \in Nat, NEW k \in least .. n - 1, NEW x, Fitting(x, item, a, room, least, k)
  PROVE  /\ ~Fits(x, k, room, item[a + k]) => Fitting(x, item, a, room, least, k + 1)
         /\ \A y : Fits(x, k, room, item[a + k]) /\ y.n = k + 1 /\ y.out = x.out \o item[a + k]
                     => Fitting(y, item, a, room, least, k + 1)
         /\ x.out \in Seq(Cell) /\ x.out \o item[a + k] \in Seq(Cell) /\ Len(x.out) \in Nat
<1> DEFINE T(j) == Together(item, a, j)
           next == item[a + k]
<1>1. k \in Nat /\ k + 1 \in 1 .. n /\ k \in 0 .. n /\ (k + 1) - 1 = k /\ a + (k + 1) - 1 = a + k
  OBVIOUS
<1>2. T(k) \in Seq(Cell) /\ T(k + 1) = T(k) \o next /\ next \in Seq(Cell)
  BY <1>1, TogetherIs DEF Cells
<1>3. Len(T(k)) \in Nat /\ Len(next) \in Nat /\ Len(T(k + 1)) = Len(T(k)) + Len(next)
  <2>1. Len(T(k)) \in Nat
    BY <1>1, LengthsAre
  <2>2. /\ Len(item[a + (k + 1) - 1]) \in Nat
        /\ Len(T(k + 1)) = Len(T((k + 1) - 1)) + Len(item[a + (k + 1) - 1])
    BY <1>1, LengthsAre
  <2>. HIDE DEF T
  <2>. QED  BY <1>1, <2>1, <2>2
<1>4. x.n \in least .. k /\ x.n \in 0 .. n /\ x.n \in Nat
  BY <1>1 DEF Fitting
<1>5. /\ x.out = T(x.n) /\ (x.n > least => Len(x.out) <= room) /\ (x.n < k => Len(T(x.n + 1)) > room)
  BY DEF Fitting
<1>6. x.out \in Seq(Cell) /\ Len(x.out) \in Nat
  <2>1. T(x.n) \in Seq(Cell) /\ Len(T(x.n)) \in Nat
    BY <1>4, TogetherIs, LengthsAre
  <2>. HIDE DEF T
  <2>. QED  BY <1>5, <2>1
<1>7. x.out \o next \in Seq(Cell)
  BY <1>2, <1>6, ConcatProperties
<1>. HIDE DEF T, next
<1>8. ASSUME ~Fits(x, k, room, next) PROVE Fitting(x, item, a, room, least, k + 1)
  <2>1. x.n \in least .. k + 1
    BY <1>1, <1>4
  <2>2. ASSUME x.n < k + 1 PROVE Len(T(x.n + 1)) > room
    <3>1. CASE x.n < k
      BY <1>5, <3>1
    <3>2. CASE ~(x.n < k)
      <4>1. x.n = k
        BY <1>1, <1>4, <3>2
      <4>2. ~(Len(next) <= room - Len(T(k)))
        BY <1>5, <1>8, <4>1 DEF Fits
      <4>3. Len(T(k + 1)) > room
        BY <1>3, <4>2
      <4>. QED  BY <4>1, <4>3
    <3>. QED  BY <3>1, <3>2
  <2>. QED  BY <1>5, <2>1, <2>2 DEF Fitting, T
<1>9. ASSUME NEW y, Fits(x, k, room, next), y.n = k + 1, y.out = x.out \o next
      PROVE  Fitting(y, item, a, room, least, k + 1)
  <2>1. x.n = k /\ Len(next) <= room - Len(T(k))
    BY <1>5, <1>9 DEF Fits
  <2>2. y.out = T(k + 1)
    BY <1>2, <1>5, <1>9, <2>1
  <2>3. Len(T(k + 1)) <= room
    BY <1>3, <2>1
  <2>4. k + 1 \in least .. k + 1 /\ ~(k + 1 < k + 1)
    BY <1>1
  <2>. QED  BY <1>9, <2>2, <2>3, <2>4 DEF Fitting, T
<1>. QED  BY <1>6, <1>7, <1>8, <1>9 DEF next

LEMMA FittingEnds ==
  ASSUME NEW x, NEW item, NEW a \in Int, NEW b \in Int, NEW room, NEW least \in Nat,
         Fitting(x, item, a, room, least, b - a + 1)
  PROVE  IsPrefix(x, item, a, b, room, least)
<1>1. x.n \in least .. b - a + 1 /\ (x.n <= b - a => x.n < b - a + 1)
  BY DEF Fitting
<1>. QED  BY <1>1 DEF Fitting, IsPrefix

LEMMA InnerAre ==
  ASSUME NEW idx, NEW m, IsIndex(idx, m), NEW a \in 1 .. Len(idx), NEW b \in a .. Len(idx),
         NEW p \in Int, NEW q \in Int
  PROVE  /\ Cells(Inner(idx, p, q), a, b - a + 1)
         /\ \A i \in 1 .. Len(idx) :
              /\ Inner(idx, p, q)[i] = Data(idx[i].file, idx, i, p, q)
              /\ Data(idx[i].file, idx, i, p, q) \in Seq(Cell)
<1>1. Len(idx) \in Nat /\ DOMAIN idx = 1 .. Len(idx)
  BY IndexIs
<1>2. ASSUME NEW i \in 1 .. Len(idx)
      PROVE  /\ Inner(idx, p, q)[i] = Data(idx[i].file, idx, i, p, q)
             /\ Data(idx[i].file, idx, i, p, q) \in Seq(Cell)
  <2>1. idx[i].file \in Int /\ From(idx, i) \in Nat /\ idx[i].off \in Nat
    BY IndexIs
  <2> DEFINE f == idx[i].file
             from == From(idx, i)
             to == idx[i].off
  <2>. HIDE DEF f, from, to
  <2>2. f \in Int /\ from + p \in Int /\ to - q \in Int
    BY <2>1 DEF f, from, to
  <2>3. Bytes(f, from + p, to - q) \in Seq(Cell)
    BY <2>2, BytesAre
  <2>. QED  BY <1>1, <2>3 DEF Inner, Data, f, from, to
<1>3. \A k \in 1 .. b - a + 1 : a + k - 1 \in 1 .. Len(idx)
  BY <1>1
<1>4. Cells(Inner(idx, p, q), a, b - a + 1)
  BY <1>2, <1>3 DEF Cells
<1>. QED  BY <1>2, <1>4

\* A function that reads record by record is in file f, and reads f.  When that is not the
\* last file, its handle is closed before another is opened.
Ats == [tmp : AllHandles, file : Int, source : Int]
IsAt(at, last, f) ==
  /\ at \in Ats /\ at.file = f /\ at.source = f /\ at.tmp.last = last
  /\ f < last \/ Usable(at.tmp)

LEMMA Acquires ==
  ASSUME NEW tmp \in AllHandles, Usable(tmp), NEW f \in Nat, f <= tmp.last
  PROVE  IsAt(Acquired(tmp, f), tmp.last, f)
<1> DEFINE now == acquireDataFile(tmp, f)
<1>1. now = (IF f = tmp.last THEN tmp ELSE [tmp EXCEPT !.open = f]) /\ Source(tmp, f) = f
  BY Handled
<1>2. tmp.last \in Int /\ (f # tmp.last => f < tmp.last)
  BY DEF AllHandles
<1>3. now \in AllHandles /\ now.last = tmp.last /\ (f < tmp.last \/ Usable(now))
  BY <1>1, <1>2 DEF AllHandles
<1>4. Acquired(tmp, f) = [tmp |-> now, file |-> f, source |-> f]
  BY <1>1 DEF Acquired
<1>. HIDE DEF now
<1>. QED  BY <1>3, <1>4 DEF IsAt, Ats

LEMMA Moves ==
  ASSUME NEW at, NEW last, NEW f \in Nat, IsAt(at, last, f), NEW g \in Nat, g <= last
  PROVE  IsAt(Moved(at, g), last, g)
<1> DEFINE now == releaseDataFile(at.tmp, f)
<1>1. at.tmp \in AllHandles /\ at.file = f /\ at.tmp.last = last /\ (f < last \/ Usable(at.tmp))
  BY DEF IsAt, Ats
<1>2. CASE g = f
  BY <1>1, <1>2 DEF Moved
<1>3. CASE g # f
  <2>1. now \in AllHandles /\ now.last = last /\ Usable(now)
    <3>1. CASE f < last
      BY <1>1, <3>1 DEF releaseDataFile, AllHandles, Usable, CLOSED
    <3>2. CASE ~(f < last)
      BY <1>1, <3>2 DEF releaseDataFile
    <3>. QED  BY <3>1, <3>2
  <2>2. Moved(at, g) = Acquired(now, g)
    BY <1>1, <1>3 DEF Moved
  <2>. HIDE DEF now
  <2>. QED  BY <2>1, <2>2, Acquires
<1>. QED  BY <1>2, <1>3

\* Where each of the records begins in the buffer.
Begins(x, item, a) == Len(x.indices) = x.n /\ Offsets(x, item, a)

LEMMA BeginsStep ==
  ASSUME NEW item, NEW a, NEW x, Begins(x, item, a), x.n \in Nat, x.indices \in Seq(Nat),
         NEW len \in Nat, len = Len(Together(item, a, x.n)),
         NEW y, y.n = x.n + 1, y.indices = Append(x.indices, len)
  PROVE  Begins(y, item, a)
<1> DEFINE n == x.n
           s == x.indices
           t == y.indices
<1>1. n \in Nat /\ s \in Seq(Nat) /\ Len(s) = n /\ \A j \in 1 .. n : s[j] = Len(Together(item, a, j - 1))
  BY DEF Begins, Offsets
<1>. HIDE DEF n, s
<1>2. t = Append(s, len)
  BY DEF s
<1>. HIDE DEF t
<1>3. Len(t) = n + 1 /\ t[n + 1] = len /\ \A j \in 1 .. n : t[j] = s[j]
  BY <1>1, <1>2, AppendProperties
<1>4. ASSUME NEW j \in 1 .. n + 1 PROVE t[j] = Len(Together(item, a, j - 1))
  <2>1. CASE j = n + 1
    <3>1. j - 1 = n
      BY <1>1, <2>1
    <3>. QED  BY <1>3, <2>1, <3>1 DEF n
  <2>2. CASE j # n + 1
    <3>1. j \in 1 .. n
      BY <1>1, <2>2
    <3>. QED  BY <1>1, <1>3, <3>1
  <2>. QED  BY <2>1, <2>2
<1>. QED  BY <1>3, <1>4 DEF Begins, Offsets, n, t

DataStates == [n : Nat, out : Seq(Cell), indices : Seq(Nat), over : BOOLEAN, at : Ats]

\* After k turns: the first record did not fit, or those that were read are as many as fit.
DataHas(idx, tmp, a, room, p, q, k, x) ==
  LET item == Inner(idx, p, q) IN
  IF x.over THEN Len(item[a]) > room
  ELSE /\ Fitting(x, item, a, room, 0, k + 1) /\ Begins(x, item, a)
       /\ x.n = k + 1 => IsAt(x.at, tmp.last, idx[a + k].file)

LEMMA DataStep ==
  ASSUME NEW idx, NEW m, IsIndex(idx, m), NEW tmp \in HandlesOf(idx),
         NEW a \in 1 .. Len(idx), NEW b \in a .. Len(idx), NEW room \in Int, NEW p \in Int, NEW q \in Int,
         NEW k \in 1 .. b - a, NEW x \in DataStates, DataHas(idx, tmp, a, room, p, q, k - 1, x),
         x.n = k, x.over = FALSE
  PROVE  /\ DataTurn(idx, a + k, room, p, q, x) \in DataStates
         /\ DataHas(idx, tmp, a, room, p, q, k, DataTurn(idx, a + k, room, p, q, x))
<1> DEFINE item == Inner(idx, p, q)
           i == a + k
           f == idx[i].file
           at == Moved(x.at, f)
           moved == [x EXCEPT !.at = at]
           next == item[i]
           z == [moved EXCEPT !.n = @ + 1, !.out = @ \o next, !.indices = Append(@, Len(x.out))]
           y == DataTurn(idx, i, room, p, q, x)
<1>1. /\ Len(idx) \in Nat /\ a \in Int /\ b - a + 1 \in Nat /\ i \in 1 .. Len(idx) /\ i - 1 \in 1 .. Len(idx)
      /\ k \in Nat /\ a + (k - 1) = i - 1 /\ (k - 1) + 1 = k /\ k \in 0 .. (b - a + 1) - 1
  BY IndexIs
<1>2. Fitting(x, item, a, room, 0, k) /\ Begins(x, item, a) /\ IsAt(x.at, tmp.last, idx[i - 1].file)
  BY <1>1 DEF DataHas
<1>3. idx[i - 1].file \in Nat /\ f \in Nat /\ f <= tmp.last
  BY <1>1, IndexIs DEF HandlesOf
<1>4. IsAt(at, tmp.last, f)
  BY <1>2, <1>3, Moves
<1>5. at \in Ats /\ at.source = f
  BY <1>4 DEF IsAt
<1>. HIDE DEF at, f
<1>6. /\ moved \in DataStates /\ moved.n = k /\ moved.out = x.out /\ moved.indices = x.indices
      /\ moved.over = FALSE /\ moved.at = at
  BY <1>5 DEF DataStates
<1>a. Cells(item, a, b - a + 1) /\ Data(f, idx, i, p, q) = next
  BY <1>1, InnerAre DEF f
<1> DEFINE seen == Data(moved.at.source, idx, i, p, q)
<1>7. seen = next
  <2>1. moved.at.source = f
    BY <1>5, <1>6
  <2>. HIDE DEF moved
  <2>. QED  BY <1>a, <2>1
<1>8. y = IF Len(next) > room - Len(x.out) THEN moved ELSE z
  <2> DEFINE w == [moved EXCEPT !.n = @ + 1, !.out = @ \o seen, !.indices = Append(@, Len(x.out))]
  <2>1. y = IF Len(seen) > room - Len(x.out) THEN moved ELSE w
    BY DEF DataTurn, at, f
  <2>. HIDE DEF seen, next, moved, y
  <2>. QED  BY <1>7, <2>1
<1>. HIDE DEF item
<1>9. /\ ~Fits(x, k, room, next) => Fitting(x, item, a, room, 0, k + 1)
      /\ \A u : Fits(x, k, room, next) /\ u.n = k + 1 /\ u.out = x.out \o next
                  => Fitting(u, item, a, room, 0, k + 1)
      /\ x.out \in Seq(Cell) /\ x.out \o next \in Seq(Cell) /\ Len(x.out) \in Nat
  BY <1>1, <1>2, <1>a, FittingStep
<1>10. Len(next) \in Nat /\ Len(x.out) = Len(Together(item, a, x.n)) /\ x.n \in Nat /\ x.indices \in Seq(Nat)
  <2>1. next \in Seq(Cell)
    BY <1>1, InnerAre DEF item
  <2>. QED  BY <1>2, <2>1, LenProperties DEF Fitting, DataStates
<1>. HIDE DEF next, moved, z, y
<1>11. CASE Len(next) > room - Len(x.out)
  <2>1. y = moved /\ ~Fits(x, k, room, next)
    BY <1>8, <1>9, <1>10, <1>11 DEF Fits
  <2>2. Fitting(moved, item, a, room, 0, k + 1) /\ Begins(moved, item, a)
    BY <1>2, <1>6, <1>9, <2>1 DEF Fitting, Begins, Offsets
  <2>3. moved.n # k + 1
    BY <1>1, <1>6
  <2>. QED  BY <1>6, <2>1, <2>2, <2>3 DEF DataHas, item, y
<1>12. CASE ~(Len(next) > room - Len(x.out))
  <2>1. y = z /\ Fits(x, k, room, next)
    BY <1>8, <1>9, <1>10, <1>12 DEF Fits
  <2> DEFINE out == x.out \o next
             indices == Append(x.indices, Len(x.out))
  <2>2. z = [moved EXCEPT !.n = k + 1, !.out = out, !.indices = indices]
    BY <1>6 DEF z
  <2>3. out \in Seq(Cell) /\ indices \in Seq(Nat) /\ k + 1 \in Nat
    BY <1>1, <1>9, <1>10, AppendProperties
  <2>4. indices = Append(x.indices, Len(x.out)) /\ out = x.out \o next
    OBVIOUS
  <2>. HIDE DEF out, indices
  <2>5. z \in DataStates
    BY <1>6, <2>2, <2>3 DEF DataStates
  <2>6. /\ z.n = k + 1 /\ z.out = out /\ z.indices = indices /\ z.over = FALSE /\ z.at = at
    BY <1>6, <2>2 DEF DataStates
  <2>7. Fitting(z, item, a, room, 0, k + 1)
    BY <1>9, <2>1, <2>4, <2>6
  <2>8. Begins(z, item, a)
    BY <1>2, <1>9, <1>10, <2>4, <2>6, BeginsStep
  <2>. QED  BY <1>4, <2>1, <2>5, <2>6, <2>7, <2>8 DEF DataHas, item, f, y
<1>. QED  BY <1>11, <1>12

LEMMA DataStays ==
  ASSUME NEW idx, NEW tmp, NEW a, NEW room, NEW p, NEW q, NEW k \in Nat,
         NEW x \in DataStates, DataHas(idx, tmp, a, room, p, q, k - 1, x), ~(x.n = k /\ ~x.over),
         Cells(Inner(idx, p, q), a, k + 1), room \in Int
  PROVE  DataHas(idx, tmp, a, room, p, q, k, x)
<1>1. CASE x.over
  BY <1>1 DEF DataHas
<1>2. CASE ~x.over
  <2>1. x.n # k /\ (k - 1) + 1 = k /\ Fitting(x, Inner(idx, p, q), a, room, 0, k) /\ Begins(x, Inner(idx, p, q), a)
    BY <1>2 DEF DataHas
  <2>2. x.n \in 0 .. k + 1 /\ x.n < k /\ x.n # k + 1
    BY <2>1 DEF Fitting
  <2>3. Fitting(x, Inner(idx, p, q), a, room, 0, k + 1)
    BY <2>1, <2>2 DEF Fitting
  <2>. QED  BY <1>2, <2>1, <2>2, <2>3 DEF DataHas
<1>. QED  BY <1>1, <1>2

LEMMA DataStarts ==
  ASSUME NEW idx, NEW m, IsIndex(idx, m), NEW tmp \in HandlesOf(idx),
         NEW a \in 1 .. Len(idx), NEW room \in Int, NEW p \in Int, NEW q \in Int,
         NEW at, at = Acquired(tmp, idx[a].file), NEW data, data = Data(at.source, idx, a, p, q),
         NEW x, x = [n |-> 1, out |-> data, indices |-> << 0 >>, over |-> Len(data) > room, at |-> at]
  PROVE  x \in DataStates /\ DataHas(idx, tmp, a, room, p, q, 0, x)
<1> DEFINE item == Inner(idx, p, q)
<1>1. Len(idx) \in Nat /\ a \in Int /\ a + 0 = a /\ a \in a .. Len(idx) /\ a - a + 1 = 1 /\ 1 \in Nat
  BY IndexIs
<1>2. IsAt(at, tmp.last, idx[a].file)
  <2>1. tmp \in AllHandles /\ Usable(tmp) /\ idx[a].file \in Nat /\ idx[a].file <= tmp.last
    BY IndexIs DEF HandlesOf
  <2>. QED  BY <2>1, Acquires
<1>3. data = item[a] /\ data \in Seq(Cell) /\ Cells(item, a, 1)
  <2>1. at.source = idx[a].file
    BY <1>2 DEF IsAt
  <2>. QED  BY <1>1, <2>1, InnerAre
<1>. HIDE DEF item
<1>4. /\ Together(item, a, 0) = <<>> /\ Len(Together(item, a, 0)) = 0 /\ Together(item, a, 1) = data
  <2>1. 1 \in 1 .. 1 /\ 1 - 1 = 0 /\ a + 1 - 1 = a
    BY <1>1
  <2>2. Together(item, a, 0) = <<>> /\ Together(item, a, 1) = Together(item, a, 1 - 1) \o item[a + 1 - 1]
    BY <1>1, <1>3, <2>1, TogetherIs
  <2>. QED  BY <1>3, <2>1, <2>2, ConcatEmptySeq, EmptySeq
<1>5. << 0 >> \in Seq(Nat) /\ Len(<< 0 >>) = 1 /\ << 0 >>[1] = 0 /\ \A j \in 1 .. 1 : j = 1 /\ j - 1 = 0
  OBVIOUS
<1>6. at \in Ats /\ Len(data) \in Nat /\ (Len(data) > room) \in BOOLEAN
  BY <1>2, <1>3, LenProperties DEF IsAt
<1>7. x \in DataStates
  BY <1>3, <1>5, <1>6 DEF DataStates
<1>8. x.n = 1 /\ x.out = data /\ x.indices = << 0 >> /\ x.over = (Len(data) > room) /\ x.at = at
  OBVIOUS
<1>9. Begins(x, item, a)
  BY <1>4, <1>5, <1>8 DEF Begins, Offsets
<1>10. CASE Len(data) > room
  BY <1>3, <1>7, <1>8, <1>10 DEF DataHas, item
<1>11. CASE ~(Len(data) > room)
  <2>1. Fitting(x, item, a, room, 0, 0 + 1)
    <3>1. 1 \in 0 .. 0 + 1 /\ ~(1 < 0 + 1) /\ Len(data) <= room
      BY <1>6, <1>11
    <3>. QED  BY <1>4, <1>8, <3>1 DEF Fitting
  <2>. QED  BY <1>1, <1>2, <1>7, <1>8, <1>9, <1>11, <2>1 DEF DataHas, item
<1>. QED  BY <1>10, <1>11

LEMMA DataIs ==
  ASSUME NEW idx, NEW m, IsIndex(idx, m), NEW tmp \in HandlesOf(idx), NEW a \in 1 .. Len(idx),
         NEW b \in a .. Len(idx), NEW room \in Int, NEW p \in Int, NEW q \in Int
  PROVE  WellData(idx, a, b, room, p, q, tmp)
<1> DEFINE N == b - a
           opened == Acquired(tmp, idx[a].file)
           data == Data(opened.source, idx, a, p, q)
           first == [n |-> 1, out |-> data, indices |-> << 0 >>, over |-> Len(data) > room, at |-> opened]
           Step(k, x) == IF x.n = k /\ ~x.over THEN DataTurn(idx, a + k, room, p, q, x) ELSE x
           Is(g) == g = [k \in 0 .. N |-> IF k = 0 THEN first ELSE Step(k, g[k - 1])]
           st == CHOOSE g : Is(g)
           W == [k \in 0 .. N |-> {x \in DataStates : DataHas(idx, tmp, a, room, p, q, k, x)}]
           F == [k \in 1 .. N |-> [x \in DataStates |-> Step(k, x)]]
<1>1. Len(idx) \in Nat /\ N \in Nat /\ N \in 0 .. N /\ 0 \in 0 .. N /\ a \in Int /\ b \in Int
  BY IndexIs
<1>2. first \in W[0]
  <2>1. first \in DataStates /\ DataHas(idx, tmp, a, room, p, q, 0, first)
    <3>. HIDE DEF first, data, opened
    <3>. QED  BY DataStarts DEF first, data, opened
  <2>. HIDE DEF first
  <2>. QED  BY <1>1, <2>1
<1>3. getManyData(idx, a, b, room, p, q, tmp) = st[N]
  BY DEF getManyData
<1>. HIDE DEF first
<1>4. ASSUME NEW k \in 1 .. N, NEW x \in W[k - 1]
      PROVE  F[k][x] = Step(k, x) /\ F[k][x] \in W[k]
  <2>1. k - 1 \in 0 .. N /\ k \in 0 .. N /\ k \in 1 .. b - a /\ k \in Nat
    BY <1>1
  <2>2. x \in DataStates /\ DataHas(idx, tmp, a, room, p, q, k - 1, x) /\ x.over \in BOOLEAN
    BY <2>1 DEF DataStates
  <2>3. F[k][x] = Step(k, x)
    BY <2>2
  <2>4. Step(k, x) \in DataStates /\ DataHas(idx, tmp, a, room, p, q, k, Step(k, x))
    <3>1. CASE x.n = k /\ ~x.over
      <4>1. Step(k, x) = DataTurn(idx, a + k, room, p, q, x)
        BY <3>1
      <4>2. /\ DataTurn(idx, a + k, room, p, q, x) \in DataStates
            /\ DataHas(idx, tmp, a, room, p, q, k, DataTurn(idx, a + k, room, p, q, x))
        BY <2>1, <2>2, <3>1, DataStep
      <4>. QED  BY <4>1, <4>2
    <3>2. CASE ~(x.n = k /\ ~x.over)
      <4>1. Cells(Inner(idx, p, q), a, k + 1)
        <5>1. a + k \in a .. Len(idx) /\ (a + k) - a + 1 = k + 1
          BY <1>1, <2>1
        <5>. QED  BY <5>1, InnerAre
      <4>2. Step(k, x) = x
        BY <3>2
      <4>. QED  BY <2>1, <2>2, <3>2, <4>1, <4>2, DataStays
    <3>. QED  BY <3>1, <3>2
  <2>. HIDE DEF F, Step
  <2>. QED  BY <2>1, <2>3, <2>4
<1>. HIDE DEF Step
<1>5. \A k \in 1 .. N : \A x \in W[k - 1] : F[k][x] \in W[k]
  <2>. HIDE DEF F, W, N
  <2>. QED  BY <1>4
<1>6. \E g : Is(g)
  <2>1. PICK g : /\ g = [k \in 0 .. N |-> g[k]] /\ IsLoop(g, N, first, F)
                 /\ \A k \in 0 .. N : g[k] \in W[k]
    <3>. HIDE DEF F, W, N
    <3>. QED  BY <1>1, <1>2, <1>5, LoopExists
  <2>. HIDE DEF F, W
  <2>2. ASSUME NEW k \in 0 .. N PROVE g[k] = IF k = 0 THEN first ELSE Step(k, g[k - 1])
    <3>1. CASE k = 0
      BY <2>1, <3>1 DEF IsLoop
    <3>2. CASE k # 0
      <4>1. k \in 1 .. N /\ k - 1 \in 0 .. N
        BY <1>1, <3>2
      <4>2. g[k] = F[k][g[k - 1]] /\ g[k - 1] \in W[k - 1]
        BY <2>1, <4>1 DEF IsLoop
      <4>. QED  BY <1>4, <3>2, <4>1, <4>2
    <3>. QED  BY <3>1, <3>2
  <2>3. Is(g)
    BY <2>1, <2>2
  <2>. QED  BY <2>3
<1>7. Is(st)
  BY <1>6
<1>. HIDE DEF st
<1>8. Takes(st, N, first, W, F)
  <2>1. \A k \in 1 .. N : k \in 0 .. N /\ k # 0
    BY <1>1
  <2>2. \A k \in 0 .. N : st[k] = IF k = 0 THEN first ELSE Step(k, st[k - 1])
    BY <1>7
  <2>. HIDE DEF F, W, N
  <2>. QED  BY <1>1, <1>4, <2>1, <2>2 DEF Takes
<1> DEFINE r == st[N]
           item == Inner(idx, p, q)
<1>9. \A k \in 0 .. N : st[k] \in W[k]
  <2>. HIDE DEF F, W, N
  <2>. QED  BY <1>1, <1>2, <1>5, <1>8, LoopReaches
<1>10. DataHas(idx, tmp, a, room, p, q, b - a, r)
  BY <1>1, <1>9
<1>. HIDE DEF r
<1>11. CASE r.over
  BY <1>3, <1>10, <1>11 DEF DataHas, WellData, r
<1>12. CASE ~r.over
  <2>1. Fitting(r, item, a, room, 0, b - a + 1) /\ Begins(r, item, a)
    BY <1>10, <1>12 DEF DataHas
  <2>. HIDE DEF item
  <2>2. IsPrefix(r, item, a, b, room, 0) /\ Offsets(r, item, a)
    BY <1>1, <2>1, FittingEnds DEF Begins
  <2>. QED  BY <1>3, <1>12, <2>2 DEF WellData, r, item
<1>. QED  BY <1>11, <1>12

LEMMA OtherAre ==
  ASSUME NEW idx, NEW m, IsIndex(idx, m), NEW a \in 1 .. Len(idx), NEW b \in a .. Len(idx),
         NEW p \in Int, NEW q \in Int, NEW p2 \in Int, NEW q2 \in Int
  PROVE  /\ Cells(Other(idx, p, q, p2, q2), a, b - a + 1)
         /\ \A i \in 1 .. Len(idx) : Other(idx, p, q, p2, q2)[i] = Wrapped(Data(idx[i].file, idx, i, p, q), p2, q2)
<1>1. Len(idx) \in Nat /\ DOMAIN idx = 1 .. Len(idx)
  BY IndexIs
<1>2. ASSUME NEW i \in 1 .. Len(idx)
      PROVE  /\ Other(idx, p, q, p2, q2)[i] = Wrapped(Data(idx[i].file, idx, i, p, q), p2, q2)
             /\ Other(idx, p, q, p2, q2)[i] \in Seq(Cell)
  <2> DEFINE data == Data(idx[i].file, idx, i, p, q)
             pre == [k \in 1 .. p2 |-> <<-1, Len(data)>>]
             suf == [k \in 1 .. q2 |-> <<-2, Len(data)>>]
  <2>1. data \in Seq(Cell) /\ Len(data) \in Nat
    BY InnerAre, LenProperties
  <2>2. Other(idx, p, q, p2, q2)[i] = (pre \o data) \o suf
    BY <1>1 DEF Other, Wrapped
  <2>. HIDE DEF data
  <2>3. <<-1, Len(data)>> \in Cell /\ <<-2, Len(data)>> \in Cell
    BY <2>1 DEF Cell
  <2>4. ASSUME NEW c \in Cell, NEW n \in Int PROVE [k \in 1 .. n |-> c] \in Seq(Cell)
    <3>1. CASE n \in Nat
      BY <3>1
    <3>2. CASE n \notin Nat
      <4>1. 1 .. n = 1 .. 0 /\ 0 \in Nat
        BY <3>2
      <4>2. [k \in 1 .. 0 |-> c] \in Seq(Cell)
        OBVIOUS
      <4>. QED  BY <4>1, <4>2
    <3>. QED  BY <3>1, <3>2
  <2>5. pre \in Seq(Cell) /\ suf \in Seq(Cell)
    BY <2>3, <2>4
  <2>. HIDE DEF pre, suf
  <2>6. pre \o data \in Seq(Cell)
    BY <2>1, <2>5, ConcatProperties
  <2>7. (pre \o data) \o suf \in Seq(Cell)
    BY <2>5, <2>6, ConcatProperties
  <2>. QED  BY <1>1, <2>2, <2>7 DEF Other
<1>3. \A k \in 1 .. b - a + 1 : a + k - 1 \in 1 .. Len(idx)
  BY <1>1
<1>4. Cells(Other(idx, p, q, p2, q2), a, b - a + 1)
  BY <1>2, <1>3 DEF Cells
<1>. QED  BY <1>2, <1>4

WrappedStates == [n : Nat, out : Seq(Cell), at : Ats]

\* After k turns: those that were read are as many as fit.  The file is the first record's,
\* and then that of the last one read.
WrappedHas(idx, tmp, a, room, p, q, p2, q2, k, x) ==
  /\ Fitting(x, Other(idx, p, q, p2, q2), a, room, 0, k)
  /\ x.n = k => \E i \in 1 .. Len(idx) : IsAt(x.at, tmp.last, idx[i].file)

LEMMA ConvertedStep ==
  ASSUME NEW idx, NEW m, IsIndex(idx, m), NEW tmp \in HandlesOf(idx),
         NEW a \in 1 .. Len(idx), NEW b \in a .. Len(idx), NEW room \in Int,
         NEW p \in Int, NEW q \in Int, NEW p2 \in Int, NEW q2 \in Int,
         NEW k \in 0 .. b - a, NEW x \in WrappedStates, WrappedHas(idx, tmp, a, room, p, q, p2, q2, k, x), x.n = k
  PROVE  /\ ConvertedTurn(idx, a + k, room, p, q, p2, q2, x) \in WrappedStates
         /\ WrappedHas(idx, tmp, a, room, p, q, p2, q2, k + 1, ConvertedTurn(idx, a + k, room, p, q, p2, q2, x))
<1> DEFINE item == Other(idx, p, q, p2, q2)
           i == a + k
           f == idx[i].file
           at == Moved(x.at, f)
           moved == [x EXCEPT !.at = at]
           next == item[i]
           seen == Wrapped(Data(moved.at.source, idx, i, p, q), p2, q2)
           z == [moved EXCEPT !.n = @ + 1, !.out = @ \o next]
           y == ConvertedTurn(idx, i, room, p, q, p2, q2, x)
<1>1. /\ Len(idx) \in Nat /\ a \in Int /\ b - a + 1 \in Nat /\ i \in 1 .. Len(idx)
      /\ k \in Nat /\ k + 1 \in Nat /\ k + 1 # k /\ k \in 0 .. (b - a + 1) - 1
  BY IndexIs
<1>2. PICK j \in 1 .. Len(idx) : Fitting(x, item, a, room, 0, k) /\ IsAt(x.at, tmp.last, idx[j].file)
  BY <1>1 DEF WrappedHas
<1>3. idx[j].file \in Nat /\ f \in Nat /\ f <= tmp.last
  BY <1>1, IndexIs DEF HandlesOf
<1>4. IsAt(at, tmp.last, f)
  BY <1>2, <1>3, Moves
<1>5. at \in Ats /\ at.source = f
  BY <1>4 DEF IsAt
<1>. HIDE DEF at, f
<1>6. moved \in WrappedStates /\ moved.n = k /\ moved.out = x.out /\ moved.at = at
  BY <1>5 DEF WrappedStates
<1>a. Cells(item, a, b - a + 1) /\ Wrapped(Data(f, idx, i, p, q), p2, q2) = next
  BY <1>1, OtherAre DEF f
<1>7. seen = next
  <2>1. moved.at.source = f
    BY <1>5, <1>6
  <2>. HIDE DEF moved
  <2>. QED  BY <1>a, <2>1
<1>8. y = IF Len(next) > room - Len(x.out) THEN moved ELSE z
  <2> DEFINE w == [moved EXCEPT !.n = @ + 1, !.out = @ \o seen]
  <2>1. y = IF Len(seen) > room - Len(x.out) THEN moved ELSE w
    BY DEF ConvertedTurn, at, f
  <2>. HIDE DEF seen, next, moved, y
  <2>. QED  BY <1>7, <2>1
<1>9. /\ ~Fits(x, k, room, next) => Fitting(x, item, a, room, 0, k + 1)
      /\ \A u : Fits(x, k, room, next) /\ u.n = k + 1 /\ u.out = x.out \o next
                  => Fitting(u, item, a, room, 0, k + 1)
      /\ x.out \in Seq(Cell) /\ x.out \o next \in Seq(Cell) /\ Len(x.out) \in Nat
  <2>. HIDE DEF item
  <2>. QED  BY <1>1, <1>2, <1>a, FittingStep
<1>10. Len(next) \in Nat
  <2>1. k + 1 \in 1 .. b - a + 1 /\ a + (k + 1) - 1 = i
    BY <1>1
  <2>. HIDE DEF item
  <2>2. next \in Seq(Cell)
    BY <1>a, <2>1 DEF Cells
  <2>. QED  BY <2>2, LenProperties
<1>. HIDE DEF item, next, moved, z, y, seen
<1>11. CASE Len(next) > room - Len(x.out)
  <2>1. y = moved /\ ~Fits(x, k, room, next)
    BY <1>8, <1>9, <1>10, <1>11 DEF Fits
  <2>2. Fitting(moved, item, a, room, 0, k + 1)
    BY <1>6, <1>9, <2>1 DEF Fitting
  <2>. QED  BY <1>1, <1>6, <2>1, <2>2 DEF WrappedHas, item, y
<1>12. CASE ~(Len(next) > room - Len(x.out))
  <2>1. y = z /\ Fits(x, k, room, next)
    BY <1>8, <1>9, <1>10, <1>12 DEF Fits
  <2> DEFINE out == x.out \o next
  <2>2. z = [moved EXCEPT !.n = k + 1, !.out = out]
    BY <1>6 DEF z
  <2>3. out \in Seq(Cell) /\ out = x.out \o next
    BY <1>9
  <2>. HIDE DEF out
  <2>4. z \in WrappedStates /\ z.n = k + 1 /\ z.out = out /\ z.at = at
    BY <1>1, <1>6, <2>2, <2>3 DEF WrappedStates
  <2>5. Fitting(z, item, a, room, 0, k + 1)
    BY <1>9, <2>1, <2>3, <2>4
  <2>. QED  BY <1>1, <1>4, <2>1, <2>4, <2>5 DEF WrappedHas, item, f, y
<1>. QED  BY <1>11, <1>12

LEMMA ConvertedStarts ==
  ASSUME NEW idx, NEW m, IsIndex(idx, m), NEW tmp \in HandlesOf(idx), NEW a \in 1 .. Len(idx), NEW room \in Int,
         NEW p \in Int, NEW q \in Int, NEW p2 \in Int, NEW q2 \in Int,
         NEW x, x = [n |-> 0, out |-> <<>>, at |-> Acquired(tmp, idx[a].file)]
  PROVE  x \in WrappedStates /\ WrappedHas(idx, tmp, a, room, p, q, p2, q2, 0, x)
<1> DEFINE item == Other(idx, p, q, p2, q2)
           at == Acquired(tmp, idx[a].file)
<1>1. Len(idx) \in Nat /\ a \in Int /\ a \in a .. Len(idx)
  BY IndexIs
<1>2. IsAt(at, tmp.last, idx[a].file)
  <2>1. tmp \in AllHandles /\ Usable(tmp) /\ idx[a].file \in Nat /\ idx[a].file <= tmp.last
    BY IndexIs DEF HandlesOf
  <2>. QED  BY <2>1, Acquires
<1>3. Together(item, a, 0) = <<>> /\ <<>> \in Seq(Cell) /\ 0 \in Nat /\ 0 \in 0 .. 0
  <2>1. Cells(item, a, a - a + 1) /\ a - a + 1 \in Nat
    BY <1>1, OtherAre
  <2>. HIDE DEF item
  <2>2. Together(item, a, 0) = <<>>
    BY <1>1, <2>1, TogetherIs
  <2>. QED  BY <2>2, EmptySeq
<1>4. at \in Ats
  BY <1>2 DEF IsAt
<1>. HIDE DEF item, at
<1>5. x = [n |-> 0, out |-> <<>>, at |-> at]
  BY DEF at
<1>6. x \in WrappedStates /\ x.n = 0 /\ x.out = <<>> /\ x.at = at
  BY <1>3, <1>4, <1>5 DEF WrappedStates
<1>7. Fitting(x, item, a, room, 0, 0)
  BY <1>3, <1>6 DEF Fitting
<1>. QED  BY <1>2, <1>6, <1>7 DEF WrappedHas, item

LEMMA ConvertedIs ==
  ASSUME NEW idx, NEW m, IsIndex(idx, m), NEW tmp \in HandlesOf(idx), NEW a \in 1 .. Len(idx),
         NEW b \in a .. Len(idx), NEW room \in Int, NEW p \in Int, NEW q \in Int, NEW p2 \in Int, NEW q2 \in Int
  PROVE  WellConverted(idx, a, b, room, p, q, p2, q2, tmp)
<1> DEFINE N == b - a + 1
           first == [n |-> 0, out |-> <<>>, at |-> Acquired(tmp, idx[a].file)]
           Step(k, x) == IF x.n = k - 1 THEN ConvertedTurn(idx, a + k - 1, room, p, q, p2, q2, x) ELSE x
           Is(g) == g = [k \in 0 .. N |-> IF k = 0 THEN first ELSE Step(k, g[k - 1])]
           st == CHOOSE g : Is(g)
           W == [k \in 0 .. N |-> {x \in WrappedStates : WrappedHas(idx, tmp, a, room, p, q, p2, q2, k, x)}]
           F == [k \in 1 .. N |-> [x \in WrappedStates |-> Step(k, x)]]
<1>1. Len(idx) \in Nat /\ N \in Nat /\ N \in 0 .. N /\ 0 \in 0 .. N /\ a \in Int /\ b \in Int
  BY IndexIs
<1>2. first \in W[0]
  <2>1. first \in WrappedStates /\ WrappedHas(idx, tmp, a, room, p, q, p2, q2, 0, first)
    <3>. HIDE DEF first
    <3>. QED  BY ConvertedStarts DEF first
  <2>. HIDE DEF first
  <2>. QED  BY <1>1, <2>1
<1>3. getManyWithPrefixSuffixConversion(idx, a, b, room, p, q, p2, q2, tmp) = st[N]
  BY DEF getManyWithPrefixSuffixConversion
<1>. HIDE DEF first
<1>4. ASSUME NEW k \in 1 .. N, NEW x \in W[k - 1]
      PROVE  F[k][x] = Step(k, x) /\ F[k][x] \in W[k]
  <2>1. /\ k - 1 \in 0 .. N /\ k \in 0 .. N /\ k - 1 \in 0 .. b - a /\ a + k - 1 = a + (k - 1) /\ (k - 1) + 1 = k
        /\ k \in Nat /\ k - 1 \in Nat
    BY <1>1
  <2>2. x \in WrappedStates /\ WrappedHas(idx, tmp, a, room, p, q, p2, q2, k - 1, x)
    BY <2>1
  <2>3. F[k][x] = Step(k, x)
    BY <2>2
  <2>4. Step(k, x) \in WrappedStates /\ WrappedHas(idx, tmp, a, room, p, q, p2, q2, k, Step(k, x))
    <3>1. CASE x.n = k - 1
      <4> DEFINE j == k - 1
                 y == ConvertedTurn(idx, a + j, room, p, q, p2, q2, x)
      <4>1. Step(k, x) = y /\ j + 1 = k /\ j \in 0 .. b - a /\ x.n = j
        BY <2>1, <3>1
      <4>2. WrappedHas(idx, tmp, a, room, p, q, p2, q2, j, x)
        BY <2>2
      <4>. HIDE DEF j
      <4>3. y \in WrappedStates /\ WrappedHas(idx, tmp, a, room, p, q, p2, q2, j + 1, y)
        BY <2>2, <4>1, <4>2, ConvertedStep
      <4>. HIDE DEF y, Step
      <4>. QED  BY <4>1, <4>3
    <3>2. CASE x.n # k - 1
      <4>1. x.n \in 0 .. k /\ x.n < k - 1 /\ x.n # k
        BY <2>1, <2>2, <3>2 DEF WrappedHas, Fitting
      <4>2. WrappedHas(idx, tmp, a, room, p, q, p2, q2, k, x)
        BY <2>2, <4>1 DEF WrappedHas, Fitting
      <4>3. Step(k, x) = x
        BY <3>2
      <4>. QED  BY <2>2, <4>2, <4>3
    <3>. QED  BY <3>1, <3>2
  <2>. HIDE DEF F, Step
  <2>. QED  BY <2>1, <2>3, <2>4
<1>. HIDE DEF Step
<1>5. \A k \in 1 .. N : \A x \in W[k - 1] : F[k][x] \in W[k]
  <2>. HIDE DEF F, W, N
  <2>. QED  BY <1>4
<1>6. \E g : Is(g)
  <2>1. PICK g : /\ g = [k \in 0 .. N |-> g[k]] /\ IsLoop(g, N, first, F)
                 /\ \A k \in 0 .. N : g[k] \in W[k]
    <3>. HIDE DEF F, W, N
    <3>. QED  BY <1>1, <1>2, <1>5, LoopExists
  <2>. HIDE DEF F, W
  <2>2. ASSUME NEW k \in 0 .. N PROVE g[k] = IF k = 0 THEN first ELSE Step(k, g[k - 1])
    <3>1. CASE k = 0
      BY <2>1, <3>1 DEF IsLoop
    <3>2. CASE k # 0
      <4>1. k \in 1 .. N /\ k - 1 \in 0 .. N
        BY <1>1, <3>2
      <4>2. g[k] = F[k][g[k - 1]] /\ g[k - 1] \in W[k - 1]
        BY <2>1, <4>1 DEF IsLoop
      <4>. QED  BY <1>4, <3>2, <4>1, <4>2
    <3>. QED  BY <3>1, <3>2
  <2>3. Is(g)
    BY <2>1, <2>2
  <2>. QED  BY <2>3
<1>7. Is(st)
  BY <1>6
<1>. HIDE DEF st
<1>8. Takes(st, N, first, W, F)
  <2>1. \A k \in 1 .. N : k \in 0 .. N /\ k # 0
    BY <1>1
  <2>2. \A k \in 0 .. N : st[k] = IF k = 0 THEN first ELSE Step(k, st[k - 1])
    BY <1>7
  <2>. HIDE DEF F, W, N
  <2>. QED  BY <1>1, <1>4, <2>1, <2>2 DEF Takes
<1> DEFINE r == st[N]
           item == Other(idx, p, q, p2, q2)
<1>9. \A k \in 0 .. N : st[k] \in W[k]
  <2>. HIDE DEF F, W, N
  <2>. QED  BY <1>1, <1>2, <1>5, <1>8, LoopReaches
<1>10. WrappedHas(idx, tmp, a, room, p, q, p2, q2, b - a + 1, r)
  BY <1>1, <1>9
<1>. HIDE DEF r
<1>11. Fitting(r, item, a, room, 0, b - a + 1)
  BY <1>10 DEF WrappedHas
<1>. HIDE DEF item
<1>12. IsPrefix(r, item, a, b, room, 0)
  BY <1>1, <1>11, FittingEnds
<1>. QED  BY <1>3, <1>12 DEF WellConverted, r, item

-----------------------------------------------------------------------------
(* readSingleMessageBuffer, getRecordData *)

LEMMA SingleIs ==
  ASSUME NEW idx, NEW m, IsIndex(idx, m), NEW i \in 1 .. Len(idx), NEW room \in Nat,
         NEW tmp \in HandlesOf(idx)
  PROVE  WellSingle(idx, i, room, tmp)
<1> DEFINE f == idx[i].file
           from == From(idx, i)
           to == idx[i].off
           s == Whole(idx)[i]
           t == readSingle(idx, i, room, tmp).out
           n == Min({room, Len(s)})
           end == Min({to, from + room})
<1>1. f \in Int /\ from \in Nat /\ to \in Nat /\ from <= to /\ s = Bytes(f, from, to)
  BY IndexIs
<1>2. t = Bytes(f, from, end) /\ readSingle(idx, i, room, tmp).tmp \in Lefts(tmp)
  <2>1. InIndex(idx, f) /\ tmp \in Lefts(tmp)
    BY DEF InIndex, Lefts
  <2>2. (\A u, v : Fetch(tmp, f, u, v) = Bytes(f, u, v)) /\ After(tmp, f) \in Lefts(tmp)
    BY <2>1, Fetched
  <2>3. t = Fetch(tmp, f, from, end) /\ readSingle(idx, i, room, tmp).tmp = After(tmp, f)
    BY DEF readSingle
  <2>. HIDE DEF t, f, from, end
  <2>. QED  BY <2>2, <2>3
<1>3. WellSingle(idx, i, room, tmp) <=> t = SubSeq(s, 1, n)
  BY <1>2 DEF WellSingle, Leaves, Lefts
<1>. HIDE DEF f, from, to, s, t
<1>4. /\ s \in Seq(Cell) /\ Len(s) = to - from /\ to - from \in Nat
      /\ \A k \in 1 .. to - from : s[k] = <<f, from + k>>
  <2>1. /\ Bytes(f, from, to) \in Seq(Cell) /\ Len(Bytes(f, from, to)) = to - from
        /\ \A k \in 1 .. to - from : Bytes(f, from, to)[k] = <<f, from + k>>
    <3>1. from \in Int /\ to \in Int
      BY <1>1
    <3>. QED  BY <1>1, <3>1, BytesAre
  <2>2. to - from \in Nat
    BY <1>1
  <2>. QED  BY <1>1, <2>1, <2>2
<1>5. n \in 0 .. to - from /\ end = from + n /\ end - from = n
  <2>1. n = IF room <= Len(s) THEN room ELSE Len(s)
    BY <1>4, MinOfPair
  <2>2. end = IF to <= from + room THEN to ELSE from + room
    BY <1>1, MinOfPair
  <2>. HIDE DEF n, end
  <2>. QED  BY <1>1, <1>4, <2>1, <2>2
<1>. HIDE DEF n, end
<1>6. t \in Seq(Cell) /\ Len(t) = n /\ \A k \in 1 .. n : t[k] = <<f, from + k>>
  <2>1. end \in Int /\ from \in Int /\ from <= end
    BY <1>1, <1>5
  <2>2. /\ Bytes(f, from, end) \in Seq(Cell) /\ Len(Bytes(f, from, end)) = end - from
        /\ \A k \in 1 .. end - from : Bytes(f, from, end)[k] = <<f, from + k>>
    BY <1>1, <2>1, BytesAre
  <2>. QED  BY <1>2, <1>5, <2>2
<1>7. /\ SubSeq(s, 1, n) \in Seq(Cell) /\ Len(SubSeq(s, 1, n)) = n
      /\ \A k \in 1 .. n : SubSeq(s, 1, n)[k] = s[k]
  <2>1. n \in Nat /\ n <= Len(s) /\ Len(s) \in Nat
    BY <1>4, <1>5
  <2>2. SubSeq(s, 1, n) = [k \in 1 .. n |-> s[k]]
    BY <1>4, <2>1 DEF SubSeq
  <2>3. \A k \in 1 .. n : s[k] \in Cell
    <3>1. \A k \in 1 .. n : k \in 1 .. Len(s)
      BY <2>1
    <3>. QED  BY <1>4, <3>1, ElementOfSeq
  <2>4. [k \in 1 .. n |-> s[k]] \in Seq(Cell) /\ Len([k \in 1 .. n |-> s[k]]) = n
    BY <2>1, <2>3
  <2>. QED  BY <2>2, <2>4
<1>8. \A k \in 1 .. n : t[k] = SubSeq(s, 1, n)[k]
  <2>1. \A k \in 1 .. n : k \in 1 .. to - from
    BY <1>4, <1>5
  <2>. QED  BY <1>4, <1>6, <1>7, <2>1
<1>9. t = SubSeq(s, 1, n)
  BY <1>6, <1>7, <1>8, SeqEqual
<1>. QED  BY <1>3, <1>9

\* Blocks that were read from the file that they are of.
Blocks == {c \in [file : Int, source : Int, off : Int, len : Int] : c.source = c.file}

LEMMA FileEndIs ==
  ASSUME NEW idx, NEW m, IsIndex(idx, m), NEW i \in 1 .. Len(idx)
  PROVE  FileEnd(idx, idx[i].file) \in Nat /\ idx[i].off <= FileEnd(idx, idx[i].file)
<1> DEFINE S == {idx[j].off : j \in {j \in DOMAIN idx : idx[j].file = idx[i].file}}
<1>1. S \subseteq Nat /\ S # {} /\ idx[i].off \in S /\ m \in Nat /\ \A x \in S : x <= m
  BY IndexIs DEF IsIndex
<1>2. FileEnd(idx, idx[i].file) = Max(S)
  BY DEF FileEnd
<1>. HIDE DEF S
<1>3. Max(S) \in S /\ \A y \in S : Max(S) >= y
  BY <1>1, MaxExists
<1>4. Max(S) \in Nat /\ idx[i].off \in Nat
  BY <1>1, <1>3
<1>. QED  BY <1>1, <1>2, <1>3, <1>4

\* Whatever block there was, the one that there is now has the whole record.
LEMMA BlockIs ==
  ASSUME NEW idx, NEW m, IsIndex(idx, m), NEW i \in 1 .. Len(idx), NEW size \in Nat, NEW block \in Blocks,
         NEW tmp \in HandlesOf(idx), NEW c, c = BlockFor(idx, block, i, size, tmp)
  PROVE  c \in Blocks /\ c.file = idx[i].file /\ c.off <= From(idx, i) /\ idx[i].off <= c.off + c.len
<1> DEFINE f == idx[i].file
           from == From(idx, i)
           to == idx[i].off
           end == FileEnd(idx, f)
           len == Min({Max({size, to - from}), end - from})
           kept == /\ f = block.file
                   /\ block.off <= from /\ from <= block.off + block.len
                   /\ from < block.off + block.len
                   /\ block.off <= to /\ to <= block.off + block.len
           new == [file |-> f, source |-> Source(tmp, f), off |-> from, len |-> len]
<1>1. f \in Nat /\ from \in Nat /\ to \in Nat /\ from < to /\ end \in Nat /\ to <= end
  BY IndexIs, FileEndIs
<1>2. (kept => c = block) /\ (~kept => c = new)
  BY DEF BlockFor
<1>a. Source(tmp, f) = f
  <2>1. tmp \in AllHandles /\ Usable(tmp) /\ f \in Nat /\ f <= tmp.last
    BY IndexIs DEF HandlesOf
  <2>. HIDE DEF f
  <2>. QED  BY <2>1, Handled
<1>. HIDE DEF f, from, to, end
<1>3. len \in Int /\ to <= from + len
  <2>1. Max({size, to - from}) = IF size >= to - from THEN size ELSE to - from
    BY <1>1, MaxOfPair
  <2>2. Max({size, to - from}) \in Int /\ Max({size, to - from}) >= to - from
    BY <1>1, <2>1
  <2>3. len = IF Max({size, to - from}) <= end - from THEN Max({size, to - from}) ELSE end - from
    <3>1. end - from \in Int
      BY <1>1
    <3>. QED  BY <2>2, <3>1, MinOfPair
  <2>. HIDE DEF len
  <2>. QED  BY <1>1, <2>2, <2>3
<1>4. CASE kept
  <2>1. c = block /\ f = block.file /\ block.off <= from /\ to <= block.off + block.len
    BY <1>2, <1>4
  <2>. QED  BY <2>1 DEF f, from, to
<1>5. CASE ~kept
  <2>1. c = new
    BY <1>2, <1>5
  <2>. HIDE DEF len
  <2>2. new \in Blocks /\ new.file = f /\ new.off = from /\ new.len = len
    BY <1>1, <1>3, <1>a DEF Blocks
  <2>. HIDE DEF new
  <2>3. new.off <= from /\ to <= new.off + new.len
    BY <1>1, <1>3, <2>2
  <2>. QED  BY <2>1, <2>2, <2>3 DEF f, from, to
<1>. QED  BY <1>4, <1>5

LEMMA BlockReads ==
  ASSUME NEW idx, NEW m, IsIndex(idx, m), NEW i \in 1 .. Len(idx), NEW j \in 1 .. Len(idx), NEW size \in Nat,
         NEW tmp \in HandlesOf(idx)
  PROVE  WellBlock(idx, i, j, size, tmp)
<1> DEFINE kept == BlockFor(idx, NoBlock, i, size, tmp)
           c == BlockFor(idx, kept, j, size, tmp)
           f == idx[j].file
           from == From(idx, j)
           to == idx[j].off
           off == c.off
           len == c.len
           content == Bytes(c.source, off, off + len)
           skip == from - off
           data == getRecordData(idx, kept, j, size, tmp)
<1>1. NoBlock \in Blocks
  BY DEF NoBlock, Blocks
<1>2. kept \in Blocks
  <2>. HIDE DEF kept
  <2>. QED  BY <1>1, BlockIs DEF kept
<1>3. c \in Blocks /\ c.file = f /\ c.source = f /\ c.off <= from /\ to <= c.off + c.len
  <2>. HIDE DEF kept, c
  <2>1. c \in Blocks /\ c.file = f /\ c.off <= from /\ to <= c.off + c.len
    BY <1>2, BlockIs DEF c
  <2>. QED  BY <2>1 DEF Blocks
<1>4. data = [k \in 1 .. to - from |-> content[skip + k]]
  BY DEF getRecordData
<1>5. f \in Int /\ from \in Nat /\ to \in Nat /\ from <= to /\ Whole(idx)[j] = Bytes(f, from, to)
  BY IndexIs
<1>. HIDE DEF kept, c
<1>6. off \in Int /\ len \in Int /\ off <= from /\ to <= off + len /\ content = Bytes(f, off, off + len)
  BY <1>3 DEF Blocks
<1>7. Bytes(f, from, to) = [k \in 1 .. to - from |-> <<f, from + k>>]
  BY DEF Bytes
<1>. HIDE DEF f, from, to, off, len, content
<1>8. ASSUME NEW k \in 1 .. to - from PROVE content[skip + k] = <<f, from + k>>
  <2>1. skip + k \in 1 .. (off + len) - off /\ off + (skip + k) = from + k
    BY <1>5, <1>6
  <2>2. off \in Int /\ off + len \in Int
    BY <1>6
  <2>3. \A u \in 1 .. (off + len) - off : Bytes(f, off, off + len)[u] = <<f, off + u>>
    BY <1>5, <2>2, BytesAre
  <2>. HIDE DEF skip
  <2>. QED  BY <1>6, <2>1, <2>3
<1>9. data = Whole(idx)[j]
  BY <1>4, <1>5, <1>7, <1>8
<1>. QED  BY <1>9 DEF WellBlock, data, kept

-----------------------------------------------------------------------------
(* getManyReady, getManyWithPrefixSuffix without conversion *)

BatchStates(idx, tmp) ==
  [cur : Nat, next : {At(idx, i) : i \in Int}, n : Nat, out : Seq(Cell), on : BOOLEAN, tmp : Lefts(tmp),
   file : Nat, from : Nat, to : Nat, limit : Int]

Going(b, x) == x.on = TRUE /\ x.next.off <= x.limit /\ x.cur <= b

\* After k turns: the records before the one that the loop is at were ready and fit, and
\* what was read and what was gathered is theirs.
BatchHas(idx, a, b, room, unready, k, x) ==
  LET T(j) == Together(Whole(idx), a, j) IN
  /\ x.n \in 0 .. k /\ x.cur = a + x.n /\ x.next = At(idx, x.cur)
  /\ x.from < x.to => InIndex(idx, x.file)
  /\ x.from <= x.to /\ x.out \o Bytes(x.file, x.from, x.to) = T(x.n)
  /\ x.limit = x.from + room - Len(x.out)
  /\ x.n > 0 => Len(T(x.n)) <= room
  /\ \A j \in 0 .. x.n - 1 : a + j \notin unready
  /\ x.on = TRUE <=> x.cur \notin unready
  /\ x.on = TRUE /\ x.cur <= b => x.file = idx[x.cur].file /\ x.to = From(idx, x.cur)
  /\ x.n < k => ~Going(b, x)

LEMMA BatchStep ==
  ASSUME NEW idx, NEW m, IsIndex(idx, m), NEW a \in 1 .. Len(idx), NEW b \in a .. Len(idx), NEW room \in Nat,
         NEW tmp \in HandlesOf(idx), NEW unready, NEW k \in 0 .. b - a, NEW x \in BatchStates(idx, tmp),
         BatchHas(idx, a, b, room, unready, k, x), Going(b, x)
  PROVE  /\ Turn(idx, room, unready, x) \in BatchStates(idx, tmp)
         /\ BatchHas(idx, a, b, room, unready, k + 1, Turn(idx, room, unready, x))
<1> DEFINE T(j) == Together(Whole(idx), a, j)
           i == x.cur
           n == x.n
           next == At(idx, x.cur + 1)
           ready == x.cur + 1 \notin unready
           counted == [x EXCEPT !.cur = @ + 1, !.next = next, !.to = x.next.off, !.n = @ + 1]
           out == x.out \o Fetch(x.tmp, x.file, x.from, x.next.off)
           left == After(x.tmp, x.file)
           read == [counted EXCEPT !.out = out, !.tmp = left, !.file = next.file, !.from = 0, !.to = 0,
                                   !.limit = room - Len(out), !.on = ready]
           y == Turn(idx, room, unready, x)
           from == From(idx, x.cur)
           to == x.next.off
<1>1. /\ n \in 0 .. k /\ i = a + n /\ x.next = At(idx, i)
      /\ x.from <= x.to /\ x.out \o Bytes(x.file, x.from, x.to) = T(n)
      /\ x.limit = x.from + room - Len(x.out)
      /\ \A j \in 0 .. n - 1 : a + j \notin unready
      /\ i \notin unready /\ x.file = idx[i].file /\ x.to = from /\ ~(n < k)
      /\ to <= x.limit /\ i <= b /\ x.on = TRUE
  BY DEF BatchHas, Going
<1>2. /\ x.cur \in Nat /\ x.n \in Nat /\ x.out \in Seq(Cell) /\ x.file \in Nat /\ x.from \in Nat
      /\ x.to \in Nat /\ x.limit \in Int /\ x.tmp \in Lefts(tmp)
  BY DEF BatchStates
<1>3. /\ Len(idx) \in Nat /\ a \in Nat /\ b \in Nat /\ k \in Nat /\ n = k /\ n \in 0 .. b - a /\ i = a + n
      /\ i \in 1 .. Len(idx) /\ i + 1 \in Nat /\ n + 1 \in Nat /\ i + 1 = a + (n + 1) /\ i + 1 \in Int
  <2>1. Len(idx) \in Nat
    BY IndexIs
  <2>. HIDE DEF i, n, from, to
  <2>. QED  BY <1>1, <2>1
<1>4. x.next = idx[i] /\ to = idx[i].off /\ to \in Nat /\ from \in Nat /\ from < to
  <2>1. At(idx, i) = idx[i] /\ idx[i].off \in Nat /\ From(idx, i) \in Nat /\ From(idx, i) < idx[i].off
    BY <1>3, IndexIs
  <2>. QED  BY <1>1, <2>1
<1>5. next.file \in Nat /\ next \in {At(idx, j) : j \in Int}
  BY <1>3, IndexIs
<1>6. /\ T(n + 1) = T(n) \o Bytes(x.file, from, to)
      /\ T(n + 1) \in Seq(Cell) /\ Len(T(n + 1)) \in Nat
  <2>1. n + 1 \in 0 .. b - a + 1
    BY <1>3
  <2>2. T(n + 1) = T(n) \o Bytes(idx[a + n].file, From(idx, a + n), idx[a + n].off)
    BY <1>3, WholeAre
  <2>3. T(n + 1) \in Seq(Cell) /\ Len(T(n + 1)) \in Nat
    BY <2>1, WholeAre
  <2>4. T(n + 1) = T(n) \o Bytes(idx[i].file, From(idx, i), idx[i].off)
    BY <1>3, <2>2
  <2>. HIDE DEF T
  <2>. QED  BY <1>1, <1>4, <2>3, <2>4
<1>. HIDE DEF T
<1>a. InIndex(idx, x.file)
  BY <1>1, <1>3 DEF InIndex
<1>b. out = x.out \o Bytes(x.file, x.from, to) /\ left \in Lefts(tmp)
  BY <1>2, <1>a, Fetched
<1>. HIDE DEF out, left
<1>7. out = T(n + 1)
  <2>1. x.file \in Int /\ x.from \in Int /\ from \in Int /\ to \in Int /\ x.from <= from /\ from <= to
    <3>1. x.file \in Int /\ x.from \in Int
      BY <1>2
    <3>. HIDE DEF from, to
    <3>2. from \in Int /\ to \in Int /\ from <= to
      BY <1>4
    <3>3. x.from <= from
      BY <1>1
    <3>. QED  BY <3>1, <3>2, <3>3
  <2>2. Joins(x.out, x.file, x.from, from, to)
    <3>. HIDE DEF from, to
    <3>. QED  BY <1>2, <2>1, Joining
  <2>3. (x.out \o Bytes(x.file, x.from, from)) \o Bytes(x.file, from, to) = x.out \o Bytes(x.file, x.from, to)
    <3>. HIDE DEF from, to
    <3>. QED  BY <2>2 DEF Joins
  <2>. HIDE DEF from, n, to
  <2>. QED  BY <1>1, <1>6, <1>b, <2>3
<1>8. Len(T(n + 1)) = Len(x.out) + (to - x.from) /\ Len(T(n + 1)) <= room /\ x.from <= to
  <2>0. x.from \in Int /\ to \in Int /\ x.file \in Int
    <3>1. x.from \in Int /\ x.file \in Int
      BY <1>2
    <3>. QED  BY <1>4, <3>1
  <2>1. x.from <= to
    <3>1. x.from <= from
      BY <1>1
    <3>2. from <= to /\ from \in Nat /\ to \in Nat
      <4>. HIDE DEF from, to
      <4>. QED  BY <1>4
    <3>. HIDE DEF from, to
    <3>. QED  BY <2>0, <3>1, <3>2
  <2> DEFINE s == Bytes(x.file, x.from, to)
  <2>2. s \in Seq(Cell) /\ Len(s) = to - x.from
    <3>. HIDE DEF to
    <3>. QED  BY <2>0, <2>1, BytesAre
  <2>. HIDE DEF s
  <2>3. Len(x.out \o s) = Len(x.out) + Len(s) /\ Len(x.out) \in Nat
    BY <1>2, <2>2, ConcatProperties, LenProperties
  <2>4. Len(T(n + 1)) = Len(x.out) + (to - x.from)
    BY <1>7, <1>b, <2>2, <2>3 DEF s
  <2>5. to <= x.from + room - Len(x.out)
    BY <1>1
  <2>. HIDE DEF to, n
  <2>. QED  BY <2>0, <2>1, <2>3, <2>4, <2>5
<1>9. ASSUME i + 1 <= b
      PROVE  next = idx[i + 1] /\ From(idx, i + 1) = IF x.file = next.file THEN to ELSE 0
  <2>1. i + 1 \in 1 .. Len(idx) /\ i + 1 <= Len(idx)
    BY <1>3, <1>9
  <2>2. At(idx, i + 1) = idx[i + 1]
    BY <2>1, IndexIs
  <2>3. From(idx, i + 1) = IF idx[i].file = idx[i + 1].file THEN idx[i].off ELSE 0
    BY <1>3, <2>1, IndexIs
  <2>. QED  BY <1>1, <1>4, <2>2, <2>3
<1>10. /\ (next.file = x.file /\ ready) => y = counted
       /\ ~(next.file = x.file /\ ready) => y = read
  BY DEF Turn, out, left
<1>11. /\ counted \in BatchStates(idx, tmp) /\ counted.cur = i + 1 /\ counted.next = next /\ counted.to = to
       /\ counted.n = n + 1 /\ counted.out = x.out /\ counted.on = TRUE /\ counted.file = x.file
       /\ counted.from = x.from /\ counted.limit = x.limit /\ counted.tmp = x.tmp
  <2>1. counted \in BatchStates(idx, tmp)
    BY <1>3, <1>4, <1>5 DEF BatchStates
  <2>2. /\ counted.cur = i + 1 /\ counted.next = next /\ counted.to = to
        /\ counted.n = n + 1 /\ counted.out = x.out /\ counted.on = x.on /\ counted.file = x.file
        /\ counted.from = x.from /\ counted.limit = x.limit /\ counted.tmp = x.tmp
    BY DEF BatchStates
  <2>. HIDE DEF counted
  <2>. QED  BY <1>1, <2>1, <2>2
<1>12. /\ read \in BatchStates(idx, tmp) /\ read.cur = i + 1 /\ read.next = next /\ read.to = 0
       /\ read.n = n + 1 /\ read.out = T(n + 1) /\ read.on = ready /\ read.file = next.file
       /\ read.from = 0 /\ read.limit = room - Len(T(n + 1))
  <2>1. read = [counted EXCEPT !.out = T(n + 1), !.tmp = left, !.file = next.file, !.from = 0, !.to = 0,
                               !.limit = room - Len(T(n + 1)), !.on = ready]
    BY <1>7
  <2>2. room - Len(T(n + 1)) \in Int /\ ready \in BOOLEAN
    BY <1>6
  <2>. HIDE DEF read, counted, ready, next, n, i
  <2>3. read \in BatchStates(idx, tmp)
    BY <1>5, <1>6, <1>11, <1>b, <2>1, <2>2 DEF BatchStates
  <2>4. /\ read.cur = i + 1 /\ read.next = next /\ read.to = 0
        /\ read.n = n + 1 /\ read.out = T(n + 1) /\ read.on = ready /\ read.file = next.file
        /\ read.from = 0 /\ read.limit = room - Len(T(n + 1))
    BY <1>11, <2>1 DEF BatchStates
  <2>. QED  BY <2>3, <2>4
<1>13. /\ n + 1 \in 0 .. k + 1 /\ ~(n + 1 < k + 1) /\ n + 1 > 0
       /\ \A j \in 0 .. (n + 1) - 1 : a + j \notin unready
  <2>1. \A j \in 0 .. (n + 1) - 1 : j = n \/ j \in 0 .. n - 1
    BY <1>3
  <2>2. n + 1 \in 0 .. k + 1 /\ ~(n + 1 < k + 1) /\ n + 1 > 0
    BY <1>3
  <2>. QED  BY <1>1, <2>1, <2>2
<1>. HIDE DEF counted, read, y
<1>14. CASE next.file = x.file /\ ready
  <2>1. y = counted
    BY <1>10, <1>14
  <2>2. x.out \o Bytes(x.file, x.from, to) = T(n + 1)
    BY <1>7, <1>b
  <2>3. i + 1 <= b => x.file = idx[i + 1].file /\ to = From(idx, i + 1)
    BY <1>9, <1>14
  <2>. HIDE DEF next, i, n, to, from
  <2>4. /\ y.n = n + 1 /\ y.cur = i + 1 /\ y.next = next /\ y.to = to /\ y.out = x.out /\ y.on = TRUE
        /\ y.file = x.file /\ y.from = x.from /\ y.limit = x.limit /\ y \in BatchStates(idx, tmp)
    BY <1>11, <2>1
  <2>5. next = At(idx, i + 1) /\ i + 1 \notin unready
    BY <1>14 DEF next, i
  <2>6. BatchHas(idx, a, b, room, unready, k + 1, y)
    <3>. HIDE DEF ready
    <3>. QED  BY <1>1, <1>3, <1>8, <1>13, <1>a, <2>2, <2>3, <2>4, <2>5 DEF BatchHas, T
  <2>. QED  BY <2>4, <2>6 DEF y
<1>15. CASE ~(next.file = x.file /\ ready)
  <2>1. y = read
    BY <1>10, <1>15
  <2>2. T(n + 1) \o Bytes(next.file, 0, 0) = T(n + 1)
    <3>1. next.file \in Int /\ 0 \in Int
      BY <1>5
    <3>. HIDE DEF next, n
    <3>. QED  BY <1>6, <3>1, NoBytes
  <2>3. ready /\ i + 1 <= b => next.file = idx[i + 1].file /\ 0 = From(idx, i + 1)
    BY <1>9, <1>15
  <2>5. next = At(idx, i + 1) /\ (ready = TRUE <=> i + 1 \notin unready)
    OBVIOUS
  <2>. HIDE DEF next, i, n, to, from, ready
  <2>4. /\ y.n = n + 1 /\ y.cur = i + 1 /\ y.next = next /\ y.to = 0 /\ y.out = T(n + 1) /\ y.on = ready
        /\ y.file = next.file /\ y.from = 0 /\ y.limit = room - Len(T(n + 1)) /\ y \in BatchStates(idx, tmp)
    BY <1>12, <2>1
  <2>7. room - Len(T(n + 1)) = 0 + room - Len(T(n + 1)) /\ 0 <= 0 /\ ~(0 < 0)
    BY <1>6
  <2>6. BatchHas(idx, a, b, room, unready, k + 1, y)
    BY <1>3, <1>8, <1>13, <2>2, <2>3, <2>4, <2>5, <2>7 DEF BatchHas, T
  <2>. QED  BY <2>4, <2>6 DEF y
<1>. QED  BY <1>14, <1>15

LEMMA BatchStarts ==
  ASSUME NEW idx, NEW m, IsIndex(idx, m), NEW a \in 1 .. Len(idx), NEW b \in a .. Len(idx), NEW room \in Nat,
         NEW tmp \in HandlesOf(idx), NEW unready, a \notin unready,
         NEW x, x = [cur |-> a, next |-> idx[a], n |-> 0, out |-> <<>>, on |-> TRUE, tmp |-> tmp,
                     file |-> idx[a].file, from |-> From(idx, a), to |-> From(idx, a),
                     limit |-> From(idx, a) + room]
  PROVE  x \in BatchStates(idx, tmp) /\ BatchHas(idx, a, b, room, unready, 0, x)
<1> DEFINE T(j) == Together(Whole(idx), a, j)
           from == From(idx, a)
           f == idx[a].file
           rec == idx[a]
           limit == from + room
           z == [cur |-> a, next |-> rec, n |-> 0, out |-> <<>>, on |-> TRUE, tmp |-> tmp,
                 file |-> f, from |-> from, to |-> from, limit |-> limit]
<1>1. x = z
  OBVIOUS
<1>2. /\ a \in Nat /\ a \in Int /\ f \in Nat /\ from \in Nat /\ rec = At(idx, a)
  BY IndexIs
<1>3. T(0) = <<>> /\ <<>> \in Seq(Cell) /\ Len(<<>>) = 0
  BY WholeAre, EmptySeq
<1>. HIDE DEF T, from, f
<1>4. limit \in Int /\ limit = from + room - 0 /\ from <= from /\ ~(from < from) /\ a = a + 0 /\ tmp \in Lefts(tmp)
  BY <1>2 DEF Lefts
<1>5. <<>> \o Bytes(f, from, from) = <<>>
  <2>1. Bytes(f, from, from) = <<>>
    <3>1. f \in Int /\ from \in Int
      BY <1>2
    <3>. QED  BY <1>3, <3>1, NoBytes
  <2>. QED  BY <1>3, <2>1, ConcatEmptySeq
<1>. HIDE DEF rec, limit
<1>6. z \in BatchStates(idx, tmp)
  BY <1>2, <1>3, <1>4 DEF BatchStates
<1>7. /\ z.cur = a /\ z.next = rec /\ z.n = 0 /\ z.out = <<>> /\ z.on = TRUE
      /\ z.file = f /\ z.from = from /\ z.to = from /\ z.limit = limit
  OBVIOUS
<1>. HIDE DEF z
<1>8. /\ 0 \in 0 .. 0 /\ ~(0 < 0) /\ ~(0 > 0) /\ 0 .. 0 - 1 = {}
  OBVIOUS
<1>9. BatchHas(idx, a, b, room, unready, 0, z)
  BY <1>2, <1>3, <1>4, <1>5, <1>7, <1>8 DEF BatchHas, T, f, from
<1>. QED  BY <1>1, <1>6, <1>9

\* What the loop ends with.
BatchGives(r, idx, a, b, room, unready) ==
  LET T(j) == Together(Whole(idx), a, j) IN
  /\ r.n \in 0 .. b - a + 1 /\ r.out = T(r.n)
  /\ r.n > 0 => Len(T(r.n)) <= room
  /\ \A j \in 0 .. r.n - 1 : a + j \notin unready
  /\ r.n <= b - a => a + r.n \in unready \/ Len(T(r.n + 1)) > room

LEMMA BatchEnds ==
  ASSUME NEW idx, NEW m, IsIndex(idx, m), NEW a \in 1 .. Len(idx), NEW b \in a .. Len(idx), NEW room \in Nat,
         NEW tmp \in HandlesOf(idx), NEW unready, NEW x \in BatchStates(idx, tmp), BatchHas(idx, a, b, room, unready, b - a + 1, x),
         NEW left, left = x.to - x.from,
         NEW r, r = IF left > 0 /\ left <= room - Len(x.out)
                    THEN [n |-> x.n, out |-> x.out \o Fetch(x.tmp, x.file, x.from, x.to),
                          tmp |-> After(x.tmp, x.file)]
                    ELSE [n |-> x.n, out |-> x.out, tmp |-> x.tmp]
  PROVE  BatchGives(r, idx, a, b, room, unready) /\ r.tmp \in Lefts(tmp)
<1> DEFINE T(j) == Together(Whole(idx), a, j)
           n == x.n
           from == x.from
           to == x.to
           f == x.file
           out == x.out
<1>1. /\ n \in 0 .. b - a + 1 /\ x.cur = a + n /\ x.next = At(idx, x.cur)
      /\ from < to => InIndex(idx, f)
      /\ from <= to /\ out \o Bytes(f, from, to) = T(n)
      /\ x.limit = from + room - Len(out)
      /\ n > 0 => Len(T(n)) <= room
      /\ \A j \in 0 .. n - 1 : a + j \notin unready
      /\ x.on = TRUE <=> x.cur \notin unready
      /\ x.on = TRUE /\ x.cur <= b => f = idx[x.cur].file /\ to = From(idx, x.cur)
      /\ n < b - a + 1 => ~Going(b, x)
  BY DEF BatchHas
<1>2. /\ n \in Nat /\ out \in Seq(Cell) /\ f \in Nat /\ from \in Nat /\ to \in Nat /\ x.limit \in Int
      /\ x.tmp \in Lefts(tmp)
  BY DEF BatchStates
<1>3. Len(idx) \in Nat /\ a \in Nat /\ b \in Nat
  BY IndexIs
<1>4. T(n) \in Seq(Cell) /\ Len(T(n)) \in Nat /\ T(0) = <<>> /\ Len(T(0)) = 0
  BY <1>1, WholeAre
<1>. HIDE DEF T, n, from, to, f, out
<1> DEFINE s == Bytes(f, from, to)
<1>5. s \in Seq(Cell) /\ Len(s) = to - from
  <2>1. f \in Int /\ from \in Int /\ to \in Int
    BY <1>2
  <2>. QED  BY <1>1, <2>1, BytesAre
<1>6. out \o s = T(n)
  BY <1>1
<1>. HIDE DEF s
<1>7. Len(T(n)) = Len(out) + (to - from) /\ Len(out) \in Nat
  <2>1. Len(out \o s) = Len(out) + Len(s) /\ Len(out) \in Nat
    BY <1>2, <1>5, ConcatProperties, LenProperties
  <2>. QED  BY <1>5, <1>6, <2>1
<1> DEFINE given == IF left > 0 /\ left <= room - Len(out) THEN out \o s ELSE out
<1>8. r.n = n /\ r.out = given /\ r.tmp \in Lefts(tmp) /\ left = to - from
  <2>1. left = to - from
    BY DEF from, to
  <2>2. CASE left > 0 /\ left <= room - Len(out)
    <3>1. InIndex(idx, f)
      BY <1>1, <1>2, <2>1, <2>2
    <3>2. (\A u, v : Fetch(x.tmp, f, u, v) = Bytes(f, u, v)) /\ After(x.tmp, f) \in Lefts(tmp)
      BY <1>2, <3>1, Fetched
    <3> DEFINE read == out \o Fetch(x.tmp, f, from, to)
               after == After(x.tmp, f)
               z == [n |-> n, out |-> read, tmp |-> after]
    <3>3. r = z /\ z.n = n /\ z.out = read /\ z.tmp = after
      BY <2>2 DEF n, out, f, from, to
    <3>4. given = read
      BY <2>2, <3>2 DEF s
    <3>. HIDE DEF given, z
    <3>. QED  BY <2>1, <3>2, <3>3, <3>4
  <2>3. CASE ~(left > 0 /\ left <= room - Len(out))
    <3> DEFINE z == [n |-> n, out |-> out, tmp |-> x.tmp]
    <3>1. r = z /\ z.n = n /\ z.out = out /\ z.tmp = x.tmp
      BY <2>3 DEF n, out
    <3>2. given = out
      BY <2>3
    <3>. HIDE DEF given, z
    <3>. QED  BY <1>2, <2>1, <3>1, <3>2
  <2>. QED  BY <2>2, <2>3
<1>9. given = T(n)
  <2>1. CASE left > 0
    <3>1. n > 0
      <4>1. CASE n = 0
        <5>1. Len(T(n)) = 0
          BY <1>4, <4>1
        <5>. QED  BY <1>1, <1>2, <1>7, <1>8, <2>1, <5>1
      <4>. QED  BY <1>2, <4>1
    <3>2. Len(T(n)) <= room
      BY <1>1, <3>1
    <3>3. left <= room - Len(out)
      BY <1>2, <1>4, <1>7, <1>8, <3>2
    <3>. QED  BY <1>6, <2>1, <3>3
  <2>2. CASE ~(left > 0)
    <3>1. from = to
      BY <1>1, <1>2, <1>8, <2>2
    <3>2. s = <<>>
      <4>1. f \in Int /\ from \in Int /\ <<>> \in Seq(Cell)
        BY <1>2, EmptySeq
      <4>. QED  BY <3>1, <4>1, NoBytes DEF s
    <3>3. out \o s = out
      BY <1>2, <3>2, ConcatEmptySeq
    <3>. QED  BY <1>6, <2>2, <3>3
  <2>. QED  BY <2>1, <2>2
<1>10. ASSUME n <= b - a, a + n \notin unready PROVE Len(T(n + 1)) > room
  <2>1. n < b - a + 1 /\ a + n <= b /\ a + n \in 1 .. Len(idx) /\ n \in 0 .. b - a
    BY <1>1, <1>3, <1>10
  <2>2. x.on = TRUE /\ x.cur <= b /\ x.cur = a + n
    BY <1>1, <1>10, <2>1
  <2>3. f = idx[a + n].file /\ to = From(idx, a + n)
    BY <1>1, <2>2
  <2>4. ~(x.next.off <= x.limit)
    BY <1>1, <2>1, <2>2 DEF Going
  <2>5. At(idx, a + n) = idx[a + n] /\ idx[a + n].off \in Nat /\ From(idx, a + n) \in Nat
    BY <2>1, IndexIs
  <2>6. x.next.off = idx[a + n].off
    BY <1>1, <2>2, <2>5
  <2>7. Len(T(n + 1)) = Len(T(n)) + (idx[a + n].off - From(idx, a + n))
    BY <2>1, WholeAre DEF T
  <2> DEFINE off == idx[a + n].off
  <2>8. off > from + room - Len(out)
    <3>1. off \in Nat /\ ~(off <= x.limit)
      BY <2>4, <2>5, <2>6
    <3>. HIDE DEF off
    <3>. QED  BY <1>1, <1>2, <1>7, <3>1
  <2>9. Len(T(n + 1)) = Len(out) + (to - from) + (off - to)
    BY <1>7, <2>3, <2>7
  <2>10. off \in Nat
    BY <2>5
  <2>. HIDE DEF off
  <2>. QED  BY <1>2, <1>7, <2>8, <2>9, <2>10
<1>11. r.n = n /\ r.out = T(n)
  BY <1>8, <1>9
<1>. HIDE DEF given
<1>. QED  BY <1>1, <1>8, <1>10, <1>11 DEF BatchGives, T

LEMMA BatchIs ==
  ASSUME NEW idx, NEW m, IsIndex(idx, m), NEW a \in 1 .. Len(idx), NEW b \in a .. Len(idx), NEW room \in Nat,
         NEW tmp \in HandlesOf(idx), NEW unready, a \notin unready,
         NEW r, r = Batch(idx, a, b, room, unready, tmp)
  PROVE  BatchGives(r, idx, a, b, room, unready) /\ r.tmp \in Lefts(tmp)
<1> DEFINE N == b - a + 1
           first == [cur |-> a, next |-> idx[a], n |-> 0, out |-> <<>>, on |-> TRUE, tmp |-> tmp,
                     file |-> idx[a].file, from |-> From(idx, a), to |-> From(idx, a),
                     limit |-> From(idx, a) + room]
           Is(g) == g = [k \in 0 .. N |->
                           IF k = 0 THEN first
                           ELSE IF g[k - 1].on /\ g[k - 1].next.off <= g[k - 1].limit /\ g[k - 1].cur <= b
                           THEN Turn(idx, room, unready, g[k - 1]) ELSE g[k - 1]]
           st == CHOOSE g : Is(g)
           W == [k \in 0 .. N |-> {x \in BatchStates(idx, tmp) : BatchHas(idx, a, b, room, unready, k, x)}]
           F == [k \in 1 .. N |->
                   [x \in BatchStates(idx, tmp) |->
                      IF x.on /\ x.next.off <= x.limit /\ x.cur <= b THEN Turn(idx, room, unready, x) ELSE x]]
           end == st[N]
           left == end.to - end.from
<1>1. Len(idx) \in Nat /\ N \in Nat /\ N \in 0 .. N /\ 0 \in 0 .. N /\ a \in Int /\ b \in Int
  BY IndexIs
<1>2. r = IF left > 0 /\ left <= room - Len(end.out)
          THEN [n |-> end.n, out |-> end.out \o Fetch(end.tmp, end.file, end.from, end.to),
                tmp |-> After(end.tmp, end.file)]
          ELSE [n |-> end.n, out |-> end.out, tmp |-> end.tmp]
  BY DEF Batch
<1>3. first \in W[0]
  <2>1. first \in BatchStates(idx, tmp) /\ BatchHas(idx, a, b, room, unready, 0, first)
    <3>. HIDE DEF first
    <3>. QED  BY BatchStarts DEF first
  <2>. HIDE DEF first
  <2>. QED  BY <1>1, <2>1
<1>. HIDE DEF first
<1>4. ASSUME NEW k \in 1 .. N, NEW x \in W[k - 1]
      PROVE  /\ F[k][x] = IF x.on /\ x.next.off <= x.limit /\ x.cur <= b
                          THEN Turn(idx, room, unready, x) ELSE x
             /\ F[k][x] \in W[k]
  <2>1. k - 1 \in 0 .. N /\ k - 1 \in 0 .. b - a /\ k \in 0 .. N /\ (k - 1) + 1 = k
    BY <1>1
  <2>2. x \in BatchStates(idx, tmp) /\ BatchHas(idx, a, b, room, unready, k - 1, x)
    BY <2>1
  <2>3. F[k][x] = IF x.on /\ x.next.off <= x.limit /\ x.cur <= b THEN Turn(idx, room, unready, x) ELSE x
    BY <2>2
  <2>4. F[k][x] \in BatchStates(idx, tmp) /\ BatchHas(idx, a, b, room, unready, k, F[k][x])
    <3>. HIDE DEF F, W
    <3>1. x.on \in BOOLEAN
      BY <2>2 DEF BatchStates
    <3>2. CASE Going(b, x)
      <4>1. F[k][x] = Turn(idx, room, unready, x)
        BY <2>3, <3>2 DEF Going
      <4>. QED  BY <2>1, <2>2, <3>2, <4>1, BatchStep
    <3>3. CASE ~Going(b, x)
      <4>1. F[k][x] = x
        BY <2>3, <3>1, <3>3 DEF Going
      <4>2. x.n \in 0 .. k
        <5>1. x.n \in 0 .. k - 1
          BY <2>2 DEF BatchHas
        <5>. QED  BY <1>1, <5>1
      <4>3. BatchHas(idx, a, b, room, unready, k, x)
        BY <2>2, <3>3, <4>2 DEF BatchHas
      <4>. QED  BY <2>2, <4>1, <4>3
    <3>. QED  BY <3>2, <3>3
  <2>. HIDE DEF F
  <2>. QED  BY <2>1, <2>3, <2>4
<1>5. \A k \in 1 .. N : \A x \in W[k - 1] : F[k][x] \in W[k]
  <2>. HIDE DEF F, W, N
  <2>. QED  BY <1>4
<1>6. \E g : Is(g)
  <2>1. PICK g : /\ g = [k \in 0 .. N |-> g[k]] /\ IsLoop(g, N, first, F)
                 /\ \A k \in 0 .. N : g[k] \in W[k]
    <3>. HIDE DEF F, W, N
    <3>. QED  BY <1>1, <1>3, <1>5, LoopExists
  <2>. HIDE DEF F, W
  <2>2. ASSUME NEW k \in 0 .. N
        PROVE  g[k] = IF k = 0 THEN first
                      ELSE IF g[k - 1].on /\ g[k - 1].next.off <= g[k - 1].limit /\ g[k - 1].cur <= b
                      THEN Turn(idx, room, unready, g[k - 1]) ELSE g[k - 1]
    <3>1. CASE k = 0
      BY <2>1, <3>1 DEF IsLoop
    <3>2. CASE k # 0
      <4>1. k \in 1 .. N /\ k - 1 \in 0 .. N
        BY <1>1, <3>2
      <4>2. g[k] = F[k][g[k - 1]] /\ g[k - 1] \in W[k - 1]
        BY <2>1, <4>1 DEF IsLoop
      <4>. QED  BY <1>4, <3>2, <4>1, <4>2
    <3>. QED  BY <3>1, <3>2
  <2>3. Is(g)
    BY <2>1, <2>2
  <2>. QED  BY <2>3
<1>7. Is(st)
  BY <1>6
<1>. HIDE DEF st
<1>8. Takes(st, N, first, W, F)
  <2>1. \A k \in 1 .. N : k \in 0 .. N /\ k # 0
    BY <1>1
  <2>2. \A k \in 0 .. N : st[k] = IF k = 0 THEN first
                      ELSE IF st[k - 1].on /\ st[k - 1].next.off <= st[k - 1].limit /\ st[k - 1].cur <= b
                      THEN Turn(idx, room, unready, st[k - 1]) ELSE st[k - 1]
    BY <1>7
  <2>3. ASSUME NEW k \in 1 .. N, st[k - 1] \in W[k - 1] PROVE st[k] = F[k][st[k - 1]]
    <3> DEFINE x == st[k - 1]
    <3>1. st[k] = IF x.on /\ x.next.off <= x.limit /\ x.cur <= b THEN Turn(idx, room, unready, x) ELSE x
      BY <2>1, <2>2
    <3>. HIDE DEF F, W, N, x
    <3>2. F[k][x] = IF x.on /\ x.next.off <= x.limit /\ x.cur <= b THEN Turn(idx, room, unready, x) ELSE x
      BY <1>4, <2>3 DEF x
    <3>. QED  BY <3>1, <3>2 DEF x
  <2>4. st[0] = first
    BY <1>1, <2>2
  <2>. HIDE DEF F, W, N
  <2>. QED  BY <2>3, <2>4 DEF Takes
<1>9. \A k \in 0 .. N : st[k] \in W[k]
  <2>. HIDE DEF F, W, N
  <2>. QED  BY <1>1, <1>3, <1>5, <1>8, LoopReaches
<1>10. end \in BatchStates(idx, tmp) /\ BatchHas(idx, a, b, room, unready, b - a + 1, end)
  BY <1>1, <1>9
<1>. HIDE DEF end, left
<1>. QED  BY <1>2, <1>10, BatchEnds DEF left

LEMMA BatchAllReady ==
  ASSUME NEW idx, NEW m, IsIndex(idx, m), NEW a \in 1 .. Len(idx), NEW b \in a .. Len(idx), NEW room \in Nat,
         NEW tmp \in HandlesOf(idx)
  PROVE  WellBatch(idx, a, b, room, tmp)
<1> DEFINE r == Batch(idx, a, b, room, {}, tmp)
<1>1. BatchGives(r, idx, a, b, room, {}) /\ r.tmp \in Lefts(tmp)
  <2>. HIDE DEF r
  <2>1. a \notin {}
    OBVIOUS
  <2>. QED  BY <2>1, BatchIs DEF r
<1>2. WellBatch(idx, a, b, room, tmp) <=> IsPrefix(r, Whole(idx), a, b, room, 0) /\ Leaves(tmp, r.tmp)
  BY DEF WellBatch, getManyWithPrefixSuffixNoConversion
<1>. HIDE DEF r
<1>3. IsPrefix(r, Whole(idx), a, b, room, 0)
  BY <1>1 DEF BatchGives, IsPrefix
<1>. QED  BY <1>1, <1>2, <1>3 DEF Leaves, Lefts

\* More records than one are longer than the first.
LEMMA WholeRise ==
  ASSUME NEW idx, NEW m, IsIndex(idx, m), NEW a \in 1 .. Len(idx), NEW b \in a .. Len(idx)
  PROVE  /\ Len(Together(Whole(idx), a, 1)) = idx[a].off - From(idx, a)
         /\ \A n \in 2 .. b - a + 1 : Len(Together(Whole(idx), a, n)) > Len(Together(Whole(idx), a, 1))
<1> DEFINE L(n) == Len(Together(Whole(idx), a, n))
           T == {n \in 0 .. b - a : n > 0 => L(n + 1) > L(1)}
<1>1. Len(idx) \in Nat /\ a \in Nat /\ b \in Nat /\ b - a \in Nat /\ b - a + 1 \in Nat
  BY IndexIs
<1>2. /\ L(0) = 0 /\ \A k \in 0 .. b - a + 1 : L(k) \in Nat
      /\ \A k \in 0 .. b - a : a + k \in 1 .. Len(idx) /\ L(k + 1) = L(k) + (idx[a + k].off - From(idx, a + k))
  BY WholeAre
<1>3. \A i \in 1 .. Len(idx) : idx[i].off \in Nat /\ From(idx, i) \in Nat /\ From(idx, i) < idx[i].off
  BY IndexIs
<1>4. L(1) = idx[a].off - From(idx, a)
  <2>1. 0 \in 0 .. b - a /\ a + 0 = a /\ 0 + 1 = 1
    BY <1>1
  <2>2. L(0 + 1) = L(0) + (idx[a + 0].off - From(idx, a + 0))
    BY <1>2, <2>1
  <2>3. idx[a].off \in Nat /\ From(idx, a) \in Nat
    BY <1>3
  <2>. HIDE DEF L
  <2>. QED  BY <1>2, <2>1, <2>2, <2>3
<1>. HIDE DEF L
<1>5. ASSUME NEW k \in 0 .. b - a PROVE L(k + 1) > L(k) /\ L(k) \in Nat /\ L(k + 1) \in Nat
  <2>1. L(k + 1) = L(k) + (idx[a + k].off - From(idx, a + k)) /\ a + k \in 1 .. Len(idx)
    BY <1>2
  <2>2. idx[a + k].off \in Nat /\ From(idx, a + k) \in Nat /\ From(idx, a + k) < idx[a + k].off
    BY <1>3, <2>1
  <2>3. k \in 0 .. b - a + 1 /\ k + 1 \in 0 .. b - a + 1
    BY <1>1
  <2>4. L(k) \in Nat /\ L(k + 1) \in Nat
    BY <1>2, <2>3
  <2>. QED  BY <2>1, <2>2, <2>4
<1>6. 0 \in T
  BY <1>1
<1>7. ASSUME NEW k \in 0 .. (b - a) - 1, k \in T PROVE k + 1 \in T
  <2>1. k \in 0 .. b - a /\ k + 1 \in 0 .. b - a /\ k \in Nat
    BY <1>1
  <2>2. L((k + 1) + 1) > L(k + 1) /\ L(k + 1) \in Nat /\ L((k + 1) + 1) \in Nat
    BY <1>5, <2>1
  <2>3. CASE k = 0
    BY <2>1, <2>2, <2>3
  <2>4. CASE k # 0
    <3>1. L(k + 1) > L(1)
      BY <1>7, <2>1, <2>4
    <3>2. L(1) \in Nat
      <4>1. 1 \in 0 .. b - a + 1
        BY <1>1
      <4>. QED  BY <1>2, <4>1
    <3>. QED  BY <2>1, <2>2, <3>1, <3>2
  <2>. QED  BY <2>3, <2>4
<1>8. \A n \in 0 .. b - a : n \in T
  <2>. HIDE DEF T
  <2>. QED  BY <1>1, <1>6, <1>7, UpTo
<1>9. ASSUME NEW n \in 2 .. b - a + 1 PROVE L(n) > L(1)
  <2>1. n - 1 \in 0 .. b - a /\ n - 1 > 0 /\ (n - 1) + 1 = n
    BY <1>1
  <2>. QED  BY <1>8, <2>1
<1>. QED  BY <1>4, <1>9 DEF L

LEMMA ReadyIs ==
  ASSUME NEW idx, NEW m, IsIndex(idx, m), NEW a \in 1 .. Len(idx), NEW b \in a .. Len(idx), NEW room \in Nat,
         NEW tmp \in HandlesOf(idx)
  PROVE  WellReady(idx, a, b, room, tmp)
<1>. SUFFICES ASSUME NEW unready \in SUBSET (a .. Min({b + 1, Len(idx)})),
                     NEW last, last = Min({b + 1} \cup unready) - 1,
                     NEW r, r = getManyReady(idx, a, b, room, unready, tmp)
              PROVE  /\ IF last < a THEN r.n = 0 ELSE IsPrefix(r, Whole(idx), a, last, room, 1)
                     /\ Leaves(tmp, r.tmp)
  BY DEF WellReady
<1> DEFINE S == {b + 1} \cup unready
           T(j) == Together(Whole(idx), a, j)
           size == idx[a].off - From(idx, a)
           most == Max({room, size})
<1>1. Len(idx) \in Nat /\ a \in Nat /\ b \in Nat /\ a <= b
  BY IndexIs
<1>2. size \in Nat /\ Len(T(1)) = size /\ \A n \in 2 .. b - a + 1 : Len(T(n)) > size
  <2>1. idx[a].off \in Nat /\ From(idx, a) \in Nat /\ From(idx, a) < idx[a].off
    BY IndexIs
  <2>2. size \in Nat
    BY <2>1
  <2>. QED  BY <2>2, WholeRise
<1>3. /\ last + 1 \in S /\ last \in Nat /\ \A u \in S : last + 1 <= u
      /\ S \subseteq Nat
  <2>1. Min({b + 1, Len(idx)}) \in Int
    <3>1. b + 1 \in Int /\ Len(idx) \in Int
      BY <1>1
    <3>2. Min({b + 1, Len(idx)}) = IF b + 1 <= Len(idx) THEN b + 1 ELSE Len(idx)
      BY <3>1, MinOfPair
    <3>. QED  BY <3>1, <3>2
  <2>2. \A u \in S : u \in Nat /\ u >= a
    <3>1. \A u \in unready : u \in a .. Min({b + 1, Len(idx)})
      OBVIOUS
    <3>. QED  BY <1>1, <2>1, <3>1
  <2>3. S \subseteq Nat /\ S # {}
    BY <2>2
  <2>4. last = Min(S) - 1
    OBVIOUS
  <2>. HIDE DEF S
  <2>5. Min(S) \in S /\ \A u \in S : Min(S) <= u
    BY <2>3, MinExists
  <2>6. Min(S) \in Nat /\ Min(S) >= a /\ a >= 1
    BY <2>2, <2>5
  <2>7. last + 1 = Min(S) /\ last \in Nat
    BY <1>1, <2>4, <2>6
  <2>. QED  BY <2>3, <2>5, <2>7
<1>4. /\ a \in unready => r = [n |-> 0, out |-> <<>>, tmp |-> tmp]
      /\ a \notin unready => r = Batch(idx, a, b, most, unready, tmp)
  BY DEF getManyReady
<1>5. most \in Nat /\ most >= room /\ (most = room \/ most = size) /\ most >= size
  <2>1. room \in Int /\ size \in Int
    BY <1>2
  <2>2. most = IF room >= size THEN room ELSE size
    <3>. HIDE DEF size
    <3>. QED  BY <2>1, MaxOfPair
  <2>. HIDE DEF size, most
  <2>. QED  BY <1>2, <2>1, <2>2
<1>. HIDE DEF T, size, most
<1>6. CASE last < a
  <2>1. a \in unready
    <3>1. last + 1 <= a /\ last + 1 # b + 1
      BY <1>1, <1>3, <1>6
    <3>2. last + 1 \in unready
      BY <1>3, <3>1
    <3>3. last + 1 >= a
      <4>1. \A u \in unready : u \in a .. Min({b + 1, Len(idx)})
        OBVIOUS
      <4>. QED  BY <3>2, <4>1
    <3>4. last + 1 = a
      BY <1>1, <1>3, <3>1, <3>3
    <3>. QED  BY <3>2, <3>4
  <2> DEFINE z == [n |-> 0, out |-> <<>>, tmp |-> tmp]
  <2>2. r = z /\ z.n = 0 /\ z.tmp = tmp
    BY <1>4, <2>1
  <2>. HIDE DEF z
  <2>. QED  BY <1>6, <2>2 DEF Leaves
<1>7. CASE ~(last < a)
  <2>1. a \notin unready /\ last >= a /\ last <= b
    <3>1. last + 1 <= b + 1
      BY <1>3
    <3>2. a \in unready => last + 1 <= a
      BY <1>3
    <3>. HIDE DEF S
    <3>3. last >= a /\ last <= b /\ ~(last + 1 <= a)
      BY <1>1, <1>3, <1>7, <3>1
    <3>. QED  BY <3>2, <3>3
  <2>2. BatchGives(r, idx, a, b, most, unready) /\ r.tmp \in Lefts(tmp)
    <3>1. r = Batch(idx, a, b, most, unready, tmp)
      BY <1>4, <2>1
    <3>. QED  BY <1>5, <2>1, <3>1, BatchIs
  <2> DEFINE n == r.n
  <2>3. /\ n \in 0 .. b - a + 1 /\ r.out = T(n)
        /\ n > 0 => Len(T(n)) <= most
        /\ \A j \in 0 .. n - 1 : a + j \notin unready
        /\ n <= b - a => a + n \in unready \/ Len(T(n + 1)) > most
    BY <2>2 DEF BatchGives, T
  <2>. HIDE DEF n
  <2>4. n >= 1
    <3>. SUFFICES ASSUME n = 0 PROVE FALSE
      BY <1>1, <2>3
    <3>1. n <= b - a /\ a + n = a /\ n + 1 = 1
      BY <1>1
    <3>2. Len(T(1)) > most
      BY <2>1, <2>3, <3>1
    <3>. QED  BY <1>2, <1>5, <3>2
  <2>5. n <= last - a + 1
    <3>. SUFFICES ASSUME ~(n <= last - a + 1) PROVE FALSE
      OBVIOUS
    <3>1. last + 1 - a \in 0 .. n - 1 /\ a + (last + 1 - a) = last + 1 /\ last + 1 # b + 1
      BY <1>1, <1>3, <2>1, <2>3
    <3>2. last + 1 \notin unready
      BY <2>3, <3>1
    <3>. QED  BY <1>3, <3>1, <3>2
  <2>6. n > 1 => Len(T(n)) <= room
    <3>. SUFFICES ASSUME n > 1 PROVE Len(T(n)) <= room
      OBVIOUS
    <3>1. n \in 2 .. b - a + 1
      BY <1>1, <2>3
    <3>2. Len(T(n)) > size /\ Len(T(n)) <= most
      BY <1>2, <2>3, <3>1
    <3>3. Len(T(n)) \in Nat
      <4>1. n \in 0 .. b - a + 1
        BY <2>3
      <4>. QED  BY <4>1, WholeAre DEF T
    <3>. QED  BY <1>2, <1>5, <3>2, <3>3
  <2>7. ASSUME n <= last - a PROVE Len(T(n + 1)) > room
    <3>1. n <= b - a /\ a + n < last + 1 /\ n + 1 \in 0 .. b - a + 1
      BY <1>1, <1>3, <2>1, <2>3, <2>7
    <3>2. a + n \notin unready
      <4>1. a + n \in unready => last + 1 <= a + n
        BY <1>3
      <4>2. a + n \in Int /\ last + 1 \in Int
        BY <1>1, <1>3, <2>3
      <4>. HIDE DEF S
      <4>3. ~(last + 1 <= a + n)
        BY <3>1, <4>2
      <4>. QED  BY <4>1, <4>3
    <3>3. Len(T(n + 1)) > most
      BY <2>3, <3>1, <3>2
    <3>4. Len(T(n + 1)) \in Nat
      BY <3>1, WholeAre DEF T
    <3>. QED  BY <1>5, <3>3, <3>4
  <2>8. n \in 1 .. last - a + 1
    BY <1>1, <1>3, <2>3, <2>4, <2>5
  <2>9. IsPrefix(r, Whole(idx), a, last, room, 1)
    BY <2>3, <2>6, <2>7, <2>8 DEF IsPrefix, T, n
  <2>. QED  BY <1>7, <2>2, <2>9 DEF Leaves, Lefts
<1>. QED  BY <1>6, <1>7

-----------------------------------------------------------------------------
(* Every way of reading many records *)

LEMMA TripledIs ==
  ASSUME NEW idx, NEW m, IsIndex(idx, m)
  PROVE  IsIndex(Tripled(idx), 3 * m) /\ Len(Tripled(idx)) = Len(idx) /\ HandlesOf(Tripled(idx)) = HandlesOf(idx)
<1> DEFINE n == Len(idx)
           long == Tripled(idx)
           t == [i \in 1 .. n |-> [idx[i] EXCEPT !.off = 3 * @]]
<1>1. n \in Nat /\ m \in Nat /\ DOMAIN idx = 1 .. n /\ 3 * m \in Nat
  BY IndexIs DEF IsIndex
<1>2. long = t
  BY <1>1 DEF Tripled
<1>3. ASSUME NEW i \in 1 .. n
      PROVE  /\ t[i] \in IndexRecords(3 * m) /\ t[i].file = idx[i].file /\ t[i].off = 3 * idx[i].off
             /\ idx[i].file \in Nat /\ idx[i].off \in Nat
  <2>1. idx[i] \in IndexRecords(m)
    BY <1>1, ElementOfSeq DEF IsIndex
  <2>2. idx[i].off \in 1 .. m /\ idx[i].file \in Nat
    BY <2>1 DEF IndexRecords
  <2>3. 3 * idx[i].off \in 1 .. 3 * m
    BY <1>1, <2>2
  <2>4. t[i] = [idx[i] EXCEPT !.off = 3 * idx[i].off]
    OBVIOUS
  <2>. HIDE DEF t
  <2>. QED  BY <2>1, <2>2, <2>3, <2>4 DEF IndexRecords
<1>4. t \in Seq(IndexRecords(3 * m)) /\ Len(t) = n
  <2>1. t \in [1 .. n -> IndexRecords(3 * m)]
    BY <1>3
  <2>. HIDE DEF t, n
  <2>. QED  BY <1>1, <2>1
<1>. HIDE DEF t
<1>5. ASSUME NEW i \in 2 .. n PROVE Behind(t[i - 1], t[i])
  <2>1. i \in 1 .. n /\ i - 1 \in 1 .. n
    BY <1>1
  <2>2. Behind(idx[i - 1], idx[i])
    BY DEF IsIndex
  <2>3. /\ t[i].file = idx[i].file /\ t[i].off = 3 * idx[i].off /\ idx[i].file \in Nat /\ idx[i].off \in Nat
        /\ t[i - 1].file = idx[i - 1].file /\ t[i - 1].off = 3 * idx[i - 1].off
        /\ idx[i - 1].file \in Nat /\ idx[i - 1].off \in Nat
    BY <1>3, <2>1
  <2>. QED  BY <2>2, <2>3 DEF Behind
<1>6. IsIndex(t, 3 * m)
  BY <1>1, <1>4, <1>5 DEF IsIndex
<1>7. HandlesOf(t) = HandlesOf(idx)
  <2>1. \A i \in 1 .. n : t[i].file = idx[i].file
    BY <1>3
  <2>. QED  BY <1>4, <2>1 DEF HandlesOf
<1>. QED  BY <1>2, <1>4, <1>6, <1>7

LEMMA ReadsWellIs ==
  ASSUME NEW idx, NEW m, IsIndex(idx, m), NEW tmp \in HandlesOf(idx)
  PROVE  ReadsWell(idx, tmp)
<1> DEFINE n == Len(idx)
           long == Tripled(idx)
<1>1. n \in Nat /\ DOMAIN idx = 1 .. n
  BY IndexIs
<1>2. IsIndex(long, 3 * m) /\ Len(long) = n /\ tmp \in HandlesOf(long)
  BY TripledIs
<1>. HIDE DEF n, long
<1>3. ASSUME NEW a \in 1 .. n, NEW b \in 1 .. n, NEW room \in 1 .. MaxRoom, a <= b
      PROVE  /\ WellMany(idx, a, b, room, tmp) /\ WellBatch(idx, a, b, room, tmp)
             /\ WellReady(idx, a, b, room, tmp)
             /\ WellData(long, a, b, 3 * room, 1, 1, tmp)
             /\ WellConverted(long, a, b, 3 * room, 1, 1, 1, 2, tmp)
  <2>1. b \in a .. n /\ room \in Nat /\ 3 * room \in Int /\ 1 \in Int /\ 2 \in Int
    BY <1>1, <1>3
  <2>2. a \in 1 .. Len(idx) /\ b \in a .. Len(idx) /\ a \in 1 .. Len(long) /\ b \in a .. Len(long)
    BY <1>2, <2>1 DEF n
  <2>3. WellMany(idx, a, b, room, tmp)
    BY <2>1, <2>2, ManyIs
  <2>4. WellBatch(idx, a, b, room, tmp)
    BY <2>1, <2>2, BatchAllReady
  <2>5. WellReady(idx, a, b, room, tmp)
    BY <2>1, <2>2, ReadyIs
  <2>6. WellData(long, a, b, 3 * room, 1, 1, tmp)
    BY <1>2, <2>1, <2>2, DataIs
  <2>7. WellConverted(long, a, b, 3 * room, 1, 1, 1, 2, tmp)
    BY <1>2, <2>1, <2>2, ConvertedIs
  <2>. QED  BY <2>3, <2>4, <2>5, <2>6, <2>7
<1>4. ASSUME NEW i \in 1 .. n, NEW room \in 1 .. MaxRoom PROVE WellSingle(idx, i, room, tmp)
  <2>1. room \in Nat /\ i \in 1 .. Len(idx)
    BY DEF n
  <2>. QED  BY <2>1, SingleIs
<1>5. ASSUME NEW i \in 1 .. n, NEW j \in 1 .. n, NEW size \in 1 .. 2 * MaxRoom PROVE WellBlock(long, i, j, size, tmp)
  <2>1. size \in Nat /\ i \in 1 .. Len(long) /\ j \in 1 .. Len(long)
    BY <1>2 DEF n
  <2>. QED  BY <1>2, <2>1, BlockReads
<1>. QED  BY <1>1, <1>3, <1>4, <1>5, Zenon DEF ReadsWell, long

\* The index of a store is such a layout.
LEMMA LayoutIs ==
  ASSUME Types, Laid
  PROVE  Layout \in Layouts /\ IsIndex(Layout, MaxFileSize)
<1>1. count \in 0 .. MaxCount /\ count \in Nat /\ MaxCount \in Nat /\ Base \in Nat /\ MaxFileSize \in Nat
  BY StoreAssumption DEF Types, TypeOK
<1>2. ASSUME NEW k \in 1 .. count
      PROVE  /\ Base + k - 1 \in Seqs
             /\ recs[Base + k - 1].file \in Files /\ recs[Base + k - 1].file \in Nat
             /\ recs[Base + k - 1].off \in 1 .. MaxFileSize
  <2>1. Base + k - 1 \in Seqs
    BY <1>1 DEF Seqs
  <2>2. recs[Base + k - 1] \in [file : Files, off : 1 .. MaxFileSize, attr : SUBSET {1, 2, 3, 4}]
    BY <2>1 DEF Types, TypeOK
  <2>3. Files \subseteq Nat
    BY DEF Files
  <2>. QED  BY <2>1, <2>2, <2>3
<1> DEFINE rec(k) == [file |-> recs[Base + k - 1].file, off |-> recs[Base + k - 1].off]
           idx == [k \in 1 .. count |-> rec(k)]
<1>3. Layout = idx
  BY DEF Layout
<1>4. ASSUME NEW k \in 1 .. count PROVE rec(k) \in Places /\ rec(k) \in IndexRecords(MaxFileSize)
  BY <1>2 DEF Places, IndexRecords
<1>5. ASSUME NEW i \in 2 .. count PROVE Behind(idx[i - 1], idx[i])
  <2>1. i \in 1 .. count /\ i - 1 \in 1 .. count /\ Base + (i - 1) - 1 < Base + i - 1
    BY <1>1
  <2>2. Base + (i - 1) - 1 \in Seqs /\ Base + i - 1 \in Seqs
    BY <1>2, <2>1
  <2>3. \/ recs[Base + (i - 1) - 1].file < recs[Base + i - 1].file
        \/ /\ recs[Base + (i - 1) - 1].file = recs[Base + i - 1].file
           /\ recs[Base + (i - 1) - 1].off < recs[Base + i - 1].off
    BY <2>1, <2>2 DEF Laid
  <2>4. idx[i - 1] = rec(i - 1) /\ idx[i] = rec(i)
    BY <2>1
  <2>5. Behind(rec(i - 1), rec(i))
    BY <2>3 DEF Behind
  <2>. QED  BY <2>4, <2>5
<1>. HIDE DEF rec
<1>6. idx \in [1 .. count -> Places] /\ idx \in [1 .. count -> IndexRecords(MaxFileSize)]
  BY <1>4
<1>. HIDE DEF idx
<1>7. idx \in Seq(IndexRecords(MaxFileSize)) /\ Len(idx) = count
  BY <1>1, <1>6
<1>8. IsIndex(idx, MaxFileSize)
  BY <1>1, <1>5, <1>7 DEF IsIndex
<1>9. idx \in Layouts
  <2>1. idx \in {x \in [1 .. count -> Places] : \A i \in 2 .. count : Behind(x[i - 1], x[i])}
    BY <1>5, <1>6
  <2>. QED  BY <1>1, <2>1 DEF Layouts
<1>. QED  BY <1>3, <1>8, <1>9

\* So is it with the number of the last data file, and its handles are right for it.
LEMMA StoreIs ==
  ASSUME Types, Laid, Ended, running
  PROVE  /\ <<Layout, fileCount - 1>> \in Stores
         /\ \A tmp \in Handles(fileCount - 1) : Usable(tmp) => tmp \in HandlesOf(Layout)
<1> DEFINE last == fileCount - 1
<1>1. last \in Files /\ last \in Int
  BY StoreAssumption DEF Types, TypeOK, Files
<1>2. count \in Nat /\ Base \in Nat /\ LastFile \in Nat /\ LastFile <= last
  <2>1. count \in Nat /\ Base \in Nat
    BY StoreAssumption DEF Types, TypeOK
  <2>2. LastFile \in Files
    BY LastEnd
  <2>3. LastFile <= last
    BY DEF Ended
  <2>. QED  BY <2>1, <2>2, <2>3, StoreAssumption DEF Files
<1>3. ASSUME NEW k \in 1 .. count PROVE Layout[k].file <= last
  <2>1. Base + k - 1 \in Seqs
    BY <1>2 DEF Seqs
  <2>2. recs[Base + k - 1].file \in Nat /\ recs[Base + k - 1].file <= LastFile
    BY <2>1, RecordTypes, LastIsBehind
  <2>3. Layout[k].file = recs[Base + k - 1].file
    BY DEF Layout
  <2>. QED  BY <1>1, <1>2, <2>2, <2>3
<1>4. DOMAIN Layout = 1 .. count /\ Len(Layout) = count
  BY <1>2 DEF Layout
<1>5. <<Layout, last>> \in Stores
  BY <1>1, <1>3, <1>4, LayoutIs DEF Stores
<1>6. ASSUME NEW tmp \in Handles(last), Usable(tmp) PROVE tmp \in HandlesOf(Layout)
  <2>1. tmp \in AllHandles /\ tmp.last = last
    BY <1>1 DEF Handles, AllHandles, CLOSED
  <2>. QED  BY <1>3, <1>4, <1>6, <2>1 DEF HandlesOf
<1>. QED  BY <1>5, <1>6

\* However the records came to lie in the data files, whatever the sizes, the room in the
\* reader's buffer and the records that are not ready, each way of reading many of them
\* gives the bytes of each in order, as many as fit (getMany, getManyReady,
\* getManyWithPrefixSuffix, getRecordData): when it finds the handle of the other data
\* files closed, or opening it again changes its file; and when the first record fits,
\* which getMany with prefix and suffix does not ask.
THEOREM ManyIsEachCorrect == Spec => []ManyIsEach
<1>1. Types /\ Laid /\ Ended => ManyIsEach
  <2>. SUFFICES ASSUME Types, Laid, Ended, running
                PROVE  <<<<Layout, fileCount - 1>>, TRUE>> \in Readings
    BY DEF ManyIsEach
  <2> DEFINE s == <<Layout, fileCount - 1>>
             Well(x) == \A tmp \in Handles(x[2]) : Usable(tmp) => ReadsWell(x[1], tmp)
  <2>1. s \in Stores /\ s[1] = Layout /\ s[2] = fileCount - 1
    BY StoreIs
  <2>2. \A tmp \in Handles(fileCount - 1) : Usable(tmp) => ReadsWell(Layout, tmp)
    BY StoreIs, LayoutIs, ReadsWellIs
  <2>3. Well(s)
    BY <2>1, <2>2
  <2>4. Well(s) \in BOOLEAN
    OBVIOUS
  <2>5. Readings = {<<x, Well(x)>> : x \in Stores}
    BY DEF Readings
  <2>. HIDE DEF s, Well
  <2>6. <<s, Well(s)>> \in Readings
    BY <2>1, <2>5
  <2>7. Well(s) = TRUE
    BY <2>3, <2>4
  <2>8. <<s, TRUE>> \in Readings
    BY <2>6, <2>7
  <2>. QED  BY <2>8 DEF s
<1>. QED  BY <1>1, TypesAlways, LaidAlways, PTL
=============================================================================
