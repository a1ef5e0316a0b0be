------------------------- MODULE MemoryStoreProofs -------------------------
(***************************************************************************)
(* The store in memory keeps what it promises, for records of any sizes,   *)
(* any limits of its buffer, and any number of records and consumers.      *)
(***************************************************************************)
EXTENDS MemoryStore, FiniteSetTheorems, WellFoundedInduction, TLAPS

-----------------------------------------------------------------------------
(* The least and the greatest element of a set *)

\* A nonempty set of naturals has a least element, and Min finds it.
LEMMA MinExists ==
  ASSUME NEW S, S \subseteq Nat, S # {}
  PROVE  Min(S) \in S /\ \A y \in S : Min(S) <= y
<1> DEFINE R == OpToRel(<, Nat)
<1>0. \A x, y \in Nat : <<y, x>> \in R <=> y < x
  BY Zenon DEF OpToRel
<1>a. IsWellFoundedOn(R, Nat)
  BY NatLessThanWellFounded
<1> HIDE DEF R
<1>1. \E x \in S : \A y \in S : ~(<<y, x>> \in R)
  BY <1>a, WFMin
<1>2. \E x \in S : \A y \in S : x <= y
  <2>1. PICK x \in S : \A y \in S : ~(<<y, x>> \in R)
    BY <1>1
  <2>2. ASSUME NEW y \in S PROVE x <= y
    <3>1. ~(<<y, x>> \in R)
      BY <2>1
    <3>2. x \in Nat /\ y \in Nat
      OBVIOUS
    <3>3. ~(y < x)
      BY <1>0, <3>1, <3>2, Zenon
    <3>. QED  BY <3>2, <3>3
  <2>. QED  BY <2>2
<1>. QED  BY <1>2 DEF Min

\* Of two integers.
LEMMA MaxOfPair ==
  ASSUME NEW a \in Int, NEW b \in Int
  PROVE  Max({a, b}) = IF a >= b THEN a ELSE b
<1>1. \E x \in {a, b} : \A y \in {a, b} : x >= y
  OBVIOUS
<1>2. Max({a, b}) \in {a, b} /\ \A y \in {a, b} : Max({a, b}) >= y
  BY <1>1 DEF Max
<1>. QED  BY <1>2

LEMMA MinOfPair ==
  ASSUME NEW a \in Int, NEW b \in Int
  PROVE  Min({a, b}) = IF a <= b THEN a ELSE b
<1>1. \E x \in {a, b} : \A y \in {a, b} : x <= y
  OBVIOUS
<1>2. Min({a, b}) \in {a, b} /\ \A y \in {a, b} : Min({a, b}) <= y
  BY <1>1 DEF Min
<1>. QED  BY <1>2

\* What holds at 0 and goes from each number to the next holds up to the last.
LEMMA UpTo ==
  ASSUME NEW n \in Nat, NEW T, 0 \in T, \A k \in 0 .. n - 1 : k \in T => k + 1 \in T
  PROVE  \A k \in 0 .. n : k \in T
<1> DEFINE F == {k \in 0 .. n : k \notin T}
<1>1. F = {}
  <2>. SUFFICES ASSUME F # {} PROVE FALSE
    OBVIOUS
  <2>1. PICK k \in F : \A j \in F : k <= j
    <3>1. F \subseteq Nat
      OBVIOUS
    <3>. HIDE DEF F
    <3>. QED  BY <3>1, MinExists
  <2>2. k \in 0 .. n /\ k \notin T /\ k # 0
    OBVIOUS
  <2>3. k - 1 \in 0 .. n - 1 /\ k - 1 \notin F /\ k - 1 \in 0 .. n
    BY <2>1, <2>2
  <2>4. k - 1 \in T
    BY <2>3
  <2>5. (k - 1) + 1 \in T
    BY <2>3, <2>4
  <2>6. (k - 1) + 1 = k
    BY <2>2
  <2>. QED  BY <2>2, <2>5, <2>6
<1>. QED  BY <1>1

-----------------------------------------------------------------------------
(* Recursion and remainders *)

\* A function on the first numbers may be defined by its steps.
IsRun(g, V, v, n, F) == g \in [0 .. n -> V] /\ g[0] = v /\ \A k \in 1 .. n : g[k] = F[k, g[k - 1]]

LEMMA Recursion ==
  ASSUME NEW V, NEW v, v \in V, NEW n \in Nat, NEW F, F \in [(1 .. n) \X V -> V]
  PROVE  \E g : IsRun(g, V, v, n, F)
<1> DEFINE Is(g, m) == g \in [0 .. m -> V] /\ g[0] = v /\ \A k \in 1 .. m : g[k] = F[k, g[k - 1]]
           T == {m \in 0 .. n : \E g : Is(g, m)}
<1>1. 0 \in T
  <2>. DEFINE g == [k \in 0 .. 0 |-> v]
  <2>1. g \in [0 .. 0 -> V] /\ g[0] = v /\ 1 .. 0 = {}
    OBVIOUS
  <2>. HIDE DEF g
  <2>2. Is(g, 0)
    BY <2>1
  <2>3. 0 \in 0 .. n
    OBVIOUS
  <2>. HIDE DEF Is
  <2>. QED  BY <2>2, <2>3
<1>2. ASSUME NEW m \in 0 .. n - 1, m \in T PROVE m + 1 \in T
  <2>1. PICK g : Is(g, m)
    BY <1>2
  <2>. DEFINE h == [k \in 0 .. m + 1 |-> IF k = m + 1 THEN F[m + 1, g[m]] ELSE g[k]]
  <2>2. m \in Nat /\ m + 1 \in 1 .. n /\ m \in 0 .. m /\ m + 1 \in 0 .. n
    OBVIOUS
  <2>3. F[m + 1, g[m]] \in V
    <3>1. g[m] \in V
      BY <2>1, <2>2
    <3>2. <<m + 1, g[m]>> \in (1 .. n) \X V
      BY <2>2, <3>1
    <3>. QED  BY <3>2
  <2>4. \A k \in 0 .. m : h[k] = g[k] /\ g[k] \in V
    <3>1. \A k \in 0 .. m : k \in 0 .. m + 1 /\ k # m + 1
      BY <2>2
    <3>. QED  BY <2>1, <3>1
  <2>5. h[m + 1] = F[m + 1, g[m]]
    <3>1. m + 1 \in 0 .. m + 1
      BY <2>2
    <3>. QED  BY <3>1
  <2>6. h \in [0 .. m + 1 -> V]
    <3>1. ASSUME NEW k \in 0 .. m + 1 PROVE h[k] \in V
      <4>1. k = m + 1 \/ k \in 0 .. m
        BY <2>2
      <4>. HIDE DEF h
      <4>. QED  BY <2>3, <2>4, <2>5, <4>1
    <3>2. h = [k \in 0 .. m + 1 |-> h[k]]
      OBVIOUS
    <3>. HIDE DEF h
    <3>. QED  BY <3>1, <3>2
  <2>. HIDE DEF h
  <2>7. h[0] = v
    <3>1. 0 \in 0 .. m
      BY <2>2
    <3>2. g[0] = v
      BY <2>1
    <3>. QED  BY <2>4, <3>1, <3>2
  <2>8. ASSUME NEW k \in 1 .. m + 1 PROVE h[k] = F[k, h[k - 1]]
    <3>1. CASE k = m + 1
      <4>1. h[m] = g[m] /\ k - 1 = m
        BY <2>2, <2>4, <3>1
      <4>. QED  BY <2>5, <3>1, <4>1
    <3>2. CASE k # m + 1
      <4>1. k \in 1 .. m /\ k \in 0 .. m /\ k - 1 \in 0 .. m
        BY <2>2, <3>2
      <4>2. g[k] = F[k, g[k - 1]]
        BY <2>1, <4>1
      <4>. QED  BY <2>4, <4>1, <4>2
    <3>. QED  BY <3>1, <3>2
  <2>9. Is(h, m + 1)
    BY <2>6, <2>7, <2>8
  <2>. HIDE DEF Is
  <2>. QED  BY <2>2, <2>9
<1>3. n \in T
  <2>. HIDE DEF T
  <2>1. \A k \in 0 .. n : k \in T
    BY <1>1, <1>2, UpTo
  <2>. QED  BY <2>1
<1>. QED  BY <1>3 DEF IsRun

\* Places in the buffer, one after the other from any first one, come back to it.
LEMMA RemainderIs ==
  ASSUME NEW c \in Nat \ {0}, NEW q \in Int, NEW r \in 0 .. c - 1
  PROVE  (c * q + r) % c = r
BY Z3

LEMMA Quotient ==
  ASSUME NEW a \in Int, NEW c \in Nat \ {0}
  PROVE  \E q \in Int, r \in 0 .. c - 1 : a = c * q + r /\ r = a % c
<1>1. (a % c) \in 0 .. c - 1
  BY Z3
<1>2. (a \div c) \in Int
  BY Z3
<1>3. a = c * (a \div c) + (a % c)
  BY Z3
<1>. QED  BY <1>1, <1>2, <1>3, Zenon

LEMMA WrapOn ==
  ASSUME NEW a \in Int, NEW b \in Int, NEW c \in Nat \ {0}
  PROVE  ((a % c) + b) % c = (a + b) % c
<1>1. PICK q \in Int, r \in 0 .. c - 1 : a = c * q + r /\ r = a % c
  BY Quotient
<1>2. PICK p \in Int, s \in 0 .. c - 1 : r + b = c * p + s /\ s = (r + b) % c
  <2>1. r + b \in Int
    OBVIOUS
  <2>. QED  BY <2>1, Quotient
<1>3. a + b = c * (q + p) + s
  BY <1>1, <1>2
<1>4. q + p \in Int
  OBVIOUS
<1>5. (c * (q + p) + s) % c = s
  BY <1>4, RemainderIs
<1>. QED  BY <1>1, <1>2, <1>3, <1>5, Zenon

LEMMA WrapBack ==
  ASSUME NEW f \in Int, NEW a \in Int, NEW i \in Int, NEW c \in Nat \ {0}, a + i \in 0 .. c - 1
  PROVE  (((f + a) % c) + i - f) % c = a + i
<1>1. PICK q \in Int, r \in 0 .. c - 1 : f + a = c * q + r /\ r = (f + a) % c
  BY Quotient
<1>2. r + i - f = c * (0 - q) + (a + i)
  BY <1>1
<1>3. 0 - q \in Int
  OBVIOUS
<1>4. (c * (0 - q) + (a + i)) % c = a + i
  BY <1>3, RemainderIs
<1>. QED  BY <1>1, <1>2, <1>4, Zenon

-----------------------------------------------------------------------------
(* The store and the sums over its places *)

Places == [start : Nat, len : 1 .. MaxSize, attr : SUBSET {DELETED, REMOTE, EXPIRED}]
Buffers == [first : Nat, capacity : Nat, bytes : Seq(AllSeqs)]
Stores == [begin : Nat, count : Nat, index : Seq(Places), data : Buffers]

LEMMA PlaceIs ==
  ASSUME NEW ix \in Seq(Places), NEW k \in 1 .. Len(ix)
  PROVE  /\ ix[k] \in Places
         /\ ix[k].len \in 1 .. MaxSize /\ ix[k].len \in Nat /\ ix[k].len >= 1
         /\ ix[k].start \in Nat
         /\ ix[k].attr \subseteq {DELETED, REMOTE, EXPIRED}
<1>1. ix[k] \in Places
  OBVIOUS
<1>2. MaxSize \in Nat
  BY MemoryAssumption
<1>. QED  BY <1>1, <1>2 DEF Places

LEMMA SummedIs ==
  ASSUME NEW ix \in Seq(Places)
  PROVE  /\ Summed(ix) \in [0 .. Len(ix) -> Nat]
         /\ Summed(ix)[0] = 0
         /\ \A k \in 1 .. Len(ix) : Summed(ix)[k] = Summed(ix)[k - 1] + ix[k].len
<1> DEFINE n == Len(ix)
           F == [x \in (1 .. n) \X Nat |-> x[2] + ix[x[1]].len]
           Is(g) == g = [k \in 0 .. n |-> IF k = 0 THEN 0 ELSE g[k - 1] + ix[k].len]
           S == Summed(ix)
<1>1. n \in Nat
  OBVIOUS
<1>2. F \in [(1 .. n) \X Nat -> Nat]
  <2>1. ASSUME NEW x \in (1 .. n) \X Nat PROVE x[2] + ix[x[1]].len \in Nat
    <3>1. x[1] \in 1 .. n /\ x[2] \in Nat
      OBVIOUS
    <3>2. ix[x[1]].len \in Nat
      BY <3>1, PlaceIs
    <3>. QED  BY <3>1, <3>2
  <2>. QED  BY <2>1
<1>3. PICK g : g \in [0 .. n -> Nat] /\ g[0] = 0 /\ \A k \in 1 .. n : g[k] = F[k, g[k - 1]]
  <2>1. 0 \in Nat
    OBVIOUS
  <2>. HIDE DEF F, n
  <2>2. \E g : IsRun(g, Nat, 0, n, F)
    BY <1>1, <1>2, <2>1, Recursion
  <2>. QED  BY <2>2 DEF IsRun
<1>4. \A k \in 1 .. n : g[k] = g[k - 1] + ix[k].len
  <2>. TAKE k \in 1 .. n
  <2>1. k - 1 \in 0 .. n
    BY <1>1
  <2>2. <<k, g[k - 1]>> \in (1 .. n) \X Nat
    BY <1>3, <2>1
  <2>3. g[k] = F[k, g[k - 1]]
    BY <1>3
  <2>. QED  BY <2>2, <2>3
<1>5. Is(g)
  <2>1. \A k \in 0 .. n : g[k] = IF k = 0 THEN 0 ELSE g[k - 1] + ix[k].len
    <3>. TAKE k \in 0 .. n
    <3>1. k # 0 => k \in 1 .. n
      BY <1>1
    <3>. QED  BY <1>3, <1>4, <3>1
  <2>2. g = [k \in 0 .. n |-> g[k]]
    BY <1>3
  <2>. QED  BY <2>1, <2>2
<1>6. Is(S)
  BY <1>5 DEF Summed
<1>7. S[0] = 0 /\ \A k \in 1 .. n : S[k] = S[k - 1] + ix[k].len
  <2>1. \A k \in 0 .. n : S[k] = IF k = 0 THEN 0 ELSE S[k - 1] + ix[k].len
    <3>. HIDE DEF S, n
    <3>. QED  BY <1>6
  <2>2. 0 \in 0 .. n
    BY <1>1
  <2>3. \A k \in 1 .. n : k \in 0 .. n /\ k # 0
    BY <1>1
  <2>. HIDE DEF S, n
  <2>. QED  BY <2>1, <2>2, <2>3
<1>8. \A k \in 0 .. n : S[k] \in Nat
  <2> DEFINE T == {k \in 0 .. n : S[k] \in Nat}
  <2>1. 0 \in T
    BY <1>1, <1>7
  <2>2. ASSUME NEW k \in 0 .. n - 1, k \in T PROVE k + 1 \in T
    <3>1. k + 1 \in 1 .. n /\ k + 1 \in 0 .. n /\ (k + 1) - 1 = k
      BY <1>1
    <3>2. ix[k + 1].len \in Nat
      BY <3>1, PlaceIs
    <3>3. S[k + 1] = S[k] + ix[k + 1].len
      BY <1>7, <3>1
    <3>4. S[k] \in Nat
      BY <2>2
    <3>. HIDE DEF S, n
    <3>. QED  BY <3>1, <3>2, <3>3, <3>4
  <2>. HIDE DEF T, n
  <2>3. \A k \in 0 .. n : k \in T
    BY <1>1, <2>1, <2>2, UpTo
  <2>. QED  BY <2>3 DEF T
<1>9. S \in [0 .. n -> Nat]
  <2>1. S = [k \in 0 .. n |-> S[k]]
    <3>. HIDE DEF S, n
    <3>1. DOMAIN S = 0 .. n
      BY <1>6
    <3>. QED  BY <1>6, <3>1
  <2>. HIDE DEF S, n
  <2>. QED  BY <1>8, <2>1
<1>. QED  BY <1>7, <1>9

\* Records that have the sizes of some of another sequence, one after the other.
LEMMA SummedShift ==
  ASSUME NEW ix \in Seq(Places), NEW jx \in Seq(Places), NEW m \in Nat, m + Len(jx) <= Len(ix),
         \A k \in 1 .. Len(jx) : jx[k].len = ix[m + k].len
  PROVE  \A k \in 0 .. Len(jx) : Summed(jx)[k] = Summed(ix)[m + k] - Summed(ix)[m]
<1> DEFINE S == Summed(ix)
           R == Summed(jx)
           n == Len(jx)
           T == {k \in 0 .. n : R[k] = S[m + k] - S[m]}
<1>1. /\ S \in [0 .. Len(ix) -> Nat] /\ S[0] = 0
      /\ \A k \in 1 .. Len(ix) : S[k] = S[k - 1] + ix[k].len
  BY SummedIs
<1>2. /\ R \in [0 .. n -> Nat] /\ R[0] = 0
      /\ \A k \in 1 .. n : R[k] = R[k - 1] + jx[k].len
  BY SummedIs
<1>3. n \in Nat /\ Len(ix) \in Nat /\ m + n <= Len(ix)
  OBVIOUS
<1>4. \A k \in 1 .. n : jx[k].len \in Nat /\ jx[k].len = ix[m + k].len
  BY PlaceIs
<1>. HIDE DEF S, R, n
<1>5. 0 \in T
  <2>1. m \in 0 .. Len(ix) /\ m + 0 = m /\ 0 \in 0 .. n
    BY <1>3
  <2>2. S[m] \in Nat
    BY <1>1, <2>1
  <2>. QED  BY <1>2, <2>1, <2>2
<1>6. ASSUME NEW k \in 0 .. n - 1, k \in T PROVE k + 1 \in T
  <2>1. /\ k + 1 \in 1 .. n /\ k + 1 \in 0 .. n /\ (k + 1) - 1 = k
        /\ m + (k + 1) \in 1 .. Len(ix) /\ (m + (k + 1)) - 1 = m + k
        /\ m + k \in 0 .. Len(ix) /\ m \in 0 .. Len(ix)
    BY <1>3
  <2>2. R[k + 1] = R[k] + jx[k + 1].len
    BY <1>2, <2>1
  <2>3. S[m + (k + 1)] = S[m + k] + ix[m + (k + 1)].len
    BY <1>1, <2>1
  <2>4. jx[k + 1].len \in Nat /\ jx[k + 1].len = ix[m + (k + 1)].len
    BY <1>4, <2>1
  <2>5. S[m + k] \in Nat /\ S[m] \in Nat
    BY <1>1, <2>1
  <2>6. R[k] = S[m + k] - S[m]
    BY <1>6
  <2>7. R[k + 1] = S[m + (k + 1)] - S[m]
    BY <2>2, <2>3, <2>4, <2>5, <2>6
  <2>. QED  BY <2>1, <2>7
<1>. HIDE DEF T
<1>7. \A k \in 0 .. n : k \in T
  BY <1>3, <1>5, <1>6, UpTo
<1>. QED  BY <1>7 DEF T, S, R, n

\* Each record has at least one byte.
LEMMA SummedRises ==
  ASSUME NEW ix \in Seq(Places), NEW i \in 0 .. Len(ix), NEW j \in 0 .. Len(ix), i <= j
  PROVE  /\ Summed(ix)[i] \in Nat /\ Summed(ix)[j] \in Nat
         /\ Summed(ix)[i] + (j - i) <= Summed(ix)[j]
<1> DEFINE S == Summed(ix)
           n == Len(ix)
           T == {k \in 0 .. n : i <= k => S[i] + (k - i) <= S[k]}
<1>1. /\ S \in [0 .. n -> Nat] /\ S[0] = 0
      /\ \A k \in 1 .. n : S[k] = S[k - 1] + ix[k].len
  BY SummedIs
<1>2. \A k \in 1 .. n : ix[k].len \in Nat /\ ix[k].len >= 1
  BY PlaceIs
<1>3. n \in Nat /\ i \in 0 .. n /\ j \in 0 .. n
  OBVIOUS
<1>. HIDE DEF S, n
<1>4. \A k \in 0 .. n : S[k] \in Nat
  BY <1>1
<1>5. 0 \in T
  BY <1>1, <1>3
<1>6. ASSUME NEW k \in 0 .. n - 1, k \in T PROVE k + 1 \in T
  <2>1. k + 1 \in 1 .. n /\ k + 1 \in 0 .. n /\ (k + 1) - 1 = k /\ k \in 0 .. n
    BY <1>3
  <2>2. S[k + 1] = S[k] + ix[k + 1].len /\ ix[k + 1].len \in Nat /\ ix[k + 1].len >= 1
    BY <1>1, <1>2, <2>1
  <2>3. S[k] \in Nat /\ S[k + 1] \in Nat /\ S[i] \in Nat
    BY <1>3, <1>4, <2>1
  <2>4. i <= k => S[i] + (k - i) <= S[k]
    BY <1>6
  <2>5. i <= k + 1 => S[i] + ((k + 1) - i) <= S[k + 1]
    <3>1. CASE i <= k
      <4>1. S[k] + 1 <= S[k + 1]
        BY <2>2, <2>3
      <4>2. S[i] + (k - i) <= S[k] /\ i \in Int /\ k \in Int
        BY <1>3, <2>1, <2>4, <3>1
      <4>. QED  BY <2>3, <4>1, <4>2
    <3>2. CASE i = k + 1
      BY <1>3, <2>1, <2>3, <3>2
    <3>3. CASE i > k + 1
      BY <1>3, <2>1, <3>3
    <3>4. i <= k \/ i = k + 1 \/ i > k + 1
      BY <1>3, <2>1
    <3>. QED  BY <3>1, <3>2, <3>3, <3>4, Zenon
  <2>. QED  BY <2>1, <2>5
<1>. HIDE DEF T
<1>7. \A k \in 0 .. n : k \in T
  BY <1>3, <1>5, <1>6, UpTo
<1>. QED  BY <1>3, <1>4, <1>7 DEF T, S, n

\* A store that is as TypeOK says, with the bytes of each record where its place is: the
\* places follow one another from the oldest byte, and wrap at the end of the buffer.
Fits(st) ==
  /\ st.begin >= Base
  /\ Len(st.index) = End(st) - st.begin + 1
  /\ st.data.capacity \in Capacity .. MaxSize
  /\ Size(st.data) = Summed(st.index)[Len(st.index)]
  /\ Size(st.data) <= st.data.capacity

Lies(st) ==
  \A k \in 1 .. Len(st.index) :
    LET before == Summed(st.index)[k - 1] IN
    /\ st.index[k].start = (st.data.first + before) % st.data.capacity
    /\ \A i \in 1 .. st.index[k].len : st.data.bytes[before + i] = st.begin + k - 1

Good(st) == st \in Stores /\ Fits(st) /\ Lies(st)

LEMMA StoreIs ==
  ASSUME NEW st, st \in Stores
  PROVE  /\ st = [begin |-> st.begin, count |-> st.count, index |-> st.index, data |-> st.data]
         /\ st.data = [first |-> st.data.first, capacity |-> st.data.capacity, bytes |-> st.data.bytes]
         /\ st.begin \in Nat /\ st.count \in Nat
         /\ st.index \in Seq(Places) /\ Len(st.index) \in Nat
         /\ st.data \in Buffers
         /\ st.data.first \in Nat /\ st.data.capacity \in Nat /\ st.data.bytes \in Seq(AllSeqs)
         /\ Len(st.data.bytes) \in Nat
<1>1. st.data \in Buffers /\ st.index \in Seq(Places)
  BY DEF Stores
<1>. QED  BY <1>1 DEF Stores, Buffers

-----------------------------------------------------------------------------
(* What deleteRecord leaves *)

\* How many records go.
Gone(st, e) == IF e < st.begin THEN 0 ELSE IF e <= End(st) THEN e - st.begin + 1 ELSE Len(st.index)

LEMMA GoneIs ==
  ASSUME NEW st, st \in Stores, Fits(st), NEW e \in Int
  PROVE  /\ Max({0, Min({e, End(st)}) - st.begin + 1}) = Gone(st, e)
         /\ Gone(st, e) \in 0 .. Len(st.index)
<1>1. /\ st.begin \in Nat /\ End(st) \in Int /\ Len(st.index) \in Nat
      /\ Len(st.index) = End(st) - st.begin + 1
  <2>1. st.begin \in Nat /\ st.count \in Nat /\ Len(st.index) \in Nat
    BY StoreIs
  <2>2. End(st) = st.count
    BY <2>1, MemoryAssumption DEF End
  <2>. QED  BY <2>1, <2>2 DEF Fits
<1>2. Min({e, End(st)}) = IF e <= End(st) THEN e ELSE End(st)
  BY <1>1, MinOfPair
<1> DEFINE last == IF e <= End(st) THEN e ELSE End(st)
<1>3. last - st.begin + 1 \in Int
  BY <1>1
<1>4. Max({0, last - st.begin + 1}) = IF 0 >= last - st.begin + 1 THEN 0 ELSE last - st.begin + 1
  BY <1>3, MaxOfPair
<1>5. Max({0, Min({e, End(st)}) - st.begin + 1}) = IF 0 >= last - st.begin + 1 THEN 0 ELSE last - st.begin + 1
  BY <1>2, <1>4
<1>. QED  BY <1>1, <1>5 DEF Gone

LEMMA DeletedIs ==
  ASSUME NEW st, Good(st), NEW e \in Int
  PROVE  deleteRecord(st, e) =
           [begin |-> st.begin + Gone(st, e), count |-> st.count,
            index |-> SubSeq(st.index, Gone(st, e) + 1, Len(st.index)),
            data  |-> [first |-> (st.data.first + Summed(st.index)[Gone(st, e)]) % st.data.capacity,
                       capacity |-> st.data.capacity,
                       bytes |-> SubSeq(st.data.bytes, Summed(st.index)[Gone(st, e)] + 1, Len(st.data.bytes))]]
<1> DEFINE n == Max({0, Min({e, End(st)}) - st.begin + 1})
           m == Gone(st, e)
           S == Summed(st.index)
<1>1. st \in Stores /\ Fits(st)
  BY DEF Good
<1>2. n = m /\ m \in 0 .. Len(st.index)
  BY <1>1, GoneIs
<1>3. S[0] = 0 /\ S \in [0 .. Len(st.index) -> Nat]
  BY <1>1, StoreIs, SummedIs
<1>4. Bytes(st, st.begin, st.begin + n - 1) = S[m]
  <2>1. (st.begin + n - 1) - st.begin + 1 = m /\ st.begin - st.begin = 0
    <3>1. st.begin \in Nat /\ Len(st.index) \in Nat
      BY <1>1, StoreIs
    <3>. HIDE DEF n, m
    <3>. QED  BY <1>2, <3>1
  <2>2. S[m] \in Nat
    BY <1>2, <1>3
  <2>. HIDE DEF n, m
  <2>. QED  BY <1>3, <2>1, <2>2 DEF Bytes
<1>5. deleteRecord(st, e) =
        [st EXCEPT !.begin = @ + n, !.index = SubSeq(@, n + 1, Len(@)),
                   !.data = ignore(@, Bytes(st, st.begin, st.begin + n - 1))]
  BY DEF deleteRecord
<1>6. ignore(st.data, S[m]) = [first |-> (st.data.first + S[m]) % st.data.capacity,
                               capacity |-> st.data.capacity,
                               bytes |-> SubSeq(st.data.bytes, S[m] + 1, Len(st.data.bytes))]
  <2>1. st.data = [first |-> st.data.first, capacity |-> st.data.capacity, bytes |-> st.data.bytes]
    BY <1>1, StoreIs
  <2>. DEFINE b == S[m]
  <2>2. ignore(st.data, b) =
          [st.data EXCEPT !.first = (@ + b) % st.data.capacity, !.bytes = SubSeq(@, b + 1, Len(@))]
    BY DEF ignore
  <2>. HIDE DEF b
  <2>3. ignore(st.data, b) =
          [first |-> (st.data.first + b) % st.data.capacity, capacity |-> st.data.capacity,
           bytes |-> SubSeq(st.data.bytes, b + 1, Len(st.data.bytes))]
    BY <2>1, <2>2
  <2>. QED  BY <2>3 DEF b
<1>7. st = [begin |-> st.begin, count |-> st.count, index |-> st.index, data |-> st.data]
  BY <1>1, StoreIs
<1>. HIDE DEF n, m, S
<1>8. deleteRecord(st, e) =
        [begin |-> st.begin + m, count |-> st.count, index |-> SubSeq(st.index, m + 1, Len(st.index)),
         data |-> ignore(st.data, S[m])]
  BY <1>2, <1>4, <1>5, <1>7
<1>. QED  BY <1>6, <1>8 DEF m, S

\* What is left, after n records went.
LEMMA TailIs ==
  ASSUME NEW ix \in Seq(Places), NEW n \in 0 .. Len(ix)
  PROVE  /\ SubSeq(ix, n + 1, Len(ix)) \in Seq(Places)
         /\ Len(SubSeq(ix, n + 1, Len(ix))) = Len(ix) - n
         /\ \A k \in 1 .. Len(ix) - n : SubSeq(ix, n + 1, Len(ix))[k] = ix[n + k]
         /\ \A k \in 0 .. Len(ix) - n :
              Summed(SubSeq(ix, n + 1, Len(ix)))[k] = Summed(ix)[n + k] - Summed(ix)[n]
<1> DEFINE jx == SubSeq(ix, n + 1, Len(ix))
<1>1. n \in Nat /\ Len(ix) \in Nat /\ n <= Len(ix)
  OBVIOUS
<1>2. jx \in Seq(Places) /\ Len(jx) = Len(ix) - n /\ \A k \in 1 .. Len(ix) - n : jx[k] = ix[n + k]
  <2>1. Len(jx) = Len(ix) - n
    BY <1>1
  <2>2. ASSUME NEW k \in 1 .. Len(ix) - n PROVE jx[k] = ix[n + k] /\ jx[k] \in Places
    <3>1. (n + 1) + k - 1 = n + k /\ n + k \in 1 .. Len(ix)
      BY <1>1
    <3>2. jx[k] = ix[(n + 1) + k - 1]
      BY <1>1, <2>1
    <3>3. ix[n + k] \in Places
      BY <3>1
    <3>. QED  BY <3>1, <3>2, <3>3
  <2>3. jx \in Seq(Places)
    BY <1>1
  <2>. QED  BY <2>1, <2>2, <2>3
<1>. HIDE DEF jx
<1>3. n + Len(jx) <= Len(ix) /\ \A k \in 1 .. Len(jx) : jx[k].len = ix[n + k].len
  BY <1>1, <1>2
<1>4. \A k \in 0 .. Len(jx) : Summed(jx)[k] = Summed(ix)[n + k] - Summed(ix)[n]
  BY <1>1, <1>2, <1>3, SummedShift
<1>5. \A k \in 0 .. Len(ix) - n : Summed(jx)[k] = Summed(ix)[n + k] - Summed(ix)[n]
  BY <1>2, <1>4
<1>. QED  BY <1>2, <1>5, Zenon DEF jx

LEMMA BytesAre ==
  ASSUME NEW st, Good(st), NEW k \in 1 .. Len(st.index), NEW i \in 1 .. st.index[k].len
  PROVE  /\ Summed(st.index)[k - 1] \in Nat /\ Summed(st.index)[k] \in Nat
         /\ Summed(st.index)[k] = Summed(st.index)[k - 1] + st.index[k].len
         /\ Summed(st.index)[k - 1] + i \in 1 .. Size(st.data)
         /\ st.data.bytes[Summed(st.index)[k - 1] + i] = st.begin + k - 1
<1>1. st \in Stores /\ Fits(st) /\ Lies(st)
  BY DEF Good
<1>2. st.index \in Seq(Places) /\ Len(st.index) \in Nat
  BY <1>1, StoreIs
<1> DEFINE ix == st.index
           S == Summed(st.index)
<1>3. S \in [0 .. Len(ix) -> Nat] /\ S[k] = S[k - 1] + ix[k].len
  BY <1>2, SummedIs
<1>4. k - 1 \in 0 .. Len(ix) /\ k \in 0 .. Len(ix) /\ Len(ix) \in 0 .. Len(ix) /\ k <= Len(ix)
  BY <1>2
<1>5. S[k - 1] \in Nat /\ S[k] \in Nat
  <2>. HIDE DEF S, ix
  <2>. QED  BY <1>3, <1>4
<1>6. S[Len(ix)] \in Nat /\ S[k] + (Len(ix) - k) <= S[Len(ix)]
  BY <1>2, <1>4, SummedRises
<1>7. ix[k].len \in Nat
  BY <1>2, PlaceIs
<1>8. Size(st.data) = S[Len(ix)]
  BY <1>1 DEF Fits
<1>9. st.data.bytes[S[k - 1] + i] = st.begin + k - 1
  BY <1>1 DEF Lies
<1>10. S[k - 1] + i \in 1 .. Size(st.data)
  <2> DEFINE a == S[k - 1]
             b == S[k]
             z == S[Len(ix)]
             len == ix[k].len
  <2>1. a \in Nat /\ b \in Nat /\ z \in Nat /\ b = a + len /\ len \in Nat /\ Size(st.data) = z
    BY <1>3, <1>5, <1>6, <1>7, <1>8
  <2>2. i \in 1 .. len /\ b + (Len(ix) - k) <= z /\ Len(ix) - k \in Nat
    BY <1>2, <1>4, <1>6
  <2>. HIDE DEF a, b, z, len, ix
  <2>3. a + i \in 1 .. z
    BY <2>1, <2>2
  <2>. QED  BY <2>1, <2>3 DEF a
<1>. HIDE DEF S, ix
<1>. QED  BY <1>3, <1>5, <1>9, <1>10 DEF S, ix

LEMMA DeletedGood ==
  ASSUME NEW st, Good(st), NEW e \in Int
  PROVE  LET new == deleteRecord(st, e) IN
         /\ Good(new)
         /\ new.begin = st.begin + Gone(st, e) /\ new.count = st.count
         /\ Len(new.index) = Len(st.index) - Gone(st, e)
         /\ \A k \in 1 .. Len(new.index) : new.index[k] = st.index[Gone(st, e) + k]
         /\ Size(new.data) = Size(st.data) - Summed(st.index)[Gone(st, e)]
         /\ new.data.capacity = st.data.capacity
<1> DEFINE new == deleteRecord(st, e)
           n == Gone(st, e)
           ix == st.index
           jx == new.index
           S == Summed(ix)
           R == Summed(jx)
           f == st.data.first
           c == st.data.capacity
<1>1. st \in Stores /\ Fits(st) /\ Lies(st)
  BY DEF Good
<1>2. n \in 0 .. Len(ix)
  BY <1>1, GoneIs
<1>3. /\ st.begin \in Nat /\ st.count \in Nat /\ ix \in Seq(Places) /\ Len(ix) \in Nat
      /\ f \in Nat /\ c \in Nat /\ st.data.bytes \in Seq(AllSeqs) /\ Len(st.data.bytes) \in Nat
  BY <1>1, StoreIs
<1>4. c \in Nat \ {0} /\ c \in Capacity .. MaxSize
  BY <1>1, MemoryAssumption DEF Fits
<1>5. /\ new.begin = st.begin + n /\ new.count = st.count
      /\ jx = SubSeq(ix, n + 1, Len(ix))
      /\ new.data = [first |-> (f + S[n]) % c, capacity |-> c,
                     bytes |-> SubSeq(st.data.bytes, S[n] + 1, Len(st.data.bytes))]
      /\ new = [begin |-> st.begin + n, count |-> st.count, index |-> jx, data |-> new.data]
  <2> DEFINE d == [first |-> (f + S[n]) % c, capacity |-> c,
                   bytes |-> SubSeq(st.data.bytes, S[n] + 1, Len(st.data.bytes))]
             tail == SubSeq(ix, n + 1, Len(ix))
  <2>1. new = [begin |-> st.begin + n, count |-> st.count, index |-> tail, data |-> d]
    BY DeletedIs
  <2>. HIDE DEF new, n, d, tail, ix
  <2>2. new.begin = st.begin + n /\ new.count = st.count /\ jx = tail /\ new.data = d
    BY <2>1
  <2>. QED  BY <2>1, <2>2 DEF d, tail
<1>6. /\ jx \in Seq(Places) /\ Len(jx) = Len(ix) - n
      /\ \A k \in 1 .. Len(jx) : jx[k] = ix[n + k]
      /\ \A k \in 0 .. Len(jx) : R[k] = S[n + k] - S[n]
  <2>1. jx = SubSeq(ix, n + 1, Len(ix)) /\ ix \in Seq(Places) /\ n \in 0 .. Len(ix)
    BY <1>2, <1>3, <1>5
  <2> DEFINE tail == SubSeq(ix, n + 1, Len(ix))
  <2>. HIDE DEF n, ix
  <2>2. /\ tail \in Seq(Places) /\ Len(tail) = Len(ix) - n
        /\ \A k \in 1 .. Len(ix) - n : tail[k] = ix[n + k]
        /\ \A k \in 0 .. Len(ix) - n : Summed(tail)[k] = Summed(ix)[n + k] - Summed(ix)[n]
    BY <2>1, TailIs
  <2>. HIDE DEF tail, jx
  <2>3. jx = tail
    BY <2>1 DEF tail
  <2>. QED  BY <2>2, <2>3
<1>7. /\ S \in [0 .. Len(ix) -> Nat] /\ S[n] \in Nat /\ S[Len(ix)] \in Nat
      /\ S[n] <= S[Len(ix)] /\ Len(st.data.bytes) = S[Len(ix)] /\ S[Len(ix)] <= c
  <2>1. n \in 0 .. Len(ix) /\ Len(ix) \in 0 .. Len(ix) /\ n <= Len(ix)
    BY <1>2, <1>3
  <2>2. S[n] \in Nat /\ S[Len(ix)] \in Nat /\ S[n] + (Len(ix) - n) <= S[Len(ix)]
    <3>. HIDE DEF n, ix
    <3>. QED  BY <1>3, <2>1, SummedRises
  <2>3. S[n] <= S[Len(ix)]
    <3>. HIDE DEF n, ix, S
    <3>. QED  BY <2>1, <2>2, <1>3
  <2>4. Len(st.data.bytes) = S[Len(ix)] /\ S[Len(ix)] <= c
    BY <1>1 DEF Fits, Size
  <2>5. S \in [0 .. Len(ix) -> Nat]
    BY <1>3, SummedIs
  <2>. QED  BY <2>2, <2>3, <2>4, <2>5
<1>8. /\ Len(new.data.bytes) = S[Len(ix)] - S[n] /\ new.data.bytes \in Seq(AllSeqs)
      /\ \A i \in 1 .. S[Len(ix)] - S[n] : new.data.bytes[i] = st.data.bytes[S[n] + i]
      /\ new.data.first = (f + S[n]) % c /\ new.data.capacity = c
  <2> DEFINE b == S[n]
             z == S[Len(ix)]
             old == st.data.bytes
             left == SubSeq(old, b + 1, Len(old))
  <2>1. new.data.bytes = left /\ new.data.first = (f + S[n]) % c /\ new.data.capacity = c
    <3> DEFINE g == (f + b) % c
               d == new.data
    <3>1. d = [first |-> g, capacity |-> c, bytes |-> left]
      BY <1>5
    <3>. HIDE DEF d, g, c, left
    <3>2. d.bytes = left /\ d.first = g /\ d.capacity = c
      BY <3>1
    <3>. QED  BY <3>2 DEF d, g
  <2>2. b \in Nat /\ z \in Nat /\ b <= z /\ Len(old) = z /\ old \in Seq(AllSeqs)
    BY <1>3, <1>7
  <2>. HIDE DEF b, z, old
  <2>3. Len(left) = z - b /\ left \in Seq(AllSeqs) /\ \A i \in 1 .. z - b : left[i] = old[b + i]
    BY <2>2
  <2>. QED  BY <2>1, <2>3, Zenon DEF b, z, old
<1>. HIDE DEF new, n, ix, jx, S, R, f, c
<1>9. (f + S[n]) % c \in Nat
  <2>1. f + S[n] \in Int
    BY <1>3, <1>7
  <2>2. \E q \in Int, r \in 0 .. c - 1 : f + S[n] = c * q + r /\ r = (f + S[n]) % c
    BY <1>4, <2>1, Quotient
  <2>. QED  BY <1>4, <2>2
<1>10. new \in Stores
  <2>1. new.data \in Buffers
    <3>1. new.data = [first |-> (f + S[n]) % c, capacity |-> c, bytes |-> new.data.bytes]
      BY <1>5, <1>8
    <3>. QED  BY <1>3, <1>8, <1>9, <3>1 DEF Buffers
  <2>2. st.begin + n \in Nat /\ st.count \in Nat
    BY <1>2, <1>3
  <2>3. new = [begin |-> st.begin + n, count |-> st.count, index |-> jx, data |-> new.data]
    BY <1>5
  <2>4. jx \in Seq(Places)
    BY <1>6
  <2>. QED  BY <2>1, <2>2, <2>3, <2>4 DEF Stores
<1>11. Fits(new)
  <2>1. Len(ix) = End(st) - st.begin + 1 /\ st.begin >= Base
    BY <1>1 DEF Fits, ix
  <2>2. End(st) \in Int /\ Base = 1
    BY <1>3, MemoryAssumption DEF End
  <2>3. End(new) = End(st)
    BY <1>5 DEF End
  <2>4. new.begin >= Base /\ Len(jx) = End(new) - new.begin + 1
    <3>1. st.begin \in Nat /\ Len(ix) \in Nat /\ n \in Nat
      BY <1>2, <1>3
    <3>2. new.begin = st.begin + n /\ Len(jx) = Len(ix) - n
      BY <1>5, <1>6
    <3>. QED  BY <2>1, <2>2, <2>3, <3>1, <3>2
  <2>5. Size(new.data) = R[Len(jx)] /\ Size(new.data) <= new.data.capacity
    <3>1. Len(jx) \in 0 .. Len(jx) /\ n + Len(jx) = Len(ix)
      BY <1>2, <1>3, <1>6
    <3>2. R[Len(jx)] = S[Len(ix)] - S[n]
      BY <1>6, <3>1
    <3>. QED  BY <1>3, <1>7, <1>8, <3>2 DEF Size
  <2>. QED  BY <1>4, <1>8, <2>4, <2>5 DEF Fits, jx, R
<1>12. Lies(new)
  <2>1. ASSUME NEW k \in 1 .. Len(jx)
        PROVE  /\ jx[k].start = (new.data.first + R[k - 1]) % new.data.capacity
               /\ \A i \in 1 .. jx[k].len : new.data.bytes[R[k - 1] + i] = new.begin + k - 1
    <3>1. /\ n + k \in 1 .. Len(ix) /\ (n + k) - 1 = n + (k - 1) /\ n + (k - 1) \in 0 .. Len(ix)
          /\ k - 1 \in 0 .. Len(jx) /\ k \in Nat /\ n \in Nat
      BY <1>2, <1>3, <1>6
    <3>2. jx[k] = ix[n + k] /\ R[k - 1] = S[n + (k - 1)] - S[n]
      BY <1>6, <3>1
    <3>3. S[n + (k - 1)] \in Nat
      BY <1>7, <3>1
    <3>4. ix[n + k].start = (f + S[n + (k - 1)]) % c
      BY <1>1, <3>1 DEF Lies, ix, S, f, c
    <3>5. (((f + S[n]) % c) + (S[n + (k - 1)] - S[n])) % c = (f + S[n] + (S[n + (k - 1)] - S[n])) % c
      <4>1. f + S[n] \in Int /\ S[n + (k - 1)] - S[n] \in Int
        BY <1>3, <1>7, <3>3
      <4>. QED  BY <1>4, <4>1, WrapOn
    <3>6. f + S[n] + (S[n + (k - 1)] - S[n]) = f + S[n + (k - 1)]
      BY <1>3, <1>7, <3>3
    <3>7. jx[k].start = (new.data.first + R[k - 1]) % new.data.capacity
      BY <1>8, <3>2, <3>4, <3>5, <3>6
    <3>8. ASSUME NEW i \in 1 .. jx[k].len PROVE new.data.bytes[R[k - 1] + i] = new.begin + k - 1
      <4>1. i \in 1 .. ix[n + k].len
        BY <3>2
      <4>2. /\ S[(n + k) - 1] + i \in 1 .. Size(st.data)
            /\ st.data.bytes[S[(n + k) - 1] + i] = st.begin + (n + k) - 1
        BY <3>1, <4>1, BytesAre DEF ix, S
      <4>3. S[n + (k - 1)] + i \in 1 .. S[Len(ix)] /\ st.data.bytes[S[n + (k - 1)] + i] = st.begin + (n + k) - 1
        BY <1>7, <3>1, <4>2 DEF Size
      <4>4. S[n] + 1 <= S[n + (k - 1)] + i /\ i \in Nat
        <5>1. n \in 0 .. Len(ix) /\ n <= n + (k - 1)
          BY <1>2, <3>1
        <5>2. S[n] + ((n + (k - 1)) - n) <= S[n + (k - 1)]
          BY <1>3, <3>1, <5>1, SummedRises DEF S
        <5>3. jx[k].len \in Nat
          BY <1>6, PlaceIs
        <5>4. i \in Nat /\ i >= 1
          BY <5>3
        <5>. QED  BY <1>7, <3>1, <3>3, <5>2, <5>4
      <4>5. /\ R[k - 1] + i \in 1 .. S[Len(ix)] - S[n]
            /\ S[n] + (R[k - 1] + i) = S[n + (k - 1)] + i
        <5> DEFINE a == S[n]
                   b == S[n + (k - 1)]
                   z == S[Len(ix)]
                   r == R[k - 1]
        <5>1. a \in Nat /\ b \in Nat /\ z \in Nat /\ r = b - a
          BY <1>7, <3>2, <3>3
        <5>2. a + 1 <= b + i /\ i \in Nat /\ b + i \in 1 .. z
          BY <4>3, <4>4
        <5>. HIDE DEF a, b, z, r
        <5>3. r + i \in 1 .. z - a /\ a + (r + i) = b + i
          BY <5>1, <5>2
        <5>. QED  BY <5>3 DEF a, b, z, r
      <4>6. new.data.bytes[R[k - 1] + i] = st.data.bytes[S[n] + (R[k - 1] + i)]
        BY <1>8, <4>5
      <4>7. st.begin + (n + k) - 1 = new.begin + k - 1
        <5>1. st.begin \in Nat /\ new.begin = st.begin + n
          BY <1>3, <1>5
        <5>. QED  BY <3>1, <5>1
      <4>. QED  BY <4>3, <4>5, <4>6, <4>7
    <3>. QED  BY <3>7, <3>8
  <2>. QED  BY <2>1 DEF Lies, jx, R
<1>13. Good(new)
  BY <1>10, <1>11, <1>12 DEF Good
<1>14. Size(new.data) = Size(st.data) - S[n]
  BY <1>7, <1>8 DEF Size
<1>15. /\ Good(new)
       /\ new.begin = st.begin + n /\ new.count = st.count
       /\ Len(new.index) = Len(st.index) - n
       /\ \A k \in 1 .. Len(new.index) : new.index[k] = st.index[n + k]
       /\ Size(new.data) = Size(st.data) - Summed(st.index)[n]
       /\ new.data.capacity = st.data.capacity
  BY <1>5, <1>6, <1>8, <1>13, <1>14 DEF ix, jx, S, c
<1>. QED  BY <1>15, Zenon DEF new, n

-----------------------------------------------------------------------------
(* Making room: what trimming, halving and a larger buffer leave *)

\* The last records of a store, as they were.
IsTail(new, st) ==
  /\ new.begin >= st.begin /\ new.count = st.count
  /\ new.data.capacity = st.data.capacity
  /\ \A k \in 1 .. Len(new.index) :
       /\ (new.begin - st.begin) + k \in 1 .. Len(st.index)
       /\ new.index[k] = st.index[(new.begin - st.begin) + k]

LEMMA GoodIs ==
  ASSUME NEW st, Good(st)
  PROVE  /\ st \in Stores /\ st.index \in Seq(Places)
         /\ st.begin \in Nat /\ st.count \in Nat /\ Len(st.index) \in Nat /\ Size(st.data) \in Nat
         /\ End(st) = st.count /\ st.begin >= 1 /\ Len(st.index) = st.count - st.begin + 1
         /\ st.data.capacity \in Nat \ {0} /\ st.data.capacity >= Capacity /\ st.data.capacity <= MaxSize
         /\ Size(st.data) <= st.data.capacity
<1>1. st \in Stores /\ Fits(st)
  BY DEF Good
<1>2. /\ st.begin \in Nat /\ st.count \in Nat /\ Len(st.index) \in Nat
      /\ st.index \in Seq(Places) /\ st.data.bytes \in Seq(AllSeqs)
  BY <1>1, StoreIs
<1>3. End(st) = st.count /\ Base = 1
  BY <1>2, MemoryAssumption DEF End
<1>4. Size(st.data) \in Nat
  BY <1>2 DEF Size
<1>5. st.begin >= 1 /\ Len(st.index) = st.count - st.begin + 1
  BY <1>1, <1>3 DEF Fits
<1>6. /\ st.data.capacity \in Nat \ {0} /\ st.data.capacity >= Capacity /\ st.data.capacity <= MaxSize
      /\ Size(st.data) <= st.data.capacity
  BY <1>1, MemoryAssumption DEF Fits
<1>. QED  BY <1>1, <1>2, <1>3, <1>4, <1>5, <1>6

LEMMA TailOfTail ==
  ASSUME NEW a, NEW b, NEW c, Good(a), Good(b), Good(c), IsTail(b, a), IsTail(c, b)
  PROVE  IsTail(c, a)
<1>1. a.begin \in Nat /\ b.begin \in Nat /\ c.begin \in Nat
  BY GoodIs
<1>2. c.begin >= a.begin /\ c.count = a.count /\ c.data.capacity = a.data.capacity
  BY <1>1 DEF IsTail
<1>3. ASSUME NEW k \in 1 .. Len(c.index)
      PROVE  /\ (c.begin - a.begin) + k \in 1 .. Len(a.index)
             /\ c.index[k] = a.index[(c.begin - a.begin) + k]
  <2> DEFINE j == (c.begin - b.begin) + k
  <2>1. j \in 1 .. Len(b.index) /\ c.index[k] = b.index[j]
    BY DEF IsTail
  <2>2. (b.begin - a.begin) + j = (c.begin - a.begin) + k
    BY <1>1
  <2>. HIDE DEF j
  <2>3. (b.begin - a.begin) + j \in 1 .. Len(a.index) /\ b.index[j] = a.index[(b.begin - a.begin) + j]
    BY <2>1 DEF IsTail
  <2>. QED  BY <2>1, <2>2, <2>3
<1>. QED  BY <1>2, <1>3 DEF IsTail

LEMMA DeletedIsTail ==
  ASSUME NEW st, Good(st), NEW e \in Int
  PROVE  /\ Good(deleteRecord(st, e)) /\ IsTail(deleteRecord(st, e), st)
         /\ deleteRecord(st, e).begin = st.begin + Gone(st, e)
         /\ Gone(st, e) \in 0 .. Len(st.index)
         /\ Len(deleteRecord(st, e).index) = Len(st.index) - Gone(st, e)
<1> DEFINE new == deleteRecord(st, e)
           n == Gone(st, e)
<1>1. /\ Good(new) /\ new.begin = st.begin + n /\ new.count = st.count
      /\ Len(new.index) = Len(st.index) - n
      /\ \A k \in 1 .. Len(new.index) : new.index[k] = st.index[n + k]
      /\ Size(new.data) = Size(st.data) - Summed(st.index)[n]
      /\ new.data.capacity = st.data.capacity
  BY DeletedGood, Zenon
<1>2. n \in 0 .. Len(st.index)
  BY GoneIs DEF Good
<1>3. st.begin \in Nat /\ Len(st.index) \in Nat
  BY GoodIs
<1>. HIDE DEF new, n
<1>4. new.begin - st.begin = n /\ new.begin >= st.begin
  BY <1>1, <1>2, <1>3
<1>5. \A k \in 1 .. Len(new.index) : n + k \in 1 .. Len(st.index)
  BY <1>1, <1>2, <1>3
<1>6. IsTail(new, st)
  BY <1>1, <1>4, <1>5 DEF IsTail
<1>. QED  BY <1>1, <1>2, <1>6 DEF new, n

LEMMA SelfTail ==
  ASSUME NEW st, Good(st)
  PROVE  IsTail(st, st)
<1>1. st.begin \in Nat /\ Len(st.index) \in Nat
  BY GoodIs
<1>2. \A k \in 1 .. Len(st.index) : (st.begin - st.begin) + k = k
  BY <1>1
<1>. QED  BY <1>1, <1>2 DEF IsTail

\* Trimming stops before the record that is given.
LEMMA TrimmedIs ==
  ASSUME NEW st, Good(st), NEW size \in Nat, NEW min \in Nat
  PROVE  /\ Good(trimmed(st, size, min)) /\ IsTail(trimmed(st, size, min), st)
         /\ trimmed(st, size, min).begin = st.begin \/ trimmed(st, size, min).begin <= min
<1>1. CASE size + Size(st.data) > st.data.capacity /\ min > st.begin
  <2>1. trimmed(st, size, min) = deleteRecord(st, min - 1) /\ min - 1 \in Int
    BY <1>1 DEF trimmed
  <2>2. /\ Good(deleteRecord(st, min - 1)) /\ IsTail(deleteRecord(st, min - 1), st)
        /\ deleteRecord(st, min - 1).begin = st.begin + Gone(st, min - 1)
    BY <2>1, DeletedIsTail
  <2>3. st.begin + Gone(st, min - 1) <= min
    <3>1. /\ st.begin \in Nat /\ st.count \in Nat
          /\ End(st) = st.count /\ Len(st.index) = st.count - st.begin + 1
      BY GoodIs
    <3>2. CASE min - 1 <= End(st)
      <4>1. Gone(st, min - 1) = (min - 1) - st.begin + 1
        BY <1>1, <3>1, <3>2 DEF Gone
      <4>. QED  BY <3>1, <4>1
    <3>3. CASE min - 1 > End(st)
      <4>1. Gone(st, min - 1) = Len(st.index)
        BY <1>1, <3>1, <3>3 DEF Gone
      <4>. QED  BY <3>1, <3>3, <4>1
    <3>. QED  BY <3>1, <3>2, <3>3
  <2>. QED  BY <2>1, <2>2, <2>3
<1>2. CASE ~(size + Size(st.data) > st.data.capacity /\ min > st.begin)
  BY <1>2, SelfTail DEF trimmed
<1>. QED  BY <1>1, <1>2

\* One step of halving drops a record at least.
LEMMA HalfIsLess ==
  ASSUME NEW st, Good(st), NEW size \in 1 .. MaxSize, size + Size(st.data) > MaxSize
  PROVE  LET new == deleteRecord(st, (st.begin + Base + st.count) \div 2) IN
         Good(new) /\ IsTail(new, st) /\ Len(new.index) < Len(st.index)
<1> DEFINE e == (st.begin + Base + st.count) \div 2
           new == deleteRecord(st, e)
<1>1. /\ st.begin \in Nat /\ st.count \in Nat /\ Base = 1 /\ MaxSize \in Nat /\ Len(st.index) \in Nat
      /\ End(st) = st.count /\ Len(st.index) = st.count - st.begin + 1 /\ Size(st.data) \in Nat
  BY GoodIs, MemoryAssumption
<1>2. Len(st.index) > 0
  <2>. SUFFICES ASSUME Len(st.index) = 0 PROVE FALSE
    BY <1>1
  <2>1. Summed(st.index)[0] = 0
    BY GoodIs, SummedIs
  <2>2. Size(st.data) = Summed(st.index)[Len(st.index)]
    BY DEF Good, Fits
  <2>. QED  BY <1>1, <2>1, <2>2
<1>3. e \in Int /\ st.begin <= e
  <2>1. st.begin + Base + st.count \in Nat /\ 2 * st.begin <= st.begin + Base + st.count
    BY <1>1, <1>2
  <2> DEFINE z == st.begin + Base + st.count
             b == st.begin
  <2>2. z \in Nat /\ b \in Nat /\ 2 * b <= z
    BY <1>1, <2>1
  <2>. HIDE DEF z, b
  <2>3. z \div 2 \in Int /\ b <= z \div 2
    BY <2>2
  <2>. QED  BY <2>3 DEF z, b
<1>. HIDE DEF e
<1>4. Good(new) /\ IsTail(new, st) /\ Len(new.index) = Len(st.index) - Gone(st, e)
  BY <1>3, DeletedIsTail
<1>5. Gone(st, e) > 0 /\ Gone(st, e) \in Int
  <2>1. CASE e <= End(st)
    <3>1. Gone(st, e) = e - st.begin + 1
      BY <1>1, <1>3, <2>1 DEF Gone
    <3>. QED  BY <1>1, <1>3, <3>1
  <2>2. CASE e > End(st)
    <3>1. Gone(st, e) = Len(st.index)
      BY <1>1, <1>3, <2>2 DEF Gone
    <3>. QED  BY <1>1, <1>2, <3>1
  <2>. QED  BY <1>1, <1>3, <2>1, <2>2
<1>6. Len(new.index) < Len(st.index)
  <2>. HIDE DEF new
  <2>. QED  BY <1>1, <1>4, <1>5
<1>. QED  BY <1>4, <1>6, Zenon DEF new, e

\* Halving ends with room for the record, as each step drops one at least.
LEMMA HalvedIs ==
  ASSUME NEW st, Good(st), NEW size \in 1 .. MaxSize
  PROVE  /\ Good(halved(st, size)) /\ IsTail(halved(st, size), st)
         /\ size + Size(halved(st, size).data) <= MaxSize
<1> DEFINE n == st.count
           next(now) == IF size + Size(now.data) > MaxSize
                        THEN deleteRecord(now, (now.begin + Base + now.count) \div 2) ELSE now
           V == {x \in Stores : Good(x) /\ IsTail(x, st)}
           F == [x \in (1 .. n) \X V |-> next(x[2])]
           Is(g) == g = [k \in 0 .. n |-> IF k = 0 THEN st ELSE next(g[k - 1])]
           f == CHOOSE g : Is(g)
<1>1. n \in Nat /\ st \in V
  BY GoodIs, SelfTail
<1>2. ASSUME NEW x \in V
      PROVE  /\ next(x) \in V
             /\ size + Size(next(x).data) <= MaxSize \/ Len(next(x).index) < Len(x.index)
             /\ size + Size(x.data) <= MaxSize => next(x) = x
  <2>1. Good(x) /\ IsTail(x, st)
    OBVIOUS
  <2>2. MaxSize \in Nat /\ Size(x.data) \in Nat
    BY <2>1, GoodIs, MemoryAssumption
  <2>3. CASE size + Size(x.data) > MaxSize
    <3> DEFINE y == deleteRecord(x, (x.begin + Base + x.count) \div 2)
    <3>1. Good(y) /\ IsTail(y, x) /\ Len(y.index) < Len(x.index)
      BY <2>1, <2>3, HalfIsLess, Zenon
    <3>2. next(x) = y
      BY <2>3
    <3>. HIDE DEF y, next
    <3>3. IsTail(y, st) /\ y \in Stores
      BY <2>1, <3>1, TailOfTail, GoodIs
    <3>4. ~(size + Size(x.data) <= MaxSize)
      BY <2>2, <2>3
    <3>. QED  BY <3>1, <3>2, <3>3, <3>4
  <2>4. CASE ~(size + Size(x.data) > MaxSize)
    <3>1. size + Size(x.data) <= MaxSize /\ next(x) = x
      BY <2>2, <2>4
    <3>. HIDE DEF next
    <3>. QED  BY <3>1
  <2>. QED  BY <2>3, <2>4
<1>3. F \in [(1 .. n) \X V -> V]
  <2>1. ASSUME NEW x \in (1 .. n) \X V PROVE next(x[2]) \in V
    <3>1. x[2] \in V
      <4>. HIDE DEF V
      <4>. QED  OBVIOUS
    <3>. HIDE DEF V, next
    <3>. QED  BY <1>2, <3>1
  <2>. HIDE DEF V, next
  <2>. QED  BY <2>1
<1>4. PICK g : g \in [0 .. n -> V] /\ g[0] = st /\ \A k \in 1 .. n : g[k] = F[k, g[k - 1]]
  <2>. HIDE DEF F, n, V
  <2>1. \E g : IsRun(g, V, st, n, F)
    BY <1>1, <1>3, Recursion
  <2>. QED  BY <2>1 DEF IsRun
<1>. HIDE DEF V, next
<1>5. Is(g)
  <2>1. ASSUME NEW k \in 0 .. n PROVE g[k] = IF k = 0 THEN st ELSE next(g[k - 1])
    <3>1. CASE k = 0
      BY <1>4, <3>1
    <3>2. CASE k # 0
      <4>1. k \in 1 .. n /\ k - 1 \in 0 .. n
        BY <1>1, <3>2
      <4>2. <<k, g[k - 1]>> \in (1 .. n) \X V
        BY <1>4, <4>1
      <4>3. g[k] = F[k, g[k - 1]]
        BY <1>4, <4>1
      <4>4. g[k] = next(g[k - 1])
        BY <4>2, <4>3
      <4>. QED  BY <3>2, <4>4
    <3>. QED  BY <3>1, <3>2
  <2>2. g = [k \in 0 .. n |-> g[k]]
    BY <1>4
  <2>. QED  BY <2>1, <2>2
<1>6. Is(f)
  BY <1>5
<1>7. halved(st, size) = f[n]
  BY DEF halved, next
<1>. HIDE DEF f
<1>8. f[0] = st /\ \A k \in 0 .. n - 1 : f[k + 1] = next(f[k])
  <2>1. \A k \in 0 .. n : f[k] = IF k = 0 THEN st ELSE next(f[k - 1])
    <3>. HIDE DEF n
    <3>. QED  BY <1>6
  <2>2. 0 \in 0 .. n
    BY <1>1
  <2>3. \A k \in 0 .. n - 1 : k + 1 \in 0 .. n /\ k + 1 # 0 /\ (k + 1) - 1 = k
    BY <1>1
  <2>. HIDE DEF n
  <2>. QED  BY <2>1, <2>2, <2>3
<1> DEFINE T == {k \in 0 .. n : f[k] \in V /\ (size + Size(f[k].data) <= MaxSize \/ Len(f[k].index) <= n - k)}
<1>9. 0 \in T
  <2>1. Len(st.index) <= n - 0 /\ 0 \in 0 .. n
    BY <1>1, GoodIs
  <2>. QED  BY <1>1, <1>8, <2>1
<1>10. ASSUME NEW k \in 0 .. n - 1, k \in T PROVE k + 1 \in T
  <2>1. f[k] \in V /\ (size + Size(f[k].data) <= MaxSize \/ Len(f[k].index) <= n - k)
    BY <1>10
  <2>2. f[k + 1] = next(f[k]) /\ k + 1 \in 0 .. n
    BY <1>1, <1>8
  <2>3. f[k + 1] \in V
    BY <1>2, <2>1, <2>2
  <2>4. CASE size + Size(f[k].data) <= MaxSize
    <3>1. f[k + 1] = f[k]
      BY <1>2, <2>1, <2>2, <2>4
    <3>. QED  BY <2>2, <2>3, <2>4, <3>1
  <2>5. CASE Len(f[k].index) <= n - k
    <3>1. size + Size(f[k + 1].data) <= MaxSize \/ Len(f[k + 1].index) < Len(f[k].index)
      BY <1>2, <2>1, <2>2
    <3>2. Len(f[k].index) \in Nat /\ Len(f[k + 1].index) \in Nat
      BY <2>1, <2>3, GoodIs DEF V
    <3>3. Len(f[k + 1].index) < Len(f[k].index) => Len(f[k + 1].index) <= n - (k + 1)
      <4> DEFINE a == Len(f[k + 1].index)
                 b == Len(f[k].index)
      <4>1. a \in Nat /\ b \in Nat /\ b <= n - k /\ n \in Nat /\ k \in Nat
        BY <1>1, <2>5, <3>2
      <4>. HIDE DEF a, b, n
      <4>2. a < b => a <= n - (k + 1)
        BY <4>1
      <4>. QED  BY <4>2 DEF a, b
    <3>. QED  BY <2>2, <2>3, <3>1, <3>3
  <2>. QED  BY <2>1, <2>4, <2>5
<1>11. n \in T
  <2>. HIDE DEF T, n
  <2>1. \A k \in 0 .. n : k \in T
    BY <1>1, <1>9, <1>10, UpTo
  <2>2. n \in 0 .. n
    BY <1>1
  <2>. QED  BY <2>1, <2>2
<1> DEFINE r == f[n]
<1>12. Good(r) /\ IsTail(r, st) /\ (size + Size(r.data) <= MaxSize \/ Len(r.index) <= n - n)
  BY <1>11 DEF V
<1>. HIDE DEF r
<1>13. CASE Len(r.index) <= n - n
  <2>1. Len(r.index) = 0
    BY <1>1, <1>12, <1>13, GoodIs
  <2>2. Summed(r.index)[0] = 0
    BY <1>12, GoodIs, SummedIs
  <2>3. Size(r.data) = Summed(r.index)[Len(r.index)]
    BY <1>12 DEF Good, Fits
  <2>4. Size(r.data) = 0
    BY <2>1, <2>2, <2>3
  <2>5. size + Size(r.data) <= MaxSize
    BY <2>4, MemoryAssumption
  <2>. QED  BY <1>7, <1>12, <2>5 DEF r
<1>. QED  BY <1>7, <1>12, <1>13 DEF r

\* A store whose records have the sizes of those of another, and lie where those did.
LEMMA SameSizes ==
  ASSUME NEW ix \in Seq(Places), NEW jx \in Seq(Places), Len(jx) <= Len(ix),
         \A k \in 1 .. Len(jx) : jx[k].len = ix[k].len
  PROVE  \A k \in 0 .. Len(jx) : Summed(jx)[k] = Summed(ix)[k]
<1>1. Len(jx) \in Nat /\ Len(ix) \in Nat
  OBVIOUS
<1>2. 0 + Len(jx) <= Len(ix) /\ 0 \in Nat
  BY <1>1
<1>3. \A k \in 1 .. Len(jx) : 0 + k = k
  BY <1>1
<1>4. \A k \in 1 .. Len(jx) : jx[k].len = ix[0 + k].len
  BY <1>3
<1>5. \A k \in 0 .. Len(jx) : Summed(jx)[k] = Summed(ix)[0 + k] - Summed(ix)[0]
  BY <1>2, <1>4, SummedShift
<1>6. Summed(ix) \in [0 .. Len(ix) -> Nat] /\ Summed(ix)[0] = 0
  BY SummedIs
<1>7. ASSUME NEW k \in 0 .. Len(jx) PROVE Summed(jx)[k] = Summed(ix)[k]
  <2>1. k \in 0 .. Len(ix) /\ 0 + k = k
    BY <1>1
  <2>2. Summed(ix)[k] \in Nat
    BY <1>6, <2>1
  <2>3. Summed(jx)[k] = Summed(ix)[0 + k] - Summed(ix)[0]
    BY <1>5
  <2> DEFINE a == Summed(ix)[k]
  <2>4. Summed(jx)[k] = a - 0 /\ a \in Nat
    BY <1>6, <2>1, <2>2, <2>3
  <2>. HIDE DEF a
  <2>5. Summed(jx)[k] = a
    BY <2>4
  <2>. QED  BY <2>5 DEF a
<1>. QED  BY <1>7

\* The buffer grows enough for the record, and never over its limit.
LEMMA ExtendedIs ==
  ASSUME NEW st, Good(st), NEW n \in 1 .. MaxSize, n + Size(st.data) <= MaxSize, NEW d \in extended(st.data, n)
  PROVE  \E c \in Nat \ {0} :
           /\ st.data.capacity <= c /\ c \in Capacity .. MaxSize /\ n + Size(st.data) <= c
           /\ \/ d = [first |-> 0, capacity |-> c, bytes |-> st.data.bytes]
              \/ /\ d = [first |-> st.data.first, capacity |-> c, bytes |-> st.data.bytes]
                 /\ st.data.first + Size(st.data) <= st.data.capacity
<1> DEFINE old == st.data.capacity
           z == Size(st.data)
           m == Max({2 * old, z + n})
           c == Min({MaxSize, m})
<1>1. /\ old \in Nat \ {0} /\ old >= Capacity /\ old <= MaxSize /\ z \in Nat /\ n \in Nat
      /\ MaxSize \in Nat /\ Capacity \in Nat /\ z + n <= MaxSize
  BY GoodIs, MemoryAssumption
<1>2. st.data = [first |-> st.data.first, capacity |-> st.data.capacity, bytes |-> st.data.bytes]
  BY StoreIs DEF Good
<1>3. \/ d = [st.data EXCEPT !.first = 0, !.capacity = c]
      \/ d = [st.data EXCEPT !.capacity = c] /\ st.data.first + Size(st.data) <= st.data.capacity
  BY DEF extended
<1>. HIDE DEF old, z
<1>4. m = IF 2 * old >= z + n THEN 2 * old ELSE z + n
  BY <1>1, MaxOfPair
<1>5. m \in Nat /\ m >= old /\ m >= z + n
  <2>. HIDE DEF m
  <2>. QED  BY <1>1, <1>4
<1>. HIDE DEF m
<1>6. c = IF MaxSize <= m THEN MaxSize ELSE m
  BY <1>1, <1>5, MinOfPair
<1>. HIDE DEF c
<1>7. c \in Nat \ {0} /\ old <= c /\ c \in Capacity .. MaxSize /\ n + z <= c
  BY <1>1, <1>5, <1>6
<1>8. \/ d = [first |-> 0, capacity |-> c, bytes |-> st.data.bytes]
      \/ /\ d = [first |-> st.data.first, capacity |-> c, bytes |-> st.data.bytes]
         /\ st.data.first + Size(st.data) <= st.data.capacity
  BY <1>2, <1>3
<1>. QED  BY <1>7, <1>8 DEF old, z

\* Places that were not moved stay right when the bytes do not wrap.
LEMMA MovedGood ==
  ASSUME NEW st, Good(st), NEW n \in 1 .. MaxSize, n + Size(st.data) <= MaxSize, NEW d \in extended(st.data, n)
  PROVE  /\ Good(Moved(st, d))
         /\ Moved(st, d).begin = st.begin /\ Moved(st, d).count = st.count
         /\ Len(Moved(st, d).index) = Len(st.index)
         /\ \A k \in 1 .. Len(st.index) : Moved(st, d).index[k].attr = st.index[k].attr
         /\ n + Size(Moved(st, d).data) <= Moved(st, d).data.capacity
<1> DEFINE new == Moved(st, d)
           ix == st.index
           jx == new.index
           S == Summed(ix)
           f == st.data.first
           old == st.data.capacity
           z == Size(st.data)
<1>1. PICK c \in Nat \ {0} :
        /\ old <= c /\ c \in Capacity .. MaxSize /\ n + z <= c
        /\ \/ d = [first |-> 0, capacity |-> c, bytes |-> st.data.bytes]
           \/ d = [first |-> f, capacity |-> c, bytes |-> st.data.bytes] /\ f + z <= old
  BY ExtendedIs
<1>2. d.capacity = c /\ d.bytes = st.data.bytes /\ (d.first = 0 \/ (d.first = f /\ f + z <= old))
  BY <1>1
<1>3. st \in Stores /\ Fits(st) /\ Lies(st)
  BY DEF Good
<1>4. /\ ix \in Seq(Places) /\ Len(ix) \in Nat /\ f \in Nat /\ old \in Nat \ {0} /\ z \in Nat
      /\ st.data.bytes \in Seq(AllSeqs) /\ z <= old /\ st.begin \in Nat /\ st.count \in Nat
  BY <1>3, GoodIs, StoreIs
<1>5. /\ S \in [0 .. Len(ix) -> Nat] /\ z = S[Len(ix)]
      /\ \A k \in 1 .. Len(ix) : S[k - 1] \in Nat /\ S[k - 1] < z
  <2>1. S \in [0 .. Len(ix) -> Nat] /\ z = S[Len(ix)]
    BY <1>3, <1>4, SummedIs DEF Fits
  <2>2. ASSUME NEW k \in 1 .. Len(ix) PROVE S[k - 1] \in Nat /\ S[k - 1] < z
    <3>1. k - 1 \in 0 .. Len(ix) /\ Len(ix) \in 0 .. Len(ix) /\ k - 1 <= Len(ix)
      BY <1>4
    <3>2. S[k - 1] \in Nat /\ S[Len(ix)] \in Nat /\ S[k - 1] + (Len(ix) - (k - 1)) <= S[Len(ix)]
      BY <1>4, <3>1, SummedRises
    <3> DEFINE a == S[k - 1]
    <3>3. a \in Nat /\ z \in Nat /\ a + (Len(ix) - (k - 1)) <= z
      BY <1>4, <2>1, <3>2
    <3>. HIDE DEF a, z, ix
    <3>4. a < z
      BY <1>4, <3>3
    <3>. QED  BY <3>3, <3>4 DEF a
  <2>. QED  BY <2>1, <2>2
<1>6. /\ new = [begin |-> st.begin, count |-> st.count, index |-> jx, data |-> d]
      /\ jx = IF d.first = f THEN ix
              ELSE [k \in 1 .. Len(ix) |-> [ix[k] EXCEPT !.start = d.first + Bytes(st, st.begin, st.begin + k - 2)]]
  <2>1. st = [begin |-> st.begin, count |-> st.count, index |-> st.index, data |-> st.data]
    BY <1>3, StoreIs
  <2>2. DOMAIN ix = 1 .. Len(ix)
    BY <1>4
  <2> DEFINE moved == IF d.first = f THEN ix
              ELSE [k \in DOMAIN ix |-> [ix[k] EXCEPT !.start = d.first + Bytes(st, st.begin, st.begin + k - 2)]]
  <2>3. new = [st EXCEPT !.data = d, !.index = moved]
    BY DEF Moved
  <2>. HIDE DEF moved, new
  <2>4. new = [begin |-> st.begin, count |-> st.count, index |-> moved, data |-> d] /\ jx = moved
    BY <2>1, <2>3
  <2>5. moved = IF d.first = f THEN ix
              ELSE [k \in 1 .. Len(ix) |-> [ix[k] EXCEPT !.start = d.first + Bytes(st, st.begin, st.begin + k - 2)]]
    BY <2>2 DEF moved
  <2>. QED  BY <2>4, <2>5
<1>7. new.begin = st.begin /\ new.count = st.count /\ new.data = d
  <2>. HIDE DEF new
  <2>. QED  BY <1>6
<1>8. \A k \in 1 .. Len(ix) : Bytes(st, st.begin, st.begin + k - 2) = S[k - 1]
  <2>. TAKE k \in 1 .. Len(ix)
  <2>1. (st.begin + k - 2) - st.begin + 1 = k - 1 /\ st.begin - st.begin = 0
    BY <1>4
  <2>2. S[0] = 0
    BY <1>4, SummedIs
  <2>3. S[k - 1] \in Nat
    BY <1>5
  <2>. QED  BY <2>1, <2>2, <2>3 DEF Bytes
<1>. HIDE DEF new, ix, jx, S, f, old, z
<1>9. ASSUME NEW k \in 1 .. Len(ix)
      PROVE  ix[k] = [start |-> ix[k].start, len |-> ix[k].len, attr |-> ix[k].attr] /\ ix[k] \in Places
  BY <1>4, PlaceIs DEF Places
<1>10. jx \in Seq(Places) /\ Len(jx) = Len(ix)
       /\ \A k \in 1 .. Len(ix) : jx[k].len = ix[k].len /\ jx[k].attr = ix[k].attr
                                  /\ jx[k].start = IF d.first = f THEN ix[k].start ELSE S[k - 1]
  <2>1. CASE d.first = f
    BY <1>4, <1>6, <2>1
  <2>2. CASE d.first # f
    <3>1. d.first = 0
      BY <1>2, <2>2
    <3>2. jx = [k \in 1 .. Len(ix) |-> [ix[k] EXCEPT !.start = d.first + Bytes(st, st.begin, st.begin + k - 2)]]
      BY <1>6, <2>2
    <3>3. ASSUME NEW k \in 1 .. Len(ix)
          PROVE  /\ jx[k] \in Places /\ jx[k].len = ix[k].len /\ jx[k].attr = ix[k].attr
                 /\ jx[k].start = S[k - 1]
      <4>1. jx[k] = [ix[k] EXCEPT !.start = 0 + S[k - 1]]
        BY <1>8, <3>1, <3>2
      <4>2. S[k - 1] \in Nat /\ 0 + S[k - 1] = S[k - 1]
        BY <1>5
      <4>3. jx[k] = [start |-> S[k - 1], len |-> ix[k].len, attr |-> ix[k].attr]
        BY <1>9, <4>1, <4>2
      <4>4. ix[k].len \in 1 .. MaxSize /\ ix[k].attr \in SUBSET {DELETED, REMOTE, EXPIRED}
        BY <1>9 DEF Places
      <4>5. jx[k] \in Places
        BY <4>2, <4>3, <4>4 DEF Places
      <4>6. jx[k].len = ix[k].len /\ jx[k].attr = ix[k].attr /\ jx[k].start = S[k - 1]
        BY <4>3
      <4>. QED  BY <4>5, <4>6
    <3>4. jx \in [1 .. Len(ix) -> Places]
      BY <3>2, <3>3
    <3>5. jx \in Seq(Places) /\ Len(jx) = Len(ix)
      BY <1>4, <3>4
    <3>. QED  BY <2>2, <3>3, <3>5
  <2>. QED  BY <2>1, <2>2
<1>11. \A k \in 0 .. Len(ix) : Summed(jx)[k] = S[k]
  <2>1. /\ ix \in Seq(Places) /\ jx \in Seq(Places) /\ Len(jx) = Len(ix) /\ Len(jx) <= Len(ix)
        /\ \A k \in 1 .. Len(jx) : jx[k].len = ix[k].len
    BY <1>4, <1>10
  <2>2. \A k \in 0 .. Len(jx) : Summed(jx)[k] = Summed(ix)[k]
    BY <2>1, SameSizes
  <2>. QED  BY <2>1, <2>2 DEF S
<1>12. new \in Stores
  <2>1. d \in Buffers
    <3>1. d.first \in Nat /\ d = [first |-> d.first, capacity |-> c, bytes |-> st.data.bytes]
      BY <1>1, <1>4
    <3>. QED  BY <1>4, <3>1 DEF Buffers
  <2>. QED  BY <1>4, <1>6, <1>10, <2>1 DEF Stores
<1>13. Fits(new)
  <2>1. Len(jx) = End(new) - new.begin + 1 /\ new.begin >= Base
    BY <1>3, <1>7, <1>10 DEF Fits, End, ix
  <2>2. Size(new.data) = z /\ new.data.capacity = c
    BY <1>2, <1>7 DEF Size, z
  <2>3. Summed(jx)[Len(jx)] = S[Len(ix)]
    BY <1>4, <1>10, <1>11
  <2>4. z <= c
    BY <1>1, <1>4
  <2>. QED  BY <1>1, <1>5, <2>1, <2>2, <2>3, <2>4 DEF Fits, jx
<1>14. Lies(new)
  <2>1. ASSUME NEW k \in 1 .. Len(jx)
        PROVE  /\ jx[k].start = (new.data.first + Summed(jx)[k - 1]) % new.data.capacity
               /\ \A i \in 1 .. jx[k].len : new.data.bytes[Summed(jx)[k - 1] + i] = new.begin + k - 1
    <3>1. k \in 1 .. Len(ix) /\ k - 1 \in 0 .. Len(ix)
      BY <1>4, <1>10
    <3>2. Summed(jx)[k - 1] = S[k - 1] /\ S[k - 1] \in Nat /\ S[k - 1] < z
      BY <1>5, <1>11, <3>1
    <3>3. jx[k].len = ix[k].len /\ jx[k].start = IF d.first = f THEN ix[k].start ELSE S[k - 1]
      BY <1>10, <3>1
    <3>4. /\ ix[k].start = (f + S[k - 1]) % old
          /\ \A i \in 1 .. ix[k].len : st.data.bytes[S[k - 1] + i] = st.begin + k - 1
      BY <1>3, <3>1 DEF Lies, ix, S, f, old
    <3>5. (d.first + S[k - 1]) % c = IF d.first = f THEN (f + S[k - 1]) % old ELSE S[k - 1]
      <4>1. ASSUME NEW a \in Nat, NEW b \in Nat \ {0}, a < b PROVE a % b = a
        BY <4>1, Z3
      <4>2. CASE d.first = f
        <5>1. f + z <= old
          BY <1>2, <1>4, <4>2
        <5>2. f + S[k - 1] \in Nat /\ f + S[k - 1] < old /\ f + S[k - 1] < c
          BY <1>1, <1>4, <3>2, <5>1
        <5>3. (f + S[k - 1]) % old = f + S[k - 1] /\ (f + S[k - 1]) % c = f + S[k - 1]
          BY <1>4, <4>1, <5>2
        <5>. QED  BY <4>2, <5>3
      <4>3. CASE d.first # f
        <5>1. d.first = 0 /\ 0 + S[k - 1] = S[k - 1]
          BY <1>2, <3>2, <4>3
        <5>2. S[k - 1] < c
          BY <1>1, <1>4, <3>2
        <5>3. S[k - 1] % c = S[k - 1]
          BY <3>2, <4>1, <5>2
        <5>. QED  BY <4>3, <5>1, <5>3
      <4>. QED  BY <4>2, <4>3
    <3>6. new.data.first = d.first /\ new.data.capacity = c /\ new.data.bytes = st.data.bytes /\ new.begin = st.begin
      BY <1>2, <1>7
    <3>. QED  BY <3>2, <3>3, <3>4, <3>5, <3>6
  <2>. QED  BY <2>1 DEF Lies, jx
<1>15. n + Size(new.data) <= new.data.capacity
  BY <1>1, <1>2, <1>7 DEF Size, z
<1>. QED  BY <1>7, <1>10, <1>12, <1>13, <1>14, <1>15 DEF Good, new, jx, ix

\* Both ways to make room for a record leave the records as they were.
LEMMA RoomsAre ==
  ASSUME NEW st, Good(st), NEW n \in 1 .. MaxSize, n + Size(st.data) <= MaxSize, NEW new \in rooms(st, n)
  PROVE  /\ Good(new) /\ new.begin = st.begin /\ new.count = st.count
         /\ Len(new.index) = Len(st.index)
         /\ \A k \in 1 .. Len(st.index) : new.index[k].attr = st.index[k].attr
         /\ n + Size(new.data) <= new.data.capacity
<1>1. Size(st.data) \in Nat /\ st.data.capacity \in Nat /\ n \in Nat
  BY GoodIs, MemoryAssumption
<1>2. CASE n + Size(st.data) > st.data.capacity
  <2>1. PICK d \in extended(st.data, n) : new = Moved(st, d)
    BY <1>2 DEF rooms, extendMemoryBuffer
  <2>. QED  BY <2>1, MovedGood
<1>3. CASE ~(n + Size(st.data) > st.data.capacity)
  <2>1. new = st
    BY <1>3 DEF rooms
  <2>. QED  BY <1>1, <1>3, <2>1
<1>. QED  BY <1>2, <1>3

\* The new record lies behind the others.
LEMMA StoredGood ==
  ASSUME NEW st, Good(st), NEW size \in 1 .. MaxSize, NEW attr \in SUBSET {DELETED, REMOTE, EXPIRED},
         size + Size(st.data) <= st.data.capacity, st.count < MaxCount
  PROVE  /\ Good(Stored(st, size, attr))
         /\ Stored(st, size, attr).begin = st.begin /\ Stored(st, size, attr).count = st.count + 1
         /\ Len(Stored(st, size, attr).index) = Len(st.index) + 1
         /\ \A k \in 1 .. Len(st.index) : Stored(st, size, attr).index[k] = st.index[k]
         /\ Stored(st, size, attr).index[Len(st.index) + 1].attr = attr
<1> DEFINE new == Stored(st, size, attr)
           ix == st.index
           jx == new.index
           S == Summed(ix)
           R == Summed(jx)
           f == st.data.first
           c == st.data.capacity
           z == Size(st.data)
           old == st.data.bytes
           more == [k \in 1 .. size |-> End(st) + 1]
           place == [start |-> WriteIndex(st.data), len |-> size, attr |-> attr]
<1>1. st \in Stores /\ Fits(st) /\ Lies(st)
  BY DEF Good
<1>2. /\ ix \in Seq(Places) /\ Len(ix) \in Nat /\ f \in Nat /\ c \in Nat \ {0} /\ z \in Nat
      /\ old \in Seq(AllSeqs) /\ Len(old) = z /\ z <= c /\ st.begin \in Nat /\ st.count \in Nat
      /\ size \in Nat /\ size >= 1 /\ End(st) = st.count /\ Len(ix) = st.count - st.begin + 1
      /\ MaxSize \in Nat /\ MaxCount \in Nat /\ Base = 1
  <2>1. /\ ix \in Seq(Places) /\ Len(ix) \in Nat /\ f \in Nat
        /\ old \in Seq(AllSeqs) /\ Len(old) = z
    BY <1>1, StoreIs DEF Size
  <2>2. /\ c \in Nat \ {0} /\ z \in Nat /\ z <= c /\ st.begin \in Nat /\ st.count \in Nat
        /\ End(st) = st.count /\ Len(ix) = st.count - st.begin + 1
    BY GoodIs
  <2>3. MaxSize \in Nat /\ MaxCount \in Nat /\ Base = 1
    BY MemoryAssumption
  <2>4. size \in Nat /\ size >= 1
    BY <2>3
  <2>. HIDE DEF ix, f, c, z, old
  <2>. QED  BY <2>1, <2>2, <2>3, <2>4
<1>3. S \in [0 .. Len(ix) -> Nat] /\ z = S[Len(ix)]
  BY <1>1, <1>2, SummedIs DEF Fits
<1>4. place \in Places /\ place.start = (f + z) % c /\ place.len = size /\ place.attr = attr
  <2>1. WriteIndex(st.data) = (f + z) % c
    BY DEF WriteIndex
  <2>2. f + z \in Int
    BY <1>2
  <2>. HIDE DEF f, c, z
  <2>3. (f + z) % c \in Nat
    <3>1. PICK q \in Int, r \in 0 .. c - 1 : f + z = c * q + r /\ r = (f + z) % c
      BY <1>2, <2>2, Quotient
    <3>. QED  BY <1>2, <3>1
  <2>. QED  BY <2>1, <2>3 DEF Places
<1>5. End(st) + 1 \in AllSeqs
  BY <1>2 DEF AllSeqs
<1>6. more \in Seq(AllSeqs) /\ Len(more) = size
  <2>1. more \in [1 .. size -> AllSeqs]
    BY <1>5
  <2>. HIDE DEF more
  <2>. QED  BY <1>2, <2>1
<1>7. /\ new.begin = st.begin /\ new.count = st.count + 1 /\ jx = Append(ix, place)
      /\ new.data.first = f /\ new.data.capacity = c /\ new.data.bytes = old \o more
      /\ new = [begin |-> st.begin, count |-> st.count + 1, index |-> jx,
                data |-> [first |-> f, capacity |-> c, bytes |-> new.data.bytes]]
  <2> DEFINE d == [first |-> f, capacity |-> c, bytes |-> old \o more]
  <2>1. st = [begin |-> st.begin, count |-> st.count, index |-> st.index, data |-> st.data]
        /\ st.data = [first |-> f, capacity |-> c, bytes |-> old]
    BY <1>1, StoreIs
  <2>2. new = [st EXCEPT !.count = @ + 1, !.data = write(@, more), !.index = Append(@, place)]
    BY DEF Stored
  <2>3. write(st.data, more) = d
    <3>1. write(st.data, more) = [st.data EXCEPT !.bytes = @ \o more]
      BY DEF write
    <3>. HIDE DEF more
    <3>. QED  BY <2>1, <3>1
  <2>. HIDE DEF new, more, place, d, old, f, c
  <2>4. new = [begin |-> st.begin, count |-> st.count + 1, index |-> Append(ix, place), data |-> d]
    BY <2>1, <2>2, <2>3
  <2>5. new.begin = st.begin /\ new.count = st.count + 1 /\ jx = Append(ix, place) /\ new.data = d
    BY <2>4
  <2>6. new.data.first = f /\ new.data.capacity = c /\ new.data.bytes = old \o more
    BY <2>5 DEF d
  <2>. QED  BY <2>4, <2>5, <2>6 DEF d
<1>. HIDE DEF new, ix, jx, S, R, f, c, z, old, more, place
<1>8. /\ jx \in Seq(Places) /\ Len(jx) = Len(ix) + 1
      /\ \A k \in 1 .. Len(ix) : jx[k] = ix[k]
      /\ jx[Len(ix) + 1] = place
  BY <1>2, <1>4, <1>7
<1>9. /\ \A k \in 0 .. Len(ix) : R[k] = S[k]
      /\ R[Len(jx)] = z + size
  <2>1. Len(ix) <= Len(jx) /\ \A k \in 1 .. Len(ix) : ix[k].len = jx[k].len
    BY <1>2, <1>8
  <2>2. \A k \in 0 .. Len(ix) : Summed(ix)[k] = Summed(jx)[k]
    BY <1>2, <1>8, <2>1, SameSizes
  <2>3. Len(jx) \in 1 .. Len(jx) /\ Len(jx) - 1 = Len(ix) /\ Len(ix) \in 0 .. Len(ix)
    BY <1>2, <1>8
  <2>4. R[Len(jx)] = R[Len(jx) - 1] + jx[Len(jx)].len
    BY <1>8, <2>3, SummedIs DEF R
  <2>5. jx[Len(jx)].len = size
    BY <1>4, <1>8
  <2>. QED  BY <1>3, <2>2, <2>3, <2>4, <2>5 DEF R, S
<1>10. /\ new.data.bytes \in Seq(AllSeqs) /\ Len(new.data.bytes) = z + size
       /\ \A i \in 1 .. z : new.data.bytes[i] = old[i]
       /\ \A i \in 1 .. size : new.data.bytes[z + i] = End(st) + 1
  <2> DEFINE all == old \o more
  <2>0. old \in Seq(AllSeqs) /\ Len(old) = z /\ z \in Nat /\ size \in Nat
    BY <1>2
  <2>1. all \in Seq(AllSeqs) /\ Len(all) = z + size
    BY <1>6, <2>0
  <2>2. \A i \in 1 .. z : all[i] = old[i]
    BY <1>6, <2>0
  <2>3. \A i \in 1 .. size : all[z + i] = more[i]
    BY <1>6, <2>0
  <2>4. \A i \in 1 .. size : more[i] = End(st) + 1
    BY DEF more
  <2>. HIDE DEF all
  <2>5. new.data.bytes = all
    BY <1>7 DEF all
  <2>. QED  BY <2>1, <2>2, <2>3, <2>4, <2>5
<1>11. new \in Stores
  <2>1. [first |-> f, capacity |-> c, bytes |-> new.data.bytes] \in Buffers
    BY <1>2, <1>10 DEF Buffers
  <2>2. st.begin \in Nat /\ st.count + 1 \in Nat /\ jx \in Seq(Places)
    BY <1>2, <1>8
  <2> DEFINE d == [first |-> f, capacity |-> c, bytes |-> new.data.bytes]
  <2>3. new = [begin |-> st.begin, count |-> st.count + 1, index |-> jx, data |-> d]
    BY <1>7
  <2>. HIDE DEF d
  <2>4. d \in Buffers
    BY <2>1 DEF d
  <2>. QED  BY <2>2, <2>3, <2>4 DEF Stores
<1>12. Fits(new)
  <2>1. End(new) = st.count + 1
    BY <1>2, <1>7 DEF End
  <2>2. Len(jx) = End(new) - new.begin + 1 /\ new.begin >= Base
    <3>1. st.begin \in Nat /\ st.count \in Nat /\ Len(ix) = st.count - st.begin + 1 /\ st.begin >= Base
      BY <1>1, <1>2 DEF Fits
    <3>2. Len(jx) = Len(ix) + 1 /\ new.begin = st.begin
      BY <1>7, <1>8
    <3>. QED  BY <2>1, <3>1, <3>2
  <2>3. Size(new.data) = R[Len(jx)]
    BY <1>9, <1>10 DEF Size
  <2>4. Size(new.data) <= c
    BY <1>2, <1>10 DEF Size, z, c
  <2>5. c \in Capacity .. MaxSize
    BY <1>1 DEF Fits, c
  <2>. QED  BY <1>7, <2>2, <2>3, <2>4, <2>5 DEF Fits, jx, R
<1>13. Lies(new)
  <2>1. ASSUME NEW k \in 1 .. Len(jx)
        PROVE  /\ jx[k].start = (new.data.first + R[k - 1]) % new.data.capacity
               /\ \A i \in 1 .. jx[k].len : new.data.bytes[R[k - 1] + i] = new.begin + k - 1
    <3>1. CASE k \in 1 .. Len(ix)
      <4>1. jx[k] = ix[k] /\ k - 1 \in 0 .. Len(ix)
        BY <1>2, <1>8, <3>1
      <4>2. R[k - 1] = S[k - 1]
        BY <1>9, <4>1
      <4>3. ix[k].start = (f + S[k - 1]) % c
        BY <1>1, <3>1 DEF Lies, ix, S, f, c
      <4>4. ASSUME NEW i \in 1 .. ix[k].len PROVE new.data.bytes[S[k - 1] + i] = st.begin + k - 1
        <5>1. S[k - 1] + i \in 1 .. z /\ old[S[k - 1] + i] = st.begin + k - 1
          BY <3>1, BytesAre DEF ix, S, z, old
        <5>. QED  BY <1>10, <5>1
      <4>. QED  BY <1>7, <4>1, <4>2, <4>3, <4>4
    <3>2. CASE k = Len(ix) + 1
      <4>1. jx[k] = place /\ k - 1 = Len(ix) /\ Len(ix) \in 0 .. Len(ix)
        BY <1>2, <1>8, <3>2
      <4>2. R[k - 1] = z
        BY <1>3, <1>9, <4>1
      <4>3. new.begin + k - 1 = End(st) + 1
        <5>1. /\ st.begin \in Nat /\ st.count \in Nat /\ End(st) = st.count
              /\ Len(ix) = st.count - st.begin + 1 /\ new.begin = st.begin
          BY <1>2, <1>7
        <5>. QED  BY <3>2, <5>1
      <4>. QED  BY <1>4, <1>7, <1>10, <4>1, <4>2, <4>3
    <3>3. k \in 1 .. Len(ix) \/ k = Len(ix) + 1
      BY <1>2, <1>8
    <3>. QED  BY <3>1, <3>2, <3>3
  <2>. QED  BY <2>1 DEF Lies, jx, R
<1>. QED  BY <1>4, <1>7, <1>8, <1>11, <1>12, <1>13 DEF Good, new, jx, ix, place

\* Marks leave the bytes where they are.
LEMMA MarkedGood ==
  ASSUME NEW st, Good(st), NEW jx \in Seq(Places), Len(jx) = Len(st.index),
         \A k \in 1 .. Len(jx) : jx[k].len = st.index[k].len /\ jx[k].start = st.index[k].start
  PROVE  /\ Good([st EXCEPT !.index = jx])
         /\ [st EXCEPT !.index = jx].begin = st.begin /\ [st EXCEPT !.index = jx].count = st.count
         /\ [st EXCEPT !.index = jx].index = jx
<1> DEFINE new == [st EXCEPT !.index = jx]
           ix == st.index
<1>1. st \in Stores /\ Fits(st) /\ Lies(st)
  BY DEF Good
<1>2. st = [begin |-> st.begin, count |-> st.count, index |-> ix, data |-> st.data]
      /\ st.begin \in Nat /\ st.count \in Nat /\ st.data \in Buffers /\ ix \in Seq(Places) /\ Len(ix) \in Nat
  BY <1>1, StoreIs
<1>3. /\ new = [begin |-> st.begin, count |-> st.count, index |-> jx, data |-> st.data]
      /\ new.begin = st.begin /\ new.count = st.count /\ new.index = jx /\ new.data = st.data
  BY <1>2
<1>. HIDE DEF new, ix
<1>4. new \in Stores
  BY <1>2, <1>3 DEF Stores
<1>5. \A k \in 0 .. Len(ix) : Summed(jx)[k] = Summed(ix)[k]
  <2>1. Len(jx) = Len(ix) /\ Len(jx) <= Len(ix) /\ \A k \in 1 .. Len(jx) : jx[k].len = ix[k].len
    BY <1>2 DEF ix
  <2>2. \A k \in 0 .. Len(jx) : Summed(jx)[k] = Summed(ix)[k]
    BY <1>2, <2>1, SameSizes
  <2>. QED  BY <2>1, <2>2
<1>6. Fits(new)
  <2>1. Len(ix) \in 0 .. Len(ix) /\ Len(jx) = Len(ix)
    BY <1>2 DEF ix
  <2>2. Summed(jx)[Len(jx)] = Summed(ix)[Len(ix)]
    BY <1>5, <2>1
  <2>3. End(new) = End(st)
    BY <1>3 DEF End
  <2>. QED  BY <1>1, <1>3, <2>1, <2>2, <2>3 DEF Fits, ix
<1>7. Lies(new)
  <2>1. ASSUME NEW k \in 1 .. Len(jx)
        PROVE  /\ jx[k].start = (new.data.first + Summed(jx)[k - 1]) % new.data.capacity
               /\ \A i \in 1 .. jx[k].len : new.data.bytes[Summed(jx)[k - 1] + i] = new.begin + k - 1
    <3>1. k \in 1 .. Len(ix) /\ k - 1 \in 0 .. Len(ix)
      BY <1>2 DEF ix
    <3>2. Summed(jx)[k - 1] = Summed(ix)[k - 1]
      BY <1>5, <3>1
    <3>3. /\ ix[k].start = (st.data.first + Summed(ix)[k - 1]) % st.data.capacity
          /\ \A i \in 1 .. ix[k].len : st.data.bytes[Summed(ix)[k - 1] + i] = st.begin + k - 1
      BY <1>1, <3>1 DEF Lies, ix
    <3>4. jx[k].len = ix[k].len /\ jx[k].start = ix[k].start
      BY DEF ix
    <3>. QED  BY <1>3, <3>2, <3>3, <3>4
  <2>. QED  BY <1>3, <2>1 DEF Lies
<1>8. Good(new)
  BY <1>4, <1>6, <1>7 DEF Good
<1>. QED  BY <1>3, <1>8 DEF new

\* Nothing is left when the beginning goes behind the last record.
LEMMA SkippedGood ==
  ASSUME NEW st, Good(st), NEW s \in Nat, st.count < s - 1
  PROVE  LET new == [[deleteRecord(st, st.count) EXCEPT !.count = s - 1] EXCEPT !.begin = s] IN
         Good(new) /\ new.begin = s /\ new.count = s - 1 /\ Len(new.index) = 0
<1> DEFINE old == deleteRecord(st, st.count)
           new == [[old EXCEPT !.count = s - 1] EXCEPT !.begin = s]
<1>1. st.count \in Int /\ st.count \in Nat /\ End(st) = st.count /\ st.begin \in Nat /\ st.begin >= 1
      /\ Len(st.index) = st.count - st.begin + 1 /\ Len(st.index) \in Nat
  BY GoodIs
<1>2. Good(old) /\ Len(old.index) = Len(st.index) - Gone(st, st.count)
  BY <1>1, DeletedIsTail
<1>3. Gone(st, st.count) = Len(st.index)
  <2>1. CASE st.count < st.begin
    BY <1>1, <2>1 DEF Gone
  <2>2. CASE st.count >= st.begin
    BY <1>1, <2>2 DEF Gone
  <2>. QED  BY <1>1, <2>1, <2>2
<1>4. Len(old.index) = 0
  BY <1>1, <1>2, <1>3
<1>5. old \in Stores /\ Fits(old)
  BY <1>2 DEF Good
<1>6. /\ old = [begin |-> old.begin, count |-> old.count, index |-> old.index, data |-> old.data]
      /\ old.index \in Seq(Places) /\ old.data \in Buffers
  BY <1>5, StoreIs
<1>. HIDE DEF old
<1>7. /\ new = [begin |-> s, count |-> s - 1, index |-> old.index, data |-> old.data]
      /\ new.begin = s /\ new.count = s - 1 /\ new.index = old.index /\ new.data = old.data
  <2> DEFINE mid == [old EXCEPT !.count = s - 1]
  <2>1. mid = [begin |-> old.begin, count |-> s - 1, index |-> old.index, data |-> old.data]
    BY <1>6
  <2>2. new = [mid EXCEPT !.begin = s]
    OBVIOUS
  <2>. HIDE DEF mid, new
  <2>3. new = [begin |-> s, count |-> s - 1, index |-> old.index, data |-> old.data]
    BY <2>1, <2>2
  <2>. QED  BY <2>3
<1>. HIDE DEF new
<1>8. s - 1 \in Nat /\ s >= 1
  BY <1>1
<1>9. new \in Stores
  BY <1>6, <1>7, <1>8 DEF Stores
<1>10. Fits(new)
  <2>1. End(new) = s - 1 /\ Base = 1
    BY <1>7, <1>8, MemoryAssumption DEF End
  <2>2. Len(new.index) = End(new) - new.begin + 1 /\ new.begin >= Base
    BY <1>4, <1>7, <1>8, <2>1
  <2>. QED  BY <1>5, <1>7, <2>2 DEF Fits
<1>11. Lies(new)
  <2>1. 1 .. Len(new.index) = {}
    BY <1>4, <1>7
  <2>. QED  BY <2>1 DEF Lies
<1>12. Good(new) /\ new.begin = s /\ new.count = s - 1 /\ Len(new.index) = 0
  BY <1>4, <1>7, <1>9, <1>10, <1>11 DEF Good
<1>. QED  BY <1>12, Zenon DEF new, old

-----------------------------------------------------------------------------
(* Consumers *)

Members ==
  [count : Nat, first : Nat, nonAck : SUBSET Nat, redeliver : SUBSET Nat,
   blockStart : Nat, blockEnd : Nat, len : Int]

\* The first record that is not acknowledged, as the index knows it, is not behind any
\* that is pending: its block is the end of the records it knows, and its set is before it.
Ordered(m) ==
  /\ m.first <= m.count + 1
  /\ \A s \in m.nonAck : m.first <= s /\ s <= m.count
  /\ m.blockStart # 0 => /\ m.blockEnd = m.count /\ m.blockStart <= m.count /\ m.first <= m.blockStart
                         /\ \A s \in m.nonAck : s < m.blockStart
  /\ m.blockStart = 0 => m.blockEnd = 0

LEMMA AckAdds ==
  ASSUME NEW m \in Members, Ordered(m), NEW s \in Nat, s >= 1
  PROVE  Ack!Grown(m, s) \in Members /\ Ordered(Ack!Grown(m, s))
<1>1. Base = 1
  BY MemoryAssumption
<1>2. CASE ~Ack!IsNew(m, s)
  BY <1>2 DEF Ack!Grown
<1>3. CASE Ack!IsNew(m, s)
  <2> DEFINE new == Ack!AddMem(m, s)
  <2>1. Ack!CountFor(s) = s /\ Ack!NextSeq(m) = m.count + 1 /\ s > m.count /\ m.count \in Nat
    BY <1>1, <1>3 DEF Ack!IsNew, Ack!CountFor, Ack!NextSeq, Members
  <2>2. m.blockStart # 0 => m.blockEnd # m.count + 1 + 1
    BY <2>1 DEF Ordered
  <2>3. new = [m EXCEPT !.count = s, !.first = IF Ack!NothingPending(m) THEN m.count + 1 ELSE @,
                        !.nonAck = Ack!Pending(m), !.blockStart = m.count + 1, !.blockEnd = s,
                        !.len = @ + s - m.count]
    BY <1>3, <2>1, <2>2 DEF Ack!AddMem
  <2>4. m = [count |-> m.count, first |-> m.first, nonAck |-> m.nonAck, redeliver |-> m.redeliver,
             blockStart |-> m.blockStart, blockEnd |-> m.blockEnd, len |-> m.len]
        /\ m.first \in Nat /\ m.nonAck \subseteq Nat /\ m.redeliver \subseteq Nat
        /\ m.blockStart \in Nat /\ m.blockEnd \in Nat /\ m.len \in Int
    BY DEF Members
  <2> DEFINE first == IF Ack!NothingPending(m) THEN m.count + 1 ELSE m.first
             pending == Ack!Pending(m)
  <2>5. new = [count |-> s, first |-> first, nonAck |-> pending, redeliver |-> m.redeliver,
               blockStart |-> m.count + 1, blockEnd |-> s, len |-> m.len + s - m.count]
    BY <2>3, <2>4
  <2>6. /\ pending \subseteq Nat
        /\ \A t \in pending : m.first <= t /\ t <= m.count
    <3>1. pending = m.nonAck \cup (IF m.blockStart = 0 THEN {} ELSE m.blockStart .. m.blockEnd)
      BY DEF Ack!Pending, Ack!Block
    <3>2. \A t \in m.nonAck : t \in Nat /\ m.first <= t /\ t <= m.count
      BY <2>4 DEF Ordered
    <3>3. m.blockStart # 0 => \A t \in m.blockStart .. m.blockEnd : t \in Nat /\ m.first <= t /\ t <= m.count
      BY <2>1, <2>4 DEF Ordered
    <3>. QED  BY <3>1, <3>2, <3>3
  <2>7. first \in Nat /\ first <= m.count + 1
    <3>1. m.first <= m.count + 1
      BY DEF Ordered
    <3>. QED  BY <2>1, <2>4, <3>1
  <2>8. \A t \in pending : first <= t
    <3>1. Ack!NothingPending(m) => pending = {}
      BY DEF Ack!NothingPending, Ack!Pending, Ack!Block
    <3>. QED  BY <2>6, <3>1
  <2>. HIDE DEF new, first, pending
  <2>9. new \in Members
    BY <2>1, <2>4, <2>5, <2>6, <2>7 DEF Members
  <2>10. /\ new.count = s /\ new.first = first /\ new.nonAck = pending
         /\ new.blockStart = m.count + 1 /\ new.blockEnd = s
    BY <2>5
  <2>11. Ordered(new)
    <3>1. \A t \in pending : t \in Nat /\ t <= m.count /\ first <= t
      BY <2>6, <2>8
    <3>. QED  BY <2>1, <2>7, <2>10, <3>1 DEF Ordered
  <2>. QED  BY <1>3, <2>9, <2>11 DEF Ack!Grown, new
<1>. QED  BY <1>2, <1>3

LEMMA AckAcks ==
  ASSUME NEW m \in Members, Ordered(m), NEW s \in Nat
  PROVE  Ack!AckMem(m, s) \in Members /\ Ordered(Ack!AckMem(m, s))
<1>1. /\ m = [count |-> m.count, first |-> m.first, nonAck |-> m.nonAck, redeliver |-> m.redeliver,
              blockStart |-> m.blockStart, blockEnd |-> m.blockEnd, len |-> m.len]
      /\ m.count \in Nat /\ m.first \in Nat /\ m.nonAck \subseteq Nat /\ m.redeliver \subseteq Nat
      /\ m.blockStart \in Nat /\ m.blockEnd \in Nat /\ m.len \in Int
  BY DEF Members
<1>2. /\ m.first <= m.count + 1
      /\ \A t \in m.nonAck : t \in Nat /\ m.first <= t /\ t <= m.count
      /\ m.blockStart # 0 => /\ m.blockEnd = m.count /\ m.blockStart <= m.count /\ m.first <= m.blockStart
                             /\ \A t \in m.nonAck : t < m.blockStart
      /\ m.blockStart = 0 => m.blockEnd = 0
  BY <1>1 DEF Ordered
<1>3. CASE s \in Ack!Block(m)
  <2>1. m.blockStart # 0 /\ s \in m.blockStart .. m.blockEnd
    BY <1>3 DEF Ack!Block
  <2> DEFINE new == Ack!AckMem(m, s)
             nonAck == m.nonAck \cup (m.blockStart .. s - 1)
             start == IF s = m.blockEnd THEN 0 ELSE s + 1
             end == IF s = m.blockEnd THEN 0 ELSE m.blockEnd
  <2>2. new = [m EXCEPT !.nonAck = nonAck, !.blockStart = start, !.blockEnd = end]
    BY <1>3 DEF Ack!AckMem, Ack!CutBlock
  <2>3. new = [count |-> m.count, first |-> m.first, nonAck |-> nonAck, redeliver |-> m.redeliver,
               blockStart |-> start, blockEnd |-> end, len |-> m.len]
    <3>. HIDE DEF new, nonAck, start, end
    <3>. QED  BY <1>1, <2>2
  <2>4. nonAck \subseteq Nat /\ start \in Nat /\ end \in Nat
    BY <1>1, <2>1
  <2>5. \A t \in nonAck : m.first <= t /\ t <= m.count /\ t < s
    <3>1. \A t \in m.nonAck : m.first <= t /\ t <= m.count /\ t < s
      BY <1>1, <1>2, <2>1
    <3>2. \A t \in m.blockStart .. s - 1 : m.first <= t /\ t <= m.count /\ t < s
      BY <1>1, <1>2, <2>1
    <3>. QED  BY <3>1, <3>2
  <2>6. start # 0 => end = m.count /\ start <= m.count /\ m.first <= start /\ start = s + 1
    BY <1>1, <1>2, <2>1
  <2>7. start = 0 => end = 0
    BY <1>1, <2>1
  <2>. HIDE DEF new, nonAck, start, end
  <2>8. new \in Members
    BY <1>1, <2>3, <2>4 DEF Members
  <2>9. Ordered(new)
    <3>1. /\ new.count = m.count /\ new.first = m.first /\ new.nonAck = nonAck
          /\ new.blockStart = start /\ new.blockEnd = end
      BY <2>3
    <3>2. start # 0 => \A t \in nonAck : t < start
      BY <2>4, <2>5, <2>6
    <3>. QED  BY <1>2, <2>5, <2>6, <2>7, <3>1, <3>2 DEF Ordered
  <2>. QED  BY <2>8, <2>9 DEF new
<1>4. CASE s \notin Ack!Block(m)
  <2> DEFINE new == Ack!AckMem(m, s)
             rest == m.nonAck \ {s}
             marks1 == m.redeliver \ {s}
             first == Ack!FirstPending(m, rest)
  <2>1. new = [m EXCEPT !.nonAck = rest, !.redeliver = marks1, !.first = first]
    BY <1>4 DEF Ack!AckMem
  <2>2. new = [count |-> m.count, first |-> first, nonAck |-> rest, redeliver |-> marks1,
               blockStart |-> m.blockStart, blockEnd |-> m.blockEnd, len |-> m.len]
    <3>. HIDE DEF new, rest, marks1, first
    <3>. QED  BY <1>1, <2>1
  <2>3. rest \subseteq Nat /\ marks1 \subseteq Nat /\ \A t \in rest : t <= m.count /\ (m.blockStart # 0 => t < m.blockStart)
    BY <1>1, <1>2
  <2>4. /\ first \in Nat /\ first <= m.count + 1
        /\ \A t \in rest : first <= t
        /\ m.blockStart # 0 => first <= m.blockStart
    <3>1. first = IF rest # {} THEN Ack!Min(rest) ELSE IF m.blockStart = 0 THEN 1 + m.count ELSE m.blockStart
      BY MemoryAssumption DEF Ack!FirstPending
    <3>2. CASE rest # {}
      <4>. HIDE DEF rest, first
      <4>1. Min(rest) \in rest /\ \A t \in rest : Min(rest) <= t
        BY <2>3, <3>2, MinExists
      <4>2. Ack!Min(rest) = Min(rest)
        BY DEF Ack!Min, Min
      <4>3. first \in rest /\ \A t \in rest : first <= t
        BY <3>1, <3>2, <4>1, <4>2
      <4>4. first \in Nat /\ first <= m.count /\ (m.blockStart # 0 => first < m.blockStart)
        BY <2>3, <4>3
      <4>5. first <= m.count + 1 /\ (m.blockStart # 0 => first <= m.blockStart)
        BY <1>1, <4>4
      <4>. QED  BY <4>3, <4>4, <4>5
    <3>3. CASE rest = {}
      <4>1. first = IF m.blockStart = 0 THEN 1 + m.count ELSE m.blockStart
        BY <3>1, <3>3
      <4>. HIDE DEF rest, first
      <4>. QED  BY <1>1, <1>2, <3>3, <4>1
    <3>. QED  BY <3>2, <3>3
  <2>. HIDE DEF new, rest, marks1, first
  <2>5. new \in Members
    BY <1>1, <2>2, <2>3, <2>4 DEF Members
  <2>6. Ordered(new)
    <3>1. /\ new.count = m.count /\ new.first = first /\ new.nonAck = rest
          /\ new.blockStart = m.blockStart /\ new.blockEnd = m.blockEnd
      BY <2>2
    <3>. QED  BY <1>2, <2>3, <2>4, <3>1 DEF Ordered
  <2>. QED  BY <2>5, <2>6 DEF new
<1>. QED  BY <1>3, <1>4

\* What the store knows of its consumers.
Served ==
  /\ IsFiniteSet(DOMAIN consumers)
  /\ consumers \in [DOMAIN consumers -> [kind : Kinds, mem : Members]]
  /\ \A c \in DOMAIN consumers : consumers[c].kind = "durable" => Ordered(consumers[c].mem)

LEMMA NewIndexIs ==
  ASSUME NEW kind \in Kinds, store.count \in Nat
  PROVE  /\ NewIndex(kind) \in [kind : Kinds, mem : Members]
         /\ NewIndex(kind).kind = "durable" => Ordered(NewIndex(kind).mem)
<1>1. Base = 1
  BY MemoryAssumption
<1>2. CASE kind = "durable"
  <2>1. NewIndex(kind) = [kind |-> kind, mem |-> Ack!Fresh(Ack!NoFile, store.count)]
    BY <1>2 DEF NewIndex
  <2> DEFINE m == Ack!Fresh(Ack!NoFile, store.count)
  <2>2. Ack!FileLength(Ack!NoFile) = 0
    BY DEF Ack!FileLength, Ack!NoFile, Ack!NoHeader
  <2>3. m = [count |-> store.count, first |-> 1, nonAck |-> {}, redeliver |-> {},
             blockStart |-> IF store.count = 0 THEN 0 ELSE 1,
             blockEnd   |-> IF store.count = 0 THEN 0 ELSE store.count, len |-> 0]
    <3>1. store.count # 0 => Base + store.count - 1 = store.count
      BY <1>1
    <3>. QED  BY <1>1, <2>2, <3>1 DEF Ack!Fresh
  <2>. HIDE DEF m
  <2>4. m \in Members
    BY <2>3 DEF Members
  <2>5. Ordered(m)
    BY <2>3 DEF Ordered
  <2>. QED  BY <2>1, <2>4, <2>5 DEF m
<1>3. CASE kind # "durable"
  <2> DEFINE first == IF kind = "volatile" THEN Base + store.count ELSE 0
             m == [Ack!Closed EXCEPT !.first = first]
  <2>1. NewIndex(kind) = [kind |-> kind, mem |-> m]
    BY <1>3 DEF NewIndex
  <2>2. m = [count |-> 0, first |-> first, nonAck |-> {}, redeliver |-> {}, blockStart |-> 0, blockEnd |-> 0, len |-> 0]
    BY DEF Ack!Closed
  <2>3. first \in Nat
    BY <1>1
  <2>. HIDE DEF m, first
  <2>4. m \in Members
    BY <2>2, <2>3 DEF Members
  <2>5. NewIndex(kind).kind # "durable"
    BY <1>3, <2>1
  <2>. QED  BY <2>1, <2>4, <2>5
<1>. QED  BY <1>2, <1>3

\* Each consumer has its turn in each order.
LEMMA OrderIs ==
  ASSUME Served, NEW order \in Orders
  PROVE  /\ Len(order) \in Nat
         /\ \A k \in 1 .. Len(order) : order[k] \in DOMAIN consumers
         /\ \A c \in DOMAIN consumers : \E k \in 1 .. Len(order) : order[k] = c
<1> DEFINE D == DOMAIN consumers
           n == Cardinality(D)
<1>1. IsFiniteSet(D) /\ n \in Nat
  BY FS_CardinalityType DEF Served
<1>2. order \in [1 .. n -> D] /\ \A i, j \in 1 .. n : i # j => order[i] # order[j]
  BY DEF Orders, SetToSeqs
<1>. HIDE DEF D
<1>3. Len(order) = n
  BY <1>1, <1>2
<1>4. order \in Injection(1 .. n, D)
  BY <1>2 DEF Injection, IsInjective
<1>5. Cardinality(1 .. n) = n
  BY <1>1, FS_Interval
<1>6. order \in Surjection(1 .. n, D)
  BY <1>1, <1>4, <1>5, FS_Injection
<1>. QED  BY <1>1, <1>2, <1>3, <1>6 DEF Surjection, D

\* The minimum is not behind the first record of any consumer.
LEMMA MinIs ==
  ASSUME Served, store.count \in Nat, ackBase \in Nat, NEW order \in Orders
  PROVE  /\ getMinNonAckRecord(order) \in Nat
         /\ \/ getMinNonAckRecord(order) = 0
            \/ \A c \in DOMAIN consumers : getMinNonAckRecord(order) <= FirstOf(consumers[c])
<1> DEFINE n == Len(order)
           at(k) == FirstOf(consumers[order[k]])
           F == [x \in (1 .. n) \X Nat |-> Min({x[2], at(x[1])})]
           v == ackBase + store.count
           Is(g) == g = [k \in 0 .. n |-> IF k = 0 THEN v ELSE Min({g[k - 1], at(k)})]
           f == CHOOSE g : Is(g)
<1>1. /\ n \in Nat
      /\ \A k \in 1 .. n : order[k] \in DOMAIN consumers
      /\ \A c \in DOMAIN consumers : \E k \in 1 .. n : order[k] = c
      /\ v \in Nat
  BY OrderIs
<1>2. ASSUME NEW k \in 1 .. n PROVE at(k) \in Nat
  <2>1. consumers[order[k]] \in [kind : Kinds, mem : Members]
    BY <1>1 DEF Served
  <2>. QED  BY <2>1 DEF FirstOf, Ack!getFirstNonAckRecord, Members
<1>. HIDE DEF n, at, v
<1>3. F \in [(1 .. n) \X Nat -> Nat]
  <2>1. ASSUME NEW x \in (1 .. n) \X Nat PROVE Min({x[2], at(x[1])}) \in Nat
    <3>1. x[2] \in Nat /\ at(x[1]) \in Nat
      BY <1>2
    <3>2. Min({x[2], at(x[1])}) = IF x[2] <= at(x[1]) THEN x[2] ELSE at(x[1])
      BY <3>1, MinOfPair
    <3>. QED  BY <3>1, <3>2
  <2>. QED  BY <2>1
<1>4. PICK g : g \in [0 .. n -> Nat] /\ g[0] = v /\ \A k \in 1 .. n : g[k] = F[k, g[k - 1]]
  <2>. HIDE DEF F
  <2>1. \E g : IsRun(g, Nat, v, n, F)
    BY <1>1, <1>3, Recursion
  <2>. QED  BY <2>1 DEF IsRun
<1>5. Is(g)
  <2>1. ASSUME NEW k \in 0 .. n PROVE g[k] = IF k = 0 THEN v ELSE Min({g[k - 1], at(k)})
    <3>1. CASE k = 0
      BY <1>4, <3>1
    <3>2. CASE k # 0
      <4>1. k \in 1 .. n /\ k - 1 \in 0 .. n
        BY <1>1, <3>2
      <4>2. <<k, g[k - 1]>> \in (1 .. n) \X Nat
        BY <1>4, <4>1
      <4>3. g[k] = F[k, g[k - 1]]
        BY <1>4, <4>1
      <4>4. g[k] = Min({g[k - 1], at(k)})
        BY <4>2, <4>3
      <4>. QED  BY <3>2, <4>4
    <3>. QED  BY <3>1, <3>2
  <2>2. g = [k \in 0 .. n |-> g[k]]
    BY <1>4
  <2>. QED  BY <2>1, <2>2
<1>6. Is(f)
  BY <1>5
<1>7. getMinNonAckRecord(order) = IF order = <<>> THEN 0 ELSE f[n]
  BY DEF getMinNonAckRecord, n, at, v
<1>. HIDE DEF f
<1>8. f[0] = v /\ \A k \in 0 .. n - 1 : f[k + 1] = Min({f[k], at(k + 1)})
  <2>1. \A k \in 0 .. n : f[k] = IF k = 0 THEN v ELSE Min({f[k - 1], at(k)})
    BY <1>6
  <2>2. 0 \in 0 .. n
    BY <1>1
  <2>3. \A k \in 0 .. n - 1 : k + 1 \in 0 .. n /\ k + 1 # 0 /\ (k + 1) - 1 = k
    BY <1>1
  <2>. QED  BY <2>1, <2>2, <2>3
<1> DEFINE T == {k \in 0 .. n : f[k] \in Nat /\ \A j \in 1 .. k : f[k] <= at(j)}
<1>9. 0 \in T
  BY <1>1, <1>8
<1>10. ASSUME NEW k \in 0 .. n - 1, k \in T PROVE k + 1 \in T
  <2>1. f[k] \in Nat /\ \A j \in 1 .. k : f[k] <= at(j)
    BY <1>10
  <2>2. k + 1 \in 1 .. n /\ k + 1 \in 0 .. n /\ k \in Nat
    BY <1>1
  <2>3. at(k + 1) \in Nat
    BY <1>2, <2>2
  <2>4. f[k + 1] = IF f[k] <= at(k + 1) THEN f[k] ELSE at(k + 1)
    <3>1. f[k + 1] = Min({f[k], at(k + 1)})
      BY <1>8
    <3>2. Min({f[k], at(k + 1)}) = IF f[k] <= at(k + 1) THEN f[k] ELSE at(k + 1)
      BY <2>1, <2>3, MinOfPair
    <3>. QED  BY <3>1, <3>2
  <2>5. f[k + 1] \in Nat /\ f[k + 1] <= f[k] /\ f[k + 1] <= at(k + 1)
    BY <2>1, <2>3, <2>4
  <2>6. ASSUME NEW j \in 1 .. k + 1 PROVE f[k + 1] <= at(j)
    <3>1. CASE j = k + 1
      BY <2>5, <3>1
    <3>2. CASE j # k + 1
      <4>1. j \in 1 .. k /\ j \in 1 .. n
        BY <1>1, <2>2, <3>2
      <4>2. f[k] <= at(j) /\ at(j) \in Nat
        BY <1>2, <2>1, <4>1
      <4>. QED  BY <2>1, <2>5, <4>2
    <3>. QED  BY <3>1, <3>2
  <2>. QED  BY <2>2, <2>5, <2>6
<1>11. f[n] \in Nat /\ \A j \in 1 .. n : f[n] <= at(j)
  <2>. HIDE DEF T
  <2>1. \A k \in 0 .. n : k \in T
    BY <1>1, <1>9, <1>10, UpTo
  <2>2. n \in T
    BY <1>1, <2>1
  <2>. QED  BY <2>2 DEF T
<1>12. \A c \in DOMAIN consumers : f[n] <= FirstOf(consumers[c])
  <2>. TAKE c \in DOMAIN consumers
  <2>1. PICK k \in 1 .. n : order[k] = c
    BY <1>1
  <2>2. f[n] <= at(k) /\ at(k) = FirstOf(consumers[c])
    BY <1>11, <2>1 DEF at
  <2>. QED  BY <2>2
<1>. QED  BY <1>7, <1>11, <1>12

\* So nothing that a consumer owes goes.
LEMMA NothingOwedGoes ==
  ASSUME Served, Good(store), ackBase \in Nat, NEW order \in Orders, NEW size \in Nat
  PROVE  OwedBySome \cap (store.begin .. trimmed(store, size, getMinNonAckRecord(order)).begin - 1) = {}
<1> DEFINE min == getMinNonAckRecord(order)
           one == trimmed(store, size, min)
<1>1. store.count \in Nat /\ store.begin \in Nat /\ End(store) = store.count /\ Base = 1 /\ store.begin >= 1
  BY GoodIs, MemoryAssumption
<1>2. min \in Nat /\ (min = 0 \/ \A c \in DOMAIN consumers : min <= FirstOf(consumers[c]))
  BY <1>1, MinIs
<1>. HIDE DEF min
<1>3. Good(one) /\ (one.begin = store.begin \/ one.begin <= min)
  BY <1>2, TrimmedIs
<1>4. one.begin \in Nat
  BY <1>3, GoodIs
<1>. HIDE DEF one
<1>. SUFFICES ASSUME NEW s \in OwedBySome, s \in store.begin .. one.begin - 1 PROVE FALSE
  BY DEF one, min
<1>5. s \in Nat /\ store.begin <= s /\ s < one.begin
  BY <1>1, <1>4
<1>6. s < min /\ min # 0
  BY <1>1, <1>2, <1>3, <1>4, <1>5
<1>7. PICK c \in DOMAIN consumers : s \in Owed(consumers[c])
  BY DEF OwedBySome
<1> DEFINE m == consumers[c].mem
<1>8. consumers[c].kind = "durable" /\ s \in Ack!Pending(m) \cup (Base + m.count .. End(store))
  BY <1>7 DEF Owed
<1>9. m \in Members /\ Ordered(m)
  <2>1. consumers[c] \in [kind : Kinds, mem : Members]
    BY DEF Served
  <2>. QED  BY <1>8, <2>1 DEF Served
<1>10. min <= m.first
  BY <1>2, <1>6 DEF FirstOf, Ack!getFirstNonAckRecord
<1>. HIDE DEF m
<1>11. m.first <= s
  <2>1. m.count \in Nat /\ m.first \in Nat /\ m.blockStart \in Nat
    BY <1>9 DEF Members
  <2>2. CASE s \in m.nonAck
    BY <1>9, <2>2 DEF Ordered
  <2>3. CASE s \in Ack!Block(m)
    <3>1. m.blockStart # 0 /\ m.blockStart <= s
      BY <1>5, <2>3 DEF Ack!Block
    <3>2. m.first <= m.blockStart
      BY <1>9, <3>1 DEF Ordered
    <3>. QED  BY <1>5, <2>1, <3>1, <3>2
  <2>4. CASE s \in Base + m.count .. End(store)
    <3>1. m.count + 1 <= s
      BY <1>1, <1>5, <2>1, <2>4
    <3>2. m.first <= m.count + 1
      BY <1>9 DEF Ordered
    <3>. QED  BY <1>5, <2>1, <3>1, <3>2
  <2>. QED  BY <1>8, <2>2, <2>3, <2>4 DEF Ack!Pending
<1>12. m.first \in Nat
  BY <1>9 DEF Members
<1>. QED  BY <1>2, <1>5, <1>6, <1>10, <1>11, <1>12

-----------------------------------------------------------------------------
(* The invariant *)

\* A bit in a record's place is never without its sequence in the set, and what was marked
\* before it came is no longer awaited.
Noted(st, s) ==
  \A k \in 1 .. Len(st.index) :
    /\ DELETED \in st.index[k].attr => st.begin + k - 1 \in s.deleted
    /\ EXPIRED \in st.index[k].attr => st.begin + k - 1 \in s.expired
    /\ REMOTE \in st.index[k].attr => st.begin + k - 1 \in s.remote
    /\ st.begin + k - 1 \notin s.early

SetsOfMarks == [{"deleted", "early", "expired", "remote", "unready"} -> SUBSET AllSeqs]

Inv ==
  /\ ackBase \in Garbage
  /\ Good(store) /\ store.count <= MaxCount
  /\ Served
  /\ dropped = {}
  /\ sets \in SetsOfMarks
  /\ told \subseteq sets.deleted \cup sets.early
  /\ Noted(store, sets)

LEMMA InvIs ==
  ASSUME Inv
  PROVE  /\ ackBase \in Nat /\ Good(store) /\ store.count \in Nat /\ store.count <= MaxCount
         /\ End(store) = store.count /\ store.begin \in Nat /\ store.begin >= 1
         /\ Len(store.index) = store.count - store.begin + 1 /\ Len(store.index) \in Nat
         /\ AllSeqs = 1 .. MaxCount /\ MaxCount \in Nat /\ Known = 1 .. store.count /\ Base = 1
<1>1. Good(store) /\ ackBase \in Nat /\ store.count <= MaxCount
  BY MemoryAssumption DEF Inv
<1>2. Base = 1 /\ MaxCount \in Nat
  BY MemoryAssumption
<1>3. AllSeqs = 1 .. MaxCount
  BY <1>2 DEF AllSeqs
<1>4. /\ store.count \in Nat /\ End(store) = store.count /\ store.begin \in Nat /\ store.begin >= 1
      /\ Len(store.index) = store.count - store.begin + 1 /\ Len(store.index) \in Nat
  BY <1>1, GoodIs
<1>5. Known = 1 .. store.count
  BY <1>2, <1>4 DEF Known
<1>. QED  BY <1>1, <1>2, <1>3, <1>4, <1>5

LEMMA MarksOf ==
  ASSUME NEW s \in SetsOfMarks
  PROVE  /\ s = [d \in {"deleted", "early", "expired", "remote", "unready"} |-> s[d]]
         /\ s.deleted \subseteq AllSeqs /\ s.early \subseteq AllSeqs /\ s.expired \subseteq AllSeqs
         /\ s.remote \subseteq AllSeqs /\ s.unready \subseteq AllSeqs
BY DEF SetsOfMarks

LEMMA TailNoted ==
  ASSUME NEW new, NEW st, NEW s, Good(new), Good(st), IsTail(new, st), Noted(st, s)
  PROVE  Noted(new, s)
<1>1. new.begin \in Nat /\ st.begin \in Nat
  BY GoodIs
<1>2. ASSUME NEW k \in 1 .. Len(new.index)
      PROVE  \E j \in 1 .. Len(st.index) : new.index[k] = st.index[j] /\ new.begin + k - 1 = st.begin + j - 1
  <2>1. (new.begin - st.begin) + k \in 1 .. Len(st.index) /\ new.index[k] = st.index[(new.begin - st.begin) + k]
    BY DEF IsTail
  <2>2. new.begin + k - 1 = st.begin + ((new.begin - st.begin) + k) - 1
    BY <1>1
  <2>. QED  BY <2>1, <2>2
<1>. QED  BY <1>2 DEF Noted

LEMMA EmptyIs ==
  Good(Empty) /\ Empty.count = 0 /\ Len(Empty.index) = 0
<1>1. Empty = [begin |-> 1, count |-> 0, index |-> <<>>, data |-> [first |-> 0, capacity |-> Capacity, bytes |-> <<>>]]
  BY MemoryAssumption DEF Empty
<1> DEFINE d == [first |-> 0, capacity |-> Capacity, bytes |-> <<>>]
           ix == <<>>
<1>2. d \in Buffers /\ d.first = 0 /\ d.capacity = Capacity /\ d.bytes = <<>>
  BY MemoryAssumption DEF Buffers
<1>3. ix \in Seq(Places) /\ Len(ix) = 0
  OBVIOUS
<1>4. Summed(ix)[0] = 0
  BY <1>3, SummedIs
<1>5. Size(d) = 0
  BY <1>2 DEF Size
<1>6. Capacity \in Capacity .. MaxSize /\ Capacity \in Nat /\ MaxSize \in Nat
  BY MemoryAssumption
<1>. HIDE DEF d, ix
<1> DEFINE e == [begin |-> 1, count |-> 0, index |-> ix, data |-> d]
<1>7. e \in Stores
  BY <1>2, <1>3 DEF Stores
<1>8. Empty = e
  BY <1>1 DEF e, d, ix
<1>9. Empty.begin = 1 /\ Empty.count = 0 /\ Empty.index = ix /\ Empty.data = d
  BY <1>8 DEF e
<1>. HIDE DEF e
<1>10. End(Empty) = 0 /\ Base = 1
  BY <1>9, MemoryAssumption DEF End
<1>11. Fits(Empty)
  BY <1>2, <1>3, <1>4, <1>5, <1>6, <1>9, <1>10 DEF Fits
<1>12. Lies(Empty)
  BY <1>3, <1>9 DEF Lies
<1>. QED  BY <1>3, <1>7, <1>8, <1>9, <1>11, <1>12 DEF Good

LEMMA InitInv == Init => Inv
<1>. SUFFICES ASSUME Init PROVE Inv
  OBVIOUS
<1>1. store = Empty /\ ackBase \in Garbage /\ consumers = <<>> /\ told = {} /\ dropped = {}
  BY DEF Init
<1>2. Good(store) /\ store.count <= MaxCount /\ Len(store.index) = 0
  BY <1>1, EmptyIs, MemoryAssumption
<1>3. Served
  <2>1. DOMAIN consumers = {}
    BY <1>1
  <2>2. IsFiniteSet(DOMAIN consumers)
    BY <2>1, FS_EmptySet
  <2>3. consumers \in [DOMAIN consumers -> [kind : Kinds, mem : Members]]
    BY <1>1, <2>1
  <2>. QED  BY <2>1, <2>2, <2>3 DEF Served
<1>4. sets \in SetsOfMarks /\ told \subseteq sets.deleted \cup sets.early
  <2>1. sets = [deleted |-> {}, early |-> {}, expired |-> {}, remote |-> {}, unready |-> {}]
    BY DEF Init
  <2>2. {} \in SUBSET AllSeqs
    OBVIOUS
  <2>. QED  BY <1>1, <2>1, <2>2 DEF SetsOfMarks
<1>5. Noted(store, sets)
  BY <1>2 DEF Noted
<1>. QED  BY <1>1, <1>2, <1>3, <1>4, <1>5 DEF Inv

-----------------------------------------------------------------------------
(* Each operation keeps the invariant *)

LEMMA NoteIs ==
  ASSUME Inv, NEW s \in AllSeqs, NEW attr
  PROVE  /\ note(s, attr) \in SetsOfMarks
         /\ note(s, attr).deleted = IF DELETED \in attr \/ s \in sets.early THEN sets.deleted \cup {s} ELSE sets.deleted
         /\ note(s, attr).remote = IF REMOTE \in attr THEN sets.remote \cup {s} ELSE sets.remote
         /\ note(s, attr).early = sets.early \ {s}
         /\ note(s, attr).expired = sets.expired
<1>1. sets \in SetsOfMarks
  BY DEF Inv
<1> DEFINE del == IF DELETED \in attr \/ s \in sets.early THEN sets.deleted \cup {s} ELSE sets.deleted
           rem == IF REMOTE \in attr THEN sets.remote \cup {s} ELSE sets.remote
           one == [sets EXCEPT !.deleted = del]
           two == [one EXCEPT !.remote = rem]
           three == [two EXCEPT !.early = sets.early \ {s}]
<1>2. del \in SUBSET AllSeqs /\ rem \in SUBSET AllSeqs /\ sets.early \ {s} \in SUBSET AllSeqs
  BY <1>1, MarksOf
<1>3. note(s, attr) = three
  BY <1>1 DEF note, SetsOfMarks
<1>. HIDE DEF del, rem
<1>4. /\ one \in SetsOfMarks /\ one.deleted = del /\ one.remote = sets.remote /\ one.early = sets.early
      /\ one.expired = sets.expired
  BY <1>1, <1>2 DEF SetsOfMarks
<1>. HIDE DEF one
<1>5. /\ two \in SetsOfMarks /\ two.deleted = del /\ two.remote = rem /\ two.early = sets.early
      /\ two.expired = sets.expired
  BY <1>2, <1>4 DEF SetsOfMarks
<1>. HIDE DEF two
<1>6. /\ three \in SetsOfMarks /\ three.deleted = del /\ three.remote = rem /\ three.early = sets.early \ {s}
      /\ three.expired = sets.expired
  BY <1>2, <1>5 DEF SetsOfMarks
<1>. HIDE DEF three
<1>. QED  BY <1>3, <1>6 DEF del, rem

\* A record comes: it is marked as what it is, or as deleted before.
LEMMA AddInv ==
  ASSUME Inv, NEW r \in Records, Add(r.size, r.attr)
  PROVE  Inv'
<1> DEFINE size == r.size
           s == store.count + 1
           attr == attribute(s, r.attr)
<1>1. size \in 1 .. MaxSize /\ size \in Nat /\ r.attr \in SUBSET {DELETED, REMOTE}
  BY MemoryAssumption DEF DELETED, REMOTE
<1>2. /\ Good(store) /\ ackBase \in Nat /\ store.count \in Nat /\ End(store) = store.count /\ Served
      /\ AllSeqs = 1 .. MaxCount /\ MaxCount \in Nat
  BY InvIs DEF Inv
<1>3. PICK order \in Orders :
        LET one == trimmed(store, size, getMinNonAckRecord(order))
            two == halved(one, size)
        IN /\ \E three \in rooms(two, size) : store' = Stored(three, size, attribute(End(store) + 1, r.attr))
           /\ dropped' = dropped \cup (OwedBySome \cap (store.begin .. one.begin - 1))
  BY DEF Add
<1> DEFINE one == trimmed(store, size, getMinNonAckRecord(order))
           two == halved(one, size)
<1>4. PICK three \in rooms(two, size) : store' = Stored(three, size, attr)
  BY <1>2, <1>3
<1>5. dropped' = dropped
  <2>1. OwedBySome \cap (store.begin .. one.begin - 1) = {}
    BY <1>1, <1>2, NothingOwedGoes
  <2>2. dropped' = dropped \cup (OwedBySome \cap (store.begin .. one.begin - 1))
    BY <1>3
  <2>. QED  BY <2>1, <2>2
<1>6. /\ sets' = note(s, r.attr) /\ store.count < MaxCount
      /\ ackBase' = ackBase /\ consumers' = consumers /\ told' = told
  BY <1>2 DEF Add, once
<1>7. Good(one) /\ IsTail(one, store)
  <2>1. getMinNonAckRecord(order) \in Nat
    BY <1>2, MinIs
  <2>. QED  BY <1>1, <1>2, <2>1, TrimmedIs
<1>. HIDE DEF one
<1>8. Good(two) /\ IsTail(two, one) /\ size + Size(two.data) <= MaxSize
  BY <1>1, <1>7, HalvedIs
<1>. HIDE DEF two
<1>9. IsTail(two, store) /\ two.count = store.count
  <2>1. IsTail(two, store)
    BY <1>2, <1>7, <1>8, TailOfTail
  <2>. QED  BY <2>1 DEF IsTail
<1>10. /\ Good(three) /\ three.begin = two.begin /\ three.count = two.count
       /\ Len(three.index) = Len(two.index)
       /\ \A k \in 1 .. Len(two.index) : three.index[k].attr = two.index[k].attr
       /\ size + Size(three.data) <= three.data.capacity
  BY <1>1, <1>4, <1>8, RoomsAre
<1>11. attr \in SUBSET {DELETED, REMOTE, EXPIRED}
  BY <1>1 DEF attribute
<1>. HIDE DEF attr
<1>12. /\ Good(store') /\ store'.begin = three.begin /\ store'.count = s
       /\ Len(store'.index) = Len(three.index) + 1
       /\ \A k \in 1 .. Len(three.index) : store'.index[k] = three.index[k]
       /\ store'.index[Len(three.index) + 1].attr = attr
  BY <1>1, <1>4, <1>6, <1>9, <1>10, <1>11, StoredGood
<1>13. s \in AllSeqs /\ s <= MaxCount
  BY <1>2, <1>6
<1>14. /\ sets' \in SetsOfMarks
       /\ sets'.deleted = IF DELETED \in r.attr \/ s \in sets.early THEN sets.deleted \cup {s} ELSE sets.deleted
       /\ sets'.remote = IF REMOTE \in r.attr THEN sets.remote \cup {s} ELSE sets.remote
       /\ sets'.early = sets.early \ {s}
       /\ sets'.expired = sets.expired
  BY <1>6, <1>13, NoteIs
<1>15. told' \subseteq sets'.deleted \cup sets'.early
  <2>1. told \subseteq sets.deleted \cup sets.early
    BY DEF Inv
  <2>. QED  BY <1>6, <1>14, <2>1
<1>16. Noted(two, sets)
  BY <1>2, <1>8, <1>9, TailNoted DEF Inv
<1>17. Noted(store', sets')
  <2>1. /\ Len(two.index) \in Nat /\ two.begin \in Nat /\ Len(two.index) = two.count - two.begin + 1
    BY <1>8, GoodIs
  <2>2. /\ Len(store'.index) = Len(two.index) + 1 /\ store'.begin = two.begin
        /\ store'.begin + (Len(two.index) + 1) - 1 = s
    BY <1>2, <1>9, <1>10, <1>12, <2>1
  <2> DEFINE At1(k) == store'.begin + k - 1
  <2>3. ASSUME NEW k \in 1 .. Len(store'.index)
        PROVE  /\ DELETED \in store'.index[k].attr => At1(k) \in sets'.deleted
               /\ EXPIRED \in store'.index[k].attr => At1(k) \in sets'.expired
               /\ REMOTE \in store'.index[k].attr => At1(k) \in sets'.remote
               /\ At1(k) \notin sets'.early
    <3>1. CASE k = Len(two.index) + 1
      <4>1. At1(k) = s
        BY <2>1, <2>2, <3>1
      <4>2. store'.index[k].attr = attr
        BY <1>10, <1>12, <3>1
      <4>3. /\ DELETED \in attr => DELETED \in r.attr \/ s \in sets.early
            /\ EXPIRED \notin attr
            /\ REMOTE \in attr => REMOTE \in r.attr
        BY <1>1 DEF attr, attribute, DELETED, EXPIRED, REMOTE
      <4>. HIDE DEF At1
      <4>. QED  BY <1>14, <4>1, <4>2, <4>3
    <3>2. CASE k # Len(two.index) + 1
      <4>1. k \in 1 .. Len(two.index) /\ k \in 1 .. Len(three.index)
        BY <1>10, <2>1, <2>2, <3>2
      <4>2. store'.index[k].attr = two.index[k].attr
        BY <1>10, <1>12, <4>1
      <4>3. At1(k) = two.begin + k - 1
        BY <2>2
      <4>4. /\ DELETED \in two.index[k].attr => two.begin + k - 1 \in sets.deleted
            /\ EXPIRED \in two.index[k].attr => two.begin + k - 1 \in sets.expired
            /\ REMOTE \in two.index[k].attr => two.begin + k - 1 \in sets.remote
            /\ two.begin + k - 1 \notin sets.early
        BY <1>16, <4>1 DEF Noted
      <4>. HIDE DEF At1
      <4>. QED  BY <1>14, <4>2, <4>3, <4>4
    <3>. QED  BY <3>1, <3>2
  <2>. QED  BY <2>3 DEF Noted
<1>18. Served'
  BY <1>2, <1>6 DEF Served
<1>19. ackBase' \in Garbage /\ dropped' = {}
  BY <1>5, <1>6 DEF Inv
<1>20. store'.count <= MaxCount
  BY <1>12, <1>13
<1>. QED  BY <1>12, <1>14, <1>15, <1>17, <1>18, <1>19, <1>20 DEF Inv

\* A new beginning: the records before it go, and none is there when it is behind the last.
LEMMA SetNewBeginInv ==
  ASSUME Inv, NEW s \in AllSeqs, setNewBeginSequence(s)
  PROVE  Inv'
<1>1. /\ Good(store) /\ store.count \in Nat /\ End(store) = store.count /\ store.begin \in Nat
      /\ AllSeqs = 1 .. MaxCount /\ MaxCount \in Nat /\ store.count <= MaxCount
  BY InvIs
<1>2. s \in Nat /\ s > store.begin /\ s - 1 <= MaxCount /\ s - 1 \in Int
  BY <1>1 DEF setNewBeginSequence
<1>3. /\ ackBase' = ackBase /\ sets' = sets /\ consumers' = consumers /\ told' = told /\ dropped' = dropped
  BY DEF setNewBeginSequence, once
<1>4. Good(store') /\ store'.count <= MaxCount /\ Noted(store', sets)
  <2>1. CASE store.count < s - 1
    <3>1. store' = [[deleteRecord(store, store.count) EXCEPT !.count = s - 1] EXCEPT !.begin = s]
      BY <2>1 DEF setNewBeginSequence
    <3>2. Good(store') /\ store'.count = s - 1 /\ Len(store'.index) = 0
      BY <1>1, <1>2, <2>1, <3>1, SkippedGood
    <3>3. Noted(store', sets)
      BY <3>2 DEF Noted
    <3>. QED  BY <1>2, <3>2, <3>3
  <2>2. CASE ~ (store.count < s - 1)
    <3> DEFINE new == deleteRecord(store, s - 1)
    <3>1. store' = [new EXCEPT !.begin = s]
      BY <2>2 DEF setNewBeginSequence
    <3>2. Good(new) /\ IsTail(new, store) /\ new.begin = store.begin + Gone(store, s - 1)
      BY <1>1, <1>2, DeletedIsTail
    <3>3. Gone(store, s - 1) = s - store.begin
      BY <1>1, <1>2, <2>2 DEF Gone
    <3>. HIDE DEF new
    <3>4. new.begin = s
      BY <1>1, <1>2, <3>2, <3>3
    <3>5. new = [begin |-> new.begin, count |-> new.count, index |-> new.index, data |-> new.data]
      <4>1. new \in Stores
        BY <3>2, GoodIs
      <4>. QED  BY <4>1, StoreIs
    <3>6. store' = new
      BY <3>1, <3>4, <3>5
    <3>7. Noted(store, sets)
      BY DEF Inv
    <3>8. Noted(store', sets)
      BY <1>1, <3>2, <3>6, <3>7, TailNoted
    <3>9. new.count = store.count
      BY <3>2 DEF IsTail
    <3>. QED  BY <1>1, <3>2, <3>6, <3>8, <3>9
  <2>. QED  BY <2>1, <2>2
<1>5. Served'
  BY <1>3 DEF Inv, Served
<1>. QED  BY <1>3, <1>4, <1>5 DEF Inv

\* What a change of one consumer leaves as it was.
LEMMA OthersInv ==
  ASSUME Inv, UNCHANGED <<once, store, sets, told, dropped>>, Served'
  PROVE  Inv'
<1>1. ackBase' = ackBase /\ store' = store /\ sets' = sets /\ told' = told /\ dropped' = dropped
  BY DEF once
<1>. QED  BY <1>1 DEF Inv

LEMMA AddIndexInv ==
  ASSUME Inv, NEW n \in Names, NEW kind \in Kinds, NEW e \in BOOLEAN, addAckIndexFile(n, kind, e)
  PROVE  Inv'
<1> DEFINE new == NewIndex(kind)
<1>1. consumers' = [c \in DOMAIN consumers \cup {n} |-> IF c = n THEN new ELSE consumers[c]]
  BY DEF addAckIndexFile
<1>2. Served /\ store.count \in Nat
  BY InvIs DEF Inv
<1>3. new \in [kind : Kinds, mem : Members] /\ (new.kind = "durable" => Ordered(new.mem))
  BY <1>2, NewIndexIs
<1>. HIDE DEF new
<1>5. DOMAIN consumers' = DOMAIN consumers \cup {n}
  BY <1>1
<1>6. IsFiniteSet(DOMAIN consumers')
  <2>1. IsFiniteSet(DOMAIN consumers \cup {n})
    BY <1>2, FS_AddElement DEF Served
  <2>. QED  BY <1>5, <2>1
<1>7. ASSUME NEW c \in DOMAIN consumers'
      PROVE  /\ consumers'[c] \in [kind : Kinds, mem : Members]
             /\ consumers'[c].kind = "durable" => Ordered(consumers'[c].mem)
  <2>1. CASE c = n
    <3>1. consumers'[c] = new
      BY <1>1, <1>5, <2>1
    <3>. QED  BY <1>3, <3>1
  <2>2. CASE c # n
    <3>1. consumers'[c] = consumers[c] /\ c \in DOMAIN consumers
      BY <1>1, <1>5, <2>2
    <3>2. consumers[c] \in [kind : Kinds, mem : Members]
      BY <1>2, <3>1 DEF Served
    <3>3. consumers[c].kind = "durable" => Ordered(consumers[c].mem)
      BY <1>2, <3>1 DEF Served
    <3>. QED  BY <3>1, <3>2, <3>3
  <2>. QED  BY <2>1, <2>2
<1>8. consumers' \in [DOMAIN consumers' -> [kind : Kinds, mem : Members]]
  <2>1. consumers' = [c \in DOMAIN consumers' |-> consumers'[c]]
    BY <1>1, <1>5
  <2>. QED  BY <1>7, <2>1
<1>9. Served'
  BY <1>6, <1>7, <1>8 DEF Served
<1>10. UNCHANGED <<once, store, sets, told, dropped>>
  BY DEF addAckIndexFile
<1>. QED  BY <1>9, <1>10, OthersInv

LEMMA TellInv ==
  ASSUME Inv, NEW n \in Durable, NEW m \in Members, Ordered(m), Tell(n, m)
  PROVE  Inv'
<1> DEFINE mem == [m EXCEPT !.len = 0]
           new == [consumers[n] EXCEPT !.mem = mem]
           rest == DOMAIN consumers
<1>1. mem \in Members /\ Ordered(mem)
  <2>1. mem \in Members
    BY DEF Members
  <2>2. /\ mem.first = m.first /\ mem.count = m.count /\ mem.nonAck = m.nonAck
        /\ mem.blockStart = m.blockStart /\ mem.blockEnd = m.blockEnd
    BY DEF Members
  <2>. HIDE DEF mem
  <2>. QED  BY <2>1, <2>2 DEF Ordered
<1>. HIDE DEF mem
<1>2. Served
  BY DEF Inv
<1>3. n \in rest /\ consumers[n] \in [kind : Kinds, mem : Members]
  BY <1>2 DEF Durable, Served
<1>4. new \in [kind : Kinds, mem : Members] /\ new.mem = mem
  BY <1>1, <1>3
<1>5. consumers' = [consumers EXCEPT ![n] = new]
  BY DEF Tell, mem
<1>6. consumers' = [c \in rest |-> IF c = n THEN new ELSE consumers[c]]
  <2>1. consumers = [c \in rest |-> consumers[c]]
    BY <1>2 DEF Served
  <2>. QED  BY <1>3, <1>5, <2>1
<1>. HIDE DEF new
<1>7. DOMAIN consumers' = rest
  BY <1>6
<1>8. ASSUME NEW c \in rest
      PROVE  /\ consumers'[c] \in [kind : Kinds, mem : Members]
             /\ consumers'[c].kind = "durable" => Ordered(consumers'[c].mem)
  <2>1. CASE c = n
    BY <1>1, <1>4, <1>6, <2>1
  <2>2. CASE c # n
    <3>1. consumers'[c] = consumers[c]
      BY <1>6, <2>2
    <3>2. consumers[c] \in [kind : Kinds, mem : Members]
      BY <1>2 DEF Served
    <3>3. consumers[c].kind = "durable" => Ordered(consumers[c].mem)
      BY <1>2 DEF Served
    <3>. QED  BY <3>1, <3>2, <3>3
  <2>. QED  BY <2>1, <2>2
<1>9. consumers' \in [rest -> [kind : Kinds, mem : Members]]
  BY <1>6, <1>8
<1>10. Served'
  BY <1>2, <1>7, <1>8, <1>9 DEF Served
<1>11. UNCHANGED <<once, store, sets, told, dropped>>
  BY DEF Tell
<1>. QED  BY <1>10, <1>11, OthersInv

LEMMA MemIs ==
  ASSUME Inv, NEW n \in Durable
  PROVE  consumers[n].mem \in Members /\ Ordered(consumers[n].mem)
<1>1. n \in DOMAIN consumers /\ consumers[n].kind = "durable" /\ Served
  BY DEF Durable, Inv
<1>2. consumers[n] \in [kind : Kinds, mem : Members]
  BY <1>1 DEF Served
<1>3. Ordered(consumers[n].mem)
  BY <1>1 DEF Served
<1>. QED  BY <1>2, <1>3

LEMMA AckRecordInv ==
  ASSUME Inv, NEW n \in Names, NEW s \in AllSeqs, ackRecord(n, s)
  PROVE  Inv'
<1> DEFINE m == consumers[n].mem
<1>1. n \in Durable /\ s \in Nat /\ s >= 1
  BY InvIs DEF ackRecord
<1>2. m \in Members /\ Ordered(m)
  BY <1>1, MemIs
<1>3. Tell(n, Ack!AckMem(Ack!Grown(m, s), s))
  BY DEF ackRecord
<1>. HIDE DEF m
<1>4. Ack!Grown(m, s) \in Members /\ Ordered(Ack!Grown(m, s))
  BY <1>1, <1>2, AckAdds
<1>5. Ack!AckMem(Ack!Grown(m, s), s) \in Members /\ Ordered(Ack!AckMem(Ack!Grown(m, s), s))
  BY <1>1, <1>4, AckAcks
<1>. QED  BY <1>1, <1>3, <1>5, TellInv

LEMMA AddAckRecordInv ==
  ASSUME Inv, NEW n \in Names, NEW s \in AllSeqs, addAckRecordToSequence(n, s)
  PROVE  Inv'
<1> DEFINE m == consumers[n].mem
<1>1. n \in Durable /\ s \in Nat /\ s >= 1
  BY InvIs DEF addAckRecordToSequence
<1>2. m \in Members /\ Ordered(m)
  BY <1>1, MemIs
<1>3. Tell(n, Ack!AddMem(m, s))
  BY DEF addAckRecordToSequence
<1>. HIDE DEF m
<1>4. Ack!AddMem(m, s) \in Members /\ Ordered(Ack!AddMem(m, s))
  <2>1. CASE Ack!IsNew(m, s)
    <3>1. Ack!Grown(m, s) = Ack!AddMem(m, s)
      BY <2>1 DEF Ack!Grown
    <3>. QED  BY <1>1, <1>2, <3>1, AckAdds
  <2>2. CASE ~ Ack!IsNew(m, s)
    <3> DEFINE l == Ack!Larger(m.len, Ack!CountFor(s))
    <3>1. Ack!AddMem(m, s) = [m EXCEPT !.len = l]
      BY <2>2 DEF Ack!AddMem
    <3>2. l \in Int
      BY <1>1, <1>2, MemoryAssumption DEF Ack!Larger, Ack!CountFor, Members
    <3>. HIDE DEF l
    <3> DEFINE new == [m EXCEPT !.len = l]
    <3>3. /\ new \in Members
          /\ new.first = m.first /\ new.count = m.count /\ new.nonAck = m.nonAck
          /\ new.blockStart = m.blockStart /\ new.blockEnd = m.blockEnd
      BY <1>2, <3>2 DEF Members
    <3>. HIDE DEF new
    <3>4. Ordered(new)
      BY <1>2, <3>3 DEF Ordered
    <3>. QED  BY <3>1, <3>3, <3>4 DEF new
  <2>. QED  BY <2>1, <2>2
<1>. QED  BY <1>1, <1>3, <1>4, TellInv

\* A mark is the only attribute of the records it is written to.
LEMMA MarkIs ==
  ASSUME Inv, NEW a \in Int, NEW b \in Int, NEW mark \in {DELETED, EXPIRED}, NEW new \in markAttribute(a, b, mark)
  PROVE  /\ Good(new) /\ new.begin = store.begin /\ new.count = store.count
         /\ Len(new.index) = Len(store.index)
         /\ \A k \in 1 .. Len(store.index) :
              new.index[k].attr = IF store.begin + k - 1 \in a .. b THEN {mark} ELSE store.index[k].attr
<1> DEFINE ix == store.index
           jx == [k \in DOMAIN ix |-> IF store.begin + k - 1 \in a .. b THEN [ix[k] EXCEPT !.attr = {mark}] ELSE ix[k]]
<1>1. Good(store) /\ store.begin \in Nat /\ ix \in Seq(Places) /\ store \in Stores
  BY GoodIs DEF Inv
<1>2. new = [store EXCEPT !.index = jx]
  BY DEF markAttribute
<1>3. DOMAIN ix = 1 .. Len(ix) /\ Len(ix) \in Nat
  BY <1>1
<1>4. ASSUME NEW k \in 1 .. Len(ix)
      PROVE  /\ jx[k] \in Places /\ jx[k].len = ix[k].len /\ jx[k].start = ix[k].start
             /\ jx[k].attr = IF store.begin + k - 1 \in a .. b THEN {mark} ELSE ix[k].attr
  <2>1. ix[k] \in Places /\ jx[k] = IF store.begin + k - 1 \in a .. b THEN [ix[k] EXCEPT !.attr = {mark}] ELSE ix[k]
    BY <1>1, <1>3, PlaceIs
  <2> DEFINE q == [ix[k] EXCEPT !.attr = {mark}]
  <2>2. q \in Places /\ q.len = ix[k].len /\ q.start = ix[k].start /\ q.attr = {mark}
    BY <2>1 DEF Places
  <2>. HIDE DEF q, jx
  <2>3. CASE store.begin + k - 1 \in a .. b
    <3>1. jx[k] = q
      BY <2>1, <2>3 DEF q
    <3>. QED  BY <2>2, <2>3, <3>1
  <2>4. CASE store.begin + k - 1 \notin a .. b
    <3>1. jx[k] = ix[k]
      BY <2>1, <2>4
    <3>. QED  BY <2>1, <2>4, <3>1
  <2>. QED  BY <2>3, <2>4
<1>5. jx \in Seq(Places) /\ Len(jx) = Len(ix)
  <2>1. jx = [k \in 1 .. Len(ix) |-> jx[k]]
    BY <1>3
  <2>. HIDE DEF jx
  <2>2. jx \in [1 .. Len(ix) -> Places]
    BY <1>4, <2>1
  <2>. QED  BY <1>3, <2>2
<1>. HIDE DEF jx
<1>6. Good(new) /\ new.begin = store.begin /\ new.count = store.count /\ new.index = jx
  <2>1. \A k \in 1 .. Len(jx) : jx[k].len = store.index[k].len /\ jx[k].start = store.index[k].start
    BY <1>4, <1>5
  <2>. QED  BY <1>1, <1>2, <1>5, <2>1, MarkedGood
<1>. QED  BY <1>4, <1>5, <1>6

\* What is to come is remembered; what is there has the mark, in its place and in the set.
LEMMA MarkDeletedInv ==
  ASSUME Inv, NEW a \in AllSeqs, NEW b \in AllSeqs, markDeleted(a, b)
  PROVE  Inv'
<1> DEFINE n == store.count
           last == Min({b, End(store)})
           early == Max({a, End(store) + 1}) .. b
           here == IF a > End(store) THEN {} ELSE a .. last
<1>1. /\ n \in Nat /\ n <= MaxCount /\ MaxCount \in Nat /\ AllSeqs = 1 .. MaxCount /\ End(store) = n
      /\ store.begin \in Nat /\ Len(store.index) = n - store.begin + 1 /\ store.begin >= 1
  BY InvIs
<1>2. a \in Nat /\ b \in Nat /\ a >= 1 /\ b <= MaxCount
  BY <1>1
<1>3. last = IF b <= n THEN b ELSE n
  BY <1>1, <1>2, MinOfPair
<1>4. early = (IF a >= n + 1 THEN a ELSE n + 1) .. b
  <2>1. n + 1 \in Int /\ a \in Int
    BY <1>1, <1>2
  <2>2. Max({a, n + 1}) = IF a >= n + 1 THEN a ELSE n + 1
    BY <2>1, MaxOfPair, Zenon
  <2>. QED  BY <1>1, <2>2
<1>5. here = IF a > n THEN {} ELSE a .. last
  BY <1>1
<1>6. /\ ackBase' = ackBase /\ consumers' = consumers /\ dropped' = dropped
      /\ told' = told \cup (a .. b)
      /\ IF here = {} THEN store' = store ELSE store' \in markAttribute(a, last, DELETED)
  BY DEF markDeleted, Counted, once
<1>7. sets' = [sets EXCEPT !.early = @ \cup early, !.deleted = @ \cup here]
  BY DEF markDeleted
<1>. HIDE DEF last, early, here
<1>8. early \subseteq AllSeqs /\ here \subseteq AllSeqs /\ a .. b \subseteq early \cup here
  <2>1. early \subseteq AllSeqs
    BY <1>1, <1>2, <1>4
  <2>2. here \subseteq AllSeqs
    BY <1>1, <1>2, <1>3, <1>5
  <2>3. a .. b \subseteq early \cup here
    BY <1>1, <1>2, <1>3, <1>4, <1>5
  <2>. QED  BY <2>1, <2>2, <2>3
<1>9. /\ sets' \in SetsOfMarks
      /\ sets'.early = sets.early \cup early /\ sets'.deleted = sets.deleted \cup here
      /\ sets'.expired = sets.expired /\ sets'.remote = sets.remote
  <2> DEFINE one == [sets EXCEPT !.early = sets.early \cup early]
             two == [one EXCEPT !.deleted = sets.deleted \cup here]
  <2>1. sets \in SetsOfMarks
    BY DEF Inv
  <2>2. sets.early \cup early \in SUBSET AllSeqs /\ sets.deleted \cup here \in SUBSET AllSeqs
    BY <1>8, <2>1, MarksOf
  <2>3. sets' = two
    BY <1>7, <2>1 DEF SetsOfMarks
  <2>4. /\ one \in SetsOfMarks /\ one.early = sets.early \cup early /\ one.deleted = sets.deleted
        /\ one.expired = sets.expired /\ one.remote = sets.remote
    BY <2>1, <2>2 DEF SetsOfMarks
  <2>. HIDE DEF one
  <2>5. /\ two \in SetsOfMarks /\ two.early = one.early /\ two.deleted = sets.deleted \cup here
        /\ two.expired = one.expired /\ two.remote = one.remote
    BY <2>2, <2>4 DEF SetsOfMarks
  <2>. HIDE DEF two
  <2>. QED  BY <2>3, <2>4, <2>5
<1>10. told' \subseteq sets'.deleted \cup sets'.early
  <2>1. told \subseteq sets.deleted \cup sets.early
    BY DEF Inv
  <2>. QED  BY <1>6, <1>8, <1>9, <2>1
<1>11. /\ Good(store') /\ store'.begin = store.begin /\ store'.count = n
       /\ Len(store'.index) = Len(store.index)
       /\ \A k \in 1 .. Len(store.index) :
            store'.index[k].attr = store.index[k].attr
            \/ (store'.index[k].attr = {DELETED} /\ store.begin + k - 1 \in here)
  <2>1. CASE here = {}
    <3>1. store' = store /\ Good(store)
      BY <1>6, <2>1 DEF Inv
    <3>. QED  BY <3>1
  <2>2. CASE here # {}
    <3>1. here = a .. last /\ last \in Int /\ a \in Int
      BY <1>1, <1>2, <1>3, <1>5, <2>2
    <3>2. store' \in markAttribute(a, last, DELETED)
      BY <1>6, <2>2
    <3>3. /\ Good(store') /\ store'.begin = store.begin /\ store'.count = store.count
          /\ Len(store'.index) = Len(store.index)
          /\ \A k \in 1 .. Len(store.index) :
               store'.index[k].attr = IF store.begin + k - 1 \in a .. last THEN {DELETED} ELSE store.index[k].attr
      BY <3>1, <3>2, MarkIs
    <3>. QED  BY <3>1, <3>3
  <2>. QED  BY <2>1, <2>2
<1>12. Noted(store', sets')
  <2>1. ASSUME NEW k \in 1 .. Len(store'.index)
        PROVE  /\ DELETED \in store'.index[k].attr => store'.begin + k - 1 \in sets'.deleted
               /\ EXPIRED \in store'.index[k].attr => store'.begin + k - 1 \in sets'.expired
               /\ REMOTE \in store'.index[k].attr => store'.begin + k - 1 \in sets'.remote
               /\ store'.begin + k - 1 \notin sets'.early
    <3> DEFINE s == store.begin + k - 1
    <3>1. k \in 1 .. Len(store.index) /\ store'.begin + k - 1 = s
      BY <1>11
    <3>2. s \notin early
      BY <1>1, <1>2, <1>4, <3>1
    <3>3. /\ DELETED \in store.index[k].attr => s \in sets.deleted
          /\ EXPIRED \in store.index[k].attr => s \in sets.expired
          /\ REMOTE \in store.index[k].attr => s \in sets.remote
          /\ s \notin sets.early
      BY <3>1 DEF Inv, Noted
    <3>4. \/ store'.index[k].attr = store.index[k].attr
          \/ store'.index[k].attr = {DELETED} /\ s \in here
      BY <1>11, <3>1
    <3>5. EXPIRED \notin {DELETED} /\ REMOTE \notin {DELETED}
      BY DEF EXPIRED, DELETED, REMOTE
    <3>. HIDE DEF s
    <3>. QED  BY <1>9, <3>1, <3>2, <3>3, <3>4, <3>5
  <2>. QED  BY <2>1 DEF Noted
<1>13. Served' /\ ackBase' \in Garbage /\ dropped' = {}
  BY <1>6 DEF Inv, Served
<1>. QED  BY <1>1, <1>9, <1>10, <1>11, <1>12, <1>13 DEF Inv

LEMMA MarkExpiredInv ==
  ASSUME Inv, NEW a \in AllSeqs, NEW b \in AllSeqs, markExpired(a, b)
  PROVE  Inv'
<1> DEFINE n == store.count
           last == Min({b, End(store)})
<1>1. /\ n \in Nat /\ n <= MaxCount /\ MaxCount \in Nat /\ AllSeqs = 1 .. MaxCount /\ End(store) = n
  BY InvIs
<1>2. a \in Nat /\ b \in Nat /\ a >= 1 /\ b <= MaxCount
  BY <1>1
<1>3. last = IF b <= n THEN b ELSE n
  BY <1>1, <1>2, MinOfPair
<1>4. /\ ackBase' = ackBase /\ consumers' = consumers /\ dropped' = dropped /\ told' = told
      /\ store' \in markAttribute(a, last, EXPIRED)
      /\ sets' = [sets EXCEPT !.expired = @ \cup (a .. last)]
  BY DEF markExpired, Counted, once
<1>. HIDE DEF last
<1>5. a .. last \subseteq AllSeqs /\ last \in Int /\ a \in Int
  BY <1>1, <1>2, <1>3
<1>6. /\ sets' \in SetsOfMarks
      /\ sets'.expired = sets.expired \cup (a .. last)
      /\ sets'.early = sets.early /\ sets'.deleted = sets.deleted /\ sets'.remote = sets.remote
  <2>1. sets \in SetsOfMarks
    BY DEF Inv
  <2>2. sets.expired \cup (a .. last) \in SUBSET AllSeqs
    BY <1>5, <2>1, MarksOf
  <2>. QED  BY <1>4, <2>1, <2>2 DEF SetsOfMarks
<1>7. /\ Good(store') /\ store'.begin = store.begin /\ store'.count = store.count
      /\ Len(store'.index) = Len(store.index)
      /\ \A k \in 1 .. Len(store.index) :
           store'.index[k].attr = IF store.begin + k - 1 \in a .. last THEN {EXPIRED} ELSE store.index[k].attr
  BY <1>4, <1>5, MarkIs
<1>8. Noted(store', sets')
  <2>1. ASSUME NEW k \in 1 .. Len(store'.index)
        PROVE  /\ DELETED \in store'.index[k].attr => store'.begin + k - 1 \in sets'.deleted
               /\ EXPIRED \in store'.index[k].attr => store'.begin + k - 1 \in sets'.expired
               /\ REMOTE \in store'.index[k].attr => store'.begin + k - 1 \in sets'.remote
               /\ store'.begin + k - 1 \notin sets'.early
    <3> DEFINE s == store.begin + k - 1
    <3>1. k \in 1 .. Len(store.index) /\ store'.begin + k - 1 = s
      BY <1>7
    <3>2. /\ DELETED \in store.index[k].attr => s \in sets.deleted
          /\ EXPIRED \in store.index[k].attr => s \in sets.expired
          /\ REMOTE \in store.index[k].attr => s \in sets.remote
          /\ s \notin sets.early
      BY <3>1 DEF Inv, Noted
    <3>3. store'.index[k].attr = IF s \in a .. last THEN {EXPIRED} ELSE store.index[k].attr
      BY <1>7, <3>1
    <3>4. DELETED \notin {EXPIRED} /\ REMOTE \notin {EXPIRED}
      BY DEF EXPIRED, DELETED, REMOTE
    <3>. HIDE DEF s
    <3>. QED  BY <1>6, <3>1, <3>2, <3>3, <3>4
  <2>. QED  BY <2>1 DEF Noted
<1>9. Served' /\ ackBase' \in Garbage /\ dropped' = {} /\ told' \subseteq sets'.deleted \cup sets'.early
  BY <1>4, <1>6 DEF Inv, Served
<1>. QED  BY <1>1, <1>6, <1>7, <1>8, <1>9 DEF Inv

\* Readiness is a set that nothing else depends on.
LEMMA ReadyInv ==
  ASSUME Inv, NEW ready \in SUBSET AllSeqs, sets' = [sets EXCEPT !.unready = ready],
         UNCHANGED <<once, store, consumers, told, dropped>>
  PROVE  Inv'
<1>1. sets \in SetsOfMarks
  BY DEF Inv
<1>2. /\ sets' \in SetsOfMarks
      /\ sets'.expired = sets.expired /\ sets'.early = sets.early
      /\ sets'.deleted = sets.deleted /\ sets'.remote = sets.remote
  BY <1>1 DEF SetsOfMarks
<1>3. ackBase' = ackBase /\ store' = store /\ consumers' = consumers /\ told' = told /\ dropped' = dropped
  BY DEF once
<1>4. Noted(store', sets')
  BY <1>2, <1>3 DEF Inv, Noted
<1>5. Served'
  BY <1>3 DEF Inv, Served
<1>. QED  BY <1>2, <1>3, <1>4, <1>5 DEF Inv

LEMMA StepInv == Inv /\ [Next]_vars => Inv'
<1>. SUFFICES ASSUME Inv, [Next]_vars PROVE Inv'
  OBVIOUS
<1>1. ASSUME NEW r \in Records, Add(r.size, r.attr) PROVE Inv'
  BY <1>1, AddInv
<1>2. ASSUME NEW s \in AllSeqs, setNewBeginSequence(s) PROVE Inv'
  BY <1>2, SetNewBeginInv
<1>3. ASSUME NEW n \in Names, NEW kind \in Kinds, NEW e \in BOOLEAN, addAckIndexFile(n, kind, e) PROVE Inv'
  BY <1>3, AddIndexInv
<1>4. ASSUME NEW n \in Names, NEW s \in AllSeqs, addAckRecordToSequence(n, s) PROVE Inv'
  BY <1>4, AddAckRecordInv
<1>5. ASSUME NEW n \in Names, NEW s \in AllSeqs, ackRecord(n, s) PROVE Inv'
  BY <1>5, AckRecordInv
<1>6. ASSUME NEW a \in AllSeqs, NEW b \in AllSeqs, markDeleted(a, b) PROVE Inv'
  BY <1>6, MarkDeletedInv
<1>7. ASSUME NEW a \in AllSeqs, NEW b \in AllSeqs, markExpired(a, b) PROVE Inv'
  BY <1>7, MarkExpiredInv
<1>8. ASSUME NEW s \in AllSeqs, setSequenceNotReady(s) PROVE Inv'
  <2>1. sets.unready \cup {s} \in SUBSET AllSeqs
    BY MarksOf DEF Inv
  <2>2. sets' = [sets EXCEPT !.unready = sets.unready \cup {s}] /\ UNCHANGED <<once, store, consumers, told, dropped>>
    BY <1>8 DEF setSequenceNotReady, Counted
  <2>. QED  BY <2>1, <2>2, ReadyInv
<1>9. ASSUME NEW s \in AllSeqs, setSequenceReady(s) PROVE Inv'
  <2>1. sets.unready \ {s} \in SUBSET AllSeqs
    BY MarksOf DEF Inv
  <2>2. sets' = [sets EXCEPT !.unready = sets.unready \ {s}] /\ UNCHANGED <<once, store, consumers, told, dropped>>
    BY <1>9 DEF setSequenceReady
  <2>. QED  BY <2>1, <2>2, ReadyInv
<1>10. ASSUME setAllSequenceReady PROVE Inv'
  <2>1. {} \in SUBSET AllSeqs
    OBVIOUS
  <2>2. sets' = [sets EXCEPT !.unready = {}] /\ UNCHANGED <<once, store, consumers, told, dropped>>
    BY <1>10 DEF setAllSequenceReady
  <2>. QED  BY <2>1, <2>2, ReadyInv
<1>11. ASSUME UNCHANGED vars PROVE Inv'
  <2>1. UNCHANGED <<once, store, sets, told, dropped>> /\ consumers' = consumers
    BY <1>11 DEF vars
  <2>2. Served'
    BY <2>1 DEF Inv, Served
  <2>. QED  BY <2>1, <2>2, OthersInv
<1>. QED  BY <1>1, <1>2, <1>3, <1>4, <1>5, <1>6, <1>7, <1>8, <1>9, <1>10, <1>11 DEF Next

LEMMA Invariant == Spec => []Inv
BY InitInv, StepInv, PTL DEF Spec

-----------------------------------------------------------------------------
(* What the invariant says of the types, trimming and marks *)

\* However the buffer wraps, grows and is trimmed, there is one place for each live record
\* and as many bytes in the buffer as the places say, within its limits.
THEOREM TypeCorrect == Spec => []TypeOK
<1>1. Inv => TypeOK
  <2>. SUFFICES ASSUME Inv PROVE TypeOK
    OBVIOUS
  <2> DEFINE st == store
             d == st.data
  <2>1. /\ Good(st) /\ st.count \in Nat /\ st.count <= MaxCount /\ End(st) = st.count /\ st.begin \in Nat
        /\ Len(st.index) = st.count - st.begin + 1 /\ MaxCount \in Nat
    BY InvIs
  <2>2. st \in Stores /\ Fits(st)
    BY <2>1 DEF Good
  <2>3. /\ st = [begin |-> st.begin, count |-> st.count, index |-> st.index, data |-> st.data]
        /\ d = [first |-> d.first, capacity |-> d.capacity, bytes |-> d.bytes]
        /\ st.index \in Seq(Places) /\ d.first \in Nat /\ d.bytes \in Seq(AllSeqs)
    BY <2>2, StoreIs
  <2>4. d.capacity \in Capacity .. MaxSize /\ Size(d) = Summed(st.index)[Len(st.index)] /\ Size(d) <= d.capacity
    BY <2>2 DEF Fits
  <2>5. Bytes(st, st.begin, End(st)) = Size(d)
    <3>1. Summed(st.index)[0] = 0 /\ Summed(st.index)[Len(st.index)] \in Nat
      <4>1. Len(st.index) \in 0 .. Len(st.index)
        BY <2>3
      <4>. QED  BY <2>3, <4>1, SummedIs
    <3>2. Bytes(st, st.begin, End(st)) = Summed(st.index)[st.count - st.begin + 1] - Summed(st.index)[st.begin - st.begin]
      BY <2>1 DEF Bytes
    <3>3. st.begin - st.begin = 0 /\ st.count - st.begin + 1 = Len(st.index)
      BY <2>1
    <3> DEFINE x == Summed(st.index)[Len(st.index)]
               y == Summed(st.index)[0]
    <3>4. Bytes(st, st.begin, End(st)) = x - y
      BY <3>2, <3>3
    <3>5. x \in Nat /\ y = 0 /\ Size(d) = x
      BY <2>4, <3>1
    <3>. HIDE DEF x, y
    <3>. QED  BY <3>4, <3>5
  <2>6. st \in StoreType
    <3> DEFINE Datas == [first : Nat, capacity : Capacity .. MaxSize, bytes : Seq(AllSeqs)]
    <3>1. d \in Datas
      BY <2>3, <2>4
    <3>2. st.count \in 0 .. MaxCount /\ st.begin \in Nat
      BY <2>1
    <3>3. StoreType = [begin : Nat, count : 0 .. MaxCount, index : Seq(Places), data : Datas]
      BY DEF StoreType, Places
    <3>. HIDE DEF Datas
    <3>. QED  BY <2>3, <3>1, <3>2, <3>3
  <2>7. sets \in SetsOfMarks
    BY DEF Inv
  <2>8. Len(st.index) = End(st) - st.begin + 1
    BY <2>1
  <2>. QED  BY <2>4, <2>5, <2>6, <2>7, <2>8 DEF TypeOK, SetsOfMarks
<1>. QED  BY <1>1, Invariant, PTL

\* addToDataFile trims before the smallest first record that any index gives, so it drops
\* none that a durable consumer has still to acknowledge.
THEOREM TrimmedWasAckedAlways == Spec => []TrimmedWasAcked
<1>1. Inv => TrimmedWasAcked
  BY DEF Inv, TrimmedWasAcked
<1>. QED  BY <1>1, Invariant, PTL

\* markDeleted and addMessageAttribute: a record marked before or after it came is listed
\* as deleted while it is there, and so is each mark that is in its place.
THEOREM DeletedIsKeptAlways == Spec => []DeletedIsKept
<1>1. Inv => DeletedIsKept
  <2>. SUFFICES ASSUME Inv PROVE DeletedIsKept
    OBVIOUS
  <2>1. /\ Good(store) /\ store.count \in Nat /\ End(store) = store.count /\ store.begin \in Nat /\ store.begin >= 1
        /\ Len(store.index) = store.count - store.begin + 1 /\ Known = 1 .. store.count
    BY InvIs
  <2>2. told \subseteq sets.deleted \cup sets.early
    BY DEF Inv
  <2>3. ASSUME NEW s \in Live(store)
        PROVE  /\ s \notin sets.early
               /\ DELETED \in At(store, s).attr => s \in sets.deleted
               /\ EXPIRED \in At(store, s).attr => s \in sets.expired
               /\ REMOTE \in At(store, s).attr => s \in sets.remote
    <3> DEFINE k == s - store.begin + 1
    <3>1. k \in 1 .. Len(store.index) /\ store.begin + k - 1 = s
      BY <2>1 DEF Live
    <3>2. At(store, s) = store.index[k]
      BY DEF At
    <3>. HIDE DEF k
    <3>. QED  BY <3>1, <3>2 DEF Inv, Noted
  <2>4. ASSUME NEW a \in Known
        PROVE  LET left == (a .. End(store)) \cap Live(store) IN
               /\ (told \cup With(DELETED)) \cap left \subseteq getDeletedSequences(a, End(store))
               /\ With(EXPIRED) \cap left \subseteq getExpiredSequences(a, End(store))
               /\ With(REMOTE) \cap left \subseteq getRemoteSequences(a, End(store))
               /\ getRemoteOrDeletedSequences(a, End(store))
                    = getRemoteSequences(a, End(store)) \cup getDeletedSequences(a, End(store))
    <3> DEFINE left == (a .. End(store)) \cap Live(store)
               low == Max({a, store.begin})
    <3>1. \A s \in left : s \in low .. End(store)
      <4>1. a \in Int /\ store.begin \in Int
        BY <2>1
      <4>2. low = IF a >= store.begin THEN a ELSE store.begin
        BY <4>1, MaxOfPair
      <4>. HIDE DEF low
      <4>. QED  BY <2>1, <4>1, <4>2 DEF Live
    <3>2. (told \cup With(DELETED)) \cap left \subseteq sets.deleted
      BY <2>2, <2>3 DEF With
    <3>3. With(EXPIRED) \cap left \subseteq sets.expired
      BY <2>3 DEF With
    <3>4. With(REMOTE) \cap left \subseteq sets.remote
      BY <2>3 DEF With
    <3>5. /\ getDeletedSequences(a, End(store)) = sets.deleted \cap (low .. End(store))
          /\ getExpiredSequences(a, End(store)) = sets.expired \cap (low .. End(store))
          /\ getRemoteSequences(a, End(store)) = sets.remote \cap (low .. End(store))
          /\ getRemoteOrDeletedSequences(a, End(store)) = (sets.remote \cup sets.deleted) \cap (low .. End(store))
      BY DEF getDeletedSequences, getExpiredSequences, getRemoteSequences, getRemoteOrDeletedSequences, Listed
    <3>. HIDE DEF left, low
    <3>6. /\ (told \cup With(DELETED)) \cap left \subseteq getDeletedSequences(a, End(store))
          /\ With(EXPIRED) \cap left \subseteq getExpiredSequences(a, End(store))
          /\ With(REMOTE) \cap left \subseteq getRemoteSequences(a, End(store))
          /\ getRemoteOrDeletedSequences(a, End(store))
               = getRemoteSequences(a, End(store)) \cup getDeletedSequences(a, End(store))
      BY <3>1, <3>2, <3>3, <3>4, <3>5
    <3>. QED  BY <3>6 DEF left
  <2>. QED  BY <2>2, <2>4 DEF DeletedIsKept, getNotDeletedSequences
<1>. QED  BY <1>1, Invariant, PTL

-----------------------------------------------------------------------------
(* Reading *)

LEMMA PlacesOf ==
  ASSUME Good(store), NEW s \in Live(store)
  PROVE  /\ s \in Nat /\ store.begin <= s /\ s <= store.count
         /\ s - store.begin + 1 \in 1 .. Len(store.index)
         /\ s - store.begin \in 0 .. Len(store.index)
         /\ At(store, s) = store.index[s - store.begin + 1]
         /\ At(store, s).len \in Nat /\ At(store, s).len >= 1
<1>1. /\ store.begin \in Nat /\ End(store) = store.count /\ store.count \in Nat /\ store.index \in Seq(Places)
      /\ Len(store.index) \in Nat /\ Len(store.index) = store.count - store.begin + 1
  BY GoodIs
<1>2. s \in Nat /\ store.begin <= s /\ s <= store.count
  BY <1>1 DEF Live
<1> DEFINE k == s - store.begin + 1
<1>3. k \in 1 .. Len(store.index) /\ s - store.begin \in 0 .. Len(store.index)
  BY <1>1, <1>2
<1>4. At(store, s) = store.index[k]
  BY DEF At
<1>. HIDE DEF k
<1>5. store.index[k].len \in Nat /\ store.index[k].len >= 1
  BY <1>1, <1>3, PlaceIs
<1>6. At(store, s).len \in Nat /\ At(store, s).len >= 1
  BY <1>4, <1>5
<1>. QED  BY <1>2, <1>3, <1>4, <1>6 DEF k

\* The bytes of records that follow one another add up.
LEMMA BytesAdd ==
  ASSUME Good(store), NEW a \in Live(store), NEW s \in Live(store), a <= s
  PROVE  /\ Bytes(store, a, s) \in Nat /\ Bytes(store, a, s - 1) \in Nat
         /\ Bytes(store, a, s) = Bytes(store, a, s - 1) + At(store, s).len
         /\ Bytes(store, a, a - 1) = 0
<1> DEFINE S == Summed(store.index)
           i == a - store.begin
           k == s - store.begin + 1
<1>1. /\ a \in Nat /\ s \in Nat /\ store.begin \in Nat
      /\ i \in 0 .. Len(store.index) /\ k \in 1 .. Len(store.index) /\ k - 1 \in 0 .. Len(store.index)
      /\ At(store, s) = store.index[k] /\ store.index \in Seq(Places) /\ At(store, s).len \in Nat
  <2>1. store.begin \in Nat /\ store.index \in Seq(Places) /\ Len(store.index) \in Nat
    BY GoodIs
  <2>2. a \in Nat /\ a - store.begin \in 0 .. Len(store.index)
    BY PlacesOf
  <2>3. s \in Nat /\ k \in 1 .. Len(store.index) /\ At(store, s) = store.index[k] /\ At(store, s).len \in Nat
    BY PlacesOf
  <2>4. k - 1 \in 0 .. Len(store.index)
    BY <2>1, <2>3
  <2>. QED  BY <2>1, <2>2, <2>3, <2>4
<1>2. i <= k - 1
  BY <1>1
<1>3. Bytes(store, a, s) = S[k] - S[i]
  BY DEF Bytes
<1>4. Bytes(store, a, s - 1) = S[k - 1] - S[i]
  <2>1. s \in Int /\ store.begin \in Int
    BY <1>1
  <2>2. (s - 1) - store.begin + 1 = k - 1
    BY <2>1
  <2>. QED  BY <2>2 DEF Bytes
<1>5. Bytes(store, a, a - 1) = S[i] - S[i]
  <2>1. a \in Int /\ store.begin \in Int
    BY <1>1
  <2>2. (a - 1) - store.begin + 1 = i
    BY <2>1
  <2>. QED  BY <2>2 DEF Bytes
<1>. HIDE DEF i, k
<1>6. S[k] = S[k - 1] + At(store, s).len
  BY <1>1, SummedIs
<1>7. S[i] \in Nat /\ S[k - 1] \in Nat /\ S[i] + (k - 1 - i) <= S[k - 1]
  BY <1>1, <1>2, SummedRises
<1>8. k - 1 - i \in Nat
  BY <1>1, <1>2
<1> DEFINE x == S[i]
           y == S[k - 1]
           z == S[k]
           l == At(store, s).len
<1>9. x \in Nat /\ y \in Nat /\ x <= y /\ z = y + l /\ l \in Nat
  <2> DEFINE e == k - 1 - i
  <2>1. x \in Nat /\ y \in Nat /\ x + e <= y /\ e \in Nat /\ z = y + l /\ l \in Nat
    BY <1>1, <1>6, <1>7, <1>8
  <2>. HIDE DEF e, x, y, z, l
  <2>. QED  BY <2>1
<1>10. Bytes(store, a, s) = z - x /\ Bytes(store, a, s - 1) = y - x /\ Bytes(store, a, a - 1) = x - x
  BY <1>3, <1>4, <1>5
<1>. HIDE DEF x, y, z
<1>11. z - x \in Nat /\ y - x \in Nat /\ z - x = (y - x) + l /\ x - x = 0
  BY <1>9
<1>. QED  BY <1>10, <1>11

\* A batch ends at a record of the range, holds no barred record behind its first, and
\* what comes next is barred or has no room.
LEMMA LastIs ==
  ASSUME NEW from \in Nat, NEW b \in Nat, from <= b, NEW max, NEW barred
  PROVE  /\ LastFitting(from, b, max, barred) \in from .. b
         /\ barred \cap (from + 1 .. LastFitting(from, b, max, barred)) = {}
         /\ LastFitting(from, b, max, barred) < b =>
              \/ LastFitting(from, b, max, barred) + 1 \in barred
              \/ ~ (Bytes(store, from, LastFitting(from, b, max, barred) + 1) <= Max({max, At(store, from).len}))
<1> DEFINE goes(s) == s < b /\ Bytes(store, from, s + 1) <= Max({max, At(store, from).len}) /\ s + 1 \notin barred
           n == b - from
           F == [x \in (1 .. n) \X (from .. b) |-> IF goes(b - x[1]) THEN x[2] ELSE b - x[1]]
           Is(g) == g = [s \in from .. b |-> IF goes(s) THEN g[s + 1] ELSE s]
           f == CHOOSE g : Is(g)
<1>1. LastFitting(from, b, max, barred) = f[from]
  BY DEF LastFitting
<1>2. n \in Nat /\ \A k \in 0 .. n : b - k \in from .. b
  OBVIOUS
<1>3. ASSUME NEW s \in Int, goes(s) PROVE s + 1 \notin barred /\ s < b
  BY <1>3
<1>4. ASSUME NEW s \in Int, s < b, ~ goes(s)
      PROVE  s + 1 \in barred \/ ~ (Bytes(store, from, s + 1) <= Max({max, At(store, from).len}))
  BY <1>4
<1>. HIDE DEF goes
<1>5. F \in [(1 .. n) \X (from .. b) -> from .. b]
  <2>1. ASSUME NEW x \in (1 .. n) \X (from .. b)
        PROVE  (IF goes(b - x[1]) THEN x[2] ELSE b - x[1]) \in from .. b
    <3>1. x[1] \in 1 .. n /\ x[2] \in from .. b
      OBVIOUS
    <3>2. b - x[1] \in from .. b
      BY <3>1
    <3>. QED  BY <3>1, <3>2
  <2>. QED  BY <2>1
<1>6. PICK h : h \in [0 .. n -> from .. b] /\ h[0] = b /\ \A k \in 1 .. n : h[k] = F[k, h[k - 1]]
  <2>1. b \in from .. b
    OBVIOUS
  <2>. HIDE DEF F, n
  <2> DEFINE V == from .. b
  <2>2. F \in [(1 .. n) \X V -> V] /\ b \in V /\ n \in Nat
    BY <1>2, <1>5, <2>1
  <2>. HIDE DEF V
  <2>3. \E g : IsRun(g, V, b, n, F)
    BY <2>2, Recursion
  <2>. QED  BY <2>3 DEF IsRun, V
<1>7. ASSUME NEW k \in 1 .. n PROVE h[k] = IF goes(b - k) THEN h[k - 1] ELSE b - k
  <2>1. k - 1 \in 0 .. n
    BY <1>2
  <2>2. <<k, h[k - 1]>> \in (1 .. n) \X (from .. b)
    BY <1>6, <2>1
  <2>3. h[k] = F[k, h[k - 1]]
    BY <1>6
  <2>. QED  BY <2>2, <2>3
<1> DEFINE g == [s \in from .. b |-> h[b - s]]
<1>8. Is(g)
  <2>1. ASSUME NEW s \in from .. b PROVE g[s] = IF goes(s) THEN g[s + 1] ELSE s
    <3>1. CASE s = b
      <4>1. ~ goes(s) /\ b - s = 0
        BY <1>3, <3>1
      <4>2. g[s] = b
        BY <1>6, <4>1
      <4>. QED  BY <3>1, <4>1, <4>2
    <3>2. CASE s # b
      <4> DEFINE k == b - s
      <4>1. k \in 1 .. n /\ b - k = s /\ s + 1 \in from .. b /\ b - (s + 1) = k - 1
        BY <3>2
      <4>2. g[s] = h[k] /\ g[s + 1] = h[k - 1]
        BY <4>1
      <4>. HIDE DEF k, g
      <4>3. h[k] = IF goes(s) THEN h[k - 1] ELSE s
        BY <1>7, <4>1
      <4>. QED  BY <4>2, <4>3
    <3>. QED  BY <3>1, <3>2
  <2>. QED  BY <2>1
<1>9. Is(f)
  <2>. HIDE DEF g
  <2>. QED  BY <1>8
<1>. HIDE DEF f
<1>10. \A s \in from .. b : f[s] = IF goes(s) THEN f[s + 1] ELSE s
  BY <1>9
<1> DEFINE ends(s, t) == t \in s .. b /\ ~ goes(t) /\ \A i \in s .. t - 1 : goes(i)
           T == {k \in 0 .. n : ends(b - k, f[b - k])}
<1>11. 0 \in T
  <2>1. b \in from .. b /\ ~ goes(b) /\ b - 0 = b /\ 0 \in 0 .. n /\ b .. b - 1 = {}
    BY <1>2, <1>3
  <2>2. f[b] = b
    BY <1>10, <2>1
  <2>. QED  BY <2>1, <2>2
<1>12. ASSUME NEW k \in 0 .. n - 1, k \in T PROVE k + 1 \in T
  <2> DEFINE s == b - (k + 1)
             t == f[s]
  <2>1. s \in from .. b /\ s + 1 = b - k /\ s < b /\ s \in Int /\ k + 1 \in 0 .. n
    BY <1>2
  <2>2. ends(s + 1, f[s + 1])
    BY <1>12, <2>1
  <2>. HIDE DEF s
  <2>3. CASE goes(s)
    <3>1. t = f[s + 1]
      BY <1>10, <2>1, <2>3
    <3>. HIDE DEF t
    <3>2. t \in s + 1 .. b /\ ~ goes(t) /\ \A i \in s + 1 .. t - 1 : goes(i)
      BY <2>2, <3>1
    <3>3. t \in s .. b
      BY <2>1, <3>2
    <3>4. ASSUME NEW i \in s .. t - 1 PROVE goes(i)
      <4>1. CASE i = s
        BY <2>3, <4>1
      <4>2. CASE i # s
        <5>1. i \in s + 1 .. t - 1
          BY <2>1, <4>2
        <5>. QED  BY <3>2, <5>1
      <4>. QED  BY <4>1, <4>2
    <3>. QED  BY <2>1, <3>2, <3>3, <3>4 DEF s, t
  <2>4. CASE ~ goes(s)
    <3>1. t = s
      BY <1>10, <2>1, <2>4
    <3>2. s \in s .. b /\ s .. s - 1 = {}
      BY <2>1
    <3>. HIDE DEF t
    <3>3. ends(s, t)
      BY <2>4, <3>1, <3>2
    <3>. HIDE DEF ends
    <3>. QED  BY <2>1, <3>3 DEF s, t
  <2>. QED  BY <2>3, <2>4
<1>13. ends(from, f[from])
  <2>. HIDE DEF T
  <2>1. \A k \in 0 .. n : k \in T
    BY <1>2, <1>11, <1>12, UpTo
  <2>2. n \in T /\ b - n = from
    BY <1>2, <2>1
  <2>. HIDE DEF n, ends
  <2>. QED  BY <2>2 DEF T
<1> DEFINE t == f[from]
<1>14. t \in from .. b /\ ~ goes(t) /\ \A i \in from .. t - 1 : goes(i)
  BY <1>13
<1>. HIDE DEF t
<1>15. barred \cap (from + 1 .. t) = {}
  <2>. SUFFICES ASSUME NEW j \in from + 1 .. t, j \in barred PROVE FALSE
    OBVIOUS
  <2>1. j - 1 \in from .. t - 1 /\ j - 1 \in Int /\ (j - 1) + 1 = j
    BY <1>14
  <2>2. goes(j - 1)
    BY <1>14, <2>1
  <2>. QED  BY <1>3, <2>1, <2>2
<1>16. t < b => t + 1 \in barred \/ ~ (Bytes(store, from, t + 1) <= Max({max, At(store, from).len}))
  <2>1. t \in Int
    BY <1>14
  <2>. QED  BY <1>4, <1>14, <2>1
<1>. QED  BY <1>1, <1>14, <1>15, <1>16 DEF t

\* A place and the bytes of the records from it on are all that a read needs, wherever the
\* buffer wraps.
LEMMA CopyIs ==
  ASSUME Good(store), NEW a \in Live(store), NEW b \in Live(store), a <= b
  PROVE  /\ AreBytesOf(copy(store.data, At(store, a).start, Bytes(store, a, b)), a, b)
         /\ Len(copy(store.data, At(store, a).start, Bytes(store, a, b))) = Bytes(store, a, b)
<1> DEFINE S == Summed(store.index)
           L == Len(store.index)
           bg == store.begin
           i == a - bg
           kb == b - bg + 1
           n == Bytes(store, a, b)
           d == store.data
           first == d.first
           c == d.capacity
           size == Size(d)
           start == At(store, a).start
           bytes == copy(d, start, n)
           low == S[i]
           high == S[kb]
<1>1. /\ store.begin \in Nat /\ store.index \in Seq(Places) /\ L \in Nat /\ c \in Nat \ {0} /\ size \in Nat /\ size <= c
      /\ store \in Stores /\ Fits(store) /\ Lies(store)
  BY GoodIs DEF Good
<1>2. first \in Nat
  BY <1>1, StoreIs
<1>3. a \in Nat /\ b \in Nat /\ i \in 0 .. L /\ i + 1 \in 1 .. L /\ kb \in 1 .. L /\ kb \in 0 .. L /\ i <= kb
  <2>1. a \in Nat /\ a - store.begin \in 0 .. L /\ a - store.begin + 1 \in 1 .. L
    BY PlacesOf
  <2>2. b \in Nat /\ kb \in 1 .. L
    BY PlacesOf
  <2>. QED  BY <1>1, <2>1, <2>2
<1>4. start = (first + low) % c
  <2>1. At(store, a) = store.index[i + 1] /\ (i + 1) - 1 = i
    BY <1>1, <1>3 DEF At
  <2>2. store.index[i + 1].start = (first + S[(i + 1) - 1]) % c
    BY <1>1, <1>3 DEF Lies
  <2>. QED  BY <2>1, <2>2
<1>5. n = high - low
  BY DEF Bytes
<1>6. low \in Nat /\ high \in Nat /\ low <= high /\ high <= size
  <2>1. S[i] \in Nat /\ S[kb] \in Nat /\ S[i] + (kb - i) <= S[kb]
    BY <1>1, <1>3, SummedRises
  <2>2. L \in 0 .. L /\ kb <= L
    BY <1>1, <1>3
  <2>3. S[L] \in Nat /\ S[kb] + (L - kb) <= S[L]
    BY <1>1, <1>3, <2>2, SummedRises
  <2>4. size = S[L]
    BY <1>1 DEF Fits
  <2>5. kb - i \in Nat /\ L - kb \in Nat
    <3>1. L \in Nat /\ i \in 0 .. L /\ kb \in 1 .. L /\ i <= kb
      BY <1>1, <1>3
    <3>. HIDE DEF i, kb, L
    <3>. QED  BY <3>1
  <2> DEFINE x == kb - i
             y == L - kb
             top == S[L]
  <2>6. low \in Nat /\ high \in Nat /\ low + x <= high /\ top \in Nat /\ high + y <= top /\ size = top /\ x \in Nat /\ y \in Nat
    BY <2>1, <2>3, <2>4, <2>5
  <2>. HIDE DEF x, y, top, low, high, size
  <2>. QED  BY <2>6
<1>7. n \in Nat
  <2>. HIDE DEF n, low, high
  <2>. QED  BY <1>5, <1>6
<1>8. bytes = [k \in 1 .. n |-> LET at == (start + k - 1 - first) % c IN IF at < size THEN d.bytes[at + 1] ELSE 0]
  BY DEF copy
<1>. HIDE DEF n, start, bytes
<1>9. Len(bytes) = n
  BY <1>7, <1>8
<1>10. ASSUME NEW s \in a .. b, NEW j \in 1 .. At(store, s).len
       PROVE  bytes[Bytes(store, a, s - 1) + j] = s
  <2> DEFINE ks == s - bg + 1
             before == S[ks - 1]
             off == Bytes(store, a, s - 1)
             p == off + j
             l == At(store, s).len
  <2>1. s \in Live(store)
    <3>1. a >= store.begin /\ b <= End(store) /\ End(store) \in Int
      BY <1>1, GoodIs DEF Live
    <3>. QED  BY <1>1, <1>3, <3>1 DEF Live
  <2>2. /\ s \in Nat /\ ks \in 1 .. L /\ At(store, s) = store.index[ks] /\ l \in Nat
    BY <2>1, PlacesOf
  <2>3. ks - 1 \in 0 .. L /\ ks \in 0 .. L /\ i <= ks - 1 /\ ks <= kb /\ bg + ks - 1 = s
    <3>1. a \in Nat /\ b \in Nat /\ s \in Nat /\ bg \in Nat /\ L \in Nat /\ ks \in 1 .. L
      BY <1>1, <1>3, <2>2
    <3>. HIDE DEF bg, L
    <3>. QED  BY <3>1
  <2>4. Bytes(store, a, s - 1) = before - low
    <3>1. s \in Int /\ store.begin \in Int
      BY <1>1, <2>2
    <3>2. (s - 1) - store.begin + 1 = ks - 1
      BY <3>1
    <3>. QED  BY <3>2 DEF Bytes
  <2>5. before \in Nat /\ low <= before /\ before + l <= high
    <3>1. S[i] \in Nat /\ S[ks - 1] \in Nat /\ S[i] + ((ks - 1) - i) <= S[ks - 1]
      BY <1>1, <1>3, <2>3, SummedRises
    <3>2. S[ks] \in Nat /\ S[kb] \in Nat /\ S[ks] + (kb - ks) <= S[kb]
      BY <1>1, <1>3, <2>3, SummedRises
    <3>3. S[ks] = S[ks - 1] + store.index[ks].len
      BY <1>1, <2>2, SummedIs
    <3>4. (ks - 1) - i \in Nat /\ kb - ks \in Nat
      <4>1. i \in Int /\ ks \in Int /\ kb \in Int /\ i <= ks - 1 /\ ks <= kb
        BY <1>3, <2>2, <2>3
      <4>. HIDE DEF i, ks, kb
      <4>. QED  BY <4>1
    <3> DEFINE x == (ks - 1) - i
               y == kb - ks
               next == S[ks]
    <3>5. /\ low \in Nat /\ before \in Nat /\ low + x <= before /\ next \in Nat /\ high \in Nat /\ next + y <= high
          /\ next = before + l /\ x \in Nat /\ y \in Nat /\ l \in Nat
      BY <2>2, <3>1, <3>2, <3>3, <3>4
    <3>. HIDE DEF x, y, next, low, high, before, l
    <3>. QED  BY <3>5
  <2>6. d.bytes[before + j] = s
    <3>1. j \in 1 .. store.index[ks].len
      BY <2>2
    <3>2. store.data.bytes[S[ks - 1] + j] = store.begin + ks - 1
      BY <2>2, <3>1, BytesAre
    <3>. QED  BY <2>3, <3>2
  <2>7. j \in 1 .. l
    OBVIOUS
  <2>. HIDE DEF ks, before, l, low, high, d, first, c, size, off
  <2>8. p \in 1 .. n /\ low + (p - 1) \in 0 .. c - 1 /\ low + (p - 1) < size
        /\ low + (p - 1) + 1 = before + j /\ p \in Int
    <3>1. c \in Nat /\ size \in Nat /\ size <= c /\ l \in Nat
      BY <1>1, <2>2
    <3>2. off = before - low
      BY <2>4 DEF off
    <3>. QED  BY <1>5, <1>6, <2>5, <2>7, <3>1, <3>2
  <2>. HIDE DEF p
  <2>9. (start + p - 1 - first) % c = low + (p - 1)
    <3>1. (((first + low) % c) + (p - 1) - first) % c = low + (p - 1)
      <4> DEFINE r == p - 1
      <4>1. r \in Int /\ first \in Int /\ low \in Int /\ c \in Nat \ {0} /\ low + r \in 0 .. c - 1
        BY <1>1, <1>2, <1>6, <2>8
      <4>. HIDE DEF r
      <4>2. (((first + low) % c) + r - first) % c = low + r
        BY <4>1, WrapBack
      <4>. QED  BY <4>2 DEF r
    <3>2. ((first + low) % c) \in Int
      BY <1>1, <1>2, <1>6
    <3>3. start + p - 1 - first = ((first + low) % c) + (p - 1) - first
      <4> DEFINE q == (first + low) % c
      <4>1. start = q /\ q \in Int /\ p \in Int /\ first \in Int
        BY <1>2, <1>4, <2>8, <3>2
      <4>. HIDE DEF q
      <4>2. start + p - 1 - first = q + (p - 1) - first
        BY <4>1
      <4>. QED  BY <4>2 DEF q
    <3>. QED  BY <3>1, <3>3
  <2>10. bytes[p] = IF low + (p - 1) < size THEN d.bytes[low + (p - 1) + 1] ELSE 0
    BY <1>8, <2>8, <2>9
  <2>11. bytes[p] = s
    BY <2>6, <2>8, <2>10
  <2>. QED  BY <2>11 DEF p, off
<1>11. AreBytesOf(bytes, a, b)
  BY <1>9, <1>10 DEF AreBytesOf, n
<1>. QED  BY <1>9, <1>11 DEF bytes, n, d, start

\* What a read of the records from a on, up to b, gives.
IsRead(r, from, to, a, b, max, barred) ==
  /\ a \in Nat /\ from \in Live(store) /\ to \in Live(store) /\ from <= to /\ to <= b /\ a <= from
  /\ r.first = from /\ r.second = to /\ r.n = to - from + 1 /\ r.expired = from - a /\ r.n > 0
  /\ AreBytesOf(r.bytes, from, to) /\ Len(r.bytes) = Bytes(store, from, to)
  /\ barred \cap (from + 1 .. to) = {}
  /\ to + 1 <= b => to + 1 \in barred \/ Len(r.bytes) + At(store, to + 1).len > max

LEMMA ReadIs ==
  ASSUME Inv, NEW a \in Known, NEW b \in Known, a <= b, b >= store.begin, NEW max \in Nat, NEW barred
  PROVE  IsRead(ReadUpTo(a, Max({a, store.begin}), LastFitting(Max({a, store.begin}), b, max, barred)),
                Max({a, store.begin}), LastFitting(Max({a, store.begin}), b, max, barred), a, b, max, barred)
<1> DEFINE from == Max({a, store.begin})
           to == LastFitting(from, b, max, barred)
           r == ReadUpTo(a, from, to)
<1>1. /\ Good(store) /\ store.count \in Nat /\ End(store) = store.count /\ store.begin \in Nat /\ store.begin >= 1
      /\ a \in Nat /\ b \in Nat /\ b <= store.count
  BY InvIs
<1>2. from \in Nat /\ a <= from /\ store.begin <= from /\ from <= b
  <2>1. from = IF a >= store.begin THEN a ELSE store.begin
    <3>1. a \in Int /\ store.begin \in Int
      BY <1>1
    <3>. QED  BY <3>1, MaxOfPair
  <2>. HIDE DEF from
  <2>. QED  BY <1>1, <2>1
<1>. HIDE DEF from
<1>3. /\ to \in from .. b
      /\ barred \cap (from + 1 .. to) = {}
      /\ to < b => \/ to + 1 \in barred
                   \/ ~ (Bytes(store, from, to + 1) <= Max({max, At(store, from).len}))
  BY <1>1, <1>2, LastIs
<1>. HIDE DEF to
<1>4. to \in Nat /\ from <= to /\ to <= b /\ from \in Live(store) /\ to \in Live(store)
  BY <1>1, <1>2, <1>3 DEF Live
<1>5. /\ r.first = from /\ r.second = to /\ r.n = to - from + 1 /\ r.expired = from - a
      /\ r.bytes = copy(store.data, At(store, from).start, Bytes(store, from, to))
  BY DEF ReadUpTo
<1>. HIDE DEF r
<1>6. AreBytesOf(r.bytes, from, to) /\ Len(r.bytes) = Bytes(store, from, to)
  BY <1>1, <1>4, <1>5, CopyIs
<1>7. ASSUME to + 1 <= b, to + 1 \notin barred PROVE Len(r.bytes) + At(store, to + 1).len > max
  <2> DEFINE room == Max({max, At(store, from).len})
             l == At(store, to + 1).len
             n == Bytes(store, from, to)
             m == Bytes(store, from, to + 1)
  <2>1. to + 1 \in Live(store) /\ from <= to + 1 /\ (to + 1) - 1 = to
    BY <1>1, <1>2, <1>4, <1>7 DEF Live
  <2>2. m \in Nat /\ n \in Nat /\ m = n + l
    BY <1>1, <1>4, <2>1, BytesAdd
  <2>3. max <= room /\ room \in Int
    <3>1. At(store, from).len \in Int
      BY <1>1, <1>4, PlacesOf
    <3>2. room = IF max >= At(store, from).len THEN max ELSE At(store, from).len
      BY <3>1, MaxOfPair
    <3>. HIDE DEF room
    <3>. QED  BY <3>1, <3>2
  <2>4. ~ (m <= room)
    <3>1. to < b
      BY <1>1, <1>4, <1>7
    <3>. QED  BY <1>3, <1>7, <3>1
  <2>5. Len(r.bytes) = n
    BY <1>6
  <2>. HIDE DEF room, m, n
  <2>6. n + l > max
    BY <2>2, <2>3, <2>4
  <2>. QED  BY <2>5, <2>6
<1>8. r.n > 0
  BY <1>1, <1>2, <1>4, <1>5
<1>9. IsRead(r, from, to, a, b, max, barred)
  BY <1>1, <1>2, <1>3, <1>4, <1>5, <1>6, <1>7, <1>8 DEF IsRead
<1>. QED  BY <1>9 DEF r, to, from

LEMMA GoneRead ==
  ASSUME NEW a, NEW b
  PROVE  /\ AllGone(a, b).first = b + 1 /\ AllGone(a, b).second = b + 1 /\ AllGone(a, b).n = 0
         /\ AllGone(a, b).expired = b - a + 1
BY DEF AllGone

\* getMany and getManyReady: whatever was trimmed or is not ready, a reader that goes on
\* from what it was given misses no record and is told of none twice.
THEOREM ReadsSkipNothingAlways == Spec => []ReadsSkipNothing
<1>1. Inv => ReadsSkipNothing
  <2>. SUFFICES ASSUME Inv, NEW a \in Known, NEW b \in Known, NEW max \in 1 .. MaxSize, CanRead(a, b)
                PROVE  LET all == getMany(a, b, max)
                           ready == getManyReady(a, b, max)
                           next == GoesOn(ready)
                       IN /\ all.n + all.expired = GoesOn(all) - a
                          /\ ready.n + ready.expired = next - a
                          /\ ready.n > 0 => sets.unready \cap (ready.first .. ready.second) = {}
                          /\ next <= b => \/ next \in sets.unready
                                          \/ ready.n > 0 /\ Len(ready.bytes) + At(store, next).len > max
    BY DEF ReadsSkipNothing
  <2> DEFINE from == Max({a, store.begin})
             all == getMany(a, b, max)
             ready == getManyReady(a, b, max)
  <2>1. /\ Good(store) /\ store.begin \in Nat /\ a \in Nat /\ b \in Nat /\ max \in Nat /\ a <= b
    BY InvIs, MemoryAssumption DEF CanRead
  <2>2. CASE b < store.begin
    <3>1. all = AllGone(a, b) /\ ready = AllGone(a, b)
      BY <2>2 DEF getMany, getManyReady
    <3>. HIDE DEF all, ready
    <3>2. /\ all.n = 0 /\ all.second = b + 1 /\ all.expired = b - a + 1
          /\ ready.n = 0 /\ ready.second = b + 1 /\ ready.expired = b - a + 1
      BY <3>1, GoneRead
    <3>3. GoesOn(all) = b + 1 /\ GoesOn(ready) = b + 1
      BY <3>2 DEF GoesOn
    <3>4. /\ all.n + all.expired = GoesOn(all) - a
          /\ ready.n + ready.expired = GoesOn(ready) - a
          /\ ~ (ready.n > 0) /\ ~ (GoesOn(ready) <= b)
      BY <2>1, <3>2, <3>3
    <3>. QED  BY <3>4 DEF all, ready
  <2>3. CASE b >= store.begin
    <3> DEFINE to == LastFitting(from, b, max, {})
               end == LastFitting(from, b, max, sets.unready)
    <3>1. all = ReadUpTo(a, from, to)
      BY <2>1, <2>3 DEF getMany
    <3>2. /\ to \in Live(store) /\ from \in Live(store) /\ from <= to
          /\ all.second = to /\ all.n = to - from + 1 /\ all.expired = from - a /\ all.n > 0
      <4>1. IsRead(all, from, to, a, b, max, {})
        BY <2>1, <2>3, <3>1, ReadIs, Zenon
      <4>. HIDE DEF from, to, all
      <4>. QED  BY <4>1 DEF IsRead
    <3>. HIDE DEF from, to, end, all, ready
    <3>3. from \in Nat /\ to \in Nat
      BY <2>1, <3>2, PlacesOf
    <3>4. all.n + all.expired = GoesOn(all) - a
      BY <2>1, <3>2, <3>3 DEF GoesOn
    <3>5. CASE from \in sets.unready
      <4>1. ready = [AllGone(a, b) EXCEPT !.first = from, !.second = from, !.expired = from - a]
        BY <2>1, <2>3, <3>5 DEF ready, getManyReady, from
      <4>2. ready.n = 0 /\ ready.second = from /\ ready.expired = from - a
        BY <4>1 DEF AllGone
      <4>3. GoesOn(ready) = from
        BY <4>2 DEF GoesOn
      <4>4. ready.n + ready.expired = GoesOn(ready) - a /\ ~ (ready.n > 0) /\ GoesOn(ready) \in sets.unready
        BY <2>1, <3>3, <3>5, <4>2, <4>3
      <4>. QED  BY <3>4, <4>4 DEF all, ready
    <3>6. CASE from \notin sets.unready
      <4>1. ready = ReadUpTo(a, from, end)
        BY <2>1, <2>3, <3>6 DEF ready, getManyReady, from, end
      <4>2. /\ end \in Live(store) /\ from <= end
            /\ ready.first = from /\ ready.second = end /\ ready.n = end - from + 1 /\ ready.expired = from - a
            /\ ready.n > 0
            /\ sets.unready \cap (from + 1 .. end) = {}
            /\ end + 1 <= b => end + 1 \in sets.unready \/ Len(ready.bytes) + At(store, end + 1).len > max
        <5>1. IsRead(ready, from, end, a, b, max, sets.unready)
          BY <2>1, <2>3, <4>1, ReadIs, Zenon DEF from, end
        <5>. QED  BY <5>1 DEF IsRead
      <4>3. end \in Nat
        BY <2>1, <4>2, PlacesOf
      <4>4. GoesOn(ready) = end + 1
        BY <4>2 DEF GoesOn
      <4>5. ready.n + ready.expired = GoesOn(ready) - a
        BY <2>1, <3>3, <4>2, <4>3, <4>4
      <4>6. sets.unready \cap (ready.first .. ready.second) = {}
        <5>1. ASSUME NEW s \in from .. end, s \in sets.unready PROVE FALSE
          <6>1. s # from
            BY <3>6, <5>1
          <6>2. s \in from + 1 .. end
            BY <3>3, <4>3, <6>1
          <6>. QED  BY <4>2, <5>1, <6>2
        <5>. QED  BY <4>2, <5>1
      <4>7. GoesOn(ready) <= b => \/ GoesOn(ready) \in sets.unready
                                  \/ ready.n > 0 /\ Len(ready.bytes) + At(store, GoesOn(ready)).len > max
        BY <4>2, <4>4
      <4>. QED  BY <3>4, <4>5, <4>6, <4>7 DEF all, ready
    <3>. QED  BY <3>5, <3>6
  <2>. QED  BY <2>1, <2>2, <2>3
<1>. QED  BY <1>1, Invariant, PTL

\* CircularRawBuffer and the deque of places: each read gives the bytes of the records that
\* it names, in order, however often the buffer wrapped, was moved or trimmed.
THEOREM ReadsBackAlways == Spec => []ReadsBack
<1>1. Inv => ReadsBack
  <2>. SUFFICES ASSUME Inv PROVE ReadsBack
    OBVIOUS
  <2>1. Good(store) /\ store.begin \in Nat /\ store.count \in Nat
    BY InvIs
  <2>2. ASSUME NEW s \in Live(store) PROVE AreBytesOf(readSingleMessageBuffer(s), s, s)
    <3>1. s \in Nat /\ s <= s
      BY <2>1, PlacesOf
    <3>2. Bytes(store, s, s) = At(store, s).len
      <4> DEFINE x == Bytes(store, s, s)
                 y == Bytes(store, s, s - 1)
                 l == At(store, s).len
      <4>1. x \in Nat /\ x = y + l /\ y = 0
        BY <2>1, <3>1, BytesAdd
      <4>2. l \in Nat
        BY <2>1, PlacesOf
      <4>. HIDE DEF x, y, l
      <4>3. x = l
        BY <4>1, <4>2
      <4>. QED  BY <4>3 DEF x, l
    <3>3. AreBytesOf(copy(store.data, At(store, s).start, Bytes(store, s, s)), s, s)
      BY <2>1, <3>1, CopyIs
    <3>. QED  BY <3>2, <3>3 DEF readSingleMessageBuffer
  <2>3. ASSUME NEW a \in Known, NEW b \in Known, NEW max \in 1 .. MaxSize, CanRead(a, b)
        PROVE  \A r \in {getMany(a, b, max), getManyReady(a, b, max)} :
                 /\ r.n > 0 => AreBytesOf(r.bytes, r.first, r.second)
                 /\ LET at == getManyIndices(a, b, max)
                        all == getMany(a, b, max).bytes
                    IN \A k \in DOMAIN at : all[at[k] + 1] = Max({a, store.begin}) + k - 1
    <3> DEFINE from == Max({a, store.begin})
               all == getMany(a, b, max)
               ready == getManyReady(a, b, max)
               at == getManyIndices(a, b, max)
    <3>1. /\ a \in Nat /\ b \in Nat /\ max \in Nat /\ a <= b
      BY <2>3, InvIs, MemoryAssumption DEF CanRead
    <3>2. CASE b < store.begin
      <4>1. all = AllGone(a, b) /\ ready = AllGone(a, b) /\ at = <<>>
        BY <3>2 DEF getMany, getManyReady, getManyIndices
      <4>. HIDE DEF all, ready, at, from
      <4>2. ~ (all.n > 0) /\ ~ (ready.n > 0)
        BY <4>1, GoneRead
      <4>3. DOMAIN at = {}
        BY <4>1
      <4>4. \A r \in {all, ready} :
              /\ r.n > 0 => AreBytesOf(r.bytes, r.first, r.second)
              /\ \A k \in DOMAIN at : all.bytes[at[k] + 1] = from + k - 1
        BY <4>2, <4>3
      <4>. QED  BY <4>4 DEF all, ready, at, from
    <3>3. CASE b >= store.begin
      <4> DEFINE to == LastFitting(from, b, max, {})
                 end == LastFitting(from, b, max, sets.unready)
      <4>1. all = ReadUpTo(a, from, to)
        BY <2>1, <3>1, <3>3 DEF getMany
      <4>2. /\ to \in Live(store) /\ from \in Live(store) /\ from <= to
            /\ all.first = from /\ all.second = to /\ all.n = to - from + 1
            /\ AreBytesOf(all.bytes, from, to)
        <5>1. IsRead(all, from, to, a, b, max, {})
          BY <3>1, <3>3, <4>1, ReadIs, Zenon
        <5>. HIDE DEF from, to, all
        <5>. QED  BY <5>1 DEF IsRead
      <4>3. from \in Nat /\ to \in Nat
        <5>. HIDE DEF from, to, all
        <5>. QED  BY <2>1, <4>2, PlacesOf
      <4>4. ready.n > 0 => AreBytesOf(ready.bytes, ready.first, ready.second)
        <5>1. CASE from \in sets.unready
          <6>1. ready = [AllGone(a, b) EXCEPT !.first = from, !.second = from, !.expired = from - a]
            BY <2>1, <3>1, <3>3, <5>1 DEF getManyReady
          <6>. HIDE DEF ready, from
          <6>2. ready.n = 0
            BY <6>1 DEF AllGone
          <6>. QED  BY <6>2
        <5>2. CASE from \notin sets.unready
          <6>1. ready = ReadUpTo(a, from, end)
            BY <2>1, <3>1, <3>3, <5>2 DEF getManyReady
          <6>2. ready.first = from /\ ready.second = end /\ AreBytesOf(ready.bytes, from, end)
            <7>1. IsRead(ready, from, end, a, b, max, sets.unready)
              BY <3>1, <3>3, <6>1, ReadIs, Zenon
            <7>. HIDE DEF from, end, ready
            <7>. QED  BY <7>1 DEF IsRead
          <6>. QED  BY <6>2
        <5>. QED  BY <5>1, <5>2
      <4>5. at = [k \in 1 .. all.n |-> Bytes(store, all.first, all.first + k - 2)]
        BY <2>1, <3>1, <3>3 DEF getManyIndices
      <4>. HIDE DEF from, to, all, ready, at, end
      <4>6. ASSUME NEW k \in DOMAIN at PROVE all.bytes[at[k] + 1] = from + k - 1
        <5> DEFINE s == from + k - 1
        <5>1. k \in 1 .. to - from + 1 /\ at[k] = Bytes(store, from, from + k - 2)
          BY <4>2, <4>5
        <5>2. s \in from .. to /\ s \in Nat /\ s - 1 = from + k - 2
          BY <4>3, <5>1
        <5>3. s \in Live(store)
          <6>1. store.begin <= from /\ to <= End(store) /\ End(store) \in Int
            BY <2>1, <4>2, GoodIs DEF Live
          <6>. QED  BY <2>1, <4>3, <5>2, <6>1 DEF Live
        <5>. HIDE DEF s
        <5>4. 1 \in 1 .. At(store, s).len
          BY <2>1, <5>3, PlacesOf
        <5>5. all.bytes[Bytes(store, from, s - 1) + 1] = s
          BY <4>2, <5>2, <5>4 DEF AreBytesOf
        <5>6. at[k] = Bytes(store, from, s - 1)
          BY <5>1, <5>2
        <5>. QED  BY <5>5, <5>6 DEF s
      <4>7. \A r \in {all, ready} :
              /\ r.n > 0 => AreBytesOf(r.bytes, r.first, r.second)
              /\ \A k \in DOMAIN at : all.bytes[at[k] + 1] = from + k - 1
        BY <4>2, <4>4, <4>6
      <4>. QED  BY <4>7 DEF all, ready, at, from
    <3>. QED  BY <2>1, <3>1, <3>2, <3>3
  <2>. QED  BY <2>2, <2>3 DEF ReadsBack
<1>. QED  BY <1>1, Invariant, PTL

-----------------------------------------------------------------------------
(* Searching by time *)

\* The times of the first c records, 0 for those that are gone.
Climbs(time, c) ==
  /\ \A s \in 1 .. c : TimeOf(time, s) \in Nat
  /\ \A s, u \in 1 .. c : s < u => /\ TimeOf(time, s) <= TimeOf(time, u)
                                   /\ TimeOf(time, u) >= 1 => TimeOf(time, s) < TimeOf(time, u)

\* The first record of a time or later, or the last of it or before.
Found(time, t, c, findHead, r) ==
  /\ r \in 1 .. c
  /\ findHead => \A s \in 1 .. c : s >= r <=> TimeOf(time, s) >= t
  /\ ~ findHead => \A s \in 1 .. c : s <= r <=> TimeOf(time, s) <= t

LEMMA FoundAt ==
  ASSUME NEW time, NEW c \in Nat, Climbs(time, c), NEW t \in Nat, t >= 1, NEW findHead \in BOOLEAN,
         NEW r \in 1 .. c, TimeOf(time, r) = t
  PROVE  Found(time, t, c, findHead, r)
<1> DEFINE T(s) == TimeOf(time, s)
<1>1. ASSUME NEW s \in 1 .. c
      PROVE  (s >= r <=> T(s) >= t) /\ (s <= r <=> T(s) <= t)
  <2>1. T(s) \in Nat /\ T(r) = t
    BY DEF Climbs
  <2>2. s < r => T(s) < t
    BY <2>1 DEF Climbs
  <2>3. r < s => t < T(s)
    <3>1. r < s => T(r) <= T(s) /\ (T(s) >= 1 => T(r) < T(s))
      BY DEF Climbs
    <3>. HIDE DEF T
    <3>. QED  BY <2>1, <3>1
  <2>. HIDE DEF T
  <2>4. s \in Int /\ r \in Int
    OBVIOUS
  <2>. QED  BY <2>1, <2>2, <2>3, <2>4
<1>. QED  BY <1>1 DEF Found

LEMMA FoundBetween ==
  ASSUME NEW time, NEW c \in Nat, Climbs(time, c), NEW t \in Nat, NEW findHead \in BOOLEAN,
         NEW a \in 1 .. c, a + 1 \in 1 .. c, TimeOf(time, a) <= t, t <= TimeOf(time, a + 1)
  PROVE  /\ TimeOf(time, a) < t => Found(time, t, c, TRUE, a + 1)
         /\ t < TimeOf(time, a + 1) => Found(time, t, c, FALSE, a)
<1> DEFINE T(s) == TimeOf(time, s)
<1>1. ASSUME NEW s \in 1 .. c
      PROVE  /\ T(s) \in Nat /\ T(a) \in Nat /\ T(a + 1) \in Nat
             /\ s <= a => T(s) <= T(a)
             /\ s >= a + 1 => T(a + 1) <= T(s)
  <2>1. T(s) \in Nat /\ T(a) \in Nat /\ T(a + 1) \in Nat
    BY DEF Climbs
  <2>2. s < a => T(s) <= T(a)
    BY DEF Climbs
  <2>3. a + 1 < s => T(a + 1) <= T(s)
    BY DEF Climbs
  <2>4. s = a => T(s) = T(a)
    OBVIOUS
  <2>5. s = a + 1 => T(s) = T(a + 1)
    OBVIOUS
  <2>. HIDE DEF T
  <2>. QED  BY <2>1, <2>2, <2>3, <2>4, <2>5
<1>2. T(a) <= t /\ t <= T(a + 1)
  OBVIOUS
<1>3. ASSUME T(a) < t, NEW s \in 1 .. c PROVE s >= a + 1 <=> T(s) >= t
  <2>. HIDE DEF T
  <2>. QED  BY <1>1, <1>2, <1>3
<1>4. ASSUME t < T(a + 1), NEW s \in 1 .. c PROVE s <= a <=> T(s) <= t
  <2>. HIDE DEF T
  <2>. QED  BY <1>1, <1>2, <1>4
<1>. QED  BY <1>3, <1>4 DEF Found

\* The search halves what is between two records that the time lies between.
LEMMA FindIs ==
  ASSUME NEW time, NEW c \in Nat \ {0}, Climbs(time, c), NEW t \in Nat, t >= 1, NEW findHead \in BOOLEAN,
         TimeOf(time, 1) <= t, t <= TimeOf(time, c)
  PROVE  Found(time, t, c, findHead, findSeqByTimeStamp(time, t, 1, c, findHead))
<1> DEFINE T(s) == TimeOf(time, s)
           P == {q \in (1 .. c) \X (1 .. c) : q[1] <= q[2]}
           mid(p) == p[1] + (p[2] - p[1]) \div 2
           base(p) == IF findHead THEN IF t = T(p[1]) THEN p[1] ELSE p[2]
                                  ELSE IF t = T(p[2]) THEN p[2] ELSE p[1]
           lower(p) == <<p[1], mid(p)>>
           upper(p) == <<mid(p), p[2]>>
           step(p, g) == IF p[1] = p[2] THEN p[1]
                         ELSE IF p[2] - p[1] = 1 THEN base(p)
                         ELSE IF T(mid(p)) = t THEN mid(p)
                         ELSE IF T(mid(p)) > t THEN g[lower(p)] ELSE g[upper(p)]
           V == [P -> Int]
           n == c + 1
           F == [x \in (1 .. n) \X V |-> [p \in P |-> step(p, x[2])]]
           Is(g) == g = [p \in P |-> step(p, g)]
           f == CHOOSE g : Is(g)
<1>1. findSeqByTimeStamp(time, t, 1, c, findHead) = f[<<1, c>>]
  BY DEF findSeqByTimeStamp
<1>2. \A p \in P : p[1] \in 1 .. c /\ p[2] \in 1 .. c /\ p[1] <= p[2] /\ p = <<p[1], p[2]>>
  OBVIOUS
<1>3. ASSUME NEW p \in P, p[1] # p[2], p[2] - p[1] # 1
      PROVE  /\ mid(p) \in 1 .. c /\ p[1] < mid(p) /\ mid(p) < p[2]
             /\ lower(p) \in P /\ lower(p)[1] = p[1] /\ lower(p)[2] = mid(p)
             /\ upper(p) \in P /\ upper(p)[1] = mid(p) /\ upper(p)[2] = p[2]
  <2> DEFINE a == p[1]
             b == p[2]
             m == a + (b - a) \div 2
  <2>1. a \in 1 .. c /\ b \in 1 .. c /\ a <= b /\ a # b /\ b - a # 1
    BY <1>2, <1>3
  <2>. HIDE DEF a, b
  <2>2. m \in 1 .. c /\ a < m /\ m < b
    BY <2>1
  <2>. HIDE DEF m
  <2>3. <<a, m>> \in P /\ <<m, b>> \in P
    BY <2>1, <2>2
  <2>4. mid(p) = m
    BY DEF a, b, m
  <2>. HIDE DEF P, mid
  <2>. QED  BY <2>2, <2>3, <2>4 DEF a, b
<1>4. ASSUME NEW p \in P, NEW g \in V PROVE step(p, g) \in Int
  <2>1. p[1] \in Int /\ p[2] \in Int /\ base(p) \in Int
    BY <1>2
  <2>2. CASE p[1] # p[2] /\ p[2] - p[1] # 1
    <3>1. mid(p) \in Int /\ lower(p) \in P /\ upper(p) \in P
      BY <1>3, <2>2
    <3>. HIDE DEF P, mid, lower, upper, T, base
    <3>2. g[lower(p)] \in Int /\ g[upper(p)] \in Int
      BY <3>1
    <3>. QED  BY <2>2, <3>1, <3>2
  <2>3. CASE ~ (p[1] # p[2] /\ p[2] - p[1] # 1)
    <3>. HIDE DEF P, mid, lower, upper, T, base
    <3>. QED  BY <2>1, <2>3
  <2>. QED  BY <2>2, <2>3
<1>5. ASSUME NEW p \in P, NEW g \in V, NEW h \in V, \A q \in P : q[2] - q[1] < p[2] - p[1] => g[q] = h[q]
      PROVE  step(p, g) = step(p, h)
  <2>1. CASE p[1] # p[2] /\ p[2] - p[1] # 1
    <3>1. /\ mid(p) \in Int /\ p[1] < mid(p) /\ mid(p) < p[2] /\ p[1] \in Int /\ p[2] \in Int
          /\ lower(p) \in P /\ upper(p) \in P
          /\ lower(p)[1] = p[1] /\ lower(p)[2] = mid(p) /\ upper(p)[1] = mid(p) /\ upper(p)[2] = p[2]
      BY <1>2, <1>3, <2>1
    <3>. HIDE DEF P, mid, lower, upper, T, base, V
    <3>2. mid(p) - p[1] < p[2] - p[1] /\ p[2] - mid(p) < p[2] - p[1]
      BY <3>1
    <3>3. g[lower(p)] = h[lower(p)] /\ g[upper(p)] = h[upper(p)]
      BY <1>5, <3>1, <3>2
    <3>. QED  BY <3>3
  <2>2. CASE ~ (p[1] # p[2] /\ p[2] - p[1] # 1)
    <3>. HIDE DEF P, mid, lower, upper, T, base, V
    <3>. QED  BY <2>2
  <2>. QED  BY <2>1, <2>2
<1>. HIDE DEF step
<1>6. F \in [(1 .. n) \X V -> V] /\ n \in Nat
  <2>1. ASSUME NEW x \in (1 .. n) \X V PROVE [p \in P |-> step(p, x[2])] \in V
    <3>1. x[2] \in V
      OBVIOUS
    <3>. HIDE DEF P
    <3>. QED  BY <1>4, <3>1
  <2>. HIDE DEF V
  <2>. QED  BY <2>1
<1>7. PICK h : h \in [0 .. n -> V] /\ \A k \in 1 .. n : h[k] = F[k, h[k - 1]]
  <2> DEFINE v == [p \in P |-> 0]
  <2>1. v \in V
    OBVIOUS
  <2>. HIDE DEF F, V, n, v
  <2>2. \E g : IsRun(g, V, v, n, F)
    BY <1>6, <2>1, Recursion
  <2>. QED  BY <2>2 DEF IsRun
<1>8. ASSUME NEW k \in 1 .. n, NEW p \in P PROVE h[k][p] = step(p, h[k - 1])
  <2>1. k - 1 \in 0 .. n
    BY <1>6
  <2>2. h[k - 1] \in V
    BY <1>7, <2>1
  <2>. HIDE DEF V, n, P
  <2>3. <<k, h[k - 1]>> \in (1 .. n) \X V
    BY <2>2
  <2>4. h[k] = F[k, h[k - 1]]
    BY <1>7
  <2>5. h[k] = [q \in P |-> step(q, h[k - 1])]
    BY <2>3, <2>4
  <2>. QED  BY <2>5
<1> DEFINE D == {k \in 0 .. c : \A p \in P : p[2] - p[1] < k => h[k + 1][p] = h[k][p]}
<1>9. 0 \in D
  BY <1>2
<1>10. ASSUME NEW k \in 0 .. c - 1, k \in D PROVE k + 1 \in D
  <2>. SUFFICES ASSUME NEW p \in P, p[2] - p[1] < k + 1 PROVE h[(k + 1) + 1][p] = h[k + 1][p]
    OBVIOUS
  <2>1. /\ k \in Nat /\ k + 1 \in 1 .. n /\ (k + 1) + 1 \in 1 .. n /\ k \in 0 .. n /\ k + 1 \in 0 .. n
        /\ (k + 1) - 1 = k /\ ((k + 1) + 1) - 1 = k + 1
    OBVIOUS
  <2>2. \A q \in P : q[2] - q[1] < k => h[k + 1][q] = h[k][q]
    BY <1>10
  <2>3. h[k + 1][p] = step(p, h[k]) /\ h[(k + 1) + 1][p] = step(p, h[k + 1])
    <3>. HIDE DEF P, n
    <3>1. h[k + 1][p] = step(p, h[(k + 1) - 1])
      BY <1>8, <2>1
    <3>2. h[(k + 1) + 1][p] = step(p, h[((k + 1) + 1) - 1])
      BY <1>8, <2>1
    <3>. QED  BY <2>1, <3>1, <3>2
  <2>4. h[k] \in V /\ h[k + 1] \in V
    <3>. HIDE DEF V, n
    <3>. QED  BY <1>7, <2>1
  <2>5. \A q \in P : q[2] - q[1] < p[2] - p[1] => h[k + 1][q] = h[k][q]
    <3>. TAKE q \in P
    <3>1. q[1] \in Int /\ q[2] \in Int /\ p[1] \in Int /\ p[2] \in Int
      BY <1>2
    <3>. HIDE DEF P
    <3>2. q[2] - q[1] < p[2] - p[1] => q[2] - q[1] < k
      BY <2>1, <3>1
    <3>. QED  BY <2>2, <3>2
  <2>6. step(p, h[k]) = step(p, h[k + 1])
    <3>. HIDE DEF P, V
    <3>. QED  BY <1>5, <2>4, <2>5
  <2>. QED  BY <2>3, <2>6
<1>11. c \in D
  <2>. HIDE DEF D
  <2>1. \A k \in 0 .. c : k \in D
    BY <1>9, <1>10, UpTo
  <2>2. c \in 0 .. c
    OBVIOUS
  <2>. QED  BY <2>1, <2>2
<1>12. Is(h[c])
  <2>1. c \in 1 .. n /\ c + 1 \in 1 .. n /\ (c + 1) - 1 = c /\ c \in 0 .. n
    OBVIOUS
  <2>2. h[c] \in V
    <3>. HIDE DEF V, n
    <3>. QED  BY <1>7, <2>1
  <2>3. h[c] = [p \in P |-> h[c][p]]
    <3>. HIDE DEF P
    <3>. QED  BY <2>2
  <2>4. ASSUME NEW p \in P PROVE h[c][p] = step(p, h[c])
    <3>1. p[2] - p[1] < c
      BY <1>2
    <3>2. h[c + 1][p] = h[c][p]
      BY <1>11, <3>1
    <3>. HIDE DEF P, n
    <3>3. h[c + 1][p] = step(p, h[(c + 1) - 1])
      BY <1>8, <2>1
    <3>. QED  BY <2>1, <3>2, <3>3
  <2>. HIDE DEF P
  <2>. QED  BY <2>3, <2>4
<1>13. Is(f)
  <2>1. \E g : Is(g)
    BY <1>12
  <2>. HIDE DEF Is
  <2>. QED  BY <2>1
<1>. HIDE DEF f
<1>14. \A p \in P : f[p] = step(p, f)
  <2>. HIDE DEF P
  <2>. QED  BY <1>13
<1> DEFINE R(p) == T(p[1]) <= t /\ t <= T(p[2]) => Found(time, t, c, findHead, f[p])
           E == {d \in 0 .. c - 1 : \A p \in P : p[2] - p[1] <= d => R(p)}
<1>15. ASSUME NEW p \in P, \A q \in P : q[2] - q[1] < p[2] - p[1] => R(q)
       PROVE  R(p)
  <2>. SUFFICES ASSUME T(p[1]) <= t, t <= T(p[2]) PROVE Found(time, t, c, findHead, f[p])
    OBVIOUS
  <2>1. f[p] = step(p, f)
    BY <1>14
  <2>2. /\ p[1] \in 1 .. c /\ p[2] \in 1 .. c /\ p[1] <= p[2]
        /\ T(p[1]) \in Nat /\ T(p[2]) \in Nat
    BY <1>2 DEF Climbs
  <2>3. CASE p[1] = p[2]
    <3>1. f[p] = p[1]
      BY <2>1, <2>3 DEF step
    <3>2. T(p[1]) = t
      BY <2>2, <2>3
    <3>. QED  BY <2>2, <3>1, <3>2, FoundAt
  <2>4. CASE p[1] # p[2] /\ p[2] - p[1] = 1
    <3>1. f[p] = base(p)
      <4>. HIDE DEF base
      <4>. QED  BY <2>1, <2>4 DEF step
    <3>2. p[2] = p[1] + 1
      BY <2>2, <2>4
    <3>3. CASE findHead /\ t = T(p[1])
      <4>1. f[p] = p[1]
        BY <3>1, <3>3
      <4>. QED  BY <2>2, <3>3, <4>1, FoundAt
    <3>4. CASE findHead /\ t # T(p[1])
      <4>1. f[p] = p[1] + 1
        BY <3>1, <3>2, <3>4
      <4>2. T(p[1]) < t
        BY <2>2, <3>4
      <4>3. Found(time, t, c, TRUE, p[1] + 1)
        BY <2>2, <3>2, <4>2, FoundBetween
      <4>. QED  BY <3>4, <4>1, <4>3
    <3>5. CASE ~ findHead /\ t = T(p[2])
      <4>1. f[p] = p[2]
        BY <3>1, <3>5
      <4>. QED  BY <2>2, <3>5, <4>1, FoundAt
    <3>6. CASE ~ findHead /\ t # T(p[2])
      <4>1. f[p] = p[1]
        BY <3>1, <3>6
      <4>2. t < T(p[1] + 1)
        BY <2>2, <3>2, <3>6
      <4>3. Found(time, t, c, FALSE, p[1])
        BY <2>2, <3>2, <4>2, FoundBetween
      <4>. QED  BY <3>6, <4>1, <4>3
    <3>. QED  BY <3>3, <3>4, <3>5, <3>6
  <2>5. CASE p[1] # p[2] /\ p[2] - p[1] # 1
    <3> DEFINE m == mid(p)
    <3>1. /\ m \in 1 .. c /\ p[1] < m /\ m < p[2]
          /\ lower(p) \in P /\ lower(p)[1] = p[1] /\ lower(p)[2] = m
          /\ upper(p) \in P /\ upper(p)[1] = m /\ upper(p)[2] = p[2]
      BY <1>3, <2>5
    <3>2. T(m) \in Nat
      BY <3>1 DEF Climbs
    <3>. HIDE DEF P, lower, upper, mid, base, T
    <3>3. f[p] = IF T(m) = t THEN m ELSE IF T(m) > t THEN f[lower(p)] ELSE f[upper(p)]
      BY <2>1, <2>5 DEF step
    <3>4. m - p[1] < p[2] - p[1] /\ p[2] - m < p[2] - p[1]
      BY <2>2, <3>1
    <3>5. R(lower(p)) /\ R(upper(p))
      <4>. HIDE DEF R
      <4>. QED  BY <1>15, <3>1, <3>4
    <3>6. CASE T(m) = t
      <4>1. f[p] = m
        BY <3>3, <3>6
      <4>. QED  BY <3>1, <3>6, <4>1, FoundAt DEF T
    <3>7. CASE T(m) > t
      <4>1. f[p] = f[lower(p)] /\ t <= T(m)
        BY <3>2, <3>3, <3>7
      <4>2. Found(time, t, c, findHead, f[lower(p)])
        BY <3>1, <3>5, <4>1
      <4>. QED  BY <4>1, <4>2
    <3>8. CASE T(m) # t /\ ~ (T(m) > t)
      <4>1. f[p] = f[upper(p)] /\ T(m) <= t
        BY <3>2, <3>3, <3>8
      <4>2. Found(time, t, c, findHead, f[upper(p)])
        BY <3>1, <3>5, <4>1
      <4>. QED  BY <4>1, <4>2
    <3>. QED  BY <3>6, <3>7, <3>8
  <2>. QED  BY <2>3, <2>4, <2>5
<1>16. 0 \in E
  <2>1. 0 \in 0 .. c - 1
    OBVIOUS
  <2>2. ASSUME NEW p \in P, p[2] - p[1] <= 0 PROVE R(p)
    <3>1. \A q \in P : ~ (q[2] - q[1] < p[2] - p[1])
      BY <1>2, <2>2
    <3>. HIDE DEF R, P
    <3>. QED  BY <1>15, <3>1
  <2>. HIDE DEF R, P
  <2>. QED  BY <2>1, <2>2
<1>17. ASSUME NEW d \in 0 .. (c - 1) - 1, d \in E PROVE d + 1 \in E
  <2>1. d + 1 \in 0 .. c - 1 /\ d \in Int
    OBVIOUS
  <2>2. ASSUME NEW p \in P, p[2] - p[1] <= d + 1 PROVE R(p)
    <3>1. \A q \in P : q[2] - q[1] < p[2] - p[1] => q[2] - q[1] <= d
      <4>. TAKE q \in P
      <4>1. q[1] \in Int /\ q[2] \in Int /\ p[1] \in Int /\ p[2] \in Int
        BY <1>2
      <4>. HIDE DEF P, R
      <4>. QED  BY <2>1, <2>2, <4>1
    <3>. HIDE DEF R, P
    <3>2. \A q \in P : q[2] - q[1] <= d => R(q)
      BY <1>17
    <3>. QED  BY <1>15, <3>1, <3>2
  <2>. HIDE DEF R, P
  <2>. QED  BY <2>1, <2>2
<1>18. R(<<1, c>>)
  <2>1. c - 1 \in Nat /\ c - 1 \in 0 .. c - 1 /\ <<1, c>> \in P /\ <<1, c>>[2] - <<1, c>>[1] <= c - 1
    OBVIOUS
  <2>. HIDE DEF E
  <2>2. \A d \in 0 .. c - 1 : d \in E
    BY <1>16, <1>17, <2>1, UpTo
  <2>3. c - 1 \in E
    BY <2>1, <2>2
  <2>. HIDE DEF R, P
  <2>. QED  BY <2>1, <2>3 DEF E
<1>. QED  BY <1>1, <1>18

LEMMA RisingIs ==
  ASSUME NEW begin \in Nat, begin >= 1, NEW c \in Nat, NEW time \in Rising(begin, c)
  PROVE  /\ Climbs(time, c)
         /\ \A s \in begin .. c : TimeOf(time, s) = time[s] /\ time[s] \in Nat /\ time[s] >= 1
<1>1. /\ time \in [begin .. c -> 1 .. MaxCount + 1]
      /\ \A a, b \in begin .. c : a < b => time[a] < time[b]
  BY DEF Rising
<1>2. DOMAIN time = begin .. c
  BY <1>1
<1>3. ASSUME NEW s \in begin .. c PROVE TimeOf(time, s) = time[s] /\ time[s] \in Nat /\ time[s] >= 1
  BY <1>1, <1>2, MemoryAssumption DEF TimeOf
<1>4. ASSUME NEW s \in 1 .. c, s \notin begin .. c PROVE TimeOf(time, s) = 0 /\ s < begin
  BY <1>2, <1>4 DEF TimeOf
<1> DEFINE T(s) == TimeOf(time, s)
<1>5. ASSUME NEW s \in 1 .. c PROVE T(s) \in Nat
  <2>1. CASE s \in begin .. c
    BY <1>3, <2>1
  <2>2. CASE s \notin begin .. c
    BY <1>4, <2>2
  <2>. QED  BY <2>1, <2>2
<1>6. ASSUME NEW s \in 1 .. c, NEW u \in 1 .. c, s < u
      PROVE  T(s) <= T(u) /\ (T(u) >= 1 => T(s) < T(u))
  <2>1. CASE s \in begin .. c
    <3>1. u \in begin .. c
      BY <1>6, <2>1
    <3>2. time[s] < time[u]
      BY <1>1, <1>6, <2>1, <3>1
    <3>3. T(s) = time[s] /\ T(u) = time[u] /\ time[s] \in Nat /\ time[u] \in Nat
      BY <1>3, <2>1, <3>1
    <3>. HIDE DEF T
    <3>. QED  BY <3>2, <3>3
  <2>2. CASE s \notin begin .. c
    <3>1. T(s) = 0 /\ T(u) \in Nat
      BY <1>4, <1>5, <2>2
    <3>. HIDE DEF T
    <3>. QED  BY <3>1
  <2>. QED  BY <2>1, <2>2
<1>. QED  BY <1>3, <1>5, <1>6 DEF Climbs

LEMMA QueryIs ==
  ASSUME NEW begin \in Nat, begin >= 1, NEW c \in Nat, NEW time \in Rising(begin, c),
         NEW t1 \in Nat, NEW t2 \in Nat, t1 <= t2
  PROVE  queryMessageIDs(time, c, t1, t2) \cap (begin .. c) =
           {s \in begin .. c : t1 <= time[s] /\ (t2 = 0 \/ time[s] <= t2)}
<1> DEFINE T(s) == TimeOf(time, s)
           head == IF t1 # 0 /\ t1 >= T(1) THEN findSeqByTimeStamp(time, t1, 1, c, TRUE) ELSE 1
           tail == IF t2 # 0 /\ t2 <= T(c) THEN findSeqByTimeStamp(time, t2, 1, c, FALSE) ELSE c
           none == c = 0 \/ (t1 # 0 /\ t1 > T(c)) \/ (t2 # 0 /\ t2 < T(1))
<1>1. queryMessageIDs(time, c, t1, t2) = IF none THEN {} ELSE head .. tail
  <2>1. t1 \in Int /\ t2 \in Int
    OBVIOUS
  <2>2. Min({t1, t2}) = t1
    BY <2>1, MinOfPair
  <2>3. Max({t1, t2}) = t2
    <3>1. Max({t1, t2}) = IF t1 >= t2 THEN t1 ELSE t2
      BY <2>1, MaxOfPair
    <3>. QED  BY <3>1
  <2>4. Base = 1
    BY MemoryAssumption
  <2>. QED  BY <2>2, <2>3, <2>4, Zenon DEF queryMessageIDs
<1>2. /\ Climbs(time, c)
      /\ \A s \in begin .. c : T(s) = time[s]
  BY RisingIs
<1>3. ASSUME NEW s \in 1 .. c
      PROVE  T(s) \in Nat /\ T(1) \in Nat /\ T(c) \in Nat /\ T(1) <= T(s) /\ T(s) <= T(c) /\ c \in Nat \ {0}
  <2>1. 1 \in 1 .. c /\ c \in 1 .. c /\ c \in Nat \ {0}
    OBVIOUS
  <2>2. T(s) \in Nat /\ T(1) \in Nat /\ T(c) \in Nat
    BY <1>2, <2>1 DEF Climbs
  <2>3. 1 < s => T(1) <= T(s)
    BY <1>2, <2>1 DEF Climbs
  <2>4. s < c => T(s) <= T(c)
    BY <1>2, <2>1 DEF Climbs
  <2>5. (s = 1 => T(s) = T(1)) /\ (s = c => T(s) = T(c))
    OBVIOUS
  <2>. HIDE DEF T
  <2>. QED  BY <2>1, <2>2, <2>3, <2>4, <2>5
<1>4. ASSUME NEW s \in 1 .. c, ~ none PROVE head \in Int /\ (s >= head <=> t1 <= T(s))
  <2>1. CASE t1 # 0 /\ t1 >= T(1)
    <3>1. head = findSeqByTimeStamp(time, t1, 1, c, TRUE)
      BY <2>1
    <3>2. t1 <= T(c) /\ T(1) <= t1 /\ t1 >= 1
      BY <1>3, <1>4, <2>1
    <3>3. Found(time, t1, c, TRUE, head)
      BY <1>2, <1>3, <3>1, <3>2, FindIs
    <3>4. head \in 1 .. c /\ (s >= head <=> TimeOf(time, s) >= t1)
      <4>. HIDE DEF head
      <4>. QED  BY <3>3 DEF Found
    <3>. HIDE DEF head
    <3>5. T(s) >= t1 <=> t1 <= T(s)
      BY <1>3
    <3>. QED  BY <3>4, <3>5
  <2>2. CASE ~ (t1 # 0 /\ t1 >= T(1))
    <3>1. head = 1
      BY <2>2
    <3>2. t1 <= T(s)
      <4>1. T(s) \in Nat /\ T(1) \in Nat /\ T(1) <= T(s)
        BY <1>3
      <4>. HIDE DEF T, none
      <4>. QED  BY <2>2, <4>1
    <3>. HIDE DEF head
    <3>. QED  BY <3>1, <3>2
  <2>. QED  BY <2>1, <2>2
<1>5. ASSUME NEW s \in 1 .. c, ~ none PROVE tail \in Int /\ (s <= tail <=> t2 = 0 \/ T(s) <= t2)
  <2>1. CASE t2 # 0 /\ t2 <= T(c)
    <3>1. tail = findSeqByTimeStamp(time, t2, 1, c, FALSE)
      BY <2>1
    <3>2. t2 <= T(c) /\ T(1) <= t2 /\ t2 >= 1
      BY <1>3, <1>5, <2>1
    <3>3. Found(time, t2, c, FALSE, tail)
      BY <1>2, <1>3, <3>1, <3>2, FindIs
    <3>4. tail \in 1 .. c /\ (s <= tail <=> TimeOf(time, s) <= t2)
      <4>. HIDE DEF tail
      <4>. QED  BY <3>3 DEF Found
    <3>. HIDE DEF tail
    <3>. QED  BY <2>1, <3>4
  <2>2. CASE ~ (t2 # 0 /\ t2 <= T(c))
    <3>1. tail = c
      BY <2>2
    <3>2. t2 = 0 \/ T(s) <= t2
      <4>1. T(s) \in Nat /\ T(c) \in Nat /\ T(s) <= T(c)
        BY <1>3
      <4>. HIDE DEF T, none
      <4>. QED  BY <2>2, <4>1
    <3>. HIDE DEF tail
    <3>. QED  BY <3>1, <3>2
  <2>. QED  BY <2>1, <2>2
<1>6. ASSUME NEW s \in begin .. c
      PROVE  s \in queryMessageIDs(time, c, t1, t2) <=> t1 <= time[s] /\ (t2 = 0 \/ time[s] <= t2)
  <2>1. s \in 1 .. c /\ T(s) = time[s]
    BY <1>2
  <2>2. CASE none
    <3>1. ~ (t1 <= T(s) /\ (t2 = 0 \/ T(s) <= t2))
      <4>1. T(s) \in Nat /\ T(1) \in Nat /\ T(c) \in Nat /\ T(1) <= T(s) /\ T(s) <= T(c) /\ c # 0
        BY <1>3, <2>1
      <4>. HIDE DEF T
      <4>. QED  BY <2>2, <4>1
    <3>2. queryMessageIDs(time, c, t1, t2) = {}
      BY <1>1, <2>2
    <3>. QED  BY <2>1, <3>1, <3>2
  <2>3. CASE ~ none
    <3>1. queryMessageIDs(time, c, t1, t2) = head .. tail
      BY <1>1, <2>3
    <3>2. /\ head \in Int /\ (s >= head <=> t1 <= T(s))
          /\ tail \in Int /\ (s <= tail <=> t2 = 0 \/ T(s) <= t2)
      BY <1>4, <1>5, <2>1, <2>3
    <3>. HIDE DEF head, tail, T
    <3>3. s \in head .. tail <=> s >= head /\ s <= tail
      BY <2>1, <3>2
    <3>. QED  BY <2>1, <3>1, <3>2, <3>3
  <2>. QED  BY <2>2, <2>3
<1>. QED  BY <1>6

\* queryMessageIDs and findSeqByTimeStamp: the halving search finds the first and the last
\* message between two times, also when the first ones were trimmed and have no time.
THEOREM QueryFindsAlways == Spec => []QueryFindsAll
<1>1. Inv => QueryFindsAll
  <2>. SUFFICES ASSUME Inv PROVE QueryFindsAll
    OBVIOUS
  <2>1. store.begin \in 1 .. MaxCount + 1 /\ store.count \in 0 .. MaxCount /\ MaxCount \in Nat
    BY InvIs
  <2>2. ASSUME NEW begin \in 1 .. MaxCount + 1, NEW count \in 0 .. MaxCount
        PROVE  QueryFinds[begin][count]
    <3>1. \A time \in Rising(begin, count) : \A t1, t2 \in 0 .. MaxCount + 2 : t1 <= t2 =>
            queryMessageIDs(time, count, t1, t2) \cap (begin .. count) =
              {s \in begin .. count : t1 <= time[s] /\ (t2 = 0 \/ time[s] <= t2)}
      <4>. TAKE time \in Rising(begin, count)
      <4>. TAKE t1, t2 \in 0 .. MaxCount + 2
      <4>. HAVE t1 <= t2
      <4>1. begin \in Nat /\ begin >= 1 /\ count \in Nat /\ t1 \in Nat /\ t2 \in Nat
        BY <2>1
      <4>. QED  BY <4>1, QueryIs
    <3> DEFINE Q(x, y) == \A time \in Rising(x, y) : \A t1, t2 \in 0 .. MaxCount + 2 : t1 <= t2 =>
                            queryMessageIDs(time, y, t1, t2) \cap (x .. y) =
                              {s \in x .. y : t1 <= time[s] /\ (t2 = 0 \/ time[s] <= t2)}
    <3>2. Q(begin, count)
      BY <3>1
    <3>3. QueryFinds = [x \in 1 .. MaxCount + 1 |-> [y \in 0 .. MaxCount |-> Q(x, y)]]
      BY DEF QueryFinds
    <3>. HIDE DEF Q
    <3>4. QueryFinds[begin][count] = Q(begin, count)
      BY <3>3, Zenon
    <3>. QED  BY <3>2, <3>4
  <2>. QED  BY <2>1, <2>2 DEF QueryFindsAll
<1>. QED  BY <1>1, Invariant, PTL

=============================================================================
