-------------------------- MODULE LevelIndexProofs --------------------------
(***************************************************************************)
(* Proofs about the level index of a store whose first sequence is 1, the  *)
(* number that fillDefaultLevelInfo starts from.                           *)
(*                                                                         *)
(* The argument: the walk only works because the record it looks at is     *)
(* always in the last range, and that range reaches the end of the store   *)
(* (IInv's last conjunct).  Each change of the ranges then has to keep them *)
(* disjoint and to keep every other record covered.                        *)
(***************************************************************************)
EXTENDS LevelIndex, WellFoundedInduction, TLAPS

-----------------------------------------------------------------------------
(* The least and the greatest element of a set *)

\* A nonempty set of naturals has a least element, and Min finds it.
LEMMA MinExists ==
  ASSUME NEW S, S \subseteq Nat, S # {}
  PROVE  Min(S) \in S /\ \A y \in S : Min(S) <= y
<1> DEFINE R == OpToRel(<, Nat)
<1>0. \A x, y \in Nat : <<y, x>> \in R <=> y < x
  BY Zenon DEF OpToRel
<1>a. IsWellFoundedOn(R, Nat)
  BY NatLessThanWellFounded
<1> HIDE DEF R
<1>1. \E x \in S : \A y \in S : ~(<<y, x>> \in R)
  BY <1>a, WFMin
<1>2. \E x \in S : \A y \in S : x <= y
  <2>1. PICK x \in S : \A y \in S : ~(<<y, x>> \in R)
    BY <1>1
  <2>2. ASSUME NEW y \in S PROVE x <= y
    <3>1. ~(<<y, x>> \in R)
      BY <2>1
    <3>2. x \in Nat /\ y \in Nat
      OBVIOUS
    <3>3. ~(y < x)
      BY <1>0, <3>1, <3>2, Zenon
    <3>. QED  BY <3>2, <3>3
  <2>. QED  BY <2>2
<1>. QED  BY <1>2 DEF Min

\* So has a bounded one a greatest element: the mirror image has a least one.
LEMMA MaxExists ==
  ASSUME NEW S, S \subseteq Nat, S # {}, NEW n \in Nat, \A x \in S : x <= n
  PROVE  Max(S) \in S /\ \A y \in S : Max(S) >= y
<1> DEFINE M == {x \in 0 .. n : n - x \in S}
<1>1. M \subseteq Nat /\ M # {}
  <2>1. PICK x \in S : TRUE
    OBVIOUS
  <2>2. n - x \in 0 .. n /\ n - (n - x) = x
    BY <2>1
  <2>. QED  BY <2>1, <2>2
<1>2. Min(M) \in M /\ \A y \in M : Min(M) <= y
  BY <1>1, MinExists
<1>3. n - Min(M) \in S
  BY <1>2
<1>4. ASSUME NEW y \in S PROVE n - Min(M) >= y
  <2>1. n - y \in M
    <3>1. n - y \in 0 .. n /\ n - (n - y) = y
      OBVIOUS
    <3>. QED  BY <3>1
  <2>2. Min(M) <= n - y /\ Min(M) \in 0 .. n
    BY <1>2, <2>1
  <2>. QED  BY <2>2
<1>. HIDE DEF M
<1>5. \E x \in S : \A y \in S : x >= y
  BY <1>3, <1>4
<1>. QED  BY <1>5 DEF Max

-----------------------------------------------------------------------------
(* The ranges *)

\* Ranges over records 1..n; an empty range [1, 0] is possible.
RangesInv(m, n) ==
  /\ DOMAIN m \subseteq 1 .. n + 1
  /\ \A k \in DOMAIN m : m[k] \in 0 .. n /\ k <= m[k] + 1
  /\ \A j, k \in DOMAIN m : j < k => m[j] < k

Kept(m, n) == DOMAIN m # {} /\ m[Last(m)] = n

IInv ==
  /\ phase \in {"closed", "walking", "running"}
  /\ count \in 0 .. MaxCount /\ walked \in 0 .. count /\ restarts \in 0 .. MaxRestarts
  /\ stored \in [Seqs -> Levels]
  /\ levelRecords = [l \in Levels |-> {s \in Indexed : l # DEFAULT_LEVEL /\ stored[s] = l}]
  /\ DOMAIN priority = {s \in Indexed : stored[s] # DEFAULT_LEVEL}
  /\ \A s \in DOMAIN priority : priority[s] = stored[s]
  /\ RangesInv(defaultRanges, count)
  /\ \A s \in Indexed : stored[s] = DEFAULT_LEVEL => InDefault(s)
  /\ phase = "closed" => walked = 0 /\ defaultRanges = EmptyMap
  /\ phase = "walking" /\ walked < count =>
       Kept(defaultRanges, count) /\ Last(defaultRanges) <= walked + 1

-----------------------------------------------------------------------------
(* The changes of the ranges *)

\* rbegin() of the ranges is their greatest key.
LEMMA LastIsGreatest ==
  ASSUME NEW n \in Nat, NEW m, RangesInv(m, n), DOMAIN m # {}
  PROVE  /\ Last(m) \in DOMAIN m /\ Last(m) \in 1 .. n + 1
         /\ \A k \in DOMAIN m : k <= Last(m)
<1>1. DOMAIN m \subseteq Nat /\ n + 1 \in Nat /\ \A x \in DOMAIN m : x <= n + 1
  BY DEF RangesInv
<1>2. Max(DOMAIN m) \in DOMAIN m /\ \A k \in DOMAIN m : Max(DOMAIN m) >= k
  BY <1>1, MaxExists
<1>. QED  BY <1>1, <1>2 DEF Last, RangesInv

\* A key that is at least every other key is the last one.
LEMMA LastUnique ==
  ASSUME NEW n \in Nat, NEW m, RangesInv(m, n), NEW k \in DOMAIN m,
         \A j \in DOMAIN m : j <= k
  PROVE  Last(m) = k
<1>1. Last(m) \in DOMAIN m /\ k <= Last(m) /\ Last(m) \in Nat /\ k \in Nat
  BY LastIsGreatest DEF RangesInv
<1>. QED  BY <1>1

\* addLevelInfo, default level: the new record is covered, nothing else changes.
LEMMA AppendedSound ==
  ASSUME NEW n \in Nat, NEW m, RangesInv(m, n)
  PROVE  /\ RangesInv(Appended(m, n + 1), n + 1)
         /\ \A t \in Nat : Covers(Appended(m, n + 1), t) <=> Covers(m, t) \/ t = n + 1
<1>. DEFINE s == n + 1
            a == Appended(m, s)
<1>1. CASE DOMAIN m # {} /\ m[Last(m)] + 1 = s
  <2>. DEFINE L == Last(m)
  <2>0. L \in DOMAIN m /\ L \in 1 .. n + 1 /\ \A k \in DOMAIN m : k <= L
    BY <1>1, LastIsGreatest
  <2>1. m[L] = n
    BY <1>1, <2>0 DEF RangesInv
  <2>2. a = [m EXCEPT ![L] = s]
    BY <1>1 DEF Appended
  <2>3. DOMAIN a = DOMAIN m /\ a[L] = s /\ \A k \in DOMAIN m : k # L => a[k] = m[k]
    BY <2>0, <2>2
  <2>. HIDE DEF a, L
  <2>4. RangesInv(a, s)
    BY <2>0, <2>1, <2>3 DEF RangesInv
  <2>5. ASSUME NEW t \in Nat PROVE Covers(a, t) <=> Covers(m, t) \/ t = s
    BY <2>0, <2>1, <2>3 DEF Covers, RangesInv
  <2>. QED  BY <2>4, <2>5 DEF a
<1>2. CASE ~(DOMAIN m # {} /\ m[Last(m)] + 1 = s)
  <2>1. s \notin DOMAIN m
    <3>1. SUFFICES ASSUME s \in DOMAIN m PROVE FALSE
      OBVIOUS
    <3>2. m[s] = n /\ \A j \in DOMAIN m : j <= s
      BY <3>1 DEF RangesInv
    <3>3. Last(m) = s
      BY <3>1, <3>2, LastUnique
    <3>. QED  BY <1>2, <3>1, <3>2, <3>3
  <2>2. a = Put(m, s, s)
    BY <1>2, <2>1 DEF Appended, Emplace
  <2>3. DOMAIN a = DOMAIN m \cup {s} /\ a[s] = s /\ \A k \in DOMAIN m : a[k] = m[k]
    BY <2>1, <2>2 DEF Put
  <2>. HIDE DEF a
  <2>4. RangesInv(a, s)
    BY <2>3 DEF RangesInv
  <2>5. ASSUME NEW t \in Nat PROVE Covers(a, t) <=> Covers(m, t) \/ t = s
    BY <2>3 DEF Covers
  <2>. QED  BY <2>4, <2>5 DEF a
<1>. QED  BY <1>1, <1>2

\* moveRecordLevel: the record it moves is the only one whose range may go, and
\* the last range still reaches the end, from the next record on.
LEMMA CutSound ==
  ASSUME NEW n \in Nat, NEW m, RangesInv(m, n), DOMAIN m # {},
         NEW s \in 1 .. n, Last(m) <= s, m[Last(m)] = n
  PROVE  /\ RangesInv(Cut(m, s), n)
         /\ \A t \in Nat : t # s /\ Covers(m, t) => Covers(Cut(m, s), t)
         /\ s < n => Kept(Cut(m, s), n) /\ Last(Cut(m, s)) <= s + 1
<1>. DEFINE L == Last(m)
            c == Cut(m, s)
<1>1. L \in DOMAIN m /\ L \in 1 .. n + 1 /\ (\A k \in DOMAIN m : k <= L) /\ m[L] = n /\ L <= s
  BY LastIsGreatest
<1>2. CASE s = L /\ s < n
  <2>1. c = m
    BY <1>1, <1>2 DEF Cut
  <2>. QED  BY <1>1, <1>2, <2>1 DEF Kept
<1>3. CASE s = L /\ ~(s < n)
  <2>1. c = [k \in DOMAIN m \ {L} |-> m[k]] /\ s = n
    BY <1>1, <1>3 DEF Cut, Drop, Restrict
  <2>2. DOMAIN c = DOMAIN m \ {L} /\ \A k \in DOMAIN c : c[k] = m[k]
    BY <2>1
  <2>. HIDE DEF c, L
  <2>3. RangesInv(c, n)
    BY <2>2 DEF RangesInv
  <2>4. ASSUME NEW t \in Nat, t # s, Covers(m, t) PROVE Covers(c, t)
    <3>1. PICK k \in DOMAIN m : k <= t /\ t <= m[k]
      BY <2>4 DEF Covers
    <3>2. k # L
      BY <1>1, <1>3, <2>1, <2>4, <3>1
    <3>. QED  BY <2>2, <3>1, <3>2 DEF Covers
  <2>. QED  BY <1>3, <2>1, <2>3, <2>4 DEF c
<1>4. CASE s # L /\ s = n
  <2>1. c = [m EXCEPT ![L] = n - 1]
    BY <1>1, <1>4 DEF Cut
  <2>2. DOMAIN c = DOMAIN m /\ c[L] = n - 1 /\ \A k \in DOMAIN m : k # L => c[k] = m[k]
    BY <1>1, <2>1
  <2>. HIDE DEF c, L
  <2>3. RangesInv(c, n)
    BY <1>1, <1>4, <2>2 DEF RangesInv
  <2>4. ASSUME NEW t \in Nat, t # s, Covers(m, t) PROVE Covers(c, t)
    BY <1>1, <1>4, <2>2, <2>4 DEF Covers, RangesInv
  <2>. QED  BY <1>4, <2>3, <2>4 DEF c
<1>5. CASE s # L /\ s # n
  <2>1. c = Put([m EXCEPT ![L] = s - 1], s + 1, n) /\ s + 1 \notin DOMAIN m /\ s < n
    BY <1>1, <1>5 DEF Cut
  <2>2. /\ DOMAIN c = DOMAIN m \cup {s + 1} /\ c[s + 1] = n /\ c[L] = s - 1
        /\ \A k \in DOMAIN m : k # L => c[k] = m[k]
    BY <1>1, <2>1 DEF Put
  <2>. HIDE DEF c, L
  <2>3. RangesInv(c, n)
    <3>0. /\ s < n /\ DOMAIN m \subseteq 1 .. n + 1
          /\ \A k \in DOMAIN m : m[k] \in 0 .. n /\ k <= m[k] + 1
          /\ \A j, k \in DOMAIN m : j < k => m[j] < k
      BY <2>1 DEF RangesInv
    <3>1. DOMAIN c \subseteq 1 .. n + 1
      BY <2>2, <3>0
    <3>2. ASSUME NEW k \in DOMAIN c PROVE c[k] \in 0 .. n /\ k <= c[k] + 1
      <4>1. CASE k = s + 1
        BY <2>2, <3>0, <4>1
      <4>2. CASE k = L
        BY <1>1, <1>5, <2>2, <3>0, <4>2
      <4>3. CASE k # s + 1 /\ k # L
        BY <2>2, <3>0, <4>3
      <4>. QED  BY <4>1, <4>2, <4>3
    <3>3. ASSUME NEW j \in DOMAIN c, NEW k \in DOMAIN c, j < k PROVE c[j] < k
      <4>1. CASE k = s + 1
        <5>1. j \in DOMAIN m
          BY <2>2, <3>3, <4>1
        <5>2. j # L => m[j] < L
          BY <1>1, <3>0, <5>1
        <5>3. j # L => c[j] = m[j] /\ m[j] \in Nat
          BY <2>2, <3>0, <5>1
        <5>4. j = L => c[j] = s - 1
          BY <2>2
        <5>. QED  BY <1>1, <3>0, <4>1, <5>2, <5>3, <5>4
      <4>2. CASE k # s + 1
        <5>1. k \in DOMAIN m /\ k <= L /\ j < L /\ j \in DOMAIN m
          BY <1>1, <1>5, <2>2, <3>0, <3>3, <4>2
        <5>2. c[j] = m[j]
          BY <1>1, <2>2, <3>0, <5>1
        <5>. QED  BY <3>0, <3>3, <5>1, <5>2
      <4>. QED  BY <4>1, <4>2
    <3>. QED  BY <3>1, <3>2, <3>3 DEF RangesInv
  <2>4. ASSUME NEW t \in Nat, t # s, Covers(m, t) PROVE Covers(c, t)
    <3>1. PICK k \in DOMAIN m : k <= t /\ t <= m[k]
      BY <2>4 DEF Covers
    <3>2. CASE k # L
      BY <2>2, <3>1, <3>2 DEF Covers
    <3>3. CASE k = L /\ t < s
      <4>1. L \in DOMAIN c /\ L <= t /\ t <= c[L]
        BY <1>1, <2>2, <3>1, <3>3
      <4>. QED  BY <4>1 DEF Covers
    <3>4. CASE k = L /\ ~(t < s)
      <4>1. s + 1 \in DOMAIN c /\ s + 1 <= t /\ t <= c[s + 1]
        BY <1>1, <2>2, <2>4, <3>1, <3>4
      <4>. QED  BY <4>1 DEF Covers
    <3>. QED  BY <3>2, <3>3, <3>4
  <2>5. Last(c) = s + 1
    <3>1. s + 1 \in DOMAIN c /\ \A k \in DOMAIN c : k <= s + 1
      BY <1>1, <2>2 DEF RangesInv
    <3>. QED  BY <2>3, <3>1, LastUnique
  <2>6. Kept(c, n)
    BY <2>2, <2>5 DEF Kept
  <2>. QED  BY <2>3, <2>4, <2>5, <2>6 DEF c
<1>. QED  BY <1>1, <1>2, <1>3, <1>4, <1>5

-----------------------------------------------------------------------------
(* The invariant *)

LEMMA InitIInv == Base = 1 /\ Init => IInv
<1> SUFFICES ASSUME Base = 1, Init PROVE IInv
  OBVIOUS
<1>. USE LevelAssumption DEF Init, EmptyMap
<1>1. Seqs = {} /\ Indexed = {}
  BY DEF Seqs, Indexed, Walked
<1>2. levelRecords = [l \in Levels |-> {s \in Indexed : l # DEFAULT_LEVEL /\ stored[s] = l}]
  BY <1>1 DEF NoLists
<1>3. RangesInv(defaultRanges, count)
  BY DEF RangesInv
<1>4. stored \in [Seqs -> Levels]
  BY <1>1
<1>. QED  BY <1>1, <1>2, <1>3, <1>4 DEF IInv

LEMMA StepIInv == Base = 1 /\ IInv /\ [Next]_vars => IInv'
<1> SUFFICES ASSUME Base = 1, IInv, [Next]_vars PROVE IInv'
  OBVIOUS
<1>. USE LevelAssumption
<1>1. CASE Open
  <2>. USE <1>1 DEF Open
  <2>1. defaultRanges' = [x \in {1} |-> count]
    BY DEF Emplace, Put, EmptyMap
  <2>2. RangesInv(defaultRanges', count')
    BY <2>1 DEF RangesInv, IInv
  <2>3. Seqs' = Seqs /\ Indexed = {} /\ Indexed' = {}
    BY DEF Seqs, Indexed, Walked, IInv
  <2>4. Last(defaultRanges') = 1 /\ Kept(defaultRanges', count')
    <3>1. Last(defaultRanges') = 1
      BY <2>1, <2>2, LastUnique DEF IInv
    <3>. QED  BY <2>1, <3>1 DEF Kept
  <2>. QED  BY <2>2, <2>3, <2>4 DEF IInv
<1>2. CASE Walk
  <2>. DEFINE s == Base + walked
  <2>0. /\ phase = "walking" /\ walked < count /\ walked' = walked + 1
        /\ InitRecordLevel(s, stored[s])
        /\ UNCHANGED <<phase, count, stored, restarts>>
    BY <1>2 DEF Walk
  <2>1. /\ s \in Seqs /\ s = walked + 1 /\ stored[s] \in Levels /\ count \in Nat
        /\ s \in 1 .. count /\ walked \in Nat
    BY <2>0 DEF IInv, Seqs
  <2>2. /\ Seqs' = Seqs /\ Indexed = 1 .. walked /\ Indexed' = Indexed \cup {s}
        /\ s \notin Indexed
    BY <2>0, <2>1 DEF Seqs, Indexed, Walked
  <2>3. /\ Kept(defaultRanges, count) /\ Last(defaultRanges) <= s
        /\ RangesInv(defaultRanges, count)
    BY <2>0, <2>1 DEF IInv
  <2>4. /\ DOMAIN defaultRanges # {} /\ defaultRanges[Last(defaultRanges)] = count
        /\ Last(defaultRanges) \in DOMAIN defaultRanges
    BY <2>1, <2>3, LastIsGreatest DEF Kept
  <2>5. CASE stored[s] = DEFAULT_LEVEL
    <3>1. UNCHANGED index
      BY <2>0, <2>5 DEF InitRecordLevel
    <3>2. UNCHANGED defaultRanges /\ UNCHANGED levelRecords /\ UNCHANGED priority
      BY <3>1 DEF index
    <3>3. Covers(defaultRanges, s)
      BY <2>1, <2>3, <2>4 DEF Covers
    <3>4. levelRecords' = [l \in Levels |-> {t \in Indexed' : l # DEFAULT_LEVEL /\ stored'[t] = l}]
      BY <2>0, <2>2, <2>5, <3>2 DEF IInv
    <3>5. DOMAIN priority' = {t \in Indexed' : stored'[t] # DEFAULT_LEVEL}
      BY <2>0, <2>2, <2>5, <3>2 DEF IInv
    <3>6. \A t \in DOMAIN priority' : priority'[t] = stored'[t]
      BY <2>0, <3>2 DEF IInv
    <3>7. \A t \in Indexed' : stored'[t] = DEFAULT_LEVEL => InDefault(t)'
      BY <2>0, <2>2, <3>2, <3>3 DEF IInv, InDefault
    <3>8. walked' < count' => Kept(defaultRanges', count') /\ Last(defaultRanges') <= walked' + 1
      <4>1. Last(defaultRanges) \in Nat
        BY <2>1, <2>3, <2>4, LastIsGreatest
      <4>. QED  BY <2>0, <2>1, <2>3, <3>2, <4>1
    <3>9. /\ RangesInv(defaultRanges', count') /\ stored' \in [Seqs' -> Levels]
          /\ phase' = "walking" /\ restarts' \in 0 .. MaxRestarts
          /\ count' \in 0 .. MaxCount /\ walked' \in 0 .. count'
      BY <2>0, <2>1, <2>2, <2>3, <3>2 DEF IInv
    <3>. QED  BY <3>4, <3>5, <3>6, <3>7, <3>8, <3>9 DEF IInv
  <2>6. CASE stored[s] # DEFAULT_LEVEL
    <3>1. defaultRanges' = Cut(defaultRanges, s) /\ Listed(s, stored[s])
      BY <2>0, <2>1, <2>3, <2>4, <2>6 DEF InitRecordLevel
    <3>2. /\ RangesInv(defaultRanges', count)
          /\ \A t \in Nat : t # s /\ Covers(defaultRanges, t) => Covers(defaultRanges', t)
          /\ s < count => Kept(defaultRanges', count) /\ Last(defaultRanges') <= s + 1
      BY <2>1, <2>3, <2>4, <3>1, CutSound
    <3>3. levelRecords' = [l \in Levels |-> {t \in Indexed' : l # DEFAULT_LEVEL /\ stored'[t] = l}]
      <4>1. levelRecords' = [levelRecords EXCEPT ![stored[s]] = @ \cup {s}]
        BY <3>1 DEF Listed
      <4>2. levelRecords = [l \in Levels |-> {t \in Indexed : l # DEFAULT_LEVEL /\ stored[t] = l}]
        BY DEF IInv
      <4>3. stored' = stored /\ Indexed' = Indexed \cup {s}
        BY <2>0, <2>2
      <4>. QED  BY <2>1, <2>6, <4>1, <4>2, <4>3
    <3>4. priority' = Put(priority, s, stored[s])
      BY <2>2, <3>1 DEF IInv, Listed, Emplace
    <3>5. DOMAIN priority' = {t \in Indexed' : stored'[t] # DEFAULT_LEVEL}
      BY <2>0, <2>2, <2>6, <3>4 DEF IInv, Put
    <3>6. \A t \in DOMAIN priority' : priority'[t] = stored'[t]
      BY <2>0, <3>4 DEF IInv, Put
    <3>7. \A t \in Indexed' : stored'[t] = DEFAULT_LEVEL => InDefault(t)'
      BY <2>0, <2>1, <2>2, <2>6, <3>2 DEF IInv, InDefault
    <3>8. walked' < count' => Kept(defaultRanges', count') /\ Last(defaultRanges') <= walked' + 1
      BY <2>0, <2>1, <3>2
    <3>. QED  BY <2>0, <2>1, <2>2, <3>2, <3>3, <3>5, <3>6, <3>7, <3>8 DEF IInv
  <2>. QED  BY <2>5, <2>6
<1>3. CASE WalkEnds
  <2>1. /\ UNCHANGED defaultRanges /\ UNCHANGED levelRecords /\ UNCHANGED priority
        /\ UNCHANGED count /\ UNCHANGED stored /\ UNCHANGED walked /\ UNCHANGED restarts
        /\ phase = "walking" /\ phase' = "running" /\ walked = count
    BY <1>3 DEF WalkEnds, index
  <2>2. Seqs' = Seqs /\ Indexed' = Indexed
    BY <2>1 DEF Seqs, Indexed, Walked
  <2>3. \A s \in Indexed' : stored'[s] = DEFAULT_LEVEL => InDefault(s)'
    BY <2>1, <2>2 DEF IInv, InDefault
  <2>4. phase' # "closed" /\ phase' # "walking" /\ phase' \in {"closed", "walking", "running"}
    BY <2>1
  <2>5. levelRecords' = [l \in Levels |-> {s \in Indexed' : l # DEFAULT_LEVEL /\ stored'[s] = l}]
    BY <2>1, <2>2 DEF IInv
  <2>6. /\ DOMAIN priority' = {s \in Indexed' : stored'[s] # DEFAULT_LEVEL}
        /\ \A s \in DOMAIN priority' : priority'[s] = stored'[s]
    BY <2>1, <2>2 DEF IInv
  <2>7. RangesInv(defaultRanges', count') /\ stored' \in [Seqs' -> Levels]
    BY <2>1, <2>2 DEF IInv
  <2>8. count' \in 0 .. MaxCount /\ walked' \in 0 .. count' /\ restarts' \in 0 .. MaxRestarts
    BY <2>1 DEF IInv
  <2>. HIDE DEF IInv
  <2>. QED  BY <2>3, <2>4, <2>5, <2>6, <2>7, <2>8 DEF IInv
<1>4. ASSUME NEW l \in Levels, Add(l) PROVE IInv'
  <2>. DEFINE s == Base + count
  <2>0. /\ phase = "running" /\ count < MaxCount /\ count' = count + 1
        /\ stored' = Put(stored, s, l) /\ AddLevelInfo(s, l)
        /\ UNCHANGED phase /\ UNCHANGED walked /\ UNCHANGED restarts
    BY <1>4 DEF Add
  <2>1. /\ count \in Nat /\ s = count + 1 /\ Seqs = 1 .. count /\ Indexed = Seqs
        /\ Seqs' = Seqs \cup {s} /\ Indexed' = Seqs' /\ s \notin Seqs
    BY <2>0 DEF IInv, Seqs, Indexed
  <2>2. /\ stored' \in [Seqs' -> Levels] /\ stored'[s] = l
        /\ \A t \in Seqs : stored'[t] = stored[t]
    BY <2>0, <2>1 DEF IInv, Put
  <2>3. /\ RangesInv(defaultRanges', count')
        /\ \A t \in Nat : Covers(defaultRanges, t) => Covers(defaultRanges', t)
        /\ l = DEFAULT_LEVEL => Covers(defaultRanges', s)
    <3>1. RangesInv(defaultRanges, count)
      BY DEF IInv
    <3>2. CASE l = DEFAULT_LEVEL
      <4>1. defaultRanges' = Appended(defaultRanges, count + 1)
        BY <2>0, <2>1, <3>2 DEF AddLevelInfo
      <4>. QED  BY <2>0, <2>1, <3>1, <4>1, AppendedSound
    <3>3. CASE l # DEFAULT_LEVEL
      <4>1. defaultRanges' = defaultRanges
        BY <2>0, <3>3 DEF AddLevelInfo
      <4>2. RangesInv(defaultRanges, count + 1)
        BY <2>1, <3>1 DEF RangesInv
      <4>. QED  BY <2>0, <3>3, <4>1, <4>2
    <3>. QED  BY <3>2, <3>3
  <2>4. levelRecords' = [k \in Levels |-> {t \in Indexed' : k # DEFAULT_LEVEL /\ stored'[t] = k}]
    <3>1. CASE l = DEFAULT_LEVEL
      <4>1. levelRecords' = levelRecords
        BY <2>0, <3>1 DEF AddLevelInfo
      <4>2. \A k \in Levels : {t \in Indexed' : k # DEFAULT_LEVEL /\ stored'[t] = k}
                                 = {t \in Indexed : k # DEFAULT_LEVEL /\ stored[t] = k}
        BY <2>1, <2>2, <3>1
      <4>. QED  BY <4>1, <4>2 DEF IInv
    <3>2. CASE l # DEFAULT_LEVEL
      <4>1. levelRecords' = [levelRecords EXCEPT ![l] = @ \cup {s}]
        BY <2>0, <3>2 DEF AddLevelInfo, Listed
      <4>2. \A k \in Levels : {t \in Indexed' : k # DEFAULT_LEVEL /\ stored'[t] = k}
               = {t \in Indexed : k # DEFAULT_LEVEL /\ stored[t] = k} \cup (IF k = l THEN {s} ELSE {})
        BY <2>1, <2>2, <3>2
      <4>3. /\ levelRecords = [k \in Levels |-> {t \in Indexed : k # DEFAULT_LEVEL /\ stored[t] = k}]
            /\ DOMAIN levelRecords = Levels
        BY DEF IInv
      <4>4. \A k \in Levels : levelRecords'[k] = levelRecords[k] \cup (IF k = l THEN {s} ELSE {})
        BY <4>1, <4>3
      <4>5. \A k \in Levels : levelRecords'[k] = {t \in Indexed' : k # DEFAULT_LEVEL /\ stored'[t] = k}
        BY <4>2, <4>3, <4>4
      <4>6. levelRecords' = [k \in Levels |-> levelRecords'[k]]
        BY <4>1, <4>3
      <4>. QED  BY <4>5, <4>6
    <3>. QED  BY <3>1, <3>2
  <2>5. /\ DOMAIN priority' = {t \in Indexed' : stored'[t] # DEFAULT_LEVEL}
        /\ \A t \in DOMAIN priority' : priority'[t] = stored'[t]
    <3>1. CASE l = DEFAULT_LEVEL
      <4>1. priority' = priority
        BY <2>0, <3>1 DEF AddLevelInfo
      <4>. QED  BY <2>1, <2>2, <3>1, <4>1 DEF IInv
    <3>2. CASE l # DEFAULT_LEVEL
      <4>1. priority' = Put(priority, s, l)
        BY <2>0, <2>1, <3>2 DEF AddLevelInfo, Listed, Emplace, IInv
      <4>2. DOMAIN priority' = DOMAIN priority \cup {s}
        BY <4>1 DEF Put
      <4>3. \A t \in DOMAIN priority' : priority'[t] = stored'[t]
        BY <2>1, <2>2, <4>1 DEF Put, IInv
      <4>4. DOMAIN priority' = {t \in Indexed' : stored'[t] # DEFAULT_LEVEL}
        BY <2>1, <2>2, <3>2, <4>2 DEF IInv
      <4>. QED  BY <4>3, <4>4
    <3>. QED  BY <3>1, <3>2
  <2>6. \A t \in Indexed' : stored'[t] = DEFAULT_LEVEL => InDefault(t)'
    BY <2>1, <2>2, <2>3 DEF IInv, InDefault
  <2>7. count' \in 0 .. MaxCount /\ walked' \in 0 .. count' /\ restarts' \in 0 .. MaxRestarts
    BY <2>0 DEF IInv
  <2>. QED  BY <2>0, <2>2, <2>3, <2>4, <2>5, <2>6, <2>7 DEF IInv
<1>5. CASE Die
  <2>. USE <1>5 DEF Die
  <2>1. Seqs' = Seqs /\ Indexed' = {}
    BY DEF Seqs, Indexed, Walked, IInv
  <2>2. RangesInv(defaultRanges', count')
    BY DEF RangesInv, EmptyMap, IInv
  <2>3. levelRecords' = [l \in Levels |-> {s \in Indexed' : l # DEFAULT_LEVEL /\ stored'[s] = l}]
    BY <2>1 DEF NoLists
  <2>4. DOMAIN priority' = {}
    BY DEF EmptyMap
  <2>. QED  BY <2>1, <2>2, <2>3, <2>4 DEF IInv
<1>6. CASE UNCHANGED vars
  <2>1. /\ UNCHANGED defaultRanges /\ UNCHANGED levelRecords /\ UNCHANGED priority
        /\ UNCHANGED phase /\ UNCHANGED count /\ UNCHANGED stored
        /\ UNCHANGED walked /\ UNCHANGED restarts
    BY <1>6 DEF vars, index
  <2>2. Seqs' = Seqs /\ Indexed' = Indexed
    BY <2>1 DEF Seqs, Indexed, Walked
  <2>. QED  BY <2>1, <2>2 DEF IInv, InDefault
<1>. QED  BY <1>1, <1>2, <1>3, <1>4, <1>5, <1>6 DEF Next

LEMMA Invariance == Base = 1 => (Spec => []IInv)
<1> SUFFICES ASSUME Base = 1 PROVE Spec => []IInv
  OBVIOUS
<1>1. Init => IInv
  BY InitIInv
<1>2. IInv /\ [Next]_vars => IInv'
  BY StepIInv
<1>. QED  BY <1>1, <1>2, PTL DEF Spec

-----------------------------------------------------------------------------
(* The properties *)

LEMMA IInvType == Base = 1 /\ IInv => TypeOK
<1> SUFFICES ASSUME Base = 1, IInv PROVE TypeOK
  OBVIOUS
<1>1. Indexed \subseteq Seqs
  BY DEF IInv, Indexed, Walked, Seqs
<1>2. levelRecords \in [Levels -> SUBSET Seqs]
  BY <1>1 DEF IInv
<1>3. DOMAIN priority \subseteq Seqs
  BY <1>1 DEF IInv
<1>4. DOMAIN defaultRanges \subseteq Nat /\ \A k \in DOMAIN defaultRanges : defaultRanges[k] \in Nat
  BY DEF IInv, RangesInv
<1>. QED  BY <1>2, <1>3, <1>4 DEF IInv, TypeOK

LEMMA IInvNothingLost == IInv => NothingLost
<1> SUFFICES ASSUME IInv, NEW s \in Indexed
    PROVE  /\ stored[s] = DEFAULT_LEVEL => InDefault(s)
           /\ \A l \in Others : s \in levelRecords[l] <=> stored[s] = l
           /\ getRecordLevel(s) = stored[s]
  BY DEF NothingLost
<1>1. stored[s] = DEFAULT_LEVEL => InDefault(s)
  BY DEF IInv
<1>2. ASSUME NEW l \in Others PROVE s \in levelRecords[l] <=> stored[s] = l
  BY DEF IInv, Others
<1>3. getRecordLevel(s) = stored[s]
  BY DEF IInv, getRecordLevel
<1>. QED  BY <1>1, <1>2, <1>3

LEMMA IInvNeverSkips == Base = 1 /\ IInv => NeverSkips
<1> SUFFICES ASSUME Base = 1, IInv, phase = "running", NEW l \in Levels, NEW cursor \in 0 .. Base + count
    PROVE  /\ NextStored(l, cursor) # 0 =>
                getFirstNoAckByLevel(l, cursor) \in cursor + 1 .. NextStored(l, cursor)
           /\ l # DEFAULT_LEVEL => getFirstNoAckByLevel(l, cursor) = NextStored(l, cursor)
  BY DEF NeverSkips
<1>. DEFINE m == defaultRanges
            wanted == NextStored(l, cursor)
            beyond == {s \in OfLevel(l) : s > cursor}
<1>1. /\ Seqs = 1 .. count /\ Indexed = Seqs /\ count \in Nat /\ cursor \in Nat
      /\ RangesInv(m, count)
  BY LevelAssumption DEF IInv, Seqs, Indexed
<1>2. beyond \subseteq Nat /\ beyond \subseteq Seqs
  BY <1>1 DEF OfLevel
<1>3. /\ beyond = {} => wanted = 0
      /\ beyond # {} => wanted \in beyond
  <2>1. beyond # {} => Min(beyond) \in beyond
    BY <1>2, MinExists
  <2>. QED  BY <2>1 DEF NextStored
<1>4. CASE l # DEFAULT_LEVEL
  <2>1. levelRecords[l] = OfLevel(l)
    BY <1>1, <1>4 DEF IInv, OfLevel
  <2>2. getFirstNoAckByLevel(l, cursor) = wanted
    BY <1>4, <2>1 DEF getFirstNoAckByLevel, NextOfList, NextStored
  <2>3. wanted # 0 => wanted \in cursor + 1 .. wanted
    BY <1>1, <1>2, <1>3
  <2>. QED  BY <2>2, <2>3
<1>5. CASE l = DEFAULT_LEVEL
  <2>1. SUFFICES ASSUME wanted # 0 PROVE NextOfDefault(cursor) \in cursor + 1 .. wanted
    BY <1>5 DEF getFirstNoAckByLevel
  <2>2. wanted \in Seqs /\ wanted > cursor /\ stored[wanted] = DEFAULT_LEVEL /\ wanted \in Nat
    BY <1>1, <1>3, <1>5, <2>1 DEF OfLevel
  <2>3. PICK k \in DOMAIN m : k <= wanted /\ wanted <= m[k]
    BY <1>1, <2>2 DEF IInv, InDefault, Covers
  <2>. DEFINE before == {j \in DOMAIN m : j < cursor}
              later  == {j \in DOMAIN m : j > cursor}
              around == ({cursor} \cap DOMAIN m) \cup (IF before = {} THEN {} ELSE {Max(before)})
  <2>4. CASE \E j \in around : m[j] > cursor
    <3>1. NextOfDefault(cursor) = cursor + 1
      BY <2>4 DEF NextOfDefault
    <3>. QED  BY <1>1, <2>2, <3>1
  <2>5. CASE ~ \E j \in around : m[j] > cursor
    <3>0. /\ DOMAIN m \subseteq Nat
          /\ \A j \in DOMAIN m : m[j] \in Nat
          /\ \A i, j \in DOMAIN m : i < j => m[i] < j
      BY <1>1 DEF RangesInv
    <3>1. k > cursor
      <4>1. SUFFICES ASSUME k <= cursor PROVE FALSE
        BY <1>1, <3>0
      <4>2. m[k] > cursor
        BY <1>1, <2>2, <2>3, <3>0
      <4>3. k # cursor
        BY <2>5, <4>2
      <4>4. k \in before
        BY <1>1, <3>0, <4>1, <4>3
      <4>5. Max(before) \in before /\ Max(before) >= k
        <5>1. before \subseteq Nat /\ \A j \in before : j <= cursor
          BY <1>1, <3>0
        <5>. QED  BY <1>1, <4>4, <5>1, MaxExists
      <4>6. Max(before) # k
        BY <2>5, <4>2, <4>4
      <4>7. m[k] < Max(before) /\ Max(before) < cursor /\ Max(before) \in Nat
        BY <3>0, <4>5, <4>6
      <4>. QED  BY <1>1, <3>0, <4>2, <4>7
    <3>2. later \subseteq Nat /\ k \in later
      BY <1>1, <3>0, <3>1
    <3>3. Min(later) \in later /\ Min(later) <= k
      BY <3>2, MinExists
    <3>4. NextOfDefault(cursor) = Min(later)
      BY <2>5, <3>2 DEF NextOfDefault
    <3>5. Min(later) \in Nat /\ Min(later) > cursor
      BY <3>2, <3>3
    <3>6. Min(later) <= wanted
      BY <2>2, <2>3, <3>0, <3>3, <3>5
    <3>. HIDE DEF later, wanted
    <3>. QED  BY <1>1, <2>2, <3>4, <3>5, <3>6
  <2>. QED  BY <2>4, <2>5
<1>. QED  BY <1>4, <1>5

LEMMA IInvCheckExact == Base = 1 /\ IInv => CheckIsExact
<1> SUFFICES ASSUME Base = 1, IInv, phase = "running", NEW start \in Seqs, NEW end \in Seqs, start <= end
    PROVE  checkDefaultLevel(start, end)
             = (LET other == {s \in start .. end : stored[s] # DEFAULT_LEVEL}
                IN  IF other = {} THEN 0 ELSE Min(other))
  BY DEF CheckIsExact
<1>. DEFINE S == {s \in DOMAIN priority : s >= start}
            T == {s \in start .. end : stored[s] # DEFAULT_LEVEL}
<1>1. Seqs = 1 .. count /\ count \in Nat /\ start \in Nat /\ end \in 1 .. count
  BY LevelAssumption DEF IInv, Seqs
<1>2. S = {s \in start .. count : stored[s] # DEFAULT_LEVEL}
  BY <1>1 DEF IInv, Indexed
<1>3. S \subseteq Nat /\ T \subseteq S /\ \A s \in S : s <= end => s \in T
  BY <1>1, <1>2
<1>. HIDE DEF S, T
<1>4. CASE T = {}
  <2>1. S # {} => Min(S) \in S
    BY <1>3, MinExists
  <2>2. ASSUME S # {} PROVE Min(S) > end
    <3>1. Min(S) \in S /\ Min(S) \in Nat
      BY <1>3, <2>1, <2>2
    <3>2. ~(Min(S) <= end)
      BY <1>3, <1>4, <3>1
    <3>. QED  BY <1>1, <3>1, <3>2
  <2>. QED  BY <1>4, <2>2 DEF checkDefaultLevel, S, T
<1>5. CASE T # {}
  <2>1. Min(S) \in S /\ (\A y \in S : Min(S) <= y) /\ Min(T) \in T /\ \A y \in T : Min(T) <= y
    BY <1>3, <1>5, MinExists
  <2>2. \A t \in T : t <= end /\ t \in Nat
    BY <1>1 DEF T
  <2>3. Min(S) <= Min(T) /\ Min(S) \in Nat
    BY <1>3, <2>1
  <2>4. Min(S) <= end
    BY <1>1, <2>1, <2>2, <2>3
  <2>5. Min(S) \in T
    BY <1>3, <2>1, <2>4
  <2>6. Min(S) = Min(T)
    BY <2>1, <2>2, <2>3, <2>5
  <2>7. S # {} /\ ~(Min(S) > end)
    BY <1>1, <2>1, <2>3, <2>4
  <2>8. checkDefaultLevel(start, end) = Min(S)
    BY <2>7 DEF checkDefaultLevel, S
  <2>. QED  BY <1>5, <2>6, <2>8 DEF T
<1>. QED  BY <1>4, <1>5

\* Variables and maps of the index keep their types, whatever the process does.
THEOREM TypeCorrect == Base = 1 => (Spec => []TypeOK)
<1> SUFFICES ASSUME Base = 1 PROVE Spec => []TypeOK
  OBVIOUS
<1>1. IInv => TypeOK
  BY IInvType
<1>. QED  BY <1>1, Invariance, PTL

\* No record falls out of the index, added or walked to, through any restarts
\* (addLevelInfo, moveRecordLevel, rebuildAttributeInfo).
THEOREM NothingLostCorrect == Base = 1 => (Spec => []NothingLost)
<1> SUFFICES ASSUME Base = 1 PROVE Spec => []NothingLost
  OBVIOUS
<1>1. IInv => NothingLost
  BY IInvNothingLost
<1>. QED  BY <1>1, Invariance, PTL

\* The default ranges stay disjoint and in order (moveRecordLevel, addLevelInfo).
THEOREM RangesCorrect == Base = 1 => (Spec => []RangesDisjoint)
<1> SUFFICES ASSUME Base = 1 PROVE Spec => []RangesDisjoint
  OBVIOUS
<1>1. IInv => RangesDisjoint
  BY DEF IInv, RangesInv, RangesDisjoint
<1>. QED  BY <1>1, Invariance, PTL

\* No consumer of a level is sent past a record of it (getFirstNoAckByLevel).
THEOREM NeverSkipsCorrect == Base = 1 => (Spec => []NeverSkips)
<1> SUFFICES ASSUME Base = 1 PROVE Spec => []NeverSkips
  OBVIOUS
<1>1. IInv => NeverSkips
  BY IInvNeverSkips
<1>. QED  BY <1>1, Invariance, PTL

\* checkDefaultLevel is exact for every range of records.
THEOREM CheckCorrect == Base = 1 => (Spec => []CheckIsExact)
<1> SUFFICES ASSUME Base = 1 PROVE Spec => []CheckIsExact
  OBVIOUS
<1>1. IInv => CheckIsExact
  BY IInvCheckExact
<1>. QED  BY <1>1, Invariance, PTL

\* Until a restart, no record is in a default range of another level's.
NeverRestarted ==
  /\ phase # "running" /\ restarts = 0 => count = 0
  /\ DefaultIsExact

\* Until a restart the default ranges are exact (addLevelInfo).
THEOREM ExactUntilRestart == Base = 1 => (Spec => []DefaultIsExact)
<1> SUFFICES ASSUME Base = 1 PROVE Spec => []DefaultIsExact
  OBVIOUS
<1>1. Init => NeverRestarted
  BY DEF Init, NeverRestarted, DefaultIsExact
<1>2. IInv /\ NeverRestarted /\ [Next]_vars => NeverRestarted'
  <2> SUFFICES ASSUME IInv, NeverRestarted, [Next]_vars PROVE NeverRestarted'
    OBVIOUS
  <2>1. CASE Open
    BY <2>1 DEF Open, NeverRestarted, DefaultIsExact
  <2>2. CASE Walk
    <3>1. phase = "walking" /\ phase' = "walking" /\ count' = count /\ restarts' = restarts
      BY <2>2 DEF Walk
    <3>. QED  BY <3>1 DEF NeverRestarted, DefaultIsExact
  <2>3. CASE WalkEnds
    <3>1. restarts' = 0 => count' = 0 /\ Seqs' = {}
      BY <2>3 DEF WalkEnds, NeverRestarted, Seqs
    <3>. QED  BY <3>1, <2>3 DEF WalkEnds, NeverRestarted, DefaultIsExact
  <2>4. ASSUME NEW l \in Levels, Add(l) PROVE NeverRestarted'
    <3>. DEFINE s == Base + count
    <3>0. /\ phase = "running" /\ phase' = "running" /\ stored' = Put(stored, s, l)
          /\ AddLevelInfo(s, l) /\ count' = count + 1
      BY <2>4 DEF Add
    <3>1. /\ count \in Nat /\ s = count + 1 /\ Seqs = 1 .. count
          /\ Seqs' = Seqs \cup {s} /\ s \notin Seqs
      BY <3>0, LevelAssumption DEF IInv, Seqs
    <3>2. stored'[s] = l /\ \A t \in Seqs : stored'[t] = stored[t]
      BY <3>0, <3>1 DEF IInv, Put
    <3>3. RangesInv(defaultRanges, count)
      BY DEF IInv
    <3>4. \A t \in Nat : Covers(defaultRanges', t)
                          <=> Covers(defaultRanges, t) \/ (l = DEFAULT_LEVEL /\ t = s)
      <4>1. CASE l = DEFAULT_LEVEL
        <5>1. defaultRanges' = Appended(defaultRanges, count + 1)
          BY <3>0, <3>1, <4>1 DEF AddLevelInfo
        <5>. QED  BY <3>1, <3>3, <4>1, <5>1, AppendedSound
      <4>2. CASE l # DEFAULT_LEVEL
        BY <3>0, <4>2 DEF AddLevelInfo
      <4>. QED  BY <4>1, <4>2
    <3>5. ~Covers(defaultRanges, s)
      BY <3>1, <3>3 DEF Covers, RangesInv
    <3>6. ASSUME restarts = 0, NEW t \in Seqs' PROVE Covers(defaultRanges', t) <=> stored'[t] = DEFAULT_LEVEL
      <4>1. CASE t = s
        BY <3>1, <3>2, <3>4, <3>5, <4>1
      <4>2. CASE t # s
        <5>1. t \in Seqs /\ t \in Nat
          BY <3>1, <4>2
        <5>2. Covers(defaultRanges, t) <=> stored[t] = DEFAULT_LEVEL
          BY <3>0, <3>6, <5>1 DEF NeverRestarted, DefaultIsExact, InDefault
        <5>. QED  BY <3>2, <3>4, <4>2, <5>1, <5>2
      <4>. QED  BY <4>1, <4>2
    <3>7. restarts' = restarts
      BY <2>4 DEF Add
    <3>. QED  BY <3>0, <3>6, <3>7 DEF NeverRestarted, DefaultIsExact, InDefault
  <2>5. CASE Die
    BY <2>5 DEF Die, IInv, NeverRestarted, DefaultIsExact
  <2>6. CASE UNCHANGED vars
    BY <2>6 DEF vars, index, NeverRestarted, DefaultIsExact, InDefault, Seqs
  <2>. QED  BY <2>1, <2>2, <2>3, <2>4, <2>5, <2>6 DEF Next
<1>3. Spec => []IInv
  BY Invariance
<1>4. NeverRestarted => DefaultIsExact
  BY DEF NeverRestarted
<1>. QED  BY <1>1, <1>2, <1>3, <1>4, PTL DEF Spec
=============================================================================
