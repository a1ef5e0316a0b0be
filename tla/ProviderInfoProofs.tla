------------------------- MODULE ProviderInfoProofs -------------------------
(***************************************************************************)
(* Proofs about the provider information, for any clients, lengths of      *)
(* their records, sessions, messages and restarts.                         *)
(*                                                                         *)
(* The file is read by a loop over its cells.  The first part says what    *)
(* that loop knows behind each cell (Knows, by induction over the file):   *)
(* it goes on exactly while each cell follows the one before it, and the   *)
(* map that it makes has a whole record of the file for each client.  So a *)
(* file that has exactly the records of a map reads as that map, and a     *)
(* record that a crash has cut is noticed.                                 *)
(*                                                                         *)
(* The second part is the inductive invariant: the file has the map's      *)
(* records (Covers), what the file or the map has is not older than what   *)
(* was taken (Remembered), and the map of a rebuild has the last of the    *)
(* messages that were gone over (Gathered).                                *)
(***************************************************************************)
EXTENDS ProviderInfo, WellFoundedInduction, TLAPS

-----------------------------------------------------------------------------
(* The least and the greatest element of a set *)

\* A nonempty set of naturals has a least element, and Min finds it.
LEMMA MinExists ==
  ASSUME NEW S, S \subseteq Nat, S # {}
  PROVE  Min(S) \in S /\ \A y \in S : Min(S) <= y
<1> DEFINE R == OpToRel(<, Nat)
<1>0. \A x, y \in Nat : <<y, x>> \in R <=> y < x
  BY Zenon DEF OpToRel
<1>a. IsWellFoundedOn(R, Nat)
  BY NatLessThanWellFounded
<1> HIDE DEF R
<1>1. \E x \in S : \A y \in S : ~(<<y, x>> \in R)
  BY <1>a, WFMin
<1>2. \E x \in S : \A y \in S : x <= y
  <2>1. PICK x \in S : \A y \in S : ~(<<y, x>> \in R)
    BY <1>1
  <2>2. ASSUME NEW y \in S PROVE x <= y
    <3>1. ~(<<y, x>> \in R)
      BY <2>1
    <3>2. x \in Nat /\ y \in Nat
      OBVIOUS
    <3>3. ~(y < x)
      BY <1>0, <3>1, <3>2, Zenon
    <3>. QED  BY <3>2, <3>3
  <2>. QED  BY <2>2
<1>. QED  BY <1>2 DEF Min

\* Of two integers.
LEMMA MaxOfPair ==
  ASSUME NEW a \in Int, NEW b \in Int
  PROVE  Max({a, b}) = IF a >= b THEN a ELSE b
<1>1. \E x \in {a, b} : \A y \in {a, b} : x >= y
  OBVIOUS
<1>2. Max({a, b}) \in {a, b} /\ \A y \in {a, b} : Max({a, b}) >= y
  BY <1>1 DEF Max
<1>. QED  BY <1>2

-----------------------------------------------------------------------------
(* Message IDs *)

IDs == Nat \X Nat

\* MessageID's order is a total one.
LEMMA BeforeOrders ==
  ASSUME NEW a \in IDs, NEW b \in IDs, NEW c \in IDs
  PROVE  /\ Before(a, b) => ~Before(b, a)
         /\ Before(a, b) /\ Before(b, c) => Before(a, c)
         /\ ~Before(b, a) /\ ~Before(c, b) => ~Before(c, a)
         /\ ~Before(a, b) /\ ~Before(b, a) => a = b
<1>1. \A x \in {a, b, c} : x[1] \in Nat /\ x[2] \in Nat /\ x = <<x[1], x[2]>>
  BY DEF IDs
<1>. QED  BY <1>1 DEF Before

-----------------------------------------------------------------------------
(* The cells of the file, and how they follow one another *)

Cell(c, id, k) == [client |-> c, broker |-> id, part |-> k]
Parts == {x \in [client : Clients, broker : IDs, part : Nat \ {0}] : x.part <= Size[x.client]}
Cells == {HOLE} \cup Parts

\* A map of clients
IsInfo(m) == DOMAIN m \subseteq Clients /\ \A c \in DOMAIN m : m[c] \in [broker : IDs, pos : Nat]

\* The record of c with this message begins behind p.
Lies(f, p, c, id) ==
  p + Size[c] <= Len(f) /\ \A i \in 1 .. Size[c] : f[p + i] = Cell(c, id, i)

Ends(f, k) == f[k].part = Size[f[k].client]

\* The cell begins a record behind the end of another, or continues that of the cell
\* before it.
Follows(f, k) ==
  \/ f[k].part = 1 /\ (k = 1 \/ Ends(f, k - 1))
  \/ f[k].part > 1 /\ k > 1 /\ f[k - 1] = [f[k] EXCEPT !.part = @ - 1]

\* What the loop of init has behind cell k: all is in order iff each cell follows the one
\* before; then what was not yet put into the map is the beginning of one record, and what
\* is in the map has a whole record in the file.
Knows(f, k, acc) ==
  /\ acc = [ok |-> acc.ok, whole |-> acc.whole, start |-> acc.start, base |-> acc.base,
            recordPos |-> acc.recordPos, map |-> acc.map]
  /\ acc.ok \in BOOLEAN /\ acc.whole \in BOOLEAN
  /\ acc.start \in 0 .. k /\ acc.base \in 0 .. acc.start /\ acc.recordPos \in Nat
  /\ IsInfo(acc.map)
  /\ acc.ok <=> \A j \in 1 .. k : Follows(f, j)
  /\ acc.ok =>
       /\ acc.whole <=> acc.start = k
       /\ k > 0 /\ acc.start = k => Ends(f, k)
       /\ acc.start < k => k - acc.start < Size[f[k].client]
       /\ \A j \in acc.start + 1 .. k : f[j] = Cell(f[k].client, f[k].broker, j - acc.start)
       /\ \A j \in 1 .. acc.start : f[j].client \in DOMAIN acc.map
       /\ \A c \in DOMAIN acc.map : \E p \in Nat :
            p + Size[c] <= acc.start /\ Lies(f, p, c, acc.map[c].broker)

\* The recursion of Passed is well-founded.
LEMMA PassedUnfolds ==
  ASSUME NEW f, Len(f) \in Nat
  PROVE  /\ Passed(f)[0] = Nothing
         /\ \A k \in 1 .. Len(f) : Passed(f)[k] = NextCell(f, Passed(f)[k - 1], k)
<1> DEFINE Is(g, n) == g = [k \in 0 .. n |-> IF k = 0 THEN Nothing ELSE NextCell(f, g[k - 1], k)]
           T == {n \in 0 .. Len(f) : ~ \E g : Is(g, n)}
<1>1. T = {}
  <2>. SUFFICES ASSUME T # {} PROVE FALSE
    OBVIOUS
  <2>1. PICK n \in T : \A m \in T : n <= m
    <3>1. T \subseteq Nat
      OBVIOUS
    <3>. HIDE DEF T
    <3>. QED  BY <3>1, MinExists
  <2>2. n \in 0 .. Len(f) /\ ~ \E g : Is(g, n)
    OBVIOUS
  <2>3. CASE n = 0
    <3>1. Is([k \in 0 .. 0 |-> Nothing], 0)
      OBVIOUS
    <3>. QED  BY <2>2, <2>3, <3>1
  <2>4. CASE n > 0
    <3>1. n - 1 \in 0 .. Len(f) /\ n - 1 \notin T
      BY <2>1, <2>2, <2>4
    <3>2. PICK g : Is(g, n - 1)
      BY <3>1
    <3>. DEFINE h == [k \in 0 .. n |-> IF k = n THEN NextCell(f, g[n - 1], n) ELSE g[k]]
    <3>3. \A k \in 0 .. n - 1 : h[k] = g[k] /\ g[k] = IF k = 0 THEN Nothing ELSE NextCell(f, g[k - 1], k)
      <4>1. \A k \in 0 .. n - 1 : k # n /\ k \in 0 .. n
        BY <2>2
      <4>2. \A k \in 0 .. n - 1 : h[k] = g[k]
        BY <4>1
      <4>3. g = [k \in 0 .. n - 1 |-> IF k = 0 THEN Nothing ELSE NextCell(f, g[k - 1], k)]
        BY <3>2
      <4>. QED  BY <4>2, <4>3
    <3>4. \A k \in 0 .. n : h[k] = IF k = 0 THEN Nothing ELSE NextCell(f, h[k - 1], k)
      <4>1. ASSUME NEW k \in 0 .. n, k # n PROVE h[k] = IF k = 0 THEN Nothing ELSE NextCell(f, h[k - 1], k)
        <5>1. k \in 0 .. n - 1 /\ (k # 0 => k - 1 \in 0 .. n - 1)
          BY <2>2, <4>1
        <5>. HIDE DEF h
        <5>. QED  BY <3>3, <5>1
      <4>2. h[n] = NextCell(f, h[n - 1], n)
        <5>1. n \in 0 .. n /\ n - 1 \in 0 .. n - 1
          BY <2>2, <2>4
        <5>2. h[n] = NextCell(f, g[n - 1], n)
          BY <5>1
        <5>. QED  BY <3>3, <5>1, <5>2
      <4>. HIDE DEF h
      <4>. QED  BY <2>4, <4>1, <4>2
    <3>5. h = [k \in 0 .. n |-> h[k]]
      OBVIOUS
    <3>. HIDE DEF h
    <3>6. Is(h, n)
      BY <3>4, <3>5
    <3>. QED  BY <2>2, <3>6
  <2>. QED  BY <2>2, <2>3, <2>4
<1>2. PICK g : Is(g, Len(f))
  <2>1. Len(f) \notin T
    BY <1>1
  <2>2. Len(f) \in 0 .. Len(f)
    OBVIOUS
  <2>. QED  BY <2>1, <2>2
<1>3. Is(Passed(f), Len(f))
  BY <1>2 DEF Passed
<1>4. \A k \in 0 .. Len(f) : Passed(f)[k] = IF k = 0 THEN Nothing ELSE NextCell(f, Passed(f)[k - 1], k)
  BY <1>3, Zenon
<1>. QED  BY <1>4

LEMMA CellTypes ==
  ASSUME NEW f \in Seq(Cells), NEW k \in 1 .. Len(f)
  PROVE  /\ f[k] = Cell(f[k].client, f[k].broker, f[k].part)
         /\ f[k].part \in Nat
         /\ f[k].part > 0 => /\ f[k].client \in Clients /\ f[k].broker \in IDs
                             /\ f[k].part <= Size[f[k].client]
                             /\ Size[f[k].client] \in Nat \ {0}
<1>. SUFFICES ASSUME NEW x \in Cells
              PROVE  /\ x = Cell(x.client, x.broker, x.part)
                     /\ x.part \in Nat
                     /\ x.part > 0 => /\ x.client \in Clients /\ x.broker \in IDs
                                      /\ x.part <= Size[x.client]
                                      /\ Size[x.client] \in Nat \ {0}
  <2>1. f[k] \in Cells
    OBVIOUS
  <2>. QED  BY <2>1
<1>1. CASE x = HOLE
  <2>1. x.part = 0
    BY <1>1, Zenon DEF HOLE
  <2>2. x.client = "" /\ x.broker = <<0, 0>>
    BY <1>1, Zenon DEF HOLE
  <2>3. x = Cell(x.client, x.broker, x.part)
    BY <1>1, <2>1, <2>2, Zenon DEF HOLE, Cell
  <2>. QED  BY <2>1, <2>3
<1>2. CASE x \in Parts
  BY <1>2, ProviderInfoAssumption DEF Parts, Cell
<1>. QED  BY <1>1, <1>2 DEF Cells

\* Is the next cell a part of the record that is begun, or the start of one?  NextCell
\* asks for just what Follows says.
LEMMA NextFollows ==
  ASSUME NEW f \in Seq(Cells), NEW k \in 1 .. Len(f), NEW acc, Knows(f, k - 1, acc), acc.ok
  PROVE  /\ Follows(f, k) <=> /\ f[k].part = k - acc.start
                              /\ f[k].part > 1 => f[k - 1] = [f[k] EXCEPT !.part = @ - 1]
         /\ Follows(f, k) => f[k].part > 0
<1>1. acc.start \in 0 .. k - 1
  BY DEF Knows
<1>2. /\ f[k].part \in Nat
      /\ f[k].part > 0 => f[k].part <= Size[f[k].client] /\ Size[f[k].client] \in Nat
      /\ f[k] = Cell(f[k].client, f[k].broker, f[k].part)
  BY CellTypes
<1>3. ASSUME Follows(f, k)
      PROVE  f[k].part = k - acc.start /\ (f[k].part > 1 => f[k - 1] = [f[k] EXCEPT !.part = @ - 1])
  <2>1. CASE f[k].part = 1 /\ k = 1
    BY <1>1, <2>1
  <2>2. CASE f[k].part = 1 /\ k > 1 /\ Ends(f, k - 1)
    <3>1. ASSUME acc.start < k - 1 PROVE FALSE
      <4>1. k - 1 \in acc.start + 1 .. k - 1
        BY <1>1, <3>1
      <4>2. f[k - 1].part = k - 1 - acc.start
        <5>1. f[k - 1] = Cell(f[k - 1].client, f[k - 1].broker, k - 1 - acc.start)
          BY <4>1 DEF Knows
        <5>. QED  BY <5>1 DEF Cell
      <4>3. k - 1 - acc.start < Size[f[k - 1].client]
        BY <3>1 DEF Knows
      <4>. QED  BY <1>1, <2>2, <4>2, <4>3 DEF Ends
    <3>. QED  BY <1>1, <2>2, <3>1
  <2>3. CASE f[k].part > 1 /\ k > 1 /\ f[k - 1] = [f[k] EXCEPT !.part = @ - 1]
    <3>1. f[k - 1].part = f[k].part - 1 /\ f[k - 1].client = f[k].client
      BY <1>2, <2>3 DEF Cell
    <3>2. acc.start # k - 1
      <4>1. acc.start = k - 1 => f[k - 1].part = Size[f[k - 1].client]
        BY <2>3 DEF Knows, Ends
      <4>. QED  BY <1>2, <2>3, <3>1, <4>1
    <3>3. f[k - 1].part = k - 1 - acc.start
      <4>1. k - 1 \in acc.start + 1 .. k - 1
        BY <1>1, <2>3, <3>2
      <4>2. f[k - 1] = Cell(f[k - 1].client, f[k - 1].broker, k - 1 - acc.start)
        BY <4>1 DEF Knows
      <4>. QED  BY <4>2 DEF Cell
    <3>. QED  BY <1>1, <1>2, <2>3, <3>1, <3>3
  <2>. QED  BY <1>3, <2>1, <2>2, <2>3 DEF Follows
<1>4. ASSUME f[k].part = k - acc.start, f[k].part > 1 => f[k - 1] = [f[k] EXCEPT !.part = @ - 1]
      PROVE  Follows(f, k)
  <2>1. CASE f[k].part = 1
    <3>1. acc.start = k - 1
      BY <1>1, <1>4, <2>1
    <3>2. k > 1 => Ends(f, k - 1)
      BY <3>1 DEF Knows
    <3>. QED  BY <2>1, <3>2 DEF Follows
  <2>2. CASE f[k].part > 1
    BY <1>1, <1>4, <2>2 DEF Follows
  <2>. QED  BY <1>1, <1>2, <1>4, <2>1, <2>2
<1>. QED  BY <1>2, <1>3, <1>4 DEF Follows

\* One turn of the loop keeps what it knows.
LEMMA KnowsNext ==
  ASSUME NEW f \in Seq(Cells), NEW k \in 1 .. Len(f), NEW acc, Knows(f, k - 1, acc)
  PROVE  Knows(f, k, NextCell(f, acc, k))
<1> DEFINE new == NextCell(f, acc, k)
           c == f[k].client
<1>1. /\ acc = [ok |-> acc.ok, whole |-> acc.whole, start |-> acc.start, base |-> acc.base,
                recordPos |-> acc.recordPos, map |-> acc.map]
      /\ acc.ok \in BOOLEAN /\ acc.whole \in BOOLEAN
      /\ acc.start \in 0 .. k - 1 /\ acc.base \in 0 .. acc.start /\ acc.recordPos \in Nat
      /\ IsInfo(acc.map)
      /\ acc.ok <=> \A j \in 1 .. k - 1 : Follows(f, j)
  BY DEF Knows
<1>2. (\A j \in 1 .. k : Follows(f, j)) <=> acc.ok /\ Follows(f, k)
  <2>1. \A j \in 1 .. k : j = k \/ j \in 1 .. k - 1
    OBVIOUS
  <2>2. \A j \in 1 .. k - 1 : j \in 1 .. k
    OBVIOUS
  <2>. QED  BY <1>1, <2>1, <2>2
<1>3. acc.ok => (Follows(f, k) <=> /\ f[k].part = k - acc.start
                                   /\ f[k].part > 1 => f[k - 1] = [f[k] EXCEPT !.part = @ - 1])
  BY NextFollows
<1>4. CASE ~acc.ok \/ ~Follows(f, k)
  <2>1. new = [acc EXCEPT !.ok = FALSE]
    BY <1>3, <1>4 DEF NextCell
  <2>2. new = [ok |-> FALSE, whole |-> acc.whole, start |-> acc.start, base |-> acc.base,
               recordPos |-> acc.recordPos, map |-> acc.map]
    BY <1>1, <2>1
  <2>. HIDE DEF new
  <2>3. /\ new.ok = FALSE /\ new.whole = acc.whole /\ new.start = acc.start /\ new.base = acc.base
        /\ new.recordPos = acc.recordPos /\ new.map = acc.map
    BY <2>2
  <2>4. ~ \A j \in 1 .. k : Follows(f, j)
    BY <1>2, <1>4
  <2>5. Knows(f, k, new)
    BY <1>1, <2>2, <2>3, <2>4 DEF Knows
  <2>. QED  BY <2>5 DEF new
<1>5. CASE acc.ok /\ Follows(f, k)
  <2>1. /\ f[k].part = k - acc.start /\ f[k].part > 0
        /\ f[k].part > 1 => f[k - 1] = [f[k] EXCEPT !.part = @ - 1]
    BY <1>5, NextFollows
  <2>2. /\ c \in Clients /\ f[k].broker \in IDs /\ f[k].part <= Size[c] /\ Size[c] \in Nat \ {0}
        /\ f[k] = Cell(c, f[k].broker, f[k].part)
    BY <2>1, CellTypes
  <2>3. \A j \in acc.start + 1 .. k : f[j] = Cell(c, f[k].broker, j - acc.start)
    <3>1. f[k] = Cell(c, f[k].broker, k - acc.start)
      BY <2>1, <2>2
    <3>2. ASSUME acc.start < k - 1
          PROVE  f[k - 1].client = c /\ f[k - 1].broker = f[k].broker
      BY <1>1, <2>1, <2>2, <3>2 DEF Cell
    <3>3. \A j \in acc.start + 1 .. k - 1 : f[j] = Cell(f[k - 1].client, f[k - 1].broker, j - acc.start)
      BY <1>5 DEF Knows
    <3>. QED  BY <1>1, <3>1, <3>2, <3>3
  <2>4. CASE f[k].part < Size[c]
    <3>1. new = [acc EXCEPT !.whole = FALSE]
      BY <1>5, <2>1, <2>4 DEF NextCell
    <3>2. new = [ok |-> acc.ok, whole |-> FALSE, start |-> acc.start, base |-> acc.base,
                 recordPos |-> acc.recordPos, map |-> acc.map]
      BY <1>1, <3>1
    <3>3. k - acc.start < Size[c]
      BY <2>1, <2>4
    <3>4. /\ \A j \in 1 .. acc.start : f[j].client \in DOMAIN acc.map
          /\ \A d \in DOMAIN acc.map : \E p \in Nat :
               p + Size[d] <= acc.start /\ Lies(f, p, d, acc.map[d].broker)
      BY <1>5 DEF Knows
    <3>. HIDE DEF new
    <3>5. /\ new.ok = acc.ok /\ new.whole = FALSE /\ new.start = acc.start /\ new.base = acc.base
          /\ new.recordPos = acc.recordPos /\ new.map = acc.map
      BY <3>2
    <3>6. \A j \in 1 .. k : Follows(f, j)
      BY <1>2, <1>5
    <3>7. acc.start \in 0 .. k /\ acc.start # k
      BY <1>1
    <3>8. Knows(f, k, new)
      BY <1>1, <1>5, <2>3, <3>2, <3>3, <3>4, <3>5, <3>6, <3>7 DEF Knows
    <3>. QED  BY <3>8 DEF new
  <2>5. CASE f[k].part = Size[c]
    <3> DEFINE info == [broker |-> f[k].broker, pos |-> acc.recordPos]
               base == IF k > acc.base + Buffer THEN acc.start ELSE acc.base
    <3>1. new = [ok |-> TRUE, whole |-> TRUE, start |-> k, base |-> base,
                 recordPos |-> acc.recordPos + k - base, map |-> Put(acc.map, c, info)]
      <4>1. ~(f[k].part < Size[c])
        BY <2>2, <2>5
      <4>. QED  BY <1>5, <2>1, <4>1, Zenon DEF NextCell
    <3>2. base \in 0 .. k /\ acc.recordPos + k - base \in Nat
      BY <1>1
    <3>3. IsInfo(Put(acc.map, c, info))
      BY <1>1, <2>2 DEF IsInfo, Put
    <3>4. \A j \in 1 .. k : f[j].client \in DOMAIN Put(acc.map, c, info)
      <4>1. \A j \in 1 .. acc.start : f[j].client \in DOMAIN acc.map
        BY <1>5 DEF Knows
      <4>2. ASSUME NEW j \in acc.start + 1 .. k PROVE f[j].client = c
        <5>1. f[j] = Cell(c, f[k].broker, j - acc.start)
          BY <2>3
        <5>. QED  BY <5>1 DEF Cell
      <4>. QED  BY <1>1, <4>1, <4>2 DEF Put
    <3>5. \A d \in DOMAIN Put(acc.map, c, info) : \E p \in Nat :
            p + Size[d] <= k /\ Lies(f, p, d, Put(acc.map, c, info)[d].broker)
      <4>1. acc.start + Size[c] = k
        BY <1>1, <2>1, <2>2, <2>5
      <4>2. Lies(f, acc.start, c, info.broker)
        <5>1. ASSUME NEW i \in 1 .. Size[c]
              PROVE  f[acc.start + i] = Cell(c, f[k].broker, i)
          <6>0. acc.start \in Int /\ Size[c] \in Int
            BY <1>1, <2>2
          <6>. HIDE DEF c
          <6>1. acc.start + i \in acc.start + 1 .. k /\ (acc.start + i) - acc.start = i
            BY <4>1, <6>0
          <6>. QED  BY <2>3, <6>1
        <5>. QED  BY <4>1, <5>1 DEF Lies
      <4>3. ASSUME NEW d \in DOMAIN acc.map, d # c
            PROVE  \E p \in Nat : p + Size[d] <= k /\ Lies(f, p, d, acc.map[d].broker)
        <5>1. PICK p \in Nat : p + Size[d] <= acc.start /\ Lies(f, p, d, acc.map[d].broker)
          BY <1>5 DEF Knows
        <5>2. Size[d] \in Nat
          BY <1>1, ProviderInfoAssumption DEF IsInfo
        <5>. QED  BY <1>1, <5>1, <5>2
      <4>. QED  BY <1>1, <4>1, <4>2, <4>3 DEF Put
    <3>6. Ends(f, k)
      BY <2>5 DEF Ends
    <3>. HIDE DEF new, base, info
    <3>7. /\ new.ok = TRUE /\ new.whole = TRUE /\ new.start = k /\ new.base = base
          /\ new.recordPos = acc.recordPos + k - base /\ new.map = Put(acc.map, c, info)
      BY <3>1
    <3>8. \A j \in 1 .. k : Follows(f, j)
      BY <1>2, <1>5
    <3>9. \A j \in k + 1 .. k : FALSE
      OBVIOUS
    <3>10. Knows(f, k, new)
      <4>1. new = [ok |-> new.ok, whole |-> new.whole, start |-> new.start, base |-> new.base,
                   recordPos |-> new.recordPos, map |-> new.map]
        BY <3>1, <3>7
      <4>2. /\ new.ok \in BOOLEAN /\ new.whole \in BOOLEAN
            /\ new.start \in 0 .. k /\ new.base \in 0 .. new.start /\ new.recordPos \in Nat
        <5>1. k \in 0 .. k
          OBVIOUS
        <5>. QED  BY <3>2, <3>7, <5>1, Zenon
      <4>3. /\ \A j \in 1 .. new.start : f[j].client \in DOMAIN new.map
            /\ \A d \in DOMAIN new.map : \E p \in Nat :
                 p + Size[d] <= new.start /\ Lies(f, p, d, new.map[d].broker)
        BY <3>4, <3>5, <3>7, Zenon
      <4>4. \A j \in new.start + 1 .. k : f[j] = Cell(f[k].client, f[k].broker, j - new.start)
        BY <3>7, <3>9, Zenon
      <4>5. IsInfo(new.map) /\ new.ok /\ new.whole /\ new.start = k /\ ~(new.start < k)
        BY <3>3, <3>7
      <4>. QED  BY <3>6, <3>8, <4>1, <4>2, <4>3, <4>4, <4>5, Zenon DEF Knows
    <3>. QED  BY <3>10, Zenon DEF new
  <2>6. f[k].part < Size[c] \/ f[k].part = Size[c]
    <3>1. f[k].part \in Int /\ Size[c] \in Int
      BY <2>2, CellTypes
    <3>. HIDE DEF c
    <3>. QED  BY <2>2, <3>1
  <2>. QED  BY <2>4, <2>5, <2>6
<1>. QED  BY <1>1, <1>4, <1>5

\* So it knows this behind every cell.
LEMMA KnowsAll ==
  ASSUME NEW f \in Seq(Cells)
  PROVE  Knows(f, Len(f), Parsed(f))
<1> DEFINE T == {k \in 0 .. Len(f) : ~Knows(f, k, Passed(f)[k])}
<1>1. Len(f) \in Nat
  OBVIOUS
<1>2. Knows(f, 0, Passed(f)[0])
  <2> DEFINE acc == Passed(f)[0]
  <2>1. acc = [ok |-> TRUE, whole |-> TRUE, start |-> 0, base |-> 0, recordPos |-> 0, map |-> NoInfo]
    BY <1>1, PassedUnfolds DEF Nothing
  <2>. HIDE DEF acc
  <2>2. /\ acc.ok = TRUE /\ acc.whole = TRUE /\ acc.start = 0 /\ acc.base = 0
        /\ acc.recordPos = 0 /\ acc.map = NoInfo
    BY <2>1
  <2>3. DOMAIN NoInfo = {}
    BY DEF NoInfo
  <2>4. Knows(f, 0, acc)
    BY <2>1, <2>2, <2>3 DEF Knows, IsInfo
  <2>. QED  BY <2>4 DEF acc
<1>3. T = {}
  <2>. SUFFICES ASSUME T # {} PROVE FALSE
    OBVIOUS
  <2>1. PICK n \in T : \A m \in T : n <= m
    <3>1. T \subseteq Nat
      OBVIOUS
    <3>. HIDE DEF T
    <3>. QED  BY <3>1, MinExists
  <2>2. n \in 1 .. Len(f) /\ ~Knows(f, n, Passed(f)[n])
    BY <1>2
  <2>3. n - 1 \in 0 .. Len(f) /\ n - 1 \notin T
    BY <2>1, <2>2
  <2>4. Knows(f, n - 1, Passed(f)[n - 1])
    BY <2>3
  <2>5. Passed(f)[n] = NextCell(f, Passed(f)[n - 1], n)
    BY <1>1, <2>2, PassedUnfolds
  <2>. QED  BY <2>2, <2>4, <2>5, KnowsNext
<1>. QED  BY <1>1, <1>3 DEF Parsed

-----------------------------------------------------------------------------
(* What a file reads as *)

\* The file has the records of the map, each in its place, and nothing else.
Covers(m, f) ==
  /\ \A c \in DOMAIN m : Lies(f, m[c].pos, c, m[c].broker)
  /\ \A k \in 1 .. Len(f) :
       /\ f[k].client \in DOMAIN m
       /\ f[k].part \in 1 .. Size[f[k].client]
       /\ k = m[f[k].client].pos + f[k].part

LEMMA Sizes ==
  ASSUME NEW m, IsInfo(m), NEW c \in DOMAIN m
  PROVE  /\ c \in Clients /\ Size[c] \in Nat \ {0}
         /\ m[c].broker \in IDs /\ m[c].pos \in Nat /\ m[c] = [broker |-> m[c].broker, pos |-> m[c].pos]
BY ProviderInfoAssumption DEF IsInfo

LEMMA LiesAt ==
  ASSUME NEW f \in Seq(Cells), NEW p \in Nat, NEW c \in Clients, NEW id, Lies(f, p, c, id),
         NEW i \in 1 .. Size[c]
  PROVE  /\ p + i \in 1 .. Len(f) /\ f[p + i] = Cell(c, id, i)
         /\ f[p + i].client = c /\ f[p + i].broker = id /\ f[p + i].part = i
<1>1. Size[c] \in Nat \ {0} /\ Len(f) \in Nat
  BY ProviderInfoAssumption
<1>2. p + Size[c] <= Len(f) /\ f[p + i] = Cell(c, id, i)
  BY DEF Lies
<1>3. p + i \in 1 .. Len(f)
  BY <1>1, <1>2
<1>. QED  BY <1>2, <1>3 DEF Cell

\* A file that is readable and whose records are where the map, as it was read, has them,
\* has the records of this map.
LEMMA ReadCovers ==
  ASSUME NEW f \in Seq(Cells), Readable(f), Placed(Loaded(f), f)
  PROVE  Covers(Loaded(f), f)
<1> DEFINE m == Loaded(f)
           acc == Parsed(f)
<1>1. Knows(f, Len(f), acc)
  BY KnowsAll
<1>2. acc.ok /\ acc.start = Len(f) /\ acc.map = m /\ IsInfo(m) /\ Len(f) \in Nat
  BY <1>1 DEF Readable, Loaded, Knows
<1>. HIDE DEF m, acc
<1>3. ASSUME NEW c \in DOMAIN m PROVE Lies(f, m[c].pos, c, m[c].broker)
  <2>1. PICK p \in Nat : p + Size[c] <= Len(f) /\ Lies(f, p, c, m[c].broker)
    BY <1>1, <1>2 DEF Knows
  <2>2. Size[c] \in Nat \ {0} /\ m[c].pos \in Nat
    BY <1>2, Sizes
  <2>3. ASSUME NEW i \in 1 .. Size[c]
        PROVE  p + i \in 1 .. Len(f) /\ f[p + i].client = c
    <3>1. c \in Clients
      BY <1>2 DEF IsInfo
    <3>2. Lies(f, p, c, m[c].broker)
      BY <2>1
    <3>. QED  BY <3>1, <3>2, LiesAt
  <2>4. ASSUME NEW i \in 1 .. Size[c]
        PROVE  p + i \in m[c].pos + 1 .. m[c].pos + Size[c]
    BY <2>3 DEF Placed, m
  <2>5. p = m[c].pos
    <3>1. p + 1 \in m[c].pos + 1 .. m[c].pos + Size[c] /\ p + Size[c] \in m[c].pos + 1 .. m[c].pos + Size[c]
      BY <2>2, <2>4
    <3>. QED  BY <2>2, <3>1
  <2>. QED  BY <2>1, <2>5
<1>4. ASSUME NEW k \in 1 .. Len(f)
      PROVE  /\ f[k].client \in DOMAIN m
             /\ f[k].part \in 1 .. Size[f[k].client]
             /\ k = m[f[k].client].pos + f[k].part
  <2> DEFINE c == f[k].client
  <2>1. c \in DOMAIN m
    BY <1>1, <1>2 DEF Knows
  <2>. HIDE DEF c
  <2>2. k \in m[c].pos + 1 .. m[c].pos + Size[c]
    BY <2>1 DEF Placed, m, c
  <2>3. Size[c] \in Nat \ {0} /\ m[c].pos \in Nat
    BY <1>2, <2>1, Sizes
  <2>4. k - m[c].pos \in 1 .. Size[c] /\ m[c].pos + (k - m[c].pos) = k
    BY <2>2, <2>3
  <2>5. f[k] = Cell(c, m[c].broker, k - m[c].pos)
    BY <1>3, <2>1, <2>4 DEF Lies
  <2>6. f[k].part = k - m[c].pos
    BY <2>5 DEF Cell
  <2>. QED  BY <2>1, <2>3, <2>4, <2>6 DEF c
<1>. QED  BY <1>3, <1>4 DEF Covers, m

\* A file that has the records of a map reads as this map, up to the places.
LEMMA CoversReads ==
  ASSUME NEW f \in Seq(Cells), NEW m, IsInfo(m), Covers(m, f)
  PROVE  /\ Readable(f)
         /\ BrokerIDs(Loaded(f)) = BrokerIDs(m)
         /\ Placed(m, f)
<1> DEFINE acc == Parsed(f)
<1>1. Knows(f, Len(f), acc) /\ Len(f) \in Nat
  BY KnowsAll
<1>2. ASSUME NEW k \in 1 .. Len(f)
      PROVE  /\ f[k].client \in DOMAIN m /\ f[k].part \in 1 .. Size[f[k].client]
             /\ Size[f[k].client] \in Nat \ {0} /\ m[f[k].client].pos \in Nat
             /\ k = m[f[k].client].pos + f[k].part
             /\ f[k] = Cell(f[k].client, m[f[k].client].broker, f[k].part)
             /\ m[f[k].client].pos + Size[f[k].client] <= Len(f)
  <2>1. f[k].client \in DOMAIN m /\ f[k].part \in 1 .. Size[f[k].client] /\ k = m[f[k].client].pos + f[k].part
    BY DEF Covers
  <2>2. Size[f[k].client] \in Nat \ {0} /\ m[f[k].client].pos \in Nat
    BY <2>1, Sizes
  <2>3. Lies(f, m[f[k].client].pos, f[k].client, m[f[k].client].broker)
    BY <2>1 DEF Covers
  <2>. QED  BY <2>1, <2>2, <2>3 DEF Lies
<1>3. ASSUME NEW k \in 1 .. Len(f) PROVE Follows(f, k)
  <2> DEFINE c == f[k].client
             p == f[k].part
  <2>1. /\ c \in DOMAIN m /\ p \in 1 .. Size[c] /\ Size[c] \in Nat \ {0} /\ m[c].pos \in Nat
        /\ k = m[c].pos + p /\ f[k] = Cell(c, m[c].broker, p)
    BY <1>2
  <2>2. CASE p = 1 /\ k > 1
    <3> DEFINE d == f[k - 1].client
               q == f[k - 1].part
    <3>1. k - 1 \in 1 .. Len(f)
      BY <1>1, <2>2
    <3>2. d \in DOMAIN m /\ q \in 1 .. Size[d] /\ Size[d] \in Nat /\ m[d].pos \in Nat /\ k - 1 = m[d].pos + q
      BY <1>2, <3>1
    <3>3. ASSUME q # Size[d] PROVE FALSE
      <4>. HIDE DEF d, q
      <4>1. q + 1 \in 1 .. Size[d] /\ m[d].pos + (q + 1) = k /\ q + 1 > 1
        BY <3>2, <3>3
      <4>2. Lies(f, m[d].pos, d, m[d].broker) /\ d \in Clients
        BY <3>2 DEF Covers, IsInfo
      <4>3. f[k].part = q + 1
        BY <3>2, <4>1, <4>2, LiesAt
      <4>. QED  BY <2>2, <4>1, <4>3
    <3>. QED  BY <2>2, <3>3 DEF Follows, Ends
  <2>3. CASE p > 1
    <3>. HIDE DEF c, p
    <3>1. p - 1 \in 1 .. Size[c] /\ m[c].pos + (p - 1) = k - 1 /\ k > 1
      BY <2>1, <2>3
    <3>2. Lies(f, m[c].pos, c, m[c].broker) /\ c \in Clients
      BY <2>1 DEF Covers, IsInfo
    <3>3. f[k - 1] = Cell(c, m[c].broker, p - 1)
      BY <2>1, <3>1, <3>2, LiesAt
    <3>4. f[k - 1] = [f[k] EXCEPT !.part = p - 1]
      BY <2>1, <3>3 DEF Cell
    <3>. QED  BY <2>3, <3>1, <3>4 DEF Follows, p
  <2>4. p = 1 \/ p > 1
    <3>. HIDE DEF c, p
    <3>. QED  BY <2>1
  <2>5. CASE p = 1 /\ k = 1
    BY <2>5 DEF Follows
  <2>. QED  BY <2>2, <2>3, <2>4, <2>5
<1>4. acc.ok /\ acc.start \in 0 .. Len(f) /\ IsInfo(acc.map)
  BY <1>1, <1>3 DEF Knows
<1>5. acc.start = Len(f)
  <2>. SUFFICES ASSUME acc.start # Len(f) PROVE FALSE
    OBVIOUS
  <2> DEFINE n == Len(f)
             c == f[n].client
  <2>1. acc.start < n /\ n \in acc.start + 1 .. n /\ n \in 1 .. Len(f) /\ n \in Nat
    BY <1>1, <1>4
  <2>2. n - acc.start < Size[c]
    BY <1>1, <1>4, <2>1 DEF Knows
  <2>3. f[n] = Cell(c, f[n].broker, n - acc.start)
    BY <1>1, <1>4, <2>1 DEF Knows
  <2>4. f[n].part = n - acc.start
    BY <2>3 DEF Cell
  <2>5. n = m[c].pos + f[n].part /\ m[c].pos + Size[c] <= n /\ Size[c] \in Nat /\ m[c].pos \in Nat
    BY <1>2, <2>1
  <2>. HIDE DEF c, n
  <2>. QED  BY <1>4, <2>1, <2>2, <2>4, <2>5
<1>6. Readable(f)
  BY <1>1, <1>4, <1>5 DEF Knows, Readable
<1>7. ASSUME NEW c \in DOMAIN acc.map PROVE c \in DOMAIN m /\ acc.map[c].broker = m[c].broker
  <2>1. PICK p \in Nat : Lies(f, p, c, acc.map[c].broker)
    BY <1>1, <1>4 DEF Knows
  <2>2. c \in Clients /\ 1 \in 1 .. Size[c]
    BY <1>4, ProviderInfoAssumption DEF IsInfo
  <2>3. p + 1 \in 1 .. Len(f) /\ f[p + 1].client = c /\ f[p + 1].broker = acc.map[c].broker
    BY <2>1, <2>2, LiesAt
  <2>4. f[p + 1] = Cell(c, m[c].broker, f[p + 1].part)
    BY <1>2, <2>3
  <2>5. f[p + 1].broker = m[c].broker
    BY <2>4 DEF Cell
  <2>. QED  BY <1>2, <2>3, <2>5
<1>8. ASSUME NEW c \in DOMAIN m PROVE c \in DOMAIN acc.map
  <2>1. Lies(f, m[c].pos, c, m[c].broker) /\ c \in Clients /\ m[c].pos \in Nat /\ 1 \in 1 .. Size[c]
    BY Sizes DEF Covers
  <2>2. m[c].pos + 1 \in 1 .. Len(f) /\ f[m[c].pos + 1].client = c
    BY <2>1, LiesAt
  <2>. QED  BY <1>1, <1>4, <1>5, <2>2 DEF Knows
<1>9. BrokerIDs(Loaded(f)) = BrokerIDs(m)
  <2>1. DOMAIN acc.map = DOMAIN m
    BY <1>7, <1>8
  <2>. HIDE DEF acc
  <2>. QED  BY <1>7, <2>1 DEF BrokerIDs, Loaded, acc
<1>10. ASSUME NEW c \in DOMAIN m, NEW k \in 1 .. Len(f)
       PROVE  f[k].client = c <=> k \in m[c].pos + 1 .. m[c].pos + Size[c]
  <2>1. m[c].pos \in Nat /\ Size[c] \in Nat /\ c \in Clients
    BY Sizes
  <2>2. ASSUME f[k].client = c PROVE k \in m[c].pos + 1 .. m[c].pos + Size[c]
    <3>1. f[k].part \in 1 .. Size[c] /\ k = m[c].pos + f[k].part
      BY <1>2, <2>2
    <3>. QED  BY <2>1, <3>1
  <2>3. ASSUME k \in m[c].pos + 1 .. m[c].pos + Size[c] PROVE f[k].client = c
    <3>1. k - m[c].pos \in 1 .. Size[c] /\ m[c].pos + (k - m[c].pos) = k
      BY <2>1, <2>3
    <3>2. Lies(f, m[c].pos, c, m[c].broker)
      BY DEF Covers
    <3>. QED  BY <2>1, <3>1, <3>2, LiesAt
  <2>. QED  BY <2>2, <2>3
<1>. QED  BY <1>6, <1>9, <1>10 DEF Placed

-----------------------------------------------------------------------------
(* Writing *)

LEMMA RecordIs ==
  ASSUME NEW c \in Clients, NEW id \in IDs
  PROVE  /\ Record(c, id) \in Seq(Cells) /\ Len(Record(c, id)) = Size[c]
         /\ \A k \in 1 .. Size[c] : Record(c, id)[k] = Cell(c, id, k)
         /\ \A n \in 0 .. Size[c] :
              /\ SubSeq(Record(c, id), 1, n) \in Seq(Cells) /\ Len(SubSeq(Record(c, id), 1, n)) = n
              /\ \A k \in 1 .. n : SubSeq(Record(c, id), 1, n)[k] = Cell(c, id, k)
<1>1. Size[c] \in Nat \ {0}
  BY ProviderInfoAssumption
<1>2. ASSUME NEW k \in 1 .. Size[c] PROVE Cell(c, id, k) \in Cells
  BY <1>1 DEF Cell, Cells, Parts
<1>3. Record(c, id) = [k \in 1 .. Size[c] |-> Cell(c, id, k)]
  BY DEF Record, Cell
<1>4. Record(c, id) \in Seq(Cells) /\ Len(Record(c, id)) = Size[c]
  BY <1>1, <1>2, <1>3
<1>5. ASSUME NEW n \in 0 .. Size[c]
      PROVE  /\ SubSeq(Record(c, id), 1, n) \in Seq(Cells) /\ Len(SubSeq(Record(c, id), 1, n)) = n
             /\ \A k \in 1 .. n : SubSeq(Record(c, id), 1, n)[k] = Cell(c, id, k)
  <2>1. SubSeq(Record(c, id), 1, n) = [k \in 1 .. n |-> Record(c, id)[k]]
    BY <1>1, <1>4
  <2>2. \A k \in 1 .. n : k \in 1 .. Size[c]
    BY <1>1
  <2>. QED  BY <1>1, <1>2, <1>3, <2>1, <2>2
<1>. QED  BY <1>3, <1>4, <1>5

\* What a write leaves in the file.
LEMMA WriteAtIs ==
  ASSUME NEW f \in Seq(Cells), NEW pos \in Nat, NEW cells \in Seq(Cells)
  PROVE  LET g == WriteAt(f, pos, cells) IN
         /\ g \in Seq(Cells)
         /\ Len(g) = IF Len(f) >= pos + Len(cells) THEN Len(f) ELSE pos + Len(cells)
         /\ \A k \in 1 .. Len(cells) : g[pos + k] = cells[k]
         /\ \A k \in 1 .. Len(g) : k \notin pos + 1 .. pos + Len(cells) =>
              g[k] = IF k <= Len(f) THEN f[k] ELSE HOLE
<1> DEFINE g == WriteAt(f, pos, cells)
           n == IF Len(f) >= pos + Len(cells) THEN Len(f) ELSE pos + Len(cells)
<1>1. Len(f) \in Nat /\ Len(cells) \in Nat /\ n \in Nat
  OBVIOUS
<1>2. g = [k \in 1 .. n |-> IF k \in pos + 1 .. pos + Len(cells) THEN cells[k - pos]
                            ELSE IF k <= Len(f) THEN f[k] ELSE HOLE]
  <2>1. Max({Len(f), pos + Len(cells)}) = n
    BY <1>1, MaxOfPair
  <2>. QED  BY <2>1 DEF WriteAt
<1>3. ASSUME NEW k \in 1 .. n PROVE g[k] \in Cells
  <2>1. CASE k \in pos + 1 .. pos + Len(cells)
    <3>1. k - pos \in 1 .. Len(cells)
      BY <1>1, <2>1
    <3>2. cells[k - pos] \in Cells
      BY <3>1
    <3>. QED  BY <1>2, <2>1, <3>2
  <2>2. CASE k \notin pos + 1 .. pos + Len(cells) /\ k <= Len(f)
    <3>1. f[k] \in Cells
      BY <1>1, <2>2
    <3>. QED  BY <1>2, <2>2, <3>1
  <2>3. CASE k \notin pos + 1 .. pos + Len(cells) /\ ~(k <= Len(f))
    BY <1>2, <2>3 DEF Cells
  <2>. QED  BY <2>1, <2>2, <2>3
<1>4. g \in Seq(Cells) /\ Len(g) = n
  <2>1. g \in [1 .. n -> Cells]
    BY <1>2, <1>3
  <2>. HIDE DEF g
  <2>. QED  BY <1>1, <2>1
<1>5. ASSUME NEW k \in 1 .. Len(cells) PROVE g[pos + k] = cells[k]
  <2>1. pos + k \in 1 .. n /\ pos + k \in pos + 1 .. pos + Len(cells) /\ (pos + k) - pos = k
    BY <1>1
  <2>. HIDE DEF n
  <2>. QED  BY <1>2, <2>1
<1>6. ASSUME NEW k \in 1 .. Len(g), k \notin pos + 1 .. pos + Len(cells)
      PROVE  g[k] = IF k <= Len(f) THEN f[k] ELSE HOLE
  <2>1. k \in 1 .. n
    BY <1>4
  <2>. HIDE DEF n
  <2>. QED  BY <1>2, <1>6, <2>1
<1>. QED  BY <1>4, <1>5, <1>6

\* A write of nothing changes nothing.
LEMMA WriteNothing ==
  ASSUME NEW f \in Seq(Cells), NEW pos \in 0 .. Len(f), NEW cells \in Seq(Cells), Len(cells) = 0
  PROVE  WriteAt(f, pos, cells) = f
<1> DEFINE g == WriteAt(f, pos, cells)
<1>1. Len(f) \in Nat /\ pos \in Nat /\ pos <= Len(f) /\ pos + Len(cells) = pos
  OBVIOUS
<1>2. Max({Len(f), pos + Len(cells)}) = Len(f)
  BY <1>1, MaxOfPair
<1>3. g = [k \in 1 .. Len(f) |-> IF k \in pos + 1 .. pos + Len(cells) THEN cells[k - pos]
                                 ELSE IF k <= Len(f) THEN f[k] ELSE HOLE]
  BY <1>2 DEF WriteAt
<1>. HIDE DEF g
<1>4. ASSUME NEW k \in 1 .. Len(f) PROVE g[k] = f[k]
  <2>1. k \notin pos + 1 .. pos + Len(cells) /\ k <= Len(f)
    BY <1>1
  <2>. QED  BY <1>3, <2>1
<1>5. f = [k \in 1 .. Len(f) |-> f[k]]
  OBVIOUS
<1>6. DOMAIN g = 1 .. Len(f) /\ g = [k \in 1 .. Len(f) |-> g[k]]
  BY <1>3
<1>7. g = f
  BY <1>4, <1>5, <1>6
<1>. QED  BY <1>7 DEF g

\* Where a record goes.
LEMMA PlaceIs ==
  ASSUME NEW f \in Seq(Cells), NEW m, IsInfo(m), Covers(m, f), NEW c \in Clients
  PROVE  /\ Place(m, f, c) \in 0 .. Len(f)
         /\ c \in DOMAIN m => Place(m, f, c) + Size[c] <= Len(f)
         /\ c \notin DOMAIN m => Place(m, f, c) = Len(f)
         /\ \A k \in 1 .. Len(f) :
              f[k].client = c <=> k \in Place(m, f, c) + 1 .. Place(m, f, c) + Size[c]
<1>1. Size[c] \in Nat \ {0} /\ Len(f) \in Nat
  BY ProviderInfoAssumption
<1>2. CASE c \in DOMAIN m
  <2>1. Place(m, f, c) = m[c].pos /\ m[c].pos \in Nat
    BY <1>2, Sizes DEF Place
  <2>2. m[c].pos + Size[c] <= Len(f)
    BY <1>2 DEF Covers, Lies
  <2>3. Placed(m, f)
    BY CoversReads
  <2>. QED  BY <1>1, <1>2, <2>1, <2>2, <2>3 DEF Placed
<1>3. CASE c \notin DOMAIN m
  BY <1>1, <1>3 DEF Place, Covers
<1>. QED  BY <1>2, <1>3

\* After the write of a whole record the file has the records of the new map.
LEMMA UpdateCovers ==
  ASSUME NEW f \in Seq(Cells), NEW m, IsInfo(m), Covers(m, f), NEW c \in Clients, NEW id \in IDs
  PROVE  Covers(Put(m, c, [broker |-> id, pos |-> Place(m, f, c)]), WriteAt(f, Place(m, f, c), Record(c, id)))
<1> DEFINE pos == Place(m, f, c)
           new == Put(m, c, [broker |-> id, pos |-> pos])
           g == WriteAt(f, pos, Record(c, id))
<1>1. /\ Size[c] \in Nat \ {0} /\ Len(f) \in Nat /\ pos \in 0 .. Len(f)
      /\ \A k \in 1 .. Len(f) : f[k].client = c <=> k \in pos + 1 .. pos + Size[c]
  BY PlaceIs, ProviderInfoAssumption
<1>2. /\ g \in Seq(Cells)
      /\ Len(g) = IF Len(f) >= pos + Size[c] THEN Len(f) ELSE pos + Size[c]
      /\ \A k \in 1 .. Size[c] : g[pos + k] = Cell(c, id, k)
      /\ \A k \in 1 .. Len(g) : k \notin pos + 1 .. pos + Size[c] => g[k] = IF k <= Len(f) THEN f[k] ELSE HOLE
  <2> DEFINE r == Record(c, id)
  <2>1. r \in Seq(Cells) /\ Len(r) = Size[c] /\ (\A k \in 1 .. Size[c] : r[k] = Cell(c, id, k))
    BY RecordIs
  <2>2. pos \in Nat
    BY <1>1
  <2>. HIDE DEF r, pos
  <2>3. LET h == WriteAt(f, pos, r) IN
        /\ h \in Seq(Cells)
        /\ Len(h) = IF Len(f) >= pos + Len(r) THEN Len(f) ELSE pos + Len(r)
        /\ \A k \in 1 .. Len(r) : h[pos + k] = r[k]
        /\ \A k \in 1 .. Len(h) : k \notin pos + 1 .. pos + Len(r) => h[k] = IF k <= Len(f) THEN f[k] ELSE HOLE
    BY <2>1, <2>2, WriteAtIs
  <2>. QED  BY <2>1, <2>3, Zenon DEF r
<1>3. /\ DOMAIN new = DOMAIN m \cup {c}
      /\ new[c] = [broker |-> id, pos |-> pos]
      /\ \A d \in DOMAIN m : d # c => new[d] = m[d]
  BY DEF Put
<1>4. new[c].broker = id /\ new[c].pos = pos
  BY <1>3
<1>. HIDE DEF g, new, pos
<1>5. Len(f) <= Len(g) /\ pos + Size[c] <= Len(g) /\ Len(g) \in Nat
  BY <1>1, <1>2
<1>6. ASSUME NEW k \in 1 .. Len(g), k \notin pos + 1 .. pos + Size[c]
      PROVE  k \in 1 .. Len(f) /\ g[k] = f[k]
  BY <1>1, <1>2, <1>5, <1>6
<1>7. ASSUME NEW d \in DOMAIN new PROVE Lies(g, new[d].pos, d, new[d].broker)
  <2>1. CASE d = c
    BY <1>2, <1>4, <1>5, <2>1 DEF Lies
  <2>2. CASE d # c
    <3>1. d \in DOMAIN m /\ d \in Clients /\ m[d].pos \in Nat /\ Size[d] \in Nat /\ new[d] = m[d]
      BY <1>3, <2>2, Sizes
    <3>2. Lies(f, m[d].pos, d, m[d].broker)
      BY <3>1 DEF Covers
    <3>3. ASSUME NEW i \in 1 .. Size[d] PROVE g[m[d].pos + i] = Cell(d, m[d].broker, i)
      <4>1. m[d].pos + i \in 1 .. Len(f) /\ f[m[d].pos + i] = Cell(d, m[d].broker, i) /\ f[m[d].pos + i].client = d
        BY <3>1, <3>2, LiesAt
      <4>2. m[d].pos + i \notin pos + 1 .. pos + Size[c]
        BY <1>1, <2>2, <4>1
      <4>3. m[d].pos + i \in 1 .. Len(g)
        BY <1>1, <1>5, <4>1
      <4>. QED  BY <1>6, <4>1, <4>2, <4>3
    <3>4. m[d].pos + Size[d] <= Len(g)
      BY <1>1, <1>5, <3>1, <3>2 DEF Lies
    <3>. QED  BY <3>1, <3>3, <3>4 DEF Lies
  <2>. QED  BY <2>1, <2>2
<1>8. ASSUME NEW k \in 1 .. Len(g)
      PROVE  /\ g[k].client \in DOMAIN new
             /\ g[k].part \in 1 .. Size[g[k].client]
             /\ k = new[g[k].client].pos + g[k].part
  <2>1. CASE k \in pos + 1 .. pos + Size[c]
    <3>1. k - pos \in 1 .. Size[c] /\ pos + (k - pos) = k
      BY <1>1, <2>1
    <3>2. g[k] = Cell(c, id, k - pos)
      BY <1>2, <3>1
    <3>3. g[k].client = c /\ g[k].part = k - pos
      BY <3>2 DEF Cell
    <3>. QED  BY <1>3, <1>4, <3>1, <3>3
  <2>2. CASE k \notin pos + 1 .. pos + Size[c]
    <3>1. k \in 1 .. Len(f) /\ g[k] = f[k] /\ f[k].client # c
      BY <1>1, <1>6, <2>2
    <3>2. f[k].client \in DOMAIN m /\ f[k].part \in 1 .. Size[f[k].client] /\ k = m[f[k].client].pos + f[k].part
      BY <3>1 DEF Covers
    <3>. QED  BY <1>3, <3>1, <3>2
  <2>. QED  BY <2>1, <2>2
<1>9. Covers(new, g)
  BY <1>7, <1>8 DEF Covers
<1>. QED  BY <1>9 DEF new, g, pos

\* A record of which only a part was written is noticed.
LEMMA TornIsNoticed ==
  ASSUME NEW f \in Seq(Cells), NEW m, IsInfo(m), Covers(m, f), NEW c \in Clients, NEW id \in IDs,
         IsNews(m, c, id), NEW n \in 1 .. Size[c] - 1
  PROVE  ~Readable(WriteAt(f, Place(m, f, c), SubSeq(Record(c, id), 1, n)))
<1> DEFINE pos == Place(m, f, c)
           g == WriteAt(f, pos, SubSeq(Record(c, id), 1, n))
<1>1. /\ Size[c] \in Nat \ {0} /\ Len(f) \in Nat /\ pos \in 0 .. Len(f)
      /\ c \in DOMAIN m => pos + Size[c] <= Len(f)
      /\ c \notin DOMAIN m => pos = Len(f)
  BY PlaceIs, ProviderInfoAssumption
<1>2. n \in 0 .. Size[c]
  BY <1>1
<1>3. /\ g \in Seq(Cells)
      /\ Len(g) = IF Len(f) >= pos + n THEN Len(f) ELSE pos + n
      /\ \A k \in 1 .. n : g[pos + k] = Cell(c, id, k)
      /\ \A k \in 1 .. Len(g) : k \notin pos + 1 .. pos + n => g[k] = IF k <= Len(f) THEN f[k] ELSE HOLE
  <2> DEFINE r == SubSeq(Record(c, id), 1, n)
  <2>1. r \in Seq(Cells) /\ Len(r) = n /\ (\A k \in 1 .. n : r[k] = Cell(c, id, k))
    BY <1>2, RecordIs
  <2>2. pos \in Nat
    BY <1>1
  <2>. HIDE DEF r, pos
  <2>3. LET h == WriteAt(f, pos, r) IN
        /\ h \in Seq(Cells)
        /\ Len(h) = IF Len(f) >= pos + Len(r) THEN Len(f) ELSE pos + Len(r)
        /\ \A k \in 1 .. Len(r) : h[pos + k] = r[k]
        /\ \A k \in 1 .. Len(h) : k \notin pos + 1 .. pos + Len(r) => h[k] = IF k <= Len(f) THEN f[k] ELSE HOLE
    BY <2>1, <2>2, WriteAtIs
  <2>. QED  BY <2>1, <2>3, Zenon DEF r
<1>. SUFFICES ASSUME Readable(g) PROVE FALSE
  OBVIOUS
<1>. HIDE DEF g, pos
<1>4. Knows(g, Len(g), Parsed(g)) /\ Parsed(g).ok /\ Parsed(g).whole
  BY <1>3, KnowsAll DEF Readable
<1>5. g[pos + n] = Cell(c, id, n) /\ n \in Nat /\ n < Size[c]
  BY <1>1, <1>3
<1>6. CASE c \in DOMAIN m
  <2>1. pos = m[c].pos /\ m[c].broker \in IDs
    BY <1>6, Sizes DEF Place, pos
  <2>2. /\ pos + (n + 1) \in 1 .. Len(g) /\ pos + (n + 1) \notin pos + 1 .. pos + n
        /\ pos + (n + 1) <= Len(f) /\ n + 1 \in 1 .. Size[c] /\ (pos + (n + 1)) - 1 = pos + n
    BY <1>1, <1>3, <1>5, <1>6
  <2>3. g[pos + (n + 1)] = Cell(c, m[c].broker, n + 1)
    <3>1. g[pos + (n + 1)] = f[pos + (n + 1)]
      BY <1>3, <2>2
    <3>2. Lies(f, pos, c, m[c].broker)
      BY <1>6, <2>1 DEF Covers
    <3>. QED  BY <2>2, <3>1, <3>2 DEF Lies
  <2>4. Follows(g, pos + (n + 1))
    BY <1>4, <2>2 DEF Knows
  <2>5. g[pos + (n + 1)].part = n + 1 /\ n + 1 > 1 /\ n + 1 # 1
    BY <1>5, <2>3 DEF Cell
  <2>6. g[pos + n] = [g[pos + (n + 1)] EXCEPT !.part = @ - 1]
    BY <2>2, <2>4, <2>5 DEF Follows
  <2>7. id = m[c].broker
    <3>1. g[pos + n].broker = id
      BY <1>5 DEF Cell
    <3>2. [g[pos + (n + 1)] EXCEPT !.part = @ - 1].broker = m[c].broker
      BY <2>3 DEF Cell
    <3>. QED  BY <2>6, <3>1, <3>2
  <2>8. Before(m[c].broker, id)
    BY <1>6 DEF IsNews
  <2>. QED  BY <2>1, <2>7, <2>8, BeforeOrders
<1>7. CASE c \notin DOMAIN m
  <2>1. Len(g) = pos + n /\ Len(g) > 0
    BY <1>1, <1>3, <1>5, <1>7
  <2>2. Ends(g, pos + n)
    BY <1>4, <2>1 DEF Knows
  <2>. QED  BY <1>5, <2>2 DEF Ends, Cell
<1>. QED  BY <1>6, <1>7

-----------------------------------------------------------------------------
(* The invariants *)

Types ==
  /\ phase \in {"down", "up", "failed", "rebuilding"}
  /\ stores \in [Sessions -> Seq(Clients)]
  /\ file \in Seq(Cells)
  /\ IsInfo(map)
  /\ \A c \in DOMAIN taken : taken[c] \in IDs
  /\ left \subseteq Messages /\ (phase # "rebuilding" => left = {})
  /\ partial \in BOOLEAN /\ placed \in BOOLEAN
  /\ phase \in {"failed", "rebuilding"} => partial
  /\ phase \in {"down", "failed"} => DOMAIN map = {}

\* The file has the records of the map, while init has got all places right.
Covered == placed /\ phase \in {"up", "rebuilding"} => Covers(map, file)

\* What was taken of each client is not newer than what m has of it.
NoneNewer(m) == \A c \in DOMAIN taken : c \in DOMAIN m /\ ~Before(m[c].broker, taken[c])

\* A closed store remembers what it would read again.
Remembered ==
  placed /\ ~partial =>
    /\ phase = "up" => NoneNewer(map)
    /\ phase = "down" /\ Readable(file) => NoneNewer(Loaded(file))

\* A rebuild has the last of the messages that it has gone over.
Gathered ==
  phase = "rebuilding" =>
    /\ \A id \in Messages \ left : Sender(id) \in DOMAIN map /\ ~Before(map[Sender(id)].broker, id)
    /\ \A c \in DOMAIN map : map[c].broker \in Messages \ left /\ Sender(map[c].broker) = c

Inv == Types /\ Covered /\ Remembered /\ Gathered

LEMMA MessagesAreIDs ==
  ASSUME Types, NEW id \in Messages
  PROVE  id \in IDs /\ Sender(id) \in Clients
<1>1. PICK s \in Sessions : id \in {<<s, n>> : n \in DOMAIN stores[s]}
  BY DEF Messages
<1>2. PICK n \in DOMAIN stores[s] : id = <<s, n>>
  BY <1>1
<1>3. stores[s] \in Seq(Clients) /\ s \in Nat
  BY ProviderInfoAssumption DEF Types
<1>4. n \in Nat /\ stores[s][n] \in Clients
  BY <1>2, <1>3
<1>. QED  BY <1>2, <1>3, <1>4 DEF IDs, Sender

LEMMA InitInv == Init => Inv
<1>. SUFFICES ASSUME Init PROVE Inv
  OBVIOUS
<1>1. DOMAIN NoInfo = {}
  BY DEF NoInfo
<1>2. Types
  <2>1. stores \in [Sessions -> Seq(Clients)] /\ file \in Seq(Cells)
    BY DEF Init
  <2>. QED  BY <1>1, <2>1 DEF Init, Types, IsInfo
<1>. QED  BY <1>1, <1>2 DEF Init, Inv, Covered, Remembered, NoneNewer, Gathered

\* An update: the map has the later of the two messages, and the file what the map has.
LEMMA UpdateKeeps ==
  ASSUME Types, placed => Covers(map, file), NEW c \in Clients, NEW id \in IDs, Updated(c, id)
  PROVE  /\ file' \in Seq(Cells) /\ IsInfo(map')
         /\ placed => Covers(map', file')
         /\ DOMAIN map' = DOMAIN map \cup {c}
         /\ \A d \in DOMAIN map : d # c => map'[d] = map[d]
         /\ map'[c].broker = IF IsNews(map, c, id) THEN id ELSE map[c].broker
<1> DEFINE pos == Place(map, file, c)
<1>1. pos \in Nat
  BY Sizes DEF Types, Place
<1>2. CASE IsNews(map, c, id)
  <2>1. map' = Put(map, c, [broker |-> id, pos |-> pos]) /\ file' = WriteAt(file, pos, Record(c, id))
    BY <1>2 DEF Updated
  <2>2. file' \in Seq(Cells)
    BY <1>1, <2>1, RecordIs, WriteAtIs DEF Types
  <2>3. placed => Covers(map', file')
    BY <2>1, UpdateCovers DEF Types
  <2>4. /\ DOMAIN map' = DOMAIN map \cup {c}
        /\ \A d \in DOMAIN map : d # c => map'[d] = map[d]
        /\ map'[c] = [broker |-> id, pos |-> pos]
    BY <2>1 DEF Put
  <2>5. IsInfo(map')
    BY <1>1, <2>4 DEF IsInfo, Types
  <2>. QED  BY <1>2, <2>2, <2>3, <2>4, <2>5
<1>3. CASE ~IsNews(map, c, id)
  BY <1>3 DEF Updated, IsNews, Types
<1>. QED  BY <1>2, <1>3

-----------------------------------------------------------------------------
(* The steps *)

\* A message comes; there is nothing left of a rebuild.
LEMMA ReceiveStep ==
  ASSUME Inv, NEW s \in Sessions, NEW c \in Clients, Receive(s, c)
  PROVE  Inv'
<1>1. stores' \in [Sessions -> Seq(Clients)]
  BY DEF Receive, Inv, Types
<1>2. Types' /\ phase' # "rebuilding"
  BY <1>1 DEF Receive, Inv, Types
<1>3. Covered' /\ Remembered'
  BY DEF Receive, Inv, Covered, Remembered, NoneNewer
<1>4. Gathered'
  BY <1>2 DEF Gathered
<1>. QED  BY <1>2, <1>3, <1>4 DEF Inv

LEMMA updateRecordStep ==
  ASSUME Inv, NEW id \in Messages, updateRecord(id)
  PROVE  Inv'
<1>1. Types /\ Covered /\ phase = "up" /\ Updated(Sender(id), id) /\ taken' = BrokerIDs(map')
  BY DEF updateRecord, Inv
<1>2. UNCHANGED <<phase, left, stores, partial, placed>>
  BY DEF updateRecord, counters
<1>3. placed => Covers(map, file)
  BY <1>1 DEF Covered
<1>4. file' \in Seq(Cells) /\ IsInfo(map') /\ (placed => Covers(map', file'))
  BY <1>1, <1>3, MessagesAreIDs, UpdateKeeps
<1>5. \A c \in DOMAIN taken' : c \in DOMAIN map' /\ taken'[c] = map'[c].broker /\ taken'[c] \in IDs
  BY <1>1, <1>4 DEF BrokerIDs, IsInfo
<1>6. Types'
  BY <1>1, <1>2, <1>4, <1>5 DEF Types, Messages
<1>7. Covered' /\ Gathered'
  BY <1>1, <1>2, <1>4 DEF Covered, Gathered
<1>8. NoneNewer(map)'
  BY <1>5, BeforeOrders DEF NoneNewer
<1>9. Remembered'
  BY <1>1, <1>2, <1>8 DEF Remembered
<1>. QED  BY <1>6, <1>7, <1>9 DEF Inv

\* One message of a rebuild
LEMMA ReplayStep ==
  ASSUME Inv, NEW id \in Messages, Replay(id)
  PROVE  Inv'
<1>1. Types /\ Covered /\ Gathered /\ phase = "rebuilding" /\ Updated(Sender(id), id) /\ partial
  BY DEF Replay, Inv, Types
<1>2. UNCHANGED <<phase, stores, taken, partial, placed>> /\ left' = left \ {id} /\ Messages' = Messages
  BY DEF Replay, counters, Messages
<1>3. placed => Covers(map, file)
  BY <1>1 DEF Covered
<1>4. id \in IDs /\ Sender(id) \in Clients /\ \A o \in Messages : o \in IDs
  BY <1>1, MessagesAreIDs
<1> DEFINE c == Sender(id)
<1>5. /\ file' \in Seq(Cells) /\ IsInfo(map') /\ (placed => Covers(map', file'))
      /\ DOMAIN map' = DOMAIN map \cup {c}
      /\ \A d \in DOMAIN map : d # c => map'[d] = map[d]
      /\ map'[c].broker = IF IsNews(map, c, id) THEN id ELSE map[c].broker
  BY <1>1, <1>3, <1>4, UpdateKeeps
<1>6. Types'
  BY <1>1, <1>2, <1>5 DEF Types
<1>7. Covered' /\ Remembered'
  BY <1>1, <1>2, <1>5 DEF Covered, Remembered
<1>8. \A o \in Messages : Sender(o)' = Sender(o)
  BY <1>2 DEF Sender
<1>9. /\ \A o \in Messages \ left : Sender(o) \in DOMAIN map /\ ~Before(map[Sender(o)].broker, o)
      /\ \A d \in DOMAIN map : map[d].broker \in Messages \ left /\ Sender(map[d].broker) = d
  BY <1>1 DEF Gathered
<1>10. Messages' \ left' = (Messages \ left) \cup {id}
  BY <1>2
<1>11. map'[c].broker \in IDs /\ ~Before(map'[c].broker, id)
       /\ (c \in DOMAIN map => ~Before(map'[c].broker, map[c].broker) /\ map[c].broker \in IDs)
  <2>1. c \in DOMAIN map => map[c].broker \in IDs
    BY <1>1 DEF Types, IsInfo
  <2>2. ~Before(id, id) /\ (c \in DOMAIN map => ~Before(map[c].broker, map[c].broker))
    BY <1>4, <2>1, BeforeOrders
  <2>3. c \in DOMAIN map /\ Before(map[c].broker, id) => ~Before(id, map[c].broker)
    BY <1>4, <2>1, BeforeOrders
  <2>4. CASE IsNews(map, c, id)
    BY <1>4, <1>5, <2>1, <2>2, <2>3, <2>4 DEF IsNews
  <2>5. CASE ~IsNews(map, c, id)
    BY <1>4, <1>5, <2>1, <2>2, <2>5 DEF IsNews
  <2>. QED  BY <2>4, <2>5
<1>12. ASSUME NEW o \in Messages' \ left'
       PROVE  Sender(o)' \in DOMAIN map' /\ ~Before(map'[Sender(o)].broker, o)
  <2>1. CASE o = id
    BY <1>5, <1>8, <1>11, <2>1
  <2>2. CASE o # id /\ Sender(o) # c
    BY <1>2, <1>5, <1>8, <1>9, <2>2
  <2>3. CASE o # id /\ Sender(o) = c
    <3>1. c \in DOMAIN map /\ ~Before(map[c].broker, o) /\ o \in IDs
      BY <1>2, <1>4, <1>9, <2>3
    <3>2. ~Before(map'[c].broker, o)
      BY <1>11, <3>1, BeforeOrders
    <3>. QED  BY <1>2, <1>5, <1>8, <2>3, <3>2
  <2>. QED  BY <2>1, <2>2, <2>3
<1>13. ASSUME NEW d \in DOMAIN map'
       PROVE  map'[d].broker \in Messages' \ left' /\ Sender(map'[d].broker) = d
  <2>1. CASE d # c
    BY <1>2, <1>5, <1>8, <1>9, <1>10, <2>1
  <2>2. CASE d = c /\ IsNews(map, c, id)
    BY <1>5, <1>8, <1>10, <2>2
  <2>3. CASE d = c /\ ~IsNews(map, c, id)
    BY <1>2, <1>5, <1>8, <1>9, <1>10, <2>3 DEF IsNews
  <2>. QED  BY <2>1, <2>2, <2>3
<1>14. Gathered'
  BY <1>2, <1>12, <1>13 DEF Gathered, Sender
<1>. QED  BY <1>6, <1>7, <1>14 DEF Inv

\* The process ends in a write.  Nothing of it, all of it or a part is there: the last is
\* noticed, so that what can be read is not older than what was taken.
LEMMA CrashStep ==
  ASSUME Inv, NEW id \in Messages, phase \in {"up", "rebuilding"}, CrashInWrite(Sender(id), id)
  PROVE  Inv'
<1> DEFINE c == Sender(id)
           pos == Place(map, file, c)
<1>1. /\ Types /\ Covered /\ Remembered /\ IsNews(map, c, id)
      /\ phase' = "down" /\ map' = NoInfo /\ left' = {}
      /\ UNCHANGED <<stores, taken, partial, placed>>
  BY DEF CrashInWrite, Inv, counters
<1>2. PICK n \in 0 .. Size[c] : file' = WriteAt(file, pos, SubSeq(Record(c, id), 1, n))
  BY DEF CrashInWrite
<1>3. id \in IDs /\ c \in Clients /\ Size[c] \in Nat \ {0}
  BY <1>1, MessagesAreIDs, ProviderInfoAssumption
<1>4. pos \in Nat
  BY <1>1, Sizes DEF Types, Place
<1>5. SubSeq(Record(c, id), 1, n) \in Seq(Cells) /\ Len(SubSeq(Record(c, id), 1, n)) = n
  BY <1>3, RecordIs
<1>. HIDE DEF c, pos
<1>6. file' \in Seq(Cells)
  BY <1>1, <1>2, <1>4, <1>5, WriteAtIs DEF Types
<1>7. Types'
  BY <1>1, <1>6 DEF Types, IsInfo, NoInfo
<1>8. Covered' /\ Gathered'
  BY <1>1 DEF Covered, Gathered
<1>9. ASSUME placed, ~partial, Readable(file')
      PROVE  NoneNewer(Loaded(file'))
  <2>1. phase = "up" /\ Covers(map, file) /\ NoneNewer(map)
    BY <1>1, <1>9 DEF Types, Covered, Remembered
  <2>2. CASE n = 0
    <3>1. file' = file
      <4> DEFINE r == SubSeq(Record(c, id), 1, n)
      <4>1. file \in Seq(Cells)
        BY <1>1 DEF Types
      <4>2. pos \in 0 .. Len(file)
        BY <1>1, <1>3, <2>1, PlaceIs DEF Types, pos
      <4>3. r \in Seq(Cells) /\ Len(r) = 0
        BY <1>5, <2>2
      <4>4. file' = WriteAt(file, pos, r)
        BY <1>2
      <4>. HIDE DEF r
      <4>5. WriteAt(file, pos, r) = file
        BY <4>1, <4>2, <4>3, WriteNothing
      <4>. QED  BY <4>4, <4>5
    <3>2. BrokerIDs(Loaded(file)) = BrokerIDs(map)
      BY <1>1, <2>1, CoversReads DEF Types
    <3>. QED  BY <2>1, <3>1, <3>2 DEF NoneNewer, BrokerIDs
  <2>3. CASE n = Size[c]
    <3> DEFINE new == Put(map, c, [broker |-> id, pos |-> pos])
    <3>1. SubSeq(Record(c, id), 1, n) = Record(c, id)
      BY <1>3, <2>3, RecordIs
    <3>2. Covers(new, file') /\ IsInfo(new)
      <4>1. Covers(new, file')
        BY <1>1, <1>2, <1>3, <2>1, <3>1, UpdateCovers DEF Types, pos
      <4>2. IsInfo(new)
        BY <1>1, <1>3, <1>4 DEF Types, IsInfo, Put
      <4>. QED  BY <4>1, <4>2
    <3>3. BrokerIDs(Loaded(file')) = BrokerIDs(new)
      BY <1>6, <3>2, CoversReads
    <3>4. NoneNewer(new)
      <4>1. /\ DOMAIN new = DOMAIN map \cup {c} /\ new[c].broker = id
            /\ \A d \in DOMAIN map : d # c => new[d] = map[d]
        BY DEF Put
      <4>2. ASSUME c \in DOMAIN taken PROVE ~Before(id, taken[c])
        <5>1. taken[c] \in IDs /\ c \in DOMAIN map /\ map[c].broker \in IDs
          BY <1>1, <2>1, <4>2 DEF Types, IsInfo, NoneNewer
        <5>2. Before(map[c].broker, id) /\ ~Before(map[c].broker, taken[c])
          BY <1>1, <2>1, <4>2, <5>1 DEF IsNews, NoneNewer
        <5>. QED  BY <1>3, <5>1, <5>2, BeforeOrders
      <4>. HIDE DEF new
      <4>. QED  BY <2>1, <4>1, <4>2 DEF NoneNewer
    <3>. HIDE DEF new
    <3>. QED  BY <3>3, <3>4 DEF NoneNewer, BrokerIDs
  <2>4. CASE n # 0 /\ n # Size[c]
    <3>1. n \in 1 .. Size[c] - 1
      BY <1>3, <2>4
    <3>2. ~Readable(file')
      BY <1>1, <1>2, <1>3, <2>1, <3>1, TornIsNoticed DEF Types, pos
    <3>. QED  BY <1>9, <3>2
  <2>. QED  BY <2>2, <2>3, <2>4
<1>10. Remembered'
  BY <1>1, <1>9 DEF Remembered, NoneNewer
<1>. QED  BY <1>7, <1>8, <1>10 DEF Inv

LEMMA StopStep ==
  ASSUME Inv, Stop
  PROVE  Inv'
<1>1. /\ Types /\ Covered /\ Remembered /\ phase # "down"
      /\ phase' = "down" /\ map' = NoInfo /\ left' = {}
      /\ UNCHANGED <<stores, file, taken, partial, placed>>
  BY DEF Stop, Inv, counters
<1>2. Types'
  BY <1>1 DEF Types, IsInfo, NoInfo
<1>3. Covered' /\ Gathered'
  BY <1>1 DEF Covered, Gathered
<1>4. ASSUME placed, ~partial PROVE NoneNewer(Loaded(file))
  <2>1. phase = "up" /\ Covers(map, file) /\ NoneNewer(map)
    BY <1>1, <1>4 DEF Types, Covered, Remembered
  <2>2. BrokerIDs(Loaded(file)) = BrokerIDs(map)
    BY <1>1, <2>1, CoversReads DEF Types
  <2>. QED  BY <2>1, <2>2 DEF NoneNewer, BrokerIDs
<1>5. Remembered'
  BY <1>1, <1>4 DEF Remembered, NoneNewer
<1>. QED  BY <1>2, <1>3, <1>5 DEF Inv

LEMMA initStep ==
  ASSUME Inv, init
  PROVE  Inv'
<1>1. Types /\ Remembered /\ phase = "down" /\ UNCHANGED <<stores, left>> /\ left = {}
  BY DEF init, Inv, Types
<1>2. Messages' = Messages
  BY <1>1 DEF Messages
<1>3. CASE Readable(file)
  <2>1. /\ phase' = "up" /\ map' = Loaded(file) /\ UNCHANGED <<file, partial>>
        /\ placed' = (placed /\ Placed(map', file))
        /\ taken' = IF partial THEN BrokerIDs(map') ELSE taken
    BY <1>3 DEF init
  <2>2. IsInfo(map')
    BY <1>1, <2>1, KnowsAll DEF Types, Knows, Loaded
  <2>3. \A c \in DOMAIN taken' : taken'[c] \in IDs
    BY <1>1, <2>1, <2>2 DEF Types, IsInfo, BrokerIDs
  <2>4. Types'
    BY <1>1, <1>2, <2>1, <2>2, <2>3 DEF Types
  <2>5. Covered'
    BY <1>1, <1>3, <2>1, ReadCovers DEF Covered, Types
  <2>6. Remembered'
    BY <1>1, <1>3, <2>1 DEF Remembered, NoneNewer
  <2>. QED  BY <2>1, <2>4, <2>5, <2>6 DEF Inv, Gathered
<1>4. CASE ~Readable(file)
  <2>1. /\ phase' = "failed" /\ map' = NoInfo /\ file' = <<>> /\ partial' = TRUE /\ placed' = TRUE
        /\ UNCHANGED taken
    BY <1>4 DEF init
  <2>2. Types'
    BY <1>1, <1>2, <2>1 DEF Types, IsInfo, NoInfo
  <2>. QED  BY <2>1, <2>2 DEF Inv, Covered, Remembered, Gathered
<1>. QED  BY <1>3, <1>4

LEMMA rebuildStep ==
  ASSUME Inv, rebuild
  PROVE  Inv'
<1>1. /\ Types /\ phase' = "rebuilding" /\ map' = NoInfo /\ file' = <<>> /\ left' = Messages /\ partial
      /\ UNCHANGED <<stores, taken, partial, placed>>
  BY DEF rebuild, Inv, Types, counters
<1>2. Messages' = Messages /\ DOMAIN NoInfo = {}
  BY <1>1 DEF Messages, NoInfo
<1>3. Types'
  BY <1>1, <1>2 DEF Types, IsInfo
<1>4. Covered'
  <2>1. Len(file') = 0
    BY <1>1
  <2>. QED  BY <1>1, <1>2, <2>1 DEF Covered, Covers
<1>. QED  BY <1>1, <1>2, <1>3, <1>4 DEF Inv, Remembered, Gathered

LEMMA RebuildReturnsStep ==
  ASSUME Inv, RebuildReturns
  PROVE  Inv'
<1>1. /\ Types /\ Covered /\ phase = "rebuilding" /\ left = {}
      /\ phase' = "up" /\ partial' = FALSE /\ taken' = BrokerIDs(map)
      /\ UNCHANGED <<map, file, left, stores, placed>>
  BY DEF RebuildReturns, Inv, counters
<1>2. \A c \in DOMAIN taken' : c \in DOMAIN map /\ taken'[c] = map[c].broker /\ taken'[c] \in IDs
  BY <1>1 DEF Types, IsInfo, BrokerIDs
<1>3. Types'
  BY <1>1, <1>2 DEF Types, Messages
<1>4. Covered' /\ Gathered'
  BY <1>1 DEF Covered, Gathered
<1>5. NoneNewer(map)'
  BY <1>1, <1>2, BeforeOrders DEF NoneNewer
<1>6. Remembered'
  BY <1>1, <1>5 DEF Remembered
<1>. QED  BY <1>3, <1>4, <1>6 DEF Inv

LEMMA NextInv == Inv /\ [Next]_vars => Inv'
<1>. SUFFICES ASSUME Inv, [Next]_vars PROVE Inv'
  OBVIOUS
<1>1. ASSUME NEW s \in Sessions, NEW c \in Clients, Receive(s, c) PROVE Inv'
  BY <1>1, ReceiveStep
<1>2. ASSUME NEW id \in Messages, updateRecord(id) PROVE Inv'
  BY <1>2, updateRecordStep
<1>3. ASSUME NEW id \in Messages, Replay(id) PROVE Inv'
  BY <1>3, ReplayStep
<1>4. CASE Crash
  <2>1. PICK id \in IF phase = "up" THEN Messages ELSE {i \in left : IsDue(i)} : CrashInWrite(Sender(id), id)
    BY <1>4 DEF Crash
  <2>2. id \in Messages /\ phase \in {"up", "rebuilding"}
    BY <2>1 DEF Inv, Types
  <2>. QED  BY <2>1, <2>2, CrashStep
<1>5. CASE Stop
  BY <1>5, StopStep
<1>6. CASE init
  BY <1>6, initStep
<1>7. CASE rebuild
  BY <1>7, rebuildStep
<1>8. CASE RebuildReturns
  BY <1>8, RebuildReturnsStep
<1>9. CASE UNCHANGED vars
  BY <1>9 DEF vars, counters, Inv, Types, Covered, Remembered, NoneNewer, Gathered, Messages, Sender
<1>. QED  BY <1>1, <1>2, <1>3, <1>4, <1>5, <1>6, <1>7, <1>8, <1>9 DEF Next

LEMMA Invariance == Spec => []Inv
<1>. QED  BY InitInv, NextInv, PTL DEF Spec

-----------------------------------------------------------------------------
(* The theorems *)

\* While init has got all places right, the file, read again, gives the map, and no record
\* has two places: whatever updates, cut writes, rebuilds and restarts there were.
THEOREM FileHasMapAlways == Spec => []FileHasMapIfPlaced
<1>1. Inv => FileHasMapIfPlaced
  <2>. SUFFICES ASSUME Inv, placed PROVE FileHasMap /\ Placed(map, file)
    BY DEF FileHasMapIfPlaced
  <2>1. CASE phase \in {"up", "rebuilding"}
    <3>1. file \in Seq(Cells) /\ IsInfo(map) /\ Covers(map, file)
      BY <2>1 DEF Inv, Types, Covered
    <3>. QED  BY <3>1, CoversReads DEF FileHasMap
  <2>2. CASE phase \in {"down", "failed"}
    BY <2>2 DEF FileHasMap, Placed, Inv, Types
  <2>. QED  BY <2>1, <2>2 DEF Inv, Types
<1>. QED  BY <1>1, Invariance, PTL

\* What was taken of each client is not forgotten, unless a rebuild was due and did not end.
THEOREM NothingIsForgotten == Spec => []NothingForgotten
<1>1. Inv => NothingForgotten
  BY DEF Inv, Remembered, NoneNewer, NothingForgotten
<1>. QED  BY <1>1, Invariance, PTL

\* A rebuild finds each client's last message, in whatever order it takes the stores.
THEOREM RebuildFindsLatestAlways == Spec => RebuildFindsLatest
<1>1. ASSUME Inv, RebuildReturns PROVE BrokerIDs(map') = Latest
  <2>1. /\ \A id \in Messages : Sender(id) \in DOMAIN map /\ ~Before(map[Sender(id)].broker, id)
        /\ \A c \in DOMAIN map : map[c].broker \in Messages /\ Sender(map[c].broker) = c
    BY <1>1 DEF Inv, Gathered, RebuildReturns
  <2>2. \A id \in Messages : id \in IDs
    BY <1>1, MessagesAreIDs DEF Inv
  <2>3. DOMAIN map = {Sender(id) : id \in Messages}
    BY <2>1
  <2>4. ASSUME NEW c \in DOMAIN map
        PROVE  map[c].broker = CHOOSE id \in Messages :
                 Sender(id) = c /\ \A other \in Messages : Sender(other) = c => ~Before(id, other)
    <3> DEFINE IsLast(id) == Sender(id) = c /\ \A other \in Messages : Sender(other) = c => ~Before(id, other)
    <3>1. map[c].broker \in Messages /\ IsLast(map[c].broker)
      BY <2>1
    <3>2. ASSUME NEW id \in Messages, IsLast(id) PROVE id = map[c].broker
      <4>1. ~Before(id, map[c].broker) /\ ~Before(map[c].broker, id)
        BY <3>1, <3>2
      <4>. QED  BY <2>2, <3>1, <4>1, BeforeOrders
    <3>. HIDE DEF IsLast
    <3>3. map[c].broker = CHOOSE id \in Messages : IsLast(id)
      BY <3>1, <3>2
    <3>. QED  BY <3>3 DEF IsLast
  <2>5. BrokerIDs(map) = Latest
    BY <2>3, <2>4, Zenon DEF BrokerIDs, Latest
  <2>. QED  BY <1>1, <2>5 DEF RebuildReturns
<1>2. ASSUME Inv, [Next]_vars, phase = "rebuilding", phase' = "up" PROVE RebuildReturns
  BY <1>2 DEF Next, vars, Receive, updateRecord, Replay, Crash, CrashInWrite, Stop, init, rebuild
<1>3. Inv /\ [Next]_vars => [phase = "rebuilding" /\ phase' = "up" => BrokerIDs(map') = Latest]_vars
  BY <1>1, <1>2
<1>. QED  BY <1>3, Invariance, PTL DEF Spec, RebuildFindsLatest
=============================================================================
