---------------------- MODULE IndividualAckIndexProofs ----------------------
(***************************************************************************)
(* Proofs about the individual acknowledgement index of a primary: the     *)
(* base sequence is not 0 and no acknowledgement precedes its record.      *)
(*                                                                         *)
(* The argument: the pending records, in memory or as a restart would      *)
(* recover them, are always the known records whose byte is not ACKED      *)
(* (Unacked).  Each call and each torn prefix of a call then only has to   *)
(* be compared with what it does to the bytes.                             *)
(***************************************************************************)
EXTENDS IndividualAckIndex, WellFoundedInduction, TLAPS

-----------------------------------------------------------------------------
(* The least and the greatest element of a set *)

\* A nonempty set of naturals has a least element, and Min finds it.
LEMMA MinExists ==
  ASSUME NEW S, S \subseteq Nat, S # {}
  PROVE  Min(S) \in S /\ \A y \in S : Min(S) <= y
<1> DEFINE R == OpToRel(<, Nat)
<1>0. \A x, y \in Nat : <<y, x>> \in R <=> y < x
  BY Zenon DEF OpToRel
<1>a. IsWellFoundedOn(R, Nat)
  BY NatLessThanWellFounded
<1> HIDE DEF R
<1>1. \E x \in S : \A y \in S : ~(<<y, x>> \in R)
  BY <1>a, WFMin
<1>2. \E x \in S : \A y \in S : x <= y
  <2>1. PICK x \in S : \A y \in S : ~(<<y, x>> \in R)
    BY <1>1
  <2>2. ASSUME NEW y \in S PROVE x <= y
    <3>1. ~(<<y, x>> \in R)
      BY <2>1
    <3>2. x \in Nat /\ y \in Nat
      OBVIOUS
    <3>3. ~(y < x)
      BY <1>0, <3>1, <3>2, Zenon
    <3>. QED  BY <3>2, <3>3
  <2>. QED  BY <2>2
<1>. QED  BY <1>2 DEF Min

-----------------------------------------------------------------------------
(* The invariant *)

Unacked(f, n) == {s \in Known(n) : f.byte[s] # ACKED}
Resent(f, n) == {s \in Known(n) : f.byte[s] = RETRANSMIT}

\* A file that init may meet, when the index knew n records.
FileInv(f, n) ==
  /\ f \in FileType
  /\ f.header = NoHeader \/ f.header \in Base .. Base + n
  /\ f.header = NoHeader => f.bodyLen = 0
  /\ \A s \in Seqs : s < f.header => f.byte[s] = ACKED
  /\ \A s \in Seqs : s >= Base + n \/ s >= Base + f.bodyLen => f.byte[s] = FRESH

\* The members of an open index against its file.
MemInv(m, f) ==
  /\ m \in MemType
  /\ m.first = f.header
  /\ m.first \in Base .. Base + m.count
  /\ m.blockStart = 0 <=> m.blockEnd = 0
  /\ m.blockStart # 0 =>
       /\ m.blockStart \in Known(m.count)
       /\ m.blockEnd = Base + m.count - 1
       /\ \A s \in m.nonAck : s < m.blockStart
  /\ m.nonAck \subseteq Known(m.count)
  /\ m.redeliver \subseteq m.nonAck
  /\ m.redeliver = Resent(f, m.count)
  /\ Pending(m) = Unacked(f, m.count)

High == IF up THEN mem.count ELSE storeCount

IInv ==
  /\ up \in BOOLEAN
  /\ storeCount \in 0 .. MaxCount
  /\ restarts \in 0 .. MaxRestarts
  /\ mem \in MemType
  /\ High \in 0 .. storeCount
  /\ FileInv(file, High)
  /\ up => MemInv(mem, file)

Primary == Base > 0 /\ AckAhead = FALSE

-----------------------------------------------------------------------------
(* Facts about the helpers *)

\* A file that is new, or that init rewrites because the store is empty: every
\* record of the store is pending.
LEMMA FreshRecovers ==
  ASSUME Base > 0, NEW n \in 0 .. MaxCount, NEW f, FileInv(f, n), ~IsOldFile(f, n),
         NEW m, m = Fresh(f, n), NEW g, g = [f EXCEPT !.header = Base]
  PROVE  MemInv(m, g) /\ FileInv(g, n) /\ g.byte = f.byte /\ m.count = n
<1>. USE ConstantsAssumption
<1>1. f \in FileType
  BY DEF FileInv
<1>2. g.header = Base /\ g.bodyLen = f.bodyLen /\ g.byte = f.byte /\ g \in FileType
  BY <1>1 DEF FileType
<1>3. FileInv(g, n)
  BY <1>1, <1>2 DEF FileInv, NoHeader, Seqs
<1>4. \A s \in Known(n) : f.byte[s] = FRESH
  <2>1. n = 0 \/ f.bodyLen = 0
    BY DEF IsOldFile, FileInv
  <2>2. Known(n) \subseteq Seqs /\ (n = 0 => Known(n) = {})
    BY DEF Known, Seqs
  <2>. QED  BY <2>1, <2>2 DEF FileInv, Known
<1>5. m \in MemType
  BY <1>1 DEF Fresh, MemType, FileLength, HeaderSize, FileType
<1>6. Pending(m) = Known(n)
  BY DEF Fresh, Pending, Block, Known
<1>7. Unacked(g, n) = Known(n) /\ Resent(g, n) = {}
  BY <1>2, <1>4 DEF Unacked, Resent, FRESH, ACKED, RETRANSMIT
<1>8. MemInv(m, g)
  BY <1>2, <1>5, <1>6, <1>7 DEF Fresh, MemInv, Known
<1>. QED  BY <1>2, <1>3, <1>8 DEF Fresh

\* The replay of an old file: the scattered set and the trailing block together
\* are the records of the store whose byte is not ACKED.
LEMMA ReplayRecovers ==
  ASSUME Base > 0, NEW n \in 0 .. MaxCount, NEW f, FileInv(f, n), IsOldFile(f, n),
         NEW m, m = Replay(f, n)
  PROVE  MemInv(m, f) /\ m.count = n
<1>. USE ConstantsAssumption
<1>. DEFINE lim == Smaller(n, f.bodyLen)
            S   == Scanned(f, n)
            T   == Trailing(f, n)
            scattered == {s \in S \ T : f.byte[s] # ACKED}
<1>1. /\ n > 0 /\ f.header \in Base .. Base + n /\ f.bodyLen \in Nat
      /\ f.byte \in [Seqs -> Marks] /\ lim \in 0 .. n /\ lim <= f.bodyLen
      /\ lim = n \/ lim = f.bodyLen
  BY DEF IsOldFile, FileInv, FileType, Smaller
<1>2. S = f.header .. Base + lim - 1 /\ S \subseteq Known(n) /\ Known(n) \subseteq Seqs
  BY <1>1 DEF Scanned, Known, Seqs
<1>3. /\ T \subseteq S
      /\ \A s \in T : \A t \in S : t >= s => f.byte[t] = FRESH
      /\ \A s \in S : (\A t \in S : t >= s => f.byte[t] = FRESH) => s \in T
  BY DEF Trailing
\* The scan starts no later than the end of the file.
<1>4. f.header <= Base + f.bodyLen
  <2>1. SUFFICES ASSUME f.header > Base + f.bodyLen PROVE FALSE
    BY <1>1
  <2>2. Base + f.bodyLen \in Seqs
    BY <1>1, <2>1 DEF Seqs
  <2>. QED  BY <1>1, <2>1, <2>2 DEF FileInv, FRESH, ACKED
<1>5. \A s \in Known(n) : s < f.header => f.byte[s] = ACKED
  BY <1>1, <1>2 DEF FileInv
<1>6. \A s \in Known(n) : s >= Base + f.bodyLen => f.byte[s] = FRESH
  BY <1>1, <1>2 DEF FileInv
<1>. HIDE DEF S, T, lim
<1>7. /\ m.count = n /\ m.first = f.header /\ m.nonAck = scattered
      /\ m.redeliver = {s \in scattered : f.byte[s] = RETRANSMIT}
      /\ m.blockStart = IF T # {} THEN Min(T)
                         ELSE IF n > f.bodyLen THEN Base + f.bodyLen ELSE 0
      /\ m.blockEnd = IF T # {} \/ n > f.bodyLen THEN Base + n - 1 ELSE 0
      /\ m.len = f.bodyLen
  BY <1>1 DEF Replay, Smaller, S, T
\* Where the block starts (b), and what lies before it.
<1>8. \E b \in Base .. Base + n :
        /\ \A s \in Known(n) : s >= b => f.byte[s] = FRESH
        /\ scattered = {s \in Known(n) : s < b /\ f.byte[s] # ACKED}
        /\ m.blockStart = IF b = Base + n THEN 0 ELSE b
        /\ m.blockEnd = IF b = Base + n THEN 0 ELSE Base + n - 1
  <2>1. CASE T # {}
    <3>. DEFINE b == Min(T)
    <3>1. b \in T /\ \A s \in T : b <= s
      <4>1. T \subseteq Nat
        BY <1>1, <1>2, <1>3 DEF Known
      <4>. QED  BY MinExists, <2>1, <4>1
    <3>. HIDE DEF b
    <3>2. b \in f.header .. Base + lim - 1
      BY <1>2, <1>3, <3>1
    <3>3. \A s \in S : s >= b => s \in T /\ f.byte[s] = FRESH
      BY <1>2, <1>3, <3>1, <3>2
    <3>4. \A s \in S : s < b => s \notin T
      BY <1>2, <3>1, <3>2
    <3>5. \A s \in Known(n) : s >= b => f.byte[s] = FRESH
      BY <1>1, <1>2, <1>6, <3>2, <3>3 DEF Known
    <3>6. scattered = {s \in Known(n) : s < b /\ f.byte[s] # ACKED}
      BY <1>1, <1>2, <1>5, <3>2, <3>3, <3>4 DEF Known
    <3>. QED
      BY <1>1, <1>7, <2>1, <3>2, <3>5, <3>6 DEF b
  <2>2. CASE T = {} /\ n > f.bodyLen
    <3>1. scattered = {s \in Known(n) : s < Base + f.bodyLen /\ f.byte[s] # ACKED}
      BY <1>1, <1>2, <1>5, <2>2 DEF Known
    <3>. QED  BY <1>1, <1>6, <1>7, <2>2, <3>1
  <2>3. CASE T = {} /\ ~(n > f.bodyLen)
    <3>1. scattered = {s \in Known(n) : s < Base + n /\ f.byte[s] # ACKED}
      BY <1>1, <1>2, <1>5, <2>3 DEF Known
    <3>2. \A s \in Known(n) : ~(s >= Base + n)
      BY <1>1 DEF Known
    <3>. QED  BY <1>1, <1>7, <2>3, <3>1, <3>2
  <2>. QED  BY <1>1, <2>1, <2>2, <2>3
<1>9. PICK b \in Base .. Base + n :
        /\ \A s \in Known(n) : s >= b => f.byte[s] = FRESH
        /\ scattered = {s \in Known(n) : s < b /\ f.byte[s] # ACKED}
        /\ m.blockStart = IF b = Base + n THEN 0 ELSE b
        /\ m.blockEnd = IF b = Base + n THEN 0 ELSE Base + n - 1
  BY <1>8
<1>. HIDE DEF scattered
<1>10. m \in MemType
  <2>1. /\ m.count \in 0 .. MaxCount /\ m.first \in Nat /\ m.nonAck \subseteq Seqs
        /\ m.redeliver \subseteq Seqs /\ m.blockStart \in Nat /\ m.blockEnd \in Nat
        /\ m.len \in Nat
    BY <1>1, <1>2, <1>7, <1>9
  <2>. QED  BY <2>1 DEF MemType, Replay
<1>11. Pending(m) = Unacked(f, n)
  BY <1>1, <1>7, <1>9 DEF Pending, Block, Unacked, Known, FRESH, ACKED
<1>12. m.redeliver = Resent(f, n)
  <2>1. \A s \in Known(n) : f.byte[s] = RETRANSMIT => s < b /\ f.byte[s] # ACKED
    BY <1>1, <1>9 DEF Known, FRESH, ACKED, RETRANSMIT
  <2>. QED  BY <1>7, <1>9, <2>1 DEF Resent
<1>. QED
  BY <1>1, <1>7, <1>9, <1>10, <1>11, <1>12 DEF MemInv, Known

\* What init recovers: a sound index whose pending records are the unacknowledged
\* ones of the file, whatever prefix of the last call the file holds.
LEMMA InitRecovers ==
  ASSUME Base > 0, NEW n \in 0 .. MaxCount, NEW f, FileInv(f, n)
  PROVE  /\ MemInv(InitMem(f, n), InitFile(f, n))
         /\ FileInv(InitFile(f, n), n)
         /\ InitFile(f, n).byte = f.byte
         /\ InitMem(f, n).count = n
BY FreshRecovers, ReplayRecovers DEF InitMem, InitFile

-----------------------------------------------------------------------------
(* What each call does to a sound index *)

\* addRecord keeps the index sound and changes no byte.
LEMMA AddSound ==
  ASSUME Base > 0, NEW m, NEW f, NEW s \in Seqs, MemInv(m, f), FileInv(f, m.count)
  PROVE  /\ MemInv(AddMem(m, s), AddFile(m, f, s))
         /\ FileInv(AddFile(m, f, s), AddMem(m, s).count)
         /\ AddFile(m, f, s).byte = f.byte
         /\ AddMem(m, s).count = Larger(m.count, CountFor(s))
<1>. USE ConstantsAssumption
<1>. DEFINE m2 == AddMem(m, s)
            f2 == AddFile(m, f, s)
<1>1. m \in MemType /\ f \in FileType
  BY DEF MemInv, FileInv
<1>2. CountFor(s) \in 1 .. MaxCount /\ s = Base + CountFor(s) - 1
  BY DEF CountFor, Seqs
<1>. /\ \A x \in Seqs : x < f.header => f.byte[x] = ACKED
     /\ \A x \in Seqs : x >= Base + m.count \/ x >= Base + f.bodyLen => f.byte[x] = FRESH
  BY DEF FileInv
<1>3. CASE ~IsNew(m, s)
  <2>1. m2 = [m EXCEPT !.len = Larger(@, CountFor(s))]
    BY <1>3 DEF AddMem
  <2>2. /\ m2 \in MemType /\ m2.count = m.count /\ m2.first = m.first
        /\ m2.nonAck = m.nonAck /\ m2.redeliver = m.redeliver
        /\ m2.blockStart = m.blockStart /\ m2.blockEnd = m.blockEnd
    BY <1>1, <1>2, <2>1 DEF MemType, Larger
  <2>3. /\ f2 \in FileType /\ f2.header = f.header /\ f2.byte = f.byte
        /\ f2.bodyLen \in Nat /\ f2.bodyLen >= f.bodyLen
    BY <1>1, <1>2, <1>3 DEF AddFile, AddHeader, Added, FileType, MemType, Larger
  <2>. HIDE DEF m2, f2
  <2>4. Pending(m2) = Pending(m)
    BY <2>2 DEF Pending, Block
  <2>5. Unacked(f2, m.count) = Unacked(f, m.count) /\ Resent(f2, m.count) = Resent(f, m.count)
    BY <2>3 DEF Unacked, Resent
  <2>6. MemInv(m2, f2)
    BY <2>2, <2>3, <2>4, <2>5 DEF MemInv
  <2>7. FileInv(f2, m.count)
    BY <1>1, <2>3 DEF FileInv, FileType, MemInv, MemType, NoHeader, Seqs
  <2>. QED
    BY <1>1, <1>2, <1>3, <2>2, <2>3, <2>6, <2>7 DEF IsNew, Larger, MemType, m2, f2
<1>4. CASE IsNew(m, s)
  <2>. DEFINE c == CountFor(s)
              next == Base + m.count
  <2>1. /\ m.count \in 0 .. MaxCount /\ c \in 1 .. MaxCount /\ c > m.count
        /\ m.first \in Base .. next /\ m.blockStart \in Nat /\ m.blockEnd \in Nat
        /\ m.len \in Nat /\ m.nonAck \subseteq Known(m.count)
        /\ f.bodyLen \in Nat /\ f.byte \in [Seqs -> Marks] /\ m.first = f.header
    BY <1>1, <1>2, <1>4 DEF MemInv, MemType, FileType, IsNew
  <2>2. ~(m.blockStart # 0 /\ m.blockEnd = NextSeq(m) + 1)
    BY <2>1 DEF MemInv, NextSeq
  <2>3. /\ m2.count = c /\ m2.redeliver = m.redeliver /\ m2.nonAck = Pending(m)
        /\ m2.blockStart = next /\ m2.blockEnd = s /\ m2.len = m.len + c - m.count
        /\ m2.first = IF NothingPending(m) THEN next ELSE m.first
        /\ m2 = [count |-> m2.count, first |-> m2.first, nonAck |-> m2.nonAck,
                 redeliver |-> m2.redeliver, blockStart |-> m2.blockStart,
                 blockEnd |-> m2.blockEnd, len |-> m2.len]
    BY <1>1, <1>4, <2>2 DEF AddMem, MemType, NextSeq
  <2>4. /\ f2 \in FileType /\ f2.byte = f.byte /\ f2.bodyLen = f.bodyLen + c - m.count
        /\ f2.header = m2.first
    BY <1>1, <1>4, <2>1, <2>3 DEF AddFile, AddHeader, Added, FileType, NextSeq
  <2>. HIDE DEF m2, f2, c
  <2>5. Pending(m) = Unacked(f, m.count) /\ Pending(m) \subseteq Known(m.count)
    BY DEF MemInv, Unacked
  <2>6. m2 \in MemType
    <3>1. Known(m.count) \subseteq Seqs
      BY <2>1 DEF Known, Seqs
    <3>2. m2.redeliver \subseteq Seqs
      BY <1>1, <2>3 DEF MemType
    <3>3. m2.count \in 0 .. MaxCount /\ m2.len \in Nat
      BY <2>1, <2>3
    <3>4. m2.blockStart \in Nat /\ m2.first \in Nat
      BY <2>1, <2>3
    <3>5. m2.blockEnd \in Nat
      BY <2>3 DEF Seqs
    <3>. QED  BY <2>3, <2>5, <3>1, <3>2, <3>3, <3>4, <3>5 DEF MemType
  \* Everything behind the old count is FRESH, so the new block is pending.
  <2>7. \A x \in Known(c) : x \notin Known(m.count) => f.byte[x] = FRESH
    <3>0. m.count \in Int /\ c \in Int /\ c <= MaxCount /\ c > m.count /\ m.count >= 0
      BY <2>1
    <3>. SUFFICES ASSUME NEW x \in Known(c), x \notin Known(m.count)
                  PROVE  f.byte[x] = FRESH
      OBVIOUS
    <3>1. x \in Seqs
      BY <3>0 DEF Known, Seqs
    <3>2. x >= Base + m.count
      BY <3>0 DEF Known
    <3>. QED  BY <3>1, <3>2
  <2>8. Pending(m2) = Unacked(f2, c)
    <3>1. Block(m2) = next .. s
      BY <2>1, <2>3 DEF Block
    <3>2. Block(m2) = Known(c) \ Known(m.count)
      <4>1. Known(c) = Base .. s /\ Base \in Int /\ s \in Int /\ m.count \in Nat
        BY <1>2, <2>1 DEF Known, c, Seqs
      <4>2. Known(m.count) = Base .. next - 1 /\ next \in Int /\ Base <= next
        BY <4>1 DEF Known
      <4>. HIDE DEF c, next
      <4>. QED  BY <3>1, <4>1, <4>2
    <3>3. Known(m.count) \subseteq Known(c)
      BY <2>1 DEF Known
    <3>. QED
      BY <2>3, <2>4, <2>5, <2>7, <3>2, <3>3 DEF Pending, Unacked, FRESH, ACKED
  <2>9. m2.redeliver = Resent(f2, c)
    <3>1. Known(m.count) \subseteq Known(c)
      BY <2>1 DEF Known
    <3>2. m.redeliver = Resent(f, m.count)
      BY DEF MemInv
    <3>. QED
      BY <2>3, <2>4, <2>7, <3>1, <3>2 DEF Resent, FRESH, RETRANSMIT
  \* The header moves only when nothing is pending: then all before it is ACKED.
  <2>10. \A x \in Seqs : x < f2.header => f2.byte[x] = ACKED
    <3>1. CASE NothingPending(m)
      <4>1. Unacked(f, m.count) = {}
        BY <2>5, <3>1 DEF NothingPending, Pending, Block
      <4>2. \A x \in Known(m.count) : f.byte[x] = ACKED
        BY <4>1 DEF Unacked
      <4>3. \A x \in Seqs : x < next => x \in Known(m.count)
        BY <2>1 DEF Known, Seqs
      <4>. QED  BY <2>3, <2>4, <3>1, <4>2, <4>3
    <3>2. CASE ~NothingPending(m)
      BY <2>1, <2>3, <2>4, <3>2
    <3>. QED  BY <3>1, <3>2
  <2>11. MemInv(m2, f2)
    <3>1. m2.first = f2.header /\ m2.first \in Base .. Base + m2.count
      BY <2>1, <2>3, <2>4
    <3>2. /\ m2.blockStart # 0 /\ m2.blockEnd # 0 /\ m2.blockStart \in Known(m2.count)
          /\ m2.blockEnd = Base + m2.count - 1
          /\ \A x \in m2.nonAck : x < m2.blockStart
          /\ m2.nonAck \subseteq Known(m2.count)
      BY <1>2, <2>1, <2>3, <2>5 DEF Known, c
    <3>3. m2.redeliver \subseteq m2.nonAck
      BY <2>3 DEF MemInv, Pending
    <3>. QED  BY <2>3, <2>6, <2>8, <2>9, <3>1, <3>2, <3>3 DEF MemInv
  <2>12. FileInv(f2, c)
    <3>1. f2.header \in Base .. Base + c
      BY <2>1, <2>3, <2>4
    <3>2. \A x \in Seqs : x >= Base + c \/ x >= Base + f2.bodyLen => f2.byte[x] = FRESH
      <4>1. \A x \in Seqs : x >= Base + c => x >= Base + m.count
        BY <2>1 DEF Seqs
      <4>2. \A x \in Seqs : x >= Base + f2.bodyLen => x >= Base + f.bodyLen
        BY <2>1, <2>4 DEF Seqs
      <4>. QED  BY <2>4, <4>1, <4>2
    <3>. QED  BY <2>1, <2>4, <2>10, <3>1, <3>2 DEF FileInv, NoHeader
  <2>. QED  BY <2>1, <2>3, <2>4, <2>11, <2>12 DEF Larger, m2, f2, c
<1>. QED  BY <1>3, <1>4

\* Writing a mark other than FRESH to a known record keeps the file replayable,
\* as long as nothing before the header becomes pending.
LEMMA WriteSound ==
  ASSUME NEW f, NEW n \in 0 .. MaxCount, FileInv(f, n), f.header # NoHeader,
         NEW s \in Known(n), NEW mark \in {RETRANSMIT, ACKED},
         mark = ACKED \/ s >= f.header
  PROVE  /\ FileInv(WriteByte(f, s, mark), n)
         /\ WriteByte(f, s, mark).header = f.header
         /\ WriteByte(f, s, mark).byte = [f.byte EXCEPT ![s] = mark]
<1>. USE ConstantsAssumption
<1>. DEFINE g == WriteByte(f, s, mark)
<1>1. f \in FileType /\ s \in Seqs /\ mark \in Marks
  BY DEF FileInv, Known, Seqs, Marks
<1>2. /\ g \in FileType /\ g.header = f.header /\ g.byte = [f.byte EXCEPT ![s] = mark]
      /\ g.bodyLen = Larger(f.bodyLen, CountFor(s))
  <2>1. /\ f.header \in Int /\ f.bodyLen \in Nat /\ f.byte \in [Seqs -> Marks]
    BY <1>1 DEF FileType
  <2>2. Larger(f.bodyLen, CountFor(s)) \in Nat
    BY <1>1, <2>1 DEF Larger, CountFor, Seqs
  <2>3. [f.byte EXCEPT ![s] = mark] \in [Seqs -> Marks]
    BY <1>1, <2>1
  <2>. QED  BY <2>1, <2>2, <2>3 DEF WriteByte, FileType
<1>. HIDE DEF g
<1>3. /\ f.bodyLen \in Nat /\ f.byte \in [Seqs -> Marks] /\ f.header \in Int
  BY <1>1 DEF FileType
<1>4. \A x \in Seqs : x < g.header => g.byte[x] = ACKED
  BY <1>1, <1>2, <1>3 DEF FileInv, Seqs
<1>5. \A x \in Seqs : x >= Base + n \/ x >= Base + g.bodyLen =>
         x # s /\ (x >= Base + n \/ x >= Base + f.bodyLen)
  BY <1>1, <1>2, <1>3 DEF Known, Seqs, Larger, CountFor
<1>6. \A x \in Seqs : x >= Base + n \/ x >= Base + g.bodyLen => g.byte[x] = FRESH
  BY <1>1, <1>2, <1>3, <1>5 DEF FileInv
<1>. QED  BY <1>2, <1>4, <1>6 DEF FileInv, g

\* ackRecord of a known record: that record, and no other, stops being pending.
LEMMA AckSound ==
  ASSUME Base > 0, NEW m, NEW f, MemInv(m, f), FileInv(f, m.count), NEW s \in Known(m.count)
  PROVE  /\ MemInv(AckMem(m, s), AckFile(m, f, s))
         /\ FileInv(AckFile(m, f, s), m.count)
         /\ AckFile(m, f, s).byte = [f.byte EXCEPT ![s] = ACKED]
         /\ AckMem(m, s).count = m.count
<1>. USE ConstantsAssumption
<1>. DEFINE m2 == AckMem(m, s)
            f2 == AckFile(m, f, s)
            g  == WriteByte(f, s, ACKED)
            n  == m.count
<1>1. m \in MemType /\ f \in FileType /\ n \in 0 .. MaxCount /\ f.header # NoHeader
  BY DEF MemInv, FileInv, MemType, NoHeader
<1>2. /\ FileInv(g, n) /\ g.header = f.header
      /\ g.byte = [f.byte EXCEPT ![s] = ACKED] /\ g \in FileType
  <2>1. FileInv(WriteByte(f, s, ACKED), m.count)
    BY <1>1, WriteSound, ZenonT(30)
  <2>2. g.byte = [f.byte EXCEPT ![s] = ACKED] /\ g.header = f.header
    BY <1>1, WriteSound, ZenonT(30)
  <2>. QED  BY <2>1, <2>2 DEF FileInv
<1>3. s \in Seqs /\ Known(n) \subseteq Seqs /\ Known(n) \subseteq Nat
  BY <1>1 DEF Known, Seqs
<1>. HIDE DEF g
<1>4. Unacked(g, n) = Unacked(f, n) \ {s} /\ Resent(g, n) = Resent(f, n) \ {s}
  BY <1>1, <1>2, <1>3 DEF Unacked, Resent, FileType, ACKED, RETRANSMIT
<1>5. /\ Pending(m) = Unacked(f, n) /\ m.redeliver = Resent(f, n)
      /\ m.redeliver \subseteq m.nonAck /\ m.nonAck \subseteq Known(n)
      /\ m.first = f.header /\ m.first \in Base .. Base + n
  BY DEF MemInv
<1>6. CASE s \in Block(m)
  <2>1. /\ m.blockStart # 0 /\ m.blockStart \in Known(n) /\ m.blockEnd = Base + n - 1
        /\ s \in m.blockStart .. m.blockEnd /\ \A x \in m.nonAck : x < m.blockStart
    BY <1>6 DEF MemInv, Block
  <2>2. /\ f2 = g /\ m2 = CutBlock(m, s)
    BY <1>6 DEF AckFile, AckMem, WriteByte, g
  <2>3. /\ m2.count = n /\ m2.first = m.first /\ m2.redeliver = m.redeliver
        /\ m2.nonAck = m.nonAck \cup (m.blockStart .. s - 1)
        /\ m2.blockStart = IF s = m.blockEnd THEN 0 ELSE s + 1
        /\ m2.blockEnd = IF s = m.blockEnd THEN 0 ELSE m.blockEnd
        /\ m2.len = m.len
    BY <1>1, <2>2 DEF CutBlock, MemType
  <2>4. m2.nonAck \subseteq Known(n) /\ m2.blockStart \in Nat /\ m2.blockEnd \in Nat
    BY <1>1, <1>3, <1>5, <2>1, <2>3 DEF Known
  <2>5. m2 \in MemType
    BY <1>1, <1>3, <2>2, <2>4 DEF MemType, CutBlock
  <2>6. Pending(m2) = Pending(m) \ {s}
    BY <1>1, <1>3, <1>5, <2>1, <2>3 DEF Pending, Block, Known
  <2>7. s \notin Resent(f, n)
    BY <1>1, <1>3, <1>5, <2>1 DEF Known
  <2>8. /\ m2.blockStart = 0 <=> m2.blockEnd = 0
        /\ m2.blockStart # 0 => /\ m2.blockStart \in Known(n)
                                /\ m2.blockEnd = Base + n - 1
                                /\ \A x \in m2.nonAck : x < m2.blockStart
    BY <1>1, <1>3, <1>5, <2>1, <2>3 DEF Known
  <2>9. MemInv(m2, f2)
    <3>1. Pending(m2) = Unacked(f2, n) /\ m2.redeliver = Resent(f2, n)
      BY <1>4, <1>5, <2>2, <2>3, <2>6, <2>7
    <3>2. m2.first = f2.header /\ m2.first \in Base .. Base + n
      BY <1>2, <1>5, <2>2, <2>3
    <3>3. m2.redeliver \subseteq m2.nonAck
      BY <1>5, <2>3
    <3>. HIDE DEF m2, f2
    <3>. QED  BY <2>3, <2>4, <2>5, <2>8, <3>1, <3>2, <3>3 DEF MemInv
  <2>. QED  BY <1>2, <2>2, <2>3, <2>9
<1>7. CASE s \notin Block(m)
  <2>. DEFINE rest == m.nonAck \ {s}
              p    == FirstPending(m, rest)
  <2>1. /\ m2.count = n /\ m2.first = p /\ m2.redeliver = m.redeliver \ {s}
        /\ m2.nonAck = rest /\ m2.blockStart = m.blockStart
        /\ m2.blockEnd = m.blockEnd /\ m2.len = m.len
    BY <1>1, <1>7 DEF AckMem, MemType
  \* The header is not written exactly when it is right already.
  <2>2. f2.header = p /\ f2.byte = g.byte /\ f2.bodyLen = g.bodyLen
    <3>1. f2 = [g EXCEPT !.header = IF rest = {} \/ m.first # Min(rest) THEN p ELSE @]
      BY <1>7 DEF AckFile, g
    <3>2. rest # {} => p = Min(rest)
      BY DEF FirstPending
    <3>. QED  BY <1>2, <1>5, <3>1, <3>2 DEF FileType
  <2>3. rest \subseteq Known(n) /\ rest \subseteq Nat
    BY <1>3, <1>5
  \* The new first sequence is the least pending one, or one past the last record.
  <2>4. /\ p \in Base .. Base + n
        /\ \A x \in Known(n) : x < p => x \notin rest /\ x \notin Block(m)
    <3>1. CASE rest # {}
      <4>1. Min(rest) \in rest /\ \A x \in rest : Min(rest) <= x
        BY MinExists, <2>3, <3>1
      <4>2. \A x \in Block(m) : p < x
        BY <1>1, <1>3, <2>3, <3>1, <4>1 DEF MemInv, Block, FirstPending, Known
      <4>3. p = Min(rest)
        BY <3>1 DEF FirstPending
      <4>. HIDE DEF p, rest
      <4>4. p \in Known(n) /\ p \in Base .. Base + n
        <5>1. p \in Known(n)
          BY <2>3, <4>1, <4>3
        <5>. QED  BY <1>1, <5>1 DEF Known
      <4>5. \A x \in Known(n) : x \in rest \/ x \in Block(m) => ~(x < p)
        BY <2>3, <4>1, <4>2, <4>3, <4>4 DEF Known
      <4>. QED  BY <4>4, <4>5
    <3>2. CASE rest = {}
      BY <1>1, <3>2 DEF MemInv, Block, FirstPending, Known
    <3>. QED  BY <3>1, <3>2
  <2>5. Pending(m2) = Pending(m) \ {s}
    BY <1>7, <2>1 DEF Pending, Block
  <2>6. \A x \in Seqs : x < p => f2.byte[x] = ACKED
    <3>1. \A x \in Seqs : x < p => x \in Known(n)
      BY <1>1, <2>4 DEF Known, Seqs
    <3>2. \A x \in Known(n) : x < p => x \notin Unacked(g, n)
      BY <1>4, <1>5, <2>4 DEF Pending
    <3>. QED  BY <2>2, <3>1, <3>2 DEF Unacked
  <2>7. f2 \in FileType
    <3>1. f2 = [g EXCEPT !.header = IF rest = {} \/ m.first # Min(rest) THEN p ELSE @]
      BY <1>7 DEF AckFile, g
    <3>2. p \in Int /\ g.header \in Int
      BY <1>2, <2>4 DEF FileType
    <3>. QED  BY <1>2, <3>1, <3>2 DEF FileType
  <2>. HIDE DEF p, rest, f2
  <2>8. FileInv(f2, n)
    <3>1. \A x \in Seqs : x >= Base + n \/ x >= Base + f2.bodyLen => f2.byte[x] = FRESH
      BY <1>2, <2>2 DEF FileInv
    <3>. QED  BY <1>1, <2>2, <2>4, <2>6, <2>7, <3>1 DEF FileInv, NoHeader
  <2>9. m2 \in MemType
    <3>1. p \in Nat /\ rest \subseteq Seqs /\ m.redeliver \ {s} \subseteq Seqs
      BY <1>1, <1>3, <2>3, <2>4 DEF MemType
    <3>. QED  BY <1>1, <1>7, <3>1 DEF MemType, AckMem, p, rest
  <2>10. m2.redeliver \subseteq m2.nonAck /\ m2.redeliver = Resent(f2, n)
    <3>1. Resent(f2, n) = Resent(g, n)
      BY <2>2 DEF Resent
    <3>. QED  BY <1>4, <1>5, <2>1, <3>1 DEF rest
  <2>11. Pending(m2) = Unacked(f2, n)
    <3>1. Unacked(f2, n) = Unacked(g, n)
      BY <2>2 DEF Unacked
    <3>. QED  BY <1>4, <1>5, <2>5, <3>1
  <2>12. /\ m2.blockStart = 0 <=> m2.blockEnd = 0
         /\ m2.blockStart # 0 =>
              /\ m2.blockStart \in Known(m2.count)
              /\ m2.blockEnd = Base + m2.count - 1
              /\ \A x \in m2.nonAck : x < m2.blockStart
    BY <2>1 DEF MemInv, rest
  <2>. HIDE DEF m2
  <2>13. MemInv(m2, f2)
    BY <2>1, <2>2, <2>3, <2>4, <2>9, <2>10, <2>11, <2>12 DEF MemInv
  <2>. QED  BY <1>2, <2>1, <2>2, <2>8, <2>13 DEF m2, f2
<1>. QED  BY <1>6, <1>7

\* markRetransmit of a known record: a pending one gets its flag, in memory and
\* on file; a request for an acknowledged one changes nothing.
LEMMA MarkSound ==
  ASSUME Base > 0, NEW m, NEW f, MemInv(m, f), FileInv(f, m.count), NEW s \in Known(m.count)
  PROVE  /\ MemInv(MarkMem(m, s), MarkFile(m, f, s))
         /\ FileInv(MarkFile(m, f, s), m.count)
         /\ MarkFile(m, f, s).byte =
              IF s \in Pending(m) THEN [f.byte EXCEPT ![s] = RETRANSMIT] ELSE f.byte
         /\ MarkMem(m, s).count = m.count
<1>. USE ConstantsAssumption
<1>. DEFINE m2 == MarkMem(m, s)
            f2 == MarkFile(m, f, s)
            g  == WriteByte(f, s, RETRANSMIT)
            n  == m.count
<1>1. m \in MemType /\ f \in FileType /\ n \in 0 .. MaxCount /\ f.header # NoHeader
  BY DEF MemInv, FileInv, MemType, NoHeader
<1>2. s \in Seqs /\ Known(n) \subseteq Seqs /\ Known(n) \subseteq Nat
  BY <1>1 DEF Known, Seqs
<1>3. /\ Pending(m) = Unacked(f, n) /\ m.redeliver = Resent(f, n)
      /\ m.redeliver \subseteq m.nonAck /\ m.nonAck \subseteq Known(n)
      /\ m.first = f.header /\ m.first \in Base .. Base + n
  BY DEF MemInv
<1>4. CASE s \notin Pending(m)
  <2>1. m2 = m /\ f2 = f
    BY <1>4 DEF MarkMem, MarkFile, Pending
  <2>. QED  BY <1>4, <2>1
<1>5. CASE s \in Pending(m)
  <2>1. f2 = g
    BY <1>5 DEF MarkFile
  <2>2. s >= f.header
    BY <1>1, <1>2, <1>3, <1>5 DEF FileInv, Unacked, FileType
  <2>3. /\ FileInv(g, n) /\ g.header = f.header
        /\ g.byte = [f.byte EXCEPT ![s] = RETRANSMIT]
    <3>1. /\ FileInv(f, n) /\ n \in 0 .. MaxCount /\ f.header # NoHeader /\ s \in Known(n)
          /\ RETRANSMIT \in {RETRANSMIT, ACKED} /\ (RETRANSMIT = ACKED \/ s >= f.header)
      BY <1>1, <2>2
    <3>. HIDE DEF m2, f2, n
    <3>2. FileInv(WriteByte(f, s, RETRANSMIT), n)
      BY <3>1, WriteSound, ZenonT(30)
    <3>3. WriteByte(f, s, RETRANSMIT).header = f.header
      BY <3>1, WriteSound, ZenonT(30)
    <3>4. WriteByte(f, s, RETRANSMIT).byte = [f.byte EXCEPT ![s] = RETRANSMIT]
      BY <3>1, WriteSound, ZenonT(30)
    <3>. QED  BY <3>2, <3>3, <3>4
  <2>. HIDE DEF g
  <2>4. Unacked(g, n) = Unacked(f, n) /\ Resent(g, n) = Resent(f, n) \cup {s}
    BY <1>1, <1>2, <1>3, <1>5, <2>3 DEF Unacked, Resent, FileType, ACKED, RETRANSMIT
  <2>5. CASE s \in m.nonAck
    <3>1. m2 = [m EXCEPT !.redeliver = @ \cup {s}]
      BY <2>5 DEF MarkMem
    <3>2. /\ m2 \in MemType /\ m2.count = n /\ m2.first = m.first /\ m2.nonAck = m.nonAck
          /\ m2.redeliver = m.redeliver \cup {s} /\ m2.blockStart = m.blockStart
          /\ m2.blockEnd = m.blockEnd
      BY <1>1, <1>2, <3>1 DEF MemType
    <3>. HIDE DEF m2
    <3>3. Pending(m2) = Pending(m)
      BY <3>2 DEF Pending, Block
    <3>4. MemInv(m2, g)
      BY <1>3, <2>3, <2>4, <2>5, <3>2, <3>3 DEF MemInv
    <3>. QED  BY <1>5, <2>1, <2>3, <3>2, <3>4 DEF m2
  <2>6. CASE s \notin m.nonAck
    <3>1. s \in Block(m)
      BY <1>5, <2>6 DEF Pending
    <3>2. /\ m.blockStart # 0 /\ m.blockStart \in Known(n) /\ m.blockEnd = Base + n - 1
          /\ s \in m.blockStart .. m.blockEnd /\ \A x \in m.nonAck : x < m.blockStart
      BY <3>1 DEF MemInv, Block
    <3>3. m2 = [CutBlock(m, s) EXCEPT !.nonAck = @ \cup {s}, !.redeliver = @ \cup {s}]
      BY <2>6, <3>1 DEF MarkMem
    <3>4. /\ m2.count = n /\ m2.first = m.first /\ m2.redeliver = m.redeliver \cup {s}
          /\ m2.nonAck = m.nonAck \cup (m.blockStart .. s - 1) \cup {s}
          /\ m2.blockStart = IF s = m.blockEnd THEN 0 ELSE s + 1
          /\ m2.blockEnd = IF s = m.blockEnd THEN 0 ELSE m.blockEnd
      BY <1>1, <3>3 DEF CutBlock, MemType
    <3>5. m2.nonAck \subseteq Known(n) /\ m2.blockStart \in Nat /\ m2.blockEnd \in Nat
      BY <1>1, <1>2, <1>3, <3>2, <3>4 DEF Known
    <3>6. m2 \in MemType
      BY <1>1, <1>2, <3>3, <3>4, <3>5 DEF MemType, CutBlock
    <3>7. Pending(m2) = Pending(m)
      BY <1>1, <1>2, <1>3, <3>2, <3>4 DEF Pending, Block, Known
    <3>8. /\ m2.blockStart = 0 <=> m2.blockEnd = 0
          /\ m2.blockStart # 0 => /\ m2.blockStart \in Known(n)
                                  /\ m2.blockEnd = Base + n - 1
                                  /\ \A x \in m2.nonAck : x < m2.blockStart
      BY <1>1, <1>2, <1>3, <3>2, <3>4 DEF Known
    <3>9. /\ Pending(m2) = Unacked(g, n) /\ m2.redeliver = Resent(g, n)
          /\ m2.redeliver \subseteq m2.nonAck /\ m2.first = g.header
      BY <1>3, <2>3, <2>4, <3>4, <3>7
    <3>. HIDE DEF m2
    <3>10. MemInv(m2, g)
      BY <1>3, <3>4, <3>5, <3>6, <3>8, <3>9 DEF MemInv
    <3>. QED  BY <1>5, <2>1, <2>3, <3>4, <3>10 DEF m2
  <2>. QED  BY <2>5, <2>6
<1>. QED  BY <1>4, <1>5

\* The growth that ackRecord and markRetransmit start with, if it is needed.
LEMMA GrownSound ==
  ASSUME Base > 0, NEW m, NEW f, NEW s \in Seqs, MemInv(m, f), FileInv(f, m.count)
  PROVE  /\ MemInv(Grown(m, s), GrownFile(m, f, s))
         /\ FileInv(GrownFile(m, f, s), Grown(m, s).count)
         /\ GrownFile(m, f, s).byte = f.byte
         /\ Grown(m, s).count = Larger(m.count, CountFor(s))
         /\ s \in Known(Grown(m, s).count)
<1>. USE ConstantsAssumption
<1>1. m.count \in 0 .. MaxCount /\ CountFor(s) \in 1 .. MaxCount /\ s = Base + CountFor(s) - 1
  BY DEF MemInv, MemType, CountFor, Seqs
<1>2. CASE IsNew(m, s)
  <2>1. Grown(m, s) = AddMem(m, s) /\ GrownFile(m, f, s) = AddFile(m, f, s)
    BY <1>2 DEF Grown, GrownFile
  <2>2. s \in Known(Larger(m.count, CountFor(s)))
    BY <1>1 DEF Known, Larger
  <2>. QED  BY <2>1, <2>2, AddSound
<1>3. CASE ~IsNew(m, s)
  <2>1. Grown(m, s) = m /\ GrownFile(m, f, s) = f
    BY <1>3 DEF Grown, GrownFile
  <2>2. m.count = Larger(m.count, CountFor(s)) /\ s \in Known(m.count)
    BY <1>1, <1>3 DEF Known, Larger, IsNew
  <2>. QED  BY <2>1, <2>2
<1>. QED  BY <1>2, <1>3

\* A file that serves n records serves any larger store.
LEMMA FileInvGrows ==
  ASSUME NEW f, NEW n \in Nat, NEW k \in Nat, n <= k, FileInv(f, n)
  PROVE  FileInv(f, k)
<1>. USE ConstantsAssumption
<1>1. f.header \in Base .. Base + n => f.header \in Base .. Base + k
  OBVIOUS
<1>2. \A x \in Seqs : x >= Base + k => x >= Base + n
  BY DEF Seqs
<1>. QED  BY <1>1, <1>2 DEF FileInv

\* What a crash inside addRecord leaves can be replayed, and no byte changed.
LEMMA TornAddSound ==
  ASSUME Base > 0, NEW m, NEW f, NEW s \in Seqs, MemInv(m, f), FileInv(f, m.count),
         NEW g \in TornAdd(m, f, s)
  PROVE  FileInv(g, m.count) /\ g.byte = f.byte
<1>. USE ConstantsAssumption
<1>. DEFINE h == AddHeader(m, f, s)
<1>1. CASE g = f
  BY <1>1
<1>2. ASSUME NEW k \in 0 .. Added(m, s), g = [h EXCEPT !.bodyLen = @ + k]
      PROVE  FileInv(g, m.count) /\ g.byte = f.byte
  <2>1. f \in FileType /\ m \in MemType /\ m.first = f.header
    BY DEF FileInv, MemInv
  <2>2. m.count \in 0 .. MaxCount /\ k \in Nat
    BY <2>1 DEF MemType, Added, IsNew, CountFor, Seqs, Larger
  <2>3. /\ h \in FileType /\ h.byte = f.byte /\ h.bodyLen = f.bodyLen
        /\ h.header = f.header \/ (NothingPending(m) /\ h.header = Base + m.count)
    BY <2>1, <2>2 DEF AddHeader, FileType, NextSeq
  <2>. HIDE DEF h
  <2>4. /\ g \in FileType /\ g.byte = f.byte /\ g.header = h.header
        /\ g.bodyLen \in Nat /\ g.bodyLen >= f.bodyLen /\ f.bodyLen \in Nat
    BY <1>2, <2>1, <2>2, <2>3 DEF FileType
  <2>5. NothingPending(m) => \A x \in Known(m.count) : f.byte[x] = ACKED
    <3>1. NothingPending(m) => Pending(m) = {}
      BY DEF NothingPending, Pending, Block
    <3>. QED  BY <3>1 DEF MemInv, Unacked
  <2>6. \A x \in Seqs : x < g.header => g.byte[x] = ACKED
    <3>1. \A x \in Seqs : x < Base + m.count => x \in Known(m.count)
      BY <2>2 DEF Known, Seqs
    <3>. QED  BY <2>3, <2>4, <2>5, <3>1 DEF FileInv
  <2>7. \A x \in Seqs : x >= Base + g.bodyLen => x >= Base + f.bodyLen
    BY <2>4 DEF Seqs
  <2>8. \A x \in Seqs : x >= Base + m.count \/ x >= Base + g.bodyLen => g.byte[x] = FRESH
    BY <2>4, <2>7 DEF FileInv
  <2>9. g.header \in Base .. Base + m.count
    BY <2>1, <2>2, <2>3, <2>4 DEF MemInv
  <2>. QED  BY <2>2, <2>4, <2>6, <2>8, <2>9 DEF FileInv, NoHeader
<1>. QED  BY <1>1, <1>2 DEF TornAdd

\* What a crash inside ackRecord leaves: the byte, without the header.
LEMMA TornAckSound ==
  ASSUME Base > 0, NEW m, NEW f, NEW s \in Seqs, MemInv(m, f), FileInv(f, m.count),
         NEW g \in TornAck(m, f, s)
  PROVE  /\ FileInv(g, Grown(m, s).count)
         /\ g.byte = [f.byte EXCEPT ![s] = ACKED]
<1>1. g = WriteByte(GrownFile(m, f, s), s, ACKED)
  BY DEF TornAck
<1>2. /\ MemInv(Grown(m, s), GrownFile(m, f, s))
      /\ FileInv(GrownFile(m, f, s), Grown(m, s).count)
      /\ GrownFile(m, f, s).byte = f.byte
      /\ s \in Known(Grown(m, s).count)
  BY GrownSound
<1>3. GrownFile(m, f, s).header # NoHeader /\ Grown(m, s).count \in 0 .. MaxCount
  BY <1>2, ConstantsAssumption DEF MemInv, MemType, NoHeader
<1>. DEFINE f2 == GrownFile(m, f, s)
            n  == Grown(m, s).count
<1>4. FileInv(f2, n) /\ f2.header # NoHeader /\ n \in 0 .. MaxCount /\ s \in Known(n)
  BY <1>2, <1>3
<1>5. f2.byte = f.byte /\ g = WriteByte(f2, s, ACKED)
  BY <1>1, <1>2
<1>. HIDE DEF f2, n
<1>6. FileInv(WriteByte(f2, s, ACKED), n)
  BY <1>4, WriteSound
<1>7. WriteByte(f2, s, ACKED).byte = [f2.byte EXCEPT ![s] = ACKED]
  BY <1>4, WriteSound
<1>8. FileInv(g, n) /\ g.byte = [f.byte EXCEPT ![s] = ACKED]
  BY <1>5, <1>6, <1>7
<1>. QED  BY <1>8 DEF n

-----------------------------------------------------------------------------
(* The inductive invariant *)

\* What a step does, seen on the bytes of the file: the index knows no fewer
\* records, and at most one byte changed, as an acknowledgement or as the
\* retransmit mark of a record that was pending.
Effect ==
  /\ High' \in High .. MaxCount
  /\ \/ file'.byte = file.byte
     \/ \E s \in Known(High') :
          \/ file'.byte = [file.byte EXCEPT ![s] = ACKED]
          \/ /\ file.byte[s] # ACKED
             /\ file'.byte = [file.byte EXCEPT ![s] = RETRANSMIT]

LEMMA InitIInv == Primary /\ Init => IInv
<1>. USE ConstantsAssumption
<1>. SUFFICES ASSUME Primary, Init PROVE IInv
  OBVIOUS
<1>1. /\ storeCount \in 0 .. MaxCount /\ up = FALSE /\ restarts = 0
      /\ mem = Closed /\ file = NoFile
  BY DEF Init
<1>2. mem \in MemType
  BY <1>1 DEF MemType, Closed
<1>3. FileInv(file, storeCount)
  BY <1>1 DEF FileInv, NoFile, FileType, NoHeader, Seqs, Marks
<1>4. High = storeCount /\ High \in 0 .. storeCount
  BY <1>1 DEF High
<1>5. restarts \in 0 .. MaxRestarts
  BY <1>1
<1>6. up \in BOOLEAN
  BY <1>1, Zenon
<1>. QED  BY <1>1, <1>2, <1>3, <1>4, <1>5, <1>6, Zenon DEF IInv

\* A call that leaves the index sound, and no record behind the store unknown,
\* keeps the invariant.
LEMMA CallKeepsIInv ==
  ASSUME IInv, up, UNCHANGED <<up, storeCount, restarts>>,
         MemInv(mem', file'), FileInv(file', mem'.count),
         mem'.count <= storeCount
  PROVE  IInv' /\ High' = mem'.count
<1>1. High' = mem'.count /\ mem' \in MemType /\ mem'.count \in 0 .. storeCount
  BY DEF High, MemInv, MemType, IInv
<1>2. MemInv(mem, file)' /\ FileInv(file, High)'
  BY <1>1
<1>. QED  BY <1>1, <1>2, Zenon DEF IInv

LEMMA StepIInv == Primary /\ IInv /\ Next => IInv' /\ Effect
<1>. USE ConstantsAssumption
<1>. SUFFICES ASSUME Primary, IInv, Next PROVE IInv' /\ Effect
  OBVIOUS
<1>p. Base > 0 /\ AckAhead = FALSE
  BY DEF Primary
<1>0. /\ up \in BOOLEAN /\ storeCount \in 0 .. MaxCount /\ restarts \in 0 .. MaxRestarts
      /\ High \in 0 .. storeCount /\ FileInv(file, High) /\ mem \in MemType
      /\ up => High = mem.count /\ MemInv(mem, file)
      /\ ~up => High = storeCount
  BY DEF IInv, High
<1>1. CASE StoreAdd
  <2>1. storeCount' = storeCount + 1 /\ storeCount < MaxCount /\ up /\ High' = High
        /\ UNCHANGED <<up, mem, file, restarts>>
    BY <1>1 DEF StoreAdd, High
  <2>2. High \in 0 .. storeCount' /\ storeCount' \in 0 .. MaxCount
    BY <1>0, <2>1
  <2>3. IInv'
    BY <1>0, <2>1, <2>2, Zenon DEF IInv
  <2>4. Effect
    BY <1>0, <2>1 DEF Effect
  <2>. QED  BY <2>3, <2>4
<1>2. CASE Open
  <2>1. /\ ~up /\ up' /\ mem' = InitMem(file, storeCount)
        /\ file' = InitFile(file, storeCount) /\ UNCHANGED <<storeCount, restarts>>
    BY <1>2 DEF Open
  <2>2. FileInv(file, storeCount)
    BY <1>0, <2>1
  <2>3. /\ MemInv(mem', file') /\ FileInv(file', storeCount)
        /\ file'.byte = file.byte /\ mem'.count = storeCount
    BY <1>p, <1>0, <2>1, <2>2, InitRecovers, Zenon
  <2>4. High' = storeCount /\ mem' \in MemType /\ High' \in 0 .. storeCount'
    BY <1>0, <2>1, <2>3 DEF High, MemInv
  <2>5. IInv'
    BY <1>0, <2>1, <2>3, <2>4, Zenon DEF IInv
  <2>6. Effect
    BY <1>0, <2>1, <2>3, <2>4 DEF Effect
  <2>. QED  BY <2>5, <2>6
\* A record of the store is within the bound, and so is what its call makes known.
<1>a. ASSUME NEW s \in Known(storeCount), up
      PROVE  /\ s \in Seqs /\ MemInv(mem, file) /\ FileInv(file, mem.count)
             /\ Larger(mem.count, CountFor(s)) \in High .. storeCount
  BY <1>p, <1>0, <1>a DEF Known, Seqs, Larger, CountFor, MemType
<1>3. ASSUME NEW s \in Seqs, addRecord(s) PROVE IInv' /\ Effect
  <2>1. /\ up /\ s \in Known(storeCount) /\ mem' = AddMem(mem, s)
        /\ file' = AddFile(mem, file, s) /\ UNCHANGED <<up, storeCount, restarts>>
    BY <1>3 DEF addRecord
  <2>2. /\ MemInv(mem, file) /\ FileInv(file, mem.count)
        /\ Larger(mem.count, CountFor(s)) \in High .. storeCount
    BY <1>a, <2>1
  <2>3. /\ MemInv(mem', file') /\ FileInv(file', mem'.count)
        /\ file'.byte = file.byte /\ mem'.count = Larger(mem.count, CountFor(s))
    BY <1>p, <2>1, <2>2, AddSound, Zenon
  <2>4. mem'.count \in High .. storeCount /\ mem'.count <= storeCount
    BY <2>2, <2>3
  <2>5. IInv' /\ High' = mem'.count
    BY <2>1, <2>3, <2>4, CallKeepsIInv, Zenon
  <2>6. Effect
    BY <1>0, <2>3, <2>4, <2>5 DEF Effect
  <2>. QED  BY <2>5, <2>6
\* ackRecord and markRetransmit start from the grown index.
<1>b. ASSUME NEW s \in Known(storeCount), up,
             NEW m, m = Grown(mem, s), NEW f, f = GrownFile(mem, file, s)
      PROVE  /\ MemInv(m, f) /\ FileInv(f, m.count) /\ f.byte = file.byte
             /\ s \in Known(m.count) /\ m.count \in High .. storeCount
  <2>1. /\ s \in Seqs /\ MemInv(mem, file) /\ FileInv(file, mem.count)
        /\ Larger(mem.count, CountFor(s)) \in High .. storeCount
    BY <1>a, <1>b
  <2>. QED  BY <1>p, <1>b, <2>1, GrownSound
<1>4. ASSUME NEW s \in Seqs, ackRecord(s) PROVE IInv' /\ Effect
  <2>. DEFINE m == Grown(mem, s)
              f == GrownFile(mem, file, s)
  <2>1. /\ up /\ s \in Known(storeCount) /\ mem' = AckMem(m, s)
        /\ file' = AckFile(m, f, s) /\ UNCHANGED <<up, storeCount, restarts>>
    BY <1>p, <1>4 DEF ackRecord, Ackable
  <2>2. /\ MemInv(m, f) /\ FileInv(f, m.count) /\ f.byte = file.byte
        /\ s \in Known(m.count) /\ m.count \in High .. storeCount
    BY <1>b, <2>1
  <2>. HIDE DEF m, f
  <2>3. /\ MemInv(mem', file') /\ FileInv(file', mem'.count)
        /\ file'.byte = [f.byte EXCEPT ![s] = ACKED] /\ mem'.count = m.count
    <3>1. /\ MemInv(AckMem(m, s), AckFile(m, f, s)) /\ FileInv(AckFile(m, f, s), m.count)
          /\ AckFile(m, f, s).byte = [f.byte EXCEPT ![s] = ACKED]
          /\ AckMem(m, s).count = m.count
      BY <1>p, <2>2, AckSound
    <3>. QED  BY <2>1, <3>1
  <2>4. mem'.count <= storeCount
    BY <1>0, <2>2, <2>3
  <2>5. IInv' /\ High' = mem'.count
    BY <2>1, <2>3, <2>4, CallKeepsIInv, Zenon
  <2>6. High' \in High .. MaxCount
    BY <1>0, <2>2, <2>3, <2>5
  <2>7. Effect
    BY <2>2, <2>3, <2>5, <2>6, Zenon DEF Effect
  <2>. QED  BY <2>5, <2>7
<1>5. ASSUME NEW s \in Seqs, markRetransmit(s) PROVE IInv' /\ Effect
  <2>. DEFINE m == Grown(mem, s)
              f == GrownFile(mem, file, s)
  <2>1. /\ up /\ s \in Known(storeCount) /\ mem' = MarkMem(m, s)
        /\ file' = MarkFile(m, f, s) /\ UNCHANGED <<up, storeCount, restarts>>
    BY <1>5 DEF markRetransmit
  <2>2. /\ MemInv(m, f) /\ FileInv(f, m.count) /\ f.byte = file.byte
        /\ s \in Known(m.count) /\ m.count \in High .. storeCount
    BY <1>b, <2>1
  <2>. HIDE DEF m, f
  <2>3. /\ MemInv(mem', file') /\ FileInv(file', mem'.count) /\ mem'.count = m.count
        /\ file'.byte = IF s \in Pending(m) THEN [f.byte EXCEPT ![s] = RETRANSMIT]
                        ELSE f.byte
    BY <1>p, <2>1, <2>2, MarkSound, Zenon
  <2>4. mem'.count <= storeCount
    BY <1>0, <2>2, <2>3
  <2>5. IInv' /\ High' = mem'.count
    BY <2>1, <2>3, <2>4, CallKeepsIInv, Zenon
  <2>6. High' \in High .. MaxCount
    BY <1>0, <2>2, <2>3, <2>5
  <2>7. s \in Pending(m) => file.byte[s] # ACKED
    BY <2>2, Zenon DEF MemInv, Unacked
  <2>8. Effect
    BY <2>2, <2>3, <2>5, <2>6, <2>7, Zenon DEF Effect
  <2>. QED  BY <2>5, <2>8
<1>6. CASE Crash
  <2>1. /\ up /\ ~up' /\ restarts < MaxRestarts /\ restarts' = restarts + 1
        /\ mem' = Closed /\ storeCount' = storeCount
    BY <1>6 DEF Crash
  <2>2. \/ file' = file
        \/ \E s \in Known(storeCount) : file' \in TornAdd(mem, file, s)
        \/ \E s \in Known(storeCount) : file' \in TornAck(mem, file, s)
    BY <1>p, <1>6 DEF Crash, Ackable
  <2>3. /\ High' = storeCount /\ High' \in 0 .. storeCount' /\ High' \in High .. MaxCount
        /\ restarts' \in 0 .. MaxRestarts /\ up' \in BOOLEAN
    <3>1. High' = storeCount
      BY <2>1, Zenon DEF High
    <3>2. up' \in BOOLEAN
      BY <1>6, Zenon DEF Crash
    <3>3. restarts' \in 0 .. MaxRestarts
      BY <1>0, <2>1
    <3>4. High' \in 0 .. storeCount' /\ High' \in High .. MaxCount
      BY <1>0, <2>1, <3>1
    <3>. QED  BY <3>1, <3>2, <3>3, <3>4
  <2>4. mem' \in MemType
    BY <2>1 DEF MemType, Closed
  <2>5. FileInv(file', storeCount) /\ Effect
    <3>1. CASE file' = file
      BY <1>0, <2>3, <3>1, FileInvGrows DEF Effect
    <3>2. ASSUME NEW s \in Known(storeCount), file' \in TornAdd(mem, file, s)
          PROVE  FileInv(file', storeCount) /\ Effect
      <4>1. s \in Seqs /\ MemInv(mem, file) /\ FileInv(file, mem.count)
        BY <1>a, <2>1
      <4>2. FileInv(file', mem.count) /\ file'.byte = file.byte
        BY <1>p, <3>2, <4>1, TornAddSound, Zenon
      <4>3. mem.count \in Nat /\ mem.count <= storeCount /\ storeCount \in Nat
        BY <1>0, <2>1
      <4>4. FileInv(file', storeCount)
        BY <4>2, <4>3, FileInvGrows
      <4>. QED  BY <2>3, <4>2, <4>4, Zenon DEF Effect
    <3>3. ASSUME NEW s \in Known(storeCount), file' \in TornAck(mem, file, s)
          PROVE  FileInv(file', storeCount) /\ Effect
      <4>1. s \in Seqs /\ MemInv(mem, file) /\ FileInv(file, mem.count)
        BY <1>a, <2>1
      <4>2. FileInv(file', Grown(mem, s).count) /\ file'.byte = [file.byte EXCEPT ![s] = ACKED]
        BY <1>p, <3>3, <4>1, TornAckSound, Zenon
      <4>3. Grown(mem, s).count \in High .. storeCount
        BY <1>b, <2>1
      <4>4. /\ Grown(mem, s).count \in Nat /\ Grown(mem, s).count <= storeCount
            /\ storeCount \in Nat
        BY <1>0, <4>3
      <4>5. FileInv(file', storeCount)
        BY <4>2, <4>4, FileInvGrows
      <4>. QED  BY <2>3, <4>2, <4>5, Zenon DEF Effect
    <3>. QED  BY <2>2, <3>1, <3>2, <3>3
  <2>6. FileInv(file, High)'
    BY <2>3, <2>5
  <2>7. IInv'
    BY <1>0, <2>1, <2>3, <2>4, <2>6, Zenon DEF IInv
  <2>. QED  BY <2>5, <2>7
<1>. QED  BY <1>1, <1>2, <1>3, <1>4, <1>5, <1>6 DEF Next

LEMMA Invariance == Primary => (Spec => []IInv)
<1>. SUFFICES ASSUME Primary PROVE Spec => []IInv
  OBVIOUS
<1>1. Init => IInv
  BY InitIInv
<1>2. IInv /\ [Next]_vars => IInv'
  <2>1. ASSUME IInv, Next PROVE IInv'
    BY <2>1, StepIInv
  <2>2. ASSUME IInv, UNCHANGED vars PROVE IInv'
    BY <2>2 DEF vars, IInv, High, FileInv, MemInv, Unacked, Resent, Pending, Block
  <2>. QED  BY <2>1, <2>2
<1>. QED  BY <1>1, <1>2, PTL DEF Spec

-----------------------------------------------------------------------------
(* What the invariant says of each state *)

LEMMA IInvType == IInv => TypeOK
BY DEF IInv, TypeOK, FileInv

LEMMA IInvTail == IInv => BlockIsTheTail
BY Zenon DEF IInv, MemInv, BlockIsTheTail

LEMMA IInvMatches == IInv => MemoryMatchesFile
BY Zenon DEF IInv, MemInv, MemoryMatchesFile, Unacked, Resent

LEMMA IInvHeader == IInv => HeaderHidesNothing
<1>. SUFFICES ASSUME IInv, NEW s \in Known(storeCount), s < file.header
              PROVE  file.byte[s] = ACKED
  BY DEF HeaderHidesNothing
<1>1. s \in Seqs
  BY ConstantsAssumption DEF IInv, Known, Seqs
<1>. QED  BY <1>1 DEF IInv, FileInv

LEMMA IInvFirst == IInv => FirstNonAckIsSafe
<1>. SUFFICES ASSUME IInv, up, NEW s \in Pending(mem)
              PROVE  mem.first <= s
  BY DEF FirstNonAckIsSafe, getFirstNonAckRecord
<1>1. MemInv(mem, file) /\ FileInv(file, mem.count) /\ mem.count \in 0 .. MaxCount
  BY DEF IInv, High, MemInv, MemType
<1>2. s \in Known(mem.count) /\ file.byte[s] # ACKED /\ mem.first = file.header
  BY <1>1 DEF MemInv, Unacked
<1>3. s \in Seqs /\ s \in Int
  BY <1>1, <1>2, ConstantsAssumption DEF Known, Seqs
<1>4. file.header \in Int
  BY <1>1 DEF FileInv, FileType
<1>. QED  BY <1>1, <1>2, <1>3, <1>4 DEF FileInv

LEMMA IInvAnswers == Primary /\ IInv => AnswersFromFile
<1>. SUFFICES ASSUME Primary, IInv, up, NEW s \in Known(storeCount)
              PROVE  isRecordAcked(mem, s) <=> file.byte[s] = ACKED
  BY DEF AnswersFromFile
<1>. USE ConstantsAssumption
<1>1. /\ MemInv(mem, file) /\ FileInv(file, mem.count) /\ mem.count \in 0 .. storeCount
      /\ Base > 0 /\ storeCount \in 0 .. MaxCount /\ mem \in MemType
  BY DEF IInv, High, MemInv, Primary
<1>2. s \in Seqs /\ s \in Int
  BY <1>1 DEF Known, Seqs
<1>3. IsNew(mem, s) <=> s >= Base + mem.count
  BY <1>1, <1>2 DEF IsNew, CountFor
<1>4. CASE IsNew(mem, s)
  <2>1. file.byte[s] = FRESH
    BY <1>1, <1>2, <1>3, <1>4 DEF FileInv
  <2>. QED  BY <1>4, <2>1 DEF isRecordAcked, FRESH, ACKED
<1>5. CASE ~IsNew(mem, s)
  <2>1. s \in Known(mem.count)
    BY <1>1, <1>2, <1>3, <1>5 DEF Known
  <2>2. file.byte[s] = ACKED <=> s \notin Pending(mem)
    BY <1>1, <2>1 DEF MemInv, Unacked
  <2>3. s \notin Block(mem) <=> (mem.blockStart = 0 \/ s < mem.blockStart)
    BY <1>1, <1>2, <2>1 DEF Block, MemInv, MemType, Known
  <2>. QED  BY <1>5, <2>2, <2>3 DEF isRecordAcked, Pending
<1>. QED  BY <1>4, <1>5

-----------------------------------------------------------------------------
(* Theorems *)

\* The members of the index and the file never leave their types, whatever is
\* called and wherever it crashes (IndividualAckIndexFile.h).
THEOREM TypeCorrect == Primary => (Spec => []TypeOK)
BY Invariance, IInvType, PTL

\* The trailing block and the scattered set always partition the pending
\* records the way the comment at IndividualAckIndexFile.h:74-77 describes.
THEOREM TailCorrect == Primary => (Spec => []BlockIsTheTail)
BY Invariance, IInvTail, PTL

\* After each call, and after each replay, memory and file agree on what is
\* pending and what was sent again (init, addRecord, ackRecord, markRetransmit).
THEOREM MemoryCorrect == Primary => (Spec => []MemoryMatchesFile)
BY Invariance, IInvMatches, PTL

\* No torn write leaves a header in front of a pending record, which init would
\* never deliver again.
THEOREM HeaderCorrect == Primary => (Spec => []HeaderHidesNothing)
BY Invariance, IInvHeader, PTL

\* The store is never told to trim a record that is still pending
\* (getFirstNonAckRecord).
THEOREM FirstNonAckCorrect == Primary => (Spec => []FirstNonAckIsSafe)
BY Invariance, IInvFirst, PTL

\* isRecordAcked answers from the file, for every record of the store.
THEOREM AnswerCorrect == Primary => (Spec => []AnswersFromFile)
<1>. SUFFICES ASSUME Primary PROVE Spec => []AnswersFromFile
  OBVIOUS
<1>1. IInv => AnswersFromFile
  BY IInvAnswers
<1>2. Spec => []IInv
  BY Invariance
<1>. QED  BY <1>1, <1>2, PTL

-----------------------------------------------------------------------------
(* The ledger *)

\* What the ledger sees of a state, in terms of the bytes of the file.
View ==
  /\ Recovered.count = High
  /\ Pending(Recovered) = Unacked(file, High)
  /\ Recovered.redeliver = Resent(file, High)

LEMMA LedgerView == Primary /\ IInv => View
<1>. SUFFICES ASSUME Primary, IInv PROVE View
  OBVIOUS
<1>. USE DEF View
<1>0. Base > 0
  BY DEF Primary
<1>1. CASE up
  <2>1. Recovered = mem /\ High = mem.count /\ MemInv(mem, file)
    BY <1>1 DEF Recovered, High, IInv
  <2>. QED  BY <2>1, Zenon DEF MemInv
<1>2. CASE ~up
  <2>1. Recovered = InitMem(file, storeCount) /\ High = storeCount
    BY <1>2 DEF Recovered, High
  <2>2. storeCount \in 0 .. MaxCount /\ FileInv(file, storeCount)
    BY <2>1 DEF IInv
  <2>3. /\ MemInv(Recovered, InitFile(file, storeCount))
        /\ InitFile(file, storeCount).byte = file.byte
        /\ Recovered.count = storeCount
    BY <1>0, <2>1, <2>2, InitRecovers
  <2>4. /\ Unacked(InitFile(file, storeCount), storeCount) = Unacked(file, storeCount)
        /\ Resent(InitFile(file, storeCount), storeCount) = Resent(file, storeCount)
    BY <2>3, Zenon DEF Unacked, Resent
  <2>. QED  BY <2>1, <2>3, <2>4, Zenon DEF MemInv
<1>. QED  BY <1>1, <1>2

LEMMA LedgerInit == Primary /\ Init => Ledger!Init
<1>. USE ConstantsAssumption
<1>. SUFFICES ASSUME Primary, Init PROVE Ledger!Init
  OBVIOUS
<1>1. IInv
  BY InitIInv
<1>2. High = storeCount /\ storeCount \in 0 .. MaxCount /\ file = NoFile
  BY DEF Init, High
<1>3. Known(High) \subseteq Seqs
  BY <1>2 DEF Known, Seqs
<1>4. \A s \in Known(High) : file.byte[s] = FRESH
  BY <1>2, <1>3 DEF NoFile
<1>5. Unacked(file, High) = Known(High) /\ Resent(file, High) = {}
  BY <1>4 DEF Unacked, Resent, FRESH, ACKED, RETRANSMIT
<1>6. /\ Recovered.count = High /\ Pending(Recovered) = Unacked(file, High)
      /\ Recovered.redeliver = Resent(file, High)
  BY <1>1, LedgerView DEF View
<1>. QED  BY <1>2, <1>5, <1>6 DEF Ledger!Init, Ledger!Known, Known

LEMMA LedgerStep ==
  Primary /\ IInv /\ [Next]_vars => [Ledger!Next]_(Ledger!ledgerVars)
<1>. USE ConstantsAssumption
<1>. SUFFICES ASSUME Primary, IInv, [Next]_vars
              PROVE  [Ledger!Next]_(Ledger!ledgerVars)
  OBVIOUS
<1>1. CASE UNCHANGED vars
  <2>1. UNCHANGED <<up, mem, file, storeCount>>
    BY <1>1 DEF vars
  <2>2. UNCHANGED Recovered
    BY <2>1, Zenon DEF Recovered
  <2>. QED  BY <2>2 DEF Ledger!ledgerVars, Pending, Block
<1>2. CASE Next
  <2>. DEFINE n == High'
              old == Known(n) \ Known(High)
  <2>1. IInv' /\ Effect
    BY <1>2, StepIInv
  <2>2. /\ Recovered.count = High /\ Pending(Recovered) = Unacked(file, High)
        /\ Recovered.redeliver = Resent(file, High)
    BY LedgerView DEF View
  <2>3. /\ Recovered'.count = n /\ Pending(Recovered') = Unacked(file', n)
        /\ Recovered'.redeliver = Resent(file', n)
    <3>1. Primary'
      BY DEF Primary
    <3>2. View'
      BY <2>1, <3>1, LedgerView, PTL
    <3>. QED  BY <3>2 DEF View
  <2>4. High \in Nat /\ n \in 0 .. MaxCount /\ n >= High
    BY <2>1 DEF IInv, Effect
  <2>5. /\ Known(High) \subseteq Known(n) /\ Known(n) \subseteq Seqs
        /\ \A s \in Known(n) : s \notin Known(High) => s >= Base + High
    <3>1. High \in Int /\ n \in Int /\ n <= MaxCount /\ High <= n
      BY <2>4
    <3>. HIDE DEF n
    <3>. QED  BY <3>1 DEF Known, Seqs
  <2>6. \A s \in old : file.byte[s] = FRESH
    BY <2>5 DEF IInv, FileInv
  <2>7. Unacked(file, n) = Unacked(file, High) \cup old
    BY <2>5, <2>6 DEF Unacked, FRESH, ACKED
  <2>8. Resent(file, n) = Resent(file, High)
    BY <2>5, <2>6 DEF Resent, FRESH, RETRANSMIT
  <2>9. file.byte \in [Seqs -> Marks]
    BY DEF IInv, FileInv, FileType
  <2>10. Ledger!Known(n) = Known(n) /\ Ledger!Known(High) = Known(High)
    BY DEF Ledger!Known, Known
  <2>. HIDE DEF n, old
  <2>11. CASE file'.byte = file.byte
    <3>1. Unacked(file', n) = Unacked(file, n) /\ Resent(file', n) = Resent(file, n)
      BY <2>11, Zenon DEF Unacked, Resent
    <3>2. Ledger!Record(n)
      BY <2>2, <2>3, <2>4, <2>7, <2>8, <2>10, <3>1 DEF Ledger!Record, old
    <3>. QED  BY <2>4, <3>2 DEF Ledger!Next
  <2>12. ASSUME NEW s \in Known(n), file'.byte = [file.byte EXCEPT ![s] = ACKED]
         PROVE  Ledger!Next
    <3>1. /\ Unacked(file', n) = Unacked(file, n) \ {s}
          /\ Resent(file', n) = Resent(file, n) \ {s}
      BY <2>5, <2>9, <2>12 DEF Unacked, Resent, ACKED, RETRANSMIT
    <3>2. Ledger!Acknowledge(n, s)
      BY <2>2, <2>3, <2>4, <2>7, <2>8, <2>10, <3>1 DEF Ledger!Acknowledge, old
    <3>. QED  BY <2>4, <2>10, <3>2 DEF Ledger!Next
  <2>13. ASSUME NEW s \in Known(n), file.byte[s] # ACKED,
                file'.byte = [file.byte EXCEPT ![s] = RETRANSMIT]
         PROVE  Ledger!Next
    <3>1. /\ Unacked(file', n) = Unacked(file, n) /\ s \in Unacked(file, n)
          /\ Resent(file', n) = Resent(file, n) \cup {s}
      BY <2>5, <2>9, <2>13 DEF Unacked, Resent, ACKED, RETRANSMIT
    <3>2. Ledger!Retransmit(n, s)
      BY <2>2, <2>3, <2>4, <2>7, <2>8, <2>10, <3>1 DEF Ledger!Retransmit, old
    <3>. QED  BY <2>4, <2>10, <3>2 DEF Ledger!Next
  <2>. QED  BY <2>1, <2>11, <2>12, <2>13 DEF Effect, n
<1>. QED  BY <1>1, <1>2

\* Seen through what a restart would recover, the index implements the ledger:
\* every call, crash and replay is a ledger step or changes nothing, so no
\* acknowledgement is lost or invented and no record is skipped.
THEOREM LedgerImplemented == Primary => (Spec => ImplementsLedger)
<1>. SUFFICES ASSUME Primary PROVE Spec => ImplementsLedger
  OBVIOUS
<1>1. Init => Ledger!Init
  BY LedgerInit
<1>2. IInv /\ [Next]_vars => [Ledger!Next]_(Ledger!ledgerVars)
  BY LedgerStep
<1>3. Spec => []IInv
  BY Invariance
<1>. QED  BY <1>1, <1>2, <1>3, PTL DEF Spec, ImplementsLedger, Ledger!Spec

=============================================================================
