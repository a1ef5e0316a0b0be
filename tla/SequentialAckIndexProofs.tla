---------------------- MODULE SequentialAckIndexProofs ----------------------
(***************************************************************************)
(* Proofs about the sequential acknowledgement index of a store whose      *)
(* first sequence is 1, so that a cursor counts the records up to the last *)
(* one acknowledged, and that never loses a record.                        *)
(*                                                                         *)
(* The argument: neither a cursor in memory nor a slot of the file that    *)
(* passes its CRC is ever beyond what the consumer has acknowledged        *)
(* (Behind); until a write is torn, the file of an open index is an image  *)
(* of the cursors (Image), and on a primary both are what the consumer has *)
(* acknowledged (Exact).                                                   *)
(***************************************************************************)
EXTENDS SequentialAckIndex, TLAPS

-----------------------------------------------------------------------------
(* The greater and the less of two numbers *)

\* Of two integers.
LEMMA MaxOfPair ==
  ASSUME NEW a \in Int, NEW b \in Int
  PROVE  Max({a, b}) = IF a >= b THEN a ELSE b
<1>1. \E x \in {a, b} : \A y \in {a, b} : x >= y
  OBVIOUS
<1>2. Max({a, b}) \in {a, b} /\ \A y \in {a, b} : Max({a, b}) >= y
  BY <1>1 DEF Max
<1>. QED  BY <1>2

LEMMA MinOfPair ==
  ASSUME NEW a \in Int, NEW b \in Int
  PROVE  Min({a, b}) = IF a <= b THEN a ELSE b
<1>1. \E x \in {a, b} : \A y \in {a, b} : x <= y
  OBVIOUS
<1>2. Min({a, b}) \in {a, b} /\ \A y \in {a, b} : Min({a, b}) <= y
  BY <1>1 DEF Min
<1>. QED  BY <1>2

-----------------------------------------------------------------------------
(* The invariant *)

Types ==
  /\ durable \in BOOLEAN /\ standby \in BOOLEAN /\ up \in BOOLEAN /\ torn \in BOOLEAN
  /\ count \in 0 .. MaxCount /\ known \in 0 .. MaxCount
  /\ stored \in [Seqs -> Levels]
  /\ cursor \in [Levels -> 0 .. MaxCount]
  /\ file \in FileType
  /\ acked \in [Levels -> 0 .. MaxCount]
  /\ restarts \in 0 .. MaxRestarts

\* What the file would make of the cursors never exceeds the acknowledgements.
Behind ==
  /\ \A l \in Levels : cursor[l] <= acked[l]
  /\ \A l \in Levels : file.slot[l] <= acked[l]
  /\ file.old # BAD =>
       ~up /\ file.len = OLD_LENGTH /\ \A l \in Levels : OldCursor(file, count) <= acked[l]
  /\ ~durable => file = NoFile

\* The files that no torn write has left.
Sane(f) ==
  \/ f.len = VERSION11_FILELENGTH /\ f.header /\ \A l \in Levels : f.slot[l] # BAD
  \/ f.len = OLD_LENGTH /\ f.old # BAD
  \/ f.len = 0

Image ==
  durable /\ ~torn =>
    Sane(file) /\ (up => file.len = VERSION11_FILELENGTH /\ file.slot = cursor)

IInv == Types /\ Behind /\ Image

\* The files of a primary none of whose writes has been torn.
Whole(f) ==
  \/ f.len = VERSION11_FILELENGTH /\ f.header /\ f.slot = acked
  \/ f.len = OLD_LENGTH /\ f.old # BAD /\ acked = Everyone(OldCursor(f, count))
  \/ f.len = 0 /\ acked = Everyone(0)

Exact ==
  ~standby =>
    /\ \A l \in Levels : acked[l] <= count
    /\ ~torn /\ up => cursor = acked
    /\ ~torn /\ durable => Whole(file)

Plain == Base = 1

-----------------------------------------------------------------------------
(* The file operations *)

LEMMA OldCursorIs ==
  ASSUME NEW f \in FileType, NEW n \in Nat
  PROVE  OldCursor(f, n) = IF f.old <= n THEN f.old ELSE n
<1>1. f.old \in Int
  BY SequentialAssumption DEF FileType, BAD
<1>. QED  BY <1>1, MinOfPair DEF OldCursor

\* writeRecord changes one slot, and the length only of a shorter file.
LEMMA WrittenIs ==
  ASSUME NEW f \in FileType, NEW l \in Levels, NEW n \in 0 .. MaxCount
  PROVE  /\ Written(f, l, n) \in FileType
         /\ Written(f, l, n).slot = [f.slot EXCEPT ![l] = n]
         /\ Written(f, l, n).header = f.header /\ Written(f, l, n).old = f.old
         /\ Written(f, l, n).len # OLD_LENGTH
         /\ f.len = VERSION11_FILELENGTH => Written(f, l, n).len = VERSION11_FILELENGTH
<1>1. l \in 0 .. 9
  BY SequentialAssumption DEF MAX_LEVEL
<1>2. SlotEnd(l) \in 22 .. 130 /\ VERSION11_FILELENGTH = 130
  BY <1>1 DEF SlotEnd, HEAD_SIZE, RECORD_SIZE, VERSION11_FILELENGTH
<1>3. f.len \in 0 .. 130 /\ f.slot \in [Levels -> BAD .. MaxCount]
  BY <1>2 DEF FileType
<1>4. Max({f.len, SlotEnd(l)}) = IF f.len >= SlotEnd(l) THEN f.len ELSE SlotEnd(l)
  <2>1. f.len \in Int /\ SlotEnd(l) \in Int
    BY <1>2, <1>3
  <2>. QED  BY <2>1, MaxOfPair
<1>5. n \in BAD .. MaxCount
  BY SequentialAssumption DEF BAD
<1>. DEFINE w == Written(f, l, n)
<1>6. /\ w = [f EXCEPT !.len = Max({f.len, SlotEnd(l)}), !.slot[l] = n]
      /\ Max({f.len, SlotEnd(l)}) \in 22 .. 130
  BY <1>2, <1>3, <1>4 DEF Written
<1>7. w \in FileType
  <2>. DEFINE m == Max({f.len, SlotEnd(l)})
              t == [f.slot EXCEPT ![l] = n]
  <2>1. m \in 0 .. VERSION11_FILELENGTH /\ t \in [Levels -> BAD .. MaxCount]
    BY <1>2, <1>3, <1>5, <1>6
  <2>2. w = [len |-> m, header |-> f.header, slot |-> t, old |-> f.old]
    BY <1>6 DEF FileType
  <2>. HIDE DEF m, t, w
  <2>. QED  BY <2>1, <2>2 DEF FileType
<1>8. w.slot = [f.slot EXCEPT ![l] = n] /\ w.header = f.header /\ w.old = f.old
  BY <1>6 DEF FileType
<1>9. w.len = Max({f.len, SlotEnd(l)})
  BY <1>6 DEF FileType
<1>. QED  BY <1>2, <1>3, <1>4, <1>7, <1>8, <1>9 DEF OLD_LENGTH

LEMMA GeneratedIs ==
  ASSUME NEW c \in [Levels -> 0 .. MaxCount]
  PROVE  /\ Generated(c) \in FileType
         /\ Generated(c).len = VERSION11_FILELENGTH
         /\ Generated(c).header = TRUE /\ Generated(c).slot = c /\ Generated(c).old = BAD
         /\ Generated(c).old = BAD
<1>1. c \in [Levels -> BAD .. MaxCount] /\ BAD \in BAD .. MaxCount + 1
  BY SequentialAssumption DEF BAD
<1>. QED  BY <1>1, SequentialAssumption
     DEF Generated, FileType, VERSION11_FILELENGTH, HEAD_SIZE, RECORD_SIZE

LEMMA EmptyFile ==
  /\ NoFile \in FileType /\ NoFile.len = 0 /\ NoFile.old = BAD
  /\ \A l \in Levels : NoFile.slot[l] = BAD
  /\ \A f \in TornFiles : f \in FileType /\ f.old = BAD /\ \A l \in Levels : f.slot[l] = BAD
<1>1. /\ BAD \in BAD .. MaxCount /\ BAD \in BAD .. MaxCount + 1
      /\ VERSION11_FILELENGTH = 130
  BY SequentialAssumption DEF BAD, VERSION11_FILELENGTH, HEAD_SIZE, RECORD_SIZE
<1>2. NoFile = [len |-> 0, header |-> FALSE, slot |-> [l \in Levels |-> BAD], old |-> BAD]
  BY DEF NoFile, Everyone
<1>3. NoFile \in FileType
  BY <1>1, <1>2 DEF FileType
<1>4. ASSUME NEW f \in TornFiles
      PROVE  f \in FileType /\ f.old = BAD /\ \A l \in Levels : f.slot[l] = BAD
  <2>1. PICK n \in {0, 1, 12, 13, 70} : f = [NoFile EXCEPT !.len = n, !.header = (n >= 2)]
    BY DEF TornFiles
  <2>2. f = [len |-> n, header |-> (n >= 2), slot |-> [l \in Levels |-> BAD], old |-> BAD]
    BY <1>2, <2>1
  <2>3. (n >= 2) \in BOOLEAN /\ n \in 0 .. 130
    OBVIOUS
  <2>. QED  BY <1>1, <2>2, <2>3 DEF FileType
<1>. QED  BY <1>2, <1>3, <1>4

\* init leaves a file and cursors behind the acknowledgements, and exactly them
\* when the file was whole.
LEMMA OpenedIs ==
  ASSUME IInv, ~up
  PROVE  /\ Opened(file).file \in FileType
         /\ Opened(file).cursor \in [Levels -> 0 .. MaxCount]
         /\ \A l \in Levels : Opened(file).cursor[l] <= acked[l]
         /\ \A l \in Levels : Opened(file).file.slot[l] <= acked[l]
         /\ Opened(file).file.old = BAD
         /\ Sane(file) => /\ Opened(file).file.len = VERSION11_FILELENGTH
                          /\ Opened(file).file.header
                          /\ Opened(file).file.slot = Opened(file).cursor
         /\ Whole(file) /\ (\A l \in Levels : acked[l] <= count) =>
              /\ Opened(file).cursor = acked
              /\ Opened(file).file.len = VERSION11_FILELENGTH
              /\ Opened(file).file.header /\ Opened(file).file.slot = acked
<1>. USE SequentialAssumption
<1>. DEFINE o == Opened(file)
            zero == Everyone(0)
<1>1. /\ file \in FileType /\ count \in 0 .. MaxCount /\ acked \in [Levels -> 0 .. MaxCount]
      /\ count \in Nat
  BY DEF IInv, Types
<1>2. zero \in [Levels -> 0 .. MaxCount] /\ \A l \in Levels : zero[l] = 0
  BY DEF Everyone
<1>3. VERSION11_FILELENGTH = 130 /\ OLD_LENGTH = 12
  BY DEF VERSION11_FILELENGTH, HEAD_SIZE, RECORD_SIZE, OLD_LENGTH
<1>. DEFINE Regenerated == o.file = Generated(zero) /\ o.cursor = zero
<1>. HIDE DEF zero
<1>4. ASSUME o.file = Generated(zero), o.cursor = zero,
             Whole(file) /\ (\A l \in Levels : acked[l] <= count) => acked = zero
      PROVE  /\ o.file \in FileType /\ o.cursor \in [Levels -> 0 .. MaxCount]
             /\ \A l \in Levels : o.cursor[l] <= acked[l] /\ o.file.slot[l] <= acked[l]
             /\ o.file.len = 130 /\ o.file.old = BAD
             /\ o.file.header /\ o.file.slot = o.cursor
             /\ Whole(file) /\ (\A l \in Levels : acked[l] <= count) =>
                  o.cursor = acked /\ o.file.header /\ o.file.slot = acked
  <2>1. Generated(zero) \in FileType /\ Generated(zero).len = 130
        /\ Generated(zero).header = TRUE /\ Generated(zero).slot = zero
        /\ Generated(zero).old = BAD
    BY <1>2, <1>3, GeneratedIs
  <2>. QED  BY <1>1, <1>2, <1>4, <2>1
<1>5. CASE ~IsOldFile(file)
  <2>1. o.file = Generated(zero) /\ o.cursor = zero
    BY <1>5 DEF Opened, zero
  <2>2. Whole(file) /\ (\A l \in Levels : acked[l] <= count) => acked = zero
    <3>1. CASE file.len = 0
      BY <1>3, <3>1 DEF Whole, zero
    <3>2. CASE count = 0
      <4>1. (\A l \in Levels : acked[l] <= 0) => \A l \in Levels : acked[l] = 0
        BY <1>1
      <4>2. (\A l \in Levels : acked[l] = 0) => acked = [l \in Levels |-> 0]
        BY <1>1
      <4>. QED  BY <3>2, <4>1, <4>2 DEF zero, Everyone
    <3>. QED  BY <1>1, <1>5, <3>1, <3>2 DEF IsOldFile, FileType
  <2>. QED  BY <1>3, <1>4, <2>1, <2>2
<1>6. CASE IsOldFile(file) /\ file.len = OLD_LENGTH
  <2>. DEFINE c == IF file.old = BAD THEN Everyone(0) ELSE Everyone(OldCursor(file, count))
  <2>1. o.file = Generated(c) /\ o.cursor = c
    BY <1>6 DEF Opened
  <2>2. c \in [Levels -> 0 .. MaxCount]
    <3>1. file.old \in BAD .. MaxCount + 1
      BY <1>1 DEF FileType
    <3>2. file.old # BAD => OldCursor(file, count) \in 0 .. MaxCount
      BY <1>1, <3>1, OldCursorIs DEF BAD
    <3>. QED  BY <3>2 DEF Everyone
  <2>3. \A l \in Levels : c[l] <= acked[l]
    <3>1. CASE file.old = BAD
      BY <1>1, <3>1 DEF Everyone
    <3>2. CASE file.old # BAD
      <4>1. \A l \in Levels : OldCursor(file, count) <= acked[l]
        BY <1>6, <3>2 DEF IInv, Behind
      <4>. QED  BY <3>2, <4>1 DEF Everyone
    <3>. QED  BY <3>1, <3>2
  <2>4. Whole(file) => c = acked
    BY <1>3, <1>6 DEF Whole
  <2>. HIDE DEF c
  <2>5. /\ Generated(c) \in FileType /\ Generated(c).len = 130
        /\ Generated(c).header = TRUE /\ Generated(c).slot = c /\ Generated(c).old = BAD
    BY <1>3, <2>2, GeneratedIs
  <2>. QED  BY <1>3, <2>1, <2>2, <2>3, <2>4, <2>5
<1>7. CASE IsOldFile(file) /\ file.len = VERSION11_FILELENGTH /\ Readable(file)
  <2>1. o.file = file /\ o.cursor = file.slot
    BY <1>3, <1>7 DEF Opened
  <2>2. \A l \in Levels : file.slot[l] \in 0 .. MaxCount
    BY <1>1, <1>7 DEF Readable, FileType, BAD
  <2>3. file.slot \in [Levels -> 0 .. MaxCount]
    BY <1>1, <2>2 DEF FileType
  <2>4. Whole(file) => file.header /\ file.slot = acked
    BY <1>3, <1>7 DEF Whole
  <2>5. file.old = BAD /\ \A l \in Levels : file.slot[l] <= acked[l]
    <3>1. file.len # OLD_LENGTH
      BY <1>3, <1>7
    <3>2. Behind
      BY DEF IInv
    <3>. QED  BY <3>1, <3>2 DEF Behind
  <2>. QED  BY <1>1, <1>3, <1>7, <2>1, <2>3, <2>4, <2>5 DEF Readable
<1>8. CASE IsOldFile(file) /\ file.len = VERSION11_FILELENGTH /\ ~Readable(file)
  <2>1. o.file = NoFile /\ o.cursor = zero
    BY <1>3, <1>8 DEF Opened, Cleared, zero
  <2>0. ~Sane(file)
    BY <1>3, <1>8 DEF Sane, Readable
  <2>2. ~Whole(file)
    <3>1. Whole(file) => file.header /\ file.slot = acked
      BY <1>3, <1>8 DEF Whole
    <3>2. \A l \in Levels : acked[l] # BAD
      BY <1>1 DEF BAD
    <3>. QED  BY <1>8, <3>1, <3>2 DEF Readable
  <2>3. \A l \in Levels : BAD <= acked[l] /\ 0 <= acked[l]
    BY <1>1 DEF BAD
  <2>. QED  BY <1>2, <1>3, <2>0, <2>1, <2>2, <2>3, EmptyFile
<1>9. CASE IsOldFile(file) /\ file.len # OLD_LENGTH /\ file.len # VERSION11_FILELENGTH
  <2>1. o.file = Generated(zero) /\ o.cursor = zero
    BY <1>9 DEF Opened, zero
  <2>2. ~Whole(file)
    BY <1>1, <1>9 DEF Whole, IsOldFile
  <2>. QED  BY <1>3, <1>4, <2>1, <2>2
<1>. QED  BY <1>5, <1>6, <1>7, <1>8, <1>9

-----------------------------------------------------------------------------
(* The initial states, and one lemma for each kind of step *)

LEMMA InitSound == Plain /\ Init => IInv /\ Exact
<1>. USE SequentialAssumption
<1>. SUFFICES ASSUME Plain, Init PROVE IInv /\ Exact
  OBVIOUS
<1>1. /\ durable \in BOOLEAN /\ standby \in BOOLEAN
      /\ up = FALSE /\ cursor = Everyone(0) /\ known = 0 /\ torn = FALSE /\ restarts = 0
      /\ count \in 0 .. MaxCount /\ stored \in [Seqs -> Levels] /\ Base = 1
  BY DEF Init, Plain
<1>2. ASSUME file \in FileType, acked \in [Levels -> 0 .. MaxCount]
      PROVE  Types
  <2>1. cursor \in [Levels -> 0 .. MaxCount]
    BY <1>1 DEF Everyone
  <2>2. up \in BOOLEAN /\ torn \in BOOLEAN
    BY <1>1, Zenon
  <2>3. known \in 0 .. MaxCount /\ restarts \in 0 .. MaxRestarts
    BY <1>1
  <2>. QED  BY <1>1, <1>2, <2>1, <2>2, <2>3 DEF Types
<1>3. CASE file = NoFile /\ acked = Everyone(Base - 1)
  <2>1. /\ acked = Everyone(0) /\ acked \in [Levels -> 0 .. MaxCount]
        /\ \A l \in Levels : acked[l] = 0
    BY <1>1, <1>3 DEF Everyone
  <2>2. Behind
    BY <1>1, <1>3, <2>1, EmptyFile DEF Behind, Everyone, BAD
  <2>3. Exact /\ Image
    BY <1>1, <1>3, <2>1, EmptyFile DEF Exact, Whole, Image, Sane
  <2>. QED  BY <1>2, <1>3, <2>1, <2>2, <2>3, EmptyFile DEF IInv
<1>4. ASSUME NEW n \in 0 .. MaxCount + 1, durable, file = OldFile(n),
             acked = Everyone(Base - 1 + Min({n, count}))
      PROVE  IInv /\ Exact
  <2>. DEFINE m == IF n <= count THEN n ELSE count
  <2>1. Min({n, count}) = m /\ m \in 0 .. count
    <3>1. n \in Int /\ count \in Int
      BY <1>1
    <3>. QED  BY <1>1, <3>1, MinOfPair
  <2>2. file = [len |-> OLD_LENGTH, header |-> FALSE, slot |-> [l \in Levels |-> BAD], old |-> n]
    BY <1>4 DEF OldFile, NoFile, Everyone
  <2>3. file \in FileType
    BY <2>2 DEF FileType, OLD_LENGTH, BAD, VERSION11_FILELENGTH, HEAD_SIZE, RECORD_SIZE
  <2>4. OldCursor(file, count) = m
    BY <1>1, <2>2, <2>3, OldCursorIs
  <2>5. acked = Everyone(m)
    BY <1>1, <1>4, <2>1
  <2>. HIDE DEF m
  <2>6. acked \in [Levels -> 0 .. MaxCount] /\ \A l \in Levels : acked[l] = m
    BY <1>1, <2>1, <2>5 DEF Everyone
  <2>7. Behind
    <3>1. m \in Int /\ 0 <= m /\ -1 <= m /\ m <= m
      BY <1>1, <2>1
    <3>2. \A l \in Levels : cursor[l] = 0 /\ file.slot[l] = -1
      BY <1>1, <2>2 DEF Everyone, BAD
    <3>3. \A l \in Levels : cursor[l] <= acked[l] /\ file.slot[l] <= acked[l]
      BY <2>6, <3>1, <3>2
    <3>4. \A l \in Levels : OldCursor(file, count) <= acked[l]
      BY <2>4, <2>6, <3>1
    <3>5. file.len = OLD_LENGTH /\ ~up
      BY <1>1, <2>2
    <3>. QED  BY <1>4, <3>3, <3>4, <3>5 DEF Behind
  <2>8. Exact /\ Image
    BY <1>1, <2>1, <2>2, <2>4, <2>5, <2>6 DEF Exact, Whole, Image, Sane, BAD
  <2>. QED  BY <1>2, <2>3, <2>6, <2>7, <2>8 DEF IInv
<1>. QED  BY <1>3, <1>4 DEF Init

LEMMA OpenSound == Plain /\ IInv /\ Open => IInv' /\ (Exact => Exact')
<1>. USE SequentialAssumption
<1>. SUFFICES ASSUME Plain, IInv, Open PROVE IInv' /\ (Exact => Exact')
  OBVIOUS
<1>1. /\ ~up /\ up' = TRUE /\ known' = count /\ UNCHANGED <<durable, standby, count, stored, torn, restarts>>
      /\ Base = 1 /\ Types /\ count \in 0 .. MaxCount
  BY DEF Open, role, IInv, Types, Plain
<1>2. CASE durable
  <2>1. /\ file' = Opened(file).file /\ cursor' = Opened(file).cursor /\ acked' = acked
    BY <1>2 DEF Open
  <2>2. Types'
    BY <1>1, <2>1, OpenedIs DEF Types, Seqs
  <2>3. Behind'
    <3>1. /\ \A l \in Levels : Opened(file).cursor[l] <= acked[l]
          /\ \A l \in Levels : Opened(file).file.slot[l] <= acked[l]
          /\ Opened(file).file.old = BAD
      BY <1>1, OpenedIs
    <3>. QED  BY <1>1, <1>2, <2>1, <3>1 DEF Behind
  <2>4. Image'
    <3>1. ~torn => Sane(file)
      BY <1>2 DEF IInv, Image
    <3>2. ~torn => /\ file'.len = VERSION11_FILELENGTH /\ file'.header
                  /\ file'.slot = cursor'
      BY <1>1, <2>1, <3>1, OpenedIs
    <3>3. \A l \in Levels : cursor'[l] # BAD
      BY <2>2 DEF Types, BAD
    <3>. QED  BY <1>1, <3>2, <3>3 DEF Image, Sane
  <2>5. Exact => Exact'
    <3>. SUFFICES ASSUME Exact, ~standby PROVE Exact'
      BY <1>1 DEF Exact
    <3>1. (\A l \in Levels : acked[l] <= count) /\ (~torn => Whole(file))
      BY <1>2 DEF Exact
    <3>2. ~torn => cursor' = acked /\ file'.len = VERSION11_FILELENGTH
                  /\ file'.header /\ file'.slot = acked
      BY <1>1, <2>1, <3>1, OpenedIs
    <3>3. ~torn => Whole(file)'
      BY <2>1, <3>2 DEF Whole
    <3>. QED  BY <1>1, <2>1, <3>1, <3>2, <3>3 DEF Exact
  <2>. QED  BY <2>2, <2>3, <2>4, <2>5 DEF IInv
<1>3. CASE ~durable
  <2>1. /\ cursor' = Everyone(count) /\ acked' = Everyone(count) /\ file' = file
    BY <1>1, <1>3 DEF Open
  <2>2. /\ \A l \in Levels : cursor'[l] = count /\ acked'[l] = count
        /\ cursor' \in [Levels -> 0 .. MaxCount] /\ acked' \in [Levels -> 0 .. MaxCount]
    BY <1>1, <2>1 DEF Everyone
  <2>3. file = NoFile
    BY <1>3 DEF IInv, Behind
  <2>4. Types'
    BY <1>1, <2>1, <2>2 DEF Types, Seqs
  <2>5. Behind'
    BY <1>1, <1>3, <2>1, <2>2, <2>3, EmptyFile DEF Behind, BAD
  <2>6. Exact' /\ Image'
    BY <1>1, <1>3, <2>1, <2>2 DEF Exact, Image
  <2>. QED  BY <2>4, <2>5, <2>6 DEF IInv
<1>. QED  BY <1>2, <1>3

LEMMA TornOpenSound == Plain /\ IInv /\ TornOpen => IInv' /\ (Exact => Exact')
<1>. USE SequentialAssumption
<1>. SUFFICES ASSUME Plain, IInv, TornOpen PROVE IInv' /\ (Exact => Exact')
  OBVIOUS
<1>1. /\ ~up /\ durable /\ file' \in TornFiles /\ torn' = TRUE /\ restarts < MaxRestarts
      /\ restarts' = restarts + 1 /\ UNCHANGED <<durable, standby, up, count, stored, known, cursor, acked>>
      /\ Types /\ Behind
  BY DEF TornOpen, role, IInv
<1>2. file' \in FileType /\ file'.old = BAD /\ \A l \in Levels : file'.slot[l] = BAD
  BY <1>1, EmptyFile
<1>3. Types'
  <2>1. restarts' \in 0 .. MaxRestarts
    BY <1>1 DEF Types
  <2>. QED  BY <1>1, <1>2, <2>1 DEF Types, Seqs
<1>4. Behind'
  <2>1. \A l \in Levels : BAD <= acked[l]
    BY <1>1 DEF Types, BAD
  <2>. QED  BY <1>1, <1>2, <2>1 DEF Behind
<1>5. Image' /\ (Exact => Exact')
  BY <1>1 DEF Exact, Image
<1>. QED  BY <1>3, <1>4, <1>5 DEF IInv

\* Neither the store's own call nor addRecord touches a cursor or the file.
LEMMA AddSound ==
  ASSUME Plain, IInv, (\E l \in Levels : StoreAdd(l)) \/ addRecord
  PROVE  IInv' /\ (Exact => Exact')
<1>. USE SequentialAssumption
<1>1. /\ up /\ Types /\ Behind /\ Image
      /\ UNCHANGED <<durable, standby, up, cursor, file, acked, torn, restarts>>
      /\ count' \in {count, count + 1} /\ count' \in 0 .. MaxCount /\ known' \in 0 .. MaxCount
  BY DEF StoreAdd, addRecord, role, IInv, Types
<1>2. stored' \in [Seqs' -> Levels]
  <2>1. CASE addRecord
    BY <1>1, <2>1 DEF addRecord, Types, Seqs
  <2>2. ASSUME NEW l \in Levels, StoreAdd(l) PROVE stored' \in [Seqs' -> Levels]
    <3>1. Seqs' = Seqs \cup {Base + count}
      <4>1. count' = count + 1 /\ count \in Nat /\ Base = 1
        BY <1>1, <2>2 DEF StoreAdd, Types, Plain
      <4>. QED  BY <4>1 DEF Seqs
    <3>2. stored' = [s \in Seqs' |-> IF s \in Seqs THEN stored[s] ELSE l]
      BY <2>2, <3>1 DEF StoreAdd
    <3>. QED  BY <1>1, <3>2 DEF Types
  <2>. QED  BY <2>1, <2>2
<1>3. Types'
  BY <1>1, <1>2 DEF Types
<1>4. Behind'
  BY <1>1 DEF Behind
<1>5. Exact => Exact'
  <2>1. count <= count' /\ count \in Int /\ count' \in Int
    BY <1>1 DEF Types
  <2>2. Exact /\ ~standby => \A l \in Levels : acked'[l] <= count'
    BY <1>1, <2>1 DEF Exact, Types
  <2>3. Exact /\ ~standby /\ ~torn /\ durable => Whole(file)'
    <3>1. durable /\ ~torn => file.len = VERSION11_FILELENGTH
      BY <1>1 DEF Image
    <3>. QED  BY <1>1, <3>1 DEF Exact, Whole, OLD_LENGTH, VERSION11_FILELENGTH, HEAD_SIZE, RECORD_SIZE
  <2>. QED  BY <1>1, <2>2, <2>3 DEF Exact
<1>6. Image'
  BY <1>1 DEF Image, Sane
<1>. QED  BY <1>3, <1>4, <1>5, <1>6 DEF IInv

\* An acknowledgement moves the history and, if it is ahead, the cursor and its slot.
LEMMA AckSound ==
  ASSUME Plain, IInv, NEW l \in Levels, NEW s \in Base .. Base + MaxCount - 1, ackRecord(l, s)
  PROVE  /\ IInv'
         /\ \A k \in Levels : cursor'[k] >= cursor[k]
         /\ Exact => Exact'
<1>. USE SequentialAssumption
<1>1. /\ up /\ Types /\ Behind /\ Image
      /\ UNCHANGED <<durable, standby, up, count, stored, known, torn, restarts>>
      /\ Base = 1 /\ s \in 1 .. MaxCount /\ CountFor(s) = s
      /\ count \in 0 .. MaxCount /\ cursor \in [Levels -> 0 .. MaxCount]
      /\ acked \in [Levels -> 0 .. MaxCount] /\ file \in FileType
  BY DEF ackRecord, role, IInv, Types, Plain, CountFor
<1>2. /\ acked' = [acked EXCEPT ![l] = IF acked[l] >= s THEN acked[l] ELSE s]
  <2>1. acked[l] \in Int /\ s \in Int
    BY <1>1
  <2>. QED  BY <2>1, MaxOfPair DEF ackRecord, Acked
<1>3. acked' \in [Levels -> 0 .. MaxCount] /\ \A k \in Levels : acked'[k] >= acked[k]
  BY <1>1, <1>2
<1>4. /\ file.old = BAD /\ (~durable => file = NoFile)
      /\ \A k \in Levels : cursor[k] <= acked[k] /\ file.slot[k] <= acked[k]
  BY <1>1 DEF Behind
<1>5. ~standby /\ Exact => \A k \in Levels : acked'[k] <= count
  <2>1. ~standby => s <= count
    BY <1>1 DEF ackRecord, Ackable, Seqs
  <2>. QED  BY <1>1, <1>2, <2>1 DEF Exact
<1>6. CASE s > cursor[l]
  <2>. DEFINE f == IF durable THEN Written(file, l, s) ELSE file
  <2>1. cursor' = [cursor EXCEPT ![l] = s] /\ file' = f
    BY <1>1, <1>6 DEF ackRecord
  <2>2. /\ f \in FileType /\ f.old = BAD /\ (~durable => f = NoFile)
        /\ durable => /\ f.slot = [file.slot EXCEPT ![l] = s] /\ f.header = file.header
                      /\ file.len = VERSION11_FILELENGTH => f.len = VERSION11_FILELENGTH
    BY <1>1, <1>4, WrittenIs
  <2>. HIDE DEF f
  <2>3. Types'
    BY <1>1, <1>3, <2>1, <2>2 DEF Types, Seqs
  <2>4. \A k \in Levels : cursor'[k] <= acked'[k]
    BY <1>1, <1>2, <1>4, <2>1
  <2>5. \A k \in Levels : f.slot[k] <= acked'[k]
    <3>1. file.slot \in [Levels -> BAD .. MaxCount]
      BY <1>1 DEF FileType
    <3>2. CASE durable
      BY <1>1, <1>2, <1>4, <2>2, <3>1, <3>2 DEF BAD
    <3>3. CASE ~durable
      BY <1>1, <1>2, <1>3, <1>4, <2>2, <3>1, <3>3 DEF BAD
    <3>. QED  BY <3>2, <3>3
  <2>6. Behind'
    BY <1>1, <2>1, <2>2, <2>4, <2>5 DEF Behind
  <2>7. Exact => Exact'
    <3>. SUFFICES ASSUME ~standby, Exact PROVE Exact'
      BY <1>1 DEF Exact
    <3>1. ~torn => acked' = [acked EXCEPT ![l] = s]
      <4>1. ~torn => cursor = acked
        BY <1>1 DEF Exact
      <4>2. acked[l] \in Int /\ s \in Int /\ (~torn => ~(acked[l] >= s))
        BY <1>1, <1>6, <4>1
      <4>. QED  BY <1>2, <4>2
    <3>2. ~torn => cursor' = acked'
      BY <1>1, <2>1, <3>1 DEF Exact
    <3>3. ~torn /\ durable => /\ file.len = VERSION11_FILELENGTH
                              /\ file.header /\ file.slot = acked
      <4>1. ~torn /\ durable => file.len = VERSION11_FILELENGTH
        BY <1>1 DEF Image
      <4>. QED  BY <4>1 DEF Exact, Whole, OLD_LENGTH, VERSION11_FILELENGTH, HEAD_SIZE, RECORD_SIZE
    <3>4. ~torn /\ durable => /\ file'.len = VERSION11_FILELENGTH
                              /\ file'.header /\ file'.slot = acked'
      BY <2>1, <2>2, <3>1, <3>3
    <3>. QED  BY <1>1, <1>5, <3>2, <3>4 DEF Exact, Whole
  <2>8. \A k \in Levels : cursor'[k] >= cursor[k]
    BY <1>1, <1>6, <2>1
  <2>9. Image'
    <3>1. durable /\ ~torn => /\ file.len = VERSION11_FILELENGTH /\ file.slot = cursor
                              /\ Sane(file)
      BY <1>1 DEF Image
    <3>2. durable /\ ~torn => file.header
      BY <3>1 DEF Sane, OLD_LENGTH, VERSION11_FILELENGTH, HEAD_SIZE, RECORD_SIZE
    <3>3. durable /\ ~torn => /\ file'.len = VERSION11_FILELENGTH /\ file'.header
                              /\ file'.slot = cursor'
      BY <2>1, <2>2, <3>1, <3>2
    <3>4. \A k \in Levels : cursor'[k] # BAD
      BY <2>3 DEF Types, BAD
    <3>. QED  BY <1>1, <3>3, <3>4 DEF Image, Sane
  <2>. QED  BY <2>3, <2>6, <2>7, <2>8, <2>9 DEF IInv
<1>7. CASE ~(s > cursor[l])
  <2>1. UNCHANGED <<cursor, file>>
    BY <1>1, <1>7 DEF ackRecord
  <2>2. Types'
    BY <1>1, <1>3, <2>1 DEF Types, Seqs
  <2>3. Behind'
    <3>1. \A k \in Levels : file.slot[k] \in Int
      BY <1>1 DEF FileType, BAD
    <3>2. \A k \in Levels : cursor[k] \in Int /\ acked[k] \in Int /\ acked'[k] \in Int
      BY <1>1, <1>3
    <3>3. ASSUME NEW k \in Levels
          PROVE  cursor[k] <= acked'[k] /\ file.slot[k] <= acked'[k]
      <4>1. cursor[k] <= acked[k] /\ file.slot[k] <= acked[k] /\ acked[k] <= acked'[k]
        BY <1>3, <1>4, <3>2
      <4>2. cursor[k] \in Int /\ file.slot[k] \in Int /\ acked[k] \in Int /\ acked'[k] \in Int
        BY <3>1, <3>2
      <4>3. \A a, b, c \in Int : a <= b /\ b <= c => a <= c
        OBVIOUS
      <4>4. cursor[k] <= acked'[k]
        BY <4>1, <4>2, <4>3
      <4>5. file.slot[k] <= acked'[k]
        BY <4>1, <4>2, <4>3
      <4>. QED  BY <4>4, <4>5
    <3>. QED  BY <1>1, <1>4, <2>1, <3>3 DEF Behind
  <2>4. Exact => Exact'
    <3>. SUFFICES ASSUME ~standby, Exact PROVE Exact'
      BY <1>1 DEF Exact
    <3>1. ~torn => acked' = acked
      BY <1>1, <1>2, <1>7 DEF Exact
    <3>2. durable /\ ~torn => Whole(file)'
      <4>1. durable /\ ~torn => Whole(file)
        BY DEF Exact
      <4>. QED  BY <1>1, <2>1, <3>1, <4>1 DEF Whole
    <3>. QED  BY <1>1, <1>5, <2>1, <3>1, <3>2 DEF Exact
  <2>5. \A k \in Levels : cursor'[k] >= cursor[k]
    BY <1>1, <2>1
  <2>6. Image'
    BY <1>1, <2>1 DEF Image, Sane
  <2>. QED  BY <2>2, <2>3, <2>4, <2>5, <2>6 DEF IInv
<1>. QED  BY <1>6, <1>7

\* A torn write leaves a slot that fails its CRC, or one that is cut off.
LEMMA TornAckSound ==
  ASSUME Plain, IInv, NEW l \in Levels, NEW s \in Base .. Base + MaxCount - 1, TornAck(l, s)
  PROVE  IInv' /\ (Exact => Exact')
<1>. USE SequentialAssumption
<1>1. /\ up /\ durable /\ Types /\ Behind /\ restarts < MaxRestarts
      /\ up' = FALSE /\ cursor' = Everyone(0) /\ known' = 0
      /\ torn' = TRUE /\ restarts' = restarts + 1 /\ UNCHANGED <<durable, standby, count, stored, acked>>
      /\ acked \in [Levels -> 0 .. MaxCount]
  BY DEF TornAck, role, IInv, Types
<1>2. /\ file \in FileType /\ file.old = BAD /\ \A k \in Levels : file.slot[k] <= acked[k]
  BY <1>1 DEF Types, Behind
<1>3. file' \in FileType /\ file'.old = BAD /\ \A k \in Levels : file'.slot[k] <= acked[k]
  <2>1. CASE file' = [file EXCEPT !.slot[l] = BAD]
    <3>. DEFINE t == [file.slot EXCEPT ![l] = BAD]
    <3>1. t \in [Levels -> BAD .. MaxCount] /\ \A k \in Levels : t[k] <= acked[k]
      BY <1>1, <1>2 DEF FileType, BAD
    <3>2. file' = [file EXCEPT !.slot = t]
      BY <2>1
    <3>. HIDE DEF t
    <3>. QED  BY <1>2, <3>1, <3>2 DEF FileType
  <2>2. ASSUME file.len < SlotEnd(l), NEW n \in {2, 6},
               file' = [file EXCEPT !.len = Max({@, SlotEnd(l) - RECORD_SIZE + n})]
        PROVE  file' \in FileType /\ file'.old = BAD /\ \A k \in Levels : file'.slot[k] <= acked[k]
    <3>. DEFINE e == SlotEnd(l) - RECORD_SIZE + n
    <3>1. l \in 0 .. 9 /\ VERSION11_FILELENGTH = 130
      BY DEF MAX_LEVEL, VERSION11_FILELENGTH, HEAD_SIZE, RECORD_SIZE
    <3>2. e \in 0 .. 130 /\ file.len \in 0 .. 130
      BY <1>2, <3>1 DEF SlotEnd, HEAD_SIZE, RECORD_SIZE, FileType
    <3>3. file' = [file EXCEPT !.len = Max({file.len, e})]
      BY <2>2
    <3>. HIDE DEF e
    <3>4. e \in Int /\ file.len \in Int
      BY <3>2
    <3>5. Max({file.len, e}) = IF file.len >= e THEN file.len ELSE e
      BY <3>4, MaxOfPair
    <3>6. Max({file.len, e}) \in 0 .. 130
      BY <3>2, <3>5
    <3>. QED  BY <1>2, <3>1, <3>3, <3>6 DEF FileType
  <2>. QED  BY <2>1, <2>2 DEF TornAck
<1>4. cursor' \in [Levels -> 0 .. MaxCount] /\ \A k \in Levels : cursor'[k] <= acked[k]
  BY <1>1 DEF Everyone
<1>5. Types'
  <2>1. restarts' \in 0 .. MaxRestarts /\ known' \in 0 .. MaxCount
    BY <1>1 DEF Types
  <2>2. up' \in BOOLEAN /\ torn' \in BOOLEAN
    BY <1>1, Zenon
  <2>. QED  BY <1>1, <1>3, <1>4, <2>1, <2>2 DEF Types, Seqs
<1>6. Behind'
  BY <1>1, <1>3, <1>4 DEF Behind
<1>7. Image' /\ (Exact => Exact')
  BY <1>1 DEF Exact, Image
<1>. QED  BY <1>5, <1>6, <1>7 DEF IInv

LEMMA CrashSound == Plain /\ IInv /\ Crash => IInv' /\ (Exact => Exact')
<1>. USE SequentialAssumption
<1>. SUFFICES ASSUME Plain, IInv, Crash PROVE IInv' /\ (Exact => Exact')
  OBVIOUS
<1>1. /\ up /\ Types /\ Behind /\ Image /\ restarts < MaxRestarts
      /\ up' = FALSE /\ cursor' = Everyone(0) /\ known' = 0
      /\ restarts' = restarts + 1 /\ UNCHANGED <<durable, standby, count, stored, acked, file, torn>>
      /\ acked \in [Levels -> 0 .. MaxCount]
  BY DEF Crash, role, IInv, Types, Plain
<1>2. cursor' \in [Levels -> 0 .. MaxCount] /\ \A k \in Levels : cursor'[k] <= acked[k]
  BY <1>1 DEF Everyone
<1>3. Types'
  <2>1. restarts' \in 0 .. MaxRestarts /\ known' \in 0 .. MaxCount
    BY <1>1 DEF Types
  <2>2. up' \in BOOLEAN
    BY <1>1, Zenon
  <2>. QED  BY <1>1, <1>2, <2>1, <2>2 DEF Types, Seqs
<1>4. Behind'
  BY <1>1, <1>2 DEF Behind
<1>5. Exact => Exact'
  <2>. SUFFICES ASSUME Exact, ~standby PROVE Exact'
    BY <1>1 DEF Exact
  <2>1. durable /\ ~torn => Whole(file)'
    <3>1. durable /\ ~torn => Whole(file)
      BY DEF Exact
    <3>. QED  BY <1>1, <3>1 DEF Whole
  <2>. QED  BY <1>1, <2>1 DEF Exact
<1>6. Image'
  BY <1>1 DEF Image, Sane
<1>. QED  BY <1>3, <1>4, <1>5, <1>6 DEF IInv

-----------------------------------------------------------------------------
(* The invariants *)

LEMMA NextSound ==
  ASSUME Plain, IInv, [Next]_vars
  PROVE  IInv' /\ (Exact => Exact')
<1>1. CASE UNCHANGED vars
  <2>1. IInv'
    BY <1>1 DEF vars, role, IInv, Types, Behind, Image, Sane, Seqs
  <2>2. Exact => Exact'
    BY <1>1 DEF vars, role, Exact, Whole
  <2>. QED  BY <2>1, <2>2
<1>. QED
  BY <1>1, OpenSound, TornOpenSound, AddSound, AckSound, TornAckSound, CrashSound DEF Next

THEOREM Invariance == Plain => (Spec => []IInv)
<1>. SUFFICES ASSUME Plain PROVE Spec => []IInv
  OBVIOUS
<1>1. Init => IInv
  BY InitSound
<1>2. IInv /\ [Next]_vars => IInv'
  BY NextSound
<1>. QED  BY <1>1, <1>2, PTL DEF Spec

THEOREM ExactInvariance == Plain => (Spec => []Exact)
<1>. SUFFICES ASSUME Plain PROVE Spec => []Exact
  OBVIOUS
<1>1. Init => Exact
  BY InitSound
<1>2. IInv /\ Exact /\ [Next]_vars => Exact'
  BY NextSound
<1>3. Spec => []IInv
  BY Invariance
<1>. QED  BY <1>1, <1>2, <1>3, PTL DEF Spec

\* Every variable keeps its type, on a primary and on a standby.
THEOREM TypeCorrect == Plain => (Spec => []TypeOK)
<1>1. IInv => TypeOK
  BY DEF IInv, Types, TypeOK
<1>. QED  BY <1>1, Invariance, PTL

\* No record that its consumer has not reached is taken for acknowledged, whatever
\* writes are torn, on a primary and on a standby (init, ackRecord).
THEOREM NoInventedAckCorrect == Plain => (Spec => []NoInventedAck)
<1>. SUFFICES ASSUME Plain PROVE Spec => []NoInventedAck
  OBVIOUS
<1>1. IInv => NoInventedAck
  <2>. SUFFICES ASSUME IInv, NEW s \in Seqs, Answer(s) PROVE s <= acked[stored[s]]
    BY DEF NoInventedAck
  <2>. DEFINE l == stored[s]
  <2>1. /\ l \in Levels /\ count \in 0 .. MaxCount /\ s \in Int
        /\ cursor[l] \in Int /\ acked[l] \in Int /\ cursor[l] <= acked[l]
    <3>1. Types /\ Behind /\ Base = 1
      BY DEF IInv, Plain
    <3>2. l \in Levels /\ count \in 0 .. MaxCount
      BY <3>1 DEF Types
    <3>3. s \in Int
      BY <3>1, <3>2 DEF Seqs
    <3>. QED  BY <3>1, <3>2, <3>3 DEF Types, Behind
  <2>2. s <= cursor[l]
    BY DEF Answer, isRecordAcked
  <2>. HIDE DEF l
  <2>3. s <= acked[l]
    BY <2>1, <2>2
  <2>. QED  BY <2>3 DEF l
<1>2. Spec => []IInv
  BY Invariance
<1>. QED  BY <1>1, <1>2, PTL

\* On a primary, until a write is torn, the answers are exactly the acknowledgements.
THEOREM AnswersAreExactCorrect == Plain => (Spec => []AnswersAreExact)
<1>1. Exact => AnswersAreExact
  BY DEF Exact, AnswersAreExact, Answer, isRecordAcked
<1>. QED  BY <1>1, ExactInvariance, PTL

\* Until a write is torn, the file of an open index is a valid image of the cursors,
\* on a primary and on a standby.
THEOREM FileIsTheIndexCorrect == Plain => (Spec => []FileIsTheIndex)
<1>1. IInv => FileIsTheIndex
  BY DEF IInv, Image, Sane, FileIsTheIndex, Valid
<1>. QED  BY <1>1, Invariance, PTL

\* No step of an open index moves a cursor back.
THEOREM NeverGoesBackCorrect == Plain => (Spec => NeverGoesBack)
<1>. SUFFICES ASSUME Plain PROVE Spec => NeverGoesBack
  OBVIOUS
<1>1. IInv /\ [Next]_vars => [up /\ up' => \A l \in Levels : cursor'[l] >= cursor[l]]_vars
  <2>. SUFFICES ASSUME IInv, Next, up, up', NEW l \in Levels
                PROVE  cursor'[l] >= cursor[l]
    OBVIOUS
  <2>1. cursor[l] \in Int
    BY SequentialAssumption DEF IInv, Types
  <2>2. ASSUME NEW k \in Levels, NEW s \in Base .. Base + MaxCount - 1, ackRecord(k, s)
        PROVE  cursor'[l] >= cursor[l]
    BY <2>2, AckSound
  <2>3. CASE (\E k \in Levels : StoreAdd(k)) \/ addRecord
    BY <2>1, <2>3 DEF StoreAdd, addRecord
  <2>. QED  BY <2>2, <2>3 DEF Next, Open, TornOpen, TornAck, Crash
<1>2. Spec => []IInv
  BY Invariance
<1>. QED  BY <1>1, <1>2, PTL DEF Spec, NeverGoesBack
=============================================================================
