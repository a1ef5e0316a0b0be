---------------------------- MODULE LevelIndex ----------------------------
(***************************************************************************)
(* The level (priority) index of a record store                            *)
(* (src/include/util/VariableRecordStoreBase.h).                           *)
(*                                                                         *)
(* A record has a level 0..9, 4 by default.  Records of another level are  *)
(* listed per level; those of the default level are kept as ranges, because *)
(* almost every record is one.  add() extends the index record by record.  *)
(* After a restart the index starts as one range of the default level over *)
(* all records, and a walk over the data files moves each record of another *)
(* level out of it.                                                        *)
(*                                                                         *)
(* add() runs under the store's lock and the walk inside init(), before the *)
(* store is used, so an action is one add or one record of the walk; the   *)
(* process may die at any time.                                            *)
(***************************************************************************)
EXTENDS FiniteSetsExt

CONSTANTS
  Base,         \* m_baseSequence
  Levels,       \* the levels that producers use
  MaxCount,     \* bound: records of the store
  MaxRestarts   \* bound: process crashes

DEFAULT_LEVEL == 4
MAX_LEVEL == 9

ASSUME LevelAssumption ==
  /\ Base \in Nat
  /\ Levels \subseteq 0 .. MAX_LEVEL
  /\ MaxCount \in Nat
  /\ MaxRestarts \in Nat

VARIABLES
  phase,         \* "closed", "walking" the data files in init, or "running"
  count,         \* m_recordCount, as the index file has it
  stored,        \* the level in the data file of each record: it survives
  walked,        \* records the walk has passed
  defaultRanges, \* m_defaultLevelRecord: first |-> last
  levelRecords,  \* m_levelRecords, a vector filled in ascending order, as a set
  priority,      \* m_recordPriority: sequence |-> level
  restarts

index == <<defaultRanges, levelRecords, priority>>
vars == <<phase, count, stored, walked, index, restarts>>

Others == Levels \ {DEFAULT_LEVEL}
Seqs == Base .. Base + count - 1
Walked == Base .. Base + walked - 1
Indexed == IF phase = "running" THEN Seqs ELSE Walked

Last(m) == Max(DOMAIN m)  \* the key at rbegin()
Covers(m, s) == \E k \in DOMAIN m : k <= s /\ s <= m[k]

Put(m, k, e) == [x \in DOMAIN m \cup {k} |-> IF x = k THEN e ELSE m[x]]
Drop(m, k) == Restrict(m, DOMAIN m \ {k})
Emplace(m, k, e) == IF k \in DOMAIN m THEN m ELSE Put(m, k, e)

EmptyMap == [x \in {} |-> 0]
NoLists == [l \in Levels |-> {}]

-----------------------------------------------------------------------------
(* Changes *)

Listed(s, l) ==
  /\ levelRecords' = [levelRecords EXCEPT ![l] = @ \cup {s}]
  /\ priority' = Emplace(priority, s, l)

\* Mutant: a default record always extends the last range.
AppendedAlways(m, s) == IF m = EmptyMap THEN Put(m, s, s) ELSE [m EXCEPT ![Last(m)] = s]

\* The new range of default records after s has been appended.
Appended(m, s) ==
  IF DOMAIN m # {} /\ m[Last(m)] + 1 = s
    THEN [m EXCEPT ![Last(m)] = s]
    ELSE Emplace(m, s, s)

\* Mutant: a record in the middle of the range takes its right neighbour along.
CutOffByOne(m, s) ==
  LET first == Last(m)  end == m[first] IN
  IF s = first THEN IF s < end THEN m ELSE Drop(m, first)
  ELSE IF s = end THEN [m EXCEPT ![first] = end - 1]
  ELSE Put([m EXCEPT ![first] = s - 1], s + 2, end)

\* The ranges without s, a record of the last one.  When s starts a range of
\* several, the code inserts [s+1, end] and then erases through a reverse
\* iterator that now denotes the inserted range: the ranges stay as they were.
Cut(m, s) ==
  LET first == Last(m)  end == m[first] IN
  IF s = first THEN IF s < end THEN m ELSE Drop(m, first)
  ELSE IF s = end THEN [m EXCEPT ![first] = end - 1]
  ELSE Put([m EXCEPT ![first] = s - 1], s + 1, end)

\* addLevelInfo
AddLevelInfo(s, l) ==
  \/ /\ l = DEFAULT_LEVEL
     /\ defaultRanges' = Appended(defaultRanges, s)
     /\ UNCHANGED <<levelRecords, priority>>
  \/ /\ l # DEFAULT_LEVEL
     /\ Listed(s, l)
     /\ UNCHANGED defaultRanges

\* initRecordLevel and moveRecordLevel: s is moved when the last range has it.
InitRecordLevel(s, l) ==
  LET movable == /\ l # DEFAULT_LEVEL
                 /\ DOMAIN defaultRanges # {}
                 /\ Last(defaultRanges) <= s
                 /\ defaultRanges[Last(defaultRanges)] >= s
  IN  \/ /\ movable
         /\ defaultRanges' = Cut(defaultRanges, s)
         /\ Listed(s, l)
      \/ ~movable /\ UNCHANGED index

-----------------------------------------------------------------------------
(* Actions *)

Init ==
  /\ phase = "closed"
  /\ count = 0 /\ stored = EmptyMap /\ walked = 0
  /\ defaultRanges = EmptyMap /\ levelRecords = NoLists /\ priority = EmptyMap
  /\ restarts = 0

\* init: one range over all records, counted from 1 whatever m_baseSequence is.
Open ==
  /\ phase = "closed"
  /\ phase' = "walking"
  /\ defaultRanges' = Emplace(EmptyMap, 1, count)
  /\ UNCHANGED <<count, stored, walked, levelRecords, priority, restarts>>

\* rebuildAttributeInfo, one record.
Walk ==
  /\ phase = "walking" /\ walked < count
  /\ InitRecordLevel(Base + walked, stored[Base + walked])
  /\ walked' = walked + 1
  /\ UNCHANGED <<phase, count, stored, restarts>>

WalkEnds ==
  /\ phase = "walking" /\ walked = count
  /\ phase' = "running"
  /\ UNCHANGED <<count, stored, walked, index, restarts>>

\* add: the record goes to the files, its level to the index.
Add(l) ==
  /\ phase = "running" /\ count < MaxCount
  /\ stored' = Put(stored, Base + count, l)
  /\ AddLevelInfo(Base + count, l)
  /\ count' = count + 1
  /\ UNCHANGED <<phase, walked, restarts>>

\* The process dies: the files stay, the members go.
Die ==
  /\ phase # "closed" /\ restarts < MaxRestarts
  /\ restarts' = restarts + 1
  /\ phase' = "closed" /\ walked' = 0
  /\ defaultRanges' = EmptyMap /\ levelRecords' = NoLists /\ priority' = EmptyMap
  /\ UNCHANGED <<count, stored>>

Next ==
  \/ Open
  \/ Walk
  \/ WalkEnds
  \/ \E l \in Levels : Add(l)
  \/ Die

Spec == Init /\ [][Next]_vars

-----------------------------------------------------------------------------
(* Queries *)

InDefault(s) == Covers(defaultRanges, s)

\* Mutant: the range before the cursor is looked at only when it goes on two
\* records behind it.
NextOfDefaultLate(cursor) ==
  LET m == defaultRanges
      later == {k \in DOMAIN m : k > cursor}
      around == {k \in DOMAIN m : k <= cursor /\ m[k] > cursor + 1}
  IN  IF around # {} THEN cursor + 1
      ELSE IF later = {} THEN 0 ELSE Min(later)

\* getFirstNoAckByLevel, default level: the range at the cursor or the one
\* before it goes on behind the cursor, or the next range is the answer.
NextOfDefault(cursor) ==
  LET m == defaultRanges
      before == {k \in DOMAIN m : k < cursor}
      later == {k \in DOMAIN m : k > cursor}
      around == ({cursor} \cap DOMAIN m) \cup (IF before = {} THEN {} ELSE {Max(before)})
  IN  IF \E k \in around : m[k] > cursor THEN cursor + 1
      ELSE IF later = {} THEN 0 ELSE Min(later)

\* getFirstNoAckByLevel, the other levels: upper_bound in the vector.
NextOfList(l, cursor) ==
  LET later == {s \in levelRecords[l] : s > cursor}
  IN  IF later = {} THEN 0 ELSE Min(later)

getFirstNoAckByLevel(l, cursor) ==
  IF l = DEFAULT_LEVEL THEN NextOfDefault(cursor) ELSE NextOfList(l, cursor)

\* Mutant: upper_bound instead of lower_bound.
checkDefaultLevelAfter(start, end) ==
  LET other == {s \in DOMAIN priority : s > start}
  IN  IF other = {} \/ Min(other) > end THEN 0 ELSE Min(other)

\* checkDefaultLevel: 0 for true, else the first record of another level.
checkDefaultLevel(start, end) ==
  LET other == {s \in DOMAIN priority : s >= start}
  IN  IF other = {} \/ Min(other) > end THEN 0 ELSE Min(other)

getRecordLevel(s) == IF s \in DOMAIN priority THEN priority[s] ELSE DEFAULT_LEVEL

-----------------------------------------------------------------------------
(* Properties *)

OfLevel(l) == {s \in Seqs : stored[s] = l}
NextStored(l, cursor) ==
  LET later == {s \in OfLevel(l) : s > cursor} IN IF later = {} THEN 0 ELSE Min(later)

\* Types.
TypeOK ==
  /\ phase \in {"closed", "walking", "running"}
  /\ count \in 0 .. MaxCount /\ walked \in 0 .. count /\ restarts \in 0 .. MaxRestarts
  /\ stored \in [Seqs -> Levels]
  /\ DOMAIN defaultRanges \subseteq Nat
  /\ \A k \in DOMAIN defaultRanges : defaultRanges[k] \in Nat
  /\ levelRecords \in [Levels -> SUBSET Seqs]
  /\ DOMAIN priority \subseteq Seqs

\* No record falls out of the index: once the walk has passed it or add() has
\* entered it, a default record is in a range and any other record in the list
\* of the level that its data file holds, and nowhere else in the lists
\* (moveRecordLevel, addLevelInfo; the record's level never changes).
NothingLost ==
  \A s \in Indexed :
    /\ stored[s] = DEFAULT_LEVEL => InDefault(s)
    /\ \A l \in Others : s \in levelRecords[l] <=> stored[s] = l
    /\ getRecordLevel(s) = stored[s]

\* The ranges never overlap or touch out of order, whatever is cut out of them:
\* lower_bound and the counts of getLevelBrief rest on it.
RangesDisjoint ==
  \A j, k \in DOMAIN defaultRanges : j < k => defaultRanges[j] < k

\* A consumer that asks for the next record of a level behind its cursor is
\* never sent past one: the answer is never beyond the next stored record.
NeverSkips ==
  phase = "running" =>
    \A l \in Levels : \A cursor \in 0 .. Base + count :
      LET wanted == NextStored(l, cursor)
          got    == getFirstNoAckByLevel(l, cursor)
      IN  /\ wanted # 0 => got \in cursor + 1 .. wanted
          /\ l # DEFAULT_LEVEL => got = wanted

\* checkDefaultLevel lets a whole range be sent at once exactly when every
\* record in it is of the default level, and else names the first other one.
CheckIsExact ==
  phase = "running" =>
    \A start, end \in Seqs : start <= end =>
      LET other == {s \in start .. end : stored[s] # DEFAULT_LEVEL}
      IN  checkDefaultLevel(start, end) = IF other = {} THEN 0 ELSE Min(other)

\* Until a restart, a record is in a default range exactly when its level is the
\* default one, so the brief's count is right (addLevelInfo).
DefaultIsExact ==
  phase = "running" /\ restarts = 0 => \A s \in Seqs : InDefault(s) <=> stored[s] = DEFAULT_LEVEL
=============================================================================
