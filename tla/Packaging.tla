------------------------------ MODULE Packaging ------------------------------
(***************************************************************************)
(* Parameters of calls and messages, written to a buffer and read back     *)
(* (src/include/util/PackageParameters.h, UnpackageParameters.h,           *)
(* UnpackageUnorderedParameters.h), or written as JSON (JsonSerialize.h).  *)
(*                                                                         *)
(* A parameter has a static type and a field number.  There are three      *)
(* readers of the binary form: one wants all parameters in their order;    *)
(* one takes them in any order; and one also goes over fields that it does *)
(* not know, and its writer leaves out zeros and empty strings.            *)
(*                                                                         *)
(* The stream is a sequence of tokens: a tag, a length, a number, or one   *)
(* byte of a string or a float.  They are not marked: a reader that lost   *)
(* its way takes one for the other.  A length counts the tokens behind it. *)
(***************************************************************************)
EXTENDS SequencesExt, FiniteSetsExt, Integers

CONSTANTS
  Cases,   \* a sequence of [format, types, values]: two parameters and sets of their values
  Knows(_) \* the sets of fields that readers by identity may know, of n

INT == [t |-> "int"]
INT8 == [t |-> "int8"]
FLOAT == [t |-> "float"]
STRING_ == [t |-> "string"]
VARIANT == [t |-> "variant"]
List(T) == [t |-> "list", of |-> T]
Map(T) == [t |-> "map", of |-> T]           \* keys are strings
Object(Ts) == [t |-> "object", of |-> Ts]   \* AccountInfo, GroupInfo...

\* vectors, sets, queues... are lists
isContainer(T) == T.t \in {"list", "map"}

Binary == {"ordered", "unordered", "withId"}

ASSUME PackagingAssumption ==
  \A n \in DOMAIN Cases : Cases[n].format \in Binary \cup {"json"} /\ Len(Cases[n].types) = 2

VARIABLES
  format, types, values, \* what is written, and how
  known,  \* the fields that the reader knows
  phase,  \* "write", "read", "done" or "thrown"
  next,   \* the parameter that is written next; that is read next in order
  wire,   \* the buffer, or the members of the JSON object
  at,     \* position of the reader
  out,    \* the reader's variables
  cut     \* has the buffer lost its end?

given == <<format, types, values, known>>
vars == <<given, phase, next, wire, at, out, cut>>

NULL == [type |-> 0, val |-> 0]
Default(T) == CASE T.t \in {"int", "int8", "float"} -> 0
                [] T.t = "variant" -> NULL
                [] OTHER -> <<>>
Params == DOMAIN types

-----------------------------------------------------------------------------
(* Writing *)

VARINT == 0
DELIMITED == 2
FIXED32 == 5

WireType(T) == CASE T.t \in {"int", "int8"} -> VARINT [] T.t = "float" -> FIXED32 [] OTHER -> DELIMITED
Tag(i, T) == 8 * i + WireType(T)
Delimited(tokens) == <<Len(tokens)>> \o tokens

\* The type of a variant's value, by the number that getType gives.
TypeOf(n) == CASE n = 2 -> INT8 [] n = 4 -> INT [] n = 6 -> FLOAT [] n \in {8, 9} -> STRING_

Number(T, v) == IF T.t = "float" THEN <<v, 0, 0, 0>> ELSE <<v>>

\* put<false> leaves out a number that is 0, and an empty string.
PutNumber(i, T, v, force) ==
  IF v = 0 /\ ~force THEN <<>> ELSE <<Tag(i, T)>> \o Number(T, v)
PutString(i, v, force) ==
  IF v = <<>> /\ ~force THEN <<>> ELSE <<Tag(i, STRING_)>> \o Delimited(v)

\* A variant is a message of one field, whose number is the type; an empty one without.
NoTagVariant(v) ==
  Delimited(IF v = NULL THEN <<>>
            ELSE LET T == TypeOf(v.type) IN
                 IF T = STRING_ THEN PutString(v.type, v.val, TRUE) ELSE PutNumber(v.type, T, v.val, TRUE))

RECURSIVE put(_, _, _, _), putInVector(_, _, _)

\* Of a list each element gets a tag; of a map each pair, as a message of key and value.
put(i, T, v, force) ==
  CASE T.t \in {"int", "int8", "float"} -> PutNumber(i, T, v, force)
    [] T.t = "string"  -> PutString(i, v, force)
    [] T.t = "variant" -> <<Tag(i, T)>> \o NoTagVariant(v)
    [] T.t = "list"    -> FlattenSeq([k \in DOMAIN v |-> putInVector(i, T.of, v[k])])
    [] T.t = "map"     -> FlattenSeq([k \in DOMAIN v |->
                            <<Tag(i, T)>> \o Delimited(PutString(1, v[k][1], TRUE) \o put(2, T.of, v[k][2], TRUE))])

\* Mutant: zeros and empty strings are left out of lists, too.
putInVectorShort(i, T, v) ==
  IF isContainer(T) THEN <<Tag(i, T)>> \o Delimited(put(1, T, v, TRUE)) ELSE put(i, T, v, FALSE)

\* A list or map in a list is a message whose field 1 it is.
putInVector(i, T, v) ==
  IF isContainer(T) THEN <<Tag(i, T)>> \o Delimited(put(1, T, v, TRUE)) ELSE put(i, T, v, TRUE)

-----------------------------------------------------------------------------
(* Reading: "ok"; "no", which some callers ignore; or "thrown" *)

Ok(v, p) == [st |-> "ok", v |-> v, at |-> p]
No(v, p) == [st |-> "no", v |-> v, at |-> p]
Thrown == [st |-> "thrown"]

\* What is in a number that was never set.
GARBAGE == -99

Cast8(v) == ((v + 128) % 256) - 128

ReadNumber(T, s, p) ==
  LET n == IF T.t = "float" THEN 4 ELSE 1
  IN IF p + n - 1 > Len(s) THEN No(GARBAGE, Len(s) + 1)
     ELSE Ok(IF T.t = "int8" THEN Cast8(s[p]) ELSE s[p], p + n)

\* Mutant: a string that ends too early is taken for whole.
ReadStringShort(s, p) ==
  IF p > Len(s) THEN No(<<>>, p)
  ELSE Ok(SubSeq(s, p + 1, Min({Len(s), p + s[p]})), Min({Len(s), p + s[p]}) + 1)

\* As much of a string as there is.
ReadString(s, p) ==
  IF p > Len(s) THEN No(<<>>, p)
  ELSE IF s[p] > Len(s) - p THEN No(SubSeq(s, p + 1, Len(s)), Len(s) + 1)
  ELSE Ok(SubSeq(s, p + 1, p + s[p]), p + 1 + s[p])

\* A length and that many tokens; the reader that wants them all throws.
Message(s, p) ==
  IF p > Len(s) \/ s[p] > Len(s) - p THEN Thrown ELSE Ok(SubSeq(s, p + 1, p + s[p]), p + 1 + s[p])

ReadVariant(s, p) ==
  LET m == Message(s, p)
      T == TypeOf(m.v[1] \div 8)
  IN IF p > Len(s) THEN No(NULL, p)
     ELSE IF s[p] = 0 THEN Ok(NULL, p + 1)
     ELSE IF m = Thrown \/ m.v[1] = 0 THEN Thrown
     ELSE Ok([type |-> m.v[1] \div 8,
              val |-> IF T = STRING_ THEN ReadString(m.v, 2).v ELSE ReadNumber(T, m.v, 2).v], m.at)

\* CHECK_PARAMINDEX_EQ_FIELDNUMBER: the wire type is not compared.
IsField(i, s, p) == p <= Len(s) /\ s[p] # 0 /\ s[p] \div 8 = i

RECURSIVE ReadField(_, _, _, _), ReadElement(_, _, _), ReadRest(_, _, _, _)

\* read without a tag, for a scalar
ReadScalar(T, s, p) ==
  CASE T.t = "string" -> ReadString(s, p) [] T.t = "variant" -> ReadVariant(s, p) [] OTHER -> ReadNumber(T, s, p)

\* Mutant: a pair without a value is not expected.
readKeyValueBoth(T, s, p) ==
  LET m == Message(s, p)
      key == ReadField(1, STRING_, m.v, 1)
      val == ReadField(2, T, m.v, key.at)
  IN IF m = Thrown \/ key = Thrown \/ val = Thrown THEN Thrown ELSE Ok(<<key.v, val.v>>, m.at)

\* A pair; an empty list or map as the value is not there at all.
readKeyValue(T, s, p) ==
  LET m == Message(s, p)
      key == ReadField(1, STRING_, m.v, 1)
      val == IF key.at > Len(m.v) THEN Ok(Default(T), key.at) ELSE ReadField(2, T, m.v, key.at)
  IN IF m = Thrown \/ key = Thrown \/ val = Thrown THEN Thrown ELSE Ok(<<key.v, val.v>>, m.at)

\* readInVector
ReadElement(T, s, p) ==
  IF ~isContainer(T) THEN ReadScalar(T, s, p)
  ELSE LET m == Message(s, p)
           r == ReadField(1, T, m.v, 1)
       IN IF m = Thrown \/ r = Thrown THEN Thrown ELSE Ok(r.v, m.at)

\* The elements of a list, or pairs of a map, behind a tag, and on while the tag is the
\* same.  An element that could not be read is kept as it is; a key that is there stays.
ReadRest(T, s, p, acc) ==
  LET e == IF T.t = "list" THEN ReadElement(T.of, s, p) ELSE readKeyValue(T.of, s, p)
      old == T.t = "map" /\ \E k \in DOMAIN acc : acc[k][1] = e.v[1]
      now == IF old THEN acc ELSE Append(acc, e.v)
  IN IF e = Thrown THEN Thrown
     ELSE IF e.at <= Len(s) /\ s[e.at] = s[p - 1] THEN ReadRest(T, s, e.at + 1, now)
     ELSE Ok(now, e.at)

\* read with an index
ReadField(i, T, s, p) ==
  IF ~IsField(i, s, p) THEN Thrown
  ELSE IF isContainer(T) THEN ReadRest(T, s, p + 1, <<>>)
  ELSE LET r == ReadScalar(T, s, p + 1) IN IF r.st = "no" THEN Thrown ELSE r

\* readUnordered; for a variant it is empty.
readUnordered(T, s, p, old) ==
  IF T.t = "variant" THEN Ok(old, p)
  ELSE IF isContainer(T) THEN ReadRest(T, s, p, old)
  ELSE LET r == ReadScalar(T, s, p) IN IF r.st = "no" THEN Thrown ELSE r

\* WireFormatLite::SkipField; groups are never written, and taken for an error.
SkipField(tag, s, p) ==
  LET n == CASE tag % 8 = 0 -> 1 [] tag % 8 = 1 -> 8 [] tag % 8 = 5 -> 4
             [] tag % 8 = 2 /\ p <= Len(s) -> 1 + s[p] [] OTHER -> Len(s) + 1
  IN IF p + n - 1 > Len(s) THEN Thrown ELSE Ok(0, p + n)

-----------------------------------------------------------------------------
(* JSON: the members of the object are the parameters *)

RECURSIVE PutJsonValue(_, _), ReadJsonValue(_, _), GetJsonArrayItem(_, _, _)

\* c_str: up to the first 0.
CStr(v) == LET ends == {k \in DOMAIN v : v[k] = 0} IN IF ends = {} THEN v ELSE SubSeq(v, 1, Min(ends) - 1)

\* A map is an array of objects with a key and a value.
PutJsonValue(T, v) ==
  CASE T.t = "string" -> CStr(v)
    [] T.t = "list"   -> [k \in DOMAIN v |-> PutJsonValue(T.of, v[k])]
    [] T.t = "map"    -> [k \in DOMAIN v |-> [key |-> CStr(v[k][1]), value |-> PutJsonValue(T.of, v[k][2])]]
    [] T.t = "object" -> [k \in DOMAIN v |-> PutJsonValue(T.of[k], v[k])]
    [] OTHER -> v

\* The results, if all could be read.
Together(rs) == IF \E k \in DOMAIN rs : rs[k] = Thrown THEN Thrown
                ELSE Ok([k \in DOMAIN rs |-> rs[k].v], 1)

\* GetMapEntryItem
Pair(T, entry) == LET r == ReadJsonValue(T, entry.value)
                  IN IF r = Thrown THEN Thrown ELSE Ok(<<entry.key, r.v>>, 1)

\* The loop for a list in an array goes up to the length of the array that it is in.
\* (The one for a map in an array does not compile.)
GetJsonArrayItem(T, array, k) ==
  IF k \notin DOMAIN array THEN Thrown
  ELSE CASE T.t = "list"   -> Together([j \in DOMAIN array |-> GetJsonArrayItem(T.of, array[k], j)])
         [] T.t = "object" -> Together([j \in DOMAIN T.of |-> ReadJsonValue(T.of[j], array[k][j])])
         [] OTHER -> Ok(array[k], 1)

ReadJsonValue(T, json) ==
  CASE T.t = "list" -> Together([k \in DOMAIN json |-> GetJsonArrayItem(T.of, json, k)])
    [] T.t = "map"  -> Together([k \in DOMAIN json |-> Pair(T.of, json[k])])
    [] OTHER -> Ok(json, 1)

-----------------------------------------------------------------------------
(* The calls *)

Init ==
  /\ \E n \in DOMAIN Cases : format = Cases[n].format /\ types = Cases[n].types
                            /\ values \in {<<v, w>> : v \in Cases[n].values[1], w \in Cases[n].values[2]}
  /\ known \in IF format = "withId" THEN Knows(Len(types)) ELSE {Params}
  /\ phase = "write" /\ next = 1 /\ wire = <<>> /\ at = 1 /\ cut = FALSE
  /\ out = [i \in Params |-> Default(types[i])]

\* PackageParametersInternal, PackageParametersWithIdInternal: one parameter
Write ==
  /\ phase = "write" /\ next \in Params /\ format \in Binary
  /\ wire' = wire \o put(next, types[next], values[next], format # "withId")
  /\ next' = next + 1
  /\ UNCHANGED <<given, phase, at, out, cut>>

\* WriteToJsonInternal: one parameter
WriteToJson ==
  /\ phase = "write" /\ next \in Params /\ format = "json"
  /\ wire' = Append(wire, PutJsonValue(types[next], values[next]))
  /\ next' = next + 1
  /\ UNCHANGED <<given, phase, at, out, cut>>

\* The reader gets the buffer, or the beginning of it.
Send ==
  /\ phase = "write" /\ next \notin Params
  /\ phase' = "read" /\ next' = 1
  /\ \/ UNCHANGED <<wire, cut>>
     \/ /\ format \in Binary /\ cut' = TRUE
        /\ \E n \in 0 .. Len(wire) - 1 : wire' = SubSeq(wire, 1, n)
  /\ UNCHANGED <<given, at, out>>

Take(i, r) ==
  /\ IF r.st = "thrown" THEN phase' = "thrown" /\ UNCHANGED <<at, out>>
     ELSE phase' = "read" /\ at' = r.at /\ out' = [out EXCEPT ![i] = r.v]
  /\ UNCHANGED <<given, wire, cut>>

\* UnpackageOrderedParametersInternal: one parameter
ReadOrdered ==
  /\ phase = "read" /\ format = "ordered" /\ next \in Params
  /\ next' = next + 1
  /\ Take(next, ReadField(next, types[next], wire, at))

\* UNPACKAGE_PARAMETERS, UNPACKAGE_PARAMETERS_WITHID: one turn of the loop
ReadUnordered ==
  /\ phase = "read" /\ format \in {"unordered", "withId"}
  /\ at <= Len(wire) /\ wire[at] # 0
  /\ LET i == wire[at] \div 8 IN
     IF i \in known THEN Take(i, readUnordered(types[i], wire, at + 1, out[i]))
     ELSE LET r == IF format = "withId" THEN SkipField(wire[at], wire, at + 1) ELSE Thrown
          IN /\ IF r = Thrown THEN phase' = "thrown" /\ UNCHANGED at
                              ELSE at' = r.at /\ UNCHANGED phase
             /\ UNCHANGED <<given, wire, out, cut>>
  /\ UNCHANGED next

\* ReadJsonInternal: one parameter
ReadJson ==
  /\ phase = "read" /\ format = "json" /\ next \in Params
  /\ next' = next + 1
  /\ Take(next, ReadJsonValue(types[next], wire[next]))

Return ==
  /\ phase = "read"
  /\ IF format \in {"ordered", "json"} THEN next \notin Params ELSE at <= Len(wire) => wire[at] = 0
  /\ phase' = "done"
  /\ UNCHANGED <<given, next, wire, at, out, cut>>

Next == Write \/ WriteToJson \/ Send \/ ReadOrdered \/ ReadUnordered \/ ReadJson \/ Return

Spec == Init /\ [][Next]_vars

-----------------------------------------------------------------------------
(* Properties *)

isBare(T) == T.t = "variant"

\* No list or map in a list is empty.
RECURSIVE Filled(_, _), CFree(_, _)
Filled(T, v) ==
  CASE T.t = "list" -> \A k \in DOMAIN v : (isContainer(T.of) => v[k] # <<>>) /\ Filled(T.of, v[k])
    [] T.t = "map"  -> \A k \in DOMAIN v : Filled(T.of, v[k][2])
    [] OTHER -> TRUE

\* No string has a byte 0, and the lists in a list are as long as the list.
CFree(T, v) ==
  CASE T.t = "string" -> CStr(v) = v
    [] T.t = "list"   -> \A k \in DOMAIN v : CFree(T.of, v[k]) /\ (T.of.t = "list" => Len(v[k]) = Len(v))
    [] T.t = "map"    -> \A k \in DOMAIN v : CFree(STRING_, v[k][1]) /\ CFree(T.of, v[k][2])
    [] T.t = "object" -> \A k \in DOMAIN T.of : CFree(T.of[k], v[k])
    [] OTHER -> TRUE

\* What a format can carry.
Carries(T, v) ==
  CASE format = "json" -> CFree(T, v)
    [] format = "ordered" -> Filled(T, v) /\ (isContainer(T) => v # <<>>)
    [] OTHER -> Filled(T, v) /\ ~isBare(T)

\* What arrives whole and can be carried is never refused: whatever stands next to it,
\* and whatever fields the reader does not know.
RoundTrip ==
  ~cut /\ (\A i \in Params : Carries(types[i], values[i])) => phase # "thrown"

\* What arrives whole and is not refused is what was written.  (An empty list that the
\* format cannot carry is refused; a bare variant by identity and, in JSON, a byte 0 or
\* a list in a list of another length is read wrong.)
NeverWrong ==
  phase = "done" /\ ~cut
  /\ (\A i \in Params : IF format = "json" THEN CFree(types[i], values[i])
                        ELSE format = "ordered" \/ ~isBare(types[i]))
    => \A i \in known : out[i] = values[i]

\* A list or map of which a beginning arrived, and perhaps part of one element.
Beginning(i) ==
  /\ isContainer(types[i])
  /\ \E n \in 0 .. Len(values[i]) :
       Len(out[i]) \in {n, n + 1} /\ SubSeq(out[i], 1, n) = SubSeq(values[i], 1, n)

\* When the end of the buffer is lost, the reader throws, or all it has is right, but for
\* the list or map at which the buffer ends: no number or string is read from too few
\* bytes, and nothing is missing before something that is there.
CutIsNoticed ==
  phase = "done" /\ cut /\ (format = "ordered" \/ \A i \in Params : ~isBare(types[i]))
    => \A i \in known :
         \/ out[i] = values[i]
         \/ /\ Beginning(i)
            /\ \A j \in known : j > i => out[j] = Default(types[j]) /\ format # "ordered"
         \/ /\ format # "ordered" /\ out[i] = Default(types[i])
            /\ \A j \in known : j > i => out[j] = Default(types[j])

=============================================================================
