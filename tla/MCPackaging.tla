---- MODULE MCPackaging ----
(* In each format, every type with one of a few neighbours before or behind it. *)
EXTENDS Packaging

UpTo(n, S) == UNION {[1 .. m -> S] : m \in 0 .. n}
\* No pair, one, or two with these keys.
Pairs(V) == {<<>>} \cup {<<<<<<120>>, v>>>> : v \in V} \cup {<<<<<<120>>, v>>, <<<<>>, w>>>> : v \in V, w \in V}
Of(T, S) == [type |-> T, values |-> S]

Common == <<
  Of(INT, {0, 9}), Of(INT8, {0, -1}), Of(FLOAT, {0, 7}), Of(STRING_, {<<>>, <<0>>, <<120>>, <<120, 9>>}),
  Of(List(INT), UpTo(2, {0, 9})), Of(List(FLOAT), UpTo(2, {0, 7})), Of(List(STRING_), UpTo(2, {<<>>, <<120, 9>>})),
  Of(List(List(STRING_)), UpTo(2, UpTo(2, {<<>>, <<120>>}))),
  Of(Map(STRING_), Pairs({<<>>, <<9, 120>>})), Of(Map(List(STRING_)), Pairs(UpTo(2, {<<120>>}))) >>

Integral == {NULL, [type |-> 2, val |-> -1], [type |-> 4, val |-> 0], [type |-> 6, val |-> 7]}
Strings == {[type |-> 8, val |-> <<>>], [type |-> 9, val |-> <<120>>]}
BinaryOnly == <<
  Of(VARIANT, Integral), Of(VARIANT, Strings), Of(Map(VARIANT), Pairs(Integral)), Of(Map(VARIANT), Pairs(Strings)),
  Of(List(Map(STRING_)), UpTo(2, Pairs({<<>>, <<9>>}))) >>

Group == Object(<<STRING_, INT, List(STRING_)>>)
JsonOnly == << Of(List(Group), UpTo(2, {<<<<>>, 0, <<>>>>, <<<<120>>, 1, <<<<9>>, <<0>>>>>>})) >>

Neighbours == << Of(INT, {9}), Of(STRING_, {<<120, 9>>}), Of(List(INT), {<<9, 0>>}) >>

Case(f, a, b) == [format |-> f, types |-> <<a.type, b.type>>, values |-> <<a.values, b.values>>]
CasesOf(f, S) == FlattenSeq([k \in DOMAIN S |-> FlattenSeq([n \in DOMAIN Neighbours |->
                   << Case(f, S[k], Neighbours[n]), Case(f, Neighbours[n], S[k]) >>])])

MCCases == CasesOf("ordered", Common \o BinaryOnly) \o CasesOf("unordered", Common \o BinaryOnly)
           \o CasesOf("withId", Common \o BinaryOnly) \o CasesOf("json", Common \o JsonOnly)
MCKnows(n) == SUBSET (1 .. n) \ {{}}
====
