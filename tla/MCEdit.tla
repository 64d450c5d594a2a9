------------------------------- MODULE MCEdit -------------------------------
(* Maps with headers of every form, up to three pairs, values that hold    *)
(* strings and maps of their own, a key twice; and messages that are cut   *)
(* short, have a key that is no string, or are no map.                     *)
EXTENDS Edit

S == INSTANCE SequencesExt

A == <<97>>
B == <<98>>
C == <<99, 99>>
StrA == AppendString(A)
ArrayAB == <<146>> \o StrA \o AppendString(B)
MapB == <<129>> \o AppendString(B) \o <<192>>

Whole(header, pairs) ==
  [bytes |-> header \o S!FlattenSeq([i \in DOMAIN pairs |->
                         AppendString(pairs[i][1]) \o pairs[i][2]]),
   pairs |-> pairs, good |-> TRUE]
Fix(pairs) == Whole(AppendMapHeader(Len(pairs)), pairs)
Map16(pairs) == Whole(<<222, 0, Len(pairs)>>, pairs)
Map32(pairs) == Whole(<<223, 0, 0, 0, Len(pairs)>>, pairs)
Broken(bytes) == [bytes |-> bytes, pairs |-> <<>>, good |-> FALSE]

Three == << <<A, <<192>>>>, <<C, ArrayAB>>, <<B, MapB>> >>
Twice == << <<C, StrA>>, <<A, MapB>>, <<C, <<7>>>> >>

MCMessages ==
  {Fix(<<>>), Fix(Three), Map16(Twice), Map32(Three), Map16(SubSeq(Twice, 1, 1))}
  \cup {Broken(SubSeq(Map16(Twice).bytes, 1, k)) : k \in 0..(Len(Map16(Twice).bytes) - 1)}
  \cup {Broken(<<130, 196, 1, 97, 192>> \o StrA \o <<192>>), Broken(ArrayAB)}

MCKeys == {A, B, C}
MCVals == {<<192>>, <<161, 98>>, <<147, 1, 2, 3>>}

\* The good messages hold their pairs, and the values are objects.
EndsOf(b, pairs) ==
  LET at[j \in 0..Len(pairs)] ==
        IF j = 0 THEN ReadMapHeaderBytes(b).n
        ELSE at[j - 1] + Len(AppendString(pairs[j][1])) + Len(pairs[j][2])
  IN  at
ASSUME MCMessagesHold ==
  \A m \in MCMessages : m.good =>
    /\ EndsOf(m.bytes, m.pairs) \in [0..Len(m.pairs) -> Nat]
    /\ Marked(m.bytes, m.pairs, EndsOf(m.bytes, m.pairs))
ASSUME MCValsObjects == \A v \in MCVals : IsObject(v)
=============================================================================
