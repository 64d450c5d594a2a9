------------------------------ MODULE MCReader ------------------------------
(* Streams for the Reader: objects of every kind of prefix, nested, one    *)
(* after the other, cut short at every place, and with a prefix that no    *)
(* MessagePack object has.  Bodies are made of that byte, so that reading  *)
(* one as a prefix shows.                                                  *)
EXTENDS StreamReader, TLC

Pad(n) == [i \in 1..n |-> 193]
Leaf(h, n) == [bytes |-> h \o Pad(n), ends |-> 0 :> Len(h) + n]

Shift(ends, d) ==
  [p \in {e + d : e \in DOMAIN ends} |-> ends[p - d] + d]

\* Objects one after the other behind the prefix h.
Cat(h, os) ==
  FoldLeft(LAMBDA a, o : [bytes |-> a.bytes \o o.bytes,
                          ends |-> a.ends @@ Shift(o.ends, Len(a.bytes))],
           [bytes |-> h, ends |-> <<>>], os)
Node(h, os) ==
  LET c == Cat(h, os) IN [c EXCEPT !.ends = c.ends @@ (0 :> Len(c.bytes))]

Nil == Leaf(<<192>>, 0)
FixStr(n) == Leaf(<<160 + n>>, n)
Str8(n) == Leaf(<<217, n>>, n)
Str32(n) == Leaf(<<219, 0, 0, 0, n>>, n)
Bin8(n) == Leaf(<<196, n>>, n)
Bin16(n) == Leaf(<<197, 0, n>>, n)
Uint64Big == Leaf(<<207, 255>>, 7)
Int16 == Leaf(<<209>>, 2)
Float32 == Leaf(<<202>>, 4)
Float64 == Leaf(<<203>>, 8)
Ext8(t, n) == Leaf(<<199, n, t>>, n)
Ext16(t, n) == Leaf(<<200, 0, n, t>>, n)
Ext32(t, n) == Leaf(<<201, 0, 0, 0, n, t>>, n)
FixExt4(t) == Leaf(<<214, t>>, 4)
Complex64 == Leaf(<<215, 3>>, 8)
Complex128 == Leaf(<<216, 4>>, 16)
Time == Leaf(<<199, 12, 5>>, 12)
FixArray(os) == Node(<<144 + Len(os)>>, os)
Array32(os) == Node(<<221, 0, 0, 0, Len(os)>>, os)
FixMap(os) == Node(<<128 + Len(os) \div 2>>, os)
Map16(os) == Node(<<222, 0, Len(os) \div 2>>, os)
Bad == Leaf(<<193>>, 0)

Wholes ==
  { Cat(<<>>, <<FixArray(<<Nil, FixStr(2), Bin8(3)>>), Float32>>),
    Cat(<<>>, <<FixMap(<<FixStr(1), Array32(<<Int16, Ext8(7, 1)>>)>>), Nil>>),
    Cat(<<>>, <<Map16(<<Bin16(2), Float64>>), Bin8(4), Uint64Big>>),
    Cat(<<>>, <<Str8(18), FixExt4(9)>>),
    Cat(<<>>, <<FixArray(<<Complex128>>), FixStr(0), Complex64>>),
    Cat(<<>>, <<Time, FixArray(<<>>), Str32(3), Ext16(7, 14)>>),
    Cat(<<>>, <<Float32, FixStr(3), Nil>>),
    Cat(<<>>, <<FixArray(<<FixStr(1), Bad, Nil>>), Nil>>) }

Cut(s, k) == [s EXCEPT !.bytes = SubSeq(s.bytes, 1, k)]
MCStreams == UNION {{Cut(s, k) : k \in 0..Len(s.bytes)} : s \in Wholes}

MCMethods == {"Skip", "CopyNext", "appendNext", "ReadIntf", "ReadMapKey",
              "ReadMapKeyPtr", "ReadExactBytes", "ReadInt64", "ReadFloat64"}

\* Extensions with a 32-bit length.
MCExt32 == {Cat(<<>>, <<FixArray(<<Ext32(7, 1)>>), Nil>>)}

\* The streams are well formed: Path holds with the marks one walks over.
Walk(ends, a, k, b) ==
  LET m[i \in 0..k] == IF i = 0 THEN a ELSE ends[m[i - 1]]
  IN  m \in [0..k -> Nat] /\ Marks(ends, m, a, k, b)
ASSUME MCStreamsFramed == \A s \in MCStreams \cup MCExt32 : Framed(s, Walk)
ASSUME MCStreamsNoExt32 == \A s \in MCStreams : NoExt32(s)
=============================================================================
