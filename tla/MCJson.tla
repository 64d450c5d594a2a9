------------------------------- MODULE MCJson -------------------------------
(* Messages with the JSON they stand for.  Every object is built together  *)
(* with its tokens, which follow from the object and not from the code.    *)
(* odd names the sides whose text is known to be another one:              *)
(*  - WriteToJSON: the digits of a float64, the name "type" of an          *)
(*    extension, keys that are bin or empty;                               *)
(*  - both: invalid UTF-8, and line separators behind other text.          *)
EXTENDS Json

Obj(b, t, o) == [bytes |-> b, want |-> t, odd |-> o]
Both == {"stream", "bytes"}
Word(k) == <<0, 0, 0, 0, 0, 0, 0, k>>
Quote(t) == <<Tok("\"")>> \o t \o <<Tok("\"")>>

Nul == Obj(AppendNil, <<Tok("null")>>, {})
Yes == Obj(AppendBool(TRUE), <<Tok("true")>>, {})
One == Obj(<<1>>, <<Val("int", Word(1))>>, {})
Minus == Obj(<<208, 200>>, <<Val("int", <<255, 255, 255, 255, 255, 255, 255, 200>>)>>, {})
Big == Obj(<<206, 128, 0, 0, 0>>, <<Val("uint", <<0, 0, 0, 0, 128, 0, 0, 0>>)>>, {})
F32 == Obj(AppendFloat32(<<1, 2, 3, 4>>), <<Val("float", <<1, 2, 3, 4>>)>>, {})
F64 == LET d == <<1, 2, 3, 4, 5, 6, 7, 8>> IN
       Obj(AppendFloat64(d), <<Val("float", d)>>, {"stream"})
Str(s) == Obj(AppendString(s), Quote(Text(s)), {})
Str16(s) == Obj(<<218, 0, Len(s)>> \o s, Quote(Text(s)), {})
\* a, a quote, a two-byte rune, a control character, b
Mixed == Obj(AppendString(<<97, 34, 195, 169, 7, 98>>),
             Quote(<<Val("text", <<97>>), Val("escape", <<34>>), Val("text", <<195>>),
                     Val("text", <<169>>), Val("escape", <<7>>), Val("text", <<98>>)>>), {})
Separator == Obj(AppendString(<<97, 226, 128, 168, 98>>), <<>>, Both)
Invalid == Obj(AppendString(<<97, 255, 254, 98>>), <<>>, Both)
Bin(s) == Obj(AppendBytes(s), Base64(s), {})
Ext(t, s) == Obj(AppendExtension(t, s), writeExt(t, s, "\"type\":"), {"stream"})
Reg(s) == Obj(AppendExtension(9, s), <<Val("marshal", s)>>, {})
Time == LET u == [i \in 1..12 |-> i] IN Obj(AppendTime(u), <<Val("time", u)>>, {})
Complex == LET c == [i \in 1..8 |-> i] IN
  Obj(AppendComplex64(c), writeExt(Complex64Extension, c, "\"type\":"), {"stream"})

\* Objects one after the other, with commas or without.
Cat(os, sep) ==
  FoldLeft(LAMBDA a, o : [bytes |-> a.bytes \o o.bytes, odd |-> a.odd \cup o.odd,
             want |-> a.want \o (IF a.bytes = <<>> THEN <<>> ELSE sep) \o o.want],
           Obj(<<>>, <<>>, {}), os)
Arr(os) ==
  LET c == Cat(os, <<Tok(",")>>) IN
  Obj(AppendArrayHeader(Len(os)) \o c.bytes, <<Tok("[")>> \o c.want \o <<Tok("]")>>, c.odd)
Pair(k, v) == Obj(k.bytes \o v.bytes, k.want \o <<Tok(":")>> \o v.want, k.odd \cup v.odd)
Map(header, ps) ==
  LET c == Cat(ps, <<Tok(",")>>) IN
  Obj(header \o c.bytes, <<Tok("{")>> \o c.want \o <<Tok("}")>>, c.odd)
StreamOdd(o) == [o EXCEPT !.odd = @ \cup {"stream"}]

Nested == Map(<<130>>, <<Pair(Str(<<97>>), Arr(<<One, Arr(<<>>), Minus>>)),
                         Pair(Str16(<<98, 99>>), Map(<<128>>, <<>>))>>)
Plain ==
  { Cat(<<Nested, Nul, Big>>, <<>>),
    Cat(<<Map(<<222, 0, 1>>, <<Pair(Mixed, Bin(<<1, 2>>))>>), Time>>, <<>>) }
Wholes == Plain \cup
  { Cat(<<Arr(<<Mixed, Yes, F32>>), Str(<<>>)>>, <<>>),
    Cat(<<Arr(<<Reg(<<1>>), Reg(<<>>)>>), One>>, <<>>),
    Cat(<<F64, Ext(7, <<1, 2>>), Complex>>, <<>>),
    StreamOdd(Map(<<129>>, <<Pair(Bin(<<97>>), Arr(<<Nul>>))>>)),
    StreamOdd(Map(<<129>>, <<Pair(Str(<<>>), Nul)>>)),
    Cat(<<Separator, Invalid>>, <<>>) }

With(o, b, ok) == [bytes |-> b, want |-> o.want, odd |-> o.odd, whole |-> ok]
Cuts(o) == {With(o, SubSeq(o.bytes, 1, k), FALSE) : k \in 0..(Len(o.bytes) - 1)}
\* A byte that begins no object behind the last one, or in the place of any byte.
Behind(o) == With(o, o.bytes \o <<193>>, FALSE)
Breaks(o) ==
  {[With(o, SubSeq(o.bytes, 1, k) \o <<193>>, FALSE) EXCEPT !.odd = Both] :
     k \in 0..(Len(o.bytes) - 1)}

\* An extension of the type of a time that holds something else, at the end or not.
NoTime == Obj(AppendExtension(TimeExtension, <<1, 2>>), <<>>, Both)
NoTimes == {With(o, o.bytes, FALSE) : o \in {NoTime, Cat(<<One, NoTime, Nested>>, <<>>)}}

MCInputs ==
  UNION {{With(o, o.bytes, TRUE), Behind(o)} \cup Cuts(o) : o \in Wholes}
    \cup UNION {Breaks(o) : o \in Plain} \cup NoTimes
MCCut == UNION {Cuts(o) : o \in Wholes}
=============================================================================
