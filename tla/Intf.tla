-------------------------------- MODULE Intf --------------------------------
(***************************************************************************)
(* Values of type interface{}: WriteIntf and GuessSize of msgp/write.go,   *)
(* AppendIntf of msgp/write_bytes.go, ReadIntf of msgp/read.go and         *)
(* ReadIntfBytes of msgp/read_bytes.go; and msgp.Number.                   *)
(*                                                                         *)
(* A value is a pair of its Go type and its contents: integers are words   *)
(* of Ints, an array a sequence of values, a map a set of pairs of key and *)
(* value, an extension its type and data.  "stream" is the side of Writer  *)
(* and Reader, "bytes" the side of the Append and Read...Bytes functions.  *)
(* What a map is written as depends on Go's order of its keys, so a writer *)
(* has a set of encodings.                                                 *)
(***************************************************************************)
EXTENDS Codec, FiniteSets, FiniteSetsExt

S == INSTANCE SequencesExt

Sides == {"stream", "bytes"}

(* One of each set, in order.                                              *)
Catenations(sets) ==
  S!FoldLeft(LAMBDA acc, set : {a \o b : a \in acc, b \in set}, {<<>>}, sets)

(* WriteExtension knows the five fixext prefixes, AppendExtension uses     *)
(* none of them.                                                           *)
WriteExtension(typ, data) ==
  LET fixext == [k \in {1, 2, 4, 8, 16} |->
        CASE k = 1 -> 212 [] k = 2 -> 213 [] k = 4 -> 214
          [] k = 8 -> 215 [] k = 16 -> 216]
  IN  IF Len(data) \in DOMAIN fixext THEN <<fixext[Len(data)], typ>> \o data
      ELSE AppendExtension(typ, data)

(* The cases of WriteIntf and AppendIntf that are no container.            *)
Simple(side, i) ==
  LET x == i[2] IN
  CASE i[1] = "nil"       -> AppendNil
    [] i[1] = "bool"      -> AppendBool(x)
    [] i[1] = "int"       -> AppendInt64(x)
    [] i[1] = "uint"      -> AppendUint64(x)
    [] i[1] = "float32"   -> AppendFloat32(x)
    [] i[1] = "float64"   -> AppendFloat64(x)
    [] i[1] = "complex64" -> AppendComplex64(x)
    [] i[1] = "complex128" -> AppendComplex128(x)
    [] i[1] = "str"       -> AppendString(x)
    [] i[1] = "bin"       -> AppendBytes(x)
    [] i[1] = "time"      -> AppendTime(x)
    [] i[1] = "ext" /\ side = "stream" -> WriteExtension(x[1], x[2])
    [] i[1] = "ext" /\ side = "bytes"  -> AppendExtension(x[1], x[2])

RECURSIVE AppendIntf(_, _)
AppendIntf(side, i) ==
  LET x == i[2] IN
  CASE i[1] = "array" ->
         Catenations(<<{AppendArrayHeader(Len(x))}>>
                     \o [k \in 1..Len(x) |-> AppendIntf(side, x[k])])
    [] i[1] = "map" ->
         UNION {Catenations(<<{AppendMapHeader(Cardinality(x))}>>
                  \o [k \in 1..Len(p) |->
                        {AppendString(p[k][1]) \o e : e \in AppendIntf(side, p[k][2])}])
                : p \in S!SetToSeqs(x)}
    [] OTHER -> {Simple(side, i)}

-----------------------------------------------------------------------------
(* NextType of the Reader has all of the prefix before it decides.         *)
NextTypeOf(side, b) ==
  IF side = "bytes" \/ b = <<>> THEN NextType(b)
  ELSE IF getType(b[1]) # "ext" THEN getType(b[1])
  ELSE IF Len(b) < 2 \/ (sizes[b[1]].extra # 0 /\ Len(b) < sizes[b[1]].size)
    THEN "short"
  ELSE NextType(b \o <<0>> \o [k \in 1..sizes[b[1]].size |-> 0])

(* ReadExtension of the Reader, which looks at the type of an empty ext8,  *)
(* and ReadExtensionBytes, which does not.                                 *)
ReadExtension(side, b, typ) ==
  IF side = "stream" /\ Len(b) >= 3 /\ b[1] = mext8 /\ b[3] # typ
    THEN Fail(0, "ext") ELSE ReadExtensionBytes(b, typ)

Typed(t, r) == IF r.err = "none" THEN [r EXCEPT !.v = <<t, @>>]
                                 ELSE [r EXCEPT !.v = <<"nil", <<>>>>]

(* The keys of a map in a stream are strings, those in a slice may be bin. *)
ReadKey(side, b) == IF side = "stream" THEN ReadStringZC(b) ELSE ReadMapKeyZC(b)

(* ReadIntf and ReadIntfBytes.  With an error nil stands for what is      *)
(* returned, a part of a container included.                               *)
(* acc is what has been read, with the error that ends it.                 *)
RECURSIVE ReadIntf(_, _)
RECURSIVE ReadElements(_, _, _, _)
RECURSIVE ReadMapStrIntf(_, _, _, _)
ReadElement(acc, r) == [v |-> Append(acc.v, r.v), n |-> acc.n + r.n, err |-> r.err]
ReadElements(side, b, left, acc) ==
  IF acc.err # "none" \/ left = 0 THEN acc
  ELSE ReadElements(side, b, left - 1, ReadElement(acc, ReadIntf(side, From(b, acc.n))))
ReadValue(acc, k, r) ==
  [v |-> {p \in acc.v : p[1] # k.v} \cup {<<k.v, r.v>>},
   n |-> acc.n + k.n + r.n, err |-> r.err]
ReadPair(side, b, acc, k) ==
  IF k.err # "none" THEN Fail(acc.n + k.n, k.err)
  ELSE ReadValue(acc, k, ReadIntf(side, From(b, acc.n + k.n)))
ReadMapStrIntf(side, b, left, acc) ==
  IF acc.err # "none" \/ left = 0 THEN acc
  ELSE ReadMapStrIntf(side, b, left - 1,
                      ReadPair(side, b, acc, ReadKey(side, From(b, acc.n))))

(* An object that NextType says is a t.                                    *)
ReadAs(side, b, t) ==
  IF b = <<>> \/ t = "short" THEN Typed("nil", Fail(0, "short"))
  ELSE CASE t = "array" ->
              LET h == ReadArrayHeaderBytes(b) IN
              Typed(t, ReadElements(side, b, h.v, [h EXCEPT !.v = <<>>]))
         [] t = "map" ->
              LET h == ReadMapHeaderBytes(b) IN
              Typed(t, ReadMapStrIntf(side, b, h.v, [h EXCEPT !.v = {}]))
         [] t = "int"       -> Typed(t, ReadInt64Bytes(b))
         [] t = "uint"      -> Typed(t, ReadUint64Bytes(b))
         [] t = "bool"      -> Typed(t, ReadBoolBytes(b))
         [] t = "float32"   -> Typed(t, ReadFloat32Bytes(b))
         [] t = "float64"   -> Typed(t, ReadFloat64Bytes(b))
         [] t = "complex64" ->
              Typed(t, ReadComplexBytes(b, 10, mfixext8, Complex64Extension))
         [] t = "complex128" ->
              Typed(t, ReadComplexBytes(b, 18, mfixext16, Complex128Extension))
         [] t = "time"      -> Typed(t, ReadTimeBytes(b))
         [] t = "nil"       -> Typed(t, ReadNilBytes(b))
         [] t = "bin"       -> Typed(t, readBytesBytes(b))
         [] t = "str"       -> Typed(t, ReadStringZC(b))
         [] t = "ext"       ->
              LET p == peekExtension(b)
                  r == ReadExtension(side, b, p.v)
              IN  IF p.err # "none" THEN Typed(t, p)
                  ELSE Typed(t, [r EXCEPT !.v = <<p.v, @>>])
         [] OTHER -> Typed("nil", Fail(1, "invalid"))
ReadIntf(side, b) == ReadAs(side, b, NextTypeOf(side, b))

(* GuessSize: what is no simple value and no map of interface{} is 512.    *)
RECURSIVE GuessSize(_)
GuessSize(i) ==
  CASE i[1] \in {"nil", "bool"} -> 1
    [] i[1] = "float32" -> 5
    [] i[1] \in {"int", "uint", "float64"} -> 9
    [] i[1] = "complex64" -> 10
    [] i[1] = "complex128" -> 18
    [] i[1] \in {"str", "bin"} -> 5 + Len(i[2])
    [] i[1] = "ext" -> 6 + Len(i[2][2])
    [] i[1] = "map" ->
         5 + MapThenSumSet(LAMBDA p : 5 + Len(p[1]) + GuessSize(p[2]), i[2])
    [] OTHER -> 512

-----------------------------------------------------------------------------
(* msgp.Number: typ and bits.  An int64 of 0 has no type.                  *)
Zero64 == [k \in 1..8 |-> 0]
AsInt(i) == IF i = Zero64 THEN <<"invalid", i>> ELSE <<"int", i>>

MarshalNumber(num) ==
  IF num[1] = "invalid" THEN AppendInt64(Zero64) ELSE Simple("bytes", num)

(* DecodeMsg and UnmarshalMsg.  An error leaves the number as it was.      *)
SetNumber(t, r, old) ==
  IF r.err # "none" THEN [v |-> old, n |-> 0, err |-> r.err]
  ELSE Ok(IF t = "int" THEN AsInt(r.v) ELSE <<t, r.v>>, r.n)
UnmarshalNumber(side, b, old) ==
  LET t == NextTypeOf(side, b) IN
  SetNumber(t, CASE t = "int"     -> ReadInt64Bytes(b)
                 [] t = "uint"    -> ReadUint64Bytes(b)
                 [] t = "float32" -> ReadFloat32Bytes(b)
                 [] t = "float64" -> ReadFloat64Bytes(b)
                 [] OTHER         -> Fail(0, "type"), old)

NumberSize(num) ==
  CASE num[1] = "float32" -> 5 [] num[1] = "invalid" -> 1 [] OTHER -> 9
=============================================================================
