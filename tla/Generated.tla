------------------------------ MODULE Generated -----------------------------
(***************************************************************************)
(* The methods that gen/ prints for a type: EncodeMsg (gen/encode.go),     *)
(* DecodeMsg (gen/decode.go), MarshalMsg (gen/marshal.go), UnmarshalMsg    *)
(* (gen/unmarshal.go) and Msgsize (gen/size.go), with the blocks they take *)
(* from gen/spec.go.  The side "stream" is EncodeMsg and DecodeMsg, the    *)
(* side "bytes" MarshalMsg and UnmarshalMsg.                               *)
(*                                                                         *)
(* A type is a tree of gen/elem.go:                                        *)
(*   [k |-> "base", of |-> a primitive, "Number" or "Shim"]                *)
(*   [k |-> "slice" | "map" | "ptr", of |-> type]                          *)
(*   [k |-> "array", n |-> size, of |-> type]                              *)
(*   [k |-> "struct", tuple |-> AsTuple, fields |-> <<[tag, of], ...>>]    *)
(* An identity is the tree of the type it names: its method is printed     *)
(* from that tree.  The value of a slice is its array, up to its capacity, *)
(* and its length; of a map, a set of pairs; of a pointer, <<>> for nil or *)
(* <<pointee>>; of an array or struct, a sequence.                         *)
(*                                                                         *)
(* A behaviour writes messages, by the reader's version of the type or     *)
(* another, and reads them, cut short or whole, into one variable.         *)
(***************************************************************************)
EXTENDS Intf

CONSTANTS Scenarios,   \* <<[reader, starts, writers], ...>>: the reader's type,
                       \* what its variable may hold, and the messages, each
                       \* [type, val, own, fits]: is the type the reader's, is
                       \* it a version that the reader can read?
          Tails,       \* what may follow a message in a []byte
          MaxReads     \* bound on the reads of a behaviour

ASSUME GeneratedAssumption == MaxReads \in Nat /\ <<>> \in Tails

VARIABLES sc,       \* the scenario
          msg,      \* the last message: [w, side, bytes], w = 0 before the first
          target,   \* the variable that is decoded into
          was,      \* what it was before the last read
          got,      \* the last read: [side, cut, tail, n, err]
          reads     \* number of reads

vars == <<sc, msg, target, was, got, reads>>

R == Scenarios[sc].reader
Writer == Scenarios[sc].writers[msg.w]

IsByteArray(side, T) ==
  /\ T.k = "array" /\ T.of.k = "base"
  /\ T.of.of \in (IF side = "stream" THEN {"Byte", "Uint8"} ELSE {"Byte"})

-----------------------------------------------------------------------------
(* External: a shim in mode convert between a type and string.  The empty  *)
(* string is no value of the type.                                         *)
ToBase(v) == S!Reverse(v)
FromBase(s) == IF s = <<>> THEN Fail(0, "shim") ELSE Ok(S!Reverse(s), 0)

ExtensionType == 7

Uint8Word(x) == [k \in 1..8 |-> IF k = 8 THEN x ELSE 0]

(* gBase of encodeGen and marshalGen: the call for each primitive.         *)
EncBase(side, B, v) ==
  CASE B = "String" -> {AppendString(v)}
    [] B = "Bytes"  -> {AppendBytes(v)}
    [] B = "Bool"   -> {AppendBool(v)}
    [] B = "Int64"  -> {AppendInt64(v)}
    [] B = "Uint64" -> {AppendUint64(v)}
    [] B \in {"Byte", "Uint8"} -> {I!WriteUint8(Uint8Word(v))}
    [] B = "Complex64" -> {AppendComplex64(v)}
    [] B = "Intf"   -> AppendIntf(side, v)
    [] B = "Ext"    -> {Simple(side, <<"ext", <<ExtensionType, v>>>>)}
    [] B = "Number" -> {MarshalNumber(v)}
    [] B = "Shim"   -> {AppendString(ToBase(v))}

RECURSIVE Enc(_, _, _)

EncSeq(side, T, s) == [i \in 1..Len(s) |-> Enc(side, T, s[i])]

(* structAsTuple and structAsMap; tuple and mapstruct.                     *)
EncStruct(side, T, v) ==
  LET n == Len(T.fields) IN
  IF T.tuple
    THEN Catenations(<<{AppendArrayHeader(n)}>>
           \o [i \in 1..n |-> Enc(side, T.fields[i].of, v[i])])
    ELSE Catenations(<<{AppendMapHeader(n)}>>
           \o [i \in 1..n |-> {AppendString(T.fields[i].tag) \o e
                                 : e \in Enc(side, T.fields[i].of, v[i])}])

EncMap(side, T, v) ==
  UNION {Catenations(<<{AppendMapHeader(Cardinality(v))}>>
           \o [i \in 1..Len(p) |-> {AppendString(p[i][1]) \o e
                                     : e \in Enc(side, T.of, p[i][2])}])
         : p \in S!SetToSeqs(v)}

(* Mutant: nothing is written for a nil pointer.                           *)
EncPtrNothing(side, T, v) == IF v = <<>> THEN {<<>>} ELSE Enc(side, T.of, v[1])
EncPtr(side, T, v) == IF v = <<>> THEN {AppendNil} ELSE Enc(side, T.of, v[1])

EncSlice(side, T, v) ==
  Catenations(<<{AppendArrayHeader(v.len)}>>
              \o EncSeq(side, T.of, SubSeq(v.arr, 1, v.len)))

EncArray(side, T, v) ==
  IF IsByteArray(side, T) THEN {AppendBytes(v)}
  ELSE Catenations(<<{AppendArrayHeader(T.n)}>> \o EncSeq(side, T.of, v))

Enc(side, T, v) ==
  CASE T.k = "base"   -> EncBase(side, T.of, v)
    [] T.k = "struct" -> EncStruct(side, T, v)
    [] T.k = "map"    -> EncMap(side, T, v)
    [] T.k = "ptr"    -> EncPtr(side, T, v)
    [] T.k = "slice"  -> EncSlice(side, T, v)
    [] T.k = "array"  -> EncArray(side, T, v)

-----------------------------------------------------------------------------
(* Go's zero values.                                                       *)
ZeroBase(B) ==
  CASE B \in {"String", "Bytes", "Ext", "Shim"} -> <<>>
    [] B = "Bool"   -> FALSE
    [] B \in {"Int64", "Uint64"} -> Zero64
    [] B \in {"Byte", "Uint8"} -> 0
    [] B = "Complex64" -> Zero64
    [] B = "Intf"   -> <<"nil", <<>>>>
    [] B = "Number" -> AsInt(Zero64)

RECURSIVE ZeroOf(_)
ZeroOf(T) ==
  CASE T.k = "base"   -> ZeroBase(T.of)
    [] T.k = "struct" -> [i \in 1..Len(T.fields) |-> ZeroOf(T.fields[i].of)]
    [] T.k = "map"    -> {}
    [] T.k = "ptr"    -> <<>>
    [] T.k = "slice"  -> [arr |-> <<>>, len |-> 0]
    [] T.k = "array"  -> [i \in 1..T.n |-> ZeroOf(T.of)]

(* ReadInt64 of the Reader, which reads a muint32 as what it is and has    *)
(* consumed a number that overflows, and ReadInt64Bytes.                   *)
ReadInt64(side, b) ==
  LET r == ReadInt64Bytes(b)
      a == I!ReadInt64(b)
  IN  IF side = "bytes" \/ r.err \notin {"none", "overflow"} THEN r
      ELSE [v |-> a.v, n |-> sizes[b[1]].size, err |-> a.err]

(* ReadUint8 and ReadUint8Bytes, which check the range first.              *)
InUint8(r, b) ==
  IF r.err # "none" THEN r
  ELSE IF r.v # Uint8Word(r.v[8]) THEN Fail(Len(b), "overflow")
  ELSE Ok(r.v[8], r.n)
ReadUint8(b) == InUint8(ReadUint64Bytes(b), b)

ReadShim(b) ==
  LET s == ReadStringZC(b) IN
  IF s.err # "none" THEN s ELSE [FromBase(s.v) EXCEPT !.n = s.n]

(* gBase of decodeGen and unmarshalGen: the call for each primitive.  An   *)
(* extension and a Number read themselves, and stay as they are with an    *)
(* error; the others are assigned what the call returns with it, for which *)
(* the zero value stands.                                                  *)
Assigned(r, B, old) ==
  IF r.err = "none" THEN r
  ELSE [r EXCEPT !.v = IF B \in {"Ext", "Number"} THEN old ELSE ZeroBase(B)]
DecBase(side, B, old, b) ==
  Assigned(CASE B = "String" -> ReadStringZC(b)
             [] B = "Bytes"  -> readBytesBytes(b)
             [] B = "Bool"   -> ReadBoolBytes(b)
             [] B = "Int64"  -> ReadInt64(side, b)
             [] B = "Uint64" -> ReadUint64Bytes(b)
             [] B \in {"Byte", "Uint8"} -> ReadUint8(b)
             [] B = "Complex64" ->
                  ReadComplexBytes(b, 10, mfixext8, Complex64Extension)
             [] B = "Intf"   -> ReadIntf(side, b)
             [] B = "Ext"    -> ReadExtension(side, b, ExtensionType)
             [] B = "Number" -> UnmarshalNumber(side, b, old)
             [] B = "Shim"   -> ReadShim(b), B, old)

RECURSIVE Dec(_, _, _, _)

Put(s, i, x) == SubSeq(s, 1, i - 1) \o <<x>> \o SubSeq(s, i + 1, Len(s))
With(x, r) == [r EXCEPT !.v = x]
Ends(r, at, e) == [r EXCEPT !.n = at, !.err = e]

(* What was read as d, at the byte at, goes into the i-th place of r.v,    *)
(* with an error too.                                                      *)
Into(r, i, at, d) == [v |-> Put(r.v, i, d.v), n |-> at + d.n, err |-> d.err]

(* One after the other, from the i-th, each into its place in r.v.  An     *)
(* error ends it there.                                                    *)
RECURSIVE DecEach(_, _, _, _, _)
DecEach(side, Ts, i, r, b) ==
  IF r.err # "none" \/ i > Len(Ts) THEN r
  ELSE DecEach(side, Ts, i + 1,
               Into(r, i, r.n, Dec(side, Ts[i], r.v[i], From(b, r.n))), b)

(* arrayCheck and the elements.                                            *)
DecExactly(side, Ts, old, b) ==
  LET h == ReadArrayHeaderBytes(b) IN
  IF h.err = "none" /\ h.v # Len(Ts) THEN [v |-> old, n |-> h.n, err |-> "array"]
  ELSE DecEach(side, Ts, 1, With(old, h), b)

(* ReadMapKeyPtr, which has no empty key, and ReadMapKeyZC.                *)
NotEmpty(side, k) ==
  IF side = "stream" /\ k.err = "none" /\ k.v = <<>> THEN Fail(k.n, "short") ELSE k
ReadField(side, b) == NotEmpty(side, ReadMapKeyZC(b))

(* Mutant: the value of an unknown field is not skipped.                   *)
DecPairNoSkip(side, fields, r, key, b) ==
  LET at == r.n + key.n
      is == {i \in DOMAIN fields : fields[i].tag = key.v}
      i == CHOOSE j \in is : TRUE
  IN  IF key.err # "none" THEN Ends(r, at, key.err)
      ELSE IF is = {} THEN Ends(r, at, "none")
      ELSE Into(r, i, at, Dec(side, fields[i].of, r.v[i], From(b, at)))

(* The cases of structAsMap for a key.  The value of an unknown field is   *)
(* skipped as Skip on bytes does it, also for dc.Skip, which differs from  *)
(* it for an ext32 with five bytes buffered (module StreamReader).         *)
DecPair(side, fields, r, key, b) ==
  LET at == r.n + key.n
      is == {i \in DOMAIN fields : fields[i].tag = key.v}
      i == CHOOSE j \in is : TRUE
      s == Skip(b, at)
  IN  IF key.err # "none" THEN Ends(r, at, key.err)
      ELSE IF is = {} THEN Ends(r, s.end, s.err)
      ELSE Into(r, i, at, Dec(side, fields[i].of, r.v[i], From(b, at)))

(* The loop of structAsMap over the pairs left.                            *)
RECURSIVE DecPairs(_, _, _, _, _)
DecPairs(side, fields, left, r, b) ==
  IF r.err # "none" \/ left = 0 THEN r
  ELSE DecPairs(side, fields, left - 1,
                DecPair(side, fields, r, ReadField(side, From(b, r.n)), b), b)

DecStruct(side, T, old, b) ==
  IF T.tuple
    THEN DecExactly(side, [i \in 1..Len(T.fields) |-> T.fields[i].of], old, b)
    ELSE LET h == ReadMapHeaderBytes(b) IN
         DecPairs(side, T.fields, h.v, With(old, h), b)

(* The loop of gMap over the pairs left.  Each value is a new variable.    *)
Entry(r, key, at, d) ==
  IF d.err # "none" THEN Ends(r, at + d.n, d.err)
  ELSE Ok({p \in r.v : p[1] # key.v} \cup {<<key.v, d.v>>}, at + d.n)
DecEntry(side, T, r, key, b) ==
  LET at == r.n + key.n IN
  IF key.err # "none" THEN Ends(r, at, key.err)
  ELSE Entry(r, key, at, Dec(side, T.of, ZeroOf(T.of), From(b, at)))
RECURSIVE DecEntries(_, _, _, _, _)
DecEntries(side, T, left, r, b) ==
  IF r.err # "none" \/ left = 0 THEN r
  ELSE DecEntries(side, T, left - 1,
                  DecEntry(side, T, r, ReadStringZC(From(b, r.n)), b), b)

(* Mutant: a map that is there is not cleared.                             *)
resizeMapKeep(old, sz) == old

(* resizeMap makes a map or clears the one that is there.                  *)
resizeMap(old, sz) == {}

DecMap(side, T, old, b) ==
  LET h == ReadMapHeaderBytes(b) IN
  IF h.err # "none" THEN With(old, h)
  ELSE DecEntries(side, T, h.v, Ok(resizeMap(old, h.v), h.n), b)

(* resizeSlice keeps the array when its capacity is enough, with what is   *)
(* in it, also beyond the old length.                                      *)
resizeSlice(T, old, sz) ==
  IF Len(old.arr) >= sz THEN [old EXCEPT !.len = sz]
  ELSE [arr |-> [i \in 1..sz |-> ZeroOf(T.of)], len |-> sz]

DecSlice(side, T, old, b) ==
  LET h == ReadArrayHeaderBytes(b)
      s == resizeSlice(T, old, h.v)
      d == DecEach(side, [i \in 1..s.len |-> T.of], 1, Ok(s.arr, h.n), b)
  IN  IF h.err # "none" THEN With(old, h)
      ELSE With([arr |-> d.v, len |-> s.len], d)

(* Mutant: the length that was announced counts, not what was copied.      *)
DecBytesPast(side, old, b) ==
  LET r == ReadExactBytes(b, old)
      p == Prefix(b, "bin")
  IN  IF r.err # "none" THEN With(old, r)
      ELSE IF side = "stream" /\ Len(b) < p.v.v THEN [r EXCEPT !.err = "short"]
      ELSE [r EXCEPT !.n = p.v.v]

(* Mutant: neither side looks at how much was copied.                      *)
DecBytesLoose(side, old, b) ==
  LET r == ReadExactBytes(b, old) IN IF r.err # "none" THEN With(old, r) ELSE r

(* ReadExactBytes of the Reader, or on bytes, where a short body is no     *)
(* error.                                                                  *)
DecBytes(side, old, b) ==
  LET r == ReadExactBytes(b, old)
      p == Prefix(b, "bin")
  IN  IF r.err # "none" THEN With(old, r)
      ELSE IF side = "stream" /\ Len(b) < p.v.v THEN [r EXCEPT !.err = "short"]
      ELSE r

DecArray(side, T, old, b) ==
  IF IsByteArray(side, T) THEN DecBytes(side, old, b)
  ELSE DecExactly(side, [i \in 1..T.n |-> T.of], old, b)

(* gPtr: nil, or what the pointer points to, made by initPtr if need be.   *)
(* The pointee is no shim of a pointer (needsref), for which the variable  *)
(* is the pointer itself and initPtr makes nothing.                        *)
DecPtr(side, T, old, b) ==
  IF b # <<>> /\ b[1] = mnil THEN Ok(<<>>, 1)
  ELSE LET d == Dec(side, T.of, IF old = <<>> THEN ZeroOf(T.of) ELSE old[1], b)
       IN  With(<<d.v>>, d)

Dec(side, T, old, b) ==
  CASE T.k = "base"   -> DecBase(side, T.of, old, b)
    [] T.k = "struct" -> DecStruct(side, T, old, b)
    [] T.k = "map"    -> DecMap(side, T, old, b)
    [] T.k = "ptr"    -> DecPtr(side, T, old, b)
    [] T.k = "slice"  -> DecSlice(side, T, old, b)
    [] T.k = "array"  -> DecArray(side, T, old, b)

-----------------------------------------------------------------------------
(* The constants of msgp/size.go.                                          *)
FixedSizes == [B \in {"Bool", "Byte", "Uint8", "Int64", "Uint64", "Complex64"} |->
  CASE B = "Bool" -> 1 [] B \in {"Byte", "Uint8"} -> 2
    [] B \in {"Int64", "Uint64"} -> 9 [] B = "Complex64" -> 10]

(* baseSizeExpr.  The shim's base type is declared and never set: the      *)
(* string is empty.                                                        *)
SizeBase(B, v) ==
  CASE B \in DOMAIN FixedSizes -> FixedSizes[B]
    [] B \in {"String", "Bytes"} -> 5 + Len(v)
    [] B = "Shim"   -> 5
    [] B = "Ext"    -> 6 + Len(v)
    [] B = "Intf"   -> GuessSize(v)
    [] B = "Number" -> NumberSize(v)

(* Mutant: the names of the fields are left out.                           *)
HeaderSizeBare(T, tuple) == Len(AppendMapHeader(Len(T.fields)))

(* What a struct takes besides its fields.                                 *)
HeaderSize(T, tuple) ==
  LET n == Len(T.fields) IN
  IF tuple THEN Len(AppendArrayHeader(n))
  ELSE Len(AppendMapHeader(n))
       + MapThenSumSet(LAMBDA i : Len(AppendString(T.fields[i].tag)), 1..n)

(* fixedSizeExpr: is there a size that does not depend on the value, and   *)
(* which?  An array inside has no header in it, and a tuple has the size   *)
(* of a map.                                                               *)
RECURSIVE IsFixed(_)
IsFixed(T) ==
  CASE T.k = "base"   -> T.of \in DOMAIN FixedSizes
    [] T.k = "array"  -> IsFixed(T.of)
    [] T.k = "struct" -> \A i \in DOMAIN T.fields : IsFixed(T.fields[i].of)
    [] OTHER -> FALSE
RECURSIVE FixedSize(_)
FixedSize(T) ==
  CASE T.k = "base"   -> FixedSizes[T.of]
    [] T.k = "array"  -> T.n * FixedSize(T.of)
    [] T.k = "struct" -> HeaderSize(T, FALSE)
         + MapThenSumSet(LAMBDA i : FixedSize(T.fields[i].of), 1..Len(T.fields))

RECURSIVE Msgsize(_, _)
Sum(T, s) == MapThenSumSet(LAMBDA i : Msgsize(T, s[i]), 1..Len(s))

SizeMap(T, v) ==
  5 + MapThenSumSet(LAMBDA p : 5 + Len(p[1]) + Msgsize(T.of, p[2]), v)
SizeSlice(T, v) ==
  5 + IF IsFixed(T.of) THEN v.len * FixedSize(T.of)
      ELSE Sum(T.of, SubSeq(v.arr, 1, v.len))
SizeArray(T, v) == 5 + IF IsFixed(T) THEN FixedSize(T) ELSE Sum(T.of, v)
SizeStruct(T, v) ==
  HeaderSize(T, T.tuple)
  + MapThenSumSet(LAMBDA i : Msgsize(T.fields[i].of, v[i]), 1..Len(v))
SizePtr(T, v) == IF v = <<>> THEN 1 ELSE Msgsize(T.of, v[1])

Msgsize(T, v) ==
  CASE T.k = "base"   -> SizeBase(T.of, v)
    [] T.k = "struct" -> SizeStruct(T, v)
    [] T.k = "map"    -> SizeMap(T, v)
    [] T.k = "ptr"    -> SizePtr(T, v)
    [] T.k = "slice"  -> SizeSlice(T, v)
    [] T.k = "array"  -> SizeArray(T, v)

-----------------------------------------------------------------------------
NoRead == [side |-> "none", cut |-> 0, tail |-> <<>>, n |-> 0, err |-> "none"]

Init ==
  /\ sc \in DOMAIN Scenarios
  /\ \E i \in DOMAIN Scenarios[sc].starts : target = Scenarios[sc].starts[i]
  /\ was = target
  /\ msg = [w |-> 0, side |-> "none", bytes |-> <<>>]
  /\ got = NoRead
  /\ reads = 0

(* The i-th writer writes its value.                                       *)
Write(side, i) ==
  LET w == Scenarios[sc].writers[i] IN
  /\ reads < MaxReads /\ msg.w # i
  /\ \E e \in Enc(side, w.type, w.val) :
       msg' = [w |-> i, side |-> side, bytes |-> e]
  /\ got' = NoRead
  /\ UNCHANGED <<sc, target, was, reads>>

(* The message is read: cut bytes of it, or all of it and what follows it  *)
(* in the slice.  Only the first read is cut.                              *)
Read(side, cut, tail) ==
  /\ msg.w # 0 /\ reads < MaxReads
  /\ cut < Len(msg.bytes) => tail = <<>> /\ reads = 0
  /\ \E d \in {Dec(side, R, target, SubSeq(msg.bytes, 1, cut) \o tail)} :
       /\ target' = d.v
       /\ got' = [side |-> side, cut |-> cut, tail |-> tail, n |-> d.n, err |-> d.err]
  /\ was' = target
  /\ reads' = reads + 1
  /\ UNCHANGED <<sc, msg>>

Next ==
  \/ \E side \in Sides : \E i \in DOMAIN Scenarios[sc].writers : Write(side, i)
  \/ \E side \in Sides, cut \in 0..Len(msg.bytes), tail \in Tails :
       Read(side, cut, tail)

Spec == Init /\ [][Next]_vars

-----------------------------------------------------------------------------
Done == got.side # "none"
Whole == Done /\ got.cut = Len(msg.bytes)

(* A value without what is beyond the length of its slices.                *)
RECURSIVE Plain(_, _)
Plain(T, v) ==
  CASE T.k = "base"   -> v
    [] T.k = "struct" -> [i \in 1..Len(v) |-> Plain(T.fields[i].of, v[i])]
    [] T.k = "map"    -> {<<p[1], Plain(T.of, p[2])>> : p \in v}
    [] T.k = "ptr"    -> IF v = <<>> THEN v ELSE <<Plain(T.of, v[1])>>
    [] T.k = "slice"  -> [i \in 1..v.len |-> Plain(T.of, v.arr[i])]
    [] T.k = "array"  -> [i \in 1..T.n |-> Plain(T.of, v[i])]

(* Is there, in T, an array that only one of the two sides writes as bin?  *)
RECURSIVE HasUint8s(_)
HasUint8s(T) ==
  CASE T.k = "base"   -> FALSE
    [] T.k = "struct" -> \E i \in DOMAIN T.fields : HasUint8s(T.fields[i].of)
    [] T.k = "array" /\ T.of.k = "base" -> T.of.of = "Uint8"
    [] OTHER -> HasUint8s(T.of)
Crossed == msg.side # got.side /\ HasUint8s(R)

(* A complex number in an interface{} that ends a slice: NextType takes it *)
(* for an extension.                                                       *)
EndsInComplex ==
  LET ends(k, lead, ext) ==
        LET n == Len(msg.bytes) - k IN
        n >= 0 /\ msg.bytes[n + 1] = lead /\ msg.bytes[n + 2] = ext
  IN  /\ got.side = "bytes" /\ got.tail = <<>>
      /\ \/ ends(10, mfixext8, Complex64Extension)
         \/ ends(18, mfixext16, Complex128Extension)

(* The lengths of the slices in v, each within its capacity, and of the    *)
(* arrays and structs are what the type says.                              *)
RECURSIVE Fits(_, _)
Fits(T, v) ==
  CASE T.k = "base"   -> TRUE
    [] T.k = "struct" -> /\ Len(v) = Len(T.fields)
                         /\ \A i \in DOMAIN v : Fits(T.fields[i].of, v[i])
    [] T.k = "map"    -> \A p \in v : Fits(T.of, p[2])
    [] T.k = "ptr"    -> Len(v) <= 1 /\ \A i \in DOMAIN v : Fits(T.of, v[i])
    [] T.k = "slice"  -> v.len <= Len(v.arr) /\ \A i \in DOMAIN v.arr : Fits(T.of, v.arr[i])
    [] T.k = "array"  -> Len(v) = T.n /\ \A i \in DOMAIN v : Fits(T.of, v[i])

(* Type correctness: whatever was read into it, and with whatever error,   *)
(* the variable is a value of its type, the length of a slice in it never  *)
(* past its capacity, and a read never takes more than it is given.        *)
TypeOK ==
  /\ sc \in DOMAIN Scenarios
  /\ reads \in 0..MaxReads
  /\ msg.w \in 0..Len(Scenarios[sc].writers)
  /\ got.n \in 0..got.cut + Len(got.tail)
  /\ Fits(R, target)

(* What EncodeMsg or MarshalMsg wrote comes back the same through          *)
(* DecodeMsg or UnmarshalMsg, to the byte, whatever the variable held      *)
(* before, a part of a message that was cut short included.  Left out is   *)
(* a [N]uint8 across the sides, which Symmetric is about.                  *)
RoundTrip ==
  (Whole /\ Writer.own /\ ~EndsInComplex /\ ~Crossed) =>
    /\ got.err = "none" /\ got.n = Len(msg.bytes)
    /\ Plain(R, target) = Plain(R, Writer.val)

(* The two sides write and read one format: what MarshalMsg wrote          *)
(* DecodeMsg reads, and what EncodeMsg wrote UnmarshalMsg reads, also for  *)
(* the arrays that gArray of each generator treats apart.                  *)
Symmetric ==
  (Whole /\ Writer.own /\ ~EndsInComplex /\ msg.side # got.side) =>
    got.err = "none" /\ Plain(R, target) = Plain(R, Writer.val)

(* Every message is one object, as the generated tests ask of Skip.        *)
OneObject ==
  msg.w # 0 => Skip(msg.bytes, 0) = [end |-> Len(msg.bytes), err |-> "none"]

(* The bytes of the [N]byte that a message of T may end with.              *)
RECURSIVE LastBytes(_)
LastBytes(T) ==
  CASE IsByteArray("bytes", T) -> T.n
    [] T.k = "base" -> 0
    [] T.k = "struct" -> IF T.fields = <<>> THEN 0 ELSE LastBytes(S!Last(T.fields).of)
    [] OTHER -> LastBytes(T.of)

(* A message that is cut short is never read without an error, wherever    *)
(* the cut is; but on bytes ReadExactBytes takes a part of a [N]byte for   *)
(* the whole, which nobody notices when the message ends with it.          *)
TruncationDetected ==
  (/\ Done /\ ~Whole
   /\ got.side = "bytes" => got.cut < Len(msg.bytes) - LastBytes(R))
    => got.err # "none"

(* Is there, in T, an array whose header fixedSizeExpr leaves out, or a    *)
(* shim whose string it takes for empty?                                   *)
RECURSIVE HasArray(_)
HasArray(T) ==
  T.k = "array" \/ (T.k = "struct" /\ \E i \in DOMAIN T.fields : HasArray(T.fields[i].of))
RECURSIVE Understated(_)
Understated(T) ==
  CASE T.k = "base"   -> T.of = "Shim"
    [] T.k = "struct" -> \E i \in DOMAIN T.fields : Understated(T.fields[i].of)
    [] T.k \in {"slice", "array"} -> Understated(T.of) \/ (IsFixed(T.of) /\ HasArray(T.of))
    [] OTHER -> Understated(T.of)

(* Msgsize is an upper bound of the encoded size, which MarshalMsg         *)
(* requires before it writes, for types without such arrays and shims.     *)
WithinMsgsize ==
  (msg.w # 0 /\ ~Understated(Writer.type)) =>
    Len(msg.bytes) <= Msgsize(Writer.type, Writer.val)

-----------------------------------------------------------------------------
(* What a reader of type T has to make of a value v of the writer's type   *)
(* W: fields that both have are read, the writer's others are passed over, *)
(* the reader's others keep what they held, which in a slice is what its   *)
(* array held.                                                             *)
Field(T, tag) == {i \in DOMAIN T.fields : T.fields[i].tag = tag}
RECURSIVE Merge(_, _, _, _)
Merge(W, T, v, old) ==
  CASE T.k = "base" -> v
    [] T.k = "ptr"  ->
         IF v = <<>> THEN v
         ELSE <<Merge(W.of, T.of, v[1], IF old = <<>> THEN ZeroOf(T.of) ELSE old[1])>>
    [] T.k = "map"  ->
         {<<p[1], Merge(W.of, T.of, p[2], ZeroOf(T.of))>> : p \in v}
    [] T.k = "array" -> [i \in 1..T.n |-> Merge(W.of, T.of, v[i], old[i])]
    [] T.k = "slice" ->
         [i \in 1..v.len |-> Merge(W.of, T.of, v.arr[i],
            IF v.len <= Len(old.arr) THEN old.arr[i] ELSE ZeroOf(T.of))]
    [] T.k = "struct" ->
         [i \in 1..Len(T.fields) |->
            LET t == T.fields[i]
                js == IF T.tuple THEN {i} ELSE Field(W, t.tag)
                j == CHOOSE x \in js : TRUE
            IN  IF js = {} THEN Plain(t.of, old[i])
                ELSE Merge(W.fields[j].of, t.of, v[j], old[i])]

(* Versions of a struct, with fields added or removed, read each other:    *)
(* unknown fields are skipped whatever they hold, and nothing else of the  *)
(* variable changes.  A message of a type that does not fit is an error.   *)
Evolves ==
  (Whole /\ ~EndsInComplex /\ ~Crossed) =>
    IF ~Writer.fits THEN got.err # "none"
    ELSE /\ got.err = "none" /\ got.n = Len(msg.bytes)
         /\ Plain(R, target) = Merge(Writer.type, R, Writer.val, was)
=============================================================================
