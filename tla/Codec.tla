-------------------------------- MODULE Codec -------------------------------
(***************************************************************************)
(* The Append functions of msgp/write_bytes.go, the Read...Bytes functions *)
(* of msgp/read_bytes.go and the extensions on bytes of msgp/extension.go. *)
(* Integers come from IntCodec.                                            *)
(*                                                                         *)
(* A reader answers with the value, the number n of bytes it has taken off *)
(* the front, and the error.  A nil slice returned with an error has       *)
(* nothing left in it: n is then all of b.                                 *)
(***************************************************************************)
EXTENDS Wire

I == INSTANCE IntCodec

mnil == 192
mfalse == 194
mtrue == 195
mext16 == 200

Ok(x, k) == [v |-> x, n |-> k, err |-> "none"]
Fail(k, e) == [v |-> <<>>, n |-> k, err |-> e]
From(b, i) == SubSeq(b, i + 1, Len(b))

(* PutUint16 for 2 bytes, PutUint32 for 4.                                 *)
be(k, len) ==
  IF len = 2 THEN <<(k \div 256) % 256, k % 256>>
  ELSE <<(k \div 16777216) % 256, (k \div 65536) % 256, (k \div 256) % 256, k % 256>>

-----------------------------------------------------------------------------
(* Each Append function: the bytes it adds.                                *)
AppendMapHeader(sz) ==
  IF sz <= 15 THEN <<128 + sz>>
  ELSE IF sz <= 65535 THEN <<222>> \o be(sz, 2) ELSE <<223>> \o be(sz, 4)
AppendArrayHeader(sz) ==
  IF sz <= 15 THEN <<144 + sz>>
  ELSE IF sz <= 65535 THEN <<220>> \o be(sz, 2) ELSE <<221>> \o be(sz, 4)

AppendNil == <<mnil>>
AppendBool(x) == <<IF x THEN mtrue ELSE mfalse>>
AppendInt64(w) == I!AppendInt64(w)
AppendUint64(w) == I!AppendUint64(w)
AppendFloat32(bits) == <<mfloat32>> \o bits
AppendFloat64(bits) == <<mfloat64>> \o bits

AppendBytes(s) ==
  LET k == Len(s) IN
  (IF k <= 255 THEN <<196, k>>
   ELSE IF k <= 65535 THEN <<197>> \o be(k, 2) ELSE <<198>> \o be(k, 4)) \o s
AppendString(s) ==
  LET k == Len(s) IN
  (IF k <= 31 THEN <<160 + k>>
   ELSE IF k <= 255 THEN <<217, k>>
   ELSE IF k <= 65535 THEN <<218>> \o be(k, 2) ELSE <<219>> \o be(k, 4)) \o s

AppendComplex64(bits) == <<mfixext8, Complex64Extension>> \o bits
AppendComplex128(bits) == <<mfixext16, Complex128Extension>> \o bits
AppendTime(unix) == <<mext8, 12, TimeExtension>> \o unix

(* AppendExtension never keeps the fixext prefix it has chosen first: the  *)
(* second switch starts again.                                             *)
AppendExtension(typ, data) ==
  LET k == Len(data) IN
  (IF k < 255 THEN <<mext8, k>>
   ELSE IF k < 65535 THEN <<mext16>> \o be(k, 2)
   ELSE <<201>> \o be(k, 4)) \o <<typ>> \o data

-----------------------------------------------------------------------------
badPrefix(lead) == IF getType(lead) = "invalid" THEN "invalid" ELSE "type"

(* The whole prefix of an object of the type want.                         *)
PrefixBy(s, b, want) ==
  LET h == IF b[1] \in 160..191 THEN 1 ELSE s.size IN
  IF s.typ # want THEN Fail(0, badPrefix(b[1]))
  ELSE IF Len(b) < h THEN Fail(0, "short")
  ELSE Ok(SizedBy(s, b), h)
Prefix(b, want) ==
  IF b = <<>> THEN Fail(0, "short") ELSE PrefixBy(sizes[b[1]], b, want)

(* The header p of a container, whose members have k objects each.         *)
Count(p, k) == IF p.err = "none" THEN Ok(p.v.o \div k, p.n) ELSE Fail(0, p.err)
ReadMapHeaderBytes(b) == Count(Prefix(b, "map"), 2)
ReadArrayHeaderBytes(b) == Count(Prefix(b, "array"), 1)

(* A body behind its prefix.  When it is cut short the prefix is taken     *)
(* all the same.                                                           *)
Body(b, p) ==
  IF p.err # "none" THEN p
  ELSE IF Len(b) < p.v.v THEN Fail(p.n, "short")
  ELSE Ok(SubSeq(b, p.n + 1, p.v.v), p.v.v)

readBytesBytes(b) == Body(b, Prefix(b, "bin"))

(* ReadStringZC has a TypeError for a prefix that is no prefix, too.       *)
NoInvalid(r) == IF r.err = "invalid" THEN Fail(0, "type") ELSE r
ReadStringZC(b) == NoInvalid(Body(b, Prefix(b, "str")))

(* ReadMapKeyZC: a string, or else a bin.                                  *)
ReadMapKeyZC(b) ==
  IF b # <<>> /\ getType(b[1]) = "bin" THEN readBytesBytes(b) ELSE ReadStringZC(b)

(* ReadExactBytes copies what is there of the body.                        *)
Exactly(p, b, dst) ==
  LET want == Len(dst)
      part == IF Len(b) < p.v.v THEN From(b, p.n) ELSE SubSeq(b, p.n + 1, p.n + want)
  IN  IF p.err # "none" THEN p
      ELSE IF p.v.v - p.n # want THEN Fail(0, "array")
      ELSE Ok(part \o From(dst, Len(part)), p.n + Len(part))
ReadExactBytes(b, dst) == Exactly(Prefix(b, "bin"), b, dst)

ReadNilBytes(b) ==
  IF b = <<>> THEN Fail(0, "short")
  ELSE IF b[1] # mnil THEN Fail(0, badPrefix(b[1])) ELSE Ok(<<>>, 1)
ReadBoolBytes(b) ==
  IF b = <<>> THEN Fail(0, "short")
  ELSE IF b[1] \notin {mtrue, mfalse} THEN Fail(0, badPrefix(b[1]))
  ELSE Ok(b[1] = mtrue, 1)

ReadFloat32Bytes(b) ==
  IF Len(b) < 5 THEN Fail(0, "short")
  ELSE IF b[1] # mfloat32 THEN Fail(0, "type") ELSE Ok(SubSeq(b, 2, 5), 5)
ReadFloat64Bytes(b) ==
  IF Len(b) >= 5 /\ b[1] = mfloat32 THEN ReadFloat32Bytes(b)
  ELSE IF Len(b) < 9 THEN Fail(Len(b), "short")
  ELSE IF b[1] # mfloat64 THEN Fail(Len(b), badPrefix(b[1]))
  ELSE Ok(SubSeq(b, 2, 9), 9)

(* ReadInt64Bytes, and ReadUint64Bytes, which has nil for every error.     *)
Taken(a, k) == IF a.err = "none" THEN Ok(a.v, k) ELSE Fail(0, a.err)
ReadInt64Bytes(b) ==
  IF b = <<>> THEN Fail(0, "short")
  ELSE IF getType(b[1]) \notin {"int", "uint"} THEN Fail(0, badPrefix(b[1]))
  ELSE IF Len(b) < sizes[b[1]].size THEN Fail(0, "short")
  ELSE Taken(I!ReadInt64Bytes(b), sizes[b[1]].size)
ReadUint64Bytes(b) ==
  IF b = <<>> THEN Fail(0, "short")
  ELSE IF b[1] >= 128 /\ getType(b[1]) # "uint" THEN Fail(Len(b), badPrefix(b[1]))
  ELSE IF Len(b) < sizes[b[1]].size THEN Fail(Len(b), "short")
  ELSE Ok(I!ReadUint64Bytes(b).v, sizes[b[1]].size)

ReadComplexBytes(b, len, lead, ext) ==
  IF Len(b) < len THEN Fail(Len(b), "short")
  ELSE IF b[1] # lead THEN Fail(Len(b), badPrefix(b[1]))
  ELSE IF b[2] # ext THEN Fail(Len(b), "ext")
  ELSE Ok(SubSeq(b, 3, len), len)

ReadTimeBytes(b) ==
  IF Len(b) < 15 THEN Fail(0, "short")
  ELSE IF b[1] # mext8 \/ b[2] # 12 THEN Fail(0, badPrefix(b[1]))
  ELSE IF b[3] # TimeExtension THEN Fail(0, "ext")
  ELSE Ok(SubSeq(b, 4, 15), 15)

(* Where an extension's type is.                                           *)
ExtType(s, b) == IF s.extra = 0 THEN b[2] ELSE b[s.size]

(* NextType looks at an extension's type only if more bytes follow than    *)
(* the table's size, which for a fixext is the size of the whole object.   *)
NextTypeBy(s, b) ==
  IF s.typ # "ext" \/ Len(b) <= s.size THEN s.typ
  ELSE CASE ExtType(s, b) = TimeExtension -> "time"
         [] ExtType(s, b) = Complex64Extension -> "complex64"
         [] ExtType(s, b) = Complex128Extension -> "complex128"
         [] OTHER -> "ext"
NextType(b) == IF b = <<>> THEN "invalid" ELSE NextTypeBy(sizes[b[1]], b)

peekExtension(b) ==
  IF getType(b[1]) # "ext" THEN Fail(0, badPrefix(b[1]))
  ELSE IF Len(b) < sizes[b[1]].size THEN Fail(0, "short")
  ELSE Ok(ExtType(sizes[b[1]], b), 0)

(* ReadExtensionBytes into an extension of type typ.  The type of an empty *)
(* ext8 is not looked at.                                                  *)
ReadExtensionBy(s, b, typ) ==
  LET off == IF s.extra = 0 THEN 2 ELSE s.size
      end == SizedBy(s, b).v
  IN  IF s.typ # "ext" THEN Fail(0, badPrefix(b[1]))
      ELSE IF Len(b) < off THEN Fail(0, "short")
      ELSE IF b[1] = mext8 /\ b[2] = 0 THEN Ok(<<>>, 3)
      ELSE IF ExtType(s, b) # typ THEN Fail(0, "ext")
      ELSE IF Len(b) < end THEN Fail(0, "short")
      ELSE Ok(SubSeq(b, off + 1, end), end)
ReadExtensionBytes(b, typ) ==
  IF Len(b) < 3 THEN Fail(0, "short") ELSE ReadExtensionBy(sizes[b[1]], b, typ)
=============================================================================
