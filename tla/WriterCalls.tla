---------------------------- MODULE WriterCalls -----------------------------
(***************************************************************************)
(* The Writer's methods as sequences of primitives of module Writer.       *)
(* Strings, byte slices and extension bodies are given by their lengths,   *)
(* an integer by the width of the prefix its value selects (module Ints    *)
(* is about that choice).                                                  *)
(***************************************************************************)
EXTENDS Naturals, Sequences, SequencesExt

P(o, k) == <<[op |-> o, n |-> k]>>
Push == P("push", 1)
Prefix(need) == P("prefix", need)
Require(k) == P("require", k)

WriteMapHeader(sz) ==
  IF sz <= 15 THEN Push ELSE IF sz <= 65535 THEN Prefix(3) ELSE Prefix(5)

WriteArrayHeader(sz) ==
  IF sz <= 15 THEN Push ELSE IF sz <= 65535 THEN Prefix(3) ELSE Prefix(5)

WriteNil == Push
WriteBool == Push
WriteFloat64 == Prefix(9)
WriteFloat32 == Prefix(5)
WriteInt64(width) == IF width = 1 THEN Push ELSE Prefix(width)
WriteUint64(width) == IF width = 1 THEN Push ELSE Prefix(width)

WriteBytesHeader(sz) ==
  IF sz <= 255 THEN Prefix(2) ELSE IF sz <= 65535 THEN Prefix(3) ELSE Prefix(5)

WriteStringHeader(sz) ==
  IF sz <= 31 THEN Push ELSE IF sz <= 255 THEN Prefix(2)
  ELSE IF sz <= 65535 THEN Prefix(3) ELSE Prefix(5)

WriteBytes(l) == WriteBytesHeader(l) \o P("write", l)
WriteString(l) == WriteStringHeader(l) \o P("writeString", l)
WriteStringFromBytes(l) == WriteStringHeader(l) \o P("write", l)

WriteComplex64 == Require(10)
WriteComplex128 == Require(18)
WriteTime == Require(15)

WriteExtension(l) ==
  (CASE l = 0                   -> Require(3)
     [] l \in {1, 2, 4, 8, 16}  -> Require(2)
     [] OTHER -> IF l < 255 THEN Require(3)
                 ELSE IF l < 65535 THEN Require(4) ELSE Require(6))
  \o P("extBody", l)

(* Maps and slices: lengths of the keys and the calls that write the       *)
(* values.                                                                 *)
WriteMapStrStr(kvs) ==
  WriteMapHeader(Len(kvs)) \o
  FlattenSeq([i \in DOMAIN kvs |-> WriteString(kvs[i][1]) \o WriteString(kvs[i][2])])

WriteMapStrIntf(kvs) ==
  WriteMapHeader(Len(kvs)) \o
  FlattenSeq([i \in DOMAIN kvs |-> WriteString(kvs[i][1]) \o kvs[i][2]])

writeSlice(vs) == WriteArrayHeader(Len(vs)) \o FlattenSeq(vs)

(* WriteIntf of a value none of its cases takes.                           *)
ErrUnsupported == P("unsupported", 0)

Append_(l) == P("append", l)

(* The EncodeMsg that gen writes for a struct: constant bytes are fused, so *)
(* the map header and the first field's name are one Append.  A field is   *)
(* the length of its name and the call that writes its value.              *)
HeaderLen(calls) == calls[1].n
TagLen(l) == HeaderLen(WriteStringHeader(l)) + l
structAsMap(fs) ==
  LET raw(i) == IF i = 1 THEN HeaderLen(WriteMapHeader(Len(fs))) + TagLen(fs[1][1])
                         ELSE TagLen(fs[i][1])
  IN  IF fs = <<>> THEN Append_(HeaderLen(WriteMapHeader(0)))
      ELSE FlattenSeq([i \in DOMAIN fs |-> Append_(raw(i)) \o fs[i][2]])

Flush == P("flush", 0)
Encode(msg) == msg \o Flush
=============================================================================
