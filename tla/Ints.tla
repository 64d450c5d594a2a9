-------------------------------- MODULE Ints --------------------------------
(***************************************************************************)
(* A behaviour encodes one value of some Go integer type and decodes it as *)
(* a value of some Go integer type, with the codecs of IntCodec.           *)
(***************************************************************************)
EXTENDS IntCodec

CONSTANTS Values    \* the 64-bit patterns to try

ASSUME IntsAssumption == Values \subseteq Word

VARIABLES val,    \* what is encoded
          wire,   \* its encoding
          from,   \* by which writer: [side, signed, k]
          got     \* what was decoded: [side, signed, k, v, err, left]

vars == <<val, wire, from, got>>

-----------------------------------------------------------------------------
Sides == {"stream", "bytes"}

Init ==
  /\ val \in Values
  /\ wire = <<>>
  /\ from = <<>>
  /\ got = <<>>

(* A value of k bytes is written.                                          *)
Encode(side, signed, k) ==
  /\ wire = <<>>
  /\ IF signed THEN IsInt(val, k) ELSE IsUint(val, k)
  /\ wire' = CASE signed /\ k = 1 -> WriteInt8(val)
               [] signed /\ k > 1 /\ side = "stream" -> WriteInt64(val)
               [] signed /\ k > 1 /\ side = "bytes"  -> AppendInt64(val)
               [] ~signed /\ k = 1 -> WriteUint8(val)
               [] ~signed /\ k > 1 /\ side = "stream" -> WriteUint64(val)
               [] ~signed /\ k > 1 /\ side = "bytes"  -> AppendUint64(val)
  /\ from' = [side |-> side, signed |-> signed, k |-> k]
  /\ UNCHANGED <<val, got>>

(* It is read as a value of k bytes.                                       *)
Decode(side, signed, k) ==
  /\ wire # <<>> /\ got = <<>>
  /\ got' = [side |-> side, signed |-> signed, k |-> k, ans |->
       CASE signed /\ side = "stream"  -> ReadInt(wire, k)
         [] signed /\ side = "bytes"   -> ReadIntBytes(wire, k)
         [] ~signed /\ side = "stream" -> ReadUint(wire, k)
         [] ~signed /\ side = "bytes"  -> ReadUintBytes(wire, k)]
  /\ UNCHANGED <<val, wire, from>>

Next ==
  \E side \in Sides, signed \in BOOLEAN, k \in Widths :
    Encode(side, signed, k) \/ Decode(side, signed, k)

Spec == Init /\ [][Next]_vars

-----------------------------------------------------------------------------
Done == got # <<>>

TypeOK ==
  /\ val \in Word
  /\ \A i \in DOMAIN wire : wire[i] \in Byte
  /\ Done => got.ans.v \in Word

(* The value that was written, as a number: negative or not, and then the  *)
(* 64 bits.                                                                *)
Negative == from.signed /\ val[1] >= 128

(* Is that number one of the type it is read as?                           *)
Representable ==
  IF got.signed THEN IsInt(val, got.k) /\ (from.signed \/ val[1] < 128)
                ELSE ~Negative /\ IsUint(val, got.k)

(* What one writer wrote and the reader of the same signedness reads comes *)
(* back as the same number, if the type it is read as has that number, and *)
(* as an overflow otherwise, on either side and across the two.            *)
RoundTrip ==
  (Done /\ got.signed = from.signed) =>
    IF Representable
      THEN got.ans = Answer(val, "none", "rest")
      ELSE got.ans.err = "overflow" /\ got.ans.v = Zero

(* Across signedness no reader of the stream returns another number than   *)
(* the one written.                                                        *)
StreamNeverWrong ==
  (Done /\ got.side = "stream" /\ got.ans.err = "none") =>
    Representable /\ got.ans.v = val

(* The sizes of msgp/size.go, which Msgsize adds up, are never exceeded.   *)
SizeOf(k) == CASE k = 1 -> 2 [] k = 2 -> 3 [] k = 4 -> 5 [] k = 8 -> 9
WithinMsgsize == wire # <<>> => Len(wire) <= SizeOf(from.k)

(* ReadInt64Bytes says that every smaller unsigned integer fits an int64:  *)
(* the []byte side never returns another number than the one written.      *)
BytesNeverWrong ==
  (Done /\ got.side = "bytes" /\ got.ans.err = "none") =>
    Representable /\ got.ans.v = val
=============================================================================
