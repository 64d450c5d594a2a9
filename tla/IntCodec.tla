------------------------------ MODULE IntCodec ------------------------------
(***************************************************************************)
(* Integers on the wire: the writers of msgp/write.go and                  *)
(* msgp/write_bytes.go choose a prefix by the value, the readers of        *)
(* msgp/read.go and msgp/read_bytes.go accept every prefix and check the   *)
(* range.  msgp/integers.go moves the bytes.                               *)
(*                                                                         *)
(* An int64 or uint64 is its eight bytes, most significant first; a        *)
(* conversion to k bytes keeps the last k.  The readers are given the      *)
(* bytes b of a whole integer.                                             *)
(***************************************************************************)
EXTENDS Integers, Sequences

Byte == 0..255
Word == [1..8 -> Byte]
Widths == {1, 2, 4, 8}        \* bytes of int8, int16, int32, int64

-----------------------------------------------------------------------------
(* The order of uint64, and of int64.                                      *)
Leq(a, b) ==
  \/ a = b
  \/ \E j \in 1..8 : a[j] < b[j] /\ \A m \in 1..j-1 : a[m] = b[m]
Flip(a) == [a EXCEPT ![1] = (a[1] + 128) % 256]
SLeq(a, b) == Leq(Flip(a), Flip(b))

(* x in the byte at place j, 0 or 255 above it and y below.                *)
Pattern(above, j, x, y) ==
  [i \in 1..8 |-> IF i < j THEN above ELSE IF i = j THEN x ELSE y]
MaxInt(k) == Pattern(0, 9 - k, 127, 255)
MinInt(k) == Pattern(255, 9 - k, 128, 0)
MaxUint(k) == Pattern(0, 9 - k, 255, 255)
Minus32 == Pattern(255, 8, 224, 0)
Zero == Pattern(0, 8, 0, 0)

IsInt(i, k) == SLeq(MinInt(k), i) /\ SLeq(i, MaxInt(k))
IsUint(u, k) == Leq(u, MaxUint(k))

mint(k) == CASE k = 1 -> 208 [] k = 2 -> 209 [] k = 4 -> 210 [] k = 8 -> 211
muint(k) == CASE k = 1 -> 204 [] k = 2 -> 205 [] k = 4 -> 206 [] k = 8 -> 207

(* putMint and putMuint: the prefix and the last k bytes.                  *)
put(lead, k, i) == <<lead>> \o SubSeq(i, 9 - k, 8)

(* Mutant: the sign is lost.                                               *)
getMintUnsigned(b, k) == [i \in 1..8 |-> IF i <= 8 - k THEN 0 ELSE b[i + k - 7]]

(* getMint and getMuint, extended to 64 bits.                              *)
getMuint(b, k) == [i \in 1..8 |-> IF i <= 8 - k THEN 0 ELSE b[i + k - 7]]
getMint(b, k) == [i \in 1..8 |->
  IF i <= 8 - k THEN (IF b[2] >= 128 THEN 255 ELSE 0) ELSE b[i + k - 7]]

wfixint(i) == <<i[8] % 128>>

(* Mutant: + in place of |.                                                *)
wnfixintAdd(i) == <<224 + i[8]>>
wnfixint(i) == <<224 + (i[8] % 32)>>      \* byte(i) | 0xe0

(* The first width of ks that is enough.                                   *)
Least(ks, Enough(_)) ==
  CHOOSE k \in ks : Enough(k) /\ \A j \in ks : Enough(j) => k <= j

(* WriteInt64, and AppendInt64 with the same tests.                        *)
WriteInt64(i) ==
  LET below(k) == SLeq(i, MaxInt(k))
      above(k) == SLeq(MinInt(k), i)
      up == Least({2, 4, 8}, below)
      down == Least(Widths, above)
  IN  IF SLeq(Zero, i)
      THEN IF SLeq(i, MaxInt(1)) THEN wfixint(i) ELSE put(mint(up), up, i)
      ELSE IF SLeq(Minus32, i) THEN wnfixint(i) ELSE put(mint(down), down, i)
AppendInt64(i) == WriteInt64(i)

(* WriteUint64, and AppendUint64 with the same tests.                      *)
WriteUint64(u) ==
  LET below(k) == Leq(u, MaxUint(k))
      k == Least(Widths, below)
  IN  IF Leq(u, MaxInt(1)) THEN wfixint(u) ELSE put(muint(k), k, u)
AppendUint64(u) == WriteUint64(u)

(* WriteInt8 and AppendInt8, WriteUint8 and AppendUint8 do not go through  *)
(* the 64-bit writers.                                                     *)
WriteInt8(i) ==
  IF SLeq(Zero, i) THEN wfixint(i)
  ELSE IF SLeq(Minus32, i) THEN wnfixint(i) ELSE put(mint(1), 1, i)

(* Mutant: the 16-bit prefix that the signed writers use above 127.        *)
WriteUint8Wide(u) ==
  IF Leq(u, MaxInt(1)) THEN wfixint(u) ELSE put(muint(2), 2, u)
WriteUint8(u) ==
  IF Leq(u, MaxInt(1)) THEN wfixint(u) ELSE put(muint(1), 1, u)

-----------------------------------------------------------------------------
(* A reader's answer: the value, the error, and which bytes it leaves: all *)
(* of them, those behind the integer, or a nil slice.                      *)
Answer(x, e, l) == [v |-> x, err |-> e, left |-> l]

Widest(b) == {k \in Widths : b[1] \in {mint(k), muint(k)}}
IsFixint(b) == b[1] < 128
IsNfixint(b) == b[1] >= 224
IsUintPrefix(b) == b[1] \in {muint(k) : k \in Widths}
rnfixint(b) == Pattern(255, 8, b[1], 0)

(* Mutant: no check of a uint64.                                           *)
ReadInt64Unchecked(b) ==
  LET k == CHOOSE n \in Widest(b) : TRUE IN
  IF IsFixint(b) THEN Answer(Pattern(0, 8, b[1], 0), "none", "rest")
  ELSE IF IsNfixint(b) THEN Answer(rnfixint(b), "none", "rest")
  ELSE IF ~IsUintPrefix(b) THEN Answer(getMint(b, k), "none", "rest")
  ELSE Answer(getMuint(b, k), "none", "rest")

(* ReadInt64 of the Reader.  An overflowing uint64 has been consumed.      *)
ReadInt64(b) ==
  LET k == CHOOSE n \in Widest(b) : TRUE IN
  IF IsFixint(b) THEN Answer(Pattern(0, 8, b[1], 0), "none", "rest")
  ELSE IF IsNfixint(b) THEN Answer(rnfixint(b), "none", "rest")
  ELSE IF ~IsUintPrefix(b) THEN Answer(getMint(b, k), "none", "rest")
  ELSE IF k = 8 /\ ~Leq(getMuint(b, 8), MaxInt(8))
         THEN Answer(Zero, "overflow", "rest")
  ELSE Answer(getMuint(b, k), "none", "rest")

(* ReadInt64Bytes.  The prefix muint32 is read as an int32, and an         *)
(* overflowing uint64 is not consumed.                                     *)
ReadInt64Bytes(b) ==
  LET k == CHOOSE n \in Widest(b) : TRUE IN
  IF IsFixint(b) THEN Answer(Pattern(0, 8, b[1], 0), "none", "rest")
  ELSE IF IsNfixint(b) THEN Answer(rnfixint(b), "none", "rest")
  ELSE IF ~IsUintPrefix(b) \/ k = 4 THEN Answer(getMint(b, k), "none", "rest")
  ELSE IF k = 8 /\ ~Leq(getMuint(b, 8), MaxInt(8))
         THEN Answer(Zero, "overflow", "all")
  ELSE Answer(getMuint(b, k), "none", "rest")

(* ReadUint64 and ReadUint64Bytes: no signed prefix but fixint.  The first *)
(* leaves the integer in place, the second returns a nil slice.            *)
Unsigned(b, onError) ==
  LET k == CHOOSE n \in Widest(b) : TRUE IN
  IF IsFixint(b) THEN Answer(Pattern(0, 8, b[1], 0), "none", "rest")
  ELSE IF IsUintPrefix(b) THEN Answer(getMuint(b, k), "none", "rest")
  ELSE Answer(Zero, "type", onError)
ReadUint64(b) == Unsigned(b, "all")
ReadUint64Bytes(b) == Unsigned(b, "nil")

(* The readers of narrower types check the range before they look at the   *)
(* error, which came with a zero.  ReadUint32Bytes, 16 and 8 return a nil  *)
(* slice with an overflow, ReadInt32Bytes, 16 and 8 the bytes behind it.   *)
Checked(a, fits, left) == IF fits THEN a ELSE Answer(Zero, "overflow", left)
ReadInt(b, k) ==
  LET a == ReadInt64(b) IN Checked(a, IsInt(a.v, k), a.left)
ReadIntBytes(b, k) ==
  LET a == ReadInt64Bytes(b) IN Checked(a, IsInt(a.v, k), a.left)
ReadUint(b, k) ==
  LET a == ReadUint64(b) IN Checked(a, IsUint(a.v, k), a.left)
ReadUintBytes(b, k) ==
  LET a == ReadUint64Bytes(b) IN Checked(a, IsUint(a.v, k), "nil")
=============================================================================
