----------------------------- MODULE WireProofs -----------------------------
(***************************************************************************)
(* What the table `sizes` of msgp/elsize.go says of every prefix byte, and *)
(* what getSize makes of it.                                               *)
(***************************************************************************)
EXTENDS Wire, SequenceTheorems, WellFoundedInduction, TLAPS

Fixeds == {"nil", "bool", "int", "uint", "float32", "float64"}
Types == Fixeds \cup {"str", "bin", "ext", "map", "array", "invalid"}

(* What is true of the entry z of a byte b.                                *)
Entry(b, z) ==
  /\ z.size \in 0..32 /\ z.extra \in -7..30 /\ z.typ \in Types
  /\ (z.size = 0 <=> b = 193) /\ (z.typ = "invalid" <=> b = 193)
  /\ z.extra \in {extra8, extra16, extra32} => z.typ \in {"str", "bin", "ext"}
  /\ z.extra \in {map16v, map32v} => z.typ = "map"
  /\ z.extra \in {array16v, array32v} => z.typ = "array"
  /\ z.extra > 0 => z.typ \in {"map", "array"}
  /\ z.typ = "map" /\ z.extra >= 0 => z.extra % 2 = 0
  /\ z.extra = extra8 => z.size >= 2
  /\ z.extra \in {extra16, map16v, array16v} => z.size >= 3
  /\ z.extra \in {extra32, map32v, array32v} => z.size >= 5
  /\ b \in 160..191 <=> (z.typ = "str" /\ z.extra = 0)
  /\ z.typ = "bin" => z.extra < 0
  /\ z.typ = "ext" => z.size >= 3

LEMMA NamedEntries ==
  ASSUME NEW b \in 192..223
  PROVE  Entry(b, named[b - 191])
<1> DEFINE Goal == Entry(b, named[b - 191])
<1> USE DEF named, Entry, bytespec, Types, Fixeds, extra8, extra16, extra32,
            map16v, map32v, array16v, array32v
<1>1. ASSUME b \in 192..195 PROVE Goal
  BY <1>1
<1>2. ASSUME b \in 196..199 PROVE Goal
  BY <1>2
<1>3. ASSUME b \in 200..203 PROVE Goal
  BY <1>3
<1>4. ASSUME b \in 204..207 PROVE Goal
  BY <1>4
<1>5. ASSUME b \in 208..211 PROVE Goal
  BY <1>5
<1>6. ASSUME b \in 212..215 PROVE Goal
  BY <1>6
<1>7. ASSUME b \in 216..219 PROVE Goal
  BY <1>7
<1>8. ASSUME b \in 220..223 PROVE Goal
  BY <1>8
<1> HIDE DEF Goal, named, Entry
<1>9. Goal
  BY <1>1, <1>2, <1>3, <1>4, <1>5, <1>6, <1>7, <1>8
<1> QED
  BY <1>9 DEF Goal

LEMMA Entries ==
  ASSUME NEW b \in Byte
  PROVE  Entry(b, sizes[b])
<1> USE DEF bytespec, Types, Fixeds, extra8, extra16, extra32,
            map16v, map32v, array16v, array32v
<1>0. b \in Int /\ 0 <= b /\ b <= 255
  BY DEF Byte
<1>1. CASE b < 128
  <2>1. sizes[b] = bytespec(1, 0, "int")
    BY <1>0, <1>1, SMTT(40) DEF sizes, Byte
  <2> QED
    BY <1>0, <1>1, <2>1 DEF Entry
<1>2. CASE b \in 128..143
  <2>1. sizes[b] = bytespec(1, 2 * (b - 128), "map")
    BY <1>0, <1>2, SMTT(40) DEF sizes, Byte
  <2> QED
    BY <1>0, <1>2, <2>1 DEF Entry
<1>3. CASE b \in 144..159
  <2>1. sizes[b] = bytespec(1, b - 144, "array")
    BY <1>0, <1>3, SMTT(40) DEF sizes, Byte
  <2> QED
    BY <1>0, <1>3, <2>1 DEF Entry
<1>4. CASE b \in 160..191
  <2>1. sizes[b] = bytespec(1 + (b - 160), 0, "str")
    BY <1>0, <1>4, SMTT(40) DEF sizes, Byte
  <2> QED
    BY <1>0, <1>4, <2>1 DEF Entry
<1>5. CASE b \in 192..223
  <2>1. sizes[b] = named[b - 191]
    BY <1>0, <1>5, SMTT(40) DEF sizes, Byte
  <2> QED
    BY <1>5, <2>1, NamedEntries
<1>6. CASE b > 223
  <2>1. sizes[b] = bytespec(1, 0, "int")
    BY <1>0, <1>6 DEF sizes, Byte
  <2> QED
    BY <1>0, <1>6, <2>1 DEF Entry
<1> QED
  BY <1>0, <1>1, <1>2, <1>3, <1>4, <1>5, <1>6

(* The prefixes that readers compare with.                                 *)
LEMMA KnownEntries ==
  /\ sizes[muint64] = bytespec(9, 0, "uint")
  /\ sizes[mfixext8] = bytespec(10, 0, "ext")
  /\ sizes[mfixext16] = bytespec(18, 0, "ext")
  /\ sizes[mext8] = bytespec(3, extra8, "ext")
  /\ sizes[mfloat32] = bytespec(5, 0, "float32")
  /\ \A b \in 0..127 : sizes[b] = bytespec(1, 0, "int")
<1>1. \A b \in 192..223 : sizes[b] = named[b - 191]
  BY DEF sizes, Byte
<1>2. /\ sizes[207] = named[16] /\ sizes[215] = named[24] /\ sizes[216] = named[25]
      /\ sizes[199] = named[8] /\ sizes[202] = named[11]
  BY <1>1
<1>3. \A b \in 0..127 : sizes[b] = bytespec(1, 0, "int")
  BY DEF sizes, Byte
<1> QED
  BY <1>2, <1>3 DEF named, muint64, mfixext8, mfixext16, mext8, mfloat32

-----------------------------------------------------------------------------
(* The bytes that getSize reads are those of the prefix.                   *)

(* b holds as much of its prefix as SizedBy looks at.                      *)
Complete(z, b) == z.extra >= 0 \/ Len(b) >= z.size

LEMMA Modes ==
  ASSUME NEW z, NEW b, z.extra \in Int
  PROVE  /\ z.extra >= 0 => SizedBy(z, b) = Size(z.size, z.extra)
         /\ z.extra = extra8 => SizedBy(z, b) = Size(z.size + b[2], 0)
         /\ z.extra = extra16 => SizedBy(z, b) = Size(z.size + be16(b), 0)
         /\ z.extra = extra32 => SizedBy(z, b) = Size(z.size + be32(b), 0)
         /\ z.extra = map16v => SizedBy(z, b) = Size(z.size, 2 * be16(b))
         /\ z.extra = map32v => SizedBy(z, b) = Size(z.size, 2 * be32(b))
         /\ z.extra = array16v => SizedBy(z, b) = Size(z.size, be16(b))
         /\ z.extra = array32v => SizedBy(z, b) = Size(z.size, be32(b))
BY DEF SizedBy, extra8, extra16, extra32, map16v, map32v, array16v, array32v

LEMMA AllModes ==
  ASSUME NEW x \in -7..30
  PROVE  /\ \/ x >= 0 \/ x = extra8 \/ x = extra16 \/ x = extra32
            \/ x = map16v \/ x = map32v \/ x = array16v \/ x = array32v
         /\ \/ x >= 0 \/ x = extra8 \/ x \in {extra16, map16v, array16v}
            \/ x \in {extra32, map32v, array32v}
BY DEF extra8, extra16, extra32, map16v, map32v, array16v, array32v

LEMMA EntryFacts ==
  ASSUME NEW c, NEW z, Entry(c, z)
  PROVE  /\ z.size \in Nat /\ z.extra \in Int /\ z.extra \in -7..30
         /\ z.extra = extra8 =>
              z.size >= 2 /\ z.typ \in {"str", "bin", "ext"} /\ ~(z.extra >= 0)
         /\ z.extra = extra16 =>
              z.size >= 3 /\ z.typ \in {"str", "bin", "ext"} /\ ~(z.extra >= 0)
         /\ z.extra = extra32 =>
              z.size >= 5 /\ z.typ \in {"str", "bin", "ext"} /\ ~(z.extra >= 0)
         /\ z.extra = map16v => z.size >= 3 /\ z.typ = "map" /\ ~(z.extra >= 0)
         /\ z.extra = map32v => z.size >= 5 /\ z.typ = "map" /\ ~(z.extra >= 0)
         /\ z.extra = array16v => z.size >= 3 /\ z.typ = "array" /\ ~(z.extra >= 0)
         /\ z.extra = array32v => z.size >= 5 /\ z.typ = "array" /\ ~(z.extra >= 0)
<1>1. z.size \in 0..32 /\ z.extra \in -7..30
  BY DEF Entry
<1>2. z.size \in Nat /\ z.extra \in Int
  BY <1>1
<1>3. /\ z.extra = extra8 => z.size >= 2
      /\ z.extra \in {extra16, map16v, array16v} => z.size >= 3
      /\ z.extra \in {extra32, map32v, array32v} => z.size >= 5
  BY DEF Entry
<1>4. /\ z.extra \in {extra8, extra16, extra32} => z.typ \in {"str", "bin", "ext"}
      /\ z.extra \in {map16v, map32v} => z.typ = "map"
      /\ z.extra \in {array16v, array32v} => z.typ = "array"
  BY DEF Entry
<1> QED
  BY <1>1, <1>2, <1>3, <1>4
     DEF extra8, extra16, extra32, map16v, map32v, array16v, array32v

LEMMA ByteAt ==
  ASSUME NEW b \in Seq(Byte), NEW i \in Nat, 1 <= i, i <= Len(b)
  PROVE  b[i] \in Int /\ 0 <= b[i] /\ b[i] <= 255
<1>1. b[i] \in Byte
  BY LenProperties, ElementOfSeq
<1>2. \A x \in Byte : x \in Int /\ 0 <= x /\ x <= 255
  BY DEF Byte
<1> QED
  BY <1>1, <1>2, Zenon

LEMMA Be16 ==
  ASSUME NEW b \in Seq(Byte), Len(b) >= 3
  PROVE  be16(b) \in Nat
<1>1. Len(b) \in Nat
  BY LenProperties
<1>2. b[2] \in Int /\ 0 <= b[2] /\ b[3] \in Int /\ 0 <= b[3]
  BY <1>1, ByteAt
<1> QED
  BY <1>2 DEF be16

LEMMA Be32 ==
  ASSUME NEW b \in Seq(Byte), Len(b) >= 5
  PROVE  be32(b) \in Nat
<1>1. Len(b) \in Nat
  BY LenProperties
<1>2. /\ b[2] \in Int /\ 0 <= b[2] /\ b[3] \in Int /\ 0 <= b[3]
      /\ b[4] \in Int /\ 0 <= b[4] /\ b[5] \in Int /\ 0 <= b[5]
  BY <1>1, ByteAt
<1> QED
  BY <1>2, SMTT(40) DEF be32

(* What SizedBy can answer for an entry z.                                 *)
InRange(z, g) ==
  /\ g.err = "none" /\ g.v \in Nat /\ g.o \in Nat /\ g.v >= z.size
  /\ z.typ \in Fixeds \cup {"str", "bin", "ext"} => g.o = 0
  /\ z.typ \in {"map", "array"} => g.v = z.size
  /\ z.typ = "map" => g.o % 2 = 0
  /\ z.extra >= 0 => g.v = z.size /\ g.o = z.extra

LEMMA SizedRange ==
  ASSUME NEW c, NEW z, Entry(c, z), NEW b \in Seq(Byte), Complete(z, b)
  PROVE  InRange(z, SizedBy(z, b))
<1>1. Len(b) \in Nat /\ (z.extra >= 0 \/ Len(b) >= z.size)
  BY LenProperties DEF Complete
<1>2. z.size \in Nat /\ z.extra \in -7..30 /\ z.extra \in Int
  BY EntryFacts
<1> DEFINE g == SizedBy(z, b)
<1>5. CASE z.extra >= 0
  <2>1. g = Size(z.size, z.extra)
    BY <1>2, <1>5, Modes
  <2>2. /\ z.typ \in Fixeds \cup {"str", "bin", "ext"} => z.extra = 0
        /\ z.typ = "map" => z.extra % 2 = 0
    <3>1. z.extra > 0 => z.typ \in {"map", "array"}
      BY DEF Entry
    <3>2. z.typ = "map" /\ z.extra >= 0 => z.extra % 2 = 0
      BY DEF Entry
    <3> QED
      BY <1>2, <1>5, <3>1, <3>2 DEF Fixeds
  <2> QED
    BY <1>2, <1>5, <2>1, <2>2 DEF InRange, Size
<1>6. CASE z.extra = extra8
  <2>1. g = Size(z.size + b[2], 0) /\ z.typ \in {"str", "bin", "ext"} /\ ~(z.extra >= 0)
    BY <1>2, <1>6, Modes, EntryFacts
  <2>2. b[2] \in Nat
    <3>1. Len(b) >= 2
      BY <1>1, <1>2, <1>6, <2>1, EntryFacts
    <3> QED
      BY <1>1, <3>1, ByteAt
  <2> QED
    BY <1>2, <2>1, <2>2 DEF InRange, Size, Fixeds
<1>7. CASE z.extra = extra16
  <2>1. g = Size(z.size + be16(b), 0) /\ z.typ \in {"str", "bin", "ext"} /\ ~(z.extra >= 0)
    BY <1>2, <1>7, Modes, EntryFacts
  <2>2. be16(b) \in Nat
    <3>1. Len(b) >= 3
      BY <1>1, <1>2, <1>7, <2>1, EntryFacts
    <3> QED
      BY <3>1, Be16
  <2> QED
    BY <1>2, <2>1, <2>2 DEF InRange, Size, Fixeds
<1>8. CASE z.extra = extra32
  <2>1. g = Size(z.size + be32(b), 0) /\ z.typ \in {"str", "bin", "ext"} /\ ~(z.extra >= 0)
    BY <1>2, <1>8, Modes, EntryFacts
  <2>2. be32(b) \in Nat
    <3>1. Len(b) >= 5
      BY <1>1, <1>2, <1>8, <2>1, EntryFacts
    <3> QED
      BY <3>1, Be32
  <2> QED
    BY <1>2, <2>1, <2>2 DEF InRange, Size, Fixeds
<1>9. CASE z.extra = map16v
  <2>1. g = Size(z.size, 2 * be16(b)) /\ z.typ = "map" /\ ~(z.extra >= 0)
    BY <1>2, <1>9, Modes, EntryFacts
  <2>2. be16(b) \in Nat
    <3>1. Len(b) >= 3
      BY <1>1, <1>2, <1>9, <2>1, EntryFacts
    <3> QED
      BY <3>1, Be16
  <2> QED
    BY <1>2, <2>1, <2>2 DEF InRange, Size, Fixeds
<1>10. CASE z.extra = map32v
  <2>1. g = Size(z.size, 2 * be32(b)) /\ z.typ = "map" /\ ~(z.extra >= 0)
    BY <1>2, <1>10, Modes, EntryFacts
  <2>2. be32(b) \in Nat
    <3>1. Len(b) >= 5
      BY <1>1, <1>2, <1>10, <2>1, EntryFacts
    <3> QED
      BY <3>1, Be32
  <2> QED
    BY <1>2, <2>1, <2>2 DEF InRange, Size, Fixeds
<1>11. CASE z.extra = array16v
  <2>1. g = Size(z.size, be16(b)) /\ z.typ = "array" /\ ~(z.extra >= 0)
    BY <1>2, <1>11, Modes, EntryFacts
  <2>2. be16(b) \in Nat
    <3>1. Len(b) >= 3
      BY <1>1, <1>2, <1>11, <2>1, EntryFacts
    <3> QED
      BY <3>1, Be16
  <2> QED
    BY <1>2, <2>1, <2>2 DEF InRange, Size, Fixeds
<1>12. CASE z.extra = array32v
  <2>1. g = Size(z.size, be32(b)) /\ z.typ = "array" /\ ~(z.extra >= 0)
    BY <1>2, <1>12, Modes, EntryFacts
  <2>2. be32(b) \in Nat
    <3>1. Len(b) >= 5
      BY <1>1, <1>2, <1>12, <2>1, EntryFacts
    <3> QED
      BY <3>1, Be32
  <2> QED
    BY <1>2, <2>1, <2>2 DEF InRange, Size, Fixeds
<1>13. \/ z.extra >= 0 \/ z.extra = extra8 \/ z.extra = extra16 \/ z.extra = extra32
       \/ z.extra = map16v \/ z.extra = map32v \/ z.extra = array16v \/ z.extra = array32v
  BY <1>2, AllModes, Zenon
<1> QED
  BY <1>5, <1>6, <1>7, <1>8, <1>9, <1>10, <1>11, <1>12, <1>13, Zenon

(* Two sequences that agree on the prefix have the same sizes.             *)
LEMMA SizedSame ==
  ASSUME NEW c, NEW z, Entry(c, z), NEW b \in Seq(Byte), NEW d \in Seq(Byte),
         Complete(z, b), Len(b) <= Len(d),
         \A i \in 1..Len(b) : b[i] = d[i]
  PROVE  SizedBy(z, b) = SizedBy(z, d)
<1>1. Len(b) \in Nat /\ Len(d) \in Nat /\ (z.extra >= 0 \/ Len(b) >= z.size)
  BY LenProperties DEF Complete
<1>2. z.size \in Nat /\ z.extra \in -7..30 /\ z.extra \in Int
  BY EntryFacts
<1>3. CASE z.extra >= 0
  BY <1>2, <1>3, Modes
<1>4. CASE z.extra = extra8
  <2>1. b[2] = d[2]
    BY <1>1, <1>2, <1>4, EntryFacts
  <2> QED
    BY <1>2, <1>4, <2>1, Modes
<1>5. CASE z.extra \in {extra16, map16v, array16v}
  <2>1. be16(b) = be16(d)
    <3>1. Len(b) >= 3
      BY <1>1, <1>2, <1>5, EntryFacts
    <3> QED
      BY <1>1, <3>1 DEF be16
  <2> QED
    BY <1>2, <1>5, <2>1, Modes
<1>6. CASE z.extra \in {extra32, map32v, array32v}
  <2>1. be32(b) = be32(d)
    <3>1. Len(b) >= 5
      BY <1>1, <1>2, <1>6, EntryFacts
    <3> QED
      BY <1>1, <3>1 DEF be32
  <2> QED
    BY <1>2, <1>6, <2>1, Modes
<1>7. \/ z.extra >= 0 \/ z.extra = extra8 \/ z.extra \in {extra16, map16v, array16v}
      \/ z.extra \in {extra32, map32v, array32v}
  BY <1>2, AllModes, Zenon
<1> QED
  BY <1>3, <1>4, <1>5, <1>6, <1>7, Zenon


(* What getSize finds is the entry's, and never nothing.                   *)
LEMMA GetSize ==
  ASSUME NEW b \in Seq(Byte), getSize(b).err = "none"
  PROVE  /\ b # <<>> /\ getSize(b) = SizedBy(sizes[b[1]], b)
         /\ Complete(sizes[b[1]], b) /\ sizes[b[1]].size > 0
         /\ getSize(b).v \in Nat /\ getSize(b).v > 0 /\ getSize(b).o \in Nat
<1>1. b # <<>>
  BY DEF getSize, NoSize
<1>2. getSize(b) = getSizeBy(sizes[b[1]], b)
  BY <1>1 DEF getSize
<1>3. b[1] \in Byte /\ Len(b) \in Nat
  BY <1>1, LenProperties, EmptySeq, ElementOfSeq
<1> DEFINE z == sizes[b[1]]
<1>4. Entry(b[1], z)
  BY <1>3, Entries
<1>5. z.size \in Nat /\ z.extra \in Int
  BY <1>4, EntryFacts
<1> HIDE DEF z
<1>6. getSize(b) = SizedBy(z, b) /\ z.size # 0 /\ ~(z.extra < 0 /\ Len(b) < z.size)
  BY <1>2 DEF getSizeBy, NoSize, z
<1>7. Complete(z, b) /\ z.size > 0
  BY <1>3, <1>5, <1>6 DEF Complete
<1>8. InRange(z, SizedBy(z, b))
  BY <1>4, <1>7, SizedRange
<1>9. getSize(b).v \in Nat /\ getSize(b).v >= z.size /\ getSize(b).o \in Nat
  BY <1>6, <1>8 DEF InRange
<1> QED
  BY <1>1, <1>5, <1>6, <1>7, <1>9 DEF z

-----------------------------------------------------------------------------
(* Induction: the prover cannot instantiate the library's rule, whose      *)
(* parameter is an operator, so this one is about a set and follows from   *)
(* the existence of a smallest element.                                    *)
LEMMA Induction ==
  ASSUME NEW S, 0 \in S, \A n \in Nat : n \in S => n + 1 \in S
  PROVE  Nat \subseteq S
<1> DEFINE T == Nat \ S
           R == {q \in Nat \X Nat : q[1] < q[2]}
<1> SUFFICES ASSUME T # {} PROVE FALSE
  OBVIOUS
<1>1. IsWellFoundedOn(R, Nat)
  BY NatLessThanWellFounded, Zenon DEF OpToRel
<1>2. T \subseteq Nat
  OBVIOUS
<1>3. \E x \in T : \A y \in T : ~ (<<y, x>> \in R)
  <2> HIDE DEF R, T
  <2> QED
    BY <1>1, <1>2, WFMin
<1>4. PICK x \in T : \A y \in T : <<y, x>> \notin R
  BY <1>3
<1>5. x # 0 /\ x \in Nat /\ x \notin S
  OBVIOUS
<1>6. x - 1 \in Nat /\ (x - 1) + 1 = x
  BY <1>5
<1>7. x - 1 \in T
  BY <1>5, <1>6
<1>8. <<x - 1, x>> \in R
  BY <1>5, <1>6
<1> QED
  BY <1>4, <1>7, <1>8

(* One turn of the loop of Skip.                                           *)
Ahead(b, i) == SubSeq(b, i + 1, Len(b))
SkipOne(b, skip, i, left) ==
  IF left = 0 THEN [end |-> i, err |-> "none"]
  ELSE IF getSize(Ahead(b, i)).err # "none"
    THEN [end |-> i, err |-> getSize(Ahead(b, i)).err]
  ELSE IF Len(b) - i < getSize(Ahead(b, i)).v THEN [end |-> i, err |-> "short"]
  ELSE skip[i + getSize(Ahead(b, i)).v][left - 1 + getSize(Ahead(b, i)).o]

LEMMA AheadIs ==
  ASSUME NEW b \in Seq(Byte), NEW i \in Nat
  PROVE  Ahead(b, i) \in Seq(Byte) /\ (Len(b) <= i => Ahead(b, i) = <<>>)
<1>1. Len(b) \in Nat /\ i + 1 \in Int /\ i + 1 >= 1
  BY LenProperties
<1>2. Ahead(b, i) \in Seq(Byte)
  BY <1>1, SubSeqProperties DEF Ahead
<1>3. Len(b) <= i => Ahead(b, i) = <<>>
  BY <1>1 DEF Ahead
<1> QED
  BY <1>2, <1>3

(* There is a function as the definition of Skips asks for: every turn     *)
(* moves on, so its value at a place rests on places behind it only.       *)
LEMMA SkipExists ==
  ASSUME NEW b \in Seq(Byte)
  PROVE  \E f : f = [i \in Nat |-> [left \in Nat |-> SkipOne(b, f, i, left)]]
<1> DEFINE Row(f, i) == [left \in Nat |-> SkipOne(b, f, i, left)]
           Upto(f, n) == \A i \in Nat : Len(b) <= i + n => f[i] = Row(f, i)
           S == {n \in Nat : \E f : f = [i \in Nat |-> f[i]] /\ Upto(f, n)}
<1>0. Len(b) \in Nat
  BY LenProperties
<1>1. ASSUME NEW f, NEW g, NEW n \in Nat, NEW i \in Nat, Len(b) <= i + n + 1,
             \A j \in Nat : Len(b) <= j + n => f[j] = g[j]
      PROVE  Row(f, i) = Row(g, i)
  <2>1. SUFFICES ASSUME NEW left \in Nat
                 PROVE  SkipOne(b, f, i, left) = SkipOne(b, g, i, left)
    BY Zenon
  <2> DEFINE s == getSize(Ahead(b, i))
  <2>2. CASE left # 0 /\ s.err = "none"
    <3>1. s.v \in Nat /\ s.v > 0
      BY <2>2, AheadIs, GetSize
    <3>2. i + s.v \in Nat /\ Len(b) <= (i + s.v) + n
      BY <1>0, <1>1, <3>1
    <3>3. f[i + s.v] = g[i + s.v]
      BY <1>1, <3>2
    <3> QED
      BY <2>2, <3>3 DEF SkipOne
  <2>3. CASE ~(left # 0 /\ s.err = "none")
    BY <2>3 DEF SkipOne
  <2> QED
    BY <2>2, <2>3
<1>2. 0 \in S
  <2> DEFINE z == [j \in Nat |-> 0]
             f == [i \in Nat |-> [left \in Nat |-> SkipOne(b, z, i, left)]]
  <2>1. \A i \in Nat : f[i] = Row(z, i)
    BY Zenon
  <2>2. f = [i \in Nat |-> f[i]]
    BY Zenon
  <2> HIDE DEF f, z
  <2>3. \A i \in Nat : Len(b) <= i + 0 => Row(z, i) = Row(f, i)
    <3> SUFFICES ASSUME NEW i \in Nat, Len(b) <= i, NEW left \in Nat
                 PROVE  SkipOne(b, z, i, left) = SkipOne(b, f, i, left)
      BY <1>0
    <3>1. getSize(Ahead(b, i)).err # "none"
      BY AheadIs DEF getSize, NoSize
    <3> QED
      BY <3>1 DEF SkipOne
  <2> QED
    BY <2>1, <2>2, <2>3, ZenonT(40)
<1>3. ASSUME NEW n \in Nat, n \in S PROVE n + 1 \in S
  <2>1. PICK f : f = [i \in Nat |-> f[i]] /\ Upto(f, n)
    BY <1>3
  <2> DEFINE g == [i \in Nat |-> [left \in Nat |-> SkipOne(b, f, i, left)]]
  <2>2. \A i \in Nat : g[i] = Row(f, i)
    BY Zenon
  <2>3. g = [i \in Nat |-> g[i]]
    BY Zenon
  <2> HIDE DEF g
  <2>4. \A j \in Nat : Len(b) <= j + n => f[j] = g[j]
    BY <2>1, <2>2
  <2> HIDE DEF Row
  <2>5. \A i \in Nat : Len(b) <= i + n + 1 => Row(f, i) = Row(g, i)
    BY <1>1, <2>4
  <2>6. Upto(g, n + 1)
    BY <1>0, <2>2, <2>5
  <2> QED
    BY <2>3, <2>6
<1>4. Len(b) \in S
  <2> HIDE DEF S
  <2>1. \A n \in Nat : n \in S => n + 1 \in S
    BY <1>3
  <2> QED
    BY <1>0, <1>2, <2>1, Induction
<1>5. PICK f : f = [i \in Nat |-> f[i]] /\ Upto(f, Len(b))
  BY <1>4
<1>6. \A i \in Nat : f[i] = Row(f, i)
  BY <1>0, <1>5
<1>7. f = [i \in Nat |-> Row(f, i)]
  <2> HIDE DEF Row
  <2>1. [i \in Nat |-> f[i]] = [i \in Nat |-> Row(f, i)]
    BY <1>6
  <2> QED
    BY <1>5, <2>1
<1> QED
  BY <1>7

(* So Skips is that function.                                              *)
LEMMA SkipTurns ==
  ASSUME NEW b \in Seq(Byte), NEW i \in Nat, NEW left \in Nat
  PROVE  Skips(b)[i][left] = SkipOne(b, Skips(b), i, left)
<1> DEFINE P(g) == g = [j \in Nat |-> [l \in Nat |-> SkipOne(b, g, j, l)]]
<1>1. Skips(b) = CHOOSE g : P(g)
  BY DEF Skips, SkipOne, Ahead
<1>2. \E g : P(g)
  BY SkipExists
<1> HIDE DEF P
<1>3. P(CHOOSE g : P(g))
  BY <1>2, Zenon
<1>4. P(Skips(b))
  BY <1>1, <1>3, Zenon
<1>5. Skips(b) = [j \in Nat |-> [l \in Nat |-> SkipOne(b, Skips(b), j, l)]]
  BY <1>4 DEF P
<1> DEFINE f == Skips(b)
<1> HIDE DEF f
<1>6. f = [j \in Nat |-> [l \in Nat |-> SkipOne(b, f, j, l)]]
  BY <1>5 DEF f
<1>7. f[i] = [l \in Nat |-> SkipOne(b, f, i, l)]
  BY <1>6, Zenon
<1>8. f[i][left] = SkipOne(b, f, i, left)
  BY <1>7, Zenon
<1> QED
  BY <1>8 DEF f

(* What a turn does.                                                       *)
LEMMA SkipCases ==
  ASSUME NEW b \in Seq(Byte), NEW i \in Nat, NEW left \in Nat
  PROVE  LET f == Skips(b)
             g == getSize(Ahead(b, i))
         IN  /\ left = 0 => f[i][left] = [end |-> i, err |-> "none"]
             /\ left > 0 /\ g.err # "none" => f[i][left] = [end |-> i, err |-> g.err]
             /\ left > 0 /\ g.err = "none" /\ Len(b) < i + g.v =>
                  f[i][left] = [end |-> i, err |-> "short"]
             /\ left > 0 /\ g.err = "none" /\ i + g.v <= Len(b) =>
                  f[i][left] = f[i + g.v][left - 1 + g.o]
<1> DEFINE f == Skips(b)
           g == getSize(Ahead(b, i))
<1>1. f[i][left] = SkipOne(b, f, i, left)
  BY SkipTurns
<1>2. Len(b) \in Nat /\ (g.err = "none" => g.v \in Nat)
  BY LenProperties, AheadIs, GetSize
<1>3. g.err = "none" => /\ Len(b) < i + g.v => Len(b) - i < g.v
                        /\ i + g.v <= Len(b) => ~(Len(b) - i < g.v)
  BY <1>2
<1> QED
  BY <1>1, <1>3 DEF SkipOne
=============================================================================
