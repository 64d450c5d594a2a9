----------------------------- MODULE JsonProofs -----------------------------
(***************************************************************************)
(* The two translators to JSON hand on all they have written when they     *)
(* return nil, and WriteToJSON returns nil only at the end of the stream.  *)
(***************************************************************************)
EXTENDS Json, WireProofs

LEMMA StreamTable == S!sizes = sizes
BY Zenon DEF S!sizes, sizes, S!Byte, Byte, S!named, named, S!bytespec, bytespec,
       S!extra8, extra8, S!extra16, extra16, S!extra32, extra32, S!map16v, map16v,
       S!map32v, map32v, S!array16v, array16v, S!array32v, array32v

LEMMA StreamSized ==
  ASSUME NEW z, NEW b PROVE S!SizedBy(z, b) = SizedBy(z, b)
BY DEF S!SizedBy, SizedBy, S!Size, Size, S!be16, be16, S!be32, be32,
       S!extra8, extra8, S!extra16, extra16, S!extra32, extra32, S!map16v, map16v,
       S!map32v, map32v, S!array16v, array16v, S!array32v, array32v

-----------------------------------------------------------------------------
(* The next object of v is cut short.                                      *)
Cut(v) ==
  \/ v = <<>>
  \/ /\ sizes[v[1]].size > 0
     /\ \/ ~Complete(sizes[v[1]], v)
        \/ /\ Complete(sizes[v[1]], v)
           /\ Len(v) < SizedBy(sizes[v[1]], v).v

LEMMA CutIsShort ==
  ASSUME NEW b \in Seq(Byte), NEW i \in Nat, Cut(From(b, i))
  PROVE  Skip(b, i).err = "short"
<1> DEFINE v == Ahead(b, i)
           g == getSize(v)
           f == Skips(b)
<1>0. From(b, i) = v /\ v \in Seq(Byte) /\ Len(b) \in Nat
  BY AheadIs, LenProperties DEF From, Ahead
<1>1. /\ g.err # "none" => f[i][1] = [end |-> i, err |-> g.err]
      /\ g.err = "none" /\ Len(b) < i + g.v => f[i][1] = [end |-> i, err |-> "short"]
  <2> DEFINE one == 1
  <2>1. one \in Nat /\ one > 0
    OBVIOUS
  <2> HIDE DEF one
  <2>2. /\ g.err # "none" => f[i][one] = [end |-> i, err |-> g.err]
        /\ g.err = "none" /\ Len(b) < i + g.v => f[i][one] = [end |-> i, err |-> "short"]
    BY <2>1, SkipCases
  <2> QED BY <2>2 DEF one
<1>2. CASE v = <<>>
  <2>1. g.err = "short"
    BY <1>2 DEF getSize, NoSize
  <2> QED BY <1>1, <2>1 DEF Skip
<1>3. CASE v # <<>>
  <2> DEFINE z == sizes[v[1]]
  <2>1. v[1] \in Byte /\ Len(v) \in Nat
    BY <1>0, <1>3, LenProperties, EmptySeq, ElementOfSeq
  <2>2. Entry(v[1], z) /\ z.size \in Nat /\ z.extra \in Int
    BY <2>1, Entries, EntryFacts
  <2>3. g = getSizeBy(z, v)
    BY <1>3 DEF getSize
  <2>4. /\ z.size > 0
        /\ ~Complete(z, v) \/ (Complete(z, v) /\ Len(v) < SizedBy(z, v).v)
    BY <1>0, <1>3 DEF Cut
  <2>5. i < Len(b) /\ Len(v) = Len(b) - i
    <3>1. i < Len(b)
      BY <1>0, <1>3, AheadIs
    <3> QED BY <1>0, <3>1, SubSeqProperties DEF Ahead
  <2> HIDE DEF z, g, v
  <2>6. CASE ~Complete(z, v)
    <3>1. z.size # 0 /\ z.extra < 0 /\ Len(v) < z.size
      BY <2>1, <2>2, <2>4, <2>6 DEF Complete
    <3>2. g.err = "short"
      BY <2>3, <3>1 DEF getSizeBy, NoSize
    <3> QED BY <1>1, <3>2 DEF Skip
  <2>7. CASE Complete(z, v) /\ Len(v) < SizedBy(z, v).v
    <3>1. z.size # 0 /\ ~(z.extra < 0 /\ Len(v) < z.size)
      BY <2>1, <2>2, <2>4, <2>7 DEF Complete
    <3>2. g = SizedBy(z, v)
      BY <2>3, <3>1 DEF getSizeBy
    <3>3. g.err = "none" /\ g.v \in Nat /\ Len(v) < g.v
      BY <1>0, <2>2, <2>7, <3>2, SizedRange DEF InRange
    <3>4. Len(b) < i + g.v
      BY <1>0, <2>5, <3>3
    <3> QED BY <1>1, <3>3, <3>4 DEF Skip
  <2> QED BY <2>4, <2>6, <2>7
<1> QED BY <1>2, <1>3

(* Entries of the table whose type says more.                              *)
LEMMA FloatEntries ==
  ASSUME NEW b \in Byte
  PROVE  /\ sizes[b].typ = "float32" => b = mfloat32 /\ sizes[b].size = 5
         /\ sizes[b].typ = "float64" => b = mfloat64 /\ sizes[b].size = 9
<1> USE DEF bytespec
<1> DEFINE Goal == /\ sizes[b].typ = "float32" => b = 202 /\ sizes[b].size = 5
                   /\ sizes[b].typ = "float64" => b = 203 /\ sizes[b].size = 9
<1>0. b \in Int /\ 0 <= b /\ b <= 255
  BY DEF Byte
<1>1. CASE b < 128
  <2>1. sizes[b] = bytespec(1, 0, "int")
    BY <1>0, <1>1, SMTT(40) DEF sizes, Byte
  <2> QED BY <2>1
<1>2. CASE b \in 128..143
  <2>1. sizes[b] = bytespec(1, 2 * (b - 128), "map")
    BY <1>0, <1>2, SMTT(40) DEF sizes, Byte
  <2> QED BY <2>1
<1>3. CASE b \in 144..159
  <2>1. sizes[b] = bytespec(1, b - 144, "array")
    BY <1>0, <1>3, SMTT(40) DEF sizes, Byte
  <2> QED BY <2>1
<1>4. CASE b \in 160..191
  <2>1. sizes[b] = bytespec(1 + (b - 160), 0, "str")
    BY <1>0, <1>4, SMTT(40) DEF sizes, Byte
  <2> QED BY <2>1
<1>5. CASE b > 223
  <2>1. sizes[b] = bytespec(1, 0, "int")
    BY <1>0, <1>5, SMTT(40) DEF sizes, Byte
  <2> QED BY <2>1
<1>6. CASE b \in 192..223
  <2>0. sizes[b] = named[b - 191]
    BY <1>0, <1>6, SMTT(40) DEF sizes, Byte
  <2>1. ASSUME b \in 192..199 PROVE Goal
    BY <2>0, <2>1 DEF named
  <2>2. ASSUME b \in 200..207 PROVE Goal
    BY <2>0, <2>2 DEF named
  <2>3. ASSUME b \in 208..215 PROVE Goal
    BY <2>0, <2>3 DEF named
  <2>4. ASSUME b \in 216..223 PROVE Goal
    BY <2>0, <2>4 DEF named
  <2> HIDE DEF Goal
  <2>5. Goal
    BY <1>6, <2>1, <2>2, <2>3, <2>4
  <2> QED BY <2>5 DEF Goal, mfloat32, mfloat64
<1> QED BY <1>0, <1>1, <1>2, <1>3, <1>4, <1>5, <1>6

(* An object that is not empty: its prefix byte and its entry.             *)
LEMMA HeadEntry ==
  ASSUME NEW v \in Seq(Byte), v # <<>>
  PROVE  /\ v[1] \in Byte /\ Len(v) \in Nat /\ Len(v) >= 1
         /\ Entry(v[1], sizes[v[1]])
         /\ sizes[v[1]].size \in Nat /\ sizes[v[1]].extra \in Int
         /\ sizes[v[1]].typ \in Fixeds => sizes[v[1]].extra = 0
<1>1. v[1] \in Byte /\ Len(v) \in Nat /\ Len(v) >= 1
  BY LenProperties, EmptySeq, ElementOfSeq
<1> DEFINE z == sizes[v[1]]
<1>2. Entry(v[1], z) /\ z.size \in Nat /\ z.extra \in Int /\ z.extra \in -7..30
  BY <1>1, Entries, EntryFacts
<1> HIDE DEF z
<1>3. ASSUME z.typ \in Fixeds PROVE z.extra = 0
  <2>1. z.typ \notin {"str", "bin", "ext"} /\ z.typ # "map" /\ z.typ # "array"
    BY <1>3 DEF Fixeds
  <2>2. /\ z.extra \notin {extra8, extra16, extra32}
        /\ z.extra \notin {map16v, map32v} /\ z.extra \notin {array16v, array32v}
        /\ ~(z.extra > 0)
    BY <1>2, <2>1 DEF Entry
  <2>3. z.extra >= 0
    BY <1>2, <2>2, AllModes
  <2> QED BY <1>2, <2>2, <2>3
<1> QED BY <1>1, <1>2, <1>3 DEF z

-----------------------------------------------------------------------------
(* What the methods of the Reader answer: io.EOF only when the object is   *)
(* cut short, or is no time.                                               *)

Ending(v) == Cut(v) \/ ForeignTime(v)

Fine(t, v) ==
  /\ t.do \in {"ask", "err", "take"}
  /\ t.do # "ask" => t.n \in Nat /\ t.body \in Nat
  /\ t.e # "nil" /\ (t.e = "EOF" => t.do = "ask" /\ Ending(v))

LEMMA Answers ==
  ASSUME NEW k, NEW e
  PROVE  /\ S!Ask(k, e).do = "ask" /\ S!Ask(k, e).e = e
         /\ S!TakeErr(k, e).do = "err" /\ S!TakeErr(k, e).e = e
         /\ S!TakeErr(k, e).n = k /\ S!TakeErr(k, e).body = 0
         /\ S!Err(e).do = "err" /\ S!Err(e).e = e /\ S!Err(e).n = 0 /\ S!Err(e).body = 0
BY DEF S!Ask, S!TakeErr, S!Err

LEMMA BadPrefix ==
  ASSUME NEW b
  PROVE  /\ S!badPrefix(b).do = "err" /\ S!badPrefix(b).e \in {"invalid", "type"}
         /\ S!badPrefix(b).n = 0 /\ S!badPrefix(b).body = 0
BY Answers DEF S!badPrefix

LEMMA TakeFine ==
  ASSUME NEW k \in Nat, NEW m \in Nat, NEW ms, NEW v
  PROVE  Fine(S!Take(k, m, ms), v) /\ Fine(S!TakeWhole(k, m), v)
BY DEF Fine, S!Take, S!TakeWhole

LEMMA ErrFine ==
  ASSUME NEW k \in Nat, NEW e, e # "EOF", e # "nil", NEW v
  PROVE  Fine(S!TakeErr(k, e), v) /\ Fine(S!Err(e), v) /\ Fine(S!Ask(k, e), v)
BY Answers DEF Fine

LEMMA PrefixFine ==
  ASSUME NEW b, NEW v PROVE Fine(S!badPrefix(b), v)
BY BadPrefix DEF Fine

LEMMA AskFine ==
  ASSUME NEW k, NEW v, Ending(v) PROVE Fine(S!Ask(k, "EOF"), v)
BY Answers DEF Fine

(* Fewer bytes than the table has for the prefix.                          *)
LEMMA LessIsCut ==
  ASSUME NEW v \in Seq(Byte), v # <<>>, sizes[v[1]].size > 0,
         Len(v) < sizes[v[1]].size
  PROVE  Cut(v)
<1> DEFINE z == sizes[v[1]]
<1>1. z.size \in Nat /\ z.extra \in Int /\ Len(v) \in Nat
  BY HeadEntry
<1> HIDE DEF z
<1>2. z.extra >= 0 => SizedBy(z, v).v = z.size
  BY <1>1, Modes DEF Size
<1>3. z.size > 0 /\ (~Complete(z, v) \/ (Complete(z, v) /\ Len(v) < SizedBy(z, v).v))
  BY <1>1, <1>2 DEF z, Complete
<1> QED BY <1>3 DEF Cut, z

LEMMA FixedFine ==
  ASSUME NEW v \in Seq(Byte), v # <<>>, sizes[v[1]].size > 0,
         NEW peek \in Nat, peek <= sizes[v[1]].size, NEW want
  PROVE  Fine(S!Fixed(v, peek, want), v)
<1> DEFINE n == sizes[v[1]].size
<1>1. n \in Nat /\ Len(v) \in Nat /\ S!sizes = sizes
  BY HeadEntry, StreamTable
<1> HIDE DEF n
<1>2. CASE Len(v) < peek
  <2>1. Len(v) < n
    BY <1>1, <1>2 DEF n
  <2>2. Cut(v)
    BY <2>1, LessIsCut DEF n
  <2> QED BY <1>2, <2>2, AskFine DEF S!Fixed, Ending
<1>3. CASE ~(Len(v) < peek)
  <2>1. \/ S!Fixed(v, peek, want) = S!badPrefix(v[1])
        \/ S!Fixed(v, peek, want) = S!Ask(n, "unexpected")
        \/ S!Fixed(v, peek, want) = S!Take(n, 0, <<>>)
    BY <1>1, <1>3 DEF S!Fixed, n
  <2>2. Fine(S!badPrefix(v[1]), v) /\ Fine(S!Ask(n, "unexpected"), v)
    BY <1>1, ErrFine, PrefixFine
  <2>3. 0 \in Nat
    OBVIOUS
  <2>4. Fine(S!Take(n, 0, <<>>), v)
    BY <1>1, <2>3, TakeFine
  <2> QED BY <2>1, <2>2, <2>4
<1> QED BY <1>2, <1>3

(* A prefix: its size and that of the object.                              *)
LEMMA HeaderFine ==
  ASSUME NEW v \in Seq(Byte), NEW want, want \subseteq {"str", "bin", "map", "array"}
  PROVE  LET g == S!Header(v, want) IN
         /\ g.do \in {"found", "ask", "err"}
         /\ g.do # "found" => Fine(g, v)
         /\ g.do = "found" => g.h \in Nat /\ g.v \in Nat /\ g.h <= g.v
<1> DEFINE g == S!Header(v, want)
<1> HIDE DEF g
<1>1. CASE v = <<>>
  <2>1. g = S!Ask(1, "EOF") /\ Ending(v)
    BY <1>1 DEF g, S!Header, Ending, Cut
  <2>2. Fine(g, v) /\ g.do = "ask"
    BY <2>1, AskFine, Answers
  <2> QED BY <2>2 DEF g
<1>2. CASE v # <<>>
  <2> DEFINE z == sizes[v[1]]
             h == IF v[1] \in 160..191 THEN 1 ELSE z.size
  <2>1. g = S!HeaderBy(z, v, want)
    BY <1>2, StreamTable DEF g, S!Header
  <2>2. Entry(v[1], z) /\ z.size \in Nat /\ z.extra \in Int /\ Len(v) \in Nat
    BY <1>2, HeadEntry
  <2> HIDE DEF z
  <2>3. \/ g = S!badPrefix(v[1])
        \/ g = S!Ask(h, "unexpected")
        \/ /\ z.typ \in want /\ ~(Len(v) < h)
           /\ g = S!Found(h, SizedBy(z, v))
    BY <2>1, StreamSized DEF S!HeaderBy
  <2>4. CASE g = S!badPrefix(v[1])
    <3>1. Fine(g, v)
      BY <2>4, PrefixFine
    <3>2. g.do = "err"
      BY <2>4, BadPrefix
    <3> QED BY <3>1, <3>2 DEF g
  <2>5. CASE g = S!Ask(h, "unexpected")
    <3>1. Fine(g, v) /\ g.do = "ask"
      BY <2>5, Answers DEF Fine
    <3> QED BY <3>1 DEF g
  <2>6. CASE /\ z.typ \in want /\ ~(Len(v) < h)
             /\ g = S!Found(h, SizedBy(z, v))
    <3>1. h \in Nat /\ h <= z.size /\ Complete(z, v)
      <4>1. z.typ \in {"str", "bin", "map", "array"}
        BY <2>6
      <4>2. z.size # 0
        BY <2>2, <4>1 DEF Entry
      <4>3. v[1] \in 160..191 => z.extra = 0
        BY <2>2 DEF Entry
      <4>4. CASE v[1] \in 160..191
        <5>1. h = 1
          BY <4>4
        <5> QED BY <2>2, <4>2, <4>3, <4>4, <5>1 DEF Complete
      <4>5. CASE v[1] \notin 160..191
        <5>1. h = z.size
          BY <4>5
        <5>2. ~(Len(v) < z.size)
          BY <2>6, <5>1
        <5>3. Complete(z, v)
          BY <2>2, <5>2 DEF Complete
        <5>4. h \in Nat /\ h <= z.size
          <6> HIDE DEF h
          <6> QED BY <2>2, <5>1
        <5> QED BY <5>3, <5>4
      <4> QED BY <4>4, <4>5
    <3>2. InRange(z, SizedBy(z, v))
      BY <2>2, <3>1, SizedRange
    <3>3. SizedBy(z, v).v \in Nat /\ z.size <= SizedBy(z, v).v
      BY <2>2, <3>2 DEF InRange
    <3> HIDE DEF h
    <3>4. g.do = "found" /\ g.h = h /\ g.v = SizedBy(z, v).v
      BY <2>6 DEF S!Found
    <3>5. g.h \in Nat /\ g.v \in Nat /\ g.h <= g.v
      BY <2>2, <3>1, <3>3, <3>4
    <3> QED BY <3>4, <3>5 DEF g
  <2> QED BY <2>3, <2>4, <2>5, <2>6
<1> QED BY <1>1, <1>2


(* The methods that rwNext and rwKey call.                                 *)
LEMMA Decides ==
  ASSUME NEW v
  PROVE  /\ S!Decide("ReadNil", v) = S!Fixed(v, 1, {"nil"})
         /\ S!Decide("ReadBool", v) = S!Fixed(v, 1, {"bool"})
         /\ S!Decide("ReadInt64", v) = S!ReadInt64(v)
         /\ S!Decide("ReadUint64", v) = S!ReadUint64(v)
         /\ S!Decide("ReadFloat32", v) = S!Fixed(v, 5, {"float32"})
         /\ S!Decide("ReadFloat64", v) = S!ReadFloat64(v)
         /\ S!Decide("ReadBytes", v) = S!ReadBytes(v)
         /\ S!Decide("ReadTime", v) = S!ReadTime(v)
         /\ S!Decide("ReadExtension", v) = S!ReadExtension(v)
         /\ S!Decide("ReadMapKeyPtr", v) = S!ReadMapKeyPtr(v)
BY DEF S!Decide

LEMMA IntFine ==
  ASSUME NEW v \in Seq(Byte), v # <<>>, sizes[v[1]].size > 0
  PROVE  Fine(S!ReadInt64(v), v) /\ Fine(S!ReadUint64(v), v)
<1>1. 1 \in Nat /\ 1 <= sizes[v[1]].size /\ 0 \in Nat /\ 9 \in Nat
  BY HeadEntry
<1>2. Fine(S!Fixed(v, 1, {"int", "uint"}), v) /\ Fine(S!Fixed(v, 1, {"uint"}), v)
  BY <1>1, FixedFine
<1>3. Fine(S!TakeErr(9, "overflow"), v) /\ Fine(S!Take(1, 0, <<>>), v)
  BY <1>1, ErrFine, TakeFine
<1> QED BY <1>2, <1>3 DEF S!ReadInt64, S!ReadUint64

LEMMA FloatFine ==
  ASSUME NEW v \in Seq(Byte), v # <<>>
  PROVE  /\ getType(v[1]) = "float32" => Fine(S!Fixed(v, 5, {"float32"}), v)
         /\ getType(v[1]) = "float64" => Fine(S!ReadFloat64(v), v)
<1>1. v[1] \in Byte /\ Len(v) \in Nat
  BY HeadEntry
<1>2. ASSUME getType(v[1]) = "float32" PROVE Fine(S!Fixed(v, 5, {"float32"}), v)
  <2>1. sizes[v[1]].size = 5
    BY <1>1, <1>2, FloatEntries DEF getType
  <2>2. sizes[v[1]].size > 0 /\ 5 \in Nat /\ 5 <= sizes[v[1]].size
    BY <2>1
  <2> QED BY <2>2, FixedFine
<1>3. ASSUME getType(v[1]) = "float64" PROVE Fine(S!ReadFloat64(v), v)
  <2>1. v[1] = mfloat64 /\ sizes[v[1]].size = 9
    BY <1>1, <1>3, FloatEntries DEF getType
  <2>2. sizes[v[1]].size > 0 /\ 9 \in Nat /\ 9 <= sizes[v[1]].size
    BY <2>1
  <2>3. Fine(S!Fixed(v, 9, {"float64"}), v)
    BY <2>2, FixedFine
  <2>4. v[1] # S!mfloat32
    BY <2>1 DEF mfloat64, S!mfloat32
  <2>5. CASE Len(v) < 9
    <3>1. Cut(v)
      BY <2>1, <2>2, <2>5, LessIsCut
    <3> QED BY <2>5, <3>1, AskFine DEF S!ReadFloat64, Ending
  <2>6. CASE ~(Len(v) < 9)
    <3>1. S!ReadFloat64(v) = S!Fixed(v, 9, {"float64"})
      BY <2>4, <2>6 DEF S!ReadFloat64
    <3> QED BY <2>3, <3>1
  <2> QED BY <2>5, <2>6
<1> QED BY <1>2, <1>3

LEMMA BytesFine ==
  ASSUME NEW v \in Seq(Byte), v # <<>>, getType(v[1]) = "bin"
  PROVE  Fine(S!ReadBytes(v), v)
<1> DEFINE z == sizes[v[1]]
           g == S!Header(v, {"bin"})
<1>1. /\ Entry(v[1], z) /\ z.size \in Nat /\ Len(v) \in Nat /\ z.typ = "bin"
      /\ z.extra \in Int
  BY HeadEntry DEF getType
<1> HIDE DEF z
<1>2. z.size >= 2
  <2>1. z.extra < 0 /\ z.extra \in -7..30
    BY <1>1 DEF Entry
  <2>2. /\ z.extra = extra8 => z.size >= 2
        /\ z.extra \in {extra16, map16v, array16v} => z.size >= 3
        /\ z.extra \in {extra32, map32v, array32v} => z.size >= 5
    BY <1>1 DEF Entry
  <2>3. \/ z.extra >= 0 \/ z.extra = extra8 \/ z.extra \in {extra16, map16v, array16v}
        \/ z.extra \in {extra32, map32v, array32v}
    BY <2>1, AllModes
  <2>4. ~(z.extra >= 0)
    BY <1>1, <2>1
  <2> QED BY <1>1, <2>2, <2>3, <2>4
<1>3. CASE Len(v) < 2
  <2>1. Cut(v)
    BY <1>1, <1>2, <1>3, LessIsCut DEF z
  <2> QED BY <1>3, <2>1, AskFine DEF S!ReadBytes, Ending
<1>4. CASE ~(Len(v) < 2)
  <2>1. /\ g.do \in {"found", "ask", "err"}
        /\ g.do # "found" => Fine(g, v)
        /\ g.do = "found" => g.h \in Nat /\ g.v \in Nat /\ g.h <= g.v
    BY HeaderFine
  <2> HIDE DEF g
  <2>2. S!ReadBytes(v) = IF g.do # "found" THEN g ELSE S!Take(g.h, g.v - g.h, <<>>)
    BY <1>4 DEF S!ReadBytes, g
  <2>3. CASE g.do # "found"
    BY <2>1, <2>2, <2>3
  <2>4. CASE g.do = "found"
    <3>1. g.h \in Nat /\ g.v - g.h \in Nat
      BY <2>1, <2>4
    <3> QED BY <2>2, <2>4, <3>1, TakeFine
  <2> QED BY <2>3, <2>4
<1> QED BY <1>3, <1>4

LEMMA KeyFine ==
  ASSUME NEW v \in Seq(Byte) PROVE Fine(S!ReadMapKeyPtr(v), v)
<1> DEFINE g == S!Header(v, {"str", "bin"})
<1>1. /\ g.do \in {"found", "ask", "err"}
      /\ g.do # "found" => Fine(g, v)
      /\ g.do = "found" => g.h \in Nat /\ g.v \in Nat /\ g.h <= g.v
  BY HeaderFine
<1> HIDE DEF g
<1>2. S!ReadMapKeyPtr(v) =
        IF g.do # "found" THEN g
        ELSE IF g.v = g.h THEN S!TakeErr(g.h, "short") ELSE S!TakeWhole(g.h, g.v - g.h)
  BY DEF S!ReadMapKeyPtr, g
<1>3. CASE g.do # "found"
  BY <1>1, <1>2, <1>3
<1>4. CASE g.do = "found"
  <2>1. g.h \in Nat /\ g.v - g.h \in Nat
    BY <1>1, <1>4
  <2>2. Fine(S!TakeErr(g.h, "short"), v) /\ Fine(S!TakeWhole(g.h, g.v - g.h), v)
    BY <2>1, ErrFine, TakeFine
  <2> QED BY <1>2, <1>4, <2>2
<1> QED BY <1>3, <1>4

(* An extension whose size is known, and is more than is there.            *)
LEMMA ShortIsCut ==
  ASSUME NEW v \in Seq(Byte), v # <<>>, sizes[v[1]].size > 0,
         Len(v) < sizes[v[1]].size \/ Len(v) < SizedBy(sizes[v[1]], v).v
  PROVE  Cut(v)
<1>1. CASE Len(v) < sizes[v[1]].size
  BY <1>1, LessIsCut
<1>2. CASE ~(Len(v) < sizes[v[1]].size)
  <2>1. Complete(sizes[v[1]], v)
    BY <1>2, HeadEntry DEF Complete
  <2> QED BY <1>2, <2>1 DEF Cut
<1> QED BY <1>1, <1>2

LEMMA ExtEntry ==
  ASSUME NEW v \in Seq(Byte), v # <<>>, getType(v[1]) = "ext"
  PROVE  /\ Entry(v[1], sizes[v[1]]) /\ sizes[v[1]].size \in Nat
         /\ sizes[v[1]].size >= 3 /\ sizes[v[1]].size > 0 /\ Len(v) \in Nat
<1> DEFINE z == sizes[v[1]]
<1>1. Entry(v[1], z) /\ z.size \in Nat /\ Len(v) \in Nat /\ z.typ = "ext"
  BY HeadEntry DEF getType
<1> HIDE DEF z
<1>2. z.size >= 3
  BY <1>1 DEF Entry
<1>3. z.size > 0
  BY <1>1, <1>2
<1> QED BY <1>1, <1>2, <1>3 DEF z

LEMMA ExtensionFine ==
  ASSUME NEW v \in Seq(Byte), v # <<>>, getType(v[1]) = "ext"
  PROVE  Fine(S!ReadExtension(v), v)
<1> DEFINE z == sizes[v[1]]
           k == SizedBy(z, v).v
<1>1. Entry(v[1], z) /\ z.size \in Nat /\ z.size >= 3 /\ z.size > 0 /\ Len(v) \in Nat
  BY ExtEntry
<1>2. S!ReadExtension(v) =
        IF Len(v) < 2 THEN S!Ask(2, "EOF")
        ELSE IF Len(v) < z.size THEN S!Ask(z.size, "EOF")
        ELSE IF Len(v) < k THEN S!Ask(k, "EOF") ELSE S!Take(k, 0, <<>>)
  BY StreamTable, StreamSized DEF S!ReadExtension, S!Sized, S!getType, getType
<1>3. Len(v) < z.size \/ Len(v) < k => Ending(v)
  BY <1>1, ShortIsCut DEF Ending
<1> HIDE DEF z, k
<1>4. CASE Len(v) < 2
  <2>1. Ending(v)
    BY <1>1, <1>3, <1>4
  <2> QED BY <1>2, <1>4, <2>1, AskFine
<1>5. CASE ~(Len(v) < 2) /\ Len(v) < z.size
  BY <1>2, <1>3, <1>5, AskFine
<1>6. CASE ~(Len(v) < 2) /\ ~(Len(v) < z.size) /\ Len(v) < k
  BY <1>2, <1>3, <1>6, AskFine
<1>7. CASE ~(Len(v) < 2) /\ ~(Len(v) < z.size) /\ ~(Len(v) < k)
  <2>1. Complete(z, v)
    BY <1>1, <1>7 DEF Complete
  <2>2. k \in Nat /\ 0 \in Nat
    BY <1>1, <2>1, SizedRange DEF k, InRange
  <2>3. S!ReadExtension(v) = S!Take(k, 0, <<>>)
    BY <1>2, <1>7
  <2> QED BY <2>2, <2>3, TakeFine
<1> QED BY <1>4, <1>5, <1>6, <1>7


LEMMA TimeFine ==
  ASSUME NEW v \in Seq(Byte), v # <<>>, getType(v[1]) = "ext",
         ExtType(sizes[v[1]], v) = TimeExtension
  PROVE  Fine(S!ReadTime(v), v)
<1>1. Len(v) \in Nat
  BY HeadEntry
<1>2. CASE Len(v) < 15
  <2>1. CASE v[1] = mext8 /\ v[2] = 12
    <3> DEFINE z == sizes[v[1]]
    <3>1. z = bytespec(3, extra8, "ext")
      BY <2>1, KnownEntries
    <3> HIDE DEF z
    <3>2. z.size = 3 /\ z.extra = extra8 /\ z.extra \in Int
      BY <3>1 DEF bytespec, extra8
    <3>3. SizedBy(z, v) = Size(3 + 12, 0)
      BY <2>1, <3>2, Modes
    <3>4. SizedBy(z, v).v = 15
      BY <3>3 DEF Size
    <3>5. z.size > 0 /\ Len(v) < SizedBy(z, v).v
      BY <1>2, <3>2, <3>4
    <3>6. Cut(v)
      BY <3>5, ShortIsCut DEF z
    <3> QED BY <1>2, <3>6, AskFine DEF S!ReadTime, Ending
  <2>2. CASE ~(v[1] = mext8 /\ v[2] = 12)
    <3>1. ForeignTime(v)
      BY <2>2 DEF ForeignTime
    <3> QED BY <1>2, <3>1, AskFine DEF S!ReadTime, Ending
  <2> QED BY <2>1, <2>2
<1>3. CASE ~(Len(v) < 15)
  <2>1. \/ S!ReadTime(v) = S!badPrefix(v[1])
        \/ S!ReadTime(v) = S!Err("ext")
        \/ S!ReadTime(v) = S!Take(15, 0, <<>>)
    BY <1>3 DEF S!ReadTime
  <2>2. 15 \in Nat /\ 0 \in Nat
    OBVIOUS
  <2>3. Fine(S!badPrefix(v[1]), v) /\ Fine(S!Err("ext"), v) /\ Fine(S!Take(15, 0, <<>>), v)
    BY <2>2, ErrFine, PrefixFine, TakeFine
  <2> QED BY <2>1, <2>3
<1> QED BY <1>2, <1>3

(* The type byte of an extension, if it is there.                          *)
LEMMA PeekFine ==
  ASSUME NEW v \in Seq(Byte), v # <<>>, getType(v[1]) = "ext"
  PROVE  LET p == S!peekExtensionType(v) IN
         \/ p.do = "found" /\ p.t = ExtType(sizes[v[1]], v)
         \/ p.do # "found" /\ Fine(p, v)
<1> DEFINE z == sizes[v[1]]
           p == S!peekExtensionType(v)
<1>1. z.size \in Nat /\ z.size >= 3 /\ z.size > 0 /\ Len(v) \in Nat
  BY ExtEntry
<1>2. p = IF Len(v) < 2 THEN S!Ask(2, "EOF")
          ELSE IF z.extra = 0 THEN S!FoundType(v[2])
          ELSE IF Len(v) < z.size THEN S!Ask(z.size, "EOF")
          ELSE S!FoundType(v[z.size])
  BY StreamTable DEF S!peekExtensionType, S!peekTypeBy
<1>3. Len(v) < z.size => Ending(v)
  BY <1>1, LessIsCut DEF Ending
<1>4. ExtType(z, v) = IF z.extra = 0 THEN v[2] ELSE v[z.size]
  BY DEF ExtType
<1> HIDE DEF z, p
<1>5. Len(v) < 2 => Ending(v)
  BY <1>1, <1>3
<1>6. \/ p = S!FoundType(ExtType(z, v))
      \/ \E k : p = S!Ask(k, "EOF") /\ Ending(v)
  BY <1>2, <1>3, <1>4, <1>5
<1>7. CASE p = S!FoundType(ExtType(z, v))
  BY <1>7 DEF S!FoundType, p, z
<1>8. CASE \E k : p = S!Ask(k, "EOF") /\ Ending(v)
  <2>1. Fine(p, v) /\ p.do = "ask"
    BY <1>8, AskFine, Answers
  <2> QED BY <2>1 DEF p
<1> QED BY <1>6, <1>7, <1>8

Extensions == {"complex64", "complex128", "time", "ext"}

LEMMA TypeFine ==
  ASSUME NEW v \in Seq(Byte)
  PROVE  LET t == S!NextType(v) IN
         /\ t.do # "found" => Fine(t, v)
         /\ t.do = "found" =>
              /\ v # <<>> /\ getType(v[1]) # "invalid"
              /\ \/ getType(v[1]) # "ext" /\ t.t = getType(v[1])
                 \/ /\ getType(v[1]) = "ext" /\ t.t \in Extensions
                    /\ t.t = "time" => ExtType(sizes[v[1]], v) = TimeExtension
<1> DEFINE t == S!NextType(v)
<1>1. CASE v = <<>>
  <2>1. t = S!Ask(1, "EOF") /\ Ending(v)
    BY <1>1 DEF S!NextType, Ending, Cut
  <2> HIDE DEF t
  <2>2. Fine(t, v) /\ t.do = "ask"
    BY <2>1, AskFine, Answers
  <2> QED BY <2>2 DEF t
<1>2. CASE v # <<>>
  <2> DEFINE p == S!peekExtensionType(v)
             x == CASE p.t = Complex64Extension -> "complex64"
                    [] p.t = Complex128Extension -> "complex128"
                    [] p.t = TimeExtension -> "time"
                    [] OTHER -> "ext"
  <2>1. t = IF getType(v[1]) = "invalid" THEN S!Err("invalid")
            ELSE IF getType(v[1]) # "ext" THEN S!FoundType(getType(v[1]))
            ELSE IF p.do # "found" THEN p
            ELSE S!FoundType(x)
    BY <1>2, StreamTable DEF S!NextType, S!getType, getType, S!Complex64Extension,
       Complex64Extension, S!Complex128Extension, Complex128Extension,
       S!TimeExtension, TimeExtension
  <2>2. x \in Extensions /\ (x = "time" => p.t = TimeExtension)
    BY DEF Extensions
  <2>3. getType(v[1]) = "ext" =>
          \/ p.do = "found" /\ p.t = ExtType(sizes[v[1]], v)
          \/ p.do # "found" /\ Fine(p, v)
    BY <1>2, PeekFine
  <2> HIDE DEF t, p, x
  <2>4. CASE getType(v[1]) = "invalid"
    <3>1. 0 \in Nat
      OBVIOUS
    <3>2. Fine(t, v) /\ t.do = "err"
      BY <2>1, <2>4, <3>1, ErrFine, Answers
    <3> QED BY <3>2 DEF t
  <2>5. CASE getType(v[1]) # "invalid" /\ getType(v[1]) # "ext"
    <3>1. t.do = "found" /\ t.t = getType(v[1])
      BY <2>1, <2>5 DEF S!FoundType
    <3> QED BY <1>2, <2>5, <3>1 DEF t
  <2>6. CASE getType(v[1]) = "ext"
    <3>1. \/ t.do # "found" /\ Fine(t, v)
          \/ /\ t.do = "found" /\ t.t = x /\ p.t = ExtType(sizes[v[1]], v)
      BY <2>1, <2>3, <2>6 DEF S!FoundType
    <3>2. \/ t.do # "found" /\ Fine(t, v)
          \/ /\ t.do = "found" /\ t.t \in Extensions
             /\ t.t = "time" => ExtType(sizes[v[1]], v) = TimeExtension
      BY <2>2, <3>1
    <3> QED BY <1>2, <2>6, <3>2 DEF t
  <2> QED BY <2>4, <2>5, <2>6
<1> QED BY <1>1, <1>2

-----------------------------------------------------------------------------
(* What an item of the stream claims: io.EOF comes with nothing consumed,  *)
(* and at the end.                                                         *)
Claim(d) == d.k \in Nat /\ d.e # "nil" /\ (d.e = "EOF" => d.k = 0 /\ Ending(w))

LEMMA GotFine ==
  ASSUME NEW t, Fine(t, w), w \in Seq(Byte)
  PROVE  /\ Got(t).n \in Nat /\ Got(t).err # "nil"
         /\ Got(t).err = "EOF" => Got(t).n = 0 /\ Ending(w)
<1>1. Len(w) \in Nat
  BY LenProperties
<1>2. CASE t.do = "ask"
  <2>1. Got(t) = Fail(0, t.e)
    BY <1>2 DEF Got
  <2> QED BY <1>2, <2>1 DEF Fail, Fine
<1>3. CASE t.do = "err"
  <2>1. Got(t) = Fail(t.n, t.e) /\ t.n \in Nat /\ t.e \notin {"EOF", "nil"}
    BY <1>3 DEF Got, Fine
  <2> QED BY <2>1 DEF Fail
<1>4. CASE t.do = "take"
  <2>1. t.n \in Nat /\ t.body \in Nat
    BY <1>4 DEF Fine
  <2>2. \/ Got(t) = Fail(Len(w), "unexpected")
        \/ Got(t) = Ok(SubSeq(w, 1, t.n + t.body), t.n + t.body)
    BY <1>4 DEF Got
  <2> QED BY <1>1, <2>1, <2>2 DEF Fail, Ok
<1> QED BY <1>2, <1>3, <1>4 DEF Fine

LEMMA DoesIs ==
  ASSUME NEW a, NEW k, NEW e, NEW b, NEW items
  PROVE  /\ Does(a, k, e, b, items).k = k /\ Does(a, k, e, b, items).e = e
         /\ Leaf(k, b).k = k /\ Leaf(k, b).e = "none"
         /\ Fails(k, e).k = k /\ Fails(k, e).e = e
BY DEF Does, Leaf, Fails

LEMMA AfterClaim ==
  ASSUME NEW r, NEW tokens,
         r.n \in Nat, r.err # "nil", r.err = "EOF" => r.n = 0 /\ Ending(w)
  PROVE  Claim(After(r, tokens)) /\ Claim(rwBytes(r))
<1>1. After(r, tokens).k = r.n /\ After(r, tokens).e \in {r.err, "none"}
  BY DoesIs DEF After
<1>2. rwBytes(r).k = r.n /\ rwBytes(r).e \in {r.err, "none"}
  <2> DEFINE data == Tail(Base64(From(r.v, sizes[w[1]].size)))
             quote == <<Tok("\"")>>
             none == <<>>
  <2>1. rwBytes(r) = IF r.err # "none" THEN Does(quote, r.n, r.err, none, none)
                     ELSE Does(quote, r.n, "none", data, none)
    BY DEF rwBytes
  <2> HIDE DEF data, quote, none
  <2>2. rwBytes(r) = Does(quote, r.n, r.err, none, none)
        \/ rwBytes(r) = Does(quote, r.n, "none", data, none)
    BY <2>1
  <2> QED BY <2>2, DoesIs
<1> QED BY <1>1, <1>2 DEF Claim

LEMMA HeaderClaim ==
  ASSUME w \in Seq(Byte)
  PROVE  Claim(rwMap) /\ Claim(rwArray) /\ Claim(rwString)
<1> DEFINE Good(g) ==
      /\ g.do # "found" => g.e # "nil" /\ (g.e = "EOF" => Ending(w))
      /\ g.do = "found" => g.h \in Nat /\ g.v \in Nat
<1>1. /\ Good(S!Header(w, {"map"})) /\ Good(S!Header(w, {"array"}))
      /\ Good(S!Header(w, {"str"}))
  <2>1. ASSUME NEW want, want \subseteq {"str", "bin", "map", "array"}
        PROVE  Good(S!Header(w, want))
    <3> DEFINE g == S!Header(w, want)
    <3>1. /\ g.do # "found" => Fine(g, w)
          /\ g.do = "found" => g.h \in Nat /\ g.v \in Nat
      BY <2>1, HeaderFine
    <3> HIDE DEF g
    <3>2. Good(g)
      BY <3>1 DEF Fine
    <3> QED BY <3>2 DEF g
  <2> HIDE DEF Good
  <2> QED BY <2>1
<1>2. 0 \in Nat
  OBVIOUS
<1>3. Claim(rwMap)
  <2> DEFINE g == S!Header(w, {"map"})
             open == <<Tok("{")>>
             items == Members(g.o \div 2)
             none == <<>>
  <2>1. rwMap = IF g.do # "found" THEN Fails(0, g.e)
                ELSE Does(none, g.h, "none", open, items)
    BY DEF rwMap
  <2> HIDE DEF g, open, items, none
  <2>2. g.do # "found" => rwMap.k = 0 /\ rwMap.e = g.e
    BY <2>1, DoesIs
  <2>3. g.do = "found" => rwMap.k = g.h /\ rwMap.e = "none"
    BY <2>1, DoesIs
  <2> QED BY <1>1, <1>2, <2>2, <2>3 DEF Claim, g
<1>4. Claim(rwArray)
  <2> DEFINE g == S!Header(w, {"array"})
  <2>1. rwArray = IF g.do # "found" THEN Does(<<Tok("[")>>, 0, g.e, <<>>, <<>>)
                  ELSE Does(<<Tok("[")>>, g.h, "none", <<>>, Elements(g.o))
    BY DEF rwArray
  <2> HIDE DEF g
  <2>2. g.do # "found" => rwArray.k = 0 /\ rwArray.e = g.e
    BY <2>1, DoesIs
  <2>3. g.do = "found" => rwArray.k = g.h /\ rwArray.e = "none"
    BY <2>1, DoesIs
  <2> QED BY <1>1, <1>2, <2>2, <2>3 DEF Claim, g
<1>5. Claim(rwString)
  <2> DEFINE g == S!Header(w, {"str"})
             text == rwQuoted(SubSeq(w, g.h + 1, g.v))
  <2>1. rwString = IF g.do # "found" THEN Fails(0, g.e)
                   ELSE IF Len(w) < g.v THEN Fails(g.h, "unexpected")
                   ELSE Leaf(g.v, text)
    BY DEF rwString
  <2> HIDE DEF g, text
  <2>2. g.do # "found" => rwString.k = 0 /\ rwString.e = g.e
    BY <2>1, DoesIs
  <2>3. ASSUME g.do = "found"
        PROVE  rwString.k \in {g.h, g.v} /\ rwString.e \notin {"EOF", "nil"}
    <3>1. rwString = Fails(g.h, "unexpected") \/ rwString = Leaf(g.v, text)
      BY <2>1, <2>3
    <3> QED BY <3>1, DoesIs
  <2> QED BY <1>1, <1>2, <2>2, <2>3 DEF Claim, g
<1> QED BY <1>3, <1>4, <1>5


LEMMA Readers ==
  /\ ReaderOf("nil") = "ReadNil" /\ ReaderOf("bool") = "ReadBool"
  /\ ReaderOf("int") = "ReadInt64" /\ ReaderOf("uint") = "ReadUint64"
  /\ ReaderOf("bin") = "ReadBytes" /\ ReaderOf("float32") = "ReadFloat32"
  /\ ReaderOf("float64") = "ReadFloat64" /\ ReaderOf("time") = "ReadTime"
  /\ \A x \in {"ext", "complex64", "complex128"} : ReaderOf(x) = "ReadExtension"
BY DEF ReaderOf, S!ReaderOf

LEMMA ExtensionClaim ==
  ASSUME NEW r, w \in Seq(Byte), w # <<>>, getType(w[1]) = "ext",
         r.n \in Nat, r.err # "nil", r.err = "EOF" => r.n = 0 /\ Ending(w)
  PROVE  Claim(rwExtension(r))
<1> DEFINE p == S!peekExtensionType(w)
           s == sizes[w[1]]
           data == From(r.v, IF s.extra = 0 THEN 2 ELSE s.size)
           value == <<Val("marshal", data)>>
           text == writeExt(p.t, data, "\"type:\"")
<1>1. p.do = "found" \/ (p.do # "found" /\ Fine(p, w))
  BY PeekFine
<1>2. rwExtension(r) = IF p.do # "found" THEN Fails(0, p.e)
                       ELSE IF p.t \in Registered THEN After(r, value)
                       ELSE After(r, text)
  BY DEF rwExtension
<1> HIDE DEF p, value, text
<1>3. Claim(After(r, value)) /\ Claim(After(r, text))
  BY AfterClaim
<1>4. ASSUME p.do # "found" PROVE Claim(Fails(0, p.e))
  <2>1. p.e # "nil" /\ (p.e = "EOF" => Ending(w))
    BY <1>1, <1>4 DEF Fine
  <2>2. Fails(0, p.e).k = 0 /\ Fails(0, p.e).e = p.e /\ 0 \in Nat
    BY DoesIs
  <2> QED BY <2>1, <2>2 DEF Claim
<1> QED BY <1>2, <1>3, <1>4

(* An object is read by a method that fits its type.                       *)
LEMMA ObjectFine ==
  ASSUME NEW x, w \in Seq(Byte), w # <<>>, getType(w[1]) # "invalid",
         \/ getType(w[1]) # "ext" /\ x = getType(w[1])
         \/ /\ getType(w[1]) = "ext" /\ x \in Extensions
            /\ x = "time" => ExtType(sizes[w[1]], w) = TimeExtension
  PROVE  /\ x \in Types \cup Extensions /\ x # "invalid"
         /\ x \in {"ext", "complex64", "complex128"} => getType(w[1]) = "ext"
         /\ x \notin {"str", "map", "array"} => Fine(S!Decide(ReaderOf(x), w), w)
<1> DEFINE v == w
<1>1. v \in Seq(Byte) /\ v # <<>>
  OBVIOUS
<1>2. Entry(v[1], sizes[v[1]]) /\ sizes[v[1]].size \in Nat
  BY <1>1, HeadEntry
<1>3. getType(v[1]) \in Types /\ sizes[v[1]].size > 0
  <2> DEFINE z == sizes[v[1]]
  <2>1. Entry(v[1], z) /\ z.size \in Nat /\ z.typ # "invalid"
    BY <1>2 DEF getType
  <2> HIDE DEF z
  <2>2. z.typ \in Types /\ z.size # 0
    BY <2>1 DEF Entry
  <2>3. z.size > 0
    BY <2>1, <2>2
  <2> QED BY <2>2, <2>3 DEF z, getType
<1>4. x \in Types \cup Extensions /\ x # "invalid"
  BY <1>3 DEF Extensions
<1>6. x \notin {"ext", "complex64", "complex128", "time"} => x = getType(v[1])
  BY <1>3 DEF Extensions
<1>7. x = "time" => getType(v[1]) = "ext" /\ ExtType(sizes[v[1]], v) = TimeExtension
  BY <1>3 DEF Types, Fixeds
<1>8. x \in {"ext", "complex64", "complex128"} => getType(v[1]) = "ext"
  BY <1>3 DEF Types, Fixeds
<1> HIDE DEF v
<1>9. 1 \in Nat /\ 1 <= sizes[v[1]].size
  BY <1>2, <1>3
<1>10. x \notin {"str", "map", "array"} => Fine(S!Decide(ReaderOf(x), v), v)
  <2>1. CASE x = "nil"
    BY <1>1, <1>3, <1>9, <2>1, FixedFine, Readers, Decides
  <2>2. CASE x = "bool"
    BY <1>1, <1>3, <1>9, <2>2, FixedFine, Readers, Decides
  <2>3. CASE x = "int"
    BY <1>1, <1>3, <2>3, IntFine, Readers, Decides
  <2>4. CASE x = "uint"
    BY <1>1, <1>3, <2>4, IntFine, Readers, Decides
  <2>5. CASE x = "bin"
    BY <1>1, <1>6, <2>5, BytesFine, Readers, Decides
  <2>6. CASE x = "float32"
    BY <1>1, <1>6, <2>6, FloatFine, Readers, Decides
  <2>7. CASE x = "float64"
    BY <1>1, <1>6, <2>7, FloatFine, Readers, Decides
  <2>8. CASE x = "time"
    BY <1>1, <1>7, <2>8, TimeFine, Readers, Decides
  <2>9. CASE x \in {"ext", "complex64", "complex128"}
    BY <1>1, <1>8, <2>9, ExtensionFine, Readers, Decides
  <2> QED BY <1>4, <2>1, <2>2, <2>3, <2>4, <2>5, <2>6, <2>7, <2>8, <2>9
       DEF Types, Fixeds, Extensions
<1> QED BY <1>4, <1>8, <1>10 DEF v

LEMMA ObjectClaim ==
  ASSUME NEW x, NEW r, w \in Seq(Byte), w # <<>>,
         x \in Types \cup Extensions, x # "invalid",
         x \in {"ext", "complex64", "complex128"} => getType(w[1]) = "ext",
         x \notin {"str", "map", "array"} =>
           r.n \in Nat /\ r.err # "nil" /\ (r.err = "EOF" => r.n = 0 /\ Ending(w))
  PROVE  Claim(rwObject(x, r))
<1>1. CASE x = "str"
  <2>1. rwObject(x, r) = rwString
    BY <1>1 DEF rwObject
  <2> QED BY <2>1, HeaderClaim
<1>2. CASE x = "map"
  <2>1. rwObject(x, r) = rwMap
    BY <1>2 DEF rwObject
  <2> QED BY <2>1, HeaderClaim
<1>3. CASE x = "array"
  <2>1. rwObject(x, r) = rwArray
    BY <1>3 DEF rwObject
  <2> QED BY <2>1, HeaderClaim
<1>4. CASE x = "bin"
  <2>1. rwObject(x, r) = rwBytes(r)
    BY <1>4 DEF rwObject
  <2> QED BY <1>4, <2>1, AfterClaim
<1>5. CASE x \in {"ext", "complex64", "complex128"}
  <2>1. rwObject(x, r) = rwExtension(r)
    BY <1>5 DEF rwObject
  <2> QED BY <1>5, <2>1, ExtensionClaim
<1>6. CASE x \in Fixeds \cup {"time"}
  <2>1. \E tokens : rwObject(x, r) = After(r, tokens)
    BY <1>6 DEF rwObject, Fixeds
  <2>2. x \notin {"str", "map", "array"}
    BY <1>6 DEF Fixeds
  <2> QED BY <2>1, <2>2, AfterClaim
<1> QED BY <1>1, <1>2, <1>3, <1>4, <1>5, <1>6 DEF Types, Extensions

LEMMA NextClaim == ASSUME w \in Seq(Byte) PROVE Claim(rwNext)
<1> DEFINE t == S!NextType(w)
           r == Read(ReaderOf(t.t))
<1>1. rwNext = IF t.do # "found" THEN Fails(0, t.e) ELSE rwObject(t.t, r)
  BY DEF rwNext
<1>2. /\ t.do # "found" => Fine(t, w)
      /\ t.do = "found" =>
           /\ w # <<>> /\ getType(w[1]) # "invalid"
           /\ \/ getType(w[1]) # "ext" /\ t.t = getType(w[1])
              \/ /\ getType(w[1]) = "ext" /\ t.t \in Extensions
                 /\ t.t = "time" => ExtType(sizes[w[1]], w) = TimeExtension
  BY TypeFine
<1>3. r = Got(S!Decide(ReaderOf(t.t), w))
  BY DEF Read
<1> HIDE DEF t, r
<1>4. CASE t.do # "found"
  <2>1. t.e # "nil" /\ (t.e = "EOF" => Ending(w))
    BY <1>2, <1>4 DEF Fine
  <2>2. rwNext.k = 0 /\ rwNext.e = t.e /\ 0 \in Nat
    BY <1>1, <1>4, DoesIs
  <2> QED BY <2>1, <2>2 DEF Claim
<1>5. CASE t.do = "found"
  <2>1. /\ t.t \in Types \cup Extensions /\ t.t # "invalid"
        /\ t.t \in {"ext", "complex64", "complex128"} => getType(w[1]) = "ext"
        /\ t.t \notin {"str", "map", "array"} => Fine(S!Decide(ReaderOf(t.t), w), w)
    BY <1>2, <1>5, ObjectFine
  <2>2. t.t \notin {"str", "map", "array"} =>
          r.n \in Nat /\ r.err # "nil" /\ (r.err = "EOF" => r.n = 0 /\ Ending(w))
    BY <1>3, <2>1, GotFine
  <2>3. Claim(rwObject(t.t, r))
    BY <1>2, <1>5, <2>1, <2>2, ObjectClaim
  <2> QED BY <1>1, <1>5, <2>3
<1> QED BY <1>4, <1>5

LEMMA KeyClaim == ASSUME w \in Seq(Byte) PROVE Claim(rwKey)
<1> DEFINE r == Read("ReadMapKeyPtr")
           g == S!Header(w, {"str", "bin"})
           text == rwQuoted(SubSeq(w, g.h + 1, g.v))
<1>1. rwKey = After(r, text)
  BY DEF rwKey
<1>2. Fine(S!Decide("ReadMapKeyPtr", w), w)
  BY KeyFine, Decides
<1>3. r.n \in Nat /\ r.err # "nil" /\ (r.err = "EOF" => r.n = 0 /\ Ending(w))
  BY <1>2, GotFine DEF Read
<1> HIDE DEF r, text
<1> QED BY <1>1, <1>3, AfterClaim

LEMMA DoClaim ==
  ASSUME NEW x, w \in Seq(Byte), side = "stream" PROVE Claim(Do(x))
<1>1. CASE x = "next"
  <2>1. Do(x) = rwNext
    BY <1>1 DEF Do
  <2> QED BY <2>1, NextClaim
<1>2. CASE x = "key"
  <2>1. Do(x) = rwKey
    BY <1>2 DEF Do
  <2> QED BY <2>1, KeyClaim
<1>3. CASE x # "next" /\ x # "key"
  <2>1. Do(x) = Leaf(0, <<Tok(x)>>)
    BY <1>3 DEF Do
  <2>2. Do(x).k = 0 /\ Do(x).e = "none" /\ 0 \in Nat
    BY <2>1, DoesIs
  <2> QED BY <2>2 DEF Claim
<1> QED BY <1>1, <1>2, <1>3

-----------------------------------------------------------------------------
(* The functions on bytes take some bytes, and no error of theirs is nil.  *)
Sound(r) == r.n \in Nat /\ r.err # "nil"

LEMMA Answered ==
  ASSUME NEW x, NEW k \in Nat, NEW e, e # "nil"
  PROVE  Sound(Ok(x, k)) /\ Sound(Fail(k, e))
BY DEF Sound, Ok, Fail

LEMMA OkSound == ASSUME NEW x, NEW k \in Nat PROVE Sound(Ok(x, k))
BY DEF Sound, Ok

LEMMA NamedPrefix == ASSUME NEW b PROVE badPrefix(b) # "nil" /\ badPrefix(b) # "none"
BY DEF badPrefix

LEMMA PrefixSound ==
  ASSUME NEW b \in Seq(Byte), NEW want
  PROVE  LET p == Prefix(b, want) IN
         Sound(p) /\ (p.err = "none" => p.v.v \in Nat)
<1> DEFINE p == Prefix(b, want)
<1>0. 0 \in Nat
  OBVIOUS
<1>1. CASE b = <<>>
  <2>1. p = Fail(0, "short")
    BY <1>1 DEF Prefix
  <2> HIDE DEF p
  <2>2. Sound(p) /\ p.err # "none"
    BY <1>0, <2>1, Answered DEF Fail
  <2> QED BY <2>2 DEF p
<1>2. CASE b # <<>>
  <2> DEFINE z == sizes[b[1]]
             h == IF b[1] \in 160..191 THEN 1 ELSE z.size
  <2>1. Entry(b[1], z) /\ z.size \in Nat /\ z.extra \in Int /\ Len(b) \in Nat
    BY <1>2, HeadEntry
  <2>2. p = PrefixBy(z, b, want)
    BY <1>2 DEF Prefix
  <2> HIDE DEF z, p
  <2>3. h \in Nat
    BY <2>1
  <2>4. \/ p = Fail(0, badPrefix(b[1])) \/ p = Fail(0, "short")
        \/ ~(Len(b) < h) /\ p = Ok(SizedBy(z, b), h)
    BY <2>2 DEF PrefixBy
  <2>5. CASE p = Fail(0, badPrefix(b[1])) \/ p = Fail(0, "short")
    <3>1. Sound(p)
      BY <1>0, <2>5, NamedPrefix, Answered
    <3>2. p.err # "none"
      BY <2>5, NamedPrefix DEF Fail
    <3> QED BY <3>1, <3>2 DEF p
  <2>6. CASE ~(Len(b) < h) /\ p = Ok(SizedBy(z, b), h)
    <3>1. Complete(z, b)
      <4>1. CASE b[1] \in 160..191
        <5>1. z.extra = 0
          BY <2>1, <4>1 DEF Entry
        <5> QED BY <5>1 DEF Complete
      <4>2. CASE b[1] \notin 160..191
        <5>1. ~(Len(b) < z.size)
          BY <2>6, <4>2
        <5> QED BY <2>1, <5>1 DEF Complete
      <4> QED BY <4>1, <4>2
    <3>2. SizedBy(z, b).v \in Nat
      BY <2>1, <3>1, SizedRange DEF InRange
    <3> HIDE DEF h
    <3>3. Sound(p)
      BY <2>3, <2>6, OkSound
    <3>4. p.v = SizedBy(z, b)
      BY <2>6 DEF Ok
    <3> QED BY <3>2, <3>3, <3>4 DEF p
  <2> QED BY <2>4, <2>5, <2>6
<1> QED BY <1>1, <1>2

LEMMA BodySound ==
  ASSUME NEW b \in Seq(Byte)
  PROVE  Sound(ReadStringZC(b)) /\ Sound(readBytesBytes(b))
<1>0. 0 \in Nat
  OBVIOUS
<1>1. ASSUME NEW p, Sound(p), p.err = "none" => p.v.v \in Nat
      PROVE  Sound(Body(b, p))
  <2> DEFINE x == SubSeq(b, p.n + 1, p.v.v)
  <2>1. \/ Body(b, p) = p
        \/ Body(b, p) = Fail(p.n, "short")
        \/ p.err = "none" /\ Body(b, p) = Ok(x, p.v.v)
    BY DEF Body
  <2> HIDE DEF x
  <2>2. p.n \in Nat
    BY <1>1 DEF Sound
  <2> QED BY <1>1, <2>1, <2>2, Answered, OkSound
<1>2. Sound(Body(b, Prefix(b, "str"))) /\ Sound(Body(b, Prefix(b, "bin")))
  BY <1>1, PrefixSound
<1>3. ASSUME NEW r, Sound(r) PROVE Sound(NoInvalid(r))
  BY <1>0, <1>3, Answered DEF NoInvalid
<1> QED BY <1>2, <1>3 DEF ReadStringZC, readBytesBytes

LEMMA HeadersSound ==
  ASSUME NEW b \in Seq(Byte)
  PROVE  Sound(ReadMapHeaderBytes(b)) /\ Sound(ReadArrayHeaderBytes(b))
<1>0. 0 \in Nat
  OBVIOUS
<1>1. ASSUME NEW p, NEW k, Sound(p) PROVE Sound(Count(p, k))
  <2> DEFINE x == p.v.o \div k
  <2>1. Count(p, k) = Ok(x, p.n) \/ Count(p, k) = Fail(0, p.err)
    BY DEF Count
  <2> HIDE DEF x
  <2>2. p.n \in Nat /\ p.err # "nil"
    BY <1>1 DEF Sound
  <2> QED BY <1>0, <2>1, <2>2, Answered, OkSound
<1>2. Sound(Prefix(b, "map")) /\ Sound(Prefix(b, "array"))
  BY PrefixSound
<1> QED BY <1>1, <1>2 DEF ReadMapHeaderBytes, ReadArrayHeaderBytes

LEMMA LeavesSound ==
  ASSUME NEW b \in Seq(Byte)
  PROVE  /\ Sound(ReadNilBytes(b)) /\ Sound(ReadBoolBytes(b))
         /\ Sound(ReadFloat32Bytes(b)) /\ Sound(ReadFloat64Bytes(b))
         /\ Sound(ReadTimeBytes(b)) /\ Sound(peekExtension(b))
<1>1. 0 \in Nat /\ 1 \in Nat /\ 5 \in Nat /\ 9 \in Nat /\ 15 \in Nat /\ Len(b) \in Nat
  BY LenProperties
<1>2. ASSUME NEW x
      PROVE  /\ Sound(Fail(0, badPrefix(x))) /\ Sound(Fail(Len(b), badPrefix(x)))
             /\ \A e \in {"short", "type", "ext"} : Sound(Fail(0, e)) /\ Sound(Fail(Len(b), e))
             /\ \A k \in {0, 1, 5, 9, 15} : Sound(Ok(x, k))
  BY <1>1, Answered, OkSound, NamedPrefix
<1>3. Sound(ReadNilBytes(b)) /\ Sound(ReadBoolBytes(b))
  BY <1>2 DEF ReadNilBytes, ReadBoolBytes
<1>4. Sound(ReadFloat32Bytes(b))
  BY <1>2 DEF ReadFloat32Bytes
<1>5. Sound(ReadFloat64Bytes(b))
  BY <1>2, <1>4 DEF ReadFloat64Bytes
<1>6. Sound(ReadTimeBytes(b))
  BY <1>2 DEF ReadTimeBytes
<1>7. Sound(peekExtension(b))
  BY <1>2 DEF peekExtension
<1> QED BY <1>3, <1>4, <1>5, <1>6, <1>7

LEMMA IntsSound ==
  ASSUME NEW b \in Seq(Byte)
  PROVE  Sound(ReadInt64Bytes(b)) /\ Sound(ReadUint64Bytes(b))
<1>0. 0 \in Nat /\ Len(b) \in Nat
  BY LenProperties
<1>1. b # <<>> => sizes[b[1]].size \in Nat
  BY HeadEntry
<1> DEFINE a == I!ReadInt64Bytes(b)
           u == I!ReadUint64Bytes(b).v
<1>2. a.err \in {"none", "overflow"}
  BY DEF I!ReadInt64Bytes, I!Answer
<1> HIDE DEF a, u
<1>3. ASSUME NEW k \in Nat PROVE Sound(Taken(a, k)) /\ Sound(Ok(u, k))
  BY <1>0, <1>2, Answered, OkSound DEF Taken
<1>4. ASSUME NEW x
      PROVE  /\ Sound(Fail(0, badPrefix(x))) /\ Sound(Fail(Len(b), badPrefix(x)))
             /\ Sound(Fail(0, "short")) /\ Sound(Fail(Len(b), "short"))
  BY <1>0, Answered, NamedPrefix
<1>5. Sound(ReadInt64Bytes(b))
  BY <1>1, <1>3, <1>4 DEF ReadInt64Bytes, a
<1>6. Sound(ReadUint64Bytes(b))
  BY <1>1, <1>3, <1>4 DEF ReadUint64Bytes, u
<1> QED BY <1>5, <1>6

LEMMA ExtensionSound ==
  ASSUME NEW b \in Seq(Byte), NEW typ
  PROVE  Sound(ReadExtensionBytes(b, typ))
<1>0. 0 \in Nat /\ 3 \in Nat /\ Len(b) \in Nat
  BY LenProperties
<1>1. CASE Len(b) < 3
  BY <1>0, <1>1, Answered DEF ReadExtensionBytes
<1>2. CASE ~(Len(b) < 3)
  <2> DEFINE z == sizes[b[1]]
             off == IF z.extra = 0 THEN 2 ELSE z.size
             end == SizedBy(z, b).v
             x == SubSeq(b, off + 1, end)
  <2>1. b # <<>>
    BY <1>0, <1>2, EmptySeq
  <2>2. Entry(b[1], z) /\ z.size \in Nat /\ z.extra \in Int
    BY <2>1, HeadEntry
  <2>3. ReadExtensionBytes(b, typ) = ReadExtensionBy(z, b, typ)
    BY <1>2 DEF ReadExtensionBytes
  <2> HIDE DEF z
  <2>4. \/ ReadExtensionBytes(b, typ) = Fail(0, badPrefix(b[1]))
        \/ ReadExtensionBytes(b, typ) = Fail(0, "short")
        \/ ReadExtensionBytes(b, typ) = Fail(0, "ext")
        \/ ReadExtensionBytes(b, typ) = Ok(<<>>, 3)
        \/ ~(Len(b) < off) /\ ReadExtensionBytes(b, typ) = Ok(x, end)
    BY <2>3 DEF ReadExtensionBy
  <2>5. ASSUME ~(Len(b) < off) PROVE end \in Nat
    <3>1. Complete(z, b)
      BY <1>0, <2>2, <2>5 DEF Complete
    <3> QED BY <2>2, <3>1, SizedRange DEF InRange
  <2> HIDE DEF off, end, x
  <2> QED BY <1>0, <2>4, <2>5, Answered, OkSound, NamedPrefix
<1> QED BY <1>1, <1>2

-----------------------------------------------------------------------------
(* The items of UnmarshalAsJSON.                                           *)
Fits(d) == d.k \in Nat /\ d.e # "nil"

LEMMA AfterFits ==
  ASSUME NEW r, NEW tokens, Sound(r) PROVE Fits(After(r, tokens))
<1>1. After(r, tokens) = Fails(r.n, r.err) \/ After(r, tokens) = Leaf(r.n, tokens)
  BY DEF After
<1>2. r.n \in Nat /\ r.err # "nil"
  BY DEF Sound
<1> QED BY <1>1, <1>2, DoesIs DEF Fits

LEMMA ItemsFit ==
  ASSUME w \in Seq(Byte)
  PROVE  /\ Fits(rwStringBytes) /\ Fits(rwBytesBytes) /\ Fits(rwMapKeyBytes)
         /\ Fits(rwArrayBytes) /\ Fits(rwMapBytes) /\ Fits(rwExtensionBytes)
<1>1. Fits(rwStringBytes)
  <2> DEFINE r == ReadStringZC(w)
             text == rwQuoted(r.v)
  <2>1. rwStringBytes = After(r, text) /\ Sound(r)
    BY BodySound DEF rwStringBytes
  <2> HIDE DEF r, text
  <2> QED BY <2>1, AfterFits
<1>2. Fits(rwBytesBytes)
  <2> DEFINE r == readBytesBytes(w)
             text == Base64(r.v)
  <2>1. rwBytesBytes = After(r, text) /\ Sound(r)
    BY BodySound DEF rwBytesBytes
  <2> HIDE DEF r, text
  <2> QED BY <2>1, AfterFits
<1>3. Fits(rwMapKeyBytes)
  BY <1>1, <1>2 DEF rwMapKeyBytes
<1>4. Fits(rwArrayBytes)
  <2> DEFINE h == ReadArrayHeaderBytes(w)
             none == <<>>
             open == <<Tok("[")>>
             items == Elements(h.v)
  <2>1. rwArrayBytes = Fails(h.n, h.err) \/ rwArrayBytes = Does(none, h.n, "none", open, items)
    BY DEF rwArrayBytes
  <2>2. h.n \in Nat /\ h.err # "nil"
    BY HeadersSound DEF Sound
  <2> HIDE DEF h, none, open, items
  <2> QED BY <2>1, <2>2, DoesIs DEF Fits
<1>5. Fits(rwMapBytes)
  <2> DEFINE h == ReadMapHeaderBytes(w)
             none == <<>>
             open == <<Tok("{")>>
             items == Members(h.v)
  <2>1. rwMapBytes = Fails(h.n, h.err) \/ rwMapBytes = Does(none, h.n, "none", open, items)
    BY DEF rwMapBytes
  <2>2. h.n \in Nat /\ h.err # "nil"
    BY HeadersSound DEF Sound
  <2> HIDE DEF h, none, open, items
  <2> QED BY <2>1, <2>2, DoesIs DEF Fits
<1>6. Fits(rwExtensionBytes)
  <2> DEFINE et == peekExtension(w)
             r == ReadExtensionBytes(w, et.v)
             value == <<Val("marshal", r.v)>>
             text == writeExt(et.v, r.v, "\"type\":")
  <2>1. rwExtensionBytes = After(r, value) \/ rwExtensionBytes = After(r, text)
    BY DEF rwExtensionBytes
  <2>2. Sound(r)
    BY ExtensionSound
  <2> HIDE DEF r, value, text
  <2> QED BY <2>1, <2>2, AfterFits
<1> QED BY <1>1, <1>2, <1>3, <1>4, <1>5, <1>6

LEMMA WriteFits ==
  ASSUME w \in Seq(Byte) PROVE Fits(writeNext)
<1>0. 0 \in Nat /\ Len(w) \in Nat
  BY LenProperties
<1>1. CASE w = <<>>
  <2>1. writeNext = Fails(0, "short")
    BY <1>1 DEF writeNext
  <2> QED BY <1>0, <2>1, DoesIs DEF Fits
<1>2. CASE w # <<>>
  <2> DEFINE t == getType(w[1])
             et == peekExtension(w)
             Reads(r) == \E tokens : writeNext = After(r, tokens)
  <2>1. t \in Types
    <3> DEFINE z == sizes[w[1]]
    <3>1. Entry(w[1], z)
      BY <1>2, HeadEntry
    <3> HIDE DEF z
    <3>2. z.typ \in Types
      BY <3>1 DEF Entry
    <3> QED BY <3>2 DEF z, getType
  <2>2. /\ t = "invalid" => writeNext = Fails(0, "invalid")
        /\ t = "str" => writeNext = rwStringBytes
        /\ t = "bin" => writeNext = rwBytesBytes
        /\ t = "map" => writeNext = rwMapBytes
        /\ t = "array" => writeNext = rwArrayBytes
        /\ t = "float64" => Reads(ReadFloat64Bytes(w))
        /\ t = "float32" => Reads(ReadFloat32Bytes(w))
        /\ t = "bool" => Reads(ReadBoolBytes(w))
        /\ t = "int" => Reads(ReadInt64Bytes(w))
        /\ t = "uint" => Reads(ReadUint64Bytes(w))
        /\ t = "nil" => Reads(ReadNilBytes(w))
        /\ t = "ext" => \/ writeNext = Fails(Len(w), et.err)
                        \/ Reads(ReadTimeBytes(w))
                        \/ writeNext = rwExtensionBytes
    BY <1>2 DEF writeNext
  <2>3. ASSUME NEW r, Sound(r), Reads(r) PROVE Fits(writeNext)
    BY <2>3, AfterFits
  <2>4. et.err # "nil"
    BY LeavesSound DEF Sound
  <2> HIDE DEF t, et, Reads
  <2>5. CASE t = "invalid"
    BY <1>0, <2>2, <2>5, DoesIs DEF Fits
  <2>6. CASE t \in {"str", "bin", "map", "array"}
    BY <2>2, <2>6, ItemsFit
  <2>7. CASE t \in {"float64", "float32", "bool", "nil"}
    BY <2>2, <2>3, <2>7, LeavesSound
  <2>8. CASE t \in {"int", "uint"}
    BY <2>2, <2>3, <2>8, IntsSound
  <2>9. CASE t = "ext"
    <3>1. CASE writeNext = Fails(Len(w), et.err)
      BY <1>0, <2>4, <3>1, DoesIs DEF Fits
    <3>2. CASE Reads(ReadTimeBytes(w))
      BY <2>3, <3>2, LeavesSound
    <3>3. CASE writeNext = rwExtensionBytes
      BY <3>3, ItemsFit
    <3> QED BY <2>2, <2>9, <3>1, <3>2, <3>3
  <2> QED BY <2>1, <2>5, <2>6, <2>7, <2>8, <2>9 DEF Types, Fixeds
<1> QED BY <1>1, <1>2

LEMMA DoFits ==
  ASSUME NEW x, w \in Seq(Byte), side \in {"stream", "bytes"} PROVE Fits(Do(x))
<1>1. CASE side = "stream"
  BY <1>1, DoClaim DEF Claim, Fits
<1>2. CASE side = "bytes"
  <2>1. \/ Do(x) = writeNext \/ Do(x) = rwMapKeyBytes \/ Do(x) = Leaf(0, <<Tok(x)>>)
    BY <1>2 DEF Do
  <2>2. Fits(Leaf(0, <<Tok(x)>>))
    BY DoesIs DEF Fits
  <2> QED BY <2>1, <2>2, WriteFits, ItemsFit
<1> QED BY <1>1, <1>2

-----------------------------------------------------------------------------
(* What holds in every state.  An io.EOF has been seen at the end and      *)
(* nothing is read after it, and it alone makes WriteToJSON return nil.    *)
Placed ==
  /\ input \in Inputs /\ side \in Sides /\ cast \in BOOLEAN
  /\ pos \in Nat /\ err # "nil"
AtEnd == (side = "stream" /\ err = "EOF") => Ending(w)
NilIsEOF == (side = "stream" /\ res = "nil") => err = "EOF"

JsonInv == Placed /\ AtEnd /\ NilIsEOF /\ NothingLost

LEMMA PlacedFacts ==
  ASSUME Placed
  PROVE  input.bytes \in Seq(Byte) /\ w \in Seq(Byte) /\ side \in {"stream", "bytes"}
<1>1. input.bytes \in Seq(Byte) /\ side \in {"stream", "bytes"} /\ pos \in Nat
  BY JsonAssumption DEF Placed
<1>2. Ahead(input.bytes, pos) \in Seq(Byte)
  BY <1>1, AheadIs
<1> QED BY <1>1, <1>2 DEF w, From, Ahead

LEMMA SameAhead == ASSUME UNCHANGED <<input, pos>> PROVE w' = w
BY DEF w

LEMMA JsonInit == Init => JsonInv
BY DEF Init, JsonInv, Placed, AtEnd, NilIsEOF, NothingLost

LEMMA LoopKeeps == JsonInv /\ Loop => JsonInv'
BY DEF Loop, Running, JsonInv, Placed, AtEnd, NilIsEOF, NothingLost

LEMMA StepKeeps == JsonInv /\ Step => JsonInv'
<1> SUFFICES ASSUME JsonInv, Step PROVE JsonInv'
  OBVIOUS
<1> DEFINE d == Do(Head(todo))
<1>1. w \in Seq(Byte) /\ side \in {"stream", "bytes"}
  BY PlacedFacts DEF JsonInv
<1>2. Fits(d) /\ (side = "stream" => Claim(d))
  BY <1>1, DoFits, DoClaim
<1>3. /\ res = "running" /\ pos' = pos + d.k /\ err' = d.e
      /\ \E tokens : Write(tokens)
      /\ UNCHANGED <<input, side, cast, res>>
  BY DEF Step, Running
<1> HIDE DEF d
<1>4. Placed'
  BY <1>2, <1>3 DEF JsonInv, Placed, Fits
<1>5. AtEnd'
  <2> SUFFICES ASSUME side' = "stream", err' = "EOF" PROVE Ending(w')
    BY DEF AtEnd
  <2>1. d.k = 0 /\ Ending(w)
    BY <1>2, <1>3 DEF Claim
  <2>2. pos' = pos
    BY <1>3, <2>1 DEF JsonInv, Placed
  <2>3. w' = w
    BY <1>3, <2>2, SameAhead
  <2> QED BY <2>1, <2>3
<1>6. NilIsEOF'
  BY <1>3 DEF NilIsEOF
<1>7. NothingLost'
  BY <1>3 DEF JsonInv, Placed, NothingLost, Write
<1> QED BY <1>4, <1>5, <1>6, <1>7 DEF JsonInv

LEMMA RefusedKeeps == JsonInv /\ Refused => JsonInv'
<1> SUFFICES ASSUME JsonInv, Refused PROVE JsonInv'
  OBVIOUS
<1> DEFINE d == Do(Head(todo))
<1>1. w \in Seq(Byte) /\ side \in {"stream", "bytes"} /\ pos \in Nat
  BY PlacedFacts DEF JsonInv, Placed
<1>2. Fits(d) /\ (side = "stream" => Claim(d))
  BY <1>1, DoFits, DoClaim
<1>3. /\ res = "running" /\ pos' \in {pos, pos + d.k} /\ err' \in {"write", d.e}
      /\ UNCHANGED <<input, side, cast, out, sink, res>>
  BY DEF Refused, Running
<1> HIDE DEF d
<1>4. Placed'
  BY <1>1, <1>2, <1>3 DEF JsonInv, Placed, Fits
<1>5. AtEnd'
  <2> SUFFICES ASSUME side' = "stream", err' = "EOF" PROVE Ending(w')
    BY DEF AtEnd
  <2>1. d.k = 0 /\ Ending(w)
    BY <1>2, <1>3 DEF Claim
  <2>2. pos' = pos
    BY <1>1, <1>3, <2>1
  <2>3. w' = w
    BY <1>3, <2>2, SameAhead
  <2> QED BY <2>1, <2>3
<1>6. NilIsEOF' /\ NothingLost'
  BY <1>3 DEF JsonInv, NilIsEOF, NothingLost
<1> QED BY <1>4, <1>5, <1>6 DEF JsonInv

LEMMA FinishKeeps == JsonInv /\ Finish => JsonInv'
<1> SUFFICES ASSUME JsonInv, Finish PROVE JsonInv'
  OBVIOUS
<1>1. /\ Stops /\ res' = IF Result = "nil" /\ Flushes /\ broken THEN "write" ELSE Result
      /\ sink' = IF Flushes /\ ~broken THEN out ELSE sink
      /\ UNCHANGED <<input, side, cast, pos, out, err>>
  BY DEF Finish
<1>2. side \in {"stream", "bytes"} /\ err # "nil" /\ cast \in BOOLEAN
  BY PlacedFacts DEF JsonInv, Placed
<1>3. Result = "nil" => err = "none" \/ (side = "stream" /\ err = "EOF")
  BY <1>2 DEF Result
<1>4. Placed'
  BY <1>1 DEF JsonInv, Placed
<1>5. AtEnd'
  BY <1>1, SameAhead DEF JsonInv, AtEnd
<1>6. NilIsEOF'
  BY <1>1, <1>3 DEF NilIsEOF, Stops
<1>7. NothingLost'
  BY <1>1, <1>2, <1>3 DEF JsonInv, NothingLost, Flushes
<1> QED BY <1>4, <1>5, <1>6, <1>7 DEF JsonInv

LEMMA FaultKeeps == JsonInv /\ Fault => JsonInv'
<1> SUFFICES ASSUME JsonInv, Fault PROVE JsonInv'
  OBVIOUS
<1> DEFINE d == Do(Head(todo))
<1>1. w \in Seq(Byte) /\ side \in {"stream", "bytes"} /\ pos \in Nat
  BY PlacedFacts DEF JsonInv, Placed
<1>2. d.k \in Nat
  BY <1>1, DoFits DEF Fits
<1>3. /\ res = "running" /\ UNCHANGED <<input, side, cast>>
      /\ WriteFails(d) \/ MarshalFails(d) \/ FlushFails
  BY DEF Fault, Running
<1> HIDE DEF d
<1>4. CASE WriteFails(d)
  <2>1. /\ pos' \in {pos, pos + d.k} /\ err' = "write" /\ res' = res
        /\ \E tokens : Write(tokens)
    BY <1>4 DEF WriteFails
  <2>2. pos' \in Nat
    BY <1>1, <1>2, <2>1
  <2> QED BY <1>3, <2>1, <2>2
       DEF JsonInv, Placed, AtEnd, NilIsEOF, NothingLost, Write
<1>5. CASE MarshalFails(d)
  <2>1. pos' = pos + d.k /\ err' = "marshal" /\ UNCHANGED <<out, sink, res>>
    BY <1>5 DEF MarshalFails
  <2>2. pos' \in Nat
    BY <1>1, <1>2, <2>1
  <2> QED BY <1>3, <2>1, <2>2 DEF JsonInv, Placed, AtEnd, NilIsEOF, NothingLost
<1>6. CASE FlushFails
  <2>1. ~cast /\ res' # "nil" /\ UNCHANGED <<pos, out, err>>
    BY <1>6 DEF FlushFails, Flushes
  <2>2. w' = w
    BY <1>3, <2>1, SameAhead
  <2>3. Placed' /\ AtEnd' /\ NilIsEOF'
    BY <1>3, <2>1, <2>2 DEF JsonInv, Placed, AtEnd, NilIsEOF
  <2>4. NothingLost'
    BY <1>3, <2>1 DEF NothingLost
  <2> QED BY <2>3, <2>4 DEF JsonInv
<1> QED BY <1>3, <1>4, <1>5, <1>6

LEMMA JsonNext == JsonInv /\ [Next]_vars => JsonInv'
<1> SUFFICES ASSUME JsonInv, [Next]_vars PROVE JsonInv'
  OBVIOUS
<1>1. CASE Next
  BY <1>1, LoopKeeps, StepKeeps, RefusedKeeps, FinishKeeps, FaultKeeps DEF Next
<1>2. CASE UNCHANGED vars
  BY <1>2, SameAhead DEF vars, JsonInv, Placed, AtEnd, NilIsEOF, NothingLost
<1> QED BY <1>1, <1>2

LEMMA JsonInvariant == Spec => []JsonInv
BY JsonInit, JsonNext, PTL DEF Spec

(* Whichever translator runs, whatever it is given and whatever fails on   *)
(* the way: when it returns nil, all it wrote has reached the caller.      *)
THEOREM AllHandedOn == Spec => []NothingLost
<1>1. JsonInv => NothingLost
  BY DEF JsonInv
<1> QED BY <1>1, JsonInvariant, PTL

(* For every stream: WriteToJSON returns nil only when the next object is  *)
(* cut short, or is an extension with the type of a time that is not one.  *)
THEOREM NilOnlyAtEnd == Spec => []NilAtEnd
<1>1. JsonInv => NilAtEnd
  <2> SUFFICES ASSUME JsonInv, side = "stream", res = "nil"
               PROVE  Skip(input.bytes, pos).err = "short" \/ ForeignTime(w)
    BY DEF NilAtEnd
  <2>1. Cut(w) \/ ForeignTime(w)
    BY DEF JsonInv, AtEnd, NilIsEOF, Ending
  <2>2. input.bytes \in Seq(Byte) /\ pos \in Nat
    BY PlacedFacts DEF JsonInv, Placed
  <2>3. Cut(w) => Skip(input.bytes, pos).err = "short"
    BY <2>2, CutIsShort DEF w
  <2> QED BY <2>1, <2>3
<1> QED BY <1>1, JsonInvariant, PTL
=============================================================================
