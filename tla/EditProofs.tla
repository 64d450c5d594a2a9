----------------------------- MODULE EditProofs -----------------------------
(***************************************************************************)
(* edit.go never writes behind the slices it is given and returns, and it  *)
(* edits the map that a slice encodes and nothing else.                    *)
(***************************************************************************)
EXTENDS Edit, WireProofs

(* Skip ends between the place where it began and the end of the bytes.    *)
LEMMA SkipBounds ==
  ASSUME NEW b \in Seq(Byte), NEW i \in Nat, NEW left \in Nat, i <= Len(b),
         Skips(b)[i][left].err = "none"
  PROVE  /\ Skips(b)[i][left].end \in Nat
         /\ i <= Skips(b)[i][left].end /\ Skips(b)[i][left].end <= Len(b)
<1> DEFINE P(j, l) == LET r == Skips(b)[j][l] IN
             r.err = "none" => r.end \in Nat /\ j <= r.end /\ r.end <= Len(b)
           S == {n \in Nat : \A j \in Nat : \A l \in Nat :
                   j <= Len(b) /\ Len(b) <= j + n => P(j, l)}
<1>0. Len(b) \in Nat
  BY LenProperties
<1>1. ASSUME NEW j \in Nat, NEW l \in Nat, j <= Len(b),
             LET g == getSize(Ahead(b, j)) IN
             g.err = "none" /\ j + g.v <= Len(b) =>
               \A k \in Nat : P(j + g.v, k)
      PROVE  P(j, l)
  <2> DEFINE g == getSize(Ahead(b, j))
  <2>1. CASE l = 0
    <3>1. Skips(b)[j][l] = [end |-> j, err |-> "none"]
      BY <2>1, SkipCases
    <3> QED
      BY <1>1, <3>1
  <2>2. CASE l > 0 /\ g.err # "none"
    <3>1. Skips(b)[j][l] = [end |-> j, err |-> g.err]
      BY <2>2, SkipCases
    <3> QED
      BY <2>2, <3>1
  <2>3. CASE l > 0 /\ g.err = "none" /\ Len(b) < j + g.v
    <3>1. Skips(b)[j][l] = [end |-> j, err |-> "short"]
      BY <2>3, SkipCases
    <3> QED
      BY <2>3, <3>1
  <2>4. CASE l > 0 /\ g.err = "none" /\ j + g.v <= Len(b)
    <3>1. Skips(b)[j][l] = Skips(b)[j + g.v][l - 1 + g.o]
      BY <2>4, SkipCases
    <3>2. g.v \in Nat /\ g.o \in Nat
      BY <2>4, AheadIs, GetSize
    <3>3. l - 1 + g.o \in Nat
      BY <2>4, <3>2
    <3>4. P(j + g.v, l - 1 + g.o)
      BY <1>1, <2>4, <3>3
    <3>5. ASSUME NEW x \in Nat, j + g.v <= x PROVE j <= x
      BY <3>2, <3>5
    <3> HIDE DEF g
    <3> QED
      BY <3>1, <3>4, <3>5
  <2>5. g.err = "none" => g.v \in Nat
    BY AheadIs, GetSize
  <2>6. l = 0 \/ l > 0
    OBVIOUS
  <2>7. g.err = "none" => j + g.v <= Len(b) \/ Len(b) < j + g.v
    BY <1>0, <2>5
  <2> HIDE DEF g, P
  <2> QED
    BY <2>1, <2>2, <2>3, <2>4, <2>6, <2>7
<1> HIDE DEF P
<1>2. 0 \in S
  <2> SUFFICES ASSUME NEW j \in Nat, NEW l \in Nat, j <= Len(b), Len(b) <= j + 0
               PROVE  P(j, l)
    OBVIOUS
  <2>1. Len(b) <= j
    OBVIOUS
  <2>2. getSize(Ahead(b, j)).err # "none"
    BY <2>1, AheadIs DEF getSize, NoSize
  <2> QED
    BY <1>1, <2>2
<1>3. ASSUME NEW n \in Nat, n \in S PROVE n + 1 \in S
  <2> SUFFICES ASSUME NEW j \in Nat, NEW l \in Nat, j <= Len(b), Len(b) <= j + (n + 1)
               PROVE  P(j, l)
    OBVIOUS
  <2> DEFINE g == getSize(Ahead(b, j))
  <2>1. ASSUME g.err = "none", j + g.v <= Len(b)
        PROVE  \A k \in Nat : P(j + g.v, k)
    <3>1. g.v \in Nat /\ g.v > 0
      BY <2>1, AheadIs, GetSize
    <3> HIDE DEF g
    <3>2. j + g.v \in Nat /\ Len(b) <= (j + g.v) + n
      BY <1>0, <3>1
    <3> QED
      BY <1>3, <2>1, <3>2
  <2> QED
    BY <1>1, <2>1
<1>4. Len(b) \in S
  <2> HIDE DEF S
  <2>1. \A n \in Nat : n \in S => n + 1 \in S
    BY <1>3
  <2> QED
    BY <1>0, <1>2, <2>1, Induction
<1>5. P(i, left)
  <2>1. Len(b) <= i + Len(b)
    BY <1>0
  <2> QED
    BY <1>4, <2>1
<1> QED
  BY <1>5 DEF P


-----------------------------------------------------------------------------
(* Prefix answers with the sizes of a prefix that is there.                *)
LEMMA PrefixIs ==
  ASSUME NEW b \in Seq(Byte), NEW want \in {"str", "map"}, Prefix(b, want).err = "none"
  PROVE  LET z == sizes[b[1]] IN
         /\ b # <<>> /\ b[1] \in Byte /\ Len(b) \in Nat /\ Entry(b[1], z)
         /\ z.typ = want /\ z.size \in Nat /\ z.size > 0
         /\ InRange(z, SizedBy(z, b))
         /\ Prefix(b, want) = Ok(SizedBy(z, b), IF b[1] \in 160..191 THEN 1 ELSE z.size)
         /\ (IF b[1] \in 160..191 THEN 1 ELSE z.size) <= Len(b)
<1> DEFINE z == sizes[b[1]]
           h == IF b[1] \in 160..191 THEN 1 ELSE z.size
<1>1. b # <<>>
  BY DEF Prefix, Fail
<1>2. b[1] \in Byte /\ Len(b) \in Nat /\ Len(b) >= 1
  BY <1>1, LenProperties, EmptySeq, ElementOfSeq
<1>3. Entry(b[1], z)
  BY <1>2, Entries
<1>4. z.size \in Nat /\ z.extra \in Int
  BY <1>3, EntryFacts
<1>5. Prefix(b, want) = PrefixBy(z, b, want)
  BY <1>1 DEF Prefix
<1> HIDE DEF z
<1>6. z.typ = want /\ ~(Len(b) < h) /\ Prefix(b, want) = Ok(SizedBy(z, b), h)
  <2>1. PrefixBy(z, b, want).err = "none"
    BY <1>5
  <2>2. badPrefix(b[1]) # "none"
    BY DEF badPrefix
  <2> QED
    BY <1>5, <2>1, <2>2 DEF PrefixBy, Fail, Ok
<1>7. z.size > 0
  BY <1>3, <1>4, <1>6 DEF Entry
<1>8. h \in Nat /\ h <= Len(b)
  BY <1>2, <1>4, <1>6
<1>9. Complete(z, b)
  <2>1. b[1] \in 160..191 => z.extra = 0
    BY <1>3 DEF Entry
  <2> QED
    BY <1>2, <1>4, <1>8, <2>1 DEF Complete
<1>10. InRange(z, SizedBy(z, b))
  BY <1>3, <1>9, SizedRange
<1> QED
  BY <1>1, <1>2, <1>3, <1>4, <1>6, <1>7, <1>8, <1>10 DEF z

(* A key that is read takes at least its prefix, and only bytes it has.    *)
LEMMA StringTakes ==
  ASSUME NEW b \in Seq(Byte), ReadStringZC(b).err = "none"
  PROVE  ReadStringZC(b).n \in Nat /\ 1 <= ReadStringZC(b).n /\ ReadStringZC(b).n <= Len(b)
<1> DEFINE p == Prefix(b, "str")
<1>1. ReadStringZC(b) = Body(b, p) /\ Body(b, p).err = "none"
  BY DEF ReadStringZC, NoInvalid, Fail
<1>2. p.err = "none"
  BY <1>1 DEF Body
<1>3. LET z == sizes[b[1]] IN
      /\ InRange(z, SizedBy(z, b)) /\ z.size \in Nat /\ z.size > 0
      /\ p = Ok(SizedBy(z, b), IF b[1] \in 160..191 THEN 1 ELSE z.size)
      /\ Len(b) \in Nat
  BY <1>2, PrefixIs
<1>4. p.v.v \in Nat /\ p.v.v > 0 /\ Len(b) \in Nat
  BY <1>3 DEF InRange, Ok
<1> HIDE DEF p
<1>5. ~(Len(b) < p.v.v) /\ Body(b, p).n = p.v.v
  BY <1>1, <1>2 DEF Body, Fail, Ok
<1> QED
  BY <1>1, <1>4, <1>5

(* The three forms of the header of a map.                                 *)
LEMMA MapPrefix ==
  ASSUME NEW c \in Byte, sizes[c].typ = "map"
  PROVE  \/ c \in 128..143 /\ sizes[c] = bytespec(1, 2 * (c - 128), "map")
         \/ c = 222 /\ sizes[c] = bytespec(3, map16v, "map")
         \/ c = 223 /\ sizes[c] = bytespec(5, map32v, "map")
<1>0. c \in Int /\ 0 <= c /\ c <= 255
  BY DEF Byte
<1>1. CASE c < 128
  <2>1. sizes[c] = bytespec(1, 0, "int")
    BY <1>0, <1>1 DEF sizes, Byte
  <2> QED
    BY <2>1 DEF bytespec
<1>2. CASE c \in 128..143
  BY <1>0, <1>2, SMTT(40) DEF sizes, Byte
<1>3. CASE c \in 144..159
  <2>1. sizes[c] = bytespec(1, c - 144, "array")
    BY <1>0, <1>3 DEF sizes, Byte
  <2> QED
    BY <2>1 DEF bytespec
<1>4. CASE c \in 160..191
  <2>1. sizes[c] = bytespec(1 + (c - 160), 0, "str")
    BY <1>0, <1>4 DEF sizes, Byte
  <2> QED
    BY <2>1 DEF bytespec
<1>5. CASE c \in 192..223
  <2>1. sizes[c] = named[c - 191]
    BY <1>0, <1>5 DEF sizes, Byte
  <2>2. ASSUME c \in 192..207 PROVE named[c - 191].typ # "map"
    BY <2>2 DEF named, bytespec
  <2>3. ASSUME c \in 208..221 PROVE named[c - 191].typ # "map"
    BY <2>3 DEF named, bytespec
  <2>4. c \in 192..207 \/ c \in 208..221 \/ c = 222 \/ c = 223
    BY <1>5
  <2>5. named[31] = bytespec(3, map16v, "map") /\ named[32] = bytespec(5, map32v, "map")
    BY DEF named
  <2> HIDE DEF named
  <2> QED
    BY <2>1, <2>2, <2>3, <2>4, <2>5
<1>6. CASE c > 223
  <2>1. sizes[c] = bytespec(1, 0, "int")
    BY <1>0, <1>6 DEF sizes, Byte
  <2> QED
    BY <2>1 DEF bytespec
<1> QED
  BY <1>0, <1>1, <1>2, <1>3, <1>4, <1>5, <1>6

(* What a header that was read looks like.                                 *)
LEMMA MapHeader ==
  ASSUME NEW b \in Seq(Byte), ReadMapHeaderBytes(b).err = "none"
  PROVE  LET h == ReadMapHeaderBytes(b) IN
         /\ Len(b) \in Nat /\ h.n \in Nat /\ 1 <= h.n /\ h.n <= Len(b) /\ h.v \in Nat
         /\ \/ b[1] \in 128..143 /\ h.n = 1 /\ h.v = b[1] - 128
            \/ b[1] = 222 /\ h.n = 3 /\ h.v = be16(b)
            \/ b[1] = 223 /\ h.n = 5 /\ h.v = be32(b)
<1> DEFINE p == Prefix(b, "map")
           z == sizes[b[1]]
           g == SizedBy(z, b)
<1>1. p.err = "none"
  BY DEF ReadMapHeaderBytes, Count, Fail
<1>2. ReadMapHeaderBytes(b) = Ok(p.v.o \div 2, p.n)
  BY <1>1 DEF ReadMapHeaderBytes, Count
<1>3. /\ b[1] \in Byte /\ Len(b) \in Nat /\ z.typ = "map" /\ Entry(b[1], z)
      /\ z.size \in Nat /\ z.size > 0 /\ InRange(z, g)
      /\ p = Ok(g, IF b[1] \in 160..191 THEN 1 ELSE z.size)
      /\ (IF b[1] \in 160..191 THEN 1 ELSE z.size) <= Len(b)
  BY <1>1, PrefixIs
<1>4. ~(b[1] \in 160..191)
  <2>1. b[1] \in 160..191 => z.typ = "str"
    BY <1>3 DEF Entry
  <2> QED
    BY <1>3, <2>1
<1>5. p = Ok(g, z.size) /\ z.size <= Len(b) /\ g.o \in Nat
  BY <1>3, <1>4 DEF InRange
<1>6. ReadMapHeaderBytes(b) = Ok(g.o \div 2, z.size)
  BY <1>2, <1>5 DEF Ok
<1>7. \/ b[1] \in 128..143 /\ z = bytespec(1, 2 * (b[1] - 128), "map")
      \/ b[1] = 222 /\ z = bytespec(3, map16v, "map")
      \/ b[1] = 223 /\ z = bytespec(5, map32v, "map")
  BY <1>3, MapPrefix
<1> HIDE DEF p
<1>8. CASE b[1] \in 128..143 /\ z = bytespec(1, 2 * (b[1] - 128), "map")
  <2> HIDE DEF z
  <2>0. z.extra \in Int /\ z.extra >= 0 /\ z.size = 1 /\ z.extra = 2 * (b[1] - 128)
    BY <1>8, SMTT(40) DEF bytespec
  <2>1. g.o = 2 * (b[1] - 128)
    BY <2>0, Modes DEF Size
  <2>2. g.o \div 2 = b[1] - 128 /\ b[1] - 128 \in Nat
    <3> HIDE DEF g
    <3> QED
      BY <1>8, <2>1, SMTT(40)
  <2> QED
    BY <1>3, <1>5, <1>6, <1>8, <2>0, <2>2 DEF Ok
<1>9. CASE b[1] = 222 /\ z = bytespec(3, map16v, "map")
  <2> HIDE DEF z
  <2>0. z.extra \in Int /\ z.extra = map16v /\ z.size = 3
    BY <1>9 DEF bytespec, map16v
  <2>1. g.o = 2 * be16(b)
    BY <2>0, Modes DEF Size
  <2>2. be16(b) \in Nat
    BY <1>5, <2>0, Be16
  <2>3. g.o \div 2 = be16(b)
    <3> HIDE DEF g
    <3> QED
      BY <2>1, <2>2
  <2> QED
    BY <1>3, <1>5, <1>6, <1>9, <2>0, <2>2, <2>3 DEF Ok
<1>10. CASE b[1] = 223 /\ z = bytespec(5, map32v, "map")
  <2> HIDE DEF z
  <2>0. z.extra \in Int /\ z.extra = map32v /\ z.size = 5
    BY <1>10 DEF bytespec, map32v
  <2>1. g.o = 2 * be32(b)
    BY <2>0, Modes DEF Size
  <2>2. be32(b) \in Nat
    BY <1>5, <2>0, Be32
  <2>3. g.o \div 2 = be32(b)
    <3> HIDE DEF g
    <3> QED
      BY <2>1, <2>2
  <2> QED
    BY <1>3, <1>5, <1>6, <1>10, <2>0, <2>2, <2>3 DEF Ok
<1> QED
  BY <1>7, <1>8, <1>9, <1>10


-----------------------------------------------------------------------------
(* One turn of the loop of locate.                                         *)
Key(b, i) == ReadStringZC(Ahead(b, i))
Val(b, i) == Skips(b)[i + Key(b, i).n][1]
IsPair(b, i) == Key(b, i).err = "none" /\ Val(b, i).err = "none"
FindOne(b, key, find, i, left) ==
  IF left = 0 \/ Key(b, i).err # "none" \/ Val(b, i).err # "none" THEN NotFound
  ELSE IF Key(b, i).v = key
    THEN [kstart |-> i, start |-> i + Key(b, i).n, end |-> Val(b, i).end]
  ELSE find[Val(b, i).end][left - 1]

(* A pair lies inside the bytes, and its key is not empty.                 *)
LEMMA PairTakes ==
  ASSUME NEW b \in Seq(Byte), NEW i \in Nat, IsPair(b, i)
  PROVE  /\ Len(b) \in Nat /\ i < Len(b)
         /\ Key(b, i).n \in Nat /\ 1 <= Key(b, i).n /\ i + Key(b, i).n <= Len(b)
         /\ Val(b, i).end \in Nat
         /\ i + Key(b, i).n <= Val(b, i).end /\ Val(b, i).end <= Len(b)
<1>1. Len(b) \in Nat /\ Ahead(b, i) \in Seq(Byte)
  BY LenProperties, AheadIs
<1>2. /\ Key(b, i).n \in Nat /\ 1 <= Key(b, i).n /\ Key(b, i).n <= Len(Ahead(b, i))
  BY <1>1, StringTakes DEF IsPair, Key
<1>3. i < Len(b) /\ Len(Ahead(b, i)) = Len(b) - i
  <2>1. CASE Len(b) <= i
    <3>1. Ahead(b, i) = <<>>
      BY <2>1, AheadIs
    <3> QED
      BY <1>2, <3>1
  <2>2. CASE i < Len(b)
    BY <1>1, <2>2 DEF Ahead
  <2> QED
    BY <1>1, <2>1, <2>2
<1> DEFINE k == Key(b, i).n
<1> HIDE DEF k
<1>4. k \in Nat /\ 1 <= k /\ i + k <= Len(b) /\ i + k \in Nat
  BY <1>1, <1>2, <1>3 DEF k
<1>5. /\ Skips(b)[i + k][1].end \in Nat
      /\ i + k <= Skips(b)[i + k][1].end /\ Skips(b)[i + k][1].end <= Len(b)
  <2>1. Skips(b)[i + k][1].err = "none"
    BY DEF IsPair, Val, k
  <2> QED
    BY <1>4, <2>1, SkipBounds
<1> QED
  BY <1>1, <1>3, <1>4, <1>5 DEF Val, k

(* There is a function as the definition of Finds asks for.                *)
LEMMA FindExists ==
  ASSUME NEW b \in Seq(Byte), NEW key
  PROVE  \E f : f = [i \in Nat |-> [left \in Nat |-> FindOne(b, key, f, i, left)]]
<1> DEFINE Row(f, i) == [left \in Nat |-> FindOne(b, key, f, i, left)]
           Upto(f, n) == \A i \in Nat : Len(b) <= i + n => f[i] = Row(f, i)
           S == {n \in Nat : \E f : f = [i \in Nat |-> f[i]] /\ Upto(f, n)}
<1>0. Len(b) \in Nat
  BY LenProperties
<1>1. ASSUME NEW f, NEW g, NEW n \in Nat, NEW i \in Nat, Len(b) <= i + n + 1,
             \A j \in Nat : Len(b) <= j + n => f[j] = g[j]
      PROVE  Row(f, i) = Row(g, i)
  <2>1. SUFFICES ASSUME NEW left \in Nat
                 PROVE  FindOne(b, key, f, i, left) = FindOne(b, key, g, i, left)
    BY Zenon
  <2>2. CASE IsPair(b, i)
    <3> DEFINE e == Val(b, i).end
    <3>1. e \in Nat /\ i + 1 <= e
      BY <2>2, PairTakes
    <3>2. Len(b) <= e + n
      <4> HIDE DEF e
      <4> QED
        BY <1>0, <1>1, <3>1
    <3>3. f[e] = g[e]
      BY <1>1, <3>1, <3>2
    <3> QED
      BY <2>2, <3>3 DEF FindOne, IsPair
  <2>3. CASE ~IsPair(b, i)
    BY <2>3 DEF FindOne, IsPair
  <2> QED
    BY <2>2, <2>3
<1>2. 0 \in S
  <2> DEFINE z == [j \in Nat |-> 0]
             f == [i \in Nat |-> [left \in Nat |-> FindOne(b, key, z, i, left)]]
  <2>1. \A i \in Nat : f[i] = Row(z, i)
    BY Zenon
  <2>2. f = [i \in Nat |-> f[i]]
    BY Zenon
  <2> HIDE DEF f, z
  <2>3. \A i \in Nat : Len(b) <= i + 0 => Row(z, i) = Row(f, i)
    <3> SUFFICES ASSUME NEW i \in Nat, Len(b) <= i, NEW left \in Nat
                 PROVE  FindOne(b, key, z, i, left) = FindOne(b, key, f, i, left)
      BY <1>0
    <3>1. ~IsPair(b, i)
      BY <1>0, PairTakes
    <3> QED
      BY <3>1 DEF FindOne, IsPair
  <2> QED
    BY <2>1, <2>2, <2>3, ZenonT(40)
<1>3. ASSUME NEW n \in Nat, n \in S PROVE n + 1 \in S
  <2>1. PICK f : f = [i \in Nat |-> f[i]] /\ Upto(f, n)
    BY <1>3
  <2> DEFINE g == [i \in Nat |-> [left \in Nat |-> FindOne(b, key, f, i, left)]]
  <2>2. \A i \in Nat : g[i] = Row(f, i)
    BY Zenon
  <2>3. g = [i \in Nat |-> g[i]]
    BY Zenon
  <2> HIDE DEF g
  <2>4. \A j \in Nat : Len(b) <= j + n => f[j] = g[j]
    BY <2>1, <2>2
  <2> HIDE DEF Row
  <2>5. \A i \in Nat : Len(b) <= i + n + 1 => Row(f, i) = Row(g, i)
    BY <1>1, <2>4
  <2>6. Upto(g, n + 1)
    BY <1>0, <2>2, <2>5
  <2> QED
    BY <2>3, <2>6
<1>4. Len(b) \in S
  <2> HIDE DEF S
  <2>1. \A n \in Nat : n \in S => n + 1 \in S
    BY <1>3
  <2> QED
    BY <1>0, <1>2, <2>1, Induction
<1>5. PICK f : f = [i \in Nat |-> f[i]] /\ Upto(f, Len(b))
  BY <1>4
<1>6. \A i \in Nat : f[i] = Row(f, i)
  BY <1>0, <1>5
<1>7. f = [i \in Nat |-> Row(f, i)]
  <2> HIDE DEF Row
  <2>1. [i \in Nat |-> f[i]] = [i \in Nat |-> Row(f, i)]
    BY <1>6
  <2> QED
    BY <1>5, <2>1
<1> QED
  BY <1>7

(* So Finds is that function.                                              *)
LEMMA FindTurns ==
  ASSUME NEW b \in Seq(Byte), NEW key, NEW i \in Nat, NEW left \in Nat
  PROVE  Finds(b, key)[i][left] = FindOne(b, key, Finds(b, key), i, left)
<1> DEFINE P(g) == g = [j \in Nat |-> [l \in Nat |-> FindOne(b, key, g, j, l)]]
<1>1. Finds(b, key) = CHOOSE g : P(g)
  BY DEF Finds, FindOne, Key, Val, Ahead, From, Skip
<1>2. \E g : P(g)
  BY FindExists
<1> HIDE DEF P
<1>3. P(CHOOSE g : P(g))
  BY <1>2, Zenon
<1>4. P(Finds(b, key))
  BY <1>1, <1>3, Zenon
<1>5. Finds(b, key) = [j \in Nat |-> [l \in Nat |-> FindOne(b, key, Finds(b, key), j, l)]]
  BY <1>4 DEF P
<1> DEFINE f == Finds(b, key)
<1> HIDE DEF f
<1>6. f = [j \in Nat |-> [l \in Nat |-> FindOne(b, key, f, j, l)]]
  BY <1>5 DEF f
<1>7. f[i] = [l \in Nat |-> FindOne(b, key, f, i, l)]
  BY <1>6, Zenon
<1>8. f[i][left] = FindOne(b, key, f, i, left)
  BY <1>7, Zenon
<1> QED
  BY <1>8 DEF f


(* What is found lies behind where the search began, in order.             *)
Within(l, i, n) ==
  /\ l.kstart \in Nat /\ l.start \in Nat /\ l.end \in Nat
  /\ i <= l.kstart /\ l.kstart < l.start /\ l.start <= l.end /\ l.end <= n

LEMMA FindBounds ==
  ASSUME NEW b \in Seq(Byte), NEW key, NEW i \in Nat, NEW left \in Nat
  PROVE  LET l == Finds(b, key)[i][left] IN
         l = NotFound \/ (left > 0 /\ Within(l, i, Len(b)))
<1> DEFINE F(j, k) == Finds(b, key)[j][k]
           P(j, k) == F(j, k) = NotFound \/ (k > 0 /\ Within(F(j, k), j, Len(b)))
           S == {n \in Nat : \A j \in Nat : \A k \in Nat :
                   Len(b) <= j + n => P(j, k)}
<1>0. Len(b) \in Nat
  BY LenProperties
<1>1. ASSUME NEW j \in Nat, NEW k \in Nat,
             IsPair(b, j) => \A m \in Nat : P(Val(b, j).end, m)
      PROVE  P(j, k)
  <2>1. F(j, k) = FindOne(b, key, Finds(b, key), j, k)
    BY FindTurns
  <2>2. CASE k = 0 \/ ~IsPair(b, j)
    BY <2>1, <2>2 DEF FindOne, IsPair
  <2>3. CASE k > 0 /\ IsPair(b, j) /\ Key(b, j).v = key
    <3> DEFINE l == F(j, k)
    <3>1. l = [kstart |-> j, start |-> j + Key(b, j).n, end |-> Val(b, j).end]
      BY <2>1, <2>3 DEF FindOne, IsPair
    <3>2. /\ Key(b, j).n \in Nat /\ 1 <= Key(b, j).n
          /\ Val(b, j).end \in Nat
          /\ j + Key(b, j).n <= Val(b, j).end /\ Val(b, j).end <= Len(b)
      BY <2>3, PairTakes
    <3> HIDE DEF l
    <3>3. l.kstart = j /\ l.start = j + Key(b, j).n /\ l.end = Val(b, j).end
      BY <3>1
    <3>4. Within(l, j, Len(b))
      BY <3>2, <3>3 DEF Within
    <3> QED
      BY <2>3, <3>4 DEF l
  <2>4. CASE k > 0 /\ IsPair(b, j) /\ Key(b, j).v # key
    <3> DEFINE e == Val(b, j).end
    <3>1. F(j, k) = F(e, k - 1)
      BY <2>1, <2>4 DEF FindOne, IsPair
    <3>2. e \in Nat /\ j <= e
      BY <2>4, PairTakes
    <3>3. P(e, k - 1)
      BY <1>1, <2>4
    <3> DEFINE l == F(e, k - 1)
    <3> HIDE DEF l, e
    <3>4. Within(l, e, Len(b)) => Within(l, j, Len(b))
      BY <3>2 DEF Within
    <3> QED
      BY <2>4, <3>1, <3>3, <3>4 DEF l
  <2> QED
    BY <2>2, <2>3, <2>4
<1> HIDE DEF P
<1>2. 0 \in S
  <2> SUFFICES ASSUME NEW j \in Nat, NEW k \in Nat, Len(b) <= j + 0 PROVE P(j, k)
    OBVIOUS
  <2>1. ~IsPair(b, j)
    BY <1>0, PairTakes
  <2> QED
    BY <1>1, <2>1
<1>3. ASSUME NEW n \in Nat, n \in S PROVE n + 1 \in S
  <2> SUFFICES ASSUME NEW j \in Nat, NEW k \in Nat, Len(b) <= j + (n + 1) PROVE P(j, k)
    OBVIOUS
  <2>1. ASSUME IsPair(b, j) PROVE \A m \in Nat : P(Val(b, j).end, m)
    <3> DEFINE e == Val(b, j).end
    <3>1. e \in Nat /\ j + 1 <= e
      BY <2>1, PairTakes
    <3> HIDE DEF e
    <3>2. Len(b) <= e + n
      BY <1>0, <3>1
    <3> QED
      BY <1>3, <3>1, <3>2 DEF e
  <2> QED
    BY <1>1, <2>1
<1>4. Len(b) \in S
  <2> HIDE DEF S
  <2>1. \A n \in Nat : n \in S => n + 1 \in S
    BY <1>3
  <2> QED
    BY <1>0, <1>2, <2>1, Induction
<1>5. P(i, left)
  <2>1. Len(b) <= i + Len(b)
    BY <1>0
  <2> QED
    BY <1>4, <2>1
<1> QED
  BY <1>5 DEF P

(* locate answers with places inside the slice and behind a header that    *)
(* counts at least one pair, or with 0, 0.                                 *)
LEMMA LocateBounds ==
  ASSUME NEW b \in Seq(Byte), NEW key, locate(b, key).start # locate(b, key).end
  PROVE  LET h == ReadMapHeaderBytes(b) IN
         /\ h.err = "none" /\ h.v > 0
         /\ Within(locate(b, key), h.n, Len(b))
<1> DEFINE h == ReadMapHeaderBytes(b)
<1>1. h.err = "none"
  BY DEF locate, NotFound
<1>2. locate(b, key) = Finds(b, key)[h.n][h.v]
  BY <1>1 DEF locate
<1>3. h.n \in Nat /\ h.v \in Nat
  BY <1>1, MapHeader
<1>4. locate(b, key) # NotFound
  BY DEF NotFound
<1> HIDE DEF h
<1>5. h.v > 0 /\ Within(locate(b, key), h.n, Len(b))
  BY <1>2, <1>3, <1>4, FindBounds
<1> QED
  BY <1>1, <1>5 DEF h

-----------------------------------------------------------------------------
LEMMA CopyToIs ==
  ASSUME NEW arr \in Seq(Byte), NEW to \in Nat, NEW src \in Seq(Byte)
  PROVE  /\ CopyTo(arr, to, src) \in Seq(Byte)
         /\ Len(CopyTo(arr, to, src)) = Len(arr)
         /\ \A i \in 1..Len(arr) :
              CopyTo(arr, to, src)[i] =
                IF i > to /\ i - to <= Len(src) THEN src[i - to] ELSE arr[i]
<1>1. Len(arr) \in Nat /\ Len(src) \in Nat
  BY LenProperties
<1>2. ASSUME NEW i \in 1..Len(arr)
      PROVE  (IF i > to /\ i - to <= Len(src) THEN src[i - to] ELSE arr[i]) \in Byte
  <2>1. arr[i] \in Byte
    BY ElementOfSeq
  <2>2. ASSUME i > to, i - to <= Len(src) PROVE src[i - to] \in Byte
    <3>1. i - to \in 1..Len(src)
      BY <1>1, <2>2
    <3> QED
      BY <3>1, ElementOfSeq
  <2> QED
    BY <2>1, <2>2
<1> QED
  BY <1>1, <1>2 DEF CopyTo

LEMMA ConcatIs ==
  ASSUME NEW a \in Seq(Byte), NEW c \in Seq(Byte)
  PROVE  /\ a \o c \in Seq(Byte) /\ Len(a) \in Nat /\ Len(c) \in Nat
         /\ Len(a \o c) = Len(a) + Len(c)
         /\ \A i \in 1..Len(a) : (a \o c)[i] = a[i]
         /\ \A i \in 1..Len(c) : (a \o c)[Len(a) + i] = c[i]
<1>1. Len(a) \in Nat /\ Len(c) \in Nat
  BY LenProperties
<1>2. /\ a \o c \in Seq(Byte) /\ Len(a \o c) = Len(a) + Len(c)
      /\ \A i \in 1..Len(a) + Len(c) :
           (a \o c)[i] = IF i <= Len(a) THEN a[i] ELSE c[i - Len(a)]
  BY ConcatProperties
<1>3. ASSUME NEW i \in 1..Len(a) PROVE (a \o c)[i] = a[i]
  BY <1>1, <1>2
<1>4. ASSUME NEW i \in 1..Len(c) PROVE (a \o c)[Len(a) + i] = c[i]
  <2>1. /\ Len(a) + i \in 1..Len(a) + Len(c) /\ ~(Len(a) + i <= Len(a))
        /\ (Len(a) + i) - Len(a) = i
    BY <1>1
  <2> QED
    BY <1>2, <2>1
<1> QED
  BY <1>1, <1>2, <1>3, <1>4

LEMMA FromSame ==
  ASSUME NEW a \in Seq(Byte), NEW c \in Seq(Byte), Len(a) = Len(c), NEW n \in Nat,
         \A i \in 1..Len(a) : i > n => a[i] = c[i]
  PROVE  From(a, n) = From(c, n)
<1>1. Len(a) \in Nat
  BY LenProperties
<1> QED
  BY <1>1 DEF From

LEMMA FromEnd ==
  ASSUME NEW a \in Seq(Byte), NEW n \in Nat, n >= Len(a)
  PROVE  From(a, n) = <<>>
<1>1. Len(a) \in Nat
  BY LenProperties
<1> QED
  BY <1>1 DEF From

LEMMA Piece ==
  ASSUME NEW a \in Seq(Byte), NEW m \in Nat, NEW n \in Nat, m <= n, n <= Len(a)
  PROVE  /\ SubSeq(a, m + 1, n) \in Seq(Byte) /\ Len(SubSeq(a, m + 1, n)) = n - m
         /\ \A i \in 1..n - m : SubSeq(a, m + 1, n)[i] = a[m + i]
<1>1. Len(a) \in Nat
  BY LenProperties
<1>2. SubSeq(a, m + 1, n) \in Seq(Byte)
  BY <1>1, SubSeqProperties
<1> QED
  BY <1>1, <1>2


-----------------------------------------------------------------------------
(* The slice lies in its array, and the slice Locate returned in it.       *)
Fits ==
  /\ mem \in Seq(Byte) /\ len \in Nat /\ len <= Len(mem)
  /\ held.start \in Nat /\ held.end \in Nat
  /\ held.start <= held.end /\ held.end <= len

(* What an edit may do to the array: keep it, with everything behind both  *)
(* slices, or take a new one that the slice fills.                         *)
Edited(m, n) ==
  /\ m \in Seq(Byte) /\ n \in Nat /\ n <= Len(m)
  /\ \/ Len(m) = n
     \/ Len(m) = Len(mem) /\ \A i \in 1..Len(mem) : i > len /\ i > n => m[i] = mem[i]

LEMMA RawIs ==
  ASSUME Fits
  PROVE  raw \in Seq(Byte) /\ Len(raw) = len /\ Len(mem) \in Nat /\ \A i \in 1..len : raw[i] = mem[i]
<1>1. Len(mem) \in Nat
  BY LenProperties DEF Fits
<1>2. raw = SubSeq(mem, 0 + 1, len) /\ 0 <= len /\ 0 \in Nat
  BY DEF raw, Fits
<1>3. raw \in Seq(Byte) /\ Len(raw) = len - 0 /\ \A i \in 1..len - 0 : raw[i] = mem[0 + i]
  BY <1>2, Piece DEF Fits
<1>4. len - 0 = len
  BY DEF Fits
<1>5. \A i \in 1..len : raw[i] = mem[i]
  BY <1>3, <1>4
<1> QED
  BY <1>1, <1>3, <1>4, <1>5

(* The bytes of a value of its own, or of the one that Locate returned.    *)
Given(w) == IF w.alias THEN SubSeq(mem, w.from + 1, w.to) ELSE w.bytes
Argument(w) ==
  /\ w.start \in Nat /\ w.end \in Nat /\ w.start <= w.end /\ w.end <= len
  /\ IF w.alias THEN w.from \in Nat /\ w.to \in Nat /\ w.from <= w.to /\ w.to <= len
     ELSE w.bytes \in Seq(Byte)

LEMMA GivenIs ==
  ASSUME Fits, NEW w, Argument(w), NEW arr \in Seq(Byte), len <= Len(arr)
  PROVE  LET v == IF w.alias THEN SubSeq(arr, w.from + 1, w.to) ELSE w.bytes IN
         /\ v \in Seq(Byte) /\ Len(v) \in Nat
         /\ Len(v) = IF w.alias THEN w.to - w.from ELSE Len(w.bytes)
<1>1. CASE w.alias
  <2>1. w.from \in Nat /\ w.to \in Nat /\ w.from <= w.to /\ w.to <= Len(arr)
    <3>1. w.to \in Nat /\ w.to <= len /\ len \in Nat /\ Len(arr) \in Nat
      BY <1>1, LenProperties DEF Argument, Fits
    <3> QED
      BY <1>1, <3>1 DEF Argument
  <2>2. /\ SubSeq(arr, w.from + 1, w.to) \in Seq(Byte)
        /\ Len(SubSeq(arr, w.from + 1, w.to)) = w.to - w.from
    BY <2>1, Piece
  <2>3. w.to - w.from \in Nat
    BY <2>1
  <2> QED
    BY <1>1, <2>2, <2>3
<1>2. CASE ~w.alias
  <2>1. w.bytes \in Seq(Byte) /\ Len(w.bytes) \in Nat
    BY <1>2, LenProperties DEF Argument
  <2> QED
    BY <1>2, <2>1
<1> QED
  BY <1>1, <1>2

LEMMA ShrinkKeeps ==
  ASSUME Fits, NEW w, Argument(w), NEW extra \in Int,
         extra = Len(Given(w)) - (w.end - w.start), extra < 0
  PROVE  Edited(shrink(w, extra).mem, shrink(w, extra).len)
<1> DEFINE v == Given(w)
           put == CopyTo(mem, w.start, v)
           tail == SubSeq(put, w.end + 1, len)
           new == CopyTo(put, w.end + extra, tail)
<1>0. /\ mem \in Seq(Byte) /\ len \in Nat /\ Len(mem) \in Nat /\ len <= Len(mem)
      /\ w.start \in Nat /\ w.end \in Nat /\ w.start <= w.end /\ w.end <= len
  BY LenProperties DEF Fits, Argument
<1>1. v \in Seq(Byte) /\ Len(v) \in Nat
  BY <1>0, GivenIs DEF Given
<1>2. shrink(w, extra) = [mem |-> new, len |-> len + extra]
  BY DEF shrink, Slice, Given
<1> HIDE DEF v
<1>3. w.start + Len(v) <= len /\ w.end + extra \in Nat /\ w.end + extra < w.end
      /\ len + extra \in Nat /\ len + extra <= Len(mem) /\ w.end + extra = w.start + Len(v)
  BY <1>0, <1>1 DEF v
<1>4. /\ put \in Seq(Byte) /\ Len(put) = Len(mem)
      /\ \A i \in 1..Len(mem) : put[i] =
           IF i > w.start /\ i - w.start <= Len(v) THEN v[i - w.start] ELSE mem[i]
  BY <1>0, <1>1, CopyToIs
<1> HIDE DEF put
<1>5. tail \in Seq(Byte) /\ Len(tail) = len - w.end
  BY <1>0, <1>4, Piece
<1> HIDE DEF tail
<1>6. /\ new \in Seq(Byte) /\ Len(new) = Len(mem)
      /\ \A i \in 1..Len(mem) : new[i] =
           IF i > w.end + extra /\ i - (w.end + extra) <= Len(tail)
           THEN tail[i - (w.end + extra)] ELSE put[i]
  <2>1. w.end + extra \in Nat
    BY <1>3
  <2> QED
    BY <1>4, <1>5, <2>1, CopyToIs
<1> HIDE DEF new
<1>7. ASSUME NEW i \in 1..Len(mem), i > len PROVE new[i] = mem[i]
  <2>0. i \in Int
    OBVIOUS
  <2>1. ~(i - w.start <= Len(v))
    BY <1>0, <1>1, <1>3, <1>7, <2>0
  <2>2. ~(i - (w.end + extra) <= Len(tail))
    BY <1>0, <1>5, <1>7, <2>0
  <2> QED
    BY <1>4, <1>6, <2>1, <2>2
<1> QED
  BY <1>2, <1>3, <1>6, <1>7 DEF Edited

LEMMA GrowKeeps ==
  ASSUME Fits, NEW w, Argument(w), NEW extra \in Int,
         extra > 0, extra < Len(mem) - len
  PROVE  Edited(grow(w, extra).mem, grow(w, extra).len)
<1> DEFINE n == len + extra
           ext == SubSeq(mem, 1, n)
           tail == SubSeq(mem, w.end + 1, len)
           moved == CopyTo(ext, w.end + extra, tail)
           v == IF w.alias THEN SubSeq(moved, w.from + 1, w.to) ELSE w.bytes
           put == CopyTo(moved, w.start, v)
           rest == From(mem, n)
<1>0. /\ mem \in Seq(Byte) /\ len \in Nat /\ Len(mem) \in Nat /\ len <= Len(mem)
      /\ w.start \in Nat /\ w.end \in Nat /\ w.start <= w.end /\ w.end <= len
  BY LenProperties DEF Fits, Argument
<1>1. n \in Nat /\ len <= n /\ n <= Len(mem) /\ w.end + extra \in Nat /\ 0 \in Nat /\ 0 <= n
  BY <1>0
<1>2. grow(w, extra) = [mem |-> put \o rest, len |-> n]
  BY DEF grow, Slice
<1> HIDE DEF n
<1>3. ext \in Seq(Byte) /\ Len(ext) = n
  <2>1. ext = SubSeq(mem, 0 + 1, n) /\ n - 0 = n
    BY <1>1
  <2> QED
    BY <1>0, <1>1, <2>1, Piece
<1>4. tail \in Seq(Byte)
  BY <1>0, Piece
<1> HIDE DEF ext, tail
<1>5. moved \in Seq(Byte) /\ Len(moved) = n
  BY <1>1, <1>3, <1>4, CopyToIs
<1> HIDE DEF moved
<1>6. v \in Seq(Byte)
  BY <1>1, <1>5, GivenIs
<1> HIDE DEF v
<1>7. put \in Seq(Byte) /\ Len(put) = n
  BY <1>0, <1>5, <1>6, CopyToIs
<1> HIDE DEF put
<1>8. /\ rest \in Seq(Byte) /\ Len(rest) = Len(mem) - n
      /\ \A i \in 1..Len(mem) - n : rest[i] = mem[n + i]
  <2>1. rest = SubSeq(mem, n + 1, Len(mem)) /\ Len(mem) <= Len(mem)
    BY <1>0 DEF From
  <2> QED
    BY <1>0, <1>1, <2>1, Piece
<1> HIDE DEF rest
<1>9. /\ put \o rest \in Seq(Byte) /\ Len(put \o rest) = Len(mem)
      /\ \A i \in 1..Len(rest) : (put \o rest)[n + i] = rest[i]
  <2>1. /\ put \o rest \in Seq(Byte) /\ Len(put \o rest) = n + Len(rest)
        /\ \A i \in 1..Len(rest) : (put \o rest)[n + i] = rest[i]
    BY <1>7, <1>8, ConcatIs
  <2>2. n + Len(rest) = Len(mem)
    BY <1>0, <1>1, <1>8
  <2> QED
    BY <2>1, <2>2
<1>10. ASSUME NEW i \in 1..Len(mem), i > n PROVE (put \o rest)[i] = mem[i]
  <2>1. i - n \in 1..Len(mem) - n /\ n + (i - n) = i
    BY <1>0, <1>1, <1>10
  <2>2. (put \o rest)[n + (i - n)] = rest[i - n] /\ rest[i - n] = mem[n + (i - n)]
    BY <1>8, <1>9, <2>1
  <2> QED
    BY <2>1, <2>2
<1>11. Edited(put \o rest, n)
  BY <1>1, <1>9, <1>10 DEF Edited
<1> QED
  BY <1>2, <1>11


LEMMA ReplaceKeeps ==
  ASSUME Fits, NEW w, Argument(w), NEW inplace
  PROVE  Edited(replace(w, inplace).mem, replace(w, inplace).len)
<1> DEFINE v == Given(w)
           extra == Len(v) - (w.end - w.start)
           new == replace(w, inplace)
           front == SubSeq(mem, 1, w.start)
           tail == SubSeq(mem, w.end + 1, len)
           fresh == front \o v \o tail
<1>0. /\ mem \in Seq(Byte) /\ len \in Nat /\ Len(mem) \in Nat /\ len <= Len(mem)
      /\ w.start \in Nat /\ w.end \in Nat /\ w.start <= w.end /\ w.end <= len
  BY LenProperties DEF Fits, Argument
<1>1. v \in Seq(Byte) /\ Len(v) \in Nat
  BY <1>0, GivenIs DEF Given
<1>2. new = CASE inplace /\ extra = 0 -> Slice(CopyTo(mem, w.start, v), len)
              [] inplace /\ extra < 0 -> shrink(w, extra)
              [] inplace /\ extra > 0 /\ extra < Len(mem) - len -> grow(w, extra)
              [] OTHER -> Slice(fresh, Len(fresh))
  BY DEF replace, Given
<1> HIDE DEF v, new
<1>3. extra \in Int
  BY <1>0, <1>1
<1>4. CASE inplace /\ extra = 0
  <2>1. new = [mem |-> CopyTo(mem, w.start, v), len |-> len]
    BY <1>2, <1>4 DEF Slice
  <2> DEFINE put == CopyTo(mem, w.start, v)
  <2>2. /\ put \in Seq(Byte) /\ Len(put) = Len(mem)
        /\ \A i \in 1..Len(mem) : put[i] =
             IF i > w.start /\ i - w.start <= Len(v) THEN v[i - w.start] ELSE mem[i]
    BY <1>0, <1>1, CopyToIs
  <2> HIDE DEF put
  <2>3. ASSUME NEW i \in 1..Len(mem), i > len PROVE put[i] = mem[i]
    <3>0. i \in Int /\ w.start + Len(v) <= len
      BY <1>0, <1>1, <1>4
    <3>1. ~(i - w.start <= Len(v))
      BY <1>0, <1>1, <2>3, <3>0
    <3> QED
      BY <2>2, <3>1
  <2>4. Edited(put, len)
    BY <1>0, <2>2, <2>3 DEF Edited
  <2> QED
    BY <2>1, <2>4 DEF put, new
<1>5. CASE inplace /\ extra < 0
  <2>1. new = shrink(w, extra)
    BY <1>2, <1>3, <1>5
  <2>2. Edited(shrink(w, extra).mem, shrink(w, extra).len)
    BY <1>3, <1>5, ShrinkKeeps DEF v
  <2> QED
    BY <2>1, <2>2 DEF new
<1>6. CASE inplace /\ extra > 0 /\ extra < Len(mem) - len
  <2>1. new = grow(w, extra)
    BY <1>2, <1>3, <1>6
  <2>2. Edited(grow(w, extra).mem, grow(w, extra).len)
    BY <1>3, <1>6, GrowKeeps
  <2> QED
    BY <2>1, <2>2 DEF new
<1>7. CASE ~inplace \/ ~(extra = 0 \/ extra < 0 \/ (extra > 0 /\ extra < Len(mem) - len))
  <2>1. new = [mem |-> fresh, len |-> Len(fresh)]
    BY <1>2, <1>7 DEF Slice
  <2>2. fresh \in Seq(Byte) /\ Len(fresh) \in Nat
    <3>1. front \in Seq(Byte)
      <4>1. front = SubSeq(mem, 0 + 1, w.start) /\ 0 <= w.start /\ w.start <= Len(mem)
        BY <1>0
      <4> QED
        BY <1>0, <4>1, Piece
    <3>2. tail \in Seq(Byte)
      BY <1>0, Piece
    <3> HIDE DEF front, tail
    <3>3. fresh \in Seq(Byte)
      BY <1>1, <3>1, <3>2, ConcatProperties
    <3> QED
      BY <3>3, LenProperties
  <2> HIDE DEF fresh
  <2>3. Edited(fresh, Len(fresh))
    BY <2>2 DEF Edited
  <2> QED
    BY <2>1, <2>3 DEF new
<1> QED
  BY <1>4, <1>5, <1>6, <1>7

(* Remove moves the rest over the pair and counts one pair less in the     *)
(* header, which it only does to a header of a pair or more.               *)
LEMMA RemoveKeeps ==
  ASSUME Fits, NEW key, locate(raw, key).start # locate(raw, key).end
  PROVE  LET l == locate(raw, key)
             cut == CopyTo(mem, l.kstart, SubSeq(mem, l.end + 1, len))
         IN  Edited(resizeMap(cut), len - (l.end - l.kstart))
<1> DEFINE l == locate(raw, key)
           h == ReadMapHeaderBytes(raw)
           tail == SubSeq(mem, l.end + 1, len)
           cut == CopyTo(mem, l.kstart, tail)
           new == resizeMap(cut)
           n == len - (l.end - l.kstart)
<1>0. /\ mem \in Seq(Byte) /\ len \in Nat /\ Len(mem) \in Nat /\ len <= Len(mem)
      /\ raw \in Seq(Byte) /\ Len(raw) = len /\ \A i \in 1..len : raw[i] = mem[i]
  BY RawIs DEF Fits
<1>1. h.err = "none" /\ h.v > 0 /\ Within(l, h.n, len)
  BY <1>0, LocateBounds
<1>2. /\ h.n \in Nat /\ 1 <= h.n /\ h.n <= len /\ h.v \in Nat
      /\ \/ raw[1] \in 128..143 /\ h.n = 1 /\ h.v = raw[1] - 128
         \/ raw[1] = 222 /\ h.n = 3
         \/ raw[1] = 223 /\ h.n = 5
  BY <1>0, <1>1, MapHeader
<1> HIDE DEF l, h
<1>3. /\ l.kstart \in Nat /\ l.start \in Nat /\ l.end \in Nat /\ h.n <= l.kstart
      /\ l.kstart < l.end /\ l.end <= len
  BY <1>1 DEF Within
<1>4. n \in Nat /\ n <= len /\ n <= Len(mem) /\ l.kstart >= 1
  BY <1>0, <1>2, <1>3
<1>5. tail \in Seq(Byte) /\ Len(tail) = len - l.end
  BY <1>0, <1>3, Piece
<1> HIDE DEF tail
<1>6. /\ cut \in Seq(Byte) /\ Len(cut) = Len(mem)
      /\ \A i \in 1..Len(mem) : cut[i] =
           IF i > l.kstart /\ i - l.kstart <= Len(tail) THEN tail[i - l.kstart] ELSE mem[i]
  BY <1>0, <1>3, <1>5, CopyToIs
<1> HIDE DEF cut
<1>7. cut[1] = raw[1]
  <2>1. 1 \in 1..Len(mem) /\ 1 \in 1..len /\ ~(1 > l.kstart)
    BY <1>0, <1>2, <1>3
  <2> QED
    BY <1>0, <1>6, <2>1
<1>8. ASSUME NEW i \in 1..Len(mem), i > len PROVE cut[i] = mem[i]
  <2>1. ~(i - l.kstart <= Len(tail))
    BY <1>0, <1>3, <1>5, <1>8
  <2> QED
    BY <1>6, <2>1
<1> HIDE DEF new
<1>9. ASSUME NEW to \in Nat, NEW src \in Seq(Byte), to + Len(src) <= len,
             new = CopyTo(cut, to, src)
      PROVE  Edited(new, n)
  <2>1. /\ new \in Seq(Byte) /\ Len(new) = Len(mem)
        /\ \A i \in 1..Len(mem) : new[i] =
             IF i > to /\ i - to <= Len(src) THEN src[i - to] ELSE cut[i]
    BY <1>6, <1>9, CopyToIs, SMTT(40)
  <2>2. Len(src) \in Nat
    BY LenProperties
  <2>3. ASSUME NEW i \in 1..Len(mem), i > len PROVE new[i] = mem[i]
    <3>1. ~(i - to <= Len(src))
      BY <1>0, <1>9, <2>2, <2>3
    <3> QED
      BY <1>8, <2>1, <2>3, <3>1
  <2> HIDE DEF n
  <2> QED
    BY <1>0, <1>4, <2>1, <2>3 DEF Edited
<1>10. ASSUME NEW x \in Int PROVE x % 256 \in Byte
  BY DEF Byte
<1>11. ASSUME raw[1] = 222, h.n = 3 PROVE Edited(new, n)
  <2>1. new = CopyTo(cut, 1, be(be16(cut) - 1, 2))
    BY <1>7, <1>11 DEF resizeMap, new
  <2>2. be16(cut) \in Nat
    BY <1>0, <1>2, <1>6, <1>11, Be16
  <2> DEFINE k == be16(cut) - 1
  <2>3. k \in Int /\ k \div 256 \in Int
    BY <2>2
  <2>5. new = CopyTo(cut, 1, be(k, 2))
    BY <2>1
  <2> HIDE DEF k
  <2>4. be(k, 2) \in Seq(Byte) /\ Len(be(k, 2)) = 2
    <3>1. (k \div 256) % 256 \in Byte /\ k % 256 \in Byte
      BY <1>10, <2>3
    <3> QED
      BY <3>1 DEF be
  <2>6. 1 + Len(be(k, 2)) <= len /\ 1 \in Nat
    <3>1. 1 + 2 <= len
      BY <1>2, <1>11
    <3>2. 1 + Len(be(k, 2)) <= len
      BY <2>4, <3>1, Zenon
    <3> QED
      BY <3>2
  <2> QED
    BY <1>9, <2>4, <2>5, <2>6
<1>12. ASSUME raw[1] = 223, h.n = 5 PROVE Edited(new, n)
  <2>1. new = CopyTo(cut, 1, be(be32(cut) - 1, 4))
    BY <1>7, <1>12 DEF resizeMap, new
  <2>2. be32(cut) \in Nat
    BY <1>0, <1>2, <1>6, <1>12, Be32
  <2> DEFINE k == be32(cut) - 1
  <2>3. k \in Int /\ k \div 256 \in Int /\ k \div 65536 \in Int /\ k \div 16777216 \in Int
    BY <2>2
  <2>5. new = CopyTo(cut, 1, be(k, 4))
    BY <2>1
  <2> HIDE DEF k
  <2>4. be(k, 4) \in Seq(Byte) /\ Len(be(k, 4)) = 4
    <3>1. /\ (k \div 256) % 256 \in Byte /\ k % 256 \in Byte
          /\ (k \div 65536) % 256 \in Byte /\ (k \div 16777216) % 256 \in Byte
      BY <1>10, <2>3
    <3> QED
      BY <3>1 DEF be
  <2>6. 1 + Len(be(k, 4)) <= len /\ 1 \in Nat
    <3>1. 1 + 4 <= len
      BY <1>2, <1>12
    <3>2. 1 + Len(be(k, 4)) <= len
      BY <2>4, <3>1, Zenon
    <3> QED
      BY <3>2
  <2> QED
    BY <1>9, <2>4, <2>5, <2>6
<1>13. ASSUME raw[1] \in 128..143, h.v = raw[1] - 128 PROVE Edited(new, n)
  <2>1. new = CopyTo(cut, 0, <<128 + (cut[1] - 129)>>)
    BY <1>7, <1>13 DEF resizeMap, new
  <2> DEFINE s == <<128 + (cut[1] - 129)>>
  <2>2. 128 + (cut[1] - 129) \in Byte
    BY <1>1, <1>7, <1>13 DEF Byte
  <2>3. s \in Seq(Byte) /\ Len(s) = 1
    BY <2>2
  <2>5. new = CopyTo(cut, 0, s)
    BY <2>1
  <2> HIDE DEF s
  <2>4. 0 \in Nat /\ 0 + Len(s) <= len
    BY <1>0, <1>2, <2>3
  <2> QED
    BY <1>9, <2>3, <2>4, <2>5
<1> QED
  BY <1>2, <1>11, <1>12, <1>13 DEF l, cut, tail, new

-----------------------------------------------------------------------------
LEMMA InitFits == Init => Fits
<1> SUFFICES ASSUME Init PROVE Fits
  OBVIOUS
<1>1. PICK m \in Messages, s \in Spare :
        /\ mem = m.bytes \o [i \in 1..s |-> 193]
        /\ len = Len(m.bytes) /\ held = Nothing
  BY DEF Init
<1>2. m.bytes \in Seq(Byte) /\ s \in Nat /\ Len(m.bytes) \in Nat
  BY EditAssumption, LenProperties
<1> DEFINE f == [i \in 1..s |-> 193]
<1>3. f \in Seq(Byte) /\ Len(f) = s
  <2>1. 193 \in Byte
    BY DEF Byte
  <2> QED
    BY <1>2, <2>1
<1> HIDE DEF f
<1>4. mem \in Seq(Byte) /\ Len(mem) = Len(m.bytes) + s
  BY <1>1, <1>2, <1>3, ConcatProperties DEF f
<1> QED
  BY <1>1, <1>2, <1>4 DEF Fits, Nothing

(* Every step either leaves the array and the slice or is an edit.         *)
LEMMA StepEdits ==
  ASSUME Fits, Next
  PROVE  \/ mem' = mem /\ len' = len /\ held' = held
         \/ mem' = mem /\ len' = len
            /\ held'.start \in Nat /\ held'.end \in Nat
            /\ held'.start <= held'.end /\ held'.end <= len
         \/ Edited(mem', len') /\ held' = Nothing
<1>0. raw \in Seq(Byte) /\ Len(raw) = len /\ len \in Nat
  BY RawIs DEF Fits
<1>1. PICK key \in Keys :
        \/ Locate(key)
        \/ CallHasKey(key)
        \/ \E o \in {"Replace", "CopyReplace"} :
             ReplaceHeld(o, key) \/ \E v \in Vals : Replace(o, key, v)
        \/ Remove(key)
  BY DEF Next
<1> DEFINE l == locate(raw, key)
<1>2. /\ l.start = l.end \/ Within(l, ReadMapHeaderBytes(raw).n, len)
  BY <1>0, LocateBounds
<1>3. l.start # l.end =>
        l.start \in Nat /\ l.end \in Nat /\ l.start <= l.end /\ l.end <= len
  BY <1>2 DEF Within
<1> HIDE DEF l
<1>4. CASE Locate(key)
  <2>1. mem' = mem /\ len' = len /\ held' = [start |-> l.start, end |-> l.end]
    BY <1>4 DEF Locate, l
  <2>2. l.start = l.end => l.start = 0 \/ Within(l, ReadMapHeaderBytes(raw).n, len)
    <3> DEFINE h == ReadMapHeaderBytes(raw)
    <3>1. CASE h.err # "none"
      BY <3>1 DEF l, locate, NotFound
    <3>2. CASE h.err = "none"
      <4>1. l = Finds(raw, key)[h.n][h.v]
        BY <3>2 DEF l, locate
      <4>2. h.n \in Nat /\ h.v \in Nat
        BY <1>0, <3>2, MapHeader
      <4> HIDE DEF h
      <4>3. l = NotFound \/ Within(l, h.n, len)
        BY <1>0, <4>1, <4>2, FindBounds
      <4> QED
        BY <4>3 DEF NotFound, h
    <3> QED
      BY <3>1, <3>2
  <2>3. l.start \in Nat /\ l.end \in Nat /\ l.start <= l.end /\ l.end <= len
    BY <1>0, <1>3, <2>2 DEF Within
  <2> QED
    BY <2>1, <2>3
<1>5. CASE CallHasKey(key)
  BY <1>5 DEF CallHasKey
<1>6. ASSUME NEW o, NEW w, Put(o, key, w), l.start # l.end => Argument(w)
      PROVE  \/ mem' = mem /\ len' = len /\ held' = held
             \/ Edited(mem', len') /\ held' = Nothing
  <2>1. CASE l.start = l.end
    BY <1>6, <2>1 DEF Put, l
  <2>2. CASE l.start # l.end
    <3> DEFINE new == replace(w, o = "Replace")
    <3>1. mem' = new.mem /\ len' = new.len /\ held' = Nothing
      BY <1>6, <2>2 DEF Put, l
    <3>2. Edited(new.mem, new.len)
      BY <1>6, <2>2, ReplaceKeeps
    <3> QED
      BY <3>1, <3>2
  <2> QED
    BY <2>1, <2>2
<1>7. ASSUME NEW o, ReplaceHeld(o, key)
      PROVE  \/ mem' = mem /\ len' = len /\ held' = held
             \/ Edited(mem', len') /\ held' = Nothing
  <2>1. Put(o, key, Shared(l))
    BY <1>7 DEF ReplaceHeld, l
  <2>2. l.start # l.end => Argument(Shared(l))
    BY <1>3 DEF Argument, Shared, Fits
  <2> QED
    BY <1>6, <2>1, <2>2
<1>8. ASSUME NEW o, NEW v \in Vals, Replace(o, key, v)
      PROVE  \/ mem' = mem /\ len' = len /\ held' = held
             \/ Edited(mem', len') /\ held' = Nothing
  <2>1. Put(o, key, Own(l, v))
    BY <1>8 DEF Replace, l
  <2>2. l.start # l.end => Argument(Own(l, v))
    BY <1>3, EditAssumption DEF Argument, Own
  <2> QED
    BY <1>6, <2>1, <2>2
<1>9. CASE Remove(key)
  <2>1. CASE l.start = l.end
    BY <1>9, <2>1 DEF Remove, l
  <2>2. CASE l.start # l.end
    <3> DEFINE cut == CopyTo(mem, l.kstart, SubSeq(mem, l.end + 1, len))
    <3>1. mem' = resizeMap(cut) /\ len' = len - (l.end - l.kstart) /\ held' = Nothing
      BY <1>9, <2>2 DEF Remove, l
    <3>2. Edited(resizeMap(cut), len - (l.end - l.kstart))
      BY <2>2, RemoveKeeps DEF l
    <3> QED
      BY <3>1, <3>2
  <2> QED
    BY <2>1, <2>2
<1> QED
  BY <1>1, <1>4, <1>5, <1>7, <1>8, <1>9

LEMMA StepFits ==
  ASSUME Fits, [Next]_vars
  PROVE  Fits'
<1>1. CASE vars' = vars
  BY <1>1 DEF vars, Fits
<1>2. CASE Next
  <2>1. CASE Edited(mem', len') /\ held' = Nothing
    BY <2>1 DEF Edited, Fits, Nothing
  <2>2. CASE mem' = mem /\ len' = len /\ held' = held
    BY <2>2 DEF Fits
  <2>3. CASE /\ mem' = mem /\ len' = len
             /\ held'.start \in Nat /\ held'.end \in Nat
             /\ held'.start <= held'.end /\ held'.end <= len
    BY <2>3 DEF Fits
  <2> QED
    BY <1>2, <2>1, <2>2, <2>3, StepEdits
<1> QED
  BY <1>1, <1>2

LEMMA StepKeeps ==
  ASSUME Fits, Next, Len(mem') = Len(mem)
  PROVE  LET longer == IF len > len' THEN len ELSE len' IN
         From(mem', longer) = From(mem, longer)
<1> DEFINE longer == IF len > len' THEN len ELSE len'
<1>1. CASE Edited(mem', len')
  <2>0. /\ mem' \in Seq(Byte) /\ mem \in Seq(Byte) /\ len \in Nat /\ len' \in Nat
        /\ len' <= Len(mem')
    BY <1>1 DEF Edited, Fits
  <2>1. longer \in Nat /\ longer >= len /\ longer >= len' /\ Len(mem) \in Nat
    BY <2>0, LenProperties
  <2> HIDE DEF longer
  <2>2. CASE Len(mem') = len'
    <3>1. From(mem', longer) = <<>> /\ From(mem, longer) = <<>>
      BY <2>0, <2>1, <2>2, FromEnd
    <3> QED
      BY <3>1 DEF longer
  <2>3. CASE \A i \in 1..Len(mem) : i > len /\ i > len' => mem'[i] = mem[i]
    <3>1. ASSUME NEW i \in 1..Len(mem'), i > longer PROVE mem'[i] = mem[i]
      <4>1. i > len /\ i > len'
        BY <2>0, <2>1, <3>1
      <4> QED
        BY <2>3, <4>1
    <3>2. From(mem', longer) = From(mem, longer)
      BY <2>0, <2>1, <3>1, FromSame
    <3> QED
      BY <3>2 DEF longer
  <2> QED
    BY <1>1, <2>2, <2>3 DEF Edited
<1>2. CASE mem' = mem
  BY <1>2
<1> QED
  BY <1>1, <1>2, StepEdits

(* In an array an edit keeps, no byte behind both the slice it got and the *)
(* one it returns is written, whatever the bytes are, whole or cut short,  *)
(* and whether or not the value put in lies in the same array.             *)
THEOREM RestIsKept == Spec => KeepsRest
<1> DEFINE A == LET longer == IF len > len' THEN len ELSE len' IN
                Len(mem') = Len(mem) => From(mem', longer) = From(mem, longer)
<1>1. Init => Fits
  BY InitFits
<1>2. Fits /\ [Next]_vars => Fits'
  BY StepFits
<1>3. Fits /\ [Next]_vars => [A]_vars
  BY StepKeeps
<1>4. KeepsRest <=> [][A]_vars
  BY DEF KeepsRest
<1> HIDE DEF A
<1> QED
  BY <1>1, <1>2, <1>3, <1>4, PTL DEF Spec

-----------------------------------------------------------------------------
(* edit.go edits the map a slice encodes, and nothing else: Locate,        *)
(* Replace, CopyReplace and Remove agree with a map.                       *)

(* What is read depends only on the bytes it takes.                        *)

(* The bytes of c from j on are those of b from i on, n of them.           *)
Same(b, i, c, j, n) ==
  i + n <= Len(b) /\ j + n <= Len(c) /\ \A k \in 1..n : c[j + k] = b[i + k]

LEMMA AheadAt ==
  ASSUME NEW b \in Seq(Byte), NEW i \in Nat, i <= Len(b)
  PROVE  /\ Ahead(b, i) \in Seq(Byte) /\ Len(b) \in Nat /\ Len(Ahead(b, i)) = Len(b) - i
         /\ \A k \in 1..Len(b) - i : Ahead(b, i)[k] = b[i + k]
<1>1. Len(b) \in Nat
  BY LenProperties
<1>2. Ahead(b, i) = SubSeq(b, i + 1, Len(b)) /\ Len(b) <= Len(b)
  BY <1>1 DEF Ahead
<1> QED
  BY <1>1, <1>2, Piece

LEMMA PieceSame ==
  ASSUME NEW b \in Seq(Byte), NEW c \in Seq(Byte), NEW i \in Nat, NEW j \in Nat,
         NEW n \in Nat, Same(b, i, c, j, n)
  PROVE  SubSeq(c, j + 1, j + n) = SubSeq(b, i + 1, i + n)
<1>1. /\ i + n <= Len(b) /\ j + n <= Len(c) /\ \A k \in 1..n : c[j + k] = b[i + k]
      /\ i + n \in Nat /\ j + n \in Nat /\ i <= i + n /\ j <= j + n
      /\ (i + n) - i = n /\ (j + n) - j = n
  BY DEF Same
<1> DEFINE s == SubSeq(b, i + 1, i + n)
           t == SubSeq(c, j + 1, j + n)
<1>2. s \in Seq(Byte) /\ Len(s) = n /\ \A k \in 1..n : s[k] = b[i + k]
  <2> DEFINE q == i + n
  <2> HIDE DEF q
  <2>1. q \in Nat /\ i <= q /\ q <= Len(b) /\ q - i = n
    BY <1>1 DEF q
  <2>2. /\ SubSeq(b, i + 1, q) \in Seq(Byte) /\ Len(SubSeq(b, i + 1, q)) = q - i
        /\ \A k \in 1..q - i : SubSeq(b, i + 1, q)[k] = b[i + k]
    BY <2>1, Piece
  <2> QED
    BY <2>1, <2>2 DEF q
<1>3. t \in Seq(Byte) /\ Len(t) = n /\ \A k \in 1..n : t[k] = c[j + k]
  <2> DEFINE q == j + n
  <2> HIDE DEF q
  <2>1. q \in Nat /\ j <= q /\ q <= Len(c) /\ q - j = n
    BY <1>1 DEF q
  <2>2. /\ SubSeq(c, j + 1, q) \in Seq(Byte) /\ Len(SubSeq(c, j + 1, q)) = q - j
        /\ \A k \in 1..q - j : SubSeq(c, j + 1, q)[k] = c[j + k]
    BY <2>1, Piece
  <2> QED
    BY <2>1, <2>2 DEF q
<1> HIDE DEF s, t
<1>4. \A k \in 1..Len(t) : t[k] = s[k]
  BY <1>1, <1>2, <1>3
<1>5. t = s
  BY <1>2, <1>3, <1>4, SeqEqual
<1> QED
  BY <1>5 DEF s, t

(* The first byte, and the sizes, of sequences that begin with the same    *)
(* prefix.                                                                 *)
LEMMA PrefixSame ==
  ASSUME NEW a \in Seq(Byte), NEW d \in Seq(Byte), NEW m \in Nat, 1 <= m,
         m <= Len(a), m <= Len(d), \A k \in 1..m : d[k] = a[k],
         sizes[a[1]].extra < 0 => sizes[a[1]].size <= m
  PROVE  d[1] = a[1] /\ a[1] \in Byte /\ SizedBy(sizes[a[1]], d) = SizedBy(sizes[a[1]], a)
<1> DEFINE z == sizes[a[1]]
           p == SubSeq(a, 0 + 1, m)
<1>1. Len(a) \in Nat /\ Len(d) \in Nat /\ 0 \in Nat /\ 0 <= m /\ m - 0 = m
  BY LenProperties
<1>2. /\ p \in Seq(Byte) /\ Len(p) = m /\ \A k \in 1..m : p[k] = a[0 + k]
  BY <1>1, Piece
<1>3. \A k \in 1..m : 0 + k = k
  OBVIOUS
<1> HIDE DEF p
<1>4. \A k \in 1..Len(p) : p[k] = a[k] /\ p[k] = d[k]
  BY <1>2, <1>3
<1>5. a[1] \in Byte /\ d[1] = a[1]
  BY <1>1, ElementOfSeq
<1>6. Entry(a[1], z) /\ z.extra \in Int /\ z.size \in Nat
  BY <1>5, Entries, EntryFacts
<1>7. Complete(z, p)
  BY <1>2, <1>6 DEF Complete
<1> HIDE DEF z
<1>8. SizedBy(z, p) = SizedBy(z, a) /\ SizedBy(z, p) = SizedBy(z, d)
  BY <1>1, <1>2, <1>4, <1>6, <1>7, SizedSame
<1> QED
  BY <1>5, <1>8 DEF z

LEMMA GetSizeSame ==
  ASSUME NEW a \in Seq(Byte), NEW d \in Seq(Byte), getSize(a).err = "none",
         getSize(a).v <= Len(a), getSize(a).v <= Len(d),
         \A k \in 1..getSize(a).v : d[k] = a[k]
  PROVE  getSize(d) = getSize(a)
<1> DEFINE z == sizes[a[1]]
           m == getSize(a).v
<1>1. /\ a # <<>> /\ getSize(a) = SizedBy(z, a) /\ Complete(z, a) /\ z.size > 0
      /\ m \in Nat /\ m > 0
  BY GetSize
<1>2. Len(a) \in Nat /\ Len(d) \in Nat /\ a[1] \in Byte
  BY <1>1, LenProperties, EmptySeq, ElementOfSeq
<1>3. Entry(a[1], z) /\ z.size \in Nat /\ z.extra \in Int
  BY <1>2, Entries, EntryFacts
<1>4. InRange(z, SizedBy(z, a))
  BY <1>1, <1>3, SizedRange
<1>5. m >= z.size
  BY <1>1, <1>4 DEF InRange
<1> HIDE DEF m
<1>6. m <= Len(a) /\ m <= Len(d) /\ \A k \in 1..m : d[k] = a[k]
  BY DEF m
<1>7. d[1] = a[1] /\ SizedBy(z, d) = SizedBy(z, a)
  BY <1>1, <1>5, <1>6, PrefixSame
<1>8. d # <<>>
  BY <1>1, <1>2, <1>6
<1>9. ~(z.extra < 0 /\ Len(d) < z.size) /\ z.size # 0
  BY <1>1, <1>2, <1>3, <1>5, <1>6
<1>10. getSize(d) = getSizeBy(z, d)
  BY <1>7, <1>8 DEF getSize
<1> HIDE DEF z
<1>11. getSizeBy(z, d) = SizedBy(z, d)
  BY <1>9 DEF getSizeBy
<1> QED
  BY <1>1, <1>7, <1>10, <1>11

LEMMA SkipOn ==
  ASSUME NEW b \in Seq(Byte), NEW i \in Nat, NEW left \in Nat, left > 0,
         getSize(Ahead(b, i)).err = "none", i + getSize(Ahead(b, i)).v <= Len(b)
  PROVE  Skips(b)[i][left] =
           Skips(b)[i + getSize(Ahead(b, i)).v][left - 1 + getSize(Ahead(b, i)).o]
BY SkipCases

(* From i on, left objects end at e.                                       *)
Skipped(b, i, left, e) == Skips(b)[i][left] = [end |-> e, err |-> "none"]

(* An object that is moved is skipped where it is.                         *)
LEMMA SkipMoves ==
  ASSUME NEW b \in Seq(Byte), NEW c \in Seq(Byte), NEW i \in Nat, NEW j \in Nat,
         NEW left \in Nat, NEW e \in Nat, i <= Len(b),
         Skipped(b, i, left, e), Same(b, i, c, j, e - i)
  PROVE  Skipped(c, j, left, j + (e - i))
<1> DEFINE P(x, y, l) == \A f \in Nat :
             x <= Len(b) /\ Skips(b)[x][l] = [end |-> f, err |-> "none"]
               /\ Same(b, x, c, y, f - x) =>
             Skips(c)[y][l] = [end |-> y + (f - x), err |-> "none"]
           S == {n \in Nat : \A x \in Nat : \A y \in Nat : \A l \in Nat :
                   Len(b) <= x + n => P(x, y, l)}
<1>0. Len(b) \in Nat /\ Len(c) \in Nat
  BY LenProperties
<1>1. ASSUME NEW x \in Nat, NEW y \in Nat, NEW l \in Nat,
             LET g == getSize(Ahead(b, x)) IN
             g.err = "none" /\ x + g.v <= Len(b) =>
               \A k \in Nat : P(x + g.v, y + g.v, k)
      PROVE  P(x, y, l)
  <2>0. SUFFICES ASSUME NEW f \in Nat, x <= Len(b),
                        Skips(b)[x][l] = [end |-> f, err |-> "none"],
                        Same(b, x, c, y, f - x)
                 PROVE  Skips(c)[y][l] = [end |-> y + (f - x), err |-> "none"]
    OBVIOUS
  <2> DEFINE g == getSize(Ahead(b, x))
  <2>1. CASE l = 0
    <3>1. Skips(b)[x][l] = [end |-> x, err |-> "none"]
          /\ Skips(c)[y][l] = [end |-> y, err |-> "none"]
      BY <2>1, SkipCases, ZenonT(40)
    <3>2. f = x
      BY <2>0, <3>1
    <3>3. y + (f - x) = y
      BY <3>2
    <3> QED
      BY <3>1, <3>3
  <2>2. CASE l > 0
    <3>1. g.err = "none"
      <4>1. g.err # "none" => Skips(b)[x][l] = [end |-> x, err |-> g.err]
        BY <2>2, SkipCases, ZenonT(40)
      <4> HIDE DEF g
      <4> QED
        BY <2>0, <4>1
    <3>2. g.v \in Nat /\ g.v > 0 /\ g.o \in Nat
      BY <3>1, AheadIs, GetSize
    <3>3. x + g.v <= Len(b)
      <4>1. Len(b) < x + g.v => Skips(b)[x][l] = [end |-> x, err |-> "short"]
        BY <2>2, <3>1, SkipCases, ZenonT(40)
      <4> HIDE DEF g
      <4>2. ~(Len(b) < x + g.v)
        BY <2>0, <4>1
      <4> QED
        BY <1>0, <3>2, <4>2
    <3>4. Skips(b)[x][l] = Skips(b)[x + g.v][l - 1 + g.o]
      BY <2>2, <3>1, <3>3, SkipOn
    <3> DEFINE m == l - 1 + g.o
    <3>16. ASSUME NEW v \in Nat, NEW o \in Nat
           PROVE  l - 1 + o \in Nat /\ x + v \in Nat /\ y + v \in Nat
      BY <2>2
    <3>5. m \in Nat /\ x + g.v \in Nat /\ y + g.v \in Nat
      BY <3>2, <3>16
    <3>6. Skips(b)[x + g.v][m] = [end |-> f, err |-> "none"]
      BY <2>0, <3>4
    <3>7. x + g.v <= f /\ f <= Len(b)
      <4> HIDE DEF m, g
      <4>1. Skips(b)[x + g.v][m].err = "none" /\ Skips(b)[x + g.v][m].end = f
        BY <3>6
      <4> QED
        BY <3>3, <3>5, <4>1, SkipBounds
    <3>8. /\ f - x \in Nat /\ x + (f - x) <= Len(b) /\ y + (f - x) <= Len(c)
          /\ \A k \in 1..f - x : c[y + k] = b[x + k]
      <4> HIDE DEF g
      <4>1. f - x \in Nat
        BY <3>2, <3>7
      <4> QED
        BY <2>0, <4>1 DEF Same
    <3>9. getSize(Ahead(c, y)) = g
      <4>1. y <= Len(c)
        BY <1>0, <3>8
      <4>2. /\ Ahead(b, x) \in Seq(Byte) /\ Len(Ahead(b, x)) = Len(b) - x
            /\ \A k \in 1..Len(b) - x : Ahead(b, x)[k] = b[x + k]
            /\ Ahead(c, y) \in Seq(Byte) /\ Len(Ahead(c, y)) = Len(c) - y
            /\ \A k \in 1..Len(c) - y : Ahead(c, y)[k] = c[y + k]
        BY <2>0, <4>1, AheadAt
      <4> DEFINE v == g.v
      <4>3. v \in Nat /\ v <= f - x /\ v <= Len(b) - x /\ v <= Len(c) - y
        <5> HIDE DEF g
        <5> QED
          BY <1>0, <3>2, <3>3, <3>7, <3>8, SMTT(40)
      <4> HIDE DEF v
      <4>4. ASSUME NEW k \in 1..v PROVE Ahead(c, y)[k] = Ahead(b, x)[k]
        <5>1. k \in 1..f - x /\ k \in 1..Len(b) - x /\ k \in 1..Len(c) - y
          BY <1>0, <3>8, <4>3
        <5> QED
          BY <3>8, <4>2, <5>1
      <4>5. v <= Len(Ahead(b, x)) /\ v <= Len(Ahead(c, y))
        BY <4>2, <4>3
      <4> QED
        BY <3>1, <4>2, <4>4, <4>5, GetSizeSame DEF v
    <3>10. y + g.v <= Len(c)
      <4> HIDE DEF g
      <4> QED
        BY <1>0, <3>2, <3>7, <3>8, SMTT(40)
    <3>11. Skips(c)[y][l] = Skips(c)[y + g.v][m]
      <4>1. /\ getSize(Ahead(c, y)).err = "none" /\ y + getSize(Ahead(c, y)).v <= Len(c)
            /\ getSize(Ahead(c, y)).v = g.v /\ getSize(Ahead(c, y)).o = g.o
        BY <3>1, <3>9, <3>10
      <4>2. Skips(c)[y][l] =
              Skips(c)[y + getSize(Ahead(c, y)).v][l - 1 + getSize(Ahead(c, y)).o]
        BY <2>2, <4>1, SkipOn
      <4> QED
        BY <4>1, <4>2
    <3>12. P(x + g.v, y + g.v, m)
      BY <1>1, <3>1, <3>3, <3>5
    <3> HIDE DEF g, m
    <3>13. Same(b, x + g.v, c, y + g.v, f - (x + g.v))
      <4>1. /\ (x + g.v) + (f - (x + g.v)) <= Len(b)
            /\ (y + g.v) + (f - (x + g.v)) <= Len(c)
        BY <1>0, <3>2, <3>7, <3>8, SMTT(40)
      <4>2. ASSUME NEW k \in 1..f - (x + g.v) PROVE c[(y + g.v) + k] = b[(x + g.v) + k]
        <5>0. k \in Int /\ 1 <= k /\ k <= f - (x + g.v)
          BY <3>2
        <5> DEFINE v == g.v
        <5>3. v \in Nat /\ k \in Int /\ 1 <= k /\ k <= f - (x + v)
          BY <3>2, <5>0
        <5> HIDE DEF v
        <5>4. v + k \in 1..f - x /\ y + (v + k) = (y + v) + k /\ x + (v + k) = (x + v) + k
          BY <5>3
        <5>1. g.v + k \in 1..f - x /\ y + (g.v + k) = (y + g.v) + k
              /\ x + (g.v + k) = (x + g.v) + k
          BY <5>4 DEF v
        <5>2. c[y + (g.v + k)] = b[x + (g.v + k)]
          BY <3>8, <5>1
        <5> QED
          BY <5>1, <5>2
      <4> QED
        BY <4>1, <4>2 DEF Same
    <3>14. Skips(c)[y + g.v][m] = [end |-> (y + g.v) + (f - (x + g.v)), err |-> "none"]
      BY <3>3, <3>6, <3>12, <3>13
    <3>15. (y + g.v) + (f - (x + g.v)) = y + (f - x)
      BY <3>2
    <3> QED
      BY <3>11, <3>14, <3>15
  <2> QED
    BY <2>1, <2>2
<1> HIDE DEF P
<1>2. 0 \in S
  <2> SUFFICES ASSUME NEW x \in Nat, NEW y \in Nat, NEW l \in Nat, Len(b) <= x + 0
               PROVE  P(x, y, l)
    OBVIOUS
  <2>1. getSize(Ahead(b, x)).err # "none"
    <3>1. Len(b) <= x
      BY <1>0
    <3> QED
      BY <3>1, AheadIs DEF getSize, NoSize
  <2> QED
    BY <1>1, <2>1
<1>3. ASSUME NEW n \in Nat, n \in S PROVE n + 1 \in S
  <2> SUFFICES ASSUME NEW x \in Nat, NEW y \in Nat, NEW l \in Nat, Len(b) <= x + (n + 1)
               PROVE  P(x, y, l)
    OBVIOUS
  <2> DEFINE g == getSize(Ahead(b, x))
  <2>1. ASSUME g.err = "none", x + g.v <= Len(b)
        PROVE  \A k \in Nat : P(x + g.v, y + g.v, k)
    <3>1. g.v \in Nat /\ g.v > 0
      BY <2>1, AheadIs, GetSize
    <3> HIDE DEF g
    <3>0. ASSUME NEW v \in Nat, v > 0
          PROVE  x + v \in Nat /\ y + v \in Nat /\ Len(b) <= (x + v) + n
      BY <1>0, <3>0
    <3>2. x + g.v \in Nat /\ y + g.v \in Nat /\ Len(b) <= (x + g.v) + n
      BY <3>0, <3>1
    <3> QED
      BY <1>3, <3>2
  <2> QED
    BY <1>1, <2>1
<1>4. Len(b) \in S
  <2> HIDE DEF S
  <2>1. \A n \in Nat : n \in S => n + 1 \in S
    BY <1>3
  <2> QED
    BY <1>0, <1>2, <2>1, Induction
<1>5. P(i, j, left)
  <2>1. Len(b) <= i + Len(b)
    BY <1>0
  <2> QED
    BY <1>4, <2>1
<1> QED
  BY <1>5 DEF P, Skipped

(* Skipping objects one after the other.                                   *)
LEMMA SkipSplit ==
  ASSUME NEW b \in Seq(Byte), NEW i \in Nat, NEW m \in Nat, NEW k \in Nat, NEW e \in Nat,
         Skipped(b, i, m, e)
  PROVE  Skips(b)[i][m + k] = Skips(b)[e][k]
<1> DEFINE P(x, l) == Skips(b)[x][l] = [end |-> e, err |-> "none"] =>
             Skips(b)[x][l + k] = Skips(b)[e][k]
           S == {n \in Nat : \A x \in Nat : \A l \in Nat : Len(b) <= x + n => P(x, l)}
<1>0. Len(b) \in Nat
  BY LenProperties
<1>1. ASSUME NEW x \in Nat, NEW l \in Nat,
             LET g == getSize(Ahead(b, x)) IN
             g.err = "none" /\ x + g.v <= Len(b) => \A q \in Nat : P(x + g.v, q)
      PROVE  P(x, l)
  <2>0. SUFFICES ASSUME Skips(b)[x][l] = [end |-> e, err |-> "none"]
                 PROVE  Skips(b)[x][l + k] = Skips(b)[e][k]
    OBVIOUS
  <2> DEFINE g == getSize(Ahead(b, x))
  <2>1. CASE l = 0
    <3>1. Skips(b)[x][l] = [end |-> x, err |-> "none"]
      BY <2>1, SkipCases
    <3>2. e = x /\ l + k = k
      BY <2>0, <2>1, <3>1
    <3> QED
      BY <3>2
  <2>2. CASE l > 0
    <3>1. g.err = "none"
      <4>1. g.err # "none" => Skips(b)[x][l] = [end |-> x, err |-> g.err]
        BY <2>2, SkipCases
      <4> HIDE DEF g
      <4> QED
        BY <2>0, <4>1
    <3>2. g.v \in Nat /\ g.v > 0 /\ g.o \in Nat
      BY <3>1, AheadIs, GetSize
    <3>3. x + g.v <= Len(b)
      <4>1. Len(b) < x + g.v => Skips(b)[x][l] = [end |-> x, err |-> "short"]
        BY <2>2, <3>1, SkipCases
      <4> HIDE DEF g
      <4>2. ~(Len(b) < x + g.v)
        BY <2>0, <4>1
      <4> QED
        BY <1>0, <3>2, <4>2
    <3>4. Skips(b)[x][l] = Skips(b)[x + g.v][l - 1 + g.o]
      BY <2>2, <3>1, <3>3, SkipOn
    <3> DEFINE q == l - 1 + g.o
    <3>5. q \in Nat /\ l + k \in Nat /\ l + k > 0
      BY <2>2, <3>2
    <3>6. Skips(b)[x][l + k] = Skips(b)[x + g.v][l + k - 1 + g.o]
      <4> DEFINE lk == l + k
      <4> HIDE DEF lk
      <4>1. lk \in Nat /\ lk > 0
        BY <3>5 DEF lk
      <4>2. Skips(b)[x][lk] = Skips(b)[x + g.v][lk - 1 + g.o]
        BY <3>1, <3>3, <4>1, SkipOn
      <4> QED
        BY <4>2 DEF lk
    <3>7. P(x + g.v, q)
      BY <1>1, <3>1, <3>3, <3>5
    <3> HIDE DEF g
    <3>8. l + k - 1 + g.o = q + k
      <4>1. ASSUME NEW o \in Nat PROVE l + k - 1 + o = (l - 1 + o) + k
        OBVIOUS
      <4> QED
        BY <3>2, <4>1
    <3> HIDE DEF q
    <3> QED
      BY <2>0, <3>4, <3>6, <3>7, <3>8 DEF q
  <2> QED
    BY <2>1, <2>2
<1> HIDE DEF P
<1>2. 0 \in S
  <2> SUFFICES ASSUME NEW x \in Nat, NEW l \in Nat, Len(b) <= x + 0 PROVE P(x, l)
    OBVIOUS
  <2>1. getSize(Ahead(b, x)).err # "none"
    <3>1. Len(b) <= x
      BY <1>0
    <3> QED
      BY <3>1, AheadIs DEF getSize, NoSize
  <2> QED
    BY <1>1, <2>1
<1>3. ASSUME NEW n \in Nat, n \in S PROVE n + 1 \in S
  <2> SUFFICES ASSUME NEW x \in Nat, NEW l \in Nat, Len(b) <= x + (n + 1) PROVE P(x, l)
    OBVIOUS
  <2> DEFINE g == getSize(Ahead(b, x))
  <2>1. ASSUME g.err = "none", x + g.v <= Len(b) PROVE \A q \in Nat : P(x + g.v, q)
    <3>1. g.v \in Nat /\ g.v > 0
      BY <2>1, AheadIs, GetSize
    <3> HIDE DEF g
    <3>2. x + g.v \in Nat /\ Len(b) <= (x + g.v) + n
      BY <1>0, <3>1
    <3> QED
      BY <1>3, <3>2
  <2> QED
    BY <1>1, <2>1
<1>4. Len(b) \in S
  <2> HIDE DEF S
  <2>1. \A n \in Nat : n \in S => n + 1 \in S
    BY <1>3
  <2> QED
    BY <1>0, <1>2, <2>1, Induction
<1>5. P(i, m)
  <2>1. Len(b) <= i + Len(b)
    BY <1>0
  <2> QED
    BY <1>4, <2>1
<1> QED
  BY <1>5 DEF P, Skipped

LEMMA SkipNext ==
  ASSUME NEW b \in Seq(Byte), NEW i \in Nat, NEW k \in Nat, NEW e \in Nat,
         Skipped(b, i, 1, e)
  PROVE  Skips(b)[i][1 + k] = Skips(b)[e][k]
<1> DEFINE m == 1
<1>1. m \in Nat /\ Skipped(b, i, m, e)
  OBVIOUS
<1> HIDE DEF m
<1>2. Skips(b)[i][m + k] = Skips(b)[e][k]
  BY <1>1, SkipSplit
<1> QED
  BY <1>2 DEF m

(* An object is not empty, and lies inside the bytes.                      *)
LEMMA SkipAdvances ==
  ASSUME NEW b \in Seq(Byte), NEW i \in Nat, Skips(b)[i][1].err = "none"
  PROVE  LET e == Skips(b)[i][1].end IN
         e \in Nat /\ i < e /\ e <= Len(b) /\ Len(b) \in Nat
<1> DEFINE g == getSize(Ahead(b, i))
           r == Skips(b)[i][1]
<1>0. Len(b) \in Nat /\ 1 \in Nat /\ 1 > 0
  BY LenProperties
<1>1. g.err = "none"
  <2>1. g.err # "none" => r = [end |-> i, err |-> g.err]
    BY <1>0, SkipCases
  <2> HIDE DEF g
  <2> QED
    BY <2>1
<1>2. g.v \in Nat /\ g.v > 0 /\ g.o \in Nat
  BY <1>1, AheadIs, GetSize
<1>3. i + g.v <= Len(b)
  <2>1. Len(b) < i + g.v => r = [end |-> i, err |-> "short"]
    BY <1>0, <1>1, SkipCases
  <2>3. r.err = "none"
    OBVIOUS
  <2> HIDE DEF g, r
  <2>2. ~(Len(b) < i + g.v)
    BY <2>1, <2>3
  <2> QED
    BY <1>0, <1>2, <2>2
<1>4. r = Skips(b)[i + g.v][1 - 1 + g.o]
  BY <1>0, <1>1, <1>3, SkipOn
<1>5. 1 - 1 + g.o = g.o /\ i + g.v \in Nat
  BY <1>2
<1> HIDE DEF g
<1>6. r = Skips(b)[i + g.v][g.o]
  BY <1>4, <1>5
<1>7. /\ Skips(b)[i + g.v][g.o].end \in Nat
      /\ i + g.v <= Skips(b)[i + g.v][g.o].end /\ Skips(b)[i + g.v][g.o].end <= Len(b)
  BY <1>2, <1>3, <1>5, <1>6, SkipBounds
<1>8. r.end \in Nat /\ i + g.v <= r.end /\ r.end <= Len(b)
  BY <1>6, <1>7
<1> HIDE DEF r
<1>9. i < r.end
  BY <1>2, <1>8
<1> QED
  BY <1>0, <1>8, <1>9 DEF r

(* A prefix, a key and the header of a map, in sequences that begin alike. *)
LEMMA PrefixReads ==
  ASSUME NEW a \in Seq(Byte), NEW d \in Seq(Byte), NEW want \in {"str", "map"},
         NEW m \in Nat, m <= Len(a), m <= Len(d), \A k \in 1..m : d[k] = a[k],
         Prefix(a, want).err = "none", sizes[a[1]].size <= m
  PROVE  Prefix(d, want) = Prefix(a, want)
<1> DEFINE z == sizes[a[1]]
           h == IF a[1] \in 160..191 THEN 1 ELSE z.size
<1>1. /\ a[1] \in Byte /\ z.typ = want /\ z.size \in Nat /\ z.size > 0
      /\ Prefix(a, want) = Ok(SizedBy(z, a), h)
  BY PrefixIs
<1>2. Len(a) \in Nat /\ Len(d) \in Nat
  BY LenProperties
<1>3. 1 <= m /\ z.size <= m
  BY <1>1
<1>4. d[1] = a[1] /\ SizedBy(z, d) = SizedBy(z, a)
  BY <1>3, PrefixSame
<1>5. d # <<>>
  BY <1>2, <1>3
<1>6. Prefix(d, want) = PrefixBy(z, d, want)
  BY <1>4, <1>5 DEF Prefix
<1>7. h \in Nat /\ h <= m
  BY <1>1, <1>3
<1>8. ~(Len(d) < h)
  <2> HIDE DEF h
  <2> QED
    BY <1>2, <1>7
<1> HIDE DEF z
<1>9. PrefixBy(z, d, want) = Ok(SizedBy(z, d), h)
  BY <1>1, <1>4, <1>8 DEF PrefixBy
<1> QED
  BY <1>1, <1>4, <1>6, <1>9

LEMMA StringSame ==
  ASSUME NEW a \in Seq(Byte), NEW d \in Seq(Byte), ReadStringZC(a).err = "none",
         ReadStringZC(a).n <= Len(d), \A k \in 1..ReadStringZC(a).n : d[k] = a[k]
  PROVE  ReadStringZC(d) = ReadStringZC(a)
<1> DEFINE p == Prefix(a, "str")
           z == sizes[a[1]]
           h == IF a[1] \in 160..191 THEN 1 ELSE z.size
           m == ReadStringZC(a).n
<1>1. ReadStringZC(a) = Body(a, p) /\ Body(a, p).err = "none"
  BY DEF ReadStringZC, NoInvalid, Fail
<1>2. p.err = "none"
  BY <1>1 DEF Body
<1>3. /\ InRange(z, SizedBy(z, a)) /\ z.size \in Nat /\ z.size > 0
      /\ p = Ok(SizedBy(z, a), h) /\ Len(a) \in Nat /\ h <= Len(a)
  BY <1>2, PrefixIs
<1>4. p.v.v \in Nat /\ p.v.v >= z.size /\ p.n = h /\ h \in Nat /\ h <= z.size /\ h > 0
  <2>1. p.v = SizedBy(z, a) /\ p.n = h
    <3> HIDE DEF p, z, h
    <3> QED
      BY <1>3 DEF Ok
  <2>2. SizedBy(z, a).v \in Nat /\ SizedBy(z, a).v >= z.size
    BY <1>3 DEF InRange
  <2>3. h \in Nat /\ h <= z.size /\ h > 0
    <3> HIDE DEF z
    <3> QED
      BY <1>3
  <2> QED
    BY <2>1, <2>2, <2>3
<1>5. ~(Len(a) < p.v.v) /\ Body(a, p) = Ok(SubSeq(a, p.n + 1, p.v.v), p.v.v)
  BY <1>1, <1>2 DEF Body, Fail
<1>6. m = p.v.v /\ m \in Nat /\ m <= Len(a) /\ m <= Len(d) /\ Len(d) \in Nat
  <2>1. m = p.v.v
    BY <1>1, <1>5 DEF Ok
  <2>2. Len(d) \in Nat /\ m <= Len(d)
    BY LenProperties
  <2> HIDE DEF m, p
  <2> QED
    BY <1>3, <1>4, <1>5, <2>1, <2>2
<1>7. \A k \in 1..m : d[k] = a[k]
  OBVIOUS
<1> HIDE DEF m
<1>8. Prefix(d, "str") = p
  <2>1. z.size <= m
    <3> HIDE DEF p, z
    <3> QED
      BY <1>4, <1>6
  <2> QED
    BY <1>2, <1>6, <1>7, <2>1, PrefixReads
<1> HIDE DEF p, h
<1>9. ~(Len(d) < p.v.v)
  BY <1>4, <1>6
<1>10. Body(d, p) = Ok(SubSeq(d, p.n + 1, p.v.v), p.v.v)
  BY <1>2, <1>9 DEF Body
<1>11. SubSeq(d, p.n + 1, p.v.v) = SubSeq(a, p.n + 1, p.v.v)
  <2>1. p.n \in Nat /\ p.n <= m
    <3>1. h <= m
      <4> HIDE DEF z
      <4> QED
        BY <1>3, <1>4, <1>6
    <3> QED
      BY <1>4, <3>1
  <2> DEFINE q == p.n
  <2> HIDE DEF q
  <2>2. q \in Nat /\ q <= m /\ m - q \in Nat /\ q + (m - q) = m
    BY <1>6, <2>1 DEF q
  <2>3. ASSUME NEW i \in 1..m - q PROVE d[q + i] = a[q + i]
    <3>1. q + i \in 1..m
      BY <1>6, <2>2
    <3> QED
      BY <1>7, <3>1
  <2>5. Same(a, q, d, q, m - q)
    BY <1>6, <2>2, <2>3 DEF Same
  <2>6. SubSeq(d, q + 1, q + (m - q)) = SubSeq(a, q + 1, q + (m - q))
    BY <2>2, <2>5, PieceSame
  <2>4. SubSeq(d, p.n + 1, m) = SubSeq(a, p.n + 1, m)
    BY <2>2, <2>6 DEF q
  <2> QED
    BY <1>6, <2>4
<1>12. Body(d, p) = Body(a, p)
  BY <1>5, <1>10, <1>11
<1>13. ReadStringZC(d) = NoInvalid(Body(a, p))
  BY <1>8, <1>12 DEF ReadStringZC
<1> QED
  BY <1>1, <1>13 DEF NoInvalid

LEMMA KeyMoves ==
  ASSUME NEW b \in Seq(Byte), NEW c \in Seq(Byte), NEW i \in Nat, NEW j \in Nat,
         i <= Len(b), Key(b, i).err = "none", Same(b, i, c, j, Key(b, i).n)
  PROVE  Key(c, j) = Key(b, i)
<1> DEFINE a == Ahead(b, i)
           d == Ahead(c, j)
           n == Key(b, i).n
<1>1. Len(b) \in Nat /\ Len(c) \in Nat /\ a \in Seq(Byte)
  BY LenProperties, AheadIs
<1>2. n \in Nat /\ 1 <= n /\ n <= Len(a)
  BY <1>1, StringTakes DEF Key
<1>3. i + n <= Len(b) /\ j + n <= Len(c) /\ \A k \in 1..n : c[j + k] = b[i + k]
  BY DEF Same
<1>7. Key(b, i) = ReadStringZC(a) /\ Key(c, j) = ReadStringZC(d)
  BY DEF Key
<1>8. ReadStringZC(a).err = "none" /\ n = ReadStringZC(a).n
  BY <1>7
<1> HIDE DEF n
<1>4. j <= Len(c) /\ n <= Len(b) - i /\ n <= Len(c) - j
  BY <1>1, <1>2, <1>3
<1>5. /\ Len(a) = Len(b) - i /\ \A k \in 1..Len(b) - i : a[k] = b[i + k]
      /\ d \in Seq(Byte) /\ Len(d) = Len(c) - j /\ \A k \in 1..Len(c) - j : d[k] = c[j + k]
  BY <1>4, AheadAt
<1> HIDE DEF a, d
<1>6. ASSUME NEW k \in 1..n PROVE d[k] = a[k]
  <2>1. k \in 1..Len(b) - i /\ k \in 1..Len(c) - j
    BY <1>1, <1>2, <1>4
  <2> QED
    BY <1>3, <1>5, <2>1
<1>9. n <= Len(d)
  BY <1>4, <1>5
<1>10. ReadStringZC(d) = ReadStringZC(a)
  BY <1>1, <1>5, <1>6, <1>8, <1>9, StringSame
<1> QED
  BY <1>7, <1>10

(* The header of a map, in sequences that begin alike; and what Skip makes *)
(* of it.                                                                  *)
LEMMA HeaderSame ==
  ASSUME NEW a \in Seq(Byte), NEW d \in Seq(Byte), ReadMapHeaderBytes(a).err = "none",
         ReadMapHeaderBytes(a).n <= Len(d),
         \A k \in 1..ReadMapHeaderBytes(a).n : d[k] = a[k]
  PROVE  ReadMapHeaderBytes(d) = ReadMapHeaderBytes(a)
<1> DEFINE p == Prefix(a, "map")
           z == sizes[a[1]]
           h == ReadMapHeaderBytes(a)
<1>1. p.err = "none" /\ h = Ok(p.v.o \div 2, p.n)
  BY DEF ReadMapHeaderBytes, Count, Fail
<1>2. h.n \in Nat /\ h.n <= Len(a)
  BY MapHeader
<1>3. /\ z.typ = "map" /\ Entry(a[1], z)
      /\ p = Ok(SizedBy(z, a), IF a[1] \in 160..191 THEN 1 ELSE z.size)
  BY <1>1, PrefixIs
<1>4. ~(a[1] \in 160..191)
  <2>1. a[1] \in 160..191 => z.typ = "str"
    BY <1>3 DEF Entry
  <2> QED
    BY <1>3, <2>1
<1>5. p.n = z.size
  <2> HIDE DEF p, z
  <2> QED
    BY <1>3, <1>4 DEF Ok
<1>6. z.size <= h.n
  <2>1. h.n = p.n
    BY <1>1 DEF Ok
  <2>2. h.n = z.size
    BY <1>5, <2>1
  <2> HIDE DEF z, h
  <2> QED
    BY <1>2, <2>2
<1>7. Prefix(d, "map") = Prefix(a, "map")
  <2> DEFINE m == h.n
  <2>1. m \in Nat /\ m <= Len(a) /\ m <= Len(d) /\ \A k \in 1..m : d[k] = a[k]
    BY <1>2
  <2>2. sizes[a[1]].size <= m
    BY <1>6
  <2> HIDE DEF m
  <2> QED
    BY <1>1, <2>1, <2>2, PrefixReads
<1> QED
  BY <1>7 DEF ReadMapHeaderBytes

LEMMA MapSize ==
  ASSUME NEW b \in Seq(Byte), ReadMapHeaderBytes(b).err = "none"
  PROVE  /\ getSize(b).err = "none" /\ getSize(b).v = ReadMapHeaderBytes(b).n
         /\ getSize(b).o = 2 * ReadMapHeaderBytes(b).v
<1> DEFINE p == Prefix(b, "map")
           z == sizes[b[1]]
           g == SizedBy(z, b)
           h == ReadMapHeaderBytes(b)
<1>1. p.err = "none" /\ h = Ok(p.v.o \div 2, p.n)
  BY DEF ReadMapHeaderBytes, Count, Fail
<1>2. /\ b # <<>> /\ z.typ = "map" /\ Entry(b[1], z) /\ InRange(z, g) /\ z.size > 0
      /\ z.size \in Nat
      /\ p = Ok(g, IF b[1] \in 160..191 THEN 1 ELSE z.size) /\ Len(b) \in Nat
      /\ (IF b[1] \in 160..191 THEN 1 ELSE z.size) <= Len(b)
  BY <1>1, PrefixIs
<1>3. ~(b[1] \in 160..191)
  <2>1. b[1] \in 160..191 => z.typ = "str"
    BY <1>2 DEF Entry
  <2> QED
    BY <1>2, <2>1
<1> HIDE DEF z
<1>4. p = Ok(g, z.size) /\ z.size <= Len(b)
  <2> HIDE DEF p, g
  <2> QED
    BY <1>2, <1>3
<1>5. g.err = "none" /\ g.v = z.size /\ g.o \in Nat /\ g.o % 2 = 0
  <2> HIDE DEF g
  <2> QED
    BY <1>2 DEF InRange
<1>6. getSize(b) = g
  <2>1. getSize(b) = getSizeBy(z, b)
    BY <1>2 DEF getSize, z
  <2>2. z.size # 0 /\ ~(Len(b) < z.size)
    BY <1>2, <1>4
  <2> QED
    BY <2>1, <2>2 DEF getSizeBy
<1>7. h = Ok(g.o \div 2, z.size)
  <2> HIDE DEF p, g, h
  <2> QED
    BY <1>1, <1>4 DEF Ok
<1> HIDE DEF g
<1>8. g.o = 2 * (g.o \div 2)
  <2>1. ASSUME NEW x \in Nat, x % 2 = 0 PROVE x = 2 * (x \div 2)
    BY <2>1
  <2> QED
    BY <1>5, <2>1
<1>9. h.n = z.size /\ h.v = g.o \div 2
  <2> HIDE DEF h
  <2> QED
    BY <1>7 DEF Ok
<1> QED
  BY <1>5, <1>6, <1>8, <1>9

-----------------------------------------------------------------------------
(* Pairs.                                                                  *)
LEMMA PairReads ==
  ASSUME NEW b, NEW i, NEW p, NEW e
  PROVE  PairAt(b, i, p, e) <=>
           /\ Key(b, i).err = "none" /\ Key(b, i).v = p[1]
           /\ Skipped(b, i, 1, i + Key(b, i).n)
           /\ Skipped(b, i + Key(b, i).n, 1, e)
           /\ SubSeq(b, i + 1, i + Key(b, i).n) = AppendString(p[1])
           /\ SubSeq(b, i + Key(b, i).n + 1, e) = p[2]
BY DEF PairAt, Key, From, Ahead, Skip, Skipped

(* A pair lies inside the bytes, and neither its key nor its value is      *)
(* empty.                                                                  *)
LEMMA PairBounds ==
  ASSUME NEW b \in Seq(Byte), NEW i \in Nat, NEW p, NEW e, PairAt(b, i, p, e)
  PROVE  /\ Key(b, i).n \in Nat /\ 1 <= Key(b, i).n /\ i + Key(b, i).n < e
         /\ e \in Nat /\ e <= Len(b) /\ Len(b) \in Nat
         /\ IsPair(b, i) /\ Val(b, i).end = e
<1> DEFINE n == Key(b, i).n
<1>1. /\ Key(b, i).err = "none"
      /\ Skipped(b, i + n, 1, e)
  BY PairReads
<1>2. Val(b, i).err = "none" /\ Val(b, i).end = e
  BY <1>1 DEF Val, Skipped
<1>3. IsPair(b, i)
  BY <1>1, <1>2 DEF IsPair
<1>4. n \in Nat /\ 1 <= n
  BY <1>3, PairTakes
<1> HIDE DEF n
<1>5. i + n \in Nat
  BY <1>4
<1>6. LET f == Skips(b)[i + n][1].end IN
      f \in Nat /\ i + n < f /\ f <= Len(b) /\ Len(b) \in Nat
  <2> DEFINE x == i + n
  <2>1. Skips(b)[x][1].err = "none" /\ x \in Nat
    BY <1>1, <1>5 DEF Skipped
  <2> HIDE DEF x
  <2>2. LET f == Skips(b)[x][1].end IN
        f \in Nat /\ x < f /\ f <= Len(b) /\ Len(b) \in Nat
    BY <2>1, SkipAdvances
  <2> QED
    BY <2>2 DEF x
<1>7. e \in Nat /\ i + n < e /\ e <= Len(b) /\ Len(b) \in Nat
  BY <1>1, <1>6 DEF Skipped
<1> QED
  BY <1>2, <1>3, <1>4, <1>7 DEF n

LEMMA SamePart ==
  ASSUME NEW b, NEW c, NEW i \in Nat, NEW j \in Nat, NEW n \in Nat,
         Len(b) \in Nat, Len(c) \in Nat,
         Same(b, i, c, j, n), NEW x \in Nat, NEW m \in Nat, x + m <= n
  PROVE  Same(b, i + x, c, j + x, m)
<1>1. /\ i + n <= Len(b) /\ j + n <= Len(c) /\ \A k \in 1..n : c[j + k] = b[i + k]
  BY DEF Same
<1>2. (i + x) + m <= Len(b) /\ (j + x) + m <= Len(c)
  BY <1>1
<1>3. ASSUME NEW k \in 1..m PROVE c[(j + x) + k] = b[(i + x) + k]
  <2>1. x + k \in 1..n /\ (j + x) + k = j + (x + k) /\ (i + x) + k = i + (x + k)
    OBVIOUS
  <2>2. c[j + (x + k)] = b[i + (x + k)]
    BY <1>1, <2>1
  <2> QED
    BY <2>1, <2>2
<1> QED
  BY <1>2, <1>3 DEF Same

(* The key of a pair, wherever its bytes are.                              *)
LEMMA KeyStays ==
  ASSUME NEW b \in Seq(Byte), NEW c \in Seq(Byte), NEW i \in Nat, NEW j \in Nat,
         NEW p, NEW e, PairAt(b, i, p, e), Same(b, i, c, j, Key(b, i).n)
  PROVE  /\ Key(c, j) = Key(b, i)
         /\ Skipped(c, j, 1, j + Key(c, j).n)
         /\ SubSeq(c, j + 1, j + Key(c, j).n) = AppendString(p[1])
<1> DEFINE n == Key(b, i).n
<1>1. /\ Key(b, i).err = "none"
      /\ Skipped(b, i, 1, i + n)
      /\ SubSeq(b, i + 1, i + n) = AppendString(p[1])
  BY PairReads
<1>2. n \in Nat /\ 1 <= n /\ i + n < e /\ e \in Nat /\ e <= Len(b) /\ Len(b) \in Nat
  BY PairBounds
<1>3. Same(b, i, c, j, n)
  OBVIOUS
<1>7. i <= Len(b)
  <2> HIDE DEF n
  <2> QED
    BY <1>2
<1>4. Key(c, j) = Key(b, i)
  BY <1>1, <1>7, KeyMoves
<1> HIDE DEF n
<1>5. Skipped(c, j, 1, j + n)
  <2> DEFINE q == i + n
  <2> HIDE DEF q
  <2>1. q \in Nat /\ q - i = n /\ Same(b, i, c, j, q - i) /\ 1 \in Nat
    BY <1>2, <1>3 DEF q
  <2>2. Skipped(b, i, 1, q)
    BY <1>1 DEF q
  <2>3. Skipped(c, j, 1, j + (q - i))
    BY <1>7, <2>1, <2>2, SkipMoves
  <2> QED
    BY <2>1, <2>3
<1>6. SubSeq(c, j + 1, j + n) = SubSeq(b, i + 1, i + n)
  BY <1>2, <1>3, PieceSame
<1>8. Key(c, j).n = n
  BY <1>4 DEF n
<1>9. /\ Skipped(c, j, 1, j + Key(c, j).n)
      /\ SubSeq(c, j + 1, j + Key(c, j).n) = AppendString(p[1])
  BY <1>1, <1>5, <1>6, <1>8, Zenon
<1> QED
  BY <1>4, <1>9

(* An object in front of which a key is put, or that is moved.             *)
LEMMA ValueMoves ==
  ASSUME NEW b \in Seq(Byte), NEW c \in Seq(Byte), NEW i \in Nat, NEW j \in Nat,
         NEW n \in Nat, Skipped(b, i, 1, i + n),
         Same(b, i, c, j, n)
  PROVE  /\ Skipped(c, j, 1, j + n)
         /\ SubSeq(c, j + 1, j + n) = SubSeq(b, i + 1, i + n)
<1>1. i <= Len(b)
  <2>1. i + n <= Len(b) /\ Len(b) \in Nat
    BY LenProperties DEF Same
  <2> QED
    BY <2>1
<1> DEFINE q == i + n
<1> HIDE DEF q
<1>2. q \in Nat /\ q - i = n /\ Same(b, i, c, j, q - i) /\ 1 \in Nat
  BY DEF q
<1>3. Skipped(b, i, 1, q)
  BY DEF q
<1>4. Skipped(c, j, 1, j + (q - i))
  BY <1>1, <1>2, <1>3, SkipMoves
<1>5. SubSeq(c, j + 1, j + n) = SubSeq(b, i + 1, i + n)
  BY PieceSame
<1> QED
  BY <1>2, <1>4, <1>5

LEMMA PairMoves ==
  ASSUME NEW b \in Seq(Byte), NEW c \in Seq(Byte), NEW i \in Nat, NEW j \in Nat,
         NEW p, NEW e, PairAt(b, i, p, e), Same(b, i, c, j, e - i)
  PROVE  PairAt(c, j, p, j + (e - i))
<1> DEFINE n == Key(b, i).n
<1>1. /\ Key(b, i).err = "none" /\ Key(b, i).v = p[1]
      /\ Skipped(b, i + n, 1, e)
      /\ SubSeq(b, i + n + 1, e) = p[2]
  BY PairReads
<1>2. n \in Nat /\ 1 <= n /\ i + n < e /\ e \in Nat /\ e <= Len(b) /\ Len(b) \in Nat
  BY PairBounds
<1>3. Len(c) \in Nat
  BY LenProperties
<1> DEFINE m == e - (i + n)
<1>4. Same(b, i, c, j, n)
  <2> HIDE DEF n
  <2>1. e - i \in Nat /\ 0 \in Nat /\ 0 + n <= e - i /\ i + 0 = i /\ j + 0 = j
    BY <1>2
  <2>2. Same(b, i + 0, c, j + 0, n)
    BY <1>2, <1>3, <2>1, SamePart
  <2> QED
    BY <2>1, <2>2
<1>5. /\ Key(c, j) = Key(b, i)
      /\ Skipped(c, j, 1, j + Key(c, j).n)
      /\ SubSeq(c, j + 1, j + Key(c, j).n) = AppendString(p[1])
  BY <1>4, KeyStays
<1>10. Key(c, j).n = n
  BY <1>5
<1> HIDE DEF n
<1>6. m \in Nat /\ n + m = e - i /\ i + n \in Nat /\ j + n \in Nat /\ e - i \in Nat
      /\ (i + n) + m = e /\ (j + n) + m = j + (e - i) /\ n + m <= e - i
  BY <1>2
<1> HIDE DEF m
<1>7. Same(b, i + n, c, j + n, m)
  BY <1>2, <1>3, <1>6, SamePart
<1>8. /\ Skipped(c, j + n, 1, j + (e - i))
      /\ SubSeq(c, j + n + 1, j + (e - i)) = p[2]
  <2> DEFINE x == i + n
             y == j + n
  <2> HIDE DEF x, y
  <2>1. x \in Nat /\ y \in Nat /\ x + m = e /\ y + m = j + (e - i) /\ Same(b, x, c, y, m)
    BY <1>6, <1>7 DEF x, y
  <2>2. Skipped(b, x, 1, x + m) /\ SubSeq(b, x + 1, x + m) = p[2]
    BY <1>1, <2>1 DEF x
  <2>4. Skipped(b, x, 1, x + m) /\ m \in Nat
    BY <1>6, <2>2
  <2>3. /\ Skipped(c, y, 1, y + m)
        /\ SubSeq(c, y + 1, y + m) = SubSeq(b, x + 1, x + m)
    BY <2>1, <2>4, ValueMoves
  <2> QED
    BY <2>1, <2>2, <2>3 DEF y
<1>9. /\ Key(c, j).err = "none" /\ Key(c, j).v = p[1]
  BY <1>1, <1>5
<1>11. /\ Skipped(c, j + Key(c, j).n, 1, j + (e - i))
       /\ SubSeq(c, j + Key(c, j).n + 1, j + (e - i)) = p[2]
  BY <1>8, <1>10, Zenon
<1> QED
  BY <1>5, <1>9, <1>11, PairReads, Zenon

-----------------------------------------------------------------------------
(* b is the map of pairs, whose ends are marked by at.                     *)
Laid(b, pairs, at) ==
  /\ b \in Seq(Byte) /\ pairs \in Seq(Pair) /\ at \in [0..Len(pairs) -> Nat]
  /\ Marked(b, pairs, at)

LEMMA LaidOut ==
  ASSUME NEW b, NEW pairs, NEW at, Laid(b, pairs, at)
  PROVE  /\ b \in Seq(Byte) /\ Len(b) \in Nat /\ Len(pairs) \in Nat
         /\ ReadMapHeaderBytes(b) = Ok(Len(pairs), at[0])
         /\ at[0] \in Nat /\ 1 <= at[0] /\ at[0] <= Len(b) /\ at[Len(pairs)] = Len(b)
         /\ \A j \in 0..Len(pairs) : at[j] \in Nat
<1>1. b \in Seq(Byte) /\ Len(b) \in Nat /\ Len(pairs) \in Nat
  BY LenProperties DEF Laid
<1>2. ReadMapHeaderBytes(b) = Ok(Len(pairs), at[0]) /\ at[Len(pairs)] = Len(b)
  BY DEF Laid, Marked
<1>3. \A j \in 0..Len(pairs) : at[j] \in Nat
  BY DEF Laid
<1>4. ReadMapHeaderBytes(b).err = "none" /\ ReadMapHeaderBytes(b).n = at[0]
  BY <1>2 DEF Ok
<1>5. 1 <= at[0] /\ at[0] <= Len(b)
  BY <1>1, <1>4, MapHeader
<1>6. 0 \in 0..Len(pairs)
  BY <1>1
<1> QED
  BY <1>1, <1>2, <1>3, <1>5, <1>6

LEMMA LaidPair ==
  ASSUME NEW b, NEW pairs, NEW at, Laid(b, pairs, at), NEW j \in 1..Len(pairs)
  PROVE  /\ j \in Nat /\ j - 1 \in Nat /\ j - 1 \in 0..Len(pairs) /\ j \in 0..Len(pairs)
         /\ at[j - 1] \in Nat /\ at[j] \in Nat
         /\ PairAt(b, at[j - 1], pairs[j], at[j])
         /\ Key(b, at[j - 1]).n \in Nat /\ 1 <= Key(b, at[j - 1]).n
         /\ at[j - 1] + Key(b, at[j - 1]).n < at[j] /\ at[j] <= Len(b)
         /\ IsPair(b, at[j - 1]) /\ Val(b, at[j - 1]).end = at[j]
         /\ Key(b, at[j - 1]).v = pairs[j][1]
<1>1. /\ b \in Seq(Byte) /\ Len(b) \in Nat /\ Len(pairs) \in Nat
      /\ \A k \in 0..Len(pairs) : at[k] \in Nat
  BY LaidOut
<1>2. j \in Nat /\ j - 1 \in Nat /\ j - 1 \in 0..Len(pairs) /\ j \in 0..Len(pairs)
  BY <1>1
<1>3. PairAt(b, at[j - 1], pairs[j], at[j])
  BY DEF Laid, Marked
<1> DEFINE i == at[j - 1]
           e == at[j]
           p == pairs[j]
<1>4. i \in Nat /\ e \in Nat
  BY <1>1, <1>2
<1> HIDE DEF i, e, p
<1>5. PairAt(b, i, p, e)
  BY <1>3 DEF i, e, p
<1>6. /\ Key(b, i).n \in Nat /\ 1 <= Key(b, i).n /\ i + Key(b, i).n < e
      /\ e <= Len(b) /\ IsPair(b, i) /\ Val(b, i).end = e
  BY <1>1, <1>4, <1>5, PairBounds
<1>7. Key(b, i).v = p[1]
  BY <1>5, PairReads
<1> QED
  BY <1>2, <1>3, <1>4, <1>6, <1>7 DEF i, e, p

(* The marks rise.                                                         *)
LEMMA MarksRise ==
  ASSUME NEW b, NEW pairs, NEW at, Laid(b, pairs, at),
         NEW i \in 0..Len(pairs), NEW j \in 0..Len(pairs), i <= j
  PROVE  at[i] <= at[j]
<1> DEFINE n == Len(pairs)
           S == {k \in Nat : i + k <= n => at[i] <= at[i + k]}
<1>0. n \in Nat /\ i \in Nat /\ \A k \in 0..n : at[k] \in Nat
  BY LaidOut
<1> HIDE DEF n
<1>1. 0 \in S
  <2>1. i + 0 = i /\ at[i] \in Nat
    BY <1>0 DEF n
  <2> QED
    BY <2>1
<1>2. ASSUME NEW k \in Nat, k \in S PROVE k + 1 \in S
  <2> SUFFICES ASSUME i + (k + 1) <= n PROVE at[i] <= at[i + (k + 1)]
    OBVIOUS
  <2> DEFINE q == i + (k + 1)
  <2>1. q \in 1..n /\ q - 1 = i + k /\ i + k <= n /\ i + k \in 0..n /\ q \in 0..n /\ i \in 0..n
    BY <1>0
  <2>2. at[i] <= at[i + k]
    BY <1>2, <2>1
  <2> HIDE DEF q
  <2>3. /\ at[q - 1] \in Nat /\ at[q] \in Nat /\ Key(b, at[q - 1]).n \in Nat
        /\ at[q - 1] + Key(b, at[q - 1]).n < at[q]
    BY <2>1, LaidPair DEF n
  <2>4. at[q - 1] < at[q]
    BY <2>3
  <2>5. at[i] \in Nat /\ at[i] <= at[q - 1]
    BY <1>0, <2>1, <2>2
  <2>6. at[i] <= at[q]
    BY <2>3, <2>4, <2>5
  <2> QED
    BY <2>6 DEF q
<1>3. j - i \in S
  <2> HIDE DEF S
  <2>1. \A k \in Nat : k \in S => k + 1 \in S
    BY <1>2
  <2>2. j - i \in Nat
    BY <1>0 DEF n
  <2> QED
    BY <1>1, <2>1, <2>2, Induction
<1>4. i + (j - i) = j /\ j <= n
  BY <1>0 DEF n
<1> QED
  BY <1>3, <1>4

(* The map is one object, and nothing is behind it.                        *)
LEMMA LaidWhole ==
  ASSUME NEW b, NEW pairs, NEW at, Laid(b, pairs, at)
  PROVE  Skipped(b, 0, 1, Len(b))
<1> DEFINE n == Len(pairs)
           R == Skips(b)[0][1]
           S == {k \in Nat : k <= n => R = Skips(b)[at[k]][2 * (n - k)]}
<1>0. /\ b \in Seq(Byte) /\ Len(b) \in Nat /\ n \in Nat
      /\ ReadMapHeaderBytes(b) = Ok(n, at[0])
      /\ at[0] \in Nat /\ at[0] <= Len(b) /\ at[n] = Len(b)
  BY LaidOut
<1>1. 0 \in S
  <2> DEFINE g == getSize(b)
  <2>1. g.err = "none" /\ g.v = at[0] /\ g.o = 2 * n
    <3>1. ReadMapHeaderBytes(b).err = "none" /\ ReadMapHeaderBytes(b).v = n
          /\ ReadMapHeaderBytes(b).n = at[0]
      BY <1>0 DEF Ok
    <3> QED
      BY <1>0, <3>1, MapSize
  <2>2. Ahead(b, 0) = b
    <3>1. /\ Ahead(b, 0) \in Seq(Byte) /\ Len(Ahead(b, 0)) = Len(b) - 0
          /\ \A k \in 1..Len(b) - 0 : Ahead(b, 0)[k] = b[0 + k]
      BY <1>0, AheadAt
    <3>2. Len(b) - 0 = Len(b) /\ \A k \in 1..Len(b) : 0 + k = k
      BY <1>0
    <3> DEFINE a == Ahead(b, 0)
    <3> HIDE DEF a
    <3>3. a \in Seq(Byte) /\ Len(a) = Len(b) /\ \A k \in 1..Len(a) : a[k] = b[k]
      BY <3>1, <3>2 DEF a
    <3>4. a = b
      BY <1>0, <3>3, SeqEqual
    <3> QED
      BY <3>4 DEF a
  <2>3. 0 + at[0] = at[0] /\ 1 - 1 + 2 * n = 2 * n /\ n - 0 = n /\ 0 \in Nat /\ 1 \in Nat /\ 1 > 0
    BY <1>0
  <2> DEFINE z == 0
             l == 1
  <2>4. Skips(b)[z][l] = Skips(b)[z + g.v][l - 1 + g.o]
    <3>1. getSize(Ahead(b, z)) = g /\ z \in Nat /\ l \in Nat /\ l > 0
      BY <2>2
    <3>2. z + g.v <= Len(b)
      BY <1>0, <2>1, <2>3
    <3> HIDE DEF z, l, g
    <3> QED
      BY <1>0, <2>1, <3>1, <3>2, SkipOn
  <2>5. R = Skips(b)[at[0]][2 * n]
    BY <2>1, <2>3, <2>4
  <2> QED
    BY <2>3, <2>5
<1>2. ASSUME NEW k \in Nat, k \in S PROVE k + 1 \in S
  <2> SUFFICES ASSUME k + 1 <= n PROVE R = Skips(b)[at[k + 1]][2 * (n - (k + 1))]
    OBVIOUS
  <2> DEFINE q == k + 1
             i == at[k]
             e == at[q]
             c == i + Key(b, i).n
             m == 2 * (n - q)
  <2>1. q \in 1..n /\ q - 1 = k /\ k <= n /\ m \in Nat /\ 2 * (n - k) = 1 + (1 + m)
        /\ 1 + m \in Nat /\ 1 \in Nat
    BY <1>0
  <2>2. R = Skips(b)[i][1 + (1 + m)]
    BY <1>2, <2>1
  <2>3. /\ i \in Nat /\ e \in Nat /\ PairAt(b, i, pairs[q], e) /\ Key(b, i).n \in Nat
    BY <2>1, LaidPair
  <2>4. Skipped(b, i, 1, c) /\ Skipped(b, c, 1, e)
    BY <2>3, PairReads
  <2>5. c \in Nat
    BY <2>3
  <2> HIDE DEF R, m, c, i, e
  <2>6. Skips(b)[i][1 + (1 + m)] = Skips(b)[c][1 + m]
    <3> DEFINE m1 == 1 + m
    <3> HIDE DEF m1
    <3>1. m1 \in Nat
      BY <2>1 DEF m1
    <3>2. Skips(b)[i][1 + m1] = Skips(b)[c][m1]
      <4>1. b \in Seq(Byte) /\ i \in Nat /\ c \in Nat /\ Skipped(b, i, 1, c)
        BY <1>0, <2>3, <2>4, <2>5, Zenon
      <4> QED
        BY <3>1, <4>1, SkipNext, ZenonT(40)
    <3> QED
      BY <3>2 DEF m1
  <2>7. Skips(b)[c][1 + m] = Skips(b)[e][m]
    <3>1. m \in Nat
      BY <2>1
    <3>2. b \in Seq(Byte) /\ c \in Nat /\ e \in Nat /\ Skipped(b, c, 1, e)
      BY <1>0, <2>3, <2>4, <2>5, Zenon
    <3> QED
      BY <3>1, <3>2, SkipNext, ZenonT(40)
  <2> QED
    BY <2>2, <2>6, <2>7 DEF e, m
<1>3. n \in S
  <2> HIDE DEF S
  <2>1. \A k \in Nat : k \in S => k + 1 \in S
    BY <1>2
  <2> QED
    BY <1>0, <1>1, <2>1, Induction
<1>4. 2 * (n - n) = 0 /\ n <= n
  BY <1>0
<1>5. R = Skips(b)[Len(b)][0]
  BY <1>0, <1>3, <1>4
<1>6. Skips(b)[Len(b)][0] = [end |-> Len(b), err |-> "none"]
  <2> DEFINE z == 0
  <2>1. z \in Nat /\ z = 0
    OBVIOUS
  <2> HIDE DEF z
  <2>2. Skips(b)[Len(b)][z] = [end |-> Len(b), err |-> "none"]
    BY <1>0, <2>1, SkipCases
  <2> QED
    BY <2>2 DEF z
<1> QED
  BY <1>5, <1>6 DEF Skipped

-----------------------------------------------------------------------------
(* What locate finds in a map: the first pair with the key.                *)
FirstAt(pairs, key, f) ==
  f \in 1..Len(pairs) /\ pairs[f][1] = key /\ \A i \in 1..f - 1 : pairs[i][1] # key
FoundAt(b, at, f) ==
  [kstart |-> at[f - 1], start |-> at[f - 1] + Key(b, at[f - 1]).n, end |-> at[f]]

LEMMA LocateLaid ==
  ASSUME NEW b, NEW pairs, NEW at, Laid(b, pairs, at), NEW key
  PROVE  \/ /\ \A i \in 1..Len(pairs) : pairs[i][1] # key
            /\ locate(b, key) = NotFound
         \/ \E f \in 1..Len(pairs) :
              FirstAt(pairs, key, f) /\ locate(b, key) = FoundAt(b, at, f)
<1> DEFINE n == Len(pairs)
           l == locate(b, key)
           Found == \E f \in 1..n : FirstAt(pairs, key, f) /\ l = FoundAt(b, at, f)
           Ahd(k) == /\ \A i \in 1..k : pairs[i][1] # key
                     /\ l = Finds(b, key)[at[k]][n - k]
           S == {k \in Nat : k <= n => Found \/ Ahd(k)}
<1>0. /\ b \in Seq(Byte) /\ n \in Nat /\ ReadMapHeaderBytes(b) = Ok(n, at[0])
      /\ at[0] \in Nat /\ \A j \in 0..n : at[j] \in Nat
  BY LaidOut
<1>1. 0 \in S
  <2>1. ReadMapHeaderBytes(b).err = "none" /\ ReadMapHeaderBytes(b).v = n
        /\ ReadMapHeaderBytes(b).n = at[0]
    BY <1>0 DEF Ok
  <2>2. l = Finds(b, key)[at[0]][n]
    BY <2>1 DEF locate
  <2>3. n - 0 = n
    BY <1>0
  <2> HIDE DEF l
  <2> QED
    BY <2>2, <2>3
<1>2. ASSUME NEW k \in Nat, k \in S PROVE k + 1 \in S
  <2> SUFFICES ASSUME k + 1 <= n, ~Found PROVE Ahd(k + 1)
    OBVIOUS
  <2> DEFINE q == k + 1
             i == at[k]
  <2>1. q \in 1..n /\ q - 1 = k /\ k <= n /\ n - k \in Nat /\ n - k > 0 /\ n - k # 0
        /\ (n - k) - 1 = n - (k + 1)
    BY <1>0
  <2>2. Ahd(k)
    BY <1>2, <2>1
  <2>3. /\ at[k] \in Nat /\ at[q] \in Nat /\ IsPair(b, at[k]) /\ Val(b, at[k]).end = at[q]
        /\ Key(b, at[k]).v = pairs[q][1]
    <3>0. q \in 1..Len(pairs)
      BY <2>1
    <3> HIDE DEF q
    <3>1. /\ at[q - 1] \in Nat /\ at[q] \in Nat
          /\ IsPair(b, at[q - 1]) /\ Val(b, at[q - 1]).end = at[q]
          /\ Key(b, at[q - 1]).v = pairs[q][1]
      BY <3>0, LaidPair
    <3> QED
      BY <2>1, <3>1
  <2>4. l = FindOne(b, key, Finds(b, key), at[k], n - k)
    BY <1>0, <2>1, <2>2, <2>3, FindTurns
  <2> HIDE DEF l
  <2>5. pairs[q][1] # key
    <3> SUFFICES ASSUME pairs[q][1] = key PROVE FALSE
      OBVIOUS
    <3>1. l = [kstart |-> i, start |-> i + Key(b, i).n, end |-> at[q]]
      BY <2>1, <2>3, <2>4 DEF FindOne, IsPair
    <3>2. l = FoundAt(b, at, q)
      BY <2>1, <3>1 DEF FoundAt
    <3>3. FirstAt(pairs, key, q)
      BY <2>1, <2>2 DEF FirstAt
    <3> QED
      BY <2>1, <3>2, <3>3
  <2>6. l = Finds(b, key)[at[q]][n - k - 1]
    BY <2>1, <2>3, <2>4, <2>5 DEF FindOne, IsPair
  <2>7. \A j \in 1..k + 1 : j \in 1..k \/ j = k + 1
    OBVIOUS
  <2> QED
    BY <2>1, <2>2, <2>5, <2>6, <2>7
<1>3. n \in S
  <2> HIDE DEF S
  <2>1. \A k \in Nat : k \in S => k + 1 \in S
    BY <1>2
  <2> QED
    BY <1>0, <1>1, <2>1, Induction
<1>4. Found \/ Ahd(n)
  BY <1>0, <1>3
<1>5. ASSUME Ahd(n) PROVE l = NotFound
  <2>1. n - n = 0 /\ n \in 0..n
    BY <1>0
  <2> DEFINE z == n - n
  <2>2. z \in Nat /\ z = 0 /\ at[n] \in Nat
    BY <1>0, <2>1
  <2>3. l = Finds(b, key)[at[n]][z]
    BY <1>5
  <2> HIDE DEF z
  <2>4. Finds(b, key)[at[n]][z] = FindOne(b, key, Finds(b, key), at[n], z)
    BY <1>0, <2>2, FindTurns
  <2> HIDE DEF l
  <2> QED
    BY <2>2, <2>3, <2>4 DEF FindOne
<1> QED
  BY <1>4, <1>5

-----------------------------------------------------------------------------
(* One turn of the loop of HasKey, and of PairsOf.                         *)
HasOne(key, b, find, i, left) ==
  IF left = 0 \/ Key(b, i).err # "none" THEN FALSE
  ELSE IF Key(b, i).v = key THEN TRUE ELSE find[i + Key(b, i).n][left - 1]

LEMMA KeyTakes ==
  ASSUME NEW b \in Seq(Byte), NEW i \in Nat, Key(b, i).err = "none"
  PROVE  Key(b, i).n \in Nat /\ 1 <= Key(b, i).n /\ i < Len(b)
<1>1. Len(b) \in Nat /\ Ahead(b, i) \in Seq(Byte) /\ (Len(b) <= i => Ahead(b, i) = <<>>)
  BY LenProperties, AheadIs
<1>2. Key(b, i).n \in Nat /\ 1 <= Key(b, i).n /\ Key(b, i).n <= Len(Ahead(b, i))
  BY <1>1, StringTakes DEF Key
<1>3. ~(Len(b) <= i)
  BY <1>1, <1>2
<1> QED
  BY <1>1, <1>2, <1>3

LEMMA HasExists ==
  ASSUME NEW b \in Seq(Byte), NEW key
  PROVE  \E f : f = [i \in Nat |-> [left \in Nat |-> HasOne(key, b, f, i, left)]]
<1> DEFINE Row(f, i) == [left \in Nat |-> HasOne(key, b, f, i, left)]
           Upto(f, n) == \A i \in Nat : Len(b) <= i + n => f[i] = Row(f, i)
           S == {n \in Nat : \E f : f = [i \in Nat |-> f[i]] /\ Upto(f, n)}
<1>0. Len(b) \in Nat
  BY LenProperties
<1>1. ASSUME NEW f, NEW g, NEW n \in Nat, NEW i \in Nat, Len(b) <= i + n + 1,
             \A j \in Nat : Len(b) <= j + n => f[j] = g[j]
      PROVE  Row(f, i) = Row(g, i)
  <2>1. SUFFICES ASSUME NEW left \in Nat
                 PROVE  HasOne(key, b, f, i, left) = HasOne(key, b, g, i, left)
    BY Zenon
  <2>2. CASE Key(b, i).err = "none"
    <3> DEFINE e == i + Key(b, i).n
    <3>1. e \in Nat /\ i + 1 <= e
      BY <2>2, KeyTakes
    <3>2. Len(b) <= e + n
      <4> HIDE DEF e
      <4> QED
        BY <1>0, <1>1, <3>1
    <3>3. f[e] = g[e]
      BY <1>1, <3>1, <3>2
    <3> QED
      BY <2>2, <3>3 DEF HasOne
  <2>3. CASE Key(b, i).err # "none"
    BY <2>3 DEF HasOne
  <2> QED
    BY <2>2, <2>3
<1>2. 0 \in S
  <2> DEFINE z == [j \in Nat |-> 0]
             f == [i \in Nat |-> [left \in Nat |-> HasOne(key, b, z, i, left)]]
  <2>1. \A i \in Nat : f[i] = Row(z, i)
    BY Zenon
  <2>2. f = [i \in Nat |-> f[i]]
    BY Zenon
  <2> HIDE DEF f, z
  <2>3. \A i \in Nat : Len(b) <= i + 0 => Row(z, i) = Row(f, i)
    <3> SUFFICES ASSUME NEW i \in Nat, Len(b) <= i, NEW left \in Nat
                 PROVE  HasOne(key, b, z, i, left) = HasOne(key, b, f, i, left)
      BY <1>0
    <3>1. Key(b, i).err # "none"
      BY <1>0, KeyTakes
    <3> QED
      BY <3>1 DEF HasOne
  <2> QED
    BY <2>1, <2>2, <2>3, ZenonT(40)
<1>3. ASSUME NEW n \in Nat, n \in S PROVE n + 1 \in S
  <2>1. PICK f : f = [i \in Nat |-> f[i]] /\ Upto(f, n)
    BY <1>3
  <2> DEFINE g == [i \in Nat |-> [left \in Nat |-> HasOne(key, b, f, i, left)]]
  <2>2. \A i \in Nat : g[i] = Row(f, i)
    BY Zenon
  <2>3. g = [i \in Nat |-> g[i]]
    BY Zenon
  <2> HIDE DEF g
  <2>4. \A j \in Nat : Len(b) <= j + n => f[j] = g[j]
    BY <2>1, <2>2
  <2> HIDE DEF Row
  <2>5. \A i \in Nat : Len(b) <= i + n + 1 => Row(f, i) = Row(g, i)
    BY <1>1, <2>4
  <2>6. Upto(g, n + 1)
    BY <1>0, <2>2, <2>5
  <2> QED
    BY <2>3, <2>6
<1>4. Len(b) \in S
  <2> HIDE DEF S
  <2>1. \A n \in Nat : n \in S => n + 1 \in S
    BY <1>3
  <2> QED
    BY <1>0, <1>2, <2>1, Induction
<1>5. PICK f : f = [i \in Nat |-> f[i]] /\ Upto(f, Len(b))
  BY <1>4
<1>6. \A i \in Nat : f[i] = Row(f, i)
  BY <1>0, <1>5
<1>7. f = [i \in Nat |-> Row(f, i)]
  <2> HIDE DEF Row
  <2>1. [i \in Nat |-> f[i]] = [i \in Nat |-> Row(f, i)]
    BY <1>6
  <2> QED
    BY <1>5, <2>1
<1> QED
  BY <1>7

LEMMA HasTurns ==
  ASSUME NEW b \in Seq(Byte), NEW key, NEW i \in Nat, NEW left \in Nat
  PROVE  Has(key, b)[i][left] = HasOne(key, b, Has(key, b), i, left)
<1> DEFINE P(g) == g = [j \in Nat |-> [l \in Nat |-> HasOne(key, b, g, j, l)]]
<1>1. Has(key, b) = CHOOSE g : P(g)
  BY DEF Has, HasOne, Key, Ahead, From
<1>2. \E g : P(g)
  BY HasExists
<1> HIDE DEF P
<1>3. P(CHOOSE g : P(g))
  BY <1>2, Zenon
<1>4. P(Has(key, b))
  BY <1>1, <1>3, Zenon
<1>5. Has(key, b) = [j \in Nat |-> [l \in Nat |-> HasOne(key, b, Has(key, b), j, l)]]
  BY <1>4 DEF P
<1> DEFINE f == Has(key, b)
<1> HIDE DEF f
<1>6. f = [j \in Nat |-> [l \in Nat |-> HasOne(key, b, f, j, l)]]
  BY <1>5 DEF f
<1>7. f[i] = [l \in Nat |-> HasOne(key, b, f, i, l)]
  BY <1>6, Zenon
<1>8. f[i][left] = HasOne(key, b, f, i, left)
  BY <1>7, Zenon
<1> QED
  BY <1>8 DEF f

(* HasKey in a map whose first key it is, or that has at most one pair.    *)
LEMMA HasLaid ==
  ASSUME NEW b, NEW pairs, NEW at, Laid(b, pairs, at), NEW key
  PROVE  /\ Len(pairs) = 0 => ~HasKey(key, b)
         /\ Len(pairs) >= 1 /\ pairs[1][1] = key => HasKey(key, b)
         /\ Len(pairs) = 1 /\ pairs[1][1] # key => ~HasKey(key, b)
<1> DEFINE n == Len(pairs)
           i == at[0]
<1>0. /\ b \in Seq(Byte) /\ n \in Nat /\ ReadMapHeaderBytes(b) = Ok(n, i) /\ i \in Nat
  BY LaidOut
<1>1. ReadMapHeaderBytes(b).err = "none" /\ ReadMapHeaderBytes(b).v = n
      /\ ReadMapHeaderBytes(b).n = i
  BY <1>0 DEF Ok
<1>2. HasKey(key, b) = Has(key, b)[i][n]
  BY <1>1 DEF HasKey
<1>3. Has(key, b)[i][n] = HasOne(key, b, Has(key, b), i, n)
  BY <1>0, HasTurns
<1>4. CASE n = 0
  <2>1. HasOne(key, b, Has(key, b), i, n) = FALSE
    BY <1>4 DEF HasOne
  <2> QED
    BY <1>0, <1>2, <1>3, <1>4, <2>1
<1>5. CASE n >= 1
  <2> DEFINE q == 1
  <2>1. q \in 1..n /\ q - 1 = 0 /\ n # 0
    BY <1>0, <1>5
  <2> HIDE DEF q
  <2>2. IsPair(b, at[q - 1]) /\ Key(b, at[q - 1]).v = pairs[q][1]
    BY <2>1, LaidPair
  <2>3. IsPair(b, i) /\ Key(b, i).v = pairs[1][1]
    BY <2>1, <2>2 DEF q
  <2>4. Key(b, i).err = "none"
    BY <2>3 DEF IsPair
  <2>5. ASSUME pairs[1][1] = key PROVE HasKey(key, b)
    <3>1. HasOne(key, b, Has(key, b), i, n) = TRUE
      BY <2>1, <2>3, <2>4, <2>5 DEF HasOne
    <3> QED
      BY <1>2, <1>3, <3>1
  <2>6. ASSUME n = 1, pairs[1][1] # key PROVE ~HasKey(key, b)
    <3> DEFINE c == i + Key(b, i).n
               z == 0
    <3>1. n - 1 = z /\ z = 0 /\ z \in Nat
      BY <2>6
    <3>2. HasOne(key, b, Has(key, b), i, n) = Has(key, b)[c][n - 1]
      BY <2>1, <2>3, <2>4, <2>6 DEF HasOne
    <3>3. c \in Nat
      BY <1>0, <2>4, KeyTakes
    <3> HIDE DEF z, c
    <3>4. Has(key, b)[c][z] = HasOne(key, b, Has(key, b), c, z)
      BY <1>0, <3>1, <3>3, HasTurns
    <3>5. HasOne(key, b, Has(key, b), c, z) = FALSE
      BY <3>1 DEF HasOne
    <3>6. HasKey(key, b) = FALSE
      BY <1>2, <1>3, <3>1, <3>2, <3>4, <3>5
    <3> QED
      BY <3>6
  <2> QED
    BY <1>5, <2>1, <2>5, <2>6
<1> QED
  BY <1>0, <1>4, <1>5

-----------------------------------------------------------------------------
(* One turn of the loop of PairsOf: an object that is a key, one that is a *)
(* value.                                                                  *)
Snd(b, i) == Skips(b)[Skips(b)[i][1].end][1]
IsTwo(b, i) == Skips(b)[i][1].err = "none" /\ Snd(b, i).err = "none"
Two(b, i) == <<SubSeq(b, i + 1, Skips(b)[i][1].end),
               SubSeq(b, Skips(b)[i][1].end + 1, Snd(b, i).end)>>
PairsOne(b, pairs, i, left) ==
  IF left = 0 \/ Skips(b)[i][1].err # "none" \/ Snd(b, i).err # "none" THEN <<>>
  ELSE <<Two(b, i)>> \o pairs[Snd(b, i).end][left - 1]

LEMMA TwoTake ==
  ASSUME NEW b \in Seq(Byte), NEW i \in Nat, IsTwo(b, i)
  PROVE  Snd(b, i).end \in Nat /\ i + 1 <= Snd(b, i).end /\ i < Len(b)
<1> DEFINE k == Skips(b)[i][1].end
<1>1. k \in Nat /\ i < k /\ k <= Len(b) /\ Len(b) \in Nat
  BY SkipAdvances DEF IsTwo
<1>2. Skips(b)[k][1].err = "none"
  BY DEF IsTwo, Snd
<1> HIDE DEF k
<1>3. Skips(b)[k][1].end \in Nat /\ k < Skips(b)[k][1].end
  BY <1>1, <1>2, SkipAdvances
<1>4. Snd(b, i).end \in Nat /\ k < Snd(b, i).end
  BY <1>3 DEF Snd, k
<1> DEFINE e == Snd(b, i).end
<1> HIDE DEF e
<1>5. e \in Nat /\ k < e
  BY <1>4 DEF e
<1>6. i + 1 <= e /\ i < Len(b)
  BY <1>1, <1>5
<1> QED
  BY <1>5, <1>6 DEF e

LEMMA PairsExist ==
  ASSUME NEW b \in Seq(Byte)
  PROVE  \E f : f = [i \in Nat |-> [left \in Nat |-> PairsOne(b, f, i, left)]]
<1> DEFINE Row(f, i) == [left \in Nat |-> PairsOne(b, f, i, left)]
           Upto(f, n) == \A i \in Nat : Len(b) <= i + n => f[i] = Row(f, i)
           S == {n \in Nat : \E f : f = [i \in Nat |-> f[i]] /\ Upto(f, n)}
<1>0. Len(b) \in Nat
  BY LenProperties
<1>1. ASSUME NEW f, NEW g, NEW n \in Nat, NEW i \in Nat, Len(b) <= i + n + 1,
             \A j \in Nat : Len(b) <= j + n => f[j] = g[j]
      PROVE  Row(f, i) = Row(g, i)
  <2>1. SUFFICES ASSUME NEW left \in Nat
                 PROVE  PairsOne(b, f, i, left) = PairsOne(b, g, i, left)
    BY Zenon
  <2>2. CASE IsTwo(b, i)
    <3> DEFINE e == Snd(b, i).end
    <3>1. e \in Nat /\ i + 1 <= e
      BY <2>2, TwoTake
    <3>2. Len(b) <= e + n
      <4> HIDE DEF e
      <4> QED
        BY <1>0, <1>1, <3>1
    <3>3. f[e] = g[e]
      BY <1>1, <3>1, <3>2
    <3> QED
      BY <2>2, <3>3, Zenon DEF PairsOne
  <2>3. CASE ~IsTwo(b, i)
    BY <2>3 DEF PairsOne, IsTwo
  <2> QED
    BY <2>2, <2>3
<1>2. 0 \in S
  <2> DEFINE z == [j \in Nat |-> 0]
             f == [i \in Nat |-> [left \in Nat |-> PairsOne(b, z, i, left)]]
  <2>1. \A i \in Nat : f[i] = Row(z, i)
    BY Zenon
  <2>2. f = [i \in Nat |-> f[i]]
    BY Zenon
  <2> HIDE DEF f, z
  <2>3. \A i \in Nat : Len(b) <= i + 0 => Row(z, i) = Row(f, i)
    <3> SUFFICES ASSUME NEW i \in Nat, Len(b) <= i, NEW left \in Nat
                 PROVE  PairsOne(b, z, i, left) = PairsOne(b, f, i, left)
      BY <1>0
    <3>1. ~IsTwo(b, i)
      BY <1>0, TwoTake
    <3> QED
      BY <3>1 DEF PairsOne, IsTwo
  <2> QED
    BY <2>1, <2>2, <2>3, ZenonT(40)
<1>3. ASSUME NEW n \in Nat, n \in S PROVE n + 1 \in S
  <2>1. PICK f : f = [i \in Nat |-> f[i]] /\ Upto(f, n)
    BY <1>3
  <2> DEFINE g == [i \in Nat |-> [left \in Nat |-> PairsOne(b, f, i, left)]]
  <2>2. \A i \in Nat : g[i] = Row(f, i)
    BY Zenon
  <2>3. g = [i \in Nat |-> g[i]]
    BY Zenon
  <2> HIDE DEF g
  <2>4. \A j \in Nat : Len(b) <= j + n => f[j] = g[j]
    BY <2>1, <2>2
  <2> HIDE DEF Row
  <2>5. \A i \in Nat : Len(b) <= i + n + 1 => Row(f, i) = Row(g, i)
    BY <1>1, <2>4
  <2>6. Upto(g, n + 1)
    BY <1>0, <2>2, <2>5
  <2> QED
    BY <2>3, <2>6
<1>4. Len(b) \in S
  <2> HIDE DEF S
  <2>1. \A n \in Nat : n \in S => n + 1 \in S
    BY <1>3
  <2> QED
    BY <1>0, <1>2, <2>1, Induction
<1>5. PICK f : f = [i \in Nat |-> f[i]] /\ Upto(f, Len(b))
  BY <1>4
<1>6. \A i \in Nat : f[i] = Row(f, i)
  BY <1>0, <1>5
<1>7. f = [i \in Nat |-> Row(f, i)]
  <2> HIDE DEF Row
  <2>1. [i \in Nat |-> f[i]] = [i \in Nat |-> Row(f, i)]
    BY <1>6
  <2> QED
    BY <1>5, <2>1
<1> QED
  BY <1>7

LEMMA PairsTurn ==
  ASSUME NEW b \in Seq(Byte), NEW i \in Nat, NEW left \in Nat
  PROVE  Pairs(b)[i][left] = PairsOne(b, Pairs(b), i, left)
<1> DEFINE P(g) == g = [j \in Nat |-> [l \in Nat |-> PairsOne(b, g, j, l)]]
<1>1. Pairs(b) = CHOOSE g : P(g)
  BY DEF Pairs, PairsOne, Two, Snd, Skip
<1>2. \E g : P(g)
  BY PairsExist
<1> HIDE DEF P
<1>3. P(CHOOSE g : P(g))
  BY <1>2, Zenon
<1>4. P(Pairs(b))
  BY <1>1, <1>3, Zenon
<1>5. Pairs(b) = [j \in Nat |-> [l \in Nat |-> PairsOne(b, Pairs(b), j, l)]]
  BY <1>4 DEF P
<1> DEFINE f == Pairs(b)
<1> HIDE DEF f
<1>6. f = [j \in Nat |-> [l \in Nat |-> PairsOne(b, f, j, l)]]
  BY <1>5 DEF f
<1>7. f[i] = [l \in Nat |-> PairsOne(b, f, i, l)]
  BY <1>6, Zenon
<1>8. f[i][left] = PairsOne(b, f, i, left)
  BY <1>7, Zenon
<1> QED
  BY <1>8 DEF f

(* PairsOf reads the pairs of a map.                                       *)
LEMMA PairsLaid ==
  ASSUME NEW b, NEW pairs, NEW at, Laid(b, pairs, at)
  PROVE  PairsOf(b) = [i \in 1..Len(pairs) |-> <<AppendString(pairs[i][1]), pairs[i][2]>>]
<1> DEFINE n == Len(pairs)
           T(i) == <<AppendString(pairs[i][1]), pairs[i][2]>>
           F(k) == [i \in 1..k |-> T(i + (n - k))]
           S == {k \in Nat : k <= n => Pairs(b)[at[n - k]][k] = F(k)}
<1>0. /\ b \in Seq(Byte) /\ n \in Nat /\ ReadMapHeaderBytes(b) = Ok(n, at[0])
      /\ at[0] \in Nat /\ \A j \in 0..n : at[j] \in Nat
  BY LaidOut
<1>1. 0 \in S
  <2> DEFINE z == 0
  <2>1. z \in Nat /\ z = 0 /\ n - z = n /\ at[n] \in Nat
    BY <1>0
  <2> HIDE DEF z
  <2>2. Pairs(b)[at[n]][z] = PairsOne(b, Pairs(b), at[n], z)
    BY <1>0, <2>1, PairsTurn
  <2>3. PairsOne(b, Pairs(b), at[n], z) = <<>>
    BY <2>1 DEF PairsOne
  <2>4. F(z) = <<>>
    BY <2>1
  <2> HIDE DEF F
  <2>5. z \in S
    BY <2>1, <2>2, <2>3, <2>4
  <2> QED
    BY <2>5 DEF z
<1>2. ASSUME NEW k \in Nat, k \in S PROVE k + 1 \in S
  <2> SUFFICES ASSUME k + 1 <= n PROVE Pairs(b)[at[n - (k + 1)]][k + 1] = F(k + 1)
    OBVIOUS
  <2> DEFINE q == n - k
             left == k + 1
  <2>1. q \in 1..Len(pairs) /\ q - 1 = n - (k + 1) /\ left \in Nat /\ left # 0 /\ left - 1 = k /\ k <= n
    BY <1>0
  <2>2. Pairs(b)[at[q]][k] = F(k)
    BY <1>2, <2>1
  <2> DEFINE i == at[q - 1]
             e == at[q]
             p == pairs[q]
  <2>3. i \in Nat /\ e \in Nat /\ PairAt(b, i, p, e)
    <3> HIDE DEF q
    <3> QED
      BY <2>1, LaidPair
  <2>6. T(q) = <<AppendString(p[1]), p[2]>> /\ i = at[n - (k + 1)]
    BY <2>1
  <2> HIDE DEF i, e, p, q, F
  <2>4. /\ Skips(b)[i][1].err = "none" /\ Snd(b, i).err = "none" /\ Snd(b, i).end = e
        /\ Two(b, i) = <<AppendString(p[1]), p[2]>>
    <3> DEFINE c == i + Key(b, i).n
    <3>1. /\ Skipped(b, i, 1, c) /\ Skipped(b, c, 1, e)
          /\ SubSeq(b, i + 1, c) = AppendString(p[1]) /\ SubSeq(b, c + 1, e) = p[2]
      BY <2>3, PairReads
    <3> HIDE DEF c
    <3>2. Skips(b)[i][1].end = c /\ Skips(b)[i][1].err = "none"
      BY <3>1 DEF Skipped
    <3>3. Snd(b, i).end = e /\ Snd(b, i).err = "none"
      BY <3>1, <3>2 DEF Skipped, Snd
    <3> QED
      BY <3>1, <3>2, <3>3 DEF Two
  <2>5. Pairs(b)[i][left] = PairsOne(b, Pairs(b), i, left)
    BY <1>0, <2>1, <2>3, PairsTurn
  <2>7. PairsOne(b, Pairs(b), i, left) = <<Two(b, i)>> \o Pairs(b)[e][left - 1]
    BY <2>1, <2>4 DEF PairsOne
  <2>8. Pairs(b)[e][left - 1] = F(k)
    BY <2>1, <2>2 DEF e
  <2>9. <<T(q)>> \o F(k) = F(k + 1)
    <3> DEFINE X == {T(x) : x \in 1..n}
               s == <<T(q)>>
               t == F(k)
               u == F(k + 1)
    <3>1. \A x \in 1..n : T(x) \in X
      OBVIOUS
    <3> HIDE DEF X, T
    <3>2. s \in Seq(X) /\ Len(s) = 1 /\ s[1] = T(q)
      BY <2>1, <3>1
    <3>3. t \in Seq(X) /\ Len(t) = k /\ \A x \in 1..k : t[x] = T(x + (n - k))
      <4>1. \A x \in 1..k : x + (n - k) \in 1..n
        BY <1>0, <2>1
      <4>2. t = [x \in 1..k |-> T(x + (n - k))]
        BY DEF F
      <4> HIDE DEF t
      <4> QED
        BY <3>1, <4>1, <4>2
    <3>4. u \in Seq(X) /\ Len(u) = k + 1 /\ \A x \in 1..k + 1 : u[x] = T(x + (n - (k + 1)))
      <4>1. \A x \in 1..k + 1 : x + (n - (k + 1)) \in 1..n
        BY <1>0, <2>1
      <4>2. u = [x \in 1..k + 1 |-> T(x + (n - (k + 1)))]
        BY DEF F
      <4> HIDE DEF u
      <4> QED
        BY <3>1, <4>1, <4>2
    <3> HIDE DEF s, t, u
    <3>5. /\ s \o t \in Seq(X) /\ Len(s \o t) = 1 + k
          /\ \A x \in 1..1 + k : (s \o t)[x] = IF x <= 1 THEN s[x] ELSE t[x - 1]
      <4>1. s \in Seq(X) /\ t \in Seq(X)
        BY <3>2, <3>3
      <4>2. /\ s \o t \in Seq(X) /\ Len(s \o t) = Len(s) + Len(t)
            /\ \A x \in 1..Len(s) + Len(t) :
                 (s \o t)[x] = IF x <= Len(s) THEN s[x] ELSE t[x - Len(s)]
        BY <4>1, ConcatProperties
      <4>3. Len(s) = 1 /\ Len(t) = k
        BY <3>2, <3>3
      <4> QED
        BY <4>2, <4>3
    <3>6. ASSUME NEW x \in 1..1 + k PROVE (s \o t)[x] = u[x]
      <4>1. CASE x = 1
        <5>1. x + (n - (k + 1)) = q /\ x \in 1..k + 1
          BY <1>0, <4>1 DEF q
        <5> QED
          BY <3>2, <3>4, <3>5, <4>1, <5>1
      <4>2. CASE x # 1
        <5>1. /\ x - 1 \in 1..k /\ (x - 1) + (n - k) = x + (n - (k + 1))
              /\ x \in 1..k + 1 /\ ~(x <= 1)
          BY <1>0, <4>2
        <5> QED
          BY <3>3, <3>4, <3>5, <5>1
      <4> QED
        BY <4>1, <4>2
    <3>7. 1 + k = k + 1
      OBVIOUS
    <3>8. s \o t = u
      BY <3>4, <3>5, <3>6, <3>7, SeqEqual
    <3> QED
      BY <3>8 DEF s, t, u
  <2>10. Pairs(b)[i][left] = F(k + 1)
    BY <2>4, <2>5, <2>6, <2>7, <2>8, <2>9
  <2> QED
    BY <2>6, <2>10
<1>3. n \in S
  <2> HIDE DEF S
  <2>1. \A k \in Nat : k \in S => k + 1 \in S
    BY <1>2
  <2> QED
    BY <1>0, <1>1, <2>1, Induction
<1>4. Pairs(b)[at[0]][n] = F(n)
  <2>1. n - n = 0 /\ n <= n
    BY <1>0
  <2> QED
    BY <1>3, <2>1
<1>5. F(n) = [i \in 1..n |-> T(i)]
  <2>1. \A i \in 1..n : i + (n - n) = i
    BY <1>0
  <2> HIDE DEF T
  <2> QED
    BY <2>1
<1>6. PairsOf(b) = Pairs(b)[at[0]][n]
  <2>1. ReadMapHeaderBytes(b).v = n /\ ReadMapHeaderBytes(b).n = at[0]
    BY <1>0 DEF Ok
  <2> QED
    BY <2>1 DEF PairsOf
<1> QED
  BY <1>4, <1>5, <1>6

-----------------------------------------------------------------------------
(* Editing a map.  A pair in a piece that is kept stays a pair.            *)
LEMMA PairKept ==
  ASSUME NEW b, NEW pairs, NEW at, Laid(b, pairs, at), NEW d \in Seq(Byte),
         NEW j \in 1..Len(pairs), NEW x \in Nat, NEW y \in Nat, NEW m \in Nat,
         Same(b, x, d, y, m), x <= at[j - 1], at[j] <= x + m
  PROVE  PairAt(d, y + (at[j - 1] - x), pairs[j], y + (at[j] - x))
<1> DEFINE i == at[j - 1]
           e == at[j]
           p == pairs[j]
           k == Key(b, i).n
<1>1. b \in Seq(Byte) /\ Len(b) \in Nat /\ Len(d) \in Nat
  BY LaidOut, LenProperties
<1>2. i \in Nat /\ e \in Nat /\ PairAt(b, i, p, e) /\ k \in Nat /\ i + k < e
  BY LaidPair
<1>3. x <= i /\ e <= x + m
  OBVIOUS
<1> HIDE DEF i, e, p, k
<1> DEFINE o == i - x
           w == e - i
<1>4. o \in Nat /\ w \in Nat /\ o + w <= m /\ x + o = i /\ y + o \in Nat
      /\ (y + o) + w = y + (e - x)
  BY <1>2, <1>3
<1> HIDE DEF o, w
<1>5. Same(b, x + o, d, y + o, w)
  BY <1>1, <1>4, SamePart
<1>6. Same(b, i, d, y + o, e - i)
  BY <1>4, <1>5 DEF w
<1>7. PairAt(d, y + o, p, (y + o) + (e - i))
  BY <1>1, <1>2, <1>4, <1>6, PairMoves
<1>8. PairAt(d, y + (i - x), p, y + (e - x))
  BY <1>4, <1>7 DEF o, w
<1> QED
  BY <1>8 DEF i, e, p

(* d is b with the bytes from s to e replaced by v.                        *)
Spliced(d, b, s, e, v) ==
  /\ Len(d) = (s + Len(v)) + (Len(b) - e)
  /\ Same(b, 0, d, 0, s) /\ Same(v, 0, d, s, Len(v))
  /\ Same(b, e, d, s + Len(v), Len(b) - e)

Put1(pairs, f, v) ==
  [i \in 1..Len(pairs) |-> IF i = f THEN <<pairs[f][1], v>> ELSE pairs[i]]

LEMMA PutLaid ==
  ASSUME NEW b, NEW pairs, NEW at, Laid(b, pairs, at), NEW f \in 1..Len(pairs),
         NEW d \in Seq(Byte), NEW v \in Seq(Byte), Skipped(v, 0, 1, Len(v)),
         Spliced(d, b, at[f - 1] + Key(b, at[f - 1]).n, at[f], v)
  PROVE  \E to : Laid(d, Put1(pairs, f, v), to)
<1> DEFINE n == Len(pairs)
           i0 == at[f - 1]
           s == i0 + Key(b, i0).n
           e == at[f]
           D == s + Len(v)
           to == [j \in 0..n |-> IF j < f THEN at[j] ELSE D + (at[j] - e)]
           new == Put1(pairs, f, v)
<1>0. /\ b \in Seq(Byte) /\ Len(b) \in Nat /\ n \in Nat
      /\ ReadMapHeaderBytes(b) = Ok(n, at[0])
      /\ at[0] \in Nat /\ 1 <= at[0] /\ at[0] <= Len(b) /\ at[n] = Len(b)
      /\ \A j \in 0..n : at[j] \in Nat
  BY LaidOut
<1>1. /\ i0 \in Nat /\ e \in Nat /\ PairAt(b, i0, pairs[f], e)
      /\ Key(b, i0).n \in Nat /\ s < e /\ e <= Len(b)
  BY LaidPair
<1>2. /\ Len(d) = D + (Len(b) - e) /\ Same(b, 0, d, 0, s) /\ Same(v, 0, d, s, Len(v))
      /\ Same(b, e, d, D, Len(b) - e)
  BY DEF Spliced
<1>3. Len(v) \in Nat /\ Len(d) \in Nat
  BY LenProperties
<1>4. f \in Nat /\ f - 1 \in 0..n /\ f \in 0..n /\ 0 \in 0..n /\ n \in 0..n /\ f <= n /\ 1 <= f
  BY <1>0
<1>5. \A j \in 0..n : (j < f => at[j] <= i0) /\ (j >= f => e <= at[j])
  <2> SUFFICES ASSUME NEW j \in 0..n PROVE (j < f => at[j] <= i0) /\ (j >= f => e <= at[j])
    OBVIOUS
  <2>1. ASSUME j < f PROVE at[j] <= i0
    <3>1. j <= f - 1
      BY <1>4, <2>1
    <3> QED
      BY <1>4, <3>1, MarksRise
  <2>2. ASSUME j >= f PROVE e <= at[j]
    <3>1. f <= j
      BY <2>2
    <3> QED
      BY <1>4, <3>1, MarksRise
  <2> QED
    BY <2>1, <2>2
<1>6. s \in Nat /\ i0 <= s /\ D \in Nat /\ Len(b) - e \in Nat
  <2>1. ASSUME NEW x \in Nat, NEW k \in Nat, NEW q \in Nat, q <= Len(b)
        PROVE  /\ x + k \in Nat /\ x <= x + k /\ (x + k) + Len(v) \in Nat
               /\ Len(b) - q \in Nat
    BY <1>0, <1>3, <2>1
  <2> QED
    BY <1>1, <2>1
<1>7. /\ new = [i \in 1..n |-> IF i = f THEN <<pairs[f][1], v>> ELSE pairs[i]]
      /\ new \in Seq(Pair) /\ Len(new) = n
  <2>1. \A i \in 1..n : pairs[i] \in Pair
    BY ElementOfSeq DEF Laid
  <2>2. pairs[f][1] \in Seq(Byte)
    BY <2>1 DEF Pair
  <2>3. <<pairs[f][1], v>> \in Pair
    BY <2>2 DEF Pair
  <2>4. new = [i \in 1..n |-> IF i = f THEN <<pairs[f][1], v>> ELSE pairs[i]]
    BY DEF Put1
  <2> HIDE DEF Put1
  <2> QED
    BY <1>0, <2>1, <2>3, <2>4
<1> HIDE DEF new, s, e, D
<1>8. to \in [0..n -> Nat]
  <2>1. ASSUME NEW j \in 0..n, j >= f PROVE D + (at[j] - e) \in Nat
    <3>1. at[j] \in Nat /\ e <= at[j]
      BY <1>0, <1>5, <2>1
    <3>2. D \in Nat /\ e \in Nat
      BY <1>1, <1>6
    <3>3. ASSUME NEW x \in Nat, e <= x PROVE D + (x - e) \in Nat
      BY <3>2, <3>3
    <3> QED
      BY <3>1, <3>3
  <2>2. f \in Nat /\ \A j \in 0..n : j < f \/ j >= f
    BY <1>0, <1>4
  <2> QED
    BY <1>0, <2>1, <2>2
<1>9. ReadMapHeaderBytes(d) = Ok(n, at[0])
  <2>1. at[0] <= i0
    BY <1>4, <1>5
  <2>2. at[0] <= s
    BY <1>0, <1>1, <1>6, <2>1
  <2>3. 0 + s <= Len(d) /\ \A k \in 1..s : d[0 + k] = b[0 + k]
    BY <1>2 DEF Same
  <2>4. at[0] <= Len(d)
    BY <1>0, <1>3, <1>6, <2>2, <2>3
  <2>5. ASSUME NEW k \in 1..at[0] PROVE d[k] = b[k]
    <3>1. k \in 1..s /\ 0 + k = k
      BY <1>0, <1>6, <2>2
    <3> QED
      BY <2>3, <3>1
  <2>6. ReadMapHeaderBytes(b).err = "none" /\ ReadMapHeaderBytes(b).n = at[0]
    BY <1>0 DEF Ok
  <2>7. ReadMapHeaderBytes(d) = ReadMapHeaderBytes(b)
    BY <1>0, <2>4, <2>5, <2>6, HeaderSame
  <2> QED
    BY <1>0, <2>7
<1>10. to[0] = at[0] /\ to[n] = Len(d)
  <2>1. 0 < f /\ ~(n < f)
    BY <1>0, <1>4
  <2> QED
    BY <1>0, <1>2, <1>4, <2>1
<1>11. ASSUME NEW j \in 1..n PROVE PairAt(d, to[j - 1], new[j], to[j])
  <2>0. /\ j \in 1..Len(pairs) /\ j - 1 \in 0..n /\ j \in 0..n /\ j \in Nat
        /\ at[j - 1] \in Nat /\ at[j] \in Nat
    BY LaidPair
  <2>1. CASE j < f
    <3>1. to[j - 1] = at[j - 1] /\ to[j] = at[j] /\ new[j] = pairs[j] /\ at[j] <= i0
      <4>1. j - 1 < f /\ j # f
        BY <1>4, <2>0, <2>1
      <4> QED
        BY <1>5, <1>7, <2>0, <2>1, <4>1
    <3>2. 0 <= at[j - 1] /\ at[j] <= 0 + s /\ 0 \in Nat
      BY <1>1, <1>6, <2>0, <3>1
    <3>3. PairAt(d, 0 + (at[j - 1] - 0), pairs[j], 0 + (at[j] - 0))
      BY <1>2, <1>6, <2>0, <3>2, PairKept
    <3>4. 0 + (at[j - 1] - 0) = at[j - 1] /\ 0 + (at[j] - 0) = at[j]
      BY <2>0
    <3> QED
      BY <3>1, <3>3, <3>4
  <2>2. CASE j = f
    <3>1. to[j - 1] = i0 /\ to[j] = D + (e - e) /\ new[j] = <<pairs[f][1], v>>
      <4>1. j - 1 < f /\ ~(j < f)
        BY <1>4, <2>0, <2>2
      <4> QED
        BY <1>7, <2>0, <2>2, <4>1 DEF e
    <3>2. D + (e - e) = D
      BY <1>1, <1>6
    <3> DEFINE k == Key(b, i0).n
    <3> HIDE DEF i0
    <3>3. Same(b, i0, d, i0, k)
      <4> HIDE DEF k
      <4>1. 0 \in Nat /\ i0 \in Nat /\ k \in Nat /\ i0 + k <= s /\ 0 + i0 = i0
        BY <1>1, <1>6 DEF s, k
      <4>2. Same(b, 0 + i0, d, 0 + i0, k)
        BY <1>0, <1>2, <1>3, <1>6, <4>1, SamePart
      <4> QED
        BY <4>1, <4>2
    <3>4. /\ Key(d, i0) = Key(b, i0)
          /\ Skipped(d, i0, 1, i0 + Key(d, i0).n)
          /\ SubSeq(d, i0 + 1, i0 + Key(d, i0).n) = AppendString(pairs[f][1])
      <4> DEFINE p == pairs[f]
      <4>1. PairAt(b, i0, p, e) /\ Same(b, i0, d, i0, Key(b, i0).n)
        BY <1>1, <3>3
      <4> HIDE DEF p
      <4>2. /\ Key(d, i0) = Key(b, i0)
            /\ Skipped(d, i0, 1, i0 + Key(d, i0).n)
            /\ SubSeq(d, i0 + 1, i0 + Key(d, i0).n) = AppendString(p[1])
        BY <1>0, <1>1, <4>1, KeyStays
      <4> QED
        BY <4>2 DEF p
    <3>5. Key(b, i0).err = "none" /\ Key(b, i0).v = pairs[f][1]
      BY <1>1, PairReads
    <3>6. i0 + Key(d, i0).n = s
      BY <3>4 DEF s
    <3>7. Skipped(d, s, 1, D) /\ SubSeq(d, s + 1, D) = v
      <4>1. 0 + Len(v) = Len(v) /\ 0 + 1 = 1
        BY <1>3
      <4> DEFINE z == 0
      <4>2. Skipped(v, z, 1, z + Len(v)) /\ Same(v, z, d, s, Len(v)) /\ z \in Nat
        BY <1>2, <4>1
      <4> HIDE DEF z
      <4>5. /\ Skipped(d, s, 1, s + Len(v))
            /\ SubSeq(d, s + 1, s + Len(v)) = SubSeq(v, z + 1, z + Len(v))
        BY <1>3, <1>6, <4>2, ValueMoves
      <4>3. /\ Skipped(d, s, 1, s + Len(v))
            /\ SubSeq(d, s + 1, s + Len(v)) = SubSeq(v, 0 + 1, 0 + Len(v))
        BY <4>5 DEF z
      <4>4. SubSeq(v, 1, Len(v)) = v
        BY SubSeqFull
      <4> QED
        BY <4>1, <4>3, <4>4 DEF D
    <3> DEFINE p == <<pairs[f][1], v>>
    <3>8. p[1] = pairs[f][1] /\ p[2] = v
      OBVIOUS
    <3> HIDE DEF p
    <3>9. Key(d, i0).err = "none" /\ Key(d, i0).v = p[1]
      BY <3>4, <3>5, <3>8
    <3>10. /\ Skipped(d, i0 + Key(d, i0).n, 1, D)
           /\ SubSeq(d, i0 + Key(d, i0).n + 1, D) = p[2]
           /\ SubSeq(d, i0 + 1, i0 + Key(d, i0).n) = AppendString(p[1])
      BY <3>4, <3>6, <3>7, <3>8, Zenon
    <3>11. PairAt(d, i0, p, D)
      BY <3>4, <3>9, <3>10, PairReads, Zenon
    <3> QED
      BY <3>1, <3>2, <3>11 DEF p
  <2>3. CASE j > f
    <3>1. /\ to[j - 1] = D + (at[j - 1] - e) /\ to[j] = D + (at[j] - e)
          /\ new[j] = pairs[j] /\ e <= at[j - 1]
      <4>1. ~(j < f) /\ ~(j - 1 < f) /\ j # f /\ j - 1 >= f
        BY <1>4, <2>0, <2>3
      <4> QED
        BY <1>5, <1>7, <2>0, <4>1
    <3>2. at[j] <= e + (Len(b) - e)
      <4>1. at[j] <= Len(b)
        BY LaidPair
      <4> QED
        BY <1>0, <1>1, <2>0, <4>1
    <3>3. PairAt(d, D + (at[j - 1] - e), pairs[j], D + (at[j] - e))
      BY <1>1, <1>2, <1>6, <2>0, <3>1, <3>2, PairKept
    <3> QED
      BY <3>1, <3>3
  <2> QED
    BY <1>4, <2>0, <2>1, <2>2, <2>3
<1> HIDE DEF to
<1>12. Laid(d, new, to)
  BY <1>0, <1>7, <1>8, <1>9, <1>10, <1>11 DEF Laid, Marked
<1> QED
  BY <1>12 DEF new

(* d is b without the bytes from s to e, and with another header in front, *)
(* of h bytes.                                                             *)
Cut(d, b, h, s, e) ==
  /\ Len(d) = s + (Len(b) - e)
  /\ Same(b, h, d, h, s - h) /\ Same(b, e, d, s, Len(b) - e)

Remove1(pairs, f) ==
  [i \in 1..Len(pairs) - 1 |-> IF i >= f THEN pairs[i + 1] ELSE pairs[i]]

LEMMA CutLaid ==
  ASSUME NEW b, NEW pairs, NEW at, Laid(b, pairs, at), NEW f \in 1..Len(pairs),
         NEW d \in Seq(Byte), ReadMapHeaderBytes(d) = Ok(Len(pairs) - 1, at[0]),
         Cut(d, b, at[0], at[f - 1], at[f])
  PROVE  \E to : Laid(d, Remove1(pairs, f), to)
<1> DEFINE n == Len(pairs)
           h == at[0]
           s == at[f - 1]
           e == at[f]
           to == [j \in 0..n - 1 |-> IF j < f THEN at[j] ELSE s + (at[j + 1] - e)]
           new == Remove1(pairs, f)
<1>0. /\ b \in Seq(Byte) /\ Len(b) \in Nat /\ n \in Nat
      /\ h \in Nat /\ 1 <= h /\ h <= Len(b) /\ at[n] = Len(b)
      /\ \A j \in 0..n : at[j] \in Nat
  BY LaidOut
<1>1. s \in Nat /\ e \in Nat /\ s < e /\ e <= Len(b)
  <2>1. /\ s \in Nat /\ e \in Nat /\ Key(b, s).n \in Nat
        /\ s + Key(b, s).n < e /\ e <= Len(b)
    BY LaidPair
  <2> HIDE DEF s, e
  <2> QED
    BY <2>1
<1>2. Len(d) = s + (Len(b) - e) /\ Same(b, h, d, h, s - h) /\ Same(b, e, d, s, Len(b) - e)
  BY DEF Cut
<1>4. /\ f \in Nat /\ f - 1 \in 0..n /\ f \in 0..n /\ 0 \in 0..n /\ n \in 0..n /\ f <= n /\ 1 <= f
      /\ n - 1 \in Nat
  BY <1>0
<1>5. \A j \in 0..n : (j < f => at[j] <= s) /\ (j >= f => e <= at[j]) /\ h <= at[j]
  <2> SUFFICES ASSUME NEW j \in 0..n
               PROVE (j < f => at[j] <= s) /\ (j >= f => e <= at[j]) /\ h <= at[j]
    OBVIOUS
  <2>1. ASSUME j < f PROVE at[j] <= s
    <3>1. j <= f - 1
      BY <1>4, <2>1
    <3> QED
      BY <1>4, <3>1, MarksRise
  <2>2. ASSUME j >= f PROVE e <= at[j]
    <3>1. f <= j
      BY <2>2
    <3> QED
      BY <1>4, <3>1, MarksRise
  <2>3. h <= at[j]
    <3> DEFINE z == 0
    <3>1. z \in 0..n /\ z <= j
      BY <1>4
    <3> HIDE DEF z
    <3>2. at[z] <= at[j]
      BY <3>1, MarksRise
    <3> QED
      BY <3>2 DEF z
  <2> QED
    BY <2>1, <2>2, <2>3
<1>6. h <= s /\ s - h \in Nat /\ Len(b) - e \in Nat
  <2>1. h <= s
    BY <1>4, <1>5
  <2> HIDE DEF h, s, e
  <2> QED
    BY <1>0, <1>1, <2>1
<1>7. /\ new = [i \in 1..n - 1 |-> IF i >= f THEN pairs[i + 1] ELSE pairs[i]]
      /\ new \in Seq(Pair) /\ Len(new) = n - 1
  <2>1. \A i \in 1..n : pairs[i] \in Pair
    BY ElementOfSeq DEF Laid
  <2>2. \A i \in 1..n - 1 : i \in 1..n /\ i + 1 \in 1..n
    BY <1>0
  <2>4. new = [i \in 1..n - 1 |-> IF i >= f THEN pairs[i + 1] ELSE pairs[i]]
    BY DEF Remove1
  <2> HIDE DEF new
  <2> QED
    BY <1>4, <2>1, <2>2, <2>4
<1> HIDE DEF new, s, e, h
<1>8. to \in [0..n - 1 -> Nat]
  <2>1. ASSUME NEW j \in 0..n - 1, j >= f PROVE s + (at[j + 1] - e) \in Nat
    <3>1. j + 1 \in 0..n /\ j + 1 >= f
      BY <1>0, <1>4, <2>1
    <3>2. at[j + 1] \in Nat /\ e <= at[j + 1]
      BY <1>0, <1>5, <3>1
    <3> QED
      BY <1>1, <3>2
  <2>2. \A j \in 0..n - 1 : j \in 0..n /\ (j < f \/ j >= f)
    BY <1>0, <1>4
  <2> QED
    BY <1>0, <2>1, <2>2
<1>10. to[0] = h /\ to[n - 1] = Len(d)
  <2>1. 0 < f /\ 0 \in 0..n - 1 /\ n - 1 \in 0..n - 1 /\ (n - 1) + 1 = n
    BY <1>0, <1>4
  <2>2. to[0] = h
    BY <2>1 DEF h
  <2>3. CASE n - 1 < f
    <3>1. n = f
      BY <1>0, <1>4, <2>3
    <3>2. to[n - 1] = s /\ e = Len(b)
      BY <1>0, <2>1, <2>3, <3>1 DEF s, e
    <3>3. s + (Len(b) - e) = s
      BY <1>0, <1>1, <3>2
    <3> QED
      BY <1>2, <2>2, <3>2, <3>3
  <2>4. CASE ~(n - 1 < f)
    <3>1. to[n - 1] = s + (at[n] - e)
      BY <2>1, <2>4
    <3> QED
      BY <1>0, <1>2, <2>2, <3>1
  <2> QED
    BY <2>3, <2>4
<1>11. ASSUME NEW j \in 1..n - 1 PROVE PairAt(d, to[j - 1], new[j], to[j])
  <2>0. /\ j \in 1..Len(pairs) /\ j - 1 \in 0..n - 1 /\ j \in 0..n - 1 /\ j \in Nat
        /\ j + 1 \in 1..Len(pairs) /\ j + 1 \in 0..n /\ j \in 0..n /\ j - 1 \in 0..n
        /\ (j + 1) - 1 = j
    BY <1>0
  <2>5. at[j - 1] \in Nat /\ at[j] \in Nat /\ at[j + 1] \in Nat
    BY <1>0, <2>0
  <2>1. CASE j < f
    <3>1. to[j - 1] = at[j - 1] /\ to[j] = at[j] /\ new[j] = pairs[j] /\ at[j] <= s
          /\ h <= at[j - 1]
      <4>1. j - 1 < f /\ ~(j >= f)
        BY <1>4, <2>0, <2>1
      <4> QED
        BY <1>5, <1>7, <2>0, <2>1, <4>1
    <3>2. at[j] <= h + (s - h)
      BY <1>0, <1>1, <1>6, <2>5, <3>1, SMTT(40)
    <3>3. PairAt(d, h + (at[j - 1] - h), pairs[j], h + (at[j] - h))
      BY <1>0, <1>2, <1>6, <2>0, <3>1, <3>2, PairKept
    <3>4. h + (at[j - 1] - h) = at[j - 1] /\ h + (at[j] - h) = at[j]
      BY <1>0, <2>5, SMTT(40)
    <3> QED
      BY <3>1, <3>3, <3>4
  <2>3. CASE j >= f
    <3>1. /\ to[j] = s + (at[j + 1] - e) /\ new[j] = pairs[j + 1] /\ e <= at[j]
      <4>1. ~(j < f)
        BY <1>4, <2>0, <2>3
      <4> QED
        BY <1>5, <1>7, <2>0, <2>3, <4>1
    <3>4. to[j - 1] = s + (at[j] - e)
      <4>1. CASE j = f
        <5>1. to[j - 1] = s /\ at[j] = e
          BY <1>4, <2>0, <4>1 DEF s, e
        <5> QED
          BY <1>1, <5>1
      <4>2. CASE j # f
        <5>1. ~(j - 1 < f) /\ (j - 1) + 1 = j
          BY <1>4, <2>0, <2>3, <4>2
        <5> QED
          BY <2>0, <5>1
      <4> QED
        BY <4>1, <4>2
    <3>2. at[j + 1] <= e + (Len(b) - e)
      <4>1. at[j + 1] <= Len(b)
        <5> DEFINE q == j + 1
        <5>1. q \in 1..Len(pairs)
          BY <2>0
        <5> HIDE DEF q
        <5>2. at[q] <= Len(b)
          BY <5>1, LaidPair
        <5> QED
          BY <5>2 DEF q
      <4> QED
        BY <1>0, <1>1, <2>5, <4>1
    <3>3. PairAt(d, s + (at[j] - e), pairs[j + 1], s + (at[j + 1] - e))
      <4> DEFINE q == j + 1
      <4>1. q \in 1..Len(pairs) /\ q - 1 = j /\ e <= at[q - 1] /\ at[q] <= e + (Len(b) - e)
        BY <2>0, <3>1, <3>2
      <4> HIDE DEF q
      <4>2. PairAt(d, s + (at[q - 1] - e), pairs[q], s + (at[q] - e))
        BY <1>1, <1>2, <1>6, <4>1, PairKept
      <4>3. PairAt(d, s + (at[j] - e), pairs[q], s + (at[q] - e))
        BY <4>1, <4>2
      <4> QED
        BY <4>3 DEF q
    <3> QED
      BY <3>1, <3>3, <3>4
  <2> QED
    BY <1>4, <2>0, <2>1, <2>3
<1>9. ReadMapHeaderBytes(d) = Ok(n - 1, h)
  BY DEF h
<1> HIDE DEF to
<1>12. Laid(d, new, to)
  BY <1>7, <1>8, <1>9, <1>10, <1>11 DEF Laid, Marked
<1> QED
  BY <1>12 DEF new

-----------------------------------------------------------------------------
(* What replace leaves: the slice up to the value, the value, the rest.    *)
Splices(m, n, w) ==
  /\ m \in Seq(Byte) /\ n \in Nat /\ n <= Len(m)
  /\ n = (w.start + Len(Given(w))) + (len - w.end)
  /\ \A k \in 1..w.start : m[k] = mem[k]
  /\ \A k \in 1..Len(Given(w)) : m[w.start + k] = Given(w)[k]
  /\ \A k \in 1..len - w.end : m[(w.start + Len(Given(w))) + k] = mem[w.end + k]

LEMMA SplicesRaw ==
  ASSUME Fits, NEW w, Argument(w), NEW m, NEW n, Splices(m, n, w)
  PROVE  /\ SubSeq(m, 1, n) \in Seq(Byte) /\ Given(w) \in Seq(Byte)
         /\ Spliced(SubSeq(m, 1, n), raw, w.start, w.end, Given(w))
<1> DEFINE v == Given(w)
           s == w.start
           e == w.end
           d == SubSeq(m, 1, n)
           D == s + Len(v)
<1>0. /\ mem \in Seq(Byte) /\ len \in Nat /\ s \in Nat /\ e \in Nat /\ s <= e /\ e <= len
      /\ raw \in Seq(Byte) /\ Len(raw) = len /\ \A i \in 1..len : raw[i] = mem[i]
  BY RawIs DEF Fits, Argument
<1>1. v \in Seq(Byte) /\ Len(v) \in Nat
  BY GivenIs DEF Given, Fits
<1>2. /\ m \in Seq(Byte) /\ n \in Nat /\ n <= Len(m) /\ n = D + (len - e)
      /\ \A k \in 1..s : m[k] = mem[k]
      /\ \A k \in 1..Len(v) : m[s + k] = v[k]
      /\ \A k \in 1..len - e : m[D + k] = mem[e + k]
  BY DEF Splices
<1>3. d \in Seq(Byte) /\ Len(d) = n /\ \A k \in 1..n : d[k] = m[k]
  <2>1. d = SubSeq(m, 0 + 1, n) /\ n - 0 = n /\ 0 \in Nat /\ 0 <= n
        /\ \A k \in 1..n : 0 + k = k
    BY <1>2
  <2>2. /\ SubSeq(m, 0 + 1, n) \in Seq(Byte) /\ Len(SubSeq(m, 0 + 1, n)) = n - 0
        /\ \A k \in 1..n - 0 : SubSeq(m, 0 + 1, n)[k] = m[0 + k]
    BY <1>2, <2>1, Piece
  <2> HIDE DEF d
  <2> QED
    BY <2>1, <2>2
<1> HIDE DEF v, s, e, d
<1>4. D \in Nat /\ len - e \in Nat /\ s <= n /\ D <= n /\ D + (len - e) = n
  BY <1>0, <1>1, <1>2
<1>5. Same(raw, 0, d, 0, s)
  <2>1. ASSUME NEW k \in 1..s PROVE d[0 + k] = raw[0 + k]
    <3>1. 0 + k = k /\ k \in 1..n /\ k \in 1..len
      BY <1>0, <1>2, <1>4
    <3> QED
      BY <1>0, <1>2, <1>3, <3>1
  <2>2. 0 + s <= Len(raw) /\ 0 + s <= Len(d)
    BY <1>0, <1>3, <1>4
  <2> QED
    BY <2>1, <2>2 DEF Same
<1>6. Same(v, 0, d, s, Len(v))
  <2>1. ASSUME NEW k \in 1..Len(v) PROVE d[s + k] = v[0 + k]
    <3>1. 0 + k = k /\ s + k \in 1..n
      BY <1>0, <1>1, <1>2, <1>4
    <3> QED
      BY <1>2, <1>3, <3>1
  <2>2. 0 + Len(v) <= Len(v) /\ s + Len(v) <= Len(d)
    BY <1>1, <1>3, <1>4
  <2> QED
    BY <2>1, <2>2 DEF Same
<1> HIDE DEF D
<1>7. Same(raw, e, d, D, len - e)
  <2>1. ASSUME NEW k \in 1..len - e PROVE d[D + k] = raw[e + k]
    <3>1. e + k \in 1..len /\ D + k \in 1..n
      BY <1>0, <1>2, <1>4
    <3> QED
      BY <1>0, <1>2, <1>3, <3>1
  <2>2. e + (len - e) <= Len(raw) /\ D + (len - e) <= Len(d)
    BY <1>0, <1>2, <1>3, <1>4
  <2> QED
    BY <2>1, <2>2 DEF Same
<1>8. Spliced(d, raw, s, e, v)
  BY <1>0, <1>2, <1>3, <1>5, <1>6, <1>7 DEF Spliced, D
<1> QED
  BY <1>1, <1>3, <1>8 DEF v, s, e, d

LEMMA ShrinkSplices ==
  ASSUME Fits, NEW w, Argument(w), NEW extra \in Int,
         extra = Len(Given(w)) - (w.end - w.start), extra < 0
  PROVE  Splices(shrink(w, extra).mem, shrink(w, extra).len, w)
<1> DEFINE v == Given(w)
           s == w.start
           e == w.end
           put == CopyTo(mem, s, v)
           tail == SubSeq(put, e + 1, len)
           t == e + extra
           new == CopyTo(put, t, tail)
<1>0. /\ mem \in Seq(Byte) /\ len \in Nat /\ Len(mem) \in Nat /\ len <= Len(mem)
      /\ s \in Nat /\ e \in Nat /\ s <= e /\ e <= len
  BY LenProperties DEF Fits, Argument
<1>1. v \in Seq(Byte) /\ Len(v) \in Nat
  BY <1>0, GivenIs DEF Given
<1>2. shrink(w, extra) = [mem |-> new, len |-> len + extra]
  BY DEF shrink, Slice, Given
<1>9. extra = Len(v) - (e - s)
  OBVIOUS
<1> HIDE DEF v, s, e
<1>3. /\ t \in Nat /\ t < e /\ len + extra \in Nat /\ len + extra <= Len(mem)
      /\ t = s + Len(v) /\ len + extra = (s + Len(v)) + (len - e)
  BY <1>0, <1>1, <1>9, SMTT(40)
<1> HIDE DEF t
<1>4. /\ put \in Seq(Byte) /\ Len(put) = Len(mem)
      /\ \A i \in 1..Len(mem) : put[i] =
           IF i > s /\ i - s <= Len(v) THEN v[i - s] ELSE mem[i]
  BY <1>0, <1>1, CopyToIs
<1> HIDE DEF put
<1>5. tail \in Seq(Byte) /\ Len(tail) = len - e /\ \A i \in 1..len - e : tail[i] = put[e + i]
  BY <1>0, <1>4, Piece
<1> HIDE DEF tail
<1>6. /\ new \in Seq(Byte) /\ Len(new) = Len(mem)
      /\ \A i \in 1..Len(mem) : new[i] =
           IF i > t /\ i - t <= Len(tail) THEN tail[i - t] ELSE put[i]
  BY <1>3, <1>4, <1>5, CopyToIs, SMTT(40)
<1> HIDE DEF new
<1>7. ASSUME NEW k \in 1..s PROVE new[k] = mem[k]
  <2>1. k \in 1..Len(mem) /\ ~(k > t) /\ ~(k > s)
    BY <1>0, <1>1, <1>3
  <2> QED
    BY <1>4, <1>6, <2>1
<1>8. ASSUME NEW k \in 1..Len(v) PROVE new[s + k] = v[k]
  <2>1. /\ s + k \in 1..Len(mem) /\ ~(s + k > t) /\ s + k > s /\ (s + k) - s = k
        /\ k <= Len(v)
    BY <1>0, <1>1, <1>3
  <2> QED
    BY <1>4, <1>6, <2>1
<1>10. ASSUME NEW k \in 1..len - e PROVE new[t + k] = mem[e + k]
  <2>1. /\ t + k \in 1..Len(mem) /\ t + k > t /\ (t + k) - t = k /\ k <= Len(tail)
        /\ e + k \in 1..Len(mem) /\ ~((e + k) - s <= Len(v))
    BY <1>0, <1>1, <1>3, <1>5
  <2>2. new[t + k] = tail[k]
    BY <1>6, <2>1
  <2> QED
    BY <1>4, <1>5, <2>1, <2>2
<1>11. Splices(new, len + extra, w)
  BY <1>3, <1>6, <1>7, <1>8, <1>10 DEF Splices, v, s, e
<1> QED
  BY <1>2, <1>11

(* In place, the tail has moved when the value is copied: a value of the   *)
(* slice itself must lie in front of it.                                   *)
LEMMA GrowSplices ==
  ASSUME Fits, NEW w, Argument(w), NEW extra \in Int,
         extra = Len(Given(w)) - (w.end - w.start),
         extra > 0, extra < Len(mem) - len, w.alias => w.to <= w.end
  PROVE  Splices(grow(w, extra).mem, grow(w, extra).len, w)
<1> DEFINE s == w.start
           e == w.end
           n == len + extra
           t == e + extra
           ext == SubSeq(mem, 1, n)
           tail == SubSeq(mem, e + 1, len)
           moved == CopyTo(ext, t, tail)
           v == IF w.alias THEN SubSeq(moved, w.from + 1, w.to) ELSE w.bytes
           put == CopyTo(moved, s, v)
           rest == From(mem, n)
<1>0. /\ mem \in Seq(Byte) /\ len \in Nat /\ Len(mem) \in Nat /\ len <= Len(mem)
      /\ s \in Nat /\ e \in Nat /\ s <= e /\ e <= len
  BY LenProperties DEF Fits, Argument
<1>1. Given(w) \in Seq(Byte) /\ Len(Given(w)) \in Nat
  BY <1>0, GivenIs DEF Given
<1>2. grow(w, extra) = [mem |-> put \o rest, len |-> n]
  BY DEF grow, Slice
<1>17. extra = Len(Given(w)) - (e - s)
  OBVIOUS
<1> HIDE DEF s, e
<1>3. /\ n \in Nat /\ len <= n /\ n <= Len(mem) /\ t \in Nat /\ e <= t /\ 0 \in Nat /\ 0 <= n
      /\ n - 0 = n /\ t = s + Len(Given(w)) /\ n = (s + Len(Given(w))) + (len - e)
  <2> DEFINE g == Len(Given(w))
  <2>1. g \in Nat /\ extra = g - (e - s)
    BY <1>1, <1>17
  <2> HIDE DEF g
  <2>2. t = s + g /\ n = (s + g) + (len - e)
    BY <1>0, <2>1
  <2>3. /\ n \in Nat /\ len <= n /\ n <= Len(mem) /\ t \in Nat /\ e <= t
        /\ 0 \in Nat /\ 0 <= n /\ n - 0 = n
    BY <1>0
  <2> QED
    BY <2>2, <2>3 DEF g
<1> HIDE DEF n, t
<1>4. ext \in Seq(Byte) /\ Len(ext) = n /\ \A i \in 1..n : ext[i] = mem[i]
  <2>1. ext = SubSeq(mem, 0 + 1, n) /\ \A i \in 1..n : 0 + i = i
    BY <1>3
  <2>2. /\ SubSeq(mem, 0 + 1, n) \in Seq(Byte) /\ Len(SubSeq(mem, 0 + 1, n)) = n - 0
        /\ \A i \in 1..n - 0 : SubSeq(mem, 0 + 1, n)[i] = mem[0 + i]
    BY <1>0, <1>3, Piece
  <2> HIDE DEF ext
  <2> QED
    BY <1>3, <2>1, <2>2
<1>5. tail \in Seq(Byte) /\ Len(tail) = len - e /\ \A i \in 1..len - e : tail[i] = mem[e + i]
  BY <1>0, Piece
<1> HIDE DEF ext, tail
<1>6. /\ moved \in Seq(Byte) /\ Len(moved) = n
      /\ \A i \in 1..n : moved[i] =
           IF i > t /\ i - t <= Len(tail) THEN tail[i - t] ELSE ext[i]
  <2>1. ext \in Seq(Byte) /\ tail \in Seq(Byte) /\ t \in Nat /\ Len(ext) = n
    BY <1>3, <1>4, <1>5
  <2>2. /\ moved \in Seq(Byte) /\ Len(moved) = Len(ext)
        /\ \A i \in 1..Len(ext) : moved[i] =
             IF i > t /\ i - t <= Len(tail) THEN tail[i - t] ELSE ext[i]
    BY <2>1, CopyToIs
  <2> HIDE DEF moved
  <2> QED
    BY <2>1, <2>2
<1> HIDE DEF moved
<1>7. ASSUME NEW i \in 1..t PROVE moved[i] = mem[i]
  <2>1. i \in 1..n /\ ~(i > t)
    BY <1>0, <1>3
  <2> QED
    BY <1>4, <1>6, <2>1
<1>8. v = Given(w)
  <2>1. CASE w.alias
    <3> DEFINE x == w.from
               y == w.to
    <3>1. x \in Nat /\ y \in Nat /\ x <= y /\ y <= e
      BY <2>1 DEF Argument, e
    <3>2. v = SubSeq(moved, x + 1, y) /\ Given(w) = SubSeq(mem, x + 1, y)
      BY <2>1 DEF Given
    <3> HIDE DEF x, y, v
    <3> DEFINE m == y - x
    <3>3. m \in Nat /\ x + m = y /\ y <= Len(mem) /\ y <= n
      BY <1>0, <1>3, <3>1
    <3>4. Same(mem, x, moved, x, m)
      <4>1. ASSUME NEW k \in 1..m PROVE moved[x + k] = mem[x + k]
        <5>1. x + k \in 1..t
          BY <1>0, <1>3, <3>1, <3>3
        <5> QED
          BY <1>7, <5>1
      <4>2. x + m <= Len(mem) /\ x + m <= Len(moved)
        BY <1>6, <3>3
      <4> QED
        BY <4>1, <4>2 DEF Same
    <3> HIDE DEF m
    <3>5. SubSeq(moved, x + 1, x + m) = SubSeq(mem, x + 1, x + m)
      <4>1. mem \in Seq(Byte) /\ moved \in Seq(Byte) /\ x \in Nat /\ m \in Nat
        BY <1>0, <1>6, <3>1, <3>3
      <4> QED
        BY <3>4, <4>1, PieceSame
    <3> QED
      BY <3>2, <3>3, <3>5
  <2>2. CASE ~w.alias
    BY <2>2 DEF Given
  <2> QED
    BY <2>1, <2>2
<1>9. v \in Seq(Byte) /\ Len(v) \in Nat /\ t = s + Len(v)
  BY <1>1, <1>3, <1>8
<1> HIDE DEF v
<1>10. /\ put \in Seq(Byte) /\ Len(put) = n
       /\ \A i \in 1..n : put[i] = IF i > s /\ i - s <= Len(v) THEN v[i - s] ELSE moved[i]
  BY <1>0, <1>6, <1>9, CopyToIs
<1> HIDE DEF put
<1>11. rest \in Seq(Byte)
  <2>1. rest = SubSeq(mem, n + 1, Len(mem)) /\ Len(mem) <= Len(mem)
    BY <1>0 DEF From
  <2> QED
    BY <1>0, <1>3, <2>1, Piece, ZenonT(40)
<1> HIDE DEF rest
<1> DEFINE new == put \o rest
<1>12. /\ new \in Seq(Byte) /\ n <= Len(new) /\ \A i \in 1..n : new[i] = put[i]
  <2>1. /\ put \o rest \in Seq(Byte) /\ Len(put) \in Nat /\ Len(rest) \in Nat
        /\ Len(put \o rest) = Len(put) + Len(rest)
        /\ \A i \in 1..Len(put) : (put \o rest)[i] = put[i]
    BY <1>10, <1>11, ConcatIs
  <2> HIDE DEF new
  <2>2. new \in Seq(Byte) /\ Len(new) = n + Len(rest) /\ \A i \in 1..n : new[i] = put[i]
    BY <1>10, <2>1 DEF new
  <2> QED
    BY <1>3, <2>1, <2>2
<1> HIDE DEF new
<1>13. ASSUME NEW k \in 1..s PROVE new[k] = mem[k]
  <2>1. k \in 1..n /\ k \in 1..t /\ ~(k > s)
    BY <1>0, <1>3
  <2> QED
    BY <1>7, <1>10, <1>12, <2>1
<1>14. ASSUME NEW k \in 1..Len(v) PROVE new[s + k] = v[k]
  <2>1. s + k \in 1..n /\ s + k > s /\ (s + k) - s = k /\ k <= Len(v)
    <3>1. n = t + (len - e) /\ k \in Int /\ 1 <= k /\ k <= Len(v)
      BY <1>3, <1>9
    <3> QED
      BY <1>0, <1>3, <1>9, <3>1
  <2> QED
    BY <1>10, <1>12, <2>1
<1>15. ASSUME NEW k \in 1..len - e PROVE new[t + k] = mem[e + k]
  <2>1. /\ t + k \in 1..n /\ t + k > t /\ (t + k) - t = k /\ k <= Len(tail)
        /\ ~((t + k) - s <= Len(v))
    <3>1. n = t + (len - e) /\ k \in Int /\ 1 <= k /\ k <= len - e
      BY <1>0, <1>3, <1>9
    <3> QED
      BY <1>0, <1>3, <1>5, <1>9, <3>1
  <2>2. put[t + k] = moved[t + k] /\ moved[t + k] = tail[k]
    BY <1>6, <1>10, <2>1
  <2> QED
    BY <1>5, <1>12, <2>1, <2>2
<1>16. Splices(new, n, w)
  <2>1. /\ \A k \in 1..w.start : new[k] = mem[k]
        /\ \A k \in 1..Len(Given(w)) : new[w.start + k] = Given(w)[k]
        /\ \A k \in 1..len - w.end : new[(w.start + Len(Given(w))) + k] = mem[w.end + k]
    BY <1>8, <1>9, <1>13, <1>14, <1>15 DEF s, e
  <2> QED
    BY <1>3, <1>12, <2>1 DEF Splices, s, e
<1>18. grow(w, extra).mem = new /\ grow(w, extra).len = n
  BY <1>2 DEF new
<1> QED
  BY <1>16, <1>18

LEMMA ReplaceSplices ==
  ASSUME Fits, NEW w, Argument(w), NEW inplace,
         inplace /\ w.alias /\ w.to > w.end =>
           LET extra == (w.to - w.from) - (w.end - w.start) IN
           ~(extra > 0 /\ extra < Len(mem) - len)
  PROVE  Splices(replace(w, inplace).mem, replace(w, inplace).len, w)
<1> DEFINE v == Given(w)
           s == w.start
           e == w.end
           extra == Len(v) - (e - s)
           new == replace(w, inplace)
           front == SubSeq(mem, 1, s)
           tail == SubSeq(mem, e + 1, len)
           fresh == front \o v \o tail
<1>0. /\ mem \in Seq(Byte) /\ len \in Nat /\ Len(mem) \in Nat /\ len <= Len(mem)
      /\ s \in Nat /\ e \in Nat /\ s <= e /\ e <= len
  BY LenProperties DEF Fits, Argument
<1>1. /\ v \in Seq(Byte) /\ Len(v) \in Nat
      /\ Len(v) = IF w.alias THEN w.to - w.from ELSE Len(w.bytes)
  BY <1>0, GivenIs DEF Given
<1>2. new = CASE inplace /\ extra = 0 -> Slice(CopyTo(mem, s, v), len)
              [] inplace /\ extra < 0 -> shrink(w, extra)
              [] inplace /\ extra > 0 /\ extra < Len(mem) - len -> grow(w, extra)
              [] OTHER -> Slice(fresh, Len(fresh))
  BY DEF replace, Given
<1> HIDE DEF v, new
<1>3. extra \in Int
  BY <1>0, <1>1
<1>4. CASE inplace /\ extra = 0
  <2>1. new = [mem |-> CopyTo(mem, s, v), len |-> len]
    BY <1>2, <1>4 DEF Slice
  <2> DEFINE put == CopyTo(mem, s, v)
  <2>2. /\ put \in Seq(Byte) /\ Len(put) = Len(mem)
        /\ \A i \in 1..Len(mem) : put[i] = IF i > s /\ i - s <= Len(v) THEN v[i - s] ELSE mem[i]
    BY <1>0, <1>1, CopyToIs
  <2>9. Len(v) = e - s
    BY <1>0, <1>1, <1>4
  <2> HIDE DEF put, s, e
  <2>3. s + Len(v) = e /\ len = (s + Len(v)) + (len - e)
    BY <1>0, <1>1, <2>9
  <2>4. ASSUME NEW k \in 1..s PROVE put[k] = mem[k]
    <3>1. k \in 1..Len(mem) /\ ~(k > s)
      BY <1>0
    <3> QED
      BY <2>2, <3>1
  <2>5. ASSUME NEW k \in 1..Len(v) PROVE put[s + k] = v[k]
    <3>1. s + k \in 1..Len(mem) /\ s + k > s /\ (s + k) - s = k /\ k <= Len(v)
      BY <1>0, <1>1, <2>3
    <3> QED
      BY <2>2, <3>1
  <2>6. ASSUME NEW k \in 1..len - e PROVE put[(s + Len(v)) + k] = mem[e + k]
    <3>0. k \in Int /\ 1 <= k /\ k <= len - e
      BY <1>0
    <3>2. (s + Len(v)) + k = e + k
      BY <2>3
    <3>1. e + k \in 1..Len(mem) /\ ~((e + k) - s <= Len(v)) /\ (s + Len(v)) + k = e + k
      BY <1>0, <1>1, <2>9, <3>0, <3>2
    <3> QED
      BY <2>2, <3>1
  <2>7. Splices(put, len, w)
    BY <1>0, <2>2, <2>3, <2>4, <2>5, <2>6 DEF Splices, v, s, e
  <2> QED
    BY <2>1, <2>7 DEF put, new
<1>5. CASE inplace /\ extra < 0
  <2>1. new = shrink(w, extra)
    BY <1>2, <1>3, <1>5
  <2>2. Splices(shrink(w, extra).mem, shrink(w, extra).len, w)
    BY <1>3, <1>5, ShrinkSplices DEF v
  <2> QED
    BY <2>1, <2>2 DEF new
<1>6. CASE inplace /\ extra > 0 /\ extra < Len(mem) - len
  <2>1. new = grow(w, extra)
    BY <1>2, <1>3, <1>6
  <2>2. w.alias => w.to <= w.end
    <3> SUFFICES ASSUME w.alias, ~(w.to <= w.end) PROVE FALSE
      OBVIOUS
    <3>1. w.to \in Nat /\ w.end \in Nat
      BY DEF Argument
    <3>2. w.to > w.end
      BY <3>1
    <3>3. extra = (w.to - w.from) - (w.end - w.start)
      BY <1>1
    <3> HIDE DEF extra
    <3> QED
      BY <1>6, <3>2, <3>3
  <2>3. Splices(grow(w, extra).mem, grow(w, extra).len, w)
    BY <1>3, <1>6, <2>2, GrowSplices DEF v
  <2> QED
    BY <2>1, <2>3 DEF new
<1>7. CASE ~inplace \/ ~(extra = 0 \/ extra < 0 \/ (extra > 0 /\ extra < Len(mem) - len))
  <2>1. new = [mem |-> fresh, len |-> Len(fresh)]
    BY <1>2, <1>7 DEF Slice
  <2> HIDE DEF s, e
  <2>2. front \in Seq(Byte) /\ Len(front) = s /\ \A i \in 1..s : front[i] = mem[i]
    <3>1. front = SubSeq(mem, 0 + 1, s) /\ 0 <= s /\ s <= Len(mem) /\ s - 0 = s /\ 0 \in Nat
          /\ \A i \in 1..s : 0 + i = i
      BY <1>0
    <3>2. /\ SubSeq(mem, 0 + 1, s) \in Seq(Byte) /\ Len(SubSeq(mem, 0 + 1, s)) = s - 0
          /\ \A i \in 1..s - 0 : SubSeq(mem, 0 + 1, s)[i] = mem[0 + i]
      BY <1>0, <3>1, Piece
    <3> HIDE DEF front
    <3> QED
      BY <3>1, <3>2
  <2>3. tail \in Seq(Byte) /\ Len(tail) = len - e /\ \A i \in 1..len - e : tail[i] = mem[e + i]
    BY <1>0, Piece
  <2> HIDE DEF front, tail
  <2> DEFINE fv == front \o v
  <2>4. /\ fv \in Seq(Byte) /\ Len(fv) = s + Len(v)
        /\ \A i \in 1..s : fv[i] = front[i]
        /\ \A i \in 1..Len(v) : fv[s + i] = v[i]
    <3>1. /\ fv \in Seq(Byte) /\ Len(fv) = Len(front) + Len(v)
          /\ \A i \in 1..Len(front) : fv[i] = front[i]
          /\ \A i \in 1..Len(v) : fv[Len(front) + i] = v[i]
      BY <1>1, <2>2, ConcatIs
    <3> HIDE DEF fv
    <3> QED
      BY <2>2, <3>1
  <2>5. fresh = fv \o tail
    OBVIOUS
  <2> HIDE DEF fv, fresh
  <2> DEFINE D == s + Len(v)
  <2>6. /\ fresh \in Seq(Byte) /\ Len(fresh) = D + (len - e)
        /\ \A i \in 1..D : fresh[i] = fv[i]
        /\ \A i \in 1..len - e : fresh[D + i] = tail[i]
    <3>1. /\ fv \o tail \in Seq(Byte) /\ Len(fv \o tail) = Len(fv) + Len(tail)
          /\ \A i \in 1..Len(fv) : (fv \o tail)[i] = fv[i]
          /\ \A i \in 1..Len(tail) : (fv \o tail)[Len(fv) + i] = tail[i]
      BY <2>3, <2>4, ConcatIs
    <3> QED
      BY <2>3, <2>4, <2>5, <3>1
  <2>7. ASSUME NEW k \in 1..s PROVE fresh[k] = mem[k]
    <3>1. k \in 1..D
      BY <1>0, <1>1
    <3> HIDE DEF D
    <3> QED
      BY <2>2, <2>4, <2>6, <3>1
  <2>8. ASSUME NEW k \in 1..Len(v) PROVE fresh[s + k] = v[k]
    <3>1. s + k \in 1..D
      BY <1>0, <1>1
    <3> HIDE DEF D
    <3> QED
      BY <2>4, <2>6, <3>1
  <2>9. ASSUME NEW k \in 1..len - e PROVE fresh[D + k] = mem[e + k]
    BY <2>3, <2>6
  <2>10. Len(fresh) \in Nat /\ Len(fresh) <= Len(fresh)
    BY <2>6, LenProperties
  <2>11. Splices(fresh, Len(fresh), w)
    BY <2>6, <2>7, <2>8, <2>9, <2>10 DEF Splices, v, s, e
  <2> QED
    BY <2>1, <2>11 DEF new
<1> QED
  BY <1>4, <1>5, <1>6, <1>7

-----------------------------------------------------------------------------
(* The three headers of a map, read.                                       *)
LEMMA FixMap ==
  ASSUME NEW x \in Byte, x \in 128..143
  PROVE  sizes[x] = bytespec(1, 2 * (x - 128), "map")
<1>1. x \in Int /\ 0 <= x /\ x <= 255
  BY DEF Byte
<1> QED
  BY <1>1, SMTT(40) DEF sizes, Byte

LEMMA HeaderReads ==
  ASSUME NEW d \in Seq(Byte)
  PROVE  /\ Len(d) >= 1 /\ d[1] \in 128..143 => ReadMapHeaderBytes(d) = Ok(d[1] - 128, 1)
         /\ Len(d) >= 3 /\ d[1] = 222 => ReadMapHeaderBytes(d) = Ok(be16(d), 3)
         /\ Len(d) >= 5 /\ d[1] = 223 => ReadMapHeaderBytes(d) = Ok(be32(d), 5)
<1>0. Len(d) \in Nat
  BY LenProperties
<1>1. ASSUME NEW sz \in Nat, NEW ex \in Int, d # <<>>, sizes[d[1]] = bytespec(sz, ex, "map"),
             ~(d[1] \in 160..191), ~(Len(d) < sz)
      PROVE  ReadMapHeaderBytes(d) = Ok(SizedBy(bytespec(sz, ex, "map"), d).o \div 2, sz)
  <2> DEFINE z == bytespec(sz, ex, "map")
  <2>1. z.size = sz /\ z.typ = "map"
    BY DEF bytespec
  <2> HIDE DEF z
  <2>2. Prefix(d, "map") = PrefixBy(z, d, "map")
    BY <1>1 DEF Prefix, z
  <2>3. PrefixBy(z, d, "map") = Ok(SizedBy(z, d), sz)
    BY <1>1, <2>1 DEF PrefixBy
  <2>4. ReadMapHeaderBytes(d) = Ok(SizedBy(z, d).o \div 2, sz)
    BY <2>2, <2>3 DEF ReadMapHeaderBytes, Count, Ok
  <2> QED
    BY <2>4 DEF z
<1>2. ASSUME NEW ex \in Int, NEW sz
      PROVE  bytespec(sz, ex, "map").extra = ex
  BY DEF bytespec
<1>3. ASSUME Len(d) >= 1, d[1] \in 128..143 PROVE ReadMapHeaderBytes(d) = Ok(d[1] - 128, 1)
  <2> DEFINE c == d[1]
             z == bytespec(1, 2 * (c - 128), "map")
  <2>1. c \in Int /\ c >= 128 /\ c <= 143 /\ c \in Byte
    BY <1>3 DEF Byte
  <2>2. sizes[c] = z
    <3> HIDE DEF c
    <3> QED
      BY <2>1, FixMap
  <2> HIDE DEF c
  <2>3. 2 * (c - 128) \in Int /\ 2 * (c - 128) >= 0 /\ ~(c \in 160..191)
        /\ (2 * (c - 128)) \div 2 = c - 128 /\ 1 \in Nat
    BY <2>1
  <2>4. d # <<>> /\ ~(Len(d) < 1)
    BY <1>0, <1>3
  <2> DEFINE x == 2 * (c - 128)
  <2>5. SizedBy(z, d).o = x
    <3> HIDE DEF x
    <3>1. z.extra = x /\ x \in Int /\ x >= 0
      BY <2>3 DEF bytespec, x
    <3> HIDE DEF z
    <3> QED
      BY <3>1, Modes DEF Size
  <2>6. ReadMapHeaderBytes(d) = Ok(SizedBy(z, d).o \div 2, 1)
    BY <1>1, <2>2, <2>3, <2>4 DEF c
  <2> QED
    BY <2>3, <2>5, <2>6 DEF c
<1>4. sizes[222] = bytespec(3, map16v, "map") /\ sizes[223] = bytespec(5, map32v, "map")
  <2>1. sizes[222] = named[222 - 191] /\ sizes[223] = named[223 - 191]
    BY DEF sizes, Byte
  <2>2. named[31] = bytespec(3, map16v, "map") /\ named[32] = bytespec(5, map32v, "map")
    BY DEF named
  <2> HIDE DEF named
  <2> QED
    BY <2>1, <2>2
<1>5. ASSUME Len(d) >= 3, d[1] = 222 PROVE ReadMapHeaderBytes(d) = Ok(be16(d), 3)
  <2> DEFINE z == bytespec(3, map16v, "map")
  <2>1. d # <<>> /\ ~(Len(d) < 3) /\ ~(d[1] \in 160..191) /\ 3 \in Nat /\ map16v \in Int
    BY <1>0, <1>5 DEF map16v
  <2>2. ReadMapHeaderBytes(d) = Ok(SizedBy(z, d).o \div 2, 3)
    BY <1>1, <1>4, <1>5, <2>1
  <2>3. z.extra = map16v /\ z.extra \in Int
    BY <2>1 DEF bytespec
  <2> HIDE DEF z
  <2>4. SizedBy(z, d).o = 2 * be16(d)
    BY <2>3, Modes DEF Size
  <2>5. be16(d) \in Nat
    BY <1>5, Be16
  <2>6. (2 * be16(d)) \div 2 = be16(d)
    BY <2>5
  <2> QED
    BY <2>2, <2>4, <2>6
<1>6. ASSUME Len(d) >= 5, d[1] = 223 PROVE ReadMapHeaderBytes(d) = Ok(be32(d), 5)
  <2> DEFINE z == bytespec(5, map32v, "map")
  <2>1. d # <<>> /\ ~(Len(d) < 5) /\ ~(d[1] \in 160..191) /\ 5 \in Nat /\ map32v \in Int
    BY <1>0, <1>6 DEF map32v
  <2>2. ReadMapHeaderBytes(d) = Ok(SizedBy(z, d).o \div 2, 5)
    BY <1>1, <1>4, <1>6, <2>1
  <2>3. z.extra = map32v /\ z.extra \in Int
    BY <2>1 DEF bytespec
  <2> HIDE DEF z
  <2>4. SizedBy(z, d).o = 2 * be32(d)
    BY <2>3, Modes DEF Size
  <2>5. be32(d) \in Nat
    BY <1>6, Be32
  <2>6. (2 * be32(d)) \div 2 = be32(d)
    BY <2>5
  <2> QED
    BY <2>2, <2>4, <2>6
<1> QED
  BY <1>3, <1>5, <1>6

(* A count is read as it was put.                                          *)
LEMMA Counted16 ==
  ASSUME NEW k \in Nat, k <= 65535
  PROVE  /\ be(k, 2) \in Seq(Byte) /\ Len(be(k, 2)) = 2
         /\ be(k, 2)[1] * 256 + be(k, 2)[2] = k
<1>1. (k \div 256) % 256 \in Byte /\ k % 256 \in Byte
  BY DEF Byte
<1>2. ((k \div 256) % 256) * 256 + (k % 256) = k
  <2>0. k \in Int /\ 0 <= k /\ k <= 65535
    OBVIOUS
  <2>1. k \div 256 \in Int /\ 0 <= k \div 256 /\ k \div 256 <= 255
    BY <2>0, SMT
  <2>2. (k \div 256) % 256 = k \div 256
    BY <2>1, SMT
  <2>3. k = (k \div 256) * 256 + (k % 256)
    BY SMT
  <2> QED
    BY <2>2, <2>3, SMT
<1>3. be(k, 2) = <<(k \div 256) % 256, k % 256>>
  BY DEF be
<1>4. ASSUME NEW p \in Byte, NEW q \in Byte
      PROVE  /\ <<p, q>> \in Seq(Byte) /\ Len(<<p, q>>) = 2
             /\ <<p, q>>[1] = p /\ <<p, q>>[2] = q
  OBVIOUS
<1> DEFINE p == (k \div 256) % 256
           q == k % 256
<1> HIDE DEF p, q
<1>5. p \in Byte /\ q \in Byte /\ p * 256 + q = k /\ be(k, 2) = <<p, q>>
  BY <1>1, <1>2, <1>3 DEF p, q
<1>6. /\ <<p, q>> \in Seq(Byte) /\ Len(<<p, q>>) = 2
      /\ <<p, q>>[1] = p /\ <<p, q>>[2] = q
  BY <1>4, <1>5
<1>7. be(k, 2) \in Seq(Byte) /\ Len(be(k, 2)) = 2 /\ be(k, 2)[1] = p /\ be(k, 2)[2] = q
  <2>1. ASSUME NEW t, t = <<p, q>>
        PROVE  t \in Seq(Byte) /\ Len(t) = 2 /\ t[1] = p /\ t[2] = q
    BY <1>5, <1>6, <2>1, SMT
  <2> QED
    BY <1>5, <2>1, SMT
<1> QED
  BY <1>5, <1>7

LEMMA Counted32 ==
  ASSUME NEW k \in Nat, k \div 16777216 <= 255
  PROVE  /\ be(k, 4) \in Seq(Byte) /\ Len(be(k, 4)) = 4
         /\ ((be(k, 4)[1] * 256 + be(k, 4)[2]) * 256 + be(k, 4)[3]) * 256 + be(k, 4)[4] = k
<1> DEFINE a == k \div 256
           b == k \div 65536
           c == k \div 16777216
<1>1. a \in Nat /\ b \in Nat /\ c \in Nat /\ c <= 255
  BY SMT
<1>2. k = a * 256 + (k % 256)
  BY SMT
<1>3. a = b * 256 + (a % 256)
  BY SMT
<1>4. b = c * 256 + (b % 256)
  BY SMT
<1>7. be(k, 4) = <<c % 256, b % 256, a % 256, k % 256>>
  BY SMT DEF be
<1> HIDE DEF a, b, c
<1>5. c % 256 = c
  BY <1>1, SMT
<1>6. a % 256 \in Byte /\ b % 256 \in Byte /\ c % 256 \in Byte /\ k % 256 \in Byte
  BY <1>1, SMT DEF Byte
<1>8. be(k, 4) \in Seq(Byte) /\ Len(be(k, 4)) = 4
  <2>1. ASSUME NEW p \in Byte, NEW q \in Byte, NEW r \in Byte, NEW s \in Byte
        PROVE  <<p, q, r, s>> \in Seq(Byte) /\ Len(<<p, q, r, s>>) = 4
    BY SMT
  <2> DEFINE p == c % 256
             q == b % 256
             r == a % 256
             s == k % 256
  <2>2. p \in Byte /\ q \in Byte /\ r \in Byte /\ s \in Byte /\ be(k, 4) = <<p, q, r, s>>
    BY <1>6, <1>7, SMT
  <2> HIDE DEF p, q, r, s
  <2>3. <<p, q, r, s>> \in Seq(Byte) /\ Len(<<p, q, r, s>>) = 4
    BY <2>1, <2>2, SMT
  <2>4. ASSUME NEW t, t = <<p, q, r, s>> PROVE t \in Seq(Byte) /\ Len(t) = 4
    BY <2>2, <2>3, <2>4, SMT
  <2> QED
    BY <2>2, <2>4, SMT
<1>9. /\ be(k, 4)[1] = c /\ be(k, 4)[2] = b % 256
      /\ be(k, 4)[3] = a % 256 /\ be(k, 4)[4] = k % 256
  BY <1>5, <1>7, SMT
<1>10. (c * 256 + (b % 256)) * 256 + (a % 256) = a
  BY <1>1, <1>3, <1>4, SMT
<1> QED
  BY <1>2, <1>8, <1>9, <1>10, SMT

-----------------------------------------------------------------------------
(* resizeMap writes the header of one pair less, and nothing behind it.    *)
LessBy(b, n, h, cut, new) ==
  /\ new \in Seq(Byte) /\ Len(new) = Len(cut)
  /\ \A i \in 1..Len(cut) : i > h => new[i] = cut[i]
  /\ \A d \in Seq(Byte) :
       Len(d) >= h /\ (\A i \in 1..h : d[i] = new[i]) =>
         ReadMapHeaderBytes(d) = Ok(n - 1, h)

LEMMA FixLess ==
  ASSUME NEW b \in Seq(Byte), NEW n \in Nat, n >= 1, NEW cut \in Seq(Byte), Len(cut) >= 1,
         b[1] \in 128..143, n = b[1] - 128, cut[1] = b[1]
  PROVE  LessBy(b, n, 1, cut, resizeMap(cut))
<1> DEFINE c == 128 + (cut[1] - 129)
           src == <<c>>
           z == 0
           new == CopyTo(cut, z, src)
<1>0. Len(cut) \in Nat
  BY LenProperties
<1>1. c \in Byte /\ c \in 128..143 /\ c - 128 = n - 1
  <2>1. ASSUME NEW x \in 128..143, n = x - 128
        PROVE  LET y == 128 + (x - 129) IN y \in 0..255 /\ y \in 128..143 /\ y - 128 = n - 1
    BY <2>1
  <2>2. cut[1] \in 128..143 /\ n = cut[1] - 128
    BY Zenon
  <2> QED
    BY <2>1, <2>2 DEF Byte
<1>2. resizeMap(cut) = new
  <2>1. ASSUME NEW x \in 128..143 PROVE x # 222 /\ x # 223
    BY <2>1
  <2>2. cut[1] # 222 /\ cut[1] # 223
    BY <2>1
  <2> QED
    BY <2>2 DEF resizeMap
<1> HIDE DEF c
<1>3. src \in Seq(Byte) /\ Len(src) = 1 /\ src[1] = c /\ z \in Nat
  BY <1>1
<1> HIDE DEF src, z
<1>4. /\ new \in Seq(Byte) /\ Len(new) = Len(cut)
      /\ \A i \in 1..Len(cut) : new[i] =
           IF i > z /\ i - z <= Len(src) THEN src[i - z] ELSE cut[i]
  BY <1>3, CopyToIs, ZenonT(40)
<1> HIDE DEF new
<1>5. new[1] = c /\ \A i \in 1..Len(cut) : i > 1 => new[i] = cut[i]
  BY <1>0, <1>3, <1>4 DEF z
<1>6. ASSUME NEW d \in Seq(Byte), Len(d) >= 1, \A i \in 1..1 : d[i] = new[i]
      PROVE  ReadMapHeaderBytes(d) = Ok(n - 1, 1)
  <2>1. d[1] = c
    BY <1>5, <1>6
  <2>2. ReadMapHeaderBytes(d) = Ok(d[1] - 128, 1)
    BY <1>1, <1>6, <2>1, HeaderReads
  <2> QED
    BY <1>1, <2>1, <2>2
<1> QED
  BY <1>2, <1>4, <1>5, <1>6 DEF LessBy

LEMMA Less16 ==
  ASSUME NEW b \in Seq(Byte), NEW n \in Nat, n >= 1, NEW cut \in Seq(Byte), Len(cut) >= 3,
         b[1] = 222, n = be16(b), \A i \in 1..3 : cut[i] = b[i]
  PROVE  LessBy(b, n, 3, cut, resizeMap(cut))
<1> DEFINE k == n - 1
           src == be(k, 2)
           m == 1
           new == CopyTo(cut, m, src)
<1>0. Len(cut) \in Nat
  BY LenProperties
<1>1. cut[1] = 222 /\ cut[2] = b[2] /\ cut[3] = b[3]
  <2>1. 1 \in 1..3 /\ 2 \in 1..3 /\ 3 \in 1..3
    OBVIOUS
  <2> QED
    BY <2>1
<1>2. be16(cut) = n
  BY <1>1 DEF be16
<1>3. resizeMap(cut) = new
  BY <1>1, <1>2 DEF resizeMap
<1>4. k \in Nat /\ k <= 65535
  <2>1. cut[2] \in Byte /\ cut[3] \in Byte
    <3>1. 2 \in 1..Len(cut) /\ 3 \in 1..Len(cut)
      BY <1>0
    <3> QED
      BY <3>1, ElementOfSeq
  <2>2. ASSUME NEW p \in Byte, NEW q \in Byte, n = p * 256 + q
        PROVE  k \in Nat /\ k <= 65535
    BY <2>2, SMT DEF Byte
  <2>3. n = cut[2] * 256 + cut[3]
    BY <1>2 DEF be16
  <2> QED
    BY <2>1, <2>2, <2>3, SMT
<1> HIDE DEF k
<1>5. src \in Seq(Byte) /\ Len(src) = 2 /\ src[1] * 256 + src[2] = k /\ m \in Nat
  BY <1>4, Counted16, SMT
<1> HIDE DEF src, m
<1>6. /\ new \in Seq(Byte) /\ Len(new) = Len(cut)
      /\ \A i \in 1..Len(cut) : new[i] =
           IF i > m /\ i - m <= Len(src) THEN src[i - m] ELSE cut[i]
  <2>1. src \in Seq(Byte) /\ m \in Nat
    BY <1>5
  <2> QED
    BY <2>1, CopyToIs
<1> HIDE DEF new
<1>7. \A i \in 1..Len(cut) : new[i] = IF i > 1 /\ i - 1 <= 2 THEN src[i - 1] ELSE cut[i]
  BY <1>5, <1>6 DEF m
<1>8. /\ new[1] = 222 /\ new[2] = src[1] /\ new[3] = src[2]
      /\ \A i \in 1..Len(cut) : i > 3 => new[i] = cut[i]
  BY <1>0, <1>1, <1>7
<1>9. ASSUME NEW d \in Seq(Byte), Len(d) >= 3, \A i \in 1..3 : d[i] = new[i]
      PROVE  ReadMapHeaderBytes(d) = Ok(n - 1, 3)
  <2>1. d[1] = 222 /\ d[2] = src[1] /\ d[3] = src[2]
    BY <1>8, <1>9
  <2>2. be16(d) = n - 1
    BY <1>5, <2>1 DEF be16, k
  <2>3. ReadMapHeaderBytes(d) = Ok(be16(d), 3)
    BY <1>9, <2>1, HeaderReads
  <2> QED
    BY <2>2, <2>3
<1> QED
  BY <1>3, <1>6, <1>8, <1>9 DEF LessBy

LEMMA Less32 ==
  ASSUME NEW b \in Seq(Byte), NEW n \in Nat, n >= 1, NEW cut \in Seq(Byte), Len(cut) >= 5,
         b[1] = 223, n = be32(b), \A i \in 1..5 : cut[i] = b[i]
  PROVE  LessBy(b, n, 5, cut, resizeMap(cut))
<1> DEFINE k == n - 1
           src == be(k, 4)
           m == 1
           new == CopyTo(cut, m, src)
<1>0. Len(cut) \in Nat
  BY LenProperties
<1>1. cut[1] = 223 /\ cut[2] = b[2] /\ cut[3] = b[3] /\ cut[4] = b[4] /\ cut[5] = b[5]
  <2>1. 1 \in 1..5 /\ 2 \in 1..5 /\ 3 \in 1..5 /\ 4 \in 1..5 /\ 5 \in 1..5
    OBVIOUS
  <2> QED
    BY <2>1
<1>2. be32(cut) = n
  BY <1>1 DEF be32
<1>3. resizeMap(cut) = new
  BY <1>1, <1>2 DEF resizeMap
<1>4. k \in Nat /\ k \div 16777216 <= 255
  <2>1. cut[2] \in Byte /\ cut[3] \in Byte /\ cut[4] \in Byte /\ cut[5] \in Byte
    <3>1. 2 \in 1..Len(cut) /\ 3 \in 1..Len(cut) /\ 4 \in 1..Len(cut) /\ 5 \in 1..Len(cut)
      BY <1>0
    <3> QED
      BY <3>1, ElementOfSeq
  <2>2. ASSUME NEW p \in Byte, NEW q \in Byte, NEW r \in Byte, NEW s \in Byte,
               n = ((p * 256 + q) * 256 + r) * 256 + s
        PROVE  k \in Nat /\ k \div 16777216 <= 255
    BY <2>2, SMT DEF Byte
  <2>3. n = ((cut[2] * 256 + cut[3]) * 256 + cut[4]) * 256 + cut[5]
    BY <1>2 DEF be32
  <2> QED
    BY <2>1, <2>2, <2>3, SMT
<1> HIDE DEF k
<1>5. /\ src \in Seq(Byte) /\ Len(src) = 4 /\ m \in Nat
      /\ ((src[1] * 256 + src[2]) * 256 + src[3]) * 256 + src[4] = k
  BY <1>4, Counted32, SMT
<1> HIDE DEF src, m
<1>6. /\ new \in Seq(Byte) /\ Len(new) = Len(cut)
      /\ \A i \in 1..Len(cut) : new[i] =
           IF i > m /\ i - m <= Len(src) THEN src[i - m] ELSE cut[i]
  <2>1. src \in Seq(Byte) /\ m \in Nat
    BY <1>5
  <2> QED
    BY <2>1, CopyToIs
<1> HIDE DEF new
<1>7. \A i \in 1..Len(cut) : new[i] = IF i > 1 /\ i - 1 <= 4 THEN src[i - 1] ELSE cut[i]
  BY <1>5, <1>6 DEF m
<1>8. /\ new[1] = 223 /\ new[2] = src[1] /\ new[3] = src[2] /\ new[4] = src[3] /\ new[5] = src[4]
      /\ \A i \in 1..Len(cut) : i > 5 => new[i] = cut[i]
  BY <1>0, <1>1, <1>7
<1>9. ASSUME NEW d \in Seq(Byte), Len(d) >= 5, \A i \in 1..5 : d[i] = new[i]
      PROVE  ReadMapHeaderBytes(d) = Ok(n - 1, 5)
  <2>1. d[1] = 223 /\ d[2] = src[1] /\ d[3] = src[2] /\ d[4] = src[3] /\ d[5] = src[4]
    BY <1>8, <1>9
  <2>2. be32(d) = n - 1
    BY <1>5, <2>1 DEF be32, k
  <2>3. ReadMapHeaderBytes(d) = Ok(be32(d), 5)
    BY <1>9, <2>1, HeaderReads
  <2> QED
    BY <2>2, <2>3
<1> QED
  BY <1>3, <1>6, <1>8, <1>9 DEF LessBy

LEMMA ResizeLess ==
  ASSUME NEW b \in Seq(Byte), NEW n \in Nat, n >= 1, NEW h, ReadMapHeaderBytes(b) = Ok(n, h),
         NEW cut \in Seq(Byte), Len(cut) >= h, \A i \in 1..h : cut[i] = b[i]
  PROVE  LessBy(b, n, h, cut, resizeMap(cut))
<1> DEFINE r == ReadMapHeaderBytes(b)
<1>1. r.err = "none" /\ r.n = h /\ r.v = n
  BY DEF Ok
<1>2. /\ h \in Nat /\ 1 <= h
      /\ \/ b[1] \in 128..143 /\ h = 1 /\ n = b[1] - 128
         \/ b[1] = 222 /\ h = 3 /\ n = be16(b)
         \/ b[1] = 223 /\ h = 5 /\ n = be32(b)
  BY <1>1, MapHeader, SMTT(40)
<1>3. cut[1] = b[1]
  BY <1>2
<1>4. CASE b[1] \in 128..143 /\ h = 1 /\ n = b[1] - 128
  BY <1>3, <1>4, FixLess
<1>5. CASE b[1] = 222 /\ h = 3 /\ n = be16(b)
  BY <1>5, Less16
<1>6. CASE b[1] = 223 /\ h = 5 /\ n = be32(b)
  BY <1>6, Less32
<1> QED
  BY <1>2, <1>4, <1>5, <1>6

(* The tail moves onto the pair that is removed.                           *)
LEMMA CutBytes ==
  ASSUME Fits, NEW h \in Nat, NEW s \in Nat, NEW e \in Nat, h <= s, s < e, e <= len,
         NEW new \in Seq(Byte), Len(new) = Len(mem),
         \A i \in 1..Len(mem) : i > h => new[i] = CopyTo(mem, s, SubSeq(mem, e + 1, len))[i],
         NEW m, m = s + (len - e)
  PROVE  /\ SubSeq(new, 1, m) \in Seq(Byte) /\ m \in Nat /\ h <= m /\ Len(SubSeq(new, 1, m)) = m
         /\ \A i \in 1..m : SubSeq(new, 1, m)[i] = new[i]
         /\ Cut(SubSeq(new, 1, m), raw, h, s, e)
<1> DEFINE tail == SubSeq(mem, e + 1, len)
           cut == CopyTo(mem, s, tail)
           d == SubSeq(new, 1, m)
<1>0. /\ mem \in Seq(Byte) /\ len \in Nat /\ Len(mem) \in Nat /\ len <= Len(mem)
      /\ raw \in Seq(Byte) /\ Len(raw) = len /\ \A i \in 1..len : raw[i] = mem[i]
  BY RawIs DEF Fits
<1>1. /\ tail \in Seq(Byte) /\ Len(tail) = len - e
      /\ \A i \in 1..len - e : tail[i] = mem[e + i]
  BY <1>0, Piece
<1> HIDE DEF tail
<1>2. \A i \in 1..Len(mem) : cut[i] =
        IF i > s /\ i - s <= Len(tail) THEN tail[i - s] ELSE mem[i]
  BY <1>0, <1>1, CopyToIs, ZenonT(40)
<1>3. \A i \in 1..Len(mem) : i > h => new[i] = cut[i]
  BY DEF tail
<1> HIDE DEF cut
<1>4. m \in Nat /\ h <= m /\ m <= Len(new) /\ m <= len
  BY <1>0
<1>5. /\ d \in Seq(Byte) /\ Len(d) = m /\ \A i \in 1..m : d[i] = new[i]
  <2> DEFINE z == 0
  <2>1. z \in Nat /\ z <= m /\ d = SubSeq(new, z + 1, m) /\ m - z = m
        /\ \A i \in 1..m : z + i = i
    BY <1>4
  <2> HIDE DEF z
  <2>2. /\ SubSeq(new, z + 1, m) \in Seq(Byte) /\ Len(SubSeq(new, z + 1, m)) = m - z
        /\ \A i \in 1..m - z : SubSeq(new, z + 1, m)[i] = new[z + i]
    BY <1>4, <2>1, Piece
  <2> QED
    BY <2>1, <2>2
<1> HIDE DEF d
<1>6. Same(raw, h, d, h, s - h)
  <2>1. h + (s - h) = s /\ s <= len /\ s <= m /\ s - h \in Nat
    BY <1>0, <1>4
  <2>2. ASSUME NEW k \in 1..s - h PROVE d[h + k] = raw[h + k]
    <3> DEFINE i == h + k
    <3>1. i \in Int /\ i > h /\ i >= 1 /\ i <= s
      BY <2>1
    <3> HIDE DEF i
    <3>2. i \in 1..m /\ i \in 1..len /\ i \in 1..Len(mem) /\ ~(i > s)
      BY <1>0, <2>1, <3>1, <1>4
    <3>3. d[i] = mem[i] /\ raw[i] = mem[i]
      BY <1>0, <1>2, <1>3, <1>5, <3>1, <3>2
    <3> QED
      BY <3>3 DEF i
  <2> QED
    BY <1>0, <1>5, <2>1, <2>2 DEF Same
<1>7. Same(raw, e, d, s, Len(raw) - e)
  <2>1. /\ e + (Len(raw) - e) <= Len(raw) /\ s + (Len(raw) - e) <= Len(d)
        /\ Len(raw) - e = len - e
    BY <1>0, <1>5
  <2>2. ASSUME NEW k \in 1..len - e PROVE d[s + k] = raw[e + k]
    <3> DEFINE i == s + k
               j == e + k
    <3>1. i \in 1..m /\ i \in 1..Len(mem) /\ i > h /\ i > s /\ i - s = k /\ k <= Len(tail)
      BY <1>0, <1>1, <1>4
    <3>2. j \in 1..len /\ tail[k] = mem[j]
      BY <1>0, <1>1
    <3> HIDE DEF i, j
    <3>3. d[i] = new[i] /\ new[i] = cut[i]
      BY <1>3, <1>5, <3>1
    <3>4. cut[i] = tail[k]
      BY <1>2, <3>1
    <3>5. raw[j] = mem[j]
      BY <1>0, <3>2
    <3> QED
      BY <3>2, <3>3, <3>4, <3>5 DEF i, j
  <2> QED
    BY <2>1, <2>2 DEF Same
<1>8. Len(d) = s + (Len(raw) - e)
  BY <1>0, <1>5
<1> QED
  BY <1>4, <1>5, <1>6, <1>7, <1>8 DEF Cut, d

LEMMA RemoveCuts ==
  ASSUME Fits, NEW pairs, NEW at, Laid(raw, pairs, at), NEW f \in 1..Len(pairs),
         NEW l, l = FoundAt(raw, at, f)
  PROVE  LET new == resizeMap(CopyTo(mem, l.kstart, SubSeq(mem, l.end + 1, len)))
             m == len - (l.end - l.kstart)
             d == SubSeq(new, 1, m)
         IN  /\ d \in Seq(Byte) /\ ReadMapHeaderBytes(d) = Ok(Len(pairs) - 1, at[0])
             /\ Cut(d, raw, at[0], at[f - 1], at[f])
<1> DEFINE n == Len(pairs)
           h == at[0]
           s == at[f - 1]
           e == at[f]
           tail == SubSeq(mem, e + 1, len)
           cut == CopyTo(mem, s, tail)
           new == resizeMap(cut)
           m == len - (e - s)
           d == SubSeq(new, 1, m)
<1>0. /\ mem \in Seq(Byte) /\ len \in Nat /\ Len(mem) \in Nat /\ len <= Len(mem)
      /\ raw \in Seq(Byte) /\ Len(raw) = len /\ \A i \in 1..len : raw[i] = mem[i]
  BY RawIs DEF Fits
<1>1. l.kstart = s /\ l.end = e
  BY DEF FoundAt
<1>2. n \in Nat /\ h \in Nat /\ ReadMapHeaderBytes(raw) = Ok(n, h)
  BY LaidOut
<1>3. s \in Nat /\ e \in Nat /\ s < e /\ e <= len
  <2>1. /\ s \in Nat /\ e \in Nat /\ s + Key(raw, s).n < e /\ e <= len /\ Key(raw, s).n \in Nat
    BY <1>0, LaidPair
  <2>2. ASSUME NEW x \in Nat, s + x < e PROVE s < e
    BY <2>1, <2>2
  <2> QED
    BY <2>1, <2>2
<1>4. h <= s
  <2>1. 0 \in 0..n /\ f - 1 \in 0..n /\ 0 <= f - 1
    BY <1>2
  <2> DEFINE z == 0
             q == f - 1
  <2> HIDE DEF z, q
  <2>2. z \in 0..n /\ q \in 0..n /\ z <= q
    BY <2>1 DEF z, q
  <2>3. at[z] <= at[q]
    BY <2>2, MarksRise
  <2> QED
    BY <2>3 DEF z, q
<1>5. n >= 1
  BY <1>2
<1> HIDE DEF n, h, s, e
<1>6. tail \in Seq(Byte)
  BY <1>0, <1>3, Piece
<1> HIDE DEF tail
<1>7. /\ cut \in Seq(Byte) /\ Len(cut) = Len(mem)
      /\ \A i \in 1..Len(mem) : cut[i] =
           IF i > s /\ i - s <= Len(tail) THEN tail[i - s] ELSE mem[i]
  BY <1>0, <1>3, <1>6, CopyToIs
<1>8. Len(cut) >= h /\ \A i \in 1..h : cut[i] = raw[i]
  <2>1. ASSUME NEW i \in 1..h PROVE cut[i] = raw[i]
    <3>1. i \in 1..Len(mem) /\ i \in 1..len /\ ~(i > s)
      BY <1>0, <1>2, <1>3, <1>4
    <3> QED
      BY <1>0, <1>7, <3>1
  <2> QED
    BY <1>0, <1>2, <1>3, <1>4, <1>7, <2>1
<1> HIDE DEF cut
<1>9. LessBy(raw, n, h, cut, new)
  BY <1>0, <1>2, <1>5, <1>7, <1>8, ResizeLess
<1>10. /\ new \in Seq(Byte) /\ Len(new) = Len(mem)
       /\ \A i \in 1..Len(mem) : i > h => new[i] = cut[i]
  BY <1>7, <1>9 DEF LessBy
<1>11. m = s + (len - e)
  BY <1>0, <1>3
<1> HIDE DEF new, m
<1>12. \A i \in 1..Len(mem) : i > h => new[i] = CopyTo(mem, s, SubSeq(mem, e + 1, len))[i]
  BY <1>10 DEF cut, tail
<1>13. /\ d \in Seq(Byte) /\ m \in Nat /\ h <= m /\ Len(d) = m
       /\ \A i \in 1..m : d[i] = new[i]
       /\ Cut(d, raw, h, s, e)
  BY <1>2, <1>3, <1>4, <1>10, <1>11, <1>12, CutBytes
<1> HIDE DEF d
<1>14. ReadMapHeaderBytes(d) = Ok(n - 1, h)
  <2>1. Len(d) >= h /\ \A i \in 1..h : d[i] = new[i]
    BY <1>2, <1>13
  <2> QED
    BY <1>9, <1>13, <2>1 DEF LessBy
<1>15. d = SubSeq(resizeMap(CopyTo(mem, l.kstart, SubSeq(mem, l.end + 1, len))), 1,
                  len - (l.end - l.kstart))
  BY <1>1 DEF d, m, new, cut, tail
<1> QED
  BY <1>13, <1>14, <1>15, Zenon DEF n, h, s, e

-----------------------------------------------------------------------------
(* The messages that are given as whole maps hold the pairs they are given *)
(* with, and what is put in is one object.                                 *)
MessagesHold == \A m \in Messages : m.good => Holds(m.bytes, m.pairs)
ValsAreObjects == \A v \in Vals : IsObject(v)

(* The inductive invariant: as long as ref applies, the slice is the map   *)
(* of ref, and what Locate returned last is the value of one of its pairs. *)
HeldAt(at) ==
  \/ held.start = held.end
  \/ \E j \in 1..Len(ref) :
       held.start = at[j - 1] + Key(raw, at[j - 1]).n /\ held.end = at[j]
IsMap == \E at : Laid(raw, ref, at) /\ HeldAt(at)
MapInv ==
  /\ Fits
  /\ ref \in Seq(Pair)
  /\ known => IsMap
  /\ LocateFinds
  /\ HasKeyFirst

LEMMA InitMap ==
  ASSUME MessagesHold, Init
  PROVE  MapInv
<1>1. PICK m \in Messages, s \in Spare :
        /\ mem = m.bytes \o [i \in 1..s |-> 193] /\ len = Len(m.bytes)
        /\ ref = m.pairs /\ known = m.good /\ held = Nothing
        /\ op = [op |-> "none", key |-> <<>>, ans |-> <<>>]
  BY DEF Init
<1> DEFINE b == m.bytes
           fill == [i \in 1..s |-> 193]
<1>2. b \in Seq(Byte) /\ s \in Nat /\ Len(b) \in Nat /\ ref \in Seq(Pair)
  BY <1>1, EditAssumption, LenProperties
<1>3. fill \in Seq(Byte)
  <2>1. 193 \in Byte
    BY DEF Byte
  <2> QED
    BY <1>2, <2>1
<1>4. mem = b \o fill
  BY <1>1
<1>5. Fits
  BY InitFits
<1> HIDE DEF b, fill
<1>6. raw = b
  <2>1. raw \in Seq(Byte) /\ Len(raw) = len /\ \A i \in 1..len : raw[i] = mem[i]
    BY <1>5, RawIs
  <2>2. \A i \in 1..Len(b) : mem[i] = b[i]
    BY <1>2, <1>3, <1>4, ConcatIs
  <2>3. len = Len(b)
    BY <1>1 DEF b
  <2>4. Len(raw) = Len(b) /\ \A i \in 1..Len(b) : raw[i] = b[i]
    BY <2>1, <2>2, <2>3
  <2> QED
    BY <1>2, <2>1, <2>4, SeqEqual
<1>7. known => IsMap
  <2> SUFFICES ASSUME known PROVE IsMap
    OBVIOUS
  <2>1. Holds(b, ref)
    BY <1>1 DEF MessagesHold, b
  <2>2. PICK at \in [0..Len(ref) -> Nat] : Marked(b, ref, at)
    BY <2>1 DEF Holds
  <2>3. Laid(raw, ref, at)
    BY <1>2, <1>6, <2>2 DEF Laid
  <2>4. HeldAt(at)
    BY <1>1 DEF HeldAt, Nothing
  <2> QED
    BY <2>3, <2>4 DEF IsMap
<1>8. LocateFinds /\ HasKeyFirst
  BY <1>1 DEF LocateFinds, HasKeyFirst
<1> QED
  BY <1>2, <1>5, <1>7, <1>8 DEF MapInv

(* First(key) has one member, or none.                                     *)
LEMMA FirstIs ==
  ASSUME ref \in Seq(Pair), NEW key
  PROVE  /\ \A f : FirstAt(ref, key, f) => First(key) = {f} /\ f \in DOMAIN ref
         /\ (\A i \in 1..Len(ref) : ref[i][1] # key) => First(key) = {}
<1>1. Len(ref) \in Nat /\ DOMAIN ref = 1..Len(ref)
  BY LenProperties
<1>2. ASSUME NEW f, FirstAt(ref, key, f) PROVE First(key) = {f} /\ f \in DOMAIN ref
  <2>1. f \in 1..Len(ref) /\ ref[f][1] = key /\ \A i \in 1..f - 1 : ref[i][1] # key
    BY <1>2 DEF FirstAt
  <2>2. f \in First(key)
    BY <1>1, <2>1 DEF First
  <2>3. ASSUME NEW i \in First(key) PROVE i = f
    <3>1. i \in 1..Len(ref) /\ ref[i][1] = key /\ \A j \in 1..i - 1 : ref[j][1] # key
      BY <1>1 DEF First
    <3>2. ~(i < f)
      <4>1. i < f => i \in 1..f - 1
        BY <1>1, <2>1, <3>1
      <4> QED
        BY <2>1, <3>1, <4>1
    <3>3. ~(f < i)
      <4>1. f < i => f \in 1..i - 1
        BY <1>1, <2>1, <3>1
      <4> QED
        BY <2>1, <3>1, <4>1
    <3> QED
      BY <1>1, <2>1, <3>1, <3>2, <3>3
  <2> QED
    BY <1>1, <2>1, <2>2, <2>3
<1>3. ASSUME \A i \in 1..Len(ref) : ref[i][1] # key PROVE First(key) = {}
  BY <1>1, <1>3 DEF First
<1> QED
  BY <1>2, <1>3

(* What locate answers for the slice, in terms of ref.                     *)
LEMMA LocateRef ==
  ASSUME MapInv, NEW at, Laid(raw, ref, at), NEW key
  PROVE  \/ First(key) = {} /\ locate(raw, key) = NotFound
         \/ \E f \in 1..Len(ref) :
              /\ First(key) = {f} /\ FirstAt(ref, key, f)
              /\ locate(raw, key) = FoundAt(raw, at, f)
<1>1. ref \in Seq(Pair)
  BY DEF MapInv
<1>2. CASE /\ \A i \in 1..Len(ref) : ref[i][1] # key
           /\ locate(raw, key) = NotFound
  BY <1>1, <1>2, FirstIs
<1>3. CASE \E f \in 1..Len(ref) :
             FirstAt(ref, key, f) /\ locate(raw, key) = FoundAt(raw, at, f)
  BY <1>1, <1>3, FirstIs
<1> QED
  BY <1>2, <1>3, LocateLaid

-----------------------------------------------------------------------------
LEMMA LocateStep ==
  ASSUME MapInv, NEW key, Locate(key), Fits'
  PROVE  MapInv'
<1> DEFINE l == locate(raw, key)
<1>1. /\ op' = [op |-> "Locate", key |-> key, ans |-> SubSeq(raw, l.start + 1, l.end)]
      /\ held' = [start |-> l.start, end |-> l.end]
      /\ mem' = mem /\ len' = len /\ ref' = ref /\ known' = known
  BY DEF Locate, Counts
<1>2. raw' = raw /\ ref' \in Seq(Pair) /\ First(key)' = First(key)
  BY <1>1 DEF raw, MapInv, First
<1>3. HasKeyFirst'
  BY <1>1 DEF HasKeyFirst
<1>4. ASSUME known
      PROVE  /\ IsMap'
             /\ op'.ans = IF First(key) = {} THEN <<>>
                          ELSE ref[CHOOSE i \in First(key) : TRUE][2]
  <2>1. PICK at : Laid(raw, ref, at)
    BY <1>4 DEF MapInv, IsMap
  <2>2. CASE First(key) = {} /\ l = NotFound
    <3>1. l.start = 0 /\ l.end = 0
      BY <2>2 DEF NotFound
    <3>2. op'.ans = <<>>
      <4>1. op'.ans = SubSeq(raw, 0 + 1, 0)
        BY <1>1, <3>1
      <4>2. raw \in Seq(Byte) /\ 0 <= Len(raw)
        BY RawIs DEF MapInv, Fits
      <4> QED
        BY <4>1, <4>2, SMT
    <3>3. IsMap'
      <4>1. held'.start = held'.end
        BY <1>1, <3>1
      <4> QED
        BY <1>1, <1>2, <2>1, <4>1 DEF IsMap, HeldAt
    <3> QED
      BY <2>2, <3>2, <3>3
  <2>3. ASSUME NEW f \in 1..Len(ref), First(key) = {f}, l = FoundAt(raw, at, f)
        PROVE  /\ IsMap'
               /\ op'.ans = ref[CHOOSE i \in First(key) : TRUE][2] /\ First(key) # {}
    <3>1. l.start = at[f - 1] + Key(raw, at[f - 1]).n /\ l.end = at[f]
      BY <2>3 DEF FoundAt
    <3>2. PairAt(raw, at[f - 1], ref[f], at[f])
      BY <2>1, LaidPair
    <3>3. SubSeq(raw, at[f - 1] + Key(raw, at[f - 1]).n + 1, at[f]) = ref[f][2]
      BY <3>2, PairReads
    <3>4. op'.ans = ref[f][2]
      BY <1>1, <3>1, <3>3
    <3>5. (CHOOSE i \in First(key) : TRUE) = f
      BY <2>3
    <3>6. held'.start = at[f - 1] + Key(raw, at[f - 1]).n /\ held'.end = at[f]
      BY <1>1, <3>1
    <3>7. IsMap'
      BY <1>1, <1>2, <2>1, <3>6 DEF IsMap, HeldAt
    <3> QED
      BY <2>3, <3>4, <3>5, <3>7
  <2> QED
    BY <2>1, <2>2, <2>3, LocateRef
<1>5. LocateFinds'
  <2>1. op'.key = key
    BY <1>1
  <2> QED
    BY <1>1, <1>2, <1>4, <2>1 DEF LocateFinds
<1> QED
  BY <1>1, <1>2, <1>3, <1>4, <1>5 DEF MapInv

LEMMA HasKeyStep ==
  ASSUME MapInv, NEW key, CallHasKey(key), Fits'
  PROVE  MapInv'
<1> DEFINE yes == HasKey(key, raw)
<1>1. /\ op' = [op |-> "HasKey", key |-> key, ans |-> <<IF yes THEN 1 ELSE 0>>]
      /\ mem' = mem /\ len' = len /\ held' = held /\ ref' = ref /\ known' = known
  BY DEF CallHasKey, Counts
<1>2. raw' = raw /\ ref' \in Seq(Pair) /\ First(key)' = First(key)
  BY <1>1 DEF raw, MapInv, First
<1>3. LocateFinds'
  BY <1>1 DEF LocateFinds
<1>4. known' => IsMap'
  BY <1>1, <1>2 DEF MapInv, IsMap, HeldAt
<1>5. ASSUME known, Len(ref) <= 1 \/ ref[1][1] = key
      PROVE  yes <=> First(key) # {}
  <2>0. ref \in Seq(Pair) /\ Len(ref) \in Nat /\ DOMAIN ref = 1..Len(ref)
    BY LenProperties DEF MapInv
  <2>1. PICK at : Laid(raw, ref, at)
    BY <1>5 DEF MapInv, IsMap
  <2> HIDE DEF yes
  <2>2. /\ Len(ref) = 0 => ~yes
        /\ Len(ref) >= 1 /\ ref[1][1] = key => yes
        /\ Len(ref) = 1 /\ ref[1][1] # key => ~yes
    BY <2>1, HasLaid DEF yes
  <2>3. Len(ref) = 0 => First(key) = {}
    BY <2>0 DEF First
  <2>4. Len(ref) >= 1 /\ ref[1][1] = key => 1 \in First(key)
    BY <2>0 DEF First
  <2>5. Len(ref) = 1 /\ ref[1][1] # key => First(key) = {}
    BY <2>0 DEF First
  <2>6. Len(ref) = 0 \/ Len(ref) = 1 \/ (Len(ref) >= 1 /\ ref[1][1] = key)
    BY <1>5, <2>0
  <2> QED
    BY <2>2, <2>3, <2>4, <2>5, <2>6
<1> HIDE DEF yes
<1>6. HasKeyFirst'
  <2>1. op'.key = key /\ op'.ans = <<IF yes THEN 1 ELSE 0>>
    BY <1>1
  <2> QED
    BY <1>1, <1>2, <1>5, <2>1 DEF HasKeyFirst
<1> QED
  BY <1>2, <1>3, <1>4, <1>6 DEF MapInv

(* Edits say nothing of the answers of Locate and HasKey.                  *)
LEMMA EditAnswers ==
  ASSUME op'.op \in {"Replace", "CopyReplace", "Remove"}
  PROVE  LocateFinds' /\ HasKeyFirst'
BY DEF LocateFinds, HasKeyFirst

LEMMA Untouched ==
  ASSUME MapInv, UNCHANGED <<mem, len, held, ref, known>>,
         op'.op \in {"Replace", "CopyReplace", "Remove"}
  PROVE  MapInv'
<1>1. LocateFinds' /\ HasKeyFirst'
  BY EditAnswers
<1>2. raw' = raw /\ (known' => IsMap')
  BY DEF MapInv, IsMap, HeldAt, raw
<1> QED
  BY <1>1, <1>2 DEF MapInv, Fits

-----------------------------------------------------------------------------
(* What replace is given: the place of a value, and an object.             *)
Fitting(w, l) ==
  /\ w.start = l.start /\ w.end = l.end
  /\ \/ w.alias = FALSE /\ IsObject(w.bytes)
     \/ w.alias = TRUE /\ w.from = held.start /\ w.to = held.end /\ held.start < held.end

(* The value that is put in is one object.                                 *)
LEMMA GivenObject ==
  ASSUME MapInv, NEW at, Laid(raw, ref, at), HeldAt(at), NEW w, NEW l,
         Argument(w), Fitting(w, l)
  PROVE  Skipped(Given(w), 0, 1, Len(Given(w)))
<1>1. CASE w.alias = FALSE /\ IsObject(w.bytes)
  <2>1. Given(w) = w.bytes
    BY <1>1 DEF Given
  <2> QED
    BY <1>1, <2>1 DEF IsObject, Skip, Skipped
<1>2. CASE w.alias = TRUE /\ w.from = held.start /\ w.to = held.end /\ held.start < held.end
  <2> DEFINE s == held.start
             e == held.end
             v == Given(w)
             n == e - s
  <2>0. /\ mem \in Seq(Byte) /\ len \in Nat /\ Len(mem) \in Nat /\ len <= Len(mem)
        /\ raw \in Seq(Byte) /\ Len(raw) = len /\ \A i \in 1..len : raw[i] = mem[i]
        /\ s \in Nat /\ e \in Nat /\ s < e /\ e <= len
    BY <1>2, RawIs DEF MapInv, Fits
  <2>1. v = SubSeq(mem, s + 1, e)
    BY <1>2 DEF Given
  <2>2. s # e
    BY <2>0
  <2>3. PICK j \in 1..Len(ref) : s = at[j - 1] + Key(raw, at[j - 1]).n /\ e = at[j]
    BY <2>2 DEF HeldAt
  <2>4. PairAt(raw, at[j - 1], ref[j], at[j])
    BY LaidPair
  <2>5. Skipped(raw, s, 1, e)
    BY <2>3, <2>4, PairReads
  <2> HIDE DEF s, e, v
  <2>6. s <= e /\ e <= Len(mem) /\ n \in Nat /\ s + n = e /\ 0 + n = n
    BY <2>0
  <2>7. v \in Seq(Byte) /\ Len(v) = n /\ \A i \in 1..n : v[i] = mem[s + i]
    BY <2>0, <2>1, <2>6, Piece
  <2> HIDE DEF n
  <2>8. Same(raw, s, v, 0, n)
    <3>1. ASSUME NEW k \in 1..n PROVE v[0 + k] = raw[s + k]
      <4>1. 0 + k = k /\ s + k \in 1..len
        BY <2>0, <2>6
      <4> QED
        BY <2>0, <2>7, <4>1
    <3> QED
      BY <2>0, <2>6, <2>7, <3>1 DEF Same
  <2>9. Skipped(raw, s, 1, s + n)
    BY <2>5, <2>6
  <2> DEFINE z == 0
  <2> HIDE DEF z
  <2>10. z \in Nat /\ Same(raw, s, v, z, n) /\ z + n = n
    BY <2>6, <2>8 DEF z
  <2>11. Skipped(v, z, 1, z + n)
    BY <2>0, <2>6, <2>7, <2>9, <2>10, ValueMoves
  <2> QED
    BY <2>7, <2>10, <2>11 DEF v, z
<1> QED
  BY <1>1, <1>2 DEF Fitting

(* A value that ends behind the one it replaces lies behind it: an edit    *)
(* that Overwritten does not name leaves it in place until it is copied.   *)
LEMMA NotOverwritten ==
  ASSUME MapInv, NEW at, Laid(raw, ref, at), HeldAt(at), NEW w, NEW f \in 1..Len(ref),
         Fitting(w, FoundAt(raw, at, f)), NEW inplace, ~(inplace /\ Overwritten(w)),
         inplace, w.alias, w.to > w.end
  PROVE  LET extra == (w.to - w.from) - (w.end - w.start) IN
         ~(extra > 0 /\ extra < Len(mem) - len)
<1>1. /\ w.end = at[f] /\ w.from = held.start /\ w.to = held.end /\ held.start < held.end
      /\ held.start \in Nat /\ held.end \in Nat
  BY DEF Fitting, FoundAt, MapInv, Fits
<1>2. PICK j \in 1..Len(ref) :
        held.start = at[j - 1] + Key(raw, at[j - 1]).n /\ held.end = at[j]
  BY <1>1 DEF HeldAt
<1>3. Len(ref) \in Nat /\ \A k \in 0..Len(ref) : at[k] \in Nat
  BY LaidOut
<1> DEFINE q == j - 1
           x == Key(raw, at[q]).n
<1>4. x \in Nat /\ held.start = at[q] + x
  BY <1>2, LaidPair
<1>5. q \in 0..Len(ref) /\ f \in 0..Len(ref) /\ j \in 0..Len(ref) /\ j = q + 1
  BY <1>3
<1> HIDE DEF q, x
<1>6. at[j] > at[f] /\ at[f] \in Nat /\ at[j] \in Nat /\ at[q] \in Nat
  BY <1>1, <1>2, <1>3, <1>5
<1>7. f <= q
  <2>1. CASE j <= f
    <3>1. at[j] <= at[f]
      BY <1>5, <2>1, MarksRise
    <3> QED
      BY <1>6, <3>1
  <2>2. CASE ~(j <= f)
    BY <1>3, <1>5, <2>2
  <2> QED
    BY <2>1, <2>2
<1>8. at[f] <= at[q]
  BY <1>5, <1>7, MarksRise
<1>9. w.from >= w.end
  BY <1>1, <1>4, <1>6, <1>8
<1> QED
  BY <1>9 DEF Overwritten

LEMMA PutStep ==
  ASSUME MapInv, NEW key \in Seq(Byte), NEW o \in {"Replace", "CopyReplace"}, NEW w,
         Put(o, key, w), Fits',
         locate(raw, key).start # locate(raw, key).end =>
           Argument(w) /\ Fitting(w, locate(raw, key))
  PROVE  MapInv'
<1> DEFINE l == locate(raw, key)
           inplace == (o = "Replace")
           new == replace(w, inplace)
           val == Given(w)
<1>0. op'.op = o
  BY DEF Put, Counts
<1>1. CASE l.start = l.end
  <2>1. UNCHANGED <<mem, len, held, ref, known>>
    BY <1>1 DEF Put
  <2> QED
    BY <1>0, <2>1, Untouched
<1>2. CASE l.start # l.end
  <2>1. /\ mem' = new.mem /\ len' = new.len /\ held' = Nothing
        /\ ref' = [i \in DOMAIN ref |-> IF i \in First(key) THEN <<key, val>> ELSE ref[i]]
        /\ known' = (known /\ ~(inplace /\ Overwritten(w)))
    BY <1>2 DEF Put, Given
  <2>2. Argument(w) /\ Fitting(w, l)
    BY <1>2
  <2>3. val \in Seq(Byte)
    <3>1. Fits /\ mem \in Seq(Byte) /\ len <= Len(mem)
      BY DEF MapInv, Fits
    <3> QED
      BY <2>2, <3>1, GivenIs DEF Given
  <2> HIDE DEF val, new
  <2>4. ref \in Seq(Pair) /\ Len(ref) \in Nat /\ DOMAIN ref = 1..Len(ref)
    BY LenProperties DEF MapInv
  <2>5. ref' \in Seq(Pair)
    <3>1. <<key, val>> \in Pair
      BY <2>3 DEF Pair
    <3>2. \A i \in 1..Len(ref) : ref[i] \in Pair
      BY <2>4, ElementOfSeq
    <3>3. \A i \in 1..Len(ref) : (IF i \in First(key) THEN <<key, val>> ELSE ref[i]) \in Pair
      BY <3>1, <3>2
    <3> DEFINE T(i) == IF i \in First(key) THEN <<key, val>> ELSE ref[i]
    <3>4. ref' = [i \in 1..Len(ref) |-> T(i)] /\ \A i \in 1..Len(ref) : T(i) \in Pair
      BY <2>1, <2>4, <3>3
    <3> HIDE DEF T
    <3> QED
      BY <2>4, <3>4
  <2>6. ASSUME known' PROVE IsMap'
    <3>1. known /\ ~(inplace /\ Overwritten(w))
      BY <2>1, <2>6
    <3>2. PICK at : Laid(raw, ref, at) /\ HeldAt(at)
      BY <3>1 DEF MapInv, IsMap
    <3>3. PICK f \in 1..Len(ref) :
            First(key) = {f} /\ FirstAt(ref, key, f) /\ l = FoundAt(raw, at, f)
      <4>1. l # NotFound
        BY <1>2 DEF NotFound
      <4> QED
        BY <3>2, <4>1, LocateRef
    <3>4. Skipped(val, 0, 1, Len(val))
      BY <2>2, <3>2, GivenObject DEF val
    <3>5. inplace /\ w.alias /\ w.to > w.end =>
            LET extra == (w.to - w.from) - (w.end - w.start) IN
            ~(extra > 0 /\ extra < Len(mem) - len)
      BY <2>2, <3>1, <3>2, <3>3, NotOverwritten
    <3>6. Splices(new.mem, new.len, w)
      <4>1. Fits
        BY DEF MapInv
      <4> HIDE DEF inplace
      <4> QED
        BY <2>2, <3>5, <4>1, ReplaceSplices DEF new
    <3> DEFINE d == SubSeq(new.mem, 1, new.len)
    <3>7. d \in Seq(Byte) /\ Spliced(d, raw, w.start, w.end, val)
      BY <2>2, <3>6, SplicesRaw DEF MapInv, val
    <3>8. w.start = at[f - 1] + Key(raw, at[f - 1]).n /\ w.end = at[f]
      BY <2>2, <3>3 DEF Fitting, FoundAt
    <3> HIDE DEF d
    <3>9. Spliced(d, raw, at[f - 1] + Key(raw, at[f - 1]).n, at[f], val)
      BY <3>7, <3>8
    <3>10. PICK to : Laid(d, Put1(ref, f, val), to)
      BY <2>3, <3>2, <3>4, <3>7, <3>9, PutLaid
    <3>11. ref' = Put1(ref, f, val)
      <4>1. ref[f][1] = key
        BY <3>3 DEF FirstAt
      <4> QED
        BY <2>1, <2>4, <3>3, <4>1 DEF Put1
    <3>12. raw' = d
      BY <2>1 DEF raw, d
    <3>13. held'.start = held'.end
      BY <2>1 DEF Nothing
    <3> QED
      BY <3>10, <3>11, <3>12, <3>13 DEF IsMap, HeldAt
  <2>7. LocateFinds' /\ HasKeyFirst'
    BY <1>0, EditAnswers
  <2> QED
    BY <2>5, <2>6, <2>7 DEF MapInv
<1> QED
  BY <1>1, <1>2

LEMMA RemoveStep ==
  ASSUME MapInv, NEW key, Remove(key), Fits'
  PROVE  MapInv'
<1> DEFINE l == locate(raw, key)
           new == resizeMap(CopyTo(mem, l.kstart, SubSeq(mem, l.end + 1, len)))
           m == len - (l.end - l.kstart)
<1>0. op'.op = "Remove"
  BY DEF Remove, Counts
<1>1. CASE l.start = l.end
  <2>1. UNCHANGED <<mem, len, held, ref, known>>
    BY <1>1 DEF Remove
  <2> QED
    BY <1>0, <2>1, Untouched
<1>2. CASE l.start # l.end
  <2>1. /\ mem' = new /\ len' = m /\ held' = Nothing /\ known' = known
        /\ ref' = [i \in 1..Len(ref) - 1 |->
                     IF \E j \in First(key) : i >= j THEN ref[i + 1] ELSE ref[i]]
    BY <1>2 DEF Remove
  <2> HIDE DEF new, m
  <2>2. ref \in Seq(Pair) /\ Len(ref) \in Nat /\ DOMAIN ref = 1..Len(ref)
    BY LenProperties DEF MapInv
  <2>3. ref' \in Seq(Pair)
    <3>1. \A i \in 1..Len(ref) : ref[i] \in Pair
      BY <2>2, ElementOfSeq
    <3>2. ASSUME NEW i \in 1..Len(ref) - 1
          PROVE  (IF \E j \in First(key) : i >= j THEN ref[i + 1] ELSE ref[i]) \in Pair
      <4>1. i \in 1..Len(ref) /\ i + 1 \in 1..Len(ref)
        BY <2>2
      <4> QED
        BY <3>1, <4>1
    <3> DEFINE T(i) == IF \E j \in First(key) : i >= j THEN ref[i + 1] ELSE ref[i]
    <3>3. ref' = [i \in 1..Len(ref) - 1 |-> T(i)] /\ \A i \in 1..Len(ref) - 1 : T(i) \in Pair
      BY <2>1, <3>2
    <3> HIDE DEF T
    <3>4. CASE Len(ref) = 0
      <4>1. 1..Len(ref) - 1 = 1..0 /\ 0 \in Nat
        BY <3>4
      <4>2. ref' = [i \in 1..0 |-> T(i)] /\ \A i \in 1..0 : T(i) \in Pair
        BY <3>3, <4>1
      <4> QED
        BY <4>2
    <3>5. CASE Len(ref) # 0
      <4>1. Len(ref) - 1 \in Nat
        BY <2>2, <3>5
      <4> QED
        BY <3>3, <4>1
    <3> QED
      BY <3>4, <3>5
  <2>4. ASSUME known' PROVE IsMap'
    <3>1. PICK at : Laid(raw, ref, at) /\ HeldAt(at)
      BY <2>1, <2>4 DEF MapInv, IsMap
    <3>2. PICK f \in 1..Len(ref) :
            First(key) = {f} /\ FirstAt(ref, key, f) /\ l = FoundAt(raw, at, f)
      <4>1. l # NotFound
        BY <1>2 DEF NotFound
      <4> QED
        BY <3>1, <4>1, LocateRef
    <3> DEFINE d == SubSeq(new, 1, m)
    <3>3. /\ d \in Seq(Byte) /\ ReadMapHeaderBytes(d) = Ok(Len(ref) - 1, at[0])
          /\ Cut(d, raw, at[0], at[f - 1], at[f])
      <4>1. Fits
        BY DEF MapInv
      <4> HIDE DEF l
      <4> QED
        BY <3>1, <3>2, <4>1, RemoveCuts DEF new, m
    <3> HIDE DEF d
    <3>4. PICK to : Laid(d, Remove1(ref, f), to)
      BY <3>1, <3>3, CutLaid
    <3>5. ref' = Remove1(ref, f)
      <4>1. \A i : (\E j \in First(key) : i >= j) <=> i >= f
        BY <3>2
      <4> QED
        BY <2>1, <4>1, Zenon DEF Remove1
    <3>6. raw' = d
      BY <2>1 DEF raw, d
    <3>7. held'.start = held'.end
      BY <2>1 DEF Nothing
    <3> QED
      BY <3>4, <3>5, <3>6, <3>7 DEF IsMap, HeldAt
  <2>5. LocateFinds' /\ HasKeyFirst'
    BY <1>0, EditAnswers
  <2> QED
    BY <2>3, <2>4, <2>5 DEF MapInv
<1> QED
  BY <1>1, <1>2

-----------------------------------------------------------------------------
LEMMA NextMap ==
  ASSUME ValsAreObjects, MapInv, [Next]_vars
  PROVE  MapInv'
<1>0. Fits /\ Fits'
  BY StepFits DEF MapInv
<1>1. CASE vars' = vars
  <2>1. UNCHANGED <<mem, len, held, ref, known, op>>
    BY <1>1 DEF vars
  <2>2. raw' = raw /\ (known' => IsMap')
    BY <2>1 DEF MapInv, IsMap, HeldAt, raw
  <2>3. LocateFinds' /\ HasKeyFirst'
    BY <2>1 DEF MapInv, LocateFinds, HasKeyFirst, First
  <2> QED
    BY <1>0, <2>1, <2>2, <2>3 DEF MapInv
<1>2. CASE Next
  <2>1. PICK key \in Keys :
          \/ Locate(key)
          \/ CallHasKey(key)
          \/ \E o \in {"Replace", "CopyReplace"} :
               ReplaceHeld(o, key) \/ \E v \in Vals : Replace(o, key, v)
          \/ Remove(key)
    BY <1>2 DEF Next
  <2>2. key \in Seq(Byte)
    BY EditAssumption
  <2> DEFINE l == locate(raw, key)
  <2>3. l.start # l.end =>
          l.start \in Nat /\ l.end \in Nat /\ l.start <= l.end /\ l.end <= len
    <3>1. raw \in Seq(Byte) /\ Len(raw) = len
      BY <1>0, RawIs
    <3>2. l.start = l.end \/ Within(l, ReadMapHeaderBytes(raw).n, len)
      BY <3>1, LocateBounds
    <3> QED
      BY <3>2 DEF Within
  <2> HIDE DEF l
  <2>4. ASSUME NEW o \in {"Replace", "CopyReplace"}, ReplaceHeld(o, key) PROVE MapInv'
    <3>1. Put(o, key, Shared(l)) /\ held.end > held.start
      BY <2>4 DEF ReplaceHeld, l
    <3>2. l.start # l.end => Argument(Shared(l)) /\ Fitting(Shared(l), l)
      <4>1. held.start < held.end
        BY <1>0, <3>1 DEF Fits
      <4> QED
        BY <1>0, <2>3, <4>1 DEF Argument, Shared, Fits, Fitting
    <3> QED
      BY <1>0, <2>2, <3>1, <3>2, PutStep DEF l
  <2>5. ASSUME NEW o \in {"Replace", "CopyReplace"}, NEW v \in Vals, Replace(o, key, v)
        PROVE  MapInv'
    <3>1. Put(o, key, Own(l, v))
      BY <2>5 DEF Replace, l
    <3>2. l.start # l.end => Argument(Own(l, v)) /\ Fitting(Own(l, v), l)
      BY <2>3, EditAssumption DEF Argument, Own, Fitting, ValsAreObjects
    <3> QED
      BY <1>0, <2>2, <3>1, <3>2, PutStep DEF l
  <2> QED
    BY <1>0, <2>1, <2>4, <2>5, LocateStep, HasKeyStep, RemoveStep
<1> QED
  BY <1>1, <1>2

LEMMA MapInvHolds ==
  ASSUME MessagesHold, ValsAreObjects
  PROVE  Spec => []MapInv
<1>1. Init => MapInv
  BY InitMap
<1>2. MapInv /\ [Next]_vars => MapInv'
  BY NextMap
<1> QED
  BY <1>1, <1>2, PTL DEF Spec

(* After any sequence of Locate, HasKey, Replace, CopyReplace and Remove,  *)
(* for messages with headers of every form, of any size and with any spare *)
(* capacity, the slice is exactly the encoding of the map the edits make   *)
(* of the first one.                                                       *)
THEOREM EditsAgree ==
  ASSUME MessagesHold, ValsAreObjects
  PROVE  Spec => []AgreesWithMap
<1>1. MapInv => AgreesWithMap
  <2> SUFFICES ASSUME MapInv, known
               PROVE  /\ Skip(raw, 0) = [end |-> len, err |-> "none"]
                      /\ PairsOf(raw) =
                           [i \in DOMAIN ref |-> <<AppendString(ref[i][1]), ref[i][2]>>]
    BY DEF AgreesWithMap
  <2>1. PICK at : Laid(raw, ref, at)
    BY DEF MapInv, IsMap
  <2>2. Len(raw) = len /\ DOMAIN ref = 1..Len(ref)
    BY RawIs, LenProperties DEF MapInv
  <2>3. Skip(raw, 0) = [end |-> len, err |-> "none"]
    BY <2>1, <2>2, LaidWhole DEF Skip, Skipped
  <2>4. PairsOf(raw) = [i \in 1..Len(ref) |-> <<AppendString(ref[i][1]), ref[i][2]>>]
    BY <2>1, PairsLaid
  <2> QED
    BY <2>2, <2>3, <2>4
<1> QED
  BY <1>1, MapInvHolds, PTL

(* Locate returns the value of the first pair with the key, and an empty   *)
(* slice without one, also after any edits before it.                      *)
THEOREM LocateIsRight ==
  ASSUME MessagesHold, ValsAreObjects
  PROVE  Spec => []LocateFinds
<1>1. MapInv => LocateFinds
  BY DEF MapInv
<1> QED
  BY <1>1, MapInvHolds, PTL

(* HasKey, which looks at the first objects of the map only, is right for  *)
(* the first key of a map and for every key of a map of at most one pair,  *)
(* whatever edits came before.                                             *)
THEOREM HasKeyIsRight ==
  ASSUME MessagesHold, ValsAreObjects
  PROVE  Spec => []HasKeyFirst
<1>1. MapInv => HasKeyFirst
  BY DEF MapInv
<1> QED
  BY <1>1, MapInvHolds, PTL
=============================================================================
