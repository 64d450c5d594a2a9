---------------------------- MODULE ReaderProofs ----------------------------
(***************************************************************************)
(* Proofs about the Reader of StreamReader, for every set of well-formed   *)
(* streams, cut short anywhere, every way they arrive in pieces and every  *)
(* sequence of calls.                                                      *)
(***************************************************************************)
EXTENDS StreamReader, WireProofs

-----------------------------------------------------------------------------
(* What a method may do with a window w that is not empty.                 *)

Leaves == MethodNames \ (Nested \cup Raws)

(* Methods that call no other and look at the prefix before they wait for  *)
(* more.                                                                   *)
Patient == Raws \cup {"ReadString", "ReadMapKeyPtr", "ReadInt64", "ReadUint64",
                      "ReadNil", "ReadBool"}

Z(w) == sizes[w[1]]
G(w) == SizedBy(Z(w), w)

(* It waits.                                                               *)
Asks(t) == t.do = "ask" /\ t.n \in Nat /\ t.n > 0 /\ t.e \in {"EOF", "unexpected", "short"}

(* It refuses the object and leaves it where it is.                        *)
Refuses(m, t) ==
  /\ t.do = "err" /\ t.n = 0 /\ t.e \in {"invalid", "short", "type", "array", "ext"}
  /\ m \in Raws => t.e \in {"invalid", "short"}

(* The prefix of an object is there.                                       *)
Whole(w) == Z(w).size > 0 /\ Complete(Z(w), w)

(* It fails inside the object, or behind one that is too large.            *)
Spoils(t, w) ==
  /\ t.do = "err" /\ Whole(w) /\ t.n \in Nat /\ t.n <= Len(w) /\ t.n <= G(w).v
  /\ \/ t.e = "short"
     \/ t.e = "overflow" /\ t.n = G(w).v /\ G(w).o = 0

(* It leaves the object to another method.                                 *)
Delegates(m, t) ==
  /\ t.do = "take" /\ t.n = 0 /\ t.body = 0
  /\ m \notin Patient
  /\ \E r \in MethodNames : t.kids = <<r>> /\ (m \notin Nested => r \in Leaves)

(* It takes the prefix and the body, and leaves the objects inside to      *)
(* other methods.                                                          *)
TakesObject(m, t, w) ==
  /\ t.do = "take" /\ Whole(w)
  /\ t.n \in Nat /\ t.body \in Nat /\ t.n <= Len(w) /\ t.n + t.body = G(w).v
  /\ t.as \in {"drain", "whole"}
  /\ t.kids \in Seq(MethodNames) /\ Len(t.kids) = G(w).o
  /\ m \in Raws => \A i \in 1..G(w).o : t.kids[i] = m
  /\ m \notin Nested \cup Raws => G(w).o = 0
  /\ m = "ReadFloat64" => t.body = 0

Does(m, t, w) ==
  \/ Asks(t)
  \/ m \notin Raws /\ Spoils(t, w)
  \/ Refuses(m, t)
  \/ Delegates(m, t)
  \/ TakesObject(m, t, w)

-----------------------------------------------------------------------------
(* The entry of the first byte, and the sizes it leads to.                 *)

LEMMA WindowEntry ==
  ASSUME NEW w \in Seq(Byte), w # <<>>
  PROVE  /\ w[1] \in Byte /\ Len(w) \in Nat /\ Len(w) >= 1 /\ Entry(w[1], Z(w))
         /\ Z(w).size \in Nat /\ Z(w).extra \in Int
<1>1. Len(w) \in Nat /\ Len(w) >= 1
  BY LenProperties, EmptySeq
<1>2. w[1] \in Byte
  BY <1>1, ElementOfSeq
<1>3. Entry(w[1], Z(w))
  BY <1>2, Entries DEF Z
<1> QED
  BY <1>1, <1>2, <1>3, EntryFacts

LEMMA WholeSizes ==
  ASSUME NEW w \in Seq(Byte), w # <<>>, Whole(w)
  PROVE  InRange(Z(w), G(w))
BY WindowEntry, SizedRange DEF Whole, G

LEMMA TimesIs ==
  ASSUME NEW k \in Nat, NEW m \in MethodNames
  PROVE  /\ Times(k, m) \in Seq(MethodNames) /\ Len(Times(k, m)) = k
         /\ \A i \in 1..k : Times(k, m)[i] = m
BY DEF Times

LEMMA NextSize ==
  ASSUME NEW w \in Seq(Byte), w # <<>>
  PROVE  \/ Asks(getNextSize(w))
         \/ getNextSize(w) = Err("invalid")
         \/ getNextSize(w) = Found(Z(w).size, G(w)) /\ Whole(w)
<1>1. getNextSize(w) = getNextSizeBy(Z(w), w)
  BY DEF getNextSize, Z
<1>2. CASE Z(w).size = 0
  BY <1>1, <1>2 DEF getNextSizeBy
<1>3. CASE Z(w).size > 0 /\ Z(w).extra < 0 /\ Len(w) < Z(w).size
  BY <1>1, <1>3, WindowEntry DEF getNextSizeBy, Asks, Ask
<1>4. CASE Z(w).size > 0 /\ ~(Z(w).extra < 0 /\ Len(w) < Z(w).size)
  <2>1. Whole(w)
    BY <1>4, WindowEntry DEF Whole, Complete
  <2> QED
    BY <1>1, <1>4, <2>1, WindowEntry DEF getNextSizeBy, G
<1> QED
  BY <1>2, <1>3, <1>4, WindowEntry

LEMMA SkipDoes ==
  ASSUME NEW w \in Seq(Byte), w # <<>>
  PROVE  Does("Skip", SkipNext(w), w)
<1>1. "Skip" \in Raws /\ "Skip" \in MethodNames
  BY DEF Raws, MethodNames
<1>2. ASSUME Whole(w) PROVE TakesObject("Skip", SkipBody(G(w)), w)
  <2>1. G(w).v \in Nat /\ G(w).o \in Nat
    BY <1>2, WholeSizes DEF InRange
  <2>2. /\ Times(G(w).o, "Skip") \in Seq(MethodNames)
        /\ Len(Times(G(w).o, "Skip")) = G(w).o
        /\ \A i \in 1..G(w).o : Times(G(w).o, "Skip")[i] = "Skip"
    BY <1>1, <2>1, TimesIs
  <2>3. Len(w) \in Nat
    BY LenProperties
  <2> QED
    BY <1>1, <1>2, <2>1, <2>2, <2>3 DEF TakesObject, SkipBody, Take
<1>3. ASSUME Len(w) >= 5 PROVE Does("Skip", SkipFast(w), w)
  <2> DEFINE f == SubSeq(w, 1, 5)
  <2>1. /\ f \in Seq(Byte) /\ Len(f) = 5 /\ Len(w) \in Nat
        /\ \A i \in 1..5 : f[i] = w[i]
    <3>1. Len(w) \in Nat /\ \A i \in 1..5 : w[i] \in Byte
      BY <1>3, LenProperties, ElementOfSeq
    <3> QED
      BY <3>1, SubSeqProperties
  <2> HIDE DEF f
  <2>2. f # <<>> /\ f[1] = w[1]
    <3>1. f = <<>> => Len(f) = 0
      BY EmptySeq
    <3> QED
      BY <2>1, <3>1
  <2>3. getSize(f) = getSizeBy(Z(w), f)
    BY <2>2 DEF getSize, Z
  <2>4. SkipFast(w) = IF getSize(f).err # "none" THEN Err(getSize(f).err)
                      ELSE SkipBody(getSize(f))
    BY DEF SkipFast, f
  <2>5. CASE Z(w).size = 0 \/ (Z(w).extra < 0 /\ 5 < Z(w).size)
    <3>1. getSize(f) = NoSize("invalid") \/ getSize(f) = NoSize("short")
      BY <2>1, <2>3, <2>5 DEF getSizeBy
    <3>2. SkipFast(w) = Err("invalid") \/ SkipFast(w) = Err("short")
      BY <2>4, <3>1 DEF NoSize
    <3> QED
      BY <3>2 DEF Does, Refuses, Err, TakeErr
  <2>6. CASE Z(w).size > 0 /\ ~(Z(w).extra < 0 /\ 5 < Z(w).size)
    <3>1. Complete(Z(w), f) /\ Complete(Z(w), w)
      BY <1>3, <2>1, <2>6, WindowEntry DEF Complete
    <3>2. getSize(f) = SizedBy(Z(w), f)
      BY <2>1, <2>3, <2>6, WindowEntry DEF getSizeBy
    <3>3. SizedBy(Z(w), f) = G(w)
      BY <1>3, <2>1, <3>1, WindowEntry, SizedSame DEF G
    <3>4. Whole(w)
      BY <2>6, <3>1 DEF Whole
    <3>5. G(w).err = "none"
      BY <3>4, WholeSizes DEF InRange
    <3> QED
      BY <1>2, <2>4, <3>2, <3>3, <3>4, <3>5 DEF Does
  <2> QED
    BY <2>5, <2>6, WindowEntry
<1>4. ASSUME ~(pc = "begin" /\ Len(w) >= 5) PROVE Does("Skip", SkipNext(w), w)
  <2>1. SkipNext(w) = IF getNextSize(w).do = "found" THEN SkipBody(getNextSize(w))
                      ELSE getNextSize(w)
    BY <1>4 DEF SkipNext
  <2>2. CASE Asks(getNextSize(w))
    BY <2>1, <2>2 DEF Asks, Does
  <2>3. CASE getNextSize(w) = Err("invalid")
    BY <2>1, <2>3 DEF Err, TakeErr, Does, Refuses
  <2>4. CASE getNextSize(w) = Found(Z(w).size, G(w)) /\ Whole(w)
    <3>1. SkipNext(w) = SkipBody(G(w))
      BY <2>1, <2>4 DEF Found, SkipBody
    <3> QED
      BY <1>2, <2>4, <3>1 DEF Does
  <2> QED
    BY <2>2, <2>3, <2>4, NextSize
<1>5. CASE pc = "begin" /\ Len(w) >= 5
  <2>1. SkipNext(w) = SkipFast(w)
    BY <1>5 DEF SkipNext
  <2> QED
    BY <1>3, <1>5, <2>1
<1> QED
  BY <1>4, <1>5

(* A method of Raws that takes a whole object.                             *)
LEMMA RawTakes ==
  ASSUME NEW w \in Seq(Byte), w # <<>>, Whole(w), NEW m \in Raws, NEW k, NEW n,
         k \in Nat, n \in Nat, k <= Len(w), k + n = G(w).v
  PROVE  Does(m, Take(k, n, Times(G(w).o, m)), w)
<1>1. G(w).v \in Nat /\ G(w).o \in Nat /\ m \in MethodNames /\ m # "ReadFloat64"
  BY WholeSizes DEF InRange, Raws, MethodNames
<1>2. /\ Times(G(w).o, m) \in Seq(MethodNames)
      /\ Len(Times(G(w).o, m)) = G(w).o
      /\ \A i \in 1..G(w).o : Times(G(w).o, m)[i] = m
  BY <1>1, TimesIs
<1> QED
  BY <1>1, <1>2 DEF TakesObject, Take, Does

LEMMA CopyDoes ==
  ASSUME NEW w \in Seq(Byte), w # <<>>, cap \in Nat
  PROVE  Does("CopyNext", CopyNext(w), w)
<1> DEFINE g == getNextSize(w)
<1>1. "CopyNext" \in Raws /\ Len(w) \in Nat
  BY LenProperties DEF Raws
<1>2. CopyNext(w) =
        IF g.do # "found" THEN g
        ELSE IF g.v > cap THEN Take(0, g.v, Times(g.o, "CopyNext"))
        ELSE IF Len(w) < g.v THEN Ask(g.v, "short")
        ELSE Take(g.v, 0, Times(g.o, "CopyNext"))
  BY DEF CopyNext
<1>3. Asks(g) \/ g = Err("invalid") \/ (g = Found(Z(w).size, G(w)) /\ Whole(w))
  BY NextSize
<1> HIDE DEF g
<1>4. CASE Asks(g)
  BY <1>2, <1>4 DEF Asks, Does
<1>5. CASE g = Err("invalid")
  BY <1>2, <1>5 DEF Err, TakeErr, Does, Refuses
<1>6. CASE g = Found(Z(w).size, G(w)) /\ Whole(w)
  <2>1. g.do = "found" /\ g.v = G(w).v /\ g.o = G(w).o
    BY <1>6 DEF Found
  <2>2. G(w).v \in Nat /\ G(w).v > 0
    BY <1>6, WholeSizes, WindowEntry DEF InRange, Whole
  <2>3. CASE G(w).v > cap
    <3>1. CopyNext(w) = Take(0, G(w).v, Times(G(w).o, "CopyNext"))
      BY <1>2, <2>1, <2>3
    <3>2. 0 + G(w).v = G(w).v /\ 0 <= Len(w)
      BY <1>1, <2>2
    <3> QED
      BY <1>1, <1>6, <2>2, <3>1, <3>2, RawTakes
  <2>4. CASE ~(G(w).v > cap) /\ Len(w) < G(w).v
    BY <1>2, <2>1, <2>2, <2>4 DEF Ask, Asks, Does
  <2>5. CASE ~(G(w).v > cap) /\ ~(Len(w) < G(w).v)
    <3>1. CopyNext(w) = Take(G(w).v, 0, Times(G(w).o, "CopyNext"))
      BY <1>2, <2>1, <2>5
    <3>2. G(w).v + 0 = G(w).v /\ G(w).v <= Len(w)
      BY <1>1, <2>2, <2>5
    <3> QED
      BY <1>1, <1>6, <2>2, <3>1, <3>2, RawTakes
  <2> QED
    BY <2>3, <2>4, <2>5
<1> QED
  BY <1>3, <1>4, <1>5, <1>6

LEMMA AppendDoes ==
  ASSUME NEW w \in Seq(Byte), w # <<>>
  PROVE  Does("appendNext", appendNext(w), w)
<1> DEFINE g == getNextSize(w)
<1>1. "appendNext" \in Raws /\ Len(w) \in Nat
  BY LenProperties DEF Raws
<1>2. appendNext(w) =
        IF g.do # "found" THEN g ELSE Take(0, g.v, Times(g.o, "appendNext"))
  BY DEF appendNext
<1>3. Asks(g) \/ g = Err("invalid") \/ (g = Found(Z(w).size, G(w)) /\ Whole(w))
  BY NextSize
<1> HIDE DEF g
<1>4. CASE Asks(g)
  BY <1>2, <1>4 DEF Asks, Does
<1>5. CASE g = Err("invalid")
  BY <1>2, <1>5 DEF Err, TakeErr, Does, Refuses
<1>6. CASE g = Found(Z(w).size, G(w)) /\ Whole(w)
  <2>1. g.do = "found" /\ g.v = G(w).v /\ g.o = G(w).o
    BY <1>6 DEF Found
  <2>2. G(w).v \in Nat
    BY <1>6, WholeSizes DEF InRange
  <2>3. appendNext(w) = Take(0, G(w).v, Times(G(w).o, "appendNext"))
    BY <1>2, <2>1
  <2>4. 0 + G(w).v = G(w).v /\ 0 <= Len(w)
    BY <1>1, <2>2
  <2> QED
    BY <1>1, <1>6, <2>2, <2>3, <2>4, RawTakes
<1> QED
  BY <1>3, <1>4, <1>5, <1>6

-----------------------------------------------------------------------------
(* Methods that want a prefix of their type.                               *)

LEMMA BadPrefix ==
  ASSUME NEW lead
  PROVE  badPrefix(lead) = Err("invalid") \/ badPrefix(lead) = Err("type")
BY DEF badPrefix

LEMMA ErrRefuses ==
  ASSUME NEW m \in MethodNames \ Raws, NEW w,
         NEW e \in {"invalid", "short", "type", "array", "ext"}
  PROVE  Does(m, Err(e), w)
BY DEF Does, Refuses, Err, TakeErr

LEMMA AskAsks ==
  ASSUME NEW m, NEW w, NEW k \in Nat, k > 0, NEW e \in {"EOF", "unexpected", "short"}
  PROVE  Does(m, Ask(k, e), w)
BY DEF Does, Asks, Ask

(* The whole of a value that holds no objects.                             *)
LEMMA LeafTakes ==
  ASSUME NEW w \in Seq(Byte), w # <<>>, Whole(w), G(w).o = 0, NEW m \in Leaves,
         NEW k \in Nat, NEW n \in Nat, k <= Len(w), k + n = G(w).v,
         m = "ReadFloat64" => n = 0
  PROVE  Does(m, Take(k, n, <<>>), w) /\ Does(m, TakeWhole(k, n), w)
<1>1. <<>> \in Seq(MethodNames) /\ Len(<<>>) = 0
  BY EmptySeq
<1>2. m \notin Raws
  BY DEF Leaves
<1> QED
  BY <1>1, <1>2 DEF TakesObject, Take, TakeWhole, Does

LEMMA HeaderIs ==
  ASSUME NEW w \in Seq(Byte), w # <<>>, NEW want, "invalid" \notin want
  PROVE  \/ Asks(Header(w, want))
         \/ Header(w, want) = Err("invalid") \/ Header(w, want) = Err("type")
         \/ \E h \in Nat : /\ Header(w, want) = Found(h, G(w))
                           /\ Whole(w) /\ Z(w).typ \in want
                           /\ h > 0 /\ h <= Len(w) /\ h <= G(w).v
                           /\ ~(w[1] \in 160..191) => h = Z(w).size
<1> DEFINE h == IF w[1] \in 160..191 THEN 1 ELSE Z(w).size
<1>1. Header(w, want) = HeaderBy(Z(w), w, want)
  BY DEF Header, Z
<1>2. HeaderBy(Z(w), w, want) =
        IF Z(w).typ \notin want THEN badPrefix(w[1])
        ELSE IF Len(w) < h THEN Ask(h, "unexpected")
        ELSE Found(h, G(w))
  BY DEF HeaderBy, G
<1>0. (w[1] \in 160..191 => h = 1) /\ (~(w[1] \in 160..191) => h = Z(w).size)
  OBVIOUS
<1> HIDE DEF h
<1>3. CASE Z(w).typ \notin want
  BY <1>1, <1>2, <1>3, BadPrefix
<1>4. ASSUME Z(w).typ \in want
      PROVE  /\ Z(w).size > 0 /\ h \in Nat /\ h > 0 /\ h <= Z(w).size
             /\ ~(w[1] \in 160..191) => h = Z(w).size
  <2>1. Z(w).size = 0 <=> Z(w).typ = "invalid"
    BY WindowEntry DEF Entry
  <2>2. Z(w).size \in Nat /\ Z(w).size > 0
    BY <1>4, <2>1, WindowEntry
  <2>3. \A x \in Nat : x > 0 => 1 <= x /\ x <= x
    OBVIOUS
  <2>4. 1 \in Nat /\ 1 > 0
    OBVIOUS
  <2> QED
    BY <1>0, <2>2, <2>3, <2>4, Zenon
<1>5. CASE Z(w).typ \in want /\ Len(w) < h
  <2>1. Header(w, want) = Ask(h, "unexpected")
    BY <1>1, <1>2, <1>5
  <2> QED
    BY <1>4, <1>5, <2>1 DEF Asks, Ask
<1>6. CASE Z(w).typ \in want /\ ~(Len(w) < h)
  <2>1. Complete(Z(w), w)
    <3>1. CASE w[1] \in 160..191
      <4>1. Z(w).extra = 0
        BY <3>1, WindowEntry DEF Entry
      <4> QED
        BY <4>1 DEF Complete
    <3>2. CASE ~(w[1] \in 160..191)
      <4>1. h = Z(w).size /\ h \in Nat
        BY <1>4, <1>6, <3>2
      <4>2. Len(w) >= Z(w).size
        BY <1>6, <4>1, WindowEntry
      <4> QED
        BY <4>2 DEF Complete
    <3> QED
      BY <3>1, <3>2
  <2>2. Whole(w)
    BY <1>4, <1>6, <2>1 DEF Whole
  <2>3. G(w).v \in Nat /\ G(w).v >= Z(w).size
    BY <2>2, WholeSizes DEF InRange
  <2>4. h <= Len(w) /\ h <= G(w).v
    BY <1>4, <1>6, <2>3, WindowEntry
  <2> QED
    BY <1>1, <1>2, <1>4, <1>6, <2>2, <2>4
<1> QED
  BY <1>3, <1>5, <1>6

LEMMA AskIs ==
  ASSUME NEW m, NEW w, NEW t, Asks(t)
  PROVE  Does(m, t, w) /\ t.do # "found"
BY DEF Does, Asks

LEMMA ErrIs ==
  ASSUME NEW e
  PROVE  Err(e).do = "err"
BY DEF Err, TakeErr

LEMMA FoundIs ==
  ASSUME NEW h, NEW g
  PROVE  Found(h, g).do = "found" /\ Found(h, g).h = h /\ Found(h, g).v = g.v
         /\ Found(h, g).o = g.o
BY DEF Found

(* ReadMapStrIntf and ReadArrayIntf take the prefix and leave the rest to  *)
(* other methods.                                                          *)
LEMMA MapDoes ==
  ASSUME NEW w \in Seq(Byte), w # <<>>
  PROVE  Does("ReadMapStrIntf", ReadMapStrIntf(w), w)
<1> DEFINE g == Header(w, {"map"})
           kids == [i \in 1..g.o |-> IF i % 2 = 1 THEN "ReadString" ELSE "ReadIntf"]
<1>1. ReadMapStrIntf(w) = IF g.do # "found" THEN g ELSE Take(g.h, 0, kids)
  BY DEF ReadMapStrIntf
<1>2. "ReadMapStrIntf" \in MethodNames \ Raws /\ "ReadMapStrIntf" \in Nested
  BY DEF MethodNames, Raws, Nested
<1>3. CASE Asks(g)
  BY <1>1, <1>3, AskIs
<1>4. CASE g = Err("invalid") \/ g = Err("type")
  BY <1>1, <1>2, <1>4, ErrIs, ErrRefuses
<1>5. ASSUME NEW h \in Nat, g = Found(h, G(w)), Whole(w), Z(w).typ \in {"map"},
             h <= Len(w), ~(w[1] \in 160..191) => h = Z(w).size
      PROVE  Does("ReadMapStrIntf", ReadMapStrIntf(w), w)
  <2>1. G(w).v = Z(w).size /\ G(w).o \in Nat /\ G(w).v \in Nat
    BY <1>5, WholeSizes DEF InRange
  <2>2. ~(w[1] \in 160..191)
    BY <1>5, WindowEntry DEF Entry
  <2>3. /\ kids \in Seq(MethodNames) /\ Len(kids) = G(w).o
    <3>1. g.o = G(w).o
      BY <1>5, FoundIs
    <3>2. "ReadString" \in MethodNames /\ "ReadIntf" \in MethodNames
      BY DEF MethodNames
    <3> QED
      BY <2>1, <3>1, <3>2
  <2>4. ReadMapStrIntf(w) = Take(h, 0, kids)
    BY <1>1, <1>5, FoundIs
  <2> HIDE DEF kids, g
  <2> QED
    BY <1>2, <1>5, <2>1, <2>2, <2>3, <2>4 DEF Does, TakesObject, Take
<1> QED
  BY <1>3, <1>4, <1>5, HeaderIs

LEMMA ArrayDoes ==
  ASSUME NEW w \in Seq(Byte), w # <<>>
  PROVE  Does("ReadArrayIntf", ReadArrayIntf(w), w)
<1> DEFINE g == Header(w, {"array"})
<1>1. ReadArrayIntf(w) = IF g.do # "found" THEN g ELSE Take(g.h, 0, Times(g.o, "ReadIntf"))
  BY DEF ReadArrayIntf
<1>2. "ReadArrayIntf" \in MethodNames \ Raws /\ "ReadArrayIntf" \in Nested
  BY DEF MethodNames, Raws, Nested
<1>3. CASE Asks(g)
  BY <1>1, <1>3, AskIs
<1>4. CASE g = Err("invalid") \/ g = Err("type")
  BY <1>1, <1>2, <1>4, ErrIs, ErrRefuses
<1>5. ASSUME NEW h \in Nat, g = Found(h, G(w)), Whole(w), Z(w).typ \in {"array"},
             h <= Len(w), ~(w[1] \in 160..191) => h = Z(w).size
      PROVE  Does("ReadArrayIntf", ReadArrayIntf(w), w)
  <2>1. G(w).v = Z(w).size /\ G(w).o \in Nat /\ G(w).v \in Nat
    BY <1>5, WholeSizes DEF InRange
  <2>2. ~(w[1] \in 160..191)
    BY <1>5, WindowEntry DEF Entry
  <2>3. /\ Times(G(w).o, "ReadIntf") \in Seq(MethodNames)
        /\ Len(Times(G(w).o, "ReadIntf")) = G(w).o
    <3>1. "ReadIntf" \in MethodNames
      BY DEF MethodNames
    <3> QED
      BY <2>1, <3>1, TimesIs
  <2>4. ReadArrayIntf(w) = Take(h, 0, Times(G(w).o, "ReadIntf"))
    BY <1>1, <1>5, FoundIs
  <2> HIDE DEF g
  <2> QED
    BY <1>2, <1>5, <2>1, <2>2, <2>3, <2>4 DEF Does, TakesObject, Take
<1> QED
  BY <1>3, <1>4, <1>5, HeaderIs

(* A string or a bin of which the prefix is taken first.                   *)
LEMMA StringDoes ==
  ASSUME NEW w \in Seq(Byte), w # <<>>, NEW m \in Leaves, m # "ReadFloat64",
         NEW want \in SUBSET {"str", "bin"}, NEW t,
         LET g == Header(w, want) IN
           \/ t = IF g.do # "found" THEN g ELSE Take(g.h, g.v - g.h, <<>>)
           \/ t = IF g.do # "found" THEN g
                  ELSE IF g.v = g.h THEN TakeErr(g.h, "short") ELSE TakeWhole(g.h, g.v - g.h)
  PROVE  Does(m, t, w)
<1> DEFINE g == Header(w, want)
<1>1. \/ t = IF g.do # "found" THEN g ELSE Take(g.h, g.v - g.h, <<>>)
      \/ t = IF g.do # "found" THEN g
             ELSE IF g.v = g.h THEN TakeErr(g.h, "short") ELSE TakeWhole(g.h, g.v - g.h)
  OBVIOUS
<1>2. m \in MethodNames \ Raws /\ m \notin Raws
  BY DEF Leaves
<1>3. CASE Asks(g)
  BY <1>1, <1>3, AskIs
<1>4. CASE g = Err("invalid") \/ g = Err("type")
  BY <1>1, <1>2, <1>4, ErrIs, ErrRefuses
<1>5. ASSUME NEW h \in Nat, g = Found(h, G(w)), Whole(w), Z(w).typ \in want,
             h <= Len(w), h <= G(w).v
      PROVE  Does(m, t, w)
  <2>1. G(w).v \in Nat /\ G(w).o = 0
    BY <1>5, WholeSizes DEF InRange, Fixeds
  <2>2. G(w).v - h \in Nat /\ h + (G(w).v - h) = G(w).v
    BY <1>5, <2>1
  <2>3. \/ t = Take(h, G(w).v - h, <<>>) \/ t = TakeErr(h, "short")
        \/ t = TakeWhole(h, G(w).v - h)
    BY <1>1, <1>5, FoundIs
  <2>4. CASE t = TakeErr(h, "short")
    BY <1>2, <1>5, <2>4 DEF TakeErr, Does, Spoils
  <2> QED
    BY <1>5, <2>1, <2>2, <2>3, <2>4, LeafTakes
<1>6. "invalid" \notin want
  OBVIOUS
<1> QED
  BY <1>3, <1>4, <1>5, <1>6, HeaderIs

LEMMA BytesDoes ==
  ASSUME NEW w \in Seq(Byte), w # <<>>, NEW m \in Leaves, m # "ReadFloat64"
  PROVE  Does(m, ReadBytes(w), w) /\ Does(m, ReadString(w), w)
<1> DEFINE g == Header(w, {"bin"})
           t == IF g.do # "found" THEN g ELSE Take(g.h, g.v - g.h, <<>>)
<1>1. Does(m, t, w)
  BY StringDoes
<1>2. ReadBytes(w) = IF Len(w) < 2 THEN Ask(2, "EOF") ELSE t
  BY DEF ReadBytes
<1>3. Does(m, ReadBytes(w), w)
  <2> HIDE DEF t
  <2> QED
    BY <1>1, <1>2, AskAsks
<1>4. Does(m, ReadString(w), w)
  <2> DEFINE u == LET k == Header(w, {"str"}) IN
                  IF k.do # "found" THEN k ELSE Take(k.h, k.v - k.h, <<>>)
  <2>1. Does(m, u, w)
    BY StringDoes
  <2>2. ReadString(w) = u
    BY DEF ReadString
  <2> QED
    BY <2>1, <2>2
<1> QED
  BY <1>3, <1>4

LEMMA KeyDoes ==
  ASSUME NEW w \in Seq(Byte), w # <<>>
  PROVE  /\ Does("ReadMapKey", ReadMapKey(w), w)
         /\ Does("ReadMapKeyPtr", ReadMapKeyPtr(w), w)
<1>1. /\ "ReadMapKey" \in Leaves /\ "ReadMapKeyPtr" \in Leaves /\ "ReadBytes" \in Leaves
      /\ "ReadMapKey" \notin Patient /\ "ReadBytes" \in MethodNames
  BY DEF Leaves, MethodNames, Nested, Raws, Patient
<1>2. Does("ReadMapKey", Calls("ReadBytes"), w)
  BY <1>1 DEF Does, Delegates, Calls, Take
<1>3. Does("ReadMapKey", ReadMapKey(w), w)
  BY <1>1, <1>2, BytesDoes DEF ReadMapKey
<1> DEFINE u == LET g == Header(w, {"str", "bin"}) IN
                IF g.do # "found" THEN g
                ELSE IF g.v = g.h THEN TakeErr(g.h, "short") ELSE TakeWhole(g.h, g.v - g.h)
<1>4. Does("ReadMapKeyPtr", u, w)
  BY <1>1, StringDoes
<1>5. ReadMapKeyPtr(w) = u
  BY DEF ReadMapKeyPtr
<1> QED
  BY <1>3, <1>4, <1>5

LEMMA ExactDoes ==
  ASSUME NEW w \in Seq(Byte), w # <<>>
  PROVE  Does("ReadExactBytes", ReadExactBytes(w), w)
<1> DEFINE h == Z(w).size
           m == "ReadExactBytes"
<1>1. m \in Leaves /\ m \in MethodNames \ Raws /\ m # "ReadFloat64"
  BY DEF Leaves, MethodNames, Nested, Raws
<1>2. ReadExactBytes(w) =
        IF Len(w) < 2 THEN Ask(2, "EOF")
        ELSE IF Z(w).typ # "bin" THEN badPrefix(w[1])
        ELSE IF Len(w) < h THEN Ask(h, "EOF")
        ELSE IF G(w).v - h # ExactLen THEN Err("array")
        ELSE Take(h, ExactLen, <<>>)
  BY DEF ReadExactBytes, Z, G, getType, Sized
<1>3. ASSUME Z(w).typ = "bin" PROVE h > 0 /\ h \in Nat
  <2>1. h = 0 <=> Z(w).typ = "invalid"
    BY WindowEntry DEF Entry
  <2>2. h \in Nat /\ h # 0
    BY <1>3, <2>1, WindowEntry
  <2>3. \A x \in Nat : x # 0 => x > 0
    OBVIOUS
  <2> QED
    BY <2>2, <2>3, Zenon
<1> HIDE DEF h, m
<1>4. CASE Z(w).typ = "bin" /\ ~(Len(w) < h) /\ G(w).v - h = ExactLen
  <2>1. Whole(w)
    BY <1>3, <1>4, WindowEntry DEF Whole, Complete, h
  <2>2. G(w).o = 0 /\ G(w).v \in Nat
    BY <1>4, <2>1, WholeSizes DEF InRange
  <2>3. h + ExactLen = G(w).v /\ ExactLen \in Nat /\ h <= Len(w)
    BY <1>3, <1>4, <2>2, WindowEntry DEF ExactLen
  <2>4. Does(m, Take(h, ExactLen, <<>>), w)
    BY <1>1, <1>3, <1>4, <2>1, <2>2, <2>3, LeafTakes
  <2> QED
    BY <1>2, <1>4, <2>4, AskAsks DEF m
<1>5. CASE ~(Z(w).typ = "bin" /\ ~(Len(w) < h) /\ G(w).v - h = ExactLen)
  <2>1. \/ ReadExactBytes(w) = Ask(2, "EOF")
        \/ ReadExactBytes(w) \in {Err("invalid"), Err("type"), Err("array")}
        \/ Z(w).typ = "bin" /\ ReadExactBytes(w) = Ask(h, "EOF")
    BY <1>2, <1>5, BadPrefix
  <2> QED
    BY <1>1, <1>3, <2>1, AskAsks, ErrRefuses DEF m
<1> QED
  BY <1>4, <1>5

LEMMA FixedDoes ==
  ASSUME NEW w \in Seq(Byte), w # <<>>, NEW m \in Leaves, NEW k \in Nat, k > 0,
         NEW want \in SUBSET Fixeds
  PROVE  Does(m, Fixed(w, k, want), w)
<1> DEFINE h == Z(w).size
<1>1. m \in MethodNames \ Raws /\ "invalid" \notin want
  BY DEF Leaves, Fixeds
<1>2. Fixed(w, k, want) =
        IF Len(w) < k THEN Ask(k, "EOF")
        ELSE IF Z(w).typ \notin want THEN badPrefix(w[1])
        ELSE IF Len(w) < h THEN Ask(h, "unexpected") ELSE Take(h, 0, <<>>)
  BY DEF Fixed, Z, getType
<1>3. ASSUME Z(w).typ \in want PROVE h > 0 /\ h \in Nat
  <2>1. h = 0 <=> Z(w).typ = "invalid"
    BY WindowEntry DEF Entry
  <2>2. h \in Nat /\ h # 0
    BY <1>1, <1>3, <2>1, WindowEntry
  <2>3. \A x \in Nat : x # 0 => x > 0
    OBVIOUS
  <2> QED
    BY <2>2, <2>3, Zenon
<1> HIDE DEF h
<1>4. CASE Z(w).typ \in want /\ ~(Len(w) < h)
  <2>1. Whole(w)
    BY <1>3, <1>4, WindowEntry DEF Whole, Complete, h
  <2>2. G(w).o = 0 /\ G(w).v \in Nat /\ InRange(Z(w), G(w))
    BY <1>4, <2>1, WholeSizes DEF InRange
  <2>3. Z(w).extra >= 0
    <3>1. /\ Z(w).extra \in {extra8, extra16, extra32} => Z(w).typ \in {"str", "bin", "ext"}
          /\ Z(w).extra \in {map16v, map32v} => Z(w).typ = "map"
          /\ Z(w).extra \in {array16v, array32v} => Z(w).typ = "array"
          /\ Z(w).extra \in -7..30
      BY WindowEntry DEF Entry
    <3>2. Z(w).typ \notin {"str", "bin", "ext", "map", "array"}
      BY <1>4 DEF Fixeds
    <3> QED
      BY <3>1, <3>2, AllModes
  <2>4. h + 0 = G(w).v /\ h <= Len(w)
    BY <1>3, <1>4, <2>2, <2>3, WindowEntry DEF InRange, h
  <2>5. Does(m, Take(h, 0, <<>>), w)
    BY <1>3, <1>4, <2>1, <2>2, <2>4, LeafTakes
  <2> QED
    BY <1>2, <1>4, <2>5, AskAsks
<1>5. CASE ~(Z(w).typ \in want /\ ~(Len(w) < h))
  <2>1. \/ Fixed(w, k, want) = Ask(k, "EOF")
        \/ Fixed(w, k, want) \in {Err("invalid"), Err("type")}
        \/ Z(w).typ \in want /\ Fixed(w, k, want) = Ask(h, "unexpected")
    BY <1>2, <1>5, BadPrefix
  <2> QED
    BY <1>1, <1>3, <2>1, AskAsks, ErrRefuses
<1> QED
  BY <1>4, <1>5

(* A prefix that alone fixes the length n.                                 *)
LEMMA KnownSize ==
  ASSUME NEW w \in Seq(Byte), w # <<>>, NEW n \in Nat, n > 0, NEW t,
         sizes[w[1]] = bytespec(n, 0, t)
  PROVE  Whole(w) /\ G(w).v = n /\ G(w).o = 0
<1>1. Z(w).size = n /\ Z(w).extra = 0
  BY DEF Z, bytespec
<1>2. Whole(w)
  BY <1>1 DEF Whole, Complete
<1> QED
  BY <1>1, <1>2, WholeSizes DEF InRange

LEMMA KnownTakes ==
  ASSUME NEW w \in Seq(Byte), w # <<>>, NEW n \in Nat, n > 0, NEW t,
         sizes[w[1]] = bytespec(n, 0, t), NEW m \in Leaves, n <= Len(w)
  PROVE  Does(m, Take(n, 0, <<>>), w)
<1>1. Whole(w) /\ G(w).v = n /\ G(w).o = 0
  BY KnownSize
<1>2. n + 0 = G(w).v
  BY <1>1
<1> QED
  BY <1>1, <1>2, LeafTakes

LEMMA IntDoes ==
  ASSUME NEW w \in Seq(Byte), w # <<>>
  PROVE  /\ Does("ReadInt64", ReadInt64(w), w)
         /\ Does("ReadUint64", ReadUint64(w), w)
<1>1. /\ "ReadInt64" \in Leaves /\ "ReadUint64" \in Leaves /\ "ReadInt64" \notin Raws
      /\ {"int", "uint"} \in SUBSET Fixeds /\ {"uint"} \in SUBSET Fixeds
  BY DEF Leaves, MethodNames, Nested, Raws, Fixeds
<1>2. Does("ReadInt64", Fixed(w, 1, {"int", "uint"}), w)
  BY <1>1, FixedDoes
<1>3. Does("ReadUint64", Fixed(w, 1, {"uint"}), w)
  BY <1>1, FixedDoes
<1>4. ASSUME Len(w) >= 9, w[1] = muint64 PROVE Does("ReadInt64", TakeErr(9, "overflow"), w)
  <2>0. sizes[w[1]] = bytespec(9, 0, "uint")
    BY <1>4, KnownEntries
  <2>1. Whole(w) /\ G(w).v = 9 /\ G(w).o = 0
    <3>1. 9 \in Nat /\ 9 > 0
      OBVIOUS
    <3> QED
      BY <2>0, <3>1, KnownSize
  <2>2. 9 <= Len(w)
    BY <1>4, LenProperties
  <2> QED
    BY <1>1, <2>1, <2>2 DEF Does, Spoils, TakeErr
<1>5. ASSUME w[1] < 128 PROVE Does("ReadUint64", Take(1, 0, <<>>), w)
  <2>1. w[1] \in 0..127
    <3>1. \A x \in Byte : x < 128 => x \in 0..127
      BY DEF Byte
    <3> QED
      BY <1>5, <3>1, WindowEntry, Zenon
  <2>2. sizes[w[1]] = bytespec(1, 0, "int")
    BY <2>1, KnownEntries
  <2>3. 1 <= Len(w)
    BY WindowEntry
  <2> QED
    BY <1>1, <2>2, <2>3, KnownTakes
<1> QED
  BY <1>2, <1>3, <1>4, <1>5 DEF ReadInt64, ReadUint64

LEMMA FloatDoes ==
  ASSUME NEW w \in Seq(Byte), w # <<>>
  PROVE  Does("ReadFloat64", ReadFloat64(w), w)
<1>1. /\ "ReadFloat64" \in Leaves /\ "ReadFloat32" \in Leaves /\ "ReadFloat64" \notin Patient
      /\ {"float64"} \in SUBSET Fixeds /\ "ReadFloat32" \in MethodNames
  BY DEF Leaves, MethodNames, Nested, Raws, Patient, Fixeds
<1>2. Does("ReadFloat64", Calls("ReadFloat32"), w)
  BY <1>1 DEF Does, Delegates, Calls, Take
<1>3. Does("ReadFloat64", Fixed(w, 9, {"float64"}), w)
  BY <1>1, FixedDoes
<1>4. Does("ReadFloat64", Ask(9, "EOF"), w)
  BY AskAsks
<1> QED
  BY <1>2, <1>3, <1>4 DEF ReadFloat64

LEMMA ComplexDoes ==
  ASSUME NEW w \in Seq(Byte), w # <<>>, NEW m \in Leaves, NEW n \in Nat, n > 0,
         NEW lead, NEW ext, sizes[lead] = bytespec(n, 0, "ext")
  PROVE  Does(m, ReadComplex(w, n, lead, ext), w)
<1>1. m \in MethodNames \ Raws /\ Len(w) \in Nat
  BY LenProperties DEF Leaves
<1>2. \/ ReadComplex(w, n, lead, ext) = Ask(n, "EOF")
      \/ ReadComplex(w, n, lead, ext) \in {Err("invalid"), Err("type"), Err("ext")}
      \/ /\ ReadComplex(w, n, lead, ext) = Take(n, 0, <<>>)
         /\ w[1] = lead /\ ~(Len(w) < n)
  BY BadPrefix DEF ReadComplex
<1>3. CASE ReadComplex(w, n, lead, ext) = Ask(n, "EOF")
  BY <1>3, AskAsks
<1>4. CASE ReadComplex(w, n, lead, ext) \in {Err("invalid"), Err("type"), Err("ext")}
  BY <1>1, <1>4, ErrRefuses
<1>5. CASE ReadComplex(w, n, lead, ext) = Take(n, 0, <<>>) /\ w[1] = lead /\ ~(Len(w) < n)
  <2>1. n <= Len(w)
    BY <1>1, <1>5
  <2> QED
    BY <1>5, <2>1, KnownTakes
<1> QED
  BY <1>2, <1>3, <1>4, <1>5

LEMMA TimeDoes ==
  ASSUME NEW w \in Seq(Byte), w # <<>>
  PROVE  Does("ReadTime", ReadTime(w), w)
<1>1. /\ "ReadTime" \in Leaves /\ "ReadTime" \in MethodNames \ Raws /\ Len(w) \in Nat
  BY LenProperties DEF Leaves, MethodNames, Nested, Raws
<1>2. \/ ReadTime(w) = Ask(15, "EOF")
      \/ ReadTime(w) \in {Err("invalid"), Err("type"), Err("ext")}
      \/ ReadTime(w) = Take(15, 0, <<>>) /\ w[1] = mext8 /\ w[2] = 12 /\ ~(Len(w) < 15)
  BY BadPrefix DEF ReadTime
<1>3. CASE ReadTime(w) = Ask(15, "EOF")
  BY <1>3, AskAsks
<1>4. CASE ReadTime(w) \in {Err("invalid"), Err("type"), Err("ext")}
  BY <1>1, <1>4, ErrRefuses
<1>5. CASE ReadTime(w) = Take(15, 0, <<>>) /\ w[1] = mext8 /\ w[2] = 12 /\ ~(Len(w) < 15)
  <2>1. Z(w).size = 3 /\ Z(w).extra = extra8
    BY <1>5, KnownEntries DEF Z, bytespec
  <2>2. Whole(w)
    BY <1>1, <1>5, <2>1 DEF Whole, Complete
  <2>3. G(w) = Size(3 + 12, 0)
    BY <1>5, <2>1, Modes, WindowEntry DEF G
  <2>4. G(w).o = 0 /\ 15 + 0 = G(w).v /\ 15 <= Len(w)
    BY <1>1, <1>5, <2>3 DEF Size
  <2> QED
    BY <1>1, <1>5, <2>2, <2>4, LeafTakes
<1> QED
  BY <1>2, <1>3, <1>4, <1>5

LEMMA ExtensionDoes ==
  ASSUME NEW w \in Seq(Byte), w # <<>>
  PROVE  Does("ReadExtension", ReadExtension(w), w)
<1> DEFINE h == Z(w).size
           m == "ReadExtension"
<1>1. m \in Leaves /\ m \in MethodNames \ Raws
  BY DEF Leaves, MethodNames, Nested, Raws
<1>2. ReadExtension(w) =
        IF Len(w) < 2 THEN Ask(2, "EOF")
        ELSE IF Z(w).typ # "ext" THEN badPrefix(w[1])
        ELSE IF Len(w) < h THEN Ask(h, "EOF")
        ELSE IF Len(w) < G(w).v THEN Ask(G(w).v, "EOF")
        ELSE Take(G(w).v, 0, <<>>)
  BY DEF ReadExtension, Z, G, getType, Sized
<1>3. ASSUME Z(w).typ = "ext" PROVE h > 0 /\ h \in Nat
  <2>1. h = 0 <=> Z(w).typ = "invalid"
    BY WindowEntry DEF Entry
  <2>2. h \in Nat /\ h # 0
    BY <1>3, <2>1, WindowEntry
  <2>3. \A x \in Nat : x # 0 => x > 0
    OBVIOUS
  <2> QED
    BY <2>2, <2>3, Zenon
<1> HIDE DEF h, m
<1>4. CASE Z(w).typ = "ext" /\ ~(Len(w) < h)
  <2>1. Whole(w)
    BY <1>3, <1>4, WindowEntry DEF Whole, Complete, h
  <2>2. G(w).o = 0 /\ G(w).v \in Nat /\ G(w).v >= h
    BY <1>4, <2>1, WholeSizes DEF InRange, h
  <2>3. G(w).v > 0 /\ G(w).v + 0 = G(w).v /\ (~(Len(w) < G(w).v) => G(w).v <= Len(w))
    BY <1>3, <1>4, <2>2, WindowEntry
  <2>4. ~(Len(w) < G(w).v) => Does(m, Take(G(w).v, 0, <<>>), w)
    BY <1>1, <2>1, <2>2, <2>3, LeafTakes
  <2>5. Does(m, Ask(G(w).v, "EOF"), w) /\ Does(m, Ask(2, "EOF"), w)
    BY <2>2, <2>3, AskAsks
  <2> QED
    BY <1>2, <1>4, <2>4, <2>5 DEF m
<1>5. CASE ~(Z(w).typ = "ext" /\ ~(Len(w) < h))
  <2>1. \/ ReadExtension(w) = Ask(2, "EOF")
        \/ ReadExtension(w) \in {Err("invalid"), Err("type")}
        \/ Z(w).typ = "ext" /\ ReadExtension(w) = Ask(h, "EOF")
    BY <1>2, <1>5, BadPrefix
  <2> QED
    BY <1>1, <1>3, <2>1, AskAsks, ErrRefuses DEF m
<1> QED
  BY <1>4, <1>5

(* ReadIntf looks at the type and leaves the object to the method for it.  *)
LEMMA ReaderOfTypes ==
  ASSUME NEW t \in (Types \ {"invalid"}) \cup {"complex64", "complex128", "time"}
  PROVE  ReaderOf(t) \in MethodNames
BY DEF ReaderOf, MethodNames, Types, Fixeds

LEMMA IntfDoes ==
  ASSUME NEW w \in Seq(Byte), w # <<>>
  PROVE  Does("ReadIntf", ReadIntf(w), w)
<1> DEFINE g == NextType(w)
           x == peekExtensionType(w)
           Known == (Types \ {"invalid"}) \cup {"complex64", "complex128", "time"}
<1>1. "ReadIntf" \in MethodNames \ Raws /\ "ReadIntf" \in Nested /\ "ReadIntf" \notin Patient
  BY DEF MethodNames, Raws, Nested, Patient
<1>2. ReadIntf(w) = IF g.do # "found" THEN g ELSE Calls(ReaderOf(g.t))
  BY DEF ReadIntf
<1>3. Asks(x) \/ \E e : x = FoundType(e)
  <2>1. x = IF Len(w) < 2 THEN Ask(2, "EOF") ELSE peekTypeBy(Z(w), w)
    BY DEF peekExtensionType, Z
  <2>2. Asks(Ask(2, "EOF"))
    BY DEF Asks, Ask
  <2>3. Z(w).extra # 0 /\ Len(w) < Z(w).size => Asks(Ask(Z(w).size, "EOF"))
    BY WindowEntry DEF Asks, Ask
  <2> HIDE DEF x
  <2> QED
    BY <2>1, <2>2, <2>3 DEF peekTypeBy
<1>4. \/ Asks(g) \/ g = Err("invalid") \/ \E t \in Known : g = FoundType(t)
  <2> DEFINE e == FoundType(CASE x.t = Complex64Extension -> "complex64"
                              [] x.t = Complex128Extension -> "complex128"
                              [] x.t = TimeExtension -> "time"
                              [] OTHER -> "ext")
  <2>1. g = IF Z(w).typ = "invalid" THEN Err("invalid")
            ELSE IF Z(w).typ # "ext" THEN FoundType(Z(w).typ)
            ELSE IF x.do # "found" THEN x ELSE e
    BY DEF NextType, Z, getType
  <2>2. \E t \in Known : e = FoundType(t)
    BY DEF Types
  <2>3. Z(w).typ \in Types
    BY WindowEntry DEF Entry
  <2>4. (\E y : x = FoundType(y)) => x.do = "found"
    BY DEF FoundType
  <2> HIDE DEF e, x, g
  <2> QED
    BY <1>3, <2>1, <2>2, <2>3, <2>4
<1> HIDE DEF g
<1>5. CASE Asks(g)
  BY <1>2, <1>5, AskIs
<1>6. CASE g = Err("invalid")
  BY <1>1, <1>2, <1>6, ErrIs, ErrRefuses
<1>7. ASSUME NEW t \in Known, g = FoundType(t)
      PROVE  Does("ReadIntf", ReadIntf(w), w)
  <2>1. g.do = "found" /\ g.t = t
    BY <1>7 DEF FoundType
  <2>2. ReadIntf(w) = Calls(ReaderOf(t)) /\ ReaderOf(t) \in MethodNames
    BY <1>2, <2>1, ReaderOfTypes
  <2> QED
    BY <1>1, <2>2 DEF Does, Delegates, Calls, Take
<1> QED
  BY <1>4, <1>5, <1>6, <1>7

-----------------------------------------------------------------------------
(* All methods.                                                            *)

LEMMA DecideDoes ==
  ASSUME NEW m \in MethodNames, NEW w \in Seq(Byte), w # <<>>, cap \in Nat
  PROVE  Does(m, Decide(m, w), w)
<1>1. m \in Raws \cup Nested => Does(m, Decide(m, w), w)
  BY SkipDoes, CopyDoes, AppendDoes, IntfDoes, MapDoes, ArrayDoes
  DEF Decide, Raws, Nested
<1>2. /\ {"nil"} \in SUBSET Fixeds /\ {"bool"} \in SUBSET Fixeds
      /\ {"float32"} \in SUBSET Fixeds
      /\ {"ReadNil", "ReadBool", "ReadFloat32", "ReadComplex64", "ReadComplex128",
          "ReadString", "ReadBytes"} \subseteq Leaves
  BY DEF Fixeds, Leaves, MethodNames, Nested, Raws
<1>3. m = "ReadNil" => Does(m, Fixed(w, 1, {"nil"}), w)
  BY <1>2, FixedDoes
<1>4. m = "ReadBool" => Does(m, Fixed(w, 1, {"bool"}), w)
  BY <1>2, FixedDoes
<1>5. m = "ReadFloat32" => Does(m, Fixed(w, 5, {"float32"}), w)
  BY <1>2, FixedDoes
<1>6. m = "ReadComplex64" =>
        Does(m, ReadComplex(w, 10, mfixext8, Complex64Extension), w)
  BY <1>2, KnownEntries, ComplexDoes
<1>7. m = "ReadComplex128" =>
        Does(m, ReadComplex(w, 18, mfixext16, Complex128Extension), w)
  BY <1>2, KnownEntries, ComplexDoes
<1>8. m \in {"ReadNil", "ReadBool", "ReadFloat32", "ReadComplex64", "ReadComplex128"} =>
        Does(m, Decide(m, w), w)
  BY <1>3, <1>4, <1>5, <1>6, <1>7 DEF Decide
<1>9. m \in {"ReadString", "ReadBytes", "ReadMapKey", "ReadMapKeyPtr"} =>
        Does(m, Decide(m, w), w)
  BY <1>2, BytesDoes, KeyDoes DEF Decide
<1>10. m \in {"ReadExactBytes", "ReadInt64", "ReadUint64", "ReadFloat64", "ReadTime",
              "ReadExtension"} => Does(m, Decide(m, w), w)
  BY ExactDoes, IntDoes, FloatDoes, TimeDoes, ExtensionDoes DEF Decide
<1> QED
  BY <1>1, <1>8, <1>9, <1>10 DEF MethodNames, Raws, Nested

(* Without a byte, every method waits.                                     *)
LEMMA DecideEmpty ==
  ASSUME NEW m \in MethodNames
  PROVE  Asks(Decide(m, <<>>))
<1> DEFINE w == <<>>
<1>1. Len(w) = 0 /\ w = <<>>
  OBVIOUS
<1>2. \A k \in Nat, e \in {"EOF", "unexpected"} : k > 0 => Asks(Ask(k, e)) /\ Ask(k, e).do = "ask"
  BY DEF Asks, Ask
<1>3. getNextSize(w) = Ask(1, "EOF") /\ \A want : Header(w, want) = Ask(1, "EOF")
  BY DEF getNextSize, Header
<1>4. /\ NextType(w) = Ask(1, "EOF")
      /\ ReadString(w) = Ask(1, "EOF")
      /\ ReadMapKey(w) = Ask(1, "EOF")
      /\ ReadMapKeyPtr(w) = Ask(1, "EOF")
      /\ ReadMapStrIntf(w) = Ask(1, "EOF")
      /\ ReadArrayIntf(w) = Ask(1, "EOF")
      /\ CopyNext(w) = Ask(1, "EOF")
      /\ appendNext(w) = Ask(1, "EOF")
      /\ SkipNext(w) = Ask(1, "EOF")
  BY <1>1, <1>2, <1>3 DEF NextType, ReadString, ReadMapKey, ReadMapKeyPtr, ReadMapStrIntf,
    ReadArrayIntf, CopyNext, appendNext, SkipNext
<1>5. ReadIntf(w) = Ask(1, "EOF")
  BY <1>2, <1>4 DEF ReadIntf
<1>6. /\ ReadBytes(w) = Ask(2, "EOF")
      /\ ReadExactBytes(w) = Ask(2, "EOF")
      /\ \A want : Fixed(w, 1, want) = Ask(1, "EOF") /\ Fixed(w, 5, want) = Ask(5, "EOF")
      /\ ReadFloat64(w) = Ask(9, "EOF")
      /\ \A l, x : /\ ReadComplex(w, 10, l, x) = Ask(10, "EOF")
                   /\ ReadComplex(w, 18, l, x) = Ask(18, "EOF")
      /\ ReadTime(w) = Ask(15, "EOF")
      /\ ReadExtension(w) = Ask(2, "EOF")
  BY <1>1 DEF ReadBytes, ReadExactBytes, Fixed, ReadFloat64, ReadComplex, ReadTime,
    ReadExtension
<1>7. ReadInt64(w) = Ask(1, "EOF") /\ ReadUint64(w) = Ask(1, "EOF")
  BY <1>1, <1>6 DEF ReadInt64, ReadUint64
<1>8. \E k \in {1, 2, 5, 9, 10, 15, 18} : Decide(m, w) = Ask(k, "EOF")
  <2> HIDE DEF w
  <2> QED
    BY <1>4, <1>5, <1>6, <1>7 DEF Decide, MethodNames
<1> QED
  BY <1>2, <1>8

-----------------------------------------------------------------------------
(* How much a patient method waits for: the prefix, and behind it no more  *)
(* than the object.                                                        *)

Within(t, w) ==
  t.do = "ask" => t.n \in Nat /\ (t.n <= Z(w).size \/ (Whole(w) /\ t.n <= G(w).v))

LEMMA SizeAsk ==
  ASSUME NEW w \in Seq(Byte), w # <<>>
  PROVE  Within(getNextSize(w), w)
<1>1. getNextSize(w) = getNextSizeBy(Z(w), w)
  BY DEF getNextSize, Z
<1>2. getNextSizeBy(Z(w), w).do = "ask" => getNextSizeBy(Z(w), w) = Ask(Z(w).size, "EOF")
  BY DEF getNextSizeBy, Err, TakeErr, Found
<1>3. Z(w).size \in Nat /\ Z(w).size <= Z(w).size
  BY WindowEntry
<1> QED
  BY <1>1, <1>2, <1>3 DEF Within, Ask

LEMMA HeaderAsk ==
  ASSUME NEW w \in Seq(Byte), w # <<>>, NEW want, "invalid" \notin want
  PROVE  Within(Header(w, want), w)
<1> DEFINE h == IF w[1] \in 160..191 THEN 1 ELSE Z(w).size
<1>1. Header(w, want) =
        IF Z(w).typ \notin want THEN badPrefix(w[1])
        ELSE IF Len(w) < h THEN Ask(h, "unexpected")
        ELSE Found(h, G(w))
  BY DEF Header, HeaderBy, G, Z
<1>2. Z(w).typ \in want => h \in Nat /\ h <= Z(w).size
  <2>1. Z(w).size = 0 <=> Z(w).typ = "invalid"
    BY WindowEntry DEF Entry
  <2>2. Z(w).typ \in want => Z(w).size \in Nat /\ Z(w).size # 0
    BY <2>1, WindowEntry
  <2>3. \A x \in Nat : x # 0 => 1 <= x /\ x <= x
    OBVIOUS
  <2>4. 1 \in Nat
    OBVIOUS
  <2> QED
    BY <2>2, <2>3, <2>4, Zenon
<1> HIDE DEF h
<1>3. badPrefix(w[1]).do = "err" /\ Found(h, G(w)).do = "found"
  BY DEF badPrefix, Err, TakeErr, Found
<1>4. Header(w, want).do = "ask" => Header(w, want) = Ask(h, "unexpected") /\ Z(w).typ \in want
  BY <1>1, <1>3
<1> QED
  BY <1>2, <1>4 DEF Within, Ask

LEMMA FixedAsk ==
  ASSUME NEW w \in Seq(Byte), w # <<>>, NEW want
  PROVE  Within(Fixed(w, 1, want), w)
<1>1. ~(Len(w) < 1) /\ Z(w).size \in Nat /\ Z(w).size <= Z(w).size
  BY WindowEntry
<1>2. Fixed(w, 1, want) =
        IF Z(w).typ \notin want THEN badPrefix(w[1])
        ELSE IF Len(w) < Z(w).size THEN Ask(Z(w).size, "unexpected")
        ELSE Take(Z(w).size, 0, <<>>)
  BY <1>1 DEF Fixed, Z, getType
<1>3. badPrefix(w[1]).do = "err" /\ Take(Z(w).size, 0, <<>>).do = "take"
  BY DEF badPrefix, Err, TakeErr, Take
<1>4. Fixed(w, 1, want).do = "ask" => Fixed(w, 1, want) = Ask(Z(w).size, "unexpected")
  BY <1>2, <1>3
<1> QED
  BY <1>1, <1>4 DEF Within, Ask

LEMMA PatientAsks ==
  ASSUME NEW m \in Patient, NEW w \in Seq(Byte), w # <<>>
  PROVE  Within(Decide(m, w), w)
<1> DEFINE g == getNextSize(w)
<1>1. Within(g, w)
  BY SizeAsk
<1>2. \A t : t.do # "ask" => Within(t, w)
  BY DEF Within
<1>3. \A e, k, n, ms : /\ Err(e).do # "ask" /\ TakeErr(k, e).do # "ask"
                       /\ Take(k, n, ms).do # "ask" /\ TakeWhole(k, n).do # "ask"
  BY DEF Err, TakeErr, Take, TakeWhole
<1>4. CASE m = "Skip"
  <2>1. SkipFast(w).do # "ask"
    BY <1>3 DEF SkipFast, SkipBody
  <2>2. SkipBody(g).do # "ask"
    BY <1>3 DEF SkipBody
  <2>3. SkipNext(w) \in {SkipFast(w), SkipBody(g), g}
    BY DEF SkipNext
  <2>4. Within(SkipNext(w), w)
    BY <1>1, <1>2, <2>1, <2>2, <2>3
  <2> QED
    BY <1>4, <2>4 DEF Decide
<1>5. CASE m = "CopyNext"
  <2> DEFINE n == Times(g.o, "CopyNext")
  <2>1. CopyNext(w) \in {g, Take(0, g.v, n), Take(g.v, 0, n)}
        \/ (g.do = "found" /\ CopyNext(w) = Ask(g.v, "short"))
    BY DEF CopyNext
  <2>2. g.do = "found" => Whole(w) /\ g.v = G(w).v
    <3>1. Asks(g) \/ g = Err("invalid") \/ (g = Found(Z(w).size, G(w)) /\ Whole(w))
      BY NextSize
    <3>2. Asks(g) => g.do = "ask"
      BY DEF Asks
    <3>3. g = Err("invalid") => g.do = "err"
      BY ErrIs
    <3>4. g = Found(Z(w).size, G(w)) => g.v = G(w).v
      BY FoundIs
    <3> HIDE DEF g
    <3> QED
      BY <3>1, <3>2, <3>3, <3>4
  <2>3. g.do = "found" => Within(Ask(g.v, "short"), w)
    <3>1. g.do = "found" => G(w).v \in Nat /\ G(w).v <= G(w).v
      BY <2>2, WholeSizes DEF InRange
    <3> QED
      BY <2>2, <3>1 DEF Within, Ask
  <2> HIDE DEF g, n
  <2>4. Within(CopyNext(w), w)
    BY <1>1, <1>2, <1>3, <2>1, <2>3
  <2> QED
    BY <1>5, <2>4 DEF Decide
<1>6. CASE m = "appendNext"
  <2>1. appendNext(w) \in {g, Take(0, g.v, Times(g.o, "appendNext"))}
    BY DEF appendNext
  <2>2. Within(appendNext(w), w)
    BY <1>1, <1>2, <1>3, <2>1
  <2> QED
    BY <1>6, <2>2 DEF Decide
<1>7. CASE m = "ReadString"
  <2> DEFINE h == Header(w, {"str"})
  <2>1. ReadString(w) \in {h, Take(h.h, h.v - h.h, <<>>)}
    BY DEF ReadString
  <2>2. Within(h, w)
    BY HeaderAsk
  <2>3. Within(ReadString(w), w)
    BY <1>2, <1>3, <2>1, <2>2
  <2> QED
    BY <1>7, <2>3 DEF Decide
<1>8. CASE m = "ReadMapKeyPtr"
  <2> DEFINE h == Header(w, {"str", "bin"})
  <2>1. ReadMapKeyPtr(w) \in {h, TakeErr(h.h, "short"), TakeWhole(h.h, h.v - h.h)}
    BY DEF ReadMapKeyPtr
  <2>2. Within(h, w)
    BY HeaderAsk
  <2>3. Within(ReadMapKeyPtr(w), w)
    BY <1>2, <1>3, <2>1, <2>2
  <2> QED
    BY <1>8, <2>3 DEF Decide
<1>9. CASE m \in {"ReadNil", "ReadBool"}
  BY <1>9, FixedAsk DEF Decide
<1>10. CASE m \in {"ReadInt64", "ReadUint64"}
  <2>1. /\ ReadInt64(w) \in {TakeErr(9, "overflow"), Fixed(w, 1, {"int", "uint"})}
        /\ ReadUint64(w) \in {Take(1, 0, <<>>), Fixed(w, 1, {"uint"})}
    BY DEF ReadInt64, ReadUint64
  <2>2. Within(ReadInt64(w), w) /\ Within(ReadUint64(w), w)
    BY <1>2, <1>3, <2>1, FixedAsk
  <2> QED
    BY <1>10, <2>2 DEF Decide
<1> QED
  BY <1>4, <1>5, <1>6, <1>7, <1>8, <1>9, <1>10 DEF Patient, Raws

LEMMA PatientAsksOne ==
  ASSUME NEW m \in Patient
  PROVE  Decide(m, <<>>).n = 1
<1> DEFINE w == <<>>
<1>1. Len(w) = 0 /\ w = <<>>
  OBVIOUS
<1>2. getNextSize(w) = Ask(1, "EOF") /\ \A want : Header(w, want) = Ask(1, "EOF")
  BY DEF getNextSize, Header
<1>3. Ask(1, "EOF").do = "ask" /\ Ask(1, "EOF").n = 1
  BY DEF Ask
<1>4. /\ ReadString(w) = Ask(1, "EOF") /\ ReadMapKeyPtr(w) = Ask(1, "EOF")
      /\ CopyNext(w) = Ask(1, "EOF") /\ appendNext(w) = Ask(1, "EOF")
      /\ SkipNext(w) = Ask(1, "EOF")
  BY <1>1, <1>2, <1>3 DEF ReadString, ReadMapKeyPtr, CopyNext, appendNext, SkipNext
<1>5. \A want : Fixed(w, 1, want) = Ask(1, "EOF")
  BY <1>1 DEF Fixed
<1>6. ReadInt64(w) = Ask(1, "EOF") /\ ReadUint64(w) = Ask(1, "EOF")
  BY <1>1, <1>5 DEF ReadInt64, ReadUint64
<1>7. Decide(m, w) = Ask(1, "EOF")
  <2> HIDE DEF w
  <2> QED
    BY <1>4, <1>5, <1>6 DEF Decide, Patient, Raws
<1> QED
  BY <1>3, <1>7
=============================================================================
