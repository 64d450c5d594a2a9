---------------------------- MODULE ReaderSafety ----------------------------
(***************************************************************************)
(* The safety properties of the Reader, for well-formed streams of any     *)
(* length and nesting, cut short anywhere, arriving in pieces of any size, *)
(* any sequence of calls and any failures of the io.Reader and io.Writer.  *)
(***************************************************************************)
EXTENDS ReaderProofs

-----------------------------------------------------------------------------
(* Objects one behind the other.                                           *)

LEMMA PathZero ==
  ASSUME NEW ends, NEW a, NEW b, Path(ends, a, 0, b)
  PROVE  a = b /\ a \in Nat
<1>1. PICK m \in [0..0 -> Nat] : Marks(ends, m, a, 0, b)
  BY DEF Path
<1>2. 0 \in 0..0
  OBVIOUS
<1> QED
  BY <1>1, <1>2 DEF Marks

LEMMA PathOne ==
  ASSUME NEW ends, NEW a \in DOMAIN ends, a \in Nat, ends[a] \in Nat, a <= ends[a]
  PROVE  Path(ends, a, 1, ends[a])
<1> DEFINE m == [i \in 0..1 |-> IF i = 0 THEN a ELSE ends[a]]
<1>1. m \in [0..1 -> Nat] /\ m[0] = a /\ m[1] = ends[a]
  OBVIOUS
<1>2. \A i \in 0..1 : i = 0 \/ i = 1
  OBVIOUS
<1>3. \A i \in 0..(1 - 1) : i = 0 /\ i + 1 = 1
  OBVIOUS
<1>4. \A x \in Nat : x <= x
  OBVIOUS
<1> HIDE DEF m
<1>5. \A i \in 0..1 : m[i] <= ends[a]
  BY <1>1, <1>2, <1>4
<1>6. \A i \in 0..(1 - 1) : m[i] \in DOMAIN ends /\ ends[m[i]] = m[i + 1]
  BY <1>1, <1>3
<1> QED
  BY <1>1, <1>5, <1>6 DEF Path, Marks

LEMMA PathBound ==
  ASSUME NEW ends, NEW a, NEW k \in Nat, NEW b, Path(ends, a, k, b)
  PROVE  a \in Nat /\ b \in Nat /\ a <= b
<1>1. PICK m \in [0..k -> Nat] : Marks(ends, m, a, k, b)
  BY DEF Path
<1>2. 0 \in 0..k /\ k \in 0..k
  OBVIOUS
<1> QED
  BY <1>1, <1>2 DEF Marks

LEMMA PathHead ==
  ASSUME NEW ends, NEW a, NEW k \in Nat, k > 0, NEW b, Path(ends, a, k, b)
  PROVE  /\ a \in DOMAIN ends /\ a \in Nat /\ ends[a] \in Nat /\ ends[a] <= b
         /\ Path(ends, ends[a], k - 1, b)
<1>1. PICK m \in [0..k -> Nat] : Marks(ends, m, a, k, b)
  BY DEF Path
<1> DEFINE n == [i \in 0..(k - 1) |-> m[i + 1]]
<1>2. 0 \in 0..k /\ 1 \in 0..k /\ 0 \in 0..(k - 1) /\ 0 + 1 = 1
  OBVIOUS
<1>3. a \in DOMAIN ends /\ ends[a] = m[1] /\ m[0] = a /\ m[1] <= b
  BY <1>1, <1>2 DEF Marks
<1>4. /\ m[k] = b /\ \A i \in 0..k : m[i] <= b
      /\ \A i \in 0..k-1 : m[i] \in DOMAIN ends /\ ends[m[i]] = m[i + 1]
  BY <1>1 DEF Marks
<1>5. n \in [0..(k - 1) -> Nat] /\ \A i \in 0..(k - 1) : n[i] = m[i + 1] /\ i + 1 \in 0..k
  OBVIOUS
<1>6. n[0] = ends[a] /\ n[k - 1] = b
  <2>1. k - 1 \in 0..(k - 1) /\ (k - 1) + 1 = k
    OBVIOUS
  <2> QED
    BY <1>2, <1>3, <1>4, <1>5, <2>1
<1>7. \A i \in 0..(k - 1) : n[i] <= b
  BY <1>4, <1>5
<1>8. \A i \in 0..(k - 1 - 1) : n[i] \in DOMAIN ends /\ ends[n[i]] = n[i + 1]
  <2> SUFFICES ASSUME NEW i \in 0..(k - 1 - 1)
               PROVE  n[i] \in DOMAIN ends /\ ends[n[i]] = n[i + 1]
    OBVIOUS
  <2>1. i \in 0..(k - 1) /\ i + 1 \in 0..(k - 1)
    OBVIOUS
  <2> HIDE DEF n
  <2> QED
    BY <1>4, <1>5, <2>1
<1> HIDE DEF n
<1>9. Path(ends, ends[a], k - 1, b)
  BY <1>5, <1>6, <1>7, <1>8 DEF Path, Marks
<1> QED
  BY <1>1, <1>2, <1>3, <1>9

(* The object at a opened: its objects, and then those behind it.          *)
LEMMA PathOpen ==
  ASSUME NEW ends, NEW a, NEW k \in Nat, k > 0, NEW b, Path(ends, a, k, b),
         NEW c, NEW o \in Nat, Path(ends, c, o, ends[a])
  PROVE  Path(ends, c, o + (k - 1), b)
<1>1. PICK m \in [0..o -> Nat] : Marks(ends, m, c, o, ends[a])
  BY DEF Path
<1>2. Path(ends, ends[a], k - 1, b) /\ ends[a] \in Nat /\ ends[a] <= b
  BY PathHead
<1>3. PICK n \in [0..(k - 1) -> Nat] : Marks(ends, n, ends[a], k - 1, b)
  BY <1>2 DEF Path
<1> DEFINE r == k - 1
           p == [i \in 0..(o + r) |-> IF i <= o THEN m[i] ELSE n[i - o]]
<1>4. r \in Nat /\ b \in Nat
  BY PathBound
<1>5. /\ m[0] = c /\ m[o] = ends[a] /\ \A i \in 0..o : m[i] <= ends[a]
      /\ \A i \in 0..o-1 : m[i] \in DOMAIN ends /\ ends[m[i]] = m[i + 1]
  BY <1>1 DEF Marks
<1>6. /\ n[0] = ends[a] /\ n[r] = b /\ \A i \in 0..r : n[i] <= b
      /\ \A i \in 0..r-1 : n[i] \in DOMAIN ends /\ ends[n[i]] = n[i + 1]
      /\ n \in [0..r -> Nat]
  BY <1>3 DEF Marks
<1> HIDE DEF r
<1>7. \A i \in 0..(o + r) : p[i] = IF i <= o THEN m[i] ELSE n[i - o]
  OBVIOUS
<1>8. p \in [0..(o + r) -> Nat]
  <2>1. \A i \in 0..(o + r) : (i <= o => i \in 0..o) /\ (~(i <= o) => i - o \in 0..r)
    BY <1>4
  <2> QED
    BY <1>6, <2>1
<1> HIDE DEF p
<1>9. \A i \in 0..r : p[o + i] = n[i]
  <2> SUFFICES ASSUME NEW i \in 0..r PROVE p[o + i] = n[i]
    OBVIOUS
  <2>1. o + i \in 0..(o + r) /\ (o + i <= o => i = 0) /\ (o + i) - o = i /\ o + 0 = o
    BY <1>4
  <2> QED
    BY <1>5, <1>6, <1>7, <2>1
<1>10. \A i \in 0..o : p[i] = m[i]
  <2> SUFFICES ASSUME NEW i \in 0..o PROVE p[i] = m[i]
    OBVIOUS
  <2>1. i \in 0..(o + r) /\ i <= o
    BY <1>4
  <2> QED
    BY <1>7, <2>1
<1>11. p[0] = c /\ p[o + r] = b
  <2>1. 0 \in 0..o /\ r \in 0..r
    BY <1>4
  <2> QED
    BY <1>5, <1>6, <1>9, <1>10, <2>1
<1>12. \A i \in 0..(o + r) : i \in 0..o \/ \E j \in 0..r : i = o + j
  <2> SUFFICES ASSUME NEW i \in 0..(o + r), ~(i \in 0..o) PROVE \E j \in 0..r : i = o + j
    OBVIOUS
  <2>1. i - o \in 0..r /\ i = o + (i - o)
    BY <1>4
  <2> QED
    BY <2>1
<1>13. \A i \in 0..(o + r) : p[i] <= b
  <2> SUFFICES ASSUME NEW i \in 0..(o + r) PROVE p[i] <= b
    OBVIOUS
  <2>1. CASE i \in 0..o
    <3>1. p[i] \in Nat /\ p[i] <= ends[a]
      BY <1>5, <1>8, <1>10, <2>1
    <3> QED
      BY <1>2, <1>4, <3>1
  <2>2. ASSUME NEW j \in 0..r, i = o + j PROVE p[i] <= b
    BY <1>6, <1>9, <2>2
  <2> QED
    BY <1>12, <2>1, <2>2
<1>14. \A i \in 0..(o + r - 1) : p[i] \in DOMAIN ends /\ ends[p[i]] = p[i + 1]
  <2> SUFFICES ASSUME NEW i \in 0..(o + r - 1)
               PROVE  p[i] \in DOMAIN ends /\ ends[p[i]] = p[i + 1]
    OBVIOUS
  <2>1. CASE i < o
    <3>1. i \in 0..o /\ i + 1 \in 0..o /\ i \in 0..o-1
      BY <1>4, <2>1
    <3> QED
      BY <1>5, <1>10, <3>1
  <2>2. CASE ~(i < o)
    <3> DEFINE j == i - o
    <3>1. j \in 0..r /\ j + 1 \in 0..r /\ j \in 0..r-1 /\ i = o + j /\ i + 1 = o + (j + 1)
      BY <1>4, <2>2
    <3> HIDE DEF j
    <3> QED
      BY <1>6, <1>9, <3>1
  <2> QED
    BY <2>1, <2>2
<1>15. Marks(ends, p, c, o + r, b)
  <2> DEFINE k2 == o + r
  <2>1. /\ p[0] = c /\ p[k2] = b /\ \A i \in 0..k2 : p[i] <= b
        /\ \A i \in 0..k2 - 1 : p[i] \in DOMAIN ends /\ ends[p[i]] = p[i + 1]
    BY <1>4, <1>11, <1>13, <1>14
  <2> HIDE DEF k2
  <2>2. Marks(ends, p, c, k2, b)
    BY <2>1, Zenon DEF Marks
  <2> QED
    BY <2>2 DEF k2
<1>16. \E x \in [0..(o + r) -> Nat] : Marks(ends, x, c, o + r, b)
  BY <1>8, <1>15
<1> QED
  BY <1>16 DEF r, Path

-----------------------------------------------------------------------------
(* Where the calls under way stand in the stream.                          *)

Results == {"running", "ok", "invalid", "short", "type", "array", "ext", "overflow",
            "EOF", "unexpected", "io", "write", "unmarshal"}

Typed ==
  /\ input \in Streams /\ pos \in Nat /\ buffered \in Nat /\ cap \in Nat /\ rest \in Nat
  /\ pos + buffered <= Len(input.bytes) /\ buffered <= cap /\ cap >= BufSize
  /\ todo \in Seq(MethodNames)
  /\ pc \in {"begin", "sizing", "drain", "whole"}
  /\ rest > 0 <=> pc \in {"drain", "whole"}
  /\ call \in [m : MethodNames \cup {"none"}, start : Nat, res : Results, io : BOOLEAN]
  /\ call.start <= pos
  /\ Running <=> call.res = "running"
  /\ rest > 0 => Running
  /\ Running => call.m # "none"

(* The objects left to the methods under way, those behind the bytes the   *)
(* running one has still to consume.                                       *)
Left == IF rest = 0 THEN Len(todo) ELSE Len(todo) - 1

(* They lie one behind the other up to the end of the object the outermost *)
(* call began with.                                                        *)
Placed ==
  Running =>
    IF call.start \in Starts
      THEN Path(input.ends, pos + rest, Left, input.ends[call.start])
      ELSE rest = 0 /\ pos = call.start /\ pos = Len(input.bytes)

Places == Starts \cup Range(input.ends)

(* A call begins at an object or behind one, and so does the next.         *)
Standing ==
  /\ call.start \in Places
  /\ ~Running => NeverPast /\ (MayGoOn => pos \in Places)

Going == call.m # "none" /\ call.res \in {"running", "ok"}

(* None of the objects passed begins with 0xc1.                            *)
Seen ==
  Going => \A t \in Starts :
             call.start <= t /\ t < pos + rest => input.bytes[t + 1] # 193

Copied ==
  Going /\ call.m \in {"CopyNext", "appendNext"} =>
    out = SubSeq(input.bytes, call.start + 1, pos)

(* A method that calls no other has only itself under way; one that reads  *)
(* one value has no others under way; ReadFloat64 takes its value whole.   *)
Alone == call.m \in Patient => \A i \in 1..Len(todo) : todo[i] = call.m
Flat ==
  Running /\ call.m \in Leaves =>
    Len(todo) = 1 /\ todo[1] \in Leaves /\ (rest = 0 => pos = call.start)
Prompt == Running /\ todo[1] = "ReadFloat64" => rest = 0

Ended ==
  /\ call.m # "none" /\ call.res = "ok" =>
       call.start \in Starts /\ pos = input.ends[call.start]
  /\ call.res \in {"type", "array", "ext"} /\ call.m \notin Nested => pos = call.start
  /\ call.res = "overflow" /\ call.m \notin Nested => pos = input.ends[call.start]

IInv ==
  /\ Typed /\ Placed /\ Standing /\ Seen /\ Copied /\ Alone /\ Flat
  /\ Prompt /\ Ended

-----------------------------------------------------------------------------
(* Facts about a state.                                                    *)

LEMMA MinTwo ==
  ASSUME NEW a \in Int, NEW b \in Int
  PROVE  /\ Min({a, b}) \in {a, b} /\ Min({a, b}) <= a /\ Min({a, b}) <= b
<1>1. \E x \in {a, b} : \A y \in {a, b} : x <= y
  <2>1. CASE a <= b
    BY <2>1
  <2>2. CASE b <= a
    BY <2>2
  <2> QED
    BY <2>1, <2>2
<1>2. Min({a, b}) \in {a, b} /\ \A y \in {a, b} : Min({a, b}) <= y
  BY <1>1 DEF Min
<1> QED
  BY <1>2

LEMMA MinThree ==
  ASSUME NEW a \in Int, NEW b \in Int, NEW c \in Int
  PROVE  /\ Min({a, b, c}) \in {a, b, c}
         /\ Min({a, b, c}) <= a /\ Min({a, b, c}) <= b /\ Min({a, b, c}) <= c
<1>1. \E x \in {a, b, c} : \A y \in {a, b, c} : x <= y
  <2>1. CASE a <= b /\ a <= c
    BY <2>1
  <2>2. CASE b <= a /\ b <= c
    BY <2>2
  <2>3. CASE c <= a /\ c <= b
    BY <2>3
  <2> QED
    BY <2>1, <2>2, <2>3
<1>2. Min({a, b, c}) \in {a, b, c} /\ \A y \in {a, b, c} : Min({a, b, c}) <= y
  BY <1>1 DEF Min
<1> QED
  BY <1>2

(* What a well-formed stream says of a place.                              *)
LEMMA StreamFacts ==
  ASSUME \A s \in Streams : WellFormed(s), Typed
  PROVE  /\ input.bytes \in Seq(Byte) /\ Len(input.bytes) \in Nat
         /\ 0 \in Starts
         /\ \A p \in Starts :
              /\ p \in Nat /\ input.ends[p] \in Nat /\ p < input.ends[p]
              /\ input.ends[p] \in Starts \/ input.ends[p] >= Len(input.bytes)
<1>1. input \in Streams /\ WellFormed(input)
  BY DEF Typed
<1>2. input.bytes \in Seq(Byte)
  BY <1>1, ReaderAssumption
<1> QED
  BY <1>1, <1>2, LenProperties DEF WellFormed, Framed, Starts

(* n bytes from p on.                                                      *)
LEMMA Slice ==
  ASSUME NEW s \in Seq(Byte), NEW p \in Nat, NEW n \in Nat, p + n <= Len(s)
  PROVE  /\ SubSeq(s, p + 1, p + n) \in Seq(Byte)
         /\ Len(SubSeq(s, p + 1, p + n)) = n
         /\ \A i \in 1..n : SubSeq(s, p + 1, p + n)[i] = s[p + i]
<1> DEFINE f == p + 1
           l == p + n
           w == SubSeq(s, f, l)
<1>1. Len(s) \in Nat /\ f \in Int /\ l \in Int
  BY LenProperties
<1>2. \A i \in f..l : s[i] \in Byte
  <2>1. \A i \in f..l : i \in 1..Len(s)
    BY <1>1
  <2> QED
    BY <2>1, ElementOfSeq
<1>3. l - f + 1 = n /\ (~(f <= l) => n = 0) /\ \A i \in 1..n : f + i - 1 = p + i
  OBVIOUS
<1> HIDE DEF f, l
<1>4. /\ w \in Seq(Byte) /\ Len(w) = IF f <= l THEN l - f + 1 ELSE 0
      /\ \A i \in 1..(l - f + 1) : w[i] = s[f + i - 1]
  BY <1>1, <1>2, SubSeqProperties
<1> HIDE DEF w
<1>5. w \in Seq(Byte) /\ Len(w) = n /\ \A i \in 1..n : w[i] = s[p + i]
  BY <1>3, <1>4
<1> QED
  BY <1>5 DEF w, f, l

(* The bytes buffered.                                                     *)
LEMMA WindowIs ==
  ASSUME \A s \in Streams : WellFormed(s), Typed
  PROVE  /\ Window \in Seq(Byte) /\ Len(Window) = buffered
         /\ \A i \in 1..buffered : Window[i] = input.bytes[pos + i]
<1>1. /\ input.bytes \in Seq(Byte) /\ pos \in Nat
      /\ buffered \in Nat /\ pos + buffered <= Len(input.bytes)
  BY StreamFacts DEF Typed
<1> QED
  BY <1>1, Slice DEF Window

(* The prefix of the object at the read position says what its size is.    *)
LEMMA ObjectHere ==
  ASSUME \A s \in Streams : WellFormed(s), Typed, pos \in Starts, Window # <<>>,
         Whole(Window)
  PROVE  /\ Path(input.ends, pos + G(Window).v, G(Window).o, input.ends[pos])
         /\ \A q \in Starts : ~(pos < q /\ q < pos + G(Window).v)
         /\ input.bytes[pos + 1] # 193
         /\ G(Window).v \in Nat /\ G(Window).o \in Nat /\ G(Window).v > 0
<1> DEFINE w == Window
           n == Len(input.bytes)
           d == SubSeq(input.bytes, pos + 1, n)
           z == sizes[input.bytes[pos + 1]]
<1>1. /\ input.bytes \in Seq(Byte) /\ n \in Nat /\ pos \in Nat
      /\ buffered \in Nat /\ pos + buffered <= n
  BY StreamFacts DEF Typed
<1>2. /\ w \in Seq(Byte) /\ Len(w) = buffered
      /\ \A i \in 1..buffered : w[i] = input.bytes[pos + i]
  BY WindowIs
<1>3. buffered >= 1 /\ w[1] \in Byte /\ Entry(w[1], Z(w)) /\ Z(w).size \in Nat
      /\ Z(w).extra \in Int
  BY <1>2, WindowEntry
<1>4. z = Z(w) /\ w[1] = input.bytes[pos + 1]
  <2>1. 1 \in 1..buffered
    BY <1>1, <1>3
  <2> QED
    BY <1>2, <2>1 DEF Z
<1>5. d \in Seq(Byte) /\ Len(d) = n - pos /\ \A i \in 1..(n - pos) : d[i] = input.bytes[pos + i]
  <2>1. n - pos \in Nat /\ pos + (n - pos) = n /\ n <= n
    BY <1>1
  <2> QED
    BY <1>1, <2>1, Slice
<1>6. input \in Streams /\ WellFormed(input) /\ pos \in DOMAIN input.ends
  BY DEF Typed, Starts
<1>7. pos < n
  BY <1>1, <1>3
<1>8. z.size > 0 /\ (z.extra >= 0 \/ Len(d) >= z.size) =>
        /\ Path(input.ends, pos + SizedBy(z, d).v, SizedBy(z, d).o, input.ends[pos])
        /\ \A q \in DOMAIN input.ends : ~(pos < q /\ q < pos + SizedBy(z, d).v)
  BY <1>6, <1>7 DEF WellFormed, Framed
<1> HIDE DEF d, n, z, w
<1>9. Z(w).size > 0 /\ Complete(Z(w), w)
  BY DEF Whole, w
<1>10. SizedBy(Z(w), d) = G(w)
  <2>1. Len(w) <= Len(d)
    BY <1>1, <1>2, <1>5
  <2>2. \A i \in 1..Len(w) : w[i] = d[i]
    <3>1. \A i \in 1..buffered : i \in 1..(n - pos)
      BY <1>1
    <3> QED
      BY <1>2, <1>5, <3>1
  <2> QED
    BY <1>2, <1>3, <1>5, <1>9, <2>1, <2>2, SizedSame DEF G
<1>11. z.size > 0 /\ (z.extra >= 0 \/ Len(d) >= z.size)
  BY <1>1, <1>2, <1>3, <1>4, <1>5, <1>9 DEF Complete
<1>12. input.bytes[pos + 1] # 193
  <2>1. Z(w).size = 0 <=> w[1] = 193
    BY <1>3 DEF Entry
  <2> QED
    BY <1>3, <1>4, <1>9, <2>1
<1>13. G(w).v \in Nat /\ G(w).o \in Nat /\ G(w).v > 0
  <2>1. w # <<>> /\ Whole(w)
    BY DEF w
  <2>2. InRange(Z(w), G(w))
    BY <1>2, <2>1, WholeSizes
  <2> QED
    BY <1>3, <1>9, <2>2 DEF InRange
<1> QED
  BY <1>4, <1>8, <1>10, <1>11, <1>12, <1>13 DEF w, Starts

-----------------------------------------------------------------------------
(* Steps.                                                                  *)

CallRecords ==
  [m : MethodNames \cup {"none"}, start : Nat, res : Results, io : BOOLEAN]

(* The outermost call returns an error, k bytes further on.                *)
LEMMA Stops ==
  ASSUME \A s \in Streams : WellFormed(s), IInv, Running,
         NEW k \in Nat, k <= buffered, NEW e \in Results \ {"running", "ok"},
         NEW i \in BOOLEAN,
         input' = input, cap' = cap, pos' = pos + k, buffered' = buffered - k,
         Return(e, i),
         call.start \in Starts => pos + k <= input.ends[call.start],
         e \in Resumable => pos + k \in Places,
         e \in {"type", "array", "ext"} /\ call.m \notin Nested => pos + k = call.start,
         e = "overflow" /\ call.m \notin Nested => pos + k = input.ends[call.start]
  PROVE  IInv'
<1>1. todo' = <<>> /\ pc' = "begin" /\ rest' = 0 /\ call' = [call EXCEPT !.res = e, !.io = i]
  BY DEF Return
<1>2. call \in CallRecords
  BY DEF IInv, Typed, CallRecords
<1>3. /\ call' \in CallRecords /\ call'.m = call.m /\ call'.start = call.start
      /\ call'.res = e
  <2>1. e \in Results
    OBVIOUS
  <2> QED
    BY <1>1, <1>2, <2>1 DEF CallRecords
<1>4. ~Running'
  BY <1>1 DEF Running
<1>5. Typed'
  <2>1. <<>> \in Seq(MethodNames)
    BY EmptySeq
  <2>2. /\ pos \in Nat /\ buffered \in Nat /\ cap \in Nat /\ Len(input.bytes) \in Nat
        /\ pos + buffered <= Len(input.bytes) /\ buffered <= cap /\ call.start <= pos
        /\ call.start \in Nat /\ input \in Streams /\ cap >= BufSize
    BY <1>2, StreamFacts DEF IInv, Typed, CallRecords
  <2>3. /\ pos' \in Nat /\ buffered' \in Nat /\ pos' + buffered' <= Len(input.bytes)
        /\ buffered' <= cap /\ call.start <= pos'
    BY <2>2
  <2> QED
    BY <1>1, <1>3, <1>4, <2>1, <2>2, <2>3 DEF Typed, CallRecords
<1>6. Placed' /\ Seen' /\ Copied' /\ Flat' /\ Prompt'
  BY <1>3, <1>4 DEF Placed, Seen, Copied, Flat, Prompt, Going
<1>7. Alone'
  <2>1. \A j \in 1..Len(todo') : FALSE
    BY <1>1
  <2> QED
    BY <2>1 DEF Alone
<1>8. Standing'
  <2>1. call.start \in Places /\ (call.start \in Places)' = (call.start \in Places)
    BY <1>3 DEF IInv, Standing, Places, Starts
  <2>2. NeverPast'
    BY <1>3 DEF NeverPast, Starts
  <2>3. MayGoOn' => pos' \in Places
    <3>1. MayGoOn' => e \in Resumable \/ pos' = call.start
      BY <1>3 DEF MayGoOn
    <3> QED
      BY <2>1, <3>1
  <2> QED
    BY <2>1, <2>2, <2>3 DEF Standing, Places, Starts
<1>9. Ended'
  BY <1>3 DEF Ended
<1> QED
  BY <1>5, <1>6, <1>7, <1>8, <1>9 DEF IInv

(* The call goes on with the methods ms, k bytes further on and r bytes to *)
(* consume, or returns nil when there are no methods left.                 *)
LEMMA GoesOn ==
  ASSUME \A s \in Streams : WellFormed(s), IInv, Running, call.start \in Starts,
         NEW k \in Nat, k <= buffered, NEW r \in Nat, NEW ms \in Seq(MethodNames),
         input' = input, cap' = cap, Consume(k), todo' = ms, rest' = r,
         pc' \in {"begin", "sizing", "drain", "whole"},
         r > 0 <=> pc' \in {"drain", "whole"}, r > 0 => ms # <<>>,
         call' = IF ms = <<>> THEN [call EXCEPT !.res = "ok"] ELSE call,
         Path(input.ends, pos + k + r, IF r = 0 THEN Len(ms) ELSE Len(ms) - 1,
              input.ends[call.start]),
         \A t \in Starts : pos + rest <= t /\ t < pos + k + r => input.bytes[t + 1] # 193,
         call.m \in Patient => \A i \in 1..Len(ms) : ms[i] = call.m,
         call.m \in Leaves /\ ms # <<>> =>
           Len(ms) = 1 /\ ms[1] \in Leaves /\ (r = 0 => pos + k = call.start),
         ms # <<>> /\ ms[1] = "ReadFloat64" => r = 0
  PROVE  IInv'
<1>1. /\ pos' = pos + k /\ buffered' = buffered - k
      /\ out' = IF Keeps THEN out \o SubSeq(input.bytes, pos + 1, pos + k) ELSE out
  BY DEF Consume
<1>2. /\ call \in CallRecords /\ call.res = "running" /\ call.m # "none"
  BY DEF IInv, Typed, CallRecords
<1>3. /\ call' \in CallRecords /\ call'.m = call.m /\ call'.start = call.start
      /\ call'.res = IF ms = <<>> THEN "ok" ELSE "running"
  <2>1. "ok" \in Results
    BY DEF Results
  <2>2. CASE ms = <<>>
    BY <1>2, <2>1, <2>2 DEF CallRecords
  <2> QED
    BY <1>2, <2>2
<1>4. Running' <=> ms # <<>>
  BY DEF Running
<1>5. /\ pos \in Nat /\ buffered \in Nat /\ cap \in Nat /\ Len(input.bytes) \in Nat
      /\ pos + buffered <= Len(input.bytes) /\ buffered <= cap /\ call.start <= pos
      /\ call.start \in Nat /\ input \in Streams /\ cap >= BufSize /\ rest \in Nat
  BY <1>2, StreamFacts DEF IInv, Typed, CallRecords
<1>6. Typed'
  <2>1. /\ pos' \in Nat /\ buffered' \in Nat /\ pos' + buffered' <= Len(input.bytes)
        /\ buffered' <= cap /\ call.start <= pos'
    <3>2. pos + k \in Nat
      BY <1>5
    <3>3. buffered - k \in Nat
      BY <1>5
    <3>4. (pos + k) + (buffered - k) = pos + buffered
      BY <1>5
    <3>5. buffered - k <= cap
      BY <1>5
    <3>6. call.start <= pos + k
      BY <1>5
    <3> QED
      BY <1>1, <1>5, <3>2, <3>3, <3>4, <3>5, <3>6
  <2>2. (Running <=> call.res = "running")'
    BY <1>3, <1>4
  <2> QED
    BY <1>1, <1>2, <1>3, <1>4, <1>5, <2>1, <2>2 DEF Typed, CallRecords
<1>7. Placed'
  BY <1>1, <1>3, <1>4 DEF Placed, Left, Starts
<1>8. ms = <<>> => r = 0 /\ pos' = input.ends[call.start]
  <2>1. ms = <<>> => r = 0 /\ Len(ms) = 0
    BY EmptySeq
  <2>2. pos + k + 0 = pos + k
    BY <1>5
  <2> QED
    BY <1>1, <2>1, <2>2, PathZero
<1>9. Standing'
  <2>1. call.start \in Places /\ (call.start \in Places)' = (call.start \in Places)
    BY <1>3 DEF IInv, Standing, Places, Starts
  <2>2. ~Running' => NeverPast' /\ pos' \in Places'
    <3>1. input.ends[call.start] \in Nat
      BY StreamFacts DEF IInv
    <3>2. \A x \in Nat : x <= x
      OBVIOUS
    <3> QED
      BY <1>3, <1>4, <1>8, <3>1, <3>2 DEF NeverPast, Places, Starts, Range
  <2> QED
    BY <2>1, <2>2 DEF Standing, Places, Starts
<1>10. Seen'
  <2> SUFFICES ASSUME NEW t \in Starts, call.start <= t, t < pos + k + r
               PROVE  input.bytes[t + 1] # 193
    BY <1>1, <1>3 DEF Seen, Starts
  <2>1. t \in Nat
    BY StreamFacts DEF IInv
  <2>2. CASE t < pos + rest
    BY <1>2, <2>2 DEF IInv, Seen, Going
  <2>3. CASE pos + rest <= t
    BY <2>3
  <2> QED
    BY <1>5, <2>1, <2>2, <2>3
<1>11. Copied'
  <2> SUFFICES ASSUME call.m \in {"CopyNext", "appendNext"}
               PROVE  out' = SubSeq(input.bytes, call.start + 1, pos')
    BY <1>3 DEF Copied
  <2>1. out = SubSeq(input.bytes, call.start + 1, pos)
    BY <1>2 DEF IInv, Copied, Going
  <2>2. Keeps
    <3>1. todo \in Seq(MethodNames) /\ todo # <<>> /\ call.m \in Patient
      BY DEF IInv, Typed, Running, Patient, Raws
    <3>2. Len(todo) \in Nat /\ Len(todo) >= 1
      BY <3>1, EmptySeq, LenProperties
    <3>3. 1 \in 1..Len(todo) /\ Head(todo) = todo[1]
      BY <3>1, <3>2, HeadTailProperties
    <3> QED
      BY <3>1, <3>3 DEF IInv, Alone, Keeps
  <2> DEFINE a == call.start + 1
             b == pos + k
             n == Len(input.bytes)
  <2>3. a \in 1..(n + 1) /\ pos \in (a - 1)..n /\ b \in pos..n
    <3>0. call.start <= n /\ n \in Nat
      BY <1>5
    <3> HIDE DEF n
    <3>1. a \in 1..(n + 1)
      BY <1>5, <3>0, SMTT(40)
    <3> USE DEF n
    <3>2. pos \in (a - 1)..n
      BY <1>5, SMTT(40)
    <3>3. b \in pos..n
      BY <1>5
    <3> QED
      BY <3>1, <3>2, <3>3
  <2>4. SubSeq(input.bytes, a, pos) \o SubSeq(input.bytes, pos + 1, b)
          = SubSeq(input.bytes, a, b)
    <3> HIDE DEF a, b
    <3>1. input.bytes \in Seq(Byte)
      BY StreamFacts DEF IInv
    <3> QED
      BY <2>3, <3>1, ConcatAdjacentSubSeq
  <2> QED
    BY <1>1, <2>1, <2>2, <2>4
<1>12. Alone' /\ Flat' /\ Prompt'
  <2>1. Alone'
    BY <1>3 DEF Alone
  <2>2. Flat'
    BY <1>1, <1>3, <1>4 DEF Flat
  <2>3. Prompt'
    BY <1>4 DEF Prompt
  <2> QED
    BY <2>1, <2>2, <2>3
<1>13. Ended'
  <2>1. call'.res \in {"ok", "running"}
    BY <1>3
  <2>2. call'.res = "ok" => call'.start \in Starts' /\ pos' = (input.ends[call.start])'
    BY <1>3, <1>8 DEF Starts
  <2> QED
    BY <2>1, <2>2 DEF Ended
<1> QED
  BY <1>6, <1>7, <1>9, <1>10, <1>11, <1>12, <1>13 DEF IInv

(* The method on top.                                                      *)
LEMMA TopIs ==
  ASSUME IInv, Running
  PROVE  /\ Head(todo) = todo[1] /\ Head(todo) \in MethodNames
         /\ Tail(todo) \in Seq(MethodNames) /\ Len(todo) \in Nat /\ Len(todo) > 0
         /\ Len(Tail(todo)) = Len(todo) - 1
         /\ \A i \in 1..(Len(todo) - 1) : Tail(todo)[i] = todo[i + 1]
         /\ call.m \in Patient => Head(todo) = call.m
         /\ call.m \in Leaves => Head(todo) \in Leaves /\ Tail(todo) = <<>>
         /\ call.m \in MethodNames
<1>1. todo \in Seq(MethodNames) /\ todo # <<>>
  BY DEF IInv, Typed, Running
<1>2. Len(todo) \in Nat /\ Len(todo) > 0
  BY <1>1, EmptySeq, LenProperties
<1>3. /\ Head(todo) = todo[1] /\ Head(todo) \in MethodNames
      /\ Tail(todo) \in Seq(MethodNames) /\ Len(Tail(todo)) = Len(todo) - 1
  BY <1>1, HeadTailProperties
<1>4. \A i \in 1..(Len(todo) - 1) : Tail(todo)[i] = todo[i + 1]
  BY <1>1, <1>2
<1>5. call.m \in Patient => Head(todo) = call.m
  <2>1. 1 \in 1..Len(todo)
    BY <1>2
  <2> QED
    BY <1>3, <2>1 DEF IInv, Alone
<1>6. call.m \in Leaves => Head(todo) \in Leaves /\ Tail(todo) = <<>>
  <2> SUFFICES ASSUME call.m \in Leaves PROVE Head(todo) \in Leaves /\ Tail(todo) = <<>>
    OBVIOUS
  <2>1. Len(todo) = 1 /\ todo[1] \in Leaves
    BY DEF IInv, Flat
  <2>2. Tail(todo) # <<>> => Len(Tail(todo)) \in Nat \ {0}
    BY <1>3, EmptySeq
  <2> QED
    BY <1>3, <2>1, <2>2
<1>7. call.m \in MethodNames
  BY DEF IInv, Typed
<1> QED
  BY <1>1, <1>2, <1>3, <1>4, <1>5, <1>6, <1>7

(* What the running method does: it waits, with or without bytes to        *)
(* consume, or it has seen the prefix of an object that lies at pos.       *)
LEMMA OutcomeIs ==
  ASSUME \A s \in Streams : WellFormed(s), IInv, NEW t \in Outcomes
  PROVE  /\ Running
         /\ \/ Asks(t)
            \/ /\ t.do # "ask" /\ rest = 0 /\ Window # <<>>
               /\ call.start \in Starts /\ pos \in Starts
               /\ Path(input.ends, pos, Len(todo), input.ends[call.start])
               /\ Does(Head(todo), t, Window)
         /\ rest > 0 => t.do = "ask"
<1>1. Running
  BY DEF Outcomes
<1>2. t = CASE pc = "drain" ->
                 Ask(1, IF Head(todo) = "CopyNext" THEN "EOF" ELSE "unexpected")
            [] pc = "whole" -> Ask(rest, "unexpected")
            [] OTHER -> Decide(Head(todo), Window)
  BY <1>1 DEF Outcomes
<1>3. /\ rest \in Nat /\ cap \in Nat /\ pos \in Nat /\ buffered \in Nat
      /\ rest > 0 <=> pc \in {"drain", "whole"}
      /\ Len(input.bytes) \in Nat /\ pos + buffered <= Len(input.bytes)
  BY StreamFacts DEF IInv, Typed
<1>4. CASE rest > 0
  <2>1. \/ t = Ask(1, "EOF") \/ t = Ask(1, "unexpected") \/ t = Ask(rest, "unexpected")
    BY <1>2, <1>3, <1>4
  <2> QED
    BY <1>1, <1>3, <1>4, <2>1 DEF Ask, Asks
<1>5. CASE rest = 0
  <2>1. t = Decide(Head(todo), Window)
    BY <1>2, <1>3, <1>5
  <2>2. Head(todo) \in MethodNames
    BY <1>1, TopIs
  <2>3. CASE Window = <<>>
    BY <1>1, <1>5, <2>1, <2>2, <2>3, DecideEmpty
  <2>4. CASE Window # <<>>
    <3>1. Window \in Seq(Byte) /\ Len(Window) = buffered
      BY WindowIs DEF IInv
    <3>2. Does(Head(todo), t, Window)
      BY <1>3, <2>1, <2>2, <2>4, <3>1, DecideDoes
    <3>3. buffered > 0
      BY <2>4, <3>1, EmptySeq
    <3>4. call.start \in Starts
      BY <1>1, <1>3, <3>3 DEF IInv, Placed
    <3>5. Path(input.ends, pos + 0, Len(todo), input.ends[call.start])
      BY <1>1, <1>5, <3>4 DEF IInv, Placed, Left
    <3>6. Path(input.ends, pos, Len(todo), input.ends[call.start])
      <4>1. pos + 0 = pos
        BY <1>3
      <4> QED
        BY <3>5, <4>1
    <3>7. pos \in Starts
      BY <1>1, <3>6, TopIs, PathHead DEF Starts
    <3>8. CASE t.do = "ask"
      <4>1. Asks(t)
        BY <3>2, <3>8 DEF Does, Spoils, Refuses, Delegates, TakesObject
      <4> QED
        BY <1>1, <1>5, <4>1
    <3>9. CASE t.do # "ask"
      BY <1>1, <1>5, <2>4, <3>2, <3>4, <3>6, <3>7, <3>9
    <3> QED
      BY <3>8, <3>9
  <2> QED
    BY <2>3, <2>4
<1> QED
  BY <1>3, <1>4, <1>5

(* No call has consumed more than its object.                              *)
LEMMA Inside ==
  ASSUME \A s \in Streams : WellFormed(s), IInv, Running
  PROVE  /\ Left \in Nat
         /\ call.start \in Starts => /\ input.ends[call.start] \in Nat
                                     /\ pos + rest <= input.ends[call.start]
<1>1. Len(todo) \in Nat /\ Len(todo) > 0
  BY TopIs
<1>2. Left \in Nat
  BY <1>1 DEF Left
<1> QED
  BY <1>2, PathBound DEF IInv, Placed

-----------------------------------------------------------------------------
(* The invariant holds in the initial states, and every action keeps it.   *)

LEMMA InitHolds ==
  ASSUME \A s \in Streams : WellFormed(s), Init
  PROVE  IInv
<1>1. /\ input \in Streams /\ pos = 0 /\ buffered = 0 /\ cap = BufSize /\ todo = <<>>
      /\ pc = "begin" /\ rest = 0
      /\ call = [m |-> "none", start |-> 0, res |-> "ok", io |-> FALSE]
  BY DEF Init
<1>2. ~Running
  BY <1>1 DEF Running
<1>3. Typed
  <2>1. input.bytes \in Seq(Byte) /\ Len(input.bytes) \in Nat
    BY <1>1, ReaderAssumption, LenProperties
  <2>2. <<>> \in Seq(MethodNames)
    BY EmptySeq
  <2>3. /\ BufSize \in Nat /\ BufSize >= BufSize /\ 0 <= BufSize
        /\ 0 + 0 <= Len(input.bytes)
    BY <2>1, ReaderAssumption
  <2> QED
    BY <1>1, <1>2, <2>1, <2>2, <2>3 DEF Typed, Results
<1>4. 0 \in Starts /\ input.ends[0] \in Nat /\ 0 <= input.ends[0]
  BY <1>3, StreamFacts
<1>5. Standing
  BY <1>1, <1>4 DEF Standing, Places, NeverPast
<1>6. Placed /\ Seen /\ Copied /\ Flat /\ Prompt
  BY <1>1, <1>2 DEF Placed, Seen, Copied, Flat, Prompt, Going
<1>7. Alone /\ Ended
  BY <1>1 DEF Alone, Ended, Patient, Raws
<1> QED
  BY <1>3, <1>5, <1>6, <1>7 DEF IInv

LEMMA CallHolds ==
  ASSUME \A s \in Streams : WellFormed(s), IInv, NEW m \in Methods, Call(m)
  PROVE  IInv'
<1>1. /\ ~Running /\ MayGoOn /\ todo' = <<m>> /\ pc' = "begin" /\ rest' = 0 /\ out' = <<>>
      /\ call' = [m |-> m, start |-> pos, res |-> "running", io |-> FALSE]
      /\ input' = input /\ pos' = pos /\ buffered' = buffered /\ cap' = cap
  BY DEF Call
<1>2. m \in MethodNames /\ m # "none" /\ "running" \in Results
  BY ReaderAssumption DEF MethodNames, Results
<1>3. Running' /\ Len(todo') = 1 /\ todo'[1] = m /\ todo' \in Seq(MethodNames)
  BY <1>1, <1>2 DEF Running
<1>4. /\ pos \in Nat /\ buffered \in Nat /\ cap \in Nat /\ Len(input.bytes) \in Nat
      /\ pos + buffered <= Len(input.bytes) /\ buffered <= cap /\ input \in Streams
      /\ cap >= BufSize /\ pos <= pos /\ pos <= Len(input.bytes) /\ pos + 0 = pos
  BY StreamFacts DEF IInv, Typed
<1>5. Typed'
  BY <1>1, <1>2, <1>3, <1>4 DEF Typed
<1>6. pos \in Places
  BY <1>1 DEF IInv, Standing
<1>7. Placed'
  <2>1. CASE pos \in Starts
    <3>1. /\ pos \in DOMAIN input.ends /\ input.ends[pos] \in Nat /\ pos <= input.ends[pos]
      BY <1>4, <2>1, StreamFacts DEF IInv, Starts
    <3>2. Path(input.ends, pos, 1, input.ends[pos])
      BY <1>4, <3>1, PathOne
    <3> QED
      BY <1>1, <1>3, <1>4, <2>1, <3>2 DEF Placed, Left, Starts
  <2>2. CASE pos \notin Starts
    <3>1. PICK p \in Starts : pos = input.ends[p]
      BY <1>6, <2>2 DEF Places, Range, Starts
    <3>2. pos >= Len(input.bytes)
      BY <2>2, <3>1, StreamFacts DEF IInv
    <3>3. pos = Len(input.bytes)
      BY <1>4, <3>2
    <3> QED
      BY <1>1, <1>3, <2>2, <3>3 DEF Placed, Starts
  <2> QED
    BY <2>1, <2>2
<1>8. Standing'
  BY <1>1, <1>3, <1>6 DEF Standing, Places, Starts
<1>9. Seen'
  <2> SUFFICES ASSUME NEW t \in Starts, pos <= t, t < pos + 0 PROVE FALSE
    BY <1>1 DEF Seen, Starts
  <2>1. t \in Nat
    BY StreamFacts DEF IInv
  <2>2. \A x, y \in Nat : ~(x <= y /\ y < x)
    OBVIOUS
  <2> QED
    BY <1>4, <2>1, <2>2, Zenon
<1>10. Copied'
  <2>1. SubSeq(input.bytes, pos + 1, pos) = <<>>
    <3>1. pos + 1 \in Int /\ pos \in Int /\ pos < pos + 1
      BY <1>4
    <3> QED
      BY <3>1, SubSeqEmpty
  <2> QED
    BY <1>1, <2>1 DEF Copied
<1>11. Alone' /\ Flat' /\ Prompt' /\ Ended'
  <2>1. Alone'
    <3>1. \A i \in 1..Len(todo') : i = 1
      BY <1>3
    <3> QED
      BY <1>1, <1>3, <3>1 DEF Alone
  <2>2. Flat' /\ Prompt'
    BY <1>1, <1>3 DEF Flat, Prompt
  <2>3. Ended'
    BY <1>1 DEF Ended
  <2> QED
    BY <2>1, <2>2, <2>3
<1> QED
  BY <1>5, <1>7, <1>8, <1>9, <1>10, <1>11 DEF IInv

LEMMA FillHolds ==
  ASSUME \A s \in Streams : WellFormed(s), IInv, NEW t \in Outcomes, NEW c \in Chunks,
         Fill(t, c)
  PROVE  IInv'
<1> DEFINE size == IF cap < t.n THEN t.n + buffered ELSE cap
           l == Len(input.bytes) - pos - buffered
           k == Min({c, size - buffered, l})
<1>1. /\ Waits(t) /\ cap' = size /\ buffered' = buffered + k
      /\ pc' = IF pc = "begin" THEN "sizing" ELSE pc
      /\ input' = input /\ pos' = pos /\ todo' = todo /\ rest' = rest /\ out' = out
      /\ call' = call
  BY DEF Fill
<1>2. /\ pos \in Nat /\ buffered \in Nat /\ cap \in Nat /\ Len(input.bytes) \in Nat
      /\ pos + buffered <= Len(input.bytes) /\ buffered <= cap /\ cap >= BufSize
      /\ BufSize \in Nat /\ c \in Nat
  BY StreamFacts, ReaderAssumption DEF IInv, Typed
<1>3. t.n \in Nat
  BY <1>1, OutcomeIs DEF Waits, Asks
<1>4. size \in Nat /\ buffered <= size /\ size >= BufSize
  BY <1>2, <1>3
<1>5. l \in Nat /\ l = Len(input.bytes) - pos - buffered
  BY <1>2
<1> HIDE DEF size, l
<1>6. k \in Nat /\ k <= size - buffered /\ k <= l
  <2>1. c \in Int /\ size - buffered \in Nat /\ size - buffered \in Int /\ l \in Int
    BY <1>2, <1>4, <1>5
  <2>2. k \in {c, size - buffered, l} /\ k <= size - buffered /\ k <= l
    BY <2>1, MinThree
  <2> QED
    BY <1>2, <1>5, <2>1, <2>2
<1> HIDE DEF k
<1>7. /\ buffered' \in Nat /\ buffered' <= size /\ pos + buffered' <= Len(input.bytes)
  BY <1>1, <1>2, <1>4, <1>5, <1>6
<1>8. Typed'
  <2>1. pc \in {"begin", "sizing", "drain", "whole"} /\ (rest > 0 <=> pc \in {"drain", "whole"})
    BY DEF IInv, Typed
  <2>2. pc' \in {"begin", "sizing", "drain", "whole"} /\ (rest > 0 <=> pc' \in {"drain", "whole"})
    BY <1>1, <2>1
  <2> QED
    BY <1>1, <1>2, <1>4, <1>7, <2>2 DEF IInv, Typed, Running
<1>9. Placed' /\ Standing'
  BY <1>1 DEF IInv, Placed, Standing, Running, Left, Starts, Places, NeverPast, MayGoOn
<1>10. Seen' /\ Copied' /\ Alone' /\ Flat' /\ Prompt' /\ Ended'
  BY <1>1 DEF IInv, Seen, Copied, Alone, Flat, Prompt, Ended, Going, Running, Starts
<1> QED
  BY <1>8, <1>9, <1>10 DEF IInv

LEMMA FailsHolds ==
  ASSUME \A s \in Streams : WellFormed(s), IInv, NEW t \in Outcomes, Fails(t)
  PROVE  IInv'
<1>1. /\ t.do = "err" /\ Consume(t.n) /\ Return(t.e, FALSE) /\ input' = input /\ cap' = cap
  BY DEF Fails
<1>2. /\ Running /\ rest = 0 /\ Window # <<>> /\ call.start \in Starts /\ pos \in Starts
      /\ Path(input.ends, pos, Len(todo), input.ends[call.start])
      /\ Does(Head(todo), t, Window)
  BY <1>1, OutcomeIs DEF Asks
<1>3. Refuses(Head(todo), t) \/ (Head(todo) \notin Raws /\ Spoils(t, Window))
  BY <1>1, <1>2 DEF Does, Asks, Delegates, TakesObject
<1>4. /\ pos \in Nat /\ buffered \in Nat /\ pos' = pos + t.n /\ buffered' = buffered - t.n
  BY <1>1 DEF Consume, IInv, Typed
<1>5. /\ input.ends[pos] \in Nat /\ input.ends[pos] <= input.ends[call.start]
      /\ input.ends[call.start] \in Nat /\ pos <= input.ends[call.start]
  <2>1. Len(todo) \in Nat /\ Len(todo) > 0
    BY <1>2, TopIs
  <2> QED
    BY <1>2, <2>1, PathHead, PathBound
<1>6. /\ call.m \in Leaves => pos = call.start
      /\ call.m \notin Nested => call.m \in Leaves \/ Head(todo) \in Raws
  <2>1. call.m \in MethodNames /\ (call.m \in Patient => Head(todo) = call.m)
    BY <1>2, TopIs
  <2> QED
    BY <1>2, <2>1 DEF IInv, Flat, Leaves, Patient
<1>7. FALSE \in BOOLEAN
  OBVIOUS
<1>8. CASE Refuses(Head(todo), t)
  <2>1. /\ t.n = 0 /\ t.e \in {"invalid", "short", "type", "array", "ext"}
        /\ Head(todo) \in Raws => t.e \in {"invalid", "short"}
    BY <1>8 DEF Refuses
  <2>2. t.e \in Results \ {"running", "ok"}
    BY <2>1 DEF Results
  <2>3. 0 \in Nat /\ 0 <= buffered /\ pos + 0 = pos
    BY <1>4
  <2>4. pos + 0 \in Places
    BY <1>2, <2>3 DEF Places
  <2>5. t.e \in {"type", "array", "ext"} /\ call.m \notin Nested => pos + 0 = call.start
    BY <1>6, <2>1, <2>3
  <2>6. t.e # "overflow"
    BY <2>1
  <2> QED
    BY <1>1, <1>2, <1>4, <1>5, <1>7, <2>1, <2>2, <2>3, <2>4, <2>5, <2>6, Stops
<1>9. CASE Head(todo) \notin Raws /\ Spoils(t, Window)
  <2> DEFINE g == G(Window)
  <2>1. /\ Whole(Window) /\ t.n \in Nat /\ t.n <= Len(Window) /\ t.n <= g.v
        /\ t.e = "short" \/ (t.e = "overflow" /\ t.n = g.v /\ g.o = 0)
    BY <1>9 DEF Spoils
  <2>2. /\ Path(input.ends, pos + g.v, g.o, input.ends[pos]) /\ g.v \in Nat /\ g.o \in Nat
    BY <1>2, <2>1, ObjectHere DEF IInv
  <2> HIDE DEF g
  <2>3. pos + g.v <= input.ends[pos] /\ (g.o = 0 => pos + g.v = input.ends[pos])
    BY <2>2, PathBound, PathZero
  <2>4. t.n <= buffered
    BY <2>1, WindowIs DEF IInv
  <2>5. pos + t.n <= input.ends[call.start]
    <3> DEFINE e == input.ends[pos]
               f == input.ends[call.start]
               k == t.n
    <3>1. k \in Nat /\ k <= g.v /\ g.v \in Nat
      BY <2>1, <2>2
    <3>2. pos \in Nat /\ e \in Nat /\ f \in Nat /\ e <= f /\ pos + g.v <= e
      BY <1>4, <1>5, <2>3
    <3> HIDE DEF e, f, k
    <3>3. pos + k <= f
      BY <3>1, <3>2
    <3> QED
      BY <3>3 DEF f, k
  <2>6. t.e \in Results \ {"running", "ok"}
    BY <2>1 DEF Results
  <2>7. t.e \in Resumable => pos + t.n \in Places
    <3>1. t.e \in Resumable => t.e = "overflow"
      BY <2>1 DEF Resumable
    <3> QED
      BY <1>2, <2>1, <2>3, <3>1 DEF Places, Range, Starts
  <2>8. t.e \notin {"type", "array", "ext"}
    BY <2>1
  <2>9. t.e = "overflow" /\ call.m \notin Nested => pos + t.n = input.ends[call.start]
    BY <1>6, <1>9, <2>1, <2>3
  <2> QED
    BY <1>1, <1>2, <1>4, <1>7, <2>1, <2>4, <2>5, <2>6, <2>7, <2>8, <2>9, Stops
<1> QED
  BY <1>3, <1>8, <1>9

(* Methods one behind the other.                                           *)
LEMMA Joined ==
  ASSUME NEW a \in Seq(MethodNames), NEW b \in Seq(MethodNames)
  PROVE  /\ a \o b \in Seq(MethodNames) /\ Len(a \o b) = Len(a) + Len(b)
         /\ Len(a) \in Nat /\ Len(b) \in Nat
         /\ Len(a) > 0 => (a \o b)[1] = a[1]
         /\ \A x : (\A i \in 1..Len(a) : a[i] = x) /\ (\A i \in 1..Len(b) : b[i] = x)
              => \A i \in 1..Len(a \o b) : (a \o b)[i] = x
         /\ Len(a) = 0 /\ b = <<>> => a \o b = <<>>
<1> DEFINE c == a \o b
<1>1. /\ c \in Seq(MethodNames) /\ Len(c) = Len(a) + Len(b)
      /\ \A i \in 1..(Len(a) + Len(b)) : c[i] = IF i <= Len(a) THEN a[i] ELSE b[i - Len(a)]
  BY ConcatProperties
<1>2. Len(a) \in Nat /\ Len(b) \in Nat
  BY LenProperties
<1> HIDE DEF c
<1>3. Len(a) > 0 => c[1] = a[1]
  <2>1. Len(a) > 0 => 1 \in 1..(Len(a) + Len(b)) /\ 1 <= Len(a)
    BY <1>2
  <2> QED
    BY <1>1, <2>1
<1>4. ASSUME NEW x, \A i \in 1..Len(a) : a[i] = x, \A i \in 1..Len(b) : b[i] = x,
             NEW i \in 1..Len(c)
      PROVE  c[i] = x
  <2>1. i \in 1..(Len(a) + Len(b))
    BY <1>1
  <2>2. CASE i <= Len(a)
    <3>1. i \in 1..Len(a)
      BY <1>2, <2>1, <2>2
    <3> QED
      BY <1>1, <1>4, <2>1, <2>2, <3>1
  <2>3. CASE ~(i <= Len(a))
    <3>1. i - Len(a) \in 1..Len(b)
      BY <1>2, <2>1, <2>3
    <3> QED
      BY <1>1, <1>4, <2>1, <2>3, <3>1
  <2> QED
    BY <2>2, <2>3
<1>5. Len(a) = 0 /\ b = <<>> => c = <<>>
  <2>1. b = <<>> => Len(b) = 0
    BY EmptySeq
  <2>2. c # <<>> => Len(c) \in Nat \ {0}
    BY <1>1, EmptySeq
  <2> QED
    BY <1>1, <1>2, <2>1, <2>2
<1>6. \A x : (\A i \in 1..Len(a) : a[i] = x) /\ (\A i \in 1..Len(b) : b[i] = x)
               => \A i \in 1..Len(c) : c[i] = x
  BY <1>4
<1> QED
  BY <1>1, <1>2, <1>3, <1>5, <1>6 DEF c

(* A method leaves its object to another one.                              *)
LEMMA DelegateHolds ==
  ASSUME \A s \in Streams : WellFormed(s), IInv, Running, call.start \in Starts, rest = 0,
         Path(input.ends, pos, Len(todo), input.ends[call.start]),
         NEW r \in MethodNames, Head(todo) \notin Nested => r \in Leaves,
         Head(todo) \notin Patient, Consume(0), Continue(<<r>> \o Tail(todo)),
         input' = input, cap' = cap
  PROVE  IInv'
<1> DEFINE ms == <<r>> \o Tail(todo)
<1>1. /\ Tail(todo) \in Seq(MethodNames) /\ Len(todo) \in Nat /\ Len(todo) > 0
      /\ Len(Tail(todo)) = Len(todo) - 1
      /\ call.m \in Patient => Head(todo) = call.m
      /\ call.m \in Leaves => Head(todo) \in Leaves /\ Tail(todo) = <<>>
  BY TopIs
<1>2. <<r>> \in Seq(MethodNames) /\ Len(<<r>>) = 1 /\ <<r>>[1] = r
  OBVIOUS
<1>3. ms \in Seq(MethodNames) /\ Len(ms) = Len(todo) /\ ms[1] = r
  <2>1. ms \in Seq(MethodNames) /\ Len(ms) = 1 + (Len(todo) - 1) /\ ms[1] = r
    BY <1>1, <1>2, Joined
  <2> QED
    BY <1>1, <2>1
<1>4. todo' = ms /\ pc' = "begin" /\ rest' = 0
      /\ call' = IF ms = <<>> THEN [call EXCEPT !.res = "ok"] ELSE call
  BY DEF Continue
<1> HIDE DEF ms
<1>5. pos \in Nat /\ buffered \in Nat
  BY DEF IInv, Typed
<1>6. pos + 0 + 0 = pos /\ pos + 0 = pos /\ 0 <= buffered /\ 0 \in Nat /\ ~(0 > 0)
  BY <1>5
<1>7. Path(input.ends, pos + 0 + 0, IF 0 = 0 THEN Len(ms) ELSE Len(ms) - 1,
           input.ends[call.start])
  BY <1>3, <1>6
<1>8. \A t \in Starts : pos + rest <= t /\ t < pos + 0 + 0 => input.bytes[t + 1] # 193
  <2>1. \A t \in Starts : t \in Nat
    BY StreamFacts DEF IInv
  <2> QED
    BY <1>5, <2>1
<1>9. call.m \notin Patient
  BY <1>1
<1>10. call.m \in Leaves => Len(ms) = 1 /\ ms[1] \in Leaves /\ pos + 0 = call.start
  BY <1>1, <1>3, <1>6 DEF Leaves, IInv, Flat
<1> QED
  BY <1>3, <1>4, <1>6, <1>7, <1>8, <1>9, <1>10, GoesOn

(* A method takes its object, and leaves those inside to others.           *)
LEMMA ObjectHolds ==
  ASSUME \A s \in Streams : WellFormed(s), IInv, Running, call.start \in Starts, rest = 0,
         Path(input.ends, pos, Len(todo), input.ends[call.start]), pos \in Starts,
         Window # <<>>, NEW t, TakesObject(Head(todo), t, Window), Takes(t)
  PROVE  IInv'
<1> DEFINE g == G(Window)
           k == t.n
           r == t.body
           m == Head(todo)
           tl == Tail(todo)
           kids == t.kids
           ms == IF r = 0 THEN kids \o tl ELSE <<m>> \o kids \o tl
<1>1. /\ tl \in Seq(MethodNames) /\ Len(todo) \in Nat /\ Len(todo) > 0
      /\ Len(tl) = Len(todo) - 1 /\ m \in MethodNames
      /\ \A i \in 1..(Len(todo) - 1) : tl[i] = todo[i + 1]
      /\ call.m \in Patient => m = call.m
      /\ call.m \in Leaves => m \in Leaves /\ tl = <<>>
  BY TopIs
<1>2. /\ Whole(Window) /\ k \in Nat /\ r \in Nat /\ k <= Len(Window) /\ k + r = g.v
      /\ t.as \in {"drain", "whole"} /\ kids \in Seq(MethodNames) /\ Len(kids) = g.o
      /\ m \in Raws => \A i \in 1..g.o : kids[i] = m
      /\ m \notin Nested \cup Raws => g.o = 0
      /\ m = "ReadFloat64" => r = 0
  BY DEF TakesObject
<1>3. /\ Path(input.ends, pos + g.v, g.o, input.ends[pos]) /\ g.v \in Nat /\ g.o \in Nat
      /\ \A q \in Starts : ~(pos < q /\ q < pos + g.v)
      /\ input.bytes[pos + 1] # 193
  BY <1>2, ObjectHere DEF IInv
<1>4. m \in Patient => \A i \in 1..Len(kids) : kids[i] = m
  <2>1. m \in Patient => m \in Raws \/ m \notin Nested \cup Raws
    BY DEF Patient, Nested, Raws
  <2>2. g.o = 0 => \A i \in 1..Len(kids) : FALSE
    BY <1>2
  <2> QED
    BY <1>2, <2>1, <2>2
<1>5. k <= buffered
  BY <1>2, WindowIs DEF IInv
<1>6. /\ Consume(k) /\ input' = input /\ cap' = cap
      /\ IF r = 0 THEN Continue(kids \o tl)
         ELSE todo' = <<m>> \o kids \o tl /\ pc' = t.as /\ rest' = r /\ call' = call
  BY DEF Takes
<1> HIDE DEF g, k, r, m, tl, kids
<1>7. <<m>> \in Seq(MethodNames) /\ Len(<<m>>) = 1 /\ <<m>>[1] = m
      /\ \A i \in 1..1 : <<m>>[i] = m
  BY <1>1
<1>8. /\ kids \o tl \in Seq(MethodNames) /\ Len(kids \o tl) = g.o + (Len(todo) - 1)
      /\ call.m \in Patient => \A i \in 1..Len(kids \o tl) : (kids \o tl)[i] = call.m
      /\ call.m \in Leaves => kids \o tl = <<>>
  <2>1. call.m \in Patient => \A i \in 1..Len(tl) : tl[i] = call.m
    <3>1. \A i \in 1..(Len(todo) - 1) : i + 1 \in 1..Len(todo)
      BY <1>1
    <3> QED
      BY <1>1, <3>1 DEF IInv, Alone
  <2>2. call.m \in Leaves => g.o = 0 /\ tl = <<>>
    BY <1>1, <1>2 DEF Leaves
  <2>3. call.m \in Patient => \A i \in 1..Len(kids) : kids[i] = call.m
    BY <1>1, <1>4
  <2>4. /\ kids \in Seq(MethodNames) /\ tl \in Seq(MethodNames)
        /\ Len(kids) = g.o /\ Len(tl) = Len(todo) - 1
    BY <1>1, <1>2
  <2>5. kids \o tl \in Seq(MethodNames) /\ Len(kids \o tl) = g.o + (Len(todo) - 1)
    <3>1. kids \o tl \in Seq(MethodNames) /\ Len(kids \o tl) = Len(kids) + Len(tl)
      BY <2>4, Joined, Zenon
    <3> QED
      BY <2>4, <3>1, Zenon
  <2>6. call.m \in Patient => \A i \in 1..Len(kids \o tl) : (kids \o tl)[i] = call.m
    <3>1. \A x : (\A i \in 1..Len(kids) : kids[i] = x) /\ (\A i \in 1..Len(tl) : tl[i] = x)
            => \A i \in 1..Len(kids \o tl) : (kids \o tl)[i] = x
      BY <2>4, Joined, Zenon
    <3> QED
      BY <2>1, <2>3, <3>1, Zenon
  <2>7. call.m \in Leaves => kids \o tl = <<>>
    BY <2>2, <2>4, Joined, Zenon
  <2> QED
    BY <2>5, <2>6, <2>7
<1>9. /\ <<m>> \o kids \in Seq(MethodNames) /\ Len(<<m>> \o kids) = 1 + g.o
      /\ Len(<<m>> \o kids) > 0 /\ (<<m>> \o kids)[1] = m
      /\ call.m \in Patient => \A i \in 1..Len(<<m>> \o kids) : (<<m>> \o kids)[i] = call.m
  <2>1. /\ <<m>> \o kids \in Seq(MethodNames) /\ Len(<<m>> \o kids) = 1 + g.o
        /\ (<<m>> \o kids)[1] = m
    BY <1>2, <1>7, Joined
  <2>2. 1 + g.o > 0
    BY <1>3
  <2>3. call.m \in Patient => \A i \in 1..Len(<<m>> \o kids) : (<<m>> \o kids)[i] = call.m
    <3>1. call.m \in Patient => /\ \A i \in 1..Len(<<m>>) : <<m>>[i] = call.m
                             /\ \A i \in 1..Len(kids) : kids[i] = call.m
      BY <1>1, <1>7, <1>4
    <3> QED
      BY <1>2, <1>7, <3>1, Joined
  <2> QED
    BY <2>1, <2>2, <2>3
<1>10. /\ <<m>> \o kids \o tl \in Seq(MethodNames)
       /\ Len(<<m>> \o kids \o tl) = (1 + g.o) + (Len(todo) - 1)
       /\ (<<m>> \o kids \o tl)[1] = m
       /\ call.m \in Patient =>
            \A i \in 1..Len(<<m>> \o kids \o tl) : (<<m>> \o kids \o tl)[i] = call.m
  <2>1. call.m \in Patient => \A i \in 1..Len(tl) : tl[i] = call.m
    <3>1. \A i \in 1..(Len(todo) - 1) : i + 1 \in 1..Len(todo)
      BY <1>1
    <3> QED
      BY <1>1, <3>1 DEF IInv, Alone
  <2> DEFINE a == <<m>> \o kids
  <2>2. /\ a \in Seq(MethodNames) /\ Len(a) = 1 + g.o /\ Len(a) > 0 /\ a[1] = m
        /\ call.m \in Patient => \A i \in 1..Len(a) : a[i] = call.m
    BY <1>9
  <2> HIDE DEF a
  <2>3. /\ a \o tl \in Seq(MethodNames) /\ Len(a \o tl) = (1 + g.o) + (Len(todo) - 1)
        /\ (a \o tl)[1] = m
        /\ call.m \in Patient => \A i \in 1..Len(a \o tl) : (a \o tl)[i] = call.m
    <3>1. Len(a \o tl) = Len(a) + Len(tl) /\ a \o tl \in Seq(MethodNames)
      BY <1>1, <2>2, Joined
    <3>2. (a \o tl)[1] = m
      BY <1>1, <2>2, Joined, Zenon
    <3>3. call.m \in Patient => \A i \in 1..Len(a \o tl) : (a \o tl)[i] = call.m
      BY <1>1, <2>1, <2>2, Joined, Zenon
    <3> QED
      BY <1>1, <2>2, <3>1, <3>2, <3>3
  <2> QED
    BY <2>3 DEF a
<1>11. Path(input.ends, pos + g.v, g.o + (Len(todo) - 1), input.ends[call.start])
  BY <1>1, <1>3, PathOpen
<1>12. pos \in Nat /\ rest \in Nat /\ pos + k + r = pos + g.v
  BY <1>2, <1>3 DEF IInv, Typed
<1>13. \A q \in Starts : pos + rest <= q /\ q < pos + k + r => input.bytes[q + 1] # 193
  <2> SUFFICES ASSUME NEW q \in Starts, pos + rest <= q, q < pos + k + r
               PROVE  input.bytes[q + 1] # 193
    OBVIOUS
  <2>1. q \in Nat
    BY StreamFacts DEF IInv
  <2>2. q = pos \/ (pos < q /\ q < pos + g.v)
    BY <1>12, <2>1
  <2> QED
    BY <1>3, <2>2
<1>14. CASE r = 0
  <2>1. /\ todo' = kids \o tl /\ pc' = "begin" /\ rest' = 0
        /\ call' = IF kids \o tl = <<>> THEN [call EXCEPT !.res = "ok"] ELSE call
    BY <1>6, <1>14 DEF Continue
  <2>2. Path(input.ends, pos + k + 0, IF 0 = 0 THEN Len(kids \o tl) ELSE Len(kids \o tl) - 1,
             input.ends[call.start])
    BY <1>8, <1>11, <1>12, <1>14
  <2>3. 0 \in Nat /\ ~(0 > 0)
    OBVIOUS
  <2> DEFINE ns == kids \o tl
  <2>4. /\ ns \in Seq(MethodNames) /\ (call.m \in Leaves => ns = <<>>)
        /\ call.m \in Patient => \A i \in 1..Len(ns) : ns[i] = call.m
    BY <1>8
  <2> HIDE DEF ns
  <2>5. todo' = ns /\ call' = IF ns = <<>> THEN [call EXCEPT !.res = "ok"] ELSE call
    BY <2>1 DEF ns
  <2>6. Path(input.ends, pos + k + 0, IF 0 = 0 THEN Len(ns) ELSE Len(ns) - 1,
             input.ends[call.start])
    BY <2>2 DEF ns
  <2>7. \A q \in Starts : pos + rest <= q /\ q < pos + k + 0 => input.bytes[q + 1] # 193
    BY <1>13, <1>14
  <2> QED
    BY <1>2, <1>5, <1>6, <2>1, <2>3, <2>4, <2>5, <2>6, <2>7, GoesOn
<1>15. CASE r # 0
  <2> DEFINE ns == <<m>> \o kids \o tl
  <2>1. /\ todo' = ns /\ pc' = t.as /\ rest' = r /\ call' = call
    BY <1>6, <1>15
  <2>2. /\ ns \in Seq(MethodNames) /\ Len(ns) = (1 + g.o) + (Len(todo) - 1) /\ ns[1] = m
        /\ call.m \in Patient => \A i \in 1..Len(ns) : ns[i] = call.m
    BY <1>10
  <2> HIDE DEF ns
  <2>3. Len(ns) - 1 = g.o + (Len(todo) - 1) /\ Len(ns) > 0 /\ r > 0
    BY <1>1, <1>2, <1>3, <1>15, <2>2, SMTT(40)
  <2>4. ns # <<>>
    <3>1. ns = <<>> => Len(ns) = 0
      BY EmptySeq
    <3> QED
      BY <2>3, <3>1
  <2>5. Path(input.ends, pos + k + r, IF r = 0 THEN Len(ns) ELSE Len(ns) - 1,
             input.ends[call.start])
    BY <1>11, <1>12, <1>15, <2>3
  <2>6. call.m \in Leaves => Len(ns) = 1 /\ ns[1] \in Leaves
    <3>1. call.m \in Leaves => m \in Leaves /\ tl = <<>> /\ g.o = 0
      BY <1>1, <1>2 DEF Leaves
    <3>2. tl = <<>> => Len(todo) - 1 = 0
      BY <1>1, EmptySeq
    <3>3. \A x, y : x = 0 /\ y = 0 => (1 + x) + y = 1
      OBVIOUS
    <3> QED
      BY <2>2, <3>1, <3>2, <3>3, Zenon
  <2>7. call' = IF ns = <<>> THEN [call EXCEPT !.res = "ok"] ELSE call
    BY <2>1, <2>4
  <2>8. pc' \in {"begin", "sizing", "drain", "whole"} /\ (r > 0 <=> pc' \in {"drain", "whole"})
    BY <1>2, <2>1, <2>3
  <2>9. ns # <<>> /\ ns[1] = "ReadFloat64" => r = 0
    BY <1>2, <2>2
  <2>10. call.m \in Leaves /\ ns # <<>> =>
           Len(ns) = 1 /\ ns[1] \in Leaves /\ (r = 0 => pos + k = call.start)
    BY <1>15, <2>6
  <2>11. r > 0 => ns # <<>>
    BY <2>4
  <2> QED
    BY <1>2, <1>5, <1>6, <1>13, <2>1, <2>2, <2>5, <2>7, <2>8, <2>9, <2>10, <2>11, GoesOn
<1> QED
  BY <1>14, <1>15

LEMMA TakesHolds ==
  ASSUME \A s \in Streams : WellFormed(s), IInv, NEW t \in Outcomes, Takes(t)
  PROVE  IInv'
<1>1. t.do = "take"
  BY DEF Takes
<1>2. /\ Running /\ rest = 0 /\ Window # <<>> /\ call.start \in Starts /\ pos \in Starts
      /\ Path(input.ends, pos, Len(todo), input.ends[call.start])
      /\ Does(Head(todo), t, Window)
  BY <1>1, OutcomeIs DEF Asks
<1>3. Delegates(Head(todo), t) \/ TakesObject(Head(todo), t, Window)
  BY <1>1, <1>2 DEF Does, Asks, Refuses, Spoils
<1>4. CASE Delegates(Head(todo), t)
  <2>1. PICK r \in MethodNames : t.kids = <<r>> /\ (Head(todo) \notin Nested => r \in Leaves)
    BY <1>4 DEF Delegates
  <2>2. t.n = 0 /\ t.body = 0 /\ Head(todo) \notin Patient
    BY <1>4 DEF Delegates
  <2>3. Consume(0) /\ Continue(<<r>> \o Tail(todo)) /\ input' = input /\ cap' = cap
    BY <2>1, <2>2 DEF Takes
  <2> QED
    BY <1>2, <2>1, <2>2, <2>3, DelegateHolds
<1>5. CASE TakesObject(Head(todo), t, Window)
  BY <1>2, <1>5, ObjectHolds
<1> QED
  BY <1>3, <1>4, <1>5

LEMMA DrainsHolds ==
  ASSUME \A s \in Streams : WellFormed(s), IInv, NEW t \in Outcomes, Drains(t)
  PROVE  IInv'
<1> DEFINE k == Min({buffered, rest})
<1>1. /\ pc \in {"drain", "whole"} /\ Consume(k) /\ input' = input /\ cap' = cap
      /\ IF k = rest THEN Continue(Tail(todo))
         ELSE rest' = rest - k /\ todo' = todo /\ pc' = pc /\ call' = call
  BY DEF Drains
<1>2. /\ Running /\ rest > 0 /\ rest \in Nat /\ buffered \in Nat /\ pos \in Nat
      /\ todo \in Seq(MethodNames) /\ todo # <<>>
  BY <1>1 DEF IInv, Typed, Running
<1>3. k \in Nat /\ k <= buffered /\ k <= rest
  <2>1. k \in {buffered, rest} /\ k <= buffered /\ k <= rest
    <3>1. buffered \in Int /\ rest \in Int
      BY <1>2
    <3> QED
      BY <3>1, MinTwo
  <2> QED
    BY <1>2, <2>1
<1> HIDE DEF k
<1>4. /\ call.start \in Starts
      /\ Path(input.ends, pos + rest, Len(todo) - 1, input.ends[call.start])
  BY <1>2 DEF IInv, Placed, Left
<1>5. /\ Tail(todo) \in Seq(MethodNames) /\ Len(todo) \in Nat /\ Len(todo) > 0
      /\ Len(Tail(todo)) = Len(todo) - 1
      /\ \A i \in 1..(Len(todo) - 1) : Tail(todo)[i] = todo[i + 1]
      /\ call.m \in Leaves => Tail(todo) = <<>>
  BY <1>2, TopIs
<1>6. \A q \in Starts : q \in Nat
  BY StreamFacts DEF IInv
<1>7. CASE k = rest
  <2> DEFINE ms == Tail(todo)
  <2>1. /\ todo' = ms /\ pc' = "begin" /\ rest' = 0
        /\ call' = IF ms = <<>> THEN [call EXCEPT !.res = "ok"] ELSE call
    BY <1>1, <1>7 DEF Continue
  <2>2. /\ ms \in Seq(MethodNames) /\ Len(ms) = Len(todo) - 1
        /\ call.m \in Leaves => ms = <<>>
    BY <1>5
  <2>3. call.m \in Patient => \A i \in 1..Len(ms) : ms[i] = call.m
    <3>1. \A i \in 1..(Len(todo) - 1) : i + 1 \in 1..Len(todo)
      BY <1>5
    <3> QED
      BY <1>5, <3>1 DEF IInv, Alone
  <2> HIDE DEF ms
  <2>4. pos + k + 0 = pos + rest /\ 0 \in Nat /\ ~(0 > 0)
    BY <1>2, <1>7
  <2>5. Path(input.ends, pos + k + 0, IF 0 = 0 THEN Len(ms) ELSE Len(ms) - 1,
             input.ends[call.start])
    BY <1>4, <2>2, <2>4
  <2>6. \A q \in Starts : pos + rest <= q /\ q < pos + k + 0 => input.bytes[q + 1] # 193
    BY <1>2, <1>6, <2>4
  <2> QED
    BY <1>1, <1>2, <1>3, <1>4, <2>1, <2>2, <2>3, <2>4, <2>5, <2>6, GoesOn
<1>8. CASE k # rest
  <2>1. rest' = rest - k /\ todo' = todo /\ pc' = pc /\ call' = call
    BY <1>1, <1>8
  <2> DEFINE r == rest - k
  <2>2. r \in Nat /\ r > 0 /\ r # 0 /\ pos + k + r = pos + rest
    BY <1>2, <1>3, <1>8
  <2> HIDE DEF r
  <2>3. rest' = r
    BY <2>1 DEF r
  <2>4. Path(input.ends, pos + k + r, IF r = 0 THEN Len(todo) ELSE Len(todo) - 1,
             input.ends[call.start])
    BY <1>4, <2>2
  <2>5. \A q \in Starts : pos + rest <= q /\ q < pos + k + r => input.bytes[q + 1] # 193
    BY <1>2, <1>6, <2>2
  <2>6. call' = IF todo = <<>> THEN [call EXCEPT !.res = "ok"] ELSE call
    BY <1>2, <2>1
  <2>7. pc' \in {"begin", "sizing", "drain", "whole"} /\ (r > 0 <=> pc' \in {"drain", "whole"})
    BY <1>1, <2>1, <2>2
  <2>8. call.m \in Patient => \A i \in 1..Len(todo) : todo[i] = call.m
    BY DEF IInv, Alone
  <2>9. call.m \in Leaves /\ todo # <<>> =>
          Len(todo) = 1 /\ todo[1] \in Leaves /\ (r = 0 => pos + k = call.start)
    BY <1>2, <2>2 DEF IInv, Flat
  <2>10. todo # <<>> /\ todo[1] = "ReadFloat64" => r = 0
    BY <1>2 DEF IInv, Prompt
  <2>11. r > 0 => todo # <<>>
    BY <1>2
  <2> QED
    BY <1>1, <1>2, <1>3, <1>4, <2>1, <2>2, <2>3, <2>4, <2>5, <2>6, <2>7, <2>8, <2>9,
       <2>10, <2>11, GoesOn
<1> QED
  BY <1>7, <1>8

(* A call that fails where it stands, other than with a resumable error.   *)
LEMMA StopsHere ==
  ASSUME \A s \in Streams : WellFormed(s), IInv, Running, NEW e, NEW i \in BOOLEAN,
         e \in {"EOF", "unexpected", "short", "io", "unmarshal"}, Return(e, i),
         input' = input, cap' = cap, pos' = pos, buffered' = buffered
  PROVE  IInv'
<1>1. pos \in Nat /\ buffered \in Nat /\ rest \in Nat
  BY DEF IInv, Typed
<1>2. 0 \in Nat /\ 0 <= buffered /\ pos' = pos + 0 /\ buffered' = buffered - 0
  BY <1>1
<1>3. e \in Results \ {"running", "ok"} /\ e \notin Resumable
      /\ e \notin {"type", "array", "ext"} /\ e # "overflow"
  BY DEF Results, Resumable
<1>4. call.start \in Starts => pos + 0 <= input.ends[call.start]
  BY <1>1, Inside
<1> QED
  BY <1>2, <1>3, <1>4, Stops

LEMMA EndHolds ==
  ASSUME \A s \in Streams : WellFormed(s), IInv, NEW t \in Outcomes, EndOfStream(t)
  PROVE  IInv'
<1>1. /\ Waits(t) /\ input' = input /\ cap' = cap /\ pos' = pos /\ buffered' = buffered
      /\ out' = out
      /\ IF Head(todo) = "ReadFloat64" /\ buffered > 0 /\ Window[1] = mfloat32
           THEN Continue(<<"ReadFloat32">> \o Tail(todo))
           ELSE Return(t.e, FALSE)
  BY DEF EndOfStream
<1>2. Running /\ t.e \in {"EOF", "unexpected", "short"}
  BY <1>1, OutcomeIs DEF Waits, Asks
<1>3. CASE Return(t.e, FALSE)
  BY <1>1, <1>2, <1>3, StopsHere
<1>4. CASE Head(todo) = "ReadFloat64" /\ buffered > 0
           /\ Continue(<<"ReadFloat32">> \o Tail(todo))
  <2>1. rest = 0
    BY <1>2, <1>4, TopIs DEF IInv, Prompt
  <2>2. pos \in Nat /\ buffered \in Nat /\ pos + buffered <= Len(input.bytes)
        /\ Len(input.bytes) \in Nat
    BY StreamFacts DEF IInv, Typed
  <2>3. call.start \in Starts
    BY <1>2, <1>4, <2>2 DEF IInv, Placed
  <2>4. Path(input.ends, pos, Len(todo), input.ends[call.start])
    <3>1. Path(input.ends, pos + 0, Len(todo), input.ends[call.start])
      BY <1>2, <2>1, <2>3 DEF IInv, Placed, Left
    <3>2. pos + 0 = pos
      BY <2>2
    <3> QED
      BY <3>1, <3>2
  <2>5. /\ "ReadFloat32" \in MethodNames /\ "ReadFloat32" \in Leaves
        /\ Head(todo) \notin Patient
    BY <1>4 DEF MethodNames, Leaves, Patient, Raws, Nested
  <2>6. Consume(0)
    <3>1. ~Keeps
      BY <1>4 DEF Keeps
    <3>2. pos' = pos + 0 /\ buffered' = buffered - 0
      BY <1>1, <2>2
    <3> QED
      BY <1>1, <3>1, <3>2 DEF Consume
  <2> QED
    BY <1>1, <1>2, <1>4, <2>1, <2>3, <2>4, <2>5, <2>6, DelegateHolds
<1> QED
  BY <1>1, <1>3, <1>4

LEMMA FaultHolds ==
  ASSUME \A s \in Streams : WellFormed(s), IInv, Fault
  PROVE  IInv'
<1>1. PICK t \in Outcomes : ReadFails(t) \/ CopyFails(t) \/ UnmarshalFails(t)
  BY DEF Fault
<1>2. input' = input /\ cap' = cap /\ Running
  BY <1>1, OutcomeIs DEF Fault
<1>3. CASE ReadFails(t) \/ UnmarshalFails(t)
  <2>1. /\ Return("io", TRUE) \/ Return("unmarshal", TRUE)
        /\ pos' = pos /\ buffered' = buffered
    BY <1>3 DEF ReadFails, UnmarshalFails
  <2> QED
    BY <1>2, <2>1, StopsHere
<1>4. CASE CopyFails(t)
  <2>1. PICK k \in {IF pc = "drain" THEN Min({buffered, rest}) ELSE t.n} :
          /\ k > 0 /\ (t.do = "take" \/ pc = "drain")
          /\ pos' = pos + k /\ buffered' = buffered - k
    BY <1>4 DEF CopyFails
  <2>2. Return("write", TRUE)
    BY <1>4 DEF CopyFails
  <2>3. pos \in Nat /\ buffered \in Nat /\ rest \in Nat /\ (rest > 0 <=> pc \in {"drain", "whole"})
    BY DEF IInv, Typed
  <2>4. k \in Nat /\ k <= buffered /\ (call.start \in Starts => pos + k <= input.ends[call.start])
    <3>1. CASE pc = "drain"
      <4>1. k \in {buffered, rest} /\ k <= buffered /\ k <= rest
        <5>1. k = Min({buffered, rest})
          BY <2>1, <3>1
        <5>2. buffered \in Int /\ rest \in Int
          BY <2>3
        <5> QED
          BY <5>1, <5>2, MinTwo
      <4>2. k \in Nat
        BY <2>3, <4>1
      <4> QED
        BY <1>2, <2>3, <4>1, <4>2, Inside
    <3>2. CASE pc # "drain"
      <4>1. t.do = "take" /\ k = t.n
        BY <2>1, <3>2
      <4>2. /\ Window # <<>> /\ call.start \in Starts /\ pos \in Starts
            /\ Path(input.ends, pos, Len(todo), input.ends[call.start])
            /\ Does(Head(todo), t, Window)
        BY <4>1, OutcomeIs DEF Asks
      <4>3. t.n = 0 \/ TakesObject(Head(todo), t, Window)
        BY <4>1, <4>2 DEF Does, Asks, Refuses, Spoils, Delegates
      <4>4. TakesObject(Head(todo), t, Window)
        BY <2>1, <4>1, <4>3
      <4> DEFINE g == G(Window)
      <4>5. Whole(Window) /\ k \in Nat /\ t.body \in Nat /\ k <= Len(Window) /\ k + t.body = g.v
        BY <4>1, <4>4 DEF TakesObject
      <4>6. Path(input.ends, pos + g.v, g.o, input.ends[pos]) /\ g.v \in Nat /\ g.o \in Nat
        BY <4>2, <4>5, ObjectHere DEF IInv
      <4> HIDE DEF g
      <4>7. pos + g.v <= input.ends[pos]
        BY <4>6, PathBound
      <4>8. /\ input.ends[pos] \in Nat /\ input.ends[pos] <= input.ends[call.start]
            /\ input.ends[call.start] \in Nat
        <5>1. Len(todo) \in Nat /\ Len(todo) > 0
          BY <1>2, TopIs
        <5> QED
          BY <4>2, <5>1, PathHead, PathBound
      <4>9. k <= buffered
        BY <4>5, WindowIs DEF IInv
      <4>10. pos + k <= input.ends[call.start]
        BY <2>3, <4>5, <4>6, <4>7, <4>8
      <4> QED
        BY <4>5, <4>9, <4>10
    <3> QED
      BY <3>1, <3>2
  <2>5. /\ "write" \in Results \ {"running", "ok"} /\ "write" \notin Resumable
        /\ TRUE \in BOOLEAN
    BY DEF Results, Resumable
  <2> QED
    BY <1>2, <2>1, <2>2, <2>4, <2>5, Stops
<1> QED
  BY <1>1, <1>3, <1>4

LEMMA StepHolds ==
  ASSUME \A s \in Streams : WellFormed(s), IInv, [Next]_vars
  PROVE  IInv'
<1>1. CASE UNCHANGED vars
  <2>1. Typed' /\ Placed' /\ Standing'
    BY <1>1 DEF vars, IInv, Typed, Placed, Standing, Running, Left, Starts, Places,
      NeverPast, MayGoOn
  <2>2. Seen' /\ Copied' /\ Alone' /\ Flat' /\ Prompt' /\ Ended'
    BY <1>1 DEF vars, IInv, Seen, Copied, Alone, Flat, Prompt, Ended, Going, Running,
      Starts
  <2> QED
    BY <2>1, <2>2 DEF IInv
<1>2. ASSUME NEW m \in Methods, Call(m) PROVE IInv'
  BY <1>2, CallHolds
<1>3. CASE Work
  <2>1. PICK t \in Outcomes :
          \/ \E c \in Chunks : Fill(t, c)
          \/ EndOfStream(t) \/ Fails(t) \/ Takes(t) \/ Drains(t)
    BY <1>3 DEF Work
  <2>2. ASSUME NEW c \in Chunks, Fill(t, c) PROVE IInv'
    BY <2>2, FillHolds
  <2> QED
    BY <2>1, <2>2, EndHolds, FailsHolds, TakesHolds, DrainsHolds
<1>4. CASE Fault
  BY <1>4, FaultHolds
<1> QED
  BY <1>1, <1>2, <1>3, <1>4 DEF Next

-----------------------------------------------------------------------------
(* What follows for every state.                                           *)

LEMMA Consequences ==
  ASSUME \A s \in Streams : WellFormed(s), IInv
  PROVE  TypeOK /\ NeverPast /\ Exact /\ ResumesAtObject
<1>1. /\ input \in Streams /\ pos \in Nat /\ buffered \in Nat /\ cap \in Nat /\ rest \in Nat
      /\ pos + buffered <= Len(input.bytes) /\ buffered <= cap /\ cap >= BufSize
      /\ call.start \in Nat /\ call.start <= pos /\ Len(input.bytes) \in Nat
  BY StreamFacts DEF IInv, Typed
<1>2. TypeOK
  <2>1. pos + buffered \in 0..Len(input.bytes)
    BY <1>1
  <2>2. buffered \in 0..cap /\ call.start \in 0..pos
    BY <1>1
  <2> QED
    BY <1>1, <2>1, <2>2 DEF IInv, Typed, TypeOK
<1>3. NeverPast
  <2>1. CASE Running
    BY <1>1, <2>1, Inside DEF NeverPast
  <2> QED
    BY <2>1 DEF IInv, Standing
<1>4. Exact
  <2> SUFFICES ASSUME ~Running, call.m # "none", call.res = "ok"
               PROVE  /\ Good(call.start) /\ pos = input.ends[call.start]
                      /\ call.m \in {"CopyNext", "appendNext"} =>
                           out = SubSeq(input.bytes, call.start + 1, pos)
    BY DEF Exact, Returned
  <2>1. call.start \in Starts /\ pos = input.ends[call.start] /\ Going
    BY DEF IInv, Ended, Going
  <2>2. rest = 0 /\ pos + 0 = pos
    BY <1>1 DEF IInv, Typed
  <2>3. pos <= Len(input.bytes)
    BY <1>1
  <2>4. \A t \in Starts : t >= call.start /\ t < pos => input.bytes[t + 1] # 193
    <3> SUFFICES ASSUME NEW t \in Starts, t >= call.start, t < pos
                 PROVE  input.bytes[t + 1] # 193
      OBVIOUS
    <3>1. t \in Nat /\ call.start <= t /\ t < pos + rest
      <4>1. t \in Nat
        BY StreamFacts DEF IInv
      <4> QED
        BY <1>1, <2>2, <4>1
    <3> QED
      BY <2>1, <3>1 DEF IInv, Seen
  <2>5. Good(call.start)
    BY <2>1, <2>3, <2>4 DEF Good
  <2> QED
    BY <2>1, <2>5 DEF IInv, Copied
<1>5. ResumesAtObject
  <2>1. Returned /\ MayGoOn => pos \in Places
    BY DEF Returned, IInv, Standing
  <2> QED
    BY <2>1 DEF IInv, Ended, ResumesAtObject, Places
<1> QED
  BY <1>2, <1>3, <1>4, <1>5

(* IInv is an invariant of the Reader over well-formed streams: the         *)
(* objects left to the methods under way lie one behind the other up to    *)
(* the end of the object the outermost call began with.                    *)
THEOREM Invariance ==
  ASSUME \A s \in Streams : WellFormed(s)
  PROVE  Spec => []IInv
<1>1. Init => IInv
  BY InitHolds
<1>2. IInv /\ [Next]_vars => IInv'
  BY StepHolds
<1> QED
  BY <1>1, <1>2, PTL DEF Spec

(* The types of the Reader's state: pos and the buffer never run over the  *)
(* stream or the buffer's capacity, and a call is under way exactly when   *)
(* its result is not known.                                                *)
THEOREM Typing ==
  ASSUME \A s \in Streams : WellFormed(s)
  PROVE  Spec => []TypeOK
<1>1. IInv => TypeOK
  BY Consequences
<1> QED
  BY <1>1, Invariance, PTL

(* No method of the Reader, failing or not, consumes a byte behind the     *)
(* object it began with.                                                   *)
THEOREM NothingBehindIsConsumed ==
  ASSUME \A s \in Streams : WellFormed(s)
  PROVE  Spec => []NeverPast
<1>1. IInv => NeverPast
  BY Consequences
<1> QED
  BY <1>1, Invariance, PTL

(* A method of the Reader that returns nil has consumed exactly one whole  *)
(* object, none of whose parts begins with 0xc1, and CopyNext and          *)
(* Raw.DecodeMsg have produced its bytes, however the stream arrives and   *)
(* whatever failed before.                                                 *)
THEOREM OneObjectIsConsumed ==
  ASSUME \A s \in Streams : WellFormed(s)
  PROVE  Spec => []Exact
<1>1. IInv => Exact
  BY Consequences
<1> QED
  BY <1>1, Invariance, PTL

(* Where Resumable lets the caller go on, or a failed Read has cost        *)
(* nothing, the Reader stands at an object or behind one.                  *)
THEOREM ResumableMeansAtObject ==
  ASSUME \A s \in Streams : WellFormed(s)
  PROVE  Spec => []ResumesAtObject
<1>1. IInv => ResumesAtObject
  BY Consequences
<1> QED
  BY <1>1, Invariance, PTL

-----------------------------------------------------------------------------
(* On a live connection.                                                   *)

LEMMA PrefixHere ==
  ASSUME \A s \in Streams : WellFormed(s), Typed, pos \in Starts, Window # <<>>
  PROVE  pos + Z(Window).size <= input.ends[pos] /\ Z(Window).size \in Nat
<1>1. /\ input.bytes \in Seq(Byte) /\ Len(input.bytes) \in Nat /\ pos \in Nat
      /\ buffered \in Nat /\ pos + buffered <= Len(input.bytes)
  BY StreamFacts DEF Typed
<1>2. /\ Window \in Seq(Byte) /\ Len(Window) = buffered
      /\ \A i \in 1..buffered : Window[i] = input.bytes[pos + i]
  BY WindowIs
<1>3. buffered >= 1 /\ Z(Window).size \in Nat
  BY <1>2, WindowEntry
<1>4. 1 \in 1..buffered /\ pos < Len(input.bytes)
  BY <1>1, <1>3
<1>5. input \in Streams /\ WellFormed(input) /\ pos \in DOMAIN input.ends
  BY DEF Typed, Starts
<1>6. pos + sizes[input.bytes[pos + 1]].size <= input.ends[pos]
  BY <1>4, <1>5 DEF WellFormed, Framed
<1> QED
  BY <1>2, <1>3, <1>4, <1>6 DEF Z

LEMMA WaitsInside ==
  ASSUME \A s \in Streams : WellFormed(s), IInv, call.m \in Patient
  PROVE  AsksWithin
<1> SUFFICES ASSUME Running, call.start \in Starts, NEW t \in Outcomes, Waits(t)
             PROVE  pos + t.n <= input.ends[call.start]
  BY DEF AsksWithin
<1>1. /\ pos \in Nat /\ rest \in Nat /\ (rest > 0 <=> pc \in {"drain", "whole"})
  BY DEF IInv, Typed
<1>2. t = CASE pc = "drain" ->
                 Ask(1, IF Head(todo) = "CopyNext" THEN "EOF" ELSE "unexpected")
            [] pc = "whole" -> Ask(rest, "unexpected")
            [] OTHER -> Decide(Head(todo), Window)
  BY DEF Outcomes
<1>3. Left \in Nat /\ input.ends[call.start] \in Nat /\ pos + rest <= input.ends[call.start]
  BY Inside
<1>4. CASE rest > 0
  <2>1. t.n = 1 \/ t.n = rest
    BY <1>1, <1>2, <1>4 DEF Ask
  <2>2. pos + 1 <= pos + rest /\ pos + rest \in Nat /\ pos + 1 \in Nat
    BY <1>1, <1>4
  <2>3. \A x, y, z \in Nat : x <= y /\ y <= z => x <= z
    OBVIOUS
  <2> QED
    BY <1>3, <2>1, <2>2, <2>3
<1>5. CASE rest = 0
  <2>1. t = Decide(Head(todo), Window)
    BY <1>1, <1>2, <1>5
  <2>2. Head(todo) \in Patient /\ Len(todo) \in Nat /\ Len(todo) > 0
    BY TopIs
  <2>3. Path(input.ends, pos + 0, Len(todo), input.ends[call.start]) /\ pos + 0 = pos
    BY <1>1, <1>5 DEF IInv, Placed, Left
  <2>4. pos \in Starts /\ input.ends[pos] \in Nat /\ input.ends[pos] <= input.ends[call.start]
    BY <2>2, <2>3, PathHead DEF Starts
  <2>5. CASE Window = <<>>
    <3>1. t.n = 1
      BY <2>1, <2>2, <2>5, PatientAsksOne
    <3>2. pos < input.ends[pos]
      BY <2>4, StreamFacts DEF IInv
    <3> QED
      BY <1>1, <1>3, <2>4, <3>1, <3>2
  <2>6. CASE Window # <<>>
    <3>1. Window \in Seq(Byte)
      BY WindowIs DEF IInv
    <3>2. t.n \in Nat /\ (t.n <= Z(Window).size \/ (Whole(Window) /\ t.n <= G(Window).v))
      BY <2>1, <2>2, <2>6, <3>1, PatientAsks DEF Waits, Within
    <3>3. CASE t.n <= Z(Window).size
      <4>1. pos + Z(Window).size <= input.ends[pos] /\ Z(Window).size \in Nat
        BY <2>4, <2>6, PrefixHere DEF IInv
      <4> QED
        BY <1>1, <1>3, <2>4, <3>2, <3>3, <4>1
    <3>4. CASE Whole(Window) /\ t.n <= G(Window).v
      <4>1. /\ Path(input.ends, pos + G(Window).v, G(Window).o, input.ends[pos])
            /\ G(Window).v \in Nat /\ G(Window).o \in Nat
        BY <2>4, <2>6, <3>4, ObjectHere DEF IInv
      <4>2. pos + G(Window).v <= input.ends[pos]
        BY <4>1, PathBound
      <4> QED
        BY <1>1, <1>3, <2>4, <3>2, <3>4, <4>1, <4>2
    <3> QED
      BY <3>2, <3>3, <3>4
  <2> QED
    BY <2>5, <2>6
<1> QED
  BY <1>1, <1>4, <1>5

(* Skip, CopyNext, Raw.DecodeMsg and the methods that look at the prefix   *)
(* first never wait for a byte behind the object they began with, so they  *)
(* return as soon as a peer has sent it, however it arrives.               *)
THEOREM NoWaitBehindObject ==
  ASSUME \A s \in Streams : WellFormed(s)
  PROVE  Spec => [](call.m \in Patient => AsksWithin)
<1>1. IInv => (call.m \in Patient => AsksWithin)
  BY WaitsInside
<1> QED
  BY <1>1, Invariance, PTL

-----------------------------------------------------------------------------
(* Skip, CopyNext and Raw.DecodeMsg on a stream agree with the Skip of     *)
(* read_bytes.go on the bytes of that stream.                              *)

(* What is assumed of the streams: they are well-formed, and where Skip is *)
(* called they hold no ext32.                                              *)
StreamsAssumption ==
  /\ \A s \in Streams : WellFormed(s)
  /\ "Skip" \in Methods => \A s \in Streams : NoExt32(s)

-----------------------------------------------------------------------------
(* What the three methods do with a window.                                *)

(* A prefix of one byte.                                                   *)
LEMMA FixedPrefix ==
  ASSUME NEW b \in Byte, b \notin 192..223
  PROVE  sizes[b].extra >= 0
<1> USE DEF bytespec
<1>0. b \in Int /\ 0 <= b /\ b <= 255
  BY DEF Byte
<1>1. CASE b < 128
  <2>1. sizes[b] = bytespec(1, 0, "int")
    BY <1>0, <1>1, SMTT(40) DEF sizes, Byte
  <2> QED
    BY <2>1
<1>2. CASE b \in 128..143
  <2>1. sizes[b] = bytespec(1, 2 * (b - 128), "map")
    BY <1>0, <1>2, SMTT(40) DEF sizes, Byte
  <2> QED
    BY <1>2, <2>1
<1>3. CASE b \in 144..159
  <2>1. sizes[b] = bytespec(1, b - 144, "array")
    BY <1>0, <1>3, SMTT(40) DEF sizes, Byte
  <2> QED
    BY <1>3, <2>1
<1>4. CASE b \in 160..191
  <2>1. sizes[b] = bytespec(1 + (b - 160), 0, "str")
    BY <1>0, <1>4, SMTT(40) DEF sizes, Byte
  <2> QED
    BY <2>1
<1>5. CASE b > 223
  <2>1. sizes[b] = bytespec(1, 0, "int")
    BY <1>0, <1>5 DEF sizes, Byte
  <2> QED
    BY <2>1
<1> QED
  BY <1>0, <1>1, <1>2, <1>3, <1>4, <1>5

(* A prefix whose mode is in the bytes behind the first.                   *)
LEMMA ShortPrefix ==
  ASSUME NEW b \in Byte, b # 201, sizes[b].extra < 0
  PROVE  sizes[b].size <= 5
<1> USE DEF bytespec, extra8, extra16, extra32, map16v, map32v, array16v, array32v
<1>0. b \in Int /\ 0 <= b /\ b <= 255
  BY DEF Byte
<1>1. CASE b \in 192..223
  <2>1. sizes[b] = named[b - 191]
    BY <1>0, <1>1, SMTT(40) DEF sizes, Byte
  <2>2. \A i \in 1..32 : i # 10 /\ named[i].extra < 0 => named[i].size <= 5
    <3>1. \A i \in 1..8 : named[i].extra < 0 => named[i].size <= 5
      BY DEF named
    <3>2. \A i \in 9..16 : i # 10 /\ named[i].extra < 0 => named[i].size <= 5
      BY DEF named
    <3>3. \A i \in 17..24 : named[i].extra < 0 => named[i].size <= 5
      BY DEF named
    <3>4. \A i \in 25..32 : named[i].extra < 0 => named[i].size <= 5
      BY DEF named
    <3>5. \A i \in 1..32 : i \in 1..8 \/ i \in 9..16 \/ i \in 17..24 \/ i \in 25..32
      OBVIOUS
    <3> QED
      BY <3>1, <3>2, <3>3, <3>4, <3>5, Zenon
  <2>3. b - 191 \in 1..32 /\ b - 191 # 10
    BY <1>0, <1>1
  <2> QED
    BY <2>1, <2>2, <2>3
<1>2. CASE b \notin 192..223
  <2>1. sizes[b].extra >= 0
    BY <1>2, FixedPrefix
  <2>2. sizes[b].extra \in Int
    BY Entries, EntryFacts
  <2> QED
    BY <2>1, <2>2
<1> QED
  BY <1>1, <1>2

(* It waits for the first byte, the prefix or the whole object.            *)
RawWaits(t, w) ==
  /\ t.do = "ask" /\ t.e \in {"EOF", "short"}
  /\ \/ w = <<>> /\ t.n = 1
     \/ w # <<>> /\ Z(w).size > 0 /\ ~Complete(Z(w), w) /\ t.n = Z(w).size
     \/ w # <<>> /\ Whole(w) /\ t.n = G(w).v

(* It refuses what begins no object.                                       *)
RawRefuses(t, w) == t = Err("invalid") /\ w # <<>> /\ Z(w).size = 0

LEMMA SizeIs ==
  ASSUME NEW w \in Seq(Byte)
  PROVE  LET g == getNextSize(w) IN
         \/ RawWaits(g, w)
         \/ RawRefuses(g, w)
         \/ w # <<>> /\ Whole(w) /\ g = Found(Z(w).size, G(w))
<1> DEFINE g == getNextSize(w)
<1>1. CASE w = <<>>
  <2>1. g = Ask(1, "EOF")
    BY <1>1 DEF getNextSize
  <2> QED
    BY <1>1, <2>1 DEF Ask, RawWaits
<1>2. CASE w # <<>>
  <2>1. g = getNextSizeBy(Z(w), w)
    BY <1>2 DEF getNextSize, Z
  <2>2. Z(w).size \in Nat /\ Z(w).extra \in Int /\ Len(w) \in Nat
    BY <1>2, WindowEntry
  <2>3. CASE Z(w).size = 0
    BY <1>2, <2>1, <2>3 DEF getNextSizeBy, RawRefuses
  <2>4. CASE Z(w).size > 0 /\ Z(w).extra < 0 /\ Len(w) < Z(w).size
    <3>1. g = Ask(Z(w).size, "EOF") /\ ~Complete(Z(w), w)
      BY <2>1, <2>2, <2>4 DEF getNextSizeBy, Complete
    <3> QED
      BY <1>2, <2>4, <3>1 DEF Ask, RawWaits
  <2>5. CASE Z(w).size > 0 /\ ~(Z(w).extra < 0 /\ Len(w) < Z(w).size)
    BY <1>2, <2>1, <2>2, <2>5 DEF getNextSizeBy, Whole, Complete, G
  <2> QED
    BY <2>2, <2>3, <2>4, <2>5
<1> QED
  BY <1>1, <1>2

LEMMA FastIs ==
  ASSUME NEW w \in Seq(Byte), Len(w) >= 5, w[1] # 201
  PROVE  RawRefuses(SkipFast(w), w) \/ SkipFast(w).do = "take"
<1> DEFINE f == SubSeq(w, 1, 5)
<1>1. /\ f \in Seq(Byte) /\ Len(f) = 5 /\ f[1] = w[1] /\ w # <<>> /\ f # <<>>
  <2>1. Len(w) \in Nat /\ \A i \in 1..5 : w[i] \in Byte
    BY LenProperties, ElementOfSeq
  <2>2. f \in Seq(Byte) /\ Len(f) = 5 /\ f[1] = w[1]
    BY <2>1, SubSeqProperties
  <2> HIDE DEF f
  <2>3. (f = <<>> => Len(f) = 0) /\ (w = <<>> => Len(w) = 0)
    BY <2>2, EmptySeq
  <2> QED
    BY <2>1, <2>2, <2>3
<1>2. SkipFast(w) = IF getSize(f).err # "none" THEN Err(getSize(f).err)
                    ELSE SkipBody(getSize(f))
  BY DEF SkipFast
<1> HIDE DEF f
<1>3. getSize(f) = getSizeBy(Z(w), f)
  BY <1>1 DEF getSize, Z
<1>4. Z(w).size \in Nat /\ Z(w).extra \in Int /\ w[1] \in Byte
  BY <1>1, WindowEntry
<1>5. Z(w).extra < 0 => Z(w).size <= 5
  BY <1>4, ShortPrefix DEF Z
<1>6. CASE Z(w).size = 0
  <2>1. getSize(f) = NoSize("invalid")
    BY <1>3, <1>6 DEF getSizeBy
  <2> QED
    BY <1>1, <1>2, <1>6, <2>1 DEF NoSize, RawRefuses
<1>7. CASE Z(w).size > 0
  <2>1. getSize(f) = SizedBy(Z(w), f) /\ Complete(Z(w), f)
    BY <1>1, <1>3, <1>4, <1>5, <1>7 DEF getSizeBy, Complete
  <2>2. InRange(Z(w), SizedBy(Z(w), f))
    BY <1>1, <2>1, WindowEntry, SizedRange
  <2>3. SkipFast(w) = SkipBody(getSize(f))
    BY <1>2, <2>1, <2>2 DEF InRange
  <2> QED
    BY <2>3 DEF SkipBody, Take
<1> QED
  BY <1>4, <1>6, <1>7

LEMMA RawIs ==
  ASSUME NEW m \in Raws, NEW w \in Seq(Byte), cap \in Nat,
         m = "Skip" /\ w # <<>> => w[1] # 201
  PROVE  LET t == Decide(m, w) IN
         RawWaits(t, w) \/ RawRefuses(t, w) \/ (w # <<>> /\ TakesObject(m, t, w))
<1> DEFINE t == Decide(m, w)
           g == getNextSize(w)
<1>1. t = CASE m = "Skip" -> SkipNext(w) [] m = "CopyNext" -> CopyNext(w)
            [] m = "appendNext" -> appendNext(w)
  BY DEF Decide, Raws
<1>2. \/ RawWaits(g, w)
      \/ RawRefuses(g, w)
      \/ w # <<>> /\ Whole(w) /\ g = Found(Z(w).size, G(w))
  BY SizeIs
<1>3. (RawWaits(g, w) \/ RawRefuses(g, w)) => g.do # "found"
  BY DEF RawWaits, RawRefuses, Err, TakeErr
<1>4. RawWaits(t, w) \/ RawRefuses(t, w) \/ (w # <<>> /\ t.do = "take")
  <2>1. CASE m = "Skip" /\ pc = "begin" /\ Len(w) >= 5
    <3>1. t = SkipFast(w)
      BY <1>1, <2>1 DEF SkipNext
    <3>2. w # <<>>
      <4>1. w = <<>> => Len(w) = 0
        BY EmptySeq
      <4> QED
        BY <2>1, <4>1
    <3> QED
      BY <2>1, <3>1, <3>2, FastIs
  <2>2. CASE m = "Skip" /\ ~(pc = "begin" /\ Len(w) >= 5)
    <3>1. t = IF g.do = "found" THEN SkipBody(g) ELSE g
      BY <1>1, <2>2 DEF SkipNext
    <3> QED
      BY <1>2, <1>3, <3>1 DEF Found, SkipBody, Take
  <2>3. CASE m = "appendNext"
    <3>1. t = IF g.do # "found" THEN g ELSE Take(0, g.v, Times(g.o, "appendNext"))
      BY <1>1, <2>3 DEF appendNext
    <3> QED
      BY <1>2, <1>3, <3>1 DEF Found, Take
  <2>4. CASE m = "CopyNext"
    <3>1. t = IF g.do # "found" THEN g
              ELSE IF g.v > cap THEN Take(0, g.v, Times(g.o, "CopyNext"))
              ELSE IF Len(w) < g.v THEN Ask(g.v, "short")
              ELSE Take(g.v, 0, Times(g.o, "CopyNext"))
      BY <1>1, <2>4 DEF CopyNext
    <3>2. CASE RawWaits(g, w) \/ RawRefuses(g, w)
      BY <1>3, <3>1, <3>2
    <3>3. CASE w # <<>> /\ Whole(w) /\ g = Found(Z(w).size, G(w))
      <4>1. g.do = "found" /\ g.v = G(w).v
        BY <3>3 DEF Found
      <4>2. t.do = "take" \/ t = Ask(G(w).v, "short")
        BY <3>1, <4>1 DEF Take
      <4> QED
        BY <3>3, <4>2 DEF Ask, RawWaits
    <3> QED
      BY <1>2, <3>2, <3>3
  <2> QED
    BY <2>1, <2>2, <2>3, <2>4 DEF Raws
<1>5. ASSUME w # <<>>, t.do = "take" PROVE TakesObject(m, t, w)
  <2>1. Does(m, t, w)
    BY <1>5, DecideDoes DEF Raws, MethodNames
  <2>2. m \in Patient
    BY DEF Patient
  <2> QED
    BY <1>5, <2>1, <2>2 DEF Does, Asks, Spoils, Refuses, Delegates
<1> QED
  BY <1>4, <1>5


-----------------------------------------------------------------------------
(* The window and the bytes ahead.                                         *)
LEMMA AheadHere ==
  ASSUME \A s \in Streams : WellFormed(s), Typed
  PROVE  LET d == Ahead(input.bytes, pos)
             w == Window
         IN  /\ w # <<>> /\ Whole(w) =>
                  getSize(d).err = "none" /\ getSize(d).v = G(w).v /\ getSize(d).o = G(w).o
             /\ w # <<>> /\ Z(w).size = 0 => getSize(d).err = "invalid"
             /\ AtEOF /\ w = <<>> => getSize(d).err = "short"
             /\ AtEOF /\ w # <<>> /\ Z(w).size > 0 /\ ~Complete(Z(w), w) =>
                  getSize(d).err = "short"
<1> DEFINE w == Window
           n == Len(input.bytes)
           d == Ahead(input.bytes, pos)
<1>1. /\ input.bytes \in Seq(Byte) /\ n \in Nat /\ pos \in Nat
      /\ buffered \in Nat /\ pos + buffered <= n
  BY StreamFacts DEF Typed
<1>2. /\ w \in Seq(Byte) /\ Len(w) = buffered
      /\ \A i \in 1..buffered : w[i] = input.bytes[pos + i]
  BY WindowIs
<1>3. d \in Seq(Byte) /\ Len(d) = n - pos /\ \A i \in 1..(n - pos) : d[i] = input.bytes[pos + i]
  <2>1. n - pos \in Nat /\ pos + (n - pos) = n /\ n <= n
    BY <1>1
  <2> QED
    BY <1>1, <2>1, Slice DEF Ahead
<1>4. AtEOF => w = d
  BY DEF AtEOF, Window, Ahead
<1> HIDE DEF d, n, w
<1>5. Len(w) <= Len(d) /\ \A i \in 1..Len(w) : w[i] = d[i]
  <2>1. \A i \in 1..buffered : i \in 1..(n - pos)
    BY <1>1
  <2>2. buffered <= n - pos
    BY <1>1
  <2> QED
    BY <1>2, <1>3, <2>1, <2>2
<1>6. ASSUME w # <<>>
      PROVE  d # <<>> /\ getSize(d) = getSizeBy(Z(w), d) /\ Entry(w[1], Z(w))
             /\ Z(w).size \in Nat /\ Z(w).extra \in Int
  <2>1. Entry(w[1], Z(w)) /\ Z(w).size \in Nat /\ Z(w).extra \in Int /\ Len(w) >= 1
        /\ Len(w) \in Nat
    BY <1>2, <1>6, WindowEntry
  <2>2. 1 \in 1..Len(w) /\ Len(d) \in Nat /\ Len(d) >= 1
    BY <1>3, <1>5, <2>1, LenProperties
  <2>3. d # <<>>
    <3>1. d = <<>> => Len(d) = 0
      BY EmptySeq
    <3> QED
      BY <2>2, <3>1
  <2>4. w[1] = d[1]
    BY <1>5, <2>2
  <2> QED
    BY <2>1, <2>3, <2>4 DEF getSize, Z
<1>7. ASSUME w # <<>>, Whole(w)
      PROVE  getSize(d).err = "none" /\ getSize(d).v = G(w).v /\ getSize(d).o = G(w).o
  <2>1. Z(w).size > 0 /\ Complete(Z(w), w)
    BY <1>7 DEF Whole
  <2>2. SizedBy(Z(w), w) = SizedBy(Z(w), d)
    BY <1>2, <1>3, <1>5, <1>6, <1>7, <2>1, SizedSame
  <2>3. getSize(d) = SizedBy(Z(w), d)
    <3>1. Len(w) \in Nat /\ Len(d) \in Nat
      BY <1>2, <1>3, LenProperties
    <3>2. ~(Z(w).extra < 0 /\ Len(d) < Z(w).size) /\ Z(w).size # 0
      BY <1>5, <1>6, <1>7, <2>1, <3>1 DEF Complete
    <3> QED
      BY <1>6, <1>7, <3>2 DEF getSizeBy
  <2>4. InRange(Z(w), G(w))
    BY <1>2, <1>7, WholeSizes
  <2> QED
    BY <2>2, <2>3, <2>4 DEF InRange, G
<1>8. ASSUME w # <<>>, Z(w).size = 0 PROVE getSize(d).err = "invalid"
  BY <1>6, <1>8 DEF getSizeBy, NoSize
<1>9. ASSUME AtEOF, w = <<>> PROVE getSize(d).err = "short"
  BY <1>4, <1>9 DEF getSize, NoSize
<1>10. ASSUME AtEOF, w # <<>>, Z(w).size > 0, ~Complete(Z(w), w)
       PROVE  getSize(d).err = "short"
  <2>1. Len(w) \in Nat
    BY <1>2, LenProperties
  <2>2. Z(w).extra < 0 /\ Len(d) < Z(w).size /\ Z(w).size # 0
    BY <1>4, <1>6, <1>10, <2>1 DEF Complete
  <2> QED
    BY <1>6, <1>10, <2>2 DEF getSizeBy, NoSize
<1> QED
  BY <1>7, <1>8, <1>9, <1>10 DEF w, d

-----------------------------------------------------------------------------
(* Skip on bytes has, from where the Reader stands and for the objects     *)
(* left to the methods under way, the result it has for the whole object;  *)
(* and that is short when the running method wants more than there is.     *)
Answer == Skip(input.bytes, call.start)
Agreed ==
  Running /\ call.m \in Raws =>
    IF pos + rest <= Len(input.bytes)
      THEN Skips(input.bytes)[pos + rest][Left] = Answer
      ELSE Answer.err = "short"

Called == call.m \in Methods \cup {"none"}

AInv == IInv /\ Called /\ Agreed /\ AgreesWithBytes

(* The call goes on with the methods ms, or returns nil.                   *)
LEMMA Onward ==
  ASSUME \A s \in Streams : WellFormed(s), IInv, Running, call.m \in Raws,
         NEW p \in Nat, NEW r \in Nat, NEW ms \in Seq(MethodNames),
         input' = input, pos' = p, rest' = r, todo' = ms, r > 0 => ms # <<>>,
         p <= Len(input.bytes),
         call' = IF ms = <<>> THEN [call EXCEPT !.res = "ok"] ELSE call,
         LET left == IF r = 0 THEN Len(ms) ELSE Len(ms) - 1 IN
           IF p + r <= Len(input.bytes) THEN Skips(input.bytes)[p + r][left] = Answer
           ELSE Answer.err = "short"
  PROVE  Agreed' /\ AgreesWithBytes'
<1>1. call \in CallRecords /\ call.m \in Raws
  BY DEF IInv, Typed, CallRecords
<1>2. call'.m = call.m /\ call'.start = call.start /\ (ms = <<>> => call'.res = "ok")
  BY <1>1 DEF CallRecords
<1>3. Answer' = Answer /\ (Running' <=> ms # <<>>)
  BY <1>2 DEF Answer, Running
<1>4. Agreed'
  BY <1>2, <1>3 DEF Agreed, Left
<1>5. AgreesWithBytes'
  <2> SUFFICES ASSUME ms = <<>>
               PROVE  Answer.err = "none" /\ pos' = Answer.end
    BY <1>2, <1>3 DEF AgreesWithBytes, Returned, Answer
  <2>1. r = 0 /\ Len(ms) = 0 /\ p + r = p
    BY EmptySeq
  <2>2. Skips(input.bytes)[p][0] = Answer
    BY <2>1
  <2>3. input.bytes \in Seq(Byte)
    BY StreamFacts DEF IInv
  <2>4. Skips(input.bytes)[p][0] = [end |-> p, err |-> "none"]
    BY <2>3, SkipCases
  <2> QED
    BY <2>2, <2>4
<1> QED
  BY <1>4, <1>5

(* The call returns an error: the one Skip has, or another where Skip      *)
(* finds the bytes too short, or the io.Reader or io.Writer is to blame.   *)
LEMMA Broken ==
  ASSUME IInv, Running, NEW e, NEW i \in BOOLEAN, input' = input, Return(e, i),
         \/ call.m \notin Raws
         \/ i = TRUE
         \/ e = "invalid" /\ Answer.err = "invalid"
         \/ e \notin {"ok", "invalid"} /\ Answer.err = "short"
  PROVE  Agreed' /\ AgreesWithBytes'
<1>1. call \in CallRecords
  BY DEF IInv, Typed, CallRecords
<1>2. /\ todo' = <<>> /\ call'.m = call.m /\ call'.start = call.start
      /\ call'.res = e /\ call'.io = i
  BY <1>1 DEF Return, CallRecords
<1>3. ~Running' /\ Answer' = Answer
  BY <1>2 DEF Running, Answer
<1>4. Agreed'
  BY <1>3 DEF Agreed
<1>5. AgreesWithBytes'
  BY <1>2, <1>3 DEF AgreesWithBytes, Returned, Answer
<1> QED
  BY <1>4, <1>5


(* A call of another method is nothing to this.                            *)
LEMMA Others ==
  ASSUME call'.m \notin Raws
  PROVE  Agreed' /\ AgreesWithBytes'
BY DEF Agreed, AgreesWithBytes

(* The running method of such a call, when it has nothing left to consume. *)
LEMMA RawHere ==
  ASSUME StreamsAssumption, AInv, Running, call.m \in Raws, rest = 0
  PROVE  LET t == Decide(call.m, Window) IN
         /\ Head(todo) = call.m
         /\ Skips(input.bytes)[pos][Len(todo)] = Answer
         /\ \/ RawWaits(t, Window)
            \/ RawRefuses(t, Window)
            \/ Window # <<>> /\ TakesObject(call.m, t, Window)
<1> DEFINE w == Window
<1>0. \A s \in Streams : WellFormed(s)
  BY DEF StreamsAssumption
<1>1. /\ input \in Streams /\ pos \in Nat /\ cap \in Nat /\ buffered \in Nat
      /\ Len(input.bytes) \in Nat /\ pos + buffered <= Len(input.bytes)
      /\ pos + 0 = pos
  BY <1>0, StreamFacts DEF AInv, IInv, Typed
<1>2. Head(todo) = call.m /\ Len(todo) \in Nat /\ Len(todo) > 0
  BY TopIs DEF AInv, Patient
<1>3. w \in Seq(Byte) /\ Len(w) = buffered /\ \A i \in 1..buffered : w[i] = input.bytes[pos + i]
  BY <1>0, WindowIs DEF AInv, IInv
<1>4. pos + rest <= Len(input.bytes) /\ pos + rest = pos /\ Left = Len(todo)
  BY <1>1 DEF Left
<1>5. Skips(input.bytes)[pos][Len(todo)] = Answer
  BY <1>4 DEF AInv, Agreed
<1>6. call.m = "Skip" /\ w # <<>> => w[1] # 201
  <2> SUFFICES ASSUME call.m = "Skip", w # <<>> PROVE w[1] # 201
    OBVIOUS
  <2>1. NoExt32(input)
    BY <1>1 DEF AInv, Called, StreamsAssumption
  <2>2. buffered > 0
    BY <1>1, <1>3, EmptySeq
  <2>3. call.start \in Starts
    BY <1>1, <2>2 DEF AInv, IInv, Placed
  <2>4. Path(input.ends, pos + rest, Len(todo), input.ends[call.start])
    BY <1>4, <2>3 DEF AInv, IInv, Placed
  <2>5. pos \in DOMAIN input.ends
    BY <1>2, <1>4, <2>4, PathHead
  <2>6. pos < Len(input.bytes) /\ 1 \in 1..buffered
    BY <1>1, <2>2
  <2> HIDE DEF w
  <2> QED
    BY <1>3, <2>1, <2>5, <2>6 DEF NoExt32
<1> HIDE DEF w
<1>7. LET t == Decide(call.m, w) IN
      RawWaits(t, w) \/ RawRefuses(t, w) \/ (w # <<>> /\ TakesObject(call.m, t, w))
  BY <1>1, <1>3, <1>6, RawIs
<1> QED
  BY <1>2, <1>5, <1>7 DEF w

(* A call begins.                                                          *)
LEMMA CallAgrees ==
  ASSUME StreamsAssumption, AInv, NEW m \in Methods, Call(m)
  PROVE  Agreed' /\ AgreesWithBytes'
<1>1. /\ todo' = <<m>> /\ rest' = 0 /\ input' = input /\ pos' = pos
      /\ call' = [m |-> m, start |-> pos, res |-> "running", io |-> FALSE]
  BY DEF Call
<1>2. Running' /\ Len(todo') = 1
  BY <1>1 DEF Running
<1>3. AgreesWithBytes'
  BY <1>2 DEF AgreesWithBytes, Returned
<1>4. pos \in Nat /\ pos + 0 = pos /\ Left' = 1 /\ pos <= Len(input.bytes)
  <2>1. \A s \in Streams : WellFormed(s)
    BY DEF StreamsAssumption
  <2>2. /\ pos \in Nat /\ buffered \in Nat /\ Len(input.bytes) \in Nat
        /\ pos + buffered <= Len(input.bytes)
    BY <2>1, StreamFacts DEF AInv, IInv, Typed
  <2> QED
    BY <1>1, <1>2, <2>2 DEF Left
<1>5. Answer' = Skips(input.bytes)[pos][1]
  BY <1>1 DEF Answer, Skip
<1>6. Agreed'
  BY <1>1, <1>4, <1>5 DEF Agreed
<1> QED
  BY <1>3, <1>6

LEMMA FillAgrees ==
  ASSUME AInv, NEW t \in Outcomes, NEW c \in Chunks, Fill(t, c)
  PROVE  Agreed' /\ AgreesWithBytes'
<1>1. /\ input' = input /\ pos' = pos /\ todo' = todo /\ rest' = rest /\ call' = call
  BY DEF Fill
<1>2. Running
  BY DEF Outcomes
<1>3. Running' /\ Answer' = Answer /\ Left' = Left
  BY <1>1, <1>2 DEF Running, Answer, Left
<1> QED
  BY <1>1, <1>2, <1>3 DEF AInv, Agreed, AgreesWithBytes, Returned

(* The stream ends where the method waits: Skip finds the bytes too short. *)
LEMMA EndAgrees ==
  ASSUME StreamsAssumption, AInv, NEW t \in Outcomes, EndOfStream(t)
  PROVE  Agreed' /\ AgreesWithBytes'
<1> DEFINE b == input.bytes
<1>0. \A s \in Streams : WellFormed(s)
  BY DEF StreamsAssumption
<1>1. /\ Waits(t) /\ AtEOF /\ input' = input
      /\ IF Head(todo) = "ReadFloat64" /\ buffered > 0 /\ Window[1] = mfloat32
           THEN Continue(<<"ReadFloat32">> \o Tail(todo))
           ELSE Return(t.e, FALSE)
  BY DEF EndOfStream
<1>2. Running /\ call \in CallRecords /\ IInv
  BY DEF Outcomes, AInv, IInv, Typed, CallRecords
<1>3. CASE call.m \notin Raws
  <2>1. call'.m = call.m
    BY <1>1, <1>2 DEF Continue, Return, CallRecords
  <2> QED
    BY <1>3, <2>1, Others
<1>4. CASE call.m \in Raws
  <2>1. /\ b \in Seq(Byte) /\ Len(b) \in Nat /\ pos \in Nat /\ buffered \in Nat /\ rest \in Nat
        /\ (rest > 0 <=> pc \in {"drain", "whole"}) /\ pos + buffered = Len(b)
    BY <1>0, <1>1, <1>2, StreamFacts DEF IInv, Typed, AtEOF
  <2>2. t = CASE pc = "drain" ->
                   Ask(1, IF Head(todo) = "CopyNext" THEN "EOF" ELSE "unexpected")
              [] pc = "whole" -> Ask(rest, "unexpected")
              [] OTHER -> Decide(Head(todo), Window)
    BY <1>2 DEF Outcomes
  <2>3. Head(todo) = call.m /\ Head(todo) # "ReadFloat64" /\ Len(todo) \in Nat /\ Len(todo) > 0
    BY <1>2, <1>4, TopIs DEF Patient, Raws
  <2>4. Return(t.e, FALSE) /\ buffered < t.n
    BY <1>1, <2>3 DEF Waits
  <2>5. t.e \in {"EOF", "short", "unexpected"} /\ Answer.err = "short"
    <3>1. CASE rest > 0
      <4>1. t.e \in {"EOF", "unexpected"} /\ (t.n = 1 \/ t.n = rest)
        BY <2>1, <2>2, <3>1 DEF Ask
      <4>2. Len(b) < pos + rest
        BY <2>1, <2>4, <3>1, <4>1
      <4>3. ~(pos + rest <= Len(b))
        BY <2>1, <4>2
      <4> QED
        BY <1>2, <1>4, <4>1, <4>3 DEF AInv, Agreed
    <3>2. CASE rest = 0
      <4>1. t = Decide(call.m, Window)
        BY <2>1, <2>2, <2>3, <3>2
      <4>2. Skips(b)[pos][Len(todo)] = Answer
        BY <1>2, <1>4, <3>2, RawHere
      <4>3. RawWaits(t, Window)
        <5>1. t.do = "ask"
          BY <1>1 DEF Waits
        <5> QED
          BY <1>2, <1>4, <3>2, <4>1, <5>1, RawHere DEF RawRefuses, TakesObject, Err, TakeErr
      <4> DEFINE d == Ahead(b, pos)
      <4>4. \/ getSize(d).err = "short"
            \/ getSize(d).err = "none" /\ Len(b) < pos + getSize(d).v
        <5>1. CASE Window # <<>> /\ Whole(Window) /\ t.n = G(Window).v
          <6>1. getSize(d).err = "none" /\ getSize(d).v = G(Window).v
            BY <1>0, <1>2, <5>1, AheadHere DEF IInv
          <6>2. G(Window).v \in Nat
            <7>1. Window \in Seq(Byte)
              BY <1>0, <1>2, WindowIs DEF IInv
            <7> QED
              BY <5>1, <7>1, WholeSizes DEF InRange
          <6>3. Len(b) < pos + G(Window).v
            BY <2>1, <2>4, <5>1, <6>2
          <6> QED
            BY <6>1, <6>3
        <5>2. CASE Window = <<>>
          BY <1>0, <1>1, <1>2, <5>2, AheadHere DEF IInv
        <5>3. CASE Window # <<>> /\ Z(Window).size > 0 /\ ~Complete(Z(Window), Window)
          BY <1>0, <1>1, <1>2, <5>3, AheadHere DEF IInv
        <5> QED
          BY <4>3, <5>1, <5>2, <5>3 DEF RawWaits
      <4>5. Skips(b)[pos][Len(todo)].err = "short"
        <5>1. CASE getSize(d).err = "short"
          <6>1. getSize(Ahead(b, pos)).err = "short" /\ "short" # "none"
            BY <5>1
          <6>2. Skips(b)[pos][Len(todo)] = [end |-> pos, err |-> getSize(Ahead(b, pos)).err]
            BY <2>1, <2>3, <6>1, SkipCases
          <6> QED
            BY <6>1, <6>2
        <5>2. CASE getSize(d).err = "none" /\ Len(b) < pos + getSize(d).v
          <6>1. Skips(b)[pos][Len(todo)] = [end |-> pos, err |-> "short"]
            BY <2>1, <2>3, <5>2, SkipCases
          <6> QED
            BY <6>1
        <5> QED
          BY <4>4, <5>1, <5>2
      <4> QED
        BY <4>2, <4>3, <4>5 DEF RawWaits
    <3> QED
      BY <2>1, <3>1, <3>2
  <2> QED
    BY <1>1, <1>2, <2>4, <2>5, Broken
<1> QED
  BY <1>3, <1>4

(* The method refuses what begins no object, and so does Skip.             *)
LEMMA FailAgrees ==
  ASSUME StreamsAssumption, AInv, NEW t \in Outcomes, Fails(t)
  PROVE  Agreed' /\ AgreesWithBytes'
<1> DEFINE b == input.bytes
<1>0. \A s \in Streams : WellFormed(s)
  BY DEF StreamsAssumption
<1>1. t.do = "err" /\ Return(t.e, FALSE) /\ input' = input
  BY DEF Fails
<1>2. Running /\ call \in CallRecords /\ IInv
  BY DEF Outcomes, AInv, IInv, Typed, CallRecords
<1>3. CASE call.m \notin Raws
  BY <1>1, <1>2, <1>3, Broken
<1>4. CASE call.m \in Raws
  <2>1. /\ b \in Seq(Byte) /\ pos \in Nat /\ rest \in Nat
        /\ (rest > 0 <=> pc \in {"drain", "whole"})
    BY <1>0, <1>2, StreamFacts DEF IInv, Typed
  <2>2. t = CASE pc = "drain" ->
                   Ask(1, IF Head(todo) = "CopyNext" THEN "EOF" ELSE "unexpected")
              [] pc = "whole" -> Ask(rest, "unexpected")
              [] OTHER -> Decide(Head(todo), Window)
    BY <1>2 DEF Outcomes
  <2>3. Head(todo) = call.m /\ Len(todo) \in Nat /\ Len(todo) > 0
    BY <1>2, <1>4, TopIs DEF Patient
  <2>4. rest = 0 /\ t = Decide(call.m, Window)
    BY <1>1, <2>1, <2>2, <2>3 DEF Ask
  <2>5. RawRefuses(t, Window) /\ Skips(b)[pos][Len(todo)] = Answer
    BY <1>1, <1>2, <1>4, <2>4, RawHere DEF RawWaits, TakesObject
  <2>6. getSize(Ahead(b, pos)).err = "invalid"
    BY <1>0, <1>2, <2>5, AheadHere DEF IInv, RawRefuses
  <2>7. Skips(b)[pos][Len(todo)] = [end |-> pos, err |-> "invalid"]
    BY <2>1, <2>3, <2>6, SkipCases, ZenonT(40)
  <2>8. t.e = "invalid" /\ Answer.err = "invalid"
    BY <2>5, <2>7 DEF RawRefuses, Err, TakeErr
  <2> QED
    BY <1>1, <1>2, <2>8, Broken
<1> QED
  BY <1>3, <1>4


(* The method takes an object: a turn of the loop of Skip.                 *)
LEMMA TakeAgrees ==
  ASSUME StreamsAssumption, AInv, NEW t \in Outcomes, Takes(t)
  PROVE  Agreed' /\ AgreesWithBytes'
<1> DEFINE b == input.bytes
           g == G(Window)
           k == t.n
           r == t.body
           tl == Tail(todo)
           kids == t.kids
           m == Head(todo)
<1>0. \A s \in Streams : WellFormed(s)
  BY DEF StreamsAssumption
<1>1. /\ t.do = "take" /\ input' = input /\ pos' = pos + k
      /\ IF r = 0 THEN Continue(kids \o tl)
         ELSE todo' = <<m>> \o kids \o tl /\ rest' = r /\ call' = call
  BY DEF Takes, Consume
<1>2. Running /\ call \in CallRecords /\ IInv
  BY DEF Outcomes, AInv, IInv, Typed, CallRecords
<1>3. CASE call.m \notin Raws
  <2>1. call'.m = call.m
    BY <1>1, <1>2 DEF Continue, CallRecords
  <2> QED
    BY <1>3, <2>1, Others
<1>4. CASE call.m \in Raws
  <2>1. /\ b \in Seq(Byte) /\ pos \in Nat /\ rest \in Nat /\ buffered \in Nat
        /\ Len(b) \in Nat /\ pos + buffered <= Len(b)
        /\ (rest > 0 <=> pc \in {"drain", "whole"})
    BY <1>0, <1>2, StreamFacts DEF IInv, Typed
  <2>2. t = CASE pc = "drain" ->
                   Ask(1, IF Head(todo) = "CopyNext" THEN "EOF" ELSE "unexpected")
              [] pc = "whole" -> Ask(rest, "unexpected")
              [] OTHER -> Decide(Head(todo), Window)
    BY <1>2 DEF Outcomes
  <2>3. /\ m = call.m /\ m \in MethodNames /\ Len(todo) \in Nat /\ Len(todo) > 0
        /\ tl \in Seq(MethodNames) /\ Len(tl) = Len(todo) - 1
    BY <1>2, <1>4, TopIs DEF Patient
  <2>4. rest = 0 /\ t = Decide(call.m, Window)
    BY <1>1, <2>1, <2>2, <2>3 DEF Ask
  <2>5. /\ Window # <<>> /\ TakesObject(call.m, t, Window)
        /\ Skips(b)[pos][Len(todo)] = Answer
    BY <1>1, <1>2, <1>4, <2>4, RawHere DEF RawWaits, RawRefuses, Err, TakeErr
  <2>6. /\ Whole(Window) /\ k \in Nat /\ r \in Nat /\ k <= Len(Window) /\ k + r = g.v
        /\ kids \in Seq(MethodNames) /\ Len(kids) = g.o
    BY <2>5 DEF TakesObject
  <2>7. /\ getSize(Ahead(b, pos)).err = "none" /\ getSize(Ahead(b, pos)).v = g.v
        /\ getSize(Ahead(b, pos)).o = g.o
    BY <1>0, <1>2, <2>5, <2>6, AheadHere DEF IInv
  <2>8. g.v \in Nat /\ g.o \in Nat /\ Len(Window) = buffered
    <3>1. Window \in Seq(Byte) /\ Len(Window) = buffered
      BY <1>0, <1>2, WindowIs DEF IInv
    <3> QED
      BY <2>5, <2>6, <3>1, WholeSizes DEF InRange
  <2> DEFINE left == Len(todo) - 1 + g.o
  <2>9. IF pos + g.v <= Len(b) THEN Skips(b)[pos + g.v][left] = Answer
        ELSE Answer.err = "short"
    <3> HIDE DEF g
    <3>1. CASE pos + g.v <= Len(b)
      <4> DEFINE a == getSize(Ahead(b, pos))
      <4>1. a.err = "none" /\ pos + a.v <= Len(b) /\ a.v = g.v /\ a.o = g.o
        BY <2>7, <3>1
      <4>2. Skips(b)[pos][Len(todo)] = Skips(b)[pos + a.v][Len(todo) - 1 + a.o]
        BY <2>1, <2>3, <4>1, SkipCases
      <4> HIDE DEF a
      <4> QED
        BY <2>5, <3>1, <4>1, <4>2
    <3>2. CASE ~(pos + g.v <= Len(b))
      <4>1. Len(b) < pos + g.v
        BY <2>1, <2>8, <3>2
      <4>2. Skips(b)[pos][Len(todo)] = [end |-> pos, err |-> "short"]
        BY <2>1, <2>3, <2>7, <4>1, SkipCases
      <4> QED
        BY <2>5, <3>2, <4>2
    <3> QED
      BY <3>1, <3>2
  <2> DEFINE ks == kids \o tl
             ns == <<m>> \o ks
  <2>10. ks \in Seq(MethodNames) /\ Len(ks) = left
    <3> HIDE DEF g, kids, tl
    <3>1. ks \in Seq(MethodNames) /\ Len(ks) = Len(kids) + Len(tl)
      BY <2>3, <2>6, Joined
    <3> QED
      BY <2>3, <2>6, <2>8, <3>1
  <2>11. /\ ns \in Seq(MethodNames) /\ Len(ns) = 1 + left /\ ns # <<>>
         /\ <<m>> \o kids \o tl = ns
    <3> HIDE DEF left, kids, tl, m
    <3>1. <<m>> \in Seq(MethodNames) /\ Len(<<m>>) = 1
      BY <2>3
    <3>2. <<m>> \o kids \o tl = ns
      BY <2>3, <2>6, <3>1, ConcatAssociative
    <3> HIDE DEF ks
    <3>3. ns \in Seq(MethodNames) /\ Len(ns) = Len(<<m>>) + Len(ks)
      BY <2>10, <3>1, Joined
    <3>4. Len(ks) \in Nat
      BY <2>10, LenProperties
    <3> HIDE DEF ns
    <3>5. ns = <<>> => Len(ns) = 0
      BY EmptySeq
    <3> QED
      BY <2>10, <3>1, <3>2, <3>3, <3>4, <3>5
  <2>12. pos + k \in Nat /\ pos + k <= Len(b) /\ (pos + k) + r = pos + g.v
    <3> HIDE DEF g, k, r
    <3> QED
      BY <2>1, <2>6, <2>8
  <2> HIDE DEF g, k, r, m, tl, kids, left, ks, ns
  <2>13. CASE r = 0
    <3>1. todo' = ks /\ rest' = 0 /\ call' = IF ks = <<>> THEN [call EXCEPT !.res = "ok"] ELSE call
      BY <1>1, <2>13 DEF Continue, ks
    <3>2. (pos + k) + 0 = pos + g.v /\ 0 \in Nat /\ ~(0 > 0)
      BY <2>12, <2>13
    <3>3. IF (pos + k) + 0 <= Len(b)
            THEN Skips(b)[(pos + k) + 0][IF 0 = 0 THEN Len(ks) ELSE Len(ks) - 1] = Answer
            ELSE Answer.err = "short"
      BY <2>9, <2>10, <3>2
    <3> QED
      BY <1>0, <1>1, <1>2, <1>4, <2>10, <2>12, <3>1, <3>2, <3>3, Onward
  <2>14. CASE r # 0
    <3>1. todo' = ns /\ rest' = r /\ call' = call
      BY <1>1, <2>11, <2>14
    <3>2. Len(ns) - 1 = left
      <4>1. left \in Nat
        BY <2>10, LenProperties
      <4> QED
        BY <2>11, <4>1
    <3>3. IF (pos + k) + r <= Len(b)
            THEN Skips(b)[(pos + k) + r][IF r = 0 THEN Len(ns) ELSE Len(ns) - 1] = Answer
            ELSE Answer.err = "short"
      BY <2>9, <2>12, <2>14, <3>2
    <3>4. call' = IF ns = <<>> THEN [call EXCEPT !.res = "ok"] ELSE call
      BY <2>11, <3>1
    <3> QED
      BY <1>0, <1>1, <1>2, <1>4, <2>6, <2>11, <2>12, <3>1, <3>3, <3>4, Onward
  <2> QED
    BY <2>13, <2>14
<1> QED
  BY <1>3, <1>4

(* The method consumes the bytes of an object already counted.             *)
LEMMA DrainAgrees ==
  ASSUME StreamsAssumption, AInv, NEW t \in Outcomes, Drains(t)
  PROVE  Agreed' /\ AgreesWithBytes'
<1> DEFINE k == Min({buffered, rest})
           b == input.bytes
<1>0. \A s \in Streams : WellFormed(s)
  BY DEF StreamsAssumption
<1>1. /\ pc \in {"drain", "whole"} /\ pos' = pos + k /\ input' = input
      /\ IF k = rest THEN Continue(Tail(todo))
         ELSE rest' = rest - k /\ todo' = todo /\ call' = call
  BY DEF Drains, Consume
<1>2. Running /\ call \in CallRecords /\ IInv
  BY DEF Outcomes, AInv, IInv, Typed, CallRecords
<1>3. CASE call.m \notin Raws
  <2>1. call'.m = call.m
    BY <1>1, <1>2 DEF Continue, CallRecords
  <2> QED
    BY <1>3, <2>1, Others
<1>4. CASE call.m \in Raws
  <2>1. /\ b \in Seq(Byte) /\ pos \in Nat /\ rest \in Nat /\ buffered \in Nat
        /\ Len(b) \in Nat /\ pos + buffered <= Len(b) /\ rest > 0
        /\ todo \in Seq(MethodNames) /\ todo # <<>>
    BY <1>0, <1>1, <1>2, StreamFacts DEF IInv, Typed, Running
  <2>2. k \in Nat /\ k <= buffered /\ k <= rest
    <3>1. buffered \in Int /\ rest \in Int
      BY <2>1
    <3>2. k \in {buffered, rest} /\ k <= buffered /\ k <= rest
      BY <3>1, MinTwo
    <3> QED
      BY <2>1, <3>2
  <2> HIDE DEF k
  <2>3. /\ Tail(todo) \in Seq(MethodNames) /\ Len(todo) \in Nat
        /\ Len(Tail(todo)) = Len(todo) - 1
    BY <1>2, TopIs
  <2>4. IF pos + rest <= Len(b) THEN Skips(b)[pos + rest][Len(todo) - 1] = Answer
        ELSE Answer.err = "short"
    BY <1>2, <1>4, <2>1 DEF AInv, Agreed, Left
  <2>5. pos + k \in Nat /\ pos + k <= Len(b)
    BY <2>1, <2>2
  <2>6. CASE k = rest
    <3> DEFINE ms == Tail(todo)
    <3>1. /\ todo' = ms /\ rest' = 0
          /\ call' = IF ms = <<>> THEN [call EXCEPT !.res = "ok"] ELSE call
      BY <1>1, <2>6 DEF Continue
    <3>2. ms \in Seq(MethodNames) /\ Len(ms) = Len(todo) - 1
      BY <2>3
    <3> HIDE DEF ms
    <3>3. (pos + k) + 0 = pos + rest /\ 0 \in Nat /\ ~(0 > 0)
      BY <2>1, <2>6
    <3>4. IF (pos + k) + 0 <= Len(b)
            THEN Skips(b)[(pos + k) + 0][IF 0 = 0 THEN Len(ms) ELSE Len(ms) - 1] = Answer
            ELSE Answer.err = "short"
      BY <2>4, <3>2, <3>3
    <3> QED
      BY <1>0, <1>1, <1>2, <1>4, <2>5, <3>1, <3>2, <3>3, <3>4, Onward
  <2>7. CASE k # rest
    <3> DEFINE r == rest - k
    <3>1. r \in Nat /\ r # 0 /\ (pos + k) + r = pos + rest
      BY <2>1, <2>2, <2>7
    <3>2. rest' = r /\ todo' = todo /\ call' = call
      BY <1>1, <2>7
    <3> HIDE DEF r
    <3>3. IF (pos + k) + r <= Len(b)
            THEN Skips(b)[(pos + k) + r][IF r = 0 THEN Len(todo) ELSE Len(todo) - 1] = Answer
            ELSE Answer.err = "short"
      BY <2>4, <3>1
    <3>4. call' = IF todo = <<>> THEN [call EXCEPT !.res = "ok"] ELSE call
      BY <2>1, <3>2
    <3> QED
      BY <1>0, <1>1, <1>2, <1>4, <2>1, <2>5, <3>1, <3>2, <3>3, <3>4, Onward
  <2> QED
    BY <2>6, <2>7
<1> QED
  BY <1>3, <1>4

LEMMA StepAgrees ==
  ASSUME StreamsAssumption, AInv, [Next]_vars
  PROVE  AInv'
<1>0. \A s \in Streams : WellFormed(s)
  BY DEF StreamsAssumption
<1>1. IInv'
  BY <1>0, StepHolds DEF AInv
<1>2. IInv /\ call \in CallRecords
  BY DEF AInv, IInv, Typed, CallRecords
<1>3. Called'
  <2>1. \/ \E m \in Methods : call' = [m |-> m, start |-> pos, res |-> "running", io |-> FALSE]
        \/ call'.m = call.m
    BY <1>2 DEF CallRecords, Next, vars, Call, Work, Fault, Fill, EndOfStream, Fails, Takes,
         Drains, Continue, Return, ReadFails, CopyFails, UnmarshalFails
  <2> QED
    BY <2>1 DEF AInv, Called
<1>4. Agreed' /\ AgreesWithBytes'
  <2>1. CASE UNCHANGED vars
    <3>1. Running' = Running /\ Answer' = Answer /\ Left' = Left /\ Returned' = Returned
      BY <2>1 DEF vars, Running, Answer, Left, Returned
    <3> QED
      BY <2>1, <3>1 DEF AInv, vars, Agreed, AgreesWithBytes
  <2>2. ASSUME NEW m \in Methods, Call(m) PROVE Agreed' /\ AgreesWithBytes'
    BY <2>2, CallAgrees
  <2>3. CASE Work
    <3>1. PICK t \in Outcomes :
            \/ \E c \in Chunks : Fill(t, c)
            \/ EndOfStream(t) \/ Fails(t) \/ Takes(t) \/ Drains(t)
      BY <2>3 DEF Work
    <3>2. ASSUME NEW c \in Chunks, Fill(t, c) PROVE Agreed' /\ AgreesWithBytes'
      BY <3>2, FillAgrees
    <3> QED
      BY <3>1, <3>2, EndAgrees, FailAgrees, TakeAgrees, DrainAgrees
  <2>4. CASE Fault
    <3>1. PICK t \in Outcomes : ReadFails(t) \/ CopyFails(t) \/ UnmarshalFails(t)
      BY <2>4 DEF Fault
    <3>2. \E e : Return(e, TRUE)
      BY <3>1 DEF ReadFails, CopyFails, UnmarshalFails
    <3>3. Running /\ input' = input
      BY <2>4, <3>1 DEF Fault, Outcomes
    <3> QED
      BY <1>2, <3>2, <3>3, Broken
  <2> QED
    BY <2>1, <2>2, <2>3, <2>4 DEF Next
<1> QED
  BY <1>1, <1>3, <1>4 DEF AInv

(* Skip, CopyNext and Raw.DecodeMsg succeed on the same encodings as the   *)
(* Skip on a []byte, consume as much, and call the same ones invalid, on   *)
(* well-formed streams of any length, cut anywhere and arriving in any     *)
(* pieces; for Skip the streams hold no ext32, which it cannot read.       *)
THEOREM StreamAgreesWithBytes ==
  ASSUME StreamsAssumption
  PROVE  Spec => []AgreesWithBytes
<1>1. Init => AInv
  <2> SUFFICES ASSUME Init PROVE AInv
    OBVIOUS
  <2>1. IInv
    BY InitHolds DEF StreamsAssumption
  <2>2. todo = <<>> /\ call.m = "none"
    BY DEF Init
  <2> QED
    BY <2>1, <2>2 DEF AInv, Called, Agreed, AgreesWithBytes, Running, Returned
<1>2. AInv /\ [Next]_vars => AInv'
  BY StepAgrees
<1>3. AInv => AgreesWithBytes
  BY DEF AInv
<1> QED
  BY <1>1, <1>2, <1>3, PTL DEF Spec
=============================================================================
