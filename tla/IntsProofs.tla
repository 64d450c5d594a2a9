----------------------------- MODULE IntsProofs -----------------------------
(***************************************************************************)
(* Proofs about the integer codecs, for every 64-bit pattern.              *)
(***************************************************************************)
EXTENDS Ints, SequenceTheorems, TLAPS

-----------------------------------------------------------------------------
(* The order of words, byte by byte.                                       *)

LEMMA ByteOf ==
  ASSUME NEW a \in Word
  PROVE  \A i \in 1..8 : a[i] \in 0..255 /\ a[i] \in Int /\ 0 <= a[i] /\ a[i] <= 255
BY DEF Word, Byte

LEMMA SameWord ==
  ASSUME NEW a \in Word, NEW b \in Word,
         a[1] = b[1], a[2] = b[2], a[3] = b[3], a[4] = b[4],
         a[5] = b[5], a[6] = b[6], a[7] = b[7], a[8] = b[8]
  PROVE  a = b
<1>1. \A i \in 1..8 : a[i] = b[i]
  OBVIOUS
<1> QED
  BY <1>1 DEF Word

(* Lexicographic comparison, written out.                                  *)
Lex(a, b) ==
  a[1] < b[1] \/ (a[1] = b[1] /\ (a[2] < b[2] \/ (a[2] = b[2] /\
 (a[3] < b[3] \/ (a[3] = b[3] /\ (a[4] < b[4] \/ (a[4] = b[4] /\
 (a[5] < b[5] \/ (a[5] = b[5] /\ (a[6] < b[6] \/ (a[6] = b[6] /\
 (a[7] < b[7] \/ (a[7] = b[7] /\ a[8] <= b[8])))))))))))))

LEMMA LeqIsLex ==
  ASSUME NEW a \in Word, NEW b \in Word
  PROVE  Leq(a, b) <=> Lex(a, b)
<1>0. /\ a[1] \in Int /\ a[2] \in Int /\ a[3] \in Int /\ a[4] \in Int
      /\ a[5] \in Int /\ a[6] \in Int /\ a[7] \in Int /\ a[8] \in Int
      /\ b[1] \in Int /\ b[2] \in Int /\ b[3] \in Int /\ b[4] \in Int
      /\ b[5] \in Int /\ b[6] \in Int /\ b[7] \in Int /\ b[8] \in Int
  <2>1. \A i \in 1..8 : a[i] \in Int /\ b[i] \in Int
    BY DEF Word, Byte
  <2> QED
    BY <2>1
<1>1. ASSUME Leq(a, b) PROVE Lex(a, b)
  <2>1. CASE a = b
    BY <1>0, <2>1 DEF Lex
  <2>2. ASSUME NEW j \in 1..8, a[j] < b[j], \A m \in 1..j-1 : a[m] = b[m]
        PROVE  Lex(a, b)
    <3>1. /\ 1 < j => a[1] = b[1]
          /\ 2 < j => a[2] = b[2]
          /\ 3 < j => a[3] = b[3]
          /\ 4 < j => a[4] = b[4]
          /\ 5 < j => a[5] = b[5]
          /\ 6 < j => a[6] = b[6]
          /\ 7 < j => a[7] = b[7]
      BY <2>2
    <3>2. j = 1 \/ j = 2 \/ j = 3 \/ j = 4 \/ j = 5 \/ j = 6 \/ j = 7 \/ j = 8
      BY <2>2
    <3> QED
      BY <1>0, <2>2, <3>1, <3>2 DEF Lex
  <2> QED
    BY <1>1, <2>1, <2>2 DEF Leq
<1>2. ASSUME Lex(a, b) PROVE Leq(a, b)
  <2>1. ASSUME NEW j \in 1..8, a[j] < b[j], \A m \in 1..j-1 : a[m] = b[m]
        PROVE  Leq(a, b)
    BY <2>1 DEF Leq
  <2>2. CASE a[1] < b[1]
    BY <2>1, <2>2
  <2>3. CASE a[1] = b[1] /\ a[2] < b[2]
    BY <2>1, <2>3
  <2>4. CASE a[1] = b[1] /\ a[2] = b[2] /\ a[3] < b[3]
    BY <2>1, <2>4
  <2>5. CASE a[1] = b[1] /\ a[2] = b[2] /\ a[3] = b[3] /\ a[4] < b[4]
    BY <2>1, <2>5
  <2>6. CASE /\ a[1] = b[1] /\ a[2] = b[2] /\ a[3] = b[3] /\ a[4] = b[4]
             /\ a[5] < b[5]
    BY <2>1, <2>6
  <2>7. CASE /\ a[1] = b[1] /\ a[2] = b[2] /\ a[3] = b[3] /\ a[4] = b[4]
             /\ a[5] = b[5] /\ a[6] < b[6]
    BY <2>1, <2>7
  <2>8. CASE /\ a[1] = b[1] /\ a[2] = b[2] /\ a[3] = b[3] /\ a[4] = b[4]
             /\ a[5] = b[5] /\ a[6] = b[6] /\ a[7] < b[7]
    BY <2>1, <2>8
  <2>9. CASE /\ a[1] = b[1] /\ a[2] = b[2] /\ a[3] = b[3] /\ a[4] = b[4]
             /\ a[5] = b[5] /\ a[6] = b[6] /\ a[7] = b[7] /\ a[8] < b[8]
    BY <2>1, <2>9
  <2>10. CASE /\ a[1] = b[1] /\ a[2] = b[2] /\ a[3] = b[3] /\ a[4] = b[4]
              /\ a[5] = b[5] /\ a[6] = b[6] /\ a[7] = b[7] /\ a[8] = b[8]
    BY <2>10, SameWord DEF Leq
  <2> QED
    BY <1>0, <1>2, <2>2, <2>3, <2>4, <2>5, <2>6, <2>7, <2>8, <2>9, <2>10 DEF Lex
<1> QED
  BY <1>1, <1>2

-----------------------------------------------------------------------------
(* Words between two words that begin alike, and the ends of the order.    *)

LEMMA Between ==
  ASSUME NEW a \in Word, NEW b \in Word, NEW z \in Word, NEW j \in 1..8,
         \A i \in 1..j-1 : z[i] = b[i], Leq(z, a), Leq(a, b)
  PROVE  /\ \A i \in 1..j-1 : a[i] = b[i]
         /\ z[j] <= a[j] /\ a[j] <= b[j]
<1>0. \A i \in 1..8 : a[i] \in Int /\ b[i] \in Int /\ z[i] \in Int
  BY ByteOf
<1>1. ASSUME a = b, z # a
      PROVE  /\ \A i \in 1..j-1 : a[i] = b[i]
             /\ z[j] <= a[j] /\ a[j] <= b[j]
  <2>1. PICK q \in 1..8 : z[q] < a[q] /\ \A m \in 1..q-1 : z[m] = a[m]
    BY <1>1 DEF Leq
  <2>2. q >= j
    BY <1>0, <1>1, <2>1
  <2> QED
    BY <1>0, <1>1, <2>1, <2>2
<1>2. CASE z = a
  BY <1>0, <1>2 DEF Leq
<1>3. ASSUME a # b, z # a
      PROVE  /\ \A i \in 1..j-1 : a[i] = b[i]
             /\ z[j] <= a[j] /\ a[j] <= b[j]
  <2>1. PICK p \in 1..8 : a[p] < b[p] /\ \A m \in 1..p-1 : a[m] = b[m]
    BY <1>3 DEF Leq
  <2>2. PICK q \in 1..8 : z[q] < a[q] /\ \A m \in 1..q-1 : z[m] = a[m]
    BY <1>3 DEF Leq
  <2>3. p >= j
    <3>1. SUFFICES ASSUME p < j PROVE FALSE
      OBVIOUS
    <3>2. z[p] = b[p]
      BY <3>1
    <3>3. CASE q < p
      BY <1>0, <2>1, <2>2, <3>1, <3>3
    <3>4. CASE q >= p
      BY <1>0, <2>1, <2>2, <3>2, <3>4
    <3> QED
      BY <3>3, <3>4
  <2>4. q >= j
    BY <1>0, <2>1, <2>2, <2>3
  <2> QED
    BY <1>0, <2>1, <2>2, <2>3, <2>4
<1> QED
  BY <1>1, <1>2, <1>3

LEMMA LeqFromZeros ==
  ASSUME NEW a \in Word, NEW z \in Word, z[1] <= a[1], \A i \in 2..8 : z[i] = 0
  PROVE  Leq(z, a)
<1>1. \A i \in 1..8 : a[i] \in Int /\ z[i] \in Int /\ 0 <= a[i]
  BY ByteOf
<1> QED
  BY <1>1, LeqIsLex DEF Lex

LEMMA LeqToOnes ==
  ASSUME NEW a \in Word, NEW b \in Word, a[1] <= b[1], \A i \in 2..8 : b[i] = 255
  PROVE  Leq(a, b)
<1>1. \A i \in 1..8 : a[i] \in Int /\ b[i] \in Int /\ a[i] <= 255
  BY ByteOf
<1> QED
  BY <1>1, LeqIsLex DEF Lex

LEMMA LeqFirst ==
  ASSUME NEW a \in Word, NEW b \in Word, Leq(a, b)
  PROVE  a[1] <= b[1]
<1>1. \A i \in 1..8 : a[i] \in Int /\ b[i] \in Int
  BY ByteOf
<1> QED
  BY <1>1, LeqIsLex DEF Lex

LEMMA PatternBytes ==
  ASSUME NEW above \in Byte, NEW j \in 1..8, NEW x \in Byte, NEW y \in Byte
  PROVE  /\ Pattern(above, j, x, y) \in Word
         /\ \A i \in 1..8 : Pattern(above, j, x, y)[i] =
              IF i < j THEN above ELSE IF i = j THEN x ELSE y
BY DEF Pattern, Word, Byte

LEMMA FlipBytes ==
  ASSUME NEW a \in Word
  PROVE  /\ Flip(a) \in Word
         /\ Flip(a)[1] = IF a[1] < 128 THEN a[1] + 128 ELSE a[1] - 128
         /\ \A i \in 2..8 : Flip(a)[i] = a[i]
<1>1. a[1] \in 0..255
  BY ByteOf
<1>2. (a[1] + 128) % 256 = IF a[1] < 128 THEN a[1] + 128 ELSE a[1] - 128
  BY <1>1
<1>3. (a[1] + 128) % 256 \in Byte
  BY <1>1, <1>2 DEF Byte
<1>4. /\ Flip(a) \in Word /\ Flip(a)[1] = (a[1] + 128) % 256
      /\ \A i \in 2..8 : Flip(a)[i] = a[i]
  BY <1>3 DEF Flip, Word
<1> QED
  BY <1>2, <1>4

-----------------------------------------------------------------------------
(* What the tests of the writers and the readers say of the bytes.         *)

LEMMA BytesIn ==
  0 \in Byte /\ 127 \in Byte /\ 128 \in Byte /\ 224 \in Byte /\ 255 \in Byte
BY DEF Byte

LEMMA Limits ==
  ASSUME NEW k \in Widths
  PROVE  /\ Zero \in Word /\ \A i \in 1..8 : Zero[i] = 0
         /\ Minus32 \in Word /\ \A i \in 1..8 : Minus32[i] = IF i < 8 THEN 255 ELSE 224
         /\ MaxUint(k) \in Word
         /\ \A i \in 1..8 : MaxUint(k)[i] = IF i < 9 - k THEN 0 ELSE 255
         /\ MaxInt(k) \in Word
         /\ \A i \in 1..8 : MaxInt(k)[i] =
              IF i < 9 - k THEN 0 ELSE IF i = 9 - k THEN 127 ELSE 255
         /\ MinInt(k) \in Word
         /\ \A i \in 1..8 : MinInt(k)[i] =
              IF i < 9 - k THEN 255 ELSE IF i = 9 - k THEN 128 ELSE 0
<1> DEFINE j == 9 - k
<1>1. /\ j \in 1..8 /\ MaxUint(k) = Pattern(0, j, 255, 255)
      /\ MaxInt(k) = Pattern(0, j, 127, 255) /\ MinInt(k) = Pattern(255, j, 128, 0)
  BY DEF Widths, MaxUint, MaxInt, MinInt
<1> HIDE DEF j
<1>2. Zero \in Word /\ \A i \in 1..8 : Zero[i] = 0
  BY PatternBytes, BytesIn DEF Zero
<1>3. Minus32 \in Word /\ \A i \in 1..8 : Minus32[i] = IF i < 8 THEN 255 ELSE 224
  BY PatternBytes, BytesIn DEF Minus32
<1>4. MaxUint(k) \in Word /\ \A i \in 1..8 : MaxUint(k)[i] = IF i < j THEN 0 ELSE 255
  BY <1>1 DEF Pattern, Word, Byte
<1>5. /\ MaxInt(k) \in Word
      /\ \A i \in 1..8 : MaxInt(k)[i] =
           IF i < j THEN 0 ELSE IF i = j THEN 127 ELSE 255
  BY <1>1 DEF Pattern, Word, Byte
<1>6. /\ MinInt(k) \in Word
      /\ \A i \in 1..8 : MinInt(k)[i] =
           IF i < j THEN 255 ELSE IF i = j THEN 128 ELSE 0
  BY <1>1 DEF Pattern, Word, Byte
<1> QED
  BY <1>2, <1>3, <1>4, <1>5, <1>6 DEF j

(* At most x in the byte at place j and zeros above it.                    *)
LEMMA SmallUint ==
  ASSUME NEW u \in Word, NEW b \in Word, NEW j \in 1..8,
         \A i \in 1..j-1 : b[i] = 0, Leq(u, b)
  PROVE  (\A i \in 1..j-1 : u[i] = 0) /\ u[j] <= b[j]
<1>1. Zero \in Word /\ \A i \in 1..8 : Zero[i] = 0
  BY Limits DEF Widths
<1>2. Leq(Zero, u)
  <2>1. u[1] \in 0..255
    BY ByteOf
  <2> QED
    BY <1>1, <2>1, LeqFromZeros
<1> QED
  BY <1>1, <1>2, Between

LEMMA NonNegative ==
  ASSUME NEW i \in Word
  PROVE  SLeq(Zero, i) <=> i[1] < 128
<1>1. Zero \in Word /\ \A n \in 1..8 : Zero[n] = 0
  BY Limits DEF Widths
<1>2. /\ Flip(Zero) \in Word /\ Flip(Zero)[1] = 128
      /\ \A n \in 2..8 : Flip(Zero)[n] = 0
  BY <1>1, FlipBytes
<1>3. Flip(i) \in Word /\ Flip(i)[1] = IF i[1] < 128 THEN i[1] + 128 ELSE i[1] - 128
  BY FlipBytes
<1>4. i[1] \in 0..255
  BY ByteOf
<1>5. ASSUME i[1] < 128 PROVE SLeq(Zero, i)
  BY <1>2, <1>3, <1>4, <1>5, LeqFromZeros DEF SLeq
<1>6. ASSUME SLeq(Zero, i) PROVE i[1] < 128
  <2>1. 128 <= Flip(i)[1]
    BY <1>2, <1>3, <1>6, LeqFirst DEF SLeq
  <2> QED
    BY <1>3, <1>4, <2>1
<1> QED
  BY <1>5, <1>6

(* A value that is not negative is at most MaxInt(k) only with zeros above *)
(* its last k bytes and no sign in them.                                   *)
LEMMA SmallPositive ==
  ASSUME NEW i \in Word, NEW k \in Widths, i[1] < 128, SLeq(i, MaxInt(k))
  PROVE  (\A n \in 1..8-k : i[n] = 0) /\ i[9 - k] < 128
<1> DEFINE m == MaxInt(k)
           j == 9 - k
<1>1. /\ m \in Word
      /\ \A n \in 1..8 : m[n] = IF n < j THEN 0 ELSE IF n = j THEN 127 ELSE 255
      /\ j \in 1..8 /\ k \in 1..8
  BY Limits DEF Widths
<1>2. Leq(Flip(Zero), Flip(i)) /\ Leq(Flip(i), Flip(m))
  BY NonNegative DEF SLeq
<1> HIDE DEF m, j
<1>3. /\ Flip(Zero) \in Word /\ Flip(Zero)[1] = 128
      /\ \A n \in 2..8 : Flip(Zero)[n] = 0
  BY FlipBytes, Limits DEF Widths
<1>4. /\ Flip(m) \in Word /\ Flip(m)[1] = m[1] + 128
      /\ \A n \in 2..8 : Flip(m)[n] = m[n]
  BY <1>1, FlipBytes
<1>5. /\ Flip(i) \in Word /\ Flip(i)[1] = i[1] + 128
      /\ \A n \in 2..8 : Flip(i)[n] = i[n]
  BY FlipBytes
<1>7. \A n \in 1..j-1 : Flip(Zero)[n] = Flip(m)[n]
  BY <1>1, <1>3, <1>4
<1>8. /\ \A n \in 1..j-1 : Flip(i)[n] = Flip(m)[n]
      /\ Flip(i)[j] <= Flip(m)[j]
  BY <1>1, <1>2, <1>3, <1>4, <1>5, <1>7, Between
<1>9. \A n \in 1..8 : i[n] \in 0..255
  BY ByteOf
<1>10. (\A n \in 1..j-1 : i[n] = 0) /\ i[j] < 128
  BY <1>1, <1>4, <1>5, <1>8, <1>9, SMTT(40)
<1> QED
  BY <1>1, <1>10 DEF j

LEMMA SmallNegative ==
  ASSUME NEW i \in Word, NEW b \in Word, NEW j \in 1..8,
         i[1] >= 128, b[1] >= 128, \A n \in 1..j-1 : b[n] = 255, SLeq(b, i)
  PROVE  (\A n \in 1..j-1 : i[n] = 255) /\ i[j] >= b[j]
<1> DEFINE ones == Pattern(255, 8, 255, 255)
<1>1. ones \in Word /\ \A n \in 1..8 : ones[n] = 255
  BY DEF Pattern, Word, Byte
<1> HIDE DEF ones
<1>2. \A n \in 1..8 : i[n] \in 0..255 /\ b[n] \in 0..255
  BY ByteOf
<1>3. /\ Flip(i) \in Word /\ Flip(i)[1] = i[1] - 128
      /\ \A n \in 2..8 : Flip(i)[n] = i[n]
  BY <1>2, FlipBytes
<1>4. /\ Flip(b) \in Word /\ Flip(b)[1] = b[1] - 128
      /\ \A n \in 2..8 : Flip(b)[n] = b[n]
  BY <1>2, FlipBytes
<1>5. /\ Flip(ones) \in Word /\ Flip(ones)[1] = 127
      /\ \A n \in 2..8 : Flip(ones)[n] = 255
  BY <1>1, FlipBytes
<1>6. Leq(Flip(b), Flip(i)) /\ Leq(Flip(i), Flip(ones))
  BY <1>2, <1>3, <1>5, LeqToOnes DEF SLeq
<1>7. \A n \in 1..j-1 : Flip(b)[n] = Flip(ones)[n]
  BY <1>4, <1>5
<1>8. /\ \A n \in 1..j-1 : Flip(i)[n] = Flip(ones)[n]
      /\ Flip(b)[j] <= Flip(i)[j]
  BY <1>3, <1>4, <1>5, <1>6, <1>7, Between
<1>9. CASE j = 1
  <2>1. Flip(b)[1] <= Flip(i)[1]
    BY <1>8, <1>9
  <2>2. i[1] \in 0..255 /\ b[1] \in 0..255
    BY <1>2
  <2>3. i[1] >= b[1]
    <3>1. Flip(i)[1] = i[1] - 128 /\ Flip(b)[1] = b[1] - 128
      BY <1>3, <1>4
    <3>2. i[1] = Flip(i)[1] + 128 /\ b[1] = Flip(b)[1] + 128
      BY <2>2, <3>1
    <3>3. Flip(i)[1] \in Int /\ Flip(b)[1] \in Int
      BY <2>2, <3>1
    <3> QED
      BY <2>1, <3>2, <3>3
  <2> QED
    BY <1>9, <2>3
<1>10. CASE j > 1
  <2>1. Flip(i)[1] = 127
    BY <1>5, <1>8, <1>10
  <2> QED
    BY <1>2, <1>3, <1>4, <1>5, <1>8, <1>10, <2>1
<1> QED
  BY <1>9, <1>10

(* The test of ReadInt64 on a uint64.                                      *)
LEMMA FitsInt64 ==
  ASSUME NEW u \in Word
  PROVE  Leq(u, MaxInt(8)) <=> u[1] < 128
<1>1. MaxInt(8) \in Word /\ MaxInt(8)[1] = 127 /\ \A n \in 2..8 : MaxInt(8)[n] = 255
  BY DEF MaxInt, Pattern, Word, Byte
<1>2. u[1] \in 0..255
  BY ByteOf
<1>3. ASSUME Leq(u, MaxInt(8)) PROVE u[1] < 128
  <2>1. u[1] <= MaxInt(8)[1]
    BY <1>1, <1>3, LeqFirst
  <2> QED
    BY <1>1, <1>2, <2>1
<1>4. ASSUME u[1] < 128 PROVE Leq(u, MaxInt(8))
  BY <1>1, <1>2, <1>4, LeqToOnes
<1> QED
  BY <1>3, <1>4

-----------------------------------------------------------------------------
(* The four forms of an integer on the wire: one byte, with or without a   *)
(* sign, or a prefix and the last k bytes of the value.                    *)
Fix(w, v) == w = <<v[8]>> /\ v[8] < 128 /\ \A n \in 1..7 : v[n] = 0
NegFix(w, v) == w = <<v[8]>> /\ v[8] >= 224 /\ \A n \in 1..7 : v[n] = 255
Prefixed(w, v, lead, k) ==
  /\ w \in Seq(Byte) /\ Len(w) = k + 1 /\ w[1] = lead
  /\ \A n \in 2..k+1 : w[n] = v[n + 7 - k]
SignedForm(w, v, k) ==
  /\ Prefixed(w, v, mint(k), k)
  /\ \A n \in 1..8-k : v[n] = IF v[9 - k] >= 128 THEN 255 ELSE 0
UnsignedForm(w, v, k) ==
  /\ Prefixed(w, v, muint(k), k)
  /\ \A n \in 1..8-k : v[n] = 0

LEMMA PutPrefixed ==
  ASSUME NEW i \in Word, NEW lead \in Byte, NEW k \in Widths
  PROVE  Prefixed(put(lead, k, i), i, lead, k)
<1> DEFINE s == SubSeq(i, 9 - k, 8)
<1>1. k \in 1..8 /\ \A n \in 9-k..8 : i[n] \in Byte
  BY DEF Widths, Word
<1>2. s \in Seq(Byte) /\ Len(s) = k /\ \A n \in 1..k : s[n] = i[n + 8 - k]
  <2>1. /\ s \in Seq(Byte) /\ Len(s) = IF 9 - k <= 8 THEN 8 - (9 - k) + 1 ELSE 0
        /\ \A n \in 1..8 - (9 - k) + 1 : s[n] = i[(9 - k) + n - 1]
    BY <1>1, SubSeqProperties
  <2> QED
    BY <1>1, <2>1
<1> HIDE DEF s
<1>3. /\ <<lead>> \o s \in Seq(Byte) /\ Len(<<lead>> \o s) = k + 1
      /\ (<<lead>> \o s)[1] = lead
      /\ \A n \in 2..k+1 : (<<lead>> \o s)[n] = s[n - 1]
  BY <1>1, <1>2
<1>4. \A n \in 2..k+1 : (<<lead>> \o s)[n] = i[n + 7 - k]
  BY <1>1, <1>2, <1>3
<1> QED
  BY <1>3, <1>4 DEF Prefixed, put, s

-----------------------------------------------------------------------------
(* The writers.                                                            *)

Written(w, v, m, signed) ==
  \/ Fix(w, v)
  \/ signed /\ NegFix(w, v)
  \/ \E k \in Widths : /\ k <= m
                       /\ \/ signed /\ SignedForm(w, v, k)
                          \/ ~signed /\ UnsignedForm(w, v, k)

LEMMA Prefixes ==
  ASSUME NEW k \in Widths
  PROVE  mint(k) \in 208..211 /\ muint(k) \in 204..207 /\ mint(k) \in Byte /\ muint(k) \in Byte
BY DEF Widths, mint, muint, Byte

LEMMA FixWritten ==
  ASSUME NEW i \in Word, \A n \in 1..7 : i[n] = 0, i[8] < 128
  PROVE  Fix(wfixint(i), i)
<1>1. i[8] \in 0..127
  BY ByteOf
<1> QED
  BY <1>1 DEF Fix, wfixint

LEMMA NegFixWritten ==
  ASSUME NEW i \in Word, \A n \in 1..7 : i[n] = 255, i[8] >= 224
  PROVE  NegFix(wnfixint(i), i)
<1>1. i[8] \in 224..255
  BY ByteOf
<1> QED
  BY <1>1 DEF NegFix, wnfixint

LEMMA PositiveWritten ==
  ASSUME NEW i \in Word, NEW k \in Widths, i[1] < 128, SLeq(i, MaxInt(k))
  PROVE  SignedForm(put(mint(k), k, i), i, k)
<1>1. (\A n \in 1..8-k : i[n] = 0) /\ i[9 - k] < 128 /\ 9 - k \in 1..8
  BY SmallPositive DEF Widths
<1>2. ~(i[9 - k] >= 128)
  BY <1>1, ByteOf
<1>3. Prefixed(put(mint(k), k, i), i, mint(k), k)
  BY PutPrefixed, Prefixes
<1> QED
  BY <1>1, <1>2, <1>3 DEF SignedForm

LEMMA NegativeWritten ==
  ASSUME NEW i \in Word, NEW k \in Widths, i[1] >= 128, SLeq(MinInt(k), i)
  PROVE  SignedForm(put(mint(k), k, i), i, k)
<1> DEFINE b == MinInt(k)
           j == 9 - k
<1>1. /\ b \in Word /\ j \in 1..8 /\ k \in 1..8
      /\ \A n \in 1..8 : b[n] = IF n < j THEN 255 ELSE IF n = j THEN 128 ELSE 0
  BY Limits DEF Widths
<1>2. SLeq(b, i)
  OBVIOUS
<1> HIDE DEF b, j
<1>3. b[1] >= 128 /\ b[j] = 128 /\ \A n \in 1..j-1 : b[n] = 255
  BY <1>1
<1>4. (\A n \in 1..j-1 : i[n] = 255) /\ i[j] >= 128
  BY <1>1, <1>2, <1>3, SmallNegative
<1>5. (\A n \in 1..8-k : i[n] = 255) /\ i[9 - k] >= 128
  BY <1>1, <1>4 DEF j
<1>6. Prefixed(put(mint(k), k, i), i, mint(k), k)
  BY PutPrefixed, Prefixes
<1> QED
  BY <1>5, <1>6 DEF SignedForm

LEMMA UintWritten ==
  ASSUME NEW u \in Word, NEW k \in Widths, IsUint(u, k)
  PROVE  UnsignedForm(put(muint(k), k, u), u, k)
<1> DEFINE b == MaxUint(k)
           j == 9 - k
<1>1. /\ b \in Word /\ j \in 1..8 /\ k \in 1..8 /\ Leq(u, b)
      /\ \A n \in 1..8 : b[n] = IF n < j THEN 0 ELSE 255
  BY Limits DEF Widths, IsUint
<1> HIDE DEF b, j
<1>2. \A n \in 1..j-1 : u[n] = 0
  BY <1>1, SmallUint
<1>3. \A n \in 1..8-k : u[n] = 0
  BY <1>1, <1>2 DEF j
<1>4. Prefixed(put(muint(k), k, u), u, muint(k), k)
  BY PutPrefixed, Prefixes
<1> QED
  BY <1>3, <1>4 DEF UnsignedForm

(* MaxInt(1) is the largest positive fixint, Minus32 the least negative.   *)
LEMMA FixintTest ==
  ASSUME NEW i \in Word, Leq(i, MaxInt(1)) \/ (SLeq(Zero, i) /\ SLeq(i, MaxInt(1)))
  PROVE  (\A n \in 1..7 : i[n] = 0) /\ i[8] < 128
<1>1. /\ MaxInt(1) \in Word /\ MaxInt(1)[8] = 127
      /\ \A n \in 1..7 : MaxInt(1)[n] = 0
  BY DEF MaxInt, Pattern, Word, Byte
<1>2. i[8] \in 0..255
  BY ByteOf
<1>3. CASE Leq(i, MaxInt(1))
  BY <1>1, <1>2, <1>3, SmallUint
<1>4. CASE SLeq(Zero, i) /\ SLeq(i, MaxInt(1))
  <2>1. i[1] < 128 /\ 1 \in Widths
    BY <1>4, NonNegative DEF Widths
  <2>2. (\A n \in 1..8-1 : i[n] = 0) /\ i[9 - 1] < 128
    BY <1>4, <2>1, SmallPositive
  <2> QED
    BY <2>2
<1> QED
  BY <1>3, <1>4

LEMMA NfixintTest ==
  ASSUME NEW i \in Word, ~SLeq(Zero, i), SLeq(Minus32, i)
  PROVE  (\A n \in 1..7 : i[n] = 255) /\ i[8] >= 224
<1>1. /\ Minus32 \in Word /\ Minus32[8] = 224 /\ Minus32[1] = 255
      /\ \A n \in 1..8-1 : Minus32[n] = 255
  BY DEF Minus32, Pattern, Word, Byte
<1>2. i[1] >= 128 /\ i[8] \in 0..255
  BY NonNegative, ByteOf
<1>3. (\A n \in 1..8-1 : i[n] = 255) /\ i[8] >= Minus32[8]
  BY <1>1, <1>2, SmallNegative
<1> QED
  BY <1>1, <1>3

(* The least width of a set that is enough, where one is.                  *)
LEMMA LeastEnough ==
  ASSUME NEW ks \in SUBSET Widths, NEW good \in SUBSET ks, good # {}
  PROVE  \E k \in good : \A j \in good : k <= j
<1>1. CASE 1 \in good
  BY <1>1 DEF Widths
<1>2. CASE 1 \notin good /\ 2 \in good
  BY <1>2 DEF Widths
<1>3. CASE 1 \notin good /\ 2 \notin good /\ 4 \in good
  BY <1>3 DEF Widths
<1>4. CASE 1 \notin good /\ 2 \notin good /\ 4 \notin good
  <2>1. \A g \in good : g = 8
    BY <1>4 DEF Widths
  <2> QED
    BY <2>1
<1> QED
  BY <1>1, <1>2, <1>3, <1>4

LEMMA LeastIs ==
  ASSUME NEW ks \in SUBSET Widths, NEW good \in SUBSET ks, NEW m \in good
  PROVE  LET k == CHOOSE k \in ks : k \in good /\ \A j \in ks : j \in good => k <= j
         IN  k \in good /\ k <= m
<1>1. \E k \in ks : k \in good /\ \A j \in ks : j \in good => k <= j
  BY LeastEnough
<1> DEFINE c == CHOOSE k \in ks : k \in good /\ \A j \in ks : j \in good => k <= j
<1>2. c \in good /\ \A j \in ks : j \in good => c <= j
  BY <1>1, Zenon
<1> QED
  BY <1>2, Zenon

LEMMA WriteInt64Form ==
  ASSUME NEW i \in Word, NEW m \in {2, 4, 8}, IsInt(i, m)
  PROVE  Written(WriteInt64(i), i, m, TRUE)
<1> DEFINE ups == {k \in {2, 4, 8} : SLeq(i, MaxInt(k))}
           downs == {k \in Widths : SLeq(MinInt(k), i)}
           up == CHOOSE k \in {2, 4, 8} : SLeq(i, MaxInt(k)) /\ \A j \in {2, 4, 8} : SLeq(i, MaxInt(j)) => k <= j
           down == CHOOSE k \in Widths : SLeq(MinInt(k), i) /\ \A j \in Widths : SLeq(MinInt(j), i) => k <= j
<1>1. WriteInt64(i) =
        IF SLeq(Zero, i)
        THEN IF SLeq(i, MaxInt(1)) THEN wfixint(i) ELSE put(mint(up), up, i)
        ELSE IF SLeq(Minus32, i) THEN wnfixint(i) ELSE put(mint(down), down, i)
  BY DEF WriteInt64, Least
<1>2. up \in {2, 4, 8} /\ SLeq(i, MaxInt(up)) /\ up <= m
  <2>1. {2, 4, 8} \in SUBSET Widths /\ ups \in SUBSET {2, 4, 8} /\ m \in ups
    BY DEF Widths, IsInt
  <2>2. up = CHOOSE k \in {2, 4, 8} : k \in ups /\ \A j \in {2, 4, 8} : j \in ups => k <= j
    OBVIOUS
  <2>3. up \in ups /\ up <= m
    BY <2>1, <2>2, LeastIs
  <2> QED
    BY <2>3
<1>3. down \in Widths /\ SLeq(MinInt(down), i) /\ down <= m
  <2>1. downs \in SUBSET Widths /\ m \in downs
    BY DEF Widths, IsInt
  <2>2. down = CHOOSE k \in Widths : k \in downs /\ \A j \in Widths : j \in downs => k <= j
    OBVIOUS
  <2>3. down \in downs /\ down <= m
    BY <2>1, <2>2, LeastIs
  <2> QED
    BY <2>3
<1> HIDE DEF ups, downs, up, down
<1>4. CASE SLeq(Zero, i) /\ SLeq(i, MaxInt(1))
  BY <1>1, <1>4, FixintTest, FixWritten DEF Written
<1>5. CASE SLeq(Zero, i) /\ ~SLeq(i, MaxInt(1))
  <2>1. i[1] < 128 /\ up \in Widths
    BY <1>2, <1>5, NonNegative DEF Widths
  <2>2. SignedForm(put(mint(up), up, i), i, up)
    BY <1>2, <2>1, PositiveWritten
  <2> QED
    BY <1>1, <1>2, <1>5, <2>1, <2>2 DEF Written
<1>6. CASE ~SLeq(Zero, i) /\ SLeq(Minus32, i)
  BY <1>1, <1>6, NfixintTest, NegFixWritten DEF Written
<1>7. CASE ~SLeq(Zero, i) /\ ~SLeq(Minus32, i)
  <2>1. i[1] >= 128
    BY <1>7, NonNegative, ByteOf
  <2>2. SignedForm(put(mint(down), down, i), i, down)
    BY <1>3, <2>1, NegativeWritten
  <2> QED
    BY <1>1, <1>3, <1>7, <2>2 DEF Written
<1> QED
  BY <1>4, <1>5, <1>6, <1>7

LEMMA WriteUint64Form ==
  ASSUME NEW u \in Word, NEW m \in {2, 4, 8}, IsUint(u, m)
  PROVE  Written(WriteUint64(u), u, m, FALSE)
<1> DEFINE good == {k \in Widths : Leq(u, MaxUint(k))}
           l == CHOOSE k \in Widths : Leq(u, MaxUint(k)) /\ \A j \in Widths : Leq(u, MaxUint(j)) => k <= j
<1>1. WriteUint64(u) = IF Leq(u, MaxInt(1)) THEN wfixint(u) ELSE put(muint(l), l, u)
  BY DEF WriteUint64, Least
<1>2. l \in Widths /\ IsUint(u, l) /\ l <= m
  <2>1. good \in SUBSET Widths /\ m \in good
    BY DEF Widths, IsUint
  <2>2. l = CHOOSE k \in Widths : k \in good /\ \A j \in Widths : j \in good => k <= j
    OBVIOUS
  <2>3. l \in good /\ l <= m
    BY <2>1, <2>2, LeastIs
  <2> QED
    BY <2>3 DEF IsUint
<1> HIDE DEF good, l
<1>3. CASE Leq(u, MaxInt(1))
  BY <1>1, <1>3, FixintTest, FixWritten DEF Written
<1>4. CASE ~Leq(u, MaxInt(1))
  BY <1>1, <1>2, <1>4, UintWritten DEF Written
<1> QED
  BY <1>3, <1>4

LEMMA WriteInt8Form ==
  ASSUME NEW i \in Word, IsInt(i, 1)
  PROVE  Written(WriteInt8(i), i, 1, TRUE)
<1>1. 1 \in Widths /\ SLeq(MinInt(1), i) /\ SLeq(i, MaxInt(1))
  BY DEF Widths, IsInt
<1>2. CASE SLeq(Zero, i)
  BY <1>1, <1>2, FixintTest, FixWritten DEF Written, WriteInt8
<1>3. CASE ~SLeq(Zero, i) /\ SLeq(Minus32, i)
  BY <1>3, NfixintTest, NegFixWritten DEF Written, WriteInt8
<1>4. CASE ~SLeq(Zero, i) /\ ~SLeq(Minus32, i)
  <2>1. i[1] >= 128
    BY <1>4, NonNegative, ByteOf
  <2>2. SignedForm(put(mint(1), 1, i), i, 1)
    BY <1>1, <2>1, NegativeWritten
  <2> QED
    BY <1>1, <1>4, <2>2 DEF Written, WriteInt8
<1> QED
  BY <1>2, <1>3, <1>4

LEMMA WriteUint8Form ==
  ASSUME NEW u \in Word, IsUint(u, 1)
  PROVE  Written(WriteUint8(u), u, 1, FALSE)
<1>1. 1 \in Widths
  BY DEF Widths
<1>2. CASE Leq(u, MaxInt(1))
  BY <1>2, FixintTest, FixWritten DEF Written, WriteUint8
<1>3. CASE ~Leq(u, MaxInt(1))
  BY <1>1, <1>3, UintWritten DEF Written, WriteUint8
<1> QED
  BY <1>2, <1>3

-----------------------------------------------------------------------------
(* The readers, on each of the four forms.                                 *)

LEMMA FixRead ==
  ASSUME NEW v \in Word, NEW w, Fix(w, v)
  PROVE  w[1] < 128 /\ Pattern(0, 8, w[1], 0) = v
<1>1. w[1] = v[8]
  BY DEF Fix
<1>2. v = [i \in 1..8 |-> v[i]]
  BY DEF Word
<1>3. \A i \in 1..8 : v[i] = IF i < 8 THEN 0 ELSE IF i = 8 THEN w[1] ELSE 0
  BY <1>1 DEF Fix
<1> QED
  BY <1>1, <1>2, <1>3 DEF Fix, Pattern

LEMMA NegFixRead ==
  ASSUME NEW v \in Word, NEW w, NegFix(w, v)
  PROVE  w[1] >= 224 /\ ~(w[1] < 128) /\ rnfixint(w) = v
<1>1. w[1] = v[8] /\ v[8] \in 0..255
  BY ByteOf DEF NegFix
<1>2. v = [i \in 1..8 |-> v[i]]
  BY DEF Word
<1>3. \A i \in 1..8 : v[i] = IF i < 8 THEN 255 ELSE IF i = 8 THEN w[1] ELSE 0
  BY <1>1 DEF NegFix
<1> QED
  BY <1>1, <1>2, <1>3 DEF NegFix, Pattern, rnfixint

LEMMA WidthOf ==
  ASSUME NEW w, NEW k \in Widths, w[1] \in {mint(k), muint(k)}
  PROVE  (CHOOSE n \in Widest(w) : TRUE) = k
<1>1. \A n \in Widths : mint(n) # muint(k) /\ muint(n) # mint(k)
                        /\ (mint(n) = mint(k) => n = k) /\ (muint(n) = muint(k) => n = k)
  BY DEF Widths, mint, muint
<1>2. Widest(w) = {k}
  BY <1>1 DEF Widest
<1> QED
  BY <1>2

LEMMA SignedRead ==
  ASSUME NEW v \in Word, NEW w, NEW k \in Widths, SignedForm(w, v, k)
  PROVE  /\ ~IsFixint(w) /\ ~IsNfixint(w) /\ ~IsUintPrefix(w)
         /\ (CHOOSE n \in Widest(w) : TRUE) = k
         /\ getMint(w, k) = v
<1>1. w[1] = mint(k) /\ mint(k) \in 208..211
  BY Prefixes DEF SignedForm, Prefixed
<1>2. ~IsUintPrefix(w)
  <2>1. \A n \in Widths : muint(n) \in 204..207
    BY Prefixes
  <2> QED
    BY <1>1, <2>1 DEF IsUintPrefix
<1>3. v = [i \in 1..8 |-> v[i]]
  BY DEF Word
<1>4. w[2] = v[9 - k]
  BY DEF SignedForm, Prefixed, Widths
<1>5. \A i \in 1..8 : v[i] =
        IF i <= 8 - k THEN (IF w[2] >= 128 THEN 255 ELSE 0) ELSE w[i + k - 7]
  <2>1. ASSUME NEW i \in 1..8, ~(i <= 8 - k) PROVE v[i] = w[i + k - 7]
    <3>1. i + k - 7 \in 2..k+1 /\ (i + k - 7) + 7 - k = i
      BY <2>1 DEF Widths
    <3> QED
      BY <3>1 DEF SignedForm, Prefixed
  <2>2. ASSUME NEW i \in 1..8, i <= 8 - k PROVE v[i] = IF w[2] >= 128 THEN 255 ELSE 0
    BY <1>4, <2>2 DEF SignedForm, Widths
  <2> QED
    BY <2>1, <2>2
<1>6. getMint(w, k) = v
  BY <1>3, <1>5 DEF getMint
<1> QED
  BY <1>1, <1>2, <1>6, WidthOf DEF IsFixint, IsNfixint

LEMMA UnsignedRead ==
  ASSUME NEW v \in Word, NEW w, NEW k \in Widths, UnsignedForm(w, v, k)
  PROVE  /\ ~IsFixint(w) /\ ~IsNfixint(w) /\ IsUintPrefix(w)
         /\ (CHOOSE n \in Widest(w) : TRUE) = k
         /\ getMuint(w, k) = v
<1>1. w[1] = muint(k) /\ muint(k) \in 204..207
  BY Prefixes DEF UnsignedForm, Prefixed
<1>2. IsUintPrefix(w)
  BY <1>1 DEF IsUintPrefix
<1>3. v = [i \in 1..8 |-> v[i]]
  BY DEF Word
<1>4. \A i \in 1..8 : v[i] = IF i <= 8 - k THEN 0 ELSE w[i + k - 7]
  <2>1. ASSUME NEW i \in 1..8, ~(i <= 8 - k) PROVE v[i] = w[i + k - 7]
    <3>1. i + k - 7 \in 2..k+1 /\ (i + k - 7) + 7 - k = i
      BY <2>1 DEF Widths
    <3> QED
      BY <3>1 DEF UnsignedForm, Prefixed
  <2>2. ASSUME NEW i \in 1..8, i <= 8 - k PROVE v[i] = 0
    BY <2>2 DEF UnsignedForm, Widths
  <2> QED
    BY <2>1, <2>2
<1>5. getMuint(w, k) = v
  BY <1>3, <1>4 DEF getMuint
<1> QED
  BY <1>1, <1>2, <1>5, WidthOf DEF IsFixint, IsNfixint

(* What a reader of k bytes must answer to a value v written as w: the     *)
(* value if its type has it; and never another number.                     *)
LEMMA SignedStream ==
  ASSUME NEW v \in Word, NEW w, NEW m, Written(w, v, m, TRUE)
  PROVE  ReadInt64(w) = Answer(v, "none", "rest") /\ ReadInt64Bytes(w) = Answer(v, "none", "rest")
<1>1. CASE Fix(w, v)
  BY <1>1, FixRead DEF ReadInt64, ReadInt64Bytes, IsFixint
<1>2. CASE NegFix(w, v)
  BY <1>2, NegFixRead DEF ReadInt64, ReadInt64Bytes, IsFixint, IsNfixint
<1>3. ASSUME NEW k \in Widths, SignedForm(w, v, k)
      PROVE  ReadInt64(w) = Answer(v, "none", "rest") /\ ReadInt64Bytes(w) = Answer(v, "none", "rest")
  BY <1>3, SignedRead DEF ReadInt64, ReadInt64Bytes
<1> QED
  BY <1>1, <1>2, <1>3 DEF Written

LEMMA UnsignedStream ==
  ASSUME NEW v \in Word, NEW w, NEW m, Written(w, v, m, FALSE)
  PROVE  ReadUint64(w) = Answer(v, "none", "rest") /\ ReadUint64Bytes(w) = Answer(v, "none", "rest")
<1>1. CASE Fix(w, v)
  BY <1>1, FixRead DEF ReadUint64, ReadUint64Bytes, Unsigned, IsFixint
<1>2. ASSUME NEW k \in Widths, UnsignedForm(w, v, k)
      PROVE  ReadUint64(w) = Answer(v, "none", "rest") /\ ReadUint64Bytes(w) = Answer(v, "none", "rest")
  BY <1>2, UnsignedRead DEF ReadUint64, ReadUint64Bytes, Unsigned
<1> QED
  BY <1>1, <1>2 DEF Written

(* A signed reader of the stream on what an unsigned writer wrote.         *)
LEMMA UnsignedAsInt ==
  ASSUME NEW v \in Word, NEW w, NEW m, Written(w, v, m, FALSE)
  PROVE  \/ ReadInt64(w) = Answer(v, "none", "rest") /\ v[1] < 128
         \/ ReadInt64(w) = Answer(Zero, "overflow", "rest")
<1>1. CASE Fix(w, v)
  BY <1>1, FixRead DEF ReadInt64, IsFixint, Fix
<1>2. ASSUME NEW k \in Widths, UnsignedForm(w, v, k)
      PROVE  \/ ReadInt64(w) = Answer(v, "none", "rest") /\ v[1] < 128
             \/ ReadInt64(w) = Answer(Zero, "overflow", "rest")
  <2>1. CASE k = 8
    BY <1>2, <2>1, UnsignedRead, FitsInt64 DEF ReadInt64
  <2>2. CASE k # 8
    <3>1. v[1] = 0
      BY <1>2, <2>2 DEF UnsignedForm, Widths
    <3>2. v[1] < 128
      BY <3>1
    <3>3. ReadInt64(w) = Answer(v, "none", "rest")
      BY <1>2, <2>2, UnsignedRead, Zenon DEF ReadInt64
    <3> QED
      BY <3>2, <3>3
  <2> QED
    BY <2>1, <2>2
<1> QED
  BY <1>1, <1>2 DEF Written

(* An unsigned reader on what a signed writer wrote.                       *)
LEMMA SignedAsUint ==
  ASSUME NEW v \in Word, NEW w, NEW m, Written(w, v, m, TRUE), NEW l
  PROVE  \/ Unsigned(w, l) = Answer(v, "none", "rest") /\ v[1] < 128
         \/ Unsigned(w, l) = Answer(Zero, "type", l)
<1>1. CASE Fix(w, v)
  BY <1>1, FixRead DEF Unsigned, IsFixint, Fix
<1>2. CASE NegFix(w, v)
  <2>1. ~IsUintPrefix(w)
    <3>1. \A n \in Widths : muint(n) \in 204..207
      BY Prefixes
    <3>2. w[1] >= 224
      BY <1>2, NegFixRead
    <3> QED
      BY <3>1, <3>2 DEF IsUintPrefix
  <2> QED
    BY <1>2, <2>1, NegFixRead DEF Unsigned, IsFixint
<1>3. ASSUME NEW k \in Widths, SignedForm(w, v, k)
      PROVE  Unsigned(w, l) = Answer(Zero, "type", l)
  BY <1>3, SignedRead DEF Unsigned
<1> QED
  BY <1>1, <1>2, <1>3 DEF Written

-----------------------------------------------------------------------------
(* The inductive invariant: the wire holds nothing, or the value in one of *)
(* the forms of its writer's signedness and width; and the answer is what  *)
(* the reader makes of the wire.                                           *)
Encoded ==
  wire # <<>> =>
    /\ from.k \in Widths /\ from.signed \in BOOLEAN
    /\ Written(wire, val, from.k, from.signed)

Decoded ==
  got # <<>> =>
    /\ wire # <<>>
    /\ got.side \in Sides /\ got.signed \in BOOLEAN /\ got.k \in Widths
    /\ got.ans = IF got.signed
                   THEN IF got.side = "stream" THEN ReadInt(wire, got.k)
                                               ELSE ReadIntBytes(wire, got.k)
                   ELSE IF got.side = "stream" THEN ReadUint(wire, got.k)
                                               ELSE ReadUintBytes(wire, got.k)

IInv == val \in Word /\ Encoded /\ Decoded

LEMMA InitIInv == Init => IInv
BY IntsAssumption DEF Init, IInv, Encoded, Decoded

LEMMA EncodeWrites ==
  ASSUME IInv, NEW side \in Sides, NEW signed \in BOOLEAN, NEW k \in Widths,
         Encode(side, signed, k)
  PROVE  IInv'
<1>1. val \in Word /\ val' = val /\ got' = got /\ wire = <<>>
  BY DEF IInv, Encode
<1>2. from' = [side |-> side, signed |-> signed, k |-> k]
  BY DEF Encode
<1>3. Written(wire', val, k, signed)
  <2>1. CASE signed /\ k = 1
    <3>1. wire' = WriteInt8(val) /\ IsInt(val, 1)
      BY <2>1 DEF Encode
    <3> QED
      BY <1>1, <2>1, <3>1, WriteInt8Form
  <2>2. CASE signed /\ k # 1
    <3>1. wire' = WriteInt64(val) /\ IsInt(val, k) /\ k \in {2, 4, 8}
      BY <2>2 DEF Encode, Sides, Widths, AppendInt64
    <3> QED
      BY <1>1, <2>2, <3>1, WriteInt64Form
  <2>3. CASE ~signed /\ k = 1
    <3>1. wire' = WriteUint8(val) /\ IsUint(val, 1)
      BY <2>3 DEF Encode
    <3> QED
      BY <1>1, <2>3, <3>1, WriteUint8Form
  <2>4. CASE ~signed /\ k # 1
    <3>1. wire' = WriteUint64(val) /\ IsUint(val, k) /\ k \in {2, 4, 8}
      BY <2>4 DEF Encode, Sides, Widths, AppendUint64
    <3> QED
      BY <1>1, <2>4, <3>1, WriteUint64Form
  <2> QED
    BY <2>1, <2>2, <2>3, <2>4
<1>4. Encoded'
  BY <1>1, <1>2, <1>3 DEF Encoded
<1>5. got = <<>>
  BY <1>1 DEF IInv, Decoded
<1> QED
  BY <1>1, <1>4, <1>5 DEF IInv, Decoded

LEMMA DecodeReads ==
  ASSUME IInv, NEW side \in Sides, NEW signed \in BOOLEAN, NEW k \in Widths,
         Decode(side, signed, k)
  PROVE  IInv'
<1>1. /\ val' = val /\ wire' = wire /\ from' = from /\ wire # <<>>
      /\ val \in Word /\ Encoded
  BY DEF IInv, Decode
<1>2. Encoded'
  BY <1>1 DEF Encoded
<1>3. /\ got'.side = side /\ got'.signed = signed /\ got'.k = k
      /\ got'.ans = IF signed
                   THEN IF side = "stream" THEN ReadInt(wire, k)
                                           ELSE ReadIntBytes(wire, k)
                   ELSE IF side = "stream" THEN ReadUint(wire, k)
                                           ELSE ReadUintBytes(wire, k)
  BY DEF Decode, Sides
<1>4. Decoded'
  BY <1>1, <1>3 DEF Decoded
<1> QED
  BY <1>1, <1>2, <1>4 DEF IInv

LEMMA NextIInv == IInv /\ [Next]_vars => IInv'
<1>1. SUFFICES ASSUME IInv, [Next]_vars PROVE IInv'
  OBVIOUS
<1>2. CASE Next
  BY <1>1, <1>2, EncodeWrites, DecodeReads DEF Next
<1>3. CASE UNCHANGED vars
  BY <1>1, <1>3 DEF vars, IInv, Encoded, Decoded
<1> QED
  BY <1>1, <1>2, <1>3

-----------------------------------------------------------------------------
(* What the invariant says of the answer.                                  *)

LEMMA SameSign ==
  ASSUME IInv, Done, got.signed = from.signed
  PROVE  got.ans = IF got.signed THEN IF IsInt(val, got.k) THEN Answer(val, "none", "rest")
                                      ELSE Answer(Zero, "overflow", "rest")
                   ELSE IF IsUint(val, got.k) THEN Answer(val, "none", "rest")
                   ELSE Answer(Zero, "overflow", IF got.side = "stream" THEN "rest" ELSE "nil")
<1>1. /\ val \in Word /\ from.signed \in BOOLEAN /\ from.k \in Widths
      /\ Written(wire, val, from.k, from.signed) /\ got.side \in Sides
      /\ got.ans = IF got.signed
                   THEN IF got.side = "stream" THEN ReadInt(wire, got.k)
                                               ELSE ReadIntBytes(wire, got.k)
                   ELSE IF got.side = "stream" THEN ReadUint(wire, got.k)
                                               ELSE ReadUintBytes(wire, got.k)
  BY DEF IInv, Done, Encoded, Decoded
<1>2. CASE got.signed
  <2>1. /\ ReadInt64(wire) = Answer(val, "none", "rest")
        /\ ReadInt64Bytes(wire) = Answer(val, "none", "rest")
    BY <1>1, <1>2, SignedStream
  <2> QED
    BY <1>1, <1>2, <2>1 DEF ReadInt, ReadIntBytes, Checked, Answer
<1>3. CASE ~got.signed
  <2>1. /\ ReadUint64(wire) = Answer(val, "none", "rest")
        /\ ReadUint64Bytes(wire) = Answer(val, "none", "rest")
    BY <1>1, <1>3, UnsignedStream
  <2> QED
    BY <1>1, <1>3, <2>1 DEF ReadUint, ReadUintBytes, Checked, Answer
<1> QED
  BY <1>2, <1>3

LEMMA SafeRoundTrip == IInv => RoundTrip
<1>1. SUFFICES ASSUME IInv, Done, got.signed = from.signed
               PROVE  IF Representable
                      THEN got.ans = Answer(val, "none", "rest")
                      ELSE got.ans.err = "overflow" /\ got.ans.v = Zero
  BY DEF RoundTrip
<1>2. Representable <=> IF got.signed THEN IsInt(val, got.k) ELSE IsUint(val, got.k)
  BY <1>1 DEF Representable, Negative
<1> QED
  BY <1>1, <1>2, SameSign DEF Answer

LEMMA SafeStream == IInv => StreamNeverWrong
<1>1. SUFFICES ASSUME IInv, Done, got.side = "stream", got.ans.err = "none"
               PROVE  Representable /\ got.ans.v = val
  BY DEF StreamNeverWrong
<1>2. /\ val \in Word /\ from.signed \in BOOLEAN /\ got.signed \in BOOLEAN
      /\ Written(wire, val, from.k, from.signed)
      /\ got.ans = IF got.signed THEN ReadInt(wire, got.k) ELSE ReadUint(wire, got.k)
  BY <1>1 DEF IInv, Done, Encoded, Decoded
<1>3. CASE got.signed = from.signed
  <2>1. Representable <=> IF got.signed THEN IsInt(val, got.k) ELSE IsUint(val, got.k)
    BY <1>3 DEF Representable, Negative
  <2> QED
    BY <1>1, <1>3, <2>1, SameSign DEF Answer
<1>4. CASE got.signed /\ ~from.signed
  <2>1. \/ ReadInt64(wire) = Answer(val, "none", "rest") /\ val[1] < 128
        \/ ReadInt64(wire) = Answer(Zero, "overflow", "rest")
    BY <1>2, <1>4, UnsignedAsInt
  <2> QED
    BY <1>1, <1>2, <1>4, <2>1 DEF ReadInt, Checked, Answer, Representable
<1>5. CASE ~got.signed /\ from.signed
  <2>1. \/ ReadUint64(wire) = Answer(val, "none", "rest") /\ val[1] < 128
        \/ ReadUint64(wire) = Answer(Zero, "type", "all")
    BY <1>2, <1>5, SignedAsUint DEF ReadUint64
  <2>2. val[1] < 128 => ~Negative
    BY <1>2, ByteOf DEF Negative
  <2> QED
    BY <1>1, <1>2, <1>5, <2>1, <2>2 DEF ReadUint, Checked, Answer, Representable
<1> QED
  BY <1>2, <1>3, <1>4, <1>5

LEMMA SafeSize == IInv => WithinMsgsize
<1>1. SUFFICES ASSUME IInv, wire # <<>> PROVE Len(wire) <= SizeOf(from.k)
  BY DEF WithinMsgsize
<1>2. from.k \in Widths /\ Written(wire, val, from.k, from.signed)
  BY <1>1 DEF IInv, Encoded
<1>3. SizeOf(from.k) = from.k + 1
  BY <1>2 DEF SizeOf, Widths
<1>4. CASE Fix(wire, val) \/ NegFix(wire, val)
  <2>1. Len(wire) = 1
    BY <1>4 DEF Fix, NegFix
  <2> QED
    BY <1>2, <1>3, <2>1 DEF Widths
<1>5. ASSUME NEW k \in Widths, k <= from.k,
             SignedForm(wire, val, k) \/ UnsignedForm(wire, val, k)
      PROVE  Len(wire) <= SizeOf(from.k)
  <2>1. Len(wire) = k + 1
    BY <1>5 DEF SignedForm, UnsignedForm, Prefixed
  <2> QED
    BY <1>2, <1>3, <1>5, <2>1 DEF Widths
<1> QED
  BY <1>2, <1>4, <1>5 DEF Written

(* ReadInt64Bytes may misread a uint32, but returns a word all the same.   *)
LEMMA UnsignedAsIntBytes ==
  ASSUME NEW v \in Word, NEW w, NEW m, Written(w, v, m, FALSE)
  PROVE  ReadInt64Bytes(w).v \in Word
<1>1. Zero \in Word
  BY DEF Zero, Pattern, Word, Byte
<1>2. CASE Fix(w, v)
  BY <1>2, FixRead DEF ReadInt64Bytes, IsFixint, Answer
<1>3. ASSUME NEW k \in Widths, UnsignedForm(w, v, k), k # 4
      PROVE  ReadInt64Bytes(w).v \in Word
  <2>1. \/ ReadInt64Bytes(w) = Answer(Zero, "overflow", "all")
        \/ ReadInt64Bytes(w) = Answer(v, "none", "rest")
    <3>1. /\ ~IsFixint(w) /\ ~IsNfixint(w) /\ IsUintPrefix(w)
          /\ (CHOOSE n \in Widest(w) : TRUE) = k /\ getMuint(w, k) = v
      BY <1>3, UnsignedRead
    <3> QED
      BY <1>3, <3>1, Zenon DEF ReadInt64Bytes
  <2> QED
    BY <1>1, <2>1 DEF Answer
<1>4. ASSUME UnsignedForm(w, v, 4)
      PROVE  ReadInt64Bytes(w).v \in Word
  <2>1. 4 \in Widths /\ Len(w) = 5 /\ w \in Seq(Byte)
    BY <1>4 DEF Widths, UnsignedForm, Prefixed
  <2>2. ReadInt64Bytes(w) = Answer(getMint(w, 4), "none", "rest")
    BY <1>4, <2>1, UnsignedRead DEF ReadInt64Bytes
  <2>3. \A i \in 1..5 : w[i] \in Byte
    BY <2>1, ElementOfSeq
  <2>4. getMint(w, 4) \in Word
    BY <2>3 DEF getMint, Word, Byte
  <2> QED
    BY <2>2, <2>4 DEF Answer
<1> QED
  BY <1>2, <1>3, <1>4 DEF Written

LEMMA SafeType == IInv => TypeOK
<1>1. SUFFICES ASSUME IInv PROVE TypeOK
  OBVIOUS
<1>2. ASSUME wire # <<>> PROVE \A i \in DOMAIN wire : wire[i] \in Byte
  <2>1. val \in Word /\ Written(wire, val, from.k, from.signed)
    BY <1>1, <1>2 DEF IInv, Encoded
  <2>2. val[8] \in Byte
    BY <2>1 DEF Word
  <2>3. wire = <<val[8]>> \/ wire \in Seq(Byte)
    BY <2>1 DEF Written, Fix, NegFix, SignedForm, UnsignedForm, Prefixed
  <2>4. <<val[8]>> \in Seq(Byte)
    BY <2>2
  <2>5. wire \in Seq(Byte)
    BY <2>3, <2>4
  <2> QED
    BY <2>5, LenProperties, ElementOfSeq
<1>3. ASSUME Done PROVE got.ans.v \in Word
  <2>1. /\ val \in Word /\ from.signed \in BOOLEAN /\ got.signed \in BOOLEAN
        /\ Written(wire, val, from.k, from.signed)
        /\ got.ans = IF got.signed
                   THEN IF got.side = "stream" THEN ReadInt(wire, got.k)
                                               ELSE ReadIntBytes(wire, got.k)
                   ELSE IF got.side = "stream" THEN ReadUint(wire, got.k)
                                               ELSE ReadUintBytes(wire, got.k)
    BY <1>1, <1>3 DEF IInv, Done, Encoded, Decoded
  <2>2. Zero \in Word
    BY DEF Zero, Pattern, Word, Byte
  <2>3. \A x, e, l : Answer(x, e, l).v = x
    BY DEF Answer
  <2>4. ReadInt64(wire).v \in Word /\ ReadInt64Bytes(wire).v \in Word
    <3>1. CASE from.signed = TRUE
      <4>1. /\ ReadInt64(wire) = Answer(val, "none", "rest")
            /\ ReadInt64Bytes(wire) = Answer(val, "none", "rest")
        BY <2>1, <3>1, SignedStream
      <4> QED
        BY <2>1, <2>3, <4>1
    <3>2. CASE from.signed = FALSE
      <4>1. ReadInt64Bytes(wire).v \in Word
        BY <2>1, <3>2, UnsignedAsIntBytes
      <4>2. ReadInt64(wire).v \in Word
        <5>1. \/ ReadInt64(wire) = Answer(val, "none", "rest")
              \/ ReadInt64(wire) = Answer(Zero, "overflow", "rest")
          BY <2>1, <3>2, UnsignedAsInt
        <5> QED
          BY <2>1, <2>2, <2>3, <5>1
      <4> QED
        BY <4>1, <4>2
    <3> QED
      BY <2>1, <3>1, <3>2
  <2>5. ReadUint64(wire).v \in Word /\ ReadUint64Bytes(wire).v \in Word
    <3>1. CASE from.signed = TRUE
      <4>1. \A l : Unsigned(wire, l) = Answer(val, "none", "rest")
                   \/ Unsigned(wire, l) = Answer(Zero, "type", l)
        BY <2>1, <3>1, SignedAsUint
      <4> QED
        BY <2>1, <2>2, <2>3, <4>1 DEF ReadUint64, ReadUint64Bytes
    <3>2. CASE from.signed = FALSE
      <4>1. /\ ReadUint64(wire) = Answer(val, "none", "rest")
            /\ ReadUint64Bytes(wire) = Answer(val, "none", "rest")
        BY <2>1, <3>2, UnsignedStream
      <4> QED
        BY <2>1, <2>3, <4>1
    <3> QED
      BY <2>1, <3>1, <3>2
  <2> QED
    BY <2>1, <2>2, <2>3, <2>4, <2>5
       DEF ReadInt, ReadIntBytes, ReadUint, ReadUintBytes, Checked
<1>4. wire = <<>> => \A i \in DOMAIN wire : wire[i] \in Byte
  OBVIOUS
<1> QED
  BY <1>1, <1>2, <1>3, <1>4 DEF TypeOK, IInv

-----------------------------------------------------------------------------
LEMMA Invariance == Spec => []IInv
BY InitIInv, NextIInv, PTL DEF Spec

(* Every state is well typed, whichever values are written.                *)
THEOREM Typing == Spec => []TypeOK
BY Invariance, SafeType, PTL

(* For each of the 2^64 values, every writer whose type has the value and  *)
(* every reader of the same signedness, on the stream or on bytes: the     *)
(* number comes back if the reader's type has it and overflows otherwise.  *)
THEOREM NumbersComeBack == Spec => []RoundTrip
BY Invariance, SafeRoundTrip, PTL

(* For each of the 2^64 values a reader of the stream that reports no      *)
(* error, signed or not, returns the number that was written.              *)
THEOREM StreamReadsTheNumber == Spec => []StreamNeverWrong
BY Invariance, SafeStream, PTL

(* No writer exceeds the size that Msgsize counts for its type.            *)
THEOREM SizesSuffice == Spec => []WithinMsgsize
BY Invariance, SafeSize, PTL
=============================================================================
