-------------------------------- MODULE Wire --------------------------------
(***************************************************************************)
(* What msgp knows of the MessagePack wire format: the table `sizes` of    *)
(* msgp/elsize.go, getSize, Skip and NextType of msgp/read_bytes.go and    *)
(* peekExtension of msgp/extension.go.  A byte is a number below 256, an   *)
(* encoding a sequence of bytes.                                           *)
(***************************************************************************)
EXTENDS Integers, Sequences

Byte == 0..255

(* Size modes: how many bytes or objects follow the prefix.  A mode that   *)
(* is not negative is a number of objects.                                 *)
extra8 == -1
extra16 == -2
extra32 == -3
map16v == -4
map32v == -5
array16v == -6
array32v == -7

bytespec(sz, ex, t) == [size |-> sz, extra |-> ex, typ |-> t]

mfloat32 == 202
mfloat64 == 203
mext8 == 199
mfixext8 == 215
mfixext16 == 216
muint64 == 207

Complex64Extension == 3
Complex128Extension == 4
TimeExtension == 5

(* The prefixes 0xc0 to 0xdf, in order.                                    *)
named == <<
  bytespec(1, 0, "nil"),
  bytespec(0, 0, "invalid"),
  bytespec(1, 0, "bool"), bytespec(1, 0, "bool"),
  bytespec(2, extra8, "bin"), bytespec(3, extra16, "bin"),
  bytespec(5, extra32, "bin"),
  bytespec(3, extra8, "ext"), bytespec(4, extra16, "ext"),
  bytespec(6, extra32, "ext"),
  bytespec(5, 0, "float32"), bytespec(9, 0, "float64"),
  bytespec(2, 0, "uint"), bytespec(3, 0, "uint"),
  bytespec(5, 0, "uint"), bytespec(9, 0, "uint"),
  bytespec(2, 0, "int"), bytespec(3, 0, "int"),
  bytespec(5, 0, "int"), bytespec(9, 0, "int"),
  bytespec(3, 0, "ext"), bytespec(4, 0, "ext"), bytespec(6, 0, "ext"),
  bytespec(10, 0, "ext"), bytespec(18, 0, "ext"),
  bytespec(2, extra8, "str"), bytespec(3, extra16, "str"),
  bytespec(5, extra32, "str"),
  bytespec(3, array16v, "array"), bytespec(5, array32v, "array"),
  bytespec(3, map16v, "map"), bytespec(5, map32v, "map") >>

sizes == [b \in Byte |->
  CASE b < 128        -> bytespec(1, 0, "int")
    [] b \in 128..143 -> bytespec(1, 2 * (b - 128), "map")
    [] b \in 144..159 -> bytespec(1, b - 144, "array")
    [] b \in 160..191 -> bytespec(1 + (b - 160), 0, "str")
    [] b \in 192..223 -> named[b - 191]
    [] b > 223        -> bytespec(1, 0, "int")]

getType(b) == sizes[b].typ

(* big.Uint16 and big.Uint32 of b[1:].                                     *)
be16(b) == b[2] * 256 + b[3]
be32(b) == ((b[2] * 256 + b[3]) * 256 + b[4]) * 256 + b[5]

NoSize(e) == [v |-> 0, o |-> 0, err |-> e]
Size(v, o) == [v |-> v, o |-> o, err |-> "none"]

(* The mode's share of getSize and getNextSize: b holds the whole prefix,  *)
(* s is its entry in the table.                                            *)
SizedBy(s, b) ==
  CASE s.extra >= 0       -> Size(s.size, s.extra)
    [] s.extra = extra8   -> Size(s.size + b[2], 0)
    [] s.extra = extra16  -> Size(s.size + be16(b), 0)
    [] s.extra = extra32  -> Size(s.size + be32(b), 0)
    [] s.extra = map16v   -> Size(s.size, 2 * be16(b))
    [] s.extra = map32v   -> Size(s.size, 2 * be32(b))
    [] s.extra = array16v -> Size(s.size, be16(b))
    [] s.extra = array32v -> Size(s.size, be32(b))

Sized(b) == SizedBy(sizes[b[1]], b)

(* getSize: bytes to skip, then objects to skip.                           *)
getSizeBy(s, b) ==
  IF s.size = 0 THEN NoSize("invalid")
  ELSE IF s.extra < 0 /\ Len(b) < s.size THEN NoSize("short")
  ELSE SizedBy(s, b)
getSize(b) == IF b = <<>> THEN NoSize("short") ELSE getSizeBy(sizes[b[1]], b)

(* Skip over objects of b: where they end, or the error and where it was   *)
(* met.  left counts the objects still to skip at every level together.    *)
Skips(b) ==
  LET skip[i \in Nat] == [left \in Nat |->
        IF left = 0 THEN [end |-> i, err |-> "none"]
        ELSE LET g == getSize(SubSeq(b, i + 1, Len(b))) IN
             IF g.err # "none" THEN [end |-> i, err |-> g.err]
             ELSE IF Len(b) - i < g.v THEN [end |-> i, err |-> "short"]
             ELSE skip[i + g.v][left - 1 + g.o]]
  IN  skip

(* Skip over one object of b.                                              *)
Skip(b, from) == Skips(b)[from][1]
=============================================================================
