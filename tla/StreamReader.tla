---------------------------- MODULE StreamReader ----------------------------
(***************************************************************************)
(* The Reader of msgp/read.go over a byte stream that arrives in pieces,   *)
(* with ReadExtension of msgp/extension.go and Raw's DecodeMsg of          *)
(* msgp/read_bytes.go.                                                     *)
(*                                                                         *)
(* Every method looks at the bytes buffered ahead of the read position (a  *)
(* window) and then asks for more of them, consumes some, calls other      *)
(* methods, or returns an error.  Calls under way are a stack of method    *)
(* names; the method on top is the one that runs.                          *)
(*                                                                         *)
(* The fwd.Reader between the Reader and its io.Reader is external, as is  *)
(* the io.Reader: a Read delivers some bytes, or fails once without any.   *)
(***************************************************************************)
EXTENDS Wire, FiniteSets, FiniteSetsExt, SequencesExt

CONSTANTS Streams,   \* inputs: [bytes, ends], see Object below
          Methods,   \* methods the caller uses
          Chunks,    \* bound: sizes of the pieces a Read delivers
          BufSize,   \* BufferSize of the fwd.Reader
          MaxCalls,  \* bound: calls in one behaviour
          MaxFaults  \* bound: failing Reads of the io.Reader, Writes of the io.Writer

(* The methods modelled.                                                   *)
MethodNames ==
  {"Skip", "CopyNext", "appendNext", "ReadIntf", "ReadMapStrIntf", "ReadArrayIntf",
   "ReadString", "ReadBytes", "ReadMapKey", "ReadMapKeyPtr", "ReadExactBytes",
   "ReadNil", "ReadBool", "ReadInt64", "ReadUint64", "ReadFloat32", "ReadFloat64",
   "ReadComplex64", "ReadComplex128", "ReadTime", "ReadExtension"}

ASSUME ReaderAssumption ==
  /\ BufSize \in Nat /\ BufSize >= 16   \* fwd never makes a smaller one
  /\ Chunks \subseteq Nat \ {0} /\ Chunks # {}
  /\ MaxCalls \in Nat /\ MaxFaults \in Nat /\ Methods \subseteq MethodNames
  /\ \A s \in Streams : s.bytes \in Seq(Byte)

VARIABLES input,    \* the stream, and where the objects in it end
          pos,      \* bytes consumed
          buffered, \* bytes in the fwd.Reader's buffer behind pos
          cap,      \* capacity of that buffer
          todo,     \* methods to run, the running one first
          pc,       \* "begin", "sizing" (Skip's slow path) or "drain"
          rest,     \* bytes the running method has still to consume
          out,      \* what CopyNext or Raw.DecodeMsg has produced
          call,     \* the outermost call: method, start, result, disturbed
          ncalls, faults

vars == <<input, pos, buffered, cap, todo, pc, rest, out, call, ncalls, faults>>

Running == todo # <<>>
Window == SubSeq(input.bytes, pos + 1, pos + buffered)
AtEOF == pos + buffered = Len(input.bytes)

-----------------------------------------------------------------------------
(* What a method does with a window: it needs n bytes (and returns e if    *)
(* the stream ends before); or it consumes n buffered bytes and returns e; *)
(* or it consumes n buffered bytes, then body bytes (as they come, or when *)
(* they are all there), and then calls kids.                               *)
Ask(k, err) == [do |-> "ask", n |-> k, e |-> err, body |-> 0,
                as |-> "drain", kids |-> <<>>]
TakeErr(k, err) == [do |-> "err", n |-> k, e |-> err, body |-> 0,
                    as |-> "drain", kids |-> <<>>]
Err(err) == TakeErr(0, err)
Take(k, m, ms) == [do |-> "take", n |-> k, e |-> "none", body |-> m,
                   as |-> "drain", kids |-> ms]
TakeWhole(k, m) == [do |-> "take", n |-> k, e |-> "none", body |-> m,
                    as |-> "whole", kids |-> <<>>]
Calls(m) == Take(0, 0, <<m>>)

badPrefix(lead) == Err(IF getType(lead) = "invalid" THEN "invalid" ELSE "type")

Times(k, m) == [i \in 1..k |-> m]

(* What helpers of the methods answer when they have seen enough: the size *)
(* of the prefix, with the object's own size and the number of objects in  *)
(* it, or a type.                                                          *)
Found(h, g) == [do |-> "found", h |-> h, v |-> g.v, o |-> g.o]
FoundType(t) == [do |-> "found", t |-> t]

getNextSizeBy(s, w) ==
  IF s.size = 0 THEN Err("invalid")
  ELSE IF s.extra < 0 /\ Len(w) < s.size THEN Ask(s.size, "EOF")
  ELSE Found(s.size, SizedBy(s, w))
getNextSize(w) == IF w = <<>> THEN Ask(1, "EOF") ELSE getNextSizeBy(sizes[w[1]], w)

SkipBody(g) == Take(0, g.v, Times(g.o, "Skip"))

(* Mutant: a look at 4 bytes.                                              *)
SkipFastFour(w) ==
  LET g == getSize(SubSeq(w, 1, 4)) IN
  IF g.err # "none" THEN Err(g.err) ELSE SkipBody(g)

SkipFast(w) ==
  LET g == getSize(SubSeq(w, 1, 5)) IN
  IF g.err # "none" THEN Err(g.err) ELSE SkipBody(g)

(* Skip looks at 5 buffered bytes if there are as many when it begins.     *)
SkipNext(w) ==
  LET g == getNextSize(w) IN
  IF pc = "begin" /\ Len(w) >= 5 THEN SkipFast(w)
  ELSE IF g.do = "found" THEN SkipBody(g) ELSE g

(* Mutant: what is inside an object that fits the buffer is not copied.    *)
CopyNextFlat(w) ==
  LET g == getNextSize(w) IN
  IF g.do # "found" THEN g
  ELSE IF g.v > cap THEN Take(0, g.v, Times(g.o, "CopyNext"))
  ELSE IF Len(w) < g.v THEN Ask(g.v, "short")
  ELSE Take(g.v, 0, <<>>)

(* CopyNext takes an object header and body that fit the buffer in one     *)
(* piece, and copies larger ones as they come.                             *)
CopyNext(w) ==
  LET g == getNextSize(w) IN
  IF g.do # "found" THEN g
  ELSE IF g.v > cap THEN Take(0, g.v, Times(g.o, "CopyNext"))
  ELSE IF Len(w) < g.v THEN Ask(g.v, "short")
  ELSE Take(g.v, 0, Times(g.o, "CopyNext"))

(* Mutant: it peeks at 5 bytes whatever the prefix.                        *)
appendNextGreedy(w) ==
  LET g == getNextSize(w) IN
  IF Len(w) < 5 THEN Ask(5, "EOF")
  ELSE IF g.do # "found" THEN g
  ELSE Take(0, g.v, Times(g.o, "appendNext"))

appendNext(w) ==
  LET g == getNextSize(w) IN
  IF g.do # "found" THEN g ELSE Take(0, g.v, Times(g.o, "appendNext"))

(* A prefix of a wanted type: of one byte, or Next(size).                  *)
HeaderBy(s, w, want) ==
  LET h == IF w[1] \in 160..191 THEN 1 ELSE s.size IN
  IF s.typ \notin want THEN badPrefix(w[1])
  ELSE IF Len(w) < h THEN Ask(h, "unexpected")
  ELSE Found(h, SizedBy(s, w))
Header(w, want) ==
  IF w = <<>> THEN Ask(1, "EOF") ELSE HeaderBy(sizes[w[1]], w, want)

ReadMapStrIntf(w) ==
  LET g == Header(w, {"map"}) IN
  IF g.do # "found" THEN g
  ELSE Take(g.h, 0, [i \in 1..g.o |-> IF i % 2 = 1 THEN "ReadString" ELSE "ReadIntf"])

ReadArrayIntf(w) ==
  LET g == Header(w, {"array"}) IN
  IF g.do # "found" THEN g ELSE Take(g.h, 0, Times(g.o, "ReadIntf"))

(* Mutant: the prefix is counted twice.                                    *)
ReadStringTwice(w) ==
  LET g == Header(w, {"str"}) IN
  IF g.do # "found" THEN g ELSE Take(g.h, g.v, <<>>)

(* ReadString and ReadStringAsBytes: the prefix, then ReadFull.            *)
ReadString(w) ==
  LET g == Header(w, {"str"}) IN
  IF g.do # "found" THEN g ELSE Take(g.h, g.v - g.h, <<>>)

(* ReadBytes: as ReadString, but it begins with Peek(2).                   *)
ReadBytes(w) ==
  LET g == Header(w, {"bin"}) IN
  IF Len(w) < 2 THEN Ask(2, "EOF")
  ELSE IF g.do # "found" THEN g ELSE Take(g.h, g.v - g.h, <<>>)

(* ReadMapKey: a string, or else a bin.                                    *)
ReadMapKey(w) ==
  IF w # <<>> /\ getType(w[1]) = "bin" THEN Calls("ReadBytes") ELSE ReadString(w)

(* ReadMapKeyPtr: the key must not be empty, and comes in one piece.       *)
ReadMapKeyPtr(w) ==
  LET g == Header(w, {"str", "bin"}) IN
  IF g.do # "found" THEN g
  ELSE IF g.v = g.h THEN TakeErr(g.h, "short") ELSE TakeWhole(g.h, g.v - g.h)

ExactLen == 3

(* Mutant: Next(h) in place of Peek(h), as in ReadBytes.                   *)
ReadExactBytesNext(w) ==
  IF Len(w) < 2 THEN Ask(2, "EOF")
  ELSE LET h == sizes[w[1]].size IN
       IF getType(w[1]) # "bin" THEN badPrefix(w[1])
       ELSE IF Len(w) < h THEN Ask(h, "EOF")
       ELSE IF Sized(w).v - h # ExactLen THEN TakeErr(h, "array")
       ELSE Take(h, ExactLen, <<>>)

(* ReadExactBytes into a slice of ExactLen bytes: nothing is consumed      *)
(* unless the length is right.                                             *)
ReadExactBytes(w) ==
  IF Len(w) < 2 THEN Ask(2, "EOF")
  ELSE LET h == sizes[w[1]].size IN
       IF getType(w[1]) # "bin" THEN badPrefix(w[1])
       ELSE IF Len(w) < h THEN Ask(h, "EOF")
       ELSE IF Sized(w).v - h # ExactLen THEN Err("array")
       ELSE Take(h, ExactLen, <<>>)

(* Mutant: the bytes behind the prefix are taken to be there.              *)
FixedUnchecked(w, peek, want) ==
  IF Len(w) < peek THEN Ask(peek, "EOF")
  ELSE IF getType(w[1]) \notin want THEN badPrefix(w[1])
  ELSE Take(sizes[w[1]].size, 0, <<>>)

(* Values whose prefix fixes their length, all bytes in one piece.         *)
Fixed(w, peek, want) ==
  IF Len(w) < peek THEN Ask(peek, "EOF")
  ELSE IF getType(w[1]) \notin want THEN badPrefix(w[1])
  ELSE LET n == sizes[w[1]].size IN
       IF Len(w) < n THEN Ask(n, "unexpected") ELSE Take(n, 0, <<>>)

(* ReadInt64 consumes a uint64 that it then reports as too large.          *)
ReadInt64(w) ==
  IF Len(w) >= 9 /\ w[1] = muint64 /\ w[2] >= 128
    THEN TakeErr(9, "overflow") ELSE Fixed(w, 1, {"int", "uint"})

(* ReadUint64 takes the signed prefixes for another type, fixint excepted. *)
ReadUint64(w) ==
  IF w # <<>> /\ w[1] < 128 THEN Take(1, 0, <<>>) ELSE Fixed(w, 1, {"uint"})

(* Mutant: it calls itself for a float32.                                  *)
ReadFloat64Again(w) ==
  IF Len(w) < 9 THEN Ask(9, "EOF")
  ELSE IF w[1] = mfloat32 THEN Calls("ReadFloat64")
  ELSE Fixed(w, 9, {"float64"})

ReadFloat64(w) ==
  IF Len(w) < 9 THEN Ask(9, "EOF")
  ELSE IF w[1] = mfloat32 THEN Calls("ReadFloat32")
  ELSE Fixed(w, 9, {"float64"})

ReadComplex(w, len, lead, ext) ==
  IF Len(w) < len THEN Ask(len, "EOF")
  ELSE IF w[1] # lead THEN badPrefix(w[1])
  ELSE IF w[2] # ext THEN Err("ext")
  ELSE Take(len, 0, <<>>)

ReadTime(w) ==
  IF Len(w) < 15 THEN Ask(15, "EOF")
  ELSE IF w[1] # mext8 \/ w[2] # 12 THEN badPrefix(w[1])
  ELSE IF w[3] # TimeExtension THEN Err("ext")
  ELSE Take(15, 0, <<>>)

(* peekExtensionType: the type is the byte behind the prefix of a fixext,  *)
(* the last byte of the prefix of the others.                              *)
peekTypeBy(s, w) ==
  IF s.extra = 0 THEN FoundType(w[2])
  ELSE IF Len(w) < s.size THEN Ask(s.size, "EOF")
  ELSE FoundType(w[s.size])
peekExtensionType(w) ==
  IF Len(w) < 2 THEN Ask(2, "EOF") ELSE peekTypeBy(sizes[w[1]], w)

(* ReadExtension into a value of the wire's own type, as ReadIntf does.    *)
ReadExtension(w) ==
  IF Len(w) < 2 THEN Ask(2, "EOF")
  ELSE IF getType(w[1]) # "ext" THEN badPrefix(w[1])
  ELSE IF Len(w) < sizes[w[1]].size THEN Ask(sizes[w[1]].size, "EOF")
  ELSE IF Len(w) < Sized(w).v THEN Ask(Sized(w).v, "EOF")
  ELSE Take(Sized(w).v, 0, <<>>)

NextType(w) ==
  IF w = <<>> THEN Ask(1, "EOF")
  ELSE LET t == getType(w[1])
           g == peekExtensionType(w)
       IN  IF t = "invalid" THEN Err("invalid")
           ELSE IF t # "ext" THEN FoundType(t)
           ELSE IF g.do # "found" THEN g
           ELSE FoundType(CASE g.t = Complex64Extension -> "complex64"
                            [] g.t = Complex128Extension -> "complex128"
                            [] g.t = TimeExtension -> "time"
                            [] OTHER -> "ext")

ReaderOf(t) ==
  CASE t = "nil" -> "ReadNil" [] t = "bool" -> "ReadBool"
    [] t = "int" -> "ReadInt64" [] t = "uint" -> "ReadUint64"
    [] t = "bin" -> "ReadBytes" [] t = "str" -> "ReadString"
    [] t = "float32" -> "ReadFloat32" [] t = "float64" -> "ReadFloat64"
    [] t = "complex64" -> "ReadComplex64" [] t = "complex128" -> "ReadComplex128"
    [] t = "time" -> "ReadTime" [] t = "ext" -> "ReadExtension"
    [] t = "map" -> "ReadMapStrIntf" [] t = "array" -> "ReadArrayIntf"

ReadIntf(w) ==
  LET g == NextType(w) IN IF g.do # "found" THEN g ELSE Calls(ReaderOf(g.t))

Decide(m, w) ==
  CASE m = "Skip"           -> SkipNext(w)
    [] m = "CopyNext"       -> CopyNext(w)
    [] m = "appendNext"     -> appendNext(w)
    [] m = "ReadIntf"       -> ReadIntf(w)
    [] m = "ReadMapStrIntf" -> ReadMapStrIntf(w)
    [] m = "ReadArrayIntf"  -> ReadArrayIntf(w)
    [] m = "ReadString"     -> ReadString(w)
    [] m = "ReadBytes"      -> ReadBytes(w)
    [] m = "ReadMapKey"     -> ReadMapKey(w)
    [] m = "ReadMapKeyPtr"  -> ReadMapKeyPtr(w)
    [] m = "ReadExactBytes" -> ReadExactBytes(w)
    [] m = "ReadNil"        -> Fixed(w, 1, {"nil"})
    [] m = "ReadBool"       -> Fixed(w, 1, {"bool"})
    [] m = "ReadInt64"      -> ReadInt64(w)
    [] m = "ReadUint64"     -> ReadUint64(w)
    [] m = "ReadFloat32"    -> Fixed(w, 5, {"float32"})
    [] m = "ReadFloat64"    -> ReadFloat64(w)
    [] m = "ReadComplex64"  -> ReadComplex(w, 10, mfixext8, Complex64Extension)
    [] m = "ReadComplex128" -> ReadComplex(w, 18, mfixext16, Complex128Extension)
    [] m = "ReadTime"       -> ReadTime(w)
    [] m = "ReadExtension"  -> ReadExtension(w)

-----------------------------------------------------------------------------
Init ==
  /\ input \in Streams
  /\ pos = 0 /\ buffered = 0 /\ cap = BufSize
  /\ todo = <<>> /\ pc = "begin" /\ rest = 0 /\ out = <<>>
  /\ call = [m |-> "none", start |-> 0, res |-> "ok", io |-> FALSE]
  /\ ncalls = 0 /\ faults = 0

(* Errors whose Resumable method says true.                                *)
Resumable == {"type", "array", "overflow", "ext"}

(* A caller goes on after success, after a resumable error, and after a    *)
(* failure of the io.Reader that has cost it nothing.                      *)
MayGoOn ==
  \/ call.res \in {"ok"} \cup Resumable
  \/ call.res = "io" /\ pos = call.start

Call(m) ==
  /\ ~Running /\ ncalls < MaxCalls /\ MayGoOn
  /\ todo' = <<m>> /\ pc' = "begin" /\ rest' = 0 /\ out' = <<>>
  /\ call' = [m |-> m, start |-> pos, res |-> "running", io |-> FALSE]
  /\ ncalls' = ncalls + 1
  /\ UNCHANGED <<input, pos, buffered, cap, faults>>

Return(res, io) ==
  /\ todo' = <<>> /\ pc' = "begin" /\ rest' = 0
  /\ call' = [call EXCEPT !.res = res, !.io = io]

(* The methods in ms run next; without any the outermost call returns.     *)
Continue(ms) ==
  /\ todo' = ms /\ pc' = "begin" /\ rest' = 0
  /\ call' = IF ms = <<>> THEN [call EXCEPT !.res = "ok"] ELSE call

Keeps == Head(todo) \in {"CopyNext", "appendNext"}

Consume(k) ==
  /\ pos' = pos + k
  /\ buffered' = buffered - k
  /\ out' = IF Keeps THEN out \o SubSeq(input.bytes, pos + 1, pos + k) ELSE out

(* What the running method does now.                                       *)
Outcomes ==
  IF ~Running THEN {}
  ELSE {CASE pc = "drain" ->
               Ask(1, IF Head(todo) = "CopyNext" THEN "EOF" ELSE "unexpected")
          [] pc = "whole" -> Ask(rest, "unexpected")
          [] OTHER -> Decide(Head(todo), Window)}

Waits(t) == t.do = "ask" /\ buffered < t.n

(* External: the fwd.Reader calls Read, which delivers a piece.  Peek and  *)
(* Next of more than the buffer holds make a larger one.                   *)
Fill(t, c) ==
  /\ Waits(t) /\ ~AtEOF
  /\ LET size == IF cap < t.n THEN t.n + buffered ELSE cap
     IN  /\ cap' = size
         /\ buffered' = buffered +
              Min({c, size - buffered, Len(input.bytes) - pos - buffered})
  /\ pc' = IF pc = "begin" THEN "sizing" ELSE pc
  /\ UNCHANGED <<input, pos, todo, rest, out, call, ncalls, faults>>

(* The stream ends.  ReadFloat64 then tries for a float32.                 *)
EndOfStream(t) ==
  /\ Waits(t) /\ AtEOF
  /\ IF Head(todo) = "ReadFloat64" /\ buffered > 0 /\ Window[1] = mfloat32
       THEN Continue(<<"ReadFloat32">> \o Tail(todo))
       ELSE Return(t.e, FALSE)
  /\ UNCHANGED <<input, pos, buffered, cap, out, ncalls, faults>>

(* The method has seen enough to return an error.                          *)
Fails(t) ==
  /\ t.do = "err"
  /\ Consume(t.n)
  /\ Return(t.e, FALSE)
  /\ UNCHANGED <<input, cap, ncalls, faults>>

(* It has what it asked for: it consumes the prefix, or a whole value.     *)
Takes(t) ==
  /\ t.do = "take"
  /\ Consume(t.n)
  /\ IF t.body = 0 THEN Continue(t.kids \o Tail(todo))
     ELSE /\ todo' = <<Head(todo)>> \o t.kids \o Tail(todo)
          /\ pc' = t.as
          /\ rest' = t.body
          /\ UNCHANGED call
  /\ UNCHANGED <<input, cap, ncalls, faults>>

(* ReadFull, R.Skip and io.CopyN: the body as it comes, or in one piece.   *)
Drains(t) ==
  /\ pc \in {"drain", "whole"} /\ ~Waits(t)
  /\ LET k == Min({buffered, rest}) IN
       /\ Consume(k)
       /\ IF k = rest THEN Continue(Tail(todo))
          ELSE rest' = rest - k /\ UNCHANGED <<todo, pc, call>>
  /\ UNCHANGED <<input, cap, ncalls, faults>>

(* External: Read fails.                                                   *)
ReadFails(t) ==
  /\ Waits(t)
  /\ Return("io", TRUE)
  /\ UNCHANGED <<pos, buffered, out>>

(* External: the io.Writer CopyNext copies to fails, or takes too little;  *)
(* the bytes for it are consumed.                                          *)
CopyFails(t) ==
  /\ Head(todo) = "CopyNext"
  /\ \E k \in {IF pc = "drain" THEN Min({buffered, rest}) ELSE t.n} :
       /\ k > 0 /\ (t.do = "take" \/ pc = "drain")
       /\ pos' = pos + k
       /\ buffered' = buffered - k
  /\ Return("write", TRUE)
  /\ UNCHANGED out

(* An extension's UnmarshalBinary rejects its body: nothing is consumed.   *)
UnmarshalFails(t) ==
  /\ Head(todo) = "ReadExtension" /\ t.do = "take"
  /\ Return("unmarshal", TRUE)
  /\ UNCHANGED <<pos, buffered, out>>

Work ==
  \E t \in Outcomes :
    \/ \E c \in Chunks : Fill(t, c)
    \/ EndOfStream(t)
    \/ Fails(t)
    \/ Takes(t)
    \/ Drains(t)

Fault ==
  /\ faults < MaxFaults /\ faults' = faults + 1
  /\ \E t \in Outcomes : ReadFails(t) \/ CopyFails(t) \/ UnmarshalFails(t)
  /\ UNCHANGED <<input, cap, ncalls>>

Next == (\E m \in Methods : Call(m)) \/ Work \/ Fault

(* The io.Reader answers every Read, with bytes or with an error, and the  *)
(* Reader's methods run on until they return.                              *)
Spec == Init /\ [][Next]_vars /\ WF_vars(Work)

-----------------------------------------------------------------------------
(* Objects of a stream: ends maps the place where an object begins (those   *)
(* inside others too) to the place where it ends, by the MessagePack       *)
(* specification; bytes may stop before that.  0xc1 begins no object.      *)
Starts == DOMAIN input.ends
Good(s) ==
  /\ s \in Starts /\ input.ends[s] <= Len(input.bytes)
  /\ \A t \in Starts : t >= s /\ t < input.ends[s] => input.bytes[t + 1] # 193

(* k objects lie one behind the other from a to b, and begin where m says. *)
Marks(ends, m, a, k, b) ==
  /\ m[0] = a /\ m[k] = b
  /\ \A i \in 0..k : m[i] <= b
  /\ \A i \in 0..k-1 : m[i] \in DOMAIN ends /\ ends[m[i]] = m[i + 1]
Path(ends, a, k, b) == \E m \in [0..k -> Nat] : Marks(ends, m, a, k, b)

(* Does ends say what the table of sizes says?  An object is no shorter    *)
(* than its prefix.  As far as the bytes go, it is its prefix and body and *)
(* then as many objects as the prefix announces, and another object or the *)
(* end of the stream is behind it.                                         *)
Framed(s, Objects(_, _, _, _)) ==
  LET Behind(p) == SubSeq(s.bytes, p + 1, Len(s.bytes))
      Announced(p, z, g) ==
        /\ p + z.size <= s.ends[p]
        /\ z.size > 0 /\ (z.extra >= 0 \/ Len(Behind(p)) >= z.size) =>
             /\ Objects(s.ends, p + g.v, g.o, s.ends[p])
             /\ \A q \in DOMAIN s.ends : ~(p < q /\ q < p + g.v)
  IN  /\ 0 \in DOMAIN s.ends
      /\ \A p \in DOMAIN s.ends :
           /\ p \in Nat /\ s.ends[p] \in Nat /\ p < s.ends[p]
           /\ s.ends[p] \in DOMAIN s.ends \/ s.ends[p] >= Len(s.bytes)
           /\ p < Len(s.bytes) =>
                Announced(p, sizes[s.bytes[p + 1]],
                          SizedBy(sizes[s.bytes[p + 1]], Behind(p)))
WellFormed(s) == Framed(s, Path)

(* The fast path of Skip sees 5 bytes of a prefix; an ext32 has 6.         *)
NoExt32(s) == \A p \in DOMAIN s.ends : p < Len(s.bytes) => s.bytes[p + 1] # 201

Raws == {"Skip", "CopyNext", "appendNext"}
Nested == {"ReadIntf", "ReadMapStrIntf", "ReadArrayIntf"}
Returned == ~Running /\ call.m # "none"

TypeOK ==
  /\ input \in Streams
  /\ pos + buffered \in 0..Len(input.bytes) /\ pos \in Nat /\ buffered \in 0..cap
  /\ cap \in Nat /\ cap >= BufSize
  /\ pc \in {"begin", "sizing", "drain", "whole"}
  /\ rest \in Nat /\ (rest > 0 <=> pc \in {"drain", "whole"})
  /\ call.start \in 0..pos
  /\ (Running <=> call.res = "running")

(* However the stream is cut into pieces, and whatever failed before, a    *)
(* method that returns nil has consumed exactly one whole object, and      *)
(* CopyNext and Raw.DecodeMsg have produced its bytes.                     *)
Exact ==
  (Returned /\ call.res = "ok") =>
    /\ Good(call.start)
    /\ pos = input.ends[call.start]
    /\ call.m \in {"CopyNext", "appendNext"} =>
         out = SubSeq(input.bytes, call.start + 1, pos)

(* No method, failing or not, consumes a byte behind the object it began   *)
(* with.                                                                   *)
NeverPast == call.start \in Starts => pos <= input.ends[call.start]

(* Skip, CopyNext and Raw.DecodeMsg succeed on the same encodings as the   *)
(* Skip that works on a []byte, and consume as much, unless the io.Reader  *)
(* or the io.Writer failed.                                                *)
AgreesWithBytes ==
  (Returned /\ call.m \in Raws /\ ~call.io) =>
    LET b == Skip(input.bytes, call.start) IN
    /\ call.res = "ok" <=> b.err = "none"
    /\ call.res = "ok" => pos = b.end
    /\ call.res = "invalid" <=> b.err = "invalid"

(* Where the caller may go on reading, the Reader stands at an object: in  *)
(* front of the one that has the wrong type or length, behind one that     *)
(* overflows.                                                              *)
ResumesAtObject ==
  (Returned /\ MayGoOn) =>
    /\ pos \in Starts \cup Range(input.ends)
    /\ (call.res \in {"type", "array", "ext"} /\ call.m \notin Nested) => pos = call.start
    /\ call.res = "overflow" /\ call.m \notin Nested => pos = input.ends[call.start]

(* On a live connection the bytes behind an object may never come.  No     *)
(* method waits for them, except those that peek at the length of the type *)
(* they want before they look at the prefix: ReadFloat64 and               *)
(* ReadExactBytes here.  ReadIntf calls such methods for a complex number  *)
(* or a time, so for it this is about extensions of the length that        *)
(* Writer gives them.                                                      *)
AsksWithin ==
  (Running /\ call.m \notin {"ReadFloat64", "ReadExactBytes"}
     /\ call.start \in Starts) =>
    \A t \in Outcomes : Waits(t) => pos + t.n <= input.ends[call.start]

(* Every call returns: no method waits for bytes a finite stream does not  *)
(* have, or runs on without consuming any.                                 *)
Returns == Running ~> ~Running
=============================================================================
