-------------------------------- MODULE Json --------------------------------
(***************************************************************************)
(* Translation to JSON: WriteToJSON of msgp/json.go, which reads from a    *)
(* Reader, and UnmarshalAsJSON of msgp/json_bytes.go, which reads from a   *)
(* []byte.  Both write to a jsWriter: the caller's, or a bufio.Writer      *)
(* around the caller's io.Writer that they flush at the end.               *)
(*                                                                         *)
(* The recursive functions are a stack of items still to be done.  One     *)
(* step does one item: it may write, reads one header or one leaf, writes, *)
(* and leaves further items.  JSON text is a sequence of tokens; the text  *)
(* of a string is a token per byte or escape.  The Reader's methods see    *)
(* all the bytes that are left; StreamReader has what they do when those   *)
(* come in pieces.                                                         *)
(***************************************************************************)
EXTENDS Codec, SequencesExt

CONSTANTS Inputs,     \* [bytes, want, whole, odd], see below
          Sides,      \* among "stream" and "bytes"
          Registered, \* types with a registered extension
          MaxFaults   \* bound: failures of the writer and of json.Marshal

ASSUME JsonAssumption ==
  /\ Sides \subseteq {"stream", "bytes"}
  /\ MaxFaults \in Nat
  /\ Registered \cap {Complex64Extension, Complex128Extension, TimeExtension} = {}
  /\ \A i \in Inputs : i.bytes \in Seq(Byte) /\ i.odd \subseteq {"stream", "bytes"}

VARIABLES input,  \* bytes; want: their JSON; whole: no object is cut short or
                  \* broken; odd: sides known to write something else
          side,
          cast,   \* the caller's io.Writer is a jsWriter
          pos,    \* bytes read
          todo,   \* items to do, the next one first
          out,    \* tokens written to the jsWriter
          sink,   \* tokens that have reached the caller's io.Writer
          err,    \* the error of the last rwNext or writeNext
          res,    \* "running", "nil" or the error returned
          broken, \* a write of the bufio.Writer has failed
          faults

vars == <<input, side, cast, pos, todo, out, sink, err, res, broken, faults>>

S == INSTANCE StreamReader WITH
       Streams <- {}, Methods <- {}, Chunks <- {1}, BufSize <- 16,
       MaxCalls <- 0, MaxFaults <- 0, input <- <<>>, pos <- 0, buffered <- 0,
       cap <- 16, todo <- <<>>, pc <- "begin", rest <- 0, out <- <<>>,
       call <- <<>>, ncalls <- 0, faults <- 0

w == From(input.bytes, pos)

-----------------------------------------------------------------------------
Tok(k) == <<k, <<>>>>
Val(k, data) == <<k, data>>

(* External: utf8.DecodeRune, for the runes that occur.                    *)
DecodeRune(s) ==
  IF Len(s) >= 3 /\ SubSeq(s, 1, 2) = <<226, 128>> /\ s[3] \in {168, 169}
    THEN [c |-> "separator", size |-> 3]
  ELSE IF Len(s) >= 2 /\ s[1] \in 194..223 /\ s[2] \in 128..191
    THEN [c |-> "rune", size |-> 2]
  ELSE [c |-> "error", size |-> 1]

Safe(b) == b >= 32 /\ b < 128 /\ b \notin {34, 38, 60, 62, 92}
Text(s) == [i \in DOMAIN s |-> Val("text", <<s[i]>>)]

(* Mutant: start is left where it was.                                     *)
rwQuotedAgain(s) ==
  LET q[i \in Nat, start \in Nat] ==
        LET b == s[i + 1]
            flushed == Text(SubSeq(s, start + 1, i))
            r == DecodeRune(From(s, i))
        IN  IF i >= Len(s) THEN Text(From(s, start))
            ELSE IF Safe(b) THEN q[i + 1, start]
            ELSE IF b < 128
              THEN flushed \o <<Val("escape", <<b>>)>> \o q[i + 1, start]
            ELSE q[i + r.size, start]
  IN  <<Tok("\"")>> \o q[0, 0] \o <<Tok("\"")>>

(* rwQuoted.  Text since start is written when something must be escaped.  *)
(* An invalid byte or a line separator is only escaped behind such text,   *)
(* and behind a separator start is not moved.                              *)
rwQuoted(s) ==
  LET q[i \in Nat, start \in Nat] ==
        LET b == s[i + 1]
            flushed == Text(SubSeq(s, start + 1, i))
            r == DecodeRune(From(s, i))
        IN  IF i >= Len(s) THEN Text(From(s, start))
            ELSE IF Safe(b) THEN q[i + 1, start]
            ELSE IF b < 128
              THEN flushed \o <<Val("escape", <<b>>)>> \o q[i + 1, i + 1]
            ELSE IF r.c = "error" /\ start < i
              THEN flushed \o <<Tok("\\ufffd")>> \o q[i + 1, i + 1]
            ELSE IF r.c = "separator" /\ start < i
              THEN flushed \o <<Val("separator", <<s[i + 3]>>)>> \o q[i + 3, start]
            ELSE q[i + r.size, start]
  IN  <<Tok("\"")>> \o q[0, 0] \o <<Tok("\"")>>

(* What strconv.AppendFloat with a bit size makes of a number: for fewer   *)
(* bits than it has, the digits of the nearest number with so many.        *)
AppendFloat(bits, size) ==
  Val(IF size < 8 * Len(bits) THEN "rounded" ELSE "float", bits)

Base64(data) == <<Tok("\""), Val("base64", data), Tok("\"")>>
Bool(x) == Tok(IF x THEN "true" ELSE "false")

(* writeExt, and the same of rwExtension, where the closing quote of       *)
(* "type" is behind the colon.                                             *)
writeExt(typ, data, name) ==
  <<Tok("{"), Tok(name), Val("int", <<typ>>), Tok(","), Tok("\"data\":")>>
    \o Base64(data) \o <<Tok("}")>>

-----------------------------------------------------------------------------
(* What an item does: writes pre, takes k bytes, and then fails with e or  *)
(* writes post and leaves the items kids.                                  *)
Does(before, k, e, after, items) ==
  [pre |-> before, k |-> k, e |-> e, post |-> after, kids |-> items]
Leaf(k, after) == Does(<<>>, k, "none", after, <<>>)
Fails(k, e) == Does(<<>>, k, e, <<>>, <<>>)

(* k members with commas between them.                                     *)
Commas(k, member) ==
  FlattenSeq([i \in 1..k |-> (IF i = 1 THEN <<>> ELSE <<",">>) \o member])

Elements(k) == Commas(k, <<"next">>) \o <<"]">>
Members(k) == Commas(k, <<"key", ":", "next">>) \o <<"}">>

(* A method of the Reader on the bytes that are left.                      *)
Got(t) ==
  CASE t.do = "ask" -> Fail(0, t.e)
    [] t.do = "err" -> Fail(t.n, t.e)
    [] t.do = "take" /\ Len(w) < t.n + t.body -> Fail(Len(w), "unexpected")
    [] OTHER -> Ok(SubSeq(w, 1, t.n + t.body), t.n + t.body)
Read(m) == Got(S!Decide(m, w))

(* The read r, and what it is written as.                                  *)
After(r, tokens) == IF r.err # "none" THEN Fails(r.n, r.err) ELSE Leaf(r.n, tokens)

rwMap ==
  LET g == S!Header(w, {"map"}) IN
  IF g.do # "found" THEN Fails(0, g.e)
  ELSE Does(<<>>, g.h, "none", <<Tok("{")>>, Members(g.o \div 2))

rwArray ==
  LET g == S!Header(w, {"array"}) IN
  IF g.do # "found" THEN Does(<<Tok("[")>>, 0, g.e, <<>>, <<>>)
  ELSE Does(<<Tok("[")>>, g.h, "none", <<>>, Elements(g.o))

rwString ==
  LET g == S!Header(w, {"str"}) IN
  IF g.do # "found" THEN Fails(0, g.e)
  ELSE IF Len(w) < g.v THEN Fails(g.h, "unexpected")
  ELSE Leaf(g.v, rwQuoted(SubSeq(w, g.h + 1, g.v)))

(* ReadMapKeyPtr takes a bin too, and it is quoted as it is.               *)
rwKey ==
  LET g == S!Header(w, {"str", "bin"})
  IN  After(Read("ReadMapKeyPtr"), rwQuoted(SubSeq(w, g.h + 1, g.v)))

(* The first quote is written before r, the bin, is read.                  *)
rwBytes(r) ==
  IF r.err # "none" THEN Does(<<Tok("\"")>>, r.n, r.err, <<>>, <<>>)
  ELSE Does(<<Tok("\"")>>, r.n, "none", Tail(Base64(From(r.v, sizes[w[1]].size))), <<>>)

rwExtension(r) ==
  LET p == S!peekExtensionType(w)
      s == sizes[w[1]]
      data == From(r.v, IF s.extra = 0 THEN 2 ELSE s.size)
  IN  IF p.do # "found" THEN Fails(0, p.e)
      ELSE IF p.t \in Registered THEN After(r, <<Val("marshal", data)>>)
      ELSE After(r, writeExt(p.t, data, "\"type:\""))

(* The method of the Reader that an object of type t is read with.         *)
ReaderOf(t) ==
  IF t \in {"complex64", "complex128"} THEN "ReadExtension" ELSE S!ReaderOf(t)

(* An object of type t, which reads as r.                                  *)
rwObject(t, r) ==
  CASE t = "str"     -> rwString
    [] t = "bin"     -> rwBytes(r)
    [] t = "map"     -> rwMap
    [] t = "array"   -> rwArray
    [] t = "float64" -> After(r, <<AppendFloat(From(r.v, 1), 32)>>)
    [] t = "float32" -> After(r, <<AppendFloat(From(r.v, 1), 64)>>)
    [] t = "bool"    -> After(r, <<Bool(r.v[1] = mtrue)>>)
    [] t = "int"     -> After(r, <<Val("int", I!ReadInt64(w).v)>>)
    [] t = "uint"    -> After(r, <<Val("uint", I!ReadUint64(w).v)>>)
    [] t = "nil"     -> After(r, <<Tok("null")>>)
    [] t = "time"    -> After(r, <<Val("time", From(r.v, 3))>>)
    [] t \in {"ext", "complex64", "complex128"} -> rwExtension(r)

rwNext ==
  LET t == S!NextType(w) IN
  IF t.do # "found" THEN Fails(0, t.e) ELSE rwObject(t.t, Read(ReaderOf(t.t)))

-----------------------------------------------------------------------------
rwStringBytes == LET r == ReadStringZC(w) IN After(r, rwQuoted(r.v))
rwBytesBytes == LET r == readBytesBytes(w) IN After(r, Base64(r.v))

rwMapKeyBytes ==
  IF w # <<>> /\ getType(w[1]) = "bin" THEN rwBytesBytes ELSE rwStringBytes

rwArrayBytes ==
  LET h == ReadArrayHeaderBytes(w) IN
  IF h.err # "none" THEN Fails(h.n, h.err)
  ELSE Does(<<>>, h.n, "none", <<Tok("[")>>, Elements(h.v))

rwMapBytes ==
  LET h == ReadMapHeaderBytes(w) IN
  IF h.err # "none" THEN Fails(h.n, h.err)
  ELSE Does(<<>>, h.n, "none", <<Tok("{")>>, Members(h.v))

rwExtensionBytes ==
  LET et == peekExtension(w)
      r == ReadExtensionBytes(w, et.v)
  IN  IF et.v \in Registered THEN After(r, <<Val("marshal", r.v)>>)
      ELSE After(r, writeExt(et.v, r.v, "\"type\":"))

(* writeNext.  An extension too short for its type to be seen costs the    *)
(* rest of the message.                                                    *)
writeNext ==
  IF w = <<>> THEN Fails(0, "short")
  ELSE LET t == getType(w[1])
           et == peekExtension(w)
           f32 == ReadFloat32Bytes(w)
           f64 == ReadFloat64Bytes(w)
           int == ReadInt64Bytes(w)
           uint == ReadUint64Bytes(w)
           bool == ReadBoolBytes(w)
           time == ReadTimeBytes(w)
       IN  CASE t = "invalid" -> Fails(0, "invalid")
             [] t = "str"     -> rwStringBytes
             [] t = "bin"     -> rwBytesBytes
             [] t = "map"     -> rwMapBytes
             [] t = "array"   -> rwArrayBytes
             [] t = "float64" -> After(f64, <<AppendFloat(f64.v, 64)>>)
             [] t = "float32" -> After(f32, <<AppendFloat(f32.v, 32)>>)
             [] t = "bool"    -> After(bool, <<Bool(bool.v)>>)
             [] t = "int"     -> After(int, <<Val("int", int.v)>>)
             [] t = "uint"    -> After(uint, <<Val("uint", uint.v)>>)
             [] t = "nil"     -> After(ReadNilBytes(w), <<Tok("null")>>)
             [] t = "ext"     ->
                  IF et.err # "none" THEN Fails(Len(w), et.err)
                  ELSE IF et.v = TimeExtension
                    THEN After(time, <<Val("time", time.v)>>)
                  ELSE rwExtensionBytes

(* The item x on this side.                                                *)
Do(x) ==
  CASE x = "next" /\ side = "stream" -> rwNext
    [] x = "next" /\ side = "bytes"  -> writeNext
    [] x = "key" /\ side = "stream"  -> rwKey
    [] x = "key" /\ side = "bytes"   -> rwMapKeyBytes
    [] OTHER -> Leaf(0, <<Tok(x)>>)

-----------------------------------------------------------------------------
Init ==
  /\ input \in Inputs /\ side \in Sides /\ cast \in BOOLEAN
  /\ pos = 0 /\ todo = <<>> /\ out = <<>> /\ sink = <<>>
  /\ err = "none" /\ res = "running" /\ broken = FALSE /\ faults = 0

Running == res = "running"

(* Mutant: len(msg) >= 0.                                                  *)
StopsLate == IF side = "stream" THEN err # "none" ELSE pos > Len(input.bytes)

(* WriteToJSON goes on until there is an error, UnmarshalAsJSON until      *)
(* there is nothing left.                                                  *)
Stops == IF side = "stream" THEN err # "none" ELSE pos = Len(input.bytes)

(* The loops: another object.                                              *)
Loop ==
  /\ Running /\ todo = <<>> /\ ~Stops
  /\ todo' = <<"next">>
  /\ err' = "none"
  /\ UNCHANGED <<input, side, cast, pos, out, sink, res, broken, faults>>

(* The bufio.Writer hands on what it holds whenever it is full; where that *)
(* is inside the tokens of a step is left out.                             *)
Write(tokens) ==
  /\ out' = out \o tokens
  /\ IF cast THEN sink' = sink \o tokens
     ELSE sink' = sink \/ sink' = out'

Step ==
  /\ Running /\ todo # <<>> /\ ~broken
  /\ \E d \in {Do(Head(todo))} :
       /\ pos' = pos + d.k
       /\ IF d.e = "none"
            THEN Write(d.pre \o d.post) /\ todo' = d.kids \o Tail(todo)
            ELSE Write(d.pre) /\ todo' = <<>>
       /\ err' = d.e
  /\ UNCHANGED <<input, side, cast, res, broken, faults>>

(* A bufio.Writer that has failed once fails in every call.                *)
Refused ==
  /\ Running /\ todo # <<>> /\ broken
  /\ \E d \in {Do(Head(todo))} :
       /\ pos' = IF d.pre # <<>> THEN pos ELSE pos + d.k
       /\ err' = IF d.pre # <<>> \/ d.e = "none" THEN "write" ELSE d.e
  /\ todo' = <<>>
  /\ UNCHANGED <<input, side, cast, out, sink, res, broken, faults>>

(* Mutant: every error of the Reader is the end of the stream.             *)
ResultAny == IF side = "stream" THEN "nil" ELSE IF err = "none" THEN "nil" ELSE err

(* What is returned: io.EOF is the end of the stream.                      *)
Result ==
  IF err = "none" \/ (side = "stream" /\ err = "EOF") THEN "nil" ELSE err

(* Mutant: UnmarshalAsJSON leaves it to the caller.                        *)
FlushesStream == ~cast /\ side = "stream"

(* The bufio.Writer is flushed: always by WriteToJSON, without an error    *)
(* by UnmarshalAsJSON.                                                     *)
Flushes == ~cast /\ (side = "stream" \/ err = "none")

Finish ==
  /\ Running /\ todo = <<>> /\ Stops
  /\ res' = IF Result = "nil" /\ Flushes /\ broken THEN "write" ELSE Result
  /\ sink' = IF Flushes /\ ~broken THEN out ELSE sink
  /\ UNCHANGED <<input, side, cast, pos, todo, out, err, broken, faults>>

(* The jsWriter takes i of the tokens of a step and fails; the bytes       *)
(* before that have been read.  The bufio.Writer fails when the io.Writer  *)
(* behind it does, which has taken some of what it held.                   *)
WriteFails(d) ==
  /\ ~broken /\ broken' = ~cast
  /\ \E i \in 0..(Len(d.pre) + Len(d.post) - 1) :
       /\ i >= Len(d.pre) => d.e = "none"
       /\ cast \/ i \in {0, Len(d.pre)}
       /\ Write(SubSeq(d.pre \o d.post, 1, i))
       /\ pos' = IF i < Len(d.pre) THEN pos ELSE pos + d.k
       /\ err' = "write"
       /\ UNCHANGED res

(* json.Marshal of a registered extension fails, or Time.MarshalJSON.      *)
MarshalFails(d) ==
  /\ d.e = "none" /\ d.post # <<>> /\ d.post[1][1] \in {"marshal", "time"}
  /\ pos' = pos + d.k
  /\ err' = "marshal"
  /\ UNCHANGED <<out, sink, res, broken>>

(* The io.Writer behind the bufio.Writer takes some of the Flush.  The     *)
(* error is dropped where there is another one.                            *)
FlushFails ==
  /\ todo = <<>> /\ Stops /\ Flushes /\ ~broken
  /\ \E i \in Len(sink)..(Len(out) - 1) : sink' = SubSeq(out, 1, i)
  /\ res' = IF Result = "nil" THEN "write" ELSE Result
  /\ broken' = TRUE
  /\ UNCHANGED <<pos, out, err>>

Fault ==
  /\ Running /\ faults < MaxFaults /\ faults' = faults + 1
  /\ \/ todo # <<>> /\ \E d \in {Do(Head(todo))} : WriteFails(d) \/ MarshalFails(d)
     \/ FlushFails
  /\ todo' = <<>>
  /\ UNCHANGED <<input, side, cast>>

Next == Loop \/ Step \/ Refused \/ Finish \/ Fault

(* The program runs: neither side waits for anybody.                       *)
Spec == Init /\ [][Next]_vars /\ WF_vars(Loop \/ Step \/ Refused \/ Finish)

-----------------------------------------------------------------------------
Expected == side \notin input.odd

(* Whole messages are translated as the JSON of each object in turn, to    *)
(* the last byte, and nil is returned.                                     *)
Translates ==
  (~Running /\ input.whole /\ Expected /\ faults = 0) =>
    res = "nil" /\ sink = input.want /\ pos = Len(input.bytes)

(* What WriteToJSON has handed on is always the beginning of the JSON of   *)
(* the whole message, wherever the stream ends or the writer fails.        *)
StreamPrefix ==
  (side = "stream" /\ Expected) => IsPrefix(out, input.want) /\ IsPrefix(sink, out)

(* All that a translator has written to its jsWriter has reached the       *)
(* caller's io.Writer when it returns nil, through the bufio.Writer too    *)
(* and whatever has failed before.                                         *)
NothingLost == (cast \/ res = "nil") => sink = out

(* An extension of the type of a time that is not one: ReadTime asks for   *)
(* its 15 bytes all the same.                                              *)
ForeignTime(b) ==
  /\ b # <<>> /\ getType(b[1]) = "ext"
  /\ ExtType(sizes[b[1]], b) = TimeExtension
  /\ b[1] # mext8 \/ b[2] # 12

(* WriteToJSON returns nil only when fewer bytes are left than the next    *)
(* object has: it never takes an error for the end.  They need not be      *)
(* none: a Peek inside a value that is cut short is io.EOF as well.  So is *)
(* ReadTime's for a whole extension of less than 15 bytes that has the     *)
(* type of a time.                                                         *)
NilAtEnd ==
  (side = "stream" /\ res = "nil") =>
    Skip(input.bytes, pos).err = "short" \/ ForeignTime(w)

(* Translation ends: from a stream always, from bytes if every object in   *)
(* them is whole and the writer takes them.                                *)
ReturnsWhole ==
  (side = "stream" \/ input.whole) => <>(~Running \/ (side = "bytes" /\ faults > 0))

(* UnmarshalAsJSON returns, with an error if need be.                      *)
BytesReturn == <>(~Running)
=============================================================================
