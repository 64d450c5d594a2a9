------------------------------- MODULE Writer -------------------------------
(***************************************************************************)
(* The buffered Writer of msgp/write.go, and the buffer handling of its    *)
(* WriteExtension method in msgp/extension.go.                             *)
(*                                                                         *)
(* Every exported Write method is a sequence of primitives on the buffer   *)
(* (push, prefixN, require, Append, Write, writeString, the extension      *)
(* body, Flush) that stops at the first error.  Module WriterCalls says    *)
(* which sequence each method is; here the sequences are the constant Ops. *)
(* A byte is named by the call it encodes and its place in the encoding,   *)
(* so that a lost, repeated or displaced byte shows.                       *)
(*                                                                         *)
(* The io.Writer below is external: for each Write it picks how many bytes *)
(* it takes and whether it fails.                                          *)
(***************************************************************************)
EXTENDS Naturals, Sequences, SequencesExt

CONSTANTS Size,        \* the sz given to NewWriterSize
          Ops,         \* calls: sequences of primitives [op, n]
          MaxCalls,    \* bound: calls in one behaviour
          MaxFaults,   \* bound: failing or short Writes of the io.Writer
          BadMarshal   \* may an extension's MarshalBinaryTo fail?

(* Primitives that index the buffer at wLoc, without a bounds check.       *)
Indexed == {"push", "prefix", "require"}
(* Primitives that copy() into the buffer what fits.                       *)
Copied == {"append", "write", "writeString"}
Prim == [op : Indexed \cup Copied \cup {"extBody", "flush", "unsupported"},
         n : Nat]

ASSUME WriterAssumption ==
  /\ Size \in Nat /\ MaxCalls \in Nat /\ MaxFaults \in Nat
  /\ BadMarshal \in BOOLEAN
  /\ \A c \in Ops : c \in Seq(Prim) /\ c # <<>>

(* What the comments of require and Append ask of their callers: require    *)
(* of no more than the smallest buffer, Append of no more than the buffer. *)
WellSized(p, buflen) ==
  /\ p.op \in Indexed => p.n <= 18
  /\ p.op = "push" => p.n = 1
  /\ p.op = "append" => p.n <= buflen
  /\ p.op = "flush" => p.n = 0

VARIABLES buf,      \* Writer.buf, stale bytes above wLoc included
          wLoc,     \* Writer.wLoc
          sink,     \* bytes the current io.Writer has received
          calls,    \* history: what each call was, has put and returned
          todo,     \* primitives the running call has still to do
          flushed,  \* the primitive at the head of todo has called Flush
          epoch,    \* history: number of calls made before the last Reset
          faults,   \* failing or short Writes so far
          honest    \* history: the current io.Writer has always told when it took
                    \* less than it was given, as its contract asks

vars == <<buf, wLoc, sink, calls, todo, flushed, epoch, faults, honest>>

-----------------------------------------------------------------------------
MinBuffer == 18

(* Mutant: no floor.                                                       *)
NewWriterSizeNoFloor(sz) == sz

(* The length NewWriterSize gives the buffer.                              *)
NewWriterSize(sz) == IF sz < MinBuffer THEN MinBuffer ELSE sz

CallsFit ==
  \A c \in Ops : \A i \in 1..Len(c) : WellSized(c[i], NewWriterSize(Size))

(* These primitives hand Write nothing that is larger than the buffer:     *)
(* WriteBytes and WriteStringFromBytes ignore the count of a direct write. *)
Buffered(ps) ==
  \A i \in 1..Len(ps) : ps[i].op = "write" => ps[i].n <= NewWriterSize(Size)

Zero == <<0, 0>>
Byte == Nat \X Nat

Init ==
  /\ buf = [i \in 1..NewWriterSize(Size) |-> Zero]
  /\ wLoc = 0
  /\ sink = <<>>
  /\ calls = <<>>
  /\ todo = <<>>
  /\ flushed = FALSE
  /\ epoch = 0
  /\ faults = 0
  /\ honest = TRUE

OpenSpace == Len(buf) - wLoc

(* What the Writer has accepted for the current io.Writer.                 *)
Out == sink \o SubSeq(buf, 1, wLoc)

cur == Len(calls)
Running == todo # <<>>
At(op) == Running /\ Head(todo).op \in op

(* The next k bytes of the running call's encoding.                        *)
Fresh(k) == [j \in 1..k |-> <<cur, calls[cur].done + j>>]

(* buf with those bytes copied in at offset `at`.                          *)
Fill(at, k) == [i \in 1..Len(buf) |->
                  IF i \in at+1..at+k THEN <<cur, calls[cur].done + (i - at)>>
                                      ELSE buf[i]]

(* The running call's history once the primitive at the head of todo has   *)
(* put k bytes of the encoding and j bytes of junk.                        *)
CallAfter(k, j, st) ==
  LET c == calls[cur] IN
  [at |-> c.at, ops |-> c.ops, asked |-> c.asked + Head(todo).n,
   done |-> c.done + k + j, good |-> c.good + k, st |-> st]

(* The primitive succeeded, having put k bytes; the call returns nil when  *)
(* it was the last one.                                                    *)
Advance(k) ==
  /\ todo' = Tail(todo)
  /\ flushed' = FALSE
  /\ calls' = [calls EXCEPT
       ![cur] = CallAfter(k, 0, IF Len(todo) = 1 THEN "ok" ELSE "running")]

(* It failed, after k good bytes and j bytes of junk: the call returns err. *)
Fail(k, j) ==
  /\ todo' = <<>>
  /\ flushed' = FALSE
  /\ calls' = [calls EXCEPT ![cur] = CallAfter(k, j, "err")]

(* External: what Write may answer to k bytes, and what of it is a fault.  *)
(* That it takes less and returns nil is against its contract, but Flush   *)
(* and writeString check for it.                                           *)
Faulty(r, k) == r.err \/ r.n < k

SinkTakes(k) ==
  {r \in [n : 0..k, err : BOOLEAN] : Faulty(r, k) => faults < MaxFaults}

Count(r, k) ==
  /\ faults' = IF Faulty(r, k) THEN faults + 1 ELSE faults
  /\ honest' = (honest /\ (r.err \/ r.n = k))

-----------------------------------------------------------------------------
(* A caller starts one of the Writer's methods.                            *)
Call(c) ==
  /\ ~Running /\ cur < MaxCalls
  /\ todo' = c
  /\ flushed' = FALSE
  /\ calls' = Append(calls, [at |-> Len(Out), ops |-> c, asked |-> 0,
                             done |-> 0, good |-> 0, st |-> "running"])
  /\ UNCHANGED <<buf, wLoc, sink, epoch, faults, honest>>

(* Mutants: a room check that is off by one, and a Flush that waits for a  *)
(* full buffer.                                                            *)
NeedsFlushOffByOne ==
  LET p == Head(todo) IN p.op = "flush" \/ OpenSpace + 1 < p.n
NeedsFlushLazy ==
  LET p == Head(todo) IN
  IF p.op \in {"push", "flush"} THEN wLoc = Len(buf) ELSE OpenSpace < p.n

(* When the primitive at the head of todo calls Flush first.               *)
NeedsFlush ==
  LET p == Head(todo) IN
  IF p.op = "push" THEN wLoc = Len(buf)
  ELSE p.op = "flush" \/ OpenSpace < p.n

(* Flush with an empty buffer returns nil at once.                         *)
FlushNothing ==
  /\ Running /\ ~flushed /\ NeedsFlush
  /\ wLoc = 0
  /\ flushed' = TRUE
  /\ UNCHANGED <<buf, wLoc, sink, calls, todo, epoch, faults, honest>>

(* Mutant: wLoc is lowered, the bytes behind the hole are not moved.       *)
ShiftedNot(n) == buf

(* The buffer after copy(buf, buf[n:wLoc]).                                *)
Shifted(n) == [i \in 1..Len(buf) |->
                 IF i <= wLoc - n THEN buf[i + n] ELSE buf[i]]

(* Flush hands buf[:wLoc] to the io.Writer.  On an error the bytes taken   *)
(* are shifted out; a short write without an error leaves buf and wLoc     *)
(* alone.                                                                  *)
FlushBuffer ==
  /\ Running /\ ~flushed /\ NeedsFlush
  /\ wLoc > 0
  /\ \E r \in SinkTakes(wLoc) :
       /\ Count(r, wLoc)
       /\ sink' = sink \o SubSeq(buf, 1, r.n)
       /\ \/ /\ r.err /\ r.n > 0
             /\ buf' = Shifted(r.n)
             /\ wLoc' = wLoc - r.n
             /\ Fail(0, 0)
          \/ /\ r.err /\ r.n = 0
             /\ UNCHANGED <<buf, wLoc>>
             /\ Fail(0, 0)
          \/ /\ ~r.err /\ r.n < wLoc
             /\ UNCHANGED <<buf, wLoc>>
             /\ Fail(0, 0)
          \/ /\ ~r.err /\ r.n = wLoc
             /\ wLoc' = 0
             /\ flushed' = TRUE
             /\ UNCHANGED <<buf, calls, todo>>
  /\ UNCHANGED epoch

Ready == Running /\ (flushed \/ ~NeedsFlush)

(* push, prefix8..64 and require, followed by the stores at wLoc.          *)
PutIndexed ==
  /\ Ready /\ At(Indexed)
  /\ LET n == Head(todo).n IN
       /\ n <= OpenSpace
       /\ buf' = Fill(wLoc, n)
       /\ wLoc' = wLoc + n
       /\ Advance(n)
  /\ UNCHANGED <<sink, epoch, faults, honest>>

(* Append, and Write and writeString of what is not larger than the buffer: *)
(* wLoc += copy(buf[wLoc:], p).                                            *)
PutCopied ==
  /\ Ready /\ At(Copied)
  /\ LET n == Head(todo).n
         k == IF n <= OpenSpace THEN n ELSE OpenSpace IN
       /\ At({"append"}) \/ n <= Len(buf)
       /\ buf' = Fill(wLoc, k)
       /\ wLoc' = wLoc + k
       /\ Advance(k)
  /\ UNCHANGED <<sink, epoch, faults, honest>>

(* Mutant: writeString ignores the count, as Write does.                   *)
ShortIsErrorNever(r, n) == FALSE

(* Only writeString turns a short count into an error.                     *)
ShortIsError(r, n) == r.n < n /\ At({"writeString"})

(* Write and writeString of more than the buffer holds go straight to the  *)
(* io.Writer.                                                              *)
PutDirect ==
  /\ Ready /\ At({"write", "writeString"})
  /\ LET n == Head(todo).n IN
       /\ n > Len(buf)
       /\ \E r \in SinkTakes(n) :
            /\ Count(r, n)
            /\ sink' = sink \o Fresh(r.n)
            /\ IF r.err \/ ShortIsError(r, n)
                 THEN Fail(r.n, 0)
                 ELSE Advance(r.n)
  /\ UNCHANGED <<buf, wLoc, epoch>>

(* The body of an extension that fits: require(l), then MarshalBinaryTo    *)
(* writes behind wLoc, which has moved already.                            *)
ExtBodyInPlace ==
  /\ Ready /\ At({"extBody"})
  /\ LET l == Head(todo).n IN
       /\ l <= Len(buf)
       /\ wLoc' = wLoc + l
       /\ \/ buf' = Fill(wLoc, l) /\ Advance(l)
          \/ BadMarshal /\ buf' = buf /\ Fail(0, l)
  /\ UNCHANGED <<sink, epoch, faults, honest>>

(* The body of a larger extension: Flush, then a new buffer of exactly its *)
(* length, full.                                                           *)
ExtBodyGrow ==
  /\ Ready /\ At({"extBody"})
  /\ LET l == Head(todo).n IN
       /\ l > Len(buf)
       /\ \/ buf' = Fresh(l) /\ wLoc' = l /\ Advance(l)
          \/ BadMarshal /\ UNCHANGED <<buf, wLoc>> /\ Fail(0, 0)
  /\ UNCHANGED <<sink, epoch, faults, honest>>

(* Flush called as a method of its own, or at the end of Encode.           *)
FlushDone ==
  /\ Ready /\ At({"flush"})
  /\ Advance(0)
  /\ UNCHANGED <<buf, wLoc, sink, epoch, faults, honest>>

(* A value of an unsupported type, or an EncodeMsg that gives up: the call *)
(* returns its error and leaves what it has put where it is.               *)
Unsupported ==
  /\ Ready /\ At({"unsupported"})
  /\ Fail(0, 0)
  /\ UNCHANGED <<buf, wLoc, sink, epoch, faults, honest>>

(* Mutant: the buffered bytes survive.                                     *)
ResetKeepsBuffer ==
  /\ ~Running
  /\ sink' = <<>>
  /\ epoch' = cur
  /\ honest' = TRUE
  /\ UNCHANGED <<buf, wLoc, calls, todo, flushed, faults>>

(* Reset(w): another io.Writer, the buffered bytes are dropped.            *)
Reset ==
  /\ ~Running
  /\ sink' = <<>>
  /\ wLoc' = 0
  /\ epoch' = cur
  /\ honest' = TRUE
  /\ UNCHANGED <<buf, calls, todo, flushed, faults>>

Next ==
  \/ \E c \in Ops : Call(c)
  \/ FlushNothing
  \/ FlushBuffer
  \/ PutIndexed
  \/ PutCopied
  \/ PutDirect
  \/ ExtBodyInPlace
  \/ ExtBodyGrow
  \/ FlushDone
  \/ Unsupported
  \/ Reset

Spec == Init /\ [][Next]_vars

-----------------------------------------------------------------------------
Status == {"running", "ok", "err"}
CallRec == [at : Nat, ops : Ops, asked : Nat, done : Nat, good : Nat,
            st : Status]

(* The type invariant.  wLoc is an index into buf or just behind it, and   *)
(* the buffer never becomes shorter than the floor of NewWriterSize, which *)
(* push, prefix64 and require(18) rely on.                                 *)
TypeOK ==
  /\ buf \in Seq(Byte) /\ Len(buf) >= MinBuffer
  /\ wLoc \in 0..Len(buf)
  /\ sink \in Seq(Byte)
  /\ calls \in Seq(CallRec)
  /\ todo \in Seq(Prim)
  /\ flushed \in BOOLEAN
  /\ epoch \in 0..Len(calls)
  /\ faults \in 0..MaxFaults
  /\ honest \in BOOLEAN

(* Calls whose bytes belong to the current io.Writer.                      *)
Current == epoch+1 .. Len(calls)

(* The calls made since the last Reset tile the accepted stream: each one  *)
(* starts where the one before it ended.                                   *)
Tiled ==
  /\ \A c \in Current :
       calls[c].at = IF c = epoch + 1
                       THEN 0 ELSE calls[c-1].at + calls[c-1].done
  /\ \A c \in Current : calls[c].at + calls[c].done <= Len(Out)
  /\ Len(Out) = IF cur = epoch THEN 0 ELSE calls[cur].at + calls[cur].done

(* Whatever the io.Writer did, the byte at place at + k of the stream is   *)
(* the k-th byte of that call's encoding: no Flush, partial Flush, direct  *)
(* write, buffer replacement or Reset loses, repeats or moves one, except  *)
(* that the body of an extension whose MarshalBinaryTo failed is stale.    *)
InPlace ==
  \A c \in Current : \A k \in 1..calls[c].good :
    Out[calls[c].at + k] = <<c, k>>

(* A call that has not failed has put every byte its primitives were asked *)
(* for, and one that returned an error has put no more than that.          *)
Complete ==
  \A c \in Current :
    /\ calls[c].st # "err" =>
         calls[c].good = calls[c].done /\ calls[c].done = calls[c].asked
    /\ calls[c].good <= calls[c].done /\ calls[c].done <= calls[c].asked

Framed == Tiled /\ InPlace /\ Complete

(* The three together, as long as the io.Writer has kept its contract: one *)
(* that takes less than it is given and returns nil makes Flush send bytes *)
(* again, and Write pass over those it did not take.                       *)
Framing == honest => Framed

(* push, prefix8..64, require and the extension body store behind wLoc     *)
(* without looking at the length of buf: once they have called Flush the   *)
(* bytes fit, or the program panics.                                       *)
RoomAfterFlush ==
  (Ready /\ At(Indexed \cup {"extBody"})) =>
    \/ Head(todo).n <= OpenSpace
    \/ Head(todo).op = "extBody" /\ Head(todo).n > Len(buf) /\ wLoc = 0

(* When Flush or Encode has returned nil, and until the next call, nothing *)
(* is left in the buffer.                                                  *)
FlushDelivers ==
  (~Running /\ cur > epoch /\ calls[cur].st = "ok"
     /\ Last(calls[cur].ops).op = "flush") => wLoc = 0 /\ Out = sink

(* With an io.Writer that has taken fewer bytes than it was given and      *)
(* reported no error, bytes can be sent twice; yet no byte of a call that  *)
(* returned nil is missing, however often a Flush had to be tried again:   *)
(* Flush and writeString look at the count.  Write does not, so that what  *)
(* it was handed has to fit the buffer.                                    *)
AtLeastOnce ==
  \A c \in Current : (calls[c].st = "ok" /\ Buffered(calls[c].ops)) =>
    \A k \in 1..calls[c].asked : \E i \in DOMAIN Out : Out[i] = <<c, k>>

(* The Writer implements the abstract byte stream: the accepted bytes are  *)
(* what the io.Writer has received and then what is buffered.  Of one that *)
(* has broken its contract the abstract stream knows nothing.              *)
Accepted == IF honest THEN Out ELSE <<>>
Sent == IF honest THEN sink ELSE <<>>
Abs == INSTANCE ByteStream WITH accepted <- Accepted, sent <- Sent

AbsSpec == Abs!Spec
=============================================================================
