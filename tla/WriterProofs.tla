---------------------------- MODULE WriterProofs ----------------------------
(***************************************************************************)
(* Proofs about module Writer, for every buffer size, every set of calls   *)
(* and any number of calls and faults.                                     *)
(***************************************************************************)
EXTENDS Writer, SequenceTheorems, TLAPS

(* What Out holds, place by place.                                         *)
LEMMA OutShape ==
  ASSUME NEW S, NEW s \in Seq(S), NEW b \in Seq(S), NEW w \in 0..Len(b),
         NEW o, o = s \o SubSeq(b, 1, w)
  PROVE  /\ o \in Seq(S)
         /\ Len(o) = Len(s) + w
         /\ \A i \in 1..Len(s) : o[i] = s[i]
         /\ \A i \in 1..w : o[Len(s) + i] = b[i]
<1> DEFINE t == SubSeq(b, 1, w)
<1>1. t \in Seq(S) /\ Len(t) = w /\ \A i \in 1..w : t[i] = b[i]
  OBVIOUS
<1> HIDE DEF t
<1>2. (s \o t) \in Seq(S) /\ Len(s \o t) = Len(s) + w
  BY <1>1
<1>3. \A i \in 1..Len(s) : (s \o t)[i] = s[i]
  BY <1>1
<1>4. \A i \in 1..w : (s \o t)[Len(s) + i] = t[i]
  BY <1>1
<1> QED
  BY <1>1, <1>2, <1>3, <1>4 DEF t

-----------------------------------------------------------------------------
(* A running call is the last one, made after the last Reset, and a        *)
(* primitive that has called Flush finds the buffer empty.                 *)
Busy ==
  /\ Running => cur > epoch /\ calls[cur].st = "running"
  /\ flushed => Running /\ wLoc = 0

Typed == TypeOK /\ Busy

(* The same in two halves: the history and the buffers.                    *)
HistoryOK ==
  /\ calls \in Seq(CallRec) /\ todo \in Seq(Prim)
  /\ epoch \in 0..Len(calls)
  /\ Running => cur > epoch /\ calls[cur].st = "running"
BufferOK ==
  /\ buf \in Seq(Byte) /\ Len(buf) >= MinBuffer
  /\ wLoc \in 0..Len(buf)
  /\ sink \in Seq(Byte)
  /\ faults \in 0..MaxFaults
  /\ honest \in BOOLEAN

LEMMA Halves ==
  ASSUME HistoryOK', BufferOK', flushed' = FALSE
  PROVE  Typed'
BY DEF HistoryOK, BufferOK, Typed, TypeOK, Busy

LEMMA SinkAnswer ==
  ASSUME NEW k \in Nat, NEW r \in SinkTakes(k), TypeOK
  PROVE  /\ r.n \in 0..k /\ r.err \in BOOLEAN
         /\ Faulty(r, k) => faults < MaxFaults
BY DEF SinkTakes

LEMMA CountTyped ==
  ASSUME NEW k \in Nat, NEW r \in SinkTakes(k), TypeOK, Count(r, k)
  PROVE  faults' \in 0..MaxFaults /\ honest' \in BOOLEAN
<1>1. faults' \in 0..MaxFaults
  BY SinkAnswer, WriterAssumption DEF Count, TypeOK
<1>2. honest' \in BOOLEAN
  BY Zenon DEF Count
<1> QED
  BY <1>1, <1>2

(* A count that is short and comes without an error breaks the contract.   *)
LEMMA CountHonest ==
  ASSUME NEW k \in Nat, NEW r \in SinkTakes(k), TypeOK, Count(r, k)
  PROVE  /\ honest' => honest
         /\ (honest' /\ ~r.err) => r.n = k
<1>1. honest' = (honest /\ (r.err \/ r.n = k))
  BY DEF Count
<1> QED
  BY <1>1, Zenon

LEMMA HeadTodo ==
  ASSUME TypeOK, Running
  PROVE  /\ Head(todo) \in Prim /\ Head(todo).n \in Nat
         /\ Tail(todo) \in Seq(Prim) /\ Len(todo) \in Nat \ {0}
         /\ Tail(todo) = <<>> => Len(todo) = 1
         /\ Len(todo) = 1 => Tail(todo) = <<>>
<1>1. todo \in Seq(Prim) /\ todo # <<>>
  BY DEF TypeOK, Running
<1>2. Len(todo) \in Nat \ {0} /\ Head(todo) \in Prim
  BY <1>1
<1>3. Tail(todo) \in Seq(Prim) /\ Len(Tail(todo)) = Len(todo) - 1
  BY <1>1, HeadTailProperties
<1>4. Head(todo).n \in Nat
  BY <1>2 DEF Prim
<1>5. Tail(todo) = <<>> => Len(Tail(todo)) = 0
  BY EmptySeq
<1>6. Len(Tail(todo)) = 0 => Tail(todo) = <<>>
  BY <1>3, EmptySeq
<1> QED
  BY <1>2, <1>3, <1>4, <1>5, <1>6

LEMMA CurrentCall ==
  ASSUME Typed, Running
  PROVE  /\ cur \in 1..Len(calls) /\ cur \in Nat /\ cur > epoch /\ epoch \in Nat
         /\ calls[cur] \in CallRec /\ calls[cur].st = "running"
         /\ calls[cur].at \in Nat /\ calls[cur].asked \in Nat
         /\ calls[cur].done \in Nat /\ calls[cur].good \in Nat
<1>1. cur \in 1..Len(calls) /\ cur > epoch /\ epoch \in Nat /\ calls[cur].st = "running"
  BY DEF Typed, TypeOK, Busy, cur
<1>2. calls[cur] \in CallRec
  BY <1>1 DEF Typed, TypeOK
<1> QED
  BY <1>1, <1>2 DEF CallRec

(* Advance and Fail keep the history well typed, and end the call exactly  *)
(* when nothing is left to do.                                             *)
LEMMA CallAfterTyped ==
  ASSUME Typed, Running, NEW k \in Nat, NEW j \in Nat, NEW st \in Status,
         calls' = [calls EXCEPT ![cur] = CallAfter(k, j, st)], epoch' = epoch
  PROVE  /\ calls' \in Seq(CallRec)
         /\ Len(calls') = Len(calls) /\ cur' = cur /\ epoch' \in 0..Len(calls')
         /\ cur \in 1..Len(calls) /\ calls'[cur] = CallAfter(k, j, st)
         /\ \A c \in 1..Len(calls) : c # cur => calls'[c] = calls[c]
<1>1. cur \in 1..Len(calls) /\ calls \in Seq(CallRec)
  BY DEF Typed, TypeOK, Busy, cur
<1>2. calls[cur] \in CallRec
  BY <1>1
<1>3. Head(todo).n \in Nat
  BY HeadTodo DEF Typed
<1>4. CallAfter(k, j, st) \in CallRec
  BY <1>2, <1>3 DEF CallRec, CallAfter
<1> QED
  BY <1>1, <1>4 DEF Typed, TypeOK, Busy, cur

LEMMA AdvanceTyped ==
  ASSUME Typed, Running, NEW k \in Nat, Advance(k), epoch' = epoch
  PROVE  HistoryOK' /\ flushed' = FALSE
<1> DEFINE st == IF Len(todo) = 1 THEN "ok" ELSE "running"
<1>1. st \in Status
  BY DEF Status
<1>2. calls' = [calls EXCEPT ![cur] = CallAfter(k, 0, st)]
  BY DEF Advance
<1>3. /\ calls' \in Seq(CallRec)
      /\ cur' = cur /\ epoch' \in 0..Len(calls')
      /\ calls'[cur] = CallAfter(k, 0, st)
  BY <1>1, <1>2, CallAfterTyped
<1>4. Running' => calls'[cur].st = "running"
  BY <1>3, HeadTodo DEF Running, Advance, Typed, CallAfter
<1> QED
  BY <1>3, <1>4, HeadTodo DEF Advance, Typed, Busy, HistoryOK

LEMMA FailTyped ==
  ASSUME Typed, Running, NEW k \in Nat, NEW j \in Nat, Fail(k, j), epoch' = epoch
  PROVE  HistoryOK' /\ flushed' = FALSE
<1>1. "err" \in Status /\ calls' = [calls EXCEPT ![cur] = CallAfter(k, j, "err")]
  BY DEF Status, Fail
<1>2. calls' \in Seq(CallRec) /\ epoch' \in 0..Len(calls')
  BY <1>1, CallAfterTyped
<1> QED
  BY <1>2 DEF Fail, Running, HistoryOK

(* A function on 1..n with values in S is a sequence over S.               *)
LEMMA FunctionIsSeq ==
  ASSUME NEW S, NEW n \in Nat, NEW f \in [1..n -> S]
  PROVE  f \in Seq(S) /\ Len(f) = n
OBVIOUS

(* The running call's bytes, in a buffer and on their own.                 *)
LEMMA FillTyped ==
  ASSUME Typed, Running, NEW at \in Nat, NEW k \in Nat
  PROVE  /\ Fill(at, k) \in Seq(Byte) /\ Len(Fill(at, k)) = Len(buf)
         /\ \A i \in 1..Len(buf) : i \notin at+1..at+k => Fill(at, k)[i] = buf[i]
         /\ \A i \in 1..k : at + i <= Len(buf) =>
              Fill(at, k)[at + i] = <<cur, calls[cur].done + i>>
<1>1. cur \in Nat /\ calls[cur].done \in Nat /\ buf \in Seq(Byte) /\ Len(buf) \in Nat
  BY CurrentCall DEF Typed, TypeOK
<1>2. \A i \in 1..Len(buf) : Fill(at, k)[i] \in Byte
  <2> SUFFICES ASSUME NEW i \in 1..Len(buf)
               PROVE  Fill(at, k)[i] \in Byte
    OBVIOUS
  <2>1. buf[i] \in Byte
    BY <1>1
  <2>2. CASE i \in at+1..at+k
    <3>1. calls[cur].done + (i - at) \in Nat
      BY <1>1, <2>2
    <3>2. Fill(at, k)[i] = <<cur, calls[cur].done + (i - at)>>
      BY <2>2 DEF Fill
    <3> QED
      BY <1>1, <3>1, <3>2 DEF Byte
  <2>3. CASE i \notin at+1..at+k
    <3>1. Fill(at, k)[i] = buf[i]
      BY <2>3 DEF Fill
    <3> QED
      BY <2>1, <3>1
  <2> QED
    BY <2>2, <2>3
<1>3. Fill(at, k) \in Seq(Byte) /\ Len(Fill(at, k)) = Len(buf)
  <2>1. Fill(at, k) \in [1..Len(buf) -> Byte]
    BY <1>2 DEF Fill
  <2> QED
    BY <1>1, <2>1, FunctionIsSeq
<1>4. \A i \in 1..Len(buf) : i \notin at+1..at+k => Fill(at, k)[i] = buf[i]
  BY <1>1 DEF Fill
<1>5. \A i \in 1..k : at + i <= Len(buf) =>
        Fill(at, k)[at + i] = <<cur, calls[cur].done + i>>
  BY <1>1 DEF Fill
<1> QED
  BY <1>3, <1>4, <1>5

LEMMA FreshTyped ==
  ASSUME Typed, Running, NEW k \in Nat
  PROVE  /\ Fresh(k) \in Seq(Byte) /\ Len(Fresh(k)) = k
         /\ \A i \in 1..k : Fresh(k)[i] = <<cur, calls[cur].done + i>>
<1>1. cur \in Nat /\ calls[cur].done \in Nat
  BY CurrentCall
<1>2. \A i \in 1..k : Fresh(k)[i] \in Byte
  BY <1>1 DEF Fresh, Byte
<1>3. Fresh(k) \in Seq(Byte) /\ Len(Fresh(k)) = k
  <2>1. Fresh(k) \in [1..k -> Byte]
    BY <1>2 DEF Fresh
  <2> QED
    BY <2>1, FunctionIsSeq
<1> QED
  BY <1>3 DEF Fresh

(* Flush's shift: wLoc = copy(buf, buf[n:wLoc]).                           *)
LEMMA ShiftTyped ==
  ASSUME TypeOK, NEW n \in 0..wLoc
  PROVE  /\ Shifted(n) \in Seq(Byte) /\ Len(Shifted(n)) = Len(buf)
         /\ \A i \in 1..(wLoc - n) : Shifted(n)[i] = buf[i + n]
<1>1. buf \in Seq(Byte) /\ Len(buf) \in Nat /\ wLoc \in 0..Len(buf)
  BY DEF TypeOK
<1>2. \A i \in 1..Len(buf) : Shifted(n)[i] \in Byte
  BY <1>1 DEF Shifted
<1>3. Shifted(n) \in Seq(Byte) /\ Len(Shifted(n)) = Len(buf)
  <2>1. Shifted(n) \in [1..Len(buf) -> Byte]
    BY <1>2 DEF Shifted
  <2> QED
    BY <1>1, <2>1, FunctionIsSeq
<1> QED
  BY <1>1, <1>3 DEF Shifted

-----------------------------------------------------------------------------
LEMMA InitTyped == Init => Typed
<1> SUFFICES ASSUME Init PROVE Typed
  OBVIOUS
<1>1. NewWriterSize(Size) \in Nat /\ NewWriterSize(Size) >= MinBuffer
  BY WriterAssumption DEF NewWriterSize, MinBuffer
<1>2. Zero \in Byte
  BY DEF Zero, Byte
<1>3. buf \in Seq(Byte) /\ Len(buf) = NewWriterSize(Size)
  BY <1>1, <1>2 DEF Init
<1>4. BufferOK
  BY <1>1, <1>3, WriterAssumption, EmptySeq DEF Init, BufferOK, MinBuffer
<1>5. HistoryOK /\ flushed = FALSE
  BY EmptySeq DEF Init, HistoryOK, Running
<1> QED
  BY <1>4, <1>5 DEF HistoryOK, BufferOK, Typed, TypeOK, Busy

LEMMA NextTyped == Typed /\ [Next]_vars => Typed'
<1> SUFFICES ASSUME Typed, [Next]_vars PROVE Typed'
  OBVIOUS
<1>0. TypeOK /\ Busy /\ wLoc \in Nat
  BY DEF Typed, TypeOK
<1>1. ASSUME NEW c \in Ops, Call(c) PROVE Typed'
  <2>1. c \in Seq(Prim)
    BY <1>0, WriterAssumption
  <2>2. Len(Out) \in Nat
    BY <1>0, OutShape DEF TypeOK, Out
  <2> DEFINE new == [at |-> Len(Out), ops |-> c, asked |-> 0,
                     done |-> 0, good |-> 0, st |-> "running"]
  <2>3. new \in CallRec
    BY <1>0, <2>2 DEF CallRec, Status
  <2> HIDE DEF new
  <2>4. calls \in Seq(CallRec) /\ calls' = Append(calls, new)
    BY <1>0, <1>1 DEF Call, TypeOK, new
  <2>5. /\ calls' \in Seq(CallRec) /\ Len(calls') = Len(calls) + 1
        /\ calls'[Len(calls) + 1] = new
    BY <1>0, <2>3, <2>4
  <2>6. epoch' \in 0..Len(calls') /\ cur' > epoch' /\ calls'[cur'].st = "running"
    BY <1>0, <1>1, <2>5 DEF Call, TypeOK, cur, new
  <2> QED
    BY <1>0, <1>1, <2>1, <2>5, <2>6 DEF Call, Typed, TypeOK, Busy
<1>2. ASSUME FlushNothing PROVE Typed'
  BY <1>0, <1>2 DEF FlushNothing, Typed, TypeOK, Busy, Running, cur
<1>3. ASSUME FlushBuffer PROVE Typed'
  <2>1. PICK r \in SinkTakes(wLoc) :
          /\ Count(r, wLoc)
          /\ sink' = sink \o SubSeq(buf, 1, r.n)
          /\ \/ r.err /\ r.n > 0 /\ buf' = Shifted(r.n) /\ wLoc' = wLoc - r.n /\ Fail(0, 0)
             \/ UNCHANGED <<buf, wLoc>> /\ Fail(0, 0)
             \/ wLoc' = 0 /\ flushed' = TRUE /\ UNCHANGED <<buf, calls, todo>>
    BY <1>0, <1>3 DEF FlushBuffer, Shifted
  <2>2. wLoc \in Nat /\ Running /\ epoch' = epoch
    BY <1>0, <1>3 DEF FlushBuffer, TypeOK
  <2>3. r.n \in 0..wLoc /\ faults' \in 0..MaxFaults /\ honest' \in BOOLEAN
    BY <1>0, <2>1, <2>2, SinkAnswer, CountTyped
  <2>4. sink' \in Seq(Byte)
    BY <1>0, <2>1, <2>3, OutShape DEF TypeOK
  <2>5. CASE buf' = Shifted(r.n) /\ wLoc' = wLoc - r.n /\ Fail(0, 0)
    <3>1. BufferOK'
      BY <1>0, <2>2, <2>3, <2>4, <2>5, ShiftTyped, SMTT(40) DEF TypeOK, BufferOK
    <3> QED
      BY <1>0, <2>2, <2>5, <3>1, FailTyped, Halves
  <2>6. CASE UNCHANGED <<buf, wLoc>> /\ Fail(0, 0)
    <3>1. BufferOK'
      BY <1>0, <2>2, <2>3, <2>4, <2>6 DEF TypeOK, BufferOK
    <3> QED
      BY <1>0, <2>2, <2>6, <3>1, FailTyped, Halves
  <2>7. CASE wLoc' = 0 /\ flushed' = TRUE /\ UNCHANGED <<buf, calls, todo>>
    BY <1>0, <2>2, <2>3, <2>4, <2>7 DEF Typed, TypeOK, Busy, Running, cur
  <2> QED
    BY <1>0, <2>1, <2>5, <2>6, <2>7
<1>4. ASSUME PutIndexed PROVE Typed'
  <2>1. Running /\ epoch' = epoch
    BY <1>0, <1>4 DEF PutIndexed, Ready
  <2> DEFINE n == Head(todo).n
  <2>2. n \in Nat /\ n <= OpenSpace /\ buf' = Fill(wLoc, n) /\ wLoc' = wLoc + n /\ Advance(n)
    BY <1>0, <1>4, <2>1, HeadTodo DEF PutIndexed
  <2>3. buf' \in Seq(Byte) /\ Len(buf') = Len(buf)
    BY <1>0, <2>1, <2>2, FillTyped
  <2>4. BufferOK'
    BY <1>0, <1>4, <2>2, <2>3 DEF PutIndexed, TypeOK, OpenSpace, BufferOK
  <2> QED
    BY <1>0, <2>1, <2>2, <2>4, AdvanceTyped, Halves
<1>5. ASSUME PutCopied PROVE Typed'
  <2>1. Running /\ epoch' = epoch
    BY <1>0, <1>5 DEF PutCopied, Ready
  <2> DEFINE n == Head(todo).n
             k == IF n <= OpenSpace THEN n ELSE OpenSpace
  <2>2. n \in Nat /\ buf' = Fill(wLoc, k) /\ wLoc' = wLoc + k /\ Advance(k)
    BY <1>0, <1>5, <2>1, HeadTodo DEF PutCopied
  <2>3. k \in Nat /\ k <= OpenSpace
    BY <1>0, <2>2 DEF TypeOK, OpenSpace
  <2> HIDE DEF k
  <2>4. buf' \in Seq(Byte) /\ Len(buf') = Len(buf)
    BY <1>0, <2>1, <2>2, <2>3, FillTyped
  <2>5. BufferOK'
    BY <1>0, <1>5, <2>2, <2>3, <2>4 DEF PutCopied, TypeOK, OpenSpace, BufferOK
  <2> QED
    BY <1>0, <2>1, <2>2, <2>3, <2>5, AdvanceTyped, Halves
<1>6. ASSUME PutDirect PROVE Typed'
  <2>1. Running /\ epoch' = epoch /\ UNCHANGED <<buf, wLoc>>
    BY <1>0, <1>6 DEF PutDirect, Ready
  <2> DEFINE n == Head(todo).n
  <2>2. n \in Nat
    BY <1>0, <2>1, HeadTodo
  <2>3. PICK r \in SinkTakes(n) :
          /\ Count(r, n)
          /\ sink' = sink \o Fresh(r.n)
          /\ Fail(r.n, 0) \/ Advance(r.n)
    BY <1>0, <1>6 DEF PutDirect
  <2> HIDE DEF n
  <2>4. r.n \in Nat /\ faults' \in 0..MaxFaults /\ honest' \in BOOLEAN
    <3>1. r.n \in 0..n
      BY <1>0, <2>2, <2>3, SinkAnswer
    <3>2. faults' \in 0..MaxFaults /\ honest' \in BOOLEAN
      BY <1>0, <2>2, <2>3, CountTyped
    <3> QED
      BY <1>0, <2>2, <3>1, <3>2
  <2>5. sink' \in Seq(Byte)
    <3>1. Fresh(r.n) \in Seq(Byte)
      BY <1>0, <2>1, <2>4, FreshTyped
    <3> QED
      BY <1>0, <2>3, <3>1 DEF TypeOK
  <2>6. BufferOK'
    BY <1>0, <2>1, <2>4, <2>5 DEF TypeOK, BufferOK
  <2>7. HistoryOK' /\ flushed' = FALSE
    BY <1>0, <2>1, <2>3, <2>4, FailTyped, AdvanceTyped
  <2> QED
    BY <1>0, <2>6, <2>7, Halves
<1>7. ASSUME ExtBodyInPlace PROVE Typed'
  <2>1. Running /\ epoch' = epoch
    BY <1>0, <1>7 DEF ExtBodyInPlace, Ready
  <2> DEFINE l == Head(todo).n
  <2>2. l \in Nat /\ l <= Len(buf) /\ wLoc' = wLoc + l
    BY <1>0, <1>7, <2>1, HeadTodo DEF ExtBodyInPlace
  <2>3. wLoc + l <= Len(buf)
    BY <1>0, <1>7, <2>1, <2>2 DEF ExtBodyInPlace, Ready, At, NeedsFlush, OpenSpace, TypeOK, Busy
  <2>4. CASE buf' = Fill(wLoc, l) /\ Advance(l)
    <3>1. buf' \in Seq(Byte) /\ Len(buf') = Len(buf)
      BY <1>0, <2>1, <2>2, <2>4, FillTyped
    <3>2. BufferOK'
      BY <1>0, <1>7, <2>2, <2>3, <3>1 DEF ExtBodyInPlace, TypeOK, BufferOK
    <3> QED
      BY <1>0, <2>1, <2>2, <2>4, <3>2, AdvanceTyped, Halves
  <2>5. CASE buf' = buf /\ Fail(0, l)
    <3>1. BufferOK'
      BY <1>0, <1>7, <2>1, <2>2, <2>3, <2>5 DEF ExtBodyInPlace, TypeOK, BufferOK
    <3> QED
      BY <1>0, <2>1, <2>2, <2>5, <3>1, FailTyped, Halves
  <2> QED
    BY <1>0, <1>7, <2>4, <2>5 DEF ExtBodyInPlace
<1>8. ASSUME ExtBodyGrow PROVE Typed'
  <2>1. Running /\ epoch' = epoch
    BY <1>0, <1>8 DEF ExtBodyGrow, Ready
  <2> DEFINE l == Head(todo).n
  <2>2. l \in Nat /\ l > Len(buf)
    BY <1>0, <1>8, <2>1, HeadTodo DEF ExtBodyGrow
  <2>3. CASE buf' = Fresh(l) /\ wLoc' = l /\ Advance(l)
    <3>1. buf' \in Seq(Byte) /\ Len(buf') = l
      BY <1>0, <2>1, <2>2, <2>3, FreshTyped
    <3>2. BufferOK'
      BY <1>0, <1>8, <2>2, <2>3, <3>1 DEF ExtBodyGrow, TypeOK, BufferOK, MinBuffer
    <3> QED
      BY <1>0, <2>1, <2>2, <2>3, <3>2, AdvanceTyped, Halves
  <2>4. CASE UNCHANGED <<buf, wLoc>> /\ Fail(0, 0)
    <3>1. BufferOK'
      BY <1>0, <1>8, <2>1, <2>2, <2>4 DEF ExtBodyGrow, TypeOK, BufferOK
    <3> QED
      BY <1>0, <2>1, <2>2, <2>4, <3>1, FailTyped, Halves
  <2> QED
    BY <1>0, <1>8, <2>3, <2>4 DEF ExtBodyGrow
<1>9. ASSUME FlushDone PROVE Typed'
  <2>1. BufferOK'
    BY <1>0, <1>9 DEF FlushDone, TypeOK, BufferOK
  <2> QED
    BY <1>0, <1>9, <2>1, AdvanceTyped, Halves DEF FlushDone, Ready
<1>10. ASSUME Unsupported PROVE Typed'
  <2>1. BufferOK'
    BY <1>0, <1>10 DEF Unsupported, TypeOK, BufferOK
  <2> QED
    BY <1>0, <1>10, <2>1, FailTyped, Halves DEF Unsupported, Ready
<1>11. ASSUME Reset PROVE Typed'
  BY <1>0, <1>11, EmptySeq DEF Reset, Typed, TypeOK, Busy, Running, cur
<1>12. CASE UNCHANGED vars
  BY <1>0, <1>12 DEF vars, Typed, TypeOK, Busy, Running, cur
<1> QED
  BY <1>0, <1>1, <1>2, <1>3, <1>4, <1>5, <1>6, <1>7, <1>8, <1>9, <1>10, <1>11, <1>12 DEF Next

(* Type correctness: wLoc stays inside the buffer and the buffer keeps its *)
(* floor whatever is called, however the io.Writer answers.                *)
THEOREM TypeCorrect == Spec => []TypeOK
<1>1. Typed => TypeOK
  BY DEF Typed
<1> QED
  BY InitTyped, NextTyped, <1>1, PTL DEF Spec

-----------------------------------------------------------------------------
(* How one step changes the accepted stream.                               *)

LEMMA OutIs ==
  ASSUME TypeOK
  PROVE  /\ Out \in Seq(Byte) /\ Len(Out) = Len(sink) + wLoc
         /\ sink \in Seq(Byte) /\ Len(sink) \in Nat /\ wLoc \in Nat
         /\ \A i \in 1..Len(sink) : Out[i] = sink[i]
         /\ \A i \in 1..wLoc : Out[Len(sink) + i] = buf[i]
<1>1. sink \in Seq(Byte) /\ buf \in Seq(Byte) /\ wLoc \in 0..Len(buf)
  BY DEF TypeOK
<1>2. Len(sink) \in Nat /\ wLoc \in Nat
  BY <1>1
<1>3. Out = sink \o SubSeq(buf, 1, wLoc)
  BY DEF Out
<1> QED
  BY <1>1, <1>2, <1>3, OutShape

LEMMA OutIsNext ==
  ASSUME TypeOK'
  PROVE  /\ Out' \in Seq(Byte) /\ Len(Out') = Len(sink') + wLoc'
         /\ sink' \in Seq(Byte) /\ Len(sink') \in Nat /\ wLoc' \in Nat
         /\ \A i \in 1..Len(sink') : Out'[i] = sink'[i]
         /\ \A i \in 1..wLoc' : Out'[Len(sink') + i] = buf'[i]
<1>1. sink' \in Seq(Byte) /\ buf' \in Seq(Byte) /\ wLoc' \in 0..Len(buf')
  BY DEF TypeOK
<1>2. Len(sink') \in Nat /\ wLoc' \in Nat
  BY <1>1
<1>3. Out' = sink' \o SubSeq(buf', 1, wLoc')
  BY DEF Out
<1>4. Out' \in Seq(Byte) /\ Len(Out') = Len(sink') + wLoc'
  BY <1>1, <1>3, OutShape
<1>5. \A i \in 1..Len(sink') : Out'[i] = sink'[i]
  BY <1>1, <1>3, OutShape
<1>6. \A i \in 1..wLoc' : Out'[Len(sink') + i] = buf'[i]
  <2>1. \A s, b \in Seq(Byte) : \A w \in 0..Len(b) : \A o :
          o = s \o SubSeq(b, 1, w) => \A i \in 1..w : o[Len(s) + i] = b[i]
    BY OutShape
  <2> QED
    BY <1>1, <1>3, <2>1, ZenonT(40)
<1> QED
  BY <1>1, <1>2, <1>4, <1>5, <1>6

(* The stream keeps what it has and gains k bytes of the running call's    *)
(* encoding, then j others.                                                *)
Growth(k, j) ==
  /\ Len(Out') = Len(Out) + k + j
  /\ \A i \in 1..Len(Out) : Out'[i] = Out[i]
  /\ \A i \in 1..k : Out'[Len(Out) + i] = <<cur, calls[cur].done + i>>

LEMMA SplitIndex ==
  ASSUME NEW a \in Nat, NEW b \in Nat, NEW i \in 1..(a + b)
  PROVE  i \in 1..a \/ \E d \in 1..b : i = a + d
<1> SUFFICES ASSUME i \notin 1..a PROVE \E d \in 1..b : i = a + d
  OBVIOUS
<1>1. i - a \in 1..b /\ i = a + (i - a)
  OBVIOUS
<1> WITNESS i - a \in 1..b
<1> QED
  BY <1>1

(* Bytes stored behind wLoc.                                               *)
LEMMA StoreGrows ==
  ASSUME TypeOK, TypeOK', NEW k \in Nat, NEW j \in Nat,
         sink' = sink, wLoc' = wLoc + k + j,
         \A i \in 1..wLoc : buf'[i] = buf[i],
         \A i \in 1..k : buf'[wLoc + i] = <<cur, calls[cur].done + i>>
  PROVE  Growth(k, j)
<1>1. Len(Out') = Len(Out) + k + j
  BY OutIs, OutIsNext
<1>2. ASSUME NEW i \in 1..Len(Out) PROVE Out'[i] = Out[i]
  <2>1. i \in 1..(Len(sink) + wLoc) /\ Len(sink) \in Nat /\ wLoc \in Nat
    BY OutIs
  <2>2. CASE i \in 1..Len(sink)
    BY <2>2, OutIs, OutIsNext
  <2>3. CASE \E d \in 1..wLoc : i = Len(sink) + d
    <3>1. PICK d \in 1..wLoc : i = Len(sink) + d
      BY <2>3
    <3>2. d \in 1..wLoc'
      BY <2>1, <3>1
    <3>3. Out[Len(sink) + d] = buf[d] /\ Out'[Len(sink') + d] = buf'[d]
      BY <3>1, <3>2, OutIs, OutIsNext
    <3> QED
      BY <3>1, <3>3
  <2> QED
    BY <2>1, <2>2, <2>3, SplitIndex
<1>3. ASSUME NEW i \in 1..k PROVE Out'[Len(Out) + i] = <<cur, calls[cur].done + i>>
  <2>1. Len(sink) \in Nat /\ wLoc \in Nat /\ Len(Out) = Len(sink) + wLoc
    BY OutIs
  <2>2. wLoc + i \in 1..wLoc' /\ Len(Out) + i = Len(sink) + (wLoc + i)
    BY <2>1
  <2>3. Out'[Len(sink') + (wLoc + i)] = buf'[wLoc + i]
    BY <2>2, OutIsNext
  <2> QED
    BY <2>2, <2>3
<1> QED
  BY <1>1, <1>2, <1>3 DEF Growth

(* Bytes handed to the io.Writer past an empty buffer.                     *)
LEMMA DirectGrows ==
  ASSUME TypeOK, TypeOK', NEW k \in Nat, wLoc = 0, wLoc' = 0,
         NEW t \in Seq(Byte), Len(t) = k, sink' = sink \o t,
         \A i \in 1..k : t[i] = <<cur, calls[cur].done + i>>
  PROVE  Growth(k, 0)
<1>1. sink \in Seq(Byte) /\ Len(sink) \in Nat /\ Len(Out) = Len(sink)
  BY OutIs
<1>2. Len(sink') = Len(sink) + k /\ Len(Out') = Len(sink')
  <2>1. Len(sink \o t) = Len(sink) + Len(t)
    BY <1>1, ConcatProperties
  <2>2. Len(Out') = Len(sink')
    BY OutIsNext
  <2> QED
    BY <2>1, <2>2
<1>3. \A i \in 1..Len(sink) : sink'[i] = sink[i]
  BY <1>1
<1>4. \A i \in 1..k : sink'[Len(sink) + i] = t[i]
  BY <1>1
<1>5. \A i \in 1..Len(sink') : Out'[i] = sink'[i]
  BY OutIsNext
<1>6. \A i \in 1..Len(sink) : Out[i] = sink[i]
  BY OutIs
<1>7. \A i \in 1..Len(Out) : Out'[i] = Out[i]
  BY <1>1, <1>2, <1>3, <1>5, <1>6
<1>8. \A i \in 1..k : Out'[Len(Out) + i] = <<cur, calls[cur].done + i>>
  BY <1>1, <1>2, <1>4, <1>5, SMTT(40)
<1>9. Len(Out') = Len(Out) + k + 0
  BY <1>1, <1>2
<1> QED
  BY <1>7, <1>8, <1>9, Zenon DEF Growth

(* A Flush, complete or cut short by an error, moves bytes from the buffer *)
(* to the io.Writer and leaves the stream as it was.                       *)
LEMMA FlushKeeps ==
  ASSUME TypeOK, TypeOK', NEW n \in 0..wLoc,
         sink' = sink \o SubSeq(buf, 1, n), wLoc' = wLoc - n,
         \A i \in 1..(wLoc - n) : buf'[i] = buf[i + n]
  PROVE  Growth(0, 0)
<1> DEFINE t == SubSeq(buf, 1, n)
<1>1. /\ sink \in Seq(Byte) /\ Len(sink) \in Nat /\ wLoc \in Nat
      /\ buf \in Seq(Byte) /\ n \in 0..Len(buf) /\ n \in Nat
  BY OutIs DEF TypeOK
<1>2. /\ Len(sink') = Len(sink) + n
      /\ \A i \in 1..Len(sink) : sink'[i] = sink[i]
      /\ \A i \in 1..n : sink'[Len(sink) + i] = buf[i]
  BY <1>1, OutShape
<1>3. Len(Out') = Len(Out) + 0 + 0
  BY <1>1, <1>2, OutIs, OutIsNext
<1>4. ASSUME NEW i \in 1..Len(Out) PROVE Out'[i] = Out[i]
  <2>1. i \in 1..(Len(sink) + wLoc)
    BY OutIs
  <2>2. CASE i \in 1..Len(sink)
    <3>1. i \in 1..Len(sink')
      BY <1>1, <1>2, <2>2
    <3>2. Out[i] = sink[i] /\ Out'[i] = sink'[i]
      BY <2>2, <3>1, OutIs, OutIsNext
    <3> QED
      BY <1>2, <2>2, <3>2
  <2>3. CASE \E d \in 1..wLoc : i = Len(sink) + d
    <3>1. PICK d \in 1..wLoc : i = Len(sink) + d
      BY <2>3
    <3>2. Out[i] = buf[d]
      BY <3>1, OutIs
    <3>3. CASE d <= n
      <4>1. d \in 1..n /\ i \in 1..Len(sink')
        BY <1>1, <1>2, <3>1, <3>3
      <4>2. Out'[i] = sink'[i] /\ sink'[i] = buf[d]
        BY <1>2, <3>1, <4>1, OutIsNext
      <4> QED
        BY <3>2, <4>2
    <3>4. CASE d > n
      <4>1. d - n \in 1..wLoc' /\ i = Len(sink') + (d - n) /\ (d - n) + n = d
        BY <1>1, <1>2, <3>1, <3>4
      <4>2. Out'[Len(sink') + (d - n)] = buf'[d - n]
        BY <4>1, OutIsNext
      <4>3. buf'[d - n] = buf[(d - n) + n]
        BY <4>1
      <4> QED
        BY <3>2, <4>1, <4>2, <4>3
    <3> QED
      BY <1>1, <3>1, <3>3, <3>4
  <2> QED
    BY <1>1, <2>1, <2>2, <2>3, SplitIndex
<1> QED
  BY <1>3, <1>4 DEF Growth

-----------------------------------------------------------------------------
(* A primitive that grows the stream by what it records in the history     *)
(* keeps the calls tiling the stream.                                      *)
LEMMA StepFrames ==
  ASSUME Typed, Typed', Running, Framed, epoch' = epoch,
         NEW k \in Nat, NEW j \in Nat, NEW st \in Status, Growth(k, j),
         calls' = [calls EXCEPT ![cur] = CallAfter(k, j, st)],
         k + j <= Head(todo).n,
         st # "err" => j = 0 /\ k = Head(todo).n
  PROVE  Framed'
<1> DEFINE h == Head(todo).n
<1>1. /\ cur' = cur /\ cur \in 1..Len(calls) /\ Len(calls') = Len(calls)
      /\ calls'[cur] = CallAfter(k, j, st)
      /\ \A c \in 1..Len(calls) : c # cur => calls'[c] = calls[c]
  BY CallAfterTyped
<1>2. /\ cur > epoch /\ epoch \in Nat /\ cur \in Nat /\ cur = Len(calls)
      /\ calls[cur].at \in Nat /\ calls[cur].done \in Nat /\ calls[cur].good \in Nat
      /\ calls[cur].asked \in Nat /\ calls[cur].st = "running"
  BY CurrentCall DEF cur
<1>3. h \in Nat
  BY HeadTodo DEF Typed
<1>4. /\ calls'[cur].at = calls[cur].at /\ calls'[cur].done = calls[cur].done + k + j
      /\ calls'[cur].good = calls[cur].good + k /\ calls'[cur].asked = calls[cur].asked + h
      /\ calls'[cur].st = st
  BY <1>1 DEF CallAfter
<1>5. Current' = Current /\ Current = epoch+1..cur
  BY <1>1, <1>2 DEF Current
<1>6. Len(Out) = calls[cur].at + calls[cur].done
  BY <1>2 DEF Framed, Tiled
<1>7. calls[cur].good = calls[cur].done /\ calls[cur].done = calls[cur].asked
  BY <1>2, <1>5 DEF Framed, Complete
<1> DEFINE a == calls[cur].at
           d == calls[cur].done
<1>a. a \in Nat /\ d \in Nat /\ Len(Out) = a + d /\ calls[cur].good = d
  BY <1>2, <1>6, <1>7
<1>b. calls'[cur].at = a /\ calls'[cur].done = d + k + j /\ calls'[cur].good = d + k
  BY <1>4, <1>7
<1>c. Len(Out') = Len(Out) + k + j
  BY DEF Growth
<1>d. calls[cur].good = d
  BY <1>7
<1> HIDE DEF a, d
<1>8. Tiled'
  <2>1. Len(Out') = calls'[cur].at + calls'[cur].done
    BY <1>a, <1>b, <1>c
  <2>2. ASSUME NEW c \in Current
        PROVE  calls'[c].at = IF c = epoch + 1 THEN 0 ELSE calls'[c-1].at + calls'[c-1].done
    <3>1. calls[c].at = IF c = epoch + 1 THEN 0 ELSE calls[c-1].at + calls[c-1].done
      BY DEF Framed, Tiled
    <3>2. calls'[c].at = calls[c].at
      BY <1>1, <1>2, <1>4, <1>5
    <3>3. c # epoch + 1 => calls'[c-1] = calls[c-1]
      BY <1>1, <1>2, <1>5
    <3> QED
      BY <3>1, <3>2, <3>3
  <2>3. ASSUME NEW c \in Current PROVE calls'[c].at + calls'[c].done <= Len(Out')
    <3>1. calls[c].at + calls[c].done <= Len(Out) /\ calls[c] \in CallRec
      BY <1>2, <1>5 DEF Framed, Tiled, Typed, TypeOK
    <3>2. calls[c].at \in Nat /\ calls[c].done \in Nat
      BY <3>1 DEF CallRec
    <3>3. Len(Out) <= Len(Out') /\ Len(Out) \in Nat
      BY <1>2, <1>6 DEF Growth
    <3>4. CASE c = cur
      BY <1>2, <1>4, <2>1, <3>4
    <3>5. CASE c # cur
      <4>1. calls'[c] = calls[c]
        BY <1>1, <1>2, <1>5, <3>5
      <4>2. Len(Out') \in Nat
        BY <1>2, <1>4, <2>1
      <4> QED
        BY <3>1, <3>2, <3>3, <4>1, <4>2
    <3> QED
      BY <3>4, <3>5
  <2> QED
    BY <1>1, <1>2, <1>5, <2>1, <2>2, <2>3 DEF Tiled
<1>9. Complete'
  <2>1. ASSUME NEW c \in Current
        PROVE  /\ calls'[c].st # "err" =>
                    calls'[c].good = calls'[c].done /\ calls'[c].done = calls'[c].asked
               /\ calls'[c].good <= calls'[c].done /\ calls'[c].done <= calls'[c].asked
    <3>1. CASE c = cur
      BY <1>2, <1>3, <1>4, <1>7, <3>1
    <3>2. CASE c # cur
      BY <1>1, <1>2, <1>5, <3>2 DEF Framed, Complete
    <3> QED
      BY <3>1, <3>2
  <2> QED
    BY <1>5, <2>1 DEF Complete
<1>10. InPlace'
  <2>1. ASSUME NEW c \in Current, NEW i \in 1..calls'[c].good
        PROVE  Out'[calls'[c].at + i] = <<c, i>>
    <3>1. CASE c # cur
      <4>1. calls'[c] = calls[c] /\ calls[c] \in CallRec
        BY <1>1, <1>2, <1>5, <3>1 DEF Typed, TypeOK
      <4>2. Out[calls[c].at + i] = <<c, i>>
        BY <2>1, <4>1 DEF Framed, InPlace
      <4>3. calls[c].at + i \in 1..Len(Out)
        <5>1. calls[c].at \in Nat /\ calls[c].done \in Nat /\ calls[c].good \in Nat
          BY <4>1 DEF CallRec
        <5>2. calls[c].at + calls[c].done <= Len(Out) /\ calls[c].good <= calls[c].done
          BY DEF Framed, Tiled, Complete
        <5> QED
          BY <1>a, <2>1, <4>1, <5>1, <5>2
      <4> QED
        BY <4>1, <4>2, <4>3 DEF Growth
    <3>2. CASE c = cur /\ i <= calls[cur].good
      <4>1. i \in 1..calls[cur].good /\ cur \in Current
        BY <1>a, <1>d, <2>1, <3>2
      <4>2. Out[calls[cur].at + i] = <<cur, i>>
        BY <4>1 DEF Framed, InPlace
      <4>3. a + i \in 1..Len(Out)
        BY <1>a, <1>d, <4>1
      <4> QED
        BY <1>b, <3>2, <4>2, <4>3 DEF Growth, a
    <3>3. CASE c = cur /\ i > calls[cur].good
      <4>1. i \in 1..(d + k) /\ i > d
        BY <1>b, <1>d, <2>1, <3>3
      <4>2. i - d \in 1..k /\ a + i = Len(Out) + (i - d) /\ d + (i - d) = i
        BY <1>a, <4>1
      <4>3. Out'[Len(Out) + (i - d)] = <<cur, d + (i - d)>>
        BY <4>2 DEF Growth, d
      <4> QED
        BY <1>b, <3>3, <4>2, <4>3
    <3> QED
      BY <1>a, <1>b, <1>d, <2>1, <3>1, <3>2, <3>3
  <2> QED
    BY <1>5, <2>1 DEF InPlace
<1> QED
  BY <1>8, <1>9, <1>10 DEF Framed

-----------------------------------------------------------------------------
(* The buffer never shrinks and what is left to do was well sized when the *)
(* call began.                                                             *)
Sized ==
  /\ Len(buf) >= NewWriterSize(Size)
  /\ \A i \in 1..Len(todo) : WellSized(todo[i], NewWriterSize(Size))

LEMMA SizedHead ==
  ASSUME TypeOK, Sized, Running
  PROVE  WellSized(Head(todo), NewWriterSize(Size))
<1>1. todo \in Seq(Prim) /\ Len(todo) > 0 /\ Head(todo) = todo[1]
  BY HeadTodo DEF TypeOK
<1> QED
  BY <1>1 DEF Sized

LEMMA BufferNeverShrinks ==
  ASSUME Typed, [Next]_vars
  PROVE  Len(buf') >= Len(buf)
<1>0. wLoc \in Nat /\ Len(buf) \in Nat /\ TypeOK
  BY DEF Typed, TypeOK
<1>1. CASE UNCHANGED buf
  BY <1>0, <1>1
<1>2. ASSUME Running, NEW n \in Nat, buf' = Fill(wLoc, n) PROVE Len(buf') = Len(buf)
  BY <1>0, <1>2, FillTyped
<1>3. ASSUME FlushBuffer PROVE Len(buf') >= Len(buf)
  <2>1. PICK r \in SinkTakes(wLoc) : buf' = Shifted(r.n) \/ buf' = buf
    BY <1>3 DEF FlushBuffer, Shifted
  <2>2. r.n \in 0..wLoc
    BY <1>0, SinkAnswer
  <2> QED
    BY <1>0, <2>1, <2>2, ShiftTyped
<1>4. ASSUME PutIndexed PROVE Len(buf') >= Len(buf)
  <2>1. Running /\ Head(todo).n \in Nat
    BY <1>0, <1>4, HeadTodo DEF PutIndexed, Ready
  <2> QED
    BY <1>0, <1>2, <1>4, <2>1 DEF PutIndexed
<1>5. ASSUME PutCopied PROVE Len(buf') >= Len(buf)
  <2> DEFINE n == Head(todo).n
             k == IF n <= OpenSpace THEN n ELSE OpenSpace
  <2>1. Running /\ n \in Nat
    BY <1>0, <1>5, HeadTodo DEF PutCopied, Ready
  <2>2. k \in Nat /\ buf' = Fill(wLoc, k)
    BY <1>0, <1>5, <2>1 DEF PutCopied, OpenSpace, TypeOK
  <2> QED
    BY <1>0, <1>2, <2>1, <2>2
<1>6. ASSUME ExtBodyInPlace PROVE Len(buf') >= Len(buf)
  <2>1. Running /\ Head(todo).n \in Nat
    BY <1>0, <1>6, HeadTodo DEF ExtBodyInPlace, Ready
  <2> QED
    BY <1>0, <1>2, <1>6, <2>1 DEF ExtBodyInPlace
<1>7. ASSUME ExtBodyGrow PROVE Len(buf') >= Len(buf)
  <2>1. Running /\ Head(todo).n \in Nat /\ Head(todo).n > Len(buf)
    BY <1>0, <1>7, HeadTodo DEF ExtBodyGrow, Ready
  <2>2. Len(Fresh(Head(todo).n)) = Head(todo).n
    BY <2>1, FreshTyped
  <2> QED
    BY <1>0, <1>1, <1>7, <2>1, <2>2 DEF ExtBodyGrow
<1> QED
  BY <1>1, <1>3, <1>4, <1>5, <1>6, <1>7
     DEF Next, Call, FlushNothing, PutDirect, FlushDone, Unsupported, Reset, vars

LEMMA TodoShrinks ==
  ASSUME TypeOK, [Next]_vars
  PROVE  \/ todo' = todo \/ todo' = <<>> \/ (Running /\ todo' = Tail(todo))
         \/ todo' \in Ops
BY DEF Next, Call, FlushNothing, FlushBuffer, PutIndexed, PutCopied, PutDirect,
       ExtBodyInPlace, ExtBodyGrow, FlushDone, Unsupported, Reset, vars,
       Ready, Advance, Fail

LEMMA InitSized == Init => Sized
BY WriterAssumption DEF Init, Sized, NewWriterSize, MinBuffer

LEMMA NextSized ==
  ASSUME CallsFit, Typed, Sized, [Next]_vars
  PROVE  Sized'
<1>0. /\ NewWriterSize(Size) \in Nat /\ Len(buf) \in Nat /\ TypeOK
      /\ todo \in Seq(Prim) /\ TypeOK'
  BY WriterAssumption, NextTyped DEF NewWriterSize, MinBuffer, Typed, TypeOK
<1>1. Len(buf') >= NewWriterSize(Size)
  <2>1. Len(buf') \in Nat
    BY <1>0 DEF TypeOK
  <2> QED
    BY <1>0, <2>1, BufferNeverShrinks DEF Sized
<1>2. ASSUME NEW i \in 1..Len(todo') PROVE WellSized(todo'[i], NewWriterSize(Size))
  <2>1. CASE todo' = todo
    BY <2>1 DEF Sized
  <2>2. CASE todo' = <<>>
    BY <2>2
  <2>3. CASE Running /\ todo' = Tail(todo)
    <3>1. i + 1 \in 1..Len(todo) /\ todo'[i] = todo[i + 1]
      BY <1>0, <2>3, HeadTailProperties DEF Running
    <3> QED
      BY <3>1 DEF Sized
  <2>4. CASE todo' \in Ops
    BY <2>4 DEF CallsFit
  <2> QED
    BY <1>0, <2>1, <2>2, <2>3, <2>4, TodoShrinks
<1> QED
  BY <1>1, <1>2 DEF Sized

-----------------------------------------------------------------------------
(* Each action, seen as growth of the stream.                              *)

(* The io.Writer took a part of the buffer and returned nil: Flush leaves   *)
(* the buffer alone and returns an error.                                  *)
ShortFlush ==
  /\ ~honest' /\ Running /\ epoch' = epoch
  /\ buf' = buf /\ wLoc' = wLoc
  /\ \E m \in 0..wLoc : sink' = sink \o SubSeq(buf, 1, m)
  /\ Fail(0, 0)

LEMMA FlushBufferQuiet ==
  ASSUME Typed, TypeOK', FlushBuffer, ~ShortFlush
  PROVE  /\ Growth(0, 0) /\ Running /\ epoch' = epoch
         /\ Fail(0, 0) \/ UNCHANGED <<calls, todo>>
<1>0. TypeOK /\ wLoc \in Nat /\ Running /\ epoch' = epoch
      /\ buf \in Seq(Byte) /\ wLoc \in 0..Len(buf)
  BY DEF Typed, TypeOK, FlushBuffer
<1>1. PICK r \in SinkTakes(wLoc) :
        /\ Count(r, wLoc)
        /\ sink' = sink \o SubSeq(buf, 1, r.n)
        /\ \/ r.err /\ r.n > 0 /\ buf' = Shifted(r.n) /\ wLoc' = wLoc - r.n /\ Fail(0, 0)
           \/ r.err /\ r.n = 0 /\ buf' = buf /\ wLoc' = wLoc /\ Fail(0, 0)
           \/ ~r.err /\ r.n < wLoc /\ buf' = buf /\ wLoc' = wLoc /\ Fail(0, 0)
           \/ r.n = wLoc /\ wLoc' = 0 /\ buf' = buf /\ UNCHANGED <<calls, todo>>
  BY DEF FlushBuffer, Shifted
<1>2. r.n \in 0..wLoc /\ (~r.err /\ r.n < wLoc => ~honest')
  <2>1. r.n \in 0..wLoc /\ ((honest' /\ ~r.err) => r.n = wLoc)
    BY <1>0, <1>1, SinkAnswer, CountHonest
  <2> QED
    BY <1>0, <2>1
<1>6. ~(~r.err /\ r.n < wLoc /\ buf' = buf /\ wLoc' = wLoc /\ Fail(0, 0))
  BY <1>0, <1>1, <1>2 DEF ShortFlush
<1>3. CASE buf' = Shifted(r.n) /\ wLoc' = wLoc - r.n /\ Fail(0, 0)
  <2>1. \A i \in 1..(wLoc - r.n) : buf'[i] = buf[i + r.n]
    BY <1>0, <1>2, <1>3, ShiftTyped
  <2> QED
    BY <1>0, <1>1, <1>2, <1>3, <2>1, FlushKeeps
<1>4. CASE r.n = 0 /\ buf' = buf /\ wLoc' = wLoc /\ Fail(0, 0)
  <2>1. \A i \in 1..(wLoc - r.n) : buf'[i] = buf[i + r.n]
    BY <1>0, <1>2, <1>4
  <2>2. wLoc' = wLoc - r.n
    BY <1>0, <1>4
  <2> QED
    BY <1>0, <1>1, <1>2, <1>4, <2>1, <2>2, FlushKeeps
<1>5. CASE r.n = wLoc /\ wLoc' = 0 /\ buf' = buf /\ UNCHANGED <<calls, todo>>
  <2>1. \A i \in 1..(wLoc - r.n) : buf'[i] = buf[i + r.n]
    BY <1>0, <1>5
  <2>2. wLoc' = wLoc - r.n
    BY <1>0, <1>5
  <2> QED
    BY <1>0, <1>1, <1>2, <1>5, <2>1, <2>2, FlushKeeps
<1> QED
  BY <1>1, <1>2, <1>3, <1>4, <1>5, <1>6

LEMMA PutGrows ==
  ASSUME Typed, TypeOK', Running, NEW k \in Nat, wLoc + k <= Len(buf),
         buf' = Fill(wLoc, k), wLoc' = wLoc + k, sink' = sink
  PROVE  Growth(k, 0)
<1>0. TypeOK /\ wLoc \in Nat /\ Len(buf) \in Nat /\ wLoc <= Len(buf)
  BY DEF Typed, TypeOK
<1>1. \A i \in 1..wLoc : buf'[i] = buf[i]
  <2>1. \A i \in 1..Len(buf) : i \notin wLoc+1..wLoc+k => Fill(wLoc, k)[i] = buf[i]
    BY <1>0, FillTyped
  <2> QED
    BY <1>0, <2>1
<1>2. \A i \in 1..k : buf'[wLoc + i] = <<cur, calls[cur].done + i>>
  <2>1. \A i \in 1..k : wLoc + i <= Len(buf) =>
          Fill(wLoc, k)[wLoc + i] = <<cur, calls[cur].done + i>>
    BY <1>0, FillTyped
  <2>2. \A i \in 1..k : wLoc + i <= Len(buf)
    BY <1>0
  <2> QED
    BY <2>1, <2>2, Zenon
<1>3. wLoc' = wLoc + k + 0
  BY <1>0
<1> QED
  BY <1>0, <1>1, <1>2, <1>3, StoreGrows

(* The inductive invariant: types, sizes, and the calls tiling the stream. *)
Inductive == Typed /\ Sized /\ Framing

LEMMA AdvanceFrames ==
  ASSUME Typed, Typed', Running, Framed, epoch' = epoch,
         NEW k \in Nat, Growth(k, 0), Advance(k), k = Head(todo).n
  PROVE  Framed'
<1> DEFINE st == IF Len(todo) = 1 THEN "ok" ELSE "running"
<1>1. st \in Status /\ st # "err"
  BY DEF Status
<1>2. calls' = [calls EXCEPT ![cur] = CallAfter(k, 0, st)]
  BY DEF Advance
<1>3. k + 0 <= Head(todo).n
  OBVIOUS
<1> HIDE DEF st
<1> QED
  BY <1>1, <1>2, <1>3, StepFrames

LEMMA FailFrames ==
  ASSUME Typed, Typed', Running, Framed, epoch' = epoch,
         NEW k \in Nat, NEW j \in Nat, Growth(k, j), Fail(k, j),
         k + j <= Head(todo).n
  PROVE  Framed'
<1>1. "err" \in Status
  BY DEF Status
<1>2. calls' = [calls EXCEPT ![cur] = CallAfter(k, j, "err")]
  BY DEF Fail
<1> QED
  BY <1>1, <1>2, StepFrames

(* Nothing is recorded and the stream is the same.                         *)
LEMMA QuietFrames ==
  ASSUME TypeOK, TypeOK', Framed, Growth(0, 0), UNCHANGED <<calls, epoch>>
  PROVE  Framed'
<1>1. Len(Out') = Len(Out) /\ Len(Out) \in Nat
  BY OutIs DEF Growth
<1>2. Current' = Current /\ cur' = cur
  BY DEF Current, cur
<1>3. \A i \in 1..Len(Out) : Out'[i] = Out[i]
  BY DEF Growth
<1>4. Tiled'
  BY <1>1, <1>2 DEF Framed, Tiled
<1>5. Complete'
  BY <1>2 DEF Framed, Complete
<1>6. InPlace'
  <2>1. ASSUME NEW c \in Current, NEW i \in 1..calls[c].good
        PROVE  Out'[calls[c].at + i] = <<c, i>>
    <3>1. calls[c] \in CallRec
      BY DEF Current, TypeOK
    <3>2. calls[c].at \in Nat /\ calls[c].done \in Nat /\ calls[c].good \in Nat
      BY <3>1 DEF CallRec
    <3>3. calls[c].at + calls[c].done <= Len(Out) /\ calls[c].good <= calls[c].done
      BY DEF Framed, Tiled, Complete
    <3>4. calls[c].at + i \in 1..Len(Out)
      BY <1>1, <3>2, <3>3, SMTT(40)
    <3> QED
      BY <1>3, <3>4 DEF Framed, InPlace
  <2> QED
    BY <1>2, <2>1 DEF InPlace
<1> QED
  BY <1>4, <1>5, <1>6 DEF Framed

LEMMA SameOutQuiet ==
  ASSUME TypeOK, UNCHANGED <<buf, wLoc, sink>>
  PROVE  Growth(0, 0)
<1>1. Out' = Out /\ Len(Out) \in Nat
  BY OutIs DEF Out
<1> QED
  BY <1>1 DEF Growth

LEMMA CallFrames ==
  ASSUME Typed, Typed', Framed, NEW c \in Ops, Call(c)
  PROVE  Framed'
<1> DEFINE new == [at |-> Len(Out), ops |-> c, asked |-> 0,
                   done |-> 0, good |-> 0, st |-> "running"]
<1>1. /\ calls' = Append(calls, new) /\ epoch' = epoch /\ calls \in Seq(CallRec)
      /\ UNCHANGED <<buf, wLoc, sink>> /\ TypeOK /\ epoch \in 0..Len(calls)
  BY DEF Call, Typed, TypeOK
<1>2. Out' = Out /\ Len(Out) \in Nat
  BY <1>1, OutIs DEF Out
<1>3. /\ new.at = Len(Out) /\ new.done = 0 /\ new.good = 0 /\ new.asked = 0
      /\ new.st = "running"
  OBVIOUS
<1> HIDE DEF new
<1>4. /\ Len(calls') = Len(calls) + 1 /\ calls'[Len(calls) + 1] = new
      /\ \A d \in 1..Len(calls) : calls'[d] = calls[d]
  BY <1>1
<1>5. /\ cur' = Len(calls) + 1 /\ cur = Len(calls) /\ Len(calls) \in Nat /\ epoch \in Nat
      /\ Current' = epoch+1..Len(calls)+1 /\ Current = epoch+1..Len(calls)
  BY <1>1, <1>4 DEF cur, Current
<1>6. Tiled'
  <2>1. ASSUME NEW d \in Current'
        PROVE  calls'[d].at = IF d = epoch' + 1
                                THEN 0 ELSE calls'[d-1].at + calls'[d-1].done
    <3>1. CASE d \in Current
      <4>1. calls'[d] = calls[d] /\ (d # epoch + 1 => calls'[d-1] = calls[d-1])
        BY <1>4, <1>5, <3>1
      <4> QED
        BY <1>1, <3>1, <4>1 DEF Framed, Tiled
    <3>2. CASE d = Len(calls) + 1 /\ epoch = Len(calls)
      BY <1>1, <1>3, <1>4, <1>5, <3>2 DEF Framed, Tiled
    <3>3. CASE d = Len(calls) + 1 /\ epoch # Len(calls)
      <4>1. d # epoch' + 1 /\ d - 1 = Len(calls) /\ calls'[d-1] = calls[cur]
        BY <1>1, <1>4, <1>5, <3>3
      <4>2. calls'[d].at = Len(Out) /\ Len(Out) = calls[cur].at + calls[cur].done
        BY <1>3, <1>4, <1>5, <3>3 DEF Framed, Tiled
      <4> QED
        BY <4>1, <4>2
    <3> QED
      BY <1>5, <3>1, <3>2, <3>3
  <2>2. ASSUME NEW d \in Current' PROVE calls'[d].at + calls'[d].done <= Len(Out')
    <3>1. CASE d \in Current
      BY <1>2, <1>4, <1>5, <3>1 DEF Framed, Tiled
    <3>2. CASE d = Len(calls) + 1
      BY <1>2, <1>3, <1>4, <3>2
    <3> QED
      BY <1>5, <3>1, <3>2
  <2>3. Len(Out') = calls'[cur'].at + calls'[cur'].done /\ cur' # epoch'
    BY <1>1, <1>2, <1>3, <1>4, <1>5
  <2> QED
    BY <2>1, <2>2, <2>3 DEF Tiled
<1>7. Complete'
  <2>1. ASSUME NEW d \in Current'
        PROVE  /\ calls'[d].st # "err" =>
                    calls'[d].good = calls'[d].done /\ calls'[d].done = calls'[d].asked
               /\ calls'[d].good <= calls'[d].done /\ calls'[d].done <= calls'[d].asked
    <3>1. CASE d \in Current
      BY <1>4, <1>5, <3>1 DEF Framed, Complete
    <3>2. CASE d = Len(calls) + 1
      BY <1>3, <1>4, <3>2
    <3> QED
      BY <1>5, <3>1, <3>2
  <2> QED
    BY <2>1 DEF Complete
<1>8. InPlace'
  <2>1. ASSUME NEW d \in Current', NEW k \in 1..calls'[d].good
        PROVE  Out'[calls'[d].at + k] = <<d, k>>
    <3>1. CASE d \in Current
      <4>1. calls'[d] = calls[d]
        BY <1>4, <1>5, <3>1
      <4> QED
        BY <1>2, <2>1, <3>1, <4>1 DEF Framed, InPlace
    <3>2. CASE d = Len(calls) + 1
      BY <1>3, <1>4, <2>1, <3>2
    <3> QED
      BY <1>5, <3>1, <3>2
  <2> QED
    BY <2>1 DEF InPlace
<1> QED
  BY <1>6, <1>7, <1>8 DEF Framed

LEMMA ResetFrames ==
  ASSUME Typed, Typed', Reset
  PROVE  Framed'
<1>1. epoch' = Len(calls) /\ cur' = epoch' /\ calls' = calls /\ Len(calls) \in Nat
  BY DEF Reset, cur, Typed, TypeOK
<1>2. Current' = {}
  BY <1>1 DEF Current
<1>3. Len(Out') = 0
  <2>1. Len(Out') = Len(sink') + wLoc' /\ sink' = <<>> /\ wLoc' = 0
    BY OutIsNext DEF Reset, Typed
  <2> QED
    BY <2>1, EmptySeq
<1> QED
  BY <1>1, <1>2, <1>3 DEF Framed, Tiled, InPlace, Complete

-----------------------------------------------------------------------------
(* What every step of a running call amounts to.                           *)
Effect ==
  \E k, j \in Nat :
    /\ Growth(k, j) /\ Running /\ epoch' = epoch
    /\ \/ Advance(k) /\ j = 0 /\ k = Head(todo).n
       \/ Fail(k, j) /\ k + j <= Head(todo).n
       \/ k = 0 /\ j = 0 /\ UNCHANGED <<calls, todo>>

(* The io.Writer took a part of a body larger than the buffer and returned *)
(* nil: Write goes on as if it had taken all of it.                        *)
ShortDirect ==
  /\ ~honest' /\ Running /\ epoch' = epoch
  /\ ~Buffered(todo)
  /\ \E k \in Nat : Growth(k, 0) /\ Advance(k)

LEMMA NextEffect ==
  ASSUME Typed, Sized, Next
  PROVE  Effect \/ ShortFlush \/ ShortDirect \/ Reset \/ \E c \in Ops : Call(c)
<1>0. /\ TypeOK /\ Typed' /\ TypeOK' /\ wLoc \in Nat /\ Len(buf) \in Nat
      /\ wLoc <= Len(buf) /\ NewWriterSize(Size) \in Nat
  BY NextTyped, WriterAssumption DEF Typed, TypeOK, NewWriterSize, MinBuffer
<1> DEFINE n == Head(todo).n
<1>1. Running => n \in Nat
  BY <1>0, HeadTodo
<1>2. ASSUME FlushNothing PROVE Effect
  <2>1. /\ UNCHANGED <<buf, wLoc, sink>> /\ Running /\ epoch' = epoch
        /\ UNCHANGED <<calls, todo>>
    BY <1>2 DEF FlushNothing
  <2>2. Growth(0, 0)
    BY <1>0, <2>1, SameOutQuiet
  <2> QED
    BY <2>1, <2>2 DEF Effect
<1>3. ASSUME FlushBuffer, ~ShortFlush PROVE Effect
  <2>1. /\ Growth(0, 0) /\ Running /\ epoch' = epoch
        /\ Fail(0, 0) \/ UNCHANGED <<calls, todo>>
    BY <1>0, <1>3, FlushBufferQuiet
  <2>2. 0 + 0 <= n
    BY <1>1, <2>1
  <2> QED
    BY <2>1, <2>2 DEF Effect
<1>4. ASSUME PutIndexed PROVE Effect
  <2>1. /\ Running /\ epoch' = epoch /\ sink' = sink /\ n <= OpenSpace
        /\ buf' = Fill(wLoc, n) /\ wLoc' = wLoc + n /\ Advance(n)
    BY <1>4 DEF PutIndexed, Ready
  <2>2. wLoc + n <= Len(buf)
    BY <1>0, <1>1, <2>1 DEF OpenSpace
  <2>3. Growth(n, 0)
    BY <1>0, <1>1, <2>1, <2>2, PutGrows
  <2> QED
    BY <1>1, <2>1, <2>3 DEF Effect
<1>5. ASSUME PutCopied PROVE Effect
  <2>1. /\ Running /\ epoch' = epoch /\ sink' = sink
        /\ flushed \/ ~NeedsFlush
        /\ At({"append"}) \/ n <= Len(buf)
        /\ At(Copied)
    BY <1>5 DEF PutCopied, Ready
  <2>2. n <= OpenSpace
    <3>1. CASE ~NeedsFlush
      BY <1>0, <1>1, <2>1, <3>1 DEF NeedsFlush, At, Copied, OpenSpace
    <3>2. CASE flushed
      <4>1. wLoc = 0
        BY <3>2 DEF Typed, Busy
      <4>2. n <= Len(buf)
        <5>1. CASE At({"append"})
          <6>1. n <= NewWriterSize(Size)
            BY <1>0, <2>1, <5>1, SizedHead DEF WellSized, At
          <6> QED
            BY <1>0, <1>1, <2>1, <6>1 DEF Sized
        <5> QED
          BY <2>1, <5>1
      <4> QED
        BY <1>0, <1>1, <2>1, <4>1, <4>2 DEF OpenSpace
    <3> QED
      BY <2>1, <3>1, <3>2
  <2>3. buf' = Fill(wLoc, n) /\ wLoc' = wLoc + n /\ Advance(n)
    BY <1>5, <2>2 DEF PutCopied
  <2>4. wLoc + n <= Len(buf)
    BY <1>0, <1>1, <2>1, <2>2 DEF OpenSpace
  <2>5. Growth(n, 0)
    BY <1>0, <1>1, <2>1, <2>3, <2>4, PutGrows
  <2> QED
    BY <1>1, <2>1, <2>3, <2>5 DEF Effect
<1>6. ASSUME PutDirect PROVE Effect \/ ShortDirect
  <2>1. /\ Running /\ epoch' = epoch /\ wLoc' = wLoc /\ n > Len(buf)
        /\ flushed \/ ~NeedsFlush
        /\ At({"write", "writeString"})
    BY <1>6 DEF PutDirect, Ready
  <2>2. wLoc = 0
    <3>1. CASE flushed
      BY <3>1 DEF Typed, Busy
    <3>2. CASE ~NeedsFlush
      BY <1>0, <1>1, <2>1, <3>2 DEF NeedsFlush, At, OpenSpace
    <3> QED
      BY <2>1, <3>1, <3>2
  <2>3. PICK r \in SinkTakes(n) :
          /\ Count(r, n)
          /\ sink' = sink \o Fresh(r.n)
          /\ \/ Fail(r.n, 0)
             \/ ~r.err /\ ~ShortIsError(r, n) /\ Advance(r.n)
    BY <1>6 DEF PutDirect
  <2>4. /\ r.n \in 0..n /\ n \in Nat /\ r.n \in Nat /\ r.n <= n
        /\ (honest' /\ ~r.err) => r.n = n
    <3>1. r.n \in 0..n /\ n \in Nat
      BY <1>0, <1>1, <2>1, SinkAnswer
    <3>2. (honest' /\ ~r.err) => r.n = n
      BY <1>0, <2>3, <3>1, CountHonest
    <3> QED
      BY <3>1, <3>2
  <2>6. Growth(r.n, 0)
    <3>1. /\ Fresh(r.n) \in Seq(Byte) /\ Len(Fresh(r.n)) = r.n
          /\ \A i \in 1..r.n : Fresh(r.n)[i] = <<cur, calls[cur].done + i>>
      BY <2>1, <2>4, FreshTyped
    <3> QED
      BY <1>0, <2>1, <2>2, <2>3, <2>4, <3>1, DirectGrows
  <2>7. r.n + 0 <= n
    BY <2>4
  <2>8. CASE Fail(r.n, 0)
    BY <2>1, <2>4, <2>6, <2>7, <2>8 DEF Effect
  <2>9. CASE Advance(r.n) /\ r.n = n
    BY <2>1, <2>4, <2>6, <2>9 DEF Effect
  <2>10. CASE ~r.err /\ ~ShortIsError(r, n) /\ Advance(r.n) /\ r.n # n
    <3>1. ~honest' /\ r.n < n
      BY <2>4, <2>10
    <3>2. Head(todo).op = "write"
      BY <2>1, <2>10, <3>1 DEF ShortIsError, At
    <3>3. todo \in Seq(Prim) /\ Len(todo) \in Nat \ {0} /\ Head(todo) = todo[1]
      BY <1>0, <2>1, HeadTodo DEF TypeOK
    <3>4. ~Buffered(todo)
      BY <1>0, <2>1, <2>4, <3>2, <3>3 DEF Buffered, Sized
    <3> QED
      BY <2>1, <2>4, <2>6, <2>10, <3>1, <3>4 DEF ShortDirect
  <2> QED
    BY <2>3, <2>8, <2>9, <2>10
<1>7. ASSUME ExtBodyInPlace PROVE Effect
  <2>1. /\ Running /\ epoch' = epoch /\ sink' = sink /\ n <= Len(buf) /\ wLoc' = wLoc + n
        /\ \/ buf' = Fill(wLoc, n) /\ Advance(n)
           \/ buf' = buf /\ Fail(0, n)
        /\ flushed \/ ~NeedsFlush
        /\ At({"extBody"})
    BY <1>7 DEF ExtBodyInPlace, Ready
  <2>2. wLoc + n <= Len(buf)
    BY <1>0, <1>1, <2>1 DEF NeedsFlush, At, OpenSpace, Typed, Busy
  <2>3. CASE buf' = Fill(wLoc, n) /\ Advance(n)
    <3>1. Growth(n, 0)
      BY <1>0, <1>1, <2>1, <2>2, <2>3, PutGrows
    <3> QED
      BY <1>1, <2>1, <2>3, <3>1 DEF Effect
  <2>4. CASE buf' = buf /\ Fail(0, n)
    <3>1. Growth(0, n)
      <4>1. wLoc' = wLoc + 0 + n
        BY <1>0, <1>1, <2>1
      <4>2. \A i \in 1..0 : buf'[wLoc + i] = <<cur, calls[cur].done + i>>
        OBVIOUS
      <4> QED
        BY <1>0, <1>1, <2>1, <2>4, <4>1, <4>2, StoreGrows
    <3>2. 0 + n <= n
      BY <1>1, <2>1
    <3> QED
      BY <1>1, <2>1, <2>4, <3>1, <3>2 DEF Effect
  <2> QED
    BY <2>1, <2>3, <2>4
<1>8. ASSUME ExtBodyGrow PROVE Effect
  <2>1. /\ Running /\ epoch' = epoch /\ sink' = sink /\ n > Len(buf)
        /\ \/ buf' = Fresh(n) /\ wLoc' = n /\ Advance(n)
           \/ UNCHANGED <<buf, wLoc>> /\ Fail(0, 0)
        /\ flushed \/ ~NeedsFlush
        /\ At({"extBody"})
    BY <1>8 DEF ExtBodyGrow, Ready
  <2>2. wLoc = 0
    BY <1>0, <1>1, <2>1 DEF NeedsFlush, At, OpenSpace, Typed, Busy
  <2>3. CASE buf' = Fresh(n) /\ wLoc' = n /\ Advance(n)
    <3>1. \A i \in 1..n : Fresh(n)[i] = <<cur, calls[cur].done + i>>
      BY <1>1, <2>1, FreshTyped
    <3>2. \A i \in 1..n : buf'[wLoc + i] = <<cur, calls[cur].done + i>>
      BY <1>1, <2>1, <2>2, <2>3, <3>1
    <3>3. wLoc' = wLoc + n + 0 /\ \A i \in 1..wLoc : buf'[i] = buf[i]
      BY <1>1, <2>1, <2>2, <2>3
    <3>4. Growth(n, 0)
      BY <1>0, <1>1, <2>1, <3>2, <3>3, StoreGrows
    <3> QED
      BY <1>1, <2>1, <2>3, <3>4 DEF Effect
  <2>4. CASE UNCHANGED <<buf, wLoc>> /\ Fail(0, 0)
    <3>1. Growth(0, 0)
      BY <1>0, <2>1, <2>4, SameOutQuiet
    <3>2. 0 + 0 <= n
      BY <1>1, <2>1
    <3> QED
      BY <2>1, <2>4, <3>1, <3>2 DEF Effect
  <2> QED
    BY <2>1, <2>3, <2>4
<1>9. ASSUME FlushDone PROVE Effect
  <2>1. /\ Running /\ epoch' = epoch /\ UNCHANGED <<buf, wLoc, sink>>
        /\ Advance(0) /\ At({"flush"})
    BY <1>9 DEF FlushDone, Ready
  <2>2. Growth(0, 0)
    BY <1>0, <2>1, SameOutQuiet
  <2>3. n = 0
    BY <1>0, <2>1, SizedHead DEF WellSized, At
  <2> QED
    BY <2>1, <2>2, <2>3 DEF Effect
<1>10. ASSUME Unsupported PROVE Effect
  <2>1. /\ Running /\ epoch' = epoch /\ UNCHANGED <<buf, wLoc, sink>> /\ Fail(0, 0)
    BY <1>10 DEF Unsupported, Ready
  <2>2. Growth(0, 0)
    BY <1>0, <2>1, SameOutQuiet
  <2>3. 0 + 0 <= n
    BY <1>1, <2>1
  <2> QED
    BY <2>1, <2>2, <2>3 DEF Effect
<1> QED
  BY <1>2, <1>3, <1>4, <1>5, <1>6, <1>7, <1>8, <1>9, <1>10 DEF Next

-----------------------------------------------------------------------------
LEMMA InitFrames == Init => Framed
<1> SUFFICES ASSUME Init PROVE Framed
  OBVIOUS
<1>1. Typed
  BY InitTyped
<1>2. Current = {} /\ cur = epoch
  BY EmptySeq DEF Init, Current, cur
<1>3. Len(Out) = 0
  BY <1>1, OutIs, EmptySeq DEF Typed, Init
<1> QED
  BY <1>2, <1>3 DEF Framed, Tiled, InPlace, Complete

(* Only Reset takes an io.Writer that may be trusted again.                *)
LEMMA HonestBefore ==
  ASSUME Typed, [Next]_vars, ~Reset, honest'
  PROVE  honest
<1>0. TypeOK /\ wLoc \in Nat
  BY DEF Typed, TypeOK
<1>1. ASSUME FlushBuffer PROVE honest
  <2>1. PICK r \in SinkTakes(wLoc) : Count(r, wLoc)
    BY <1>1 DEF FlushBuffer
  <2> QED
    BY <1>0, <2>1, CountHonest
<1>2. ASSUME PutDirect PROVE honest
  <2>1. Running /\ Head(todo).n \in Nat
    BY <1>0, <1>2, HeadTodo DEF PutDirect, Ready
  <2>2. PICK r \in SinkTakes(Head(todo).n) : Count(r, Head(todo).n)
    BY <1>2 DEF PutDirect
  <2> QED
    BY <1>0, <2>1, <2>2, CountHonest
<1>3. CASE UNCHANGED honest
  BY <1>3
<1> QED
  BY <1>1, <1>2, <1>3
     DEF Next, Call, FlushNothing, PutIndexed, PutCopied, ExtBodyInPlace,
         ExtBodyGrow, FlushDone, Unsupported, vars

LEMMA NextFrames ==
  ASSUME Typed, Sized, Framing, [Next]_vars
  PROVE  Framing'
<1> SUFFICES ASSUME honest' PROVE Framed'
  BY DEF Framing
<1>0. TypeOK /\ Typed' /\ TypeOK'
  BY NextTyped DEF Typed
<1>5. ~Reset => Framed
  BY HonestBefore DEF Framing
<1>6. CASE Reset
  BY <1>0, <1>6, ResetFrames
<1> SUFFICES ASSUME ~Reset PROVE Framed'
  BY <1>6
<1>1. CASE UNCHANGED vars
  <2>1. UNCHANGED <<buf, wLoc, sink>> /\ UNCHANGED <<calls, epoch>>
    BY <1>1 DEF vars
  <2> QED
    BY <1>0, <1>5, <2>1, SameOutQuiet, QuietFrames
<1>3. ASSUME NEW c \in Ops, Call(c) PROVE Framed'
  BY <1>0, <1>3, <1>5, CallFrames
<1>4. CASE Effect
  <2>1. PICK k \in Nat, j \in Nat :
          /\ Growth(k, j) /\ Running /\ epoch' = epoch
          /\ \/ Advance(k) /\ j = 0 /\ k = Head(todo).n
             \/ Fail(k, j) /\ k + j <= Head(todo).n
             \/ k = 0 /\ j = 0 /\ UNCHANGED <<calls, todo>>
    BY <1>4 DEF Effect
  <2>2. CASE Advance(k) /\ j = 0 /\ k = Head(todo).n
    BY <1>0, <1>5, <2>1, <2>2, AdvanceFrames
  <2>3. CASE Fail(k, j) /\ k + j <= Head(todo).n
    BY <1>0, <1>5, <2>1, <2>3, FailFrames
  <2>4. CASE k = 0 /\ j = 0 /\ UNCHANGED <<calls, todo>>
    BY <1>0, <1>5, <2>1, <2>4, QuietFrames
  <2> QED
    BY <2>1, <2>2, <2>3, <2>4
<1> QED
  BY <1>1, <1>3, <1>4, NextEffect DEF ShortFlush, ShortDirect

(* As long as the io.Writer keeps its contract, and with calls that        *)
(* respect the documented limits of require and Append, every byte of      *)
(* every call is in its place in the accepted stream: nothing is lost,     *)
(* repeated or reordered by full buffers, partial flushes, failed writes,  *)
(* oversized bodies or Reset, for every buffer size.                       *)
THEOREM FramingHolds ==
  ASSUME CallsFit
  PROVE  Spec => []Framing
<1>1. Init => Inductive
  BY InitTyped, InitSized, InitFrames DEF Inductive, Framing
<1>2. Inductive /\ [Next]_vars => Inductive'
  BY NextTyped, NextSized, NextFrames DEF Inductive
<1>3. Inductive => Framing
  BY DEF Inductive
<1> QED
  BY <1>1, <1>2, <1>3, PTL DEF Spec

LEMMA RoomHolds ==
  ASSUME Typed, Sized
  PROVE  RoomAfterFlush
<1> SUFFICES ASSUME Ready, At(Indexed \cup {"extBody"})
             PROVE  \/ Head(todo).n <= OpenSpace
                    \/ Head(todo).op = "extBody" /\ Head(todo).n > Len(buf) /\ wLoc = 0
  BY DEF RoomAfterFlush
<1> DEFINE p == Head(todo)
<1>0. /\ Running /\ p.n \in Nat /\ TypeOK /\ Len(buf) \in Nat /\ wLoc \in 0..Len(buf)
      /\ p.op \in Indexed \cup {"extBody"} /\ Len(buf) >= 18
      /\ flushed => wLoc = 0
  BY HeadTodo DEF Ready, Typed, TypeOK, At, MinBuffer, Busy
<1>1. WellSized(p, NewWriterSize(Size))
  BY <1>0, SizedHead
<1>2. CASE flushed /\ p.op \in Indexed
  BY <1>0, <1>1, <1>2 DEF WellSized, OpenSpace
<1>3. CASE flushed /\ p.op = "extBody"
  BY <1>0, <1>3 DEF OpenSpace
<1>4. CASE ~NeedsFlush
  BY <1>0, <1>1, <1>4 DEF NeedsFlush, OpenSpace, WellSized, Indexed
<1> QED
  BY <1>0, <1>2, <1>3, <1>4 DEF Ready

(* push, prefix8..64, require and the in-place extension body never index  *)
(* past the buffer, for every size given to NewWriterSize, zero included.  *)
THEOREM NoOverrun ==
  ASSUME CallsFit
  PROVE  Spec => []RoomAfterFlush
<1>1. Init => Typed /\ Sized
  BY InitTyped, InitSized
<1>2. (Typed /\ Sized) /\ [Next]_vars => (Typed /\ Sized)'
  BY NextTyped, NextSized
<1>3. Typed /\ Sized => RoomAfterFlush
  BY RoomHolds
<1> QED
  BY <1>1, <1>2, <1>3, PTL DEF Spec

-----------------------------------------------------------------------------
(* The Writer implements ByteStream.                                       *)

LEMMA PrefixPointwise ==
  ASSUME NEW S, NEW s \in Seq(S), NEW t \in Seq(S), Len(s) <= Len(t),
         \A i \in 1..Len(s) : t[i] = s[i]
  PROVE  IsPrefix(s, t)
<1>1. /\ SubSeq(s, 1, Len(s)) \in Seq(S) /\ Len(SubSeq(s, 1, Len(s))) = Len(s)
      /\ \A i \in 1..Len(s) : SubSeq(s, 1, Len(s))[i] = s[i]
  OBVIOUS
<1>2. /\ SubSeq(t, 1, Len(s)) \in Seq(S) /\ Len(SubSeq(t, 1, Len(s))) = Len(s)
      /\ \A i \in 1..Len(s) : SubSeq(t, 1, Len(s))[i] = t[i]
  OBVIOUS
<1>3. SubSeq(s, 1, Len(s)) = SubSeq(t, 1, Len(s))
  BY <1>1, <1>2, SeqEqual
<1> QED
  BY <1>3 DEF IsPrefix

LEMMA ConcatPrefix ==
  ASSUME NEW S, NEW s \in Seq(S), NEW t \in Seq(S), NEW u, u = s \o t
  PROVE  IsPrefix(s, u)
<1>1. u \in Seq(S) /\ Len(u) = Len(s) + Len(t) /\ Len(s) \in Nat /\ Len(t) \in Nat
  BY ConcatProperties
<1>2. \A i \in 1..Len(s) : u[i] = s[i]
  BY <1>1, ConcatProperties
<1>3. Len(s) <= Len(u)
  BY <1>1
<1> QED
  BY <1>1, <1>2, <1>3, PrefixPointwise

LEMMA GrowthPrefix ==
  ASSUME TypeOK, TypeOK', NEW k \in Nat, NEW j \in Nat, Growth(k, j)
  PROVE  IsPrefix(Out, Out')
<1>1. /\ Out \in Seq(Byte) /\ Out' \in Seq(Byte) /\ Len(Out) \in Nat
      /\ Len(Out) <= Len(Out') /\ \A i \in 1..Len(Out) : Out'[i] = Out[i]
  BY OutIs, OutIsNext DEF Growth
<1> QED
  BY <1>1, PrefixPointwise

LEMMA SinkGrows ==
  ASSUME Typed, [Next]_vars, ~Reset
  PROVE  IsPrefix(sink, sink')
<1>0. TypeOK /\ sink \in Seq(Byte) /\ wLoc \in Nat
  BY DEF Typed, TypeOK
<1>1. CASE sink' = sink
  <2>1. Len(sink) \in Nat
    BY <1>0
  <2> QED
    BY <1>0, <1>1, <2>1, PrefixPointwise
<1>2. ASSUME FlushBuffer PROVE IsPrefix(sink, sink')
  <2>1. PICK r \in SinkTakes(wLoc) : sink' = sink \o SubSeq(buf, 1, r.n)
    BY <1>2 DEF FlushBuffer
  <2>2. r.n \in 0..wLoc /\ buf \in Seq(Byte) /\ wLoc \in 0..Len(buf)
    BY <1>0, SinkAnswer DEF TypeOK
  <2>3. SubSeq(buf, 1, r.n) \in Seq(Byte)
    BY <2>2
  <2> QED
    BY <1>0, <2>1, <2>3, ConcatPrefix
<1>3. ASSUME PutDirect PROVE IsPrefix(sink, sink')
  <2> DEFINE n == Head(todo).n
  <2>1. Running /\ n \in Nat
    BY <1>0, <1>3, HeadTodo DEF PutDirect, Ready
  <2>2. PICK r \in SinkTakes(n) : sink' = sink \o Fresh(r.n)
    BY <1>3 DEF PutDirect
  <2>3. r.n \in 0..n
    BY <1>0, <2>1, SinkAnswer
  <2>4. Fresh(r.n) \in Seq(Byte)
    BY <2>1, <2>3, FreshTyped
  <2> QED
    BY <1>0, <2>2, <2>4, ConcatPrefix
<1> QED
  BY <1>1, <1>2, <1>3
     DEF Next, Call, FlushNothing, PutIndexed, PutCopied, ExtBodyInPlace,
         ExtBodyGrow, FlushDone, Unsupported, vars

LEMMA NextRefines ==
  ASSUME Typed, Sized, [Next]_vars
  PROVE  [Abs!Next]_(Abs!svars)
<1>0. TypeOK /\ TypeOK'
  BY NextTyped DEF Typed
<1>1. IsPrefix(sink', Out')
  <2>1. Out' = sink' \o SubSeq(buf', 1, wLoc')
    BY DEF Out
  <2>2. sink' \in Seq(Byte) /\ buf' \in Seq(Byte) /\ wLoc' \in 0..Len(buf')
    BY <1>0 DEF TypeOK
  <2>3. SubSeq(buf', 1, wLoc') \in Seq(Byte)
    BY <2>2
  <2> QED
    BY <2>1, <2>2, <2>3, ConcatPrefix
<1>2. CASE UNCHANGED vars
  BY <1>2 DEF vars, Abs!svars, Out, Accepted, Sent
<1>5. CASE ~honest'
  <2>1. Accepted' = <<>> /\ Sent' = <<>>
    BY <1>5 DEF Accepted, Sent
  <2> QED
    BY <2>1 DEF Abs!Next, Abs!Restart
<1>3. CASE Reset /\ honest'
  <2>1. sink' = <<>> /\ Len(Out') = 0 /\ Out' \in Seq(Byte)
    <3>1. sink' = <<>> /\ wLoc' = 0
      BY <1>3 DEF Reset
    <3>2. Len(Out') = Len(sink') + wLoc' /\ Out' \in Seq(Byte)
      BY <1>0, OutIsNext
    <3> QED
      BY <3>1, <3>2, EmptySeq
  <2>2. Out' = <<>>
    BY <2>1, EmptySeq
  <2>3. Accepted' = <<>> /\ Sent' = <<>>
    BY <2>1, <2>2 DEF Accepted, Sent
  <2> QED
    BY <2>3 DEF Abs!Next, Abs!Restart
<1>4. CASE ~Reset /\ Next /\ honest'
  <2>1. IsPrefix(sink, sink')
    BY <1>4, SinkGrows
  <2>2. IsPrefix(Out, Out')
    <3>1. CASE Effect
      <4>1. PICK k \in Nat, j \in Nat : Growth(k, j)
        BY <3>1 DEF Effect
      <4> QED
        BY <1>0, <4>1, GrowthPrefix
    <3>2. ASSUME NEW c \in Ops, Call(c) PROVE IsPrefix(Out, Out')
      <4>1. Growth(0, 0)
        BY <1>0, <3>2, SameOutQuiet DEF Call
      <4> QED
        BY <1>0, <4>1, GrowthPrefix
    <3> QED
      BY <1>4, <3>1, <3>2, NextEffect DEF ShortFlush, ShortDirect
  <2>3. Accepted = Out /\ Sent = sink /\ Accepted' = Out' /\ Sent' = sink'
    BY <1>4, HonestBefore DEF Accepted, Sent
  <2> QED
    BY <1>1, <2>1, <2>2, <2>3 DEF Abs!Next, Abs!Extend, Abs!IsPrefix, IsPrefix
<1> QED
  BY <1>2, <1>3, <1>4, <1>5

(* Until its io.Writer breaks the contract the Writer is a byte stream:    *)
(* what it has accepted is never rewritten, and what the io.Writer has     *)
(* received is always an initial part of it.                               *)
THEOREM Refinement ==
  ASSUME CallsFit
  PROVE  Spec => AbsSpec
<1>1. Init => Typed /\ Sized
  BY InitTyped, InitSized
<1>2. (Typed /\ Sized) /\ [Next]_vars => (Typed /\ Sized)'
  BY NextTyped, NextSized
<1>3. Init => Abs!Init
  <2> SUFFICES ASSUME Init PROVE Abs!Init
    OBVIOUS
  <2>1. TypeOK /\ sink = <<>> /\ wLoc = 0 /\ honest
    BY InitTyped DEF Init, Typed
  <2>2. Out \in Seq(Byte) /\ Len(Out) = 0
    BY <2>1, OutIs, EmptySeq
  <2> QED
    BY <2>1, <2>2, EmptySeq DEF Abs!Init, Accepted, Sent
<1>4. (Typed /\ Sized) /\ [Next]_vars => [Abs!Next]_(Abs!svars)
  BY NextRefines
<1> QED
  BY <1>1, <1>2, <1>3, <1>4, PTL DEF Spec, AbsSpec, Abs!Spec


-----------------------------------------------------------------------------
(* Flush and Encode deliver.                                               *)

(* A running call ends with the last primitive it was made of.             *)
SameEnd == Running => todo[Len(todo)] = Last(calls[cur].ops)

LEMMA LastTyped ==
  ASSUME NEW S, NEW s \in Seq(S), s # <<>>
  PROVE  Len(s) \in Nat \ {0} /\ Last(s) = s[Len(s)] /\ Last(s) \in S
BY DEF Last

(* Every primitive that ends well leaves a shorter rest with the same end. *)
LEMMA TailSameEnd ==
  ASSUME TypeOK, Running, Len(todo) > 1
  PROVE  Tail(todo)[Len(Tail(todo))] = todo[Len(todo)] /\ Tail(todo) # <<>>
<1>1. todo \in Seq(Prim) /\ Len(todo) \in Nat
  BY DEF TypeOK
<1>2. Len(Tail(todo)) = Len(todo) - 1 /\ \A i \in 1..Len(todo)-1 : Tail(todo)[i] = todo[i+1]
  BY <1>1, HeadTailProperties DEF Running
<1>3. Tail(todo) # <<>>
  <2>1. Tail(todo) = <<>> => Len(Tail(todo)) = 0
    BY EmptySeq
  <2>2. Len(Tail(todo)) > 0
    BY <1>1, <1>2
  <2>3. ~(0 > 0)
    OBVIOUS
  <2> QED
    BY <2>1, <2>2, <2>3, Zenon
<1>4. Len(todo) - 1 \in 1..Len(todo)-1 /\ (Len(todo) - 1) + 1 = Len(todo)
  BY <1>1, <1>2
<1> QED
  BY <1>2, <1>3, <1>4

(* What a step leaves of the calls: one more, the same, or the last one    *)
(* with its counts and status changed.                                     *)
LEMMA StepKeepsEnd ==
  ASSUME Typed, SameEnd, [Next]_vars
  PROVE  SameEnd'
<1>0. TypeOK /\ calls \in Seq(CallRec)
  BY DEF Typed, TypeOK
<1>1. ASSUME Running, NEW k \in Nat, Advance(k), epoch' = epoch PROVE SameEnd'
  <2> DEFINE st == IF Len(todo) = 1 THEN "ok" ELSE "running"
  <2>1. st \in Status /\ calls' = [calls EXCEPT ![cur] = CallAfter(k, 0, st)]
    BY <1>1 DEF Advance, Status
  <2> HIDE DEF st
  <2>2. cur' = cur /\ calls'[cur] = CallAfter(k, 0, st)
    BY <1>1, <2>1, CallAfterTyped
  <2>3. calls'[cur'].ops = calls[cur].ops
    BY <2>2 DEF CallAfter
  <2>4. todo' = Tail(todo)
    BY <1>1 DEF Advance
  <2>5. CASE Len(todo) = 1
    BY <1>0, <1>1, <2>4, <2>5, HeadTodo DEF SameEnd, Running
  <2>6. CASE Len(todo) # 1
    <3>1. Len(todo) > 1
      BY <1>0, <1>1, <2>6, HeadTodo
    <3> QED
      BY <1>0, <1>1, <2>3, <2>4, <3>1, TailSameEnd DEF SameEnd
  <2> QED
    BY <2>5, <2>6
<1>2. ASSUME NEW k \in Nat, NEW j \in Nat, Fail(k, j) PROVE SameEnd'
  BY <1>2 DEF Fail, SameEnd, Running
<1>3. CASE UNCHANGED <<todo, calls>>
  BY <1>3 DEF SameEnd, Running, cur
<1>4. ASSUME NEW c \in Ops, Call(c) PROVE SameEnd'
  <2> DEFINE new == [at |-> Len(Out), ops |-> c, asked |-> 0,
                     done |-> 0, good |-> 0, st |-> "running"]
  <2>1. calls' = Append(calls, new) /\ todo' = c
    BY <1>4 DEF Call
  <2>2. new.ops = c
    OBVIOUS
  <2> HIDE DEF new
  <2>3. cur' = Len(calls) + 1 /\ calls'[cur'] = new
    BY <1>0, <2>1 DEF cur
  <2>4. c \in Seq(Prim) /\ c # <<>>
    BY <1>4, WriterAssumption
  <2> QED
    BY <2>1, <2>2, <2>3, <2>4, LastTyped DEF SameEnd
<1>5. Running => Head(todo).n \in Nat
  BY <1>0, HeadTodo
<1>6. wLoc \in Nat /\ Len(buf) \in Nat /\ wLoc <= Len(buf)
  BY <1>0 DEF TypeOK
<1>7. ASSUME FlushBuffer PROVE SameEnd'
  <2>1. Fail(0, 0) \/ UNCHANGED <<todo, calls>>
    BY <1>7 DEF FlushBuffer
  <2> QED
    BY <1>2, <1>3, <2>1
<1>8. ASSUME PutIndexed \/ PutCopied \/ FlushDone PROVE SameEnd'
  <2> DEFINE n == Head(todo).n
             k == IF n <= OpenSpace THEN n ELSE OpenSpace
  <2>1. Running /\ epoch' = epoch /\ (Advance(n) \/ Advance(k) \/ Advance(0))
    BY <1>8 DEF PutIndexed, PutCopied, FlushDone, Ready
  <2>2. n \in Nat /\ k \in Nat
    BY <1>5, <1>6, <2>1 DEF OpenSpace
  <2> QED
    BY <1>1, <2>1, <2>2
<1>9. ASSUME PutDirect PROVE SameEnd'
  <2> DEFINE n == Head(todo).n
  <2>1. Running /\ epoch' = epoch
    BY <1>9 DEF PutDirect, Ready
  <2>2. PICK r \in SinkTakes(n) : Fail(r.n, 0) \/ Advance(r.n)
    BY <1>9 DEF PutDirect
  <2>3. r.n \in Nat
    BY <1>0, <1>5, <2>1, SinkAnswer
  <2> QED
    BY <1>1, <1>2, <2>1, <2>2, <2>3
<1>10. ASSUME ExtBodyInPlace \/ ExtBodyGrow \/ Unsupported PROVE SameEnd'
  <2> DEFINE n == Head(todo).n
  <2>1. /\ Running /\ epoch' = epoch
        /\ Advance(n) \/ Fail(0, n) \/ Fail(0, 0)
    BY <1>10 DEF ExtBodyInPlace, ExtBodyGrow, Unsupported, Ready
  <2>2. n \in Nat
    BY <1>5, <2>1
  <2> QED
    BY <1>1, <1>2, <2>1, <2>2
<1> QED
  BY <1>3, <1>4, <1>7, <1>8, <1>9, <1>10 DEF Next, FlushNothing, Reset, vars

(* The buffer part of FlushDelivers.                                       *)
Emptied ==
  (~Running /\ cur > epoch /\ calls[cur].st = "ok"
     /\ Last(calls[cur].ops).op = "flush") => wLoc = 0

(* Once a call has ended well its last primitive is the one that ended it. *)
LEMMA AdvanceEmptied ==
  ASSUME Typed, SameEnd, Running, NEW k \in Nat, Advance(k), epoch' = epoch,
         Head(todo).op = "flush" => wLoc' = 0
  PROVE  Emptied'
<1>0. TypeOK /\ todo \in Seq(Prim)
  BY DEF Typed, TypeOK
<1> DEFINE st == IF Len(todo) = 1 THEN "ok" ELSE "running"
<1>1. st \in Status /\ calls' = [calls EXCEPT ![cur] = CallAfter(k, 0, st)]
  BY DEF Advance, Status
<1>2. cur' = cur /\ calls'[cur] = CallAfter(k, 0, st)
  <2> HIDE DEF st
  <2> QED
    BY <1>1, CallAfterTyped
<1>3. calls'[cur'].ops = calls[cur].ops
  BY <1>2 DEF CallAfter
<1>4. CASE Len(todo) = 1
  <2>1. Last(calls[cur].ops) = Head(todo)
    BY <1>0, <1>4 DEF SameEnd
  <2> QED
    BY <1>3, <2>1 DEF Emptied
<1>5. CASE Len(todo) # 1
  <2>1. Running'
    BY <1>0, <1>5, HeadTodo DEF Advance, Running
  <2> QED
    BY <2>1 DEF Emptied
<1> QED
  BY <1>4, <1>5

LEMMA StepEmptied ==
  ASSUME Typed, SameEnd, Emptied, [Next]_vars
  PROVE  Emptied'
<1>0. TypeOK /\ calls \in Seq(CallRec) /\ wLoc \in Nat /\ Len(buf) \in Nat
      /\ wLoc <= Len(buf)
  BY DEF Typed, TypeOK
<1>1. ASSUME Running, NEW k \in Nat, NEW j \in Nat, Fail(k, j), epoch' = epoch
      PROVE  Emptied'
  <2>1. "err" \in Status /\ calls' = [calls EXCEPT ![cur] = CallAfter(k, j, "err")]
    BY <1>1 DEF Fail, Status
  <2>2. cur' = cur /\ calls'[cur] = CallAfter(k, j, "err")
    BY <1>1, <2>1, CallAfterTyped
  <2> QED
    BY <2>2 DEF CallAfter, Emptied
<1>2. CASE Running /\ UNCHANGED todo
  BY <1>2 DEF Running, Emptied
<1>3. ASSUME NEW c \in Ops, Call(c) PROVE Emptied'
  BY <1>3, WriterAssumption DEF Call, Running, Emptied
<1>4. CASE Reset
  BY <1>0, <1>4 DEF Reset, Emptied, cur
<1>5. CASE UNCHANGED vars
  BY <1>5 DEF vars, Emptied, Running, cur
<1>6. Running => Head(todo).n \in Nat
  BY <1>0, HeadTodo
<1>7. ASSUME FlushBuffer PROVE Emptied'
  <2>1. Running /\ epoch' = epoch /\ (Fail(0, 0) \/ UNCHANGED todo)
    BY <1>7 DEF FlushBuffer
  <2> QED
    BY <1>1, <1>2, <2>1
<1>8. ASSUME PutIndexed \/ PutCopied PROVE Emptied'
  <2> DEFINE n == Head(todo).n
             k == IF n <= OpenSpace THEN n ELSE OpenSpace
  <2>1. /\ Running /\ epoch' = epoch /\ (Advance(n) \/ Advance(k))
        /\ At(Indexed) \/ At(Copied)
    BY <1>8 DEF PutIndexed, PutCopied, Ready
  <2>2. n \in Nat /\ k \in Nat
    BY <1>0, <1>6, <2>1 DEF OpenSpace
  <2>3. Head(todo).op # "flush"
    BY <2>1 DEF At, Indexed, Copied
  <2> QED
    BY <2>1, <2>2, <2>3, AdvanceEmptied
<1>9. ASSUME PutDirect PROVE Emptied'
  <2> DEFINE n == Head(todo).n
  <2>1. Running /\ epoch' = epoch /\ At({"write", "writeString"})
    BY <1>9 DEF PutDirect, Ready
  <2>2. PICK r \in SinkTakes(n) : Fail(r.n, 0) \/ Advance(r.n)
    BY <1>9 DEF PutDirect
  <2>3. r.n \in Nat /\ Head(todo).op # "flush"
    BY <1>0, <1>6, <2>1, SinkAnswer DEF At
  <2> QED
    BY <1>1, <2>1, <2>2, <2>3, AdvanceEmptied
<1>10. ASSUME ExtBodyInPlace \/ ExtBodyGrow \/ Unsupported PROVE Emptied'
  <2> DEFINE n == Head(todo).n
  <2>1. /\ Running /\ epoch' = epoch /\ At({"extBody", "unsupported"})
        /\ Advance(n) \/ Fail(0, n) \/ Fail(0, 0)
    BY <1>10 DEF ExtBodyInPlace, ExtBodyGrow, Unsupported, Ready, At
  <2>2. n \in Nat /\ Head(todo).op # "flush"
    BY <1>6, <2>1 DEF At
  <2> QED
    BY <1>1, <2>1, <2>2, AdvanceEmptied
<1>11. ASSUME FlushDone PROVE Emptied'
  <2>1. Running /\ epoch' = epoch /\ Advance(0) /\ wLoc' = wLoc
    BY <1>11 DEF FlushDone, Ready
  <2>2. flushed
    BY <1>11 DEF FlushDone, Ready, At, NeedsFlush
  <2>3. wLoc' = 0
    BY <2>1, <2>2 DEF Typed, Busy
  <2> QED
    BY <2>1, <2>3, AdvanceEmptied
<1> QED
  BY <1>2, <1>3, <1>4, <1>5, <1>7, <1>8, <1>9, <1>10, <1>11 DEF Next, FlushNothing

(* When Flush, or an Encode that ends with it, has returned nil the whole  *)
(* stream is with the io.Writer, whatever failed before, for calls of any  *)
(* size and even over an io.Writer that takes too little and says nothing. *)
THEOREM FlushIsComplete == Spec => []FlushDelivers
<1> DEFINE I == Typed /\ SameEnd /\ Emptied
<1>1. Init => I
  BY InitTyped, EmptySeq DEF Init, SameEnd, Emptied, Running, cur
<1>2. I /\ [Next]_vars => I'
  BY NextTyped, StepKeepsEnd, StepEmptied
<1>3. I => FlushDelivers
  <2> SUFFICES ASSUME Typed, Emptied, ~Running, cur > epoch, calls[cur].st = "ok",
                      Last(calls[cur].ops).op = "flush"
               PROVE  wLoc = 0 /\ Out = sink
    BY DEF FlushDelivers
  <2>1. wLoc = 0
    BY DEF Emptied
  <2>2. /\ Out \in Seq(Byte) /\ sink \in Seq(Byte) /\ Len(Out) = Len(sink)
        /\ \A i \in 1..Len(sink) : Out[i] = sink[i]
    BY <2>1, OutIs DEF Typed
  <2> QED
    BY <2>1, <2>2, SeqEqual
<1> QED
  BY <1>1, <1>2, <1>3, PTL DEF Spec

-----------------------------------------------------------------------------
(* No byte of a call that returned nil is missing, also when the io.Writer *)
(* takes less than it is given and reports nothing.                        *)

Seen(o, x) == \E i \in 1..Len(o) : o[i] = x

(* Every byte of a call that has not failed has been accepted, when what   *)
(* it hands to Write fits the buffer.                                      *)
Present ==
  \A c \in Current : (calls[c].st # "err" /\ Buffered(calls[c].ops)) =>
    /\ calls[c].done = calls[c].asked
    /\ \A k \in 1..calls[c].done : Seen(Out, <<c, k>>)

LEMMA GrowthKeepsSeen ==
  ASSUME TypeOK, NEW k \in Nat, NEW j \in Nat, Growth(k, j), NEW x, Seen(Out, x)
  PROVE  Seen(Out', x)
<1>1. PICK i \in 1..Len(Out) : Out[i] = x
  BY DEF Seen
<1>2. Out'[i] = x /\ i \in 1..Len(Out')
  BY <1>1, OutIs DEF Growth
<1> QED
  BY <1>2 DEF Seen

(* After a short Flush the bytes it has sent are in the stream twice.      *)
LEMMA ShortFlushKeepsSeen ==
  ASSUME TypeOK, TypeOK', ShortFlush, NEW x, Seen(Out, x)
  PROVE  Seen(Out', x)
<1>1. PICK i \in 1..Len(Out) : Out[i] = x
  BY DEF Seen
<1>2. PICK m \in 0..wLoc : sink' = sink \o SubSeq(buf, 1, m)
  BY DEF ShortFlush
<1>3. /\ sink \in Seq(Byte) /\ Len(sink) \in Nat /\ wLoc \in Nat /\ m \in 0..Len(buf)
      /\ buf \in Seq(Byte) /\ wLoc' = wLoc /\ buf' = buf
      /\ i \in 1..(Len(sink) + wLoc)
  BY <1>1, <1>2, OutIs DEF TypeOK, ShortFlush
<1>4. Len(sink') = Len(sink) + m /\ \A d \in 1..Len(sink) : sink'[d] = sink[d]
  BY <1>2, <1>3, OutShape
<1>5. CASE i \in 1..Len(sink)
  <2>1. i \in 1..Len(sink') /\ Out[i] = sink[i]
    BY <1>3, <1>4, <1>5, OutIs
  <2>2. Out'[i] = x /\ i \in 1..Len(Out')
    BY <1>1, <1>3, <1>4, <1>5, <2>1, OutIsNext
  <2> QED
    BY <2>2 DEF Seen
<1>6. CASE \E d \in 1..wLoc : i = Len(sink) + d
  <2>1. PICK d \in 1..wLoc : i = Len(sink) + d
    BY <1>6
  <2>2. Out[Len(sink) + d] = buf[d] /\ Out'[Len(sink') + d] = buf'[d]
    BY <1>3, <2>1, OutIs, OutIsNext
  <2>3. Len(sink') + d \in 1..Len(Out')
    BY <1>3, <1>4, <2>1, OutIsNext
  <2>4. Out'[Len(sink') + d] = x
    BY <1>1, <1>3, <2>1, <2>2
  <2> QED
    BY <2>3, <2>4 DEF Seen
<1> QED
  BY <1>3, <1>5, <1>6, SplitIndex

(* Calls that are kept stay complete when the stream keeps its bytes.      *)
LEMMA StepPresent ==
  ASSUME Typed, Typed', Running, Present, epoch' = epoch,
         \A x : Seen(Out, x) => Seen(Out', x),
         NEW k \in Nat, NEW j \in Nat, NEW st \in Status,
         calls' = [calls EXCEPT ![cur] = CallAfter(k, j, st)],
         (st # "err" /\ Buffered(calls[cur].ops)) =>
           j = 0 /\ k = Head(todo).n /\ Growth(k, 0)
  PROVE  Present'
<1>1. /\ cur' = cur /\ cur \in 1..Len(calls) /\ Len(calls') = Len(calls)
      /\ calls'[cur] = CallAfter(k, j, st)
      /\ \A c \in 1..Len(calls) : c # cur => calls'[c] = calls[c]
  BY CallAfterTyped
<1>2. /\ cur \in Nat /\ cur > epoch /\ epoch \in Nat /\ Len(calls) \in Nat
      /\ calls[cur].done \in Nat /\ calls[cur].asked \in Nat
      /\ calls[cur].st = "running"
  BY CurrentCall DEF Typed, TypeOK
<1>3. Current' = Current /\ Current = epoch+1..Len(calls) /\ cur \in Current
  BY <1>1, <1>2 DEF Current
<1>4. Head(todo).n \in Nat
  BY HeadTodo DEF Typed
<1> SUFFICES ASSUME NEW c \in Current, calls'[c].st # "err",
                    Buffered(calls'[c].ops)
             PROVE  /\ calls'[c].done = calls'[c].asked
                    /\ \A d \in 1..calls'[c].done : Seen(Out', <<c, d>>)
  BY <1>3 DEF Present
<1>5. CASE c # cur
  <2>1. calls'[c] = calls[c]
    BY <1>1, <1>2, <1>3, <1>5
  <2> QED
    BY <2>1 DEF Present
<1>6. CASE c = cur
  <2>1. st # "err" /\ Buffered(calls[cur].ops)
    BY <1>1, <1>6 DEF CallAfter
  <2>2. /\ j = 0 /\ k = Head(todo).n /\ Growth(k, 0)
        /\ calls'[c].done = calls[cur].done + k
        /\ calls'[c].asked = calls[cur].asked + k
    BY <1>1, <1>2, <1>6, <2>1 DEF CallAfter
  <2>3. /\ calls[cur].done = calls[cur].asked
        /\ \A d \in 1..calls[cur].done : Seen(Out, <<cur, d>>)
    BY <1>2, <1>3, <2>1 DEF Present
  <2>4. ASSUME NEW d \in 1..calls'[c].done PROVE Seen(Out', <<c, d>>)
    <3>1. d \in 1..(calls[cur].done + k)
      BY <2>2
    <3>2. CASE d \in 1..calls[cur].done
      BY <1>6, <2>3, <3>2
    <3>3. CASE \E i \in 1..k : d = calls[cur].done + i
      <4>1. PICK i \in 1..k : d = calls[cur].done + i
        BY <3>3
      <4>2. Out'[Len(Out) + i] = <<cur, calls[cur].done + i>>
        BY <2>2, <4>1 DEF Growth
      <4>3. Len(Out) + i \in 1..Len(Out')
        <5>1. Len(Out) \in Nat /\ Len(Out') = Len(Out) + k + 0
          BY <2>2, OutIs DEF Typed, Growth
        <5> QED
          BY <5>1
      <4> QED
        BY <1>6, <4>1, <4>2, <4>3 DEF Seen
    <3> QED
      BY <1>2, <3>1, <3>2, <3>3, SplitIndex
  <2> QED
    BY <2>2, <2>3, <2>4
<1> QED
  BY <1>5, <1>6

LEMMA CallPresent ==
  ASSUME Typed, Present, NEW c \in Ops, Call(c)
  PROVE  Present'
<1> DEFINE new == [at |-> Len(Out), ops |-> c, asked |-> 0,
                   done |-> 0, good |-> 0, st |-> "running"]
<1>1. /\ calls' = Append(calls, new) /\ epoch' = epoch /\ calls \in Seq(CallRec)
      /\ UNCHANGED <<buf, wLoc, sink>> /\ epoch \in 0..Len(calls)
  BY DEF Call, Typed, TypeOK
<1>2. new.asked = 0 /\ new.done = 0
  OBVIOUS
<1> HIDE DEF new
<1>3. /\ Len(calls') = Len(calls) + 1 /\ calls'[Len(calls) + 1] = new
      /\ \A d \in 1..Len(calls) : calls'[d] = calls[d]
  BY <1>1
<1>4. /\ Current' = epoch+1..Len(calls)+1 /\ Current = epoch+1..Len(calls)
      /\ Len(calls) \in Nat /\ epoch \in Nat
  BY <1>1, <1>3 DEF Current
<1>7. Out' = Out
  BY <1>1 DEF Out
<1> SUFFICES ASSUME NEW d \in Current', calls'[d].st # "err",
                    Buffered(calls'[d].ops)
             PROVE  /\ calls'[d].done = calls'[d].asked
                    /\ \A k \in 1..calls'[d].done : Seen(Out', <<d, k>>)
  BY DEF Present
<1>5. CASE d \in Current
  <2>1. calls'[d] = calls[d]
    BY <1>3, <1>4, <1>5
  <2> QED
    BY <1>5, <1>7, <2>1 DEF Present
<1>6. CASE d = Len(calls) + 1
  BY <1>2, <1>3, <1>6
<1> QED
  BY <1>4, <1>5, <1>6

(* What is left of a call that hands Write nothing too large.              *)
BufferedRest == (Running /\ Buffered(calls[cur].ops)) => Buffered(todo)

LEMMA NextPresent ==
  ASSUME Typed, Sized, BufferedRest, Present, [Next]_vars
  PROVE  Present'
<1>0. TypeOK /\ Typed' /\ TypeOK'
  BY NextTyped DEF Typed
<1>1. CASE UNCHANGED vars
  BY <1>1 DEF vars, Present, Current, Out
<1>2. CASE Reset
  <2>1. epoch' = Len(calls) /\ calls' = calls /\ Len(calls) \in Nat
    BY <1>0, <1>2 DEF Reset, cur, TypeOK
  <2>2. Current' = {}
    BY <2>1 DEF Current
  <2> QED
    BY <2>2 DEF Present
<1>3. ASSUME NEW c \in Ops, Call(c) PROVE Present'
  BY <1>3, CallPresent
<1>4. CASE Effect
  <2>1. PICK k \in Nat, j \in Nat :
          /\ Growth(k, j) /\ Running /\ epoch' = epoch
          /\ \/ Advance(k) /\ j = 0 /\ k = Head(todo).n
             \/ Fail(k, j) /\ k + j <= Head(todo).n
             \/ k = 0 /\ j = 0 /\ UNCHANGED <<calls, todo>>
    BY <1>4 DEF Effect
  <2>2. \A x : Seen(Out, x) => Seen(Out', x)
    BY <1>0, <2>1, GrowthKeepsSeen
  <2>3. CASE Advance(k) /\ j = 0 /\ k = Head(todo).n
    <3> DEFINE st == IF Len(todo) = 1 THEN "ok" ELSE "running"
    <3>1. st \in Status /\ calls' = [calls EXCEPT ![cur] = CallAfter(k, 0, st)]
      BY <2>3 DEF Advance, Status
    <3> HIDE DEF st
    <3>2. Growth(k, 0) /\ 0 \in Nat
      BY <2>1, <2>3
    <3> QED
      BY <1>0, <2>1, <2>2, <2>3, <3>1, <3>2, StepPresent
  <2>4. CASE Fail(k, j)
    <3>1. "err" \in Status /\ calls' = [calls EXCEPT ![cur] = CallAfter(k, j, "err")]
      BY <2>4 DEF Fail, Status
    <3> QED
      BY <1>0, <2>1, <2>2, <3>1, StepPresent
  <2>5. CASE UNCHANGED <<calls, todo>>
    BY <2>1, <2>2, <2>5 DEF Present, Current
  <2> QED
    BY <2>1, <2>3, <2>4, <2>5
<1>5. CASE ShortFlush
  <2>1. \A x : Seen(Out, x) => Seen(Out', x)
    BY <1>0, <1>5, ShortFlushKeepsSeen
  <2>2. "err" \in Status /\ calls' = [calls EXCEPT ![cur] = CallAfter(0, 0, "err")]
    BY <1>5 DEF ShortFlush, Fail, Status
  <2>3. Running /\ epoch' = epoch /\ 0 \in Nat
    BY <1>5 DEF ShortFlush
  <2> QED
    BY <1>0, <2>1, <2>2, <2>3, StepPresent
<1>6. CASE ShortDirect
  <2>1. PICK k \in Nat : Growth(k, 0) /\ Advance(k)
    BY <1>6 DEF ShortDirect
  <2>2. /\ Running /\ epoch' = epoch /\ 0 \in Nat
        /\ ~Buffered(calls[cur].ops)
    BY <1>6 DEF ShortDirect, BufferedRest
  <2>3. \A x : Seen(Out, x) => Seen(Out', x)
    BY <1>0, <2>1, <2>2, GrowthKeepsSeen
  <2> DEFINE st == IF Len(todo) = 1 THEN "ok" ELSE "running"
  <2>4. st \in Status /\ calls' = [calls EXCEPT ![cur] = CallAfter(k, 0, st)]
    BY <2>1 DEF Advance, Status
  <2> HIDE DEF st
  <2> QED
    BY <1>0, <2>2, <2>3, <2>4, StepPresent
<1> QED
  BY <1>1, <1>2, <1>3, <1>4, <1>5, <1>6, NextEffect

(* The rest of a call is as buffered as the whole, step by step.           *)
LEMMA AdvanceBuffered ==
  ASSUME Typed, Running, BufferedRest, NEW k \in Nat, Advance(k), epoch' = epoch
  PROVE  BufferedRest'
<1>0. todo \in Seq(Prim) /\ todo # <<>> /\ todo' = Tail(todo)
  BY DEF Typed, TypeOK, Running, Advance
<1> DEFINE st == IF Len(todo) = 1 THEN "ok" ELSE "running"
<1>1. st \in Status /\ calls' = [calls EXCEPT ![cur] = CallAfter(k, 0, st)]
  BY DEF Advance, Status
<1> HIDE DEF st
<1>2. cur' = cur /\ calls'[cur] = CallAfter(k, 0, st)
  BY <1>1, CallAfterTyped
<1>3. calls'[cur'].ops = calls[cur].ops
  BY <1>2 DEF CallAfter
<1>4. \A i \in 1..Len(todo') : i + 1 \in 1..Len(todo) /\ todo'[i] = todo[i + 1]
  BY <1>0, HeadTailProperties
<1>5. Buffered(todo) => Buffered(todo')
  BY <1>4 DEF Buffered
<1>6. BufferedRest' = (Running' /\ Buffered(calls'[cur'].ops) => Buffered(todo'))
  BY DEF BufferedRest, Buffered
<1> QED
  BY <1>3, <1>5, <1>6 DEF BufferedRest

LEMMA NextBuffered ==
  ASSUME Typed, Sized, BufferedRest, [Next]_vars
  PROVE  BufferedRest'
<1>1. CASE UNCHANGED <<calls, todo>>
  BY <1>1 DEF BufferedRest, Buffered, Running, cur
<1>2. CASE todo' = <<>>
  BY <1>2 DEF BufferedRest, Running
<1>3. CASE ShortDirect
  BY <1>3, AdvanceBuffered DEF ShortDirect
<1>4. ASSUME NEW c \in Ops, Call(c) PROVE BufferedRest'
  <2>1. todo' = c /\ calls \in Seq(CallRec)
    BY <1>4 DEF Call, Typed, TypeOK
  <2>2. calls'[cur'].ops = c
    BY <1>4, <2>1 DEF Call, cur
  <2> QED
    BY <2>1, <2>2 DEF BufferedRest, Buffered
<1>5. CASE Effect
  <2>1. PICK k \in Nat, j \in Nat :
          /\ Running /\ epoch' = epoch
          /\ Advance(k) \/ Fail(k, j) \/ UNCHANGED <<calls, todo>>
    BY <1>5 DEF Effect
  <2> QED
    BY <1>1, <1>2, <2>1, AdvanceBuffered DEF Fail
<1> QED
  BY <1>1, <1>2, <1>3, <1>4, <1>5, NextEffect DEF ShortFlush, Fail, Reset, vars

(* Over an io.Writer that may take fewer bytes than it is given and return *)
(* nil, bytes are sent twice when a Flush is tried again, but no byte of a *)
(* call that returned nil is missing, when the bodies it hands to Write    *)
(* fit the buffer.  For larger ones the count is ignored.                  *)
THEOREM NothingMissing ==
  ASSUME CallsFit
  PROVE  Spec => []AtLeastOnce
<1> DEFINE I == Typed /\ Sized /\ BufferedRest /\ Present
<1>1. Init => I
  <2> SUFFICES ASSUME Init PROVE I
    OBVIOUS
  <2>1. BufferedRest /\ Current = {}
    BY EmptySeq DEF Init, BufferedRest, Running, Current
  <2> QED
    BY <2>1, InitTyped, InitSized DEF Present
<1>2. I /\ [Next]_vars => I'
  <2> SUFFICES ASSUME I, [Next]_vars PROVE I'
    OBVIOUS
  <2>1. Typed' /\ Sized' /\ Present'
    BY NextTyped, NextSized, NextPresent
  <2>2. BufferedRest'
    BY NextBuffered
  <2> QED
    BY <2>1, <2>2
<1>3. I => AtLeastOnce
  <2> SUFFICES ASSUME Typed, Present, NEW c \in Current, calls[c].st = "ok",
                      Buffered(calls[c].ops), NEW k \in 1..calls[c].asked
               PROVE  \E i \in DOMAIN Out : Out[i] = <<c, k>>
    BY DEF AtLeastOnce
  <2>1. Seen(Out, <<c, k>>)
    BY DEF Present
  <2>2. DOMAIN Out = 1..Len(Out)
    BY OutIs DEF Typed
  <2> QED
    BY <2>1, <2>2 DEF Seen
<1> QED
  BY <1>1, <1>2, <1>3, PTL DEF Spec
=============================================================================
