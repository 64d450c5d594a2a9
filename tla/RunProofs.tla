------------------------------ MODULE RunProofs -----------------------------
(***************************************************************************)
(* Proofs about Run, for every set of modes, any number of calls and       *)
(* whatever newSource does: the tests that are printed have the methods    *)
(* they call, the goroutine of a call never waits to send, and when Run    *)
(* returns nil both files are written.                                     *)
(***************************************************************************)
EXTENDS Run, TLAPS

Calls == 1..MaxCalls
Mains == {"idle", "data", "source", "start", "format", "open", "fill", "receive"}
Writers == {"none", "format", "open", "fill", "send nil", "send err", "ended"}
Contents == [by : 0..MaxCalls, st : {"old", "empty", "part", "mixed", "whole"}]

RunTyped ==
  /\ use \in {"command", "library"} /\ alive \in BOOLEAN
  /\ calls \in 0..MaxCalls
  /\ main \in Mains
  /\ writer \in [Calls -> Writers]
  /\ doneErr \in [Calls -> {<<>>, <<"nil">>, <<"err">>}]
  /\ file \in [{"methods", "tests"} -> Contents]
  /\ ret \in {"none", "nil", "err"}
  /\ left \in BOOLEAN

(* The goroutine of a call is made by its Start and sends when it ends; a  *)
(* channel that holds something belongs to a goroutine that has ended.     *)
Goroutines ==
  /\ main # "idle" => calls \in Calls /\ ret = "none"
  /\ \A c \in Calls :
       /\ c > calls \/ (c = calls /\ main \in {"data", "source", "start"})
            => writer[c] = "none"
       /\ writer[c] # "ended" => doneErr[c] = <<>>

(* The calls that have returned have no goroutine at work, unless one was  *)
(* left behind.                                                            *)
Alone ==
  ~left => \A c \in Calls :
    c < calls \/ main = "idle" => writer[c] \in {"none", "ended"}

WholeBy(c) == [by |-> c, st |-> "whole"]

(* The methods file belongs to the goroutine of the last call from the     *)
(* moment that it opens it, and is whole when that has nil to send, when   *)
(* nil is in the channel and when Run has returned it.                     *)
Methods ==
  ~left => \A c \in Calls : c = calls =>
    /\ writer[c] = "fill" => file["methods"].by = c
    /\ writer[c] = "send nil" \/ doneErr[c] = <<"nil">> \/ ret = "nil"
         => file["methods"] = WholeBy(c)

(* The tests file belongs to Run, and is whole when Run goes on to wait.   *)
Tests ==
  /\ main = "fill" => file["tests"].by = calls
  /\ (main = "receive" \/ ret = "nil") /\ "test" \in mode
       => file["tests"] = WholeBy(calls)
  /\ ret = "nil" => calls \in Calls

RunInv == RunTyped /\ Goroutines /\ Alone /\ Methods /\ Tests

-----------------------------------------------------------------------------
LEMMA InitHolds == RunInit => RunInv
<1> SUFFICES ASSUME RunInit PROVE RunInv
  OBVIOUS
<1> USE RunAssumption DEF RunInit, Calls
<1>1. RunTyped
  <2>1. file \in [{"methods", "tests"} -> Contents]
    BY DEF Contents
  <2>2. writer \in [Calls -> Writers]
    BY DEF Writers
  <2>3. doneErr \in [Calls -> {<<>>, <<"nil">>, <<"err">>}]
    OBVIOUS
  <2>4. calls \in 0..MaxCalls /\ main \in Mains
    BY DEF Mains
  <2>5. alive \in BOOLEAN /\ left \in BOOLEAN
    BY Zenon
  <2>6. use \in {"command", "library"} /\ ret \in {"none", "nil", "err"}
    OBVIOUS
  <2> QED BY <2>1, <2>2, <2>3, <2>4, <2>5, <2>6, Zenon DEF RunTyped
<1>2. Goroutines
  BY DEF Goroutines
<1>3. Alone
  BY DEF Alone
<1>4. Methods
  BY DEF Methods
<1>5. Tests
  BY DEF Tests
<1> QED BY <1>1, <1>2, <1>3, <1>4, <1>5 DEF RunInv

LEMMA CallKeeps == ASSUME RunInv, Call PROVE RunInv'
<1> USE RunAssumption DEF RunInv, Calls
<1>0. calls \in 0..MaxCalls /\ calls < MaxCalls /\ calls' = calls + 1
  BY DEF RunTyped, Call
<1>1. calls' \in Calls /\ main = "idle" /\ main' = "data" /\ ret' = "none"
  BY <1>0 DEF Call
<1>2. UNCHANGED <<use, alive, writer, doneErr, file, left>>
  BY DEF Call
<1>3. RunTyped'
  BY <1>0, <1>1, <1>2 DEF RunTyped, Mains
<1>4. \A c \in Calls : c >= calls' => writer[c] = "none" /\ doneErr[c] = <<>>
  BY <1>0 DEF Goroutines
<1>5. Goroutines'
  BY <1>0, <1>1, <1>2, <1>4 DEF Goroutines
<1>6. Alone'
  BY <1>1, <1>2 DEF Alone
<1>7. Methods'
  <2>1. ASSUME NEW c \in Calls, c = calls'
        PROVE  writer'[c] = "none" /\ doneErr'[c] # <<"nil">>
    BY <2>1, <1>0, <1>2, <1>4
  <2> QED BY <2>1, <1>1 DEF Methods
<1>8. Tests'
  BY <1>1 DEF Tests
<1> QED BY <1>3, <1>5, <1>6, <1>7, <1>8

(* Run returns an error, with the methods file as it was.                  *)
LEMMA ErrReturns ==
  ASSUME RunInv, main # "idle", Returns("err"),
         UNCHANGED <<use, calls, writer, doneErr>>,
         file' \in [{"methods", "tests"} -> Contents],
         file'["methods"] = file["methods"],
         left' \in BOOLEAN, left => left',
         left' \/ writer[calls] \in {"none", "ended"}
  PROVE  RunInv'
<1> USE RunAssumption DEF RunInv, Returns
<1>1. RunTyped'
  BY DEF RunTyped, Mains
<1>2. Goroutines'
  BY DEF RunTyped, Goroutines, Calls
<1>3. Alone'
  <2> SUFFICES ASSUME ~left', NEW c \in Calls
               PROVE  writer[c] \in {"none", "ended"}
    BY DEF Alone
  <2>1. calls \in 0..MaxCalls /\ c \in 1..MaxCalls
    BY DEF RunTyped, Calls
  <2>2. c < calls \/ c = calls \/ c > calls
    BY <2>1
  <2>3. ~left
    OBVIOUS
  <2> QED BY <2>2, <2>3 DEF Alone, Goroutines
<1>4. Methods'
  BY <1>3 DEF Methods
<1>5. Tests'
  BY DEF Tests
<1> QED BY <1>1, <1>2, <1>3, <1>4, <1>5

LEMMA EarlyReturns ==
  ASSUME RunInv, NoMethods \/ NoPackage \/ FindsNothing PROVE RunInv'
<1>1. /\ main \in {"data", "source"} /\ Returns("err")
      /\ UNCHANGED <<use, calls, writer, doneErr, file, left>>
  BY DEF NoMethods, NoPackage, FindsNothing
<1>2. RunTyped /\ Goroutines
  BY DEF RunInv
<1>3. writer[calls] = "none"
  BY <1>1, <1>2 DEF Goroutines
<1> QED BY <1>1, <1>2, <1>3, ErrReturns DEF RunTyped

(* newSource begins or goes on, or printTo has printed what it found.      *)
LEMMA SourceKeeps ==
  ASSUME RunInv,
         \/ Parses
         \/ \E lives \in BOOLEAN : GoesOn(lives)
         \/ \E ids, ds : Finds(ids, ds)
  PROVE  RunInv'
<1>1. /\ main \in {"data", "source"} /\ main' \in {"source", "start"}
      /\ alive' \in BOOLEAN
      /\ UNCHANGED <<use, calls, mode, writer, doneErr, file, ret, left>>
  BY DEF Parses, GoesOn, Finds, RunInv, RunTyped
<1> USE <1>1 DEF RunInv
<1>2. RunTyped'
  BY DEF RunTyped, Mains
<1>3. Goroutines'
  BY DEF Goroutines
<1>4. Alone'
  BY DEF Alone
<1>5. Methods'
  BY DEF Methods
<1>6. Tests'
  BY DEF Tests, Goroutines
<1> QED BY <1>2, <1>3, <1>4, <1>5, <1>6

LEMMA StartKeeps == ASSUME RunInv, Start PROVE RunInv'
<1> USE RunAssumption DEF RunInv
<1>1. /\ main = "start" /\ calls \in Calls
      /\ writer' = [writer EXCEPT ![calls] = "format"]
      /\ main' \in {"format", "receive"} /\ (main' = "receive" => "test" \notin mode)
      /\ UNCHANGED <<use, alive, calls, mode, doneErr, file, ret, left>>
  BY DEF Start, Goroutines
<1>2. \A c \in Calls : c # calls => writer'[c] = writer[c]
  BY <1>1 DEF RunTyped
<1>3. writer[calls] = "none" /\ writer'[calls] = "format"
  BY <1>1 DEF RunTyped, Goroutines
<1>4. doneErr[calls] = <<>> /\ ret = "none"
  BY <1>1, <1>3 DEF Goroutines
<1>5. RunTyped'
  BY <1>1 DEF RunTyped, Mains, Writers
<1>6. Goroutines'
  <2>1. \A c \in Calls : c > calls => writer'[c] = "none"
    BY <1>1, <1>2 DEF Goroutines, RunTyped, Calls
  <2>2. \A c \in Calls : writer'[c] # "ended" => doneErr[c] = <<>>
    BY <1>2, <1>3, <1>4 DEF Goroutines
  <2> QED BY <1>1, <1>4, <2>1, <2>2 DEF Goroutines
<1>7. Alone'
  BY <1>1, <1>2 DEF Alone, Calls
<1>8. Methods'
  BY <1>1, <1>3, <1>4 DEF Methods
<1>9. Tests'
  BY <1>1, <1>4 DEF Tests
<1> QED BY <1>5, <1>6, <1>7, <1>8, <1>9

-----------------------------------------------------------------------------
(* What one step of formatWrite does to its file, and that the other one   *)
(* is left alone.                                                          *)
LEMMA FormatWrites ==
  ASSUME RunTyped, NEW f \in {"methods", "tests"}, NEW c \in Calls, NEW at,
         NEW to \in Places, NEW err \in {"more", "nil", "err"},
         formatWrite(f, c, at, to, err)
  PROVE  /\ file' \in [{"methods", "tests"} -> Contents]
         /\ \A g \in {"methods", "tests"} : g # f => file'[g] = file[g]
         /\ to = "fill" => file'[f].by = c
         /\ err = "nil" => to = "done" /\ at = "fill"
         /\ err = "nil" /\ file[f].by = c => file'[f] = WholeBy(c)
         /\ err = "err" => to = "done"
         /\ err = "more" => to \in {"open", "fill"}
<1> DEFINE Fs == {"methods", "tests"}
<1>0. file \in [Fs -> Contents] /\ c \in 0..MaxCalls
  <2>1. c \in 0..MaxCalls
    BY RunAssumption DEF Calls
  <2> QED BY <2>1 DEF RunTyped
<1>1. ASSUME NEW st \in {"empty", "part", "mixed", "whole"}
      PROVE  [by |-> c, st |-> st] \in Contents
  BY <1>0, <1>1 DEF Contents
<1>2. ASSUME NEW r \in Contents, file' = [file EXCEPT ![f] = r]
      PROVE  /\ file' \in [Fs -> Contents] /\ file'[f] = r
             /\ \A g \in Fs : g # f => file'[g] = file[g]
  BY <1>0, <1>2
<1>3. CASE file' = file /\ ((to = "open" /\ err = "more") \/ (to = "done" /\ err = "err"))
  BY <1>0, <1>3
<1>4. CASE to = "fill" /\ err = "more" /\ file' = [file EXCEPT ![f] = [by |-> c, st |-> "empty"]]
  <2>1. [by |-> c, st |-> "empty"] \in Contents
    BY <1>1
  <2> QED BY <1>2, <1>4, <2>1
<1>5. ASSUME NEW st \in {"part", "whole"}, file' = Filled(f, c, st)
      PROVE  /\ file' \in [Fs -> Contents]
             /\ \A g \in Fs : g # f => file'[g] = file[g]
             /\ file[f].by = c => file'[f] = [by |-> c, st |-> st]
  <2> DEFINE r == [by |-> c, st |-> IF file[f].by = c THEN st ELSE "mixed"]
  <2>1. r \in Contents
    BY <1>1
  <2>2. file' = [file EXCEPT ![f] = r]
    BY <1>5 DEF Filled
  <2>3. file[f].by = c => r = [by |-> c, st |-> st]
    OBVIOUS
  <2> HIDE DEF r
  <2> QED BY <1>2, <2>1, <2>2, <2>3
<1>6. CASE at = "fill" /\ to = "done" /\ err = "nil" /\ file' = Filled(f, c, "whole")
  BY <1>5, <1>6 DEF WholeBy
<1>7. CASE to = "done" /\ err = "err" /\ file' = Filled(f, c, "part")
  BY <1>5, <1>7
<1>8. \/ file' = file /\ ((to = "open" /\ err = "more") \/ (to = "done" /\ err = "err"))
      \/ to = "fill" /\ err = "more" /\ file' = [file EXCEPT ![f] = [by |-> c, st |-> "empty"]]
      \/ at = "fill" /\ to = "done" /\ err = "nil" /\ file' = Filled(f, c, "whole")
      \/ to = "done" /\ err = "err" /\ file' = Filled(f, c, "part")
  BY DEF formatWrite
<1> QED BY <1>3, <1>4, <1>6, <1>7, <1>8

LEMMA WriteTestsKeeps == ASSUME RunInv, WriteTests PROVE RunInv'
<1> USE DEF RunInv
<1>1. PICK to \in Places, err \in {"more", "nil", "err"} :
        /\ formatWrite("tests", calls, main, to, err)
        /\ IF err = "err"
             THEN Returns("err") /\ left' = (left \/ writer[calls] # "ended")
             ELSE /\ main' = IF to = "done" THEN "receive" ELSE to
                  /\ UNCHANGED <<alive, mode, out, unsized, ret, left>>
  BY DEF WriteTests
<1>2. main # "idle" /\ UNCHANGED <<use, calls, writer, doneErr>>
  BY DEF WriteTests, Places
<1>3. calls \in Calls /\ ret = "none"
  BY <1>2 DEF Goroutines
<1>4. /\ file' \in [{"methods", "tests"} -> Contents]
      /\ file'["methods"] = file["methods"]
      /\ to = "fill" => file'["tests"].by = calls
      /\ err = "nil" => to = "done" /\ main = "fill"
      /\ err = "nil" /\ file["tests"].by = calls => file'["tests"] = WholeBy(calls)
      /\ err = "err" => to = "done"
      /\ err = "more" => to \in {"open", "fill"}
  <2>1. "tests" \in {"methods", "tests"} /\ "methods" \in {"methods", "tests"}
    OBVIOUS
  <2>2. formatWrite("tests", calls, main, to, err) /\ RunTyped
    BY <1>1
  <2> QED BY <1>3, <2>1, <2>2, FormatWrites
<1>5. CASE err = "err"
  <2>1. Returns("err") /\ left' = (left \/ writer[calls] # "ended")
    BY <1>1, <1>5
  <2>2. left' \in BOOLEAN /\ (left => left')
    BY <2>1, Zenon DEF RunTyped
  <2>3. left' \/ writer[calls] \in {"none", "ended"}
    BY <2>1, Zenon
  <2> QED BY <1>2, <1>4, <2>1, <2>2, <2>3, ErrReturns
<1>6. CASE err # "err"
  <2>1. /\ main' = IF to = "done" THEN "receive" ELSE to
        /\ UNCHANGED <<alive, mode, out, unsized, ret, left>>
    BY <1>1, <1>6
  <2>2. main' \in {"open", "fill", "receive"}
    BY <1>4, <1>6, <2>1
  <2>3. RunTyped'
    BY <1>2, <1>4, <2>1, <2>2 DEF RunTyped, Mains
  <2>4. main \notin {"data", "source", "start"}
    BY DEF WriteTests, Places
  <2>5. Goroutines'
    BY <1>2, <1>3, <2>1, <2>2 DEF Goroutines
  <2>6. Alone'
    BY <1>2, <2>1, <2>2 DEF Alone
  <2>7. Methods'
    BY <1>2, <1>3, <1>4, <2>1 DEF Methods
  <2>8. Tests'
    <3>1. main' = "fill" => file'["tests"].by = calls
      BY <1>4, <1>6, <2>1
    <3>2. main' = "receive" => file'["tests"] = WholeBy(calls)
      BY <1>4, <1>6, <2>1 DEF Tests
    <3> QED BY <3>1, <3>2, <1>2, <1>3, <2>1 DEF Tests, WholeBy
  <2> QED BY <2>3, <2>5, <2>6, <2>7, <2>8
<1> QED BY <1>5, <1>6

LEMMA WriteMethodsKeeps ==
  ASSUME RunInv, NEW d \in Calls, WriteMethods(d) PROVE RunInv'
<1> USE DEF RunInv
<1>1. PICK to \in Places, err \in {"more", "nil", "err"} :
        /\ formatWrite("methods", d, writer[d], to, err)
        /\ writer' = [writer EXCEPT ![d] = IF to # "done" THEN to ELSE Sending(err)]
  BY DEF WriteMethods
<1>2. /\ writer[d] \in Places
      /\ UNCHANGED <<use, alive, calls, main, mode, out, unsized, doneErr, ret, left>>
  BY DEF WriteMethods
<1>3. /\ file' \in [{"methods", "tests"} -> Contents]
      /\ file'["tests"] = file["tests"]
      /\ to = "fill" => file'["methods"].by = d
      /\ err = "nil" => to = "done" /\ writer[d] = "fill"
      /\ err = "nil" /\ file["methods"].by = d => file'["methods"] = WholeBy(d)
      /\ err = "err" => to = "done"
      /\ err = "more" => to \in {"open", "fill"}
  <2>1. "tests" \in {"methods", "tests"} /\ "methods" \in {"methods", "tests"}
    OBVIOUS
  <2>2. formatWrite("methods", d, writer[d], to, err) /\ RunTyped
    BY <1>1
  <2> QED BY <2>1, <2>2, FormatWrites
<1>4. /\ \A c \in Calls : c # d => writer'[c] = writer[c]
      /\ writer'[d] = IF to # "done" THEN to ELSE Sending(err)
  BY <1>1 DEF RunTyped
<1>5. /\ writer'[d] \in {"open", "fill", "send nil", "send err"}
      /\ writer'[d] = "fill" => to = "fill"
      /\ writer'[d] = "send nil" => err = "nil"
  BY <1>3, <1>4 DEF Sending
<1>6. doneErr[d] = <<>>
  BY <1>2 DEF Goroutines, Places
<1>7. RunTyped'
  BY <1>1, <1>2, <1>3, <1>4, <1>5 DEF RunTyped, Writers
<1>8. Goroutines'
  <2>1. ~(d > calls \/ (d = calls /\ main \in {"data", "source", "start"}))
    BY <1>2 DEF Goroutines, Places
  <2> QED BY <1>2, <1>4, <1>5, <1>6, <2>1 DEF Goroutines
<1>9. ASSUME ~left PROVE d = calls /\ main # "idle"
  <2>1. ~(d < calls \/ main = "idle")
    BY <1>2, <1>9 DEF Alone, Places
  <2>2. ~(d > calls)
    BY <1>2 DEF Goroutines, Places
  <2>3. d \in 1..MaxCalls /\ calls \in 0..MaxCalls
    BY DEF RunTyped, Calls
  <2> QED BY <2>1, <2>2, <2>3, RunAssumption
<1>10. Alone'
  <2> SUFFICES ASSUME ~left, NEW c \in Calls, c < calls \/ main = "idle"
               PROVE  writer'[c] \in {"none", "ended"}
    BY <1>2 DEF Alone
  <2>1. c # d
    BY <1>9 DEF RunTyped, Calls
  <2> QED BY <1>4, <2>1 DEF Alone
<1>11. Methods'
  <2> SUFFICES ASSUME ~left, NEW c \in Calls, c = calls
               PROVE  /\ writer'[c] = "fill" => file'["methods"].by = c
                      /\ writer'[c] = "send nil" \/ doneErr[c] = <<"nil">> \/ ret = "nil"
                           => file'["methods"] = WholeBy(c)
    BY <1>2 DEF Methods
  <2>1. c = d /\ ret = "none" /\ doneErr[c] # <<"nil">>
    BY <1>6, <1>9 DEF Goroutines
  <2>2. err = "nil" => file["methods"].by = d
    BY <1>3, <2>1 DEF Methods
  <2> QED BY <1>3, <1>5, <2>1, <2>2
<1>12. Tests'
  BY <1>2, <1>3 DEF Tests, WholeBy
<1> QED BY <1>7, <1>8, <1>10, <1>11, <1>12

LEMMA SendKeeps == ASSUME RunInv, NEW d \in Calls, Send(d) PROVE RunInv'
<1> USE DEF RunInv
<1>1. PICK err \in {"nil", "err"} :
        /\ writer[d] = Sending(err)
        /\ doneErr' = [doneErr EXCEPT ![d] = Append(@, err)]
  BY DEF Send
<1>2. /\ writer' = [writer EXCEPT ![d] = "ended"]
      /\ UNCHANGED <<use, alive, calls, main, mode, out, unsized, file, ret, left>>
  BY DEF Send
<1>3. writer[d] \in {"send nil", "send err"} /\ (writer[d] = "send nil" <=> err = "nil")
  BY <1>1 DEF Sending
<1>4. doneErr[d] = <<>>
  BY <1>3 DEF Goroutines
<1>5. /\ \A c \in Calls : c # d => writer'[c] = writer[c] /\ doneErr'[c] = doneErr[c]
      /\ writer'[d] = "ended" /\ doneErr'[d] = <<err>>
  BY <1>1, <1>2, <1>4 DEF RunTyped
<1>6. RunTyped'
  <2>1. doneErr' \in [Calls -> {<<>>, <<"nil">>, <<"err">>}]
    BY <1>1, <1>4, <1>5 DEF RunTyped
  <2> QED BY <1>2, <2>1 DEF RunTyped, Writers
<1>7. Goroutines'
  <2>1. ~(d > calls \/ (d = calls /\ main \in {"data", "source", "start"}))
    BY <1>3 DEF Goroutines
  <2> QED BY <1>2, <1>5, <2>1 DEF Goroutines
<1>8. Alone'
  BY <1>2, <1>5 DEF Alone
<1>9. Methods'
  <2> SUFFICES ASSUME ~left, NEW c \in Calls, c = calls
               PROVE  /\ writer'[c] = "fill" => file["methods"].by = c
                      /\ writer'[c] = "send nil" \/ doneErr'[c] = <<"nil">> \/ ret = "nil"
                           => file["methods"] = WholeBy(c)
    BY <1>2 DEF Methods
  <2>1. CASE c # d
    BY <1>5, <2>1 DEF Methods
  <2>2. CASE c = d
    <3>1. doneErr'[c] = <<"nil">> => err = "nil"
      BY <1>5, <2>2
    <3> QED BY <1>3, <1>5, <2>2, <3>1 DEF Methods
  <2> QED BY <2>1, <2>2
<1>10. Tests'
  BY <1>2 DEF Tests
<1> QED BY <1>6, <1>7, <1>8, <1>9, <1>10

LEMMA ReceiveKeeps == ASSUME RunInv, Receive PROVE RunInv'
<1> USE DEF RunInv
<1>1. /\ main = "receive" /\ doneErr[calls] # <<>>
      /\ Returns(Head(doneErr[calls]))
      /\ doneErr' = [doneErr EXCEPT ![calls] = Tail(@)]
      /\ UNCHANGED <<use, calls, writer, file, left>>
  BY DEF Receive
<1>2. calls \in Calls
  BY <1>1 DEF Goroutines
<1>3. PICK err \in {"nil", "err"} : doneErr[calls] = <<err>>
  BY <1>1, <1>2 DEF RunTyped
<1>4. /\ \A c \in Calls : c # calls => doneErr'[c] = doneErr[c]
      /\ doneErr'[calls] = <<>> /\ ret' = err /\ main' = "idle" /\ mode' = mode
  BY <1>1, <1>2, <1>3 DEF RunTyped, Returns
<1>5. writer[calls] = "ended"
  BY <1>1, <1>2 DEF Goroutines
<1>6. RunTyped'
  <2>1. doneErr' \in [Calls -> {<<>>, <<"nil">>, <<"err">>}]
    BY <1>1, <1>2, <1>4 DEF RunTyped
  <2>2. alive' \in BOOLEAN
    BY <1>1, Zenon DEF Returns
  <2> QED BY <1>1, <1>4, <2>1, <2>2 DEF RunTyped, Mains
<1>7. Goroutines'
  BY <1>1, <1>4, <1>5 DEF Goroutines
<1>8. Alone'
  <2> SUFFICES ASSUME ~left, NEW c \in Calls
               PROVE  writer[c] \in {"none", "ended"}
    BY <1>1 DEF Alone
  <2>1. c \in 1..MaxCalls /\ calls \in 0..MaxCalls
    BY DEF RunTyped, Calls
  <2>2. c < calls \/ c = calls \/ c > calls
    BY <2>1, RunAssumption
  <2> QED BY <1>5, <2>2 DEF Alone, Goroutines
<1>9. Methods'
  <2>1. ~left /\ err = "nil" => file["methods"] = WholeBy(calls)
    BY <1>2, <1>3 DEF Methods
  <2>2. doneErr'[calls] # <<"nil">>
    BY <1>4
  <2> QED BY <1>1, <1>4, <1>5, <2>1, <2>2 DEF Methods
<1>10. Tests'
  BY <1>1, <1>2, <1>4 DEF Tests
<1> QED BY <1>6, <1>7, <1>8, <1>9, <1>10

-----------------------------------------------------------------------------
LEMMA StepKeeps == RunInv /\ [RunNext]_run => RunInv'
<1> SUFFICES ASSUME RunInv, [RunNext]_run PROVE RunInv'
  OBVIOUS
<1>1. CASE Call
  BY <1>1, CallKeeps
<1>2. CASE NoMethods \/ NoPackage \/ FindsNothing
  BY <1>2, EarlyReturns
<1>3. CASE \/ Parses
           \/ \E lives \in BOOLEAN : GoesOn(lives)
           \/ \E ids, ds : Finds(ids, ds)
  BY <1>3, SourceKeeps
<1>4. CASE Start
  BY <1>4, StartKeeps
<1>5. CASE WriteTests
  BY <1>5, WriteTestsKeeps
<1>6. CASE Receive
  BY <1>6, ReceiveKeeps
<1>7. CASE \E c \in Calls : WriterStep(c)
  BY <1>7, WriteMethodsKeeps, SendKeeps DEF WriterStep
<1>8. CASE UNCHANGED run
  BY <1>8 DEF run, RunInv, RunTyped, Goroutines, Alone, Methods, Tests
<1> QED
  BY <1>1, <1>2, <1>3, <1>4, <1>5, <1>6, <1>7, <1>8 DEF RunNext, OwnStep, Calls

LEMMA InvHolds == RunSpec => []RunInv
BY InitHolds, StepKeeps, PTL DEF RunSpec

(* When Run returns nil both files hold what this call printed and stay    *)
(* so, in every order of the goroutine and of Run itself and whatever      *)
(* fails, as long as no call has left its goroutine behind.                *)
THEOREM NilIsWritten == RunSpec => []NilMeansWritten
<1>1. RunInv => NilMeansWritten
  <2> SUFFICES ASSUME RunInv, ret = "nil", ~left
               PROVE  /\ file["methods"] = [by |-> calls, st |-> "whole"]
                      /\ "test" \in mode => file["tests"] = [by |-> calls, st |-> "whole"]
    BY DEF NilMeansWritten
  <2> QED BY DEF RunInv, Methods, Tests, WholeBy
<1> QED BY <1>1, InvHolds, PTL

LEMMA EmptySeqRoom == Len(<<>>) < Capacity
<1>1. Len(<<>>) = 0
  OBVIOUS
<1> QED BY <1>1 DEF Capacity

(* The goroutine of a call always finds room in doneErr for the one error  *)
(* it sends, also when Run has returned without it: none is left blocked.  *)
THEOREM SendNeverWaits == RunSpec => []SendHasRoom
<1>1. RunInv => SendHasRoom
  <2> SUFFICES ASSUME RunInv, NEW c \in Calls, writer[c] \in {"send nil", "send err"}
               PROVE  Len(doneErr[c]) < Capacity
    BY DEF SendHasRoom, Calls, HasRoom
  <2>1. doneErr[c] = <<>>
    BY DEF RunInv, Goroutines
  <2>2. Len(<<>>) < Capacity
    BY EmptySeqRoom
  <2> QED BY <2>1, <2>2
<1> QED BY <1>1, InvHolds, PTL

-----------------------------------------------------------------------------
(* printTo prints a test function only with the methods in the bits of its *)
(* generator: a directive that reaches the generator of the method reaches *)
(* that of the test.                                                       *)
LEMMA PrintsMethods ==
  ASSUME NEW ids, NEW ds, NEW p \in printTo(ids, ds), "test" \in p.gen,
         NEW m \in p.gen \ {"test"}
  PROVE  [gen |-> {m}, name |-> p.name] \in printTo(ids, ds)
<1> DEFINE q == [gen |-> {m}, name |-> p.name]
<1>1. /\ p.gen \in Generators /\ p.gen \subseteq mode
      /\ p.name \in DOMAIN ids /\ Executes(ds, p.gen, ids[p.name])
  BY DEF printTo, newGeneratorSet
<1>2. p.gen = {"marshal", "unmarshal", "test"} \/ p.gen = {"encode", "decode", "test"}
  BY <1>1 DEF Generators
<1>3. {m} \in newGeneratorSet /\ m # "test"
  <2>1. m \in {"marshal", "unmarshal", "encode", "decode"}
    BY <1>2
  <2>2. {m} \in Generators
    BY <2>1 DEF Generators
  <2> QED BY <1>1, <2>2 DEF newGeneratorSet
<1>4. Passed(ds, {m}, ids[p.name].name)
  BY <1>1 DEF Executes, Passed, Reaches
<1>5. Executes(ds, {m}, ids[p.name])
  BY <1>3, <1>4 DEF Executes
<1> QED BY <1>1, <1>3, <1>5 DEF printTo

(* printTo prints Msgsize for an identity with a test function, unless the *)
(* mode or a directive for size leaves it out: no directive for another    *)
(* method reaches the generator of Msgsize.                                *)
LEMMA PrintsSize ==
  ASSUME NEW ids, NEW ds, NEW p \in printTo(ids, ds),
         "size" \in mode, p.name \notin Unsized(ids, ds)
  PROVE  [gen |-> {"size"}, name |-> p.name] \in printTo(ids, ds)
<1>1. p.name \in DOMAIN ids
  BY DEF printTo
<1>2. {"size"} \in newGeneratorSet
  BY DEF newGeneratorSet, Generators
<1>3. Passed(ds, {"size"}, ids[p.name].name)
  BY <1>1 DEF Passed, Reaches, Unsized
<1>4. Executes(ds, {"size"}, ids[p.name])
  BY <1>3 DEF Executes
<1> QED BY <1>1, <1>2, <1>4 DEF printTo

(* A test function is printed only with the methods that it calls, for     *)
(* every mode and whatever identities and directives newSource has found;  *)
(* Msgsize, which both templates call, is missing when the mode has no     *)
(* Size or a directive for size names the type, and in no other case.      *)
THEOREM TestsComplete == RunSpec => []TestsHaveMethods
<1>1. RunInit => TestsHaveMethods
  BY DEF RunInit, TestsHaveMethods
<1>2. TestsHaveMethods /\ [RunNext]_run => TestsHaveMethods'
  <2> SUFFICES ASSUME TestsHaveMethods, [RunNext]_run PROVE TestsHaveMethods'
    OBVIOUS
  <2>1. CASE out' = {}
    BY <2>1 DEF TestsHaveMethods
  <2>2. CASE out' = out /\ unsized' = unsized /\ mode' = mode
    BY <2>2 DEF TestsHaveMethods
  <2>3. ASSUME NEW ids, NEW ds, Finds(ids, ds)
        PROVE  TestsHaveMethods'
    <3>1. /\ out' = printTo(ids, ds) /\ mode' = mode
          /\ unsized' = Unsized(ids, ds)
      BY <2>3 DEF Finds
    <3> SUFFICES ASSUME NEW p \in printTo(ids, ds), "test" \in p.gen,
                        NEW m \in TestCalls(p.gen)
                 PROVE  \/ [gen |-> {m}, name |-> p.name] \in printTo(ids, ds)
                        \/ m = "size" /\ ("size" \notin mode
                                            \/ p.name \in Unsized(ids, ds))
      BY <3>1 DEF TestsHaveMethods
    <3>2. CASE m \in p.gen \ {"test"}
      BY <3>2, PrintsMethods
    <3>3. CASE m = "size"
      BY <3>3, PrintsSize
    <3> QED BY <3>2, <3>3 DEF TestCalls
  <2>4. \/ out' = {}
        \/ out' = out /\ unsized' = unsized /\ mode' = mode
        \/ \E ids, ds : Finds(ids, ds)
    BY DEF RunNext, run, OwnStep, Call, NoMethods, NoPackage, Parses, FindsNothing,
           GoesOn, Start, WriteTests, Receive, WriterStep, WriteMethods, Send,
           Returns
  <2> QED BY <2>1, <2>2, <2>3, <2>4
<1> QED BY <1>1, <1>2, PTL DEF RunSpec
=============================================================================
