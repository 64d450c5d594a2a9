--------------------------------- MODULE Run --------------------------------
(***************************************************************************)
(* Run and RunData (gen/run.go), which take a package through newSource,   *)
(* print its methods and tests and write them to two files, the methods    *)
(* file from a goroutine.  A process is the command of main.go, which      *)
(* calls Run once and exits, or a program that imports gen and calls Run   *)
(* up to MaxCalls times, one call after the other, with the same output    *)
(* path.  What is printed is the set of [gen, name]: the methods and test  *)
(* functions for each identity; their text is the subject of Generated.    *)
(*                                                                         *)
(* What newSource does is left open here: it may go on for any number of   *)
(* steps, fail, end the process or find any identities and directives.     *)
(* Generator joins the steps of this module with those of Source.          *)
(***************************************************************************)
EXTENDS Naturals, Sequences

CONSTANTS Modes,      \* the values of mode: sets of methods
          MaxCalls    \* bound on the calls of Run by one process

ASSUME RunAssumption == MaxCalls \in Nat \ {0}

VARIABLES use,      \* "command" or "library"
          alive,    \* the process has not ended
          calls,    \* number of calls of Run
          main,     \* what Run is doing
          mode,     \* its argument
          out,      \* what printTo has printed
          unsized,  \* history: the identities whose Msgsize a directive leaves out
          writer,   \* the goroutine of each call: its place in formatWrite
          doneErr,  \* the channel of each call
          file,     \* methods and tests file: [by |-> call, st |-> state]
          ret,      \* what the last call returned: "none", "nil" or "err"
          left      \* history: a call has returned before its goroutine ended

run == <<use, alive, calls, main, mode, out, unsized, writer, doneErr, file, ret, left>>

-----------------------------------------------------------------------------
(* The generators of newGeneratorSet, each the set of its Method bits.     *)
Generators ==
  {{"decode"}, {"encode"}, {"marshal"}, {"unmarshal"}, {"size"},
   {"marshal", "unmarshal", "test"}, {"encode", "decode", "test"}}

newGeneratorSet == {g \in Generators : g \subseteq mode}

(* Mutant: a directive reaches the generator of its method alone.          *)
ReachesOnly(m, g) == g = {m}

(* ApplyDirective: the generators that a directive for a method reaches,   *)
(* those of the tests that call the method too.                            *)
Reaches(m, g) == m \in g

(* ds: the directives that newSource has kept.                             *)
Passed(ds, g, name) ==
  \A i \in DOMAIN ds : ~(Reaches(ds[i].m, g) /\ name \in ds[i].names)

(* The methods that the templates of a test generator call: those of its   *)
(* bits, and Msgsize.                                                      *)
TestCalls(g) == (g \ {"test"}) \cup {"size"}

(* The identities whose Msgsize the directives leave out.                  *)
Unsized(ids, ds) ==
  {n \in DOMAIN ids :
     \E i \in DOMAIN ds : ds[i].m = "size" /\ ids[n].name \in ds[i].names}

(* Execute of every generator, for an element that can be printed.         *)
Executes(ds, g, e) ==
  /\ Passed(ds, g, e.name)
  /\ "test" \in g => e.k \in {"struct", "array", "slice", "map"}

(* ids: the identities that can be printed.                                *)
printTo(ids, ds) ==
  {p \in [gen : newGeneratorSet, name : DOMAIN ids] :
     Executes(ds, p.gen, ids[p.name])}

-----------------------------------------------------------------------------
(* formatWrite of call c for file f: imports.Process, then WriteFile opens *)
(* and truncates the file and fills it.  Each may fail, the last halfway.  *)
Filled(f, c, st) ==
  [file EXCEPT ![f] = [by |-> c, st |-> IF @.by = c THEN st ELSE "mixed"]]

formatWrite(f, c, at, to, err) ==
  \/ at = "format" /\ to = "open" /\ err = "more" /\ file' = file
  \/ at = "open" /\ to = "fill" /\ err = "more"
     /\ file' = [file EXCEPT ![f] = [by |-> c, st |-> "empty"]]
  \/ at \in {"format", "open"} /\ to = "done" /\ err = "err" /\ file' = file
  \/ at = "fill" /\ to = "done" /\ err = "nil" /\ file' = Filled(f, c, "whole")
  \/ at = "fill" /\ to = "done" /\ err = "err" /\ file' = Filled(f, c, "part")

Places == {"format", "open", "fill", "done"}

(* The goroutine has an error, or nil, to send.                            *)
Sending(err) == IF err = "nil" THEN "send nil" ELSE "send err"

(* Run returns, and main.go exits after it.                                *)
Returns(err) ==
  /\ main' = "idle" /\ ret' = err
  /\ alive' = (use = "library")
  /\ out' = {} /\ unsized' = {} /\ mode' = mode

(* The modes that the flags of the command make.                           *)
FlagModes ==
  {UNION on : on \in SUBSET {{"encode", "decode", "size"},
                             {"marshal", "unmarshal", "size"}, {"test"}}}

Call ==
  /\ alive /\ main = "idle" /\ calls < (IF use = "command" THEN 1 ELSE MaxCalls)
  /\ mode' \in {m \in Modes : use = "command" => m \in FlagModes}
  /\ calls' = calls + 1
  /\ main' = "data" /\ ret' = "none" /\ out' = {} /\ unsized' = {}
  /\ UNCHANGED <<use, alive, writer, doneErr, file, left>>

NoMethods ==
  /\ alive /\ main = "data" /\ mode \ {"test"} = {}
  /\ Returns("err")
  /\ UNCHANGED <<use, calls, writer, doneErr, file, left>>

(* newSource finds no package to parse.                                    *)
NoPackage ==
  /\ alive /\ main = "data" /\ mode \ {"test"} # {}
  /\ Returns("err")
  /\ UNCHANGED <<use, calls, writer, doneErr, file, left>>

(* newSource begins, it goes on or the process dies of it, and it returns  *)
(* with nothing to generate.                                               *)
Parses ==
  /\ alive /\ main = "data" /\ mode \ {"test"} # {}
  /\ main' = "source"
  /\ UNCHANGED <<use, alive, calls, mode, out, unsized, writer, doneErr, file, ret, left>>

GoesOn(lives) ==
  /\ alive /\ main = "source"
  /\ alive' = lives
  /\ UNCHANGED <<use, calls, main, mode, out, unsized, writer, doneErr, file, ret, left>>

FindsNothing ==
  /\ alive /\ main = "source"
  /\ Returns("err")
  /\ UNCHANGED <<use, calls, writer, doneErr, file, left>>

Finds(ids, ds) ==
  /\ alive /\ main = "source"
  /\ out' = printTo(ids, ds)
  /\ unsized' = Unsized(ids, ds)
  /\ main' = "start"
  /\ UNCHANGED <<use, alive, calls, mode, writer, doneErr, file, ret, left>>

(* Mutant: a channel without a buffer.                                     *)
Capacity0 == 0

(* The capacity of doneErr.                                                *)
Capacity == 1

Start ==
  /\ alive /\ main = "start"
  /\ writer' = [writer EXCEPT ![calls] = "format"]
  /\ main' = IF "test" \in mode THEN "format" ELSE "receive"
  /\ UNCHANGED <<use, alive, calls, mode, out, unsized, doneErr, file, ret, left>>

(* The tests file, written by Run itself.                                  *)
WriteTests ==
  /\ alive /\ main \in Places
  /\ \E to \in Places, err \in {"more", "nil", "err"} :
       /\ formatWrite("tests", calls, main, to, err)
       /\ IF err = "err"
            THEN Returns("err") /\ left' = (left \/ writer[calls] # "ended")
            ELSE /\ main' = IF to = "done" THEN "receive" ELSE to
                 /\ UNCHANGED <<alive, mode, out, unsized, ret, left>>
  /\ UNCHANGED <<use, calls, writer, doneErr>>

WriteMethods(c) ==
  /\ alive /\ writer[c] \in Places
  /\ \E to \in Places, err \in {"more", "nil", "err"} :
       /\ formatWrite("methods", c, writer[c], to, err)
       /\ writer' = [writer EXCEPT ![c] = IF to # "done" THEN to ELSE Sending(err)]
  /\ UNCHANGED <<use, alive, calls, main, mode, out, unsized, doneErr, ret, left>>

HasRoom(c) == Len(doneErr[c]) < Capacity

(* doneErr <- err: there is room, or Run is waiting.                       *)
Send(c) ==
  /\ alive
  /\ HasRoom(c) \/ (c = calls /\ main = "receive")
  /\ \E err \in {"nil", "err"} :
       /\ writer[c] = Sending(err)
       /\ doneErr' = [doneErr EXCEPT ![c] = Append(@, err)]
  /\ writer' = [writer EXCEPT ![c] = "ended"]
  /\ UNCHANGED <<use, alive, calls, main, mode, out, unsized, file, ret, left>>

(* Mutant: Run does not wait for the methods file.                         *)
ReceiveNothing ==
  /\ alive /\ main = "receive"
  /\ Returns("nil")
  /\ UNCHANGED <<use, calls, writer, doneErr, file, left>>

(* return <-doneErr                                                        *)
Receive ==
  /\ alive /\ main = "receive" /\ doneErr[calls] # <<>>
  /\ Returns(Head(doneErr[calls]))
  /\ doneErr' = [doneErr EXCEPT ![calls] = Tail(@)]
  /\ UNCHANGED <<use, calls, writer, file, left>>

-----------------------------------------------------------------------------
RunInit ==
  /\ use \in {"command", "library"}
  /\ alive = TRUE /\ calls = 0 /\ main = "idle" /\ mode = {}
  /\ out = {} /\ unsized = {}
  /\ writer = [c \in 1..MaxCalls |-> "none"]
  /\ doneErr = [c \in 1..MaxCalls |-> <<>>]
  /\ file = [f \in {"methods", "tests"} |-> [by |-> 0, st |-> "old"]]
  /\ ret = "none" /\ left = FALSE

(* The steps of Run by itself.                                             *)
OwnStep == NoMethods \/ NoPackage \/ Start \/ WriteTests \/ Receive

WriterStep(c) == WriteMethods(c) \/ Send(c)

RunNext ==
  \/ Call \/ OwnStep \/ Parses \/ FindsNothing
  \/ \E lives \in BOOLEAN : GoesOn(lives)
  \/ \E ids, ds : Finds(ids, ds)
  \/ \E c \in 1..MaxCalls : WriterStep(c)

RunSpec == RunInit /\ [][RunNext]_run

-----------------------------------------------------------------------------
(* A test function is printed only with the methods that it calls,         *)
(* whatever the mode and the msgp:<method> ignore directives, but for one: *)
(* both templates call Msgsize, of which their generators' bits say        *)
(* nothing, so that it is missing when the mode has no Size or a directive *)
(* for size names the type.                                                *)
TestsHaveMethods ==
  \A p \in out : "test" \in p.gen =>
    \A m \in TestCalls(p.gen) :
      \/ [gen |-> {m}, name |-> p.name] \in out
      \/ m = "size" /\ ("size" \notin mode \/ p.name \in unsized)

(* When Run returns nil both files hold what this call printed, although   *)
(* another goroutine writes one of them, and stay so.  A call that failed  *)
(* at the tests file leaves its goroutine behind (left), and that one may  *)
(* still overwrite the methods file of a later call that returned nil.     *)
NilMeansWritten ==
  ret = "nil" /\ ~left =>
    /\ file["methods"] = [by |-> calls, st |-> "whole"]
    /\ "test" \in mode => file["tests"] = [by |-> calls, st |-> "whole"]

(* The goroutine of a call never waits to send, also when Run has returned *)
(* and nobody will receive: doneErr has room for the one error.            *)
SendHasRoom ==
  \A c \in 1..MaxCalls : writer[c] \in {"send nil", "send err"} => HasRoom(c)
=============================================================================
