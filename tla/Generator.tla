------------------------------ MODULE Generator -----------------------------
(***************************************************************************)
(* The generator: the steps of Run, with newSource as Source has it.       *)
(***************************************************************************)
EXTENDS Source, Run

vars == <<source, run>>

(* RunData calls newSource.                                                *)
RunDataCalls ==
  /\ Parses
  /\ \E p \in DOMAIN Programs, u \in BOOLEAN : NewSource(p, u)

SourceStep == newSource /\ GoesOn(phase' # "crashed")

(* newSource has returned with nothing to generate.                        *)
NothingToDo ==
  /\ phase = "failed" \/ (phase = "ready" /\ identities = NoIdentities)
  /\ FindsNothing
  /\ DropSource

(* An element that cannot be printed is passed over by every generator.    *)
PrintAll ==
  /\ phase = "ready" /\ identities # NoIdentities
  /\ LET shown == {n \in DOMAIN identities : Printable(identities[n])}
     IN Finds([n \in shown |-> identities[n]], dirs)
  /\ DropSource

Init == NoSource /\ RunInit

RunStep ==
  \/ OwnStep /\ UNCHANGED source
  \/ RunDataCalls \/ SourceStep \/ NothingToDo \/ PrintAll

Writing(c) == WriterStep(c) /\ UNCHANGED source

Next ==
  \/ Call /\ UNCHANGED source
  \/ RunStep
  \/ \E c \in 1..MaxCalls : Writing(c)

(* The scheduler of Go runs every goroutine that can run, and a file       *)
(* operation returns.  Nothing makes a program call Run again.             *)
Spec ==
  /\ Init /\ [][Next]_vars
  /\ WF_vars(RunStep)
  /\ \A c \in 1..MaxCalls : WF_vars(Writing(c))

-----------------------------------------------------------------------------
(* What the package and its directives mean.                               *)

CONSTANT MaxUnfold    \* how deep trees are compared

RECURSIVE Unfold(_, _, _)
(* What the printed code for e writes: names stand for the methods of what *)
(* they name, unless somebody else has to write those.                     *)
Unfold(ids, e, d) ==
  IF IsIdent(e)
    THEN IF e.name \in DOMAIN ids /\ ~IsIdent(ids[e.name])
           THEN Unfold(ids, ids[e.name], d)
           ELSE <<"call", e.name, e.shim, <<>>, <<>>>>
  ELSE IF e.k = "base" THEN <<"base", e.val, e.shim, <<>>, <<>>>>
  ELSE <<e.k, "", e.tuple, e.tags,
         IF d = 0 THEN <<>>
         ELSE Each(LAMBDA kid : Unfold(ids, kid, d - 1), e.kids)>>

(* The directives, as they were read.                                      *)
Asked == S!FlattenSeq([i \in DOMAIN order |-> Files[order[i]].dirs])

ShimsOf(n) == {i \in DOMAIN Asked : Asked[i].op = "shim" /\ ~Asked[i].bad /\ Asked[i].of = n}
IgnoresOf(n) == {i \in DOMAIN Asked : Asked[i].op = "ignore" /\ n \in Asked[i].names}
Shimmed == {n \in {Asked[i].of : i \in {j \in DOMAIN Asked : Asked[j].op = "shim"}} :
              ShimsOf(n) # {}}
Tuples == UNION {Asked[i].names : i \in {j \in DOMAIN Asked : Asked[j].op = "tuple"}}

(* The shim that the last directive for n asks for.                        *)
ShimFor(n) ==
  LET last == CHOOSE i \in ShimsOf(n) : \A j \in ShimsOf(n) : j <= i
  IN [Alias(Ident(Asked[last].as), n) EXCEPT !.shim = TRUE]

RECURSIVE WithShims(_)
WithShims(e) ==
  LET name == IF e.name = "" /\ e.k = "base" THEN BaseType(e.val) ELSE e.name
  IN IF name \in Shimmed THEN ShimFor(name)
     ELSE [e EXCEPT !.kids = Each(WithShims, @)]

RECURSIVE Behind(_, _)
(* The tree at the end of the chain of links that starts at n, in a        *)
(* sequence, empty when the chain ends nowhere or in itself.               *)
Behind(n, seen) ==
  IF n \in seen \/ n \notin specs THEN <<>>
  ELSE IF Tree(n) # <<>> /\ IsIdent(Tree(n)[1])
    THEN Behind(Tree(n)[1].name, seen \cup {n})
  ELSE Tree(n)

(* The names that methods are printed for.                                 *)
Meant ==
  {n \in Shimmed \cup {m \in specs : Behind(m, {}) # <<>>} :
     \A i \in IgnoresOf(n) : \E j \in ShimsOf(n) : j > i}

Meaning(n) ==
  IF n \in Shimmed THEN ShimFor(n)
  ELSE LET e == Behind(n, {})[1]
       IN [e EXCEPT !.name = n, !.tuple = (e.k = "struct" /\ n \in Tuples),
                    !.kids = Each(WithShims, @)]

(* Whatever the order of the maps, newSource has found the types that have *)
(* a declaration behind them, through any chain of links and with the      *)
(* directives applied, and inlining has not changed what the code of any   *)
(* of them writes: a name gives way to what its own methods would do.      *)
SameMeaning ==
  phase = "ready" =>
    LET ref == [n \in Meant |-> Meaning(n)]
    IN /\ DOMAIN identities = Meant
       /\ \A n \in Meant : Unfold(identities, identities[n], MaxUnfold)
                             = Unfold(ref, ref[n], MaxUnfold)

-----------------------------------------------------------------------------
RECURSIVE Names(_)
Names(e) ==
  IF IsIdent(e) THEN {e.name} ELSE UNION {Names(e.kids[i]) : i \in DOMAIN e.kids}

(* The names that may be put in place of their uses.                       *)
Small == {n \in Meant : Complexity(Meaning(n)) < maxComplex}
Uses(n, small) == Names(Meaning(n)) \cap small

(* What ns lead to without passing a.                                      *)
Reach(uses, ns, a) ==
  LET reach[k \in Nat] ==
        IF k = 0 THEN ns
        ELSE LET rs == reach[k - 1] IN (rs \cup UNION {uses[n] : n \in rs}) \ {a}
  IN  reach[Cardinality(DOMAIN uses)]

(* A type refers, perhaps through small types, to small types that contain *)
(* each other and not it.                                                  *)
OpenCycle ==
  \E small \in {Small} : \E uses \in {[n \in Meant |-> Uses(n, small)]} :
    \E a \in DOMAIN uses : \E b \in Reach(uses, uses[a] \ {a}, a) :
      \E c \in uses[b] \ {a, b} : b \in Reach(uses, {c}, a)

(* The recursion of nextInline ends for recursive types too, its only      *)
(* guard being that a type is not put into itself.  It does not for two    *)
(* small types that contain each other when a third that refers to them    *)
(* comes first in the map (OpenCycle): there the process dies.             *)
InlineEnds == phase = "crashed" => OpenCycle

(* Every call of Run returns, unless the process dies.                     *)
RunReturns == main # "idle" ~> main = "idle" \/ ~alive

(* The goroutine of a call ends even when nobody receives from it: the     *)
(* channel has room for the one error.                                     *)
WriterEnds ==
  \A c \in 1..MaxCalls : writer[c] # "none" ~> writer[c] = "ended" \/ ~alive
=============================================================================
