------------------------------- MODULE Source -------------------------------
(***************************************************************************)
(* newSource (gen/source.go): the files of a package are read for their    *)
(* type specs and directives, the specs become identities, the directives  *)
(* (gen/directives.go) change them and propInline (gen/inline.go) puts     *)
(* small identities in place of their names.  A Go map is ranged over in   *)
(* any order: where the order can be observed a step takes one element.    *)
(*                                                                         *)
(* Programs[prog] is a sequence of files, [decls |-> <<[name, type],...>>, *)
(* dirs |-> <<directive, ...>>].  A directive is                           *)
(*   [op |-> "shim", of, as, bad]    bad: applyShim finds it malformed     *)
(*   [op |-> "tuple" | "ignore", names]                                    *)
(*   [op |-> "pass", m, names]       msgp:<method> ignore <names>          *)
(* with the names that the words of the directive match.                   *)
(***************************************************************************)
EXTENDS Elem, FiniteSets, TLC

CONSTANTS Programs,    \* the packages that may be given to newSource
          Lower,       \* the names that Go does not export
          MaxDepth     \* how deep a tree may get before the stack is used up

ASSUME SourceAssumption == MaxDepth \in Nat /\ Len(Programs) > 0

VARIABLES prog,         \* the package
          unexported,   \* the argument of the same name
          phase,        \* what newSource is doing
          order,        \* the files read, in the order of the map of files
          specs,        \* names of s.specs
          identities,   \* s.identities
          dirs, kept,   \* s.directives, newdirs of applyDirectives
          ls,           \* names of the linkset
          todo,         \* what the running loop over a map has still to visit
          progress,     \* of resolve
          cur, stack    \* propInline: the identity, the pending nextInline calls

source == <<prog, unexported, phase, order, specs, identities, dirs, kept,
            ls, todo, progress, cur, stack>>

NoIdentities == [n \in {} |-> Node("", <<>>)]

(* No call of newSource is under way and its result is not in use.         *)
NoSource ==
  /\ prog = 1 /\ unexported = FALSE /\ phase = "none" /\ order = <<>> /\ specs = {}
  /\ identities = NoIdentities /\ dirs = <<>> /\ kept = <<>>
  /\ ls = {} /\ todo = {} /\ progress = FALSE /\ cur = "" /\ stack = <<>>

DropSource ==
  /\ prog' = 1 /\ unexported' = FALSE /\ phase' = "none" /\ order' = <<>> /\ specs' = {}
  /\ identities' = NoIdentities /\ dirs' = <<>> /\ kept' = <<>>
  /\ ls' = {} /\ todo' = {} /\ progress' = FALSE /\ cur' = "" /\ stack' = <<>>

-----------------------------------------------------------------------------
(* External: ast.FileExports drops what is not exported, fields too.       *)
RECURSIVE ExportsOf(_)
ExportsOf(e) ==
  CASE e.k \in {"star", "slice", "array", "map"} -> [e EXCEPT !.of = ExportsOf(@)]
    [] e.k = "struct" ->
         LET Trim(f) == [f EXCEPT !.names = SelectSeq(@, LAMBDA n : n \notin Lower),
                                  !.of = ExportsOf(@)]
             Stays(f) == IF f.names = <<>> THEN embedded(f.of) \notin Lower
                         ELSE \E i \in DOMAIN f.names : f.names[i] \notin Lower
             fs == SelectSeq(e.fields, Stays)
         IN [e EXCEPT !.fields = Each(Trim, fs)]
    [] OTHER -> e

Visible(n) == unexported \/ n \notin Lower

(* getTypeSpecs: the specs of a file that can be parsed.                   *)
getTypeSpecs(f) ==
  {n \in {f.decls[i].name : i \in DOMAIN f.decls} :
     /\ Visible(n)
     /\ \E i \in DOMAIN f.decls :
          /\ f.decls[i].name = n
          /\ f.decls[i].type.k \in {"struct", "slice", "array", "star", "map", "ident"}}

(* What parseExpr makes of the declarations of a package, by name.         *)
Trees ==
  [p \in DOMAIN Programs, u \in BOOLEAN |->
     LET decls == S!FlattenSeq([i \in DOMAIN Programs[p] |-> Programs[p][i].decls])
         Type(n) == decls[CHOOSE i \in DOMAIN decls : decls[i].name = n].type
     IN [n \in {decls[i].name : i \in DOMAIN decls} |->
           parseExpr(IF u THEN Type(n) ELSE ExportsOf(Type(n)))]]

Tree(n) == Trees[prog, unexported][n]

Files == Programs[prog]
Unread == DOMAIN Files \ {order[i] : i \in DOMAIN order}

(* newSource called: one file, or a directory of them.                     *)
NewSource(p, u) ==
  /\ phase = "none"
  /\ prog' = p /\ unexported' = u /\ phase' = "read"
  /\ UNCHANGED <<order, specs, identities, dirs, kept, ls, todo, progress, cur, stack>>

ReadFile ==
  /\ phase = "read"
  /\ \E f \in Unread :
       /\ order' = Append(order, f)
       /\ dirs' = dirs \o Files[f].dirs
       /\ specs' = specs \cup getTypeSpecs(Files[f])
  /\ UNCHANGED <<prog, unexported, phase, identities, kept, ls, todo, progress, cur, stack>>

-----------------------------------------------------------------------------
(* Mutant: inlining comes before the directives.                           *)
PassesInlineFirst == <<"process", "inline", "directives", "ready">>

(* The passes over the specs, in order.                                    *)
Passes == <<"process", "directives", "inline", "ready">>

After(p) == Passes[1 + CHOOSE i \in DOMAIN Passes : Passes[i] = p]

ParsingEnds ==
  /\ phase = "read" /\ Unread = {}
  /\ phase' = IF specs = {} THEN "failed" ELSE Passes[1]
  /\ UNCHANGED <<prog, unexported, order, specs, identities, dirs, kept, ls, todo,
                 progress, cur, stack>>

(* process: the order of the specs cannot be observed.                     *)
process ==
  LET known == {n \in specs : Tree(n) # <<>>}
      links == {n \in known : IsIdent(Tree(n)[1])}
  IN /\ phase = "process"
     /\ identities' = [n \in known \ links |-> Alias(Tree(n)[1], n)]
     /\ ls' = links /\ todo' = links
     /\ phase' = "resolve"
     /\ UNCHANGED <<prog, unexported, order, specs, dirs, kept, progress, cur, stack>>

(* Mutant: a pass without progress does not end the loop.                  *)
AgainAlways == ls # {}

(* The condition of the loop.                                              *)
Again == progress /\ ls # {}

(* resolve: one name of the linkset.                                       *)
resolve ==
  /\ phase = "resolve"
  /\ \E n \in todo :
       LET typ == Tree(n)[1].name
       IN /\ todo' = todo \ {n}
          /\ IF typ \in DOMAIN identities
               THEN /\ identities' = (n :> Alias(identities[typ], n)) @@ identities
                    /\ ls' = ls \ {n}
                    /\ progress' = TRUE
               ELSE UNCHANGED <<identities, ls, progress>>
  /\ UNCHANGED <<prog, unexported, phase, order, specs, dirs, kept, cur, stack>>

(* The next pass over the linkset, or the next pass of newSource.          *)
resolvePassEnds ==
  /\ phase = "resolve" /\ todo = {}
  /\ progress' = FALSE
  /\ IF Again THEN todo' = ls /\ phase' = phase /\ ls' = ls
     ELSE /\ ls' = {} /\ phase' = After("process")
          /\ todo' = IF phase' = "inline" THEN DOMAIN identities ELSE {}
  /\ UNCHANGED <<prog, unexported, order, specs, identities, dirs, kept, cur, stack>>

-----------------------------------------------------------------------------
(* Directives.                                                             *)

RECURSIVE nextShim(_, _, _)
nextShim(ref, id, be) ==
  LET e == Typed(ref)
  IN IF e.name = id THEN be
     ELSE [e EXCEPT !.kids = Each(LAMBDA kid : nextShim(kid, id, be), @)]

findShim(id, be) ==
  (id :> be) @@
  [n \in DOMAIN identities |->
     [identities[n] EXCEPT !.kids = Each(LAMBDA kid : nextShim(kid, id, be), @)]]

applyShim(d) ==
  IF d.bad THEN identities
  ELSE findShim(d.of, [Alias(Ident(d.as), d.of) EXCEPT !.shim = TRUE])

ignore(d) == [n \in {m \in DOMAIN identities : identities[m].name \notin d.names} |->
                identities[n]]

astuple(d) ==
  [n \in DOMAIN identities |->
     IF n \in d.names /\ identities[n].k = "struct"
       THEN [identities[n] EXCEPT !.tuple = TRUE] ELSE identities[n]]

applyDirective ==
  /\ phase = "directives" /\ dirs # <<>>
  /\ LET d == Head(dirs)
     IN /\ identities' = CASE d.op = "shim" -> applyShim(d)
                           [] d.op = "ignore" -> ignore(d)
                           [] d.op = "tuple" -> astuple(d)
                           [] OTHER -> identities
        /\ kept' = IF d.op = "pass" THEN Append(kept, d) ELSE kept
  /\ dirs' = Tail(dirs)
  /\ UNCHANGED <<prog, unexported, phase, order, specs, ls, todo, progress, cur, stack>>

directivesEnd ==
  /\ phase = "directives" /\ dirs = <<>>
  /\ dirs' = kept /\ kept' = <<>>
  /\ phase' = After("directives")
  /\ todo' = IF phase' = "inline" THEN DOMAIN identities ELSE {}
  /\ UNCHANGED <<prog, unexported, order, specs, identities, ls, progress, cur, stack>>

-----------------------------------------------------------------------------
(* Inlining.  A frame is a call of nextInline that has not been made yet:  *)
(* the place of ref in the tree of cur, and root.                          *)

maxComplex == 5

Frames(e, path, root) ==
  [i \in DOMAIN e.kids |-> [path |-> Append(path, i), root |-> root]]

propInline ==
  /\ phase = "inline" /\ stack = <<>>
  /\ \E n \in todo :
       /\ cur' = n /\ todo' = todo \ {n}
       /\ stack' = Frames(identities[n], <<>>, n)
  /\ UNCHANGED <<prog, unexported, phase, order, specs, identities, dirs, kept, ls, progress>>

(* Mutant: a type is put into itself.                                      *)
InlinesItself(el, root) ==
  /\ IsIdent(el) /\ el.name \in DOMAIN identities
  /\ Complexity(identities[el.name]) < maxComplex

(* Does ref give way to the identity it names?                             *)
Inlines(el, root) ==
  /\ IsIdent(el) /\ el.name # root /\ el.name \in DOMAIN identities
  /\ Complexity(identities[el.name]) < maxComplex

nextInline ==
  /\ phase = "inline" /\ stack # <<>> /\ Len(Head(stack).path) <= MaxDepth
  /\ LET f == Head(stack)
         ref == At(identities[cur], f.path)
         el == IF ref.k = "base" THEN Typed(ref) ELSE ref
         node == IF Inlines(el, f.root) THEN identities[el.name] ELSE el
     IN /\ identities' = [identities EXCEPT ![cur] = ReplaceAt(@, f.path, node)]
        /\ stack' = (IF Inlines(el, f.root) THEN <<[f EXCEPT !.root = el.name]>>
                     ELSE Frames(el, f.path, f.root)) \o Tail(stack)
  /\ UNCHANGED <<prog, unexported, phase, order, specs, dirs, kept, ls, todo, progress, cur>>

inlineEnds ==
  /\ phase = "inline" /\ stack = <<>> /\ todo = {}
  /\ phase' = After("inline") /\ cur' = ""
  /\ UNCHANGED <<prog, unexported, order, specs, identities, dirs, kept, ls, todo,
                 progress, stack>>

(* External: a Go stack has a limit, and using it up ends the process.     *)
stackOverflow ==
  /\ phase = "inline" /\ stack # <<>> /\ Len(Head(stack).path) > MaxDepth
  /\ phase' = "crashed" /\ stack' = <<>>
  /\ UNCHANGED <<prog, unexported, order, specs, identities, dirs, kept, ls, todo,
                 progress, cur>>

newSource ==
  \/ ReadFile \/ ParsingEnds \/ process \/ resolve \/ resolvePassEnds
  \/ applyDirective \/ directivesEnd
  \/ propInline \/ nextInline \/ inlineEnds \/ stackOverflow
=============================================================================
