-------------------------------- MODULE Elem --------------------------------
(***************************************************************************)
(* The trees of gen/elem.go and how gen/source.go parses a Go type into    *)
(* one.  A Go type, as go/ast gives it, is                                 *)
(*   [k |-> "ident", name]              [k |-> "sel", name, sel]           *)
(*   [k |-> "star" | "slice", of]                                          *)
(*   [k |-> "array", len, of]           [k |-> "map", key, of]             *)
(*   [k |-> "struct", fields |-> <<[names, tag, ext, of], ...>>]           *)
(*   [k |-> "iface", empty]             [k |-> "other"]                    *)
(* An Elem is a Node: kids are Els, Value or the fields; name is the       *)
(* alias, "" when there is none.  Copy is a deep copy in the code, so      *)
(* trees share nothing and a tree is a value here.  Variable names, array  *)
(* sizes and the texts of shim functions are left out.                     *)
(***************************************************************************)
EXTENDS Naturals, Sequences

S == INSTANCE SequencesExt

(* Op of every element.  (The concatenation makes TLC evaluate it once.)   *)
Each(Op(_), s) == <<>> \o [i \in DOMAIN s |-> Op(s[i])]

Node(k, kids) ==
  [k |-> k, name |-> "", kids |-> kids,
   val |-> "", conv |-> FALSE, must |-> FALSE, shim |-> FALSE,  \* BaseElem
   tuple |-> FALSE, tags |-> <<>>]                              \* Struct

Base(v) == [Node("base", <<>>) EXCEPT !.val = v]

IsIdent(e) == e.k = "base" /\ e.val = "IDENT"

(* The primitives that the instances use.                                  *)
primitives ==
  [id \in {"string", "int", "uint64", "byte", "time.Time", "msgp.Extension"} |->
     CASE id = "string" -> "String" [] id = "int" -> "Int"
       [] id = "uint64" -> "Uint64" [] id = "byte" -> "Byte"
       [] id = "time.Time" -> "Time" [] id = "msgp.Extension" -> "Ext"]

BaseType(v) ==
  CASE v = "Intf" -> "interface{}"
    [] v = "Bytes" -> "[]byte"
    [] OTHER -> CHOOSE id \in DOMAIN primitives : primitives[id] = v

(* strings.Contains(typ, "."): the names that belong to another package.   *)
Dotted == {"time.Time", "msgp.Extension", "pkg.T"}

(* Alias of common and of BaseElem.                                        *)
Alias(e, typ) ==
  IF e.k = "base"
    THEN [e EXCEPT !.name = typ,
                   !.conv = @ \/ e.val # "IDENT",
                   !.must = @ \/ typ \in Dotted]
    ELSE [e EXCEPT !.name = typ]

Ident(id) ==
  IF id \in DOMAIN primitives THEN Base(primitives[id])
  ELSE Alias(Base("IDENT"), id)

RECURSIVE Typed(_)
(* What calling TypeName leaves behind: every primitive below that has no  *)
(* alias gets the name of its base type as one, and with it Convert.  (The *)
(* text that a nested container caches is the name of no identity.)        *)
Typed(e) ==
  IF e.name # "" THEN e
  ELSE IF e.k = "base" THEN Alias(e, BaseType(e.val))
  ELSE [e EXCEPT !.kids = Each(Typed, @)]

RECURSIVE Complexity(_), Complexities(_)
Complexities(kids) ==
  IF kids = <<>> THEN 0 ELSE Complexity(Head(kids)) + Complexities(Tail(kids))
Complexity(e) ==
  CASE e.k = "base" -> IF e.conv /\ ~e.must THEN 2 ELSE 1
    [] e.k = "map" -> 2 + Complexities(e.kids)
    [] OTHER -> 1 + Complexities(e.kids)

Printable(e) == e.k = "base" => ~e.must

-----------------------------------------------------------------------------
(* parseExpr: <<>> is nil, a type that is not supported.                   *)

Wrap(k, inner) == IF inner = <<>> THEN <<>> ELSE <<Node(k, inner)>>

IsByte(e) == e.k = "ident" /\ e.name = "byte"

RECURSIVE embedded(_)
embedded(e) ==
  CASE e.k = "ident" -> e.name
    [] e.k = "sel" -> e.sel
    [] e.k = "star" -> embedded(e.of)
    [] OTHER -> ""

(* The extension option of a tag: the type, or the type pointed to, is to  *)
(* be an Extension.                                                        *)
AsExtension(ex) ==
  CASE ex.k = "base" -> <<[ex EXCEPT !.val = "Ext"]>>
    [] ex.k = "ptr" /\ ex.kids[1].k = "base" ->
         <<[ex EXCEPT !.kids = <<[@[1] EXCEPT !.val = "Ext"]>>]>>
    [] OTHER -> <<>>

RECURSIVE parseExpr(_), parseFieldList(_)
getField(f) ==
  LET ex == IF f.tag = "-" THEN <<>> ELSE parseExpr(f.of)
      el == IF f.ext /\ ex # <<>> THEN AsExtension(ex[1]) ELSE ex
      name == IF f.names = <<>> THEN embedded(f.of) ELSE f.names[1]
  IN IF Len(f.names) > 1 /\ ex # <<>>
       THEN Each(LAMBDA n : [tag |-> n, elem |-> ex[1]], f.names)
     ELSE IF el = <<>> THEN <<>>
     ELSE <<[tag |-> IF f.tag = "" THEN name ELSE f.tag, elem |-> el[1]]>>

parseFieldList(fl) ==
  IF fl = <<>> THEN <<>> ELSE getField(Head(fl)) \o parseFieldList(Tail(fl))

parseExpr(e) ==
  CASE e.k \in {"ident", "sel"} -> <<Ident(e.name)>>
    [] e.k = "map" -> IF e.key = "string" THEN Wrap("map", parseExpr(e.of)) ELSE <<>>
    [] e.k = "slice" -> IF IsByte(e.of) THEN <<Base("Bytes")>>
                        ELSE Wrap("slice", parseExpr(e.of))
    [] e.k = "array" -> IF e.len = "expression" THEN <<>>
                        ELSE Wrap("array", parseExpr(e.of))
    [] e.k = "star" -> Wrap("ptr", parseExpr(e.of))
    [] e.k = "struct" ->
         LET fs == parseFieldList(e.fields)
         IN <<[Node("struct", Each(LAMBDA f : f.elem, fs))
                 EXCEPT !.tags = Each(LAMBDA f : f.tag, fs)]>>
    [] e.k = "iface" -> IF e.empty THEN <<Base("Intf")>> ELSE <<>>
    [] OTHER -> <<>>

-----------------------------------------------------------------------------
(* Trees by path: <<>> is the root, Append(p, i) the kid i of p.           *)

RECURSIVE At(_, _)
At(e, path) == IF path = <<>> THEN e ELSE At(e.kids[Head(path)], Tail(path))

RECURSIVE ReplaceAt(_, _, _)
ReplaceAt(e, path, sub) ==
  IF path = <<>> THEN sub
  ELSE [e EXCEPT !.kids =
          S!ReplaceAt(@, Head(path), ReplaceAt(@[Head(path)], Tail(path), sub))]
=============================================================================
