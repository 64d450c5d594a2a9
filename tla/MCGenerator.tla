---------------------------- MODULE MCGenerator -----------------------------
(* Packages for newSource.  Each is small and has one thing that is hard:   *)
(* chains and cycles of links, directives in several files, types that      *)
(* contain themselves or each other, fields that are not encoded.           *)
EXTENDS Generator

Id(n) == [k |-> "ident", name |-> n]
Pkg(n, s) == [k |-> "sel", name |-> n, sel |-> s]
Star(t) == [k |-> "star", of |-> t]
SliceOf(t) == [k |-> "slice", of |-> t]
ArrayOf(len, t) == [k |-> "array", len |-> len, of |-> t]
MapOf(key, t) == [k |-> "map", key |-> key, of |-> t]
Iface(empty) == [k |-> "iface", empty |-> empty]
Other == [k |-> "other"]
Field(n, t) == [names |-> <<n>>, tag |-> "", ext |-> FALSE, of |-> t]
Struct(fs) == [k |-> "struct", fields |-> fs]
Decl(n, t) == [name |-> n, type |-> t]

Shim(n, as) == [op |-> "shim", of |-> n, as |-> as, bad |-> FALSE]
Tuple(ns) == [op |-> "tuple", names |-> ns]
Ignore(ns) == [op |-> "ignore", names |-> ns]
Pass(m, ns) == [op |-> "pass", m |-> m, names |-> ns]

File(decls, ds) == [decls |-> decls, dirs |-> ds]

(* A chain of links, one that ends outside, and one that never ends.        *)
Links == <<File(<<Decl("A", Id("uint64")), Decl("B", Id("A")), Decl("C", Id("B")),
                  Decl("E", Id("Missing")), Decl("F", Id("E")),
                  Decl("G", Id("H")), Decl("H", Id("G")),
                  Decl("U", Struct(<<Field("c", Id("C")), Field("F", Id("F"))>>))>>,
                <<>>)>>

(* Directives from two files for the same names, tests and methods ignored. *)
Directed ==
  <<File(<<Decl("P", Struct(<<Field("X", Id("int"))>>)),
           Decl("Q", Struct(<<Field("A", Id("P")), Field("B", SliceOf(Id("T")))>>)),
           Decl("R", Id("P"))>>,
         <<Tuple({"P", "T"}), Ignore({"T"}), Pass("marshal", {"P"})>>),
    File(<<Decl("T", Struct(<<Field("N", Id("P"))>>)), Decl("t", Other)>>,
         <<Shim("T", "string"), [Shim("P", "int") EXCEPT !.bad = TRUE],
           Pass("size", {"Q"})>>)>>

(* What getField makes of a field.                                          *)
Fields ==
  <<File(<<Decl("V", Struct(
             <<[Field("A", Star(Id("W"))) EXCEPT !.ext = TRUE, !.tag = "a"],
               [Field("B", Id("int")) EXCEPT !.names = <<"B", "b">>, !.tag = "x"],
               [Field("C", Id("int")) EXCEPT !.tag = "-"],
               [Field("D", SliceOf(Id("int"))) EXCEPT !.ext = TRUE],
               [Field("D", Star(Id("W"))) EXCEPT !.names = <<>>],
               Field("E", Pkg("time.Time", "Time")), Field("F", Other),
               Field("G", MapOf("int", Id("int"))), Field("c", Iface(TRUE))>>)),
           Decl("W", ArrayOf("literal", Id("byte"))),
           Decl("w", ArrayOf("expression", Id("byte"))),
           Decl("X", MapOf("string", Pkg("pkg.T", "T"))), Decl("Y", SliceOf(Id("byte"))),
           Decl("Z", Pkg("pkg.T", "T"))>>,
         <<Shim("time.Time", "string"), Ignore({"Y"})>>)>>

(* A type that contains itself, and users of it.                            *)
Self == <<File(<<Decl("L", Struct(<<Field("N", Star(Id("L"))), Field("V", Iface(TRUE))>>)),
                 Decl("M", MapOf("string", Id("L"))), Decl("K", SliceOf(Id("M")))>>, <<>>)>>

(* Types that contain each other, two and three.                            *)
Pair == <<File(<<Decl("B", Struct(<<Field("C", Star(Id("C")))>>)),
                 Decl("C", Struct(<<Field("B", Star(Id("B")))>>))>>, <<>>)>>
Ring == <<File(<<Decl("I", SliceOf(Id("J"))), Decl("J", SliceOf(Id("K"))),
                 Decl("K", SliceOf(Id("I")))>>, <<Ignore({"none"})>>)>>

(* Two with a third that refers to them.                                    *)
Open == <<File(<<Decl("A", Struct(<<Field("B", Id("B"))>>)),
                 Decl("B", Struct(<<Field("C", Star(Id("C")))>>)),
                 Decl("C", Struct(<<Field("B", Star(Id("B")))>>))>>, <<>>)>>

(* Nothing to generate: no specs, no identities.                            *)
Nothing == <<File(<<Decl("Z", Other)>>, <<>>)>>
Ignored == <<File(<<Decl("A", Id("int"))>>, <<Ignore({"A"})>>)>>

MCPrograms == <<Links, Directed, Fields, Self, Pair, Ring, Open, Nothing, Ignored>>
MCModes == {{"test"}, {"encode", "decode", "size", "marshal", "unmarshal", "test"},
            {"marshal", "unmarshal", "size"}, {"encode", "decode", "test"}}
MCLower == {"b", "c", "t", "w"}
=============================================================================
