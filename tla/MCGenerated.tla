----------------------------- MODULE MCGenerated ----------------------------
(* Types with every kind of element, variables that already hold something,*)
(* and messages of the same and of other versions of the type.             *)
EXTENDS Generated

a == <<97>>
b == <<98>>
c == <<99>>

Base(B) == [k |-> "base", of |-> B]
Slice(T) == [k |-> "slice", of |-> T]
Map(T) == [k |-> "map", of |-> T]
Ptr(T) == [k |-> "ptr", of |-> T]
Array(n, T) == [k |-> "array", n |-> n, of |-> T]
Fld(t, T) == [tag |-> t, of |-> T]
Struct(fs) == [k |-> "struct", tuple |-> FALSE, fields |-> fs]
Tuple(fs) == [k |-> "struct", tuple |-> TRUE, fields |-> fs]

Full(s) == [arr |-> s, len |-> Len(s)]
Own(T, v) == [type |-> T, val |-> v, own |-> TRUE, fits |-> TRUE]
Version(T, v) == [type |-> T, val |-> v, own |-> FALSE, fits |-> TRUE]
Misfit(T, v) == [type |-> T, val |-> v, own |-> FALSE, fits |-> FALSE]

Word(x, y) == [i \in 1..8 |-> IF i = 8 THEN y ELSE x]

(* A list of structs that gained and lost a field.                         *)
Item == Struct(<<Fld(a, Base("Bool")), Fld(b, Base("String"))>>)
OldItem == Struct(<<Fld(a, Base("Bool"))>>)
List(T) == Struct(<<Fld(a, Base("String")), Fld(b, Slice(T))>>)
NewList == Struct(<<Fld(c, Map(Slice(Base("Int64")))), Fld(b, Slice(Item))>>)
Lists ==
  [reader |-> List(Item),
   starts |-> <<ZeroOf(List(Item)),
                <<a, [arr |-> <<<<TRUE, a>>, <<TRUE, b>>, <<FALSE, c>>>>, len |-> 1]>>>>,
   writers |-> <<Own(List(Item), <<b, Full(<<<<TRUE, c>>, <<FALSE, <<>>>>>>)>>),
                 Version(List(OldItem), <<c, Full(<<<<FALSE>>, <<TRUE>>>>)>>),
                 Version(NewList, <<{<<a, Full(<<Word(255, 0)>>)>>},
                                    Full(<<<<TRUE, b>>>>)>>)>>]

(* Pointers, in a struct and in a map.                                     *)
Node == Struct(<<Fld(a, Ptr(Base("Byte"))), Fld(b, Map(Ptr(Item)))>>)
Nodes ==
  [reader |-> Node,
   starts |-> <<ZeroOf(Node), <<<<9>>, {<<c, <<<<TRUE, a>>>>>>}>>>>,
   writers |-> <<Own(Node, <<<<>>, {<<a, <<>>>>, <<b, <<<<FALSE, c>>>>>>}>>),
                 Own(Node, <<<<200>>, {}>>),
                 Version(Struct(<<Fld(b, Map(Ptr(OldItem)))>>),
                         <<{<<c, <<<<FALSE>>>>>>}>>)>>]

(* Arrays in a tuple, and a tuple with a field too few.                    *)
Arrays == <<Fld(a, Array(2, Base("Bool"))), Fld(b, Array(3, Base("Byte")))>>
Tuples ==
  [reader |-> Tuple(Arrays),
   starts |-> <<<<<<TRUE, TRUE>>, <<1, 2, 3>>>>>>,
   writers |-> <<Own(Tuple(Arrays), <<<<TRUE, FALSE>>, <<0, 128, 255>>>>),
                 Misfit(Tuple(SubSeq(Arrays, 1, 1)), <<<<FALSE, FALSE>>>>),
                 Misfit(Tuple(<<Arrays[1], Fld(b, Array(2, Base("Byte")))>>),
                        <<<<FALSE, FALSE>>, <<4, 5>>>>)>>]

(* Arrays of bytes that are not at the end.                                *)
Digest == Struct(<<Fld(a, Array(3, Base("Byte"))), Fld(b, Map(Array(2, Base("Byte")))),
                   Fld(c, Base("Bool"))>>)
Digests ==
  [reader |-> Digest,
   starts |-> <<<<<<1, 2, 3>>, {}, TRUE>>>>,
   writers |-> <<Own(Digest, <<<<4, 5, 6>>, {<<a, <<7, 8>>>>, <<b, <<9, 0>>>>}, FALSE>>)>>]

Uint8s ==
  [reader |-> Array(2, Base("Uint8")),
   starts |-> <<<<0, 0>>>>,
   writers |-> <<Own(Array(2, Base("Uint8")), <<7, 255>>)>>]

(* Slices of slices keep their arrays.                                     *)
Grid == Slice(Slice(Base("String")))
Grids ==
  [reader |-> Grid,
   starts |-> <<ZeroOf(Grid), [arr |-> <<Full(<<a, b>>), Full(<<c>>)>>, len |-> 0]>>,
   writers |-> <<Own(Grid, Full(<<Full(<<b>>), Full(<<>>)>>)),
                 Own(Grid, Full(<<Full(<<a, c>>)>>)),
                 Misfit(Slice(Slice(Base("Bytes"))), Full(<<Full(<<b>>)>>))>>]

(* interface{}.                                                            *)
Any == Struct(<<Fld(a, Base("Intf")), Fld(b, Base("Intf"))>>)
nilv == <<"nil", <<>>>>
Anys ==
  [reader |-> Any,
   starts |-> <<<<nilv, <<"str", a>>>>>>,
   writers |-> <<Own(Any, <<<<"map", {<<a, <<"bool", TRUE>>>>, <<b, nilv>>}>>,
                            <<"array", <<<<"int", Word(255, 224)>>,
                                         <<"uint", Word(0, 200)>>>>>>>>),
                 Own(Any, <<<<"complex64", Word(1, 2)>>, <<"ext", <<9, <<1, 2, 3>>>>>>>>),
                 Own(Any, <<<<"ext", <<9, <<4>>>>>>, <<"complex64", Word(3, 4)>>>>),
                 Own(Any, <<<<"complex128", [i \in 1..16 |-> i]>>, nilv>>),
                 Own(Any, <<<<"bin", <<5>>>>, <<"time", [i \in 1..12 |-> i]>>>>),
                 Own(Any, <<<<"float32", <<1, 2, 3, 4>>>>, <<"float64", Word(5, 6)>>>>)>>]

(* Types with their own methods.                                           *)
Extra == Struct(<<Fld(a, Base("Number")), Fld(b, Base("Ext")), Fld(c, Base("Shim"))>>)
Plainer == Struct(<<Fld(a, Base("Complex64")), Fld(b, Base("Ext")), Fld(c, Base("String"))>>)
Extras ==
  [reader |-> Extra,
   starts |-> <<ZeroOf(Extra), <<<<"float32", <<1, 2, 3, 4>>>>, <<6>>, a>>>>,
   writers |-> <<Own(Extra, <<AsInt(Zero64), <<1, 2>>, <<120, 121>>>>),
                 Own(Extra, <<<<"uint", Word(0, 200)>>, <<>>, b>>),
                 Misfit(Plainer, <<Word(0, 0), <<1>>, c>>),
                 Misfit(Struct(<<Fld(c, Base("String"))>>), <<<<>>>>)>>]

(* A field that was a uint64.                                              *)
Counter(B) == Struct(<<Fld(a, Base(B))>>)
Counters ==
  [reader |-> Counter("Int64"),
   starts |-> <<<<Word(0, 7)>>>>,
   writers |-> <<Own(Counter("Int64"), <<Word(255, 127)>>),
                 Version(Counter("Uint64"), <<<<0, 0, 0, 0, 0, 1, 17, 112>>>>),
                 Misfit(Counter("Uint64"), <<Word(255, 255)>>)>>]

MCScenarios == <<Lists, Nodes, Tuples, Digests, Uint8s, Grids, Anys, Extras, Counters>>
MCArrays == <<Tuples, Digests, Uint8s>>
MCTails == {<<>>, <<192, 1>>}
=============================================================================
