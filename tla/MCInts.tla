------------------------------- MODULE MCInts -------------------------------
(* Bit patterns around every boundary of every width, signed and unsigned: *)
(* some byte takes a value next to a limit, those above it extend a sign   *)
(* or zero, those below are all zeros or all ones.                         *)
EXTENDS Ints

MCValues ==
  {Pattern(above, j, x, y) : above \in {0, 255}, j \in 1..8,
     x \in {0, 1, 31, 32, 127, 128, 223, 224, 255}, y \in {0, 255}}
=============================================================================
