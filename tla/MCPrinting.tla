----------------------------- MODULE MCPrinting -----------------------------
(***************************************************************************)
(* A heap of five words, strings of every size around a word, registers of *)
(* eight bits and doubles of two digits after the point, some of them so   *)
(* near to the next integer that rounding carries.                         *)
(***************************************************************************)
EXTENDS Printing

MCChars == {55}
MCLiterals == {[i \in 1..n |-> 55] : n \in {0, 1, 7, 8}}
MCInts == Word
MCDecimals == {IntText(w) : w \in {0, 127, 128}}
MCDoubles ==
  {n * One + f : n \in {-101, -100, -10, -1, 0, 9, 10, 99}, f \in 0..(One - 1)}
=============================================================================
