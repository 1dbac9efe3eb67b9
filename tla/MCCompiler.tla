----------------------------- MODULE MCCompiler -----------------------------
(***************************************************************************)
(* Programs for the two walks together.                                    *)
(***************************************************************************)
EXTENDS Compiler, MCPrograms

MCIdents == {"x", "y", "f"}

MCCompilerPrograms == MorePrograms \cup LongForms \cup GlobalPrograms

(* Functions of up to seven parameters.                                    *)
MCManyIdents == {"f", "a", "b", "c", "d", "e", "g", "h"}

MCManyParameters ==
  {<<<<Karya("f", SubSeq(<<"a", "b", "c", "d", "e", "g", "h">>, 1, n)), Close>>,
     <<Do(Call("f", n))>>>> : n \in 0..7}
=============================================================================
