--------------------------- MODULE MCCodeGenerator ---------------------------
(***************************************************************************)
(* Programs for the code generator: those that sema accepts.               *)
(***************************************************************************)
EXTENDS CodeGenerator, MCPrograms, LexicalScope

MCIdents == {"x", "y", "f"}

MCAccepted ==
  {p \in StackPrograms \cup MorePrograms \cup LongForms \cup GlobalPrograms :
     WellFormed(p)}

(* A local open when a loop is left, or not: the smallest loops that show  *)
(* what a thamba leaves on the stack.                                      *)
MCLeavingLoops ==
  {<<<<Karya("f", <<>>), While(Lit), s, Break, Close, Show(Lit), Close>>>> :
     s \in {Show(Lit), Var("x", {Lit})}}
=============================================================================
