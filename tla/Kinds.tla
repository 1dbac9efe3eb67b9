-------------------------------- MODULE Kinds --------------------------------
(***************************************************************************)
(* Storage kinds: how a declaration gets one, and the two functions that   *)
(* infer the kind of an expression, sema's for its one rule on kinds and   *)
(* the code generator's to choose instructions and conversions.            *)
(*                                                                         *)
(* Expressions are trees here, with a field k: "lit" (a literal of a kind  *)
(* and a word), "var", "call", "un", "bump" (++ and --) and "bin".  A      *)
(* parenthesis is the expression in it; prakar(), for which the parser has *)
(* no rule, is left out.  What the code computes by recursion on a tree is *)
(* a recursive function here, on a set of trees that holds the operands of *)
(* each.  vs lists the variables in scope, the latest last.                *)
(***************************************************************************)
EXTENDS Integers, Sequences, FiniteSetsExt

CONSTANTS
  Sigs,         \* the functions: name to [params: Seq(kind), ret: kind]
  Exprs,        \* the expressions of the programs, with their operands
  Height(_)     \* the height of an expression's tree

Kind == {"Int", "Float", "Str", "Char", "Bool"}

Operands(e) ==
  CASE e.k = "un" -> {e.e}
    [] e.k = "bin" -> {e.l, e.r}
    [] e.k = "call" -> {e.args[i] : i \in DOMAIN e.args}
    [] OTHER -> {}

ASSUME ExprsAssumption ==
  \A e \in Exprs :
    /\ e.k \in {"lit", "var", "call", "un", "bump", "bin"}
    /\ e.k = "lit" => e.kind \in Kind
    /\ e.k = "call" => e.args \in Seq(Exprs)
    /\ Height(e) \in Nat
    /\ \A o \in Operands(e) : o \in Exprs /\ Height(o) < Height(e)

(* Up to six parameters are supported.                                     *)
ASSUME SigsAssumption ==
  \A f \in DOMAIN Sigs :
    /\ f \in STRING /\ Sigs[f].ret \in Kind
    /\ Sigs[f].params \in Seq(Kind) /\ Len(Sigs[f].params) <= 6

Arithmetic == {"+", "-", "*", "/"}

(* resolveStorageKind(): te akshar is a string, he akshar a character; the *)
(* reserved types are as ank.                                              *)
ResolveStorageKind(type) ==
  CASE type.base = "akshar" -> IF type.te THEN "Str" ELSE "Char"
    [] type.base = "bhagank" -> "Float"
    [] OTHER -> "Int"

Names(vs) == {vs[i].name : i \in DOMAIN vs}

Lookup(vs, x) == vs[Max({i \in DOMAIN vs : vs[i].name = x})]

(* What a term, a ++ and a -- are, the same in both functions.             *)
NameKind(e, vs) ==
  CASE e.k = "lit" -> e.kind
    [] e.k \in {"var", "bump"} -> Lookup(vs, e.x).kind
    [] e.k = "call" -> Sigs[e.f].ret

Either(kind, lk, rk) == lk = kind \/ rk = kind

-----------------------------------------------------------------------------
(* CodeGenerator::inferKind().                                             *)
GenBinKind(op, lk, rk) ==
  IF op = "+" /\ Either("Str", lk, rk) THEN "Str"
  ELSE IF op \in Arithmetic \cup {"%"} /\ Either("Float", lk, rk) THEN "Float"
  ELSE "Int"

GenKind(e, vs) ==
  LET kind[x \in Exprs] ==
        CASE x.k = "un" -> IF x.op \in {"-", "+"} THEN kind[x.e] ELSE "Int"
          [] x.k = "bin" -> GenBinKind(x.op, kind[x.l], kind[x.r])
          [] OTHER -> NameKind(x, vs)
  IN  kind[e]

(* SemanticAnalyzer::inferKind(): no operator but + is told from another.  *)
StringsStayStrings(op, lk, rk) ==      \* mutant
  IF Either("Str", lk, rk) THEN "Str"
  ELSE IF Either("Float", lk, rk) THEN "Float" ELSE "Int"

SemaBinKind(op, lk, rk) ==
  IF op = "+" /\ Either("Str", lk, rk) THEN "Str"
  ELSE IF Either("Float", lk, rk) THEN "Float" ELSE "Int"

SemaKind(e, vs) ==
  LET kind[x \in Exprs] ==
        CASE x.k = "un" -> IF x.op \in {"-", "+"} THEN kind[x.e] ELSE "Int"
          [] x.k = "bin" -> SemaBinKind(x.op, kind[x.l], kind[x.r])
          [] OTHER -> NameKind(x, vs)
  IN  kind[e]

-----------------------------------------------------------------------------
(* e and every expression in it.                                           *)
Parts(e) ==
  LET parts[x \in Exprs] == {x} \cup UNION {parts[o] : o \in Operands(x)}
  IN  parts[e]

(* visitTerm() and checkUse(): what is named is declared, and called with  *)
(* as many arguments as it has parameters.                                 *)
Known(e, names) ==
  /\ e.k \in {"var", "bump"} => e.x \in names
  /\ e.k = "call" => /\ e.f \in DOMAIN Sigs
                     /\ Len(e.args) = Len(Sigs[e.f].params)

(* visitExpr(): + between a string and something else is an error.         *)
Addable(e, vs) ==
  e.k = "bin" /\ e.op = "+" =>
    (SemaKind(e.l, vs) = "Str") = (SemaKind(e.r, vs) = "Str")

Accepts(e, vs) == \A x \in Parts(e) : Known(x, Names(vs)) /\ Addable(x, vs)

(* The variables e names.                                                  *)
NamesIn(e) == {x.x : x \in {y \in Parts(e) : y.k \in {"var", "bump"}}}
=============================================================================
