-------------------------------- MODULE Ast --------------------------------
(***************************************************************************)
(* The tree the parser hands to the semantic analyser and to the code      *)
(* generator (include/ast/Ast.hpp), flattened into the order in which a    *)
(* left-to-right walk meets its nodes.                                     *)
(*                                                                         *)
(* A program is a sequence of top-level statements; a statement is the     *)
(* sequence of nodes a walk of it enters, each construct that owns a block *)
(* ending in a "close" node.  A simple statement is one node.  Constructs  *)
(* are named by their keyword: jar/nahitar/anyatha are if/else-if/else,    *)
(* jovar while, pratyek for, paryay switch, karya function, thamba break,  *)
(* pudhe continue, partav return, shevti exit, leeh print.                 *)
(*                                                                         *)
(* Both walkers treat an expression as a thing that leaves one value and   *)
(* mentions names, so that is what an expression is here: the variables it *)
(* reads, those it increments or decrements, the calls it makes with their *)
(* argument counts, and whether it is syntactically a negation.  A         *)
(* std::optional<NodeExpr *> is a set of at most one expression.           *)
(***************************************************************************)
EXTENDS Naturals, Sequences, FiniteSets

CONSTANT Idents      \* names of variables and functions

Expr == [uses: SUBSET Idents, bumps: SUBSET Idents,
         calls: SUBSET (Idents \X Nat), neg: BOOLEAN]

NoExpr == {}

(* NodeStmtVarDecl: the modifiers sthir (static), ahe (immutable), purnank *)
(* (unsigned) and the optional initialiser.                                *)
Decl == [k: {"decl"}, x: Idents, sthir: BOOLEAN, ahe: BOOLEAN,
         purnank: BOOLEAN, init: SUBSET Expr]

(* Statements that are one node and only evaluate an expression.           *)
Simple == [k: {"shevti", "leeh", "expr"}, e: Expr]
          \cup [k: {"assign"}, x: Idents, e: Expr]
          \cup Decl

Jump == [k: {"thamba", "pudhe"}] \cup [k: {"partav"}, value: SUBSET Expr]

(* Nodes that open a block.  The step of a for declares nothing.  "more"   *)
(* says that another arm of the same if chain follows; "cases" are the     *)
(* values of the arms of a switch, NoExpr for anyatha; each arm is then a  *)
(* "case" block of its own; "purnanks" are the indexes of the parameters   *)
(* of a function that are of that type.                                    *)
Opener ==
  [k: {"scope", "anyatha", "case"}]
  \cup [k: {"jar", "nahitar"}, e: Expr, more: BOOLEAN]
  \cup [k: {"jovar"}, e: Expr]
  \cup [k: {"pratyek"}, init: Simple, cond: Expr, step: Simple \ Decl]
  \cup [k: {"paryay"}, e: Expr, cases: Seq(SUBSET Expr)]
  \cup [k: {"karya"}, x: Idents, params: Seq(Idents), purnanks: SUBSET Nat]

OpenKinds == {"scope", "anyatha", "case", "jar", "nahitar", "jovar",
              "pratyek", "paryay", "karya"}
SimpleKinds == {"shevti", "leeh", "expr", "assign", "decl"}

Node == Simple \cup Jump \cup Opener \cup [k: {"close"}]

Program == Seq(Seq(Node))

-----------------------------------------------------------------------------
(* The names an expression, and a simple statement, refers to.             *)
Mentions(e) == e.uses \cup e.bumps

OwnExprs(s) == IF s.k = "decl" THEN s.init ELSE {s.e}

References(s) == (UNION {Mentions(e) : e \in OwnExprs(s)})
                 \cup (IF s.k = "assign" THEN {s.x} ELSE {})

CallsIn(es) == UNION {e.calls : e \in es}

(* The expressions of a node, wherever they sit in it.                     *)
AllExprs(n) ==
  CASE n.k \in SimpleKinds -> OwnExprs(n)
    [] n.k \in {"jar", "nahitar", "jovar"} -> {n.e}
    [] n.k = "pratyek" -> OwnExprs(n.init) \cup {n.cond} \cup OwnExprs(n.step)
    [] n.k = "paryay" -> {n.e} \cup (UNION {n.cases[j] : j \in DOMAIN n.cases})
    [] n.k = "partav" -> n.value
    [] OTHER -> {}

(* Where the block opened by node i of statement t ends: the first close   *)
(* by which as many blocks have closed as have opened from i on.           *)
Closes(t, i, j) ==
  /\ t[j].k = "close"
  /\ \A m \in (i + 1)..j :
       LET opened == Cardinality({n \in i..m : t[n].k \in OpenKinds})
           closed == Cardinality({n \in i..m : t[n].k = "close"})
       IN  opened = closed <=> m = j

CloseOf(t, i) == CHOOSE j \in (i + 1)..Len(t) : Closes(t, i, j)

(* The openers whose block node i of statement t is in.                    *)
Around(t, i) ==
  {o \in 1..(i - 1) : t[o].k \in OpenKinds /\ CloseOf(t, o) > i}

Innermost(os, o) == o \in os /\ \A q \in os : q <= o

(* One statement: beside its first node and what that encloses it has only *)
(* the further arms of an if chain.  A switch encloses its arms, and they  *)
(* nothing that is not in one of them.                                     *)
IsStatement(t) ==
  \A i \in 2..Len(t) : t[i].k # "close" =>
    /\ Around(t, i) = {} => t[i].k \in {"nahitar", "anyatha"}
    /\ \A o \in Around(t, i) :
         Innermost(Around(t, i), o) /\ t[o].k = "paryay" => t[i].k = "case"

(* What the parser makes is a tree: no statement is empty, every block is  *)
(* closed within its statement, and a sequence of nodes is one statement.  *)
IsTree(p) ==
  \A i \in DOMAIN p :
    /\ p[i] # <<>>
    /\ IsStatement(p[i])
    /\ \A o \in DOMAIN p[i] :
         p[i][o].k \in OpenKinds =>
           \E j \in (o + 1)..Len(p[i]) : Closes(p[i], o, j)

FunctionNames(p) == {p[i][1].x : i \in {j \in DOMAIN p : p[j][1].k = "karya"}}
=============================================================================
