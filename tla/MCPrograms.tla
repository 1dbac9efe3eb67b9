----------------------------- MODULE MCPrograms -----------------------------
(***************************************************************************)
(* Sets of programs for the bounded checks: every program of a given       *)
(* number of nodes built from a kit of simple statements and openers.      *)
(***************************************************************************)
EXTENDS Ast

E(uses) == [uses |-> uses, bumps |-> {}, calls |-> {}, neg |-> FALSE]
Bump(x) == [uses |-> {}, bumps |-> {x}, calls |-> {}, neg |-> FALSE]
Call(f, n) == [uses |-> {}, bumps |-> {}, calls |-> {<<f, n>>}, neg |-> FALSE]
Negative == [uses |-> {}, bumps |-> {}, calls |-> {}, neg |-> TRUE]
Lit == E({})

Var(x, init) == [k |-> "decl", x |-> x, sthir |-> FALSE, ahe |-> FALSE,
                 purnank |-> FALSE, init |-> init]
Show(e) == [k |-> "leeh", e |-> e]
Do(e) == [k |-> "expr", e |-> e]
Set(x, e) == [k |-> "assign", x |-> x, e |-> e]
Leave(e) == [k |-> "shevti", e |-> e]
Break == [k |-> "thamba"]
Continue == [k |-> "pudhe"]
Return(value) == [k |-> "partav", value |-> value]
Close == [k |-> "close"]
Block == [k |-> "scope"]
If(e, more) == [k |-> "jar", e |-> e, more |-> more]
ElseIf(e, more) == [k |-> "nahitar", e |-> e, more |-> more]
Else == [k |-> "anyatha"]
While(e) == [k |-> "jovar", e |-> e]
For(init, cond, step) ==
  [k |-> "pratyek", init |-> init, cond |-> cond, step |-> step]
Switch(e, cases) == [k |-> "paryay", e |-> e, cases |-> cases]
Case == [k |-> "case"]
Karya(f, params) == [k |-> "karya", x |-> f, params |-> params,
                     purnanks |-> {}]

(* Lists(n, kit): the statement lists of exactly n nodes.  Stmts(n, kit):  *)
(* the statements of n nodes.  A kit has simple statements and jumps       *)
(* (leaves), openers of one block (blocks), pairs of openers of a two-arm  *)
(* chain (chains) and switches (switches).                                 *)
RECURSIVE Lists(_, _), Stmts(_, _), Arms(_, _, _)

Lists(n, kit) ==
  IF n = 0 THEN {<<>>}
  ELSE UNION {{s \o rest : s \in Stmts(m, kit), rest \in Lists(n - m, kit)} :
                m \in 1..n}

Stmts(n, kit) ==
  IF n = 1 THEN {<<l>> : l \in kit.leaves}
  ELSE {<<o>> \o b \o <<Close>> : o \in kit.blocks, b \in Lists(n - 2, kit)}
       \cup (IF n < 4 THEN {} ELSE
               UNION {{<<c[1]>> \o b1 \o <<Close, c[2]>> \o b2 \o <<Close>> :
                         c \in kit.chains, b1 \in Lists(m, kit),
                         b2 \in Lists(n - 4 - m, kit)} : m \in 0..(n - 4)})
       \cup UNION {{<<w>> \o arms \o <<Close>> :
                      arms \in Arms(n - 2, Len(w.cases), kit)} :
                     w \in kit.switches}

Arms(n, cases, kit) ==
  IF cases = 0 THEN IF n = 0 THEN {<<>>} ELSE {}
  ELSE IF n < 2 * cases THEN {}
  ELSE UNION {{<<Case>> \o b \o <<Close>> \o rest :
                 b \in Lists(m, kit),
                 rest \in Arms(n - 2 - m, cases - 1, kit)} : m \in 0..(n - 2)}

UpTo(n, kit) == UNION {Lists(m, kit) : m \in 0..n}

(* A function with a body from a set of statement lists.                   *)
Function(f, params, bodies) ==
  {<<Karya(f, params)>> \o b \o <<Close>> : b \in bodies}

-----------------------------------------------------------------------------
(* Loops in a function: every nesting of ifs, loops and switches around    *)
(* locals and early exits.                                                 *)
StackKit ==
  [leaves |-> {Var("x", {Lit}), Break, Continue},
   blocks |-> {If(Lit, FALSE), While(Lit)},
   chains |-> {<<If(Lit, TRUE), Else>>},
   switches |-> {Switch(Lit, <<{Lit}>>)}]

Wrapped(o, bodies) == {<<o>> \o b \o <<Close>> : b \in bodies}

StackPrograms ==
  {<<f>> : f \in Function("f", <<>>, Wrapped(While(Lit), UpTo(5, StackKit)))}

(* The statements StackKit lacks: for with and without a local of its own, *)
(* longer chains, switches with several arms, statics, returns and exits.  *)
Count == For(Var("x", {Lit}), E({"x"}), Do(Bump("x")))
Static == [Var("x", {Lit}) EXCEPT !.sthir = TRUE]

MoreKit ==
  [leaves |-> {Var("x", {E({"y"})}), Var("x", NoExpr), Static, Continue, Return({E({"x"})}),
               Leave(E({"y"}))},
   blocks |-> {Block, Count},
   chains |-> {<<If(Lit, TRUE), ElseIf(E({"y"}), FALSE)>>},
   switches |-> {Switch(E({"y"}), <<{Lit}, NoExpr>>), Switch(Lit, <<>>)}]

MorePrograms ==
  {<<f>> : f \in Function("f", <<"y">>, UNION {Wrapped(o, UpTo(3, MoreKit)) :
                                               o \in {Count, Block}})
           \cup Function("f", <<"y">>, Stmts(6, MoreKit))}

(* A chain of three arms, and a switch whose default is not last.          *)
LongForms ==
  {<<<<Karya("f", <<"y">>), If(Lit, TRUE), Var("x", {Lit}), Close,
       ElseIf(Lit, TRUE), a, Close, Else, Var("x", {Lit}), Close,
       While(Lit), Switch(E({"y"}), <<{Lit}, NoExpr, {E({"y"})}>>),
       Case, b, Close, Case, Var("x", {Lit}), Close, Case, a, Close,
       Close, Close, Return({E({"y"})}), Close>>>> :
     a \in {Var("x", {Lit}), Set("y", Lit), Return({E({"y"})})},
     b \in {Break, Continue, Do(Call("f", 1))}}

(* Globals: a top-level statement, a function that uses and shadows the    *)
(* names, and a statement after it.                                        *)
GlobalKit ==
  [leaves |-> {Var("x", {Lit}), Var("x", {E({"x"})}), Show(E({"x"})),
               Do(Call("f", 1))},
   blocks |-> {Block, Count}, chains |-> {}, switches |-> {}]

GlobalPrograms ==
  {<<<<Var("x", {Lit})>>, s, f, t>> :
     s \in UNION {Stmts(n, GlobalKit) : n \in 1..3},
     f \in Function("f", <<"y">>, UpTo(2, GlobalKit)),
     t \in Stmts(1, GlobalKit) \cup Stmts(3, GlobalKit)}
=============================================================================
