-------------------------- MODULE MCSemanticAnalyzer --------------------------
(***************************************************************************)
(* Programs for the semantic analyser: most break some rule.               *)
(***************************************************************************)
EXTENDS SemanticAnalyzer, MCPrograms

MCIdents == {"x", "y", "f", "g"}

(* Scoping: declarations and uses of one name in every nesting of blocks,  *)
(* for headers, if arms and switch arms, with and without a global of that *)
(* name before them, and in a function that has it as a parameter.         *)
ScopeKit ==
  [leaves |-> {Var("x", {Lit}), Show(E({"x"})), Var("x", {E({"x"})})},
   blocks |-> {Block, For(Var("x", {E({"x"})}), E({"x"}), Do(Bump("x")))},
   chains |-> {<<If(E({"x"}), TRUE), Else>>},
   switches |-> {Switch(E({"x"}), <<{E({"x"})}>>),
                 Switch(E({"x"}), <<{Lit}, NoExpr>>)}]

ScopePrograms ==
  {<<s>> : s \in UNION {Stmts(n, ScopeKit) : n \in 1..4}}
  \cup {<<<<Var("x", {Lit})>>, s>> : s \in UNION {Stmts(n, ScopeKit) : n \in 1..6}}
  \cup {<<f, <<Show(E({"x"}))>>>> :
          f \in Function("f", <<"x">>, UpTo(3, ScopeKit))}
  \cup {<<<<Var("x", {Lit})>>, f>> :
          f \in Function("f", <<>>, UpTo(3, ScopeKit))}

(* The other rules: where jumps, returns and functions may stand, what may *)
(* be written, and the arguments of calls.                                 *)
FreshX(ahe, purnank, init) ==
  [Var("x", init) EXCEPT !.ahe = ahe, !.purnank = purnank]

RuleKit ==
  [leaves |-> {Break, Continue, Return(NoExpr), Return({E({"y"})}),
               Set("x", Lit)},
   blocks |-> {Block, While(Lit), Karya("g", <<>>),
               For(Set("x", Lit), Lit, Do(Bump("x")))},
   chains |-> {<<If(Lit, TRUE), ElseIf(Lit, FALSE)>>},
   switches |-> {Switch(Lit, <<NoExpr>>)}]

WriteKit ==
  [leaves |-> {Set("x", Lit), Set("x", Negative), Do(Bump("x")),
               Do(Call("f", 1)), Do(Call("f", 2)), Do(Call("g", 0))},
   blocks |-> {Block}, chains |-> {}, switches |-> {}]

RulePrograms ==
  {<<<<Var("x", {Lit})>>, s>> : s \in UNION {Stmts(n, RuleKit) : n \in 1..4}}
  \cup {<<<<Var("x", {Lit})>>, f>> :
          f \in Function("f", <<"y">>, UpTo(3, RuleKit))}
  \cup {<<<<d>>, s>> :
          d \in {FreshX(a, u, i) : a \in BOOLEAN, u \in BOOLEAN,
                                   i \in {NoExpr, {Lit}, {Negative}}},
          s \in UNION {Stmts(n, WriteKit) : n \in 1..3}}
  \cup {<<f, g, s>> :
          f \in Function("f", <<"x">>, {<<>>}),
          g \in Function("f", <<"x", "x">>, {<<>>})
                \cup Function("g", <<"x", "y">>, {<<Show(E({"x"}))>>}),
          s \in Stmts(1, WriteKit)}

(* Parameters that are purnank, and variables of the same name in blocks   *)
(* and headers inside the function, all assigned to.                       *)
PurnankKit ==
  [leaves |-> {FreshX(FALSE, u, NoExpr) : u \in BOOLEAN}
              \cup {Set("x", Lit), Set("x", Negative), Set("y", Negative)},
   blocks |-> {Block}
              \cup {For(FreshX(FALSE, u, {Lit}), Lit, Set("x", Negative)) :
                      u \in BOOLEAN},
   chains |-> {}, switches |-> {}]

PurnankPrograms ==
  {<<<<[f[1] EXCEPT !.purnanks = purnanks]>> \o Tail(f)>> :
     f \in Function("f", <<"x", "y">>, UpTo(3, PurnankKit))
           \cup Function("f", <<"x", "x">>, UpTo(1, PurnankKit)),
     purnanks \in SUBSET {1, 2}}

MCSemaPrograms == ScopePrograms \cup RulePrograms \cup PurnankPrograms
=============================================================================
