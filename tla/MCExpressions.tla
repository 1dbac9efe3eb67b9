---------------------------- MODULE MCExpressions ----------------------------
(***************************************************************************)
(* Expressions and statements for the inside of one statement: every       *)
(* operator on every pair of operands, nested ones of the operators that   *)
(* take part in kinds, jumps and order, and every kind of statement.       *)
(***************************************************************************)
EXTENDS Expressions, Bitwise

WordBits == 8

MCBitOp(op, m, n) ==
  CASE op = "&" -> Unsigned(m) & Unsigned(n)
    [] op = "|" -> Unsigned(m) | Unsigned(n)
    [] op = "^" -> Unsigned(m) ^^ Unsigned(n)
    [] op = "<<" -> m * 2 ^ (n % WordBits)
    [] op = ">>" -> m \div 2 ^ (n % WordBits)

Lit(kind, word) == [k |-> "lit", kind |-> kind, word |-> word]
V(x) == [k |-> "var", x |-> x]
Call(f, args) == [k |-> "call", f |-> f, args |-> args]
Un(op, e) == [k |-> "un", op |-> op, e |-> e]
Step(x, by, pre) == [k |-> "bump", x |-> x, by |-> by, pre |-> pre]
Bin(op, l, r) == [k |-> "bin", op |-> op, l |-> l, r |-> r]

Binaries(ops, ls, rs) == {Bin(op, l, r) : op \in ops, l \in ls, r \in rs}
Unaries(ops, es) == {Un(op, e) : op \in ops, e \in es}

Two == Lit("Int", IntWord(2))
Nought == Lit("Int", IntWord(0))
OneAndHalf == Lit("Float", DblWord(One + One \div 2))
Letter == Lit("Char", IntWord(7))
True == Lit("Bool", IntWord(1))
Hello == Lit("Str", TextWord(<<"hello">>))

(* i and g are ank, d is a bhagank, s a string; g is in .bss.              *)
MCScope ==
  <<[name |-> "i", kind |-> "Int", static |-> FALSE, loc |-> 0,
     word |-> IntWord(3)],
    [name |-> "d", kind |-> "Float", static |-> FALSE, loc |-> 1,
     word |-> DblWord(5 * One)],
    [name |-> "g", kind |-> "Int", static |-> TRUE, loc |-> 0,
     word |-> IntWord(1)],
    [name |-> "s", kind |-> "Str", static |-> FALSE, loc |-> 2,
     word |-> TextWord(<<"s">>)]>>

MCSigs ==
  [mix |-> [params |-> <<"Float", "Int">>, ret |-> "Float"],
   name |-> [params |-> <<"Str">>, ret |-> "Str"],
   none |-> [params |-> <<>>, ret |-> "Int"]]

Values0 == {Two, Nought, OneAndHalf, Letter, True, Hello}
Variables == {V("i"), V("d"), V("g"), V("s")}
Steps == {Step("i", 1, TRUE), Step("i", -1, FALSE), Step("g", 1, FALSE),
          Step("d", 1, TRUE)}

Atoms == Values0 \cup Variables \cup Steps
AllOps == Arithmetic \cup Comparisons
          \cup {"%", "&&", "||", "&", "|", "^", "<<", ">>"}

Depth1 == Binaries(AllOps, Atoms, Atoms)
          \cup Unaries({"-", "+", "!", "~"}, Atoms)
          \cup {Call("mix", <<a, b>>) : a, b \in Atoms}
          \cup {Call("name", <<a>>) : a \in Atoms} \cup {Call("none", <<>>)}

Few == {Two, OneAndHalf, Hello, V("i"), Step("i", -1, FALSE)}
FewOps == {"+", "-", "<", "&&", "||", "/"}
Inner == Binaries(FewOps, Few, Few) \cup Unaries({"-", "!"}, Few)
         \cup {Call("mix", <<a, b>>) : a, b \in {Two, Step("i", 1, TRUE)}}
         \cup {Call("name", <<Hello>>)}

Depth2 == Binaries(FewOps, Inner, Few) \cup Binaries(FewOps, Few, Inner)
          \cup Unaries({"-"}, Inner)
          \cup {Call("mix", <<a, b>>) : a \in Inner, b \in Few}

Stmt(k, e) == [k |-> k, e |-> e]
Assign(x, op, e) == [k |-> "assign", x |-> x, op |-> op, e |-> e]
Decl(x, base, te, init) ==
  [k |-> "decl", x |-> x, type |-> [base |-> base, te |-> te], init |-> init]

Some == Atoms \cup Binaries({"+", "<"}, Few, Few)
        \cup {Call("mix", <<Two, Two>>)}

Types == {<<"ank", FALSE>>, <<"bhagank", FALSE>>, <<"akshar", FALSE>>,
          <<"akshar", TRUE>>, <<"vidhan", FALSE>>}

Simple ==
  {Stmt(k, e) : k \in {"leeh", "shevti", "partav"}, e \in Some}
  \cup {Assign(x, op, e) : x \in {"i", "d", "g", "s"}, e \in Some,
          op \in Arithmetic \cup {"=", "%", "&", "|", "^", "<<", ">>"}}
  \cup {Decl("y", t[1], t[2], {e}) : t \in Types, e \in Some}
  \cup {Decl("y", t[1], t[2], {}) : t \in Types}

(* A declaration, which moves every local one word further from the top or *)
(* hides one of them, and statements after it.                             *)
First == {Decl(x, "bhagank", FALSE, {e}) :
            x \in {"y", "i"}, e \in {Two, V("g")}}
Second == {Decl("z", "ank", FALSE, {}), Assign("i", "+", Step("g", 1, TRUE)),
           Assign("d", "=", V("i"))}
Third == {Stmt("leeh", Bin("+", V("i"), V("d"))),
          Stmt("partav", Bin("-", V("d"), Step("g", -1, FALSE)))}

(* Declarations that name what they hide.                                  *)
Hiding == {Decl("i", "akshar", TRUE, {Bin("+", V("i"), Two)}),
           Decl("d", "ank", FALSE, {Un("-", V("d"))})}

MCPrograms ==
  {<<Stmt("expr", e)>> : e \in Depth1 \cup Depth2}
  \cup {<<s>> : s \in Simple \cup Hiding}
  \cup {<<a, b, c>> : a \in First, b \in Second, c \in Third}

More == {Bin("+", V("i"), V("d")), Bin("-", V("d"), Step("g", -1, FALSE)),
         Step("g", -1, FALSE), Step("g", 1, TRUE)}

AllExprs == Depth1 \cup Depth2 \cup Atoms \cup More
MCExprs == AllExprs      \* which TLC evaluates once

MCHeight(e) ==
  IF Operands(e) = {} THEN 0
  ELSE IF \A o \in Operands(e) : Operands(o) = {} THEN 1 ELSE 2
=============================================================================
