---------------------------- MODULE ParserProofs ----------------------------
(***************************************************************************)
(* Proofs about the parser, for every token sequence the lexer can hand    *)
(* over: the cursor stays inside it and never goes back, every loop over   *)
(* statements advances, and nothing fails without a report.                *)
(*                                                                         *)
(* The argument has two halves.  The first looks at the tables alone, as a *)
(* reader of the C++ would: which steps are only reached when a token has  *)
(* been consumed, which when none has, and which after a look at the       *)
(* token.  The second shows that the machine keeps what the tables promise.*)
(***************************************************************************)
EXTENDS Parser, Integers, SequencesExt, FiniteSetsExt, FiniteSetTheorems,
        SequenceTheorems, WellFoundedInduction, TLAPS

-----------------------------------------------------------------------------
(* Sequences used as stacks, and least elements.                           *)

(* Popping a stack keeps everything below its top.                         *)
LEMMA FrontProperties ==
  ASSUME NEW S, NEW s \in Seq(S)
  PROVE  /\ Front(s) \in Seq(S)
         /\ Len(Front(s)) = IF s = <<>> THEN 0 ELSE Len(s) - 1
         /\ \A i \in 1..(Len(s) - 1) : Front(s)[i] = s[i]
<1>1. \A i \in 1..(Len(s) - 1) : s[i] \in S
  OBVIOUS
<1>2. /\ SubSeq(s, 1, Len(s) - 1) \in Seq(S)
      /\ Len(SubSeq(s, 1, Len(s) - 1)) = IF 1 <= Len(s) - 1 THEN Len(s) - 1 ELSE 0
      /\ \A i \in 1..(Len(s) - 1) : SubSeq(s, 1, Len(s) - 1)[i] = s[i]
  BY <1>1, SubSeqProperties
<1>3. QED
  BY <1>2 DEF Front

(* A set of naturals that is not empty has a least element, and Min() is   *)
(* it.                                                                     *)
LEMMA MinOfNaturals ==
  ASSUME NEW T \in SUBSET Nat, T # {}
  PROVE  Min(T) \in T /\ \A y \in T : Min(T) <= y
<1> DEFINE R == {ss \in Nat \X Nat : ss[1] < ss[2]}
<1>1. IsWellFoundedOn(R, Nat)
  BY NatLessThanWellFounded, Zenon DEF OpToRel
<1>2. \E x \in T : \A y \in T : ~ (<<y, x>> \in R)
  <2> HIDE DEF R
  <2> QED  BY <1>1, WFMin, Zenon
<1>3. \E x \in T : \A y \in T : x <= y
  <2>1. PICK x \in T : \A y \in T : ~ (<<y, x>> \in R)
    BY <1>2
  <2>2. ASSUME NEW y \in T PROVE x <= y
    <3>1. ~ (y < x)
      BY <2>1, <<y, x>> \in Nat \X Nat
    <3>2. QED
      BY <3>1
  <2>3. QED
    BY <2>2
<1>4. QED
  BY <1>3 DEF Min

-----------------------------------------------------------------------------
(* What the blocks are, and what is known where.                           *)
Blocks ==
  {"args", "argsNext", "argsEnd", "term", "leaf", "variable", "callExpr",
   "paren", "postfix", "postIncDec", "unary", "preIncDec", "prefix", "expr",
   "climbing", "rhs", "scope", "stmts", "scopeEnd", "elseChain", "elseIf",
   "else", "modifiers", "access", "base", "varDecl", "declAhe", "declInit",
   "declEnd", "func", "param", "funcBody", "declOrFunc", "exitStmt",
   "printStmt", "ifStmt", "whileStmt", "assignTail", "assign", "identStmt",
   "callStmt", "postStmt", "forInit", "forStep", "stepPost", "stepAssign",
   "forStmt", "switchStmt", "cases", "arm", "default", "colon", "armStmts",
   "armEnd", "casesEnd", "returnStmt", "returnEnd", "stmt", "breakStmt",
   "continueStmt", "preStmt", "program", "programEnd"}

(* parseModifiers(), which may find no base type, and the functions that   *)
(* cannot return a node without consuming a token.                         *)
Mods == {"modifiers", "access", "base"}
Consuming ==
  Blocks \ (Mods \cup {"args", "argsNext", "argsEnd", "program", "programEnd"})

(* A jump does not lead from the blocks of one group to those of another.  *)
Region(b, c) ==
  /\ b \in Consuming => c \in Consuming
  /\ b \in Mods => c \in Mods
  /\ c \in Optional => b \in Optional

(* Blocks that begin by taking the token they were chosen for, blocks only *)
(* reached after one, and the steps at which one has been consumed.        *)
Takers ==
  {"leaf", "variable", "postIncDec", "preIncDec", "prefix", "exitStmt",
   "printStmt", "ifStmt", "whileStmt", "identStmt", "forStmt", "switchStmt",
   "returnStmt", "default", "breakStmt", "continueStmt", "preStmt"}

Entered ==
  {"climbing", "rhs", "callExpr", "paren", "stmts", "scopeEnd", "elseIf",
   "else", "func", "param", "funcBody", "declAhe", "declInit", "declEnd",
   "assign", "assignTail", "callStmt", "postStmt", "stepPost", "stepAssign",
   "cases", "colon", "armStmts", "armEnd", "casesEnd", "returnEnd"}

Moved(b, pc) ==
  \/ b \in Entered
  \/ b \in Takers \cup {"expr", "scope", "varDecl"} /\ pc > 1
  \/ b \in {"postfix", "unary", "forStep", "arm"} /\ pc > 2

(* The steps of the statement loops that come after a look at the token.   *)
Guarded ==
  {<<"stmts", 2>>, <<"armStmts", 2>>, <<"armStmts", 3>>, <<"cases", 2>>, <<"program", 2>>}

(* The steps at which something is known of the modifiers.                 *)
Special == {<<"base", 1>>, <<"base", 2>>, <<"access", 7>>, <<"declOrFunc", 2>>}

(* Going from one step to another without and with a token consumed.       *)
IfStays(b, pc, c, q) ==
  /\ c \in Blocks /\ Region(b, c)
  /\ Moved(c, q) => Moved(b, pc)
  /\ c \in Optional => Moved(c, q) \/ (b \in Optional /\ ~Moved(b, pc))

IfAdvances(b, c, q) ==
  /\ c \in Blocks /\ Region(b, c)
  /\ c \in Optional => Moved(c, q)
  /\ <<c, q>> \notin Guarded /\ ~(c \in Takers /\ q = 1)

Plain(c, q) == <<c, q>> \notin Guarded \cup Special /\ ~(c \in Takers /\ q = 1)

-----------------------------------------------------------------------------
(* What is true of every step of the tables, by what it does.              *)
Taking(b, pc, s) ==
  /\ IfAdvances(b, b, pc + 1)
  /\ Moved(b, pc + 1) => Moved(b, pc) \/ (b \in Takers /\ pc = 1)
  /\ <<b, pc + 1>> \in Special => s.do = "keep" /\ <<b, pc>> = <<"base", 1>>

Expecting(b, pc, s) ==
  /\ s.do = "expect" => s.token # Eof
  /\ IfAdvances(b, b, pc + 1)
  /\ <<b, pc + 1>> \notin Special

Trying(b, pc) ==
  IfStays(b, pc, b, pc + 1) /\ IfAdvances(b, b, pc + 1) /\ Plain(b, pc + 1)

Choosing(b, pc, s) ==
  /\ \A c \in s.choices :
       /\ IfStays(b, pc, c[2], 1)
       /\ c[2] \in Takers => Eof \notin c[1]
       /\ c[2] = "base" => c[1] \subseteq Types
       /\ <<c[2], 1>> \notin Guarded
  /\ IfStays(b, pc, b, pc + 1)
  /\ <<b, pc + 1>> \in Guarded =>
       /\ \E c \in s.choices : Eof \in c[1]
       /\ b = "program" \/ \E c \in s.choices : CloseCurly \in c[1]
  /\ <<b, pc + 1>> \notin Special /\ ~(b \in Takers /\ pc + 1 = 1)

Matching(b, pc, s) ==
  /\ \A c \in s.choices :
       IfAdvances(b, c[2], 1) /\ Eof \notin c[1] /\ <<c[2], 1>> \notin Special
  /\ IfStays(b, pc, b, pc + 1) /\ Plain(b, pc + 1)

Looking(b, pc, s) ==
  /\ IfStays(b, pc, s.block, 1)
  /\ s.block \in Takers => Eof \notin s.of
  /\ <<s.block, 1>> \notin Guarded \cup Special
  /\ IfStays(b, pc, b, pc + 1)
  /\ <<b, pc + 1>> \in Guarded => <<b, pc>> \in Guarded
  /\ <<b, pc + 1>> \notin Special

Going(b, pc, s) == IfStays(b, pc, s.block, 1) /\ Plain(s.block, 1)

Reporting(b, pc) ==
  /\ IfStays(b, pc, b, pc + 1)
  /\ <<b, pc + 1>> \notin Guarded
  /\ <<b, pc + 1>> \in Special => <<b, pc + 1>> = <<"access", 7>>

Staying(b, pc) == IfStays(b, pc, b, pc + 1) /\ Plain(b, pc + 1)

Climbing(b, pc, s) ==
  /\ IfAdvances(b, s.block, 1) /\ <<s.block, 1>> \notin Special
  /\ Staying(b, pc)

CallKinds == {"call", "need", "try", "each"}

Calling(b, pc, s) ==
  /\ s.block \in Blocks /\ Plain(s.block, 1) /\ ~Moved(s.block, 1)
  /\ <<b, pc + 1>> \notin Guarded
  /\ Moved(b, pc + 1) =>
       Moved(b, pc) \/ (s.block \in Consuming /\ s.do \in {"call", "need"})
  /\ b \in Optional => Moved(b, pc + 1)
  /\ <<b, pc + 1>> \in Special =>
       <<b, pc + 1>> = <<"declOrFunc", 2>> /\ s.do = "call" /\ s.block \in Mods
  /\ s.do = "call" /\ s.block \in Optional => b \in Optional /\ ~Moved(b, pc)
  /\ s.do = "each" => <<b, pc>> \in Guarded /\ s.block \in Consuming

Returning(b, pc, s) ==
  /\ b \in Consuming => Moved(b, pc)
  /\ b \in Mods => s.do = "node" /\ <<b, pc>> \in {<<"base", 2>>, <<"access", 7>>}

Leaving(b, pc, s) ==
  \/ s.do = "fail"
  \/ s.do = "nothing" /\ b \in Optional /\ ~Moved(b, pc)
  \/ s.do \in {"node", "same"} /\ Returning(b, pc, s)

StepOK(b, pc, s) ==
  \/ s.do \in {"skip", "keep"} /\ Taking(b, pc, s)
  \/ s.do \in {"expect", "name"} /\ Expecting(b, pc, s)
  \/ s.do \in {"demand", "option"} /\ Trying(b, pc)
  \/ s.do = "on" /\ Choosing(b, pc, s)
  \/ s.do = "match" /\ Matching(b, pc, s)
  \/ s.do = "ahead" /\ Looking(b, pc, s)
  \/ s.do = "go" /\ Going(b, pc, s)
  \/ s.do = "report" /\ Reporting(b, pc)
  \/ s.do = "typed" /\ <<b, pc>> = <<"declOrFunc", 2>> /\ Staying(b, pc)
  \/ s.do = "combine" /\ Staying(b, pc)
  \/ s.do = "climb" /\ Climbing(b, pc, s)
  \/ s.do \in CallKinds /\ Calling(b, pc, s)
  \/ Leaving(b, pc, s)

Final == {"go", "fail", "nothing", "node", "same"}

BlockOK(b, steps) ==
  /\ b \in Blocks
  /\ 1 \in DOMAIN steps
  /\ \A pc \in DOMAIN steps :
       /\ pc \in Nat \ {0}
       /\ StepOK(b, pc, steps[pc])
       /\ pc + 1 \in DOMAIN steps \/ steps[pc].do \in Final

TableOK(t) == \A b \in DOMAIN t : BlockOK(b, t[b])

(* The tokens written by name are not the end of file.                     *)
LEMMA NamedTokens ==
  /\ Semicolon # Eof /\ Comma # Eof /\ OpenCurly # Eof /\ CloseCurly # Eof
  /\ Semicolon # CloseCurly
BY Zenon DEF Semicolon, Comma, OpenCurly, CloseCurly, Eof

USE DEF Blocks, Mods, Consuming, Region, Takers, Entered, Moved, Guarded, Special,
  IfStays, IfAdvances, Plain, Optional, StepOK, Final, BlockOK

(* A block is as it must be if its steps are.                              *)
LEMMA BlockOf3 ==
  ASSUME NEW b \in Blocks, NEW p, NEW q, NEW r,
         StepOK(b, 1, p), StepOK(b, 2, q), StepOK(b, 3, r), r.do \in Final
  PROVE  BlockOK(b, <<p, q, r>>)
<1> HIDE DEF StepOK, Blocks, Final
<1> QED
  OBVIOUS

(* The same for four steps.                                                *)
LEMMA BlockOf4 ==
  ASSUME NEW b \in Blocks, NEW p, NEW q, NEW r, NEW s,
         StepOK(b, 1, p), StepOK(b, 2, q), StepOK(b, 3, r), StepOK(b, 4, s),
         s.do \in Final
  PROVE  BlockOK(b, <<p, q, r, s>>)
<1> HIDE DEF StepOK, Blocks, Final
<1> QED
  OBVIOUS

(* And for six.                                                            *)
LEMMA BlockOf6 ==
  ASSUME NEW b \in Blocks, NEW p, NEW q, NEW r, NEW s, NEW t, NEW u,
         StepOK(b, 1, p), StepOK(b, 2, q), StepOK(b, 3, r), StepOK(b, 4, s),
         StepOK(b, 5, t), StepOK(b, 6, u), u.do \in Final
  PROVE  BlockOK(b, <<p, q, r, s, t, u>>)
<1> HIDE DEF StepOK, Blocks, Final
<1> QED
  OBVIOUS

(* The blocks of parseArgList().                                           *)
LEMMA ArgListOK ==
  /\ TableOK(parseArgList)
  /\ DOMAIN parseArgList = {"args", "argsNext", "argsEnd"}
<1>1. BlockOK("args", parseArgList["args"])
  BY DEF parseArgList, demand, on, go, Trying, Choosing, Going, Eof
<1>2. BlockOK("argsNext", parseArgList["argsNext"])
  BY NamedTokens DEF parseArgList, match, go, try, Matching, Going, Calling,
                     CallKinds, Eof
<1>3. BlockOK("argsEnd", parseArgList["argsEnd"])
  BY DEF parseArgList, demand, node, Trying, Leaving, Returning
<1>4. DOMAIN parseArgList = {"args", "argsNext", "argsEnd"}
  BY DEF parseArgList
<1>5. QED
  BY <1>1, <1>2, <1>3, <1>4 DEF TableOK

(* The blocks of parseTerm().                                              *)
LEMMA TermOK ==
  /\ TableOK(parseTerm)
  /\ DOMAIN parseTerm = {"term", "leaf", "variable", "callExpr", "paren"}
<1>1. BlockOK("term", parseTerm["term"])
  BY IdentsAssumption DEF parseTerm, on, match, nothing, Choosing, Matching,
    Leaving, Leaf, Literals, Eof
<1>2. BlockOK("leaf", parseTerm["leaf"])
  BY DEF parseTerm, keep, node, Taking, Leaving, Returning
<1>3. BlockOK("variable", parseTerm["variable"])
  BY DEF parseTerm, keep, on, node, Taking, Choosing, Leaving, Returning, Eof
<1>4. BlockOK("callExpr", parseTerm["callExpr"])
  BY DEF parseTerm, call, node, Calling, CallKinds, Leaving, Returning
<1>5. BlockOK("paren", parseTerm["paren"])
  BY DEF parseTerm, expect, need, node, Expecting, Calling, CallKinds,
         Leaving, Returning, Eof
<1>6. DOMAIN parseTerm = {"term", "leaf", "variable", "callExpr", "paren"}
  BY DEF parseTerm
<1>7. QED
  BY <1>1, <1>2, <1>3, <1>4, <1>5, <1>6 DEF TableOK

(* The blocks of parsePostfix().                                           *)
LEMMA PostfixOK ==
  /\ TableOK(parsePostfix)
  /\ DOMAIN parsePostfix = {"postfix", "postIncDec"}
<1>1. BlockOK("postfix", parsePostfix["postfix"])
  BY IdentsAssumption DEF parsePostfix, ahead, call, same, Looking, Calling,
    CallKinds, Leaving, Returning, IncDec, Eof
<1>2. BlockOK("postIncDec", parsePostfix["postIncDec"])
  BY DEF parsePostfix, keep, node, Taking, Leaving, Returning
<1>3. DOMAIN parsePostfix = {"postfix", "postIncDec"}
  BY DEF parsePostfix
<1>4. QED
  BY <1>1, <1>2, <1>3 DEF TableOK

(* The blocks of parseUnary().                                             *)
LEMMA UnaryOK ==
  /\ TableOK(parseUnary)
  /\ DOMAIN parseUnary = {"unary", "preIncDec", "prefix"}
<1>1. BlockOK("unary", parseUnary["unary"])
  BY DEF parseUnary, on, call, same, Choosing, Calling, CallKinds, Leaving,
         Returning, IncDec, UnaryOps, Eof
<1>2. BlockOK("preIncDec", parseUnary["preIncDec"])
  BY DEF parseUnary, keep, name, node, Taking, Expecting, Leaving, Returning
<1>3. BlockOK("prefix", parseUnary["prefix"])
  BY DEF parseUnary, keep, need, node, Taking, Calling, CallKinds, Leaving,
         Returning
<1>4. DOMAIN parseUnary = {"unary", "preIncDec", "prefix"}
  BY DEF parseUnary
<1>5. QED
  BY <1>1, <1>2, <1>3, <1>4 DEF TableOK

(* The blocks of parseExpr().                                              *)
LEMMA ExprOK ==
  /\ TableOK(parseExpr)
  /\ DOMAIN parseExpr = {"expr", "climbing", "rhs"}
<1>1. BlockOK("expr", parseExpr["expr"])
  BY DEF parseExpr, go, call, Going, Calling, CallKinds
<1>2. BlockOK("climbing", parseExpr["climbing"])
  BY DEF parseExpr, climb, same, Climbing, Staying, Leaving, Returning
<1>3. BlockOK("rhs", parseExpr["rhs"])
  BY DEF parseExpr, go, need, combine, Going, Calling, CallKinds, Staying
<1>4. DOMAIN parseExpr = {"expr", "climbing", "rhs"}
  BY DEF parseExpr
<1>5. QED
  BY <1>1, <1>2, <1>3, <1>4 DEF TableOK

(* The blocks of parseScope().                                             *)
LEMMA ScopeOK ==
  /\ TableOK(parseScope)
  /\ DOMAIN parseScope = {"scope", "stmts", "scopeEnd"}
<1>1. BlockOK("scope", parseScope["scope"])
  BY NamedTokens DEF parseScope, expect, go, Expecting, Going, Eof
<1>2. BlockOK("stmts", parseScope["stmts"])
  <2>1. \E c \in {<<{CloseCurly, Eof}, "scopeEnd">>} : Eof \in c[1] /\ CloseCurly \in c[1]
    OBVIOUS
  <2>2. StepOK("stmts", 1, on({<<{CloseCurly, Eof}, "scopeEnd">>}))
    BY NamedTokens, <2>1 DEF on, Choosing
  <2>3. StepOK("stmts", 2, each("stmt"))
    BY DEF each, Calling, CallKinds
  <2>4. StepOK("stmts", 3, go("stmts"))
    BY DEF go, Going
  <2>5. go("stmts").do \in Final /\ "stmts" \in Blocks
    BY DEF go
  <2> HIDE DEF StepOK, BlockOK, Blocks, Final
  <2>6. QED
    BY <2>2, <2>3, <2>4, <2>5, BlockOf3 DEF parseScope
<1>3. BlockOK("scopeEnd", parseScope["scopeEnd"])
  BY NamedTokens DEF parseScope, expect, node, Expecting, Leaving, Returning,
                     Eof
<1>4. DOMAIN parseScope = {"scope", "stmts", "scopeEnd"}
  BY DEF parseScope
<1>5. QED
  BY <1>1, <1>2, <1>3, <1>4 DEF TableOK

(* The blocks of parseElseChain().                                         *)
LEMMA ElseChainOK ==
  /\ TableOK(parseElseChain)
  /\ DOMAIN parseElseChain = {"elseChain", "elseIf", "else"}
<1>1. BlockOK("elseChain", parseElseChain["elseChain"])
  BY DEF parseElseChain, match, nothing, Matching, Leaving, Eof
<1>2. BlockOK("elseIf", parseElseChain["elseIf"])
  BY DEF parseElseChain, expect, call, need, try, node, Expecting, Calling,
         CallKinds, Leaving, Returning, Eof
<1>3. BlockOK("else", parseElseChain["else"])
  BY DEF parseElseChain, call, node, Calling, CallKinds, Leaving, Returning
<1>4. DOMAIN parseElseChain = {"elseChain", "elseIf", "else"}
  BY DEF parseElseChain
<1>5. QED
  BY <1>1, <1>2, <1>3, <1>4 DEF TableOK

(* The blocks of parseModifiers().                                         *)
LEMMA ModifiersOK ==
  /\ TableOK(parseModifiers)
  /\ DOMAIN parseModifiers = {"modifiers", "access", "base"}
<1>1. BlockOK("modifiers", parseModifiers["modifiers"])
  BY DEF parseModifiers, option, match, go, Trying, Matching, Going, Eof
<1>2. BlockOK("access", parseModifiers["access"])
  BY DEF parseModifiers, option, on, report, node, Trying, Choosing,
         Reporting, Leaving, Returning, Types, Sizes, Eof
<1>3. BlockOK("base", parseModifiers["base"])
  BY DEF parseModifiers, keep, node, Taking, Leaving, Returning
<1>4. DOMAIN parseModifiers = {"modifiers", "access", "base"}
  BY DEF parseModifiers
<1>5. QED
  BY <1>1, <1>2, <1>3, <1>4 DEF TableOK

(* The blocks of parseVarDeclTail().                                       *)
LEMMA VarDeclTailOK ==
  /\ TableOK(parseVarDeclTail)
  /\ DOMAIN parseVarDeclTail = {"varDecl", "declAhe", "declInit", "declEnd"}
<1>1. BlockOK("varDecl", parseVarDeclTail["varDecl"])
  BY NamedTokens DEF parseVarDeclTail, name, on, match, fail, Expecting,
                     Choosing, Matching, Leaving, Eof
<1>2. BlockOK("declAhe", parseVarDeclTail["declAhe"])
  BY DEF parseVarDeclTail, keep, go, need, Taking, Going, Calling, CallKinds
<1>3. BlockOK("declInit", parseVarDeclTail["declInit"])
  BY DEF parseVarDeclTail, go, need, Going, Calling, CallKinds
<1>4. BlockOK("declEnd", parseVarDeclTail["declEnd"])
  BY NamedTokens DEF parseVarDeclTail, expect, node, Expecting, Leaving,
                     Returning, Eof
<1>5. DOMAIN parseVarDeclTail = {"varDecl", "declAhe", "declInit", "declEnd"}
  BY DEF parseVarDeclTail
<1>6. QED
  BY <1>1, <1>2, <1>3, <1>4, <1>5 DEF TableOK

(* The blocks of parseFuncDeclTail().                                      *)
LEMMA FuncDeclTailOK ==
  /\ TableOK(parseFuncDeclTail)
  /\ DOMAIN parseFuncDeclTail = {"func", "param", "funcBody"}
<1>1. BlockOK("func", parseFuncDeclTail["func"])
  BY DEF parseFuncDeclTail, expect, name, on, go, Expecting, Choosing, Going,
         Eof
<1>2. BlockOK("param", parseFuncDeclTail["param"])
  BY NamedTokens DEF parseFuncDeclTail, name, match, go, call, Expecting,
                     Matching, Going, Calling, CallKinds, Eof
<1>3. BlockOK("funcBody", parseFuncDeclTail["funcBody"])
  BY DEF parseFuncDeclTail, expect, call, node, Expecting, Calling,
         CallKinds, Leaving, Returning, Eof
<1>4. DOMAIN parseFuncDeclTail = {"func", "param", "funcBody"}
  BY DEF parseFuncDeclTail
<1>5. QED
  BY <1>1, <1>2, <1>3, <1>4 DEF TableOK

(* The blocks of parseDeclOrFunc().                                        *)
LEMMA DeclOrFuncOK ==
  /\ TableOK(parseDeclOrFunc)
  /\ DOMAIN parseDeclOrFunc = {"declOrFunc"}
<1>1. BlockOK("declOrFunc", parseDeclOrFunc["declOrFunc"])
  BY DEF parseDeclOrFunc, match, go, call, typed, Matching, Going, Calling,
         CallKinds, Staying, Eof
<1>2. DOMAIN parseDeclOrFunc = {"declOrFunc"}
  BY DEF parseDeclOrFunc
<1>3. QED
  BY <1>1, <1>2 DEF TableOK

(* The blocks of parseExitStmt().                                          *)
LEMMA ExitStmtOK ==
  /\ TableOK(parseExitStmt)
  /\ DOMAIN parseExitStmt = {"exitStmt"}
<1>1. BlockOK("exitStmt", parseExitStmt["exitStmt"])
  BY NamedTokens DEF parseExitStmt, OneArgument, skip, expect, need, node,
                     Taking, Expecting, Calling, CallKinds, Leaving,
                     Returning, Eof
<1>2. DOMAIN parseExitStmt = {"exitStmt"}
  BY DEF parseExitStmt
<1>3. QED
  BY <1>1, <1>2 DEF TableOK

(* The blocks of parsePrintStmt().                                         *)
LEMMA PrintStmtOK ==
  /\ TableOK(parsePrintStmt)
  /\ DOMAIN parsePrintStmt = {"printStmt"}
<1>1. BlockOK("printStmt", parsePrintStmt["printStmt"])
  BY NamedTokens DEF parsePrintStmt, OneArgument, skip, expect, need, node,
                     Taking, Expecting, Calling, CallKinds, Leaving,
                     Returning, Eof
<1>2. DOMAIN parsePrintStmt = {"printStmt"}
  BY DEF parsePrintStmt
<1>3. QED
  BY <1>1, <1>2 DEF TableOK

(* The blocks of parseIfStmt().                                            *)
LEMMA IfStmtOK ==
  /\ TableOK(parseIfStmt)
  /\ DOMAIN parseIfStmt = {"ifStmt"}
<1>1. BlockOK("ifStmt", parseIfStmt["ifStmt"])
  BY DEF parseIfStmt, skip, expect, call, need, try, node, Taking, Expecting,
         Calling, CallKinds, Leaving, Returning, Eof
<1>2. DOMAIN parseIfStmt = {"ifStmt"}
  BY DEF parseIfStmt
<1>3. QED
  BY <1>1, <1>2 DEF TableOK

(* The blocks of parseWhileStmt().                                         *)
LEMMA WhileStmtOK ==
  /\ TableOK(parseWhileStmt)
  /\ DOMAIN parseWhileStmt = {"whileStmt"}
<1>1. BlockOK("whileStmt", parseWhileStmt["whileStmt"])
  BY DEF parseWhileStmt, skip, expect, call, need, node, Taking, Expecting,
         Calling, CallKinds, Leaving, Returning, Eof
<1>2. DOMAIN parseWhileStmt = {"whileStmt"}
  BY DEF parseWhileStmt
<1>3. QED
  BY <1>1, <1>2 DEF TableOK

(* The blocks of parseAssignTail().                                        *)
LEMMA AssignTailOK ==
  /\ TableOK(parseAssignTail)
  /\ DOMAIN parseAssignTail = {"assignTail", "assign"}
<1>1. BlockOK("assignTail", parseAssignTail["assignTail"])
  BY DEF parseAssignTail, on, fail, Choosing, Leaving, AssignOps, Eof
<1>2. BlockOK("assign", parseAssignTail["assign"])
  BY NamedTokens DEF parseAssignTail, keep, expect, need, node, Taking,
                     Expecting, Calling, CallKinds, Leaving, Returning, Eof
<1>3. DOMAIN parseAssignTail = {"assignTail", "assign"}
  BY DEF parseAssignTail
<1>4. QED
  BY <1>1, <1>2, <1>3 DEF TableOK

(* The blocks of parseIdentifierLeadStmt().                                *)
LEMMA IdentifierLeadStmtOK ==
  /\ TableOK(parseIdentifierLeadStmt)
  /\ DOMAIN parseIdentifierLeadStmt = {"identStmt", "callStmt", "postStmt"}
<1>1. BlockOK("identStmt", parseIdentifierLeadStmt["identStmt"])
  BY DEF parseIdentifierLeadStmt, keep, on, go, Taking, Choosing, Going,
         IncDec, Eof
<1>2. BlockOK("callStmt", parseIdentifierLeadStmt["callStmt"])
  BY NamedTokens DEF parseIdentifierLeadStmt, expect, call, node, Expecting,
                     Calling, CallKinds, Leaving, Returning, Eof
<1>3. BlockOK("postStmt", parseIdentifierLeadStmt["postStmt"])
  BY NamedTokens DEF parseIdentifierLeadStmt, keep, expect, node, Taking,
                     Expecting, Leaving, Returning, Eof
<1>4. DOMAIN parseIdentifierLeadStmt = {"identStmt", "callStmt", "postStmt"}
  BY DEF parseIdentifierLeadStmt
<1>5. QED
  BY <1>1, <1>2, <1>3, <1>4 DEF TableOK

(* The blocks of parseForInit().                                           *)
LEMMA ForInitOK ==
  /\ TableOK(parseForInit)
  /\ DOMAIN parseForInit = {"forInit"}
<1>1. BlockOK("forInit", parseForInit["forInit"])
  BY IdentsAssumption DEF parseForInit, on, fail, Choosing, Leaving,
    DeclStart, Modifiers, Types, Sizes, Eof
<1>2. DOMAIN parseForInit = {"forInit"}
  BY DEF parseForInit
<1>3. QED
  BY <1>1, <1>2 DEF TableOK

(* The blocks of parseForStep().                                           *)
LEMMA ForStepOK ==
  /\ TableOK(parseForStep)
  /\ DOMAIN parseForStep = {"forStep", "stepPost", "stepAssign"}
<1>1. BlockOK("forStep", parseForStep["forStep"])
  BY DEF parseForStep, name, on, fail, Expecting, Choosing, Leaving, IncDec,
         AssignOps, Eof
<1>2. BlockOK("stepPost", parseForStep["stepPost"])
  BY DEF parseForStep, keep, node, Taking, Leaving, Returning
<1>3. BlockOK("stepAssign", parseForStep["stepAssign"])
  BY DEF parseForStep, keep, need, node, Taking, Calling, CallKinds, Leaving,
         Returning
<1>4. DOMAIN parseForStep = {"forStep", "stepPost", "stepAssign"}
  BY DEF parseForStep
<1>5. QED
  BY <1>1, <1>2, <1>3, <1>4 DEF TableOK

(* The blocks of parseForStmt().                                           *)
LEMMA ForStmtOK ==
  /\ TableOK(parseForStmt)
  /\ DOMAIN parseForStmt = {"forStmt"}
<1>1. BlockOK("forStmt", parseForStmt["forStmt"])
  BY NamedTokens DEF parseForStmt, skip, expect, call, need, node, Taking,
                     Expecting, Calling, CallKinds, Leaving, Returning, Eof
<1>2. DOMAIN parseForStmt = {"forStmt"}
  BY DEF parseForStmt
<1>3. QED
  BY <1>1, <1>2 DEF TableOK

(* The blocks of parseSwitchStmt().                                        *)
LEMMA SwitchStmtOK ==
  /\ TableOK(parseSwitchStmt)
  /\ DOMAIN parseSwitchStmt = {"switchStmt", "cases", "arm", "default",
    "colon", "armStmts", "armEnd", "casesEnd"}
<1>1. BlockOK("switchStmt", parseSwitchStmt["switchStmt"])
  <2>1. StepOK("switchStmt", 1, skip)
    BY DEF skip, Taking
  <2>2. StepOK("switchStmt", 2, expect("("))
    BY DEF expect, Expecting, Eof
  <2>3. StepOK("switchStmt", 3, need("expr"))
    BY DEF need, Calling, CallKinds
  <2>4. StepOK("switchStmt", 4, expect(")"))
    BY DEF expect, Expecting, Eof
  <2>5. StepOK("switchStmt", 5, expect(OpenCurly))
    BY NamedTokens DEF expect, Expecting
  <2>6. StepOK("switchStmt", 6, go("cases"))
    BY DEF go, Going
  <2>7. go("cases").do \in Final /\ "switchStmt" \in Blocks
    BY DEF go
  <2> HIDE DEF StepOK, BlockOK, Blocks, Final
  <2>8. QED
    BY <2>1, <2>2, <2>3, <2>4, <2>5, <2>6, <2>7, BlockOf6 DEF parseSwitchStmt
<1>2. BlockOK("cases", parseSwitchStmt["cases"])
  <2>1. \E c \in {<<{CloseCurly, Eof}, "casesEnd">>} : Eof \in c[1] /\ CloseCurly \in c[1]
    OBVIOUS
  <2>2. StepOK("cases", 1, on({<<{CloseCurly, Eof}, "casesEnd">>}))
    BY NamedTokens, <2>1 DEF on, Choosing
  <2>3. StepOK("cases", 2, each("arm"))
    BY DEF each, Calling, CallKinds
  <2>4. StepOK("cases", 3, go("cases"))
    BY DEF go, Going
  <2>5. go("cases").do \in Final /\ "cases" \in Blocks
    BY DEF go
  <2> HIDE DEF StepOK, BlockOK, Blocks, Final
  <2>6. QED
    BY <2>2, <2>3, <2>4, <2>5, BlockOf3 DEF parseSwitchStmt
<1>3. BlockOK("arm", parseSwitchStmt["arm"])
  <2>1. StepOK("arm", 1, on({<<{"anyatha"}, "default">>}))
    BY DEF on, Choosing, Eof
  <2>2. StepOK("arm", 2, need("expr"))
    BY DEF need, Calling, CallKinds
  <2>3. StepOK("arm", 3, go("colon"))
    BY DEF go, Going
  <2>4. go("colon").do \in Final /\ "arm" \in Blocks
    BY DEF go
  <2> HIDE DEF StepOK, BlockOK, Blocks, Final
  <2>5. QED
    BY <2>1, <2>2, <2>3, <2>4, BlockOf3 DEF parseSwitchStmt
<1>4. BlockOK("default", parseSwitchStmt["default"])
  BY DEF parseSwitchStmt, keep, go, Taking, Going
<1>5. BlockOK("colon", parseSwitchStmt["colon"])
  BY DEF parseSwitchStmt, expect, go, Expecting, Going, Eof
<1>6. BlockOK("armStmts", parseSwitchStmt["armStmts"])
  <2>1. \E c \in {<<{CloseCurly, Eof, "anyatha"}, "armEnd">>} :
          Eof \in c[1] /\ CloseCurly \in c[1]
    OBVIOUS
  <2>2. StepOK("armStmts", 1, on({<<{CloseCurly, Eof, "anyatha"}, "armEnd">>}))
    BY NamedTokens, <2>1 DEF on, Choosing
  <2>3. StepOK("armStmts", 2, ahead({"int"}, {":"}, "armEnd"))
    BY DEF ahead, Looking, Eof
  <2>4. StepOK("armStmts", 3, each("stmt"))
    BY DEF each, Calling, CallKinds
  <2>5. StepOK("armStmts", 4, go("armStmts"))
    BY DEF go, Going
  <2>6. go("armStmts").do \in Final /\ "armStmts" \in Blocks
    BY DEF go
  <2> HIDE DEF StepOK, BlockOK, Blocks, Final
  <2>7. QED
    BY <2>2, <2>3, <2>4, <2>5, <2>6, BlockOf4 DEF parseSwitchStmt
<1>7. BlockOK("armEnd", parseSwitchStmt["armEnd"])
  BY DEF parseSwitchStmt, node, Leaving, Returning
<1>8. BlockOK("casesEnd", parseSwitchStmt["casesEnd"])
  BY NamedTokens DEF parseSwitchStmt, expect, node, Expecting, Leaving,
                     Returning, Eof
<1>9. DOMAIN parseSwitchStmt = {"switchStmt", "cases", "arm", "default",
    "colon", "armStmts", "armEnd", "casesEnd"}
  BY DEF parseSwitchStmt
<1>10. QED
  BY <1>1, <1>2, <1>3, <1>4, <1>5, <1>6, <1>7, <1>8, <1>9 DEF TableOK

(* The blocks of parseReturnStmt().                                        *)
LEMMA ReturnStmtOK ==
  /\ TableOK(parseReturnStmt)
  /\ DOMAIN parseReturnStmt = {"returnStmt", "returnEnd"}
<1>1. BlockOK("returnStmt", parseReturnStmt["returnStmt"])
  <2>1. StepOK("returnStmt", 1, skip)
    BY DEF skip, Taking
  <2>2. StepOK("returnStmt", 2, on({<<{Semicolon}, "returnEnd">>}))
    BY NamedTokens DEF on, Choosing, Eof
  <2>3. StepOK("returnStmt", 3, need("expr"))
    BY DEF need, Calling, CallKinds
  <2>4. StepOK("returnStmt", 4, go("returnEnd"))
    BY DEF go, Going
  <2>5. go("returnEnd").do \in Final /\ "returnStmt" \in Blocks
    BY DEF go
  <2> HIDE DEF StepOK, BlockOK, Blocks, Final
  <2>6. QED
    BY <2>1, <2>2, <2>3, <2>4, <2>5, BlockOf4 DEF parseReturnStmt
<1>2. BlockOK("returnEnd", parseReturnStmt["returnEnd"])
  BY NamedTokens DEF parseReturnStmt, expect, node, Expecting, Leaving,
                     Returning, Eof
<1>3. DOMAIN parseReturnStmt = {"returnStmt", "returnEnd"}
  BY DEF parseReturnStmt
<1>4. QED
  BY <1>1, <1>2, <1>3 DEF TableOK

(* The blocks of parseStmt().                                              *)
LEMMA StmtOK ==
  /\ TableOK(parseStmt)
  /\ DOMAIN parseStmt = {"stmt", "breakStmt", "continueStmt", "preStmt"}
<1>1. BlockOK("stmt", parseStmt["stmt"])
  BY IdentsAssumption, NamedTokens DEF parseStmt, on, fail, Choosing,
    Leaving, IncDec, DeclStart, Modifiers, Types, Sizes, Eof
<1>2. BlockOK("breakStmt", parseStmt["breakStmt"])
  BY NamedTokens DEF parseStmt, skip, expect, node, Taking, Expecting,
                     Leaving, Returning, Eof
<1>3. BlockOK("continueStmt", parseStmt["continueStmt"])
  BY NamedTokens DEF parseStmt, skip, expect, node, Taking, Expecting,
                     Leaving, Returning, Eof
<1>4. BlockOK("preStmt", parseStmt["preStmt"])
  BY NamedTokens DEF parseStmt, keep, expect, name, node, Taking, Expecting,
                     Leaving, Returning, Eof
<1>5. DOMAIN parseStmt = {"stmt", "breakStmt", "continueStmt", "preStmt"}
  BY DEF parseStmt
<1>6. QED
  BY <1>1, <1>2, <1>3, <1>4, <1>5 DEF TableOK

(* The blocks of parseProgram().                                           *)
LEMMA ProgramOK ==
  /\ TableOK(parseProgram)
  /\ DOMAIN parseProgram = {"program", "programEnd"}
<1>1. BlockOK("program", parseProgram["program"])
  <2>1. \E c \in {<<{Eof}, "programEnd">>} : Eof \in c[1]
    OBVIOUS
  <2>2. StepOK("program", 1, on({<<{Eof}, "programEnd">>}))
    BY <2>1 DEF on, Choosing
  <2>3. StepOK("program", 2, each("stmt"))
    BY DEF each, Calling, CallKinds
  <2>4. StepOK("program", 3, go("program"))
    BY DEF go, Going
  <2>5. go("program").do \in Final /\ "program" \in Blocks
    BY DEF go
  <2> HIDE DEF StepOK, BlockOK, Blocks, Final
  <2>6. QED
    BY <2>2, <2>3, <2>4, <2>5, BlockOf3 DEF parseProgram
<1>2. BlockOK("programEnd", parseProgram["programEnd"])
  BY DEF parseProgram, node, Leaving, Returning
<1>3. DOMAIN parseProgram = {"program", "programEnd"}
  BY DEF parseProgram
<1>4. QED
  BY <1>1, <1>2, <1>3 DEF TableOK

HIDE DEF Blocks, Mods, Consuming, Region, Takers, Entered, Moved, Guarded, Special,
  IfStays, IfAdvances, Plain, Optional, StepOK, Final, BlockOK

(* Every block of every function is as it must be.                         *)
LEMMA CodeOK ==
  /\ DOMAIN Code = Blocks
  /\ \A b \in Blocks : BlockOK(b, Code[b])
<1>1. \A t \in Tables : TableOK(t)
  BY ArgListOK, TermOK, PostfixOK, UnaryOK, ExprOK, ScopeOK, ElseChainOK,
     ModifiersOK, VarDeclTailOK, FuncDeclTailOK, DeclOrFuncOK, ExitStmtOK,
     PrintStmtOK, IfStmtOK, WhileStmtOK, AssignTailOK, IdentifierLeadStmtOK,
     ForInitOK, ForStepOK, ForStmtOK, SwitchStmtOK, ReturnStmtOK, StmtOK,
     ProgramOK DEF Tables
<1>2. \A b \in DOMAIN Code : \E t \in Tables : b \in DOMAIN t /\ Code[b] = t[b]
  BY DEF Code
<1>3. \A b \in Blocks : \E t \in Tables : b \in DOMAIN t
  BY ArgListOK, TermOK, PostfixOK, UnaryOK, ExprOK, ScopeOK, ElseChainOK,
     ModifiersOK, VarDeclTailOK, FuncDeclTailOK, DeclOrFuncOK, ExitStmtOK,
     PrintStmtOK, IfStmtOK, WhileStmtOK, AssignTailOK, IdentifierLeadStmtOK,
     ForInitOK, ForStepOK, ForStmtOK, SwitchStmtOK, ReturnStmtOK, StmtOK,
     ProgramOK DEF Tables, Blocks
<1>4. Blocks \subseteq DOMAIN Code
  BY <1>3 DEF Code
<1>5. QED
  BY <1>1, <1>2, <1>4 DEF TableOK, BlockOK

-----------------------------------------------------------------------------
(* What the machine keeps of an activation f whose position is p: where it *)
(* is called from, or where the cursor is.                                 *)
ErrorSince(s, errs) == \E e \in errs : e >= s

Fields == {"block", "pc", "start", "from", "min", "words", "kids"}

IsActivation(f) ==
  /\ DOMAIN f = Fields
  /\ f.words \in Seq(Token)
  /\ \E S : f.kids \in Seq(S)

InTable(f) == f.block \in Blocks /\ f.pc \in DOMAIN Code[f.block]

Placed(f, p) ==
  /\ f.start \in Nat \ {0} /\ f.from \in Nat /\ p \in Nat
  /\ f.start <= f.from /\ f.from <= p
  /\ Moved(f.block, f.pc) => f.start < p
  /\ f.block \in Optional => Moved(f.block, f.pc) \/ p = f.start

Seen(f, token) ==
  /\ <<f.block, f.pc>> \in Guarded =>
       token # Eof /\ (f.block = "program" \/ token # CloseCurly)
  /\ f.block \in Takers /\ f.pc = 1 => token # Eof
  /\ <<f.block, f.pc>> = <<"base", 1>> => token \in Types

Based(f, errs) ==
  /\ <<f.block, f.pc>> = <<"base", 2>> => HasBase(f)
  /\ <<f.block, f.pc>> = <<"access", 7>> => ErrorSince(f.start, errs)
  /\ <<f.block, f.pc>> = <<"declOrFunc", 2>> =>
       HasBase(Last(f.kids)) \/ ErrorSince(f.start, errs)

ActivationOK(f, p, toks, errs) ==
  IsActivation(f) /\ InTable(f) /\ Placed(f, p) /\ Seen(f, toks[p]) /\ Based(f, errs)

(* What a call returned, with the cursor at i, and that it was the call    *)
(* the activation f is at that began g, or returned it.                    *)
ReturnOK(r, i, errs) ==
  /\ r.is \in {"value", "nullopt"}
  /\ r.block \in Blocks
  /\ r.start \in 1..i
  /\ r.is = "value" =>
       /\ r.block \in Consuming => r.start < i
       /\ r.block \in Mods => HasBase(r.tree) \/ ErrorSince(r.start, errs)
  /\ r.is = "nullopt" => ErrorSince(r.start, errs) \/ (r.block \in Optional /\ i = r.start)

StepOf(f) == Code[f.block][f.pc]

Follows(f, g) ==
  /\ StepOf(f).do \in CallKinds
  /\ g.block \in Blocks /\ Region(StepOf(f).block, g.block)
  /\ g.start = f.from

Place(i) == IF i = Len(stack) /\ ret.is = "none" THEN idx ELSE stack[i].from

(* The inductive invariant.                                                *)
InsideInput == tokens \in Inputs /\ idx \in 1..Len(tokens) /\ errors \subseteq 1..idx

Activations ==
  /\ \E S : stack \in Seq(S)
  /\ \A i \in 1..Len(stack) : ActivationOK(stack[i], Place(i), tokens, errors)
  /\ \A i \in 1..(Len(stack) - 1) : Follows(stack[i], stack[i + 1])
  /\ \A i \in 1..Len(stack) : stack[i].from <= idx

ReturnIsOK ==
  /\ ret.is \in {"none", "value", "nullopt"}
  /\ ret.is = "none" => ret = Nothing
  /\ ret.is # "none" => ReturnOK(ret, idx, errors)
  /\ ret.is # "none" /\ stack # <<>> => Follows(stack[Len(stack)], ret)

IInv == InsideInput /\ Activations /\ ReturnIsOK

-----------------------------------------------------------------------------
(* The tokens, and the cursor.                                             *)
LEMMA InputsAre ==
  ASSUME NEW t \in Inputs
  PROVE  /\ t \in Seq(Token) /\ Len(t) \in Nat \ {0}
         /\ \A i \in 1..Len(t) : t[i] \in Token /\ (t[i] = Eof <=> i = Len(t))
<1>1. t \in Seq(Token) /\ t # <<>> /\ \A i \in DOMAIN t : t[i] = Eof <=> i = Len(t)
  BY InputsAssumption
<1>2. Len(t) \in Nat /\ DOMAIN t = 1..Len(t) /\ Len(t) # 0
  BY <1>1, EmptySeq
<1>3. \A i \in 1..Len(t) : t[i] \in Token
  BY <1>1
<1>4. \A i \in 1..Len(t) : t[i] = Eof <=> i = Len(t)
  BY <1>1, <1>2
<1>5. QED
  BY <1>1, <1>2, <1>3, <1>4

(* peek() and advance().                                                   *)
LEMMA CursorMoves ==
  ASSUME InsideInput
  PROVE  /\ Peek = tokens[idx] /\ Peek \in Token
         /\ After(idx) \in idx..Len(tokens)
         /\ Peek # Eof => After(idx) = idx + 1
<1>1. tokens \in Inputs /\ idx \in 1..Len(tokens)
  BY DEF InsideInput
<1>2. QED
  BY <1>1, InputsAre DEF Peek, PeekAt, After

(* synchronize() stops at a token it finds, at or after the cursor; a      *)
(* statement loop that saw neither a closing bracket nor the end before    *)
(* the statement is past that place then.                                  *)
LEMMA SyncMoves ==
  ASSUME InsideInput
  PROVE  /\ SyncFrom(idx) \in idx..Len(tokens)
         /\ SyncFrom(idx) = idx => tokens[idx] \in {CloseCurly, Eof}
<1>1. tokens \in Inputs /\ idx \in 1..Len(tokens)
  BY DEF InsideInput
<1>2. Stops(idx) \in SUBSET Nat
  BY <1>1 DEF Stops
<1>3. Len(tokens) \in Stops(idx)
  BY <1>1, InputsAre DEF Stops
<1>4. Min(Stops(idx)) \in Stops(idx)
  BY <1>2, <1>3, MinOfNaturals
<1> DEFINE stop == Min(Stops(idx))
<1>5. /\ stop \in idx..Len(tokens)
      /\ tokens[stop] \in {Semicolon, CloseCurly, Eof}
  BY <1>4 DEF Stops
<1>6. tokens[stop] = Semicolon => After(stop) = stop + 1 /\ stop + 1 <= Len(tokens)
  BY <1>1, <1>5, InputsAre, NamedTokens DEF After
<1>7. SyncFrom(idx) = IF tokens[stop] = Semicolon THEN After(stop) ELSE stop
  BY DEF SyncFrom
<1> HIDE DEF stop
<1>8. QED
  BY <1>1, <1>5, <1>6, <1>7

-----------------------------------------------------------------------------
(* The changes the machine makes to an activation.                         *)
LEMMA PastIs ==
  ASSUME NEW f, IsActivation(f)
  PROVE  /\ IsActivation(Past(f))
         /\ Past(f).block = f.block /\ Past(f).pc = f.pc + 1
         /\ Past(f).start = f.start /\ Past(f).from = f.from
         /\ Past(f).words = f.words /\ Past(f).kids = f.kids
BY DEF IsActivation, Fields, Past

(* Going to the first step of a block.                                     *)
LEMMA ToIs ==
  ASSUME NEW f, IsActivation(f), NEW b
  PROVE  /\ IsActivation(To(f, b))
         /\ To(f, b).block = b /\ To(f, b).pc = 1
         /\ To(f, b).start = f.start /\ To(f, b).from = f.from
         /\ To(f, b).words = f.words /\ To(f, b).kids = f.kids
BY DEF IsActivation, Fields, To

(* A token becomes a word of the node.                                     *)
LEMMA WithWordIs ==
  ASSUME NEW f, IsActivation(f), NEW w \in Token
  PROVE  /\ IsActivation(WithWord(f, w))
         /\ WithWord(f, w).block = f.block /\ WithWord(f, w).pc = f.pc
         /\ WithWord(f, w).start = f.start /\ WithWord(f, w).from = f.from
         /\ WithWord(f, w).words = Append(f.words, w) /\ WithWord(f, w).kids = f.kids
BY DEF IsActivation, Fields, WithWord

(* A node becomes a subtree, the last one.                                 *)
LEMMA WithKidIs ==
  ASSUME NEW f, IsActivation(f), NEW k
  PROVE  /\ IsActivation(WithKid(f, k))
         /\ WithKid(f, k).block = f.block /\ WithKid(f, k).pc = f.pc
         /\ WithKid(f, k).start = f.start /\ WithKid(f, k).from = f.from
         /\ WithKid(f, k).words = f.words /\ Last(WithKid(f, k).kids) = k
<1>1. PICK S : f.kids \in Seq(S)
  BY DEF IsActivation
<1>2. f.kids \in Seq(S \cup {k})
  BY <1>1
<1>3. /\ Append(f.kids, k) \in Seq(S \cup {k})
      /\ Last(Append(f.kids, k)) = k
  BY <1>2, AppendProperties DEF Last
<1>4. QED
  BY <1>3 DEF IsActivation, Fields, WithKid

(* An activation that goes to another step, and the cursor with it: to     *)
(* where it is, or past the token.                                         *)
LEMMA StaysPlaced ==
  ASSUME NEW f, NEW p, NEW g, Placed(f, p), g.start = f.start, g.from = f.from,
         IfStays(f.block, f.pc, g.block, g.pc)
  PROVE  Placed(g, p)
BY DEF Placed, IfStays

(* The same when the cursor has advanced.                                  *)
LEMMA AdvancesPlaced ==
  ASSUME NEW f, NEW p, NEW q \in Nat, NEW g, Placed(f, p), p < q,
         g.start = f.start, g.from = f.from, g.block \in Optional => Moved(g.block, g.pc)
  PROVE  Placed(g, q)
BY DEF Placed

(* Nothing in particular has to be known at most steps.                    *)
LEMMA PlainIs ==
  ASSUME NEW g, Plain(g.block, g.pc), NEW token, NEW errs
  PROVE  Seen(g, token) /\ Based(g, errs)
<1>1. /\ <<g.block, g.pc>> \notin Guarded
      /\ <<g.block, g.pc>> \notin Special
      /\ ~(g.block \in Takers /\ g.pc = 1)
  BY DEF Plain
<1>2. Special = {<<"base", 1>>, <<"base", 2>>, <<"access", 7>>, <<"declOrFunc", 2>>}
  BY DEF Special
<1>3. QED
  BY <1>1, <1>2 DEF Seen, Based

(* Only at a few steps is something known of the modifiers.                *)
LEMMA UnspecialIs ==
  ASSUME NEW g, <<g.block, g.pc>> \notin Special, NEW token, NEW errs
  PROVE  /\ Based(g, errs)
         /\ Seen(g, token) <=>
              /\ <<g.block, g.pc>> \in Guarded =>
                   token # Eof /\ (g.block = "program" \/ token # CloseCurly)
              /\ g.block \in Takers /\ g.pc = 1 => token # Eof
<1>1. Special = {<<"base", 1>>, <<"base", 2>>, <<"access", 7>>, <<"declOrFunc", 2>>}
  BY DEF Special
<1>2. QED
  BY <1>1 DEF Seen, Based

(* More reports change nothing of it.                                      *)
LEMMA MoreErrors ==
  ASSUME NEW f, NEW p, NEW toks, NEW errs, NEW more, errs \subseteq more,
         ActivationOK(f, p, toks, errs)
  PROVE  ActivationOK(f, p, toks, more)
BY DEF ActivationOK, Based, ErrorSince

(* Two jumps are like one.                                                 *)
LEMMA RegionTransitive ==
  ASSUME NEW b, NEW c, NEW d, Region(b, c), Region(c, d)
  PROVE  Region(b, d)
BY DEF Region

-----------------------------------------------------------------------------
(* The three things a step does to the stack keep the invariant.           *)
LEMMA Top ==
  ASSUME IInv, stack # <<>>
  PROVE  /\ Len(stack) \in Nat \ {0} /\ frame = stack[Len(stack)]
         /\ ActivationOK(frame, Place(Len(stack)), tokens, errors)
         /\ StepOK(frame.block, frame.pc, step)
         /\ step.do \in Final \/ frame.pc + 1 \in DOMAIN Code[frame.block]
         /\ step = StepOf(frame)
<1>1. PICK S : stack \in Seq(S)
  BY DEF IInv, Activations
<1>2. Len(stack) \in Nat \ {0}
  BY <1>1, EmptySeq
<1>3. frame = stack[Len(stack)]
  BY DEF frame, Last
<1>4. ActivationOK(frame, Place(Len(stack)), tokens, errors)
  BY <1>2, <1>3 DEF IInv, Activations
<1>5. QED
  BY <1>2, <1>3, <1>4, CodeOK DEF ActivationOK, InTable, BlockOK, step, StepOf

Grows == errors \subseteq errors' /\ errors' \subseteq 1..idx' /\ idx <= idx'

(* Going on in the innermost activation.                                   *)
LEMMA Resumed ==
  ASSUME IInv, stack # <<>>, NEW f,
         tokens' = tokens, idx' \in 1..Len(tokens), Grows,
         stack' = [stack EXCEPT ![Len(stack)] = f], ret' = Nothing,
         ActivationOK(f, idx', tokens, errors'),
         f.start = frame.start, Region(frame.block, f.block)
  PROVE  IInv'
<1> DEFINE n == Len(stack)
<1>1. PICK S : stack \in Seq(S)
  BY DEF IInv, Activations
<1>2. n \in Nat \ {0} /\ frame = stack[n]
  BY Top
<1>3. /\ stack' \in Seq(S \cup {f}) /\ Len(stack') = n
      /\ stack'[n] = f /\ \A i \in 1..(n - 1) : stack'[i] = stack[i]
  BY <1>1, <1>2
<1>4. /\ idx \in Nat /\ idx' \in Nat /\ idx <= idx'
      /\ \A i \in 1..n : stack[i].from <= idx /\ stack[i].from \in Nat
  <2>1. Len(tokens) \in Nat /\ idx \in 1..Len(tokens)
    BY InputsAre DEF IInv, InsideInput
  <2>2. QED
    BY <2>1 DEF IInv, Activations, ActivationOK, Placed, Grows
<1>5. ret'.is = "none"
  BY DEF Nothing
<1>6. InsideInput'
  BY DEF IInv, InsideInput, Grows
<1>7. \A i \in 1..n : ActivationOK(stack'[i], Place(i)', tokens', errors')
  <2>1. SUFFICES ASSUME NEW i \in 1..n
                 PROVE  ActivationOK(stack'[i], Place(i)', tokens', errors')
    OBVIOUS
  <2>2. CASE i = n
    <3>1. Place(i)' = idx'
      BY <1>3, <1>5, <2>2 DEF Place
    <3>2. QED
      BY <1>3, <2>2, <3>1
  <2>3. CASE i # n
    <3>1. i \in 1..(n - 1)
      BY <1>2, <2>3
    <3>2. stack'[i] = stack[i]
      BY <1>3, <3>1
    <3>3. Place(i)' = stack[i].from /\ Place(i) = stack[i].from
      BY <1>2, <1>3, <2>3, <3>2 DEF Place
    <3>4. ActivationOK(stack[i], Place(i), tokens, errors)
      BY DEF IInv, Activations
    <3>5. QED
      BY <3>2, <3>3, <3>4, MoreErrors DEF Grows
  <2>4. QED
    BY <2>2, <2>3
<1>8. \A i \in 1..(n - 1) : Follows(stack'[i], stack'[i + 1])
  <2>1. SUFFICES ASSUME NEW i \in 1..(n - 1)
                 PROVE  Follows(stack'[i], stack'[i + 1])
    OBVIOUS
  <2>2. Follows(stack[i], stack[i + 1])
    BY DEF IInv, Activations
  <2>3. CASE i + 1 = n
    <3>1. Follows(stack[i], frame)
      BY <1>2, <2>2, <2>3
    <3>2. f.block \in Blocks
      BY DEF ActivationOK, InTable
    <3>3. Follows(stack[i], f)
      BY <3>1, <3>2, RegionTransitive DEF Follows
    <3>4. QED
      BY <1>3, <2>3, <3>3
  <2>4. CASE i + 1 # n
    <3>1. i + 1 \in 1..(n - 1)
      BY <1>2, <2>4
    <3>2. stack'[i] = stack[i] /\ stack'[i + 1] = stack[i + 1]
      BY <1>3, <3>1
    <3>3. QED
      BY <2>2, <3>2
  <2>5. QED
    BY <2>3, <2>4
<1>9. \A i \in 1..n : stack'[i].from <= idx'
  <2>1. f.from <= idx'
    BY DEF ActivationOK, Placed
  <2>2. \A i \in 1..(n - 1) : stack[i].from <= idx'
    BY <1>4, <1>2
  <2>3. \A i \in 1..n : i = n \/ i \in 1..(n - 1)
    BY <1>2
  <2>4. QED
    BY <1>2, <1>3, <2>1, <2>2, <2>3
<1>10. Activations'
  BY <1>3, <1>7, <1>8, <1>9 DEF Activations
<1>11. ReturnIsOK'
  BY <1>5 DEF ReturnIsOK
<1>12. QED
  BY <1>6, <1>10, <1>11 DEF IInv

(* Returning.                                                              *)
LEMMA Popped ==
  ASSUME IInv, stack # <<>>,
         tokens' = tokens, idx' = idx, Grows,
         stack' = Front(stack), ret'.block = frame.block, ret'.start = frame.start,
         ReturnOK(ret', idx', errors')
  PROVE  IInv'
<1> DEFINE n == Len(stack)
<1>1. PICK S : stack \in Seq(S)
  BY DEF IInv, Activations
<1>2. n \in Nat \ {0} /\ frame = stack[n]
  BY Top
<1>3. /\ stack' \in Seq(S) /\ Len(stack') = n - 1
      /\ \A i \in 1..(n - 1) : stack'[i] = stack[i]
  BY <1>1, <1>2, FrontProperties
<1>4. /\ idx \in Nat /\ idx' \in Nat /\ idx <= idx'
      /\ \A i \in 1..n : stack[i].from <= idx /\ stack[i].from \in Nat
  <2>1. Len(tokens) \in Nat /\ idx \in 1..Len(tokens)
    BY InputsAre DEF IInv, InsideInput
  <2>2. QED
    BY <2>1 DEF IInv, Activations, ActivationOK, Placed, Grows
<1>5. ret'.is # "none" /\ ret'.is \in {"none", "value", "nullopt"}
  BY DEF ReturnOK
<1>6. InsideInput'
  BY DEF IInv, InsideInput, Grows
<1>7. \A i \in 1..(n - 1) : ActivationOK(stack'[i], Place(i)', tokens', errors')
  <2>1. SUFFICES ASSUME NEW i \in 1..(n - 1)
                 PROVE  ActivationOK(stack'[i], Place(i)', tokens', errors')
    OBVIOUS
  <2>2. Place(i)' = stack[i].from /\ Place(i) = stack[i].from
    BY <1>2, <1>3, <1>5 DEF Place
  <2>3. ActivationOK(stack[i], Place(i), tokens, errors)
    BY <1>2 DEF IInv, Activations
  <2>4. QED
    BY <1>3, <2>2, <2>3, MoreErrors DEF Grows
<1>8. \A i \in 1..(n - 2) : Follows(stack'[i], stack'[i + 1])
  BY <1>2, <1>3 DEF IInv, Activations
<1>9. \A i \in 1..(n - 1) : stack'[i].from <= idx'
  BY <1>4, <1>2, <1>3
<1>10. Activations'
  BY <1>2, <1>3, <1>7, <1>8, <1>9 DEF Activations
<1>11. stack' # <<>> => Follows(stack'[Len(stack')], ret')
  <2>1. SUFFICES ASSUME stack' # <<>>
                 PROVE  Follows(stack'[n - 1], ret')
    BY <1>3
  <2>2. n - 1 \in 1..(n - 1)
    BY <1>2, <1>3, <2>1, EmptySeq
  <2>3. Follows(stack[n - 1], stack[n])
    BY <1>2, <2>2 DEF IInv, Activations
  <2>4. QED
    BY <1>2, <1>3, <2>2, <2>3 DEF Follows
<1>12. ReturnIsOK'
  BY <1>5, <1>11 DEF ReturnIsOK
<1>13. QED
  BY <1>6, <1>10, <1>12 DEF IInv

(* Calling.                                                                *)
LEMMA Pushed ==
  ASSUME IInv, stack # <<>>, ret = Nothing, NEW f, NEW g,
         tokens' = tokens, idx' = idx, errors' = errors, ret' = ret,
         stack' = Append([stack EXCEPT ![Len(stack)] = f], g),
         f.from <= idx, ActivationOK(f, f.from, tokens, errors),
         ActivationOK(g, idx, tokens, errors),
         f.start = frame.start, f.block = frame.block, Follows(f, g)
  PROVE  IInv'
<1> DEFINE n == Len(stack)
           top == [stack EXCEPT ![n] = f]
<1>1. PICK S : stack \in Seq(S)
  BY DEF IInv, Activations
<1>2. n \in Nat \ {0} /\ frame = stack[n]
  BY Top
<1>3. /\ stack' \in Seq(S \cup {f, g}) /\ Len(stack') = n + 1
      /\ stack'[n + 1] = g /\ stack'[n] = f
      /\ \A i \in 1..(n - 1) : stack'[i] = stack[i]
  <2>1. /\ top \in Seq(S \cup {f, g}) /\ Len(top) = n /\ top[n] = f
        /\ \A i \in 1..(n - 1) : top[i] = stack[i]
    BY <1>1, <1>2
  <2>2. stack' = Append(top, g)
    OBVIOUS
  <2> HIDE DEF top
  <2>3. /\ stack' \in Seq(S \cup {f, g}) /\ Len(stack') = n + 1
        /\ \A i \in 1..n : stack'[i] = top[i]
        /\ stack'[n + 1] = g
    <3> DEFINE T == S \cup {f, g}
    <3>1. g \in T /\ top \in Seq(T)
      BY <2>1
    <3> HIDE DEF T
    <3>2. /\ Append(top, g) \in Seq(T) /\ Len(Append(top, g)) = Len(top) + 1
          /\ \A i \in 1..Len(top) : Append(top, g)[i] = top[i]
          /\ Append(top, g)[Len(top) + 1] = g
      BY <3>1, AppendProperties
    <3>3. QED
      BY <2>1, <2>2, <3>2 DEF T
  <2>4. QED
    BY <1>2, <2>1, <2>3
<1>4. /\ idx \in Nat /\ idx' \in Nat /\ idx <= idx'
      /\ \A i \in 1..n : stack[i].from <= idx /\ stack[i].from \in Nat
  <2>1. Len(tokens) \in Nat /\ idx \in 1..Len(tokens)
    BY InputsAre DEF IInv, InsideInput
  <2>2. QED
    BY <2>1 DEF IInv, Activations, ActivationOK, Placed
<1>5. ret.is = "none" /\ ret'.is = "none"
  BY DEF Nothing
<1>6. InsideInput'
  BY DEF IInv, InsideInput
<1>7. \A i \in 1..(n + 1) : ActivationOK(stack'[i], Place(i)', tokens', errors')
  <2>1. SUFFICES ASSUME NEW i \in 1..(n + 1)
                 PROVE  ActivationOK(stack'[i], Place(i)', tokens', errors')
    OBVIOUS
  <2>2. CASE i = n + 1
    <3>1. Place(i)' = idx
      BY <1>3, <1>5, <2>2 DEF Place
    <3>2. QED
      BY <1>3, <2>2, <3>1
  <2>3. CASE i = n
    <3>1. Place(i)' = f.from
      BY <1>2, <1>3, <2>3 DEF Place
    <3>2. QED
      BY <1>3, <2>3, <3>1
  <2>4. CASE i \in 1..(n - 1)
    <3>1. Place(i)' = stack[i].from /\ Place(i) = stack[i].from
      BY <1>2, <1>3, <2>4 DEF Place
    <3>2. ActivationOK(stack[i], Place(i), tokens, errors)
      BY <1>2, <2>4 DEF IInv, Activations
    <3>3. QED
      BY <1>3, <2>4, <3>1, <3>2
  <2>5. QED
    BY <1>2, <2>2, <2>3, <2>4
<1>8. \A i \in 1..n : Follows(stack'[i], stack'[i + 1])
  <2>1. SUFFICES ASSUME NEW i \in 1..n
                 PROVE  Follows(stack'[i], stack'[i + 1])
    OBVIOUS
  <2>2. CASE i = n
    BY <1>3, <2>2
  <2>3. CASE i # n
    <3>1. i \in 1..(n - 1) /\ Follows(stack[i], stack[i + 1])
      BY <1>2, <2>3 DEF IInv, Activations
    <3>2. stack'[i] = stack[i]
      BY <1>3, <3>1
    <3>3. CASE i + 1 = n
      BY <1>2, <1>3, <3>1, <3>2, <3>3 DEF Follows
    <3>4. CASE i + 1 # n
      BY <1>2, <1>3, <3>1, <3>2, <3>4
    <3>5. QED
      BY <3>3, <3>4
  <2>4. QED
    BY <2>2, <2>3
<1>9. \A i \in 1..(n + 1) : stack'[i].from <= idx'
  <2>1. f.from <= idx' /\ g.from <= idx'
    BY DEF ActivationOK, Placed
  <2>2. \A i \in 1..(n - 1) : stack[i].from <= idx'
    BY <1>4, <1>2
  <2>3. \A i \in 1..(n + 1) : i = n + 1 \/ i = n \/ i \in 1..(n - 1)
    BY <1>2
  <2>4. QED
    BY <1>2, <1>3, <2>1, <2>2, <2>3
<1>10. Activations'
  BY <1>3, <1>7, <1>8, <1>9 DEF Activations
<1>11. ReturnIsOK'
  BY <1>5 DEF ReturnIsOK
<1>12. QED
  BY <1>6, <1>10, <1>11 DEF IInv

-----------------------------------------------------------------------------
(* The steps.  First what they have in common.                             *)
LEMMA AtStep ==
  ASSUME IInv, stack # <<>>, ret.is = "none"
  PROVE  /\ ActivationOK(frame, idx, tokens, errors)
         /\ StepOK(frame.block, frame.pc, step)
         /\ step.do \in Final \/ frame.pc + 1 \in DOMAIN Code[frame.block]
BY Top DEF Place

(* Every block has a first step.                                           *)
LEMMA Blocks1 ==
  ASSUME NEW b \in Blocks
  PROVE  1 \in DOMAIN Code[b]
BY CodeOK DEF BlockOK

(* Going on with the cursor where it is.                                   *)
LEMMA ResumeStays ==
  ASSUME IInv, stack # <<>>, ret.is = "none", NEW g,
         IsActivation(g), g.start = frame.start, g.from = frame.from,
         IfStays(frame.block, frame.pc, g.block, g.pc), g.pc \in DOMAIN Code[g.block],
         Seen(g, tokens[idx]), Based(g, errors'),
         tokens' = tokens, idx' = idx, Grows, Resume(g), ret' = Nothing
  PROVE  IInv'
<1>1. Placed(g, idx)
  BY AtStep, StaysPlaced DEF ActivationOK
<1>2. g.block \in Blocks /\ Region(frame.block, g.block)
  BY DEF IfStays
<1>3. ActivationOK(g, idx', tokens, errors')
  BY <1>1, <1>2 DEF ActivationOK, InTable
<1>4. idx' \in 1..Len(tokens)
  BY DEF IInv, InsideInput
<1>5. QED
  BY <1>2, <1>3, <1>4, Resumed DEF Resume

(* Going on with the cursor past a token.                                  *)
LEMMA ResumeAdvances ==
  ASSUME IInv, stack # <<>>, ret.is = "none", NEW g,
         IsActivation(g), g.start = frame.start, g.from = frame.from,
         IfAdvances(frame.block, g.block, g.pc), g.pc \in DOMAIN Code[g.block],
         Moved(g.block, g.pc) => frame.start < idx',
         <<g.block, g.pc>> # <<"base", 1>>, Based(g, errors'),
         tokens' = tokens, idx' = After(idx), errors' = errors, Resume(g),
         ret' = Nothing
  PROVE  IInv'
<1>1. idx' \in idx..Len(tokens) /\ idx \in 1..Len(tokens) /\ errors \subseteq 1..idx
  BY CursorMoves DEF IInv, InsideInput
<1>2. Placed(frame, idx) /\ idx' \in Nat /\ idx <= idx' /\ idx' \in 1..Len(tokens)
  <2>1. Len(tokens) \in Nat
    BY InputsAre DEF IInv, InsideInput
  <2>2. QED
    BY <1>1, <2>1, AtStep DEF ActivationOK
<1>3. Placed(g, idx')
  BY <1>2 DEF Placed, IfAdvances
<1>4. g.block \in Blocks /\ Region(frame.block, g.block)
  BY DEF IfAdvances
<1>5. Seen(g, tokens[idx'])
  BY DEF IfAdvances, Seen
<1>6. ActivationOK(g, idx', tokens, errors')
  BY <1>3, <1>4, <1>5 DEF ActivationOK, InTable
<1>7. Grows
  BY <1>1, <1>2 DEF Grows
<1>8. QED
  BY <1>2, <1>4, <1>6, <1>7, Resumed DEF Resume

(* An action that executes a step finds nothing returned.                  *)
LEMMA IsNothing ==
  ASSUME NEW do, At(do)
  PROVE  stack # <<>> /\ ret = Nothing /\ ret.is = "none" /\ step.do = do
BY DEF At, Nothing

(* Moving past a step with the token as a word of the node.                *)
LEMMA WordTaken ==
  ASSUME IInv, NEW f, IsActivation(f)
  PROVE  LET g == Past(WithWord(f, Peek))
         IN  /\ IsActivation(g) /\ g.block = f.block /\ g.pc = f.pc + 1
             /\ g.start = f.start /\ g.from = f.from
             /\ g.words = Append(f.words, Peek)
<1> DEFINE h == WithWord(f, Peek)
<1>1. Peek \in Token
  BY CursorMoves DEF IInv
<1>2. /\ IsActivation(h) /\ h.block = f.block /\ h.pc = f.pc
      /\ h.start = f.start /\ h.from = f.from
      /\ h.words = Append(f.words, Peek)
  BY <1>1, WithWordIs
<1> HIDE DEF h
<1>3. /\ IsActivation(Past(h)) /\ Past(h).block = f.block /\ Past(h).pc = f.pc + 1
      /\ Past(h).start = f.start /\ Past(h).from = f.from
      /\ Past(h).words = Append(f.words, Peek)
  BY <1>2, PastIs
<1>4. QED
  BY <1>3 DEF h

LEMMA TakenPlaced ==
  ASSUME IInv, stack # <<>>, ret.is = "none", step.do \in {"skip", "keep"},
         idx' = After(idx)
  PROVE  /\ Taking(frame.block, frame.pc, step)
         /\ frame.pc + 1 \in DOMAIN Code[frame.block]
         /\ Moved(frame.block, frame.pc + 1) => frame.start < idx'
<1>1. /\ Taking(frame.block, frame.pc, step)
      /\ frame.pc + 1 \in DOMAIN Code[frame.block]
  BY AtStep DEF StepOK, CallKinds, Leaving, Final
<1>2. InsideInput /\ Placed(frame, idx) /\ Seen(frame, tokens[idx])
  BY AtStep DEF IInv, ActivationOK
<1>3. idx \in Nat /\ idx' \in Nat /\ idx <= idx' /\ (tokens[idx] # Eof => idx' = idx + 1)
  <2>1. Len(tokens) \in Nat
    BY <1>2, InputsAre DEF InsideInput
  <2>2. QED
    BY <1>2, <2>1, CursorMoves DEF InsideInput
<1>4. CASE Moved(frame.block, frame.pc)
  <2>1. frame.start < idx'
    BY <1>2, <1>3, <1>4 DEF Placed
  <2>2. QED
    BY <1>1, <2>1
<1>5. CASE frame.block \in Takers /\ frame.pc = 1
  <2>1. tokens[idx] # Eof
    BY <1>2, <1>5 DEF Seen
  <2>2. frame.start < idx'
    BY <1>2, <1>3, <2>1 DEF Placed
  <2>3. QED
    BY <1>1, <2>2
<1>6. QED
  BY <1>1, <1>4, <1>5 DEF Taking

(* advance(), the token not used.                                          *)
LEMMA SkipKept ==
  ASSUME IInv, Skip
  PROVE  IInv'
<1>1. stack # <<>> /\ ret = Nothing /\ ret.is = "none" /\ step.do = "skip"
  BY IsNothing DEF Skip
<1> DEFINE g == Past(frame)
<1>2. IsActivation(frame)
  BY <1>1, AtStep DEF ActivationOK
<1>3. /\ IsActivation(g) /\ g.block = frame.block /\ g.pc = frame.pc + 1
      /\ g.start = frame.start /\ g.from = frame.from
  BY <1>2, PastIs
<1>4. /\ idx' = After(idx) /\ tokens' = tokens /\ errors' = errors
      /\ Resume(g) /\ ret' = Nothing
  BY <1>1 DEF Skip
<1>5. /\ Taking(frame.block, frame.pc, step)
      /\ frame.pc + 1 \in DOMAIN Code[frame.block]
      /\ Moved(frame.block, frame.pc + 1) => frame.start < idx'
  BY <1>1, <1>4, TakenPlaced
<1>6. IfAdvances(frame.block, g.block, g.pc) /\ <<g.block, g.pc>> \notin Special
  BY <1>1, <1>3, <1>5 DEF Taking
<1>7. <<g.block, g.pc>> # <<"base", 1>> /\ Based(g, errors')
  BY <1>6, UnspecialIs DEF Special
<1> HIDE DEF g
<1>8. QED
  BY <1>1, <1>3, <1>4, <1>5, <1>6, <1>7, ResumeAdvances

(* advance(), the token used.                                              *)
LEMMA KeepKept ==
  ASSUME IInv, Keep
  PROVE  IInv'
<1>1. stack # <<>> /\ ret = Nothing /\ ret.is = "none" /\ step.do = "keep"
  BY IsNothing DEF Keep
<1> DEFINE g == Past(WithWord(frame, Peek))
<1>2. IsActivation(frame) /\ Seen(frame, tokens[idx]) /\ frame.words \in Seq(Token)
  BY <1>1, AtStep DEF ActivationOK, IsActivation
<1>3. Peek = tokens[idx] /\ Peek \in Token
  BY CursorMoves DEF IInv
<1>4. /\ IsActivation(g) /\ g.block = frame.block /\ g.pc = frame.pc + 1
      /\ g.start = frame.start /\ g.from = frame.from
      /\ g.words = Append(frame.words, Peek)
  BY <1>2, WordTaken
<1>5. /\ idx' = After(idx) /\ tokens' = tokens /\ errors' = errors
      /\ Resume(g) /\ ret' = Nothing
  BY <1>1 DEF Keep
<1>6. /\ Taking(frame.block, frame.pc, step)
      /\ frame.pc + 1 \in DOMAIN Code[frame.block]
      /\ Moved(frame.block, frame.pc + 1) => frame.start < idx'
  BY <1>1, <1>5, TakenPlaced
<1> HIDE DEF g
<1>7. IfAdvances(frame.block, g.block, g.pc)
  BY <1>4, <1>6 DEF Taking
<1>8. <<g.block, g.pc>> # <<"base", 1>> /\ Based(g, errors')
  <2>1. CASE <<g.block, g.pc>> \notin Special
    BY <2>1, UnspecialIs DEF Special
  <2>2. CASE <<g.block, g.pc>> \in Special
    <3>1. frame.block = "base" /\ frame.pc = 1
      BY <1>4, <1>6, <2>2 DEF Taking
    <3>2. Peek \in Types
      BY <1>2, <1>3, <3>1 DEF Seen
    <3>3. HasBase(g)
      <4>1. /\ Len(g.words) \in DOMAIN g.words
            /\ g.words[Len(g.words)] = Peek
        BY <1>2, <1>3, <1>4, AppendProperties
      <4>2. QED
        BY <3>2, <4>1 DEF HasBase
    <3>4. QED
      BY <1>4, <3>1, <3>3 DEF Based
  <2>3. QED
    BY <2>1, <2>2
<1>9. QED
  BY <1>1, <1>4, <1>5, <1>6, <1>7, <1>8, ResumeAdvances

(* What the tables say of the step an action executes.                     *)
LEMMA StepIs ==
  ASSUME NEW b, NEW pc, NEW s, StepOK(b, pc, s)
  PROVE  /\ s.do \in {"expect", "name"} => Expecting(b, pc, s)
         /\ s.do \in {"demand", "option"} => Trying(b, pc)
         /\ s.do = "on" => Choosing(b, pc, s)
         /\ s.do = "match" => Matching(b, pc, s)
         /\ s.do = "ahead" => Looking(b, pc, s)
         /\ s.do = "go" => Going(b, pc, s)
         /\ s.do = "report" => Reporting(b, pc)
         /\ s.do = "typed" => <<b, pc>> = <<"declOrFunc", 2>> /\ Staying(b, pc)
         /\ s.do = "combine" => Staying(b, pc)
         /\ s.do = "climb" => Climbing(b, pc, s)
         /\ s.do \in CallKinds => Calling(b, pc, s)
         /\ s.do = "nothing" => b \in Optional /\ ~Moved(b, pc)
         /\ s.do \in {"node", "same"} => Returning(b, pc, s)
BY DEF StepOK, CallKinds, Leaving

(* An activation began before the cursor.                                  *)
LEMMA Began ==
  ASSUME IInv, stack # <<>>
  PROVE  /\ frame.block \in Blocks /\ IsActivation(frame)
         /\ frame.start \in 1..idx /\ frame.from \in 1..idx
         /\ frame.start <= frame.from /\ idx \in Nat
<1>1. ActivationOK(frame, Place(Len(stack)), tokens, errors) /\ frame = stack[Len(stack)]
  BY Top
<1>2. idx \in Nat
  <2>1. Len(tokens) \in Nat
    BY InputsAre DEF IInv, InsideInput
  <2>2. QED
    BY <2>1 DEF IInv, InsideInput
<1>3. frame.start \in Nat \ {0} /\ frame.from \in Nat /\ frame.start <= frame.from
  BY <1>1 DEF ActivationOK, Placed
<1>4. frame.from <= idx
  <2>1. CASE ret.is = "none"
    BY <1>1, <2>1 DEF ActivationOK, Placed, Place
  <2>2. CASE ret.is # "none"
    <3>1. frame.from = ret.start /\ ret.start \in 1..idx
      BY <1>1, <2>2 DEF IInv, ReturnIsOK, ReturnOK, Follows
    <3>2. QED
      BY <1>2, <3>1
  <2>3. QED
    BY <2>1, <2>2
<1>5. QED
  BY <1>1, <1>2, <1>3, <1>4 DEF ActivationOK, InTable

(* Steps are counted from 1.                                               *)
LEMMA AtPositive ==
  ASSUME IInv, stack # <<>>
  PROVE  frame.pc \in Nat \ {0}
<1>1. ActivationOK(frame, Place(Len(stack)), tokens, errors)
  BY Top
<1>2. QED
  BY <1>1, CodeOK DEF ActivationOK, InTable, BlockOK

(* Going on without the token, past a token, and giving up with a report.  *)
LEMMA Stayed ==
  ASSUME IInv, stack # <<>>, ret = Nothing, ret.is = "none", NEW g,
         IsActivation(g), g.start = frame.start, g.from = frame.from,
         IfStays(frame.block, frame.pc, g.block, g.pc), g.pc \in DOMAIN Code[g.block],
         Plain(g.block, g.pc),
         tokens' = tokens, idx' = idx, errors' = errors, Resume(g), ret' = Nothing
  PROVE  IInv'
<1>1. Seen(g, tokens[idx]) /\ Based(g, errors')
  BY PlainIs
<1>2. Grows
  BY DEF Grows, IInv, InsideInput
<1>3. QED
  BY <1>1, <1>2, ResumeStays

(* Going on past a token.                                                  *)
LEMMA Advanced ==
  ASSUME IInv, stack # <<>>, ret = Nothing, ret.is = "none", NEW g,
         IsActivation(g), g.start = frame.start, g.from = frame.from,
         IfAdvances(frame.block, g.block, g.pc), g.pc \in DOMAIN Code[g.block],
         <<g.block, g.pc>> \notin Special,
         Peek # Eof \/ (Moved(g.block, g.pc) => Moved(frame.block, frame.pc)),
         tokens' = tokens, idx' = After(idx), errors' = errors, Resume(g),
         ret' = Nothing
  PROVE  IInv'
<1>1. idx \in Nat /\ frame.start \in 1..idx
  BY Began
<1>2. Placed(frame, idx)
  BY AtStep DEF ActivationOK
<1>3. After(idx) \in idx..Len(tokens) /\ (Peek # Eof => After(idx) = idx + 1)
  BY CursorMoves DEF IInv
<1>4. Moved(g.block, g.pc) => frame.start < idx'
  <2>1. Len(tokens) \in Nat
    BY InputsAre DEF IInv, InsideInput
  <2>2. idx' \in Nat /\ idx <= idx' /\ (Peek # Eof => idx < idx')
    BY <1>1, <1>3, <2>1
  <2>3. frame.start \in Nat /\ frame.start <= idx
    BY <1>1
  <2>4. Moved(frame.block, frame.pc) => frame.start < idx
    BY <1>2 DEF Placed
  <2>5. QED
    BY <1>1, <2>2, <2>3, <2>4
<1>5. <<g.block, g.pc>> # <<"base", 1>> /\ Based(g, errors')
  BY UnspecialIs DEF Special
<1>6. QED
  BY <1>4, <1>5, ResumeAdvances

(* A report is at the cursor, so at or after every place before it.        *)
LEMMA Reported ==
  ASSUME IInv, Report, idx' = idx
  PROVE  /\ Grows
         /\ \A s \in 1..idx : ErrorSince(s, errors')
<1>1. idx \in Nat /\ 1 <= idx
  <2>1. Len(tokens) \in Nat
    BY InputsAre DEF IInv, InsideInput
  <2>2. QED
    BY <2>1 DEF IInv, InsideInput
<1>2. errors \subseteq 1..idx
  BY DEF IInv, InsideInput
<1>3. errors' = errors \cup {idx}
  BY DEF Report
<1>4. QED
  BY <1>1, <1>2, <1>3 DEF ErrorSince, Grows

(* Giving up.                                                              *)
LEMMA GivenUp ==
  ASSUME IInv, stack # <<>>, GiveNothing, tokens' = tokens, idx' = idx, Grows,
         ErrorSince(frame.start, errors') \/ (frame.block \in Optional /\ idx = frame.start)
  PROVE  IInv'
<1>1. frame.block \in Blocks /\ frame.start \in 1..idx
  BY Began
<1>2. /\ ret'.is = "nullopt" /\ ret'.block = frame.block /\ ret'.start = frame.start
      /\ stack' = Front(stack)
  BY DEF GiveNothing
<1>3. ReturnOK(ret', idx', errors')
  BY <1>1, <1>2 DEF ReturnOK
<1>4. QED
  BY <1>2, <1>3, Popped

(* Giving up with a report.                                                *)
LEMMA Failed ==
  ASSUME IInv, stack # <<>>, Report, GiveNothing, tokens' = tokens, idx' = idx
  PROVE  IInv'
<1>1. ErrorSince(frame.start, errors') /\ Grows
  BY Began, Reported
<1>2. QED
  BY <1>1, GivenUp

(* No identifier and no binary operator is the end of file.                *)
LEMMA NotEof == Eof \notin Idents /\ Eof \notin BinaryOps
<1>1. Eof \notin Idents
  BY IdentsAssumption
<1>2. Eof \notin BinaryOps
  BY DEF BinaryOps, Levels, Eof
<1>3. QED
  BY <1>1, <1>2

(* expect().                                                               *)
LEMMA ExpectKept ==
  ASSUME IInv, Expect
  PROVE  IInv'
<1>1. stack # <<>> /\ ret = Nothing /\ ret.is = "none" /\ step.do = "expect"
  BY IsNothing DEF Expect
<1>2. /\ Expecting(frame.block, frame.pc, step)
      /\ frame.pc + 1 \in DOMAIN Code[frame.block]
      /\ IsActivation(frame)
  BY <1>1, AtStep, StepIs, Began DEF Final
<1>3. CASE Peek = step.token
  <2> DEFINE g == Past(frame)
  <2>1. /\ idx' = After(idx) /\ tokens' = tokens /\ errors' = errors
        /\ Resume(g) /\ ret' = Nothing
    BY <1>1, <1>3 DEF Expect
  <2>2. /\ IsActivation(g) /\ g.block = frame.block /\ g.pc = frame.pc + 1
        /\ g.start = frame.start /\ g.from = frame.from
    BY <1>2, PastIs
  <2> HIDE DEF g
  <2>3. /\ IfAdvances(frame.block, g.block, g.pc) /\ <<g.block, g.pc>> \notin Special
        /\ Peek # Eof
    BY <1>1, <1>2, <1>3, <2>2 DEF Expecting
  <2>4. QED
    BY <1>1, <1>2, <2>1, <2>2, <2>3, Advanced
<1>4. CASE Peek # step.token
  BY <1>1, <1>4, Failed DEF Expect
<1>5. QED
  BY <1>3, <1>4

(* expect(Identifier).                                                     *)
LEMMA NameKept ==
  ASSUME IInv, Name
  PROVE  IInv'
<1>1. stack # <<>> /\ ret = Nothing /\ ret.is = "none" /\ step.do = "name"
  BY IsNothing DEF Name
<1>2. /\ Expecting(frame.block, frame.pc, step)
      /\ frame.pc + 1 \in DOMAIN Code[frame.block]
      /\ IsActivation(frame)
  BY <1>1, AtStep, StepIs, Began DEF Final
<1>3. CASE Peek \in Idents
  <2> DEFINE h == WithWord(frame, Peek)
             g == Past(h)
  <2>1. /\ idx' = After(idx) /\ tokens' = tokens /\ errors' = errors
        /\ Resume(g) /\ ret' = Nothing
    BY <1>1, <1>3 DEF Name
  <2>2. /\ IsActivation(g) /\ g.block = frame.block /\ g.pc = frame.pc + 1
        /\ g.start = frame.start /\ g.from = frame.from
    BY <1>2, WordTaken
  <2> HIDE DEF g
  <2>3. /\ IfAdvances(frame.block, g.block, g.pc) /\ <<g.block, g.pc>> \notin Special
        /\ Peek # Eof
    BY <1>2, <1>3, <2>2, NotEof DEF Expecting
  <2>4. QED
    BY <1>1, <1>2, <2>1, <2>2, <2>3, Advanced
<1>4. CASE Peek \notin Idents
  BY <1>1, <1>4, Failed DEF Name
<1>5. QED
  BY <1>3, <1>4

(* expect() whose result is not used.                                      *)
LEMMA DemandKept ==
  ASSUME IInv, Demand
  PROVE  IInv'
<1>1. stack # <<>> /\ ret = Nothing /\ ret.is = "none" /\ step.do = "demand"
  BY IsNothing DEF Demand
<1> DEFINE g == Past(frame)
<1>2. /\ Trying(frame.block, frame.pc)
      /\ frame.pc + 1 \in DOMAIN Code[frame.block]
      /\ IsActivation(frame)
  BY <1>1, AtStep, StepIs, Began DEF Final
<1>3. tokens' = tokens /\ Resume(g) /\ ret' = Nothing
  BY <1>1 DEF Demand
<1>4. /\ IsActivation(g) /\ g.block = frame.block /\ g.pc = frame.pc + 1
      /\ g.start = frame.start /\ g.from = frame.from
  BY <1>2, PastIs
<1> HIDE DEF g
<1>5. /\ IfStays(frame.block, frame.pc, g.block, g.pc) /\ Plain(g.block, g.pc)
      /\ IfAdvances(frame.block, g.block, g.pc)
  BY <1>2, <1>4 DEF Trying
<1>6. CASE Peek = step.token
  <2>1. idx' = After(idx) /\ errors' = errors
    BY <1>6 DEF Demand
  <2>2. /\ <<g.block, g.pc>> \notin Special
        /\ Moved(g.block, g.pc) => Moved(frame.block, frame.pc)
    BY <1>5 DEF Plain, IfStays
  <2>3. QED
    BY <1>1, <1>2, <1>3, <1>4, <1>5, <2>1, <2>2, Advanced
<1>7. CASE Peek # step.token
  <2>1. Report /\ idx' = idx
    BY <1>7 DEF Demand
  <2>2. Grows
    BY <2>1, Reported
  <2>3. Seen(g, tokens[idx]) /\ Based(g, errors')
    BY <1>5, PlainIs
  <2>4. QED
    BY <1>1, <1>2, <1>3, <1>4, <1>5, <2>1, <2>2, <2>3, ResumeStays
<1>8. QED
  BY <1>6, <1>7

(* match() of a token that may be absent.                                  *)
LEMMA OptionKept ==
  ASSUME IInv, Option
  PROVE  IInv'
<1>1. stack # <<>> /\ ret = Nothing /\ ret.is = "none" /\ step.do = "option"
  BY IsNothing DEF Option
<1>2. /\ Trying(frame.block, frame.pc)
      /\ frame.pc + 1 \in DOMAIN Code[frame.block]
      /\ IsActivation(frame)
  BY <1>1, AtStep, StepIs, Began DEF Final
<1>3. tokens' = tokens /\ errors' = errors /\ ret' = Nothing
  BY <1>1 DEF Option
<1>4. CASE Peek \in step.of
  <2> DEFINE g == Past(WithWord(frame, Peek))
  <2>1. idx' = After(idx) /\ Resume(g)
    BY <1>4 DEF Option
  <2>2. /\ IsActivation(g) /\ g.block = frame.block /\ g.pc = frame.pc + 1
        /\ g.start = frame.start /\ g.from = frame.from
    BY <1>2, WordTaken
  <2> HIDE DEF g
  <2>3. /\ IfAdvances(frame.block, g.block, g.pc) /\ <<g.block, g.pc>> \notin Special
        /\ Moved(g.block, g.pc) => Moved(frame.block, frame.pc)
    BY <1>2, <2>2 DEF Trying, Plain, IfStays
  <2>4. QED
    BY <1>1, <1>2, <1>3, <2>1, <2>2, <2>3, Advanced
<1>5. CASE Peek \notin step.of
  <2> DEFINE g == Past(frame)
  <2>1. idx' = idx /\ Resume(g)
    BY <1>5 DEF Option
  <2>2. /\ IsActivation(g) /\ g.block = frame.block /\ g.pc = frame.pc + 1
        /\ g.start = frame.start /\ g.from = frame.from
    BY <1>2, PastIs
  <2> HIDE DEF g
  <2>3. IfStays(frame.block, frame.pc, g.block, g.pc) /\ Plain(g.block, g.pc)
    BY <1>2, <2>2 DEF Trying
  <2>4. QED
    BY <1>1, <1>2, <1>3, <2>1, <2>2, <2>3, Stayed
<1>6. QED
  BY <1>4, <1>5

(* check(), match() and peek(1).                                           *)
LEMMA OnKept ==
  ASSUME IInv, On
  PROVE  IInv'
<1>1. stack # <<>> /\ ret = Nothing /\ ret.is = "none" /\ step.do = "on"
  BY IsNothing DEF On
<1>2. /\ Choosing(frame.block, frame.pc, step)
      /\ frame.pc + 1 \in DOMAIN Code[frame.block]
      /\ IsActivation(frame)
  BY <1>1, AtStep, StepIs, Began DEF Final
<1>3. /\ tokens' = tokens /\ idx' = idx /\ errors' = errors /\ ret' = Nothing
      /\ Resume(Chosen)
  BY <1>1 DEF On
<1>4. Peek = tokens[idx] /\ Grows
  BY <1>3, CursorMoves DEF IInv, InsideInput, Grows
<1>5. CASE \E c \in step.choices : Peek \in c[1]
  <2>1. PICK c \in step.choices : Peek \in c[1] /\ Chosen = To(frame, c[2])
    BY <1>5 DEF Chosen
  <2> DEFINE g == To(frame, c[2])
  <2>2. /\ IsActivation(g) /\ g.block = c[2] /\ g.pc = 1
        /\ g.start = frame.start /\ g.from = frame.from
    BY <1>2, ToIs
  <2>3. Resume(g)
    BY <1>3, <2>1
  <2> HIDE DEF g
  <2>4. /\ IfStays(frame.block, frame.pc, g.block, g.pc)
        /\ g.block \in Takers => Peek # Eof
        /\ g.block = "base" => Peek \in Types
        /\ <<g.block, g.pc>> \notin Guarded
    BY <1>2, <2>1, <2>2 DEF Choosing
  <2>5. Seen(g, tokens[idx])
    BY <1>4, <2>4 DEF Seen
  <2>6. Based(g, errors')
    BY <2>2 DEF Based
  <2>7. g.pc \in DOMAIN Code[g.block]
    BY <2>2, <2>4, Blocks1 DEF IfStays
  <2>8. QED
    BY <1>1, <1>3, <1>4, <2>2, <2>3, <2>4, <2>5, <2>6, <2>7, ResumeStays
<1>6. CASE ~ \E c \in step.choices : Peek \in c[1]
  <2> DEFINE g == Past(frame)
  <2>1. Resume(g)
    BY <1>3, <1>6 DEF Chosen
  <2>2. /\ IsActivation(g) /\ g.block = frame.block /\ g.pc = frame.pc + 1
        /\ g.start = frame.start /\ g.from = frame.from
    BY <1>2, PastIs
  <2> HIDE DEF g
  <2>3. /\ IfStays(frame.block, frame.pc, g.block, g.pc)
        /\ <<g.block, g.pc>> \notin Special
        /\ ~(g.block \in Takers /\ g.pc = 1)
    BY <1>2, <2>2 DEF Choosing
  <2>4. <<g.block, g.pc>> \in Guarded =>
          Peek # Eof /\ (g.block = "program" \/ Peek # CloseCurly)
    BY <1>2, <1>6, <2>2 DEF Choosing
  <2>5. Seen(g, tokens[idx]) /\ Based(g, errors')
    BY <1>4, <2>3, <2>4, UnspecialIs
  <2>6. QED
    BY <1>1, <1>2, <1>3, <1>4, <2>1, <2>2, <2>3, <2>5, ResumeStays
<1>7. QED
  BY <1>5, <1>6

(* match(), then a block of its own.                                       *)
LEMMA MatchKept ==
  ASSUME IInv, Match
  PROVE  IInv'
<1>1. stack # <<>> /\ ret = Nothing /\ ret.is = "none" /\ step.do = "match"
  BY IsNothing DEF Match
<1>2. /\ Matching(frame.block, frame.pc, step)
      /\ frame.pc + 1 \in DOMAIN Code[frame.block]
      /\ IsActivation(frame)
  BY <1>1, AtStep, StepIs, Began DEF Final
<1>3. tokens' = tokens /\ errors' = errors /\ ret' = Nothing /\ Resume(Chosen)
  BY <1>1 DEF Match
<1>4. CASE \E c \in step.choices : Peek \in c[1]
  <2>1. PICK c \in step.choices : Peek \in c[1] /\ Chosen = To(frame, c[2])
    BY <1>4 DEF Chosen
  <2> DEFINE g == To(frame, c[2])
  <2>2. /\ IsActivation(g) /\ g.block = c[2] /\ g.pc = 1
        /\ g.start = frame.start /\ g.from = frame.from
    BY <1>2, ToIs
  <2>3. Resume(g) /\ idx' = After(idx)
    BY <1>3, <1>4, <2>1 DEF Match
  <2> HIDE DEF g
  <2>4. /\ IfAdvances(frame.block, g.block, g.pc)
        /\ <<g.block, g.pc>> \notin Special /\ Peek # Eof
    BY <1>2, <2>1, <2>2 DEF Matching
  <2>5. g.pc \in DOMAIN Code[g.block]
    BY <2>2, <2>4, Blocks1 DEF IfAdvances
  <2>6. QED
    BY <1>1, <1>3, <2>2, <2>3, <2>4, <2>5, Advanced
<1>5. CASE ~ \E c \in step.choices : Peek \in c[1]
  <2> DEFINE g == Past(frame)
  <2>1. Resume(g) /\ idx' = idx
    BY <1>3, <1>5 DEF Chosen, Match
  <2>2. /\ IsActivation(g) /\ g.block = frame.block /\ g.pc = frame.pc + 1
        /\ g.start = frame.start /\ g.from = frame.from
    BY <1>2, PastIs
  <2> HIDE DEF g
  <2>3. IfStays(frame.block, frame.pc, g.block, g.pc) /\ Plain(g.block, g.pc)
    BY <1>2, <2>2 DEF Matching
  <2>4. QED
    BY <1>1, <1>2, <1>3, <2>1, <2>2, <2>3, Stayed
<1>6. QED
  BY <1>4, <1>5

(* check() and peek(1).                                                    *)
LEMMA AheadKept ==
  ASSUME IInv, Ahead
  PROVE  IInv'
<1>1. stack # <<>> /\ ret = Nothing /\ ret.is = "none" /\ step.do = "ahead"
  BY IsNothing DEF Ahead
<1>2. /\ Looking(frame.block, frame.pc, step)
      /\ frame.pc + 1 \in DOMAIN Code[frame.block]
      /\ IsActivation(frame) /\ Seen(frame, tokens[idx])
  BY <1>1, AtStep, StepIs, Began DEF Final, ActivationOK
<1>3. tokens' = tokens /\ idx' = idx /\ errors' = errors /\ ret' = Nothing
  BY <1>1 DEF Ahead
<1>4. Peek = tokens[idx] /\ Grows
  BY <1>3, CursorMoves DEF IInv, InsideInput, Grows
<1>5. CASE Peek \in step.of /\ PeekAt(idx + 1) \in step.next
  <2> DEFINE g == To(frame, step.block)
  <2>1. Resume(g)
    BY <1>5 DEF Ahead
  <2>2. /\ IsActivation(g) /\ g.block = step.block /\ g.pc = 1
        /\ g.start = frame.start /\ g.from = frame.from
    BY <1>2, ToIs
  <2> HIDE DEF g
  <2>3. /\ IfStays(frame.block, frame.pc, g.block, g.pc)
        /\ g.block \in Takers => Peek # Eof
        /\ <<g.block, g.pc>> \notin Guarded
        /\ <<g.block, g.pc>> \notin Special
    BY <1>2, <1>5, <2>2 DEF Looking
  <2>4. Seen(g, tokens[idx]) /\ Based(g, errors')
    BY <1>4, <2>3, UnspecialIs
  <2>5. g.pc \in DOMAIN Code[g.block]
    BY <2>2, <2>3, Blocks1 DEF IfStays
  <2>6. QED
    BY <1>1, <1>3, <1>4, <2>1, <2>2, <2>3, <2>4, <2>5, ResumeStays
<1>6. CASE ~ (Peek \in step.of /\ PeekAt(idx + 1) \in step.next)
  <2> DEFINE g == Past(frame)
  <2>1. Resume(g)
    BY <1>6 DEF Ahead
  <2>2. /\ IsActivation(g) /\ g.block = frame.block /\ g.pc = frame.pc + 1
        /\ g.start = frame.start /\ g.from = frame.from
    BY <1>2, PastIs
  <2> HIDE DEF g
  <2>3. /\ IfStays(frame.block, frame.pc, g.block, g.pc)
        /\ <<g.block, g.pc>> \in Guarded => <<frame.block, frame.pc>> \in Guarded
        /\ <<g.block, g.pc>> \notin Special
    BY <1>2, <2>2 DEF Looking
  <2>4. g.pc # 1
    BY <2>2, AtPositive, <1>1
  <2>5. Seen(g, tokens[idx]) /\ Based(g, errors')
    BY <1>2, <2>2, <2>3, <2>4, UnspecialIs DEF Seen
  <2>6. QED
    BY <1>1, <1>2, <1>3, <1>4, <2>1, <2>2, <2>3, <2>5, ResumeStays
<1>7. QED
  BY <1>5, <1>6

(* Going to another block.                                                 *)
LEMMA GoKept ==
  ASSUME IInv, Go
  PROVE  IInv'
<1>1. stack # <<>> /\ ret = Nothing /\ ret.is = "none" /\ step.do = "go"
  BY IsNothing DEF Go
<1>2. Going(frame.block, frame.pc, step) /\ IsActivation(frame)
  BY <1>1, AtStep, StepIs, Began
<1> DEFINE g == To(frame, step.block)
<1>3. /\ tokens' = tokens /\ idx' = idx /\ errors' = errors /\ ret' = Nothing
      /\ Resume(g)
  BY <1>1 DEF Go
<1>4. /\ IsActivation(g) /\ g.block = step.block /\ g.pc = 1
      /\ g.start = frame.start /\ g.from = frame.from
  BY <1>2, ToIs
<1> HIDE DEF g
<1>5. IfStays(frame.block, frame.pc, g.block, g.pc) /\ Plain(g.block, g.pc)
  BY <1>2, <1>4 DEF Going
<1>6. g.pc \in DOMAIN Code[g.block]
  BY <1>4, <1>5, Blocks1 DEF IfStays
<1>7. QED
  BY <1>1, <1>3, <1>4, <1>5, <1>6, Stayed

(* Calling a parse function.                                               *)
LEMMA EnterKept ==
  ASSUME IInv, Enter
  PROVE  IInv'
<1>1. stack # <<>> /\ ret = Nothing /\ ret.is = "none" /\ step.do \in CallKinds
  BY IsNothing DEF Enter, CallKinds
<1> DEFINE f == [frame EXCEPT !.from = idx]
           g == Activation(step.block, MinPrec)
<1>2. /\ Calling(frame.block, frame.pc, step) /\ IsActivation(frame)
      /\ ActivationOK(frame, idx, tokens, errors) /\ step = StepOf(frame)
  BY <1>1, AtStep, StepIs, Began, Top
<1>3. /\ frame.start \in 1..idx /\ idx \in Nat /\ frame = stack[Len(stack)]
  BY <1>1, Began, Top
<1>4. /\ tokens' = tokens /\ idx' = idx /\ errors' = errors /\ ret' = ret
      /\ stack' = Append([stack EXCEPT ![Len(stack)] = f], g)
  BY <1>3 DEF Enter
<1>5. /\ IsActivation(f) /\ f.block = frame.block /\ f.pc = frame.pc
      /\ f.start = frame.start /\ f.from = idx
      /\ f.words = frame.words /\ f.kids = frame.kids
  BY <1>2 DEF IsActivation, Fields
<1>6. /\ IsActivation(g) /\ g.block = step.block /\ g.pc = 1
      /\ g.start = idx /\ g.from = idx
  <2>1. <<>> \in Seq(Token) /\ <<>> \in Seq({})
    OBVIOUS
  <2>2. QED
    BY <2>1 DEF Activation, IsActivation, Fields
<1> HIDE DEF f, g
<1>7. ActivationOK(f, f.from, tokens, errors)
  <2>1. InTable(f) /\ Seen(f, tokens[idx]) /\ Based(f, errors)
    <3>1. InTable(frame) /\ Seen(frame, tokens[idx]) /\ Based(frame, errors)
      BY <1>2 DEF ActivationOK
    <3>2. HasBase(frame) <=> HasBase(f)
      BY <1>5 DEF HasBase
    <3>3. QED
      BY <1>5, <3>1, <3>2 DEF InTable, Seen, Based
  <2>2. Placed(f, idx)
    BY <1>2, <1>3, <1>5 DEF ActivationOK, Placed
  <2>3. QED
    BY <1>5, <2>1, <2>2 DEF ActivationOK
<1>8. ActivationOK(g, idx, tokens, errors)
  <2>1. g.block \in Blocks /\ Plain(g.block, g.pc) /\ ~Moved(g.block, g.pc)
    BY <1>2, <1>6 DEF Calling
  <2>2. Seen(g, tokens[idx]) /\ Based(g, errors)
    BY <2>1, PlainIs
  <2>3. Placed(g, idx)
    BY <1>3, <1>6, <2>1 DEF Placed
  <2>4. InTable(g)
    BY <1>6, <2>1, Blocks1 DEF InTable
  <2>5. QED
    BY <1>6, <2>2, <2>3, <2>4 DEF ActivationOK
<1>9. Follows(f, g)
  <2>1. StepOf(f) = step
    BY <1>2, <1>5 DEF StepOf
  <2>2. step.block \in Blocks
    BY <1>2 DEF Calling
  <2>3. QED
    BY <1>1, <1>5, <1>6, <2>1, <2>2 DEF Follows, Region
<1>10. f.from <= idx
  BY <1>3, <1>5
<1>11. QED
  BY <1>1, <1>4, <1>5, <1>7, <1>8, <1>9, <1>10, Pushed

(* Reporting, and giving up.                                               *)
LEMMA ReportOnlyKept ==
  ASSUME IInv, ReportOnly
  PROVE  IInv'
<1>1. stack # <<>> /\ ret = Nothing /\ ret.is = "none" /\ step.do = "report"
  BY IsNothing DEF ReportOnly
<1> DEFINE g == Past(frame)
<1>2. /\ Reporting(frame.block, frame.pc)
      /\ frame.pc + 1 \in DOMAIN Code[frame.block]
      /\ IsActivation(frame) /\ frame.start \in 1..idx
  BY <1>1, AtStep, StepIs, Began DEF Final
<1>3. /\ tokens' = tokens /\ idx' = idx /\ ret' = Nothing /\ Resume(g) /\ Report
  BY <1>1 DEF ReportOnly
<1>4. Grows /\ ErrorSince(g.start, errors')
  BY <1>2, <1>3, PastIs, Reported
<1>5. /\ IsActivation(g) /\ g.block = frame.block /\ g.pc = frame.pc + 1
      /\ g.start = frame.start /\ g.from = frame.from
  BY <1>2, PastIs
<1> HIDE DEF g
<1>6. /\ IfStays(frame.block, frame.pc, g.block, g.pc)
      /\ <<g.block, g.pc>> \notin Guarded
      /\ <<g.block, g.pc>> \in Special => g.block = "access" /\ g.pc = 7
  BY <1>2, <1>5 DEF Reporting
<1>7. g.pc # 1
  BY <1>1, <1>5, AtPositive
<1>8. Seen(g, tokens[idx])
  BY <1>6, <1>7 DEF Seen
<1>9. Based(g, errors')
  <2>1. CASE <<g.block, g.pc>> \in Special
    BY <1>4, <1>6, <2>1 DEF Based
  <2>2. CASE <<g.block, g.pc>> \notin Special
    BY <2>2, UnspecialIs
  <2>3. QED
    BY <2>1, <2>2
<1>10. QED
  BY <1>1, <1>2, <1>3, <1>4, <1>5, <1>6, <1>8, <1>9, ResumeStays

(* A report, and nullopt.                                                  *)
LEMMA FailKept ==
  ASSUME IInv, Fail
  PROVE  IInv'
BY IsNothing, Failed DEF Fail

(* nullopt without a report.                                               *)
LEMMA NoMatchKept ==
  ASSUME IInv, NoMatch
  PROVE  IInv'
<1>1. stack # <<>> /\ ret = Nothing /\ ret.is = "none" /\ step.do = "nothing"
  BY IsNothing DEF NoMatch
<1>2. frame.block \in Optional /\ ~Moved(frame.block, frame.pc) /\ Placed(frame, idx)
  BY <1>1, AtStep, StepIs DEF ActivationOK
<1>3. tokens' = tokens /\ idx' = idx /\ errors' = errors /\ GiveNothing
  BY DEF NoMatch
<1>4. Grows /\ idx = frame.start
  BY <1>2, <1>3 DEF Grows, IInv, InsideInput, Placed
<1>5. QED
  BY <1>1, <1>2, <1>3, <1>4, GivenUp

(* parseDeclOrFunc() looks for a type.                                     *)
LEMMA TypedKept ==
  ASSUME IInv, Typed
  PROVE  IInv'
<1>1. stack # <<>> /\ ret = Nothing /\ ret.is = "none" /\ step.do = "typed"
  BY IsNothing DEF Typed
<1>2. /\ frame.block = "declOrFunc" /\ frame.pc = 2
      /\ Staying(frame.block, frame.pc)
      /\ frame.pc + 1 \in DOMAIN Code[frame.block]
      /\ IsActivation(frame) /\ Based(frame, errors)
  <2>1. <<frame.block, frame.pc>> = <<"declOrFunc", 2>>
    BY <1>1, AtStep, StepIs
  <2>2. QED
    BY <1>1, <2>1, AtStep, StepIs, Began DEF Final, ActivationOK
<1>3. tokens' = tokens /\ idx' = idx /\ errors' = errors
  BY DEF Typed
<1>4. Grows
  BY <1>3 DEF Grows, IInv, InsideInput
<1>5. CASE HasBase(Last(frame.kids))
  <2> DEFINE g == Past(frame)
  <2>1. Resume(g) /\ ret' = Nothing
    BY <1>1, <1>5 DEF Typed
  <2>2. /\ IsActivation(g) /\ g.block = frame.block /\ g.pc = frame.pc + 1
        /\ g.start = frame.start /\ g.from = frame.from
    BY <1>2, PastIs
  <2> HIDE DEF g
  <2>3. IfStays(frame.block, frame.pc, g.block, g.pc) /\ Plain(g.block, g.pc)
    BY <1>2, <2>2 DEF Staying
  <2>4. QED
    BY <1>1, <1>2, <1>3, <2>1, <2>2, <2>3, Stayed
<1>6. CASE ~HasBase(Last(frame.kids))
  <2>1. ErrorSince(frame.start, errors')
    BY <1>2, <1>3, <1>6 DEF Based
  <2>2. GiveNothing
    BY <1>6 DEF Typed
  <2>3. QED
    BY <1>1, <1>3, <1>4, <2>1, <2>2, GivenUp
<1>7. QED
  BY <1>5, <1>6

(* The loop of parseExpr().                                                *)
LEMMA ClimbKept ==
  ASSUME IInv, Climb
  PROVE  IInv'
<1>1. stack # <<>> /\ ret = Nothing /\ ret.is = "none" /\ step.do = "climb"
  BY IsNothing DEF Climb
<1>2. /\ Climbing(frame.block, frame.pc, step)
      /\ frame.pc + 1 \in DOMAIN Code[frame.block]
      /\ IsActivation(frame)
  BY <1>1, AtStep, StepIs, Began DEF Final
<1>3. tokens' = tokens /\ errors' = errors /\ ret' = Nothing
  BY <1>1 DEF Climb
<1>4. CASE Peek \in BinaryOps /\ Precedence[Peek] >= frame.min
  <2> DEFINE h == WithWord(frame, Peek)
             g == To(h, step.block)
  <2>1. idx' = After(idx) /\ Resume(g)
    BY <1>4 DEF Climb
  <2>2. /\ IsActivation(h) /\ h.start = frame.start /\ h.from = frame.from
    BY <1>2, CursorMoves, WithWordIs DEF IInv
  <2> HIDE DEF h
  <2>3. /\ IsActivation(g) /\ g.block = step.block /\ g.pc = 1
        /\ g.start = frame.start /\ g.from = frame.from
    BY <2>2, ToIs
  <2> HIDE DEF g
  <2>4. /\ IfAdvances(frame.block, g.block, g.pc)
        /\ <<g.block, g.pc>> \notin Special /\ Peek # Eof
    BY <1>2, <1>4, <2>3, NotEof DEF Climbing
  <2>5. g.pc \in DOMAIN Code[g.block]
    BY <2>3, <2>4, Blocks1 DEF IfAdvances
  <2>6. QED
    BY <1>1, <1>3, <2>1, <2>3, <2>4, <2>5, Advanced
<1>5. CASE ~ (Peek \in BinaryOps /\ Precedence[Peek] >= frame.min)
  <2> DEFINE g == Past(frame)
  <2>1. idx' = idx /\ Resume(g)
    BY <1>5 DEF Climb
  <2>2. /\ IsActivation(g) /\ g.block = frame.block /\ g.pc = frame.pc + 1
        /\ g.start = frame.start /\ g.from = frame.from
    BY <1>2, PastIs
  <2> HIDE DEF g
  <2>3. IfStays(frame.block, frame.pc, g.block, g.pc) /\ Plain(g.block, g.pc)
    BY <1>2, <2>2 DEF Climbing, Staying
  <2>4. QED
    BY <1>1, <1>2, <1>3, <2>1, <2>2, <2>3, Stayed
<1>6. QED
  BY <1>4, <1>5

(* The operands become the left operand of the next operator.              *)
LEMMA CombineKept ==
  ASSUME IInv, Combine
  PROVE  IInv'
<1>1. stack # <<>> /\ ret = Nothing /\ ret.is = "none" /\ step.do = "combine"
  BY IsNothing DEF Combine
<1>2. /\ Staying(frame.block, frame.pc)
      /\ frame.pc + 1 \in DOMAIN Code[frame.block]
      /\ IsActivation(frame)
  BY <1>1, AtStep, StepIs, Began DEF Final
<1> DEFINE kid == Tree("binary", <<Operator(Last(frame.words))>>, frame.kids)
           h == [frame EXCEPT !.words = <<>>, !.kids = <<kid>>]
           g == Past(h)
<1>3. /\ tokens' = tokens /\ idx' = idx /\ errors' = errors /\ ret' = Nothing
      /\ Resume(g)
  BY <1>1 DEF Combine
<1> HIDE DEF kid
<1>4. /\ IsActivation(h) /\ h.block = frame.block /\ h.pc = frame.pc
      /\ h.start = frame.start /\ h.from = frame.from
  <2>1. <<>> \in Seq(Token) /\ <<kid>> \in Seq({kid})
    OBVIOUS
  <2>2. QED
    BY <1>2, <2>1 DEF IsActivation, Fields
<1> HIDE DEF h
<1>5. /\ IsActivation(g) /\ g.block = frame.block /\ g.pc = frame.pc + 1
      /\ g.start = frame.start /\ g.from = frame.from
  BY <1>4, PastIs
<1> HIDE DEF g
<1>6. IfStays(frame.block, frame.pc, g.block, g.pc) /\ Plain(g.block, g.pc)
  BY <1>2, <1>5 DEF Staying
<1>7. QED
  BY <1>1, <1>2, <1>3, <1>5, <1>6, Stayed

(* Returning a node.                                                       *)
LEMMA Given ==
  ASSUME IInv, stack # <<>>, NEW tree, Give(tree),
         tokens' = tokens, idx' = idx, errors' = errors,
         frame.block \in Consuming => frame.start < idx,
         frame.block \in Mods => HasBase(tree) \/ ErrorSince(frame.start, errors)
  PROVE  IInv'
<1>1. frame.block \in Blocks /\ frame.start \in 1..idx
  BY Began
<1>2. /\ ret'.is = "value" /\ ret'.block = frame.block /\ ret'.start = frame.start
      /\ ret'.tree = tree /\ stack' = Front(stack)
  BY DEF Give
<1>3. ReturnOK(ret', idx', errors')
  BY <1>1, <1>2 DEF ReturnOK
<1>4. Grows
  BY DEF Grows, IInv, InsideInput
<1>5. QED
  BY <1>2, <1>3, <1>4, Popped

(* Returning the node a function has built.                                *)
LEMMA NodeKept ==
  ASSUME IInv, Node
  PROVE  IInv'
<1>1. stack # <<>> /\ ret = Nothing /\ ret.is = "none" /\ step.do = "node"
  BY IsNothing DEF Node
<1>2. /\ Returning(frame.block, frame.pc, step)
      /\ Placed(frame, idx) /\ Based(frame, errors)
  BY <1>1, AtStep, StepIs DEF ActivationOK
<1> DEFINE tree == Tree(step.node, frame.words, frame.kids)
<1>3. Give(tree) /\ tokens' = tokens /\ idx' = idx /\ errors' = errors
  BY DEF Node
<1>4. frame.block \in Consuming => frame.start < idx
  BY <1>2 DEF Returning, Placed
<1>5. HasBase(frame) => HasBase(tree)
  BY DEF HasBase, Tree
<1>6. frame.block \in Mods => HasBase(tree) \/ ErrorSince(frame.start, errors)
  BY <1>2, <1>5 DEF Returning, Based
<1> HIDE DEF tree
<1>7. QED
  BY <1>1, <1>3, <1>4, <1>6, Given

(* Returning the node of a callee.                                         *)
LEMMA SameKept ==
  ASSUME IInv, Same
  PROVE  IInv'
<1>1. stack # <<>> /\ ret = Nothing /\ ret.is = "none" /\ step.do = "same"
  BY IsNothing DEF Same
<1>2. Returning(frame.block, frame.pc, step) /\ Placed(frame, idx)
  BY <1>1, AtStep, StepIs DEF ActivationOK
<1>3. /\ Give(Last(frame.kids)) /\ tokens' = tokens /\ idx' = idx
      /\ errors' = errors
  BY DEF Same
<1>4. frame.block \in Consuming => frame.start < idx
  BY <1>2 DEF Returning, Placed
<1>5. frame.block \notin Mods
  BY <1>1, <1>2 DEF Returning
<1>6. QED
  BY <1>1, <1>3, <1>4, <1>5, Given

-----------------------------------------------------------------------------
(* What the caller does with what was returned.                            *)
LEMMA AtReturn ==
  ASSUME IInv, stack # <<>>, ret.is # "none"
  PROVE  /\ ActivationOK(frame, frame.from, tokens, errors)
         /\ ReturnOK(ret, idx, errors) /\ ret.start = frame.from
         /\ step.do \in CallKinds /\ Calling(frame.block, frame.pc, step)
         /\ Region(step.block, ret.block)
         /\ frame.pc + 1 \in DOMAIN Code[frame.block]
<1>1. /\ ActivationOK(frame, Place(Len(stack)), tokens, errors)
      /\ frame = stack[Len(stack)] /\ step = StepOf(frame)
      /\ StepOK(frame.block, frame.pc, step)
      /\ step.do \in Final \/ frame.pc + 1 \in DOMAIN Code[frame.block]
  BY Top
<1>2. Place(Len(stack)) = frame.from
  BY <1>1 DEF Place
<1>3. ReturnOK(ret, idx, errors) /\ Follows(frame, ret)
  BY <1>1 DEF IInv, ReturnIsOK
<1>4. step.do \in CallKinds /\ Region(step.block, ret.block) /\ ret.start = frame.from
  BY <1>1, <1>3 DEF Follows
<1>5. Calling(frame.block, frame.pc, step) /\ step.do \notin Final
  BY <1>1, <1>4, StepIs DEF CallKinds, Final
<1>6. QED
  BY <1>1, <1>2, <1>3, <1>4, <1>5

(* Going on after a call.                                                  *)
LEMMA ResumeReturned ==
  ASSUME IInv, stack # <<>>, ret.is # "none", NEW g,
         IsActivation(g), g.block = frame.block, g.pc = frame.pc + 1,
         g.start = frame.start, g.from = frame.from,
         idx' \in idx..Len(tokens),
         Moved(frame.block, frame.pc + 1) => frame.start < idx',
         Based(g, errors'),
         tokens' = tokens, errors' = errors, Resume(g), ret' = Nothing
  PROVE  IInv'
<1>1. Calling(frame.block, frame.pc, step) /\ frame.pc + 1 \in DOMAIN Code[frame.block]
  BY AtReturn
<1>2. /\ frame.start \in 1..idx /\ frame.from \in 1..idx /\ frame.start <= frame.from
      /\ idx \in Nat /\ frame.block \in Blocks /\ frame.pc + 1 # 1
  BY Began, AtPositive
<1>3. idx' \in Nat /\ idx <= idx' /\ idx' \in 1..Len(tokens)
  <2>1. Len(tokens) \in Nat /\ idx \in 1..Len(tokens)
    BY InputsAre DEF IInv, InsideInput
  <2>2. QED
    BY <2>1
<1>4. Placed(g, idx')
  <2>1. g.start \in Nat \ {0} /\ g.from \in Nat /\ g.from <= idx'
    BY <1>2, <1>3
  <2>2. g.block \in Optional => Moved(g.block, g.pc)
    BY <1>1 DEF Calling
  <2>3. QED
    BY <1>2, <1>3, <2>1, <2>2 DEF Placed
<1>5. Seen(g, tokens[idx'])
  BY <1>1, <1>2 DEF Calling, Seen
<1>6. ActivationOK(g, idx', tokens, errors')
  BY <1>1, <1>2, <1>4, <1>5 DEF ActivationOK, InTable
<1>7. Grows
  BY <1>3 DEF Grows, IInv, InsideInput
<1>8. Region(frame.block, g.block)
  BY DEF Region
<1>9. QED
  BY <1>3, <1>6, <1>7, <1>8, Resumed DEF Resume

(* The caller goes on with the subtree.                                    *)
LEMMA TakeValueKept ==
  ASSUME IInv, TakeValue
  PROVE  IInv'
<1>1. stack # <<>> /\ ret.is = "value" /\ ret.is # "none"
  BY DEF TakeValue, Returned
<1> DEFINE h == WithKid(frame, ret.tree)
           g == Past(h)
<1>2. /\ Calling(frame.block, frame.pc, step) /\ Region(step.block, ret.block)
      /\ ReturnOK(ret, idx, errors) /\ ret.start = frame.from
      /\ Placed(frame, frame.from)
  BY <1>1, AtReturn DEF ActivationOK
<1>3. /\ tokens' = tokens /\ idx' = idx /\ errors' = errors /\ ret' = Nothing
      /\ Resume(g)
  BY <1>1 DEF TakeValue
<1>4. /\ frame.start \in 1..idx /\ frame.from \in 1..idx /\ frame.start <= frame.from
      /\ idx \in Nat /\ IsActivation(frame)
  BY <1>1, Began
<1>5. /\ IsActivation(h) /\ h.block = frame.block /\ h.pc = frame.pc
      /\ h.start = frame.start /\ h.from = frame.from
      /\ Last(h.kids) = ret.tree
  BY <1>4, WithKidIs
<1> HIDE DEF h
<1>6. /\ IsActivation(g) /\ g.block = frame.block /\ g.pc = frame.pc + 1
      /\ g.start = frame.start /\ g.from = frame.from
      /\ Last(g.kids) = ret.tree
  BY <1>5, PastIs
<1> HIDE DEF g
<1>7. Moved(frame.block, frame.pc + 1) => frame.start < idx'
  <2>1. CASE Moved(frame.block, frame.pc)
    BY <1>2, <1>3, <1>4, <2>1 DEF Placed
  <2>2. CASE step.block \in Consuming
    <3>1. ret.start < idx
      BY <1>1, <1>2, <2>2 DEF Region, ReturnOK
    <3>2. QED
      BY <1>2, <1>3, <1>4, <3>1
  <2>3. QED
    BY <1>2, <2>1, <2>2 DEF Calling
<1>8. Based(g, errors')
  <2>1. CASE <<g.block, g.pc>> \notin Special
    BY <2>1, UnspecialIs
  <2>2. CASE <<g.block, g.pc>> \in Special
    <3>1. /\ g.block = "declOrFunc" /\ g.pc = 2 /\ step.block \in Mods
      BY <1>2, <1>6, <2>2 DEF Calling
    <3>2. ret.block \in Mods
      BY <1>2, <3>1 DEF Region
    <3>3. HasBase(ret.tree) \/ ErrorSince(ret.start, errors)
      BY <1>1, <1>2, <3>2 DEF ReturnOK
    <3>4. ErrorSince(ret.start, errors) => ErrorSince(g.start, errors')
      <4>1. SUFFICES ASSUME NEW e \in errors, e >= ret.start
                     PROVE  e >= g.start
        BY <1>3 DEF ErrorSince
      <4>2. e \in Nat
        BY <1>4 DEF IInv, InsideInput
      <4>3. QED
        BY <1>2, <1>4, <1>6, <4>1, <4>2
    <3>5. QED
      BY <1>6, <3>1, <3>3, <3>4 DEF Based
  <2>3. QED
    BY <2>1, <2>2
<1>9. idx' \in idx..Len(tokens)
  <2>1. Len(tokens) \in Nat /\ idx \in 1..Len(tokens)
    BY InputsAre DEF IInv, InsideInput
  <2>2. QED
    BY <1>3, <2>1
<1>10. QED
  BY <1>1, <1>3, <1>6, <1>7, <1>8, <1>9, ResumeReturned

(* The callee gave nothing: neither does the caller.                       *)
LEMMA GiveUpKept ==
  ASSUME IInv, GiveUp
  PROVE  IInv'
<1>1. /\ stack # <<>> /\ ret.is = "nullopt" /\ ret.is # "none"
      /\ step.do \in {"call", "need"}
      /\ GiveNothing /\ tokens' = tokens /\ idx' = idx
  BY DEF GiveUp, Returned
<1>2. CASE step.do = "need"
  BY <1>1, <1>2, Failed DEF GiveUp
<1>3. CASE step.do # "need"
  <2>1. errors' = errors /\ step.do = "call"
    BY <1>1, <1>3 DEF GiveUp
  <2>2. Grows
    BY <1>1, <2>1 DEF Grows, IInv, InsideInput
  <2>3. /\ Calling(frame.block, frame.pc, step) /\ Region(step.block, ret.block)
        /\ ReturnOK(ret, idx, errors) /\ ret.start = frame.from
        /\ Placed(frame, frame.from)
    BY <1>1, AtReturn DEF ActivationOK
  <2>4. CASE ErrorSince(ret.start, errors)
    <3>1. PICK e \in errors : e >= ret.start
      BY <2>4 DEF ErrorSince
    <3>2. /\ e \in Nat /\ frame.start \in Nat /\ frame.from \in Nat
          /\ frame.start <= frame.from
      BY <1>1, <2>3, Began DEF IInv, InsideInput, Placed
    <3>3. ErrorSince(frame.start, errors')
      BY <2>1, <2>3, <3>1, <3>2 DEF ErrorSince
    <3>4. QED
      BY <1>1, <2>2, <3>3, GivenUp
  <2>5. CASE ret.block \in Optional /\ idx = ret.start
    <3>1. frame.block \in Optional /\ ~Moved(frame.block, frame.pc)
      BY <2>1, <2>3, <2>5 DEF Region, Calling
    <3>2. frame.from = frame.start
      BY <2>3, <3>1 DEF Placed
    <3>3. QED
      BY <1>1, <2>2, <2>3, <2>5, <3>1, <3>2, GivenUp
  <2>6. QED
    BY <1>1, <2>3, <2>4, <2>5 DEF ReturnOK
<1>4. QED
  BY <1>2, <1>3

(* The callee gave nothing, and the caller goes on.                        *)
LEMMA GoOnKept ==
  ASSUME IInv, GoOn
  PROVE  IInv'
<1>1. stack # <<>> /\ ret.is # "none" /\ step.do = "try"
  BY DEF GoOn, Returned
<1> DEFINE g == Past(frame)
<1>2. Calling(frame.block, frame.pc, step) /\ Placed(frame, frame.from)
  BY <1>1, AtReturn DEF ActivationOK
<1>3. /\ tokens' = tokens /\ idx' = idx /\ errors' = errors /\ ret' = Nothing
      /\ Resume(g)
  BY <1>1 DEF GoOn
<1>4. /\ frame.start \in 1..idx /\ frame.from \in 1..idx /\ frame.start <= frame.from
      /\ idx \in Nat /\ IsActivation(frame)
  BY <1>1, Began
<1>5. /\ IsActivation(g) /\ g.block = frame.block /\ g.pc = frame.pc + 1
      /\ g.start = frame.start /\ g.from = frame.from
  BY <1>4, PastIs
<1> HIDE DEF g
<1>6. Moved(frame.block, frame.pc + 1) => frame.start < idx'
  BY <1>1, <1>2, <1>3, <1>4 DEF Calling, Placed
<1>7. Based(g, errors')
  BY <1>1, <1>2, <1>5, UnspecialIs DEF Calling
<1>8. idx' \in idx..Len(tokens)
  <2>1. Len(tokens) \in Nat /\ idx \in 1..Len(tokens)
    BY InputsAre DEF IInv, InsideInput
  <2>2. QED
    BY <1>3, <2>1
<1>9. QED
  BY <1>1, <1>3, <1>5, <1>6, <1>7, <1>8, ResumeReturned

(* synchronize() and the check of parseProgram() together lead past the    *)
(* token the iteration began at, for the loop has looked at that token.    *)
LEMMA RecoveredIs ==
  ASSUME IInv, stack # <<>>, ret.is # "none", step.do = "each"
  PROVE  Recovered \in idx..Len(tokens) /\ frame.from < Recovered
<1>1. /\ <<frame.block, frame.pc>> \in Guarded /\ Seen(frame, tokens[frame.from])
  BY AtReturn DEF ActivationOK, Calling
<1>2. /\ tokens[frame.from] # Eof
      /\ frame.block = "program" \/ tokens[frame.from] # CloseCurly
  BY <1>1 DEF Seen
<1>3. frame.from \in 1..idx /\ idx \in Nat /\ idx \in 1..Len(tokens)
  BY Began DEF IInv, InsideInput
<1>4. Len(tokens) \in Nat /\ (tokens[frame.from] # Eof => frame.from # Len(tokens))
  BY <1>3, InputsAre DEF IInv, InsideInput
<1>5. /\ SyncFrom(idx) \in idx..Len(tokens)
      /\ SyncFrom(idx) = idx => tokens[idx] \in {CloseCurly, Eof}
  BY SyncMoves DEF IInv
<1>6. CASE SyncFrom(idx) # frame.from
  <2>1. Recovered = SyncFrom(idx)
    BY <1>6 DEF Recovered
  <2>2. QED
    BY <1>3, <1>4, <1>5, <1>6, <2>1
<1>7. CASE SyncFrom(idx) = frame.from
  <2>1. idx = frame.from
    BY <1>3, <1>4, <1>5, <1>7
  <2>2. frame.block = "program"
    BY <1>2, <1>5, <1>7, <2>1
  <2>3. Recovered = After(frame.from)
    BY <1>7, <2>2 DEF Recovered
  <2>4. After(frame.from) = frame.from + 1 /\ frame.from + 1 <= Len(tokens)
    BY <1>2, <1>3, <1>4 DEF After
  <2>5. QED
    BY <1>3, <1>4, <2>1, <2>3, <2>4
<1>8. QED
  BY <1>6, <1>7

(* synchronize().                                                          *)
LEMMA RecoverKept ==
  ASSUME IInv, Recover
  PROVE  IInv'
<1>1. stack # <<>> /\ ret.is # "none" /\ step.do = "each"
  BY DEF Recover, Returned
<1> DEFINE g == Past(frame)
<1>2. Calling(frame.block, frame.pc, step)
  BY <1>1, AtReturn
<1>3. /\ tokens' = tokens /\ idx' = Recovered /\ errors' = errors /\ ret' = Nothing
      /\ Resume(g)
  BY <1>1 DEF Recover
<1>4. /\ frame.start \in 1..idx /\ frame.from \in 1..idx /\ frame.start <= frame.from
      /\ idx \in Nat /\ IsActivation(frame)
  BY <1>1, Began
<1>5. /\ IsActivation(g) /\ g.block = frame.block /\ g.pc = frame.pc + 1
      /\ g.start = frame.start /\ g.from = frame.from
  BY <1>4, PastIs
<1> HIDE DEF g
<1>6. idx' \in idx..Len(tokens) /\ frame.from < idx'
  BY <1>1, <1>3, RecoveredIs
<1>7. frame.start < idx'
  <2>1. Len(tokens) \in Nat
    BY InputsAre DEF IInv, InsideInput
  <2>2. QED
    BY <1>4, <1>6, <2>1
<1>8. Based(g, errors')
  BY <1>1, <1>2, <1>5, UnspecialIs DEF Calling
<1>9. QED
  BY <1>1, <1>3, <1>5, <1>6, <1>7, <1>8, ResumeReturned

-----------------------------------------------------------------------------
(* The theorems.                                                           *)
LEMMA InitHolds ==
  ASSUME Init
  PROVE  IInv
<1> DEFINE f == [block |-> "program", pc |-> 1, start |-> 1, from |-> 1,
                 min |-> 0, words |-> <<>>, kids |-> <<>>]
<1>1. tokens \in Inputs /\ idx = 1 /\ stack = <<f>> /\ ret = Nothing /\ errors = {}
  BY DEF Init
<1>2. /\ IsActivation(f) /\ f.block = "program" /\ f.pc = 1
      /\ f.start = 1 /\ f.from = 1
  <2>1. <<>> \in Seq(Token) /\ <<>> \in Seq({})
    OBVIOUS
  <2>2. QED
    BY <2>1 DEF IsActivation, Fields
<1> HIDE DEF f
<1>3. InsideInput
  <2>1. Len(tokens) \in Nat \ {0}
    BY <1>1, InputsAre
  <2>2. QED
    BY <1>1, <2>1 DEF InsideInput
<1>4. f.block \in Blocks /\ Plain(f.block, f.pc) /\ ~Moved(f.block, f.pc)
  BY <1>2 DEF Blocks, Plain, Guarded, Special, Takers, Moved, Entered
<1>5. ActivationOK(f, 1, tokens, errors)
  <2>1. Seen(f, tokens[1]) /\ Based(f, errors)
    BY <1>4, PlainIs
  <2>2. Placed(f, 1)
    BY <1>2, <1>4 DEF Placed
  <2>3. InTable(f)
    BY <1>2, <1>4, Blocks1 DEF InTable
  <2>4. QED
    BY <1>2, <2>1, <2>2, <2>3 DEF ActivationOK
<1>6. stack \in Seq({f}) /\ Len(stack) = 1 /\ stack[1] = f
  BY <1>1
<1>7. ret.is = "none" /\ Place(1) = 1
  BY <1>1, <1>6 DEF Nothing, Place
<1>8. Activations
  <2>1. \A i \in 1..Len(stack) : ActivationOK(stack[i], Place(i), tokens, errors)
    BY <1>5, <1>6, <1>7
  <2>2. \A i \in 1..Len(stack) : stack[i].from <= idx
    BY <1>1, <1>2, <1>6
  <2>3. \A i \in 1..(Len(stack) - 1) : Follows(stack[i], stack[i + 1])
    BY <1>6
  <2>4. QED
    BY <1>6, <2>1, <2>2, <2>3 DEF Activations
<1>9. ReturnIsOK
  BY <1>1, <1>7 DEF ReturnIsOK
<1>10. QED
  BY <1>3, <1>8, <1>9 DEF IInv

(* Every step keeps it.                                                    *)
LEMMA NextKeeps ==
  ASSUME IInv, [Next]_vars
  PROVE  IInv'
<1>1. CASE Next
  BY <1>1, SkipKept, KeepKept, ExpectKept, NameKept, DemandKept, OptionKept,
     OnKept, MatchKept, AheadKept, GoKept, EnterKept, ReportOnlyKept, FailKept,
     NoMatchKept, TypedKept, ClimbKept, CombineKept, NodeKept, SameKept,
     TakeValueKept, GiveUpKept, GoOnKept, RecoverKept DEF Next
<1>2. CASE UNCHANGED vars
  BY <1>2 DEF vars, IInv, InsideInput, Activations, ReturnIsOK, Place,
              ActivationOK, InTable, Placed, Seen, Based, ReturnOK, Follows,
              StepOf, IsActivation
<1>3. QED
  BY <1>1, <1>2

(* The invariant holds throughout.                                         *)
LEMMA Invariance == Spec => []IInv
<1>1. Init => IInv
  BY InitHolds
<1>2. IInv /\ [Next]_vars => IInv'
  BY NextKeeps
<1>3. QED
  BY <1>1, <1>2, PTL DEF Spec

(* Every activation is at a step of its table and no position is outside   *)
(* the tokens: peek() and advance() never read past the vector.            *)
THEOREM TypeCorrectness == Spec => []TypeOK
<1>1. IInv => TypeOK
  <2>1. SUFFICES ASSUME IInv PROVE TypeOK
    OBVIOUS
  <2>2. idx \in 1..Len(tokens) /\ Len(tokens) \in Nat /\ errors \subseteq 1..idx
    BY <2>1, InputsAre DEF IInv, InsideInput
  <2>3. ASSUME NEW i \in DOMAIN stack
        PROVE  /\ stack[i].block \in DOMAIN Code
               /\ stack[i].pc \in DOMAIN Code[stack[i].block]
               /\ stack[i].start \in 1..stack[i].from
               /\ stack[i].from \in 1..idx
    <3>1. i \in 1..Len(stack)
      BY <2>1 DEF IInv, Activations
    <3>2. InTable(stack[i]) /\ Placed(stack[i], Place(i)) /\ stack[i].from <= idx
      BY <2>1, <3>1 DEF IInv, Activations, ActivationOK
    <3>3. stack[i].start \in 1..stack[i].from /\ stack[i].from \in 1..idx
      BY <2>2, <3>2 DEF Placed
    <3>4. QED
      BY <3>2, <3>3, CodeOK DEF InTable
  <2>4. ret # Nothing => ret.start \in 1..idx
    BY <2>1 DEF IInv, ReturnIsOK, ReturnOK
  <2>5. QED
    BY <2>2, <2>3, <2>4 DEF TypeOK
<1>2. QED
  BY <1>1, Invariance, PTL

(* Source text is only given up after a report about it, in every function *)
(* and for every input.                                                    *)
THEOREM FailuresReported == Spec => []FailureIsReportedWhereItIs
<1>1. IInv => FailureIsReportedWhereItIs
  BY DEF IInv, ReturnIsOK, ReturnOK, ErrorSince, FailureIsReportedWhereItIs
<1>2. QED
  BY <1>1, Invariance, PTL

(* Every iteration of every statement loop consumes a token.               *)
THEOREM LoopsProgress == Spec => LoopsAdvance
<1>1. ASSUME IInv, [Next]_vars
      PROVE  [stack # <<>> /\ ret # Nothing /\ step.do = "each" => idx' > frame.from]_vars
  <2>1. SUFFICES ASSUME Next, stack # <<>>, ret # Nothing, step.do = "each"
                 PROVE  idx' > frame.from
    BY <1>1
  <2>2. ret.is # "none"
    BY <1>1, <2>1 DEF IInv, ReturnIsOK
  <2>3. frame.from \in Nat /\ idx \in Nat
    BY <1>1, <2>1, Began
  <2>4. CASE TakeValue
    <3>1. /\ ReturnOK(ret, idx, errors) /\ ret.start = frame.from
          /\ Calling(frame.block, frame.pc, step) /\ Region(step.block, ret.block)
      BY <1>1, <2>1, <2>2, AtReturn
    <3>2. ret.block \in Consuming /\ ret.is = "value"
      BY <2>1, <2>4, <3>1 DEF Calling, Region, TakeValue, Returned
    <3>3. ret.start < idx /\ idx' = idx
      BY <2>4, <3>1, <3>2 DEF ReturnOK, TakeValue
    <3>4. QED
      BY <2>3, <3>1, <3>3
  <2>5. CASE Recover
    <3>1. frame.from < Recovered /\ Recovered \in idx..Len(tokens) /\ idx' = Recovered
      BY <1>1, <2>1, <2>2, <2>5, RecoveredIs DEF Recover
    <3>2. Len(tokens) \in Nat
      BY <1>1, InputsAre DEF IInv, InsideInput
    <3>3. QED
      BY <2>3, <3>1, <3>2
  <2>6. TakeValue \/ Recover
    BY <2>1, <2>2 DEF Next, Skip, Keep, Expect, Name, Demand, Option, On, Match,
       Ahead, Go, Enter, ReportOnly, Fail, NoMatch, Typed, Climb, Combine, Node,
       Same, GiveUp, GoOn, At
  <2>7. QED
    BY <2>4, <2>5, <2>6
<1>2. QED
  BY <1>1, Invariance, PTL DEF Spec, LoopsAdvance

(* The parser does not backtrack.                                          *)
THEOREM NeverBack == Spec => CursorNeverBack
<1>1. ASSUME IInv, [Next]_vars
      PROVE  [idx' >= idx]_vars
  <2>1. SUFFICES ASSUME Next
                 PROVE  idx' >= idx
    BY <1>1
  <2>2. idx \in Nat /\ Len(tokens) \in Nat /\ After(idx) \in idx..Len(tokens)
    BY <1>1, CursorMoves, InputsAre DEF IInv, InsideInput
  <2>3. CASE Recover
    <3>1. stack # <<>> /\ ret.is # "none" /\ step.do = "each" /\ idx' = Recovered
      BY <2>3 DEF Recover, Returned
    <3>2. Recovered \in idx..Len(tokens)
      BY <1>1, <3>1, RecoveredIs
    <3>3. QED
      BY <2>2, <3>1, <3>2
  <2>4. CASE ~Recover
    <3>1. idx' = idx \/ idx' = After(idx)
      BY <2>1, <2>4 DEF Next, Skip, Keep, Expect, Name, Demand, Option, On,
         Match, Ahead, Go, Enter, ReportOnly, Fail, NoMatch, Typed, Climb,
         Combine, Node, Same, TakeValue, GiveUp, GoOn
    <3>2. QED
      BY <2>2, <3>1
  <2>5. QED
    BY <2>3, <2>4
<1>2. QED
  BY <1>1, Invariance, PTL DEF Spec, CursorNeverBack
=============================================================================
