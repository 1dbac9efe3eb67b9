------------------------------- MODULE Parser -------------------------------
(***************************************************************************)
(* The parser (include/parser/Parser.hpp, src/parser): recursive descent   *)
(* over the tokens, with precedence climbing for expressions.              *)
(*                                                                         *)
(* Each C++ function is a table of blocks of steps, read downwards; a step *)
(* is one call of match(), expect() or another parse function, with what   *)
(* the function does on failure.  "stack" holds the activations in         *)
(* progress, and the actions execute the step the innermost is at.         *)
(*                                                                         *)
(* An activation collects the words and the subtrees the node it builds    *)
(* will have.  A node is a record of the construct's name, those words     *)
(* (names, operators, modifiers) and its subtrees.  Reports are the        *)
(* positions they are made at: every one of them is about peek().          *)
(***************************************************************************)
EXTENDS Tokens, FiniteSetsExt, SequencesExt

CONSTANT Inputs      \* the token sequences the lexer may hand over

ASSUME InputsAssumption ==
  \A t \in Inputs :
    /\ t \in Seq(Token)
    /\ t # <<>>
    /\ \A i \in DOMAIN t : t[i] = Eof <=> i = Len(t)

VARIABLES
  tokens,      \* _tokens
  idx,         \* _idx, from 1
  stack,       \* the activations, innermost last
  ret,         \* what the last call returned, until its caller takes it
  errors       \* the positions of the tokens reported

vars == <<tokens, idx, stack, ret, errors>>

-----------------------------------------------------------------------------
(* The steps.                                                              *)

skip == [do |-> "skip"]                          \* advance(), token not used
keep == [do |-> "keep"]                          \* advance(), token used
expect(t) == [do |-> "expect", token |-> t]      \* or report and give up
name == [do |-> "name"]                          \* expect(Identifier), used
demand(t) == [do |-> "demand", token |-> t]      \* or report and go on
option(ts) == [do |-> "option", of |-> ts]       \* match() any of ts, used
on(choices) == [do |-> "on", choices |-> choices]
                                  \* check(): go to the block for this token
match(choices) == [do |-> "match", choices |-> choices]
                                  \* match(): the same past the token
ahead(ts, us, b) == [do |-> "ahead", of |-> ts, next |-> us, block |-> b]
                                  \* check() and peek(1)
go(b) == [do |-> "go", block |-> b]
call(f) == [do |-> "call", block |-> f]  \* if it gives nothing, give up
need(f) == [do |-> "need", block |-> f]  \* if it gives nothing, report, give up
try(f) == [do |-> "try", block |-> f]    \* if it gives nothing, go on
each(f) == [do |-> "each", block |-> f]  \* if it gives nothing, synchronize()
report == [do |-> "report"]
fail == [do |-> "fail"]                  \* report and return nullopt
nothing == [do |-> "nothing"]            \* return nullopt
typed == [do |-> "typed"]                \* give up if the base is Inferred
climb(b) == [do |-> "climb", block |-> b]
combine == [do |-> "combine"]
node(n) == [do |-> "node", node |-> n]   \* build a node and return it
same == [do |-> "same"]                  \* return the subtree as it is

-----------------------------------------------------------------------------
(* Expressions.                                                            *)
Leaf == Literals \cup {"khare", "khote"}

parseArgList ==
  [args     |-> <<demand("("), on({<<{")"}, "argsEnd">>}), go("argsNext")>>,
   argsNext |-> <<try("expr"), match({<<{Comma}, "argsNext">>}), go("argsEnd")>>,
   argsEnd  |-> <<demand(")"), node("args")>>]

parseTerm ==
  [term  |-> <<on({<<Leaf, "leaf">>, <<Idents, "variable">>}),
               match({<<{"("}, "paren">>}), nothing>>,
   leaf  |-> <<keep, node("leaf")>>,
   variable |-> <<keep, on({<<{"("}, "callExpr">>}), node("name")>>,
   callExpr |-> <<call("args"), node("call")>>,
   paren |-> <<need("expr"), expect(")"), node("paren")>>]

parsePostfix ==
  [postfix    |-> <<ahead(Idents, IncDec, "postIncDec"), call("term"), same>>,
   postIncDec |-> <<keep, keep, node("post")>>]

parseUnary ==
  [unary     |-> <<on({<<IncDec, "preIncDec">>, <<UnaryOps, "prefix">>}),
                   call("postfix"), same>>,
   preIncDec |-> <<keep, name, node("pre")>>,
   prefix    |-> <<keep, need("unary"), node("unary")>>]

(* In rhs the operator is the word kept, and parseExpr is called with its  *)
(* precedence plus one.                                                    *)
parseExpr ==
  [expr    |-> <<call("unary"), go("climbing")>>,
   climbing |-> <<climb("rhs"), same>>,
   rhs     |-> <<need("expr"), combine, go("climbing")>>]

-----------------------------------------------------------------------------
(* Declarations, blocks and chains.                                        *)
parseScope ==
  [scope    |-> <<expect(OpenCurly), go("stmts")>>,
   stmts    |-> <<on({<<{CloseCurly, Eof}, "scopeEnd">>}), each("stmt"), go("stmts")>>,
   scopeEnd |-> <<expect(CloseCurly), node("scope")>>]

parseElseChain ==
  [elseChain |-> <<match({<<{"nahitar"}, "elseIf">>, <<{"anyatha"}, "else">>}),
                   nothing>>,
   elseIf    |-> <<expect("("), need("expr"), expect(")"), call("scope"),
                   try("elseChain"), node("nahitar")>>,
   else      |-> <<call("scope"), node("anyatha")>>]

NoReport ==      \* mutant
  [modifiers |-> <<match({<<{"he"}, "access">>}), option({"te"}), go("access")>>,
   access    |-> <<option({"maze"}), option({"sthir"}), option({"sarve"}),
                   option(Sizes), on({<<Types, "base">>}), node("modifiers")>>,
   base      |-> <<keep, node("modifiers")>>]

parseModifiers ==
  [modifiers |-> <<match({<<{"he"}, "access">>}), option({"te"}), go("access")>>,
   access    |-> <<option({"maze"}), option({"sthir"}), option({"sarve"}),
                   option(Sizes), on({<<Types, "base">>}), report,
                   node("modifiers")>>,
   base      |-> <<keep, node("modifiers")>>]

parseVarDeclTail ==
  [varDecl  |-> <<name, on({<<{"ahe"}, "declAhe">>, <<{Semicolon}, "declEnd">>}),
                  match({<<{"="}, "declInit">>}), fail>>,
   declAhe  |-> <<keep, need("expr"), go("declEnd")>>,
   declInit |-> <<need("expr"), go("declEnd")>>,
   declEnd  |-> <<expect(Semicolon), node("decl")>>]

parseFuncDeclTail ==
  [func     |-> <<name, expect("("), on({<<{")"}, "funcBody">>}), go("param")>>,
   param    |-> <<call("modifiers"), name, match({<<{Comma}, "param">>}),
                  go("funcBody")>>,
   funcBody |-> <<expect(")"), call("scope"), node("karya")>>]

parseDeclOrFunc ==
  [declOrFunc |-> <<call("modifiers"), typed, match({<<{"karya"}, "func">>}),
                    go("varDecl")>>]

-----------------------------------------------------------------------------
(* Statements.                                                             *)
OneArgument(n) ==
  <<skip, expect("("), need("expr"), expect(")"), expect(Semicolon), node(n)>>

parseExitStmt == [exitStmt |-> OneArgument("shevti")]
parsePrintStmt == [printStmt |-> OneArgument("leeh")]

parseIfStmt ==
  [ifStmt |-> <<skip, expect("("), need("expr"), expect(")"), call("scope"),
                try("elseChain"), node("jar")>>]

parseWhileStmt ==
  [whileStmt |-> <<skip, expect("("), need("expr"), expect(")"), call("scope"),
                   node("jovar")>>]

parseAssignTail ==
  [assignTail |-> <<on({<<AssignOps, "assign">>}), fail>>,
   assign     |-> <<keep, need("expr"), expect(Semicolon), node("assign")>>]

parseIdentifierLeadStmt ==
  [identStmt |-> <<keep, on({<<{"("}, "callStmt">>, <<IncDec, "postStmt">>}),
                   go("assignTail")>>,
   callStmt  |-> <<call("args"), expect(Semicolon), node("call")>>,
   postStmt  |-> <<keep, expect(Semicolon), node("post")>>]

DeclStart == Modifiers \cup Types      \* isDeclModifierStart, isTypeKeyword

parseForInit ==
  [forInit |-> <<on({<<DeclStart, "declOrFunc">>, <<Idents, "identStmt">>}), fail>>]

PostfixStepOnly ==      \* mutant
  [forStep    |-> <<name,
                    on({<<IncDec, "stepPost">>, <<AssignOps, "stepAssign">>}),
                    fail>>,
   stepPost   |-> <<keep, node("post")>>,
   stepAssign |-> <<keep, need("expr"), node("assign")>>]

parseForStep ==
  [forStep    |-> <<on({<<IncDec, "preIncDec">>}), name,
                    on({<<IncDec, "stepPost">>, <<AssignOps, "stepAssign">>}),
                    fail>>,
   stepPost   |-> <<keep, node("post")>>,
   stepAssign |-> <<keep, need("expr"), node("assign")>>]

parseForStmt ==
  [forStmt |-> <<skip, expect("("), call("forInit"), need("expr"), expect(Semicolon),
                 call("forStep"), expect(")"), call("scope"), node("pratyek")>>]

(* The loop over the cases; the body of one iteration is "arm".            *)
parseSwitchStmt ==
  [switchStmt |-> <<skip, expect("("), need("expr"), expect(")"), expect(OpenCurly),
                    go("cases")>>,
   cases      |-> <<on({<<{CloseCurly, Eof}, "casesEnd">>}), each("arm"), go("cases")>>,
   arm        |-> <<on({<<{"anyatha"}, "default">>}), need("expr"), go("colon")>>,
   default    |-> <<keep, go("colon")>>,
   colon      |-> <<expect(":"), go("armStmts")>>,
   armStmts   |-> <<on({<<{CloseCurly, Eof, "anyatha"}, "armEnd">>}),
                    ahead({"int"}, {":"}, "armEnd"), each("stmt"), go("armStmts")>>,
   armEnd     |-> <<node("case")>>,
   casesEnd   |-> <<expect(CloseCurly), node("paryay")>>]

parseReturnStmt ==
  [returnStmt |-> <<skip, on({<<{Semicolon}, "returnEnd">>}), need("expr"),
                    go("returnEnd")>>,
   returnEnd  |-> <<expect(Semicolon), node("partav")>>]

parseStmt ==
  [stmt |-> <<on({<<DeclStart, "declOrFunc">>, <<{"shevti"}, "exitStmt">>,
                  <<{"leeh"}, "printStmt">>, <<{"jar"}, "ifStmt">>,
                  <<{"jovar"}, "whileStmt">>, <<{"pratyek"}, "forStmt">>,
                  <<{"paryay"}, "switchStmt">>, <<{"partav"}, "returnStmt">>,
                  <<{"thamba"}, "breakStmt">>, <<{"pudhe"}, "continueStmt">>,
                  <<{OpenCurly}, "scope">>, <<Idents, "identStmt">>,
                  <<IncDec, "preStmt">>}),
              fail>>,
   breakStmt    |-> <<skip, expect(Semicolon), node("thamba")>>,
   continueStmt |-> <<skip, expect(Semicolon), node("pudhe")>>,
   preStmt      |-> <<keep, name, expect(Semicolon), node("pre")>>]

parseProgram ==
  [program    |-> <<on({<<{Eof}, "programEnd">>}), each("stmt"), go("program")>>,
   programEnd |-> <<node("program")>>]

Tables ==
  {parseArgList, parseTerm, parsePostfix, parseUnary, parseExpr, parseScope,
   parseElseChain, parseModifiers, parseVarDeclTail, parseFuncDeclTail,
   parseDeclOrFunc, parseExitStmt, parsePrintStmt, parseIfStmt, parseWhileStmt,
   parseAssignTail, parseIdentifierLeadStmt, parseForInit, parseForStep,
   parseForStmt, parseSwitchStmt, parseReturnStmt, parseStmt, parseProgram}

(* The blocks of all functions: no two of them share a name.               *)
Code ==
  [b \in UNION {DOMAIN t : t \in Tables} |-> (CHOOSE t \in Tables : b \in DOMAIN t)[b]]

-----------------------------------------------------------------------------
(* The machine.                                                            *)
Nothing == [is |-> "none"]       \* no call has returned

frame == Last(stack)
step == Code[frame.block][frame.pc]

At(do) == stack # <<>> /\ ret = Nothing /\ step.do = do

(* peek(), which clamps to the last token, and advance(), which stays on it. *)
PeekAt(i) == tokens[IF i <= Len(tokens) THEN i ELSE Len(tokens)]
Peek == PeekAt(idx)
After(i) == IF i < Len(tokens) THEN i + 1 ELSE i

(* Definitions marked "mutant" are not the code: they are bugs the         *)
(* properties are known to catch.                                          *)
Stops(i) == {j \in i..Len(tokens) : tokens[j] \in {Semicolon, CloseCurly, Eof}}

SyncBefore(i) == Min(Stops(i))      \* mutant

(* synchronize(): past the next semicolon, or to the next closing curly    *)
(* bracket or the end, without consuming it.                               *)
SyncFrom(i) ==
  LET stop == Min(Stops(i))
  IN  IF tokens[stop] = Semicolon THEN After(stop) ELSE stop

Resume(f) == stack' = [stack EXCEPT ![Len(stack)] = f]

Past(f) == [f EXCEPT !.pc = @ + 1]
To(f, b) == [f EXCEPT !.block = b, !.pc = 1]
WithWord(f, w) == [f EXCEPT !.words = Append(@, w)]
WithKid(f, n) == [f EXCEPT !.kids = Append(@, n)]

Tree(n, words, kids) == [node |-> n, words |-> words, kids |-> kids]

Activation(b, min) ==
  [block |-> b, pc |-> 1, start |-> idx, from |-> idx, min |-> min,
   words |-> <<>>, kids |-> <<>>]

(* Returning nullopt, and returning a node.                                *)
GiveNothing ==
  /\ stack' = Front(stack)
  /\ ret' = [is |-> "nullopt", block |-> frame.block, start |-> frame.start]

Give(tree) ==
  /\ stack' = Front(stack)
  /\ ret' = [is |-> "value", block |-> frame.block, start |-> frame.start,
             tree |-> tree]

Report == errors' = errors \cup {idx}

Init ==
  /\ tokens \in Inputs
  /\ idx = 1
  /\ stack = <<[block |-> "program", pc |-> 1, start |-> 1, from |-> 1,
                min |-> 0, words |-> <<>>, kids |-> <<>>]>>
  /\ ret = Nothing
  /\ errors = {}

Skip ==
  /\ At("skip")
  /\ idx' = After(idx)
  /\ Resume(Past(frame))
  /\ UNCHANGED <<tokens, ret, errors>>

Keep ==
  /\ At("keep")
  /\ idx' = After(idx)
  /\ Resume(Past(WithWord(frame, Peek)))
  /\ UNCHANGED <<tokens, ret, errors>>

Expect ==
  /\ At("expect")
  /\ IF Peek = step.token
       THEN idx' = After(idx) /\ Resume(Past(frame)) /\ UNCHANGED <<ret, errors>>
       ELSE Report /\ GiveNothing /\ UNCHANGED idx
  /\ UNCHANGED tokens

Name ==
  /\ At("name")
  /\ IF Peek \in Idents
       THEN /\ idx' = After(idx)
            /\ Resume(Past(WithWord(frame, Peek)))
            /\ UNCHANGED <<ret, errors>>
       ELSE Report /\ GiveNothing /\ UNCHANGED idx
  /\ UNCHANGED tokens

Demand ==
  /\ At("demand")
  /\ IF Peek = step.token THEN idx' = After(idx) /\ UNCHANGED errors
                          ELSE Report /\ UNCHANGED idx
  /\ Resume(Past(frame))
  /\ UNCHANGED <<tokens, ret>>

Option ==
  /\ At("option")
  /\ IF Peek \in step.of
       THEN idx' = After(idx) /\ Resume(Past(WithWord(frame, Peek)))
       ELSE Resume(Past(frame)) /\ UNCHANGED idx
  /\ UNCHANGED <<tokens, ret, errors>>

(* The block a choice goes to, or the next step if no choice applies.      *)
Chosen ==
  IF \E c \in step.choices : Peek \in c[1]
    THEN To(frame, (CHOOSE c \in step.choices : Peek \in c[1])[2])
    ELSE Past(frame)

On ==
  /\ At("on")
  /\ Resume(Chosen)
  /\ UNCHANGED <<tokens, idx, ret, errors>>

Match ==
  /\ At("match")
  /\ idx' = IF \E c \in step.choices : Peek \in c[1] THEN After(idx) ELSE idx
  /\ Resume(Chosen)
  /\ UNCHANGED <<tokens, ret, errors>>

Ahead ==
  /\ At("ahead")
  /\ Resume(IF Peek \in step.of /\ PeekAt(idx + 1) \in step.next
              THEN To(frame, step.block) ELSE Past(frame))
  /\ UNCHANGED <<tokens, idx, ret, errors>>

Go ==
  /\ At("go")
  /\ Resume(To(frame, step.block))
  /\ UNCHANGED <<tokens, idx, ret, errors>>

(* A call; an iteration of a loop begins at "from".  parseExpr is called   *)
(* with a minimal precedence above that of the operator it is to the right *)
(* of, and with 0 otherwise.                                               *)
SameLevel == IF frame.block = "rhs" THEN Precedence[Last(frame.words)] ELSE 0  \* mutant

MinPrec == IF frame.block = "rhs" THEN Precedence[Last(frame.words)] + 1 ELSE 0

Enter ==
  /\ \E how \in {"call", "need", "try", "each"} : At(how)
  /\ stack' = Append([stack EXCEPT ![Len(stack)].from = idx],
                     Activation(step.block, MinPrec))
  /\ UNCHANGED <<tokens, idx, ret, errors>>

ReportOnly ==
  /\ At("report")
  /\ Report
  /\ Resume(Past(frame))
  /\ UNCHANGED <<tokens, idx, ret>>

Fail ==
  /\ At("fail")
  /\ Report
  /\ GiveNothing
  /\ UNCHANGED <<tokens, idx>>

NoMatch ==
  /\ At("nothing")
  /\ GiveNothing
  /\ UNCHANGED <<tokens, idx, errors>>

(* parseDeclOrFunc() without a type: parseModifiers() has reported it.     *)
HasBase(mods) == \E i \in DOMAIN mods.words : mods.words[i] \in Types

Typed ==
  /\ At("typed")
  /\ IF HasBase(Last(frame.kids)) THEN Resume(Past(frame)) /\ UNCHANGED ret
                                  ELSE GiveNothing
  /\ UNCHANGED <<tokens, idx, errors>>

(* The loop of parseExpr(): take an operator that binds tightly enough.    *)
Climb ==
  /\ At("climb")
  /\ IF Peek \in BinaryOps /\ Precedence[Peek] >= frame.min
       THEN idx' = After(idx) /\ Resume(To(WithWord(frame, Peek), step.block))
       ELSE Resume(Past(frame)) /\ UNCHANGED idx
  /\ UNCHANGED <<tokens, ret, errors>>

Combine ==
  /\ At("combine")
  /\ Resume(Past([frame EXCEPT !.words = <<>>,
       !.kids = <<Tree("binary", <<Operator(Last(frame.words))>>, @)>>]))
  /\ UNCHANGED <<tokens, idx, ret, errors>>

Node ==
  /\ At("node")
  /\ Give(Tree(step.node, frame.words, frame.kids))
  /\ UNCHANGED <<tokens, idx, errors>>

Same ==
  /\ At("same")
  /\ Give(Last(frame.kids))
  /\ UNCHANGED <<tokens, idx, errors>>

-----------------------------------------------------------------------------
(* The caller takes what was returned.                                     *)
Returned(what) == stack # <<>> /\ ret.is = what

TakeValue ==
  /\ Returned("value")
  /\ Resume(Past(WithKid(frame, ret.tree)))
  /\ ret' = Nothing
  /\ UNCHANGED <<tokens, idx, errors>>

GiveUp ==
  /\ Returned("nullopt")
  /\ step.do \in {"call", "need"}
  /\ IF step.do = "need" THEN Report ELSE UNCHANGED errors
  /\ GiveNothing
  /\ UNCHANGED <<tokens, idx>>

GoOn ==
  /\ Returned("nullopt")
  /\ step.do = "try"
  /\ Resume(Past(frame))
  /\ ret' = Nothing
  /\ UNCHANGED <<tokens, idx, errors>>

(* The statement loops: synchronize(), and in parseProgram() one token     *)
(* more if the cursor is still where the iteration began.                  *)
OnlySync == SyncFrom(idx)      \* mutant

Recovered ==
  LET synced == SyncFrom(idx)
  IN  IF frame.block = "program" /\ synced = frame.from THEN After(synced)
                                                        ELSE synced

Recover ==
  /\ Returned("nullopt")
  /\ step.do = "each"
  /\ idx' = Recovered
  /\ Resume(Past(frame))
  /\ ret' = Nothing
  /\ UNCHANGED <<tokens, errors>>

Next ==
  \/ Skip \/ Keep \/ Expect \/ Name \/ Demand \/ Option \/ On \/ Match \/ Ahead
  \/ Go \/ Enter \/ ReportOnly \/ Fail \/ NoMatch \/ Typed \/ Climb \/ Combine
  \/ Node \/ Same \/ TakeValue \/ GiveUp \/ GoOn \/ Recover

(* A loop of one thread: nothing but its own steps can stop it.            *)
Spec == Init /\ [][Next]_vars /\ WF_vars(Next)

-----------------------------------------------------------------------------
(* The functions that return nullopt for "there is none here", without a   *)
(* report: the callers decide whether that is an error.                    *)
Optional == {"term", "postfix", "unary", "expr", "elseChain"}

Ended == stack = <<>>

(* Type invariant: every activation is at a step of its table, and no      *)
(* position is outside the tokens (peek() and advance() in ParserCore).    *)
TypeOK ==
  /\ idx \in 1..Len(tokens)
  /\ errors \subseteq 1..idx
  /\ \A i \in DOMAIN stack :
       /\ stack[i].block \in DOMAIN Code
       /\ stack[i].pc \in DOMAIN Code[stack[i].block]
       /\ stack[i].start \in 1..stack[i].from
       /\ stack[i].from \in 1..idx
  /\ ret # Nothing => ret.start \in 1..idx

(* Source text is only given up after a report about it: a function that   *)
(* returns nullopt has made a report at or after the token it began at, or *)
(* is one that may find nothing and has consumed nothing.  The statement   *)
(* loops rely on it, for they drop what they skip without a word           *)
(* (ParserDecl.cpp:10-14, ParserStmt.cpp:245-257), and so does main(),     *)
(* which only looks at hasErrors().                                        *)
FailureIsReportedWhereItIs ==
  ret.is = "nullopt" =>
    \/ \E e \in errors : e >= ret.start
    \/ ret.block \in Optional /\ idx = ret.start

(* The cursor never moves back: the parser does not backtrack.             *)
CursorNeverBack == [][idx' >= idx]_vars

(* Every iteration of every statement loop consumes a token, also when its *)
(* statement failed and synchronize() stopped at a closing bracket (the    *)
(* comment at ParserStmt.cpp:365).                                         *)
LoopsAdvance ==
  [][stack # <<>> /\ ret # Nothing /\ step.do = "each" => idx' > frame.from]_vars

(* parseProgram() returns, whatever the tokens.                            *)
Terminates == <>Ended
=============================================================================
