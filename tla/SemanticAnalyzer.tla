-------------------------- MODULE SemanticAnalyzer --------------------------
(***************************************************************************)
(* The semantic analyser (include/sema, src/sema): one walk over the       *)
(* program with a stack of scopes, a table of function signatures and two  *)
(* depth counters, reporting every rule the program breaks.                *)
(*                                                                         *)
(* One step per node.  "frames" is the C++ call stack of the walk: one     *)
(* entry per construct whose block is being visited, so that the node that *)
(* closes the block undoes what its opener did.  "binds" is a history      *)
(* variable: which declaration each use was resolved to, a declaration     *)
(* being identified by its place <<statement, node, n>> in the program,    *)
(* where n tells apart the parameters of one function, and a use by its    *)
(* place <<statement, node, part>>, the parts of a for header being its    *)
(* initialiser, condition and step.                                        *)
(***************************************************************************)
EXTENDS LexicalScope, Integers, SequencesExt

CONSTANT Programs    \* the programs the parser may hand over

ASSUME ProgramsAssumption ==
  \A p \in Programs : p \in Program /\ IsTree(p)

VARIABLES
  prog,         \* the program under analysis
  phase,        \* "collect", "visit" or "done": where analyze() is
  item, pc,     \* the node to visit next: prog[item][pc]
  scopes,       \* _scopes: a sequence of sets of VarInfo, innermost last
  functions,    \* _functions: arity of each function name
  loopDepth,    \* _loopDepth
  funcDepth,    \* _funcDepth
  frames,       \* the constructs being visited, innermost last
  diags,        \* the diagnostics reported so far
  binds         \* history: the declaration each use was resolved to

vars == <<prog, phase, item, pc, scopes, functions, loopDepth, funcDepth,
          frames, diags, binds>>

Plain == 0     \* the parts of a node
InInit == 1
InCond == 2
InStep == 3

-----------------------------------------------------------------------------
(* Scopes.                                                                 *)

Named(scope, x) == {v \in scope : v.name = x}

(* find(): the variable of that name in the innermost scope that has one;  *)
(* a set of at most one, empty for nullptr.  (FindOutermost, and the other *)
(* definitions marked "mutant", are not the code: they are bugs the        *)
(* properties below are known to catch.)                                   *)
FindOutermost(sc, x) ==         \* mutant
  LET hits == {i \in DOMAIN sc : Named(sc[i], x) # {}}
  IN  IF hits = {} THEN {} ELSE Named(sc[Min(hits)], x)

Find(sc, x) ==
  LET hits == {i \in DOMAIN sc : Named(sc[i], x) # {}}
  IN  IF hits = {} THEN {} ELSE Named(sc[Max(hits)], x)

VarInfo(s, site) ==
  [name |-> s.x, ahe |-> s.ahe, purnank |-> s.purnank, site |-> site]

(* declare(): a name the current scope already has is reported, not added. *)
Redeclares(sc, x) == Named(Last(sc), x) # {}

DeclareOutermost(sc, v) ==      \* mutant
  IF Redeclares(sc, v.name) THEN sc ELSE [sc EXCEPT ![1] = @ \cup {v}]

Declare(sc, v) ==
  IF Redeclares(sc, v.name) THEN sc
  ELSE [sc EXCEPT ![Len(sc)] = @ \cup {v}]

PushScope(sc) == Append(sc, {})
PopScope(sc) == Front(sc)

-----------------------------------------------------------------------------
(* The rules, as the set of what each visit reports: <<rule, name>>.       *)

(* checkUse() *)
UseErrors(sc, x) == IF Find(sc, x) = {} THEN {<<"undeclared", x>>} ELSE {}

(* checkAssignable() *)
AssignErrors(sc, x) ==
  UseErrors(sc, x)
  \cup {<<"immutable", x>> : v \in {u \in Find(sc, x) : u.ahe}}

CallErrors(c) ==
  IF c[1] \notin DOMAIN functions THEN {<<"unknown function", c[1]>>}
  ELSE IF functions[c[1]] # c[2] THEN {<<"arity", c[1]>>}
  ELSE {}

(* visitExpr(), visitTerm() *)
ExprErrors(sc, e) ==
  (UNION {UseErrors(sc, x) : x \in e.uses})
  \cup (UNION {AssignErrors(sc, x) : x \in e.bumps})
  \cup (UNION {CallErrors(c) : c \in e.calls})

ExprsErrors(sc, es) == UNION {ExprErrors(sc, e) : e \in es}

DeclErrors(sc, s) ==
  (IF s.ahe /\ s.init = NoExpr THEN {<<"no initializer", s.x>>} ELSE {})
  \cup (IF s.purnank /\ \E e \in s.init : e.neg
          THEN {<<"negative purnank", s.x>>} ELSE {})
  \cup (IF Redeclares(sc, s.x) THEN {<<"duplicate", s.x>>} ELSE {})

AssignmentErrors(sc, s) ==
  AssignErrors(sc, s.x)
  \cup {<<"negative purnank", s.x>> :
          v \in {u \in Find(sc, s.x) : u.purnank /\ s.e.neg}}

(* visitStmt() on a statement that is one node: what it reports, and the   *)
(* scopes it leaves.  The initialiser is visited before the name is        *)
(* declared.                                                               *)
SimpleErrors(sc, s) ==
  ExprsErrors(sc, OwnExprs(s))
  \cup (IF s.k = "decl" THEN DeclErrors(sc, s) ELSE {})
  \cup (IF s.k = "assign" THEN AssignmentErrors(sc, s) ELSE {})

SimpleScopes(sc, s, site) ==
  IF s.k = "decl" THEN Declare(sc, VarInfo(s, site)) ELSE sc

(* What the names of one part of the current node were resolved to.        *)
Resolved(sc, names, part) ==
  UNION {{<<<<item, pc, part>>, x, v.site>> : v \in Find(sc, x)} : x \in names}

ExprNames(es) == UNION {Mentions(e) : e \in es}

-----------------------------------------------------------------------------
(* The walk.                                                               *)

node == prog[item][pc]

Report(errors) == diags' = diags \cup {<<item, pc, err>> : err \in errors}

GoTo(next) ==
  IF next <= Len(prog[item])
    THEN item' = item /\ pc' = next
    ELSE item' = item + 1 /\ pc' = 1

Advance == GoTo(pc + 1)

Visiting == phase = "visit" /\ item <= Len(prog)

Push(k) == frames' = Append(frames, k)

(* collectFunctionSignatures(): the first declaration of a name is kept,   *)
(* later ones are reported.                                                *)
FunctionItems(p) == {i \in DOMAIN p : p[i][1].k = "karya"}

FirstOf(p, f) == Min({i \in FunctionItems(p) : p[i][1].x = f})

CollectFunctionSignatures ==
  /\ phase = "collect"
  /\ phase' = "visit"
  /\ functions' = [f \in FunctionNames(prog) |->
                     Len(prog[FirstOf(prog, f)][1].params)]
  /\ diags' = diags \cup
       {<<i, 1, <<"duplicate function", prog[i][1].x>>>> :
          i \in {j \in FunctionItems(prog) :
                   j # FirstOf(prog, prog[j][1].x)}}
  /\ UNCHANGED <<prog, item, pc, scopes, loopDepth, funcDepth, frames, binds>>

(* visitStmt(): shevti, leeh, expression statement, assignment and         *)
(* variable declaration.                                                   *)
VisitSimple ==
  /\ Visiting
  /\ node.k \in SimpleKinds
  /\ Report(SimpleErrors(scopes, node))
  /\ scopes' = SimpleScopes(scopes, node, <<item, pc, Plain>>)
  /\ binds' = binds \cup Resolved(scopes, References(node), Plain)
  /\ Advance
  /\ UNCHANGED <<prog, phase, functions, loopDepth, funcDepth, frames>>

(* visitStmt(): thamba and pudhe.                                          *)
NoJumpErrors(k) == {}      \* mutant

JumpErrors(k) == IF loopDepth = 0 THEN {<<"outside loop", k>>} ELSE {}

VisitLoopJump ==
  /\ Visiting
  /\ node.k \in {"thamba", "pudhe"}
  /\ Report(JumpErrors(node.k))
  /\ Advance
  /\ UNCHANGED <<prog, phase, scopes, functions, loopDepth, funcDepth, frames,
                 binds>>

(* visitStmt(): partav.                                                    *)
VisitReturn ==
  /\ Visiting
  /\ node.k = "partav"
  /\ Report((IF funcDepth = 0 THEN {<<"outside function", node.k>>} ELSE {})
            \cup ExprsErrors(scopes, node.value))
  /\ binds' = binds \cup Resolved(scopes, ExprNames(node.value), Plain)
  /\ Advance
  /\ UNCHANGED <<prog, phase, scopes, functions, loopDepth, funcDepth, frames>>

(* visitScope(), and the condition and arms of an if chain.                *)
EnterBlock ==
  /\ Visiting
  /\ node.k \in {"scope", "jar", "nahitar", "anyatha", "case"}
  /\ Report(ExprsErrors(scopes, AllExprs(node)))
  /\ binds' = binds \cup Resolved(scopes, ExprNames(AllExprs(node)), Plain)
  /\ scopes' = PushScope(scopes)
  /\ Push(node.k)
  /\ Advance
  /\ UNCHANGED <<prog, phase, functions, loopDepth, funcDepth>>

(* visitStmt(): jovar.  The condition is not inside the loop.              *)
EnterWhile ==
  /\ Visiting
  /\ node.k = "jovar"
  /\ Report(ExprErrors(scopes, node.e))
  /\ binds' = binds \cup Resolved(scopes, Mentions(node.e), Plain)
  /\ loopDepth' = loopDepth + 1
  /\ scopes' = PushScope(scopes)
  /\ Push(node.k)
  /\ Advance
  /\ UNCHANGED <<prog, phase, functions, funcDepth>>

(* visitStmt(): pratyek.  A scope for the header, holding what the         *)
(* initialiser declares, and inside it one for the body; the step is       *)
(* visited before the body.                                                *)
EnterFor ==
  /\ Visiting
  /\ node.k = "pratyek"
  /\ LET header == PushScope(scopes)
         inside == SimpleScopes(header, node.init, <<item, pc, InInit>>)
     IN  /\ Report(SimpleErrors(header, node.init)
                   \cup ExprErrors(inside, node.cond)
                   \cup SimpleErrors(inside, node.step))
         /\ binds' = binds
              \cup Resolved(header, References(node.init), InInit)
              \cup Resolved(inside, Mentions(node.cond), InCond)
              \cup Resolved(inside, References(node.step), InStep)
         /\ scopes' = PushScope(inside)
  /\ loopDepth' = loopDepth + 1
  /\ Push(node.k)
  /\ Advance
  /\ UNCHANGED <<prog, phase, functions, funcDepth>>

(* visitStmt(): paryay.  The scrutinee and the case values are all in the  *)
(* enclosing scope; the arms are "case" blocks.                            *)
EnterSwitch ==
  /\ Visiting
  /\ node.k = "paryay"
  /\ Report(ExprsErrors(scopes, AllExprs(node)))
  /\ binds' = binds \cup Resolved(scopes, ExprNames(AllExprs(node)), Plain)
  /\ Push(node.k)
  /\ Advance
  /\ UNCHANGED <<prog, phase, scopes, functions, loopDepth, funcDepth>>

(* visitFuncDecl(): parameters and body share one scope.                   *)
ParamOfAnyType(j) ==                                 \* mutant
  [name |-> node.params[j], ahe |-> FALSE, purnank |-> FALSE,
   site |-> <<item, pc, j>>]

Param(j) ==
  [name |-> node.params[j], ahe |-> FALSE, purnank |-> j \in node.purnanks,
   site |-> <<item, pc, j>>]

FirstParams ==
  {j \in DOMAIN node.params :
     \A i \in 1..(j - 1) : node.params[i] # node.params[j]}

EnterFunction ==
  /\ Visiting
  /\ node.k = "karya"
  /\ funcDepth = 0 /\ Len(scopes) = 1
  /\ Report({<<"duplicate", node.params[j]>> :
               j \in (DOMAIN node.params) \ FirstParams})
  /\ scopes' = Append(scopes, {Param(j) : j \in FirstParams})
  /\ funcDepth' = funcDepth + 1
  /\ Push(node.k)
  /\ Advance
  /\ UNCHANGED <<prog, phase, functions, loopDepth, binds>>

(* visitStmt(): a function declared anywhere but at the top level is       *)
(* reported and its body skipped.                                          *)
SkipNested == GoTo(CloseOf(prog[item], pc) + 1)

RejectNestedFunction ==
  /\ Visiting
  /\ node.k = "karya"
  /\ funcDepth > 0 \/ Len(scopes) > 1
  /\ Report({<<"nested function", node.x>>})
  /\ SkipNested
  /\ UNCHANGED <<prog, phase, scopes, functions, loopDepth, funcDepth, frames,
                 binds>>

(* The end of a block: what its opener pushed is popped.                   *)
ForIsNoLoop(k) == IF k = "jovar" THEN 1 ELSE 0      \* mutant

LoopsLeft(k) == IF k \in {"jovar", "pratyek"} THEN 1 ELSE 0

OneScopePerBlock(k, sc) == IF k = "paryay" THEN sc ELSE PopScope(sc) \* mutant

ScopesLeft(k, sc) ==
  CASE k = "paryay" -> sc
    [] k = "pratyek" -> PopScope(PopScope(sc))
    [] OTHER -> PopScope(sc)

LeaveBlock ==
  /\ Visiting
  /\ node.k = "close"
  /\ frames # <<>>
  /\ LET k == Last(frames)
     IN  /\ scopes' = ScopesLeft(k, scopes)
         /\ loopDepth' = loopDepth - LoopsLeft(k)
         /\ funcDepth' = IF k = "karya" THEN funcDepth - 1 ELSE funcDepth
  /\ frames' = Front(frames)
  /\ Advance
  /\ UNCHANGED <<prog, phase, functions, diags, binds>>

(* The end of analyze().                                                   *)
Finish ==
  /\ phase = "visit"
  /\ item > Len(prog)
  /\ phase' = "done"
  /\ scopes' = PopScope(scopes)
  /\ UNCHANGED <<prog, item, pc, functions, loopDepth, funcDepth, frames,
                 diags, binds>>

InitOn(p) ==
  /\ prog = p
  /\ phase = "collect"
  /\ item = 1 /\ pc = 1
  /\ scopes = <<{}>>
  /\ functions = [f \in {} |-> 0]
  /\ loopDepth = 0 /\ funcDepth = 0
  /\ frames = <<>>
  /\ diags = {} /\ binds = {}

Init == \E p \in Programs : InitOn(p)

Next ==
  \/ CollectFunctionSignatures
  \/ VisitSimple \/ VisitLoopJump \/ VisitReturn
  \/ EnterBlock \/ EnterWhile \/ EnterFor \/ EnterSwitch \/ EnterFunction
  \/ RejectNestedFunction
  \/ LeaveBlock
  \/ Finish

Spec == Init /\ [][Next]_vars /\ WF_vars(Next)

-----------------------------------------------------------------------------
VarInfos ==
  [name: Idents, ahe: BOOLEAN, purnank: BOOLEAN, site: Nat \X Nat \X Nat]

(* Every variable has its type.  The depth counters are never decremented  *)
(* below zero.                                                             *)
TypeOK ==
  /\ prog \in Program
  /\ phase \in {"collect", "visit", "done"}
  /\ item \in Nat /\ pc \in Nat
  /\ scopes \in Seq(SUBSET VarInfos)
  /\ DOMAIN functions \subseteq Idents
  /\ \A f \in DOMAIN functions : functions[f] \in Nat
  /\ loopDepth \in Nat /\ funcDepth \in Nat
  /\ frames \in Seq(OpenKinds)

-----------------------------------------------------------------------------
(* The two counters are the numbers of loops and of functions the walk is  *)
(* inside, at every step: visitStmt() decides from them alone whether a    *)
(* thamba, pudhe or partav is legal, and a path that forgot to restore one *)
(* would accept or reject jumps in all of the program that follows.        *)
FramesOf(fs, kinds) == {i \in DOMAIN fs : fs[i] \in kinds}

CountersMatchFrames ==
  /\ loopDepth = Cardinality(FramesOf(frames, {"jovar", "pratyek"}))
  /\ funcDepth = Cardinality(FramesOf(frames, {"karya"}))

(* While the walk goes on there is a scope for the top level and one for   *)
(* each block it is inside, two for a pratyek and none for a paryay.       *)
(* find() and declare() use _scopes.back() without asking: were one scope  *)
(* too many popped on some path, the vector could be empty there.          *)
ScopesMatchFrames ==
  phase # "done" =>
    Len(scopes) = 1 + Cardinality(FramesOf(frames, OpenKinds \ {"paryay"}))
                    + Cardinality(FramesOf(frames, {"pratyek"}))

(* A visit may add scopes, drop the innermost ones or declare in the       *)
(* innermost, and never alters another: a declaration in a block cannot    *)
(* reach the scope around it.                                              *)
OuterScopesUntouched ==
  [][\A i \in DOMAIN scopes : i < Len(scopes) /\ i \in DOMAIN scopes'
        => scopes'[i] = scopes[i]]_vars

(* analyze() reports nothing exactly for the programs that obey the rules: *)
(* the rules stated on the text by LexicalScope, without scopes, counters  *)
(* or an order of visiting.                                                *)
AcceptsExactlyTheWellFormed ==
  phase = "done" => (diags = {} <=> WellFormed(prog))

(* In an accepted program find() gives every use the declaration that      *)
(* lexical scoping gives it: the last one before the use in a block around *)
(* it, and never one of a block already closed.                            *)
ResolvesLexically ==
  phase = "done" /\ diags = {} => binds = LexicalBindings(prog)
=============================================================================
