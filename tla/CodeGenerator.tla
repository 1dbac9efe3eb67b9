---------------------------- MODULE CodeGenerator ----------------------------
(***************************************************************************)
(* The code generator (include/codegen, src/codegen): a walk over an       *)
(* accepted program that emits stack-machine assembly and, while emitting, *)
(* keeps in _stackSize how many 8-byte slots the emitted code will have    *)
(* pushed in the current function.  Locals are addressed from rsp with     *)
(* that number, so it must be the real depth wherever it is used.          *)
(*                                                                         *)
(* One step per node.  "frames" is the C++ call stack of the walk: for     *)
(* each construct being generated, the locals of its activation.  The      *)
(* entries of _scopeMarks and _loopLabels are each pushed and popped by    *)
(* one activation, so they are the "mark" and the loop labels of frames.   *)
(* Expressions push one value and pop their temporaries; what they do      *)
(* inside is not followed here.                                            *)
(*                                                                         *)
(* What the emitted code does is followed by history variables: "depths",  *)
(* the depths rsp can have when control reaches the instruction emitted    *)
(* next (empty when it cannot be reached), and "arrivals", the depth each  *)
(* jump emitted so far carries to its label.                               *)
(***************************************************************************)
EXTENDS Ast, Integers, FiniteSetsExt, SequencesExt

CONSTANTS
  Programs,     \* the programs sema may have accepted
  NumArgRegs    \* the length of kArgRegs

ASSUME ProgramsAssumption ==
  \A p \in Programs : p \in Program /\ IsTree(p)
ASSUME NumArgRegsAssumption == NumArgRegs \in Nat

VARIABLES
  prog,         \* _program
  pass,         \* "entry" (genEntryPoint), "functions" (genFunctions), "done"
  item, pc,     \* the node to generate next: prog[item][pc]
  stackSize,    \* _stackSize
  vars,         \* _vars
  globals,      \* _globals
  inFunction,   \* _inFunction
  saved,        \* savedVars and savedStackSize of genFuncDecl
  frames,       \* the constructs being generated, innermost last
  labelCount,   \* _labelCount, counting the labels statements make
  depths,       \* history: depths rsp can have at the point of emission
  arrivals,     \* history: <<label, depth>> for each jump emitted
  placed,       \* history: the labels whose definition has been emitted
  leaked,       \* history: a thamba or pudhe left slots on the stack
  outcome,      \* "ok", "garbled" or "crashed" (kArgRegs overrun), "thrown"
  binds         \* history: the declaration each use was resolved to

walk == <<prog, pass, item, pc>>
machine == <<depths, arrivals, placed, leaked>>
allVars == <<prog, pass, item, pc, stackSize, vars, globals, inFunction,
             saved, frames, labelCount, depths, arrivals, placed, leaked,
             outcome, binds>>

NoLabel == -1

Plain == 0
InInit == 1
InCond == 2
InStep == 3

-----------------------------------------------------------------------------
(* Variables.                                                              *)

(* findVar(): the latest entry of _vars, else of _globals, with that name; *)
(* a set of at most one, empty for nullptr.  (Definitions marked "mutant"  *)
(* are not the code: they are bugs the properties are known to catch.)     *)
Earliest(s, x) ==      \* mutant
  LET hits == {i \in DOMAIN s : s[i].name = x}
  IN  IF hits = {} THEN {} ELSE {s[Min(hits)]}

Latest(s, x) ==
  LET hits == {i \in DOMAIN s : s[i].name = x}
  IN  IF hits = {} THEN {} ELSE {s[Max(hits)]}

FindLocal(vs, gs, x) == Latest(vs, x)      \* mutant

FindVar(vs, gs, x) == IF Latest(vs, x) # {} THEN Latest(vs, x) ELSE Latest(gs, x)

(* The number of stack slots held by the variables from mark on: endScope's *)
(* popCount.                                                               *)
PopCountWithStatics(vs, mark) == Len(vs) - mark      \* mutant

PopCount(vs, mark) ==
  Cardinality({i \in (mark + 1)..Len(vs) : ~vs[i].static})

(* endScope(): the variables, the stack size and the depths it leaves.     *)
Shrink(vs, mark) == SubSeq(vs, 1, mark)

Lower(ds, n) == {d - n : d \in ds}
Raise(ds, n) == {d + n : d \in ds}

(* declareVar() and the branches of genStmt on NodeStmtVarDecl: whether    *)
(* the variable is in .bss, the slots it adds, the entries it appends and  *)
(* the labels it makes.                                                    *)
StoreAsStatic(s) == s.sthir \/ ~inFunction

StaticsArePushed(s) == IF s.k = "decl" THEN 1 ELSE 0      \* mutant

NewSlots(s) == IF s.k = "decl" /\ ~StoreAsStatic(s) THEN 1 ELSE 0

EntryByIndex(s, size, site) ==      \* mutant
  [name |-> s.x, static |-> StoreAsStatic(s),
   loc |-> IF StoreAsStatic(s) THEN 0 ELSE Len(vars), site |-> site]

Entry(s, size, site) ==
  [name |-> s.x, static |-> StoreAsStatic(s),
   loc |-> IF StoreAsStatic(s) THEN 0 ELSE size, site |-> site]

VarsAfter(vs, s, size, site) ==
  IF s.k = "decl" THEN Append(vs, Entry(s, size, site)) ELSE vs

GlobalsAfter(s, size, site) ==
  IF s.k = "decl" /\ ~inFunction THEN Append(globals, Entry(s, size, site))
                                 ELSE globals

NewLabels(s) ==
  IF s.k = "decl" /\ s.sthir /\ inFunction /\ s.init # NoExpr THEN 1 ELSE 0

-----------------------------------------------------------------------------
(* Uses.                                                                   *)

Resolved(vs, gs, names, use) ==
  UNION {{<<use, x, v.site>> : v \in FindVar(vs, gs, x)} : x \in names}

ExprNames(es) == UNION {Mentions(e) : e \in es}

(* stackOffsetOf() throws std::logic_error on a name findVar() does not    *)
(* know; genCall() reads kArgRegs past its end when a call has more        *)
(* arguments than registers, as genFuncDecl() does for parameters: the     *)
(* word found there is printed as a string, or the compiler crashes.       *)
Throws(vs, gs, names) == \E x \in names : FindVar(vs, gs, x) = {}

Overruns(es) == \E c \in CallsIn(es) : c[2] > NumArgRegs

Outcome(throws, overruns) ==
  IF throws THEN outcome' = "thrown"
  ELSE IF overruns THEN outcome' \in {"garbled", "crashed"}
  ELSE UNCHANGED outcome

-----------------------------------------------------------------------------
(* Jumps and labels.                                                       *)

Jumps(label) == {<<label, d>> : d \in depths}

(* The depths at a label: those of the code it follows and of the jumps to *)
(* it.                                                                     *)
AtLabel(label, ds, arr) == ds \cup {a[2] : a \in {b \in arr : b[1] = label}}

-----------------------------------------------------------------------------
(* The walk.                                                               *)

node == prog[item][pc]

GoTo(next) ==
  IF next <= Len(prog[item])
    THEN item' = item /\ pc' = next
    ELSE item' = item + 1 /\ pc' = 1

Advance == GoTo(pc + 1) /\ UNCHANGED <<prog, pass>>

IsFunction(i) == prog[i][1].k = "karya"

(* genEntryPoint() takes the statements that are not functions,            *)
(* genFunctions() those that are.                                          *)
Generating ==
  /\ outcome \in {"ok", "garbled"}
  /\ item <= Len(prog)
  /\ \/ pass = "entry" /\ ~IsFunction(item)
     \/ pass = "functions" /\ IsFunction(item)

Top == Last(frames)

(* genStmt() is given the statements of the top level and of scopes: what  *)
(* is directly in a switch, or between two arms of an if chain, is not one. *)
AtStatement ==
  /\ Generating
  /\ frames # <<>> => Top.k \notin {"paryay", "chain"}

Frame(k, base, mark) ==
  [k |-> k, at |-> pc, base |-> base, slots |-> 0, mark |-> mark,
   head |-> NoLabel, next |-> NoLabel, end |-> NoLabel, more |-> FALSE,
   cases |-> <<>>, arm |-> 0]

Push(f) == frames' = Append(frames, f)

Loops == {i \in DOMAIN frames : frames[i].k \in {"jovar", "body"}}

(* genStmt(): shevti, leeh, expression statement, assignment, variable     *)
(* declaration.  declareVar() runs before the initialiser is generated, so *)
(* the initialiser's names are looked up with the new variable in place.   *)
GenSimple ==
  /\ AtStatement
  /\ node.k \in SimpleKinds
  /\ LET site == <<item, pc, Plain>>
         vs == VarsAfter(vars, node, stackSize, site)
         gs == GlobalsAfter(node, stackSize, site)
     IN  /\ vars' = vs
         /\ globals' = gs
         /\ binds' = binds \cup Resolved(vs, gs, References(node), site)
         /\ Outcome(Throws(vs, gs, References(node)), Overruns(OwnExprs(node)))
  /\ stackSize' = stackSize + NewSlots(node)
  /\ labelCount' = labelCount + NewLabels(node)
  /\ depths' = IF node.k = "shevti" THEN {} ELSE Raise(depths, NewSlots(node))
  /\ Advance
  /\ UNCHANGED <<inFunction, saved, frames, arrivals, placed, leaked>>

(* What every construct that starts by evaluating expressions does with    *)
(* the names and calls in them.                                            *)
UseExprs(es) ==
  /\ binds' = binds \cup Resolved(vars, globals, ExprNames(es), <<item, pc, Plain>>)
  /\ Outcome(Throws(vars, globals, ExprNames(es)), Overruns(es))

(* genScope() on a bare block.                                             *)
GenScope ==
  /\ AtStatement
  /\ node.k = "scope"
  /\ Push(Frame("scope", stackSize, Len(vars)))
  /\ Advance
  /\ UNCHANGED <<stackSize, vars, globals, inFunction, saved, labelCount,
                 machine, outcome, binds>>

(* genStmt(): jar.  The condition is popped and, when it is false, control *)
(* goes to the next arm, or to the end when there is none.                 *)
GenIf ==
  /\ AtStatement
  /\ node.k = "jar"
  /\ UseExprs({node.e})
  /\ LET other == labelCount
         end == IF node.more THEN labelCount + 1 ELSE labelCount
     IN  /\ labelCount' = end + 1
         /\ arrivals' = arrivals \cup Jumps(other)
         /\ Push([Frame("arm", stackSize, Len(vars)) EXCEPT
                    !.next = IF node.more THEN other ELSE NoLabel,
                    !.end = end, !.more = node.more])
  /\ Advance
  /\ UNCHANGED <<stackSize, vars, globals, inFunction, saved, depths, placed,
                 leaked>>

(* genIfChain(): nahitar.  The innermost frame is the chain it continues.  *)
GenElseIf ==
  /\ Generating
  /\ node.k = "nahitar"
  /\ frames # <<>> /\ Top.k = "chain"
  /\ UseExprs({node.e})
  /\ labelCount' = labelCount + 1
  /\ arrivals' = arrivals \cup Jumps(labelCount)
  /\ frames' = Append(Front(frames),
                      [Frame("arm", stackSize, Len(vars)) EXCEPT
                         !.next = labelCount, !.end = Top.end,
                         !.more = node.more])
  /\ Advance
  /\ UNCHANGED <<stackSize, vars, globals, inFunction, saved, depths, placed,
                 leaked>>

(* genIfChain(): anyatha.                                                  *)
GenElse ==
  /\ Generating
  /\ node.k = "anyatha"
  /\ frames # <<>> /\ Top.k = "chain"
  /\ frames' = Append(Front(frames),
                      [Frame("arm", stackSize, Len(vars)) EXCEPT
                         !.end = Top.end])
  /\ Advance
  /\ UNCHANGED <<stackSize, vars, globals, inFunction, saved, labelCount,
                 machine, outcome, binds>>

(* genStmt(): jovar.                                                       *)
GenWhile ==
  /\ AtStatement
  /\ node.k = "jovar"
  /\ UseExprs({node.e})
  /\ labelCount' = labelCount + 2
  /\ placed' = placed \cup {labelCount}
  /\ arrivals' = arrivals \cup Jumps(labelCount + 1)
  /\ Push([Frame("jovar", stackSize, Len(vars)) EXCEPT
             !.head = labelCount, !.next = labelCount, !.end = labelCount + 1])
  /\ Advance
  /\ UNCHANGED <<stackSize, vars, globals, inFunction, saved, depths, leaked>>

(* genStmt(): pratyek.  One scope for what the initialiser declares and,   *)
(* inside the loop, one for the body: a "pratyek" and a "body" frame.      *)
GenFor ==
  /\ AtStatement
  /\ node.k = "pratyek"
  /\ LET site == <<item, pc, InInit>>
         vs == VarsAfter(vars, node.init, stackSize, site)
         gs == GlobalsAfter(node.init, stackSize, site)
         size == stackSize + NewSlots(node.init)
         cond == labelCount + NewLabels(node.init)
         inside == Raise(depths, NewSlots(node.init))
     IN  /\ vars' = vs
         /\ globals' = gs
         /\ stackSize' = size
         /\ depths' = inside
         /\ labelCount' = cond + 3
         /\ placed' = placed \cup {cond}
         /\ arrivals' = arrivals \cup {<<cond + 2, d>> : d \in inside}
         /\ frames' = frames \o
              <<Frame("pratyek", stackSize, Len(vars)),
                [Frame("body", size, Len(vs)) EXCEPT
                   !.head = cond, !.next = cond + 1, !.end = cond + 2]>>
         /\ binds' = binds
              \cup Resolved(vs, gs, References(node.init), site)
              \cup Resolved(vs, gs, Mentions(node.cond), <<item, pc, InCond>>)
         /\ Outcome(Throws(vs, gs, References(node.init) \cup Mentions(node.cond)),
                    Overruns(OwnExprs(node.init) \cup {node.cond}))
  /\ Advance
  /\ UNCHANGED <<inFunction, saved, leaked>>

(* genStmt(): thamba and pudhe.  A plain jump to a label of the innermost  *)
(* loop: no slot opened since the loop began is popped.                    *)
JumpOutOf(loop, label) ==
  /\ arrivals' = arrivals \cup Jumps(label)
  /\ leaked' = (leaked \/ stackSize # loop.base)
  /\ depths' = {}
  /\ Advance
  /\ UNCHANGED <<stackSize, vars, globals, inFunction, saved, frames,
                 labelCount, placed, outcome, binds>>

GenBreak ==
  /\ AtStatement
  /\ node.k = "thamba"
  /\ Loops # {}
  /\ LET loop == frames[Max(Loops)] IN JumpOutOf(loop, loop.end)

GenContinue ==
  /\ AtStatement
  /\ node.k = "pudhe"
  /\ Loops # {}
  /\ LET loop == frames[Max(Loops)] IN JumpOutOf(loop, loop.next)

(* genStmt(): paryay.  The scrutinee stays on the stack under the arms;    *)
(* each case value is compared with a copy of it, the last anyatha is      *)
(* where control goes when none is equal.                                  *)
GenSwitch ==
  /\ AtStatement
  /\ node.k = "paryay"
  /\ UseExprs(AllExprs(node))
  /\ LET n == Len(node.cases)
         labels == [j \in 1..n |-> labelCount + j]
         defaults == {j \in 1..n : node.cases[j] = NoExpr}
         other == IF defaults = {} THEN labelCount ELSE labels[Max(defaults)]
     IN  /\ labelCount' = labelCount + 1 + n
         /\ arrivals' = arrivals \cup
              ({labels[j] : j \in (1..n) \ defaults} \cup {other})
                \X Raise(depths, 1)
         /\ Push([Frame("paryay", stackSize, Len(vars)) EXCEPT
                    !.slots = 1, !.end = labelCount, !.cases = labels])
  /\ stackSize' = stackSize + 1
  /\ depths' = {}
  /\ Advance
  /\ UNCHANGED <<vars, globals, inFunction, saved, placed, leaked>>

(* The next arm of a switch.                                               *)
GenCase ==
  /\ Generating
  /\ node.k = "case"
  /\ frames # <<>> /\ Top.k = "paryay" /\ Top.arm < Len(Top.cases)
  /\ LET label == Top.cases[Top.arm + 1]
     IN  /\ depths' = AtLabel(label, depths, arrivals)
         /\ placed' = placed \cup {label}
  /\ frames' = Append([frames EXCEPT ![Len(frames)].arm = @ + 1],
                      Frame("case", stackSize, Len(vars)))
  /\ Advance
  /\ UNCHANGED <<stackSize, vars, globals, inFunction, saved, labelCount,
                 arrivals, leaked, outcome, binds>>

(* genStmt(): partav.  rsp is reset from rbp, whatever its depth.          *)
GenReturn ==
  /\ AtStatement
  /\ node.k = "partav"
  /\ UseExprs(node.value)
  /\ depths' = {}
  /\ Advance
  /\ UNCHANGED <<stackSize, vars, globals, inFunction, saved, frames,
                 labelCount, arrivals, placed, leaked>>

(* genFuncDecl(): a stack frame of its own; each parameter is pushed from  *)
(* its register.                                                           *)
ParamEntry(j) ==
  [name |-> node.params[j], static |-> FALSE, loc |-> j - 1,
   site |-> <<item, pc, j>>]

GenFuncDecl ==
  /\ Generating
  /\ node.k = "karya" /\ frames = <<>>
  /\ LET n == Len(node.params)
     IN  /\ vars' = [j \in 1..n |-> ParamEntry(j)]
         /\ stackSize' = n
         /\ depths' = {n}
         /\ Outcome(FALSE, n > NumArgRegs)
  /\ saved' = [vars |-> vars, stackSize |-> stackSize]
  /\ inFunction' = TRUE
  /\ Push(Frame("karya", 0, 0))
  /\ Advance
  /\ UNCHANGED <<globals, labelCount, arrivals, placed, leaked, binds>>

-----------------------------------------------------------------------------
(* The ends of blocks.                                                     *)

Closing(k) ==
  /\ Generating
  /\ node.k = "close"
  /\ frames # <<>>
  /\ Top.k = k

(* endScope() of the innermost frame.                                      *)
EndScope(f) ==
  /\ stackSize' = stackSize - PopCount(vars, f.mark)
  /\ vars' = Shrink(vars, f.mark)

AfterAll(f) == Lower(depths, Len(vars) - f.mark)      \* mutant
AfterNothing(f) == depths                             \* mutant

After(f) == Lower(depths, PopCount(vars, f.mark))

EndGenScope ==
  /\ Closing("scope")
  /\ EndScope(Top)
  /\ depths' = After(Top)
  /\ frames' = Front(frames)
  /\ Advance
  /\ UNCHANGED <<globals, inFunction, saved, labelCount, arrivals, placed,
                 leaked, outcome, binds>>

(* The labels defined where an arm ends.                                   *)
NextLabelOnly(f) == {f.next} \ {NoLabel}      \* mutant

ArmLabels(f) == {f.next, f.end} \ {NoLabel}

(* The end of an arm of an if chain that is the last, without or with a    *)
(* label for a false condition.                                            *)
EndLastArm ==
  /\ Closing("arm")
  /\ ~Top.more
  /\ EndScope(Top)
  /\ LET f == Top
         jumps == IF f.next = NoLabel THEN {}
                                      ELSE {<<f.end, d>> : d \in After(f)}
         ahead == IF f.next = NoLabel THEN After(f)
                                      ELSE AtLabel(f.next, {}, arrivals)
     IN  /\ arrivals' = arrivals \cup jumps
         /\ depths' = AtLabel(f.end, ahead, arrivals \cup jumps)
         /\ placed' = placed \cup ArmLabels(f)
  /\ frames' = Front(frames)
  /\ Advance
  /\ UNCHANGED <<globals, inFunction, saved, labelCount, leaked, outcome,
                 binds>>

(* The end of an arm that another arm follows: the chain stays open.       *)
EndArm ==
  /\ Closing("arm")
  /\ Top.more
  /\ EndScope(Top)
  /\ arrivals' = arrivals \cup {<<Top.end, d>> : d \in After(Top)}
  /\ depths' = AtLabel(Top.next, {}, arrivals)
  /\ placed' = placed \cup {Top.next}
  /\ frames' = Append(Front(frames),
                      [Top EXCEPT !.k = "chain", !.next = NoLabel])
  /\ Advance
  /\ UNCHANGED <<globals, inFunction, saved, labelCount, leaked, outcome,
                 binds>>

EndWhile ==
  /\ Closing("jovar")
  /\ EndScope(Top)
  /\ arrivals' = arrivals \cup {<<Top.head, d>> : d \in After(Top)}
  /\ depths' = AtLabel(Top.end, {}, arrivals)
  /\ placed' = placed \cup {Top.end}
  /\ frames' = Front(frames)
  /\ Advance
  /\ UNCHANGED <<globals, inFunction, saved, labelCount, leaked, outcome,
                 binds>>

(* The end of a pratyek: the body's scope, the step at its label, the jump *)
(* back, the end label and the header's scope.                             *)
EndFor ==
  /\ Closing("body")
  /\ Len(frames) > 1
  /\ LET body == Top
         header == frames[Len(frames) - 1]
         inside == Shrink(vars, body.mark)
         step == prog[item][body.at].step
         atStep == AtLabel(body.next, After(body), arrivals)
         size == stackSize - PopCount(vars, body.mark)
     IN  /\ arrivals' = arrivals \cup {<<body.head, d>> : d \in atStep}
         /\ depths' = Lower(AtLabel(body.end, {}, arrivals),
                            PopCount(inside, header.mark))
         /\ placed' = placed \cup {body.next, body.end}
         /\ stackSize' = size - PopCount(inside, header.mark)
         /\ vars' = Shrink(inside, header.mark)
         /\ binds' = binds \cup Resolved(inside, globals, References(step),
                                     <<item, body.at, InStep>>)
         /\ Outcome(Throws(inside, globals, References(step)),
                    Overruns(OwnExprs(step)))
  /\ frames' = Front(Front(frames))
  /\ Advance
  /\ UNCHANGED <<globals, inFunction, saved, labelCount, leaked>>

EndCase ==
  /\ Closing("case")
  /\ Len(frames) > 1
  /\ EndScope(Top)
  /\ arrivals' = arrivals \cup
       {<<frames[Len(frames) - 1].end, d>> : d \in After(Top)}
  /\ depths' = {}
  /\ frames' = Front(frames)
  /\ Advance
  /\ UNCHANGED <<globals, inFunction, saved, labelCount, placed, leaked,
                 outcome, binds>>

(* The end of a switch: the scrutinee is discarded.                        *)
EndSwitch ==
  /\ Closing("paryay")
  /\ Top.arm = Len(Top.cases)
  /\ depths' = Lower(AtLabel(Top.end, depths, arrivals), 1)
  /\ placed' = placed \cup {Top.end}
  /\ stackSize' = stackSize - 1
  /\ frames' = Front(frames)
  /\ Advance
  /\ UNCHANGED <<vars, globals, inFunction, saved, labelCount, arrivals,
                 leaked, outcome, binds>>

EndFuncDecl ==
  /\ Closing("karya")
  /\ vars' = saved.vars
  /\ stackSize' = saved.stackSize
  /\ inFunction' = FALSE
  /\ depths' = {}
  /\ frames' = Front(frames)
  /\ Advance
  /\ UNCHANGED <<globals, saved, labelCount, arrivals, placed, leaked, outcome,
                 binds>>

-----------------------------------------------------------------------------
(* The two passes over the top level.                                      *)

SkipItem ==
  /\ outcome \in {"ok", "garbled"}
  /\ item <= Len(prog)
  /\ \/ pass = "entry" /\ IsFunction(item)
     \/ pass = "functions" /\ ~IsFunction(item)
  /\ item' = item + 1 /\ pc' = 1
  /\ UNCHANGED <<prog, pass, stackSize, vars, globals, inFunction, saved,
                 frames, labelCount, machine, outcome, binds>>

(* The end of genEntryPoint(): the implicit exit.                          *)
EndEntryPoint ==
  /\ outcome \in {"ok", "garbled"}
  /\ pass = "entry" /\ item > Len(prog)
  /\ pass' = "functions"
  /\ item' = 1 /\ pc' = 1
  /\ depths' = {}
  /\ UNCHANGED <<prog, stackSize, vars, globals, inFunction, saved, frames,
                 labelCount, arrivals, placed, leaked, outcome, binds>>

EndGenerate ==
  /\ outcome \in {"ok", "garbled"}
  /\ pass = "functions" /\ item > Len(prog)
  /\ pass' = "done"
  /\ UNCHANGED <<prog, item, pc, stackSize, vars, globals, inFunction, saved,
                 frames, labelCount, machine, outcome, binds>>

InitOn(p) ==
  /\ prog = p /\ pass = "entry" /\ item = 1 /\ pc = 1
  /\ stackSize = 0 /\ vars = <<>> /\ globals = <<>>
  /\ inFunction = FALSE /\ saved = [vars |-> <<>>, stackSize |-> 0]
  /\ frames = <<>> /\ labelCount = 0
  /\ depths = {0} /\ arrivals = {} /\ placed = {} /\ leaked = FALSE
  /\ outcome = "ok" /\ binds = {}

Init == \E p \in Programs : InitOn(p)

GenBlock ==
  \/ GenScope \/ GenIf \/ GenElseIf \/ GenElse \/ GenWhile \/ GenFor
  \/ GenSwitch \/ GenCase \/ GenFuncDecl

EndBlock ==
  \/ EndGenScope \/ EndLastArm \/ EndArm \/ EndWhile \/ EndFor \/ EndCase
  \/ EndSwitch \/ EndFuncDecl

Next ==
  \/ GenSimple \/ GenBreak \/ GenContinue \/ GenReturn
  \/ GenBlock
  \/ EndBlock
  \/ SkipItem \/ EndEntryPoint \/ EndGenerate

Spec == Init /\ [][Next]_allVars /\ WF_allVars(Next)

Finished == pass = "done" \/ outcome \in {"crashed", "thrown"}

-----------------------------------------------------------------------------
(* Every slot _stackSize counts is a local or parameter that is in scope   *)
(* or the scrutinee of an open switch, block by block: what a block will   *)
(* pop when it ends is what was pushed since it began.                     *)
NextMark(i) == IF i = Len(frames) THEN Len(vars) ELSE frames[i + 1].mark
NextBase(i) == IF i = Len(frames) THEN stackSize ELSE frames[i + 1].base

SlotsOf(i) ==
  Cardinality({j \in (frames[i].mark + 1)..NextMark(i) : ~vars[j].static})

StackAccounting ==
  /\ frames = <<>> => stackSize = 0
  /\ \A i \in DOMAIN frames :
       /\ frames[i].mark <= NextMark(i)
       /\ NextBase(i) = frames[i].base + frames[i].slots + SlotsOf(i)

(* No two variables in scope share a slot and none lies outside the frame. *)
SlotsAreDistinct ==
  \A i, j \in DOMAIN vars :
    ~vars[i].static /\ ~vars[j].static =>
      /\ vars[i].loc < stackSize
      /\ i < j => vars[i].loc < vars[j].loc

(* Whatever jumps were taken, rsp is never above where the code generator  *)
(* thinks it is: no path pops a slot that is not its own, so a block's     *)
(* end never drops the return address or a caller's frame.                 *)
DepthNeverBelow == \A d \in depths : d >= stackSize

(* Until a thamba or pudhe leaves slots behind, rsp is exactly where the   *)
(* code generator thinks, on every path that reaches an instruction, and   *)
(* every jump to a construct still open carries the depth that construct   *)
(* expects at its labels.                                                  *)
FrameLabels(f) ==
  ({f.head, f.next, f.end} \ {NoLabel}) \cup {f.cases[j] : j \in DOMAIN f.cases}

DepthExactUnlessLeaked ==
  ~leaked =>
    /\ \A d \in depths : d = stackSize
    /\ \A i \in DOMAIN frames : \A a \in arrivals :
         a[1] \in FrameLabels(frames[i]) =>
           a[2] = frames[i].base + frames[i].slots

(* Between statements of the top level no jump is left without its label.  *)
JumpsLand == frames = <<>> => \A a \in arrivals : a[1] \in placed

(* docs/README.md, Codegen notes: variables live at a fixed offset from    *)
(* the stack pointer, that is, rsp is where _stackSize says.               *)
OffsetsAreFixed == \A d \in depths : d = stackSize

-----------------------------------------------------------------------------
(* The promise to the emitted code, stated by BlockStack without programs, *)
(* variables or jumps: a block leaves the stack as high as it found it.    *)
Bases(fs) == [i \in DOMAIN fs |-> fs[i].base]

Blocks == INSTANCE BlockStack
            WITH height <- stackSize, blocks <- Bases(frames)

(* The code generator implements BlockStack.                               *)
BlocksRestoreTheStack == Blocks!Spec
=============================================================================
