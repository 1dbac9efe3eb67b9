----------------------------- MODULE Expressions -----------------------------
(***************************************************************************)
(* The inside of one statement: the instructions the code generator emits  *)
(* for the expressions of a simple statement (CodeGeneratorExpr.cpp,       *)
(* genCompoundAssign() and the simple cases of genStmt()), executed one by *)
(* one beside what the statement means to a reader of the program.         *)
(*                                                                         *)
(* Every expression leaves one word on the run-time stack, above the       *)
(* locals, and addresses the locals from the top with the depth it expects *)
(* there.  Which instructions, conversions and print routine it uses is    *)
(* decided by inferKind() while emitting; the words themselves only know   *)
(* their representation in the model (see Processor).                      *)
(***************************************************************************)
EXTENDS Kinds, Processor, SequencesExt

CONSTANTS
  Programs,     \* sequences of simple statements of a function
  Scope,        \* the variables there are before, with their places and words
  ReturnKind    \* _currentFuncReturnKind

BinaryOps ==
  Arithmetic \cup Comparisons \cup BitOps \cup {"%", "&&", "||"}
CompoundOps == Arithmetic \cup BitOps \cup {"%"}

ASSUME LeavesAssumption ==
  \A e \in Exprs :
    /\ e.k = "lit" => e.word \in Words /\ e.word.rep = RepOf(e.kind)
    /\ e.k = "un" => e.op \in {"-", "+", "!", "~"}
    /\ e.k = "bump" => e.by \in {1, -1} /\ e.pre \in BOOLEAN
    /\ e.k = "bin" => e.op \in BinaryOps

IsStatement(s) ==
  \/ s.k \in {"leeh", "shevti", "partav", "expr"} /\ s.e \in Exprs
  \/ s.k = "assign" /\ s.op \in CompoundOps \cup {"="} /\ s.e \in Exprs
  \/ /\ s.k = "decl" /\ s.x \in STRING /\ s.init \subseteq Exprs
     /\ \A e, f \in s.init : e = f

ASSUME ProgramsAssumption ==
  /\ ReturnKind \in Kind
  /\ \A p \in Programs :
       p \in Seq({p[i] : i \in DOMAIN p}) /\ \A i \in DOMAIN p : IsStatement(p[i])

(* The locals lie in the first slots of the stack; a static has its label, *)
(* here its name.                                                          *)
ASSUME ScopeAssumption ==
  /\ Scope \in Seq([name: STRING, kind: Kind, static: BOOLEAN, loc: Nat,
                    word: Words])
  /\ \A i \in DOMAIN Scope : Scope[i].word.rep \in {RepOf(Scope[i].kind), "junk"}
  /\ LET locals == {i \in DOMAIN Scope : ~Scope[i].static}
     IN  {Scope[i].loc : i \in locals} = 0..(Cardinality(locals) - 1)
  /\ \A i, j \in DOMAIN Scope :
       Scope[i].static /\ Scope[j].static /\ Scope[i].name = Scope[j].name => i = j

VARIABLES
  prog, at,     \* the program, and the statement of it that runs
  vars,         \* _vars and _globals
  code, pc,     \* the instructions of the statement
  stack, bss,   \* the stack of the function, and static storage
  regs,         \* the general registers
  outcome,      \* "running", "trapped" (by a division) or "left" (the function)
  handed,       \* history: <<representation, word>> for what the statement
                \* handed to functions, to print routines and to its caller
  meaning       \* history: the meaning of the statement

allVars == <<prog, at, vars, code, pc, stack, bss, regs, outcome, handed,
             meaning>>

statement == <<prog, at, vars, code, meaning>>

-----------------------------------------------------------------------------
(* Emitting.  n is _stackSize where the instruction is emitted; each       *)
(* instruction records it as its size.                                     *)

kArgRegs == <<"rdi", "rsi", "rdx", "rcx", "r8", "r9">>
Registers == {"rax", "rbx"} \cup {kArgRegs[i] : i \in DOMAIN kArgRegs}

Push(n, r) == <<[op |-> "push", size |-> n, reg |-> r]>>
Pop(n, r) == <<[op |-> "pop", size |-> n, reg |-> r]>>
Mov(n, r, w) == <<[op |-> "mov", size |-> n, reg |-> r, word |-> w]>>
Load(n, r, loc) == <<[op |-> "load", size |-> n, reg |-> r, loc |-> loc]>>
Store(n, loc) == <<[op |-> "store", size |-> n, loc |-> loc]>>
PushVar(n, loc) == <<[op |-> "pushvar", size |-> n, loc |-> loc]>>
Bump(n, loc, by) == <<[op |-> "bump", size |-> n, loc |-> loc, by |-> by]>>
Arith(n, op, f) == <<[op |-> op, size |-> n, f |-> f]>>
Test(n, zero, skip) ==
  <<[op |-> "test", size |-> n, zero |-> zero, skip |-> skip]>>
Jmp(n, skip) == <<[op |-> "jmp", size |-> n, skip |-> skip]>>
Take(n, r, rep, leaves) ==
  <<[op |-> "take", size |-> n, reg |-> r, rep |-> rep, leaves |-> leaves]>>

(* A static's place in .bss, or stackOffsetOf() in words.                  *)
Place(v, n) ==
  [static |-> v.static, name |-> v.name,
   up |-> IF v.static THEN 0 ELSE n - v.loc - 1]

(* emitKindConversion().                                                   *)
OnlyIntConverts == {"Int"}      \* mutant
FloatConvertible == {"Int", "Char", "Bool"}

Convert(n, r, from, to) ==
  IF to = "Float" /\ from \in FloatConvertible
    THEN <<[op |-> "todbl", size |-> n, reg |-> r]>>
  ELSE IF from = "Float" /\ to \in FloatConvertible
    THEN <<[op |-> "toint", size |-> n, reg |-> r]>>
  ELSE <<>>

(* The functions genExpr() calls get the code of the operands, for any     *)
(* depth, as a function gen.                                               *)

(* genCall(): the arguments are popped, last first, into their registers   *)
(* and there converted to the kinds of the parameters.                     *)
GenCall(e, vs, n, gen) ==
  LET m == Len(e.args)
      take(i) == Pop(n + i, kArgRegs[i])
                 \o Convert(n + i - 1, kArgRegs[i], GenKind(e.args[i], vs),
                            Sigs[e.f].params[i])
  IN  FlattenSeq([i \in 1..m |-> gen[e.args[i]][n + i - 1]])
      \o FlattenSeq([j \in 1..m |-> take(m + 1 - j)])
      \o <<[op |-> "call", size |-> n, f |-> e.f]>> \o Push(n, "rax")

(* genIncDecExpr().  After the push of the old value the variable is one   *)
(* word further from the top.                                              *)
StalePlace(v, n) == Place(v, n)      \* mutant
PostLoc(v, n) == Place(v, n + 1)

GenIncDec(e, vs, n) ==
  LET v == Lookup(vs, e.x)
  IN  IF e.pre THEN Bump(n, Place(v, n), e.by) \o PushVar(n, Place(v, n))
               ELSE PushVar(n, Place(v, n)) \o Bump(n + 1, PostLoc(v, n), e.by)

(* genBinExpr() on && and ||, from the code of the operands: both results  *)
(* are tested, and either can jump past the other's value.                 *)
TestInPlace(op, lhs, rhs, n) ==      \* mutant
  lhs \o Test(n + 1, op = "&&", Len(rhs) + 4)
  \o rhs \o Pop(n + 1, "rax") \o Test(n, op = "&&", 2)
  \o Mov(n, "rax", Truth(op = "&&")) \o Jmp(n, 1)
  \o Mov(n, "rax", Truth(op = "||"))
  \o Push(n, "rax")

ShortCircuit(op, lhs, rhs, n) ==
  lhs \o Pop(n + 1, "rax") \o Test(n, op = "&&", Len(rhs) + 4)
  \o rhs \o Pop(n + 1, "rax") \o Test(n, op = "&&", 2)
  \o Mov(n, "rax", Truth(op = "&&")) \o Jmp(n, 1)
  \o Mov(n, "rax", Truth(op = "||"))
  \o Push(n, "rax")

(* The instructions for rax op rbx: string concatenation, in which an      *)
(* operand that is not a string is first made one, SSE when an operand is  *)
(* a bhagank and the operator has a form for it, else integers.            *)
Operate(op, lk, rk, n) ==
  IF op = "+" /\ Either("Str", lk, rk)
    THEN (IF lk # "Str" THEN Arith(n, "totext", "rax") ELSE <<>>)
         \o (IF rk # "Str" THEN Arith(n, "totext", "rbx") ELSE <<>>)
         \o Arith(n, "concat", op)
  ELSE IF op \in Arithmetic \cup Comparisons /\ Either("Float", lk, rk)
    THEN <<[op |-> "sse", size |-> n, f |-> op, l |-> lk, r |-> rk]>>
  ELSE Arith(n, "int", op)

(* The right operand is evaluated first.                                   *)
GenBin(e, vs, n, gen) ==
  IF e.op \in {"&&", "||"}
    THEN ShortCircuit(e.op, gen[e.l][n], gen[e.r][n], n)
    ELSE gen[e.r][n] \o gen[e.l][n + 1]
         \o Pop(n + 2, "rax") \o Pop(n + 1, "rbx")
         \o Operate(e.op, GenKind(e.l, vs), GenKind(e.r, vs), n)
         \o Push(n, "rax")

(* genUnaryExpr().                                                         *)
GenUnary(e, vs, n, gen) ==
  gen[e.e][n] \o Pop(n + 1, "rax")
  \o Arith(n, "un", IF e.op = "-" /\ GenKind(e.e, vs) = "Float" THEN "btc"
                                                               ELSE e.op)
  \o Push(n, "rax")

(* genTerm() and genExpr().                                                *)
GenTerm(e, vs, n, gen) ==
  CASE e.k = "lit" -> Mov(n, "rax", e.word) \o Push(n, "rax")
    [] e.k = "var" -> PushVar(n, Place(Lookup(vs, e.x), n))
    [] e.k = "call" -> GenCall(e, vs, n, gen)

Gen(e, vs, n) ==
  LET gen[x \in Exprs] ==
        [m \in Nat |->
           CASE x.k = "un" -> GenUnary(x, vs, m, gen)
             [] x.k = "bump" -> GenIncDec(x, vs, m)
             [] x.k = "bin" -> GenBin(x, vs, m, gen)
             [] OTHER -> GenTerm(x, vs, m, gen)]
  IN  gen[e][n]

(* genCompoundAssign().  A bhagank takes + - * / through SSE, anything     *)
(* else through the integer instructions; the right side is converted to   *)
(* the variable's kind first.                                              *)
GenAssign(s, vs, n) ==
  LET v == Lookup(vs, s.x)
      kind == GenKind(s.e, vs)
      value == Gen(s.e, vs, n)
  IN  IF s.op = "="
        THEN value \o Pop(n + 1, "rax") \o Convert(n, "rax", kind, v.kind)
             \o Store(n, Place(v, n))
        ELSE value \o Pop(n + 1, "rbx") \o Convert(n, "rbx", kind, v.kind)
             \o Load(n, "rax", Place(v, n))
             \o (IF v.kind = "Float" /\ s.op \in Arithmetic
                    THEN Operate(s.op, v.kind, "Float", n)
                    ELSE Arith(n, "int", s.op))
             \o Store(n, Place(v, n))

(* genStmt() on a declaration in a function, not sthir: what the           *)
(* initialiser leaves becomes the variable's slot.                         *)
GenDecl(s, vs, n) ==
  LET to == ResolveStorageKind(s.type)
      init(e) ==
        LET from == GenKind(e, vs)
        IN  Gen(e, vs, n)
            \o (IF from = to THEN <<>>
                ELSE Pop(n + 1, "rax") \o Convert(n, "rax", from, to)
                     \o Push(n, "rax"))
  IN  IF s.init = {} THEN <<[op |-> "pushzero", size |-> n, kind |-> to]>>
                     ELSE init(CHOOSE e \in s.init : TRUE)

(* genStmt() on leeh, shevti, partav and an expression: the value goes to  *)
(* the print routine of its kind, the exit code, the caller, or nowhere.   *)
GenStmt(s, vs, n) ==
  CASE s.k = "leeh" ->
         Gen(s.e, vs, n) \o Pop(n + 1, "rdi")
         \o Take(n, "rdi", RepOf(GenKind(s.e, vs)), FALSE)
    [] s.k = "shevti" ->
         Gen(s.e, vs, n) \o Pop(n + 1, "rdi") \o Take(n, "rdi", "int", TRUE)
    [] s.k = "partav" ->
         Gen(s.e, vs, n) \o Pop(n + 1, "rax")
         \o Convert(n, "rax", GenKind(s.e, vs), ReturnKind)
         \o Take(n, "rax", RepOf(ReturnKind), TRUE)
    [] s.k = "expr" ->
         Gen(s.e, vs, n) \o Pop(n + 1, "rax")
         \o Take(n, "rax", RepOf(GenKind(s.e, vs)), FALSE)
    [] s.k = "assign" -> GenAssign(s, vs, n)
    [] s.k = "decl" -> GenDecl(s, vs, n)

(* declareVar().                                                           *)
Declared(vs, s, n) ==
  IF s.k = "decl"
    THEN Append(vs, [name |-> s.x, kind |-> ResolveStorageKind(s.type),
                     static |-> FALSE, loc |-> n])
    ELSE vs

OnStack(vs) == Cardinality({i \in DOMAIN vs : ~vs[i].static})

-----------------------------------------------------------------------------
(* What an expression means: its value, "trap" when it ends the program,   *)
(* or "none" where no document gives it one: ++, --, %, the bit operators  *)
(* and a condition on a bhagank, any operator but the + of two strings on  *)
(* a string (+= too), a string as a number or the reverse.  Words are told *)
(* apart by what they are, not by inferKind().  env has the word of each   *)
(* variable; value, an operand's meaning for any env.                      *)
Means(st, w, env) == [st |-> st, v |-> w, env |-> env]
None(env) == Means("none", Junk, env)
Give(w, env) == IF w.rep = "junk" THEN None(env) ELSE Means("value", w, env)
Then(r, F(_)) == IF r.st = "value" THEN F(r) ELSE r

Coerce(kind, w) ==
  IF w.rep = RepOf(kind) THEN w
  ELSE CASE RepOf(kind) = "dbl" -> ToDbl(w)
         [] RepOf(kind) = "int" -> ToInt(w)
         [] RepOf(kind) = "str" -> Junk

Combine(op, a, b, env) ==
  IF IntTraps(op, a, b) THEN Means("trap", Junk, env)
  ELSE Give(IF Both("int", a, b) THEN IntOp(op, a, b)
            ELSE IF Both("str", a, b) /\ op = "+" THEN Concat(a, b)
            ELSE IF /\ {a.rep, b.rep} \subseteq {"int", "dbl"}
                    /\ op \in Arithmetic \cup Comparisons
              THEN DblOp(op, Coerce("Float", a), Coerce("Float", b))
            ELSE Junk,
            env)

UnaryMeaning(op, w) ==
  CASE w.rep = "int" -> UnOp(op, w)
    [] w.rep = "dbl" /\ op = "-" -> UnOp("btc", w)
    [] w.rep = "dbl" /\ op = "+" -> w
    [] OTHER -> Junk

Decide(op, a) == (a.num = 0) = (op = "&&")     \* the first operand suffices

(* A function of the program: it uses its arguments, each in its place.    *)
Apply(f, args) ==
  LET sig == Sigs[f]
      sum[i \in 0..Len(args)] == IF i = 0 THEN 0
                                 ELSE sum[i - 1] + i * args[i].num
      total == sum[Len(args)]
  IN  IF \E i \in DOMAIN args : args[i].rep # RepOf(sig.params[i]) THEN Junk
      ELSE CASE sig.ret = "Float" -> DblWord(total)
             [] sig.ret = "Str" -> TextWord(<<f>>)
             [] OTHER -> IntWord(Signed(total))

Values(es, env, value) ==
  LET values[i \in 0..Len(es)] ==
        IF i = 0 THEN Means("value", <<>>, env)
        ELSE Then(values[i - 1], LAMBDA q :
               Then(value[es[i]][q.env], LAMBDA p :
                 Means("value", Append(q.v, p.v), p.env)))
  IN  values[Len(es)]

CallMeaning(e, env, value) ==
  Then(Values(e.args, env, value), LAMBDA r :
    Give(Apply(e.f, [i \in DOMAIN e.args |->
                       Coerce(Sigs[e.f].params[i], r.v[i])]), r.env))

BumpMeaning(e, env) ==
  LET old == env[e.x]
      new == IntOp("+", old, IntWord(e.by))
  IN  IF new = Junk THEN None(env)
      ELSE Give(IF e.pre THEN new ELSE old, [env EXCEPT ![e.x] = new])

LogicMeaning(e, env, value) ==
  Then(value[e.l][env], LAMBDA a :
    IF a.v.rep # "int" THEN None(a.env)
    ELSE IF Decide(e.op, a.v) THEN Give(Truth(e.op = "||"), a.env)
    ELSE Then(value[e.r][a.env], LAMBDA b :
           IF b.v.rep # "int" THEN None(b.env)
                              ELSE Give(Truth(b.v.num # 0), b.env)))

BinMeaning(e, env, value) ==
  Then(value[e.r][env], LAMBDA b :
    Then(value[e.l][b.env], LAMBDA a : Combine(e.op, a.v, b.v, a.env)))

Value(e, env) ==
  LET value[x \in Exprs] ==
        [m \in [DOMAIN env -> Words] |->
           IF ~Known(x, DOMAIN env) THEN None(m)
           ELSE CASE x.k = "lit" -> Give(x.word, m)
                  [] x.k = "var" -> Give(m[x.x], m)
                  [] x.k = "un" ->
                       Then(value[x.e][m], LAMBDA r :
                         Give(UnaryMeaning(x.op, r.v), r.env))
                  [] x.k = "bump" -> BumpMeaning(x, m)
                  [] x.k = "call" -> CallMeaning(x, m, value)
                  [] x.k = "bin" /\ x.op \in {"&&", "||"} ->
                       LogicMeaning(x, m, value)
                  [] x.k = "bin" /\ x.op \notin {"&&", "||"} ->
                       BinMeaning(x, m, value)]
  IN  value[e][env]

Zero(kind) == CASE kind = "Float" -> DblWord(0) [] kind = "Str" -> Junk
                [] OTHER -> IntWord(0)

(* What a statement means: the word it hands on and the variables after.   *)
Set(env, x, w) == IF w.rep = "junk" THEN None(env)
                  ELSE Means("value", w, (x :> w) @@ env)

(* A declaration has declared its variable before it evaluates its         *)
(* initialiser, so one that names a variable its own hides reads its own,  *)
(* against sema's lookup: no meaning.                                      *)
NamesItself(s) == s.k = "decl" /\ \E e \in s.init : s.x \in NamesIn(e)

Meaning(s, env, vs) ==
  CASE s.k \in {"leeh", "expr"} -> Value(s.e, env)
    [] s.k = "shevti" ->
         Then(Value(s.e, env), LAMBDA r :
           IF r.v.rep = "int" THEN r ELSE None(r.env))
    [] s.k = "partav" ->
         Then(Value(s.e, env), LAMBDA r : Give(Coerce(ReturnKind, r.v), r.env))
    [] s.k = "assign" ->
         LET kind == Lookup(vs, s.x).kind
         IN  Then(Value(s.e, env), LAMBDA r :
               LET w == Coerce(kind, r.v)
               IN  IF s.op = "=" THEN Set(r.env, s.x, w)
                   ELSE IF kind = "Str" THEN None(r.env)
                   ELSE Then(Combine(s.op, r.env[s.x], w, r.env),
                             LAMBDA q : Set(q.env, s.x, q.v)))
    [] s.k = "decl" /\ s.init = {} ->
         Means("value", Junk, (s.x :> Zero(ResolveStorageKind(s.type))) @@ env)
    [] NamesItself(s) -> None(env)
    [] OTHER ->
         Then(Value(CHOOSE e \in s.init : TRUE, env), LAMBDA r :
           Set(r.env, s.x, Coerce(ResolveStorageKind(s.type), r.v)))

-----------------------------------------------------------------------------
(* Executing.                                                              *)

Slot(loc) == Len(stack) - loc.up

Read(loc) ==
  CASE loc.static -> bss[loc.name]
    [] ~loc.static /\ Slot(loc) \in DOMAIN stack -> stack[Slot(loc)]
    [] OTHER -> Junk

Write(loc, w) ==
  IF loc.static THEN bss' = [bss EXCEPT ![loc.name] = w] /\ UNCHANGED stack
                ELSE stack' = [stack EXCEPT ![Slot(loc)] = w] /\ UNCHANGED bss

Env == [x \in Names(vars) |->
          Read(Place(Lookup(vars, x), Len(stack)))]

InitialVars ==
  [i \in DOMAIN Scope |-> [name |-> Scope[i].name, kind |-> Scope[i].kind,
                           static |-> Scope[i].static, loc |-> Scope[i].loc]]

(* The variables in scope before each statement, and at the end.           *)
VarsBefore(p) ==
  LET before[i \in 1..(Len(p) + 1)] ==
        IF i = 1 THEN InitialVars
        ELSE Declared(before[i - 1], p[i - 1], OnStack(before[i - 1]))
  IN  before

ExprsOf(s) == IF s.k = "decl" THEN s.init ELSE {s.e}

(* Sema's verdict, as far as it depends on names in scope and kinds.       *)
Accepted(p) ==
  \A i \in DOMAIN p :
    LET vs == VarsBefore(p)[i]
    IN  /\ \A e \in ExprsOf(p[i]) : Accepts(e, vs)
        /\ p[i].k = "assign" => p[i].x \in Names(vs)

Init ==
  /\ prog \in {p \in Programs : Accepted(p)}
  /\ at = 0 /\ code = <<>> /\ pc = 1
  /\ vars = InitialVars
  /\ stack = [i \in 1..OnStack(InitialVars) |->
                (CHOOSE v \in ToSet(Scope) : ~v.static /\ v.loc = i - 1).word]
  /\ bss = [x \in {v.name : v \in {u \in ToSet(Scope) : u.static}} |->
              (CHOOSE v \in ToSet(Scope) : v.static /\ v.name = x).word]
  /\ regs = [r \in Registers |-> Junk]
  /\ outcome = "running" /\ handed = <<>>
  /\ meaning = None(Env)

(* The next statement, when the one before had a meaning.                  *)
Begin ==
  /\ outcome = "running" /\ pc > Len(code) /\ at < Len(prog)
  /\ at > 0 => meaning.st = "value"
  /\ LET s == prog[at + 1]
         n == OnStack(vars)
     IN  /\ vars' = Declared(vars, s, n)
         /\ code' = GenStmt(s, vars', n)
         /\ meaning' = Meaning(s, Env, vars)
  /\ at' = at + 1 /\ pc' = 1 /\ handed' = <<>>
  /\ UNCHANGED <<prog, stack, bss, regs, outcome>>

Running == outcome = "running" /\ pc \in DOMAIN code
instr == code[pc]

Advance == pc' = pc + 1 /\ UNCHANGED <<statement, outcome, handed>>

PushWord ==
  /\ Running /\ instr.op \in {"push", "pushvar", "pushzero"}
  /\ stack' = Append(stack, CASE instr.op = "push" -> regs[instr.reg]
                              [] instr.op = "pushvar" -> Read(instr.loc)
                              [] instr.op = "pushzero" -> Zero(instr.kind))
  /\ Advance /\ UNCHANGED <<bss, regs>>

PopWord ==
  /\ Running /\ instr.op = "pop" /\ stack # <<>>
  /\ regs' = [regs EXCEPT ![instr.reg] = Last(stack)]
  /\ stack' = Front(stack)
  /\ Advance /\ UNCHANGED bss

(* The registers after an instruction on registers.  idiv leaves the       *)
(* remainder in rdx, a shift takes its count from rcx; a conversion to a   *)
(* string returns in rax also when its operand came from rbx.              *)
AsDbl(kind, w) == IF kind = "Float" THEN w ELSE ToDbl(w)

After(j, r) ==
  CASE j.op = "mov" -> [r EXCEPT ![j.reg] = j.word]
    [] j.op = "load" -> [r EXCEPT ![j.reg] = Read(j.loc)]
    [] j.op = "todbl" -> [r EXCEPT ![j.reg] = ToDbl(@)]
    [] j.op = "toint" -> [r EXCEPT ![j.reg] = ToInt(@)]
    [] j.op = "un" -> [r EXCEPT !["rax"] = UnOp(j.f, @)]
    [] j.op = "int" ->
         [r EXCEPT !["rax"] = IntOp(j.f, @, r["rbx"]),
                   !["rdx"] = IF j.f \in {"/", "%"} THEN Junk ELSE @,
                   !["rcx"] = IF j.f \in {"<<", ">>"} THEN r["rbx"] ELSE @]
    [] j.op = "sse" ->
         [r EXCEPT !["rax"] = DblOp(j.f, AsDbl(j.l, @), AsDbl(j.r, r["rbx"]))]
    [] j.op = "totext" ->
         [r EXCEPT !["rax"] = ToText(r[j.f]), ![j.f] = ToText(r[j.f]),
                   !["rdi"] = r[j.f]]
    [] j.op = "concat" ->
         [r EXCEPT !["rax"] = Concat(@, r["rbx"]), !["rdi"] = r["rax"],
                   !["rsi"] = r["rbx"]]

OnRegisters ==
  {"mov", "load", "todbl", "toint", "un", "int", "sse", "totext", "concat"}

(* Whether a division traps is up to the bits when they are no integers.   *)
Divides == instr.op = "int" /\ instr.f \in {"/", "%"}
MayTrap == Divides /\ (IntTraps(instr.f, regs["rax"], regs["rbx"])
                        \/ ~Both("int", regs["rax"], regs["rbx"]))
MustTrap == Divides /\ IntTraps(instr.f, regs["rax"], regs["rbx"])

Compute ==
  /\ Running /\ instr.op \in OnRegisters /\ ~MustTrap
  /\ regs' = After(instr, regs)
  /\ Advance /\ UNCHANGED <<stack, bss>>

Trap ==
  /\ Running /\ MayTrap
  /\ outcome' = "trapped"
  /\ UNCHANGED <<statement, pc, stack, bss, regs, handed>>

StoreWord ==
  /\ Running /\ instr.op \in {"store", "bump"}
  /\ Write(instr.loc, IF instr.op = "store" THEN regs["rax"]
                  ELSE IntOp("+", Read(instr.loc), IntWord(instr.by)))
  /\ Advance /\ UNCHANGED regs

(* test rax, rax and jz or jnz; which way it goes is up to the bits when   *)
(* rax is no integer.                                                      *)
JumpIf(b) == pc' = pc + 1 + (IF b THEN instr.skip ELSE 0)

Branch ==
  /\ Running
  /\ \/ instr.op = "jmp" /\ JumpIf(TRUE)
     \/ instr.op = "test" /\ regs["rax"].rep = "int"
        /\ JumpIf(instr.zero = (regs["rax"].num = 0))
     \/ instr.op = "test" /\ regs["rax"].rep # "int"
        /\ \E b \in BOOLEAN : JumpIf(b)
  /\ UNCHANGED <<statement, stack, bss, regs, outcome, handed>>

(* A call: the callee may leave anything in the registers but its result.  *)
CallFunction ==
  /\ Running /\ instr.op = "call"
  /\ LET params == Sigs[instr.f].params
         args == [j \in DOMAIN params |-> regs[kArgRegs[j]]]
     IN  /\ regs' = [r \in Registers |-> IF r = "rax" THEN Apply(instr.f, args)
                                                      ELSE Junk]
         /\ handed' = handed \o [j \in DOMAIN params |->
                                   <<RepOf(params[j]), args[j]>>]
  /\ pc' = pc + 1
  /\ UNCHANGED <<statement, stack, bss, outcome>>

TakeResult ==
  /\ Running /\ instr.op = "take"
  /\ handed' = Append(handed, <<instr.rep, regs[instr.reg]>>)
  /\ outcome' = IF instr.leaves THEN "left" ELSE outcome
  /\ pc' = pc + 1
  /\ UNCHANGED <<statement, stack, bss, regs>>

Next ==
  \/ Begin \/ PushWord \/ PopWord \/ Compute \/ Trap \/ StoreWord \/ Branch
  \/ CallFunction \/ TakeResult

Spec == Init /\ [][Next]_allVars

-----------------------------------------------------------------------------
Done == at > 0 /\ outcome # "trapped" /\ pc > Len(code)

(* Every offset in the emitted code counts on a depth of the stack that    *)
(* was predicted while emitting: along every path through && and ||, after *)
(* calls and inside nested operands, it is the depth there is.             *)
DepthIsPredicted ==
  /\ Running => Len(stack) = instr.size
  /\ Done => Len(stack) = OnStack(vars)

(* A statement that has a meaning does what it means: it hands on that     *)
(* word, leaves the variables with those values, also where ++ and -- are  *)
(* evaluated or skipped on the way, and traps exactly if it has to.        *)
ComputesTheMeaning ==
  /\ meaning.st = "value" =>
       /\ outcome # "trapped"
       /\ Done => /\ Env = meaning.env
                  /\ prog[at].k \notin {"assign", "decl"} =>
                       Last(handed)[2] = meaning.v
  /\ meaning.st = "trap" => ~Done

(* As long as a statement has a meaning, every function, print routine and *)
(* caller gets a word of the representation its code was emitted for, and  *)
(* every variable keeps one of its declared kind's: the kinds inferred     *)
(* while emitting are those of the words at run time.                      *)
KindsAreRight ==
  meaning.st # "none" =>
    /\ \A j \in DOMAIN handed : handed[j][2].rep = handed[j][1]
    /\ Done => \A x \in DOMAIN Env :
                 Env[x].rep \in {RepOf(Lookup(vars, x).kind), "junk"}

(* The two inferences agree where sema's rule on + relies on it: in what   *)
(* sema accepts, no operand of a string + is left to be converted, which   *)
(* is where the emitted code would lose the left operand in rax.  The      *)
(* comments at CodeGeneratorExpr.cpp:210-215 and CodeGeneratorKinds.cpp:   *)
(* 100-103 say otherwise, that characters, integers and booleans do reach  *)
(* the conversions: sema (SemanticAnalyzer.cpp:170-180) rejects them too.  *)
(* A declaration whose initialiser names what it hides is the exception:   *)
(* there the generator infers from another variable than sema.             *)
NoMixedConcat ==
  at > 0 /\ ~NamesItself(prog[at]) =>
    \A j \in DOMAIN code : code[j].op # "totext"
=============================================================================
