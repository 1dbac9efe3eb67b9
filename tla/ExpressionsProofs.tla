-------------------------- MODULE ExpressionsProofs --------------------------
(***************************************************************************)
(* Proofs about the code of expressions and simple statements, for every   *)
(* program, scope and function.                                            *)
(*                                                                         *)
(* What the code generator does by recursion on an expression is shown by  *)
(* induction on its height: first that its definitions define functions,   *)
(* then, of the code, that every path through it takes the stack from the  *)
(* depth it is told to the one it promises (Segment).                      *)
(***************************************************************************)
EXTENDS Expressions, Induction, FiniteSetTheorems, SequenceTheorems, TLAPS

-----------------------------------------------------------------------------
(* Expressions.                                                            *)

(* The operands of an expression are expressions, and lower.               *)
LEMMA OperandsSmaller ==
  ASSUME NEW e \in Exprs
  PROVE  /\ e.k \in {"lit", "var", "call", "un", "bump", "bin"}
         /\ Height(e) \in Nat
         /\ \A o \in Operands(e) : o \in Exprs /\ Height(o) \in Nat
                                   /\ Height(o) < Height(e)
         /\ e.k = "un" => e.e \in Operands(e)
         /\ e.k = "bin" => e.l \in Operands(e) /\ e.r \in Operands(e)
         /\ e.k = "call" => /\ e.args \in Seq(Exprs)
                            /\ \A i \in 1..Len(e.args) : e.args[i] \in Operands(e)
<1>1. \A o \in Operands(e) : o \in Exprs /\ Height(o) \in Nat
                             /\ Height(o) < Height(e)
  BY ExprsAssumption
<1>2. e.k = "un" => e.e \in Operands(e)
  BY DEF Operands
<1>3. e.k = "bin" => e.l \in Operands(e) /\ e.r \in Operands(e)
  BY DEF Operands
<1>4. ASSUME e.k = "call"
      PROVE  /\ e.args \in Seq(Exprs)
             /\ \A i \in 1..Len(e.args) : e.args[i] \in Operands(e)
  <2>1. e.args \in Seq(Exprs) /\ DOMAIN e.args = 1..Len(e.args)
    BY <1>4, ExprsAssumption
  <2>2. Operands(e) = {e.args[i] : i \in DOMAIN e.args}
    BY <1>4 DEF Operands
  <2> QED  BY <2>1, <2>2
<1> QED  BY <1>1, <1>2, <1>3, <1>4, ExprsAssumption

(* Expressions by their height.                                            *)
HeightOf == [e \in Exprs |-> Height(e)]

(* It is a measure.                                                        *)
LEMMA HeightTyped == HeightOf \in [Exprs -> Nat]
BY ExprsAssumption DEF HeightOf

(* Induction on expressions.                                               *)
LEMMA OnOperands ==
  ASSUME NEW P,
         \A e \in Exprs : (\A o \in Operands(e) : o \in P) => e \in P
  PROVE  Exprs \subseteq P
<1>1. ASSUME NEW e \in Exprs,
             \A o \in Exprs : HeightOf[o] < HeightOf[e] => o \in P
      PROVE  e \in P
  <2>1. ASSUME NEW o \in Operands(e) PROVE o \in P
    <3>1. o \in Exprs /\ Height(o) < Height(e)
      BY OperandsSmaller
    <3> QED  BY <1>1, <3>1 DEF HeightOf
  <2> QED  BY <2>1
<1> QED  BY <1>1, HeightTyped, MeasureInduction

(* A recursive definition on expressions has a solution.                   *)
LooksAtOperands(S, step) ==
  /\ S # {} /\ step \in [Exprs -> [[Exprs -> S] -> S]]
  /\ \A e \in Exprs : \A f, g \in [Exprs -> S] :
       (\A o \in Operands(e) : f[o] = g[o]) => step[e][f] = step[e][g]

(* A definition by recursion on the operands defines a function.           *)
LEMMA OnOperandsDefines ==
  ASSUME NEW S, NEW step, LooksAtOperands(S, step)
  PROVE  \E f \in [Exprs -> S] : \A e \in Exprs : f[e] = step[e][f]
<1>1. ASSUME NEW e \in Exprs, NEW f \in [Exprs -> S], NEW g \in [Exprs -> S],
             \A o \in Exprs : HeightOf[o] < HeightOf[e] => f[o] = g[o]
      PROVE  step[e][f] = step[e][g]
  <2>1. ASSUME NEW o \in Operands(e) PROVE f[o] = g[o]
    <3>1. o \in Exprs /\ Height(o) < Height(e)
      BY OperandsSmaller
    <3> QED  BY <1>1, <3>1 DEF HeightOf
  <2> QED  BY <2>1 DEF LooksAtOperands
<1>2. LooksBelow(Exprs, S, HeightOf, step)
  BY <1>1, HeightTyped DEF LooksBelow, LooksAtOperands
<1>3. PICK D, size : D = Exprs /\ size = HeightOf
  OBVIOUS
<1>4. LooksBelow(D, S, size, step)
  BY <1>2, <1>3
<1>5. \E f \in [D -> S] : \A d \in D : f[d] = step[d][f]
  BY <1>4, RecursionOnMeasure
<1> QED  BY <1>3, <1>5

-----------------------------------------------------------------------------
(* The kinds.                                                              *)

(* inferKind() as a function of the kinds of the operands.                 *)
KindsGiven(vs) == {NameKind(e, vs) : e \in Exprs} \cup Kind

GenKindOf(x, vs, kind) ==
  CASE x.k = "un" -> IF x.op \in {"-", "+"} THEN kind[x.e] ELSE "Int"
    [] x.k = "bin" -> GenBinKind(x.op, kind[x.l], kind[x.r])
    [] OTHER -> NameKind(x, vs)

(* GenKind obeys its definition.                                           *)
LEMMA GenKindEquation ==
  ASSUME NEW vs, NEW e \in Exprs
  PROVE  GenKind(e, vs) =
           CASE e.k = "un" ->
                  IF e.op \in {"-", "+"} THEN GenKind(e.e, vs) ELSE "Int"
             [] e.k = "bin" ->
                  GenBinKind(e.op, GenKind(e.l, vs), GenKind(e.r, vs))
             [] OTHER -> NameKind(e, vs)
<1> DEFINE S == KindsGiven(vs)
           step == [x \in Exprs |-> [h \in [Exprs -> S] |-> GenKindOf(x, vs, h)]]
           kind == CHOOSE f : f = [x \in Exprs |->
                     CASE x.k = "un" -> IF x.op \in {"-", "+"} THEN f[x.e] ELSE "Int"
                       [] x.k = "bin" -> GenBinKind(x.op, f[x.l], f[x.r])
                       [] OTHER -> NameKind(x, vs)]
<1>1. S # {}
  BY DEF KindsGiven, Kind
<1>2. ASSUME NEW x \in Exprs, NEW h \in [Exprs -> S]
      PROVE  GenKindOf(x, vs, h) \in S
  <2>1. \A o \in Operands(x) : h[o] \in S
    BY OperandsSmaller
  <2>2. CASE x.k = "un"
    BY <2>1, <2>2, OperandsSmaller DEF GenKindOf, KindsGiven, Kind
  <2>3. CASE x.k = "bin"
    BY <2>3 DEF GenKindOf, KindsGiven, Kind, GenBinKind
  <2>4. CASE x.k \notin {"un", "bin"}
    BY <2>4 DEF GenKindOf, KindsGiven
  <2> QED  BY <2>2, <2>3, <2>4
<1>3. step \in [Exprs -> [[Exprs -> S] -> S]]
  <2> HIDE DEF S
  <2> QED  BY <1>2
<1>4. ASSUME NEW x \in Exprs, NEW f \in [Exprs -> S], NEW g \in [Exprs -> S],
             \A o \in Operands(x) : f[o] = g[o]
      PROVE  step[x][f] = step[x][g]
  <2>1. GenKindOf(x, vs, f) = GenKindOf(x, vs, g)
    BY <1>4, OperandsSmaller DEF GenKindOf
  <2> QED  BY <2>1
<1> HIDE DEF S, step
<1>5. PICK f \in [Exprs -> S] : \A x \in Exprs : f[x] = step[x][f]
  <2>1. LooksAtOperands(S, step)
    BY <1>1, <1>3, <1>4 DEF LooksAtOperands
  <2> QED  BY <2>1, OnOperandsDefines
<1>6. f = [x \in Exprs |->
             CASE x.k = "un" -> IF x.op \in {"-", "+"} THEN f[x.e] ELSE "Int"
               [] x.k = "bin" -> GenBinKind(x.op, f[x.l], f[x.r])
               [] OTHER -> NameKind(x, vs)]
  <2>1. \A x \in Exprs : f[x] = GenKindOf(x, vs, f)
    BY <1>5 DEF step
  <2> QED  BY <2>1 DEF GenKindOf
<1>7. kind = [x \in Exprs |->
                CASE x.k = "un" -> IF x.op \in {"-", "+"} THEN kind[x.e] ELSE "Int"
                  [] x.k = "bin" -> GenBinKind(x.op, kind[x.l], kind[x.r])
                  [] OTHER -> NameKind(x, vs)]
  BY <1>6
<1> HIDE DEF kind
<1>8. \A x : GenKind(x, vs) = kind[x]
  BY DEF GenKind, kind
<1> QED  BY <1>7, <1>8

-----------------------------------------------------------------------------
(* Sequences of sequences, one after the other.                            *)

(* The sequences put together one after another.                           *)
Joins(I, ss, f) ==
  /\ f \in [1..Len(ss) -> Seq(I)] /\ FlattenSeq(ss) = f[Len(ss)]
  /\ \A i \in 1..Len(ss) : f[i] = IF i = 1 THEN ss[i] ELSE f[i - 1] \o ss[i]

(* Flattening puts them together.                                          *)
LEMMA FlattenTyped ==
  ASSUME NEW I, NEW ss \in Seq(Seq(I))
  PROVE  /\ FlattenSeq(ss) \in Seq(I)
         /\ Len(ss) > 0 => \E f : Joins(I, ss, f)
<1>1. CASE Len(ss) = 0
  <2>1. ss = <<>>
    BY <1>1
  <2>2. FlattenSeq(ss) = <<>>
    BY <2>1, <1>1 DEF FlattenSeq
  <2>3. <<>> \in Seq(I)
    OBVIOUS
  <2> QED  BY <1>1, <2>2, <2>3
<1>2. CASE Len(ss) # 0
  <2> DEFINE D == 1..Len(ss)
             S == Seq(I)
             body(i, h) == IF i = 1 THEN ss[i] ELSE h[i - 1] \o ss[i]
             step == [i \in D |-> [h \in [D -> S] |-> body(i, h)]]
             size == [i \in D |-> i]
             flatten == CHOOSE f : f = [i \in 1..Len(ss) |->
                          IF i = 1 THEN ss[i] ELSE f[i - 1] \o ss[i]]
  <2>1. \A i \in D : i \in Nat /\ ss[i] \in S /\ (i # 1 => i - 1 \in D /\ i - 1 < i)
    OBVIOUS
  <2>2. ASSUME NEW i \in D, NEW h \in [D -> S] PROVE body(i, h) \in S
    <3>1. CASE i = 1
      BY <2>1, <3>1
    <3>2. CASE i # 1
      <4>1. h[i - 1] \in Seq(I) /\ ss[i] \in Seq(I)
        BY <2>1, <3>2
      <4> QED  BY <3>2, <4>1
    <3> QED  BY <3>1, <3>2
  <2>3. step \in [D -> [[D -> S] -> S]]
    <3> HIDE DEF body, S, D
    <3> QED  BY <2>2
  <2>4. size \in [D -> Nat] /\ S # {}
    OBVIOUS
  <2>5. ASSUME NEW i \in D, NEW f \in [D -> S], NEW g \in [D -> S],
               \A j \in D : size[j] < size[i] => f[j] = g[j]
        PROVE  step[i][f] = step[i][g]
    <3>1. i # 1 => f[i - 1] = g[i - 1]
      BY <2>1, <2>5
    <3>2. body(i, f) = body(i, g)
      BY <3>1
    <3> HIDE DEF body, S, D
    <3> QED  BY <3>2
  <2>6. LooksBelow(D, S, size, step)
    <3> HIDE DEF S, D, size, step
    <3> QED  BY <2>3, <2>4, <2>5 DEF LooksBelow
  <2>7. PICK f \in [D -> S] : \A i \in D : f[i] = step[i][f]
    <3> HIDE DEF S, D, size, step
    <3>1. PICK DD, SS, size2, step2 :
             DD = D /\ SS = S /\ size2 = size /\ step2 = step
      OBVIOUS
    <3>2. LooksBelow(DD, SS, size2, step2)
      BY <2>6, <3>1
    <3>3. \E f \in [DD -> SS] : \A i \in DD : f[i] = step2[i][f]
      BY <3>2, RecursionOnMeasure
    <3> QED  BY <3>1, <3>3
  <2>8. \A i \in D : f[i] = body(i, f)
    <3> HIDE DEF S, D, body
    <3> QED  BY <2>7
  <2>9. f = [i \in 1..Len(ss) |-> IF i = 1 THEN ss[i] ELSE f[i - 1] \o ss[i]]
    BY <2>8
  <2>10. flatten = [i \in 1..Len(ss) |->
                      IF i = 1 THEN ss[i] ELSE flatten[i - 1] \o ss[i]]
    BY <2>9
  <2>11. FlattenSeq(ss) = flatten[Len(ss)]
    BY <1>2 DEF FlattenSeq
  <2> HIDE DEF flatten
  <2> DEFINE P == {i \in D : flatten[i] \in S}
  <2>12. ASSUME NEW i \in D, \A j \in D : size[j] < size[i] => j \in P
         PROVE  i \in P
    <3>1. i # 1 => i - 1 \in P
      BY <2>1, <2>12
    <3>2. i = 1 => flatten[i] = ss[i]
      BY <2>10
    <3>3. i # 1 => flatten[i] = flatten[i - 1] \o ss[i]
      BY <2>10
    <3>4. CASE i = 1
      BY <2>1, <3>2, <3>4
    <3>5. CASE i # 1
      <4>1. PICK a, b : a = flatten[i - 1] /\ b = ss[i]
        OBVIOUS
      <4>2. a \in Seq(I) /\ b \in Seq(I)
        BY <2>1, <3>1, <3>5, <4>1
      <4>3. a \o b \in Seq(I)
        BY <4>2
      <4> QED  BY <3>3, <3>5, <4>1, <4>3
    <3> QED  BY <3>4, <3>5
  <2>13. D \subseteq P
    <3> HIDE DEF P, D, S, size
    <3> QED  BY <2>4, <2>12, MeasureInduction
  <2>14. flatten \in [1..Len(ss) -> Seq(I)]
    BY <2>10, <2>13
  <2>15. Len(ss) \in 1..Len(ss)
    BY <1>2
  <2>16. FlattenSeq(ss) \in Seq(I)
    BY <2>11, <2>14, <2>15
  <2>17. \A i \in 1..Len(ss) :
           flatten[i] = IF i = 1 THEN ss[i] ELSE flatten[i - 1] \o ss[i]
    BY <2>10
  <2> HIDE DEF D, S
  <2> QED  BY <2>11, <2>14, <2>16, <2>17 DEF Joins
<1> QED  BY <1>1, <1>2

(* Nothing put together is nothing.                                        *)
LEMMA FlattenEmpty == FlattenSeq(<<>>) = <<>>
BY DEF FlattenSeq

(* One more sequence is put at the end.                                    *)
LEMMA FlattenAppend ==
  ASSUME NEW I, NEW ss \in Seq(Seq(I)), NEW s \in Seq(I)
  PROVE  FlattenSeq(Append(ss, s)) = FlattenSeq(ss) \o s
<1> DEFINE tt == Append(ss, s)
<1>0. PICK n \in Nat : n = Len(ss)
  OBVIOUS
<1>1. n = Len(ss) /\ tt \in Seq(Seq(I)) /\ Len(tt) = n + 1 /\ tt[n + 1] = s
      /\ \A i \in 1..n : tt[i] = ss[i]
  BY <1>0
<1> HIDE DEF tt
<1>2. PICK g : Joins(I, tt, g)
  <2>1. PICK l \in Nat : l = Len(tt)
    BY <1>1
  <2>2. l > 0
    BY <1>1, <2>1
  <2> QED  BY <1>1, <2>1, <2>2, FlattenTyped
<1>5. /\ FlattenSeq(tt) = g[n + 1] /\ g \in [1..(n + 1) -> Seq(I)]
      /\ g[1] = tt[1]
      /\ \A i \in 1..n : g[i + 1] = g[i] \o tt[i + 1]
  <2>1. \A i \in 1..(n + 1) : g[i] = IF i = 1 THEN tt[i] ELSE g[i - 1] \o tt[i]
    BY <1>1, <1>2 DEF Joins
  <2>2. ASSUME NEW i \in 1..n PROVE g[i + 1] = g[i] \o tt[i + 1]
    <3>1. i + 1 \in 1..(n + 1) /\ i + 1 # 1 /\ (i + 1) - 1 = i
      BY <1>1
    <3> QED  BY <2>1, <3>1
  <2>3. 1 \in 1..(n + 1)
    BY <1>1
  <2> QED  BY <1>1, <1>2, <2>1, <2>2, <2>3 DEF Joins
<1>3. CASE n = 0
  <2>1. ss = <<>> /\ FlattenSeq(ss) = <<>>
    <3>1. ss \in Seq(Seq(I)) /\ Len(ss) = 0
      BY <1>0, <1>3
    <3>2. ss = <<>>
      BY <3>1
    <3> QED  BY <3>2, FlattenEmpty
  <2>2. FlattenSeq(tt) = s
    BY <1>1, <1>5, <1>3
  <2> QED  BY <2>1, <2>2 DEF tt
<1>4. CASE n # 0
  <2>1. PICK f : Joins(I, ss, f)
    <3>1. Len(ss) > 0
      BY <1>1, <1>4
    <3> QED  BY <3>1, FlattenTyped
  <2>2. /\ FlattenSeq(ss) = f[n] /\ f[1] = ss[1]
        /\ \A i \in 1..(n - 1) : f[i + 1] = f[i] \o ss[i + 1]
    <3>1. \A i \in 1..n : f[i] = IF i = 1 THEN ss[i] ELSE f[i - 1] \o ss[i]
      BY <1>1, <2>1 DEF Joins
    <3>2. ASSUME NEW i \in 1..(n - 1) PROVE f[i + 1] = f[i] \o ss[i + 1]
      <4>1. i + 1 \in 1..n /\ i + 1 # 1 /\ (i + 1) - 1 = i
        BY <1>1
      <4> QED  BY <3>1, <4>1
    <3>3. 1 \in 1..n
      BY <1>1, <1>4
    <3> QED  BY <1>1, <2>1, <3>1, <3>2, <3>3 DEF Joins
  <2> DEFINE P == {i \in Nat : i + 1 <= n => f[i + 1] = g[i + 1]}
  <2>3. 0 \in P
    BY <1>1, <1>4, <1>5, <2>2
  <2>4. ASSUME NEW i \in Nat, i \in P PROVE i + 1 \in P
    <3> SUFFICES ASSUME (i + 1) + 1 <= n
                 PROVE  f[(i + 1) + 1] = g[(i + 1) + 1]
      OBVIOUS
    <3>1. f[i + 1] = g[i + 1]
      BY <2>4, <1>1
    <3>2. PICK j \in 1..(n - 1) : j = i + 1
      <4>1. i + 1 \in 1..(n - 1)
        OBVIOUS
      <4> QED  BY <4>1
    <3>3. f[j + 1] = f[j] \o ss[j + 1]
      BY <2>2
    <3>4. g[j + 1] = g[j] \o tt[j + 1]
      <4>1. j \in 1..n
        BY <3>2
      <4> QED  BY <1>5, <4>1
    <3>5. tt[j + 1] = ss[j + 1]
      BY <1>1
    <3> QED  BY <3>1, <3>2, <3>3, <3>4, <3>5
  <2>5. Nat \subseteq P
    <3> HIDE DEF P
    <3> QED  BY <2>3, <2>4, InductionOnNat
  <2>6. f[n] = g[n]
    <3>1. n - 1 \in Nat /\ (n - 1) + 1 = n
      BY <1>4
    <3>2. n - 1 \in P
      BY <2>5, <3>1
    <3> QED  BY <3>1, <3>2
  <2>7. g[n + 1] = g[n] \o tt[n + 1]
    <3>1. n \in 1..n
      BY <1>4
    <3> QED  BY <1>5, <3>1
  <2> QED  BY <1>1, <1>5, <2>2, <2>6, <2>7 DEF tt
<1> QED  BY <1>1, <1>3, <1>4

-----------------------------------------------------------------------------
(* The code of an expression.                                              *)

(* What the instructions of the expressions are about.                     *)
Data(vs) ==
  {e.word : e \in Exprs} \cup {e.by : e \in Exprs} \cup {e.op : e \in Exprs}
  \cup {e.f : e \in Exprs} \cup {GenKind(e, vs) : e \in Exprs}
  \cup {Place(Lookup(vs, d[1].x), d[2]) : d \in Exprs \X Nat}
  \cup {Truth(b) : b \in BOOLEAN} \cup {"btc", "rax", "rbx"}

(* The instructions the generator emits.                                   *)
Opcodes ==
  {"push", "pop", "todbl", "toint", "mov", "pushvar", "bump", "un", "int",
   "totext", "concat", "sse", "call", "jmp", "test"}

Regs == Registers \cup {kArgRegs[i] : i \in Nat}

Instructions(vs) ==
  [op: Opcodes, size: Int, reg: Regs]
  \cup [op: Opcodes, size: Int, reg: Regs, word: Data(vs)]
  \cup [op: Opcodes, size: Int, loc: Data(vs)]
  \cup [op: Opcodes, size: Int, loc: Data(vs), by: Data(vs)]
  \cup [op: Opcodes, size: Int, f: Data(vs)]
  \cup [op: Opcodes, size: Int, f: Data(vs), l: Data(vs), r: Data(vs)]
  \cup [op: Opcodes, size: Int, zero: BOOLEAN, skip: Int]
  \cup [op: Opcodes, size: Int, skip: Int]

(* Each emitter emits such instructions.                                   *)
LEMMA InstructionsTyped ==
  ASSUME NEW vs, NEW n \in Int
  PROVE  LET I == Instructions(vs)
             D == Data(vs)
         IN  /\ \A r \in Regs : Push(n, r) \in Seq(I) /\ Pop(n, r) \in Seq(I)
             /\ \A r \in Regs, w \in D : Mov(n, r, w) \in Seq(I)
             /\ \A loc \in D : PushVar(n, loc) \in Seq(I)
             /\ \A loc \in D, by \in D : Bump(n, loc, by) \in Seq(I)
             /\ \A op \in Opcodes, f \in D : Arith(n, op, f) \in Seq(I)
             /\ \A f \in D, l \in D, r \in D :
                  <<[op |-> "sse", size |-> n, f |-> f, l |-> l, r |-> r]>> \in Seq(I)
             /\ \A f \in D : <<[op |-> "call", size |-> n, f |-> f]>> \in Seq(I)
             /\ \A zero \in BOOLEAN, skip \in Int : Test(n, zero, skip) \in Seq(I)
             /\ \A skip \in Int : Jmp(n, skip) \in Seq(I)
             /\ \A r \in Regs : \A from, to : Convert(n, r, from, to) \in Seq(I)
             /\ <<>> \in Seq(I)
<1> DEFINE I == Instructions(vs)
           D == Data(vs)
<1> HIDE DEF D
<1>1. ASSUME NEW r \in Regs, NEW op \in {"push", "pop", "todbl", "toint"}
      PROVE  [op |-> op, size |-> n, reg |-> r] \in I
  <2>1. [op |-> op, size |-> n, reg |-> r] \in [op: Opcodes, size: Int, reg: Regs]
    BY DEF Opcodes
  <2> QED  BY <2>1 DEF Instructions
<1>2. ASSUME NEW r \in Regs, NEW w \in D
      PROVE  [op |-> "mov", size |-> n, reg |-> r, word |-> w] \in I
  <2>1. [op |-> "mov", size |-> n, reg |-> r, word |-> w]
           \in [op: Opcodes, size: Int, reg: Regs, word: D]
    BY DEF Opcodes
  <2> QED  BY <2>1 DEF Instructions, D
<1>3. ASSUME NEW loc \in D, NEW by \in D
      PROVE  /\ [op |-> "pushvar", size |-> n, loc |-> loc] \in I
             /\ [op |-> "bump", size |-> n, loc |-> loc, by |-> by] \in I
  <2>1. [op |-> "pushvar", size |-> n, loc |-> loc]
           \in [op: Opcodes, size: Int, loc: D]
    BY DEF Opcodes
  <2>2. [op |-> "bump", size |-> n, loc |-> loc, by |-> by]
           \in [op: Opcodes, size: Int, loc: D, by: D]
    BY DEF Opcodes
  <2> QED  BY <2>1, <2>2 DEF Instructions, D
<1>4. ASSUME NEW f \in D, NEW op \in Opcodes
      PROVE  [op |-> op, size |-> n, f |-> f] \in I
  <2>1. [op |-> op, size |-> n, f |-> f] \in [op: Opcodes, size: Int, f: D]
    BY DEF Opcodes
  <2> QED  BY <2>1 DEF Instructions, D
<1>15. ASSUME NEW f \in D, NEW l \in D, NEW r \in D
      PROVE  [op |-> "sse", size |-> n, f |-> f, l |-> l, r |-> r] \in I
  <2>1. [op |-> "sse", size |-> n, f |-> f, l |-> l, r |-> r]
           \in [op: Opcodes, size: Int, f: D, l: D, r: D]
    BY DEF Opcodes
  <2> QED  BY <2>1 DEF Instructions, D
<1>16. ASSUME NEW skip \in Int, NEW zero \in BOOLEAN
      PROVE  /\ [op |-> "jmp", size |-> n, skip |-> skip] \in I
             /\ [op |-> "test", size |-> n, zero |-> zero, skip |-> skip] \in I
  <2>1. [op |-> "jmp", size |-> n, skip |-> skip]
           \in [op: Opcodes, size: Int, skip: Int]
    BY DEF Opcodes
  <2>2. [op |-> "test", size |-> n, zero |-> zero, skip |-> skip]
           \in [op: Opcodes, size: Int, zero: BOOLEAN, skip: Int]
    BY DEF Opcodes
  <2> QED  BY <2>1, <2>2 DEF Instructions
<1> HIDE DEF I
<1>5. \A x \in I : <<x>> \in Seq(I)
  OBVIOUS
<1>6. <<>> \in Seq(I)
  OBVIOUS
<1>7. \A r \in Regs : Push(n, r) \in Seq(I) /\ Pop(n, r) \in Seq(I)
  BY <1>1, <1>5 DEF Push, Pop
<1>8. \A r \in Regs, w \in D : Mov(n, r, w) \in Seq(I)
  BY <1>2, <1>5 DEF Mov
<1>9. /\ \A loc \in D : PushVar(n, loc) \in Seq(I)
      /\ \A loc \in D, by \in D : Bump(n, loc, by) \in Seq(I)
  BY <1>3, <1>5 DEF PushVar, Bump
<1>10. \A op \in Opcodes, f \in D : Arith(n, op, f) \in Seq(I)
  BY <1>4, <1>5 DEF Arith
<1>11. \A f \in D, l \in D, r \in D :
         <<[op |-> "sse", size |-> n, f |-> f, l |-> l, r |-> r]>> \in Seq(I)
  BY <1>15, <1>5
<1>12. \A f \in D : <<[op |-> "call", size |-> n, f |-> f]>> \in Seq(I)
  BY <1>4, <1>5 DEF Opcodes
<1>13. /\ \A zero \in BOOLEAN, skip \in Int : Test(n, zero, skip) \in Seq(I)
       /\ \A skip \in Int : Jmp(n, skip) \in Seq(I)
  BY <1>16, <1>5 DEF Test, Jmp
<1>14. \A r \in Regs : \A from, to : Convert(n, r, from, to) \in Seq(I)
  BY <1>1, <1>5, <1>6 DEF Convert
<1> QED
  BY <1>6, <1>7, <1>8, <1>9, <1>10, <1>11, <1>12, <1>13, <1>14, Zenon DEF I, D

(* So do emitters one after another.                                       *)
LEMMA ConcatTyped ==
  ASSUME NEW I, NEW a \in Seq(I), NEW b \in Seq(I)
  PROVE  a \o b \in Seq(I)
OBVIOUS

(* Three of them,                                                          *)
LEMMA ConcatTyped3 ==
  ASSUME NEW I, NEW a \in Seq(I), NEW b \in Seq(I), NEW c \in Seq(I)
  PROVE  a \o b \o c \in Seq(I)
BY ConcatTyped, Zenon

(* four,                                                                   *)
LEMMA ConcatTyped4 ==
  ASSUME NEW I, NEW a \in Seq(I), NEW b \in Seq(I), NEW c \in Seq(I),
         NEW d \in Seq(I)
  PROVE  a \o b \o c \o d \in Seq(I)
BY ConcatTyped, ConcatTyped3, Zenon

(* and six.                                                                *)
LEMMA ConcatTyped6 ==
  ASSUME NEW I, NEW a \in Seq(I), NEW b \in Seq(I), NEW c \in Seq(I),
         NEW d \in Seq(I), NEW e \in Seq(I), NEW f \in Seq(I)
  PROVE  a \o b \o c \o d \o e \o f \in Seq(I)
BY ConcatTyped, ConcatTyped4, Zenon

(* genExpr() as a function of the code of the operands.                    *)
GenOf(x, vs, m, gen) ==
  CASE x.k = "un" -> GenUnary(x, vs, m, gen)
    [] x.k = "bump" -> GenIncDec(x, vs, m)
    [] x.k = "bin" -> GenBin(x, vs, m, gen)
    [] OTHER -> GenTerm(x, vs, m, gen)

Codes(vs) == Seq(Instructions(vs))

(* The code is a function of the operands' code, for any depth.            *)
LEMMA GenLooksAtOperands ==
  ASSUME NEW vs, NEW e \in Exprs, NEW n \in Nat, NEW f, NEW g,
         \A o \in Operands(e), u \in Nat : f[o][u] = g[o][u]
  PROVE  GenOf(e, vs, n, f) = GenOf(e, vs, n, g)
<1>1. CASE e.k = "un"
  <2>1. f[e.e][n] = g[e.e][n]
    BY <1>1, OperandsSmaller
  <2>2. GenUnary(e, vs, n, f) = GenUnary(e, vs, n, g)
    BY <2>1, Zenon DEF GenUnary
  <2> QED  BY <1>1, <2>2 DEF GenOf
<1>2. CASE e.k = "bin"
  <2>1. /\ f[e.r][n] = g[e.r][n] /\ f[e.l][n] = g[e.l][n]
        /\ f[e.l][n + 1] = g[e.l][n + 1]
    <3>1. n + 1 \in Nat
      OBVIOUS
    <3> QED  BY <1>2, <3>1, OperandsSmaller
  <2>2. GenBin(e, vs, n, f) = GenBin(e, vs, n, g)
    BY <2>1, Zenon DEF GenBin
  <2> QED  BY <1>2, <2>2 DEF GenOf
<1>3. CASE e.k = "call"
  <2>1. ASSUME NEW i \in 1..Len(e.args)
        PROVE  f[e.args[i]][n + i - 1] = g[e.args[i]][n + i - 1]
    <3>1. e.args[i] \in Operands(e) /\ n + i - 1 \in Nat
      BY <1>3, OperandsSmaller
    <3> QED  BY <3>1
  <2>2. [i \in 1..Len(e.args) |-> f[e.args[i]][n + i - 1]]
          = [i \in 1..Len(e.args) |-> g[e.args[i]][n + i - 1]]
    BY <2>1, Zenon
  <2>3. GenCall(e, vs, n, f) = GenCall(e, vs, n, g)
    BY <2>2, Zenon DEF GenCall
  <2> QED  BY <1>3, <2>3 DEF GenOf, GenTerm
<1>4. CASE e.k \in {"lit", "var", "bump"}
  BY <1>4 DEF GenOf, GenTerm
<1> QED  BY <1>1, <1>2, <1>3, <1>4, OperandsSmaller

(* The registers the code names are registers.                             *)
LEMMA RegisterNames ==
  /\ {"rax", "rbx", "rdi"} \subseteq Regs
  /\ \A i \in Nat : kArgRegs[i] \in Regs
BY DEF Regs, Registers, kArgRegs

(* What an expression names is data of the code.                           *)
LEMMA DataOf ==
  ASSUME NEW vs, NEW e \in Exprs
  PROVE  /\ e.word \in Data(vs) /\ e.by \in Data(vs) /\ e.op \in Data(vs)
         /\ e.f \in Data(vs) /\ GenKind(e, vs) \in Data(vs)
         /\ \A n \in Nat : Place(Lookup(vs, e.x), n) \in Data(vs)
         /\ \A b \in BOOLEAN : Truth(b) \in Data(vs)
         /\ {"btc", "rax", "rbx"} \subseteq Data(vs)
<1>1. ASSUME NEW n \in Nat
      PROVE  Place(Lookup(vs, e.x), n) \in Data(vs)
  <2>1. <<e, n>> \in Exprs \X Nat
    OBVIOUS
  <2> QED  BY <2>1 DEF Data
<1> QED  BY <1>1 DEF Data

(* The instructions of an operator.                                        *)
LEMMA OperateTyped ==
  ASSUME NEW vs, NEW n \in Nat, NEW op \in Data(vs), NEW lk \in Data(vs),
         NEW rk \in Data(vs), NEW r \in Exprs
  PROVE  Operate(op, lk, rk, n) \in Codes(vs)
<1> DEFINE I == Instructions(vs)
<1>1. /\ \A f \in Data(vs), o \in Opcodes : Arith(n, o, f) \in Seq(I)
      /\ <<>> \in Seq(I) /\ {"rax", "rbx"} \subseteq Data(vs)
      /\ {"int", "concat", "totext"} \subseteq Opcodes
      /\ <<[op |-> "sse", size |-> n, f |-> op, l |-> lk, r |-> rk]>> \in Seq(I)
  <2>1. n \in Int
    OBVIOUS
  <2>2. <<[op |-> "sse", size |-> n, f |-> op, l |-> lk, r |-> rk]>> \in Seq(I)
    BY <2>1, InstructionsTyped, Zenon
  <2>3. \A f \in Data(vs), o \in Opcodes : Arith(n, o, f) \in Seq(I)
    BY <2>1, InstructionsTyped, Zenon
  <2>4. <<>> \in Seq(I)
    OBVIOUS
  <2> HIDE DEF I
  <2> QED  BY <2>2, <2>3, <2>4, DataOf DEF Opcodes
<1> HIDE DEF I
<1>2. PICK a, b, c, d : /\ a = Arith(n, "totext", "rax") /\ b = Arith(n, "totext", "rbx")
                        /\ c = Arith(n, "concat", op) /\ d = Arith(n, "int", op)
  OBVIOUS
<1>3. a \in Seq(I) /\ b \in Seq(I) /\ c \in Seq(I) /\ d \in Seq(I)
  BY <1>1, <1>2
<1>4. PICK p, q : p = (IF lk # "Str" THEN a ELSE <<>>) /\ q = (IF rk # "Str" THEN b ELSE <<>>)
  OBVIOUS
<1>5. p \in Seq(I) /\ q \in Seq(I)
  BY <1>1, <1>3, <1>4
<1>6. p \o q \o c \in Seq(I)
  BY <1>3, <1>5, ConcatTyped3
<1>7. Operate(op, lk, rk, n) =
        IF op = "+" /\ Either("Str", lk, rk) THEN p \o q \o c
        ELSE IF op \in Arithmetic \cup Comparisons /\ Either("Float", lk, rk)
          THEN <<[op |-> "sse", size |-> n, f |-> op, l |-> lk, r |-> rk]>>
        ELSE d
  BY <1>2, <1>4, Zenon DEF Operate
<1> QED  BY <1>1, <1>3, <1>6, <1>7 DEF Codes, I

(* genExpr() emits instructions.                                           *)
LEMMA GenTyped ==
  ASSUME NEW vs, NEW e \in Exprs, NEW n \in Nat,
         NEW g \in [Exprs -> [Nat -> Codes(vs)]]
  PROVE  GenOf(e, vs, n, g) \in Codes(vs)
<1>1. PICK I : I = Instructions(vs)
  OBVIOUS
<1>2. \A o \in Operands(e), u \in Nat : g[o][u] \in Seq(I)
  BY <1>1, OperandsSmaller DEF Codes
<1>3. /\ n \in Int /\ n + 1 \in Int /\ n + 2 \in Int /\ n + 1 \in Nat
      /\ "rax" \in Regs /\ "rbx" \in Regs
  BY RegisterNames
<1>4. \A m \in Int : /\ Push(m, "rax") \in Seq(I) /\ Pop(m, "rax") \in Seq(I)
                     /\ Pop(m, "rbx") \in Seq(I)
  BY <1>1, <1>3, InstructionsTyped
<1>5. CASE e.k = "un"
  <2>1. PICK f : f = IF e.op = "-" /\ GenKind(e.e, vs) = "Float" THEN "btc" ELSE e.op
    OBVIOUS
  <2>2. f \in Data(vs) /\ "un" \in Opcodes
    BY <2>1, DataOf DEF Opcodes
  <2>3. PICK a, b, c, d : /\ a = g[e.e][n] /\ b = Pop(n + 1, "rax")
                          /\ c = Arith(n, "un", f) /\ d = Push(n, "rax")
    OBVIOUS
  <2>4. /\ a \in Seq(I) /\ b \in Seq(I) /\ c \in Seq(I) /\ d \in Seq(I)
    BY <1>1, <1>2, <1>3, <1>4, <1>5, <2>2, <2>3, OperandsSmaller, InstructionsTyped
  <2>5. GenUnary(e, vs, n, g) = a \o b \o c \o d
    BY <2>1, <2>3, Zenon DEF GenUnary
  <2> QED  BY <1>1, <1>5, <2>4, <2>5, ConcatTyped4 DEF GenOf, Codes
<1>6. CASE e.k = "bump"
  <2>1. PICK P, Q : P = Place(Lookup(vs, e.x), n) /\ Q = Place(Lookup(vs, e.x), n + 1)
    OBVIOUS
  <2>2. P \in Data(vs) /\ Q \in Data(vs) /\ e.by \in Data(vs)
    BY <1>3, <2>1, DataOf
  <2>3. PICK a, b, c : /\ a = PushVar(n, P) /\ b = Bump(n, P, e.by)
                       /\ c = Bump(n + 1, Q, e.by)
    OBVIOUS
  <2>4. a \in Seq(I) /\ b \in Seq(I) /\ c \in Seq(I)
    BY <1>1, <1>3, <2>2, <2>3, InstructionsTyped
  <2>5. GenIncDec(e, vs, n) = IF e.pre THEN b \o a ELSE a \o c
    BY <2>1, <2>3, Zenon DEF GenIncDec, PostLoc
  <2> QED  BY <1>1, <1>6, <2>4, <2>5, ConcatTyped DEF GenOf, Codes
<1>7. CASE e.k = "bin"
  <2>1. PICK x, y, z : x = g[e.l][n] /\ y = g[e.r][n] /\ z = g[e.l][n + 1]
    OBVIOUS
  <2>2. x \in Seq(I) /\ y \in Seq(I) /\ z \in Seq(I)
    BY <1>2, <1>3, <1>7, <2>1, OperandsSmaller
  <2>3. CASE e.op \in {"&&", "||"}
    <3>1. PICK b \in BOOLEAN, b2 \in BOOLEAN :
            b = (e.op = "&&") /\ b2 = (e.op = "||")
      OBVIOUS
    <3>2. PICK a, c, d, f, t, u, v :
            /\ a = Pop(n + 1, "rax") /\ c = Test(n, b, Len(y) + 4)
            /\ d = Test(n, b, 2) /\ f = Mov(n, "rax", Truth(b)) /\ t = Jmp(n, 1)
            /\ u = Mov(n, "rax", Truth(b2)) /\ v = Push(n, "rax")
      OBVIOUS
    <3>3. Len(y) + 4 \in Int
      BY <2>2
    <3>4. /\ a \in Seq(I) /\ c \in Seq(I) /\ d \in Seq(I) /\ f \in Seq(I)
          /\ t \in Seq(I) /\ u \in Seq(I) /\ v \in Seq(I)
      <4>1. Truth(b) \in Data(vs) /\ Truth(b2) \in Data(vs)
        BY DataOf
      <4>2. /\ c \in Seq(I) /\ d \in Seq(I) /\ t \in Seq(I)
        BY <1>1, <1>3, <3>2, <3>3, InstructionsTyped
      <4>3. f \in Seq(I) /\ u \in Seq(I)
        BY <1>1, <1>3, <3>2, <4>1, InstructionsTyped
      <4> QED  BY <1>3, <1>4, <3>2, <4>2, <4>3
    <3>5. GenBin(e, vs, n, g) = x \o a \o c \o y \o a \o d \o f \o t \o u \o v
      BY <2>1, <2>3, <3>1, <3>2, Zenon DEF GenBin, ShortCircuit
    <3>6. x \o a \o c \o y \o a \o d \in Seq(I)
      BY <2>2, <3>4, ConcatTyped6, Zenon
    <3>7. x \o a \o c \o y \o a \o d \o f \o t \in Seq(I)
      <4>1. x \o a \o c \o y \o a \o d \o f \in Seq(I)
        BY <3>4, <3>6, ConcatTyped, Zenon
      <4> QED  BY <3>4, <4>1, ConcatTyped, Zenon
    <3>8. GenBin(e, vs, n, g) \in Seq(I)
      <4>1. x \o a \o c \o y \o a \o d \o f \o t \o u \in Seq(I)
        BY <3>4, <3>7, ConcatTyped, Zenon
      <4> QED  BY <3>4, <3>5, <4>1, ConcatTyped, Zenon
    <3> QED  BY <1>1, <1>7, <3>8 DEF GenOf, Codes
  <2>4. CASE e.op \notin {"&&", "||"}
    <3>1. PICK a, b, c, d : /\ a = Pop(n + 2, "rax") /\ b = Pop(n + 1, "rbx")
                            /\ c = Operate(e.op, GenKind(e.l, vs), GenKind(e.r, vs), n)
                            /\ d = Push(n, "rax")
      OBVIOUS
    <3>2. c \in Seq(I)
      BY <1>1, <1>7, <3>1, OperateTyped, DataOf, OperandsSmaller DEF Codes
    <3>3. a \in Seq(I) /\ b \in Seq(I) /\ d \in Seq(I)
      BY <1>3, <1>4, <3>1
    <3>4. GenBin(e, vs, n, g) = y \o z \o a \o b \o c \o d
      BY <2>1, <2>4, <3>1, Zenon DEF GenBin
    <3> QED  BY <1>1, <1>7, <2>2, <3>2, <3>3, <3>4, ConcatTyped6 DEF GenOf, Codes
  <2> QED  BY <2>3, <2>4
<1>8. CASE e.k = "call"
  <2>1. PICK m \in Nat : m = Len(e.args)
    <3>1. e.args \in Seq(Exprs)
      BY <1>8, OperandsSmaller
    <3> QED  BY <3>1
  <2> DEFINE take(i) == Pop(n + i, kArgRegs[i])
                       \o Convert(n + i - 1, kArgRegs[i], GenKind(e.args[i], vs),
                                  Sigs[e.f].params[i])
             args == [i \in 1..m |-> g[e.args[i]][n + i - 1]]
             takes == [j \in 1..m |-> take(m + 1 - j)]
  <2>2. ASSUME NEW i \in 1..m
        PROVE  g[e.args[i]][n + i - 1] \in Seq(I) /\ take(i) \in Seq(I)
    <3>1. e.args[i] \in Operands(e) /\ n + i - 1 \in Nat /\ n + i \in Int
          /\ n + i - 1 \in Int /\ i \in Nat
      BY <1>8, <2>1, OperandsSmaller
    <3>2. PICK r \in Regs : r = kArgRegs[i]
      BY <3>1, RegisterNames
    <3>3. PICK a, b : a = Pop(n + i, r)
                      /\ b = Convert(n + i - 1, r, GenKind(e.args[i], vs),
                                     Sigs[e.f].params[i])
      OBVIOUS
    <3>4. a \in Seq(I) /\ b \in Seq(I)
      BY <1>1, <3>1, <3>3, InstructionsTyped
    <3>5. take(i) = a \o b
      BY <3>2, <3>3
    <3> QED  BY <1>2, <3>1, <3>4, <3>5, ConcatTyped
  <2>3. \A i \in 1..m : m + 1 - i \in 1..m
    OBVIOUS
  <2> HIDE DEF take
  <2>4. args \in Seq(Seq(I)) /\ takes \in Seq(Seq(I))
    <3>1. args \in [1..m -> Seq(I)] /\ takes \in [1..m -> Seq(I)]
      BY <2>2, <2>3
    <3> HIDE DEF args, takes
    <3> QED  BY <3>1
  <2>5. PICK a, b, c, d : /\ a = FlattenSeq(args) /\ b = FlattenSeq(takes)
                          /\ c = <<[op |-> "call", size |-> n, f |-> e.f]>>
                          /\ d = Push(n, "rax")
    OBVIOUS
  <2>6. a \in Seq(I) /\ b \in Seq(I)
    BY <2>4, <2>5, FlattenTyped, Zenon
  <2>7. c \in Seq(I) /\ d \in Seq(I)
    BY <1>1, <1>3, <1>4, <2>5, DataOf, InstructionsTyped
  <2>8. GenCall(e, vs, n, g) = a \o b \o c \o d
    BY <2>1, <2>5, Zenon DEF GenCall, take
  <2> QED  BY <1>1, <1>8, <2>6, <2>7, <2>8, ConcatTyped4 DEF GenOf, GenTerm, Codes
<1>9. CASE e.k = "lit"
  <2>1. PICK a, b : a = Mov(n, "rax", e.word) /\ b = Push(n, "rax")
    OBVIOUS
  <2>2. a \in Seq(I) /\ b \in Seq(I)
    BY <1>1, <1>3, <1>4, <2>1, DataOf, InstructionsTyped
  <2> QED  BY <1>1, <1>9, <2>1, <2>2, ConcatTyped DEF GenOf, GenTerm, Codes
<1>10. CASE e.k = "var"
  <2>1. PushVar(n, Place(Lookup(vs, e.x), n)) \in Seq(I)
    BY <1>1, <1>3, DataOf, InstructionsTyped
  <2> QED  BY <1>1, <1>10, <2>1 DEF GenOf, GenTerm, Codes
<1> QED  BY <1>5, <1>6, <1>7, <1>8, <1>9, <1>10, OperandsSmaller

(* So Gen is a function that obeys its definition.                         *)
LEMMA GenFunction ==
  ASSUME NEW vs
  PROVE  \E g \in [Exprs -> [Nat -> Codes(vs)]] :
           /\ \A x, m : Gen(x, vs, m) = g[x][m]
           /\ \A x \in Exprs, m \in Nat : g[x][m] = GenOf(x, vs, m, g)
<1> DEFINE S == [Nat -> Codes(vs)]
           step == [x \in Exprs |-> [h \in [Exprs -> S] |->
                                     [m \in Nat |-> GenOf(x, vs, m, h)]]]
           gen == CHOOSE f : f = [x \in Exprs |-> [m \in Nat |->
                    CASE x.k = "un" -> GenUnary(x, vs, m, f)
                      [] x.k = "bump" -> GenIncDec(x, vs, m)
                      [] x.k = "bin" -> GenBin(x, vs, m, f)
                      [] OTHER -> GenTerm(x, vs, m, f)]]
<1>1. S # {}
  <2>1. [m \in Nat |-> <<>>] \in S
    BY DEF Codes
  <2> QED  BY <2>1
<1>2. ASSUME NEW x \in Exprs, NEW h \in [Exprs -> S]
      PROVE  [m \in Nat |-> GenOf(x, vs, m, h)] \in S
  BY GenTyped
<1>3. step \in [Exprs -> [[Exprs -> S] -> S]]
  <2> HIDE DEF S
  <2> QED  BY <1>2
<1>4. ASSUME NEW e \in Exprs, NEW f \in [Exprs -> S], NEW g \in [Exprs -> S],
             \A o \in Operands(e) : f[o] = g[o]
      PROVE  step[e][f] = step[e][g]
  <2>1. \A m \in Nat : GenOf(e, vs, m, f) = GenOf(e, vs, m, g)
    BY <1>4, GenLooksAtOperands
  <2>2. [m \in Nat |-> GenOf(e, vs, m, f)] = [m \in Nat |-> GenOf(e, vs, m, g)]
    BY <2>1
  <2> HIDE DEF S
  <2> QED  BY <2>2
<1> HIDE DEF S, step
<1>5. PICK f \in [Exprs -> S] : \A d \in Exprs : f[d] = step[d][f]
  <2>1. LooksAtOperands(S, step)
    BY <1>1, <1>3, <1>4 DEF LooksAtOperands
  <2> QED  BY <2>1, OnOperandsDefines
<1>6. f = [x \in Exprs |-> [m \in Nat |->
             CASE x.k = "un" -> GenUnary(x, vs, m, f)
               [] x.k = "bump" -> GenIncDec(x, vs, m)
               [] x.k = "bin" -> GenBin(x, vs, m, f)
               [] OTHER -> GenTerm(x, vs, m, f)]]
  <2>1. \A x \in Exprs : f[x] = [m \in Nat |-> GenOf(x, vs, m, f)]
    BY <1>5 DEF step
  <2>2. f = [x \in Exprs |-> [m \in Nat |-> GenOf(x, vs, m, f)]]
    BY <2>1
  <2> QED  BY <2>2 DEF GenOf
<1>7. gen = [x \in Exprs |-> [m \in Nat |->
               CASE x.k = "un" -> GenUnary(x, vs, m, gen)
                 [] x.k = "bump" -> GenIncDec(x, vs, m)
                 [] x.k = "bin" -> GenBin(x, vs, m, gen)
                 [] OTHER -> GenTerm(x, vs, m, gen)]]
  BY <1>6
<1>8. \A x, m : Gen(x, vs, m) = gen[x][m]
  BY DEF Gen
<1> HIDE DEF gen
<1>9. gen = [x \in Exprs |-> [m \in Nat |-> GenOf(x, vs, m, gen)]]
  BY <1>7 DEF GenOf
<1>10. f = [x \in Exprs |-> [m \in Nat |-> GenOf(x, vs, m, f)]]
  BY <1>6 DEF GenOf
<1> DEFINE P == {x \in Exprs : gen[x] = f[x]}
<1>11. ASSUME NEW x \in Exprs, \A o \in Operands(x) : o \in P
       PROVE  x \in P
  <2>1. \A m \in Nat : GenOf(x, vs, m, gen) = GenOf(x, vs, m, f)
    BY <1>11, GenLooksAtOperands
  <2>2. gen[x] = [m \in Nat |-> GenOf(x, vs, m, gen)]
    BY <1>9
  <2>3. f[x] = [m \in Nat |-> GenOf(x, vs, m, f)]
    BY <1>10
  <2> QED  BY <2>1, <2>2, <2>3
<1>12. Exprs \subseteq P
  <2> HIDE DEF P
  <2> QED  BY <1>11, OnOperands
<1>13. gen = f
  BY <1>9, <1>12, Zenon
<1>14. \A x \in Exprs, m \in Nat : f[x][m] = GenOf(x, vs, m, f)
  BY <1>10
<1>15. f \in [Exprs -> [Nat -> Codes(vs)]]
  BY DEF S
<1> QED  BY <1>8, <1>13, <1>14, <1>15

(* The code of each kind of expression, from that of its operands.         *)
LEMMA GenEquations ==
  ASSUME NEW vs, NEW e \in Exprs, NEW n \in Nat
  PROVE  /\ Gen(e, vs, n) \in Codes(vs)
         /\ e.k = "lit" =>
              Gen(e, vs, n) = Mov(n, "rax", e.word) \o Push(n, "rax")
         /\ e.k = "var" =>
              Gen(e, vs, n) = PushVar(n, Place(Lookup(vs, e.x), n))
         /\ e.k = "un" =>
              Gen(e, vs, n) =
                Gen(e.e, vs, n) \o Pop(n + 1, "rax")
                \o Arith(n, "un", IF e.op = "-" /\ GenKind(e.e, vs) = "Float"
                                    THEN "btc" ELSE e.op)
                \o Push(n, "rax")
         /\ e.k = "bump" => Gen(e, vs, n) = GenIncDec(e, vs, n)
         /\ e.k = "bin" =>
              Gen(e, vs, n) =
                IF e.op \in {"&&", "||"}
                  THEN ShortCircuit(e.op, Gen(e.l, vs, n), Gen(e.r, vs, n), n)
                  ELSE Gen(e.r, vs, n) \o Gen(e.l, vs, n + 1)
                       \o Pop(n + 2, "rax") \o Pop(n + 1, "rbx")
                       \o Operate(e.op, GenKind(e.l, vs), GenKind(e.r, vs), n)
                       \o Push(n, "rax")
<1>1. PICK g \in [Exprs -> [Nat -> Codes(vs)]] :
        /\ \A x, m : Gen(x, vs, m) = g[x][m]
        /\ \A x \in Exprs, m \in Nat : g[x][m] = GenOf(x, vs, m, g)
  BY GenFunction
<1>2. Gen(e, vs, n) = GenOf(e, vs, n, g) /\ Gen(e, vs, n) \in Codes(vs)
  BY <1>1
<1>3. CASE e.k = "lit"
  BY <1>2, <1>3 DEF GenOf, GenTerm
<1>4. CASE e.k = "var"
  BY <1>2, <1>4 DEF GenOf, GenTerm
<1>5. CASE e.k = "bump"
  BY <1>2, <1>5 DEF GenOf
<1>6. CASE e.k = "un"
  <2>1. Gen(e, vs, n) = GenUnary(e, vs, n, g) /\ Gen(e.e, vs, n) = g[e.e][n]
    BY <1>1, <1>2, <1>6 DEF GenOf
  <2> QED  BY <1>2, <1>6, <2>1, Zenon DEF GenUnary
<1>7. CASE e.k = "bin"
  <2>1. Gen(e, vs, n) = GenBin(e, vs, n, g)
    BY <1>2, <1>7 DEF GenOf
  <2>2. /\ Gen(e.r, vs, n) = g[e.r][n] /\ Gen(e.l, vs, n) = g[e.l][n]
        /\ Gen(e.l, vs, n + 1) = g[e.l][n + 1]
    BY <1>1
  <2> QED  BY <1>2, <1>7, <2>1, <2>2, Zenon DEF GenBin
<1>8. CASE e.k = "call"
  BY <1>2, <1>8
<1> QED  BY <1>3, <1>4, <1>5, <1>6, <1>7, <1>8, OperandsSmaller

(* The code of a call: the arguments', what pops and converts them, and    *)
(* the call.                                                               *)
ArgCodes(e, vs, n) == [i \in 1..Len(e.args) |-> Gen(e.args[i], vs, n + i - 1)]

TakeCode(e, vs, n, i) ==
  Pop(n + i, kArgRegs[i])
  \o Convert(n + i - 1, kArgRegs[i], GenKind(e.args[i], vs), Sigs[e.f].params[i])

TakeCodes(e, vs, n) ==
  [j \in 1..Len(e.args) |-> TakeCode(e, vs, n, Len(e.args) + 1 - j)]

(* The code of a call.                                                     *)
LEMMA GenCallEquation ==
  ASSUME NEW vs, NEW e \in Exprs, NEW n \in Nat, e.k = "call"
  PROVE  Gen(e, vs, n) =
           FlattenSeq(ArgCodes(e, vs, n)) \o FlattenSeq(TakeCodes(e, vs, n))
           \o <<[op |-> "call", size |-> n, f |-> e.f]>> \o Push(n, "rax")
<1>1. PICK g \in [Exprs -> [Nat -> Codes(vs)]] :
        /\ \A x, m : Gen(x, vs, m) = g[x][m]
        /\ \A x \in Exprs, m \in Nat : g[x][m] = GenOf(x, vs, m, g)
  BY GenFunction
<1>2. Gen(e, vs, n) = GenCall(e, vs, n, g)
  BY <1>1 DEF GenOf, GenTerm
<1>3. ArgCodes(e, vs, n) = [i \in 1..Len(e.args) |-> g[e.args[i]][n + i - 1]]
  BY <1>1 DEF ArgCodes
<1>4. TakeCodes(e, vs, n) =
        [j \in 1..Len(e.args) |->
           Pop(n + (Len(e.args) + 1 - j), kArgRegs[Len(e.args) + 1 - j])
           \o Convert(n + (Len(e.args) + 1 - j) - 1, kArgRegs[Len(e.args) + 1 - j],
                      GenKind(e.args[Len(e.args) + 1 - j], vs),
                      Sigs[e.f].params[Len(e.args) + 1 - j])]
  BY DEF TakeCodes, TakeCode
<1> QED  BY <1>2, <1>3, <1>4, Zenon DEF GenCall

-----------------------------------------------------------------------------
(* The depth of the stack along the code.                                  *)

(* A sequence, of whatever.                                                *)
IsSeq(c) == \E I : c \in Seq(I)

(* Two sequences in one: where each of them is in it.                      *)
LEMMA SeqJoin ==
  ASSUME NEW c, NEW d, IsSeq(c), IsSeq(d)
  PROVE  /\ IsSeq(c \o d) /\ Len(c) \in Nat /\ Len(d) \in Nat
         /\ Len(c \o d) = Len(c) + Len(d)
         /\ \A i \in 1..Len(c) : (c \o d)[i] = c[i]
         /\ \A i \in 1..Len(d) : (c \o d)[Len(c) + i] = d[i]
<1>1. PICK I, J : c \in Seq(I) /\ d \in Seq(J)
  BY DEF IsSeq
<1>2. PICK K : K = I \cup J
  OBVIOUS
<1>3. c \in Seq(K) /\ d \in Seq(K)
  BY <1>1, <1>2
<1>4. c \o d \in Seq(K)
  BY <1>3
<1>5. /\ Len(c) \in Nat /\ Len(d) \in Nat
      /\ Len(c \o d) = Len(c) + Len(d)
      /\ \A i \in 1..Len(c) : (c \o d)[i] = c[i]
  BY <1>3
<1>6. ASSUME NEW i \in 1..Len(d)
      PROVE  (c \o d)[Len(c) + i] = d[i]
  BY <1>3
<1> QED  BY <1>4, <1>5, <1>6 DEF IsSeq

(* A sequence of one,                                                      *)
LEMMA SeqOne ==
  ASSUME NEW x
  PROVE  IsSeq(<<x>>) /\ Len(<<x>>) = 1 /\ <<x>>[1] = x
<1>1. <<x>> \in Seq({x})
  OBVIOUS
<1> QED  BY <1>1 DEF IsSeq

(* and of none.                                                            *)
LEMMA SeqNone == IsSeq(<<>>) /\ Len(<<>>) = 0
<1>1. <<>> \in Seq({})
  OBVIOUS
<1> QED  BY <1>1 DEF IsSeq

(* What an instruction does to the depth, and where it can go on.          *)
Effect(j) ==
  CASE j.op \in {"push", "pushvar", "pushzero"} -> 1
    [] j.op = "pop" -> -1
    [] OTHER -> 0

GoesOn(j, i) ==
  CASE j.op = "jmp" -> {i + 1 + j.skip}
    [] j.op = "test" -> {i + 1, i + 1 + j.skip}
    [] OTHER -> {i + 1}

(* The depth recorded at i, m behind the last instruction.                 *)
SizeAt(c, i, m) == IF i = Len(c) + 1 THEN m ELSE c[i].size

(* The code c takes the stack from depth n to depth m, at the depths it    *)
(* records, and has no instruction of T.                                   *)
Segment(c, n, m, T) ==
  /\ IsSeq(c) /\ n \in Nat /\ m \in Nat
  /\ SizeAt(c, 1, m) = n
  /\ \A i \in 1..Len(c) :
       /\ c[i].size \in Nat /\ c[i].op \notin T
       /\ c[i].op = "pop" => c[i].size > 0
       /\ c[i].op \in {"jmp", "test"} => c[i].skip \in Nat
       /\ \A k \in GoesOn(c[i], i) :
            k \in 1..(Len(c) + 1) /\ SizeAt(c, k, m) = c[i].size + Effect(c[i])

(* Code after code: the depth the first leaves is the one the second has.  *)
LEMMA SegmentJoin ==
  ASSUME NEW c, NEW d, NEW n, NEW m, NEW k, NEW T,
         Segment(c, n, m, T), Segment(d, m, k, T)
  PROVE  Segment(c \o d, n, k, T)
<1>1. PICK e, a, b : e = c \o d /\ a = Len(c) /\ b = Len(d)
  OBVIOUS
<1>2. /\ IsSeq(e) /\ a \in Nat /\ b \in Nat /\ Len(e) = a + b
      /\ \A i \in 1..a : e[i] = c[i]
      /\ \A i \in 1..b : e[a + i] = d[i]
      /\ n \in Nat /\ m \in Nat /\ k \in Nat
  BY <1>1, SeqJoin DEF Segment
<1>3. ASSUME NEW i \in 1..(b + 1)
      PROVE  SizeAt(e, a + i, k) = SizeAt(d, i, k)
  <2>1. CASE i = b + 1
    BY <1>1, <1>2, <2>1 DEF SizeAt
  <2>2. CASE i # b + 1
    <3>1. i \in 1..b /\ a + i # a + b + 1
      BY <1>2, <2>2
    <3> QED  BY <1>1, <1>2, <2>2, <3>1 DEF SizeAt
  <2> QED  BY <2>1, <2>2
<1>4. ASSUME NEW i \in 1..(a + 1)
      PROVE  SizeAt(e, i, k) = SizeAt(c, i, m)
  <2>1. CASE i = a + 1
    <3>1. 1 \in 1..(b + 1)
      BY <1>2
    <3>2. SizeAt(e, a + 1, k) = SizeAt(d, 1, k)
      BY <1>3, <3>1
    <3>3. SizeAt(d, 1, k) = m
      BY DEF Segment
    <3>4. SizeAt(c, a + 1, m) = m
      BY <1>1 DEF SizeAt
    <3> QED  BY <2>1, <3>2, <3>3, <3>4
  <2>2. CASE i # a + 1
    <3>1. i \in 1..a /\ i # a + b + 1
      BY <1>2, <2>2
    <3> QED  BY <1>1, <1>2, <2>2, <3>1 DEF SizeAt
  <2> QED  BY <2>1, <2>2
<1>5. SizeAt(e, 1, k) = n
  <2>1. 1 \in 1..(a + 1)
    BY <1>2
  <2>2. SizeAt(c, 1, m) = n
    BY DEF Segment
  <2> QED  BY <1>4, <2>1, <2>2
<1>6. ASSUME NEW i \in 1..(a + b)
      PROVE  /\ e[i].size \in Nat /\ e[i].op \notin T
             /\ e[i].op = "pop" => e[i].size > 0
             /\ e[i].op \in {"jmp", "test"} => e[i].skip \in Nat
             /\ \A j \in GoesOn(e[i], i) :
                  j \in 1..(a + b + 1) /\ SizeAt(e, j, k) = e[i].size + Effect(e[i])
  <2>1. CASE i \in 1..a
    <3>1. e[i] = c[i]
      BY <1>2, <2>1
    <3>2. /\ c[i].size \in Nat /\ c[i].op \notin T
          /\ c[i].op = "pop" => c[i].size > 0
          /\ c[i].op \in {"jmp", "test"} => c[i].skip \in Nat
          /\ \A j \in GoesOn(c[i], i) :
               j \in 1..(a + 1) /\ SizeAt(c, j, m) = c[i].size + Effect(c[i])
      BY <1>1, <2>1 DEF Segment
    <3>3. ASSUME NEW j \in GoesOn(e[i], i)
          PROVE  j \in 1..(a + b + 1) /\ SizeAt(e, j, k) = e[i].size + Effect(e[i])
      <4>1. j \in 1..(a + 1) /\ SizeAt(c, j, m) = c[i].size + Effect(c[i])
        BY <3>1, <3>2, <3>3
      <4>2. SizeAt(e, j, k) = SizeAt(c, j, m)
        BY <1>4, <4>1
      <4>3. j \in 1..(a + b + 1)
        BY <1>2, <4>1
      <4> QED  BY <3>1, <4>1, <4>2, <4>3
    <3> QED  BY <3>1, <3>2, <3>3
  <2>2. CASE i \notin 1..a
    <3>1. PICK l \in 1..b : i = a + l
      <4>1. i - a \in 1..b /\ i = a + (i - a)
        BY <1>2, <2>2
      <4> QED  BY <4>1
    <3>2. e[i] = d[l]
      BY <1>2, <3>1
    <3>3. /\ d[l].size \in Nat /\ d[l].op \notin T
          /\ d[l].op = "pop" => d[l].size > 0
          /\ d[l].op \in {"jmp", "test"} => d[l].skip \in Nat
          /\ \A j \in GoesOn(d[l], l) :
               j \in 1..(b + 1) /\ SizeAt(d, j, k) = d[l].size + Effect(d[l])
      BY <1>1 DEF Segment
    <3>4. ASSUME NEW j \in GoesOn(d[l], i)
          PROVE  j \in 1..(a + b + 1) /\ SizeAt(e, j, k) = d[l].size + Effect(d[l])
      <4>1. PICK t : j = a + t /\ t \in GoesOn(d[l], l)
        <5>1. PICK s : s = d[l].skip
          OBVIOUS
        <5>2. CASE j = i + 1 /\ d[l].op # "jmp"
          <6>1. j = a + (l + 1)
            BY <1>2, <3>1, <5>2
          <6>2. l + 1 \in GoesOn(d[l], l)
            BY <5>2 DEF GoesOn
          <6> QED  BY <6>1, <6>2
        <5>3. CASE j = i + 1 + s /\ d[l].op \in {"jmp", "test"}
          <6>1. l + 1 + s \in GoesOn(d[l], l)
            BY <5>1, <5>3 DEF GoesOn
          <6>2. s \in Nat
            BY <3>3, <5>1, <5>3
          <6>3. j = a + (l + 1 + s)
            BY <1>2, <3>1, <5>3, <6>2
          <6> QED  BY <6>1, <6>3
        <5> QED  BY <5>1, <5>2, <5>3, <3>4 DEF GoesOn
      <4>2. t \in 1..(b + 1) /\ SizeAt(d, t, k) = d[l].size + Effect(d[l])
        BY <3>3, <4>1
      <4>3. SizeAt(e, j, k) = SizeAt(d, t, k)
        BY <1>3, <4>1, <4>2
      <4> QED  BY <1>2, <4>1, <4>2, <4>3
    <3> QED  BY <3>2, <3>3, <3>4
  <2> QED  BY <2>1, <2>2
<1> QED  BY <1>1, <1>2, <1>5, <1>6 DEF Segment

(* One instruction.                                                        *)
LEMMA SegmentOne ==
  ASSUME NEW j, NEW n \in Nat, NEW m \in Nat, NEW T, j.size = n, j.op \notin T,
         j.op \notin {"jmp", "test"}, j.op = "pop" => n > 0, m = n + Effect(j)
  PROVE  Segment(<<j>>, n, m, T)
<1>1. PICK c : c = <<j>>
  OBVIOUS
<1>2. IsSeq(c) /\ Len(c) = 1 /\ c[1] = j
  BY <1>1, SeqOne
<1>3. SizeAt(c, 1, m) = n /\ SizeAt(c, 2, m) = m
  BY <1>2 DEF SizeAt
<1>4. GoesOn(j, 1) = {2}
  BY DEF GoesOn
<1>5. 1..Len(c) = {1}
  BY <1>2
<1>6. \A k \in GoesOn(j, 1) : k \in 1..(Len(c) + 1) /\ SizeAt(c, k, m) = n + Effect(j)
  BY <1>2, <1>3, <1>4
<1> QED  BY <1>1, <1>2, <1>3, <1>5, <1>6 DEF Segment

(* No instruction.                                                         *)
LEMMA SegmentNone ==
  ASSUME NEW n \in Nat, NEW T
  PROVE  Segment(<<>>, n, n, T)
BY SeqNone DEF Segment, SizeAt

(* The opcodes a piece of code may be shown to be without.                 *)
MayExclude(T) == T = {} \/ T = {"totext"}

(* Every emitter, with what it does to the depth.                          *)
LEMMA SegmentInstructions ==
  ASSUME NEW n \in Nat, NEW T, MayExclude(T)
  PROVE  /\ \A r : Segment(Push(n, r), n, n + 1, T)
         /\ \A r : n > 0 => Segment(Pop(n, r), n, n - 1, T)
         /\ \A r, w : Segment(Mov(n, r, w), n, n, T)
         /\ \A r, loc : Segment(Load(n, r, loc), n, n, T)
         /\ \A loc : Segment(Store(n, loc), n, n, T)
         /\ \A loc : Segment(PushVar(n, loc), n, n + 1, T)
         /\ \A loc, by : Segment(Bump(n, loc, by), n, n, T)
         /\ \A f : \A op \in {"un", "int", "concat"} : Segment(Arith(n, op, f), n, n, T)
         /\ \A f : T = {} => Segment(Arith(n, "totext", f), n, n, T)
         /\ \A f : Segment(<<[op |-> "call", size |-> n, f |-> f]>>, n, n, T)
         /\ \A f, l, r :
              Segment(<<[op |-> "sse", size |-> n, f |-> f, l |-> l, r |-> r]>>, n, n, T)
         /\ \A r, rep, leaves : Segment(Take(n, r, rep, leaves), n, n, T)
         /\ \A r, from, to : Segment(Convert(n, r, from, to), n, n, T)
<1>1. ASSUME NEW j, NEW d \in {-1, 0, 1}, Effect(j) = d, j.size = n, j.op \notin T,
             j.op \notin {"jmp", "test"}, n + d \in Nat
      PROVE  Segment(<<j>>, n, n + d, T)
  <2>1. j.op = "pop" => n > 0
    BY <1>1 DEF Effect
  <2> QED  BY <1>1, <2>1, SegmentOne
<1>2. ASSUME NEW j, Effect(j) = 0, j.size = n, j.op \notin T, j.op \notin {"jmp", "test"}
      PROVE  Segment(<<j>>, n, n, T)
  <2>1. j.op = "pop" => n > 0
    BY <1>2 DEF Effect
  <2>2. n = n + Effect(j)
    BY <1>2
  <2> QED  BY <1>2, <2>1, <2>2, SegmentOne
<1>3. ASSUME NEW r
      PROVE  Segment(Push(n, r), n, n + 1, T)
  BY <1>1 DEF Push, Effect, MayExclude
<1>4. ASSUME NEW r, n > 0
      PROVE  Segment(Pop(n, r), n, n - 1, T)
  <2>1. n + (-1) = n - 1 /\ n - 1 \in Nat
    BY <1>4
  <2> QED  BY <1>1, <2>1 DEF Pop, Effect, MayExclude
<1>5. \A r, w : Segment(Mov(n, r, w), n, n, T)
  BY <1>2 DEF Mov, Effect, MayExclude
<1>6. \A r, loc : Segment(Load(n, r, loc), n, n, T)
  BY <1>2 DEF Load, Effect, MayExclude
<1>7. \A loc : Segment(Store(n, loc), n, n, T)
  BY <1>2 DEF Store, Effect, MayExclude
<1>8. \A loc : Segment(PushVar(n, loc), n, n + 1, T)
  BY <1>1 DEF PushVar, Effect, MayExclude
<1>9. \A loc, by : Segment(Bump(n, loc, by), n, n, T)
  BY <1>2 DEF Bump, Effect, MayExclude
<1>10. \A f : \A op \in {"un", "int", "concat"} : Segment(Arith(n, op, f), n, n, T)
  BY <1>2 DEF Arith, Effect, MayExclude
<1>11. \A f : T = {} => Segment(Arith(n, "totext", f), n, n, T)
  BY <1>2 DEF Arith, Effect, MayExclude
<1>12. \A f : Segment(<<[op |-> "call", size |-> n, f |-> f]>>, n, n, T)
  BY <1>2 DEF Effect, MayExclude
<1>13. \A f, l, r :
          Segment(<<[op |-> "sse", size |-> n, f |-> f, l |-> l, r |-> r]>>, n, n, T)
  BY <1>2 DEF Effect, MayExclude
<1>14. \A r, rep, leaves : Segment(Take(n, r, rep, leaves), n, n, T)
  BY <1>2 DEF Take, Effect, MayExclude
<1>15. \A r, from, to : Segment(Convert(n, r, from, to), n, n, T)
  BY <1>2, SegmentNone DEF Convert, Effect, MayExclude
<1> QED
  BY <1>3, <1>4, <1>5, <1>6, <1>7, <1>8, <1>9, <1>10, <1>11, <1>12, <1>13, <1>14,
     <1>15

(* An operator takes its operands from registers: the depth stays.         *)
LEMMA SegmentOperate ==
  ASSUME NEW n \in Nat, NEW T, MayExclude(T), NEW op, NEW lk, NEW rk,
         \/ T = {}
         \/ op = "+" => (lk = "Str") = (rk = "Str")
  PROVE  Segment(Operate(op, lk, rk, n), n, n, T)
<1>1. CASE op = "+" /\ Either("Str", lk, rk)
  <2>1. PICK a, b, c : /\ a = (IF lk # "Str" THEN Arith(n, "totext", "rax") ELSE <<>>)
                       /\ b = (IF rk # "Str" THEN Arith(n, "totext", "rbx") ELSE <<>>)
                       /\ c = Arith(n, "concat", op)
    OBVIOUS
  <2>2. T = {} \/ (lk = "Str" /\ rk = "Str")
    BY <1>1 DEF Either
  <2>3. Segment(a, n, n, T) /\ Segment(b, n, n, T) /\ Segment(c, n, n, T)
    BY <2>1, <2>2, SegmentInstructions, SegmentNone
  <2>4. Operate(op, lk, rk, n) = a \o b \o c
    BY <1>1, <2>1 DEF Operate
  <2>5. Segment(a \o b, n, n, T)
    BY <2>3, SegmentJoin
  <2>6. Segment(a \o b \o c, n, n, T)
    BY <2>3, <2>5, SegmentJoin
  <2> QED  BY <2>4, <2>6
<1>2. CASE ~ (op = "+" /\ Either("Str", lk, rk))
  <2>1. \/ Operate(op, lk, rk, n) = <<[op |-> "sse", size |-> n, f |-> op, l |-> lk, r |-> rk]>>
        \/ Operate(op, lk, rk, n) = Arith(n, "int", op)
    BY <1>2 DEF Operate
  <2> QED  BY <2>1, SegmentInstructions
<1> QED  BY <1>1, <1>2

(* d is c with x put behind it.                                            *)
Grown(c, d, x) ==
  /\ IsSeq(d) /\ d = c \o <<x>>
  /\ Len(c) \in Nat /\ Len(d) = Len(c) + 1 /\ d[Len(c) + 1] = x
  /\ \A i \in 1..Len(c) : d[i] = c[i]

Joined(c, d, e) ==
  /\ IsSeq(e) /\ Len(c) \in Nat /\ Len(d) \in Nat /\ Len(e) = Len(c) + Len(d)
  /\ \A i \in 1..Len(c) : e[i] = c[i]
  /\ \A i \in 1..Len(d) : e[Len(c) + i] = d[i]

(* Joining grows,                                                          *)
LEMMA SeqJoined ==
  ASSUME NEW c, NEW d, NEW e, IsSeq(c), IsSeq(d), e = c \o d
  PROVE  Joined(c, d, e)
BY SeqJoin DEF Joined

(* and says what is where.                                                 *)
LEMMA SeqPut ==
  ASSUME NEW c, NEW x, NEW d, IsSeq(c), d = c \o <<x>>
  PROVE  Grown(c, d, x)
<1>1. PICK o : o = <<x>>
  OBVIOUS
<1>2. IsSeq(o) /\ Len(o) = 1 /\ o[1] = x
  BY <1>1, SeqOne
<1>3. Joined(c, o, d)
  BY <1>1, <1>2, SeqJoined
<1>4. d[Len(c) + 1] = x
  BY <1>2, <1>3 DEF Joined
<1> QED  BY <1>1, <1>2, <1>3, <1>4 DEF Grown, Joined

(* How sequences are put together makes no difference.                     *)
LEMMA SeqAssociative ==
  ASSUME NEW a, NEW b, NEW c, IsSeq(a), IsSeq(b), IsSeq(c)
  PROVE  (a \o b) \o c = a \o (b \o c)
<1>1. PICK I, J, K : a \in Seq(I) /\ b \in Seq(J) /\ c \in Seq(K)
  BY DEF IsSeq
<1>2. PICK U : U = I \cup J \cup K
  OBVIOUS
<1>3. a \in Seq(U) /\ b \in Seq(U) /\ c \in Seq(U)
  BY <1>1, <1>2
<1> QED  BY <1>3, ConcatAssociative

(* The same for seven pieces of code.                                      *)
LEMMA Regroup ==
  ASSUME NEW a, NEW b, NEW c, NEW d, IsSeq(a), IsSeq(b), IsSeq(c), d = b \o c
  PROVE  (a \o b) \o c = a \o d
BY SeqAssociative

(* The instructions of && and || behind the first operand, rhs at 3.       *)
LogicCode(c, b, w, x, rhs, n) ==
  LET l == Len(rhs)
  IN  /\ IsSeq(c) /\ Len(c) = l + 8
      /\ c[1] = [op |-> "pop", size |-> n + 1, reg |-> "rax"]
      /\ c[2] = [op |-> "test", size |-> n, zero |-> b, skip |-> l + 4]
      /\ \A i \in 1..l : c[2 + i] = rhs[i]
      /\ c[l + 3] = [op |-> "pop", size |-> n + 1, reg |-> "rax"]
      /\ c[l + 4] = [op |-> "test", size |-> n, zero |-> b, skip |-> 2]
      /\ c[l + 5] = [op |-> "mov", size |-> n, reg |-> "rax", word |-> w]
      /\ c[l + 6] = [op |-> "jmp", size |-> n, skip |-> 1]
      /\ c[l + 7] = [op |-> "mov", size |-> n, reg |-> "rax", word |-> x]
      /\ c[l + 8] = [op |-> "push", size |-> n, reg |-> "rax"]

(* The code of && and ||, instruction by instruction.                      *)
ShortCircuits(op, lhs, rhs, n, c) ==
  /\ ShortCircuit(op, lhs, rhs, n) = lhs \o c
  /\ LogicCode(c, op = "&&", Truth(op = "&&"), Truth(op = "||"), rhs, n)

(* It is such code.                                                        *)
LEMMA ShortCircuitCode ==
  ASSUME NEW n, NEW op, NEW lhs, NEW rhs, IsSeq(lhs), IsSeq(rhs)
  PROVE  \E c : ShortCircuits(op, lhs, rhs, n, c)
<1>1. PICK l \in Nat : l = Len(rhs)
  BY SeqJoin
<1>2. PICK b, w, x : b = (op = "&&") /\ w = Truth(op = "&&") /\ x = Truth(op = "||")
  OBVIOUS
<1>3. PICK p1, p2, q2, q3, q4, q5, q6 :
        /\ p1 = [op |-> "pop", size |-> n + 1, reg |-> "rax"]
        /\ p2 = [op |-> "test", size |-> n, zero |-> b, skip |-> l + 4]
        /\ q2 = [op |-> "test", size |-> n, zero |-> b, skip |-> 2]
        /\ q3 = [op |-> "mov", size |-> n, reg |-> "rax", word |-> w]
        /\ q4 = [op |-> "jmp", size |-> n, skip |-> 1]
        /\ q5 = [op |-> "mov", size |-> n, reg |-> "rax", word |-> x]
        /\ q6 = [op |-> "push", size |-> n, reg |-> "rax"]
  OBVIOUS
<1>4. ShortCircuit(op, lhs, rhs, n) =
        lhs \o <<p1>> \o <<p2>> \o rhs \o <<p1>> \o <<q2>> \o <<q3>> \o <<q4>>
        \o <<q5>> \o <<q6>>
  BY <1>1, <1>2, <1>3 DEF ShortCircuit, Pop, Test, Mov, Jmp, Push
<1>5. PICK c2, c3, c4, c5, c6, c7, c8, c9 :
        /\ c2 = <<p1>> \o <<p2>> /\ c3 = c2 \o rhs /\ c4 = c3 \o <<p1>>
        /\ c5 = c4 \o <<q2>> /\ c6 = c5 \o <<q3>> /\ c7 = c6 \o <<q4>>
        /\ c8 = c7 \o <<q5>> /\ c9 = c8 \o <<q6>>
  OBVIOUS
<1>6. IsSeq(<<p1>>) /\ Len(<<p1>>) = 1 /\ <<p1>>[1] = p1 /\ \A y : IsSeq(<<y>>)
  BY SeqOne
<1>18. IsSeq(c2) /\ Len(c2) = 2 /\ c2[1] = p1 /\ c2[2] = p2
  <2>1. PICK c1 : c1 = <<p1>>
    OBVIOUS
  <2>2. Grown(c1, c2, p2)
    BY <1>5, <1>6, <2>1, SeqPut
  <2> QED  BY <1>6, <2>1, <2>2 DEF Grown
<1>7. /\ IsSeq(c3) /\ Len(c3) = l + 2 /\ c3[1] = p1 /\ c3[2] = p2
      /\ \A i \in 1..l : c3[2 + i] = rhs[i]
  <2>1. Joined(c2, rhs, c3)
    BY <1>5, <1>18, SeqJoined
  <2> QED  BY <1>1, <1>18, <2>1 DEF Joined
<1>8. /\ IsSeq(c4) /\ Len(c4) = l + 3 /\ c4[l + 3] = p1
      /\ \A i \in 1..(l + 2) : c4[i] = c3[i]
  <2>1. Grown(c3, c4, p1)
    BY <1>5, <1>7, SeqPut
  <2> QED  BY <1>1, <1>7, <2>1 DEF Grown
<1>9. /\ IsSeq(c5) /\ Len(c5) = l + 4 /\ c5[l + 4] = q2
      /\ \A i \in 1..(l + 3) : c5[i] = c4[i]
  <2>1. Grown(c4, c5, q2)
    BY <1>5, <1>8, SeqPut
  <2> QED  BY <1>1, <1>8, <2>1 DEF Grown
<1>10. /\ IsSeq(c6) /\ Len(c6) = l + 5 /\ c6[l + 5] = q3
      /\ \A i \in 1..(l + 4) : c6[i] = c5[i]
  <2>1. Grown(c5, c6, q3)
    BY <1>5, <1>9, SeqPut
  <2> QED  BY <1>1, <1>9, <2>1 DEF Grown
<1>11. /\ IsSeq(c7) /\ Len(c7) = l + 6 /\ c7[l + 6] = q4
      /\ \A i \in 1..(l + 5) : c7[i] = c6[i]
  <2>1. Grown(c6, c7, q4)
    BY <1>5, <1>10, SeqPut
  <2> QED  BY <1>1, <1>10, <2>1 DEF Grown
<1>12. /\ IsSeq(c8) /\ Len(c8) = l + 7 /\ c8[l + 7] = q5
      /\ \A i \in 1..(l + 6) : c8[i] = c7[i]
  <2>1. Grown(c7, c8, q5)
    BY <1>5, <1>11, SeqPut
  <2> QED  BY <1>1, <1>11, <2>1 DEF Grown
<1>13. /\ IsSeq(c9) /\ Len(c9) = l + 8 /\ c9[l + 8] = q6
      /\ \A i \in 1..(l + 7) : c9[i] = c8[i]
  <2>1. Grown(c8, c9, q6)
    BY <1>5, <1>12, SeqPut
  <2> QED  BY <1>1, <1>12, <2>1 DEF Grown
<1>14. /\ \A i \in 1..(l + 2) : c9[i] = c3[i]
       /\ c9[l + 3] = p1 /\ c9[l + 4] = q2 /\ c9[l + 5] = q3 /\ c9[l + 6] = q4
       /\ c9[l + 7] = q5 /\ c9[l + 8] = q6
  <2>1. \A i \in 1..(l + 6) : c9[i] = c7[i]
    BY <1>12, <1>13
  <2>2. \A i \in 1..(l + 4) : c9[i] = c5[i]
    BY <1>10, <1>11, <2>1
  <2>3. \A i \in 1..(l + 2) : c9[i] = c3[i]
    BY <1>8, <1>9, <2>2
  <2>4. c9[l + 3] = p1
    <3>1. l + 3 \in 1..(l + 4) /\ l + 3 \in 1..(l + 3)
      OBVIOUS
    <3> QED  BY <1>8, <1>9, <2>2, <3>1
  <2>5. c9[l + 4] = q2
    <3>1. l + 4 \in 1..(l + 4)
      OBVIOUS
    <3> QED  BY <1>9, <2>2, <3>1
  <2>6. c9[l + 5] = q3
    <3>1. l + 5 \in 1..(l + 6) /\ l + 5 \in 1..(l + 5)
      OBVIOUS
    <3> QED  BY <1>10, <1>11, <2>1, <3>1
  <2>7. c9[l + 6] = q4
    <3>1. l + 6 \in 1..(l + 6)
      OBVIOUS
    <3> QED  BY <1>11, <2>1, <3>1
  <2>8. c9[l + 7] = q5
    <3>1. l + 7 \in 1..(l + 7)
      OBVIOUS
    <3> QED  BY <1>12, <1>13, <3>1
  <2> QED  BY <1>13, <2>3, <2>4, <2>5, <2>6, <2>7, <2>8
<1>15. c9[1] = p1 /\ c9[2] = p2 /\ \A i \in 1..l : c9[2 + i] = rhs[i]
  BY <1>7, <1>14
<1>16. LogicCode(c9, b, w, x, rhs, n)
  BY <1>1, <1>3, <1>13, <1>14, <1>15 DEF LogicCode
<1>17. ShortCircuit(op, lhs, rhs, n) = lhs \o c9
  <2>0. IsSeq(<<p1>>) /\ IsSeq(<<p2>>) /\ IsSeq(<<q2>>) /\ IsSeq(<<q3>>)
        /\ IsSeq(<<q4>>) /\ IsSeq(<<q5>>) /\ IsSeq(<<q6>>)
    BY SeqOne
  <2>1. (lhs \o <<p1>>) \o <<p2>> = lhs \o c2
    <3>1. IsSeq(<<p1>>) /\ IsSeq(<<p2>>) /\ c2 = <<p1>> \o <<p2>>
      BY <1>5, <2>0
    <3>2. IsSeq(lhs)
      OBVIOUS
    <3> QED  BY <3>1, <3>2, Regroup
  <2>2. (lhs \o c2) \o rhs = lhs \o c3
    <3>1. IsSeq(c2) /\ IsSeq(rhs) /\ c3 = c2 \o rhs
      BY <1>5, <2>0, <1>18
    <3>2. IsSeq(lhs)
      OBVIOUS
    <3> QED  BY <3>1, <3>2, Regroup
  <2>3. (lhs \o c3) \o <<p1>> = lhs \o c4
    <3>1. IsSeq(c3) /\ IsSeq(<<p1>>) /\ c4 = c3 \o <<p1>>
      BY <1>5, <2>0, <1>7
    <3>2. IsSeq(lhs)
      OBVIOUS
    <3> QED  BY <3>1, <3>2, Regroup
  <2>4. (lhs \o c4) \o <<q2>> = lhs \o c5
    <3>1. IsSeq(c4) /\ IsSeq(<<q2>>) /\ c5 = c4 \o <<q2>>
      BY <1>5, <2>0, <1>8
    <3>2. IsSeq(lhs)
      OBVIOUS
    <3> QED  BY <3>1, <3>2, Regroup
  <2>5. (lhs \o c5) \o <<q3>> = lhs \o c6
    <3>1. IsSeq(c5) /\ IsSeq(<<q3>>) /\ c6 = c5 \o <<q3>>
      BY <1>5, <2>0, <1>9
    <3>2. IsSeq(lhs)
      OBVIOUS
    <3> QED  BY <3>1, <3>2, Regroup
  <2>6. (lhs \o c6) \o <<q4>> = lhs \o c7
    <3>1. IsSeq(c6) /\ IsSeq(<<q4>>) /\ c7 = c6 \o <<q4>>
      BY <1>5, <2>0, <1>10
    <3>2. IsSeq(lhs)
      OBVIOUS
    <3> QED  BY <3>1, <3>2, Regroup
  <2>7. (lhs \o c7) \o <<q5>> = lhs \o c8
    <3>1. IsSeq(c7) /\ IsSeq(<<q5>>) /\ c8 = c7 \o <<q5>>
      BY <1>5, <2>0, <1>11
    <3>2. IsSeq(lhs)
      OBVIOUS
    <3> QED  BY <3>1, <3>2, Regroup
  <2>8. (lhs \o c8) \o <<q6>> = lhs \o c9
    <3>1. IsSeq(c8) /\ IsSeq(<<q6>>) /\ c9 = c8 \o <<q6>>
      BY <1>5, <2>0, <1>12
    <3>2. IsSeq(lhs)
      OBVIOUS
    <3> QED  BY <3>1, <3>2, Regroup
  <2> QED
    BY <1>4, <2>1, <2>2, <2>3, <2>4, <2>5, <2>6, <2>7, <2>8, Zenon
<1>20. LogicCode(c9, op = "&&", Truth(op = "&&"), Truth(op = "||"), rhs, n)
  BY <1>2, <1>16
<1>21. ShortCircuits(op, lhs, rhs, n, c9)
  BY <1>17, <1>20, Zenon DEF ShortCircuits
<1> QED  BY <1>21

(* Both ways through && and ||.                                            *)
LEMMA SegmentLogic ==
  ASSUME NEW n \in Nat, NEW T, MayExclude(T), NEW rhs, Segment(rhs, n, n + 1, T),
         NEW c, NEW b, NEW w, NEW x, LogicCode(c, b, w, x, rhs, n)
  PROVE  Segment(c, n + 1, n + 1, T)
<1>1. PICK l \in Nat : l = Len(rhs)
  BY SeqJoin DEF Segment
<1>2. /\ IsSeq(c) /\ Len(c) = l + 8
      /\ c[1] = [op |-> "pop", size |-> n + 1, reg |-> "rax"]
      /\ c[2] = [op |-> "test", size |-> n, zero |-> b, skip |-> l + 4]
      /\ \A i \in 1..l : c[2 + i] = rhs[i]
      /\ c[l + 3] = [op |-> "pop", size |-> n + 1, reg |-> "rax"]
      /\ c[l + 4] = [op |-> "test", size |-> n, zero |-> b, skip |-> 2]
      /\ c[l + 5] = [op |-> "mov", size |-> n, reg |-> "rax", word |-> w]
      /\ c[l + 6] = [op |-> "jmp", size |-> n, skip |-> 1]
      /\ c[l + 7] = [op |-> "mov", size |-> n, reg |-> "rax", word |-> x]
      /\ c[l + 8] = [op |-> "push", size |-> n, reg |-> "rax"]
  BY <1>1 DEF LogicCode
<1> DEFINE S(i) == SizeAt(c, i, n + 1)
<1>3. ASSUME NEW i \in 1..(l + 1)
      PROVE  S(2 + i) = SizeAt(rhs, i, n + 1)
  <2>1. CASE i = l + 1
    BY <1>1, <1>2, <2>1 DEF SizeAt
  <2>2. CASE i # l + 1
    <3>1. i \in 1..l /\ 2 + i # l + 9
      BY <2>2
    <3> QED  BY <1>1, <1>2, <2>2, <3>1 DEF SizeAt
  <2> QED  BY <2>1, <2>2
<1>4. /\ S(1) = n + 1 /\ S(2) = n /\ S(3) = n /\ S(l + 3) = n + 1 /\ S(l + 4) = n
      /\ S(l + 5) = n /\ S(l + 6) = n /\ S(l + 7) = n /\ S(l + 8) = n
      /\ S(l + 9) = n + 1
  <2>1. S(3) = n
    <3>1. SizeAt(rhs, 1, n + 1) = n
      BY DEF Segment
    <3>2. PICK i \in 1..(l + 1) : i = 1 /\ 2 + i = 3
      OBVIOUS
    <3>3. S(2 + i) = SizeAt(rhs, i, n + 1)
      BY <1>3
    <3> HIDE DEF S
    <3>4. S(3) = SizeAt(rhs, 1, n + 1)
      BY <3>2, <3>3, Zenon
    <3> QED  BY <3>1, <3>4
  <2>2. S(l + 9) = n + 1
    BY <1>2 DEF SizeAt
  <2>3. ASSUME NEW i \in 1..(l + 8)
        PROVE  S(i) = c[i].size
    <3>1. i # l + 8 + 1
      OBVIOUS
    <3> QED  BY <1>2, <3>1 DEF SizeAt
  <2> HIDE DEF S
  <2>4. S(1) = n + 1
    BY <1>2, <2>3
  <2>5. S(2) = n
    BY <1>2, <2>3
  <2>6. S(l + 3) = n + 1 /\ S(l + 4) = n /\ S(l + 5) = n
    BY <1>2, <2>3
  <2>7. S(l + 6) = n /\ S(l + 7) = n /\ S(l + 8) = n
    BY <1>2, <2>3
  <2> QED  BY <2>1, <2>2, <2>4, <2>5, <2>6, <2>7
<1> HIDE DEF S
<1> DEFINE OK(i) == /\ c[i].size \in Nat /\ c[i].op \notin T
                    /\ c[i].op = "pop" => c[i].size > 0
                    /\ c[i].op \in {"jmp", "test"} => c[i].skip \in Nat
                    /\ \A k \in GoesOn(c[i], i) :
                         k \in 1..(l + 9) /\ S(k) = c[i].size + Effect(c[i])
<1>5. OK(1)
  <2>1. GoesOn(c[1], 1) = {2} /\ Effect(c[1]) = -1
    BY <1>2 DEF GoesOn, Effect
  <2>2. c[1].size = n + 1 /\ c[1].op = "pop"
    BY <1>2
  <2>3. c[1].size + Effect(c[1]) = n
    BY <2>1, <2>2
  <2>4. 2 \in 1..(l + 9) /\ S(2) = n
    BY <1>4
  <2>5. \A k \in GoesOn(c[1], 1) : k \in 1..(l + 9) /\ S(k) = c[1].size + Effect(c[1])
    BY <2>1, <2>3, <2>4
  <2> QED  BY <2>2, <2>5 DEF MayExclude
<1>6. OK(2)
  <2>1. GoesOn(c[2], 2) = {3, l + 7} /\ Effect(c[2]) = 0
    <3>1. GoesOn(c[2], 2) = {2 + 1, 2 + 1 + (l + 4)}
      BY <1>2 DEF GoesOn
    <3>2. 2 + 1 + (l + 4) = l + 7 /\ 2 + 1 = 3
      OBVIOUS
    <3> QED  BY <1>2, <3>1, <3>2 DEF Effect
  <2> QED  BY <1>2, <1>4, <2>1 DEF MayExclude
<1>7. OK(l + 3)
  <2>1. GoesOn(c[l + 3], l + 3) = {l + 4} /\ Effect(c[l + 3]) = -1
    <3>1. c[l + 3].op = "pop"
      BY <1>2
    <3>2. GoesOn(c[l + 3], l + 3) = {l + 3 + 1} /\ Effect(c[l + 3]) = -1
      BY <3>1 DEF GoesOn, Effect
    <3>3. l + 3 + 1 = l + 4
      OBVIOUS
    <3> QED  BY <3>2, <3>3
  <2> QED  BY <1>2, <1>4, <2>1 DEF MayExclude
<1>8. OK(l + 4)
  <2>1. GoesOn(c[l + 4], l + 4) = {l + 5, l + 7} /\ Effect(c[l + 4]) = 0
    <3>1. GoesOn(c[l + 4], l + 4) = {l + 4 + 1, l + 4 + 1 + 2}
      BY <1>2 DEF GoesOn
    <3>2. l + 4 + 1 = l + 5 /\ l + 4 + 1 + 2 = l + 7
      OBVIOUS
    <3>3. c[l + 4].op = "test"
      BY <1>2
    <3>4. Effect(c[l + 4]) = 0
      BY <3>3 DEF Effect
    <3> QED  BY <3>1, <3>2, <3>4
  <2>2. c[l + 4].size = n /\ c[l + 4].op = "test" /\ c[l + 4].skip = 2
    BY <1>2
  <2> QED  BY <1>2, <1>4, <2>1, <2>2 DEF MayExclude
<1>9. OK(l + 5)
  <2>1. GoesOn(c[l + 5], l + 5) = {l + 6} /\ Effect(c[l + 5]) = 0
    <3>1. c[l + 5].op = "mov"
      BY <1>2
    <3>2. GoesOn(c[l + 5], l + 5) = {l + 5 + 1} /\ Effect(c[l + 5]) = 0
      BY <3>1 DEF GoesOn, Effect
    <3>3. l + 5 + 1 = l + 6
      OBVIOUS
    <3> QED  BY <3>2, <3>3
  <2> QED  BY <1>2, <1>4, <2>1 DEF MayExclude
<1>10. OK(l + 6)
  <2>1. GoesOn(c[l + 6], l + 6) = {l + 8} /\ Effect(c[l + 6]) = 0
    <3>1. GoesOn(c[l + 6], l + 6) = {l + 6 + 1 + 1}
      BY <1>2 DEF GoesOn
    <3>2. l + 6 + 1 + 1 = l + 8
      OBVIOUS
    <3> QED  BY <1>2, <3>1, <3>2 DEF Effect
  <2> QED  BY <1>2, <1>4, <2>1 DEF MayExclude
<1>11. OK(l + 7)
  <2>1. GoesOn(c[l + 7], l + 7) = {l + 8} /\ Effect(c[l + 7]) = 0
    <3>1. c[l + 7].op = "mov"
      BY <1>2
    <3>2. GoesOn(c[l + 7], l + 7) = {l + 7 + 1} /\ Effect(c[l + 7]) = 0
      BY <3>1 DEF GoesOn, Effect
    <3>3. l + 7 + 1 = l + 8
      OBVIOUS
    <3> QED  BY <3>2, <3>3
  <2> QED  BY <1>2, <1>4, <2>1 DEF MayExclude
<1>12. OK(l + 8)
  <2>1. GoesOn(c[l + 8], l + 8) = {l + 9} /\ Effect(c[l + 8]) = 1
    <3>1. c[l + 8].op = "push"
      BY <1>2
    <3>2. GoesOn(c[l + 8], l + 8) = {l + 8 + 1} /\ Effect(c[l + 8]) = 1
      BY <3>1 DEF GoesOn, Effect
    <3>3. l + 8 + 1 = l + 9
      OBVIOUS
    <3> QED  BY <3>2, <3>3
  <2> QED  BY <1>2, <1>4, <2>1 DEF MayExclude
<1>13. ASSUME NEW i \in 1..l
       PROVE  OK(2 + i)
  <2>1. PICK r : r = rhs[i]
    OBVIOUS
  <2>2. c[2 + i] = r
    BY <1>2, <2>1
  <2>3. /\ r.size \in Nat /\ r.op \notin T
        /\ r.op = "pop" => r.size > 0
        /\ r.op \in {"jmp", "test"} => r.skip \in Nat
        /\ \A j \in GoesOn(r, i) :
             j \in 1..(l + 1) /\ SizeAt(rhs, j, n + 1) = r.size + Effect(r)
    BY <1>1, <2>1 DEF Segment
  <2>4. ASSUME NEW j \in GoesOn(r, 2 + i)
        PROVE  j \in 1..(l + 9) /\ S(j) = r.size + Effect(r)
    <3>1. PICK k : j = 2 + k /\ k \in GoesOn(r, i)
      <4>1. CASE j = 2 + i + 1 /\ r.op # "jmp"
        <5>1. j = 2 + (i + 1)
          BY <4>1
        <5>2. i + 1 \in GoesOn(r, i)
          BY <4>1 DEF GoesOn
        <5> QED  BY <5>1, <5>2
      <4>2. CASE j = 2 + i + 1 + r.skip /\ r.op \in {"jmp", "test"}
        <5>1. PICK s \in Nat : s = r.skip
          BY <2>3, <4>2
        <5>2. j = 2 + (i + 1 + s)
          BY <4>2, <5>1
        <5>3. i + 1 + s \in GoesOn(r, i)
          BY <4>2, <5>1 DEF GoesOn
        <5> QED  BY <5>2, <5>3
      <4> QED  BY <4>1, <4>2, <2>4 DEF GoesOn
    <3>2. k \in 1..(l + 1) /\ SizeAt(rhs, k, n + 1) = r.size + Effect(r)
      BY <2>3, <3>1
    <3> HIDE DEF S
    <3> QED  BY <1>3, <3>1, <3>2
  <2> QED  BY <2>2, <2>3, <2>4
<1>14. ASSUME NEW i \in 1..(l + 8)
       PROVE  OK(i)
  <2> HIDE DEF OK
  <2>1. CASE i \in 3..(l + 2)
    <3>1. PICK j \in 1..l : i = 2 + j
      <4>1. i - 2 \in 1..l /\ i = 2 + (i - 2)
        BY <2>1
      <4> QED  BY <4>1
    <3> QED  BY <1>13, <3>1
  <2>2. CASE i \notin 3..(l + 2)
    <3>1. i \in {1, 2, l + 3, l + 4, l + 5, l + 6, l + 7, l + 8}
      BY <2>2
    <3> QED  BY <3>1, <1>5, <1>6, <1>7, <1>8, <1>9, <1>10, <1>11, <1>12
  <2> QED  BY <2>1, <2>2
<1>15. 1..(Len(c) + 1) = 1..(l + 9) /\ 1..Len(c) = 1..(l + 8) /\ n + 1 \in Nat
  BY <1>2
<1>16. SizeAt(c, 1, n + 1) = n + 1
  BY <1>4 DEF S
<1>17. ASSUME NEW i \in 1..(l + 8)
       PROVE  /\ c[i].size \in Nat /\ c[i].op \notin T
              /\ c[i].op = "pop" => c[i].size > 0
              /\ c[i].op \in {"jmp", "test"} => c[i].skip \in Nat
              /\ \A k \in GoesOn(c[i], i) :
                   k \in 1..(l + 9) /\ SizeAt(c, k, n + 1) = c[i].size + Effect(c[i])
  BY <1>14 DEF S
<1> QED  BY <1>2, <1>15, <1>16, <1>17, Zenon DEF Segment

(* Pieces of code that each grow the stack by as much.                     *)
LEMMA SegmentFlatten ==
  ASSUME NEW I, NEW ss \in Seq(Seq(I)), NEW l \in Nat, l = Len(ss), NEW T,
         NEW depth, \A i \in 0..l : depth[i] \in Nat,
         \A i \in 1..l : Segment(ss[i], depth[i - 1], depth[i], T)
  PROVE  Segment(FlattenSeq(ss), depth[0], depth[l], T)
<1>1. CASE l = 0
  <2>1. ss = <<>>
    <3>1. Len(ss) = 0
      BY <1>1
    <3> QED  BY <3>1
  <2>2. FlattenSeq(ss) = <<>>
    BY <2>1, FlattenEmpty
  <2> QED  BY <1>1, <2>2, SegmentNone
<1>2. CASE l > 0
  <2>1. PICK f : Joins(I, ss, f)
    BY <1>2, FlattenTyped
  <2>2. /\ f[1] = ss[1] /\ FlattenSeq(ss) = f[l]
        /\ \A i \in 1..l : i # 1 => f[i] = f[i - 1] \o ss[i]
    <3>1. 1 \in 1..l
      BY <1>2
    <3> QED  BY <2>1, <3>1 DEF Joins
  <2> DEFINE P == {i \in Nat : i + 1 <= l =>
                                 Segment(f[i + 1], depth[0], depth[i + 1], T)}
  <2>3. 0 \in P
    <3>1. PICK j \in 1..l : j = 1 /\ j - 1 = 0 /\ 0 + 1 = j
      BY <1>2
    <3>2. Segment(ss[j], depth[j - 1], depth[j], T)
      OBVIOUS
    <3>3. Segment(ss[1], depth[0], depth[1], T)
      BY <3>1, <3>2
    <3>4. Segment(f[0 + 1], depth[0], depth[0 + 1], T)
      BY <2>2, <3>1, <3>3
    <3> QED  BY <3>4
  <2>4. ASSUME NEW i \in Nat, i \in P
        PROVE  i + 1 \in P
    <3> SUFFICES ASSUME i + 1 + 1 <= l
                 PROVE  Segment(f[i + 1 + 1], depth[0], depth[i + 1 + 1], T)
      OBVIOUS
    <3>1. PICK j \in 1..l : j = i + 1 + 1 /\ j # 1 /\ j - 1 = i + 1
      <4>1. i + 1 + 1 \in 1..l
        OBVIOUS
      <4> QED  BY <4>1
    <3>2. Segment(f[j - 1], depth[0], depth[j - 1], T)
      <4>1. i + 1 <= l
        OBVIOUS
      <4>2. Segment(f[i + 1], depth[0], depth[i + 1], T)
        BY <2>4, <4>1
      <4> QED  BY <3>1, <4>2
    <3>3. f[j] = f[j - 1] \o ss[j] /\ Segment(ss[j], depth[j - 1], depth[j], T)
      BY <2>2, <3>1
    <3>4. PICK a, b, p, q, r : /\ a = f[j - 1] /\ b = ss[j] /\ p = depth[0]
                               /\ q = depth[j - 1] /\ r = depth[j]
      OBVIOUS
    <3>5. Segment(a \o b, p, r, T)
      BY <3>2, <3>3, <3>4, SegmentJoin
    <3>6. Segment(f[j], depth[0], depth[j], T)
      BY <3>3, <3>4, <3>5
    <3> QED  BY <3>1, <3>6
  <2>5. Nat \subseteq P
    <3> HIDE DEF P
    <3> QED  BY <2>3, <2>4, InductionOnNat
  <2>6. PICK i \in Nat : i + 1 = l
    <3>1. l - 1 \in Nat /\ (l - 1) + 1 = l
      BY <1>2
    <3> QED  BY <3>1
  <2>7. Segment(f[i + 1], depth[0], depth[i + 1], T)
    BY <2>5, <2>6
  <2> QED  BY <2>2, <2>6, <2>7
<1> QED  BY <1>1, <1>2

-----------------------------------------------------------------------------
(* e and the expressions in it.                                            *)

(* Parts obeys its definition.                                             *)
LEMMA PartsEquation ==
  ASSUME NEW e \in Exprs
  PROVE  /\ Parts(e) = {e} \cup UNION {Parts(o) : o \in Operands(e)}
         /\ Parts(e) \subseteq Exprs
<1> DEFINE S == SUBSET Exprs
           partsOf(x, h) == {x} \cup UNION {h[o] : o \in Operands(x)}
           step == [x \in Exprs |-> [h \in [Exprs -> S] |-> partsOf(x, h)]]
           parts == CHOOSE f : f = [x \in Exprs |->
                      {x} \cup UNION {f[o] : o \in Operands(x)}]
<1>1. S # {}
  OBVIOUS
<1>2. ASSUME NEW x \in Exprs, NEW h \in [Exprs -> S]
      PROVE  partsOf(x, h) \in S
  <2>1. \A o \in Operands(x) : h[o] \in S
    BY OperandsSmaller
  <2> QED  BY <2>1
<1>3. step \in [Exprs -> [[Exprs -> S] -> S]]
  <2> HIDE DEF S, partsOf
  <2> QED  BY <1>2
<1>4. ASSUME NEW x \in Exprs, NEW f \in [Exprs -> S], NEW g \in [Exprs -> S],
             \A o \in Operands(x) : f[o] = g[o]
      PROVE  step[x][f] = step[x][g]
  <2>1. {f[o] : o \in Operands(x)} = {g[o] : o \in Operands(x)}
    BY <1>4
  <2>2. partsOf(x, f) = partsOf(x, g)
    BY <2>1
  <2> HIDE DEF S, partsOf
  <2> QED  BY <2>2
<1> HIDE DEF S, step
<1>5. PICK f \in [Exprs -> S] : \A x \in Exprs : f[x] = step[x][f]
  <2>1. LooksAtOperands(S, step)
    BY <1>1, <1>3, <1>4 DEF LooksAtOperands
  <2> QED  BY <2>1, OnOperandsDefines
<1>6. f = [x \in Exprs |-> {x} \cup UNION {f[o] : o \in Operands(x)}]
  <2>1. \A x \in Exprs : f[x] = partsOf(x, f)
    <3> HIDE DEF partsOf
    <3> QED  BY <1>5 DEF step
  <2> QED  BY <2>1
<1>7. parts = [x \in Exprs |-> {x} \cup UNION {parts[o] : o \in Operands(x)}]
  BY <1>6
<1> HIDE DEF parts
<1>8. \A x : Parts(x) = parts[x]
  BY DEF Parts, parts
<1>9. \A x \in Exprs : parts[x] = {x} \cup UNION {parts[o] : o \in Operands(x)}
  BY <1>7
<1> DEFINE P == {x \in Exprs : parts[x] \subseteq Exprs}
<1>10. ASSUME NEW x \in Exprs, \A o \in Operands(x) : o \in P
       PROVE  x \in P
  BY <1>9, <1>10
<1>11. Exprs \subseteq P
  <2> HIDE DEF P
  <2> QED  BY <1>10, OnOperands
<1>12. {Parts(o) : o \in Operands(e)} = {parts[o] : o \in Operands(e)}
  BY <1>8
<1> QED  BY <1>8, <1>9, <1>11, <1>12

(* An operand's parts are parts.                                           *)
LEMMA PartsOfOperands ==
  ASSUME NEW e \in Exprs
  PROVE  /\ e \in Parts(e) /\ Parts(e) \subseteq Exprs
         /\ \A o \in Operands(e) : Parts(o) \subseteq Parts(e)
BY PartsEquation

(* Popping an argument.                                                    *)
LEMMA TakeTyped ==
  ASSUME NEW vs, NEW e, NEW n \in Nat, NEW i \in Nat, i > 0
  PROVE  TakeCode(e, vs, n, i) \in Codes(vs)
<1>1. PICK I : I = Instructions(vs)
  OBVIOUS
<1>2. PICK r \in Regs : r = kArgRegs[i]
  BY RegisterNames
<1>3. PICK k, k1 \in Int : k = n + i - 1 /\ k1 = n + i
  <2>1. n + i - 1 \in Int /\ n + i \in Int
    OBVIOUS
  <2> QED  BY <2>1
<1>4. PICK a, b : a = Pop(k1, r)
                  /\ b = Convert(k, r, GenKind(e.args[i], vs), Sigs[e.f].params[i])
  OBVIOUS
<1>5. a \in Seq(I) /\ b \in Seq(I)
  BY <1>1, <1>4, InstructionsTyped
<1>6. TakeCode(e, vs, n, i) = a \o b
  BY <1>2, <1>3, <1>4 DEF TakeCode
<1> QED  BY <1>1, <1>5, <1>6, ConcatTyped DEF Codes

(* No + in e is of a string and something else, as the generator sees it.  *)
Plain(e, vs) ==
  \A x \in Parts(e) : x.k = "bin" /\ x.op = "+" =>
    (GenKind(x.l, vs) = "Str") = (GenKind(x.r, vs) = "Str")

(* Every expression pushes one word, along every path through its code,    *)
(* and without mixed + there is no conversion to a string in it.           *)
LEMMA GenSegment ==
  ASSUME NEW vs, NEW T, MayExclude(T)
  PROVE  \A e \in Exprs : T = {} \/ Plain(e, vs) =>
           \A n \in Nat : Segment(Gen(e, vs, n), n, n + 1, T)
<1> DEFINE P == {e \in Exprs : T = {} \/ Plain(e, vs) =>
                   \A n \in Nat : Segment(Gen(e, vs, n), n, n + 1, T)}
<1>1. ASSUME NEW e \in Exprs, \A o \in Operands(e) : o \in P
      PROVE  e \in P
  <2> SUFFICES ASSUME T = {} \/ Plain(e, vs), NEW n \in Nat
               PROVE  Segment(Gen(e, vs, n), n, n + 1, T)
    OBVIOUS
  <2>1. ASSUME NEW o \in Operands(e), NEW k \in Nat
        PROVE  Segment(Gen(o, vs, k), k, k + 1, T)
    <3>1. T = {} \/ Plain(o, vs)
      BY PartsOfOperands DEF Plain
    <3> QED  BY <1>1, <3>1
  <2> HIDE DEF P
  <2>2. n + 1 \in Nat /\ n + 2 \in Nat /\ (n + 1) - 1 = n /\ (n + 2) - 1 = n + 1
        /\ n + 1 + 1 = n + 2 /\ n + 1 > 0 /\ n + 2 > 0
    OBVIOUS
  <2>3. PICK n1, n2 \in Nat : n1 = n + 1 /\ n2 = n + 2
    BY <2>2
  <2>4. /\ Segment(Push(n, "rax"), n, n1, T)
        /\ Segment(Pop(n + 1, "rax"), n1, n, T)
        /\ Segment(Pop(n + 2, "rax"), n2, n1, T)
        /\ Segment(Pop(n + 1, "rbx"), n1, n, T)
    BY <2>2, <2>3, SegmentInstructions
  <2>5. CASE e.k = "lit"
    <3>1. PICK a, b : a = Mov(n, "rax", e.word) /\ b = Push(n, "rax")
      OBVIOUS
    <3>2. Segment(a, n, n, T) /\ Segment(b, n, n1, T)
      BY <2>4, <3>1, SegmentInstructions
    <3>3. Segment(a \o b, n, n1, T)
      BY <3>2, SegmentJoin
    <3>4. Gen(e, vs, n) = a \o b
      BY <2>5, <3>1, GenEquations
    <3> QED  BY <2>3, <3>3, <3>4
  <2>6. CASE e.k = "var"
    <3>1. Gen(e, vs, n) = PushVar(n, Place(Lookup(vs, e.x), n))
      BY <2>6, GenEquations
    <3> QED  BY <3>1, SegmentInstructions
  <2>7. CASE e.k = "un"
    <3>1. PICK f, c, d : /\ f = IF e.op = "-" /\ GenKind(e.e, vs) = "Float" THEN "btc" ELSE e.op
                      /\ c = Gen(e.e, vs, n) /\ d = Arith(n, "un", f)
      OBVIOUS
    <3>2. Segment(d, n, n, T)
      BY <3>1, SegmentInstructions
    <3>3. Segment(c, n, n1, T)
      BY <2>1, <2>3, <2>7, <3>1, OperandsSmaller
    <3>4. Segment(c \o Pop(n + 1, "rax"), n, n, T)
      BY <2>4, <3>3, SegmentJoin
    <3>5. Segment(c \o Pop(n + 1, "rax") \o d, n, n, T)
      BY <3>2, <3>4, SegmentJoin
    <3>6. Segment(c \o Pop(n + 1, "rax") \o d \o Push(n, "rax"), n, n1, T)
      BY <2>4, <3>5, SegmentJoin
    <3> QED  BY <2>3, <2>7, <3>1, <3>6, GenEquations
  <2>8. CASE e.k = "bump"
    <3>1. PICK a, b, c, d :
            /\ a = PushVar(n, Place(Lookup(vs, e.x), n))
            /\ b = Bump(n, Place(Lookup(vs, e.x), n), e.by)
            /\ c = Bump(n + 1, PostLoc(Lookup(vs, e.x), n), e.by)
            /\ d = Gen(e, vs, n)
      OBVIOUS
    <3>2. Segment(a, n, n1, T) /\ Segment(b, n, n, T) /\ Segment(c, n1, n1, T)
      BY <2>3, <3>1, SegmentInstructions
    <3>3. d = b \o a \/ d = a \o c
      BY <2>8, <3>1, GenEquations DEF GenIncDec
    <3>4. Segment(b \o a, n, n1, T) /\ Segment(a \o c, n, n1, T)
      BY <3>2, SegmentJoin
    <3> QED  BY <2>3, <3>1, <3>3, <3>4
  <2>9. CASE e.k = "bin" /\ e.op \in {"&&", "||"}
    <3>1. PICK lhs, rhs : lhs = Gen(e.l, vs, n) /\ rhs = Gen(e.r, vs, n)
      OBVIOUS
    <3>2. Segment(lhs, n, n1, T) /\ Segment(rhs, n, n + 1, T)
      BY <2>1, <2>3, <2>9, <3>1, OperandsSmaller
    <3>3. IsSeq(lhs) /\ IsSeq(rhs)
      BY <3>2 DEF Segment
    <3>4. PICK c : /\ ShortCircuit(e.op, lhs, rhs, n) = lhs \o c
                   /\ LogicCode(c, e.op = "&&", Truth(e.op = "&&"), Truth(e.op = "||"), rhs, n)
      <4>1. PICK op : op = e.op
        OBVIOUS
      <4>2. PICK c : ShortCircuits(op, lhs, rhs, n, c)
        BY <3>3, ShortCircuitCode
      <4>3. /\ ShortCircuit(op, lhs, rhs, n) = lhs \o c
            /\ LogicCode(c, op = "&&", Truth(op = "&&"), Truth(op = "||"), rhs, n)
        BY <4>2, Zenon DEF ShortCircuits
      <4> QED  BY <4>1, <4>3, Zenon
    <3>5. Segment(c, n + 1, n + 1, T)
      BY <3>2, <3>4, SegmentLogic
    <3>6. Segment(c, n1, n1, T)
      BY <2>3, <3>5
    <3>7. Segment(lhs \o c, n, n1, T)
      BY <3>2, <3>6, SegmentJoin
    <3> QED  BY <2>3, <2>9, <3>1, <3>4, <3>7, GenEquations
  <2>10. CASE e.k = "bin" /\ e.op \notin {"&&", "||"}
    <3>1. PICK y, z, o : /\ y = Gen(e.r, vs, n) /\ z = Gen(e.l, vs, n + 1)
                         /\ o = Operate(e.op, GenKind(e.l, vs), GenKind(e.r, vs), n)
      OBVIOUS
    <3>2. Segment(y, n, n1, T) /\ Segment(z, n1, n2, T)
      BY <2>1, <2>2, <2>3, <2>10, <3>1, OperandsSmaller
    <3>3. Segment(o, n, n, T)
      <4>1. T = {} \/ (e.op = "+" => (GenKind(e.l, vs) = "Str") = (GenKind(e.r, vs) = "Str"))
        BY <2>10, PartsOfOperands DEF Plain
      <4> QED  BY <3>1, <4>1, SegmentOperate
    <3>4. Segment(y \o z, n, n2, T)
      BY <3>2, SegmentJoin
    <3>5. Segment(y \o z \o Pop(n + 2, "rax"), n, n1, T)
      BY <2>4, <3>4, SegmentJoin
    <3>6. Segment(y \o z \o Pop(n + 2, "rax") \o Pop(n + 1, "rbx"), n, n, T)
      BY <2>4, <3>5, SegmentJoin
    <3>7. Segment(y \o z \o Pop(n + 2, "rax") \o Pop(n + 1, "rbx") \o o, n, n, T)
      BY <3>3, <3>6, SegmentJoin
    <3>8. Segment(y \o z \o Pop(n + 2, "rax") \o Pop(n + 1, "rbx") \o o
                  \o Push(n, "rax"), n, n1, T)
      BY <2>4, <3>7, SegmentJoin
    <3> QED  BY <2>3, <2>10, <3>1, <3>8, GenEquations
  <2>11. CASE e.k = "call"
    <3>1. PICK m \in Nat : m = Len(e.args)
      <4>1. e.args \in Seq(Exprs)
        BY <2>11, OperandsSmaller
      <4> QED  BY <4>1
    <3>2. ASSUME NEW i \in 1..m
          PROVE  /\ Segment(Gen(e.args[i], vs, n + i - 1), n + i - 1, n + i, T)
                 /\ Segment(TakeCode(e, vs, n, i), n + i, n + i - 1, T)
                 /\ Gen(e.args[i], vs, n + i - 1) \in Codes(vs)
      <4>1. PICK k, k1 \in Nat : k = n + i - 1 /\ k1 = n + i /\ k1 = k + 1 /\ k1 > 0
                                 /\ k1 - 1 = k
        <5>1. n + i - 1 \in Nat /\ n + i \in Nat
          OBVIOUS
        <5> QED  BY <5>1
      <4>2. e.args[i] \in Operands(e) /\ e.args[i] \in Exprs
        BY <2>11, <3>1, OperandsSmaller
      <4>3. Segment(Gen(e.args[i], vs, k), k, k1, T)
        BY <2>1, <4>1, <4>2
      <4>4. PICK a, b : /\ a = Pop(k1, kArgRegs[i])
                        /\ b = Convert(k, kArgRegs[i], GenKind(e.args[i], vs),
                                       Sigs[e.f].params[i])
        OBVIOUS
      <4>5. Segment(a, k1, k, T) /\ Segment(b, k, k, T)
        BY <4>1, <4>4, SegmentInstructions
      <4>6. Segment(a \o b, k1, k, T)
        BY <4>5, SegmentJoin
      <4>7. TakeCode(e, vs, n, i) = a \o b
        BY <4>1, <4>4 DEF TakeCode
      <4>8. Gen(e.args[i], vs, k) \in Codes(vs)
        BY <4>2, GenEquations
      <4> QED  BY <4>1, <4>3, <4>6, <4>7, <4>8
    <3>3. /\ ArgCodes(e, vs, n) \in Seq(Codes(vs)) /\ Len(ArgCodes(e, vs, n)) = m
          /\ \A i \in 1..m : ArgCodes(e, vs, n)[i] = Gen(e.args[i], vs, n + i - 1)
      <4>1. ArgCodes(e, vs, n) \in [1..m -> Codes(vs)]
        BY <3>1, <3>2 DEF ArgCodes
      <4> QED  BY <3>1, <4>1 DEF ArgCodes
    <3>4. /\ TakeCodes(e, vs, n) \in Seq(Codes(vs)) /\ Len(TakeCodes(e, vs, n)) = m
          /\ \A j \in 1..m : TakeCodes(e, vs, n)[j] = TakeCode(e, vs, n, m + 1 - j)
      <4>1. ASSUME NEW j \in 1..m
            PROVE  TakeCode(e, vs, n, m + 1 - j) \in Codes(vs)
        <5>1. m + 1 - j \in Nat /\ m + 1 - j > 0
          OBVIOUS
        <5> QED  BY <5>1, TakeTyped
      <4>2. TakeCodes(e, vs, n) \in [1..m -> Codes(vs)]
        BY <3>1, <4>1 DEF TakeCodes
      <4> QED  BY <3>1, <4>2 DEF TakeCodes
    <3> DEFINE up == [i \in 0..m |-> n + i]
               down == [j \in 0..m |-> n + m - j]
    <3>5. Segment(FlattenSeq(ArgCodes(e, vs, n)), n, n + m, T)
      <4>1. PICK ss, I : ss = ArgCodes(e, vs, n) /\ I = Instructions(vs)
        OBVIOUS
      <4>2. \A i \in 0..m : up[i] \in Nat
        OBVIOUS
      <4>3. ASSUME NEW i \in 1..m
            PROVE  Segment(ss[i], up[i - 1], up[i], T)
        <5>1. up[i - 1] = n + i - 1 /\ up[i] = n + i
          <6>1. i - 1 \in 0..m /\ i \in 0..m /\ n + (i - 1) = n + i - 1
            OBVIOUS
          <6> QED  BY <6>1
        <5> HIDE DEF up
        <5> QED  BY <3>2, <3>3, <4>1, <5>1
      <4>4. up[0] = n /\ up[m] = n + m
        OBVIOUS
      <4>5. ss \in Seq(Seq(I)) /\ m = Len(ss)
        BY <3>3, <4>1 DEF Codes
      <4> HIDE DEF up
      <4>6. PICK depth : depth = up
        OBVIOUS
      <4>7. Segment(FlattenSeq(ss), depth[0], depth[m], T)
        BY <4>2, <4>3, <4>5, <4>6, SegmentFlatten
      <4> QED  BY <4>1, <4>4, <4>6, <4>7
    <3>6. Segment(FlattenSeq(TakeCodes(e, vs, n)), n + m, n, T)
      <4>1. PICK ss, I : ss = TakeCodes(e, vs, n) /\ I = Instructions(vs)
        OBVIOUS
      <4>2. \A i \in 0..m : down[i] \in Nat
        OBVIOUS
      <4>3. ASSUME NEW j \in 1..m
            PROVE  Segment(ss[j], down[j - 1], down[j], T)
        <5>1. PICK i \in 1..m : i = m + 1 - j
          <6>1. m + 1 - j \in 1..m
            OBVIOUS
          <6> QED  BY <6>1
        <5>2. down[j - 1] = n + i /\ down[j] = n + i - 1
          <6>1. j - 1 \in 0..m /\ j \in 0..m /\ n + m - (j - 1) = n + i
                /\ n + m - j = n + i - 1
            BY <5>1
          <6> QED  BY <6>1
        <5>3. ss[j] = TakeCode(e, vs, n, i)
          BY <3>4, <4>1, <5>1
        <5> HIDE DEF down
        <5> QED  BY <3>2, <5>2, <5>3
      <4>4. down[0] = n + m /\ down[m] = n
        OBVIOUS
      <4>5. ss \in Seq(Seq(I)) /\ m = Len(ss)
        BY <3>4, <4>1 DEF Codes
      <4> HIDE DEF down
      <4>6. PICK depth : depth = down
        OBVIOUS
      <4>7. Segment(FlattenSeq(ss), depth[0], depth[m], T)
        BY <4>2, <4>3, <4>5, <4>6, SegmentFlatten
      <4> QED  BY <4>1, <4>4, <4>6, <4>7
    <3>7. PICK a, b, c, d, k :
            /\ a = FlattenSeq(ArgCodes(e, vs, n)) /\ b = FlattenSeq(TakeCodes(e, vs, n))
            /\ c = <<[op |-> "call", size |-> n, f |-> e.f]>> /\ d = Push(n, "rax")
            /\ k = n + m
      OBVIOUS
    <3>8. Segment(a, n, k, T) /\ Segment(b, k, n, T) /\ Segment(c, n, n, T)
          /\ Segment(d, n, n1, T)
      BY <2>4, <3>5, <3>6, <3>7, SegmentInstructions
    <3>9. Segment(a \o b, n, n, T)
      BY <3>8, SegmentJoin
    <3>10. Segment(a \o b \o c, n, n, T)
      BY <3>8, <3>9, SegmentJoin
    <3>11. Segment(a \o b \o c \o d, n, n1, T)
      BY <3>8, <3>10, SegmentJoin
    <3>12. Gen(e, vs, n) = a \o b \o c \o d
      BY <2>11, <3>7, GenCallEquation
    <3> QED  BY <2>3, <3>11, <3>12
  <2> QED  BY <2>5, <2>6, <2>7, <2>8, <2>9, <2>10, <2>11, OperandsSmaller
<1>2. Exprs \subseteq P
  <2> HIDE DEF P
  <2> QED  BY <1>1, OnOperands
<1> QED  BY <1>2

-----------------------------------------------------------------------------
(* Statements.                                                             *)

(* The depth behind a statement.                                           *)
Depth(s, n) == IF s.k = "decl" THEN n + 1 ELSE n

(* Every statement keeps to its depths.                                    *)
LEMMA StmtSegment ==
  ASSUME NEW s, IsStatement(s), NEW vs, NEW n \in Nat, NEW T, MayExclude(T),
         T = {} \/ \A e \in ExprsOf(s) : Plain(e, vs)
  PROVE  Segment(GenStmt(s, vs, n), n, Depth(s, n), T)
<1>1. PICK n1 \in Nat : n1 = n + 1 /\ n1 > 0 /\ n1 - 1 = n
  <2>1. n + 1 \in Nat /\ n + 1 > 0 /\ (n + 1) - 1 = n
    OBVIOUS
  <2> QED  BY <2>1
<1>2. ASSUME NEW e \in ExprsOf(s)
      PROVE  e \in Exprs /\ Segment(Gen(e, vs, n), n, n1, T)
  <2>1. e \in Exprs
    BY DEF IsStatement, ExprsOf
  <2> QED  BY <1>1, <2>1, GenSegment
<1>3. CASE s.k \in {"leeh", "shevti", "partav", "expr"}
  <2>1. PICK r, v : /\ r = (IF s.k \in {"leeh", "shevti"} THEN "rdi" ELSE "rax")
                    /\ v = (IF s.k = "partav"
                              THEN Convert(n, "rax", GenKind(s.e, vs), ReturnKind)
                              ELSE <<>>)
    OBVIOUS
  <2>2. PICK c, d, t : /\ c = Gen(s.e, vs, n) /\ d = Pop(n1, r)
                       /\ t = CASE s.k = "leeh" ->
                                     Take(n, "rdi", RepOf(GenKind(s.e, vs)), FALSE)
                                [] s.k = "shevti" -> Take(n, "rdi", "int", TRUE)
                                [] s.k = "partav" ->
                                     Take(n, "rax", RepOf(ReturnKind), TRUE)
                                [] s.k = "expr" ->
                                     Take(n, "rax", RepOf(GenKind(s.e, vs)), FALSE)
    OBVIOUS
  <2>3. s.e \in ExprsOf(s)
    BY <1>3 DEF ExprsOf
  <2>4. Segment(c, n, n1, T)
    BY <1>2, <2>2, <2>3
  <2>5. Segment(d, n1, n, T)
    BY <1>1, <2>2, SegmentInstructions
  <2>6. Segment(t, n, n, T)
    <3>1. CASE s.k = "leeh"
      BY <2>2, <3>1, SegmentInstructions
    <3>2. CASE s.k = "shevti"
      BY <2>2, <3>2, SegmentInstructions
    <3>3. CASE s.k = "partav"
      BY <2>2, <3>3, SegmentInstructions
    <3>4. CASE s.k = "expr"
      BY <2>2, <3>4, SegmentInstructions
    <3> QED  BY <1>3, <3>1, <3>2, <3>3, <3>4
  <2>7. Segment(c \o d, n, n, T)
    BY <2>4, <2>5, SegmentJoin
  <2>8. Segment(c \o d \o t, n, n, T)
    BY <2>6, <2>7, SegmentJoin
  <2>9. CASE s.k = "partav"
    <3>1. Segment(v, n, n, T)
      BY <2>1, <2>9, SegmentInstructions
    <3>2. Segment(c \o d \o v, n, n, T)
      BY <2>7, <3>1, SegmentJoin
    <3>3. Segment(c \o d \o v \o t, n, n, T)
      BY <2>6, <3>2, SegmentJoin
    <3>4. GenStmt(s, vs, n) = c \o d \o v \o t
      BY <1>1, <2>1, <2>2, <2>9 DEF GenStmt
    <3> QED  BY <2>9, <3>3, <3>4 DEF Depth
  <2>10. CASE s.k # "partav"
    <3>1. GenStmt(s, vs, n) = c \o d \o t
      BY <1>1, <1>3, <2>1, <2>2, <2>10 DEF GenStmt
    <3> QED  BY <1>3, <2>8, <3>1 DEF Depth
  <2> QED  BY <2>9, <2>10
<1>4. CASE s.k = "assign"
  <2>1. PICK v, kind, c : /\ v = Lookup(vs, s.x) /\ kind = GenKind(s.e, vs)
                          /\ c = Gen(s.e, vs, n)
    OBVIOUS
  <2>2. s.e \in ExprsOf(s)
    BY <1>4 DEF ExprsOf
  <2>3. Segment(c, n, n1, T)
    BY <1>2, <2>1, <2>2
  <2>4. PICK d, w, f, g :
          /\ d = Pop(n1, "rax") /\ w = Convert(n, "rax", kind, v.kind)
          /\ f = Pop(n1, "rbx") /\ g = Convert(n, "rbx", kind, v.kind)
    OBVIOUS
  <2>5. PICK l, t, o :
          /\ t = Store(n, Place(v, n)) /\ l = Load(n, "rax", Place(v, n))
          /\ o = IF v.kind = "Float" /\ s.op \in Arithmetic
                   THEN Operate(s.op, v.kind, "Float", n)
                   ELSE Arith(n, "int", s.op)
    OBVIOUS
  <2>6. /\ Segment(d, n1, n, T) /\ Segment(w, n, n, T) /\ Segment(f, n1, n, T)
        /\ Segment(g, n, n, T)
    BY <1>1, <2>4, SegmentInstructions
  <2>7. Segment(t, n, n, T) /\ Segment(l, n, n, T)
    BY <2>5, SegmentInstructions
  <2>8. Segment(o, n, n, T)
    <3>1. Segment(Arith(n, "int", s.op), n, n, T)
      BY SegmentInstructions
    <3>2. v.kind = "Float" => Segment(Operate(s.op, v.kind, "Float", n), n, n, T)
      BY SegmentOperate
    <3> QED  BY <2>5, <3>1, <3>2
  <2>9. CASE s.op = "="
    <3>1. Segment(c \o d, n, n, T)
      BY <2>3, <2>6, SegmentJoin
    <3>2. Segment(c \o d \o w, n, n, T)
      BY <2>6, <3>1, SegmentJoin
    <3>3. Segment(c \o d \o w \o t, n, n, T)
      BY <2>7, <3>2, SegmentJoin
    <3>4. GenStmt(s, vs, n) = c \o d \o w \o t
      BY <1>1, <1>4, <2>1, <2>4, <2>5, <2>9 DEF GenStmt, GenAssign
    <3> QED  BY <1>4, <3>3, <3>4 DEF Depth
  <2>10. CASE s.op # "="
    <3>1. Segment(c \o f, n, n, T)
      BY <2>3, <2>6, SegmentJoin
    <3>2. Segment(c \o f \o g, n, n, T)
      BY <2>6, <3>1, SegmentJoin
    <3>3. Segment(c \o f \o g \o l, n, n, T)
      BY <2>7, <3>2, SegmentJoin
    <3>4. Segment(c \o f \o g \o l \o o, n, n, T)
      BY <2>8, <3>3, SegmentJoin
    <3>5. Segment(c \o f \o g \o l \o o \o t, n, n, T)
      BY <2>7, <3>4, SegmentJoin
    <3>6. GenStmt(s, vs, n) = c \o f \o g \o l \o o \o t
      BY <1>1, <1>4, <2>1, <2>4, <2>5, <2>10 DEF GenStmt, GenAssign
    <3> QED  BY <1>4, <3>5, <3>6 DEF Depth
  <2> QED  BY <2>9, <2>10
<1>5. CASE s.k = "decl"
  <2>1. PICK to : to = ResolveStorageKind(s.type)
    OBVIOUS
  <2>2. GenStmt(s, vs, n) = GenDecl(s, vs, n) /\ Depth(s, n) = n1
    BY <1>1, <1>5 DEF GenStmt, Depth
  <2>3. CASE s.init = {}
    <3>1. PICK j : j = [op |-> "pushzero", size |-> n, kind |-> to]
      OBVIOUS
    <3>2. GenDecl(s, vs, n) = <<j>>
      BY <2>1, <2>3, <3>1 DEF GenDecl
    <3>3. Segment(<<j>>, n, n1, T)
      BY <1>1, <3>1, SegmentOne DEF Effect, MayExclude
    <3> QED  BY <2>2, <3>2, <3>3
  <2>4. CASE s.init # {}
    <3>1. PICK e, from, c, d, w, q :
            /\ e = (CHOOSE i \in s.init : TRUE) /\ from = GenKind(e, vs)
            /\ c = Gen(e, vs, n) /\ d = Pop(n1, "rax")
            /\ w = Convert(n, "rax", from, to) /\ q = Push(n, "rax")
      OBVIOUS
    <3>2. e \in ExprsOf(s)
      BY <1>5, <2>4, <3>1 DEF ExprsOf
    <3>3. /\ Segment(c, n, n1, T) /\ Segment(d, n1, n, T)
          /\ Segment(w, n, n, T) /\ Segment(q, n, n1, T)
      BY <1>1, <1>2, <3>1, <3>2, SegmentInstructions
    <3>4. Segment(d \o w, n1, n, T)
      BY <3>3, SegmentJoin
    <3>5. Segment(d \o w \o q, n1, n1, T)
      BY <3>3, <3>4, SegmentJoin
    <3>6. PICK u : u = IF from = to THEN <<>> ELSE d \o w \o q
      OBVIOUS
    <3>7. Segment(u, n1, n1, T)
      BY <3>5, <3>6, SegmentNone
    <3>8. Segment(c \o u, n, n1, T)
      BY <3>3, <3>7, SegmentJoin
    <3>9. GenDecl(s, vs, n) = c \o u
      BY <1>1, <2>1, <2>4, <3>1, <3>6 DEF GenDecl
    <3> QED  BY <2>2, <3>8, <3>9
  <2> QED  BY <2>3, <2>4
<1> QED  BY <1>3, <1>4, <1>5 DEF IsStatement

-----------------------------------------------------------------------------
(* The two inferences.                                                     *)

(* SemaKind obeys its definition.                                          *)
LEMMA SemaKindEquation ==
  ASSUME NEW vs, NEW e \in Exprs
  PROVE  SemaKind(e, vs) =
           CASE e.k = "un" ->
                  IF e.op \in {"-", "+"} THEN SemaKind(e.e, vs) ELSE "Int"
             [] e.k = "bin" ->
                  SemaBinKind(e.op, SemaKind(e.l, vs), SemaKind(e.r, vs))
             [] OTHER -> NameKind(e, vs)
<1> DEFINE S == KindsGiven(vs)
           kindOf(x, h) ==
             CASE x.k = "un" -> IF x.op \in {"-", "+"} THEN h[x.e] ELSE "Int"
               [] x.k = "bin" -> SemaBinKind(x.op, h[x.l], h[x.r])
               [] OTHER -> NameKind(x, vs)
           step == [x \in Exprs |-> [h \in [Exprs -> S] |-> kindOf(x, h)]]
           kind == CHOOSE f : f = [x \in Exprs |->
                     CASE x.k = "un" -> IF x.op \in {"-", "+"} THEN f[x.e] ELSE "Int"
                       [] x.k = "bin" -> SemaBinKind(x.op, f[x.l], f[x.r])
                       [] OTHER -> NameKind(x, vs)]
<1>1. S # {}
  BY DEF KindsGiven, Kind
<1>2. ASSUME NEW x \in Exprs, NEW h \in [Exprs -> S]
      PROVE  kindOf(x, h) \in S
  <2>1. \A o \in Operands(x) : h[o] \in S
    BY OperandsSmaller
  <2>2. CASE x.k = "un"
    BY <2>1, <2>2, OperandsSmaller DEF KindsGiven, Kind
  <2>3. CASE x.k = "bin"
    BY <2>3 DEF KindsGiven, Kind, SemaBinKind
  <2>4. CASE x.k \notin {"un", "bin"}
    BY <2>4 DEF KindsGiven
  <2> QED  BY <2>2, <2>3, <2>4
<1>3. step \in [Exprs -> [[Exprs -> S] -> S]]
  <2> HIDE DEF S, kindOf
  <2> QED  BY <1>2
<1>4. ASSUME NEW x \in Exprs, NEW f \in [Exprs -> S], NEW g \in [Exprs -> S],
             \A o \in Operands(x) : f[o] = g[o]
      PROVE  step[x][f] = step[x][g]
  <2>1. kindOf(x, f) = kindOf(x, g)
    BY <1>4, OperandsSmaller
  <2> HIDE DEF kindOf
  <2> QED  BY <2>1
<1> HIDE DEF S, step
<1>5. PICK f \in [Exprs -> S] : \A x \in Exprs : f[x] = step[x][f]
  <2>1. LooksAtOperands(S, step)
    BY <1>1, <1>3, <1>4 DEF LooksAtOperands
  <2> QED  BY <2>1, OnOperandsDefines
<1>6. f = [x \in Exprs |->
             CASE x.k = "un" -> IF x.op \in {"-", "+"} THEN f[x.e] ELSE "Int"
               [] x.k = "bin" -> SemaBinKind(x.op, f[x.l], f[x.r])
               [] OTHER -> NameKind(x, vs)]
  <2>1. \A x \in Exprs : f[x] = kindOf(x, f)
    <3> HIDE DEF kindOf
    <3> QED  BY <1>5 DEF step
  <2> QED  BY <2>1
<1>7. kind = [x \in Exprs |->
                CASE x.k = "un" -> IF x.op \in {"-", "+"} THEN kind[x.e] ELSE "Int"
                  [] x.k = "bin" -> SemaBinKind(x.op, kind[x.l], kind[x.r])
                  [] OTHER -> NameKind(x, vs)]
  BY <1>6
<1> HIDE DEF kind
<1>8. \A x : SemaKind(x, vs) = kind[x]
  BY DEF SemaKind, kind
<1> QED  BY <1>7, <1>8

(* They agree on what is a string.                                         *)
LEMMA StringsAgree ==
  ASSUME NEW vs
  PROVE  \A e \in Exprs : (SemaKind(e, vs) = "Str") <=> (GenKind(e, vs) = "Str")
<1> DEFINE P == {e \in Exprs : (SemaKind(e, vs) = "Str") <=> (GenKind(e, vs) = "Str")}
<1>1. ASSUME NEW e \in Exprs, \A o \in Operands(e) : o \in P
      PROVE  e \in P
  <2>1. CASE e.k = "un"
    <3>1. e.e \in P
      BY <1>1, <2>1, OperandsSmaller
    <3> QED  BY <2>1, <3>1, GenKindEquation, SemaKindEquation
  <2>2. CASE e.k = "bin"
    <3>1. e.l \in P /\ e.r \in P
      BY <1>1, <2>2, OperandsSmaller
    <3>2. PICK a, b, c, d : /\ a = SemaKind(e.l, vs) /\ b = SemaKind(e.r, vs)
                            /\ c = GenKind(e.l, vs) /\ d = GenKind(e.r, vs)
      OBVIOUS
    <3>3. (a = "Str" <=> c = "Str") /\ (b = "Str" <=> d = "Str")
      BY <3>1, <3>2
    <3>4. SemaKind(e, vs) = SemaBinKind(e.op, a, b)
          /\ GenKind(e, vs) = GenBinKind(e.op, c, d)
      BY <2>2, <3>2, GenKindEquation, SemaKindEquation
    <3>5. (SemaBinKind(e.op, a, b) = "Str") <=> (GenBinKind(e.op, c, d) = "Str")
      BY <3>3 DEF SemaBinKind, GenBinKind, Either
    <3> QED  BY <3>4, <3>5
  <2>3. CASE e.k \notin {"un", "bin"}
    BY <2>3, GenKindEquation, SemaKindEquation
  <2> QED  BY <2>1, <2>2, <2>3
<1>2. Exprs \subseteq P
  <2> HIDE DEF P
  <2> QED  BY <1>1, OnOperands
<1> QED  BY <1>2

-----------------------------------------------------------------------------
(* Variables.                                                              *)

(* A set of numbers up to n has a greatest.                                *)
LEMMA MaxIn ==
  ASSUME NEW n \in Nat, NEW S \in SUBSET (1..n), S # {}
  PROVE  Max(S) \in S /\ \A i \in S : i <= Max(S)
<1> DEFINE T == {n - i : i \in S}
<1>1. T \in SUBSET Nat /\ T # {}
  <2>1. \A i \in S : i \in 1..n
    OBVIOUS
  <2>2. \A i \in 1..n : n - i \in Nat
    OBVIOUS
  <2> QED  BY <2>1, <2>2
<1>2. PICK x \in T : \A y \in T : x <= y
  <2> HIDE DEF T
  <2> QED  BY <1>1, LeastNatural
<1>3. PICK k \in S : x = n - k
  BY <1>2
<1>4. \A i \in S : k >= i
  <2>1. ASSUME NEW i \in S PROVE k >= i
    <3>1. x <= n - i
      BY <1>2
    <3> QED  BY <1>3, <3>1
  <2> QED  BY <2>1
<1>5. \E y \in S : \A i \in S : y >= i
  BY <1>4
<1>6. Max(S) \in S /\ \A i \in S : Max(S) >= i
  BY <1>5 DEF Max
<1> QED  BY <1>6

(* The entries of a name.                                                  *)
Indices(vs, x) == {i \in DOMAIN vs : vs[i].name = x}

(* Looking up a name in scope finds an entry of that name.                 *)
LEMMA LookupIn ==
  ASSUME NEW vs, IsSeq(vs), NEW x \in Names(vs)
  PROVE  /\ Max(Indices(vs, x)) \in 1..Len(vs)
         /\ Lookup(vs, x) = vs[Max(Indices(vs, x))]
         /\ Lookup(vs, x).name = x
<1>1. PICK n \in Nat : n = Len(vs) /\ DOMAIN vs = 1..n
  BY DEF IsSeq
<1>2. Indices(vs, x) \in SUBSET (1..n) /\ Indices(vs, x) # {}
  BY <1>1 DEF Indices, Names
<1>3. Max(Indices(vs, x)) \in Indices(vs, x)
  BY <1>2, MaxIn
<1> QED  BY <1>1, <1>3 DEF Lookup, Indices

(* A declaration hides no other name.                                      *)
LEMMA LookupDeclared ==
  ASSUME NEW vs, IsSeq(vs), NEW s, NEW n, NEW x \in Names(vs),
         s.k = "decl" => x # s.x
  PROVE  Lookup(Declared(vs, s, n), x) = Lookup(vs, x)
<1>1. CASE s.k # "decl"
  BY <1>1 DEF Declared
<1>2. CASE s.k = "decl"
  <2>1. PICK v, ws : /\ v = [name |-> s.x, kind |-> ResolveStorageKind(s.type),
                             static |-> FALSE, loc |-> n]
                     /\ ws = Append(vs, v)
    OBVIOUS
  <2>2. Declared(vs, s, n) = ws
    BY <1>2, <2>1 DEF Declared
  <2>3. PICK m \in Nat : m = Len(vs) /\ DOMAIN vs = 1..m
    BY DEF IsSeq
  <2>4. DOMAIN ws = 1..(m + 1) /\ ws[m + 1] = v /\ \A i \in 1..m : ws[i] = vs[i]
    BY <2>1, <2>3 DEF IsSeq
  <2>5. Indices(ws, x) = Indices(vs, x)
    <3>1. v.name # x
      BY <1>2, <2>1
    <3>2. \A i : i \in 1..(m + 1) <=> (i \in 1..m \/ i = m + 1)
      OBVIOUS
    <3> QED  BY <2>3, <2>4, <3>1, <3>2 DEF Indices
  <2>6. /\ Max(Indices(vs, x)) \in 1..m /\ Lookup(vs, x) = vs[Max(Indices(vs, x))]
    BY <2>3, LookupIn
  <2>7. Lookup(ws, x) = ws[Max(Indices(ws, x))]
    BY DEF Lookup, Indices
  <2> QED  BY <2>2, <2>4, <2>5, <2>6, <2>7
<1> QED  BY <1>1, <1>2

(* A part of a part is a part.                                             *)
LEMMA PartsOfParts ==
  \A e \in Exprs : \A x \in Parts(e) : Parts(x) \subseteq Parts(e)
<1> DEFINE P == {e \in Exprs : \A x \in Parts(e) : Parts(x) \subseteq Parts(e)}
<1>1. ASSUME NEW e \in Exprs, \A o \in Operands(e) : o \in P
      PROVE  e \in P
  <2>1. ASSUME NEW x \in Parts(e)
        PROVE  Parts(x) \subseteq Parts(e)
    <3>1. x = e \/ \E o \in Operands(e) : x \in Parts(o)
      BY PartsEquation
    <3>2. CASE x = e
      BY <3>2
    <3>3. ASSUME NEW o \in Operands(e), x \in Parts(o)
          PROVE  Parts(x) \subseteq Parts(e)
      <4>1. Parts(x) \subseteq Parts(o)
        BY <1>1, <3>3
      <4> QED  BY <4>1, PartsOfOperands
    <3> QED  BY <3>1, <3>2, <3>3
  <2> QED  BY <2>1
<1>2. Exprs \subseteq P
  <2> HIDE DEF P
  <2> QED  BY <1>1, OnOperands
<1> QED  BY <1>2

(* No part names what is not declared.                                     *)
AllKnown(e, names) == \A x \in Parts(e) : Known(x, names)

(* Nor does it change what kind an expression is that does not name it.    *)
LEMMA KindsDeclared ==
  ASSUME NEW vs, IsSeq(vs), NEW s, NEW n
  PROVE  \A e \in Exprs :
           AllKnown(e, Names(vs)) /\ (s.k = "decl" => s.x \notin NamesIn(e)) =>
             GenKind(e, Declared(vs, s, n)) = GenKind(e, vs)
<1>1. PICK ws : ws = Declared(vs, s, n)
  OBVIOUS
<1> DEFINE ok(e) == AllKnown(e, Names(vs)) /\ (s.k = "decl" => s.x \notin NamesIn(e))
           P == {e \in Exprs : ok(e) => GenKind(e, ws) = GenKind(e, vs)}
<1>2. ASSUME NEW e \in Exprs, \A o \in Operands(e) : o \in P
      PROVE  e \in P
  <2> SUFFICES ASSUME ok(e)
               PROVE  GenKind(e, ws) = GenKind(e, vs)
    OBVIOUS
  <2>1. ASSUME NEW o \in Operands(e)
        PROVE  GenKind(o, ws) = GenKind(o, vs)
    <3>1. Parts(o) \subseteq Parts(e)
      BY PartsOfOperands
    <3>2. NamesIn(o) \subseteq NamesIn(e)
      BY <3>1 DEF NamesIn
    <3>3. ok(o)
      BY <3>1, <3>2 DEF AllKnown
    <3> QED  BY <1>2, <3>3
  <2>2. CASE e.k = "un"
    BY <2>1, <2>2, OperandsSmaller, GenKindEquation
  <2>3. CASE e.k = "bin"
    <3>1. GenKind(e.l, ws) = GenKind(e.l, vs) /\ GenKind(e.r, ws) = GenKind(e.r, vs)
      BY <2>1, <2>3, OperandsSmaller
    <3> QED  BY <2>3, <3>1, GenKindEquation
  <2>4. CASE e.k \in {"var", "bump"}
    <3>1. e \in Parts(e)
      BY PartsOfOperands
    <3>2. e.x \in Names(vs) /\ e.x \in NamesIn(e)
      BY <2>4, <3>1 DEF AllKnown, Known, NamesIn
    <3>3. Lookup(ws, e.x) = Lookup(vs, e.x)
      BY <1>1, <3>2, LookupDeclared
    <3>4. NameKind(e, ws) = NameKind(e, vs)
      BY <2>4, <3>3 DEF NameKind
    <3> QED  BY <2>4, <3>4, GenKindEquation
  <2>5. CASE e.k \in {"lit", "call"}
    <3>1. NameKind(e, ws) = NameKind(e, vs)
      BY <2>5 DEF NameKind
    <3> QED  BY <2>5, <3>1, GenKindEquation
  <2> QED  BY <2>2, <2>3, <2>4, <2>5, OperandsSmaller
<1>3. Exprs \subseteq P
  <2> HIDE DEF P
  <2> QED  BY <1>2, OnOperands
<1> QED  BY <1>1, <1>3

(* What sema accepts has no mixed +, also as the generator sees it.        *)
LEMMA AcceptedIsPlain ==
  ASSUME NEW vs, IsSeq(vs), NEW s, NEW n, NEW e \in Exprs, Accepts(e, vs),
         s.k = "decl" => s.x \notin NamesIn(e)
  PROVE  Plain(e, Declared(vs, s, n))
<1>1. PICK ws : ws = Declared(vs, s, n)
  OBVIOUS
<1>2. ASSUME NEW x \in Parts(e), x.k = "bin", x.op = "+"
      PROVE  (GenKind(x.l, ws) = "Str") = (GenKind(x.r, ws) = "Str")
  <2>1. x \in Exprs /\ Parts(x) \subseteq Parts(e)
    BY PartsOfOperands, PartsOfParts
  <2>2. x.l \in Exprs /\ x.r \in Exprs /\ Parts(x.l) \subseteq Parts(e)
        /\ Parts(x.r) \subseteq Parts(e)
    BY <1>2, <2>1, OperandsSmaller, PartsOfOperands
  <2>3. ASSUME NEW o \in Exprs, Parts(o) \subseteq Parts(e)
        PROVE  GenKind(o, ws) = GenKind(o, vs)
    <3>1. AllKnown(o, Names(vs)) /\ NamesIn(o) \subseteq NamesIn(e)
      BY <2>3 DEF AllKnown, NamesIn, Accepts
    <3> QED  BY <1>1, <3>1, KindsDeclared
  <2>4. (SemaKind(x.l, vs) = "Str") = (SemaKind(x.r, vs) = "Str")
    BY <1>2 DEF Accepts, Addable
  <2>5. (SemaKind(x.l, vs) = "Str") <=> (GenKind(x.l, vs) = "Str")
    BY <2>2, StringsAgree
  <2>6. (SemaKind(x.r, vs) = "Str") <=> (GenKind(x.r, vs) = "Str")
    BY <2>2, StringsAgree
  <2>7. GenKind(x.l, ws) = GenKind(x.l, vs) /\ GenKind(x.r, ws) = GenKind(x.r, vs)
    BY <2>2, <2>3
  <2> QED  BY <2>4, <2>5, <2>6, <2>7
<1> QED  BY <1>1, <1>2 DEF Plain

(* Lists of variables.                                                     *)
VarLists == Seq([name: STRING, kind: Kind, static: BOOLEAN, loc: Nat])

(* How many of them are on the stack.                                      *)
LEMMA OnStackTyped ==
  ASSUME NEW vs, IsSeq(vs)
  PROVE  OnStack(vs) \in Nat
<1>1. PICK n \in Nat : DOMAIN vs = 1..n
  BY DEF IsSeq
<1>2. {i \in DOMAIN vs : ~vs[i].static} \in SUBSET (1..n)
  BY <1>1
<1>3. IsFiniteSet(1..n)
  BY FS_Interval
<1> QED  BY <1>2, <1>3, FS_Subset, FS_CardinalityType DEF OnStack

(* A declaration adds one.                                                 *)
LEMMA OnStackDeclared ==
  ASSUME NEW vs, IsSeq(vs), NEW s
  PROVE  OnStack(Declared(vs, s, OnStack(vs))) = Depth(s, OnStack(vs))
<1>1. CASE s.k # "decl"
  BY <1>1 DEF Declared, Depth
<1>2. CASE s.k = "decl"
  <2>1. PICK v, ws : /\ v = [name |-> s.x, kind |-> ResolveStorageKind(s.type),
                             static |-> FALSE, loc |-> OnStack(vs)]
                     /\ ws = Append(vs, v)
    OBVIOUS
  <2>2. Declared(vs, s, OnStack(vs)) = ws
    BY <1>2, <2>1 DEF Declared
  <2>3. PICK m \in Nat : m = Len(vs) /\ DOMAIN vs = 1..m
    BY DEF IsSeq
  <2>4. DOMAIN ws = 1..(m + 1) /\ ws[m + 1] = v /\ \A i \in 1..m : ws[i] = vs[i]
    BY <2>1, <2>3 DEF IsSeq
  <2> DEFINE S == {i \in DOMAIN vs : ~vs[i].static}
  <2>5. {i \in DOMAIN ws : ~ws[i].static} = S \cup {m + 1}
    <3>1. \A i : i \in 1..(m + 1) <=> (i \in 1..m \/ i = m + 1)
      OBVIOUS
    <3>2. ~v.static
      BY <2>1
    <3> QED  BY <2>3, <2>4, <3>1, <3>2
  <2>6. S \in SUBSET (1..m) /\ m + 1 \notin S
    BY <2>3
  <2>7. IsFiniteSet(S)
    <3>1. IsFiniteSet(1..m)
      BY FS_Interval
    <3> HIDE DEF S
    <3> QED  BY <2>6, <3>1, FS_Subset
  <2>8. Cardinality(S \cup {m + 1}) = Cardinality(S) + 1
    <3> HIDE DEF S
    <3> QED  BY <2>6, <2>7, FS_AddElement
  <2>9. OnStack(ws) = OnStack(vs) + 1
    BY <2>5, <2>8 DEF OnStack
  <2> QED  BY <1>2, <2>2, <2>9 DEF Depth
<1> QED  BY <1>1, <1>2

(* The list stays one.                                                     *)
LEMMA DeclaredTyped ==
  ASSUME NEW vs \in VarLists, NEW s, IsStatement(s), NEW n \in Nat
  PROVE  Declared(vs, s, n) \in VarLists /\ IsSeq(vs)
<1>1. CASE s.k # "decl"
  BY <1>1 DEF Declared, VarLists, IsSeq
<1>2. CASE s.k = "decl"
  <2>1. PICK v : v = [name |-> s.x, kind |-> ResolveStorageKind(s.type),
                      static |-> FALSE, loc |-> n]
    OBVIOUS
  <2>2. s.x \in STRING /\ ResolveStorageKind(s.type) \in Kind
    BY <1>2 DEF IsStatement, ResolveStorageKind, Kind
  <2>3. v \in [name: STRING, kind: Kind, static: BOOLEAN, loc: Nat]
    BY <2>1, <2>2
  <2> QED  BY <1>2, <2>1, <2>3 DEF Declared, VarLists, IsSeq
<1> QED  BY <1>1, <1>2

(* The variables there are before.                                         *)
LEMMA InitialVarsTyped == InitialVars \in VarLists /\ IsSeq(InitialVars)
<1>1. PICK m \in Nat : m = Len(Scope) /\ DOMAIN Scope = 1..m
  BY ScopeAssumption
<1>2. PICK R : R = [name: STRING, kind: Kind, static: BOOLEAN, loc: Nat, word: Words]
  OBVIOUS
<1>3. Scope \in Seq(R)
  BY <1>2, ScopeAssumption
<1>4. \A i \in 1..m : Scope[i] \in R
  BY <1>1, <1>3
<1>5. PICK Q : Q = [name: STRING, kind: Kind, static: BOOLEAN, loc: Nat]
  OBVIOUS
<1>6. ASSUME NEW i \in 1..m
      PROVE  [name |-> Scope[i].name, kind |-> Scope[i].kind,
              static |-> Scope[i].static, loc |-> Scope[i].loc] \in Q
  <2>1. PICK r \in R : r = Scope[i]
    BY <1>4
  <2>2. r.name \in STRING /\ r.kind \in Kind /\ r.static \in BOOLEAN /\ r.loc \in Nat
    BY <1>2
  <2> QED  BY <1>5, <2>1, <2>2
<1>7. InitialVars \in [1..m -> Q]
  BY <1>1, <1>6 DEF InitialVars
<1>8. InitialVars \in Seq(Q)
  BY <1>7
<1> QED  BY <1>5, <1>8 DEF VarLists, IsSeq

(* A sequence of statements.                                               *)
Sound(p) == \E n \in Nat : DOMAIN p = 1..n /\ Len(p) = n /\ \A i \in 1..n : IsStatement(p[i])

(* Programs are.                                                           *)
LEMMA ProgramsSound ==
  \A p \in Programs : Sound(p)
<1>1. ASSUME NEW p \in Programs
      PROVE  Sound(p)
  <2>1. PICK S : S = {p[i] : i \in DOMAIN p}
    OBVIOUS
  <2>2. p \in Seq(S)
    BY <2>1, ProgramsAssumption
  <2>3. PICK n \in Nat : n = Len(p) /\ DOMAIN p = 1..n
    BY <2>2
  <2>4. \A i \in 1..n : IsStatement(p[i])
    BY <2>3, ProgramsAssumption
  <2> QED  BY <2>3, <2>4 DEF Sound
<1> QED  BY <1>1

(* VarsBefore obeys its definition.                                        *)
LEMMA VarsBeforeEquation ==
  ASSUME NEW p, Sound(p), NEW n \in Nat, n = Len(p)
  PROVE  /\ VarsBefore(p)[1] = InitialVars
         /\ \A i \in 1..n : VarsBefore(p)[i + 1] =
              Declared(VarsBefore(p)[i], p[i], OnStack(VarsBefore(p)[i]))
<1> DEFINE D == 1..(n + 1)
           S == VarLists
           after(h, i) == IF i = 1 THEN InitialVars
                          ELSE Declared(h[i - 1], p[i - 1], OnStack(h[i - 1]))
           step == [i \in D |-> [h \in [D -> S] |-> after(h, i)]]
           size == [i \in D |-> i]
           before == CHOOSE f : f = [i \in 1..(Len(p) + 1) |->
                       IF i = 1 THEN InitialVars
                       ELSE Declared(f[i - 1], p[i - 1], OnStack(f[i - 1]))]
<1>1. ASSUME NEW i \in D, i # 1
      PROVE  i - 1 \in D /\ i - 1 < i /\ i - 1 \in 1..n /\ IsStatement(p[i - 1])
  BY <1>1 DEF Sound
<1>2. ASSUME NEW i \in D, NEW h \in [D -> S]
      PROVE  after(h, i) \in S
  <2>1. CASE i = 1
    BY <2>1, InitialVarsTyped
  <2>2. CASE i # 1
    <3>1. h[i - 1] \in S /\ IsStatement(p[i - 1])
      BY <1>1, <2>2
    <3>2. IsSeq(h[i - 1])
      BY <3>1 DEF IsSeq, VarLists
    <3>3. OnStack(h[i - 1]) \in Nat
      BY <3>2, OnStackTyped
    <3> QED  BY <2>2, <3>1, <3>3, DeclaredTyped
  <2> QED  BY <2>1, <2>2
<1>3. step \in [D -> [[D -> S] -> S]]
  <2> HIDE DEF after, S, D
  <2> QED  BY <1>2
<1>4. size \in [D -> Nat] /\ S # {}
  BY InitialVarsTyped
<1>5. ASSUME NEW i \in D, NEW f \in [D -> S], NEW g \in [D -> S],
             \A j \in D : size[j] < size[i] => f[j] = g[j]
      PROVE  step[i][f] = step[i][g]
  <2>1. i # 1 => f[i - 1] = g[i - 1]
    BY <1>1, <1>5
  <2>2. after(f, i) = after(g, i)
    BY <2>1
  <2> HIDE DEF after, S, D
  <2> QED  BY <2>2
<1>6. PICK f \in [D -> S] : \A i \in D : f[i] = step[i][f]
  <2> HIDE DEF D, S, size, step
  <2>0. LooksBelow(D, S, size, step)
    BY <1>3, <1>4, <1>5 DEF LooksBelow
  <2>1. PICK DD, SS, size2, step2 :
          DD = D /\ SS = S /\ size2 = size /\ step2 = step
    OBVIOUS
  <2>2. LooksBelow(DD, SS, size2, step2)
    BY <2>0, <2>1
  <2>3. \E f \in [DD -> SS] : \A i \in DD : f[i] = step2[i][f]
    BY <2>2, RecursionOnMeasure
  <2> QED  BY <2>1, <2>3
<1>7. \A i \in D : f[i] = after(f, i)
  <2> HIDE DEF D, S, after
  <2> QED  BY <1>6
<1>8. f = [i \in 1..(Len(p) + 1) |->
             IF i = 1 THEN InitialVars
             ELSE Declared(f[i - 1], p[i - 1], OnStack(f[i - 1]))]
  BY <1>7
<1>9. before = [i \in 1..(Len(p) + 1) |->
                  IF i = 1 THEN InitialVars
                  ELSE Declared(before[i - 1], p[i - 1], OnStack(before[i - 1]))]
  BY <1>8
<1>10. VarsBefore(p) = before
  BY DEF VarsBefore
<1> HIDE DEF before
<1>11. before[1] = InitialVars
  <2>1. 1 \in 1..(Len(p) + 1)
    OBVIOUS
  <2> QED  BY <1>9, <2>1
<1>12. ASSUME NEW i \in 1..n
       PROVE  before[i + 1] = Declared(before[i], p[i], OnStack(before[i]))
  <2>1. PICK j \in 1..(Len(p) + 1) : j = i + 1 /\ j # 1 /\ j - 1 = i
    <3>1. i + 1 \in 1..(Len(p) + 1) /\ i + 1 # 1 /\ (i + 1) - 1 = i
      OBVIOUS
    <3> QED  BY <3>1
  <2>2. before[j] = Declared(before[j - 1], p[j - 1], OnStack(before[j - 1]))
    BY <1>9, <2>1
  <2> QED  BY <2>1, <2>2
<1> QED  BY <1>10, <1>11, <1>12

(* It gives lists of variables.                                            *)
LEMMA VarsBeforeTyped ==
  ASSUME NEW p, Sound(p), NEW m \in Nat, m = Len(p), NEW i \in 1..(m + 1)
  PROVE  VarsBefore(p)[i] \in VarLists /\ IsSeq(VarsBefore(p)[i])
<1> DEFINE P == {k \in Nat : k <= m => VarsBefore(p)[k + 1] \in VarLists}
<1>1. 0 \in P
  BY VarsBeforeEquation, InitialVarsTyped
<1>2. ASSUME NEW k \in Nat, k \in P
      PROVE  k + 1 \in P
  <2> SUFFICES ASSUME k + 1 <= m
               PROVE  VarsBefore(p)[(k + 1) + 1] \in VarLists
    OBVIOUS
  <2>1. PICK j \in 1..m : j = k + 1
    OBVIOUS
  <2>2. PICK vs \in VarLists : vs = VarsBefore(p)[j]
    BY <1>2, <2>1
  <2>3. IsSeq(vs)
    BY DEF VarLists, IsSeq
  <2>4. PICK d \in Nat : d = OnStack(vs)
    BY <2>3, OnStackTyped
  <2>5. IsStatement(p[j])
    BY DEF Sound
  <2>6. Declared(vs, p[j], d) \in VarLists
    BY <2>5, DeclaredTyped
  <2>7. VarsBefore(p)[j + 1] = Declared(vs, p[j], d)
    BY <2>2, <2>4, VarsBeforeEquation
  <2> QED  BY <2>1, <2>6, <2>7
<1>3. Nat \subseteq P
  <2> HIDE DEF P
  <2> QED  BY <1>1, <1>2, InductionOnNat
<1>4. PICK k \in Nat : k <= m /\ i = k + 1
  <2>1. i - 1 \in Nat /\ i - 1 <= m /\ i = (i - 1) + 1
    OBVIOUS
  <2> QED  BY <2>1
<1> QED  BY <1>3, <1>4 DEF VarLists, IsSeq

(* The code of a statement of a program, from the variables before it.     *)
LEMMA CodeSegment ==
  ASSUME NEW p, Sound(p), NEW m \in Nat, m = Len(p), NEW i \in 1..m,
         NEW vs, vs = VarsBefore(p)[i], NEW ws, ws = VarsBefore(p)[i + 1]
  PROVE  /\ ws = Declared(vs, p[i], OnStack(vs))
         /\ Segment(GenStmt(p[i], ws, OnStack(vs)), OnStack(vs), OnStack(ws), {})
         /\ Accepted(p) /\ ~NamesItself(p[i]) =>
              Segment(GenStmt(p[i], ws, OnStack(vs)), OnStack(vs), OnStack(ws),
                      {"totext"})
<1>1. IsStatement(p[i]) /\ i \in 1..(m + 1) /\ IsSeq(vs)
  BY VarsBeforeTyped DEF Sound
<1>2. PICK n \in Nat : n = OnStack(vs)
  BY <1>1, OnStackTyped
<1>3. ws = Declared(vs, p[i], n)
  BY <1>2, VarsBeforeEquation
<1>4. OnStack(ws) = Depth(p[i], n)
  BY <1>1, <1>2, <1>3, OnStackDeclared
<1>5. Segment(GenStmt(p[i], ws, n), n, Depth(p[i], n), {})
  <2>1. MayExclude({})
    BY DEF MayExclude
  <2> QED  BY <1>1, <2>1, StmtSegment
<1>6. ASSUME Accepted(p), ~NamesItself(p[i])
      PROVE  Segment(GenStmt(p[i], ws, n), n, Depth(p[i], n), {"totext"})
  <2>1. ASSUME NEW e \in ExprsOf(p[i])
        PROVE  Plain(e, ws)
    <3>1. e \in Exprs
      BY <1>1, <2>1 DEF IsStatement, ExprsOf
    <3>2. i \in DOMAIN p
      BY DEF Sound
    <3>3. Accepts(e, vs)
      BY <1>6, <2>1, <3>2 DEF Accepted
    <3>4. p[i].k = "decl" => p[i].x \notin NamesIn(e)
      BY <1>6, <2>1 DEF NamesItself, ExprsOf
    <3>5. Plain(e, Declared(vs, p[i], n))
      BY <1>1, <3>1, <3>3, <3>4, AcceptedIsPlain
    <3> QED  BY <1>3, <3>5
  <2>2. MayExclude({"totext"})
    BY DEF MayExclude
  <2> QED  BY <1>1, <2>1, <2>2, StmtSegment
<1> QED  BY <1>2, <1>3, <1>4, <1>5, <1>6

-----------------------------------------------------------------------------
(* The state along a program.                                              *)

(* The variables before the statement that runs.                           *)
Before == VarsBefore(prog)[at]

(* The code is that of the statement that runs, in its scope.              *)
InProgram ==
  /\ prog \in Programs /\ Accepted(prog)
  /\ at \in 0..Len(prog)
  /\ vars = VarsBefore(prog)[at + 1]
  /\ at = 0 => code = <<>>
  /\ at > 0 => code = GenStmt(prog[at], vars, OnStack(Before))

(* The stack is as deep as the instruction at pc counts on.                *)
AtDepth ==
  /\ pc \in 1..(Len(code) + 1)
  /\ IsSeq(stack)
  /\ Len(stack) = SizeAt(code, pc, OnStack(vars))

(* The inductive invariant.                                                *)
DepthInv == InProgram /\ AtDepth

(* What the code of the statement that runs does to the depth.             *)
LEMMA InSegment ==
  ASSUME InProgram
  PROVE  /\ \E n \in Nat : Segment(code, n, OnStack(vars), {})
         /\ at > 0 /\ ~NamesItself(prog[at]) =>
              \E n \in Nat : Segment(code, n, OnStack(vars), {"totext"})
<1>1. Sound(prog)
  BY ProgramsSound DEF InProgram
<1>2. PICK m \in Nat : m = Len(prog)
  BY <1>1 DEF Sound
<1>3. CASE at = 0
  <2>1. code = <<>> /\ vars = VarsBefore(prog)[1]
    BY <1>3 DEF InProgram
  <2>2. IsSeq(vars)
    BY <1>1, <1>2, <2>1, VarsBeforeTyped
  <2>3. OnStack(vars) \in Nat
    BY <2>2, OnStackTyped
  <2> QED  BY <1>3, <2>1, <2>3, SegmentNone
<1>4. CASE at # 0
  <2>1. PICK i \in 1..m : i = at
    BY <1>2, <1>4 DEF InProgram
  <2>2. PICK vs, ws : vs = VarsBefore(prog)[i] /\ ws = VarsBefore(prog)[i + 1]
    OBVIOUS
  <2>3. ws = vars /\ code = GenStmt(prog[i], ws, OnStack(vs)) /\ at > 0
    BY <2>1, <2>2 DEF InProgram, Before
  <2>4. IsSeq(vs)
    <3>1. i \in 1..(m + 1)
      OBVIOUS
    <3> QED  BY <1>1, <1>2, <2>2, <3>1, VarsBeforeTyped
  <2>5. OnStack(vs) \in Nat
    BY <2>4, OnStackTyped
  <2>6. Segment(code, OnStack(vs), OnStack(vars), {})
    BY <1>1, <1>2, <2>2, <2>3, CodeSegment
  <2>7. ~NamesItself(prog[i]) => Segment(code, OnStack(vs), OnStack(vars), {"totext"})
    BY <1>1, <1>2, <2>2, <2>3, CodeSegment DEF InProgram
  <2> QED  BY <2>1, <2>5, <2>6, <2>7
<1> QED  BY <1>3, <1>4

(* It says what was to be shown of the depths,                             *)
LEMMA DepthHolds == DepthInv => DepthIsPredicted
<1> SUFFICES ASSUME DepthInv
             PROVE  DepthIsPredicted
  OBVIOUS
<1>1. PICK n \in Nat : Segment(code, n, OnStack(vars), {})
  BY InSegment DEF DepthInv
<1>2. PICK l \in Nat : l = Len(code) /\ DOMAIN code = 1..l
  BY <1>1 DEF Segment, IsSeq
<1>3. Running => Len(stack) = instr.size
  <2>1. pc \in 1..l => pc # l + 1
    BY <1>2
  <2> QED  BY <1>2, <2>1 DEF DepthInv, AtDepth, Running, SizeAt, instr
<1>4. Done => Len(stack) = OnStack(vars)
  <2>1. Done => pc = l + 1
    BY <1>2 DEF DepthInv, AtDepth, Done
  <2> QED  BY <1>2, <2>1 DEF DepthInv, AtDepth, SizeAt
<1> QED  BY <1>3, <1>4 DEF DepthIsPredicted

(* and of the conversions.                                                 *)
LEMMA MixedHolds == InProgram => NoMixedConcat
<1> SUFFICES ASSUME InProgram, at > 0, ~NamesItself(prog[at])
             PROVE  \A j \in DOMAIN code : code[j].op # "totext"
  BY DEF NoMixedConcat
<1>1. PICK n \in Nat : Segment(code, n, OnStack(vars), {"totext"})
  BY InSegment
<1>2. PICK l \in Nat : l = Len(code) /\ DOMAIN code = 1..l
  BY <1>1 DEF Segment, IsSeq
<1> QED  BY <1>1, <1>2 DEF Segment

(* It holds at first.                                                      *)
LEMMA DepthAtFirst == Init => DepthInv
<1> SUFFICES ASSUME Init
             PROVE  DepthInv
  OBVIOUS
<1>1. Sound(prog)
  BY ProgramsSound DEF Init
<1>2. PICK m \in Nat : m = Len(prog)
  BY <1>1 DEF Sound
<1>3. PICK n \in Nat : n = OnStack(InitialVars)
  BY InitialVarsTyped, OnStackTyped
<1>4. InProgram
  BY <1>1, <1>2, VarsBeforeEquation DEF Init, InProgram
<1>5. IsSeq(stack) /\ Len(stack) = n
  <2> DEFINE word(i) == (CHOOSE v \in ToSet(Scope) : ~v.static /\ v.loc = i - 1).word
  <2>1. PICK f : f = [i \in 1..n |-> word(i)]
    OBVIOUS
  <2>2. stack = f
    BY <1>3, <2>1 DEF Init
  <2> HIDE DEF word
  <2>3. PICK S : S = {f[i] : i \in 1..n}
    OBVIOUS
  <2>4. DOMAIN f = 1..n /\ \A i \in 1..n : f[i] \in S
    BY <2>1, <2>3
  <2>5. f \in [1..n -> S]
    BY <2>1, <2>4
  <2>6. f \in Seq(S) /\ Len(f) = n
    BY <2>5
  <2> QED  BY <2>2, <2>6 DEF IsSeq
<1>6. AtDepth
  BY <1>3, <1>5, SeqNone DEF Init, AtDepth, SizeAt
<1> QED  BY <1>4, <1>6 DEF DepthInv

(* A statement begins at the depth its code counts on.                     *)
LEMMA DepthAtBegin ==
  ASSUME DepthInv, Begin
  PROVE  DepthInv'
<1>1. Sound(prog)
  BY ProgramsSound DEF InProgram, DepthInv
<1>2. PICK m \in Nat : m = Len(prog)
  BY <1>1 DEF Sound
<1>3. PICK i \in 1..m : i = at + 1
  BY <1>2 DEF DepthInv, InProgram, Begin
<1>4. PICK vs, ws : vs = VarsBefore(prog)[i] /\ ws = VarsBefore(prog)[i + 1]
  OBVIOUS
<1>5. vs = vars
  BY <1>3, <1>4 DEF DepthInv, InProgram
<1>6. /\ ws = Declared(vs, prog[i], OnStack(vs))
      /\ Segment(GenStmt(prog[i], ws, OnStack(vs)), OnStack(vs), OnStack(ws), {})
  BY <1>1, <1>2, <1>4, CodeSegment
<1>7. vars' = ws /\ code' = GenStmt(prog[i], ws, OnStack(vs))
      /\ at' = i /\ prog' = prog /\ pc' = 1 /\ stack' = stack
  BY <1>3, <1>5, <1>6 DEF Begin
<1>8. Before' = vs
  BY <1>4, <1>7 DEF Before
<1>9. InProgram'
  BY <1>2, <1>4, <1>7, <1>8 DEF DepthInv, InProgram
<1>10. PICK c : c = code'
  OBVIOUS
<1>11. Segment(c, OnStack(vs), OnStack(ws), {})
  BY <1>6, <1>7, <1>10
<1>12. Len(stack) = OnStack(vars)
  <2>1. PICK n \in Nat : Segment(code, n, OnStack(vars), {})
    BY InSegment DEF DepthInv
  <2>2. PICK l \in Nat : l = Len(code)
    BY <2>1 DEF Segment, IsSeq
  <2>3. pc = l + 1
    BY <2>2 DEF DepthInv, AtDepth, Begin
  <2> QED  BY <2>2, <2>3 DEF DepthInv, AtDepth, SizeAt
<1>13. PICK l \in Nat : l = Len(c)
  BY <1>11 DEF Segment, IsSeq
<1>14. SizeAt(c, 1, OnStack(ws)) = OnStack(vs) /\ 1 \in 1..(l + 1)
  BY <1>11 DEF Segment
<1>15. AtDepth'
  BY <1>5, <1>7, <1>10, <1>12, <1>13, <1>14 DEF AtDepth, DepthInv
<1> QED  BY <1>9, <1>15 DEF DepthInv

(* A step inside a statement that goes where its instruction goes.         *)
LEMMA DepthOnStep ==
  ASSUME DepthInv, Running, UNCHANGED statement, pc' \in GoesOn(instr, pc),
         IsSeq(stack'), Len(stack') = Len(stack) + Effect(instr)
  PROVE  DepthInv'
<1>1. PICK n \in Nat : Segment(code, n, OnStack(vars), {})
  BY InSegment DEF DepthInv
<1>2. PICK l \in Nat : l = Len(code) /\ DOMAIN code = 1..l
  BY <1>1 DEF Segment, IsSeq
<1>3. pc \in 1..l /\ pc # l + 1
  BY <1>2 DEF Running
<1>4. Len(stack) = code[pc].size
  BY <1>2, <1>3 DEF DepthInv, AtDepth, SizeAt
<1>5. pc' \in 1..(l + 1) /\ SizeAt(code, pc', OnStack(vars)) = code[pc].size + Effect(code[pc])
  BY <1>1, <1>2, <1>3 DEF Segment, instr
<1>6. prog' = prog /\ at' = at /\ vars' = vars /\ code' = code
  BY DEF statement
<1>7. InProgram'
  BY <1>6 DEF DepthInv, InProgram, Before
<1>8. AtDepth'
  BY <1>2, <1>4, <1>5, <1>6 DEF AtDepth, instr
<1> QED  BY <1>7, <1>8 DEF DepthInv

(* The stack grows by a word,                                              *)
LEMMA AppendTyped ==
  ASSUME NEW s, IsSeq(s), NEW x
  PROVE  IsSeq(Append(s, x)) /\ Len(Append(s, x)) = Len(s) + 1
<1>1. PICK I : s \in Seq(I)
  BY DEF IsSeq
<1>2. PICK J : J = I \cup {x}
  OBVIOUS
<1>3. s \in Seq(J) /\ x \in J
  BY <1>1, <1>2
<1> QED  BY <1>3 DEF IsSeq

(* loses one,                                                              *)
LEMMA FrontTyped ==
  ASSUME NEW s, IsSeq(s), s # <<>>
  PROVE  IsSeq(Front(s)) /\ Len(Front(s)) = Len(s) - 1
<1>1. PICK I : s \in Seq(I)
  BY DEF IsSeq
<1>2. PICK n \in Nat : n = Len(s) /\ n > 0
  BY <1>1
<1>3. Front(s) = SubSeq(s, 1, n - 1)
  BY <1>2 DEF Front
<1>4. SubSeq(s, 1, n - 1) \in Seq(I) /\ Len(SubSeq(s, 1, n - 1)) = n - 1
  BY <1>1, <1>2
<1> QED  BY <1>2, <1>3, <1>4 DEF IsSeq

(* or has one changed.                                                     *)
LEMMA ExceptTyped ==
  ASSUME NEW s, IsSeq(s), NEW i, NEW x
  PROVE  IsSeq([s EXCEPT ![i] = x]) /\ Len([s EXCEPT ![i] = x]) = Len(s)
<1>1. PICK I : s \in Seq(I)
  BY DEF IsSeq
<1>2. PICK J : J = I \cup {x}
  OBVIOUS
<1>3. PICK n \in Nat : n = Len(s) /\ DOMAIN s = 1..n
  BY <1>1
<1>4. s \in [1..n -> J]
  BY <1>1, <1>2, <1>3
<1>5. PICK t : t = [s EXCEPT ![i] = x]
  OBVIOUS
<1>6. t \in [1..n -> J]
  BY <1>2, <1>4, <1>5
<1>7. t \in Seq(J) /\ Len(t) = n
  BY <1>6
<1> QED  BY <1>3, <1>5, <1>7 DEF IsSeq

(* Every step keeps it.                                                    *)
LEMMA DepthInductive == DepthInv /\ [Next]_allVars => DepthInv'
<1> SUFFICES ASSUME DepthInv, [Next]_allVars
             PROVE  DepthInv'
  OBVIOUS
<1>1. CASE Begin
  BY <1>1, DepthAtBegin
<1>2. CASE PushWord
  <2>1. PICK w : stack' = Append(stack, w)
    BY <1>2 DEF PushWord
  <2>2. IsSeq(stack)
    BY DEF DepthInv, AtDepth
  <2>3. IsSeq(stack') /\ Len(stack') = Len(stack) + 1
    BY <2>1, <2>2, AppendTyped
  <2>4. Effect(instr) = 1 /\ pc' \in GoesOn(instr, pc) /\ Running /\ UNCHANGED statement
    BY <1>2 DEF PushWord, Advance, Effect, GoesOn
  <2>5. Len(stack') = Len(stack) + Effect(instr)
    BY <2>3, <2>4
  <2> QED  BY <2>3, <2>4, <2>5, DepthOnStep
<1>3. CASE PopWord
  <2>1. IsSeq(stack) /\ stack # <<>> /\ stack' = Front(stack)
    BY <1>3 DEF DepthInv, AtDepth, PopWord
  <2>2. PICK n \in Nat : n = Len(stack)
    BY <2>1 DEF IsSeq
  <2>3. IsSeq(stack') /\ Len(stack') = n - 1
    BY <2>1, <2>2, FrontTyped
  <2>4. Effect(instr) = -1 /\ pc' \in GoesOn(instr, pc) /\ Running /\ UNCHANGED statement
    BY <1>3 DEF PopWord, Advance, Effect, GoesOn
  <2>5. Len(stack') = Len(stack) + Effect(instr)
    BY <2>2, <2>3, <2>4
  <2> QED  BY <2>3, <2>4, <2>5, DepthOnStep
<1>4. ASSUME Running, UNCHANGED statement, pc' \in GoesOn(instr, pc), Effect(instr) = 0,
             IsSeq(stack'), Len(stack') = Len(stack)
      PROVE  DepthInv'
  <2>1. PICK n \in Nat : n = Len(stack)
    BY DEF DepthInv, AtDepth, IsSeq
  <2>2. Len(stack') = Len(stack) + Effect(instr)
    BY <1>4, <2>1
  <2> QED  BY <1>4, <2>2, DepthOnStep
<1>5. ASSUME Running, UNCHANGED statement, pc' \in GoesOn(instr, pc), Effect(instr) = 0,
             stack' = stack
      PROVE  DepthInv'
  <2>1. IsSeq(stack') /\ Len(stack') = Len(stack)
    BY <1>5 DEF DepthInv, AtDepth
  <2> QED  BY <1>4, <1>5, <2>1
<1>6. CASE Compute
  <2>1. Effect(instr) = 0 /\ pc' \in GoesOn(instr, pc) /\ Running /\ UNCHANGED statement
        /\ stack' = stack
    BY <1>6 DEF Compute, Advance, Effect, GoesOn, OnRegisters
  <2> QED  BY <1>5, <2>1
<1>7. CASE Trap
  BY <1>7 DEF Trap, DepthInv, AtDepth, InProgram, Before, statement
<1>8. CASE StoreWord
  <2>1. Effect(instr) = 0 /\ pc' \in GoesOn(instr, pc) /\ Running /\ UNCHANGED statement
    BY <1>8 DEF StoreWord, Advance, Effect, GoesOn
  <2>2. stack' = stack \/ \E i, w : stack' = [stack EXCEPT ![i] = w]
    BY <1>8 DEF StoreWord, Write
  <2>3. IsSeq(stack)
    BY DEF DepthInv, AtDepth
  <2>4. CASE stack' = stack
    BY <1>5, <2>1, <2>4
  <2>5. ASSUME NEW i, NEW w, stack' = [stack EXCEPT ![i] = w]
        PROVE  DepthInv'
    <3>1. IsSeq(stack') /\ Len(stack') = Len(stack)
      BY <2>3, <2>5, ExceptTyped
    <3> QED  BY <1>4, <2>1, <3>1
  <2> QED  BY <2>2, <2>4, <2>5
<1>9. CASE Branch
  <2>1. /\ instr.op \in {"jmp", "test"} /\ Running /\ UNCHANGED statement /\ stack' = stack
        /\ \E b \in BOOLEAN : JumpIf(b) /\ (instr.op = "jmp" => b)
    BY <1>9 DEF Branch
  <2>2. pc' \in GoesOn(instr, pc)
    <3>1. PICK n \in Nat : Segment(code, n, OnStack(vars), {})
      BY InSegment DEF DepthInv
    <3>2. PICK l \in Nat : l = Len(code) /\ DOMAIN code = 1..l
      BY <3>1 DEF Segment, IsSeq
    <3>3. PICK k \in Nat : k = pc
      BY <3>2 DEF DepthInv, AtDepth
    <3>4. PICK s \in Nat : s = instr.skip
      BY <2>1, <3>1, <3>2 DEF Segment, Running, instr
    <3>5. pc' = k + 1 + s \/ (pc' = k + 1 + 0 /\ instr.op = "test")
      BY <2>1, <3>3, <3>4 DEF JumpIf
    <3>6. k + 1 + 0 = k + 1
      OBVIOUS
    <3> QED  BY <2>1, <3>3, <3>4, <3>5, <3>6 DEF GoesOn
  <2>3. Effect(instr) = 0
    BY <2>1 DEF Effect
  <2> QED  BY <1>5, <2>1, <2>2, <2>3
<1>10. CASE CallFunction
  <2>1. Effect(instr) = 0 /\ pc' \in GoesOn(instr, pc) /\ Running /\ UNCHANGED statement
        /\ stack' = stack
    BY <1>10 DEF CallFunction, Effect, GoesOn
  <2> QED  BY <1>5, <2>1
<1>11. CASE TakeResult
  <2>1. Effect(instr) = 0 /\ pc' \in GoesOn(instr, pc) /\ Running /\ UNCHANGED statement
        /\ stack' = stack
    BY <1>11 DEF TakeResult, Effect, GoesOn
  <2> QED  BY <1>5, <2>1
<1>12. CASE UNCHANGED allVars
  BY <1>12 DEF allVars, DepthInv, AtDepth, InProgram, Before
<1> QED  BY <1>1, <1>2, <1>3, <1>6, <1>7, <1>8, <1>9, <1>10, <1>11, <1>12 DEF Next

(* So it holds throughout.                                                 *)
LEMMA DepthInvariant == Spec => []DepthInv
<1>1. Init => DepthInv
  BY DepthAtFirst
<1>2. DepthInv /\ [Next]_allVars => DepthInv'
  BY DepthInductive
<1> QED  BY <1>1, <1>2, PTL DEF Spec

(* The depth predicted while emitting is the depth there is, at every      *)
(* instruction of every statement.                                         *)
THEOREM StackDepths == Spec => []DepthIsPredicted
<1>1. DepthInv => DepthIsPredicted
  BY DepthHolds
<1> QED  BY <1>1, DepthInvariant, PTL

(* In what sema accepts, nothing is converted to a string for a +.         *)
THEOREM StringConcats == Spec => []NoMixedConcat
<1>1. DepthInv => NoMixedConcat
  BY MixedHolds DEF DepthInv
<1> QED  BY <1>1, DepthInvariant, PTL
=============================================================================
