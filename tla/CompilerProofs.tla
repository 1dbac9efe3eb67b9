--------------------------- MODULE CompilerProofs ---------------------------
(***************************************************************************)
(* Proofs about the two walks together, for every program: the contract    *)
(* between them.  On a program the analyser accepted the generator, which  *)
(* keeps one list of variables cut back at the end of each block instead   *)
(* of a scope for each, finds every name it looks up, and finds the        *)
(* declaration the analyser checked the use against, but for the two cases *)
(* Compiler names.                                                         *)
(*                                                                         *)
(* G is the generator and G!S the analyser, with what is proved of them;   *)
(* what a step of the generator does with names is in CodeGeneratorProofs. *)
(***************************************************************************)
EXTENDS Compiler, FiniteSetTheorems, SequenceTheorems, TLAPS

G == INSTANCE CodeGeneratorProofs

-----------------------------------------------------------------------------
(* What the components assume of the programs.                             *)
LEMMA SameTrees ==
  /\ Program = G!S!Program /\ Program = G!Program
  /\ \A p : IsTree(p) <=> G!S!IsTree(p)
  /\ \A p : IsTree(p) <=> G!IsTree(p)
<1>1. Program = G!S!Program
  BY DEF Program, G!S!Program, Node, G!S!Node, Simple, G!S!Simple, Decl, G!S!Decl, Jump,
     G!S!Jump, Opener, G!S!Opener, Expr, G!S!Expr
<1>2. Program = G!Program
  BY DEF Program, G!Program, Node, G!Node, Simple, G!Simple, Decl, G!Decl, Jump,
     G!Jump, Opener, G!Opener, Expr, G!Expr
<1>3. ASSUME NEW p PROVE IsTree(p) <=> G!S!IsTree(p)
  BY DEF IsTree, G!S!IsTree, IsStatement, G!S!IsStatement, Around, G!S!Around, Innermost,
     G!S!Innermost, CloseOf, G!S!CloseOf, Closes, G!S!Closes, OpenKinds, G!S!OpenKinds,
     Cardinality, G!S!Cardinality, IsFiniteSet, G!S!IsFiniteSet
<1>4. ASSUME NEW p PROVE IsTree(p) <=> G!IsTree(p)
  BY DEF IsTree, G!IsTree, IsStatement, G!IsStatement, Around, G!Around, Innermost,
     G!Innermost, CloseOf, G!CloseOf, Closes, G!Closes, OpenKinds, G!OpenKinds,
     Cardinality, G!Cardinality, IsFiniteSet, G!IsFiniteSet
<1>5. QED
  BY <1>1, <1>2, <1>3, <1>4

LEMMA Source == \A p \in Programs : p \in G!S!Program /\ G!S!IsTree(p)
BY SameTrees, ProgramsAssumption

LEMMA GSource == \A p \in Programs : p \in G!Program /\ G!IsTree(p)
BY SameTrees, ProgramsAssumption

-----------------------------------------------------------------------------
(* Where the walk is, in its two passes.                                   *)

(* Between two statements at most a chain is left of the frames.           *)
Idle(fs) == G!S!Live(fs) = {} /\ \A n \in DOMAIN fs : fs[n].k = "chain" => n = Len(fs)

(* Before node q of statement i: in the first pass the list is that of the *)
(* top level, in the second, in a function, that of the function.          *)
Walks(p, ps, i, q, vs, fs, inF) ==
  /\ G!S!Nested(p[i], q) /\ G!S!Follows(p[i], q, fs) /\ G!Matched(p[i], fs)
  /\ ps = "entry" => G!S!Tracks(p, i, q, {}, vs, fs)
  /\ inF => G!IsKarya(p, i) /\ G!S!Tracks(p, i, q, {G!S!TopLevel}, vs, fs)
  /\ ps = "functions" /\ ~inF => fs = <<>> \/ q = 1
  /\ (ps = "entry" <=> G!IsKarya(p, i)) => q = 1

Place(p, ps, i, q, vs, fs, inF) ==
  /\ i \in DOMAIN p => Walks(p, ps, i, q, vs, fs, inF)
  /\ i \notin DOMAIN p => Idle(fs) /\ ~inF
  /\ inF => ps = "functions"

(* Nothing is open at the first node of a statement, and nothing after the *)
(* last.                                                                   *)
LEMMA IdleFollows ==
  ASSUME NEW t, NEW fs
  PROVE  /\ Idle(fs) => G!S!Follows(t, 1, fs) /\ G!Matched(t, fs)
         /\ G!S!Follows(t, 1, fs) => Idle(fs)
<1>1. G!S!Unclosed(t, 1) = {}
  BY G!S!NestedStarts, Source, GSource, NumArgRegsAssumption
<1>2. ASSUME Idle(fs) PROVE G!S!Follows(t, 1, fs)
  BY <1>1, <1>2 DEF Idle, G!S!Follows
<1>3. ASSUME Idle(fs) PROVE G!Matched(t, fs)
  BY <1>3 DEF Idle, G!S!Live, G!Matched
<1>4. ASSUME G!S!Follows(t, 1, fs) PROVE Idle(fs)
  BY <1>1, <1>4 DEF Idle, G!S!Follows
<1>5. QED
  BY <1>2, <1>3, <1>4

LEMMA IdleAtEnd ==
  ASSUME NEW t \in Seq(G!S!Node), G!S!Bracketed(t), NEW fs, G!S!Follows(t, Len(t) + 1, fs)
  PROVE  Idle(fs)
<1>1. G!S!Unclosed(t, Len(t) + 1) = {}
  BY G!S!NoneUnclosedAtEnd, Source, GSource, NumArgRegsAssumption
<1>2. QED
  BY <1>1 DEF Idle, G!S!Follows

(* A walk with no function open is in none.                                *)
LEMMA IdleIsOutside ==
  ASSUME NEW fs \in Seq(G!FrameRecord), NEW inF, G!Shaped(fs, inF), Idle(fs)
  PROVE  ~inF
<1>1. SUFFICES ASSUME inF PROVE FALSE
  OBVIOUS
<1>2. fs # <<>> /\ fs[1].k = "karya"
  BY <1>1 DEF G!Shaped
<1>3. 1 \in G!S!Live(fs)
  BY <1>2 DEF G!S!Live
<1>4. QED
  BY <1>3 DEF Idle

(* The first node of a statement, and past the last statement.             *)
LEMMA PlaceTurns ==
  ASSUME NEW p, NEW i, NEW ps, NEW vs, NEW fs, Idle(fs),
         ps = "entry" /\ i \in DOMAIN p => G!S!Tracks(p, i, 1, {}, vs, fs)
  PROVE  Place(p, ps, i, 1, vs, fs, FALSE)
<1>1. ASSUME i \in DOMAIN p
      PROVE  Walks(p, ps, i, 1, vs, fs, FALSE)
  <2>1. G!S!Nested(p[i], 1)
    BY G!S!NestedStarts, Source, GSource, NumArgRegsAssumption
  <2>2. G!S!Follows(p[i], 1, fs) /\ G!Matched(p[i], fs)
    BY IdleFollows
  <2>3. QED
    BY <1>1, <2>1, <2>2 DEF Walks
<1>2. QED
  BY <1>1 DEF Place

(* A node, and its statement.                                              *)
LEMMA StatementHere ==
  ASSUME prog \in G!S!Program, G!S!IsTree(prog), item \in DOMAIN prog,
         pc \in DOMAIN prog[item]
  PROVE  /\ <<item, pc>> \in G!S!Nodes(prog) /\ G!S!At(prog, <<item, pc>>) = G!node
         /\ item \in Nat \ {0} /\ pc \in Nat \ {0} /\ G!node = prog[item][pc]
         /\ prog[item] \in Seq(G!S!Node) /\ G!S!Bracketed(prog[item])
         /\ G!S!IsStatement(prog[item]) /\ prog[item] # <<>>
<1>1. /\ <<item, pc>> \in G!S!Nodes(prog) /\ G!S!At(prog, <<item, pc>>) = prog[item][pc]
      /\ item \in Nat \ {0} /\ pc \in Nat \ {0}
  BY G!S!NodeAt, Source, GSource, NumArgRegsAssumption
<1>2. /\ prog[item] \in Seq(G!S!Node) /\ G!S!Bracketed(prog[item])
      /\ G!S!IsStatement(prog[item]) /\ prog[item] # <<>>
  BY G!S!TreeBracketed, Source, GSource, NumArgRegsAssumption
<1>3. QED
  BY <1>1, <1>2 DEF G!node

(* The generator goes on from a node.                                      *)
LEMMA PlaceAdvances ==
  ASSUME prog \in G!S!Program, G!S!IsTree(prog), item \in DOMAIN prog,
         pc \in DOMAIN prog[item], G!Advance,
         frames' \in Seq(G!FrameRecord), G!Shaped(frames', inFunction'),
         Walks(prog, pass, item, pc + 1, vars', frames', inFunction'),
         inFunction' => pass = "functions"
  PROVE  /\ Place(prog', pass', item', pc', vars', frames', inFunction')
         /\ prog' = prog /\ pass' = pass
         /\ G!S!Visited(prog, item', pc') = G!S!Visited(prog, item, pc) \cup {<<item, pc>>}
         /\ \A o \in G!S!Unclosed(prog[item], pc + 1) : item' = item /\ pc' = pc + 1
<1> DEFINE t == prog[item]
<1>1. /\ t \in Seq(G!S!Node) /\ G!S!Bracketed(t) /\ item \in Nat \ {0} /\ pc \in Nat \ {0}
  <2>1. t \in Seq(G!S!Node) /\ G!S!Bracketed(t)
    BY G!S!TreeBracketed, Source, GSource, NumArgRegsAssumption
  <2>2. item \in Nat \ {0} /\ pc \in Nat \ {0}
    BY StatementHere
  <2>3. QED
    BY <2>1, <2>2
<1>2. prog' = prog /\ pass' = pass
  BY DEF G!Advance
<1>3. G!S!Visited(prog, item, pc + 1) = G!S!Visited(prog, item, pc) \cup {<<item, pc>>}
  BY G!S!VisitedNext, Source, GSource, NumArgRegsAssumption
<1>4. CASE pc + 1 <= Len(t)
  <2>1. item' = item /\ pc' = pc + 1
    BY <1>4 DEF G!Advance, G!GoTo
  <2>2. Place(prog, pass, item, pc + 1, vars', frames', inFunction')
    BY DEF Place
  <2>3. QED
    BY <1>2, <1>3, <2>1, <2>2
<1>5. CASE ~(pc + 1 <= Len(t))
  <2>1. item' = item + 1 /\ pc' = 1
    BY <1>5 DEF G!Advance, G!GoTo
  <2>2. pc + 1 = Len(t) + 1
    BY <1>1, <1>5
  <2>3. G!S!Unclosed(t, pc + 1) = {}
    BY <1>1, <2>2, G!S!NoneUnclosedAtEnd, Source, GSource, NumArgRegsAssumption
  <2>4. Idle(frames')
    <3>1. G!S!Follows(t, Len(t) + 1, frames')
      BY <2>2 DEF Walks
    <3> HIDE DEF t
    <3>2. QED
      BY <1>1, <3>1, IdleAtEnd
  <2>5. ~inFunction'
    BY <2>4, IdleIsOutside
  <2>6. pass = "entry" => G!S!Tracks(prog, item + 1, 1, {}, vars', frames')
    <3>1. pass = "entry" => G!S!Tracks(prog, item, Len(prog[item]) + 1, {}, vars', frames')
      BY <2>2 DEF Walks
    <3>2. G!S!Live(frames') = {}
      BY <2>4 DEF Idle
    <3>3. QED
      BY <3>1, <3>2, G!S!TracksTurn, Source, GSource, NumArgRegsAssumption
  <2> DEFINE vs == vars'
             fs == frames'
  <2>7. vs = vars' /\ fs = frames' /\ fs \in Seq(G!FrameRecord) /\ Idle(fs)
        /\ (pass = "entry" => G!S!Tracks(prog, item + 1, 1, {}, vs, fs))
    BY <2>4, <2>6
  <2> HIDE DEF vs, fs
  <2>8. Place(prog, pass, item + 1, 1, vs, fs, FALSE)
    BY <2>7, PlaceTurns
  <2>9. G!Shaped(frames', inFunction') => inFunction' = FALSE
    BY <2>5 DEF G!Shaped
  <2>10. Place(prog', pass', item', pc', vars', frames', inFunction')
    BY <1>2, <2>1, <2>7, <2>8, <2>9
  <2>11. G!S!Visited(prog, item + 1, 1) = G!S!Visited(prog, item, Len(prog[item]) + 1)
    BY G!S!VisitedStatement, Source, GSource, NumArgRegsAssumption
  <2>12. QED
    BY <1>2, <1>3, <2>1, <2>2, <2>3, <2>10, <2>11
<1>6. QED
  BY <1>4, <1>5

-----------------------------------------------------------------------------
(* The invariant: what has been generated so far found its names.          *)

(* The node at w was generated: the top level in the first pass, the       *)
(* functions in the second.                                                *)
Given(p, ps, i, q, w) ==
  \/ ps = "done"
  \/ ps = "functions" /\ (G!IsKarya(p, w[1]) => w \in G!S!Visited(p, i, q))
  \/ ps = "entry" /\ ~G!IsKarya(p, w[1]) /\ w \in G!S!Visited(p, i, q)

InPlace ==
  /\ pass \in {"entry", "functions", "done"}
  /\ pass = "done" => item \notin DOMAIN prog
  /\ Place(prog, pass, item, pc, vars, frames, inFunction)

(* The globals are variables of the top level, and all of those generated. *)
GlobalsAre(gs) ==
  /\ gs \in Seq(G!VarRecord) /\ G!OfTopLevel(prog, gs)
  /\ \A w \in G!S!Nodes(prog) :
       Given(prog, pass, item, pc, w) /\ ~G!IsKarya(prog, w[1]) =>
         \A d \in G!S!DeclarationsAt(prog, w) :
           \E n \in 1..Len(gs) : gs[n].name = d.name

(* The step of a for is generated at its end.                              *)
Waits(w, u) ==
  /\ u[1] = 3 /\ w[1] = item /\ item \in DOMAIN prog
  /\ w[2] \in G!S!Unclosed(prog[item], pc)

UsesAreBound ==
  /\ \A b \in binds : G!OfUse(prog, b) /\ G!Agrees(prog, b)
  /\ \A w \in G!S!Nodes(prog) :
       Given(prog, pass, item, pc, w) =>
         \A u \in G!S!UsesAt(G!S!At(prog, w)) : G!Bound(binds, w, u) \/ Waits(w, u)

NInv ==
  /\ outcome # "thrown"
  /\ InPlace
  /\ GlobalsAre(globals)
  /\ UsesAreBound

(* A node of the statement the walk is at, in the pass it belongs to.      *)
Here ==
  /\ prog \in G!S!Program /\ G!S!IsTree(prog) /\ G!S!WellFormed(prog)
  /\ item \in DOMAIN prog /\ pc \in DOMAIN prog[item]
  /\ pass \in {"entry", "functions"}
  /\ pass = "functions" <=> G!IsKarya(prog, item)

(* A step that took the walk past a node, found its names and declared its *)
(* variables.                                                              *)
Past ==
  /\ Walks(prog, pass, item, pc + 1, vars', frames', inFunction')
  /\ inFunction' => pass = "functions"
  /\ G!Used /\ G!Declared /\ G!Advance

LEMMA PastAdvances ==
  ASSUME Here, Past, G!IInv'
  PROVE  /\ Place(prog', pass', item', pc', vars', frames', inFunction')
         /\ prog' = prog /\ pass' = pass
         /\ G!S!Visited(prog, item', pc') = G!S!Visited(prog, item, pc) \cup {<<item, pc>>}
         /\ \A o \in G!S!Unclosed(prog[item], pc + 1) : item' = item /\ pc' = pc + 1
<1>1. frames' \in Seq(G!FrameRecord) /\ G!Shaped(frames', inFunction')
  BY DEF G!IInv, G!Accounted
<1>2. QED
  BY <1>1, PlaceAdvances, Zenon DEF Here, Past

(* What is generated after the step is what was before it, and the node.   *)
LEMMA PastGiven ==
  ASSUME Here, Past, G!IInv', NEW w, Given(prog', pass', item', pc', w)
  PROVE  w = <<item, pc>> \/ Given(prog, pass, item, pc, w)
<1>1. prog' = prog /\ pass' = pass
      /\ G!S!Visited(prog, item', pc') = G!S!Visited(prog, item, pc) \cup {<<item, pc>>}
  BY PastAdvances
<1>2. QED
  BY <1>1 DEF Given

LEMMA PastKeepsGlobals ==
  ASSUME Here, Past, G!IInv', GlobalsAre(globals)
  PROVE  GlobalsAre(globals)'
<1>1. prog' = prog
  BY PastAdvances
<1>2. globals' \in Seq(G!VarRecord) /\ G!OfTopLevel(prog, globals')
  BY DEF Past, G!Declared
<1>3. ASSUME NEW w \in G!S!Nodes(prog), Given(prog', pass', item', pc', w),
             ~G!IsKarya(prog, w[1]), NEW d \in G!S!DeclarationsAt(prog, w)
      PROVE  \E n \in 1..Len(globals') : globals'[n].name = d.name
  <2>1. CASE w = <<item, pc>>
    BY <1>3, <2>1 DEF Past, G!Declared
  <2>2. CASE Given(prog, pass, item, pc, w)
    <3>1. PICK n \in 1..Len(globals) : globals[n].name = d.name
      BY <1>3, <2>2 DEF GlobalsAre
    <3>2. QED
      BY <3>1 DEF Past, G!Declared
  <2>3. QED
    BY <1>3, <2>1, <2>2, PastGiven
<1>4. QED
  BY <1>1, <1>2, <1>3 DEF GlobalsAre

LEMMA PastKeepsUses ==
  ASSUME Here, Past, G!IInv', UsesAreBound, InPlace
  PROVE  UsesAreBound'
<1>1. /\ prog' = prog
      /\ \A o \in G!S!Unclosed(prog[item], pc + 1) : item' = item /\ pc' = pc + 1
  BY PastAdvances
<1>2. \A b \in binds' : G!OfUse(prog, b) /\ G!Agrees(prog, b)
  BY DEF Past, G!Used, UsesAreBound
<1>3. binds \subseteq binds'
  BY DEF Past, G!Used
<1>4. /\ <<item, pc>> \in G!S!Nodes(prog) /\ G!S!At(prog, <<item, pc>>) = G!node
      /\ prog[item] \in Seq(G!S!Node) /\ G!S!Bracketed(prog[item])
      /\ G!node = prog[item][pc]
  BY StatementHere DEF Here
<1>5. ASSUME NEW w \in G!S!Nodes(prog), Given(prog', pass', item', pc', w),
             NEW u \in G!S!UsesAt(G!S!At(prog, w))
      PROVE  G!Bound(binds', w, u) \/ Waits(w, u)'
  <2>1. ASSUME w[1] = item, w[2] \in G!S!Unclosed(prog[item], pc + 1), u[1] = 3
        PROVE  Waits(w, u)'
    <3>1. item' = item /\ pc' = pc + 1
      BY <1>1, <2>1
    <3>2. QED
      BY <1>1, <2>1, <3>1 DEF Waits, Here
  <2>2. CASE w = <<item, pc>>
    <3>1. CASE u[1] # 3
      BY <1>5, <2>2, <3>1 DEF Past, G!Used
    <3>2. CASE u[1] = 3
      <4>1. G!node.k = "pratyek"
        <5>1. SUFFICES ASSUME G!node.k # "pratyek" PROVE u[1] = 0
          BY <3>2
        <5>2. QED
          BY <1>4, <1>5, <2>2, <5>1, G!PlainUses, GSource, NumArgRegsAssumption
      <4>2. G!S!Nested(prog[item], pc)
        BY DEF InPlace, Place, Walks, Here
      <4>3. pc \in G!S!Unclosed(prog[item], pc + 1)
        <5> DEFINE t == prog[item]
        <5>1. /\ t \in Seq(G!S!Node) /\ G!S!Bracketed(t) /\ pc \in DOMAIN t
              /\ G!S!Nested(t, pc) /\ t[pc].k = "pratyek" /\ "pratyek" \in G!S!OpenKinds
          BY <1>4, <4>1, <4>2 DEF Here, G!S!OpenKinds
        <5> HIDE DEF t
        <5>2. G!S!Unclosed(t, pc + 1) =
                G!S!Unclosed(t, pc) \cup (IF t[pc].k \in G!S!OpenKinds THEN {pc} ELSE {})
          BY <5>1, G!S!NestedNext, Source, GSource, NumArgRegsAssumption
        <5>3. QED
          BY <5>1, <5>2 DEF t
      <4>4. QED
        BY <2>1, <2>2, <3>2, <4>3
    <3>3. QED
      BY <3>1, <3>2
  <2>3. CASE Given(prog, pass, item, pc, w)
    <3>1. CASE G!Bound(binds, w, u)
      BY <1>3, <3>1 DEF G!Bound
    <3>2. CASE Waits(w, u)
      <4>1. w[1] = item /\ w[2] \in G!S!Unclosed(prog[item], pc) /\ u[1] = 3
        BY <3>2 DEF Waits
      <4>2. CASE w[2] \in G!S!Unclosed(prog[item], pc + 1)
        BY <2>1, <4>1, <4>2
      <4>3. CASE w[2] \notin G!S!Unclosed(prog[item], pc + 1)
        <5>1. w = <<item, w[2]>>
          <6>1. w = <<w[1], w[2]>>
            BY G!S!NodeShape, Source, GSource, NumArgRegsAssumption DEF Here
          <6>2. QED
            BY <4>1, <6>1
        <5>2. \A v \in G!S!UsesAt(G!S!At(prog, <<item, w[2]>>)) :
                v[1] = 3 => G!Bound(binds', <<item, w[2]>>, v)
          BY <4>1, <4>3 DEF Past, G!Used
        <5>3. QED
          BY <1>5, <4>1, <5>1, <5>2
      <4>4. QED
        BY <4>2, <4>3
    <3>3. QED
      BY <1>5, <2>3, <3>1, <3>2 DEF UsesAreBound
  <2>4. QED
    BY <1>5, <2>2, <2>3, PastGiven
<1>6. QED
  BY <1>1, <1>2, <1>5 DEF UsesAreBound

LEMMA PastKeeps ==
  ASSUME Here, Past, G!IInv', NInv
  PROVE  NInv'
<1>1. outcome' # "thrown"
  BY DEF Past, G!Used
<1>2. InPlace'
  <2>1. Place(prog', pass', item', pc', vars', frames', inFunction') /\ pass' = pass
    BY PastAdvances
  <2>2. QED
    BY <2>1 DEF InPlace, Here
<1>3. GlobalsAre(globals)' /\ UsesAreBound'
  BY PastKeepsGlobals, PastKeepsUses DEF NInv
<1>4. QED
  BY <1>1, <1>2, <1>3 DEF NInv

-----------------------------------------------------------------------------
(* The steps of the walk.                                                  *)

(* The program is one the analyser accepted.                               *)
Accepted == prog \in G!S!Program /\ G!S!IsTree(prog) /\ G!S!WellFormed(prog)

LEMMA GeneratingHere ==
  ASSUME G!IInv, NInv, Accepted, G!Generating
  PROVE  Here /\ Walks(prog, pass, item, pc, vars, frames, inFunction)
<1>1. item \in Nat \ {0} /\ item <= Len(prog) /\ pc \in DOMAIN prog[item]
  BY DEF G!IInv, G!PlaceIsInProgram, G!Generating
<1>2. item \in DOMAIN prog
  BY <1>1 DEF Accepted, G!S!Program
<1>3. Here
  BY <1>1, <1>2 DEF Here, Accepted, G!Generating, G!IsFunction, G!IsKarya
<1>4. QED
  BY <1>2, <1>3 DEF NInv, InPlace, Place

(* Only a further arm of an if chain, or a close, comes in no block and is *)
(* not the first.                                                          *)
LEMMA OnlyArmsFollow ==
  ASSUME NEW t \in Seq(G!S!Node), G!S!Bracketed(t), G!S!IsStatement(t),
         NEW q \in DOMAIN t, q # 1, G!S!Follows(t, q, <<>>)
  PROVE  t[q].k \in {"nahitar", "anyatha", "close"}
<1>1. G!S!Unclosed(t, q) = {}
  BY DEF G!S!Follows, G!S!Live
<1>2. q \in 2..Len(t)
  OBVIOUS
<1>3. CASE t[q].k # "close"
  <2>1. G!S!Around(t, q) = {}
    BY <1>1, <1>3, G!S!AroundUnclosed, Source, GSource, NumArgRegsAssumption
  <2>2. QED
    BY <1>2, <1>3, <2>1 DEF G!S!IsStatement
<1>4. QED
  BY <1>3

(* In the second pass all that the top level declares is among the globals. *)
LEMMA GlobalsComplete ==
  ASSUME Here, NInv, pass = "functions"
  PROVE  G!AllGlobals(prog, globals)
<1>1. ASSUME NEW d \in G!S!Declarations(prog), ~G!IsKarya(prog, d.site[1])
      PROVE  \E n \in 1..Len(globals) : globals[n].name = d.name
  <2>1. PICK w \in G!S!Nodes(prog) : d \in G!S!DeclarationsAt(prog, w)
    BY DEF G!S!Declarations
  <2>2. d.site = <<w[1], w[2], d.site[3]>>
    BY <2>1, G!S!DeclarationShape, Source, GSource, NumArgRegsAssumption DEF Here
  <2>3. d.site[1] = w[1]
    BY <2>2
  <2>4. Given(prog, pass, item, pc, w)
    BY <1>1, <2>3 DEF Given
  <2>5. QED
    BY <1>1, <2>1, <2>3, <2>4 DEF NInv, GlobalsAre
<1>2. QED
  BY <1>1 DEF G!AllGlobals

(* A function is generated in its own walk, the rest in that of the top    *)
(* level.                                                                  *)
LEMMA InFunctionHere ==
  ASSUME G!IInv, NInv, Accepted, G!Generating, G!node.k # "karya",
         frames = <<>> => G!node.k \notin {"nahitar", "anyatha", "close"}
  PROVE  /\ G!IsKarya(prog, item) => pc > 1
         /\ inFunction <=> G!IsKarya(prog, item)
<1>1. Here /\ Walks(prog, pass, item, pc, vars, frames, inFunction)
  BY GeneratingHere
<1>2. /\ item \in Nat \ {0} /\ pc \in Nat \ {0} /\ G!node = prog[item][pc]
      /\ prog[item] \in Seq(G!S!Node) /\ G!S!Bracketed(prog[item])
      /\ G!S!IsStatement(prog[item]) /\ pc \in DOMAIN prog[item]
  BY <1>1, StatementHere DEF Here
<1>3. G!IsKarya(prog, item) => pc # 1
  BY <1>2 DEF G!IsKarya
<1>4. inFunction => G!IsKarya(prog, item)
  BY <1>1 DEF Walks
<1>5. ASSUME G!IsKarya(prog, item), ~inFunction PROVE FALSE
  <2>1. pass = "functions"
    BY <1>1, <1>5 DEF Here
  <2>2. frames = <<>> /\ G!S!Follows(prog[item], pc, frames)
    BY <1>1, <1>3, <1>5, <2>1 DEF Walks
  <2>3. prog[item][pc].k \in {"nahitar", "anyatha", "close"}
    <3> DEFINE t == prog[item]
    <3>1. /\ t \in Seq(G!S!Node) /\ G!S!Bracketed(t) /\ G!S!IsStatement(t)
          /\ pc \in DOMAIN t /\ pc # 1 /\ G!S!Follows(t, pc, <<>>)
      BY <1>2, <1>3, <1>5, <2>2
    <3> HIDE DEF t
    <3>2. t[pc].k \in {"nahitar", "anyatha", "close"}
      BY <3>1, OnlyArmsFollow
    <3>3. QED
      BY <3>2 DEF t
  <2>4. QED
    BY <1>2, <2>2, <2>3
<1>6. QED
  BY <1>2, <1>3, <1>4, <1>5

LEMMA HereIsReady ==
  ASSUME G!IInv, NInv, Accepted, G!Generating, G!node.k # "karya",
         frames = <<>> => G!node.k \notin {"nahitar", "anyatha", "close"}
  PROVE  Here /\ G!Ready
<1>1. Here /\ Walks(prog, pass, item, pc, vars, frames, inFunction)
  BY GeneratingHere
<1>2. /\ G!IsKarya(prog, item) => pc > 1
      /\ inFunction <=> G!IsKarya(prog, item)
  BY InFunctionHere
<1>3. /\ frames \in Seq(G!FrameRecord) /\ vars \in Seq(G!VarRecord)
      /\ G!MarksGrow
  BY DEF G!IInv, G!Accounted, G!MarksGrow
<1>4. G!S!Tracks(prog, item, pc, G!Outside(prog, item), vars, frames)
  <2>1. CASE G!IsKarya(prog, item)
    BY <1>1, <1>2, <2>1 DEF Walks, G!Outside
  <2>2. CASE ~G!IsKarya(prog, item)
    BY <1>1, <2>2 DEF Walks, G!Outside, Here
  <2>3. QED
    BY <2>1, <2>2
<1>5. G!AtNode
  BY <1>1, <1>2, <1>3, <1>4 DEF G!AtNode, G!WalkAt, Walks, Here
<1>6. G!IsKarya(prog, item) => G!AllGlobals(prog, globals)
  BY <1>1, GlobalsComplete DEF Here
<1>7. QED
  BY <1>1, <1>2, <1>3, <1>5, <1>6 DEF G!Ready, Here, NInv, GlobalsAre

(* The walk goes on from such a node.                                      *)
LEMMA StepsPast ==
  ASSUME Here, G!Ready, G!Steps
  PROVE  Past
<1>1. inFunction' = inFunction /\ (inFunction <=> G!IsKarya(prog, item))
  BY DEF G!Steps, G!Ready
<1>2. G!WalkAt(prog, item, pc + 1, vars', frames')
  BY DEF G!Steps, G!Moved
<1>3. Walks(prog, pass, item, pc + 1, vars', frames', inFunction')
  BY <1>1, <1>2 DEF Walks, G!WalkAt, G!Outside, Here
<1>4. inFunction' => pass = "functions"
  BY <1>1 DEF Here
<1>5. QED
  BY <1>3, <1>4 DEF Past, G!Steps

-----------------------------------------------------------------------------
(* Functions.                                                              *)

(* genFuncDecl() begins a list of its own.                                 *)
LEMMA FunctionOpens ==
  ASSUME NEW p \in G!S!Program, G!S!IsTree(p), NEW i \in DOMAIN p, G!IsKarya(p, i),
         NEW vs \in Seq(G!VarRecord), Len(vs) = Len(p[i][1].params),
         \A j \in 1..Len(vs) : /\ vs[j].name = p[i][1].params[j]
                               /\ vs[j].site = <<i, 1, j>>,
         NEW f \in G!FrameRecord, f.at = 1, f.mark = 0, f.k = "karya",
         NEW fs, fs = Append(<<>>, f)
  PROVE  Walks(p, "functions", i, 2, vs, fs, TRUE)
<1> DEFINE t == p[i]
<1>1. t \in Seq(G!S!Node) /\ G!S!Bracketed(t) /\ t # <<>>
  BY G!S!TreeBracketed, Source, GSource, NumArgRegsAssumption
<1>2. 1 \in DOMAIN t /\ t[1].k = "karya" /\ 1 + 1 = 2
  BY <1>1 DEF G!IsKarya
<1>3. <<i, 1>> \in G!S!Nodes(p) /\ G!S!At(p, <<i, 1>>) = p[i][1]
  BY <1>2, G!S!NodeAt, Source, GSource, NumArgRegsAssumption
<1>4. G!S!Nested(t, 1)
  BY G!S!NestedStarts, Source, GSource, NumArgRegsAssumption
<1>5. G!S!Nested(t, 2) /\ G!S!Unclosed(t, 2) = G!S!Unclosed(t, 1) \cup {1}
  <2>1. t[1].k # "close" /\ t[1].k \in G!S!OpenKinds
    BY <1>2 DEF G!S!OpenKinds
  <2> HIDE DEF t
  <2>2. G!S!Nested(t, 1 + 1) /\ G!S!Unclosed(t, 1 + 1) = G!S!Unclosed(t, 1) \cup {1}
    BY <1>1, <1>2, <1>4, <2>1, G!S!NestedNext, Source, GSource, NumArgRegsAssumption
  <2>3. QED
    BY <1>2, <2>2
<1>6. G!S!Follows(t, 2, fs)
  <2>1. Idle(<<>>)
    BY DEF Idle, G!S!Live
  <2>2. G!S!Follows(t, 1, <<>>)
    BY <2>1, IdleFollows
  <2>3. G!S!NoChain(<<>>) /\ <<>> \in Seq(G!FrameRecord)
    BY DEF G!S!NoChain
  <2> HIDE DEF t
  <2>4. G!S!Follows(t, 1 + 1, Append(<<>>, f))
    BY <1>2, <1>5, <2>2, <2>3, G!S!FollowsOpen, Source, GSource, NumArgRegsAssumption
  <2>5. QED
    BY <1>2, <2>4
<1>7. G!S!Holds(vs, Len(vs), G!S!DeclarationsAt(p, <<i, 1>>))
  <2> DEFINE w == <<i, 1>>
  <2>1. /\ w \in G!S!Nodes(p) /\ G!S!At(p, w) = p[i][1] /\ G!S!At(p, w).k = "karya"
        /\ w[1] = i /\ w[2] = 1
    BY <1>2, <1>3
  <2> HIDE DEF w
  <2>2. G!S!Holds(vs, Len(vs), G!S!DeclarationsAt(p, w))
    BY <2>1, G!S!HoldsParameters, Source, GSource, NumArgRegsAssumption
  <2>3. QED
    BY <2>2 DEF w
<1>8. G!S!Tracks(p, i, 2, {G!S!TopLevel}, vs, fs)
  <2>1. p[i][1].k = "karya"
    BY <1>2
  <2>2. QED
    BY <1>7, <2>1, G!S!TracksFunction, Source, GSource, NumArgRegsAssumption
<1>9. G!Matched(t, fs)
  <2>1. DOMAIN fs = {1} /\ fs[1] = f
    OBVIOUS
  <2>2. QED
    BY <1>2, <2>1 DEF G!Matched
<1>10. QED
  BY <1>5, <1>6, <1>8, <1>9 DEF Walks

LEMMA FunctionIsPast ==
  ASSUME G!IInv, G!IInv', NInv, Accepted, G!GenFuncDecl
  PROVE  Here /\ Past
<1> DEFINE f == G!Frame("karya", 0, 0)
<1>1. /\ G!Generating /\ G!node.k = "karya" /\ frames = <<>> /\ G!Advance
      /\ vars' = [j \in 1..Len(G!node.params) |-> G!ParamEntry(j)]
      /\ \E n : G!Outcome(FALSE, n)
      /\ inFunction' = TRUE /\ frames' = Append(frames, f)
      /\ globals' = globals /\ binds' = binds
  BY DEF G!GenFuncDecl, G!Push
<1>2. Here /\ Walks(prog, pass, item, pc, vars, frames, inFunction)
  BY <1>1, GeneratingHere
<1>3. /\ <<item, pc>> \in G!S!Nodes(prog) /\ G!S!At(prog, <<item, pc>>) = G!node
      /\ item \in Nat \ {0} /\ pc \in Nat \ {0} /\ G!node = prog[item][pc]
      /\ prog[item] \in Seq(G!S!Node)
  BY <1>2, StatementHere DEF Here
<1>4. pc = 1 /\ G!IsKarya(prog, item) /\ pass = "functions"
  <2> DEFINE w == <<item, pc>>
  <2>1. w \in G!S!Nodes(prog) /\ G!S!At(prog, w).k = "karya" /\ w[1] = item /\ w[2] = pc
    BY <1>1, <1>3
  <2> HIDE DEF w
  <2>2. w[2] = 1 /\ G!IsKarya(prog, w[1])
    BY <1>2, <2>1, G!KaryaIsFirst, GSource, NumArgRegsAssumption DEF Here
  <2>3. QED
    BY <1>2, <2>1, <2>2 DEF Here
<1>5. G!node.params \in Seq(Idents)
  <2>1. G!node \in G!S!Node
    BY <1>2, <1>3 DEF Here
  <2>2. QED
    BY <1>1, <2>1, G!S!NodeFields, Source, GSource, NumArgRegsAssumption
<1>6. Walks(prog, "functions", item, 2, vars', frames', TRUE)
  <2> DEFINE vs == vars'
             fs == frames'
  <2>1. vs \in Seq(G!VarRecord) /\ f \in G!FrameRecord
    BY <1>1, G!NewFrame, GSource, NumArgRegsAssumption DEF G!IInv, G!Accounted
  <2>2. Len(vs) = Len(G!node.params)
    BY <1>1, <1>5
  <2>3. \A j \in 1..Len(vs) : vs[j].name = G!node.params[j] /\ vs[j].site = <<item, 1, j>>
    BY <1>1, <1>4, <2>2 DEF G!ParamEntry
  <2>4. f.at = 1 /\ f.mark = 0 /\ f.k = "karya" /\ fs = Append(<<>>, f)
    BY <1>1, <1>4 DEF G!Frame
  <2>5. /\ prog \in G!S!Program /\ G!S!IsTree(prog) /\ item \in DOMAIN prog
        /\ G!node = prog[item][1]
    BY <1>2, <1>3, <1>4 DEF Here
  <2> HIDE DEF vs, fs, f
  <2>6. Walks(prog, "functions", item, 2, vs, fs, TRUE)
    BY <1>4, <2>1, <2>2, <2>3, <2>4, <2>5, FunctionOpens
  <2>7. QED
    BY <2>6 DEF vs, fs
<1>7. G!S!Unclosed(prog[item], pc) = {}
  BY <1>4, G!S!NestedStarts, Source, GSource, NumArgRegsAssumption
<1>8. G!S!UsesAt(G!S!At(prog, <<item, pc>>)) = {}
  BY <1>1, <1>3 DEF G!S!UsesAt, G!S!AllExprs, G!S!SimpleKinds
<1>9. outcome' # "thrown"
  <2>1. PICK n : G!Outcome(FALSE, n)
    BY <1>1
  <2>2. QED
    BY <2>1 DEF G!Outcome, NInv
<1>10. G!Used
  BY <1>1, <1>7, <1>8, <1>9 DEF G!Used
<1>11. G!Declared
  BY <1>1, <1>4 DEF G!Declared, NInv, GlobalsAre
<1>12. Past
  <2>1. pc + 1 = 2
    BY <1>4
  <2>2. Walks(prog, pass, item, pc + 1, vars', frames', inFunction')
    BY <1>1, <1>4, <1>6, <2>1, Zenon
  <2>3. QED
    BY <1>1, <1>4, <1>10, <1>11, <2>2, Zenon DEF Past
<1>13. QED
  BY <1>2, <1>12

(* The end of a function: its frame was the only one.                      *)
LEMMA FunctionCloses ==
  ASSUME G!Ready, G!IInv, G!EndFuncDecl
  PROVE  /\ frames' = <<>> /\ G!IsKarya(prog, item)
         /\ G!S!Nested(prog[item], pc + 1)
         /\ G!S!Unclosed(prog[item], pc + 1) = {}
         /\ \A o \in G!S!Unclosed(prog[item], pc) : prog[item][o].k # "pratyek"
<1> DEFINE t == prog[item]
           o == frames[1].at
<1>1. /\ G!node.k = "close" /\ frames # <<>> /\ G!Top.k = "karya"
      /\ frames' = G!Front(frames)
  BY DEF G!EndFuncDecl, G!Closing
<1>2. /\ t \in Seq(G!S!Node) /\ G!S!Bracketed(t) /\ pc \in DOMAIN t /\ pc \in Nat
      /\ t[pc].k = "close"
  BY <1>1, G!NodeHere, GSource, NumArgRegsAssumption DEF G!AtNode, G!Ready
<1>3. /\ G!S!Nested(t, pc) /\ G!Matched(t, frames) /\ G!S!Follows(t, pc, frames)
      /\ frames \in Seq(G!FrameRecord)
  BY DEF G!AtNode, G!WalkAt, G!Ready
<1>4. Len(frames) = 1 /\ frames[1].k = "karya" /\ inFunction
  <2>1. G!Top = frames[Len(frames)] /\ Len(frames) \in DOMAIN frames
    BY <1>1, <1>3, G!TopIs, GSource, NumArgRegsAssumption
  <2>2. QED
    BY <1>1, <1>3, <2>1 DEF G!IInv, G!Shaped
<1>5. frames' = <<>>
  <2>1. G!Front(frames) \in Seq(G!FrameRecord) /\ Len(G!Front(frames)) = 0
    <3>1. /\ G!S!Front(frames) \in Seq(G!FrameRecord)
          /\ Len(G!S!Front(frames)) = Len(frames) - 1
          /\ G!Front(frames) = G!S!Front(frames)
      BY <1>1, <1>3, G!FrontIs, GSource, NumArgRegsAssumption
    <3>2. Len(frames) - 1 = 0
      BY <1>4
    <3>3. QED
      BY <3>1, <3>2
  <2> DEFINE hs == G!Front(frames)
  <2> HIDE DEF hs
  <2>2. hs \in Seq(G!FrameRecord) /\ Len(hs) = 0 => hs = <<>>
    OBVIOUS
  <2>3. QED
    BY <1>1, <2>1, <2>2 DEF hs
<1>6. G!S!Live(frames) = {1}
  BY <1>3, <1>4 DEF G!S!Live
<1>7. o \in G!S!Unclosed(t, pc) /\ \A r \in G!S!Unclosed(t, pc) : r = o
  BY <1>3, <1>6 DEF G!S!Follows
<1>8. /\ G!S!Nested(t, pc + 1)
      /\ G!S!Unclosed(t, pc + 1) = G!S!Unclosed(t, pc) \ {o}
  <2>1. \A r \in G!S!Unclosed(t, pc) : r <= o
    <3>1. o \in Nat
      <4>1. frames[1] \in G!FrameRecord
        BY <1>3, <1>4
      <4>2. QED
        BY <4>1 DEF G!FrameRecord
    <3> HIDE DEF o
    <3>2. QED
      BY <1>7, <3>1
  <2> HIDE DEF t, o
  <2>2. QED
    BY <1>2, <1>3, <1>7, <2>1, G!S!NestedCloses, Source, GSource, NumArgRegsAssumption
<1>9. G!S!Unclosed(t, pc + 1) = {}
  BY <1>7, <1>8
<1>10. t[o].k # "pratyek"
  BY <1>3, <1>4 DEF G!Matched
<1>11. G!IsKarya(prog, item)
  BY <1>4 DEF G!Ready
<1>12. QED
  BY <1>5, <1>7, <1>8, <1>9, <1>10, <1>11

LEMMA EndFunctionIsPast ==
  ASSUME G!IInv, G!IInv', NInv, Accepted, G!EndFuncDecl
  PROVE  Here /\ Past
<1>1. /\ G!Generating /\ G!node.k = "close" /\ frames # <<>>
      /\ inFunction' = FALSE /\ G!Advance
      /\ UNCHANGED <<globals, binds, outcome>>
  BY DEF G!EndFuncDecl, G!Closing
<1>2. Here /\ G!Ready
  BY <1>1, HereIsReady
<1>3. /\ frames' = <<>> /\ G!IsKarya(prog, item)
      /\ G!S!Nested(prog[item], pc + 1)
      /\ G!S!Unclosed(prog[item], pc + 1) = {}
      /\ \A o \in G!S!Unclosed(prog[item], pc) : prog[item][o].k # "pratyek"
  BY <1>2, FunctionCloses
<1>4. Walks(prog, pass, item, pc + 1, vars', frames', FALSE)
  <2>1. G!S!Follows(prog[item], pc + 1, <<>>) /\ G!Matched(prog[item], <<>>)
    BY <1>3 DEF G!S!Follows, G!S!Live, G!Matched
  <2>2. pass = "functions"
    BY <1>2, <1>3 DEF Here
  <2>3. QED
    BY <1>3, <2>1, <2>2 DEF Walks
<1>5. G!Used
  BY <1>1, <1>2, <1>3, G!UsesNothing, GSource, NumArgRegsAssumption
<1>6. G!Declared
  BY <1>1, <1>2, G!DeclaresNothing, GSource, NumArgRegsAssumption
<1>7. QED
  BY <1>1, <1>2, <1>4, <1>5, <1>6, Zenon DEF Past

(* The other steps of the walk.                                            *)
LEMMA NodeStepIsHere ==
  ASSUME G!AtNodeStep
  PROVE  /\ G!Generating /\ G!node.k # "karya"
         /\ frames = <<>> => G!node.k \notin {"nahitar", "anyatha", "close"}
<1>1. CASE G!GenSimple
  BY <1>1 DEF G!GenSimple, G!AtStatement, G!SimpleKinds
<1>2. CASE \/ G!GenBreak \/ G!GenContinue \/ G!GenReturn \/ G!GenScope \/ G!GenIf
           \/ G!GenWhile \/ G!GenFor \/ G!GenSwitch
  BY <1>2 DEF G!GenBreak, G!GenContinue, G!GenReturn, G!GenScope, G!GenIf, G!GenWhile,
     G!GenFor, G!GenSwitch, G!AtStatement
<1>3. CASE G!GenElseIf \/ G!GenElse \/ G!GenCase
  BY <1>3 DEF G!GenElseIf, G!GenElse, G!GenCase
<1>4. CASE \/ G!EndGenScope \/ G!EndLastArm \/ G!EndArm \/ G!EndWhile \/ G!EndFor
           \/ G!EndCase \/ G!EndSwitch
  BY <1>4 DEF G!EndGenScope, G!EndLastArm, G!EndArm, G!EndWhile, G!EndFor, G!EndCase,
     G!EndSwitch, G!Closing
<1>5. QED
  BY <1>1, <1>2, <1>3, <1>4 DEF G!AtNodeStep

LEMMA WalkKeeps ==
  ASSUME G!IInv, G!IInv', NInv, Accepted,
         G!AtNodeStep \/ G!GenFuncDecl \/ G!EndFuncDecl
  PROVE  NInv'
<1>1. CASE G!AtNodeStep
  <2>1. Here /\ G!Ready
    BY <1>1, NodeStepIsHere, HereIsReady
  <2>2. Past
    BY <1>1, <2>1, G!NodeSteps, GSource, NumArgRegsAssumption, StepsPast
  <2>3. QED
    BY <2>1, <2>2, PastKeeps
<1>2. CASE G!GenFuncDecl
  BY <1>2, FunctionIsPast, PastKeeps
<1>3. CASE G!EndFuncDecl
  BY <1>3, EndFunctionIsPast, PastKeeps
<1>4. QED
  BY <1>1, <1>2, <1>3

-----------------------------------------------------------------------------
(* The passes over the top level.                                          *)

(* Past the last statement nothing waits.                                  *)
LEMMA NothingWaits ==
  ASSUME NInv, NEW w \in G!S!Nodes(prog), Given(prog, pass, item, pc, w),
         \/ item \notin DOMAIN prog
         \/ pc = 1,
         NEW u \in G!S!UsesAt(G!S!At(prog, w))
  PROVE  G!Bound(binds, w, u)
<1>1. pc = 1 => G!S!Unclosed(prog[item], pc) = {}
  BY G!S!NestedStarts, Source, GSource, NumArgRegsAssumption
<1>2. ~Waits(w, u)
  BY <1>1 DEF Waits
<1>3. QED
  BY <1>2 DEF NInv, UsesAreBound

(* When what is generated stays the same, so does what is known of it.     *)
LEMMA TurnKeeps ==
  ASSUME NInv, item \notin DOMAIN prog \/ pc = 1,
         UNCHANGED <<prog, globals, outcome, binds>>,
         \A w \in G!S!Nodes(prog) :
           Given(prog, pass', item', pc', w) => Given(prog, pass, item, pc, w),
         InPlace'
  PROVE  NInv'
<1>1. GlobalsAre(globals)'
  BY DEF NInv, GlobalsAre
<1>2. \A b \in binds : G!OfUse(prog, b) /\ G!Agrees(prog, b)
  BY DEF NInv, UsesAreBound
<1>3. ASSUME NEW w \in G!S!Nodes(prog), Given(prog, pass', item', pc', w),
             NEW u \in G!S!UsesAt(G!S!At(prog, w))
      PROVE  G!Bound(binds, w, u)
  BY <1>3, NothingWaits
<1>4. UsesAreBound'
  BY <1>2, <1>3 DEF UsesAreBound
<1>5. QED
  BY <1>1, <1>4 DEF NInv

(* A statement of the other pass.                                          *)
LEMMA SkipKeeps ==
  ASSUME G!IInv, NInv, Accepted, G!SkipItem
  PROVE  NInv'
<1>1. /\ item \in DOMAIN prog /\ item' = item + 1 /\ pc' = 1 /\ item \in Nat
      /\ \/ pass = "entry" /\ G!IsKarya(prog, item)
         \/ pass = "functions" /\ ~G!IsKarya(prog, item)
      /\ UNCHANGED <<prog, pass, vars, globals, inFunction, frames, outcome, binds>>
  <2>1. item \in Nat \ {0} /\ item <= Len(prog) /\ item' = item + 1 /\ pc' = 1
    BY DEF G!SkipItem, G!IInv, G!PlaceIsInProgram
  <2>2. item \in DOMAIN prog
    BY <2>1 DEF Accepted, G!S!Program
  <2>3. /\ \/ pass = "entry" /\ G!IsKarya(prog, item)
           \/ pass = "functions" /\ ~G!IsKarya(prog, item)
        /\ UNCHANGED <<prog, pass, vars, globals, inFunction, frames, outcome, binds>>
    BY DEF G!SkipItem, G!IsFunction, G!IsKarya
  <2>4. QED
    BY <2>1, <2>2, <2>3
<1>2. Walks(prog, pass, item, pc, vars, frames, inFunction)
  BY <1>1 DEF NInv, InPlace, Place
<1>3. pc = 1
  BY <1>1, <1>2 DEF Walks
<1>4. Idle(frames) /\ G!S!Live(frames) = {}
  BY <1>2, <1>3, IdleFollows DEF Walks, Idle
<1>5. inFunction = FALSE
  BY <1>4, IdleIsOutside DEF G!IInv, G!Accounted, G!Shaped
<1>6. Place(prog, pass, item + 1, 1, vars, frames, FALSE)
  <2>1. pass = "entry" => G!S!Tracks(prog, item + 1, 1, {}, vars, frames)
    BY <1>1, <1>2, <1>3, <1>4, G!S!TracksSkip, Source, GSource, NumArgRegsAssumption DEF Walks, Accepted, G!IsKarya
  <2>2. QED
    BY <1>4, <2>1, PlaceTurns, Zenon
<1>7. InPlace'
  <2>1. Place(prog', pass', item', pc', vars', frames', inFunction')
    BY <1>1, <1>5, <1>6, Zenon
  <2>2. pass' \in {"entry", "functions"}
    BY <1>1
  <2>3. QED
    BY <2>1, <2>2 DEF InPlace
<1>8. ASSUME NEW w \in G!S!Nodes(prog), Given(prog, pass, item + 1, 1, w)
      PROVE  Given(prog, pass, item, pc, w)
  <2>1. w[1] \in Nat /\ w[2] \in Nat \ {0}
    BY G!S!NodeShape, Source, GSource, NumArgRegsAssumption DEF Accepted
  <2>2. w \in G!S!Visited(prog, item + 1, 1) => w[1] = item \/ w[1] < item
    BY <1>1, <2>1 DEF G!S!Visited
  <2>3. w[1] < item => w \in G!S!Visited(prog, item, pc)
    BY DEF G!S!Visited
  <2>4. QED
    BY <1>1, <1>8, <2>2, <2>3 DEF Given
<1>9. QED
  BY <1>1, <1>3, <1>7, <1>8, TurnKeeps

(* The end of the first pass, and of the second.                           *)
LEMMA EndsKeep ==
  ASSUME G!IInv, NInv, Accepted, G!EndEntryPoint \/ G!EndGenerate
  PROVE  NInv'
<1>1. /\ item \notin DOMAIN prog /\ item \in Nat /\ item > Len(prog)
      /\ UNCHANGED <<prog, vars, globals, inFunction, frames, outcome, binds>>
  BY DEF G!EndEntryPoint, G!EndGenerate, G!IInv, G!PlaceIsInProgram, Accepted, G!S!Program
<1>2. G!S!Visited(prog, item, pc) = G!S!Nodes(prog)
  BY <1>1, G!S!VisitedLast, Source, GSource, NumArgRegsAssumption DEF Accepted
<1>3. Idle(frames) /\ ~inFunction
  BY <1>1 DEF NInv, InPlace, Place
<1>4. inFunction = FALSE
  BY <1>3 DEF G!IInv, G!Shaped
<1>5. CASE G!EndEntryPoint
  <2>1. pass = "entry" /\ pass' = "functions" /\ item' = 1 /\ pc' = 1
    BY <1>5 DEF G!EndEntryPoint
  <2>2. Place(prog, "functions", 1, 1, vars, frames, FALSE)
    BY <1>3, PlaceTurns
  <2>3. InPlace'
    BY <1>1, <1>4, <2>1, <2>2 DEF InPlace
  <2>4. G!S!Visited(prog, 1, 1) = {}
    BY G!S!VisitedFirst, Source, GSource, NumArgRegsAssumption DEF Accepted
  <2>5. \A w \in G!S!Nodes(prog) :
          Given(prog, pass', item', pc', w) => Given(prog, pass, item, pc, w)
    BY <1>2, <2>1, <2>4 DEF Given
  <2>6. QED
    BY <1>1, <2>3, <2>5, TurnKeeps
<1>6. CASE G!EndGenerate
  <2>1. pass = "functions" /\ pass' = "done" /\ item' = item /\ pc' = pc
    BY <1>6 DEF G!EndGenerate
  <2>2. InPlace'
    BY <1>1, <1>3, <2>1 DEF InPlace, Place
  <2>3. \A w \in G!S!Nodes(prog) :
          Given(prog, pass', item', pc', w) => Given(prog, pass, item, pc, w)
    BY <1>2, <2>1 DEF Given
  <2>4. QED
    BY <1>1, <2>2, <2>3, TurnKeeps
<1>7. QED
  BY <1>5, <1>6

(* The generator's first state.                                            *)
LEMMA NInvStarts ==
  ASSUME prog \in G!S!Program, G!InitOn(prog)
  PROVE  NInv
<1>1. /\ pass = "entry" /\ item = 1 /\ pc = 1 /\ vars = <<>> /\ globals = <<>>
      /\ inFunction = FALSE /\ frames = <<>> /\ outcome = "ok" /\ binds = {}
  BY DEF G!InitOn
<1>2. Idle(<<>>)
  BY DEF Idle, G!S!Live
<1>3. G!S!Tracks(prog, 1, 1, {}, <<>>, <<>>)
  BY G!S!TracksStart, Source, GSource, NumArgRegsAssumption
<1>4. InPlace
  BY <1>1, <1>2, <1>3, PlaceTurns DEF InPlace
<1>5. G!S!Visited(prog, 1, 1) = {}
  BY G!S!VisitedFirst, Source, GSource, NumArgRegsAssumption
<1>6. \A w \in G!S!Nodes(prog) : ~Given(prog, pass, item, pc, w)
  BY <1>1, <1>5 DEF Given
<1>7. GlobalsAre(globals)
  <2>1. <<>> \in Seq(G!VarRecord) /\ 1..Len(<<>>) = {}
    OBVIOUS
  <2>2. QED
    BY <1>1, <1>6, <2>1 DEF GlobalsAre, G!OfTopLevel
<1>8. UsesAreBound
  BY <1>1, <1>6 DEF UsesAreBound
<1>9. QED
  BY <1>1, <1>4, <1>7, <1>8 DEF NInv

(* Every step of the generator.                                            *)
LEMMA GenerateKeeps ==
  ASSUME G!IInv, G!IInv', NInv, Accepted, G!Next
  PROVE  NInv'
BY WalkKeeps, SkipKeeps, EndsKeep, Zenon
   DEF G!Next, G!GenBlock, G!EndBlock, G!AtNodeStep

-----------------------------------------------------------------------------
(* The components' own lemmas are about their own modules: a step of either *)
(* inside the compiler is a step of it alone.                              *)
LEMMA GenStep ==
  Gen!Next => G!Next
<1>1. Gen!GenSimple => G!GenSimple
  BY Zenon DEF Gen!GenSimple, G!GenSimple, Gen!AtStatement, G!AtStatement,
     Gen!node, G!node, Gen!SimpleKinds, G!SimpleKinds, Gen!Plain, G!Plain,
     Gen!VarsAfter, G!VarsAfter, Gen!GlobalsAfter, G!GlobalsAfter,
     Gen!Resolved, G!Resolved, Gen!References, G!References, Gen!Outcome,
     G!Outcome, Gen!Throws, G!Throws, Gen!Overruns, G!Overruns, Gen!OwnExprs,
     G!OwnExprs, Gen!NewSlots, G!NewSlots, Gen!NewLabels, G!NewLabels,
     Gen!Raise, G!Raise, Gen!Advance, G!Advance, Gen!Generating, G!Generating,
     Gen!Top, G!Top, Gen!Entry, G!Entry, Gen!FindVar, G!FindVar, Gen!Mentions,
     G!Mentions, Gen!CallsIn, G!CallsIn, Gen!StoreAsStatic, G!StoreAsStatic,
     Gen!NoExpr, G!NoExpr, Gen!GoTo, G!GoTo, Gen!IsFunction, G!IsFunction,
     Gen!Last, G!Last, Gen!Latest, G!Latest, Gen!Max, G!Max
<1>2. /\ Gen!GenBreak => G!GenBreak
      /\ Gen!GenContinue => G!GenContinue
  BY Zenon DEF Gen!GenBreak, G!GenBreak, Gen!AtStatement, G!AtStatement,
     Gen!node, G!node, Gen!Loops, G!Loops, Gen!Max, G!Max, Gen!JumpOutOf,
     G!JumpOutOf, Gen!Generating, G!Generating, Gen!Top, G!Top, Gen!Jumps,
     G!Jumps, Gen!Advance, G!Advance, Gen!IsFunction, G!IsFunction, Gen!Last,
     G!Last, Gen!GoTo, G!GoTo, Gen!GenContinue, G!GenContinue
<1>3. Gen!GenReturn => G!GenReturn
  BY Zenon DEF Gen!GenReturn, G!GenReturn, Gen!AtStatement, G!AtStatement,
     Gen!node, G!node, Gen!UseExprs, G!UseExprs, Gen!Advance, G!Advance,
     Gen!Generating, G!Generating, Gen!Top, G!Top, Gen!Resolved, G!Resolved,
     Gen!ExprNames, G!ExprNames, Gen!Plain, G!Plain, Gen!Outcome, G!Outcome,
     Gen!Throws, G!Throws, Gen!Overruns, G!Overruns, Gen!GoTo, G!GoTo,
     Gen!IsFunction, G!IsFunction, Gen!Last, G!Last, Gen!FindVar, G!FindVar,
     Gen!Mentions, G!Mentions, Gen!CallsIn, G!CallsIn, Gen!Latest, G!Latest,
     Gen!Max, G!Max
<1>4. /\ Gen!GenScope => G!GenScope
      /\ Gen!GenElse => G!GenElse
      /\ Gen!GenCase => G!GenCase
      /\ Gen!GenFuncDecl => G!GenFuncDecl
  BY Zenon DEF Gen!GenScope, G!GenScope, Gen!AtStatement, G!AtStatement,
     Gen!node, G!node, Gen!Push, G!Push, Gen!Frame, G!Frame, Gen!Advance,
     G!Advance, Gen!machine, G!machine, Gen!Generating, G!Generating, Gen!Top,
     G!Top, Gen!NoLabel, G!NoLabel, Gen!GoTo, G!GoTo, Gen!IsFunction,
     G!IsFunction, Gen!Last, G!Last, Gen!GenElse, G!GenElse, Gen!Front,
     G!Front, Gen!GenCase, G!GenCase, Gen!AtLabel, G!AtLabel, Gen!GenFuncDecl,
     G!GenFuncDecl, Gen!ParamEntry, G!ParamEntry, Gen!Outcome, G!Outcome
<1>5. /\ Gen!GenIf => G!GenIf
      /\ Gen!GenWhile => G!GenWhile
  BY Zenon DEF Gen!GenIf, G!GenIf, Gen!AtStatement, G!AtStatement, Gen!node,
     G!node, Gen!UseExprs, G!UseExprs, Gen!Jumps, G!Jumps, Gen!Push, G!Push,
     Gen!Frame, G!Frame, Gen!NoLabel, G!NoLabel, Gen!Advance, G!Advance,
     Gen!Generating, G!Generating, Gen!Top, G!Top, Gen!Resolved, G!Resolved,
     Gen!ExprNames, G!ExprNames, Gen!Plain, G!Plain, Gen!Outcome, G!Outcome,
     Gen!Throws, G!Throws, Gen!Overruns, G!Overruns, Gen!GoTo, G!GoTo,
     Gen!IsFunction, G!IsFunction, Gen!Last, G!Last, Gen!FindVar, G!FindVar,
     Gen!Mentions, G!Mentions, Gen!CallsIn, G!CallsIn, Gen!Latest, G!Latest,
     Gen!Max, G!Max, Gen!GenWhile, G!GenWhile
<1>6. Gen!GenElseIf => G!GenElseIf
  BY Zenon DEF Gen!GenElseIf, G!GenElseIf, Gen!Generating, G!Generating,
     Gen!node, G!node, Gen!Top, G!Top, Gen!UseExprs, G!UseExprs, Gen!Jumps,
     G!Jumps, Gen!Front, G!Front, Gen!Frame, G!Frame, Gen!Advance, G!Advance,
     Gen!IsFunction, G!IsFunction, Gen!Last, G!Last, Gen!Resolved, G!Resolved,
     Gen!ExprNames, G!ExprNames, Gen!Plain, G!Plain, Gen!Outcome, G!Outcome,
     Gen!Throws, G!Throws, Gen!Overruns, G!Overruns, Gen!NoLabel, G!NoLabel,
     Gen!GoTo, G!GoTo, Gen!FindVar, G!FindVar, Gen!Mentions, G!Mentions,
     Gen!CallsIn, G!CallsIn, Gen!Latest, G!Latest, Gen!Max, G!Max
<1>7. Gen!GenFor => G!GenFor
  BY Zenon DEF Gen!GenFor, G!GenFor, Gen!AtStatement, G!AtStatement, Gen!node,
     G!node, Gen!InInit, G!InInit, Gen!VarsAfter, G!VarsAfter,
     Gen!GlobalsAfter, G!GlobalsAfter, Gen!NewSlots, G!NewSlots,
     Gen!NewLabels, G!NewLabels, Gen!Raise, G!Raise, Gen!Frame, G!Frame,
     Gen!Resolved, G!Resolved, Gen!References, G!References, Gen!Mentions,
     G!Mentions, Gen!InCond, G!InCond, Gen!Outcome, G!Outcome, Gen!Throws,
     G!Throws, Gen!Overruns, G!Overruns, Gen!OwnExprs, G!OwnExprs,
     Gen!Advance, G!Advance, Gen!Generating, G!Generating, Gen!Top, G!Top,
     Gen!Entry, G!Entry, Gen!StoreAsStatic, G!StoreAsStatic, Gen!NoExpr,
     G!NoExpr, Gen!NoLabel, G!NoLabel, Gen!FindVar, G!FindVar, Gen!CallsIn,
     G!CallsIn, Gen!GoTo, G!GoTo, Gen!IsFunction, G!IsFunction, Gen!Last,
     G!Last, Gen!Latest, G!Latest, Gen!Max, G!Max
<1>8. Gen!GenSwitch => G!GenSwitch
  BY Zenon DEF Gen!GenSwitch, G!GenSwitch, Gen!AtStatement, G!AtStatement,
     Gen!node, G!node, Gen!UseExprs, G!UseExprs, Gen!AllExprs, G!AllExprs,
     Gen!NoExpr, G!NoExpr, Gen!Max, G!Max, Gen!Raise, G!Raise, Gen!Push,
     G!Push, Gen!Frame, G!Frame, Gen!Advance, G!Advance, Gen!Generating,
     G!Generating, Gen!Top, G!Top, Gen!Resolved, G!Resolved, Gen!ExprNames,
     G!ExprNames, Gen!Plain, G!Plain, Gen!Outcome, G!Outcome, Gen!Throws,
     G!Throws, Gen!Overruns, G!Overruns, Gen!SimpleKinds, G!SimpleKinds,
     Gen!OwnExprs, G!OwnExprs, Gen!NoLabel, G!NoLabel, Gen!GoTo, G!GoTo,
     Gen!IsFunction, G!IsFunction, Gen!Last, G!Last, Gen!FindVar, G!FindVar,
     Gen!Mentions, G!Mentions, Gen!CallsIn, G!CallsIn, Gen!Latest, G!Latest
<1>9. /\ Gen!EndGenScope => G!EndGenScope
      /\ Gen!EndWhile => G!EndWhile
      /\ Gen!EndCase => G!EndCase
  BY Zenon DEF Gen!EndGenScope, G!EndGenScope, Gen!Closing, G!Closing,
     Gen!EndScope, G!EndScope, Gen!Top, G!Top, Gen!After, G!After, Gen!Front,
     G!Front, Gen!Advance, G!Advance, Gen!Generating, G!Generating, Gen!node,
     G!node, Gen!PopCount, G!PopCount, Gen!Shrink, G!Shrink, Gen!Last, G!Last,
     Gen!Lower, G!Lower, Gen!GoTo, G!GoTo, Gen!IsFunction, G!IsFunction,
     Gen!Cardinality, G!Cardinality, Gen!IsFiniteSet, G!IsFiniteSet,
     Gen!EndWhile, G!EndWhile, Gen!AtLabel, G!AtLabel, Gen!EndCase, G!EndCase
<1>10. /\ Gen!EndLastArm => G!EndLastArm
       /\ Gen!EndArm => G!EndArm
  BY Zenon DEF Gen!EndLastArm, G!EndLastArm, Gen!Closing, G!Closing, Gen!Top,
     G!Top, Gen!EndScope, G!EndScope, Gen!NoLabel, G!NoLabel, Gen!After,
     G!After, Gen!AtLabel, G!AtLabel, Gen!ArmLabels, G!ArmLabels, Gen!Front,
     G!Front, Gen!Advance, G!Advance, Gen!Generating, G!Generating, Gen!node,
     G!node, Gen!Last, G!Last, Gen!PopCount, G!PopCount, Gen!Shrink, G!Shrink,
     Gen!Lower, G!Lower, Gen!GoTo, G!GoTo, Gen!IsFunction, G!IsFunction,
     Gen!Cardinality, G!Cardinality, Gen!IsFiniteSet, G!IsFiniteSet,
     Gen!EndArm, G!EndArm
<1>11. Gen!EndFor => G!EndFor
  BY Zenon DEF Gen!EndFor, G!EndFor, Gen!Closing, G!Closing, Gen!Top, G!Top,
     Gen!Shrink, G!Shrink, Gen!AtLabel, G!AtLabel, Gen!After, G!After,
     Gen!PopCount, G!PopCount, Gen!Lower, G!Lower, Gen!Resolved, G!Resolved,
     Gen!References, G!References, Gen!InStep, G!InStep, Gen!Outcome,
     G!Outcome, Gen!Throws, G!Throws, Gen!Overruns, G!Overruns, Gen!OwnExprs,
     G!OwnExprs, Gen!Front, G!Front, Gen!Advance, G!Advance, Gen!Generating,
     G!Generating, Gen!node, G!node, Gen!Last, G!Last, Gen!Cardinality,
     G!Cardinality, Gen!FindVar, G!FindVar, Gen!Mentions, G!Mentions,
     Gen!CallsIn, G!CallsIn, Gen!GoTo, G!GoTo, Gen!IsFunction, G!IsFunction,
     Gen!IsFiniteSet, G!IsFiniteSet, Gen!Latest, G!Latest, Gen!Max, G!Max
<1>12. /\ Gen!EndSwitch => G!EndSwitch
       /\ Gen!EndFuncDecl => G!EndFuncDecl
  BY Zenon DEF Gen!EndSwitch, G!EndSwitch, Gen!Closing, G!Closing, Gen!Top,
     G!Top, Gen!Lower, G!Lower, Gen!AtLabel, G!AtLabel, Gen!Front, G!Front,
     Gen!Advance, G!Advance, Gen!Generating, G!Generating, Gen!node, G!node,
     Gen!Last, G!Last, Gen!GoTo, G!GoTo, Gen!IsFunction, G!IsFunction,
     Gen!EndFuncDecl, G!EndFuncDecl
<1>13. /\ Gen!SkipItem => G!SkipItem
       /\ Gen!EndEntryPoint => G!EndEntryPoint
       /\ Gen!EndGenerate => G!EndGenerate
  BY Zenon DEF Gen!SkipItem, G!SkipItem, Gen!IsFunction, G!IsFunction,
     Gen!machine, G!machine, Gen!EndEntryPoint, G!EndEntryPoint,
     Gen!EndGenerate, G!EndGenerate
<1>14. Gen!GenBlock => G!GenBlock
  BY <1>4, <1>5, <1>6, <1>7, <1>8, Zenon DEF Gen!GenBlock, G!GenBlock
<1>15. Gen!EndBlock => G!EndBlock
  BY <1>9, <1>10, <1>11, <1>12, Zenon DEF Gen!EndBlock, G!EndBlock
<1>16. QED
  BY <1>1, <1>2, <1>3, <1>13, <1>14, <1>15, Zenon DEF Gen!Next, G!Next

LEMMA SemaStep ==
  Sema!Next => G!S!Next
<1>1. Sema!CollectFunctionSignatures => G!S!CollectFunctionSignatures
  BY Zenon DEF Sema!CollectFunctionSignatures, G!S!CollectFunctionSignatures,
     Sema!FunctionNames, G!S!FunctionNames, Sema!FirstOf, G!S!FirstOf,
     Sema!FunctionItems, G!S!FunctionItems, Sema!Min, G!S!Min
<1>2. Sema!VisitSimple => G!S!VisitSimple
  BY Zenon DEF Sema!VisitSimple, G!S!VisitSimple, Sema!Visiting, G!S!Visiting,
     Sema!node, G!S!node, Sema!SimpleKinds, G!S!SimpleKinds, Sema!Report,
     G!S!Report, Sema!SimpleErrors, G!S!SimpleErrors, Sema!SimpleScopes,
     G!S!SimpleScopes, Sema!Plain, G!S!Plain, Sema!Resolved, G!S!Resolved,
     Sema!References, G!S!References, Sema!Advance, G!S!Advance, Sema!ExprsErrors,
     G!S!ExprsErrors, Sema!OwnExprs, G!S!OwnExprs, Sema!DeclErrors, G!S!DeclErrors,
     Sema!AssignmentErrors, G!S!AssignmentErrors, Sema!Declare, G!S!Declare,
     Sema!VarInfo, G!S!VarInfo, Sema!Find, G!S!Find, Sema!Mentions, G!S!Mentions,
     Sema!GoTo, G!S!GoTo, Sema!ExprErrors, G!S!ExprErrors, Sema!NoExpr, G!S!NoExpr,
     Sema!Redeclares, G!S!Redeclares, Sema!AssignErrors, G!S!AssignErrors,
     Sema!Named, G!S!Named, Sema!Max, G!S!Max, Sema!UseErrors, G!S!UseErrors,
     Sema!CallErrors, G!S!CallErrors, Sema!Last, G!S!Last
<1>3. Sema!VisitLoopJump => G!S!VisitLoopJump
  BY Zenon DEF Sema!VisitLoopJump, G!S!VisitLoopJump, Sema!Visiting, G!S!Visiting,
     Sema!node, G!S!node, Sema!Report, G!S!Report, Sema!JumpErrors, G!S!JumpErrors,
     Sema!Advance, G!S!Advance, Sema!GoTo, G!S!GoTo
<1>4. Sema!VisitReturn => G!S!VisitReturn
  BY Zenon DEF Sema!VisitReturn, G!S!VisitReturn, Sema!Visiting, G!S!Visiting,
     Sema!node, G!S!node, Sema!Report, G!S!Report, Sema!ExprsErrors,
     G!S!ExprsErrors, Sema!Resolved, G!S!Resolved, Sema!ExprNames, G!S!ExprNames,
     Sema!Plain, G!S!Plain, Sema!Advance, G!S!Advance, Sema!ExprErrors,
     G!S!ExprErrors, Sema!Find, G!S!Find, Sema!Mentions, G!S!Mentions, Sema!GoTo,
     G!S!GoTo, Sema!UseErrors, G!S!UseErrors, Sema!AssignErrors, G!S!AssignErrors,
     Sema!CallErrors, G!S!CallErrors, Sema!Named, G!S!Named, Sema!Max, G!S!Max
<1>5. /\ Sema!EnterBlock => G!S!EnterBlock
      /\ Sema!EnterSwitch => G!S!EnterSwitch
      /\ Sema!EnterWhile => G!S!EnterWhile
  BY Zenon DEF Sema!EnterBlock, G!S!EnterBlock, Sema!Visiting, G!S!Visiting,
     Sema!node, G!S!node, Sema!Report, G!S!Report, Sema!ExprsErrors,
     G!S!ExprsErrors, Sema!AllExprs, G!S!AllExprs, Sema!Resolved, G!S!Resolved,
     Sema!ExprNames, G!S!ExprNames, Sema!Plain, G!S!Plain, Sema!PushScope,
     G!S!PushScope, Sema!Push, G!S!Push, Sema!Advance, G!S!Advance, Sema!ExprErrors,
     G!S!ExprErrors, Sema!SimpleKinds, G!S!SimpleKinds, Sema!OwnExprs, G!S!OwnExprs,
     Sema!Find, G!S!Find, Sema!Mentions, G!S!Mentions, Sema!GoTo, G!S!GoTo,
     Sema!UseErrors, G!S!UseErrors, Sema!AssignErrors, G!S!AssignErrors,
     Sema!CallErrors, G!S!CallErrors, Sema!Named, G!S!Named, Sema!Max, G!S!Max,
     Sema!EnterSwitch, G!S!EnterSwitch, Sema!EnterWhile, G!S!EnterWhile
<1>6. Sema!EnterFor => G!S!EnterFor
  BY Zenon DEF Sema!EnterFor, G!S!EnterFor, Sema!Visiting, G!S!Visiting,
     Sema!node, G!S!node, Sema!PushScope, G!S!PushScope, Sema!SimpleScopes,
     G!S!SimpleScopes, Sema!InInit, G!S!InInit, Sema!Report, G!S!Report,
     Sema!SimpleErrors, G!S!SimpleErrors, Sema!ExprErrors, G!S!ExprErrors,
     Sema!Resolved, G!S!Resolved, Sema!References, G!S!References, Sema!Mentions,
     G!S!Mentions, Sema!InCond, G!S!InCond, Sema!InStep, G!S!InStep, Sema!Push,
     G!S!Push, Sema!Advance, G!S!Advance, Sema!Declare, G!S!Declare, Sema!VarInfo,
     G!S!VarInfo, Sema!ExprsErrors, G!S!ExprsErrors, Sema!OwnExprs, G!S!OwnExprs,
     Sema!DeclErrors, G!S!DeclErrors, Sema!AssignmentErrors, G!S!AssignmentErrors,
     Sema!UseErrors, G!S!UseErrors, Sema!AssignErrors, G!S!AssignErrors,
     Sema!CallErrors, G!S!CallErrors, Sema!Find, G!S!Find, Sema!GoTo, G!S!GoTo,
     Sema!Redeclares, G!S!Redeclares, Sema!NoExpr, G!S!NoExpr, Sema!Named,
     G!S!Named, Sema!Max, G!S!Max, Sema!Last, G!S!Last
<1>7. Sema!EnterFunction => G!S!EnterFunction
  BY Zenon DEF Sema!EnterFunction, G!S!EnterFunction, Sema!Visiting, G!S!Visiting,
     Sema!node, G!S!node, Sema!Report, G!S!Report, Sema!FirstParams,
     G!S!FirstParams, Sema!Param, G!S!Param, Sema!Push, G!S!Push, Sema!Advance,
     G!S!Advance, Sema!GoTo, G!S!GoTo
<1>8. Sema!RejectNestedFunction => G!S!RejectNestedFunction
  BY Zenon DEF Sema!RejectNestedFunction, G!S!RejectNestedFunction,
     Sema!Visiting, G!S!Visiting, Sema!node, G!S!node, Sema!Report, G!S!Report,
     Sema!SkipNested, G!S!SkipNested, Sema!GoTo, G!S!GoTo, Sema!CloseOf,
     G!S!CloseOf, Sema!Closes, G!S!Closes, Sema!Cardinality, G!S!Cardinality,
     Sema!OpenKinds, G!S!OpenKinds, Sema!IsFiniteSet, G!S!IsFiniteSet
<1>9. /\ Sema!LeaveBlock => G!S!LeaveBlock
      /\ Sema!Finish => G!S!Finish
  BY Zenon DEF Sema!LeaveBlock, G!S!LeaveBlock, Sema!Visiting, G!S!Visiting,
     Sema!node, G!S!node, Sema!Last, G!S!Last, Sema!ScopesLeft, G!S!ScopesLeft,
     Sema!LoopsLeft, G!S!LoopsLeft, Sema!Front, G!S!Front, Sema!Advance,
     G!S!Advance, Sema!PopScope, G!S!PopScope, Sema!GoTo, G!S!GoTo, Sema!Finish,
     G!S!Finish
<1>10. QED
  BY <1>1, <1>2, <1>3, <1>4, <1>5, <1>6, <1>7, <1>8, <1>9, Zenon DEF
     Sema!Next, G!S!Next

(* The tree is the same for both walks.                                    *)
LEMMA GenKeepsTree ==
  G!Next => prog' = prog
<1>1. /\ G!GenSimple => prog' = prog
      /\ G!GenBreak => prog' = prog
      /\ G!GenContinue => prog' = prog
      /\ G!GenReturn => prog' = prog
  BY Zenon DEF G!GenSimple, G!GenBreak, G!GenContinue, G!GenReturn,
     G!Advance, G!JumpOutOf
<1>2. /\ G!GenScope => prog' = prog
      /\ G!GenIf => prog' = prog
      /\ G!GenElseIf => prog' = prog
      /\ G!GenElse => prog' = prog
      /\ G!GenWhile => prog' = prog
  BY Zenon DEF G!GenScope, G!GenIf, G!GenElseIf, G!GenElse, G!GenWhile,
     G!Advance
<1>3. /\ G!GenFor => prog' = prog
      /\ G!GenSwitch => prog' = prog
      /\ G!GenCase => prog' = prog
      /\ G!GenFuncDecl => prog' = prog
  BY Zenon DEF G!GenFor, G!GenSwitch, G!GenCase, G!GenFuncDecl, G!Advance
<1>4. /\ G!EndGenScope => prog' = prog
      /\ G!EndLastArm => prog' = prog
      /\ G!EndArm => prog' = prog
      /\ G!EndWhile => prog' = prog
  BY Zenon DEF G!EndGenScope, G!EndLastArm, G!EndArm, G!EndWhile, G!Advance
<1>5. /\ G!EndFor => prog' = prog
      /\ G!EndCase => prog' = prog
      /\ G!EndSwitch => prog' = prog
      /\ G!EndFuncDecl => prog' = prog
  BY Zenon DEF G!EndFor, G!EndCase, G!EndSwitch, G!EndFuncDecl, G!Advance
<1>6. /\ G!SkipItem => prog' = prog
      /\ G!EndEntryPoint => prog' = prog
      /\ G!EndGenerate => prog' = prog
  BY Zenon DEF G!SkipItem, G!EndEntryPoint, G!EndGenerate, G!Advance
<1>7. G!GenBlock => prog' = prog
  BY <1>2, <1>3, Zenon DEF G!GenBlock
<1>8. G!EndBlock => prog' = prog
  BY <1>4, <1>5, Zenon DEF G!EndBlock
<1>9. QED
  BY <1>1, <1>6, <1>7, <1>8, Zenon DEF G!Next

LEMMA SemaKeepsTree ==
  G!S!Next => prog' = prog
<1>1. /\ G!S!CollectFunctionSignatures => prog' = prog
      /\ G!S!Finish => prog' = prog
  BY Zenon DEF G!S!CollectFunctionSignatures, G!S!Finish, G!S!Advance
<1>2. /\ G!S!VisitSimple => prog' = prog
      /\ G!S!VisitLoopJump => prog' = prog
      /\ G!S!VisitReturn => prog' = prog
      /\ G!S!EnterBlock => prog' = prog
      /\ G!S!EnterWhile => prog' = prog
  BY Zenon DEF G!S!VisitSimple, G!S!VisitLoopJump, G!S!VisitReturn, G!S!EnterBlock,
     G!S!EnterWhile, G!S!Advance
<1>3. /\ G!S!EnterFor => prog' = prog
      /\ G!S!EnterSwitch => prog' = prog
      /\ G!S!EnterFunction => prog' = prog
      /\ G!S!RejectNestedFunction => prog' = prog
      /\ G!S!LeaveBlock => prog' = prog
  BY Zenon DEF G!S!EnterFor, G!S!EnterSwitch, G!S!EnterFunction,
     G!S!RejectNestedFunction, G!S!LeaveBlock, G!S!Advance
<1>4. QED
  BY <1>1, <1>2, <1>3, Zenon DEF G!S!Next

-----------------------------------------------------------------------------
(* The two walks together.  The generator's part holds from the start: it  *)
(* has not moved while the analyser walks.  That the program is well       *)
(* formed, without which no step of the generator keeps it, is the         *)
(* analyser's verdict, which the gate hands over.                          *)
CInv ==
  /\ G!S!IInv /\ G!S!Verdict
  /\ G!IInv /\ NInv
  /\ stage = "codegen" => phase = "done" /\ diags = {}

LEMMA GatedIsAccepted ==
  ASSUME CInv, stage = "codegen"
  PROVE  Accepted /\ semaBinds = G!S!LexicalBindings(prog)
<1>1. G!S!WellFormed(prog) /\ semaBinds = G!S!LexicalBindings(prog)
  BY G!S!VerdictAtEnd, Source, GSource, NumArgRegsAssumption DEF CInv
<1>2. prog \in Programs
  BY DEF CInv, G!S!IInv, G!S!PlaceIsInProgram
<1>3. prog \in G!S!Program /\ G!S!IsTree(prog)
  BY <1>2, Source, GSource, NumArgRegsAssumption
<1>4. QED
  BY <1>1, <1>3 DEF Accepted

LEMMA CInvStarts == Init => CInv
<1> SUFFICES ASSUME NEW p \in Programs, stage = "sema", Sema!InitOn(p), Gen!InitOn(p)
             PROVE  CInv
  BY DEF Init
<1>1. G!S!InitOn(p) /\ G!InitOn(p)
  BY DEF Sema!InitOn, G!S!InitOn, Gen!InitOn, G!InitOn
<1>2. G!S!Init /\ G!Init
  BY <1>1 DEF G!S!Init, G!Init
<1>3. G!S!IInv /\ G!S!Verdict
  BY <1>2, G!S!InitEstablishes, G!S!InitUndecided, Source, GSource, NumArgRegsAssumption
<1>4. G!IInv
  BY <1>2, G!InitIsGood, GSource, NumArgRegsAssumption
<1>5. prog = p
  BY <1>1 DEF G!InitOn
<1>6. prog \in G!S!Program /\ G!InitOn(prog)
  BY <1>1, <1>5, Source, GSource, NumArgRegsAssumption
<1>7. NInv
  BY <1>6, NInvStarts
<1>8. QED
  BY <1>3, <1>4, <1>7 DEF CInv

(* A walk that makes no step keeps its part.                               *)
LEMMA SemaStutters ==
  ASSUME G!S!IInv, G!S!Verdict, prog' = prog, UNCHANGED semaVars
  PROVE  G!S!IInv' /\ G!S!Verdict'
<1>1. UNCHANGED G!S!vars
  BY DEF semaVars, G!S!vars
<1>2. QED
  BY <1>1, G!S!StepKeeps, G!S!VerdictKept, Source, GSource, NumArgRegsAssumption

LEMMA GenStutters ==
  ASSUME G!IInv, NInv, prog' = prog, UNCHANGED genVars
  PROVE  G!IInv' /\ NInv'
<1>1. UNCHANGED G!allVars
  BY DEF genVars, G!allVars
<1>2. G!IInv'
  BY <1>1, G!NextIsGood, GSource, NumArgRegsAssumption DEF G!StepIsGood
<1>3. UNCHANGED <<prog, pass, item, pc, vars, globals, frames, inFunction,
                  outcome, binds>>
  BY DEF genVars
<1>4. InPlace' /\ GlobalsAre(globals)'
  BY <1>3 DEF NInv, InPlace, GlobalsAre
<1>5. UsesAreBound'
  BY <1>3 DEF NInv, UsesAreBound, Waits
<1>6. QED
  BY <1>2, <1>3, <1>4, <1>5 DEF NInv

LEMMA CInvKept ==
  ASSUME CInv, [Next]_everything
  PROVE  CInv'
<1> USE DEF CInv
<1>1. CASE Analyze
  <2>1. stage' = stage /\ stage = "sema" /\ UNCHANGED genVars /\ Sema!Next
    BY <1>1 DEF Analyze
  <2>2. G!S!Next
    BY <2>1, SemaStep
  <2>3. G!S!IInv' /\ G!S!Verdict'
    BY <2>2, G!S!StepKeeps, G!S!VerdictKept, Source, GSource, NumArgRegsAssumption
  <2>4. prog' = prog
    BY <2>2, SemaKeepsTree
  <2>5. G!IInv' /\ NInv'
    BY <2>1, <2>4, GenStutters
  <2>6. QED
    BY <2>1, <2>3, <2>5
<1>2. CASE Gate
  <2>1. prog' = prog /\ UNCHANGED semaVars /\ UNCHANGED genVars
    BY <1>2 DEF Gate
  <2>2. stage' = "codegen" => phase' = "done" /\ diags' = {}
    BY <1>2 DEF Gate, semaVars
  <2>3. QED
    BY <2>1, <2>2, SemaStutters, GenStutters
<1>3. CASE Generate
  <2>1. stage' = stage /\ stage = "codegen" /\ UNCHANGED semaVars /\ Gen!Next
    BY <1>3 DEF Generate
  <2>2. G!Next
    BY <2>1, GenStep
  <2>3. prog' = prog
    BY <2>2, GenKeepsTree
  <2>4. G!S!IInv' /\ G!S!Verdict'
    BY <2>1, <2>3, SemaStutters
  <2>5. G!IInv'
    BY <2>2, G!NextIsGood, GSource, NumArgRegsAssumption DEF G!StepIsGood
  <2>6. NInv'
    BY <2>1, <2>2, <2>5, GatedIsAccepted, GenerateKeeps
  <2>7. stage' = "codegen" => phase' = "done" /\ diags' = {}
    BY <2>1 DEF semaVars
  <2>8. QED
    BY <2>4, <2>5, <2>6, <2>7
<1>4. CASE UNCHANGED everything
  <2>1. prog' = prog /\ stage' = stage /\ UNCHANGED semaVars /\ UNCHANGED genVars
    BY <1>4 DEF everything
  <2>2. phase' = phase /\ diags' = diags
    BY <2>1 DEF semaVars
  <2>3. QED
    BY <2>1, <2>2, SemaStutters, GenStutters
<1>5. QED
  BY <1>1, <1>2, <1>3, <1>4 DEF Next

LEMMA CInvHolds == Spec => []CInv
BY CInvStarts, CInvKept, PTL DEF Spec

(* The generator never throws on a program sema accepted: every name it    *)
(* looks up in _vars and _globals, each of which lost and kept variables   *)
(* by rules of its own, is there.                                          *)
THEOREM NamesFound == Spec => []AcceptedNamesAreFound
<1>1. CInv => AcceptedNamesAreFound
  BY DEF CInv, NInv, AcceptedNamesAreFound
<1>2. QED
  BY <1>1, CInvHolds, PTL

(* The blocks of declarations, as Compiler and the analyser's module say   *)
(* them.                                                                   *)
LEMMA SameBlocks ==
  ASSUME NEW p, NEW w
  PROVE  BlockOf(p, w) = G!S!BlockOf(p, w) /\ TopLevel = G!S!TopLevel
         /\ At(p, w) = G!S!At(p, w)
<1>1. TopLevel = G!S!TopLevel /\ At(p, w) = G!S!At(p, w)
  BY DEF TopLevel, G!S!TopLevel, At, G!S!At
<1>2. BlockOf(p, w) = G!S!BlockOf(p, w)
  BY <1>1 DEF BlockOf, G!S!BlockOf, Openers, G!S!Openers, Around, G!S!Around, CloseOf,
     G!S!CloseOf, Closes, G!S!Closes, OpenKinds, G!S!OpenKinds, Max, G!S!Max,
     Cardinality, G!S!Cardinality, IsFiniteSet, G!S!IsFiniteSet
<1>3. QED
  BY <1>1, <1>2

(* Two bindings of one use that differ do so where the code's two lookups  *)
(* do.                                                                     *)
LEMMA AgreesElsewhere ==
  ASSUME NEW b, G!Agrees(prog, b)
  PROVE  b \in G!S!LexicalBindings(prog) \/ InOwnInitialiser(b) \/ OfNestedGlobal(b)
<1>1. CASE b \in G!S!LexicalBindings(prog) \/ b[1] = b[3]
  BY <1>1 DEF InOwnInitialiser
<1>2. CASE /\ G!IsKarya(prog, b[1][1]) /\ ~G!IsKarya(prog, b[3][1])
           /\ \/ G!S!BlockOf(prog, <<b[3][1], b[3][2]>>) # G!S!TopLevel
              \/ G!S!At(prog, <<b[3][1], b[3][2]>>).k = "pratyek"
  <2>1. \/ BlockOf(prog, <<b[3][1], b[3][2]>>) # TopLevel
        \/ At(prog, <<b[3][1], b[3][2]>>).k = "pratyek"
    BY <1>2, SameBlocks, Zenon
  <2>2. InFunction(b[1]) /\ ~InFunction(b[3])
    BY <1>2 DEF InFunction, G!IsKarya
  <2>3. OfNestedGlobal(b)
    BY <2>1, <2>2 DEF OfNestedGlobal
  <2>4. QED
    BY <2>3
<1>3. QED
  BY <1>1, <1>2 DEF G!Agrees

(* Of an accepted program each use has a lexical binding,                  *)
LEMMA UsesHaveReferents ==
  ASSUME Accepted, NEW b, G!OfUse(prog, b)
  PROVE  \E c \in G!S!LexicalBindings(prog) : c[1] = b[1] /\ c[2] = b[2]
<1>0. PICK w \in G!S!Nodes(prog) : \E u \in G!S!UsesAt(G!S!At(prog, w)) :
        b[1] = <<w[1], w[2], u[1]>> /\ b[2] = u[2]
  BY DEF G!OfUse
<1>1. PICK u \in G!S!UsesAt(G!S!At(prog, w)) :
        b[1] = <<w[1], w[2], u[1]>> /\ b[2] = u[2]
  BY <1>0
<1>2. PICK d \in G!S!Referent(prog, w, u) : TRUE
  BY DEF Accepted, G!S!WellFormed, G!S!NamesAreDeclared
<1>3. <<<<w[1], w[2], u[1]>>, u[2], d.site>> \in G!S!LexicalBindings(prog)
  BY <1>2 DEF G!S!LexicalBindings
<1>4. QED
  BY <1>1, <1>3

(* and when all is generated each lexical binding is of a use that was     *)
(* bound.                                                                  *)
LEMMA NoneForgotten ==
  ASSUME NInv, pass = "done", NEW c \in G!S!LexicalBindings(prog)
  PROVE  \E b \in binds : c[1] = b[1] /\ c[2] = b[2]
<1>0. PICK w \in G!S!Nodes(prog) : \E u \in G!S!UsesAt(G!S!At(prog, w)) :
        \E d \in G!S!Referent(prog, w, u) : c = <<<<w[1], w[2], u[1]>>, u[2], d.site>>
  BY DEF G!S!LexicalBindings
<1>1. PICK u \in G!S!UsesAt(G!S!At(prog, w)) :
        \E d \in G!S!Referent(prog, w, u) : c = <<<<w[1], w[2], u[1]>>, u[2], d.site>>
  BY <1>0
<1>2. Given(prog, pass, item, pc, w)
  BY DEF Given
<1>3. ~Waits(w, u)
  BY DEF NInv, InPlace, Waits
<1>4. G!Bound(binds, w, u)
  BY <1>2, <1>3 DEF NInv, UsesAreBound
<1>5. QED
  BY <1>1, <1>4 DEF G!Bound

(* What each name in the emitted code refers to is what sema checked it    *)
(* against, but for a name in its own initialiser and, in a function, a    *)
(* name a block of the top level declared; and no use is forgotten.        *)
THEOREM BindingsAgree == Spec => []BindingsAgreeElsewhere
<1>1. ASSUME CInv PROVE BindingsAgreeElsewhere
  <2> SUFFICES ASSUME stage = "codegen"
               PROVE  /\ \A b \in binds : \/ b \in semaBinds \/ InOwnInitialiser(b)
                                          \/ OfNestedGlobal(b)
                      /\ pass = "done" =>
                           {<<b[1], b[2]>> : b \in binds} = {<<b[1], b[2]>> : b \in semaBinds}
    BY DEF BindingsAgreeElsewhere
  <2>1. Accepted /\ semaBinds = G!S!LexicalBindings(prog)
    BY <1>1, GatedIsAccepted
  <2>2. NInv
    BY <1>1 DEF CInv
  <2>3. \A b \in binds : G!OfUse(prog, b) /\ G!Agrees(prog, b)
    BY <2>2 DEF NInv, UsesAreBound
  <2>4. \A b \in binds : b \in semaBinds \/ InOwnInitialiser(b) \/ OfNestedGlobal(b)
    BY <2>1, <2>3, AgreesElsewhere
  <2>5. ASSUME pass = "done"
        PROVE  {<<b[1], b[2]>> : b \in binds} = {<<b[1], b[2]>> : b \in semaBinds}
    <3>1. \A b \in binds : \E c \in semaBinds : c[1] = b[1] /\ c[2] = b[2]
      BY <2>1, <2>3, UsesHaveReferents
    <3>2. \A c \in semaBinds : \E b \in binds : c[1] = b[1] /\ c[2] = b[2]
      BY <2>1, <2>2, <2>5, NoneForgotten
    <3>3. QED
      BY <3>1, <3>2
  <2>6. QED
    BY <2>4, <2>5
<1>2. QED
  BY <1>1, CInvHolds, PTL
=============================================================================
