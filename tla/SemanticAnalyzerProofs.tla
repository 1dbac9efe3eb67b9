----------------------- MODULE SemanticAnalyzerProofs -----------------------
(***************************************************************************)
(* Proofs about the semantic analyser, for every set of programs:          *)
(*                                                                         *)
(*  - the counters and the scope stack match the blocks the walk is in,    *)
(*    and no visit alters a scope other than the innermost;                *)
(*  - analyze() reports nothing exactly for the well-formed programs, and  *)
(*    what find() finds is what lexical scoping says.                      *)
(*                                                                         *)
(* For the second the walk is compared with LexicalScope node by node.     *)
(* Nesting says that the blocks the walk is in are those open at the node  *)
(* by the text; Mirrors, that each scope holds the declarations met in one *)
(* of them; so Find() gives Referent(), the errors of a visit are the      *)
(* rules the node breaks (Judged), and Verdict, the invariant, says it of  *)
(* all the nodes met.                                                      *)
(***************************************************************************)
EXTENDS SemanticAnalyzer, FiniteSetTheorems, SequenceTheorems,
        WellFoundedInduction, TLAPS

-----------------------------------------------------------------------------
(* Sequences used as stacks, and least elements.                           *)

(* Popping a stack keeps everything below its top.                         *)
LEMMA FrontProperties ==
  ASSUME NEW S, NEW s \in Seq(S)
  PROVE  /\ Front(s) \in Seq(S)
         /\ Len(Front(s)) = IF s = <<>> THEN 0 ELSE Len(s) - 1
         /\ \A i \in 1..(Len(s) - 1) : Front(s)[i] = s[i]
<1>1. \A i \in 1..(Len(s) - 1) : s[i] \in S
  OBVIOUS
<1>2. /\ SubSeq(s, 1, Len(s) - 1) \in Seq(S)
      /\ Len(SubSeq(s, 1, Len(s) - 1)) = IF 1 <= Len(s) - 1 THEN Len(s) - 1 ELSE 0
      /\ \A i \in 1..(Len(s) - 1) : SubSeq(s, 1, Len(s) - 1)[i] = s[i]
  BY <1>1, SubSeqProperties
<1>3. QED
  BY <1>2 DEF Front

(* A set of naturals that is not empty has a least element, and Min() is   *)
(* it.                                                                     *)
LEMMA MinOfNaturals ==
  ASSUME NEW T \in SUBSET Nat, T # {}
  PROVE  Min(T) \in T /\ \A y \in T : Min(T) <= y
<1> DEFINE R == {ss \in Nat \X Nat : ss[1] < ss[2]}
<1>1. IsWellFoundedOn(R, Nat)
  BY NatLessThanWellFounded, Zenon DEF OpToRel
<1>2. \E x \in T : \A y \in T : ~ (<<y, x>> \in R)
  <2> HIDE DEF R
  <2> QED  BY <1>1, WFMin, Zenon
<1>3. \E x \in T : \A y \in T : x <= y
  <2>1. PICK x \in T : \A y \in T : ~ (<<y, x>> \in R)
    BY <1>2
  <2>2. ASSUME NEW y \in T PROVE x <= y
    <3>1. ~ (y < x)
      BY <2>1, <<y, x>> \in Nat \X Nat
    <3>2. QED
      BY <3>1
  <2>3. QED
    BY <2>2
<1>4. QED
  BY <1>3 DEF Min

(* A set of positions that is not empty has a last one, and Max() is it.   *)
LEMMA MaxOfPositions ==
  ASSUME NEW n \in Nat, NEW T \in SUBSET (1..n), T # {}
  PROVE  Max(T) \in T /\ \A y \in T : Max(T) >= y
<1> DEFINE U == {n - x : x \in T}
<1>1. U \in SUBSET Nat /\ U # {}
  OBVIOUS
<1>2. Min(U) \in U /\ \A y \in U : Min(U) <= y
  <2> HIDE DEF U
  <2>1. QED
    BY <1>1, MinOfNaturals
<1>3. PICK x \in T : Min(U) = n - x
  BY <1>2
<1>4. \A y \in T : n - y \in U
  OBVIOUS
<1>5. \A y \in T : x >= y
  <2> HIDE DEF U
  <2>1. QED
    BY <1>2, <1>3, <1>4
<1>6. QED
  BY <1>5 DEF Max

(* The positions of a stack that hold one of some kinds.                   *)
Positions(s, kinds) == {i \in DOMAIN s : s[i] \in kinds}

(* There are finitely many of them.                                        *)
LEMMA PositionsFinite ==
  ASSUME NEW S, NEW s \in Seq(S), NEW kinds
  PROVE  /\ IsFiniteSet(Positions(s, kinds))
         /\ Cardinality(Positions(s, kinds)) \in Nat
<1>1. Positions(s, kinds) \in SUBSET (1..Len(s))
  BY DEF Positions
<1>2. IsFiniteSet(1..Len(s))
  BY FS_Interval
<1>3. QED
  BY <1>1, <1>2, FS_Subset, FS_CardinalityType, Zenon

(* A push adds one when what is pushed is of those kinds.                  *)
LEMMA PositionsOfPush ==
  ASSUME NEW S, NEW s \in Seq(S), NEW e \in S, NEW kinds
  PROVE  Cardinality(Positions(Append(s, e), kinds)) =
           Cardinality(Positions(s, kinds)) + (IF e \in kinds THEN 1 ELSE 0)
<1>1. IsFiniteSet(Positions(s, kinds)) /\ Cardinality(Positions(s, kinds)) \in Nat
  BY PositionsFinite
<1>2. CASE e \in kinds
  <2>1. Positions(Append(s, e), kinds) = Positions(s, kinds) \cup {Len(s) + 1}
    BY <1>2 DEF Positions
  <2>2. Len(s) + 1 \notin Positions(s, kinds)
    BY DEF Positions
  <2>3. QED
    BY <1>1, <1>2, <2>1, <2>2, FS_AddElement
<1>3. CASE e \notin kinds
  <2>1. Positions(Append(s, e), kinds) = Positions(s, kinds)
    BY <1>3 DEF Positions
  <2>2. QED
    BY <1>1, <1>3, <2>1
<1>4. QED
  BY <1>2, <1>3

(* A pop takes one away when what was on top was of those kinds.           *)
LEMMA PositionsOfPop ==
  ASSUME NEW S, NEW s \in Seq(S), s # <<>>, NEW kinds
  PROVE  Cardinality(Positions(Front(s), kinds)) =
           Cardinality(Positions(s, kinds)) - (IF Last(s) \in kinds THEN 1 ELSE 0)
<1>1. IsFiniteSet(Positions(s, kinds)) /\ Cardinality(Positions(s, kinds)) \in Nat
  BY PositionsFinite
<1>2. /\ Front(s) \in Seq(S)
      /\ Len(Front(s)) = Len(s) - 1
      /\ \A i \in 1..(Len(s) - 1) : Front(s)[i] = s[i]
  BY FrontProperties
<1>3. Len(s) \in DOMAIN s /\ Last(s) = s[Len(s)]
  BY DEF Last
<1>4. CASE Last(s) \in kinds
  <2>1. Positions(Front(s), kinds) = Positions(s, kinds) \ {Len(s)}
    BY <1>2 DEF Positions
  <2>2. Len(s) \in Positions(s, kinds)
    BY <1>3, <1>4 DEF Positions
  <2>3. QED
    BY <1>1, <1>4, <2>1, <2>2, FS_RemoveElement
<1>5. CASE Last(s) \notin kinds
  <2>1. Positions(Front(s), kinds) = Positions(s, kinds)
    BY <1>2, <1>3, <1>5 DEF Positions
  <2>2. QED
    BY <1>1, <1>5, <2>1
<1>6. QED
  BY <1>4, <1>5

-----------------------------------------------------------------------------
(* Blocks nest.                                                            *)

Count(t, i, m, kinds) == Cardinality({n \in i..m : t[n].k \in kinds})

CloseKinds == {"close"}

Bracketed(t) ==
  \A o \in DOMAIN t :
    t[o].k \in OpenKinds => \E j \in (o + 1)..Len(t) : Closes(t, o, j)

(* The openers before node q whose block is not closed before it.          *)
Unclosed(t, q) ==
  {o \in 1..(q - 1) : t[o].k \in OpenKinds /\ CloseOf(t, o) >= q}

(* A walk that has met the nodes of t before q, and remembers the openers  *)
(* of the blocks it is in and their kinds.                                 *)
Nesting(t, q, open, kinds) ==
  /\ open \in Seq(Nat) /\ kinds \in Seq(OpenKinds) /\ Len(kinds) = Len(open)
  /\ \A a \in 1..Len(open) : open[a] \in 1..(q - 1) /\ t[open[a]].k = kinds[a]
  /\ \A a, b \in 1..Len(open) : a < b => open[a] < open[b]
  /\ {open[a] : a \in 1..Len(open)} = Unclosed(t, q)
  /\ \A a \in 1..Len(open) :
       Count(t, open[a], q - 1, OpenKinds) =
         Count(t, open[a], q - 1, CloseKinds) + (Len(open) + 1 - a)

(* One more node is one more if it is of the kinds counted.                *)
LEMMA CountNext ==
  ASSUME NEW t, NEW i \in Nat, NEW q \in Nat \ {0}, i <= q, NEW kinds
  PROVE  /\ Count(t, i, q - 1, kinds) \in Nat
         /\ t[q].k \in kinds =>
              Count(t, i, q, kinds) = Count(t, i, q - 1, kinds) + 1
         /\ t[q].k \notin kinds =>
              Count(t, i, q, kinds) = Count(t, i, q - 1, kinds)
<1> DEFINE S == {n \in i..(q - 1) : t[n].k \in kinds}
<1>1. IsFiniteSet(S) /\ Cardinality(S) \in Nat
  <2>1. IsFiniteSet(i..(q - 1)) /\ S \in SUBSET (i..(q - 1))
    BY FS_Interval
  <2>2. QED
    BY <2>1, FS_Subset, FS_CardinalityType, Zenon
<1>2. q \notin S
  OBVIOUS
<1>3. {n \in i..q : t[n].k \in kinds} = IF t[q].k \in kinds THEN S \cup {q} ELSE S
  OBVIOUS
<1>4. Cardinality(S \cup {q}) = Cardinality(S) + 1
  <2> HIDE DEF S
  <2> QED  BY <1>1, <1>2, FS_AddElement
<1>5. /\ Count(t, i, q - 1, kinds) = Cardinality(S)
      /\ Count(t, i, q, kinds) =
           IF t[q].k \in kinds THEN Cardinality(S \cup {q}) ELSE Cardinality(S)
  BY <1>3 DEF Count
<1> HIDE DEF S
<1>6. QED
  BY <1>1, <1>4, <1>5

(* So openers and closes are counted.                                      *)
LEMMA NodeCounted ==
  ASSUME NEW t, NEW q \in Nat, NEW i \in 1..q
  PROVE  /\ Count(t, i, q - 1, OpenKinds) \in Nat
         /\ Count(t, i, q - 1, CloseKinds) \in Nat
         /\ t[q].k \in OpenKinds =>
              /\ Count(t, i, q, OpenKinds) = Count(t, i, q - 1, OpenKinds) + 1
              /\ Count(t, i, q, CloseKinds) = Count(t, i, q - 1, CloseKinds)
         /\ t[q].k = "close" =>
              /\ Count(t, i, q, OpenKinds) = Count(t, i, q - 1, OpenKinds)
              /\ Count(t, i, q, CloseKinds) = Count(t, i, q - 1, CloseKinds) + 1
         /\ t[q].k \notin OpenKinds /\ t[q].k # "close" =>
              /\ Count(t, i, q, OpenKinds) = Count(t, i, q - 1, OpenKinds)
              /\ Count(t, i, q, CloseKinds) = Count(t, i, q - 1, CloseKinds)
<1>1. i \in Nat /\ q \in Nat \ {0} /\ i <= q
  OBVIOUS
<1>2. /\ t[q].k \in CloseKinds <=> t[q].k = "close"
      /\ t[q].k \in OpenKinds => t[q].k # "close"
  BY DEF CloseKinds, OpenKinds
<1>3. /\ Count(t, i, q - 1, OpenKinds) \in Nat
      /\ t[q].k \in OpenKinds =>
           Count(t, i, q, OpenKinds) = Count(t, i, q - 1, OpenKinds) + 1
      /\ t[q].k \notin OpenKinds =>
           Count(t, i, q, OpenKinds) = Count(t, i, q - 1, OpenKinds)
  BY <1>1, CountNext
<1>4. /\ Count(t, i, q - 1, CloseKinds) \in Nat
      /\ t[q].k \in CloseKinds =>
           Count(t, i, q, CloseKinds) = Count(t, i, q - 1, CloseKinds) + 1
      /\ t[q].k \notin CloseKinds =>
           Count(t, i, q, CloseKinds) = Count(t, i, q - 1, CloseKinds)
  BY <1>1, CountNext
<1>5. QED
  BY <1>2, <1>3, <1>4

(* The close of a block.                                                   *)
LEMMA CloseOfOpener ==
  ASSUME NEW t, Bracketed(t), NEW o \in DOMAIN t, t[o].k \in OpenKinds
  PROVE  /\ CloseOf(t, o) \in (o + 1)..Len(t)
         /\ t[CloseOf(t, o)].k = "close"
         /\ \A m \in (o + 1)..CloseOf(t, o) :
              Count(t, o, m, OpenKinds) = Count(t, o, m, CloseKinds)
                <=> m = CloseOf(t, o)
<1>1. PICK j \in (o + 1)..Len(t) : Closes(t, o, j)
  BY DEF Bracketed
<1>2. CloseOf(t, o) \in (o + 1)..Len(t) /\ Closes(t, o, CloseOf(t, o))
  BY <1>1 DEF CloseOf
<1>3. \A m : {n \in o..m : t[n].k = "close"} = {n \in o..m : t[n].k \in CloseKinds}
  BY DEF CloseKinds
<1>4. QED
  BY <1>2, <1>3, Zenon DEF Closes, Count

(* A statement begins outside all blocks of its own.                       *)
LEMMA NestingStarts ==
  ASSUME NEW t
  PROVE  Nesting(t, 1, <<>>, <<>>)
BY DEF Nesting, Unclosed

(* And it ends outside them.                                               *)
LEMMA NestingEnds ==
  ASSUME NEW t \in Seq(Node), Bracketed(t), NEW open, NEW kinds,
         Nesting(t, Len(t) + 1, open, kinds)
  PROVE  open = <<>> /\ kinds = <<>>
<1>1. Unclosed(t, Len(t) + 1) = {}
  BY CloseOfOpener DEF Unclosed
<1>2. Len(open) \in Nat /\ {open[a] : a \in 1..Len(open)} = {}
  <2>1. open \in Seq(Nat) /\ {open[a] : a \in 1..Len(open)} = Unclosed(t, Len(t) + 1)
    BY DEF Nesting
  <2>2. Len(open) \in Nat
    BY <2>1
  <2>3. QED
    BY <1>1, <2>1, <2>2, Zenon
<1>3. ASSUME Len(open) >= 1 PROVE FALSE
  <2>1. 1 \in 1..Len(open)
    BY <1>2, <1>3
  <2>2. open[1] \in {open[a] : a \in 1..Len(open)}
    BY <2>1
  <2>3. QED
    BY <1>2, <2>2
<1>4. Len(open) = 0 /\ open \in Seq(Nat) /\ kinds \in Seq(OpenKinds) /\ Len(kinds) = Len(open)
  BY <1>2, <1>3 DEF Nesting
<1>5. QED
  BY <1>4

(* A node that neither opens nor closes a block.                           *)
LEMMA NestingPasses ==
  ASSUME NEW t \in Seq(Node), Bracketed(t), NEW q \in DOMAIN t,
         NEW open, NEW kinds, Nesting(t, q, open, kinds),
         t[q].k \notin OpenKinds, t[q].k # "close"
  PROVE  /\ Nesting(t, q + 1, open, kinds)
         /\ Unclosed(t, q + 1) = Unclosed(t, q)
<1>1. \A o \in Unclosed(t, q) : o \in DOMAIN t /\ CloseOf(t, o) # q
  BY CloseOfOpener DEF Unclosed
<1>2. \A o \in 1..q : t[o].k \in OpenKinds => o \in DOMAIN t /\ CloseOf(t, o) \in Nat
  BY CloseOfOpener
<1>3. Unclosed(t, q + 1) = Unclosed(t, q)
  BY <1>1, <1>2 DEF Unclosed
<1>4. ASSUME NEW a \in 1..Len(open)
      PROVE  /\ Count(t, open[a], q, OpenKinds) = Count(t, open[a], q - 1, OpenKinds)
             /\ Count(t, open[a], q, CloseKinds) = Count(t, open[a], q - 1, CloseKinds)
  <2>1. open[a] \in 1..q /\ q \in Nat
    BY DEF Nesting
  <2>2. QED
    BY <2>1, NodeCounted
<1>5. QED
  BY <1>3, <1>4 DEF Nesting

(* A node that opens one.                                                  *)
LEMMA NestingOpens ==
  ASSUME NEW t \in Seq(Node), Bracketed(t), NEW q \in DOMAIN t,
         NEW open, NEW kinds, Nesting(t, q, open, kinds),
         t[q].k \in OpenKinds
  PROVE  /\ Nesting(t, q + 1, Append(open, q), Append(kinds, t[q].k))
         /\ Unclosed(t, q + 1) = Unclosed(t, q) \cup {q}
<1>0. t[q].k # "close"
  BY DEF OpenKinds
<1>1. \A o \in Unclosed(t, q) : o \in DOMAIN t /\ CloseOf(t, o) # q
  BY <1>0, CloseOfOpener DEF Unclosed
<1>2. \A o \in 1..q : t[o].k \in OpenKinds => o \in DOMAIN t /\ CloseOf(t, o) \in Nat
  BY CloseOfOpener
<1>3. CloseOf(t, q) >= q + 1
  BY CloseOfOpener
<1>4. Unclosed(t, q + 1) = Unclosed(t, q) \cup {q}
  BY <1>1, <1>2, <1>3 DEF Unclosed
<1>5. ASSUME NEW i \in 1..q
      PROVE  /\ Count(t, i, q, OpenKinds) = Count(t, i, q - 1, OpenKinds) + 1
             /\ Count(t, i, q, CloseKinds) = Count(t, i, q - 1, CloseKinds)
             /\ Count(t, i, q - 1, OpenKinds) \in Nat
             /\ Count(t, i, q - 1, CloseKinds) \in Nat
  <2>1. q \in Nat /\ i \in 1..q
    OBVIOUS
  <2>2. QED
    BY <2>1, NodeCounted
<1>6. /\ Count(t, q, q - 1, OpenKinds) = 0
      /\ Count(t, q, q - 1, CloseKinds) = 0
  <2>1. q..(q - 1) = {}
    OBVIOUS
  <2>2. \A set : {n \in q..(q - 1) : t[n].k \in set} = {}
    BY <2>1
  <2>3. QED
    BY <2>2, FS_EmptySet DEF Count
<1> DEFINE open1 == Append(open, q)
           kinds1 == Append(kinds, t[q].k)
<1>7. /\ open1 \in Seq(Nat) /\ kinds1 \in Seq(OpenKinds)
      /\ Len(open1) = Len(open) + 1 /\ Len(kinds1) = Len(open) + 1
      /\ \A a \in 1..Len(open) : open1[a] = open[a] /\ kinds1[a] = kinds[a]
      /\ open1[Len(open) + 1] = q /\ kinds1[Len(open) + 1] = t[q].k
      /\ Len(open) \in Nat
  <2>1. /\ open \in Seq(Nat) /\ kinds \in Seq(OpenKinds) /\ Len(kinds) = Len(open)
        /\ q \in Nat /\ t[q].k \in OpenKinds
    BY DEF Nesting
  <2>2. /\ open1 \in Seq(Nat) /\ Len(open1) = Len(open) + 1
        /\ \A a \in 1..Len(open) : open1[a] = open[a]
        /\ open1[Len(open) + 1] = q /\ Len(open) \in Nat
    BY <2>1
  <2>3. /\ kinds1 \in Seq(OpenKinds) /\ Len(kinds1) = Len(kinds) + 1
        /\ \A a \in 1..Len(kinds) : kinds1[a] = kinds[a]
        /\ kinds1[Len(kinds) + 1] = t[q].k
    BY <2>1
  <2>4. QED
    BY <2>1, <2>2, <2>3
<1> HIDE DEF open1, kinds1
<1>8. \A a \in 1..Len(open1) : open1[a] \in 1..q /\ t[open1[a]].k = kinds1[a]
  <2>0. /\ \A a \in 1..Len(open) : open[a] \in 1..(q - 1) /\ t[open[a]].k = kinds[a]
        /\ q \in Nat
    BY DEF Nesting
  <2>1. ASSUME NEW a \in 1..Len(open)
        PROVE  open1[a] \in 1..q /\ t[open1[a]].k = kinds1[a]
    <3>1. open1[a] = open[a] /\ kinds1[a] = kinds[a]
      BY <1>7
    <3>2. open[a] \in 1..q /\ t[open[a]].k = kinds[a]
      BY <2>0
    <3>3. QED
      BY <3>1, <3>2
  <2>2. \A a \in 1..Len(open1) : a \in 1..Len(open) \/ a = Len(open) + 1
    BY <1>7
  <2>3. QED
    BY <1>7, <2>1, <2>2
<1>9. \A a, b \in 1..Len(open1) : a < b => open1[a] < open1[b]
  <2>1. /\ \A a, b \in 1..Len(open) : a < b => open[a] < open[b]
        /\ \A a \in 1..Len(open) : open[a] < q /\ open[a] \in Nat
    BY DEF Nesting
  <2>2. SUFFICES ASSUME NEW a \in 1..Len(open1), NEW b \in 1..Len(open1), a < b
                 PROVE  open1[a] < open1[b]
    OBVIOUS
  <2> DEFINE n == Len(open)
  <2>0. n \in Nat /\ a \in 1..(n + 1) /\ b \in 1..(n + 1)
    BY <1>7, <2>2
  <2> HIDE DEF n
  <2>3. a \in 1..n /\ (b \in 1..n \/ b = n + 1)
    BY <2>0, <2>2
  <2>4. QED
    BY <1>7, <2>1, <2>2, <2>3 DEF n
<1>10. {open1[a] : a \in 1..Len(open1)} = Unclosed(t, q + 1)
  <2>1. {open1[a] : a \in 1..Len(open1)} = {open[a] : a \in 1..Len(open)} \cup {q}
    BY <1>7
  <2>2. QED
    BY <1>4, <2>1 DEF Nesting
<1>11. \A a \in 1..Len(open1) :
         Count(t, open1[a], q, OpenKinds) =
           Count(t, open1[a], q, CloseKinds) + (Len(open1) + 1 - a)
  <2> SUFFICES ASSUME NEW a \in 1..Len(open1)
               PROVE  Count(t, open1[a], q, OpenKinds) =
                        Count(t, open1[a], q, CloseKinds) + (Len(open1) + 1 - a)
    OBVIOUS
  <2>1. CASE a = Len(open) + 1
    BY <1>5, <1>6, <1>7, <2>1
  <2>2. CASE a \in 1..Len(open)
    <3>1. /\ open1[a] = open[a] /\ open[a] \in 1..q
          /\ Count(t, open[a], q - 1, OpenKinds) =
               Count(t, open[a], q - 1, CloseKinds) + (Len(open) + 1 - a)
      BY <1>7, <2>2 DEF Nesting
    <3>2. /\ Count(t, open[a], q, OpenKinds) = Count(t, open[a], q - 1, OpenKinds) + 1
          /\ Count(t, open[a], q, CloseKinds) = Count(t, open[a], q - 1, CloseKinds)
          /\ Count(t, open[a], q - 1, OpenKinds) \in Nat
          /\ Count(t, open[a], q - 1, CloseKinds) \in Nat
      BY <1>5, <3>1
    <3>3. Len(open1) = Len(open) + 1 /\ Len(open) \in Nat /\ a \in Nat
      BY <1>7, <2>2
    <3>4. QED
      BY <3>1, <3>2, <3>3
  <2>3. QED
    BY <1>7, <2>1, <2>2
<1>12. Nesting(t, q + 1, open1, kinds1)
  <2>1. (q + 1) - 1 = q
    OBVIOUS
  <2>2. QED
    BY <1>7, <1>8, <1>9, <1>10, <1>11, <2>1 DEF Nesting
<1>13. QED
  BY <1>4, <1>12 DEF open1, kinds1

(* A node that closes one closes the innermost.                            *)
LEMMA NestingCloses ==
  ASSUME NEW t \in Seq(Node), Bracketed(t), NEW q \in DOMAIN t,
         NEW open, NEW kinds, Nesting(t, q, open, kinds),
         t[q].k = "close", kinds # <<>>
  PROVE  /\ Nesting(t, q + 1, Front(open), Front(kinds))
         /\ open # <<>> /\ Last(open) \in Unclosed(t, q)
         /\ CloseOf(t, Last(open)) = q
         /\ t[Last(open)].k = Last(kinds)
         /\ \A o \in Unclosed(t, q) : o <= Last(open)
         /\ Unclosed(t, q + 1) = Unclosed(t, q) \ {Last(open)}
<1> DEFINE n == Len(open)
<1>1. /\ n \in Nat \ {0} /\ Len(kinds) = n /\ open # <<>>
      /\ Last(open) = open[n] /\ Last(kinds) = kinds[n]
      /\ open \in Seq(Nat) /\ kinds \in Seq(OpenKinds)
  BY DEF Nesting, Last
<1>2. /\ Front(open) \in Seq(Nat) /\ Len(Front(open)) = n - 1
      /\ \A a \in 1..(n - 1) : Front(open)[a] = open[a]
      /\ Front(kinds) \in Seq(OpenKinds) /\ Len(Front(kinds)) = n - 1
      /\ \A a \in 1..(n - 1) : Front(kinds)[a] = kinds[a]
  BY <1>1, FrontProperties
<1> HIDE DEF n
<1>0. n \in Nat \ {0} /\ n \in 1..n
  BY <1>1
<1>a. \A a \in 1..(n - 1) : a \in 1..n /\ a < n
  BY <1>0
<1>b. \A a \in 1..(n - 1) : Front(open)[a] = open[a] /\ Front(kinds)[a] = kinds[a]
  BY <1>2
<1>3. ASSUME NEW a \in 1..n
      PROVE  /\ open[a] \in 1..(q - 1) /\ open[a] \in DOMAIN t
             /\ t[open[a]].k = kinds[a] /\ t[open[a]].k \in OpenKinds
             /\ open[a] \in Unclosed(t, q)
             /\ Count(t, open[a], q, OpenKinds) =
                  Count(t, open[a], q, CloseKinds) + (n - a)
             /\ Count(t, open[a], q, CloseKinds) \in Nat
  <2>1. /\ open[a] \in 1..(q - 1) /\ t[open[a]].k = kinds[a]
        /\ open[a] \in Unclosed(t, q)
        /\ Count(t, open[a], q - 1, OpenKinds) =
             Count(t, open[a], q - 1, CloseKinds) + (n + 1 - a)
    BY <1>1 DEF Nesting, n
  <2>2. open[a] \in DOMAIN t /\ t[open[a]].k \in OpenKinds
    BY <2>1 DEF Unclosed
  <2>3. open[a] \in 1..q /\ q \in Nat
    BY <2>1
  <2>4. /\ Count(t, open[a], q, OpenKinds) = Count(t, open[a], q - 1, OpenKinds)
        /\ Count(t, open[a], q, CloseKinds) = Count(t, open[a], q - 1, CloseKinds) + 1
        /\ Count(t, open[a], q - 1, CloseKinds) \in Nat
    BY <2>3, NodeCounted
  <2> DEFINE c0 == Count(t, open[a], q - 1, CloseKinds)
             c1 == Count(t, open[a], q, CloseKinds)
             b0 == Count(t, open[a], q - 1, OpenKinds)
             b1 == Count(t, open[a], q, OpenKinds)
  <2>5. c0 \in Nat /\ b0 = c0 + (n + 1 - a) /\ b1 = b0 /\ c1 = c0 + 1
    BY <2>1, <2>4
  <2> HIDE DEF c0, c1, b0, b1
  <2>6. b1 = c1 + (n - a) /\ c1 \in Nat
    BY <1>1, <2>5
  <2>7. QED
    BY <2>1, <2>2, <2>6 DEF c1, b1
<1>4. \A a, b \in 1..n : a < b => open[a] < open[b]
  BY DEF Nesting, n
<1>5. Unclosed(t, q) = {open[a] : a \in 1..n}
  BY DEF Nesting, n
<1>6. \A o \in Unclosed(t, q) : o <= open[n]
  <2>1. ASSUME NEW a \in 1..n PROVE open[a] <= open[n]
    <3>1. open[a] \in 1..(q - 1) /\ open[n] \in 1..(q - 1)
      BY <1>0, <1>3
    <3>2. a = n \/ a < n
      BY <1>0
    <3>3. a < n => open[a] < open[n]
      BY <1>0, <1>4
    <3>4. QED
      BY <3>1, <3>2, <3>3
  <2>2. QED
    BY <1>5, <2>1
<1>11. ASSUME NEW a \in 1..n
       PROVE  CloseOf(t, open[a]) = q <=> a = n
  <2>1. /\ CloseOf(t, open[a]) \in (open[a] + 1)..Len(t)
        /\ \A m \in (open[a] + 1)..CloseOf(t, open[a]) :
             Count(t, open[a], m, OpenKinds) = Count(t, open[a], m, CloseKinds)
               <=> m = CloseOf(t, open[a])
    BY <1>3, CloseOfOpener
  <2>2. q \in (open[a] + 1)..CloseOf(t, open[a])
    <3>1. CloseOf(t, open[a]) >= q /\ open[a] \in 1..(q - 1)
      BY <1>3 DEF Unclosed
    <3>2. QED
      BY <2>1, <3>1
  <2>3. Count(t, open[a], q, OpenKinds) = Count(t, open[a], q, CloseKinds)
          <=> q = CloseOf(t, open[a])
    BY <2>1, <2>2
  <2>4. Count(t, open[a], q, OpenKinds) = Count(t, open[a], q, CloseKinds)
          <=> a = n
    <3> DEFINE c1 == Count(t, open[a], q, CloseKinds)
               b1 == Count(t, open[a], q, OpenKinds)
    <3>1. c1 \in Nat /\ b1 = c1 + (n - a)
      BY <1>3
    <3> HIDE DEF c1, b1
    <3>2. b1 = c1 <=> a = n
      BY <1>1, <3>1
    <3>3. QED
      BY <3>2 DEF c1, b1
  <2>5. QED
    BY <2>3, <2>4
<1>7. Unclosed(t, q + 1) = Unclosed(t, q) \ {open[n]}
  <2>1. t[q].k \notin OpenKinds
    BY DEF OpenKinds
  <2>2. \A o \in 1..q : t[o].k \in OpenKinds => o \in DOMAIN t /\ CloseOf(t, o) \in Nat
    BY CloseOfOpener
  <2>3. Unclosed(t, q + 1) = {o \in Unclosed(t, q) : CloseOf(t, o) # q}
    BY <2>1, <2>2 DEF Unclosed
  <2>4. \A o \in Unclosed(t, q) : CloseOf(t, o) = q <=> o = open[n]
    <3>1. ASSUME NEW a \in 1..n PROVE CloseOf(t, open[a]) = q <=> open[a] = open[n]
      <4>1. n \in 1..n /\ (a = n \/ a < n)
        BY <1>0
      <4>2. a < n => open[a] # open[n]
        <5>1. a < n => open[a] < open[n]
          BY <1>4, <4>1
        <5>2. open[a] \in 1..(q - 1)
          BY <1>3
        <5>3. QED
          BY <5>1, <5>2
      <4>3. QED
        BY <1>11, <4>1, <4>2
    <3>2. QED
      BY <1>5, <3>1
  <2>5. QED
    BY <2>3, <2>4
<1>8. {Front(open)[a] : a \in 1..(n - 1)} = Unclosed(t, q + 1)
  <2>1. {Front(open)[a] : a \in 1..(n - 1)} = {open[a] : a \in 1..(n - 1)}
    BY <1>2
  <2>2. \A a \in 1..(n - 1) : open[a] # open[n]
    <3>1. SUFFICES ASSUME NEW a \in 1..(n - 1) PROVE open[a] # open[n]
      OBVIOUS
    <3>2. a \in 1..n /\ n \in 1..n /\ a < n
      BY <1>0, <1>a
    <3>3. open[a] < open[n]
      BY <1>4, <3>2
    <3>4. open[a] \in 1..(q - 1)
      BY <1>3, <3>2
    <3>5. QED
      BY <3>3, <3>4
  <2>3. {open[a] : a \in 1..(n - 1)} = {open[a] : a \in 1..n} \ {open[n]}
    BY <1>1, <2>2
  <2>4. QED
    BY <1>5, <1>7, <2>1, <2>3
<1>9. Nesting(t, q + 1, Front(open), Front(kinds))
  <2>1. (q + 1) - 1 = q /\ (n - 1) + 1 = n /\ q \in Nat
    BY <1>1
  <2>2. ASSUME NEW a \in 1..(n - 1)
        PROVE  /\ Front(open)[a] \in 1..q /\ t[Front(open)[a]].k = Front(kinds)[a]
               /\ Count(t, Front(open)[a], q, OpenKinds) =
                    Count(t, Front(open)[a], q, CloseKinds) + (((n - 1) + 1) - a)
    <3>1. a \in 1..n /\ Front(open)[a] = open[a] /\ Front(kinds)[a] = kinds[a]
      BY <1>a, <1>b
    <3>2. QED
      BY <1>3, <2>1, <3>1
  <2>3. \A a, b \in 1..(n - 1) : a < b => Front(open)[a] < Front(open)[b]
    BY <1>a, <1>b, <1>4
  <2> DEFINE fo == Front(open)
             fk == Front(kinds)
  <2>4. /\ fo \in Seq(Nat) /\ fk \in Seq(OpenKinds)
        /\ Len(fo) = n - 1 /\ Len(fk) = Len(fo)
    BY <1>2
  <2>5. /\ {fo[a] : a \in 1..(n - 1)} = Unclosed(t, q + 1)
        /\ \A a, b \in 1..(n - 1) : a < b => fo[a] < fo[b]
        /\ \A a \in 1..(n - 1) : fo[a] \in 1..q /\ t[fo[a]].k = fk[a]
        /\ \A a \in 1..(n - 1) :
             Count(t, fo[a], q, OpenKinds) =
               Count(t, fo[a], q, CloseKinds) + (((n - 1) + 1) - a)
    BY <1>8, <2>2, <2>3
  <2> HIDE DEF fo, fk
  <2> DEFINE m == Len(fo)
  <2>8. /\ {fo[a] : a \in 1..m} = Unclosed(t, q + 1)
        /\ \A a, b \in 1..m : a < b => fo[a] < fo[b]
        /\ \A a \in 1..m : fo[a] \in 1..((q + 1) - 1) /\ t[fo[a]].k = fk[a]
        /\ \A a \in 1..m :
             Count(t, fo[a], (q + 1) - 1, OpenKinds) =
               Count(t, fo[a], (q + 1) - 1, CloseKinds) + (m + 1 - a)
    <3>1. m = n - 1
      BY <2>4
    <3> HIDE DEF m
    <3>2. 1..(n - 1) = 1..m /\ ((n - 1) + 1) = m + 1
      BY <3>1
    <3>3. /\ {fo[a] : a \in 1..m} = Unclosed(t, q + 1)
          /\ \A a, b \in 1..m : a < b => fo[a] < fo[b]
      BY <2>5, <3>2, Zenon
    <3>4. \A a \in 1..m : fo[a] \in 1..((q + 1) - 1) /\ t[fo[a]].k = fk[a]
      BY <2>1, <2>5, <3>2, Zenon
    <3>5. \A a \in 1..m :
             Count(t, fo[a], (q + 1) - 1, OpenKinds) =
               Count(t, fo[a], (q + 1) - 1, CloseKinds) + (m + 1 - a)
      <4>1. \A a \in 1..m :
               Count(t, fo[a], q, OpenKinds) =
                 Count(t, fo[a], q, CloseKinds) + (((n - 1) + 1) - a)
        BY <2>5, <3>2, Zenon
      <4>2. \A a \in 1..m : ((n - 1) + 1) - a = m + 1 - a
        BY <1>0, <3>1
      <4>3. QED
        BY <2>1, <4>1, <4>2
    <3>6. QED
      BY <3>3, <3>4, <3>5
  <2>6. Nesting(t, q + 1, fo, fk)
    BY <2>4, <2>8, Zenon DEF Nesting
  <2>7. QED
    BY <2>6 DEF fo, fk
<1>10. QED
  <2>1. n \in 1..n
    BY <1>1
  <2>2. /\ open[n] \in Unclosed(t, q) /\ CloseOf(t, open[n]) = q
        /\ t[open[n]].k = kinds[n]
    BY <1>3, <1>11, <2>1
  <2>3. QED
    BY <1>1, <1>6, <1>7, <1>9, <2>2

-----------------------------------------------------------------------------
(* What a walk has met.                                                    *)

Visited(p, i, q) ==
  {v \in Nodes(p) : v[1] < i \/ (v[1] = i /\ v[2] < q)}

Met(p, i, q) == UNION {DeclarationsAt(p, v) : v \in Visited(p, i, q)}

(* Nodes are pairs of a statement and a place in it.                       *)
LEMMA NodeShape ==
  ASSUME NEW p \in Program, NEW w \in Nodes(p)
  PROVE  /\ w = <<w[1], w[2]>> /\ w[1] \in DOMAIN p /\ w[2] \in DOMAIN p[w[1]]
         /\ p[w[1]] \in Seq(Node) /\ At(p, w) \in Node
         /\ w[1] \in Nat \ {0} /\ w[2] \in Nat \ {0}
<1>1. PICK i \in DOMAIN p : w \in {<<i, q>> : q \in DOMAIN p[i]}
  BY DEF Nodes
<1>2. PICK q \in DOMAIN p[i] : w = <<i, q>>
  BY <1>1
<1>3. p \in Seq(Seq(Node))
  BY DEF Program
<1>4. p[i] \in Seq(Node) /\ i \in Nat \ {0}
  BY <1>3
<1>5. p[i][q] \in Node /\ q \in Nat \ {0}
  BY <1>4
<1>6. QED
  BY <1>2, <1>4, <1>5 DEF At

(* And such a pair is a node.                                              *)
LEMMA NodeAt ==
  ASSUME NEW p \in Program, NEW i \in DOMAIN p, NEW q \in DOMAIN p[i]
  PROVE  /\ <<i, q>> \in Nodes(p) /\ At(p, <<i, q>>) = p[i][q]
         /\ i \in Nat \ {0} /\ q \in Nat \ {0}
         /\ p[i] \in Seq(Node) /\ p[i][q] \in Node
<1>1. <<i, q>> \in Nodes(p)
  BY DEF Nodes
<1>2. QED
  BY <1>1, NodeShape DEF At

(* The walk begins having met nothing,                                     *)
LEMMA VisitedFirst ==
  ASSUME NEW p \in Program
  PROVE  Visited(p, 1, 1) = {}
BY NodeShape DEF Visited

(* meets one more node at each step,                                       *)
LEMMA VisitedNext ==
  ASSUME NEW p \in Program, NEW i \in DOMAIN p, NEW q \in DOMAIN p[i]
  PROVE  Visited(p, i, q + 1) = Visited(p, i, q) \cup {<<i, q>>}
<1>1. i \in Nat /\ q \in Nat /\ <<i, q>> \in Nodes(p)
  BY NodeAt
<1>2. ASSUME NEW v \in Nodes(p)
      PROVE  v \in Visited(p, i, q + 1) <=> v \in Visited(p, i, q) \/ v = <<i, q>>
  <2>1. v = <<v[1], v[2]>> /\ v[1] \in Nat /\ v[2] \in Nat
    BY NodeShape
  <2>2. v = <<i, q>> <=> v[1] = i /\ v[2] = q
    BY <2>1
  <2>3. v[2] < q + 1 <=> v[2] < q \/ v[2] = q
    BY <1>1, <2>1
  <2>4. QED
    BY <1>1, <2>1, <2>2, <2>3 DEF Visited
<1>3. \A v \in Visited(p, i, q + 1) \cup Visited(p, i, q) : v \in Nodes(p)
  BY DEF Visited
<1>4. QED
  BY <1>1, <1>2, <1>3

(* goes on from the end of a statement to the next,                        *)
LEMMA VisitedStatement ==
  ASSUME NEW p \in Program, NEW i \in DOMAIN p
  PROVE  Visited(p, i + 1, 1) = Visited(p, i, Len(p[i]) + 1)
<1>1. i \in Nat /\ p[i] \in Seq(Node)
  BY DEF Program
<1>2. ASSUME NEW v \in Nodes(p)
      PROVE  v[1] < i + 1 \/ (v[1] = i + 1 /\ v[2] < 1)
               <=> v[1] < i \/ (v[1] = i /\ v[2] < Len(p[i]) + 1)
  <2>1. /\ v[1] \in Nat /\ v[2] \in Nat \ {0}
        /\ v[1] = i => v[2] \in 1..Len(p[i])
    BY <1>1, NodeShape
  <2>2. QED
    BY <1>1, <2>1
<1>3. QED
  BY <1>2 DEF Visited

(* and ends having met them all.                                           *)
LEMMA VisitedLast ==
  ASSUME NEW p \in Program, NEW i \in Nat, i > Len(p), NEW q
  PROVE  Visited(p, i, q) = Nodes(p)
<1>1. Len(p) \in Nat /\ DOMAIN p = 1..Len(p)
  BY DEF Program
<1>2. \A v \in Nodes(p) : v[1] \in 1..Len(p)
  BY <1>1, NodeShape
<1>3. QED
  BY <1>1, <1>2 DEF Visited

(* So the declarations met are those of one node more.                     *)
LEMMA MetNext ==
  ASSUME NEW p \in Program, NEW i \in DOMAIN p, NEW q \in DOMAIN p[i]
  PROVE  Met(p, i, q + 1) = Met(p, i, q) \cup DeclarationsAt(p, <<i, q>>)
BY VisitedNext DEF Met

-----------------------------------------------------------------------------
(* The block a declaration is in.                                          *)

(* The openers around a node are the ones unclosed there.                  *)
LEMMA AroundUnclosed ==
  ASSUME NEW t \in Seq(Node), Bracketed(t), NEW q \in DOMAIN t, t[q].k # "close"
  PROVE  Around(t, q) = Unclosed(t, q)
<1>1. ASSUME NEW o \in 1..(q - 1), t[o].k \in OpenKinds
      PROVE  CloseOf(t, o) > q <=> CloseOf(t, o) >= q
  <2>1. o \in DOMAIN t
    OBVIOUS
  <2>2. t[CloseOf(t, o)].k = "close" /\ CloseOf(t, o) \in (o + 1)..Len(t)
    BY <1>1, <2>1, CloseOfOpener
  <2>3. QED
    BY <2>2
<1>2. QED
  BY <1>1 DEF Around, Unclosed

(* It is the top level or the body of the innermost construct that has one. *)
LEMMA BlockOfShape ==
  ASSUME NEW p \in Program, NEW w \in Nodes(p)
  PROVE  \/ /\ BlockOf(p, w) = TopLevel
            /\ \A o \in Openers(p, w) : p[w[1]][o].k = "paryay"
         \/ \E o \in Openers(p, w) :
              /\ BlockOf(p, w) = <<w[1], o, 0>>
              /\ p[w[1]][o].k # "paryay" /\ o \in 1..(w[2] - 1)
              /\ \A r \in Openers(p, w) : p[w[1]][r].k # "paryay" => r <= o
<1> DEFINE os == {o \in Openers(p, w) : p[w[1]][o].k # "paryay"}
<1>1. w[2] \in Nat \ {0} /\ os \in SUBSET (1..(w[2] - 1))
  BY NodeShape DEF Openers, Around
<1>2. CASE os = {}
  BY <1>2 DEF BlockOf
<1>3. CASE os # {}
  <2>1. w[2] - 1 \in Nat
    BY <1>1
  <2>2. Max(os) \in os /\ \A y \in os : Max(os) >= y
    <3> HIDE DEF os
    <3>1. QED
      BY <1>1, <1>3, <2>1, MaxOfPositions
  <2>3. BlockOf(p, w) = <<w[1], Max(os), 0>>
    BY <1>3 DEF BlockOf
  <2>4. Max(os) \in 1..(w[2] - 1)
    BY <1>1, <2>2
  <2> DEFINE m == Max(os)
  <2>5. /\ m \in Openers(p, w) /\ p[w[1]][m].k # "paryay" /\ m \in 1..(w[2] - 1)
        /\ BlockOf(p, w) = <<w[1], m, 0>>
    BY <2>2, <2>3, <2>4
  <2>6. ASSUME NEW r \in Openers(p, w), p[w[1]][r].k # "paryay" PROVE r <= m
    <3>1. r \in os
      BY <2>6
    <3>2. r \in 1..(w[2] - 1) /\ m >= r
      BY <1>1, <2>2, <3>1
    <3>3. QED
      BY <2>4, <3>2
  <2>7. QED
    <3> HIDE DEF m
    <3>1. QED
      BY <2>5, <2>6
<1>4. QED
  BY <1>2, <1>3

-----------------------------------------------------------------------------
(* What the nodes hold.                                                    *)

LEMMA SimpleFields ==
  ASSUME NEW s \in Simple
  PROVE  /\ s.k \in SimpleKinds
         /\ s.k = "decl" =>
              /\ s \in Decl /\ s.x \in Idents /\ s.ahe \in BOOLEAN
              /\ s.purnank \in BOOLEAN /\ s.init \in SUBSET Expr
         /\ s.k = "assign" => s.x \in Idents /\ s.e \in Expr
         /\ s.k # "decl" => s.e \in Expr /\ s \notin Decl
         /\ OwnExprs(s) \in SUBSET Expr
<1>1. CASE s \in [k: {"shevti", "leeh", "expr"}, e: Expr]
  BY <1>1 DEF SimpleKinds, Decl, OwnExprs
<1>2. CASE s \in [k: {"assign"}, x: Idents, e: Expr]
  BY <1>2 DEF SimpleKinds, Decl, OwnExprs
<1>3. CASE s \in Decl
  BY <1>3 DEF SimpleKinds, Decl, OwnExprs
<1>4. QED
  BY <1>1, <1>2, <1>3 DEF Simple

LEMMA NodeFields ==
  ASSUME NEW n \in Node
  PROVE  /\ n.k \in SimpleKinds \cup OpenKinds
                     \cup {"thamba", "pudhe", "partav", "close"}
         /\ n.k \in SimpleKinds => n \in Simple
         /\ n.k = "pratyek" =>
              /\ n.init \in Simple /\ n.cond \in Expr
              /\ n.step \in Simple /\ n.step \notin Decl
         /\ n.k = "karya" => n.x \in Idents /\ n.params \in Seq(Idents)
         /\ n.k \in {"jar", "nahitar", "jovar", "paryay"} => n.e \in Expr
         /\ n.k = "paryay" => n.cases \in Seq(SUBSET Expr)
         /\ n.k = "partav" => n.value \in SUBSET Expr
<1>1. CASE n \in Simple
  <2>1. n.k \in SimpleKinds
    BY <1>1, SimpleFields
  <2>2. QED
    BY <1>1, <2>1 DEF SimpleKinds
<1>2. CASE n \in Jump
  BY <1>2 DEF Jump, SimpleKinds
<1>3. CASE n \in Opener
  <2>1. CASE n \in [k: {"pratyek"}, init: Simple, cond: Expr, step: Simple \ Decl]
    BY <2>1 DEF SimpleKinds, OpenKinds
  <2>2. CASE n \in [k: {"paryay"}, e: Expr, cases: Seq(SUBSET Expr)]
    BY <2>2 DEF SimpleKinds, OpenKinds
  <2>3. CASE n \in [k: {"karya"}, x: Idents, params: Seq(Idents), purnanks: SUBSET Nat]
    BY <2>3 DEF SimpleKinds, OpenKinds
  <2>4. CASE \/ n \in [k: {"jovar"}, e: Expr]
             \/ n \in [k: {"jar", "nahitar"}, e: Expr, more: BOOLEAN]
             \/ n \in [k: {"scope", "anyatha", "case"}]
    BY <2>4 DEF SimpleKinds, OpenKinds
  <2>5. QED
    BY <1>3, <2>1, <2>2, <2>3, <2>4 DEF Opener
<1>4. CASE n \in [k: {"close"}]
  BY <1>4 DEF SimpleKinds, OpenKinds
<1>5. QED
  BY <1>1, <1>2, <1>3, <1>4 DEF Node

(* A declaration is the node itself, the initialiser of a for, or a        *)
(* parameter.                                                              *)
LEMMA DeclarationCases ==
  ASSUME NEW p \in Program, NEW w \in Nodes(p), NEW d \in DeclarationsAt(p, w)
  PROVE  \/ /\ At(p, w).k = "decl"
            /\ d = Declaration(At(p, w), <<w[1], w[2], 0>>, BlockOf(p, w))
         \/ /\ At(p, w).k = "pratyek" /\ At(p, w).init.k = "decl"
            /\ d = Declaration(At(p, w).init, <<w[1], w[2], 1>>, <<w[1], w[2], 1>>)
         \/ /\ At(p, w).k = "karya"
            /\ \E j \in DOMAIN At(p, w).params :
                 d = [name |-> At(p, w).params[j], ahe |-> FALSE,
                      purnank |-> j \in At(p, w).purnanks,
                      site |-> <<w[1], w[2], j>>, block |-> <<w[1], w[2], 0>>]
<1> DEFINE n == At(p, w)
<1>1. CASE n.k = "decl"
  BY <1>1 DEF DeclarationsAt
<1>2. CASE n.k = "pratyek"
  BY <1>2 DEF DeclarationsAt
<1>3. CASE n.k = "karya"
  BY <1>3 DEF DeclarationsAt
<1>4. CASE n.k \notin {"decl", "pratyek", "karya"}
  BY <1>4 DEF DeclarationsAt
<1>5. QED
  BY <1>1, <1>2, <1>3, <1>4

(* Blocks a declaration may be in.                                         *)
IsBlock(t, i, b) ==
  \/ b = TopLevel
  \/ \E o \in DOMAIN t :
       \/ b = <<i, o, 0>> /\ t[o].k \in OpenKinds \ {"paryay"}
       \/ b = <<i, o, 1>> /\ t[o].k = "pratyek"

(* A declaration has its place at its node, and its block begins no later. *)
LEMMA DeclarationShape ==
  ASSUME NEW p \in Program, NEW w \in Nodes(p), NEW d \in DeclarationsAt(p, w)
  PROVE  /\ d.name \in Idents /\ d.ahe \in BOOLEAN /\ d.purnank \in BOOLEAN
         /\ d.site[3] \in Nat /\ d.site = <<w[1], w[2], d.site[3]>>
         /\ At(p, w).k = "decl" => d.site[3] = 0 /\ d.block = BlockOf(p, w)
         /\ At(p, w).k # "decl" => d.site[3] >= 1
         /\ At(p, w).k = "pratyek" => d.site[3] = 1 /\ d.block = <<w[1], w[2], 1>>
         /\ At(p, w).k = "karya" => d.block = <<w[1], w[2], 0>>
         /\ IsBlock(p[w[1]], w[1], d.block)
         /\ d.block # TopLevel => d.block[1] = w[1] /\ d.block[2] <= w[2]
<1> DEFINE n == At(p, w)
<1>1. n \in Node /\ w[1] \in Nat \ {0} /\ w[2] \in DOMAIN p[w[1]] /\ w[2] \in Nat \ {0}
      /\ n = p[w[1]][w[2]] /\ p[w[1]] \in Seq(Node)
  BY NodeShape DEF At
<1>2. CASE n.k = "decl"
  <2>1. d = Declaration(n, <<w[1], w[2], 0>>, BlockOf(p, w))
    BY <1>2, DeclarationCases
  <2>2. n \in Simple
    BY <1>1, <1>2, NodeFields DEF SimpleKinds
  <2>3. n.x \in Idents /\ n.ahe \in BOOLEAN /\ n.purnank \in BOOLEAN
    BY <1>2, <2>2, SimpleFields
  <2>4. /\ IsBlock(p[w[1]], w[1], BlockOf(p, w))
        /\ BlockOf(p, w) # TopLevel => BlockOf(p, w)[1] = w[1] /\ BlockOf(p, w)[2] <= w[2]
    <3>1. CASE BlockOf(p, w) = TopLevel
      BY <3>1 DEF IsBlock
    <3>2. CASE BlockOf(p, w) # TopLevel
      <4>1. PICK o \in Openers(p, w) : /\ BlockOf(p, w) = <<w[1], o, 0>>
                                       /\ p[w[1]][o].k # "paryay"
                                       /\ o \in 1..(w[2] - 1)
        BY <3>2, BlockOfShape
      <4>2. p[w[1]][o].k \in OpenKinds
        BY <4>1 DEF Openers, Around
      <4>3. o \in DOMAIN p[w[1]] /\ o <= w[2]
        BY <1>1, <4>1
      <4>4. QED
        BY <4>1, <4>2, <4>3 DEF IsBlock
    <3>3. QED
      BY <3>1, <3>2
  <2>5. QED
    BY <1>2, <2>1, <2>3, <2>4 DEF Declaration
<1>3. CASE n.k = "pratyek"
  <2>1. /\ n.init.k = "decl"
        /\ d = Declaration(n.init, <<w[1], w[2], 1>>, <<w[1], w[2], 1>>)
    BY <1>3, DeclarationCases
  <2>2. n.init \in Simple
    BY <1>1, <1>3, NodeFields
  <2>3. n.init.x \in Idents /\ n.init.ahe \in BOOLEAN /\ n.init.purnank \in BOOLEAN
    BY <2>1, <2>2, SimpleFields
  <2>4. IsBlock(p[w[1]], w[1], <<w[1], w[2], 1>>)
    BY <1>1, <1>3 DEF IsBlock
  <2>5. QED
    BY <1>1, <1>3, <2>1, <2>3, <2>4 DEF Declaration
<1>4. CASE n.k = "karya"
  <2>1. PICK j \in DOMAIN n.params :
          d = [name |-> n.params[j], ahe |-> FALSE,
               purnank |-> j \in n.purnanks,
               site |-> <<w[1], w[2], j>>, block |-> <<w[1], w[2], 0>>]
    BY <1>4, DeclarationCases
  <2>2. n.params \in Seq(Idents)
    BY <1>1, <1>4, NodeFields
  <2>3. n.params[j] \in Idents /\ j \in Nat /\ j >= 1
    BY <2>2
  <2>4. IsBlock(p[w[1]], w[1], <<w[1], w[2], 0>>)
    BY <1>1, <1>4 DEF IsBlock, OpenKinds
  <2>5. QED
    BY <1>1, <1>4, <2>1, <2>3, <2>4
<1>5. QED
  BY <1>2, <1>3, <1>4, DeclarationCases

(* A declaration says at which node it is.                                 *)
LEMMA DeclaredOnce ==
  ASSUME NEW p \in Program, NEW v \in Nodes(p), NEW w \in Nodes(p),
         NEW c \in DeclarationsAt(p, v), NEW d \in DeclarationsAt(p, w),
         c.site[1] = d.site[1], c.site[2] = d.site[2]
  PROVE  v = w /\ (c.site[3] = d.site[3] => c = d)
<1>1. /\ c.site = <<v[1], v[2], c.site[3]>> /\ d.site = <<w[1], w[2], d.site[3]>>
      /\ v = <<v[1], v[2]>> /\ w = <<w[1], w[2]>>
  BY DeclarationShape, NodeShape
<1>2. v = w
  <2>1. c.site[1] = v[1] /\ c.site[2] = v[2] /\ d.site[1] = w[1] /\ d.site[2] = w[2]
    BY <1>1
  <2>2. v[1] = w[1] /\ v[2] = w[2]
    BY <2>1
  <2>3. QED
    BY <1>1, <2>2
<1>3. ASSUME c.site[3] = d.site[3] PROVE c = d
  <2> DEFINE n == At(p, w)
  <2>1. CASE n.k = "decl"
    BY <1>2, <2>1, DeclarationCases
  <2>2. CASE n.k = "pratyek"
    BY <1>2, <2>2, DeclarationCases
  <2>3. CASE n.k = "karya"
    <3>1. PICK j \in DOMAIN n.params :
            c = [name |-> n.params[j], ahe |-> FALSE,
                 purnank |-> j \in n.purnanks,
                 site |-> <<w[1], w[2], j>>, block |-> <<w[1], w[2], 0>>]
      BY <1>2, <2>3, DeclarationCases
    <3>2. PICK m \in DOMAIN n.params :
            d = [name |-> n.params[m], ahe |-> FALSE,
                 purnank |-> m \in n.purnanks,
                 site |-> <<w[1], w[2], m>>, block |-> <<w[1], w[2], 0>>]
      BY <1>2, <2>3, DeclarationCases
    <3>3. j = m
      BY <1>3, <3>1, <3>2
    <3>4. QED
      BY <3>1, <3>2, <3>3
  <2>4. QED
    BY <2>1, <2>2, <2>3, DeclarationCases
<1>4. QED
  BY <1>2, <1>3

(* The declarations that precede part n of a node are those the walk has   *)
(* met and those of earlier parts of the node.                             *)
MetBy(p, w, n) ==
  Met(p, w[1], w[2]) \cup {d \in DeclarationsAt(p, w) : d.site[3] < n}

LEMMA MetIsBefore ==
  ASSUME NEW p \in Program, NEW w \in Nodes(p), NEW n \in Nat,
         NEW d \in Declarations(p)
  PROVE  Before(d.site, <<w[1], w[2], n>>) <=> d \in MetBy(p, w, n)
<1>1. PICK v \in Nodes(p) : d \in DeclarationsAt(p, v)
  BY DEF Declarations
<1>2. /\ d.site = <<v[1], v[2], d.site[3]>> /\ d.site[3] \in Nat
      /\ v = <<v[1], v[2]>> /\ v[1] \in Nat /\ v[2] \in Nat
      /\ w = <<w[1], w[2]>> /\ w[1] \in Nat /\ w[2] \in Nat
  BY <1>1, DeclarationShape, NodeShape
<1>3. d.site[1] = v[1] /\ d.site[2] = v[2]
  BY <1>2
<1>4. \A y \in Nodes(p) : d \in DeclarationsAt(p, y) <=> y = v
  BY <1>1, DeclaredOnce
<1>5. d \in Met(p, w[1], w[2]) <=> v[1] < w[1] \/ (v[1] = w[1] /\ v[2] < w[2])
  <2>1. d \in Met(p, w[1], w[2]) <=> v \in Visited(p, w[1], w[2])
    BY <1>1, <1>4 DEF Met, Visited
  <2>2. QED
    BY <2>1 DEF Visited
<1>6. d \in DeclarationsAt(p, w) <=> v[1] = w[1] /\ v[2] = w[2]
  <2>1. v = w <=> v[1] = w[1] /\ v[2] = w[2]
    BY <1>2
  <2>2. QED
    BY <1>4, <2>1
<1>7. QED
  BY <1>3, <1>5, <1>6 DEF Before, MetBy

(* What has been met is declared in the program.                           *)
LEMMA MetDeclared ==
  ASSUME NEW p \in Program, NEW i, NEW q
  PROVE  Met(p, i, q) \subseteq Declarations(p)
BY DEF Met, Visited, Declarations

(* The blocks whose declarations the walk has scopes for, when the blocks  *)
(* of the openers os of statement i are open.                              *)
Homes(i, t, os) ==
  {TopLevel}
  \cup {<<i, o, 0>> : o \in {r \in os : t[r].k # "paryay"}}
  \cup {<<i, o, 1>> : o \in {r \in os : t[r].k = "pratyek"}}

(* Of the declarations met, those in a block around the node are those in  *)
(* these.                                                                  *)
LEMMA HomesAreAround ==
  ASSUME NEW p \in Program, NEW w \in Nodes(p), NEW n \in Nat,
         NEW d \in MetBy(p, w, n)
  PROVE  d.block \in BlocksAround(p, w, n) <=>
           \/ d.block \in Homes(w[1], p[w[1]], Openers(p, w))
           \/ n > 0 /\ d.block = <<w[1], w[2], 1>>
<1> DEFINE t == p[w[1]]
           os == Openers(p, w)
<1>1. PICK v \in Nodes(p) : d \in DeclarationsAt(p, v)
  BY DEF MetBy, Met, Visited
<1>2. /\ IsBlock(p[v[1]], v[1], d.block)
      /\ d.block # TopLevel => d.block[1] = v[1]
      /\ w[1] \in Nat \ {0}
  BY <1>1, DeclarationShape, NodeShape
<1>3. CASE d.block = TopLevel
  BY <1>3 DEF BlocksAround, Homes
<1>4. CASE d.block # TopLevel
  <2>1. PICK o \in DOMAIN p[v[1]] :
          \/ d.block = <<v[1], o, 0>> /\ p[v[1]][o].k \in OpenKinds \ {"paryay"}
          \/ d.block = <<v[1], o, 1>> /\ p[v[1]][o].k = "pratyek"
    BY <1>2, <1>4 DEF IsBlock
  <2>2. \A h \in {0, 1} : d.block = <<v[1], o, h>> =>
          (d.block \in {<<w[1], r, g>> : r \in os, g \in {0, 1}}
             <=> v[1] = w[1] /\ o \in os)
    OBVIOUS
  <2>3. d.block = <<v[1], o, 0>> =>
          (d.block \in {<<w[1], r, 0>> : r \in {y \in os : t[y].k # "paryay"}}
             <=> v[1] = w[1] /\ o \in os /\ t[o].k # "paryay")
    OBVIOUS
  <2>4. d.block = <<v[1], o, 1>> =>
          (d.block \in {<<w[1], r, 1>> : r \in {y \in os : t[y].k = "pratyek"}}
             <=> v[1] = w[1] /\ o \in os /\ t[o].k = "pratyek")
    OBVIOUS
  <2>5. /\ d.block = <<v[1], o, 0>> =>
             d.block \notin {<<w[1], r, 1>> : r \in {y \in os : t[y].k = "pratyek"}}
        /\ d.block = <<v[1], o, 1>> =>
             d.block \notin {<<w[1], r, 0>> : r \in {y \in os : t[y].k # "paryay"}}
    OBVIOUS
  <2>6. d.block \in Homes(w[1], t, os) <=>
          \/ d.block = <<v[1], o, 0>> /\ v[1] = w[1] /\ o \in os /\ t[o].k # "paryay"
          \/ d.block = <<v[1], o, 1>> /\ v[1] = w[1] /\ o \in os /\ t[o].k = "pratyek"
    BY <1>4, <2>1, <2>3, <2>4, <2>5 DEF Homes
  <2>7. d.block \in BlocksAround(p, w, n) <=>
          \/ v[1] = w[1] /\ o \in os
          \/ n > 0 /\ d.block = <<w[1], w[2], 1>>
    BY <1>4, <2>1, <2>2 DEF BlocksAround
  <2>8. QED
    BY <2>1, <2>6, <2>7
<1>5. QED
  BY <1>3, <1>4

(* So what a use refers to is found among what the walk has met.           *)
LastOf(E) == {d \in E : \A c \in E : c = d \/ Before(c.site, d.site)}

LEMMA ReferentIsMet ==
  ASSUME NEW p \in Program, NEW w \in Nodes(p), NEW u, u[1] \in Nat
  PROVE  Referent(p, w, u) =
           LastOf({d \in MetBy(p, w, u[1]) :
                     /\ d.name = u[2]
                     /\ \/ d.block \in Homes(w[1], p[w[1]], Openers(p, w))
                        \/ u[1] > 0 /\ d.block = <<w[1], w[2], 1>>})
<1> DEFINE n == u[1]
           S == {d \in Declarations(p) :
                   /\ d.name = u[2]
                   /\ d.block \in BlocksAround(p, w, n)
                   /\ Before(d.site, <<w[1], w[2], n>>)}
           R == {d \in MetBy(p, w, n) :
                   /\ d.name = u[2]
                   /\ \/ d.block \in Homes(w[1], p[w[1]], Openers(p, w))
                      \/ n > 0 /\ d.block = <<w[1], w[2], 1>>}
<1>1. \A d \in MetBy(p, w, n) : d \in Declarations(p)
  BY DEF MetBy, Met, Visited, Declarations
<1>2. \A d : d \in S <=> d \in R
  BY <1>1, MetIsBefore, HomesAreAround
<1>3. S = R
  BY <1>2
<1>4. Referent(p, w, u) = LastOf(S)
  BY DEF Referent, LastOf
<1>5. QED
  BY <1>3, <1>4

-----------------------------------------------------------------------------
(* The rules, node by node.                                                *)

UseIsLegal(p, w, u) ==
  /\ Referent(p, w, u) # {}
  /\ u[3] => \A d \in Referent(p, w, u) : ~d.ahe

CallIsLegal(p, c) ==
  \E i \in DOMAIN p : /\ p[i][1].k = "karya" /\ p[i][1].x = c[1]
                      /\ Len(p[i][1].params) = c[2]

PartIsLegal(p, w, n, s) ==
  /\ s.k = "decl" => /\ s.ahe => s.init # NoExpr
                     /\ s.purnank => \A e \in s.init : ~e.neg
  /\ s.k = "assign" /\ s.e.neg =>
       \A d \in Referent(p, w, <<n, s.x, TRUE>>) : ~d.purnank

Fresh(p, w) ==
  \A d \in DeclarationsAt(p, w) :
    \A c \in Met(p, w[1], w[2]) \cup DeclarationsAt(p, w) :
      c.name = d.name /\ c.block = d.block => c.site = d.site

NodeIsLegal(p, w) ==
  /\ \A u \in UsesAt(At(p, w)) : UseIsLegal(p, w, u)
  /\ \A c \in CallsIn(AllExprs(At(p, w))) : CallIsLegal(p, c)
  /\ \A sp \in SimpleParts(At(p, w)) : PartIsLegal(p, w, sp[1], sp[2])
  /\ Fresh(p, w)
  /\ At(p, w).k \in {"thamba", "pudhe"} =>
       \E o \in Openers(p, w) : p[w[1]][o].k \in {"jovar", "pratyek"}
  /\ At(p, w).k = "partav" =>
       \E o \in Openers(p, w) : p[w[1]][o].k = "karya"
  /\ At(p, w).k = "karya" => w[2] = 1

FunctionsAreDistinct(p) ==
  \A i, j \in DOMAIN p :
    p[i][1].k = "karya" /\ p[j][1].k = "karya" /\ p[i][1].x = p[j][1].x => i = j

(* No name is declared twice in a block exactly if no declaration repeats  *)
(* one the walk has met.                                                   *)
LEMMA FreshEverywhere ==
  ASSUME NEW p \in Program
  PROVE  NoDuplicates(p) <=> \A w \in Nodes(p) : Fresh(p, w)
<1>1. ASSUME NoDuplicates(p), NEW w \in Nodes(p) PROVE Fresh(p, w)
  BY <1>1, MetDeclared DEF NoDuplicates, Fresh, Declarations
<1>2. ASSUME \A w \in Nodes(p) : Fresh(p, w) PROVE NoDuplicates(p)
  <2> SUFFICES ASSUME NEW c \in Declarations(p), NEW d \in Declarations(p),
                      c.name = d.name, c.block = d.block
               PROVE  c.site = d.site
    BY DEF NoDuplicates
  <2>1. PICK v \in Nodes(p) : c \in DeclarationsAt(p, v)
    BY DEF Declarations
  <2>2. PICK w \in Nodes(p) : d \in DeclarationsAt(p, w)
    BY DEF Declarations
  <2>3. v \in Visited(p, w[1], w[2]) \/ v = w \/ w \in Visited(p, v[1], v[2])
    <3>1. /\ v = <<v[1], v[2]>> /\ v[1] \in Nat /\ v[2] \in Nat
          /\ w = <<w[1], w[2]>> /\ w[1] \in Nat /\ w[2] \in Nat
      BY NodeShape
    <3>2. \/ v[1] < w[1] \/ (v[1] = w[1] /\ v[2] < w[2])
          \/ (v[1] = w[1] /\ v[2] = w[2])
          \/ w[1] < v[1] \/ (w[1] = v[1] /\ w[2] < v[2])
      BY <3>1
    <3>3. v[1] = w[1] /\ v[2] = w[2] => v = w
      BY <3>1
    <3>4. QED
      BY <3>2, <3>3 DEF Visited
  <2>4. CASE v \in Visited(p, w[1], w[2]) \/ v = w
    <3>1. c \in Met(p, w[1], w[2]) \cup DeclarationsAt(p, w)
      BY <2>1, <2>4 DEF Met
    <3>2. QED
      BY <1>2, <2>2, <3>1 DEF Fresh
  <2>5. CASE w \in Visited(p, v[1], v[2])
    <3>1. d \in Met(p, v[1], v[2]) \cup DeclarationsAt(p, v)
      BY <2>2, <2>5 DEF Met
    <3>2. QED
      BY <1>2, <2>1, <3>1 DEF Fresh
  <2>6. QED
    BY <2>3, <2>4, <2>5
<1>3. QED
  BY <1>1, <1>2

(* A program obeys the rules exactly if each of its nodes does, and its    *)
(* functions have different names.                                         *)
LEMMA LegalEverywhere ==
  ASSUME NEW p \in Program, IsTree(p)
  PROVE  WellFormed(p) <=>
           FunctionsAreDistinct(p) /\ \A w \in Nodes(p) : NodeIsLegal(p, w)
<1>1. NamesAreDeclared(p) /\ AheIsNeverWritten(p) <=>
        \A w \in Nodes(p) : \A u \in UsesAt(At(p, w)) : UseIsLegal(p, w, u)
  BY DEF NamesAreDeclared, AheIsNeverWritten, UseIsLegal
<1>2. CallsMatchDeclarations(p) <=>
        \A w \in Nodes(p) : \A c \in CallsIn(AllExprs(At(p, w))) : CallIsLegal(p, c)
  BY DEF CallsMatchDeclarations, CallIsLegal
<1>3. InitialisersAreLegal(p) <=>
        \A w \in Nodes(p) : \A sp \in SimpleParts(At(p, w)) :
          PartIsLegal(p, w, sp[1], sp[2])
  BY DEF InitialisersAreLegal, PartIsLegal
<1>4. NoDuplicates(p) <=> \A w \in Nodes(p) : Fresh(p, w)
  BY FreshEverywhere
<1>5. FunctionsAreTopLevelAndDistinct(p) <=>
        /\ FunctionsAreDistinct(p)
        /\ \A w \in Nodes(p) : At(p, w).k = "karya" => w[2] = 1
  <2>1. ASSUME NEW i \in DOMAIN p
        PROVE  <<i, 1>> \in Nodes(p) /\ At(p, <<i, 1>>) = p[i][1]
    <3>1. p[i] # <<>> /\ p[i] \in Seq(Node)
      BY DEF IsTree, Program
    <3>2. 1 \in DOMAIN p[i]
      BY <3>1
    <3>3. QED
      BY <3>2, NodeAt
  <2>2. ASSUME FunctionsAreTopLevelAndDistinct(p)
        PROVE  FunctionsAreDistinct(p)
    <3> SUFFICES ASSUME NEW i \in DOMAIN p, NEW j \in DOMAIN p,
                        p[i][1].k = "karya", p[j][1].k = "karya",
                        p[i][1].x = p[j][1].x
                 PROVE  i = j
      BY DEF FunctionsAreDistinct
    <3>0. /\ <<i, 1>> \in Nodes(p) /\ <<j, 1>> \in Nodes(p)
          /\ At(p, <<i, 1>>).k = "karya" /\ At(p, <<j, 1>>).k = "karya"
          /\ At(p, <<i, 1>>).x = At(p, <<j, 1>>).x
      BY <2>1
    <3>1. <<i, 1>> = <<j, 1>>
      BY <2>2, <3>0, Zenon DEF FunctionsAreTopLevelAndDistinct
    <3>2. QED
      BY <3>1
  <2>3. ASSUME FunctionsAreDistinct(p),
               \A w \in Nodes(p) : At(p, w).k = "karya" => w[2] = 1,
               NEW v \in Nodes(p), NEW w \in Nodes(p),
               At(p, v).k = "karya", At(p, w).k = "karya", At(p, v).x = At(p, w).x
        PROVE  v = w
    <3>1. /\ v = <<v[1], v[2]>> /\ v[1] \in DOMAIN p /\ v[2] = 1
          /\ w = <<w[1], w[2]>> /\ w[1] \in DOMAIN p /\ w[2] = 1
      BY <2>3, NodeShape
    <3>2. At(p, v) = p[v[1]][1] /\ At(p, w) = p[w[1]][1]
      BY <3>1 DEF At
    <3>3. v[1] = w[1]
      BY <2>3, <3>1, <3>2 DEF FunctionsAreDistinct
    <3>4. QED
      BY <3>1, <3>3
  <2>4. FunctionsAreTopLevelAndDistinct(p) =>
          \A w \in Nodes(p) : At(p, w).k = "karya" => w[2] = 1
    BY DEF FunctionsAreTopLevelAndDistinct
  <2>5. FunctionsAreDistinct(p)
        /\ (\A w \in Nodes(p) : At(p, w).k = "karya" => w[2] = 1)
          => FunctionsAreTopLevelAndDistinct(p)
    BY <2>3 DEF FunctionsAreTopLevelAndDistinct
  <2>6. QED
    BY <2>2, <2>4, <2>5
<1>6. LoopJumpsAreInLoops(p) /\ ReturnsAreInFunctions(p) <=>
        \A w \in Nodes(p) :
          /\ At(p, w).k \in {"thamba", "pudhe"} =>
               \E o \in Openers(p, w) : p[w[1]][o].k \in {"jovar", "pratyek"}
          /\ At(p, w).k = "partav" =>
               \E o \in Openers(p, w) : p[w[1]][o].k = "karya"
  BY DEF LoopJumpsAreInLoops, ReturnsAreInFunctions
<1>7. QED
  BY <1>1, <1>2, <1>3, <1>4, <1>5, <1>6, Zenon DEF WellFormed, NodeIsLegal

-----------------------------------------------------------------------------
(* The counters and the scope stack.                                       *)

(* The node to visit exists.                                               *)
PlaceIsInProgram ==
  /\ prog \in Programs
  /\ item \in Nat \ {0} /\ pc \in Nat \ {0}
  /\ item <= Len(prog) => pc \in DOMAIN prog[item]

(* The inductive invariant: a block's end restores the counters and scopes *)
(* from the kind on top of frames, so each of the parts needs the others.  *)
IInv ==
  /\ TypeOK
  /\ PlaceIsInProgram
  /\ CountersMatchFrames
  /\ ScopesMatchFrames

Scopes == Seq(SUBSET VarInfos)

-----------------------------------------------------------------------------
(* The helpers.                                                            *)

(* declare() only touches the innermost scope.                             *)
LEMMA DeclareInnermost ==
  ASSUME NEW sc \in Scopes, NEW v \in VarInfos
  PROVE  /\ Declare(sc, v) \in Scopes
         /\ Len(Declare(sc, v)) = Len(sc)
         /\ \A i \in 1..(Len(sc) - 1) : Declare(sc, v)[i] = sc[i]
<1>1. CASE Redeclares(sc, v.name)
  BY <1>1 DEF Declare, Scopes
<1>2. CASE ~Redeclares(sc, v.name) /\ sc = <<>>
  <2>1. Declare(sc, v) = sc
    BY <1>2 DEF Declare, Scopes
  <2>2. QED
    BY <2>1
<1>3. CASE ~Redeclares(sc, v.name) /\ sc # <<>>
  <2>1. Len(sc) \in DOMAIN sc /\ sc[Len(sc)] \in SUBSET VarInfos
    BY <1>3 DEF Scopes
  <2>2. Declare(sc, v) = [sc EXCEPT ![Len(sc)] = sc[Len(sc)] \cup {v}]
    BY <1>3 DEF Declare
  <2>3. sc[Len(sc)] \cup {v} \in SUBSET VarInfos
    BY <2>1
  <2>4. QED
    BY <2>1, <2>2, <2>3 DEF Scopes
<1>4. QED
  BY <1>1, <1>2, <1>3

(* So does a visit of a statement that is one node.                        *)
LEMMA SimpleScopesInnermost ==
  ASSUME NEW sc \in Scopes, NEW s \in Simple, NEW site \in Nat \X Nat \X Nat
  PROVE  /\ SimpleScopes(sc, s, site) \in Scopes
         /\ Len(SimpleScopes(sc, s, site)) = Len(sc)
         /\ \A i \in 1..(Len(sc) - 1) : SimpleScopes(sc, s, site)[i] = sc[i]
<1>1. CASE s.k = "decl"
  <2>1. s \in Decl
    BY <1>1 DEF Simple, Decl
  <2>2. VarInfo(s, site) \in VarInfos
    BY <2>1 DEF Decl, VarInfo, VarInfos
  <2>3. QED
    BY <1>1, <2>2, DeclareInnermost DEF SimpleScopes
<1>2. CASE s.k # "decl"
  BY <1>2 DEF SimpleScopes
<1>3. QED
  BY <1>1, <1>2

(* Going to a later node of the statement, or past its end, stays in the   *)
(* program.                                                                *)
LEMMA GoToStays ==
  ASSUME PlaceIsInProgram, item <= Len(prog), NEW next \in Nat \ {0},
         GoTo(next), prog' = prog
  PROVE  PlaceIsInProgram'
<1>1. /\ prog \in Seq(Seq(Node))
      /\ \A i \in DOMAIN prog : prog[i] # <<>>
  BY ProgramsAssumption DEF PlaceIsInProgram, Program, IsTree
<1>2. item \in DOMAIN prog /\ prog[item] \in Seq(Node)
  BY <1>1 DEF PlaceIsInProgram
<1>3. CASE next <= Len(prog[item])
  BY <1>2, <1>3 DEF GoTo, PlaceIsInProgram
<1>4. CASE ~(next <= Len(prog[item]))
  <2>1. item' = item + 1 /\ pc' = 1
    BY <1>4 DEF GoTo
  <2>2. item + 1 <= Len(prog) => prog[item + 1] \in Seq(Node) /\ prog[item + 1] # <<>>
    BY <1>1, <1>2
  <2>3. item + 1 <= Len(prog) => 1 \in DOMAIN prog[item + 1]
    BY <2>2
  <2>4. QED
    BY <2>1, <2>3 DEF PlaceIsInProgram
<1>5. QED
  BY <1>3, <1>4

(* So does going on to the next node.                                      *)
LEMMA AdvanceStays ==
  ASSUME PlaceIsInProgram, item <= Len(prog), Advance, prog' = prog
  PROVE  PlaceIsInProgram'
<1>1. pc + 1 \in Nat \ {0}
  BY DEF PlaceIsInProgram
<1>2. QED
  BY <1>1, GoToStays DEF Advance

(* What is visited next is a node of the tree.                             *)
LEMMA NodeIsNode ==
  ASSUME PlaceIsInProgram, item <= Len(prog)
  PROVE  node \in Node
<1>1. prog \in Seq(Seq(Node))
  BY ProgramsAssumption DEF PlaceIsInProgram, Program
<1>2. item \in DOMAIN prog /\ pc \in DOMAIN prog[item]
  BY <1>1 DEF PlaceIsInProgram
<1>3. QED
  BY <1>1, <1>2 DEF node

(* How the frames that are counted change with a push and with a pop.      *)
LEMMA FramesCounted ==
  ASSUME NEW fs \in Seq(OpenKinds), NEW kinds
  PROVE  /\ Cardinality(FramesOf(fs, kinds)) \in Nat
         /\ \A k \in OpenKinds :
              Cardinality(FramesOf(Append(fs, k), kinds)) =
                Cardinality(FramesOf(fs, kinds)) + (IF k \in kinds THEN 1 ELSE 0)
         /\ fs # <<>> =>
              Cardinality(FramesOf(Front(fs), kinds)) =
                Cardinality(FramesOf(fs, kinds))
                  - (IF Last(fs) \in kinds THEN 1 ELSE 0)
<1>1. Cardinality(Positions(fs, kinds)) \in Nat
  BY PositionsFinite
<1>2. \A k \in OpenKinds :
        Cardinality(Positions(Append(fs, k), kinds)) =
          Cardinality(Positions(fs, kinds)) + (IF k \in kinds THEN 1 ELSE 0)
  BY PositionsOfPush
<1>3. fs # <<>> =>
        Cardinality(Positions(Front(fs), kinds)) =
          Cardinality(Positions(fs, kinds)) - (IF Last(fs) \in kinds THEN 1 ELSE 0)
  BY PositionsOfPop
<1>4. \A q : FramesOf(q, kinds) = Positions(q, kinds)
  BY DEF FramesOf, Positions
<1>5. QED
  BY <1>1, <1>2, <1>3, <1>4

-----------------------------------------------------------------------------
(* The counters and the scopes, when frames grows by one.                  *)
LEMMA PushMatches ==
  ASSUME TypeOK, CountersMatchFrames, ScopesMatchFrames, phase # "done",
         NEW k \in OpenKinds, frames' = Append(frames, k),
         loopDepth' = loopDepth + (IF k \in {"jovar", "pratyek"} THEN 1 ELSE 0),
         funcDepth' = funcDepth + (IF k = "karya" THEN 1 ELSE 0),
         Len(scopes') = Len(scopes) + (IF k = "paryay" THEN 0
                                       ELSE IF k = "pratyek" THEN 2 ELSE 1)
  PROVE  CountersMatchFrames' /\ ScopesMatchFrames' /\ frames' \in Seq(OpenKinds)
         /\ loopDepth' \in Nat /\ funcDepth' \in Nat
<1>1. frames \in Seq(OpenKinds) /\ scopes \in Scopes
  BY DEF TypeOK, Scopes
<1>2. \A kinds :
        /\ Cardinality(FramesOf(frames, kinds)) \in Nat
        /\ Cardinality(FramesOf(frames', kinds)) =
             Cardinality(FramesOf(frames, kinds)) + (IF k \in kinds THEN 1 ELSE 0)
  BY <1>1, FramesCounted
<1>3. CountersMatchFrames'
  BY <1>2 DEF CountersMatchFrames
<1>4. ScopesMatchFrames'
  <2> DEFINE plain == OpenKinds \ {"paryay"}
             fors == {"pratyek"}
  <2>1. Cardinality(FramesOf(frames', plain)) =
          Cardinality(FramesOf(frames, plain)) + (IF k = "paryay" THEN 0 ELSE 1)
    BY <1>2
  <2>2. Cardinality(FramesOf(frames', fors)) =
          Cardinality(FramesOf(frames, fors)) + (IF k = "pratyek" THEN 1 ELSE 0)
    BY <1>2
  <2>3. Len(scopes) = 1 + Cardinality(FramesOf(frames, plain))
                        + Cardinality(FramesOf(frames, fors))
    BY DEF ScopesMatchFrames
  <2>4. /\ Cardinality(FramesOf(frames, plain)) \in Nat
        /\ Cardinality(FramesOf(frames, fors)) \in Nat
    BY <1>2
  <2>5. Len(scopes') = 1 + Cardinality(FramesOf(frames', plain))
                         + Cardinality(FramesOf(frames', fors))
    <3> DEFINE a == Cardinality(FramesOf(frames, plain))
               b == Cardinality(FramesOf(frames, fors))
               a1 == Cardinality(FramesOf(frames', plain))
               b1 == Cardinality(FramesOf(frames', fors))
    <3>1. a \in Nat /\ b \in Nat /\ Len(scopes) = 1 + a + b
      BY <2>3, <2>4
    <3>2. /\ a1 = a + (IF k = "paryay" THEN 0 ELSE 1)
          /\ b1 = b + (IF k = "pratyek" THEN 1 ELSE 0)
      BY <2>1, <2>2
    <3> HIDE DEF a, b, a1, b1
    <3>3. QED
      <4> SUFFICES Len(scopes') = 1 + a1 + b1
        BY DEF a1, b1
      <4>1. CASE k = "paryay"  BY <3>1, <3>2, <4>1
      <4>2. CASE k = "pratyek"  BY <3>1, <3>2, <4>2
      <4>3. CASE k # "paryay" /\ k # "pratyek"  BY <3>1, <3>2, <4>3
      <4>4. QED  BY <4>1, <4>2, <4>3
  <2>6. QED
    BY <2>5 DEF ScopesMatchFrames
<1>5. QED
  BY <1>1, <1>3, <1>4 DEF TypeOK

(* And when the innermost is left.                                         *)
LEMMA PopMatches ==
  ASSUME TypeOK, CountersMatchFrames, ScopesMatchFrames, phase # "done",
         frames # <<>>, frames' = Front(frames),
         scopes' = ScopesLeft(Last(frames), scopes),
         loopDepth' = loopDepth - LoopsLeft(Last(frames)),
         funcDepth' = IF Last(frames) = "karya" THEN funcDepth - 1 ELSE funcDepth
  PROVE  /\ CountersMatchFrames' /\ ScopesMatchFrames' /\ frames' \in Seq(OpenKinds)
         /\ loopDepth' \in Nat /\ funcDepth' \in Nat /\ scopes' \in Scopes
         /\ \A i \in 1..Len(scopes') : scopes'[i] = scopes[i]
         /\ Len(scopes') <= Len(scopes)
<1> DEFINE k == Last(frames)
           plain == OpenKinds \ {"paryay"}
           fors == {"pratyek"}
<1>1. frames \in Seq(OpenKinds) /\ scopes \in Scopes /\ k \in OpenKinds
  BY DEF TypeOK, Scopes, Last
<1>2. frames' \in Seq(OpenKinds)
  BY <1>1, FrontProperties
<1>3. \A kinds :
        /\ Cardinality(FramesOf(frames, kinds)) \in Nat
        /\ Cardinality(FramesOf(frames', kinds)) \in Nat
        /\ Cardinality(FramesOf(frames', kinds)) =
             Cardinality(FramesOf(frames, kinds)) - (IF k \in kinds THEN 1 ELSE 0)
  BY <1>1, <1>2, FramesCounted
<1>4. CountersMatchFrames'
  BY <1>3 DEF CountersMatchFrames, LoopsLeft
<1>5. loopDepth' \in Nat /\ funcDepth' \in Nat
  BY <1>3, <1>4 DEF CountersMatchFrames
<1> DEFINE a == Cardinality(FramesOf(frames, plain))
           b == Cardinality(FramesOf(frames, fors))
           a1 == Cardinality(FramesOf(frames', plain))
           b1 == Cardinality(FramesOf(frames', fors))
<1>6. /\ a \in Nat /\ b \in Nat /\ a1 \in Nat /\ b1 \in Nat
      /\ a1 = a - (IF k = "paryay" THEN 0 ELSE 1)
      /\ b1 = b - (IF k = "pratyek" THEN 1 ELSE 0)
  BY <1>1, <1>3
<1>7. /\ Len(scopes) = 1 + a + b
      /\ Len(scopes') = 1 + a1 + b1 => ScopesMatchFrames'
  BY DEF ScopesMatchFrames
<1> HIDE DEF a, b, a1, b1
<1>8. /\ Front(scopes) \in Scopes
      /\ Len(Front(scopes)) = IF scopes = <<>> THEN 0 ELSE Len(scopes) - 1
      /\ \A i \in 1..(Len(scopes) - 1) : Front(scopes)[i] = scopes[i]
  BY <1>1, FrontProperties DEF Scopes
<1>9. /\ Front(Front(scopes)) \in Scopes
      /\ Len(Front(Front(scopes))) =
           IF Front(scopes) = <<>> THEN 0 ELSE Len(Front(scopes)) - 1
      /\ \A i \in 1..(Len(Front(scopes)) - 1) :
           Front(Front(scopes))[i] = Front(scopes)[i]
  BY <1>8, FrontProperties DEF Scopes
<1>10. CASE k = "paryay"
  <2>1. scopes' = scopes
    BY <1>10 DEF ScopesLeft
  <2>2. ScopesMatchFrames'
    BY <1>6, <1>7, <1>10, <2>1
  <2>3. QED
    BY <1>1, <1>2, <1>4, <1>5, <2>1, <2>2 DEF Scopes
<1>11. CASE k = "pratyek"
  <2>1. scopes' = Front(Front(scopes))
    BY <1>11 DEF ScopesLeft, PopScope
  <2>2. Len(scopes) \in Nat /\ Len(scopes) >= 3
    BY <1>6, <1>7, <1>11
  <2>3. Len(scopes') = Len(scopes) - 2
    BY <1>8, <1>9, <2>1, <2>2
  <2>4. ScopesMatchFrames'
    BY <1>6, <1>7, <1>11, <2>3
  <2>5. \A i \in 1..Len(scopes') : scopes'[i] = scopes[i]
    BY <1>8, <1>9, <2>1, <2>2, <2>3
  <2>6. QED
    BY <1>2, <1>4, <1>5, <1>9, <2>1, <2>2, <2>3, <2>4, <2>5
<1>12. CASE k # "paryay" /\ k # "pratyek"
  <2>1. scopes' = Front(scopes)
    BY <1>12 DEF ScopesLeft, PopScope
  <2>2. Len(scopes) \in Nat /\ Len(scopes) >= 2
    BY <1>6, <1>7, <1>12
  <2>3. Len(scopes') = Len(scopes) - 1
    BY <1>8, <2>1, <2>2
  <2>4. ScopesMatchFrames'
    BY <1>6, <1>7, <1>12, <2>3
  <2>5. QED
    BY <1>2, <1>4, <1>5, <1>8, <2>1, <2>2, <2>3, <2>4
<1>13. QED
  BY <1>10, <1>11, <1>12

-----------------------------------------------------------------------------
(* What a step does to the scope stack below its top.                      *)
OuterKept ==
  \A i \in DOMAIN scopes : i < Len(scopes) /\ i \in DOMAIN scopes'
    => scopes'[i] = scopes[i]

(* The scope a construct opens leaves the others as they are.              *)
LEMMA AppendKeeps ==
  ASSUME NEW sc \in Scopes, NEW new \in SUBSET VarInfos
  PROVE  /\ Append(sc, new) \in Scopes
         /\ Len(Append(sc, new)) = Len(sc) + 1
         /\ \A i \in DOMAIN sc : Append(sc, new)[i] = sc[i]
BY DEF Scopes

(* The constructor of the analyser establishes the invariant.              *)
LEMMA InitEstablishes == Init => IInv
<1> SUFFICES ASSUME NEW p \in Programs, InitOn(p)
             PROVE  IInv
  BY DEF Init
<1>1. /\ p \in Seq(Seq(Node)) /\ p \in Program
      /\ \A i \in DOMAIN p : p[i] # <<>>
  BY ProgramsAssumption DEF Program, IsTree
<1>2. 1 <= Len(p) => p[1] \in Seq(Node) /\ p[1] # <<>>
  BY <1>1
<1>3. PlaceIsInProgram
  BY <1>2 DEF InitOn, PlaceIsInProgram
<1>4. TypeOK
  BY <1>1 DEF InitOn, TypeOK
<1>5. \A kinds : Cardinality(FramesOf(frames, kinds)) = 0
  <2>1. \A kinds : FramesOf(frames, kinds) = {}
    BY DEF InitOn, FramesOf
  <2>2. QED
    BY <2>1, FS_EmptySet
<1>6. CountersMatchFrames /\ ScopesMatchFrames
  BY <1>5 DEF InitOn, CountersMatchFrames, ScopesMatchFrames
<1>7. QED
  BY <1>3, <1>4, <1>6 DEF IInv

(* Collecting the signatures touches neither the scopes nor the frames.    *)
LEMMA CollectKeeps ==
  ASSUME IInv, CollectFunctionSignatures
  PROVE  IInv' /\ OuterKept
<1>1. prog \in Seq(Seq(Node)) /\ \A i \in DOMAIN prog : prog[i] # <<>>
  BY ProgramsAssumption DEF IInv, PlaceIsInProgram, Program, IsTree
<1>2. ASSUME NEW i \in FunctionItems(prog)
      PROVE  i \in Nat /\ prog[i][1].x \in Idents /\ prog[i][1].params \in Seq(Idents)
  <2>1. i \in DOMAIN prog /\ prog[i][1] \in Node /\ prog[i][1].k = "karya"
    BY <1>1 DEF FunctionItems
  <2>2. prog[i][1] \in [k: {"karya"}, x: Idents, params: Seq(Idents), purnanks: SUBSET Nat]
    BY <2>1 DEF Node, Simple, Decl, Jump, Opener
  <2>3. QED
    BY <1>1, <2>1, <2>2
<1>3. FunctionNames(prog) = {prog[i][1].x : i \in FunctionItems(prog)}
  BY DEF FunctionNames, FunctionItems
<1>4. ASSUME NEW f \in FunctionNames(prog)
      PROVE  Len(prog[FirstOf(prog, f)][1].params) \in Nat
  <2> DEFINE T == {i \in FunctionItems(prog) : prog[i][1].x = f}
  <2>1. T \in SUBSET Nat /\ T # {}
    BY <1>2, <1>3
  <2>2. Min(T) \in T
    BY <2>1, MinOfNaturals
  <2>3. FirstOf(prog, f) \in FunctionItems(prog)
    BY <2>2 DEF FirstOf
  <2>4. prog[FirstOf(prog, f)][1].params \in Seq(Idents)
    BY <1>2, <2>3
  <2>5. QED
    BY <2>4
<1>5. DOMAIN functions' \subseteq Idents /\ \A f \in DOMAIN functions' : functions'[f] \in Nat
  BY <1>2, <1>3, <1>4 DEF CollectFunctionSignatures
<1>6. TypeOK'
  BY <1>5 DEF IInv, TypeOK, CollectFunctionSignatures
<1>7. PlaceIsInProgram' /\ CountersMatchFrames' /\ ScopesMatchFrames'
  BY DEF IInv, PlaceIsInProgram, CountersMatchFrames, ScopesMatchFrames,
         CollectFunctionSignatures
<1>8. OuterKept
  BY DEF OuterKept, CollectFunctionSignatures
<1>9. QED
  BY <1>6, <1>7, <1>8 DEF IInv

(* The visits that neither open nor close a block.                         *)
LEMMA SimpleKeeps ==
  ASSUME IInv, VisitSimple
  PROVE  IInv' /\ OuterKept
<1>1. node \in Node /\ item <= Len(prog) /\ PlaceIsInProgram
  BY NodeIsNode DEF IInv, VisitSimple, Visiting
<1>2. node \in Simple
  BY <1>1 DEF VisitSimple, SimpleKinds, Node, Jump, Opener
<1>3. <<item, pc, Plain>> \in Nat \X Nat \X Nat /\ scopes \in Scopes
  BY DEF IInv, TypeOK, Plain, Scopes
<1>4. /\ scopes' \in Scopes
      /\ Len(scopes') = Len(scopes)
      /\ \A i \in 1..(Len(scopes) - 1) : scopes'[i] = scopes[i]
  BY <1>2, <1>3, SimpleScopesInnermost DEF VisitSimple
<1>5. PlaceIsInProgram'
  BY <1>1, AdvanceStays DEF VisitSimple
<1>6. TypeOK'
  BY <1>4, <1>5 DEF IInv, TypeOK, VisitSimple, PlaceIsInProgram, Scopes
<1>7. CountersMatchFrames' /\ ScopesMatchFrames'
  BY <1>4 DEF IInv, CountersMatchFrames, ScopesMatchFrames, VisitSimple
<1>8. OuterKept
  BY <1>3, <1>4 DEF OuterKept, Scopes
<1>9. QED
  BY <1>5, <1>6, <1>7, <1>8 DEF IInv

(* thamba, pudhe, partav and a function that is nested only report.        *)
LEMMA JumpsKeep ==
  ASSUME IInv, VisitLoopJump \/ VisitReturn \/ RejectNestedFunction
  PROVE  IInv' /\ OuterKept
<1>1. item <= Len(prog) /\ PlaceIsInProgram
  BY DEF IInv, VisitLoopJump, VisitReturn, RejectNestedFunction, Visiting
<1>2. UNCHANGED <<prog, phase, scopes, functions, loopDepth, funcDepth, frames>>
  BY DEF VisitLoopJump, VisitReturn, RejectNestedFunction
<1>3. PlaceIsInProgram'
  <2>1. CASE VisitLoopJump \/ VisitReturn
    BY <1>1, <2>1, AdvanceStays DEF VisitLoopJump, VisitReturn
  <2>2. CASE RejectNestedFunction
    <3>1. prog \in Seq(Seq(Node)) /\ IsTree(prog)
      BY ProgramsAssumption DEF IInv, PlaceIsInProgram, Program
    <3>2. item \in DOMAIN prog /\ pc \in DOMAIN prog[item]
      BY <1>1, <3>1 DEF PlaceIsInProgram
    <3>3. prog[item][pc].k \in OpenKinds
      BY <2>2 DEF RejectNestedFunction, node, OpenKinds
    <3>4. \E j \in (pc + 1)..Len(prog[item]) : Closes(prog[item], pc, j)
      BY <3>1, <3>2, <3>3 DEF IsTree
    <3>5. CloseOf(prog[item], pc) \in (pc + 1)..Len(prog[item])
      BY <3>4 DEF CloseOf
    <3>6. CloseOf(prog[item], pc) + 1 \in Nat \ {0}
      BY <3>1, <3>2, <3>5
    <3>7. QED
      BY <1>1, <1>2, <2>2, <3>6, GoToStays DEF RejectNestedFunction, SkipNested
  <2>3. QED
    BY <2>1, <2>2
<1>4. TypeOK'
  BY <1>2, <1>3 DEF IInv, TypeOK, PlaceIsInProgram
<1>5. CountersMatchFrames' /\ ScopesMatchFrames'
  BY <1>2 DEF IInv, CountersMatchFrames, ScopesMatchFrames
<1>6. OuterKept
  BY <1>2 DEF OuterKept
<1>7. QED
  BY <1>3, <1>4, <1>5, <1>6 DEF IInv

(* The visits that open a block.                                           *)
LEMMA PlainBlocksKeep ==
  ASSUME IInv, EnterBlock \/ EnterWhile \/ EnterSwitch
  PROVE  IInv' /\ OuterKept
<1>1. /\ item <= Len(prog) /\ PlaceIsInProgram /\ phase = "visit"
      /\ frames' = Append(frames, node.k) /\ node.k \in OpenKinds
      /\ node.k \notin {"pratyek", "karya"}
      /\ UNCHANGED <<prog, phase, functions, funcDepth>>
      /\ Advance
  BY DEF IInv, EnterBlock, EnterWhile, EnterSwitch, Visiting, Push, OpenKinds
<1>2. PlaceIsInProgram'
  BY <1>1, AdvanceStays
<1>3. scopes \in Scopes
  BY DEF IInv, TypeOK, Scopes
<1>4. scopes' = (IF node.k = "paryay" THEN scopes ELSE Append(scopes, {}))
  BY DEF EnterBlock, EnterWhile, EnterSwitch, PushScope
<1>5. /\ scopes' \in Scopes
      /\ Len(scopes') = Len(scopes) + (IF node.k = "paryay" THEN 0 ELSE 1)
      /\ \A i \in DOMAIN scopes : scopes'[i] = scopes[i]
  <2>1. CASE node.k = "paryay"
    BY <1>3, <1>4, <2>1 DEF Scopes
  <2>2. CASE node.k # "paryay"
    BY <1>3, <1>4, <2>2, AppendKeeps
  <2>3. QED
    BY <2>1, <2>2
<1>6. loopDepth' = loopDepth + (IF node.k \in {"jovar", "pratyek"} THEN 1 ELSE 0)
  <2>1. loopDepth \in Nat
    BY DEF IInv, TypeOK
  <2>2. QED
    BY <2>1 DEF EnterBlock, EnterWhile, EnterSwitch
<1>7. funcDepth' = funcDepth + (IF node.k = "karya" THEN 1 ELSE 0)
  BY <1>1 DEF IInv, TypeOK
<1>8. /\ CountersMatchFrames' /\ ScopesMatchFrames' /\ frames' \in Seq(OpenKinds)
      /\ loopDepth' \in Nat /\ funcDepth' \in Nat
  BY <1>1, <1>5, <1>6, <1>7, PushMatches DEF IInv
<1>9. TypeOK'
  BY <1>1, <1>2, <1>5, <1>8 DEF IInv, TypeOK, PlaceIsInProgram, Scopes
<1>10. QED
  BY <1>2, <1>5, <1>8, <1>9 DEF IInv, OuterKept

(* A pratyek opens two scopes and counts as one loop.                      *)
LEMMA ForKeeps ==
  ASSUME IInv, EnterFor
  PROVE  IInv' /\ OuterKept
<1> DEFINE header == PushScope(scopes)
           inside == SimpleScopes(header, node.init, <<item, pc, InInit>>)
<1>1. /\ item <= Len(prog) /\ PlaceIsInProgram /\ phase = "visit"
      /\ node.k = "pratyek"
      /\ frames' = Append(frames, node.k)
      /\ scopes' = Append(inside, {})
      /\ loopDepth' = loopDepth + 1
      /\ UNCHANGED <<prog, phase, functions, funcDepth>>
      /\ Advance
  BY DEF IInv, EnterFor, Visiting, Push, PushScope
<1>2. PlaceIsInProgram'
  BY <1>1, AdvanceStays
<1>3. node \in [k: {"pratyek"}, init: Simple, cond: Expr, step: Simple]
  BY <1>1, NodeIsNode DEF Node, Simple, Decl, Jump, Opener
<1>4. /\ scopes \in Scopes /\ loopDepth \in Nat /\ funcDepth \in Nat
      /\ <<item, pc, InInit>> \in Nat \X Nat \X Nat
  BY DEF IInv, TypeOK, Scopes, InInit
<1>5. /\ header \in Scopes /\ Len(header) = Len(scopes) + 1
      /\ \A i \in DOMAIN scopes : header[i] = scopes[i]
  BY <1>4, AppendKeeps DEF PushScope
<1>6. /\ inside \in Scopes /\ Len(inside) = Len(header)
      /\ \A i \in 1..(Len(header) - 1) : inside[i] = header[i]
  <2> HIDE DEF header
  <2>1. node.init \in Simple
    BY <1>3
  <2>2. QED
    BY <1>4, <1>5, <2>1, SimpleScopesInnermost
<1>7. /\ scopes' \in Scopes /\ Len(scopes') = Len(inside) + 1
      /\ \A i \in DOMAIN inside : scopes'[i] = inside[i]
  <2> HIDE DEF inside
  <2> QED  BY <1>1, <1>6, AppendKeeps
<1> HIDE DEF header, inside
<1>8. /\ Len(scopes') = Len(scopes) + 2
      /\ \A i \in DOMAIN scopes : scopes'[i] = scopes[i]
  BY <1>4, <1>5, <1>6, <1>7 DEF Scopes
<1>9. /\ CountersMatchFrames' /\ ScopesMatchFrames' /\ frames' \in Seq(OpenKinds)
      /\ loopDepth' \in Nat /\ funcDepth' \in Nat
  <2>1. /\ node.k \in OpenKinds
        /\ loopDepth' = loopDepth + (IF node.k \in {"jovar", "pratyek"} THEN 1 ELSE 0)
        /\ funcDepth' = funcDepth + (IF node.k = "karya" THEN 1 ELSE 0)
        /\ Len(scopes') = Len(scopes) + (IF node.k = "paryay" THEN 0
                                         ELSE IF node.k = "pratyek" THEN 2 ELSE 1)
    BY <1>1, <1>4, <1>8 DEF OpenKinds
  <2>2. QED
    BY <1>1, <2>1, PushMatches DEF IInv
<1>10. TypeOK'
  BY <1>1, <1>2, <1>7, <1>9 DEF IInv, TypeOK, PlaceIsInProgram, Scopes
<1>11. QED
  BY <1>2, <1>8, <1>9, <1>10 DEF IInv, OuterKept

(* A karya opens one scope and counts as one function.                     *)
LEMMA FunctionKeeps ==
  ASSUME IInv, EnterFunction
  PROVE  IInv' /\ OuterKept
<1> DEFINE new == {Param(j) : j \in FirstParams}
<1>1. /\ item <= Len(prog) /\ PlaceIsInProgram /\ phase = "visit"
      /\ node.k = "karya"
      /\ frames' = Append(frames, node.k)
      /\ scopes' = Append(scopes, new)
      /\ funcDepth' = funcDepth + 1
      /\ UNCHANGED <<prog, phase, functions, loopDepth>>
      /\ Advance
  BY DEF IInv, EnterFunction, Visiting, Push
<1>2. PlaceIsInProgram'
  BY <1>1, AdvanceStays
<1>3. node \in [k: {"karya"}, x: Idents, params: Seq(Idents), purnanks: SUBSET Nat]
  BY <1>1, NodeIsNode DEF Node, Simple, Decl, Jump, Opener
<1>4. scopes \in Scopes /\ loopDepth \in Nat /\ funcDepth \in Nat
  BY DEF IInv, TypeOK, Scopes
<1>5. ASSUME NEW j \in FirstParams
      PROVE  Param(j) \in VarInfos
  <2>1. j \in DOMAIN node.params /\ node.params \in Seq(Idents)
    BY <1>3 DEF FirstParams
  <2>2. node.params[j] \in Idents /\ j \in Nat
    BY <2>1
  <2>3. item \in Nat /\ pc \in Nat
    BY DEF IInv, TypeOK
  <2>4. QED
    BY <2>2, <2>3 DEF Param, VarInfos
<1>6. new \in SUBSET VarInfos
  BY <1>5
<1>7. /\ scopes' \in Scopes /\ Len(scopes') = Len(scopes) + 1
      /\ \A i \in DOMAIN scopes : scopes'[i] = scopes[i]
  <2> HIDE DEF new
  <2> QED  BY <1>1, <1>4, <1>6, AppendKeeps
<1>8. /\ CountersMatchFrames' /\ ScopesMatchFrames' /\ frames' \in Seq(OpenKinds)
      /\ loopDepth' \in Nat /\ funcDepth' \in Nat
  <2>1. /\ node.k \in OpenKinds
        /\ loopDepth' = loopDepth + (IF node.k \in {"jovar", "pratyek"} THEN 1 ELSE 0)
        /\ funcDepth' = funcDepth + (IF node.k = "karya" THEN 1 ELSE 0)
        /\ Len(scopes') = Len(scopes) + (IF node.k = "paryay" THEN 0
                                         ELSE IF node.k = "pratyek" THEN 2 ELSE 1)
    BY <1>1, <1>4, <1>7 DEF OpenKinds
  <2>2. QED
    BY <1>1, <2>1, PushMatches DEF IInv
<1>9. TypeOK'
  BY <1>1, <1>2, <1>7, <1>8 DEF IInv, TypeOK, PlaceIsInProgram, Scopes
<1>10. QED
  BY <1>2, <1>7, <1>8, <1>9 DEF IInv, OuterKept

(* The end of a block, and of the walk.                                    *)
LEMMA LeaveKeeps ==
  ASSUME IInv, LeaveBlock
  PROVE  IInv' /\ OuterKept
<1>1. /\ item <= Len(prog) /\ PlaceIsInProgram /\ phase = "visit"
      /\ UNCHANGED <<prog, phase, functions>>
      /\ Advance
  BY DEF IInv, LeaveBlock, Visiting
<1>2. PlaceIsInProgram'
  BY <1>1, AdvanceStays
<1>3. /\ CountersMatchFrames' /\ ScopesMatchFrames' /\ frames' \in Seq(OpenKinds)
      /\ loopDepth' \in Nat /\ funcDepth' \in Nat /\ scopes' \in Scopes
      /\ \A i \in 1..Len(scopes') : scopes'[i] = scopes[i]
  BY <1>1, PopMatches DEF IInv, LeaveBlock
<1>4. TypeOK'
  BY <1>1, <1>2, <1>3 DEF IInv, TypeOK, PlaceIsInProgram, Scopes
<1>5. QED
  BY <1>2, <1>3, <1>4 DEF IInv, OuterKept, Scopes

(* The end of analyze().                                                   *)
LEMMA FinishKeeps ==
  ASSUME IInv, Finish
  PROVE  IInv' /\ OuterKept
<1>1. scopes \in Scopes
  BY DEF IInv, TypeOK, Scopes
<1>2. /\ scopes' \in Scopes
      /\ Len(scopes') = IF scopes = <<>> THEN 0 ELSE Len(scopes) - 1
      /\ \A i \in 1..(Len(scopes) - 1) : scopes'[i] = scopes[i]
  BY <1>1, FrontProperties DEF Finish, PopScope, Scopes
<1>3. TypeOK'
  BY <1>2 DEF IInv, TypeOK, Finish, Scopes
<1>4. PlaceIsInProgram' /\ CountersMatchFrames' /\ ScopesMatchFrames'
  BY DEF IInv, PlaceIsInProgram, CountersMatchFrames, ScopesMatchFrames, Finish
<1>5. OuterKept
  BY <1>1, <1>2 DEF OuterKept, Scopes
<1>6. QED
  BY <1>3, <1>4, <1>5 DEF IInv

-----------------------------------------------------------------------------
(* Every step, and every stutter, keeps the invariant.                     *)
LEMMA StepKeeps ==
  ASSUME IInv, [Next]_vars
  PROVE  IInv' /\ [OuterKept]_vars
<1>1. CASE Next
  <2>1. IInv' /\ OuterKept
    BY <1>1, CollectKeeps, SimpleKeeps, JumpsKeep, PlainBlocksKeep, ForKeeps,
       FunctionKeeps, LeaveKeeps, FinishKeeps DEF Next
  <2>2. QED
    BY <2>1
<1>2. CASE UNCHANGED vars
  BY <1>2 DEF vars, IInv, TypeOK, PlaceIsInProgram, CountersMatchFrames,
              ScopesMatchFrames
<1>3. QED
  BY <1>1, <1>2

(* The inductive invariant holds of every analysis of every program.       *)
THEOREM Invariance == Spec => []IInv
<1>1. IInv /\ [Next]_vars => IInv'
  BY StepKeeps
<1>2. QED
  BY <1>1, InitEstablishes, PTL DEF Spec

(* Every variable keeps its type: the depth counters, unsigned in the      *)
(* code, are never decremented below zero.                                 *)
THEOREM TypeCorrectness == Spec => []TypeOK
<1>1. IInv => TypeOK
  BY DEF IInv
<1>2. QED
  BY <1>1, Invariance, PTL

(* What visitStmt() decides from the counters, whether thamba, pudhe and   *)
(* partav are legal, it decides as if it had looked at the blocks around.  *)
THEOREM CountersCorrect == Spec => []CountersMatchFrames
<1>1. IInv => CountersMatchFrames
  BY DEF IInv
<1>2. QED
  BY <1>1, Invariance, PTL

(* The scope stack has the scopes of the blocks around and is never empty  *)
(* while the walk goes on.                                                 *)
THEOREM ScopesCorrect == Spec => []ScopesMatchFrames
<1>1. IInv => ScopesMatchFrames
  BY DEF IInv
<1>2. QED
  BY <1>1, Invariance, PTL

(* No visit alters a scope other than the innermost.                       *)
THEOREM OuterScopesSafe == Spec => OuterScopesUntouched
<1>1. IInv /\ [Next]_vars => [OuterKept]_vars
  BY StepKeeps
<1>2. Spec => [][OuterKept]_vars
  BY <1>1, Invariance, PTL DEF Spec
<1>3. QED
  BY <1>2 DEF OuterKept, OuterScopesUntouched

-----------------------------------------------------------------------------
(* The scopes hold the declarations met.                                   *)

(* What a scope keeps of a declaration.                                    *)
Seen(d) ==
  [name |-> d.name, ahe |-> d.ahe, purnank |-> d.purnank, site |-> d.site]

Places == Nat \X Nat \X Nat

(* Blocks that are open at the same time are ordered by how deep they are, *)
(* the header of a for around its body.                                    *)
Rank(b) == 2 * b[2] - b[3]

(* Scope a of sc holds the declarations of D that are in block home[a],    *)
(* and those of an inner scope come after those of an outer one.           *)
Mirrors(D, sc, home) ==
  /\ sc \in Scopes /\ home \in Seq(Places) /\ Len(home) = Len(sc)
  /\ \A a, b \in 1..Len(sc) : a < b => Rank(home[a]) < Rank(home[b])
  /\ \A a \in 1..Len(sc) : sc[a] = {Seen(d) : d \in {c \in D : c.block = home[a]}}
  /\ \A a, b \in 1..Len(sc) : a < b =>
       \A c, d \in D : c.block = home[a] /\ d.block = home[b] => Before(c.site, d.site)

Range1(home) == {home[a] : a \in 1..Len(home)}

LEMMA RankIsNumber ==
  ASSUME NEW b \in Places
  PROVE  Rank(b) \in Int
<1>1. b[2] \in Nat /\ b[3] \in Nat
  BY DEF Places
<1>2. QED
  BY <1>1 DEF Rank

(* The order of places is one.                                             *)
LEMMA BeforeIsOrder ==
  ASSUME NEW a \in Places, NEW b \in Places, Before(a, b)
  PROVE  ~Before(b, a) /\ a # b
<1>1. /\ a[1] \in Nat /\ a[2] \in Nat /\ a[3] \in Nat
      /\ b[1] \in Nat /\ b[2] \in Nat /\ b[3] \in Nat
  BY DEF Places
<1>2. QED
  BY <1>1 DEF Before

(* find() gives the last of the declarations of a name in the blocks that  *)
(* have a scope.                                                           *)
LEMMA FindIsLast ==
  ASSUME NEW D, NEW sc, NEW home, Mirrors(D, sc, home),
         \A c, d \in D : c.name = d.name /\ c.block = d.block => c = d,
         \A d \in D : d.site \in Places,
         NEW x
  PROVE  Find(sc, x) =
           {Seen(d) : d \in LastOf({c \in D : c.name = x /\ c.block \in Range1(home)})}
<1> DEFINE E == {c \in D : c.name = x /\ c.block \in Range1(home)}
           hits == {i \in DOMAIN sc : Named(sc[i], x) # {}}
<1>1. /\ sc \in Scopes /\ Len(sc) \in Nat /\ DOMAIN sc = 1..Len(sc)
      /\ Range1(home) = {home[a] : a \in 1..Len(sc)}
  BY DEF Mirrors, Scopes, Range1
<1>2. ASSUME NEW a \in 1..Len(sc)
      PROVE  Named(sc[a], x) = {Seen(d) : d \in {c \in E : c.block = home[a]}}
  <2>1. sc[a] = {Seen(d) : d \in {c \in D : c.block = home[a]}}
    BY DEF Mirrors
  <2>2. \A d : Seen(d).name = d.name
    BY DEF Seen
  <2>3. home[a] \in Range1(home)
    BY <1>1
  <2>4. {c \in E : c.block = home[a]} = {c \in D : c.name = x /\ c.block = home[a]}
    BY <2>3
  <2>5. Named(sc[a], x) =
          {Seen(d) : d \in {c \in D : c.name = x /\ c.block = home[a]}}
    BY <2>1, <2>2 DEF Named
  <2>6. QED
    BY <2>4, <2>5
<1>3. ASSUME NEW c \in E
      PROVE  \E a \in hits : c.block = home[a]
  <2>1. PICK a \in 1..Len(sc) : c.block = home[a]
    BY <1>1
  <2>2. Seen(c) \in Named(sc[a], x)
    BY <1>2, <2>1
  <2>3. QED
    BY <1>1, <2>1, <2>2
<1>4. CASE hits = {}
  <2>1. E = {}
    BY <1>3, <1>4
  <2>2. Find(sc, x) = {}
    BY <1>4 DEF Find
  <2>3. QED
    BY <2>1, <2>2 DEF LastOf
<1>5. CASE hits # {}
  <2> DEFINE m == Max(hits)
  <2>1. m \in hits /\ \A a \in hits : m >= a
    <3>1. hits \in SUBSET (1..Len(sc))
      BY <1>1
    <3> HIDE DEF hits
    <3>2. QED
      BY <1>1, <1>5, <3>1, MaxOfPositions
  <2>2. Find(sc, x) = Named(sc[m], x)
    BY <1>5 DEF Find
  <2>3. m \in 1..Len(sc) /\ Named(sc[m], x) # {}
    BY <1>1, <2>1
  <2> HIDE DEF m
  <2>4. PICK d \in E : d.block = home[m]
    BY <1>2, <2>3
  <2>5. \A c \in E : c.block = home[m] => c = d
    BY <2>4
  <2>6. Named(sc[m], x) = {Seen(d)}
    <3>1. {c \in E : c.block = home[m]} = {d}
      BY <2>4, <2>5
    <3>2. Named(sc[m], x) = {Seen(c) : c \in {d}}
      BY <1>2, <2>3, <3>1
    <3>3. QED
      BY <3>2
  <2>7. ASSUME NEW c \in E PROVE c = d \/ Before(c.site, d.site)
    <3>1. PICK a \in hits : c.block = home[a]
      BY <1>3
    <3>2. a \in 1..Len(sc) /\ (a = m \/ a < m)
      BY <1>1, <2>1, <2>3
    <3>3. CASE a = m
      BY <2>5, <3>1, <3>3
    <3>4. CASE a < m
      BY <2>3, <2>4, <3>1, <3>2, <3>4 DEF Mirrors
    <3>5. QED
      BY <3>2, <3>3, <3>4
  <2>8. LastOf(E) = {d}
    <3>1. d \in LastOf(E)
      BY <2>7 DEF LastOf
    <3>2. ASSUME NEW e \in LastOf(E) PROVE e = d
      <4>1. e \in E /\ (d = e \/ Before(d.site, e.site))
        BY DEF LastOf
      <4>2. e = d \/ Before(e.site, d.site)
        BY <2>7, <4>1
      <4>3. e.site \in Places /\ d.site \in Places
        BY <4>1
      <4>4. QED
        BY <4>1, <4>2, <4>3, BeforeIsOrder
    <3>3. QED
      BY <3>1, <3>2
  <2>9. QED
    BY <2>2, <2>6, <2>8
<1>6. QED
  BY <1>4, <1>5

(* Opening a block that is deeper than those open, with what it declares.  *)
LEMMA MirrorsPush ==
  ASSUME NEW D, NEW sc, NEW home, Mirrors(D, sc, home),
         NEW b \in Places, \A a \in 1..Len(sc) : Rank(home[a]) < Rank(b),
         \A c \in D : c.block # b,
         NEW P, \A d \in P : d.block = b /\ Seen(d) \in VarInfos,
         \A c \in D, d \in P : Before(c.site, d.site)
  PROVE  Mirrors(D \cup P, Append(sc, {Seen(d) : d \in P}), Append(home, b))
<1> DEFINE new == {Seen(d) : d \in P}
           sc1 == Append(sc, new)
           home1 == Append(home, b)
           n == Len(sc)
<1>1. /\ sc \in Seq(SUBSET VarInfos) /\ home \in Seq(Places)
      /\ n \in Nat /\ Len(home) = n /\ new \in SUBSET VarInfos
  BY DEF Mirrors, Scopes
<1>2. /\ sc1 \in Seq(SUBSET VarInfos) /\ Len(sc1) = n + 1
      /\ \A a \in 1..n : sc1[a] = sc[a]
      /\ sc1[n + 1] = new
  <2> HIDE DEF new
  <2>1. QED
    BY <1>1
<1>3. /\ home1 \in Seq(Places) /\ Len(home1) = n + 1
      /\ \A a \in 1..n : home1[a] = home[a]
      /\ home1[n + 1] = b
  BY <1>1
<1>4. \A a \in 1..(n + 1) : a \in 1..n \/ a = n + 1
  BY <1>1
<1> HIDE DEF sc1, home1, n
<1>5. \A a \in 1..n : home[a] # b
  <2>1. \A a \in 1..n : Rank(home[a]) < Rank(b) /\ Rank(b) \in Int
    BY <1>1 DEF n, Rank, Places
  <2>2. QED
    BY <2>1
<1>6. \A a, c \in 1..(n + 1) : a < c => Rank(home1[a]) < Rank(home1[c])
  <2> SUFFICES ASSUME NEW a \in 1..(n + 1), NEW c \in 1..(n + 1), a < c
               PROVE  Rank(home1[a]) < Rank(home1[c])
    OBVIOUS
  <2>1. a \in 1..n
    BY <1>1, <1>4
  <2>2. CASE c = n + 1
    BY <1>3, <2>1, <2>2 DEF n
  <2>3. CASE c \in 1..n
    BY <1>3, <2>1, <2>3 DEF Mirrors, n
  <2>4. QED
    BY <1>4, <2>2, <2>3
<1>7. ASSUME NEW a \in 1..(n + 1)
      PROVE  sc1[a] = {Seen(d) : d \in {c \in D \cup P : c.block = home1[a]}}
  <2>1. CASE a \in 1..n
    <3>1. {c \in D \cup P : c.block = home1[a]} = {c \in D : c.block = home[a]}
      BY <1>3, <1>5, <2>1
    <3>2. sc[a] = {Seen(d) : d \in {c \in D : c.block = home[a]}}
      BY <2>1 DEF Mirrors, n
    <3>3. QED
      BY <1>2, <2>1, <3>1, <3>2
  <2>2. CASE a = n + 1
    <3>1. {c \in D \cup P : c.block = home1[a]} = P
      BY <1>3, <2>2
    <3>2. QED
      BY <1>2, <2>2, <3>1
  <2>3. QED
    BY <1>4, <2>1, <2>2
<1>8. ASSUME NEW a \in 1..(n + 1), NEW g \in 1..(n + 1), a < g,
             NEW c \in D \cup P, NEW d \in D \cup P,
             c.block = home1[a], d.block = home1[g]
      PROVE  Before(c.site, d.site)
  <2>1. a \in 1..n /\ home1[a] = home[a]
    BY <1>1, <1>3, <1>4, <1>8
  <2>2. c \in D
    BY <1>5, <1>8, <2>1
  <2>3. CASE g = n + 1
    <3>1. d \in P
      BY <1>3, <1>8, <2>3
    <3>2. QED
      BY <2>2, <3>1
  <2>4. CASE g \in 1..n
    <3>1. d \in D /\ d.block = home[g]
      BY <1>3, <1>5, <1>8, <2>4
    <3>2. QED
      BY <1>8, <2>1, <2>2, <2>4, <3>1 DEF Mirrors, n
  <2>5. QED
    BY <1>4, <2>3, <2>4
<1>9. Mirrors(D \cup P, sc1, home1)
  BY <1>2, <1>3, <1>6, <1>7, <1>8, Zenon DEF Mirrors, Scopes
<1>10. QED
  BY <1>9 DEF sc1, home1

(* Declaring in the innermost block.                                       *)
LEMMA MirrorsDeclare ==
  ASSUME NEW D, NEW sc, NEW home, Mirrors(D, sc, home), sc # <<>>,
         NEW v, v.block = home[Len(sc)], Seen(v) \in VarInfos,
         \A c \in D : Before(c.site, v.site)
  PROVE  Mirrors(D \cup {v}, [sc EXCEPT ![Len(sc)] = @ \cup {Seen(v)}], home)
<1> DEFINE sc1 == [sc EXCEPT ![Len(sc)] = @ \cup {Seen(v)}]
           n == Len(sc)
<1>1. /\ sc \in Seq(SUBSET VarInfos) /\ home \in Seq(Places)
      /\ n \in Nat \ {0} /\ Len(home) = n /\ DOMAIN sc = 1..n
  BY DEF Mirrors, Scopes
<1>2. /\ sc1 \in Seq(SUBSET VarInfos) /\ Len(sc1) = n
      /\ \A a \in 1..n : a # n => sc1[a] = sc[a]
      /\ sc1[n] = sc[n] \cup {Seen(v)}
  <2>1. sc[n] \cup {Seen(v)} \in SUBSET VarInfos
    BY <1>1
  <2>2. sc1 = [sc EXCEPT ![n] = sc[n] \cup {Seen(v)}]
    OBVIOUS
  <2> HIDE DEF sc1
  <2>3. QED
    BY <1>1, <2>1, <2>2
<1>3. \A a, b \in 1..n : a < b => Rank(home[a]) < Rank(home[b])
  BY DEF Mirrors
<1> HIDE DEF sc1, n
<1>4. \A a \in 1..n : a # n => home[a] # home[n]
  <2> SUFFICES ASSUME NEW a \in 1..n, a # n PROVE home[a] # home[n]
    OBVIOUS
  <2>1. a < n /\ n \in 1..n
    BY <1>1
  <2>2. Rank(home[a]) < Rank(home[n]) /\ Rank(home[n]) \in Int
    <3>1. Rank(home[a]) < Rank(home[n])
      BY <1>3, <2>1
    <3>2. home[n] \in Places
      BY <1>1, <2>1
    <3>3. QED
      BY <3>1, <3>2, RankIsNumber
  <2>3. QED
    BY <2>2
<1>5. ASSUME NEW a \in 1..n
      PROVE  sc1[a] = {Seen(d) : d \in {c \in D \cup {v} : c.block = home[a]}}
  <2>1. sc[a] = {Seen(d) : d \in {c \in D : c.block = home[a]}}
    BY DEF Mirrors, n
  <2>2. CASE a = n
    <3>1. {c \in D \cup {v} : c.block = home[a]} = {c \in D : c.block = home[a]} \cup {v}
      BY <2>2 DEF n
    <3>2. QED
      BY <1>2, <2>1, <2>2, <3>1
  <2>3. CASE a # n
    <3>1. {c \in D \cup {v} : c.block = home[a]} = {c \in D : c.block = home[a]}
      BY <1>4, <2>3 DEF n
    <3>2. QED
      BY <1>2, <2>1, <2>3, <3>1
  <2>4. QED
    BY <2>2, <2>3
<1>6. ASSUME NEW a \in 1..n, NEW g \in 1..n, a < g,
             NEW c \in D \cup {v}, NEW d \in D \cup {v},
             c.block = home[a], d.block = home[g]
      PROVE  Before(c.site, d.site)
  <2>1. a # n
    BY <1>1, <1>6
  <2>2. c \in D
    BY <1>4, <1>6, <2>1 DEF n
  <2>3. CASE d = v
    BY <2>2, <2>3
  <2>4. CASE d \in D
    BY <1>6, <2>2, <2>4 DEF Mirrors, n
  <2>5. QED
    BY <2>3, <2>4
<1>7. Mirrors(D \cup {v}, sc1, home)
  BY <1>1, <1>2, <1>3, <1>5, <1>6, Zenon DEF Mirrors, Scopes
<1>8. QED
  BY <1>7 DEF sc1

(* Closing the innermost block.                                            *)
LEMMA MirrorsPop ==
  ASSUME NEW D, NEW sc, NEW home, Mirrors(D, sc, home), sc # <<>>
  PROVE  Mirrors(D, Front(sc), Front(home))
<1> DEFINE n == Len(sc)
           sc1 == Front(sc)
           home1 == Front(home)
<1>1. /\ sc \in Seq(SUBSET VarInfos) /\ home \in Seq(Places)
      /\ n \in Nat \ {0} /\ Len(home) = n /\ home # <<>>
  BY DEF Mirrors, Scopes
<1>2. /\ sc1 \in Seq(SUBSET VarInfos) /\ Len(sc1) = n - 1
      /\ \A a \in 1..(n - 1) : sc1[a] = sc[a]
      /\ home1 \in Seq(Places) /\ Len(home1) = n - 1
      /\ \A a \in 1..(n - 1) : home1[a] = home[a]
  BY <1>1, FrontProperties
<1>3. \A a \in 1..(n - 1) : a \in 1..n
  BY <1>1
<1> HIDE DEF sc1, home1, n
<1>4. \A a, b \in 1..(n - 1) : a < b => Rank(home1[a]) < Rank(home1[b])
  BY <1>2, <1>3 DEF Mirrors, n
<1>5. \A a \in 1..(n - 1) :
        sc1[a] = {Seen(d) : d \in {c \in D : c.block = home1[a]}}
  BY <1>2, <1>3 DEF Mirrors, n
<1>6. \A a, b \in 1..(n - 1) : a < b =>
        \A c, d \in D :
          c.block = home1[a] /\ d.block = home1[b] => Before(c.site, d.site)
  BY <1>2, <1>3 DEF Mirrors, n
<1>7. Mirrors(D, sc1, home1)
  BY <1>2, <1>4, <1>5, <1>6, Zenon DEF Mirrors, Scopes
<1>8. QED
  BY <1>7 DEF sc1, home1

(* The deepest of the blocks that are open is the innermost one.           *)
Deepest(B, r) == r \in B /\ \A b \in B : b = r \/ Rank(b) < Rank(r)

LEMMA MirrorsLast ==
  ASSUME NEW D, NEW sc, NEW home, Mirrors(D, sc, home),
         NEW r, Deepest(Range1(home), r)
  PROVE  /\ sc # <<>> /\ home[Len(sc)] = r
         /\ Range1(Front(home)) = Range1(home) \ {r}
<1> DEFINE n == Len(sc)
<1>1. /\ home \in Seq(Places) /\ sc \in Seq(SUBSET VarInfos)
      /\ n \in Nat /\ Len(home) = n
  BY DEF Mirrors, Scopes
<1>2. PICK m \in 1..n : home[m] = r
  BY <1>1 DEF Range1, Deepest
<1>3. n \in 1..n /\ sc # <<>> /\ home # <<>>
  BY <1>1, <1>2
<1>4. \A a, b \in 1..n : a < b =>
        Rank(home[a]) < Rank(home[b]) /\ Rank(home[a]) \in Int /\ Rank(home[b]) \in Int
  <2>1. \A a \in 1..n : home[a] \in Places
    BY <1>1
  <2>2. \A a, b \in 1..n : a < b => Rank(home[a]) < Rank(home[b])
    BY DEF Mirrors
  <2>3. QED
    BY <2>1, <2>2, RankIsNumber
<1> HIDE DEF n
<1>5. m = n
  <2>1. SUFFICES ASSUME m < n PROVE FALSE
    BY <1>1
  <2>2. /\ Rank(home[m]) < Rank(home[n])
        /\ Rank(home[m]) \in Int /\ Rank(home[n]) \in Int
    BY <1>3, <1>4, <2>1
  <2>3. home[n] \in Range1(home)
    BY <1>1, <1>3 DEF Range1
  <2>4. home[n] = r \/ Rank(home[n]) < Rank(r)
    BY <2>3 DEF Deepest
  <2>5. QED
    BY <1>2, <2>2, <2>4
<1>6. \A a \in 1..(n - 1) : home[a] # r
  <2> SUFFICES ASSUME NEW a \in 1..(n - 1) PROVE home[a] # r
    OBVIOUS
  <2>1. a \in 1..n /\ a < n
    BY <1>1
  <2>2. Rank(home[a]) < Rank(home[n]) /\ Rank(home[a]) \in Int
    BY <1>3, <1>4, <2>1
  <2>3. QED
    BY <1>2, <1>5, <2>2
<1>7. /\ Len(Front(home)) = n - 1
      /\ \A a \in 1..(n - 1) : Front(home)[a] = home[a]
  BY <1>1, <1>3, FrontProperties
<1>8. Range1(Front(home)) = {home[a] : a \in 1..(n - 1)}
  BY <1>7 DEF Range1
<1>9. \A a \in 1..n : a \in 1..(n - 1) \/ a = n
  BY <1>1
<1>10. Range1(Front(home)) = Range1(home) \ {r}
  <2>1. Range1(home) = {home[a] : a \in 1..n}
    BY <1>1 DEF Range1
  <2>2. \A a \in 1..(n - 1) : a \in 1..n
    BY <1>1
  <2>3. QED
    BY <1>2, <1>5, <1>6, <1>8, <1>9, <2>1, <2>2
<1>11. QED
  BY <1>2, <1>3, <1>5, <1>10 DEF n

-----------------------------------------------------------------------------
(* A rule is broken where something is reported.                           *)

(* What find() gives for the names of part n of the node at w is what they *)
(* refer to.                                                               *)
Sees(p, w, n, sc) ==
  \A x : \A b \in BOOLEAN :
    Find(sc, x) = {Seen(d) : d \in Referent(p, w, <<n, x, b>>)}

CallsKnown(p) ==
  \A c \in Idents \X Nat : CallErrors(c) = {} <=> CallIsLegal(p, c)

(* checkUse(), checkAssignable()                                           *)
LEMMA UseErrorsRight ==
  ASSUME NEW p, NEW w, NEW n, NEW sc, Sees(p, w, n, sc), NEW x
  PROVE  /\ UseErrors(sc, x) = {} <=> UseIsLegal(p, w, <<n, x, FALSE>>)
         /\ AssignErrors(sc, x) = {} <=> UseIsLegal(p, w, <<n, x, TRUE>>)
<1>1. \A b \in BOOLEAN : Find(sc, x) = {Seen(d) : d \in Referent(p, w, <<n, x, b>>)}
  BY DEF Sees
<1>2. \A d : Seen(d).ahe = d.ahe
  BY DEF Seen
<1>3. UseErrors(sc, x) = {} <=> Find(sc, x) # {}
  BY DEF UseErrors
<1>4. AssignErrors(sc, x) = {} <=> Find(sc, x) # {} /\ \A v \in Find(sc, x) : ~v.ahe
  BY <1>3 DEF AssignErrors
<1>5. \A b \in BOOLEAN : Find(sc, x) # {} <=> Referent(p, w, <<n, x, b>>) # {}
  BY <1>1
<1>6. (\A v \in Find(sc, x) : ~v.ahe) <=> \A d \in Referent(p, w, <<n, x, TRUE>>) : ~d.ahe
  <2> DEFINE R == Referent(p, w, <<n, x, TRUE>>)
  <2>1. Find(sc, x) = {Seen(d) : d \in R}
    BY <1>1
  <2> HIDE DEF R
  <2>2. (\A v \in Find(sc, x) : ~v.ahe) <=> \A d \in R : ~d.ahe
    BY <1>2, <2>1
  <2>3. QED
    BY <2>2 DEF R
<1>7. QED
  BY <1>3, <1>4, <1>5, <1>6 DEF UseIsLegal

(* visitExpr()                                                             *)
LEMMA ExprErrorsRight ==
  ASSUME NEW p, NEW w, NEW n, NEW sc, Sees(p, w, n, sc), CallsKnown(p),
         NEW e \in Expr
  PROVE  ExprErrors(sc, e) = {} <=>
           /\ \A u \in ExprUses(e, n) : UseIsLegal(p, w, u)
           /\ \A c \in e.calls : CallIsLegal(p, c)
<1>1. ExprErrors(sc, e) = {} <=>
        /\ \A x \in e.uses : UseErrors(sc, x) = {}
        /\ \A x \in e.bumps : AssignErrors(sc, x) = {}
        /\ \A c \in e.calls : CallErrors(c) = {}
  <2> DEFINE us == UNION {UseErrors(sc, x) : x \in e.uses}
             bs == UNION {AssignErrors(sc, x) : x \in e.bumps}
             cs == UNION {CallErrors(c) : c \in e.calls}
  <2>1. us = {} <=> \A x \in e.uses : UseErrors(sc, x) = {}
    OBVIOUS
  <2>2. bs = {} <=> \A x \in e.bumps : AssignErrors(sc, x) = {}
    OBVIOUS
  <2>3. cs = {} <=> \A c \in e.calls : CallErrors(c) = {}
    OBVIOUS
  <2>4. ExprErrors(sc, e) = us \cup bs \cup cs
    BY Zenon DEF ExprErrors
  <2> HIDE DEF us, bs, cs
  <2>5. ExprErrors(sc, e) = {} <=> us = {} /\ bs = {} /\ cs = {}
    BY <2>4
  <2>6. QED
    BY <2>1, <2>2, <2>3, <2>5
<1>2. \A c \in e.calls : c \in Idents \X Nat
  BY DEF Expr
<1>3. (\A c \in e.calls : CallErrors(c) = {}) <=> \A c \in e.calls : CallIsLegal(p, c)
  BY <1>2 DEF CallsKnown
<1>4. (\A u \in ExprUses(e, n) : UseIsLegal(p, w, u)) <=>
        /\ \A x \in e.uses : UseIsLegal(p, w, <<n, x, FALSE>>)
        /\ \A x \in e.bumps : UseIsLegal(p, w, <<n, x, TRUE>>)
  BY DEF ExprUses
<1>5. QED
  BY <1>1, <1>3, <1>4, UseErrorsRight

(* The uses in some expressions.                                          *)
UsesIn(es, n) == UNION {ExprUses(e, n) : e \in es}

LEMMA ExprsErrorsRight ==
  ASSUME NEW p, NEW w, NEW n, NEW sc, Sees(p, w, n, sc), CallsKnown(p),
         NEW es \in SUBSET Expr
  PROVE  ExprsErrors(sc, es) = {} <=>
           /\ \A u \in UsesIn(es, n) : UseIsLegal(p, w, u)
           /\ \A c \in CallsIn(es) : CallIsLegal(p, c)
<1>1. ExprsErrors(sc, es) = {} <=> \A e \in es : ExprErrors(sc, e) = {}
  BY DEF ExprsErrors
<1>2. ASSUME NEW e \in es
      PROVE  ExprErrors(sc, e) = {} <=>
               /\ \A u \in ExprUses(e, n) : UseIsLegal(p, w, u)
               /\ \A c \in e.calls : CallIsLegal(p, c)
  BY ExprErrorsRight
<1>3. (\A c \in CallsIn(es) : CallIsLegal(p, c))
        <=> \A e \in es : \A c \in e.calls : CallIsLegal(p, c)
  BY DEF CallsIn
<1>4. (\A u \in UsesIn(es, n) : UseIsLegal(p, w, u))
        <=> \A e \in es : \A u \in ExprUses(e, n) : UseIsLegal(p, w, u)
  BY DEF UsesIn
<1>5. QED
  BY <1>1, <1>2, <1>3, <1>4

(* visitStmt() on a statement that is one node.                            *)
LEMMA SimpleErrorsRight ==
  ASSUME NEW p, NEW w, NEW n, NEW sc, Sees(p, w, n, sc), CallsKnown(p),
         NEW s \in Simple
  PROVE  SimpleErrors(sc, s) = {} <=>
           /\ \A u \in SimpleUses(s, n) : UseIsLegal(p, w, u)
           /\ \A c \in CallsIn(OwnExprs(s)) : CallIsLegal(p, c)
           /\ PartIsLegal(p, w, n, s)
           /\ s.k = "decl" => ~Redeclares(sc, s.x)
<1> DEFINE uses == UsesIn(OwnExprs(s), n)
           own == /\ \A u \in uses : UseIsLegal(p, w, u)
                  /\ \A c \in CallsIn(OwnExprs(s)) : CallIsLegal(p, c)
<1>1. ExprsErrors(sc, OwnExprs(s)) = {} <=> own
  <2>1. OwnExprs(s) \in SUBSET Expr
    BY SimpleFields
  <2>2. QED
    BY <2>1, ExprsErrorsRight
<1> HIDE DEF own
<1>2. CASE s.k = "decl"
  <2>1. SimpleErrors(sc, s) = {} <=>
          ExprsErrors(sc, OwnExprs(s)) = {} /\ DeclErrors(sc, s) = {}
    BY <1>2 DEF SimpleErrors
  <2>2. DeclErrors(sc, s) = {} <=>
          /\ s.ahe => s.init # NoExpr
          /\ s.purnank => \A e \in s.init : ~e.neg
          /\ ~Redeclares(sc, s.x)
    BY DEF DeclErrors
  <2>3. SimpleUses(s, n) = uses
    BY <1>2 DEF SimpleUses, UsesIn
  <2>4. QED
    BY <1>1, <1>2, <2>1, <2>2, <2>3 DEF PartIsLegal, own
<1>3. CASE s.k = "assign"
  <2>1. SimpleErrors(sc, s) = {} <=>
          ExprsErrors(sc, OwnExprs(s)) = {} /\ AssignmentErrors(sc, s) = {}
    BY <1>3 DEF SimpleErrors
  <2>2. \A d : Seen(d).purnank = d.purnank
    BY DEF Seen
  <2>3. Find(sc, s.x) = {Seen(d) : d \in Referent(p, w, <<n, s.x, TRUE>>)}
    BY DEF Sees
  <2>4. {u \in Find(sc, s.x) : u.purnank /\ s.e.neg} = {} <=>
          (s.e.neg => \A d \in Referent(p, w, <<n, s.x, TRUE>>) : ~d.purnank)
    <3> DEFINE R == Referent(p, w, <<n, s.x, TRUE>>)
    <3>1. Find(sc, s.x) = {Seen(d) : d \in R}
      BY <2>3
    <3> HIDE DEF R
    <3>2. {u \in Find(sc, s.x) : u.purnank /\ s.e.neg} = {} <=>
            (s.e.neg => \A d \in R : ~d.purnank)
      BY <2>2, <3>1
    <3>3. QED
      BY <3>2 DEF R
  <2>5. AssignmentErrors(sc, s) = {} <=>
          /\ AssignErrors(sc, s.x) = {}
          /\ {u \in Find(sc, s.x) : u.purnank /\ s.e.neg} = {}
    BY DEF AssignmentErrors
  <2>6. AssignErrors(sc, s.x) = {} <=> UseIsLegal(p, w, <<n, s.x, TRUE>>)
    BY UseErrorsRight
  <2>7. SimpleUses(s, n) = uses \cup {<<n, s.x, TRUE>>}
    BY <1>3 DEF SimpleUses, UsesIn
  <2>8. PartIsLegal(p, w, n, s) <=>
          (s.e.neg => \A d \in Referent(p, w, <<n, s.x, TRUE>>) : ~d.purnank)
    BY <1>3 DEF PartIsLegal
  <2>9. QED
    BY <1>1, <1>3, <2>1, <2>4, <2>5, <2>6, <2>7, <2>8 DEF own
<1>4. CASE s.k \notin {"decl", "assign"}
  <2>1. SimpleErrors(sc, s) = {} <=> ExprsErrors(sc, OwnExprs(s)) = {}
    BY <1>4 DEF SimpleErrors
  <2>2. SimpleUses(s, n) = uses
    BY <1>4 DEF SimpleUses, UsesIn
  <2>3. QED
    BY <1>1, <1>4, <2>1, <2>2 DEF PartIsLegal, own
<1>5. QED
  BY <1>2, <1>3, <1>4

(* What a part's names are resolved to is what its uses refer to.          *)
PartBindings(p, w, us) ==
  UNION {{<<<<w[1], w[2], u[1]>>, u[2], d.site>> : d \in Referent(p, w, u)} : u \in us}

IsUse(n, u) == u = <<n, u[2], u[3]>> /\ u[3] \in BOOLEAN

LEMMA ResolvedRight ==
  ASSUME NEW p, NEW n, NEW sc, Sees(p, <<item, pc>>, n, sc), NEW names,
         NEW us, \A u \in us : IsUse(n, u),
         names = {u[2] : u \in us}
  PROVE  Resolved(sc, names, n) = PartBindings(p, <<item, pc>>, us)
<1> DEFINE w == <<item, pc>>
           At1(u) == {<<<<item, pc, n>>, u[2], v.site>> : v \in Find(sc, u[2])}
<1>1. ASSUME NEW u \in us
      PROVE  At1(u) = {<<<<w[1], w[2], u[1]>>, u[2], d.site>> : d \in Referent(p, w, u)}
  <2>1. u = <<n, u[2], u[3]>> /\ u[3] \in BOOLEAN
    BY DEF IsUse
  <2>2. Find(sc, u[2]) = {Seen(d) : d \in Referent(p, w, u)}
    BY <2>1 DEF Sees
  <2>3. \A d : Seen(d).site = d.site
    BY DEF Seen
  <2>4. u[1] = n
    BY <2>1
  <2>5. QED
    BY <2>2, <2>3, <2>4
<1>2. Resolved(sc, names, n) = UNION {At1(u) : u \in us}
  BY DEF Resolved
<1>3. QED
  BY <1>1, <1>2 DEF PartBindings

-----------------------------------------------------------------------------
(* What find() sees.                                                       *)

Distinct(D) == \A c, d \in D : c.name = d.name /\ c.block = d.block => c = d

(* The walk is before node q of statement i of p, with these scopes and    *)
(* frames: "open" are the openers of the blocks it is in and "home" the    *)
(* blocks its scopes are of.                                               *)
WalkAt(p, i, q, sc, fs, open, home) ==
  /\ Nesting(p[i], q, open, fs)
  /\ Mirrors(Met(p, i, q), sc, home)
  /\ Range1(home) = Homes(i, p[i], Unclosed(p[i], q))

(* A tree's blocks are closed.                                             *)
LEMMA TreeBracketed ==
  ASSUME NEW p \in Program, IsTree(p), NEW i \in DOMAIN p
  PROVE  Bracketed(p[i]) /\ p[i] \in Seq(Node) /\ p[i] # <<>> /\ IsStatement(p[i])
BY DEF IsTree, Bracketed, Program

(* No two declarations met have the same name and block when each was new. *)
LEMMA MetDistinct ==
  ASSUME NEW p \in Program, NEW i, NEW q,
         \A v \in Visited(p, i, q) : Fresh(p, v)
  PROVE  Distinct(Met(p, i, q))
<1> SUFFICES ASSUME NEW c \in Met(p, i, q), NEW d \in Met(p, i, q),
                    c.name = d.name, c.block = d.block
             PROVE  c = d
  BY DEF Distinct
<1>1. PICK v \in Visited(p, i, q) : c \in DeclarationsAt(p, v)
  BY DEF Met
<1>2. PICK w \in Visited(p, i, q) : d \in DeclarationsAt(p, w)
  BY DEF Met
<1>3. v \in Nodes(p) /\ w \in Nodes(p)
  BY DEF Visited
<1>4. v \in Visited(p, w[1], w[2]) \/ v = w \/ w \in Visited(p, v[1], v[2])
  <2>1. /\ v = <<v[1], v[2]>> /\ v[1] \in Nat /\ v[2] \in Nat
        /\ w = <<w[1], w[2]>> /\ w[1] \in Nat /\ w[2] \in Nat
    BY <1>3, NodeShape
  <2>2. \/ v[1] < w[1] \/ (v[1] = w[1] /\ v[2] < w[2])
        \/ (v[1] = w[1] /\ v[2] = w[2])
        \/ w[1] < v[1] \/ (w[1] = v[1] /\ w[2] < v[2])
    BY <2>1
  <2>3. v[1] = w[1] /\ v[2] = w[2] => v = w
    BY <2>1
  <2>4. QED
    BY <1>3, <2>2, <2>3 DEF Visited
<1>5. c.site = d.site
  <2>1. CASE v \in Visited(p, w[1], w[2]) \/ v = w
    <3>1. c \in Met(p, w[1], w[2]) \cup DeclarationsAt(p, w)
      BY <1>1, <2>1 DEF Met
    <3>2. QED
      BY <1>2, <3>1 DEF Fresh
  <2>2. CASE w \in Visited(p, v[1], v[2])
    <3>1. d \in Met(p, v[1], v[2]) \cup DeclarationsAt(p, v)
      BY <1>2, <2>2 DEF Met
    <3>2. QED
      BY <1>1, <3>1 DEF Fresh
  <2>3. QED
    BY <1>4, <2>1, <2>2
<1>6. QED
  BY <1>1, <1>2, <1>3, <1>5, DeclaredOnce

(* Declarations met have their places before those of the node the walk is *)
(* at, and blocks that began before it.                                    *)
LEMMA MetEarlier ==
  ASSUME NEW p \in Program, NEW w \in Nodes(p), NEW c \in Met(p, w[1], w[2])
  PROVE  /\ c.site \in Places /\ Seen(c) \in VarInfos
         /\ \A h : c.block # <<w[1], w[2], h>>
         /\ \A d \in DeclarationsAt(p, w) : Before(c.site, d.site)
<1>1. PICK v \in Nodes(p) : /\ v[1] < w[1] \/ (v[1] = w[1] /\ v[2] < w[2])
                            /\ c \in DeclarationsAt(p, v)
  BY DEF Met, Visited
<1>2. /\ v[1] \in Nat /\ v[2] \in Nat /\ w[1] \in Nat \ {0} /\ w[2] \in Nat
  BY NodeShape
<1>3. /\ c.site[3] \in Nat /\ c.site = <<v[1], v[2], c.site[3]>>
      /\ c.name \in Idents /\ c.ahe \in BOOLEAN /\ c.purnank \in BOOLEAN
      /\ c.block # TopLevel => c.block[1] = v[1] /\ c.block[2] <= v[2]
  BY <1>1, DeclarationShape
<1>4. c.site \in Places
  BY <1>2, <1>3 DEF Places
<1>5. Seen(c) \in VarInfos
  BY <1>3, <1>4 DEF Seen, VarInfos, Places
<1>6. ASSUME NEW h, c.block = <<w[1], w[2], h>> PROVE FALSE
  <2>1. c.block # TopLevel
    BY <1>2, <1>6 DEF TopLevel
  <2>2. w[1] = v[1] /\ w[2] <= v[2]
    BY <1>3, <1>6, <2>1
  <2>3. QED
    BY <1>1, <1>2, <2>2
<1>7. ASSUME NEW d \in DeclarationsAt(p, w) PROVE Before(c.site, d.site)
  <2>1. d.site = <<w[1], w[2], d.site[3]>>
    BY DeclarationShape
  <2>2. /\ c.site[1] = v[1] /\ c.site[2] = v[2]
        /\ d.site[1] = w[1] /\ d.site[2] = w[2]
    BY <1>3, <2>1
  <2>3. QED
    BY <1>1, <2>2 DEF Before
<1>8. QED
  BY <1>4, <1>5, <1>6, <1>7

(* Scopes that mirror what precedes a part of a node show what its names   *)
(* refer to.                                                               *)
LEMMA MirrorsSee ==
  ASSUME NEW p \in Program, NEW w \in Nodes(p), NEW n \in Nat,
         NEW sc, NEW home, Mirrors(MetBy(p, w, n), sc, home),
         Distinct(MetBy(p, w, n)),
         Range1(home) = Homes(w[1], p[w[1]], Openers(p, w))
                        \cup (IF n > 0 THEN {<<w[1], w[2], 1>>} ELSE {})
  PROVE  Sees(p, w, n, sc)
<1> DEFINE D == MetBy(p, w, n)
<1>1. \A d \in D : d.site \in Places
  <2>1. \A d \in Met(p, w[1], w[2]) : d.site \in Places
    BY MetEarlier
  <2>2. \A d \in DeclarationsAt(p, w) : d.site \in Places
    <3>1. SUFFICES ASSUME NEW d \in DeclarationsAt(p, w) PROVE d.site \in Places
      OBVIOUS
    <3>2. /\ d.site = <<w[1], w[2], d.site[3]>> /\ d.site[3] \in Nat
          /\ w[1] \in Nat /\ w[2] \in Nat
      BY DeclarationShape, NodeShape
    <3>3. QED
      BY <3>2 DEF Places
  <2>3. QED
    BY <2>1, <2>2 DEF MetBy
<1>2. \A c, d \in D : c.name = d.name /\ c.block = d.block => c = d
  BY DEF Distinct
<1> SUFFICES ASSUME NEW x, NEW b \in BOOLEAN
             PROVE  Find(sc, x) = {Seen(d) : d \in Referent(p, w, <<n, x, b>>)}
  BY DEF Sees
<1> DEFINE u == <<n, x, b>>
           E == {c \in D : c.name = x /\ c.block \in Range1(home)}
           F == {d \in MetBy(p, w, u[1]) :
                   /\ d.name = u[2]
                   /\ \/ d.block \in Homes(w[1], p[w[1]], Openers(p, w))
                      \/ u[1] > 0 /\ d.block = <<w[1], w[2], 1>>}
<1>3. u[1] = n /\ u[2] = x
  OBVIOUS
<1>4. Referent(p, w, u) = LastOf(F)
  <2>1. u[1] \in Nat
    BY <1>3
  <2> HIDE DEF u
  <2>2. QED
    BY <2>1, ReferentIsMet
<1>5. Find(sc, x) = {Seen(d) : d \in LastOf(E)}
  <2> HIDE DEF D
  <2>1. Mirrors(D, sc, home)
    BY DEF D
  <2>2. QED
    BY <1>1, <1>2, <2>1, FindIsLast
<1>6. E = F
  <2> HIDE DEF u
  <2>1. \A d : d \in E <=> d \in F
    BY <1>3
  <2>2. QED
    BY <2>1
<1>7. QED
  BY <1>4, <1>5, <1>6

(* Every block the walk is in is deeper than the others in its turn.       *)
LEMMA HomesRanked ==
  ASSUME NEW i \in Nat, NEW t, NEW q \in Nat \ {0}, NEW os \in SUBSET (1..(q - 1)),
         NEW b \in Homes(i, t, os)
  PROVE  b \in Places /\ Rank(b) < 2 * q - 1 /\ b # <<i, q, 0>> /\ b # <<i, q, 1>>
<1>1. CASE b = TopLevel
  <2>1. Rank(TopLevel) = 0 /\ TopLevel \in Places
    BY DEF Rank, TopLevel, Places
  <2>2. 0 < 2 * q - 1
    OBVIOUS
  <2>3. \A h : TopLevel # <<i, q, h>>
    BY DEF TopLevel
  <2>4. QED
    BY <1>1, <2>1, <2>2, <2>3
<1>2. CASE \E o \in os : b = <<i, o, 0>> \/ b = <<i, o, 1>>
  <2>1. PICK o \in os : b = <<i, o, 0>> \/ b = <<i, o, 1>>
    BY <1>2
  <2>2. o \in 1..(q - 1)
    OBVIOUS
  <2>3. b \in Places /\ b[2] = o /\ b[3] \in {0, 1}
    BY <2>1, <2>2 DEF Places
  <2>4. Rank(b) < 2 * q - 1
    BY <2>2, <2>3 DEF Rank
  <2>5. QED
    BY <2>1, <2>2, <2>3, <2>4
<1>3. QED
  BY <1>1, <1>2 DEF Homes

(* Opening one more block adds its own.                                    *)
LEMMA HomesOpen ==
  ASSUME NEW i, NEW t, NEW q, NEW os
  PROVE  /\ t[q].k = "paryay" => Homes(i, t, os \cup {q}) = Homes(i, t, os)
         /\ t[q].k = "pratyek" =>
              Homes(i, t, os \cup {q}) =
                (Homes(i, t, os) \cup {<<i, q, 1>>}) \cup {<<i, q, 0>>}
         /\ t[q].k \notin {"paryay", "pratyek"} =>
              Homes(i, t, os \cup {q}) = Homes(i, t, os) \cup {<<i, q, 0>>}
BY DEF Homes

(* The blocks of the innermost construct are deeper than the others.       *)
LEMMA HomesBelow ==
  ASSUME NEW i \in Nat, NEW q \in Nat \ {0}, NEW os \in SUBSET (1..(q - 1)),
         NEW o \in os, \A r \in os : r <= o, NEW t,
         NEW b \in Homes(i, t, os \ {o})
  PROVE  /\ Rank(b) < Rank(<<i, o, 0>>) /\ b # <<i, o, 0>>
         /\ Rank(b) < Rank(<<i, o, 1>>) /\ b # <<i, o, 1>>
<1>1. o \in Nat \ {0} /\ os \ {o} \in SUBSET (1..(o - 1))
  OBVIOUS
<1>2. b \in Places /\ Rank(b) < 2 * o - 1 /\ b # <<i, o, 0>> /\ b # <<i, o, 1>>
  BY <1>1, HomesRanked
<1>3. Rank(<<i, o, 0>>) = 2 * o /\ Rank(<<i, o, 1>>) = 2 * o - 1
  BY <1>1 DEF Rank
<1>4. Rank(b) \in Int
  BY <1>2, RankIsNumber
<1>5. QED
  BY <1>1, <1>2, <1>3, <1>4

(* The innermost scope is of the block a declaration would be in.          *)
LEMMA WalkInnermost ==
  ASSUME NEW p \in Program, IsTree(p), NEW i \in DOMAIN p, NEW q \in DOMAIN p[i],
         p[i][q].k # "close",
         NEW sc, NEW fs, NEW open, NEW home, WalkAt(p, i, q, sc, fs, open, home)
  PROVE  /\ Openers(p, <<i, q>>) = Unclosed(p[i], q)
         /\ sc # <<>> /\ home[Len(sc)] = BlockOf(p, <<i, q>>)
<1> DEFINE w == <<i, q>>
           os == Openers(p, w)
           r == BlockOf(p, w)
<1>1. /\ w \in Nodes(p) /\ w[1] = i /\ w[2] = q
      /\ i \in Nat \ {0} /\ q \in Nat \ {0} /\ p[i] \in Seq(Node)
  BY NodeAt
<1>2. os = Unclosed(p[i], q)
  <2>1. Bracketed(p[i])
    BY TreeBracketed
  <2>2. QED
    BY <1>1, <2>1, AroundUnclosed DEF Openers
<1>3. os \in SUBSET (1..(q - 1))
  BY <1>2 DEF Unclosed
<1> HIDE DEF w
<1>4. \/ r = TopLevel /\ \A o \in os : p[i][o].k = "paryay"
      \/ \E o \in os : /\ r = <<i, o, 0>> /\ p[i][o].k # "paryay" /\ o \in 1..(q - 1)
                       /\ \A s \in os : p[i][s].k # "paryay" => s <= o
  BY <1>1, BlockOfShape
<1> HIDE DEF os, r
<1>5. Deepest(Homes(i, p[i], os), r)
  <2>1. CASE r = TopLevel /\ \A o \in os : p[i][o].k = "paryay"
    <3>1. Homes(i, p[i], os) = {TopLevel}
      BY <2>1 DEF Homes
    <3>2. QED
      BY <2>1, <3>1 DEF Deepest
  <2>2. CASE r # TopLevel \/ \E o \in os : p[i][o].k # "paryay"
    <3>1. PICK o \in os : /\ r = <<i, o, 0>> /\ p[i][o].k # "paryay" /\ o \in 1..(q - 1)
                          /\ \A s \in os : p[i][s].k # "paryay" => s <= o
      BY <1>4, <2>2
    <3>2. Rank(r) = 2 * o
      BY <3>1 DEF Rank
    <3>3. r \in Homes(i, p[i], os)
      BY <3>1 DEF Homes
    <3>4. ASSUME NEW b \in Homes(i, p[i], os) PROVE b = r \/ Rank(b) < Rank(r)
      <4>1. CASE b = TopLevel
        BY <3>1, <3>2, <4>1 DEF Rank, TopLevel
      <4>2. CASE \E s \in os : p[i][s].k # "paryay" /\ b = <<i, s, 0>>
        <5>1. PICK s \in os : p[i][s].k # "paryay" /\ b = <<i, s, 0>>
          BY <4>2
        <5>2. s \in 1..(q - 1) /\ s <= o /\ Rank(b) = 2 * s
          BY <1>3, <3>1, <5>1 DEF Rank
        <5>3. s = o \/ 2 * s < 2 * o
          BY <3>1, <5>2
        <5>4. QED
          BY <3>1, <3>2, <5>1, <5>2, <5>3
      <4>3. CASE \E s \in os : p[i][s].k = "pratyek" /\ b = <<i, s, 1>>
        <5>1. PICK s \in os : p[i][s].k = "pratyek" /\ b = <<i, s, 1>>
          BY <4>3
        <5>2. s \in 1..(q - 1) /\ s <= o /\ Rank(b) = 2 * s - 1
          BY <1>3, <3>1, <5>1 DEF Rank
        <5>3. QED
          BY <3>1, <3>2, <5>2
      <4>4. QED
        BY <4>1, <4>2, <4>3 DEF Homes
    <3>5. QED
      BY <3>3, <3>4 DEF Deepest
  <2>3. QED
    BY <1>4, <2>1, <2>2
<1>6. /\ Range1(home) = Homes(i, p[i], os)
      /\ Mirrors(Met(p, i, q), sc, home)
  BY <1>2 DEF WalkAt
<1>7. sc # <<>> /\ home[Len(sc)] = r
  BY <1>5, <1>6, MirrorsLast
<1>8. QED
  BY <1>2, <1>7 DEF os, r, w

-----------------------------------------------------------------------------
(* How the walk goes on.                                                   *)

(* A node that neither declares anything nor opens or closes a block.      *)
LEMMA WalkPasses ==
  ASSUME NEW p \in Program, IsTree(p), NEW i \in DOMAIN p, NEW q \in DOMAIN p[i],
         NEW sc, NEW fs, NEW open, NEW home, WalkAt(p, i, q, sc, fs, open, home),
         p[i][q].k \notin OpenKinds, p[i][q].k # "close",
         DeclarationsAt(p, <<i, q>>) = {}
  PROVE  WalkAt(p, i, q + 1, sc, fs, open, home)
<1>1. p[i] \in Seq(Node) /\ Bracketed(p[i])
  BY TreeBracketed
<1>2. /\ Nesting(p[i], q + 1, open, fs)
      /\ Unclosed(p[i], q + 1) = Unclosed(p[i], q)
  BY <1>1, NestingPasses DEF WalkAt
<1>3. Met(p, i, q + 1) = Met(p, i, q)
  BY MetNext
<1>4. QED
  BY <1>2, <1>3 DEF WalkAt

(* A declaration's name is new in the innermost scope exactly if it is new *)
(* in its block.                                                           *)
LEMMA DeclIsFresh ==
  ASSUME NEW p \in Program, IsTree(p), NEW i \in DOMAIN p, NEW q \in DOMAIN p[i],
         NEW sc, NEW fs, NEW open, NEW home, WalkAt(p, i, q, sc, fs, open, home),
         p[i][q].k = "decl"
  PROVE  ~Redeclares(sc, p[i][q].x) <=> Fresh(p, <<i, q>>)
<1> DEFINE w == <<i, q>>
           n == p[i][q]
           v == Declaration(n, <<i, q, 0>>, BlockOf(p, w))
<1>1. w \in Nodes(p) /\ At(p, w) = n /\ w[1] = i /\ w[2] = q
  BY NodeAt
<1>2. DeclarationsAt(p, w) = {v}
  BY <1>1 DEF DeclarationsAt
<1>3. v.name = n.x /\ v.block = BlockOf(p, w)
  BY DEF Declaration
<1>4. sc # <<>> /\ home[Len(sc)] = BlockOf(p, w)
  BY WalkInnermost
<1>5. sc \in Scopes /\ Mirrors(Met(p, i, q), sc, home)
  BY DEF WalkAt, Mirrors
<1>6. Len(sc) \in 1..Len(sc) /\ Last(sc) = sc[Len(sc)]
  BY <1>4, <1>5 DEF Scopes, Last
<1>7. Last(sc) = {Seen(d) : d \in {c \in Met(p, i, q) : c.block = BlockOf(p, w)}}
  BY <1>4, <1>5, <1>6 DEF Mirrors
<1> HIDE DEF v, w
<1>8. Redeclares(sc, n.x) <=>
        \E c \in Met(p, i, q) : c.name = n.x /\ c.block = BlockOf(p, w)
  <2>1. \A d : Seen(d).name = d.name
    BY DEF Seen
  <2>2. QED
    BY <1>7, <2>1 DEF Redeclares, Named
<1>9. Fresh(p, w) <=>
        \A c \in Met(p, i, q) :
          c.name = n.x /\ c.block = BlockOf(p, w) => c.site = v.site
  BY <1>1, <1>2, <1>3 DEF Fresh
<1>10. \A c \in Met(p, i, q) : c.site # v.site
  <2>1. v \in DeclarationsAt(p, w)
    BY <1>2
  <2>2. ASSUME NEW c \in Met(p, i, q) PROVE c.site # v.site
    <3>1. c \in Met(p, w[1], w[2])
      BY <1>1
    <3>2. c.site \in Places /\ Before(c.site, v.site)
      BY <1>1, <2>1, <3>1, MetEarlier
    <3>3. QED
      BY <3>2, BeforeIsOrder
  <2>3. QED
    BY <2>2
<1>11. QED
  BY <1>8, <1>9, <1>10 DEF w

(* A declaration.                                                          *)
LEMMA WalkDeclares ==
  ASSUME NEW p \in Program, IsTree(p), NEW i \in DOMAIN p, NEW q \in DOMAIN p[i],
         NEW sc, NEW fs, NEW open, NEW home, WalkAt(p, i, q, sc, fs, open, home),
         p[i][q].k = "decl", ~Redeclares(sc, p[i][q].x)
  PROVE  WalkAt(p, i, q + 1, Declare(sc, VarInfo(p[i][q], <<i, q, 0>>)), fs,
                open, home)
<1> DEFINE w == <<i, q>>
           n == p[i][q]
           v == Declaration(n, <<i, q, 0>>, BlockOf(p, w))
<1>1. /\ w \in Nodes(p) /\ At(p, w) = n /\ w[1] = i /\ w[2] = q
      /\ i \in Nat /\ q \in Nat
  BY NodeAt
<1>2. DeclarationsAt(p, w) = {v}
  BY <1>1 DEF DeclarationsAt
<1>3. /\ v.block = BlockOf(p, w)
      /\ Seen(v) = VarInfo(n, <<i, q, 0>>) /\ Seen(v).name = n.x
  BY DEF Declaration, Seen, VarInfo
<1>4. sc # <<>> /\ home[Len(sc)] = BlockOf(p, w)
  BY WalkInnermost
<1>5. Declare(sc, Seen(v)) = [sc EXCEPT ![Len(sc)] = @ \cup {Seen(v)}]
  BY <1>3 DEF Declare
<1>6. Seen(v) \in VarInfos
  <2>1. v \in DeclarationsAt(p, w)
    BY <1>2
  <2> HIDE DEF v, w
  <2>2. /\ v.name \in Idents /\ v.ahe \in BOOLEAN /\ v.purnank \in BOOLEAN
        /\ v.site = <<w[1], w[2], v.site[3]>> /\ v.site[3] \in Nat
    BY <1>1, <2>1, DeclarationShape
  <2>3. v.site \in Nat \X Nat \X Nat
    BY <1>1, <2>2
  <2>4. QED
    BY <2>2, <2>3 DEF Seen, VarInfos
<1> HIDE DEF v, w
<1>7. \A c \in Met(p, i, q) : Before(c.site, v.site)
  <2>1. v \in DeclarationsAt(p, w)
    BY <1>2
  <2>2. QED
    BY <1>1, <2>1, MetEarlier
<1>8. Mirrors(Met(p, i, q) \cup {v}, [sc EXCEPT ![Len(sc)] = @ \cup {Seen(v)}], home)
  <2>1. Mirrors(Met(p, i, q), sc, home) /\ v.block = home[Len(sc)]
    BY <1>3, <1>4 DEF WalkAt
  <2>2. QED
    BY <1>4, <1>6, <1>7, <2>1, MirrorsDeclare
<1>9. Met(p, i, q + 1) = Met(p, i, q) \cup {v}
  BY <1>2, MetNext DEF w
<1>10. /\ Nesting(p[i], q + 1, open, fs)
       /\ Unclosed(p[i], q + 1) = Unclosed(p[i], q)
  <2>1. p[i] \in Seq(Node) /\ Bracketed(p[i])
    BY TreeBracketed
  <2>2. n.k \notin OpenKinds /\ n.k # "close"
    BY DEF OpenKinds
  <2>3. QED
    BY <2>1, <2>2, NestingPasses DEF WalkAt
<1>11. QED
  BY <1>3, <1>5, <1>8, <1>9, <1>10 DEF WalkAt

(* The scopes that are open do not know the block of the node the walk is  *)
(* at.                                                                     *)
LEMMA WalkRanks ==
  ASSUME NEW p \in Program, IsTree(p), NEW i \in DOMAIN p, NEW q \in DOMAIN p[i],
         NEW sc, NEW fs, NEW open, NEW home, WalkAt(p, i, q, sc, fs, open, home)
  PROVE  /\ \A a \in 1..Len(sc) : /\ Rank(home[a]) < Rank(<<i, q, 0>>)
                                  /\ Rank(home[a]) < Rank(<<i, q, 1>>)
         /\ <<i, q, 0>> \in Places /\ <<i, q, 1>> \in Places
         /\ Rank(<<i, q, 1>>) < Rank(<<i, q, 0>>)
<1>1. i \in Nat /\ q \in Nat \ {0} /\ Unclosed(p[i], q) \in SUBSET (1..(q - 1))
  BY NodeAt DEF Unclosed
<1>2. Rank(<<i, q, 0>>) = 2 * q /\ Rank(<<i, q, 1>>) = 2 * q - 1
  BY <1>1 DEF Rank
<1>3. ASSUME NEW a \in 1..Len(sc)
      PROVE  Rank(home[a]) < 2 * q - 1 /\ Rank(home[a]) \in Int
  <2>1. home[a] \in Homes(i, p[i], Unclosed(p[i], q))
    BY DEF WalkAt, Mirrors, Range1
  <2>2. home[a] \in Places /\ Rank(home[a]) < 2 * q - 1
    BY <1>1, <2>1, HomesRanked
  <2>3. QED
    BY <2>2, RankIsNumber
<1>4. <<i, q, 0>> \in Places /\ <<i, q, 1>> \in Places
  BY <1>1 DEF Places
<1>5. QED
  BY <1>1, <1>2, <1>3, <1>4

(* A push adds one block to those that have a scope.                       *)
LEMMA RangeOfPush ==
  ASSUME NEW home \in Seq(Places), NEW b \in Places
  PROVE  /\ Append(home, b) \in Seq(Places)
         /\ Range1(Append(home, b)) = Range1(home) \cup {b}
<1>1. /\ Append(home, b) \in Seq(Places) /\ Len(Append(home, b)) = Len(home) + 1
      /\ \A a \in 1..Len(home) : Append(home, b)[a] = home[a]
      /\ Append(home, b)[Len(home) + 1] = b
      /\ Len(home) \in Nat
  OBVIOUS
<1>2. \A a : a \in 1..(Len(home) + 1) <=> a \in 1..Len(home) \/ a = Len(home) + 1
  BY <1>1
<1>3. QED
  BY <1>1, <1>2 DEF Range1

(* A construct with one block, and what it declares in it.                 *)
LEMMA WalkOpens ==
  ASSUME NEW p \in Program, IsTree(p), NEW i \in DOMAIN p, NEW q \in DOMAIN p[i],
         NEW sc, NEW fs, NEW open, NEW home, WalkAt(p, i, q, sc, fs, open, home),
         p[i][q].k \in OpenKinds \ {"paryay", "pratyek"}
  PROVE  WalkAt(p, i, q + 1,
                Append(sc, {Seen(d) : d \in DeclarationsAt(p, <<i, q>>)}),
                Append(fs, p[i][q].k), Append(open, q),
                Append(home, <<i, q, 0>>))
<1> DEFINE w == <<i, q>>
           b == <<i, q, 0>>
           P == DeclarationsAt(p, w)
           n == p[i][q]
<1>1. /\ w \in Nodes(p) /\ At(p, w) = n /\ w[1] = i /\ w[2] = q
      /\ i \in Nat /\ q \in Nat
  BY NodeAt
<1>2. Mirrors(Met(p, i, q), sc, home)
  BY DEF WalkAt
<1>3. /\ Nesting(p[i], q + 1, Append(open, q), Append(fs, n.k))
      /\ Unclosed(p[i], q + 1) = Unclosed(p[i], q) \cup {q}
  <2>1. p[i] \in Seq(Node) /\ Bracketed(p[i])
    BY TreeBracketed
  <2>2. QED
    BY <2>1, NestingOpens DEF WalkAt
<1> HIDE DEF w, P
<1>4. ASSUME NEW d \in P PROVE d.block = b /\ Seen(d) \in VarInfos
  <2>1. n.k # "decl" /\ n.k # "pratyek"
    BY DEF OpenKinds
  <2>2. At(p, w).k = "karya"
    BY <1>1, <2>1, DeclarationCases DEF P
  <2>3. /\ d.block = <<w[1], w[2], 0>>
        /\ d.name \in Idents /\ d.ahe \in BOOLEAN /\ d.purnank \in BOOLEAN
        /\ d.site = <<w[1], w[2], d.site[3]>> /\ d.site[3] \in Nat
    BY <1>1, <2>2, DeclarationShape DEF P
  <2>4. d.site \in Nat \X Nat \X Nat
    BY <1>1, <2>3
  <2>5. QED
    BY <1>1, <2>3, <2>4 DEF Seen, VarInfos
<1>5. \A c \in Met(p, i, q) : c.block # b /\ \A d \in P : Before(c.site, d.site)
  BY <1>1, MetEarlier DEF P
<1>6. (\A a \in 1..Len(sc) : Rank(home[a]) < Rank(b)) /\ b \in Places
  BY WalkRanks
<1> HIDE DEF b
<1>7. Mirrors(Met(p, i, q) \cup P, Append(sc, {Seen(d) : d \in P}), Append(home, b))
  BY <1>2, <1>4, <1>5, <1>6, MirrorsPush
<1>8. Met(p, i, q + 1) = Met(p, i, q) \cup P
  BY MetNext DEF P, w
<1>9. Range1(Append(home, b)) = Range1(home) \cup {b}
  BY <1>2, <1>6, RangeOfPush DEF Mirrors
<1>10. Homes(i, p[i], Unclosed(p[i], q) \cup {q}) =
         Homes(i, p[i], Unclosed(p[i], q)) \cup {b}
  BY HomesOpen DEF b
<1>11. QED
  BY <1>3, <1>7, <1>8, <1>9, <1>10 DEF WalkAt, P, w, b

(* A switch has no scope of its own.                                       *)
LEMMA WalkSwitches ==
  ASSUME NEW p \in Program, IsTree(p), NEW i \in DOMAIN p, NEW q \in DOMAIN p[i],
         NEW sc, NEW fs, NEW open, NEW home, WalkAt(p, i, q, sc, fs, open, home),
         p[i][q].k = "paryay"
  PROVE  WalkAt(p, i, q + 1, sc, Append(fs, p[i][q].k), Append(open, q), home)
<1>1. /\ Nesting(p[i], q + 1, Append(open, q), Append(fs, p[i][q].k))
      /\ Unclosed(p[i], q + 1) = Unclosed(p[i], q) \cup {q}
  <2>1. p[i] \in Seq(Node) /\ Bracketed(p[i])
    BY TreeBracketed
  <2>2. p[i][q].k \in OpenKinds
    BY DEF OpenKinds
  <2>3. QED
    BY <2>1, <2>2, NestingOpens DEF WalkAt
<1>2. DeclarationsAt(p, <<i, q>>) = {}
  BY NodeAt DEF DeclarationsAt
<1>3. Met(p, i, q + 1) = Met(p, i, q)
  BY <1>2, MetNext
<1>4. Homes(i, p[i], Unclosed(p[i], q) \cup {q}) = Homes(i, p[i], Unclosed(p[i], q))
  BY HomesOpen
<1>5. QED
  BY <1>1, <1>3, <1>4 DEF WalkAt

(* The header of a for, before its initialiser.                            *)
LEMMA ForHeader ==
  ASSUME NEW p \in Program, IsTree(p), NEW i \in DOMAIN p, NEW q \in DOMAIN p[i],
         NEW sc, NEW fs, NEW open, NEW home, WalkAt(p, i, q, sc, fs, open, home),
         p[i][q].k = "pratyek", Distinct(Met(p, i, q))
  PROVE  /\ Mirrors(Met(p, i, q), Append(sc, {}), Append(home, <<i, q, 1>>))
         /\ Range1(Append(home, <<i, q, 1>>)) =
              Homes(i, p[i], Openers(p, <<i, q>>)) \cup {<<i, q, 1>>}
         /\ Sees(p, <<i, q>>, 1, Append(sc, {}))
<1> DEFINE w == <<i, q>>
           b == <<i, q, 1>>
           home1 == Append(home, b)
<1>1. /\ w \in Nodes(p) /\ At(p, w) = p[i][q] /\ w[1] = i /\ w[2] = q
      /\ i \in Nat /\ q \in Nat
  BY NodeAt
<1>2. Mirrors(Met(p, i, q), sc, home)
  BY DEF WalkAt
<1>3. (\A a \in 1..Len(sc) : Rank(home[a]) < Rank(b)) /\ b \in Places
  BY WalkRanks
<1> HIDE DEF w
<1>4. \A c \in Met(p, i, q) : c.block # b
  BY <1>1, MetEarlier
<1> HIDE DEF b
<1>5. Mirrors(Met(p, i, q), Append(sc, {}), Append(home, b))
  <2> DEFINE P == {}
  <2>1. Mirrors(Met(p, i, q) \cup P, Append(sc, {Seen(d) : d \in P}), Append(home, b))
    <3>1. /\ \A d \in P : d.block = b /\ Seen(d) \in VarInfos
          /\ \A c \in Met(p, i, q), d \in P : Before(c.site, d.site)
      OBVIOUS
    <3> HIDE DEF P
    <3>2. QED
      BY <1>2, <1>3, <1>4, <3>1, MirrorsPush
  <2>2. {Seen(d) : d \in P} = {} /\ Met(p, i, q) \cup P = Met(p, i, q)
    OBVIOUS
  <2>3. QED
    BY <2>1, <2>2
<1>6. Openers(p, w) = Unclosed(p[i], q)
  BY WalkInnermost DEF w
<1>7. Range1(home1) = Homes(i, p[i], Openers(p, w)) \cup {b}
  <2>1. Range1(home1) = Range1(home) \cup {b}
    BY <1>2, <1>3, RangeOfPush DEF Mirrors
  <2>2. QED
    BY <1>6, <2>1 DEF WalkAt
<1>8. MetBy(p, w, 1) = Met(p, i, q)
  <2>1. \A d \in DeclarationsAt(p, w) : ~(d.site[3] < 1)
    <3>1. \A d \in DeclarationsAt(p, w) : d.site[3] = 1
      BY <1>1, DeclarationShape
    <3>2. QED
      BY <3>1
  <2>2. QED
    BY <1>1, <2>1 DEF MetBy
<1>9. Sees(p, w, 1, Append(sc, {}))
  <2>1. Range1(home1) = Homes(w[1], p[w[1]], Openers(p, w))
                          \cup (IF 1 > 0 THEN {<<w[1], w[2], 1>>} ELSE {})
    BY <1>1, <1>7 DEF b
  <2>2. Mirrors(MetBy(p, w, 1), Append(sc, {}), home1) /\ Distinct(MetBy(p, w, 1))
    BY <1>5, <1>8
  <2>3. QED
    BY <1>1, <2>1, <2>2, MirrorsSee
<1>10. QED
  BY <1>5, <1>7, <1>9 DEF w, b

(* The initialiser of a for declares in its header, where no name is yet.  *)
LEMMA ForIsFresh ==
  ASSUME NEW p \in Program, NEW w \in Nodes(p), At(p, w).k = "pratyek"
  PROVE  Fresh(p, w)
<1> SUFFICES ASSUME NEW d \in DeclarationsAt(p, w),
                    NEW c \in Met(p, w[1], w[2]) \cup DeclarationsAt(p, w),
                    c.block = d.block
             PROVE  c.site = d.site
  BY DEF Fresh
<1>1. d.block = <<w[1], w[2], 1>> /\ d.site = <<w[1], w[2], 1>>
  BY DeclarationShape
<1>2. CASE c \in Met(p, w[1], w[2])
  BY <1>1, <1>2, MetEarlier
<1>3. CASE c \in DeclarationsAt(p, w)
  <2>1. c.site = <<w[1], w[2], 1>>
    BY <1>3, DeclarationShape
  <2>2. QED
    BY <1>1, <2>1
<1>4. QED
  BY <1>2, <1>3

(* The declarations met, with those of the node itself.                    *)
LEMMA DistinctHere ==
  ASSUME NEW p \in Program, NEW w \in Nodes(p),
         Distinct(Met(p, w[1], w[2])), Fresh(p, w)
  PROVE  Distinct(Met(p, w[1], w[2]) \cup DeclarationsAt(p, w))
<1> DEFINE M == Met(p, w[1], w[2])
           P == DeclarationsAt(p, w)
<1> SUFFICES ASSUME NEW c \in M \cup P, NEW d \in M \cup P,
                    c.name = d.name, c.block = d.block
             PROVE  c = d
  BY DEF Distinct
<1>1. \A x \in M, y \in P : x.site # y.site
  <2> SUFFICES ASSUME NEW x \in M, NEW y \in P PROVE x.site # y.site
    OBVIOUS
  <2>1. x.site \in Places /\ Before(x.site, y.site)
    BY MetEarlier
  <2>2. QED
    BY <2>1, BeforeIsOrder
<1>2. \A x \in P, y \in P : x.site = y.site => x = y
  BY DeclaredOnce
<1>3. \A y \in P : \A x \in M \cup P :
        x.name = y.name /\ x.block = y.block => x.site = y.site
  BY DEF Fresh
<1>4. \A x, y \in M : x.name = y.name /\ x.block = y.block => x = y
  BY DEF Distinct
<1> HIDE DEF M, P
<1>5. CASE c \in M /\ d \in M
  BY <1>4, <1>5
<1>6. CASE c \in M /\ d \in P
  BY <1>1, <1>3, <1>6
<1>7. CASE c \in P /\ d \in M
  BY <1>1, <1>3, <1>7
<1>8. CASE c \in P /\ d \in P
  BY <1>2, <1>3, <1>8
<1>9. QED
  BY <1>5, <1>6, <1>7, <1>8

(* The header of a for, after its initialiser.                             *)
LEMMA ForInside ==
  ASSUME NEW p \in Program, IsTree(p), NEW i \in DOMAIN p, NEW q \in DOMAIN p[i],
         NEW sc, NEW fs, NEW open, NEW home, WalkAt(p, i, q, sc, fs, open, home),
         p[i][q].k = "pratyek", Distinct(Met(p, i, q)),
         NEW inside, inside = SimpleScopes(Append(sc, {}), p[i][q].init, <<i, q, 1>>)
  PROVE  /\ Mirrors(Met(p, i, q + 1), inside, Append(home, <<i, q, 1>>))
         /\ Sees(p, <<i, q>>, 2, inside) /\ Sees(p, <<i, q>>, 3, inside)
<1> DEFINE w == <<i, q>>
           b == <<i, q, 1>>
           n == p[i][q]
           header == Append(sc, {})
           home1 == Append(home, b)
           P == DeclarationsAt(p, w)
<1>1. /\ w \in Nodes(p) /\ At(p, w) = n /\ w[1] = i /\ w[2] = q
      /\ i \in Nat /\ q \in Nat /\ n \in Node
  BY NodeAt
<1>2. /\ Mirrors(Met(p, i, q), header, home1)
      /\ Range1(home1) = Homes(i, p[i], Openers(p, w)) \cup {b}
  BY ForHeader
<1>3. sc \in Seq(SUBSET VarInfos) /\ home \in Seq(Places) /\ Len(home) = Len(sc)
  BY DEF WalkAt, Mirrors, Scopes
<1>4. /\ Len(header) = Len(sc) + 1 /\ header[Len(header)] = {} /\ header # <<>>
      /\ home1[Len(header)] = b /\ Last(header) = {}
  <2>1. /\ header \in Seq(SUBSET VarInfos) /\ Len(header) = Len(sc) + 1
        /\ header[Len(sc) + 1] = {}
    BY <1>3
  <2>2. home1[Len(home) + 1] = b
    BY <1>3
  <2> HIDE DEF header, home1
  <2>3. header # <<>> /\ Last(header) = header[Len(header)]
    BY <1>3, <2>1 DEF Last
  <2>4. QED
    BY <1>3, <2>1, <2>2, <2>3
<1>5. Met(p, i, q + 1) = Met(p, i, q) \cup P
  BY MetNext
<1> HIDE DEF header, home1
<1>6. Mirrors(Met(p, i, q + 1), inside, home1)
  <2>1. CASE n.init.k = "decl"
    <3> DEFINE v == Declaration(n.init, b, b)
    <3>1. P = {v}
      BY <1>1, <2>1 DEF DeclarationsAt
    <3>2. Seen(v) = VarInfo(n.init, b) /\ v.block = b /\ Seen(v).name = n.init.x
      BY DEF Declaration, Seen, VarInfo
    <3>3. inside = [header EXCEPT ![Len(header)] = @ \cup {Seen(v)}]
      <4>1. ~Redeclares(header, Seen(v).name)
        BY <1>4 DEF Redeclares, Named
      <4>2. inside = Declare(header, Seen(v))
        BY <2>1, <3>2 DEF SimpleScopes, header
      <4>3. QED
        BY <4>1, <4>2 DEF Declare
    <3>4. v \in P
      BY <3>1
    <3> HIDE DEF v, w
    <3>5. Seen(v) \in VarInfos
      <4>1. /\ v.name \in Idents /\ v.ahe \in BOOLEAN /\ v.purnank \in BOOLEAN
            /\ v.site = <<w[1], w[2], v.site[3]>> /\ v.site[3] \in Nat
        BY <1>1, <3>4, DeclarationShape
      <4>2. v.site \in Nat \X Nat \X Nat
        BY <1>1, <4>1
      <4>3. QED
        BY <4>1, <4>2 DEF Seen, VarInfos
    <3>6. \A c \in Met(p, i, q) : Before(c.site, v.site)
      BY <1>1, <3>4, MetEarlier
    <3>7. v.block = home1[Len(header)]
      BY <1>4, <3>2
    <3>8. Mirrors(Met(p, i, q) \cup {v},
                  [header EXCEPT ![Len(header)] = @ \cup {Seen(v)}], home1)
      BY <1>2, <1>4, <3>5, <3>6, <3>7, MirrorsDeclare
    <3>9. QED
      BY <1>5, <3>1, <3>3, <3>8
  <2>2. CASE n.init.k # "decl"
    <3>1. P = {}
      BY <1>1, <2>2 DEF DeclarationsAt
    <3>2. inside = header
      BY <2>2 DEF SimpleScopes, header
    <3>3. QED
      BY <1>2, <1>5, <3>1, <3>2
  <2>3. QED
    BY <2>1, <2>2
<1>7. Distinct(Met(p, i, q + 1))
  <2>1. Fresh(p, w)
    BY <1>1, ForIsFresh
  <2>2. QED
    BY <1>1, <1>5, <2>1, DistinctHere
<1>8. ASSUME NEW m \in {2, 3} PROVE Sees(p, w, m, inside)
  <2>1. m \in Nat /\ m > 0 /\ 1 < m
    OBVIOUS
  <2>2. \A d \in P : d.site[3] = 1
    BY <1>1, DeclarationShape
  <2>3. MetBy(p, w, m) = Met(p, i, q + 1)
    BY <1>1, <1>5, <2>1, <2>2 DEF MetBy
  <2>4. Range1(home1) = Homes(w[1], p[w[1]], Openers(p, w))
                          \cup (IF m > 0 THEN {<<w[1], w[2], 1>>} ELSE {})
    BY <1>1, <1>2, <2>1
  <2> HIDE DEF w, P
  <2>5. QED
    BY <1>1, <1>6, <1>7, <2>1, <2>3, <2>4, MirrorsSee
<1>9. QED
  BY <1>6, <1>8 DEF home1

(* A for.                                                                  *)
LEMMA WalkFors ==
  ASSUME NEW p \in Program, IsTree(p), NEW i \in DOMAIN p, NEW q \in DOMAIN p[i],
         NEW sc, NEW fs, NEW open, NEW home, WalkAt(p, i, q, sc, fs, open, home),
         p[i][q].k = "pratyek", Distinct(Met(p, i, q)),
         NEW inside, inside = SimpleScopes(Append(sc, {}), p[i][q].init, <<i, q, 1>>)
  PROVE  WalkAt(p, i, q + 1, Append(inside, {}), Append(fs, p[i][q].k),
                Append(open, q), Append(Append(home, <<i, q, 1>>), <<i, q, 0>>))
<1> DEFINE w == <<i, q>>
           b == <<i, q, 0>>
           home1 == Append(home, <<i, q, 1>>)
           M == Met(p, i, q + 1)
<1>1. /\ w \in Nodes(p) /\ At(p, w) = p[i][q] /\ w[1] = i /\ w[2] = q
      /\ i \in Nat /\ q \in Nat
  BY NodeAt
<1>2. Mirrors(M, inside, home1)
  BY ForInside
<1>3. Range1(home1) = Homes(i, p[i], Unclosed(p[i], q)) \cup {<<i, q, 1>>}
  <2>1. Range1(home1) = Homes(i, p[i], Openers(p, w)) \cup {<<i, q, 1>>}
    BY ForHeader
  <2>2. Openers(p, w) = Unclosed(p[i], q)
    BY WalkInnermost
  <2>3. QED
    BY <2>1, <2>2
<1>4. /\ b \in Places
      /\ \A c \in Range1(home1) : Rank(c) < Rank(b)
  <2>1. /\ \A a \in 1..Len(sc) : Rank(home[a]) < Rank(b)
        /\ b \in Places /\ Rank(<<i, q, 1>>) < Rank(b)
    BY WalkRanks
  <2>2. Homes(i, p[i], Unclosed(p[i], q)) = {home[a] : a \in 1..Len(sc)}
    BY DEF WalkAt, Mirrors, Range1
  <2>3. QED
    BY <1>3, <2>1, <2>2
<1>5. \A a \in 1..Len(inside) : Rank(home1[a]) < Rank(b)
  <2>1. \A a \in 1..Len(inside) : home1[a] \in Range1(home1)
    BY <1>2 DEF Mirrors, Range1
  <2>2. QED
    BY <1>4, <2>1
<1>6. \A c \in M : c.block # b
  <2>1. M = Met(p, i, q) \cup DeclarationsAt(p, w)
    BY MetNext
  <2>2. \A c \in Met(p, i, q) : c.block # b
    BY <1>1, MetEarlier
  <2>3. \A c \in DeclarationsAt(p, w) : c.block = <<i, q, 1>>
    BY <1>1, DeclarationShape
  <2>4. QED
    BY <2>1, <2>2, <2>3
<1> HIDE DEF b, home1, M
<1>7. Mirrors(M, Append(inside, {}), Append(home1, b))
  <2> DEFINE P == {}
  <2>1. Mirrors(M \cup P, Append(inside, {Seen(d) : d \in P}), Append(home1, b))
    <3>1. /\ \A d \in P : d.block = b /\ Seen(d) \in VarInfos
          /\ \A c \in M, d \in P : Before(c.site, d.site)
      OBVIOUS
    <3> HIDE DEF P
    <3>2. QED
      BY <1>2, <1>4, <1>5, <1>6, <3>1, MirrorsPush
  <2>2. {Seen(d) : d \in P} = {} /\ M \cup P = M
    OBVIOUS
  <2>3. QED
    BY <2>1, <2>2
<1>8. Range1(Append(home1, b)) = Range1(home1) \cup {b}
  BY <1>2, <1>4, RangeOfPush DEF Mirrors
<1>9. /\ Nesting(p[i], q + 1, Append(open, q), Append(fs, p[i][q].k))
      /\ Unclosed(p[i], q + 1) = Unclosed(p[i], q) \cup {q}
  <2>1. p[i] \in Seq(Node) /\ Bracketed(p[i])
    BY TreeBracketed
  <2>2. p[i][q].k \in OpenKinds
    BY DEF OpenKinds
  <2>3. QED
    BY <2>1, <2>2, NestingOpens DEF WalkAt
<1>10. Homes(i, p[i], Unclosed(p[i], q) \cup {q}) =
         (Homes(i, p[i], Unclosed(p[i], q)) \cup {<<i, q, 1>>}) \cup {b}
  BY HomesOpen DEF b
<1>11. QED
  BY <1>3, <1>7, <1>8, <1>9, <1>10 DEF WalkAt, b, home1, M

(* The end of a block closes the innermost construct.                      *)
LEMMA WalkCloses ==
  ASSUME NEW p \in Program, IsTree(p), NEW i \in DOMAIN p, NEW q \in DOMAIN p[i],
         NEW sc, NEW fs, NEW open, NEW home, WalkAt(p, i, q, sc, fs, open, home),
         p[i][q].k = "close", fs # <<>>
  PROVE  \E home1 : WalkAt(p, i, q + 1, ScopesLeft(Last(fs), sc), Front(fs),
                           Front(open), home1)
<1> DEFINE t == p[i]
           o == Last(open)
           os == Unclosed(t, q)
           H == Homes(i, t, os)
<1>1. i \in Nat /\ q \in Nat \ {0} /\ t \in Seq(Node) /\ Bracketed(t)
  BY NodeAt, TreeBracketed
<1>2. /\ Nesting(t, q + 1, Front(open), Front(fs))
      /\ o \in os /\ t[o].k = Last(fs)
      /\ \A r \in os : r <= o
      /\ Unclosed(t, q + 1) = os \ {o}
  BY <1>1, NestingCloses DEF WalkAt
<1>3. os \in SUBSET (1..(q - 1))
  BY DEF Unclosed
<1>4. Met(p, i, q + 1) = Met(p, i, q)
  <2>1. DeclarationsAt(p, <<i, q>>) = {}
    BY NodeAt DEF DeclarationsAt
  <2>2. QED
    BY <2>1, MetNext
<1>5. Mirrors(Met(p, i, q), sc, home) /\ Range1(home) = H
  BY DEF WalkAt
<1> DEFINE rest == os \ {o}
           K == Homes(i, t, rest)
           body == <<i, o, 0>>
           header == <<i, o, 1>>
<1>6. os = rest \cup {o} /\ o \in Nat
  BY <1>2, <1>3
<1> HIDE DEF t, o, os
<1>7. \A b \in K : /\ Rank(b) < Rank(body) /\ b # body
                   /\ Rank(b) < Rank(header) /\ b # header
  BY <1>1, <1>2, <1>3, HomesBelow
<1>8. /\ t[o].k = "paryay" => H = K
      /\ t[o].k = "pratyek" => H = (K \cup {header}) \cup {body}
      /\ t[o].k \notin {"paryay", "pratyek"} => H = K \cup {body}
  <2> HIDE DEF rest
  <2>1. H = Homes(i, t, rest \cup {o})
    BY <1>6
  <2>2. ASSUME t[o].k = "paryay" PROVE Homes(i, t, rest \cup {o}) = K
    BY <2>2 DEF Homes
  <2>3. ASSUME t[o].k = "pratyek"
        PROVE  Homes(i, t, rest \cup {o}) = (K \cup {header}) \cup {body}
    BY <2>3 DEF Homes
  <2>4. t[o].k \notin {"paryay", "pratyek"} =>
          Homes(i, t, rest \cup {o}) = K \cup {body}
    BY HomesOpen
  <2> HIDE DEF H, K, header, body
  <2>5. QED
    BY <2>1, <2>2, <2>3, <2>4
<1>9. Rank(header) < Rank(body) /\ header # body
  BY <1>6 DEF Rank
<1>10. K = Homes(i, t, Unclosed(t, q + 1))
  BY <1>2
<1> HIDE DEF H, K, body, header
<1>11. ASSUME NEW sc1, NEW home1, ScopesLeft(Last(fs), sc) = sc1,
              Mirrors(Met(p, i, q), sc1, home1), Range1(home1) = K
       PROVE  WalkAt(p, i, q + 1, ScopesLeft(Last(fs), sc), Front(fs),
                     Front(open), home1)
  BY <1>2, <1>4, <1>10, <1>11 DEF WalkAt, t
<1>12. CASE t[o].k = "paryay"
  <2>1. ScopesLeft(Last(fs), sc) = sc /\ Range1(home) = K
    BY <1>2, <1>5, <1>8, <1>12 DEF ScopesLeft
  <2>2. QED
    BY <1>5, <1>11, <2>1
<1>13. CASE t[o].k \notin {"paryay", "pratyek"}
  <2>1. ScopesLeft(Last(fs), sc) = Front(sc)
    BY <1>2, <1>13 DEF ScopesLeft, PopScope
  <2>2. Deepest(Range1(home), body) /\ Range1(home) \ {body} = K
    BY <1>5, <1>7, <1>8, <1>13 DEF Deepest
  <2>3. sc # <<>> /\ Range1(Front(home)) = K
    BY <1>5, <2>2, MirrorsLast
  <2>4. Mirrors(Met(p, i, q), Front(sc), Front(home))
    BY <1>5, <2>3, MirrorsPop
  <2>5. QED
    BY <1>11, <2>1, <2>3, <2>4
<1>14. CASE t[o].k = "pratyek"
  <2> DEFINE sc1 == Front(sc)
             home1 == Front(home)
  <2>1. ScopesLeft(Last(fs), sc) = Front(sc1)
    BY <1>2, <1>14 DEF ScopesLeft, PopScope
  <2>2. Deepest(Range1(home), body) /\ Range1(home) \ {body} = K \cup {header}
    BY <1>5, <1>7, <1>8, <1>9, <1>14 DEF Deepest
  <2>3. sc # <<>> /\ Range1(home1) = K \cup {header}
    BY <1>5, <2>2, MirrorsLast
  <2>4. Mirrors(Met(p, i, q), sc1, home1)
    BY <1>5, <2>3, MirrorsPop
  <2> HIDE DEF sc1, home1
  <2>5. Deepest(Range1(home1), header) /\ Range1(home1) \ {header} = K
    BY <1>7, <2>3 DEF Deepest
  <2>6. sc1 # <<>> /\ Range1(Front(home1)) = K
    BY <2>4, <2>5, MirrorsLast
  <2>7. Mirrors(Met(p, i, q), Front(sc1), Front(home1))
    BY <2>4, <2>6, MirrorsPop
  <2>8. QED
    BY <1>11, <2>1, <2>6, <2>7
<1>15. QED
  BY <1>12, <1>13, <1>14

(* The end of a statement is the beginning of the next.                    *)
LEMMA WalkTurns ==
  ASSUME NEW p \in Program, IsTree(p), NEW i \in DOMAIN p, NEW sc, NEW fs,
         NEW open, NEW home, WalkAt(p, i, Len(p[i]) + 1, sc, fs, open, home)
  PROVE  WalkAt(p, i + 1, 1, sc, fs, open, home)
<1>1. p[i] \in Seq(Node) /\ Bracketed(p[i])
  BY TreeBracketed
<1>2. open = <<>> /\ fs = <<>>
  BY <1>1, NestingEnds DEF WalkAt
<1>3. Nesting(p[i + 1], 1, <<>>, <<>>)
  BY NestingStarts
<1>4. Unclosed(p[i], Len(p[i]) + 1) = {} /\ Unclosed(p[i + 1], 1) = {}
  <2>1. Unclosed(p[i], Len(p[i]) + 1) = {open[a] : a \in 1..Len(open)}
    BY DEF WalkAt, Nesting
  <2>2. QED
    BY <1>2, <2>1 DEF Unclosed
<1>5. Homes(i, p[i], {}) = {TopLevel} /\ Homes(i + 1, p[i + 1], {}) = {TopLevel}
  BY DEF Homes
<1>6. Met(p, i + 1, 1) = Met(p, i, Len(p[i]) + 1)
  BY VisitedStatement DEF Met
<1>7. QED
  BY <1>2, <1>3, <1>4, <1>5, <1>6 DEF WalkAt

-----------------------------------------------------------------------------
(* What a visit reports of its node.                                       *)

(* Before a node, the scopes show what its names refer to.                 *)
LEMMA WalkSees ==
  ASSUME NEW p \in Program, IsTree(p), NEW i \in DOMAIN p, NEW q \in DOMAIN p[i],
         p[i][q].k # "close", Distinct(Met(p, i, q)),
         NEW sc, NEW fs, NEW open, NEW home, WalkAt(p, i, q, sc, fs, open, home)
  PROVE  Sees(p, <<i, q>>, 0, sc)
<1> DEFINE w == <<i, q>>
<1>1. w \in Nodes(p) /\ w[1] = i /\ w[2] = q
  BY NodeAt
<1>2. Openers(p, w) = Unclosed(p[i], q)
  BY WalkInnermost
<1> HIDE DEF w
<1>3. \A d \in DeclarationsAt(p, w) : ~(d.site[3] < 0)
  <2>1. \A d \in DeclarationsAt(p, w) : d.site[3] \in Nat
    BY <1>1, DeclarationShape
  <2>2. QED
    BY <2>1
<1>4. MetBy(p, w, 0) = Met(p, i, q)
  BY <1>1, <1>3 DEF MetBy
<1>5. Mirrors(MetBy(p, w, 0), sc, home) /\ Distinct(MetBy(p, w, 0))
  BY <1>4 DEF WalkAt
<1>6. Range1(home) = Homes(w[1], p[w[1]], Openers(p, w))
                       \cup (IF 0 > 0 THEN {<<w[1], w[2], 1>>} ELSE {})
  BY <1>1, <1>2 DEF WalkAt
<1>7. QED
  BY <1>1, <1>5, <1>6, MirrorsSee DEF w

(* The frames tell which kinds of block the node is in.                    *)
LEMMA WalkFrames ==
  ASSUME NEW p \in Program, IsTree(p), NEW i \in DOMAIN p, NEW q \in DOMAIN p[i],
         p[i][q].k # "close",
         NEW sc, NEW fs, NEW open, NEW home, WalkAt(p, i, q, sc, fs, open, home),
         NEW kinds
  PROVE  /\ Cardinality(FramesOf(fs, kinds)) # 0
              <=> \E o \in Openers(p, <<i, q>>) : p[i][o].k \in kinds
         /\ fs = <<>> => Openers(p, <<i, q>>) = {}
<1>1. Openers(p, <<i, q>>) = Unclosed(p[i], q)
  BY WalkInnermost
<1>2. /\ open \in Seq(Nat) /\ fs \in Seq(OpenKinds) /\ Len(fs) = Len(open)
      /\ \A a \in 1..Len(open) : p[i][open[a]].k = fs[a]
      /\ {open[a] : a \in 1..Len(open)} = Unclosed(p[i], q)
  BY DEF WalkAt, Nesting
<1>3. (\E o \in Openers(p, <<i, q>>) : p[i][o].k \in kinds)
        <=> \E a \in 1..Len(fs) : fs[a] \in kinds
  <2>1. Openers(p, <<i, q>>) = {open[a] : a \in 1..Len(fs)}
    BY <1>1, <1>2
  <2>2. ASSUME NEW o \in Openers(p, <<i, q>>), p[i][o].k \in kinds
        PROVE  \E a \in 1..Len(fs) : fs[a] \in kinds
    <3>1. PICK a \in 1..Len(fs) : o = open[a]
      BY <2>1
    <3>2. p[i][o].k = fs[a]
      BY <1>2, <3>1
    <3>3. QED
      BY <2>2, <3>2
  <2>3. ASSUME NEW a \in 1..Len(fs), fs[a] \in kinds
        PROVE  \E o \in Openers(p, <<i, q>>) : p[i][o].k \in kinds
    <3>1. open[a] \in Openers(p, <<i, q>>) /\ p[i][open[a]].k = fs[a]
      BY <1>2, <2>1
    <3>2. QED
      BY <2>3, <3>1
  <2>4. QED
    BY <2>2, <2>3
<1>4. IsFiniteSet(FramesOf(fs, kinds))
  <2>1. FramesOf(fs, kinds) = Positions(fs, kinds)
    BY DEF FramesOf, Positions
  <2>2. QED
    BY <1>2, <2>1, PositionsFinite
<1>5. Cardinality(FramesOf(fs, kinds)) # 0 <=> FramesOf(fs, kinds) # {}
  BY <1>4, FS_EmptySet
<1>6. FramesOf(fs, kinds) # {} <=> \E a \in 1..Len(fs) : fs[a] \in kinds
  BY <1>2 DEF FramesOf
<1>7. fs = <<>> => Unclosed(p[i], q) = {}
  BY <1>2
<1>8. QED
  BY <1>1, <1>3, <1>5, <1>6, <1>7

(* The names expressions and simple statements use are those resolved.     *)
LEMMA ExprUseShape ==
  ASSUME NEW e, NEW n, NEW u \in ExprUses(e, n)
  PROVE  IsUse(n, u) /\ u[2] \in Mentions(e)
<1>1. CASE \E x \in e.uses : u = <<n, x, FALSE>>
  <2>1. PICK x \in e.uses : u = <<n, x, FALSE>>
    BY <1>1
  <2>2. u[2] = x /\ u[3] = FALSE
    BY <2>1
  <2>3. QED
    BY <2>1, <2>2 DEF IsUse, Mentions
<1>2. CASE \E x \in e.bumps : u = <<n, x, TRUE>>
  <2>1. PICK x \in e.bumps : u = <<n, x, TRUE>>
    BY <1>2
  <2>2. u[2] = x /\ u[3] = TRUE
    BY <2>1
  <2>3. QED
    BY <2>1, <2>2 DEF IsUse, Mentions
<1>3. QED
  BY <1>1, <1>2 DEF ExprUses

LEMMA ExprNamesUsed ==
  ASSUME NEW es, NEW n, NEW us, us = UsesIn(es, n)
  PROVE  (\A u \in us : IsUse(n, u)) /\ ExprNames(es) = {u[2] : u \in us}
<1>1. ASSUME NEW u \in us
      PROVE  IsUse(n, u) /\ \E e \in es : u[2] \in Mentions(e)
  <2>1. PICK e \in es : u \in ExprUses(e, n)
    BY DEF UsesIn
  <2>2. QED
    BY <2>1, ExprUseShape
<1>2. ASSUME NEW e \in es, NEW x \in Mentions(e)
      PROVE  \E u \in us : u[2] = x
  <2>1. \E b \in BOOLEAN : <<n, x, b>> \in ExprUses(e, n)
    BY DEF ExprUses, Mentions
  <2>2. QED
    BY <2>1 DEF UsesIn
<1>3. \A x : x \in ExprNames(es) <=> \E e \in es : x \in Mentions(e)
  BY DEF ExprNames
<1>4. \A x : x \in ExprNames(es) <=> x \in {u[2] : u \in us}
  BY <1>1, <1>2, <1>3
<1>5. QED
  BY <1>1, <1>4

LEMMA SimpleNamesUsed ==
  ASSUME NEW s, NEW n, NEW us, us = SimpleUses(s, n)
  PROVE  (\A u \in us : IsUse(n, u)) /\ References(s) = {u[2] : u \in us}
<1> DEFINE own == UsesIn(OwnExprs(s), n)
           v == <<n, s.x, TRUE>>
<1>1. (\A u \in own : IsUse(n, u)) /\ ExprNames(OwnExprs(s)) = {u[2] : u \in own}
  BY ExprNamesUsed
<1>2. us = own \cup (IF s.k = "assign" THEN {v} ELSE {})
  BY DEF SimpleUses, UsesIn
<1>3. References(s) = ExprNames(OwnExprs(s)) \cup (IF s.k = "assign" THEN {s.x} ELSE {})
  BY DEF References, ExprNames
<1>4. IsUse(n, v) /\ v[2] = s.x
  BY DEF IsUse
<1> HIDE DEF own, v
<1>5. CASE s.k = "assign"
  <2>1. us = own \cup {v} /\ References(s) = {u[2] : u \in own} \cup {s.x}
    BY <1>1, <1>2, <1>3, <1>5
  <2>2. {u[2] : u \in us} = {u[2] : u \in own} \cup {s.x}
    BY <1>4, <2>1
  <2>3. \A u \in us : IsUse(n, u)
    BY <1>1, <1>4, <2>1
  <2>4. QED
    BY <2>1, <2>2, <2>3
<1>6. CASE s.k # "assign"
  <2>1. us = own /\ References(s) = {u[2] : u \in own}
    BY <1>1, <1>2, <1>3, <1>6
  <2>2. QED
    BY <1>1, <2>1
<1>7. QED
  BY <1>5, <1>6

(* The walk is at a node, with everything before it in order.              *)
AtNode ==
  /\ prog \in Program /\ IsTree(prog)
  /\ item \in DOMAIN prog /\ pc \in DOMAIN prog[item]
  /\ CallsKnown(prog) /\ Distinct(Met(prog, item, pc))
  /\ CountersMatchFrames /\ ScopesMatchFrames

BindingsAt(p, w) == PartBindings(p, w, UsesAt(At(p, w)))

(* The visit reported these errors exactly because its node breaks a rule, *)
(* and otherwise did all that it had to.                                   *)
Judged(errors) ==
  /\ errors = {} <=> NodeIsLegal(prog, <<item, pc>>)
  /\ errors = {} =>
       /\ binds' = binds \cup BindingsAt(prog, <<item, pc>>)
       /\ \E open, home : WalkAt(prog, item, pc + 1, scopes', frames', open, home)

(* Shevti, leeh, expression statement, assignment and declaration.         *)
LEMMA SimpleJudged ==
  ASSUME AtNode, NEW open, NEW home,
         WalkAt(prog, item, pc, scopes, frames, open, home), VisitSimple
  PROVE  Judged(SimpleErrors(scopes, node))
<1> DEFINE w == <<item, pc>>
<1>1. /\ w \in Nodes(prog) /\ At(prog, w) = node /\ w[1] = item /\ w[2] = pc
      /\ node \in Node /\ node.k \in SimpleKinds /\ node = prog[item][pc]
  BY NodeAt DEF AtNode, VisitSimple, node
<1>2. /\ node.k \notin {"close", "pratyek", "karya", "thamba", "pudhe", "partav"}
      /\ node.k \notin OpenKinds
  BY <1>1 DEF SimpleKinds, OpenKinds
<1>3. node \in Simple
  BY <1>1, NodeFields
<1>4. Sees(prog, w, 0, scopes)
  BY <1>1, <1>2, WalkSees DEF AtNode
<1>5. SimpleErrors(scopes, node) = {} <=>
        /\ \A u \in SimpleUses(node, 0) : UseIsLegal(prog, w, u)
        /\ \A c \in CallsIn(OwnExprs(node)) : CallIsLegal(prog, c)
        /\ PartIsLegal(prog, w, 0, node)
        /\ node.k = "decl" => ~Redeclares(scopes, node.x)
  BY <1>3, <1>4, SimpleErrorsRight DEF AtNode
<1>6. /\ UsesAt(node) = SimpleUses(node, 0)
      /\ AllExprs(node) = OwnExprs(node)
      /\ SimpleParts(node) = {<<0, node>>}
  <2>1. UsesAt(node) = SimpleUses(node, 0)
    BY <1>1, <1>2 DEF UsesAt
  <2>2. AllExprs(node) = OwnExprs(node)
    BY <1>1 DEF AllExprs, SimpleKinds
  <2>3. SimpleParts(node) = {<<0, node>>}
    BY <1>1, <1>2 DEF SimpleParts
  <2>4. QED
    BY <2>1, <2>2, <2>3
<1> HIDE DEF w
<1>7. NodeIsLegal(prog, w) <=>
        /\ \A u \in SimpleUses(node, 0) : UseIsLegal(prog, w, u)
        /\ \A c \in CallsIn(OwnExprs(node)) : CallIsLegal(prog, c)
        /\ PartIsLegal(prog, w, 0, node)
        /\ Fresh(prog, w)
  BY <1>1, <1>2, <1>6 DEF NodeIsLegal
<1>8. binds' = binds \cup BindingsAt(prog, w)
  <2> DEFINE us == SimpleUses(node, 0)
  <2>1. (\A u \in us : IsUse(0, u)) /\ References(node) = {u[2] : u \in us}
    BY SimpleNamesUsed
  <2>2. Resolved(scopes, References(node), 0) = PartBindings(prog, w, us)
    BY <1>4, <2>1, ResolvedRight DEF w
  <2>3. QED
    BY <1>1, <1>6, <2>2 DEF BindingsAt, VisitSimple, Plain
<1>9. CASE node.k = "decl"
  <2>1. ~Redeclares(scopes, node.x) <=> Fresh(prog, w)
    BY <1>1, <1>9, DeclIsFresh DEF AtNode, w
  <2>2. SimpleErrors(scopes, node) = {} <=> NodeIsLegal(prog, w)
    BY <1>5, <1>7, <1>9, <2>1
  <2>3. ASSUME ~Redeclares(scopes, node.x)
        PROVE  WalkAt(prog, item, pc + 1, scopes', frames', open, home)
    <3>1. scopes' = Declare(scopes, VarInfo(node, <<item, pc, 0>>)) /\ frames' = frames
      BY <1>9 DEF VisitSimple, SimpleScopes, Plain
    <3>2. QED
      BY <1>1, <1>9, <2>3, <3>1, WalkDeclares DEF AtNode
  <2>4. QED
    BY <1>5, <1>8, <1>9, <2>2, <2>3 DEF Judged, w
<1>10. CASE node.k # "decl"
  <2>1. DeclarationsAt(prog, w) = {}
    BY <1>1, <1>2, <1>10 DEF DeclarationsAt
  <2>2. Fresh(prog, w)
    BY <2>1 DEF Fresh
  <2>3. SimpleErrors(scopes, node) = {} <=> NodeIsLegal(prog, w)
    BY <1>5, <1>7, <1>10, <2>2
  <2>4. WalkAt(prog, item, pc + 1, scopes', frames', open, home)
    <3>1. scopes' = scopes /\ frames' = frames
      BY <1>10 DEF VisitSimple, SimpleScopes
    <3>2. QED
      BY <1>1, <1>2, <2>1, <3>1, WalkPasses DEF AtNode, w
  <2>5. QED
    BY <1>8, <2>3, <2>4 DEF Judged, w
<1>11. QED
  BY <1>9, <1>10

(* The expressions of a node are expressions.                              *)
LEMMA NodeExprs ==
  ASSUME NEW n \in Node
  PROVE  AllExprs(n) \in SUBSET Expr
<1>1. CASE n.k \in SimpleKinds
  BY <1>1, NodeFields, SimpleFields DEF AllExprs
<1>2. CASE n.k \in {"jar", "nahitar", "jovar"}
  BY <1>2, NodeFields DEF AllExprs, SimpleKinds
<1>3. CASE n.k = "pratyek"
  <2>1. /\ n.init \in Simple /\ n.cond \in Expr /\ n.step \in Simple
    BY <1>3, NodeFields
  <2>2. OwnExprs(n.init) \in SUBSET Expr /\ OwnExprs(n.step) \in SUBSET Expr
    BY <2>1, SimpleFields
  <2>3. AllExprs(n) = OwnExprs(n.init) \cup {n.cond} \cup OwnExprs(n.step)
    BY <1>3 DEF AllExprs, SimpleKinds
  <2>4. QED
    BY <2>1, <2>2, <2>3
<1>4. CASE n.k = "paryay"
  <2>1. n.e \in Expr /\ n.cases \in Seq(SUBSET Expr)
    BY <1>4, NodeFields
  <2>2. \A j \in DOMAIN n.cases : n.cases[j] \in SUBSET Expr
    BY <2>1
  <2>3. AllExprs(n) = {n.e} \cup (UNION {n.cases[j] : j \in DOMAIN n.cases})
    BY <1>4 DEF AllExprs, SimpleKinds
  <2>4. QED
    BY <2>1, <2>2, <2>3
<1>5. CASE n.k = "partav"
  <2>1. AllExprs(n) = n.value
    BY <1>5 DEF AllExprs, SimpleKinds
  <2>2. QED
    BY <1>5, <2>1, NodeFields
<1>6. CASE n.k \notin SimpleKinds
                       \cup {"jar", "nahitar", "jovar", "pratyek", "paryay", "partav"}
  BY <1>6 DEF AllExprs
<1>7. QED
  BY <1>1, <1>2, <1>3, <1>4, <1>5, <1>6

(* A node with expressions in the enclosing scope only, and no statement.  *)
LEMMA PlainErrorsRight ==
  ASSUME AtNode, NEW open, NEW home,
         WalkAt(prog, item, pc, scopes, frames, open, home),
         node.k \notin SimpleKinds \cup {"close", "pratyek"}
  PROVE  /\ ExprsErrors(scopes, AllExprs(node)) = {} <=>
              /\ \A u \in UsesAt(node) : UseIsLegal(prog, <<item, pc>>, u)
              /\ \A c \in CallsIn(AllExprs(node)) : CallIsLegal(prog, c)
              /\ \A sp \in SimpleParts(node) :
                   PartIsLegal(prog, <<item, pc>>, sp[1], sp[2])
         /\ Resolved(scopes, ExprNames(AllExprs(node)), Plain) =
              BindingsAt(prog, <<item, pc>>)
<1> DEFINE w == <<item, pc>>
           us == UsesIn(AllExprs(node), 0)
<1>1. /\ w \in Nodes(prog) /\ At(prog, w) = node /\ w[1] = item /\ w[2] = pc
      /\ node \in Node /\ node = prog[item][pc]
  BY NodeAt DEF AtNode, node
<1>2. Sees(prog, w, 0, scopes)
  BY <1>1, WalkSees DEF AtNode
<1>3. AllExprs(node) \in SUBSET Expr
  BY <1>1, NodeExprs
<1>4. ExprsErrors(scopes, AllExprs(node)) = {} <=>
        /\ \A u \in us : UseIsLegal(prog, w, u)
        /\ \A c \in CallsIn(AllExprs(node)) : CallIsLegal(prog, c)
  BY <1>2, <1>3, ExprsErrorsRight DEF AtNode
<1>5. UsesAt(node) = us
  BY DEF UsesAt, UsesIn
<1>6. SimpleParts(node) = {}
  BY DEF SimpleParts
<1>7. (\A u \in us : IsUse(0, u)) /\ ExprNames(AllExprs(node)) = {u[2] : u \in us}
  BY ExprNamesUsed
<1> HIDE DEF us
<1>8. Resolved(scopes, ExprNames(AllExprs(node)), 0) = PartBindings(prog, w, us)
  BY <1>2, <1>7, ResolvedRight
<1>9. QED
  BY <1>1, <1>4, <1>5, <1>6, <1>8 DEF BindingsAt, Plain

(* Thamba and pudhe.                                                       *)
LEMMA LoopJumpJudged ==
  ASSUME AtNode, NEW open, NEW home,
         WalkAt(prog, item, pc, scopes, frames, open, home), VisitLoopJump
  PROVE  Judged(JumpErrors(node.k))
<1> DEFINE w == <<item, pc>>
<1>1. /\ w \in Nodes(prog) /\ At(prog, w) = node /\ w[1] = item /\ w[2] = pc
      /\ node.k \in {"thamba", "pudhe"} /\ node = prog[item][pc]
  BY NodeAt DEF AtNode, VisitLoopJump, node
<1>2. node.k \notin OpenKinds \cup SimpleKinds \cup {"close", "pratyek", "karya", "partav"}
  BY <1>1 DEF SimpleKinds, OpenKinds
<1>3. UsesAt(node) = {} /\ AllExprs(node) = {} /\ SimpleParts(node) = {}
  <2>1. AllExprs(node) = {}
    BY <1>1 DEF AllExprs, SimpleKinds
  <2>2. UsesAt(node) = {}
    BY <1>2, <2>1 DEF UsesAt
  <2>3. SimpleParts(node) = {}
    BY <1>2 DEF SimpleParts
  <2>4. QED
    BY <2>1, <2>2, <2>3
<1> HIDE DEF w
<1>4. DeclarationsAt(prog, w) = {}
  BY <1>1, <1>2 DEF DeclarationsAt, SimpleKinds
<1>5. NodeIsLegal(prog, w) <=>
        \E o \in Openers(prog, w) : prog[item][o].k \in {"jovar", "pratyek"}
  BY <1>1, <1>2, <1>3, <1>4 DEF NodeIsLegal, Fresh, CallsIn
<1>6. loopDepth # 0 <=> \E o \in Openers(prog, w) : prog[item][o].k \in {"jovar", "pratyek"}
  BY <1>1, <1>2, WalkFrames DEF AtNode, CountersMatchFrames, w
<1>7. JumpErrors(node.k) = {} <=> NodeIsLegal(prog, w)
  BY <1>5, <1>6 DEF JumpErrors
<1>8. binds' = binds \cup BindingsAt(prog, w)
  BY <1>1, <1>3 DEF VisitLoopJump, BindingsAt, PartBindings
<1>9. WalkAt(prog, item, pc + 1, scopes', frames', open, home)
  <2>1. scopes' = scopes /\ frames' = frames
    BY DEF VisitLoopJump
  <2>2. QED
    BY <1>1, <1>2, <1>4, <2>1, WalkPasses DEF AtNode, w
<1>10. QED
  BY <1>7, <1>8, <1>9 DEF Judged, w

(* Partav.                                                                 *)
LEMMA ReturnJudged ==
  ASSUME AtNode, NEW open, NEW home,
         WalkAt(prog, item, pc, scopes, frames, open, home), VisitReturn
  PROVE  Judged((IF funcDepth = 0 THEN {<<"outside function", node.k>>} ELSE {})
                \cup ExprsErrors(scopes, node.value))
<1> DEFINE w == <<item, pc>>
           errors == (IF funcDepth = 0 THEN {<<"outside function", node.k>>} ELSE {})
                     \cup ExprsErrors(scopes, node.value)
<1>1. /\ w \in Nodes(prog) /\ At(prog, w) = node /\ w[1] = item /\ w[2] = pc
      /\ node.k = "partav" /\ node = prog[item][pc]
  <2>1. node.k = "partav"
    BY DEF VisitReturn
  <2>2. QED
    BY <2>1, NodeAt DEF AtNode, node
<1>2. /\ node.k \notin OpenKinds
      /\ node.k \notin SimpleKinds \cup {"close", "pratyek"}
      /\ node.k \notin {"karya", "thamba", "pudhe"}
  BY <1>1 DEF SimpleKinds, OpenKinds
<1>3. AllExprs(node) = node.value
  BY <1>1 DEF AllExprs, SimpleKinds
<1>4. /\ ExprsErrors(scopes, AllExprs(node)) = {} <=>
           /\ \A u \in UsesAt(node) : UseIsLegal(prog, w, u)
           /\ \A c \in CallsIn(AllExprs(node)) : CallIsLegal(prog, c)
           /\ \A sp \in SimpleParts(node) : PartIsLegal(prog, w, sp[1], sp[2])
      /\ Resolved(scopes, ExprNames(AllExprs(node)), Plain) = BindingsAt(prog, w)
  BY <1>2, PlainErrorsRight
<1> HIDE DEF w
<1>5. DeclarationsAt(prog, w) = {}
  BY <1>1 DEF DeclarationsAt
<1>6. Fresh(prog, w)
  BY <1>5 DEF Fresh
<1>7. NodeIsLegal(prog, w) <=>
        /\ ExprsErrors(scopes, AllExprs(node)) = {}
        /\ \E o \in Openers(prog, w) : prog[item][o].k = "karya"
  BY <1>1, <1>2, <1>4, <1>6 DEF NodeIsLegal
<1>8. funcDepth # 0 <=> \E o \in Openers(prog, w) : prog[item][o].k \in {"karya"}
  BY <1>1, <1>2, WalkFrames DEF AtNode, CountersMatchFrames, w
<1>9. errors = {} <=> NodeIsLegal(prog, w)
  BY <1>3, <1>7, <1>8
<1>10. binds' = binds \cup BindingsAt(prog, w)
  BY <1>3, <1>4 DEF VisitReturn
<1>11. WalkAt(prog, item, pc + 1, scopes', frames', open, home)
  <2>1. scopes' = scopes /\ frames' = frames
    BY DEF VisitReturn
  <2>2. QED
    BY <1>1, <1>2, <1>5, <2>1, WalkPasses DEF AtNode, w
<1>12. QED
  BY <1>9, <1>10, <1>11 DEF Judged, w

(* A block, an arm or a while: a scope, with nothing in it.                *)
LEMMA BlockJudged ==
  ASSUME AtNode, NEW open, NEW home,
         WalkAt(prog, item, pc, scopes, frames, open, home),
         EnterBlock \/ EnterWhile \/ EnterSwitch
  PROVE  Judged(ExprsErrors(scopes, AllExprs(node)))
<1> DEFINE w == <<item, pc>>
<1>1. /\ w \in Nodes(prog) /\ At(prog, w) = node /\ w[1] = item /\ w[2] = pc
      /\ node.k \in OpenKinds \ {"pratyek", "karya"} /\ node = prog[item][pc]
  BY NodeAt DEF AtNode, EnterBlock, EnterWhile, EnterSwitch, node, OpenKinds
<1>2. /\ node.k \notin SimpleKinds \cup {"close", "pratyek"}
      /\ node.k \notin {"karya", "thamba", "pudhe", "partav", "decl"}
  BY <1>1 DEF SimpleKinds, OpenKinds
<1>3. /\ ExprsErrors(scopes, AllExprs(node)) = {} <=>
           /\ \A u \in UsesAt(node) : UseIsLegal(prog, w, u)
           /\ \A c \in CallsIn(AllExprs(node)) : CallIsLegal(prog, c)
           /\ \A sp \in SimpleParts(node) : PartIsLegal(prog, w, sp[1], sp[2])
      /\ Resolved(scopes, ExprNames(AllExprs(node)), Plain) = BindingsAt(prog, w)
  BY <1>2, PlainErrorsRight
<1> HIDE DEF w
<1>4. DeclarationsAt(prog, w) = {}
  BY <1>1, <1>2 DEF DeclarationsAt
<1>5. Fresh(prog, w)
  BY <1>4 DEF Fresh
<1>6. NodeIsLegal(prog, w) <=> ExprsErrors(scopes, AllExprs(node)) = {}
  BY <1>1, <1>2, <1>3, <1>5 DEF NodeIsLegal
<1>7. binds' = binds \cup BindingsAt(prog, w)
  <2>1. CASE EnterBlock \/ EnterSwitch
    BY <1>3, <2>1 DEF EnterBlock, EnterSwitch
  <2>2. CASE EnterWhile
    <3>1. AllExprs(node) = {node.e}
      BY <2>2 DEF EnterWhile, AllExprs, SimpleKinds
    <3>2. ExprNames(AllExprs(node)) = Mentions(node.e)
      BY <3>1 DEF ExprNames
    <3>3. QED
      BY <1>3, <2>2, <3>2 DEF EnterWhile
  <2>3. QED
    BY <2>1, <2>2
<1>8. frames' = Append(frames, node.k)
  BY DEF EnterBlock, EnterWhile, EnterSwitch, Push
<1>9. \E open1, home1 : WalkAt(prog, item, pc + 1, scopes', frames', open1, home1)
  <2>1. CASE node.k = "paryay"
    <3>1. scopes' = scopes
      BY <2>1 DEF EnterBlock, EnterWhile, EnterSwitch
    <3>2. WalkAt(prog, item, pc + 1, scopes, Append(frames, node.k), Append(open, pc),
                 home)
      BY <1>1, <2>1, WalkSwitches DEF AtNode
    <3>3. QED
      BY <1>8, <3>1, <3>2
  <2>2. CASE node.k # "paryay"
    <3>1. scopes' = Append(scopes, {})
      BY <2>2 DEF EnterBlock, EnterWhile, EnterSwitch, PushScope
    <3>2. {Seen(d) : d \in DeclarationsAt(prog, w)} = {}
      BY <1>4
    <3>3. WalkAt(prog, item, pc + 1,
                 Append(scopes, {Seen(d) : d \in DeclarationsAt(prog, w)}),
                 Append(frames, node.k), Append(open, pc),
                 Append(home, <<item, pc, 0>>))
      BY <1>1, <2>2, WalkOpens DEF AtNode, w
    <3>4. QED
      BY <1>8, <3>1, <3>2, <3>3
  <2>3. QED
    BY <2>1, <2>2
<1>10. QED
  BY <1>6, <1>7, <1>9 DEF Judged, w

(* Pratyek: each part of its header in the scopes it is visited in.        *)
LEMMA ForJudged ==
  ASSUME AtNode, NEW open, NEW home,
         WalkAt(prog, item, pc, scopes, frames, open, home), EnterFor,
         NEW header, header = Append(scopes, {}),
         NEW inside, inside = SimpleScopes(header, node.init, <<item, pc, 1>>)
  PROVE  Judged(SimpleErrors(header, node.init) \cup ExprErrors(inside, node.cond)
                \cup SimpleErrors(inside, node.step))
<1> DEFINE w == <<item, pc>>
           a == SimpleErrors(header, node.init)
           b == ExprErrors(inside, node.cond)
           c == SimpleErrors(inside, node.step)
<1>1. /\ w \in Nodes(prog) /\ At(prog, w) = node /\ w[1] = item /\ w[2] = pc
      /\ node.k = "pratyek" /\ node = prog[item][pc] /\ node \in Node
  <2>1. node.k = "pratyek"
    BY DEF EnterFor
  <2>2. QED
    BY <2>1, NodeAt DEF AtNode, node
<1>2. /\ node.init \in Simple /\ node.cond \in Expr
      /\ node.step \in Simple /\ node.step \notin Decl
  BY <1>1, NodeFields
<1>3. node.step.k # "decl"
  BY <1>2, SimpleFields
<1>4. Sees(prog, w, 1, header)
  BY <1>1, ForHeader DEF AtNode
<1>5. Sees(prog, w, 2, inside) /\ Sees(prog, w, 3, inside)
  BY <1>1, ForInside DEF AtNode
<1> DEFINE u1 == SimpleUses(node.init, 1)
           u2 == ExprUses(node.cond, 2)
           u3 == SimpleUses(node.step, 3)
<1>6. /\ UsesAt(node) = u1 \cup u2 \cup u3
      /\ SimpleParts(node) = {<<1, node.init>>, <<3, node.step>>}
      /\ AllExprs(node) = OwnExprs(node.init) \cup {node.cond} \cup OwnExprs(node.step)
  <2>1. UsesAt(node) = u1 \cup u2 \cup u3
    BY <1>1 DEF UsesAt, SimpleKinds
  <2>2. SimpleParts(node) = {<<1, node.init>>, <<3, node.step>>}
    BY <1>1 DEF SimpleParts, SimpleKinds
  <2>3. AllExprs(node) = OwnExprs(node.init) \cup {node.cond} \cup OwnExprs(node.step)
    BY <1>1 DEF AllExprs, SimpleKinds
  <2>4. QED
    BY <2>1, <2>2, <2>3
<1> HIDE DEF w, u1, u2, u3
<1>7. a = {} <=>
        /\ \A u \in u1 : UseIsLegal(prog, w, u)
        /\ \A d \in CallsIn(OwnExprs(node.init)) : CallIsLegal(prog, d)
        /\ PartIsLegal(prog, w, 1, node.init)
  <2>1. a = {} <=>
          /\ \A u \in u1 : UseIsLegal(prog, w, u)
          /\ \A d \in CallsIn(OwnExprs(node.init)) : CallIsLegal(prog, d)
          /\ PartIsLegal(prog, w, 1, node.init)
          /\ node.init.k = "decl" => ~Redeclares(header, node.init.x)
    BY <1>2, <1>4, SimpleErrorsRight DEF AtNode, u1
  <2>2. ~Redeclares(header, node.init.x)
    <3>1. scopes \in Seq(SUBSET VarInfos)
      BY DEF WalkAt, Mirrors, Scopes
    <3>2. /\ header \in Seq(SUBSET VarInfos) /\ Len(header) = Len(scopes) + 1
          /\ header[Len(scopes) + 1] = {}
      BY <3>1
    <3>3. Last(header) = {}
      BY <3>2 DEF Last
    <3>4. QED
      BY <3>3 DEF Redeclares, Named
  <2>3. QED
    BY <2>1, <2>2
<1>8. b = {} <=>
        /\ \A u \in u2 : UseIsLegal(prog, w, u)
        /\ \A d \in node.cond.calls : CallIsLegal(prog, d)
  BY <1>2, <1>5, ExprErrorsRight DEF AtNode, u2
<1>9. c = {} <=>
        /\ \A u \in u3 : UseIsLegal(prog, w, u)
        /\ \A d \in CallsIn(OwnExprs(node.step)) : CallIsLegal(prog, d)
        /\ PartIsLegal(prog, w, 3, node.step)
  BY <1>2, <1>3, <1>5, SimpleErrorsRight DEF AtNode, u3
<1>10. (\A d \in CallsIn(AllExprs(node)) : CallIsLegal(prog, d)) <=>
         /\ \A d \in CallsIn(OwnExprs(node.init)) : CallIsLegal(prog, d)
         /\ \A d \in node.cond.calls : CallIsLegal(prog, d)
         /\ \A d \in CallsIn(OwnExprs(node.step)) : CallIsLegal(prog, d)
  BY <1>6 DEF CallsIn
<1>11. (\A sp \in SimpleParts(node) : PartIsLegal(prog, w, sp[1], sp[2])) <=>
         PartIsLegal(prog, w, 1, node.init) /\ PartIsLegal(prog, w, 3, node.step)
  BY <1>6
<1>12. Fresh(prog, w)
  BY <1>1, ForIsFresh DEF AtNode
<1>13. NodeIsLegal(prog, w) <=>
         /\ \A u \in u1 \cup u2 \cup u3 : UseIsLegal(prog, w, u)
         /\ \A d \in CallsIn(AllExprs(node)) : CallIsLegal(prog, d)
         /\ \A sp \in SimpleParts(node) : PartIsLegal(prog, w, sp[1], sp[2])
  BY <1>1, <1>6, <1>12 DEF NodeIsLegal
<1> HIDE DEF a, b, c
<1>14. a \cup b \cup c = {} <=> NodeIsLegal(prog, w)
  BY <1>7, <1>8, <1>9, <1>10, <1>11, <1>13
<1>15. /\ Resolved(header, References(node.init), 1) = PartBindings(prog, w, u1)
       /\ Resolved(inside, Mentions(node.cond), 2) = PartBindings(prog, w, u2)
       /\ Resolved(inside, References(node.step), 3) = PartBindings(prog, w, u3)
  <2>1. (\A u \in u1 : IsUse(1, u)) /\ References(node.init) = {u[2] : u \in u1}
    BY SimpleNamesUsed DEF u1
  <2>2. (\A u \in u2 : IsUse(2, u)) /\ Mentions(node.cond) = {u[2] : u \in u2}
    <3>1. u2 = UsesIn({node.cond}, 2)
      BY DEF u2, UsesIn
    <3>2. ExprNames({node.cond}) = Mentions(node.cond)
      BY DEF ExprNames
    <3>3. QED
      BY <3>1, <3>2, ExprNamesUsed
  <2>3. (\A u \in u3 : IsUse(3, u)) /\ References(node.step) = {u[2] : u \in u3}
    BY SimpleNamesUsed DEF u3
  <2>4. Resolved(header, References(node.init), 1) = PartBindings(prog, w, u1)
    BY <1>4, <2>1, ResolvedRight DEF w
  <2>5. Resolved(inside, Mentions(node.cond), 2) = PartBindings(prog, w, u2)
    BY <1>5, <2>2, ResolvedRight DEF w
  <2>6. Resolved(inside, References(node.step), 3) = PartBindings(prog, w, u3)
    BY <1>5, <2>3, ResolvedRight DEF w
  <2>7. QED
    BY <2>4, <2>5, <2>6
<1>16. binds' = binds \cup BindingsAt(prog, w)
  <2>1. PartBindings(prog, w, u1 \cup u2 \cup u3) =
          PartBindings(prog, w, u1) \cup PartBindings(prog, w, u2)
            \cup PartBindings(prog, w, u3)
    BY DEF PartBindings
  <2>2. binds' = binds
          \cup Resolved(header, References(node.init), 1)
          \cup Resolved(inside, Mentions(node.cond), 2)
          \cup Resolved(inside, References(node.step), 3)
    BY DEF EnterFor, PushScope, InInit, InCond, InStep
  <2>3. BindingsAt(prog, w) = PartBindings(prog, w, u1 \cup u2 \cup u3)
    BY <1>1, <1>6 DEF BindingsAt
  <2>4. binds' = binds \cup PartBindings(prog, w, u1)
                      \cup PartBindings(prog, w, u2) \cup PartBindings(prog, w, u3)
    BY <1>15, <2>2
  <2> HIDE DEF BindingsAt, PartBindings
  <2>5. QED
    BY <2>1, <2>3, <2>4
<1>17. WalkAt(prog, item, pc + 1, scopes', frames', Append(open, pc),
              Append(Append(home, <<item, pc, 1>>), <<item, pc, 0>>))
  <2>1. scopes' = Append(inside, {}) /\ frames' = Append(frames, node.k)
    BY DEF EnterFor, PushScope, InInit, Push
  <2>2. QED
    BY <1>1, <2>1, WalkFors DEF AtNode
<1>18. QED
  BY <1>14, <1>16, <1>17 DEF Judged, w, a, b, c

(* A function's parameters are new in its block if they differ.            *)
LEMMA ParametersFresh ==
  ASSUME NEW p \in Program, NEW w \in Nodes(p), At(p, w).k = "karya",
         NEW params, params = At(p, w).params
  PROVE  Fresh(p, w) <=> \A i, j \in DOMAIN params : params[i] = params[j] => i = j
<1> DEFINE Par(j) == [name |-> params[j], ahe |-> FALSE,
                      purnank |-> j \in At(p, w).purnanks,
                      site |-> <<w[1], w[2], j>>, block |-> <<w[1], w[2], 0>>]
           P == {Par(j) : j \in DOMAIN params}
<1>1. DeclarationsAt(p, w) = P
  BY DEF DeclarationsAt
<1>2. \A j : /\ Par(j).name = params[j] /\ Par(j).site = <<w[1], w[2], j>>
             /\ Par(j).block = <<w[1], w[2], 0>>
  OBVIOUS
<1>3. \A c \in Met(p, w[1], w[2]) : c.block # <<w[1], w[2], 0>>
  BY MetEarlier
<1> HIDE DEF Par
<1>4. Fresh(p, w) <=>
        \A d \in P : \A c \in P :
          c.name = d.name /\ c.block = d.block => c.site = d.site
  <2>1. \A d \in P : d.block = <<w[1], w[2], 0>>
    BY <1>2
  <2> HIDE DEF P
  <2>2. QED
    BY <1>1, <1>3, <2>1 DEF Fresh
<1>5. (\A d \in P : \A c \in P :
         c.name = d.name /\ c.block = d.block => c.site = d.site)
        <=> \A i, j \in DOMAIN params :
              params[i] = params[j] => Par(i).site = Par(j).site
  BY <1>2
<1>6. \A i, j : Par(i).site = Par(j).site <=> i = j
  <2>1. SUFFICES ASSUME NEW i, NEW j, Par(i).site = Par(j).site PROVE i = j
    OBVIOUS
  <2>2. <<w[1], w[2], i>>[3] = <<w[1], w[2], j>>[3]
    BY <1>2, <2>1
  <2>3. QED
    BY <2>2
<1>7. QED
  BY <1>4, <1>5, <1>6

(* A node in no block but switches is the first of its statement.          *)
LEMMA OnlyFirstIsOutside ==
  ASSUME NEW p \in Program, IsTree(p), NEW i \in DOMAIN p, NEW q \in DOMAIN p[i],
         p[i][q].k = "karya",
         \A o \in Openers(p, <<i, q>>) : p[i][o].k = "paryay"
  PROVE  q = 1
<1> DEFINE os == Openers(p, <<i, q>>)
           t == p[i]
<1>1. /\ t \in Seq(Node) /\ IsStatement(t) /\ q \in Nat \ {0}
  BY TreeBracketed, NodeAt
<1>2. os = Around(t, q) /\ os \in SUBSET (1..(q - 1))
  BY DEF Openers, Around
<1> HIDE DEF os
<1>3. SUFFICES ASSUME q # 1 PROVE FALSE
  OBVIOUS
<1>4. /\ Around(t, q) = {} => t[q].k \in {"nahitar", "anyatha"}
      /\ \A o \in Around(t, q) :
           Innermost(Around(t, q), o) /\ t[o].k = "paryay" => t[q].k = "case"
  <2>1. q \in 2..Len(t)
    BY <1>1, <1>3
  <2>2. t[q].k # "close"
    OBVIOUS
  <2>3. QED
    BY <1>1, <2>1, <2>2 DEF IsStatement
<1>5. os # {}
  BY <1>2, <1>4
<1>6. Max(os) \in os /\ \A r \in os : Max(os) >= r
  <2>1. q - 1 \in Nat
    BY <1>1, <1>3
  <2>2. QED
    BY <1>2, <1>5, <2>1, MaxOfPositions
<1>7. Innermost(os, Max(os))
  <2>1. \A r \in os : r <= Max(os)
    BY <1>2, <1>6
  <2>2. QED
    BY <1>6, <2>1 DEF Innermost
<1>8. t[Max(os)].k = "paryay"
  BY <1>6 DEF os
<1>9. QED
  BY <1>2, <1>4, <1>6, <1>7, <1>8

(* What a function's node says besides its parameters.                     *)
LEMMA FunctionIsLegal ==
  ASSUME NEW p \in Program, NEW w \in Nodes(p), At(p, w).k = "karya"
  PROVE  /\ NodeIsLegal(p, w) <=> Fresh(p, w) /\ w[2] = 1
         /\ BindingsAt(p, w) = {}
<1> DEFINE n == At(p, w)
<1>1. AllExprs(n) = {}
  BY DEF AllExprs, SimpleKinds
<1>2. UsesAt(n) = {}
  BY <1>1 DEF UsesAt, SimpleKinds
<1>3. SimpleParts(n) = {}
  BY DEF SimpleParts, SimpleKinds
<1>4. CallsIn(AllExprs(n)) = {}
  BY <1>1 DEF CallsIn
<1>5. n.k \notin {"thamba", "pudhe", "partav"}
  OBVIOUS
<1>6. QED
  BY <1>2, <1>3, <1>4, <1>5 DEF NodeIsLegal, BindingsAt, PartBindings

(* The scopes tell whether a node is in a block other than switches.       *)
LEMMA ScopesTell ==
  ASSUME AtNode, phase # "done", node.k = "karya", NEW open, NEW home,
         WalkAt(prog, item, pc, scopes, frames, open, home)
  PROVE  (funcDepth = 0 /\ Len(scopes) = 1) <=> pc = 1
<1> DEFINE w == <<item, pc>>
           plain == OpenKinds \ {"paryay"}
<1>1. node = prog[item][pc] /\ pc \in Nat \ {0}
  BY NodeAt DEF AtNode, node
<1>2. \A kinds :
        /\ Cardinality(FramesOf(frames, kinds)) # 0
             <=> \E o \in Openers(prog, w) : prog[item][o].k \in kinds
        /\ frames = <<>> => Openers(prog, w) = {}
        /\ Cardinality(FramesOf(frames, kinds)) \in Nat
  <2>1. frames \in Seq(OpenKinds)
    BY DEF WalkAt, Nesting
  <2>2. \A kinds : Cardinality(FramesOf(frames, kinds)) \in Nat
    BY <2>1, FramesCounted
  <2>3. QED
    BY <1>1, <2>2, WalkFrames DEF AtNode
<1>3. \A o \in Openers(prog, w) : prog[item][o].k \in OpenKinds /\ o \in 1..(pc - 1)
  BY DEF Openers, Around
<1>4. Len(scopes) = 1 + Cardinality(FramesOf(frames, plain))
                      + Cardinality(FramesOf(frames, {"pratyek"}))
  BY DEF AtNode, ScopesMatchFrames
<1>5. funcDepth = Cardinality(FramesOf(frames, {"karya"}))
  BY DEF AtNode, CountersMatchFrames
<1>6. ASSUME pc = 1 PROVE funcDepth = 0 /\ Len(scopes) = 1
  <2>1. Openers(prog, w) = {}
    BY <1>3, <1>6
  <2>2. \A kinds : Cardinality(FramesOf(frames, kinds)) = 0
    BY <1>2, <2>1
  <2>3. QED
    BY <1>4, <1>5, <2>2
<1>7. ASSUME Len(scopes) = 1 PROVE pc = 1
  <2>1. Cardinality(FramesOf(frames, plain)) = 0
    <3> DEFINE a == Cardinality(FramesOf(frames, plain))
               b == Cardinality(FramesOf(frames, {"pratyek"}))
    <3>1. a \in Nat /\ b \in Nat
      BY <1>2
    <3>2. 1 = 1 + a + b
      BY <1>4, <1>7
    <3> HIDE DEF a, b
    <3>3. a = 0
      BY <3>1, <3>2
    <3>4. QED
      BY <3>3 DEF a
  <2>2. ~\E o \in Openers(prog, w) : prog[item][o].k \in plain
    BY <1>2, <2>1
  <2>3. \A o \in Openers(prog, w) : prog[item][o].k = "paryay"
    BY <1>3, <2>2
  <2>4. QED
    BY <1>1, <2>3, OnlyFirstIsOutside DEF AtNode
<1>8. QED
  BY <1>6, <1>7

(* Karya at the top level: its parameters.                                 *)
LEMMA FunctionJudged ==
  ASSUME AtNode, NEW open, NEW home,
         WalkAt(prog, item, pc, scopes, frames, open, home), EnterFunction
  PROVE  Judged({<<"duplicate", node.params[j]>> :
                   j \in (DOMAIN node.params) \ FirstParams})
<1> DEFINE w == <<item, pc>>
           params == node.params
           errors == {<<"duplicate", node.params[j]>> :
                        j \in (DOMAIN node.params) \ FirstParams}
<1>1. /\ w \in Nodes(prog) /\ At(prog, w) = node /\ w[1] = item /\ w[2] = pc
      /\ node.k = "karya" /\ node = prog[item][pc] /\ node \in Node
      /\ phase # "done"
  <2>1. node.k = "karya" /\ phase # "done"
    BY DEF EnterFunction, Visiting
  <2>2. QED
    BY <2>1, NodeAt DEF AtNode, node
<1>2. pc = 1
  BY <1>1, ScopesTell DEF EnterFunction
<1>3. params \in Seq(Idents)
  BY <1>1, NodeFields
<1> HIDE DEF w
<1>4. /\ NodeIsLegal(prog, w) <=> Fresh(prog, w)
      /\ BindingsAt(prog, w) = {}
  BY <1>1, <1>2, FunctionIsLegal DEF AtNode
<1>5. Fresh(prog, w) <=> \A i, j \in DOMAIN params : params[i] = params[j] => i = j
  BY <1>1, ParametersFresh DEF AtNode
<1>6. errors = {} <=> FirstParams = DOMAIN params
  BY DEF FirstParams
<1>7. FirstParams = DOMAIN params
        <=> \A i, j \in DOMAIN params : params[i] = params[j] => i = j
  <2>1. DOMAIN params = 1..Len(params) /\ Len(params) \in Nat
    BY <1>3
  <2>2. FirstParams = {j \in DOMAIN params : \A i \in 1..(j - 1) : params[i] # params[j]}
    BY DEF FirstParams
  <2>3. ASSUME FirstParams = DOMAIN params, NEW i \in DOMAIN params,
               NEW j \in DOMAIN params, params[i] = params[j], i < j
        PROVE  FALSE
    <3>1. i \in 1..(j - 1)
      BY <2>1, <2>3
    <3>2. QED
      BY <2>2, <2>3, <3>1
  <2>4. ASSUME \A i, j \in DOMAIN params : params[i] = params[j] => i = j,
               NEW j \in DOMAIN params, NEW i \in 1..(j - 1)
        PROVE  params[i] # params[j]
    <3>1. i \in DOMAIN params /\ i # j
      BY <2>1
    <3>2. QED
      BY <2>4, <3>1
  <2>5. \A i, j \in DOMAIN params : i < j \/ i = j \/ j < i
    BY <2>1
  <2>6. QED
    BY <2>2, <2>3, <2>4, <2>5
<1>8. errors = {} <=> NodeIsLegal(prog, w)
  BY <1>4, <1>5, <1>6, <1>7
<1>9. binds' = binds \cup BindingsAt(prog, w)
  BY <1>4 DEF EnterFunction
<1>10. ASSUME errors = {}
       PROVE  WalkAt(prog, item, pc + 1, scopes', frames', Append(open, pc),
                     Append(home, <<item, pc, 0>>))
  <2> DEFINE P == DeclarationsAt(prog, w)
  <2>1. scopes' = Append(scopes, {Param(j) : j \in DOMAIN params})
    BY <1>6, <1>10 DEF EnterFunction
  <2>2. {Param(j) : j \in DOMAIN params} = {Seen(d) : d \in P}
    <3> DEFINE Par(j) == [name |-> params[j], ahe |-> FALSE,
                          purnank |-> j \in node.purnanks,
                          site |-> <<w[1], w[2], j>>, block |-> <<w[1], w[2], 0>>]
    <3>1. P = {Par(j) : j \in DOMAIN params}
      BY <1>1 DEF DeclarationsAt
    <3>2. \A j : Seen(Par(j)) = Param(j)
      BY <1>1 DEF Seen, Param
    <3> HIDE DEF Par
    <3>3. QED
      BY <3>1, <3>2
  <2>3. frames' = Append(frames, node.k)
    BY DEF EnterFunction, Push
  <2>4. WalkAt(prog, item, pc + 1, Append(scopes, {Seen(d) : d \in P}),
               Append(frames, node.k), Append(open, pc), Append(home, <<item, pc, 0>>))
    <3>1. node.k \in OpenKinds \ {"paryay", "pratyek"}
      BY <1>1 DEF OpenKinds
    <3>2. QED
      BY <1>1, <3>1, WalkOpens DEF AtNode, w
  <2>5. QED
    BY <2>1, <2>2, <2>3, <2>4
<1>11. QED
  BY <1>8, <1>9, <1>10 DEF Judged, w

(* Karya elsewhere breaks a rule.                                          *)
LEMMA NestedIsIllegal ==
  ASSUME AtNode, NEW open, NEW home,
         WalkAt(prog, item, pc, scopes, frames, open, home), RejectNestedFunction
  PROVE  ~NodeIsLegal(prog, <<item, pc>>)
<1>1. node.k = "karya" /\ phase # "done"
  BY DEF RejectNestedFunction, Visiting
<1>2. ~(funcDepth = 0 /\ Len(scopes) = 1)
  <2>1. funcDepth > 0 \/ Len(scopes) > 1
    BY DEF RejectNestedFunction
  <2>2. SUFFICES ASSUME funcDepth = 0, Len(scopes) = 1 PROVE FALSE
    OBVIOUS
  <2>3. 0 > 0 \/ 1 > 1
    BY <2>1, <2>2
  <2>4. QED
    BY <2>3
<1>3. pc # 1
  BY <1>1, <1>2, ScopesTell
<1>4. <<item, pc>> \in Nodes(prog) /\ At(prog, <<item, pc>>).k = "karya"
  BY <1>1, NodeAt DEF AtNode, node
<1>5. QED
  BY <1>3, <1>4, FunctionIsLegal DEF AtNode

(* The end of a block.                                                     *)
LEMMA CloseJudged ==
  ASSUME AtNode, NEW open, NEW home,
         WalkAt(prog, item, pc, scopes, frames, open, home), LeaveBlock
  PROVE  Judged({})
<1> DEFINE w == <<item, pc>>
<1>1. /\ w \in Nodes(prog) /\ At(prog, w) = node /\ node.k = "close"
      /\ node = prog[item][pc] /\ frames # <<>>
  <2>1. node.k = "close" /\ frames # <<>>
    BY DEF LeaveBlock
  <2>2. QED
    BY <2>1, NodeAt DEF AtNode, node
<1> HIDE DEF w
<1>2. AllExprs(node) = {}
  BY <1>1 DEF AllExprs, SimpleKinds
<1>3. UsesAt(node) = {}
  BY <1>1, <1>2 DEF UsesAt, SimpleKinds
<1>4. SimpleParts(node) = {}
  BY <1>1 DEF SimpleParts, SimpleKinds
<1>5. DeclarationsAt(prog, w) = {}
  BY <1>1 DEF DeclarationsAt
<1>6. NodeIsLegal(prog, w)
  BY <1>1, <1>2, <1>3, <1>4, <1>5 DEF NodeIsLegal, Fresh, CallsIn
<1>7. binds' = binds \cup BindingsAt(prog, w)
  BY <1>1, <1>3 DEF LeaveBlock, BindingsAt, PartBindings
<1>8. \E home1 : WalkAt(prog, item, pc + 1, ScopesLeft(Last(frames), scopes),
                        Front(frames), Front(open), home1)
  BY <1>1, WalkCloses DEF AtNode
<1>9. scopes' = ScopesLeft(Last(frames), scopes) /\ frames' = Front(frames)
  BY DEF LeaveBlock
<1>10. QED
  BY <1>6, <1>7, <1>8, <1>9 DEF Judged, w

-----------------------------------------------------------------------------
(* The verdict.                                                            *)

(* What the walk has established: as long as nothing was reported, that    *)
(* everything visited obeys the rules, that the names in it were resolved  *)
(* lexically, and that the scopes mirror the blocks it is in.              *)
Verdict ==
  /\ phase = "collect" => /\ item = 1 /\ pc = 1 /\ scopes = <<{}>>
                          /\ frames = <<>> /\ diags = {} /\ binds = {}
  /\ WellFormed(prog) => diags = {}
  /\ phase # "collect" /\ diags = {} =>
       /\ FunctionsAreDistinct(prog) /\ CallsKnown(prog)
       /\ \A v \in Visited(prog, item, pc) : NodeIsLegal(prog, v)
       /\ binds = UNION {BindingsAt(prog, v) : v \in Visited(prog, item, pc)}
  /\ phase = "visit" /\ diags = {} =>
       \E open, home : WalkAt(prog, item, pc, scopes, frames, open, home)
  /\ phase = "done" => item > Len(prog)

(* The first function of a name is one, and the only one when the          *)
(* functions differ.                                                       *)
LEMMA FirstIsFunction ==
  ASSUME NEW p \in Program, NEW f, NEW i \in FunctionItems(p), p[i][1].x = f
  PROVE  FirstOf(p, f) \in FunctionItems(p) /\ p[FirstOf(p, f)][1].x = f
<1> DEFINE T == {j \in FunctionItems(p) : p[j][1].x = f}
<1>1. T \in SUBSET Nat /\ T # {}
  BY DEF FunctionItems, Program
<1>2. Min(T) \in T
  BY <1>1, MinOfNaturals
<1>3. QED
  BY <1>2 DEF FirstOf

(* Collecting the signatures.                                              *)
LEMMA CollectJudged ==
  ASSUME prog \in Program, CollectFunctionSignatures, diags = {}
  PROVE  /\ diags' = {} <=> FunctionsAreDistinct(prog)
         /\ FunctionsAreDistinct(prog) => CallsKnown(prog)'
<1> DEFINE F == FunctionItems(prog)
           first(i) == FirstOf(prog, prog[i][1].x)
<1>1. \A i \in F : first(i) \in F /\ prog[first(i)][1].x = prog[i][1].x
  BY FirstIsFunction
<1>2. FunctionsAreDistinct(prog) <=>
        \A i, j \in F : prog[i][1].x = prog[j][1].x => i = j
  BY DEF FunctionsAreDistinct, FunctionItems
<1>3. diags' = {} <=> \A i \in F : i = first(i)
  BY DEF CollectFunctionSignatures
<1>4. (\A i \in F : i = first(i)) <=> FunctionsAreDistinct(prog)
  <2>1. ASSUME \A i \in F : i = first(i), NEW i \in F, NEW j \in F,
               prog[i][1].x = prog[j][1].x
        PROVE  i = j
    <3>1. first(i) = first(j)
      BY <2>1
    <3>2. QED
      BY <2>1, <3>1
  <2> HIDE DEF first, F
  <2>2. QED
    BY <1>1, <1>2, <2>1
<1>5. ASSUME FunctionsAreDistinct(prog), NEW c \in Idents \X Nat
      PROVE  CallErrors(c)' = {} <=> CallIsLegal(prog', c)
  <2>1. /\ functions' = [f \in FunctionNames(prog) |->
                           Len(prog[FirstOf(prog, f)][1].params)]
        /\ prog' = prog
    BY DEF CollectFunctionSignatures
  <2>2. CallErrors(c)' = {} <=> c[1] \in DOMAIN functions' /\ functions'[c[1]] = c[2]
    BY DEF CallErrors
  <2>3. c[1] \in FunctionNames(prog) <=> \E i \in F : prog[i][1].x = c[1]
    BY DEF FunctionNames, FunctionItems
  <2>4. CallIsLegal(prog, c) <=>
          \E i \in F : prog[i][1].x = c[1] /\ Len(prog[i][1].params) = c[2]
    BY DEF CallIsLegal, FunctionItems
  <2>5. ASSUME NEW i \in F, prog[i][1].x = c[1]
        PROVE  functions'[c[1]] = Len(prog[i][1].params)
    <3>1. i = FirstOf(prog, c[1])
      BY <1>4, <1>5, <2>5
    <3>2. QED
      BY <2>1, <2>3, <2>5, <3>1
  <2> HIDE DEF F
  <2>6. QED
    BY <2>1, <2>2, <2>3, <2>4, <2>5
<1>6. QED
  BY <1>3, <1>4, <1>5 DEF CallsKnown

(* Where the walk begins.                                                  *)
LEMMA WalkStarts ==
  ASSUME NEW p \in Program
  PROVE  WalkAt(p, 1, 1, <<{}>>, <<>>, <<>>, <<TopLevel>>)
<1> DEFINE sc == <<{}>>
           home == <<TopLevel>>
<1>1. Nesting(p[1], 1, <<>>, <<>>)
  BY NestingStarts
<1>2. Met(p, 1, 1) = {}
  BY VisitedFirst DEF Met
<1>3. /\ sc \in Scopes /\ home \in Seq(Places) /\ Len(home) = Len(sc)
      /\ Len(sc) = 1 /\ sc[1] = {} /\ home[1] = TopLevel
  BY DEF Scopes, Places, TopLevel
<1> HIDE DEF sc, home
<1>4. \A a, b \in 1..Len(sc) : ~(a < b)
  BY <1>3
<1>5. \A a \in 1..Len(sc) : sc[a] = {}
  BY <1>3
<1>6. Mirrors({}, sc, home)
  <2>1. \A a \in 1..Len(sc) : sc[a] = {Seen(d) : d \in {c \in {} : c.block = home[a]}}
    BY <1>5
  <2>2. QED
    BY <1>3, <1>4, <2>1 DEF Mirrors
<1>7. Unclosed(p[1], 1) = {}
  BY DEF Unclosed
<1>8. Homes(1, p[1], {}) = {TopLevel}
  BY DEF Homes
<1>9. Range1(home) = {TopLevel}
  BY <1>3 DEF Range1
<1>10. QED
  BY <1>1, <1>2, <1>6, <1>7, <1>8, <1>9 DEF WalkAt, sc, home

(* The constructor.                                                        *)
LEMMA InitUndecided == Init => Verdict
BY DEF Init, InitOn, Verdict

(* The walk is where the lemmas above assume it.                           *)
LEMMA VisitingAtNode ==
  ASSUME IInv, Verdict, Visiting, diags = {}
  PROVE  /\ AtNode
         /\ \E open, home : WalkAt(prog, item, pc, scopes, frames, open, home)
<1>1. prog \in Program /\ IsTree(prog)
  BY ProgramsAssumption DEF IInv, PlaceIsInProgram
<1>2. item \in DOMAIN prog /\ pc \in DOMAIN prog[item]
  <2>1. prog \in Seq(Seq(Node))
    BY <1>1 DEF Program
  <2>2. QED
    BY <2>1 DEF IInv, PlaceIsInProgram, Visiting
<1>3. /\ phase = "visit" /\ CallsKnown(prog)
      /\ \A v \in Visited(prog, item, pc) : NodeIsLegal(prog, v)
  BY DEF Verdict, Visiting
<1>4. \A v \in Visited(prog, item, pc) : Fresh(prog, v)
  BY <1>3 DEF NodeIsLegal
<1>5. Distinct(Met(prog, item, pc))
  BY <1>1, <1>4, MetDistinct
<1>6. QED
  BY <1>1, <1>2, <1>3, <1>5 DEF AtNode, IInv, Verdict

(* One node on, or one statement.                                          *)
LEMMA VerdictAdvances ==
  ASSUME prog \in Program, IsTree(prog), item \in DOMAIN prog, pc \in DOMAIN prog[item],
         prog' = prog, Advance,
         \E open, home : WalkAt(prog, item, pc + 1, scopes', frames', open, home)
  PROVE  /\ Visited(prog, item', pc') = Visited(prog, item, pc) \cup {<<item, pc>>}
         /\ \E open, home : WalkAt(prog, item', pc', scopes', frames', open, home)
<1>1. Visited(prog, item, pc + 1) = Visited(prog, item, pc) \cup {<<item, pc>>}
  BY VisitedNext
<1>2. CASE item' = item /\ pc' = pc + 1
  BY <1>1, <1>2
<1>3. CASE item' = item + 1 /\ pc' = 1 /\ ~(pc + 1 <= Len(prog[item]))
  <2>1. pc + 1 = Len(prog[item]) + 1
    <3>1. prog[item] \in Seq(Node)
      BY NodeAt
    <3>2. pc \in Nat /\ pc <= Len(prog[item]) /\ Len(prog[item]) \in Nat
      BY <3>1
    <3>3. QED
      BY <1>3, <3>2
  <2>2. Visited(prog, item + 1, 1) = Visited(prog, item, pc + 1)
    BY <2>1, VisitedStatement
  <2>3. PICK open, home :
          WalkAt(prog, item, Len(prog[item]) + 1, scopes', frames', open, home)
    BY <2>1
  <2>4. WalkAt(prog, item + 1, 1, scopes', frames', open, home)
    BY <2>3, WalkTurns
  <2>5. QED
    BY <1>1, <1>3, <2>2, <2>4
<1>4. QED
  BY <1>2, <1>3 DEF Advance, GoTo

(* A visit that judges its node keeps the verdict.                         *)
LEMMA JudgedKeeps ==
  ASSUME IInv, Verdict, Visiting, prog' = prog, phase' = phase, functions' = functions,
         NEW errors, Report(errors), diags = {} => Judged(errors),
         errors = {} => Advance
  PROVE  Verdict'
<1>1. /\ prog \in Program /\ IsTree(prog) /\ phase = "visit" /\ phase' = "visit"
  BY ProgramsAssumption DEF IInv, PlaceIsInProgram, Visiting
<1>2. diags' = {} <=> diags = {} /\ errors = {}
  BY DEF Report
<1>3. CASE diags # {}
  BY <1>1, <1>2, <1>3 DEF Verdict
<1>4. CASE diags = {} /\ errors # {}
  <2>1. ~NodeIsLegal(prog, <<item, pc>>)
    BY <1>4 DEF Judged
  <2>2. <<item, pc>> \in Nodes(prog)
    BY <1>4, VisitingAtNode, NodeAt DEF AtNode
  <2>3. ~WellFormed(prog)
    BY <1>1, <2>1, <2>2, LegalEverywhere
  <2>4. diags' # {}
    BY <1>2, <1>4
  <2>5. QED
    BY <1>1, <2>3, <2>4 DEF Verdict
<1>5. CASE diags = {} /\ errors = {}
  <2> DEFINE w == <<item, pc>>
  <2>1. /\ AtNode /\ item \in DOMAIN prog /\ pc \in DOMAIN prog[item]
    BY <1>5, VisitingAtNode DEF AtNode
  <2>2. /\ NodeIsLegal(prog, w)
        /\ binds' = binds \cup BindingsAt(prog, w)
        /\ \E open, home : WalkAt(prog, item, pc + 1, scopes', frames', open, home)
    BY <1>5 DEF Judged
  <2>3. /\ Visited(prog, item', pc') = Visited(prog, item, pc) \cup {w}
        /\ \E open, home : WalkAt(prog, item', pc', scopes', frames', open, home)
    BY <1>1, <1>5, <2>1, <2>2, VerdictAdvances
  <2>4. /\ FunctionsAreDistinct(prog) /\ CallsKnown(prog)
        /\ \A v \in Visited(prog, item, pc) : NodeIsLegal(prog, v)
        /\ binds = UNION {BindingsAt(prog, v) : v \in Visited(prog, item, pc)}
    BY <1>1, <1>5 DEF Verdict
  <2> HIDE DEF w
  <2>5. \A v \in Visited(prog, item', pc') : NodeIsLegal(prog, v)
    BY <2>2, <2>3, <2>4
  <2>6. binds' = UNION {BindingsAt(prog, v) : v \in Visited(prog, item', pc')}
    <3> DEFINE V == Visited(prog, item, pc)
               B(v) == BindingsAt(prog, v)
    <3>1. binds' = (UNION {B(v) : v \in V}) \cup B(w)
      BY <2>2, <2>4
    <3>2. Visited(prog, item', pc') = V \cup {w}
      BY <2>3
    <3> HIDE DEF V, B
    <3>3. (UNION {B(v) : v \in V}) \cup B(w) = UNION {B(v) : v \in V \cup {w}}
      OBVIOUS
    <3>4. QED
      BY <3>1, <3>2, <3>3 DEF B
  <2>7. CallsKnown(prog)'
    BY <2>4 DEF CallsKnown, CallErrors
  <2>8. QED
    BY <1>1, <1>2, <1>5, <2>3, <2>4, <2>5, <2>6, <2>7 DEF Verdict
<1>6. QED
  BY <1>3, <1>4, <1>5

(* Every step keeps it.                                                    *)
LEMMA VisitsKeepVerdict ==
  ASSUME IInv, Verdict,
         \/ VisitSimple \/ VisitLoopJump \/ VisitReturn
         \/ EnterBlock \/ EnterWhile \/ EnterFor \/ EnterSwitch \/ EnterFunction
         \/ RejectNestedFunction \/ LeaveBlock
  PROVE  Verdict'
<1>1. /\ Visiting /\ prog' = prog /\ phase' = phase /\ functions' = functions
  BY DEF VisitSimple, VisitLoopJump, VisitReturn, EnterBlock, EnterWhile, EnterFor,
         EnterSwitch, EnterFunction, RejectNestedFunction, LeaveBlock
<1>2. diags = {} =>
        /\ AtNode /\ phase # "done"
        /\ \E open, home : WalkAt(prog, item, pc, scopes, frames, open, home)
  BY <1>1, VisitingAtNode DEF Visiting
<1>3. CASE VisitSimple
  <2>1. diags = {} => Judged(SimpleErrors(scopes, node))
    BY <1>2, <1>3, SimpleJudged
  <2>2. Report(SimpleErrors(scopes, node)) /\ Advance
    BY <1>3 DEF VisitSimple
  <2>3. QED
    BY <1>1, <2>1, <2>2, JudgedKeeps
<1>4. CASE VisitLoopJump
  <2>1. diags = {} => Judged(JumpErrors(node.k))
    BY <1>2, <1>4, LoopJumpJudged
  <2>2. Report(JumpErrors(node.k)) /\ Advance
    BY <1>4 DEF VisitLoopJump
  <2>3. QED
    BY <1>1, <2>1, <2>2, JudgedKeeps
<1>5. CASE VisitReturn
  <2> DEFINE errors == (IF funcDepth = 0 THEN {<<"outside function", node.k>>} ELSE {})
                       \cup ExprsErrors(scopes, node.value)
  <2>1. diags = {} => Judged(errors)
    BY <1>2, <1>5, ReturnJudged
  <2>2. Report(errors) /\ Advance
    BY <1>5 DEF VisitReturn
  <2> HIDE DEF errors
  <2>3. QED
    BY <1>1, <2>1, <2>2, JudgedKeeps
<1>6. CASE EnterBlock \/ EnterWhile \/ EnterSwitch
  <2> DEFINE errors == ExprsErrors(scopes, AllExprs(node))
  <2>1. diags = {} => Judged(errors)
    BY <1>2, <1>6, BlockJudged
  <2>2. Report(errors) /\ Advance
    <3>1. CASE EnterBlock \/ EnterSwitch
      BY <3>1 DEF EnterBlock, EnterSwitch
    <3>2. CASE EnterWhile
      <4>1. AllExprs(node) = {node.e}
        BY <3>2 DEF EnterWhile, AllExprs, SimpleKinds
      <4>2. errors = ExprErrors(scopes, node.e)
        BY <4>1 DEF ExprsErrors
      <4>3. QED
        BY <3>2, <4>2 DEF EnterWhile
    <3>3. QED
      BY <1>6, <3>1, <3>2
  <2> HIDE DEF errors
  <2>3. QED
    BY <1>1, <2>1, <2>2, JudgedKeeps
<1>7. CASE EnterFor
  <2> DEFINE header == Append(scopes, {})
             inside == SimpleScopes(header, node.init, <<item, pc, 1>>)
             errors == SimpleErrors(header, node.init) \cup ExprErrors(inside, node.cond)
                       \cup SimpleErrors(inside, node.step)
  <2>1. diags = {} => Judged(errors)
    BY <1>2, <1>7, ForJudged
  <2>2. Report(errors) /\ Advance
    BY <1>7 DEF EnterFor, PushScope, InInit
  <2> HIDE DEF errors
  <2>3. QED
    BY <1>1, <2>1, <2>2, JudgedKeeps
<1>8. CASE EnterFunction
  <2> DEFINE errors == {<<"duplicate", node.params[j]>> :
                          j \in (DOMAIN node.params) \ FirstParams}
  <2>1. diags = {} => Judged(errors)
    BY <1>2, <1>8, FunctionJudged
  <2>2. Report(errors) /\ Advance
    BY <1>8 DEF EnterFunction
  <2> HIDE DEF errors
  <2>3. QED
    BY <1>1, <2>1, <2>2, JudgedKeeps
<1>9. CASE RejectNestedFunction
  <2> DEFINE errors == {<<"nested function", node.x>>}
  <2>1. diags = {} => Judged(errors)
    <3>1. diags = {} => ~NodeIsLegal(prog, <<item, pc>>)
      BY <1>2, <1>9, NestedIsIllegal
    <3>2. errors # {}
      OBVIOUS
    <3> HIDE DEF errors
    <3>3. QED
      BY <3>1, <3>2 DEF Judged
  <2>2. Report(errors) /\ errors # {}
    BY <1>9 DEF RejectNestedFunction
  <2> HIDE DEF errors
  <2>3. QED
    BY <1>1, <2>1, <2>2, JudgedKeeps
<1>10. CASE LeaveBlock
  <2>1. diags = {} => Judged({})
    BY <1>2, <1>10, CloseJudged
  <2>2. Report({}) /\ Advance
    BY <1>10 DEF LeaveBlock, Report
  <2>3. QED
    BY <1>1, <2>1, <2>2, JudgedKeeps
<1>11. QED
  BY <1>3, <1>4, <1>5, <1>6, <1>7, <1>8, <1>9, <1>10

LEMMA VerdictKept ==
  ASSUME IInv, Verdict, [Next]_vars
  PROVE  Verdict'
<1>1. prog \in Program /\ IsTree(prog)
  BY ProgramsAssumption DEF IInv, PlaceIsInProgram
<1>2. CASE CollectFunctionSignatures
  <2>1. /\ phase = "collect" /\ item = 1 /\ pc = 1 /\ scopes = <<{}>> /\ frames = <<>>
        /\ diags = {} /\ binds = {}
    BY <1>2 DEF Verdict, CollectFunctionSignatures
  <2>2. /\ phase' = "visit"
        /\ UNCHANGED <<prog, item, pc, scopes, frames, binds>>
    BY <1>2 DEF CollectFunctionSignatures
  <2>3. /\ diags' = {} <=> FunctionsAreDistinct(prog)
        /\ FunctionsAreDistinct(prog) => CallsKnown(prog)'
    BY <1>1, <1>2, <2>1, CollectJudged
  <2>4. WellFormed(prog) => FunctionsAreDistinct(prog)
    BY <1>1, LegalEverywhere
  <2>5. Visited(prog, 1, 1) = {}
    BY <1>1, VisitedFirst
  <2>6. WalkAt(prog, 1, 1, <<{}>>, <<>>, <<>>, <<TopLevel>>)
    BY <1>1, WalkStarts
  <2>7. QED
    BY <2>1, <2>2, <2>3, <2>4, <2>5, <2>6 DEF Verdict
<1>3. CASE Finish \/ UNCHANGED vars
  <2>1. UNCHANGED <<prog, item, pc, functions, diags, binds, frames>>
    BY <1>3 DEF Finish, vars
  <2>2. CallsKnown(prog) => CallsKnown(prog)'
    BY <2>1 DEF CallsKnown, CallErrors
  <2>3. \/ phase = "visit" /\ phase' = "done" /\ item > Len(prog)
        \/ UNCHANGED <<phase, scopes>>
    BY <1>3 DEF Finish, vars
  <2>4. CASE phase = "visit" /\ phase' = "done" /\ item > Len(prog)
    BY <2>1, <2>2, <2>4 DEF Verdict
  <2>5. CASE UNCHANGED <<phase, scopes>>
    BY <2>1, <2>2, <2>5 DEF Verdict
  <2>6. QED
    BY <2>3, <2>4, <2>5
<1>4. QED
  BY <1>2, <1>3, VisitsKeepVerdict DEF Next

(* The verdict holds of every analysis of every program.                   *)
THEOREM VerdictHolds == Spec => [](IInv /\ Verdict)
<1>1. IInv /\ Verdict /\ [Next]_vars => Verdict'
  BY VerdictKept
<1>2. QED
  BY <1>1, InitUndecided, Invariance, PTL DEF Spec

(* What is known when the walk has ended.                                  *)
LEMMA VerdictAtEnd ==
  ASSUME IInv, Verdict, phase = "done", diags = {}
  PROVE  WellFormed(prog) /\ binds = LexicalBindings(prog)
<1>1. prog \in Program /\ IsTree(prog)
  BY ProgramsAssumption DEF IInv, PlaceIsInProgram
<1>2. Visited(prog, item, pc) = Nodes(prog)
  BY <1>1, VisitedLast DEF IInv, TypeOK, Verdict
<1>3. WellFormed(prog)
  BY <1>1, <1>2, LegalEverywhere DEF Verdict
<1>4. binds = UNION {BindingsAt(prog, w) : w \in Nodes(prog)}
  BY <1>2 DEF Verdict
<1>5. QED
  BY <1>3, <1>4 DEF LexicalBindings, BindingsAt, PartBindings

(* The analyser reports nothing exactly for the programs that obey the     *)
(* rules of the language.                                                  *)
THEOREM VerdictIsExact == Spec => []AcceptsExactlyTheWellFormed
<1>1. IInv /\ Verdict => AcceptsExactlyTheWellFormed
  BY VerdictAtEnd DEF AcceptsExactlyTheWellFormed, Verdict
<1>2. QED
  BY <1>1, VerdictHolds, PTL

(* In a program it accepts, every use of a name was resolved to the        *)
(* declaration that lexical scoping gives it.                              *)
THEOREM BindingsAreLexical == Spec => []ResolvesLexically
<1>1. IInv /\ Verdict => ResolvesLexically
  BY VerdictAtEnd DEF ResolvesLexically
<1>2. QED
  BY <1>1, VerdictHolds, PTL

-----------------------------------------------------------------------------
(* What is in scope, for a walk that keeps one list of variables instead   *)
(* of a scope for each block (the code generator's).                       *)

(* The walk is before node q of t, in blocks that are closed from the      *)
(* innermost out.                                                          *)
Nested(t, q) ==
  /\ \E open, kinds : Nesting(t, q, open, kinds)
  /\ \A o \in Unclosed(t, q) :
       Unclosed(t, o) = {r \in Unclosed(t, q) : r < o}

(* It is so at the first node,                                             *)
LEMMA NestedStarts ==
  ASSUME NEW t
  PROVE  Nested(t, 1) /\ Unclosed(t, 1) = {}
<1>1. Unclosed(t, 1) = {}
  BY DEF Unclosed
<1>2. QED
  BY <1>1, NestingStarts DEF Nested

(* after a node that closes no block,                                      *)
LEMMA NestedNext ==
  ASSUME NEW t \in Seq(Node), Bracketed(t), NEW q \in DOMAIN t, t[q].k # "close",
         Nested(t, q)
  PROVE  /\ Nested(t, q + 1)
         /\ Unclosed(t, q + 1) =
              Unclosed(t, q) \cup (IF t[q].k \in OpenKinds THEN {q} ELSE {})
<1>1. PICK open, kinds : Nesting(t, q, open, kinds)
  BY DEF Nested
<1>2. \A o \in Unclosed(t, q) : o \in 1..(q - 1)
  BY DEF Unclosed
<1>3. CASE t[q].k \notin OpenKinds
  <2>1. Nesting(t, q + 1, open, kinds) /\ Unclosed(t, q + 1) = Unclosed(t, q)
    BY <1>1, <1>3, NestingPasses
  <2>2. QED
    BY <1>3, <2>1 DEF Nested
<1>4. CASE t[q].k \in OpenKinds
  <2>1. /\ Nesting(t, q + 1, Append(open, q), Append(kinds, t[q].k))
        /\ Unclosed(t, q + 1) = Unclosed(t, q) \cup {q}
    BY <1>1, <1>4, NestingOpens
  <2>2. ASSUME NEW o \in Unclosed(t, q + 1)
        PROVE  Unclosed(t, o) = {r \in Unclosed(t, q + 1) : r < o}
    <3>1. CASE o = q
      BY <1>2, <2>1, <3>1
    <3>2. CASE o # q
      <4>1. o \in Unclosed(t, q) /\ o \in 1..(q - 1)
        BY <1>2, <2>1, <3>2
      <4>2. Unclosed(t, o) = {r \in Unclosed(t, q) : r < o}
        BY <4>1 DEF Nested
      <4>3. ~(q < o)
        BY <4>1
      <4>4. QED
        BY <2>1, <4>2, <4>3
    <3>3. QED
      BY <3>1, <3>2
  <2>3. QED
    BY <1>4, <2>1, <2>2 DEF Nested
<1>5. QED
  BY <1>3, <1>4

(* and after the close of the innermost.                                   *)
LEMMA NestedCloses ==
  ASSUME NEW t \in Seq(Node), Bracketed(t), NEW q \in DOMAIN t, t[q].k = "close",
         Nested(t, q), NEW o \in Unclosed(t, q), \A r \in Unclosed(t, q) : r <= o
  PROVE  /\ Nested(t, q + 1) /\ CloseOf(t, o) = q
         /\ Unclosed(t, q + 1) = Unclosed(t, q) \ {o}
         /\ Unclosed(t, q + 1) = Unclosed(t, o)
<1>1. PICK open, kinds : Nesting(t, q, open, kinds)
  BY DEF Nested
<1>2. kinds # <<>>
  <2>1. /\ open \in Seq(Nat) /\ kinds \in Seq(OpenKinds) /\ Len(kinds) = Len(open)
        /\ {open[a] : a \in 1..Len(open)} = Unclosed(t, q)
    BY <1>1 DEF Nesting
  <2>2. PICK a \in 1..Len(open) : o = open[a]
    BY <2>1
  <2>3. QED
    BY <2>1, <2>2
<1>3. /\ Nesting(t, q + 1, Front(open), Front(kinds))
      /\ Last(open) \in Unclosed(t, q)
      /\ CloseOf(t, Last(open)) = q
      /\ \A r \in Unclosed(t, q) : r <= Last(open)
      /\ Unclosed(t, q + 1) = Unclosed(t, q) \ {Last(open)}
  BY <1>1, <1>2, NestingCloses
<1>4. Unclosed(t, q) \in SUBSET Nat
  BY DEF Unclosed
<1>5. Last(open) = o
  <2>1. Last(open) <= o /\ o <= Last(open) /\ o \in Nat /\ Last(open) \in Nat
    BY <1>3, <1>4
  <2>2. QED
    BY <2>1
<1>6. Unclosed(t, o) = {r \in Unclosed(t, q) : r < o}
  BY DEF Nested
<1>7. Unclosed(t, q) \ {o} = {r \in Unclosed(t, q) : r < o}
  BY <1>4
<1>8. ASSUME NEW s \in Unclosed(t, q + 1)
      PROVE  Unclosed(t, s) = {r \in Unclosed(t, q + 1) : r < s}
  <2>1. s \in Unclosed(t, q) /\ s < o /\ s \in Nat /\ o \in Nat
    BY <1>3, <1>4, <1>5, <1>7
  <2>2. Unclosed(t, s) = {r \in Unclosed(t, q) : r < s}
    BY <2>1 DEF Nested
  <2>3. QED
    BY <1>3, <1>5, <2>1, <2>2
<1>9. QED
  BY <1>3, <1>5, <1>6, <1>7, <1>8 DEF Nested

(* At the end of a statement no block is open.                             *)
LEMMA NoneUnclosedAtEnd ==
  ASSUME NEW t \in Seq(Node), Bracketed(t)
  PROVE  Unclosed(t, Len(t) + 1) = {}
BY CloseOfOpener DEF Unclosed

(* The declarations met that are in the blocks open, those of the blocks   *)
(* "out" left out.                                                         *)
InScope(p, i, q, out) ==
  {d \in Met(p, i, q) : d.block \in Homes(i, p[i], Unclosed(p[i], q)) \ out}

DeclaredAt(p, w, out) == {d \in DeclarationsAt(p, w) : d.block \notin out}

(* A node adds what it declares,                                           *)
LEMMA ScopeGrows ==
  ASSUME NEW p \in Program, IsTree(p), NEW i \in DOMAIN p, NEW q \in DOMAIN p[i],
         p[i][q].k # "close", Nested(p[i], q), NEW out
  PROVE  InScope(p, i, q + 1, out) =
           InScope(p, i, q, out) \cup DeclaredAt(p, <<i, q>>, out)
<1> DEFINE w == <<i, q>>
           t == p[i]
           os == Unclosed(t, q)
           more == IF t[q].k \in OpenKinds THEN {q} ELSE {}
<1>1. /\ w \in Nodes(p) /\ w[1] = i /\ w[2] = q /\ At(p, w) = t[q]
      /\ i \in Nat \ {0} /\ q \in Nat \ {0} /\ t \in Seq(Node)
  BY NodeAt
<1>2. Bracketed(t)
  BY TreeBracketed
<1>3. Unclosed(t, q + 1) = os \cup more
  BY <1>1, <1>2, NestedNext
<1>4. Around(t, q) = os
  BY <1>1, <1>2, AroundUnclosed
<1>5. Met(p, i, q + 1) = Met(p, i, q) \cup DeclarationsAt(p, w)
  BY MetNext
<1>6. ASSUME NEW d \in Met(p, i, q)
      PROVE  d.block \in Homes(i, t, os \cup more) <=> d.block \in Homes(i, t, os)
  <2>1. \A h : d.block # <<i, q, h>>
    <3>1. d \in Met(p, w[1], w[2])
      BY <1>1
    <3>2. \A h : d.block # <<w[1], w[2], h>>
      <4> HIDE DEF w
      <4> QED BY <1>1, <3>1, MetEarlier
    <3>3. QED
      BY <3>2
  <2>2. CASE more = {}
    BY <2>2
  <2>3. CASE more = {q}
    BY <2>1, <2>3, HomesOpen
  <2>4. QED
    BY <2>2, <2>3
<1>7. ASSUME NEW d \in DeclarationsAt(p, w)
      PROVE  d.block \in Homes(i, t, os \cup more)
  <2>1. CASE t[q].k = "decl"
    <3>1. d.block = BlockOf(p, w)
      BY <1>1, <2>1, DeclarationShape
    <3>2. Openers(p, w) = os
      BY <1>1, <1>4 DEF Openers
    <3>3. \/ BlockOf(p, w) = TopLevel
          \/ \E o \in os : BlockOf(p, w) = <<i, o, 0>> /\ t[o].k # "paryay"
      <4>1. \/ BlockOf(p, w) = TopLevel
            \/ \E o \in Openers(p, w) : BlockOf(p, w) = <<w[1], o, 0>>
                                        /\ p[w[1]][o].k # "paryay"
        <5> HIDE DEF w
        <5> QED BY <1>1, BlockOfShape
      <4>2. QED
        BY <1>1, <3>2, <4>1
    <3>4. QED
      BY <3>1, <3>3 DEF Homes
  <2>2. CASE t[q].k = "pratyek"
    <3>1. d.block = <<i, q, 1>>
      BY <1>1, <2>2, DeclarationShape
    <3>2. more = {q}
      BY <2>2 DEF OpenKinds
    <3>3. QED
      BY <2>2, <3>1, <3>2 DEF Homes
  <2>3. CASE t[q].k = "karya"
    <3>1. d.block = <<i, q, 0>>
      BY <1>1, <2>3, DeclarationShape
    <3>2. more = {q}
      BY <2>3 DEF OpenKinds
    <3>3. QED
      BY <2>3, <3>1, <3>2 DEF Homes
  <2>4. QED
    BY <1>1, <2>1, <2>2, <2>3, DeclarationCases
<1> HIDE DEF more, os
<1>8. QED
  BY <1>3, <1>5, <1>6, <1>7 DEF InScope, DeclaredAt, os

(* a close takes away what was declared since the block it ends began,     *)
LEMMA ScopeShrinks ==
  ASSUME NEW p \in Program, IsTree(p), NEW i \in DOMAIN p, NEW q \in DOMAIN p[i],
         p[i][q].k = "close", Nested(p[i], q), NEW o \in Unclosed(p[i], q),
         \A r \in Unclosed(p[i], q) : r <= o, NEW out
  PROVE  InScope(p, i, q + 1, out) = InScope(p, i, o, out)
<1> DEFINE t == p[i]
           w == <<i, q>>
           os == Unclosed(t, o)
           H == Homes(i, t, os)
<1>1. /\ w \in Nodes(p) /\ w[1] = i /\ w[2] = q /\ At(p, w) = t[q]
      /\ i \in Nat \ {0} /\ q \in Nat \ {0} /\ t \in Seq(Node)
  BY NodeAt
<1>2. Bracketed(t) /\ IsStatement(t)
  BY TreeBracketed
<1>3. Unclosed(t, q + 1) = os /\ CloseOf(t, o) = q
  BY <1>1, <1>2, NestedCloses
<1>4. /\ o \in 1..(q - 1) /\ t[o].k \in OpenKinds /\ o \in DOMAIN t
      /\ os \in SUBSET (1..(o - 1)) /\ o \in Nat \ {0}
  BY <1>1 DEF Unclosed
<1>5. Met(p, i, q + 1) = Met(p, i, q)
  <2>1. DeclarationsAt(p, w) = {}
    <3>1. At(p, w).k = "close"
      BY <1>1
    <3> HIDE DEF w
    <3> QED BY <3>1 DEF DeclarationsAt
  <2>2. Met(p, i, q + 1) = Met(p, i, q) \cup DeclarationsAt(p, w)
    BY MetNext
  <2>3. QED
    BY <2>1, <2>2
<1>6. Met(p, i, o) \subseteq Met(p, i, q)
  <2>1. Visited(p, i, o) \subseteq Visited(p, i, q)
    <3>1. \A v \in Nodes(p) : v[2] \in Nat
      BY NodeShape
    <3>2. \A v \in Nodes(p) : v[2] < o => v[2] < q
      BY <1>1, <1>4, <3>1
    <3>3. QED
      BY <3>2 DEF Visited
  <2>2. QED
    BY <2>1 DEF Met
<1>7. ASSUME NEW d \in Met(p, i, q), d \notin Met(p, i, o)
      PROVE  d.block \notin H
  <2>1. PICK v \in Visited(p, i, q) : d \in DeclarationsAt(p, v)
    BY DEF Met
  <2>2. /\ v \in Nodes(p) /\ v = <<v[1], v[2]>> /\ v[1] \in Nat \ {0}
        /\ v[2] \in Nat \ {0} /\ v[2] \in DOMAIN p[v[1]]
    BY <2>1, NodeShape DEF Visited
  <2>3. v[1] = i /\ v[2] >= o /\ v[2] < q /\ At(p, v) = t[v[2]]
    <3>1. v \notin Visited(p, i, o)
      BY <1>7, <2>1 DEF Met
    <3>2. QED
      BY <1>1, <1>4, <2>1, <2>2, <3>1 DEF Visited, At
  <2>4. \A b \in H : b \in Places /\ Rank(b) < 2 * o - 1
    BY <1>1, <1>4, HomesRanked
  <2>5. SUFFICES ASSUME d.block \in H PROVE FALSE
    OBVIOUS
  <2>6. CASE At(p, v).k = "decl"
    <3>1. v[2] # o
      BY <1>4, <2>3, <2>6 DEF OpenKinds
    <3>2. o \in Openers(p, v)
      BY <1>1, <1>3, <1>4, <2>2, <2>3, <3>1 DEF Openers, Around
    <3>3. PICK m \in Openers(p, v) : \A r \in Openers(p, v) : r <= m
      <4>1. Openers(p, v) \in SUBSET (1..(v[2] - 1)) /\ v[2] - 1 \in Nat
        BY <2>2 DEF Openers, Around
      <4> DEFINE B == Openers(p, v)
      <4>2. Max(B) \in B /\ \A y \in B : Max(B) >= y
        <5> HIDE DEF B
        <5> QED BY <3>2, <4>1, MaxOfPositions DEF B
      <4>3. \A y \in B : y <= Max(B)
        BY <4>1, <4>2
      <4>4. QED
        BY <4>2, <4>3
    <3>4. t[m].k # "paryay"
      <4>1. v[2] \in 2..Len(t)
        BY <1>1, <1>4, <2>2, <2>3, <3>1
      <4>2. t[v[2]].k # "close" /\ t[v[2]].k # "case"
        BY <2>3, <2>6
      <4>3. m \in Around(t, v[2]) /\ Innermost(Around(t, v[2]), m)
        BY <2>3, <3>3 DEF Openers, Innermost
      <4>4. QED
        BY <1>2, <4>1, <4>2, <4>3 DEF IsStatement
    <3>5. PICK r \in Openers(p, v) :
            /\ BlockOf(p, v) = <<v[1], r, 0>> /\ r \in 1..(v[2] - 1)
            /\ \A y \in Openers(p, v) : p[v[1]][y].k # "paryay" => y <= r
      BY <2>2, <2>3, <3>3, <3>4, BlockOfShape
    <3>6. o <= m /\ m <= r /\ m \in Nat
      BY <2>3, <3>2, <3>3, <3>4, <3>5 DEF Openers, Around
    <3>7. d.block = <<i, r, 0>>
      BY <2>1, <2>2, <2>3, <2>6, <3>5, DeclarationShape
    <3>8. Rank(d.block) = 2 * r
      BY <3>5, <3>7 DEF Rank
    <3>9. QED
      BY <1>4, <2>4, <2>5, <3>5, <3>6, <3>8
  <2>7. CASE At(p, v).k \in {"pratyek", "karya"}
    <3>1. PICK h \in {0, 1} : d.block = <<v[1], v[2], h>>
      BY <2>1, <2>2, <2>7, DeclarationShape
    <3>2. Rank(d.block) = 2 * v[2] - h
      BY <3>1 DEF Rank
    <3>3. QED
      BY <1>4, <2>2, <2>3, <2>4, <2>5, <3>2
  <2>8. QED
    BY <2>1, <2>2, <2>6, <2>7, DeclarationCases
<1>8. QED
  BY <1>3, <1>5, <1>6, <1>7 DEF InScope

(* the end of a statement changes nothing,                                 *)
LEMMA ScopeTurns ==
  ASSUME NEW p \in Program, IsTree(p), NEW i \in DOMAIN p, NEW out
  PROVE  InScope(p, i + 1, 1, out) = InScope(p, i, Len(p[i]) + 1, out)
<1>1. Met(p, i + 1, 1) = Met(p, i, Len(p[i]) + 1)
  BY VisitedStatement DEF Met
<1>2. Unclosed(p[i], Len(p[i]) + 1) = {}
  BY TreeBracketed, NoneUnclosedAtEnd
<1>3. Unclosed(p[i + 1], 1) = {}
  BY NestedStarts
<1>4. \A j, t : Homes(j, t, {}) = {TopLevel}
  BY DEF Homes
<1>5. QED
  BY <1>1, <1>2, <1>3, <1>4 DEF InScope

(* and, when the top level is left out, a statement begins with nothing.   *)
LEMMA ScopeIsLocal ==
  ASSUME NEW p, NEW i
  PROVE  InScope(p, i, 1, {TopLevel}) = {}
<1>1. Unclosed(p[i], 1) = {}
  BY NestedStarts
<1>2. QED
  BY <1>1 DEF InScope, Homes

(* What a use at a node refers to is the last declaration of its name in   *)
(* scope there,                                                            *)
LEMMA ReferentInScope ==
  ASSUME NEW p \in Program, IsTree(p), NEW w \in Nodes(p), At(p, w).k # "close",
         NEW u, u[1] = 0 \/ (u[1] = 1 /\ At(p, w).k = "pratyek")
  PROVE  Referent(p, w, u) =
           LastOf({d \in InScope(p, w[1], w[2], {}) : d.name = u[2]})
<1>1. /\ w[1] \in DOMAIN p /\ w[2] \in DOMAIN p[w[1]] /\ p[w[1]] \in Seq(Node)
      /\ At(p, w) = p[w[1]][w[2]]
  BY NodeShape DEF At
<1>2. Openers(p, w) = Unclosed(p[w[1]], w[2])
  BY <1>1, TreeBracketed, AroundUnclosed DEF Openers
<1>3. \A d \in DeclarationsAt(p, w) : ~(d.site[3] < u[1])
  BY DeclarationShape
<1>4. MetBy(p, w, u[1]) = Met(p, w[1], w[2])
  BY <1>3 DEF MetBy
<1>5. \A d \in Met(p, w[1], w[2]) : d.block # <<w[1], w[2], 1>>
  BY MetEarlier
<1> u[1] \in Nat
  OBVIOUS
<1>6. Referent(p, w, u) =
        LastOf({d \in MetBy(p, w, u[1]) :
                  /\ d.name = u[2]
                  /\ \/ d.block \in Homes(w[1], p[w[1]], Openers(p, w))
                     \/ u[1] > 0 /\ d.block = <<w[1], w[2], 1>>})
  BY ReferentIsMet
<1>7. {d \in MetBy(p, w, u[1]) :
         /\ d.name = u[2]
         /\ \/ d.block \in Homes(w[1], p[w[1]], Openers(p, w))
            \/ u[1] > 0 /\ d.block = <<w[1], w[2], 1>>}
        = {d \in InScope(p, w[1], w[2], {}) : d.name = u[2]}
  BY <1>2, <1>4, <1>5 DEF InScope
<1>8. QED
  BY <1>6, <1>7

(* and in the condition and the step of a for, what its initialiser        *)
(* declares is in scope too.                                               *)
LEMMA ReferentInHeader ==
  ASSUME NEW p \in Program, IsTree(p), NEW w \in Nodes(p), At(p, w).k = "pratyek",
         NEW u, u[1] \in {2, 3}
  PROVE  Referent(p, w, u) =
           LastOf({d \in InScope(p, w[1], w[2], {}) \cup DeclaredAt(p, w, {}) :
                     d.name = u[2]})
<1>1. /\ w[1] \in DOMAIN p /\ w[2] \in DOMAIN p[w[1]] /\ p[w[1]] \in Seq(Node)
      /\ At(p, w) = p[w[1]][w[2]]
  BY NodeShape DEF At
<1>2. Openers(p, w) = Unclosed(p[w[1]], w[2])
  BY <1>1, TreeBracketed, AroundUnclosed DEF Openers
<1>3. /\ \A d \in DeclarationsAt(p, w) : d.site[3] = 1 /\ d.block = <<w[1], w[2], 1>>
      /\ 1 < u[1] /\ u[1] > 0
  BY DeclarationShape
<1>4. MetBy(p, w, u[1]) = Met(p, w[1], w[2]) \cup DeclarationsAt(p, w)
  BY <1>3 DEF MetBy
<1>5. \A d \in Met(p, w[1], w[2]) : d.block # <<w[1], w[2], 1>>
  BY MetEarlier
<1> u[1] \in Nat
  OBVIOUS
<1>6. Referent(p, w, u) =
        LastOf({d \in MetBy(p, w, u[1]) :
                  /\ d.name = u[2]
                  /\ \/ d.block \in Homes(w[1], p[w[1]], Openers(p, w))
                     \/ u[1] > 0 /\ d.block = <<w[1], w[2], 1>>})
  BY ReferentIsMet
<1>7. {d \in MetBy(p, w, u[1]) :
         /\ d.name = u[2]
         /\ \/ d.block \in Homes(w[1], p[w[1]], Openers(p, w))
            \/ u[1] > 0 /\ d.block = <<w[1], w[2], 1>>}
        = {d \in InScope(p, w[1], w[2], {}) \cup DeclaredAt(p, w, {}) :
             d.name = u[2]}
  BY <1>2, <1>3, <1>4, <1>5 DEF InScope, DeclaredAt
<1>8. QED
  BY <1>6, <1>7

(* A declaration is known by its place.                                    *)
LEMMA SiteTells ==
  ASSUME NEW p \in Program, NEW c \in Declarations(p), NEW d \in Declarations(p),
         c.site = d.site
  PROVE  c = d
<1>1. PICK v \in Nodes(p) : c \in DeclarationsAt(p, v)
  BY DEF Declarations
<1>2. PICK w \in Nodes(p) : d \in DeclarationsAt(p, w)
  BY DEF Declarations
<1>3. QED
  BY <1>1, <1>2, DeclaredOnce

(* No declaration of the top level is within a construct.                  *)
LEMMA TopLevelIsOutside ==
  ASSUME NEW p \in Program, IsTree(p), NEW v \in Nodes(p), v[2] > 1,
         NEW d \in DeclarationsAt(p, v)
  PROVE  d.block # TopLevel
<1>1. /\ v[1] \in DOMAIN p /\ v[2] \in DOMAIN p[v[1]] /\ p[v[1]] \in Seq(Node)
      /\ At(p, v) = p[v[1]][v[2]] /\ v[2] \in 2..Len(p[v[1]])
      /\ v[1] \in Nat \ {0}
  BY NodeShape DEF At
<1>2. IsStatement(p[v[1]])
  BY <1>1, TreeBracketed
<1>3. CASE At(p, v).k = "decl"
  <2> DEFINE B == Openers(p, v)
  <2>1. B # {}
    BY <1>1, <1>2, <1>3 DEF IsStatement, Openers
  <2>2. B \in SUBSET (1..(v[2] - 1)) /\ v[2] - 1 \in Nat
    BY <1>1 DEF Openers, Around
  <2>3. Max(B) \in B /\ \A y \in B : Max(B) >= y
    <3> HIDE DEF B
    <3> QED BY <2>1, <2>2, MaxOfPositions
  <2>4. PICK m \in B : \A r \in B : r <= m
    <3>1. \A y \in B : y <= Max(B)
      BY <2>2, <2>3
    <3>2. QED
      BY <2>3, <3>1
  <2>5. Innermost(Around(p[v[1]], v[2]), m) /\ m \in Around(p[v[1]], v[2])
    BY <2>4 DEF Openers, Innermost
  <2>6. p[v[1]][m].k # "paryay"
    BY <1>1, <1>2, <1>3, <2>5 DEF IsStatement
  <2>7. BlockOf(p, v)[1] = v[1]
    BY <2>4, <2>6, BlockOfShape
  <2>8. BlockOf(p, v) # TopLevel
    BY <1>1, <2>7 DEF TopLevel
  <2>9. QED
    BY <1>3, <2>8, DeclarationShape
<1>4. CASE At(p, v).k \in {"pratyek", "karya"}
  <2>1. d.block[1] = v[1]
    BY <1>4, DeclarationShape
  <2>2. QED
    BY <1>1, <2>1 DEF TopLevel
<1>5. QED
  BY <1>3, <1>4, DeclarationCases

(* So a function declares nothing there.                                   *)
LEMMA TopLevelStatement ==
  ASSUME NEW p \in Program, IsTree(p), NEW v \in Nodes(p),
         NEW d \in DeclarationsAt(p, v), d.block = TopLevel
  PROVE  v[2] = 1 /\ At(p, v).k = "decl" /\ p[v[1]][1].k # "karya"
<1>1. v[2] = 1
  <2>1. ~(v[2] > 1) /\ v[2] \in Nat \ {0}
    BY TopLevelIsOutside, NodeShape
  <2>2. QED
    BY <2>1
<1>2. At(p, v).k \notin {"karya", "pratyek"}
  <2>1. SUFFICES ASSUME At(p, v).k \in {"karya", "pratyek"} PROVE FALSE
    OBVIOUS
  <2>2. d.block \in {<<v[1], v[2], 0>>, <<v[1], v[2], 1>>}
    BY <2>1, DeclarationShape
  <2>3. QED
    BY <1>1, <2>2 DEF TopLevel
<1>3. At(p, v).k = "decl"
  BY <1>2, DeclarationCases
<1>4. QED
  BY <1>1, <1>3 DEF At

LastNamed(E, x) == LastOf({c \in E : c.name = x})

(* In a function, what is in scope from inside it, and what a node of it   *)
(* declares, hides what is in scope from outside.                          *)
LEMMA LocalHides ==
  ASSUME NEW p \in Program, IsTree(p), NEW i \in DOMAIN p, NEW q \in DOMAIN p[i],
         p[i][1].k = "karya", NEW x, NEW D, \A c \in D : c.site[1] = i,
         NEW d \in LastNamed(InScope(p, i, q, {TopLevel}) \cup D, x)
  PROVE  d \in LastNamed(InScope(p, i, q, {}) \cup D, x)
<1> DEFINE A == {c \in InScope(p, i, q, {}) \cup D : c.name = x}
<1>1. d \in A /\ d \in InScope(p, i, q, {TopLevel}) \cup D /\ d.name = x
  BY DEF LastNamed, LastOf, InScope
<1>2. d.site[1] = i
  <2>1. CASE d \in InScope(p, i, q, {TopLevel})
    <3>1. d \in Met(p, i, q) /\ d.block # TopLevel
          /\ d.block \in Homes(i, p[i], Unclosed(p[i], q))
      BY <2>1 DEF InScope
    <3>2. PICK r \in Visited(p, i, q) : d \in DeclarationsAt(p, r)
      BY <3>1 DEF Met
    <3>3. r \in Nodes(p) /\ d.site[1] = r[1] /\ d.block[1] = r[1]
      BY <3>1, <3>2, DeclarationShape DEF Visited
    <3>4. d.block[1] = i
      BY <3>1 DEF Homes
    <3>5. QED
      BY <3>3, <3>4
  <2>2. QED
    BY <1>1, <2>1
<1>3. ASSUME NEW c \in A, c \notin InScope(p, i, q, {TopLevel}) \cup D
      PROVE  Before(c.site, d.site)
  <2>1. c \in Met(p, i, q) /\ c.block = TopLevel
    BY <1>3 DEF InScope
  <2>2. PICK v \in Visited(p, i, q) : c \in DeclarationsAt(p, v)
    BY <2>1 DEF Met
  <2>3. v \in Nodes(p) /\ v[1] \in Nat /\ v[2] \in Nat \ {0} /\ i \in Nat
    BY <2>2, NodeShape, NodeAt DEF Visited
  <2>4. v[2] = 1 /\ p[v[1]][1].k # "karya"
    BY <2>1, <2>2, <2>3, TopLevelStatement
  <2>5. v[1] < i
    BY <2>2, <2>3, <2>4 DEF Visited
  <2>6. c.site[1] = v[1]
    BY <2>2, <2>3, DeclarationShape
  <2>7. QED
    BY <1>2, <2>5, <2>6 DEF Before
<1>4. QED
  BY <1>1, <1>3 DEF LastNamed, LastOf

(* Passing over a function leaves the scope of the top level as it was.    *)
LEMMA ScopeSkips ==
  ASSUME NEW p \in Program, IsTree(p), NEW i \in DOMAIN p, p[i][1].k = "karya"
  PROVE  InScope(p, i + 1, 1, {}) = InScope(p, i, 1, {})
<1>1. \A j : Unclosed(p[j], 1) = {} /\ \A t : Homes(j, t, {}) = {TopLevel}
  BY NestedStarts DEF Homes
<1>2. \A v \in Visited(p, i, 1) : v \in Visited(p, i + 1, 1)
  <2>1. \A v \in Nodes(p) : v[1] \in Nat /\ v[2] \in Nat \ {0}
    BY NodeShape
  <2>2. i \in Nat
    BY DEF Program
  <2>3. QED
    BY <2>1, <2>2 DEF Visited
<1>3. ASSUME NEW d \in Met(p, i + 1, 1), d.block = TopLevel
      PROVE  d \in Met(p, i, 1)
  <2>1. PICK v \in Visited(p, i + 1, 1) : d \in DeclarationsAt(p, v)
    BY DEF Met
  <2>2. v \in Nodes(p) /\ v[1] \in Nat /\ v[2] \in Nat \ {0} /\ i \in Nat
    BY <2>1, NodeShape DEF Visited, Program
  <2>3. p[v[1]][1].k # "karya"
    BY <1>3, <2>1, <2>2, TopLevelStatement
  <2>4. v[1] < i
    BY <2>1, <2>2, <2>3 DEF Visited
  <2>5. v \in Visited(p, i, 1)
    BY <2>2, <2>4 DEF Visited
  <2>6. QED
    BY <2>1, <2>5 DEF Met
<1>4. Met(p, i, 1) \subseteq Met(p, i + 1, 1)
  BY <1>2 DEF Met
<1>5. QED
  BY <1>1, <1>3, <1>4 DEF InScope

-----------------------------------------------------------------------------
(* A list of variables, for each its name and its place.                   *)

(* The first m are the declarations of D, in the order of the text.        *)
Holds(vs, m, D) ==
  /\ m \in 0..Len(vs)
  /\ \A n \in 1..m : \E d \in D : d.name = vs[n].name /\ d.site = vs[n].site
  /\ \A d \in D : \E n \in 1..m : d.name = vs[n].name /\ d.site = vs[n].site
  /\ \A n, k \in 1..m : n < k => Before(vs[n].site, vs[k].site)

(* It depends on these entries alone.                                      *)
LEMMA HoldsKept ==
  ASSUME NEW vs, NEW ws, NEW m \in Nat, NEW D, Holds(vs, m, D),
         m \in 0..Len(ws), \A n \in 1..m : ws[n] = vs[n]
  PROVE  Holds(ws, m, D)
<1>1. \A d \in D : \E n \in 1..m : d.name = ws[n].name /\ d.site = ws[n].site
  <2>1. SUFFICES ASSUME NEW d \in D
                 PROVE  \E n \in 1..m : d.name = ws[n].name /\ d.site = ws[n].site
    OBVIOUS
  <2>2. PICK n \in 1..m : d.name = vs[n].name /\ d.site = vs[n].site
    BY DEF Holds
  <2>3. ws[n] = vs[n]
    OBVIOUS
  <2>4. QED
    BY <2>2, <2>3
<1>2. ASSUME NEW n \in 1..m
      PROVE  \E d \in D : d.name = ws[n].name /\ d.site = ws[n].site
  <2>1. PICK d \in D : d.name = vs[n].name /\ d.site = vs[n].site
    BY DEF Holds
  <2>2. QED
    BY <2>1
<1>3. \A n, k \in 1..m : n < k => Before(ws[n].site, ws[k].site)
  BY DEF Holds
<1>4. QED
  BY <1>1, <1>2, <1>3 DEF Holds

(* A list of no entries holds nothing.                                     *)
LEMMA HoldsNothing ==
  ASSUME NEW X, NEW vs \in Seq(X)
  PROVE  Holds(vs, 0, {})
<1>1. 1..0 = {} /\ 0 \in 0..Len(vs)
  OBVIOUS
<1>2. QED
  BY <1>1 DEF Holds

(* A later declaration is added at the end.                                *)
LEMMA HoldsMore ==
  ASSUME NEW X, NEW vs \in Seq(X), NEW D, Holds(vs, Len(vs), D),
         NEW ws \in Seq(X), Len(ws) = Len(vs) + 1,
         \A n \in 1..Len(vs) : ws[n] = vs[n],
         NEW d, d.name = ws[Len(ws)].name, d.site = ws[Len(ws)].site,
         \A c \in D : Before(c.site, d.site)
  PROVE  Holds(ws, Len(ws), D \cup {d})
<1> DEFINE m == Len(vs)
<1>1. /\ m \in Nat /\ Len(ws) \in 0..Len(ws) /\ m + 1 \in 1..Len(ws)
      /\ \A n \in 1..Len(ws) : n \in 1..m \/ n = m + 1
      /\ \A n \in 1..m : n \in 1..Len(ws)
  OBVIOUS
<1>2. ASSUME NEW n \in 1..Len(ws)
      PROVE  \E c \in D \cup {d} : c.name = ws[n].name /\ c.site = ws[n].site
  <2>1. CASE n \in 1..m
    <3>1. PICK c \in D : c.name = vs[n].name /\ c.site = vs[n].site
      BY <2>1 DEF Holds
    <3>2. QED
      BY <2>1, <3>1
  <2>2. CASE n = m + 1
    BY <2>2
  <2>3. QED
    BY <1>1, <2>1, <2>2
<1>3. ASSUME NEW c \in D \cup {d}
      PROVE  \E n \in 1..Len(ws) : c.name = ws[n].name /\ c.site = ws[n].site
  <2>1. CASE c \in D
    <3>1. PICK n \in 1..m : c.name = vs[n].name /\ c.site = vs[n].site
      BY <2>1 DEF Holds
    <3>2. n \in 1..Len(ws) /\ ws[n] = vs[n]
      BY <1>1
    <3>3. QED
      BY <3>1, <3>2
  <2>2. CASE c = d
    BY <1>1, <2>2
  <2>3. QED
    BY <2>1, <2>2
<1>4. ASSUME NEW n \in 1..Len(ws), NEW k \in 1..Len(ws), n < k
      PROVE  Before(ws[n].site, ws[k].site)
  <2>1. n \in 1..m
    BY <1>1, <1>4
  <2>2. CASE k \in 1..m
    BY <1>4, <2>1, <2>2 DEF Holds
  <2>3. CASE k = m + 1
    <3>1. PICK c \in D : c.name = vs[n].name /\ c.site = vs[n].site
      BY <2>1 DEF Holds
    <3>2. ws[n] = vs[n] /\ ws[k].site = d.site
      BY <2>1, <2>3
    <3>3. QED
      BY <3>1, <3>2
  <2>4. QED
    BY <1>1, <2>2, <2>3
<1>5. QED
  BY <1>1, <1>2, <1>3, <1>4 DEF Holds

(* The last entry of a name is the last declaration of it.                 *)
LEMMA HoldsLast ==
  ASSUME NEW p \in Program, NEW D \in SUBSET Declarations(p),
         NEW X, NEW vs \in Seq(X), Holds(vs, Len(vs), D), NEW x,
         NEW m \in 1..Len(vs), vs[m].name = x,
         \A n \in 1..Len(vs) : vs[n].name = x => n <= m
  PROVE  \E d \in LastOf({c \in D : c.name = x}) : d.site = vs[m].site
<1>1. PICK d \in D : d.name = vs[m].name /\ d.site = vs[m].site
  BY DEF Holds
<1>2. ASSUME NEW c \in D, c.name = x, c # d PROVE Before(c.site, d.site)
  <2>1. PICK n \in 1..Len(vs) : c.name = vs[n].name /\ c.site = vs[n].site
    BY DEF Holds
  <2>2. n # m
    BY <1>1, <1>2, <2>1, SiteTells
  <2>3. n < m
    BY <1>2, <2>1, <2>2
  <2>4. QED
    BY <1>1, <2>1, <2>3 DEF Holds
<1>3. QED
  BY <1>1, <1>2 DEF LastOf

(* One of a name declared is there.                                        *)
LEMMA HoldsAll ==
  ASSUME NEW vs, NEW D, Holds(vs, Len(vs), D), NEW d \in D
  PROVE  \E n \in 1..Len(vs) : vs[n].name = d.name
BY DEF Holds

(* What the node a walk is at declares comes after all that is in scope:   *)
(* a declaration, or what the initialiser of a for declares,               *)
LEMMA HoldsDeclared ==
  ASSUME NEW p \in Program, NEW w \in Nodes(p), NEW out, NEW s,
         \/ At(p, w).k \in SimpleKinds /\ s = At(p, w)
         \/ At(p, w).k = "pratyek" /\ s = At(p, w).init,
         DeclaredAt(p, w, out) = DeclarationsAt(p, w),
         NEW X, NEW vs \in Seq(X), Holds(vs, Len(vs), InScope(p, w[1], w[2], out)),
         NEW v \in X, s.k = "decl" => v.name = s.x,
         s.k = "decl" => v.site[1] = w[1] /\ v.site = <<w[1], w[2], v.site[3]>>
                         /\ v.site[3] = IF At(p, w).k = "pratyek" THEN 1 ELSE 0,
         NEW ws, ws = IF s.k = "decl" THEN Append(vs, v) ELSE vs
  PROVE  Holds(ws, Len(ws), InScope(p, w[1], w[2], out) \cup DeclaredAt(p, w, out))
<1> DEFINE D == InScope(p, w[1], w[2], out)
<1>1. CASE s.k = "decl"
  <2>1. PICK d : /\ DeclarationsAt(p, w) = {d}
                 /\ d.name = v.name /\ d.site = v.site
    <3>1. CASE At(p, w).k = "decl"
      <4> DEFINE d == Declaration(At(p, w), <<w[1], w[2], 0>>, BlockOf(p, w))
      <4>1. DeclarationsAt(p, w) = {d}
        BY <3>1 DEF DeclarationsAt
      <4>2. d.name = At(p, w).x /\ d.site = <<w[1], w[2], 0>>
        BY DEF Declaration
      <4>3. s = At(p, w)
        BY <3>1
      <4>4. v.name = At(p, w).x /\ v.site = <<w[1], w[2], 0>>
        BY <1>1, <3>1, <4>3
      <4> HIDE DEF d
      <4>5. QED
        BY <4>1, <4>2, <4>4
    <3>2. CASE At(p, w).k = "pratyek"
      <4> DEFINE d == Declaration(At(p, w).init, <<w[1], w[2], 1>>, <<w[1], w[2], 1>>)
      <4>1. s = At(p, w).init
        BY <3>2 DEF SimpleKinds
      <4>2. DeclarationsAt(p, w) = {d}
        BY <1>1, <3>2, <4>1 DEF DeclarationsAt
      <4>3. d.name = s.x /\ d.site = <<w[1], w[2], 1>>
        BY <4>1 DEF Declaration
      <4>4. v.name = s.x /\ v.site = <<w[1], w[2], 1>>
        BY <1>1, <3>2
      <4> HIDE DEF d
      <4>5. QED
        BY <4>2, <4>3, <4>4
    <3>3. QED
      BY <1>1, <3>1, <3>2
  <2>2. d \in DeclarationsAt(p, w)
    BY <2>1
  <2>3. \A c \in D : Before(c.site, d.site)
    BY <2>2, MetEarlier DEF InScope
  <2>4. /\ ws \in Seq(X) /\ Len(ws) = Len(vs) + 1
        /\ d.name = ws[Len(ws)].name /\ d.site = ws[Len(ws)].site
        /\ \A n \in 1..Len(vs) : ws[n] = vs[n]
    BY <1>1, <2>1
  <2>5. Holds(vs, Len(vs), D)
    OBVIOUS
  <2> HIDE DEF D
  <2>6. Holds(ws, Len(ws), D \cup {d})
    BY <2>3, <2>4, <2>5, HoldsMore
  <2>7. QED
    BY <2>1, <2>6 DEF D
<1>2. CASE s.k # "decl"
  <2>1. DeclarationsAt(p, w) = {}
    BY <1>2 DEF DeclarationsAt, SimpleKinds
  <2>2. QED
    BY <1>2, <2>1
<1>3. QED
  BY <1>1, <1>2

Extended(vs, s, v) == IF s.k = "decl" THEN Append(vs, v) ELSE vs

LEMMA HoldsInitialised ==
  ASSUME NEW p \in Program, NEW w \in Nodes(p), NEW out, NEW X, NEW vs \in Seq(X),
         NEW v \in X, At(p, w).k = "pratyek",
         DeclaredAt(p, w, out) = DeclarationsAt(p, w),
         Holds(vs, Len(vs), InScope(p, w[1], w[2], out)),
         At(p, w).init.k = "decl" => v.name = At(p, w).init.x
                                     /\ v.site = <<w[1], w[2], 1>>,
         NEW ws, ws = Extended(vs, At(p, w).init, v)
  PROVE  Holds(ws, Len(ws), InScope(p, w[1], w[2], out) \cup DeclaredAt(p, w, out))
<1> DEFINE s == At(p, w).init
<1>1. /\ s.k = "decl" => v.name = s.x
      /\ s.k = "decl" => v.site[1] = w[1] /\ v.site = <<w[1], w[2], v.site[3]>>
                         /\ v.site[3] = IF At(p, w).k = "pratyek" THEN 1 ELSE 0
      /\ ws = IF s.k = "decl" THEN Append(vs, v) ELSE vs
  BY DEF Extended
<1>2. At(p, w).k = "pratyek" /\ s = At(p, w).init
  OBVIOUS
<1> HIDE DEF s
<1>3. QED
  BY <1>1, <1>2, HoldsDeclared

(* or the parameters of a function.                                        *)
LEMMA HoldsParameters ==
  ASSUME NEW p \in Program, NEW w \in Nodes(p), At(p, w).k = "karya",
         NEW X, NEW vs \in Seq(X), Len(vs) = Len(At(p, w).params),
         \A j \in 1..Len(vs) : /\ vs[j].name = At(p, w).params[j]
                               /\ vs[j].site = <<w[1], w[2], j>>
  PROVE  Holds(vs, Len(vs), DeclarationsAt(p, w))
<1> DEFINE n == At(p, w)
<1>1. n.params \in Seq(Idents) /\ w[1] \in Nat /\ w[2] \in Nat
  BY NodeShape, NodeFields
<1>2. DeclarationsAt(p, w) =
        {[name |-> n.params[j], ahe |-> FALSE, purnank |-> j \in n.purnanks,
          site |-> <<w[1], w[2], j>>, block |-> <<w[1], w[2], 0>>] :
           j \in 1..Len(vs)}
  BY <1>1 DEF DeclarationsAt
<1>3. ASSUME NEW j \in 1..Len(vs)
      PROVE  \E d \in DeclarationsAt(p, w) : d.name = vs[j].name /\ d.site = vs[j].site
  <2> DEFINE d == [name |-> n.params[j], ahe |-> FALSE,
                   purnank |-> j \in n.purnanks,
                   site |-> <<w[1], w[2], j>>, block |-> <<w[1], w[2], 0>>]
  <2>1. d \in DeclarationsAt(p, w)
    BY <1>2
  <2>2. d.name = vs[j].name /\ d.site = vs[j].site
    OBVIOUS
  <2>3. QED
    BY <2>1, <2>2
<1>4. ASSUME NEW d \in DeclarationsAt(p, w)
      PROVE  \E j \in 1..Len(vs) : d.name = vs[j].name /\ d.site = vs[j].site
  <2>1. PICK j \in 1..Len(vs) :
          d = [name |-> n.params[j], ahe |-> FALSE,
               purnank |-> j \in n.purnanks,
               site |-> <<w[1], w[2], j>>, block |-> <<w[1], w[2], 0>>]
    BY <1>2
  <2>2. QED
    BY <2>1
<1>5. \A j, k \in 1..Len(vs) : j < k => Before(vs[j].site, vs[k].site)
  BY <1>1 DEF Before
<1>6. Len(vs) \in 0..Len(vs)
  OBVIOUS
<1>7. QED
  BY <1>3, <1>4, <1>5, <1>6 DEF Holds

-----------------------------------------------------------------------------
(* A stack of frames, for each its kind and its opener: "chain" stands for *)
(* an if chain between two arms, where no block is open, and a for has two *)
(* frames, the second the "body".                                          *)

Live(fs) == {n \in DOMAIN fs : fs[n].k # "chain"}

NoChain(fs) == \A n \in DOMAIN fs : fs[n].k # "chain"

(* The frames are those of the blocks the walk is in.                      *)
Follows(t, q, fs) ==
  /\ \A n \in Live(fs) : fs[n].at \in Unclosed(t, q)
  /\ \A o \in Unclosed(t, q) : \E n \in Live(fs) : fs[n].at = o
  /\ \A n, m \in Live(fs) : n < m =>
       \/ fs[n].at < fs[m].at
       \/ m = n + 1 /\ fs[m].k = "body" /\ fs[n].at = fs[m].at
  /\ \A n \in Live(fs) : fs[n].k = "body" =>
       n > 1 /\ fs[n - 1].at = fs[n].at /\ t[fs[n].at].k = "pratyek"
  /\ \A n \in DOMAIN fs : fs[n].k = "chain" => n = Len(fs)

(* Nothing is open at the first node.                                      *)
LEMMA FollowsNothing ==
  ASSUME NEW t, NEW q, NEW s, NEW fs, Follows(t, q, fs), Live(fs) = {}
  PROVE  Follows(s, 1, fs)
<1>1. Unclosed(s, 1) = {}
  BY NestedStarts
<1>2. QED
  BY <1>1 DEF Follows

(* A chain that is the last frame is of no block.                          *)
LEMMA FollowsWithout ==
  ASSUME NEW t, NEW q, NEW X, NEW fs \in Seq(X), Follows(t, q, fs)
  PROVE  /\ fs # <<>> /\ Last(fs).k = "chain" =>
              Follows(t, q, Front(fs)) /\ NoChain(Front(fs))
         /\ (fs # <<>> => Last(fs).k # "chain") => NoChain(fs)
<1>1. ASSUME fs # <<>>, Last(fs).k = "chain"
      PROVE  Follows(t, q, Front(fs)) /\ NoChain(Front(fs))
  <2> DEFINE gs == Front(fs)
  <2>1. /\ gs \in Seq(X) /\ Len(gs) = Len(fs) - 1 /\ Len(fs) \in Nat \ {0}
        /\ \A i \in DOMAIN gs : i \in DOMAIN fs /\ i < Len(fs) /\ gs[i] = fs[i]
        /\ \A i \in DOMAIN fs : i < Len(fs) => i \in DOMAIN gs
    BY <1>1, FrontProperties
  <2>2. fs[Len(fs)].k = "chain"
    BY <1>1 DEF Last
  <2> HIDE DEF gs
  <2>3. NoChain(gs)
    BY <2>1 DEF NoChain, Follows
  <2>4. \A n : n \in Live(gs) <=> n \in Live(fs)
    <3>1. \A n \in DOMAIN fs : n # Len(fs) => n < Len(fs)
      OBVIOUS
    <3>2. QED
      BY <2>1, <2>2, <2>3, <3>1 DEF Live, NoChain
  <2>5. \A n \in Live(fs) : gs[n] = fs[n] /\ n \in DOMAIN gs
    BY <2>1, <2>4 DEF Live
  <2>6. \A n \in Live(gs) : gs[n].k = "body" =>
          n > 1 /\ gs[n - 1].at = gs[n].at /\ t[gs[n].at].k = "pratyek"
    <3>1. SUFFICES ASSUME NEW n \in Live(gs), gs[n].k = "body"
                   PROVE  n > 1 /\ gs[n - 1].at = gs[n].at /\ t[gs[n].at].k = "pratyek"
      OBVIOUS
    <3>2. n > 1 /\ fs[n - 1].at = fs[n].at /\ t[fs[n].at].k = "pratyek"
      BY <2>4, <2>5, <3>1 DEF Follows
    <3>3. n - 1 \in DOMAIN gs
      BY <2>1, <2>4, <2>5, <3>2
    <3>4. QED
      BY <2>1, <2>4, <2>5, <3>2, <3>3
  <2>7. QED
    BY <2>3, <2>4, <2>5, <2>6 DEF Follows, NoChain, gs
<1>2. ASSUME fs # <<>> => Last(fs).k # "chain" PROVE NoChain(fs)
  BY <1>2 DEF NoChain, Follows, Last
<1>3. QED
  BY <1>1, <1>2

(* It may be put there.                                                    *)
LEMMA FollowsWith ==
  ASSUME NEW t, NEW q, NEW X, NEW fs \in Seq(X), Follows(t, q, fs), NoChain(fs),
         NEW c \in X, c.k = "chain"
  PROVE  Follows(t, q, Append(fs, c)) /\ Live(Append(fs, c)) = Live(fs)
<1> DEFINE gs == Append(fs, c)
<1>1. /\ gs \in Seq(X) /\ Len(gs) = Len(fs) + 1 /\ gs[Len(gs)] = c
      /\ \A n \in DOMAIN fs : gs[n] = fs[n] /\ n \in DOMAIN gs
      /\ \A n \in DOMAIN gs : n \in DOMAIN fs \/ n = Len(gs)
      /\ Len(fs) \in Nat
  OBVIOUS
<1> HIDE DEF gs
<1>2. Live(gs) = Live(fs)
  BY <1>1 DEF Live, NoChain
<1>3. \A n \in Live(fs) : gs[n] = fs[n]
  BY <1>1 DEF Live
<1>4. \A n \in Live(gs) : gs[n].k = "body" =>
        n > 1 /\ gs[n - 1].at = gs[n].at /\ t[gs[n].at].k = "pratyek"
  <2>1. SUFFICES ASSUME NEW n \in Live(fs), fs[n].k = "body"
                 PROVE  n > 1 /\ gs[n - 1].at = gs[n].at /\ t[gs[n].at].k = "pratyek"
    BY <1>2, <1>3
  <2>2. n > 1 /\ fs[n - 1].at = fs[n].at /\ t[fs[n].at].k = "pratyek"
    BY <2>1 DEF Follows
  <2>3. n - 1 \in DOMAIN fs
    BY <2>2 DEF Live
  <2>4. QED
    BY <1>1, <1>3, <2>2, <2>3
<1>5. \A n \in DOMAIN gs : gs[n].k = "chain" => n = Len(gs)
  BY <1>1 DEF NoChain
<1>6. /\ \A n \in Live(gs) : gs[n].at \in Unclosed(t, q)
      /\ \A o \in Unclosed(t, q) : \E n \in Live(gs) : gs[n].at = o
  BY <1>2, <1>3 DEF Follows
<1>7. \A n, m \in Live(gs) : n < m =>
        \/ gs[n].at < gs[m].at
        \/ m = n + 1 /\ gs[m].k = "body" /\ gs[n].at = gs[m].at
  BY <1>2, <1>3 DEF Follows
<1>8. QED
  BY <1>2, <1>4, <1>5, <1>6, <1>7 DEF Follows, gs

(* A frame is only known by its kind and its opener.                       *)
LEMMA FollowsAlike ==
  ASSUME NEW t, NEW q, NEW X, NEW fs \in Seq(X), NEW gs \in Seq(X),
         Follows(t, q, fs), Len(gs) = Len(fs),
         \A n \in DOMAIN fs : gs[n].k = fs[n].k /\ gs[n].at = fs[n].at
  PROVE  Follows(t, q, gs) /\ Live(gs) = Live(fs)
<1>1. Live(gs) = Live(fs) /\ Live(fs) \subseteq DOMAIN fs /\ DOMAIN gs = DOMAIN fs
  BY DEF Live
<1>2. \A n \in Live(fs) : n > 1 => n - 1 \in DOMAIN fs
  BY <1>1
<1>3. QED
  BY <1>1, <1>2 DEF Follows

(* A block opens.                                                          *)
LEMMA FollowsOpen ==
  ASSUME NEW t, NEW q, NEW X, NEW fs, NEW f,
         q \in Nat, fs \in Seq(X), Follows(t, q, fs), NoChain(fs),
         Unclosed(t, q + 1) = Unclosed(t, q) \cup {q},
         f \in X, f.at = q, f.k \notin {"chain", "body"}
  PROVE  Follows(t, q + 1, Append(fs, f)) /\ NoChain(Append(fs, f))
<1> DEFINE gs == Append(fs, f)
           m == Len(fs)
<1>1. /\ gs \in Seq(X) /\ Len(gs) = m + 1 /\ gs[m + 1] = f /\ m \in Nat
      /\ \A n \in DOMAIN fs : gs[n] = fs[n] /\ n \in 1..m
      /\ \A n : n \in DOMAIN gs <=> n \in DOMAIN fs \/ n = m + 1
  OBVIOUS
<1> HIDE DEF gs
<1>2. Live(fs) = DOMAIN fs /\ NoChain(gs) /\ Live(gs) = Live(fs) \cup {m + 1}
  BY <1>1 DEF Live, NoChain
<1>3. \A o \in Unclosed(t, q) : o < q
  BY DEF Unclosed
<1>4. /\ \A n \in Live(gs) : gs[n].at \in Unclosed(t, q + 1)
      /\ \A o \in Unclosed(t, q + 1) : \E n \in Live(gs) : gs[n].at = o
  <2>1. \A n \in Live(gs) : gs[n].at \in Unclosed(t, q + 1)
    BY <1>1, <1>2 DEF Follows
  <2>2. ASSUME NEW o \in Unclosed(t, q) PROVE \E n \in Live(gs) : gs[n].at = o
    BY <1>1, <1>2 DEF Follows
  <2>3. m + 1 \in Live(gs) /\ gs[m + 1].at = q
    BY <1>1, <1>2
  <2>4. QED
    BY <2>1, <2>2, <2>3
<1>5. ASSUME NEW n \in Live(gs), NEW r \in Live(gs), n < r
      PROVE  \/ gs[n].at < gs[r].at
             \/ r = n + 1 /\ gs[r].k = "body" /\ gs[n].at = gs[r].at
  <2>1. n \in DOMAIN fs
    BY <1>1, <1>2, <1>5
  <2>2. CASE r \in DOMAIN fs
    BY <1>1, <1>2, <1>5, <2>1, <2>2 DEF Follows
  <2>3. CASE r = m + 1
    <3>1. fs[n].at \in Unclosed(t, q)
      BY <1>2, <2>1 DEF Follows
    <3>2. fs[n].at < q
      BY <1>3, <3>1
    <3>3. QED
      BY <1>1, <2>1, <2>3, <3>2
  <2>4. QED
    BY <1>1, <1>2, <2>2, <2>3
<1>6. ASSUME NEW n \in Live(gs), gs[n].k = "body"
      PROVE  n > 1 /\ gs[n - 1].at = gs[n].at /\ t[gs[n].at].k = "pratyek"
  <2>1. n \in DOMAIN fs /\ fs[n].k = "body"
    BY <1>1, <1>2, <1>6
  <2>2. n > 1 /\ fs[n - 1].at = fs[n].at /\ t[fs[n].at].k = "pratyek"
    BY <1>2, <2>1 DEF Follows
  <2>3. n - 1 \in DOMAIN fs
    BY <2>1, <2>2
  <2>4. QED
    BY <1>1, <2>1, <2>2, <2>3
<1>7. \A n \in DOMAIN gs : gs[n].k = "chain" => n = Len(gs)
  BY <1>2 DEF NoChain
<1>8. QED
  BY <1>2, <1>4, <1>5, <1>6, <1>7 DEF Follows, gs

(* A for opens its two.                                                    *)
LEMMA FollowsFor ==
  ASSUME NEW t, NEW q \in Nat, NEW X, NEW fs \in Seq(X), Follows(t, q, fs),
         NoChain(fs), Unclosed(t, q + 1) = Unclosed(t, q) \cup {q},
         t[q].k = "pratyek",
         NEW f \in X, f.at = q, f.k = "pratyek",
         NEW g \in X, g.at = q, g.k = "body"
  PROVE  /\ Follows(t, q + 1, Append(Append(fs, f), g))
         /\ NoChain(Append(Append(fs, f), g))
<1> DEFINE hs == Append(fs, f)
           gs == Append(hs, g)
           m == Len(hs)
<1>1. /\ hs \in Seq(X) /\ Len(hs) = Len(fs) + 1 /\ hs[m] = f /\ m \in Nat \ {0}
      /\ m \in DOMAIN hs
  OBVIOUS
<1>2. Follows(t, q + 1, hs) /\ NoChain(hs)
  <2>1. f.k \notin {"chain", "body"}
    OBVIOUS
  <2>2. Follows(t, q + 1, Append(fs, f)) /\ NoChain(Append(fs, f))
    <3> HIDE DEF hs, gs, m
    <3> QED BY <2>1, FollowsOpen, Zenon
  <2>3. QED
    BY <2>2
<1> HIDE DEF hs
<1>3. /\ gs \in Seq(X) /\ Len(gs) = m + 1 /\ gs[m + 1] = g
      /\ \A n \in DOMAIN hs : gs[n] = hs[n] /\ n \in 1..m
      /\ \A n : n \in DOMAIN gs <=> n \in DOMAIN hs \/ n = m + 1
  BY <1>1
<1> HIDE DEF gs
<1>4. Live(hs) = DOMAIN hs /\ NoChain(gs) /\ Live(gs) = DOMAIN hs \cup {m + 1}
  BY <1>2, <1>3 DEF Live, NoChain
<1>5. \A o \in Unclosed(t, q + 1) : o <= q /\ o \in Nat
  BY DEF Unclosed
<1>6. /\ \A n \in Live(gs) : gs[n].at \in Unclosed(t, q + 1)
      /\ \A o \in Unclosed(t, q + 1) : \E n \in Live(gs) : gs[n].at = o
  <2>1. \A n \in Live(gs) : gs[n].at \in Unclosed(t, q + 1)
    BY <1>2, <1>3, <1>4 DEF Follows
  <2>2. ASSUME NEW o \in Unclosed(t, q + 1) PROVE \E n \in Live(gs) : gs[n].at = o
    <3>1. PICK n \in Live(hs) : hs[n].at = o
      BY <1>2 DEF Follows
    <3>2. QED
      BY <1>3, <1>4, <3>1
  <2>3. QED
    BY <2>1, <2>2
<1>7. ASSUME NEW n \in Live(gs), NEW r \in Live(gs), n < r
      PROVE  \/ gs[n].at < gs[r].at
             \/ r = n + 1 /\ gs[r].k = "body" /\ gs[n].at = gs[r].at
  <2>1. n \in DOMAIN hs
    BY <1>3, <1>4, <1>7
  <2>2. CASE r \in DOMAIN hs
    BY <1>2, <1>3, <1>4, <1>7, <2>1, <2>2 DEF Follows
  <2>3. CASE r = m + 1 /\ n = m
    BY <1>1, <1>3, <2>3
  <2>4. CASE r = m + 1 /\ n # m
    <3>1. n < m
      BY <1>3, <2>1, <2>4
    <3>2. \/ hs[n].at < hs[m].at
          \/ hs[m].k = "body"
      BY <1>1, <1>2, <1>4, <2>1, <3>1 DEF Follows
    <3>3. QED
      BY <1>1, <1>3, <2>1, <2>4, <3>2
  <2>5. QED
    BY <1>3, <1>4, <2>2, <2>3, <2>4
<1>8. ASSUME NEW n \in Live(gs), gs[n].k = "body"
      PROVE  n > 1 /\ gs[n - 1].at = gs[n].at /\ t[gs[n].at].k = "pratyek"
  <2>1. CASE n \in DOMAIN hs
    <3>1. n > 1 /\ hs[n - 1].at = hs[n].at /\ t[hs[n].at].k = "pratyek"
      BY <1>2, <1>3, <1>4, <1>8, <2>1 DEF Follows
    <3>2. n - 1 \in DOMAIN hs
      BY <1>1, <2>1, <3>1
    <3>3. QED
      BY <1>3, <2>1, <3>1, <3>2
  <2>2. CASE n = m + 1
    BY <1>1, <1>3, <2>2
  <2>3. QED
    BY <1>3, <1>4, <2>1, <2>2
<1>9. \A n \in DOMAIN gs : gs[n].k = "chain" => n = Len(gs)
  BY <1>4 DEF NoChain
<1>10. QED
  BY <1>4, <1>6, <1>7, <1>8, <1>9 DEF Follows, gs, hs

(* The innermost block is that of the last frame.                          *)
LEMMA FollowsTop ==
  ASSUME NEW t, NEW q \in Nat, NEW X, NEW fs \in Seq(X), Follows(t, q, fs),
         fs # <<>>, Last(fs).k # "chain"
  PROVE  /\ Last(fs).at \in Unclosed(t, q)
         /\ \A r \in Unclosed(t, q) : r <= Last(fs).at
<1> DEFINE m == Len(fs)
<1>1. m \in Live(fs) /\ Last(fs) = fs[m] /\ \A n \in Live(fs) : n <= m /\ n \in Nat
  BY DEF Live, Last
<1>2. Unclosed(t, q) \subseteq Nat
  BY DEF Unclosed
<1>3. fs[m].at \in Unclosed(t, q)
  BY <1>1 DEF Follows
<1>4. ASSUME NEW r \in Unclosed(t, q) PROVE r <= fs[m].at
  <2>1. PICK n \in Live(fs) : fs[n].at = r
    BY DEF Follows
  <2>2. CASE n = m
    BY <1>2, <1>3, <2>1, <2>2
  <2>3. CASE n < m
    <3>1. fs[n].at < fs[m].at \/ fs[n].at = fs[m].at
      BY <1>1, <2>3 DEF Follows
    <3>2. QED
      BY <1>2, <1>3, <2>1, <3>1
  <2>4. QED
    BY <1>1, <2>2, <2>3
<1>5. QED
  BY <1>1, <1>3, <1>4

(* A block closes: its frames, all those of its opener, go.                *)
LEMMA FollowsCut ==
  ASSUME NEW t, NEW q, NEW X, NEW fs, NEW gs,
         fs \in Seq(X), Follows(t, q, fs), NoChain(fs),
         Unclosed(t, q + 1) = Unclosed(t, q) \ {Last(fs).at},
         gs \in Seq(X), Len(gs) < Len(fs), \A n \in DOMAIN gs : gs[n] = fs[n],
         \A n \in DOMAIN fs : n > Len(gs) <=> fs[n].at = Last(fs).at
  PROVE  Follows(t, q + 1, gs) /\ NoChain(gs)
<1> DEFINE m == Len(gs)
           o == Last(fs).at
<1>1. /\ DOMAIN gs = 1..m /\ \A n \in 1..m : n \in DOMAIN fs
      /\ \A n \in DOMAIN fs : n \in 1..m \/ n > m
  OBVIOUS
<1>2. Live(fs) = DOMAIN fs /\ Live(gs) = 1..m /\ NoChain(gs)
  BY <1>1 DEF Live, NoChain
<1>3. /\ \A n \in 1..m : gs[n].at \in Unclosed(t, q + 1)
      /\ \A r \in Unclosed(t, q + 1) : \E n \in 1..m : gs[n].at = r
  <2>1. ASSUME NEW n \in 1..m PROVE gs[n].at \in Unclosed(t, q + 1)
    <3>1. n \in DOMAIN fs /\ ~(n > m) /\ gs[n] = fs[n]
      BY <1>1
    <3>2. QED
      BY <1>2, <3>1 DEF Follows
  <2>2. ASSUME NEW r \in Unclosed(t, q + 1) PROVE \E n \in 1..m : gs[n].at = r
    <3>1. PICK n \in DOMAIN fs : fs[n].at = r
      BY <1>2 DEF Follows
    <3>2. n \in 1..m
      BY <1>1, <3>1
    <3>3. QED
      BY <3>1, <3>2
  <2>3. QED
    BY <2>1, <2>2
<1>4. \A n, r \in 1..m : n < r =>
        \/ gs[n].at < gs[r].at
        \/ r = n + 1 /\ gs[r].k = "body" /\ gs[n].at = gs[r].at
  BY <1>1, <1>2 DEF Follows
<1>5. ASSUME NEW n \in 1..m, gs[n].k = "body"
      PROVE  n > 1 /\ gs[n - 1].at = gs[n].at /\ t[gs[n].at].k = "pratyek"
  <2>1. n > 1 /\ fs[n - 1].at = fs[n].at /\ t[fs[n].at].k = "pratyek"
    BY <1>1, <1>2, <1>5 DEF Follows
  <2>2. n - 1 \in 1..m
    BY <2>1
  <2>3. QED
    BY <2>1, <2>2
<1>6. \A n \in DOMAIN gs : gs[n].k = "chain" => n = Len(gs)
  BY <1>2 DEF NoChain
<1>7. Follows(t, q + 1, gs)
  <2>1. \A n, r \in Live(gs) : n < r =>
          \/ gs[n].at < gs[r].at
          \/ r = n + 1 /\ gs[r].k = "body" /\ gs[n].at = gs[r].at
    BY <1>2, <1>4
  <2>2. \A n \in Live(gs) : gs[n].k = "body" =>
          n > 1 /\ gs[n - 1].at = gs[n].at /\ t[gs[n].at].k = "pratyek"
    BY <1>2, <1>5
  <2>3. /\ \A n \in Live(gs) : gs[n].at \in Unclosed(t, q + 1)
        /\ \A r \in Unclosed(t, q + 1) : \E n \in Live(gs) : gs[n].at = r
    BY <1>2, <1>3
  <2>4. QED
    BY <1>6, <2>1, <2>2, <2>3 DEF Follows
<1>8. QED
  BY <1>2, <1>7

LEMMA FollowsClose ==
  ASSUME NEW t, NEW q \in Nat, NEW X, NEW fs \in Seq(X), Follows(t, q, fs),
         fs # <<>>, Last(fs).k \notin {"chain", "body"},
         Unclosed(t, q + 1) = Unclosed(t, q) \ {Last(fs).at}
  PROVE  Follows(t, q + 1, Front(fs)) /\ NoChain(Front(fs))
<1> DEFINE gs == Front(fs)
           m == Len(gs)
           o == Last(fs).at
<1>1. /\ gs \in Seq(X) /\ m = Len(fs) - 1 /\ Len(fs) \in Nat \ {0}
      /\ \A i \in DOMAIN gs : i \in DOMAIN fs /\ i < Len(fs) /\ gs[i] = fs[i]
  BY FrontProperties
<1>2. Last(fs) = fs[m + 1] /\ m \in Nat /\ m < Len(fs)
  BY <1>1 DEF Last
<1>3. NoChain(fs)
  BY FollowsWithout
<1>4. ASSUME NEW n \in DOMAIN fs PROVE n > m <=> fs[n].at = o
  <2>1. n \in 1..(m + 1) /\ m + 1 \in DOMAIN fs
    BY <1>1
  <2> Live(fs) = DOMAIN fs
    BY <1>3 DEF Live, NoChain
  <2>2. CASE n = m + 1
    BY <1>2, <2>2
  <2>3. CASE n < m + 1
    <3>1. fs[n].at < fs[m + 1].at
      BY <1>2, <2>1, <2>3 DEF Follows
    <3>2. fs[n].at \in Nat /\ fs[m + 1].at \in Nat
      BY <2>1 DEF Follows, Unclosed
    <3>3. QED
      BY <1>2, <2>3, <3>1, <3>2
  <2>4. QED
    BY <2>1, <2>2, <2>3
<1>5. gs \in Seq(X) /\ Len(gs) < Len(fs) /\ \A i \in DOMAIN gs : gs[i] = fs[i]
  BY <1>1, <1>2
<1> HIDE DEF gs
<1>6. Follows(t, q + 1, gs) /\ NoChain(gs)
  BY <1>3, <1>4, <1>5, FollowsCut, Zenon
<1>7. QED
  BY <1>6 DEF gs

LEMMA FollowsEndFor ==
  ASSUME NEW t, NEW q \in Nat, NEW X, NEW fs \in Seq(X), Follows(t, q, fs),
         fs # <<>>, Last(fs).k = "body",
         Unclosed(t, q + 1) = Unclosed(t, q) \ {Last(fs).at}
  PROVE  /\ Len(fs) > 1 /\ fs[Len(fs) - 1].at = Last(fs).at
         /\ Len(fs) - 1 \in Live(fs) /\ Len(fs) \in Live(fs)
         /\ t[Last(fs).at].k = "pratyek"
         /\ Follows(t, q + 1, Front(Front(fs))) /\ NoChain(Front(Front(fs)))
<1> DEFINE hs == Front(fs)
           gs == Front(hs)
           m == Len(fs) - 2
           o == Last(fs).at
<1>1. /\ hs \in Seq(X) /\ Len(hs) = m + 1 /\ Len(fs) \in Nat \ {0}
      /\ \A i \in DOMAIN hs : i \in DOMAIN fs /\ i < Len(fs) /\ hs[i] = fs[i]
  BY FrontProperties
<1>2. Last(fs) = fs[m + 2] /\ m + 2 \in DOMAIN fs /\ fs[m + 2].k = "body"
  BY <1>1 DEF Last
<1>3. NoChain(fs) /\ Live(fs) = DOMAIN fs
  BY FollowsWithout DEF Live, NoChain
<1>4. m + 2 > 1 /\ fs[(m + 2) - 1].at = fs[m + 2].at /\ t[fs[m + 2].at].k = "pratyek"
  BY <1>2, <1>3 DEF Follows
<1>5. m \in Nat /\ m + 1 \in DOMAIN fs /\ (m + 2) - 1 = m + 1 /\ hs # <<>>
  BY <1>1, <1>4
<1> HIDE DEF hs
<1>6. gs \in Seq(X) /\ Len(gs) = m /\ \A n \in 1..m : gs[n] = fs[n] /\ n \in DOMAIN fs
  <2>1. /\ gs \in Seq(X)
        /\ Len(gs) = IF hs = <<>> THEN 0 ELSE Len(hs) - 1
        /\ \A i \in 1..(Len(hs) - 1) : gs[i] = hs[i]
    <3> hs \in Seq(X)
      BY <1>1
    <3> HIDE DEF m, o
    <3> QED BY FrontProperties
  <2> HIDE DEF gs
  <2>2. Len(hs) - 1 = m /\ \A n \in 1..m : n \in DOMAIN hs
    BY <1>1, <1>5
  <2>3. QED
    BY <1>1, <1>5, <2>1, <2>2
<1>7. ASSUME NEW n \in DOMAIN fs PROVE n > m <=> fs[n].at = o
  <2>1. n \in 1..(m + 2)
    BY <1>5
  <2>2. CASE n = m + 2 \/ n = m + 1
    BY <1>2, <1>4, <1>5, <2>2
  <2>3. CASE n < m + 1
    <3>1. fs[n].at < fs[m + 2].at
      BY <1>2, <1>3, <1>5, <2>3 DEF Follows
    <3>2. fs[n].at \in Nat /\ fs[m + 2].at \in Nat
      BY <1>2, <1>3 DEF Follows, Unclosed
    <3>3. QED
      BY <1>2, <2>3, <3>1, <3>2, <1>5
  <2>4. QED
    BY <1>5, <2>1, <2>2, <2>3
<1> HIDE DEF gs
<1>8. /\ gs \in Seq(X) /\ Len(gs) < Len(fs) /\ \A i \in DOMAIN gs : gs[i] = fs[i]
      /\ \A n \in DOMAIN fs : n > Len(gs) <=> fs[n].at = Last(fs).at
  <2>1. gs \in Seq(X) /\ Len(gs) = m /\ DOMAIN gs = 1..m
    BY <1>6
  <2>2. \A n \in DOMAIN fs : n > Len(gs) <=> fs[n].at = Last(fs).at
    BY <1>7, <2>1
  <2>3. Len(gs) < Len(fs)
    BY <1>1, <2>1
  <2>4. \A i \in DOMAIN gs : gs[i] = fs[i]
    BY <1>6, <2>1
  <2>5. QED
    BY <2>1, <2>2, <2>3, <2>4
<1>9. Follows(t, q + 1, gs) /\ NoChain(gs)
  BY <1>3, <1>8, FollowsCut, Zenon
<1>10. QED
  BY <1>1, <1>2, <1>3, <1>4, <1>5, <1>9 DEF gs, hs

-----------------------------------------------------------------------------
(* The list of a walk that keeps one: it holds what is in scope, and each  *)
(* frame marks how much of it is older than its block.                     *)

(* What was in scope when the block of frame f opened.                     *)
Within(p, i, f, out) ==
  InScope(p, i, f.at, out)
  \cup (IF f.k = "body" THEN DeclaredAt(p, <<i, f.at>>, out) ELSE {})

Tracks(p, i, q, out, vs, fs) ==
  /\ Holds(vs, Len(vs), InScope(p, i, q, out))
  /\ \A n \in Live(fs) : Holds(vs, fs[n].mark, Within(p, i, fs[n], out))

(* A step of the walk keeps it when it leaves what the marks of the frames *)
(* it keeps are over.                                                      *)
LEMMA TracksOn ==
  ASSUME NEW p, NEW i, NEW q, NEW r, NEW out, NEW vs, NEW fs, NEW ws, NEW gs,
         Tracks(p, i, q, out, vs, fs),
         Holds(ws, Len(ws), InScope(p, i, r, out)),
         \A n \in Live(gs) :
           \/ Holds(ws, gs[n].mark, Within(p, i, gs[n], out))
           \/ /\ n \in Live(fs) /\ gs[n].k = fs[n].k /\ gs[n].at = fs[n].at
              /\ gs[n].mark = fs[n].mark
              /\ gs[n].mark \in 0..Len(ws)
              /\ \A j \in 1..gs[n].mark : ws[j] = vs[j]
  PROVE  Tracks(p, i, r, out, ws, gs)
<1>1. ASSUME NEW n \in Live(gs)
      PROVE  Holds(ws, gs[n].mark, Within(p, i, gs[n], out))
  <2>1. CASE /\ n \in Live(fs) /\ gs[n].k = fs[n].k /\ gs[n].at = fs[n].at
             /\ gs[n].mark = fs[n].mark /\ gs[n].mark \in 0..Len(ws)
             /\ \A j \in 1..gs[n].mark : ws[j] = vs[j]
    <3>1. Holds(vs, gs[n].mark, Within(p, i, fs[n], out))
      BY <2>1 DEF Tracks
    <3>2. Within(p, i, gs[n], out) = Within(p, i, fs[n], out)
      BY <2>1 DEF Within
    <3>3. gs[n].mark \in Nat
      BY <2>1
    <3>4. Holds(ws, gs[n].mark, Within(p, i, fs[n], out))
      BY <2>1, <3>1, <3>3, HoldsKept
    <3>5. QED
      BY <3>2, <3>4
  <2>2. QED
    BY <2>1
<1>2. QED
  BY <1>1 DEF Tracks

(* A node that is no close and declares nothing leaves the scope as it is. *)
LEMMA ScopeStays ==
  ASSUME NEW p \in Program, IsTree(p), NEW i \in DOMAIN p, NEW q \in DOMAIN p[i],
         p[i][q].k \notin {"close", "decl", "pratyek", "karya"}, Nested(p[i], q),
         NEW out
  PROVE  InScope(p, i, q + 1, out) = InScope(p, i, q, out)
<1>1. InScope(p, i, q + 1, out) =
        InScope(p, i, q, out) \cup DeclaredAt(p, <<i, q>>, out)
  BY ScopeGrows
<1>2. At(p, <<i, q>>) = p[i][q]
  BY NodeAt
<1>3. DeclarationsAt(p, <<i, q>>) = {}
  BY <1>2 DEF DeclarationsAt
<1>4. QED
  BY <1>1, <1>3 DEF DeclaredAt

(* Such a node passes,                                                     *)
LEMMA TracksPass ==
  ASSUME NEW p \in Program, IsTree(p), NEW i \in DOMAIN p, NEW q \in DOMAIN p[i],
         p[i][q].k \notin {"close", "decl", "pratyek", "karya"}, Nested(p[i], q),
         NEW out, NEW vs, NEW fs, Tracks(p, i, q, out, vs, fs)
  PROVE  Tracks(p, i, q + 1, out, vs, fs)
<1>1. InScope(p, i, q + 1, out) = InScope(p, i, q, out)
  BY ScopeStays
<1>2. QED
  BY <1>1 DEF Tracks

(* or opens a block, after the frames that are left of fs.                 *)
LEMMA TracksOpen ==
  ASSUME NEW p \in Program, IsTree(p), NEW i \in DOMAIN p, NEW q \in DOMAIN p[i],
         p[i][q].k \notin {"close", "decl", "pratyek", "karya"}, Nested(p[i], q),
         NEW out, NEW vs, NEW fs, Tracks(p, i, q, out, vs, fs),
         NEW X, NEW hs \in Seq(X), NoChain(hs),
         \A n \in DOMAIN hs : /\ n \in DOMAIN fs /\ hs[n].k = fs[n].k
                              /\ hs[n].at = fs[n].at /\ hs[n].mark = fs[n].mark,
         NEW f \in X, f.at = q, f.mark = Len(vs), f.k # "body"
  PROVE  Tracks(p, i, q + 1, out, vs, Append(hs, f))
<1> DEFINE gs == Append(hs, f)
<1>1. InScope(p, i, q + 1, out) = InScope(p, i, q, out)
  BY ScopeStays
<1>2. /\ \A n \in DOMAIN gs : n \in DOMAIN hs \/ n = Len(hs) + 1
      /\ \A n \in DOMAIN hs : gs[n] = hs[n]
      /\ gs[Len(hs) + 1] = f
  OBVIOUS
<1> HIDE DEF gs
<1>3. \A n \in DOMAIN hs : n \in Live(fs)
  BY DEF Live, NoChain
<1>4. Holds(vs, Len(vs), InScope(p, i, q, out))
  BY DEF Tracks
<1>5. ASSUME NEW n \in Live(gs)
      PROVE  Holds(vs, gs[n].mark, Within(p, i, gs[n], out))
  <2>1. CASE n \in DOMAIN hs
    <3>1. Holds(vs, fs[n].mark, Within(p, i, fs[n], out))
      BY <1>3, <2>1 DEF Tracks
    <3>2. /\ Within(p, i, gs[n], out) = Within(p, i, fs[n], out)
          /\ gs[n].mark = fs[n].mark
      BY <1>2, <2>1 DEF Within
    <3>3. QED
      BY <3>1, <3>2
  <2>2. CASE n = Len(hs) + 1
    <3>1. Within(p, i, f, out) = InScope(p, i, q, out)
      BY DEF Within
    <3>2. QED
      BY <1>2, <1>4, <2>2, <3>1
  <2>3. QED
    BY <1>2, <2>1, <2>2 DEF Live
<1>6. QED
  BY <1>1, <1>4, <1>5 DEF Tracks, gs

(* A simple statement adds what it declares,                               *)
LEMMA TracksDeclares ==
  ASSUME NEW p \in Program, IsTree(p), NEW i \in DOMAIN p, NEW q \in DOMAIN p[i],
         p[i][q].k # "close", Nested(p[i], q),
         NEW out, NEW vs, NEW fs, Tracks(p, i, q, out, vs, fs),
         NEW ws, Len(vs) \in 0..Len(ws), \A j \in 1..Len(vs) : ws[j] = vs[j],
         Holds(ws, Len(ws), InScope(p, i, q, out) \cup DeclaredAt(p, <<i, q>>, out))
  PROVE  Tracks(p, i, q + 1, out, ws, fs)
<1>1. InScope(p, i, q + 1, out) =
        InScope(p, i, q, out) \cup DeclaredAt(p, <<i, q>>, out)
  BY ScopeGrows
<1>2. ASSUME NEW n \in Live(fs)
      PROVE  Holds(ws, fs[n].mark, Within(p, i, fs[n], out))
  <2>1. Holds(vs, fs[n].mark, Within(p, i, fs[n], out))
    BY DEF Tracks
  <2>2. fs[n].mark \in 0..Len(vs)
    BY <2>1 DEF Holds
  <2>3. fs[n].mark \in Nat /\ fs[n].mark \in 0..Len(ws)
        /\ \A j \in 1..fs[n].mark : ws[j] = vs[j]
    BY <2>2
  <2>4. QED
    BY <2>1, <2>3, HoldsKept
<1>3. QED
  BY <1>1, <1>2 DEF Tracks

(* and a for what its initialiser does, between its two frames.            *)
LEMMA TracksFor ==
  ASSUME NEW p \in Program, IsTree(p), NEW i \in DOMAIN p, NEW q \in DOMAIN p[i],
         p[i][q].k # "close", Nested(p[i], q),
         NEW out, NEW vs, NEW X, NEW fs \in Seq(X), Tracks(p, i, q, out, vs, fs),
         NEW ws, Len(vs) \in 0..Len(ws), \A j \in 1..Len(vs) : ws[j] = vs[j],
         Holds(ws, Len(ws), InScope(p, i, q, out) \cup DeclaredAt(p, <<i, q>>, out)),
         NEW f \in X, f.at = q, f.mark = Len(vs), f.k = "pratyek",
         NEW g \in X, g.at = q, g.mark = Len(ws), g.k = "body"
  PROVE  Tracks(p, i, q + 1, out, ws, Append(Append(fs, f), g))
<1> DEFINE gs == Append(Append(fs, f), g)
<1>1. Tracks(p, i, q + 1, out, ws, fs)
  BY TracksDeclares
<1>2. /\ \A n \in DOMAIN gs : n \in DOMAIN fs \/ n = Len(fs) + 1 \/ n = Len(fs) + 2
      /\ \A n \in DOMAIN fs : gs[n] = fs[n]
      /\ gs[Len(fs) + 1] = f /\ gs[Len(fs) + 2] = g
  OBVIOUS
<1> HIDE DEF gs
<1>3. Holds(ws, g.mark, Within(p, i, g, out))
  <2>1. Within(p, i, g, out) = InScope(p, i, q, out) \cup DeclaredAt(p, <<i, q>>, out)
    BY DEF Within
  <2>2. QED
    BY <2>1
<1>4. Holds(ws, f.mark, Within(p, i, f, out))
  <2>1. Within(p, i, f, out) = InScope(p, i, q, out)
    BY DEF Within
  <2>2. Holds(vs, f.mark, InScope(p, i, q, out))
    BY DEF Tracks
  <2>3. f.mark \in Nat /\ f.mark \in 0..Len(ws) /\ \A j \in 1..f.mark : ws[j] = vs[j]
    OBVIOUS
  <2>4. Holds(ws, f.mark, InScope(p, i, q, out))
    BY <2>2, <2>3, HoldsKept
  <2>5. QED
    BY <2>1, <2>4
<1>5. ASSUME NEW n \in Live(gs)
      PROVE  Holds(ws, gs[n].mark, Within(p, i, gs[n], out))
  <2>1. CASE n \in DOMAIN fs
    <3>1. gs[n] = fs[n] /\ n \in Live(fs)
      BY <1>2, <2>1 DEF Live
    <3>2. Holds(ws, fs[n].mark, Within(p, i, fs[n], out))
      BY <1>1, <3>1 DEF Tracks
    <3>3. QED
      BY <3>1, <3>2
  <2>2. CASE n = Len(fs) + 1 \/ n = Len(fs) + 2
    BY <1>2, <1>3, <1>4, <2>2
  <2>3. QED
    BY <1>2, <2>1, <2>2 DEF Live
<1>6. QED
  BY <1>1, <1>5 DEF Tracks, gs

(* The close of a block leaves what was in scope when it opened.           *)
LEMMA TracksClose ==
  ASSUME NEW p \in Program, IsTree(p), NEW i \in DOMAIN p, NEW q \in DOMAIN p[i],
         p[i][q].k = "close", Nested(p[i], q),
         NEW out, NEW X, NEW vs \in Seq(X), NEW fs, Tracks(p, i, q, out, vs, fs),
         NEW h \in Live(fs), fs[h].k # "body", fs[h].at \in Unclosed(p[i], q),
         \A r \in Unclosed(p[i], q) : r <= fs[h].at,
         NEW gs,
         \A n \in Live(gs) : /\ n \in Live(fs) /\ gs[n].k = fs[n].k
                             /\ gs[n].at = fs[n].at /\ gs[n].mark = fs[n].mark
                             /\ fs[n].mark <= fs[h].mark
  PROVE  Tracks(p, i, q + 1, out, SubSeq(vs, 1, fs[h].mark), gs)
<1> DEFINE m == fs[h].mark
           ws == SubSeq(vs, 1, m)
           o == fs[h].at
<1>1. InScope(p, i, q + 1, out) = InScope(p, i, o, out)
  BY ScopeShrinks
<1>2. Holds(vs, m, InScope(p, i, o, out))
  BY DEF Tracks, Within
<1>3. m \in Nat /\ m \in 0..Len(vs)
  BY <1>2 DEF Holds
<1>4. /\ ws \in Seq(X) /\ Len(ws) = m
      /\ \A j \in 1..m : ws[j] = vs[j]
  <2>1. \A j \in 1..m : vs[j] \in X
    BY <1>3
  <2> HIDE DEF m
  <2>2. QED
    BY <1>3, <2>1, SubSeqProperties
<1> HIDE DEF ws, m, o
<1>5. Holds(ws, Len(ws), InScope(p, i, o, out))
  <2>1. m \in 0..Len(ws)
    BY <1>3, <1>4
  <2>2. Holds(ws, m, InScope(p, i, o, out))
    BY <1>2, <1>3, <1>4, <2>1, HoldsKept
  <2>3. QED
    BY <1>4, <2>2
<1>6. ASSUME NEW n \in Live(gs)
      PROVE  Holds(ws, gs[n].mark, Within(p, i, gs[n], out))
  <2>1. /\ Holds(vs, fs[n].mark, Within(p, i, fs[n], out))
        /\ gs[n].mark = fs[n].mark /\ fs[n].mark <= m
    BY DEF Tracks, m
  <2>2. Within(p, i, gs[n], out) = Within(p, i, fs[n], out)
    BY DEF Within
  <2>3. fs[n].mark \in 0..Len(vs)
    BY <2>1 DEF Holds
  <2>4. fs[n].mark \in Nat /\ fs[n].mark \in 0..Len(ws)
        /\ \A j \in 1..fs[n].mark : ws[j] = vs[j]
    BY <1>3, <1>4, <2>1, <2>3
  <2>5. Holds(ws, fs[n].mark, Within(p, i, fs[n], out))
    BY <2>1, <2>4, HoldsKept
  <2>6. QED
    BY <2>1, <2>2, <2>5
<1>7. QED
  BY <1>1, <1>5, <1>6 DEF Tracks, ws, m

(* A function begins with its parameters, on a list of its own.            *)
LEMMA TracksFunction ==
  ASSUME NEW p \in Program, IsTree(p), NEW i \in DOMAIN p, p[i][1].k = "karya",
         NEW vs, Holds(vs, Len(vs), DeclarationsAt(p, <<i, 1>>)),
         NEW X, NEW f \in X, f.at = 1, f.mark = 0, f.k = "karya"
  PROVE  Tracks(p, i, 2, {TopLevel}, vs, Append(<<>>, f))
<1> DEFINE gs == Append(<<>>, f)
           w == <<i, 1>>
<1>1. DOMAIN gs = {1} /\ gs[1] = f
  OBVIOUS
<1> HIDE DEF gs
<1>2. /\ 1 \in DOMAIN p[i] /\ w \in Nodes(p) /\ At(p, w).k = "karya"
      /\ w[1] = i /\ w[2] = 1
  <2>1. p[i] \in Seq(Node) /\ p[i] # <<>>
    BY TreeBracketed
  <2>2. 1 \in DOMAIN p[i]
    BY <2>1
  <2>3. QED
    BY <2>2, NodeAt
<1>3. InScope(p, i, 1, {TopLevel}) = {}
  BY ScopeIsLocal
<1>4. DeclaredAt(p, w, {TopLevel}) = DeclarationsAt(p, w)
  <2> HIDE DEF w
  <2>1. \A d \in DeclarationsAt(p, w) : d.block # TopLevel
    BY <1>2, TopLevelStatement
  <2>2. QED
    BY <2>1 DEF DeclaredAt
<1>5. InScope(p, i, 1 + 1, {TopLevel}) = DeclarationsAt(p, w)
  <2>1. Nested(p[i], 1)
    BY NestedStarts
  <2>2. InScope(p, i, 1 + 1, {TopLevel}) =
          InScope(p, i, 1, {TopLevel}) \cup DeclaredAt(p, w, {TopLevel})
    BY <1>2, <2>1, ScopeGrows
  <2>3. QED
    BY <1>3, <1>4, <2>2
<1>6. Within(p, i, f, {TopLevel}) = {}
  BY <1>3 DEF Within
<1>7. Holds(vs, 0, {})
  <2>1. Len(vs) \in 0..Len(vs)
    BY DEF Holds
  <2>2. 0 \in 0..Len(vs) /\ 1..0 = {}
    BY <2>1
  <2>3. QED
    BY <2>2 DEF Holds
<1>8. \A n \in Live(gs) : Holds(vs, gs[n].mark, Within(p, i, gs[n], {TopLevel}))
  BY <1>1, <1>6, <1>7 DEF Live
<1>9. 1 + 1 = 2
  OBVIOUS
<1>10. QED
  BY <1>5, <1>8, <1>9 DEF Tracks, gs

(* Between two statements the list is that of the top level,               *)
LEMMA TracksTurn ==
  ASSUME NEW p \in Program, IsTree(p), NEW i \in DOMAIN p, NEW out, NEW vs, NEW fs,
         Tracks(p, i, Len(p[i]) + 1, out, vs, fs), Live(fs) = {}
  PROVE  Tracks(p, i + 1, 1, out, vs, fs)
<1>1. InScope(p, i + 1, 1, out) = InScope(p, i, Len(p[i]) + 1, out)
  BY ScopeTurns
<1>2. QED
  BY <1>1 DEF Tracks

(* also past a function,                                                   *)
LEMMA TracksSkip ==
  ASSUME NEW p \in Program, IsTree(p), NEW i \in DOMAIN p, p[i][1].k = "karya",
         NEW vs, NEW fs, Tracks(p, i, 1, {}, vs, fs), Live(fs) = {}
  PROVE  Tracks(p, i + 1, 1, {}, vs, fs)
<1>1. InScope(p, i + 1, 1, {}) = InScope(p, i, 1, {})
  BY ScopeSkips
<1>2. QED
  BY <1>1 DEF Tracks

(* and at the start it is empty.                                           *)
LEMMA TracksStart ==
  ASSUME NEW p \in Program
  PROVE  Tracks(p, 1, 1, {}, <<>>, <<>>)
<1>1. Met(p, 1, 1) = {}
  BY VisitedFirst DEF Met
<1>2. InScope(p, 1, 1, {}) = {}
  BY <1>1 DEF InScope
<1>3. Live(<<>>) = {} /\ Len(<<>>) = 0
  BY DEF Live
<1>4. Holds(<<>>, 0, {})
  <2>1. 0 \in 0..Len(<<>>) /\ 1..0 = {}
    OBVIOUS
  <2>2. QED
    BY <2>1 DEF Holds
<1>5. QED
  BY <1>2, <1>3, <1>4 DEF Tracks
=============================================================================
