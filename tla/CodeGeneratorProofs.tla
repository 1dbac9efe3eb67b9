------------------------- MODULE CodeGeneratorProofs -------------------------
(***************************************************************************)
(* Proofs about the code generator, for every program and any number of    *)
(* argument registers: _stackSize is at every step the slots of the blocks *)
(* being generated, every block leaves it as it found it, no two variables *)
(* in scope share a slot, and on every path of the emitted code rsp is     *)
(* where the code generator thinks, or deeper once thamba or pudhe leaked. *)
(*                                                                         *)
(* The last part is about names: what the one list of variables, cut back  *)
(* at the end of each block, holds at each node of a program sema          *)
(* accepted, and so what FindVar() finds there.  CompilerProofs uses it.   *)
(***************************************************************************)
EXTENDS CodeGenerator, Integers, SequencesExt, FiniteSetsExt, FiniteSetTheorems,
        SequenceTheorems, WellFoundedInduction, TLAPS

-----------------------------------------------------------------------------
(* Sequences used as stacks, and least elements.                           *)

(* Popping a stack keeps everything below its top.                         *)
LEMMA FrontProperties ==
  ASSUME NEW S, NEW s \in Seq(S)
  PROVE  /\ Front(s) \in Seq(S)
         /\ Len(Front(s)) = IF s = <<>> THEN 0 ELSE Len(s) - 1
         /\ \A i \in 1..(Len(s) - 1) : Front(s)[i] = s[i]
<1>1. \A i \in 1..(Len(s) - 1) : s[i] \in S
  OBVIOUS
<1>2. /\ SubSeq(s, 1, Len(s) - 1) \in Seq(S)
      /\ Len(SubSeq(s, 1, Len(s) - 1)) = IF 1 <= Len(s) - 1 THEN Len(s) - 1 ELSE 0
      /\ \A i \in 1..(Len(s) - 1) : SubSeq(s, 1, Len(s) - 1)[i] = s[i]
  BY <1>1, SubSeqProperties
<1>3. QED
  BY <1>2 DEF Front

(* A set of naturals that is not empty has a least element, and Min() is   *)
(* it.                                                                     *)
LEMMA MinOfNaturals ==
  ASSUME NEW T \in SUBSET Nat, T # {}
  PROVE  Min(T) \in T /\ \A y \in T : Min(T) <= y
<1> DEFINE R == {ss \in Nat \X Nat : ss[1] < ss[2]}
<1>1. IsWellFoundedOn(R, Nat)
  BY NatLessThanWellFounded, Zenon DEF OpToRel
<1>2. \E x \in T : \A y \in T : ~ (<<y, x>> \in R)
  <2> HIDE DEF R
  <2> QED  BY <1>1, WFMin, Zenon
<1>3. \E x \in T : \A y \in T : x <= y
  <2>1. PICK x \in T : \A y \in T : ~ (<<y, x>> \in R)
    BY <1>2
  <2>2. ASSUME NEW y \in T PROVE x <= y
    <3>1. ~ (y < x)
      BY <2>1, <<y, x>> \in Nat \X Nat
    <3>2. QED
      BY <3>1
  <2>3. QED
    BY <2>2
<1>4. QED
  BY <1>3 DEF Min

(* A set of positions that is not empty has a last one, and Max() is it.   *)
LEMMA MaxOfPositions ==
  ASSUME NEW n \in Nat, NEW T \in SUBSET (1..n), T # {}
  PROVE  Max(T) \in T /\ \A y \in T : Max(T) >= y
<1> DEFINE U == {n - x : x \in T}
<1>1. U \in SUBSET Nat /\ U # {}
  OBVIOUS
<1>2. Min(U) \in U /\ \A y \in U : Min(U) <= y
  <2> HIDE DEF U
  <2>1. QED
    BY <1>1, MinOfNaturals
<1>3. PICK x \in T : Min(U) = n - x
  BY <1>2
<1>4. \A y \in T : n - y \in U
  OBVIOUS
<1>5. \A y \in T : x >= y
  <2> HIDE DEF U
  <2>1. QED
    BY <1>2, <1>3, <1>4
<1>6. QED
  BY <1>5 DEF Max

-----------------------------------------------------------------------------
(* What the variables hold.                                                *)

VarRecord == [name: Idents, static: BOOLEAN, loc: Nat, site: Nat \X Nat \X Nat]

FrameKinds == {"scope", "arm", "chain", "jovar", "pratyek", "body", "paryay",
               "case", "karya"}

FrameRecord ==
  [k: FrameKinds, at: Nat, base: Nat, slots: Nat, mark: Nat,
   head: Nat \cup {NoLabel}, next: Nat \cup {NoLabel}, end: Nat \cup {NoLabel},
   more: BOOLEAN, cases: Seq(Nat), arm: Nat]

-----------------------------------------------------------------------------
(* Counting slots.                                                         *)

(* The stack slots of the variables after lo and up to hi.                 *)
SlotSet(vs, lo, hi) == {j \in (lo + 1)..hi : ~vs[j].static}
Slots(vs, lo, hi) == Cardinality(SlotSet(vs, lo, hi))

(* They are finitely many.                                                 *)
LEMMA SlotsFinite ==
  ASSUME NEW vs, NEW lo \in Nat, NEW hi \in Nat
  PROVE  IsFiniteSet(SlotSet(vs, lo, hi)) /\ Slots(vs, lo, hi) \in Nat
<1>1. SlotSet(vs, lo, hi) \in SUBSET ((lo + 1)..hi)
  BY DEF SlotSet
<1>2. IsFiniteSet((lo + 1)..hi)
  BY FS_Interval
<1>3. QED
  BY <1>1, <1>2, FS_Subset, FS_CardinalityType, Zenon DEF Slots

(* No variable, no slot.                                                   *)
LEMMA SlotsOfNone ==
  ASSUME NEW vs, NEW lo \in Nat
  PROVE  Slots(vs, lo, lo) = 0
<1>1. SlotSet(vs, lo, lo) = {}
  BY DEF SlotSet
<1>2. QED
  BY <1>1, FS_EmptySet DEF Slots

(* Slots are counted from the variables in the range alone.                *)
LEMMA SlotsAgree ==
  ASSUME NEW vs, NEW ws, NEW lo \in Nat, NEW hi \in Nat,
         \A j \in 1..hi : vs[j] = ws[j]
  PROVE  Slots(vs, lo, hi) = Slots(ws, lo, hi)
<1>1. SlotSet(vs, lo, hi) = SlotSet(ws, lo, hi)
  BY DEF SlotSet
<1>2. QED
  BY <1>1 DEF Slots

(* The next variable adds a slot unless it is static.                      *)
LEMMA SlotsOfOneMore ==
  ASSUME NEW vs, NEW lo \in Nat, NEW hi \in Nat, lo <= hi,
         vs[hi + 1].static \in BOOLEAN
  PROVE  Slots(vs, lo, hi + 1) =
           Slots(vs, lo, hi) + (IF vs[hi + 1].static THEN 0 ELSE 1)
<1>1. IsFiniteSet(SlotSet(vs, lo, hi)) /\ Slots(vs, lo, hi) \in Nat
  BY SlotsFinite
<1>2. CASE vs[hi + 1].static
  <2>1. SlotSet(vs, lo, hi + 1) = SlotSet(vs, lo, hi)
    BY <1>2 DEF SlotSet
  <2>2. QED
    BY <1>1, <1>2, <2>1 DEF Slots
<1>3. CASE ~vs[hi + 1].static
  <2>1. SlotSet(vs, lo, hi + 1) = SlotSet(vs, lo, hi) \cup {hi + 1}
    BY <1>3 DEF SlotSet
  <2>2. hi + 1 \notin SlotSet(vs, lo, hi)
    BY DEF SlotSet
  <2>3. QED
    BY <1>1, <1>3, <2>1, <2>2, FS_AddElement DEF Slots
<1>4. QED
  BY <1>2, <1>3

-----------------------------------------------------------------------------
(* The accounting, as a predicate of the frames, the variables and the     *)
(* stack size, so that a step that ends two blocks can be followed in two  *)
(* halves.                                                                 *)
MarkAfter(fs, vs, i) == IF i = Len(fs) THEN Len(vs) ELSE fs[i + 1].mark
BaseAfter(fs, size, i) == IF i = Len(fs) THEN size ELSE fs[i + 1].base

Accounted(fs, vs, size) ==
  /\ fs \in Seq(FrameRecord) /\ vs \in Seq(VarRecord) /\ size \in Nat
  /\ fs = <<>> => size = 0
  /\ fs # <<>> => fs[1].base = 0
  /\ \A i \in DOMAIN fs : fs[i].mark <= Len(vs)
  /\ \A i, j \in DOMAIN fs : i < j => fs[i].mark <= fs[j].mark
  /\ \A i \in DOMAIN fs :
       BaseAfter(fs, size, i) = fs[i].base + fs[i].slots
                                  + Slots(vs, fs[i].mark, MarkAfter(fs, vs, i))
  /\ \A i \in DOMAIN fs :
       fs[i].k \in {"chain", "paryay"} => MarkAfter(fs, vs, i) = fs[i].mark
  /\ \A i \in DOMAIN fs : fs[i].slots = (IF fs[i].k = "paryay" THEN 1 ELSE 0)

(* The fields of a frame the accounting adds up are numbers.               *)
LEMMA FramesAreNumbers ==
  ASSUME NEW fs \in Seq(FrameRecord), NEW i \in DOMAIN fs
  PROVE  /\ fs[i] \in FrameRecord
         /\ fs[i].mark \in Nat /\ fs[i].base \in Nat /\ fs[i].slots \in Nat
<1>1. fs[i] \in FrameRecord
  OBVIOUS
<1>2. QED
  BY <1>1 DEF FrameRecord

(* A block opens: its frame begins at the current height.                  *)
LEMMA PushAccounted ==
  ASSUME NEW fs, NEW vs, NEW size, Accounted(fs, vs, size),
         NEW f \in FrameRecord, f.base = size, f.mark = Len(vs),
         f.slots = (IF f.k = "paryay" THEN 1 ELSE 0)
  PROVE  Accounted(Append(fs, f), vs, size + f.slots)
<1> DEFINE gs == Append(fs, f)
           n == Len(fs)
<1>1. /\ fs \in Seq(FrameRecord) /\ vs \in Seq(VarRecord) /\ size \in Nat
      /\ n \in Nat /\ Len(vs) \in Nat /\ f.slots \in Nat
  BY DEF Accounted, FrameRecord
<1>2. /\ gs \in Seq(FrameRecord) /\ Len(gs) = n + 1
      /\ \A i \in DOMAIN fs : gs[i] = fs[i]
      /\ gs[n + 1] = f
      /\ \A i \in DOMAIN gs : i \in DOMAIN fs \/ i = n + 1
  BY <1>1
<1>3. \A i \in DOMAIN fs : MarkAfter(gs, vs, i) = MarkAfter(fs, vs, i)
                           /\ BaseAfter(gs, size + f.slots, i) = BaseAfter(fs, size, i)
  BY <1>1, <1>2 DEF MarkAfter, BaseAfter
<1>4. MarkAfter(gs, vs, n + 1) = Len(vs)
      /\ BaseAfter(gs, size + f.slots, n + 1) = size + f.slots
  BY <1>2 DEF MarkAfter, BaseAfter
<1>5. Slots(vs, Len(vs), Len(vs)) = 0
  BY <1>1, SlotsOfNone
<1> HIDE DEF gs
<1>6. gs # <<>> /\ gs[1].base = 0
  <2>1. CASE fs = <<>>
    <3>1. n = 0 /\ size = 0
      BY <2>1 DEF Accounted
    <3>2. gs[1] = f /\ Len(gs) = 1
      BY <1>2, <3>1
    <3>3. f.base = 0
      BY <3>1
    <3>4. gs[1].base = 0
      BY <3>2, <3>3
    <3>5. gs # <<>>
      BY <1>1, AppendProperties DEF gs
    <3>6. QED
      BY <3>4, <3>5
  <2>2. CASE fs # <<>>
    <3>1. 1 \in DOMAIN fs
      BY <1>1, <2>2
    <3>2. QED
      BY <1>1, <1>2, <2>2, <3>1 DEF Accounted
  <2>3. QED
    BY <2>1, <2>2
<1>7. \A i \in DOMAIN gs : gs[i].mark <= Len(vs)
  BY <1>1, <1>2 DEF Accounted
<1>8. \A i, j \in DOMAIN gs : i < j => gs[i].mark <= gs[j].mark
  BY <1>1, <1>2 DEF Accounted
<1>9. \A i \in DOMAIN gs :
        BaseAfter(gs, size + f.slots, i) =
          gs[i].base + gs[i].slots + Slots(vs, gs[i].mark, MarkAfter(gs, vs, i))
  <2>1. ASSUME NEW i \in DOMAIN fs
        PROVE  BaseAfter(gs, size + f.slots, i) =
                 gs[i].base + gs[i].slots + Slots(vs, gs[i].mark, MarkAfter(gs, vs, i))
    BY <1>2, <1>3 DEF Accounted
  <2>2. BaseAfter(gs, size + f.slots, n + 1) =
          gs[n + 1].base + gs[n + 1].slots
            + Slots(vs, gs[n + 1].mark, MarkAfter(gs, vs, n + 1))
    BY <1>1, <1>2, <1>4, <1>5
  <2>3. QED
    BY <1>2, <2>1, <2>2
<1>10. \A i \in DOMAIN gs :
         gs[i].k \in {"chain", "paryay"} => MarkAfter(gs, vs, i) = gs[i].mark
  BY <1>2, <1>3, <1>4 DEF Accounted
<1>11. \A i \in DOMAIN gs : gs[i].slots = (IF gs[i].k = "paryay" THEN 1 ELSE 0)
  BY <1>2 DEF Accounted
<1>12. QED
  BY <1>1, <1>2, <1>6, <1>7, <1>8, <1>9, <1>10, <1>11 DEF Accounted, gs

(* A block closes: what is left is accounted for at the height it began.   *)
LEMMA PopAccounted ==
  ASSUME NEW fs, NEW vs, NEW size, Accounted(fs, vs, size), fs # <<>>
  PROVE  /\ Accounted(Front(fs), Shrink(vs, Last(fs).mark), Last(fs).base)
         /\ size = Last(fs).base + Last(fs).slots + PopCount(vs, Last(fs).mark)
         /\ Last(fs).k \in {"chain", "paryay"} =>
              Shrink(vs, Last(fs).mark) = vs /\ PopCount(vs, Last(fs).mark) = 0
<1> DEFINE n == Len(fs)
           f == fs[n]
           gs == Front(fs)
           ws == Shrink(vs, f.mark)
<1>1. /\ fs \in Seq(FrameRecord) /\ vs \in Seq(VarRecord) /\ size \in Nat
      /\ n \in Nat \ {0} /\ n \in DOMAIN fs /\ f \in FrameRecord
      /\ Last(fs) = f
  BY DEF Accounted, Last
<1>2. f.mark \in Nat /\ f.base \in Nat /\ f.mark <= Len(vs)
  <2>1. f.mark \in Nat /\ f.base \in Nat
    BY <1>1 DEF FrameRecord
  <2>2. f.mark <= Len(vs)
    BY <1>1 DEF Accounted
  <2>3. QED
    BY <2>1, <2>2
<1>3. /\ gs \in Seq(FrameRecord) /\ Len(gs) = n - 1
      /\ \A i \in DOMAIN gs : i \in DOMAIN fs /\ i < n /\ gs[i] = fs[i]
  BY <1>1, FrontProperties
<1>4. /\ ws \in Seq(VarRecord) /\ Len(ws) = f.mark
      /\ \A j \in 1..f.mark : ws[j] = vs[j]
  <2>1. \A j \in 1..f.mark : vs[j] \in VarRecord
    BY <1>1, <1>2
  <2>2. /\ SubSeq(vs, 1, f.mark) \in Seq(VarRecord)
        /\ Len(SubSeq(vs, 1, f.mark)) = IF 1 <= f.mark THEN f.mark - 1 + 1 ELSE 0
        /\ \A j \in 1..(f.mark - 1 + 1) : SubSeq(vs, 1, f.mark)[j] = vs[1 + j - 1]
    BY <1>2, <2>1, SubSeqProperties
  <2>3. QED
    BY <1>2, <2>2 DEF Shrink
<1>5. \A i \in DOMAIN gs : gs[i].mark \in Nat /\ gs[i].mark <= f.mark
  <2>1. \A i \in DOMAIN gs : fs[i].mark <= f.mark
    BY <1>1, <1>3 DEF Accounted
  <2>2. \A i \in DOMAIN gs : gs[i].mark \in Nat
    BY <1>1, <1>3, FramesAreNumbers
  <2>3. QED
    BY <1>3, <2>1, <2>2
<1> HIDE DEF gs, ws
<1>6. ASSUME NEW i \in DOMAIN gs
      PROVE  /\ MarkAfter(gs, ws, i) = fs[i + 1].mark
             /\ MarkAfter(fs, vs, i) = fs[i + 1].mark
             /\ BaseAfter(gs, f.base, i) = fs[i + 1].base
             /\ BaseAfter(fs, size, i) = fs[i + 1].base
             /\ fs[i + 1].mark \in Nat /\ fs[i + 1].mark <= f.mark
  <2>1. MarkAfter(fs, vs, i) = fs[i + 1].mark /\ BaseAfter(fs, size, i) = fs[i + 1].base
    BY <1>1, <1>3 DEF MarkAfter, BaseAfter
  <2>2. CASE i = n - 1
    BY <1>1, <1>2, <1>3, <1>4, <2>1, <2>2 DEF MarkAfter, BaseAfter
  <2>3. CASE i # n - 1
    <3>1. i + 1 \in DOMAIN gs /\ gs[i + 1] = fs[i + 1]
      BY <1>1, <1>3, <2>3
    <3>2. QED
      BY <1>3, <1>5, <2>1, <2>3, <3>1 DEF MarkAfter, BaseAfter
  <2>4. QED
    BY <2>2, <2>3
<1>7. ASSUME NEW i \in DOMAIN gs
      PROVE  BaseAfter(gs, f.base, i) =
               gs[i].base + gs[i].slots + Slots(ws, gs[i].mark, MarkAfter(gs, ws, i))
  <2>1. BaseAfter(fs, size, i) =
          fs[i].base + fs[i].slots + Slots(vs, fs[i].mark, fs[i + 1].mark)
    BY <1>3, <1>6 DEF Accounted
  <2>2. \A j \in 1..(fs[i + 1].mark) : vs[j] = ws[j]
    BY <1>2, <1>4, <1>6
  <2>3. Slots(vs, fs[i].mark, fs[i + 1].mark) = Slots(ws, fs[i].mark, fs[i + 1].mark)
    <3> DEFINE lo == fs[i].mark
               hi == fs[i + 1].mark
    <3>1. lo \in Nat /\ hi \in Nat
      BY <1>3, <1>5, <1>6
    <3>2. \A j \in 1..hi : vs[j] = ws[j]
      BY <2>2
    <3> HIDE DEF lo, hi
    <3>3. Slots(vs, lo, hi) = Slots(ws, lo, hi)
      BY <3>1, <3>2, SlotsAgree
    <3>4. QED
      BY <3>3 DEF lo, hi
  <2>4. QED
    BY <1>3, <1>6, <2>1, <2>3
<1>8. /\ gs = <<>> => f.base = 0
      /\ gs # <<>> => gs[1].base = 0
  <2>1. fs[1].base = 0
    BY DEF Accounted
  <2>2. CASE n = 1
    BY <1>1, <1>3, <2>1, <2>2
  <2>3. CASE n # 1
    <3>1. 1 \in DOMAIN gs
      BY <1>1, <1>3, <2>3
    <3>2. QED
      BY <1>3, <2>1, <3>1
  <2>4. QED
    BY <2>2, <2>3
<1>9. /\ \A i \in DOMAIN gs : gs[i].mark <= Len(ws)
      /\ \A i, j \in DOMAIN gs : i < j => gs[i].mark <= gs[j].mark
      /\ \A i \in DOMAIN gs : gs[i].k \in {"chain", "paryay"}
                                => MarkAfter(gs, ws, i) = gs[i].mark
      /\ \A i \in DOMAIN gs : gs[i].slots = (IF gs[i].k = "paryay" THEN 1 ELSE 0)
  <2>1. \A i \in DOMAIN gs : gs[i].mark <= Len(ws)
    BY <1>4, <1>5
  <2>2. \A i, j \in DOMAIN gs : i < j => gs[i].mark <= gs[j].mark
    BY <1>3 DEF Accounted
  <2>3. \A i \in DOMAIN gs : gs[i].k \in {"chain", "paryay"}
                                => MarkAfter(gs, ws, i) = gs[i].mark
    BY <1>3, <1>6 DEF Accounted
  <2>4. \A i \in DOMAIN gs : gs[i].slots = (IF gs[i].k = "paryay" THEN 1 ELSE 0)
    BY <1>3 DEF Accounted
  <2>5. QED
    BY <2>1, <2>2, <2>3, <2>4
<1>10. Accounted(gs, ws, f.base)
  BY <1>2, <1>3, <1>4, <1>7, <1>8, <1>9 DEF Accounted
<1>11. PopCount(vs, f.mark) = Slots(vs, f.mark, Len(vs))
  BY DEF PopCount, Slots, SlotSet
<1>12. size = f.base + f.slots + PopCount(vs, f.mark)
  <2>1. MarkAfter(fs, vs, n) = Len(vs) /\ BaseAfter(fs, size, n) = size
    BY DEF MarkAfter, BaseAfter
  <2>2. QED
    BY <1>1, <1>11, <2>1 DEF Accounted
<1>13. ASSUME f.k \in {"chain", "paryay"}
       PROVE  ws = vs /\ PopCount(vs, f.mark) = 0
  <2>1. f.mark = Len(vs)
    BY <1>1, <1>13 DEF Accounted, MarkAfter
  <2>2. PopCount(vs, f.mark) = 0
    BY <1>2, <1>11, <2>1, SlotsOfNone
  <2>3. ws = vs
    BY <1>1, <1>4, <2>1
  <2>4. QED
    BY <2>2, <2>3
<1>14. QED
  BY <1>1, <1>10, <1>12, <1>13 DEF gs, ws

(* A variable is declared in the innermost block.                          *)
LEMMA DeclareAccounted ==
  ASSUME NEW fs, NEW vs, NEW size, Accounted(fs, vs, size),
         NEW v \in VarRecord,
         fs = <<>> => v.static,
         fs # <<>> => Last(fs).k \notin {"chain", "paryay"}
  PROVE  Accounted(fs, Append(vs, v), size + (IF v.static THEN 0 ELSE 1))
<1> DEFINE n == Len(fs)
           ws == Append(vs, v)
           more == IF v.static THEN 0 ELSE 1
<1>1. /\ fs \in Seq(FrameRecord) /\ vs \in Seq(VarRecord) /\ size \in Nat
      /\ n \in Nat /\ v.static \in BOOLEAN /\ more \in Nat
  BY DEF Accounted, VarRecord
<1>2. /\ ws \in Seq(VarRecord) /\ Len(ws) = Len(vs) + 1 /\ Len(vs) \in Nat
      /\ \A j \in 1..Len(vs) : ws[j] = vs[j]
      /\ ws[Len(vs) + 1] = v
  BY <1>1
<1>3. \A i \in DOMAIN fs :
        /\ fs[i].mark \in Nat /\ fs[i].base \in Nat /\ fs[i].slots \in Nat
        /\ fs[i].mark <= Len(vs)
  BY <1>1, FramesAreNumbers DEF Accounted
<1> HIDE DEF more, ws
<1>4. ASSUME NEW i \in DOMAIN fs
      PROVE  BaseAfter(fs, size + more, i) =
               fs[i].base + fs[i].slots + Slots(ws, fs[i].mark, MarkAfter(fs, ws, i))
  <2>1. BaseAfter(fs, size, i) =
          fs[i].base + fs[i].slots + Slots(vs, fs[i].mark, MarkAfter(fs, vs, i))
    BY DEF Accounted
  <2>2. CASE i = n
    <3> DEFINE lo == fs[i].mark
               hi == Len(vs)
    <3>1. size = fs[i].base + fs[i].slots + Slots(vs, lo, hi)
      BY <2>1, <2>2 DEF MarkAfter, BaseAfter
    <3>2. BaseAfter(fs, size + more, i) = size + more
          /\ MarkAfter(fs, ws, i) = hi + 1
      BY <1>2, <2>2 DEF MarkAfter, BaseAfter
    <3>3. lo \in Nat /\ hi \in Nat /\ lo <= hi
          /\ ws[hi + 1] = v /\ \A j \in 1..hi : ws[j] = vs[j]
      BY <1>2, <1>3
    <3>4. fs[i].base \in Nat /\ fs[i].slots \in Nat
      BY <1>3
    <3> HIDE DEF lo, hi
    <3>5. Slots(ws, lo, hi + 1) = Slots(ws, lo, hi) + more
      <4>1. ws[hi + 1].static \in BOOLEAN
        BY <1>1, <3>3
      <4>2. QED
        BY <3>3, <4>1, SlotsOfOneMore DEF more
    <3>6. Slots(ws, lo, hi) = Slots(vs, lo, hi) /\ Slots(vs, lo, hi) \in Nat
      BY <3>3, SlotsAgree, SlotsFinite
    <3>7. size + more = fs[i].base + fs[i].slots + Slots(ws, lo, hi + 1)
      BY <1>1, <3>1, <3>4, <3>5, <3>6
    <3>8. QED
      BY <3>2, <3>7 DEF lo
  <2>3. CASE i # n
    <3>1. i + 1 \in DOMAIN fs /\ fs[i + 1].mark \in Nat /\ fs[i + 1].mark <= Len(vs)
      BY <1>1, <1>3, <2>3
    <3>2. Slots(ws, fs[i].mark, fs[i + 1].mark) = Slots(vs, fs[i].mark, fs[i + 1].mark)
      <4> DEFINE lo == fs[i].mark
                 hi == fs[i + 1].mark
      <4>1. lo \in Nat /\ hi \in Nat /\ \A j \in 1..hi : ws[j] = vs[j]
        BY <1>2, <1>3, <3>1
      <4> HIDE DEF lo, hi
      <4>2. Slots(ws, lo, hi) = Slots(vs, lo, hi)
        BY <4>1, SlotsAgree
      <4>3. QED
        BY <4>2 DEF lo, hi
    <3>3. QED
      BY <2>1, <2>3, <3>2 DEF MarkAfter, BaseAfter
  <2>4. QED
    BY <2>2, <2>3
<1>5. \A i \in DOMAIN fs :
        fs[i].k \in {"chain", "paryay"} => MarkAfter(fs, ws, i) = fs[i].mark
  BY <1>1 DEF Accounted, MarkAfter, Last
<1>6. \A i \in DOMAIN fs : fs[i].mark <= Len(ws)
  BY <1>2, <1>3
<1>7. size + more \in Nat /\ (fs = <<>> => size + more = 0)
  BY <1>1 DEF Accounted, more
<1>8. Accounted(fs, ws, size + more)
  BY <1>1, <1>2, <1>4, <1>5, <1>6, <1>7 DEF Accounted
<1>9. QED
  BY <1>8 DEF more, ws

(* Frames that differ in their labels only are accounted for alike.        *)
LEMMA RelabelAccounted ==
  ASSUME NEW fs, NEW gs \in Seq(FrameRecord), NEW vs, NEW size,
         Accounted(fs, vs, size), Len(gs) = Len(fs),
         \A i \in DOMAIN fs :
           /\ gs[i].k = fs[i].k /\ gs[i].mark = fs[i].mark
           /\ gs[i].base = fs[i].base /\ gs[i].slots = fs[i].slots
  PROVE  Accounted(gs, vs, size)
<1>1. fs \in Seq(FrameRecord) /\ DOMAIN gs = DOMAIN fs
  BY DEF Accounted
<1>2. \A i \in DOMAIN fs : MarkAfter(gs, vs, i) = MarkAfter(fs, vs, i)
                           /\ BaseAfter(gs, size, i) = BaseAfter(fs, size, i)
  BY <1>1 DEF MarkAfter, BaseAfter
<1>3. gs = <<>> <=> fs = <<>>
  BY <1>1
<1>4. gs # <<>> => gs[1].base = 0
  BY <1>1, <1>3 DEF Accounted
<1>5. \A i \in DOMAIN gs : gs[i].mark <= Len(vs)
  BY <1>1 DEF Accounted
<1>6. \A i, j \in DOMAIN gs : i < j => gs[i].mark <= gs[j].mark
  BY <1>1 DEF Accounted
<1>7. \A i \in DOMAIN gs :
        BaseAfter(gs, size, i) = gs[i].base + gs[i].slots
                                   + Slots(vs, gs[i].mark, MarkAfter(gs, vs, i))
  BY <1>1, <1>2 DEF Accounted
<1>8. \A i \in DOMAIN gs :
        gs[i].k \in {"chain", "paryay"} => MarkAfter(gs, vs, i) = gs[i].mark
  BY <1>1, <1>2 DEF Accounted
<1>9. \A i \in DOMAIN gs : gs[i].slots = (IF gs[i].k = "paryay" THEN 1 ELSE 0)
  BY <1>1 DEF Accounted
<1>10. QED
  BY <1>3, <1>4, <1>5, <1>6, <1>7, <1>8, <1>9 DEF Accounted

-----------------------------------------------------------------------------
(* The heights BlockStack sees.                                            *)
LEMMA BasesOfPush ==
  ASSUME NEW fs \in Seq(FrameRecord), NEW f \in FrameRecord
  PROVE  /\ Bases(fs) \in Seq(Nat)
         /\ Bases(Append(fs, f)) = Append(Bases(fs), f.base)
<1>1. \A i \in DOMAIN fs : fs[i].base \in Nat
  BY FramesAreNumbers
<1>2. Bases(fs) \in Seq(Nat) /\ Len(Bases(fs)) = Len(fs)
  BY <1>1 DEF Bases
<1>3. f.base \in Nat
  BY DEF FrameRecord
<1>4. /\ Append(fs, f) \in Seq(FrameRecord) /\ Len(Append(fs, f)) = Len(fs) + 1
      /\ \A i \in 1..Len(fs) : Append(fs, f)[i] = fs[i]
      /\ Append(fs, f)[Len(fs) + 1] = f
  OBVIOUS
<1>5. QED
  BY <1>2, <1>3, <1>4 DEF Bases

(* The heights when the innermost block ends.                              *)
LEMMA BasesOfPop ==
  ASSUME NEW fs \in Seq(FrameRecord), fs # <<>>
  PROVE  /\ Bases(Front(fs)) = Front(Bases(fs))
         /\ Last(Bases(fs)) = Last(fs).base
         /\ Bases(fs) # <<>> /\ Len(Bases(fs)) = Len(fs)
         /\ \A i \in DOMAIN fs : Bases(fs)[i] = fs[i].base
<1>1. \A i \in DOMAIN fs : fs[i].base \in Nat
  BY FramesAreNumbers
<1>2. Bases(fs) \in Seq(Nat) /\ Len(Bases(fs)) = Len(fs)
      /\ \A i \in DOMAIN fs : Bases(fs)[i] = fs[i].base
  BY <1>1 DEF Bases
<1>3. /\ Front(fs) \in Seq(FrameRecord) /\ Len(Front(fs)) = Len(fs) - 1
      /\ \A i \in 1..(Len(fs) - 1) : Front(fs)[i] = fs[i]
  BY FrontProperties
<1>4. /\ Front(Bases(fs)) \in Seq(Nat) /\ Len(Front(Bases(fs))) = Len(fs) - 1
      /\ \A i \in 1..(Len(fs) - 1) : Front(Bases(fs))[i] = Bases(fs)[i]
  <2>1. Bases(fs) # <<>>
    BY <1>2
  <2>2. QED
    BY <1>2, <2>1, FrontProperties
<1>5. Bases(Front(fs)) = Front(Bases(fs))
  <2>1. Bases(Front(fs)) = [i \in 1..(Len(fs) - 1) |-> fs[i].base]
    BY <1>3 DEF Bases
  <2>2. \A i \in 1..(Len(fs) - 1) : i \in DOMAIN fs
    OBVIOUS
  <2>3. \A i \in 1..(Len(fs) - 1) : Front(Bases(fs))[i] = fs[i].base
    BY <1>2, <1>4, <2>2
  <2>4. Front(Bases(fs)) = [i \in 1..(Len(fs) - 1) |-> fs[i].base]
    <3> DEFINE front == Front(Bases(fs))
               m == Len(fs) - 1
    <3>1. front \in Seq(Nat) /\ Len(front) = m
          /\ \A i \in 1..m : front[i] = fs[i].base
      BY <1>4, <2>3
    <3> HIDE DEF front, m
    <3>2. front = [i \in 1..m |-> fs[i].base]
      BY <3>1
    <3>3. QED
      BY <3>2 DEF front, m
  <2>5. QED
    BY <2>1, <2>4
<1>6. QED
  BY <1>2, <1>5 DEF Last

(* Ending the innermost block at its base is a step of BlockStack.         *)
LEMMA CloseIsAllowed ==
  ASSUME frames \in Seq(FrameRecord), frames # <<>>, frames' = Front(frames),
         stackSize' = Last(frames).base
  PROVE  Blocks!Next
<1>1. /\ Bases(frames) # <<>> /\ Last(Bases(frames)) = stackSize'
      /\ Bases(frames') = Front(Bases(frames))
  BY BasesOfPop
<1>2. QED
  BY <1>1 DEF Blocks!Next, Blocks!Close, Blocks!Front, Blocks!Last, Front, Last

-----------------------------------------------------------------------------
(* How constructs nest: a function is never inside anything, and the body  *)
(* of a for is inside the scope of its header.                             *)
Shaped(fs, inF) ==
  /\ inF \in BOOLEAN
  /\ inF <=> (fs # <<>> /\ fs[1].k = "karya")
  /\ \A i \in DOMAIN fs : fs[i].k = "karya" => i = 1
  /\ \A i \in DOMAIN fs : fs[i].k = "body" => i > 1 /\ fs[i - 1].k = "pratyek"

(* A construct other than a function opens.                                *)
LEMMA ShapedPush ==
  ASSUME NEW fs \in Seq(FrameRecord), NEW inF, Shaped(fs, inF),
         NEW f \in FrameRecord, f.k # "karya",
         f.k = "body" => fs # <<>> /\ Last(fs).k = "pratyek"
  PROVE  Shaped(Append(fs, f), inF)
<1> DEFINE gs == Append(fs, f)
           n == Len(fs)
<1>1. /\ gs \in Seq(FrameRecord) /\ Len(gs) = n + 1 /\ n \in Nat
      /\ \A i \in DOMAIN fs : gs[i] = fs[i]
      /\ gs[n + 1] = f
      /\ \A i \in DOMAIN gs : i \in DOMAIN fs \/ i = n + 1
  OBVIOUS
<1>2. gs # <<>>
  BY AppendProperties
<1>3. fs # <<>> => n \in DOMAIN fs /\ 1 \in DOMAIN fs /\ Last(fs) = fs[n]
  BY DEF Last
<1>4. fs = <<>> => n = 0
  OBVIOUS
<1> HIDE DEF gs
<1>5. inF <=> (gs # <<>> /\ gs[1].k = "karya")
  BY <1>1, <1>2, <1>3, <1>4 DEF Shaped
<1>6. \A i \in DOMAIN gs : gs[i].k = "karya" => i = 1
  BY <1>1 DEF Shaped
<1>7. ASSUME NEW i \in DOMAIN gs, gs[i].k = "body"
      PROVE  i > 1 /\ gs[i - 1].k = "pratyek"
  <2>1. CASE i \in DOMAIN fs
    <3>1. fs[i].k = "body"
      BY <1>1, <1>7, <2>1
    <3>2. i > 1 /\ fs[i - 1].k = "pratyek"
      BY <2>1, <3>1 DEF Shaped
    <3>3. i - 1 \in DOMAIN fs
      BY <2>1, <3>2
    <3>4. QED
      BY <1>1, <3>2, <3>3
  <2>2. CASE i = n + 1
    BY <1>1, <1>3, <1>4, <1>7, <2>2
  <2>3. QED
    BY <1>1, <2>1, <2>2
<1>8. QED
  BY <1>5, <1>6, <1>7 DEF Shaped, gs

(* A construct other than a function ends.                                 *)
LEMMA ShapedPop ==
  ASSUME NEW fs \in Seq(FrameRecord), NEW inF, Shaped(fs, inF),
         fs # <<>>, Last(fs).k # "karya"
  PROVE  Shaped(Front(fs), inF)
<1> DEFINE gs == Front(fs)
           n == Len(fs)
<1>1. /\ gs \in Seq(FrameRecord) /\ Len(gs) = n - 1 /\ n \in Nat \ {0}
      /\ \A i \in DOMAIN gs : i \in DOMAIN fs /\ i < n /\ gs[i] = fs[i]
  BY FrontProperties
<1>2. n \in DOMAIN fs /\ fs[n].k # "karya"
  BY <1>1 DEF Last
<1> HIDE DEF gs
<1>3. inF <=> (gs # <<>> /\ gs[1].k = "karya")
  <2>1. CASE n = 1
    BY <1>1, <1>2, <2>1 DEF Shaped
  <2>2. CASE n # 1
    <3>1. 1 \in DOMAIN gs /\ gs # <<>>
      BY <1>1, <2>2
    <3>2. QED
      BY <1>1, <3>1 DEF Shaped
  <2>3. QED
    BY <2>1, <2>2
<1>4. \A i \in DOMAIN gs : gs[i].k = "karya" => i = 1
  BY <1>1 DEF Shaped
<1>5. ASSUME NEW i \in DOMAIN gs, gs[i].k = "body"
      PROVE  i > 1 /\ gs[i - 1].k = "pratyek"
  <2>1. i > 1 /\ fs[i - 1].k = "pratyek"
    BY <1>1, <1>5 DEF Shaped
  <2>2. i - 1 \in DOMAIN gs
    BY <1>1, <2>1
  <2>3. QED
    BY <1>1, <2>1, <2>2
<1>6. QED
  BY <1>3, <1>4, <1>5 DEF Shaped, gs

(* Outside every construct, no function is being generated.               *)
LEMMA ShapedNone == Shaped(<<>>, FALSE)
<1>1. DOMAIN <<>> = {}
  OBVIOUS
<1>2. QED
  BY <1>1, Zenon DEF Shaped

(* The frame genFuncDecl() begins is the outermost one.                    *)
LEMMA ShapedFunction ==
  ASSUME NEW f \in FrameRecord, f.k = "karya"
  PROVE  Shaped(Append(<<>>, f), TRUE)
<1>1. /\ Append(<<>>, f) # <<>> /\ DOMAIN Append(<<>>, f) = {1}
      /\ Append(<<>>, f)[1] = f
  OBVIOUS
<1>2. QED
  BY <1>1 DEF Shaped

-----------------------------------------------------------------------------
(* The invariant.                                                          *)

(* The node to generate next exists.                                       *)
PlaceIsInProgram ==
  /\ prog \in Programs
  /\ item \in Nat \ {0} /\ pc \in Nat \ {0}
  /\ item <= Len(prog) => pc \in DOMAIN prog[item]

(* The inductive invariant: what endScope() pops is decided by the marks,  *)
(* and whether a declaration takes a slot by _inFunction, so the           *)
(* accounting needs both.                                                  *)
IInv ==
  /\ PlaceIsInProgram
  /\ Accounted(frames, vars, stackSize)
  /\ Shaped(frames, inFunction)
  /\ labelCount \in Nat
  /\ saved.vars \in Seq(VarRecord) /\ saved.stackSize = 0

(* What every step of the walk does.                                       *)
StepIsGood == IInv' /\ [Blocks!Next]_<<stackSize, Bases(frames)>>

(* Going on within a statement, or to the next, stays in the program.      *)
LEMMA GoToStays ==
  ASSUME PlaceIsInProgram, item <= Len(prog), NEW next \in Nat \ {0},
         GoTo(next), prog' = prog
  PROVE  PlaceIsInProgram'
<1>1. /\ prog \in Seq(Seq(Node))
      /\ \A i \in DOMAIN prog : prog[i] # <<>>
  BY ProgramsAssumption DEF PlaceIsInProgram, Program, IsTree
<1>2. item \in DOMAIN prog /\ prog[item] \in Seq(Node)
  BY <1>1 DEF PlaceIsInProgram
<1>3. CASE next <= Len(prog[item])
  BY <1>2, <1>3 DEF GoTo, PlaceIsInProgram
<1>4. CASE ~(next <= Len(prog[item]))
  <2>1. item' = item + 1 /\ pc' = 1
    BY <1>4 DEF GoTo
  <2>2. item + 1 <= Len(prog) => prog[item + 1] \in Seq(Node) /\ prog[item + 1] # <<>>
    BY <1>1, <1>2
  <2>3. item + 1 <= Len(prog) => 1 \in DOMAIN prog[item + 1]
    BY <2>2
  <2>4. QED
    BY <2>1, <2>3 DEF PlaceIsInProgram
<1>5. QED
  BY <1>3, <1>4

(* So does going on to the next node.                                      *)
LEMMA AdvanceStays ==
  ASSUME PlaceIsInProgram, Generating, Advance
  PROVE  PlaceIsInProgram'
<1>1. pc + 1 \in Nat \ {0}
  BY DEF PlaceIsInProgram
<1>2. item <= Len(prog) /\ GoTo(pc + 1) /\ prog' = prog
  BY DEF Generating, Advance
<1>3. QED
  BY <1>1, <1>2, GoToStays

(* What is generated next is a node of the tree.                           *)
LEMMA NodeIsNode ==
  ASSUME PlaceIsInProgram, Generating
  PROVE  node \in Node /\ item \in Nat /\ pc \in Nat
<1>1. prog \in Seq(Seq(Node))
  BY ProgramsAssumption DEF PlaceIsInProgram, Program
<1>2. item \in DOMAIN prog /\ pc \in DOMAIN prog[item]
  BY <1>1 DEF PlaceIsInProgram, Generating
<1>3. QED
  BY <1>1, <1>2 DEF node, PlaceIsInProgram

(* The values a step works with.                                           *)
LEMMA HeightsAreNumbers ==
  ASSUME IInv
  PROVE  /\ frames \in Seq(FrameRecord) /\ vars \in Seq(VarRecord)
         /\ stackSize \in Nat /\ Len(vars) \in Nat /\ labelCount \in Nat
BY DEF IInv, Accounted

(* A new frame is one.                                                     *)
LEMMA FrameIsFrame ==
  ASSUME NEW k \in FrameKinds, NEW base \in Nat, NEW mark \in Nat, pc \in Nat
  PROVE  Frame(k, base, mark) \in FrameRecord
BY DEF Frame, FrameRecord, NoLabel

(* A declaration's entry, wherever its variable is stored.                 *)
LEMMA EntryIsVar ==
  ASSUME NEW s \in Simple, s.k = "decl", NEW size \in Nat,
         NEW site \in Nat \X Nat \X Nat, inFunction \in BOOLEAN
  PROVE  /\ Entry(s, size, site) \in VarRecord
         /\ NewSlots(s) = (IF Entry(s, size, site).static THEN 0 ELSE 1)
         /\ ~inFunction => Entry(s, size, site).static
<1>1. s.x \in Idents /\ s.sthir \in BOOLEAN
  BY DEF Simple, Decl
<1>2. QED
  BY <1>1 DEF Entry, VarRecord, StoreAsStatic, NewSlots

(* A statement that is one node keeps the accounting.                      *)
LEMMA SimpleAccounted ==
  ASSUME NEW fs, NEW vs, NEW size, Accounted(fs, vs, size),
         NEW s \in Simple, NEW site \in Nat \X Nat \X Nat,
         inFunction \in BOOLEAN, fs = <<>> => ~inFunction,
         fs # <<>> => Last(fs).k \notin {"chain", "paryay"}
  PROVE  /\ Accounted(fs, VarsAfter(vs, s, size, site), size + NewSlots(s))
         /\ NewSlots(s) \in {0, 1}
<1>1. size \in Nat
  BY DEF Accounted
<1>2. CASE s.k = "decl"
  <2> DEFINE v == Entry(s, size, site)
  <2>1. /\ v \in VarRecord /\ NewSlots(s) = (IF v.static THEN 0 ELSE 1)
        /\ ~inFunction => v.static
    BY <1>1, <1>2, EntryIsVar
  <2> HIDE DEF v
  <2>2. Accounted(fs, Append(vs, v), size + (IF v.static THEN 0 ELSE 1))
    BY <2>1, DeclareAccounted
  <2>3. VarsAfter(vs, s, size, site) = Append(vs, v)
    BY <1>2 DEF VarsAfter, v
  <2>4. NewSlots(s) \in {0, 1}
    BY <2>1
  <2>5. QED
    BY <2>1, <2>2, <2>3, <2>4
<1>3. CASE s.k # "decl"
  <2>1. NewSlots(s) = 0 /\ VarsAfter(vs, s, size, site) = vs
    BY <1>3 DEF NewSlots, VarsAfter
  <2>2. QED
    BY <1>1, <2>1
<1>4. QED
  BY <1>2, <1>3

(* One, or no, slot is taken in an open block.                             *)
LEMMA ReserveIsAllowed ==
  ASSUME stackSize \in Nat, NEW more \in {0, 1}, stackSize' = stackSize + more,
         frames' = frames
  PROVE  [Blocks!Next]_<<stackSize, Bases(frames)>>
<1>1. Bases(frames') = Bases(frames)
  OBVIOUS
<1>2. CASE more = 0
  BY <1>1, <1>2
<1>3. CASE more = 1
  BY <1>1, <1>3 DEF Blocks!Next, Blocks!Reserve
<1>4. QED
  BY <1>2, <1>3

(* Opening a block at the current height is a step of BlockStack.          *)
LEMMA OpenIsAllowed ==
  ASSUME frames \in Seq(FrameRecord), NEW f \in FrameRecord,
         frames' = Append(frames, f), f.base = stackSize,
         stackSize \in Nat, stackSize' \in Nat, stackSize' >= stackSize
  PROVE  Blocks!Next
<1>1. Bases(frames') = Append(Bases(frames), stackSize)
  BY BasesOfPush
<1>2. QED
  BY <1>1 DEF Blocks!Next, Blocks!Open

-----------------------------------------------------------------------------
(* Opening and closing one block.                                          *)
LEMMA OpenIsGood ==
  ASSUME IInv, Generating, Advance,
         NEW f \in FrameRecord, f.k \notin {"karya", "body"},
         f.base = stackSize, f.mark = Len(vars),
         f.slots = (IF f.k = "paryay" THEN 1 ELSE 0),
         frames' = Append(frames, f), stackSize' = stackSize + f.slots,
         labelCount' \in Nat, UNCHANGED <<vars, inFunction, saved>>
  PROVE  StepIsGood
<1>1. PlaceIsInProgram'
  BY AdvanceStays DEF IInv
<1>2. Accounted(frames', vars', stackSize')
  <2>1. Accounted(Append(frames, f), vars, stackSize + f.slots)
    BY PushAccounted DEF IInv
  <2>2. QED
    BY <2>1
<1>3. Shaped(frames', inFunction')
  <2>1. Shaped(Append(frames, f), inFunction)
    BY HeightsAreNumbers, ShapedPush DEF IInv
  <2>2. QED
    BY <2>1
<1>4. Blocks!Next
  <2>1. f.slots \in Nat
    BY DEF FrameRecord
  <2>2. stackSize' \in Nat /\ stackSize' >= stackSize
    BY <2>1, HeightsAreNumbers
  <2>3. QED
    BY <2>2, HeightsAreNumbers, OpenIsAllowed
<1>5. IInv'
  BY <1>1, <1>2, <1>3 DEF IInv
<1>6. QED
  BY <1>4, <1>5 DEF StepIsGood

(* A construct other than a function ends and gives back its slots.        *)
LEMMA CloseIsGood ==
  ASSUME IInv, Generating, Advance,
         frames # <<>>, Top.k # "karya",
         frames' = Front(frames), vars' = Shrink(vars, Top.mark),
         stackSize' = Top.base, UNCHANGED <<inFunction, saved, labelCount>>
  PROVE  StepIsGood
<1>1. PlaceIsInProgram'
  BY AdvanceStays DEF IInv
<1>2. Accounted(frames', vars', stackSize')
  <2>1. Accounted(Front(frames), Shrink(vars, Top.mark), Top.base)
    BY PopAccounted DEF IInv, Top
  <2>2. QED
    BY <2>1
<1>3. Shaped(frames', inFunction')
  <2>1. Shaped(Front(frames), inFunction)
    BY HeightsAreNumbers, ShapedPop DEF IInv, Top
  <2>2. QED
    BY <2>1
<1>4. Blocks!Next
  BY HeightsAreNumbers, CloseIsAllowed DEF Top
<1>5. IInv'
  BY <1>1, <1>2, <1>3 DEF IInv
<1>6. QED
  BY <1>4, <1>5 DEF StepIsGood

(* What the innermost frame says of the stack.                             *)
LEMMA TopIsAccounted ==
  ASSUME IInv, frames # <<>>
  PROVE  /\ Top \in FrameRecord
         /\ Top.base \in Nat /\ Top.mark \in Nat
         /\ PopCount(vars, Top.mark) \in Nat
         /\ Top.slots = (IF Top.k = "paryay" THEN 1 ELSE 0)
         /\ stackSize = Top.base + Top.slots + PopCount(vars, Top.mark)
<1>1. /\ frames \in Seq(FrameRecord) /\ vars \in Seq(VarRecord)
      /\ Len(frames) \in DOMAIN frames /\ Top = frames[Len(frames)]
  BY HeightsAreNumbers DEF Top, Last
<1>2. Top \in FrameRecord /\ Top.base \in Nat /\ Top.mark \in Nat
  BY <1>1, FramesAreNumbers
<1>3. PopCount(vars, Top.mark) \in Nat
  <2>1. Len(vars) \in Nat
    BY <1>1
  <2>2. Slots(vars, Top.mark, Len(vars)) \in Nat
    BY <1>2, <2>1, SlotsFinite
  <2>3. QED
    BY <2>2 DEF PopCount, Slots, SlotSet
<1>4. Top.slots = (IF Top.k = "paryay" THEN 1 ELSE 0)
  BY <1>1 DEF IInv, Accounted
<1>5. stackSize = Top.base + Top.slots + PopCount(vars, Top.mark)
  BY PopAccounted DEF IInv, Top
<1>6. QED
  BY <1>2, <1>3, <1>4, <1>5

(* endScope() brings the stack size back to where the block began.         *)
LEMMA EndScopeRestores ==
  ASSUME IInv, frames # <<>>, Top.k # "paryay", EndScope(Top)
  PROVE  stackSize' = Top.base /\ vars' = Shrink(vars, Top.mark)
<1>1. stackSize = Top.base + PopCount(vars, Top.mark)
      /\ Top.base \in Nat /\ PopCount(vars, Top.mark) \in Nat
  BY TopIsAccounted
<1>2. QED
  BY <1>1 DEF EndScope

-----------------------------------------------------------------------------
(* The actions.                                                            *)

(* Statements that are one node.                                           *)
LEMMA GenSimpleIsGood == IInv /\ GenSimple => StepIsGood
<1> SUFFICES ASSUME IInv, GenSimple PROVE StepIsGood
  OBVIOUS
<1>1. node \in Node /\ item \in Nat /\ pc \in Nat
  BY NodeIsNode DEF IInv, GenSimple, AtStatement
<1>2. node \in Simple
  BY <1>1 DEF GenSimple, Node, Simple, Jump, Opener, SimpleKinds
<1> DEFINE s == node
           site == <<item, pc, Plain>>
<1>3. /\ vars' = VarsAfter(vars, s, stackSize, site)
      /\ stackSize' = stackSize + NewSlots(s)
      /\ frames' = frames /\ inFunction' = inFunction /\ saved' = saved
      /\ labelCount' = labelCount + NewLabels(s)
  BY DEF GenSimple
<1>4. Accounted(frames, vars', stackSize') /\ NewSlots(s) \in {0, 1}
  <2>1. site \in Nat \X Nat \X Nat
    BY <1>1 DEF Plain
  <2>2. inFunction \in BOOLEAN /\ (frames = <<>> => ~inFunction)
    BY DEF IInv, Shaped
  <2>3. frames # <<>> => Last(frames).k \notin {"chain", "paryay"}
    BY DEF GenSimple, AtStatement, Top
  <2>4. Accounted(frames, vars, stackSize)
    BY DEF IInv
  <2> HIDE DEF s, site
  <2>5. QED
    BY <1>2, <1>3, <2>1, <2>2, <2>3, <2>4, SimpleAccounted DEF s
<1>5. PlaceIsInProgram'
  BY AdvanceStays DEF IInv, GenSimple, AtStatement
<1>6. labelCount' \in Nat
  BY <1>3, HeightsAreNumbers DEF NewLabels
<1>7. IInv'
  BY <1>3, <1>4, <1>5, <1>6 DEF IInv
<1>8. [Blocks!Next]_<<stackSize, Bases(frames)>>
  BY <1>3, <1>4, HeightsAreNumbers, ReserveIsAllowed
<1>9. QED
  BY <1>7, <1>8 DEF StepIsGood

(* Jumps and returns change nothing that is accounted for.                 *)
LEMMA JumpIsGood == IInv /\ (GenBreak \/ GenContinue \/ GenReturn) => StepIsGood
<1> SUFFICES ASSUME IInv, GenBreak \/ GenContinue \/ GenReturn PROVE StepIsGood
  OBVIOUS
<1>1. /\ Generating /\ Advance
      /\ UNCHANGED <<stackSize, vars, inFunction, saved, frames, labelCount>>
  BY DEF GenBreak, GenContinue, GenReturn, JumpOutOf, AtStatement
<1>2. PlaceIsInProgram'
  BY <1>1, AdvanceStays DEF IInv
<1>3. IInv'
  BY <1>1, <1>2 DEF IInv
<1>4. QED
  BY <1>1, <1>3 DEF StepIsGood

(* Constructs that open one block.                                         *)
LEMMA GenBlockIsGood ==
  IInv /\ (GenScope \/ GenIf \/ GenWhile \/ GenSwitch) => StepIsGood
<1> SUFFICES ASSUME IInv PROVE (GenScope \/ GenIf \/ GenWhile \/ GenSwitch) => StepIsGood
  OBVIOUS
<1>1. /\ stackSize \in Nat /\ Len(vars) \in Nat /\ labelCount \in Nat
      /\ pc \in Nat
  BY HeightsAreNumbers DEF IInv, PlaceIsInProgram
<1>2. \A k \in FrameKinds : Frame(k, stackSize, Len(vars)) \in FrameRecord
  BY <1>1, FrameIsFrame
<1>3. ASSUME GenScope PROVE StepIsGood
  <2> DEFINE f == Frame("scope", stackSize, Len(vars))
  <2>1. f \in FrameRecord /\ f.k = "scope" /\ f.base = stackSize
        /\ f.mark = Len(vars) /\ f.slots = 0
    BY <1>2 DEF FrameKinds, Frame
  <2>2. Generating /\ Advance /\ frames' = Append(frames, f)
        /\ UNCHANGED <<stackSize, vars, inFunction, saved, labelCount>>
    BY <1>3 DEF GenScope, AtStatement, Push
  <2> HIDE DEF f
  <2>3. stackSize' = stackSize + f.slots
    BY <1>1, <2>1, <2>2
  <2>4. QED
    BY <1>1, <2>1, <2>2, <2>3, OpenIsGood
<1>4. ASSUME GenIf PROVE StepIsGood
  <2> DEFINE end == IF node.more THEN labelCount + 1 ELSE labelCount
             f == [Frame("arm", stackSize, Len(vars)) EXCEPT
                     !.next = IF node.more THEN labelCount ELSE NoLabel,
                     !.end = end, !.more = node.more]
  <2>1. node.more \in BOOLEAN
    <3>1. node \in Node
      BY <1>4, NodeIsNode DEF IInv, GenIf, AtStatement
    <3>2. QED
      BY <1>4, <3>1 DEF GenIf, Node, Simple, Decl, Jump, Opener
  <2>2. f \in FrameRecord /\ f.k = "arm" /\ f.base = stackSize
        /\ f.mark = Len(vars) /\ f.slots = 0
    <3> DEFINE next == IF node.more THEN labelCount ELSE NoLabel
               more == node.more
               f0 == Frame("arm", stackSize, Len(vars))
    <3>1. /\ next \in Nat \cup {NoLabel} /\ end \in Nat \cup {NoLabel}
          /\ more \in BOOLEAN
      BY <1>1, <2>1
    <3>2. f0 \in FrameRecord /\ f0.k = "arm" /\ f0.base = stackSize
          /\ f0.mark = Len(vars) /\ f0.slots = 0
      BY <1>2 DEF FrameKinds, Frame
    <3> HIDE DEF next, end, more, f0
    <3> DEFINE g == [f0 EXCEPT !.next = next, !.end = end, !.more = more]
    <3>3. g \in FrameRecord /\ g.k = "arm" /\ g.base = stackSize
          /\ g.mark = Len(vars) /\ g.slots = 0
      BY <3>1, <3>2 DEF FrameRecord
    <3>4. QED
      BY <3>3 DEF next, more, f0
  <2>3. Generating /\ Advance /\ frames' = Append(frames, f)
        /\ labelCount' = end + 1
        /\ UNCHANGED <<stackSize, vars, inFunction, saved>>
    BY <1>4 DEF GenIf, AtStatement, Push
  <2>4. labelCount' \in Nat
    BY <1>1, <2>3
  <2> HIDE DEF f
  <2>5. stackSize' = stackSize + f.slots
    BY <1>1, <2>2, <2>3
  <2>6. QED
    BY <2>2, <2>3, <2>4, <2>5, OpenIsGood
<1>5. ASSUME GenWhile PROVE StepIsGood
  <2> DEFINE f == [Frame("jovar", stackSize, Len(vars)) EXCEPT
                     !.head = labelCount, !.next = labelCount,
                     !.end = labelCount + 1]
  <2>1. f \in FrameRecord /\ f.k = "jovar" /\ f.base = stackSize
        /\ f.mark = Len(vars) /\ f.slots = 0
    <3> DEFINE end == labelCount + 1
               f0 == Frame("jovar", stackSize, Len(vars))
    <3>1. end \in Nat
      BY <1>1
    <3>2. f0 \in FrameRecord /\ f0.k = "jovar" /\ f0.base = stackSize
          /\ f0.mark = Len(vars) /\ f0.slots = 0
      BY <1>2 DEF FrameKinds, Frame
    <3> HIDE DEF end, f0
    <3> DEFINE g == [f0 EXCEPT !.head = labelCount, !.next = labelCount,
                               !.end = end]
    <3>3. g \in FrameRecord /\ g.k = "jovar" /\ g.base = stackSize
          /\ g.mark = Len(vars) /\ g.slots = 0
      BY <1>1, <3>1, <3>2 DEF FrameRecord
    <3>4. QED
      BY <3>3 DEF end, f0
  <2>2. Generating /\ Advance /\ frames' = Append(frames, f)
        /\ labelCount' = labelCount + 2
        /\ UNCHANGED <<stackSize, vars, inFunction, saved>>
    BY <1>5 DEF GenWhile, AtStatement, Push
  <2>3. labelCount' \in Nat
    BY <1>1, <2>2
  <2> HIDE DEF f
  <2>4. stackSize' = stackSize + f.slots
    BY <1>1, <2>1, <2>2
  <2>5. QED
    BY <2>1, <2>2, <2>3, <2>4, OpenIsGood
<1>6. ASSUME GenSwitch PROVE StepIsGood
  <2> DEFINE n == Len(node.cases)
             labels == [j \in 1..n |-> labelCount + j]
             f == [Frame("paryay", stackSize, Len(vars)) EXCEPT
                     !.slots = 1, !.end = labelCount, !.cases = labels]
  <2>1. n \in Nat
    <3>1. node \in Node
      BY <1>6, NodeIsNode DEF IInv, GenSwitch, AtStatement
    <3>2. node.cases \in Seq(SUBSET Expr)
      BY <1>6, <3>1 DEF GenSwitch, Node, Simple, Decl, Jump, Opener
    <3>3. QED
      BY <3>2
  <2>2. labels \in Seq(Nat)
    BY <1>1, <2>1
  <2>3. f \in FrameRecord /\ f.k = "paryay" /\ f.base = stackSize
        /\ f.mark = Len(vars) /\ f.slots = 1
    <3> HIDE DEF labels
    <3>1. QED
      BY <1>1, <2>2 DEF FrameKinds, Frame, FrameRecord, NoLabel
  <2>4. Generating /\ Advance /\ frames' = Append(frames, f)
        /\ labelCount' = labelCount + 1 + n /\ stackSize' = stackSize + 1
        /\ UNCHANGED <<vars, inFunction, saved>>
    BY <1>6 DEF GenSwitch, AtStatement, Push
  <2> HIDE DEF f, n, labels
  <2>5. labelCount' \in Nat
    <3>1. labelCount' = labelCount + 1 + n
      BY <2>4
    <3>2. QED
      BY <1>1, <2>1, <3>1
  <2>6. QED
    BY <2>3, <2>4, <2>5, OpenIsGood
<1>7. QED
  BY <1>3, <1>4, <1>5, <1>6

(* A block that gives way to another of the same if chain.                 *)
LEMMA ContinueIsGood ==
  ASSUME IInv, Generating, Advance,
         frames # <<>>, Top.k \in {"arm", "chain"},
         NEW g \in FrameRecord, g.k \in {"arm", "chain"}, g.base = Top.base,
         g.slots = 0, g.mark = Len(vars'),
         frames' = Append(Front(frames), g), vars' = Shrink(vars, Top.mark),
         stackSize' = Top.base, labelCount' \in Nat,
         UNCHANGED <<inFunction, saved>>
  PROVE  StepIsGood
<1>1. PlaceIsInProgram'
  BY AdvanceStays DEF IInv
<1>2. Front(frames) \in Seq(FrameRecord)
  BY HeightsAreNumbers, FrontProperties
<1>3. Accounted(frames', vars', stackSize')
  <2>1. Accounted(Front(frames), vars', stackSize')
    BY PopAccounted DEF IInv, Top
  <2>2. Accounted(Append(Front(frames), g), vars', stackSize' + g.slots)
    BY <2>1, PushAccounted
  <2>3. stackSize' + g.slots = stackSize'
    BY TopIsAccounted
  <2>4. QED
    BY <2>2, <2>3
<1>4. Shaped(frames', inFunction')
  <2>1. Shaped(Front(frames), inFunction)
    BY HeightsAreNumbers, ShapedPop DEF IInv, Top
  <2>2. Shaped(Append(Front(frames), g), inFunction)
    BY <1>2, <2>1, ShapedPush
  <2>3. QED
    BY <2>2
<1>5. Blocks!Next
  <2> DEFINE bs == Bases(frames)
  <2>1. /\ bs \in Seq(Nat) /\ bs # <<>> /\ Last(bs) = Top.base
        /\ Bases(Front(frames)) = Front(bs)
    BY HeightsAreNumbers, BasesOfPush, BasesOfPop, TopIsAccounted DEF Top
  <2>2. Bases(frames') = Append(Front(bs), Last(bs))
    BY <1>2, <2>1, BasesOfPush
  <2> HIDE DEF bs
  <2>3. Append(Front(bs), Last(bs)) = bs
    <3>1. /\ Front(bs) \in Seq(Nat) /\ Len(Front(bs)) = Len(bs) - 1
          /\ \A i \in 1..(Len(bs) - 1) : Front(bs)[i] = bs[i]
      BY <2>1, FrontProperties
    <3> DEFINE front == Front(bs)
               cs == Append(front, Last(bs))
    <3>2. Last(bs) \in Nat /\ Last(bs) = bs[Len(bs)]
      BY <2>1 DEF Last
    <3>3. /\ cs \in Seq(Nat) /\ Len(cs) = Len(bs)
          /\ \A i \in 1..(Len(bs) - 1) : cs[i] = bs[i]
          /\ cs[Len(bs)] = bs[Len(bs)]
      <4> HIDE DEF front
      <4>1. QED
        BY <2>1, <3>1, <3>2 DEF front
    <3> HIDE DEF cs
    <3>4. cs = bs
      <4>1. \A i \in 1..Len(bs) : cs[i] = bs[i]
        BY <2>1, <3>3
      <4>2. QED
        BY <2>1, <3>3, <4>1, SeqEqual
    <3>5. QED
      BY <3>4 DEF cs
  <2>4. QED
    BY <2>1, <2>2, <2>3 DEF Blocks!Next, Blocks!Rewind, Blocks!Last, Last, bs
<1>6. IInv'
  BY <1>1, <1>3, <1>4 DEF IInv
<1>7. QED
  BY <1>5, <1>6 DEF StepIsGood

(* Between two arms of an if chain the chain holds no variable.            *)
LEMMA ChainIsEmpty ==
  ASSUME IInv, frames # <<>>, Top.k = "chain"
  PROVE  vars = Shrink(vars, Top.mark) /\ stackSize = Top.base
<1>1. /\ Shrink(vars, Top.mark) = vars /\ PopCount(vars, Top.mark) = 0
  BY PopAccounted DEF IInv, Top
<1>2. QED
  BY <1>1, TopIsAccounted

(* The later arms of an if chain.                                          *)
LEMMA GenArmIsGood == IInv /\ (GenElseIf \/ GenElse) => StepIsGood
<1> SUFFICES ASSUME IInv PROVE (GenElseIf \/ GenElse) => StepIsGood
  OBVIOUS
<1> DEFINE f0 == Frame("arm", stackSize, Len(vars))
<1>1. /\ stackSize \in Nat /\ Len(vars) \in Nat /\ labelCount \in Nat
      /\ pc \in Nat
  BY HeightsAreNumbers DEF IInv, PlaceIsInProgram
<1>2. f0 \in FrameRecord /\ f0.k = "arm" /\ f0.base = stackSize
      /\ f0.mark = Len(vars) /\ f0.slots = 0
  <2>1. f0 \in FrameRecord
    BY <1>1, FrameIsFrame DEF FrameKinds
  <2>2. QED
    BY <2>1 DEF Frame
<1> HIDE DEF f0
<1>3. frames # <<>> => Top.end \in Nat \cup {NoLabel}
  <2>1. frames # <<>> => Top \in FrameRecord
    BY TopIsAccounted
  <2>2. QED
    BY <2>1 DEF FrameRecord
<1>4. ASSUME GenElseIf PROVE StepIsGood
  <2>1. /\ Generating /\ Advance /\ frames # <<>> /\ Top.k = "chain"
        /\ UNCHANGED <<stackSize, vars, inFunction, saved>>
        /\ labelCount' = labelCount + 1
    BY <1>4 DEF GenElseIf
  <2>2. node.more \in BOOLEAN
    <3>1. node \in Node
      BY <2>1, NodeIsNode DEF IInv
    <3>2. QED
      BY <1>4, <3>1 DEF GenElseIf, Node, Simple, Decl, Jump, Opener
  <2> DEFINE end == Top.end
             more == node.more
             g == [f0 EXCEPT !.next = labelCount, !.end = end, !.more = more]
  <2>3. frames' = Append(Front(frames), g)
    BY <1>4 DEF GenElseIf, f0
  <2>4. end \in Nat \cup {NoLabel} /\ more \in BOOLEAN
    BY <1>3, <2>1, <2>2
  <2> HIDE DEF end, more
  <2>5. g \in FrameRecord /\ g.k = "arm" /\ g.base = stackSize
        /\ g.mark = Len(vars) /\ g.slots = 0
    BY <1>1, <1>2, <2>4 DEF FrameRecord
  <2> HIDE DEF g
  <2>6. vars' = Shrink(vars, Top.mark) /\ stackSize' = Top.base /\ g.base = Top.base
    BY <2>1, <2>5, ChainIsEmpty
  <2>7. g.mark = Len(vars') /\ labelCount' \in Nat
    BY <1>1, <2>1, <2>5
  <2>8. QED
    BY <2>1, <2>3, <2>5, <2>6, <2>7, ContinueIsGood
<1>5. ASSUME GenElse PROVE StepIsGood
  <2>1. /\ Generating /\ Advance /\ frames # <<>> /\ Top.k = "chain"
        /\ UNCHANGED <<stackSize, vars, inFunction, saved, labelCount>>
    BY <1>5 DEF GenElse
  <2> DEFINE end == Top.end
             g == [f0 EXCEPT !.end = end]
  <2>2. frames' = Append(Front(frames), g)
    BY <1>5 DEF GenElse, f0
  <2>3. end \in Nat \cup {NoLabel}
    BY <1>3, <2>1
  <2> HIDE DEF end
  <2>4. g \in FrameRecord /\ g.k = "arm" /\ g.base = stackSize
        /\ g.mark = Len(vars) /\ g.slots = 0
    BY <1>1, <1>2, <2>3 DEF FrameRecord
  <2> HIDE DEF g
  <2>5. vars' = Shrink(vars, Top.mark) /\ stackSize' = Top.base /\ g.base = Top.base
    BY <2>1, <2>4, ChainIsEmpty
  <2>6. g.mark = Len(vars') /\ labelCount' \in Nat
    BY <1>1, <2>1, <2>4
  <2>7. QED
    BY <2>1, <2>2, <2>4, <2>5, <2>6, ContinueIsGood
<1>6. QED
  BY <1>4, <1>5

(* The end of an arm that another follows.                                 *)
LEMMA EndArmIsGood == IInv /\ EndArm => StepIsGood
<1> SUFFICES ASSUME IInv, EndArm PROVE StepIsGood
  OBVIOUS
<1> DEFINE g == [Top EXCEPT !.k = "chain", !.next = NoLabel]
<1>1. /\ Generating /\ Advance /\ frames # <<>> /\ Top.k = "arm"
      /\ EndScope(Top) /\ frames' = Append(Front(frames), g)
      /\ UNCHANGED <<inFunction, saved, labelCount>>
  BY DEF EndArm, Closing
<1>2. /\ Top \in FrameRecord /\ Top.slots = 0 /\ Top.mark \in Nat
  BY <1>1, TopIsAccounted
<1>3. g \in FrameRecord /\ g.k = "chain" /\ g.base = Top.base
      /\ g.mark = Top.mark /\ g.slots = 0
  <2> DEFINE top == Top
             h == [top EXCEPT !.k = "chain", !.next = NoLabel]
  <2>1. top \in FrameRecord /\ top.slots = 0
    BY <1>2
  <2> HIDE DEF top
  <2>2. h \in FrameRecord /\ h.k = "chain" /\ h.base = top.base
        /\ h.mark = top.mark /\ h.slots = 0
    BY <2>1 DEF FrameRecord, FrameKinds, NoLabel
  <2>3. QED
    BY <2>2 DEF top
<1> HIDE DEF g
<1>4. stackSize' = Top.base /\ vars' = Shrink(vars, Top.mark)
  BY <1>1, EndScopeRestores
<1>5. g.mark = Len(vars')
  <2>1. vars \in Seq(VarRecord) /\ frames \in Seq(FrameRecord)
    BY HeightsAreNumbers
  <2>2. Top.mark <= Len(vars)
    BY <1>1, <2>1 DEF IInv, Accounted, Top, Last
  <2>3. Len(SubSeq(vars, 1, Top.mark)) = Top.mark
    BY <1>2, <2>1, <2>2
  <2>4. QED
    BY <1>3, <1>4, <2>3 DEF Shrink
<1>6. labelCount' \in Nat
  BY <1>1, HeightsAreNumbers
<1>7. QED
  BY <1>1, <1>3, <1>4, <1>5, <1>6, ContinueIsGood

(* The header of a for opens two blocks around what its initialiser        *)
(* declares.                                                               *)
LEMMA GenForIsGood == IInv /\ GenFor => StepIsGood
<1> SUFFICES ASSUME IInv, GenFor PROVE StepIsGood
  OBVIOUS
<1> DEFINE s == node.init
           site == <<item, pc, InInit>>
           vs == VarsAfter(vars, s, stackSize, site)
           size == stackSize + NewSlots(s)
           cond == labelCount + NewLabels(s)
           h == Frame("pratyek", stackSize, Len(vars))
           b == [Frame("body", size, Len(vs)) EXCEPT
                   !.head = cond, !.next = cond + 1, !.end = cond + 2]
           fs == Append(frames, h)
<1>1. /\ Generating /\ Advance
      /\ vars' = vs /\ stackSize' = size /\ labelCount' = cond + 3
      /\ frames' = frames \o <<h, b>> /\ UNCHANGED <<inFunction, saved>>
  BY DEF GenFor, AtStatement
<1>2. /\ stackSize \in Nat /\ Len(vars) \in Nat /\ labelCount \in Nat
      /\ pc \in Nat /\ item \in Nat /\ frames \in Seq(FrameRecord)
  BY HeightsAreNumbers DEF IInv, PlaceIsInProgram
<1>3. s \in Simple
  <2>1. node \in Node
    BY <1>1, NodeIsNode DEF IInv
  <2>2. QED
    BY <2>1 DEF GenFor, Node, Simple, Decl, Jump, Opener
<1>4. h \in FrameRecord /\ h.k = "pratyek" /\ h.base = stackSize
      /\ h.mark = Len(vars) /\ h.slots = 0
  <2>1. h \in FrameRecord
    BY <1>2, FrameIsFrame DEF FrameKinds
  <2>2. QED
    BY <2>1 DEF Frame
<1>5. cond \in Nat
  BY <1>2 DEF NewLabels
<1>6. fs \in Seq(FrameRecord) /\ fs # <<>> /\ Last(fs) = h
  <2> HIDE DEF h
  <2>1. fs \in Seq(FrameRecord) /\ Len(fs) = Len(frames) + 1
        /\ fs[Len(frames) + 1] = h
    BY <1>2, <1>4
  <2>2. fs # <<>>
    BY <1>2, AppendProperties
  <2>3. QED
    BY <2>1, <2>2 DEF Last
<1>7. Accounted(fs, vars, stackSize)
  <2> HIDE DEF h, fs
  <2>1. Accounted(Append(frames, h), vars, stackSize + h.slots)
    BY <1>4, PushAccounted DEF IInv
  <2>2. stackSize + h.slots = stackSize
    BY <1>2, <1>4
  <2>3. QED
    BY <2>1, <2>2 DEF fs
<1>8. Accounted(fs, vs, size) /\ NewSlots(s) \in {0, 1}
  <2>1. site \in Nat \X Nat \X Nat
    BY <1>2 DEF InInit
  <2>2. inFunction \in BOOLEAN
    BY DEF IInv, Shaped
  <2>3. Last(fs).k \notin {"chain", "paryay"}
    BY <1>4, <1>6
  <2> HIDE DEF s, site, h, fs
  <2>4. QED
    BY <1>3, <1>6, <1>7, <2>1, <2>2, <2>3, SimpleAccounted
<1>9. size \in Nat /\ Len(vs) \in Nat /\ size \in {stackSize, stackSize + 1}
  <2> HIDE DEF fs, vs, s
  <2>1. vs \in Seq(VarRecord)
    BY <1>8 DEF Accounted
  <2>2. QED
    BY <1>2, <1>8, <2>1
<1>10. b \in FrameRecord /\ b.k = "body" /\ b.base = size
       /\ b.mark = Len(vs) /\ b.slots = 0
  <2> DEFINE f0 == Frame("body", size, Len(vs))
             next == cond + 1
             end == cond + 2
  <2> HIDE DEF vs, size, cond
  <2>1. f0 \in FrameRecord
    BY <1>2, <1>9, FrameIsFrame DEF FrameKinds
  <2>2. f0.k = "body" /\ f0.base = size /\ f0.mark = Len(vs) /\ f0.slots = 0
    BY DEF Frame
  <2>3. cond \in Nat /\ next \in Nat /\ end \in Nat
    BY <1>5
  <2> HIDE DEF f0, next, end
  <2> DEFINE c == [f0 EXCEPT !.head = cond, !.next = next, !.end = end]
  <2>4. c \in FrameRecord /\ c.k = "body" /\ c.base = size
        /\ c.mark = Len(vs) /\ c.slots = 0
    BY <2>1, <2>2, <2>3 DEF FrameRecord
  <2>5. QED
    BY <2>4 DEF f0, next, end
<1> HIDE DEF s, site, vs, size, h, b
<1>11. frames' = Append(fs, b)
  BY <1>1, <1>2, <1>4, <1>10, SMTT(30)
<1> HIDE DEF fs
<1>12. Accounted(frames', vars', stackSize')
  <2>1. Accounted(Append(fs, b), vs, size + b.slots)
    BY <1>8, <1>10, PushAccounted
  <2>2. size + b.slots = size
    BY <1>9, <1>10
  <2>3. QED
    BY <1>1, <1>11, <2>1, <2>2
<1>13. Shaped(frames', inFunction')
  <2>1. Shaped(fs, inFunction)
    BY <1>2, <1>4, ShapedPush DEF IInv, fs
  <2>2. Shaped(Append(fs, b), inFunction)
    BY <1>4, <1>6, <1>10, <2>1, ShapedPush
  <2>3. QED
    BY <1>1, <1>11, <2>2
<1>14. PlaceIsInProgram'
  BY <1>1, AdvanceStays DEF IInv
<1>15. labelCount' \in Nat
  <2> HIDE DEF cond
  <2>1. QED
    BY <1>1, <1>5
<1>16. Blocks!Next
  <2>1. Bases(frames) \in Seq(Nat) /\ Bases(fs) = Append(Bases(frames), stackSize)
    BY <1>2, <1>4, BasesOfPush DEF fs
  <2>2. Bases(frames') = Append(Append(Bases(frames), stackSize), size)
    BY <1>6, <1>10, <1>11, <2>1, BasesOfPush
  <2> DEFINE bs == Bases(frames)
  <2>3. bs \in Seq(Nat)
    BY <2>1
  <2> HIDE DEF bs
  <2>4. Append(Append(bs, stackSize), size) = bs \o <<stackSize, size>>
    BY <1>2, <1>9, <2>3, SMTT(30)
  <2>5. Bases(frames') = Bases(frames) \o <<stackSize, stackSize'>>
    BY <1>1, <2>2, <2>4 DEF bs
  <2>6. stackSize' \in {stackSize, stackSize + 1}
    BY <1>1, <1>9
  <2>7. QED
    BY <2>5, <2>6 DEF Blocks!Next, Blocks!OpenTwo
<1>17. IInv'
  BY <1>1, <1>12, <1>13, <1>14, <1>15 DEF IInv
<1>18. QED
  BY <1>16, <1>17 DEF StepIsGood

(* The next arm of a switch opens in a frame whose arm counter has moved.  *)
LEMMA GenCaseIsGood == IInv /\ GenCase => StepIsGood
<1> SUFFICES ASSUME IInv, GenCase PROVE StepIsGood
  OBVIOUS
<1> DEFINE n == Len(frames)
           gs == [frames EXCEPT ![n].arm = @ + 1]
           f == Frame("case", stackSize, Len(vars))
<1>1. /\ Generating /\ Advance /\ frames # <<>>
      /\ frames' = Append(gs, f)
      /\ UNCHANGED <<stackSize, vars, inFunction, saved, labelCount>>
  BY DEF GenCase
<1>2. /\ stackSize \in Nat /\ Len(vars) \in Nat /\ labelCount \in Nat
      /\ pc \in Nat /\ frames \in Seq(FrameRecord)
  BY HeightsAreNumbers DEF IInv, PlaceIsInProgram
<1>3. f \in FrameRecord /\ f.k = "case" /\ f.base = stackSize
      /\ f.mark = Len(vars) /\ f.slots = 0
  <2>1. f \in FrameRecord
    BY <1>2, FrameIsFrame DEF FrameKinds
  <2>2. QED
    BY <2>1 DEF Frame
<1>4. /\ gs \in Seq(FrameRecord) /\ Len(gs) = n
      /\ \A i \in DOMAIN frames :
           /\ gs[i].k = frames[i].k /\ gs[i].mark = frames[i].mark
           /\ gs[i].base = frames[i].base /\ gs[i].slots = frames[i].slots
  <2> DEFINE top == frames[n]
             arm == top.arm + 1
             next == [top EXCEPT !.arm = arm]
  <2>1. n \in DOMAIN frames /\ top \in FrameRecord
    BY <1>1, <1>2
  <2>2. gs = [frames EXCEPT ![n] = next]
    BY <2>1
  <2>3. arm \in Nat
    BY <2>1 DEF FrameRecord
  <2> HIDE DEF top, arm
  <2>4. next \in FrameRecord /\ next.k = top.k /\ next.mark = top.mark
        /\ next.base = top.base /\ next.slots = top.slots
    BY <2>1, <2>3 DEF FrameRecord
  <2> HIDE DEF next, gs
  <2>5. gs \in Seq(FrameRecord) /\ Len(gs) = n
    BY <1>2, <2>1, <2>2, <2>4
  <2>6. \A i \in DOMAIN frames : gs[i] = (IF i = n THEN next ELSE frames[i])
    BY <1>2, <2>2
  <2>7. QED
    BY <2>4, <2>5, <2>6 DEF top
<1> HIDE DEF gs, f
<1>5. Accounted(gs, vars, stackSize)
  BY <1>4, RelabelAccounted DEF IInv
<1>6. Shaped(gs, inFunction)
  <2>1. DOMAIN gs = DOMAIN frames /\ (gs = <<>> <=> frames = <<>>)
    BY <1>2, <1>4
  <2>2. \A i \in DOMAIN frames : i > 1 => i - 1 \in DOMAIN frames
    BY <1>2
  <2>3. frames # <<>> => 1 \in DOMAIN frames
    BY <1>2
  <2>4. QED
    BY <1>4, <2>1, <2>2, <2>3 DEF IInv, Shaped
<1>7. Bases(gs) = Bases(frames)
  BY <1>2, <1>4 DEF Bases
<1>8. Accounted(frames', vars', stackSize')
  <2>1. Accounted(Append(gs, f), vars, stackSize + f.slots)
    BY <1>3, <1>5, PushAccounted
  <2>2. stackSize + f.slots = stackSize
    BY <1>2, <1>3
  <2>3. QED
    BY <1>1, <2>1, <2>2
<1>9. Shaped(frames', inFunction')
  <2>1. Shaped(Append(gs, f), inFunction)
    BY <1>3, <1>4, <1>6, ShapedPush
  <2>2. QED
    BY <1>1, <2>1
<1>10. PlaceIsInProgram'
  BY <1>1, AdvanceStays DEF IInv
<1>11. Blocks!Next
  <2>1. Bases(frames') = Append(Bases(frames), stackSize)
    BY <1>1, <1>3, <1>4, <1>7, BasesOfPush
  <2>2. stackSize' \in Nat /\ stackSize' >= stackSize
    BY <1>1, <1>2
  <2>3. QED
    BY <2>1, <2>2 DEF Blocks!Next, Blocks!Open
<1>12. IInv'
  BY <1>1, <1>8, <1>9, <1>10 DEF IInv
<1>13. QED
  BY <1>11, <1>12 DEF StepIsGood

(* A function: parameters take the first slots of a frame of its own.      *)
LEMMA GenFuncDeclIsGood == IInv /\ GenFuncDecl => StepIsGood
<1> SUFFICES ASSUME IInv, GenFuncDecl PROVE StepIsGood
  OBVIOUS
<1> DEFINE n == Len(node.params)
           vs == [j \in 1..n |-> ParamEntry(j)]
           f == Frame("karya", 0, 0)
<1>1. /\ Generating /\ Advance /\ frames = <<>>
      /\ frames' = Append(<<>>, f) /\ vars' = vs /\ stackSize' = n
      /\ saved' = [vars |-> vars, stackSize |-> stackSize]
      /\ inFunction' = TRUE /\ labelCount' = labelCount
  BY DEF GenFuncDecl, Push
<1>2. /\ pc \in Nat /\ item \in Nat /\ vars \in Seq(VarRecord) /\ stackSize = 0
      /\ labelCount \in Nat
  <2>1. stackSize = 0
    BY <1>1 DEF IInv, Accounted
  <2>2. QED
    BY <2>1, HeightsAreNumbers DEF IInv, PlaceIsInProgram
<1>3. node.params \in Seq(Idents)
  <2>1. node \in Node
    BY <1>1, NodeIsNode DEF IInv
  <2>2. QED
    BY <2>1 DEF GenFuncDecl, Node, Simple, Decl, Jump, Opener
<1>4. n \in Nat
  BY <1>3
<1>5. \A j \in 1..n : ParamEntry(j) \in VarRecord /\ ~ParamEntry(j).static
  <2>1. \A j \in 1..n : node.params[j] \in Idents /\ j - 1 \in Nat /\ j \in Nat
    BY <1>3
  <2>2. QED
    BY <1>2, <2>1 DEF ParamEntry, VarRecord
<1>6. vs \in Seq(VarRecord) /\ Len(vs) = n /\ \A j \in 1..n : ~vs[j].static
  <2> HIDE DEF n
  <2>1. QED
    BY <1>4, <1>5
<1>7. f \in FrameRecord /\ f.k = "karya" /\ f.base = 0 /\ f.mark = 0 /\ f.slots = 0
  <2>1. f \in FrameRecord
    BY <1>2, FrameIsFrame DEF FrameKinds
  <2>2. QED
    BY <2>1 DEF Frame
<1> HIDE DEF n, vs, f
<1>8. Slots(vs, 0, n) = n
  <2>1. SlotSet(vs, 0, n) = 1..n
    BY <1>4, <1>6 DEF SlotSet
  <2>2. Cardinality(1..n) = n
    <3>1. Cardinality(1..n) = IF 1 > n THEN 0 ELSE n - 1 + 1
      BY <1>4, FS_Interval
    <3>2. QED
      BY <1>4, <3>1
  <2>3. QED
    BY <2>1, <2>2 DEF Slots
<1>9. Accounted(frames', vars', stackSize')
  <2> DEFINE fs == Append(<<>>, f)
  <2>1. /\ fs \in Seq(FrameRecord) /\ fs # <<>> /\ Len(fs) = 1 /\ fs[1] = f
        /\ DOMAIN fs = {1}
    BY <1>7
  <2> HIDE DEF fs
  <2>2. MarkAfter(fs, vs, 1) = n /\ BaseAfter(fs, n, 1) = n
    BY <1>6, <2>1 DEF MarkAfter, BaseAfter
  <2>3. /\ \A i \in DOMAIN fs : fs[i].mark <= Len(vs)
        /\ \A i, j \in DOMAIN fs : i < j => fs[i].mark <= fs[j].mark
    BY <1>4, <1>6, <1>7, <2>1
  <2>4. \A i \in DOMAIN fs :
          BaseAfter(fs, n, i) =
            fs[i].base + fs[i].slots + Slots(vs, fs[i].mark, MarkAfter(fs, vs, i))
    BY <1>4, <1>7, <1>8, <2>1, <2>2
  <2>5. Accounted(fs, vs, n)
    BY <1>4, <1>6, <1>7, <2>1, <2>3, <2>4 DEF Accounted
  <2>6. QED
    BY <1>1, <2>5 DEF fs
<1>10. Shaped(frames', inFunction')
  BY <1>1, <1>7, ShapedFunction
<1>11. PlaceIsInProgram'
  BY <1>1, AdvanceStays DEF IInv
<1>12. IInv'
  BY <1>1, <1>2, <1>9, <1>10, <1>11 DEF IInv
<1>13. Blocks!Next
  <2>1. stackSize' \in Nat /\ stackSize' >= stackSize
    BY <1>1, <1>2, <1>4
  <2>2. frames' = Append(frames, f) /\ frames \in Seq(FrameRecord) /\ f.base = stackSize
    BY <1>1, <1>2, <1>7
  <2>3. QED
    BY <1>2, <1>7, <2>1, <2>2, OpenIsAllowed
<1>14. QED
  BY <1>12, <1>13 DEF StepIsGood

(* Constructs that close one block.                                        *)
LEMMA EndBlockIsGood ==
  IInv /\ (EndGenScope \/ EndLastArm \/ EndWhile \/ EndCase) => StepIsGood
<1> SUFFICES ASSUME IInv, EndGenScope \/ EndLastArm \/ EndWhile \/ EndCase
             PROVE  StepIsGood
  OBVIOUS
<1>1. /\ Generating /\ Advance /\ frames # <<>>
      /\ Top.k \in {"scope", "arm", "jovar", "case"}
      /\ EndScope(Top) /\ frames' = Front(frames)
      /\ UNCHANGED <<inFunction, saved, labelCount>>
  BY DEF EndGenScope, EndLastArm, EndWhile, EndCase, Closing
<1>2. stackSize' = Top.base /\ vars' = Shrink(vars, Top.mark)
  BY <1>1, EndScopeRestores
<1>3. QED
  BY <1>1, <1>2, CloseIsGood

(* The scrutinee of a switch is the one slot its frame holds.              *)
LEMMA EndSwitchIsGood == IInv /\ EndSwitch => StepIsGood
<1> SUFFICES ASSUME IInv, EndSwitch PROVE StepIsGood
  OBVIOUS
<1>1. /\ Generating /\ Advance /\ frames # <<>> /\ Top.k = "paryay"
      /\ stackSize' = stackSize - 1 /\ frames' = Front(frames)
      /\ UNCHANGED <<vars, inFunction, saved, labelCount>>
  BY DEF EndSwitch, Closing
<1>2. Shrink(vars, Top.mark) = vars /\ PopCount(vars, Top.mark) = 0
  BY <1>1, PopAccounted DEF IInv, Top
<1>3. stackSize' = Top.base
  BY <1>1, <1>2, TopIsAccounted
<1>4. QED
  BY <1>1, <1>2, <1>3, CloseIsGood

(* The two blocks of a for close together: below the body's frame lies the *)
(* header's, whose base is where the stack ends up.                        *)
LEMMA EndForRestores ==
  ASSUME IInv, EndFor,
         NEW header, header = frames[Len(frames) - 1],
         NEW inside, inside = Shrink(vars, Top.mark),
         NEW fs, fs = Front(frames)
  PROVE  /\ fs \in Seq(FrameRecord) /\ fs # <<>> /\ Last(fs) = header
         /\ header \in FrameRecord /\ header.k = "pratyek"
         /\ Len(fs) = Len(frames) - 1
         /\ Accounted(fs, inside, Top.base) /\ Shaped(fs, inFunction)
         /\ Accounted(Front(fs), Shrink(inside, header.mark), header.base)
         /\ stackSize' = header.base
         /\ Top.base = header.base + PopCount(inside, header.mark)
         /\ PopCount(inside, header.mark) \in Nat
<1>1. /\ frames # <<>> /\ Top.k = "body" /\ Len(frames) > 1
      /\ stackSize' = stackSize - PopCount(vars, Top.mark)
                        - PopCount(inside, header.mark)
  BY DEF EndFor, Closing
<1>2. frames \in Seq(FrameRecord) /\ vars \in Seq(VarRecord)
  BY HeightsAreNumbers
<1>3. /\ fs \in Seq(FrameRecord) /\ fs # <<>> /\ Last(fs) = header
      /\ header \in FrameRecord /\ header.k = "pratyek"
      /\ Len(fs) = Len(frames) - 1
  <2>1. /\ fs \in Seq(FrameRecord) /\ Len(fs) = Len(frames) - 1
        /\ \A i \in 1..(Len(frames) - 1) : fs[i] = frames[i]
    BY <1>1, <1>2, FrontProperties
  <2>2. Len(frames) - 1 \in DOMAIN frames /\ Len(frames) \in DOMAIN frames
    BY <1>1, <1>2
  <2>3. frames[Len(frames)].k = "body"
    BY <1>1 DEF Top, Last
  <2>4. header.k = "pratyek"
    BY <2>2, <2>3 DEF IInv, Shaped
  <2>5. fs # <<>> /\ Last(fs) = header
    BY <1>1, <1>2, <2>1 DEF Last
  <2>6. QED
    BY <1>2, <2>1, <2>2, <2>4, <2>5
<1>4. Accounted(fs, inside, Top.base) /\ Shaped(fs, inFunction)
  <2>1. Accounted(Front(frames), Shrink(vars, Top.mark), Top.base)
    BY <1>1, PopAccounted DEF IInv, Top
  <2>2. Shaped(Front(frames), inFunction)
    BY <1>1, <1>2, ShapedPop DEF IInv, Top
  <2>3. QED
    BY <2>1, <2>2
<1>5. /\ Accounted(Front(fs), Shrink(inside, header.mark), header.base)
      /\ Top.base = header.base + header.slots + PopCount(inside, header.mark)
  BY <1>3, <1>4, PopAccounted
<1>6. /\ stackSize' = header.base
      /\ Top.base = header.base + PopCount(inside, header.mark)
      /\ PopCount(inside, header.mark) \in Nat
  <2>1. stackSize = Top.base + PopCount(vars, Top.mark)
        /\ Top.base \in Nat /\ PopCount(vars, Top.mark) \in Nat
    BY <1>1, TopIsAccounted
  <2>2. header.base \in Nat /\ header.slots = 0
    <3>1. header.base \in Nat
      BY <1>3 DEF FrameRecord
    <3>2. header.slots = 0
      <4>1. Len(fs) \in DOMAIN fs /\ fs[Len(fs)] = header
        BY <1>3 DEF Last
      <4>2. QED
        BY <1>3, <1>4, <4>1 DEF Accounted
    <3>3. QED
      BY <3>1, <3>2
  <2>3. PopCount(inside, header.mark) \in Nat
    <3>1. Len(inside) \in Nat /\ header.mark \in Nat
      <4>1. inside \in Seq(VarRecord)
        BY <1>4 DEF Accounted
      <4>2. header.mark \in Nat
        BY <1>3 DEF FrameRecord
      <4>3. QED
        BY <4>1, <4>2
    <3>2. Slots(inside, header.mark, Len(inside)) \in Nat
      BY <3>1, SlotsFinite
    <3>3. QED
      BY <3>2 DEF PopCount, Slots, SlotSet
  <2> DEFINE a == PopCount(vars, Top.mark)
             b == PopCount(inside, header.mark)
  <2>4. stackSize' = stackSize - a - b
    BY <1>1
  <2>5. stackSize = Top.base + a /\ Top.base = header.base + b
        /\ a \in Nat /\ b \in Nat
    BY <1>5, <2>1, <2>2, <2>3
  <2> HIDE DEF a, b
  <2>6. stackSize' = header.base
    BY <2>2, <2>4, <2>5
  <2>7. QED
    BY <2>5, <2>6 DEF b
<1>7. QED
  BY <1>3, <1>4, <1>5, <1>6

(* So do the step's frames and heights.                                    *)
LEMMA EndForIsGood == IInv /\ EndFor => StepIsGood
<1> SUFFICES ASSUME IInv, EndFor PROVE StepIsGood
  OBVIOUS
<1> DEFINE header == frames[Len(frames) - 1]
           inside == Shrink(vars, Top.mark)
           fs == Front(frames)
<1>1. /\ Generating /\ Advance /\ frames # <<>> /\ Len(frames) > 1
      /\ vars' = Shrink(inside, header.mark)
      /\ frames' = Front(fs)
      /\ UNCHANGED <<inFunction, saved, labelCount>>
  BY DEF EndFor, Closing
<1>2. frames \in Seq(FrameRecord) /\ vars \in Seq(VarRecord)
  BY HeightsAreNumbers
<1>3. /\ fs \in Seq(FrameRecord) /\ fs # <<>> /\ Last(fs) = header
      /\ header \in FrameRecord /\ header.k = "pratyek"
      /\ Len(fs) = Len(frames) - 1 /\ Shaped(fs, inFunction)
      /\ Accounted(Front(fs), Shrink(inside, header.mark), header.base)
      /\ stackSize' = header.base
  BY EndForRestores
<1> HIDE DEF fs, inside, header
<1>4. Shaped(Front(fs), inFunction)
  BY <1>3, ShapedPop
<1>5. PlaceIsInProgram'
  BY <1>1, AdvanceStays DEF IInv
<1>6. IInv'
  <2>1. Accounted(frames', vars', stackSize')
    BY <1>1, <1>3
  <2>2. QED
    BY <1>1, <1>4, <1>5, <2>1 DEF IInv
<1>7. Blocks!Next
  <2> DEFINE bs == Bases(frames)
  <2>1. /\ bs \in Seq(Nat) /\ Len(bs) > 1 /\ Bases(fs) = Front(bs)
        /\ bs[Len(bs) - 1] = header.base
    <3>1. bs \in Seq(Nat)
      BY <1>1, <1>2, <1>3, BasesOfPush
    <3>2. /\ Bases(Front(frames)) = Front(bs) /\ Len(bs) = Len(frames)
          /\ \A i \in DOMAIN frames : bs[i] = frames[i].base
      BY <1>1, <1>2, BasesOfPop
    <3>3. Len(frames) - 1 \in DOMAIN frames
      BY <1>1, <1>2
    <3>4. QED
      BY <1>1, <3>1, <3>2, <3>3 DEF fs, header
  <2>2. Bases(Front(fs)) = Front(Front(bs))
    BY <1>3, <2>1, BasesOfPop
  <2>3. QED
    BY <1>1, <1>3, <2>1, <2>2
    DEF Blocks!Next, Blocks!CloseTwo, Blocks!Front, Front
<1>8. QED
  BY <1>6, <1>7 DEF StepIsGood

(* genFuncDecl() puts back what it saved.                                  *)
LEMMA EndFuncDeclIsGood == IInv /\ EndFuncDecl => StepIsGood
<1> SUFFICES ASSUME IInv, EndFuncDecl PROVE StepIsGood
  OBVIOUS
<1>1. /\ Generating /\ Advance /\ frames # <<>> /\ Top.k = "karya"
      /\ vars' = saved.vars /\ stackSize' = saved.stackSize
      /\ inFunction' = FALSE /\ frames' = Front(frames)
      /\ UNCHANGED <<saved, labelCount>>
  BY DEF EndFuncDecl, Closing
<1>2. /\ frames \in Seq(FrameRecord) /\ saved.vars \in Seq(VarRecord)
      /\ saved.stackSize = 0
  BY HeightsAreNumbers DEF IInv
<1>3. Len(frames) = 1
  <2>1. Len(frames) \in DOMAIN frames /\ frames[Len(frames)].k = "karya"
    BY <1>1, <1>2 DEF Top, Last
  <2>2. QED
    BY <2>1 DEF IInv, Shaped
<1>4. frames' = <<>>
  <2>1. Len(Front(frames)) = 0 /\ Front(frames) \in Seq(FrameRecord)
    BY <1>1, <1>2, <1>3, FrontProperties
  <2>2. QED
    BY <1>1, <2>1
<1>5. Accounted(frames', vars', stackSize')
  BY <1>1, <1>2, <1>4 DEF Accounted
<1>6. Shaped(frames', inFunction')
  BY <1>1, <1>4, ShapedNone
<1>7. PlaceIsInProgram'
  BY <1>1, AdvanceStays DEF IInv
<1>8. IInv'
  BY <1>1, <1>2, <1>5, <1>6, <1>7, HeightsAreNumbers DEF IInv
<1>9. Blocks!Next
  <2>1. stackSize' = Last(frames).base
    <3>1. Last(frames) = frames[1]
      BY <1>3 DEF Last
    <3>2. frames[1].base = 0
      BY <1>1 DEF IInv, Accounted
    <3>3. QED
      BY <1>1, <1>2, <3>1, <3>2
  <2>2. QED
    BY <1>1, <1>2, <2>1, CloseIsAllowed
<1>10. QED
  BY <1>8, <1>9 DEF StepIsGood

(* The passes over the top level.                                          *)
LEMMA PassIsGood == IInv /\ (SkipItem \/ EndEntryPoint \/ EndGenerate) => StepIsGood
<1> SUFFICES ASSUME IInv, SkipItem \/ EndEntryPoint \/ EndGenerate PROVE StepIsGood
  OBVIOUS
<1>1. /\ UNCHANGED <<prog, stackSize, vars, inFunction, saved, frames, labelCount>>
      /\ \/ UNCHANGED <<item, pc>>
         \/ item' \in Nat \ {0} /\ pc' = 1
  BY DEF SkipItem, EndEntryPoint, EndGenerate, IInv, PlaceIsInProgram
<1>2. \A i \in Nat \ {0} : i <= Len(prog) => 1 \in DOMAIN prog[i]
  <2>1. /\ prog \in Seq(Seq(Node))
        /\ \A i \in DOMAIN prog : prog[i] # <<>>
    BY ProgramsAssumption DEF IInv, PlaceIsInProgram, Program, IsTree
  <2>2. \A i \in Nat \ {0} : i <= Len(prog) =>
          i \in DOMAIN prog /\ prog[i] \in Seq(Node) /\ prog[i] # <<>>
    BY <2>1
  <2>3. QED
    BY <2>2
<1>3. PlaceIsInProgram'
  BY <1>1, <1>2 DEF IInv, PlaceIsInProgram
<1>4. IInv'
  BY <1>1, <1>3 DEF IInv
<1>5. QED
  BY <1>1, <1>4 DEF StepIsGood

-----------------------------------------------------------------------------
(* The initial states.                                                     *)
LEMMA InitIsGood == Init => IInv /\ Blocks!Init
<1> SUFFICES ASSUME NEW p \in Programs, InitOn(p) PROVE IInv /\ Blocks!Init
  BY DEF Init
<1>1. /\ prog = p /\ item = 1 /\ pc = 1 /\ stackSize = 0 /\ vars = <<>>
      /\ inFunction = FALSE /\ saved = [vars |-> <<>>, stackSize |-> 0]
      /\ frames = <<>> /\ labelCount = 0
  BY DEF InitOn
<1>2. PlaceIsInProgram
  <2>1. prog \in Seq(Seq(Node)) /\ \A i \in DOMAIN prog : prog[i] # <<>>
    BY <1>1, ProgramsAssumption DEF Program, IsTree
  <2>2. 1 <= Len(prog) => prog[1] \in Seq(Node) /\ prog[1] # <<>>
    BY <2>1
  <2>3. 1 <= Len(prog) => 1 \in DOMAIN prog[1]
    BY <2>2
  <2>4. QED
    BY <1>1, <2>3 DEF PlaceIsInProgram
<1>3. Accounted(frames, vars, stackSize)
  BY <1>1 DEF Accounted
<1>4. Shaped(frames, inFunction)
  BY <1>1, ShapedNone
<1>5. IInv
  BY <1>1, <1>2, <1>3, <1>4 DEF IInv
<1>6. Blocks!Init
  BY <1>1 DEF Blocks!Init, Bases
<1>7. QED
  BY <1>5, <1>6

(* Every step, and every stutter.                                          *)
LEMMA NextIsGood == IInv /\ [Next]_allVars => StepIsGood
<1>1. IInv /\ Next => StepIsGood
  BY GenSimpleIsGood, JumpIsGood, GenBlockIsGood, GenArmIsGood, GenForIsGood,
     GenCaseIsGood, GenFuncDeclIsGood, EndArmIsGood, EndBlockIsGood,
     EndSwitchIsGood, EndForIsGood, EndFuncDeclIsGood, PassIsGood
  DEF Next, GenBlock, EndBlock
<1>2. IInv /\ UNCHANGED allVars => StepIsGood
  <2> SUFFICES ASSUME IInv, UNCHANGED allVars PROVE StepIsGood
    OBVIOUS
  <2>1. UNCHANGED <<prog, item, pc, stackSize, vars, inFunction, saved, frames,
                    labelCount>>
    BY DEF allVars
  <2>2. IInv'
    BY <2>1 DEF IInv, PlaceIsInProgram
  <2>3. QED
    BY <2>1, <2>2 DEF StepIsGood
<1>3. QED
  BY <1>1, <1>2

-----------------------------------------------------------------------------
(* Slots are given in the order of declaration, and what was declared      *)
(* before a block lies below its base.  The second is what makes the first *)
(* inductive: a block's end lowers the stack to that base.                 *)
Ordered(vs, size) ==
  \A i, j \in DOMAIN vs :
    ~vs[i].static /\ ~vs[j].static =>
      /\ vs[i].loc < size
      /\ i < j => vs[i].loc < vs[j].loc

Below(f, vs) ==
  \A i \in DOMAIN vs : i <= f.mark /\ ~vs[i].static => vs[i].loc < f.base

Layered(fs, vs, size) ==
  /\ Ordered(vs, size)
  /\ \A n \in DOMAIN fs : Below(fs[n], vs)

(* What genFuncDecl() set aside holds no slot of the entry point.          *)
LInv ==
  /\ Layered(frames, vars, stackSize)
  /\ \A j \in DOMAIN saved.vars : saved.vars[j].static

(* Frames that begin where the others do, or where the stack ends.         *)
Bounds(fs) == {<<fs[n].mark, fs[n].base>> : n \in DOMAIN fs}

(* A slot is a number.                                                    *)
LEMMA LocsAreNumbers ==
  ASSUME NEW vs \in Seq(VarRecord)
  PROVE  \A i \in DOMAIN vs : vs[i].loc \in Nat
<1>1. \A i \in DOMAIN vs : vs[i] \in VarRecord
  OBVIOUS
<1>2. QED
  BY <1>1 DEF VarRecord

(* A block opens, or the stack grows, under the same variables.            *)
LEMMA GrowLayered ==
  ASSUME NEW fs, NEW gs, NEW vs \in Seq(VarRecord), NEW size \in Nat,
         NEW more \in Nat, Layered(fs, vs, size),
         \A n \in DOMAIN gs :
           <<gs[n].mark, gs[n].base>> \in Bounds(fs) \/ gs[n].base = size
  PROVE  Layered(gs, vs, size + more)
<1>1. \A i \in DOMAIN vs : vs[i].loc \in Nat
  BY LocsAreNumbers
<1>2. Ordered(vs, size + more)
  BY <1>1 DEF Layered, Ordered
<1>3. ASSUME NEW n \in DOMAIN gs PROVE Below(gs[n], vs)
  <2>1. CASE gs[n].base = size
    BY <2>1 DEF Layered, Ordered, Below
  <2>2. CASE <<gs[n].mark, gs[n].base>> \in Bounds(fs)
    <3>1. PICK m \in DOMAIN fs : gs[n].mark = fs[m].mark /\ gs[n].base = fs[m].base
      BY <2>2 DEF Bounds
    <3>2. QED
      BY <3>1 DEF Layered, Below
  <2>3. QED
    BY <1>3, <2>1, <2>2
<1>4. QED
  BY <1>2, <1>3 DEF Layered

(* A block closes: the stack is as high as where it began.                 *)
LEMMA CutLayered ==
  ASSUME NEW fs, NEW gs, NEW vs \in Seq(VarRecord), NEW size,
         Layered(fs, vs, size), Bounds(gs) \subseteq Bounds(fs),
         NEW k \in DOMAIN fs, fs[k].mark \in Nat, fs[k].mark <= Len(vs)
  PROVE  Layered(gs, Shrink(vs, fs[k].mark), fs[k].base)
<1> DEFINE m == fs[k].mark
           ws == Shrink(vs, m)
<1>1. DOMAIN ws = 1..m /\ \A i \in DOMAIN ws : i \in DOMAIN vs /\ ws[i] = vs[i]
  <2>1. m \in Nat /\ m <= Len(vs) /\ Len(vs) \in Nat
    OBVIOUS
  <2> HIDE DEF m
  <2>2. QED
    BY <2>1 DEF Shrink
<1>2. \A i \in DOMAIN ws : i <= m
  BY <1>1
<1> HIDE DEF ws
<1>3. Below(fs[k], vs)
  BY DEF Layered
<1>4. Ordered(ws, fs[k].base)
  BY <1>1, <1>2, <1>3 DEF Layered, Ordered, Below
<1>5. ASSUME NEW n \in DOMAIN gs PROVE Below(gs[n], ws)
  <2>1. PICK j \in DOMAIN fs : gs[n].mark = fs[j].mark /\ gs[n].base = fs[j].base
    <3>1. <<gs[n].mark, gs[n].base>> \in Bounds(gs)
      BY DEF Bounds
    <3>2. <<gs[n].mark, gs[n].base>> \in Bounds(fs)
      BY <3>1
    <3>3. QED
      BY <3>2 DEF Bounds
  <2>2. QED
    BY <1>1, <2>1 DEF Layered, Below
<1>6. QED
  BY <1>4, <1>5 DEF Layered, ws

(* A declaration takes the next slot, above every block that is open.      *)
LEMMA DeclareLayered ==
  ASSUME NEW fs, NEW vs \in Seq(VarRecord), NEW size \in Nat,
         Layered(fs, vs, size),
         \A n \in DOMAIN fs : fs[n].mark \in Nat /\ fs[n].mark <= Len(vs),
         NEW s \in Simple, NEW site \in Nat \X Nat \X Nat, inFunction \in BOOLEAN
  PROVE  Layered(fs, VarsAfter(vs, s, size, site), size + NewSlots(s))
<1>1. CASE s.k # "decl"
  BY <1>1 DEF VarsAfter, NewSlots
<1>2. CASE s.k = "decl"
  <2> DEFINE v == Entry(s, size, site)
             ws == Append(vs, v)
             more == NewSlots(s)
  <2>1. /\ v \in VarRecord /\ more = (IF v.static THEN 0 ELSE 1)
        /\ ~v.static => v.loc = size
    BY <1>2, EntryIsVar DEF Entry
  <2>2. VarsAfter(vs, s, size, site) = ws
    BY <1>2 DEF VarsAfter
  <2> HIDE DEF v, more
  <2>3. /\ Len(vs) \in Nat /\ ws[Len(vs) + 1] = v
        /\ DOMAIN ws = 1..(Len(vs) + 1)
        /\ \A i \in DOMAIN vs : ws[i] = vs[i]
        /\ \A i \in DOMAIN ws : i = Len(vs) + 1 \/ (i \in DOMAIN vs /\ i <= Len(vs))
    BY <2>1
  <2> HIDE DEF ws
  <2>4. \A i \in DOMAIN vs : vs[i].loc \in Nat
    BY LocsAreNumbers
  <2>5. Ordered(ws, size + more)
    <3>1. more \in {0, 1} /\ (more = 0 => v.static) /\ (~v.static => more = 1)
      BY <2>1
    <3>2. \A i, j \in DOMAIN vs :
            ~vs[i].static /\ ~vs[j].static =>
              vs[i].loc < size /\ (i < j => vs[i].loc < vs[j].loc)
      BY DEF Layered, Ordered
    <3>3. SUFFICES ASSUME NEW i \in DOMAIN ws, NEW j \in DOMAIN ws,
                          ~ws[i].static, ~ws[j].static
                   PROVE  ws[i].loc < size + more
                          /\ (i < j => ws[i].loc < ws[j].loc)
      BY DEF Ordered
    <3>4. CASE i = Len(vs) + 1
      BY <2>1, <2>3, <3>1, <3>3, <3>4
    <3>5. CASE i \in DOMAIN vs /\ i <= Len(vs)
      <4>1. vs[i].loc < size /\ vs[i].loc \in Nat /\ ws[i] = vs[i]
        BY <2>3, <2>4, <3>2, <3>3, <3>5
      <4>2. CASE j = Len(vs) + 1
        BY <2>1, <2>3, <3>1, <3>3, <4>1, <4>2
      <4>3. CASE j \in DOMAIN vs /\ j <= Len(vs)
        <5>1. ws[j] = vs[j] /\ ~vs[i].static /\ ~vs[j].static
          BY <2>3, <3>3, <4>1, <4>3
        <5>2. i < j => vs[i].loc < vs[j].loc
          BY <3>2, <3>5, <4>3, <5>1
        <5>3. ws[i].loc < size + more
          BY <3>1, <4>1
        <5>4. QED
          BY <4>1, <5>1, <5>2, <5>3
      <4>4. QED
        BY <2>3, <4>2, <4>3
    <3>6. QED
      BY <2>3, <3>4, <3>5
  <2>6. ASSUME NEW n \in DOMAIN fs PROVE Below(fs[n], ws)
    <3>1. fs[n].mark \in Nat /\ fs[n].mark <= Len(vs) /\ Below(fs[n], vs)
      BY DEF Layered
    <3>2. \A i \in DOMAIN ws : i <= fs[n].mark => i \in DOMAIN vs /\ ws[i] = vs[i]
      BY <2>3, <3>1
    <3>3. QED
      BY <3>1, <3>2 DEF Below
  <2>7. QED
    BY <2>2, <2>5, <2>6 DEF Layered, more
<1>3. QED
  BY <1>1, <1>2

(* A push adds the bounds of the frame pushed.                             *)
LEMMA BoundsOfPush ==
  ASSUME NEW fs \in Seq(FrameRecord), NEW f
  PROVE  \A n \in DOMAIN Append(fs, f) :
           <<Append(fs, f)[n].mark, Append(fs, f)[n].base>> \in Bounds(fs)
             \/ Append(fs, f)[n] = f
<1> SUFFICES ASSUME NEW n \in DOMAIN Append(fs, f),
                    Append(fs, f)[n] # f
             PROVE  <<Append(fs, f)[n].mark, Append(fs, f)[n].base>> \in Bounds(fs)
  OBVIOUS
<1>1. n \in DOMAIN fs /\ Append(fs, f)[n] = fs[n]
  OBVIOUS
<1>2. QED
  BY <1>1 DEF Bounds

(* A pop adds none.                                                        *)
LEMMA BoundsOfPop ==
  ASSUME NEW fs \in Seq(FrameRecord), fs # <<>>
  PROVE  Bounds(Front(fs)) \subseteq Bounds(fs)
<1> DEFINE gs == Front(fs)
<1>1. /\ gs \in Seq(FrameRecord) /\ Len(gs) = Len(fs) - 1
      /\ \A i \in 1..(Len(fs) - 1) : gs[i] = fs[i]
  BY FrontProperties
<1> HIDE DEF gs
<1>2. \A i \in DOMAIN gs : i \in DOMAIN fs /\ gs[i] = fs[i]
  BY <1>1
<1>3. Bounds(gs) \subseteq Bounds(fs)
  BY <1>2 DEF Bounds
<1>4. QED
  BY <1>3 DEF gs

(* A construct that opens one block, after closing at most a chain.        *)
LEMMA OpenIsLayered ==
  ASSUME IInv, LInv,
         NEW gs \in Seq(FrameRecord), Bounds(gs) \subseteq Bounds(frames),
         NEW f, f.base = stackSize, frames' = Append(gs, f),
         NEW more \in Nat, stackSize' = stackSize + more,
         UNCHANGED <<vars, saved>>
  PROVE  LInv'
<1>1. vars \in Seq(VarRecord) /\ stackSize \in Nat
  BY HeightsAreNumbers
<1>2. \A n \in DOMAIN frames' :
        <<frames'[n].mark, frames'[n].base>> \in Bounds(frames)
          \/ frames'[n].base = stackSize
  BY BoundsOfPush
<1>3. Layered(frames', vars, stackSize + more)
  BY <1>1, <1>2, GrowLayered DEF LInv
<1>4. QED
  BY <1>3 DEF LInv

(* A construct that closes its block.                                      *)
LEMMA CloseIsLayered ==
  ASSUME IInv, LInv, frames # <<>>, Bounds(frames') \subseteq Bounds(frames),
         vars' = Shrink(vars, Top.mark), stackSize' = Top.base, saved' = saved
  PROVE  LInv'
<1>1. vars \in Seq(VarRecord) /\ frames \in Seq(FrameRecord)
  BY HeightsAreNumbers
<1>2. Len(frames) \in DOMAIN frames /\ Top = frames[Len(frames)]
  BY <1>1 DEF Top, Last
<1>3. Top.mark \in Nat /\ Top.mark <= Len(vars)
  BY <1>1, <1>2, FramesAreNumbers DEF IInv, Accounted
<1>4. Layered(frames', Shrink(vars, Top.mark), Top.base)
  BY <1>1, <1>2, <1>3, CutLayered DEF LInv
<1>5. QED
  BY <1>4 DEF LInv

(* The steps that open a block.                                            *)
LEMMA OpensLayered ==
  IInv /\ LInv
    /\ (GenScope \/ GenIf \/ GenElseIf \/ GenElse \/ GenWhile \/ GenSwitch \/ GenCase)
    => LInv'
<1> SUFFICES ASSUME IInv, LInv
             PROVE  (GenScope \/ GenIf \/ GenElseIf \/ GenElse \/ GenWhile
                       \/ GenSwitch \/ GenCase) => LInv'
  OBVIOUS
<1>1. frames \in Seq(FrameRecord) /\ stackSize \in Nat
  BY HeightsAreNumbers
<1>2. ASSUME NEW f, f.base = stackSize, frames' = Append(frames, f),
             stackSize' = stackSize, UNCHANGED <<vars, saved>>
      PROVE  LInv'
  <2>1. stackSize' = stackSize + 0
    BY <1>1, <1>2
  <2>2. QED
    BY <1>1, <1>2, <2>1, OpenIsLayered
<1>3. ASSUME GenScope PROVE LInv'
  <2> DEFINE f == Frame("scope", stackSize, Len(vars))
  <2>1. f.base = stackSize
    BY DEF Frame
  <2>2. frames' = Append(frames, f) /\ UNCHANGED <<stackSize, vars, saved>>
    BY <1>3 DEF GenScope, Push
  <2> HIDE DEF f
  <2>3. QED
    BY <1>2, <2>1, <2>2
<1>4. ASSUME GenIf PROVE LInv'
  <2> DEFINE next == IF node.more THEN labelCount ELSE NoLabel
             end == IF node.more THEN labelCount + 1 ELSE labelCount
             f == [Frame("arm", stackSize, Len(vars)) EXCEPT
                     !.next = next, !.end = end, !.more = node.more]
  <2>1. f.base = stackSize
    BY DEF Frame
  <2>2. frames' = Append(frames, f) /\ UNCHANGED <<stackSize, vars, saved>>
    BY <1>4 DEF GenIf, Push
  <2> HIDE DEF f
  <2>3. QED
    BY <1>2, <2>1, <2>2
<1>5. ASSUME GenWhile PROVE LInv'
  <2> DEFINE f == [Frame("jovar", stackSize, Len(vars)) EXCEPT
                     !.head = labelCount, !.next = labelCount,
                     !.end = labelCount + 1]
  <2>1. f.base = stackSize
    BY DEF Frame
  <2>2. frames' = Append(frames, f) /\ UNCHANGED <<stackSize, vars, saved>>
    BY <1>5 DEF GenWhile, Push
  <2> HIDE DEF f
  <2>3. QED
    BY <1>2, <2>1, <2>2
<1>6. ASSUME GenSwitch PROVE LInv'
  <2> DEFINE labels == [j \in 1..Len(node.cases) |-> labelCount + j]
             f == [Frame("paryay", stackSize, Len(vars)) EXCEPT
                     !.slots = 1, !.end = labelCount, !.cases = labels]
  <2>1. f.base = stackSize
    BY DEF Frame
  <2>2. frames' = Append(frames, f) /\ stackSize' = stackSize + 1
        /\ UNCHANGED <<vars, saved>>
    BY <1>6 DEF GenSwitch, Push
  <2> HIDE DEF f
  <2>3. QED
    BY <1>1, <2>1, <2>2, OpenIsLayered
<1>7. ASSUME NEW f, f.base = stackSize, frames # <<>>,
             frames' = Append(Front(frames), f),
             UNCHANGED <<stackSize, vars, saved>>
      PROVE  LInv'
  <2>1. Front(frames) \in Seq(FrameRecord) /\ Bounds(Front(frames)) \subseteq Bounds(frames)
    BY <1>1, <1>7, FrontProperties, BoundsOfPop
  <2>2. stackSize' = stackSize + 0
    BY <1>1, <1>7
  <2>3. QED
    BY <1>7, <2>1, <2>2, OpenIsLayered
<1>8. ASSUME GenElseIf PROVE LInv'
  <2> DEFINE f == [Frame("arm", stackSize, Len(vars)) EXCEPT
                     !.next = labelCount, !.end = Top.end, !.more = node.more]
  <2>1. f.base = stackSize
    BY DEF Frame
  <2>2. frames # <<>> /\ frames' = Append(Front(frames), f)
        /\ UNCHANGED <<stackSize, vars, saved>>
    BY <1>8 DEF GenElseIf
  <2> HIDE DEF f
  <2>3. QED
    BY <1>7, <2>1, <2>2
<1>9. ASSUME GenElse PROVE LInv'
  <2> DEFINE f == [Frame("arm", stackSize, Len(vars)) EXCEPT !.end = Top.end]
  <2>1. f.base = stackSize
    BY DEF Frame
  <2>2. frames # <<>> /\ frames' = Append(Front(frames), f)
        /\ UNCHANGED <<stackSize, vars, saved>>
    BY <1>9 DEF GenElse
  <2> HIDE DEF f
  <2>3. QED
    BY <1>7, <2>1, <2>2
<1>10. ASSUME GenCase PROVE LInv'
  <2> DEFINE n == Len(frames)
             old == frames[n]
             arm == old.arm + 1
             top == [old EXCEPT !.arm = arm]
             gs == [frames EXCEPT ![n] = top]
             f == Frame("case", stackSize, Len(vars))
  <2>1. /\ frames # <<>> /\ frames' = Append([frames EXCEPT ![n].arm = @ + 1], f)
        /\ UNCHANGED <<stackSize, vars, saved>>
    BY <1>10 DEF GenCase
  <2>2. f.base = stackSize
    BY DEF Frame
  <2>3. n \in DOMAIN frames /\ frames[n] \in FrameRecord
    BY <1>1, <2>1
  <2>4. [frames EXCEPT ![n].arm = @ + 1] = gs
    BY <1>1, <2>3, Zenon
  <2>5. arm \in Nat
    BY <2>3 DEF FrameRecord
  <2> HIDE DEF old, arm
  <2>6. top \in FrameRecord /\ top.mark = old.mark /\ top.base = old.base
    BY <2>3, <2>5 DEF FrameRecord, old
  <2> HIDE DEF top, f
  <2>7. gs \in Seq(FrameRecord) /\ DOMAIN gs = DOMAIN frames
        /\ \A i \in DOMAIN gs : gs[i].mark = frames[i].mark /\ gs[i].base = frames[i].base
    BY <1>1, <2>3, <2>6 DEF old
  <2> HIDE DEF gs
  <2>8. Bounds(gs) \subseteq Bounds(frames)
    BY <2>7 DEF Bounds
  <2>9. stackSize' = stackSize + 0
    BY <1>1, <2>1
  <2>10. QED
    BY <2>1, <2>2, <2>4, <2>7, <2>8, <2>9, OpenIsLayered
<1>11. QED
  BY <1>3, <1>4, <1>5, <1>6, <1>8, <1>9, <1>10

(* The steps that close one.                                               *)
LEMMA ClosesLayered ==
  IInv /\ LInv
    /\ (EndGenScope \/ EndLastArm \/ EndArm \/ EndWhile \/ EndCase \/ EndSwitch)
    => LInv'
<1> SUFFICES ASSUME IInv, LInv
             PROVE  (EndGenScope \/ EndLastArm \/ EndArm \/ EndWhile \/ EndCase
                       \/ EndSwitch) => LInv'
  OBVIOUS
<1>1. frames \in Seq(FrameRecord)
  BY HeightsAreNumbers
<1>2. ASSUME EndGenScope \/ EndLastArm \/ EndWhile \/ EndCase PROVE LInv'
  <2>1. /\ frames # <<>> /\ Top.k # "paryay" /\ EndScope(Top)
        /\ frames' = Front(frames) /\ saved' = saved
    BY <1>2 DEF EndGenScope, EndLastArm, EndWhile, EndCase, Closing
  <2>2. stackSize' = Top.base /\ vars' = Shrink(vars, Top.mark)
    BY <2>1, EndScopeRestores
  <2>3. Bounds(frames') \subseteq Bounds(frames)
    BY <1>1, <2>1, BoundsOfPop
  <2>4. QED
    BY <2>1, <2>2, <2>3, CloseIsLayered
<1>3. ASSUME EndArm PROVE LInv'
  <2> DEFINE g == [Top EXCEPT !.k = "chain", !.next = NoLabel]
  <2>1. /\ frames # <<>> /\ Top.k # "paryay" /\ EndScope(Top)
        /\ frames' = Append(Front(frames), g) /\ saved' = saved
    BY <1>3 DEF EndArm, Closing
  <2>2. stackSize' = Top.base /\ vars' = Shrink(vars, Top.mark)
    BY <2>1, EndScopeRestores
  <2>3. Len(frames) \in DOMAIN frames /\ Top = frames[Len(frames)] /\ Top \in FrameRecord
    BY <1>1, <2>1 DEF Top, Last
  <2>4. g.mark = Top.mark /\ g.base = Top.base
    BY <2>3 DEF FrameRecord
  <2>5. <<g.mark, g.base>> \in Bounds(frames)
    BY <2>3, <2>4 DEF Bounds
  <2> HIDE DEF g
  <2>6. Front(frames) \in Seq(FrameRecord) /\ Bounds(Front(frames)) \subseteq Bounds(frames)
    BY <1>1, <2>1, FrontProperties, BoundsOfPop
  <2>7. \A n \in DOMAIN frames' :
          <<frames'[n].mark, frames'[n].base>> \in Bounds(frames)
    BY <2>1, <2>5, <2>6, BoundsOfPush
  <2>8. Bounds(frames') \subseteq Bounds(frames)
    BY <2>7 DEF Bounds
  <2>9. QED
    BY <2>1, <2>2, <2>8, CloseIsLayered
<1>4. ASSUME EndSwitch PROVE LInv'
  <2>1. /\ frames # <<>> /\ Top.k = "paryay" /\ stackSize' = stackSize - 1
        /\ frames' = Front(frames) /\ UNCHANGED <<vars, saved>>
    BY <1>4 DEF EndSwitch, Closing
  <2>2. Shrink(vars, Top.mark) = vars /\ PopCount(vars, Top.mark) = 0
    BY <2>1, PopAccounted DEF IInv, Top
  <2>3. stackSize' = Top.base
    BY <2>1, <2>2, TopIsAccounted
  <2>4. Bounds(frames') \subseteq Bounds(frames)
    BY <1>1, <2>1, BoundsOfPop
  <2>5. QED
    BY <2>1, <2>2, <2>3, <2>4, CloseIsLayered
<1>5. QED
  BY <1>2, <1>3, <1>4

(* A statement that is one node.                                           *)
LEMMA SimpleLayered == IInv /\ LInv /\ GenSimple => LInv'
<1> SUFFICES ASSUME IInv, LInv, GenSimple PROVE LInv'
  OBVIOUS
<1> DEFINE s == node
           site == <<item, pc, Plain>>
<1>1. /\ vars' = VarsAfter(vars, s, stackSize, site)
      /\ stackSize' = stackSize + NewSlots(s)
      /\ frames' = frames /\ saved' = saved
  BY DEF GenSimple
<1>2. s \in Simple /\ site \in Nat \X Nat \X Nat
  <2>1. node \in Node /\ item \in Nat /\ pc \in Nat
    BY NodeIsNode DEF IInv, GenSimple, AtStatement
  <2>2. QED
    BY <2>1 DEF GenSimple, Node, Simple, Jump, Opener, SimpleKinds, Plain
<1>3. /\ vars \in Seq(VarRecord) /\ stackSize \in Nat
      /\ frames \in Seq(FrameRecord) /\ inFunction \in BOOLEAN
  BY HeightsAreNumbers DEF IInv, Shaped
<1>4. \A n \in DOMAIN frames : frames[n].mark \in Nat /\ frames[n].mark <= Len(vars)
  BY <1>3, FramesAreNumbers DEF IInv, Accounted
<1> HIDE DEF s, site
<1>5. Layered(frames, VarsAfter(vars, s, stackSize, site), stackSize + NewSlots(s))
  BY <1>2, <1>3, <1>4, DeclareLayered DEF LInv
<1>6. QED
  BY <1>1, <1>5 DEF LInv

(* The two blocks of a for open around what its header declares.           *)
LEMMA ForLayered == IInv /\ LInv /\ GenFor => LInv'
<1> SUFFICES ASSUME IInv, LInv, GenFor PROVE LInv'
  OBVIOUS
<1> DEFINE s == node.init
           site == <<item, pc, InInit>>
           vs == VarsAfter(vars, s, stackSize, site)
           size == stackSize + NewSlots(s)
           cond == labelCount + NewLabels(s)
           h == Frame("pratyek", stackSize, Len(vars))
           b == [Frame("body", size, Len(vs)) EXCEPT
                   !.head = cond, !.next = cond + 1, !.end = cond + 2]
           fs == Append(frames, h)
<1>1. /\ vars' = vs /\ stackSize' = size
      /\ frames' = frames \o <<h, b>> /\ saved' = saved
  BY DEF GenFor
<1>2. /\ vars \in Seq(VarRecord) /\ stackSize \in Nat /\ Len(vars) \in Nat
      /\ frames \in Seq(FrameRecord) /\ inFunction \in BOOLEAN
      /\ pc \in Nat /\ item \in Nat
  BY HeightsAreNumbers DEF IInv, Shaped, PlaceIsInProgram
<1>3. s \in Simple /\ site \in Nat \X Nat \X Nat
  <2>1. node \in Node
    BY NodeIsNode DEF GenFor, AtStatement, IInv
  <2>2. QED
    BY <1>2, <2>1 DEF GenFor, Node, Simple, Decl, Jump, Opener, InInit
<1>4. h \in FrameRecord /\ h.base = stackSize /\ h.mark = Len(vars)
  <2>1. h \in FrameRecord
    BY <1>2, FrameIsFrame DEF FrameKinds
  <2>2. QED
    BY <2>1 DEF Frame
<1>5. b.base = size
  BY DEF Frame
<1> HIDE DEF s, site, h, b
<1>6. fs \in Seq(FrameRecord) /\ frames' = Append(fs, b)
  BY <1>1, <1>2, <1>4
<1>7. Layered(fs, vars, stackSize + 0)
  BY <1>2, <1>4, BoundsOfPush, GrowLayered DEF LInv
<1>8. \A n \in DOMAIN fs : fs[n].mark \in Nat /\ fs[n].mark <= Len(vars)
  <2>1. \A n \in DOMAIN frames :
          frames[n].mark \in Nat /\ frames[n].mark <= Len(vars)
    BY <1>2, FramesAreNumbers DEF IInv, Accounted
  <2>2. \A n \in DOMAIN fs : fs[n] = h \/ (n \in DOMAIN frames /\ fs[n] = frames[n])
    BY <1>2
  <2>3. QED
    BY <1>2, <1>4, <2>1, <2>2
<1> HIDE DEF fs
<1>9. Layered(fs, vs, size)
  <2>1. Layered(fs, vars, stackSize)
    BY <1>2, <1>7
  <2>2. QED
    BY <1>2, <1>3, <1>8, <2>1, DeclareLayered
<1>10. vs \in Seq(VarRecord) /\ size \in Nat
  BY <1>1, GenForIsGood DEF StepIsGood, IInv, Accounted
<1> HIDE DEF vs, size
<1>11. Layered(Append(fs, b), vs, size + 0)
  <2>1. \A n \in DOMAIN Append(fs, b) :
          <<Append(fs, b)[n].mark, Append(fs, b)[n].base>> \in Bounds(fs)
            \/ Append(fs, b)[n].base = size
    BY <1>5, <1>6, BoundsOfPush
  <2>2. QED
    BY <1>9, <1>10, <2>1, GrowLayered
<1>12. size + 0 = size
  BY <1>10
<1>13. QED
  BY <1>1, <1>6, <1>11, <1>12 DEF LInv

(* They close together, the header's after the body's.                     *)
LEMMA EndForLayered == IInv /\ LInv /\ EndFor => LInv'
<1> SUFFICES ASSUME IInv, LInv, EndFor PROVE LInv'
  OBVIOUS
<1> DEFINE header == frames[Len(frames) - 1]
           inside == Shrink(vars, Top.mark)
           fs == Front(frames)
<1>1. /\ frames # <<>> /\ Len(frames) > 1
      /\ vars' = Shrink(inside, header.mark)
      /\ frames' = Front(fs) /\ saved' = saved
  BY DEF EndFor, Closing
<1>2. frames \in Seq(FrameRecord) /\ vars \in Seq(VarRecord)
  BY HeightsAreNumbers
<1>3. /\ fs \in Seq(FrameRecord) /\ fs # <<>> /\ Len(fs) = Len(frames) - 1
      /\ Len(fs) \in DOMAIN fs /\ fs[Len(fs)] = header
  <2>1. fs \in Seq(FrameRecord) /\ fs # <<>> /\ Len(fs) = Len(frames) - 1
        /\ Last(fs) = header
    BY EndForRestores
  <2>2. QED
    BY <1>1, <1>2, <2>1 DEF Last
<1>4. Accounted(fs, inside, Top.base)
  BY EndForRestores
<1>5. Layered(fs, inside, Top.base)
  <2>1. Len(frames) \in DOMAIN frames /\ Top = frames[Len(frames)]
    BY <1>1, <1>2 DEF Top, Last
  <2>2. Top.mark \in Nat /\ Top.mark <= Len(vars)
    BY <1>2, <2>1, FramesAreNumbers DEF IInv, Accounted
  <2>3. QED
    BY <1>1, <1>2, <2>1, <2>2, BoundsOfPop, CutLayered DEF LInv
<1> HIDE DEF fs, inside, header
<1>6. stackSize' = header.base
  BY EndForRestores DEF header, inside, fs
<1>7. Layered(Front(fs), Shrink(inside, header.mark), header.base)
  <2>1. inside \in Seq(VarRecord) /\ header.mark \in Nat /\ header.mark <= Len(inside)
    BY <1>3, <1>4, FramesAreNumbers DEF Accounted
  <2>2. QED
    BY <1>3, <1>5, <2>1, BoundsOfPop, CutLayered
<1>8. QED
  BY <1>1, <1>6, <1>7 DEF LInv

(* A function's parameters are its first slots; what the entry point has   *)
(* in scope then is all static.                                            *)
LEMMA FuncDeclLayered == IInv /\ LInv /\ (GenFuncDecl \/ EndFuncDecl) => LInv'
<1> SUFFICES ASSUME IInv, LInv PROVE (GenFuncDecl \/ EndFuncDecl) => LInv'
  OBVIOUS
<1>1. vars \in Seq(VarRecord)
  BY HeightsAreNumbers
<1>2. ASSUME GenFuncDecl PROVE LInv'
  <2> DEFINE n == Len(node.params)
             vs == [j \in 1..n |-> ParamEntry(j)]
             f == Frame("karya", 0, 0)
  <2>1. /\ frames = <<>> /\ frames' = Append(<<>>, f) /\ vars' = vs
        /\ stackSize' = n /\ saved' = [vars |-> vars, stackSize |-> stackSize]
    BY <1>2 DEF GenFuncDecl, Push
  <2>2. n \in Nat
    <3>1. node \in Node
      BY <1>2, NodeIsNode DEF GenFuncDecl, IInv
    <3>2. node.params \in Seq(Idents)
      BY <1>2, <3>1 DEF GenFuncDecl, Node, Simple, Decl, Jump, Opener
    <3>3. QED
      BY <3>2
  <2>3. \A j \in DOMAIN vs : vs[j].loc = j - 1 /\ j \in 1..n
    BY DEF ParamEntry
  <2>4. f.mark = 0
    BY DEF Frame
  <2>5. frames'[1] = f /\ DOMAIN frames' = {1}
    BY <2>1
  <2> HIDE DEF n, vs, f
  <2>6. Ordered(vs, n)
    BY <2>2, <2>3 DEF Ordered
  <2>7. Below(f, vs)
    BY <2>2, <2>3, <2>4 DEF Below
  <2>8. Layered(frames', vs, n)
    BY <2>5, <2>6, <2>7 DEF Layered
  <2>9. \A j \in DOMAIN vars : vars[j].static
    <3>1. stackSize = 0
      BY <2>1 DEF IInv, Accounted
    <3>2. \A j \in DOMAIN vars : vars[j].loc \in Nat
      BY <1>1, LocsAreNumbers
    <3>3. QED
      BY <3>1, <3>2 DEF LInv, Layered, Ordered
  <2>10. QED
    BY <2>1, <2>8, <2>9 DEF LInv
<1>3. ASSUME EndFuncDecl PROVE LInv'
  <2>1. /\ vars' = saved.vars /\ saved' = saved
        /\ frames # <<>> /\ frames' = Front(frames) /\ Top.k = "karya"
    BY <1>3 DEF EndFuncDecl, Closing
  <2>2. frames' = <<>>
    <3>1. frames \in Seq(FrameRecord)
      BY HeightsAreNumbers
    <3>2. Len(frames) = 1
      <4>1. Len(frames) \in DOMAIN frames /\ frames[Len(frames)].k = "karya"
        BY <2>1, <3>1 DEF Top, Last
      <4>2. QED
        BY <4>1 DEF IInv, Shaped
    <3>3. Len(Front(frames)) = 0 /\ Front(frames) \in Seq(FrameRecord)
      BY <2>1, <3>1, <3>2, FrontProperties
    <3>4. QED
      BY <2>1, <3>3
  <2>3. QED
    BY <2>1, <2>2 DEF LInv, Layered, Ordered
<1>4. QED
  BY <1>2, <1>3

(* Every step, and every stutter.                                          *)
LEMMA NextIsLayered == IInv /\ LInv /\ [Next]_allVars => LInv'
<1>1. LInv /\ UNCHANGED <<frames, vars, stackSize, saved>> => LInv'
  BY DEF LInv
<1>2. GenBreak \/ GenContinue \/ GenReturn \/ SkipItem \/ EndEntryPoint
        \/ EndGenerate \/ UNCHANGED allVars
        => UNCHANGED <<frames, vars, stackSize, saved>>
  BY DEF GenBreak, GenContinue, JumpOutOf, GenReturn, SkipItem, EndEntryPoint,
         EndGenerate, allVars
<1>3. QED
  BY <1>1, <1>2, SimpleLayered, ForLayered, EndForLayered, FuncDeclLayered,
     OpensLayered, ClosesLayered
  DEF Next, GenBlock, EndBlock

-----------------------------------------------------------------------------
(* Depths and labels.  A jump carries a depth to a label; whether rsp is   *)
(* right there is decided when the label comes, possibly many blocks       *)
(* later.  So each open construct is taken together with its labels and    *)
(* the height it expects at them, and what must hold is that a jump emitted *)
(* so far to such a label carries a depth that fits.                       *)
Height(f) == f.base + f.slots

(* A depth rsp may have where the generator thinks it is h: no less, and   *)
(* no more unless a jump has leaked.                                       *)
Fits(d, h, lk) == d \in Nat /\ d >= h /\ (~lk => d = h)
AllFit(ds, h, lk) == \A d \in ds : Fits(d, h, lk)

Wants(f) == {<<l, Height(f)>> : l \in FrameLabels(f)}
Expect(fs) == UNION {Wants(fs[n]) : n \in DOMAIN fs}

(* Labels are made from the counter, a label has one height, a jump's      *)
(* label is placed or still to come, and a jump fits what is expected.     *)
Routed(W, arr, c, pl, lk) ==
  /\ \A e \in W : e[1] \in Nat /\ e[1] < c /\ e[2] \in Nat
  /\ \A e, g \in W : e[1] = g[1] => e[2] = g[2]
  /\ \A a \in arr : /\ a[1] \in Nat /\ a[1] < c
                    /\ a[1] \in pl \/ \E e \in W : e[1] = a[1]
  /\ \A a \in arr : \A e \in W : e[1] = a[1] => Fits(a[2], e[2], lk)

(* Which labels a construct has, and which of them lie behind.             *)
Labelled(f) ==
  /\ f.k \in {"scope", "pratyek", "case", "karya"} => FrameLabels(f) = {}
  /\ f.k \in {"jovar", "body"} =>
       f.head \in Nat /\ f.next \in Nat /\ f.end \in Nat /\ f.cases = <<>>
  /\ f.k = "jovar" => f.next = f.head
  /\ f.k \in {"arm", "chain"} =>
       f.head = NoLabel /\ f.end \in Nat /\ f.cases = <<>>
  /\ f.k = "chain" => f.next = NoLabel
  /\ f.k = "paryay" => f.head = NoLabel /\ f.next = NoLabel /\ f.end \in Nat

Landed(f, pl) ==
  /\ f.k \in {"jovar", "body"} => f.head \in pl
  /\ f.k = "paryay" =>
       f.arm <= Len(f.cases) /\ \A j \in 1..f.arm : f.cases[j] \in pl

Marked(fs, pl) ==
  \A n \in DOMAIN fs :
    /\ Labelled(fs[n]) /\ Landed(fs[n], pl)
    /\ fs[n].k = "case" => n > 1 /\ fs[n - 1].k = "paryay"

(* A block begins no lower than those around it.                           *)
Rising(bs, size) ==
  \A n \in DOMAIN bs : bs[n] <= size /\ \A m \in 1..n : bs[m] <= bs[n]

MInv ==
  /\ leaked \in BOOLEAN
  /\ Rising(Bases(frames), stackSize)
  /\ Marked(frames, placed)
  /\ AllFit(depths, stackSize, leaked)
  /\ Routed(Expect(frames), arrivals, labelCount, placed, leaked)

(* What the stack of frames expects is what its frames do.                 *)
LEMMA ExpectOfPush ==
  ASSUME NEW fs \in Seq(FrameRecord), NEW f \in FrameRecord
  PROVE  Expect(Append(fs, f)) = Expect(fs) \cup Wants(f)
<1> DEFINE gs == Append(fs, f)
<1>1. /\ \A n \in DOMAIN gs : gs[n] = f \/ (n \in DOMAIN fs /\ gs[n] = fs[n])
      /\ \A n \in DOMAIN fs : n \in DOMAIN gs /\ gs[n] = fs[n]
      /\ Len(fs) + 1 \in DOMAIN gs /\ gs[Len(fs) + 1] = f
  OBVIOUS
<1> HIDE DEF gs
<1>2. Expect(gs) = Expect(fs) \cup Wants(f)
  <2>1. ASSUME NEW e \in Expect(gs) PROVE e \in Expect(fs) \cup Wants(f)
    BY <1>1 DEF Expect
  <2>2. ASSUME NEW e \in Expect(fs) PROVE e \in Expect(gs)
    BY <1>1 DEF Expect
  <2>3. ASSUME NEW e \in Wants(f) PROVE e \in Expect(gs)
    BY <1>1 DEF Expect
  <2>4. QED
    BY <2>1, <2>2, <2>3
<1>3. QED
  BY <1>2 DEF gs

(* The same, seen from the end of a block.                                 *)
LEMMA ExpectOfPop ==
  ASSUME NEW fs \in Seq(FrameRecord), fs # <<>>
  PROVE  /\ Expect(fs) = Expect(Front(fs)) \cup Wants(Last(fs))
         /\ Front(fs) \in Seq(FrameRecord) /\ Last(fs) \in FrameRecord
<1> DEFINE gs == Front(fs)
           f == Last(fs)
<1>1. /\ gs \in Seq(FrameRecord) /\ Len(gs) = Len(fs) - 1
      /\ \A n \in 1..(Len(fs) - 1) : gs[n] = fs[n]
  BY FrontProperties
<1>2. Len(fs) \in DOMAIN fs /\ f = fs[Len(fs)] /\ f \in FrameRecord
  BY DEF Last
<1> HIDE DEF gs, f
<1>3. /\ \A n \in DOMAIN fs : fs[n] = f \/ (n \in DOMAIN gs /\ gs[n] = fs[n])
      /\ \A n \in DOMAIN gs : n \in DOMAIN fs /\ gs[n] = fs[n]
  <2>1. DOMAIN fs = 1..Len(fs) /\ DOMAIN gs = 1..(Len(fs) - 1) /\ Len(fs) \in Nat
    BY <1>1
  <2>2. \A n \in DOMAIN fs : n = Len(fs) \/ n \in 1..(Len(fs) - 1)
    BY <2>1
  <2>3. \A n \in 1..(Len(fs) - 1) : n \in DOMAIN fs
    BY <2>1
  <2>4. QED
    BY <1>1, <1>2, <2>1, <2>2, <2>3, Zenon
<1>4. Expect(fs) = Expect(gs) \cup Wants(f)
  <2>1. ASSUME NEW e \in Expect(fs) PROVE e \in Expect(gs) \cup Wants(f)
    BY <1>3 DEF Expect
  <2>2. ASSUME NEW e \in Expect(gs) PROVE e \in Expect(fs)
    BY <1>3 DEF Expect
  <2>3. ASSUME NEW e \in Wants(f) PROVE e \in Expect(fs)
    BY <1>2 DEF Expect
  <2>4. QED
    BY <2>1, <2>2, <2>3
<1>5. QED
  BY <1>1, <1>2, <1>4 DEF gs, f

(* Frames stay marked while blocks open and close and labels are placed.   *)
LEMMA MarkedPush ==
  ASSUME NEW fs \in Seq(FrameRecord), NEW f, NEW pl, NEW pl2, pl \subseteq pl2,
         Marked(fs, pl), Labelled(f), Landed(f, pl2),
         f.k = "case" => fs # <<>> /\ Last(fs).k = "paryay"
  PROVE  Marked(Append(fs, f), pl2)
<1> DEFINE gs == Append(fs, f)
<1>1. /\ \A n \in DOMAIN gs : n = Len(fs) + 1 \/ n \in DOMAIN fs
      /\ \A n \in DOMAIN fs : gs[n] = fs[n]
      /\ gs[Len(fs) + 1] = f
  OBVIOUS
<1>2. \A n \in DOMAIN fs : n > 1 => n - 1 \in DOMAIN fs
  OBVIOUS
<1>3. fs # <<>> => Len(fs) \in DOMAIN fs /\ Last(fs) = fs[Len(fs)]
  BY DEF Last
<1>4. Len(fs) \in Nat /\ (Len(fs) + 1) - 1 = Len(fs)
  OBVIOUS
<1> HIDE DEF gs
<1>5. ASSUME NEW n \in DOMAIN gs
      PROVE  /\ Labelled(gs[n]) /\ Landed(gs[n], pl2)
             /\ gs[n].k = "case" => n > 1 /\ gs[n - 1].k = "paryay"
  <2>1. CASE n \in DOMAIN fs
    BY <1>1, <1>2, <2>1 DEF Marked, Landed
  <2>2. CASE n = Len(fs) + 1
    <3>1. f.k = "case" => Len(fs) + 1 > 1 /\ gs[Len(fs)].k = "paryay"
      BY <1>1, <1>3, <1>4
    <3>2. QED
      BY <1>1, <1>4, <2>2, <3>1
  <2>3. QED
    BY <1>1, <2>1, <2>2
<1>6. QED
  BY <1>5 DEF Marked, gs

LEMMA MarkedPop ==
  ASSUME NEW fs \in Seq(FrameRecord), fs # <<>>, NEW pl, NEW pl2,
         pl \subseteq pl2, Marked(fs, pl)
  PROVE  /\ Marked(Front(fs), pl2)
         /\ Labelled(Last(fs)) /\ Landed(Last(fs), pl)
<1> DEFINE gs == Front(fs)
<1>1. /\ gs \in Seq(FrameRecord) /\ Len(gs) = Len(fs) - 1
      /\ \A n \in 1..(Len(fs) - 1) : gs[n] = fs[n]
  BY FrontProperties
<1>2. Len(fs) \in DOMAIN fs /\ Last(fs) = fs[Len(fs)]
  BY DEF Last
<1> HIDE DEF gs
<1>3. \A n \in DOMAIN gs :
        /\ n \in DOMAIN fs /\ gs[n] = fs[n]
        /\ n > 1 => gs[n - 1] = fs[n - 1]
  BY <1>1
<1>4. \A n \in DOMAIN fs : Labelled(fs[n]) /\ Landed(fs[n], pl2)
  BY DEF Marked, Landed
<1>5. Marked(gs, pl2)
  BY <1>3, <1>4 DEF Marked
<1>6. QED
  BY <1>2, <1>5 DEF Marked, gs

(* One step of the walk: labels that come are fresh and of one height,     *)
(* those that go are placed, and a new jump fits its label.                *)
Reroutes(W, arr, c, pl, lk, W2, arr2, c2, pl2, lk2, h) ==
  /\ c \in Nat /\ c2 \in Nat /\ c <= c2 /\ pl \subseteq pl2
  /\ lk \in BOOLEAN /\ lk2 \in BOOLEAN /\ (lk => lk2) /\ h \in Nat
  /\ \A e \in W2 : e \in W \/ (e[1] \in c..(c2 - 1) /\ e[2] = h)
  /\ \A e \in W : e \in W2 \/ e[1] \in pl2
  /\ \A a \in arr2 :
       a \in arr \/ \E e \in W \cup W2 : e[1] = a[1] /\ Fits(a[2], e[2], lk2)

LEMMA RoutedStep ==
  ASSUME NEW W, NEW arr, NEW c, NEW pl, NEW lk,
         NEW W2, NEW arr2, NEW c2, NEW pl2, NEW lk2, NEW h,
         Routed(W, arr, c, pl, lk),
         Reroutes(W, arr, c, pl, lk, W2, arr2, c2, pl2, lk2, h)
  PROVE  Routed(W2, arr2, c2, pl2, lk2)
<1>0. /\ c \in Nat /\ c2 \in Nat /\ c <= c2 /\ pl \subseteq pl2
      /\ lk \in BOOLEAN /\ lk2 \in BOOLEAN /\ (lk => lk2) /\ h \in Nat
      /\ \A e \in W2 : e \in W \/ (e[1] \in c..(c2 - 1) /\ e[2] = h)
      /\ \A e \in W : e \in W2 \/ e[1] \in pl2
      /\ \A a \in arr2 :
           a \in arr \/ \E e \in W \cup W2 : e[1] = a[1] /\ Fits(a[2], e[2], lk2)
  BY DEF Reroutes
<1>1. \A e \in W \cup W2 : e[1] \in Nat /\ e[1] < c2 /\ e[2] \in Nat
  BY <1>0 DEF Routed
<1>2. \A e, g \in W \cup W2 : e[1] = g[1] => e[2] = g[2]
  <2>1. \A e \in W : e[1] \in Nat /\ e[1] < c
    BY DEF Routed
  <2>2. \A e, g \in W : e[1] = g[1] => e[2] = g[2]
    BY DEF Routed
  <2>3. \A e \in W \cup W2 : e \in W \/ (e[1] >= c /\ e[2] = h)
    BY <1>0
  <2>4. QED
    BY <1>0, <2>1, <2>2, <2>3
<1>3. ASSUME NEW a \in arr2
      PROVE  /\ a[1] \in Nat /\ a[1] < c2
             /\ a[1] \in pl2 \/ \E e \in W2 : e[1] = a[1]
             /\ \A e \in W2 : e[1] = a[1] => Fits(a[2], e[2], lk2)
  <2>1. CASE a \in arr
    <3>1. /\ a[1] \in Nat /\ a[1] < c
          /\ a[1] \in pl \/ \E e \in W : e[1] = a[1]
          /\ \A e \in W : e[1] = a[1] => Fits(a[2], e[2], lk)
      BY <2>1 DEF Routed
    <3>2. \A e \in W2 : e[1] = a[1] => e \in W
      BY <1>0, <3>1
    <3>3. \A e \in W2 : e[1] = a[1] => Fits(a[2], e[2], lk2)
      BY <1>0, <3>1, <3>2 DEF Fits
    <3>4. QED
      BY <1>0, <3>1, <3>3
  <2>2. CASE \E e \in W \cup W2 : e[1] = a[1] /\ Fits(a[2], e[2], lk2)
    <3>1. PICK g \in W \cup W2 : g[1] = a[1] /\ Fits(a[2], g[2], lk2)
      BY <2>2
    <3>2. \A e \in W2 : e[1] = a[1] => Fits(a[2], e[2], lk2)
      BY <1>2, <3>1
    <3>3. a[1] \in pl2 \/ \E e \in W2 : e[1] = a[1]
      BY <1>0, <3>1
    <3>4. QED
      BY <1>0, <1>1, <3>1, <3>2, <3>3
  <2>3. QED
    BY <1>0, <2>1, <2>2
<1>4. QED
  BY <1>1, <1>2, <1>3 DEF Routed

(* At a label, what falls through and what jumps there fit alike.          *)
LEMMA LabelFits ==
  ASSUME NEW W, NEW arr, NEW c, NEW pl, NEW lk, Routed(W, arr, c, pl, lk),
         NEW l, NEW h, <<l, h>> \in W, NEW ds, AllFit(ds, h, lk),
         NEW arr2, \A a \in arr2 : a \in arr \/ Fits(a[2], h, lk)
  PROVE  AllFit(AtLabel(l, ds, arr2), h, lk)
<1>1. \A a \in arr2 : a[1] = l => Fits(a[2], h, lk)
  BY DEF Routed
<1>2. QED
  BY <1>1 DEF AtLabel, AllFit

(* A push and a pop move every depth alike.                                *)
LEMMA RaiseFits ==
  ASSUME NEW ds, NEW h \in Nat, NEW n \in Nat, NEW lk, AllFit(ds, h, lk)
  PROVE  AllFit(Raise(ds, n), h + n, lk)
BY DEF AllFit, Fits, Raise

LEMMA LowerFits ==
  ASSUME NEW ds, NEW h \in Nat, NEW n \in Nat, NEW lk, AllFit(ds, h + n, lk)
  PROVE  AllFit(Lower(ds, n), h, lk)
BY DEF AllFit, Fits, Lower

(* BlockStack alone makes blocks rise.                                     *)
LEMMA BlocksRise ==
  ASSUME NEW bs \in Seq(Nat), NEW size \in Nat, Rising(bs, size),
         NEW cs, NEW size2 \in Nat,
         \/ cs = bs /\ size2 >= size
         \/ cs = Append(bs, size) /\ size2 >= size
         \/ cs = bs \o <<size, size2>> /\ size2 >= size
         \/ bs # <<>> /\ size2 = Last(bs) /\ (cs = Front(bs) \/ cs = bs)
         \/ Len(bs) > 1 /\ size2 = bs[Len(bs) - 1] /\ cs = Front(Front(bs))
  PROVE  Rising(cs, size2)
<1>1. /\ bs \in Seq(Nat) /\ size \in Nat /\ size2 \in Nat
      /\ \A n \in DOMAIN bs : bs[n] \in Nat /\ bs[n] <= size
      /\ \A n \in DOMAIN bs : \A m \in 1..n : m \in DOMAIN bs /\ bs[m] <= bs[n]
  <2>1. \A n \in DOMAIN bs : bs[n] \in Nat /\ \A m \in 1..n : m \in DOMAIN bs
    OBVIOUS
  <2>2. QED
    BY <2>1 DEF Rising
<1>2. CASE cs = bs /\ size2 >= size
  BY <1>1, <1>2 DEF Rising
<1>3. CASE cs = Append(bs, size) /\ size2 >= size
  <2>1. /\ DOMAIN cs = 1..(Len(bs) + 1) /\ Len(bs) \in Nat
        /\ \A n \in DOMAIN bs : cs[n] = bs[n]
        /\ cs[Len(bs) + 1] = size
        /\ \A n \in DOMAIN cs : n = Len(bs) + 1 \/ n \in DOMAIN bs
    BY <1>1, <1>3
  <2>2. ASSUME NEW n \in DOMAIN cs
        PROVE  cs[n] <= size2 /\ \A m \in 1..n : cs[m] <= cs[n]
    <3>1. CASE n = Len(bs) + 1
      <4>1. \A m \in 1..n : m = n \/ m \in DOMAIN bs
        BY <1>1, <2>1, <3>1
      <4>2. QED
        BY <1>1, <1>3, <2>1, <3>1, <4>1
    <3>2. CASE n \in DOMAIN bs
      BY <1>1, <1>3, <2>1, <3>2
    <3>3. QED
      BY <2>1, <3>1, <3>2
  <2>3. QED
    BY <2>2 DEF Rising
<1>4. CASE cs = bs \o <<size, size2>> /\ size2 >= size
  <2> DEFINE k == Len(bs)
  <2>1. /\ DOMAIN cs = 1..(k + 2) /\ k \in Nat /\ DOMAIN bs = 1..k
        /\ \A n \in DOMAIN bs : cs[n] = bs[n]
        /\ cs[k + 1] = size /\ cs[k + 2] = size2
    BY <1>1, <1>4
  <2>2. size \in Nat /\ size2 \in Nat /\ size <= size2
    BY <1>1, <1>4
  <2> HIDE DEF k
  <2>3. ASSUME NEW n \in DOMAIN cs
        PROVE  cs[n] <= size2 /\ \A m \in 1..n : cs[m] <= cs[n]
    <3>1. \A m \in 1..n : m \in 1..k \/ m = k + 1 \/ m = k + 2
      BY <2>1
    <3>2. \A m \in 1..k : cs[m] \in Nat /\ cs[m] <= size
      BY <1>1, <2>1
    <3>3. CASE n \in 1..k
      BY <1>1, <1>4, <2>1, <3>3
    <3>4. CASE n = k + 1
      <4>1. \A m \in 1..n : m \in 1..k \/ m = k + 1
        BY <2>1, <3>4
      <4>2. cs[n] = size /\ \A m \in 1..k : cs[m] <= size
        BY <2>1, <3>2, <3>4
      <4>3. \A m \in 1..n : cs[m] <= cs[n]
        BY <2>2, <3>4, <4>1, <4>2
      <4>4. QED
        BY <2>2, <4>2, <4>3
    <3>5. CASE n = k + 2
      <4>1. cs[n] = size2
        BY <2>1, <3>5
      <4>2. \A m \in 1..k : cs[m] <= size2
        BY <2>2, <3>2
      <4>3. cs[k + 1] <= size2 /\ cs[k + 2] <= size2
        BY <2>1, <2>2
      <4>4. \A m \in 1..n : cs[m] <= size2
        BY <3>1, <4>2, <4>3, Zenon
      <4>5. QED
        BY <2>2, <4>1, <4>4
    <3>6. QED
      BY <2>1, <3>3, <3>4, <3>5
  <2>4. QED
    BY <2>3 DEF Rising
<1>5. ASSUME NEW k \in 0..Len(bs), Len(cs) = k, cs \in Seq(Nat),
              \A n \in 1..k : cs[n] = bs[n],
              \A n \in 1..k : bs[n] <= size2
       PROVE  Rising(cs, size2)
  <2>1. DOMAIN cs = 1..k /\ \A n \in 1..k : n \in DOMAIN bs /\ \A m \in 1..n : m \in 1..k
    BY <1>1, <1>5
  <2>2. QED
    BY <1>1, <1>5, <2>1 DEF Rising
<1>6. CASE bs # <<>> /\ size2 = Last(bs) /\ (cs = Front(bs) \/ cs = bs)
  <2>1. Len(bs) \in DOMAIN bs /\ size2 = bs[Len(bs)] /\ Len(bs) - 1 \in 0..Len(bs)
        /\ Len(bs) \in 0..Len(bs)
    BY <1>1, <1>6 DEF Last
  <2>2. \A n \in 1..Len(bs) : bs[n] <= size2
    BY <1>1, <2>1
  <2>3. CASE cs = bs
    BY <1>1, <1>5, <2>1, <2>2, <2>3
  <2>4. CASE cs = Front(bs)
    <3>1. /\ cs \in Seq(Nat) /\ Len(cs) = Len(bs) - 1
          /\ \A n \in 1..(Len(bs) - 1) : cs[n] = bs[n]
      BY <1>1, <1>6, <2>4, FrontProperties
    <3>2. \A n \in 1..(Len(bs) - 1) : bs[n] <= size2
      BY <1>1, <2>2
    <3>3. QED
      BY <1>5, <2>1, <3>1, <3>2
  <2>5. QED
    BY <1>6, <2>3, <2>4
<1>7. CASE /\ Len(bs) > 1 /\ size2 = bs[Len(bs) - 1]
            /\ cs = Front(Front(bs))
  <2> DEFINE ds == Front(bs)
             k == Len(bs) - 2
  <2>1. /\ ds \in Seq(Nat) /\ Len(ds) = Len(bs) - 1 /\ ds # <<>>
        /\ \A n \in 1..(Len(bs) - 1) : ds[n] = bs[n]
    BY <1>1, <1>7, FrontProperties
  <2> HIDE DEF ds
  <2>2. /\ Front(ds) \in Seq(Nat) /\ Len(Front(ds)) = Len(ds) - 1
        /\ \A n \in 1..(Len(ds) - 1) : Front(ds)[n] = ds[n]
    BY <2>1, FrontProperties
  <2>3. /\ cs \in Seq(Nat) /\ Len(cs) = Len(ds) - 1
        /\ \A n \in 1..(Len(ds) - 1) : cs[n] = ds[n]
    BY <1>7, <2>2 DEF ds
  <2>4. k \in 0..Len(bs) /\ Len(cs) = k /\ Len(bs) - 1 \in DOMAIN bs
        /\ \A n \in 1..k : n \in 1..(Len(bs) - 1) /\ n \in 1..(Len(ds) - 1)
    <3>1. Len(bs) \in Nat /\ Len(bs) > 1 /\ Len(ds) = Len(bs) - 1
          /\ Len(cs) = Len(ds) - 1 /\ DOMAIN bs = 1..Len(bs)
      BY <1>1, <1>7, <2>1, <2>3
    <3>2. QED
      BY <3>1
  <2>5. \A n \in 1..k : cs[n] = bs[n]
    BY <2>1, <2>3, <2>4
  <2>6. \A n \in 1..k : bs[n] <= size2
    BY <1>1, <1>7, <2>4
  <2>7. QED
    BY <1>5, <2>3, <2>4, <2>5, <2>6
<1>8. QED
  BY <1>1, <1>2, <1>3, <1>4, <1>6, <1>7

(* And the code generator implements it.                                   *)
LEMMA RisingStep ==
  ASSUME IInv, [Next]_allVars, Rising(Bases(frames), stackSize)
  PROVE  Rising(Bases(frames), stackSize)'
<1> DEFINE bs == Bases(frames)
<1>1. IInv' /\ [Blocks!Next]_<<stackSize, bs>>
  BY NextIsGood DEF StepIsGood
<1>2. stackSize \in Nat /\ frames \in Seq(FrameRecord)
  BY HeightsAreNumbers
<1>3. stackSize' \in Nat
  BY <1>1 DEF IInv, Accounted
<1>4. bs \in Seq(Nat)
  <2>1. \A n \in DOMAIN frames : frames[n].base \in Nat
    BY <1>2, FramesAreNumbers
  <2>2. QED
    BY <1>2, <2>1 DEF Bases
<1>5. \/ stackSize' = stackSize + 1 /\ bs' = bs
      \/ bs' = Append(bs, stackSize) /\ stackSize' >= stackSize
      \/ /\ stackSize' \in {stackSize, stackSize + 1}
         /\ bs' = bs \o <<stackSize, stackSize'>>
      \/ bs # <<>> /\ stackSize' = Last(bs) /\ bs' = Front(bs)
      \/ /\ Len(bs) > 1 /\ stackSize' = bs[Len(bs) - 1]
         /\ bs' = Front(Front(bs))
      \/ bs # <<>> /\ stackSize' = Last(bs) /\ bs' = bs
      \/ stackSize' = stackSize /\ bs' = bs
  BY <1>1
  DEF Blocks!Next, Blocks!Reserve, Blocks!Open, Blocks!OpenTwo, Blocks!Close,
      Blocks!CloseTwo, Blocks!Rewind, Blocks!Last, Blocks!Front, Last, Front
<1>6. Rising(bs, stackSize)
  OBVIOUS
<1> HIDE DEF bs
<1>7. \/ bs' = bs /\ stackSize' >= stackSize
      \/ bs' = Append(bs, stackSize) /\ stackSize' >= stackSize
      \/ bs' = bs \o <<stackSize, stackSize'>> /\ stackSize' >= stackSize
      \/ bs # <<>> /\ stackSize' = Last(bs) /\ (bs' = Front(bs) \/ bs' = bs)
      \/ Len(bs) > 1 /\ stackSize' = bs[Len(bs) - 1] /\ bs' = Front(Front(bs))
  BY <1>2, <1>3, <1>5
<1>8. Rising(bs', stackSize')
  BY <1>2, <1>3, <1>4, <1>6, <1>7, BlocksRise
<1>9. QED
  BY <1>8 DEF bs

(* What a step has to show.                                                *)
LEMMA StepIsRouted ==
  ASSUME IInv, [Next]_allVars, MInv,
         NEW h \in Nat,
         labelCount <= labelCount', placed \subseteq placed',
         leaked' \in BOOLEAN, leaked => leaked',
         Marked(frames', placed'), AllFit(depths', stackSize', leaked'),
         \A e \in Expect(frames') :
           e \in Expect(frames)
             \/ (e[1] \in labelCount..(labelCount' - 1) /\ e[2] = h),
         \A e \in Expect(frames) : e \in Expect(frames') \/ e[1] \in placed',
         \A a \in arrivals' :
           a \in arrivals
             \/ \E e \in Expect(frames) \cup Expect(frames') :
                  e[1] = a[1] /\ Fits(a[2], e[2], leaked')
  PROVE  MInv'
<1>1. labelCount \in Nat /\ labelCount' \in Nat
  BY NextIsGood DEF StepIsGood, IInv
<1>2. leaked \in BOOLEAN
        /\ Routed(Expect(frames), arrivals, labelCount, placed, leaked)
        /\ Rising(Bases(frames), stackSize)
  BY DEF MInv
<1>3. Rising(Bases(frames), stackSize)'
  BY <1>2, RisingStep
<1>4. Routed(Expect(frames'), arrivals', labelCount', placed', leaked')
  <2> DEFINE W == Expect(frames)
             W2 == Expect(frames')
             arr2 == arrivals'
             c2 == labelCount'
             pl2 == placed'
             lk2 == leaked'
  <2>1. /\ Routed(W, arrivals, labelCount, placed, leaked)
        /\ leaked \in BOOLEAN /\ lk2 \in BOOLEAN
        /\ labelCount \in Nat /\ c2 \in Nat /\ labelCount <= c2
        /\ placed \subseteq pl2 /\ (leaked => lk2)
    BY <1>1, <1>2
  <2>2. \A e \in W2 : e \in W \/ (e[1] \in labelCount..(c2 - 1) /\ e[2] = h)
    OBVIOUS
  <2>3. \A e \in W : e \in W2 \/ e[1] \in pl2
    OBVIOUS
  <2>4. \A a \in arr2 : a \in arrivals
          \/ \E e \in W \cup W2 : e[1] = a[1] /\ Fits(a[2], e[2], lk2)
    OBVIOUS
  <2> HIDE DEF W, W2, arr2, c2, pl2, lk2
  <2>5. Reroutes(W, arrivals, labelCount, placed, leaked, W2, arr2, c2, pl2, lk2, h)
    BY <2>1, <2>2, <2>3, <2>4 DEF Reroutes
  <2>6. Routed(W2, arr2, c2, pl2, lk2)
    BY <2>1, <2>5, RoutedStep
  <2>7. QED
    BY <2>6 DEF W2, arr2, c2, pl2, lk2
<1>5. QED
  BY <1>3, <1>4 DEF MInv

(* A step that emits no jump and leaves the open constructs their labels.  *)
LEMMA SameExpectations ==
  ASSUME IInv, [Next]_allVars, MInv,
         labelCount <= labelCount', placed \subseteq placed', leaked' = leaked,
         Marked(frames', placed'), AllFit(depths', stackSize', leaked'),
         Expect(frames') = Expect(frames),
         arrivals' = arrivals
  PROVE  MInv'
<1>1. leaked' \in BOOLEAN /\ labelCount \in Nat /\ 0 \in Nat
  BY HeightsAreNumbers DEF MInv
<1>2. leaked => leaked'
  OBVIOUS
<1>3. /\ \A e \in Expect(frames') :
           e \in Expect(frames)
             \/ (e[1] \in labelCount..(labelCount' - 1) /\ e[2] = 0)
      /\ \A e \in Expect(frames) : e \in Expect(frames') \/ e[1] \in placed'
      /\ \A a \in arrivals' :
           a \in arrivals
             \/ \E e \in Expect(frames) \cup Expect(frames') :
                  e[1] = a[1] /\ Fits(a[2], e[2], leaked')
  OBVIOUS
<1>4. QED
  BY <1>1, <1>2, <1>3, StepIsRouted

(* A construct that opens one block: its labels are new.                   *)
LEMMA OpenIsRouted ==
  ASSUME IInv, [Next]_allVars, MInv,
         NEW f \in FrameRecord, frames' = Append(frames, f),
         Labelled(f), Landed(f, placed'), f.k # "case",
         labelCount <= labelCount', placed \subseteq placed', leaked' = leaked,
         \A l \in FrameLabels(f) : l \in labelCount..(labelCount' - 1),
         AllFit(depths', stackSize', leaked),
         \A a \in arrivals' :
           a \in arrivals
             \/ (a[1] \in FrameLabels(f) /\ Fits(a[2], Height(f), leaked))
  PROVE  MInv'
<1>1. frames \in Seq(FrameRecord)
  BY HeightsAreNumbers
<1>2. Expect(frames') = Expect(frames) \cup Wants(f)
  BY <1>1, ExpectOfPush
<1>3. Height(f) \in Nat
  BY DEF FrameRecord, Height
<1>4. Marked(frames', placed')
  BY <1>1, MarkedPush DEF MInv
<1>5. \A e \in Wants(f) :
        e[1] \in labelCount..(labelCount' - 1) /\ e[2] = Height(f)
  BY DEF Wants
<1>6. \A l \in FrameLabels(f) : <<l, Height(f)>> \in Wants(f)
  BY DEF Wants
<1>7. \A a \in arrivals' :
        a \in arrivals
          \/ \E e \in Expect(frames) \cup Expect(frames') :
               e[1] = a[1] /\ Fits(a[2], e[2], leaked')
  <2>1. ASSUME NEW a \in arrivals', a[1] \in FrameLabels(f),
               Fits(a[2], Height(f), leaked)
        PROVE  \E e \in Expect(frames) \cup Expect(frames') :
                 e[1] = a[1] /\ Fits(a[2], e[2], leaked')
    <3>1. <<a[1], Height(f)>> \in Expect(frames')
      BY <1>2, <1>6, <2>1
    <3>2. QED
      BY <2>1, <3>1
  <2>2. QED
    BY <2>1
<1>8. leaked' \in BOOLEAN /\ (leaked => leaked')
  BY DEF MInv
<1>9. QED
  BY <1>2, <1>3, <1>4, <1>5, <1>7, <1>8, StepIsRouted

(* A construct that closes one: its labels are placed.                     *)
LEMMA CloseIsRouted ==
  ASSUME IInv, [Next]_allVars, MInv,
         frames # <<>>, frames' = Front(frames),
         labelCount' = labelCount, placed \subseteq placed', leaked' = leaked,
         FrameLabels(Top) \subseteq placed',
         AllFit(depths', stackSize', leaked),
         \A a \in arrivals' :
           a \in arrivals
             \/ \E e \in Expect(frames) : e[1] = a[1] /\ Fits(a[2], e[2], leaked)
  PROVE  MInv'
<1>1. frames \in Seq(FrameRecord) /\ labelCount \in Nat
  BY HeightsAreNumbers
<1>2. Expect(frames) = Expect(frames') \cup Wants(Top)
  BY <1>1, ExpectOfPop DEF Top
<1>3. Marked(frames', placed')
  BY <1>1, MarkedPop DEF MInv
<1>4. \A e \in Wants(Top) : e[1] \in placed'
  BY DEF Wants
<1>5. leaked' \in BOOLEAN /\ (leaked => leaked')
  BY DEF MInv
<1>6. QED
  BY <1>1, <1>2, <1>3, <1>4, <1>5, StepIsRouted

(* An arm of an if chain and what follows it share the chain's end.        *)
LEMMA SwapIsRouted ==
  ASSUME IInv, [Next]_allVars, MInv,
         NEW f \in FrameRecord, frames # <<>>, frames' = Append(Front(frames), f),
         Labelled(f), Landed(f, placed'), f.k # "case", Height(f) = Height(Top),
         labelCount <= labelCount', placed \subseteq placed', leaked' = leaked,
         \A l \in FrameLabels(f) :
           l \in FrameLabels(Top) \/ l \in labelCount..(labelCount' - 1),
         \A l \in FrameLabels(Top) : l \in FrameLabels(f) \/ l \in placed',
         AllFit(depths', stackSize', leaked),
         \A a \in arrivals' :
           a \in arrivals
             \/ /\ a[1] \in FrameLabels(f) \cup FrameLabels(Top)
                /\ Fits(a[2], Height(f), leaked)
  PROVE  MInv'
<1> DEFINE gs == Front(frames)
<1>1. frames \in Seq(FrameRecord)
  BY HeightsAreNumbers
<1>2. Expect(frames) = Expect(gs) \cup Wants(Top) /\ gs \in Seq(FrameRecord)
  BY <1>1, ExpectOfPop DEF Top
<1>3. Marked(gs, placed)
  BY <1>1, MarkedPop DEF MInv
<1> HIDE DEF gs
<1>4. Expect(frames') = Expect(gs) \cup Wants(f)
  BY <1>2, ExpectOfPush DEF gs
<1>5. Marked(frames', placed')
  BY <1>2, <1>3, MarkedPush DEF gs
<1>6. Height(f) \in Nat
  BY DEF FrameRecord, Height
<1>7. /\ \A l \in FrameLabels(f) : <<l, Height(f)>> \in Wants(f)
      /\ \A l \in FrameLabels(Top) : <<l, Height(f)>> \in Wants(Top)
  BY DEF Wants
<1>8. \A e \in Wants(f) :
        e \in Wants(Top)
          \/ (e[1] \in labelCount..(labelCount' - 1) /\ e[2] = Height(f))
  BY DEF Wants
<1>9. \A e \in Wants(Top) : e \in Wants(f) \/ e[1] \in placed'
  BY DEF Wants
<1>10. ASSUME NEW a \in arrivals', a \notin arrivals
       PROVE  \E e \in Expect(frames) \cup Expect(frames') :
                e[1] = a[1] /\ Fits(a[2], e[2], leaked')
  <2>1. <<a[1], Height(f)>> \in Expect(frames) \cup Expect(frames')
    BY <1>2, <1>4, <1>7, <1>10
  <2>2. Fits(a[2], Height(f), leaked')
    BY <1>10
  <2>3. QED
    BY <2>1, <2>2
<1>11. leaked' \in BOOLEAN /\ (leaked => leaked')
  BY DEF MInv
<1>12. QED
  BY <1>2, <1>4, <1>5, <1>6, <1>8, <1>9, <1>10, <1>11, StepIsRouted

(* Where a construct begins, rsp fits the height its frame expects.        *)
LEMMA FreshFrame ==
  ASSUME IInv, MInv
  PROVE  /\ \A k \in FrameKinds :
              /\ Frame(k, stackSize, Len(vars)) \in FrameRecord
              /\ FrameLabels(Frame(k, stackSize, Len(vars))) = {}
         /\ labelCount \in Nat /\ stackSize \in Nat /\ labelCount # NoLabel
         /\ AllFit(depths, stackSize, leaked)
         /\ \A l : \A a \in Jumps(l) : a[1] = l /\ Fits(a[2], stackSize, leaked)
<1>1. /\ stackSize \in Nat /\ Len(vars) \in Nat /\ labelCount \in Nat /\ pc \in Nat
  BY HeightsAreNumbers DEF IInv, PlaceIsInProgram
<1>2. \A k \in FrameKinds : Frame(k, stackSize, Len(vars)) \in FrameRecord
  BY <1>1, FrameIsFrame
<1>3. \A k \in FrameKinds : FrameLabels(Frame(k, stackSize, Len(vars))) = {}
  BY DEF Frame, FrameLabels
<1>4. AllFit(depths, stackSize, leaked)
  BY DEF MInv
<1>5. \A l : \A a \in Jumps(l) : a[1] = l /\ Fits(a[2], stackSize, leaked)
  BY <1>4 DEF Jumps, AllFit
<1>6. QED
  BY <1>1, <1>2, <1>3, <1>4, <1>5 DEF NoLabel

(* A block, a jar and a jovar.                                             *)
LEMMA ScopeRouted == IInv /\ MInv /\ GenScope => MInv'
<1> SUFFICES ASSUME IInv, MInv, GenScope PROVE MInv'
  OBVIOUS
<1> DEFINE f == Frame("scope", stackSize, Len(vars))
<1>1. /\ frames' = Append(frames, f)
      /\ UNCHANGED <<stackSize, labelCount, depths, arrivals, placed, leaked>>
  BY DEF GenScope, Push, machine
<1>2. f \in FrameRecord /\ FrameLabels(f) = {} /\ labelCount \in Nat
      /\ AllFit(depths, stackSize, leaked)
  BY FreshFrame DEF FrameKinds
<1>3. Labelled(f) /\ Landed(f, placed') /\ f.k # "case"
  BY <1>2 DEF Labelled, Landed, Frame
<1> HIDE DEF f
<1>4. [Next]_allVars
  BY DEF Next, GenBlock
<1>5. QED
  BY <1>1, <1>2, <1>3, <1>4, OpenIsRouted

LEMMA IfRouted == IInv /\ MInv /\ GenIf => MInv'
<1> SUFFICES ASSUME IInv, MInv, GenIf PROVE MInv'
  OBVIOUS
<1> DEFINE f0 == Frame("arm", stackSize, Len(vars))
           more == node.more
           next == IF more THEN labelCount ELSE NoLabel
           end == IF more THEN labelCount + 1 ELSE labelCount
           f == [f0 EXCEPT !.next = next, !.end = end, !.more = more]
<1>1. /\ frames' = Append(frames, f) /\ labelCount' = end + 1
      /\ arrivals' = arrivals \cup Jumps(labelCount)
      /\ UNCHANGED <<stackSize, depths, placed, leaked>>
  BY DEF GenIf, Push
<1>2. f0 \in FrameRecord /\ labelCount \in Nat /\ stackSize \in Nat
      /\ AllFit(depths, stackSize, leaked)
      /\ \A a \in Jumps(labelCount) :
           a[1] = labelCount /\ Fits(a[2], stackSize, leaked)
  BY FreshFrame DEF FrameKinds
<1>3. f0.k = "arm" /\ f0.base = stackSize /\ f0.slots = 0 /\ f0.head = NoLabel
      /\ f0.cases = <<>>
  BY DEF Frame
<1>4. more \in BOOLEAN
  <2>1. node \in Node
    BY NodeIsNode DEF IInv, GenIf, AtStatement
  <2>2. QED
    BY <2>1 DEF GenIf, Node, Simple, Decl, Jump, Opener
<1>5. /\ end \in Nat /\ end \in labelCount..(labelCount' - 1)
      /\ next \in {labelCount, NoLabel} /\ labelCount <= labelCount'
      /\ next = labelCount \/ end = labelCount
      /\ labelCount \in labelCount..(labelCount' - 1) /\ labelCount # NoLabel
  BY <1>1, <1>2, <1>4 DEF NoLabel
<1> HIDE DEF f0, more, next, end
<1>6. /\ f \in FrameRecord /\ f.k = "arm" /\ f.base = stackSize /\ f.slots = 0
      /\ f.head = NoLabel /\ f.cases = <<>> /\ f.next = next /\ f.end = end
  BY <1>2, <1>3, <1>4, <1>5 DEF FrameRecord
<1> HIDE DEF f
<1>7. FrameLabels(f) = {next, end} \ {NoLabel} /\ Height(f) = stackSize
  BY <1>2, <1>6 DEF FrameLabels, Height
<1>8. Labelled(f) /\ Landed(f, placed') /\ f.k # "case"
  BY <1>5, <1>6 DEF Labelled, Landed
<1>9. /\ \A l \in FrameLabels(f) : l \in labelCount..(labelCount' - 1)
      /\ labelCount \in FrameLabels(f)
  BY <1>5, <1>7
<1>10. [Next]_allVars
  BY DEF Next, GenBlock
<1>11. QED
  BY <1>1, <1>2, <1>5, <1>6, <1>7, <1>8, <1>9, <1>10, OpenIsRouted

LEMMA WhileRouted == IInv /\ MInv /\ GenWhile => MInv'
<1> SUFFICES ASSUME IInv, MInv, GenWhile PROVE MInv'
  OBVIOUS
<1> DEFINE f0 == Frame("jovar", stackSize, Len(vars))
           end == labelCount + 1
           f == [f0 EXCEPT !.head = labelCount, !.next = labelCount, !.end = end]
<1>1. /\ frames' = Append(frames, f) /\ labelCount' = labelCount + 2
      /\ arrivals' = arrivals \cup Jumps(end)
      /\ placed' = placed \cup {labelCount}
      /\ UNCHANGED <<stackSize, depths, leaked>>
  BY DEF GenWhile, Push
<1>2. f0 \in FrameRecord /\ labelCount \in Nat /\ stackSize \in Nat
      /\ AllFit(depths, stackSize, leaked)
      /\ \A a \in Jumps(end) : a[1] = end /\ Fits(a[2], stackSize, leaked)
  BY FreshFrame DEF FrameKinds
<1>3. f0.k = "jovar" /\ f0.base = stackSize /\ f0.slots = 0 /\ f0.cases = <<>>
  BY DEF Frame
<1>4. /\ end \in Nat /\ end \in labelCount..(labelCount' - 1)
      /\ labelCount \in labelCount..(labelCount' - 1) /\ labelCount <= labelCount'
      /\ end # NoLabel
  BY <1>1, <1>2 DEF NoLabel
<1> HIDE DEF f0, end
<1>5. /\ f \in FrameRecord /\ f.k = "jovar" /\ f.base = stackSize /\ f.slots = 0
      /\ f.head = labelCount /\ f.next = labelCount /\ f.end = end
      /\ f.cases = <<>>
  BY <1>2, <1>3, <1>4 DEF FrameRecord
<1> HIDE DEF f
<1>6. FrameLabels(f) = {labelCount, end} \ {NoLabel} /\ Height(f) = stackSize
  BY <1>2, <1>5 DEF FrameLabels, Height
<1>7. Labelled(f) /\ Landed(f, placed') /\ f.k # "case"
  BY <1>1, <1>2, <1>4, <1>5 DEF Labelled, Landed
<1>8. /\ \A l \in FrameLabels(f) : l \in labelCount..(labelCount' - 1)
      /\ end \in FrameLabels(f)
  BY <1>4, <1>6
<1>9. [Next]_allVars
  BY DEF Next, GenBlock
<1>10. /\ AllFit(depths', stackSize', leaked) /\ placed \subseteq placed'
       /\ \A a \in arrivals' :
            a \in arrivals
              \/ (a[1] \in FrameLabels(f) /\ Fits(a[2], Height(f), leaked))
  BY <1>1, <1>2, <1>6, <1>8
<1>11. QED
  BY <1>1, <1>4, <1>5, <1>7, <1>8, <1>9, <1>10, OpenIsRouted

(* A switch: the comparisons jump to its arms one slot up.                 *)
LEMMA SwitchRouted == IInv /\ MInv /\ GenSwitch => MInv'
<1> SUFFICES ASSUME IInv, MInv, GenSwitch PROVE MInv'
  OBVIOUS
<1> DEFINE n == Len(node.cases)
           labels == [j \in 1..n |-> labelCount + j]
           defaults == {j \in 1..n : node.cases[j] = NoExpr}
           other == IF defaults = {} THEN labelCount ELSE labels[Max(defaults)]
           f0 == Frame("paryay", stackSize, Len(vars))
           f == [f0 EXCEPT !.slots = 1, !.end = labelCount, !.cases = labels]
           jumps == ({labels[j] : j \in (1..n) \ defaults} \cup {other})
                      \X Raise(depths, 1)
<1>1. /\ frames' = Append(frames, f) /\ labelCount' = labelCount + 1 + n
      /\ stackSize' = stackSize + 1 /\ depths' = {}
      /\ arrivals' = arrivals \cup jumps
      /\ UNCHANGED <<placed, leaked>>
  BY DEF GenSwitch, Push
<1>2. f0 \in FrameRecord /\ labelCount \in Nat /\ stackSize \in Nat
      /\ AllFit(depths, stackSize, leaked)
  BY FreshFrame DEF FrameKinds
<1>3. f0.k = "paryay" /\ f0.base = stackSize /\ f0.head = NoLabel
      /\ f0.next = NoLabel /\ f0.arm = 0
  BY DEF Frame
<1>4. n \in Nat
  <2>1. node \in Node
    BY NodeIsNode DEF IInv, GenSwitch, AtStatement
  <2>2. node.cases \in Seq(SUBSET Expr)
    BY <2>1 DEF GenSwitch, Node, Simple, Decl, Jump, Opener
  <2>3. QED
    BY <2>2
<1>5. other \in {labelCount} \cup {labels[j] : j \in 1..n}
  <2>1. defaults # {} => Max(defaults) \in 1..n
    <3>1. defaults \in SUBSET (1..n)
      OBVIOUS
    <3> HIDE DEF defaults, n
    <3>2. QED
      BY <1>4, <3>1, MaxOfPositions
  <2> HIDE DEF defaults, labels, n
  <2>2. QED
    BY <2>1
<1>6. AllFit(Raise(depths, 1), stackSize + 1, leaked)
  BY <1>2, RaiseFits
<1>7. \A a \in jumps :
        /\ a[1] \in {labelCount} \cup {labels[j] : j \in 1..n}
        /\ Fits(a[2], stackSize + 1, leaked)
  <2> HIDE DEF other, labels, defaults, n
  <2>1. QED
    BY <1>5, <1>6 DEF AllFit
<1> HIDE DEF f0, jumps, other, defaults, n
<1>8. /\ labels \in Seq(Nat) /\ Len(labels) = n /\ DOMAIN labels = 1..n
      /\ \A j \in 1..n : labels[j] = labelCount + j
  BY <1>2, <1>4
<1> HIDE DEF labels
<1>9. /\ f \in FrameRecord /\ f.k = "paryay" /\ f.base = stackSize /\ f.slots = 1
      /\ f.head = NoLabel /\ f.next = NoLabel /\ f.end = labelCount
      /\ f.cases = labels /\ f.arm = 0
  BY <1>2, <1>3, <1>8 DEF FrameRecord
<1> HIDE DEF f
<1>10. /\ FrameLabels(f) = {labelCount} \cup {labels[j] : j \in 1..n}
       /\ Height(f) = stackSize + 1
  <2>1. ({f.head, f.next, f.end} \ {NoLabel}) = {labelCount}
    BY <1>2, <1>9 DEF NoLabel
  <2>2. {f.cases[j] : j \in DOMAIN f.cases} = {labels[j] : j \in 1..n}
    BY <1>8, <1>9
  <2>3. Height(f) = stackSize + 1
    BY <1>9 DEF Height
  <2>4. QED
    BY <2>1, <2>2, <2>3 DEF FrameLabels
<1>11. Labelled(f) /\ Landed(f, placed') /\ f.k # "case"
  BY <1>2, <1>4, <1>8, <1>9 DEF Labelled, Landed
<1>12. /\ \A l \in FrameLabels(f) : l \in labelCount..(labelCount' - 1)
       /\ labelCount <= labelCount'
  <2>1. \A j \in 1..n : labelCount + j \in labelCount..(labelCount + n)
    BY <1>2, <1>4
  <2>2. /\ labelCount \in labelCount..(labelCount + n)
        /\ labelCount' - 1 = labelCount + n /\ labelCount <= labelCount'
    BY <1>1, <1>2, <1>4
  <2>3. QED
    BY <1>8, <1>10, <2>1, <2>2
<1>13. AllFit(depths', stackSize', leaked)
  BY <1>1 DEF AllFit
<1>14. [Next]_allVars
  BY DEF Next, GenBlock
<1>15. QED
  BY <1>1, <1>7, <1>9, <1>10, <1>11, <1>12, <1>13, <1>14, OpenIsRouted

(* The frame of a switch, between its arms: only the scrutinee is above    *)
(* its base.                                                               *)
LEMMA SwitchIsBare ==
  ASSUME IInv, frames # <<>>, Top.k = "paryay"
  PROVE  stackSize = Height(Top) /\ Height(Top) = Top.base + 1
<1>1. PopCount(vars, Top.mark) = 0
  BY PopAccounted DEF IInv, Top
<1>2. QED
  BY <1>1, TopIsAccounted DEF Height

(* The next arm of a switch begins at its label.                           *)
LEMMA CaseRouted == IInv /\ MInv /\ GenCase => MInv'
<1> SUFFICES ASSUME IInv, MInv, GenCase PROVE MInv'
  OBVIOUS
<1> DEFINE n == Len(frames)
           old == frames[n]
           arm == old.arm + 1
           top == [old EXCEPT !.arm = arm]
           gs == [frames EXCEPT ![n] = top]
           f == Frame("case", stackSize, Len(vars))
           label == Top.cases[Top.arm + 1]
<1>1. /\ frames # <<>> /\ Top.k = "paryay" /\ Top.arm < Len(Top.cases)
      /\ frames' = Append([frames EXCEPT ![n].arm = @ + 1], f)
      /\ depths' = AtLabel(label, depths, arrivals)
      /\ placed' = placed \cup {label}
      /\ UNCHANGED <<stackSize, labelCount, arrivals, leaked>>
  BY DEF GenCase
<1>2. frames \in Seq(FrameRecord) /\ n \in DOMAIN frames /\ old \in FrameRecord
      /\ Top = old /\ labelCount \in Nat
  BY <1>1, HeightsAreNumbers DEF Top, Last
<1>3. [frames EXCEPT ![n].arm = @ + 1] = gs
  BY <1>2, Zenon
<1>4. arm \in Nat /\ old.cases \in Seq(Nat) /\ arm \in 1..Len(old.cases)
      /\ old.k = "paryay" /\ label = old.cases[arm] /\ Top.arm = old.arm
      /\ arm = old.arm + 1 /\ old.arm \in Nat
  <2>1. old.arm \in Nat /\ old.cases \in Seq(Nat)
    <3> HIDE DEF old
    <3>1. QED
      BY <1>2 DEF FrameRecord
  <2>2. Top.k = "paryay" /\ Top.arm < Len(Top.cases) /\ Top = old
    BY <1>1, <1>2
  <2> DEFINE a0 == old.arm
             cs == old.cases
  <2>3. a0 \in Nat /\ cs \in Seq(Nat) /\ a0 < Len(cs)
    BY <2>1, <2>2
  <2> HIDE DEF a0, cs
  <2>4. a0 + 1 \in Nat /\ a0 + 1 \in 1..Len(cs)
    BY <2>3
  <2>5. arm = a0 + 1 /\ old.cases = cs /\ old.arm = a0
    BY DEF a0, cs
  <2>6. label = old.cases[arm]
    BY <2>2
  <2>7. QED
    BY <2>1, <2>2, <2>3, <2>4, <2>5, <2>6
<1>5. f \in FrameRecord /\ FrameLabels(f) = {} /\ f.k = "case"
      /\ AllFit(depths, stackSize, leaked)
  BY FreshFrame DEF FrameKinds, Frame
<1> HIDE DEF arm, f
<1>6. /\ top \in FrameRecord /\ top.k = old.k /\ top.mark = old.mark
      /\ top.base = old.base /\ top.slots = old.slots /\ top.head = old.head
      /\ top.next = old.next /\ top.end = old.end /\ top.cases = old.cases
      /\ top.arm = arm
  BY <1>2, <1>4 DEF FrameRecord
<1> HIDE DEF top
<1>7. /\ gs \in Seq(FrameRecord) /\ DOMAIN gs = DOMAIN frames
      /\ \A i \in DOMAIN frames : gs[i] = (IF i = n THEN top ELSE frames[i])
      /\ Len(gs) = n
  BY <1>2, <1>6
<1> HIDE DEF gs
<1>8. \A i \in DOMAIN frames : Wants(gs[i]) = Wants(frames[i])
  <2>1. Wants(top) = Wants(old)
    BY <1>6 DEF Wants, FrameLabels, Height
  <2>2. QED
    BY <1>7, <2>1
<1>9. Expect(frames') = Expect(frames)
  <2>1. Expect(gs) = Expect(frames)
    BY <1>7, <1>8 DEF Expect
  <2>2. Wants(f) = {}
    BY <1>5 DEF Wants
  <2>3. Expect(Append(gs, f)) = Expect(gs) \cup Wants(f)
    BY <1>5, <1>7, ExpectOfPush
  <2>4. frames' = Append(gs, f)
    BY <1>1, <1>3
  <2>5. QED
    BY <2>1, <2>2, <2>3, <2>4
<1>10. Marked(gs, placed')
  <2>1. \A i \in DOMAIN frames :
          /\ Labelled(frames[i]) /\ Landed(frames[i], placed)
          /\ frames[i].k = "case" => i > 1 /\ frames[i - 1].k = "paryay"
    BY DEF MInv, Marked
  <2>2. Labelled(top)
    <3>1. Labelled(old)
      BY <1>2, <2>1
    <3>2. FrameLabels(top) = FrameLabels(old)
      BY <1>6 DEF FrameLabels
    <3>3. QED
      BY <1>6, <3>1, <3>2, Zenon DEF Labelled
  <2>3. Landed(top, placed')
    <3>1. \A j \in 1..old.arm : old.cases[j] \in placed
      BY <1>2, <1>4, <2>1 DEF Landed
    <3>2. \A j \in 1..arm : j \in 1..old.arm \/ j = arm
      BY <1>4
    <3>3. old.cases[arm] \in placed'
      BY <1>1, <1>4
    <3>4. \A j \in 1..arm : old.cases[j] \in placed'
      <4>1. placed \subseteq placed'
        BY <1>1
      <4>2. QED
        BY <3>1, <3>2, <3>3, <4>1, Zenon
    <3>5. arm <= Len(old.cases) /\ top.k = "paryay"
      BY <1>4, <1>6
    <3>6. QED
      BY <1>6, <3>4, <3>5 DEF Landed
  <2>4. \A i \in DOMAIN frames : Labelled(gs[i]) /\ Landed(gs[i], placed')
    BY <1>1, <1>7, <2>1, <2>2, <2>3 DEF Landed
  <2>5. \A i \in DOMAIN frames : gs[i].k = frames[i].k
    BY <1>6, <1>7
  <2>6. \A i \in DOMAIN frames : i > 1 => i - 1 \in DOMAIN frames
    BY <1>2
  <2>7. QED
    BY <1>7, <2>1, <2>4, <2>5, <2>6 DEF Marked
<1>11. Marked(frames', placed')
  <2>1. gs # <<>> /\ Last(gs).k = "paryay"
    <3>1. gs[n] = top /\ Last(gs) = gs[n]
      BY <1>2, <1>7 DEF Last
    <3>2. QED
      BY <1>2, <1>4, <1>6, <1>7, <3>1
  <2>2. Labelled(f) /\ Landed(f, placed')
    BY <1>5 DEF Labelled, Landed
  <2>3. QED
    BY <1>1, <1>3, <1>7, <1>10, <2>1, <2>2, MarkedPush
<1>12. AllFit(depths', stackSize', leaked')
  <2>1. stackSize = Height(Top)
    BY <1>1, SwitchIsBare
  <2>2. label \in FrameLabels(Top)
    BY <1>2, <1>4 DEF FrameLabels
  <2>3. <<label, Height(Top)>> \in Expect(frames)
    BY <1>2, <2>2 DEF Expect, Wants
  <2> HIDE DEF label
  <2>4. AllFit(AtLabel(label, depths, arrivals), Height(Top), leaked)
    BY <1>5, <2>1, <2>3, LabelFits DEF MInv
  <2>5. QED
    BY <1>1, <2>1, <2>4
<1>13. [Next]_allVars
  BY DEF Next, GenBlock
<1>14. leaked' \in BOOLEAN /\ leaked' = leaked /\ labelCount <= labelCount'
       /\ placed \subseteq placed' /\ arrivals' = arrivals
  BY <1>1, <1>2 DEF MInv
<1>15. QED
  BY <1>2, <1>9, <1>11, <1>12, <1>13, <1>14, SameExpectations

(* Statements that are one node: a declaration pushes one slot or none.    *)
LEMMA SimpleRouted == IInv /\ MInv /\ GenSimple => MInv'
<1> SUFFICES ASSUME IInv, MInv, GenSimple PROVE MInv'
  OBVIOUS
<1> DEFINE more == NewSlots(node)
           labels == NewLabels(node)
<1>1. /\ stackSize' = stackSize + more /\ labelCount' = labelCount + labels
      /\ depths' = {} \/ depths' = Raise(depths, more)
      /\ UNCHANGED <<frames, arrivals, placed, leaked>>
  BY DEF GenSimple
<1>2. stackSize \in Nat /\ labelCount \in Nat /\ AllFit(depths, stackSize, leaked)
  BY HeightsAreNumbers DEF MInv
<1>3. more \in Nat /\ labels \in Nat
  BY DEF NewSlots, NewLabels
<1> HIDE DEF more, labels
<1>4. AllFit(depths', stackSize', leaked')
  <2>1. AllFit(Raise(depths, more), stackSize + more, leaked)
    BY <1>2, <1>3, RaiseFits
  <2>2. AllFit({}, stackSize + more, leaked)
    BY DEF AllFit
  <2>3. QED
    BY <1>1, <2>1, <2>2
<1>5. labelCount <= labelCount'
  BY <1>1, <1>2, <1>3
<1>6. Marked(frames', placed') /\ Expect(frames') = Expect(frames)
  BY <1>1 DEF MInv
<1>7. [Next]_allVars
  BY DEF Next
<1>8. QED
  BY <1>1, <1>4, <1>5, <1>6, <1>7, SameExpectations

(* What leaves the frames alone and emits no jump: a return, and the two   *)
(* passes.                                                                 *)
LEMMA PassRouted ==
  IInv /\ MInv /\ (GenReturn \/ SkipItem \/ EndEntryPoint \/ EndGenerate) => MInv'
<1> SUFFICES ASSUME IInv, MInv,
                    GenReturn \/ SkipItem \/ EndEntryPoint \/ EndGenerate
             PROVE  MInv'
  OBVIOUS
<1>1. /\ depths' = {} \/ depths' = depths
      /\ UNCHANGED <<stackSize, labelCount, frames, arrivals, placed, leaked>>
  BY DEF GenReturn, SkipItem, EndEntryPoint, EndGenerate, machine
<1>2. labelCount \in Nat /\ AllFit(depths, stackSize, leaked)
  BY HeightsAreNumbers DEF MInv
<1>3. AllFit(depths', stackSize', leaked')
  BY <1>1, <1>2 DEF AllFit
<1>4. Marked(frames', placed') /\ Expect(frames') = Expect(frames)
  BY <1>1 DEF MInv
<1>5. [Next]_allVars
  BY DEF Next
<1>6. labelCount <= labelCount'
  BY <1>1, <1>2
<1>7. QED
  BY <1>1, <1>3, <1>4, <1>5, <1>6, SameExpectations

(* A function starts on a stack of its own.                                *)
LEMMA FuncDeclRouted == IInv /\ MInv /\ GenFuncDecl => MInv'
<1> SUFFICES ASSUME IInv, MInv, GenFuncDecl PROVE MInv'
  OBVIOUS
<1> DEFINE n == Len(node.params)
           f == Frame("karya", 0, 0)
<1>1. /\ frames' = Append(frames, f) /\ stackSize' = n /\ depths' = {n}
      /\ UNCHANGED <<labelCount, arrivals, placed, leaked>>
  BY DEF GenFuncDecl, Push
<1>2. n \in Nat
  <2>1. node \in Node
    BY NodeIsNode DEF IInv, GenFuncDecl
  <2>2. node.params \in Seq(Idents)
    BY <2>1 DEF GenFuncDecl, Node, Simple, Decl, Jump, Opener
  <2>3. QED
    BY <2>2
<1>3. f \in FrameRecord /\ labelCount \in Nat
  <2>1. pc \in Nat /\ "karya" \in FrameKinds
    BY DEF IInv, PlaceIsInProgram, FrameKinds
  <2>2. QED
    BY <2>1, FrameIsFrame, HeightsAreNumbers
<1>4. FrameLabels(f) = {}
  BY DEF Frame, FrameLabels
<1>5. Labelled(f) /\ Landed(f, placed') /\ f.k # "case"
  BY <1>4 DEF Labelled, Landed, Frame
<1> HIDE DEF n, f
<1>6. AllFit(depths', stackSize', leaked)
  BY <1>1, <1>2 DEF AllFit, Fits
<1>7. [Next]_allVars
  BY DEF Next, GenBlock
<1>8. labelCount <= labelCount'
  BY <1>1, <1>3
<1>9. QED
  BY <1>1, <1>3, <1>4, <1>5, <1>6, <1>7, <1>8, OpenIsRouted

(* thamba and pudhe jump from no lower than the loop began.                *)
LEMMA JumpRouted == IInv /\ MInv /\ (GenBreak \/ GenContinue) => MInv'
<1> SUFFICES ASSUME IInv, MInv, GenBreak \/ GenContinue PROVE MInv'
  OBVIOUS
<1> DEFINE i == Max(Loops)
           loop == frames[i]
<1>1. /\ Loops # {}
      /\ \E l \in {loop.end, loop.next} : arrivals' = arrivals \cup Jumps(l)
      /\ leaked' = (leaked \/ stackSize # loop.base)
      /\ depths' = {}
      /\ UNCHANGED <<stackSize, frames, labelCount, placed>>
  BY DEF GenBreak, GenContinue, JumpOutOf
<1>2. /\ frames \in Seq(FrameRecord) /\ stackSize \in Nat /\ labelCount \in Nat
      /\ leaked \in BOOLEAN /\ AllFit(depths, stackSize, leaked)
  BY HeightsAreNumbers DEF MInv
<1>3. i \in DOMAIN frames /\ loop.k \in {"jovar", "body"}
  <2>1. Loops \in SUBSET (1..Len(frames)) /\ Len(frames) \in Nat
    BY <1>2 DEF Loops
  <2>2. Max(Loops) \in Loops
    BY <1>1, <2>1, MaxOfPositions
  <2>3. QED
    BY <2>2 DEF Loops
<1> HIDE DEF i
<1>4. /\ loop \in FrameRecord /\ loop.base \in Nat /\ Height(loop) = loop.base
  <2>1. loop \in FrameRecord /\ loop.base \in Nat
    BY <1>2, <1>3, FramesAreNumbers
  <2>2. loop.slots = 0
    BY <1>3 DEF IInv, Accounted
  <2>3. QED
    BY <2>1, <2>2 DEF Height
<1>5. loop.base <= stackSize
  BY <1>3 DEF MInv, Rising, Bases
<1>6. loop.end \in FrameLabels(loop) /\ loop.next \in FrameLabels(loop)
  <2>1. Labelled(loop)
    BY <1>3 DEF MInv, Marked
  <2>2. loop.end \in Nat /\ loop.next \in Nat
    BY <1>3, <2>1 DEF Labelled
  <2>3. QED
    BY <2>2 DEF FrameLabels, NoLabel
<1>7. \A l \in {loop.end, loop.next} : <<l, loop.base>> \in Expect(frames)
  BY <1>3, <1>4, <1>6 DEF Expect, Wants
<1>8. ASSUME NEW d \in depths PROVE Fits(d, loop.base, leaked')
  <2>1. ~leaked' => ~leaked /\ stackSize = loop.base
    BY <1>1
  <2>2. d \in Nat /\ d >= stackSize /\ (~leaked => d = stackSize)
    BY <1>2 DEF AllFit, Fits
  <2>3. d >= loop.base
    BY <1>2, <1>4, <1>5, <2>2
  <2>4. ~leaked' => d = loop.base
    BY <2>1, <2>2, Zenon
  <2>5. QED
    BY <2>2, <2>3, <2>4, Zenon DEF Fits
<1>9. ASSUME NEW a \in arrivals', a \notin arrivals
      PROVE  \E e \in Expect(frames) \cup Expect(frames') :
               e[1] = a[1] /\ Fits(a[2], e[2], leaked')
  <2>1. PICK l \in {loop.end, loop.next} : a \in Jumps(l)
    BY <1>1, <1>9
  <2>2. <<l, loop.base>> \in Expect(frames) /\ a[1] = l /\ a[2] \in depths
    BY <1>7, <2>1 DEF Jumps
  <2>3. QED
    BY <1>8, <2>2
<1> HIDE DEF loop
<1>10. /\ leaked' \in BOOLEAN /\ (leaked => leaked')
       /\ labelCount <= labelCount' /\ placed \subseteq placed' /\ 0 \in Nat
  BY <1>1, <1>2
<1>11. /\ AllFit(depths', stackSize', leaked') /\ Marked(frames', placed')
       /\ Expect(frames') = Expect(frames)
  BY <1>1 DEF AllFit, MInv
<1>12. [Next]_allVars
  BY DEF Next
<1>13. QED
  BY <1>9, <1>10, <1>11, <1>12, StepIsRouted

(* Where the next arm of an if chain begins, the chain's frame has only    *)
(* the label of its end.                                                   *)
LEMMA ChainHasItsEnd ==
  ASSUME IInv, MInv, frames # <<>>, Top.k = "chain"
  PROVE  /\ FrameLabels(Top) = {Top.end} /\ Top.end \in Nat
         /\ Height(Top) = stackSize
<1>1. Labelled(Top)
  BY HeightsAreNumbers, MarkedPop DEF MInv, Top
<1>2. Top.head = NoLabel /\ Top.next = NoLabel /\ Top.end \in Nat /\ Top.cases = <<>>
  BY <1>1 DEF Labelled
<1>3. FrameLabels(Top) = {Top.end}
  <2>1. {Top.cases[j] : j \in DOMAIN Top.cases} = {}
    BY <1>2
  <2>2. ({Top.head, Top.next, Top.end} \ {NoLabel}) = {Top.end}
    BY <1>2 DEF NoLabel
  <2>3. QED
    BY <2>1, <2>2 DEF FrameLabels
<1>4. Height(Top) = stackSize
  <2>1. Top.slots = 0 /\ stackSize = Top.base /\ Top.base \in Nat
    BY TopIsAccounted, ChainIsEmpty
  <2>2. QED
    BY <2>1 DEF Height
<1>5. QED
  BY <1>2, <1>3, <1>4

(* The later arms of an if chain.                                          *)
LEMMA ElseIfRouted == IInv /\ MInv /\ GenElseIf => MInv'
<1> SUFFICES ASSUME IInv, MInv, GenElseIf PROVE MInv'
  OBVIOUS
<1> DEFINE f0 == Frame("arm", stackSize, Len(vars))
           more == node.more
           end == Top.end
           f == [f0 EXCEPT !.next = labelCount, !.end = end, !.more = more]
<1>1. /\ frames # <<>> /\ Top.k = "chain"
      /\ frames' = Append(Front(frames), f) /\ labelCount' = labelCount + 1
      /\ arrivals' = arrivals \cup Jumps(labelCount)
      /\ UNCHANGED <<stackSize, depths, placed, leaked>>
  BY DEF GenElseIf
<1>2. f0 \in FrameRecord /\ labelCount \in Nat /\ stackSize \in Nat
      /\ AllFit(depths, stackSize, leaked) /\ labelCount # NoLabel
      /\ \A a \in Jumps(labelCount) :
           a[1] = labelCount /\ Fits(a[2], stackSize, leaked)
  BY FreshFrame DEF FrameKinds
<1>3. f0.k = "arm" /\ f0.base = stackSize /\ f0.slots = 0 /\ f0.head = NoLabel
      /\ f0.cases = <<>>
  BY DEF Frame
<1>4. more \in BOOLEAN
  <2>1. node \in Node
    BY NodeIsNode DEF IInv, GenElseIf
  <2>2. QED
    BY <2>1 DEF GenElseIf, Node, Simple, Decl, Jump, Opener
<1>5. FrameLabels(Top) = {end} /\ end \in Nat /\ Height(Top) = stackSize
  BY <1>1, ChainHasItsEnd
<1> HIDE DEF f0, more, end
<1>6. /\ f \in FrameRecord /\ f.k = "arm" /\ f.base = stackSize /\ f.slots = 0
      /\ f.head = NoLabel /\ f.cases = <<>> /\ f.next = labelCount /\ f.end = end
  BY <1>2, <1>3, <1>4, <1>5 DEF FrameRecord
<1> HIDE DEF f
<1>7. FrameLabels(f) = {labelCount, end} /\ Height(f) = stackSize
  <2>1. ({f.head, f.next, f.end} \ {NoLabel}) = {labelCount, end}
    BY <1>2, <1>5, <1>6 DEF NoLabel
  <2>2. {f.cases[j] : j \in DOMAIN f.cases} = {}
    BY <1>6
  <2>3. Height(f) = stackSize
    BY <1>2, <1>6 DEF Height
  <2>4. QED
    BY <2>1, <2>2, <2>3 DEF FrameLabels
<1>8. Labelled(f) /\ Landed(f, placed') /\ f.k # "case"
  BY <1>5, <1>6 DEF Labelled, Landed
<1>9. labelCount \in labelCount..(labelCount' - 1) /\ labelCount <= labelCount'
  BY <1>1, <1>2
<1>10. [Next]_allVars
  BY DEF Next, GenBlock
<1>11. /\ \A l \in FrameLabels(f) :
            l \in FrameLabels(Top) \/ l \in labelCount..(labelCount' - 1)
       /\ \A l \in FrameLabels(Top) : l \in FrameLabels(f) \/ l \in placed'
       /\ Height(f) = Height(Top)
  BY <1>5, <1>7, <1>9
<1>12. \A a \in arrivals' :
         a \in arrivals
           \/ /\ a[1] \in FrameLabels(f) \cup FrameLabels(Top)
              /\ Fits(a[2], Height(f), leaked)
  BY <1>1, <1>2, <1>7
<1>13. AllFit(depths', stackSize', leaked) /\ placed \subseteq placed'
  BY <1>1, <1>2
<1>14. QED
  BY <1>1, <1>6, <1>8, <1>9, <1>10, <1>11, <1>12, <1>13, SwapIsRouted

LEMMA ElseRouted == IInv /\ MInv /\ GenElse => MInv'
<1> SUFFICES ASSUME IInv, MInv, GenElse PROVE MInv'
  OBVIOUS
<1> DEFINE f0 == Frame("arm", stackSize, Len(vars))
           end == Top.end
           f == [f0 EXCEPT !.end = end]
<1>1. /\ frames # <<>> /\ Top.k = "chain"
      /\ frames' = Append(Front(frames), f)
      /\ UNCHANGED <<stackSize, labelCount, depths, arrivals, placed, leaked>>
  BY DEF GenElse, machine
<1>2. f0 \in FrameRecord /\ labelCount \in Nat /\ stackSize \in Nat
      /\ AllFit(depths, stackSize, leaked)
  BY FreshFrame DEF FrameKinds
<1>3. f0.k = "arm" /\ f0.base = stackSize /\ f0.slots = 0 /\ f0.head = NoLabel
      /\ f0.next = NoLabel /\ f0.cases = <<>>
  BY DEF Frame
<1>4. FrameLabels(Top) = {end} /\ end \in Nat /\ Height(Top) = stackSize
  BY <1>1, ChainHasItsEnd
<1> HIDE DEF f0, end
<1>5. /\ f \in FrameRecord /\ f.k = "arm" /\ f.base = stackSize /\ f.slots = 0
      /\ f.head = NoLabel /\ f.cases = <<>> /\ f.next = NoLabel /\ f.end = end
  BY <1>2, <1>3, <1>4 DEF FrameRecord
<1> HIDE DEF f
<1>6. FrameLabels(f) = {end} /\ Height(f) = stackSize
  <2>1. ({f.head, f.next, f.end} \ {NoLabel}) = {end}
    BY <1>4, <1>5 DEF NoLabel
  <2>2. {f.cases[j] : j \in DOMAIN f.cases} = {}
    BY <1>5
  <2>3. Height(f) = stackSize
    BY <1>2, <1>5 DEF Height
  <2>4. QED
    BY <2>1, <2>2, <2>3 DEF FrameLabels
<1>7. Labelled(f) /\ Landed(f, placed') /\ f.k # "case"
  BY <1>4, <1>5 DEF Labelled, Landed
<1>8. [Next]_allVars
  BY DEF Next, GenBlock
<1>9. /\ FrameLabels(f) = FrameLabels(Top) /\ Height(f) = Height(Top)
      /\ AllFit(depths', stackSize', leaked) /\ placed \subseteq placed'
      /\ labelCount <= labelCount'
  BY <1>1, <1>2, <1>4, <1>6
<1>10. QED
  BY <1>1, <1>5, <1>7, <1>8, <1>9, SwapIsRouted

(* The header of a for: only the inner of its two frames has labels.       *)
LEMMA ForRouted == IInv /\ MInv /\ GenFor => MInv'
<1> SUFFICES ASSUME IInv, MInv, GenFor PROVE MInv'
  OBVIOUS
<1> DEFINE s == node.init
           vs == VarsAfter(vars, s, stackSize, <<item, pc, InInit>>)
           more == NewSlots(s)
           size == stackSize + more
           cond == labelCount + NewLabels(s)
           next == cond + 1
           end == cond + 2
           h == Frame("pratyek", stackSize, Len(vars))
           b0 == Frame("body", size, Len(vs))
           b == [b0 EXCEPT !.head = cond, !.next = next, !.end = end]
           fs == Append(frames, h)
<1>1. /\ vars' = vs /\ stackSize' = size /\ labelCount' = cond + 3
      /\ depths' = Raise(depths, more)
      /\ placed' = placed \cup {cond}
      /\ arrivals' = arrivals \cup {<<end, d>> : d \in Raise(depths, more)}
      /\ frames' = frames \o <<h, b>> /\ leaked' = leaked
  BY DEF GenFor
<1>2. /\ frames \in Seq(FrameRecord) /\ stackSize \in Nat /\ labelCount \in Nat
      /\ pc \in Nat /\ AllFit(depths, stackSize, leaked) /\ leaked \in BOOLEAN
      /\ h \in FrameRecord /\ FrameLabels(h) = {}
  BY FreshFrame, HeightsAreNumbers
  DEF FrameKinds, IInv, PlaceIsInProgram, MInv
<1>3. more \in Nat /\ cond \in Nat /\ next \in Nat /\ end \in Nat /\ size \in Nat
      /\ labelCount <= cond /\ next = cond + 1 /\ end = cond + 2
  <2> DEFINE labels == NewLabels(s)
  <2>1. more \in Nat /\ labels \in Nat
    BY DEF NewSlots, NewLabels
  <2> HIDE DEF s, more, labels
  <2>2. cond = labelCount + labels
    BY DEF labels
  <2>3. QED
    BY <1>2, <2>1, <2>2
<1>4. Len(vs) \in Nat
  <2>1. IInv'
    BY GenForIsGood DEF StepIsGood
  <2>2. Len(vars') \in Nat
    BY <2>1 DEF IInv, Accounted
  <2>3. QED
    BY <1>1, <2>2
<1>5. b0 \in FrameRecord
  <2> HIDE DEF vs, size
  <2>1. QED
    BY <1>2, <1>3, <1>4, FrameIsFrame DEF FrameKinds
<1>6. b0.k = "body" /\ b0.base = size /\ b0.slots = 0 /\ b0.cases = <<>>
  BY DEF Frame
<1>7. Labelled(h) /\ Landed(h, placed) /\ h.k # "case"
  BY <1>2 DEF Labelled, Landed, Frame
<1>8. AllFit(depths', stackSize', leaked)
  <2> HIDE DEF more
  <2>1. QED
    BY <1>1, <1>2, <1>3, RaiseFits
<1> HIDE DEF s, vs, size, more, cond, next, end, h, b0
<1>9. /\ b \in FrameRecord /\ b.k = "body" /\ b.base = size /\ b.slots = 0
      /\ b.head = cond /\ b.next = next /\ b.end = end /\ b.cases = <<>>
  BY <1>3, <1>5, <1>6 DEF FrameRecord
<1> HIDE DEF b
<1>10. FrameLabels(b) = {cond, next, end} /\ Height(b) = size
  <2>1. ({b.head, b.next, b.end} \ {NoLabel}) = {cond, next, end}
    BY <1>3, <1>9 DEF NoLabel
  <2>2. {b.cases[j] : j \in DOMAIN b.cases} = {}
    BY <1>9
  <2>3. Height(b) = size
    BY <1>3, <1>9 DEF Height
  <2>4. QED
    BY <2>1, <2>2, <2>3 DEF FrameLabels
<1>11. Labelled(b) /\ Landed(b, placed') /\ b.k # "case"
  BY <1>1, <1>3, <1>9 DEF Labelled, Landed
<1>12. fs \in Seq(FrameRecord) /\ frames' = Append(fs, b)
  BY <1>1, <1>2, <1>9
<1>13. Marked(fs, placed)
  BY <1>2, <1>7, MarkedPush DEF MInv
<1>14. Expect(fs) = Expect(frames) \cup Wants(h) /\ Wants(h) = {}
  BY <1>2, ExpectOfPush DEF Wants
<1> HIDE DEF fs
<1>15. Marked(frames', placed')
  BY <1>1, <1>11, <1>12, <1>13, MarkedPush
<1>16. Expect(frames') = Expect(frames) \cup Wants(b)
  BY <1>9, <1>12, <1>14, ExpectOfPush
<1>17. /\ \A e \in Wants(b) : e[1] \in {cond, next, end} /\ e[2] = size
       /\ <<end, size>> \in Wants(b)
  BY <1>10 DEF Wants
<1>18. {cond, next, end} \subseteq labelCount..(labelCount' - 1)
       /\ labelCount <= labelCount'
  BY <1>1, <1>2, <1>3
<1>19. ASSUME NEW a \in arrivals', a \notin arrivals
       PROVE  \E e \in Expect(frames) \cup Expect(frames') :
                e[1] = a[1] /\ Fits(a[2], e[2], leaked')
  <2>1. PICK d \in Raise(depths, more) : a = <<end, d>>
    BY <1>1, <1>19
  <2>2. Fits(d, size, leaked')
    BY <1>1, <1>8 DEF AllFit
  <2>3. a[1] = end /\ a[2] = d
    BY <2>1
  <2>4. QED
    BY <1>16, <1>17, <2>2, <2>3
<1>20. [Next]_allVars
  BY DEF Next, GenBlock
<1>21. /\ \A e \in Expect(frames') :
            e \in Expect(frames)
              \/ (e[1] \in labelCount..(labelCount' - 1) /\ e[2] = size)
       /\ \A e \in Expect(frames) : e \in Expect(frames') \/ e[1] \in placed'
  BY <1>16, <1>17, <1>18
<1>22. /\ leaked' \in BOOLEAN /\ (leaked => leaked') /\ placed \subseteq placed'
       /\ AllFit(depths', stackSize', leaked')
  BY <1>1, <1>2, <1>8
<1>23. QED
  BY <1>3, <1>15, <1>18, <1>19, <1>20, <1>21, <1>22, StepIsRouted

-----------------------------------------------------------------------------
(* Where a block ends, what its variables held is popped, and what is left *)
(* fits the height its labels expect.                                      *)
LEMMA EndOfBlock ==
  ASSUME IInv, MInv, frames # <<>>
  PROVE  /\ AllFit(After(Top), Height(Top), leaked) /\ Height(Top) \in Nat
         /\ Top \in FrameRecord /\ Labelled(Top) /\ Landed(Top, placed)
         /\ \A l \in FrameLabels(Top) : <<l, Height(Top)>> \in Expect(frames)
         /\ leaked \in BOOLEAN /\ labelCount \in Nat
<1>1. frames \in Seq(FrameRecord) /\ labelCount \in Nat
  BY HeightsAreNumbers
<1>2. Labelled(Top) /\ Landed(Top, placed)
  BY <1>1, MarkedPop DEF MInv, Top
<1>3. \A l \in FrameLabels(Top) : <<l, Height(Top)>> \in Expect(frames)
  <2>1. Len(frames) \in DOMAIN frames /\ Top = frames[Len(frames)]
    BY <1>1 DEF Top, Last
  <2>2. QED
    BY <2>1 DEF Expect, Wants
<1>4. AllFit(After(Top), Height(Top), leaked) /\ Height(Top) \in Nat
  <2> DEFINE n == PopCount(vars, Top.mark)
             h == Height(Top)
  <2>1. n \in Nat /\ h \in Nat /\ stackSize = h + n
    BY TopIsAccounted DEF Height
  <2>2. AllFit(depths, stackSize, leaked)
    BY DEF MInv
  <2> HIDE DEF n, h
  <2>3. AllFit(Lower(depths, n), h, leaked)
    BY <2>1, <2>2, LowerFits
  <2>4. QED
    BY <2>1, <2>3 DEF After, n, h
<1>5. QED
  BY <1>1, <1>2, <1>3, <1>4, TopIsAccounted DEF MInv

(* What reaches a label of the block that ends fits too.                   *)
LEMMA TopLabelFits ==
  ASSUME IInv, MInv, frames # <<>>, NEW l, l \in FrameLabels(Top),
         NEW ds, AllFit(ds, Height(Top), leaked),
         NEW arr, \A a \in arr : a \in arrivals \/ Fits(a[2], Height(Top), leaked)
  PROVE  AllFit(AtLabel(l, ds, arr), Height(Top), leaked)
<1> DEFINE h == Height(Top)
           W == Expect(frames)
<1>1. <<l, h>> \in W
  BY EndOfBlock
<1>2. Routed(W, arrivals, labelCount, placed, leaked)
  BY DEF MInv
<1>3. AllFit(ds, h, leaked) /\ \A a \in arr : a \in arrivals \/ Fits(a[2], h, leaked)
  OBVIOUS
<1> HIDE DEF h, W
<1>4. AllFit(AtLabel(l, ds, arr), h, leaked)
  BY <1>1, <1>2, <1>3, LabelFits
<1>5. QED
  BY <1>4 DEF h

(* So does what jumps to it, if there is such a label.                     *)
LEMMA JumpsToTopFit ==
  ASSUME IInv, MInv, frames # <<>>, NEW l, l = NoLabel \/ l \in FrameLabels(Top)
  PROVE  AllFit(AtLabel(l, {}, arrivals), Height(Top), leaked)
<1>1. CASE l = NoLabel
  <2>1. \A a \in arrivals : a[1] # NoLabel
    BY DEF MInv, Routed, NoLabel
  <2>2. AtLabel(l, {}, arrivals) = {}
    BY <1>1, <2>1 DEF AtLabel
  <2>3. QED
    BY <2>2 DEF AllFit
<1>2. CASE l \in FrameLabels(Top)
  <2> DEFINE none == {}
  <2>1. AllFit(none, Height(Top), leaked)
    BY DEF AllFit
  <2> HIDE DEF none
  <2>2. AllFit(AtLabel(l, none, arrivals), Height(Top), leaked)
    BY <1>2, <2>1, TopLabelFits
  <2>3. QED
    BY <2>2 DEF none
<1>3. QED
  BY <1>1, <1>2

(* endScope() leaves the stack at that height.                             *)
LEMMA EndAtHeight ==
  ASSUME IInv, frames # <<>>, Top.k # "paryay", EndScope(Top)
  PROVE  stackSize' = Height(Top)
<1>1. stackSize' = Top.base
  BY EndScopeRestores
<1>2. Top.slots = 0 /\ Top.base \in Nat
  BY TopIsAccounted
<1>3. QED
  BY <1>1, <1>2 DEF Height

(* The end of a bare block.                                                *)
LEMMA EndScopeRouted == IInv /\ MInv /\ EndGenScope => MInv'
<1> SUFFICES ASSUME IInv, MInv, EndGenScope PROVE MInv'
  OBVIOUS
<1>1. /\ frames # <<>> /\ Top.k = "scope" /\ EndScope(Top)
      /\ frames' = Front(frames) /\ depths' = After(Top)
      /\ UNCHANGED <<labelCount, arrivals, placed, leaked>>
  BY DEF EndGenScope, Closing
<1>2. FrameLabels(Top) = {}
  BY <1>1, EndOfBlock DEF Labelled
<1>3. AllFit(depths', stackSize', leaked)
  <2>1. stackSize' = Height(Top)
    BY <1>1, EndAtHeight
  <2>2. QED
    BY <1>1, <2>1, EndOfBlock
<1>4. [Next]_allVars
  BY DEF Next, EndBlock
<1>5. QED
  BY <1>1, <1>2, <1>3, <1>4, CloseIsRouted

(* The ends of a jar.                                                      *)
LEMMA ArmHasItsLabels ==
  ASSUME IInv, MInv, frames # <<>>, Top.k = "arm"
  PROVE  /\ FrameLabels(Top) = {Top.next, Top.end} \ {NoLabel}
         /\ Top.end \in Nat /\ Top.end \in FrameLabels(Top) /\ Top.end # NoLabel
         /\ Top.next = NoLabel \/ Top.next \in FrameLabels(Top)
<1>1. Top.head = NoLabel /\ Top.end \in Nat /\ Top.cases = <<>>
  BY EndOfBlock DEF Labelled
<1>2. {Top.cases[j] : j \in DOMAIN Top.cases} = {}
  BY <1>1
<1>3. ({Top.head, Top.next, Top.end} \ {NoLabel}) = {Top.next, Top.end} \ {NoLabel}
  BY <1>1
<1>4. FrameLabels(Top) = {Top.next, Top.end} \ {NoLabel}
  BY <1>2, <1>3 DEF FrameLabels
<1>5. Top.end # NoLabel
  BY <1>1 DEF NoLabel
<1>6. QED
  BY <1>1, <1>4, <1>5

LEMMA EndLastArmRouted == IInv /\ MInv /\ EndLastArm => MInv'
<1> SUFFICES ASSUME IInv, MInv, EndLastArm PROVE MInv'
  OBVIOUS
<1> DEFINE f == Top
           jumps == IF f.next = NoLabel THEN {}
                                        ELSE {<<f.end, d>> : d \in After(f)}
           ahead == IF f.next = NoLabel THEN After(f)
                                        ELSE AtLabel(f.next, {}, arrivals)
           arr == arrivals \cup jumps
<1>1. /\ frames # <<>> /\ Top.k = "arm" /\ EndScope(Top)
      /\ arrivals' = arr /\ depths' = AtLabel(f.end, ahead, arr)
      /\ placed' = placed \cup ArmLabels(f) /\ frames' = Front(frames)
      /\ UNCHANGED <<labelCount, leaked>>
  BY DEF EndLastArm, Closing
<1>2. /\ FrameLabels(Top) = ArmLabels(Top)
      /\ Top.end \in FrameLabels(Top) /\ Top.end # NoLabel
      /\ Top.next = NoLabel \/ Top.next \in FrameLabels(Top)
  BY <1>1, ArmHasItsLabels DEF ArmLabels
<1>3. stackSize' = Height(Top)
  BY <1>1, EndAtHeight
<1>4. /\ AllFit(After(Top), Height(Top), leaked)
      /\ <<Top.end, Height(Top)>> \in Expect(frames)
  BY <1>1, <1>2, EndOfBlock
<1>5. AllFit(ahead, Height(Top), leaked)
  <2>1. AllFit(AtLabel(Top.next, {}, arrivals), Height(Top), leaked)
    BY <1>1, <1>2, JumpsToTopFit
  <2>2. QED
    BY <1>4, <2>1
<1>6. \A a \in jumps : a[1] = Top.end /\ Fits(a[2], Height(Top), leaked)
  BY <1>4 DEF AllFit
<1> HIDE DEF jumps, ahead
<1>7. AllFit(depths', stackSize', leaked)
  <2>1. \A a \in arr : a \in arrivals \/ Fits(a[2], Height(Top), leaked)
    BY <1>6
  <2> HIDE DEF arr
  <2>2. AllFit(AtLabel(Top.end, ahead, arr), Height(Top), leaked)
    BY <1>1, <1>2, <1>5, <2>1, TopLabelFits
  <2>3. QED
    BY <1>1, <1>3, <2>2
<1>8. \A a \in arrivals' :
        a \in arrivals
          \/ \E e \in Expect(frames) : e[1] = a[1] /\ Fits(a[2], e[2], leaked)
  BY <1>1, <1>4, <1>6
<1>9. FrameLabels(Top) \subseteq placed' /\ placed \subseteq placed'
  BY <1>1, <1>2
<1>10. [Next]_allVars
  BY DEF Next, EndBlock
<1>11. QED
  BY <1>1, <1>7, <1>8, <1>9, <1>10, CloseIsRouted

LEMMA EndArmRouted == IInv /\ MInv /\ EndArm => MInv'
<1> SUFFICES ASSUME IInv, MInv, EndArm PROVE MInv'
  OBVIOUS
<1> DEFINE top == Top
           g == [top EXCEPT !.k = "chain", !.next = NoLabel]
<1>1. /\ frames # <<>> /\ Top.k = "arm" /\ EndScope(Top)
      /\ arrivals' = arrivals \cup {<<Top.end, d>> : d \in After(Top)}
      /\ depths' = AtLabel(Top.next, {}, arrivals)
      /\ placed' = placed \cup {Top.next}
      /\ frames' = Append(Front(frames), g)
      /\ UNCHANGED <<labelCount, leaked>>
  BY DEF EndArm, Closing
<1>2. /\ FrameLabels(top) = {top.next, top.end} \ {NoLabel}
      /\ top.end \in Nat /\ top.end \in FrameLabels(top)
      /\ top.next = NoLabel \/ top.next \in FrameLabels(top)
  BY <1>1, ArmHasItsLabels
<1>3. stackSize' = Height(top)
  BY <1>1, EndAtHeight
<1>4. /\ AllFit(After(top), Height(top), leaked) /\ top \in FrameRecord
      /\ Labelled(top) /\ labelCount \in Nat /\ top.k = "arm"
  BY <1>1, EndOfBlock
<1>5. AllFit(depths', stackSize', leaked)
  <2>1. AllFit(AtLabel(top.next, {}, arrivals), Height(Top), leaked)
    BY <1>1, <1>2, JumpsToTopFit
  <2>2. QED
    BY <1>1, <1>3, <2>1
<1>6. ASSUME NEW a \in arrivals', a \notin arrivals
      PROVE  a[1] = top.end /\ Fits(a[2], Height(top), leaked)
  <2>1. PICK d \in After(top) : a = <<top.end, d>>
    BY <1>1, <1>6
  <2>2. Fits(d, Height(top), leaked)
    BY <1>4, <2>1 DEF AllFit
  <2>3. QED
    BY <2>1, <2>2
<1>7. top.head = NoLabel /\ top.cases = <<>>
  BY <1>4 DEF Labelled
<1> HIDE DEF top
<1>8. /\ g \in FrameRecord /\ g.k = "chain" /\ g.next = NoLabel
      /\ g.head = top.head /\ g.end = top.end /\ g.cases = top.cases
      /\ g.base = top.base /\ g.slots = top.slots
  BY <1>4 DEF FrameRecord, FrameKinds, NoLabel
<1> HIDE DEF g
<1>9. FrameLabels(g) = {top.end} /\ Height(g) = Height(top)
  <2>1. ({g.head, g.next, g.end} \ {NoLabel}) = {top.end}
    BY <1>2, <1>7, <1>8 DEF NoLabel
  <2>2. {g.cases[j] : j \in DOMAIN g.cases} = {}
    BY <1>7, <1>8
  <2>3. Height(g) = Height(top)
    BY <1>8 DEF Height
  <2>4. QED
    BY <2>1, <2>2, <2>3 DEF FrameLabels
<1>10. Labelled(g) /\ Landed(g, placed') /\ g.k # "case"
  BY <1>2, <1>7, <1>8 DEF Labelled, Landed
<1>11. /\ FrameLabels(g) \subseteq FrameLabels(top)
       /\ \A l \in FrameLabels(top) : l \in FrameLabels(g) \/ l \in placed'
       /\ placed \subseteq placed' /\ labelCount <= labelCount'
  BY <1>1, <1>2, <1>4, <1>9 DEF top
<1>12. \A a \in arrivals' :
         a \in arrivals
           \/ /\ a[1] \in FrameLabels(g) \cup FrameLabels(top)
              /\ Fits(a[2], Height(g), leaked)
  BY <1>6, <1>9
<1>13. [Next]_allVars
  BY DEF Next, EndBlock
<1>14. QED
  BY <1>1, <1>5, <1>8, <1>9, <1>10, <1>11, <1>12, <1>13, SwapIsRouted DEF top

(* The labels of a loop.                                                   *)
LEMMA LoopHasItsLabels ==
  ASSUME IInv, MInv, frames # <<>>, Top.k \in {"jovar", "body"}
  PROVE  /\ FrameLabels(Top) = {Top.head, Top.next, Top.end}
         /\ Top.head \in placed
<1>1. /\ Top.head \in Nat /\ Top.next \in Nat /\ Top.end \in Nat
      /\ Top.cases = <<>> /\ Top.head \in placed
  BY EndOfBlock DEF Labelled, Landed
<1>2. {Top.cases[j] : j \in DOMAIN Top.cases} = {}
  BY <1>1
<1>3. ({Top.head, Top.next, Top.end} \ {NoLabel}) = {Top.head, Top.next, Top.end}
  BY <1>1 DEF NoLabel
<1>4. QED
  BY <1>1, <1>2, <1>3 DEF FrameLabels

LEMMA EndWhileRouted == IInv /\ MInv /\ EndWhile => MInv'
<1> SUFFICES ASSUME IInv, MInv, EndWhile PROVE MInv'
  OBVIOUS
<1>1. /\ frames # <<>> /\ Top.k = "jovar" /\ EndScope(Top)
      /\ arrivals' = arrivals \cup {<<Top.head, d>> : d \in After(Top)}
      /\ depths' = AtLabel(Top.end, {}, arrivals)
      /\ placed' = placed \cup {Top.end} /\ frames' = Front(frames)
      /\ UNCHANGED <<labelCount, leaked>>
  BY DEF EndWhile, Closing
<1>2. /\ FrameLabels(Top) = {Top.head, Top.next, Top.end}
      /\ Top.head \in placed /\ Top.next = Top.head
  BY <1>1, LoopHasItsLabels, EndOfBlock DEF Labelled
<1>3. AllFit(depths', stackSize', leaked)
  <2>1. AllFit(AtLabel(Top.end, {}, arrivals), Height(Top), leaked)
    BY <1>1, <1>2, JumpsToTopFit
  <2>2. stackSize' = Height(Top)
    BY <1>1, EndAtHeight
  <2>3. QED
    BY <1>1, <2>1, <2>2
<1>4. ASSUME NEW a \in arrivals', a \notin arrivals
      PROVE  \E e \in Expect(frames) : e[1] = a[1] /\ Fits(a[2], e[2], leaked)
  <2>1. PICK d \in After(Top) : a = <<Top.head, d>>
    BY <1>1, <1>4
  <2>2. <<Top.head, Height(Top)>> \in Expect(frames)
    BY <1>1, <1>2, EndOfBlock
  <2>3. Fits(d, Height(Top), leaked)
    BY <1>1, <2>1, EndOfBlock DEF AllFit
  <2>4. QED
    BY <2>1, <2>2, <2>3
<1>5. FrameLabels(Top) \subseteq placed' /\ placed \subseteq placed'
  BY <1>1, <1>2
<1>6. [Next]_allVars
  BY DEF Next, EndBlock
<1>7. QED
  BY <1>1, <1>3, <1>4, <1>5, <1>6, CloseIsRouted

(* An arm of a switch ends as high as the switch, whose end it jumps to.   *)
LEMMA EndCaseRouted == IInv /\ MInv /\ EndCase => MInv'
<1> SUFFICES ASSUME IInv, MInv, EndCase PROVE MInv'
  OBVIOUS
<1> DEFINE n == Len(frames)
           t == frames[n - 1]
<1>1. /\ frames # <<>> /\ Top.k = "case" /\ n > 1
      /\ arrivals' = arrivals \cup {<<t.end, d>> : d \in After(Top)}
      /\ depths' = {} /\ frames' = Front(frames)
      /\ UNCHANGED <<labelCount, placed, leaked>>
  BY DEF EndCase, Closing
<1>2. /\ frames \in Seq(FrameRecord) /\ n \in DOMAIN frames /\ n - 1 \in DOMAIN frames
      /\ Top = frames[n] /\ n \in Nat /\ vars \in Seq(VarRecord)
  BY <1>1, HeightsAreNumbers DEF Top, Last
<1>3. t.k = "paryay" /\ Labelled(t)
  BY <1>1, <1>2 DEF MInv, Marked
<1>4. t \in FrameRecord /\ t.mark \in Nat /\ t.base \in Nat /\ t.slots \in Nat
  BY <1>2, FramesAreNumbers
<1>5. t.end \in FrameLabels(t)
  BY <1>3 DEF Labelled, FrameLabels, NoLabel
<1>6. <<t.end, Height(t)>> \in Expect(frames)
  BY <1>2, <1>5 DEF Expect, Wants
<1>7. Height(Top) = Height(t)
  <2> DEFINE mark == MarkAfter(frames, vars, n - 1)
  <2>1. BaseAfter(frames, stackSize, n - 1) = Top.base
    BY <1>2 DEF BaseAfter
  <2>2. BaseAfter(frames, stackSize, n - 1) = t.base + t.slots + Slots(vars, t.mark, mark)
    BY <1>2 DEF IInv, Accounted
  <2>3. mark = t.mark
    BY <1>2, <1>3 DEF IInv, Accounted
  <2>4. Slots(vars, t.mark, t.mark) = 0
    BY <1>4, SlotsOfNone
  <2>5. Top.base = t.base + t.slots
    BY <1>4, <2>1, <2>2, <2>3, <2>4
  <2>6. Top.slots = 0 /\ Top.base \in Nat
    BY <1>1, TopIsAccounted
  <2>7. QED
    BY <2>5, <2>6 DEF Height
<1> HIDE DEF t
<1>8. ASSUME NEW a \in arrivals', a \notin arrivals
      PROVE  \E e \in Expect(frames) : e[1] = a[1] /\ Fits(a[2], e[2], leaked)
  <2>1. PICK d \in After(Top) : a = <<t.end, d>>
    BY <1>1, <1>8
  <2>2. Fits(d, Height(t), leaked)
    BY <1>1, <1>7, <2>1, EndOfBlock DEF AllFit
  <2>3. QED
    BY <1>6, <2>1, <2>2
<1>9. FrameLabels(Top) = {}
  BY <1>1, EndOfBlock DEF Labelled
<1>10. AllFit(depths', stackSize', leaked) /\ placed \subseteq placed'
  BY <1>1 DEF AllFit
<1>11. [Next]_allVars
  BY DEF Next, EndBlock
<1>12. QED
  BY <1>1, <1>8, <1>9, <1>10, <1>11, CloseIsRouted

(* The end of a switch: each of its arms has been placed.                  *)
LEMMA EndSwitchRouted == IInv /\ MInv /\ EndSwitch => MInv'
<1> SUFFICES ASSUME IInv, MInv, EndSwitch PROVE MInv'
  OBVIOUS
<1>1. /\ frames # <<>> /\ Top.k = "paryay" /\ Top.arm = Len(Top.cases)
      /\ depths' = Lower(AtLabel(Top.end, depths, arrivals), 1)
      /\ placed' = placed \cup {Top.end} /\ stackSize' = stackSize - 1
      /\ frames' = Front(frames)
      /\ UNCHANGED <<labelCount, arrivals, leaked>>
  BY DEF EndSwitch, Closing
<1>2. stackSize = Height(Top) /\ Height(Top) = Top.base + 1 /\ Top.base \in Nat
  BY <1>1, SwitchIsBare, TopIsAccounted
<1>3. /\ Top.head = NoLabel /\ Top.next = NoLabel /\ Top.end \in Nat
      /\ \A j \in 1..Top.arm : Top.cases[j] \in placed
      /\ Top \in FrameRecord
  BY <1>1, EndOfBlock DEF Labelled, Landed
<1>4. \A j \in DOMAIN Top.cases : Top.cases[j] \in placed
  <2>1. Top.cases \in Seq(Nat)
    BY <1>3 DEF FrameRecord
  <2>2. QED
    BY <1>1, <1>3, <2>1
<1>5. FrameLabels(Top) \subseteq placed' /\ placed \subseteq placed'
      /\ Top.end \in FrameLabels(Top)
  BY <1>1, <1>3, <1>4 DEF FrameLabels, NoLabel
<1>6. AllFit(depths', stackSize', leaked)
  <2> DEFINE ds == AtLabel(Top.end, depths, arrivals)
             base == Top.base
  <2>1. AllFit(depths, Height(Top), leaked)
    BY <1>2 DEF MInv
  <2>2. AllFit(ds, Height(Top), leaked)
    BY <1>1, <1>5, <2>1, TopLabelFits
  <2>3. AllFit(ds, base + 1, leaked) /\ base \in Nat
    BY <1>2, <2>2
  <2>4. depths' = Lower(ds, 1) /\ stackSize' = base
    BY <1>1, <1>2
  <2> HIDE DEF ds, base
  <2>5. AllFit(Lower(ds, 1), base, leaked)
    BY <2>3, LowerFits
  <2>6. QED
    BY <2>4, <2>5
<1>7. [Next]_allVars
  BY DEF Next, EndBlock
<1>8. QED
  BY <1>1, <1>5, <1>6, <1>7, CloseIsRouted

(* The end of a function.                                                  *)
LEMMA EndFuncDeclRouted == IInv /\ MInv /\ EndFuncDecl => MInv'
<1> SUFFICES ASSUME IInv, MInv, EndFuncDecl PROVE MInv'
  OBVIOUS
<1>1. /\ frames # <<>> /\ Top.k = "karya" /\ depths' = {}
      /\ frames' = Front(frames)
      /\ UNCHANGED <<labelCount, arrivals, placed, leaked>>
  BY DEF EndFuncDecl, Closing
<1>2. FrameLabels(Top) = {}
  BY <1>1, EndOfBlock DEF Labelled
<1>3. AllFit(depths', stackSize', leaked)
  BY <1>1 DEF AllFit
<1>4. [Next]_allVars
  BY DEF Next, EndBlock
<1>5. QED
  BY <1>1, <1>2, <1>3, <1>4, CloseIsRouted

(* The end of a for: the two blocks of the header and the body.            *)
LEMMA EndForRouted == IInv /\ MInv /\ EndFor => MInv'
<1> SUFFICES ASSUME IInv, MInv, EndFor PROVE MInv'
  OBVIOUS
<1> DEFINE header == frames[Len(frames) - 1]
           inside == Shrink(vars, Top.mark)
           fs == Front(frames)
           n == PopCount(inside, header.mark)
           atStep == AtLabel(Top.next, After(Top), arrivals)
           atEnd == AtLabel(Top.end, {}, arrivals)
           base == header.base
<1>1. /\ frames # <<>> /\ Top.k = "body"
      /\ arrivals' = arrivals \cup {<<Top.head, d>> : d \in atStep}
      /\ depths' = Lower(atEnd, n)
      /\ placed' = placed \cup {Top.next, Top.end}
      /\ frames' = Front(fs)
      /\ UNCHANGED <<labelCount, leaked>>
  BY DEF EndFor, Closing
<1>2. /\ fs \in Seq(FrameRecord) /\ fs # <<>> /\ Last(fs) = header
      /\ header.k = "pratyek" /\ stackSize' = base
      /\ Top.base = base + n /\ n \in Nat
  <2> HIDE DEF fs, inside, header
  <2>1. QED
    BY EndForRestores DEF fs, inside, header
<1>3. base \in Nat /\ Height(Top) = base + n
  <2>1. header \in FrameRecord
    <3> HIDE DEF fs, inside, header
    <3>1. QED
      BY EndForRestores DEF fs, inside, header
  <2>2. base \in Nat
    <3> HIDE DEF header
    <3>1. QED
      BY <2>1 DEF FrameRecord
  <2>3. Top.slots = 0
    BY <1>1, TopIsAccounted
  <2> HIDE DEF header, base, n
  <2>4. QED
    BY <1>2, <2>2, <2>3 DEF Height
<1>4. frames \in Seq(FrameRecord) /\ Marked(fs, placed') /\ Marked(frames, placed)
  <2>1. frames \in Seq(FrameRecord) /\ Marked(frames, placed)
    BY HeightsAreNumbers DEF MInv
  <2>2. placed \subseteq placed'
    BY <1>1
  <2>3. QED
    BY <1>1, <2>1, <2>2, MarkedPop
<1>5. Expect(frames) = Expect(fs) \cup Wants(Top)
  BY <1>1, <1>4, ExpectOfPop DEF Top
<1>6. /\ FrameLabels(Top) = {Top.head, Top.next, Top.end} /\ Top.head \in placed
  BY <1>1, LoopHasItsLabels
<1>7. /\ AllFit(After(Top), Height(Top), leaked)
      /\ <<Top.head, Height(Top)>> \in Expect(frames)
      /\ leaked \in BOOLEAN /\ labelCount \in Nat
  BY <1>1, <1>6, EndOfBlock
<1>8. AllFit(atStep, Height(Top), leaked) /\ AllFit(atEnd, Height(Top), leaked)
  <2>1. AllFit(atStep, Height(Top), leaked)
    <3> DEFINE ds == After(Top)
    <3>1. AllFit(ds, Height(Top), leaked)
      BY <1>7
    <3> HIDE DEF ds
    <3>2. AllFit(AtLabel(Top.next, ds, arrivals), Height(Top), leaked)
      BY <1>1, <1>6, <3>1, TopLabelFits
    <3>3. QED
      BY <3>2 DEF ds
  <2>2. AllFit(atEnd, Height(Top), leaked)
    BY <1>1, <1>6, JumpsToTopFit
  <2>3. QED
    BY <2>1, <2>2
<1> HIDE DEF header, inside, fs, n, atStep, atEnd, base
<1>9. AllFit(depths', stackSize', leaked)
  <2>1. AllFit(atEnd, base + n, leaked)
    BY <1>3, <1>8
  <2>2. AllFit(Lower(atEnd, n), base, leaked)
    BY <1>2, <1>3, <2>1, LowerFits
  <2>3. QED
    BY <1>1, <1>2, <2>2
<1>10. Marked(frames', placed') /\ Labelled(header)
  BY <1>1, <1>2, <1>4, MarkedPop
<1>11. Expect(fs) = Expect(frames')
  <2>1. Expect(fs) = Expect(frames') \cup Wants(header)
    BY <1>1, <1>2, ExpectOfPop
  <2>2. FrameLabels(header) = {}
    BY <1>2, <1>10 DEF Labelled
  <2>3. Wants(header) = {}
    BY <2>2 DEF Wants
  <2>4. QED
    BY <2>1, <2>3
<1>12. /\ \A e \in Expect(frames') : e \in Expect(frames)
       /\ \A e \in Expect(frames) : e \in Expect(frames') \/ e[1] \in placed'
  <2>1. \A e \in Wants(Top) : e[1] \in placed'
    BY <1>1, <1>6 DEF Wants
  <2>2. QED
    BY <1>5, <1>11, <2>1
<1>13. ASSUME NEW a \in arrivals', a \notin arrivals
       PROVE  \E e \in Expect(frames) \cup Expect(frames') :
                e[1] = a[1] /\ Fits(a[2], e[2], leaked')
  <2>1. PICK d \in atStep : a = <<Top.head, d>>
    BY <1>1, <1>13
  <2>2. Fits(d, Height(Top), leaked')
    BY <1>1, <1>8, <2>1 DEF AllFit
  <2>3. QED
    BY <1>7, <2>1, <2>2
<1>14. /\ labelCount <= labelCount' /\ placed \subseteq placed' /\ 0 \in Nat
       /\ leaked' \in BOOLEAN /\ (leaked => leaked')
       /\ AllFit(depths', stackSize', leaked')
  BY <1>1, <1>7, <1>9
<1>15. [Next]_allVars
  BY DEF Next, EndBlock
<1>16. QED
  BY <1>10, <1>12, <1>13, <1>14, <1>15, StepIsRouted

(* Every step, and every stutter.                                          *)
LEMMA NextIsRouted == IInv /\ MInv /\ [Next]_allVars => MInv'
<1>1. IInv /\ MInv /\ Next => MInv'
  BY SimpleRouted, JumpRouted, PassRouted, ScopeRouted, IfRouted, ElseIfRouted,
     ElseRouted, WhileRouted, ForRouted, SwitchRouted, CaseRouted,
     FuncDeclRouted, EndScopeRouted, EndLastArmRouted, EndArmRouted,
     EndWhileRouted, EndForRouted, EndCaseRouted, EndSwitchRouted,
     EndFuncDeclRouted
  DEF Next, GenBlock, EndBlock
<1>2. MInv /\ UNCHANGED allVars => MInv'
  <2> SUFFICES ASSUME MInv, UNCHANGED allVars PROVE MInv'
    OBVIOUS
  <2>1. UNCHANGED <<stackSize, frames, labelCount, depths, arrivals, placed, leaked>>
    BY DEF allVars
  <2>2. QED
    BY <2>1 DEF MInv
<1>3. QED
  BY <1>1, <1>2

(* The walk begins with rsp where it is expected, and no label.            *)
LEMMA InitIsRouted == Init => MInv
<1> SUFFICES ASSUME NEW p \in Programs, InitOn(p) PROVE MInv
  BY DEF Init
<1>1. /\ stackSize = 0 /\ frames = <<>> /\ depths = {0} /\ arrivals = {}
      /\ leaked = FALSE
  BY DEF InitOn
<1>2. DOMAIN frames = {}
  BY <1>1
<1>3. Rising(Bases(frames), stackSize) /\ Marked(frames, placed)
  BY <1>2 DEF Rising, Bases, Marked
<1>4. Expect(frames) = {}
  BY <1>2 DEF Expect
<1>5. AllFit(depths, stackSize, leaked)
  BY <1>1 DEF AllFit, Fits
<1>6. Routed(Expect(frames), arrivals, labelCount, placed, leaked)
  BY <1>1, <1>4 DEF Routed
<1>7. QED
  BY <1>1, <1>3, <1>5, <1>6 DEF MInv


-----------------------------------------------------------------------------
(* The theorems.                                                           *)

(* _stackSize, _vars and _scopeMarks agree on every program, at every step *)
(* of the walk.                                                            *)
THEOREM Invariance == Spec => []IInv
<1>1. IInv /\ [Next]_allVars => IInv'
  BY NextIsGood DEF StepIsGood
<1>2. QED
  BY InitIsGood, <1>1, PTL DEF Spec

(* What a block will pop when it ends is what was pushed since it began.   *)
THEOREM StackAccounted == Spec => []StackAccounting
<1>1. IInv => StackAccounting
  <2> SUFFICES ASSUME IInv PROVE StackAccounting
    OBVIOUS
  <2>1. frames \in Seq(FrameRecord) /\ Len(vars) \in Nat
    BY HeightsAreNumbers
  <2>2. \A i \in DOMAIN frames :
          NextMark(i) = MarkAfter(frames, vars, i)
          /\ NextBase(i) = BaseAfter(frames, stackSize, i)
    BY DEF NextMark, NextBase, MarkAfter, BaseAfter
  <2>3. \A i \in DOMAIN frames : frames[i].mark <= NextMark(i)
    <3>1. \A i \in DOMAIN frames : i # Len(frames) => i + 1 \in DOMAIN frames /\ i < i + 1
      BY <2>1
    <3>2. QED
      BY <2>1, <3>1 DEF IInv, Accounted, NextMark
  <2>4. \A i \in DOMAIN frames :
          SlotsOf(i) = Slots(vars, frames[i].mark, MarkAfter(frames, vars, i))
    BY <2>2 DEF SlotsOf, Slots, SlotSet
  <2>5. \A i \in DOMAIN frames :
          NextBase(i) = frames[i].base + frames[i].slots + SlotsOf(i)
    BY <2>2, <2>4 DEF IInv, Accounted
  <2>6. QED
    BY <2>3, <2>5 DEF StackAccounting, IInv, Accounted
<1>2. QED
  BY Invariance, <1>1, PTL

(* Variables in scope never share a slot, and lie inside the frame.        *)
THEOREM SlotsDistinct == Spec => []SlotsAreDistinct
<1>1. Init => LInv
  <2> SUFFICES ASSUME NEW p \in Programs, InitOn(p) PROVE LInv
    BY DEF Init
  <2>1. vars = <<>> /\ frames = <<>> /\ saved.vars = <<>>
    BY DEF InitOn
  <2>2. QED
    BY <2>1 DEF LInv, Layered, Ordered
<1>2. LInv => SlotsAreDistinct
  BY DEF LInv, Layered, Ordered, SlotsAreDistinct
<1>3. QED
  BY Invariance, NextIsLayered, <1>1, <1>2, PTL DEF Spec


(* The height of every block, and the depth of every jump that has not yet *)
(* reached its label, are what the walk thinks, give or take what thamba   *)
(* and pudhe leave behind.                                                 *)
THEOREM JumpsFitTheirLabels == Spec => []MInv
<1>1. Init => MInv
  BY InitIsRouted
<1>2. IInv /\ MInv /\ [Next]_allVars => MInv'
  BY NextIsRouted
<1>3. QED
  BY Invariance, <1>1, <1>2, PTL DEF Spec

(* rsp is never above where the code generator thinks it is, whatever the  *)
(* jumps taken: no block pops what is not its own.                         *)
THEOREM DepthsNeverBelow == Spec => []DepthNeverBelow
<1>1. MInv => DepthNeverBelow
  BY DEF MInv, AllFit, Fits, DepthNeverBelow
<1>2. QED
  BY JumpsFitTheirLabels, <1>1, PTL

(* Until a thamba or pudhe leaves slots behind, rsp is exactly there, and  *)
(* every jump to a construct still open carries the depth that construct   *)
(* expects.                                                                *)
THEOREM DepthsExact == Spec => []DepthExactUnlessLeaked
<1>1. MInv => DepthExactUnlessLeaked
  <2> SUFFICES ASSUME MInv, ~leaked PROVE DepthExactUnlessLeaked
    BY DEF DepthExactUnlessLeaked
  <2>1. \A d \in depths : d = stackSize
    BY DEF MInv, AllFit, Fits
  <2>2. ASSUME NEW i \in DOMAIN frames, NEW a \in arrivals,
               a[1] \in FrameLabels(frames[i])
        PROVE  a[2] = frames[i].base + frames[i].slots
    <3>1. <<a[1], Height(frames[i])>> \in Expect(frames)
      BY <2>2 DEF Expect, Wants
    <3>2. Fits(a[2], Height(frames[i]), leaked)
      BY <3>1 DEF MInv, Routed
    <3>3. QED
      BY <3>2 DEF Fits, Height
  <2>3. QED
    BY <2>1, <2>2 DEF DepthExactUnlessLeaked
<1>2. QED
  BY JumpsFitTheirLabels, <1>1, PTL

(* Between statements of the top level every jump emitted has its label.   *)
THEOREM JumpsLanded == Spec => []JumpsLand
<1>1. MInv => JumpsLand
  <2> SUFFICES ASSUME MInv, frames = <<>> PROVE \A a \in arrivals : a[1] \in placed
    BY DEF JumpsLand
  <2>1. Expect(frames) = {}
    BY DEF Expect
  <2>2. QED
    BY <2>1 DEF MInv, Routed
<1>2. QED
  BY JumpsFitTheirLabels, <1>1, PTL

(* The code generator implements BlockStack: every block leaves the stack  *)
(* as high as it found it.                                                 *)
THEOREM BlocksAreRestored == Spec => BlocksRestoreTheStack
<1>1. Init => Blocks!Init
  BY InitIsGood
<1>2. IInv /\ [Next]_allVars => [Blocks!Next]_<<stackSize, Bases(frames)>>
  BY NextIsGood DEF StepIsGood
<1>3. QED
  BY Invariance, <1>1, <1>2, PTL DEF Spec, BlocksRestoreTheStack, Blocks!Spec

-----------------------------------------------------------------------------
(* The generator after the analyser.  The analyser's variables are not the *)
(* generator's: they are here for the lemmas about trees and scopes, which *)
(* speak of none of them, and for Compiler, where both walks are.          *)
VARIABLES phase, semaItem, semaPc, scopes, functions, loopDepth, funcDepth,
          semaFrames, diags, semaBinds

S == INSTANCE SemanticAnalyzerProofs
       WITH item <- semaItem, pc <- semaPc, frames <- semaFrames,
            binds <- semaBinds

(* Both components assume the same of the programs.                        *)
LEMMA SameTrees ==
  Program = S!Program /\ \A p : IsTree(p) <=> S!IsTree(p)
<1>1. Program = S!Program
  BY DEF Program, S!Program, Node, S!Node, Simple, S!Simple, Decl, S!Decl, Jump,
     S!Jump, Opener, S!Opener, Expr, S!Expr
<1>2. ASSUME NEW p PROVE IsTree(p) <=> S!IsTree(p)
  BY DEF IsTree, S!IsTree, IsStatement, S!IsStatement, Around, S!Around, Innermost,
     S!Innermost, CloseOf, S!CloseOf, Closes, S!Closes, OpenKinds, S!OpenKinds,
     Cardinality, S!Cardinality, IsFiniteSet, S!IsFiniteSet
<1>3. QED
  BY <1>1, <1>2

LEMMA Source == \A p \in Programs : p \in S!Program /\ S!IsTree(p)
BY SameTrees, ProgramsAssumption

-----------------------------------------------------------------------------
(* Looking a name up.                                                      *)

(* Latest() is the last entry of the name, if there is one.                *)
LEMMA LatestIsLast ==
  ASSUME NEW X, NEW vs \in Seq(X), NEW x
  PROVE  \/ Latest(vs, x) = {} /\ \A n \in 1..Len(vs) : vs[n].name # x
         \/ \E m \in 1..Len(vs) : /\ Latest(vs, x) = {vs[m]} /\ vs[m].name = x
                                  /\ \A n \in 1..Len(vs) : vs[n].name = x => n <= m
<1> DEFINE hits == {n \in DOMAIN vs : vs[n].name = x}
<1>1. DOMAIN vs = 1..Len(vs) /\ Len(vs) \in Nat
  OBVIOUS
<1>2. CASE hits = {}
  BY <1>1, <1>2 DEF Latest
<1>3. CASE hits # {}
  <2>1. hits \in SUBSET (1..Len(vs))
    BY <1>1
  <2>2. Latest(vs, x) = {vs[Max(hits)]}
    BY <1>3 DEF Latest
  <2> DEFINE m == Max(hits)
  <2>3. m \in hits /\ \A y \in hits : m >= y
    <3> HIDE DEF hits
    <3> QED BY <1>1, <1>3, <2>1, MaxOfPositions
  <2> HIDE DEF m
  <2>4. m \in 1..Len(vs) /\ vs[m].name = x
    BY <1>1, <2>3
  <2>5. \A n \in 1..Len(vs) : vs[n].name = x => n <= m
    BY <1>1, <2>3
  <2>6. QED
    BY <2>2, <2>4, <2>5 DEF m
<1>4. QED
  BY <1>2, <1>3

(* A variable just declared is the one its name is looked up to, and no    *)
(* other name is looked up to it.                                          *)
LEMMA LatestOfMore ==
  ASSUME NEW X, NEW vs \in Seq(X), NEW v \in X, NEW x
  PROVE  Latest(Append(vs, v), x) = IF v.name = x THEN {v} ELSE Latest(vs, x)
<1> DEFINE ws == Append(vs, v)
<1>1. /\ ws \in Seq(X) /\ Len(ws) = Len(vs) + 1 /\ ws[Len(ws)] = v
      /\ \A n \in 1..Len(vs) : ws[n] = vs[n]
      /\ Len(vs) \in Nat
  OBVIOUS
<1> HIDE DEF ws
<1>2. \/ Latest(ws, x) = {} /\ \A n \in 1..Len(ws) : ws[n].name # x
      \/ \E m \in 1..Len(ws) : /\ Latest(ws, x) = {ws[m]} /\ ws[m].name = x
                               /\ \A n \in 1..Len(ws) : ws[n].name = x => n <= m
  BY <1>1, LatestIsLast
<1>3. \/ Latest(vs, x) = {} /\ \A n \in 1..Len(vs) : vs[n].name # x
      \/ \E m \in 1..Len(vs) : /\ Latest(vs, x) = {vs[m]} /\ vs[m].name = x
                               /\ \A n \in 1..Len(vs) : vs[n].name = x => n <= m
  BY LatestIsLast
<1>4. CASE v.name = x
  <2>1. Len(ws) \in 1..Len(ws) /\ ws[Len(ws)].name = x
    BY <1>1, <1>4
  <2>2. PICK m \in 1..Len(ws) : /\ Latest(ws, x) = {ws[m]}
                                /\ \A n \in 1..Len(ws) : ws[n].name = x => n <= m
    BY <1>2, <2>1
  <2>3. m = Len(ws)
    BY <1>1, <2>1, <2>2
  <2>4. QED
    BY <1>1, <1>4, <2>2, <2>3 DEF ws
<1>5. CASE v.name # x
  <2>1. CASE \A n \in 1..Len(vs) : vs[n].name # x
    <3>1. Latest(vs, x) = {}
      BY <1>3, <2>1
    <3>2. \A n \in 1..Len(ws) : ws[n].name # x
      BY <1>1, <1>5, <2>1
    <3>3. Latest(ws, x) = {}
      BY <1>2, <3>2
    <3>4. QED
      BY <1>5, <3>1, <3>3 DEF ws
  <2>2. CASE \E n \in 1..Len(vs) : vs[n].name = x
    <3>1. PICK m \in 1..Len(vs) : /\ Latest(vs, x) = {vs[m]} /\ vs[m].name = x
                                  /\ \A n \in 1..Len(vs) : vs[n].name = x => n <= m
      BY <1>3, <2>2
    <3>2. m \in 1..Len(ws) /\ ws[m] = vs[m]
      BY <1>1
    <3>3. PICK k \in 1..Len(ws) : /\ Latest(ws, x) = {ws[k]} /\ ws[k].name = x
                                  /\ \A n \in 1..Len(ws) : ws[n].name = x => n <= k
      BY <1>2, <3>1, <3>2
    <3>4. k \in 1..Len(vs) /\ ws[k] = vs[k]
      BY <1>1, <1>5, <3>3
    <3>5. m <= k /\ k <= m
      BY <3>1, <3>2, <3>3, <3>4
    <3>6. m = k
      BY <3>5
    <3>7. QED
      BY <1>5, <3>1, <3>2, <3>3, <3>6 DEF ws
  <2>3. QED
    BY <2>1, <2>2
<1>6. QED
  BY <1>4, <1>5

IsKarya(p, i) == p[i][1].k = "karya"

(* What Compiler allows of a binding, on a program p.                      *)
Agrees(p, b) ==
  \/ b \in S!LexicalBindings(p)
  \/ b[1] = b[3]
  \/ /\ IsKarya(p, b[1][1]) /\ ~IsKarya(p, b[3][1])
     /\ \/ S!BlockOf(p, <<b[3][1], b[3][2]>>) # S!TopLevel
        \/ S!At(p, <<b[3][1], b[3][2]>>).k = "pratyek"

(* The name x is found, and what is found agrees.                          *)
Found(p, vs, gs, use, x) ==
  /\ FindVar(vs, gs, x) # {}
  /\ \A v \in FindVar(vs, gs, x) : Agrees(p, <<use, x, v.site>>)

(* Each of the globals is a variable the top level declares, in a block or *)
(* not.                                                                    *)
OfTopLevel(p, gs) ==
  \A n \in 1..Len(gs) :
    \E d \in S!Declarations(p) : /\ d.name = gs[n].name /\ d.site = gs[n].site
                                 /\ ~IsKarya(p, d.site[1])

(* In an accepted program a function is the first node of its statement.   *)
LEMMA KaryaIsFirst ==
  ASSUME NEW p \in S!Program, S!WellFormed(p), NEW w \in S!Nodes(p),
         S!At(p, w).k = "karya"
  PROVE  w[2] = 1 /\ IsKarya(p, w[1])
<1>1. S!FunctionsAreTopLevelAndDistinct(p)
  BY DEF S!WellFormed
<1>2. w[2] = 1
  BY <1>1 DEF S!FunctionsAreTopLevelAndDistinct
<1>3. QED
  BY <1>2 DEF S!At, IsKarya

(* A declaration of the top level that is no block's is the only one of    *)
(* its name; another of that name is of a block.                           *)
LEMMA GlobalIsNested ==
  ASSUME NEW p \in S!Program, S!IsTree(p), S!WellFormed(p),
         NEW c \in S!Declarations(p), c.block = S!TopLevel,
         NEW d \in S!Declarations(p), d.name = c.name, ~IsKarya(p, d.site[1])
  PROVE  \/ d.site = c.site
         \/ S!BlockOf(p, <<d.site[1], d.site[2]>>) # S!TopLevel
         \/ S!At(p, <<d.site[1], d.site[2]>>).k = "pratyek"
<1>1. PICK w \in S!Nodes(p) : d \in S!DeclarationsAt(p, w)
  BY DEF S!Declarations
<1>2. /\ d.site = <<w[1], w[2], d.site[3]>>
      /\ S!At(p, w).k = "decl" => d.block = S!BlockOf(p, w)
  BY <1>1, S!DeclarationShape, Source
<1>3. w = <<w[1], w[2]>>
  BY S!NodeShape, Source
<1>4. <<d.site[1], d.site[2]>> = w
  BY <1>2, <1>3
<1>5. S!At(p, w).k \in {"decl", "pratyek", "karya"}
  BY <1>1 DEF S!DeclarationsAt
<1>6. S!At(p, w).k # "karya"
  BY <1>2, <1>3, KaryaIsFirst
<1>7. d.block = S!TopLevel => d.site = c.site
  BY DEF S!WellFormed, S!NoDuplicates
<1>8. QED
  BY <1>2, <1>4, <1>5, <1>6, <1>7

(* The list of variables holds F, of the declarations E a use may refer    *)
(* to; those left out are of the top level, and among the globals.  Then   *)
(* the use finds what it refers to.                                        *)
LEMMA FoundRight ==
  ASSUME NEW p \in S!Program, S!IsTree(p), S!WellFormed(p),
         NEW w \in S!Nodes(p), NEW u \in S!UsesAt(S!At(p, w)),
         NEW E \in SUBSET S!Declarations(p), NEW F \in SUBSET E,
         S!Referent(p, w, u) = S!LastOf({d \in E : d.name = u[2]}),
         \A d \in S!LastOf({c \in F : c.name = u[2]}) :
           d \in S!LastOf({c \in E : c.name = u[2]}),
         NEW vs \in Seq(VarRecord), S!Holds(vs, Len(vs), F),
         NEW gs \in Seq(VarRecord), OfTopLevel(p, gs),
         \A d \in E : d \in F \/ /\ d.block = S!TopLevel /\ IsKarya(p, w[1])
                                 /\ \E n \in 1..Len(gs) : gs[n].name = d.name
  PROVE  Found(p, vs, gs, <<w[1], w[2], u[1]>>, u[2])
<1> DEFINE use == <<w[1], w[2], u[1]>>
           x == u[2]
<1>1. PICK r : r \in S!Referent(p, w, u)
  BY DEF S!WellFormed, S!NamesAreDeclared
<1>2. r \in E /\ r.name = x /\ r \in S!Declarations(p)
  BY <1>1 DEF S!LastOf
<1>3. \A d \in S!Referent(p, w, u) : <<use, x, d.site>> \in S!LexicalBindings(p)
  BY DEF S!LexicalBindings
<1>4. CASE \E n \in 1..Len(vs) : vs[n].name = x
  <2>1. PICK m \in 1..Len(vs) : /\ Latest(vs, x) = {vs[m]} /\ vs[m].name = x
                                /\ \A n \in 1..Len(vs) : vs[n].name = x => n <= m
    BY <1>4, LatestIsLast
  <2>2. FindVar(vs, gs, x) = {vs[m]}
    BY <2>1 DEF FindVar
  <2>3. F \in SUBSET S!Declarations(p)
    OBVIOUS
  <2>4. PICK d \in S!LastOf({c \in F : c.name = x}) : d.site = vs[m].site
    <3> HIDE DEF x
    <3> QED BY <2>1, <2>3, S!HoldsLast, Source
  <2>5. d \in S!Referent(p, w, u)
    BY <2>4
  <2>6. Agrees(p, <<use, x, vs[m].site>>)
    BY <1>3, <2>4, <2>5 DEF Agrees
  <2>7. QED
    BY <2>2, <2>6 DEF Found
<1>5. CASE \A n \in 1..Len(vs) : vs[n].name # x
  <2>1. Latest(vs, x) = {}
    BY <1>5, LatestIsLast
  <2>2. r \notin F
    <3>1. SUFFICES ASSUME r \in F PROVE FALSE
      OBVIOUS
    <3>2. \E n \in 1..Len(vs) : r.name = vs[n].name
      BY <3>1, S!HoldsAll, Source
    <3>3. QED
      BY <1>2, <1>5, <3>2
  <2>3. /\ r.block = S!TopLevel /\ IsKarya(p, w[1])
        /\ \E n \in 1..Len(gs) : gs[n].name = x
    BY <1>2, <2>2
  <2>4. PICK m \in 1..Len(gs) : Latest(gs, x) = {gs[m]} /\ gs[m].name = x
    BY <2>3, LatestIsLast
  <2>5. FindVar(vs, gs, x) = {gs[m]}
    BY <2>1, <2>4 DEF FindVar
  <2>6. PICK d \in S!Declarations(p) : /\ d.name = gs[m].name /\ d.site = gs[m].site
                                       /\ ~IsKarya(p, d.site[1])
    BY DEF OfTopLevel
  <2>7. \/ d.site = r.site
        \/ S!BlockOf(p, <<d.site[1], d.site[2]>>) # S!TopLevel
        \/ S!At(p, <<d.site[1], d.site[2]>>).k = "pratyek"
    BY <1>2, <2>3, <2>4, <2>6, GlobalIsNested
  <2> DEFINE b == <<use, x, gs[m].site>>
  <2>8. b[1] = use /\ b[3] = d.site /\ b[1][1] = w[1]
    BY <2>6
  <2>9. d.site = r.site => b \in S!LexicalBindings(p)
    BY <1>1, <1>3, <2>6
  <2> HIDE DEF b
  <2>10. Agrees(p, b)
    BY <2>3, <2>6, <2>7, <2>8, <2>9 DEF Agrees
  <2>11. QED
    BY <2>5, <2>10 DEF Found, b
<1>6. QED
  BY <1>4, <1>5

-----------------------------------------------------------------------------
(* What the names of a part of a node are resolved to.                     *)

OfUse(p, b) ==
  \E w \in S!Nodes(p) : \E u \in S!UsesAt(S!At(p, w)) :
    b[1] = <<w[1], w[2], u[1]>> /\ b[2] = u[2]

Bound(bs, w, u) == \E b \in bs : b[1] = <<w[1], w[2], u[1]>> /\ b[2] = u[2]

(* The part's uses are those of part n of the node at w.                   *)
LEMMA ResolvedFound ==
  ASSUME NEW p, NEW w \in S!Nodes(p), NEW n, NEW names, NEW vs, NEW gs,
         \A x \in names : \E u \in S!UsesAt(S!At(p, w)) : u[1] = n /\ u[2] = x,
         \A x \in names : Found(p, vs, gs, <<w[1], w[2], n>>, x),
         NEW bs, bs = Resolved(vs, gs, names, <<w[1], w[2], n>>)
  PROVE  /\ ~Throws(vs, gs, names)
         /\ \A b \in bs : OfUse(p, b) /\ Agrees(p, b)
         /\ \A u : u[1] = n /\ u[2] \in names => Bound(bs, w, u)
<1> DEFINE use == <<w[1], w[2], n>>
<1>1. ~Throws(vs, gs, names)
  BY DEF Throws, Found
<1>2. ASSUME NEW b \in bs PROVE OfUse(p, b) /\ Agrees(p, b)
  <2>1. PICK x \in names : \E v \in FindVar(vs, gs, x) : b = <<use, x, v.site>>
    BY DEF Resolved
  <2>2. PICK v \in FindVar(vs, gs, x) : b = <<use, x, v.site>>
    BY <2>1
  <2>3. PICK u \in S!UsesAt(S!At(p, w)) : u[1] = n /\ u[2] = x
    OBVIOUS
  <2>4. OfUse(p, b)
    BY <2>2, <2>3 DEF OfUse
  <2>5. Agrees(p, b)
    BY <2>2 DEF Found
  <2>6. QED
    BY <2>4, <2>5
<1>3. ASSUME NEW u, u[1] = n, u[2] \in names
      PROVE  Bound(bs, w, u)
  <2>1. PICK v : v \in FindVar(vs, gs, u[2])
    BY <1>3 DEF Found
  <2>2. <<use, u[2], v.site>> \in bs
    BY <1>3, <2>1 DEF Resolved
  <2>3. QED
    BY <1>3, <2>2 DEF Bound
<1>4. QED
  BY <1>1, <1>2, <1>3

(* The names the generator takes from a statement or from expressions are  *)
(* those of their uses.                                                    *)
LEMMA SimpleNames ==
  ASSUME NEW s, NEW n
  PROVE  /\ \A x \in References(s) : \E u \in S!SimpleUses(s, n) : u[1] = n /\ u[2] = x
         /\ \A u \in S!SimpleUses(s, n) : u[1] = n /\ u[2] \in References(s)
<1> DEFINE us == S!SimpleUses(s, n)
<1>1. (\A u \in us : S!IsUse(n, u)) /\ S!References(s) = {u[2] : u \in us}
  BY S!SimpleNamesUsed, Source
<1>2. References(s) = S!References(s)
  BY DEF References, S!References, Mentions, S!Mentions, OwnExprs, S!OwnExprs
<1>3. \A u \in us : u[1] = n
  <2>1. \A u, y, z : u = <<n, y, z>> => u[1] = n
    OBVIOUS
  <2>2. QED
    BY <1>1, <2>1 DEF S!IsUse
<1>4. QED
  BY <1>1, <1>2, <1>3

LEMMA ExprNamesAre ==
  ASSUME NEW es, NEW n
  PROVE  /\ \A x \in ExprNames(es) : \E u \in S!UsesIn(es, n) : u[1] = n /\ u[2] = x
         /\ \A u \in S!UsesIn(es, n) : u[1] = n /\ u[2] \in ExprNames(es)
<1> DEFINE us == S!UsesIn(es, n)
<1>1. (\A u \in us : S!IsUse(n, u)) /\ S!ExprNames(es) = {u[2] : u \in us}
  BY S!ExprNamesUsed, Source
<1>2. ExprNames(es) = S!ExprNames(es)
  BY DEF ExprNames, S!ExprNames, Mentions, S!Mentions
<1>3. \A u \in us : u[1] = n
  <2>1. \A u, y, z : u = <<n, y, z>> => u[1] = n
    OBVIOUS
  <2>2. QED
    BY <1>1, <2>1 DEF S!IsUse
<1>4. QED
  BY <1>1, <1>2, <1>3

(* The uses at a node, part by part.                                       *)
PlainNames(n) ==
  IF n.k \in S!SimpleKinds THEN References(n) ELSE ExprNames(AllExprs(n))

LEMMA PlainUses ==
  ASSUME NEW n, n.k # "pratyek"
  PROVE  /\ \A x \in PlainNames(n) : \E u \in S!UsesAt(n) : u[1] = 0 /\ u[2] = x
         /\ \A u \in S!UsesAt(n) : u[1] = 0 /\ u[2] \in PlainNames(n)
<1>1. CASE n.k \in S!SimpleKinds
  <2>1. S!UsesAt(n) = S!SimpleUses(n, 0) /\ PlainNames(n) = References(n)
    BY <1>1 DEF S!UsesAt, PlainNames
  <2>2. QED
    BY <2>1, SimpleNames
<1>2. CASE n.k \notin S!SimpleKinds
  <2>1. AllExprs(n) = S!AllExprs(n)
    BY <1>2 DEF AllExprs, S!AllExprs, OwnExprs, S!OwnExprs, SimpleKinds, S!SimpleKinds
  <2>2. S!UsesAt(n) = S!UsesIn(S!AllExprs(n), 0)
    BY <1>2 DEF S!UsesAt, S!UsesIn
  <2>3. PlainNames(n) = ExprNames(S!AllExprs(n))
    BY <1>2, <2>1 DEF PlainNames
  <2>4. QED
    BY <2>2, <2>3, ExprNamesAre
<1>3. QED
  BY <1>1, <1>2

LEMMA HeaderUses ==
  ASSUME NEW n, n.k = "pratyek"
  PROVE  /\ \A x \in References(n.init) : \E u \in S!UsesAt(n) : u[1] = 1 /\ u[2] = x
         /\ \A x \in Mentions(n.cond) : \E u \in S!UsesAt(n) : u[1] = 2 /\ u[2] = x
         /\ \A x \in References(n.step) : \E u \in S!UsesAt(n) : u[1] = 3 /\ u[2] = x
         /\ \A u \in S!UsesAt(n) :
              \/ u[1] = 1 /\ u[2] \in References(n.init)
              \/ u[1] = 2 /\ u[2] \in Mentions(n.cond)
              \/ u[1] = 3 /\ u[2] \in References(n.step)
<1>1. S!UsesAt(n) = S!SimpleUses(n.init, 1) \cup S!ExprUses(n.cond, 2)
                      \cup S!SimpleUses(n.step, 3)
  BY DEF S!UsesAt, S!SimpleKinds
<1>2. S!UsesIn({n.cond}, 2) = S!ExprUses(n.cond, 2)
  BY DEF S!UsesIn
<1>3. ExprNames({n.cond}) = Mentions(n.cond)
  BY DEF ExprNames
<1>4. /\ \A x \in Mentions(n.cond) :
           \E u \in S!ExprUses(n.cond, 2) : u[1] = 2 /\ u[2] = x
      /\ \A u \in S!ExprUses(n.cond, 2) : u[1] = 2 /\ u[2] \in Mentions(n.cond)
  BY <1>2, <1>3, ExprNamesAre
<1>5. QED
  BY <1>1, <1>4, SimpleNames

-----------------------------------------------------------------------------
(* What the generator finds from a place in its walk.                      *)

(* Outside a function the list holds all that is in scope, in one what is  *)
(* from inside it.                                                         *)
Outside(p, i) == IF IsKarya(p, i) THEN {S!TopLevel} ELSE {}

(* All that is declared in the top level is among the globals.             *)
AllGlobals(p, gs) ==
  \A d \in S!Declarations(p) :
    ~IsKarya(p, d.site[1]) => \E n \in 1..Len(gs) : gs[n].name = d.name

(* Within a construct no declaration is of the top level.                  *)
LEMMA DeclaredInside ==
  ASSUME NEW p \in S!Program, S!IsTree(p), NEW w \in S!Nodes(p),
         IsKarya(p, w[1]) => w[2] > 1
  PROVE  S!DeclaredAt(p, w, Outside(p, w[1])) = S!DeclarationsAt(p, w)
<1>1. ASSUME IsKarya(p, w[1]), NEW d \in S!DeclarationsAt(p, w)
      PROVE  d.block # S!TopLevel
  BY <1>1, S!TopLevelIsOutside, Source
<1>2. QED
  BY <1>1 DEF S!DeclaredAt, Outside

(* A declaration left out of the list is of the top level.                 *)
LEMMA LeftOutIsGlobal ==
  ASSUME NEW p \in S!Program, S!IsTree(p), NEW i, NEW q,
         NEW d \in S!InScope(p, i, q, {}), d \notin S!InScope(p, i, q, Outside(p, i))
  PROVE  /\ d.block = S!TopLevel /\ IsKarya(p, i) /\ ~IsKarya(p, d.site[1])
         /\ d \in S!Declarations(p)
<1>1. d \in S!Met(p, i, q) /\ d.block = S!TopLevel /\ IsKarya(p, i)
  BY DEF S!InScope, Outside
<1>2. PICK v \in S!Nodes(p) : d \in S!DeclarationsAt(p, v)
  BY <1>1 DEF S!Met, S!Visited
<1>3. p[v[1]][1].k # "karya"
  BY <1>1, <1>2, S!TopLevelStatement, Source
<1>4. d.site = <<v[1], v[2], d.site[3]>>
  BY <1>2, S!DeclarationShape, Source
<1>5. d.site[1] = v[1]
  BY <1>4
<1>6. QED
  BY <1>1, <1>2, <1>3, <1>5 DEF IsKarya, S!Declarations

(* A use at a node is found in a list that holds what is in scope there,   *)
(* for the condition and the step of a for with what its initialiser       *)
(* declared.                                                               *)
LEMMA PartFound ==
  ASSUME NEW p \in S!Program, S!IsTree(p), S!WellFormed(p),
         NEW w \in S!Nodes(p), S!At(p, w).k # "close",
         NEW u \in S!UsesAt(S!At(p, w)),
         NEW D,
         \/ D = {} /\ (u[1] = 0 \/ (u[1] = 1 /\ S!At(p, w).k = "pratyek"))
         \/ /\ D = S!DeclarationsAt(p, w) /\ u[1] \in {2, 3}
            /\ S!At(p, w).k = "pratyek",
         NEW vs \in Seq(VarRecord),
         S!Holds(vs, Len(vs), S!InScope(p, w[1], w[2], Outside(p, w[1])) \cup D),
         NEW gs \in Seq(VarRecord), OfTopLevel(p, gs),
         IsKarya(p, w[1]) => AllGlobals(p, gs)
  PROVE  Found(p, vs, gs, <<w[1], w[2], u[1]>>, u[2])
<1> DEFINE i == w[1]
           q == w[2]
           out == Outside(p, i)
           E == S!InScope(p, i, q, {}) \cup D
           F == S!InScope(p, i, q, out) \cup D
           x == u[2]
<1>1. /\ i \in DOMAIN p /\ q \in DOMAIN p[i] /\ w = <<i, q>>
  BY S!NodeShape, Source
<1>2. S!DeclaredAt(p, w, {}) = S!DeclarationsAt(p, w)
  BY DEF S!DeclaredAt
<1>3. D \subseteq S!DeclarationsAt(p, w)
  OBVIOUS
<1>4. \A c \in D : c.site[1] = i
  <2>1. \A c \in D : c.site = <<w[1], w[2], c.site[3]>>
    BY <1>3, S!DeclarationShape, Source
  <2>2. QED
    BY <2>1
<1>5. E \in SUBSET S!Declarations(p)
  <2>1. S!InScope(p, i, q, {}) \subseteq S!Declarations(p)
    <3>1. S!Met(p, i, q) \subseteq S!Declarations(p)
      BY S!MetDeclared, Source
    <3>2. QED
      BY <3>1 DEF S!InScope
  <2>2. S!DeclarationsAt(p, w) \subseteq S!Declarations(p)
    BY DEF S!Declarations
  <2>3. QED
    BY <1>3, <2>1, <2>2
<1>6. F \in SUBSET E
  BY DEF S!InScope
<1>7. S!Referent(p, w, u) = S!LastOf({d \in E : d.name = x})
  <2>1. CASE D = {} /\ (u[1] = 0 \/ (u[1] = 1 /\ S!At(p, w).k = "pratyek"))
    <3>1. S!Referent(p, w, u) =
            S!LastOf({d \in S!InScope(p, w[1], w[2], {}) : d.name = u[2]})
      BY <2>1, S!ReferentInScope, Source
    <3>2. QED
      BY <2>1, <3>1
  <2>2. CASE D = S!DeclarationsAt(p, w) /\ u[1] \in {2, 3} /\ S!At(p, w).k = "pratyek"
    <3>1. S!Referent(p, w, u) =
            S!LastOf({d \in S!InScope(p, w[1], w[2], {}) \cup S!DeclaredAt(p, w, {}) :
                        d.name = u[2]})
      BY <2>2, S!ReferentInHeader, Source
    <3>2. QED
      BY <1>2, <2>2, <3>1
  <2>3. QED
    BY <2>1, <2>2
<1>8. ASSUME NEW d \in S!LastOf({c \in F : c.name = x})
      PROVE  d \in S!LastOf({c \in E : c.name = x})
  <2>1. CASE ~IsKarya(p, i)
    BY <2>1 DEF Outside
  <2>2. CASE IsKarya(p, i)
    <3>1. out = {S!TopLevel} /\ p[i][1].k = "karya"
      BY <2>2 DEF Outside, IsKarya
    <3>2. d \in S!LastNamed(S!InScope(p, i, q, {S!TopLevel}) \cup D, x)
      BY <3>1 DEF S!LastNamed
    <3> HIDE DEF i, q, x, E, F, out
    <3>3. d \in S!LastNamed(S!InScope(p, i, q, {}) \cup D, x)
      BY <1>1, <1>4, <3>1, <3>2, S!LocalHides, Source, Zenon
    <3>4. QED
      BY <3>3 DEF E, S!LastNamed
  <2>3. QED
    BY <2>1, <2>2
<1>9. ASSUME NEW d \in E, d \notin F
      PROVE  /\ d.block = S!TopLevel /\ IsKarya(p, w[1])
             /\ \E n \in 1..Len(gs) : gs[n].name = d.name
  <2>1. d \in S!InScope(p, i, q, {}) /\ d \notin S!InScope(p, i, q, Outside(p, i))
    BY <1>9
  <2>2. /\ d.block = S!TopLevel /\ IsKarya(p, i) /\ ~IsKarya(p, d.site[1])
        /\ d \in S!Declarations(p)
    BY <2>1, LeftOutIsGlobal
  <2>3. QED
    BY <2>2 DEF AllGlobals
<1> HIDE DEF E, F
<1>10. S!Holds(vs, Len(vs), F)
  BY DEF F
<1>11. QED
  BY <1>5, <1>6, <1>7, <1>8, <1>9, <1>10, FoundRight

(* With its own variable declared before it, an initialiser still finds    *)
(* what it would have found, or that variable.                             *)
LEMMA FoundAfterDeclared ==
  ASSUME NEW p, NEW vs \in Seq(VarRecord), NEW gs \in Seq(VarRecord),
         NEW use, NEW x, Found(p, vs, gs, use, x),
         NEW v \in VarRecord, v.site = use,
         NEW hs, hs = gs \/ hs = Append(gs, v)
  PROVE  Found(p, Append(vs, v), hs, use, x)
<1>1. Latest(Append(vs, v), x) = IF v.name = x THEN {v} ELSE Latest(vs, x)
  BY LatestOfMore
<1>2. CASE v.name = x
  <2>1. FindVar(Append(vs, v), hs, x) = {v}
    BY <1>1, <1>2 DEF FindVar
  <2>2. Agrees(p, <<use, x, v.site>>)
    BY DEF Agrees
  <2>3. QED
    BY <2>1, <2>2 DEF Found
<1>3. CASE v.name # x
  <2>1. Latest(hs, x) = Latest(gs, x)
    <3>1. Latest(Append(gs, v), x) = IF v.name = x THEN {v} ELSE Latest(gs, x)
      BY LatestOfMore
    <3>2. Latest(Append(gs, v), x) = Latest(gs, x)
      BY <1>3, <3>1
    <3> HIDE <3>1
    <3>3. QED
      BY <3>2
  <2>2. FindVar(Append(vs, v), hs, x) = FindVar(vs, gs, x)
    BY <1>1, <1>3, <2>1 DEF FindVar
  <2>3. QED
    BY <2>2 DEF Found
<1>4. QED
  BY <1>2, <1>3

-----------------------------------------------------------------------------
(* A step of the generator, at a node: where its walk is.                  *)

(* The frames of other constructs than a for are of other nodes.           *)
Matched(t, fs) ==
  \A n \in DOMAIN fs :
    fs[n].k \notin {"chain", "pratyek", "body"} => t[fs[n].at].k # "pratyek"

(* The walk is before node q of statement i, with these frames and         *)
(* variables.                                                              *)
WalkAt(p, i, q, vs, fs) ==
  /\ S!Nested(p[i], q)
  /\ S!Follows(p[i], q, fs)
  /\ S!Tracks(p, i, q, Outside(p, i), vs, fs)
  /\ Matched(p[i], fs)

(* The walk is at a node that is generated in this pass.                   *)
AtNode ==
  /\ prog \in S!Program /\ S!IsTree(prog) /\ S!WellFormed(prog)
  /\ item \in DOMAIN prog /\ pc \in DOMAIN prog[item]
  /\ frames \in Seq(FrameRecord) /\ vars \in Seq(VarRecord)
  /\ WalkAt(prog, item, pc, vars, frames)
  /\ IsKarya(prog, item) => pc > 1

(* The step took it past the node.                                         *)
Moved == WalkAt(prog, item, pc + 1, vars', frames')

LEMMA NodeHere ==
  ASSUME AtNode
  PROVE  /\ <<item, pc>> \in S!Nodes(prog) /\ S!At(prog, <<item, pc>>) = node
         /\ item \in Nat \ {0} /\ pc \in Nat \ {0}
         /\ prog[item] \in Seq(S!Node) /\ S!Bracketed(prog[item])
         /\ S!IsStatement(prog[item]) /\ node = prog[item][pc]
<1>1. /\ <<item, pc>> \in S!Nodes(prog) /\ S!At(prog, <<item, pc>>) = prog[item][pc]
      /\ item \in Nat \ {0} /\ pc \in Nat \ {0}
  BY S!NodeAt, Source DEF AtNode
<1>2. /\ prog[item] \in Seq(S!Node) /\ S!Bracketed(prog[item])
      /\ S!IsStatement(prog[item])
  BY S!TreeBracketed, Source DEF AtNode
<1>3. QED
  BY <1>1, <1>2 DEF node

(* After a node that closes no block.                                      *)
LEMMA Onward ==
  ASSUME AtNode, node.k # "close"
  PROVE  /\ S!Nested(prog[item], pc + 1)
         /\ S!Unclosed(prog[item], pc + 1) =
              S!Unclosed(prog[item], pc)
                \cup (IF node.k \in S!OpenKinds THEN {pc} ELSE {})
<1> DEFINE t == prog[item]
<1>1. /\ t \in Seq(S!Node) /\ S!Bracketed(t) /\ pc \in DOMAIN t /\ node = t[pc]
      /\ t[pc].k # "close" /\ S!Nested(t, pc)
  BY NodeHere DEF AtNode, WalkAt
<1> HIDE DEF t
<1>2. /\ S!Nested(t, pc + 1)
      /\ S!Unclosed(t, pc + 1) =
           S!Unclosed(t, pc) \cup (IF t[pc].k \in S!OpenKinds THEN {pc} ELSE {})
  BY <1>1, S!NestedNext, Source
<1>3. QED
  BY <1>1, <1>2 DEF t

(* A node that opens no block and declares nothing.                        *)
LEMMA MovesPass ==
  ASSUME AtNode, node.k \notin S!OpenKinds \cup {"close", "decl"},
         frames' = frames, vars' = vars
  PROVE  Moved
<1> DEFINE t == prog[item]
<1>1. /\ t \in Seq(S!Node) /\ S!Bracketed(t) /\ pc \in DOMAIN t /\ node = t[pc]
      /\ t[pc].k \notin S!OpenKinds /\ t[pc].k # "close"
      /\ t[pc].k \notin {"close", "decl", "pratyek", "karya"}
  BY NodeHere DEF AtNode, S!OpenKinds
<1>2. /\ S!Nested(t, pc) /\ S!Follows(t, pc, frames) /\ Matched(t, frames)
      /\ S!Tracks(prog, item, pc, Outside(prog, item), vars, frames)
  BY DEF AtNode, WalkAt
<1>3. S!Nested(t, pc + 1) /\ S!Unclosed(t, pc + 1) = S!Unclosed(t, pc)
  <2>1. node.k # "close" /\ node.k \notin S!OpenKinds
    BY <1>1
  <2>2. /\ S!Nested(t, pc + 1)
        /\ S!Unclosed(t, pc + 1) =
             S!Unclosed(t, pc) \cup (IF node.k \in S!OpenKinds THEN {pc} ELSE {})
    BY <2>1, Onward
  <2> HIDE DEF t
  <2>3. QED
    BY <2>1, <2>2
<1>4. S!Follows(t, pc + 1, frames)
  BY <1>2, <1>3 DEF S!Follows
<1>5. S!Tracks(prog, item, pc + 1, Outside(prog, item), vars, frames)
  BY <1>1, <1>2, S!TracksPass, Source DEF AtNode
<1>6. QED
  BY <1>2, <1>3, <1>4, <1>5 DEF Moved, WalkAt

(* A declaration.                                                          *)
LEMMA MovesDeclare ==
  ASSUME AtNode, node.k = "decl", frames' = frames,
         NEW v \in VarRecord, vars' = Append(vars, v),
         v.name = node.x, v.site = <<item, pc, 0>>
  PROVE  Moved
<1> DEFINE t == prog[item]
           w == <<item, pc>>
           out == Outside(prog, item)
           ws == Append(vars, v)
<1>1. /\ t \in Seq(S!Node) /\ S!Bracketed(t) /\ pc \in DOMAIN t /\ node = t[pc]
      /\ t[pc].k \notin S!OpenKinds /\ t[pc].k # "close"
      /\ w \in S!Nodes(prog) /\ S!At(prog, w) = t[pc]
  BY NodeHere DEF AtNode, S!OpenKinds
<1>2. /\ S!Nested(t, pc) /\ S!Follows(t, pc, frames) /\ Matched(t, frames)
      /\ S!Tracks(prog, item, pc, out, vars, frames)
  BY DEF AtNode, WalkAt
<1>3. S!Nested(t, pc + 1) /\ S!Unclosed(t, pc + 1) = S!Unclosed(t, pc)
  BY <1>1, Onward
<1>4. S!Follows(t, pc + 1, frames)
  BY <1>2, <1>3 DEF S!Follows
<1>5. S!Holds(vars, Len(vars), S!InScope(prog, item, pc, out))
  BY <1>2 DEF S!Tracks
<1>6. S!Holds(ws, Len(ws), S!InScope(prog, item, pc, out)
                             \cup S!DeclaredAt(prog, w, out))
  <2>1. S!DeclaredAt(prog, w, out) = S!DeclarationsAt(prog, w)
    BY <1>1, DeclaredInside DEF AtNode
  <2>2. w[1] = item /\ w[2] = pc
    OBVIOUS
  <2>3. /\ v.name = t[pc].x /\ v.site[1] = w[1]
        /\ v.site = <<w[1], w[2], v.site[3]>> /\ v.site[3] = 0
    BY <1>1
  <2>4. S!At(prog, w).k \in S!SimpleKinds /\ S!At(prog, w).k # "pratyek"
        /\ t[pc].k = "decl"
    BY <1>1 DEF S!SimpleKinds
  <2> HIDE DEF w, out, t
  <2>5. S!Holds(vars, Len(vars), S!InScope(prog, w[1], w[2], out))
    BY <1>5, <2>2
  <2>6. ws = IF t[pc].k = "decl" THEN Append(vars, v) ELSE vars
    BY <2>4
  <2> HIDE DEF ws
  <2>7. S!Holds(ws, Len(ws), S!InScope(prog, w[1], w[2], out)
                               \cup S!DeclaredAt(prog, w, out))
    BY <1>1, <2>1, <2>3, <2>4, <2>5, <2>6, S!HoldsDeclared, Source DEF AtNode
  <2>8. QED
    BY <2>2, <2>7
<1>7. /\ Len(vars) \in 0..Len(ws) /\ \A j \in 1..Len(vars) : ws[j] = vars[j]
  BY DEF AtNode
<1>8. S!Tracks(prog, item, pc + 1, out, ws, frames)
  <2>1. /\ prog \in S!Program /\ S!IsTree(prog) /\ item \in DOMAIN prog
        /\ pc \in DOMAIN prog[item] /\ prog[item][pc].k # "close"
        /\ S!Nested(prog[item], pc)
    BY <1>1, <1>2 DEF AtNode
  <2> HIDE DEF ws, out
  <2> QED BY <1>2, <1>6, <1>7, <2>1, S!TracksDeclares, Source, Zenon
<1>9. QED
  BY <1>2, <1>3, <1>4, <1>8 DEF Moved, WalkAt

(* A node that opens a block other than a for or a function, after hs, the *)
(* frames that are kept.                                                   *)
LEMMA MovesOpen ==
  ASSUME AtNode, node.k \in S!OpenKinds \ {"pratyek", "karya"},
         NEW hs \in Seq(FrameRecord),
         S!Follows(prog[item], pc, hs), S!NoChain(hs),
         \A n \in DOMAIN hs : /\ n \in DOMAIN frames /\ hs[n].k = frames[n].k
                              /\ hs[n].at = frames[n].at /\ hs[n].mark = frames[n].mark,
         NEW f \in FrameRecord, f.at = pc, f.mark = Len(vars),
         f.k \notin {"chain", "body"},
         frames' = Append(hs, f), vars' = vars
  PROVE  Moved
<1> DEFINE t == prog[item]
           out == Outside(prog, item)
           fs == Append(hs, f)
<1>1. /\ t \in Seq(S!Node) /\ pc \in DOMAIN t /\ pc \in Nat /\ node = t[pc]
      /\ t[pc].k \in S!OpenKinds /\ t[pc].k # "close"
      /\ t[pc].k \notin {"close", "decl", "pratyek", "karya"}
      /\ t[pc].k # "pratyek"
  BY NodeHere DEF AtNode, S!OpenKinds
<1>2. /\ S!Nested(t, pc) /\ Matched(t, frames)
      /\ S!Tracks(prog, item, pc, out, vars, frames)
  BY DEF AtNode, WalkAt
<1>3. S!Nested(t, pc + 1) /\ S!Unclosed(t, pc + 1) = S!Unclosed(t, pc) \cup {pc}
  <2>1. node.k # "close" /\ node.k \in S!OpenKinds
    BY <1>1
  <2>2. /\ S!Nested(t, pc + 1)
        /\ S!Unclosed(t, pc + 1) =
             S!Unclosed(t, pc) \cup (IF node.k \in S!OpenKinds THEN {pc} ELSE {})
    BY <2>1, Onward
  <2> HIDE DEF t
  <2>3. QED
    BY <2>1, <2>2
<1>4. S!Follows(t, pc + 1, fs)
  <2> HIDE DEF t, fs
  <2>1. S!Follows(t, pc + 1, Append(hs, f)) /\ S!NoChain(Append(hs, f))
    BY <1>1, <1>3, S!FollowsOpen, Source, Zenon DEF t
  <2> QED BY <2>1 DEF fs
<1>5. S!Tracks(prog, item, pc + 1, out, vars, fs)
  <2>1. /\ prog \in S!Program /\ S!IsTree(prog) /\ item \in DOMAIN prog
        /\ pc \in DOMAIN prog[item] /\ f.k # "body"
        /\ prog[item][pc].k \notin {"close", "decl", "pratyek", "karya"}
        /\ S!Nested(prog[item], pc)
    BY <1>1, <1>2 DEF AtNode
  <2> HIDE DEF out, fs
  <2>2. S!Tracks(prog, item, pc + 1, out, vars, Append(hs, f))
    <3>1. S!Tracks(prog, item, pc, out, vars, frames)
      BY <1>2
    <3> HIDE <1>2
    <3>2. QED
      BY <2>1, <3>1, S!TracksOpen, Source, ZenonT(60)
  <2> QED BY <2>2 DEF fs
<1>6. Matched(t, fs)
  <2>1. ASSUME NEW n \in DOMAIN fs, fs[n].k \notin {"chain", "pratyek", "body"}
        PROVE  t[fs[n].at].k # "pratyek"
    <3>1. CASE n \in DOMAIN hs
      <4>1. fs[n] = hs[n] /\ n \in DOMAIN frames
        BY <3>1
      <4>2. QED
        BY <1>2, <2>1, <3>1, <4>1 DEF Matched
    <3>2. CASE n \notin DOMAIN hs
      <4>1. fs[n] = f
        BY <3>2
      <4>2. QED
        BY <1>1, <4>1
    <3>3. QED
      BY <3>1, <3>2
  <2>2. QED
    BY <2>1 DEF Matched
<1>7. QED
  BY <1>3, <1>4, <1>5, <1>6 DEF Moved, WalkAt

(* The header of a for.                                                    *)
LEMMA MovesFor ==
  ASSUME AtNode, node.k = "pratyek", S!NoChain(frames),
         NEW v,
         node.init.k = "decl" => v.name = node.init.x /\ v.site = <<item, pc, 1>>,
         NEW ws \in Seq(VarRecord),
         ws = IF node.init.k = "decl" THEN Append(vars, v) ELSE vars,
         NEW f \in FrameRecord, f.at = pc, f.mark = Len(vars), f.k = "pratyek",
         NEW g \in FrameRecord, g.at = pc, g.mark = Len(ws), g.k = "body",
         frames' = Append(Append(frames, f), g), vars' = ws
  PROVE  /\ Moved
         /\ S!Holds(ws, Len(ws), S!InScope(prog, item, pc, Outside(prog, item))
                                   \cup S!DeclarationsAt(prog, <<item, pc>>))
<1> DEFINE t == prog[item]
           w == <<item, pc>>
           out == Outside(prog, item)
           fs == Append(Append(frames, f), g)
<1>1. /\ t \in Seq(S!Node) /\ pc \in DOMAIN t /\ pc \in Nat /\ node = t[pc]
      /\ t[pc].k \in S!OpenKinds /\ t[pc].k # "close" /\ t[pc].k = "pratyek"
      /\ w \in S!Nodes(prog) /\ S!At(prog, w) = t[pc]
  BY NodeHere DEF AtNode, S!OpenKinds
<1>2. /\ S!Nested(t, pc) /\ Matched(t, frames) /\ S!Follows(t, pc, frames)
      /\ S!Tracks(prog, item, pc, out, vars, frames)
  BY DEF AtNode, WalkAt
<1>3. S!Nested(t, pc + 1) /\ S!Unclosed(t, pc + 1) = S!Unclosed(t, pc) \cup {pc}
  <2>1. node.k # "close" /\ node.k \in S!OpenKinds
    BY <1>1
  <2>2. /\ S!Nested(t, pc + 1)
        /\ S!Unclosed(t, pc + 1) =
             S!Unclosed(t, pc) \cup (IF node.k \in S!OpenKinds THEN {pc} ELSE {})
    BY <2>1, Onward
  <2> HIDE DEF t
  <2>3. QED
    BY <2>1, <2>2
<1>4. S!Follows(t, pc + 1, fs)
  <2>1. frames \in Seq(FrameRecord)
    BY DEF AtNode
  <2> HIDE DEF t, fs
  <2>2. /\ S!Follows(t, pc + 1, Append(Append(frames, f), g))
        /\ S!NoChain(Append(Append(frames, f), g))
    BY <1>1, <1>2, <1>3, <2>1, S!FollowsFor, Source, Zenon DEF t
  <2> QED BY <2>2 DEF fs
<1>5. S!Holds(vars, Len(vars), S!InScope(prog, item, pc, out))
  BY <1>2 DEF S!Tracks
<1>6. S!DeclaredAt(prog, w, out) = S!DeclarationsAt(prog, w)
  BY <1>1, DeclaredInside DEF AtNode
<1>7. S!Holds(ws, Len(ws), S!InScope(prog, item, pc, out)
                             \cup S!DeclaredAt(prog, w, out))
  <2>1. w[1] = item /\ w[2] = pc
    OBVIOUS
  <2>2. ws = S!Extended(vars, S!At(prog, w).init, v)
    BY <1>1 DEF S!Extended
  <2>3. S!At(prog, w).k = "pratyek"
    BY <1>1
  <2>4. S!At(prog, w).init.k = "decl" =>
          v.name = S!At(prog, w).init.x /\ v.site = <<w[1], w[2], 1>>
    BY <1>1
  <2> DEFINE X == VarRecord \cup {v}
  <2>5. vars \in Seq(X) /\ v \in X /\ prog \in S!Program /\ w \in S!Nodes(prog)
    <3>1. vars \in Seq(VarRecord)
      BY DEF AtNode
    <3>2. vars \in Seq(X)
      BY <3>1
    <3>3. QED
      BY <1>1, <3>2 DEF AtNode
  <2> HIDE DEF w, out, t, X
  <2>6. S!Holds(vars, Len(vars), S!InScope(prog, w[1], w[2], out))
    BY <1>5, <2>1
  <2>7. S!Holds(ws, Len(ws), S!InScope(prog, w[1], w[2], out)
                               \cup S!DeclaredAt(prog, w, out))
    BY <1>6, <2>2, <2>3, <2>4, <2>5, <2>6, S!HoldsInitialised, Source, Zenon
  <2>8. QED
    BY <2>1, <2>7
<1>8. Len(vars) \in 0..Len(ws) /\ \A j \in 1..Len(vars) : ws[j] = vars[j]
  BY DEF AtNode
<1>9. S!Tracks(prog, item, pc + 1, out, ws, fs)
  <2>1. /\ prog \in S!Program /\ S!IsTree(prog) /\ item \in DOMAIN prog
        /\ pc \in DOMAIN prog[item] /\ prog[item][pc].k # "close"
        /\ S!Nested(prog[item], pc) /\ frames \in Seq(FrameRecord)
    BY <1>1, <1>2 DEF AtNode
  <2> HIDE DEF out, fs
  <2>2. S!Tracks(prog, item, pc + 1, out, ws, Append(Append(frames, f), g))
    BY <1>2, <1>7, <1>8, <2>1, S!TracksFor, Source, Zenon
  <2> QED BY <2>2 DEF fs
<1>10. Matched(t, fs)
  <2>1. ASSUME NEW n \in DOMAIN fs, fs[n].k \notin {"chain", "pratyek", "body"}
        PROVE  t[fs[n].at].k # "pratyek"
    <3>1. frames \in Seq(FrameRecord)
      BY DEF AtNode
    <3>2. n \in DOMAIN frames /\ fs[n] = frames[n]
      BY <2>1, <3>1
    <3>3. QED
      BY <1>2, <2>1, <3>2 DEF Matched
  <2>2. QED
    BY <2>1 DEF Matched
<1>11. S!Holds(ws, Len(ws), S!InScope(prog, item, pc, out)
                              \cup S!DeclarationsAt(prog, w))
  BY <1>6, <1>7
<1>12. Moved
  <2> HIDE DEF fs
  <2>1. frames' = fs
    BY DEF fs
  <2>2. QED
    BY <1>3, <1>4, <1>9, <1>10, <2>1 DEF Moved, WalkAt
<1>13. QED
  BY <1>11, <1>12

(* The marks of the frames grow from the outermost in.                     *)
MarksGrow ==
  \A m, n \in DOMAIN frames : m < n => frames[m].mark <= frames[n].mark

(* What the frames left of a pop are.                                      *)
LEMMA FrontIs ==
  ASSUME NEW X, NEW s \in Seq(X), s # <<>>
  PROVE  /\ S!Front(s) \in Seq(X) /\ Len(S!Front(s)) = Len(s) - 1
         /\ \A n \in 1..(Len(s) - 1) : S!Front(s)[n] = s[n]
         /\ S!Last(s) = s[Len(s)] /\ Last(s) = s[Len(s)]
         /\ Front(s) = S!Front(s) /\ Len(s) \in 1..Len(s)
         /\ S!Last(s) \in X
<1>1. /\ Len(s) \in Nat /\ Len(s) # 0 /\ Len(s) \in 1..Len(s) /\ s[Len(s)] \in X
  OBVIOUS
<1>2. /\ Front(s) \in Seq(X) /\ Len(Front(s)) = Len(s) - 1
      /\ \A n \in 1..(Len(s) - 1) : Front(s)[n] = s[n]
  BY FrontProperties
<1>3. Front(s) = S!Front(s)
  BY DEF Front, S!Front
<1>4. S!Last(s) = s[Len(s)] /\ Last(s) = s[Len(s)]
  BY DEF S!Last, Last
<1>5. QED
  BY <1>1, <1>2, <1>3, <1>4

(* The end of a block other than a for: the frame goes, or becomes a chain. *)
LEMMA MovesClose ==
  ASSUME AtNode, node.k = "close", MarksGrow,
         frames # <<>>, Top.k \notin {"chain", "body"},
         NEW c \in FrameRecord, c.k = "chain",
         \/ frames' = Front(frames)
         \/ frames' = Append(Front(frames), c),
         vars' = Shrink(vars, Top.mark)
  PROVE  /\ Moved
         /\ S!Unclosed(prog[item], pc + 1) = S!Unclosed(prog[item], pc) \ {Top.at}
<1> DEFINE t == prog[item]
           out == Outside(prog, item)
           top == S!Last(frames)
           hs == S!Front(frames)
           h == Len(frames)
<1>1. /\ t \in Seq(S!Node) /\ S!Bracketed(t) /\ pc \in DOMAIN t /\ pc \in Nat
      /\ node = t[pc] /\ t[pc].k = "close"
  BY NodeHere DEF AtNode
<1>2. /\ S!Nested(t, pc) /\ Matched(t, frames) /\ S!Follows(t, pc, frames)
      /\ S!Tracks(prog, item, pc, out, vars, frames)
      /\ frames \in Seq(FrameRecord) /\ vars \in Seq(VarRecord)
  BY DEF AtNode, WalkAt
<1>3. /\ top = frames[h] /\ top = Top /\ h \in DOMAIN frames /\ h \in Nat
      /\ hs \in Seq(FrameRecord) /\ Len(hs) = h - 1
      /\ \A n \in 1..(h - 1) : hs[n] = frames[n]
      /\ hs = Front(frames) /\ top.k \notin {"chain", "body"}
      /\ top.k # "chain"
  <2>1. Top = Last(frames)
    BY DEF Top
  <2>2. /\ hs \in Seq(FrameRecord) /\ Len(hs) = h - 1
        /\ \A n \in 1..(h - 1) : hs[n] = frames[n]
        /\ top = frames[h] /\ Last(frames) = frames[h]
        /\ hs = Front(frames) /\ h \in 1..Len(frames)
    BY <1>2, FrontIs
  <2>3. h \in DOMAIN frames /\ h \in Nat
    BY <1>2, <2>2
  <2> HIDE DEF top, hs, h
  <2>4. QED
    BY <2>1, <2>2, <2>3
<1>4. /\ top.at \in S!Unclosed(t, pc) /\ \A r \in S!Unclosed(t, pc) : r <= top.at
  <2> HIDE DEF t
  <2> QED BY <1>1, <1>2, <1>3, S!FollowsTop, Source
<1>5. S!Nested(t, pc + 1) /\ S!Unclosed(t, pc + 1) = S!Unclosed(t, pc) \ {top.at}
  <2> HIDE DEF t, top
  <2> QED BY <1>1, <1>2, <1>4, S!NestedCloses, Source
<1>6. S!Follows(t, pc + 1, hs) /\ S!NoChain(hs)
  <2> HIDE DEF t
  <2> QED BY <1>1, <1>2, <1>3, <1>5, S!FollowsClose, Source
<1>7. S!Follows(t, pc + 1, frames') /\ S!Live(frames') = S!Live(hs)
  <2>1. CASE frames' = Front(frames)
    BY <1>3, <1>6, <2>1
  <2>2. CASE frames' = Append(Front(frames), c)
    <3> HIDE DEF t, hs
    <3>1. S!Follows(t, pc + 1, Append(hs, c)) /\ S!Live(Append(hs, c)) = S!Live(hs)
      BY <1>3, <1>6, S!FollowsWith, Source
    <3>2. QED
      BY <1>3, <2>2, <3>1
  <2>3. QED
    BY <2>1, <2>2
<1>8. \A n \in DOMAIN frames' : frames'[n].k # "chain" => n \in 1..(h - 1) /\ frames'[n] = frames[n]
  <2>1. CASE frames' = Front(frames)
    BY <1>3, <2>1
  <2>2. CASE frames' = Append(Front(frames), c)
    <3> HIDE DEF hs, h
    <3> QED BY <1>3, <2>2
  <2>3. QED
    BY <2>1, <2>2
<1>9. \A n \in S!Live(frames') :
        /\ n \in S!Live(frames) /\ frames'[n].k = frames[n].k
        /\ frames'[n].at = frames[n].at /\ frames'[n].mark = frames[n].mark
        /\ frames[n].mark <= frames[h].mark
  <2>1. ASSUME NEW n \in S!Live(frames')
        PROVE  /\ n \in S!Live(frames) /\ frames'[n] = frames[n]
               /\ frames[n].mark <= frames[h].mark
    <3>1. n \in DOMAIN frames' /\ frames'[n].k # "chain"
      BY DEF S!Live
    <3>2. n \in 1..(h - 1) /\ frames'[n] = frames[n] /\ n \in DOMAIN frames
      BY <1>2, <1>3, <1>8, <3>1
    <3>3. frames[n].mark <= frames[h].mark
      <4>1. n < h /\ h \in DOMAIN frames
        BY <1>3, <3>2
      <4> HIDE DEF h
      <4>2. QED
        BY <3>2, <4>1 DEF MarksGrow
    <3>4. QED
      BY <3>1, <3>2, <3>3 DEF S!Live
  <2>2. QED
    BY <2>1
<1>10. S!Tracks(prog, item, pc + 1, out, vars', frames')
  <2>1. /\ prog \in S!Program /\ S!IsTree(prog) /\ item \in DOMAIN prog
        /\ pc \in DOMAIN prog[item] /\ prog[item][pc].k = "close"
        /\ S!Nested(prog[item], pc)
    BY <1>1, <1>2 DEF AtNode
  <2>2. /\ h \in S!Live(frames) /\ frames[h].k # "body"
        /\ frames[h].at \in S!Unclosed(prog[item], pc)
        /\ \A r \in S!Unclosed(prog[item], pc) : r <= frames[h].at
    BY <1>3, <1>4 DEF S!Live
  <2>3. vars' = SubSeq(vars, 1, frames[h].mark)
    BY <1>3 DEF Shrink
  <2> DEFINE gs == frames'
  <2> HIDE DEF out, h, gs
  <2>4. S!Tracks(prog, item, pc + 1, out, SubSeq(vars, 1, frames[h].mark), gs)
    BY <1>2, <1>9, <2>1, <2>2, S!TracksClose, Source, ZenonT(60) DEF gs
  <2>5. QED
    BY <2>3, <2>4 DEF gs
<1>11. Matched(t, frames')
  BY <1>2, <1>3, <1>8 DEF Matched
<1>12. QED
  BY <1>3, <1>5, <1>7, <1>10, <1>11 DEF Moved, WalkAt

(* The end of a for: both its frames go.  The step is generated with the   *)
(* variables of the header still there.                                    *)
LEMMA MovesEndFor ==
  ASSUME AtNode, node.k = "close", MarksGrow,
         frames # <<>>, Top.k = "body", frames[Len(frames) - 1].k = "pratyek",
         frames' = Front(Front(frames)),
         NEW inside, inside = Shrink(vars, Top.mark),
         vars' = Shrink(inside, frames[Len(frames) - 1].mark)
  PROVE  /\ Moved
         /\ S!Unclosed(prog[item], pc + 1) = S!Unclosed(prog[item], pc) \ {Top.at}
         /\ <<item, Top.at>> \in S!Nodes(prog)
         /\ S!At(prog, <<item, Top.at>>).k = "pratyek"
         /\ inside \in Seq(VarRecord)
         /\ S!Holds(inside, Len(inside),
                    S!InScope(prog, item, Top.at, Outside(prog, item))
                      \cup S!DeclarationsAt(prog, <<item, Top.at>>))
<1> DEFINE t == prog[item]
           out == Outside(prog, item)
           top == S!Last(frames)
           h == Len(frames) - 1
           w == <<item, top.at>>
<1>1. /\ t \in Seq(S!Node) /\ S!Bracketed(t) /\ pc \in DOMAIN t /\ pc \in Nat
      /\ node = t[pc] /\ t[pc].k = "close"
  BY NodeHere DEF AtNode
<1>2. /\ S!Nested(t, pc) /\ Matched(t, frames) /\ S!Follows(t, pc, frames)
      /\ S!Tracks(prog, item, pc, out, vars, frames)
      /\ frames \in Seq(FrameRecord) /\ vars \in Seq(VarRecord)
  BY DEF AtNode, WalkAt
<1>3. top = Top /\ top = frames[Len(frames)] /\ top.k = "body"
  <2>1. top = frames[Len(frames)] /\ Last(frames) = frames[Len(frames)]
    BY <1>2, FrontIs
  <2>2. Top = Last(frames)
    BY DEF Top
  <2> HIDE DEF top
  <2>3. QED
    BY <2>1, <2>2
<1>4. top.at \in S!Unclosed(t, pc) /\ \A r \in S!Unclosed(t, pc) : r <= top.at
  <2> HIDE DEF t, top
  <2>1. S!Last(frames).k # "chain"
    BY <1>3 DEF top
  <2>2. /\ S!Last(frames).at \in S!Unclosed(t, pc)
        /\ \A r \in S!Unclosed(t, pc) : r <= S!Last(frames).at
    BY <1>1, <1>2, <2>1, S!FollowsTop, Source
  <2> QED BY <2>2 DEF top
<1>5. S!Nested(t, pc + 1) /\ S!Unclosed(t, pc + 1) = S!Unclosed(t, pc) \ {top.at}
  <2> HIDE DEF t, top
  <2> QED BY <1>1, <1>2, <1>4, S!NestedCloses, Source
<1>6. /\ Len(frames) > 1 /\ frames[h].at = top.at
      /\ h \in S!Live(frames) /\ Len(frames) \in S!Live(frames)
      /\ t[top.at].k = "pratyek"
      /\ S!Follows(t, pc + 1, S!Front(S!Front(frames)))
      /\ S!NoChain(S!Front(S!Front(frames)))
  <2>1. S!Last(frames).k = "body"
    BY <1>3
  <2>2. S!Unclosed(t, pc + 1) = S!Unclosed(t, pc) \ {S!Last(frames).at}
    BY <1>5
  <2> HIDE DEF t
  <2> QED BY <1>1, <1>2, <2>1, <2>2, S!FollowsEndFor, Source
<1>7. /\ frames' = S!Front(S!Front(frames)) /\ h \in Nat /\ Len(frames) \in Nat
      /\ DOMAIN frames' = 1..(h - 1) /\ \A n \in 1..(h - 1) : frames'[n] = frames[n]
  <2> DEFINE fs == S!Front(frames)
  <2>1. /\ fs \in Seq(FrameRecord) /\ Len(fs) = h /\ Front(frames) = fs
        /\ \A n \in 1..h : fs[n] = frames[n]
    BY <1>2, FrontIs
  <2>2. Len(frames) \in Nat /\ h \in Nat /\ fs # <<>>
    BY <1>2, <1>6, <2>1
  <2> HIDE DEF fs
  <2>3. /\ Front(fs) = S!Front(fs) /\ Len(S!Front(fs)) = Len(fs) - 1
        /\ S!Front(fs) \in Seq(FrameRecord)
        /\ \A n \in 1..(Len(fs) - 1) : S!Front(fs)[n] = fs[n]
    BY <2>1, <2>2, FrontIs
  <2> HIDE DEF h
  <2>4. frames' = S!Front(fs)
    BY <2>1, <2>3
  <2>5. DOMAIN frames' = 1..(h - 1)
    BY <2>1, <2>3, <2>4
  <2>6. \A n \in 1..(h - 1) : frames'[n] = frames[n]
    BY <2>1, <2>2, <2>3, <2>4
  <2>7. QED
    BY <2>2, <2>4, <2>5, <2>6 DEF fs
<1>8. \A n \in DOMAIN frames' :
        n \in DOMAIN frames /\ frames'[n] = frames[n] /\ n < h /\ h \in DOMAIN frames
  BY <1>2, <1>6, <1>7
<1>9. \A n \in S!Live(frames') :
        /\ n \in S!Live(frames) /\ frames'[n].k = frames[n].k
        /\ frames'[n].at = frames[n].at /\ frames'[n].mark = frames[n].mark
        /\ frames[n].mark <= frames[h].mark
  <2> HIDE DEF h
  <2> QED BY <1>8 DEF S!Live, MarksGrow
<1>10. /\ S!Holds(vars, top.mark, S!Within(prog, item, top, out))
       /\ S!Holds(vars, frames[h].mark, S!Within(prog, item, frames[h], out))
  BY <1>2, <1>3, <1>6 DEF S!Tracks
<1>11. /\ top.mark \in 0..Len(vars) /\ frames[h].mark \in 0..Len(vars)
       /\ frames[h].mark <= top.mark
  <2>1. top.mark \in 0..Len(vars) /\ frames[h].mark \in 0..Len(vars)
    BY <1>10 DEF S!Holds
  <2>2. h \in DOMAIN frames /\ Len(frames) \in DOMAIN frames /\ h < Len(frames)
    BY <1>2, <1>6
  <2>3. frames[h].mark <= frames[Len(frames)].mark
    <3> HIDE DEF h
    <3> QED BY <2>2 DEF MarksGrow
  <2>4. QED
    BY <1>3, <2>1, <2>3
<1>12. /\ inside \in Seq(VarRecord) /\ Len(inside) = top.mark
       /\ \A n \in 1..top.mark : inside[n] = vars[n]
       /\ vars' = SubSeq(vars, 1, frames[h].mark)
  <2> DEFINE a == top.mark
             b == frames[h].mark
  <2>1. inside = SubSeq(vars, 1, a) /\ vars' = SubSeq(inside, 1, b)
    BY <1>3 DEF Shrink
  <2>2. a \in 0..Len(vars) /\ b \in 0..Len(vars) /\ b <= a
    BY <1>11
  <2>3. vars \in Seq(VarRecord) /\ Len(vars) \in Nat
    BY <1>2
  <2> HIDE DEF a, b
  <2>4. /\ inside \in Seq(VarRecord) /\ Len(inside) = a
        /\ \A n \in 1..a : inside[n] = vars[n]
    BY <2>1, <2>2, <2>3, SubSeqProperties
  <2>5. SubSeq(inside, 1, b) = SubSeq(vars, 1, b)
    BY <2>2, <2>3, <2>4
  <2>6. QED
    BY <2>1, <2>4, <2>5 DEF a, b
<1>13. S!Tracks(prog, item, pc + 1, out, vars', frames')
  <2>1. /\ prog \in S!Program /\ S!IsTree(prog) /\ item \in DOMAIN prog
        /\ pc \in DOMAIN prog[item] /\ prog[item][pc].k = "close"
        /\ S!Nested(prog[item], pc)
    BY <1>1, <1>2 DEF AtNode
  <2>2. /\ h \in S!Live(frames) /\ frames[h].k # "body"
        /\ frames[h].at \in S!Unclosed(prog[item], pc)
        /\ \A r \in S!Unclosed(prog[item], pc) : r <= frames[h].at
    BY <1>4, <1>6
  <2> DEFINE gs == frames'
  <2> HIDE DEF out, h, gs
  <2>4. S!Tracks(prog, item, pc + 1, out, SubSeq(vars, 1, frames[h].mark), gs)
    BY <1>2, <1>9, <2>1, <2>2, S!TracksClose, Source, ZenonT(60) DEF gs
  <2>5. QED
    BY <1>12, <2>4 DEF gs
<1>14. Matched(t, frames')
  <2> HIDE DEF h
  <2> QED BY <1>2, <1>8 DEF Matched
<1>15. top.at \in DOMAIN t /\ w \in S!Nodes(prog) /\ S!At(prog, w) = t[top.at]
  <2>1. top.at \in DOMAIN t
    BY <1>1, <1>4 DEF S!Unclosed
  <2>2. w \in S!Nodes(prog) /\ S!At(prog, w) = t[top.at]
    BY <2>1, S!NodeAt, Source DEF AtNode
  <2>3. QED
    BY <2>1, <2>2
<1>16. S!Holds(inside, Len(inside), S!InScope(prog, item, top.at, out)
                                      \cup S!DeclarationsAt(prog, w))
  <2>1. S!Within(prog, item, top, out)
          = S!InScope(prog, item, top.at, out) \cup S!DeclarationsAt(prog, w)
    <3>1. IsKarya(prog, w[1]) => w[2] > 1
      <4>1. w[1] = item /\ w[2] = top.at /\ top.at \in Nat \ {0}
        BY <1>1, <1>15
      <4>2. IsKarya(prog, item) => top.at # 1
        BY <1>6 DEF IsKarya
      <4>3. QED
        BY <4>1, <4>2
    <3>2. S!DeclaredAt(prog, w, out) = S!DeclarationsAt(prog, w)
      <4>1. w[1] = item
        OBVIOUS
      <4> HIDE DEF w
      <4> QED BY <1>15, <3>1, <4>1, DeclaredInside DEF AtNode
    <3>3. QED
      BY <1>3, <3>2 DEF S!Within
  <2>2. S!Holds(inside, top.mark, S!Within(prog, item, top, out))
    <3>1. top.mark \in Nat /\ top.mark \in 0..Len(inside)
      BY <1>11, <1>12
    <3> HIDE DEF top, out
    <3> QED BY <1>10, <1>12, <3>1, S!HoldsKept, Source
  <2>3. QED
    BY <1>12, <2>1, <2>2
<1>17. Moved
  BY <1>5, <1>7, <1>6, <1>13, <1>14 DEF Moved, WalkAt
<1>18. QED
  BY <1>3, <1>5, <1>6, <1>12, <1>15, <1>16, <1>17

-----------------------------------------------------------------------------
(* A step of the generator, at a node: what it uses and declares.          *)

(* What is known of the node before the step.                              *)
Ready ==
  /\ AtNode /\ MarksGrow
  /\ pass \in {"entry", "functions"}
  /\ pass = "functions" <=> IsKarya(prog, item)
  /\ inFunction <=> IsKarya(prog, item)
  /\ outcome # "thrown"
  /\ globals \in Seq(VarRecord) /\ OfTopLevel(prog, globals)
  /\ IsKarya(prog, item) => AllGlobals(prog, globals)

(* The uses of the node were found, and bound as they should be; those of  *)
(* the step of a for wait until its end.                                   *)
Used ==
  /\ outcome' # "thrown"
  /\ binds \subseteq binds'
  /\ \A b \in binds' : b \in binds \/ (OfUse(prog, b) /\ Agrees(prog, b))
  /\ \A u \in S!UsesAt(S!At(prog, <<item, pc>>)) :
       u[1] # 3 => Bound(binds', <<item, pc>>, u)
  /\ \A o \in S!Unclosed(prog[item], pc) :
       \/ o \in S!Unclosed(prog[item], pc + 1)
       \/ \A u \in S!UsesAt(S!At(prog, <<item, o>>)) :
            u[1] = 3 => Bound(binds', <<item, o>>, u)

(* What the node declares in the top level is among the globals.           *)
Declared ==
  /\ globals' \in Seq(VarRecord) /\ OfTopLevel(prog, globals')
  /\ \A n \in 1..Len(globals) :
       \E m \in 1..Len(globals') : globals'[m].name = globals[n].name
  /\ ~IsKarya(prog, item) =>
       \A d \in S!DeclarationsAt(prog, <<item, pc>>) :
         \E m \in 1..Len(globals') : globals'[m].name = d.name

(* A node that declares nothing.                                           *)
LEMMA DeclaresNothing ==
  ASSUME Ready, node.k \notin {"decl", "pratyek", "karya"}, globals' = globals
  PROVE  Declared
<1>1. S!DeclarationsAt(prog, <<item, pc>>) = {}
  BY NodeHere DEF S!DeclarationsAt, Ready
<1>2. QED
  BY <1>1 DEF Declared, Ready

(* Nothing thrown, nothing overrun but by what was said to be.             *)
LEMMA OutcomeIs ==
  ASSUME outcome # "thrown", NEW throws, ~throws, NEW overruns,
         Outcome(throws, overruns)
  PROVE  outcome' # "thrown"
BY DEF Outcome

(* A node that uses nothing, and is not the end of a for.                  *)
LEMMA UsesNothing ==
  ASSUME Ready,
         node.k \in {"thamba", "pudhe", "scope", "anyatha", "case", "close"},
         binds' = binds, outcome' = outcome,
         \A o \in S!Unclosed(prog[item], pc) :
           \/ o \in S!Unclosed(prog[item], pc + 1)
           \/ prog[item][o].k # "pratyek"
  PROVE  Used
<1>1. S!At(prog, <<item, pc>>) = node
  BY NodeHere DEF Ready
<1>2. S!UsesAt(node) = {}
  BY DEF S!UsesAt, S!AllExprs, S!SimpleKinds
<1>3. ASSUME NEW o, prog[item][o].k # "pratyek",
             NEW u \in S!UsesAt(S!At(prog, <<item, o>>))
      PROVE  u[1] # 3
  <2>1. S!At(prog, <<item, o>>) = prog[item][o]
    BY DEF S!At
  <2>2. u[1] = 0
    BY <1>3, <2>1, PlainUses
  <2>3. QED
    BY <2>2
<1>4. QED
  BY <1>1, <1>2, <1>3 DEF Used, Ready

(* Before a node that is no close no block ends.                           *)
LEMMA NoneCloses ==
  ASSUME AtNode, node.k # "close"
  PROVE  \A o \in S!Unclosed(prog[item], pc) : o \in S!Unclosed(prog[item], pc + 1)
BY Onward

(* A node whose uses are looked up in one list.                            *)
LEMMA UsesPlain ==
  ASSUME Ready, node.k \notin {"close", "pratyek"},
         NEW vs, NEW gs, NEW names, names = PlainNames(node),
         \A u \in S!UsesAt(node) : Found(prog, vs, gs, <<item, pc, u[1]>>, u[2]),
         binds' = binds \cup Resolved(vs, gs, names, <<item, pc, 0>>),
         NEW overruns, Outcome(Throws(vs, gs, names), overruns)
  PROVE  Used
<1> DEFINE w == <<item, pc>>
           bs == Resolved(vs, gs, names, <<item, pc, 0>>)
<1>1. w \in S!Nodes(prog) /\ S!At(prog, w) = node
  BY NodeHere DEF Ready
<1>2. /\ \A x \in names : \E u \in S!UsesAt(S!At(prog, w)) : u[1] = 0 /\ u[2] = x
      /\ \A u \in S!UsesAt(S!At(prog, w)) : u[1] = 0 /\ u[2] \in names
  BY <1>1, PlainUses
<1>3. w[1] = item /\ w[2] = pc
  OBVIOUS
<1>4. \A x \in names : Found(prog, vs, gs, <<w[1], w[2], 0>>, x)
  BY <1>1, <1>2, <1>3
<1>5. bs = Resolved(vs, gs, names, <<w[1], w[2], 0>>)
  BY <1>3
<1> HIDE DEF w, bs
<1>6. /\ ~Throws(vs, gs, names)
      /\ \A b \in bs : OfUse(prog, b) /\ Agrees(prog, b)
      /\ \A u : u[1] = 0 /\ u[2] \in names => Bound(bs, w, u)
  BY <1>1, <1>2, <1>4, <1>5, ResolvedFound
<1>7. outcome # "thrown"
  BY DEF Ready
<1>8. outcome' # "thrown"
  BY <1>6, <1>7, OutcomeIs
<1>9. binds' = binds \cup bs
  BY DEF bs
<1>10. \A u \in S!UsesAt(S!At(prog, w)) : Bound(binds', w, u)
  BY <1>2, <1>6, <1>9 DEF Bound
<1>11. \A o \in S!Unclosed(prog[item], pc) : o \in S!Unclosed(prog[item], pc + 1)
  BY NoneCloses DEF Ready
<1>12. QED
  BY <1>6, <1>8, <1>9, <1>10, <1>11 DEF Used, w

(* What is in the generator's lists is found there.                        *)
LEMMA FoundHere ==
  ASSUME Ready, node.k # "close", NEW u \in S!UsesAt(node),
         u[1] = 0 \/ (u[1] = 1 /\ node.k = "pratyek")
  PROVE  Found(prog, vars, globals, <<item, pc, u[1]>>, u[2])
<1> DEFINE w == <<item, pc>>
<1>1. w \in S!Nodes(prog) /\ S!At(prog, w) = node /\ w[1] = item /\ w[2] = pc
  BY NodeHere DEF Ready
<1>2. S!Holds(vars, Len(vars), S!InScope(prog, item, pc, Outside(prog, item)) \cup {})
  BY DEF Ready, AtNode, WalkAt, S!Tracks
<1>3. /\ prog \in S!Program /\ S!IsTree(prog) /\ S!WellFormed(prog)
      /\ vars \in Seq(VarRecord) /\ globals \in Seq(VarRecord)
      /\ OfTopLevel(prog, globals)
      /\ IsKarya(prog, item) => AllGlobals(prog, globals)
  BY DEF Ready, AtNode
<1> HIDE DEF w
<1>4. S!Holds(vars, Len(vars), S!InScope(prog, w[1], w[2], Outside(prog, w[1])) \cup {})
  BY <1>1, <1>2
<1>5. /\ u \in S!UsesAt(S!At(prog, w)) /\ S!At(prog, w).k # "close"
      /\ u[1] = 0 \/ (u[1] = 1 /\ S!At(prog, w).k = "pratyek")
  BY <1>1
<1> DEFINE D == {}
<1>6. /\ D = {} /\ (u[1] = 0 \/ (u[1] = 1 /\ S!At(prog, w).k = "pratyek"))
      /\ S!Holds(vars, Len(vars), S!InScope(prog, w[1], w[2], Outside(prog, w[1])) \cup D)
  BY <1>4, <1>5
<1> HIDE DEF D
<1>7. Found(prog, vars, globals, <<w[1], w[2], u[1]>>, u[2])
  BY <1>1, <1>3, <1>5, <1>6, PartFound, ZenonT(60)
<1>8. QED
  BY <1>1, <1>7

(* A step at a node does all of it, and goes on.                           *)
Steps == Moved /\ Used /\ Declared /\ Advance /\ inFunction' = inFunction

(* A simple statement, and the initialiser of a for.                       *)
LEMMA SimpleHere ==
  ASSUME AtNode
  PROVE  /\ node.k \in S!SimpleKinds => node \in Simple
         /\ node.k = "pratyek" => node.init \in Simple
<1>1. node \in S!Node
  BY NodeHere DEF AtNode, S!Program
<1>2. /\ node.k \in S!SimpleKinds => node \in S!Simple
      /\ node.k = "pratyek" => node.init \in S!Simple
  BY <1>1, S!NodeFields, Source
<1>3. S!Simple = Simple
  BY DEF S!Simple, Simple, S!Decl, Decl, S!Expr, Expr
<1>4. QED
  BY <1>2, <1>3

(* The entry of what a node declares.                                      *)
LEMMA EntryHere ==
  ASSUME Ready, IInv, NEW s \in Simple, s.k = "decl", NEW size \in Nat,
         NEW n \in Nat
  PROVE  /\ Entry(s, size, <<item, pc, n>>) \in VarRecord
         /\ Entry(s, size, <<item, pc, n>>).name = s.x
         /\ Entry(s, size, <<item, pc, n>>).site = <<item, pc, n>>
<1>1. item \in Nat /\ pc \in Nat
  BY NodeHere DEF Ready
<1>2. inFunction \in BOOLEAN
  BY DEF IInv, Shaped
<1> DEFINE site == <<item, pc, n>>
<1>3. site \in Nat \X Nat \X Nat
  BY <1>1
<1> HIDE DEF site
<1>4. Entry(s, size, site) \in VarRecord
  BY <1>2, <1>3, EntryIsVar
<1>5. Entry(s, size, site).name = s.x /\ Entry(s, size, site).site = site
  BY DEF Entry
<1>6. QED
  BY <1>4, <1>5 DEF site

(* A node that declares one variable.                                      *)
LEMMA DeclaresOne ==
  ASSUME Ready, NEW v \in VarRecord, NEW d,
         S!DeclarationsAt(prog, <<item, pc>>) = {d},
         d.name = v.name, d.site = v.site, v.site[1] = item,
         globals' = IF inFunction THEN globals ELSE Append(globals, v)
  PROVE  Declared
<1>1. globals \in Seq(VarRecord) /\ OfTopLevel(prog, globals)
      /\ (inFunction <=> IsKarya(prog, item))
  BY DEF Ready
<1>2. CASE inFunction
  <2>1. globals' = globals
    BY <1>2
  <2>2. QED
    BY <1>1, <1>2, <2>1 DEF Declared
<1>3. CASE ~inFunction
  <2> DEFINE hs == Append(globals, v)
  <2>1. globals' = hs
    BY <1>3
  <2>2. /\ hs \in Seq(VarRecord) /\ Len(hs) = Len(globals) + 1
        /\ hs[Len(hs)] = v /\ Len(hs) \in 1..Len(hs) /\ Len(globals) \in Nat
        /\ \A n \in 1..Len(globals) : n \in 1..Len(hs) /\ hs[n] = globals[n]
    BY <1>1
  <2>3. d \in S!Declarations(prog)
    BY NodeHere DEF S!Declarations, Ready
  <2>4. ~IsKarya(prog, d.site[1])
    BY <1>1, <1>3
  <2> HIDE DEF hs
  <2>5. OfTopLevel(prog, hs)
    <3>1. ASSUME NEW n \in 1..Len(hs)
          PROVE  \E c \in S!Declarations(prog) :
                   /\ c.name = hs[n].name /\ c.site = hs[n].site
                   /\ ~IsKarya(prog, c.site[1])
      <4>1. CASE n \in 1..Len(globals)
        BY <1>1, <2>2, <4>1 DEF OfTopLevel
      <4>2. CASE n \notin 1..Len(globals)
        <5>1. hs[n] = v
          BY <2>2, <4>2
        <5>2. QED
          BY <2>3, <2>4, <5>1
      <4>3. QED
        BY <4>1, <4>2
    <3>2. QED
      BY <3>1 DEF OfTopLevel
  <2>6. \A n \in 1..Len(globals) : \E m \in 1..Len(hs) : hs[m].name = globals[n].name
    BY <2>2
  <2>7. \A c \in S!DeclarationsAt(prog, <<item, pc>>) :
          \E m \in 1..Len(hs) : hs[m].name = c.name
    BY <2>2
  <2>8. QED
    BY <2>1, <2>2, <2>5, <2>6, <2>7 DEF Declared
<1>4. QED
  BY <1>2, <1>3

(* Statements that are one node.                                           *)
LEMMA SimpleSteps ==
  ASSUME Ready, IInv, GenSimple
  PROVE  Steps
<1> DEFINE site == <<item, pc, 0>>
           n == node
           v == Entry(n, stackSize, site)
           w == <<item, pc>>
<1>1. /\ n.k \in S!SimpleKinds /\ n \in Simple
      /\ n.k \notin S!OpenKinds \cup {"close"} /\ n.k # "pratyek"
      /\ w \in S!Nodes(prog) /\ S!At(prog, w) = n /\ w[1] = item /\ w[2] = pc
  <2>1. n.k \in S!SimpleKinds
    BY DEF GenSimple, SimpleKinds, S!SimpleKinds
  <2>2. n \in Simple
    BY <2>1, SimpleHere DEF Ready
  <2>3. n.k \notin S!OpenKinds \cup {"close"} /\ n.k # "pratyek"
    BY <2>1 DEF S!SimpleKinds, S!OpenKinds
  <2>4. w \in S!Nodes(prog) /\ S!At(prog, w) = n
    BY NodeHere DEF Ready
  <2>5. QED
    BY <2>1, <2>2, <2>3, <2>4
<1>2. /\ vars' = VarsAfter(vars, n, stackSize, site)
      /\ globals' = GlobalsAfter(n, stackSize, site)
      /\ binds' = binds \cup Resolved(vars', globals', References(n), site)
      /\ Outcome(Throws(vars', globals', References(n)), Overruns(OwnExprs(n)))
      /\ Advance /\ inFunction' = inFunction /\ frames' = frames
  BY DEF GenSimple, Plain
<1>3. References(n) = PlainNames(n)
  BY <1>1 DEF PlainNames
<1>4. \A u \in S!UsesAt(n) : u[1] = 0 /\ Found(prog, vars, globals, <<item, pc, u[1]>>, u[2])
  BY <1>1, PlainUses, FoundHere
<1>5. stackSize \in Nat
  BY HeightsAreNumbers
<1>6. vars \in Seq(VarRecord) /\ globals \in Seq(VarRecord)
  BY DEF Ready, AtNode
<1> HIDE DEF n
<1>7. CASE n.k = "decl"
  <2>1. v \in VarRecord /\ v.name = n.x /\ v.site = site
    BY <1>1, <1>5, <1>7, EntryHere
  <2>2. vars' = Append(vars, v)
    BY <1>2, <1>7 DEF VarsAfter
  <2>3. globals' = IF inFunction THEN globals ELSE Append(globals, v)
    BY <1>2, <1>7 DEF GlobalsAfter
  <2>4. Moved
    <3>1. v.name = node.x /\ v.site = <<item, pc, 0>> /\ node.k = "decl"
      BY <1>7, <2>1 DEF n
    <3>2. v \in VarRecord /\ vars' = Append(vars, v) /\ frames' = frames /\ AtNode
      BY <1>2, <2>1, <2>2 DEF Ready
    <3> HIDE DEF v
    <3>3. QED
      BY <3>1, <3>2, MovesDeclare, Zenon
  <2>5. \A u \in S!UsesAt(n) : Found(prog, vars', globals', <<item, pc, u[1]>>, u[2])
    <3>1. ASSUME NEW u \in S!UsesAt(n)
          PROVE  Found(prog, vars', globals', <<item, pc, u[1]>>, u[2])
      <4>1. /\ Found(prog, vars, globals, site, u[2]) /\ <<item, pc, u[1]>> = site
        BY <1>4, <3>1
      <4>2. globals' = globals \/ globals' = Append(globals, v)
        BY <2>3
      <4> HIDE DEF v, site
      <4>3. Found(prog, Append(vars, v), globals', site, u[2])
        BY <1>6, <2>1, <4>1, <4>2, FoundAfterDeclared
      <4>4. QED
        BY <2>2, <4>1, <4>3
    <3>2. QED
      BY <3>1
  <2>6. Used
    <3>1. \A u \in S!UsesAt(node) : Found(prog, vars', globals', <<item, pc, u[1]>>, u[2])
      BY <2>5 DEF n
    <3>2. node.k \notin {"close", "pratyek"}
      BY <1>1 DEF n
    <3>3. References(n) = PlainNames(node)
      BY <1>3 DEF n
    <3> QED BY <1>2, <3>1, <3>2, <3>3, UsesPlain
  <2>7. Declared
    <3> DEFINE d == S!Declaration(n, <<w[1], w[2], 0>>, S!BlockOf(prog, w))
    <3>1. S!DeclarationsAt(prog, w) = {d}
      BY <1>1, <1>7 DEF S!DeclarationsAt
    <3>2. d.name = n.x /\ d.site = site
      BY <1>1 DEF S!Declaration
    <3>3. v.site[1] = item
      BY <2>1
    <3> HIDE DEF d, v
    <3>4. QED
      BY <2>1, <2>3, <3>1, <3>2, <3>3, DeclaresOne
  <2>8. QED
    BY <1>2, <2>4, <2>6, <2>7 DEF Steps
<1>8. CASE n.k # "decl"
  <2>1. vars' = vars /\ globals' = globals
    BY <1>2, <1>8 DEF VarsAfter, GlobalsAfter
  <2>2. node.k \notin {"decl", "pratyek", "karya", "close"}
        /\ node.k \notin S!OpenKinds \cup {"close", "decl"}
    BY <1>1, <1>8 DEF n, S!OpenKinds
  <2>3. Moved
    BY <1>2, <2>1, <2>2, MovesPass DEF Ready
  <2>4. Declared
    BY <2>1, <2>2, DeclaresNothing
  <2>5. Used
    <3>1. \A u \in S!UsesAt(node) : Found(prog, vars', globals', <<item, pc, u[1]>>, u[2])
      BY <1>4, <2>1 DEF n
    <3>2. References(n) = PlainNames(node)
      BY <1>3 DEF n
    <3>3. node.k \notin {"close", "pratyek"}
      BY <2>2
    <3>4. QED
      BY <1>2, <3>1, <3>2, <3>3, UsesPlain
  <2>6. QED
    BY <1>2, <2>3, <2>4, <2>5 DEF Steps
<1>9. QED
  BY <1>7, <1>8

(* Thamba and pudhe.                                                       *)
LEMMA JumpSteps ==
  ASSUME Ready, GenBreak \/ GenContinue
  PROVE  Steps
<1>1. /\ node.k \in {"thamba", "pudhe"}
      /\ frames' = frames /\ vars' = vars /\ globals' = globals /\ binds' = binds
      /\ outcome' = outcome /\ inFunction' = inFunction /\ Advance
  BY DEF GenBreak, GenContinue, JumpOutOf
<1>2. node.k \notin S!OpenKinds \cup {"close", "decl"}
      /\ node.k \notin {"decl", "pratyek", "karya", "close"}
  BY <1>1 DEF S!OpenKinds
<1>3. Moved
  BY <1>1, <1>2, MovesPass DEF Ready
<1>4. \A o \in S!Unclosed(prog[item], pc) : o \in S!Unclosed(prog[item], pc + 1)
  BY <1>2, NoneCloses DEF Ready
<1>5. Used
  BY <1>1, <1>4, UsesNothing
<1>6. Declared
  BY <1>1, <1>2, DeclaresNothing
<1>7. QED
  BY <1>1, <1>3, <1>5, <1>6 DEF Steps

(* Expressions evaluated where the node is.                                *)
LEMMA UsesExprs ==
  ASSUME Ready, node.k \notin S!SimpleKinds \cup {"close", "pratyek"},
         NEW es, es = AllExprs(node), UseExprs(es)
  PROVE  Used
<1>1. ExprNames(es) = PlainNames(node)
  BY DEF PlainNames
<1>2. \A u \in S!UsesAt(node) : Found(prog, vars, globals, <<item, pc, u[1]>>, u[2])
  BY PlainUses, FoundHere
<1>3. /\ binds' = binds \cup Resolved(vars, globals, ExprNames(es), <<item, pc, 0>>)
      /\ Outcome(Throws(vars, globals, ExprNames(es)), Overruns(es))
  BY DEF UseExprs, Plain
<1>4. node.k \notin {"close", "pratyek"}
  OBVIOUS
<1>5. QED
  BY <1>1, <1>2, <1>3, <1>4, UsesPlain

(* Partav.                                                                 *)
LEMMA ReturnSteps ==
  ASSUME Ready, GenReturn
  PROVE  Steps
<1>1. /\ node.k = "partav" /\ UseExprs(node.value)
      /\ frames' = frames /\ vars' = vars /\ globals' = globals
      /\ inFunction' = inFunction /\ Advance
  BY DEF GenReturn
<1>2. node.k \notin S!OpenKinds \cup {"close", "decl"}
      /\ node.k \notin {"decl", "pratyek", "karya", "close"}
      /\ node.k \notin S!SimpleKinds \cup {"close", "pratyek"}
  BY <1>1 DEF S!OpenKinds, S!SimpleKinds
<1>3. Moved
  BY <1>1, <1>2, MovesPass DEF Ready
<1>4. node.value = AllExprs(node)
  BY <1>1 DEF AllExprs, SimpleKinds
<1>5. Used
  BY <1>1, <1>2, <1>4, UsesExprs
<1>6. Declared
  BY <1>1, <1>2, DeclaresNothing
<1>7. QED
  BY <1>1, <1>3, <1>5, <1>6 DEF Steps

(* The innermost frame.                                                    *)
LEMMA TopIs ==
  ASSUME frames \in Seq(FrameRecord), frames # <<>>
  PROVE  /\ Top = S!Last(frames) /\ Top = frames[Len(frames)]
         /\ Top \in FrameRecord /\ Len(frames) \in DOMAIN frames
<1>1. Top = Last(frames)
  BY DEF Top
<1>2. /\ Last(frames) = frames[Len(frames)] /\ S!Last(frames) = frames[Len(frames)]
      /\ S!Last(frames) \in FrameRecord /\ Len(frames) \in 1..Len(frames)
  BY FrontIs
<1>3. QED
  BY <1>1, <1>2

(* A block opens inside the innermost one, which is no chain,              *)
LEMMA OpensInside ==
  ASSUME AtNode, node.k \in S!OpenKinds \ {"pratyek", "karya"},
         frames # <<>> => Top.k # "chain",
         NEW f \in FrameRecord, f.at = pc, f.mark = Len(vars),
         f.k \notin {"chain", "body"},
         frames' = Append(frames, f), vars' = vars
  PROVE  Moved
<1>1. frames \in Seq(FrameRecord) /\ S!Follows(prog[item], pc, frames)
  BY DEF AtNode, WalkAt
<1>2. frames # <<>> => S!Last(frames).k # "chain"
  BY <1>1, TopIs
<1>3. S!NoChain(frames)
  BY <1>1, <1>2, S!FollowsWithout, Source
<1>4. QED
  BY <1>1, <1>3, MovesOpen

(* or takes the place of a chain.                                          *)
LEMMA OpensNext ==
  ASSUME AtNode, node.k \in S!OpenKinds \ {"pratyek", "karya"},
         frames # <<>>, Top.k = "chain",
         NEW f \in FrameRecord, f.at = pc, f.mark = Len(vars),
         f.k \notin {"chain", "body"},
         frames' = Append(Front(frames), f), vars' = vars
  PROVE  Moved
<1> DEFINE hs == Front(frames)
<1>1. frames \in Seq(FrameRecord) /\ S!Follows(prog[item], pc, frames)
  BY DEF AtNode, WalkAt
<1>2. /\ S!Last(frames).k = "chain" /\ hs = S!Front(frames)
      /\ hs \in Seq(FrameRecord) /\ Len(hs) = Len(frames) - 1
      /\ \A n \in 1..(Len(frames) - 1) : hs[n] = frames[n]
  <2>1. S!Last(frames).k = "chain"
    BY <1>1, TopIs
  <2>2. hs = S!Front(frames)
    BY <1>1, FrontIs
  <2>3. /\ S!Front(frames) \in Seq(FrameRecord)
        /\ Len(S!Front(frames)) = Len(frames) - 1
        /\ \A n \in 1..(Len(frames) - 1) : S!Front(frames)[n] = frames[n]
    BY <1>1, FrontIs, Zenon
  <2> HIDE DEF hs
  <2>4. QED
    BY <2>1, <2>2, <2>3
<1>3. S!Follows(prog[item], pc, hs) /\ S!NoChain(hs)
  BY <1>1, <1>2, S!FollowsWithout, Source
<1>4. \A n \in DOMAIN hs : n \in DOMAIN frames /\ hs[n] = frames[n]
  BY <1>1, <1>2
<1> HIDE DEF hs
<1>5. \A n \in DOMAIN hs : /\ n \in DOMAIN frames /\ hs[n].k = frames[n].k
                           /\ hs[n].at = frames[n].at /\ hs[n].mark = frames[n].mark
  BY <1>4
<1>6. frames' = Append(hs, f)
  BY DEF hs
<1>7. QED
  BY <1>2, <1>3, <1>5, <1>6, MovesOpen

(* The frame a step adds.                                                  *)
LEMMA NewFrame ==
  ASSUME IInv', NEW hs \in Seq(FrameRecord), NEW f, frames' = Append(hs, f)
  PROVE  f \in FrameRecord
<1>1. Append(hs, f) \in Seq(FrameRecord)
  BY DEF IInv, Accounted
<1>2. /\ Len(Append(hs, f)) = Len(hs) + 1 /\ Append(hs, f)[Len(hs) + 1] = f
      /\ Len(hs) \in Nat
  OBVIOUS
<1>3. QED
  BY <1>1, <1>2

(* Constructs that open one block in any statement.                        *)
LEMMA BlockOpens ==
  ASSUME Ready, IInv, IInv', AtStatement,
         node.k \in {"scope", "jar", "jovar", "paryay"},
         NEW f, Push(f), f.at = pc, f.mark = Len(vars), f.k \notin {"chain", "body"},
         UNCHANGED <<vars, globals, inFunction>>, Advance, Used
  PROVE  Steps
<1>1. frames \in Seq(FrameRecord) /\ AtNode
  BY DEF Ready, AtNode
<1>2. frames' = Append(frames, f)
  BY DEF Push
<1>3. f \in FrameRecord
  BY <1>1, <1>2, NewFrame
<1>4. frames # <<>> => Top.k # "chain"
  BY DEF AtStatement
<1>5. node.k \in S!OpenKinds \ {"pratyek", "karya"}
      /\ node.k \notin {"decl", "pratyek", "karya"}
  BY DEF S!OpenKinds
<1>6. Moved
  BY <1>1, <1>2, <1>3, <1>4, <1>5, OpensInside
<1>7. Declared
  BY <1>5, DeclaresNothing
<1>8. QED
  BY <1>6, <1>7 DEF Steps

LEMMA BlockSteps ==
  ASSUME Ready, IInv, IInv',
         GenScope \/ GenIf \/ GenWhile \/ GenSwitch
  PROVE  Steps
<1>1. ASSUME GenScope PROVE Steps
  <2> DEFINE f == Frame("scope", stackSize, Len(vars))
  <2>1. /\ AtStatement /\ node.k = "scope" /\ Push(f) /\ Advance
        /\ UNCHANGED <<vars, globals, inFunction>>
        /\ binds' = binds /\ outcome' = outcome
    BY <1>1 DEF GenScope
  <2>2. f.at = pc /\ f.mark = Len(vars) /\ f.k = "scope"
    BY DEF Frame
  <2>3. \A o \in S!Unclosed(prog[item], pc) : o \in S!Unclosed(prog[item], pc + 1)
    BY <2>1, NoneCloses DEF Ready
  <2>4. Used
    BY <2>1, <2>3, UsesNothing
  <2> HIDE DEF f
  <2>5. QED
    BY <2>1, <2>2, <2>4, BlockOpens
<1>2. ASSUME GenIf PROVE Steps
  <2> DEFINE end == IF node.more THEN labelCount + 1 ELSE labelCount
             next == IF node.more THEN labelCount ELSE NoLabel
             more == node.more
             f == [Frame("arm", stackSize, Len(vars)) EXCEPT
                     !.next = next, !.end = end, !.more = more]
  <2>1. /\ AtStatement /\ node.k = "jar" /\ Push(f) /\ Advance
        /\ UNCHANGED <<vars, globals, inFunction>> /\ UseExprs({node.e})
    BY <1>2 DEF GenIf
  <2>2. f.at = pc /\ f.mark = Len(vars) /\ f.k = "arm"
    <3> HIDE DEF next, end, more
    <3> QED BY DEF Frame
  <2>3. {node.e} = AllExprs(node)
        /\ node.k \notin S!SimpleKinds \cup {"close", "pratyek"}
    BY <2>1 DEF AllExprs, SimpleKinds, S!SimpleKinds
  <2>4. Used
    BY <2>1, <2>3, UsesExprs
  <2> HIDE DEF f
  <2>5. QED
    BY <2>1, <2>2, <2>4, BlockOpens
<1>3. ASSUME GenWhile PROVE Steps
  <2> DEFINE end == labelCount + 1
             f == [Frame("jovar", stackSize, Len(vars)) EXCEPT
                     !.head = labelCount, !.next = labelCount, !.end = end]
  <2>1. /\ AtStatement /\ node.k = "jovar" /\ Push(f) /\ Advance
        /\ UNCHANGED <<vars, globals, inFunction>> /\ UseExprs({node.e})
    BY <1>3 DEF GenWhile
  <2>2. f.at = pc /\ f.mark = Len(vars) /\ f.k = "jovar"
    <3> HIDE DEF end
    <3> QED BY DEF Frame
  <2>3. {node.e} = AllExprs(node)
        /\ node.k \notin S!SimpleKinds \cup {"close", "pratyek"}
    BY <2>1 DEF AllExprs, SimpleKinds, S!SimpleKinds
  <2>4. Used
    BY <2>1, <2>3, UsesExprs
  <2> HIDE DEF f
  <2>5. QED
    BY <2>1, <2>2, <2>4, BlockOpens
<1>4. ASSUME GenSwitch PROVE Steps
  <2> DEFINE labels == [j \in 1..Len(node.cases) |-> labelCount + j]
             f == [Frame("paryay", stackSize, Len(vars)) EXCEPT
                     !.slots = 1, !.end = labelCount, !.cases = labels]
  <2>1. /\ AtStatement /\ node.k = "paryay" /\ Push(f) /\ Advance
        /\ UNCHANGED <<vars, globals, inFunction>> /\ UseExprs(AllExprs(node))
    BY <1>4 DEF GenSwitch
  <2>2. f.at = pc /\ f.mark = Len(vars) /\ f.k = "paryay"
    <3> HIDE DEF labels
    <3> QED BY DEF Frame
  <2>3. node.k \notin S!SimpleKinds \cup {"close", "pratyek"}
    BY <2>1 DEF S!SimpleKinds
  <2>4. Used
    BY <2>1, <2>3, UsesExprs
  <2> HIDE DEF f
  <2>5. QED
    BY <2>1, <2>2, <2>4, BlockOpens
<1>5. QED
  BY <1>1, <1>2, <1>3, <1>4

(* Nahitar and anyatha.                                                    *)
LEMMA ArmOpens ==
  ASSUME Ready, IInv, IInv', frames # <<>>, Top.k = "chain",
         node.k \in {"nahitar", "anyatha"},
         NEW f, frames' = Append(Front(frames), f),
         f.at = pc, f.mark = Len(vars), f.k = "arm",
         UNCHANGED <<vars, globals, inFunction>>, Advance, Used
  PROVE  Steps
<1>1. frames \in Seq(FrameRecord) /\ AtNode
  BY DEF Ready, AtNode
<1>2. Front(frames) \in Seq(FrameRecord)
  BY <1>1, FrontIs
<1>3. f \in FrameRecord
  BY <1>2, NewFrame
<1>4. node.k \in S!OpenKinds \ {"pratyek", "karya"}
      /\ node.k \notin {"decl", "pratyek", "karya"} /\ f.k \notin {"chain", "body"}
  BY DEF S!OpenKinds
<1>5. Moved
  BY <1>1, <1>3, <1>4, OpensNext
<1>6. Declared
  BY <1>4, DeclaresNothing
<1>7. QED
  BY <1>5, <1>6 DEF Steps

LEMMA ArmSteps ==
  ASSUME Ready, IInv, IInv', GenElseIf \/ GenElse
  PROVE  Steps
<1>1. ASSUME GenElseIf PROVE Steps
  <2> DEFINE end == Top.end
             more == node.more
             f == [Frame("arm", stackSize, Len(vars)) EXCEPT
                     !.next = labelCount, !.end = end, !.more = more]
  <2>1. /\ node.k = "nahitar" /\ frames # <<>> /\ Top.k = "chain" /\ Advance
        /\ frames' = Append(Front(frames), f)
        /\ UNCHANGED <<vars, globals, inFunction>> /\ UseExprs({node.e})
    BY <1>1 DEF GenElseIf
  <2>2. f.at = pc /\ f.mark = Len(vars) /\ f.k = "arm"
    <3> HIDE DEF end, more
    <3> QED BY DEF Frame
  <2>3. {node.e} = AllExprs(node)
        /\ node.k \notin S!SimpleKinds \cup {"close", "pratyek"}
    BY <2>1 DEF AllExprs, SimpleKinds, S!SimpleKinds
  <2>4. Used
    BY <2>1, <2>3, UsesExprs, Zenon
  <2> HIDE DEF f
  <2>5. QED
    BY <2>1, <2>2, <2>4, ArmOpens
<1>2. ASSUME GenElse PROVE Steps
  <2> DEFINE end == Top.end
             f == [Frame("arm", stackSize, Len(vars)) EXCEPT !.end = end]
  <2>1. /\ node.k = "anyatha" /\ frames # <<>> /\ Top.k = "chain" /\ Advance
        /\ frames' = Append(Front(frames), f)
        /\ UNCHANGED <<vars, globals, inFunction>>
        /\ binds' = binds /\ outcome' = outcome
    BY <1>2 DEF GenElse
  <2>2. f.at = pc /\ f.mark = Len(vars) /\ f.k = "arm"
    <3> HIDE DEF end
    <3> QED BY DEF Frame
  <2>3. \A o \in S!Unclosed(prog[item], pc) : o \in S!Unclosed(prog[item], pc + 1)
    BY <2>1, NoneCloses DEF Ready
  <2>4. Used
    BY <2>1, <2>3, UsesNothing
  <2> HIDE DEF f
  <2>5. QED
    BY <2>1, <2>2, <2>4, ArmOpens
<1>3. QED
  BY <1>1, <1>2

(* An arm of a switch.                                                     *)
LEMMA CaseSteps ==
  ASSUME Ready, IInv, IInv', GenCase
  PROVE  Steps
<1> DEFINE n == Len(frames)
           hs == [frames EXCEPT ![n].arm = @ + 1]
           f == Frame("case", stackSize, Len(vars))
           t == prog[item]
<1>1. /\ node.k = "case" /\ frames # <<>> /\ Top.k = "paryay" /\ Advance
      /\ frames' = Append(hs, f) /\ vars' = vars /\ globals' = globals
      /\ inFunction' = inFunction /\ binds' = binds /\ outcome' = outcome
  BY DEF GenCase
<1>2. f.at = pc /\ f.mark = Len(vars) /\ f.k = "case"
  BY DEF Frame
<1>3. frames \in Seq(FrameRecord) /\ S!Follows(t, pc, frames) /\ AtNode
  BY DEF Ready, AtNode, WalkAt
<1>4. /\ hs \in Seq(FrameRecord) /\ Len(hs) = n
      /\ \A i \in DOMAIN frames :
           hs[i].k = frames[i].k /\ hs[i].mark = frames[i].mark /\ hs[i].at = frames[i].at
  <2> DEFINE top == frames[n]
             arm == top.arm + 1
             next == [top EXCEPT !.arm = arm]
  <2>1. n \in DOMAIN frames /\ top \in FrameRecord
    BY <1>1, <1>3
  <2>2. hs = [frames EXCEPT ![n] = next]
    BY <2>1
  <2>3. arm \in Nat
    BY <2>1 DEF FrameRecord
  <2> HIDE DEF top, arm
  <2>4. next \in FrameRecord /\ next.k = top.k /\ next.mark = top.mark
        /\ next.at = top.at
    BY <2>1, <2>3 DEF FrameRecord
  <2> HIDE DEF next, hs
  <2>5. hs \in Seq(FrameRecord) /\ Len(hs) = n
    BY <1>3, <2>1, <2>2, <2>4
  <2>6. \A i \in DOMAIN frames : hs[i] = (IF i = n THEN next ELSE frames[i])
    BY <1>3, <2>2
  <2>7. QED
    BY <2>4, <2>5, <2>6 DEF top
<1>5. frames # <<>> => S!Last(frames).k # "chain"
  BY <1>1, <1>3, TopIs
<1>6. S!NoChain(frames)
  BY <1>3, <1>5, S!FollowsWithout, Source
<1> HIDE DEF hs, t
<1>7. DOMAIN hs = DOMAIN frames
  BY <1>3, <1>4
<1>8. S!NoChain(hs)
  BY <1>4, <1>6, <1>7 DEF S!NoChain
<1>9. S!Follows(t, pc, hs)
  BY <1>3, <1>4, S!FollowsAlike, Source, Zenon
<1>10. f \in FrameRecord
  BY <1>1, <1>4, NewFrame
<1>11. node.k \in S!OpenKinds \ {"pratyek", "karya"}
       /\ node.k \notin {"decl", "pratyek", "karya"} /\ f.k \notin {"chain", "body"}
  BY <1>1, <1>2 DEF S!OpenKinds
<1> HIDE DEF f
<1>12. Moved
  BY <1>1, <1>2, <1>3, <1>4, <1>7, <1>8, <1>9, <1>10, <1>11, MovesOpen DEF t
<1>13. \A o \in S!Unclosed(prog[item], pc) : o \in S!Unclosed(prog[item], pc + 1)
  BY <1>1, <1>3, NoneCloses
<1>14. Used
  BY <1>1, <1>13, UsesNothing
<1>15. Declared
  BY <1>1, <1>11, DeclaresNothing
<1>16. QED
  BY <1>1, <1>12, <1>14, <1>15 DEF Steps

(* The header of a for: what its initialiser declares is there for the     *)
(* condition, and the step.                                                *)
LEMMA TwoPushed ==
  ASSUME NEW X, NEW fs \in Seq(X), NEW f \in X, NEW g,
         NEW hs, hs = fs \o <<f, g>>
  PROVE  hs = Append(Append(fs, f), g)
OBVIOUS

LEMMA ForMoves ==
  ASSUME Ready, IInv, IInv', GenFor,
         NEW ws, ws = VarsAfter(vars, node.init, stackSize, <<item, pc, 1>>)
  PROVE  /\ Moved /\ vars' = ws /\ ws \in Seq(VarRecord)
         /\ S!Holds(ws, Len(ws), S!InScope(prog, item, pc, Outside(prog, item))
                                   \cup S!DeclarationsAt(prog, <<item, pc>>))
<1> DEFINE s == node.init
           site == <<item, pc, 1>>
           v == Entry(s, stackSize, site)
           size == stackSize + NewSlots(s)
           cond == labelCount + NewLabels(s)
           next == cond + 1
           end == cond + 2
           f == Frame("pratyek", stackSize, Len(vars))
           g == [Frame("body", size, Len(ws)) EXCEPT
                   !.head = cond, !.next = next, !.end = end]
<1>1. /\ node.k = "pratyek" /\ AtStatement /\ vars' = ws
      /\ frames' = frames \o <<f, g>>
  BY DEF GenFor, InInit
<1>2. frames \in Seq(FrameRecord) /\ S!Follows(prog[item], pc, frames) /\ AtNode
      /\ vars \in Seq(VarRecord)
  BY DEF Ready, AtNode, WalkAt
<1>3. stackSize \in Nat /\ Len(vars) \in Nat /\ pc \in Nat
  BY HeightsAreNumbers DEF IInv, PlaceIsInProgram
<1>4. f \in FrameRecord /\ f.at = pc /\ f.mark = Len(vars) /\ f.k = "pratyek"
  <2>1. f \in FrameRecord
    BY <1>3, FrameIsFrame DEF FrameKinds
  <2>2. QED
    BY <2>1 DEF Frame
<1>5. g.at = pc /\ g.mark = Len(ws) /\ g.k = "body"
  <2> HIDE DEF size, cond, next, end
  <2> QED BY DEF Frame
<1> HIDE DEF f, g
<1>6. frames' = Append(Append(frames, f), g)
  <2> DEFINE hs == frames'
  <2>1. hs = frames \o <<f, g>> /\ frames \in Seq(FrameRecord) /\ f \in FrameRecord
    BY <1>1, <1>2, <1>4
  <2> HIDE DEF hs
  <2>2. hs = Append(Append(frames, f), g)
    BY <2>1, TwoPushed
  <2>3. QED
    BY <2>2 DEF hs
<1>7. g \in FrameRecord
  <2>1. Append(frames, f) \in Seq(FrameRecord)
    BY <1>2, <1>4
  <2>2. QED
    BY <1>6, <2>1, NewFrame
<1>8. S!NoChain(frames)
  <2>1. frames # <<>> => S!Last(frames).k # "chain"
    BY <1>1, <1>2, TopIs DEF AtStatement
  <2>2. QED
    BY <1>2, <2>1, S!FollowsWithout, Source
<1>9. s \in Simple
  BY <1>1, <1>2, SimpleHere
<1>10. s.k = "decl" => v \in VarRecord /\ v.name = s.x /\ v.site = site
  BY <1>3, <1>9, EntryHere
<1>11. ws = IF s.k = "decl" THEN Append(vars, v) ELSE vars
  BY DEF VarsAfter
<1> HIDE DEF v
<1>12. ws \in Seq(VarRecord)
  <2>1. CASE s.k = "decl"
    <3>1. ws = Append(vars, v) /\ v \in VarRecord
      BY <1>10, <1>11, <2>1
    <3>2. Append(vars, v) \in Seq(VarRecord)
      BY <1>2, <3>1, AppendProperties, Zenon
    <3>3. QED
      BY <3>1, <3>2
  <2>2. CASE s.k # "decl"
    BY <1>2, <1>11, <2>2
  <2>3. QED
    BY <2>1, <2>2
<1>13. /\ Moved
       /\ S!Holds(ws, Len(ws), S!InScope(prog, item, pc, Outside(prog, item))
                                 \cup S!DeclarationsAt(prog, <<item, pc>>))
  BY <1>1, <1>2, <1>4, <1>5, <1>6, <1>7, <1>8, <1>10, <1>11, <1>12, MovesFor
<1>14. QED
  BY <1>1, <1>12, <1>13

LEMMA ForDeclares ==
  ASSUME Ready, IInv, GenFor
  PROVE  /\ Declared
         /\ \/ globals' = globals
            \/ /\ ~IsKarya(prog, item) /\ node.init.k = "decl"
               /\ globals' = Append(globals, Entry(node.init, stackSize,
                                                     <<item, pc, 1>>))
<1> DEFINE s == node.init
           site == <<item, pc, 1>>
           w == <<item, pc>>
           v == Entry(s, stackSize, site)
<1>1. node.k = "pratyek" /\ globals' = GlobalsAfter(s, stackSize, site)
  BY DEF GenFor, InInit
<1>2. w \in S!Nodes(prog) /\ S!At(prog, w) = node /\ w[1] = item /\ w[2] = pc
  BY NodeHere DEF Ready
<1>3. s \in Simple /\ stackSize \in Nat
  BY <1>1, SimpleHere, HeightsAreNumbers DEF Ready
<1>4. CASE s.k = "decl"
  <2>1. v \in VarRecord /\ v.name = s.x /\ v.site = site
    BY <1>3, <1>4, EntryHere
  <2>2. globals' = IF inFunction THEN globals ELSE Append(globals, v)
    BY <1>1, <1>4 DEF GlobalsAfter
  <2> DEFINE d == S!Declaration(s, <<w[1], w[2], 1>>, <<w[1], w[2], 1>>)
  <2>3. S!DeclarationsAt(prog, w) = {d}
    BY <1>1, <1>2, <1>4 DEF S!DeclarationsAt
  <2>4. d.name = s.x /\ d.site = site
    BY <1>2 DEF S!Declaration
  <2>5. v.site[1] = item
    BY <2>1
  <2> HIDE DEF d, v
  <2>6. Declared
    BY <2>1, <2>2, <2>3, <2>4, <2>5, DeclaresOne
  <2>7. inFunction <=> IsKarya(prog, item)
    BY DEF Ready
  <2>8. globals' = globals \/ (~IsKarya(prog, item) /\ globals' = Append(globals, v))
    BY <2>2, <2>7
  <2>9. QED
    BY <1>4, <2>6, <2>8 DEF v
<1>5. CASE s.k # "decl"
  <2>1. globals' = globals
    BY <1>1, <1>5 DEF GlobalsAfter
  <2>2. S!DeclarationsAt(prog, w) = {}
    BY <1>1, <1>2, <1>5 DEF S!DeclarationsAt
  <2>3. Declared
    BY <2>1, <2>2 DEF Declared, Ready
  <2>4. QED
    BY <2>1, <2>3
<1>6. QED
  BY <1>4, <1>5

(* The names of the header are found: those of the initialiser with its    *)
(* own variable in place, those of the condition and of the step after it. *)
LEMMA ForFinds ==
  ASSUME Ready, IInv, IInv', GenFor,
         NEW u \in S!UsesAt(node), u[1] \in {1, 2}
  PROVE  Found(prog, vars', globals', <<item, pc, u[1]>>, u[2])
<1> DEFINE s == node.init
           site == <<item, pc, 1>>
           w == <<item, pc>>
           D == S!DeclarationsAt(prog, w)
           ws == VarsAfter(vars, s, stackSize, site)
           v == Entry(s, stackSize, site)
<1>1. /\ node.k = "pratyek" /\ AtNode
      /\ w \in S!Nodes(prog) /\ S!At(prog, w) = node /\ w[1] = item /\ w[2] = pc
      /\ vars \in Seq(VarRecord) /\ globals \in Seq(VarRecord)
  BY NodeHere DEF Ready, GenFor, AtNode
<1>2. /\ vars' = ws /\ vars' \in Seq(VarRecord)
      /\ S!Holds(vars', Len(vars'), S!InScope(prog, item, pc, Outside(prog, item)) \cup D)
  <2> HIDE DEF ws, D
  <2>1. /\ vars' = ws /\ ws \in Seq(VarRecord)
        /\ S!Holds(ws, Len(ws), S!InScope(prog, item, pc, Outside(prog, item)) \cup D)
    BY ForMoves DEF ws, D
  <2>2. QED
    BY <2>1
<1>3. /\ globals' \in Seq(VarRecord) /\ OfTopLevel(prog, globals')
      /\ \/ globals' = globals
         \/ ~IsKarya(prog, item) /\ s.k = "decl" /\ globals' = Append(globals, v)
  BY ForDeclares DEF Declared
<1>4. CASE u[1] = 1
  <2>1. Found(prog, vars, globals, site, u[2]) /\ <<item, pc, u[1]>> = site
    BY <1>1, <1>4, FoundHere
  <2>2. CASE s.k = "decl"
    <3>1. s \in Simple /\ stackSize \in Nat
      BY <1>1, SimpleHere, HeightsAreNumbers
    <3>2. v \in VarRecord /\ v.site = site
      BY <2>2, <3>1, EntryHere
    <3>3. vars' = Append(vars, v)
      BY <1>2, <2>2 DEF VarsAfter
    <3>4. globals' = globals \/ globals' = Append(globals, v)
      BY <1>3
    <3> HIDE DEF v, site
    <3>5. Found(prog, Append(vars, v), globals', site, u[2])
      BY <1>1, <2>1, <3>2, <3>4, FoundAfterDeclared
    <3>6. QED
      BY <2>1, <3>3, <3>5
  <2>3. CASE s.k # "decl"
    <3>1. vars' = vars /\ globals' = globals
      BY <1>2, <1>3, <2>3 DEF VarsAfter
    <3>2. QED
      BY <2>1, <3>1
  <2>4. QED
    BY <2>2, <2>3
<1>5. CASE u[1] = 2
  <2>1. IsKarya(prog, item) => AllGlobals(prog, globals')
    BY <1>3 DEF Ready
  <2>2. /\ u \in S!UsesAt(S!At(prog, w)) /\ S!At(prog, w).k # "close"
        /\ D = S!DeclarationsAt(prog, w) /\ u[1] \in {2, 3}
        /\ S!At(prog, w).k = "pratyek"
    BY <1>1, <1>5
  <2>3. prog \in S!Program /\ S!IsTree(prog) /\ S!WellFormed(prog)
    BY <1>1 DEF AtNode
  <2> DEFINE xs == vars'
             hs == globals'
  <2> HIDE DEF w, D, ws, v
  <2>4. /\ S!Holds(xs, Len(xs), S!InScope(prog, w[1], w[2], Outside(prog, w[1])) \cup D)
        /\ xs \in Seq(VarRecord) /\ hs \in Seq(VarRecord)
        /\ OfTopLevel(prog, hs)
        /\ IsKarya(prog, w[1]) => AllGlobals(prog, hs)
    BY <1>1, <1>2, <1>3, <2>1
  <2> HIDE DEF xs, hs
  <2>5. Found(prog, xs, hs, <<w[1], w[2], u[1]>>, u[2])
    BY <1>1, <2>2, <2>3, <2>4, PartFound, ZenonT(60)
  <2>6. QED
    BY <1>1, <2>5 DEF xs, hs
<1>6. QED
  BY <1>4, <1>5

LEMMA ForSteps ==
  ASSUME Ready, IInv, IInv', GenFor
  PROVE  Steps
<1> DEFINE n == node
           w == <<item, pc>>
           names1 == References(n.init)
           names2 == Mentions(n.cond)
           bs1 == Resolved(vars', globals', names1, <<item, pc, 1>>)
           bs2 == Resolved(vars', globals', names2, <<item, pc, 2>>)
<1>1. /\ n.k = "pratyek"
      /\ w \in S!Nodes(prog) /\ S!At(prog, w) = n /\ w[1] = item /\ w[2] = pc
  BY NodeHere DEF Ready, GenFor
<1>2. Moved
  BY ForMoves
<1>3. Declared
  BY ForDeclares
<1>4. Advance /\ inFunction' = inFunction
  BY DEF GenFor
<1>5. /\ binds' = binds \cup bs1 \cup bs2
      /\ \E overruns : Outcome(Throws(vars', globals', names1 \cup names2), overruns)
  BY DEF GenFor, InInit, InCond
<1>6. /\ \A x \in names1 : \E u \in S!UsesAt(n) : u[1] = 1 /\ u[2] = x
      /\ \A x \in names2 : \E u \in S!UsesAt(n) : u[1] = 2 /\ u[2] = x
      /\ \A u \in S!UsesAt(n) :
           \/ u[1] = 1 /\ u[2] \in names1
           \/ u[1] = 2 /\ u[2] \in names2
           \/ u[1] = 3
  BY <1>1, HeaderUses
<1>7. \A u \in S!UsesAt(n) : u[1] \in {1, 2} =>
        Found(prog, vars', globals', <<item, pc, u[1]>>, u[2])
  BY ForFinds
<1> HIDE DEF n, names1, names2
<1> DEFINE vs == vars'
           gs == globals'
<1> HIDE DEF vs, gs
<1>8. /\ \A x \in names1 : Found(prog, vs, gs, <<w[1], w[2], 1>>, x)
      /\ \A x \in names2 : Found(prog, vs, gs, <<w[1], w[2], 2>>, x)
  BY <1>1, <1>6, <1>7 DEF vs, gs
<1>9. /\ \A x \in names1 : \E u \in S!UsesAt(S!At(prog, w)) : u[1] = 1 /\ u[2] = x
      /\ \A x \in names2 : \E u \in S!UsesAt(S!At(prog, w)) : u[1] = 2 /\ u[2] = x
      /\ bs1 = Resolved(vs, gs, names1, <<w[1], w[2], 1>>)
      /\ bs2 = Resolved(vs, gs, names2, <<w[1], w[2], 2>>)
  BY <1>1, <1>6 DEF vs, gs
<1> HIDE DEF w, bs1, bs2
<1>10. /\ ~Throws(vs, gs, names1)
       /\ \A b \in bs1 : OfUse(prog, b) /\ Agrees(prog, b)
       /\ \A u : u[1] = 1 /\ u[2] \in names1 => Bound(bs1, w, u)
  BY <1>1, <1>8, <1>9, ResolvedFound
<1>11. /\ ~Throws(vs, gs, names2)
       /\ \A b \in bs2 : OfUse(prog, b) /\ Agrees(prog, b)
       /\ \A u : u[1] = 2 /\ u[2] \in names2 => Bound(bs2, w, u)
  BY <1>1, <1>8, <1>9, ResolvedFound
<1>12. outcome' # "thrown"
  <2>1. ~Throws(vs, gs, names1 \cup names2)
    BY <1>10, <1>11 DEF Throws
  <2>2. PICK overruns : Outcome(Throws(vs, gs, names1 \cup names2), overruns)
    BY <1>5 DEF vs, gs
  <2>3. outcome # "thrown"
    BY DEF Ready
  <2>4. QED
    BY <2>1, <2>2, <2>3, OutcomeIs
<1>13. \A u \in S!UsesAt(S!At(prog, w)) : u[1] # 3 => Bound(binds', w, u)
  <2>1. bs1 \subseteq binds' /\ bs2 \subseteq binds'
    BY <1>5
  <2>2. ASSUME NEW u \in S!UsesAt(n), u[1] # 3
        PROVE  Bound(bs1, w, u) \/ Bound(bs2, w, u)
    BY <1>6, <1>10, <1>11, <2>2
  <2>3. QED
    BY <1>1, <2>1, <2>2 DEF Bound
<1>14. \A o \in S!Unclosed(prog[item], pc) : o \in S!Unclosed(prog[item], pc + 1)
  <2>1. AtNode /\ node.k # "close"
    BY <1>1 DEF n, Ready
  <2>2. QED
    BY <2>1, NoneCloses
<1>15. Used
  <2>1. binds \subseteq binds' /\ \A b \in binds' : b \in binds \/ b \in bs1 \/ b \in bs2
    BY <1>5
  <2>2. QED
    BY <1>10, <1>11, <1>12, <1>13, <1>14, <2>1 DEF Used, w
<1>16. QED
  BY <1>2, <1>3, <1>4, <1>15 DEF Steps

(* The end of a block other than a for or a function.                      *)
LEMMA BlockCloses ==
  ASSUME Ready, node.k = "close", frames # <<>>,
         Top.k \in {"scope", "arm", "jovar", "case", "paryay"},
         NEW c \in FrameRecord, c.k = "chain",
         \/ frames' = Front(frames)
         \/ frames' = Append(Front(frames), c),
         vars' = Shrink(vars, Top.mark),
         UNCHANGED <<globals, inFunction, binds, outcome>>, Advance
  PROVE  Steps
<1>1. /\ frames \in Seq(FrameRecord) /\ Matched(prog[item], frames) /\ AtNode
      /\ MarksGrow
  BY DEF Ready, AtNode, WalkAt
<1>2. Top.k \notin {"chain", "body"}
  OBVIOUS
<1>3. /\ Moved
      /\ S!Unclosed(prog[item], pc + 1) = S!Unclosed(prog[item], pc) \ {Top.at}
  BY <1>1, <1>2, MovesClose
<1>4. prog[item][Top.at].k # "pratyek"
  <2>1. Top = frames[Len(frames)] /\ Len(frames) \in DOMAIN frames
    BY <1>1, TopIs
  <2>2. frames[Len(frames)].k \notin {"chain", "pratyek", "body"}
    BY <2>1
  <2>3. QED
    BY <1>1, <2>1, <2>2 DEF Matched
<1>5. \A o \in S!Unclosed(prog[item], pc) :
        \/ o \in S!Unclosed(prog[item], pc + 1)
        \/ prog[item][o].k # "pratyek"
  BY <1>3, <1>4
<1>6. Used
  BY <1>5, UsesNothing
<1>7. Declared
  BY DeclaresNothing
<1>8. QED
  BY <1>3, <1>6, <1>7 DEF Steps

LEMMA CloseSteps ==
  ASSUME Ready, IInv,
         \/ EndGenScope \/ EndLastArm \/ EndArm \/ EndWhile \/ EndCase
         \/ EndSwitch
  PROVE  Steps
<1> DEFINE c == [Top EXCEPT !.k = "chain", !.next = NoLabel]
           Ends == /\ node.k = "close" /\ frames # <<>>
                   /\ Top.k \in {"scope", "arm", "jovar", "case", "paryay"}
                   /\ \/ frames' = Front(frames)
                      \/ frames' = Append(Front(frames), c)
                   /\ UNCHANGED <<globals, inFunction, binds, outcome>>
                   /\ Advance
           Leaves == EndScope(Top) /\ Top.k # "paryay"
<1>1. Ends
  <2>1. ASSUME EndGenScope PROVE Ends
    BY <2>1 DEF EndGenScope, Closing
  <2>2. ASSUME EndLastArm PROVE Ends
    BY <2>2 DEF EndLastArm, Closing
  <2>3. ASSUME EndArm PROVE Ends
    BY <2>3 DEF EndArm, Closing
  <2>4. ASSUME EndWhile PROVE Ends
    BY <2>4 DEF EndWhile, Closing
  <2>5. ASSUME EndCase PROVE Ends
    BY <2>5 DEF EndCase, Closing
  <2>6. ASSUME EndSwitch PROVE Ends
    BY <2>6 DEF EndSwitch, Closing
  <2> HIDE DEF Ends
  <2>7. QED
    BY <2>1, <2>2, <2>3, <2>4, <2>5, <2>6
<1>2. vars' = Shrink(vars, Top.mark)
  <2>1. CASE EndSwitch
    <3>1. vars' = vars /\ Top.k = "paryay" /\ Top = Last(frames)
      BY <2>1 DEF EndSwitch, Closing, Top
    <3>2. Accounted(frames, vars, stackSize)
      BY DEF IInv
    <3>3. Last(frames).k \in {"chain", "paryay"} =>
            Shrink(vars, Last(frames).mark) = vars
      BY <1>1, <3>2, PopAccounted
    <3>4. QED
      BY <3>1, <3>3
  <2>2. CASE ~EndSwitch
    <3>1. Leaves
      <4>1. ASSUME EndGenScope PROVE Leaves
        BY <4>1 DEF EndGenScope, Closing
      <4>2. ASSUME EndLastArm PROVE Leaves
        BY <4>2 DEF EndLastArm, Closing
      <4>3. ASSUME EndArm PROVE Leaves
        BY <4>3 DEF EndArm, Closing
      <4>4. ASSUME EndWhile PROVE Leaves
        BY <4>4 DEF EndWhile, Closing
      <4>5. ASSUME EndCase PROVE Leaves
        BY <4>5 DEF EndCase, Closing
      <4> HIDE DEF Leaves
      <4>6. QED
        BY <2>2, <4>1, <4>2, <4>3, <4>4, <4>5
    <3>2. QED
      BY <1>1, <3>1, EndScopeRestores
  <2>3. QED
    BY <2>1, <2>2
<1>3. c \in FrameRecord /\ c.k = "chain"
  <2>1. Top \in FrameRecord
    BY <1>1, TopIs DEF Ready, AtNode
  <2> DEFINE f == Top
  <2>2. f \in FrameRecord
    BY <2>1
  <2> HIDE DEF f
  <2>3. /\ [f EXCEPT !.k = "chain", !.next = NoLabel] \in FrameRecord
        /\ [f EXCEPT !.k = "chain", !.next = NoLabel].k = "chain"
    BY <2>2 DEF FrameRecord, FrameKinds, NoLabel
  <2>4. QED
    BY <2>3 DEF f
<1> HIDE DEF c
<1>4. QED
  BY <1>1, <1>2, <1>3, BlockCloses

(* The end of a for: its step is generated with the variables of the       *)
(* header in place.                                                        *)
LEMMA EndForSteps ==
  ASSUME Ready, IInv, EndFor
  PROVE  Steps
<1> DEFINE header == frames[Len(frames) - 1]
           at == Top.at
           v == <<item, at>>
           inside == Shrink(vars, Top.mark)
           names == References(prog[item][at].step)
           bs == Resolved(inside, globals, names, <<item, at, 3>>)
<1>1. /\ node.k = "close" /\ frames # <<>> /\ Top.k = "body" /\ Len(frames) > 1
      /\ vars' = Shrink(inside, header.mark)
      /\ frames' = Front(Front(frames))
      /\ binds' = binds \cup bs
      /\ \E overruns : Outcome(Throws(inside, globals, names), overruns)
      /\ globals' = globals /\ inFunction' = inFunction /\ Advance
  BY DEF EndFor, Closing, InStep
<1>2. header.k = "pratyek"
  <2>1. frames \in Seq(FrameRecord) /\ Shaped(frames, inFunction)
    BY DEF Ready, AtNode, IInv
  <2>2. frames[Len(frames)].k = "body" /\ Len(frames) \in DOMAIN frames
    BY <1>1, <2>1, TopIs
  <2>3. QED
    BY <2>1, <2>2 DEF Shaped
<1>3. AtNode /\ MarksGrow
  BY DEF Ready
<1> HIDE DEF inside
<1>4. /\ Moved
      /\ S!Unclosed(prog[item], pc + 1) = S!Unclosed(prog[item], pc) \ {Top.at}
      /\ v \in S!Nodes(prog) /\ S!At(prog, v).k = "pratyek"
      /\ inside \in Seq(VarRecord)
      /\ S!Holds(inside, Len(inside),
                 S!InScope(prog, item, Top.at, Outside(prog, item))
                   \cup S!DeclarationsAt(prog, v))
  <2>1. inside = Shrink(vars, Top.mark)
    BY DEF inside
  <2>2. QED
    BY <1>1, <1>2, <1>3, <2>1, MovesEndFor
<1>5. v[1] = item /\ v[2] = at /\ S!At(prog, v) = prog[item][at]
  BY DEF S!At
<1>6. /\ \A x \in names : \E u \in S!UsesAt(S!At(prog, v)) : u[1] = 3 /\ u[2] = x
      /\ \A u \in S!UsesAt(S!At(prog, v)) : u[1] = 3 => u[2] \in names
  <2>1. prog[item][at].k = "pratyek"
    BY <1>4, <1>5
  <2> DEFINE m == prog[item][at]
  <2> HIDE DEF m
  <2>2. /\ \A x \in References(m.step) : \E u \in S!UsesAt(m) : u[1] = 3 /\ u[2] = x
        /\ \A u \in S!UsesAt(m) :
             \/ u[1] = 1 /\ u[2] \in References(m.init)
             \/ u[1] = 2 /\ u[2] \in Mentions(m.cond)
             \/ u[1] = 3 /\ u[2] \in References(m.step)
    BY <2>1, HeaderUses DEF m
  <2>3. \A u \in S!UsesAt(m) : u[1] = 3 => u[2] \in References(m.step)
    BY <2>2
  <2>4. QED
    BY <1>5, <2>2, <2>3 DEF m
<1> DEFINE D == S!DeclarationsAt(prog, v)
<1>7. /\ prog \in S!Program /\ S!IsTree(prog) /\ S!WellFormed(prog)
      /\ globals \in Seq(VarRecord) /\ OfTopLevel(prog, globals)
      /\ IsKarya(prog, item) => AllGlobals(prog, globals)
  BY DEF Ready, AtNode
<1> HIDE DEF v, at, names, header
<1>8. ASSUME NEW u \in S!UsesAt(S!At(prog, v)), u[1] = 3
      PROVE  Found(prog, inside, globals, <<v[1], v[2], u[1]>>, u[2])
  <2>1. /\ D = S!DeclarationsAt(prog, v) /\ u[1] \in {2, 3}
        /\ S!At(prog, v).k = "pratyek" /\ S!At(prog, v).k # "close"
    BY <1>4, <1>8
  <2> HIDE DEF D
  <2>2. S!Holds(inside, Len(inside),
                S!InScope(prog, v[1], v[2], Outside(prog, v[1])) \cup D)
    BY <1>4, <1>5 DEF D, at
  <2>3. IsKarya(prog, v[1]) => AllGlobals(prog, globals)
    BY <1>5, <1>7
  <2>4. QED
    BY <1>4, <1>7, <1>8, <2>1, <2>2, <2>3, PartFound, ZenonT(60)
<1>9. \A x \in names : Found(prog, inside, globals, <<v[1], v[2], 3>>, x)
  BY <1>6, <1>8
<1>10. bs = Resolved(inside, globals, names, <<v[1], v[2], 3>>)
  BY <1>5
<1> HIDE DEF bs
<1>11. /\ ~Throws(inside, globals, names)
       /\ \A b \in bs : OfUse(prog, b) /\ Agrees(prog, b)
       /\ \A u : u[1] = 3 /\ u[2] \in names => Bound(bs, v, u)
  BY <1>4, <1>6, <1>9, <1>10, ResolvedFound
<1>12. outcome' # "thrown"
  <2>1. PICK overruns : Outcome(Throws(inside, globals, names), overruns)
    BY <1>1
  <2>2. outcome # "thrown"
    BY DEF Ready
  <2>3. QED
    BY <1>11, <2>1, <2>2, OutcomeIs
<1>13. S!UsesAt(S!At(prog, <<item, pc>>)) = {}
  <2>1. S!At(prog, <<item, pc>>).k = "close"
    BY <1>1, <1>3, NodeHere
  <2>2. QED
    BY <2>1 DEF S!UsesAt, S!AllExprs, S!SimpleKinds
<1>14. ASSUME NEW o \in S!Unclosed(prog[item], pc)
       PROVE  \/ o \in S!Unclosed(prog[item], pc + 1)
              \/ \A u \in S!UsesAt(S!At(prog, <<item, o>>)) :
                   u[1] = 3 => Bound(binds', <<item, o>>, u)
  <2>1. CASE o # at
    BY <1>4, <2>1 DEF at
  <2>2. CASE o = at
    <3>1. <<item, o>> = v
      BY <2>2 DEF v
    <3>2. \A u \in S!UsesAt(S!At(prog, v)) : u[1] = 3 => Bound(bs, v, u)
      BY <1>6, <1>11
    <3>3. \A u : Bound(bs, v, u) => Bound(binds', v, u)
      BY <1>1 DEF Bound
    <3>4. QED
      BY <3>1, <3>2, <3>3
  <2>3. QED
    BY <2>1, <2>2
<1>15. Used
  BY <1>1, <1>11, <1>12, <1>13, <1>14 DEF Used
<1>16. Declared
  BY <1>1, DeclaresNothing
<1>17. QED
  BY <1>1, <1>4, <1>15, <1>16 DEF Steps

(* All the steps at a node that is no function and not its end.            *)
AtNodeStep ==
  \/ GenSimple \/ GenBreak \/ GenContinue \/ GenReturn
  \/ GenScope \/ GenIf \/ GenElseIf \/ GenElse \/ GenWhile \/ GenFor
  \/ GenSwitch \/ GenCase
  \/ EndGenScope \/ EndLastArm \/ EndArm \/ EndWhile \/ EndFor
  \/ EndCase \/ EndSwitch

LEMMA NodeSteps ==
  ASSUME Ready, IInv, IInv', AtNodeStep
  PROVE  Steps
BY SimpleSteps, JumpSteps, ReturnSteps, BlockSteps, ArmSteps, ForSteps, CaseSteps,
   CloseSteps, EndForSteps, Zenon DEF AtNodeStep
=============================================================================
