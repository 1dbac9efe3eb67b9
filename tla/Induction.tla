------------------------------ MODULE Induction ------------------------------
(***************************************************************************)
(* Induction on numbers and on a measure, stated of sets so that a prover  *)
(* can apply it, and what follows for recursive functions: a definition in *)
(* which the value at d comes from the values at smaller elements has a    *)
(* solution, so the function the definition names satisfies its equation.  *)
(***************************************************************************)
EXTENDS Integers, WellFoundedInduction, TLAPS

(* A set of naturals that is not empty has a least element.                *)
LEMMA LeastNatural ==
  ASSUME NEW T \in SUBSET Nat, T # {}
  PROVE  \E x \in T : \A y \in T : x <= y
<1> DEFINE R == {ss \in Nat \X Nat : ss[1] < ss[2]}
<1>1. IsWellFoundedOn(R, Nat)
  BY NatLessThanWellFounded, Zenon DEF OpToRel
<1>2. \E x \in T : \A y \in T : ~ (<<y, x>> \in R)
  <2> HIDE DEF R
  <2> QED  BY <1>1, WFMin, Zenon
<1>3. PICK x \in T : \A y \in T : ~ (<<y, x>> \in R)
  BY <1>2
<1>4. ASSUME NEW y \in T PROVE x <= y
  <2>1. ~ (y < x)
    BY <1>3, <<y, x>> \in Nat \X Nat
  <2> QED
    BY <2>1
<1> QED
  BY <1>4

(* Induction: what holds of 0 and of each number's successor holds of all. *)
LEMMA InductionOnNat ==
  ASSUME NEW P, 0 \in P, \A n \in Nat : n \in P => n + 1 \in P
  PROVE  Nat \subseteq P
<1> SUFFICES ASSUME Nat \ P # {}
             PROVE  FALSE
  OBVIOUS
<1>1. PICK x \in Nat \ P : \A y \in Nat \ P : x <= y
  <2>1. Nat \ P \in SUBSET Nat
    OBVIOUS
  <2> QED
    BY <2>1, LeastNatural, Zenon
<1>2. x # 0 /\ x - 1 \in Nat
  BY <1>1
<1>3. x - 1 \in P
  BY <1>1, <1>2
<1> QED
  BY <1>1, <1>2, <1>3

(* Induction on a measure: what holds of x when it holds of everything     *)
(* smaller holds of everything.                                            *)
LEMMA MeasureInduction ==
  ASSUME NEW D, NEW size \in [D -> Nat], NEW P,
         \A d \in D : (\A e \in D : size[e] < size[d] => e \in P) => d \in P
  PROVE  D \subseteq P
<1> SUFFICES ASSUME D \ P # {}
             PROVE  FALSE
  OBVIOUS
<1> DEFINE T == {size[d] : d \in D \ P}
<1>1. T \in SUBSET Nat /\ T # {}
  OBVIOUS
<1>2. PICK x \in T : \A y \in T : x <= y
  <2> HIDE DEF T
  <2> QED
    BY <1>1, LeastNatural
<1>3. PICK d \in D \ P : x = size[d]
  BY <1>2
<1>4. \A e \in D : size[e] < size[d] => e \in P
  <2> SUFFICES ASSUME NEW e \in D, size[e] < size[d], e \notin P
               PROVE  FALSE
    OBVIOUS
  <2>1. size[e] \in T
    OBVIOUS
  <2>2. size[e] \in Nat /\ size[d] \in Nat
    OBVIOUS
  <2> HIDE DEF T
  <2> QED
    BY <1>2, <1>3, <2>1, <2>2
<1> QED
  BY <1>3, <1>4

-----------------------------------------------------------------------------
Below(D, size, d) == {e \in D : size[e] < size[d]}

(* The part of a recursive definition for what is smaller than n.          *)
Upto(D, size, n) == {e \in D : size[e] < n}

Solves(D, S, size, step, n, f) ==
  /\ f \in [Upto(D, size, n) -> S]
  /\ \A d \in Upto(D, size, n) :
       f[d] = step[d][[e \in Below(D, size, d) |-> f[e]]]

(* Two parts agree where both are defined.                                 *)
LEMMA PartsAgree ==
  ASSUME NEW D, NEW S, NEW size \in [D -> Nat], NEW step,
         NEW m \in Nat, NEW n \in Nat, m <= n,
         NEW f, NEW g, Solves(D, S, size, step, m, f), Solves(D, S, size, step, n, g)
  PROVE  \A d \in Upto(D, size, m) : f[d] = g[d]
<1> DEFINE P == {d \in D : size[d] < m => f[d] = g[d]}
<1>1. ASSUME NEW d \in D, \A e \in D : size[e] < size[d] => e \in P
      PROVE  d \in P
  <2> SUFFICES ASSUME size[d] < m
               PROVE  f[d] = g[d]
    OBVIOUS
  <2>1. d \in Upto(D, size, m) /\ d \in Upto(D, size, n)
    <3>1. size[d] \in Nat
      OBVIOUS
    <3> QED
      BY <3>1 DEF Upto
  <2>2. \A e \in Below(D, size, d) : f[e] = g[e]
    <3> SUFFICES ASSUME NEW e \in Below(D, size, d)
                 PROVE  f[e] = g[e]
      OBVIOUS
    <3>1. e \in D /\ size[e] < size[d] /\ size[e] \in Nat /\ size[d] \in Nat
      BY DEF Below
    <3>2. size[e] < m
      BY <3>1
    <3> QED
      BY <1>1, <3>1, <3>2
  <2> HIDE DEF P
  <2>3. [e \in Below(D, size, d) |-> f[e]] = [e \in Below(D, size, d) |-> g[e]]
    BY <2>2
  <2> QED
    BY <2>1, <2>3, Zenon DEF Solves
<1>2. D \subseteq P
  <2> HIDE DEF P
  <2> QED
    BY <1>1, MeasureInduction
<1> QED
  BY <1>2 DEF Upto

(* step[d] gives the value at d from the values at everything smaller.     *)
IsStep(D, S, size, step) ==
  \A d \in D : step[d] \in [[Below(D, size, d) -> S] -> S]

Follows(D, size, step, f) ==
  \A d \in D : f[d] = step[d][[e \in Below(D, size, d) |-> f[e]]]

(* There is a part for every n.                                            *)
LEMMA PartsExist ==
  ASSUME NEW D, NEW S, NEW size \in [D -> Nat], NEW step,
         IsStep(D, S, size, step)
  PROVE  \A n \in Nat : \E f : Solves(D, S, size, step, n, f)
<1> DEFINE P == {n \in Nat : \E f : Solves(D, S, size, step, n, f)}
<1>1. 0 \in P
  <2>1. Upto(D, size, 0) = {}
    <3>1. \A d \in D : size[d] \in Nat
      OBVIOUS
    <3> QED
      BY <3>1 DEF Upto
  <2>2. Solves(D, S, size, step, 0, [d \in {} |-> d])
    BY <2>1 DEF Solves
  <2> QED
    BY <2>2
<1>2. ASSUME NEW n \in Nat, n \in P
      PROVE  n + 1 \in P
  <2>1. PICK f : Solves(D, S, size, step, n, f)
    BY <1>2
  <2> DEFINE part(d, h) == [e \in Below(D, size, d) |-> h[e]]
             g == [d \in Upto(D, size, n + 1) |-> step[d][part(d, f)]]
  <2>2. ASSUME NEW d \in Upto(D, size, n + 1)
        PROVE  /\ d \in D
               /\ Below(D, size, d) \subseteq Upto(D, size, n)
               /\ Below(D, size, d) \subseteq Upto(D, size, n + 1)
    <3>1. d \in D /\ size[d] \in Nat /\ size[d] < n + 1
      BY DEF Upto
    <3>2. \A e \in D : size[e] \in Nat
      OBVIOUS
    <3> QED
      BY <3>1, <3>2 DEF Upto, Below
  <2>3. ASSUME NEW d \in Upto(D, size, n + 1)
        PROVE  part(d, f) \in [Below(D, size, d) -> S]
    BY <2>1, <2>2 DEF Solves
  <2>4. g \in [Upto(D, size, n + 1) -> S]
    <3>1. ASSUME NEW d \in Upto(D, size, n + 1)
          PROVE  step[d][part(d, f)] \in S
      <4> HIDE DEF part
      <4> QED
        BY <2>2, <2>3 DEF IsStep
    <3> QED
      BY <3>1
  <2>5. \A d \in Upto(D, size, n) : g[d] = f[d]
    <3> SUFFICES ASSUME NEW d \in Upto(D, size, n)
                 PROVE  g[d] = f[d]
      OBVIOUS
    <3>1. d \in Upto(D, size, n + 1)
      <4>1. d \in D /\ size[d] \in Nat /\ size[d] < n
        BY DEF Upto
      <4> QED
        BY <4>1 DEF Upto
    <3>2. g[d] = step[d][part(d, f)]
      BY <3>1
    <3>3. f[d] = step[d][part(d, f)]
      BY <2>1 DEF Solves
    <3> QED
      BY <3>2, <3>3
  <2>6. ASSUME NEW d \in Upto(D, size, n + 1)
        PROVE  g[d] = step[d][part(d, g)]
    <3>1. part(d, f) = part(d, g)
      <4> HIDE DEF g
      <4> QED
        BY <2>2, <2>5
    <3> QED
      BY <3>1
  <2>7. Solves(D, S, size, step, n + 1, g)
    <3> HIDE DEF g
    <3> QED
      BY <2>4, <2>6 DEF Solves
  <2> QED
    BY <2>7
<1>3. Nat \subseteq P
  <2> HIDE DEF P
  <2> QED
    BY <1>1, <1>2, InductionOnNat
<1> QED
  BY <1>3

(* A definition by recursion has a solution.                               *)
LEMMA Recursion ==
  ASSUME NEW D, NEW S, NEW size \in [D -> Nat], NEW step, IsStep(D, S, size, step)
  PROVE  \E f \in [D -> S] : Follows(D, size, step, f)
<1> DEFINE part(n) == CHOOSE f : Solves(D, S, size, step, n, f)
           f == [d \in D |-> part(size[d] + 1)[d]]
<1>1. \A n \in Nat : Solves(D, S, size, step, n, part(n))
  BY PartsExist
<1> HIDE DEF part
<1>2. \A d \in D : size[d] \in Nat /\ size[d] + 1 \in Nat
                   /\ d \in Upto(D, size, size[d] + 1)
  BY DEF Upto
<1>3. f \in [D -> S]
  <2>1. \A d \in D : part(size[d] + 1)[d] \in S
    BY <1>1, <1>2 DEF Solves
  <2> QED
    BY <2>1
<1>4. ASSUME NEW d \in D
      PROVE  f[d] = step[d][[e \in Below(D, size, d) |-> f[e]]]
  <2> DEFINE h == part(size[d] + 1)
  <2>1. f[d] = h[d]
    OBVIOUS
  <2>2. h[d] = step[d][[e \in Below(D, size, d) |-> h[e]]]
    BY <1>1, <1>2 DEF Solves
  <2>3. ASSUME NEW e \in Below(D, size, d)
        PROVE  f[e] = h[e]
    <3>1. e \in D /\ size[e] < size[d]
      BY DEF Below
    <3>2. size[e] + 1 <= size[d] + 1 /\ size[e] + 1 \in Nat /\ size[d] + 1 \in Nat
      BY <1>2, <3>1
    <3>3. e \in Upto(D, size, size[e] + 1)
      BY <1>2, <3>1
    <3>4. part(size[e] + 1)[e] = h[e]
      BY <1>1, <3>2, <3>3, PartsAgree
    <3> QED
      BY <3>1, <3>4
  <2> HIDE DEF f, h
  <2>4. [e \in Below(D, size, d) |-> f[e]] = [e \in Below(D, size, d) |-> h[e]]
    BY <2>3
  <2> QED
    BY <2>1, <2>2, <2>4
<1> HIDE DEF f
<1> QED
  BY <1>3, <1>4 DEF Follows

(* The same for a definition that is given whole functions, and looks only *)
(* at what is smaller.                                                     *)
LooksBelow(D, S, size, step) ==
  /\ S # {} /\ size \in [D -> Nat] /\ step \in [D -> [[D -> S] -> S]]
  /\ \A d \in D : \A f, g \in [D -> S] :
       (\A e \in D : size[e] < size[d] => f[e] = g[e]) => step[d][f] = step[d][g]

LEMMA RecursionOnMeasure ==
  ASSUME NEW D, NEW S, NEW size, NEW step, LooksBelow(D, S, size, step)
  PROVE  \E f \in [D -> S] : \A d \in D : f[d] = step[d][f]
<1>1. PICK s \in S : /\ size \in [D -> Nat]
                      /\ step \in [D -> [[D -> S] -> S]]
  BY DEF LooksBelow
<1> DEFINE whole(d, h) == [e \in D |-> IF size[e] < size[d] THEN h[e] ELSE s]
           part == [d \in D |-> [h \in [Below(D, size, d) -> S] |->
                                   step[d][whole(d, h)]]]
<1>2. ASSUME NEW d \in D, NEW h \in [Below(D, size, d) -> S]
      PROVE  whole(d, h) \in [D -> S]
  BY DEF Below
<1>3. IsStep(D, S, size, part)
  <2> HIDE DEF whole
  <2> QED  BY <1>1, <1>2 DEF IsStep
<1>4. PICK f \in [D -> S] : Follows(D, size, part, f)
  <2> HIDE DEF part
  <2> QED  BY <1>1, <1>3, Recursion
<1>5. ASSUME NEW d \in D
      PROVE  f[d] = step[d][f]
  <2> DEFINE h == [e \in Below(D, size, d) |-> f[e]]
             w == whole(d, h)
  <2>1. h \in [Below(D, size, d) -> S]
    BY DEF Below
  <2>2. f[d] = part[d][h]
    BY <1>4 DEF Follows
  <2>3. part[d][h] = step[d][w]
    <3> HIDE DEF h, whole
    <3> QED  BY <2>1
  <2>4. w \in [D -> S]
    <3> HIDE DEF h, whole
    <3> QED  BY <1>2, <2>1, <1>1
  <2>5. \A e \in D : size[e] < size[d] => w[e] = f[e]
    BY DEF Below
  <2> HIDE DEF h, w, part
  <2>6. step[d][w] = step[d][f]
    BY <2>4, <2>5 DEF LooksBelow
  <2> QED  BY <2>2, <2>3, <2>6
<1> QED  BY <1>5
=============================================================================
