---------------------------- MODULE LexicalScope ----------------------------
(***************************************************************************)
(* What the language rules say of a program, without walking it: which     *)
(* declaration each use of a name refers to, from the nesting of blocks    *)
(* and the order of the text alone, and when a program obeys the rules.    *)
(* This is the reference the semantic analyser is checked against.         *)
(*                                                                         *)
(* A place is <<statement, node, part>>, and places are ordered as the     *)
(* text is.  A block is the place of its opener, <<i, o, 0>> for a body    *)
(* and <<i, o, 1>> for the header of a for; the top level is one block.    *)
(***************************************************************************)
EXTENDS Ast, FiniteSetsExt

TopLevel == <<0, 0, 0>>

Before(a, b) ==
  \/ a[1] < b[1]
  \/ a[1] = b[1] /\ a[2] < b[2]
  \/ a[1] = b[1] /\ a[2] = b[2] /\ a[3] < b[3]

Nodes(p) == UNION {{<<i, q>> : q \in DOMAIN p[i]} : i \in DOMAIN p}

At(p, w) == p[w[1]][w[2]]

(* The openers whose block the node at w is in.                            *)
Openers(p, w) == Around(p[w[1]], w[2])

(* The block a declaration at w belongs to: a switch is not one, its arms  *)
(* are.                                                                    *)
BlockOf(p, w) ==
  LET os == {o \in Openers(p, w) : p[w[1]][o].k # "paryay"}
  IN  IF os = {} THEN TopLevel ELSE <<w[1], Max(os), 0>>

(* The blocks whose declarations are in scope at part n of the node at w.  *)
BlocksAround(p, w, n) ==
  {TopLevel}
  \cup {<<w[1], o, h>> : o \in Openers(p, w), h \in {0, 1}}
  \cup (IF n > 0 THEN {<<w[1], w[2], 1>>} ELSE {})

-----------------------------------------------------------------------------
Declaration(s, site, block) ==
  [name |-> s.x, ahe |-> s.ahe, purnank |-> s.purnank, site |-> site,
   block |-> block]

DeclarationsAt(p, w) ==
  LET n == At(p, w)
  IN  CASE n.k = "decl" ->
             {Declaration(n, <<w[1], w[2], 0>>, BlockOf(p, w))}
        [] n.k = "pratyek" /\ n.init.k = "decl" ->
             {Declaration(n.init, <<w[1], w[2], 1>>, <<w[1], w[2], 1>>)}
        [] n.k = "karya" ->
             {[name |-> n.params[j], ahe |-> FALSE, purnank |-> j \in n.purnanks,
               site |-> <<w[1], w[2], j>>, block |-> <<w[1], w[2], 0>>] :
                j \in DOMAIN n.params}
        [] OTHER -> {}

Declarations(p) == UNION {DeclarationsAt(p, w) : w \in Nodes(p)}

(* The uses at a node: <<part, name, whether it is written>>.              *)
ExprUses(e, part) ==
  {<<part, x, FALSE>> : x \in e.uses} \cup {<<part, x, TRUE>> : x \in e.bumps}

SimpleUses(s, part) ==
  (UNION {ExprUses(e, part) : e \in OwnExprs(s)})
  \cup (IF s.k = "assign" THEN {<<part, s.x, TRUE>>} ELSE {})

UsesAt(n) ==
  CASE n.k = "pratyek" -> SimpleUses(n.init, 1) \cup ExprUses(n.cond, 2)
                          \cup SimpleUses(n.step, 3)
    [] n.k \in SimpleKinds -> SimpleUses(n, 0)
    [] OTHER -> UNION {ExprUses(e, 0) : e \in AllExprs(n)}

(* What a use refers to: of the declarations of its name that precede it   *)
(* in a block it is in, the last.  A set of at most one.                   *)
Referent(p, w, u) ==
  LET site == <<w[1], w[2], u[1]>>
      seen == {d \in Declarations(p) :
                 /\ d.name = u[2]
                 /\ d.block \in BlocksAround(p, w, u[1])
                 /\ Before(d.site, site)}
  IN  {d \in seen : \A c \in seen : c = d \/ Before(c.site, d.site)}

LexicalBindings(p) ==
  UNION {UNION {{<<<<w[1], w[2], u[1]>>, u[2], d.site>> :
                   d \in Referent(p, w, u)} : u \in UsesAt(At(p, w))} :
           w \in Nodes(p)}

-----------------------------------------------------------------------------
(* The rules.                                                              *)

NamesAreDeclared(p) ==
  \A w \in Nodes(p) : \A u \in UsesAt(At(p, w)) : Referent(p, w, u) # {}

NoDuplicates(p) ==
  \A c, d \in Declarations(p) :
    c.name = d.name /\ c.block = d.block => c.site = d.site

AheIsNeverWritten(p) ==
  \A w \in Nodes(p) : \A u \in UsesAt(At(p, w)) :
    u[3] => \A d \in Referent(p, w, u) : ~d.ahe

LoopJumpsAreInLoops(p) ==
  \A w \in Nodes(p) : At(p, w).k \in {"thamba", "pudhe"} =>
    \E o \in Openers(p, w) : p[w[1]][o].k \in {"jovar", "pratyek"}

ReturnsAreInFunctions(p) ==
  \A w \in Nodes(p) : At(p, w).k = "partav" =>
    \E o \in Openers(p, w) : p[w[1]][o].k = "karya"

FunctionsAreTopLevelAndDistinct(p) ==
  LET karyas == {w \in Nodes(p) : At(p, w).k = "karya"}
  IN  /\ \A w \in karyas : w[2] = 1
      /\ \A v, w \in karyas : At(p, v).x = At(p, w).x => v = w

CallsMatchDeclarations(p) ==
  \A w \in Nodes(p) : \A c \in CallsIn(AllExprs(At(p, w))) :
    \E i \in DOMAIN p : /\ p[i][1].k = "karya" /\ p[i][1].x = c[1]
                        /\ Len(p[i][1].params) = c[2]

(* The declarations and assignments among the statements at a node.        *)
SimpleParts(n) ==
  CASE n.k = "pratyek" -> {<<1, n.init>>, <<3, n.step>>}
    [] n.k \in SimpleKinds -> {<<0, n>>}
    [] OTHER -> {}

InitialisersAreLegal(p) ==
  \A w \in Nodes(p) : \A sp \in SimpleParts(At(p, w)) :
    LET s == sp[2]
    IN  /\ s.k = "decl" => /\ s.ahe => s.init # NoExpr
                           /\ s.purnank => \A e \in s.init : ~e.neg
        /\ s.k = "assign" /\ s.e.neg =>
             \A d \in Referent(p, w, <<sp[1], s.x, TRUE>>) : ~d.purnank

WellFormed(p) ==
  /\ NamesAreDeclared(p)
  /\ NoDuplicates(p)
  /\ AheIsNeverWritten(p)
  /\ LoopJumpsAreInLoops(p)
  /\ ReturnsAreInFunctions(p)
  /\ FunctionsAreTopLevelAndDistinct(p)
  /\ CallsMatchDeclarations(p)
  /\ InitialisersAreLegal(p)
=============================================================================
