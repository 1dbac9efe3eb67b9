------------------------------ MODULE MCParser ------------------------------
(***************************************************************************)
(* The instance of Parser that TLC checks, and the properties that compare *)
(* its verdict and its tree with Grammar.                                  *)
(***************************************************************************)
EXTENDS Parser, Grammar

MCIdents == {"x", "f"}

-----------------------------------------------------------------------------
(* Trees, and the programs they are the text of.                           *)
T(n, words, kids) == [node |-> n, words |-> words, kids |-> kids]

One == T("leaf", <<"int">>, <<>>)
X == T("name", <<"x">>, <<>>)
Paren(e) == T("paren", <<>>, <<e>>)
Args(es) == T("args", <<>>, es)
CallOf(es) == T("call", <<"f">>, <<Args(es)>>)
Bin(op, l, r) == T("binary", <<op>>, <<l, r>>)
Post == T("post", <<"x", "++">>, <<>>)
Pre == T("pre", <<"--", "x">>, <<>>)

Flat == {Bin("+", One, X), Bin("*", One, X), Bin("||", X, One),
         T("unary", <<"-">>, <<X>>), Post, Pre, CallOf(<<>>), CallOf(<<X, One>>)}

Nested ==
  {e \in {Bin(op, l, r) : op \in {"+", "-", "*", "<<", "<", "==", "&", "^", "|", "&&", "||"},
                          l \in Flat, r \in Flat}
         \cup {T("unary", <<op>>, <<u>>) : op \in {"!", "~"}, u \in Flat}
         \cup {Paren(u) : u \in Flat} \cup {CallOf(<<u, v>>) : u, v \in Flat} :
     NestsByLevel(e)}

Mods(words) == T("modifiers", words, <<>>)
Ank == Mods(<<"ank">>)
DeclOf(ms, init) == T("decl", <<"x">>, <<ms>> \o init)
Let == T("assign", <<"x", "=">>, <<One>>)
Scope(ts) == T("scope", <<>>, ts)
Halt == T("thamba", <<>>, <<>>)

Else == T("anyatha", <<>>, <<Scope(<<>>)>>)
ElseIf(rest) == T("nahitar", <<>>, <<X, Scope(<<Halt>>)>> \o rest)
IfOf(body, rest) == T("jar", <<>>, <<X, Scope(body)>> \o rest)
Ifs == {IfOf(<<Halt>>, <<>>), IfOf(<<>>, <<Else>>), IfOf(<<>>, <<ElseIf(<<>>)>>),
        IfOf(<<>>, <<ElseIf(<<Else>>)>>)}

Plain ==
  {Halt, Let, Post, Pre, CallOf(<<X>>), T("pudhe", <<>>, <<>>),
   DeclOf(Ank, <<>>), DeclOf(Mods(<<"te", "maze", "sthir", "sarve", "uch", "bhagank">>), <<One>>),
   T("decl", <<"x", "ahe">>, <<Ank, X>>),
   T("partav", <<>>, <<>>), T("partav", <<>>, <<X>>), T("leeh", <<>>, <<X>>),
   T("shevti", <<>>, <<One>>)}

Arm(value, ts) == T("case", <<>>, <<value>> \o ts)
Default(ts) == T("case", <<"anyatha">>, ts)
SwitchOf(arms) == T("paryay", <<>>, <<X>> \o arms)

ArmBodies == {<<>>} \cup {<<s>> : s \in {Halt, Let} \cup Ifs}
Switches ==
  {SwitchOf(<<>>), SwitchOf(<<Default(<<Halt>>)>>)}
  \cup {SwitchOf(<<Arm(v, b), Arm(w, <<Halt>>)>>) :
          v, w \in {One, X, Bin("+", One, X)}, b \in ArmBodies}
  \cup {SwitchOf(<<Arm(One, b), Default(<<Halt>>), Arm(One, b)>>) : b \in ArmBodies}

Function ==
  T("karya", <<"f", "x", "x">>, <<Ank, Ank, Mods(<<"akshar">>), Scope(<<Halt>>)>>)

Loops ==
  {T("pratyek", <<>>, <<i, X, s, Scope(<<>>)>>) :
     i \in {DeclOf(Ank, <<One>>), Let, Post}, s \in {Post, Pre, Let}}
  \cup {T("jovar", <<>>, <<X, Scope(<<s>>)>>) : s \in Plain \cup Ifs}

Statements ==
  Plain \cup Ifs \cup Switches \cup Loops
  \cup {Scope(<<s>>) : s \in Plain \cup Ifs}
  \cup {Function, T("karya", <<"f">>, <<Ank, Scope(<<>>)>>)}

ProgramOf(ts) == Append(Lines(ts), Eof)

Sentences ==
  {ProgramOf(<<s>>) : s \in Statements}
  \cup {ProgramOf(<<T("assign", <<"x", "+=">>, <<e>>), Halt>>) : e \in Nested}

-----------------------------------------------------------------------------
(* Token sequences nobody meant: all short ones over a few pieces, and the *)
(* sentences of a sample with one token left out, doubled or replaced.     *)
UpTo(n, pieces) == {FlattenSeq(s) : s \in UNION {[1..m -> pieces] : m \in 0..n}}
Single(ts) == {<<t>> : t \in ts}

Around(before, middles, after) == {before \o m \o after : m \in middles}

Free ==
  Around(<<"x", "=">>, UpTo(5, Single({"x", "+", "*", "(", ")", "++"})), <<";", Eof>>)
  \cup Around(<<"f", "(">>, UpTo(4, Single({"x", ",", "(", ")", ";"})), <<")", ";", Eof>>)
  \cup Around(<<>>, UpTo(5, Single({"{", "}", ";"})
                           \cup {<<"thamba", ";">>, <<"jar", "(", "x", ")", "{">>,
                                 <<"anyatha", "{">>}), <<Eof>>)
  \cup Around(<<"paryay", "(", "x", ")", "{">>,
              UpTo(4, Single({"int", ":", "anyatha", "}", "x"})
                      \cup {<<"thamba", ";">>, <<"jar", "(", "x", ")", "{", "}">>}),
              <<"}", Eof>>)
  \cup Around(<<>>, UpTo(4, Single({"he", "te", "sthir", "ank", "karya", "x", "ahe", ";"})),
              <<"int", ";", Eof>>)

Sample ==
  {ProgramOf(<<s>>) : s \in
     {Function, IfOf(<<Halt>>, <<ElseIf(<<Else>>)>>),
      T("pratyek", <<>>, <<DeclOf(Ank, <<One>>), X, Post, Scope(<<Let>>)>>),
      SwitchOf(<<Arm(One, <<Halt>>), Default(<<Let>>)>>),
      T("jovar", <<>>, <<CallOf(<<X, One>>), Scope(<<T("leeh", <<>>, <<X>>)>>)>>)}}

Edited(t) ==
  UNION {{RemoveAt(t, i), InsertAt(t, i, t[i])}
         \cup {[t EXCEPT ![i] = w] : w \in {";", "}", "{", ")", "x", "va", "jar", "varg"}} :
           i \in 1..(Len(t) - 1)}

MCInputs == Sentences \cup Free \cup UNION {Edited(t) : t \in Sample}

-----------------------------------------------------------------------------
(* The one thing the parser accepts beyond the grammar: an argument that   *)
(* is missing (ParserExpr.cpp:11).                                         *)
HasEmptyArgument(ts) ==
  \E i \in 1..(Len(ts) - 1) :
    \/ ts[i] \in {"(", ","} /\ ts[i + 1] = ","
    \/ ts[i] = "," /\ ts[i + 1] = ")"

(* Whatever the parser accepts without a report is the text of the tree it *)
(* made, and operators nest in it by their levels: no token is skipped,    *)
(* dropped or attached elsewhere in silence.  Empty arguments excepted.    *)
AcceptedTextIsTheTree ==
  Ended /\ errors = {} =>
    /\ NestsByLevel(ret.tree)
    /\ \/ Normal(Text(ret.tree)) = Normal(tokens)
       \/ HasEmptyArgument(tokens)

(* The arms of a switch the parser does not tell apart: it takes only an   *)
(* integer and a colon for the beginning of a further arm, and an anyatha  *)
(* after a jar for its else (ParserStmt.cpp:246-249, ParserDecl.cpp:39).   *)
RECURSIVE EndsOpen(_)
EndsOpen(t) ==
  /\ t.node \in {"jar", "nahitar"}
  /\ Len(t.kids) < 3 \/ EndsOpen(t.kids[3])

Misread(sw) ==
  \E i \in 3..Len(sw.kids) :
    LET before == sw.kids[i - 1]
        arm == sw.kids[i]
    IN  IF arm.words = <<>> THEN arm.kids[1] # One
                            ELSE before.kids # <<>> /\ EndsOpen(Last(before.kids))

Unreadable == {ProgramOf(<<s>>) : s \in {t \in Switches : Misread(t)}}

(* Every sentence of the grammar is accepted, those switches excepted.     *)
SentencesAreAccepted ==
  Ended /\ tokens \in Sentences => (errors = {} <=> tokens \notin Unreadable)
=============================================================================
