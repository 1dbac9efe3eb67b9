------------------------------ MODULE Grammar ------------------------------
(***************************************************************************)
(* The grammar of the language, stated on trees and without a parser: the  *)
(* text each construct is written as (docs/language-spec.md, src/parser),  *)
(* and how operators nest.  A sequence of tokens is a program if it is the *)
(* text of a tree whose operators nest as their levels say.                *)
(***************************************************************************)
EXTENDS Tokens, SequencesExt

Join(texts, sep) ==
  FoldLeft(LAMBDA acc, i : acc \o (IF i = 1 THEN <<>> ELSE sep) \o texts[i],
           <<>>, [i \in 1..Len(texts) |-> i])

RECURSIVE Text(_)

(* A statement among others: expression statements and assignments, which  *)
(* also occur in the header of a pratyek, end in a semicolon here.         *)
Line(t) ==
  Text(t) \o (IF t.node \in {"call", "post", "pre", "assign"} THEN <<";">> ELSE <<>>)

Lines(ts) == FlattenSeq([i \in DOMAIN ts |-> Line(ts[i])])

Text(t) ==
  LET w == t.words
      k == t.kids
      Rest(i) == IF Len(k) < i THEN <<>> ELSE Text(k[i])
  IN
  CASE t.node \in {"leaf", "name", "post", "pre", "modifiers"} -> w
    [] t.node \in {"call", "unary"} -> w \o Text(k[1])
    [] t.node = "args" ->
         <<"(">> \o Join([i \in DOMAIN k |-> Text(k[i])], <<",">>) \o <<")">>
    [] t.node = "paren" -> <<"(">> \o Text(k[1]) \o <<")">>
    [] t.node = "binary" -> Text(k[1]) \o w \o Text(k[2])
    [] t.node = "assign" -> w \o Text(k[1])
    [] t.node = "decl" ->
         Text(k[1]) \o w \o (IF Len(k) = 2 /\ Len(w) = 1 THEN <<"=">> ELSE <<>>)
         \o Rest(2) \o <<";">>
    [] t.node = "karya" ->
         Text(k[1]) \o <<"karya", w[1], "(">>
         \o Join([i \in 1..(Len(w) - 1) |-> Append(Text(k[i + 1]), w[i + 1])], <<",">>)
         \o <<")">> \o Text(Last(k))
    [] t.node \in {"shevti", "leeh"} ->
         <<t.node, "(">> \o Text(k[1]) \o <<")", ";">>
    [] t.node \in {"jar", "nahitar", "jovar"} ->
         <<t.node, "(">> \o Text(k[1]) \o <<")">> \o Text(k[2]) \o Rest(3)
    [] t.node = "anyatha" -> <<"anyatha">> \o Text(k[1])
    [] t.node = "pratyek" ->
         <<"pratyek", "(">> \o Line(k[1]) \o Text(k[2]) \o <<";">> \o Text(k[3])
         \o <<")">> \o Text(k[4])
    [] t.node = "paryay" ->
         <<"paryay", "(">> \o Text(k[1]) \o <<")", "{">> \o Lines(Tail(k)) \o <<"}">>
    [] t.node = "case" ->
         IF w # <<>> THEN w \o <<":">> \o Lines(k)
                     ELSE Text(k[1]) \o <<":">> \o Lines(Tail(k))
    [] t.node = "partav" -> <<"partav">> \o Rest(1) \o <<";">>
    [] t.node \in {"thamba", "pudhe"} -> <<t.node, ";">>
    [] t.node = "scope" -> <<"{">> \o Lines(k) \o <<"}">>
    [] t.node = "program" -> Lines(k)

(* What two spellings have in common: he says nothing, and the word forms  *)
(* of the operators are the operators.                                     *)
Normal(ts) ==
  LET kept == SelectSeq(ts, LAMBDA t : t \notin {"he", Eof})
  IN  [i \in DOMAIN kept |-> Operator(kept[i])]

(* Operators of a higher level bind more tightly, those of one level from  *)
(* left to right, and a prefix operator binds more tightly than any.       *)
Level(t) == IF t.node = "binary" THEN Precedence[t.words[1]] ELSE 10

RECURSIVE NestsByLevel(_)
NestsByLevel(t) ==
  /\ t.node = "binary" => /\ Level(t.kids[1]) >= Level(t)
                          /\ Level(t.kids[2]) > Level(t)
  /\ t.node = "unary" => t.kids[1].node # "binary"
  /\ \A i \in DOMAIN t.kids : NestsByLevel(t.kids[i])
=============================================================================
