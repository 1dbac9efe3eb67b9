--------------------------- MODULE LexicalGrammar ---------------------------
(***************************************************************************)
(* The lexical grammar, stated on whole pieces of text and without a       *)
(* scanner: which texts are lexemes, comments and values of literals       *)
(* (docs/language-spec.md, include/lexer/Token.hpp, src/lexer).            *)
(***************************************************************************)
EXTENDS Naturals, Sequences, FiniteSets

CONSTANTS Letters, Digits     \* what isalpha(), with the underscore, and isdigit() accept

Quote == "\""

Each(w, S) == \A i \in DOMAIN w : w[i] \in S

IsWord(w) == w # <<>> /\ Each(w, Letters \cup Digits) /\ w[1] \in Letters
IsInt(w) == w # <<>> /\ Each(w, Digits)
IsFloat(w) ==
  \E i \in DOMAIN w : /\ w[i] = "."
                      /\ IsInt(SubSeq(w, 1, i - 1))
                      /\ IsInt(SubSeq(w, i + 1, Len(w)))

(* A character of a literal is escaped if the run of backslashes before it *)
(* has an odd length.                                                      *)
Escaped(w, i) ==
  \E n \in 0..(i - 2) :
    /\ n % 2 = 1
    /\ \A j \in (i - n)..(i - 1) : w[j] = "\\"
    /\ i - n = 1 \/ w[i - n - 1] # "\\"

IsString(w) ==
  /\ Len(w) >= 2 /\ w[1] = Quote /\ w[Len(w)] = Quote /\ ~Escaped(w, Len(w))
  /\ \A i \in 2..(Len(w) - 1) : w[i] = Quote => Escaped(w, i)

IsChar(w) ==
  /\ Len(w) >= 3 /\ w[1] = "'" /\ w[Len(w)] = "'"
  /\ \/ Len(w) = 3 /\ w[2] # "\\"
     \/ Len(w) = 4 /\ w[2] = "\\"

OperatorTexts ==
  {<<c>> : c \in {";", ",", ":", ".", "(", ")", "{", "}", "[", "]", "~", "+",
                  "-", "*", "/", "%", "=", "!", "<", ">", "&", "|", "^"}}
  \cup {<<c, "=">> : c \in {"+", "-", "*", "/", "%", "=", "!", "<", ">", "&",
                            "|", "^"}}
  \cup {<<c, c>> : c \in {"+", "-", "<", ">", "&", "|"}}
  \cup {<<c, c, "=">> : c \in {"<", ">"}}

IsLineComment(w) ==
  Len(w) >= 2 /\ w[1] = "/" /\ w[2] = "/" /\ ~(\E i \in DOMAIN w : w[i] = "\n")

ClosesAt(w, i) == i >= 4 /\ w[i - 1] = "*" /\ w[i] = "/"
IsBlockComment(w) ==
  /\ Len(w) >= 4 /\ w[1] = "/" /\ w[2] = "*"
  /\ \A i \in DOMAIN w : ClosesAt(w, i) <=> i = Len(w)

(* What kind of lexeme a text is; the empty set for none.                  *)
LexemeKinds(w) ==
  {k \in {"word", "int", "float", "string", "char", "operator"} :
     CASE k = "word" -> IsWord(w) [] k = "int" -> IsInt(w)
       [] k = "float" -> IsFloat(w) [] k = "string" -> IsString(w)
       [] k = "char" -> IsChar(w) [] k = "operator" -> w \in OperatorTexts}

(* What a literal stands for, here without its closing quote: each of its  *)
(* characters in order, but for the backslashes that escape.               *)
Unescaped(c) == CASE c = "n" -> "\n" [] c = "t" -> "\t" [] c = "0" -> "nul" [] OTHER -> c

Kept(w) == {i \in 2..Len(w) : w[i] # "\\" \/ Escaped(w, i)}

StandsFor(w, text) ==
  /\ Len(text) = Cardinality(Kept(w))
  /\ \A i \in Kept(w) :
       text[Cardinality({j \in Kept(w) : j <= i})] =
         IF Escaped(w, i) THEN Unescaped(w[i]) ELSE w[i]
=============================================================================
