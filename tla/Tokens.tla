------------------------------- MODULE Tokens -------------------------------
(***************************************************************************)
(* The token vocabulary (include/lexer/Token.hpp) and what the parser's    *)
(* static tables say of it.  A token is written as its text; an identifier *)
(* is any member of Idents, and a literal is named by its kind.            *)
(***************************************************************************)
EXTENDS Naturals, Sequences

CONSTANT Idents      \* the texts of identifiers

Literals == {"int", "float", "string", "char"}
Semicolon == ";"
Comma == ","
OpenCurly == "{"
CloseCurly == "}"
Punctuation ==
  {Semicolon, Comma, ":", ".", "(", ")", OpenCurly, CloseCurly, "[", "]"}
IncDec == {"++", "--"}
Types == {"ank", "akshar", "bhagank", "purnank", "vidhan", "nirank", "agyat"}
Sizes == {"lahan", "maha", "uch"}
Modifiers == {"he", "te", "maze", "sthir", "sarve"} \cup Sizes
AssignOps == {"=", "+=", "-=", "*=", "/=", "%=", "&=", "|=", "^=", "<<=", ">>="}
UnaryOps == {"!", "~", "-", "+"}
StatementWords == {"jar", "nahitar", "anyatha", "ahe", "jovar", "pratyek",
                   "paryay", "thamba", "pudhe", "partav", "karya", "leeh",
                   "shevti", "khare", "khote"}
Reserved == {"varg", "rachna", "navin", "vishes", "prakar", "prayatna",
             "apvaad", "ayat"}
Eof == "eof"

(* binaryPrecedence(): the binary operators by level, the loosest first.   *)
Levels ==
  <<{"||", "va"}, {"&&", "ani"}, {"|"}, {"^"}, {"&"}, {"==", "!="},
    {"<", ">", "<=", ">="}, {"<<", ">>"}, {"+", "-"}, {"*", "/", "%"}>>

BinaryOps == UNION {Levels[i] : i \in DOMAIN Levels}

Precedence ==
  [t \in BinaryOps |-> CHOOSE p \in 0..9 : t \in Levels[p + 1]]

(* toBinaryOp(): a word form is the operator it stands for.                *)
Operator(t) == CASE t = "va" -> "||" [] t = "ani" -> "&&" [] OTHER -> t

Token == Idents \cup Literals \cup Punctuation \cup IncDec \cup Types
         \cup Modifiers \cup AssignOps \cup UnaryOps \cup StatementWords
         \cup Reserved \cup BinaryOps \cup {Eof}

ASSUME IdentsAssumption ==
  Idents \cap (Literals \cup Punctuation \cup IncDec \cup Types \cup Modifiers
               \cup AssignOps \cup UnaryOps \cup StatementWords \cup Reserved
               \cup BinaryOps \cup {Eof}) = {}
=============================================================================
