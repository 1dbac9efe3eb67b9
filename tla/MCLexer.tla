------------------------------ MODULE MCLexer ------------------------------
(***************************************************************************)
(* The instance of Lexer that TLC checks: every short text over a few      *)
(* characters that can be confused with each other.                        *)
(***************************************************************************)
EXTENDS Lexer

MCLetters == {"v", "a", "n", "_"}
MCDigits == {"1", "0"}
MCSpaces == {" ", "\n", "\t"}
MCOthers == {"@"}
MCKeywords == {<<"v", "a">>, <<"a", "n">>}

AllUpTo(n, chars) == UNION {[1..m -> chars] : m \in 0..n}

MCSources ==
  AllUpTo(7, {"\"", "\\", "n", "\n"})
  \cup AllUpTo(6, {"'", "\\", "a", "0"})
  \cup AllUpTo(7, {"/", "*", "\n", "a"})
  \cup AllUpTo(5, {"1", ".", "a", "_", " "})
  \cup AllUpTo(4, {"v", "a", "n", "1", "@"})
  \cup AllUpTo(4, {"+", "-", "=", "<", "&", "!", ";"})
  \cup AllUpTo(4, {"\"", "'", "/", "*", "\\", " "})
=============================================================================
