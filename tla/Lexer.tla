------------------------------- MODULE Lexer -------------------------------
(***************************************************************************)
(* The lexer (include/lexer/Lexer.hpp, src/lexer): a cursor over the       *)
(* source text, and one scanner per kind of token.  One step is one        *)
(* iteration of a loop of a scanner, or what it does before or after its   *)
(* loop; "mode" is the loop it is in.                                      *)
(*                                                                         *)
(* A character is a string of length one.                                  *)
(* The standard string may be read one past its last character, where it   *)
(* holds Nul, and not beyond.                                              *)
(***************************************************************************)
EXTENDS Naturals, Sequences, FiniteSets, LexicalGrammar

CONSTANTS
  Sources,      \* the source texts
  Spaces,       \* what isspace() accepts
  Others,       \* characters that begin no token
  Keywords      \* the words of keywordTable()

Nul == "nul"

Marks == {Quote, "'", "\\", "/", "*", ".", "+", "-", "%", "=", "!", "<", ">", "&",
          "|", "^", "~", ";", ",", ":", "(", ")", "{", "}", "[", "]"}

Characters == Letters \cup Digits \cup Spaces \cup Marks \cup Others \cup {Nul}

ASSUME SourcesAssumption == Sources \subseteq Seq(Characters)
ASSUME CharactersAssumption ==
  /\ Letters \cap Digits = {} /\ Letters \cap Spaces = {} /\ Digits \cap Spaces = {}
  /\ (Letters \cup Digits \cup Spaces) \cap (Marks \cup Others \cup {Nul}) = {}
  /\ Others \cap Marks = {}
  /\ {"\n", "\t"} \subseteq Spaces

VARIABLES
  source,       \* _source
  idx,          \* _idx, from 1
  line, col,    \* _line, _col
  mode,         \* the loop the lexer is in
  start,        \* start of the scanner's token: its position, line and column
  text,         \* text of the scanner
  tokens,       \* tokens of tokenize(), each with the position past its end
  errors        \* the positions reported

vars == <<source, idx, line, col, mode, start, text, tokens, errors>>
output == <<tokens, errors>>

-----------------------------------------------------------------------------
(* The cursor.                                                             *)
CharAt(i) == IF i <= Len(source) THEN source[i] ELSE Nul
Char == CharAt(idx)
AtEnd == idx > Len(source)

Here == [at |-> idx, line |-> line, col |-> col]

(* advance(), once and twice; and over n characters of which none is a     *)
(* line feed.  Definitions marked "mutant" are not the code: they are bugs *)
(* the properties are known to catch.                                      *)
LineAfter(l, c) == IF c = "\n" THEN l + 1 ELSE l
ColAfter(k, c) == IF c = "\n" THEN 1 ELSE k + 1

Advance ==
  /\ idx' = idx + 1
  /\ line' = LineAfter(line, Char)
  /\ col' = ColAfter(col, Char)

TwoColumns == idx' = idx + 2 /\ col' = col + 2 /\ UNCHANGED line      \* mutant

AdvanceTwice ==
  /\ idx' = idx + 2
  /\ line' = LineAfter(LineAfter(line, Char), CharAt(idx + 1))
  /\ col' = ColAfter(ColAfter(col, Char), CharAt(idx + 1))

AdvanceBy(n) == idx' = idx + n /\ col' = col + n /\ UNCHANGED line

Stay == UNCHANGED <<idx, line, col>>

(* A finished token; "to" is where the cursor is when it is returned.      *)
Push(type, from, to, word) ==
  tokens' = Append(tokens, [type |-> type, from |-> from.at, line |-> from.line,
                            col |-> from.col, to |-> to, text |-> word])

Begin(m) == mode' = m /\ start' = Here /\ text' = <<>>

ReportAt(i) == errors' = errors \cup {i}

Init ==
  /\ source \in Sources
  /\ idx = 1 /\ line = 1 /\ col = 1
  /\ mode = "between"
  /\ start = Here
  /\ text = <<>> /\ tokens = <<>> /\ errors = {}

-----------------------------------------------------------------------------
(* skipWhitespaceAndComments()                                             *)
AtBlockEnd == Char = "*" /\ CharAt(idx + 1) = "/"

Blank ==
  /\ mode = "between" /\ ~AtEnd /\ Char \in Spaces
  /\ Advance
  /\ UNCHANGED <<source, mode, start, text, output>>

BeginComment ==
  /\ mode = "between" /\ ~AtEnd /\ Char = "/"
  /\ \/ CharAt(idx + 1) = "/" /\ mode' = "line comment" /\ Stay
     \/ CharAt(idx + 1) = "*" /\ mode' = "block comment" /\ AdvanceTwice
  /\ UNCHANGED <<source, start, text, output>>

InComment ==
  /\ ~AtEnd
  /\ \/ mode = "line comment" /\ Char # "\n"
     \/ mode = "block comment" /\ ~AtBlockEnd
  /\ Advance
  /\ UNCHANGED <<source, mode, start, text, output>>

NeedsLineFeed ==      \* mutant
  /\ mode = "line comment" /\ Char = "\n"
  /\ mode' = "between"
  /\ UNCHANGED <<source, idx, line, col, start, text, output>>

EndLineComment ==
  /\ mode = "line comment" /\ (AtEnd \/ Char = "\n")
  /\ mode' = "between"
  /\ UNCHANGED <<source, idx, line, col, start, text, output>>

ClosesUnchecked ==      \* mutant
  /\ mode = "block comment" /\ (AtEnd \/ AtBlockEnd)
  /\ AdvanceTwice
  /\ mode' = "between"
  /\ UNCHANGED <<source, start, text, output>>

EndBlockComment ==
  /\ mode = "block comment" /\ (AtEnd \/ AtBlockEnd)
  /\ IF AtEnd THEN ReportAt(idx) /\ Stay ELSE AdvanceTwice /\ UNCHANGED errors
  /\ mode' = "between"
  /\ UNCHANGED <<source, start, text, tokens>>

-----------------------------------------------------------------------------
(* tokenize(): at the end, and at the first character of a token.  A       *)
(* scanner for strings or characters passes the opening quote.             *)
InWord(c) == c \in Letters \cup Digits

FinishAgain ==      \* mutant
  /\ mode = "between" /\ AtEnd
  /\ Push("eof", Here, idx, <<>>)
  /\ UNCHANGED <<source, idx, line, col, mode, start, text, errors>>

Finish ==
  /\ mode = "between" /\ AtEnd
  /\ Push("eof", Here, idx, <<>>)
  /\ mode' = "done"
  /\ UNCHANGED <<source, idx, line, col, start, text, errors>>

BeginToken ==
  /\ mode = "between" /\ ~AtEnd
  /\ \/ Char \in Letters /\ Begin("word") /\ Stay
     \/ Char \in Digits /\ Begin("integer") /\ Stay
     \/ Char = Quote /\ Begin("string") /\ Advance
     \/ Char = "'" /\ Begin("char") /\ Advance
  /\ UNCHANGED <<source, output>>

(* One more character of a word or a number, or the point of a fraction.   *)
More ==
  /\ ~AtEnd
  /\ \/ mode = "word" /\ InWord(Char) /\ UNCHANGED mode
     \/ mode \in {"integer", "fraction"} /\ Char \in Digits /\ UNCHANGED mode
     \/ /\ mode = "integer" /\ Char = "." /\ CharAt(idx + 1) \in Digits
        /\ mode' = "fraction"
  /\ Advance
  /\ text' = Append(text, Char)
  /\ UNCHANGED <<source, start, output>>

EndWord ==
  /\ mode = "word" /\ (AtEnd \/ ~InWord(Char))
  /\ IF text \in Keywords THEN Push("keyword", start, idx, <<>>)
                          ELSE Push("identifier", start, idx, text)
  /\ mode' = "between"
  /\ UNCHANGED <<source, idx, line, col, start, text, errors>>

EndNumber ==
  /\ \/ mode = "fraction"
     \/ mode = "integer" /\ ~(Char = "." /\ CharAt(idx + 1) \in Digits)
  /\ AtEnd \/ Char \notin Digits
  /\ Push(IF mode = "fraction" THEN "float" ELSE "int", start, idx, text)
  /\ mode' = "between"
  /\ UNCHANGED <<source, idx, line, col, start, text, errors>>

-----------------------------------------------------------------------------
(* lexString() and lexChar()                                               *)
Decoded(c) ==
  IF c = "n" THEN "\n" ELSE IF c = "t" THEN "\t" ELSE IF c = "0" THEN Nul ELSE c

(* An escape: the backslash and what follows it, which at the end of the   *)
(* source is Nul.                                                          *)
Escape ==
  /\ ~AtEnd /\ Char = "\\"
  /\ \/ mode = "string" /\ UNCHANGED mode
     \/ mode = "char" /\ mode' = "char end"
  /\ AdvanceTwice
  /\ text' = Append(text, Decoded(CharAt(idx + 1)))
  /\ UNCHANGED <<source, start, output>>

Verbatim ==
  /\ ~AtEnd /\ Char # "\\"
  /\ \/ mode = "string" /\ Char # Quote /\ UNCHANGED mode
     \/ mode = "char" /\ mode' = "char end"
  /\ Advance
  /\ text' = Append(text, Char)
  /\ UNCHANGED <<source, start, output>>

NoCharacter ==
  /\ mode = "char" /\ AtEnd
  /\ mode' = "char end"
  /\ UNCHANGED <<source, idx, line, col, start, text, output>>

ReportsLate ==      \* mutant
  /\ mode = "string" /\ (AtEnd \/ Char = Quote)
  /\ IF AtEnd THEN Stay ELSE Advance
  /\ IF idx' > Len(source) THEN ReportAt(start.at) ELSE UNCHANGED errors
  /\ Push("string", start, idx', text)
  /\ mode' = "between"
  /\ UNCHANGED <<source, start, text>>

EndString ==
  /\ mode = "string" /\ (AtEnd \/ Char = Quote)
  /\ IF AtEnd THEN ReportAt(start.at) /\ Stay ELSE Advance /\ UNCHANGED errors
  /\ Push("string", start, idx', text)
  /\ mode' = "between"
  /\ UNCHANGED <<source, start, text>>

EndChar ==
  /\ mode = "char end"
  /\ IF ~AtEnd /\ Char = "'" THEN Advance /\ UNCHANGED errors
                            ELSE ReportAt(start.at) /\ Stay
  /\ Push("char", start, idx', text)
  /\ mode' = "between"
  /\ UNCHANGED <<source, start, text>>

-----------------------------------------------------------------------------
(* lexPunctuationOrOperator(): how many characters the token takes; none   *)
(* for a character that begins no token.                                   *)
Alone == {";", ",", ":", ".", "(", ")", "{", "}", "[", "]", "~"}
Doubles == {"+", "-", "&", "|"}
Shifts == {"<", ">"}
WithEqual == Doubles \cup Shifts \cup {"*", "/", "%", "=", "!", "^"}

ShiftsAlone(i) ==      \* mutant
  LET c == CharAt(i)
      next == CharAt(i + 1)
  IN  IF c \notin Alone \cup WithEqual THEN 0
      ELSE IF \/ c \in Doubles \cup Shifts /\ next = c
              \/ c \in WithEqual /\ next = "="
        THEN 2
      ELSE 1

OperatorLength(i) ==
  LET c == CharAt(i)
      next == CharAt(i + 1)
  IN  IF c \notin Alone \cup WithEqual THEN 0
      ELSE IF c \in Shifts /\ next = c /\ CharAt(i + 2) = "=" THEN 3
      ELSE IF \/ c \in Doubles \cup Shifts /\ next = c
              \/ c \in WithEqual /\ next = "="
        THEN 2
      ELSE 1

StartsComment == Char = "/" /\ CharAt(idx + 1) \in {"/", "*"}

Punctuation ==
  /\ mode = "between" /\ ~AtEnd
  /\ Char \notin Letters \cup Digits \cup Spaces \cup {Quote, "'"} /\ ~StartsComment
  /\ LET n == OperatorLength(idx)
     IN  IF n = 0 THEN ReportAt(idx) /\ AdvanceBy(1) /\ UNCHANGED tokens
                  ELSE /\ AdvanceBy(n)
                       /\ Push("operator", Here, idx + n, <<>>)
                       /\ UNCHANGED errors
  /\ UNCHANGED <<source, mode, start, text>>

Next ==
  \/ Blank \/ BeginComment \/ InComment \/ EndLineComment \/ EndBlockComment
  \/ Finish \/ BeginToken \/ More \/ EndWord \/ EndNumber
  \/ Escape \/ Verbatim \/ NoCharacter \/ EndString \/ EndChar
  \/ Punctuation

(* A loop of one thread: nothing but its own steps can stop it.            *)
Spec == Init /\ [][Next]_vars /\ WF_vars(Next)

-----------------------------------------------------------------------------
Modes == {"between", "line comment", "block comment", "word", "integer",
          "fraction", "string", "char", "char end", "done"}
Token ==
  [type : {"keyword", "identifier", "int", "float", "string", "char", "operator", "eof"},
   from : Nat, line : Nat, col : Nat, to : Nat, text : Seq(Characters)]

(* Type invariant.                                                         *)
TypeOK ==
  /\ source \in Seq(Characters)
  /\ idx \in Nat \ {0} /\ line \in Nat \ {0} /\ col \in Nat \ {0}
  /\ mode \in Modes
  /\ start \in [at : 1..idx, line : 1..line, col : Nat \ {0}]
  /\ text \in Seq(Characters)
  /\ tokens \in Seq(Token)
  /\ errors \subseteq 1..idx

(* An escape at the very end of the source reads the terminating Nul and   *)
(* leaves the cursor past it (LexerScanners.cpp:99-101, 139-141), but      *)
(* nothing is read or skipped beyond that.                                 *)
ReadsStayInside ==
  /\ idx <= Len(source) + 2
  /\ idx = Len(source) + 2 => mode \notin {"line comment", "block comment", "integer",
                                          "fraction", "word"}

(* The line and column every token and report carries are those of its     *)
(* first character: advance() never misses a line feed, whether in blanks, *)
(* comments, literals or after a backslash.                                *)
LineFeeds == {i \in 1..(idx - 1) : CharAt(i) = "\n"}

LocationIsRight ==
  /\ line = 1 + Cardinality(LineFeeds)
  /\ \A i \in 1..(idx - 1) : i + col > idx => i \notin LineFeeds
  /\ col < idx => idx - col \in LineFeeds
  /\ col <= idx

(* Tokens are handed over in the order of the text, without overlap, and   *)
(* end in one end-of-file token.                                           *)
TokensInOrder ==
  /\ \A i \in DOMAIN tokens :
       /\ tokens[i].from <= tokens[i].to /\ tokens[i].to <= idx
       /\ i > 1 => tokens[i - 1].to <= tokens[i].from
       /\ tokens[i].type = "eof" => i = Len(tokens) /\ mode = "done"
  /\ mode = "done" => tokens # <<>> /\ tokens[Len(tokens)].type = "eof"

-----------------------------------------------------------------------------
(* The tokens against the lexical grammar, stated on whole texts.          *)
Piece(from, to) == SubSeq(source, from, to - 1)
EndOfSource == Len(source) + 1

(* What lies between tokens: a blank, a character that was reported, or a  *)
(* comment, which reaches as far as it can.                                *)
IsCommentTo(i, k) ==
  \/ IsBlockComment(Piece(i, k))
  \/ IsLineComment(Piece(i, k)) /\ (k = EndOfSource \/ source[k] = "\n")
  \/ source[i] = "/" /\ source[i + 1] = "*" /\ k = EndOfSource /\ k \in errors

Skips(i, k) ==
  \/ k = i + 1 /\ (i \in errors \/ source[i] \in Spaces)
  \/ k >= i + 2 /\ IsCommentTo(i, k)

(* A gap can be cut into such pieces.                                      *)
IsGap(i, j) ==
  \/ i >= j
  \/ \E inner \in SUBSET ((i + 1)..(j - 1)) :
       LET cuts == {i, j} \cup inner
       IN  \A a, b \in cuts :
             a < b /\ (\A c \in cuts : c <= a \/ b <= c) => Skips(a, b)

LexemeKind(t) == IF t.type \in {"keyword", "identifier"} THEN "word" ELSE t.type

(* A token whose scanner made no report is the longest lexeme that begins  *)
(* where it begins, of its kind, and carries what the lexeme stands for.   *)
IsLongest(t) ==
  LET w == Piece(t.from, t.to)
  IN  /\ LexemeKind(t) \in LexemeKinds(w)
      /\ \A k \in (t.to + 1)..EndOfSource : LexemeKinds(Piece(t.from, k)) = {}
      /\ t.type = "keyword" => w \in Keywords
      /\ t.type = "identifier" => w \notin Keywords
      /\ CASE t.type \in {"string", "char"} ->
                  StandsFor(Piece(t.from, t.to - 1), t.text)
           [] t.type \in {"keyword", "operator"} -> t.text = <<>>
           [] OTHER -> t.text = w

(* The tokens and the gaps between them make up the whole source: nothing  *)
(* is lost, read twice or split where it could go on.                      *)
SplitsTheSource ==
  mode = "done" =>
    \A i \in DOMAIN tokens :
      LET t == tokens[i]
      IN  /\ IsGap(IF i = 1 THEN 1 ELSE tokens[i - 1].to, t.from)
          /\ t.type # "eof" => t.from \in errors \/ IsLongest(t)

(* A report is about text that really begins no lexeme and no comment (or, *)
(* at the end, about a comment that is not closed): legal text is never    *)
(* refused.  A literal that is not closed is one such.                     *)
ReportsAreDeserved ==
  mode = "done" =>
    \A e \in errors :
      \A k \in (e + 1)..EndOfSource :
        /\ LexemeKinds(Piece(e, k)) = {}
        /\ ~IsBlockComment(Piece(e, k)) /\ ~IsLineComment(Piece(e, k))
(* tokenize() returns, whatever the source.                                *)
Terminates == <>(mode = "done")
=============================================================================
