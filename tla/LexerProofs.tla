----------------------------- MODULE LexerProofs -----------------------------
(***************************************************************************)
(* Proofs about the lexer, for every source text and every choice of the   *)
(* characters that are letters, digits and spaces: where it reads, which   *)
(* line and column it is at, the order of its tokens, and that the tokens  *)
(* and the reports are those the lexical grammar calls for.                *)
(***************************************************************************)
EXTENDS Lexer, Induction, FiniteSetTheorems, SequenceTheorems, TLAPS

-----------------------------------------------------------------------------
(* What is read is a character, and past the end nothing but Nul is read.  *)
LEMMA CharactersRead ==
  ASSUME source \in Seq(Characters), NEW i \in Nat \ {0}
  PROVE  CharAt(i) \in Characters /\ (CharAt(i) # Nul => i <= Len(source))
<1>1. Nul \in Characters
  BY DEF Characters
<1>2. i <= Len(source) => source[i] \in Characters
  OBVIOUS
<1>3. QED
  BY <1>1, <1>2 DEF CharAt

(* An operator is at most three characters long, all of them in the source *)
(* and none a line feed.                                                   *)
LEMMA OperatorFits ==
  ASSUME source \in Seq(Characters), NEW i \in Nat \ {0}
  PROVE  /\ OperatorLength(i) \in 0..3
         /\ \A j \in 0..2 :
              j < OperatorLength(i) =>
                i + j <= Len(source) /\ CharAt(i + j) # "\n"
<1> DEFINE c == CharAt(i)
           next == CharAt(i + 1)
           n == OperatorLength(i)
<1>1. c \in Alone \cup WithEqual => c # "\n" /\ c # Nul
  BY DEF Alone, WithEqual, Doubles, Shifts, Nul
<1>2. n \in 0..3 /\ (n > 0 => c \in Alone \cup WithEqual)
  BY DEF OperatorLength
<1>3. n > 1 => next = "=" \/ (next = c /\ c \in Doubles \cup Shifts)
  BY DEF OperatorLength
<1>4. n > 2 => CharAt(i + 2) = "="
  BY DEF OperatorLength
<1>5. Doubles \cup Shifts \subseteq WithEqual
  BY DEF WithEqual
<1>6. \A j \in 0..2 : j < n => CharAt(i + j) # Nul /\ CharAt(i + j) # "\n"
  <2>1. n > 0 => CharAt(i) # Nul /\ CharAt(i) # "\n"
    BY <1>1, <1>2
  <2>2. n > 1 => next # Nul /\ next # "\n"
    BY <1>1, <1>3, <1>5 DEF Nul
  <2>3. n > 2 => CharAt(i + 2) # Nul /\ CharAt(i + 2) # "\n"
    BY <1>4 DEF Nul
  <2>4. QED
    <3> HIDE DEF n
    <3> QED  BY <1>2, <2>1, <2>2, <2>3
<1>7. \A j \in 0..2 : CharAt(i + j) # Nul => i + j <= Len(source)
  BY CharactersRead
<1>8. QED
  BY <1>2, <1>6, <1>7

-----------------------------------------------------------------------------
(* Every step leaves the cursor or moves it by advance(), and over         *)
(* several characters at once only where none of them is a line feed.      *)
Moves ==
  \/ Stay
  \/ Advance
  \/ AdvanceTwice
  \/ \E n \in 1..3 :
       /\ AdvanceBy(n)
       /\ \A j \in 0..2 : j < n => CharAt(idx + j) # "\n"

LEMMA StepsMove ==
  ASSUME TypeOK, Next
  PROVE  source' = source /\ Moves
<1>1. source' = source
  BY DEF Next, Blank, BeginComment, InComment, EndLineComment, EndBlockComment,
    Finish, BeginToken, More, EndWord, EndNumber, Escape, Verbatim, NoCharacter,
    EndString, EndChar, Punctuation
<1>2. CASE Punctuation
  <2>1. Char \notin Spaces
    BY <1>2 DEF Punctuation
  <2>2. CharAt(idx + 0) # "\n"
    BY <2>1, CharactersAssumption DEF Char, TypeOK
  <2>3. CASE OperatorLength(idx) = 0
    <3>1. AdvanceBy(1)
      BY <1>2, <2>3 DEF Punctuation
    <3>2. \A j \in 0..2 : j < 1 => CharAt(idx + j) # "\n"
      BY <2>2
    <3>3. QED
      BY <1>1, <3>1, <3>2 DEF Moves
  <2>4. CASE OperatorLength(idx) # 0
    <3>1. AdvanceBy(OperatorLength(idx))
      BY <1>2, <2>4 DEF Punctuation
    <3>2. /\ OperatorLength(idx) \in 1..3
          /\ \A j \in 0..2 : j < OperatorLength(idx) => CharAt(idx + j) # "\n"
      BY <2>4, OperatorFits DEF TypeOK
    <3>3. QED
      BY <1>1, <3>1, <3>2 DEF Moves
  <2>5. QED
    BY <2>3, <2>4
<1>3. CASE Next /\ ~Punctuation
  <2>1. Stay \/ Advance \/ AdvanceTwice
    BY <1>3 DEF Next, Blank, BeginComment, InComment, EndLineComment,
      EndBlockComment, Finish, BeginToken, More, EndWord, EndNumber, Escape,
      Verbatim, NoCharacter, EndString, EndChar, Stay
  <2>2. QED
    BY <1>1, <2>1 DEF Moves
<1>4. QED
  BY <1>1, <1>2, <1>3

(* The cursor and its line never go back.                                  *)
LEMMA MovesForward ==
  ASSUME TypeOK, Moves
  PROVE  /\ idx' \in Nat \ {0} /\ line' \in Nat \ {0} /\ col' \in Nat \ {0}
         /\ idx <= idx' /\ line <= line'
<1>1. idx \in Nat \ {0} /\ line \in Nat \ {0} /\ col \in Nat \ {0}
  BY DEF TypeOK
<1>2. CASE \E n \in 1..3 : AdvanceBy(n)
  BY <1>1, <1>2 DEF AdvanceBy
<1>3. CASE Stay \/ Advance \/ AdvanceTwice
  BY <1>1, <1>3 DEF Stay, Advance, AdvanceTwice, LineAfter, ColAfter
<1>4. QED
  BY <1>2, <1>3 DEF Moves

-----------------------------------------------------------------------------
(* A step leaves the lexer in one of its loops.                            *)
LEMMA ModesTyped ==
  ASSUME TypeOK, Next
  PROVE  mode' \in Modes
BY DEF TypeOK, Modes, Next, Blank, BeginComment, InComment, EndLineComment,
  EndBlockComment, Finish, BeginToken, Begin, More, EndWord, EndNumber, Escape,
  Verbatim, NoCharacter, EndString, EndChar, Punctuation

(* A step adds at most one token, made at the cursor or at start.          *)
Adds(type, from, word) ==
  /\ type \in {"keyword", "identifier", "int", "float", "string", "char", "operator", "eof"}
  /\ word \in {<<>>, text}
  /\ Push(type, from, idx', word)

LEMMA TokensAdded ==
  ASSUME TypeOK, Next
  PROVE  tokens' = tokens \/ \E type, word : \E from \in {Here, start} : Adds(type, from, word)
BY DEF Adds, Next, Blank, BeginComment, InComment, EndLineComment,
  EndBlockComment, Finish, BeginToken, Begin, More, EndWord, EndNumber, Escape,
  Verbatim, NoCharacter, EndString, EndChar, Punctuation, output, Stay, AdvanceBy

(* Every step keeps the types.                                             *)
LEMMA TypesKept ==
  ASSUME TypeOK, Next
  PROVE  TypeOK'
<1>1. /\ source' = source
      /\ idx' \in Nat \ {0} /\ line' \in Nat \ {0} /\ col' \in Nat \ {0}
      /\ idx <= idx' /\ line <= line'
  BY StepsMove, MovesForward
<1>2. start' \in [at : 1..idx', line : 1..line', col : Nat \ {0}]
  <2>1. start' \in {start, Here}
    BY DEF Next, Blank, BeginComment, InComment, EndLineComment, EndBlockComment,
      Finish, BeginToken, Begin, More, EndWord, EndNumber, Escape, Verbatim,
      NoCharacter, EndString, EndChar, Punctuation
  <2>2. QED
    BY <1>1, <2>1 DEF TypeOK, Here
<1>3. text' \in Seq(Characters)
  <2>1. /\ Char \in Characters /\ CharAt(idx + 1) \in Characters
        /\ Decoded(CharAt(idx + 1)) \in Characters
    <3>1. Char \in Characters /\ CharAt(idx + 1) \in Characters
      BY CharactersRead DEF TypeOK, Char
    <3>2. {"\n", "\t", Nul} \subseteq Characters
      BY CharactersAssumption DEF Characters
    <3>3. QED
      BY <3>1, <3>2 DEF Decoded
  <2>2. \/ text' \in {text, <<>>}
        \/ \E c \in {Char, Decoded(CharAt(idx + 1))} : text' = Append(text, c)
    BY DEF Next, Blank, BeginComment, InComment, EndLineComment, EndBlockComment,
      Finish, BeginToken, Begin, More, EndWord, EndNumber, Escape, Verbatim,
      NoCharacter, EndString, EndChar, Punctuation
  <2>3. text \in Seq(Characters)
    BY DEF TypeOK
  <2>4. CASE text' \in {text, <<>>}
    BY <2>3, <2>4, EmptySeq
  <2>5. CASE \E c \in {Char, Decoded(CharAt(idx + 1))} : text' = Append(text, c)
    BY <2>1, <2>3, <2>5, AppendProperties
  <2>6. QED
    BY <2>2, <2>4, <2>5
<1>4. tokens' \in Seq(Token)
  <2>1. CASE tokens' = tokens
    BY <2>1 DEF TypeOK
  <2>2. ASSUME NEW type, NEW word, NEW from \in {Here, start}, Adds(type, from, word)
        PROVE  tokens' \in Seq(Token)
    <3>1. from.at \in Nat /\ from.line \in Nat /\ from.col \in Nat
      BY DEF TypeOK, Here
    <3>2. word \in Seq(Characters)
      BY <2>2, EmptySeq DEF Adds, TypeOK
    <3>3. [type |-> type, from |-> from.at, line |-> from.line, col |-> from.col,
           to |-> idx', text |-> word] \in Token
      BY <1>1, <2>2, <3>1, <3>2 DEF Adds, Token
    <3>4. QED
      BY <2>2, <3>3 DEF Adds, Push, TypeOK
  <2>3. QED
    BY <2>1, <2>2, TokensAdded
<1>5. errors' \subseteq 1..idx'
  <2>1. errors' = errors \/ \E i \in {idx, start.at} : errors' = errors \cup {i}
    BY DEF ReportAt, Next, Blank, BeginComment, InComment, EndLineComment,
      EndBlockComment, Finish, BeginToken, Begin, More, EndWord, EndNumber,
      Escape, Verbatim, NoCharacter, EndString, EndChar, Punctuation, output
  <2>2. idx \in 1..idx' /\ start.at \in 1..idx' /\ errors \subseteq 1..idx'
    BY <1>1 DEF TypeOK
  <2>3. QED
    BY <2>1, <2>2
<1>6. QED
  BY <1>1, <1>2, <1>3, <1>4, <1>5, ModesTyped DEF TypeOK

(* The lexer's variables keep their types on every source text: no scanner *)
(* leaves it in an unknown loop, and every report is about text read.      *)
THEOREM TypeCorrectness == Spec => []TypeOK
<1>1. Init => TypeOK
  BY SourcesAssumption DEF Init, TypeOK, Here, Modes
<1>2. TypeOK /\ [Next]_vars => TypeOK'
  <2>1. TypeOK /\ UNCHANGED vars => TypeOK'
    BY DEF vars, TypeOK
  <2>2. QED
    BY <2>1, TypesKept
<1>3. QED
  BY <1>1, <1>2, PTL DEF Spec

-----------------------------------------------------------------------------
(* No step reads or goes beyond the Nul past the end.                      *)
LEMMA ReadsKept ==
  ASSUME TypeOK, ReadsStayInside, Next
  PROVE  ReadsStayInside'
<1>1. source' = source /\ Len(source') = Len(source)
  BY StepsMove
<1>2. idx \in Nat /\ Len(source) \in Nat
  BY DEF TypeOK
<1>3. CASE AtEnd
  <2>1. idx' = idx /\ mode' \in {"between", "done", "char end"}
    BY <1>3 DEF Next, Blank, BeginComment, InComment, EndLineComment,
      EndBlockComment, Finish, BeginToken, More, EndWord, EndNumber, Escape,
      Verbatim, NoCharacter, EndString, EndChar, Punctuation, Stay
  <2>2. QED
    BY <1>1, <1>2, <2>1 DEF ReadsStayInside
<1>4. CASE ~AtEnd
  <2>1. idx <= Len(source)
    BY <1>2, <1>4 DEF AtEnd
  <2>2. CASE Escape
    <3>1. idx' = idx + 2
      BY <2>2 DEF Escape, AdvanceTwice
    <3>2. mode' \in {"string", "char end"}
      BY <2>2 DEF Escape
    <3>3. idx' <= Len(source') + 2
      BY <1>1, <1>2, <2>1, <3>1
    <3>4. QED
      BY <3>2, <3>3 DEF ReadsStayInside
  <2>3. CASE ~Escape
    <3>1. idx' <= Len(source) + 1
      <4>1. CASE Punctuation
        <5>1. idx' \in {idx + 1, idx + OperatorLength(idx)}
          BY <4>1 DEF Punctuation, AdvanceBy
        <5>2. /\ OperatorLength(idx) \in 0..3
              /\ \A k \in 0..2 : k < OperatorLength(idx) => idx + k <= Len(source)
          BY OperatorFits DEF TypeOK
        <5>3. OperatorLength(idx) = 0 \/ OperatorLength(idx) - 1 \in 0..2
          BY <5>2
        <5>4. idx + OperatorLength(idx) <= Len(source) + 1
          BY <1>2, <2>1, <5>2, <5>3
        <5>5. QED
          BY <1>2, <2>1, <5>1, <5>2, <5>4
      <4>2. CASE BeginComment \/ EndBlockComment
        <5>1. \A c \in {"/", "*"} : CharAt(idx + 1) = c => idx + 1 <= Len(source)
          BY CharactersRead DEF TypeOK, Nul
        <5>2. idx' = idx \/ (idx' = idx + 2 /\ CharAt(idx + 1) \in {"/", "*"})
          BY <1>4, <4>2
          DEF BeginComment, EndBlockComment, AtBlockEnd, AdvanceTwice, Stay
        <5>3. QED
          BY <1>2, <2>1, <5>1, <5>2
      <4>3. CASE ~(Punctuation \/ BeginComment \/ EndBlockComment)
        <5>1. idx' \in {idx, idx + 1}
          BY <2>3, <4>3 DEF Next, Blank, InComment, EndLineComment, Finish,
            BeginToken, More, EndWord, EndNumber, Verbatim, NoCharacter, EndString,
            EndChar, Stay, Advance
        <5>2. QED
          BY <1>2, <2>1, <5>1
      <4>4. QED
        BY <4>1, <4>2, <4>3
    <3>2. idx' <= Len(source') + 2 /\ idx' # Len(source') + 2
      <4>1. idx' \in Nat
        BY StepsMove, MovesForward
      <4>2. QED
        BY <1>1, <1>2, <3>1, <4>1
    <3>3. QED
      BY <3>2 DEF ReadsStayInside
  <2>4. QED
    BY <2>2, <2>3
<1>5. QED
  BY <1>3, <1>4

(* Whatever the source, also one that ends in an open literal, an open     *)
(* comment or a backslash, nothing is read past its terminating Nul.       *)
THEOREM ReadsSafe == Spec => []ReadsStayInside
<1>1. Init => ReadsStayInside
  BY SourcesAssumption DEF Init, ReadsStayInside
<1>2. TypeOK /\ ReadsStayInside /\ [Next]_vars => ReadsStayInside'
  <2>1. ReadsStayInside /\ UNCHANGED vars => ReadsStayInside'
    BY DEF vars, ReadsStayInside
  <2>2. QED
    BY <2>1, ReadsKept
<1>3. QED
  BY <1>1, <1>2, TypeCorrectness, PTL DEF Spec

-----------------------------------------------------------------------------
(* The line feeds before a position, and the line and column they put it   *)
(* at.                                                                     *)
FeedsBefore(i) == {j \in 1..(i - 1) : CharAt(j) = "\n"}

Located(i, l, k) ==
  /\ l = 1 + Cardinality(FeedsBefore(i))
  /\ \A j \in 1..(i - 1) : j + k > i => j \notin FeedsBefore(i)
  /\ k < i => i - k \in FeedsBefore(i)
  /\ k <= i

(* advance() keeps track of both.                                          *)
LEMMA AdvanceLocates ==
  ASSUME NEW i \in Nat \ {0}, NEW l \in Nat \ {0}, NEW k \in Nat \ {0}, Located(i, l, k)
  PROVE  Located(i + 1, LineAfter(l, CharAt(i)), ColAfter(k, CharAt(i)))
<1>1. IsFiniteSet(FeedsBefore(i)) /\ Cardinality(FeedsBefore(i)) \in Nat
  <2>1. FeedsBefore(i) \in SUBSET (1..(i - 1))
    BY DEF FeedsBefore
  <2>2. IsFiniteSet(1..(i - 1))
    BY FS_Interval
  <2>3. QED
    BY <2>1, <2>2, FS_Subset, FS_CardinalityType, Zenon
<1>2. i \notin FeedsBefore(i) /\ FeedsBefore(i) \subseteq 1..i
  BY DEF FeedsBefore
<1>3. CASE CharAt(i) = "\n"
  <2>1. FeedsBefore(i + 1) = FeedsBefore(i) \cup {i}
    BY <1>3 DEF FeedsBefore
  <2>2. Cardinality(FeedsBefore(i + 1)) = Cardinality(FeedsBefore(i)) + 1
    BY <1>1, <1>2, <2>1, FS_AddElement
  <2>3. QED
    BY <1>1, <1>2, <1>3, <2>1, <2>2 DEF Located, LineAfter, ColAfter
<1>4. CASE CharAt(i) # "\n"
  <2>1. FeedsBefore(i + 1) = FeedsBefore(i)
    BY <1>4 DEF FeedsBefore
  <2>2. QED
    BY <1>1, <1>2, <1>4, <2>1 DEF Located, LineAfter, ColAfter
<1>5. QED
  BY <1>3, <1>4

(* Over characters that are no line feeds the column moves with the cursor.*)
LEMMA PlainAdvanceLocates ==
  ASSUME NEW i \in Nat \ {0}, NEW l \in Nat \ {0}, NEW k \in Nat \ {0}, Located(i, l, k),
         CharAt(i) # "\n"
  PROVE  Located(i + 1, l, k + 1)
BY AdvanceLocates DEF LineAfter, ColAfter

(* Every step of the cursor keeps track of both.                           *)
LEMMA LocationKept ==
  ASSUME TypeOK, Located(idx, line, col), Moves
  PROVE  Located(idx', line', col')
<1>1. idx \in Nat \ {0} /\ line \in Nat \ {0} /\ col \in Nat \ {0}
  BY DEF TypeOK
<1>2. CASE Stay
  BY <1>2 DEF Stay
<1>3. CASE Advance
  BY <1>1, <1>3, AdvanceLocates DEF Advance, Char
<1>4. CASE AdvanceTwice
  <2> DEFINE l == LineAfter(line, CharAt(idx))
             k == ColAfter(col, CharAt(idx))
  <2>1. Located(idx + 1, l, k)
    BY <1>1, AdvanceLocates
  <2>2. l \in Nat \ {0} /\ k \in Nat \ {0}
    BY <1>1 DEF LineAfter, ColAfter
  <2>3. Located((idx + 1) + 1, LineAfter(l, CharAt(idx + 1)), ColAfter(k, CharAt(idx + 1)))
    <3> HIDE DEF l, k
    <3> QED  BY <1>1, <2>1, <2>2, AdvanceLocates
  <2>4. (idx + 1) + 1 = idx + 2
    BY <1>1
  <2>5. QED
    BY <1>4, <2>3, <2>4 DEF AdvanceTwice, Char
<1>5. ASSUME NEW n \in 1..3, AdvanceBy(n),
             \A j \in 0..2 : j < n => CharAt(idx + j) # "\n"
      PROVE  Located(idx', line', col')
  <2>1. CharAt(idx) # "\n" /\ (n > 1 => CharAt(idx + 1) # "\n")
        /\ (n > 2 => CharAt(idx + 2) # "\n")
    BY <1>1, <1>5, idx + 0 = idx
  <2>2. Located(idx + 1, line, col + 1)
    BY <1>1, <2>1, PlainAdvanceLocates
  <2>3. n > 1 => Located(idx + 2, line, col + 2)
    <3>1. n > 1 => Located((idx + 1) + 1, line, (col + 1) + 1)
      BY <1>1, <2>1, <2>2, PlainAdvanceLocates
    <3>2. (idx + 1) + 1 = idx + 2 /\ (col + 1) + 1 = col + 2
      BY <1>1
    <3>3. QED
      BY <3>1, <3>2
  <2>4. n > 2 => Located(idx + 3, line, col + 3)
    <3>1. n > 2 => Located((idx + 2) + 1, line, (col + 2) + 1)
      BY <1>1, <2>1, <2>3, PlainAdvanceLocates
    <3>2. (idx + 2) + 1 = idx + 3 /\ (col + 2) + 1 = col + 3
      BY <1>1
    <3>3. QED
      BY <3>1, <3>2
  <2>5. QED
    BY <1>5, <2>2, <2>3, <2>4, n \in {1, 2, 3} DEF AdvanceBy
<1>6. QED
  BY <1>2, <1>3, <1>4, <1>5 DEF Moves

(* Every diagnostic names the right line and column: they are those of the *)
(* cursor on every source text, however it mixes blanks, comments and      *)
(* literals with line feeds.                                               *)
THEOREM LocationsRight == Spec => []LocationIsRight
<1>1. TypeOK => (LocationIsRight <=> Located(idx, line, col))
  BY DEF TypeOK, LocationIsRight, Located, LineFeeds, FeedsBefore
<1>2. Init => LocationIsRight
  <2>1. SUFFICES ASSUME Init PROVE LocationIsRight
    OBVIOUS
  <2>2. idx = 1 /\ line = 1 /\ col = 1
    BY <2>1 DEF Init
  <2>3. LineFeeds = {}
    BY <2>2 DEF LineFeeds
  <2>4. QED
    BY <2>2, <2>3, FS_EmptySet DEF LocationIsRight
<1>3. TypeOK /\ TypeOK' /\ LocationIsRight /\ [Next]_vars => LocationIsRight'
  <2>1. SUFFICES ASSUME TypeOK, TypeOK', LocationIsRight, [Next]_vars
                 PROVE  LocationIsRight'
    OBVIOUS
  <2>2. CASE UNCHANGED vars
    BY <2>1, <2>2 DEF vars, LocationIsRight, LineFeeds, CharAt
  <2>3. CASE Next
    <3>1. source' = source /\ Located(idx', line', col')
      BY <1>1, <2>1, <2>3, StepsMove, LocationKept
    <3>2. LineFeeds' = FeedsBefore(idx')
      BY <3>1 DEF LineFeeds, FeedsBefore, CharAt
    <3>3. QED
      BY <2>1, <3>1, <3>2 DEF TypeOK, LocationIsRight, Located, FeedsBefore
  <2>4. QED
    BY <2>1, <2>2, <2>3
<1>4. QED
  BY <1>2, <1>3, TypeCorrectness, PTL DEF Spec

-----------------------------------------------------------------------------
(* The scanners that have a token begun.                                   *)
Scanning == {"word", "integer", "fraction", "string", "char", "char end"}

(* A step begins or goes on with a token, or ends one, at start or at the  *)
(* cursor; the end-of-file token is the last step's.                       *)
KeepsTokens ==
  /\ tokens' = tokens
  /\ mode' # "done"
  /\ mode' \in Scanning => start' = Here \/ (mode \in Scanning /\ start' = start)

EndsToken(type, from, word) ==
  /\ Adds(type, from, word)
  /\ from = Here \/ (mode \in Scanning /\ from = start)
  /\ type = "eof" <=> mode' = "done"
  /\ mode' \notin Scanning

LEMMA TokensMade ==
  ASSUME TypeOK, Next
  PROVE  /\ mode # "done"
         /\ KeepsTokens \/ \E type, from, word : EndsToken(type, from, word)
<1>1. mode # "done"
  BY DEF Next, Blank, BeginComment, InComment, EndLineComment, EndBlockComment,
    Finish, BeginToken, Begin, More, EndWord, EndNumber, Escape, Verbatim,
    NoCharacter, EndString, EndChar, Punctuation
<1>2. CASE Finish \/ EndWord \/ EndNumber \/ EndString \/ EndChar \/ Punctuation
  BY <1>2 DEF KeepsTokens, EndsToken, Adds, Scanning, Finish, EndWord, EndNumber,
    EndString, EndChar, Punctuation, AdvanceBy
<1>3. CASE ~(Finish \/ EndWord \/ EndNumber \/ EndString \/ EndChar \/ Punctuation)
  BY <1>3 DEF KeepsTokens, Scanning, Next, Blank, BeginComment, InComment,
    EndLineComment, EndBlockComment, BeginToken, Begin, More, Escape, Verbatim,
    NoCharacter, output
<1>4. QED
  BY <1>1, <1>2, <1>3

(* The order of the tokens is kept because the token a scanner has begun   *)
(* starts where the last one ended, or later.                              *)
BegunInOrder ==
  mode \in Scanning => tokens = <<>> \/ tokens[Len(tokens)].to <= start.at

LEMMA OrderKept ==
  ASSUME TypeOK, TypeOK', TokensInOrder, BegunInOrder, Next
  PROVE  TokensInOrder' /\ BegunInOrder'
<1>1. /\ idx \in Nat /\ idx' \in Nat /\ idx <= idx'
      /\ start.at \in Nat /\ start.at <= idx
  BY StepsMove, MovesForward DEF TypeOK
<1>2. tokens \in Seq(Token) /\ Len(tokens) \in Nat /\ DOMAIN tokens = 1..Len(tokens)
  BY DEF TypeOK
<1>3. \A i \in 1..Len(tokens) : tokens[i].from \in Nat /\ tokens[i].to \in Nat
  <2>1. \A i \in 1..Len(tokens) : tokens[i] \in Token
    BY <1>2
  <2>2. \A token \in Token : token.from \in Nat /\ token.to \in Nat
    BY DEF Token
  <2>3. QED
    BY <2>1, <2>2
<1>4. mode # "done" /\ \A i \in 1..Len(tokens) : tokens[i].type # "eof"
  BY <1>2, TokensMade DEF TokensInOrder
<1>5. tokens = <<>> \/ (Len(tokens) \in 1..Len(tokens) /\ tokens[Len(tokens)].to <= idx)
  BY <1>2, EmptySeq DEF TokensInOrder
<1>6. CASE KeepsTokens
  <2>1. tokens' = tokens /\ mode' # "done"
    BY <1>6 DEF KeepsTokens
  <2>2. TokensInOrder'
    <3>1. \A i \in DOMAIN tokens' :
            /\ tokens'[i].from <= tokens'[i].to /\ tokens'[i].to <= idx'
            /\ i > 1 => tokens'[i - 1].to <= tokens'[i].from
      BY <1>1, <1>2, <1>3, <2>1 DEF TokensInOrder
    <3>2. \A i \in DOMAIN tokens' : tokens'[i].type # "eof"
      BY <1>2, <1>4, <2>1
    <3>3. QED
      BY <2>1, <3>1, <3>2 DEF TokensInOrder
  <2>3. BegunInOrder'
    <3>1. Here.at = idx
      BY DEF Here
    <3>2. QED
      BY <1>1, <1>5, <1>6, <2>1, <3>1 DEF KeepsTokens, BegunInOrder
  <2>4. QED
    BY <2>2, <2>3
<1>7. ASSUME NEW type, NEW from, NEW word, EndsToken(type, from, word)
      PROVE  TokensInOrder' /\ BegunInOrder'
  <2> DEFINE token == [type |-> type, from |-> from.at, line |-> from.line,
                       col |-> from.col, to |-> idx', text |-> word]
             n == Len(tokens)
  <2>1. tokens' = Append(tokens, token) /\ mode' \notin Scanning
        /\ (type = "eof" <=> mode' = "done")
    BY <1>7 DEF EndsToken, Adds, Push
  <2>2. /\ from.at \in Nat /\ from.at <= idx
        /\ tokens = <<>> \/ tokens[Len(tokens)].to <= from.at
    <3>1. CASE from = Here
      BY <1>1, <1>5, <3>1 DEF Here
    <3>2. CASE mode \in Scanning /\ from = start
      BY <1>1, <3>2 DEF BegunInOrder
    <3>3. QED
      BY <1>7, <3>1, <3>2 DEF EndsToken
  <2>3. /\ Len(tokens') = n + 1 /\ DOMAIN tokens' = 1..(n + 1)
        /\ tokens'[n + 1] = token
        /\ \A i \in 1..n : tokens'[i] = tokens[i]
    BY <1>2, <2>1
  <2>4. token.from = from.at /\ token.to = idx' /\ token.type = type
    OBVIOUS
  <2>5. n > 0 => tokens # <<>>
    BY <1>2
  <2> HIDE DEF token, n
  <2>6. n \in Nat /\ n = Len(tokens)
    BY <1>2 DEF n
  <2>7. ASSUME NEW i \in 1..(n + 1)
        PROVE  /\ tokens'[i].from <= tokens'[i].to /\ tokens'[i].to <= idx'
               /\ i > 1 => tokens'[i - 1].to <= tokens'[i].from
    <3>1. CASE i = n + 1
      BY <1>1, <1>2, <2>2, <2>3, <2>4, <2>5, <2>6, <3>1
    <3>2. CASE i # n + 1
      <4>1. i \in 1..n /\ i \in DOMAIN tokens
        BY <1>2, <2>6, <3>2
      <4>2. i > 1 => i - 1 \in 1..n
        BY <2>6, <4>1
      <4>3. tokens[i].to <= idx /\ tokens[i].to \in Nat
        BY <1>3, <2>6, <4>1 DEF TokensInOrder
      <4>4. tokens[i].to <= idx'
        BY <1>1, <4>3
      <4>5. QED
        BY <2>3, <4>1, <4>2, <4>4 DEF TokensInOrder
    <3>3. QED
      BY <3>1, <3>2
  <2>8. \A i \in 1..(n + 1) : tokens'[i].type = "eof" => i = n + 1 /\ mode' = "done"
    <3>1. \A i \in 1..n : tokens'[i].type # "eof"
      BY <1>4, <2>3, <2>6
    <3>2. tokens'[n + 1].type = "eof" => mode' = "done"
      BY <2>1, <2>3, <2>4
    <3>3. \A i \in 1..(n + 1) : i \in 1..n \/ i = n + 1
      BY <2>6
    <3>4. QED
      BY <3>1, <3>2, <3>3
  <2>9. mode' = "done" => tokens' # <<>> /\ tokens'[Len(tokens')].type = "eof"
    <3>1. tokens' # <<>>
      BY <2>3, <2>6
    <3>2. QED
      BY <2>1, <2>3, <2>4, <3>1
  <2>10. TokensInOrder'
    BY <2>3, <2>7, <2>8, <2>9 DEF TokensInOrder
  <2>11. BegunInOrder'
    BY <2>1 DEF BegunInOrder
  <2>12. QED
    BY <2>10, <2>11
<1>8. QED
  BY <1>6, <1>7, TokensMade

(* The parser gets the tokens in the order of the text, none overlapping   *)
(* another, and exactly one end of file, the last: peek() and advance()    *)
(* rely on it.                                                             *)
THEOREM TokensOrdered == Spec => []TokensInOrder
<1>1. Init => TokensInOrder /\ BegunInOrder
  <2>1. Init => tokens = <<>> /\ mode = "between" /\ DOMAIN tokens = {}
    BY EmptySeq DEF Init
  <2>2. QED
    BY <2>1 DEF TokensInOrder, BegunInOrder
<1>2. /\ TypeOK /\ TypeOK' /\ TokensInOrder /\ BegunInOrder /\ [Next]_vars
      => TokensInOrder' /\ BegunInOrder'
  <2>1. TokensInOrder /\ BegunInOrder /\ UNCHANGED vars => TokensInOrder' /\ BegunInOrder'
    BY DEF vars, output, TokensInOrder, BegunInOrder
  <2>2. QED
    BY <2>1, OrderKept
<1>3. QED
  BY <1>1, <1>2, TypeCorrectness, PTL DEF Spec

-----------------------------------------------------------------------------
(* Escapes.  Whether a character is escaped depends on what is before it.  *)
LEMMA EscapedPrefix ==
  ASSUME NEW w, NEW v, NEW i \in Nat, \A j \in 1..(i - 1) : w[j] = v[j]
  PROVE  Escaped(w, i) <=> Escaped(v, i)
<1>1. ASSUME NEW n \in 0..(i - 2)
      PROVE  /\ \A j \in (i - n)..(i - 1) : w[j] = v[j]
             /\ i - n # 1 => w[i - n - 1] = v[i - n - 1]
  <2>1. \A j \in (i - n)..(i - 1) : j \in 1..(i - 1)
    OBVIOUS
  <2>2. i - n # 1 => i - n - 1 \in 1..(i - 1)
    OBVIOUS
  <2> QED
    BY <2>1, <2>2
<1> QED
  BY <1>1 DEF Escaped

(* The first character after the opening quote is not escaped.             *)
LEMMA FirstUnescaped ==
  ASSUME NEW w
  PROVE  ~Escaped(w, 2)
<1>1. \A n \in 0..(2 - 2) : n % 2 # 1
  OBVIOUS
<1> QED
  BY <1>1 DEF Escaped

(* A character is escaped if it follows a backslash that is not.           *)
LEMMA EscapedNext ==
  ASSUME NEW w, NEW i \in Nat, i >= 2, w[1] # "\\"
  PROVE  Escaped(w, i + 1) <=> w[i] = "\\" /\ ~Escaped(w, i)
<1>1. ASSUME Escaped(w, i + 1)
      PROVE  w[i] = "\\" /\ ~Escaped(w, i)
  <2>1. PICK n \in 0..(i + 1 - 2) :
               /\ n % 2 = 1
               /\ \A j \in (i + 1 - n)..(i + 1 - 1) : w[j] = "\\"
               /\ i + 1 - n = 1 \/ w[i + 1 - n - 1] # "\\"
    BY <1>1 DEF Escaped
  <2>2. n >= 1 /\ n \in Int
    BY <2>1
  <2>3. w[i] = "\\"
    BY <2>1, <2>2, i \in (i + 1 - n)..(i + 1 - 1)
  <2>4. ASSUME NEW m \in 0..(i - 2), m % 2 = 1,
               \A j \in (i - m)..(i - 1) : w[j] = "\\",
               i - m = 1 \/ w[i - m - 1] # "\\"
        PROVE  FALSE
    <3>1. w[i - n] # "\\" /\ w[i - m - 1] # "\\"
      BY <2>1, <2>2, <2>4, i + 1 - n - 1 = i - n
    <3>2. ~(i - n \in (i - m)..(i - 1))
      BY <2>4, <3>1
    <3>3. ~(i - m - 1 \in (i + 1 - n)..(i + 1 - 1))
      BY <2>1, <3>1
    <3>4. n = m + 1
      BY <2>2, <3>2, <3>3
    <3> QED
      BY <2>1, <2>4, <3>4
  <2> QED
    BY <2>3, <2>4 DEF Escaped
<1>2. ASSUME w[i] = "\\", ~Escaped(w, i)
      PROVE  Escaped(w, i + 1)
  <2> DEFINE T == {m \in 0..(i - 2) : w[i - m - 1] # "\\"}
  <2>1. i - 2 \in T
    BY i - (i - 2) - 1 = 1
  <2>2. T \in SUBSET Nat /\ T # {}
    BY <2>1
  <2>3. PICK m \in T : \A y \in T : m <= y
    <3> HIDE DEF T
    <3> QED
      BY <2>2, LeastNatural
  <2>4. m \in 0..(i - 2) /\ w[i - m - 1] # "\\"
    OBVIOUS
  <2>5. \A j \in (i - m)..(i - 1) : w[j] = "\\"
    <3> SUFFICES ASSUME NEW j \in (i - m)..(i - 1), w[j] # "\\"
                 PROVE  FALSE
      OBVIOUS
    <3>1. i - 1 - j \in 0..(i - 2) /\ i - (i - 1 - j) - 1 = j /\ i - 1 - j < m
      BY <2>4
    <3>2. i - 1 - j \in T
      BY <3>1
    <3> HIDE DEF T
    <3> QED
      BY <2>3, <2>4, <3>1, <3>2
  <2>6. m % 2 # 1
    BY <1>2, <2>4, <2>5 DEF Escaped
  <2>7. m + 1 \in 0..(i + 1 - 2) /\ (m + 1) % 2 = 1 /\ i + 1 - (m + 1) - 1 = i - m - 1
    BY <2>4, <2>6
  <2>8. \A j \in (i + 1 - (m + 1))..(i + 1 - 1) : w[j] = "\\"
    BY <1>2, <2>4, <2>5
  <2> QED
    BY <2>4, <2>7, <2>8 DEF Escaped
<1> QED
  BY <1>1, <1>2

(* The double quote is none of the characters it could be taken for.       *)
LEMMA QuoteIsNone ==
  /\ Quote # "\\" /\ Quote # "'" /\ Quote # "/" /\ Quote \in Characters
  /\ Quote \notin Alone \cup WithEqual
BY Zenon DEF Quote, Characters, Marks, Alone, WithEqual, Doubles, Shifts

-----------------------------------------------------------------------------
(* What lexString() knows of a literal before its closing quote.           *)
QuotesEscaped(w) == \A i \in 2..Len(w) : w[i] = Quote => Escaped(w, i)

StringSoFar(w, t) ==
  /\ w # <<>> /\ w[1] = Quote
  /\ QuotesEscaped(w)
  /\ ~Escaped(w, Len(w) + 1)
  /\ StandsFor(w, t)

(* Reading on changes nothing about what was escaped before.               *)
LEMMA AppendKeepsEscapes ==
  ASSUME NEW w \in Seq(Characters), NEW c \in Characters, NEW i \in 1..(Len(w) + 1)
  PROVE  Escaped(Append(w, c), i) <=> Escaped(w, i)
<1>1. \A j \in 1..(i - 1) : Append(w, c)[j] = w[j]
  OBVIOUS
<1>2. i \in Nat
  OBVIOUS
<1> QED
  BY <1>1, <1>2, EscapedPrefix, Zenon

(* What the text of a literal and one more character is.                   *)
LEMMA Appended ==
  ASSUME NEW w \in Seq(Characters), NEW c \in Characters
  PROVE  /\ Append(w, c) \in Seq(Characters) /\ Append(w, c) # <<>>
         /\ Len(Append(w, c)) = Len(w) + 1 /\ Len(w) \in Nat
         /\ Append(w, c)[Len(w) + 1] = c
         /\ \A i \in 1..Len(w) : Append(w, c)[i] = w[i]
         /\ w # <<>> => Len(w) \in Nat \ {0}
<1>1. /\ Append(w, c) \in Seq(Characters)
      /\ Len(Append(w, c)) = Len(w) + 1 /\ Len(w) \in Nat
      /\ Append(w, c)[Len(w) + 1] = c
      /\ \A i \in 1..Len(w) : Append(w, c)[i] = w[i]
  OBVIOUS
<1>2. Append(w, c) # <<>>
  <2>1. Len(<<>>) = 0
    OBVIOUS
  <2> QED
    BY <1>1, <2>1
<1>3. w # <<>> => Len(w) \in Nat \ {0}
  OBVIOUS
<1> QED
  BY <1>1, <1>2, <1>3

(* Which characters of a literal stand for something, as it grows.         *)
LEMMA AppendKeepsKept ==
  ASSUME NEW w \in Seq(Characters), w # <<>>, NEW c \in Characters
  PROVE  /\ \A i \in 2..Len(w) : i \in Kept(Append(w, c)) <=> i \in Kept(w)
         /\ Len(w) + 1 \in Kept(Append(w, c)) <=>
              c # "\\" \/ Escaped(w, Len(w) + 1)
         /\ Kept(w) \subseteq 2..Len(w)
         /\ Kept(Append(w, c)) \subseteq 2..(Len(w) + 1)
<1> DEFINE v == Append(w, c)
<1>1. Len(v) = Len(w) + 1 /\ v[Len(w) + 1] = c /\ Len(w) \in Nat \ {0}
  OBVIOUS
<1>2. \A i \in 2..Len(w) : v[i] = w[i]
  OBVIOUS
<1>3. \A i \in 2..(Len(w) + 1) : Escaped(v, i) <=> Escaped(w, i)
  BY AppendKeepsEscapes
<1> HIDE DEF v
<1>4. \A i \in 2..Len(w) : i \in Kept(v) <=> i \in Kept(w)
  BY <1>1, <1>2, <1>3 DEF Kept
<1>5. Len(w) + 1 \in Kept(v) <=> c # "\\" \/ Escaped(w, Len(w) + 1)
  BY <1>1, <1>3 DEF Kept
<1>6. Kept(w) \subseteq 2..Len(w) /\ Kept(v) \subseteq 2..(Len(w) + 1)
  BY <1>1 DEF Kept
<1> QED
  BY <1>4, <1>5, <1>6 DEF v

(* A backslash that escapes adds nothing.                                  *)
LEMMA BackslashStands ==
  ASSUME NEW w \in Seq(Characters), w # <<>>, NEW t \in Seq(Characters),
         StandsFor(w, t), ~Escaped(w, Len(w) + 1), "\\" \in Characters
  PROVE  StandsFor(Append(w, "\\"), t)
<1> DEFINE v == Append(w, "\\")
<1>1. Kept(v) = Kept(w)
  <2>1. /\ \A i \in 2..Len(w) : i \in Kept(v) <=> i \in Kept(w)
        /\ Len(w) + 1 \notin Kept(v)
        /\ Kept(w) \subseteq 2..Len(w) /\ Kept(v) \subseteq 2..(Len(w) + 1)
    BY AppendKeepsKept
  <2>2. \A i \in 2..(Len(w) + 1) : i \in 2..Len(w) \/ i = Len(w) + 1
    OBVIOUS
  <2> HIDE DEF v
  <2> QED
    BY <2>1, <2>2
<1>2. \A i \in Kept(w) : v[i] = w[i] /\ (Escaped(v, i) <=> Escaped(w, i))
  <2>1. Kept(w) \subseteq 2..Len(w)
    BY AppendKeepsKept
  <2>2. \A i \in 2..Len(w) : v[i] = w[i]
    OBVIOUS
  <2>3. \A i \in 2..Len(w) : Escaped(v, i) <=> Escaped(w, i)
    BY AppendKeepsEscapes
  <2> HIDE DEF v
  <2> QED
    BY <2>1, <2>2, <2>3
<1> HIDE DEF v
<1>3. StandsFor(v, t)
  BY <1>1, <1>2, Zenon DEF StandsFor
<1> QED
  BY <1>3 DEF v

(* Any other character adds what it stands for.                            *)
LEMMA CharacterStands ==
  ASSUME NEW w \in Seq(Characters), w # <<>>, NEW t \in Seq(Characters),
         StandsFor(w, t), NEW c \in Characters, NEW d \in Characters,
         c # "\\" \/ Escaped(w, Len(w) + 1),
         d = IF Escaped(w, Len(w) + 1) THEN Unescaped(c) ELSE c
  PROVE  StandsFor(Append(w, c), Append(t, d))
<1> DEFINE v == Append(w, c)
           u == Append(t, d)
           n == Len(w) + 1
           rank(i) == {j \in Kept(w) : j <= i}
<1>1. Kept(v) = Kept(w) \cup {n} /\ n \notin Kept(w)
  BY AppendKeepsKept
<1>2. Kept(w) \subseteq 2..Len(w) /\ IsFiniteSet(Kept(w))
  <2>1. Kept(w) \subseteq 2..Len(w)
    BY AppendKeepsKept
  <2>2. IsFiniteSet(2..Len(w))
    BY FS_Interval
  <2> QED
    BY <2>1, <2>2, FS_Subset
<1>3. Cardinality(Kept(v)) = Cardinality(Kept(w)) + 1
  BY <1>1, <1>2, FS_AddElement
<1>4. Len(t) = Cardinality(Kept(w)) /\ Len(u) = Len(t) + 1
  BY DEF StandsFor
<1>5. ASSUME NEW i \in Kept(w)
      PROVE  u[Cardinality({j \in Kept(v) : j <= i})] =
               IF Escaped(v, i) THEN Unescaped(v[i]) ELSE v[i]
  <2>1. i \in 2..Len(w) /\ i < n
    BY <1>2
  <2>2. {j \in Kept(v) : j <= i} = rank(i)
    BY <1>1, <2>1
  <2>3. Cardinality(rank(i)) \in 1..Len(t)
    <3>1. i \in rank(i)
      BY <2>1
    <3>2. rank(i) \subseteq Kept(w) /\ IsFiniteSet(rank(i))
      BY <1>2, FS_Subset
    <3>3. Cardinality(rank(i)) <= Cardinality(Kept(w)) /\ Cardinality(rank(i)) \in Nat
      BY <1>2, <3>2, FS_Subset, FS_CardinalityType
    <3>4. Cardinality(rank(i)) # 0
      BY <3>1, <3>2, FS_EmptySet
    <3> HIDE DEF rank
    <3> QED
      BY <1>4, <3>3, <3>4
  <2>4. u[Cardinality(rank(i))] = t[Cardinality(rank(i))]
    <3> HIDE DEF rank
    <3> QED  BY <2>3
  <2>5. t[Cardinality(rank(i))] = IF Escaped(w, i) THEN Unescaped(w[i]) ELSE w[i]
    BY DEF StandsFor
  <2>6. v[i] = w[i] /\ (Escaped(v, i) <=> Escaped(w, i))
    BY <2>1, AppendKeepsEscapes
  <2> HIDE DEF u, v, rank
  <2> QED
    BY <2>2, <2>4, <2>5, <2>6
<1>6. u[Cardinality({j \in Kept(v) : j <= n})] =
        IF Escaped(v, n) THEN Unescaped(v[n]) ELSE v[n]
  <2>1. {j \in Kept(v) : j <= n} = Kept(v)
    BY <1>1, <1>2
  <2>2. u[Len(t) + 1] = d /\ v[n] = c
    OBVIOUS
  <2>3. Escaped(v, n) <=> Escaped(w, n)
    BY AppendKeepsEscapes
  <2> HIDE DEF u, v, n
  <2> QED
    BY <1>3, <1>4, <2>1, <2>2, <2>3 DEF n
<1> HIDE DEF u, v, n
<1>7. StandsFor(v, u)
  BY <1>1, <1>3, <1>4, <1>5, <1>6 DEF StandsFor
<1> QED
  BY <1>7 DEF u, v

(* One more round of lexString(): a character, or a backslash and what it  *)
(* escapes.                                                                *)
LEMMA StringGoesOn ==
  ASSUME NEW w \in Seq(Characters), NEW t \in Seq(Characters), StringSoFar(w, t),
         NEW c \in Characters, c # Quote, c # "\\"
  PROVE  StringSoFar(Append(w, c), Append(t, c))
<1>0. PICK v : v = Append(w, c)
  OBVIOUS
<1>1. /\ Len(v) = Len(w) + 1 /\ v[Len(w) + 1] = c /\ v # <<>> /\ Len(w) \in Nat \ {0}
      /\ \A i \in 1..Len(w) : v[i] = w[i]
  BY <1>0, Appended, Zenon DEF StringSoFar
<1>2. \A i \in 1..(Len(w) + 1) : Escaped(v, i) <=> Escaped(w, i)
  BY <1>0, AppendKeepsEscapes
<1>3. StandsFor(v, Append(t, c))
  <2>1. c = IF Escaped(w, Len(w) + 1) THEN Unescaped(c) ELSE c
    BY DEF StringSoFar
  <2> QED
    BY <1>0, <2>1, CharacterStands DEF StringSoFar
<1>4. v[1] = Quote /\ v[1] # "\\"
  BY <1>1, QuoteIsNone DEF StringSoFar
<1>5. QuotesEscaped(v)
  BY <1>1, <1>2 DEF StringSoFar, QuotesEscaped
<1>6. ~Escaped(v, Len(v) + 1)
  <2>1. Len(v) \in Nat /\ Len(v) >= 2 /\ v[Len(v)] # "\\"
    BY <1>1
  <2> QED
    BY <1>4, <2>1, EscapedNext
<1>7. StringSoFar(v, Append(t, c))
  BY <1>1, <1>3, <1>4, <1>5, <1>6 DEF StringSoFar
<1> QED
  BY <1>7, <1>0

(* After an unescaped backslash, the next character is escaped.            *)
LEMMA BackslashRead ==
  ASSUME NEW w \in Seq(Characters), NEW t \in Seq(Characters), StringSoFar(w, t)
  PROVE  LET v == Append(w, "\\")
         IN  /\ v \in Seq(Characters) /\ v # <<>> /\ v[1] = Quote
             /\ QuotesEscaped(v) /\ StandsFor(v, t)
             /\ Escaped(v, Len(v) + 1)
<1>0. PICK v : v = Append(w, "\\")
  OBVIOUS
<1>2. "\\" \in Characters
  BY DEF Characters, Marks
<1>1. /\ Len(v) = Len(w) + 1 /\ v[Len(w) + 1] = "\\" /\ v # <<>> /\ Len(w) \in Nat \ {0}
      /\ \A i \in 1..Len(w) : v[i] = w[i]
  BY <1>0, <1>2, Appended, Zenon DEF StringSoFar
<1>3. \A i \in 1..(Len(w) + 1) : Escaped(v, i) <=> Escaped(w, i)
  BY <1>0, <1>2, AppendKeepsEscapes
<1>4. StandsFor(v, t)
  BY <1>0, <1>2, BackslashStands DEF StringSoFar
<1>5. v \in Seq(Characters)
  BY <1>0, <1>2
<1>6. v[1] = Quote /\ v[1] # "\\"
  BY <1>1, QuoteIsNone DEF StringSoFar
<1>7. QuotesEscaped(v)
  BY <1>1, <1>3, QuoteIsNone DEF StringSoFar, QuotesEscaped
<1>8. Escaped(v, Len(v) + 1)
  <2>1. Len(v) \in Nat /\ Len(v) >= 2 /\ v[Len(v)] = "\\" /\ ~Escaped(v, Len(v))
    BY <1>1, <1>3 DEF StringSoFar
  <2> QED
    BY <1>6, <2>1, EscapedNext
<1> QED
  BY <1>1, <1>4, <1>5, <1>6, <1>7, <1>8, <1>0

(* A backslash and a character: the decoded character is added.            *)
LEMMA EscapeRead ==
  ASSUME NEW w \in Seq(Characters), NEW t \in Seq(Characters), StringSoFar(w, t),
         NEW c \in Characters, NEW d \in Characters, d = Unescaped(c)
  PROVE  StringSoFar(Append(Append(w, "\\"), c), Append(t, d))
<1>0. PICK v : v = Append(w, "\\")
  OBVIOUS
<1>9. PICK u : u = Append(v, c)
  OBVIOUS
<1>1. /\ v \in Seq(Characters) /\ v # <<>> /\ v[1] = Quote
      /\ QuotesEscaped(v) /\ StandsFor(v, t) /\ Escaped(v, Len(v) + 1)
  BY <1>0, BackslashRead
<1>2. /\ Len(u) = Len(v) + 1 /\ u[Len(v) + 1] = c /\ u # <<>> /\ Len(v) \in Nat \ {0}
      /\ \A i \in 1..Len(v) : u[i] = v[i]
  BY <1>1, <1>9, Appended, Zenon
<1>3. \A i \in 1..(Len(v) + 1) : Escaped(u, i) <=> Escaped(v, i)
  BY <1>1, <1>9, AppendKeepsEscapes
<1>4. StandsFor(u, Append(t, d))
  BY <1>1, <1>9, CharacterStands
<1>5. u[1] = Quote /\ u[1] # "\\"
  BY <1>1, <1>2, QuoteIsNone
<1>6. QuotesEscaped(u)
  BY <1>1, <1>2, <1>3 DEF QuotesEscaped
<1>7. ~Escaped(u, Len(u) + 1)
  <2>1. Len(u) \in Nat /\ Len(u) >= 2 /\ Escaped(u, Len(u))
    BY <1>1, <1>2, <1>3
  <2> QED
    BY <1>5, <2>1, EscapedNext
<1>8. StringSoFar(u, Append(t, d))
  BY <1>2, <1>4, <1>5, <1>6, <1>7 DEF StringSoFar
<1> QED
  BY <1>8, <1>0, <1>9

(* The opening quote alone.                                                *)
LEMMA QuoteRead ==
  StringSoFar(<<Quote>>, <<>>)
<1>0. PICK w : w = <<Quote>>
  OBVIOUS
<1>1. Len(w) = 1 /\ w # <<>> /\ w[1] = Quote /\ 1 + 1 = 2
  BY <1>0
<1>2. 2..1 = {}
  OBVIOUS
<1>3. Kept(w) = {} /\ QuotesEscaped(w)
  BY <1>1, <1>2 DEF Kept, QuotesEscaped
<1>4. StandsFor(w, <<>>)
  <2>1. Len(<<>>) = 0
    OBVIOUS
  <2> QED
    BY <1>3, <2>1, FS_EmptySet DEF StandsFor
<1>5. ~Escaped(w, Len(w) + 1)
  BY <1>1, FirstUnescaped
<1> QED
  BY <1>1, <1>3, <1>4, <1>5, <1>0 DEF StringSoFar

-----------------------------------------------------------------------------
(* A piece of the source.                                                  *)
LEMMA Pieces ==
  ASSUME source \in Seq(Characters), NEW a \in Nat \ {0}, NEW b \in Nat,
         a <= b, b <= EndOfSource
  PROVE  /\ Piece(a, b) \in Seq(Characters)
         /\ Len(Piece(a, b)) = b - a
         /\ \A i \in 1..(b - a) : Piece(a, b)[i] = source[a + i - 1]
<1>1. Len(source) \in Nat /\ b - 1 <= Len(source) /\ b - 1 \in Int
  BY DEF EndOfSource
<1>2. CASE a = b
  <2>1. Piece(a, b) = <<>>
    BY <1>1, <1>2 DEF Piece
  <2> QED
    BY <1>2, <2>1
<1>3. CASE a < b
  <2>1. a \in 1..Len(source) /\ b - 1 \in 1..Len(source)
    BY <1>1, <1>3
  <2>2. SubSeq(source, a, b - 1) \in Seq(Characters)
    BY <1>1, <2>1
  <2>3. Len(SubSeq(source, a, b - 1)) = b - a
    BY <1>1, <1>3, <2>1
  <2>4. \A i \in 1..(b - a) : SubSeq(source, a, b - 1)[i] = source[a + i - 1]
    BY <1>1, <1>3, <2>1
  <2> QED
    BY <2>2, <2>3, <2>4 DEF Piece
<1> QED
  BY <1>2, <1>3

(* One character read makes the piece one longer.                          *)
LEMMA PieceGrows ==
  ASSUME source \in Seq(Characters), NEW a \in Nat \ {0}, NEW b \in Nat,
         a <= b, b <= Len(source)
  PROVE  Piece(a, b + 1) = Append(Piece(a, b), source[b])
<1> DEFINE p == Piece(a, b)
           q == Piece(a, b + 1)
<1>0. Len(source) \in Nat /\ source[b] \in Characters
  OBVIOUS
<1>9. \A e \in Nat :
        a <= e /\ e <= EndOfSource =>
          /\ Piece(a, e) \in Seq(Characters)
          /\ Len(Piece(a, e)) = e - a
          /\ \A i \in 1..(e - a) : Piece(a, e)[i] = source[a + i - 1]
  BY Pieces
<1>1. p \in Seq(Characters) /\ Len(p) = b - a /\ \A i \in 1..(b - a) : p[i] = source[a + i - 1]
  <2>1. b <= EndOfSource
    BY <1>0 DEF EndOfSource
  <2> QED
    BY <1>9, <2>1
<1>2. q \in Seq(Characters) /\ Len(q) = b + 1 - a
      /\ \A i \in 1..(b + 1 - a) : q[i] = source[a + i - 1]
  <2>1. b + 1 \in Nat /\ a <= b + 1 /\ b + 1 <= EndOfSource
    BY <1>0 DEF EndOfSource
  <2> QED
    BY <1>9, <2>1
<1> HIDE DEF p, q
<1>6. /\ Append(p, source[b]) \in Seq(Characters)
      /\ Len(Append(p, source[b])) = Len(p) + 1
      /\ Append(p, source[b])[Len(p) + 1] = source[b]
      /\ \A i \in 1..Len(p) : Append(p, source[b])[i] = p[i]
  BY <1>0, <1>1, Appended
<1>3. Len(Append(p, source[b])) = Len(q) /\ Append(p, source[b]) \in Seq(Characters)
  BY <1>1, <1>2, <1>6
<1>4. ASSUME NEW i \in 1..Len(q) PROVE Append(p, source[b])[i] = q[i]
  <2>1. CASE i \in 1..Len(p)
    BY <1>1, <1>2, <1>6, <2>1
  <2>2. CASE i = Len(p) + 1
    BY <1>1, <1>2, <1>6, <2>2, a + Len(p) + 1 - 1 = b
  <2> QED
    BY <1>1, <1>2, <2>1, <2>2
<1>5. q = Append(p, source[b])
  BY <1>2, <1>3, <1>4
<1> QED
  BY <1>5 DEF p, q

-----------------------------------------------------------------------------
(* The lexemes, by their characters.                                       *)
LEMMA DigitsOf ==
  ASSUME NEW w \in Seq(Characters), NEW i \in 1..(Len(w) + 1), NEW j \in 0..Len(w)
  PROVE  IsInt(SubSeq(w, i, j)) <=> i <= j /\ \A k \in i..j : w[k] \in Digits
<1>1. CASE i > j
  <2>1. SubSeq(w, i, j) = <<>>
    BY <1>1
  <2> QED
    BY <1>1, <2>1 DEF IsInt
<1>2. CASE i <= j
  <2>0. PICK v : v = SubSeq(w, i, j)
    OBVIOUS
  <2>1. /\ v \in Seq(Characters) /\ Len(v) = j - i + 1
        /\ \A k \in 1..(j - i + 1) : v[k] = w[i + k - 1]
    BY <1>2, <2>0
  <2>2. v # <<>>
    BY <1>2, <2>1
  <2>3. ASSUME \A k \in DOMAIN v : v[k] \in Digits, NEW k \in i..j
        PROVE  w[k] \in Digits
    <3>1. PICK m \in 1..(j - i + 1) : i + m - 1 = k
      BY k - i + 1 \in 1..(j - i + 1), i + (k - i + 1) - 1 = k
    <3>2. m \in DOMAIN v /\ v[m] = w[k]
      BY <2>1, <3>1
    <3> QED
      BY <2>3, <3>2
  <2>4. ASSUME \A k \in i..j : w[k] \in Digits, NEW k \in DOMAIN v
        PROVE  v[k] \in Digits
    <3>1. k \in 1..(j - i + 1)
      BY <2>1
    <3>2. i + k - 1 \in i..j
      BY <3>1
    <3> QED
      BY <2>1, <2>4, <3>1, <3>2
  <2>5. IsInt(v) <=> \A k \in i..j : w[k] \in Digits
    BY <2>2, <2>3, <2>4 DEF IsInt, Each
  <2> QED
    BY <1>2, <2>0, <2>5
<1> QED
  BY <1>1, <1>2

(* A float is digits around one point.                                     *)
LEMMA FloatOf ==
  ASSUME NEW w \in Seq(Characters)
  PROVE  IsFloat(w) <=>
           \E i \in 2..(Len(w) - 1) :
             w[i] = "." /\ \A k \in 1..Len(w) : k # i => w[k] \in Digits
<1>1. ASSUME NEW i \in 1..Len(w)
      PROVE  IsInt(SubSeq(w, 1, i - 1)) /\ IsInt(SubSeq(w, i + 1, Len(w))) <=>
               i \in 2..(Len(w) - 1) /\ \A k \in 1..Len(w) : k # i => w[k] \in Digits
  <2>0. Len(w) \in Nat
    OBVIOUS
  <2>1. IsInt(SubSeq(w, 1, i - 1)) <=> 1 <= i - 1 /\ \A k \in 1..(i - 1) : w[k] \in Digits
    <3>1. 1 \in 1..(Len(w) + 1) /\ i - 1 \in 0..Len(w)
      BY <2>0
    <3> QED
      BY <3>1, DigitsOf
  <2>2. IsInt(SubSeq(w, i + 1, Len(w))) <=>
          i + 1 <= Len(w) /\ \A k \in (i + 1)..Len(w) : w[k] \in Digits
    <3>1. i + 1 \in 1..(Len(w) + 1) /\ Len(w) \in 0..Len(w)
      BY <2>0
    <3> QED
      BY <3>1, DigitsOf
  <2>3. 1 <= i - 1 /\ i + 1 <= Len(w) <=> i \in 2..(Len(w) - 1)
    BY <2>0
  <2>4. \A k \in 1..Len(w) : k # i <=> (k \in 1..(i - 1) \/ k \in (i + 1)..Len(w))
    BY <2>0
  <2>5. \A k \in 1..(i - 1) : k \in 1..Len(w)
    BY <2>0
  <2>6. \A k \in (i + 1)..Len(w) : k \in 1..Len(w)
    BY <2>0
  <2> QED
    BY <2>1, <2>2, <2>3, <2>4, <2>5, <2>6
<1>2. DOMAIN w = 1..Len(w) /\ 2..(Len(w) - 1) \subseteq 1..Len(w)
  OBVIOUS
<1> QED
  BY <1>1, <1>2 DEF IsFloat

(* What an operator looks like.                                            *)
LEMMA OperatorOf ==
  ASSUME NEW w \in Seq(Characters), w # <<>>
  PROVE  w \in OperatorTexts <=>
           \/ Len(w) = 1 /\ w[1] \in Alone \cup WithEqual
           \/ Len(w) = 2 /\ w[1] \in WithEqual /\ w[2] = "="
           \/ Len(w) = 2 /\ w[1] \in Doubles \cup Shifts /\ w[2] = w[1]
           \/ Len(w) = 3 /\ w[1] \in Shifts /\ w[2] = w[1] /\ w[3] = "="
<1> DEFINE A == {";", ",", ":", ".", "(", ")", "{", "}", "[", "]", "~", "+",
                  "-", "*", "/", "%", "=", "!", "<", ">", "&", "|", "^"}
           B == {"+", "-", "*", "/", "%", "=", "!", "<", ">", "&", "|", "^"}
           C == {"+", "-", "<", ">", "&", "|"}
           D == {"<", ">"}
<1>1. A = Alone \cup WithEqual /\ B = WithEqual /\ C = Doubles \cup Shifts /\ D = Shifts
  BY DEF Alone, WithEqual, Doubles, Shifts
<1>2. OperatorTexts = {<<c>> : c \in A} \cup {<<c, "=">> : c \in B}
                      \cup {<<c, c>> : c \in C} \cup {<<c, c, "=">> : c \in D}
  BY Zenon DEF OperatorTexts
<1> HIDE DEF A, B, C, D
<1>3. (\E c \in A : w = <<c>>) <=> Len(w) = 1 /\ w[1] \in A
  OBVIOUS
<1>4. (\E c \in B : w = <<c, "=">>) <=> Len(w) = 2 /\ w[1] \in B /\ w[2] = "="
  OBVIOUS
<1>5. (\E c \in C : w = <<c, c>>) <=> Len(w) = 2 /\ w[1] \in C /\ w[2] = w[1]
  OBVIOUS
<1>6. (\E c \in D : w = <<c, c, "=">>) <=>
        Len(w) = 3 /\ w[1] \in D /\ w[2] = w[1] /\ w[3] = "="
  OBVIOUS
<1>7. w \in OperatorTexts <=>
        \/ \E c \in A : w = <<c>>
        \/ \E c \in B : w = <<c, "=">>
        \/ \E c \in C : w = <<c, c>>
        \/ \E c \in D : w = <<c, c, "=">>
  BY <1>2
<1> QED
  BY <1>1, <1>3, <1>4, <1>5, <1>6, <1>7

(* A text that is no lexeme of any kind.                                   *)
LEMMA NoLexeme ==
  ASSUME NEW w, ~IsWord(w), ~IsInt(w), ~IsFloat(w), ~IsString(w), ~IsChar(w),
         w \notin OperatorTexts
  PROVE  LexemeKinds(w) = {}
BY DEF LexemeKinds

(* What a lexeme begins with tells its kind, but for the two of numbers.   *)
LEMMA FirstTells ==
  ASSUME NEW w \in Seq(Characters), w # <<>>
  PROVE  /\ IsWord(w) => w[1] \in Letters
         /\ IsInt(w) => w[1] \in Digits
         /\ IsFloat(w) => w[1] \in Digits
         /\ IsString(w) => w[1] = Quote
         /\ IsChar(w) => w[1] = "'"
         /\ w \in OperatorTexts => w[1] \in Alone \cup WithEqual
         /\ IsBlockComment(w) \/ IsLineComment(w) => w[1] = "/" /\ Len(w) >= 2
<1>1. 1 \in DOMAIN w /\ 1 \in 1..Len(w)
  OBVIOUS
<1>2. IsFloat(w) => w[1] \in Digits
  <2>1. \A i \in 2..(Len(w) - 1) : 1 # i
    OBVIOUS
  <2> QED
    BY <1>1, <2>1, FloatOf
<1>3. w \in OperatorTexts => w[1] \in Alone \cup WithEqual
  BY OperatorOf DEF WithEqual
<1>4. IsBlockComment(w) \/ IsLineComment(w) => w[1] = "/" /\ Len(w) >= 2
  BY DEF IsBlockComment, IsLineComment
<1> QED
  BY <1>1, <1>2, <1>3, <1>4 DEF IsWord, IsInt, IsString, IsChar, Each

(* What the characters that begin lexemes are not.                         *)
LEMMA CharactersApart ==
  /\ Letters \cap Digits = {}
  /\ \A c \in Alone \cup WithEqual \cup {Quote, "'", "\\", "/", ".", "*"} :
       c \notin Letters \cup Digits \cup Spaces
  /\ \A c \in Alone \cup WithEqual : c # Quote /\ c # "'" /\ c # "\\"
  /\ "/" \in WithEqual /\ "." \in Alone
  /\ "'" # Quote /\ "/" # Quote /\ "'" # "\\" /\ "\n" # "/"
<1>1. Alone \cup WithEqual \cup {Quote, "'", "\\", "/", ".", "*"} \subseteq Marks
  BY Zenon DEF Marks, Alone, WithEqual, Doubles, Shifts
<1>2. \A c \in Alone \cup WithEqual : c # "'" /\ c # "\\"
  BY DEF Alone, WithEqual, Doubles, Shifts
<1>3. "/" \in WithEqual /\ "." \in Alone
  BY DEF Alone, WithEqual
<1> QED
  BY <1>1, <1>2, <1>3, CharactersAssumption, QuoteIsNone

IsPiece(w, a, b) ==
  /\ w \in Seq(Characters) /\ w # <<>> /\ Len(w) = b - a
  /\ w[1] = source[a] /\ a <= Len(source)
  /\ \A i \in 1..Len(w) : w[i] = source[a + i - 1]
  /\ \A p \in a..(b - 1) : p - a + 1 \in 1..Len(w) /\ w[p - a + 1] = source[p]

(* A piece of at least one character, character by character.              *)
LEMMA PieceAt ==
  ASSUME source \in Seq(Characters), NEW a \in Nat \ {0}, NEW b \in Nat,
         a < b, b <= EndOfSource
  PROVE  IsPiece(Piece(a, b), a, b)
<1>8. a <= b
  OBVIOUS
<1>9. /\ Piece(a, b) \in Seq(Characters) /\ Len(Piece(a, b)) = b - a
      /\ \A i \in 1..(b - a) : Piece(a, b)[i] = source[a + i - 1]
  BY <1>8, Pieces, Zenon
<1>0. PICK w : w = Piece(a, b)
  OBVIOUS
<1>1. /\ w \in Seq(Characters) /\ Len(w) = b - a
      /\ \A i \in 1..(b - a) : w[i] = source[a + i - 1]
  BY <1>0, <1>9
<1>2. w # <<>>
  BY <1>1
<1>3. w[1] = source[a]
  BY <1>1, 1 \in 1..(b - a), a + 1 - 1 = a
<1>4. ASSUME NEW p \in a..(b - 1)
      PROVE  p - a + 1 \in 1..Len(w) /\ w[p - a + 1] = source[p]
  <2>1. PICK m \in 1..(b - a) : m = p - a + 1 /\ a + m - 1 = p
    BY p - a + 1 \in 1..(b - a), a + (p - a + 1) - 1 = p
  <2> QED
    BY <1>1, <2>1
<1>5. a <= Len(source)
  <2>1. Len(source) \in Nat
    OBVIOUS
  <2> QED
    BY <2>1 DEF EndOfSource
<1> QED
  BY <1>0, <1>1, <1>2, <1>3, <1>4, <1>5 DEF IsPiece

(* A token is as long as it can be when nothing longer is a lexeme.        *)
Maximal(s, e) == \A k \in (e + 1)..EndOfSource : LexemeKinds(Piece(s, k)) = {}

(* lexIdentifierOrKeyword() stops at the longest word.                     *)
LEMMA WordEnds ==
  ASSUME source \in Seq(Characters), NEW s \in Nat \ {0}, NEW e \in Nat,
         s < e, e <= EndOfSource, source[s] \in Letters,
         \A p \in s..(e - 1) : source[p] \in Letters \cup Digits,
         e <= Len(source) => source[e] \notin Letters \cup Digits
  PROVE  IsWord(Piece(s, e)) /\ Maximal(s, e)
<1>1. IsWord(Piece(s, e))
  <2>1. PICK w : w = Piece(s, e) /\ IsPiece(w, s, e)
    BY PieceAt
  <2>2. /\ w \in Seq(Characters) /\ w # <<>> /\ Len(w) = e - s /\ w[1] = source[s]
        /\ \A i \in 1..Len(w) : w[i] = source[s + i - 1]
    BY <2>1 DEF IsPiece
  <2>3. \A i \in 1..Len(w) : s + i - 1 \in s..(e - 1)
    BY <2>2
  <2>4. IsWord(w)
    BY <2>2, <2>3 DEF IsWord, Each
  <2> QED
    BY <2>1, <2>4
<1>2. ASSUME NEW k \in (e + 1)..EndOfSource
      PROVE  LexemeKinds(Piece(s, k)) = {}
  <2>0. Len(source) \in Nat /\ k \in Nat /\ s < k /\ k <= EndOfSource /\ e \in s..(k - 1)
        /\ e <= Len(source)
    BY DEF EndOfSource
  <2>1. PICK w : w = Piece(s, k) /\ IsPiece(w, s, k)
    BY <2>0, PieceAt
  <2>2. /\ w \in Seq(Characters) /\ w # <<>> /\ w[1] = source[s]
        /\ e - s + 1 \in 1..Len(w) /\ w[e - s + 1] = source[e]
    BY <2>0, <2>1 DEF IsPiece
  <2>3. ~IsWord(w)
    <3>1. PICK m \in 1..Len(w) : w[m] = source[e]
      BY <2>2
    <3> QED
      BY <2>0, <2>2, <3>1 DEF IsWord, Each
  <2>4. ~IsInt(w) /\ ~IsFloat(w) /\ ~IsString(w) /\ ~IsChar(w) /\ w \notin OperatorTexts
    BY <2>2, FirstTells, CharactersApart
  <2> QED
    BY <2>1, <2>3, <2>4, NoLexeme
<1> QED
  BY <1>1, <1>2 DEF Maximal

(* lexNumber() without a point stops at the longest number,                *)
LEMMA IntegerEnds ==
  ASSUME source \in Seq(Characters), NEW s \in Nat \ {0}, NEW e \in Nat,
         s < e, e <= EndOfSource,
         \A p \in s..(e - 1) : source[p] \in Digits,
         e <= Len(source) => source[e] \notin Digits,
         e + 1 <= Len(source) /\ source[e] = "." => source[e + 1] \notin Digits
  PROVE  IsInt(Piece(s, e)) /\ Maximal(s, e)
<1>1. IsInt(Piece(s, e))
  <2>1. PICK w : w = Piece(s, e) /\ IsPiece(w, s, e)
    BY PieceAt
  <2>2. /\ w \in Seq(Characters) /\ w # <<>> /\ Len(w) = e - s
        /\ \A i \in 1..Len(w) : w[i] = source[s + i - 1]
    BY <2>1 DEF IsPiece
  <2>3. \A i \in 1..Len(w) : s + i - 1 \in s..(e - 1)
    BY <2>2
  <2>4. IsInt(w)
    BY <2>2, <2>3 DEF IsInt, Each
  <2> QED
    BY <2>1, <2>4
<1>2. ASSUME NEW k \in (e + 1)..EndOfSource
      PROVE  LexemeKinds(Piece(s, k)) = {}
  <2>0. Len(source) \in Nat /\ k \in Nat /\ s < k /\ k <= EndOfSource /\ e \in s..(k - 1)
        /\ e <= Len(source) /\ k - 1 <= Len(source) /\ k - 1 \in Nat
    BY DEF EndOfSource
  <2>1. PICK w : w = Piece(s, k) /\ IsPiece(w, s, k)
    BY <2>0, PieceAt
  <2>2. /\ w \in Seq(Characters) /\ w # <<>> /\ w[1] = source[s] /\ Len(w) = k - s
        /\ \A i \in 1..Len(w) : w[i] = source[s + i - 1]
    BY <2>0, <2>1 DEF IsPiece
  <2>3. PICK m \in 1..Len(w) : m = e - s + 1 /\ w[m] = source[e]
    BY <2>0, <2>2, s + (e - s + 1) - 1 = e, e - s + 1 \in 1..(k - s)
  <2>4. ~IsInt(w)
    BY <2>0, <2>2, <2>3 DEF IsInt, Each
  <2>5. ~IsFloat(w)
    <3> SUFFICES ASSUME NEW i \in 2..(Len(w) - 1), w[i] = ".",
                        \A j \in 1..Len(w) : j # i => w[j] \in Digits
                 PROVE  FALSE
      BY <2>2, FloatOf
    <3>1. i = m
      BY <2>0, <2>3
    <3>2. m + 1 \in 1..Len(w) /\ m + 1 # i /\ e + 1 <= Len(source) /\ s + (m + 1) - 1 = e + 1
      BY <2>0, <2>2, <2>3, <3>1
    <3>3. w[m + 1] = source[e + 1]
      BY <2>2, <3>2
    <3> QED
      BY <2>3, <3>1, <3>2, <3>3
  <2>6. source[s] \in Digits
    BY s \in s..(e - 1)
  <2>7. ~IsWord(w) /\ ~IsString(w) /\ ~IsChar(w) /\ w \notin OperatorTexts
    BY <2>2, <2>6, FirstTells, CharactersApart
  <2> QED
    BY <2>1, <2>4, <2>5, <2>7, NoLexeme
<1> QED
  BY <1>1, <1>2 DEF Maximal

(* and with one too.                                                       *)
LEMMA FractionEnds ==
  ASSUME source \in Seq(Characters), NEW s \in Nat \ {0}, NEW e \in Nat,
         NEW d \in (s + 1)..(e - 2), e <= EndOfSource, source[d] = ".",
         \A p \in s..(e - 1) : p # d => source[p] \in Digits,
         e <= Len(source) => source[e] \notin Digits
  PROVE  IsFloat(Piece(s, e)) /\ Maximal(s, e)
<1>0. s < e /\ d \in Nat
  OBVIOUS
<1>1. IsFloat(Piece(s, e))
  <2>1. PICK w : w = Piece(s, e) /\ IsPiece(w, s, e)
    BY <1>0, PieceAt
  <2>2. /\ w \in Seq(Characters) /\ w # <<>> /\ Len(w) = e - s
        /\ \A i \in 1..Len(w) : w[i] = source[s + i - 1]
    BY <1>0, <2>1 DEF IsPiece
  <2>3. PICK m \in 2..(Len(w) - 1) : m = d - s + 1
    BY <2>2
  <2>4. w[m] = "." /\ m \in 1..Len(w)
    BY <2>2, <2>3, s + m - 1 = d
  <2>5. ASSUME NEW i \in 1..Len(w), i # m
        PROVE  w[i] \in Digits
    <3>1. s + i - 1 \in s..(e - 1) /\ s + i - 1 # d
      BY <2>2, <2>3, <2>5
    <3> QED
      BY <2>2, <3>1
  <2>6. IsFloat(w)
    BY <2>2, <2>4, <2>5, FloatOf
  <2> QED
    BY <2>1, <2>6
<1>2. ASSUME NEW k \in (e + 1)..EndOfSource
      PROVE  LexemeKinds(Piece(s, k)) = {}
  <2>0. Len(source) \in Nat /\ k \in Nat /\ s < k /\ k <= EndOfSource /\ e \in s..(k - 1)
        /\ e <= Len(source)
    BY <1>0 DEF EndOfSource
  <2>1. PICK w : w = Piece(s, k) /\ IsPiece(w, s, k)
    BY <2>0, PieceAt
  <2>2. /\ w \in Seq(Characters) /\ w # <<>> /\ w[1] = source[s] /\ Len(w) = k - s
        /\ \A i \in 1..Len(w) : w[i] = source[s + i - 1]
    BY <2>0, <2>1 DEF IsPiece
  <2>3. PICK m \in 1..Len(w) : m = e - s + 1 /\ w[m] = source[e]
    BY <2>0, <2>2, s + (e - s + 1) - 1 = e, e - s + 1 \in 1..(k - s)
  <2>4. PICK n \in 1..Len(w) : n = d - s + 1 /\ w[n] = source[d] /\ n # m
    BY <2>0, <2>2, <2>3, s + (d - s + 1) - 1 = d, d - s + 1 \in 1..(k - s)
  <2>5. "." \notin Digits
    BY CharactersApart
  <2>6. ~IsInt(w)
    BY <2>2, <2>4, <2>5 DEF IsInt, Each
  <2>7. ~IsFloat(w)
    BY <2>0, <2>2, <2>3, <2>4, <2>5, FloatOf
  <2>8. source[s] \in Digits
    BY <1>0, s \in s..(e - 1), s # d
  <2>9. ~IsWord(w) /\ ~IsString(w) /\ ~IsChar(w) /\ w \notin OperatorTexts
    BY <2>2, <2>8, FirstTells, CharactersApart
  <2> QED
    BY <2>1, <2>6, <2>7, <2>9, NoLexeme
<1> QED
  BY <1>1, <1>2 DEF Maximal

(* A report at e is deserved: no lexeme and no comment begins there.       *)
Deserved(e) ==
  \A k \in (e + 1)..EndOfSource :
    /\ LexemeKinds(Piece(e, k)) = {}
    /\ ~IsBlockComment(Piece(e, k)) /\ ~IsLineComment(Piece(e, k))

(* lexPunctuationOrOperator() takes the longest operator.                  *)
LEMMA OperatorEnds ==
  ASSUME source \in Seq(Characters), NEW s \in Nat \ {0}, s <= Len(source),
         OperatorLength(s) # 0
  PROVE  /\ s + OperatorLength(s) <= EndOfSource
         /\ Piece(s, s + OperatorLength(s)) \in OperatorTexts
         /\ Maximal(s, s + OperatorLength(s))
<1>0. PICK n : n = OperatorLength(s)
  OBVIOUS
<1>1. n \in 1..3 /\ \A j \in 0..2 : j < n => s + j <= Len(source)
  BY <1>0, OperatorFits
<1>2. Len(source) \in Nat /\ s + n <= EndOfSource
  <2>1. n - 1 \in 0..2 /\ n - 1 < n /\ s + (n - 1) <= Len(source)
    BY <1>1
  <2> QED
    BY <1>1, <2>1 DEF EndOfSource
<1>3. CharAt(s) = source[s]
  BY DEF CharAt
<1>4. /\ s + 1 <= Len(source) => CharAt(s + 1) = source[s + 1]
      /\ s + 2 <= Len(source) => CharAt(s + 2) = source[s + 2]
  BY DEF CharAt
<1>5. /\ source[s] \in Alone \cup WithEqual
      /\ n = 3 <=> source[s] \in Shifts /\ CharAt(s + 1) = source[s] /\ CharAt(s + 2) = "="
      /\ n >= 2 <=> \/ source[s] \in Doubles \cup Shifts /\ CharAt(s + 1) = source[s]
                    \/ source[s] \in WithEqual /\ CharAt(s + 1) = "="
  <2>1. Shifts \subseteq WithEqual /\ Shifts \subseteq Doubles \cup Shifts
    BY DEF WithEqual
  <2>2. source[s] \in Alone \cup WithEqual
    BY <1>0, <1>1, <1>3 DEF OperatorLength
  <2>3. n = 3 <=> source[s] \in Shifts /\ CharAt(s + 1) = source[s] /\ CharAt(s + 2) = "="
    BY <1>0, <1>3, <2>2 DEF OperatorLength
  <2>4. n >= 2 <=> \/ source[s] \in Doubles \cup Shifts /\ CharAt(s + 1) = source[s]
                   \/ source[s] \in WithEqual /\ CharAt(s + 1) = "="
    BY <1>0, <1>3, <2>1, <2>2 DEF OperatorLength
  <2> QED
    BY <2>2, <2>3, <2>4
<1>6. Piece(s, s + n) \in OperatorTexts
  <2>1. PICK w : w = Piece(s, s + n) /\ IsPiece(w, s, s + n)
    BY <1>1, <1>2, PieceAt
  <2>2. /\ w \in Seq(Characters) /\ w # <<>> /\ w[1] = source[s] /\ Len(w) = n
        /\ \A i \in 1..Len(w) : w[i] = source[s + i - 1]
    BY <1>1, <2>1 DEF IsPiece
  <2>3. /\ n >= 2 => w[2] = CharAt(s + 1)
        /\ n = 3 => w[3] = CharAt(s + 2)
    <3>1. n >= 2 => s + 1 <= Len(source) /\ 2 \in 1..Len(w) /\ s + 2 - 1 = s + 1
      BY <1>1, <2>2
    <3>2. n = 3 => s + 2 <= Len(source) /\ 3 \in 1..Len(w) /\ s + 3 - 1 = s + 2
      BY <1>1, <2>2
    <3> QED
      BY <1>4, <2>2, <3>1, <3>2
  <2>4. w \in OperatorTexts
    <3>1. w \in OperatorTexts <=>
           \/ Len(w) = 1 /\ w[1] \in Alone \cup WithEqual
           \/ Len(w) = 2 /\ w[1] \in WithEqual /\ w[2] = "="
           \/ Len(w) = 2 /\ w[1] \in Doubles \cup Shifts /\ w[2] = w[1]
           \/ Len(w) = 3 /\ w[1] \in Shifts /\ w[2] = w[1] /\ w[3] = "="
      BY <2>2, OperatorOf
    <3>2. n = 1 \/ n = 2 \/ n = 3
      BY <1>1
    <3> QED
      BY <1>5, <2>2, <2>3, <3>1, <3>2
  <2> QED
    BY <2>1, <2>4
<1>7. ASSUME NEW k \in (s + n + 1)..EndOfSource
      PROVE  LexemeKinds(Piece(s, k)) = {}
  <2>0. k \in Nat /\ s < k /\ k <= EndOfSource /\ k - s > n /\ k - 1 <= Len(source)
    BY <1>1, <1>2 DEF EndOfSource
  <2>1. PICK w : w = Piece(s, k) /\ IsPiece(w, s, k)
    BY <2>0, PieceAt
  <2>2. /\ w \in Seq(Characters) /\ w # <<>> /\ w[1] = source[s] /\ Len(w) = k - s
        /\ \A i \in 1..Len(w) : w[i] = source[s + i - 1]
    BY <2>1 DEF IsPiece
  <2>3. /\ Len(w) >= 2 => w[2] = CharAt(s + 1)
        /\ Len(w) >= 3 => w[3] = CharAt(s + 2)
    <3>1. Len(w) >= 2 => s + 1 <= Len(source) /\ 2 \in 1..Len(w) /\ s + 2 - 1 = s + 1
      BY <2>0, <2>2
    <3>2. Len(w) >= 3 => s + 2 <= Len(source) /\ 3 \in 1..Len(w) /\ s + 3 - 1 = s + 2
      BY <2>0, <2>2
    <3> QED
      BY <1>4, <2>2, <3>1, <3>2
  <2>4. w \notin OperatorTexts
    <3>1. w \in OperatorTexts <=>
           \/ Len(w) = 1 /\ w[1] \in Alone \cup WithEqual
           \/ Len(w) = 2 /\ w[1] \in WithEqual /\ w[2] = "="
           \/ Len(w) = 2 /\ w[1] \in Doubles \cup Shifts /\ w[2] = w[1]
           \/ Len(w) = 3 /\ w[1] \in Shifts /\ w[2] = w[1] /\ w[3] = "="
      BY <2>2, OperatorOf
    <3>2. Len(w) \in Nat /\ Len(w) > n /\ n \in 1..3
      BY <1>1, <2>0, <2>2
    <3>3. CASE Len(w) = 2
      BY <1>5, <2>2, <2>3, <3>1, <3>2, <3>3
    <3>4. CASE Len(w) = 3
      BY <1>5, <2>2, <2>3, <3>1, <3>2, <3>4
    <3>5. Len(w) # 1
      <4>1. PICK l \in Nat : l = Len(w)
        BY <3>2
      <4>2. PICK m \in 1..3 : m = n
        BY <3>2
      <4>3. l > m
        BY <3>2, <4>1, <4>2
      <4>4. l # 1
        BY <4>3
      <4> QED
        BY <4>1, <4>4
    <3> QED
      BY <3>1, <3>3, <3>4, <3>5
  <2>5. ~IsWord(w) /\ ~IsInt(w) /\ ~IsFloat(w) /\ ~IsString(w) /\ ~IsChar(w)
    BY <1>5, <2>2, FirstTells, CharactersApart
  <2> QED
    BY <2>1, <2>4, <2>5, NoLexeme
<1> QED
  BY <1>0, <1>2, <1>6, <1>7 DEF Maximal

(* A character that begins nothing is rightly reported.                    *)
LEMMA StrayDeserved ==
  ASSUME source \in Seq(Characters), NEW s \in Nat \ {0},
         source[s] \notin Letters \cup Digits \cup {Quote, "'"} \cup Alone \cup WithEqual
  PROVE  Deserved(s)
<1> SUFFICES ASSUME NEW k \in (s + 1)..EndOfSource
             PROVE  /\ LexemeKinds(Piece(s, k)) = {}
                    /\ ~IsBlockComment(Piece(s, k)) /\ ~IsLineComment(Piece(s, k))
  BY DEF Deserved
<1>0. k \in Nat /\ s < k /\ k <= EndOfSource
  BY DEF EndOfSource
<1>1. PICK w : w = Piece(s, k) /\ IsPiece(w, s, k)
  BY <1>0, PieceAt
<1>2. w \in Seq(Characters) /\ w # <<>> /\ w[1] = source[s]
  BY <1>1 DEF IsPiece
<1>3. /\ ~IsWord(w) /\ ~IsInt(w) /\ ~IsFloat(w) /\ ~IsString(w) /\ ~IsChar(w)
      /\ w \notin OperatorTexts /\ ~IsBlockComment(w) /\ ~IsLineComment(w)
  BY <1>2, FirstTells, CharactersApart
<1> QED
  BY <1>1, <1>3, NoLexeme

(* A string ends at the first quote that is not escaped.                   *)
LEMMA StringEnds ==
  ASSUME source \in Seq(Characters), NEW s \in Nat \ {0}, NEW e \in Nat,
         s < e, e <= Len(source), source[e] = Quote, NEW t,
         StringSoFar(Piece(s, e), t)
  PROVE  IsString(Piece(s, e + 1)) /\ Maximal(s, e + 1)
<1>0. Len(source) \in Nat /\ e <= EndOfSource /\ s <= e
  BY DEF EndOfSource
<1>1. PICK w : w = Piece(s, e) /\ IsPiece(w, s, e)
  BY <1>0, PieceAt
<1>2. /\ w \in Seq(Characters) /\ w # <<>> /\ Len(w) = e - s
      /\ w[1] = source[s]
      /\ \A i \in 1..Len(w) : w[i] = source[s + i - 1]
  BY <1>1 DEF IsPiece
<1>3. /\ w[1] = Quote /\ QuotesEscaped(w) /\ ~Escaped(w, Len(w) + 1)
  BY <1>1 DEF StringSoFar
<1>4. PICK v : v = Append(w, Quote)
  OBVIOUS
<1>5. v = Piece(s, e + 1)
  BY <1>0, <1>1, <1>4, PieceGrows
<1>6. /\ v \in Seq(Characters) /\ Len(v) = Len(w) + 1 /\ v[Len(w) + 1] = Quote
      /\ \A i \in 1..Len(w) : v[i] = w[i]
      /\ \A i \in 1..(Len(w) + 1) : Escaped(v, i) <=> Escaped(w, i)
  <2>1. Quote \in Characters
    BY QuoteIsNone
  <2>2. \A i \in 1..(Len(w) + 1) : Escaped(v, i) <=> Escaped(w, i)
    BY <1>2, <1>4, <2>1, AppendKeepsEscapes
  <2>3. /\ v \in Seq(Characters) /\ Len(v) = Len(w) + 1 /\ v[Len(w) + 1] = Quote
        /\ \A i \in 1..Len(w) : v[i] = w[i]
    <3>1. /\ Append(w, Quote) \in Seq(Characters) /\ Len(Append(w, Quote)) = Len(w) + 1
          /\ Append(w, Quote)[Len(w) + 1] = Quote
          /\ \A i \in 1..Len(w) : Append(w, Quote)[i] = w[i]
      BY <1>2, <2>1, Appended, Zenon
    <3> QED
      BY <1>4, <3>1, Zenon
  <2> QED
    BY <2>2, <2>3
<1>7. Len(w) \in Nat /\ Len(w) >= 1 /\ Len(v) \in Nat
  BY <1>2, <1>6
<1>8. v[1] = Quote
  BY <1>3, <1>6, <1>7
<1>9. IsString(v)
  <2>1. \A i \in 2..(Len(v) - 1) : v[i] = Quote => Escaped(v, i)
    <3>1. \A i \in 2..(Len(v) - 1) : i \in 1..Len(w) /\ i \in 2..Len(w) /\ i \in 1..(Len(w) + 1)
      BY <1>6, <1>7
    <3> QED
      BY <1>3, <1>6, <3>1 DEF QuotesEscaped
  <2>2. Len(v) >= 2 /\ v[Len(v)] = Quote /\ ~Escaped(v, Len(v))
    BY <1>3, <1>6, <1>7
  <2> QED
    BY <1>8, <2>1, <2>2 DEF IsString
<1>10. ASSUME NEW k \in (e + 1 + 1)..EndOfSource
       PROVE  LexemeKinds(Piece(s, k)) = {}
  <2>0. k \in Nat /\ s < k /\ k <= EndOfSource
    BY <1>0 DEF EndOfSource
  <2>1. PICK u : u = Piece(s, k) /\ IsPiece(u, s, k)
    BY <2>0, PieceAt
  <2>2. /\ u \in Seq(Characters) /\ u # <<>> /\ u[1] = source[s] /\ Len(u) = k - s
        /\ \A i \in 1..Len(u) : u[i] = source[s + i - 1]
    BY <2>1 DEF IsPiece
  <2>3. \A j \in 1..(Len(w) + 1 - 1) : u[j] = w[j]
    <3>1. \A j \in 1..(Len(w) + 1 - 1) : j \in 1..Len(w) /\ j \in 1..Len(u)
      BY <1>2, <1>7, <2>2
    <3> QED
      BY <1>2, <2>2, <3>1
  <2>4. ~Escaped(u, Len(w) + 1)
    <3>1. Len(w) + 1 \in Nat
      BY <1>7
    <3>2. Escaped(u, Len(w) + 1) <=> Escaped(w, Len(w) + 1)
      BY <2>3, <3>1, EscapedPrefix
    <3> QED
      BY <1>3, <3>2
  <2>5. Len(w) + 1 \in 2..(Len(u) - 1) /\ u[Len(w) + 1] = Quote
    <3>1. Len(w) + 1 \in 1..Len(u) /\ s + (Len(w) + 1) - 1 = e /\ Len(w) + 1 \in 2..(Len(u) - 1)
      BY <1>2, <1>7, <2>2
    <3> QED
      BY <2>2, <3>1
  <2>6. ~IsString(u)
    BY <2>4, <2>5 DEF IsString
  <2>7. ~IsWord(u) /\ ~IsInt(u) /\ ~IsFloat(u) /\ ~IsChar(u) /\ u \notin OperatorTexts
    BY <1>2, <1>3, <2>2, FirstTells, CharactersApart
  <2> QED
    BY <2>1, <2>6, <2>7, NoLexeme
<1> QED
  BY <1>5, <1>9, <1>10 DEF Maximal

(* So is a quote after which every other quote is escaped.                 *)
LEMMA StringOpen ==
  ASSUME source \in Seq(Characters), NEW s \in Nat \ {0}, s <= Len(source),
         source[s] = Quote, QuotesEscaped(Piece(s, EndOfSource))
  PROVE  Deserved(s)
<1> SUFFICES ASSUME NEW k \in (s + 1)..EndOfSource
             PROVE  /\ LexemeKinds(Piece(s, k)) = {}
                    /\ ~IsBlockComment(Piece(s, k)) /\ ~IsLineComment(Piece(s, k))
  BY DEF Deserved
<1>0. k \in Nat /\ s < k /\ k <= EndOfSource /\ EndOfSource \in Nat /\ s < EndOfSource
  BY DEF EndOfSource
<1>1. PICK w : w = Piece(s, k) /\ IsPiece(w, s, k)
  BY <1>0, PieceAt
<1>2. /\ w \in Seq(Characters) /\ w # <<>> /\ w[1] = source[s] /\ Len(w) = k - s
      /\ \A i \in 1..Len(w) : w[i] = source[s + i - 1]
  BY <1>1 DEF IsPiece
<1>3. PICK v : v = Piece(s, EndOfSource) /\ IsPiece(v, s, EndOfSource)
  BY <1>0, PieceAt
<1>4. /\ v \in Seq(Characters) /\ Len(v) = EndOfSource - s
      /\ \A i \in 1..Len(v) : v[i] = source[s + i - 1]
  BY <1>3 DEF IsPiece
<1>5. ~IsString(w)
  <2> SUFFICES ASSUME Len(w) >= 2, w[Len(w)] = Quote, ~Escaped(w, Len(w))
               PROVE  FALSE
    BY DEF IsString
  <2>1. Len(w) \in 2..Len(v) /\ \A i \in 1..Len(w) : i \in 1..Len(v)
    BY <1>0, <1>2, <1>4
  <2>2. \A i \in 1..Len(w) : w[i] = v[i]
    BY <1>2, <1>4, <2>1
  <2>3. Escaped(v, Len(w))
    <3>1. Len(w) \in 1..Len(w) /\ v[Len(w)] = Quote
      BY <2>1, <2>2
    <3> QED
      BY <1>3, <2>1, <3>1 DEF QuotesEscaped
  <2>4. Escaped(w, Len(w)) <=> Escaped(v, Len(w))
    <3>1. Len(w) \in Nat /\ \A j \in 1..(Len(w) - 1) : w[j] = v[j]
      BY <1>2, <2>2
    <3> QED
      BY <3>1, EscapedPrefix
  <2> QED
    BY <2>3, <2>4
<1>6. /\ ~IsWord(w) /\ ~IsInt(w) /\ ~IsFloat(w) /\ ~IsChar(w)
      /\ w \notin OperatorTexts /\ ~IsBlockComment(w) /\ ~IsLineComment(w)
  BY <1>2, FirstTells, CharactersApart
<1> QED
  BY <1>1, <1>5, <1>6, NoLexeme

(* What a character literal stands for, without an escape                  *)
LEMMA CharacterRead ==
  ASSUME NEW w \in Seq(Characters), Len(w) = 2, w[2] # "\\", NEW d, d = w[2]
  PROVE  StandsFor(w, <<d>>)
<1>1. 2..Len(w) = {2}
  OBVIOUS
<1>2. ~Escaped(w, 2)
  BY FirstUnescaped
<1>3. Kept(w) = {2}
  BY <1>1 DEF Kept
<1>4. {j \in {2} : j <= 2} = {2}
  OBVIOUS
<1>5. Cardinality({2}) = 1
  BY FS_Singleton
<1>6. PICK t : t = <<d>>
  OBVIOUS
<1>7. Len(t) = 1 /\ t[1] = d
  BY <1>6
<1>8. StandsFor(w, t)
  BY <1>2, <1>3, <1>4, <1>5, <1>7 DEF StandsFor
<1> QED
  BY <1>6, <1>8

(* and with one.                                                           *)
LEMMA EscapedCharacterRead ==
  ASSUME NEW w \in Seq(Characters), Len(w) = 3, w[1] # "\\", w[2] = "\\",
         NEW d, d = Unescaped(w[3])
  PROVE  StandsFor(w, <<d>>)
<1>1. 2..Len(w) = {2, 3}
  OBVIOUS
<1>2. ~Escaped(w, 2) /\ Escaped(w, 3)
  <2>1. 2 + 1 = 3 /\ 2 \in Nat
    OBVIOUS
  <2>2. ~Escaped(w, 2)
    BY FirstUnescaped
  <2>3. Escaped(w, 2 + 1) <=> w[2] = "\\" /\ ~Escaped(w, 2)
    BY EscapedNext
  <2> QED
    BY <2>1, <2>2, <2>3
<1>3. Kept(w) = {3}
  BY <1>1, <1>2 DEF Kept
<1>4. {j \in {3} : j <= 3} = {3}
  OBVIOUS
<1>5. Cardinality({3}) = 1
  BY FS_Singleton
<1>6. PICK t : t = <<d>>
  OBVIOUS
<1>7. Len(t) = 1 /\ t[1] = d
  BY <1>6
<1>8. StandsFor(w, t)
  BY <1>2, <1>3, <1>4, <1>5, <1>7 DEF StandsFor
<1> QED
  BY <1>6, <1>8

(* A character literal with its closing quote: of three characters, or of  *)
(* four with a backslash.                                                  *)
LEMMA CharEnds ==
  ASSUME source \in Seq(Characters), NEW s \in Nat \ {0}, NEW e \in Nat, s < e,
         e <= EndOfSource, source[s] = "'", source[e - 1] = "'",
         \/ e = s + 3 /\ source[s + 1] # "\\"
         \/ e = s + 4 /\ source[s + 1] = "\\"
  PROVE  IsChar(Piece(s, e)) /\ Maximal(s, e)
<1>1. IsChar(Piece(s, e))
  <2>1. PICK w : w = Piece(s, e) /\ IsPiece(w, s, e)
    BY PieceAt
  <2>2. /\ w \in Seq(Characters) /\ Len(w) = e - s /\ w[1] = source[s]
        /\ \A i \in 1..Len(w) : w[i] = source[s + i - 1]
    BY <2>1 DEF IsPiece
  <2>3. Len(w) \in 1..Len(w) /\ s + Len(w) - 1 = e - 1 /\ 2 \in 1..Len(w) /\ s + 2 - 1 = s + 1
    BY <2>2
  <2>4. w[Len(w)] = "'" /\ w[2] = source[s + 1]
    BY <2>2, <2>3
  <2>5. \/ Len(w) = 3 /\ w[2] # "\\"
        \/ Len(w) = 4 /\ w[2] = "\\"
    <3>1. CASE e = s + 3 /\ source[s + 1] # "\\"
      BY <2>2, <2>4, <3>1
    <3>2. CASE e = s + 4 /\ source[s + 1] = "\\"
      BY <2>2, <2>4, <3>2
    <3> QED
      BY <3>1, <3>2
  <2>6. IsChar(w)
    BY <2>2, <2>4, <2>5 DEF IsChar
  <2> QED
    BY <2>1, <2>6
<1>2. ASSUME NEW k \in (e + 1)..EndOfSource
      PROVE  LexemeKinds(Piece(s, k)) = {}
  <2>0. k \in Nat /\ s < k /\ k <= EndOfSource /\ k > e
    BY DEF EndOfSource
  <2>1. PICK w : w = Piece(s, k) /\ IsPiece(w, s, k)
    BY <2>0, PieceAt
  <2>2. /\ w \in Seq(Characters) /\ w # <<>> /\ w[1] = source[s] /\ Len(w) = k - s
        /\ \A i \in 1..Len(w) : w[i] = source[s + i - 1]
    BY <2>1 DEF IsPiece
  <2>3. 2 \in 1..Len(w) /\ s + 2 - 1 = s + 1
    BY <2>0, <2>2
  <2>4. w[2] = source[s + 1]
    BY <2>2, <2>3
  <2>5. ~IsChar(w)
    <3>1. CASE e = s + 3 /\ source[s + 1] # "\\"
      <4>1. Len(w) # 3
        BY <2>0, <2>2, <3>1
      <4> QED
        BY <2>4, <3>1, <4>1 DEF IsChar
    <3>2. CASE e = s + 4 /\ source[s + 1] = "\\"
      <4>1. Len(w) # 4
        BY <2>0, <2>2, <3>2
      <4> QED
        BY <2>4, <3>2, <4>1 DEF IsChar
    <3> QED
      BY <3>1, <3>2
  <2>6. ~IsWord(w) /\ ~IsInt(w) /\ ~IsFloat(w) /\ ~IsString(w) /\ w \notin OperatorTexts
    BY <2>2, FirstTells, CharactersApart
  <2> QED
    BY <2>1, <2>5, <2>6, NoLexeme
<1> QED
  BY <1>1, <1>2 DEF Maximal

(* A character literal that is not closed is rightly reported.             *)
LEMMA CharOpen ==
  ASSUME source \in Seq(Characters), NEW s \in Nat \ {0}, source[s] = "'",
         s + 2 <= Len(source) /\ source[s + 1] # "\\" => source[s + 2] # "'",
         s + 3 <= Len(source) /\ source[s + 1] = "\\" => source[s + 3] # "'"
  PROVE  Deserved(s)
<1> SUFFICES ASSUME NEW k \in (s + 1)..EndOfSource
             PROVE  /\ LexemeKinds(Piece(s, k)) = {}
                    /\ ~IsBlockComment(Piece(s, k)) /\ ~IsLineComment(Piece(s, k))
  BY DEF Deserved
<1>0. k \in Nat /\ s < k /\ k <= EndOfSource /\ k - 1 <= Len(source) /\ Len(source) \in Nat
  BY DEF EndOfSource
<1>1. PICK w : w = Piece(s, k) /\ IsPiece(w, s, k)
  BY <1>0, PieceAt
<1>2. /\ w \in Seq(Characters) /\ w # <<>> /\ w[1] = source[s] /\ Len(w) = k - s
      /\ \A i \in 1..Len(w) : w[i] = source[s + i - 1]
  BY <1>1 DEF IsPiece
<1>3. ~IsChar(w)
  <2>1. ASSUME Len(w) = 3 PROVE ~IsChar(w)
    <3>9. k - s = 3
      BY <1>2, <2>1, Zenon
    <3>0. k = s + 3
      BY <3>9
    <3>1. s + 2 <= Len(source) /\ 2 \in 1..Len(w) /\ s + 2 - 1 = s + 1
          /\ 3 \in 1..Len(w) /\ s + 3 - 1 = s + 2
      BY <1>0, <2>1, <3>0
    <3>2. w[2] = source[s + 1] /\ w[3] = source[s + 2]
      BY <1>2, <3>1
    <3> QED
      BY <2>1, <3>1, <3>2 DEF IsChar
  <2>2. ASSUME Len(w) = 4 PROVE ~IsChar(w)
    <3>9. k - s = 4
      BY <1>2, <2>2, Zenon
    <3>0. k = s + 4
      BY <3>9
    <3>1. s + 3 <= Len(source) /\ 2 \in 1..Len(w) /\ s + 2 - 1 = s + 1
          /\ 4 \in 1..Len(w) /\ s + 4 - 1 = s + 3
      BY <1>0, <2>2, <3>0
    <3>2. w[2] = source[s + 1] /\ w[4] = source[s + 3]
      BY <1>2, <3>1
    <3> QED
      BY <2>2, <3>1, <3>2 DEF IsChar
  <2> QED
    BY <2>1, <2>2 DEF IsChar
<1>4. /\ ~IsWord(w) /\ ~IsInt(w) /\ ~IsFloat(w) /\ ~IsString(w)
      /\ w \notin OperatorTexts /\ ~IsBlockComment(w) /\ ~IsLineComment(w)
  BY <1>2, FirstTells, CharactersApart
<1> QED
  BY <1>1, <1>3, <1>4, NoLexeme

-----------------------------------------------------------------------------
(* Comments.                                                               *)
LEMMA LineCommentEnds ==
  ASSUME source \in Seq(Characters), NEW c \in Nat \ {0}, NEW e \in Nat,
         c + 2 <= e, e <= EndOfSource, source[c] = "/", source[c + 1] = "/",
         \A p \in c..(e - 1) : source[p] # "\n"
  PROVE  IsLineComment(Piece(c, e))
<1>1. c < e /\ c + 1 \in c..(e - 1)
  OBVIOUS
<1>2. PICK w : w = Piece(c, e) /\ IsPiece(w, c, e)
  BY <1>1, PieceAt
<1>3. /\ w \in Seq(Characters) /\ Len(w) = e - c /\ w[1] = source[c]
      /\ \A i \in 1..Len(w) : w[i] = source[c + i - 1]
  BY <1>2 DEF IsPiece
<1>4. Len(w) >= 2 /\ 2 \in 1..Len(w) /\ c + 2 - 1 = c + 1
  BY <1>3
<1>5. w[2] = source[c + 1]
  BY <1>3, <1>4
<1>6. \A i \in 1..Len(w) : c + i - 1 \in c..(e - 1)
  BY <1>3
<1>7. ~(\E i \in DOMAIN w : w[i] = "\n")
  BY <1>3, <1>6
<1>8. IsLineComment(w)
  BY <1>3, <1>4, <1>5, <1>7 DEF IsLineComment
<1> QED
  BY <1>2, <1>8

(* A block comment ends at the first mark that closes it.                  *)
LEMMA BlockCommentEnds ==
  ASSUME source \in Seq(Characters), NEW c \in Nat \ {0}, NEW e \in Nat,
         c + 2 <= e, e + 1 <= Len(source), source[c] = "/", source[c + 1] = "*",
         source[e] = "*", source[e + 1] = "/",
         \A p \in (c + 2)..(e - 1) : ~(source[p] = "*" /\ source[p + 1] = "/")
  PROVE  IsBlockComment(Piece(c, e + 2))
<1>1. Len(source) \in Nat /\ c < e + 2 /\ e + 2 <= EndOfSource /\ e + 2 \in Nat
  BY DEF EndOfSource
<1>2. PICK w : w = Piece(c, e + 2) /\ IsPiece(w, c, e + 2)
  BY <1>1, PieceAt
<1>3. /\ w \in Seq(Characters) /\ Len(w) = e + 2 - c /\ w[1] = source[c]
      /\ \A i \in 1..Len(w) : w[i] = source[c + i - 1]
  BY <1>2 DEF IsPiece
<1>4. Len(w) >= 4 /\ 2 \in 1..Len(w) /\ c + 2 - 1 = c + 1
  BY <1>3
<1>5. w[2] = source[c + 1]
  BY <1>3, <1>4
<1>6. ASSUME NEW i \in 1..Len(w), i >= 4
      PROVE  w[i - 1] = "*" /\ w[i] = "/" <=> i = Len(w)
  <2>1. PICK p \in (c + 2)..e : p = c + i - 2
    BY <1>3, <1>6
  <2>2. i - 1 \in 1..Len(w) /\ c + (i - 1) - 1 = p /\ c + i - 1 = p + 1
    BY <1>3, <1>6, <2>1
  <2>3. w[i - 1] = source[p] /\ w[i] = source[p + 1]
    BY <1>3, <2>2
  <2>4. i = Len(w) <=> p = e
    BY <1>3, <2>1
  <2>5. p # e => p \in (c + 2)..(e - 1)
    BY <2>1
  <2> QED
    BY <2>3, <2>4, <2>5
<1>7. \A i \in DOMAIN w : ClosesAt(w, i) <=> i = Len(w)
  <2>1. DOMAIN w = 1..Len(w) /\ Len(w) \in Nat
    BY <1>3
  <2> QED
    BY <1>4, <1>6, <2>1 DEF ClosesAt
<1>8. IsBlockComment(w)
  BY <1>3, <1>4, <1>5, <1>7 DEF IsBlockComment
<1> QED
  BY <1>2, <1>8

-----------------------------------------------------------------------------
(* Gaps: they stay gaps as reports are added, and grow piece by piece.     *)
LEMMA SkipsStay ==
  ASSUME source' = source, errors \subseteq errors', NEW i, NEW k, Skips(i, k)
  PROVE  Skips(i, k)'
BY DEF Skips, IsCommentTo, EndOfSource, Piece

(* A gap stays one as reports are added.                                   *)
LEMMA GapStays ==
  ASSUME source' = source, errors \subseteq errors', NEW i, NEW j, IsGap(i, j)
  PROVE  IsGap(i, j)'
<1>1. \A a, b : Skips(a, b) => Skips(a, b)'
  BY SkipsStay
<1> QED
  BY <1>1, Zenon DEF IsGap

(* A gap and one more blank, comment or stray character make a gap.        *)
LEMMA GapGrows ==
  ASSUME source' = source, errors \subseteq errors',
         NEW i \in Nat, NEW j \in Nat, NEW k \in Nat, i <= j, j < k,
         IsGap(i, j), Skips(j, k)'
  PROVE  IsGap(i, k)'
<1>1. \A a, b : Skips(a, b) => Skips(a, b)'
  BY SkipsStay
<1>2. CASE i = j
  <2>1. \A a, b \in {i, k} \cup {} : a < b => a = i /\ b = k
    BY <1>2
  <2>2. {} \in SUBSET ((i + 1)..(k - 1))
    OBVIOUS
  <2>3. \A a, b \in {i, k} \cup {} :
          a < b /\ (\A c \in {i, k} \cup {} : c <= a \/ b <= c) => Skips(a, b)'
    BY <1>2, <2>1, Zenon
  <2> QED
    BY <2>2, <2>3, Zenon DEF IsGap
<1>3. CASE i < j
  <2>1. PICK inner \in SUBSET ((i + 1)..(j - 1)) :
          \A a, b \in {i, j} \cup inner :
            a < b /\ (\A c \in {i, j} \cup inner : c <= a \/ b <= c) => Skips(a, b)
    BY <1>3 DEF IsGap
  <2>2. inner \cup {j} \in SUBSET ((i + 1)..(k - 1))
    BY <1>3
  <2>3. ASSUME NEW a \in {i, k} \cup (inner \cup {j}), NEW b \in {i, k} \cup (inner \cup {j}),
               a < b, \A c \in {i, k} \cup (inner \cup {j}) : c <= a \/ b <= c
        PROVE  Skips(a, b)'
    <3>1. \A c \in {i, j} \cup inner : c \in i..j
      BY <1>3
    <3>2. CASE b = k
      <4>1. j <= a
        BY <2>3, <3>2
      <4>2. a = j
        BY <2>3, <3>1, <3>2, <4>1
      <4> QED
        BY <3>2, <4>2
    <3>3. CASE b # k
      <4>1. b \in {i, j} \cup inner /\ b \in i..j
        BY <3>1, <3>3
      <4>2. a \in {i, j} \cup inner
        BY <2>3, <3>1, <4>1
      <4> QED
        BY <1>1, <2>1, <2>3, <4>1, <4>2
    <3> QED
      BY <3>2, <3>3
  <2> QED
    BY <2>2, <2>3 DEF IsGap
<1> QED
  BY <1>2, <1>3

-----------------------------------------------------------------------------
(* What a scanner, or the comment skipper, knows in the middle of its work *)
EndBefore(i) == IF i = 1 THEN 1 ELSE tokens[i - 1].to
LastEnd == EndBefore(Len(tokens) + 1)

GapTo(i) == \E n \in Nat : n = LastEnd /\ n <= i /\ IsGap(n, i)

TokenRight(t) == t.type # "eof" => t.from \in errors \/ IsLongest(t)

SplitAt(i) ==
  \E a \in Nat, t \in Token, b \in Nat :
    /\ a = EndBefore(i) /\ t = tokens[i] /\ b = t.from
    /\ IsGap(a, b) /\ TokenRight(t)

TokensSplit == \A i \in DOMAIN tokens : SplitAt(i)

AllDeserved == \A e \in errors : Deserved(e)

InLineComment ==
  \E c \in 1..idx :
    /\ GapTo(c) /\ c + 1 <= Len(source) /\ source[c] = "/" /\ source[c + 1] = "/"
    /\ idx <= EndOfSource
    /\ \A p \in c..(idx - 1) : source[p] # "\n"

InBlockComment ==
  \E c \in 1..idx :
    /\ GapTo(c) /\ c + 2 <= idx /\ idx <= EndOfSource
    /\ source[c] = "/" /\ source[c + 1] = "*"
    /\ \A p \in (c + 2)..(idx - 1) : ~(source[p] = "*" /\ CharAt(p + 1) = "/")

ScannedWord(s) ==
  /\ idx <= EndOfSource /\ source[s] \in Letters
  /\ \A p \in s..(idx - 1) : source[p] \in Letters \cup Digits
  /\ text = Piece(s, idx)

ScannedInteger(s) ==
  /\ idx <= EndOfSource /\ source[s] \in Digits
  /\ \A p \in s..(idx - 1) : source[p] \in Digits
  /\ text = Piece(s, idx)

ScannedFraction(s) ==
  /\ idx <= EndOfSource /\ text = Piece(s, idx)
  /\ \E d \in (s + 1)..(idx - 1) :
       /\ source[d] = "." /\ d + 1 <= Len(source) /\ source[d + 1] \in Digits
       /\ \A p \in s..(idx - 1) : p # d => source[p] \in Digits

ScannedString(s) ==
  /\ source[s] = Quote /\ s < idx
  /\ IF idx <= EndOfSource THEN StringSoFar(Piece(s, idx), text)
                           ELSE QuotesEscaped(Piece(s, EndOfSource))

ScannedChar(s) ==
  /\ source[s] = "'"
  /\ \/ /\ idx = s + 3 /\ s + 1 <= Len(source) /\ source[s + 1] = "\\"
        /\ text = <<Decoded(CharAt(s + 2))>>
     \/ /\ idx = s + 2 /\ s + 1 <= Len(source) /\ source[s + 1] # "\\"
        /\ text = <<source[s + 1]>>
     \/ idx = s + 1 /\ s = Len(source)

ScannedFrom(s) ==
  /\ GapTo(s) /\ s <= Len(source)
  /\ mode = "word" => ScannedWord(s)
  /\ mode = "integer" => ScannedInteger(s)
  /\ mode = "fraction" => ScannedFraction(s)
  /\ mode = "string" => ScannedString(s)
  /\ mode = "char" => source[s] = "'" /\ idx = s + 1 /\ text = <<>>
  /\ mode = "char end" => ScannedChar(s)

InProgress ==
  /\ mode = "between" => \E i \in Nat : i = idx /\ GapTo(i)
  /\ mode = "line comment" => InLineComment
  /\ mode = "block comment" => InBlockComment
  /\ mode \in Scanning => \E s \in Nat : s = start.at /\ ScannedFrom(s)

SplitInv == TokensSplit /\ AllDeserved /\ InProgress

-----------------------------------------------------------------------------
(* What has been split stays split.                                        *)
LEMMA LongestStays ==
  ASSUME source' = source, NEW t, IsLongest(t)
  PROVE  IsLongest(t)'
BY DEF IsLongest, Piece, EndOfSource

(* So is a token that is the longest, or reported,                         *)
LEMMA RightStays ==
  ASSUME source' = source, errors \subseteq errors', NEW t, TokenRight(t)
  PROVE  TokenRight(t)'
BY LongestStays DEF TokenRight

(* and a report that is deserved.                                          *)
LEMMA DeservedStays ==
  ASSUME source' = source, NEW e, Deserved(e)
  PROVE  Deserved(e)'
BY DEF Deserved, Piece, EndOfSource

(* A step without a report,                                                *)
LEMMA ReportsStay ==
  ASSUME source' = source, AllDeserved, errors' = errors
  PROVE  AllDeserved'
<1>1. \A e \in errors : Deserved(e)'
  BY DeservedStays DEF AllDeserved
<1> QED
  BY <1>1 DEF AllDeserved

(* and one with a report that is deserved.                                 *)
LEMMA ReportAdded ==
  ASSUME source' = source, AllDeserved, NEW e, errors' = errors \cup {e}, Deserved(e)
  PROVE  AllDeserved'
<1>1. \A d \in errors' : Deserved(d)'
  BY DeservedStays DEF AllDeserved
<1> QED
  BY <1>1 DEF AllDeserved

(* A step that adds no token.                                              *)
LEMMA SplitStays ==
  ASSUME source' = source, tokens' = tokens, errors \subseteq errors'
  PROVE  /\ TokensSplit => TokensSplit'
         /\ LastEnd' = LastEnd
         /\ \A i : GapTo(i) => GapTo(i)'
<1>1. \A i : EndBefore(i)' = EndBefore(i)
  BY DEF EndBefore
<1>2. LastEnd' = LastEnd
  BY DEF LastEnd, EndBefore
<1>3. \A i, j : IsGap(i, j) => IsGap(i, j)'
  BY GapStays
<1>4. ASSUME NEW i, GapTo(i)
      PROVE  GapTo(i)'
  <2>1. PICK n \in Nat : n = LastEnd /\ n <= i /\ IsGap(n, i)
    BY <1>4 DEF GapTo
  <2>2. IsGap(n, i)'
    BY <1>3, <2>1
  <2> QED
    BY <1>2, <2>1, <2>2 DEF GapTo
<1>5. ASSUME TokensSplit
      PROVE  TokensSplit'
  <2> SUFFICES ASSUME NEW i \in DOMAIN tokens
               PROVE  SplitAt(i)'
    BY DEF TokensSplit
  <2>1. PICK x \in Nat, t \in Token, b \in Nat :
               /\ x = EndBefore(i) /\ t = tokens[i] /\ b = t.from
               /\ IsGap(x, b) /\ TokenRight(t)
    BY <1>5 DEF TokensSplit, SplitAt
  <2>2. IsGap(x, b)' /\ TokenRight(t)'
    BY <1>3, <2>1, RightStays
  <2> QED
    BY <1>1, <2>1, <2>2 DEF SplitAt
<1> QED
  BY <1>2, <1>4, <1>5
(* A step that skips something.                                            *)
LEMMA GapWidens ==
  ASSUME source' = source, tokens' = tokens, errors \subseteq errors',
         NEW j \in Nat, NEW k \in Nat, GapTo(j), j < k, Skips(j, k)'
  PROVE  GapTo(k)'
<1>1. PICK n \in Nat : n = LastEnd /\ n <= j /\ IsGap(n, j)
  BY DEF GapTo
<1>2. IsGap(n, k)'
  BY <1>1, GapGrows
<1>3. n = LastEnd' /\ n <= k
  BY <1>1, SplitStays
<1> QED
  BY <1>2, <1>3 DEF GapTo

(* A token that is added follows a gap.                                    *)
LEMMA TokenSplit ==
  ASSUME TypeOK, source' = source, errors \subseteq errors', TokensSplit,
         NEW t \in Token, tokens' = Append(tokens, t), NEW f, f = t.from, GapTo(f),
         TokenRight(t)', NEW e \in Nat, e = t.to
  PROVE  TokensSplit' /\ GapTo(e)'
<1>1. tokens \in Seq(Token) /\ Len(tokens) \in Nat /\ DOMAIN tokens = 1..Len(tokens)
  BY DEF TypeOK
<1>2. PICK n \in Nat : n = Len(tokens)
  BY <1>1
<1>3. /\ DOMAIN tokens' = 1..(n + 1) /\ Len(tokens') = n + 1
      /\ tokens'[n + 1] = t /\ \A i \in 1..n : tokens'[i] = tokens[i]
  BY <1>1, <1>2
<1>4. \A i \in 1..(n + 1) : EndBefore(i)' = EndBefore(i)
  <2> SUFFICES ASSUME NEW i \in 1..(n + 1), i # 1
               PROVE  tokens'[i - 1].to = tokens[i - 1].to
    BY DEF EndBefore
  <2>1. i - 1 \in 1..n
    BY <1>2
  <2> QED
    BY <1>3, <2>1
<1>5. LastEnd' = e
  <2>1. PICK m \in Nat : m = n + 1
    BY <1>2
  <2>2. m + 1 # 1 /\ m + 1 - 1 = m
    BY <1>2, <2>1
  <2>3. Len(tokens') = m /\ tokens'[m] = t
    BY <1>3, <2>1
  <2> QED
    BY <2>2, <2>3 DEF LastEnd, EndBefore
<1>6. IsGap(e, e)'
  BY DEF IsGap
<1>7. GapTo(e)'
  BY <1>5, <1>6 DEF GapTo
<1>8. ASSUME NEW i \in 1..(n + 1)
      PROVE  SplitAt(i)'
  <2>1. CASE i = n + 1
    <3>1. PICK a \in Nat : a = LastEnd /\ a <= f /\ IsGap(a, f)
      BY DEF GapTo
    <3>2. IsGap(a, f)' /\ a = EndBefore(i)'
      BY <1>2, <1>4, <2>1, <3>1, GapStays DEF LastEnd
    <3>3. f \in Nat /\ t = tokens'[i]
      BY <1>3, <2>1 DEF Token
    <3> QED
      BY <3>2, <3>3 DEF SplitAt
  <2>2. CASE i # n + 1
    <3>1. i \in 1..n
      BY <2>2
    <3>2. PICK a \in Nat, u \in Token, b \in Nat :
                 /\ a = EndBefore(i) /\ u = tokens[i] /\ b = u.from
                 /\ IsGap(a, b) /\ TokenRight(u)
      BY <1>1, <1>2, <3>1 DEF TokensSplit, SplitAt
    <3>3. IsGap(a, b)' /\ TokenRight(u)'
      BY <3>2, GapStays, RightStays
    <3>4. a = EndBefore(i)' /\ u = tokens'[i]
      BY <1>3, <1>4, <3>1, <3>2
    <3> QED
      BY <3>2, <3>3, <3>4 DEF SplitAt
  <2> QED
    BY <2>1, <2>2
<1> QED
  BY <1>3, <1>7, <1>8 DEF TokensSplit

-----------------------------------------------------------------------------
(* One lemma per step.                                                     *)
LEMMA NowBetween ==
  ASSUME mode' = "between", NEW i \in Nat, i = idx', GapTo(i)'
  PROVE  InProgress'
BY DEF InProgress, Scanning

(* What the type invariant says of the source and the cursor.              *)
LEMMA Cursor ==
  ASSUME TypeOK
  PROVE  /\ source \in Seq(Characters) /\ Len(source) \in Nat /\ idx \in Nat \ {0}
         /\ start.at \in Nat \ {0} /\ start.at <= idx
         /\ EndOfSource = Len(source) + 1
         /\ text \in Seq(Characters)
BY DEF TypeOK, EndOfSource

(* The character at the cursor.                                            *)
LEMMA CharHere ==
  ASSUME TypeOK, NEW n, n = idx
  PROVE  /\ AtEnd <=> n > Len(source)
         /\ ~AtEnd => n <= Len(source) /\ Char = source[n] /\ Char \in Characters
         /\ Char = CharAt(n)
<1>1. n \in Nat /\ Len(source) \in Nat /\ source \in Seq(Characters) /\ n # 0
  BY Cursor
<1>2. n <= Len(source) => source[n] \in Characters
  BY <1>1
<1> QED
  BY <1>1, <1>2 DEF AtEnd, Char, CharAt

(* skipWhitespaceAndComments(): a blank joins the gap.                     *)
LEMMA BlankSplits ==
  ASSUME TypeOK, SplitInv, Blank
  PROVE  SplitInv'
<1>1. PICK n \in Nat \ {0} : n = idx
  BY Cursor
<1>2. /\ mode' = "between" /\ idx' = n + 1 /\ source' = source /\ tokens' = tokens
      /\ errors' = errors /\ n <= Len(source) /\ source[n] \in Spaces
  BY <1>1, Cursor DEF Blank, Advance, AtEnd, Char, CharAt, output
<1>3. GapTo(n)
  BY <1>1 DEF SplitInv, InProgress, Blank
<1>4. PICK m \in Nat : m = n + 1
  OBVIOUS
<1>5. Skips(n, m)'
  BY <1>2, <1>4 DEF Skips
<1>6. GapTo(m)'
  BY <1>2, <1>3, <1>4, <1>5, GapWidens
<1>7. InProgress'
  BY <1>2, <1>4, <1>6, NowBetween
<1> QED
  BY <1>2, <1>7, SplitStays, ReportsStay DEF SplitInv

(* A comment begins; it is not in the gap before it has ended.             *)
LEMMA BeginCommentSplits ==
  ASSUME TypeOK, SplitInv, BeginComment
  PROVE  SplitInv'
<1>1. PICK n \in Nat \ {0} : n = idx
  BY Cursor
<1>2. /\ source' = source /\ tokens' = tokens /\ errors' = errors /\ n <= Len(source)
      /\ source[n] = "/" /\ mode = "between"
  BY <1>1, CharHere DEF BeginComment, output
<1>3. GapTo(n)'
  <2>1. GapTo(n)
    BY <1>1, <1>2 DEF SplitInv, InProgress
  <2> QED
    BY <1>2, <2>1, SplitStays
<1>4. \A c \in {"/", "*"} : CharAt(n + 1) = c => n + 1 <= Len(source) /\ source[n + 1] = c
  BY Cursor, CharactersRead DEF CharAt, Nul
<1>5. InProgress'
  <2>1. CASE CharAt(idx + 1) = "/" /\ mode' = "line comment" /\ Stay
    <3>1. n + 1 <= Len(source) /\ source[n + 1] = "/" /\ idx' = n
      BY <1>1, <1>4, <2>1 DEF Stay
    <3>2. n \in 1..n /\ \A p \in n..(n - 1) : FALSE
      OBVIOUS
    <3>3. InLineComment'
      BY <1>2, <1>3, <3>1, <3>2, Cursor DEF InLineComment, EndOfSource
    <3> QED
      BY <2>1, <3>3 DEF InProgress, Scanning
  <2>2. CASE CharAt(idx + 1) = "*" /\ mode' = "block comment" /\ AdvanceTwice
    <3>1. n + 1 <= Len(source) /\ source[n + 1] = "*" /\ idx' = n + 2
      BY <1>1, <1>4, <2>2 DEF AdvanceTwice
    <3>2. n \in 1..(n + 2) /\ \A p \in (n + 2)..(n + 2 - 1) : FALSE
      OBVIOUS
    <3>3. InBlockComment'
      BY <1>2, <1>3, <3>1, <3>2, Cursor DEF InBlockComment, EndOfSource
    <3> QED
      BY <2>2, <3>3 DEF InProgress, Scanning
  <2> QED
    BY <2>1, <2>2 DEF BeginComment
<1> QED
  BY <1>2, <1>5, SplitStays, ReportsStay DEF SplitInv

(* Inside a comment nothing has closed it yet.                             *)
LEMMA InCommentSplits ==
  ASSUME TypeOK, SplitInv, InComment
  PROVE  SplitInv'
<1>1. PICK n \in Nat \ {0} : n = idx
  BY Cursor
<1>2. /\ source' = source /\ tokens' = tokens /\ errors' = errors /\ n <= Len(source)
      /\ mode' = mode /\ idx' = n + 1 /\ Char = source[n]
  BY <1>1, CharHere DEF InComment, Advance, output
<1>3. \A c : GapTo(c) => GapTo(c)'
  BY <1>2, SplitStays
<1>4. InProgress'
  <2>1. CASE mode = "line comment" /\ Char # "\n"
    <3>1. PICK c \in 1..n :
            /\ GapTo(c) /\ c + 1 <= Len(source) /\ source[c] = "/" /\ source[c + 1] = "/"
            /\ \A p \in c..(n - 1) : source[p] # "\n"
      BY <1>1, <2>1 DEF SplitInv, InProgress, InLineComment
    <3>2. c \in 1..(n + 1) /\ \A p \in c..(n + 1 - 1) : p \in c..(n - 1) \/ p = n
      OBVIOUS
    <3>3. \A p \in c..(n + 1 - 1) : source'[p] # "\n"
      BY <1>2, <2>1, <3>1, <3>2
    <3>4. n + 1 <= Len(source) + 1
      BY <1>2, Cursor
    <3>5. InLineComment'
      BY <1>2, <1>3, <3>1, <3>2, <3>3, <3>4 DEF InLineComment, EndOfSource
    <3> QED
      BY <1>2, <2>1, <3>5 DEF InProgress, Scanning
  <2>2. CASE mode = "block comment" /\ ~AtBlockEnd
    <3>1. PICK c \in 1..n :
            /\ GapTo(c) /\ c + 2 <= n /\ source[c] = "/" /\ source[c + 1] = "*"
            /\ \A p \in (c + 2)..(n - 1) : ~(source[p] = "*" /\ CharAt(p + 1) = "/")
      BY <1>1, <2>2 DEF SplitInv, InProgress, InBlockComment
    <3>2. c \in 1..(n + 1) /\ \A p \in (c + 2)..(n + 1 - 1) : p \in (c + 2)..(n - 1) \/ p = n
      OBVIOUS
    <3>3. \A p : CharAt(p)' = CharAt(p)
      BY <1>2 DEF CharAt
    <3>4. ~(source[n] = "*" /\ CharAt(n + 1) = "/")
      BY <1>1, <1>2, <2>2 DEF AtBlockEnd
    <3>5. \A p \in (c + 2)..(n + 1 - 1) : ~(source[p] = "*" /\ CharAt(p + 1) = "/")
      BY <3>1, <3>2, <3>4
    <3>6. \A p \in (c + 2)..(n + 1 - 1) : ~(source'[p] = "*" /\ CharAt(p + 1)' = "/")
      BY <1>2, <3>5 DEF CharAt
    <3>7. InBlockComment'
      BY <1>2, <1>3, <3>1, <3>2, <3>6, Cursor DEF InBlockComment, EndOfSource
    <3> QED
      BY <1>2, <2>2, <3>7 DEF InProgress, Scanning
  <2> QED
    BY <2>1, <2>2 DEF InComment
<1> QED
  BY <1>2, <1>4, SplitStays, ReportsStay DEF SplitInv

(* A line comment ends before the line feed, and joins the gap.            *)
LEMMA EndLineCommentSplits ==
  ASSUME TypeOK, SplitInv, EndLineComment
  PROVE  SplitInv'
<1>1. PICK n \in Nat \ {0} : n = idx
  BY Cursor
<1>2. /\ source' = source /\ tokens' = tokens /\ errors' = errors
      /\ mode = "line comment" /\ mode' = "between" /\ idx' = n
      /\ n > Len(source) \/ (n <= Len(source) /\ source[n] = "\n")
  BY <1>1, CharHere DEF EndLineComment, output
<1>3. PICK c \in 1..n :
        /\ GapTo(c) /\ c + 1 <= Len(source) /\ source[c] = "/" /\ source[c + 1] = "/"
        /\ n <= EndOfSource
        /\ \A p \in c..(n - 1) : source[p] # "\n"
  BY <1>1, <1>2 DEF SplitInv, InProgress, InLineComment
<1>4. c + 2 <= n /\ c \in Nat \ {0} /\ c < n
  <2>1. PICK l \in Nat : l = Len(source)
    BY Cursor
  <2>2. c + 1 <= l /\ (n > l \/ source[n] = "\n")
    BY <1>2, <1>3, <2>1
  <2>3. source[c] # "\n" /\ source[c + 1] # "\n"
    BY <1>3
  <2>4. n # c /\ n # c + 1
    BY <2>2, <2>3
  <2> QED
    BY <2>4
<1>5. IsLineComment(Piece(c, n))
  BY <1>3, <1>4, Cursor, LineCommentEnds
<1>6. n = EndOfSource \/ source[n] = "\n"
  <2>1. PICK l \in Nat : l = Len(source)
    BY Cursor
  <2>2. n <= l + 1 /\ (n > l \/ source[n] = "\n")
    BY <1>2, <1>3, <2>1 DEF EndOfSource
  <2> QED
    BY <2>1, <2>2 DEF EndOfSource
<1>7. Skips(c, n)'
  <2>1. Skips(c, n)
    BY <1>4, <1>5, <1>6 DEF Skips, IsCommentTo
  <2> QED
    BY <1>2, <2>1, SkipsStay
<1>8. GapTo(n)'
  BY <1>2, <1>3, <1>4, <1>7, GapWidens
<1>9. InProgress'
  BY <1>2, <1>8, NowBetween
<1> QED
  BY <1>2, <1>9, SplitStays, ReportsStay DEF SplitInv

(* A block comment ends behind its mark, or open, with a report.           *)
LEMMA EndBlockCommentSplits ==
  ASSUME TypeOK, SplitInv, EndBlockComment
  PROVE  SplitInv'
<1>1. PICK n \in Nat \ {0} : n = idx
  BY Cursor
<1>2. /\ source' = source /\ tokens' = tokens
      /\ mode = "block comment" /\ mode' = "between"
  BY DEF EndBlockComment
<1>3. PICK c \in 1..n :
        /\ GapTo(c) /\ c + 2 <= n /\ n <= EndOfSource
        /\ source[c] = "/" /\ source[c + 1] = "*"
        /\ \A p \in (c + 2)..(n - 1) : ~(source[p] = "*" /\ CharAt(p + 1) = "/")
  BY <1>1, <1>2 DEF SplitInv, InProgress, InBlockComment
<1>6. c \in Nat \ {0} /\ c < n
  BY <1>3
<1>7. AtEnd => n = EndOfSource
  BY <1>1, <1>3, CharHere, Cursor
<1>4. CASE AtEnd
  <2>1. errors' = errors \cup {n} /\ idx' = n /\ n = EndOfSource
    BY <1>1, <1>4, <1>7 DEF EndBlockComment, ReportAt, Stay
  <2>2. Deserved(n)
    <3>1. \A k \in (n + 1)..n : FALSE
      OBVIOUS
    <3> QED
      BY <2>1, <3>1 DEF Deserved
  <2>3. Skips(c, n)'
    BY <1>2, <1>3, <2>1 DEF Skips, IsCommentTo, EndOfSource
  <2>4. GapTo(n)'
    BY <1>2, <1>3, <1>6, <2>1, <2>3, GapWidens
  <2>5. InProgress'
    BY <1>2, <2>1, <2>4, NowBetween
  <2> QED
    BY <1>2, <2>1, <2>2, <2>5, SplitStays, ReportAdded DEF SplitInv
<1>5. CASE ~AtEnd
  <2>1. /\ errors' = errors /\ idx' = n + 2 /\ n <= Len(source)
        /\ source[n] = "*" /\ CharAt(n + 1) = "/"
    BY <1>1, <1>5, CharHere DEF EndBlockComment, AdvanceTwice, AtBlockEnd
  <2>2. n + 1 <= Len(source) /\ source[n + 1] = "/"
    BY <2>1, Cursor, CharactersRead DEF CharAt, Nul
  <2>3. \A p \in (c + 2)..(n - 1) : ~(source[p] = "*" /\ source[p + 1] = "/")
    <3>1. \A p \in (c + 2)..(n - 1) : CharAt(p + 1) = source[p + 1]
      BY <2>1, Cursor DEF CharAt
    <3> QED
      BY <1>3, <3>1
  <2>4. IsBlockComment(Piece(c, n + 2))
    BY <1>3, <2>1, <2>2, <2>3, Cursor, BlockCommentEnds
  <2>5. PICK m \in Nat : m = n + 2 /\ c < m
    BY <1>6
  <2>6. Skips(c, m)'
    <3>1. Skips(c, m)
      BY <1>3, <2>4, <2>5 DEF Skips, IsCommentTo
    <3> QED
      BY <1>2, <2>1, <3>1, SkipsStay
  <2>7. GapTo(m)'
    BY <1>2, <1>3, <1>6, <2>1, <2>5, <2>6, GapWidens
  <2>8. InProgress'
    BY <1>2, <2>1, <2>5, <2>7, NowBetween
  <2> QED
    BY <1>2, <2>1, <2>8, SplitStays, ReportsStay DEF SplitInv
<1> QED
  BY <1>4, <1>5

(* The scanners.                                                           *)
LEMMA NowScanning ==
  ASSUME mode' \in Scanning, NEW s \in Nat, s = start'.at, ScannedFrom(s)'
  PROVE  InProgress'
BY DEF InProgress, Scanning

(* A token that is pushed, by its parts.                                   *)
LEMMA PushTyped ==
  ASSUME TypeOK, TypeOK', NEW t, tokens' = Append(tokens, t)
  PROVE  t \in Token
<1>1. tokens' \in Seq(Token) /\ tokens \in Seq(Token)
  BY DEF TypeOK
<1>2. tokens'[Len(tokens) + 1] = t /\ Len(tokens) + 1 \in 1..Len(tokens')
  BY <1>1
<1> QED
  BY <1>1, <1>2

(* What makes a text a lexeme of each kind.                                *)
LEMMA KindsOf ==
  ASSUME NEW w
  PROVE  /\ IsWord(w) => "word" \in LexemeKinds(w)
         /\ IsInt(w) => "int" \in LexemeKinds(w)
         /\ IsFloat(w) => "float" \in LexemeKinds(w)
         /\ IsString(w) => "string" \in LexemeKinds(w)
         /\ IsChar(w) => "char" \in LexemeKinds(w)
         /\ w \in OperatorTexts => "operator" \in LexemeKinds(w)
BY DEF LexemeKinds

(* decodeEscape() does what the grammar says of escapes.                   *)
LEMMA EscapesDecoded ==
  ASSUME NEW c
  PROVE  Decoded(c) = Unescaped(c)
BY DEF Decoded, Unescaped, Nul

(* The end of file comes after a gap.                                      *)
LEMMA FinishSplits ==
  ASSUME TypeOK, TypeOK', SplitInv, Finish
  PROVE  SplitInv'
<1>1. PICK n \in Nat \ {0} : n = idx
  BY Cursor
<1>2. /\ source' = source /\ errors' = errors /\ mode = "between" /\ mode' = "done"
  BY DEF Finish
<1>3. GapTo(n)
  BY <1>1, <1>2 DEF SplitInv, InProgress
<1>4. PICK t : tokens' = Append(tokens, t) /\ t.type = "eof" /\ t.from = n /\ t.to = n
  BY <1>1 DEF Finish, Push, Here
<1>5. t \in Token
  BY <1>4, PushTyped
<1>6. TokenRight(t)'
  BY <1>4 DEF TokenRight
<1>7. TokensSplit'
  BY <1>2, <1>3, <1>4, <1>5, <1>6, TokenSplit DEF SplitInv
<1>8. InProgress'
  BY <1>2 DEF InProgress, Scanning
<1> QED
  BY <1>2, <1>7, <1>8, ReportsStay DEF SplitInv

(* A scanner begins where the gap ends.                                    *)
LEMMA BeginTokenSplits ==
  ASSUME TypeOK, SplitInv, BeginToken
  PROVE  SplitInv'
<1>1. PICK n \in Nat \ {0} : n = idx
  BY Cursor
<1>2. /\ source' = source /\ errors' = errors /\ tokens' = tokens /\ mode = "between"
      /\ n <= Len(source) /\ source[n] = Char /\ text' = <<>> /\ start'.at = n
      /\ mode' \in Scanning
  <2>1. /\ source' = source /\ errors' = errors /\ tokens' = tokens /\ mode = "between"
        /\ ~AtEnd
    BY DEF BeginToken, output
  <2>2. \E m \in Scanning : Begin(m)
    BY DEF BeginToken, Scanning
  <2>3. text' = <<>> /\ start'.at = n /\ mode' \in Scanning
    BY <1>1, <2>2 DEF Begin, Here
  <2> QED
    BY <1>1, <2>1, <2>3, CharHere
<1>3. GapTo(n)'
  <2>1. GapTo(n)
    BY <1>1, <1>2 DEF SplitInv, InProgress
  <2> QED
    BY <1>2, <2>1, SplitStays
<1>4. n \in Nat /\ n <= Len(source') /\ EndOfSource' = Len(source) + 1 /\ n <= Len(source) + 1
  BY <1>2, Cursor DEF EndOfSource
<1>5. Piece(n, n)' = <<>> /\ \A p \in n..(n - 1) : FALSE
  <2>1. Piece(n, n) = <<>>
    BY Cursor DEF Piece
  <2> QED
    BY <1>2, <2>1 DEF Piece
<1>6. ScannedFrom(n)'
  <2>1. CASE Char \in Letters /\ Begin("word") /\ Stay
    <3>1. mode' = "word" /\ idx' = n
      BY <1>1, <2>1 DEF Begin, Stay
    <3>2. ScannedWord(n)'
      BY <1>2, <1>4, <1>5, <2>1, <3>1 DEF ScannedWord, Piece
    <3> QED
      BY <1>3, <1>4, <3>1, <3>2 DEF ScannedFrom
  <2>2. CASE Char \in Digits /\ Begin("integer") /\ Stay
    <3>1. mode' = "integer" /\ idx' = n
      BY <1>1, <2>2 DEF Begin, Stay
    <3>2. ScannedInteger(n)'
      BY <1>2, <1>4, <1>5, <2>2, <3>1 DEF ScannedInteger, Piece
    <3> QED
      BY <1>3, <1>4, <3>1, <3>2 DEF ScannedFrom
  <2>3. CASE Char = Quote /\ Begin("string") /\ Advance
    <3>1. mode' = "string" /\ idx' = n + 1
      BY <1>1, <2>3 DEF Begin, Advance
    <3>2. PICK w : w = Piece(n, n + 1)
      OBVIOUS
    <3>3. w = <<Quote>>
      <4>1. w \in Seq(Characters) /\ Len(w) = 1 /\ w[1] = source[n]
        <5>1. source \in Seq(Characters) /\ n < n + 1 /\ n + 1 <= EndOfSource
          BY <1>2, Cursor
        <5>2. IsPiece(w, n, n + 1)
          BY <3>2, <5>1, PieceAt
        <5> QED
          BY <5>2, n + 1 - n = 1 DEF IsPiece
      <4> QED
        BY <1>2, <2>3, <4>1
    <3>4. StringSoFar(w, text')
      BY <1>2, <3>3, QuoteRead
    <3>5. Piece(n, idx)' = w
      BY <1>2, <3>1, <3>2 DEF Piece
    <3>6. n < idx' /\ idx' <= EndOfSource'
      BY <1>2, <1>4, <3>1, Cursor
    <3>7. ScannedString(n)'
      BY <1>2, <2>3, <3>4, <3>5, <3>6 DEF ScannedString, EndOfSource
    <3> QED
      BY <1>3, <1>4, <3>1, <3>7 DEF ScannedFrom
  <2>4. CASE Char = "'" /\ Begin("char") /\ Advance
    <3>1. mode' = "char" /\ idx' = n + 1
      BY <1>1, <2>4 DEF Begin, Advance
    <3> QED
      BY <1>2, <1>3, <1>4, <2>4, <3>1 DEF ScannedFrom
  <2> QED
    BY <2>1, <2>2, <2>3, <2>4 DEF BeginToken
<1>7. InProgress'
  BY <1>2, <1>6, NowScanning
<1> QED
  BY <1>2, <1>7, SplitStays, ReportsStay DEF SplitInv

(* Where a scanner is, and what it has.                                    *)
LEMMA Underway ==
  ASSUME TypeOK, SplitInv, mode \in Scanning
  PROVE  \E s \in Nat \ {0}, n \in Nat \ {0}, l \in Nat :
           /\ s = start.at /\ n = idx /\ l = Len(source) /\ s <= n /\ s <= l
           /\ GapTo(s) /\ ScannedFrom(s)
<1>1. PICK s \in Nat : s = start.at /\ ScannedFrom(s)
  BY DEF SplitInv, InProgress
<1>2. s \in Nat \ {0} /\ s <= idx /\ idx \in Nat \ {0} /\ Len(source) \in Nat
  BY <1>1, Cursor
<1> QED
  BY <1>1, <1>2 DEF ScannedFrom

(* One more character of a word or a number.                               *)
LEMMA MoreSplits ==
  ASSUME TypeOK, SplitInv, More
  PROVE  SplitInv'
<1>0. mode \in Scanning
  BY DEF More, Scanning
<1>1. PICK s \in Nat \ {0}, n \in Nat \ {0}, l \in Nat :
             /\ s = start.at /\ n = idx /\ l = Len(source) /\ s <= n /\ s <= l
             /\ GapTo(s) /\ ScannedFrom(s)
  BY <1>0, Underway
<1>2. /\ source' = source /\ errors' = errors /\ tokens' = tokens /\ start' = start
      /\ n <= l /\ source[n] = Char /\ text' = Append(text, Char) /\ idx' = n + 1
      /\ mode' \in Scanning
  BY <1>1, CharHere DEF More, Advance, output, Scanning
<1>3. GapTo(s)' /\ s <= Len(source')
  BY <1>1, <1>2, SplitStays
<1>4. n + 1 <= EndOfSource' /\ EndOfSource = l + 1 /\ n <= EndOfSource
  BY <1>1, <1>2 DEF EndOfSource
<1>5. ASSUME text = Piece(s, n)
      PROVE  text' = Piece(s, idx)'
  <2>1. Piece(s, n + 1) = Append(Piece(s, n), source[n])
    BY <1>1, <1>2, Cursor, PieceGrows
  <2> QED
    BY <1>2, <1>5, <2>1 DEF Piece
<1>6. \A p \in s..(n + 1 - 1) : p \in s..(n - 1) \/ p = n
  OBVIOUS
<1>7. ScannedFrom(s)'
  <2>1. CASE mode = "word" /\ InWord(Char) /\ UNCHANGED mode
    <3>1. /\ source[s] \in Letters /\ text = Piece(s, n)
          /\ \A p \in s..(n - 1) : source[p] \in Letters \cup Digits
      BY <1>1, <2>1 DEF ScannedFrom, ScannedWord
    <3>2. source[n] \in Letters \cup Digits
      BY <1>2, <2>1 DEF InWord
    <3>3. \A p \in s..(n + 1 - 1) : source[p] \in Letters \cup Digits
      BY <1>6, <3>1, <3>2
    <3>4. ScannedWord(s)'
      BY <1>2, <1>4, <1>5, <3>1, <3>3 DEF ScannedWord, EndOfSource
    <3> QED
      BY <1>3, <2>1, <3>4 DEF ScannedFrom
  <2>2. CASE mode = "integer" /\ Char \in Digits /\ UNCHANGED mode
    <3>1. /\ source[s] \in Digits /\ text = Piece(s, n)
          /\ \A p \in s..(n - 1) : source[p] \in Digits
      BY <1>1, <2>2 DEF ScannedFrom, ScannedInteger
    <3>3. \A p \in s..(n + 1 - 1) : source[p] \in Digits
      BY <1>2, <1>6, <2>2, <3>1
    <3>4. ScannedInteger(s)'
      BY <1>2, <1>4, <1>5, <3>1, <3>3 DEF ScannedInteger, EndOfSource
    <3> QED
      BY <1>3, <2>2, <3>4 DEF ScannedFrom
  <2>3. CASE mode = "fraction" /\ Char \in Digits /\ UNCHANGED mode
    <3>1. text = Piece(s, n)
      BY <1>1, <2>3 DEF ScannedFrom, ScannedFraction
    <3>2. PICK d \in (s + 1)..(n - 1) :
            /\ source[d] = "." /\ d + 1 <= Len(source) /\ source[d + 1] \in Digits
            /\ \A p \in s..(n - 1) : p # d => source[p] \in Digits
      BY <1>1, <2>3 DEF ScannedFrom, ScannedFraction
    <3>3. \A p \in s..(n + 1 - 1) : p # d => source[p] \in Digits
      BY <1>2, <1>6, <2>3, <3>2
    <3>4. d \in (s + 1)..(n + 1 - 1)
      OBVIOUS
    <3>5. ScannedFraction(s)'
      BY <1>2, <1>4, <1>5, <3>1, <3>2, <3>3, <3>4 DEF ScannedFraction, EndOfSource
    <3> QED
      BY <1>3, <2>3, <3>5 DEF ScannedFrom
  <2>4. CASE /\ mode = "integer" /\ Char = "." /\ CharAt(idx + 1) \in Digits
             /\ mode' = "fraction"
    <3>1. /\ source[s] \in Digits /\ text = Piece(s, n)
          /\ \A p \in s..(n - 1) : source[p] \in Digits
      BY <1>1, <2>4 DEF ScannedFrom, ScannedInteger
    <3>2. n + 1 <= Len(source) /\ source[n + 1] \in Digits
      <4>1. Nul \notin Digits
        BY CharactersAssumption
      <4>2. CharAt(n + 1) \in Digits
        BY <1>1, <2>4
      <4> QED
        BY <4>1, <4>2 DEF CharAt
    <3>3. source[n] = "." /\ "." \notin Digits
      BY <1>2, <2>4, CharactersApart
    <3>4. n \in (s + 1)..(n + 1 - 1)
      <4>1. s # n
        BY <3>1, <3>3
      <4> QED
        BY <1>1, <4>1
    <3>5. \A p \in s..(n + 1 - 1) : p # n => source[p] \in Digits
      BY <1>6, <3>1
    <3>6. ScannedFraction(s)'
      BY <1>2, <1>4, <1>5, <3>1, <3>2, <3>3, <3>4, <3>5 DEF ScannedFraction, EndOfSource
    <3> QED
      BY <1>3, <2>4, <3>6 DEF ScannedFrom
  <2> QED
    BY <2>1, <2>2, <2>3, <2>4 DEF More
<1>8. InProgress'
  BY <1>1, <1>2, <1>7, NowScanning
<1> QED
  BY <1>2, <1>8, SplitStays, ReportsStay DEF SplitInv

(* What makes a token the longest, by its parts.                           *)
LEMMA Longest ==
  ASSUME NEW t, NEW s, NEW e, NEW w, t.from = s, t.to = e, w = Piece(s, e),
         LexemeKind(t) \in LexemeKinds(w), Maximal(s, e),
         t.type = "keyword" => w \in Keywords,
         t.type = "identifier" => w \notin Keywords,
         t.type \in {"string", "char"} => StandsFor(Piece(s, e - 1), t.text),
         t.type \in {"keyword", "operator"} => t.text = <<>>,
         t.type \notin {"string", "char", "keyword", "operator"} => t.text = w
  PROVE  IsLongest(t)
BY DEF IsLongest, Maximal

(* A step that adds a token.                                               *)
LEMMA TokenEnds ==
  ASSUME TypeOK, TypeOK', TokensSplit, source' = source, errors \subseteq errors',
         mode' = "between", NEW n \in Nat, n = idx',
         NEW t, tokens' = Append(tokens, t), t.to = n,
         NEW s, t.from = s, GapTo(s), t.from \in errors' \/ IsLongest(t)
  PROVE  TokensSplit' /\ InProgress'
<1>1. TokenRight(t)'
  <2>1. IsLongest(t) => IsLongest(t)'
    BY LongestStays
  <2> QED
    BY <2>1 DEF TokenRight
<1>2. t \in Token
  BY PushTyped
<1>3. TokensSplit' /\ GapTo(n)'
  BY <1>1, <1>2, TokenSplit
<1> QED
  BY <1>3, NowBetween

(* The end of a word: it is the longest, keyword or not.                   *)
LEMMA EndWordSplits ==
  ASSUME TypeOK, TypeOK', SplitInv, EndWord
  PROVE  SplitInv'
<1>0. mode \in Scanning /\ mode = "word"
  BY DEF EndWord, Scanning
<1>1. PICK s \in Nat \ {0}, n \in Nat \ {0}, l \in Nat :
             /\ s = start.at /\ n = idx /\ l = Len(source) /\ s <= n /\ s <= l
             /\ GapTo(s) /\ ScannedFrom(s)
  BY <1>0, Underway
<1>2. /\ source' = source /\ errors' = errors /\ mode' = "between" /\ idx' = n
      /\ n > l \/ (n <= l /\ source[n] \notin Letters \cup Digits)
  BY <1>1, CharHere DEF EndWord, InWord
<1>3. /\ n <= EndOfSource /\ source[s] \in Letters /\ text = Piece(s, n)
      /\ \A p \in s..(n - 1) : source[p] \in Letters \cup Digits
  BY <1>0, <1>1 DEF ScannedFrom, ScannedWord
<1>4. s < n
  <2>1. s # n
    BY <1>1, <1>2, <1>3
  <2> QED
    BY <1>1, <2>1
<1>5. IsWord(text) /\ Maximal(s, n)
  BY <1>1, <1>2, <1>3, <1>4, WordEnds, Cursor
<1>6. "word" \in LexemeKinds(text)
  BY <1>5, KindsOf
<1>7. PICK t : /\ tokens' = Append(tokens, t) /\ t.from = s /\ t.to = n
               /\ \/ text \in Keywords /\ t.type = "keyword" /\ t.text = <<>>
                  \/ text \notin Keywords /\ t.type = "identifier" /\ t.text = text
  <2>1. CASE text \in Keywords
    <3>1. Push("keyword", start, idx, <<>>)
      BY <2>1 DEF EndWord
    <3> QED
      BY <1>1, <2>1, <3>1 DEF Push
  <2>2. CASE text \notin Keywords
    <3>1. Push("identifier", start, idx, text)
      BY <2>2 DEF EndWord
    <3> QED
      BY <1>1, <2>2, <3>1 DEF Push
  <2> QED
    BY <2>1, <2>2
<1>8. LexemeKind(t) = "word"
  BY <1>7 DEF LexemeKind
<1>9. IsLongest(t)
  BY <1>3, <1>5, <1>6, <1>7, <1>8, Longest
<1> QED
  BY <1>1, <1>2, <1>7, <1>9, TokenEnds, ReportsStay DEF SplitInv

(* The end of a number.                                                    *)
LEMMA EndNumberSplits ==
  ASSUME TypeOK, TypeOK', SplitInv, EndNumber
  PROVE  SplitInv'
<1>0. mode \in Scanning /\ mode \in {"integer", "fraction"}
  BY DEF EndNumber, Scanning
<1>1. PICK s \in Nat \ {0}, n \in Nat \ {0}, l \in Nat :
             /\ s = start.at /\ n = idx /\ l = Len(source) /\ s <= n /\ s <= l
             /\ GapTo(s) /\ ScannedFrom(s)
  BY <1>0, Underway
<1>2. /\ source' = source /\ errors' = errors /\ mode' = "between" /\ idx' = n
      /\ n > l \/ (n <= l /\ source[n] \notin Digits)
  BY <1>1, CharHere DEF EndNumber
<1>3. PICK t : /\ tokens' = Append(tokens, t) /\ t.from = s /\ t.to = n /\ t.text = text
               /\ t.type = IF mode = "fraction" THEN "float" ELSE "int"
  BY <1>1 DEF EndNumber, Push
<1>4. n <= EndOfSource /\ text = Piece(s, n)
  BY <1>0, <1>1 DEF ScannedFrom, ScannedInteger, ScannedFraction
<1>7. n <= Len(source) => source[n] \notin Digits
  BY <1>1, <1>2
<1>8. source \in Seq(Characters)
  BY Cursor
<1>5. CASE mode = "integer"
  <2>1. /\ source[s] \in Digits
        /\ \A p \in s..(n - 1) : source[p] \in Digits
    BY <1>1, <1>5 DEF ScannedFrom, ScannedInteger
  <2>2. s < n
    <3>1. s # n
      BY <1>1, <1>2, <2>1
    <3> QED
      BY <1>1, <3>1
  <2>3. n + 1 <= Len(source) /\ source[n] = "." => source[n + 1] \notin Digits
    <3>1. ~(Char = "." /\ CharAt(n + 1) \in Digits)
      BY <1>1, <1>5 DEF EndNumber
    <3>2. n + 1 <= l => Char = source[n]
      BY <1>1, CharHere
    <3> QED
      BY <1>1, <3>1, <3>2 DEF CharAt
  <2>4. IsInt(text) /\ Maximal(s, n)
    <3>1. IsInt(Piece(s, n)) /\ Maximal(s, n)
      BY <1>4, <1>7, <1>8, <2>1, <2>2, <2>3, IntegerEnds
    <3> QED
      BY <1>4, <3>1
  <2>5. t.type = "int" /\ LexemeKind(t) = "int" /\ "int" \in LexemeKinds(text)
    BY <1>3, <1>5, <2>4, KindsOf DEF LexemeKind
  <2>6. IsLongest(t)
    BY <1>3, <1>4, <2>4, <2>5, Longest
  <2> QED
    BY <1>1, <1>2, <1>3, <2>6, TokenEnds, ReportsStay DEF SplitInv
<1>6. CASE mode = "fraction"
  <2>1. PICK d \in (s + 1)..(n - 1) :
          /\ source[d] = "." /\ d + 1 <= Len(source) /\ source[d + 1] \in Digits
          /\ \A p \in s..(n - 1) : p # d => source[p] \in Digits
    BY <1>1, <1>6 DEF ScannedFrom, ScannedFraction
  <2>2. d # n - 1
    <3>1. d = n - 1 => d + 1 = n
      OBVIOUS
    <3> QED
      BY <1>1, <1>2, <2>1, <3>1
  <2>3. d \in (s + 1)..(n - 2) /\ s < n
    BY <1>1, <2>2
  <2>4. IsFloat(text) /\ Maximal(s, n)
    <3>1. IsFloat(Piece(s, n)) /\ Maximal(s, n)
      BY <1>4, <1>7, <1>8, <2>1, <2>3, FractionEnds
    <3> QED
      BY <1>4, <3>1
  <2>5. t.type = "float" /\ LexemeKind(t) = "float" /\ "float" \in LexemeKinds(text)
    BY <1>3, <1>6, <2>4, KindsOf DEF LexemeKind
  <2>6. IsLongest(t)
    BY <1>3, <1>4, <2>4, <2>5, Longest
  <2> QED
    BY <1>1, <1>2, <1>3, <2>6, TokenEnds, ReportsStay DEF SplitInv
<1> QED
  BY <1>0, <1>5, <1>6

(* An operator, or a character that begins no token.                       *)
LEMMA PunctuationSplits ==
  ASSUME TypeOK, TypeOK', SplitInv, Punctuation
  PROVE  SplitInv'
<1>1. PICK n \in Nat \ {0} : n = idx
  BY Cursor
<1>2. /\ source' = source /\ mode = "between" /\ mode' = "between"
      /\ n <= Len(source) /\ source[n] = Char
      /\ Char \notin Letters \cup Digits \cup Spaces \cup {Quote, "'"}
  BY <1>1, CharHere DEF Punctuation
<1>3. GapTo(n)
  BY <1>1, <1>2 DEF SplitInv, InProgress
<1>4. CASE OperatorLength(n) = 0
  <2>1. errors' = errors \cup {n} /\ idx' = n + 1 /\ tokens' = tokens
    BY <1>1, <1>4 DEF Punctuation, ReportAt, AdvanceBy
  <2>2. Char \notin Alone \cup WithEqual
    <3>1. CharAt(n) = Char
      BY <1>1, CharHere
    <3> QED
      BY <1>4, <3>1 DEF OperatorLength
  <2>3. Deserved(n)
    BY <1>2, <2>2, StrayDeserved, Cursor
  <2>4. PICK m \in Nat : m = n + 1 /\ n < m
    OBVIOUS
  <2>5. Skips(n, m)'
    BY <2>1, <2>4 DEF Skips
  <2>6. GapTo(m)'
    BY <1>2, <1>3, <2>1, <2>4, <2>5, GapWidens
  <2>7. InProgress'
    BY <1>2, <2>1, <2>4, <2>6, NowBetween
  <2> QED
    BY <1>2, <2>1, <2>3, <2>7, SplitStays, ReportAdded DEF SplitInv
<1>5. CASE OperatorLength(n) # 0
  <2>1. PICK e \in Nat : e = n + OperatorLength(n)
    BY OperatorFits, Cursor
  <2>2. /\ errors' = errors /\ idx' = e
        /\ Push("operator", Here, idx + OperatorLength(idx), <<>>)
    BY <1>1, <1>5, <2>1 DEF Punctuation, AdvanceBy
  <2>3. PICK t : /\ tokens' = Append(tokens, t) /\ t.from = n /\ t.to = e /\ t.text = <<>>
                 /\ t.type = "operator"
    BY <1>1, <2>1, <2>2 DEF Push, Here
  <2>4. Piece(n, e) \in OperatorTexts /\ Maximal(n, e)
    BY <1>2, <1>5, <2>1, OperatorEnds, Cursor
  <2>5. LexemeKind(t) = "operator" /\ "operator" \in LexemeKinds(Piece(n, e))
    BY <2>3, <2>4, KindsOf DEF LexemeKind
  <2>6. IsLongest(t)
    BY <2>3, <2>4, <2>5, Longest
  <2> QED
    BY <1>2, <1>3, <2>2, <2>3, <2>6, TokenEnds, ReportsStay DEF SplitInv
<1> QED
  BY <1>4, <1>5

(* A text of one character.                                                *)
LEMMA AppendToNone ==
  ASSUME NEW c
  PROVE  Append(<<>>, c) = <<c>>
OBVIOUS

(* An escape in a string, also at the very end, or in a character.         *)
LEMMA EscapeSplits ==
  ASSUME TypeOK, SplitInv, Escape
  PROVE  SplitInv'
<1>0. mode \in Scanning
  BY DEF Escape, Scanning
<1>1. PICK s \in Nat \ {0}, n \in Nat \ {0}, l \in Nat :
             /\ s = start.at /\ n = idx /\ l = Len(source) /\ s <= n /\ s <= l
             /\ GapTo(s) /\ ScannedFrom(s)
  BY <1>0, Underway
<1>2. /\ source' = source /\ errors' = errors /\ tokens' = tokens /\ start' = start
      /\ n <= l /\ source[n] = "\\" /\ idx' = n + 2 /\ mode' \in Scanning
  BY <1>1, CharHere DEF Escape, AdvanceTwice, output, Scanning
<1>3. GapTo(s)' /\ s <= Len(source')
  BY <1>1, <1>2, SplitStays
<1>4. PICK c \in Characters : c = CharAt(n + 1)
  BY CharactersRead, Cursor
<1>5. PICK d \in Characters : d = Decoded(c) /\ d = Unescaped(c)
  <2>1. Decoded(c) \in Characters
    BY CharactersAssumption DEF Decoded, Characters
  <2> QED
    BY <2>1, EscapesDecoded
<1>6. text' = Append(text, d)
  BY <1>1, <1>4, <1>5 DEF Escape
<1>7. source \in Seq(Characters) /\ text \in Seq(Characters)
  BY Cursor
<1>8. ScannedFrom(s)'
  <2>1. CASE mode = "string" /\ mode' = "string"
    <3>1. source[s] = Quote /\ s < n /\ StringSoFar(Piece(s, n), text)
      BY <1>1, <1>2, <2>1 DEF ScannedFrom, ScannedString, EndOfSource
    <3>2. PICK w \in Seq(Characters) : w = Piece(s, n)
      <4>1. s <= n /\ n <= EndOfSource
        BY <1>1, <1>2 DEF EndOfSource
      <4> QED
        BY <1>7, <4>1, Pieces
    <3>3. Piece(s, n + 1) = Append(w, "\\")
      BY <1>1, <1>2, <1>7, <3>2, PieceGrows
    <3>4. CASE n + 1 <= l
      <4>1. PICK m \in Nat : m = n + 1 /\ s <= m /\ m <= Len(source) /\ m + 1 = n + 2
        BY <1>1, <3>4
      <4>2. source[m] = c
        BY <1>4, <4>1 DEF CharAt
      <4>3. Piece(s, m + 1) = Append(Append(w, "\\"), c)
        BY <1>1, <1>7, <3>3, <4>1, <4>2, PieceGrows
      <4>4. StringSoFar(Append(Append(w, "\\"), c), Append(text, d))
        BY <1>5, <1>7, <3>1, <3>2, EscapeRead
      <4>5. PICK v : v = Piece(s, m + 1) /\ StringSoFar(v, text')
        BY <1>6, <4>3, <4>4
      <4>6. Piece(s, idx)' = v
        BY <1>2, <4>1, <4>5 DEF Piece
      <4>7. s < idx' /\ idx' <= EndOfSource'
        BY <1>1, <1>2, <3>1, <3>4 DEF EndOfSource
      <4>8. ScannedString(s)'
        BY <1>2, <3>1, <4>5, <4>6, <4>7 DEF ScannedString, EndOfSource
      <4> QED
        BY <1>3, <2>1, <4>8 DEF ScannedFrom
    <3>5. CASE ~(n + 1 <= l)
      <4>1. n = l
        BY <1>2, <3>5
      <4>2. PICK v : v = Piece(s, EndOfSource) /\ QuotesEscaped(v)
        <5>1. Piece(s, EndOfSource) = Append(w, "\\")
          BY <1>1, <3>3, <4>1 DEF EndOfSource
        <5>2. QuotesEscaped(Append(w, "\\"))
          BY <1>7, <3>1, <3>2, BackslashRead
        <5> QED
          BY <5>1, <5>2
      <4>3. Piece(s, EndOfSource)' = v
        BY <1>2, <4>2 DEF Piece, EndOfSource
      <4>4. s < idx' /\ ~(idx' <= EndOfSource')
        BY <1>1, <1>2, <3>1, <4>1 DEF EndOfSource
      <4>5. ScannedString(s)'
        BY <1>2, <3>1, <4>2, <4>3, <4>4 DEF ScannedString, EndOfSource
      <4> QED
        BY <1>3, <2>1, <4>5 DEF ScannedFrom
    <3> QED
      BY <3>4, <3>5
  <2>2. CASE mode = "char" /\ mode' = "char end"
    <3>1. source[s] = "'" /\ n = s + 1 /\ text = <<>>
      BY <1>1, <2>2 DEF ScannedFrom
    <3>2. text' = <<d>> /\ idx' = s + 3 /\ n + 1 = s + 2
      BY <1>2, <1>6, <3>1, AppendToNone
    <3>3. d = Decoded(CharAt(s + 2)')
      BY <1>2, <1>4, <1>5, <3>2 DEF CharAt
    <3>4. ScannedChar(s)'
      BY <1>1, <1>2, <3>1, <3>2, <3>3 DEF ScannedChar
    <3> QED
      BY <1>3, <2>2, <3>4 DEF ScannedFrom
  <2> QED
    BY <2>1, <2>2 DEF Escape
<1>9. InProgress'
  BY <1>1, <1>2, <1>8, NowScanning
<1> QED
  BY <1>2, <1>9, SplitStays, ReportsStay DEF SplitInv

(* A character that stands for itself.                                     *)
LEMMA VerbatimSplits ==
  ASSUME TypeOK, SplitInv, Verbatim
  PROVE  SplitInv'
<1>0. mode \in Scanning
  BY DEF Verbatim, Scanning
<1>1. PICK s \in Nat \ {0}, n \in Nat \ {0}, l \in Nat :
             /\ s = start.at /\ n = idx /\ l = Len(source) /\ s <= n /\ s <= l
             /\ GapTo(s) /\ ScannedFrom(s)
  BY <1>0, Underway
<1>2. PICK c \in Characters : c = Char
  BY CharHere DEF Verbatim
<1>3. /\ source' = source /\ errors' = errors /\ tokens' = tokens /\ start' = start
      /\ n <= l /\ source[n] = c /\ c # "\\" /\ idx' = n + 1 /\ mode' \in Scanning
      /\ text' = Append(text, c)
  BY <1>1, <1>2, CharHere DEF Verbatim, Advance, output, Scanning
<1>4. GapTo(s)' /\ s <= Len(source')
  BY <1>1, <1>3, SplitStays
<1>5. source \in Seq(Characters) /\ text \in Seq(Characters)
  BY Cursor
<1>6. ScannedFrom(s)'
  <2>1. CASE mode = "string" /\ mode' = "string" /\ c # Quote
    <3>1. source[s] = Quote /\ s < n /\ StringSoFar(Piece(s, n), text)
      BY <1>1, <1>3, <2>1 DEF ScannedFrom, ScannedString, EndOfSource
    <3>2. PICK w \in Seq(Characters) : w = Piece(s, n)
      <4>1. s <= n /\ n <= EndOfSource
        BY <1>1, <1>3 DEF EndOfSource
      <4> QED
        BY <1>5, <4>1, Pieces
    <3>3. Piece(s, n + 1) = Append(w, c)
      BY <1>1, <1>3, <1>5, <3>2, PieceGrows
    <3>4. StringSoFar(Append(w, c), Append(text, c))
      BY <1>3, <1>5, <2>1, <3>1, <3>2, StringGoesOn
    <3>5. PICK v : v = Piece(s, n + 1) /\ StringSoFar(v, text')
      BY <1>3, <3>3, <3>4
    <3>6. Piece(s, idx)' = v
      BY <1>3, <3>5 DEF Piece
    <3>7. s < idx' /\ idx' <= EndOfSource'
      BY <1>1, <1>3, <3>1 DEF EndOfSource
    <3>8. ScannedString(s)'
      BY <1>3, <3>1, <3>5, <3>6, <3>7 DEF ScannedString, EndOfSource
    <3> QED
      BY <1>4, <2>1, <3>8 DEF ScannedFrom
  <2>2. CASE mode = "char" /\ mode' = "char end"
    <3>1. source[s] = "'" /\ n = s + 1 /\ text = <<>>
      BY <1>1, <2>2 DEF ScannedFrom
    <3>2. text' = <<c>> /\ idx' = s + 2
      BY <1>3, <3>1, AppendToNone
    <3>3. ScannedChar(s)'
      BY <1>1, <1>3, <3>1, <3>2 DEF ScannedChar
    <3> QED
      BY <1>4, <2>2, <3>3 DEF ScannedFrom
  <2> QED
    BY <1>2, <2>1, <2>2 DEF Verbatim
<1>7. InProgress'
  BY <1>1, <1>3, <1>6, NowScanning
<1> QED
  BY <1>3, <1>7, SplitStays, ReportsStay DEF SplitInv

(* A quote at the very end of the source.                                  *)
LEMMA NoCharacterSplits ==
  ASSUME TypeOK, SplitInv, NoCharacter
  PROVE  SplitInv'
<1>0. mode \in Scanning /\ mode = "char"
  BY DEF NoCharacter, Scanning
<1>1. PICK s \in Nat \ {0}, n \in Nat \ {0}, l \in Nat :
             /\ s = start.at /\ n = idx /\ l = Len(source) /\ s <= n /\ s <= l
             /\ GapTo(s) /\ ScannedFrom(s)
  BY <1>0, Underway
<1>2. /\ source' = source /\ errors' = errors /\ tokens' = tokens /\ start' = start
      /\ n > l /\ idx' = n /\ mode' = "char end" /\ mode' \in Scanning
  BY <1>1, CharHere DEF NoCharacter, output, Scanning
<1>3. GapTo(s)' /\ s <= Len(source')
  BY <1>1, <1>2, SplitStays
<1>4. source[s] = "'" /\ n = s + 1
  BY <1>0, <1>1 DEF ScannedFrom
<1>5. s = l
  <2>1. n > l /\ s <= l /\ n = s + 1
    BY <1>1, <1>2, <1>4
  <2> QED
    BY <2>1
<1>6. ScannedChar(s)'
  BY <1>1, <1>2, <1>4, <1>5 DEF ScannedChar
<1>7. ScannedFrom(s)'
  BY <1>2, <1>3, <1>6 DEF ScannedFrom
<1>8. InProgress'
  BY <1>1, <1>2, <1>7, NowScanning
<1> QED
  BY <1>2, <1>8, SplitStays, ReportsStay DEF SplitInv

(* The end of a string: a token, and a report if it is open.               *)
LEMMA EndStringSplits ==
  ASSUME TypeOK, TypeOK', SplitInv, EndString
  PROVE  SplitInv'
<1>0. mode \in Scanning /\ mode = "string"
  BY DEF EndString, Scanning
<1>1. PICK s \in Nat \ {0}, n \in Nat \ {0}, l \in Nat :
             /\ s = start.at /\ n = idx /\ l = Len(source) /\ s <= n /\ s <= l
             /\ GapTo(s) /\ ScannedFrom(s)
  BY <1>0, Underway
<1>2. /\ source' = source /\ mode' = "between"
  BY DEF EndString
<1>3. PICK t : /\ tokens' = Append(tokens, t) /\ t.from = s /\ t.to = idx'
               /\ t.type = "string" /\ t.text = text
  BY <1>1 DEF EndString, Push
<1>4. source[s] = Quote /\ s < n
  BY <1>0, <1>1 DEF ScannedFrom, ScannedString
<1>5. source \in Seq(Characters)
  BY Cursor
<1>6. CASE AtEnd
  <2>1. errors' = errors \cup {s} /\ idx' = n /\ n > l
    BY <1>1, <1>6, CharHere DEF EndString, ReportAt, Stay
  <2>2. QuotesEscaped(Piece(s, EndOfSource))
    <3>1. CASE n <= EndOfSource
      <4>1. n = EndOfSource
        BY <1>1, <2>1, <3>1 DEF EndOfSource
      <4> QED
        BY <1>0, <1>1, <4>1 DEF ScannedFrom, ScannedString, StringSoFar
    <3>2. CASE ~(n <= EndOfSource)
      BY <1>0, <1>1, <3>2 DEF ScannedFrom, ScannedString
    <3> QED
      BY <3>1, <3>2
  <2>3. Deserved(s)
    BY <1>1, <1>4, <1>5, <2>2, StringOpen
  <2>4. TokensSplit' /\ InProgress'
    BY <1>1, <1>2, <1>3, <2>1, TokenEnds DEF SplitInv
  <2> QED
    BY <1>2, <2>1, <2>3, <2>4, ReportAdded DEF SplitInv
<1>7. CASE ~AtEnd
  <2>1. errors' = errors /\ idx' = n + 1 /\ n <= l /\ source[n] = Quote
    BY <1>1, <1>7, CharHere DEF EndString, Advance
  <2>2. StringSoFar(Piece(s, n), text)
    BY <1>0, <1>1, <2>1 DEF ScannedFrom, ScannedString, EndOfSource
  <2>3. PICK e \in Nat : e = n + 1 /\ e - 1 = n
    OBVIOUS
  <2>4. IsString(Piece(s, e)) /\ Maximal(s, e)
    BY <1>1, <1>4, <1>5, <2>1, <2>2, <2>3, StringEnds
  <2>5. LexemeKind(t) = "string" /\ "string" \in LexemeKinds(Piece(s, e))
    BY <1>3, <2>4, KindsOf DEF LexemeKind
  <2>6. StandsFor(Piece(s, e - 1), t.text)
    BY <1>3, <2>2, <2>3 DEF StringSoFar
  <2>7. IsLongest(t)
    BY <1>3, <2>1, <2>3, <2>4, <2>5, <2>6, Longest
  <2>8. TokensSplit' /\ InProgress'
    BY <1>1, <1>2, <1>3, <2>1, <2>3, <2>7, TokenEnds DEF SplitInv
  <2> QED
    BY <1>2, <2>1, <2>8, ReportsStay DEF SplitInv
<1> QED
  BY <1>6, <1>7

(* The end of a character literal: likewise.                               *)
LEMMA EndCharSplits ==
  ASSUME TypeOK, TypeOK', SplitInv, EndChar
  PROVE  SplitInv'
<1>0. mode \in Scanning /\ mode = "char end"
  BY DEF EndChar, Scanning
<1>1. PICK s \in Nat \ {0}, n \in Nat \ {0}, l \in Nat :
             /\ s = start.at /\ n = idx /\ l = Len(source) /\ s <= n /\ s <= l
             /\ GapTo(s) /\ ScannedFrom(s)
  BY <1>0, Underway
<1>2. /\ source' = source /\ mode' = "between"
  BY DEF EndChar
<1>3. PICK t : /\ tokens' = Append(tokens, t) /\ t.from = s /\ t.to = idx'
               /\ t.type = "char" /\ t.text = text
  <2>1. Push("char", start, idx', text)
    BY DEF EndChar
  <2> QED
    BY <1>1, <2>1 DEF Push
<1>4. ScannedChar(s) /\ source[s] = "'"
  BY <1>0, <1>1 DEF ScannedFrom, ScannedChar
<1>5. source \in Seq(Characters)
  BY Cursor
<1>6. CASE AtEnd \/ Char # "'"
  <2>1. /\ errors' = errors \cup {s} /\ idx' = n
        /\ n > l \/ (n <= l /\ source[n] # "'")
    BY <1>1, <1>6, CharHere DEF EndChar, ReportAt, Stay
  <2>2. s + 2 <= Len(source) /\ source[s + 1] # "\\" => source[s + 2] # "'"
    BY <1>1, <1>4, <2>1 DEF ScannedChar
  <2>3. s + 3 <= Len(source) /\ source[s + 1] = "\\" => source[s + 3] # "'"
    BY <1>1, <1>4, <2>1 DEF ScannedChar
  <2>4. Deserved(s)
    BY <1>4, <1>5, <2>2, <2>3, CharOpen
  <2>5. TokensSplit' /\ InProgress'
    BY <1>1, <1>2, <1>3, <2>1, TokenEnds DEF SplitInv
  <2> QED
    BY <1>2, <2>1, <2>4, <2>5, ReportAdded DEF SplitInv
<1>7. CASE ~AtEnd /\ Char = "'"
  <2>1. errors' = errors /\ idx' = n + 1 /\ n <= l /\ source[n] = "'"
    BY <1>1, <1>7, CharHere DEF EndChar, Advance
  <2>2. PICK e \in Nat : e = n + 1 /\ e - 1 = n /\ s < e /\ e <= EndOfSource
    BY <1>1, <2>1 DEF EndOfSource
  <2>3. \/ e = s + 3 /\ source[s + 1] # "\\"
        \/ e = s + 4 /\ source[s + 1] = "\\"
    BY <1>1, <1>4, <2>1, <2>2 DEF ScannedChar
  <2>4. IsChar(Piece(s, e)) /\ Maximal(s, e)
    BY <1>4, <1>5, <2>1, <2>2, <2>3, CharEnds
  <2>5. LexemeKind(t) = "char" /\ "char" \in LexemeKinds(Piece(s, e))
    BY <1>3, <2>4, KindsOf DEF LexemeKind
  <2>6. StandsFor(Piece(s, e - 1), t.text)
    <3>1. s < n
      BY <2>2, <2>3
    <3>2. PICK w : w = Piece(s, n) /\ IsPiece(w, s, n)
      BY <1>1, <1>5, <2>1, <3>1, PieceAt DEF EndOfSource
    <3>3. CASE e = s + 3 /\ source[s + 1] # "\\"
      <4>1. n = s + 2 /\ text = <<source[s + 1]>>
        BY <1>1, <1>4, <2>2, <3>3 DEF ScannedChar
      <4>2. n - s = 2 /\ s + 2 - 1 = s + 1 /\ 2 \in 1..2
        BY <4>1
      <4>3. w \in Seq(Characters) /\ Len(w) = 2 /\ w[2] = source[s + 1]
        BY <3>2, <4>2 DEF IsPiece
      <4>4. StandsFor(w, <<w[2]>>)
        BY <3>3, <4>3, CharacterRead
      <4> QED
        BY <1>3, <2>2, <3>2, <4>1, <4>3, <4>4
    <3>4. CASE e = s + 4 /\ source[s + 1] = "\\"
      <4>1. n = s + 3 /\ text = <<Decoded(CharAt(s + 2))>> /\ s + 2 <= Len(source)
        BY <1>1, <1>4, <2>1, <2>2, <3>4 DEF ScannedChar
      <4>2. /\ n - s = 3 /\ s + 2 - 1 = s + 1 /\ s + 3 - 1 = s + 2 /\ s + 1 - 1 = s
            /\ 1 \in 1..3 /\ 2 \in 1..3 /\ 3 \in 1..3
        BY <4>1
      <4>3. /\ w \in Seq(Characters) /\ Len(w) = 3 /\ w[1] = source[s]
            /\ w[2] = source[s + 1] /\ w[3] = source[s + 2]
        BY <3>2, <4>2 DEF IsPiece
      <4>4. PICK d : d = Unescaped(w[3])
        OBVIOUS
      <4>5. StandsFor(w, <<d>>)
        BY <1>4, <3>4, <4>3, <4>4, EscapedCharacterRead
      <4>6. CharAt(s + 2) = w[3]
        BY <4>1, <4>3 DEF CharAt
      <4>7. text = <<d>>
        BY <4>1, <4>4, <4>6, EscapesDecoded
      <4> QED
        BY <1>3, <2>2, <3>2, <4>5, <4>7
    <3> QED
      BY <2>3, <3>3, <3>4
  <2>7. IsLongest(t)
    BY <1>3, <2>1, <2>2, <2>4, <2>5, <2>6, Longest
  <2>8. TokensSplit' /\ InProgress'
    BY <1>1, <1>2, <1>3, <2>1, <2>2, <2>7, TokenEnds DEF SplitInv
  <2> QED
    BY <1>2, <2>1, <2>8, ReportsStay DEF SplitInv
<1> QED
  BY <1>6, <1>7

(* Every step.                                                             *)
LEMMA StepsSplit ==
  ASSUME TypeOK, TypeOK', SplitInv, Next
  PROVE  SplitInv'
BY BlankSplits, BeginCommentSplits, InCommentSplits, EndLineCommentSplits,
   EndBlockCommentSplits, FinishSplits, BeginTokenSplits, MoreSplits, EndWordSplits,
   EndNumberSplits, EscapeSplits, VerbatimSplits, NoCharacterSplits, EndStringSplits,
   EndCharSplits, PunctuationSplits
   DEF Next

(* The invariant holds throughout.                                         *)
LEMMA SplitAlways == Spec => []SplitInv
<1>1. Init => SplitInv
  <2> SUFFICES ASSUME Init
               PROVE  SplitInv
    OBVIOUS
  <2>1. tokens = <<>> /\ errors = {} /\ mode = "between" /\ idx = 1 /\ DOMAIN tokens = {}
    BY EmptySeq DEF Init
  <2>2. LastEnd = 1
    BY <2>1, EmptySeq DEF LastEnd, EndBefore
  <2>3. IsGap(1, 1)
    BY DEF IsGap
  <2>4. GapTo(1)
    BY <2>2, <2>3 DEF GapTo
  <2> QED
    BY <2>1, <2>4 DEF SplitInv, TokensSplit, AllDeserved, InProgress, Scanning
<1>2. TypeOK /\ TypeOK' /\ SplitInv /\ [Next]_vars => SplitInv'
  <2>1. SplitInv /\ UNCHANGED vars => SplitInv'
    <3> SUFFICES ASSUME SplitInv, UNCHANGED vars
                 PROVE  SplitInv'
      OBVIOUS
    <3>1. /\ source' = source /\ idx' = idx /\ mode' = mode /\ start' = start
          /\ text' = text /\ tokens' = tokens /\ errors' = errors
      BY DEF vars, output
    <3>2. TokensSplit' /\ AllDeserved' /\ \A i : GapTo(i) => GapTo(i)'
      BY <3>1, SplitStays, ReportsStay DEF SplitInv
    <3>3. InLineComment => InLineComment'
      BY <3>1, <3>2 DEF InLineComment, EndOfSource
    <3>4. InBlockComment => InBlockComment'
      BY <3>1, <3>2 DEF InBlockComment, EndOfSource, CharAt
    <3>5. \A s : ScannedFrom(s) => ScannedFrom(s)'
      <4> SUFFICES ASSUME NEW s
                   PROVE  ScannedFrom(s) => ScannedFrom(s)'
        OBVIOUS
      <4>1. ScannedWord(s) => ScannedWord(s)'
        BY <3>1 DEF ScannedWord, EndOfSource, Piece
      <4>2. ScannedInteger(s) => ScannedInteger(s)'
        BY <3>1 DEF ScannedInteger, EndOfSource, Piece
      <4>3. ScannedFraction(s) => ScannedFraction(s)'
        BY <3>1 DEF ScannedFraction, EndOfSource, Piece
      <4>4. ScannedString(s) => ScannedString(s)'
        BY <3>1 DEF ScannedString, EndOfSource, Piece
      <4>5. ScannedChar(s) => ScannedChar(s)'
        BY <3>1 DEF ScannedChar, CharAt
      <4> QED
        BY <3>1, <3>2, <4>1, <4>2, <4>3, <4>4, <4>5 DEF ScannedFrom
    <3>6. InProgress'
      BY <3>1, <3>2, <3>3, <3>4, <3>5 DEF SplitInv, InProgress
    <3> QED
      BY <3>2, <3>6 DEF SplitInv
  <2> QED
    BY <2>1, StepsSplit
<1> QED
  BY <1>1, <1>2, TypeCorrectness, PTL DEF Spec

(* The tokens and the gaps between them make up the source.                *)
THEOREM SourceSplit == Spec => []SplitsTheSource
<1>1. SplitInv => SplitsTheSource
  <2> SUFFICES ASSUME SplitInv, NEW i \in DOMAIN tokens
               PROVE  LET t == tokens[i]
                      IN  /\ IsGap(IF i = 1 THEN 1 ELSE tokens[i - 1].to, t.from)
                          /\ t.type # "eof" => t.from \in errors \/ IsLongest(t)
    BY DEF SplitsTheSource
  <2>1. SplitAt(i)
    BY DEF SplitInv, TokensSplit
  <2> QED
    BY <2>1 DEF SplitAt, EndBefore, TokenRight
<1> QED
  BY <1>1, SplitAlways, PTL

(* A report is made only where no lexeme and no comment begins: no legal   *)
(* program is refused by the lexer.                                        *)
THEOREM ReportsDeserved == Spec => []ReportsAreDeserved
<1>1. SplitInv => ReportsAreDeserved
  BY DEF SplitInv, AllDeserved, Deserved, ReportsAreDeserved
<1> QED
  BY <1>1, SplitAlways, PTL
=============================================================================
