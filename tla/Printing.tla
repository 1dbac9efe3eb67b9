------------------------------ MODULE Printing ------------------------------
(***************************************************************************)
(* The routines behind leeh(): print_int, print_float, print_char and      *)
(* print_str (src/codegen/CodeGeneratorRuntime.cpp), beside the string     *)
(* routines whose results print_str reads back from memory.                *)
(***************************************************************************)
EXTENDS StringHeap, Decimal, SequencesExt

CONSTANTS
  Ints,          \* the words printed as integers
  Doubles        \* the doubles printed

ASSUME PrintingAssumption ==
  /\ Ints \subseteq Word
  /\ Doubles \subseteq Int
  /\ Decimals \subseteq {IntText(w) : w \in Ints}

VARIABLE line    \* what the last step wrote to stdout, if it did: the routine,
                 \* what it was given and the text before the line feed

allVars == <<heapVars, line>>

Garbage == <<0>>

Written(routine, arg, text) ==
  /\ line' = [routine |-> routine, arg |-> arg, text |-> text]
  /\ UNCHANGED heapVars

(* Bound: numbers are printed before strings are made, which makes no      *)
(* difference to either.                                                   *)
NumbersFirst == strings = <<>>

PrintInt == NumbersFirst /\ \E w \in Ints : Written("print_int", w, IntText(w))

PrintFloat ==
  NumbersFirst /\ \E x \in Doubles : Written("print_float", x, FloatText(x))

PrintChar == \E c \in Chars : Written("print_char", c, <<c>>)

(* The length word and as many bytes after it, whatever they hold now.     *)
PrintStr ==
  \E i \in DOMAIN strings :
    Written("print_str", i, IF i \in intact THEN strings[i].text ELSE Garbage)

NoLine == [routine |-> "none"]

PrintInit == HeapInit /\ line = NoLine

PrintNext ==
  \/ HeapNext /\ line' = NoLine
  \/ PrintInt \/ PrintFloat \/ PrintChar \/ PrintStr

PrintSpec == PrintInit /\ [][PrintNext]_allVars

-----------------------------------------------------------------------------
(* The number a sequence of digits is the numeral of, and the number a     *)
(* text with a sign is.                                                    *)
IsDigit(c) == c \in Zero..(Zero + 9)

Numeral[ds \in Seq(Nat)] ==
  IF ds = <<>> THEN 0 ELSE 10 * Numeral[Front(ds)] + (Last(ds) - Zero)

IsNumeral(ds) ==
  /\ ds # <<>> /\ \A i \in DOMAIN ds : IsDigit(ds[i])
  /\ Len(ds) > 1 => ds[1] # Zero

HasSign(text) == text # <<>> /\ text[1] = Minus
Unsigned(text) == IF HasSign(text) THEN Tail(text) ELSE text

(* An integer is written in full, also the smallest, which has no positive *)
(* counterpart in the word (the comment at CodeGeneratorRuntime.cpp:6).    *)
IsIntegerText(text, w) ==
  /\ IsNumeral(Unsigned(text))
  /\ IF HasSign(text) THEN w = WordSize - Numeral[Unsigned(text)] /\ IsNegative(w)
                      ELSE w = Numeral[text] /\ ~IsNegative(w)

(* A double is written with exactly FracDigits digits after the point, and *)
(* no such number is nearer (CodeGeneratorRuntime.cpp:92).                 *)
IsDoubleText(text, x) ==
  LET ds == Unsigned(text)
      point == Len(ds) - FracDigits
      all == SubSeq(ds, 1, point - 1) \o SubSeq(ds, point + 1, Len(ds))
      off == Numeral[all] * One - (IF x < 0 THEN -x ELSE x) * Scale
  IN  /\ point > 1 /\ ds[point] = Point
      /\ IsNumeral(SubSeq(ds, 1, point - 1))
      /\ \A i \in DOMAIN all : IsDigit(all[i])
      /\ HasSign(text) <=> x < 0
      /\ -One <= 2 * off /\ 2 * off <= One

(* What leeh() shows of a number denotes that number, and what it shows of *)
(* a string is its text, as long as the strings made fit the heap.         *)
LinesAreRight ==
  CASE line.routine = "print_int" -> IsIntegerText(line.text, line.arg)
    [] line.routine = "print_float" -> IsDoubleText(line.text, line.arg)
    [] line.routine = "print_str" -> WithinHeap => line.text = strings[line.arg].text
    [] OTHER -> TRUE
=============================================================================
