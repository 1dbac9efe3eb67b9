------------------------------ MODULE Decimal ------------------------------
(***************************************************************************)
(* Numbers as text: the digit loops of print_int, int_to_str and           *)
(* print_float (src/codegen/CodeGeneratorRuntime.cpp).                     *)
(*                                                                         *)
(* A text is a sequence of ASCII codes.  A double is a number of parts, of *)
(* which One make 1: the arithmetic on it is exact here.  A definition     *)
(* marked "mutant" is not the code: it is a bug the properties are known   *)
(* to catch.                                                               *)
(***************************************************************************)
EXTENDS Integers, Sequences

CONSTANTS
  WordSize,      \* how many words a register can hold: 2^64 in the code
  FracDigits,    \* the digits after the point: 6 in the code
  One            \* the parts of 1 in a double

ASSUME DecimalAssumption ==
  /\ WordSize \in Nat \ {0} /\ WordSize % 2 = 0
  /\ FracDigits \in Nat \ {0} /\ One \in Nat \ {0}

Zero == 48
Minus == 45
Point == 46

Word == 0..(WordSize - 1)

(* cmp rax, 0 / jge, and neg rax.                                          *)
IsNegative(w) == w >= WordSize \div 2
Neg(w) == (WordSize - w) % WordSize

(* div by ten until nothing is left, at least once: the division is        *)
(* unsigned, and the digits are written from the last to the first.        *)
Digits[n \in Nat] ==
  IF n < 10 THEN <<Zero + n>> ELSE Append(Digits[n \div 10], Zero + (n % 10))

Sign(negative) == IF negative THEN <<Minus>> ELSE <<>>

(* print_int without the line feed, and int_to_str.                        *)
IntText(w) ==
  Sign(IsNegative(w)) \o Digits[IF IsNegative(w) THEN Neg(w) ELSE w]

(* print_float: the magnitude cut off, the rest scaled and rounded by      *)
(* adding a half, with a carry into the integer part; then, of what the    *)
(* divisions by greater powers of ten left, one for each digit after the   *)
(* point.                                                                  *)
Power[k \in Nat] == IF k = 0 THEN 1 ELSE 10 * Power[k - 1]

Scale == Power[FracDigits]

Cut(x) == IF x < 0 THEN (-x) \div One ELSE x \div One
Rest(x) == (IF x < 0 THEN -x ELSE x) - Cut(x) * One
Rounded(x) == (2 * Rest(x) * Scale + One) \div (2 * One)

NeverCarries(x) == FALSE      \* mutant

Carries(x) == Rounded(x) >= Scale

FloatText(x) ==
  LET whole == IF Carries(x) THEN Cut(x) + 1 ELSE Cut(x)
      frac == IF Carries(x) THEN Rounded(x) - Scale ELSE Rounded(x)
  IN  Sign(x < 0) \o Digits[whole] \o <<Point>>
      \o [k \in 1..FracDigits |->
            Zero + (frac % Power[FracDigits - k + 1]) \div Power[FracDigits - k]]
=============================================================================
