----------------------------- MODULE Processor -----------------------------
(***************************************************************************)
(* What the instructions the code generator emits do to 8-byte words       *)
(* (external: the processor, and the run-time string routines).            *)
(*                                                                         *)
(* A word says of which representation it is, so that an instruction       *)
(* applied to the wrong one shows: an integer, a double, a pointer to a    *)
(* string, here the string itself, or junk, bits that are none of these.   *)
(* Doubles are fixed-point numbers: rounding, infinities, NaN and the sign *)
(* of zero are left out.                                                   *)
(***************************************************************************)
EXTENDS Integers, Sequences

CONSTANTS
  WordSize,        \* how many words there are, 2 ^ 64 in the code
  BitOp(_, _, _),  \* what and, or, xor, shl and sar do to two numbers
  One              \* the double 1.0, in units of a double's last place

Half == WordSize \div 2
Ints == (-Half) .. (Half - 1)

BitOps == {"&", "|", "^", "<<", ">>"}

ASSUME WordSizeAssumption == WordSize \in Nat /\ WordSize > 2 /\ WordSize % 2 = 0
ASSUME OneAssumption == One \in Nat \ {0}
ASSUME BitOpAssumption ==
  \A op \in BitOps : \A m, n \in Ints : BitOp(op, m, n) \in Int

Comparisons == {"==", "!=", "<", ">", "<=", ">="}

IntWord(n) == [rep |-> "int", num |-> n, text |-> <<>>]
DblWord(n) == [rep |-> "dbl", num |-> n, text |-> <<>>]
TextWord(t) == [rep |-> "str", num |-> 0, text |-> t]
Junk == [rep |-> "junk", num |-> 0, text |-> <<>>]

Words ==
  [rep: {"int"}, num: Ints, text: {<<>>}]
  \cup [rep: {"dbl"}, num: Int, text: {<<>>}]
  \cup [rep: {"str"}, num: {0}, text: Seq(STRING)] \cup {Junk}

Truth(b) == IntWord(IF b THEN 1 ELSE 0)

RepOf(kind) ==
  CASE kind = "Float" -> "dbl" [] kind = "Str" -> "str" [] OTHER -> "int"

Both(rep, a, b) == a.rep = rep /\ b.rep = rep

Unsigned(n) == n % WordSize
Signed(n) == IF Unsigned(n) < Half THEN Unsigned(n) ELSE Unsigned(n) - WordSize

Abs(n) == IF n < 0 THEN -n ELSE n
Quot(a, b) == (Abs(a) \div Abs(b)) * (IF (a < 0) = (b < 0) THEN 1 ELSE -1)

Compare(op, a, b) ==
  CASE op = "==" -> a = b [] op = "!=" -> a # b [] op = "<" -> a < b
    [] op = ">" -> a > b [] op = "<=" -> a <= b [] op = ">=" -> a >= b

(* cvtsi2sd; cvttsd2si, which truncates, and gives the smallest integer    *)
(* when the result does not fit.                                           *)
Smallest == -Half

Truncated(n) == IF Signed(n) = n THEN n ELSE Smallest

ToDbl(w) == IF w.rep = "int" THEN DblWord(w.num * One) ELSE Junk
ToInt(w) == IF w.rep = "dbl" THEN IntWord(Truncated(Quot(w.num, One))) ELSE Junk

(* The integer instructions.  idiv traps on zero and on the one quotient   *)
(* that does not fit.                                                      *)
IntTraps(op, a, b) ==
  /\ op \in {"/", "%"} /\ Both("int", a, b)
  /\ b.num = 0 \/ (a.num = Smallest /\ b.num = -1)

IntResult(op, m, n) ==
  CASE op = "+" -> m + n
    [] op = "-" -> m - n
    [] op = "*" -> m * n
    [] op = "/" -> Quot(m, n)
    [] op = "%" -> m - Quot(m, n) * n
    [] op \in BitOps -> BitOp(op, m, n)

IntOp(op, a, b) ==
  IF ~Both("int", a, b) \/ IntTraps(op, a, b) THEN Junk
  ELSE IF op \in Comparisons THEN Truth(Compare(op, a.num, b.num))
  ELSE IntWord(Signed(IntResult(op, a.num, b.num)))

DblOp(op, a, b) ==
  IF ~Both("dbl", a, b) \/ (op = "/" /\ b.num = 0) THEN Junk
  ELSE CASE op = "+" -> DblWord(a.num + b.num)
         [] op = "-" -> DblWord(a.num - b.num)
         [] op = "*" -> DblWord(Quot(a.num * b.num, One))
         [] op = "/" -> DblWord(Quot(a.num * One, b.num))
         [] OTHER -> Truth(Compare(op, a.num, b.num))

UnOp(op, w) ==
  IF op = "+" THEN w
  ELSE IF w.rep # (IF op = "btc" THEN "dbl" ELSE "int") THEN Junk
  ELSE CASE op = "btc" -> DblWord(-w.num)
         [] op = "-" -> IntWord(Signed(-w.num))
         [] op = "!" -> Truth(w.num = 0)
         [] op = "~" -> IntWord(Signed(-w.num - 1))

(* str_concat, and int_to_str or char_to_str.                              *)
Concat(a, b) == IF Both("str", a, b) THEN TextWord(a.text \o b.text) ELSE Junk
ToText(w) == IF w.rep = "int" THEN TextWord(<<"digits">>) ELSE Junk
=============================================================================
