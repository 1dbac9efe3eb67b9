--------------------------- MODULE SupportProofs ----------------------------
(***************************************************************************)
(* What holds around the three passes, in four parts.                      *)
(*                                                                         *)
(* The strings of a compiled program, for a heap of any size and any       *)
(* texts: StringsLastWithinHeap is inductive with HeapTypeOK.  Strings     *)
(* only get added, so as long as all of them fit, all fitted before, and   *)
(* the offset is past them.  The new string starts there: it is written    *)
(* over nothing.  print_str adds nothing to the heap, so it reads back     *)
(* what was written.  The digit loops are recursive functions: that what   *)
(* they write denotes the number is shown by induction on it and on the    *)
(* digits written.                                                         *)
(*                                                                         *)
(* Its sthir locals, for any nesting of calls: InitialisedBeforeUse needs  *)
(* to know that an evaluation has begun where one is going on, and         *)
(* KeptUnlessReentered that without re-entrance only the innermost         *)
(* activation can be at it, with the byte still zero.                      *)
(*                                                                         *)
(* What ./out holds, for any number of compilations in one directory.      *)
(* None of the three properties of ./out is inductive: each speaks of the  *)
(* end, of which the files on the way decide.  IInv says what they hold    *)
(* while a process, or the command one left behind, works on them, and     *)
(* that whoever comes later has already replaced what the others left.     *)
(* All of it rests on Meeting: an active process that met nobody is alone. *)
(*                                                                         *)
(* And the arena inside one of them, for every block size, every set of    *)
(* types and every placement of the blocks.                                *)
(***************************************************************************)
EXTENDS Printing, StaticInit, Driver, Arena, Induction, SequenceTheorems, TLAPS

(* The bytes taken are whole words, and enough for the length word and the *)
(* text, at every length.                                                  *)
LEMMA TakenIsEnough ==
  ASSUME NEW len \in Nat
  PROVE  Taken(len) \in Nat /\ Taken(len) >= len + 8 /\ Taken(len) % 8 = 0
BY DEF Taken

LEMMA WordsAdd ==
  ASSUME NEW a \in Nat, NEW b \in Nat, a % 8 = 0, b % 8 = 0
  PROVE  (a + b) % 8 = 0
OBVIOUS

(* What Write() appends.                                                   *)
LEMMA Appended ==
  ASSUME HeapTypeOK, NEW s \in String, NEW reads \in BOOLEAN, Write(s, reads)
  PROVE  /\ strings' \in Seq(String)
         /\ Len(strings') = Len(strings) + 1
         /\ \A i \in DOMAIN strings : strings'[i] = strings[i]
         /\ strings'[Len(strings) + 1] = s
         /\ DOMAIN strings' = DOMAIN strings \cup {Len(strings) + 1}
BY DEF HeapTypeOK, Write

(* Strings have an address and a size.                                     *)
LEMMA SizesAreNumbers ==
  ASSUME NEW s \in String
  PROVE  s.at \in Nat /\ Len(s.text) \in Nat /\ Size(s) \in Nat /\ Size(s) >= 8
BY DEF String, Size

(* A text to be written is a sequence of bytes.                            *)
LEMMA OperandsAreTexts ==
  ASSUME HeapTypeOK
  PROVE  Operands \subseteq Seq(Byte)
<1>1. \A i \in intact : strings[i] \in String
  BY DEF HeapTypeOK
<1>2. \A i \in intact : strings[i].text \in Seq(Byte)
  BY <1>1 DEF String
<1> QED
  BY <1>2, StringHeapAssumption DEF Operands

-----------------------------------------------------------------------------
LEMMA WriteTyped ==
  ASSUME HeapTypeOK, NEW s \in String, NEW reads \in BOOLEAN, Write(s, reads)
  PROVE  /\ strings' \in Seq(String)
         /\ intact' \subseteq DOMAIN strings'
         /\ varsIntact' \in BOOLEAN
<1>1. intact' \subseteq DOMAIN strings'
  BY Appended DEF HeapTypeOK, Write
<1>2. varsIntact' \in BOOLEAN
  BY DEF HeapTypeOK, Write
<1> QED
  BY <1>1, <1>2, Appended

(* A string put at the offset, with the offset moved past it by whole      *)
(* words, keeps the property.                                              *)
LEMMA WriteKeeps ==
  ASSUME HeapTypeOK, StringsLastWithinHeap, offset # Lost,
         NEW text \in Seq(Byte), NEW reads \in BOOLEAN, NEW moved \in Nat,
         Write([at |-> offset, text |-> text], reads),
         LET s == [at |-> offset, text |-> text]
         IN  ~LengthHitsOffset(s) /\ ~TextHitsOffset(s)
               => /\ reads
                  /\ offset' = offset + moved
                  /\ moved >= Len(text) + 8
                  /\ moved % 8 = 0
  PROVE  StringsLastWithinHeap'
<1> DEFINE s == [at |-> offset, text |-> text]
           n == Len(strings) + 1
<1>1. s \in String /\ s.at = offset /\ offset \in Nat
  BY DEF HeapTypeOK, Lost, String
<1>2. /\ strings' \in Seq(String)
      /\ \A i \in DOMAIN strings : strings'[i] = strings[i]
      /\ strings'[n] = s
      /\ DOMAIN strings' = DOMAIN strings \cup {n}
  <2>1. Write(s, reads)
    OBVIOUS
  <2> HIDE DEF s
  <2> QED
    BY <1>1, <2>1, Appended
<1>3. \A i \in DOMAIN strings : strings[i] \in String
  BY DEF HeapTypeOK
<1>4. SUFFICES ASSUME WithinHeap'
               PROVE  /\ (intact = DOMAIN strings)'
                      /\ varsIntact'
                      /\ (offset % 8 = 0)'
                      /\ \A i \in DOMAIN strings' :
                           strings'[i].at + Size(strings'[i]) <= offset'
                      /\ \A i, j \in DOMAIN strings' :
                           i = j \/ ~Overlap(strings'[i].at, Size(strings'[i]),
                                             strings'[j].at, Size(strings'[j]))
  BY DEF StringsLastWithinHeap, Size
<1>5. s.at + Size(s) <= HeapBytes
  BY <1>2, <1>4 DEF WithinHeap, Size
<1>6. WithinHeap
  BY <1>2, <1>4 DEF WithinHeap, Size
<1>7. /\ intact = DOMAIN strings
      /\ varsIntact
      /\ offset % 8 = 0
      /\ \A i \in DOMAIN strings : strings[i].at + Size(strings[i]) <= offset
      /\ \A i, j \in DOMAIN strings :
           i = j \/ ~Overlap(strings[i].at, Size(strings[i]),
                             strings[j].at, Size(strings[j]))
  BY <1>6 DEF StringsLastWithinHeap
<1>8. Size(s) \in Nat /\ Size(s) >= 8 /\ Len(text) \in Nat /\ Size(s) = 8 + Len(text)
  BY <1>1, SizesAreNumbers DEF Size
<1>9. ~LengthHitsOffset(s) /\ ~TextHitsOffset(s) /\ ~HitsVars(s)
  <2>1. s.text = text
    OBVIOUS
  <2> QED
    BY <1>1, <1>5, <1>8, <2>1, StringHeapAssumption
    DEF LengthHitsOffset, TextHitsOffset, HitsVars, Overlap
<1>10. \A i \in DOMAIN strings :
         /\ strings[i].at \in Nat /\ Size(strings[i]) \in Nat
         /\ Size(strings[i]) >= 8
  BY <1>3, SizesAreNumbers
<1> HIDE DEF s, n
<1>11. \A i \in DOMAIN strings :
         /\ ~Overlap(strings[i].at, Size(strings[i]), s.at, Size(s))
         /\ ~Overlap(s.at, Size(s), strings[i].at, Size(strings[i]))
  BY <1>1, <1>7, <1>8, <1>10 DEF Overlap
<1>12. Overwritten(s) = {}
  BY <1>11 DEF Overwritten
<1>13. reads /\ offset' = offset + moved /\ moved >= Len(text) + 8 /\ moved % 8 = 0
  BY <1>9 DEF s
<1>14. intact' = DOMAIN strings'
  BY <1>2, <1>7, <1>12, <1>13 DEF Write, s, n
<1>15. varsIntact'
  BY <1>7, <1>9 DEF Write, s
<1>16. offset' % 8 = 0
  BY <1>1, <1>7, <1>13, WordsAdd
<1>17. \A i \in DOMAIN strings' : strings'[i].at + Size(strings'[i]) <= offset'
  <2>1. s.at + Size(s) <= offset'
    BY <1>1, <1>8, <1>13
  <2>2. ASSUME NEW i \in DOMAIN strings
        PROVE  strings[i].at + Size(strings[i]) <= offset'
    <3>1. strings[i].at + Size(strings[i]) <= offset
      BY <1>7
    <3>2. strings[i].at + Size(strings[i]) \in Nat
      BY <1>10
    <3>3. offset <= offset'
      BY <1>1, <1>13
    <3>4. offset' \in Nat
      BY <1>1, <1>13
    <3> QED
      BY <1>1, <3>1, <3>2, <3>3, <3>4
  <2> QED
    BY <1>2, <2>1, <2>2
<1>18. \A i, j \in DOMAIN strings' :
         i = j \/ ~Overlap(strings'[i].at, Size(strings'[i]),
                           strings'[j].at, Size(strings'[j]))
  BY <1>2, <1>7, <1>11
<1> QED
  BY <1>14, <1>15, <1>16, <1>17, <1>18

-----------------------------------------------------------------------------
HeapInv == HeapTypeOK /\ StringsLastWithinHeap

LEMMA StrConcatKeeps ==
  ASSUME HeapInv, StrConcat
  PROVE  HeapInv'
<1>1. PICK a, b \in Operands :
        LET s == [at |-> offset, text |-> a \o b]
        IN  /\ CanMake(s.text)
            /\ Write(s, ~LengthHitsOffset(s))
            /\ offset' = IF TextHitsOffset(s) THEN Lost
                         ELSE offset + Taken(Len(s.text))
  BY DEF StrConcat
<1> DEFINE text == a \o b
           s == [at |-> offset, text |-> text]
<1>2. text \in Seq(Byte) /\ Len(text) \in Nat
  BY OperandsAreTexts DEF HeapInv
<1> HIDE DEF text
<1>3. /\ offset # Lost /\ offset \in Nat /\ s \in String
  BY <1>1, <1>2 DEF CanMake, HeapInv, HeapTypeOK, String
<1>4. /\ Write(s, ~LengthHitsOffset(s))
      /\ offset' = IF TextHitsOffset(s) THEN Lost ELSE offset + Taken(Len(text))
  BY <1>1 DEF text
<1>5. /\ Taken(Len(text)) \in Nat /\ Taken(Len(text)) >= Len(text) + 8
      /\ Taken(Len(text)) % 8 = 0
  BY <1>2, TakenIsEnough
<1>6. HeapTypeOK'
  <2>1. offset' \in Nat \cup {Lost}
    BY <1>2, <1>3, <1>4, <1>5
  <2>2. (~LengthHitsOffset(s)) \in BOOLEAN
    BY DEF LengthHitsOffset, Overlap
  <2> HIDE DEF s
  <2>3. /\ strings' \in Seq(String)
        /\ intact' \subseteq DOMAIN strings'
        /\ varsIntact' \in BOOLEAN
    BY <1>3, <1>4, <2>2, WriteTyped DEF HeapInv
  <2> QED
    BY <2>1, <2>3 DEF HeapTypeOK
<1>7. StringsLastWithinHeap'
  BY <1>2, <1>3, <1>4, <1>5, WriteKeeps DEF HeapInv, LengthHitsOffset, Overlap
<1> QED
  BY <1>6, <1>7 DEF HeapInv

LEMMA CharToStrKeeps ==
  ASSUME HeapInv, CharToStr
  PROVE  HeapInv'
<1>1. PICK c \in Chars :
        LET s == [at |-> offset, text |-> <<c>>]
        IN  /\ CanMake(s.text)
            /\ Write(s, ~LengthHitsOffset(s) /\ ~TextHitsOffset(s))
            /\ offset' = offset + 16
  BY DEF CharToStr
<1> DEFINE text == <<c>>
           s == [at |-> offset, text |-> text]
<1>2. text \in Seq(Byte) /\ Len(text) = 1
  BY StringHeapAssumption
<1> HIDE DEF text
<1>3. /\ offset # Lost /\ offset \in Nat /\ s \in String
  BY <1>1, <1>2 DEF CanMake, HeapInv, HeapTypeOK, String
<1>4. /\ Write(s, ~LengthHitsOffset(s) /\ ~TextHitsOffset(s))
      /\ offset' = offset + 16
  BY <1>1 DEF text
<1>5. (~LengthHitsOffset(s) /\ ~TextHitsOffset(s)) \in BOOLEAN
  OBVIOUS
<1>6. HeapTypeOK'
  <2>1. offset' \in Nat \cup {Lost}
    BY <1>3, <1>4
  <2> HIDE DEF s
  <2>2. /\ strings' \in Seq(String)
        /\ intact' \subseteq DOMAIN strings'
        /\ varsIntact' \in BOOLEAN
    BY <1>3, <1>4, <1>5, WriteTyped DEF HeapInv
  <2> QED
    BY <2>1, <2>2 DEF HeapTypeOK
<1>7. 16 \in Nat /\ 16 >= Len(text) + 8 /\ 16 % 8 = 0
  BY <1>2
<1>8. StringsLastWithinHeap'
  BY <1>2, <1>3, <1>4, <1>5, <1>7, WriteKeeps DEF HeapInv
<1> QED
  BY <1>6, <1>8 DEF HeapInv

LEMMA IntToStrKeeps ==
  ASSUME HeapInv, IntToStr
  PROVE  HeapInv'
<1>1. PICK text \in Decimals :
        LET s == [at |-> offset, text |-> text]
        IN  /\ CanMake(text)
            /\ Write(s, ~LengthHitsOffset(s))
            /\ offset' = IF TextHitsOffset(s) THEN Lost
                         ELSE Taken(Len(text))
                              + (IF LengthHitsOffset(s) THEN Len(text) ELSE offset)
  BY DEF IntToStr
<1> DEFINE s == [at |-> offset, text |-> text]
<1>2. text \in Seq(Byte) /\ Len(text) \in Nat
  BY StringHeapAssumption
<1>3. /\ offset # Lost /\ offset \in Nat /\ s \in String
  BY <1>1, <1>2 DEF CanMake, HeapInv, HeapTypeOK, String
<1>4. /\ Write(s, ~LengthHitsOffset(s))
      /\ offset' = IF TextHitsOffset(s) THEN Lost
                   ELSE Taken(Len(text))
                        + (IF LengthHitsOffset(s) THEN Len(text) ELSE offset)
  BY <1>1
<1>5. /\ Taken(Len(text)) \in Nat /\ Taken(Len(text)) >= Len(text) + 8
      /\ Taken(Len(text)) % 8 = 0
  BY <1>2, TakenIsEnough
<1>6. HeapTypeOK'
  <2>1. offset' \in Nat \cup {Lost}
    BY <1>2, <1>3, <1>4, <1>5
  <2>2. (~LengthHitsOffset(s)) \in BOOLEAN
    BY DEF LengthHitsOffset, Overlap
  <2> HIDE DEF s
  <2>3. /\ strings' \in Seq(String)
        /\ intact' \subseteq DOMAIN strings'
        /\ varsIntact' \in BOOLEAN
    BY <1>3, <1>4, <2>2, WriteTyped DEF HeapInv
  <2> QED
    BY <2>1, <2>3 DEF HeapTypeOK
<1>7. ~LengthHitsOffset(s) /\ ~TextHitsOffset(s)
        => offset' = offset + Taken(Len(text))
  BY <1>3, <1>4, <1>5
<1>8. StringsLastWithinHeap'
  BY <1>2, <1>3, <1>4, <1>5, <1>7, WriteKeeps DEF HeapInv, LengthHitsOffset, Overlap
<1> QED
  BY <1>6, <1>8 DEF HeapInv

LEMMA HeapInvariance == HeapSpec => []HeapInv
<1>1. HeapInit => HeapInv
  BY DEF HeapInit, HeapInv, HeapTypeOK, String, StringsLastWithinHeap, WithinHeap
<1>2. HeapInv /\ [HeapNext]_heapVars => HeapInv'
  <2>1. HeapInv /\ UNCHANGED heapVars => HeapInv'
    BY DEF heapVars, HeapInv, HeapTypeOK, StringsLastWithinHeap, WithinHeap, Size
  <2> QED
    BY <2>1, StrConcatKeeps, CharToStrKeeps, IntToStrKeeps DEF HeapNext
<1> QED
  BY <1>1, <1>2, PTL DEF HeapSpec

(* Every variable of the heap keeps its type; the offset is never below 0. *)
THEOREM HeapTypeCorrectness == HeapSpec => []HeapTypeOK
<1>1. HeapInv => HeapTypeOK
  BY DEF HeapInv
<1> QED
  BY <1>1, HeapInvariance, PTL

(* While the strings made fit str_heap, whatever their number and lengths  *)
(* and however they are made of each other, each keeps its length and text.*)
THEOREM StringsLast == HeapSpec => []StringsLastWithinHeap
<1>1. HeapInv => StringsLastWithinHeap
  BY DEF HeapInv
<1> QED
  BY <1>1, HeapInvariance, PTL

-----------------------------------------------------------------------------
(* Printing leaves the heap as it is: the program that also prints is one  *)
(* whose strings are made as StringHeap has it, so what is proved of the   *)
(* heap holds of it.                                                       *)
THEOREM PrintingKeepsHeap == PrintSpec => HeapSpec /\ []StringsLastWithinHeap
<1>1. PrintInit => HeapInit
  BY DEF PrintInit
<1>2. [PrintNext]_allVars => [HeapNext]_heapVars
  BY DEF PrintNext, PrintInt, PrintFloat, PrintChar, PrintStr, Written, allVars
<1>3. PrintSpec => HeapSpec
  BY <1>1, <1>2, PTL DEF PrintSpec, HeapSpec
<1> QED
  BY <1>3, StringsLast, PTL

(* What print_str shows is the text its string was made with.              *)
StringsAreRight ==
  line.routine = "print_str" /\ WithinHeap => line.text = strings[line.arg].text

LEMMA PrintStepKeeps ==
  ASSUME HeapInv, StringsAreRight, [PrintNext]_allVars
  PROVE  StringsAreRight'
<1>1. CASE UNCHANGED allVars
  BY <1>1 DEF allVars, heapVars, StringsAreRight, WithinHeap, Size
<1>2. CASE HeapNext /\ line' = NoLine
  BY <1>2 DEF NoLine, StringsAreRight
<1>3. ASSUME NEW routine, NEW arg, NEW text, Written(routine, arg, text),
             routine # "print_str"
      PROVE  StringsAreRight'
  BY <1>3 DEF Written, StringsAreRight
<1>4. CASE PrintInt
  BY <1>3, <1>4 DEF PrintInt
<1>5. CASE PrintFloat
  BY <1>3, <1>5 DEF PrintFloat
<1>6. CASE PrintChar
  BY <1>3, <1>6 DEF PrintChar
<1>7. CASE PrintStr
  <2>1. PICK i \in DOMAIN strings :
          Written("print_str", i, IF i \in intact THEN strings[i].text ELSE Garbage)
    BY <1>7 DEF PrintStr
  <2>2. UNCHANGED strings
    BY <2>1 DEF Written, heapVars
  <2>3. WithinHeap' => i \in intact
    BY <2>2 DEF HeapInv, StringsLastWithinHeap, WithinHeap, Size
  <2>4. /\ line'.arg = i
        /\ i \in intact => line'.text = strings[i].text
    BY <2>1 DEF Written
  <2> QED
    BY <2>2, <2>3, <2>4 DEF StringsAreRight
<1> QED
  BY <1>1, <1>2, <1>4, <1>5, <1>6, <1>7 DEF PrintNext

(* What leeh() shows of a string made at run time is the text the string   *)
(* was made with, however many were made since, while they fit str_heap:   *)
(* the last case of LinesAreRight.                                         *)
THEOREM StringsReadBack == PrintSpec => []StringsAreRight
<1>1. PrintInit => StringsAreRight
  BY DEF PrintInit, NoLine, StringsAreRight
<1>2. HeapInv /\ StringsAreRight /\ [PrintNext]_allVars => StringsAreRight'
  BY PrintStepKeeps
<1>3. PrintSpec => []HeapInv
  BY PrintingKeepsHeap, HeapInvariance, PTL
<1> QED
  BY <1>1, <1>2, <1>3, PTL DEF PrintSpec

-----------------------------------------------------------------------------
LEMMA BelowNat ==
  ASSUME NEW n \in Nat, NEW m \in Nat, m < n
  PROVE  m \in Below(Nat, [k \in Nat |-> k], n)
BY DEF Below

LEMMA PowerEquation ==
  /\ Power \in [Nat -> Nat]
  /\ \A k \in Nat : Power[k] = IF k = 0 THEN 1 ELSE 10 * Power[k - 1]
<1> DEFINE size == [k \in Nat |-> k]
           step == [k \in Nat |-> [h \in [Below(Nat, size, k) -> Nat] |->
                      IF k = 0 THEN 1 ELSE 10 * h[k - 1]]]
<1>1. ASSUME NEW k \in Nat, k # 0 PROVE k - 1 \in Below(Nat, size, k)
  BY <1>1, BelowNat
<1>2. IsStep(Nat, Nat, size, step)
  <2> SUFFICES ASSUME NEW k \in Nat, NEW h \in [Below(Nat, size, k) -> Nat]
               PROVE  (IF k = 0 THEN 1 ELSE 10 * h[k - 1]) \in Nat
    BY DEF IsStep
  <2> CASE k = 0
    OBVIOUS
  <2> CASE k # 0
    <3>1. h[k - 1] \in Nat
      BY <1>1
    <3> QED BY <3>1
  <2> QED OBVIOUS
<1>3. size \in [Nat -> Nat]
  OBVIOUS
<1>4. PICK f \in [Nat -> Nat] : Follows(Nat, size, step, f)
  <2> HIDE DEF step, size
  <2> QED BY <1>2, <1>3, Recursion, Zenon
<1>5. \A k \in Nat : f[k] = IF k = 0 THEN 1 ELSE 10 * f[k - 1]
  <2> SUFFICES ASSUME NEW k \in Nat
               PROVE  f[k] = IF k = 0 THEN 1 ELSE 10 * f[k - 1]
    OBVIOUS
  <2>1. [e \in Below(Nat, size, k) |-> f[e]] \in [Below(Nat, size, k) -> Nat]
    BY DEF Below
  <2>2. k # 0 => [e \in Below(Nat, size, k) |-> f[e]][k - 1] = f[k - 1]
    BY <1>1
  <2> HIDE DEF size
  <2> QED BY <1>4, <2>1, <2>2 DEF Follows
<1>6. f = [k \in Nat |-> IF k = 0 THEN 1 ELSE 10 * f[k - 1]]
  BY <1>5
<1>7. Power = [k \in Nat |-> IF k = 0 THEN 1 ELSE 10 * Power[k - 1]]
  BY <1>6 DEF Power
<1>8. \A k \in Nat : Power[k] = IF k = 0 THEN 1 ELSE 10 * Power[k - 1]
  BY <1>7
<1>9. Power \in [Nat -> Nat]
  <2> DEFINE P == {k \in Nat : Power[k] \in Nat}
  <2>1. 0 \in P
    BY <1>8
  <2>2. \A k \in Nat : k \in P => k + 1 \in P
    BY <1>8
  <2>3. Nat \subseteq P
    <3> HIDE DEF P
    <3> QED BY <2>1, <2>2, InductionOnNat
  <2> QED BY <1>7, <2>3
<1> QED BY <1>8, <1>9

(* A power of ten is at least 1.                                           *)
LEMMA PowerPositive == \A k \in Nat : Power[k] >= 1
<1> DEFINE P == {k \in Nat : Power[k] >= 1}
<1>1. 0 \in P
  BY PowerEquation
<1>2. \A k \in Nat : k \in P => k + 1 \in P
  BY PowerEquation
<1>3. Nat \subseteq P
  <2> HIDE DEF P
  <2> QED BY <1>1, <1>2, InductionOnNat
<1> QED BY <1>3

LEMMA DigitsEquation ==
  /\ Digits \in [Nat -> Seq(Nat)]
  /\ \A n \in Nat :
       Digits[n] = IF n < 10 THEN <<Zero + n>>
                             ELSE Append(Digits[n \div 10], Zero + (n % 10))
<1> DEFINE size == [n \in Nat |-> n]
           body(n, h) == IF n < 10 THEN <<Zero + n>>
                          ELSE Append(h[n \div 10], Zero + (n % 10))
           step == [n \in Nat |->
                      [h \in [Below(Nat, size, n) -> Seq(Nat)] |-> body(n, h)]]
<1>1. ASSUME NEW n \in Nat, ~ (n < 10)
      PROVE  n \div 10 \in Below(Nat, size, n)
  <2>1. n \div 10 \in Nat /\ n \div 10 < n
    BY <1>1
  <2> QED BY <2>1, BelowNat
<1>2. ASSUME NEW n \in Nat, NEW h \in [Below(Nat, size, n) -> Seq(Nat)]
      PROVE  body(n, h) \in Seq(Nat)
  <2>1. Zero + n \in Nat /\ Zero + (n % 10) \in Nat
    BY DEF Zero
  <2>2. CASE n < 10
    BY <2>1, <2>2
  <2>3. CASE ~ (n < 10)
    <3>1. h[n \div 10] \in Seq(Nat)
      BY <1>1, <2>3
    <3> QED BY <2>1, <2>3, <3>1
  <2> QED BY <2>2, <2>3
<1> HIDE DEF body
<1>3. size \in [Nat -> Nat]
  OBVIOUS
<1>4. IsStep(Nat, Seq(Nat), size, step)
  BY <1>2 DEF IsStep
<1>5. PICK f \in [Nat -> Seq(Nat)] : Follows(Nat, size, step, f)
  <2> HIDE DEF step, size
  <2> QED BY <1>3, <1>4, Recursion
<1>6. \A n \in Nat : f[n] = body(n, f)
  <2> SUFFICES ASSUME NEW n \in Nat
               PROVE  f[n] = body(n, f)
    OBVIOUS
  <2> DEFINE h == [e \in Below(Nat, size, n) |-> f[e]]
  <2>1. h \in [Below(Nat, size, n) -> Seq(Nat)]
    BY DEF Below
  <2>2. f[n] = body(n, h)
    BY <1>5, <2>1 DEF Follows
  <2>3. ~ (n < 10) => h[n \div 10] = f[n \div 10]
    BY <1>1
  <2> QED BY <2>2, <2>3 DEF body
<1>7. f = [n \in Nat |-> body(n, f)]
  BY <1>6
<1>8. Digits = [n \in Nat |-> body(n, Digits)]
  BY <1>7 DEF Digits, body
<1>10. \A n \in Nat : Digits[n] = body(n, Digits)
  BY <1>8
<1>9. Digits \in [Nat -> Seq(Nat)]
  <2> DEFINE P == {n \in Nat : Digits[n] \in Seq(Nat)}
  <2>1. ASSUME NEW n \in Nat, \A e \in Nat : size[e] < size[n] => e \in P
        PROVE  n \in P
    <3>1. ~ (n < 10) => Digits[n \div 10] \in Seq(Nat)
      <4> SUFFICES ASSUME ~ (n < 10) PROVE  Digits[n \div 10] \in Seq(Nat)
        OBVIOUS
      <4>1. n \div 10 \in Nat /\ n \div 10 < n
        OBVIOUS
      <4> QED BY <2>1, <4>1
    <3>2. Zero + n \in Nat /\ Zero + (n % 10) \in Nat
      BY DEF Zero
    <3>3. body(n, Digits) \in Seq(Nat)
      BY <3>1, <3>2 DEF body
    <3> QED BY <1>10, <3>3
  <2>2. Nat \subseteq P
    <3> HIDE DEF P, size
    <3> QED BY <1>3, <2>1, MeasureInduction
  <2> QED BY <1>8, <2>2
<1> QED BY <1>9, <1>10 DEF body

LEMMA FrontProperties ==
  ASSUME NEW S, NEW s \in Seq(S), s # <<>>
  PROVE  Front(s) \in Seq(S) /\ Len(Front(s)) = Len(s) - 1
<1> DEFINE n == Len(s) - 1
<1>1. n \in Nat /\ \A i \in 1..n : s[i] \in S
  <2>1. Len(s) \in Nat /\ Len(s) # 0
    BY EmptySeq
  <2> QED BY <2>1
<1>2. SubSeq(s, 1, n) \in Seq(S) /\ Len(SubSeq(s, 1, n)) = n
  <2> HIDE DEF n
  <2> QED BY <1>1, SubSeqProperties
<1>3. Front(s) = SubSeq(s, 1, n)
  BY DEF Front
<1> HIDE DEF n
<1> QED BY <1>1, <1>2, <1>3 DEF n

LEMMA FrontOfAppend ==
  ASSUME NEW S, NEW s \in Seq(S), NEW c \in S
  PROVE  Front(Append(s, c)) = s
<1> DEFINE t == Append(s, c)
<1>1. t \in Seq(S) /\ Len(t) = Len(s) + 1 /\ \A i \in 1..Len(s) : t[i] = s[i]
  BY AppendProperties
<1>2. Front(t) = SubSeq(t, 1, Len(s))
  BY <1>1 DEF Front
<1>3. /\ SubSeq(t, 1, Len(s)) \in Seq(S)
      /\ Len(SubSeq(t, 1, Len(s))) = Len(s)
      /\ \A i \in 1..Len(s) : SubSeq(t, 1, Len(s))[i] = t[i]
  <2> HIDE DEF t
  <2>1. \A i \in 1..Len(s) : t[i] \in S
    BY <1>1
  <2> QED BY <2>1, SubSeqProperties
<1> HIDE DEF t
<1>4. Front(t) = s
  BY <1>1, <1>2, <1>3, SeqEqual
<1> QED BY <1>4 DEF t

LEMMA NumeralEquation ==
  /\ Numeral \in [Seq(Nat) -> Int]
  /\ Numeral[<<>>] = 0
  /\ \A ds \in Seq(Nat), c \in Nat :
       Numeral[Append(ds, c)] = 10 * Numeral[ds] + (c - Zero)
<1> DEFINE size == [ds \in Seq(Nat) |-> Len(ds)]
           body(ds, h) == IF ds = <<>> THEN 0 ELSE 10 * h[Front(ds)] + (Last(ds) - Zero)
           step == [ds \in Seq(Nat) |->
                      [h \in [Below(Seq(Nat), size, ds) -> Int] |-> body(ds, h)]]
<1>1. ASSUME NEW ds \in Seq(Nat), ds # <<>>
      PROVE  Front(ds) \in Below(Seq(Nat), size, ds) /\ Last(ds) \in Nat
  <2>1. Len(ds) \in Nat /\ Len(ds) > 0
    BY <1>1
  <2>2. Front(ds) \in Seq(Nat) /\ Len(Front(ds)) = Len(ds) - 1
    BY <1>1, FrontProperties
  <2>3. Last(ds) \in Nat
    BY <2>1 DEF Last
  <2> QED BY <2>1, <2>2, <2>3 DEF Below
<1>2. ASSUME NEW ds \in Seq(Nat), NEW h \in [Below(Seq(Nat), size, ds) -> Int]
      PROVE  body(ds, h) \in Int
  <2>1. CASE ds = <<>>
    BY <2>1
  <2>2. CASE ds # <<>>
    <3>1. h[Front(ds)] \in Int
      BY <1>1, <2>2
    <3>2. Last(ds) - Zero \in Int
      BY <1>1, <2>2 DEF Zero
    <3> QED BY <2>2, <3>1, <3>2
  <2> QED BY <2>1, <2>2
<1> HIDE DEF body
<1>3. size \in [Seq(Nat) -> Nat]
  OBVIOUS
<1>4. IsStep(Seq(Nat), Int, size, step)
  BY <1>2 DEF IsStep
<1>5. PICK f \in [Seq(Nat) -> Int] : Follows(Seq(Nat), size, step, f)
  <2> HIDE DEF step, size
  <2> QED BY <1>3, <1>4, Recursion
<1>6. \A ds \in Seq(Nat) : f[ds] = body(ds, f)
  <2> SUFFICES ASSUME NEW ds \in Seq(Nat)
               PROVE  f[ds] = body(ds, f)
    OBVIOUS
  <2> DEFINE h == [e \in Below(Seq(Nat), size, ds) |-> f[e]]
  <2>1. h \in [Below(Seq(Nat), size, ds) -> Int]
    BY DEF Below
  <2>2. f[ds] = body(ds, h)
    BY <1>5, <2>1 DEF Follows
  <2>3. ds # <<>> => h[Front(ds)] = f[Front(ds)]
    BY <1>1
  <2> QED BY <2>2, <2>3 DEF body
<1>7. f = [ds \in Seq(Nat) |-> body(ds, f)]
  BY <1>6
<1>8. Numeral = [ds \in Seq(Nat) |-> body(ds, Numeral)]
  BY <1>7 DEF Numeral, body
<1>10. \A ds \in Seq(Nat) : Numeral[ds] = body(ds, Numeral)
  BY <1>8
<1>9. Numeral \in [Seq(Nat) -> Int]
  <2> DEFINE P == {ds \in Seq(Nat) : Numeral[ds] \in Int}
  <2>1. ASSUME NEW ds \in Seq(Nat), \A e \in Seq(Nat) : size[e] < size[ds] => e \in P
        PROVE  ds \in P
    <3>1. ASSUME ds # <<>>
          PROVE  Numeral[Front(ds)] \in Int /\ Last(ds) - Zero \in Int
      <4>1. Front(ds) \in Seq(Nat) /\ size[Front(ds)] < size[ds] /\ Last(ds) \in Nat
        BY <1>1, <3>1 DEF Below
      <4>2. Numeral[Front(ds)] \in Int
        <5> HIDE DEF size
        <5> QED BY <2>1, <4>1
      <4> QED BY <4>1, <4>2 DEF Zero
    <3>2. body(ds, Numeral) \in Int
      BY <3>1 DEF body
    <3> QED BY <1>10, <3>2
  <2>2. Seq(Nat) \subseteq P
    <3> DEFINE D == Seq(Nat)
    <3>1. size \in [D -> Nat]
      BY <1>3
    <3>2. \A d \in D : (\A e \in D : size[e] < size[d] => e \in P) => d \in P
      BY <2>1
    <3>3. D \subseteq P
      <4> HIDE DEF P, size, D
      <4> QED BY <3>1, <3>2, MeasureInduction
    <3> QED BY <3>3
  <2> QED BY <1>8, <2>2
<1>11. Numeral[<<>>] = 0
  BY <1>10, EmptySeq DEF body
<1>12. ASSUME NEW ds \in Seq(Nat), NEW c \in Nat
       PROVE  Numeral[Append(ds, c)] = 10 * Numeral[ds] + (c - Zero)
  <2>1. /\ Append(ds, c) \in Seq(Nat) /\ Append(ds, c) # <<>>
        /\ Last(Append(ds, c)) = c
    BY DEF Last
  <2>2. Front(Append(ds, c)) = ds
    BY FrontOfAppend
  <2>3. Numeral[Append(ds, c)] = body(Append(ds, c), Numeral)
    BY <1>10, <2>1
  <2> QED BY <2>1, <2>2, <2>3 DEF body
<1> QED BY <1>9, <1>11, <1>12

(* The digits written of a number are digits, the first of them not 0      *)
(* unless it is the only one, and they denote the number.                  *)
LEMMA DigitsDenote ==
  ASSUME NEW n \in Nat
  PROVE  /\ Digits[n] \in Seq(Nat) /\ Digits[n] # <<>>
         /\ \A i \in DOMAIN Digits[n] : IsDigit(Digits[n][i])
         /\ n > 0 => Digits[n][1] # Zero
         /\ Len(Digits[n]) > 1 => n > 0
         /\ Numeral[Digits[n]] = n
<1> DEFINE size == [m \in Nat |-> m]
           Q(m) == /\ Digits[m] # <<>>
                   /\ \A i \in DOMAIN Digits[m] : IsDigit(Digits[m][i])
                   /\ m > 0 => Digits[m][1] # Zero
                   /\ Len(Digits[m]) > 1 => m > 0
                   /\ Numeral[Digits[m]] = m
           P == {m \in Nat : Q(m)}
<1>1. size \in [Nat -> Nat]
  OBVIOUS
<1>2. ASSUME NEW m \in Nat, \A e \in Nat : size[e] < size[m] => e \in P
      PROVE  m \in P
  <2>1. CASE m < 10
    <3>1. Digits[m] = <<Zero + m>>
      BY <2>1, DigitsEquation
    <3>2. Zero + m \in Nat /\ IsDigit(Zero + m) /\ (m > 0 => Zero + m # Zero)
      BY <2>1 DEF Zero, IsDigit
    <3>3. Numeral[<<Zero + m>>] = m
      <4> DEFINE c == Zero + m
      <4>1. c \in Nat /\ c - Zero = m
        BY DEF Zero
      <4> HIDE DEF c
      <4>2. <<c>> = Append(<<>>, c) /\ <<>> \in Seq(Nat)
        BY <4>1
      <4>3. Numeral[Append(<<>>, c)] = 10 * Numeral[<<>>] + (c - Zero)
        BY <4>1, EmptySeq, NumeralEquation
      <4>4. Numeral[<<c>>] = m
        BY <4>1, <4>2, <4>3, NumeralEquation
      <4> QED BY <4>4 DEF c
    <3>4. Q(m)
      BY <3>1, <3>2, <3>3
    <3> QED BY <3>4
  <2>2. CASE ~ (m < 10)
    <3> DEFINE q == m \div 10
               c == Zero + (m % 10)
    <3>1. q \in Nat /\ q < m /\ q > 0 /\ m = 10 * q + (m % 10) /\ m % 10 \in 0..9
      BY <2>2
    <3>2. Q(q)
      <4>1. q \in P
        BY <1>2, <3>1
      <4> QED BY <4>1
    <3>3. Digits[m] = Append(Digits[q], c) /\ Digits[q] \in Seq(Nat)
      BY <2>2, <3>1, DigitsEquation
    <3>4. c \in Nat /\ IsDigit(c) /\ c - Zero = m % 10
      BY <3>1 DEF Zero, IsDigit
    <3> HIDE DEF q, c
    <3>5. Numeral[Digits[m]] = m
      <4>1. Numeral[Digits[m]] = 10 * Numeral[Digits[q]] + (c - Zero)
        BY <3>3, <3>4, NumeralEquation
      <4> QED BY <3>1, <3>2, <3>4, <4>1
    <3>6. \A i \in DOMAIN Digits[m] : IsDigit(Digits[m][i])
      BY <3>2, <3>3, <3>4
    <3>7. Digits[m][1] = Digits[q][1] /\ Digits[m] # <<>>
      <4>1. 1 \in 1..Len(Digits[q])
        BY <3>2, <3>3, EmptySeq
      <4> QED BY <3>3, <3>4, <4>1, AppendProperties
    <3>8. Q(m)
      BY <3>1, <3>2, <3>5, <3>6, <3>7
    <3> QED BY <3>8
  <2> QED BY <2>1, <2>2
<1>3. Nat \subseteq P
  <2> HIDE DEF P, size
  <2> QED BY <1>1, <1>2, MeasureInduction
<1>4. Q(n)
  BY <1>3
<1> QED BY <1>4, DigitsEquation

LEMMA DigitsAreANumeral ==
  ASSUME NEW n \in Nat
  PROVE  IsNumeral(Digits[n])
BY DigitsDenote DEF IsNumeral

(* A minus sign is no digit, so it shows where a number has one.           *)
LEMMA SignShows ==
  ASSUME NEW ds \in Seq(Nat), ds # <<>>, IsDigit(ds[1]), NEW negative \in BOOLEAN
  PROVE  /\ HasSign(Sign(negative) \o ds) <=> negative
         /\ Unsigned(Sign(negative) \o ds) = ds
<1>1. CASE negative
  <2>1. Sign(negative) \o ds = <<Minus>> \o ds
    BY <1>1 DEF Sign
  <2>2. <<Minus>> \o ds # <<>> /\ (<<Minus>> \o ds)[1] = Minus
    BY DEF Minus
  <2>3. Tail(<<Minus>> \o ds) = ds
    <3>1. <<Minus>> \in Seq(Nat)
      BY DEF Minus
    <3> DEFINE u == <<Minus>> \o ds
    <3>2. /\ u \in Seq(Nat) /\ Len(u) = 1 + Len(ds)
          /\ \A i \in 1..Len(ds) : u[i + 1] = ds[i]
      BY <3>1
    <3>3. u # <<>>
      BY <3>2
    <3> HIDE DEF u
    <3>4. /\ Tail(u) \in Seq(Nat) /\ Len(Tail(u)) = Len(u) - 1
          /\ \A i \in 1..Len(Tail(u)) : Tail(u)[i] = u[i + 1]
      BY <3>2, <3>3, HeadTailProperties, Zenon
    <3>5. Tail(u) = ds
      <4>1. PICK l \in Nat : l = Len(ds)
        OBVIOUS
      <4>2. PICK t : t = Tail(u)
        OBVIOUS
      <4>3. l = Len(ds) /\ t = Tail(u)
        BY <4>1, <4>2
      <4>4. Len(u) = 1 + l
        BY <3>2, <4>3
      <4>5. Len(t) = l
        BY <3>4, <4>3, <4>4
      <4>6. \A i \in 1..l : t[i] = u[i + 1]
        BY <3>4, <4>3, <4>5
      <4>7. \A i \in 1..l : u[i + 1] = ds[i]
        BY <3>2, <4>3
      <4>8. Len(t) = Len(ds) /\ \A i \in 1..Len(t) : t[i] = ds[i]
        BY <4>3, <4>5, <4>6, <4>7
      <4>9. t \in Seq(Nat)
        BY <3>4, <4>3
      <4> QED BY <4>3, <4>8, <4>9, SeqEqual
    <3> QED BY <3>5 DEF u
  <2> QED BY <1>1, <2>1, <2>2, <2>3 DEF HasSign, Unsigned
<1>2. CASE ~ negative
  <2>1. Sign(negative) \o ds = ds
    BY <1>2, ConcatEmptySeq DEF Sign
  <2>2. ds[1] # Minus
    BY DEF IsDigit, Zero, Minus
  <2> QED BY <1>2, <2>1, <2>2 DEF HasSign, Unsigned
<1> QED BY <1>1, <1>2

LEMMA Division ==
  ASSUME NEW a \in Int, NEW b \in Int, b > 0
  PROVE  /\ a \div b \in Int /\ a % b \in 0..(b - 1)
         /\ a = b * (a \div b) + (a % b)
<1>1. a \div b \in Int /\ a % b \in 0..(b - 1)
  OBVIOUS
<1>2. a = b * (a \div b) + (a % b)
  OBVIOUS
<1> QED BY <1>1, <1>2

LEMMA SmallRemainder ==
  ASSUME NEW a \in Nat, NEW b \in Nat \ {0}, a < b
  PROVE  a % b = a /\ a \div b = 0
<1>1. /\ a \div b \in Int /\ a % b \in 0..(b - 1)
      /\ a = b * (a \div b) + (a % b)
  OBVIOUS
<1>2. a \div b = 0
  <2> DEFINE q == a \div b
  <2>1. q \in Int /\ b * q <= a /\ a < b * (q + 1)
    BY <1>1
  <2> HIDE DEF q
  <2>2. ~ (q >= 1)
    <3> SUFFICES ASSUME q >= 1 PROVE FALSE
      OBVIOUS
    <3>1. b * q >= b
      BY <2>1
    <3> QED BY <2>1, <3>1
  <2>3. ~ (q <= -1)
    <3> SUFFICES ASSUME q <= -1 PROVE FALSE
      OBVIOUS
    <3>1. b * (q + 1) <= 0
      BY <2>1
    <3> QED BY <2>1, <3>1
  <2>4. q = 0
    BY <2>1, <2>2, <2>3
  <2> QED BY <2>4 DEF q
<1> QED BY <1>1, <1>2

(* What int_to_str and print_int write of any word, the smallest included, *)
(* is the integer the word holds.                                          *)
LEMMA IntTextDenotes ==
  ASSUME NEW w \in Word
  PROVE  IsIntegerText(IntText(w), w)
<1> DEFINE n == IF IsNegative(w) THEN Neg(w) ELSE w
<1>1. w \in Nat /\ WordSize \in Nat \ {0} /\ w < WordSize
  BY DecimalAssumption DEF Word
<1>2. n \in Nat /\ n = IF IsNegative(w) THEN WordSize - w ELSE w
  <2>1. CASE IsNegative(w)
    <3>1. w > 0
      BY <1>1, <2>1, DecimalAssumption DEF IsNegative
    <3>2. (WordSize - w) % WordSize = WordSize - w
      BY <1>1, <3>1, SmallRemainder
    <3> QED BY <1>1, <2>1, <3>2 DEF Neg
  <2>2. CASE ~ IsNegative(w)
    BY <1>1, <2>2
  <2> QED BY <2>1, <2>2
<1> HIDE DEF n
<1>3. IsNegative(w) \in BOOLEAN
  BY DEF IsNegative
<1>4. /\ Digits[n] \in Seq(Nat) /\ Digits[n] # <<>> /\ IsDigit(Digits[n][1])
      /\ Numeral[Digits[n]] = n
  BY <1>2, DigitsDenote
<1>5. IntText(w) = Sign(IsNegative(w)) \o Digits[n]
  BY DEF IntText, n
<1>6. (HasSign(IntText(w)) <=> IsNegative(w)) /\ Unsigned(IntText(w)) = Digits[n]
  BY <1>3, <1>4, <1>5, SignShows
<1>7. ~ HasSign(IntText(w)) => IntText(w) = Digits[n]
  BY <1>6 DEF Unsigned
<1>8. IsNumeral(Digits[n])
  BY <1>2, DigitsAreANumeral
<1> QED BY <1>1, <1>2, <1>4, <1>6, <1>7, <1>8 DEF IsIntegerText

LEMMA QuotientIsUnique ==
  ASSUME NEW a \in Nat, NEW b \in Nat \ {0}, NEW q \in Int, NEW r \in 0..(b - 1),
         a = b * q + r
  PROVE  a \div b = q /\ a % b = r
<1> DEFINE p == a \div b
           u == a % b
<1>1. p \in Int /\ u \in 0..(b - 1) /\ a = b * p + u
  OBVIOUS
<1> HIDE DEF p, u
<1>2. b * (p - q) = r - u
  BY <1>1
<1>3. ~ (p - q >= 1)
  <2> SUFFICES ASSUME p - q >= 1 PROVE FALSE
    OBVIOUS
  <2>1. b * (p - q) >= b
    BY <1>1
  <2> QED BY <1>1, <1>2, <2>1
<1>4. ~ (p - q <= -1)
  <2> SUFFICES ASSUME p - q <= -1 PROVE FALSE
    OBVIOUS
  <2>1. b * (p - q) <= -b
    BY <1>1
  <2> QED BY <1>1, <1>2, <2>1
<1>5. p = q
  BY <1>1, <1>3, <1>4
<1>6. u = r
  BY <1>1, <1>2, <1>5
<1> QED BY <1>5, <1>6 DEF p, u

(* The next digit of a quotient.                                           *)
LEMMA NextDigit ==
  ASSUME NEW a \in Nat, NEW b \in Nat \ {0}
  PROVE  /\ (a % (10 * b)) \div b \in 0..9
         /\ a \div b = 10 * (a \div (10 * b)) + (a % (10 * b)) \div b
<1> DEFINE q == a \div (10 * b)
           r == a % (10 * b)
           s == r \div b
           t == r % b
<1>1. 10 * b \in Nat \ {0}
  OBVIOUS
<1>2. q \in Int /\ r \in Nat /\ r < 10 * b /\ a = (10 * b) * q + r
  <2> DEFINE c == 10 * b
  <2>1. c \in Nat \ {0}
    BY <1>1
  <2>2. q = a \div c /\ r = a % c
    OBVIOUS
  <2> HIDE DEF c, q, r
  <2>3. q \in Int /\ r \in 0..(c - 1) /\ a = c * q + r
    BY <2>1, <2>2, Division
  <2> HIDE <2>2
  <2> QED BY <2>1, <2>3 DEF c
<1> HIDE DEF q, r
<1>3. s \in Int /\ t \in 0..(b - 1) /\ r = b * s + t
  BY <1>2
<1> HIDE DEF s, t
<1>4. ~ (s >= 10)
  <2> SUFFICES ASSUME s >= 10 PROVE FALSE
    OBVIOUS
  <2>1. b * s >= b * 10
    BY <1>3
  <2> QED BY <1>2, <1>3, <2>1
<1>5. ~ (s <= -1)
  <2> SUFFICES ASSUME s <= -1 PROVE FALSE
    OBVIOUS
  <2>1. b * s <= -b
    BY <1>3
  <2> QED BY <1>2, <1>3, <2>1
<1>6. a = b * (10 * q + s) + t
  BY <1>2, <1>3
<1>7. a \div b = 10 * q + s
  <2>1. 10 * q + s \in Int
    BY <1>2, <1>3
  <2> HIDE DEF q, s, t
  <2> QED BY <1>3, <1>6, <2>1, QuotientIsUnique
<1>8. s \in 0..9
  BY <1>3, <1>4, <1>5
<1> QED BY <1>7, <1>8 DEF q, r, s

LEMMA AppendToConcat ==
  ASSUME NEW S, NEW s \in Seq(S), NEW t \in Seq(S), NEW c \in S
  PROVE  s \o Append(t, c) = Append(s \o t, c)
<1> DEFINE u == s \o Append(t, c)
           v == Append(s \o t, c)
<1>1. u \in Seq(S) /\ v \in Seq(S) /\ Len(u) = Len(v)
  OBVIOUS
<1>2. \A i \in 1..Len(u) : u[i] = v[i]
  OBVIOUS
<1> HIDE DEF u, v
<1>3. u = v
  BY <1>1, <1>2, SeqEqual
<1> QED BY <1>3 DEF u, v

(* The digits after the point, and with those before it the whole number.  *)
FractionDigit(frac, k) ==
  Zero + (frac % Power[FracDigits - k + 1]) \div Power[FracDigits - k]

LEMMA FractionDenotes ==
  ASSUME NEW whole \in Nat, NEW frac \in Nat, frac < Scale
  PROVE  LET fd == [k \in 1..FracDigits |-> FractionDigit(frac, k)]
         IN  /\ fd \in Seq(Nat) /\ Len(fd) = FracDigits
             /\ \A k \in 1..FracDigits : IsDigit(fd[k])
             /\ Numeral[Digits[whole] \o fd] = whole * Scale + frac
<1> DEFINE d(k) == FractionDigit(frac, k)
           part(k) == [i \in 1..k |-> d(i)]
<1>1. FracDigits \in Nat \ {0}
  BY DecimalAssumption
<1>2. ASSUME NEW k \in 1..FracDigits
      PROVE  LET b == Power[FracDigits - k]
                 c == Power[FracDigits - k + 1]
             IN  /\ IsDigit(d(k)) /\ d(k) \in Nat
                 /\ frac \div b = 10 * (frac \div c) + (d(k) - Zero)
                 /\ frac \div c \in Int
  <2> DEFINE m == FracDigits - k
             b == Power[m]
             c == Power[m + 1]
  <2>1. m \in Nat
    BY <1>1
  <2> HIDE DEF m
  <2>2. b \in Nat \ {0} /\ c = 10 * b
    BY <2>1, PowerEquation, PowerPositive
  <2> HIDE DEF b
  <2>3. /\ (frac % c) \div b \in 0..9
        /\ frac \div b = 10 * (frac \div c) + (frac % c) \div b
    BY <2>2, NextDigit
  <2>4. frac \div c \in Int
    BY <2>2
  <2>5. d(k) = Zero + (frac % c) \div b
    BY DEF FractionDigit, m, b
  <2> HIDE DEF d, c
  <2>6. IsDigit(d(k)) /\ d(k) \in Nat /\ d(k) - Zero = (frac % c) \div b
    BY <2>3, <2>5 DEF IsDigit, Zero
  <2>7. /\ IsDigit(d(k)) /\ d(k) \in Nat
        /\ frac \div b = 10 * (frac \div c) + (d(k) - Zero)
        /\ frac \div c \in Int
    BY <2>3, <2>4, <2>6
  <2> QED BY <2>7 DEF b, c, m
<1> HIDE DEF d
<1> DEFINE Denotes(k) ==
             Numeral[Digits[whole] \o part(k)]
               = whole * Power[k] + frac \div Power[FracDigits - k]
           P == {k \in Nat : k <= FracDigits => Denotes(k)}
<1>3. Digits[whole] \in Seq(Nat) /\ Numeral[Digits[whole]] = whole
  BY DigitsDenote
<1>4. 0 \in P
  <2>1. part(0) = <<>>
    OBVIOUS
  <2>2. Digits[whole] \o part(0) = Digits[whole]
    BY <1>3, <2>1, ConcatEmptySeq
  <2>3. Power[FracDigits] \in Nat \ {0} /\ frac \div Power[FracDigits] = 0
    <3>1. Power[FracDigits] \in Nat \ {0} /\ frac < Power[FracDigits]
      BY <1>1, PowerEquation, PowerPositive DEF Scale
    <3> QED BY <3>1, SmallRemainder
  <2>4. Power[0] = 1 /\ FracDigits - 0 = FracDigits
    BY <1>1, PowerEquation
  <2> HIDE DEF part
  <2>5. whole * Power[0] + frac \div Power[FracDigits - 0] = whole
    BY <2>3, <2>4
  <2>6. Denotes(0)
    BY <1>3, <2>2, <2>5
  <2> QED BY <2>6
<1>5. ASSUME NEW k \in Nat, k \in P
      PROVE  k + 1 \in P
  <2> SUFFICES ASSUME k + 1 <= FracDigits
               PROVE  Denotes(k + 1)
    OBVIOUS
  <2>1. Denotes(k) /\ k + 1 \in 1..FracDigits
    BY <1>1, <1>5
  <2>2. part(k) \in Seq(Nat) /\ part(k + 1) = Append(part(k), d(k + 1))
    <3>1. \A i \in 1..(k + 1) : d(i) \in Nat
      BY <1>1, <1>2
    <3> QED BY <3>1
  <2> HIDE DEF part
  <2>3. Digits[whole] \o part(k + 1) = Append(Digits[whole] \o part(k), d(k + 1))
    <3> DEFINE c == d(k + 1)
               s == Digits[whole]
               u == part(k)
    <3>1. c \in Nat /\ s \in Seq(Nat) /\ u \in Seq(Nat)
      BY <1>2, <1>3, <2>1, <2>2
    <3>2. s \o Append(u, c) = Append(s \o u, c)
      <4> HIDE DEF c, s, u
      <4> QED BY <3>1, AppendToConcat
    <3> QED BY <2>2, <3>2
  <2>4. Numeral[Digits[whole] \o part(k + 1)]
          = 10 * Numeral[Digits[whole] \o part(k)] + (d(k + 1) - Zero)
    <3>1. d(k + 1) \in Nat /\ Digits[whole] \o part(k) \in Seq(Nat)
      BY <1>2, <1>3, <2>1, <2>2
    <3> QED BY <2>3, <3>1, NumeralEquation
  <2> DEFINE x == frac \div Power[FracDigits - k]
             y == frac \div Power[FracDigits - (k + 1)]
             e == d(k + 1) - Zero
  <2>5. y = 10 * x + e /\ x \in Int /\ e \in Int
    <3>1. FracDigits - (k + 1) + 1 = FracDigits - k
      BY <1>1
    <3> QED BY <1>2, <2>1, <3>1 DEF Zero
  <2>6. Power[k + 1] = 10 * Power[k] /\ Power[k] \in Nat
    BY PowerEquation
  <2>7. Numeral[Digits[whole] \o part(k)] = whole * Power[k] + x
    BY <2>1
  <2> HIDE DEF x, y, e
  <2>8. Numeral[Digits[whole] \o part(k + 1)] = 10 * (whole * Power[k] + x) + e
    BY <2>4, <2>7 DEF e
  <2>9. Numeral[Digits[whole] \o part(k + 1)] = whole * Power[k + 1] + y
    BY <2>5, <2>6, <2>8
  <2> QED BY <2>9 DEF y
<1>6. Nat \subseteq P
  <2> HIDE DEF P
  <2> QED BY <1>4, <1>5, InductionOnNat
<1>7. Denotes(FracDigits)
  BY <1>1, <1>6
<1>8. frac \div Power[FracDigits - FracDigits] = frac
  <2>1. Power[FracDigits - FracDigits] = 1
    BY <1>1, PowerEquation
  <2> QED BY <2>1
<1>9. Numeral[Digits[whole] \o part(FracDigits)] = whole * Scale + frac
  BY <1>7, <1>8 DEF Scale
<1>10. part(FracDigits) \in Seq(Nat) /\ Len(part(FracDigits)) = FracDigits
       /\ \A k \in 1..FracDigits : IsDigit(part(FracDigits)[k])
  BY <1>1, <1>2
<1> QED BY <1>9, <1>10 DEF d

(* The scaled fraction is the nearest one, and at most Scale.              *)
LEMMA RoundedIsNearest ==
  ASSUME NEW x \in Int
  PROVE  LET m == IF x < 0 THEN -x ELSE x
         IN  /\ Cut(x) \in Nat /\ Rounded(x) \in Nat /\ Rounded(x) <= Scale
             /\ LET off == (Cut(x) * Scale + Rounded(x)) * One - m * Scale
                IN  -One <= 2 * off /\ 2 * off <= One
<1> DEFINE m == IF x < 0 THEN -x ELSE x
           c == m \div One
           r == m - c * One
           n == 2 * (r * Scale) + One
           q == n \div (2 * One)
           t == n % (2 * One)
<1>1. m \in Nat /\ One \in Nat /\ One > 0 /\ Scale \in Nat /\ Scale >= 1
  BY DecimalAssumption, PowerEquation, PowerPositive DEF Scale
<1>2. Cut(x) = c /\ Rest(x) = r /\ Rounded(x) = (2 * r * Scale + One) \div (2 * One)
  BY DEF Cut, Rest, Rounded
<1> HIDE DEF m
<1>3. c \in Int /\ (m % One) \in 0..(One - 1) /\ m = One * c + (m % One)
  BY <1>1, Division
<1> HIDE DEF c
<1>4. r \in 0..(One - 1) /\ m = One * c + r
  BY <1>1, <1>3
<1>5. c \in Nat
  <2>1. ~ (c <= -1)
    <3> SUFFICES ASSUME c <= -1 PROVE FALSE
      OBVIOUS
    <3> DEFINE p == One * c
    <3>1. p \in Int /\ p <= -One
      BY <1>1, <1>3
    <3>2. m = p + r
      BY <1>4
    <3> HIDE DEF p
    <3> QED BY <1>1, <1>4, <3>1, <3>2
  <2> QED BY <1>3, <2>1
<1> HIDE DEF r
<1>6. n \in Nat /\ 2 * One \in Int /\ 2 * One > 0 /\ r * Scale \in Nat
  <2>1. r \in Nat
    BY <1>1, <1>4
  <2>2. r * Scale \in Nat
    BY <1>1, <2>1
  <2> HIDE DEF n
  <2>3. n \in Nat
    BY <1>1, <2>2 DEF n
  <2> QED BY <1>1, <2>2, <2>3
<1>7. 2 * r * Scale + One = n
  BY <1>1, <1>4
<1>8. Rounded(x) = q
  BY <1>2, <1>7
<1>9. n = 2 * (r * Scale) + One
  OBVIOUS
<1> HIDE DEF n
<1>10. q \in Int /\ t \in 0..(2 * One - 1) /\ n = (2 * One) * q + t
  <2> DEFINE b == 2 * One
  <2>1. q = n \div b /\ t = n % b
    OBVIOUS
  <2>2. b \in Int /\ b > 0
    BY <1>6
  <2> HIDE DEF b, q, t
  <2>3. q \in Int /\ t \in 0..(b - 1) /\ n = b * q + t
    BY <1>6, <2>1, <2>2, Division
  <2> QED BY <2>3 DEF b
<1> HIDE DEF q, t
<1>11. q \in Nat
  <2>1. ~ (q <= -1)
    <3> SUFFICES ASSUME q <= -1 PROVE FALSE
      OBVIOUS
    <3>1. (2 * One) * q <= -(2 * One)
      BY <1>1, <1>10
    <3> QED BY <1>1, <1>6, <1>10, <3>1
  <2> QED BY <1>10, <2>1
<1>12. q <= Scale
  <2> SUFFICES ASSUME q >= Scale + 1 PROVE FALSE
    BY <1>1, <1>10
  <2>1. (2 * One) * q >= (2 * One) * (Scale + 1)
    BY <1>1, <1>10
  <2>2. r * Scale <= (One - 1) * Scale
    BY <1>1, <1>4
  <2>3. (2 * One) * (Scale + 1) <= 2 * ((One - 1) * Scale) + One
    BY <1>1, <1>6, <1>9, <1>10, <2>1, <2>2
  <2>4. (2 * One) * (Scale + 1) = 2 * (One * Scale) + 2 * One
    BY <1>1
  <2>5. 2 * ((One - 1) * Scale) = 2 * (One * Scale) - 2 * Scale
    BY <1>1
  <2> DEFINE p == One * Scale
  <2>6. p \in Int
    BY <1>1
  <2> HIDE DEF p
  <2>7. 2 * p + 2 * One <= 2 * p - 2 * Scale + One
    BY <2>3, <2>4, <2>5 DEF p
  <2> QED BY <1>1, <2>6, <2>7
<1>13. (c * Scale + q) * One - m * Scale = q * One - r * Scale
  <2>1. m * Scale = One * c * Scale + r * Scale
    BY <1>1, <1>3, <1>4
  <2>2. (c * Scale + q) * One = One * c * Scale + q * One
    BY <1>1, <1>3, <1>10
  <2> DEFINE a == One * c * Scale
  <2>3. a \in Int /\ q * One \in Int
    BY <1>1, <1>3, <1>10
  <2> HIDE DEF a
  <2> QED BY <1>6, <2>1, <2>2, <2>3 DEF a
<1>14. -One <= 2 * (q * One - r * Scale) /\ 2 * (q * One - r * Scale) <= One
  <2> DEFINE a == q * One
             b == r * Scale
  <2>1. a \in Int /\ b \in Int /\ (2 * One) * q = 2 * a
    BY <1>1, <1>6, <1>10
  <2>2. 2 * b + One = 2 * a + t
    BY <1>9, <1>10, <2>1
  <2> HIDE DEF a, b
  <2>3. -One <= 2 * (a - b) /\ 2 * (a - b) <= One
    BY <1>1, <1>10, <2>1, <2>2
  <2> QED BY <2>3 DEF a, b
<1> QED BY <1>2, <1>5, <1>8, <1>11, <1>12, <1>13, <1>14 DEF m

LEMMA ConcatItems ==
  ASSUME NEW u \in Seq(Nat), NEW b \in Seq(Nat)
  PROVE \A i \in 1..Len(b) : (u \o b)[Len(u) + i] = b[i]
OBVIOUS

LEMMA SubSeqIs ==
  ASSUME NEW s, NEW m \in Int, NEW l \in Int, NEW b \in Seq(Nat), l - m + 1 = Len(b),
         \A i \in 1..Len(b): s[m + i - 1] = b[i]
  PROVE SubSeq(s,m,l) = b
<1>1. \A i \in m..l : s[i] \in Nat
  <2> SUFFICES ASSUME NEW i \in m..l PROVE s[i] \in Nat
    OBVIOUS
  <2> DEFINE j == i - m + 1
  <2>1. j \in 1..Len(b) /\ m + j - 1 = i
    OBVIOUS
  <2>2. s[m + j - 1] = b[j] /\ b[j] \in Nat
    <3> HIDE DEF j
    <3> QED BY <2>1
  <2> QED BY <2>1, <2>2
<1> DEFINE t == SubSeq(s, m, l)
<1>2. t \in Seq(Nat) /\ Len(t) = IF m <= l THEN l - m + 1 ELSE 0
  BY <1>1, SubSeqProperties
<1>3. \A i \in 1..l - m + 1 : t[i] = s[m + i - 1]
  BY <1>1, SubSeqProperties
<1> HIDE DEF t
<1>4. Len(t) = Len(b)
  <2>1. Len(b) \in Nat
    OBVIOUS
  <2> QED BY <1>2, <2>1
<1>5. \A i \in 1..Len(t) : t[i] = b[i]
  BY <1>3, <1>4
<1>6. t = b
  BY <1>2, <1>4, <1>5, SeqEqual
<1> QED BY <1>6 DEF t
LEMMA PartIs ==
  ASSUME NEW s, NEW n \in Nat, NEW b \in Seq(Nat),
         \A i \in 1..Len(b) : s[n + i] = b[i]
  PROVE  SubSeq(s, n + 1, n + Len(b)) = b
<1> DEFINE m == n + 1
           l == n + Len(b)
<1>1. m \in Int /\ l \in Int /\ l - m + 1 = Len(b)
  OBVIOUS
<1>2. \A i \in 1..Len(b) : m + i - 1 = n + i
  OBVIOUS
<1> HIDE DEF m, l
<1>3. \A i \in 1..Len(b) : s[m + i - 1] = b[i]
  BY <1>2
<1>4. SubSeq(s, m, l) = b
  BY <1>1, <1>3, SubSeqIs
<1> QED BY <1>4 DEF m, l

(* What stands where in the text of a double.                              *)
LEMMA PointSplits ==
  ASSUME NEW a \in Seq(Nat), NEW b \in Seq(Nat), NEW c \in Nat,
         NEW s, s = a \o <<c>> \o b
  PROVE  /\ s \in Seq(Nat) /\ s # <<>> /\ (a # <<>> => s[1] = a[1])
         /\ Len(s) - Len(b) = Len(a) + 1 /\ s[Len(a) + 1] = c
         /\ SubSeq(s, 1, Len(a)) = a
         /\ SubSeq(s, Len(a) + 2, Len(s)) = b
<1> DEFINE u == a \o <<c>>
<1>1. /\ u \in Seq(Nat) /\ Len(u) = Len(a) + 1
      /\ \A i \in 1..Len(a) : u[i] = a[i]
      /\ u[Len(a) + 1] = c
  OBVIOUS
<1>2. Len(a) \in Nat /\ Len(b) \in Nat
  OBVIOUS
<1>3. s = u \o b
  OBVIOUS
<1> HIDE DEF u
<1>4. s \in Seq(Nat) /\ Len(s) = Len(a) + 1 + Len(b)
  BY <1>1, <1>2, <1>3
<1>5. \A i \in 1..Len(a) + 1 : s[i] = u[i]
  BY <1>1, <1>2, <1>3
<1>6. \A i \in 1..Len(b) : s[Len(a) + 1 + i] = b[i]
  BY <1>1, <1>3, ConcatItems
<1>7. \A i \in 1..Len(a) : s[i] = a[i]
  BY <1>1, <1>2, <1>5
<1>8. s[Len(a) + 1] = c
  BY <1>1, <1>2, <1>5
<1>9. SubSeq(s, 1, Len(a)) = a
  <2>1. \A i \in 1..Len(a) : s[1 + i - 1] = a[i]
    BY <1>2, <1>7
  <2> QED BY <1>2, <2>1, SubSeqIs
<1>10. SubSeq(s, Len(a) + 2, Len(s)) = b
  <2> DEFINE n == Len(a) + 1
  <2>1. n \in Nat
    BY <1>2
  <2>2. \A i \in 1..Len(b) : s[n + i] = b[i]
    BY <1>6
  <2>3. n + 1 = Len(a) + 2 /\ n + Len(b) = Len(s)
    BY <1>2, <1>4
  <2> HIDE DEF n
  <2>4. SubSeq(s, n + 1, n + Len(b)) = b
    BY <2>1, <2>2, PartIs
  <2> QED BY <2>3, <2>4
<1>11. s # <<>> /\ (a # <<>> => s[1] = a[1])
  <2>1. a # <<>> => 1 \in 1..Len(a)
    BY <1>2, EmptySeq
  <2>2. Len(s) > 0
    BY <1>2, <1>4
  <2> QED BY <1>7, <2>1, <2>2
<1>12. Len(s) - Len(b) = Len(a) + 1
  BY <1>2, <1>4
<1> QED BY <1>4, <1>8, <1>9, <1>10, <1>11, <1>12

LEMMA Assoc == \A s, u, v \in Seq(Nat) : (s \o u) \o v = s \o (u \o v)
BY ConcatAssociative, SMTT(40)

LEMMA SignFirst ==
  ASSUME NEW negative \in BOOLEAN, NEW a \in Seq(Nat), NEW b \in Seq(Nat)
  PROVE  Sign(negative) \o a \o <<Point>> \o b = Sign(negative) \o (a \o <<Point>> \o b)
<1>1. Sign(negative) \in Seq(Nat) /\ <<Point>> \in Seq(Nat)
  BY DEF Sign, Minus, Point
<1>2. (Sign(negative) \o a) \o <<Point>> = Sign(negative) \o (a \o <<Point>>)
  BY <1>1, Assoc, Zenon
<1>3. a \o <<Point>> \in Seq(Nat)
  BY <1>1
<1>4. (Sign(negative) \o (a \o <<Point>>)) \o b = Sign(negative) \o ((a \o <<Point>>) \o b)
  BY <1>1, <1>3, Assoc, Zenon
<1> QED BY <1>2, <1>4, Zenon

(* What print_float writes of any double is a nearest number of FracDigits *)
(* digits after the point.                                                 *)
LEMMA FloatTextDenotes ==
  ASSUME NEW x \in Int
  PROVE  IsDoubleText(FloatText(x), x)
<1> DEFINE whole == IF Carries(x) THEN Cut(x) + 1 ELSE Cut(x)
           frac == IF Carries(x) THEN Rounded(x) - Scale ELSE Rounded(x)
           a == Digits[whole]
           b == [k \in 1..FracDigits |-> FractionDigit(frac, k)]
           ds == a \o <<Point>> \o b
           point == Len(ds) - FracDigits
           m == IF x < 0 THEN -x ELSE x
<1>1. /\ Cut(x) \in Nat /\ Rounded(x) \in Nat /\ Rounded(x) <= Scale
      /\ Scale \in Nat /\ Scale >= 1 /\ FracDigits \in Nat
  BY RoundedIsNearest, DecimalAssumption, PowerEquation, PowerPositive DEF Scale
<1>2. /\ whole \in Nat /\ frac \in Nat /\ frac < Scale
      /\ whole * Scale + frac = Cut(x) * Scale + Rounded(x)
  <2>1. CASE Carries(x)
    <3>1. whole = Cut(x) + 1 /\ frac = Rounded(x) - Scale
      BY <2>1
    <3>2. Rounded(x) >= Scale
      BY <2>1 DEF Carries
    <3>3. (Cut(x) + 1) * Scale = Cut(x) * Scale + Scale
      BY <1>1
    <3> HIDE DEF whole, frac
    <3>4. whole * Scale + frac = Cut(x) * Scale + Rounded(x)
      BY <1>1, <3>1, <3>3
    <3> QED BY <1>1, <3>1, <3>2, <3>4
  <2>2. CASE ~ Carries(x)
    BY <1>1, <2>2 DEF Carries
  <2> QED BY <2>1, <2>2
<1>3. FloatText(x) = Sign(x < 0) \o ds
  <2>1. FloatText(x) = Sign(x < 0) \o a \o <<Point>> \o b
    BY DEF FloatText, FractionDigit
  <2>2. a \in Seq(Nat) /\ b \in Seq(Nat) /\ (x < 0) \in BOOLEAN
    BY <1>2, DigitsDenote, FractionDenotes
  <2> HIDE DEF a, b
  <2>3. Sign(x < 0) \o a \o <<Point>> \o b = Sign(x < 0) \o (a \o <<Point>> \o b)
    BY <2>2, SignFirst, Zenon
  <2> QED BY <2>1, <2>3
<1> HIDE DEF whole, frac
<1>4. /\ a \in Seq(Nat) /\ a # <<>> /\ Len(a) >= 1 /\ IsDigit(a[1])
      /\ \A i \in DOMAIN a : IsDigit(a[i])
      /\ IsNumeral(a)
  BY <1>2, DigitsDenote, DigitsAreANumeral
<1>5. /\ b \in Seq(Nat) /\ Len(b) = FracDigits
      /\ \A k \in 1..FracDigits : IsDigit(b[k])
      /\ Numeral[a \o b] = whole * Scale + frac
  BY <1>2, FractionDenotes
<1> HIDE DEF a, b
<1>6. /\ ds \in Seq(Nat) /\ ds # <<>> /\ ds[1] = a[1]
      /\ point = Len(a) + 1 /\ ds[point] = Point
      /\ SubSeq(ds, 1, point - 1) = a
      /\ SubSeq(ds, point + 1, Len(ds)) = b
  <2> DEFINE c == Point
  <2>1. c \in Nat /\ ds = a \o <<c>> \o b
    BY DEF Point
  <2> HIDE DEF c, ds
  <2>2. /\ ds \in Seq(Nat) /\ ds # <<>> /\ (a # <<>> => ds[1] = a[1])
        /\ Len(ds) - Len(b) = Len(a) + 1 /\ ds[Len(a) + 1] = c
        /\ SubSeq(ds, 1, Len(a)) = a
        /\ SubSeq(ds, Len(a) + 2, Len(ds)) = b
    BY <1>4, <1>5, <2>1, PointSplits
  <2>3. point = Len(a) + 1 /\ point - 1 = Len(a) /\ point + 1 = Len(a) + 2
    BY <1>4, <1>5, <2>2
  <2> HIDE DEF point
  <2> QED BY <1>4, <2>2, <2>3 DEF c
<1> HIDE DEF ds
<1>7. (HasSign(FloatText(x)) <=> x < 0) /\ Unsigned(FloatText(x)) = ds
  <2>1. (x < 0) \in BOOLEAN
    OBVIOUS
  <2> QED BY <1>3, <1>4, <1>6, <2>1, SignShows
<1>8. \A i \in DOMAIN (a \o b) : IsDigit((a \o b)[i])
  BY <1>4, <1>5
<1>9. LET off == Numeral[a \o b] * One - m * Scale
      IN  -One <= 2 * off /\ 2 * off <= One
  BY <1>2, <1>5, RoundedIsNearest
<1>10. point > 1
  BY <1>4, <1>6
<1> QED BY <1>4, <1>6, <1>7, <1>8, <1>9, <1>10 DEF IsDoubleText

-----------------------------------------------------------------------------
(* What print_int and print_float show of a number denotes that number.    *)
NumbersAreRight ==
  /\ line.routine = "print_int" => IsIntegerText(line.text, line.arg)
  /\ line.routine = "print_float" => IsDoubleText(line.text, line.arg)

LEMMA PrintStepDenotes ==
  ASSUME NumbersAreRight, [PrintNext]_allVars
  PROVE  NumbersAreRight'
<1>1. CASE UNCHANGED allVars
  BY <1>1 DEF allVars, NumbersAreRight
<1>2. CASE HeapNext /\ line' = NoLine
  BY <1>2 DEF NoLine, NumbersAreRight
<1>3. CASE PrintInt
  <2>1. PICK w \in Ints : Written("print_int", w, IntText(w))
    BY <1>3 DEF PrintInt
  <2>2. line'.routine = "print_int" /\ line'.arg = w /\ line'.text = IntText(w)
    BY <2>1 DEF Written
  <2>3. IsIntegerText(IntText(w), w)
    BY IntTextDenotes, PrintingAssumption
  <2> QED
    BY <2>2, <2>3 DEF NumbersAreRight
<1>4. CASE PrintFloat
  <2>1. PICK x \in Doubles : Written("print_float", x, FloatText(x))
    BY <1>4 DEF PrintFloat
  <2>2. line'.routine = "print_float" /\ line'.arg = x /\ line'.text = FloatText(x)
    BY <2>1 DEF Written
  <2>3. IsDoubleText(FloatText(x), x)
    BY FloatTextDenotes, PrintingAssumption
  <2> QED
    BY <2>2, <2>3 DEF NumbersAreRight
<1>5. CASE PrintChar \/ PrintStr
  BY <1>5 DEF PrintChar, PrintStr, Written, NumbersAreRight
<1> QED
  BY <1>1, <1>2, <1>3, <1>4, <1>5 DEF PrintNext

(* What leeh() shows of an integer or a bhagank denotes that number, for   *)
(* words of any width and any number of digits after the point; what it    *)
(* shows of a string is its text, as long as the strings made fit the heap.*)
THEOREM LinesRight == PrintSpec => []LinesAreRight
<1>1. PrintInit => NumbersAreRight
  BY DEF PrintInit, NoLine, NumbersAreRight
<1>2. NumbersAreRight /\ [PrintNext]_allVars => NumbersAreRight'
  BY PrintStepDenotes
<1>3. PrintSpec => []NumbersAreRight
  BY <1>1, <1>2, PTL DEF PrintSpec
<1>4. NumbersAreRight /\ StringsAreRight => LinesAreRight
  BY DEF NumbersAreRight, StringsAreRight, LinesAreRight
<1> QED
  BY <1>3, <1>4, StringsReadBack, PTL

-----------------------------------------------------------------------------
Points == {"before", "guard", "init", "store", "after"}

(* Every variable of StaticInit has its type.                              *)
StaticsTypeOK ==
  /\ calls \in Seq(Points)
  /\ initByte \in {0, 1}
  /\ value \in Nat /\ made \in Nat /\ started \in Nat
  /\ assigned \in BOOLEAN /\ reentered \in BOOLEAN

(* An activation in the middle of the initialiser began an evaluation; and *)
(* a byte that says so has a value beside it.                              *)
Begun == \A i \in DOMAIN calls : calls[i] \in {"init", "store"} => started # 0

ByteMeansValue == initByte = 1 => value # 0

PastMeansByte == \A i \in DOMAIN calls : calls[i] = "after" => initByte = 1

(* Without re-entrance, the activation that evaluates the initialiser is   *)
(* the innermost one, and nobody has stored a value.                       *)
EvaluatedOnce ==
  ~reentered =>
    \A i \in DOMAIN calls :
      calls[i] \in {"init", "store"} => i = Len(calls) /\ initByte = 0

StaticsInv ==
  /\ StaticsTypeOK
  /\ Begun
  /\ ByteMeansValue
  /\ PastMeansByte
  /\ EvaluatedOnce

(* What the three ways to change the stack leave of it.                    *)
LEMMA GotoMoves ==
  ASSUME StaticsTypeOK, NEW from \in Points, NEW to \in Points, At(from), Goto(to)
  PROVE  /\ calls' \in Seq(Points)
         /\ Len(calls') = Len(calls) /\ Len(calls) \in DOMAIN calls
         /\ DOMAIN calls' = DOMAIN calls
         /\ calls[Len(calls)] = from
         /\ \A i \in DOMAIN calls :
              calls'[i] = IF i = Len(calls) THEN to ELSE calls[i]
BY DEF StaticsTypeOK, At, Goto, Last

LEMMA CallPushes ==
  ASSUME StaticsTypeOK, Call
  PROVE  /\ calls' \in Seq(Points)
         /\ DOMAIN calls' = DOMAIN calls \cup {Len(calls) + 1}
         /\ Len(calls') = Len(calls) + 1
         /\ \A i \in DOMAIN calls : calls'[i] = calls[i]
         /\ calls'[Len(calls) + 1] = "before"
         /\ calls # <<>> => calls[Len(calls)] # "store"
         /\ calls # <<>> => At("init") = (calls[Len(calls)] = "init")
<1>1. calls' = Append(calls, "before") /\ "before" \in Points
  BY DEF Call, Points
<1>2. calls \in Seq(Points)
  BY DEF StaticsTypeOK
<1>3. calls # <<>> => calls[Len(calls)] \in {"before", "init", "after"}
  BY DEF Call, Last
<1>4. calls # <<>> => At("init") = (calls[Len(calls)] = "init")
  BY DEF At, Last
<1> QED
  BY <1>1, <1>2, <1>3, <1>4

LEMMA ReturnPops ==
  ASSUME StaticsTypeOK, NEW from, At(from), calls' = Front(calls)
  PROVE  /\ calls' \in Seq(Points)
         /\ DOMAIN calls' \subseteq DOMAIN calls
         /\ Len(calls) \in DOMAIN calls
         /\ Len(calls) \notin DOMAIN calls'
         /\ calls[Len(calls)] = from
         /\ \A i \in DOMAIN calls' : calls'[i] = calls[i]
<1>1. calls \in Seq(Points) /\ calls # <<>>
  BY DEF StaticsTypeOK, At
<1>2. calls' = SubSeq(calls, 1, Len(calls) - 1)
  BY DEF Front
<1>3. Len(calls) \in Nat /\ Len(calls) >= 1 /\ DOMAIN calls = 1..Len(calls)
  BY <1>1
<1>4. DOMAIN calls' = 1..(Len(calls) - 1) /\ calls' \in Seq(Points)
      /\ \A i \in 1..(Len(calls) - 1) : calls'[i] = calls[i]
  BY <1>1, <1>2, <1>3
<1>5. calls[Len(calls)] = from
  BY DEF At, Last
<1> QED
  BY <1>3, <1>4, <1>5

-----------------------------------------------------------------------------
(* A step that only takes activations away, or moves none in or out of the *)
(* initialiser.                                                            *)
LEMMA PopKeeps ==
  ASSUME StaticsInv, NEW from, At(from), calls' = Front(calls),
         from \in {"before", "after"},
         UNCHANGED <<initByte, value, made, started, assigned, reentered>>
  PROVE  StaticsInv'
<1>1. /\ calls' \in Seq(Points)
      /\ DOMAIN calls' \subseteq DOMAIN calls
      /\ Len(calls) \in DOMAIN calls
      /\ calls[Len(calls)] = from
      /\ \A i \in DOMAIN calls' : calls'[i] = calls[i]
      /\ Len(calls) \notin DOMAIN calls'
  BY ReturnPops DEF StaticsInv
<1>2. StaticsTypeOK'
  BY <1>1 DEF StaticsInv, StaticsTypeOK
<1>3. Begun' /\ ByteMeansValue' /\ PastMeansByte'
  BY <1>1 DEF StaticsInv, Begun, ByteMeansValue, PastMeansByte
<1>4. EvaluatedOnce'
  <2>1. ASSUME ~reentered, NEW i \in DOMAIN calls', calls'[i] \in {"init", "store"}
        PROVE  FALSE
    BY <1>1, <2>1 DEF StaticsInv, EvaluatedOnce
  <2> QED
    BY <2>1 DEF EvaluatedOnce
<1> QED
  BY <1>2, <1>3, <1>4 DEF StaticsInv

LEMMA CallKeeps ==
  ASSUME StaticsInv, Call
  PROVE  StaticsInv'
<1>1. /\ calls' \in Seq(Points)
      /\ DOMAIN calls' = DOMAIN calls \cup {Len(calls) + 1}
      /\ \A i \in DOMAIN calls : calls'[i] = calls[i]
      /\ calls'[Len(calls) + 1] = "before"
      /\ calls # <<>> => calls[Len(calls)] # "store"
      /\ calls # <<>> => At("init") = (calls[Len(calls)] = "init")
  BY CallPushes DEF StaticsInv
<1>2. /\ made' \in Nat /\ reentered' = (reentered \/ At("init"))
      /\ UNCHANGED <<initByte, value, started, assigned>>
  BY DEF Call, StaticsInv, StaticsTypeOK
<1>3. StaticsTypeOK'
  <2>1. reentered' \in BOOLEAN
    BY <1>2 DEF StaticsInv, StaticsTypeOK
  <2> QED
    BY <1>1, <1>2, <2>1 DEF StaticsInv, StaticsTypeOK
<1>4. Begun' /\ ByteMeansValue' /\ PastMeansByte'
  BY <1>1, <1>2 DEF StaticsInv, Begun, ByteMeansValue, PastMeansByte
<1>5. EvaluatedOnce'
  <2>1. SUFFICES ASSUME ~reentered', NEW i \in DOMAIN calls',
                        calls'[i] \in {"init", "store"}
                 PROVE  FALSE
    BY DEF EvaluatedOnce
  <2>2. i \in DOMAIN calls /\ calls[i] \in {"init", "store"}
    BY <1>1, <2>1
  <2>3. ~reentered /\ ~At("init")
    BY <1>2, <2>1
  <2>4. i = Len(calls) /\ calls # <<>>
    BY <2>2, <2>3 DEF StaticsInv, EvaluatedOnce
  <2> QED
    BY <1>1, <2>2, <2>3, <2>4
<1> QED
  BY <1>3, <1>4, <1>5 DEF StaticsInv

LEMMA ReachKeeps ==
  ASSUME StaticsInv, Reach
  PROVE  StaticsInv'
<1>1. At("before") /\ Goto("guard") /\ {"before", "guard"} \subseteq Points
      /\ UNCHANGED <<initByte, value, made, started, assigned, reentered>>
  BY DEF Reach, Points
<1>2. /\ calls' \in Seq(Points)
      /\ Len(calls') = Len(calls) /\ Len(calls) \in DOMAIN calls
      /\ DOMAIN calls' = DOMAIN calls
      /\ \A i \in DOMAIN calls :
           calls'[i] = IF i = Len(calls) THEN "guard" ELSE calls[i]
  BY <1>1, GotoMoves DEF StaticsInv
<1>3. StaticsTypeOK'
  BY <1>1, <1>2 DEF StaticsInv, StaticsTypeOK
<1>4. Begun' /\ ByteMeansValue' /\ PastMeansByte' /\ EvaluatedOnce'
  BY <1>1, <1>2
  DEF StaticsInv, Begun, ByteMeansValue, PastMeansByte, EvaluatedOnce
<1> QED
  BY <1>3, <1>4 DEF StaticsInv

LEMMA GuardKeeps ==
  ASSUME StaticsInv, Guard
  PROVE  StaticsInv'
<1> DEFINE to == IF MustInitialise THEN "init" ELSE "after"
<1>1. /\ At("guard") /\ Goto(to) /\ "guard" \in Points /\ to \in Points
      /\ started' = IF MustInitialise THEN started + 1 ELSE started
      /\ UNCHANGED <<initByte, value, made, assigned, reentered>>
  BY DEF Guard, Points
<1>2. (to = "init" /\ initByte = 0) \/ (to = "after" /\ initByte = 1)
  BY DEF MustInitialise, StaticsInv, StaticsTypeOK
<1>3. started' \in Nat /\ (started # 0 => started' # 0)
      /\ (to = "init" => started' # 0)
  BY <1>1 DEF StaticsInv, StaticsTypeOK
<1> HIDE DEF to
<1>4. /\ calls' \in Seq(Points)
      /\ Len(calls') = Len(calls) /\ Len(calls) \in DOMAIN calls
      /\ DOMAIN calls' = DOMAIN calls
      /\ calls[Len(calls)] = "guard"
      /\ \A i \in DOMAIN calls :
           calls'[i] = IF i = Len(calls) THEN to ELSE calls[i]
  BY <1>1, GotoMoves DEF StaticsInv
<1>5. StaticsTypeOK'
  BY <1>1, <1>3, <1>4 DEF StaticsInv, StaticsTypeOK
<1>6. Begun'
  BY <1>1, <1>2, <1>3, <1>4 DEF StaticsInv, Begun
<1>7. ByteMeansValue' /\ PastMeansByte'
  BY <1>1, <1>2, <1>4 DEF StaticsInv, ByteMeansValue, PastMeansByte
<1>8. EvaluatedOnce'
  BY <1>1, <1>2, <1>4 DEF StaticsInv, EvaluatedOnce
<1> QED
  BY <1>5, <1>6, <1>7, <1>8 DEF StaticsInv

LEMMA EvaluateKeeps ==
  ASSUME StaticsInv, Evaluate
  PROVE  StaticsInv'
<1>1. At("init") /\ Goto("store") /\ {"init", "store"} \subseteq Points
      /\ UNCHANGED <<initByte, value, made, started, assigned, reentered>>
  BY DEF Evaluate, Points
<1>2. /\ calls' \in Seq(Points)
      /\ Len(calls') = Len(calls) /\ Len(calls) \in DOMAIN calls
      /\ DOMAIN calls' = DOMAIN calls
      /\ calls[Len(calls)] = "init"
      /\ \A i \in DOMAIN calls :
           calls'[i] = IF i = Len(calls) THEN "store" ELSE calls[i]
  BY <1>1, GotoMoves DEF StaticsInv
<1>3. StaticsTypeOK'
  BY <1>1, <1>2 DEF StaticsInv, StaticsTypeOK
<1>4. Begun' /\ ByteMeansValue' /\ PastMeansByte' /\ EvaluatedOnce'
  BY <1>1, <1>2
  DEF StaticsInv, Begun, ByteMeansValue, PastMeansByte, EvaluatedOnce
<1> QED
  BY <1>3, <1>4 DEF StaticsInv

(* Whatever else is at the initialiser, this one had begun: what it stores *)
(* is a value, and the byte says so.                                       *)
LEMMA StoreKeeps ==
  ASSUME StaticsInv, Store
  PROVE  StaticsInv'
<1>1. /\ At("store") /\ Goto("after") /\ {"store", "after"} \subseteq Points
      /\ value' = started /\ initByte' = 1
      /\ UNCHANGED <<made, started, assigned, reentered>>
  BY DEF Store, StoredByte, Points
<1>2. /\ calls' \in Seq(Points)
      /\ Len(calls') = Len(calls) /\ Len(calls) \in DOMAIN calls
      /\ DOMAIN calls' = DOMAIN calls
      /\ calls[Len(calls)] = "store"
      /\ \A i \in DOMAIN calls :
           calls'[i] = IF i = Len(calls) THEN "after" ELSE calls[i]
  BY <1>1, GotoMoves DEF StaticsInv
<1>3. StaticsTypeOK'
  BY <1>1, <1>2 DEF StaticsInv, StaticsTypeOK
<1>4. started # 0
  BY <1>2 DEF StaticsInv, Begun
<1>5. Begun' /\ ByteMeansValue' /\ PastMeansByte' /\ EvaluatedOnce'
  BY <1>1, <1>2, <1>4
  DEF StaticsInv, Begun, ByteMeansValue, PastMeansByte, EvaluatedOnce
<1> QED
  BY <1>3, <1>5 DEF StaticsInv

LEMMA AssignKeeps ==
  ASSUME StaticsInv, Assign
  PROVE  StaticsInv'
<1>1. value' \in Nat /\ value' # 0 /\ assigned' = TRUE
      /\ UNCHANGED <<calls, initByte, made, started, reentered>>
  BY StaticInitAssumption DEF Assign
<1>2. StaticsTypeOK'
  BY <1>1 DEF StaticsInv, StaticsTypeOK
<1>3. Begun' /\ ByteMeansValue' /\ PastMeansByte' /\ EvaluatedOnce'
  BY <1>1
  DEF StaticsInv, Begun, ByteMeansValue, PastMeansByte, EvaluatedOnce
<1> QED
  BY <1>2, <1>3 DEF StaticsInv

LEMMA StaticsInvariance == StaticsSpec => []StaticsInv
<1>1. ASSUME StaticsInit
      PROVE  StaticsInv
  <2>1. calls \in Seq(Points) /\ DOMAIN calls = {}
    BY <1>1 DEF StaticsInit
  <2>2. StaticsTypeOK
    BY <1>1, <2>1 DEF StaticsInit, StaticsTypeOK
  <2>3. Begun /\ ByteMeansValue /\ PastMeansByte /\ EvaluatedOnce
    BY <1>1, <2>1 DEF StaticsInit, Begun, ByteMeansValue, PastMeansByte, EvaluatedOnce
  <2> QED
    BY <2>2, <2>3 DEF StaticsInv
<1>2. StaticsInv /\ [StaticsNext]_statics => StaticsInv'
  <2>1. StaticsInv /\ UNCHANGED statics => StaticsInv'
    BY DEF statics, StaticsInv, StaticsTypeOK, Begun, ByteMeansValue,
           PastMeansByte, EvaluatedOnce
  <2>2. StaticsInv /\ ReturnEarly => StaticsInv'
    BY PopKeeps DEF ReturnEarly
  <2>3. StaticsInv /\ Return => StaticsInv'
    BY PopKeeps DEF Return
  <2> QED
    BY <2>1, <2>2, <2>3, CallKeeps, ReachKeeps, GuardKeeps, EvaluateKeeps,
       StoreKeeps, AssignKeeps DEF StaticsNext
<1> QED
  BY <1>1, <1>2, PTL DEF StaticsSpec

(* No activation gets past the declaration of a sthir local before an      *)
(* initialiser's value is in it, however many calls nest and wherever they *)
(* are made.                                                               *)
THEOREM StaticsInitialised == StaticsSpec => []InitialisedBeforeUse
<1>1. StaticsInv => InitialisedBeforeUse
  BY DEF StaticsInv, PastMeansByte, ByteMeansValue, InitialisedBeforeUse
<1> QED
  BY <1>1, StaticsInvariance, PTL

(* As long as no initialiser calls its function, a sthir local is          *)
(* initialised once: nothing but an assignment changes it later.           *)
THEOREM StaticsKept == StaticsSpec => KeptUnlessReentered
<1> DEFINE A == initByte = 1 /\ ~reentered /\ value' # value => assigned' # assigned
<1>1. StaticsInv /\ [StaticsNext]_statics => [A]_statics
  <2> SUFFICES ASSUME StaticsInv, StaticsNext, initByte = 1, ~reentered,
                      value' # value
               PROVE  assigned' # assigned
    OBVIOUS
  <2>1. CASE Store
    <3>1. Len(calls) \in DOMAIN calls /\ calls[Len(calls)] = "store"
      BY <2>1 DEF Store, At, Last, StaticsInv, StaticsTypeOK
    <3> QED
      BY <3>1 DEF StaticsInv, EvaluatedOnce
  <2>2. CASE Assign
    BY <2>2 DEF Assign
  <2>3. ~Call /\ ~ReturnEarly /\ ~Reach /\ ~Guard /\ ~Evaluate /\ ~Return
    BY DEF Call, ReturnEarly, Reach, Guard, Evaluate, Return
  <2> QED
    BY <2>1, <2>2, <2>3 DEF StaticsNext
<1> QED
  BY <1>1, StaticsInvariance, PTL DEF StaticsSpec, KeptUnlessReentered

-----------------------------------------------------------------------------
(* The driver: what a process that runs leaves in the files.               *)

Own(p) == [from |-> {p}, whole |-> TRUE]

Writing == {"write"} \cup Commands

(* What a process or the command it left does.                             *)
Acts(p) == Step(p) \/ LoseShell(p) \/ Kill(p) \/ OrphanEnds(p)

(* Two processes that are active have met.                                 *)
Meeting == \A p, q \in Active : p # q => q \in met[p]

(* A process that has not written out.asm yet is in no file.               *)
NotYetOnDisk ==
  \A p \in asm.from \cup obj.from \cup bin.from : stage[p] \in Commands \cup {"done"}

(* Past sema there is no error.                                            *)
Gated ==
  \A p \in Processes : stage[p] \in {"codegen", "open"} \cup Writing => ~hasErrors[p]

(* The files of a process that runs alone.                                 *)
Works ==
  \A p \in Processes : met[p] = {} =>
    /\ stage[p] = "write" => asm = Empty
    /\ stage[p] = "nasm" /\ p \notin lost => asm = Own(p)
    /\ stage[p] = "ld" /\ p \notin lost => obj = Own(p)

(* An exit code is that of a process that returned, and only one that is   *)
(* gone leaves a command behind, which it had come to run.                 *)
TooEarly == {"UsageError", "FileError", "CompileError"}

Returned ==
  \A p \in Processes :
    /\ exit[p] # "none" \/ orphan[p] # "none" => stage[p] = "done"
    /\ orphan[p] # "none" => exit[p] \notin TooEarly

(* What a process that met nobody left is in no file that another, or a    *)
(* command another left, still makes use of.                               *)
Replaced ==
  \A p, q \in Processes : met[p] = {} /\ q # p =>
    /\ stage[q] \in Writing \/ orphan[q] # "none" => p \notin asm.from
    /\ stage[q] = "ld" \/ orphan[q] = "ld" => p \notin obj.from

IInv ==
  /\ DriverTypeOK /\ Meeting /\ NotYetOnDisk /\ Gated /\ Works /\ Returned /\ Replaced
  /\ SuccessIsFresh /\ OnlyAcceptedReachDisk /\ LeftoversAreNeverLinked

-----------------------------------------------------------------------------
LEMMA Alone ==
  ASSUME Meeting, NEW p \in Active, met[p] = {}, NEW q \in Active
  PROVE  q = p
BY DEF Meeting

LEMMA FilesTyped ==
  /\ Missing \in File /\ Empty \in File
  /\ \A f \in File, p \in Processes, whole \in BOOLEAN :
       [from |-> f.from \cup {p}, whole |-> whole] \in File
  /\ \A f \in File : f.from \subseteq Processes
BY DEF Missing, Empty, File

(* What a command writes is made of what it reads.                         *)
LEMMA WrittenFile ==
  ASSUME NEW ok \in BOOLEAN, NEW input \in File, NEW f \in Output(ok, input)
  PROVE  /\ f \in File
         /\ f.from \subseteq input.from
         /\ ok => f = input
<1>1. CASE f = input
  BY <1>1
<1>2. CASE f = Missing /\ ~ok
  BY <1>2, FilesTyped DEF Missing
<1>3. CASE ~ok /\ \E w \in {FALSE, input.whole} : f = [from |-> input.from, whole |-> w]
  <2>1. PICK w \in {FALSE, input.whole} : f = [from |-> input.from, whole |-> w]
    BY <1>3
  <2>2. input.from \in SUBSET Processes /\ w \in BOOLEAN
    BY DEF File
  <2> QED
    BY <1>3, <2>1, <2>2 DEF File
<1> QED
  BY <1>1, <1>2, <1>3 DEF Output, Partly

LEMMA TextFile ==
  ASSUME DriverTypeOK, NEW p \in Processes, NEW all \in BOOLEAN
  PROVE  Text(p, all) \in File /\ Text(p, all).from = asm.from \cup {p}
BY FilesTyped DEF DriverTypeOK, Text, File

(* What a command changes.                                                 *)
LEMMA Assembled ==
  ASSUME DriverTypeOK, NEW ok \in BOOLEAN, Assemble(ok)
  PROVE  /\ obj' \in File
         /\ obj' = obj \/ obj'.from \subseteq asm.from
         /\ ok => obj' = asm
         /\ asm' = asm /\ bin' = bin /\ linker' = linker
BY WrittenFile DEF Assemble, DriverTypeOK

LEMMA Linked ==
  ASSUME DriverTypeOK, NEW p \in Processes, NEW ok \in BOOLEAN, Link(p, ok)
  PROVE  /\ bin' \in File /\ linker' \subseteq Processes
         /\ \/ bin' = bin /\ linker' = linker
            \/ bin'.from \subseteq obj.from /\ linker' = {p}
         /\ ok => bin' = obj
         /\ asm' = asm /\ obj' = obj
BY WrittenFile DEF Link, DriverTypeOK

(* What main() does when a command ended.                                  *)
LEMMA CommandOver ==
  ASSUME DriverTypeOK, NEW p \in Processes, NEW ok \in BOOLEAN, NEW out \in File,
         stage[p] \in Commands, AfterCommand(p, ok, out)
  PROVE  /\ \/ /\ ok /\ stage[p] = "nasm" /\ stage' = [stage EXCEPT ![p] = "ld"]
               /\ exit' = exit /\ binAtExit' = binAtExit
            \/ /\ ok /\ stage[p] = "ld" /\ stage' = [stage EXCEPT ![p] = "done"]
               /\ exit' = [exit EXCEPT ![p] = "Success"]
               /\ binAtExit' = [binAtExit EXCEPT ![p] = out]
            \/ /\ ~ok /\ stage' = [stage EXCEPT ![p] = "done"]
               /\ exit' = [exit EXCEPT ![p] = "AssembleOrLinkError"]
               /\ binAtExit' = [binAtExit EXCEPT ![p] = out]
         /\ exit' \in [Processes -> Codes \cup {"none"}]
         /\ binAtExit' \in [Processes -> File]
BY DEF AfterCommand, Checked, Commands, Exit, Continue, Go, DriverTypeOK, Codes

(* A step is one of an active process, which goes to another stage or      *)
(* loses the command it left.                                              *)
LEMMA Moves ==
  ASSUME DriverTypeOK, Returned, NEW p \in Processes, Acts(p)
  PROVE  /\ p \in Active
         /\ stage' \in [Processes -> Stages]
         /\ orphan' \in [Processes -> Commands \cup {"none"}]
         /\ \A q \in Processes : q # p => stage'[q] = stage[q] /\ orphan'[q] = orphan[q]
         /\ stage'[p] # "idle"
         /\ met' = met
<1> USE DEF Active, DriverTypeOK, Stages, Commands
<1>1. CASE Kill(p)
  BY <1>1 DEF Kill, Go
<1>2. CASE ReadSource(p)
  BY <1>2 DEF ReadSource, Exit, Continue, Go
<1>3. CASE Analyse(p)
  BY <1>3 DEF Analyse, After, Exit, Continue, Go
<1>4. CASE Generate(p)
  BY <1>4 DEF Generate, Continue, Go
<1>5. CASE OpenAsm(p)
  BY <1>5 DEF OpenAsm, Exit, Continue, Go
<1>6. CASE WriteAsm(p)
  BY <1>6 DEF WriteAsm, Exit, Continue, Go
<1>7. CASE Nasm(p)
  BY <1>7 DEF Nasm, AfterCommand, Exit, Continue, Go
<1>8. CASE Ld(p)
  BY <1>8 DEF Ld, AfterCommand, Exit, Continue, Go
<1>9. CASE LoseShell(p)
  BY <1>9 DEF LoseShell, AfterCommand, Exit, Continue, Go
<1>10. CASE OrphanEnds(p)
  <2>1. /\ stage' = stage /\ met' = met /\ orphan' = [orphan EXCEPT ![p] = "none"]
        /\ orphan[p] # "none"
    BY <1>10 DEF OrphanEnds
  <2>2. stage[p] = "done"
    BY <2>1 DEF Returned
  <2> QED
    BY <2>1, <2>2
<1> QED
  BY <1>1, <1>2, <1>3, <1>4, <1>5, <1>6, <1>7, <1>8, <1>9, <1>10 DEF Step, Acts

-----------------------------------------------------------------------------
(* What each step of a command, or around one, changes.                    *)
LEMMA NasmEffect ==
  ASSUME DriverTypeOK, NEW p \in Processes, Nasm(p)
  PROVE  /\ stage[p] = "nasm" /\ stage'[p] \in {"ld", "done"}
         /\ stage'[p] = "ld" => obj' = asm /\ exit' = exit
         /\ stage'[p] = "done" => exit'[p] = "AssembleOrLinkError"
         /\ \A q \in Processes : q # p =>
              stage'[q] = stage[q] /\ exit'[q] = exit[q] /\ binAtExit'[q] = binAtExit[q]
         /\ obj' = obj \/ obj'.from \subseteq asm.from
         /\ obj' \in File /\ exit' \in [Processes -> Codes \cup {"none"}]
         /\ binAtExit' \in [Processes -> File]
         /\ UNCHANGED <<asm, bin, linker, hasErrors, orphan, met, lost>>
<1>1. PICK ok \in BOOLEAN : Assemble(ok) /\ AfterCommand(p, ok, bin)
  BY DEF Nasm
<1>2. stage[p] = "nasm" /\ bin \in File /\ stage[p] \in Commands
  BY DEF Nasm, DriverTypeOK, Commands
<1>3. UNCHANGED <<hasErrors, orphan, met, lost>>
  BY DEF Nasm
<1>4. \/ /\ ok /\ stage' = [stage EXCEPT ![p] = "ld"]
         /\ exit' = exit /\ binAtExit' = binAtExit
      \/ /\ stage' = [stage EXCEPT ![p] = "done"]
         /\ exit' = [exit EXCEPT ![p] = "AssembleOrLinkError"]
         /\ binAtExit' = [binAtExit EXCEPT ![p] = bin]
  BY <1>1, <1>2, CommandOver
<1>5. /\ exit' \in [Processes -> Codes \cup {"none"}]
      /\ binAtExit' \in [Processes -> File]
  BY <1>1, <1>2, CommandOver
<1>6. /\ obj' \in File
      /\ ok => obj' = asm
      /\ obj' = obj \/ obj'.from \subseteq asm.from
      /\ asm' = asm /\ bin' = bin /\ linker' = linker
  BY <1>1, Assembled
<1>7. /\ stage'[p] \in {"ld", "done"}
      /\ stage'[p] = "ld" => obj' = asm /\ exit' = exit
      /\ stage'[p] = "done" => exit'[p] = "AssembleOrLinkError"
      /\ \A q \in Processes : q # p =>
           stage'[q] = stage[q] /\ exit'[q] = exit[q] /\ binAtExit'[q] = binAtExit[q]
  <2>1. CASE ok /\ stage' = [stage EXCEPT ![p] = "ld"]
              /\ exit' = exit /\ binAtExit' = binAtExit
    BY <2>1, <1>6 DEF DriverTypeOK
  <2>2. CASE /\ stage' = [stage EXCEPT ![p] = "done"]
             /\ exit' = [exit EXCEPT ![p] = "AssembleOrLinkError"]
             /\ binAtExit' = [binAtExit EXCEPT ![p] = bin]
    BY <2>2 DEF DriverTypeOK
  <2> QED
    BY <1>4, <2>1, <2>2
<1> QED
  BY <1>2, <1>3, <1>5, <1>6, <1>7

LEMMA LdEffect ==
  ASSUME DriverTypeOK, NEW p \in Processes, Ld(p)
  PROVE  /\ stage[p] = "ld" /\ stage'[p] = "done"
         /\ exit'[p] \in {"Success", "AssembleOrLinkError"}
         /\ exit'[p] = "Success" => bin' = obj
         /\ binAtExit'[p] = bin'
         /\ \A q \in Processes : q # p =>
              stage'[q] = stage[q] /\ exit'[q] = exit[q] /\ binAtExit'[q] = binAtExit[q]
         /\ bin' \in File /\ linker' \subseteq Processes
         /\ \/ bin' = bin /\ linker' = linker
            \/ bin'.from \subseteq obj.from /\ linker' = {p}
         /\ exit' \in [Processes -> Codes \cup {"none"}]
         /\ binAtExit' \in [Processes -> File]
         /\ UNCHANGED <<asm, obj, hasErrors, orphan, met, lost>>
<1>1. PICK ok \in BOOLEAN : Link(p, ok) /\ AfterCommand(p, ok, bin')
  BY DEF Ld
<1>2. stage[p] = "ld" /\ stage[p] \in Commands
  BY DEF Ld, Commands
<1>3. UNCHANGED <<hasErrors, orphan, met, lost>>
  BY DEF Ld
<1>4. /\ bin' \in File /\ linker' \subseteq Processes
      /\ \/ bin' = bin /\ linker' = linker
         \/ bin'.from \subseteq obj.from /\ linker' = {p}
      /\ ok => bin' = obj
      /\ asm' = asm /\ obj' = obj
  BY <1>1, Linked
<1>5. PICK out : out = bin'
  OBVIOUS
<1>6. AfterCommand(p, ok, out) /\ out \in File
  BY <1>1, <1>4, <1>5
<1>7. /\ stage' = [stage EXCEPT ![p] = "done"]
      /\ \/ ok /\ exit' = [exit EXCEPT ![p] = "Success"]
         \/ exit' = [exit EXCEPT ![p] = "AssembleOrLinkError"]
      /\ binAtExit' = [binAtExit EXCEPT ![p] = out]
      /\ exit' \in [Processes -> Codes \cup {"none"}]
      /\ binAtExit' \in [Processes -> File]
  BY <1>2, <1>6, CommandOver
<1>8. /\ stage'[p] = "done"
      /\ exit'[p] \in {"Success", "AssembleOrLinkError"}
      /\ exit'[p] = "Success" => ok
      /\ binAtExit'[p] = out
      /\ \A q \in Processes : q # p =>
           stage'[q] = stage[q] /\ exit'[q] = exit[q] /\ binAtExit'[q] = binAtExit[q]
  BY <1>7 DEF DriverTypeOK
<1> QED
  BY <1>2, <1>3, <1>4, <1>5, <1>7, <1>8

LEMMA LoseShellEffect ==
  ASSUME DriverTypeOK, NEW p \in Processes, LoseShell(p)
  PROVE  /\ stage[p] \in Commands /\ stage' = [stage EXCEPT ![p] = "done"]
         /\ orphan' = [orphan EXCEPT ![p] = stage[p]]
         /\ exit' = [exit EXCEPT ![p] = "AssembleOrLinkError"]
         /\ binAtExit' = [binAtExit EXCEPT ![p] = bin]
         /\ exit' \in [Processes -> Codes \cup {"none"}]
         /\ binAtExit' \in [Processes -> File]
         /\ UNCHANGED <<asm, obj, bin, linker, hasErrors, met, lost>>
<1>1. stage[p] \in Commands /\ bin \in File /\ AfterCommand(p, FALSE, bin)
  BY DEF LoseShell, DriverTypeOK
<1>2. /\ orphan' = [orphan EXCEPT ![p] = stage[p]]
      /\ UNCHANGED <<asm, obj, bin, linker, hasErrors, met, lost>>
  BY DEF LoseShell, files
<1> QED
  BY <1>1, <1>2, CommandOver

LEMMA KillEffect ==
  ASSUME DriverTypeOK, NEW p \in Processes, Kill(p)
  PROVE  /\ stage[p] \notin {"idle", "done"} /\ stage' = [stage EXCEPT ![p] = "done"]
         /\ asm' \in File
         /\ \/ asm' = asm
            \/ stage[p] = "write" /\ asm'.from = asm.from \cup {p}
         /\ orphan' = [orphan EXCEPT ![p] = IF stage[p] \in Commands THEN stage[p] ELSE @]
         /\ UNCHANGED <<exit, binAtExit, obj, bin, linker, hasErrors, met, lost>>
<1>1. \/ asm' = asm
      \/ stage[p] = "write" /\ \E all \in BOOLEAN : asm' = Text(p, all)
  BY DEF Kill
<1>2. asm' \in File /\ (asm' = asm \/ (stage[p] = "write" /\ asm'.from = asm.from \cup {p}))
  <2>1. CASE asm' = asm
    BY <2>1 DEF DriverTypeOK
  <2>2. CASE stage[p] = "write" /\ \E all \in BOOLEAN : asm' = Text(p, all)
    <3>1. PICK all \in BOOLEAN : asm' = Text(p, all)
      BY <2>2
    <3> QED
      BY <2>2, <3>1, TextFile
  <2> QED
    BY <1>1, <2>1, <2>2
<1> QED
  BY <1>2 DEF Kill, Go

LEMMA OrphanEffect ==
  ASSUME DriverTypeOK, NEW p \in Processes, OrphanEnds(p)
  PROVE  /\ \/ /\ orphan[p] = "nasm"
               /\ obj' = obj \/ obj'.from \subseteq asm.from
               /\ bin' = bin /\ linker' = linker
            \/ /\ orphan[p] = "ld" /\ obj' = obj
               /\ \/ bin' = bin /\ linker' = linker
                  \/ bin'.from \subseteq obj.from /\ linker' = {p}
         /\ obj' \in File /\ bin' \in File /\ linker' \subseteq Processes
         /\ orphan' = [orphan EXCEPT ![p] = "none"]
         /\ UNCHANGED <<stage, exit, binAtExit, asm, hasErrors, met, lost>>
<1>1. PICK ok \in BOOLEAN : \/ orphan[p] = "nasm" /\ Assemble(ok)
                            \/ orphan[p] = "ld" /\ Link(p, ok)
  BY DEF OrphanEnds
<1>2. /\ orphan' = [orphan EXCEPT ![p] = "none"]
      /\ UNCHANGED <<stage, exit, binAtExit, hasErrors, met, lost>>
  BY DEF OrphanEnds
<1> QED
  BY <1>1, <1>2, Assembled, Linked DEF DriverTypeOK

LEMMA WriteEffect ==
  ASSUME DriverTypeOK, NEW p \in Processes, WriteAsm(p)
  PROVE  /\ stage[p] = "write" /\ stage'[p] \in {"nasm", "done"}
         /\ stage'[p] = "nasm" => exit' = exit
         /\ stage'[p] = "done" => exit'[p] = "FileError"
         /\ \A q \in Processes : q # p =>
              stage'[q] = stage[q] /\ exit'[q] = exit[q] /\ binAtExit'[q] = binAtExit[q]
         /\ asm' \in File /\ asm'.from = asm.from \cup {p}
         /\ exit' \in [Processes -> Codes \cup {"none"}]
         /\ binAtExit' \in [Processes -> File]
         /\ lost' \subseteq Processes /\ lost \subseteq lost'
         /\ UNCHANGED <<obj, bin, linker, hasErrors, orphan, met>>
<1>1. PICK all \in BOOLEAN :
        /\ asm' = Text(p, all)
        /\ \/ all /\ Continue(p, "nasm") /\ lost' = lost
           \/ ~all /\ Exit(p, "FileError", bin) /\ lost' = lost
           \/ ~all /\ Continue(p, "nasm") /\ lost' = lost \cup {p}
  BY DEF WriteAsm
<1>2. stage[p] = "write" /\ UNCHANGED <<obj, bin, linker, hasErrors, orphan, met>>
  BY DEF WriteAsm
<1>3. asm' \in File /\ asm'.from = asm.from \cup {p}
  BY <1>1, TextFile
<1>4. \/ /\ stage' = [stage EXCEPT ![p] = "nasm"]
         /\ exit' = exit /\ binAtExit' = binAtExit
         /\ lost' = lost \cup {p} \/ (lost' = lost /\ all)
      \/ /\ stage' = [stage EXCEPT ![p] = "done"] /\ lost' = lost
         /\ exit' = [exit EXCEPT ![p] = "FileError"]
         /\ binAtExit' = [binAtExit EXCEPT ![p] = bin]
  BY <1>1 DEF Continue, Exit, Go
<1>5. /\ exit' \in [Processes -> Codes \cup {"none"}]
      /\ binAtExit' \in [Processes -> File] /\ lost' \subseteq Processes
  BY <1>4 DEF DriverTypeOK, Codes
<1>6. /\ stage'[p] \in {"nasm", "done"}
      /\ stage'[p] = "nasm" => exit' = exit
      /\ stage'[p] = "done" => exit'[p] = "FileError"
      /\ \A q \in Processes : q # p =>
           stage'[q] = stage[q] /\ exit'[q] = exit[q] /\ binAtExit'[q] = binAtExit[q]
      /\ lost \subseteq lost'
  <2>1. CASE /\ stage' = [stage EXCEPT ![p] = "nasm"]
             /\ exit' = exit /\ binAtExit' = binAtExit
             /\ lost' = lost \cup {p} \/ (lost' = lost /\ all)
    BY <2>1 DEF DriverTypeOK
  <2>2. CASE /\ stage' = [stage EXCEPT ![p] = "done"] /\ lost' = lost
             /\ exit' = [exit EXCEPT ![p] = "FileError"]
             /\ binAtExit' = [binAtExit EXCEPT ![p] = bin]
    BY <2>2 DEF DriverTypeOK
  <2> QED
    BY <1>4, <2>1, <2>2
<1> QED
  BY <1>2, <1>3, <1>5, <1>6

LEMMA WholeText ==
  ASSUME DriverTypeOK, NEW p \in Processes, WriteAsm(p),
         stage'[p] = "nasm", p \notin lost'
  PROVE  asm' = Text(p, TRUE)
<1>1. PICK all \in BOOLEAN :
        /\ asm' = Text(p, all)
        /\ \/ all /\ Continue(p, "nasm") /\ lost' = lost
           \/ ~all /\ Exit(p, "FileError", bin) /\ lost' = lost
           \/ ~all /\ Continue(p, "nasm") /\ lost' = lost \cup {p}
  BY DEF WriteAsm
<1>2. all
  BY <1>1 DEF Exit, Go, DriverTypeOK
<1> QED
  BY <1>1, <1>2

-----------------------------------------------------------------------------
LEMMA TypeStep ==
  ASSUME DriverTypeOK, Returned, NEW p \in Processes, Start(p) \/ Acts(p)
  PROVE  DriverTypeOK'
<1> USE FilesTyped
<1>1. CASE Kill(p)
  BY <1>1, KillEffect, Moves DEF Acts, DriverTypeOK
<1>2. CASE Start(p)
  BY <1>2 DEF Start, Continue, Go, files, Active, DriverTypeOK, Stages
<1>3. CASE ReadSource(p)
  <2>1. lost' \subseteq Processes /\ exit' \in [Processes -> Codes \cup {"none"}]
    BY <1>3 DEF ReadSource, Exit, Continue, DriverTypeOK, Codes
  <2>2. binAtExit' \in [Processes -> File]
    BY <1>3 DEF ReadSource, Exit, Continue, DriverTypeOK
  <2> QED
    BY <1>3, <2>1, <2>2, Moves DEF Acts, Step, ReadSource, files, DriverTypeOK
<1>4. CASE Analyse(p)
  <2>1. /\ exit' \in [Processes -> Codes \cup {"none"}]
        /\ hasErrors' \in [Processes -> BOOLEAN]
    BY <1>4 DEF Analyse, Exit, Continue, DriverTypeOK, Codes
  <2>2. binAtExit' \in [Processes -> File]
    BY <1>4 DEF Analyse, Exit, Continue, DriverTypeOK
  <2> QED
    BY <1>4, <2>1, <2>2, Moves DEF Acts, Step, Analyse, files, DriverTypeOK
<1>5. CASE Generate(p)
  BY <1>5, Moves DEF Acts, Step, Generate, Continue, files, DriverTypeOK
<1>6. CASE OpenAsm(p)
  <2>1. exit' \in [Processes -> Codes \cup {"none"}]
    BY <1>6 DEF OpenAsm, Exit, Continue, DriverTypeOK, Codes
  <2>2. binAtExit' \in [Processes -> File] /\ asm' \in File
    BY <1>6 DEF OpenAsm, Exit, Continue, DriverTypeOK
  <2> QED
    BY <1>6, <2>1, <2>2, Moves DEF Acts, Step, OpenAsm, DriverTypeOK
<1>7. CASE WriteAsm(p)
  BY <1>7, WriteEffect, Moves DEF Acts, Step, DriverTypeOK
<1>8. CASE Nasm(p)
  BY <1>8, NasmEffect, Moves DEF Acts, Step, DriverTypeOK
<1>9. CASE Ld(p)
  BY <1>9, LdEffect, Moves DEF Acts, Step, DriverTypeOK
<1>10. CASE LoseShell(p)
  BY <1>10, LoseShellEffect, Moves DEF Acts, DriverTypeOK
<1>11. CASE OrphanEnds(p)
  BY <1>11, OrphanEffect, Moves DEF Acts, DriverTypeOK
<1> QED
  BY <1>1, <1>2, <1>3, <1>4, <1>5, <1>6, <1>7, <1>8, <1>9, <1>10, <1>11 DEF Acts, Step

LEMMA MeetingStep ==
  ASSUME DriverTypeOK, Returned, Meeting, NEW p \in Processes, Start(p) \/ Acts(p)
  PROVE  Meeting'
<1>1. CASE Start(p)
  <2>1. /\ stage[p] = "idle" /\ stage' = [stage EXCEPT ![p] = "args"] /\ orphan' = orphan
        /\ \A q \in Processes :
             met'[q] = IF q = p THEN Active
                       ELSE IF q \in Active THEN met[q] \cup {p} ELSE met[q]
    BY <1>1 DEF Start, Continue, Go, DriverTypeOK
  <2>2. Active' = Active \cup {p} /\ p \notin Active /\ Active \subseteq Processes
    BY <2>1 DEF Active, Returned, DriverTypeOK
  <2> QED
    BY <2>1, <2>2 DEF Meeting
<1>2. CASE Acts(p)
  <2>1. Active' \subseteq Active /\ met' = met
    BY <1>2, Moves DEF Active
  <2> QED
    BY <2>1 DEF Meeting
<1> QED
  BY <1>1, <1>2

-----------------------------------------------------------------------------
(* A process writes out.asm before its text is in any file.                *)
LEMMA NotYetStep ==
  ASSUME IInv, NEW p \in Processes, Start(p) \/ Acts(p)
  PROVE  NotYetOnDisk'
<1> USE DEF IInv, DriverTypeOK, NotYetOnDisk, File, Empty, Stages, Commands
<1>1. CASE Kill(p)
  BY <1>1, KillEffect
<1>2. CASE Start(p)
  BY <1>2 DEF Start, Continue, Go, files
<1>3. CASE ReadSource(p)
  BY <1>3 DEF ReadSource, Exit, Continue, Go, files
<1>4. CASE Analyse(p)
  BY <1>4 DEF Analyse, Stops, After, Exit, Continue, Go, files
<1>5. CASE Generate(p)
  BY <1>5 DEF Generate, Continue, Go, files
<1>6. CASE OpenAsm(p)
  BY <1>6 DEF OpenAsm, Exit, Continue, Go
<1>7. CASE WriteAsm(p)
  BY <1>7, WriteEffect
<1>8. CASE Nasm(p)
  BY <1>8, NasmEffect
<1>9. CASE Ld(p)
  BY <1>9, LdEffect
<1>10. CASE LoseShell(p)
  BY <1>10, LoseShellEffect
<1>11. CASE OrphanEnds(p)
  BY <1>11, OrphanEffect
<1> QED
  BY <1>1, <1>2, <1>3, <1>4, <1>5, <1>6, <1>7, <1>8, <1>9, <1>10, <1>11 DEF Acts, Step

(* main() looks at hasErrors() after each stage.                           *)
LEMMA GatedStep ==
  ASSUME IInv, NEW p \in Processes, Start(p) \/ Acts(p)
  PROVE  Gated'
<1> USE DEF IInv, DriverTypeOK, Gated, Writing, Stages, Commands
<1>1. CASE Kill(p)
  BY <1>1, KillEffect
<1>2. CASE Start(p)
  BY <1>2 DEF Start, Continue, Go, files
<1>3. CASE ReadSource(p)
  BY <1>3 DEF ReadSource, Exit, Continue, Go, files
<1>4. CASE Analyse(p)
  BY <1>4 DEF Analyse, Stops, After, Exit, Continue, Go, files
<1>5. CASE Generate(p)
  BY <1>5 DEF Generate, Continue, Go, files
<1>6. CASE OpenAsm(p)
  BY <1>6 DEF OpenAsm, Exit, Continue, Go
<1>7. CASE WriteAsm(p)
  BY <1>7, WriteEffect
<1>8. CASE Nasm(p)
  BY <1>8, NasmEffect
<1>9. CASE Ld(p)
  BY <1>9, LdEffect
<1>10. CASE LoseShell(p)
  BY <1>10, LoseShellEffect
<1>11. CASE OrphanEnds(p)
  BY <1>11, OrphanEffect
<1> QED
  BY <1>1, <1>2, <1>3, <1>4, <1>5, <1>6, <1>7, <1>8, <1>9, <1>10, <1>11 DEF Acts, Step

(* Only a process that returns has an exit code, and only one that is gone *)
(* leaves a command.                                                       *)
LEMMA ReturnedStep ==
  ASSUME IInv, NEW p \in Processes, Start(p) \/ Acts(p)
  PROVE  Returned'
<1> USE DEF IInv, DriverTypeOK, Returned, Codes, Stages, Commands, TooEarly
<1>1. CASE Kill(p)
  BY <1>1, KillEffect
<1>2. CASE Start(p)
  BY <1>2 DEF Start, Continue, Go, files
<1>3. CASE ReadSource(p)
  BY <1>3 DEF ReadSource, Exit, Continue, Go, files
<1>4. CASE Analyse(p)
  BY <1>4 DEF Analyse, Stops, After, Exit, Continue, Go, files
<1>5. CASE Generate(p)
  BY <1>5 DEF Generate, Continue, Go, files
<1>6. CASE OpenAsm(p)
  BY <1>6 DEF OpenAsm, Exit, Continue, Go
<1>7. CASE WriteAsm(p)
  BY <1>7, WriteEffect
<1>8. CASE Nasm(p)
  BY <1>8, NasmEffect
<1>9. CASE Ld(p)
  BY <1>9, LdEffect
<1>10. CASE LoseShell(p)
  BY <1>10, LoseShellEffect
<1>11. CASE OrphanEnds(p)
  BY <1>11, OrphanEffect
<1> QED
  BY <1>1, <1>2, <1>3, <1>4, <1>5, <1>6, <1>7, <1>8, <1>9, <1>10, <1>11 DEF Acts, Step

(* No error is found in a source whose text is in a file.                  *)
LEMMA AcceptedStep ==
  ASSUME IInv, NEW p \in Processes, Start(p) \/ Acts(p)
  PROVE  OnlyAcceptedReachDisk'
<1> USE DEF IInv, DriverTypeOK, NotYetOnDisk, Gated, OnlyAcceptedReachDisk, File,
            Empty, Writing, Stages, Commands
<1>1. CASE Kill(p)
  BY <1>1, KillEffect
<1>2. CASE Start(p)
  BY <1>2 DEF Start, Continue, Go, files
<1>3. CASE ReadSource(p)
  BY <1>3 DEF ReadSource, Exit, Continue, Go, files
<1>4. CASE Analyse(p)
  BY <1>4 DEF Analyse, Stops, After, Exit, Continue, Go, files
<1>5. CASE Generate(p)
  BY <1>5 DEF Generate, Continue, Go, files
<1>6. CASE OpenAsm(p)
  BY <1>6 DEF OpenAsm, Exit, Continue, Go
<1>7. CASE WriteAsm(p)
  BY <1>7, WriteEffect
<1>8. CASE Nasm(p)
  BY <1>8, NasmEffect
<1>9. CASE Ld(p)
  BY <1>9, LdEffect
<1>10. CASE LoseShell(p)
  BY <1>10, LoseShellEffect
<1>11. CASE OrphanEnds(p)
  BY <1>11, OrphanEffect
<1> QED
  BY <1>1, <1>2, <1>3, <1>4, <1>5, <1>6, <1>7, <1>8, <1>9, <1>10, <1>11 DEF Acts, Step

-----------------------------------------------------------------------------
(* What a process that runs alone finds in the files it made.              *)
LEMMA WorksStep ==
  ASSUME IInv, NEW p \in Processes, Acts(p),
         NEW q \in Processes, met[q] = {}, met' = met,
         q \in Active => q = p
  PROVE  /\ stage'[q] = "write" => asm' = Empty
         /\ stage'[q] = "nasm" /\ q \notin lost' => asm' = Own(q)
         /\ stage'[q] = "ld" /\ q \notin lost' => obj' = Own(q)
<1>1. CASE q # p
  <2>1. stage[q] \in {"idle", "done"}
    BY <1>1 DEF Active
  <2>2. stage'[q] = stage[q]
    BY <1>1, Moves DEF IInv
  <2> QED
    BY <2>1, <2>2
<1>2. CASE q = p
  <2> USE <1>2 DEF IInv, DriverTypeOK, Works, Stages
  <2>1. CASE Kill(p)
    BY <2>1, KillEffect
  <2>2. CASE ReadSource(p)
    BY <2>2 DEF ReadSource, Exit, Continue, Go, files
  <2>3. CASE Analyse(p)
    BY <2>3 DEF Analyse, Stops, After, Exit, Continue, Go, files
  <2>4. CASE Generate(p)
    BY <2>4 DEF Generate, Continue, Go, files
  <2>5. CASE OpenAsm(p)
    BY <2>5 DEF OpenAsm, Exit, Continue, Go
  <2>6. CASE WriteAsm(p)
    <3>1. asm = Empty
      BY <2>6, WriteEffect
    <3>2. Text(p, TRUE) = Own(p)
      BY <3>1 DEF Text, Empty, Own
    <3> QED
      BY <2>6, <3>2, WriteEffect, WholeText
  <2>7. CASE Nasm(p)
    BY <2>7, NasmEffect
  <2>8. CASE Ld(p)
    BY <2>8, LdEffect
  <2>9. CASE LoseShell(p)
    BY <2>9, LoseShellEffect
  <2>10. CASE OrphanEnds(p)
    <3>1. stage[p] = "done"
      BY <2>10 DEF OrphanEnds, Returned
    <3> QED
      BY <2>10, <3>1, OrphanEffect
  <2> QED
    BY <2>1, <2>2, <2>3, <2>4, <2>5, <2>6, <2>7, <2>8, <2>9, <2>10 DEF Acts, Step
<1> QED
  BY <1>1, <1>2

(* ld succeeds on the object file the process made.                        *)
LEMMA FreshStep ==
  ASSUME IInv, NEW p \in Processes, Acts(p),
         NEW q \in Processes, met[q] = {}, met' = met
  PROVE  exit'[q] = "Success" /\ q \notin lost' => binAtExit'[q] = Own(q)
<1> USE DEF IInv, DriverTypeOK, Works, SuccessIsFresh, Own, Stages, Returned
<1>1. CASE Kill(p)
  BY <1>1, KillEffect
<1>2. CASE ReadSource(p)
  BY <1>2 DEF ReadSource, Exit, Continue, Go, files
<1>3. CASE Analyse(p)
  BY <1>3 DEF Analyse, Stops, After, Exit, Continue, Go, files
<1>4. CASE Generate(p)
  BY <1>4 DEF Generate, Continue, Go, files
<1>5. CASE OpenAsm(p)
  BY <1>5 DEF OpenAsm, Exit, Continue, Go
<1>6. CASE WriteAsm(p)
  BY <1>6, WriteEffect
<1>7. CASE Nasm(p)
  BY <1>7, NasmEffect
<1>8. CASE Ld(p)
  BY <1>8, LdEffect
<1>9. CASE LoseShell(p)
  BY <1>9, LoseShellEffect
<1>10. CASE OrphanEnds(p)
  BY <1>10, OrphanEffect
<1> QED
  BY <1>1, <1>2, <1>3, <1>4, <1>5, <1>6, <1>7, <1>8, <1>9, <1>10 DEF Acts, Step

(* A process replaces out.asm and out.o before it, or a command it leaves, *)
(* makes use of them.                                                      *)
LEMMA ReplacedStep ==
  ASSUME IInv, NEW p \in Processes, Acts(p),
         NEW q \in Processes, NEW r \in Processes, met[q] = {}, met' = met, r # q,
         q \in Active => q = p, q = p => r \notin Active
  PROVE  /\ stage'[r] \in Writing \/ orphan'[r] # "none" => q \notin asm'.from
         /\ stage'[r] = "ld" \/ orphan'[r] = "ld" => q \notin obj'.from
<1>1. CASE q = p
  <2>1. stage[r] \in {"idle", "done"} /\ orphan[r] = "none"
    BY <1>1 DEF Active
  <2>2. stage'[r] = stage[r] /\ orphan'[r] = orphan[r]
    BY <1>1, Moves DEF IInv
  <2> QED
    BY <2>1, <2>2 DEF Writing, Commands
<1>2. CASE q # p
  <2>1. /\ stage[r] \in Writing \/ orphan[r] # "none" => q \notin asm.from
        /\ stage[r] = "ld" \/ orphan[r] = "ld" => q \notin obj.from
        /\ stage[p] \in Writing \/ orphan[p] # "none" => q \notin asm.from
        /\ stage[p] = "ld" \/ orphan[p] = "ld" => q \notin obj.from
    BY <1>2 DEF IInv, Replaced
  <2>2. r # p => stage'[r] = stage[r] /\ orphan'[r] = orphan[r]
    BY Moves DEF IInv
  <2> USE <1>2, <2>1, <2>2 DEF IInv, DriverTypeOK, Writing, File, Empty, Stages, Commands
  <2>3. CASE Kill(p)
    BY <2>3, KillEffect
  <2>4. CASE ReadSource(p)
    BY <2>4 DEF ReadSource, Exit, Continue, Go, files
  <2>5. CASE Analyse(p)
    BY <2>5 DEF Analyse, Stops, After, Exit, Continue, Go, files
  <2>6. CASE Generate(p)
    BY <2>6 DEF Generate, Continue, Go, files
  <2>7. CASE OpenAsm(p)
    BY <2>7 DEF OpenAsm, Exit, Continue, Go
  <2>8. CASE WriteAsm(p)
    BY <2>8, WriteEffect
  <2>9. CASE Nasm(p)
    BY <2>9, NasmEffect
  <2>10. CASE Ld(p)
    BY <2>10, LdEffect
  <2>11. CASE LoseShell(p)
    BY <2>11, LoseShellEffect
  <2>12. CASE OrphanEnds(p)
    BY <2>12, OrphanEffect
  <2> QED
    BY <2>3, <2>4, <2>5, <2>6, <2>7, <2>8, <2>9, <2>10, <2>11, <2>12 DEF Acts, Step
<1> QED
  BY <1>1, <1>2

(* What is linked is not what another left.                                *)
LEMMA OwnLinkStep ==
  ASSUME IInv, NEW p \in Processes, Acts(p),
         NEW q \in Processes, met[q] = {}, met' = met
  PROVE  q \in bin'.from => linker' = {q} /\ exit'[q] \notin TooEarly
<1>1. q \in bin.from => linker = {q} /\ exit[q] \notin TooEarly
  BY DEF IInv, LeftoversAreNeverLinked, TooEarly
<1>2. q # p /\ (stage[p] = "ld" \/ orphan[p] = "ld") => q \notin obj.from
  BY DEF IInv, Replaced
<1>3. q \in bin.from => stage[q] \in Commands \cup {"done"}
  BY DEF IInv, NotYetOnDisk
<1>4. exit[p] # "none" \/ orphan[p] # "none" => stage[p] = "done"
  BY DEF IInv, Returned
<1>5. orphan[p] # "none" => exit[p] \notin TooEarly
  BY DEF IInv, Returned
<1> USE <1>1, <1>2, <1>3 DEF IInv, DriverTypeOK, TooEarly, Stages, Commands
<1>6. CASE Kill(p)
  BY <1>6, KillEffect
<1>7. CASE ReadSource(p)
  BY <1>7 DEF ReadSource, Exit, Continue, Go, files
<1>8. CASE Analyse(p)
  BY <1>8 DEF Analyse, Stops, After, Exit, Continue, Go, files
<1>9. CASE Generate(p)
  BY <1>9 DEF Generate, Continue, Go, files
<1>10. CASE OpenAsm(p)
  BY <1>10 DEF OpenAsm, Exit, Continue, Go
<1>11. CASE WriteAsm(p)
  BY <1>11, WriteEffect
<1>12. CASE Nasm(p)
  BY <1>12, NasmEffect
<1>13. CASE Ld(p)
  BY <1>13, LdEffect
<1>14. CASE LoseShell(p)
  BY <1>14, LoseShellEffect
<1>15. CASE OrphanEnds(p)
  BY <1>15, <1>5, OrphanEffect
<1> QED
  BY <1>6, <1>7, <1>8, <1>9, <1>10, <1>11, <1>12, <1>13, <1>14, <1>15 DEF Acts, Step

-----------------------------------------------------------------------------
(* A process that starts while another is active has met it, and the other *)
(* it.                                                                     *)
LEMMA StartKeeps ==
  ASSUME IInv, NEW p \in Processes, Start(p)
  PROVE  Works' /\ SuccessIsFresh' /\ Replaced' /\ LeftoversAreNeverLinked'
<1>1. /\ stage[p] = "idle" /\ stage' = [stage EXCEPT ![p] = "args"]
      /\ UNCHANGED <<exit, binAtExit, asm, obj, bin, linker, orphan, lost>>
  BY DEF IInv, DriverTypeOK, Start, Continue, Go, files
<1>2. \A q \in Processes : q # p /\ met'[q] = {} => met[q] = {}
  BY DEF IInv, DriverTypeOK, Start
<1>3. /\ exit[p] = "none" /\ orphan[p] = "none"
      /\ p \notin asm.from \cup obj.from \cup bin.from
  BY <1>1 DEF IInv, Returned, NotYetOnDisk, Commands
<1>4. /\ stage'[p] = "args"
      /\ \A q \in Processes : q # p => stage'[q] = stage[q]
  BY <1>1 DEF IInv, DriverTypeOK
<1>5. Works'
  BY <1>1, <1>2, <1>4 DEF IInv, Works, Own
<1>6. SuccessIsFresh'
  BY <1>1, <1>2, <1>3 DEF IInv, SuccessIsFresh
<1>7. Replaced'
  BY <1>1, <1>2, <1>3, <1>4 DEF IInv, Replaced, Writing, Commands
<1>8. LeftoversAreNeverLinked'
  BY <1>1, <1>2, <1>3 DEF IInv, LeftoversAreNeverLinked
<1> QED
  BY <1>5, <1>6, <1>7, <1>8

LEMMA ActsKeeps ==
  ASSUME IInv, NEW p \in Processes, Acts(p)
  PROVE  Works' /\ SuccessIsFresh' /\ Replaced' /\ LeftoversAreNeverLinked'
<1>1. p \in Active /\ met' = met
  BY Moves DEF IInv
<1>2. \A q \in Processes : met[q] = {} =>
        /\ q \in Active => q = p
        /\ \A r \in Active : q = p => r = p
  BY <1>1, Alone DEF IInv
<1>3. Works'
  BY <1>1, <1>2, WorksStep DEF Works, Own
<1>4. SuccessIsFresh'
  BY <1>1, FreshStep DEF SuccessIsFresh, Own
<1>5. Replaced'
  BY <1>1, <1>2, ReplacedStep DEF Replaced
<1>6. LeftoversAreNeverLinked'
  BY <1>1, OwnLinkStep DEF LeftoversAreNeverLinked, TooEarly
<1> QED
  BY <1>3, <1>4, <1>5, <1>6

LEMMA Invariance == DriverSpec => []IInv
<1>1. DriverInit => IInv
  BY DEF DriverInit, IInv, DriverTypeOK, Missing, File, Stages, Active, Meeting,
     NotYetOnDisk, Gated, Writing, Commands, Works, Returned, Replaced, TooEarly,
     SuccessIsFresh, OnlyAcceptedReachDisk, LeftoversAreNeverLinked
<1>2. IInv /\ [DriverNext]_driverVars => IInv'
  <2>1. ASSUME IInv, NEW p \in Processes, Start(p) \/ Acts(p)
        PROVE  IInv'
    <3>1. DriverTypeOK' /\ Meeting'
      BY <2>1, TypeStep, MeetingStep DEF IInv
    <3>2. NotYetOnDisk' /\ Gated' /\ Returned' /\ OnlyAcceptedReachDisk'
      BY <2>1, NotYetStep, GatedStep, ReturnedStep, AcceptedStep
    <3>3. Works' /\ SuccessIsFresh' /\ Replaced' /\ LeftoversAreNeverLinked'
      BY <2>1, StartKeeps, ActsKeeps
    <3> QED
      BY <3>1, <3>2, <3>3 DEF IInv
  <2>2. IInv /\ UNCHANGED driverVars => IInv'
    BY DEF driverVars, files, IInv, DriverTypeOK, Active, Meeting, NotYetOnDisk, Gated,
       Works, Own, Returned, Replaced, SuccessIsFresh, OnlyAcceptedReachDisk,
       LeftoversAreNeverLinked
  <2> QED
    BY <2>1, <2>2 DEF DriverNext, Acts
<1> QED
  BY <1>1, <1>2, PTL DEF DriverSpec

(* The processes' stages, exit codes, files and the commands they left     *)
(* behind keep their types.                                                *)
THEOREM DriverTypeCorrectness == DriverSpec => []DriverTypeOK
<1>1. IInv => DriverTypeOK
  BY DEF IInv
<1> QED
  BY <1>1, Invariance, PTL

(* For any number of processes: exit code 0 means that ./out is the program*)
(* just compiled, unless an error went unseen, or another process, or a    *)
(* command that one left behind, was active too.                           *)
THEOREM SuccessFresh == DriverSpec => []SuccessIsFresh
<1>1. IInv => SuccessIsFresh
  BY DEF IInv
<1> QED
  BY <1>1, Invariance, PTL

(* Nothing of a source with an error is ever in a file, however many       *)
(* processes share the directory.                                          *)
THEOREM OnlyAcceptedOnDisk == DriverSpec => []OnlyAcceptedReachDisk
<1>1. IInv => OnlyAcceptedReachDisk
  BY DEF IInv
<1> QED
  BY <1>1, Invariance, PTL

(* What a compilation that failed or was killed left in out.asm or out.o   *)
(* is never linked into ./out by a later one.                              *)
THEOREM LeftoversUnlinked == DriverSpec => []LeftoversAreNeverLinked
<1>1. IInv => LeftoversAreNeverLinked
  BY DEF IInv
<1> QED
  BY <1>1, Invariance, PTL

-----------------------------------------------------------------------------
(* The arena: the regions handed out are apart, lie in their blocks and    *)
(* are aligned, and a fresh block always suffices.                         *)


(* A block starts past the end of every earlier one.                       *)
BlocksAreApart ==
  \A i, j \in DOMAIN blocks :
    i < j => blocks[i].base + blocks[i].size <= blocks[j].base

(* The inductive invariant.  That a region is disjoint from the next one   *)
(* follows from its lying in the used part of a block, and that of two     *)
(* blocks from their order.                                                *)
ArenaInv ==
  /\ ArenaTypeOK
  /\ BlocksAreApart
  /\ RegionsAreInBlocks
  /\ RegionsAreDisjoint
  /\ OneBlockIsEnough

-----------------------------------------------------------------------------
(* std::align() goes forward by less than one alignment.                   *)
LEMMA RoundUpBounds ==
  ASSUME NEW a \in Nat, NEW n \in Nat \ {0}
  PROVE  RoundUp(a, n) \in Nat /\ a <= RoundUp(a, n) /\ RoundUp(a, n) < a + n
<1>1. a % n \in 0..(n - 1)
  OBVIOUS
<1>2. (n - (a % n)) % n \in 0..(n - 1)
  BY <1>1
<1>3. QED
  BY <1>2 DEF RoundUp

(* And it arrives at a multiple of the alignment.                          *)
LEMMA RoundUpAligned ==
  ASSUME NEW a \in Nat, NEW n \in Nat \ {0}
  PROVE  RoundUp(a, n) % n = 0
<1> DEFINE r == a % n
           q == a \div n
<1>1. r \in 0..(n - 1) /\ q \in Nat /\ a = n * q + r
  OBVIOUS
<1>2. CASE r = 0
  <2>1. (n - r) % n = 0
    BY <1>2
  <2>2. QED
    BY <1>2, <2>1 DEF RoundUp
<1>3. CASE r # 0
  <2>1. (n - r) % n = n - r
    BY <1>1, <1>3
  <2>2. RoundUp(a, n) = n * q + n
    BY <1>1, <2>1 DEF RoundUp
  <2>3. (n * q + n) % n = 0
    <3> HIDE DEF q
    <3>1. n * q + n = n * (q + 1)
      BY <1>1
    <3>2. (n * (q + 1)) % n = 0
      BY <1>1
    <3>3. QED
      BY <3>1, <3>2
  <2>4. QED
    BY <2>2, <2>3
<1>4. QED
  BY <1>1, <1>2, <1>3

(* A block made for a request holds it wherever the heap puts the block.   *)
LEMMA FreshBlockFits ==
  ASSUME NEW r \in Request, NEW base \in Nat
  PROVE  /\ NewBlock(base, Needed(r)) \in Block
         /\ Fits(NewBlock(base, Needed(r)), r)
<1>1. /\ r.bytes \in Nat \ {0} /\ r.alignment \in Nat \ {0} /\ BlockBytes \in Nat
  BY ArenaAssumption DEF Request
<1>2. RoundUp(base, r.alignment) \in Nat /\ RoundUp(base, r.alignment) < base + r.alignment
  BY <1>1, RoundUpBounds
<1>3. /\ Larger(Needed(r), BlockBytes) \in Nat
      /\ r.bytes + r.alignment <= Larger(Needed(r), BlockBytes)
  BY <1>1 DEF Larger, Needed
<1>4. NewBlock(base, Needed(r)) =
        [base |-> base, size |-> Larger(Needed(r), BlockBytes), used |-> 0]
  BY DEF NewBlock
<1>5. AlignedIn(NewBlock(base, Needed(r)), r) = RoundUp(base, r.alignment)
  BY <1>4 DEF AlignedIn
<1>6. QED
  BY <1>1, <1>2, <1>3, <1>4, <1>5 DEF Fits, Block

-----------------------------------------------------------------------------
(* The block allocateRaw() fills is one of the list.                       *)
LEMMA CurrentIsBlock ==
  ASSUME ArenaTypeOK
  PROVE  Current \in Block /\ Len(blocks) \in DOMAIN blocks
BY DEF ArenaTypeOK, Current

(* A region handed out has an address, a size and an alignment.            *)
LEMMA RegionsAreNumbers ==
  ASSUME NEW h \in Region
  PROVE  h.addr \in Nat /\ h.bytes \in Nat /\ h.addr + h.bytes \in Nat
<1>1. h.addr \in Nat /\ h.bytes \in Sizes
  BY DEF Region
<1>2. h.bytes \in Nat
  BY <1>1, ArenaAssumption
<1>3. QED
  BY <1>1, <1>2

(* The constructor establishes the invariant.                              *)
LEMMA InitEstablishes == ArenaInit => ArenaInv
<1> SUFFICES ASSUME NEW gap \in Gaps, blocks = <<NewBlock(gap, BlockBytes)>>,
                    request = Idle, given = {}
             PROVE  ArenaInv
  BY DEF ArenaInit
<1>1. NewBlock(gap, BlockBytes) \in Block
  BY ArenaAssumption DEF NewBlock, Larger, Block
<1>2. ArenaTypeOK
  BY <1>1 DEF ArenaTypeOK
<1>3. blocks[1].used <= blocks[1].size
  BY <1>1, ArenaAssumption DEF NewBlock, Larger
<1>4. BlocksAreApart /\ RegionsAreInBlocks /\ RegionsAreDisjoint /\ OneBlockIsEnough
  BY <1>3 DEF BlocksAreApart, RegionsAreInBlocks, RegionsAreDisjoint,
              OneBlockIsEnough, Idle
<1>5. QED
  BY <1>2, <1>4 DEF ArenaInv

(* A call of allocateRaw() begins.                                         *)
LEMMA AllocateKeeps ==
  ASSUME ArenaInv, Allocate
  PROVE  ArenaInv'
<1>1. PICK bytes \in Sizes, alignment \in Alignments :
        request' = [bytes |-> bytes, alignment |-> alignment, grown |-> 0]
  BY DEF Allocate
<1>2. request' \in Request /\ request'.grown = 0
  BY <1>1 DEF Request
<1>3. ArenaTypeOK'
  BY <1>2 DEF ArenaInv, ArenaTypeOK, Allocate
<1>4. BlocksAreApart' /\ RegionsAreInBlocks' /\ RegionsAreDisjoint'
  BY DEF ArenaInv, BlocksAreApart, RegionsAreInBlocks, RegionsAreDisjoint, Allocate
<1>5. OneBlockIsEnough'
  BY <1>2 DEF OneBlockIsEnough
<1>6. QED
  BY <1>3, <1>4, <1>5 DEF ArenaInv

(* A region is carved from the unused end of the last block.               *)
LEMMA BumpKeeps ==
  ASSUME ArenaInv, Bump
  PROVE  ArenaInv'
<1> DEFINE n == Len(blocks)
           b == Current
           at == AlignedIn(b, request)
           g == [addr |-> at, bytes |-> request.bytes,
                 alignment |-> request.alignment]
<1>1. /\ b \in Block /\ n \in DOMAIN blocks /\ b = blocks[n]
      /\ blocks \in Seq(Block) /\ given \subseteq Region
  BY CurrentIsBlock DEF ArenaInv, ArenaTypeOK, Current
<1>2. request \in Request /\ request.bytes \in Nat \ {0}
      /\ request.alignment \in Nat \ {0}
  BY ArenaAssumption DEF ArenaInv, ArenaTypeOK, Bump, Request
<1>3. b.base \in Nat /\ b.used \in Nat /\ b.size \in Nat
  BY <1>1 DEF Block
<1>4. /\ at \in Nat
      /\ b.base + b.used <= at
      /\ at + request.bytes <= b.base + b.size
  <2>1. b.base + b.used \in Nat
    BY <1>3
  <2>2. at \in Nat /\ b.base + b.used <= at
    BY <1>2, <2>1, RoundUpBounds DEF AlignedIn
  <2>3. at + request.bytes <= b.base + b.size
    BY DEF Bump, Fits
  <2>4. QED
    BY <2>2, <2>3
<1>5. g \in Region
  BY <1>2, <1>4 DEF Region, Request
<1>6. UsedAfter(b, request) \in Nat
      /\ b.base + UsedAfter(b, request) = at + request.bytes
      /\ b.used <= UsedAfter(b, request) /\ UsedAfter(b, request) <= b.size
  <2> HIDE DEF b
  <2>1. UsedAfter(b, request) = at - b.base + request.bytes
    BY DEF UsedAfter
  <2> HIDE DEF at
  <2>2. QED
    BY <1>2, <1>4, <1>3, <2>1
<1> DEFINE new == [b EXCEPT !.used = UsedAfter(b, request)]
<1>7. /\ new \in Block /\ new.base = b.base /\ new.size = b.size
      /\ new.used = UsedAfter(b, request)
  BY <1>1, <1>6 DEF Block
<1>8. /\ given' = given \cup {g}
      /\ blocks' = [blocks EXCEPT ![n] = new]
      /\ request' = Idle
  BY <1>1 DEF Bump
<1> HIDE DEF at, new, b
<1>9. /\ blocks' \in Seq(Block) /\ DOMAIN blocks' = DOMAIN blocks
      /\ \A i \in DOMAIN blocks : i # n => blocks'[i] = blocks[i]
      /\ blocks'[n] = new
  BY <1>1, <1>8, <1>7
<1>10. \A i \in DOMAIN blocks :
        /\ blocks'[i].base = blocks[i].base
        /\ blocks'[i].size = blocks[i].size
        /\ blocks[i].used <= blocks'[i].used
  <2>1. ASSUME NEW i \in DOMAIN blocks
        PROVE  blocks[i] \in Block /\ blocks[i].used \in Nat
    <3>1. blocks[i] \in Block
      BY <1>1
    <3>2. QED
      BY <3>1 DEF Block
  <2>2. QED
    BY <1>1, <1>6, <1>9, <1>7, <1>3, <2>1
<1>11. ArenaTypeOK'
  BY <1>5, <1>8, <1>9 DEF ArenaInv, ArenaTypeOK
<1>12. BlocksAreApart'
  BY <1>9, <1>10 DEF ArenaInv, BlocksAreApart
<1>13. RegionsAreInBlocks'
  <2>1. \A i \in DOMAIN blocks' : blocks'[i].used <= blocks'[i].size
    BY <1>1, <1>6, <1>9, <1>7, <1>3 DEF ArenaInv, RegionsAreInBlocks
  <2>2. ASSUME NEW h \in given
        PROVE  \E i \in DOMAIN blocks' : Inside(h, blocks'[i])
    <3>1. PICK i \in DOMAIN blocks : Inside(h, blocks[i])
      BY DEF ArenaInv, RegionsAreInBlocks
    <3>2. h \in Region /\ blocks[i] \in Block /\ blocks'[i] \in Block
      BY <1>1, <1>9
    <3>3. h.addr + h.bytes \in Nat
      BY <3>2, RegionsAreNumbers
    <3>4. Inside(h, blocks'[i])
      BY <1>10, <3>1, <3>2, <3>3 DEF Inside, Block
    <3>5. QED
      BY <1>9, <3>4
  <2>3. Inside(g, blocks'[n])
    <3>1. b.base <= at
      BY <1>3, <1>4
    <3>2. at + request.bytes <= b.base + UsedAfter(b, request)
      BY <1>2, <1>3, <1>4, <1>6
    <3>3. blocks'[n].base = b.base /\ blocks'[n].used = UsedAfter(b, request)
      BY <1>7, <1>9
    <3>4. g.addr = at /\ g.bytes = request.bytes
      OBVIOUS
    <3> HIDE DEF g
    <3>5. QED
      BY <3>1, <3>2, <3>3, <3>4 DEF Inside
  <2>4. QED
    BY <1>1, <1>8, <1>9, <2>1, <2>2, <2>3 DEF RegionsAreInBlocks
<1>14. RegionsAreDisjoint'
  <2>1. ASSUME NEW h \in given
        PROVE  h.addr + h.bytes <= at
    <3>1. PICK i \in DOMAIN blocks : Inside(h, blocks[i])
      BY DEF ArenaInv, RegionsAreInBlocks
    <3>2. /\ h \in Region /\ blocks[i] \in Block
          /\ blocks[i].used <= blocks[i].size
      BY <1>1 DEF ArenaInv, RegionsAreInBlocks
    <3>3. h.addr + h.bytes \in Nat
      BY <3>2, RegionsAreNumbers
    <3>4. CASE i = n
      BY <1>1, <1>4, <3>1, <3>2, <3>3, <3>4 DEF Inside, Block
    <3>5. CASE i # n
      <4>1. blocks[i].base + blocks[i].size <= b.base
        BY <1>1, <3>5 DEF ArenaInv, BlocksAreApart
      <4>2. QED
        BY <1>1, <1>4, <3>1, <3>2, <3>3, <4>1 DEF Inside, Block
    <3>6. QED
      BY <3>4, <3>5
  <2>2. \A h \in given : Disjoint(h, g) /\ Disjoint(g, h)
    BY <2>1 DEF Disjoint
  <2>3. QED
    BY <1>8, <2>2 DEF ArenaInv, RegionsAreDisjoint
<1>15. OneBlockIsEnough'
  BY <1>8 DEF OneBlockIsEnough, Idle
<1>16. QED
  BY <1>11, <1>12, <1>13, <1>14, <1>15 DEF ArenaInv

(* A block is added past the last, and holds the request that asked for    *)
(* it, which therefore is asked for once.                                  *)
LEMMA GrowKeeps ==
  ASSUME ArenaInv, Grow
  PROVE  ArenaInv'
<1> DEFINE b == Current
<1>1. /\ b \in Block /\ b = blocks[Len(blocks)] /\ Len(blocks) \in DOMAIN blocks
      /\ blocks \in Seq(Block)
  BY CurrentIsBlock DEF ArenaInv, ArenaTypeOK, Current
<1>2. request \in Request
  BY DEF ArenaInv, ArenaTypeOK, Grow
<1>3. request.grown = 0
  <2>1. request.grown \in Nat /\ request.grown <= 1
    BY <1>2 DEF ArenaInv, OneBlockIsEnough, Request
  <2>2. request.grown # 1
    BY DEF ArenaInv, OneBlockIsEnough, Grow
  <2>3. QED
    BY <2>1, <2>2
<1>4. PICK gap \in Gaps :
        blocks' = Append(blocks, NewBlock(b.base + b.size + gap, Needed(request)))
  BY DEF Grow
<1> DEFINE base == b.base + b.size + gap
           new == NewBlock(base, Needed(request))
<1>5. base \in Nat /\ b.base + b.size <= base
  BY <1>1, ArenaAssumption DEF Block
<1>6. new \in Block /\ Fits(new, request) /\ new.base = base /\ new.used = 0
  <2> HIDE DEF base
  <2>1. new \in Block /\ Fits(new, request)
    BY <1>2, <1>5, FreshBlockFits
  <2>2. QED
    BY <2>1 DEF NewBlock
<1> HIDE DEF new, base
<1>7. /\ blocks' = Append(blocks, new)
      /\ request' = [request EXCEPT !.grown = 1]
      /\ given' = given
  BY <1>2, <1>3, <1>4 DEF Grow, new, base
<1>8. /\ blocks' \in Seq(Block) /\ Len(blocks') = Len(blocks) + 1
      /\ \A i \in DOMAIN blocks : i \in DOMAIN blocks' /\ blocks'[i] = blocks[i]
      /\ blocks'[Len(blocks')] = new
  BY <1>1, <1>6, <1>7
<1>9. request' \in Request /\ request'.grown = 1
      /\ request'.bytes = request.bytes /\ request'.alignment = request.alignment
  BY <1>2, <1>7 DEF Request
<1>10. ArenaTypeOK'
  BY <1>7, <1>8, <1>9 DEF ArenaInv, ArenaTypeOK
<1>11. BlocksAreApart'
  <2>1. ASSUME NEW i \in DOMAIN blocks
        PROVE  blocks[i].base + blocks[i].size <= base
    <3>1. blocks[i] \in Block
      BY <1>1
    <3>2. CASE i = Len(blocks)
      BY <1>1, <1>5, <3>2
    <3>3. CASE i # Len(blocks)
      <4>1. blocks[i].base + blocks[i].size <= b.base
        BY <1>1, <3>3 DEF ArenaInv, BlocksAreApart
      <4>2. QED
        BY <1>1, <1>5, <3>1, <4>1 DEF Block
    <3>4. QED
      BY <3>2, <3>3
  <2>2. ASSUME NEW i \in DOMAIN blocks', NEW j \in DOMAIN blocks', i < j
        PROVE  blocks'[i].base + blocks'[i].size <= blocks'[j].base
    <3>1. i \in DOMAIN blocks
      BY <1>1, <1>8, <2>2
    <3>2. CASE j \in DOMAIN blocks
      BY <1>8, <2>2, <3>1, <3>2 DEF ArenaInv, BlocksAreApart
    <3>3. CASE j \notin DOMAIN blocks
      <4>1. j = Len(blocks')
        BY <1>1, <1>8, <3>3
      <4>2. QED
        BY <1>6, <1>8, <2>1, <3>1, <4>1
    <3>4. QED
      BY <3>2, <3>3
  <2>3. QED
    BY <2>2 DEF BlocksAreApart
<1>12. RegionsAreInBlocks'
  <2>1. \A i \in DOMAIN blocks' : i \in DOMAIN blocks \/ i = Len(blocks')
    BY <1>1, <1>8
  <2>2. \A i \in DOMAIN blocks' : blocks'[i].used <= blocks'[i].size
    BY <1>6, <1>8, <2>1 DEF ArenaInv, RegionsAreInBlocks, Block
  <2>3. \A g \in given' : \E i \in DOMAIN blocks' : Inside(g, blocks'[i])
    BY <1>7, <1>8 DEF ArenaInv, RegionsAreInBlocks
  <2>4. QED
    BY <2>2, <2>3 DEF RegionsAreInBlocks
<1>13. RegionsAreDisjoint'
  BY <1>7 DEF ArenaInv, RegionsAreDisjoint
<1>14. OneBlockIsEnough'
  BY <1>6, <1>8, <1>9 DEF OneBlockIsEnough, Current, Fits, AlignedIn
<1>15. QED
  BY <1>10, <1>11, <1>12, <1>13, <1>14 DEF ArenaInv

-----------------------------------------------------------------------------
(* The inductive invariant holds of every sequence of allocations.         *)
THEOREM ArenaInvariance == ArenaSpec => []ArenaInv
<1>1. ArenaInv /\ UNCHANGED arenaVars => ArenaInv'
  BY DEF arenaVars, ArenaInv, ArenaTypeOK, BlocksAreApart, RegionsAreInBlocks,
         RegionsAreDisjoint, OneBlockIsEnough, Current
<1>2. ArenaInv /\ [ArenaNext]_arenaVars => ArenaInv'
  BY <1>1, AllocateKeeps, BumpKeeps, GrowKeeps DEF ArenaNext
<1>3. QED
  BY <1>2, InitEstablishes, PTL DEF ArenaSpec

(* The bump pointer never passes an end of its block, whatever the sizes.  *)
THEOREM ArenaTypeCorrectness == ArenaSpec => []ArenaTypeOK
<1>1. ArenaInv => ArenaTypeOK
  BY DEF ArenaInv
<1>2. QED
  BY <1>1, ArenaInvariance, PTL

(* No two nodes of the tree share a byte.                                  *)
THEOREM DisjointRegions == ArenaSpec => []RegionsAreDisjoint
<1>1. ArenaInv => RegionsAreDisjoint
  BY DEF ArenaInv
<1>2. QED
  BY <1>1, ArenaInvariance, PTL

(* No node lies outside the blocks the arena will release.                 *)
THEOREM RegionsInBlocks == ArenaSpec => []RegionsAreInBlocks
<1>1. ArenaInv => RegionsAreInBlocks
  BY DEF ArenaInv
<1>2. QED
  BY <1>1, ArenaInvariance, PTL

(* allocateRaw() calls itself at most once.                                *)
THEOREM RecursionIsShallow == ArenaSpec => []OneBlockIsEnough
<1>1. ArenaInv => OneBlockIsEnough
  BY DEF ArenaInv
<1>2. QED
  BY <1>1, ArenaInvariance, PTL

(* Every node is at its type's alignment.                                  *)
THEOREM AlignedRegions == ArenaSpec => []RegionsAreAligned
<1>1. ArenaInit => RegionsAreAligned
  BY DEF ArenaInit, RegionsAreAligned
<1>2. ASSUME ArenaInv, RegionsAreAligned, [ArenaNext]_arenaVars
      PROVE  RegionsAreAligned'
  <2>1. CASE Bump
    <3>1. request \in Request /\ request.alignment \in Nat \ {0}
      BY <1>2, <2>1, ArenaAssumption DEF ArenaInv, ArenaTypeOK, Bump, Request
    <3>2. Current.base + Current.used \in Nat
      BY <1>2, CurrentIsBlock DEF ArenaInv, Block
    <3>3. AlignedIn(Current, request) % request.alignment = 0
      BY <3>1, <3>2, RoundUpAligned DEF AlignedIn
    <3>4. QED
      BY <1>2, <2>1, <3>3 DEF Bump, RegionsAreAligned
  <2>2. CASE Allocate \/ Grow \/ UNCHANGED arenaVars
    BY <1>2, <2>2 DEF Allocate, Grow, arenaVars, RegionsAreAligned
  <2>3. QED
    BY <1>2, <2>1, <2>2 DEF ArenaNext
<1>3. QED
  BY <1>1, <1>2, ArenaInvariance, PTL DEF ArenaSpec
=============================================================================
