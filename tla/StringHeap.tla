----------------------------- MODULE StringHeap -----------------------------
(***************************************************************************)
(* The runtime string arena of a compiled program: the routines str_concat,*)
(* char_to_str and int_to_str (src/codegen/CodeGeneratorRuntime.cpp) and   *)
(* the .bss they share, laid out by generate(): str_heap, then the word    *)
(* str_heap_offset, then the variables of the program.                     *)
(*                                                                         *)
(* Addresses are byte offsets from str_heap.  A string is an 8-byte length *)
(* and its text.  The bytes themselves are not modelled, only whether a    *)
(* text, its length and str_heap_offset still hold what was last meant to  *)
(* be there.                                                               *)
(***************************************************************************)
EXTENDS Integers, Sequences, FiniteSets

CONSTANTS
  HeapBytes,     \* the size of str_heap: 65536 in the code
  Chars,         \* the characters converted to strings
  Literals,      \* the texts of the literals in .rodata
  Decimals,      \* the texts of the numbers converted
  MaxStrings,    \* bound: how many strings a behaviour makes
  MaxLen         \* bound: the longest text a behaviour makes

Byte == 0..255

ASSUME StringHeapAssumption ==
  /\ HeapBytes \in Nat /\ HeapBytes % 8 = 0
  /\ Chars \subseteq Byte
  /\ Literals \subseteq Seq(Byte) /\ Decimals \subseteq Seq(Byte)
  /\ MaxStrings \in Nat /\ MaxLen \in Nat

VARIABLES
  offset,        \* str_heap_offset; Lost once text was written over it
  strings,       \* history: the strings made, each [at, text]
  intact,        \* history: the numbers of those that still read as written
  varsIntact     \* history: no string was written over a program variable

heapVars == <<offset, strings, intact, varsIntact>>

Lost == -1

(* lea rbx, [len + 8 + 7] / and rbx, -8: the bytes a string takes.         *)
TakenRoundedDown(len) == ((len + 8) \div 8) * 8      \* mutant

Taken(len) == ((len + 15) \div 8) * 8

Overlap(a, m, b, n) == a < b + n /\ b < a + m

(* The bytes of a string, and what a new one is written over: the word     *)
(* str_heap_offset by its length or by its text, variables, strings.       *)
Size(s) == 8 + Len(s.text)

LengthHitsOffset(s) == Overlap(s.at, 8, HeapBytes, 8)
TextHitsOffset(s) == Overlap(s.at + 8, Len(s.text), HeapBytes, 8)
HitsVars(s) == s.at + Size(s) > HeapBytes + 8

Overwritten(s) ==
  {i \in DOMAIN strings : Overlap(strings[i].at, Size(strings[i]), s.at, Size(s))}

Write(s, reads) ==
  /\ strings' = Append(strings, s)
  /\ intact' = (intact \ Overwritten(s))
               \cup (IF reads THEN {Len(strings) + 1} ELSE {})
  /\ varsIntact' = (varsIntact /\ ~HitsVars(s))

CanMake(text) ==
  /\ offset # Lost
  /\ Len(strings) < MaxStrings
  /\ Len(text) <= MaxLen

(* str_concat: the length, then the new offset, then the text.  A length   *)
(* stored in str_heap_offset is lost to the offset; text stored there      *)
(* replaces the offset.                                                    *)
Operands == Literals \cup {strings[i].text : i \in intact}

StrConcat ==
  \E a, b \in Operands :
    LET s == [at |-> offset, text |-> a \o b]
    IN  /\ CanMake(s.text)
        /\ Write(s, ~LengthHitsOffset(s))
        /\ offset' = IF TextHitsOffset(s) THEN Lost ELSE offset + Taken(Len(s.text))

(* char_to_str: the length, the byte, then the new offset.                 *)
CharToStr ==
  \E c \in Chars :
    LET s == [at |-> offset, text |-> <<c>>]
    IN  /\ CanMake(s.text)
        /\ Write(s, ~LengthHitsOffset(s) /\ ~TextHitsOffset(s))
        /\ offset' = offset + 16

(* int_to_str: the length, the text, then the size taken added to whatever *)
(* str_heap_offset holds by now: the length just stored there, if the heap *)
(* was exactly full.                                                       *)
IntToStr ==
  \E text \in Decimals :
    LET s == [at |-> offset, text |-> text]
    IN  /\ CanMake(text)
        /\ Write(s, ~LengthHitsOffset(s))
        /\ offset' = IF TextHitsOffset(s) THEN Lost
                     ELSE Taken(Len(text))
                          + (IF LengthHitsOffset(s) THEN Len(text) ELSE offset)

HeapInit ==
  /\ offset = 0
  /\ strings = <<>>
  /\ intact = {}
  /\ varsIntact = TRUE

HeapNext == StrConcat \/ CharToStr \/ IntToStr

HeapSpec == HeapInit /\ [][HeapNext]_heapVars

-----------------------------------------------------------------------------
String == [at: Nat, text: Seq(Byte)]

(* Every variable has its type; the offset never goes negative.            *)
HeapTypeOK ==
  /\ offset \in Nat \cup {Lost}
  /\ strings \in Seq(String)
  /\ intact \subseteq DOMAIN strings
  /\ varsIntact \in BOOLEAN

(* Everything made so far ended inside str_heap.                           *)
WithinHeap == \A i \in DOMAIN strings : strings[i].at + Size(strings[i]) <= HeapBytes

(* A string keeps its length and text for as long as the strings made fit  *)
(* str_heap: none shares a byte with another, with the offset word or with *)
(* a variable, and the next starts on a word boundary past all of them.    *)
StringsLastWithinHeap ==
  WithinHeap =>
    /\ intact = DOMAIN strings
    /\ varsIntact
    /\ offset % 8 = 0
    /\ \A i \in DOMAIN strings : strings[i].at + Size(strings[i]) <= offset
    /\ \A i, j \in DOMAIN strings :
         i = j \/ ~Overlap(strings[i].at, Size(strings[i]),
                           strings[j].at, Size(strings[j]))
=============================================================================
