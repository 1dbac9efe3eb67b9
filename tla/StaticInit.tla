----------------------------- MODULE StaticInit -----------------------------
(***************************************************************************)
(* What the code emitted for a sthir local does at run time                *)
(* (src/codegen/CodeGeneratorStmt.cpp, the storeAsStatic branch): the      *)
(* initialiser runs behind the "_init" byte declareVar() put next to the   *)
(* variable, and the byte is set after the value is stored.                *)
(*                                                                         *)
(* The function that holds the sthir local may call itself from the        *)
(* initialiser as well as from the statements before and after it.  One    *)
(* process runs; "calls" is its stack of activations of the function, each *)
(* the point it has reached: "before" the declaration, at its "guard",     *)
(* "init" or "store", or "after" it.  Values are the numbers of the        *)
(* initialiser's evaluations, and of the assignments that follow.          *)
(***************************************************************************)
EXTENDS Naturals, Sequences, SequencesExt

CONSTANTS
  MaxCalls,      \* bound: how many calls a behaviour makes
  MaxDepth       \* bound: how deep they nest

ASSUME StaticInitAssumption ==
  MaxCalls \in Nat /\ MaxDepth \in Nat

VARIABLES
  calls,         \* the activations of the function, innermost last
  initByte,      \* [label_init]
  value,         \* [label], 0 as .bss starts
  made,          \* history: how many calls were made
  started,       \* history: how many evaluations of the initialiser began
  assigned,      \* history: an assignment to the variable was made
  reentered      \* history: the initialiser called the function

statics == <<calls, initByte, value, made, started, assigned, reentered>>

At(point) == calls # <<>> /\ Last(calls) = point

Goto(point) == calls' = [calls EXCEPT ![Len(calls)] = point]

StaticsInit ==
  /\ calls = <<>>
  /\ initByte = 0 /\ value = 0
  /\ made = 0 /\ started = 0
  /\ assigned = FALSE /\ reentered = FALSE

(* A call: from the entry point, from the statements around the            *)
(* declaration, or from within the initialiser.                            *)
Call ==
  /\ calls # <<>> => Last(calls) \in {"before", "init", "after"}
  /\ made < MaxCalls /\ Len(calls) < MaxDepth
  /\ calls' = Append(calls, "before")
  /\ made' = made + 1
  /\ reentered' = (reentered \/ At("init"))
  /\ UNCHANGED <<initByte, value, started, assigned>>

(* The statements before the declaration may return.                       *)
ReturnEarly ==
  /\ At("before")
  /\ calls' = Front(calls)
  /\ UNCHANGED <<initByte, value, made, started, assigned, reentered>>

Reach ==
  /\ At("before")
  /\ Goto("guard")
  /\ UNCHANGED <<initByte, value, made, started, assigned, reentered>>

(* cmp byte [label_init], 0 / jne                                          *)
Unguarded == TRUE          \* mutant

MustInitialise == initByte = 0

Guard ==
  /\ At("guard")
  /\ Goto(IF MustInitialise THEN "init" ELSE "after")
  /\ started' = IF MustInitialise THEN started + 1 ELSE started
  /\ UNCHANGED <<initByte, value, made, assigned, reentered>>

(* The initialiser's value has been computed, pushed and popped into rax.  *)
Evaluate ==
  /\ At("init")
  /\ Goto("store")
  /\ UNCHANGED <<initByte, value, made, started, assigned, reentered>>

(* mov QWORD [label], rax / mov byte [label_init], 1                       *)
ForgottenByte == 0      \* mutant

StoredByte == 1

Store ==
  /\ At("store")
  /\ value' = started
  /\ initByte' = StoredByte
  /\ Goto("after")
  /\ UNCHANGED <<made, started, assigned, reentered>>

(* A statement after the declaration that assigns the variable.            *)
Assign ==
  /\ At("after")
  /\ ~assigned
  /\ value' = MaxCalls + 1
  /\ assigned' = TRUE
  /\ UNCHANGED <<calls, initByte, made, started, reentered>>

Return ==
  /\ At("after")
  /\ calls' = Front(calls)
  /\ UNCHANGED <<initByte, value, made, started, assigned, reentered>>

StaticsNext == Call \/ ReturnEarly \/ Reach \/ Guard \/ Evaluate \/ Store \/ Assign
               \/ Return

StaticsSpec == StaticsInit /\ [][StaticsNext]_statics

-----------------------------------------------------------------------------
(* No activation gets past the declaration, however the calls nest, before *)
(* an initialiser's value is in the variable.                              *)
InitialisedBeforeUse ==
  \A i \in DOMAIN calls : calls[i] = "after" => initByte = 1 /\ value # 0

(* Unless the initialiser calls the function, the variable keeps its value *)
(* from call to call: once initialised only an assignment changes it.      *)
KeptUnlessReentered ==
  [][initByte = 1 /\ ~reentered /\ value' # value => assigned' # assigned]_statics
=============================================================================
