------------------------------ MODULE Compiler ------------------------------
(***************************************************************************)
(* The two walks in the order src/main.cpp makes them: the semantic        *)
(* analyser, and, when it reported nothing, the code generator on the same *)
(* tree.  The contract between them is nowhere in the code: the generator  *)
(* looks names up again in structures of its own and relies on sema having *)
(* rejected everything it cannot handle.                                   *)
(***************************************************************************)
EXTENDS LexicalScope, Integers, Sequences

CONSTANTS Programs, NumArgRegs

ASSUME ProgramsAssumption ==
  \A p \in Programs : p \in Program /\ IsTree(p)
ASSUME NumArgRegsAssumption == NumArgRegs \in Nat

VARIABLES
  stage,                                     \* "sema", "codegen", "rejected"
  prog,
  phase, semaItem, semaPc, scopes, functions, loopDepth, funcDepth,
  semaFrames, diags, semaBinds,              \* SemanticAnalyzer
  pass, item, pc, stackSize, vars, globals, inFunction, saved, frames,
  labelCount, depths, arrivals, placed, leaked, outcome, binds
                                             \* CodeGenerator

semaVars == <<phase, semaItem, semaPc, scopes, functions, loopDepth, funcDepth,
              semaFrames, diags, semaBinds>>
genVars == <<pass, item, pc, stackSize, vars, globals, inFunction, saved,
             frames, labelCount, depths, arrivals, placed, leaked, outcome,
             binds>>
everything == <<stage, prog, semaVars, genVars>>

Sema == INSTANCE SemanticAnalyzer
          WITH item <- semaItem, pc <- semaPc, frames <- semaFrames,
               binds <- semaBinds

Gen == INSTANCE CodeGenerator

Init ==
  /\ stage = "sema"
  /\ \E p \in Programs : Sema!InitOn(p) /\ Gen!InitOn(p)

Analyze ==
  /\ stage = "sema"
  /\ Sema!Next
  /\ UNCHANGED <<stage, genVars>>

(* main(): hasErrors() after analyze() ends the compilation.               *)
Gate ==
  /\ stage = "sema" /\ phase = "done"
  /\ stage' = IF diags = {} THEN "codegen" ELSE "rejected"
  /\ UNCHANGED <<prog, semaVars, genVars>>

Generate ==
  /\ stage = "codegen"
  /\ Gen!Next
  /\ UNCHANGED <<stage, semaVars>>

Next == Analyze \/ Gate \/ Generate

Spec == Init /\ [][Next]_everything /\ WF_everything(Next)

-----------------------------------------------------------------------------
(* The generator never throws on a program sema accepted: every name it    *)
(* looks up in its own tables is there.                                    *)
AcceptedNamesAreFound == outcome # "thrown"

(* Where the two lookups differ.  One: a name in its own initialiser, when *)
(* an outer variable of that name exists.  Two: in a function, a name that *)
(* a block of the top level also declared.                                 *)
InOwnInitialiser(b) == b[1] = b[3]

InFunction(at) == prog[at[1]][1].k = "karya"

OfNestedGlobal(b) ==
  /\ InFunction(b[1])
  /\ ~InFunction(b[3])
  /\ BlockOf(prog, <<b[3][1], b[3][2]>>) # TopLevel
       \/ At(prog, <<b[3][1], b[3][2]>>).k = "pratyek"

(* Otherwise each use in the emitted code is of the variable sema checked  *)
(* it against, and when all is generated no use has been forgotten.        *)
BindingsAgreeElsewhere ==
  stage = "codegen" =>
    /\ \A b \in binds :
         b \in semaBinds \/ InOwnInitialiser(b) \/ OfNestedGlobal(b)
    /\ pass = "done" =>
         {<<b[1], b[2]>> : b \in binds} = {<<b[1], b[2]>> : b \in semaBinds}

(* A compilation always ends: the generator has a step for every node of   *)
(* an accepted program, thamba and pudhe included.                         *)
CompilationEnds == <>(stage = "rejected" \/ Gen!Finished)

(* CodeGenerator.hpp: assembly for a semantically valid program.           *)
RegistersSuffice == outcome # "garbled" /\ outcome # "crashed"
=============================================================================
