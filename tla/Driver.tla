-------------------------------- MODULE Driver --------------------------------
(***************************************************************************)
(* src/main.cpp: one compilation is a process that runs the stages in      *)
(* order, stops at the first that reports an error, and then works on      *)
(* three files of fixed names in the current directory: out.asm, which it  *)
(* writes, out.o, which nasm makes of it, and out, which ld makes of that. *)
(*                                                                         *)
(* Several processes may run in one directory, one after another or at the *)
(* same time, each on a source of its own, and any of them may be killed,  *)
(* and so may the commands they wait for, and the shells between the two.  *)
(* A command outlives the process or the shell that is killed, and goes on *)
(* writing (orphan).                                                       *)
(*                                                                         *)
(* A file is [from, whole]: the processes whose text is in it, and whether *)
(* none of their text is missing or mixed up.  What nasm and ld do is the  *)
(* environment's: they fail or succeed, or a signal ends them, and what is *)
(* in their output then may be the old, nothing, a part of the new or all. *)
(***************************************************************************)
EXTENDS FiniteSets

CONSTANT Processes

VARIABLES
  stage,         \* where each process is in main(); "done" once it returned
  hasErrors,     \* diags.hasErrors() of each process
  exit,          \* the ExitCode of each process that returned
  asm, obj, bin, \* out.asm, out.o, out
  orphan,        \* the command each process that is gone left running
  met,           \* history: those that were active at the same time as it
  lost,          \* history: text was lost where nobody looks for errors
  binAtExit,     \* history: what out held when the process returned
  linker         \* history: the process whose ld wrote out, if any

files == <<asm, obj, bin, linker>>
driverVars == <<stage, hasErrors, exit, files, orphan, met, lost, binAtExit>>

Missing == [from |-> {}, whole |-> FALSE]
Empty == [from |-> {}, whole |-> TRUE]

Stages == {"idle", "args", "lexer", "parser", "sema", "codegen", "open",
           "write", "nasm", "ld", "done"}

Codes == {"Success", "UsageError", "FileError", "CompileError",
          "AssembleOrLinkError"}

Commands == {"nasm", "ld"}

(* The processes that run or have left a command that does.                *)
Active ==
  {p \in Processes : stage[p] \notin {"idle", "done"} \/ orphan[p] # "none"}

Go(p, next) == stage' = [stage EXCEPT ![p] = next]

Exit(p, code, out) ==
  /\ Go(p, "done")
  /\ exit' = [exit EXCEPT ![p] = code]
  /\ binAtExit' = [binAtExit EXCEPT ![p] = out]

Continue(p, next) == Go(p, next) /\ UNCHANGED <<exit, binAtExit>>

(* A shell starts a compilation.                                           *)
Start(p) ==
  /\ stage[p] = "idle"
  /\ Continue(p, "args")
  /\ met' = [q \in Processes |->
               IF q = p THEN Active
               ELSE IF q \in Active THEN met[q] \cup {p} ELSE met[q]]
  /\ UNCHANGED <<hasErrors, files, orphan, lost>>

(* The command line, and readFile(), which does not look at the stream     *)
(* after reading: a read that fails half way leaves a shorter source.      *)
ReadSource(p) ==
  /\ stage[p] = "args"
  /\ \/ Exit(p, "UsageError", bin) /\ lost' = lost
     \/ Exit(p, "FileError", bin) /\ lost' = lost
     \/ Continue(p, "lexer") /\ lost' \in {lost, lost \cup {p}}
  /\ UNCHANGED <<hasErrors, files, orphan, met>>

(* The three stages that report: what each reports is in the program's     *)
(* text; main() looks at hasErrors() after each.                           *)
After ==
  [s \in {"lexer", "parser", "sema"} |->
     CASE s = "lexer" -> "parser" [] s = "parser" -> "sema" [] s = "sema" -> "codegen"]

SemaIsNotGated(s, errors) == errors /\ s # "sema"      \* mutant

Stops(s, errors) == errors

Analyse(p) ==
  /\ stage[p] \in DOMAIN After
  /\ \E reports \in BOOLEAN :
       LET errors == hasErrors[p] \/ reports
       IN  /\ hasErrors' = [hasErrors EXCEPT ![p] = errors]
           /\ IF Stops(stage[p], errors) THEN Exit(p, "CompileError", bin)
                                         ELSE Continue(p, After[stage[p]])
  /\ UNCHANGED <<files, orphan, met, lost>>

Generate(p) ==
  /\ stage[p] = "codegen"
  /\ Continue(p, "open")
  /\ UNCHANGED <<hasErrors, files, orphan, met, lost>>

(* writeFile(): opening out.asm truncates it.                              *)
OpenAsm(p) ==
  /\ stage[p] = "open"
  /\ \/ Exit(p, "FileError", bin) /\ asm' = asm
     \/ Continue(p, "write") /\ asm' = Empty
  /\ UNCHANGED <<hasErrors, obj, bin, linker, orphan, met, lost>>

(* The text goes out; an error is seen unless it only happens when the     *)
(* destructor flushes, after the result was taken.                         *)
Text(p, all) == [from |-> asm.from \cup {p}, whole |-> all /\ asm = Empty]

WriteAsm(p) ==
  /\ stage[p] = "write"
  /\ \E all \in BOOLEAN :
       /\ asm' = Text(p, all)
       /\ \/ all /\ Continue(p, "nasm") /\ lost' = lost
          \/ ~all /\ Exit(p, "FileError", bin) /\ lost' = lost
          \/ ~all /\ Continue(p, "nasm") /\ lost' = lost \cup {p}
  /\ UNCHANGED <<hasErrors, obj, bin, linker, orphan, met>>

(* The commands.  One that fails or is ended by a signal may leave its     *)
(* output as it was, or removed, or with any part of what it was writing.  *)
Partly(f) == {[from |-> f.from, whole |-> w] : w \in {FALSE, f.whole}}

Output(ok, input) == IF ok THEN {input} ELSE {Missing} \cup Partly(input)

Assemble(ok) ==
  /\ ok => asm # Missing
  /\ obj' \in Output(ok, asm) \cup (IF ok THEN {} ELSE {obj})
  /\ UNCHANGED <<asm, bin, linker>>

Link(p, ok) ==
  /\ ok => obj # Missing
  /\ \/ bin' \in Output(ok, obj) /\ linker' = {p}
     \/ ~ok /\ UNCHANGED <<bin, linker>>
  /\ UNCHANGED <<asm, obj>>

(* run(): whether the command exited with status 0, and what main() does   *)
(* then.                                                                   *)
Inverted(ok) == ~ok      \* mutant
Ignored(ok) == TRUE      \* mutant

Checked(ok) == ok

AfterCommand(p, ok, out) ==
  IF ~Checked(ok) THEN Exit(p, "AssembleOrLinkError", out)
  ELSE IF stage[p] = "nasm" THEN Continue(p, "ld")
  ELSE Exit(p, "Success", out)

Nasm(p) ==
  /\ stage[p] = "nasm"
  /\ \E ok \in BOOLEAN : Assemble(ok) /\ AfterCommand(p, ok, bin)
  /\ UNCHANGED <<hasErrors, orphan, met, lost>>

Ld(p) ==
  /\ stage[p] = "ld"
  /\ \E ok \in BOOLEAN : Link(p, ok) /\ AfterCommand(p, ok, bin')
  /\ UNCHANGED <<hasErrors, orphan, met, lost>>

(* The shell std::system() waits for is killed: run() returns false while  *)
(* the command goes on.                                                    *)
LoseShell(p) ==
  /\ stage[p] \in Commands
  /\ AfterCommand(p, FALSE, bin)
  /\ orphan' = [orphan EXCEPT ![p] = stage[p]]
  /\ UNCHANGED <<hasErrors, files, met, lost>>

(* A signal, or an exception out of generate(), ends the process where it  *)
(* is, perhaps after some of its text went out; nothing ends the command   *)
(* it waits for.                                                           *)
Kill(p) ==
  /\ stage[p] \notin {"idle", "done"}
  /\ Go(p, "done")
  /\ asm' \in {asm} \cup {Text(p, all) : all \in {b \in BOOLEAN : stage[p] = "write"}}
  /\ orphan' = [orphan EXCEPT ![p] = IF stage[p] \in Commands THEN stage[p] ELSE @]
  /\ UNCHANGED <<hasErrors, exit, obj, bin, linker, met, lost, binAtExit>>

(* A command nobody waits for comes to its end.                            *)
OrphanEnds(p) ==
  /\ \E ok \in BOOLEAN : \/ orphan[p] = "nasm" /\ Assemble(ok)
                         \/ orphan[p] = "ld" /\ Link(p, ok)
  /\ orphan' = [orphan EXCEPT ![p] = "none"]
  /\ UNCHANGED <<stage, hasErrors, exit, met, lost, binAtExit>>

DriverInit ==
  /\ stage = [p \in Processes |-> "idle"]
  /\ hasErrors = [p \in Processes |-> FALSE]
  /\ exit = [p \in Processes |-> "none"]
  /\ asm = Missing /\ obj = Missing /\ bin = Missing /\ linker = {}
  /\ orphan = [p \in Processes |-> "none"]
  /\ met = [p \in Processes |-> {}]
  /\ lost = {}
  /\ binAtExit = [p \in Processes |-> Missing]

Step(p) ==
  ReadSource(p) \/ Analyse(p) \/ Generate(p) \/ OpenAsm(p) \/ WriteAsm(p)
  \/ Nasm(p) \/ Ld(p)

DriverNext ==
  \E p \in Processes :
    Start(p) \/ Step(p) \/ LoseShell(p) \/ Kill(p) \/ OrphanEnds(p)

DriverSpec == DriverInit /\ [][DriverNext]_driverVars

-----------------------------------------------------------------------------
File == [from: SUBSET Processes, whole: BOOLEAN]

(* What main() returns is one of ExitCode, and files hold what nasm and ld *)
(* were given.                                                             *)
DriverTypeOK ==
  /\ stage \in [Processes -> Stages]
  /\ hasErrors \in [Processes -> BOOLEAN]
  /\ exit \in [Processes -> Codes \cup {"none"}]
  /\ asm \in File /\ obj \in File /\ bin \in File
  /\ linker \subseteq Processes
  /\ orphan \in [Processes -> Commands \cup {"none"}]
  /\ met \in [Processes -> SUBSET Processes]
  /\ lost \subseteq Processes
  /\ binAtExit \in [Processes -> File]

(* Exit code 0 means that ./out is the program just compiled, all of it    *)
(* and nothing of an earlier one, whatever earlier compilations, failed or *)
(* killed at any point, left in the three files; unless another one, or a  *)
(* nasm or ld that one left behind, was active at the same time, or an i/o *)
(* error went unseen.                                                      *)
SuccessIsFresh ==
  \A p \in Processes :
    exit[p] = "Success" /\ met[p] = {} /\ p \notin lost
      => binAtExit[p] = [from |-> {p}, whole |-> TRUE]

(* Nothing of a source with an error is ever in any of the three files.    *)
OnlyAcceptedReachDisk ==
  \A p \in asm.from \cup obj.from \cup bin.from : ~hasErrors[p]

(* What a compilation leaves in out.asm or out.o, however it ended, is     *)
(* never linked by another: as long as no other was active beside it, any  *)
(* of its text in ./out is the work of its own ld, and so it is not one    *)
(* that returned an error before it came to link.                          *)
LeftoversAreNeverLinked ==
  \A p \in Processes :
    p \in bin.from /\ met[p] = {} =>
      /\ linker = {p}
      /\ exit[p] \notin {"UsageError", "FileError", "CompileError"}
=============================================================================
