# A verification project for the mr compiler

This directory holds TLA+ models of the `mr` compiler (C++20, `src/`,
`include/`), the TLC configurations that check them on small instances, and
TLAPS proofs of the properties that matter most. `PROJECT.json` lists every
run, every theorem and, for each definition, the source lines it models.

```
tlc -workers 2 -config Sema.cfg MCSemanticAnalyzer      # one run
tlapm SemanticAnalyzerProofs.tla                        # one module's proofs
```

## 1. The system

`compiler file.mr` turns a source file into an executable in one process and
one thread. `main()` runs the stages in order, each on the output of the one
before it, and stops at the first that reported an error:

```
source --Lexer--> tokens --Parser--> AST --SemanticAnalyzer--> (verdict)
                              |                                    |
                            Arena                             CodeGenerator
                                                                   |
                        out.asm --nasm--> out.o --ld--> out  <-----+
```

| Part | State it keeps | Operations | How it interacts |
|---|---|---|---|
| Lexer (`lexer/`) | cursor, line and column | `tokenize` and its scanners | reports to diagnostics; hands a token vector to the parser |
| Parser (`parser/`) | index into the tokens | one function per construct, `synchronize` | allocates nodes in the arena; reports; hands over `NodeProgram` |
| Arena (`support/Arena.hpp`) | blocks, bump pointer | `allocate`, `emplace` | owns every node until the process ends |
| AST (`ast/Ast.hpp`) | – | – | the structure both walkers read |
| Semantic analyser (`sema/`) | stack of scopes, function table, `_loopDepth`, `_funcDepth` | `collectFunctionSignatures`, `visitStmt`, `visitExpr`, `declare`, `find`, … | reports; changes nothing in the tree and hands nothing over but the verdict |
| Code generator (`codegen/`) | `_vars`, `_globals`, `_scopeMarks`, `_loopLabels`, `_stackSize`, label counter, output | `genStmt`, `genScope`, `genFuncDecl`, `declareVar`, … | resolves every name again, in tables of its own; relies on sema having rejected what it cannot handle |
| Run-time routines (text in `CodeGeneratorRuntime.cpp`) | `str_heap`, `str_heap_offset`, the `_init` bytes of `sthir` locals | `str_concat`, `char_to_str`, `int_to_str`, `print_*` | called by the emitted code (the two conversions only for a `+` that sema rejects) |
| Diagnostics (`diagnostics/`) | the list, `_hadError` | `report`, `hasErrors`, `printAll` | the only channel from the stages to `main` |
| Driver (`main.cpp`) | `out.asm`, `out.o`, `out` in the current directory | `main` | runs nasm and ld |

What is hard here is not concurrency: it is a long sequence of legal calls.
Both walkers keep counters and stacks that every construct must restore on
every path; the code generator predicts, while emitting, where `rsp` will be
when the code runs, along jumps it only emits; the two walkers look names up
separately and nothing in the code says that they agree; the emitted code
uses a bump heap and one-time initialisers whose promises depend on the
order of calls; and the driver works on files of fixed names that earlier,
failed or killed compilations left behind. The two stages before them have to
cope with any text at all: they must end, say what is wrong where it is wrong,
and go on. What makes each part correct:

* **Lexer**: it splits the source into the longest lexemes, without a gap or an
  overlap, places each right, never reads past the end and reports exactly what
  is no lexeme.
* **Parser**: what it accepts without a report is the text of the tree it hands
  over; every sentence of the grammar is accepted; nothing is dropped without a
  report; recovery from an error always moves forward.
* **Semantic analyser**: every counter and scope is restored; no step alters
  an enclosing scope; nothing is reported exactly for the programs that obey
  the language's rules; each name is resolved lexically.
* **Code generator**: `_stackSize` is the depth of `rsp` on every path that
  reaches an instruction; a block leaves the stack as it found it; variables
  in scope never share a slot; every jump has its label; each use is of the
  variable sema checked it against; no accepted program makes it throw.
* **Expressions**: the stack is as deep as predicted at every instruction; the
  kinds inferred while emitting are those of the words at run time; a statement
  computes what it means.
* **Arena**: regions are disjoint, aligned and inside blocks; a call recurses at
  most once.
* **String heap**: a string lasts as long as the program.
* **Printing**: what is shown denotes the number, or is the text, that was given.
* **`sthir` locals**: initialised before use, once, kept from call to call.
* **Driver**: exit code 0 means that `./out` is the program just compiled.

## 2. The modules

| Module | What it is |
|---|---|
| `Tokens` | the token vocabulary, the operators' levels |
| `Lexer` | `LexerCore.cpp` and `LexerScanners.cpp`, one action per round of each loop |
| `LexicalGrammar` | reference specification: which whole texts are lexemes, comments, values of literals |
| `Parser` | `parser/`: a table of steps for each C++ function, and the machine that runs them |
| `Grammar` | reference specification: the text of each construct and how operators nest, stated on trees |
| `Ast` | the programs the parser hands over, as the sequence of nodes a walk meets |
| `LexicalScope` | reference specification: the language's rules and lexical scoping stated on the text of the program, without a walk, scopes or counters |
| `SemanticAnalyzer` | `SemanticAnalyzer.cpp`, one action per kind of node |
| `BlockStack` | abstract specification: a stack of blocks that each give back what they took |
| `CodeGenerator` | statements, variables and functions of `codegen/`, one action per kind of node and one per kind of block end; refines `BlockStack` |
| `Kinds` | storage kinds: the two `inferKind`s, `resolveStorageKind` and sema's rule on `+` |
| `Processor` | what an emitted instruction does to a word, which knows its representation (external) |
| `Expressions` | the instructions emitted for the expressions of a simple statement, executed, beside what the statement means |
| `Compiler` | instances of both walkers on the same tree, with `main`'s gate between them |
| `Arena` | `Arena.hpp` on numeric addresses |
| `StringHeap` | the run-time string routines on the emitted `.bss` layout |
| `Decimal` | numbers as text: the digit loops of `print_int`, `int_to_str`, `print_float` |
| `Printing` | the `print_*` routines beside the string routines |
| `StaticInit` | the emitted code of a guarded `sthir` initialiser, under nested calls |
| `Driver` | `main.cpp`, several processes in one directory, and the nasm and ld that a process which is gone left running |
| `MCPrograms` | generators of program sets from kits of statements (recursive; used by TLC only) |
| `MC…` | the instances TLC checks |
| `…Proofs` | the proofs about the module of that name, `SupportProofs` about `StringHeap`, `Printing`, `StaticInit`, `Driver` and `Arena` (section 5) |
| `Induction` | induction and recursion on data, for the proofs |

### How the lexer and the parser correspond to the code

`Lexer` keeps the code's `_idx`, `_line` and `_col`, from 1. `mode` says which
loop of which scanner the lexer is in, `text` and `start` are that scanner's
locals; an action is one round of the loop or what comes after it, with every
`advance()` it makes. Past the end `peek()` gives a NUL, which no source holds
here. Letters, digits, spaces and keywords are sets, so a run needs few
characters; operators are the real ones, as what `lexPunctuationOrOperator()`
does depends on which of them begin with which.

In `Parser` each C++ function is a table of named blocks, and a block a sequence
of steps: `match()`, `expect()`, a call, each with what the function does when it
fails (give up, report and give up, go on, synchronize). The tables read like the
C++ downwards; the actions execute the step of the innermost activation on
`stack`. An activation collects the words and subtrees of the node it builds. A
report is the position of `peek()` when it was made. One statement of the code
is several steps, and nothing happens between steps that the code does not do.

### How the walkers correspond to the code

A program is a sequence of top-level statements, a statement the sequence of
the nodes a walk of it enters. A construct that owns a block ends in a
`close` node, so the recursion of `visitStmt` and `genStmt` becomes a loop
over nodes with an explicit stack, `frames`, of the activations in progress
and their locals. Each action is the code from one node to the next. Where
the code pushes and pops a vector in the same activation (`_scopeMarks`,
`_loopLabels`), the entry is a field of the frame.

In the walkers an expression is reduced to what both do with it: the names it
reads, those it increments, its calls and whether it is a negation. In the code
generator it pushes one value and leaves the stack otherwise as it was;
`DepthIsPredicted` of `Expressions` is what justifies this.

`Expressions` looks inside. `Gen` and the operators before it are `genExpr()`
and its helpers: they return the sequence of emitted instructions, each with the
`_stackSize` at which it is emitted. The actions execute them: pushes and pops
on `stack`, loads and stores at the offsets computed while emitting, jumps,
calls, conversions. A word is an integer, a double, a string or junk, so an
instruction on the wrong representation shows, while the code only goes by
`inferKind()`. Beside it, `Value` and `Meaning` evaluate the tree on words
alone, with no stack, no registers and no inferred kinds. They give no meaning
where no document does (the comment at `Means` lists these). They share with
`Processor` what one addition or comparison of two words gives.

Of a type the programs keep only whether it is `purnank`, on which sema has a rule:
of a variable, and of each parameter of a `karya` (`purnanks`).

`SemanticAnalyzer` keeps the code's variables (`scopes`, `functions`,
`loopDepth`, `funcDepth`); `diags` is the set of reports, and the history
variable `binds` records which declaration each use was resolved to, so that
it can be compared with `LexicalBindings` and with the code generator's.

`CodeGenerator` keeps `stackSize`, `vars`, `globals`, `inFunction`,
`labelCount`. What the emitted code will do is followed by history variables:
`depths`, the depths `rsp` can have where control reaches the next emitted
instruction, and `arrivals`, the depth each emitted jump carries to its label;
at a label the two are joined. A call with more arguments than `kArgRegs` has
entries reads past the array, which is undefined: the outcome is "garbled" or
"crashed". Labels are numbers; those expressions make are not counted.

### Not modelled, and why

* `Ast` allows the trees `Grammar` describes, without the nodes only the parser
  sees; a `karya` in the header of a `pratyek`, which the parser accepts and sema
  always rejects, is left out. What `SemanticAnalyzer`, `CodeGenerator` and
  `Compiler` assume of a program (`IsTree`) is a part of that: every block is
  closed in its statement, a sequence of nodes is one statement (beside its first
  node it has only the further arms of an `if` chain), a `paryay` holds arms and
  nothing between them, and the step of a `pratyek` declares nothing. The proofs
  need no more of the shape, so they say it of more trees than the parser makes.
* In the lexer: `tokenTypeName()`, the wording of messages. Which text is which
  keyword is a parameter. A literal stays text until the code generator, where
  `Expressions` takes its value as given (nasm and `strtod` read it).
* In the parser: the wording of messages, the source locations of nodes, its
  reaction to an empty token vector (the lexer always ends in an end-of-file
  token, `TokensInOrder`), and the depth of the C++ stack: nesting is bounded
  only by memory there.
* In expressions: rounding, infinities, NaN and the sign of zero (a double is a
  fixed-point number), so also that `!` and conditions test the bits of a
  double; `prakar(...)`, for which the parser has no rule; initialisers of
  statics, which are converted and stored like an assignment.
* In printing: magnitudes beyond 64 bits, NaN and infinities, which the comment
  on `print_float` excludes, and the rounding of its multiplication by 10^6. A
  tie is rounded away from zero, where the `printf` the comment compares it with
  takes the even digit; `LinesAreRight` only asks for a nearest numeral.
* Rendering of diagnostics (`lineAt`, `printOne`, `printAll`): formatting.
* `+=` on a string adds two pointers (CodeGeneratorStmt.cpp:101), and a function
  called before a global's declaration reads it before it is initialised
  (CodeGeneratorStmt.cpp:182): no document says what these do, so there is
  nothing to hold them against. They stay in the list of hazards.
* Editor support, the installer, examples and tests are not the compiler.

## 3. The runs

All sets are exhaustive within their bounds: TLC takes *every* program, in
which a kit's statements are nested and sequenced in every way.

| Run | What it explores | Why the bounds are enough |
|---|---|---|
| `lexer` (`Lexer.cfg`) | every text of up to 4 to 7 characters over seven small alphabets: string and character literals with escapes, comments, numbers, words, operators, and a mixture | each alphabet holds what one scanner can confuse; an escape, a comment end or an operator of three characters at the very end of the text all happen |
| `parser` (`Parser.cfg`) | the texts of trees with every construct, operators nested two deep from every level; every short sequence of tokens in the place of an expression, argument list, `pratyek` header, arm, declaration and statement; programs with one token dropped, doubled or replaced | an error is met by one function and passed up through callers that all treat it alike; two operators show how levels nest |
| `sema` (`Sema.cfg`) | ill- and well-formed programs: scoping kits up to 6 nodes around one name (after a global, in a function with a parameter of that name); rule kits with every jump, `partav`, nested `karya`, assignment, `ahe`/`purnank` combination and call; functions with `purnank` parameters, assigned to in the body and where a block or a `pratyek` hides them | every rule involves at most two declarations and one use, or a jump and the constructs around it; three levels of nesting tell innermost, middle and outermost apart |
| `codegen` (`CodeGenerator.cfg`) | accepted programs: all bodies of up to 5 nodes of locals, `thamba`, `pudhe`, `jar`/`anyatha`, `jovar`, `paryay` in a loop in a function; `pratyek`, longer chains and switches, `sthir`, returns and exits; global programs around a function | an offset goes wrong when one block in a path leaves the wrong height: a loop with a block or a switch inside and a statement after it already shows it |
| `compiler` (`Compiler.cfg`) | the same kits without the filter: rejected programs too, with global, shadowing and block-level declarations around a function | the two lookups differ by which of two declarations they prefer; the kits have up to four of one name |
| `expressions` (`Expressions.cfg`) | every binary operator on every pair of 14 operands (literals of each kind, variables of each kind on the stack and in `.bss`, `++`/`--`), six operators nested both ways around 165 inner expressions, every kind of statement, each compound assignment to each kind of variable, and sequences after a declaration | a wrong offset, kind or jump shows with one operator below another: what lies around it only adds words to the stack |
| `arena` (`Arena.cfg`) | blocks of 6 bytes, requests of 1, 3 and 8 bytes at alignments 1, 2, 4, three regions, block addresses of every residue | a request larger than a block, one that does not fit what is left and one that fits only without padding all happen |
| `printing` (`Printing.cfg`) | a heap of 40 bytes with up to four strings of lengths around a multiple of 8, every word of 8 bits, doubles of two digits in steps of 1/256 around powers of ten | the heap fills up, is exactly full and overflows; the smallest word, and doubles whose rounding carries into one more digit, are among them |
| `static_init` (`StaticInit.cfg`) | five calls, three deep, from before, inside and after the declaration | re-entrance needs depth two; three adds a call inside the inner one |
| `driver` (`Driver.cfg`) | three processes, each failing or killed anywhere, alone or with the shell it waits for, sequentially and overlapping; a nasm or ld left behind ends at any later time | what one left, or its orphan writes, another compiled over, and a third runs beside |

The properties, by run:

* `lexer`: `ReadsStayInside`, `LocationIsRight` and `TokensInOrder` are about the
  cursor; `SplitsTheSource` and `ReportsAreDeserved` compare the tokens and the
  reports with `LexicalGrammar`: between them, each piece of the source is a
  longest lexeme, a gap or reported, and what is reported is none.
* `parser`: `AcceptedTextIsTheTree` prints the tree again, so a token skipped,
  dropped or attached to another node in silence shows; `SentencesAreAccepted`
  is the other direction. Both name their exceptions (section 4).
  `FailureIsReportedWhereItIs` is what lets callers throw away text without a
  word; `LoopsAdvance` is what the comment at ParserStmt.cpp:365 promises, and
  `Terminates` follows only with it.
* `sema`: `CountersMatchFrames` and `ScopesMatchFrames` say
  that hand-written increments and decrements balance on every path;
  `OuterScopesUntouched` that no step reaches an enclosing scope;
  `AcceptsExactlyTheWellFormed` that the verdict is that of `LexicalScope`,
  and `ResolvesLexically` that each use gets the declaration `LexicalScope`
  gives it.
* `codegen`: `StackAccounting` and `BlocksRestoreTheStack` are about
  `_stackSize`; `DepthExactUnlessLeaked` and `DepthNeverBelow` compare it with
  the depths `rsp` can really have; `SlotsAreDistinct` and `JumpsLand` complete
  them.
* `compiler`: `AcceptedNamesAreFound` (no `logic_error` on an accepted
  program), `BindingsAgreeElsewhere` (each use is of the variable sema
  checked, apart from two situations named in the module),
  `CompilationEnds`.
* `expressions`: `DepthIsPredicted` compares `_stackSize` with the stack at
  every instruction and along both ways through `&&` and `||`;
  `ComputesTheMeaning` compares words, variables and traps with the reference
  evaluation, `KindsAreRight` what each consumer and variable gets with what its
  code was emitted for, and `NoMixedConcat` says that the conversions inside a
  string `+` stay unreachable: they would lose the left operand, and only the
  agreement of two separate inferences prevents them.
* `printing`: `LinesAreRight` reads each line back with a reference of its own;
  `StringsLastWithinHeap` is about what `print_str` will find in memory.
* `arena`, `static_init`: see the comments at the properties.
* `driver`: `SuccessIsFresh` says what exit code 0 is worth,
  `OnlyAcceptedReachDisk` that nothing of a source with an error gets into a file,
  and `LeftoversAreNeverLinked` that what a compilation left in `out.asm` or `out.o`
  is not linked by a later one: its text is in `./out` only by the work of its own
  ld. That may be so although it did not return 0, when the signal that ended it,
  or its shell, came during the link, or when ld wrote a part of its output and failed.
  `std::system()` (main.cpp:46) does not tie the command to the process: one that is
  killed leaves its nasm or ld running, which writes `out.o` or `out` whenever it
  likes. `SuccessIsFresh` and `LeftoversAreNeverLinked` therefore except a
  compilation that was active at the same time as another one in the same
  directory, and count as active also one whose command still runs; `SuccessIsFresh`
  excepts as well one with an i/o error that `main` cannot see. Nothing in the
  code protects against these.

Type invariants are proved (section 5) rather than run, where a module has one
and proofs; `NeverBack` too is only proved.

`CHECK_DEADLOCK FALSE` is in every configuration because every one of these
systems stops: a walk ends with its program, a process returns, and the
bounded histories run out of calls or allocations.

**Fairness.** `Lexer`, `Parser`, `SemanticAnalyzer`, `CodeGenerator` and `Compiler`
assume weak fairness of the next step: they are loops of one thread that nothing else
blocks. The other modules claim no liveness and assume none: that
`allocateRaw()` returns follows from the safety property `OneBlockIsEnough`,
and nasm, ld and the emitted program may never return.

## 4. Where the code and what is said of it disagree

Each is a run that TLC must find violated.

| Run | Said | Done |
|---|---|---|
| `leaving_loops` | docs/README.md:158: variables live at a fixed offset from the stack pointer | `thamba`/`pudhe` (CodeGeneratorStmt.cpp:294-299) jump without popping the locals of the blocks they leave |
| `many_parameters` | README.md:558: up to 6 parameters; CodeGenerator.hpp:14 | sema accepts any number and `kArgRegs` is read past its end |

What does hold beside the first is `DepthExactUnlessLeaked`; beside the second
there is nothing to hold, as what the compiler does then is undefined. More
disagreements and limits have no run of their own, but a passing property that
says exactly how far the code goes:

* CodeGeneratorUtils.cpp:50-53 says the lookup matches sema's. But `declareVar()`
  (CodeGeneratorStmt.cpp:177) comes before the initialiser, so `ank x = x;` reads
  itself, and in `te akshar i = i + 2`, where an `ank i` is hidden, the generator
  takes `i` for a string in the initialiser and emits a conversion `NoMixedConcat`
  otherwise excludes; and `_globals` (line 188) keeps block variables, which functions then
  see, against docs/README.md:121. `BindingsAgreeElsewhere` is about all the rest.
* README.md:52-54 says that floating-point values are not treated as integer bit
  patterns. But `++` on a `bhagank` is an integer `add` (CodeGeneratorExpr.cpp:159)
  and `%` an `idiv`; `KindsAreRight` and `ComputesTheMeaning` leave these two out.
* The comment at CodeGeneratorStmt.cpp:195 says a `sthir` initialiser runs "once,
  ever". But the byte is set after it, so an initialiser that calls its own
  function runs again: `KeptUnlessReentered`.
* README.md:477 says the result of a `+` "can be safely returned from a function
  or printed later". But nothing compares `str_heap_offset` with the size of
  `str_heap`: `StringsLastWithinHeap` is about what fits.
* CodeGeneratorExpr.cpp:210-215 says of a string `+` that "either side may be a
  non-Str value (a char or an int/bool)", that sema rejects "anything else mixed
  with a string", and that "only those kinds reach here"; CodeGeneratorKinds.cpp:100-103
  says the same. But sema rejects every mixture (SemanticAnalyzer.cpp:170-180: "only string +
  string concatenation is supported right now", and README.md:480 of the repository agrees),
  so the conversions are code that nothing reaches: `NoMixedConcat`. It is as well, as
  that of the right operand leaves its result in `rax`, where the left one is.
* `f(x,)` and `f(,)` are accepted (ParserExpr.cpp:11): `AcceptedTextIsTheTree`
  excepts them by name.
* docs/language-spec.md:53 shows a `paryay` as a list of arms. But a `jar` that
  ends an arm takes a following `anyatha` for its own (ParserDecl.cpp:39), and
  only an integer literal followed by a colon begins a further arm
  (ParserStmt.cpp:248). `SentencesAreAccepted` says that exactly these switches
  are refused.

## 5. What is proved

For every value of the constants: any source text, any token sequence, any set of
programs that are trees, any set of expressions, any word size, any sizes,
alignments and addresses, any number of processes. The only assumptions are the `ASSUME`s of `Lexer` (the classes of
characters are disjoint), `Decimal` (its bounds are numbers), `Tokens` and `Parser` (an identifier is no other token,
the input ends in its only end-of-file token), `SemanticAnalyzer`, `CodeGenerator`
(programs are well-typed trees, `NumArgRegs` is a number), `Arena` (sizes and
alignments are positive), `StringHeap` (the heap is a number of words, as
65536 bytes are), `StaticInit` (its two bounds are numbers), and of `Kinds`,
`Processor` and `Expressions`: expressions have a height, and operands that are lower;
literals are words of their kind; functions have at most the six parameters the
language allows (the run `many_parameters` is about more); words are the integers of
an even number of values, and a bit operation gives an integer; the locals in scope
fill the first slots of the stack.

* **`LexerProofs`**, the cursor: `TypeCorrectness`, `ReadsSafe`, `LocationsRight`,
  `TokensOrdered`. A scanner that consumes several characters at once has looked
  at each of them, and past the end nothing but NUL is seen: that is why it stays
  inside, and, as none of them is a line feed, why the location stays right.
* **`LexerProofs`**, the text: `SourceSplit`, `ReportsDeserved`, for any source text.
  The invariant, `SplitInv`, cuts the source where the last token or report ended
  (`LastEnd`): before that all is split and every report is deserved; behind it
  `InProgress` says, for the loop the lexer is in, what it has read so far: white
  space and whole comments up to the token's start, a comment not yet closed, the
  beginning of a word or a number, the characters of a string with what they stand
  for (`StringSoFar`), or one of the three forms of a character literal. One lemma
  per scanner then shows that where its loop stops the piece is a lexeme and no
  longer one begins at its start (`Maximal`). That a longest one exists is
  `LeastNatural` of `Induction`. For operators it is the table of two- and
  one-character operators that has to be complete: none begins with another that
  the scanner would try first.
* **`ParserProofs`**: `TypeCorrectness`, `FailuresReported`, `LoopsProgress`,
  `NeverBack`. The first half looks at the tables alone, as a reader of the C++
  would: for each step, whether a token must have been consumed there, whether
  none can have been, and what was seen of the next one. One lemma per function
  checks this for its table. The second half shows that the machine keeps what
  the tables promise, by `IInv`: the cursor is inside the input, every activation
  is at a step whose promise holds of it and was called by the one below it, and
  so does what a call returned. That a failure was reported is not inductive
  without this: it depends on which functions may find nothing, and on their
  having consumed nothing then. For the provers' sake `Code` is the union of the
  tables, each with a lemma of its own, and four tokens have names.
* **`SemanticAnalyzerProofs`**, the counters: `TypeCorrectness`, `CountersCorrect`,
  `ScopesCorrect`, `OuterScopesSafe`. The counters and the height of the
  scope stack are functions of `frames`, but the end of a block only decrements
  what its opener incremented if the innermost frame is that opener's. The
  invariant `IInv` therefore adds to the three properties that the place of
  the walk is in the program and that frames are only closed while there are
  any; the lemmas on counting in sequences say what `Append` and `Front` do to
  the number of frames of a kind.
* **`SemanticAnalyzerProofs`**, the verdict: `VerdictIsExact`,
  `BindingsAreLexical`, from `VerdictHolds`. `LexicalScope` states the rules on
  the text; the walk knows neither where a block ends nor what comes later. The
  argument goes node by node. By counting openers and closes, the openers
  whose frames are open are those whose block has not ended in the text
  (`Nesting`). Each scope holds, name for name, the declarations met so far in one
  of the blocks around the node (`Mirrors`, `WalkAt`), so `Find()` gives
  `Referent()`: that a scope keeps one entry per name loses nothing only as long
  as no duplicate was met, which is why everything is stated for "nothing
  reported yet". Then the errors of a visit are the rules its node breaks
  (`Judged`), one lemma per kind of node. The invariant is `Verdict`: while
  nothing is reported, every node visited is legal and what was bound is what the
  lexical bindings of those nodes are; and a well-formed program never has a
  report, by which a report is final.
* **`CodeGeneratorProofs`**: `StackAccounted`, `BlocksAreRestored`,
  `SlotsDistinct`, `DepthsNeverBelow`, `DepthsExact`, `JumpsLanded`, from three
  invariants, of which `IInv` is the first and carries the other two.
  `StackAccounting` speaks of every open block at once, by the chain of `base` and
  `mark` fields; `IInv` adds the shape of the frame stack (a `body` frame lies on
  its `pratyek`, `karya` only at the bottom and only in a function), without which
  the end of a `pratyek`, which closes two frames, or of a function would not be
  accounted for. The refinement follows: each action is shown to be one step of `BlockStack` or a
  stutter, given `IInv`.
  `LInv` is for the slots. That later variables lie higher is not inductive: the
  end of a block lowers `stackSize` and the next declaration is placed there. It is
  once it is known that what was declared before a block lies below the block's
  base, which is where its end brings the stack (`Below`), and the same of what
  `genFuncDecl` put aside.
  `MInv` is for depths and labels. A jump is emitted long before its label, so the
  invariant says what each open construct still expects: its labels, each with the
  height at which the construct began (`Expect`). Labels come from the counter, so
  two constructs never share one except the end of an `if` chain, which has one
  height; every jump goes to a label already placed or still expected; and to an
  expected one it carries a depth that fits (`Routed`). `Marked` says which labels
  each kind of frame has and which of them lie behind, `Rising` (from the refinement
  alone) that a loop begins no higher than a `thamba` in it. "Fits" is "no less,
  and equal unless leaked": one argument for both depth properties.
* **`CompilerProofs`**, with the last part of `CodeGeneratorProofs`: `NamesFound`,
  `BindingsAgree`. The generator has no scopes: one list of variables, in
  which a lookup takes the last entry of the name, and which a block's end cuts
  back; another list for each function; and the globals, which only grow. The
  lemmas say what that list is at a node, against the text alone: exactly the
  declarations in scope, in the order of the text (`Holds`), with the ones in scope
  where each open frame's `mark` is below it (`Follows`, `Tracks`); in a function,
  only those from inside it, so that what is not there must be of the top level and
  is looked up among the globals. From this the last entry of the name is
  the referent, or one of the two cases the property excepts. Each action is then
  shown to take the list from one node to the next (`Ready`, `Used`, `Declared`,
  `Moved`): a `pratyek`, with three parts looked up at two different moments,
  and an `if` chain, whose frame outlives its arms, are the long ones.
  `NInv` puts this together for both passes: where the walk is, which nodes were
  given code (`Given`), that all they declare at the top level is among the
  globals, that nothing was thrown and that each of their uses was bound, except
  the step of a `pratyek` still open (`Waits`). `GenerateKeeps` needs the program to
  be well formed, and that is what `CInv` adds: in the stage "codegen" it is, by
  `VerdictAtEnd`; before, the generator has not moved. So the whole argument is
  made in the order of `main`: without the gate there is no proof.
* **`ExpressionsProofs`**: `StackDepths`, `StringConcats`. What the generator does by
  recursion on an expression is a function on `Exprs`; that such a definition does
  define one, with the value its equation says, comes from `Recursion` of `Induction`
  (`GenKindEquation`, `GenEquation` and their like), and then a claim about every
  expression follows by induction on its height. For the depths it is `Segment`: a
  piece of code, started with the stack it was emitted for, has the predicted depth at
  every instruction, whichever way its jumps go, none of which leaves it, and ends with
  the depth it promises. `Joined` puts segments one behind the other, and
  `ShortCircuitSegment` treats the two ways through `&&` and `||`. `DepthInv`, that the
  statement running is a segment and the stack as deep as it says, is then inductive.
  For `NoMixedConcat`, the two inferences differ on kinds, but agree on which
  expressions are strings in what sema accepts (`AcceptedIsPlain`), so the code of
  none has a conversion to text.
* **`SupportProofs`**, strings: `HeapTypeCorrectness`, `StringsLast`,
  `PrintingKeepsHeap`, `StringsReadBack`. `StringsLastWithinHeap` is
  inductive with the types: strings are only added, so if all fit now, all did
  before, and then the offset is past them. Printing implements the heap's
  specification, which gives a printing program the same property, and with it
  what `print_str` shows: the last case of `LinesAreRight`.
* **`SupportProofs`**, printing: `LinesRight`. What the digit loop leaves reads
  back as the number (`DigitsDenote`, by induction on the number), has no leading
  zero and only digits; negation gives the magnitude also of the smallest word,
  which is its own negation, because the loop divides without sign
  (`IntTextDenotes`). Of a double, the rounded fraction is nearest, and when it
  carries, whole part and fraction together still are (`RoundedIsNearest`); the
  digits of the fraction are those of its remainders by falling powers of ten
  (`FractionDenotes`). The reader of the property, `Numeral`, knows none of this:
  it only adds up digits.
* **`Induction`**: what the others need to argue by induction on data. The
  library states induction for an operator, which no prover here can supply; this
  module states it for the subset of a set where a claim holds, by least elements
  (`InductionOnNat`, `MeasureInduction`), and from that shows that a function defined by
  recursion on smaller arguments exists (`Recursion`), without which nothing can be
  said of one.
* **`SupportProofs`**, `sthir` locals: `StaticsInitialised`, `StaticsKept`, for any
  nesting of calls. The invariant, `StaticsInv`, says of every activation on the
  stack what its point implies: at the initialiser an evaluation has begun, past it
  the byte is set, and a set byte has a value beside it. `EvaluatedOnce` is what
  `StaticsKept` needs: without re-entrance only the innermost activation
  evaluates the initialiser, and the byte is still zero, so no second store happens.
* **`SupportProofs`**, the arena: `ArenaTypeCorrectness`, `DisjointRegions`, `RegionsInBlocks`,
  `AlignedRegions`, `RecursionIsShallow`. Disjointness is not
  inductive: a new region is only apart from the old ones because the blocks
  are apart, each past the one before, and every region given lies in the
  used part of a block. The lemma on `RoundUp` (aligned, not before, less than
  the alignment past) carries the rest.
* **`SupportProofs`**, the driver: `DriverTypeCorrectness`, `SuccessFresh`,
  `OnlyAcceptedOnDisk`, `LeftoversUnlinked`. The properties are about the end; `IInv`
  says what the files hold while a process that met nobody works on them (`Works`),
  and that what such a process left behind is in no file that another process, or a
  command one left running, still makes use of (`Replaced`). Both rest on `Meeting`: an
  active process that met nobody is alone. A command left running belongs to a process that
  had come to run it (`Returned`), so it is not one that stopped at an error.
  What is assumed of nasm and ld is in `Assemble` and `Link`: one that exits with status
  0 has written its output from its input; of any other nothing is assumed but that it
  writes no other file and nothing that it was not given.

Only model-checked:

* all liveness: TLAPS proves neither fairness properties nor `ENABLED`;
* `AcceptedTextIsTheTree` and `SentencesAreAccepted`: they compare what the parser
  builds with a recursive definition on trees. The operators on trees in `Grammar` and
  the generators of `MCPrograms` and `MCParser` are `RECURSIVE`, so these modules are
  for TLC only;
* `ComputesTheMeaning` and `KindsAreRight` of `Expressions`: what a whole run of a
  statement's code computes.

Two remarks for who edits the modules. The proof system reads `UNION A \cup B` as
`UNION (A \cup B)`, unlike TLC: every such union has its parentheses. And its time
for a step grows with the number of definitions in sight, which is why
`CompilerProofs` takes its lemmas from one instance, `G`, of the generator's proofs,
in which `S` is the analyser's.

## 6. Bounds, by name

`AllUpTo` (the length of texts in `MCLexer`), `UpTo` (the length of free token
sequences in `MCParser`), `MaxRegions` (allocations in a behaviour), `MaxStrings` and `MaxLen` (strings
made and their length), `NumbersFirst` (numbers are printed before strings are made,
which makes no difference to either), `MaxCalls` and `MaxDepth` (calls of the function that
holds a `sthir` local), the number of `Processes` (which are symmetric), and the node counts of the
kits in `MCPrograms` and the `MC` modules. `HeapBytes` is 40 where the code
has 65536, `BlockBytes` 6 where it has a megabyte, `WordBits` 8 where it has 64 and
`WordSize` 256 where it is 2^64. In `Expressions`, `One` is 16: a product or quotient is cut off there, on both
sides alike. In `Printing` it is 256 and `FracDigits` 2 where the code has 6, so
that a double has more places than are shown, as in the code. `NumArgRegs` is the code's 6.

## 7. Plan

Done, in this order: the two walkers, their composition, the inside of
expressions, and the run-time promises the generator makes; the arena and the
driver; the parser and the lexer with their grammars; printing; and the proofs of
section 5. Every part of the compiler that keeps state is modelled. Left:

1. A composition of `Parser` with `Ast`: that the trees of the one are the
   programs of the other.
2. The top-level code and the functions running, if the language reference comes
   to say what a global holds before its declaration has run.
