# A TLA+ model of the Sulfur compiler

Sulfur is a small statically typed language. The repository holds its compiler
`sulfur-compiler` (`compiler/`: one source file in, NASM assembly out), the
build tool `sulfur` (`cli/`: `new`, `build`, `clean`, `run`), a standard
library written in the language, documentation and scripts. This directory
holds a model of the parts that decide something, configurations that check
the model with TLC, and proofs checked by TLAPS. In the text, `semantic.c:149`
is line 149 of that source file.

## The system

| component | state it keeps | operations | who calls it |
|---|---|---|---|
| driver (`driver/main.c`, `flags.c`) | `sf_compilation`: source, tokens, tree, modules, IR, assembly | parse flags; run the stages, each followed by a test of the log; write the output | the user, the build tool |
| log (`utils/log.c`) | had-error and had-fatal flags, process-wide | log a message | everything |
| module loader (`module/module.c`) | `sf_module_list`: file, tree, LOADING / LOADED / FAILED; in each import node `resolved` and `module_index` | resolve the imports of a unit, recursively | driver |
| semantic driver (`semantic.c`) | per module PENDING / IN_PROGRESS / DONE / FAILED and its functions | analyse a program; analyse a module; copy public functions | driver |
| function tables (`symbol.c`) | functions of one unit, own and imported | insert, look up, find the closest | semantic driver |
| scopes and flow (`scope.c`, `semantic.c`) | stack of symbol tables, failed pushes, next id; saved flow states | push, pop, insert, look up; save, restore, fill, merge | statement analysis |
| expression types, constants (`semantic_expr.c`, `semantic_const.c`, `type_utils.c`) | types written into the tree | resolve, convert, fold | statement analysis |
| lexer, preprocessor, parser | position in text or tokens | produce tokens, a tree, or logged errors | driver, loader |
| IR (`ir.c`) | operations, temporaries, labels, externs | generate | driver |
| code generation (`codegen.c`, `stack.c`) | text buffer; stack map of one function | emit; place a slot | driver |
| arena, files, strings, mangling (`utils/`) | chunks; none | allocate; read, write; format | everything |
| build tool (`cli/`) | the files of a project | new, build, clean, run | the user |

The compiler is one thread and keeps nothing between runs except the files it
writes. What makes it hard is not concurrency but

* two mutually recursive walks of an import graph that may have cycles,
  diamonds, self imports and missing files, with state left half-built in the
  module list while a callee looks at it;
* error handling by one process-wide flag: results of calls are thrown away
  and the log is consulted later, so each false result needs a message;
* an analysis that saves, restores and merges positional snapshots around
  branches, on scopes whose pushes may fail;
* failures of memory and files at any step, most reported, some ignored;
* error recovery in the parser, which skips tokens and must neither skip a
  statement that should count nor stand still;
* facts that travel between units: qualifiers, signatures and link names of a
  function come from whichever declaration of it was met first.

What has to be right, per component: the loader ends and loads each file once;
the analyser finds exactly the cycles and accepts a module only with everything
it imports; the driver generates code for exactly the programs that deserve it;
the flow analysis never lets an uninitialized variable be read; variables
stay in scope as long as the constructs that found them there; slots of a frame and blocks of an arena are disjoint; generated code computes
at the width the types say and branches as the statements say; the assembly
files of the units link, and each call reaches the function the text means; the
parser accepts the language and nothing else; a build that reports success has
built the sources of today.

## Modules

| module | models | state and actions |
|---|---|---|
| `Lexer`, `Parser` | `preprocessor.c`, `lexer.c`; `parser.c`, `parser_expr.c`, `parser_stmt.c` and the constructors of `ast.c` | operators: one per function of the source, from a parser to the parser after it |
| `Grammar` | the language as the documentation describes it | operators: the trees a sequence of tokens has |
| `Frontend` | `sf_preprocess`, `sf_tokenize`, `sf_parse` one after the other on one file | `phase`, `input`, `pos`, `tokens`, `parser`, `program`, `log`, `memory` (which allocation fails); one action per turn of a stage's loop |
| `SourceFiles` | one run's input: files, their import lists, defects, function names | `src`, `setting` (`--module`, whether anything may fail), `cmdline`, never changed; `Reachable`, `Acyclic` |
| `CompilationState` | what stages share | `log`, `state`, `resolved` |
| `ModuleLoader` | `module.c` | `loading` is the C call stack of `resolve_imports`, `nextImport` its loop counters; one action per way an iteration of the loop can go, one for the return |
| `ModuleAnalysis` | `analyze_program`, `analyze_module`, `import_public_symbols` | `analyzing` is the C call stack, `nextDep` and `allOk` the locals; one action per way the import loop can go, one for the statements and the return |
| `Compilation` | `main.c` and the two walks | `stage`, `output`; one action per stage; the composition: extends the two walks and gives each the `log` and the module list |
| `CompilerContract` | what a run promises, without walks | `Accept`, `Reject`; implemented by `Compilation` (`ImplementsContract`) |
| `FlowAnalysis` | `scope.c` and the statements of `semantic.c` | `symbols`, `bases`, `failed`: the scopes; `open`: the constructs being analysed with the C locals of their handlers and, as history, the variables each one found (`outer`) and whether its `scope_push` failed (`lost`); `running`, `assigned`: one execution of the same code |
| `Linkage` | `symbol.c`, `import_public_symbols`, `analyze_func_decl`, `check_main_function`, `mangle.c`, module names, `collect_externs`, `emit_func_linkage`; outside, nasm's symbols and ld | `table`: the function table of each unit; `functions`: what code is generated for; `unit`, `next`, `copied`: the loop counters; one action per function copied, per declaration analysed, per end of a unit, and one for the linking |
| `Statements`, `Execution` | the statements of a function, and what executing them means | `todo`, `event`; `Act`, `Compute`, `Test`, `Return` |
| `Control` | `generate_function`, `_if`, `_while`, `_block`, `_return`, labels and jumps in `codegen.c`, their lines; outside, nasm's lines and labels and the processor | `functions`, `nextLabel`, `text`: what was generated; `pc`, `event`: its execution; `left` records what the statements leave to do at each operation, for the refinement; one action per declaration generated, then one per operation executed |
| `Arena` | `arena.c` and the growing lists of `ast.c` | `chunks`, `blocks`, `arrays`; allocation in the current or a new chunk, appending in place or with a grown array, each failing or not, and the release of the chain |
| `StackLayout` | `next_aligned_offset` and the rounding of `frame_size` | operators, used by the next two |
| `StackFrame` | `stack.c`, `frame_size`, `stack_offset` | `entries`, `capacity`, `next`: the stack map; one action per way `add_entry` ends, one for the reserved frame, one for the abort |
| `Calls` | the instructions of `emit_call`, `emit_stack_arg`, `emit_return` and the prologue | `mem`, `rsp`, `rbp`, `args`, `rax`: the machine; `active`: what the source program means; one action per sequence of instructions |
| `ExpressionTyping` | `semantic_expr.c`, `semantic_const.c`, `type_utils.c` | operators: `Analysed` types a tree as `sf_semantic_expr` does, `Constant` and `ConstantTruth` fold it |
| `ExpressionCode` | expressions of `ir.c`, the operators and conversions of `codegen.c` | `statement`, `operations`, `machine`, `pc`, `phase`; one action per phase of the compiler for one statement, then one per operation executed |
| `BuildTool` | `command_build`, `command_clean`, `command_run` | `src`, `emit`: the project, edited at any time; `disk`, `made`: what is under `build/`; `cmd`: the running command with the C locals of its handler; `due`: what the last successful builds promised |
| `Compilation_proofs`, `Contract_proofs`, `FlowAnalysis_proofs`, `Linkage_proofs`, `Calls_proofs`, `StackFrame_proofs`, `Arena_proofs`, `BuildTool_proofs` | proofs about these modules; `Contract_proofs` builds on `Compilation_proofs` | |

How the parts compose: `Frontend` is the stage that `Compilation` sees as
"malformed or not" for each file; `Linkage`, `FlowAnalysis` and
`ExpressionTyping` are what it sees as the verdict on a unit's statements;
`Linkage` takes the order of units and what each imports from what `Compilation`
guarantees. `Control` takes expressions as single acts, which `ExpressionCode`
opens, and that opens no calls, which `Calls` does, in the frames of
`StackFrame`.

In `ModuleAnalysis` a callee's boolean result is read back from the module's
analysis state: `analyze_module` returns true exactly when it leaves DONE. So
the caller's action for an import fires when the state is decided, and the
recursive call is the action `DepEntered`.

`FlowAnalysis` has no program as input. A behaviour of the specification
writes the program as it is analysed: every enabled action is a statement the
parser can produce at that point, so TLC visits every program up to the bound.
Beside the analyser runs one execution of the same program, whose conditions
go either way. Soundness of the analysis is an invariant of the pair.

`Calls` runs the generated code. A byte of the stack holds a numbered byte of a
named value, where the name says which operand of which activation the value
was computed for; so a value read in part, or overwritten in part, is
recognized as junk. What lies below `rsp` is forgotten when a function returns,
since the next function may have any frame. `Top` bounds the stack: a call or a
prologue without room for what it pushes does not happen. The order in which operands get
their slots is that of `StackFrame`, by the same `NextAlignedOffset`.

`ExpressionCode` compiles one assignment or return and runs it. A tree is a
record with the fields of the C node, typed by `Analyse`; `Generate` makes the
list of IR operations, with the destination a caller asks for passed down as
the code does (`hint`); `Emitted` gives the instructions of an operation. The
assembler and the processor are external: nasm wants operands of one size, a
4-byte write to a register clears the upper half and a shorter one keeps it, an
immediate of an 8-byte operation is a sign-extended 4-byte one. The machine has
narrower values (bytes of 3 bits, words of 6, doublewords of 7, quadwords of 8):
what matters is that each width is wider than the one before, that a word is two
bytes (`ax` is `ah:al`) and that a byte holds every shift count. Against it
stands `Meaning`, the value of the tree in the integers.

## Runs

| run | question | bounds |
|---|---|---|
| `compile` | Do both walks end, load once, find exactly the cycles; is the verdict the contract's; is anything unsound passed over when files are missing, malformed or ill-typed, and memory, reads and writes fail at any step? Does the inductive invariant of the proofs hold? | without faults three files with every import list of up to two entries (self imports, cycles through any file, diamonds, doubled imports, the program's own file imported), and every clash of a function name; with `--module` and faults at every step two files, one of them imported, in every state of health |
| `frontend` | Are the tokens those of the text, is the tree the one the grammar gives, is everything else rejected, does every loop move forward? | 17,000 texts: all of up to three characters of those the tokenizer tells apart, all expressions of up to four words, all pairs of binary operators, prefixes with postfixes, and five programs with each word lost, added, replaced by each of twenty, or cut, and with each allocation failing |
| `linkage` | Does what is accepted link, do calls reach their function, has each function one body? | two modules and a root; up to two functions in a module, declared or defined, with each qualifier, two signatures; every import among them; files in nested directories with names that could mangle alike; functions named like a mangled name, `_start` or a library's function |
| `flow` | Is the flow analysis sound; do variables keep their scope when pushes fail; do functions return? | two variable names, five statements, three levels of nesting, failing `scope_push` |
| `control` | Does the generated code do what the statements say, and go on? What does nasm refuse? | two constructs behind each other, two or three within each other, each with empty, plain and returning bodies, with conditions that need code and that do not; functions in and behind functions |
| `code` | Does what is accepted assemble, and compute what it means? Are warnings about constant conditions right? | some 8,000 statements: every operator on operands of one type, variables or literals at the bounds, over an operand or elsewhere; two operators deep for four types; conversions, shift counts, arguments and returns for every pair of types. Variables at the bounds of their types and at -1, 0, 1 |
| `calls` | Do arguments and results arrive, and does every function leave the others' frames alone? | three active functions; functions of no, one, seven and eight parameters, with operands of 1, 2, 4 and 8 bytes; 256 bytes of stack |
| `frame` | Are slots disjoint, aligned and in the frame, one for each operand? | six operands of widths 0, 1, 2, 4 and 8, a map that grows twice, failing memory |
| `arena` | Do blocks overlap, arrays lose elements, failures pass silently, chunks leak? | an address space of 128 bytes, so that rounding, doubling and products can wrap; two arrays, five blocks, five appends |
| `build` | Is what the tool reports true, is what it runs one whole binary, has a library stale members? | three sources with two texts each, three commands, one edit, interrupts at every step; symmetry between the two module files and between the texts |
| `widening` | (violated) Does the documentation's function that returns an `i32` as an `i64` keep its value? | that function |
| `else_if` | (violated) Is the documentation's chain of else-ifs assembled? | that example |

Three files suffice for `compile`: the walks look at one import at a time and
compare it with the stack and the list, so a module is new, finished, on top of
the stack, or deeper in it; three files give each of these with an import left
to process before and after it. Larger graphs are covered by the proofs. Five
statements suffice for `flow` to open a function, declare, branch and assign on
either or both sides, and two names to shadow and to copy. In `calls` seven
parameters are the first with a stack argument (and padding), eight the first
with two, whose order matters; a call from a callee of a call is the shortest
chain in which a frame lies between two others. In `build` three commands are
what it takes to build, fail or be interrupted, and then run; two sources beside
the entry, for a library that loses one of two members. In `linkage` two modules
give a function two importers or an importer two sources of one name; a name is
a sequence of letters, since two paths can be confused only letter by letter. In
`control` the smallest constructs already put every kind of operation first,
last and between labels. In `frontend` one wrong word meets each recovery at
each place, and the words after it show where parsing resumes; the widths of
numbers, names and paths are small enough to be exceeded.

Some constants switch a case off that the code is known to get wrong (below);
with the switch on, the named property is violated. `TRUE` for `SaveFaults` or
`NestedFunctions` breaks `FlowIsSound`, `DiskMayFill` breaks `ReportsAreTrue`,
`RemovalMayFail` breaks `LibraryIsExact`, and `FALSE` for `TopLevelVariables`
breaks `ParsesTheLanguage`. In the same way

* `code` excepts a computed value that is implicitly widened (`Widens`), where
  `Assembles` says that nothing else is refused by nasm, and a variable read
  before an increment of it on its right (`ReadsLate`), for which no document
  gives an order. A function that is called returns its parameter unchanged:
  `Calls` has the convention, `code` only the widths;
* `frontend` excepts numbers of more than `NumberBits` and paths that do not fit
  their buffer (`PathsFit`);
* `linkage` is about programs whose declarations of one function have the same
  qualifiers (`SameQualifiers`), whose functions have a body somewhere
  (`Complete`; for linking), whose modules have one name each (`NamedApart`),
  without names like those the compiler makes (`PlainNames`), and, for calls,
  which do not declare an imported public function public again (`OwnPublic`).
  The run has programs that break each of these, and what it says of them is
  that they are rejected, or linked, or not, as the code does it. Functions
  declared in functions are not part of it, nor user functions with the names
  of registers or instructions; names have at most nine letters in the run and
  any length in the proofs (`Digits`). Its `Assembles` is about symbols alone, as the
  one of `ExpressionCode` is about operand sizes and `TakenByNasm` of `Control`
  about lines;
* `control` executes the operations in the order they stand in the file whether
  or not nasm takes the lines: so a repair of the label lines is checked
  already.

`RunsAsWritten` is a refinement: `Control` implements `Execution`, the meaning
of statements without labels, under the mapping of what is left to do, including
that it goes on doing it. `ImplementsContract` is the other refinement.

In `BuildTool` the four programs it calls are external: each either does its
work, or fails and leaves nothing new, no output or a part of one. That a part
of a binary cannot be executed is `ld`'s doing (it sets the mode last), and that
`ar rcs` keeps old members is what `archive_files` removes the library for.

Fairness: in `Compilation` `WF_vars(Step)`, in `Control` weak fairness of the
processor's steps. The compiler is one thread that nothing suspends for good, and
a processor executes the operation it stands at: a step that is enabled is taken.
`Terminates` is about the recursion being well-founded, and the liveness half of
`RunsAsWritten` about labels and jumps never following each other for ever, not
about scheduling. A condition may hold every time it is tested: nothing is
assumed of loops ending. The other modules state safety only; that the loops of
`Frontend` end is the action property `MovesForward`, since their text is finite.

Deadlock is checked everywhere; a finished run stutters explicitly.

## What is proved

`Compilation_proofs` proves, for every set of files and every import graph,
with faults at any step, that `IInv` is an invariant. `IInv` is needed because
none of the interesting properties is inductive: that a cycle is never DONE
depends on what the loop counters of all activations have passed. Its parts:

* the two call stacks: a module is LOADING (IN_PROGRESS) iff it has an
  activation, exactly one, with `Root` at the bottom;
* `LoaderProgress`: while nothing is logged, every import that a counter has
  passed is resolved and listed; a FAILED module has an error behind it;
* `AnalysisProgress`: while `ok` holds, every import passed is DONE; a DONE
  module has passed all its imports; modules are analysed only when LOADED;
* `StageProgress`: which stack is empty in which stage.

From it follow the type invariant, that analysis sees only loaded modules, that
a dropped verdict has an error in the log, that DONE is closed under imports
and acyclic, and that code is generated only for acyclic programs without
missing imports. `ImportsAreDirect` and `LoadedOnce` are proved with lemmas of
their own. The acyclicity argument adds one module at a time: a module becomes
DONE when everything it imports is DONE already, so it cannot close a cycle.
The only assumption is `InputAssumption`.

`Contract_proofs` proves the safety half of the refinement `ImplementsContract`:
initial states map to initial states of `CompilerContract`, and every step is
`Accept`, `Reject` or a stutter there. That needs both directions. A clean log
must mean that the program is acceptable: `CleanIsCorrect` says that what the
loops have passed so far (files, imports, statements) is free of defects and of
clashes of names, and at the end they have passed everything reachable. An error
in a run in which nothing failed must have a reason in the contract:
`RejectionIsDue`. For a cycle that is an argument about the call stack: each
activation of `analyze_program` is for an import of the one below it
(`StackIsPath`), so an import that is met again IN_PROGRESS closes a path of
imports to itself.

`FlowAnalysis_proofs` has four theorems, for any finite set of names, any number
of statements and any depth of nesting. Three hold without further condition:
the state keeps its types (so no `scope_pop` makes the count of failed pushes
negative), variables keep their scope, and a function with a return type that
`stmt_always_returns` lets pass never ends without a return.

That variables keep their scope has to be said with care. A `scope_push` without
memory only counts itself, and whichever `scope_pop` comes next takes the count
down again (`scope.c:36`, `51-53`). So when the push of an outer construct fails
and that of an inner one does not, the inner pop leaves the inner scope to the
outer pop: pops are not paired with their own pushes, and between the two pops
there are variables in scope that should be gone. `VariablesKeepTheirScope` says
what holds nevertheless: no scope is taken too early, so what a construct found
in scope is there, in its place, until it has ended (on which the flow states,
restored by position, rely), and where no push failed for a construct or around
it, nothing else is left when it ends, whatever failed inside it. That the counts
add up (`PushesAreCounted`) does not show this. `ScopesInPlace` does: there are
depths at which the open constructs began, the scopes deeper than that of a
construct begin no earlier than the variables it found, and its own scope is the
next one where nothing was lost. A failed push is always logged as a fatal, so
what is left in scope too long never reaches generated code.

That functions return needs
`ReturnsEndTheRun`: where a construct is marked as returning, the execution
beside the analyser is over for the function around it, here and in every branch
that waits outside. The fourth, `AcceptedReadsAreSound`, is the soundness of the
analysis: `FlowInv` adds to the flags of the current state those saved by every
open construct, which have to be true of the execution whenever control is in
the construct or waits outside a part of it, and to have one flag for each
symbol outside the construct. It assumes `~NestedFunctions` and `~SaveFaults`;
with either, TLC finds the property violated (below).

`Linkage_proofs` proves all three invariants of `linkage`, for any number of
modules, any programs, and names and paths of any length.

* `OneBodyEach`, and that names are unique in every function table. `OneBodyEach`
  is about the functions that code is generated for; a new definition is compared
  with the table, not with them. So `IInv` adds that each of them with a body is
  marked in the table (`BodiesAreKnown`) and that a name has one entry there
  (`OneEntryEach`): a second body meets the mark and is refused, also when
  declarations or an import came between. `Shape` gives tables and lists their
  types.
* `MangledNamesDiffer`: a link name can be read back in one way. No name
  begins with a digit, so it is certain where a length ends (`DigitsEnd`): two
  equal link names have the same first part, and then the same rest. `Joined` is a
  recursive function, and this is an induction over the parts of a path;
  `InductiveSet` gives induction as a fact about sets, from the least element
  that a set would leave out. Nor is a mangled name one of the text, unless that
  one looks mangled.
* `AcceptedProgramsLink` and `CallsReachTheirFunction`. They compare the end of a
  run, tables and link names, with the text; so `Tracked` says of every moment
  what the loops have passed so far. As long as nothing failed, every entry of a
  table comes from a function of the unit, whose link name it has, or from a
  public entry of an imported module, with the link name the importer makes of it
  (`EntriesHaveSources`); every function and every public symbol passed has its
  entry (`ItemsAreEntered`, `ImportsAreEntered`); and the code of a function has
  the link names of these entries (`CodeIsGenerated`). At the end the loops have
  passed everything (`Whole`). Then the labels of a unit differ, because its names
  are unique and mangling is one-to-one; the public functions of two units
  differ, because their modules' names do; an extern is found, because its entry
  leads to a public function with a body or to a library; and a call ends in the
  function whose entry it was given.

The only assumption is `LinkageAssumption`: numbers are printed in digits,
differently and for every length that occurs; programs name files once, inside a
directory of `-m` (`main.c:57` refuses others), and import only modules that come
before them, which is what `Compilation` guarantees.

`Calls_proofs` proves all three invariants of `calls` for any functions, with any
number of parameters and operands of every size, any calls among them and any
depth of recursion. `IInv` describes the stack as a whole: frames lie above one
another, an older one above a newer one (`Ordered`), and between a frame and its
caller's exactly the saved `rbp`, the return address and what `emit_call` pushed
(`Placed`). While a function is being called, its arguments are in registers or
above the return address (`InPrologue`); when it has returned, `rsp` is where
the caller's `add rsp` makes it the end of the caller's frame again
(`InReturned`). An action then writes below every older frame, and `Carried`
transports what is known of those, once for all actions. The lemmas before it
are about the operators: slots of a frame are disjoint and inside it
(`SlotFacts`), what is stored is loaded at every narrower width, and what the
copying of parameters and the pushing of arguments leave in memory
(`CopiedEffect`, `ArgumentsPushedEffect`), by induction on their number. The
only assumption is `CallsAssumption`.

`StackFrame_proofs` proves all four invariants of `frame` for every set of
operands. The invariant that makes it inductive adds `OffsetsReached`, that no
offset exceeds `next`: so a new slot, which starts below `next`, is disjoint
from all others.

`Arena_proofs` proves all five invariants of `arena`, for every word size, chunk
size and sequence of requests. The inductive invariant of the first four adds
`ChunkOK` (a chunk's used part stays inside it and its size inside `size_t`). Two
facts carry the argument: the check before rounding a size keeps it from
wrapping, and doubling a capacity that once fitted cannot wrap as long as an
element has two bytes. `NoLeak` needs the form of the list instead (`Chained`:
chunk `c` is followed by chunk `c + 1`, and `current` is the last one); that the
walk along it meets all chunks is an induction, made with the first chunk that
it would leave out.

`BuildTool_proofs` proves the three invariants of `build` for any sources, texts,
commands and edits, on a disk that does not fill up (`~DiskMayFill`; without it
`ReportsAreTrue` is false) and where an old library can be removed
(`~RemovalMayFail`; without it `LibraryIsExact` is false). What a build reports was made by many steps, between
which sources are edited and before which others failed: so the invariant says
of each step what is on the disk already (`BuildIsOnTrack`: each source behind
the loop has its output, made from a text that it had since the build began; the
old library is gone before the new one is archived) and the same of `clean`
(`CleanIsOnTrack`).

Only model-checked, and why:

* `Terminates`, the liveness halves of `ImplementsContract` and `RunsAsWritten`:
  liveness under fairness is out of the prover's reach;
* the properties of `code` and `frontend`, and `RefusedOnlyWhereLabelsMeet` of
  `control`: these modules have `RECURSIVE` operators (over trees, tokens and
  statements), which the prover does not read. Recursive functions, as in
  `Linkage`, can be reasoned about, with the least element of a set in place of
  the library's induction theorems, whose parameters are operators.

## Disagreements found

With a run that shows them:

* `fn widen(i32 x) i64 { return x; }` is the documentation's example of a safe
  implicit cast; a negative value comes back positive (`widening`). The cause is
  more general: operations and returns take their width from the place of the
  result, or from the value, and nothing converts between the two. So
  `i64 y = x + 1` with an `i32 x` is accepted and then refused by nasm, and
  `u64 y = x as u8` with a `u64 x` keeps all of `x`. Arguments are converted
  (a cast is inserted), and so are plain variables.
* `emit_label` writes a label without ending the line. Where two constructs begin
  or end at one place, as at the end of every else-if chain, labels share a line,
  and nasm takes one for each: the example of `if-else.md:77-85` is refused
  (`else_if`).

With a switch or a condition, named above, that leaves them out of the runs:

* A function declared inside a function is analysed on the outer function's
  flow state. A variable it assigns counts as initialized in the outer
  function, which then reads an empty stack slot (`NestedFunctions`).
* `scope_flow_save` out of memory logs nothing and restores nothing: what one
  branch assigns counts as assigned after both (`SaveFaults`).
* `sf_file_write` ignores `fwrite` and `fclose`: on a full disk the compiler
  exits with 0 and the build is reported as done (`DiskMayFill`).
* `archive_files` ignores the result of `remove`. Where the old library cannot be
  removed ar mostly fails as well, for it writes to the same folder; where it does
  not, members of removed sources stay in the library (`RemovalMayFail`).
* `top-level.md` forbids executable statements beside functions; with a
  qualifier (`mut i32 x = 5;`) one is parsed and analysed, and the generation of
  its code, which has no function to go to, dereferences NULL
  (`TopLevelVariables`).
* A number is accumulated modulo 2^64 before its range is checked:
  18446744073709551617 is the `i32` 1.
* An import path of more than 512 characters is dropped without a message, and
  the recovery drops the declaration behind it too (`PathsFit`).
* `pub` on the definition but not on the first declaration is lost to importers,
  the other way round to the linker; a function declared `extern` and then
  defined in a module is called by its plain name and defined under its mangled
  one (`SameQualifiers`).
* A program that only declares `main` is accepted and does not link
  (`Complete`).
* With one `-m` directory inside another, or an import that spells a path in
  more words than the file's own name, importers and the module itself use
  different prefixes, and the program does not link. With `-m s -m d`, an import
  of `s/b` that finds the file `s/b` can even be linked to the functions of
  `d/s/b`, which is compiled under that name (`NamedApart`).
* Mangled names are unique only among themselves. A function of the root, which
  is not mangled, can be named like a mangled one and is then called in its
  place. The length before a name runs into a name that begins with a digit,
  which a directory or a file may have: the paths `1/abc/defghi` and
  `3abc6defghi` give one prefix. A function named `_start` is defined twice
  (`PlainNames`).

Without a model of its own: the documentation declares a variable without a value
and then assigns the first one (`variables.md:30-36`), which `analyze_var_assign`
refuses unless it is `mut` (`Assign` of `FlowAnalysis` has the refusal).

## Plan

1. `ExpressionCode` with recursive functions in place of operators, for its
   type invariant and the widths of registers.
2. `command_new` and the parsing of `sulfur.toml`.

## Not modelled

Message wording and source excerpts, the printing of trees and IR, colours,
edit distances for suggestions, string buffers, `optimization.c` (empty), the
standard library, scripts and documentation, `sulfur new`. Crashes of the
compiler itself (a NULL dereference after a failed allocation, or after a
variable beside the functions) are named here and not represented. `Frontend`
runs alone: a text is not carried on into the other stages, which take trees.
