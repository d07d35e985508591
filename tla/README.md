# Verification of the ij compiler

TLA+ models of the ij compiler (`src/src`), the TLC runs that check them and
the TLAPS proofs about them.

## The system

`ij` is one sequential program: a front end reads a source, calls an
`Assembler` one method per declaration, label and instruction, and the
assembler writes the target.

| part | source | state | operations |
|---|---|---|---|
| driver | `main.cpp` | options | picks front end and backend, `compile` or `run` |
| lexer | `frontends/common/lexer.cpp` | stack of sources, one token of lookahead | `peek`, `get`, `expect`, `add_source` |
| value parsing | `frontends/common/basic_parse.cpp` | none | `parse_identifier`, `parse_value` |
| ij parser | `frontends/ij/parse.cpp` | set of names, set of imports, AST | `parse_program` and one function per rule |
| ij pipeline | `frontends/ij/compile.cpp` | `Program` | `add_main`, `prune`, `ij_compile` |
| ij AST | `frontends/ij/data.cpp` | AST | `find_vars`, `statements`, `expressions`, `val`, `is_terminal`, `get_function` |
| ij code generation | `frontends/ij/compile.cpp` | `id_gen` per function | `compile` of each statement and expression |
| JAS front end | `frontends/jas/compile.cpp` | none | one assembler call per line |
| IJVM front end | `frontends/ijvm/compile.cpp` | worklists of offsets and of functions | disassembles a binary into assembler calls |
| assembler base | `backends/assembler.cpp` | constant table | `constant`, `PUSH_VAL`, `IMUL(i32)` |
| IJVM backend | `backends/ijvm_assembler.cpp` | text section, label, jump, call and function tables | one method per instruction, `compile`, `link` |
| JAS backend | `backends/jas_assembler.cpp` | text | one line per instruction |
| x64 backend | `backends/x64_assembler.cpp` | xbyak code, frame tables | one method per instruction, `run` |
| buffer | `util/buffer.cpp` | bytes, size, capacity | `append`, `write`, `Reader` |
| logger | `util/logger.cpp` | level | `info`, `panic` |

How they interact: the front ends call the assembler, and nothing calls back.
The parser pulls tokens from the lexer; `import` pushes another source onto the
lexer's stack while the parser carries on. The pipeline reads the AST it edits.
Code generation asks the assembler two questions, `is_var` and `is_constant`,
whose answers depend on what has been declared so far. The x64 backend at last
runs the code it made, in the same process.

Nothing runs concurrently and nothing is persisted. What is hard here is of
another kind: a worklist over a cyclic call graph; loops that erase from the
vector they iterate over; two passes that resolve the same name by different
rules; patches written into finished code in the order of hash tables; operand
widths; labels that repeat in every function; generated code whose meaning
shows only when it runs.

What makes each part correct:

| part | correct when |
|---|---|
| ij pipeline | prune keeps exactly what the entry point needs, in order; it never turns a program that compiles into one that does not; it ends on recursive programs |
| ij code generation | the code does what the function means, the operand stack is balanced on every path, every jump has a target |
| IJVM backend | what is emitted is never changed but for the operand that link owns; jumps and calls arrive; numbers survive their encoding; variables lie in the announced frame |
| IJVM front end | every reachable offset is disassembled once; its output assembles to the same program |
| x64 backend | caller and callee agree on the frame; arguments and result change places as IRETURN says |
| JAS | what the backend writes, the front end reads back |
| lexer, parser | each import is read once; every input ends in a tree or an error; precedence is that of the operator table |
| buffer | what is appended is read back, through every growth |

## Modules

All line numbers refer to the file the module models; every definition's lines
are in `PROJECT.json` under `map`.

**The pipeline** (`IjCompile`, over `CallGraph` and `TreeShaking`). A function
is the record of the names its body mentions: that is all `prune` looks at. One
action is one declaration of the input (`ParseConstant`, `ParseFunction`), the
whole of `add_main`, one iteration of a loop of `prune` (`SkipVisited`,
`VisitMissing`, `Visit`; `SweepFunction`, `SweepConstant` with the iterator
`it`), or one function compiled (`EmitFunction`); `Link` is the check that ends
the IJVM backend's work. `rejected`, `missing`, `unresolved` and `unlinked` are
the four exceptions and panics it can end in. `CallGraph` says what a program
needs, as the least set closed under calls, and `TreeShaking` is the abstract
specification: load a program, then remove what is unreachable in one step, or
refuse.

**The IJVM backend** (`IJVMAssembler`). One action is one call of a method of
the assembler, in any order; then `compile`, and one action per table entry that
`link` patches, in any order, as a hash table may hold them. The text section is
a sequence of opcodes and bytes. `ByteBase` stands for 256, so that a small
instance meets every width: with 4, BIPUSH holds -2..1, a displacement -8..7,
and the fifth variable needs WIDE. `text` is a history variable: what each call
asked for, and where.

**Code generation** (`IjTrees`, `IjAst`, `IjCodegen`). `IjTrees` has one
constructor per class of `data.hpp`, `IjAst` the questions of `data.cpp` that code
generation asks.
`IjCodegen` translates every `compile` method to an operator on the state of the
compiler: instructions, labels, the counters of `id_gen`, the first exception.

**Its meaning** (`IjSource`, `IjMachine`, over `Words`). `IjMachine` compiles
one function and runs it, one action per group of instructions, as the x64
backend's instructions do: slots are twice as wide as words, IADD and ISUB wrap
at the word and extend its sign, IAND and IOR work on all bits of the slot, IINC
adds in the slot. Calls, I/O and arrays
are the environment: they are events of a log, with any answer. `IjSource` says
what the same function means, without instructions: `meaning` replays the log
through the syntax tree and yields the next event or the end. `IjMachine` is
shown to implement it (`ImplementsSource`), where the variables `program`,
`start`, `outcome`, `result` and `log` are the common ones.

`IjSource` leaves unspecified what the code does not decide in one way: a
comparison whose difference is no word, and a constant update that leaves the
words. It follows the code where no document says otherwise: `>` and `<=`
evaluate their right side first, an array assignment its value first, and
`a[i] op= e` evaluates `i` and `a` twice.

**The IJVM front end** (`IjvmFrontend`, over `Bytecode`). `Bytecode` is the
input: an instruction and a header at every offset, as they decode, with jump
targets that may lie anywhere; `STACK` stands for all instructions without
operands. `IjvmFrontend` has one action per instruction or turn of a loop:
`Seek` and `Meet` begin and end a trail in both walks, `CountRead` and `CountEnd`
are `ijvm_main_local_count`, `MethodRead`, `MethodWide` and `Trailing` are
`ijvm_compile_method`, and `BeginMain`, `SkipMethod`, `BeginMethod` and `Finish`
are the worklist of methods in `ijvm_compile`. `out` holds what the assembler is
told. `Disassembly` is the abstract specification: `Translate(f)` is one step per
method, with exactly the offsets an execution could reach, and `Fail` needs a
method that cannot be translated.

**Calls on the x64 backend** (`X64Calls`). The machine's stack is a sequence of
words, rsp its length, rbp an address in it. One action is one instruction as
`x64_assembler.cpp` emits it: pushes, `ILOAD`, `ISTORE`, `INVOKEVIRTUAL` with the
prologue that `function` writes, `IRETURN`, and the C functions behind IN, OUT
and the arrays, which may overwrite everything beyond rsp and r14. `offset` is
the table of names that `function` computes. `IjvmFrames` is the abstract
specification, written without addresses: a frame has its variables and an
operand stack of its own, a call moves arguments, a return gives the caller its
frame back. `callers` is a history variable, the calls that have not returned;
`seen` are the frames that lie in `mem` where these calls put them, and
`X64Calls` implements `IjvmFrames` with `frames <- seen`. No action reads
`callers`: IRETURN goes by the pointers it finds in `mem`, and `RuntimeKept`
says that these agree with the history (`LinksIntact`).

**The parsers** (`Tokens`, `RecursiveDescent`, `IjParser`, `JasRoundTrip`). `Tokens`
has the kinds of tokens and `is_next`. `RecursiveDescent` is the lexer between
two tokens, the stack of sources and one token of lookahead, and a parser as a
stack of things to do: `todo` holds what the active functions of the parser
still do, `built` what they have built. One action is one call of the lexer or
one step of a parse function; what a function does is the operator `Rule`, which
`IjParser` defines for `parse.cpp` and `JasRoundTrip` for `jas/compile.cpp`.
`IjText` compares what `IjParser` consumes and builds with the text.
`IjSyntax` is the reference: how a tree is written down, with as few or as many
braces and parentheses as are allowed. It follows the grammar of `src/README.md`
where that has a rule; what the grammar lacks (while, products, arrays, `$`
functions, bodies without braces) follows the comments of `parse.cpp`, and bodies
in jas follow `parse.cpp:120-124` against `README.md:115-116`, see below.
`JasRoundTrip` first lets the JAS backend write a script of assembler calls, one
action per call, and then the JAS front end read the text: what it makes of it
(`heard`) is compared with the calls made.

**The scanner** (`Scanner`). `read_token` on the characters of one source, one
action per turn of a loop. `IsWord` and `Means` say what a word is and what it
means, of whole words and without looking ahead. The words are those of
`lexer.hpp:12-20` but for character literals and identifiers: there the scanner
takes more than the comment says, and `IsWord` takes what the scanner takes
(`lexer.cpp:224-248`), so `ScansLanguage` says nothing of that difference.
Strings, white space and keywords, of which the comment says nothing, are those
of `lexer.cpp`.

## Runs

| run | shows | bounds |
|---|---|---|
| `ij_compile` | the pipeline's safety, its end, and that it implements `TreeShaking` | every input of at most 4 declarations from 8 bodies and 2 constants |
| `assembler` | instructions survive the patches of link, jumps and calls arrive, panics are justified, numbers, frames, types | every 3 calls of all mnemonics, every 5 of those link resolves, every order of its tables |
| `codegen_control` | loops around branches with break, continue, return, `$halt`, nested loops | words of 3 bits, 3 inputs, 2 events |
| `codegen_values` | every operator on operands of every kind, updates by IINC or not, calls, arrays, constant conditions, refusals; operands fit their instructions | words of 4 bits, every input, 4 events |
| `disassemble` | each reachable offset is translated once, labels exist, variables keep their slots, loops end, and it implements `Disassembly` | every shape of control flow of 4 instructions; two of 15 instructions in main with 7 called methods; truncated binaries |
| `x64_calls` | r14, the barriers and the saved pointers survive, and the frames are those of `IjvmFrames` | 3 frames, 3 operands each, 18 words of stack, 2 numbers, 3 functions |
| `parse` | a program is parsed to itself, imports are read in place, nothing accepted is lost, the parser ends | every pair of operators on both sides, every statement and nested pairs, in both spellings; imports in 3 files; every 3 tokens of 20 kinds in a function |
| `jas_round_trip` | what the backend writes the front end reads, and never as something else | every instruction with border numbers; every 4 calls of a vocabulary of 13 |
| `scan` | tokens are the longest words, with values and places; refusals are right; the scanner ends | every text of 4 characters of 13 kinds; every string and unclosed string of 4 |
| `break_target`, `trailing_program`, `not_equal` | one disagreement each, see below | a few programs each |

Why the bounds are enough. Four declarations hold two user functions beside the
entry point and a constant or a second definition: mutual recursion, a function
met twice before it is visited, an erase in the middle and at the end. Five
calls of the assembler hold two functions with a label of one name and a jump
each way; three suffice for an encoding, which depends on the call and on the
tables before it (`Vocabulary` is the constraint that separates the two). The
widths are all exceeded, because a byte has four values.
In `codegen_control` an event is enough to see which path was taken and the
second one to see another iteration; words of 3 bits make the loops end or come
around. In `codegen_values` no program has more than four events.

Four instructions are enough for two jumps into each other's trails, a trail met
in its middle, a loop and an instruction only a jump reaches. `SlotBase` stands
for 65536, so that main can have too many variables; `Pad` for 4096, below which
labels are padded with zeros; `MaxOut` ends the loop over WIDE, which does not
end by itself. `Termination` of the front end and `EmittedOnce` exclude that
loop. Headers announce at least the OBJREF and no more slots than a `u16` counts.

Three frames on the x64 stack are a method called from main, one called from a
method, and a recursive call; the frames of two arguments, of one name declared
twice and of none differ in size, so that a C call meets the stack aligned and
not. The bounds on frames, operands and words are conjuncts of the guards. In
`parse`, every level of the operators meets every other one on either side
(`-` stands for all unary uses, and each of the other levels has one or two
operators), and an import comes before, between and inside declarations.
`LONG_MAX` is the largest number `stol` reads: the arbitrary tokens of `parse` hold
one beyond it and a character with an unknown escape, both refused.
In `jas_round_trip` a byte is -4..3 and a word -16..15, which keeps apart what
fits a byte, a word and neither. In `scan` no token but a string depends on more
than four characters; `MaxBuilder` ends the loop over an unclosed string, which
does not end by itself.

What the properties leave out, each because the code does something else there,
is named in their comments: a break behind an inner loop, an update inside an
expression and conditions that are refused or folded away in the code generation
runs (`codegen_values` has the latter two kinds of condition); a function without
braces that ends the text in an `if`; `0x` without a digit. `RoundTrip` has as
premise that the calls are `Readable`: one main, in front; no name that is one of
the reader's keywords, `GC` and the least byte, which it refuses; no function with
neither a variable nor an instruction. `NeverMisread` has no such premise: it is
about every text that is read to its end. Both take the `Protocol` of the front
ends for granted: a function comes first, and main has no arguments. The programs run by `IjMachine` also leave
out `$push` and `$pop`, with which the programmer takes over the operand
stack, and the smallest word as a factor, on which `IMUL` never ends
(`assembler.cpp:57`). `StackBalanced` has as its premise that no loop's update
leaves a value (`compile.cpp:374-376` never pops it); that such a loop still
computes what it should is part of `ImplementsSource`. `SlotsInFrame` has as its premise that a
function's counts fit the 16 bits of its header. `X64Calls` assumes that
main has no parameters and that no variable has an argument's name or one that
`function` reserves (`NamesAssumption`), that code takes no operand it did not push, and that calls
pass the right number of arguments.

## Fairness

`FairSpec` of `IjCompile` is weak fairness of its step: the compiler is one
sequential program and nothing blocks it. `IjMachine` is weakly fair in its
instructions: the processor carries on, and the environment answers what it is
asked. Neither says that a function is ever compiled, or that a program
terminates: `IjSource` demands an event or an end only where the function's
meaning has one. `IjvmFrontend`, `IjParser` and
`Scanner` are weakly fair in their step, as the pipeline is: a front end runs
alone, and its input is a file. `Termination` of the parser names the one loop
that takes nothing (an empty statement in braces), that of the scanner an
unclosed string. The assembler, `X64Calls` and `JasRoundTrip` have no fairness;
their properties are of safety.

Deadlock is checked where a run ends in an action that changes nothing
(`Terminated`, `Over`); it is off where the model stops with its input: the
parser, the JAS reader and the scanner.

## Proofs

`IjCompileProofs` proves, for every set of bodies, every bound and every
program, that `prune` keeps exactly the functions that the entry point reaches
(`KeepsExactlyNeeded`) and every constant they load (`KeepsNeededConstants`), in
the order of the source (`OrderIsKept`), that no function is visited twice (`VisitsOnce`), that pruning is invisible to
code generation (`PruningIsTransparent`), that programs with distinct functions
link (`CallsAlwaysResolve`), and that the pipeline implements `TreeShaking`
(`Refinement`). `WalkClosed`, the heart of it, is not inductive alone: the walk
must also hold only definitions that a lookup finds (`StackSound`), record
constants as it visits (`ConstantsRecorded`) and leave the program alone
(`Untouched`); `WalkExact` turns this, at the end of the walk, into equality
with the least closed set; `FunctionsSwept` and `ConstantsSwept` say what the
iterator has behind it, and `Swept` where the kept elements stand and which
part of the source is still to come. `EmitSound` carries the result through code generation.
The assumptions are those of the modules: bodies are function definitions over
the identifiers, the bound is a natural number.

`IJVMAssemblerProofs` proves type correctness and `InstructionsIntact` for every
even byte base, every vocabulary and every number of calls. Its invariant says
that the calls in the history lie one behind another in the text section
(`Layout`), that the sites of jumps and calls that `link` will patch are such
calls (`Sites`, `Pending`), and that constants are only appended
(`ConstantsKnown`). A patch then rewrites the second and third cell of a jump or
a call, and these belong to no other one. `ProofBasics` holds facts on sequences
that the others use.

Its second half goes on from there: in every linked text jumps point to their
labels (`JumpsArrive`) and calls hold the index of their function's address
(`CallsArrive`), numbers are pushed as asked (`PushesHold`), variables lie in
their frames (`SlotsLieInFrames`), and a panic has its reason
(`PanicsJustified`). The tables forget which call made an entry, so the
invariant, `LInv`, relates them to the history (`History`): functions are numbered in order
(`Numbered`), labels, jumps, calls and addresses of functions are in their tables
under the names they were called with (`LabelTable`, `JumpTable`, `CallTable`,
`FunctionTable`), headers and indices are those of the calls (`Frames`,
`Generated`). While `link` works, what has left a table is patched right
(`JumpsLinked`, `CallsLinked`) and all else lies as it was emitted (`LaidOut`).

`X64CallsProofs` proves, for every program, with no bound on frames,
operands or words, that `RuntimeKept` holds and that the machine implements
`IjvmFrames` (`FramesImplemented`). The invariant `Inv` is a layout of the
stack (`Sound`): every active frame ends in its barrier, lies below the base of
its callee, and has the place and base of its caller in two of its slots.
`FrameLayout` says that no variable and no slot of `__rsp__` is one of these two,
so that what an instruction writes (`OnlyWritten`) hurts no link and no other
frame. The refinement rests on `FrameKept`, that frames below look the same when
the words below their callee are the same, and on `WindowPush` and `WindowPop`,
what becomes of a frame's operands; `CalleeFrame` is the passing of arguments.
The assumptions are `FramesAssumption` and `NamesAssumption`.

`IjvmFrontendProofs` proves, for every set of binaries, every width of a slot and
every padding, that the walks implement `Disassembly` (`DisassemblyImplemented`):
each method gets exactly the offsets that control reaches, every called method is
translated, and only a needed method that is out of order is refused. It also
proves `TypeAlwaysOK`, `EmissionIsOnce`, `SlotsAreKept` and `JumpsAreLabelled`.
`Reached` is what lies in every set closed under control flow. The invariant says
of a walk that what it has read and what it has before it lies in `Reached`, and
that control goes from what was read nowhere else (`Walk`); so a walk with nothing
before it has read all of `Reached` (`WalkEnds`). `Translating` ties the walk to
what was emitted and to the method's header, `Queue` ties the pending and
translated functions to the calls in the output, and `Covered` keeps what is known
of a method when it is through. The first walk of main leaves the number of its
variables behind: no variable of main is above it (`Counted`), and one is right
below it (`Highest`). Both are needed, the second where a u16 cuts the number off:
then main names a variable that no slot has, and refusing it is right
(`TooManyVariables`). The assumption is `BinariesAssumption`: what `Binaries`
holds are binaries, and the counts are numbers.

`JasRoundTripProofs` and `IjParserProofs` prove, for every script and every set of
files, whatever their tokens are, that the two recursive descents leave nothing
half-built between two blocks or declarations (`Settled`, a part of `TypeOK` there,
`TypeAlwaysOK`, and of `NothingLost` here, `DeclarationsAreComplete`). The invariant is
about heights of `built`: each thing to do needs a height and leads to another one
(`Fits`), and all that is still to do is a thread of such steps to the end
(`Threads`). One lemma per function of the grammar says that what it does leads
between the heights that its caller counts on; `RuleThreads` collects them.
`TypeAlwaysOK` also covers the writer, whose `is_var` knows the variables of the
last function and no others. `ImportsNestOnce` proves that no imported file is open
twice (`NestedOnce`, a part of `ReadInPlace`): its invariant also says that while the
parser works there is always a file below a new one (`Opened`).

The second part of `JasRoundTripProofs` proves `RoundTrip` (`WrittenIsRead`) and
`NeverMisread` (`ReadAsWritten`) for calls of every number, with any names and
numbers, and every width of byte and word. It goes in four steps.

1. The writer. `WInv`: what has been written of the first calls is laid out as
   they were made, each function, label and instruction (`Laid`, `CodeKept`) and
   each constant with its last value (`ConstantsKept`). So the complete text has a
   layout `X` (`TextLaid`): the text, the calls it is made of, and where each of
   them begins.
2. The states of the reader. What is between two steps is how many tokens were
   taken, what is built and how many calls were made (`State`); a thing to do leads
   from one state to another (`Does`), and all that is still to do is a path of
   states (`Path`), as the thread above is one of heights. Where an error or a wrong
   call comes next, the path may go on in any way, but only when the text is not
   `Fine`, or when the calls no longer count.
3. The grammar. `Ruled` says, for each function of the reader, from which states it
   is called on a layout and to which it leads: `parse_code`, say, from the
   beginning of any call to the next function, or to a label that is spelled like a
   keyword. `RuleLeads` shows that what each of them does from there is such a path;
   one lemma per function.
4. The run. `RInv`: what is in the source and in the lookahead is the rest of the
   text (`Ahead`), the calls made are the first ones (`HeardSo`), and what is to be
   done is a path from here (`Reads`). One lemma per step. The tokens can only run
   out between two blocks when all has been read (`ToplevelEnd`).

The assumption is `ScriptsAssumption`: scripts are sequences of calls an
`Assembler` can be given (`JasCalls`: an instruction has the operands it takes, a
byte is a byte, a word a word), with `WidthAssumption` and `LongAssumption`: a byte
is narrower than a word, and `stol` reads the hexadecimal form of every word.

`ScannerProofs` proves `ScansLanguage` (`ScannerCorrect`) for every source, every
set of letters and digits, and every set of keywords. The scanner forgets the text
behind it, so the invariant (`ScanInv`) says which piece of the text is what:
`from` and `Edge` are where the token being read began and where the finished ones
end; each finished token is the piece of the text between the place it names and
the place of the next (`Covered`, `Right`), a word no longer word begins with
(`LongestAt`); the piece between `from` and what is left is a beginning of what the
active loop reads (`HalfRead`), and `builder` holds what it means so far (`Built`);
line and column are those of the offset (`Position`), which `PlaceDiffers` shows to
be its only ones. A loop that ends has read all that a word of its kind could hold
(`LoopEnds`). Strings are the hard part: whether a quote ends one depends on the
backslashes before it, on how many there are. `EscapedNext` turns that into a fact
about one character and its neighbour, so what was read inside of a string decides
where it can end (`StringHolds`) and what it means so far (`ReadsGrows`). The
invariant leaves out what the builder holds once a string ran into the end of its
source, since the loop there never ends. The assumptions are those of the module: a
character is of one kind (`CharactersAssumption`), a keyword is a name
(`KeywordsAssumption`), and the bound on an endless string is at least the length
of the source (`TextsAssumption`), so that it never cuts a token short.

Only model-checked: `Termination` of the pipeline, the parser, the scanner and the
front end; the whole of code generation; that trees are those of the
text (`TreeIsProgram`, and of `ReadInPlace` and
`NothingLost` all but the parts above). TLAPS does not prove liveness
under fairness, nor what a recursive definition computes for every input: the
operators of `IjAst`, `IjCodegen`, `IjSource`, `IjSyntax` and `IjText` recurse over
syntax trees and texts, a text is put together by `FlattenSeq` and cut by
`SelectSeq`, and `Words` uses the bits of a number.

## Where code and documents part

| run | what the code does |
|---|---|
| `break_target` | `break` and `continue` go to the loop numbered last, behind an inner loop the wrong one |
| `trailing_program` | a trail that meets another one ends without a jump to it: the else part of an if/else falls off its method |
| `not_equal` | `!` is no operator of the lexer, although the grammar (`README.md:71`) and `is_comparator` (`parse.cpp:377`) have `!=` |

The others have no run of their own, and the models take them as given.

In the back ends:

- The index behind WIDE is little-endian (`ijvm_assembler.cpp:135`); this
  repository's own reader takes it as big-endian.
- On x64 a parameter of main is counted in the offsets but not in rbp
  (`x64_assembler.cpp:229`, `:272-281`), and a name that is both argument and
  variable is the variable; the IJVM backend takes the argument. A variable
  called `__ret_addr__`, `__base_ptr__` or `__rsp__` has the slot of that name
  (`:234-247`).

In the IJVM front end:

- ICMPEQ names its target `loc_%x`, labels are `loc_%04x`.
- The loop over WIDE prefixes emits WIDE and never reads.

In code generation:

- A `break` outside of a loop is only detected before the function's first loop.
- A second function of one name is accepted, although a name may not be "defined
  twice" (`parse.cpp:45-48`); `PruneTransparent`, `CallsResolve` and
  `CallsReachFunctions` are about programs without such names.
- `if (1 + 2)` and `if (1 != 2)` stop the compiler (`data.cpp:208-221`), although
  a condition may be any expression (`README.md:72`): `IjSource` lets it refuse
  them.
- `a < b` is decided by a difference that wraps (`compile.cpp:307`), while literals
  are compared exactly (`data.cpp:214`): `IjSource` leaves a comparison
  unspecified whose difference is no word.
- `x + (y += 2)` takes a word from below its operands (`compile.cpp:199`), although
  `+=` is an operator of expressions (`README.md:73-75`): the families have no
  such program.

In the parsers and the scanner:

- The statements of a jas body need no semicolons (`parse.cpp:92`), although they
  "have to be closed with a semi-colon" (`README.md:115-116`), and may be labels
  (`parse.cpp:96`), which the same line calls unsupported. The comment of
  `parse_function` (`parse.cpp:120-124`) and `test/rc4.ij:41-45` side with the
  code. `TreeIsProgram` has programs with both and asks for their trees.
- A character literal holds any byte, an end of line too, or a backslash and any
  byte (`lexer.cpp:237-243`), where `lexer.hpp:17` has one of `[ -~]`; `'\'`,
  which is one of these, is refused. An identifier may have one character and a
  `$` inside (`lexer.cpp:224-227`), where `lexer.hpp:18` has `[_A-Za-z$]\w+`.
  `ScansLanguage` takes all of this from the scanner.
- An empty statement in braces, `{ ; }`, makes `parse_compound_stmt` spin
  (`parse.cpp:75-81`), and a string that is not closed makes `read_token` read
  for ever (`lexer.cpp:160`).
- A function without braces that ends the last file in an `if` without `else` is
  refused (`parse.cpp:303`).
- A list of parameters or variables may begin with a comma, `function f(,a)`; a
  list of arguments may not (`parse.cpp:106-117`, `:523-538`).
- `parse_value` stores a number in 32 bits before it compares it with its range
  (`basic_parse.cpp:23`), and negates it behind: -128 is no operand of BIPUSH,
  0x100000001 is 1, and only what does not fit a long is refused. A leading zero
  makes a number octal, and `0x` alone is a token.
- The JAS reader takes the period of `.end-method` for `.var` if a method has
  neither variable nor instruction (`jas/compile.cpp:26`), and stops without an
  error at the first token that is no period (`:178`).
- A cyclic import reads the root file once more: it is not in the set of imports
  (`parse.cpp:26-33`).

## Not modelled

The driver (options and files), the logger (formatting; a panic is a final
phase), the vendored x64 encoder, the debug hook, and
the output file around the text section (magic words, sizes, symbol tables).
The buffer: `IJVMAssembler` uses `append` and `write` as operators on a sequence,
and their growth (`buffer.cpp:58`, `:79`, `:101`) is sequential arithmetic on a
capacity. In the lexer, how the path of an import is put together
(`lexer.cpp:58-66`) and the text form of a number.
In the IJVM front end, the magic number, the section headers, and a call whose
index lies outside of the constant pool. In the pipeline, the statically dead
branch of an `if`, which `prune` walks and code generation skips; imports are
`IjParser`'s. The instructions of jas functions in
`IjMachine`: their author balances the stack, not the compiler.

## Plan

1. `Buffer`: growth and `Reader`, with a proof that what was appended is read
   back.
