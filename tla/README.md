# Tatlang: specifications, checks and proofs

Tatlang compiles a small imperative language with Tatar keywords to an assembly
language, assembles that to byte code and runs the byte code on a stack machine.
`src/Language_test/main.cpp` is the program: one thread that calls, in this order,
`tokenize`, `parse_tokens`, `optimize`, `assembly`, `compile` and `execute`.
This directory holds TLA+ modules that follow that code, TLC configurations that
check them on small instances, and TLAPS proofs of their main safety properties.

## 1. Inventory

| Component | State it keeps | Operations | What is hard about it | What makes it correct |
|---|---|---|---|---|
| Stack (`CPU/Stack`) | header (size, capacity, call site, digest), buffer of `capacity` cells between two canaries | `stack_ctor`, `stack_push`, `stack_pop`, `stack_dtor`; each goes through `hash_check_n_count` and `stack_verifier` | growing and shrinking; stale cells that the verifier reads; a digest recorded on some paths only; the ignored failure of `stack_buf_realloc` | last in, first out; no live cell is cut off; alarms only where something failed |
| SPU (`CPU/CPU/SPU`) | byte code, carriage, user stack, return stack, registers, RAM | `process` and the `DEF_CMD` bodies of `cmd_definitions.h` | jumps are unchecked; error codes of the stacks are dropped; some commands never move the carriage | returns go behind calls; straight code stops; a jammed stack is contained |
| Drivers (`CPU/Drivers`) | none | `file_draw`, `window_draw` | waits for its window to be closed | returns, changes no machine state |
| Assembler (`CPU/CPU/Assembler`) | byte code buffer, tables of labels and jumps, the shared loop counter of `FOR` | `parse_human_code`, `cmds_process`, `arrange_labels`, `reduce_buffer_size`, `create_bin` | buffers sized by lines; prefix comparison of names; flags that survive an iteration; loops cut off at 10000 iterations | the binary is what two passes over the lines give; buffers suffice |
| File_parser, Utils | none | reading and splitting files, `cmp_double`, `FOR` | counting the last line; the cycle limit | one pointer per line |
| Frontend | text read so far, position, array of tokens with its capacity | `tokenize` and its `is_*`, `skip_*`, `get_*`, `process_*`, `add_*` functions | growth of the array; five lists of symbols that have to fit together; loops over the text that look for one kind of symbol only; the locale | the tokens are the ones written; the text is not left; every text is done with |
| Recursive_parser | position `id`, `sce_debt` | `get_general` and the functions it descends into | the end of a scope is a *debt* that the next command pays | every level opened is closed once, at its place |
| Midend | the tree, `change_flag`, the error code | `optimize`, `simplify`, constant folding, trivial expressions | one rewriting opens the way for another; a dropped operand may contain a call or an error; the loop ends only when a pass changes nothing | the value of the tree is preserved; nothing is refused without cause; the loop ends |
| Backend | name tables by level, `label_ct`, the output file | `asmbl` and the `write_*` functions | places of variables over nested scopes; one label counter for jumps written before and after a body; saving variables around calls | variables keep apart; each jump has its label; the code prints what the source means |
| B_tree | nodes | `create_node`, dumps | - | - |
| Language_test | - | `main` | every stage trusts the one before | the whole chain preserves meaning and termination |

The components talk by calls and by files (`root`, `root.bin`, `config`); each
output is the whole input of the next stage. There is one thread, so the hard
behaviours are not interleavings but long sequences of legal calls, failures that
are recorded and then ignored, stale state, limits, and conventions that two
stages have to share (how many chunks an instruction takes, what a label counts,
which register a variable is in). `PROJECT.json` lists them one by one, at the
line where they bite, under "hazards".

## 2. Modules

| Module | Models | Notes |
|---|---|---|
| `AbstractStack` | what CPU/Stack promises | LIFO container that may jam for ever or crash |
| `GuardedStack` | `stack.cpp` | one action per outcome of each call |
| `StackUnitTest` | `unit_test_1` | its four calls in order |
| `Bytecode` | commands, chunks, widths | shared by SPU, Assembler, Backend |
| `SPU` | `process` and every `DEF_CMD` | one action per command |
| `Assembler` | `compile` | one action per iteration of its loops |
| `FileParser` | `count_file_lines`, `ptr_arranger` | operators on a text |
| `Toolchain` | `compile` then `execute` | Assembler composed with an instance of SPU |
| `BTree` | tokens, nodes of the syntax tree | |
| `Frontend` | `tokenize`, text to tokens | one action per branch of its loop |
| `Parser` | tokens to tree | recursive operators, one per `get_*` function |
| `SourceReader` | `main`, text to tree | Frontend composed with Parser |
| `Simplification` | `fold_consts`, `solve_trivial_expr`, `eval` | operators on one node |
| `Midend` | `optimize`, tree to tree | `simplify` goes down to the children, comes back from them |
| `MidendProperties` | what `optimize` promises of a whole tree | value, nodes, size and calls of a tree are parameters with equations |
| `Backend` | `assembly`, tree to assembly lines | the recursion of `asmbl` as an agenda, one action per handler |
| `Tatlang` | reference: programs, their tokens, and what they print | an interpreter of the source language; written from the grammar and the example programs, not from the compiler, so nothing in the map points to it |
| `Language` | `main`, tree to machine | Midend, Backend, FileParser, Assembler and SPU in one specification; the trees are a parameter |
| `MC*` | instances for TLC | `MCLanguage` composes `Language` with Parser and Tatlang |
| `SequenceLemmas`, `*Proofs` | theorems | |

### How state and actions correspond to the code

**GuardedStack.** `cells` is the whole buffer, cells above `size` included: the
verifier reads them, so they matter. `phase` says whether the structure is raw,
live, freed, has lost its buffer (`data == NULL` after a shrink to 0 that cannot be
undone), was left half built by a constructor, or crashed through a NULL pointer.
`hash` is the digest on record as a value that is equal only for equal contents
(no collisions), of the eighth of the cells that `hash_count` really reads. Every
call first does `Enter` (compare, record, note the call site), then asks the
verifier, then works, then records again - only on the paths on which the code
does. A fresh cell from `realloc` holds any value of `Garbage`.

**SPU.** The carriage counts chunks of 8 bytes. The two machine stacks are
`AbstractStack`s: `process` ignores their error codes, so a refused push is lost
and a refused pop gives 0. Access outside byte code, registers or RAM ends in phase
`wild`, after which nothing is said. Numbers are integers; `div` and `sqrt` give
any number of `Entered`. Comparisons follow `cmp_double`, with the poison as the
number it is.

**Assembler.** A line of assembly is a record (command, mode, number, name); how
its text is scanned is left out. `code` holds the chunks in the buffer, `BufferChunks`
how many fit; running over a buffer or the table of jumps ends in stage `overrun`.
`quiet` is the iteration counter behind `FOR`, which the body of a loop resets
whenever it runs a loop of its own; `CYCLE_LIMIT` scales the code's 10000 down.
`Prefixes` says which names `strncmp` takes for which.

**Backend.** `asmbl` and the `write_*` functions recurse over the tree. `work` is
the stack of what their activations have still to do, and one step handles its head:
a visit to a node, or the rest of a handler after a recursive call returned. The
order of emitted lines, of look-ups in the name tables and of reads of `label_ct` is
that of the code. `mngrs` is the sequence of `Nm_tbl_mngr` variables that are alive
(functions and main have one of their own, and the one of `assembly` is last);
`tables = << >>` is `name_tables == NULL`.

**Frontend.** A symbol is a wide character; a keyword's letters are one symbol, since
only whole keywords matter. `symbs` is what `fgetwc` delivered, `pos` where the pointer
of the scanning loop stands; behind the text the buffer holds zeros up to the length of
the file *in bytes*, over which the loop goes as well. `capacity` is that of the array
of tokens. `Ends(i, S)` is where a loop that skips the symbols of `S` stops: the next
position for `skip_nums`, none for a name that no reserved symbol follows - then
`get_token` runs out of the text and its buffer, and the stage is `overrun`.

**Parser.** A state is what is left of the cells of the buffer, `sce_debt` and the node just
made. The cells behind END are read as any other; where no cell is left the state fails for
good (`Astray`), as what the code reads there is undefined.
`Failed` is a NULL that the caller passes on; `Unchecked` marks the places where the
code goes on with it.

**SourceReader.** `main` up to the tree: `Tokenize` steps, then `ParseTokens`, which hands over
the tokens and the zeros behind them (`Unused`; none are known once the buffer was moved).

**Midend.** `simplify` calls itself for the children first. `calls` is the stack of its
activations, the innermost first, each with its root and the sides for which its call has
not returned. `Descend` is such a call, `Simplify` the rest of the function when both have
returned: folding and solving the node, by the operators of `Simplification`, and `Return`,
which puts the result in the caller's root or makes it the new tree of `optimize`.
`Simplification` knows numbers only through what 0 and 1 do to them
(`SimplificationConstants`): `midend` gives it fractions, `language` integers. `change_flag`
and the error code are global, as in the code, and the error does not end the loop.

**Language.** The tree of a program is simplified (`Optimize` steps), assembled
(`Assembly`), read back line by line (`OpenAssembly`, which cuts the text as FileParser
does: a line is one symbol, an end of line another), compiled and executed
(`CompileAndExecute`). Which tree the parser makes of a program (`Parsed`) and what the
program may print (`Meaning`) are parameters, so that the module reaches no recursive
operator; `MCLanguage` writes the programs of the reference syntax out as tokens, has
module `Parser` parse them and `Tatlang` say what they print.

## 3. What the runs check

All runs finish within a minute or so with two workers.

**stack** (`MCGuardedStack`). `TypeOK`; `SizeWithinCapacity` (the flag
SIZE_IS_GREATER can never come up); `ShrinkLeavesHalfFree` (no reallocation on every
call at the boundary, unless the client empties its stack each time: from capacity 1 it
shrinks to 0, and the next push grows it again); `FaultIsForever` (a faulted stack can be neither used nor
freed); `AlarmOnlyAfterFailure` (every hash alarm is a consequence of an earlier
refused call, as no byte is corrupted in this model); `ImplementsAbstractStack` (the
refinement: contents are the first `size` cells, *jammed* is "the verifier would
refuse").

**unit_test_1** finds that the repository's unit test asserts `size == 0` after two
pushes and one pop.

**spu** (`MCSPU`). All byte codes of up to two chunks of any kind, well formed or
not; all of four chunks of calls, returns, jumps and literals; and one program that
jams the user stack and goes on computing. `ReturnsBehindCalls`,
`JammedStackYieldsZeros`, `StraightLineStops`.

**assembler** (`MCAssembler`). All files of up to three lines of every kind, four lines
where labels are concerned, longer ones beyond the scaled limit.
`LabelledProgramFits` (one label line pays for the entry jump, its table entry and the
trailing zero byte), `EntryJumpResolved`, `AssembledFaithfully` (against a two-pass
reference), `ClosedByVoid`.

**missing_label** finds that a jump to a label that does not exist is reported only
as long as no earlier jump found its own (`label_found` is never reset).

**cut_off** finds that `reduce_buffer_size` removes instructions, not only trailing
zeros, once its loop is cut short at CYCLE_LIMIT.

**toolchain** (`MCToolchain`). `FetchesInstructions` (the machine never executes an
argument), `ReturnsToTheNextLine`, `EndsOnlyOffTheCode` (which programs leave the loop
of `process` at all), `ForwardProgramsStop`.

**frontend** (`MCSourceReader`). Three kinds of text, in three locales (decimal point,
decimal comma, and one that cannot decode the Tatar letters):

* every sequence of three of ten tokens, laid out without blanks where that is possible,
  with blanks, and with comments between all tokens. `TokensAsWritten`: the tokens are
  the ones written.
* skeletons of programs: every sequence of up to four braces, commands, returns, ifs,
  mains and declarations, also with empty lists, longer ones of braces and commands, and scopes nested twice
  with every way to go on. `AcceptsTheGrammar`: the ones that follow the grammar are
  parsed, and of the others nothing but what `get_main` and `get_func_decl` let through
  (they do not look at the NULL of their scope). The others are refused, unless a brace or
  a scope is missing at their end: then `get_id` takes END for a name and the descent reads
  on, over the unused cells that `calloc` has set to zero (numbers, to the parser) or, once
  the buffer is full or has been doubled, over what nobody has set. Stage `astray` stands for
  the latter; no program that follows the grammar gets there. "The grammar" is that of
  src/README.md but for the empty lists of parameters and arguments (the `_` in
  src/README.md:71-72), which the parser refuses, and the run shows that it does. `ScopesFollowBraces`: walking over the
  tree as the backend does, every command is met with as many scopes open as there were
  braces open where it was written, so every debt is paid once, by the right command.
* every text of up to four of eight symbols, whatever it means. `OnlySystemErrors` (no
  symbol falls between the lists), `EndedTextsAreSafe` (a text that ends in a newline
  keeps `get_token` inside, unless a name is too long), `TokenizerStops`.

`FrontendTypeOK` says among other things that the tokens fit their buffer; with six and
more tokens the buffer is doubled.

**midend** (`MCMidend`). Every expression with one operator over three numbers, two
variables and two calls, and with a second operator in either operand; numbers are
fractions. `ValueKept`: an accepted tree has the value it had, wherever it had one.
`CallsInOrder`: calls are dropped, but never doubled or swapped. `RefusedForCause`: an
error of `eval` means that the expression has no value, or that it compares constants.
`FullySimplified`: at the end no node of two numbers is left, comparisons included, and
none of the cases of `solve_trivial_expr`, `x - x` included, over however many passes it came
up. `Reduced` lists these cases in its own words, and the theorem `ReducedIsLeftAlone` says
that they are all. `PassShrinks` and `OptimizeEnds`: each pass that changes
the tree makes it smaller, and the loop ends. The value, nodes, size and calls of a tree are
recursive operators of `MCMidend`; its assumption `PartsOfTrees` has TLC check on all trees
with up to one operator that they satisfy the equations which the theorems use instead.

**language** (`MCLanguage`). 865 programs: every main body of up to two of eleven
commands (assignments, input, output, nested blocks, ifs, loops); five functions
(locals, loops, return out of an if, double recursion) under five kinds of call; two
functions that call each other with more variables than there are registers; commands
outside of any function; bodies of expressions that the midend simplifies, in
assignments, output and conditions. `NoSharedLocation`, `OpenUntilWritten`,
`EveryJumpHasOneLabel` about the backend; `EveryLineIsRead` (the assembler sees the
lines the backend wrote, all of them); `PrintsWhatItMeans` (at `hlt` the output is
what the interpreter of module `Tatlang` computes), `StacksEmptyAtHalt`,
`ProgramsHalt` about the whole chain.

The programs of this run are what the backend compiles as they mean. What was left
out was left out because it does not work, and the next two runs show two of these
cases:

* **comparisons**: `<`, `>`, `<=`, `>=`, `!=` do not compute what they say. The right
  operand is pushed first, and the jump skips the push of 1; with two inversions
  `get_cond_type` would have to name other jumps. Equality is right.
* **inner_calls**: a call in an inner scope that has a variable restores the saved
  variables in the wrong places: `push_all` walks the scopes from the innermost
  outwards, `pop_all` from the outermost inwards.
* Also outside of the class, seen with the same modules but without a run of their own:
  an if whose body takes a label itself (`write_if` reads `label_ct` twice); a call in
  the arguments of a call while variables exist (`_temp_exch`, new in the first call,
  makes `pop_all` pop one number more than `push_all` pushed); more than ten labels
  (`break_1` is a prefix of `break_10`); a function declared inside another.

Seen while modelling the first half of the chain, also without a run of their own:

* `0 * f()` and `f() ^ 0` drop the call, with what it prints (`solve_trivial_expr`,
  midend_secondary.cpp:159-183); `CallsInOrder` allows it.
* A comparison of constants, `1 ≡ 1`, makes the midend refuse the program: `eval` has no
  case for it. `RefusedForCause` names it as the only such case. So does a division of
  constants by zero in a part that is never run or would be dropped.
* A brace does not end a name: `рәис{` is one name, while the grammar (src/README.md:60-83)
  asks for no blank there. The layouts of `frontend` put one.
* `get_main` and `get_func_decl` accept a scope that could not be parsed, if what is behind
  it happens to fit.
* A closing brace too few leads the parser over the END token into cells that `realloc` has
  added and nobody has set, in all but the shortest programs (`astray` above).
* Where the decimal sign is a comma, `f(1,2)` is read as `f(1.2,2)`: `swscanf` goes by the
  locale, `skip_nums` does not. `TokensAsWritten` leaves such texts out by name (`Fraction`).
* In a locale that cannot decode Tatar letters every program ends in front of its first
  one, as an empty program, which is accepted: `fgetwc`'s error is taken for the end of
  the file.

### Bounds, and why they are enough

* Stack: `MaxCapacity = 10` with starter capacities 0, 2, 10 takes the buffer through
  0, 1, 2, 4, 5, 10 and back, both special cases of capacity 0 included; one ordinary
  number and the poison are all the code tells apart; two call sites make digests
  differ.
* SPU: `MaxDepth = 3` and `MaxNumber = 10` are guards on pushes and results; two chunks
  reach every command in every mode and every jump into data, four chunks two open calls.
* Assembler: `CYCLE_LIMIT = 9` (10000 in the code) is passed by files of up to twelve
  lines; three names, one a prefix of another, give every case of `arrange_labels`.
* Toolchain: `MaxDepth = 4`, `MaxNumber = 2`, `CYCLE_LIMIT = 20`, above all its programs.
* Frontend: three tokens in a row show every pair of neighbours and one between two others,
  names, keywords and numbers among them; the skeletons have up to 33 tokens, which fill the
  buffer of 5 (the real `STARTER_TOKENS_AMOUNT`) three times. `MAX_TOKEN_SIZE = 3` makes names of three symbols
  too long. Skeletons of seven braces nest three deep and close more than one scope on one
  command.
* Midend: two operators are enough for one rewriting to open the way for another, at the
  root and below it; a third would only repeat that one level up, as `simplify` looks at a
  node and its children only. The numbers 0, 1 and 2 meet every test. Numbers within the
  tolerance of `cmp_double` (1e-7) of 0 or 1 are not written; see section 5.
* Language: four registers (as the backend assumes) and four RAM cells; `MaxDepth = 40`
  and `MaxNumber = 1000` are never reached, for a program that reached them would stop
  and violate `ProgramsHalt`. `CYCLE_LIMIT` is the real 10000.

Deadlock is not checked anywhere because all these programs end.

### Fairness

`WF(Next)` of the whole step relation in `spu`, `toolchain`, `midend` and `language`, and
of the tokenizer's steps in `frontend`: a single thread goes on running. For `in` and `draw` it also says that the user answers the
prompt and closes the window. No strong fairness and no fairness of single actions
is used, so no choice of outcomes (a failing allocation, the value of an input) is
forced.

## 4. What is proved

For every value of the constants under the assumptions the modules state
(`StackConstants`, `SPUConstants`, `AssemblerConstants`, `FrontendConstants`: types of
the constants, that a text has at least as many bytes as symbols, and
`4 < CYCLE_LIMIT <= ThreeBytes` - it is 10000 in the code, and three bytes of a jump's
argument hold 2^24; `SimplificationConstants`: what finite doubles do with 0 and 1;
`NotANumberIsPassedOn`: what the operations, C's `pow` included, do with a NaN);
modules `Backend` and `FileParser` need none. A theorem with a premise of its own names it
below.

* `GuardedStackProofs`. Inductive invariant `IInv`: `TypeOK`, `SizeWithinCapacity`,
  `RecordedUnlessFailed` (after a call that succeeded the digest on record is that of
  the present contents - without it a hash alarm could follow a success) and `Unused`
  (nothing before the constructor). From it `TypeCorrect`, `SizeNeverExceedsCapacity`,
  `ShrinkingKeepsRoom`, `FaultStays`, `AlarmsAreConfined` and `Refinement`, that each
  step is a step or a stutter of `AbstractStack`. The arithmetic behind them: growing
  makes room, and a pop shrinks only when three quarters of the buffer are free.
* `SPUProofs`. `SInv`: `TypeOK` and `ReturnsBehindCalls`; the type invariant of the
  return stack makes the latter inductive, since only `call` pushes there. Then
  `MachineTypeCorrect`, `ReturnsAreConfined`, `JammedMachine`.
* `AssemblerProofs`. `AInv` adds to the type invariant that the entry jump is the first
  jump and its chunk the first chunk (`EntryReady`), and that chunks and jumps are
  bounded by the lines processed, less where one was a label (`RoomUsed`). Then
  `AssemblerTypeCorrect`, `BuffersSuffice`, `EntryIsResolved`. `EInv` says what the buffer
  holds in the middle of each loop: the chunks of the lines so far, each line's behind those
  of the lines before it (`ChunksUpTo`, a recursive function of the number of lines); the
  tables, of which every entry stands for one line with a jump or a label, in the order of
  the lines; the jumps before the current one patched and the others not; and that a `VOID` chunk, the
  data of a zero, stands behind a command, never behind another `VOID` (`VoidsApart`), so
  that `reduce_buffer_size` stops at the data of the last line. From it `AssembledAsWritten` (`AssembledFaithfully`: the two passes of the code do what the
  reference does) and `EndsInVoid` (`ClosedByVoid`).
* `BackendProofs`. `BInv`: for every level, the cells up to that level carry numbers
  below how many they are, and all numbers of a manager differ (`Numbered`). The
  statement about *every* level is what survives the closing of scopes: a variable
  made afterwards gets the number of cells still there, which none of them has. While
  parameters are being entered the counter equals the number of cells, and pending
  calls never hold a second list of parameters (`WorkInv`). Then `VariablesKeepApart`:
  `NoSharedLocation` for every tree.

  The second half is about labels. `LabelInv` adds up, over all pending calls, the labels
  that each is still going to write (`Owes`; for a visit the functions declared in its
  subtree): no label is owed twice or owed and written, every jump on file or waiting to be
  written names one of these labels, all labels with a number have one below `label_ct`, and
  the one exception, the jump of an open `if`, names the label numbered `label_ct` itself,
  which stays free because no call before the end of that `if` draws a number (`Calm`). That
  last clause needs a premise, as `write_if` reads `label_ct` twice: `OneLabelForEachJump`
  is about programs that declare what they call, each function once and none under the name
  of a numbered label, and whose ifs have no comparison, `while` or `if` in their bodies
  (`WellLabelled`). Whiles may nest what they like. The growth of a tree - its nodes, what
  each declares - is one function with a condition on every node (`Fits`), as it stands for
  what would be an induction.

  The third is about levels. `BodiesStayOpen` (`OpenUntilWritten`) is about programs in which
  no command of a function closes the function's outermost scope (`Balanced`): the parser
  hands the end of a scope to the command behind it, and the last one of a function to what
  follows the function. `rise` is what a subtree leaves open and `need` how many tables
  must be there before it. `LevelInv` walks the pending calls from the depth of the present
  manager: each finds the depth it needs, takes it on by its rise, and the end of a function
  goes on at the depth its caller's manager was left at (`Walk`). Nothing is said of the
  global manager, which has no tables.

  The last is the type invariant, `BackendTypes` (`BackendTypeOK`): cells are cells, and every
  line that is written is one the assembler knows (`AsmLine`) and names a place there is. It
  is about programs that have names where a variable, a parameter or a function is made or
  called, and whose numbers are whole, as all numbers of this model are (`WellNamed`).
  `TypeInv` adds that the pending calls carry such names and such lines; what `get_loc` finds
  is one of the cells of the tables (`NearestIsNamed`). The premise `OwnNames` says that
  `main` has a name and that the names the backend itself makes (`while`, `break`,
  `_ret_var`, `_temp_exch`) are strings: the prover has no rule that a literal is one.

  The premises `WellLabelled`, `Balanced` and `WellNamed` are conditions on a tree. That the
  trees of the programs of a run meet them is an assumption of `MCLanguage`, written there as
  recursive predicates (`PremisesOfTheBackend`), so TLC evaluates it before each of its
  runs: of the trees of the parser, and of what they are when no pass of the midend changes
  anything any more.

* `ToolchainProofs`. `AssemblerWithinToolchain` brings the theorems about `compile` here.
  `LInv` says what the machine relies on of the chunks: each line's instruction where it
  is, nothing but `VOID` behind them, every jump unresolved or at the start of a line.
  `TInv` says of the machine that the carriage is at the start of an instruction or behind
  the code (`Landed`), that the addresses on the return stack are those behind calls, and
  that it comes to the end only by an unresolved jump or zero data. The first needs
  `Addressable`, that three bytes hold every position in the buffer: it is a premise within
  `FetchesInstructions`, true of every text of up to 2^23 lines. Then
  `InstructionsAreFetched`, `EndIsOffTheCode` and `CallsReturn` (`ReturnsToTheNextLine`).
  About the pointers to the lines of any text that is not empty: `PointersFitIffEnded` (the
  array that `count_file_lines` measures has room for the pointers exactly if the text ends
  in a newline) and `NoLineLeftOut` (then each entry of it is set). Both come from one
  bijection: lines but the first begin behind a newline that is not the last symbol. An
  assembly text ends in a newline because the backend ends each line with one; the
  machine's config file, which a user writes, need not.

  The rest is about the whole chain behind the parser, `LSpec` of module `Language`, for
  every set of programs. The inductive invariant has a part for each stage and hands over
  from one to the next: before `assembly()` is called its variables are as `Begin` wants
  them; from then on the invariants of `BackendProofs` hold (`BackendPart`); once the file is
  closed it ends with a `hlt` (`Closed`); before `compile()` opens it nothing of assembler
  and machine has moved (`Rest`); from then on the lines are those of the file, and the
  invariants of `AssemblerProofs` and of this module hold (`AssemblerPart`).

  * `LinesAreReadAsWritten` (`EveryLineIsRead`): the text of any number of lines is cut into
    these lines again (`LinesComeBack`: in a text of lines and ends of lines by turns, the
    lines begin at the odd places, `PointersOfText`).
  * `BackendWithinTheChain` and `FetchedInTheChain` carry the properties of backend and
    machine over to the chain.
  * `BackendSuitsAssembler`: compiled programs are never too long for the buffers of
    `compile()`, and no label is reported missing. The jumps of the text have their labels
    (`LabelInv`), the entry jump has that of main, so the search of `arrange_labels` finds
    one as long as `CYCLE_LIMIT` does not stop it (`LabelsAreFound`). Note that the label
    found may be another that begins with the name; that is what `Unambiguous` is about.
  * `CompiledProgramsStay`: the loop of `process()` is never left over the end of the code.
    `EndIsOffTheCode` allowed two ways: an unresolved jump, which `AllResolved` excludes, and
    zero data at the end, which is not there as the last line is a `hlt` (`EndsWithHalt`).

  Their premises: that the assembler's `Sources` are all sequences of lines and a line is no
  end of line (`AnyLines`); that `main` is called the same by backend and assembler; and
  that the trees `optimize()` hands over are `WellNamed` (`NamesHandedOver`) or, for
  all but `LinesAreReadAsWritten` and `FetchedInTheChain`, that they meet all premises of `BackendProofs` and
  declare main (`ProgramsHandedOver`). That the midend keeps the premises is not proved
  but what `PremisesOfTheBackend` has TLC evaluate; it does not keep them of every
  program, as `x / 0` becomes a NaN, which is no whole number. (The runs of `Language` have
  no `Sources`, which only `AInit` chooses from.)
* `FrontendProofs`. `FInv` is the type invariant together with the file being one whose
  length is known. One lemma per action shows that it is kept and that `pos` has grown;
  from these `TokensFit` (`FrontendTypeOK`) and `LoopAdvances`, the variant behind the
  model-checked `TokenizerStops`. `NoTextIsRefused` (`OnlySystemErrors`) rests on two facts
  about the lists of symbols (`OpsAreKnown`, `GoodFirsts`), and `EndedTextsStayInside`
  (`EndedTextsAreSafe`) on the first reserved symbol behind a position, which exists
  because the least element of a set of naturals does.

  `TextsAreReadAsWritten` (`TokensAsWritten`) is about texts of any length. Its premise is
  that of the property: that each token list a file is said to hold is laid out in its text.
  `LaidOut` (module `Frontend`) says what that is: token `i` stands from `at[i]` to before
  `to[i]` (`Stands`: digits with neither digit nor point behind them, a sign, an operator,
  or a word up to one of the `Delimiters`, which is the bracket if it is a function's; they
  are named without `is_reserved`'s list, which is proved to be the same set), and between the tokens is nothing but blanks and
  ended comments (`Gap`). TLC evaluates that the texts of the run are such (`TextsAreLaidOut`
  in `MCSourceReader`). The inductive invariant `AsWritten`: the tokens read so far are the
  first ones of the list, and `pos` is in the gap behind the last of them, outside of any
  comment; a round of the loop that meets a blank or a comment stays in that gap, and one
  that meets anything else stands at the beginning of the next token (`Whereabouts`) and
  reads it up to its end, one lemma for each kind of token.
* `MidendProofs`, first part: one node. `V` assigns a value to the node, its operands and
  the constants, such that it is a meaning (`Meaning`); nothing else is known of the
  operands, which may be trees of any size. `SolvingKeepsTheValue`: if the node has a value,
  what `solve_trivial_expr` puts in its place has that value, one lemma for each of the
  tests the code makes first. `FoldingKeepsTheValue`: the same for `fold_consts`, and `eval`
  reports no error for an operation that has a value.

  Second part: whole trees, of any size, over any number of passes. Five theorems:
  `OptimizeKeepsTheValue` (`ValueKept`), `CallsStayInOrder` (`CallsInOrder`),
  `OptimizeLeavesNothing` (`FullySimplified`), `PassesShrinkTheTree` (`PassShrinks`) and
  `ErrorsHaveACause` (`RefusedForCause`). The premises: `T` is a set of trees that has the trees optimized
  and is closed under taking children, replacing a child and what folding makes (`Closed`),
  as is the set of all finite trees over some names and numbers whose variables have no
  children and whose arithmetic operations have two, which is how the parser makes them;
  and the value, nodes, size and calls of a tree in `T` are made of those of its children
  (`ValuesOfParts`, `NodesOfParts`, `SizesOfParts`, `CallsOfParts`: the equations of the
  usual recursive definitions, one level each). No induction over trees is needed, for the
  code does it: `simplify` recurses, and the invariants follow it call by call.

  `WalkTypeOK` is the type invariant: every activation but the innermost has a child whose
  call has not returned. That child, as it was, is what the activation below it was called
  with (`OriginIn`; the outermost was called with `tree`). A relation
  on trees that is reflexive, transitive and kept when a child is replaced by a related one
  (`Compositional`) and that holds between a node and what is made of it, then holds between
  the given tree, the tree of each pass and, within a pass, what each activation was called
  with and its root now (`ChangesAreRelated`, with the inductive invariant `Related`). The theorems are instances
  of it: `Kept`, the same value wherever there was one; `Shrunk`, the same tree or a smaller
  one; `Ordered`, calls a subsequence of the calls before; `Traced`, the same value, and
  each place where a comparison would be evaluated comes from such a place in the given
  tree, with operands that are no less constant. As long as no error is noted each node that
  is folded has kept its value; that is why `OptimizeKeepsTheValue` is about accepted
  trees. Behind the first error a node may have become a NaN, and the passes go on
  with it; `ErrorsHaveACause` is about each error that is noted, the last included. It is
  proved by a simulation: `Hides` relates a tree to one in which some subtrees have given way
  to a NaN, each of them constant itself or with a comparison of constants in it (`Lost`), and `Hidden` is the greatest such relation. What is
  folded or solved in the second tree is hidden by what would have become of the first, as
  a NaN is passed on by every operation but `pow` with an exponent 0 or a base 1. So every
  tree the passes reach is seen as hiding one that was reached without an error (`Followed`,
  `Recalled`), and an error it gives is one that the given tree has a cause for.
  `OptimizeLeavesNothing` rests on the invariant `Unchanged`: while `change_flag` is false,
  each subtree that has been returned from is as it was and reduced, so a pass that ends
  with the flag still down has found a reduced tree. `ReducedIsLeftAlone` adds that `Reduced`
  leaves no case out: a node is reduced exactly if `fold_consts` and `solve_trivial_expr`
  return it as it is.

## 5. What is only model-checked, and what is not modelled

Only model-checked: all liveness (`StraightLineStops`, `ForwardProgramsStop`,
`ProgramsHalt`, `OptimizeEnds`, `TokenizerStops`), since the prover has no fairness
reasoning here - for `OptimizeEnds` and `TokenizerStops` the measure that decreases is
proved to (`PassesShrinkTheTree`, `LoopAdvances`); the
properties of `SourceReader` (`Parser` and `Tatlang` use recursive operators, which puts
them and what is composed of them out of the prover's reach); and of `Language`,
`PrintsWhatItMeans` and `StacksEmptyAtHalt`, which compare a run of the machine with the
recursive interpreter of `Tatlang`, or with the tree the parser built.

Not modelled, and why:

* letters behind the digits of a number (`1e5`), the text of assembly lines and of
  numbers: data that the properties do not tell apart;
* floating-point arithmetic, and the tolerance of `cmp_double`, which the midend and the
  comparisons of the machine go by: the models calculate with exact numbers and take 0 and 1
  for themselves only. `ValueKept` and `RefusedForCause`, and their theorems, do depend on
  that: they say nothing of trees that have, or fold to, a number within 1e-7 of 0 or 1 that
  is not 0 or 1. Of those neither would hold, as the code makes `x * 0.00000001` 0, and refuses
  `1 / 0.00000001` as a division by zero;
* `file_parse` with its `fread`, and the machine's config file: the splitting is
  `FileParser`'s, the rest is input;
* stray writes of a client and with them canaries; hash collisions: nothing in the
  program makes them;
* failing reallocations of the SPU's own stacks, and allocations that fail in parser,
  midend and backend, where the code goes on with NULL;
* what happens after an out-of-bounds access, a NULL `name_tables`, or a name that leads
  out of the text: undefined behaviour; the models stop in a stage of their own there;
* logs, `dump_tokens`, the graphviz and text dumps of trees, SFML windows: pure output;
* `add_child`, `destroy_subtree` and `cmp_nodes` of B_tree, which no code calls; the make
  rules.

`PROJECT.json` names the reason for each hazard that no property covers.

## 6. Plan

Done: every stage from the text of a program to the machine; the two halves of `main`
composed; the stack with its refinement; type correctness and the main safety invariants
of stack, machine, assembler, toolchain, midend, backend, tokenizer and line splitting
proved, and of the chain from the midend's tree to the machine.

Next:

1. That the midend keeps the premises of `BackendProofs` where no NaN comes up, so that the
   theorems about the chain need them of the parser's trees only: a `Compositional` relation
   between a tree and what `optimize()` may make of it.
2. Failing allocations in parser and backend, as far as what follows a NULL is defined.
