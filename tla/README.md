# u6a: a verification project

u6a is an implementation of the Unlambda programming language: `u6ac` compiles
source text to bytecode, `u6a` loads the bytecode and interprets it on a small
virtual machine with a segmented stack and a reference-counted object pool.
This directory holds TLA+ models of both programs' core, TLC configurations
that check them on small instances, and TLAPS proofs about the stack, the pool,
the compiler's phases and both drivers; each phase of the compiler is proved correct for
every program.

## The system

| Component | State | Operations | Interaction |
|---|---|---|---|
| Lexer (`lexer.c`) | growing token array | read one character, emit one token | called by `u6ac` |
| Parser (`parser.c`) | pre-order array of nodes, stack of open applications | one token at a time | lexer's tokens in, array out |
| Code generator (`codegen.c`) | text, strings and pending instructions in fixed buffers | one node at a time, then sections | parser's array in, bytecode or mnemonics out |
| `u6ac` driver (`u6ac.c`) | options, input and output files | options, run the phases, clean up | deletes the output on failure |
| `u6a` driver (`u6a.c`) | options, bytecode stream, exit code | options, info or init and execute, clean up | calls the runtime |
| Loader (`runtime.c`) | text, strings | header, version, sections, offset conversion | bytecode in, VM memory allocated |
| Interpreter (`runtime.c`) | acc, top, func, arg, ins, current character | one instruction at a time | calls stack and pool; errors by `longjmp` |
| Segmented stack (`vm_stack.[ch]`) | linked segments with counts, active segment | push1-4, top+pop, exchange, save, resume, discard | frees values through the pool |
| Object pool (`vm_pool.[ch]`) | cells with counts, holes, free worklist | allocate, addref, free | frees saved stacks through the stack |
| Dumps and mnemonics (`dump.c`, `mnemonic.c`) | none | one line per instruction or 16 bytes | called by the code generator for `-S` |
| Diagnostics (`logging.c`) | the verbosity flag | messages on stderr and, when verbose, on stdout | called by all |

The program is sequential. What is hard in it is memory: continuations share
stack segments that are copied only when written, two reference-counting
schemes call each other recursively, registers hold uncounted references, and
any allocation may fail. The other hard part is control: delayed operands,
tail calls and continuations move through jumps whose targets the compiler
computes from a tree and the loader converts.

What makes each component correct:

* stack: it is indistinguishable from a plain stack with immutable snapshots;
  counts are exact; nothing freed is used; nothing is forgotten;
* pool: counts are exact at every step of a nested free, holes are exactly the
  free cells, frees end, garbage does not stay;
* interpreter: a compiled program does what the language says;
* loader and driver: the interpreter starts only with everything in place, and
  everything is given back once;
* lexer, parser and code generator: exactly the well-formed programs are
  accepted, a source that could be read only in part is not taken for another
  program, the code and the dump are the tree's, fixed buffers suffice;
* `u6ac` driver: whatever fails, and when, the exit code tells what is left of
  the output file, no other file changes, and code and messages never share stdout.

## Modules

| Module | Models |
|---|---|
| `VmStackOps` | the stack operations as operators on one record of segments |
| `VmStack` | the stack as a state machine driven in every order the interpreter can produce; properties and inductive invariant |
| `AbsStack` | what the stack promises: one sequence and immutable snapshots |
| `VmStackProofs` | the theorems about `VmStack` |
| `VmPoolOps`, `VmPool` | the same two layers for the object pool |
| `VmPoolProofs` | the theorems about `VmPool` |
| `Counting`, `CountingFacts` | how often a value occurs in sequences, and lemmas about that; induction and recursion over numbers |
| `Defs` | tokens and instructions shared by compiler and runtime |
| `Lexer` | `u6a_lex`, with read errors and the growth of its array |
| `Parser` | `u6a_parse` |
| `Frontend` | the two called one after the other, as `u6ac` does |
| `ParserProofs`, `FrontendProofs` | the theorems about `Parser`, and about `Lexer` and `Frontend` |
| `CodegenOps`, `Codegen` | `u6a_codegen`'s loop body, and the phases around it |
| `CodegenProofs` | the theorems about `Codegen` |
| `Dump` | the lines that `-S` writes, and what a reader can tell from them |
| `U6ac` | the `u6ac` program around the code generator |
| `U6acProofs` | the theorems about `U6ac` |
| `Unlambda` | reference semantics: an abstract machine with expressions, values and frames. It models the language and no code |
| `RuntimeHeap` | stack and pool composed, each call run to its end, with the recursion between them |
| `Runtime` | loader and interpreter on top of `RuntimeHeap`, running what `CodegenOps` generates |
| `U6a` | the `u6a` program around the interpreter |
| `U6aProofs` | the theorems about `U6a` |
| `MC*`, `SmallPrograms` | model values, bounds and the sets of programs for TLC |

`RuntimeHeap` reuses `VmStackOps` and `VmPoolOps`, so the interpreter runs on the
same operators the two component models are about; `Runtime` reuses
`CodegenOps`, so that compiler and interpreter are checked end to end.

How state corresponds to code:

* A segment is an element of `Seg`; `stk.elems[s]` is its values, so `top` is
  `Len - 1` and `UINT32_MAX` is the empty sequence. `stk.live` is what malloc
  returned and free did not take back; an access outside it sets
  `status = "wild"` (in the pool, counts are followed instead).
* STACK_POP is `u6a_vm_stack_top` and `u6a_vm_stack_pop` in one action, as no
  code runs between them. On an empty segment `top()` already moves
  `active_stack`, so `u6a_vm_stack_pop_split_` is unreachable.
* `vm_stack_free` takes two steps per segment, because freeing the values of a
  segment may destroy continuations, and so call it again, in between.
  `u6a_vm_pool_free` takes one step per cell, for the same reason.
* Pool cell `c` is `elems[c - 1]`; a value without the REF flag has `ref = 0`.
* An instruction takes one or two steps in `Runtime`: finding function and
  argument, then the case of the switch.
* In `VmStack` the pool appears as the number `owned[v]` of references the
  stack holds; in `VmPool` a saved stack is the sequence of references it holds.
* A source is a sequence of ASCII codes. Reading it may fail at any character,
  which `fgetc` reports as EOF; the lexer cannot tell and does not ask. The byte `ch`
  of a token that has none keeps what malloc left there (`Junk`).
* `Parser` and `Codegen` begin in the state before they are called; their action
  `Start` is the call with its allocations. `Frontend` calls the parser with what
  the lexer returns. `U6ac` calls `Codegen` with the options it has read; lexer
  and parser are two steps with all their outcomes there, because the files only
  depend on whether they succeed.
* In `U6ac` a file is "old", "empty", "cut", "new" or "none". A write may reach
  the file at any time before fclose; fclose may lose the rest, and remove may
  fail, both without the code noticing (`faults` records it).
* In `U6a` a bytecode file is what its file header holds (`prog_header_size` any byte), the
  number of bytes behind that, and the two numbers its first 8 of these are. `left` is what has not been
  read yet. `prog` is `header.prog`: its bytes that were read are the file's (`MayHold`), the others
  any at all, as they are whatever was on the stack. A read that fails is a file that ends there.
* Operators named after a mistake (`PopCrossFar`, `AddrefNone`, ...) stand in
  front of the definition they could be mistaken for. No specification uses
  them; substituted for that definition they show that a property can fail.

History variables, read by no guard of the code's own: `content`, `lost` and
`broken` in `VmStack` and `RuntimeHeap`, `lost` in `VmPool`, `need` in
`Parser`, `faults` in `U6ac`, `expect` in `Runtime`, `ub` in `U6a` ("overflow": the program
header was read into too short a struct, where the behaviour ends; "uninit": a size was used of
which not all bytes had been read).

## Runs

| Run | Checks | Shows |
|---|---|---|
| `stack_values` (VmStackValues.cfg) | Represents, OwnedExact, ImplementsAbs | refinement of the plain stack, exact ownership |
| `stack_shape` (VmStackShape.cfg) | TypeOK, CountsExact, NoLeak, WildOnlyIfBroken, StackInv | counts, leaks, causes of wild accesses; the inductive invariant |
| `stack_saved` (VmStackSaved.cfg) | ContinuationsWork, violated | finding 1 |
| `stack_active` (VmStackActive.cfg) | ActiveIsLive, violated | finding 2 |
| `pool` (VmPool.cfg) | TypeOK, CountsExact, HolesExact, NoGarbage, WorklistBounded, FreeReturns | the pool through nested frees |
| `frontend` (Frontend.cfg) | LexesSource, RefusesRight, LimitExact, ReadErrorsShow, PstackOK, NeedsMissing, AcceptsPrograms, TreeIsRight | tokens against a recursive definition, the array and its limit, syntax check and tree, truncated sources |
| `u6ac` (U6ac.cfg) | TypeOK, BuffersFit, TextIsTree, DumpTells, ExitTellsOutput, OnlyOutputChanges, StdoutPure, NotOwnOutput | generated code against a recursive definition, the dump against the code, files, exit code and stdout |
| `u6ac_syntax_only` (U6acSyntaxOnly.cfg) | SyntaxOnlyKeepsFiles, violated | finding 5 |
| `runtime` (Runtime.cfg) | TypeOK, Agrees, WildHasCause, NoDangling, CountsCover, Exits | compiled programs against the language |
| `runtime_offsets` (RuntimeOffsets.cfg) | AgreesAlways, violated | finding 3 |
| `u6a` (U6a.cfg) | TypeOK, StartsComplete, EndsClean, FreesOnce | starting and ending |
| `u6a_force` (U6aForce.cfg) | ForceExecutes, violated | finding 4 |

### Bounds

* Stack: segments of 5 values, the least for which a segment below another
  always holds two (a push of four into an empty segment always fits). Four
  segments, six values deep and one continuation reach every split, copy and
  crossing with values that can be told apart (`stack_values`, followed up to
  the first defect); five segments and two continuations, with one value, reach
  nested frees and sharing by three (`stack_shape`; after a defect the stack is
  only taken apart, not grown). Segments are symmetric: addresses are only
  compared for equality.
* Pool: three cells, two references per cell in the interpreter, one in a saved
  stack: chains, shared cells, a saved stack inside a saved stack, and a nested
  free that interrupts an outer worklist all occur.
* Lexer and parser: every source of up to 11 characters over the application
  and a leaf, up to 7 over four tokens, up to 5 over nine kinds of characters
  (those that take another one after them, the comment sign, newline, blank, one
  that begins nothing, one that is not ASCII). The array holds 5 tokens at first
  and 10 at most, so that it grows, is full, and is refused, within these lengths.
* Code generator: every tree of up to 3 applications over the leaves it tells
  apart, up to 5 over two of them, chains of up to 6 functions so that strings
  of 4 and more are met, and prints of 14 to 33 characters, so that the hex dump
  has lines that are full, one byte short and one byte over, up to three of them.
* `u6ac`: every command line of up to two options (each property relates at most
  two), with a source, without one, and on stdin, with and without older files.
* Runtime: all programs of up to 3 applications over five combinators and over
  five functions with continuations, of up to 2 over eight functions with input
  (each on three inputs), all of the form s applied to four operands over two
  sets of operands, and the strings and nested operands listed in `MCRuntime`; 16
  cells, 8 segments of 5. Programs are padded with identities so that no jump is
  among the last five instructions; those with input and the strings are also run
  as they are. A program that does not exit within the abstract machine's 160 steps
  is run but not compared; it is cut when it has written MaxOut characters or a
  count passes MaxRefcnt.
* `U6a`: command lines of up to two options (a size given twice, or with any other option).
  A byte has 2 values, so that a 32-bit number is one of 4 bits and all that unread bytes can hold
  is tried; the limits are scaled along, with numbers below, at and above them, one that is in
  range only once it is cut, and one that strtoul refuses. Program headers of 3, 4, 6, 8
  and 9 bytes (not read, one size read, one and a half, both, too long), of both versions, and files that end
  before, inside and behind the program header, the text and the strings.

Deadlock is checked in the runs of `Runtime`, `U6a` and `U6ac`. The other models stop
where the code does: after an error, or when memory is used up.

### Fairness

The program is one thread that nothing else stops. `VmPool` assumes weak
fairness of the steps of `u6a_vm_pool_free`, a loop that runs once entered. `Runtime`
assumes that a running interpreter keeps taking steps; the formula says this
directly because with deadlock freedom, which the runs check, it is weak
fairness of the step and far cheaper to check. No action of the environment is
fair: input and malloc choose as they like.

## Proofs

Every theorem is about the specification that the runs check, for every value of
its constants that its named assumptions admit. None of the properties is
inductive by itself; each component has one invariant, of named parts, that is, and
the properties follow from it.

Some properties compare the code with a recursive definition (`Reference` of the
tokens, `CodesOf` of a tree, `PlainLen` of a text, the columns of a dump). The theorems
the library has for these take an operator as their parameter, which the provers cannot
instantiate. `CountingFacts` therefore has them for sets and functions: that a set of
numbers has a least element and induction upwards and downwards (`LeastNatural`,
`UpInduction`, `DownInduction`), and that a function which CHOOSE defines by what it
gives further on exists and satisfies its equation (`DownRecursion`). The recursions of
the model are functions for this reason, and each proof instantiates these with the set
of numbers for which its claim is true.

### Stack (`VmStackProofs`)

For every finite set of segments, every set of values and of pushes of one to
four of them, every segment length of at least five and any bounds:

* `TypeCorrect`: `Spec => []TypeOK`;
* `StackSound`: `Spec => []StackInv`, and from it `RepresentsHolds`, `CountsHold`,
  `NoLeakHolds` and `WildHasCause` (`WildOnlyIfBroken`);
* `OwnedHolds`: `Spec => []OwnedExact`, from an invariant of its own;
* `ImplementsPlainStack`: `Spec => Abs!Init /\ ImplementsAbs`.

The assumptions are the named ASSUMEs of `VmStackOps` and `VmStack`: NULL is no
segment, segments are finitely many, pushes are of one to four values, and
`StackSegLen >= 5` (the command line admits 64 and more).

That the contents of a stack
survive a write needs that the written segment is shared with nobody, which
needs exact counts, which needs that no running `vm_stack_free` holds a
reference that is not counted, and that two of its nested calls never work on
one segment. `StackInv` puts this together: `HeadsOK` (nothing lies on the active
segment or on a saved one, so `vs->refcnt = 1` in `vm_stack_free` is right),
`LinksOK` (what lies below is in use and holds two values, so top() and the
exchange find what they look for), `CountsOK`, `FreeOK`, `LeakOK` and `ChainsOK`. It is claimed
until one of the two defects below strikes (`broken = {}`), and TLC checks it in
`stack_shape`. The proof has one lemma per operation (`PushInv`, `PushNewInv`, `PopInv`,
`PopBelowInv`, the exchanges with and without a copy, `SaveInv`, `ResumeMoveInv`,
`ResumeCopyInv`, `DiscardInv`, `FreeUncountInv`, `FreeSegmentInv`), resting on what adding and
retiring a segment do to the shape and on facts about concatenation.

`OwnedOK` is the invariant for the references: a segment that is free holds no value,
and as many references to each value were taken as there are slots that hold it. It
needs only the types, so ownership is exact after the two defects as well: they
confuse who owns a segment, but no step takes or drops a reference without a slot.
One lemma per operation (`PushOwned`, `PopOwned`, `XchOwned`, `CopyOwned`, `ContOwned`) says what it adds
to the slots, with the lemmas of `CountingFacts` on places and copies.

For the refinement, `AbsSteps` shows that each operation on a stack that is sound before
and after is the operation of `AbsStack` of that kind, or changes nothing there, as the
steps of a free do. The cases (`PushAbs`, `PopAbs`, `XchAbs`, `SaveAbs`, `ContAbs`, `FreeAbs`) need `StackInv`:
top() finds the top of the contents only because the contents are what the
segments hold, and writes leave the saved stacks alone only because nothing that is
written is shared.

### Pool (`VmPoolProofs`)

For pools of every length and saved stacks of every size: `PoolSound` proves
`PoolInv`, and from it follow `TypeCorrect`, `CountsHold`, `HolesHold`, `WorklistHolds` and
`NoGarbageHolds`. That a count is the number of references is kept by a free only if
what it gives back has none left and is no hole yet; that the worklist is not
longer than the holes, only if its cells are counted; and that an unreachable cell
cannot keep others alive, only because references lead from younger cells to older
ones (`Acyclic`: every set of live cells has one that none of the set refers to,
which allocation keeps although cells are reused). The references are counted
in the cells, in the worklist, and in the calls of `vm_stack_free` that are under way;
`CountingFacts` has the lemmas on how each of these numbers changes. That every
free ends (`FreeReturns`) is left to TLC.

### Compiler front end (`ParserProofs`, `FrontendProofs`)

For token arrays of every length: `ParserSound` proves `ParserInv`, from which follow
`PstackHolds`, `NeedsHold`, `AcceptsHolds` and `TreeHolds`. The invariant says which
application every entry of pstack is and that the tokens still needed are one for
each (`Waits`, `Counted`), where a link leads and that nothing else does (`Links`, `Ends`), and
that every node but the root is the child of one application, and what lies between
two siblings belongs to the first (`Shaped`).
`GivesTrees` concludes that what is accepted is a tree, children nested in their
parents, which is what the code generator assumes of its input (`AstsAssumption`).

For sources of every length, with read errors anywhere: `LexSound` proves `LexInv` and
`LimitHolds` the limit of the array, of which nothing is assumed but that doubling leads
from its initial to its greatest length (`LensAssumption`). `RunsParser` shows that the
two phases together implement the specification of the parser, so that all its
theorems hold of what `u6ac` runs (`FrontTreesHold`).

That the tokens are those of the recursive definition (`LexesSourceHolds`), and that a
source is refused exactly when it has none (`RefusesRightHolds`), rests on `ReadsInv`: for
every text that begins as the source does as far as it has been read, the reference
gives the tokens read and then what it gives for the rest. It speaks of all these texts and not only of
the source because the lexer sees its end only when it gets there, and after a
read error never. The same invariant therefore says what the lexer takes a truncated
source for. `ReadErrorsShowHolds` then follows from the parser: no program is the
beginning of a longer one, so what is accepted after a read error is the whole program.
The assumption is `SourcesAssumption`: sources are sequences of bytes, and some byte is what
malloc left in a token (`Junk`).

### Code generator (`CodegenProofs`)

For trees of every size (`AstsAssumption`: what `GivesTrees` proves of the parser):
`CodegenSound` proves `CodegenInv`, from which follow `TypeHolds`, `BuffersHold` and
`JumpsHold`. u6a_codegen writes to buffers as long as the tree without looking; they
suffice because the tree has a place for both operands of every application: `Fits`
says that instructions written and pending, with one more for each sa that is pending
(it will bring an la), and likewise the characters of strings with what is pending,
are no more than the operands of the applications so far (`Kids`). For the jumps, `Jumps` and
`Awaits` say that an sa or del without an offset has an la pending that will set it,
and that there is one sa pending fewer than applications to come (`Open`), so that
none is left when the nodes are. `JumpsLand`, that all jumps in the output lead behind an la and all strings
end, is no property of a run, where `TextIsTree` says more.

`TextHolds` is the correctness of the compiler: for every tree, with and without the
optimisation, the text that is written is the code that the recursion over the tree gives, once
strings are written out as the prints they replaced and offsets are taken as distances.
The invariant, `TextSound`, lays what has been generated along the code of the whole
tree. The text stands for the code up to a place (`TextStands`: an instruction stands for
itself, a string for the prints it replaced, an sa or del for one that jumps to where the
la ends that it leads to, or that still waits for it). The pending instructions stand
for the code behind another place (`StackStands`, and `WaitStands` for what each of
them waits for). Between the two places lies the code of the next open application, and
nothing else (`StandsNext`). A node then moves the places: one lemma for each way
u6a_codegen treats one (`PushStands`, `EmitStands`, `LeafAppStands` with the string
optimisation in it, and `DrainStands` for the stack that is emptied behind a leaf),
put together in `NodeStands`. In the end nothing is open and nothing pending, so the text
stands for the whole code (`LastStands`), and `PlainTextIs` computes from this that undoing strings
and offsets gives just that. The optimisation needs `Strings`: a string read back from
its offset ends where it ended when it was written, because what is printed has no
NUL, for which `Token` in `Defs` says that out and cmp carry printable characters, as
the lexer's theorem shows. Offsets need the bound in `AstsAssumption`: a tree has no
more nodes than `U6A_TOKEN_MAX_LEN` and two, so that its offsets and
lengths fit in 32 bits and swapping their bytes twice gives them back.

`DumpTellsHolds`: with `-S`, every line shows the instruction, its operands and the line or byte
it refers to, and the hex dump every byte once, in its column. The sections of a dump are made from
complete buffers, which do not change after that (`Shown`); that names and
operands can be told apart is a finite matter of the mnemonics' tables, that the lines of 16
bytes put together are the data is the lemma `PiecesMeet` on cutting a sequence.

### Drivers (`U6acProofs`, `U6aProofs`)

For `u6ac`, command lines of every length and whatever fails: `DriverSound` proves
`U6acInv` and from it follow `ExitTellsOutputHolds`, `OnlyOutputHolds`, `StdoutPureHolds` and
`NotOwnOutputHolds`. The invariant follows the options to the stream they choose, and
says at each stage which files are open, and what is in them. The assumptions are that
no file has an empty name and that every file that the command line names, or that
is named after the source, is in the file system of the job, if only as "none"
(`WordsAssumption`, `JobsAssumption`); different names are different files.
`RunsGenerator` shows that the driver implements the specification of the generator,
so that in the compiler, whatever its options and whatever fails, buffers and jumps are
right (`CompilerBuffersHold`), dumps tell the program (`CompilerDumpsTell`), and a
program that is written completely is the tree's (`CompilerWritesTree`).

For `u6a`, command lines of every length and every set of files: `DriverSound` proves
`DriverInv`, from which follow `TypeCorrect`, `StartsCompleteHolds`,
`EndsCleanHolds` and `FreesOnceHolds`. The invariant says which blocks are allocated at each label (`Owned`),
and that what was given, read and checked still holds (`Accepted`): after each option the
sizes are the last ones given, and the bytes wanted for the program header, those of the sections and those
left are the file's. Of the file `FilesAssumption` says only that its numbers are of 32
bits and the size of its program header is a byte; of the command line, `ArgsAssumption`, that options
carry natural numbers; `SizesAssumption` orders the limits. `StartsComplete` does not say that the interpreter is
given a proper program header: it says that "uninit" is recorded exactly when it is
not, which a file of the right version can bring about (see Findings).

The invariants `OwnedOK`, `PoolInv`, `ParserInv`, `LexInv`, `CodegenInv`, `U6acInv` and `DriverInv` were checked
with TLC on the configurations of the runs of their modules before they were proved;
they are not properties of the runs, as they imply properties that are. `ReadsInv`
(all texts) and `TextSound` (all ways to lay a text along the code) quantify over too much
for TLC; it checks what follows from them.

### Only model-checked

* The invariants of `Runtime` (`TypeOK`, `Agrees`, `WildHasCause`, `NoDangling`,
  `CountsCover`): its calls run through the frees of `RuntimeHeap`, which are RECURSIVE
  operators, and `Agrees` compares it with `Unlambda`, which is one; the prover does no
  arithmetic in modules that declare or reach these. `VmStackProofs` and `VmPoolProofs` are about the same
  operators, one call at a time.
* `FreeReturns` and `Exits`, which are liveness properties.

## Findings

1. `vm_stack.h:53-60`: `u6a_vm_stack_top` crosses to the segment below without
   uncounting or copying it. If a saved continuation lies on that segment, pops and
   pushes change the continuation, and later frees hit segments in use.
2. `vm_pool.h:153`, `runtime.c:281`: a continuation with one reference becomes
   the active stack while its cell keeps the pointer. If the interpreter's `top`
   held that reference, the next pop frees the active stack (for example in
   ```` ```scii ````).
3. `runtime.c:186`: the offset conversion ends five instructions early, so jumps
   and strings near the end of a program are misloaded.
4. `runtime.c:151`: `-f` never accepts files of another version that u6ac writes.
5. `u6ac.c:57`: `u6ac --syntax-only -o FILE`, which is not to write anything,
   removes FILE when an option is unknown or the source cannot be opened.

Also seen while modelling, without a run of their own: `-V` falls to
`U6A_NOT_REACHED`, since the switch has a case 'v' (`u6a.c:101`; the end of the
behaviour in `VersionOption`); the size of the program header is a byte of the file that
`u6a_runtime_init` only looks at when the version is another one (`runtime.c:103`, `runtime.c:150-157`),
so that a file of the same version with fewer than 8 bytes there is executed with sizes that were
not read (`CheckVersion`; "uninit"), and with more than 8 the fread goes past `header.prog`
(`OverflowHeader`), although `u6a_runtime_info` tells both from a proper file; a size is cut to 32
bits before it is checked, so -s 4294967360 is -s 64 (`u6a.c:37`; `SizeOption`, `Cut`); the double
free after a failed allocation of rodata (`runtime.c:167`; `FreesOnce` shows it is
the only one), the worklist emptied by a nested free (`vm_pool.h:169`; `CountsExact`
of the pool shows that what is lost is exactly that), the segments that `u6a_vm_stack_top` leaves behind
without uncounting them (`vm_stack.h:58`; `CountsExact` and `NoLeak` of the stack show the same), the worklist sized by the
program's length (`vm_pool.c:43`), and accumulator references that are never
dropped (`runtime.c:254` and others), so that counts only grow (`CountsCover` shows
that this is also what covers the references acc borrows without counting them).
In the compiler: the same removal takes a file that was never opened without
`--syntax-only` too, and `-v -o -`, which is refused, removes a file of the name `-`
(`u6ac.c:54`; `NoOutput`, `Terminate`); a source that is its own output is emptied,
refused and removed (`NotOwnOutput` shows it is never reported as compiled); what
fclose cannot write is lost with exit code 0 (`u6ac.c:55`; `Flushed`); two mallocs
are used without a check (`u6ac.c:160`, `dump.c:116`; `NameNoMemory`, `DumpNoMemory`);
the manual (`u6ac.1`) has `--output` where the code has `--out-file` (`u6ac.c:65`).

## Not modelled

Diagnostics beyond which of them go to stdout, what `u6a -i` prints, the padding inside the lines of a
dump, and build files: they have no behaviour to check. In `U6ac`, lengths of paths
(a path that is too long is one of the ways a file cannot be opened) and the bytes
of a prefix; a prefix with the magic byte 0xDC would mislead the loader.
Termination of `u6ac` is not stated: its loops run over options, characters,
tokens and nodes one by one, and a step that could not go on would be a deadlock.
Wrap-around of reference counts at 2^32: the counts are integers, and the runs cut
programs whose counts pass a bound. The contents of memory after undefined behaviour:
a model stops at the first wild access. Invalid bytecode, and the instructions `-f`
skips: only what the compiler generates is run.

## Plan

What is left to prove is `RuntimeHeap` as a refinement, each of its calls against the
steps of `VmStack` and `VmPool`.
