# A TLA+ model of niki_asm

niki_asm is a small tool chain in C: `nas` assembles a text file into an object
file; `nas_run` links object files, places them in memory after a script and
runs them on an emulated processor.  These modules model the whole chain: the
line parser, the assembler and its encoder, the linker, the script and the
loader, the processor, and both programs working on the same files.  TLC checks
them on small instances.  TLAPS proves, for files, programs and command lines of every
size, that the parser makes up nothing, that the two passes of the assembler agree,
that its verdict, its objects and the words of its instructions are right, that the
linker and the loader are correct, and what the processor does to its stack.

## 1. Inventory

| component | code | state | operations |
|---|---|---|---|
| line parser | `parser/parser.c`, `parser/string_util.c` | an array of parsed lines | `read_label`, `read_directive`, `read_instruction`, classification in `parse_file` |
| assembler | `nas/nas.c`, `nas/as.c` | current section, one location counter per section, size of the last item, symbol and relocation tables, one buffer per section | first pass, sizing of buffers, second pass, output |
| instruction encoder | `nas/as.c`, `nas/instruction.h` | none | mnemonic and condition, operands, bit fields, relocation of a symbol operand |
| symbol table | `nas/symbol.c` | a linked list of entries | add, forced add, look up by index and name, dump, reload, resolve globals |
| relocation table | `nas/reloc.c` | a linked list of index and offset | add, dump, reload |
| object file | end of `nas/nas.c`, `nas_run/nas_util.c` | header, data, text, symbols, relocations | write, load |
| linker | `nas_run/nas_run.c` 72-185, 276-277 | merged sections, tables, offsets | load, merge, resolve |
| linker script | `nas_run/nas_run.c` 187-274, `parse_script`, script globals of `emulator.c` | location `.`, script globals, section starts | section, expression, align |
| loader | `nas_run/nas_run.c` 279-383 | memory, program counter | copy, entry point, patch relocations, boot |
| machine | `nas_run/nas_run.c` 385-628 | registers, status word, memory, last comparison, clock | fetch, timer interrupt, condition, instructions |
| command line, files, build | `main` of both programs, `CMakeLists.txt`, `Makefile` | files | open, write, read |

How they interact.  `nas` runs the parser, then the two passes in one process;
the passes share the lines (the first pass writes labels into them), the symbol
table and, in effect, the buffer sizes.  `nas_run` sees only the object files.
It loads all of them, merges them, reads the script, resolves globals, copies
and patches memory, and runs.  All of it is sequential; the only asynchronous
event is the machine's timer, which reads the wall clock once per instruction.

What is hard here.

* The two passes compute the same layout twice, by different code, and the
  second copies into buffers of the first one's sizes without a check.
* State outlives a loop round (`size`), or is handed to the next (the label of
  a label-only line), and some rounds are cut short.
* Indexes and offsets are handed from table to table: assembler, file, merged
  table.  Each step renumbers or moves them.
* Resolution changes the table while walking it, in the order of the files.
* Undefined behaviour: an uninitialised instruction for an unknown mnemonic,
  the null head of an empty list, bss blocks of no bytes.
* An interrupt between the fetch and the execution of an instruction, with one
  link register for calls and interrupts.
* Unchecked placement in a memory of 5000 bytes, at places a script chose, and
  address arithmetic that differs between data and bss.
* Outputs that are emptied before their source is read, and errors that end
  with the exit status of success, so that a failed step is not noticed.

What makes each component correct.

* Assembler: a program is refused exactly when it has a fault; the passes agree
  on section and counters at every line, buffers are filled exactly, labels and
  relocations lie where items were emitted, scopes are those declared.
* Symbol table: indexes are stable and lookups find an entry that exists.
* Object file: loading gives back what was written.
* Linker: merged sections lie end to end within their buffers, symbols and
  relocations move with their section, all users of a global agree on its
  definition, and rival definitions are refused.
* Script: sections do not overlap when the script orders them, align yields a
  multiple.
* Loader: a patched operand is the symbol's value or address, the boot routine
  goes to `main`.
* Encoder: the processor finds in a word what the line named, whatever the bits
  were before.
* Machine: an interrupt is invisible to the interrupted program and served once;
  the stack spares the program.
* Parser: a line is understood as it was written, and nothing is made up.
* Both programs together: what is linked is what the latest sources say.

`PROJECT.json` lists the hazards line by line.

## 2. Modules

| module | models | built on |
|---|---|---|
| `Word` | 32-bit words and signed bit fields | |
| `SymbolTable` | `nas/symbol.c`: a table is a sequence of entries; operators for each operation | |
| `ObjectFile` | the image `nas` writes, the context `nas_run` loads; `WellFormed` is the contract between the two programs | `SymbolTable` |
| `Parser` | `parse_file` and its readers | |
| `Assembler` | the two passes of `nas/nas.c`, one action per kind of line | `ObjectFile` |
| `Instruction` | the formats of `nas/instruction.h`, mnemonics, operands, `ldc` | `Word` |
| `Encoder` | one instruction line from text to words | `Instruction` |
| `Linker` | load, merge, `symtable_resolve_globals` | `ObjectFile` |
| `Script` | the linker script: location, expressions, align, sections | `Word` |
| `Loader` | copy, entry point, relocations, boot | `Script`, `SymbolTable` |
| `Machine` | the loop of the processor | `Instruction` |
| `Toolchain` | runs of `nas` on several files, then a link | `AssemblerProperties`, an instance of `Linker` |
| `Layout`, `Binding` | abstract specifications: what the two passes promise together, what a link promises of global names | |
| `...Properties` | the properties of a module, and claims of comments | the module |
| `MC...` | instances for TLC | the properties |
| `WordProofs`, `SymbolTableProofs` | lemmas about words, tables and numbers that the other proofs share | `Word`, `SymbolTable` |
| `ParserProofs`, `EncoderProofs`, `AssemblerProofs`, `LinkerProofs`, `LoaderProofs`, `MachineProofs` | theorems | the module and its properties |

State and actions keep the names of the code.  The operators named `Bug...`
are not part of the model.  Each is the definition after it with a plausible
slip, and is used to confirm that a property notices that slip.

**Parser.**  Each reader (`read_label`, `read_directive`, `read_instruction`)
walks over the line with a vector of character tests and steps back in it at a
coma; one action is one round of its loop.  A line is a sequence of pieces: runs
of letters, digits or blanks, which the tests cannot look into, and single
characters.

**Assembler.**  `program_lines`, `i`, `current_section`, `location_counter`,
`size`, `symtable`, `reloctable` and `binary_buffer` are the variables of
`main`; `buffer_size` is what each `malloc` was asked for.  `phase` is the
position in `main`.  A line is what the parser leaves in `line_content_t`, with
its name as written; the text of an operand is reduced to a name and the class
`read_argument` gives it.  Instructions that `get_instruction` treats alike are
one group.  A buffer is a sequence of chunks: which line emitted how many bytes
at which offset; the bytes themselves are left out.  The actions are the cases
of the two `switch` statements, each with the tail of the loop (`FinishRound`:
bind the label, then reserve the second word of `ldc`).  All error exits of a
pass form one action, since the process ends with them.  An unknown mnemonic
leaves `instruction` uninitialised, so `EncodeInstruction` chooses its group
freely (`Decoded`).  `mark` is an auxiliary variable: the section and counters
before each line of the first pass.  No action reads it.

`AssemblerProperties` maps this state to module `Layout`: the
marks are the plan, the chunks are what is written.  `ImplementsLayout` says
that the first pass only plans, the second writes every planned slot once and as
planned, and an object exists only when all are written.

**Symbol table.**  Indexes are positions: every entry but the head gets its
predecessor's index plus one, so `table[k + 1]` is the entry of index `k` and
the index is not stored.  The list is searched from its second element when a
name is added, as in the code.

**Object file.**  `MakeObject` computes the header from the final counters;
`LoadContext` gets every length as a difference of header words and reloads the
symbols by unforced additions.  `WellFormed` is checked of every object the
assembler writes (`ObjectWellFormed`) and assumed of every object the linker
reads (`InputsAssumption`).

**Linker.**  `LoadFile` and `MergeFile` are rounds of the two file loops,
`Allocate` the allocation between them, and one action is one entry of the outer
loop of `symtable_resolve_globals`.  A merged section is a sequence of pieces,
each the section of one file; file 0 is the end instruction.  Three outcomes
exist beside "linked" and "failed": a null head read for an empty relocation
table, the same for an empty merged symbol table, and bss copies out of and into
blocks that `calloc(0, n)` left without bytes.  They are the phase "crashed";
the bss copy may also do no visible harm.  An index that falls below zero is a
huge `uint32_t` in the code; both are the index of no entry.

Module `Binding` is the link without files, tables or walks: objects lay claims
to names and import names, then names are bound one after the other, each with
all its imports at once and for good; the link succeeds when none is left out
and is refused only over a name with two claims.  `ImplementsBinding` maps the
merged table to it.

**Instruction, Encoder.**  An instruction is a record of its bit fields, each
known by how many values it holds.  The union of the code starts uninitialised,
and so does the record: the bits that no step writes are chosen freely.
`Readings` is the search of `read_operation` for mnemonic, flag and condition;
`WithOperands` puts the arguments into the fields of the operation's format.
`OperandsSurvive` is read from the other side: `Signature` says which field the
processor takes each argument from, `WellFormed` that the fields can hold them, and
`Carries` that they do.  It speaks of every operation but the software interrupt,
whose operand the encoder loses, and takes the registers up to `r11` for registers, as
the encoder does.  `LinesCompiled`, which has a run of its own, says what the code does
not keep: that the operand of an interrupt, all the documented registers and the
direction of the mnemonic are in the word too.

**Script, Loader.**  A script line is the sequence of its lexemes, and
`ReadScriptLine` is what `parse_script` makes of it.  The loader's actions are
the steps of `main`: the copies, the search for `main`, one action per
relocation, the boot routine.  A byte of memory is known by where it came from
(byte `k` of a section), so that a property can say which item an address holds.
A number that the loader reads for an operand is the sequence of its bytes, and the
bit field it is assigned to keeps its low bits one by one (`Kept`): 18 bits, 10, 19 or
5 after the operation, with the sign repeated above a shorter datum.  The order of
bytes is that of a little-endian host.
A copy out of bounds, or out of a bss block of no bytes, ends in the stage
"undefined"; a null head or a missing script global in "crashed".

**Machine.**  One action is one round of the loop: fetch, clock, condition,
execution.  The clock may tick at any instruction whose program enabled it.  A
round that leaves the picture (a fetch of data, an instruction loaded as a number, an
address of no word) ends in the stage "wild", a division by zero in "crashed".
`entered`, `returned` and `disturbed` are auxiliary: which routines were entered and not left, what the
last return restored, and whether an interrupt hit a jump or a routine;
`unmatched` counts the returns with no routine entered, like that of the boot
routine to `main`.  With them `StackSparesProgram` is an exact account: in a program
that leaves the stack to calls, interrupts and returns (`Balanced`), the stack
pointer is one word per entered routine above the stack's start less one word per
such return, and memory below the lowest start is as loaded.  `&` and `|` are written out
bit by bit (`BitAnd`), so that the module can be reasoned about.

**Toolchain.**  `Assembler` runs on one set of variables and an instance of
`Linker` on another; between them lies only the disk.  `StartAssembler` empties
the output before the first line is read, and a failed run leaves it empty; a run
that finds no source ends before that and leaves the old object (`MissSource`).
`latest` remembers the source each object should come from; no action reads it.

## 3. Runs

| run | checks | result |
|---|---|---|
| `Assembler.cfg` | `TypeOK`, `PassesAgree`, `ExactSizes`, `ObjectReadsBack`, `ObjectWellFormed`, `LabelsAddressItems`, `RelocsMatchOperands`, `VerdictMatchesProgram`, `GlobalsAreDeclared`, `ImplementsLayout`, `IndexesStable`, `Termination` | hold, about 652 000 states |
| `Linker.cfg` | `TypeOK`, `SectionsFit`, `SymbolsFollowSections`, `RelocsFollowText`, `LinkVerdict`, `GlobalsAgree`, `Termination`, `ImplementsBinding` | hold, 34 539 states |
| `Loader.cfg` | `TypeOK`, `SectionsIntact`, `AlignedSections`, `OperandsReachItems`, `BootReachesMain` | hold, 115 753 states |
| `Encoder.cfg` | `OperandsSurvive`, `ConstantsWhole` | hold, 118 690 states |
| `Machine.cfg` | `TypeOK`, `StackSparesProgram`, `InterruptsServed` | hold, 3 152 states |
| `Parser.cfg` | `LinesUnderstood`, `NothingInvented`, `Termination` | hold, 213 774 states |
| `Toolchain.cfg` | `LinkedFromSources`, `OperandsReachDefinitions` | hold, 3 030 states |
| `AssemblerUniqueNames.cfg` | `NamesUnique` | violated |
| `AssemblerLabelsDefined.cfg` | `LabelsDefined` | violated |
| `LinkerRelocations.cfg` | `RelocsKeepTarget` | violated |
| `MachineStatus.cfg` | `StatusRestored` | violated |
| `EncoderLines.cfg` | `LinesCompiled` | violated |

*Bounds of the assembler runs.*  `MaxLines = 4`: every program of up to three
lines from one of two menus before `.end`, and every one of four lines after `.text`.
The state that one line hands to later ones is small (section, counter, size, a
carried label), so chains of four lines reach each combination: a label line, a
blank line, an item, a switch of sections and a use.  The layout menu has the
sections, items of different sizes, `ldc`, blank and label lines, a second label
`text`, which the reload has to take like any other, and symbol operands in each
position; negative and positive `.skip`.  The symbol menu has definitions, externs,
exports by `.public` and lines of `.global`, a negative `.skip`, forward references,
the names of sections as labels, unknown directives and mnemonics.  Equal programs of more lines add
repetition only; for the passes and the indexes the proofs remove the bound.

*Bounds of the linker run.*  `MaxFiles = 3`: one or two objects of a menu of 55,
or three of 8.  Objects have up to two symbols of their own, in both orders:
functions and data, global and local, externs, items of no size, bss, labels
outside a section; no relocation, one to a section symbol, or one to each own
symbol.  Two files suffice for a conflict, the third shows that offsets go on
accumulating and that an extern between two definitions is seen by both.  The
proofs remove this bound for every invariant of the run.

*Bounds of the loader run.*  `Half = 256` makes words of 16 bits, and `MemorySize =
64` a memory that three sections and the boot routine fill with gaps to spare, or
overrun.  Scripts have up to `MaxScript = 5` lines of a menu, so each section is
placed in each order, twice or not at all, with an alignment or a gap between
any two, and one or two odd lines before or after.  Eleven
scripts start so far up that the 32 bits of the location (16 here) wrap.
Contexts have each opcode group with each kind of target, and data of one, two and
four bytes, narrower and wider than the fields of five to eighteen bits; `IvtEntries = 2`
vectors lie before the sections.  The proofs remove the bound on scripts,
contexts and memory.

*Bounds of the encoder run.*  Every mnemonic, bare and with a condition, with
every pair of eleven arguments, and longer lists where an operation reads them.
`Half = 16` makes words of eight bits, so that a constant meets every old value of
its register; the nine constants are those at which a half turns negative, and
the limits.  Lines take four steps and end, so the
deadlock check is off in the runs of the encoder, and only there.

*Bounds of the machine run.*  `Half = 256`, words of 16 bits, whose limits `ldc`
reaches.  Fifteen programs, which between
them execute every operation, among them the recursive factorial of the
examples.  `MaxTicks = 3` interrupts at any instructions: two can be nested and a
third follow.  `StackWords = 12` words of stack are enough for the deepest
recursion of the programs; `Garbage` is what they held before, zero or the timer
bit of the status word.  Ports are `0 .. IoSize - 1 = 0 .. 3`.

*Bounds of the parser run.*  Every well written line of a menu of contents (up to
three arguments of three kinds, and some lists of four) in each of twelve styles,
every line of up to `MaxPieces = 4` pieces of eight classes, with and without
its newline, and files of none, two and three lines against
`ProgramLinesLength = 2`, so that the array is filled and overrun.  The readers
never look back more than one piece, and four pieces hold a label, a dot and a
name in any order.

*Bounds of the tool chain run.*  Two files, nine programs, up to `MaxRuns = 3`
runs of `nas`: one of the files is compiled twice, with a failure before or after.

*Exceptions.* The code keeps several of these properties only for programs that stay
away from a defect, and then the property says so: scripts that place all sections and
only move `.` forward within the 32 bits of an address (`Orderly`; where the location
wraps sections do overwrite each other), programs that touch the stack only by saved
calls, interrupts and returns (`Balanced`), runs in which no interrupt hits a jump or
a routine (`disturbed`), operands of symbols in `data`, every operation but the
software interrupt and the registers up to `r11`, lines with no blank before a coma
and none that ends a file without a newline, labels of one instruction for `main`. The
comment of each property names what happens otherwise.

*Violations.*  A comment and the code disagree:

* `nas/symbol.h:66` says that an addition fails if the symbol exists.  The head
  is never compared, so a label `text` gets a second entry.
* `nas/nas.c:86` says that after the first pass all definitions are known.  A
  label on a line of its own before `.end` is handed to the `.end` line, where
  the loop stops: the label is lost without a message.
* `nas_run/nas_run.c:154` says that the merge updates relocation indexes.  From
  the second file on the new index counts the file's own symbols too and takes
  off three per file, so it is the right one only for a file with 3*(f-1)
  symbols of its own.
* `nas_run/nas_run.c:571` says that a return takes the status from the stack.
  The stack pointer goes down only after the word was read, so the return gets
  the word above the one that the call pushed.
* `nas/nas.c:171` says that each instruction is compiled.  `LinesCompiled` fails in three
  ways; the run stops at the first, and each fails by itself too.  `nas/as.c:299` says
  that registers are `r0` to `r15`, but from `r12` on the reader returns an error that
  `get_instruction` ignores, and the operand is what was in memory
  (`RegistersCompiled`).  `nas/as.c:61` puts the type of the argument of `int` into the
  instruction instead of its value, so each `int n` is an `int 0`
  (`InterruptCompiled`).  `nas/as.c:250` says that the bit tells loads from stores, but
  the test asks whether `ldr` begins with the whole mnemonic, not the other way round,
  so a load with a condition becomes a store (`DirectionCompiled`).

Two more disagreements are modelled but have no run of their own: a property that holds
could only repeat the code.  `.global` is listed as a supported directive
(`nas/as.h:11`, `:16`) and is in no case of either pass: such a line is accepted and its
names stay local.  And the operand of a symbol in `bss` is read where its item ends
(`nas_run/nas_run.c:322`), the last one behind the section, while an operand in `data`
is read where its item begins; so `OperandsReachItems` speaks of `data` only.

*Fairness.*  `FairSpec` of a module adds `WF_vars(Next)`, that of `Parser`
`WF_vars(Parse)`, which is all its steps: each program is one sequential process
that the operating system lets run.  Nothing is assumed of any single action;
`Termination` follows because every loop makes progress.  The processor is not
claimed to stop.  `Exited` stutters when a process has ended, so deadlock stays
checked: one would mean a state of the running program that no action covers.

## 4. Proofs

The theorems hold for every set of names, every set of programs that satisfies
`ProgramsAssumption` (lines are well typed, the section names are names, a
program has a line named `end`) and every set of command lines that satisfies
`InputsAssumption` (at least one object, each `WellFormed`).  `WellFormed` is no
wish: that every object the assembler writes is well formed is a theorem too
(`ObjectWellFormedAlways`).  The loader's theorems hold for every script, memory and
vector table, and for every linked context that satisfies `CommandsAssumption`; the
machine's for every loaded memory that satisfies `ImagesAssumption`, every set of
input characters and every number of interrupts; the parser's for every set of files
that satisfies `FilesAssumption`; the encoder's for every set of lines that
satisfies `LinesAssumption`.  The width of a word is a parameter throughout (`Half`,
the square root of the number of words, is even and at least 4).

*Symbol table* (`SymbolTableProofs`).

* `IndexOfNameFindsEntry`, `AdditionKeepsIndexes`, `AdditionKeepsTailUnique`:
  facts about tables of any length.  The first rests on a least-element lemma
  drawn from the well-foundedness of the natural numbers.
* `ReloadFaithful`: reading a dumped table back changes nothing, if no two
  entries behind the head share a name.  `Reload` is a recursive function; the
  proof takes the set of lengths up to which it is right and shows that it has no
  least missing member (`UpTo`), which needs no induction scheme.

*Assembler* (`AssemblerProofs`).

* `TypeCorrect`: `TypeOK` and `EndAhead` (both loops have an `.end` ahead, so
  the label handed to the next line is within the program).  The two are proved
  together because neither is inductive without the other.
* `PassesAgreeAlways`: the inductive invariant `PassesAgree`.  That the second
  pass stays within the buffers is not inductive: it depends on the first pass,
  which is over by then.  `mark` remembers it.  `MarksFollowLines` says that
  from mark to mark the place advances by what the line between them means
  (`Advance`), `FirstPassAhead` that counters only grow, `SecondPassOnMarks`
  that the second pass stands on the mark of its line and that the buffers have
  the counters of the last mark.  Since handing a label on changes no line's
  shape (`AdvanceByShape`), a line advances the second pass as it did the first.
* `NoOverrun` and `SizesExact` follow from the invariant.
* `IndexesStableAlways`: no step moves, drops or alters an entry of the symbol
  table but for its scope.

*Linker* (`LinkerProofs`).  The invariant has five parts, each needed by the next:

* `TypeOK` and `Loaded`: every context is that of the file at its place; by
  `ReloadFaithful` it is the whole of what `nas` wrote (`LoadedWhole`).
* `Summed`: while files are loaded their lengths add up; this is what is
  allocated later.
* `Laid`: the pieces of a merged section lie at the sums of the lengths before
  them, plus the end instruction behind the first text; `SectionsFitAlways`
  follows, since sums grow.
* `Traced`: the merged table is that of the files' symbols, each moved to the
  place of its section, and resolution has changed nothing of it but that an
  import became a copy of a definition the walk has passed (`Filled`), and for
  every passed definition all its namesakes agree (`Settled`).  An invariant
  about the table alone would not do: whether two entries in conflict are from
  two files, and not copies, is known only by the table before the walk.

`LinkerCorrect` is this invariant.  From it follow `SymbolsFollowSectionsAlways`,
`GlobalsAgreeAlways` and `LinkVerdictAlways`: a link that succeeds has no two
items of a size behind one name, because items of different files cannot
coincide (`ItemsApart`), and one that fails has two files that define a name
(`ConflictOriginal`).  `RelocsFollowTextAlways` adds the same for relocations.
`ContextSoundAlways` turns to the loader: whatever the merge and the resolution did
to it, a symbol's item lies within its merged section, and merged relocations
follow the order of the text.

*Layout* (`AssemblerProofs`).  `LayoutImplemented` is the refinement
`ImplementsLayout` as a theorem.  `PassesAgree` gives the places of the slots;
what has to be added is `WrittenAsPlanned`: at every line of the second pass the
slots written are those planned for earlier lines, no more and no fewer.  A slot
carries its line, so the slot of the line at hand cannot have been written yet.

*Object* (`AssemblerProofs`).  The invariant `ObjectSound` keeps `WellFormed` true of
what is still being made: of the table while it grows, against the counters in
the first pass and the buffer sizes in the second (`TableSound`; a blank line
reuses the size of an earlier item, hence `SizeWithinSection`), of the chunks
(`ChunksTiled`) and of the relocations (`RelocsSound`, which needs that every
instruction the second pass meets stood in `text` in the first: `CodeInText`).

* `ObjectWellFormedAlways`: every object written is `WellFormed`, so the
  assumption the linker's theorems make of an object is a theorem about the
  assembler.
* `ObjectReadsBackAlways`: by `ReloadFaithful` the loader has what the assembler
  had.
* `LabelsAddressItemsAlways`: a chunk has a planned slot, its slot a mark, and
  `LabelsPlaced` puts the label's symbol at that mark.

*Verdict* (`AssemblerProofs`).  What an object contains is compared with the text of
the program, which no pass reads as a whole.

* `RelocsMatchOperandsAlways` and `GlobalsAreDeclaredAlways` each carry their
  property through the second pass: the table matches the chunks so far
  (`Matched`), the global scopes follow from the externs and the `.public` lines
  passed (`ScopesFollow`).  That an index keeps its meaning while scopes change
  is the lemma `Rescoped...`.
* `VerdictMatchesProgramAlways` rests on `LinesAccepted`: no line passed has a
  fault that the first pass knows, the section is that of the last switch, and
  the table knows exactly the names that earlier lines introduce (`Taken`).  The
  faults are read off lines that the first pass goes on changing, since it hands
  labels on; `PrefixDecides` shows that this does not reach the lines passed.
  `ClashRedefines` and `RedefinesClash` show that a name the code refuses is one
  the text introduces twice.

*Binding* (`LinkerProofs`).  `BindingImplemented` is the refinement
`ImplementsBinding` as a theorem.  By `Traced` every claim is that of an entry as
it was merged, so claims do not depend on how far the walk has come
(`ClaimsStay`); an entry that finds no conflict has the one claim of its name
(`OneClaim`) and binds all imports of it (`BindingGrows`), and by `Settled`
nothing is left unbound when the walk ends (`EndLinks`).

*Loading* (`LoaderProofs`).  `CommandsAssumption` says what the linker leaves:
symbols with their items in their merged sections, at most one relocation for an
instruction.  That everything the linker makes of well formed objects is like
this is the theorem `ContextSoundAlways`, and that the assembler's objects are
well formed `ObjectWellFormedAlways`: what each module assumes is proved of the one
before it.  The assumption also says that memory
has at most 2^18 bytes (`MAX_USER_MEMORY` is less), so that the field of a call
holds every address.  The invariant `LoadInv` adds to the type invariant:

* `Given`: nothing changes the script, the context or the sizes.
* `PlacementInv`: only a script run to its end is loaded, and under an orderly
  script (`Ahead`) every section placed so far lies between the vectors and `.`,
  apart from the others, and `.` is at most what the lines so far can add up to
  (`Reach`).  Without that bound `.` could wrap, and
  `Ahead` is not inductive; the attempt to prove it without is how it was found
  that `SectionsIntact` and `AlignedSections` have to speak of the range of an
  address.
* `ImageInv`: the copies were within memory and every section is whole, the entry
  point was found in the text.
* `OperandsInv`: the operands patched so far reach their items, bit by bit as far as
  the field goes (`BitsReach`): the bytes of a datum in `data` are the bytes of its
  item in the placed section.  The relocations have distinct offsets, or a later one
  would undo an earlier one.  Numbers in `bss` are outside, since the code reads them
  elsewhere.
* `AlignInv`: what each alignment between two placements has done.

`TypeCorrect`, `SectionsAlwaysIntact`, `AlignedSectionsAlways`,
`OperandsAlwaysReachItems` and `BootAlwaysReachesMain` follow.  The sums that
expressions and `Reach` are made of are recursive functions; `Iterated` gives their
equations, and `UpTo`, the lemma of the symbol table, facts about every length.

*Parser* (`ParserProofs`).  `NothingMadeUp` is the property `NothingInvented` for every
file.  The property searches each token greedily in the line; the invariant
`ParserInv` does not follow a search, it keeps places: `Placed` says that there are
borders between which the tokens lie, in order and below a limit.  While a reader is
on its way the limit is where its last test began (`last_test_position`), so that
the token copied next lies behind it.

* `PlacedFound`: tokens that can be placed are found by the greedy search, since the
  earliest end of one token leaves the most room for the next.
* `LabelRead`, `Labelled`, `DirectiveRead`, `InstructionRead` say what each reader
  finds when it begins and keeps until it ends.  `InstructionRead` has two cases: a
  reader after a directive passes over the line again with the directive's row in its
  hands (`Held`), and there it can only fail or stand still before the dot
  (`HeldStands`); this is why no line is both.
* `CutAtDot`: a section directive cuts its line in place.  What is left has no newline
  and begins with the dot, or is nothing, so the instruction reader fails on it.

*Encoder* (`EncoderProofs`).  `EncoderInv` follows a line through its four steps: the
opcode is that of a reading, the word carries the operands once they are read, and
nothing is changed when it is written.  Two theorems follow.

* `OperandsReachProcessor`: each format by itself (`ArithmeticCarried`,
  `LoadOrStoreCarried`, `MoveCarried`, ...).  What all share is that an argument a
  field holds is read back from it as it was (`HeldOperand`), whatever its old bits.
  It is about every operation but the software interrupt.
* `ConstantsReachProcessor`: the two signed halves of a constant, put together again
  modulo the number of words, are the constant (`HalvesMakeWord`).  It needs that
  the number fits a word; a larger one is cut, as by `atoi`.

*Machine* (`MachineProofs`).  `MachineInv` adds to `TypeOK` that the store is sound
(`SoundStore`): each word of memory was loaded or is a number, and in a balanced
program the stack is where the account says and nothing is written below it.
None of this is inductive alone: a push is known to spare the program only by the
account, the account moves as it should only because the instruction executed is one
of the balanced program, and that it is one is known only because no word of memory
became an instruction.  The proof goes by stores, not by
actions: `SetSound`, `PushSound` and `PopSound` say what one register, one push
and one pop do to a sound store, `InterruptedSound` what an interrupt between the
fetch and the execution does, and every operation is made of these.

* `TypeCorrect`: results fit a word.  The recursive functions behind `and`, `or` and
  the shifts have values by `UpTo` (`BitAndIsNumber`, `PowersAreNumbers`).
* `StackAccounted`: `StackSparesProgram` for every balanced program and with
  interrupts anywhere, in routines and jumps too.  The attempt to prove the earlier,
  weaker form, which excepted them, is how the account was found: the stack is off
  by a word exactly for each return with no routine to leave.

Only model-checked:

* termination, and everything else under fairness: out of the prover's reach;
* `LinesUnderstood`: lines are rendered from their contents by operators that
  flatten sequences, defined by recursion over data;
* `InterruptsServed`: it compares a run with the results declared for the program,
  which holds only of programs whose results are declared right;
* `LinkedFromSources` and `OperandsReachDefinitions` of `Toolchain`: a failed run of
  `nas` leaves an empty file, which is not `WellFormed`, so the theorems about the
  linker do not apply to its instance as they stand.

## 5. Not modelled

* Option parsing, the text of messages, the build files.
* The characters of names and numbers: names longer than their 31 or 63 bytes,
  how digits become a number.  The parser model keeps where tokens begin and end.
* Programs that treat code as data or data as code.  The processor executes and copies
  any word; the model knows a word either as an instruction or as a number and stops
  (stage "wild") where one is used as the other, so no property of `Machine` speaks of
  runs beyond that point.
* What a fifth argument overwrites: the parser writes behind the line's content,
  and the model stops there (stage "overrun").
* Programs without `.end`, whose loops read lines that were never written.
* Location counters that wrap at 2^32: programs have at most as many lines as
  the array holds, and only a `.skip` of a gigantic size gets there.
* `on_key_pressed` and `kbhit` of `emulator.c`, which nothing calls, and what the
  terminal shows.
* `reloc_table_add` leaves the `next` field of a new node unset.  Neither
  program frees a block before its tables are built, so the allocator returns
  fresh zeroed memory, and the list ends there; the model relies on it.
* The array of parsed lines is not cleared before it is filled.  It is far
  larger than anything that ran on the stack before, so fields the parser does
  not write are zero; the model takes them to be empty.

## 6. Plan

What remains:

1. `Toolchain`: the two properties of the whole chain as theorems.  The invariants of
   `LinkerProofs` have to be stated for inputs of which some are empty files: such a
   file stops the link (`CrashInMerge`) before any table is read that could be wrong.
2. A machine that runs what the loader left.  `ImagesAssumption` is weak enough for
   every image of the loader, but the link between `Loader`, which knows bytes by
   where they came from, and `Machine`, which knows them by what they mean, is the
   encoder's words and is not composed.
