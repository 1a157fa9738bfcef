------------------------ MODULE AssemblerProperties ------------------------
(***************************************************************************)
(* What makes the assembler correct, and the inductive invariant that      *)
(* explains why its two passes agree.                                      *)
(***************************************************************************)
EXTENDS Assembler

\* The second pass never copies past the end of a buffer whose length the
\* first pass computed on its own: the unchecked memcpy calls of nas.c.
WithinBuffers ==
    \A s \in Sections : \A k \in DOMAIN binary_buffer[s] :
        binary_buffer[s][k].at + binary_buffer[s][k].size <= buffer_size[s]

\* "After first iteration we will get [...] exact sizes of each section"
\* (nas.c:86): the second pass fills every buffer to its last byte.
ExactSizes == phase = "done" => location_counter = buffer_size

\* The loader gets back from the image what the assembler had: the lengths
\* it derives from the header fit the contents, and reloading the symbol
\* table, which renumbers it and drops refused entries, changes nothing.
ObjectReadsBack ==
    phase = "done" =>
        LET context == LoadContext(object)
        IN  /\ Tiled(context.data, context.data_size)
            /\ Tiled(context.text, context.text_size)
            /\ context.bss_size = buffer_size.bss
            /\ context.symtable = symtable
            /\ context.reloctable = reloctable

\* Every object written keeps the promise that the linker relies on: symbols
\* have their item within their section, even where a blank line gave the
\* label the size of an earlier item, and relocations stay within the text.
ObjectWellFormed == phase = "done" => WellFormed(object)

\* The address a label stands for is where its item was emitted.  Linker
\* and loader compute that address as offset minus size; the first pass set
\* both, the second pass placed the item.
LabelsAddressItems ==
    \A s \in Sections : \A k \in DOMAIN binary_buffer[s] :
        LET chunk == binary_buffer[s][k]
            label == program_lines[chunk.line].label
        IN  label # NoName =>
              \E symbol \in {symtable[n] : n \in DOMAIN symtable} :
                  /\ symbol.name = label
                  /\ symbol.section = s
                  /\ symbol.offset - symbol.size = chunk.at

\* The relocation table has exactly one entry for each emitted instruction
\* whose symbol operand is defined: at that instruction's place, with the
\* index of a symbol of the operand's name, in the order of emission.
Relocates(chunk) ==
    LET line == program_lines[chunk.line]
    IN  /\ NamesSymbol(line, chunk.group)
        /\ Defined(symtable, SymbolOperand(line, chunk.group))

Patches(reloc, chunk) ==
    /\ reloc.offset = chunk.at
    /\ HasIndex(symtable, reloc.index)
    /\ SymbolAt(symtable, reloc.index).name =
          SymbolOperand(program_lines[chunk.line], chunk.group)

RelocsMatchOperands ==
    LET text == binary_buffer["text"]
        wanted == {n \in DOMAIN text : Relocates(text[n])}
    IN  /\ \A n \in wanted : \E k \in DOMAIN reloctable : Patches(reloctable[k], text[n])
        /\ \A k \in DOMAIN reloctable : \E n \in wanted : Patches(reloctable[k], text[n])
        /\ \A k \in DOMAIN reloctable : \A j \in 1 .. k - 1 :
              reloctable[j].offset < reloctable[k].offset

EndLine == CHOOSE k \in DOMAIN program_lines :
              /\ program_lines[k].name = "end"
              /\ \A j \in 1 .. k - 1 : program_lines[j].name # "end"
Compiled == 1 .. EndLine - 1

IsDirective(k, name) ==
    program_lines[k].kind = "directive" /\ program_lines[k].name = name

\* What the program text declares, read off without any pass: the pairs
\* <<line, slot>> that introduce a name.  Slot 0 is the label of the line.
Introduced(k, slot) ==
    IF slot = 0 THEN program_lines[k].label ELSE program_lines[k].args[slot].name
Introductions ==
    {<<k, 0>> : k \in {n \in Compiled : /\ program_lines[n].kind # "label"
                                      /\ program_lines[n].label # NoName}}
    \cup UNION {{<<k, slot>> : slot \in DOMAIN program_lines[k].args} :
                    k \in {n \in Compiled : IsDirective(n, "extern")}}
NamesIntroduced == {Introduced(x[1], x[2]) : x \in Introductions}

SectionAt(k) ==
    LET switches == {j \in 1 .. k - 1 : \E s \in SectionNames : IsDirective(j, s)}
    IN  IF switches = {} THEN "none"
        ELSE program_lines[CHOOSE j \in switches : \A n \in switches : n <= j].name

\* The faults a line can have.  "text" heads the symbol table, so a program
\* may introduce that name once more; "bss" and "data" are taken.
Redefines(k) ==
    \E x \in Introductions :
        /\ x[1] = k
        /\ \/ Introduced(x[1], x[2]) \in {"bss", "data"}
           \/ \E y \in Introductions \ {x} :
                 y[1] <= k /\ Introduced(y[1], y[2]) = Introduced(x[1], x[2])

Faulty(k) ==
    LET line == program_lines[k]
    IN  \/ line.kind = "directive" /\ BadDirective(line)
        \/ line.kind = "instruction" /\ SectionAt(k) # "text"
        \/ (IsDirective(k, "extern") \/ IsDirective(k, "public")) /\ ~HasArguments(line)
        \/ IsDirective(k, "public") /\ ~(Arguments(line) \subseteq
                                          NamesIntroduced \cup SectionNames)
        \/ Redefines(k)

\* A program is assembled exactly when no line of it is faulty and every
\* label line could hand its label on; when it is refused, it is refused at
\* a line with a fault.
VerdictMatchesProgram ==
    /\ phase = "done" => \A k \in Compiled :
          /\ ~Faulty(k)
          /\ program_lines[k].kind = "label" =>
                program_lines[k + 1].label = program_lines[k].label
    /\ phase = "failed" =>
          \/ Faulty(i)
          \/ program_lines[i].kind = "label" /\ program_lines[i + 1].label # NoName

\* Exactly the externs and the names a .public line lists leave the file as
\* global symbols, wherever the .public stands; of two entries named "text"
\* the .public reaches the first.
GlobalsAreDeclared ==
    phase = "done" =>
        LET exported == UNION {Arguments(program_lines[k]) :
                                  k \in {n \in Compiled : IsDirective(n, "public")}}
        IN  \A k \in DOMAIN symtable :
              symtable[k].scope = "global" <=>
                  \/ symtable[k].type = "extern"
                  \/ /\ symtable[k].name \in exported
                     /\ IndexOfName(symtable, symtable[k].name) = k - 1

\* An index handed to a relocation keeps its meaning: entries are never
\* moved or dropped, and never change but for their scope.
IndexesStable ==
    [][\A k \in DOMAIN symtable :
          /\ k \in DOMAIN symtable'
          /\ symtable'[k] = [symtable[k] EXCEPT !.scope = symtable'[k].scope]]_vars

\* The assembler always ends, with an object or with an error.
Termination == <>(phase \in {"done", "failed"})

-----------------------------------------------------------------------------
(* What the comments of the code say of it.                                *)

\* symbol.h:66 says that adding a symbol fails when the symbol exists, so a
\* table built by unforced additions would have no name twice.
NamesUnique ==
    phase = "done" => \A j, k \in DOMAIN symtable :
                         symtable[j].name = symtable[k].name => j = k

\* nas.c:86 says that after the first pass all symbol definitions are known:
\* every label of the compiled lines has its entry.
LabelsDefined ==
    phase = "second" => \A k \in Compiled :
        program_lines[k].label # NoName => Defined(symtable, program_lines[k].label)

-----------------------------------------------------------------------------
(* The inductive invariant: why the passes agree.                          *)

\* The bytes a line adds to its section in either pass.
Footprint(line) ==
    CASE line.kind = "directive" -> DirectiveSize(line)
      [] line.kind = "instruction" -> EncodedSize(line)
      [] OTHER -> 0

SectionAfter(line, section) ==
    IF line.kind = "directive" /\ line.name \in SectionNames THEN line.name ELSE section

\* Where a line that neither pass rejects takes section and counters.
Advance(line, place) ==
    LET section == SectionAfter(line, place.section)
    IN  [section |-> section,
         counters |-> Bump(place.counters, section, Footprint(line))]

Below(c, d) == \A s \in Sections : c[s] <= d[s]

\* Every mark follows from the one before it by the line between them.
MarksFollowLines ==
    \A k \in DOMAIN mark :
        IF k < Len(mark)
        THEN /\ program_lines[k].name # "end"
             /\ mark[k + 1] = Advance(program_lines[k], mark[k])
        ELSE phase = "first" =>
             /\ program_lines[k].name # "end"
             /\ Here = Advance(program_lines[k], mark[k])

\* In the first pass the counters have passed every mark.
FirstPassAhead ==
    phase = "first" =>
        /\ Len(mark) = i - 1
        /\ mark = << >> => Here = [section |-> "none", counters |-> Zeroes]
        /\ mark # << >> => mark[1] = [section |-> "none", counters |-> Zeroes]
        /\ \A k \in DOMAIN mark : Below(mark[k].counters, location_counter)
        /\ \A s \in Sections : binary_buffer[s] = << >>

\* In the second pass the loop is where the mark of its line says, and every
\* mark is within the buffers, whose sizes are the last mark's counters.
SecondPassOnMarks ==
    phase \in {"second", "done"} =>
        /\ i \in DOMAIN mark
        /\ Here = mark[i]
        /\ \A k \in DOMAIN mark : Below(mark[k].counters, buffer_size)
        /\ buffer_size = mark[Len(mark)].counters
        /\ program_lines[Len(mark)].name = "end"
        /\ phase = "done" => program_lines[i].name = "end"

\* Both loops still have an "end" ahead of them, so that they stop before
\* they leave the program.
EndAhead == \E k \in DOMAIN program_lines : i <= k /\ program_lines[k].name = "end"

PassesAgree ==
    /\ EndAhead
    /\ MarksFollowLines
    /\ FirstPassAhead
    /\ SecondPassOnMarks
    /\ WithinBuffers

-----------------------------------------------------------------------------
(* The two passes as one plan and its execution (module Layout).           *)

PlannedPlaces == [k \in DOMAIN mark |-> mark[k].counters]
WrittenSlots ==
    UNION {{[line |-> binary_buffer[s][k].line, part |-> s,
             at |-> binary_buffer[s][k].at, size |-> binary_buffer[s][k].size] :
               k \in DOMAIN binary_buffer[s]} : s \in Sections}
LayoutVerdict ==
    [first |-> "planning", second |-> "writing", done |-> "written",
     failed |-> "refused"][phase]

Abstract == INSTANCE Layout WITH
    Parts <- Sections, plan <- PlannedPlaces, written <- WrittenSlots,
    verdict <- LayoutVerdict

\* The assembler implements the plan: the first pass fixes a slot for every
\* line, and the second writes each of those slots once, as long and where
\* it was planned, and no object is made before all of them are written.
ImplementsLayout == Abstract!Spec
=============================================================================
