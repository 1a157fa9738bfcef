----------------------------- MODULE Assembler -----------------------------
(***************************************************************************)
(* The assembler nas (nas/nas.c, with nas/as.c for what one line means):   *)
(* two passes over the parsed lines of one program.  The first pass sizes  *)
(* the sections and enters labels and externs in the symbol table, the     *)
(* second emits the sections and the relocations and exports symbols.      *)
(*                                                                         *)
(* A line is what the parser leaves in a line_content_t.  Its name is the  *)
(* directive, or for an instruction the group of opcodes that              *)
(* get_instruction treats alike ("cmp" is in "arith", "str" in "ldst",     *)
(* "shl" in "mov", "ldcl" in "ldlh"); "ldc" and an unknown mnemonic have   *)
(* no entry in instruction_info.  The empty string is "no name", as in C.  *)
(*                                                                         *)
(* An operator named Bug... is not part of the model: it is the definition *)
(* after it with a plausible slip of the programmer, and stands here to    *)
(* show which property notices that slip.                                  *)
(***************************************************************************)
EXTENDS Integers, Sequences, SymbolTable, ObjectFile

CONSTANTS
    Names,      \* the label and operand strings of programs, "" excluded
    Programs    \* the programs, as sequences of parsed lines

NoName == ""

\* An argument is a string that is not empty; read_argument classifies it.
ArgumentTypes == {"immediate", "register", "symbol", "extra", "error"}
Operand == [type: ArgumentTypes, name: Names]

Kinds == {"undefined", "label", "directive", "instruction"}   \* LINE_TYPE_...
SectionNames == {"text", "data", "bss"}

\* Only directives and instructions have a name.  "n" is the number a .skip
\* asks for.
Line ==
    {line \in [kind: Kinds, label: Names \cup {NoName}, name: STRING,
               args: Seq(Operand), n: Int] :
        line.kind \in {"undefined", "label"} => line.name = NoName}

\* Without a line named "end" both loops run on into lines the parser never
\* wrote.  A program is therefore assumed to have one.
ASSUME ProgramsAssumption ==
    /\ SectionNames \subseteq Names
    /\ NoName \notin Names
    /\ \A p \in Programs :
          /\ p \in Seq(Line)
          /\ \E k \in DOMAIN p : p[k].name = "end"

-----------------------------------------------------------------------------
(* What one line means (nas/as.c).                                         *)

UnitSize == [char |-> 1, word |-> 2, long |-> 4]
SizelessDirectives == SectionNames \cup {"public", "global", "extern", "align", "end"}

\* get_directive_size; a negative answer is an error for the caller, be it
\* an unknown directive or a negative ".skip".
DirectiveSize(line) ==
    IF line.name \in DOMAIN UnitSize THEN UnitSize[line.name]
    ELSE IF line.name = "skip" THEN line.n
    ELSE IF line.name \in SizelessDirectives THEN 0 ELSE -1

\* The assertion both passes make on that answer.
BugBadDirective(line) ==
    line.name \notin DOMAIN UnitSize \cup SizelessDirectives \cup {"skip"}
BadDirective(line) == DirectiveSize(line) < 0

Reserves(line) == ~BadDirective(line) /\ DirectiveSize(line) # 0

\* "ldc" stands for two words: the first pass adds the second one after the
\* label is bound, the second pass writes both.
BugSecondWord(line) == 0
SecondWord(line) == IF line.name = "ldc" THEN InstructionSize ELSE 0

BugEncodedSize(line) == InstructionSize
EncodedSize(line) ==
    IF line.name = "ldc" THEN 2 * InstructionSize ELSE InstructionSize

\* Instruction groups of get_instruction's switch that can relocate, with
\* the position of the operand that may be a symbol.  The operands before it
\* have to be registers.
SymbolPosition ==
    [int |-> 1, arith |-> 2, call |-> 2, ldlh |-> 2, ldst |-> 3, mov |-> 3]
Groups == DOMAIN SymbolPosition \cup {"logic", "io"}

\* The groups get_instruction may see.  read_operation leaves the opcode of
\* an uninitialised union alone when no mnemonic matches.
Decoded(name) == IF name \in Groups THEN {name} ELSE Groups \cup {"junk"}

HasArguments(line) == line.args # << >>
Arguments(line) == {line.args[k].name : k \in DOMAIN line.args}

NamesSymbol(line, group) ==
    /\ group \in DOMAIN SymbolPosition
    /\ LET position == SymbolPosition[group]
       IN  /\ position \in DOMAIN line.args
           /\ line.args[position].type = "symbol"
           /\ \A k \in 1 .. position - 1 : line.args[k].type = "register"

SymbolOperand(line, group) == line.args[SymbolPosition[group]].name

BugExternSymbol(name) ==
    [name |-> name, section |-> "none", scope |-> "local", type |-> "extern",
     offset |-> 0, size |-> 0]
ExternSymbol(name) ==
    [name |-> name, section |-> "none", scope |-> "global", type |-> "extern",
     offset |-> 0, size |-> 0]

SectionSymbol(name) ==
    [name |-> name, section |-> name, scope |-> "local", type |-> "section",
     offset |-> 0, size |-> 0]

\* A label's symbol lies after the item it labels and has its size.
BugLabelSymbol(name, section, offset, itemSize) ==
    [name |-> name, section |-> section, scope |-> "local",
     type |-> IF section = "text" THEN "function" ELSE "data",
     offset |-> offset - itemSize, size |-> itemSize]
LabelSymbol(name, section, offset, itemSize) ==
    [name |-> name, section |-> section, scope |-> "local",
     type |-> IF section = "text" THEN "function" ELSE "data",
     offset |-> offset, size |-> IF itemSize > 0 THEN itemSize ELSE 0]

Bump(counters, section, amount) == [counters EXCEPT ![section] = @ + amount]

-----------------------------------------------------------------------------
VARIABLES
    program_lines,     \* the lines; a label line hands its label on
    i,                 \* the line both loops are at
    phase,             \* "first" and "second" pass, then "done" or "failed"
    current_section,
    location_counter,  \* one counter per section, "none" included
    size,              \* size of the last item; outlives a loop round
    symtable,
    reloctable,
    buffer_size,       \* what malloc was asked for, per section
    binary_buffer,     \* the chunks written, per section
    object,            \* the output file, << >> until it is written
    mark               \* auxiliary: section and counters before each line of
                       \* the first pass; no action reads it

vars == <<program_lines, i, phase, current_section, location_counter, size,
          symtable, reloctable, buffer_size, binary_buffer, object, mark>>

Zeroes == [s \in Sections |-> 0]

Init ==
    /\ program_lines \in Programs
    /\ i = 1
    /\ phase = "first"
    /\ current_section = "none"
    /\ location_counter = Zeroes
    /\ size = 0
    /\ symtable = <<SectionSymbol("text"), SectionSymbol("bss"), SectionSymbol("data")>>
    /\ reloctable = << >>
    /\ buffer_size = Zeroes
    /\ binary_buffer = [s \in Sections |-> << >>]
    /\ object = << >>
    /\ mark = << >>

CurrentLine == program_lines[i]
InPass(pass, kind) ==
    /\ phase = pass
    /\ CurrentLine.name # "end"
    /\ CurrentLine.kind = kind

Here == [section |-> current_section, counters |-> location_counter]

-----------------------------------------------------------------------------
(* First pass.                                                             *)

\* The tail of every round that is not cut short by "continue": the label,
\* if any, is bound to the counter after the item, then "ldc" reserves its
\* second word.
FinishRound(section, counters, itemSize, table) ==
    /\ CurrentLine.label # NoName => ~Exists(table, CurrentLine.label)
    /\ symtable' = IF CurrentLine.label = NoName THEN table
                   ELSE AddSymbol(table, LabelSymbol(CurrentLine.label, section,
                                                     counters[section], itemSize))
    /\ current_section' = section
    /\ location_counter' = Bump(counters, section, SecondWord(CurrentLine))
    /\ size' = itemSize
    /\ mark' = Append(mark, Here)
    /\ i' = i + 1
    /\ UNCHANGED <<program_lines, phase, reloctable, buffer_size, binary_buffer, object>>

SwitchSection ==
    /\ InPass("first", "directive")
    /\ CurrentLine.name \in SectionNames
    /\ FinishRound(CurrentLine.name, location_counter, 0, symtable)

\* Every argument of one .extern is declared in turn; the first that exists
\* already is an error.
BugCanDeclare(line) == HasArguments(line)
CanDeclare(line) ==
    /\ HasArguments(line)
    /\ \A k \in DOMAIN line.args :
          /\ ~Exists(symtable, line.args[k].name)
          /\ \A j \in 1 .. k - 1 : line.args[j].name # line.args[k].name

DeclareExtern ==
    /\ InPass("first", "directive")
    /\ CurrentLine.name = "extern"
    /\ CanDeclare(CurrentLine)
    /\ FinishRound(current_section, location_counter, 0,
          symtable \o [k \in DOMAIN CurrentLine.args |-> ExternSymbol(CurrentLine.args[k].name)])

ReserveItem ==
    /\ InPass("first", "directive")
    /\ Reserves(CurrentLine)
    /\ FinishRound(current_section,
                   Bump(location_counter, current_section, DirectiveSize(CurrentLine)),
                   DirectiveSize(CurrentLine), symtable)

\* .public, .global, .align and ".skip 0" reserve nothing.
PassOverDirective ==
    /\ InPass("first", "directive")
    /\ CurrentLine.name \notin SectionNames \cup {"extern"}
    /\ DirectiveSize(CurrentLine) = 0
    /\ FinishRound(current_section, location_counter, 0, symtable)

SizeInstruction ==
    /\ InPass("first", "instruction")
    /\ current_section = "text"
    /\ FinishRound(current_section,
                   Bump(location_counter, current_section, InstructionSize),
                   InstructionSize, symtable)

\* A blank line leaves the size of the item before it in place.
PassOverBlank ==
    /\ InPass("first", "undefined")
    /\ FinishRound(current_section, location_counter, size, symtable)

\* A line that is only a label hands the label to the next line.
CarryLabel ==
    /\ InPass("first", "label")
    /\ program_lines[i + 1].label = NoName
    /\ program_lines' = [program_lines EXCEPT ![i + 1].label = CurrentLine.label]
    /\ mark' = Append(mark, Here)
    /\ i' = i + 1
    /\ UNCHANGED <<phase, current_section, location_counter, size, symtable,
                   reloctable, buffer_size, binary_buffer, object>>

\* The error exits of the first pass.  The process ends, so what it had
\* already changed on this line is lost with it.
LabelClash ==
    /\ CurrentLine.kind # "label"
    /\ CurrentLine.label # NoName
    /\ \/ Exists(symtable, CurrentLine.label)
       \/ /\ CurrentLine.kind = "directive" /\ CurrentLine.name = "extern"
          /\ CurrentLine.label \in Arguments(CurrentLine)

RejectFirst ==
    /\ phase = "first"
    /\ CurrentLine.name # "end"
    /\ \/ /\ CurrentLine.kind = "directive"
          /\ \/ BadDirective(CurrentLine)
             \/ CurrentLine.name = "extern" /\ ~CanDeclare(CurrentLine)
       \/ CurrentLine.kind = "instruction" /\ current_section # "text"
       \/ CurrentLine.kind = "label" /\ program_lines[i + 1].label # NoName
       \/ LabelClash
    /\ phase' = "failed"
    /\ UNCHANGED <<program_lines, i, current_section, location_counter, size, symtable,
                   reloctable, buffer_size, binary_buffer, object, mark>>

EndFirstPass ==
    /\ phase = "first"
    /\ CurrentLine.name = "end"
    /\ phase' = "second"
    /\ i' = 1
    /\ buffer_size' = location_counter
    /\ location_counter' = Zeroes
    /\ current_section' = "none"
    /\ mark' = Append(mark, Here)
    /\ UNCHANGED <<program_lines, size, symtable, reloctable, binary_buffer, object>>

-----------------------------------------------------------------------------
(* Second pass.                                                            *)

BugNextLine ==
    /\ i' = IF CurrentLine.kind = "label" THEN i ELSE i + 1
    /\ UNCHANGED <<program_lines, phase, buffer_size, object, mark>>
NextLine ==
    /\ i' = i + 1
    /\ UNCHANGED <<program_lines, phase, buffer_size, object, mark>>

\* memcpy into the current section's buffer at its location counter.
Emit(bytes, group) ==
    /\ binary_buffer' =
          [binary_buffer EXCEPT ![current_section] =
              Append(@, [line |-> i, at |-> location_counter[current_section],
                         size |-> bytes, group |-> group])]
    /\ location_counter' = Bump(location_counter, current_section, bytes)

EnterSection ==
    /\ InPass("second", "directive")
    /\ CurrentLine.name \in SectionNames
    /\ current_section' = CurrentLine.name
    /\ size' = 0
    /\ NextLine
    /\ UNCHANGED <<location_counter, symtable, reloctable, binary_buffer>>

CanExport(line) ==
    /\ HasArguments(line)
    /\ \A name \in Arguments(line) : Defined(symtable, name)

\* .public makes the first symbol of each name global.
Export ==
    /\ InPass("second", "directive")
    /\ CurrentLine.name = "public"
    /\ CanExport(CurrentLine)
    /\ LET exported == {IndexOfName(symtable, name) : name \in Arguments(CurrentLine)}
       IN  symtable' = [k \in DOMAIN symtable |->
                          IF k - 1 \in exported
                          THEN [symtable[k] EXCEPT !.scope = "global"]
                          ELSE symtable[k]]
    /\ size' = 0
    /\ NextLine
    /\ UNCHANGED <<current_section, location_counter, reloctable, binary_buffer>>

EmitData ==
    /\ InPass("second", "directive")
    /\ Reserves(CurrentLine)
    /\ Emit(DirectiveSize(CurrentLine), "datum")
    /\ size' = DirectiveSize(CurrentLine)
    /\ NextLine
    /\ UNCHANGED <<current_section, symtable, reloctable>>

\* get_instruction, with the relocation it records for a symbol operand that
\* has an entry; an undefined one is passed over in silence.  "ldc" writes
\* two words.
EncodeInstruction ==
    /\ InPass("second", "instruction")
    /\ LET line == CurrentLine
           bytes == EncodedSize(line)
       IN  \E group \in Decoded(line.name) :
              /\ Emit(bytes, group)
              /\ size' = bytes
              /\ reloctable' =
                    IF /\ NamesSymbol(line, group)
                       /\ Defined(symtable, SymbolOperand(line, group))
                    THEN AddRelocation(reloctable,
                           IndexOfName(symtable, SymbolOperand(line, group)),
                           location_counter[current_section])
                    ELSE reloctable
    /\ NextLine
    /\ UNCHANGED <<current_section, symtable>>

\* Directives without effect in this pass set the size; labels and blank
\* lines do not even that.
PassOver ==
    /\ phase = "second"
    /\ CurrentLine.name # "end"
    /\ \/ /\ CurrentLine.kind = "directive"
          /\ CurrentLine.name \notin SectionNames \cup {"public"}
          /\ DirectiveSize(CurrentLine) = 0
          /\ size' = 0
       \/ CurrentLine.kind \in {"undefined", "label"} /\ size' = size
    /\ NextLine
    /\ UNCHANGED <<current_section, location_counter, symtable, reloctable, binary_buffer>>

RejectSecond ==
    /\ InPass("second", "directive")
    /\ \/ BadDirective(CurrentLine)
       \/ CurrentLine.name = "public" /\ ~CanExport(CurrentLine)
    /\ phase' = "failed"
    /\ UNCHANGED <<program_lines, i, current_section, location_counter, size, symtable,
                   reloctable, buffer_size, binary_buffer, object, mark>>

WriteObject ==
    /\ phase = "second"
    /\ CurrentLine.name = "end"
    /\ object' = MakeObject(location_counter, binary_buffer, symtable, reloctable)
    /\ phase' = "done"
    /\ UNCHANGED <<program_lines, i, current_section, location_counter, size, symtable,
                   reloctable, buffer_size, binary_buffer, mark>>

\* The process has ended.
Exited == phase \in {"done", "failed"} /\ UNCHANGED vars

FirstPass ==
    \/ SwitchSection \/ DeclareExtern \/ ReserveItem \/ PassOverDirective
    \/ SizeInstruction \/ PassOverBlank \/ CarryLabel \/ RejectFirst \/ EndFirstPass

SecondPass ==
    \/ EnterSection \/ Export \/ EmitData \/ EncodeInstruction \/ PassOver
    \/ RejectSecond \/ WriteObject

Next == FirstPass \/ SecondPass \/ Exited

Spec == Init /\ [][Next]_vars

\* The assembler is one sequential process: as long as it can take a step
\* the operating system lets it.
FairSpec == Spec /\ WF_vars(Next)
-----------------------------------------------------------------------------
Chunk == [line: Nat, at: Nat, size: Nat, group: Groups \cup {"junk", "datum"}]
Counters == [Sections -> Nat]
Image == [bss_size: Nat, data_start: Nat, text_start: Nat, symbol_start: Nat,
          reloc_start: Nat, size: Nat, data: Seq(Chunk), text: Seq(Chunk),
          symbols: Seq(Symbol(Names)), relocs: Seq(Relocation)]

\* The variables hold values of their C types: counters, offsets and sizes
\* never go below zero, whatever a directive asks for.
TypeOK ==
    /\ program_lines \in Seq(Line)
    /\ i \in Nat \ {0}
    /\ phase \in {"first", "second", "done", "failed"}
    /\ current_section \in Sections
    /\ location_counter \in Counters
    /\ size \in Nat
    /\ symtable \in Seq(Symbol(Names))
    /\ reloctable \in Seq(Relocation)
    /\ buffer_size \in Counters
    /\ binary_buffer \in [Sections -> Seq(Chunk)]
    /\ object \in {<< >>} \cup Image
    /\ mark \in Seq([section: Sections, counters: Counters])
=============================================================================
