-------------------------- MODULE AssemblerProofs --------------------------
(***************************************************************************)
(* Proofs about the assembler, for every set of programs.                  *)
(***************************************************************************)
EXTENDS AssemblerProperties, SymbolTableProofs, TLAPS

\* The lines that a loop reaches are lines of the program.
LEMMA CurrentLineTyped ==
    ASSUME TypeOK, EndAhead
    PROVE  i \in DOMAIN program_lines /\ CurrentLine \in Line
BY DEF TypeOK, EndAhead, CurrentLine

LEMMA SizeTyped ==
    ASSUME NEW line \in Line
    PROVE  /\ DirectiveSize(line) \in Int
           /\ Reserves(line) => DirectiveSize(line) \in Nat \ {0}
           /\ SecondWord(line) \in Nat
           /\ EncodedSize(line) \in Nat
BY DEF Line, DirectiveSize, Reserves, BadDirective, SecondWord, EncodedSize,
       InstructionSize, UnitSize

LEMMA BumpTyped ==
    ASSUME NEW c \in Counters, NEW s \in Sections, NEW n \in Nat
    PROVE  Bump(c, s, n) \in Counters
BY DEF Bump, Counters

LEMMA SymbolsTyped ==
    ASSUME NEW name \in Names, NEW s \in Sections, NEW o \in Nat, NEW n \in Int
    PROVE  /\ ExternSymbol(name) \in Symbol(Names)
           /\ LabelSymbol(name, s, o, n) \in Symbol(Names)
BY DEF ExternSymbol, LabelSymbol, Symbol, Sections, Scopes, Types

LEMMA TableGrows ==
    ASSUME NEW t \in Seq(Symbol(Names)), NEW sym \in Symbol(Names)
    PROVE  AddSymbol(t, sym) \in Seq(Symbol(Names))
BY DEF AddSymbol

LEMMA RoundTyped ==
    ASSUME TypeOK, EndAhead, CurrentLine.name # "end",
           NEW section \in Sections, NEW counters \in Counters,
           NEW itemSize \in Nat, NEW table \in Seq(Symbol(Names)),
           FinishRound(section, counters, itemSize, table)
    PROVE  TypeOK' /\ EndAhead'
<1>1. i \in DOMAIN program_lines /\ CurrentLine \in Line
  BY CurrentLineTyped
<1>2. symtable' \in Seq(Symbol(Names))
  <2>1. CASE CurrentLine.label = NoName
    BY <2>1 DEF FinishRound
  <2>2. CASE CurrentLine.label # NoName
    <3>1. CurrentLine.label \in Names
      BY <1>1, <2>2 DEF Line
    <3>2. counters[section] \in Nat
      BY DEF Counters
    <3>. DEFINE symbol == LabelSymbol(CurrentLine.label, section,
                                      counters[section], itemSize)
    <3>3. symbol \in Symbol(Names)
      BY <3>1, <3>2, SymbolsTyped
    <3>4. symtable' = AddSymbol(table, symbol)
      BY <2>2 DEF FinishRound
    <3>. HIDE DEF symbol
    <3>. QED
      BY <3>3, <3>4, TableGrows
  <2>. QED
    BY <2>1, <2>2
<1>3. location_counter' \in Counters
  BY <1>1, SizeTyped, BumpTyped DEF FinishRound
<1>4. mark' \in Seq([section: Sections, counters: Counters])
  BY DEF FinishRound, Here, TypeOK
<1>5. TypeOK'
  BY <1>2, <1>3, <1>4 DEF FinishRound, TypeOK
<1>6. EndAhead'
  BY DEF FinishRound, TypeOK, EndAhead, CurrentLine
<1>. QED
  BY <1>5, <1>6

-----------------------------------------------------------------------------
(* Type correctness.  EndAhead is part of the induction: it keeps the      *)
(* loops inside the program, where lines have the type of lines.           *)

LEMMA InitTyped == Init => TypeOK /\ EndAhead
<1>. SUFFICES ASSUME Init PROVE TypeOK /\ EndAhead
  OBVIOUS
<1>1. \A s \in SectionNames : SectionSymbol(s) \in Symbol(Names)
  BY ProgramsAssumption
  DEF SectionNames, SectionSymbol, Symbol, Sections, Scopes, Types
<1>2. symtable \in Seq(Symbol(Names))
  <2>1. /\ SectionSymbol("text") \in Symbol(Names)
        /\ SectionSymbol("bss") \in Symbol(Names)
        /\ SectionSymbol("data") \in Symbol(Names)
    BY <1>1 DEF SectionNames
  <2>. QED
    BY <2>1 DEF Init
<1>3. Zeroes \in Counters
  BY DEF Zeroes, Counters
<1>4. TypeOK
  BY <1>2, <1>3, ProgramsAssumption DEF Init, TypeOK, Sections
<1>5. EndAhead
  BY <1>4, ProgramsAssumption DEF Init, EndAhead, TypeOK
<1>. QED
  BY <1>4, <1>5

LEMMA Relabelled ==
    ASSUME NEW line \in Line, NEW label \in Names \cup {NoName}
    PROVE  [line EXCEPT !.label = label] \in Line
BY DEF Line

LEMMA ArgumentNamed ==
    ASSUME NEW arguments \in Seq(Operand), NEW k \in DOMAIN arguments
    PROVE  arguments[k].name \in Names
<1>1. arguments[k] \in Operand
  OBVIOUS
<1>. QED
  BY <1>1 DEF Operand

LEMMA ReplacedElement ==
    ASSUME NEW T, NEW s \in Seq(T), NEW n \in Nat, NEW x,
           n \in DOMAIN s => x \in T
    PROVE  [s EXCEPT ![n] = x] \in Seq(T)
<1>. DEFINE t == [s EXCEPT ![n] = x]
<1>1. CASE n \in DOMAIN s
  BY <1>1
<1>2. CASE n \notin DOMAIN s
  <2>1. t = s
    BY <1>2
  <2>. QED
    BY <2>1
<1>. QED
  BY <1>1, <1>2

LEMMA FirstPassTyped ==
    ASSUME TypeOK, EndAhead, FirstPass
    PROVE  TypeOK' /\ EndAhead'
<1>a. i \in DOMAIN program_lines /\ CurrentLine \in Line
  BY CurrentLineTyped
<1>b. /\ current_section \in Sections
      /\ location_counter \in Counters
      /\ size \in Nat
      /\ symtable \in Seq(Symbol(Names))
  BY DEF TypeOK
<1>1. CASE SwitchSection
  <2>1. CurrentLine.name \in Sections
    BY <1>1 DEF SwitchSection, SectionNames, Sections
  <2>. QED
    BY <1>1, <1>b, <2>1, RoundTyped DEF SwitchSection, InPass
<1>2. CASE DeclareExtern
  <2>. DEFINE externs == [k \in DOMAIN CurrentLine.args |->
                             ExternSymbol(CurrentLine.args[k].name)]
  <2>1. \A k \in DOMAIN CurrentLine.args : CurrentLine.args[k].name \in Names
    <3>1. CurrentLine.args \in Seq(Operand)
      BY <1>a DEF Line
    <3>. QED
      BY <3>1, ArgumentNamed
  <2>2. externs \in Seq(Symbol(Names))
    <3>1. CurrentLine.args \in Seq(Operand)
      BY <1>a DEF Line
    <3>2. \A k \in 1 .. Len(CurrentLine.args) :
             ExternSymbol(CurrentLine.args[k].name) \in Symbol(Names)
      BY <2>1, <3>1 DEF ExternSymbol, Symbol, Sections, Scopes, Types
    <3>. HIDE DEF externs
    <3>3. externs = [k \in 1 .. Len(CurrentLine.args) |->
                        ExternSymbol(CurrentLine.args[k].name)]
      BY <3>1 DEF externs
    <3>. QED
      BY <3>1, <3>2, <3>3
  <2>. HIDE DEF externs
  <2>3. symtable \o externs \in Seq(Symbol(Names))
    BY <1>b, <2>2
  <2>4. FinishRound(current_section, location_counter, 0, symtable \o externs)
    BY <1>2 DEF DeclareExtern, externs
  <2>. QED
    BY <1>2, <1>b, <2>3, <2>4, RoundTyped DEF DeclareExtern, InPass
<1>3. CASE ReserveItem
  <2>. DEFINE counters == Bump(location_counter, current_section,
                               DirectiveSize(CurrentLine))
  <2>1. DirectiveSize(CurrentLine) \in Nat
    BY <1>3, <1>a, SizeTyped DEF ReserveItem
  <2>2. counters \in Counters
    BY <1>b, <2>1, BumpTyped
  <2>. QED
    BY <1>3, <1>b, <2>1, <2>2, RoundTyped DEF ReserveItem, InPass
<1>4. CASE PassOverDirective
  BY <1>4, <1>b, RoundTyped DEF PassOverDirective, InPass
<1>5. CASE SizeInstruction
  <2>1. Bump(location_counter, current_section, InstructionSize) \in Counters
    BY <1>b, BumpTyped DEF InstructionSize
  <2>. QED
    BY <1>5, <1>b, <2>1, RoundTyped DEF SizeInstruction, InPass, InstructionSize
<1>6. CASE PassOverBlank
  BY <1>6, <1>b, RoundTyped DEF PassOverBlank, InPass
<1>7. CASE CarryLabel
  <2>1. program_lines' \in Seq(Line)
    <3>1. CurrentLine.label \in Names \cup {NoName}
      BY <1>a DEF Line
    <3>. DEFINE next == [program_lines[i + 1] EXCEPT !.label = CurrentLine.label]
    <3>2. program_lines' = [program_lines EXCEPT ![i + 1] = next]
      BY <1>7 DEF CarryLabel
    <3>3. ASSUME i + 1 \in DOMAIN program_lines PROVE next \in Line
      <4>1. program_lines[i + 1] \in Line
        BY <3>3 DEF TypeOK
      <4>. QED
        BY <3>1, <4>1, Relabelled
    <3>4. program_lines \in Seq(Line)
      BY DEF TypeOK
    <3>. HIDE DEF next
    <3>. QED
      BY <3>2, <3>3, <3>4, ReplacedElement
  <2>2. mark' \in Seq([section: Sections, counters: Counters])
    BY <1>7 DEF CarryLabel, Here, TypeOK
  <2>3. TypeOK'
    BY <1>7, <2>1, <2>2 DEF CarryLabel, TypeOK
  <2>4. EndAhead'
    <3>1. PICK k \in DOMAIN program_lines :
             i <= k /\ program_lines[k].name = "end"
      BY DEF EndAhead
    <3>2. k # i
      BY <1>7, <3>1 DEF CarryLabel, InPass, CurrentLine
    <3>3. DOMAIN program_lines' = DOMAIN program_lines
      BY <1>7 DEF CarryLabel, TypeOK
    <3>4. program_lines'[k].name = "end"
      BY <1>7, <3>1 DEF CarryLabel, TypeOK, Line
    <3>5. i' <= k
      BY <1>7, <3>1, <3>2 DEF CarryLabel, TypeOK
    <3>. QED
      BY <3>3, <3>4, <3>5 DEF EndAhead
  <2>. QED
    BY <2>3, <2>4
<1>8. CASE RejectFirst
  BY <1>8 DEF RejectFirst, TypeOK, EndAhead
<1>9. CASE EndFirstPass
  <2>1. mark' \in Seq([section: Sections, counters: Counters])
    BY <1>9 DEF EndFirstPass, Here, TypeOK
  <2>2. Zeroes \in Counters
    BY DEF Zeroes, Counters
  <2>3. TypeOK'
    BY <1>9, <2>1, <2>2 DEF EndFirstPass, TypeOK, Sections
  <2>4. EndAhead'
    <3>1. PICK k \in DOMAIN program_lines : program_lines[k].name = "end"
      BY DEF EndAhead
    <3>. QED
      BY <1>9, <3>1 DEF EndFirstPass, EndAhead, TypeOK
  <2>. QED
    BY <2>3, <2>4
<1>. QED
  BY <1>1, <1>2, <1>3, <1>4, <1>5, <1>6, <1>7, <1>8, <1>9 DEF FirstPass

LEMMA ImageTyped ==
    ASSUME NEW counters \in Counters, NEW buffer \in [Sections -> Seq(Chunk)],
           NEW symbols \in Seq(Symbol(Names)), NEW relocs \in Seq(Relocation)
    PROVE  MakeObject(counters, buffer, symbols, relocs) \in Image
<1>1. counters.data \in Nat /\ counters.text \in Nat /\ counters.bss \in Nat
  BY DEF Counters, Sections
<1>2. buffer.data \in Seq(Chunk) /\ buffer.text \in Seq(Chunk)
  BY DEF Sections
<1>3. Len(symbols) \in Nat /\ Len(relocs) \in Nat
  OBVIOUS
<1>. DEFINE text_start == ElfSize + counters.data
            symbol_start == SymbolStart(counters)
            reloc_start == symbol_start + SymEntrySize * Len(symbols)
            end == reloc_start + RelocEntrySize * Len(relocs)
<1>4. text_start \in Nat /\ symbol_start \in Nat /\ ElfSize \in Nat
  BY <1>1 DEF SymbolStart, ElfSize
<1>5. reloc_start \in Nat
  BY <1>3, <1>4 DEF SymEntrySize
<1>6. end \in Nat
  BY <1>3, <1>5 DEF RelocEntrySize
<1>7. MakeObject(counters, buffer, symbols, relocs) =
        [bss_size |-> counters.bss, data_start |-> ElfSize, text_start |-> text_start,
         symbol_start |-> symbol_start, reloc_start |-> reloc_start, size |-> end,
         data |-> buffer.data, text |-> buffer.text,
         symbols |-> symbols, relocs |-> relocs]
  BY DEF MakeObject
<1>. HIDE DEF text_start, symbol_start, reloc_start, end
<1>. QED
  BY <1>1, <1>2, <1>4, <1>5, <1>6, <1>7 DEF Image

LEMMA EmitTyped ==
    ASSUME TypeOK, NEW bytes \in Nat,
           NEW group \in Groups \cup {"junk", "datum"}, Emit(bytes, group)
    PROVE  binary_buffer' \in [Sections -> Seq(Chunk)] /\ location_counter' \in Counters
<1>. DEFINE chunk == [line |-> i, at |-> location_counter[current_section],
                      size |-> bytes, group |-> group]
<1>1. current_section \in Sections /\ location_counter \in Counters
  BY DEF TypeOK
<1>2. chunk \in Chunk
  BY <1>1 DEF Chunk, Counters, TypeOK
<1>3. location_counter' \in Counters
  BY <1>1, BumpTyped DEF Emit
<1>4. binary_buffer' = [binary_buffer EXCEPT ![current_section] = Append(@, chunk)]
  BY DEF Emit
<1>5. binary_buffer[current_section] \in Seq(Chunk)
  BY <1>1 DEF TypeOK
<1>. HIDE DEF chunk
<1>6. Append(binary_buffer[current_section], chunk) \in Seq(Chunk)
  BY <1>2, <1>5
<1>7. binary_buffer' \in [Sections -> Seq(Chunk)]
  BY <1>1, <1>4, <1>6 DEF TypeOK
<1>. QED
  BY <1>3, <1>7

LEMMA NextLineTyped ==
    ASSUME TypeOK, EndAhead, phase = "second", CurrentLine.name # "end", NextLine
    PROVE  EndAhead' /\ i' \in Nat \ {0}
<1>1. PICK k \in DOMAIN program_lines : i <= k /\ program_lines[k].name = "end"
  BY DEF EndAhead
<1>2. k # i
  BY <1>1 DEF CurrentLine
<1>. QED
  BY <1>1, <1>2 DEF NextLine, EndAhead, TypeOK

LEMMA ExportTyped ==
    ASSUME TypeOK, Export
    PROVE  symtable' \in Seq(Symbol(Names))
<1>1. DOMAIN symtable' = 1 .. Len(symtable)
  BY DEF Export, TypeOK
<1>2. ASSUME NEW k \in 1 .. Len(symtable) PROVE symtable'[k] \in Symbol(Names)
  <2>1. symtable[k] \in Symbol(Names)
    BY DEF TypeOK
  <2>2. symtable'[k] \in {symtable[k], [symtable[k] EXCEPT !.scope = "global"]}
    BY DEF Export, TypeOK
  <2>3. [symtable[k] EXCEPT !.scope = "global"] \in Symbol(Names)
    BY <2>1 DEF Symbol, Scopes
  <2>. QED
    BY <2>1, <2>2, <2>3
<1>3. symtable' = [k \in 1 .. Len(symtable) |-> symtable'[k]]
  BY <1>1 DEF Export, TypeOK
<1>4. symtable' \in [1 .. Len(symtable) -> Symbol(Names)]
  BY <1>2, <1>3
<1>5. Len(symtable) \in Nat
  BY DEF TypeOK
<1>. QED
  BY <1>4, <1>5

LEMMA RelocationTyped ==
    ASSUME TypeOK, EncodeInstruction
    PROVE  reloctable' \in Seq(Relocation)
<1>1. PICK group \in Decoded(CurrentLine.name) :
        reloctable' =
          IF /\ NamesSymbol(CurrentLine, group)
             /\ Defined(symtable, SymbolOperand(CurrentLine, group))
          THEN AddRelocation(reloctable,
                 IndexOfName(symtable, SymbolOperand(CurrentLine, group)),
                 location_counter[current_section])
          ELSE reloctable
  BY DEF EncodeInstruction
<1>. DEFINE name == SymbolOperand(CurrentLine, group)
            relocation == [index |-> IndexOfName(symtable, name),
                           offset |-> location_counter[current_section]]
<1>2. CASE Defined(symtable, name)
  <2>1. symtable \in Seq(Symbol(Names))
    BY DEF TypeOK
  <2>. HIDE DEF name
  <2>2. IndexOfName(symtable, name) \in Int
    BY <1>2, <2>1, IndexOfNameFindsEntry
  <2>3. location_counter[current_section] \in Nat
    BY DEF TypeOK, Counters
  <2>4. relocation \in Relocation
    BY <2>2, <2>3 DEF Relocation
  <2>5. reloctable' = Append(reloctable, relocation) \/ reloctable' = reloctable
    BY <1>1 DEF name, AddRelocation
  <2>6. reloctable \in Seq(Relocation)
    BY DEF TypeOK
  <2>. HIDE DEF relocation
  <2>7. Append(reloctable, relocation) \in Seq(Relocation)
    BY <2>4, <2>6
  <2>. QED
    BY <2>5, <2>6, <2>7
<1>3. CASE ~Defined(symtable, name)
  BY <1>1, <1>3 DEF TypeOK
<1>. QED
  BY <1>2, <1>3

LEMMA SecondPassTyped ==
    ASSUME TypeOK, EndAhead, SecondPass
    PROVE  TypeOK' /\ EndAhead'
<1>a. CurrentLine \in Line
  BY CurrentLineTyped
<1>1. CASE EnterSection
  <2>1. current_section' \in Sections
    BY <1>1 DEF EnterSection, SectionNames, Sections
  <2>2. EndAhead' /\ i' \in Nat \ {0}
    BY <1>1, NextLineTyped DEF EnterSection, InPass
  <2>. QED
    BY <1>1, <2>1, <2>2 DEF EnterSection, NextLine, TypeOK
<1>2. CASE Export
  <2>1. symtable' \in Seq(Symbol(Names))
    BY <1>2, ExportTyped
  <2>2. EndAhead' /\ i' \in Nat \ {0}
    BY <1>2, NextLineTyped DEF Export, InPass
  <2>. QED
    BY <1>2, <2>1, <2>2 DEF Export, NextLine, TypeOK
<1>3. CASE EmitData
  <2>1. DirectiveSize(CurrentLine) \in Nat
    BY <1>a, <1>3, SizeTyped DEF EmitData
  <2>2. binary_buffer' \in [Sections -> Seq(Chunk)] /\ location_counter' \in Counters
    BY <1>3, <2>1, EmitTyped DEF EmitData
  <2>3. EndAhead' /\ i' \in Nat \ {0}
    BY <1>3, NextLineTyped DEF EmitData, InPass
  <2>. QED
    BY <1>3, <2>1, <2>2, <2>3 DEF EmitData, NextLine, TypeOK
<1>4. CASE EncodeInstruction
  <2>1. EncodedSize(CurrentLine) \in Nat
    BY <1>a, SizeTyped
  <2>2. PICK group \in Decoded(CurrentLine.name) : Emit(EncodedSize(CurrentLine), group)
    BY <1>4 DEF EncodeInstruction
  <2>3. group \in Groups \cup {"junk", "datum"}
    BY DEF Decoded
  <2>4. binary_buffer' \in [Sections -> Seq(Chunk)] /\ location_counter' \in Counters
    BY <2>1, <2>2, <2>3, EmitTyped
  <2>5. reloctable' \in Seq(Relocation)
    BY <1>4, RelocationTyped
  <2>6. EndAhead' /\ i' \in Nat \ {0}
    BY <1>4, NextLineTyped DEF EncodeInstruction, InPass
  <2>7. size' \in Nat
    BY <1>4, <2>1 DEF EncodeInstruction
  <2>. QED
    BY <1>4, <2>4, <2>5, <2>6, <2>7 DEF EncodeInstruction, NextLine, TypeOK
<1>5. CASE PassOver
  <2>1. EndAhead' /\ i' \in Nat \ {0}
    BY <1>5, NextLineTyped DEF PassOver
  <2>2. size' \in Nat
    BY <1>5 DEF PassOver, TypeOK
  <2>. QED
    BY <1>5, <2>1, <2>2 DEF PassOver, NextLine, TypeOK
<1>6. CASE RejectSecond
  BY <1>6 DEF RejectSecond, TypeOK, EndAhead
<1>7. CASE WriteObject
  <2>1. object' \in Image
    BY <1>7, ImageTyped DEF WriteObject, TypeOK
  <2>2. TypeOK'
    BY <1>7, <2>1 DEF WriteObject, TypeOK
  <2>3. EndAhead'
    BY <1>7 DEF WriteObject, EndAhead
  <2>. QED
    BY <2>2, <2>3
<1>. QED
  BY <1>1, <1>2, <1>3, <1>4, <1>5, <1>6, <1>7 DEF SecondPass

LEMMA NextTyped == TypeOK /\ EndAhead /\ [Next]_vars => TypeOK' /\ EndAhead'
<1>. SUFFICES ASSUME TypeOK, EndAhead, [Next]_vars PROVE TypeOK' /\ EndAhead'
  OBVIOUS
<1>1. CASE FirstPass
  BY <1>1, FirstPassTyped
<1>2. CASE SecondPass
  BY <1>2, SecondPassTyped
<1>3. CASE UNCHANGED vars
  BY <1>3 DEF vars, TypeOK, EndAhead
<1>. QED
  BY <1>1, <1>2, <1>3 DEF Next, Exited

\* Counters, offsets and sizes keep the types of the C variables, and both
\* loops of nas.c stop at an "end" line, for every set of programs.
THEOREM TypeCorrect == Spec => [](TypeOK /\ EndAhead)
<1>. QED
  BY InitTyped, NextTyped, PTL DEF Spec

-----------------------------------------------------------------------------
(* The passes agree.  In the first pass, and again in the second, a round  *)
(* takes section and counters where Advance says; the second pass          *)
(* therefore stays on the marks the first one left, and the last mark is   *)
(* what the buffers were sized with.                                       *)

LEMMA BumpZero == ASSUME NEW c \in Counters, NEW s \in Sections PROVE Bump(c, s, 0) = c
BY DEF Bump, Counters

LEMMA BumpTwice ==
    ASSUME NEW c \in Counters, NEW s \in Sections, NEW m \in Nat, NEW n \in Nat
    PROVE  Bump(Bump(c, s, m), s, n) = Bump(c, s, m + n)
<1>1. c[s] \in Nat
  BY DEF Counters
<1>2. (c[s] + m) + n = c[s] + (m + n)
  BY <1>1
<1>. QED
  BY <1>2 DEF Bump, Counters

LEMMA BumpGrows ==
    ASSUME NEW c \in Counters, NEW s \in Sections, NEW n \in Nat
    PROVE  Below(c, Bump(c, s, n))
BY DEF Bump, Counters, Below

\* What the error checks leave for a directive: no negative size, and a
\* second word only for instructions.
LEMMA DirectiveNames ==
    ASSUME NEW line \in Line, line.kind = "directive", ~BadDirective(line)
    PROVE  /\ DirectiveSize(line) \in Nat
           /\ SecondWord(line) = 0
           /\ line.name \in SectionNames \cup {"extern", "public"} => DirectiveSize(line) = 0
           /\ Reserves(line) => line.name \notin SectionNames
<1>1. DirectiveSize(line) \in Int
  BY SizeTyped
<1>2. line.name = "ldc" => DirectiveSize(line) = -1
  BY DEF DirectiveSize, UnitSize, SizelessDirectives, SectionNames
<1>3. line.name \in SectionNames \cup {"extern", "public"} => DirectiveSize(line) = 0
  BY DEF DirectiveSize, UnitSize, SizelessDirectives, SectionNames
<1>. QED
  BY <1>1, <1>2, <1>3 DEF BadDirective, SecondWord, Reserves

\* FinishRound moves the loop on and records where the round began.
RoundTaken(section, counters) ==
    /\ Here' = [section |-> section,
                counters |-> Bump(counters, section, SecondWord(CurrentLine))]
    /\ i' = i + 1
    /\ mark' = Append(mark, Here)
    /\ phase' = phase
    /\ UNCHANGED <<program_lines, binary_buffer>>

LEMMA RoundIsTaken ==
    ASSUME NEW section, NEW counters, NEW itemSize, NEW table,
           FinishRound(section, counters, itemSize, table)
    PROVE  RoundTaken(section, counters)
BY DEF FinishRound, RoundTaken, Here

\* Lines that agree in kind, name and number take a place to the same place:
\* handing a label on changes nothing of the layout.
SameShape(line, other) ==
    line.kind = other.kind /\ line.name = other.name /\ line.n = other.n

LEMMA AdvanceByShape ==
    ASSUME NEW line, NEW other, NEW place, SameShape(line, other)
    PROVE  Advance(line, place) = Advance(other, place)
<1>1. DirectiveSize(line) = DirectiveSize(other)
  BY DEF SameShape, DirectiveSize
<1>2. EncodedSize(line) = EncodedSize(other)
  BY DEF SameShape, EncodedSize
<1>3. Footprint(line) = Footprint(other)
  BY <1>1, <1>2 DEF SameShape, Footprint
<1>4. SectionAfter(line, place.section) = SectionAfter(other, place.section)
  BY DEF SameShape, SectionAfter
<1>. QED
  BY <1>3, <1>4 DEF Advance

\* What a round of the first pass does, label lines included.
FirstStep ==
    /\ Here' = Advance(CurrentLine, Here)
    /\ Below(location_counter, location_counter')
    /\ CurrentLine.name # "end"
    /\ i' = i + 1
    /\ mark' = Append(mark, Here)
    /\ phase' = phase
    /\ DOMAIN program_lines' = DOMAIN program_lines
    /\ \A k \in DOMAIN program_lines : SameShape(program_lines[k], program_lines'[k])
    /\ UNCHANGED binary_buffer

LEMMA FirstSteps ==
    ASSUME TypeOK, EndAhead, FirstPass
    PROVE  FirstStep \/ RejectFirst \/ EndFirstPass
<1>a. CurrentLine \in Line /\ CurrentLine.kind \in Kinds
  BY CurrentLineTyped DEF Line
<1>b. current_section \in Sections /\ location_counter \in Counters
  BY DEF TypeOK
<1>c. ASSUME NEW amount \in Nat, NEW section \in Sections, CurrentLine.name # "end",
             RoundTaken(section, Bump(location_counter, section, amount)),
             section = SectionAfter(CurrentLine, current_section),
             amount + SecondWord(CurrentLine) = Footprint(CurrentLine)
      PROVE  FirstStep
  <2>1. SecondWord(CurrentLine) \in Nat
    BY <1>a, SizeTyped
  <2>2. Footprint(CurrentLine) \in Nat
    BY <1>c, <2>1
  <2>3. Here' = [section |-> section,
                 counters |-> Bump(location_counter, section, Footprint(CurrentLine))]
    BY <1>b, <1>c, <2>1, BumpTwice DEF RoundTaken
  <2>4. Here' = Advance(CurrentLine, Here)
    BY <1>c, <2>3 DEF Advance, Here
  <2>5. Below(location_counter, location_counter')
    BY <1>b, <2>2, <2>3, BumpGrows DEF Here
  <2>. QED
    BY <1>c, <2>4, <2>5 DEF RoundTaken, FirstStep, SameShape
<1>1. CASE SwitchSection
  <2>. DEFINE name == CurrentLine.name
  <2>1. name \in Sections /\ CurrentLine.kind = "directive"
    BY <1>1 DEF SwitchSection, InPass, SectionNames, Sections
  <2>2. ~BadDirective(CurrentLine) /\ DirectiveSize(CurrentLine) = 0
    BY <1>1 DEF SwitchSection, DirectiveSize, BadDirective, UnitSize,
                SizelessDirectives, SectionNames
  <2>3. SecondWord(CurrentLine) = 0 /\ Footprint(CurrentLine) = 0
    BY <1>a, <2>1, <2>2, DirectiveNames DEF Footprint
  <2>4. RoundTaken(name, Bump(location_counter, name, 0))
    BY <1>1, <1>b, <2>1, BumpZero, RoundIsTaken DEF SwitchSection
  <2>. QED
    BY <1>1, <1>c, <2>1, <2>3, <2>4 DEF SwitchSection, InPass, SectionAfter
<1>2. CASE DeclareExtern \/ PassOverDirective
  <2>1. /\ CurrentLine.kind = "directive" /\ CurrentLine.name # "end"
        /\ CurrentLine.name \notin SectionNames
        /\ DirectiveSize(CurrentLine) = 0
    BY <1>2 DEF DeclareExtern, PassOverDirective, InPass, DirectiveSize, UnitSize,
                SizelessDirectives, SectionNames
  <2>2. SecondWord(CurrentLine) = 0 /\ Footprint(CurrentLine) = 0
    BY <1>a, <2>1, DirectiveNames DEF Footprint, BadDirective
  <2>3. RoundTaken(current_section, location_counter)
    BY <1>2, RoundIsTaken DEF DeclareExtern, PassOverDirective
  <2>4. RoundTaken(current_section, Bump(location_counter, current_section, 0))
    BY <1>b, <2>3, BumpZero
  <2>. QED
    BY <1>b, <1>c, <2>1, <2>2, <2>4 DEF SectionAfter
<1>3. CASE ReserveItem
  <2>. DEFINE amount == DirectiveSize(CurrentLine)
  <2>1. /\ CurrentLine.kind = "directive" /\ CurrentLine.name # "end"
        /\ Reserves(CurrentLine) /\ ~BadDirective(CurrentLine)
    BY <1>3 DEF ReserveItem, InPass, Reserves
  <2>2. /\ amount \in Nat /\ SecondWord(CurrentLine) = 0
        /\ CurrentLine.name \notin SectionNames
    BY <1>a, <2>1, DirectiveNames
  <2>3. Footprint(CurrentLine) = amount
    BY <2>1 DEF Footprint
  <2>4. RoundTaken(current_section, Bump(location_counter, current_section, amount))
    BY <1>3, RoundIsTaken DEF ReserveItem
  <2>. HIDE DEF amount
  <2>. QED
    BY <1>b, <1>c, <2>1, <2>2, <2>3, <2>4 DEF SectionAfter
<1>4. CASE SizeInstruction
  <2>1. CurrentLine.kind = "instruction" /\ CurrentLine.name # "end"
    BY <1>4 DEF SizeInstruction, InPass
  <2>2. Footprint(CurrentLine) = InstructionSize + SecondWord(CurrentLine)
    BY <2>1 DEF Footprint, EncodedSize, SecondWord, InstructionSize
  <2>3. RoundTaken(current_section,
                   Bump(location_counter, current_section, InstructionSize))
    BY <1>4, RoundIsTaken DEF SizeInstruction
  <2>4. InstructionSize \in Nat
    BY DEF InstructionSize
  <2>. QED
    BY <1>b, <1>c, <2>1, <2>2, <2>3, <2>4 DEF SectionAfter
<1>5. CASE PassOverBlank
  <2>1. CurrentLine.kind = "undefined" /\ CurrentLine.name # "end"
    BY <1>5 DEF PassOverBlank, InPass
  <2>2. SecondWord(CurrentLine) = 0 /\ Footprint(CurrentLine) = 0
    BY <1>a, <2>1 DEF Footprint, SecondWord, Line, NoName
  <2>3. RoundTaken(current_section, location_counter)
    BY <1>5, RoundIsTaken DEF PassOverBlank
  <2>4. RoundTaken(current_section, Bump(location_counter, current_section, 0))
    BY <1>b, <2>3, BumpZero
  <2>. QED
    BY <1>b, <1>c, <2>1, <2>2, <2>4 DEF SectionAfter
<1>6. CASE CarryLabel
  <2>1. CurrentLine.kind = "label" /\ CurrentLine.name # "end"
    BY <1>6 DEF CarryLabel, InPass
  <2>2. Here' = Here
    BY <1>6 DEF CarryLabel, Here
  <2>3. Here = Advance(CurrentLine, Here)
    BY <1>b, <2>1, BumpZero DEF Advance, Footprint, SectionAfter, Here
  <2>4. Below(location_counter, location_counter')
    BY <1>6, <1>b DEF CarryLabel, Below, Counters
  <2>5. /\ DOMAIN program_lines' = DOMAIN program_lines
        /\ \A k \in DOMAIN program_lines : SameShape(program_lines[k], program_lines'[k])
    <3>1. /\ program_lines' = [program_lines EXCEPT ![i + 1].label = CurrentLine.label]
          /\ program_lines \in Seq(Line)
      BY <1>6 DEF CarryLabel, TypeOK
    <3>2. DOMAIN program_lines' = DOMAIN program_lines
      BY <3>1
    <3>3. ASSUME NEW k \in DOMAIN program_lines
          PROVE  SameShape(program_lines[k], program_lines'[k])
      <4>1. program_lines[k] \in Line
        BY <3>1
      <4>2. program_lines'[k] \in {program_lines[k],
                                   [program_lines[k] EXCEPT !.label = CurrentLine.label]}
        BY <3>1
      <4>. QED
        BY <4>1, <4>2 DEF SameShape, Line
    <3>. QED
      BY <3>2, <3>3
  <2>. QED
    BY <1>6, <2>1, <2>2, <2>3, <2>4, <2>5 DEF CarryLabel, FirstStep
<1>. QED
  BY <1>1, <1>2, <1>3, <1>4, <1>5, <1>6 DEF FirstPass

LEMMA InitAgrees == Init => PassesAgree
<1>. SUFFICES ASSUME Init PROVE PassesAgree
  OBVIOUS
<1>1. EndAhead
  BY InitTyped
<1>2. MarksFollowLines
  BY DEF Init, MarksFollowLines
<1>3. FirstPassAhead
  BY DEF Init, FirstPassAhead, Here
<1>4. SecondPassOnMarks
  BY DEF Init, SecondPassOnMarks
<1>5. WithinBuffers
  BY DEF Init, WithinBuffers
<1>. QED
  BY <1>1, <1>2, <1>3, <1>4, <1>5 DEF PassesAgree

LEMMA BelowTransitive ==
    ASSUME NEW b \in Counters, NEW c \in Counters, NEW d \in Counters,
           Below(b, c), Below(c, d)
    PROVE  Below(b, d)
<1>. SUFFICES ASSUME NEW s \in Sections PROVE b[s] <= d[s]
  BY DEF Below
<1>1. b[s] \in Nat /\ c[s] \in Nat /\ d[s] \in Nat
  BY DEF Counters
<1>2. b[s] <= c[s] /\ c[s] <= d[s]
  BY DEF Below
<1>. QED
  BY <1>1, <1>2

LEMMA ElementTyped ==
    ASSUME NEW T, NEW s \in Seq(T), NEW k \in DOMAIN s
    PROVE  s[k] \in T
OBVIOUS

LEMMA MarksTyped ==
    ASSUME TypeOK, NEW k \in DOMAIN mark
    PROVE  mark[k].section \in Sections /\ mark[k].counters \in Counters
<1>1. mark \in Seq([section: Sections, counters: Counters])
  BY DEF TypeOK
<1>2. mark[k] \in [section: Sections, counters: Counters]
  BY <1>1, ElementTyped
<1>. QED
  BY <1>2

LEMMA AppendedMark ==
    ASSUME NEW T, NEW t \in Seq(T), NEW x, NEW n \in Nat, Len(t) = n - 1
    PROVE  /\ Len(Append(t, x)) = Len(t) + 1
           /\ DOMAIN t = 1 .. Len(t)
           /\ DOMAIN Append(t, x) = 1 .. n
           /\ \A k \in DOMAIN t : Append(t, x)[k] = t[k]
           /\ Append(t, x)[n] = x
<1>1. t \in Seq(T \cup {x})
  OBVIOUS
<1>. QED
  BY <1>1

LEMMA LastAppended ==
    ASSUME NEW T, NEW t \in Seq(T), NEW x,
           NEW k \in DOMAIN Append(t, x), k \notin DOMAIN t
    PROVE  Append(t, x)[k] = x
<1>1. t \in Seq(T \cup {x})
  OBVIOUS
<1>. QED
  BY <1>1

LEMMA FirstStepAgrees ==
    ASSUME TypeOK, TypeOK', PassesAgree, phase = "first", EndAhead', FirstStep
    PROVE  PassesAgree'
<1>. USE DEF PassesAgree
<1>1. /\ Len(mark') = Len(mark) + 1 /\ Len(mark) = i - 1
      /\ DOMAIN mark = 1 .. Len(mark) /\ DOMAIN mark' = 1 .. i
      /\ \A k \in DOMAIN mark : mark'[k] = mark[k]
      /\ mark'[i] = Here
  <2>1. i \in Nat \ {0} /\ Len(mark) = i - 1 /\ mark' = Append(mark, Here)
    BY DEF FirstStep, FirstPassAhead, TypeOK
  <2>2. mark \in Seq([section: Sections, counters: Counters])
    BY DEF TypeOK
  <2>. QED
    BY <2>1, <2>2, AppendedMark
<1>2. /\ i \in DOMAIN program_lines /\ i \in Nat \ {0}
      /\ DOMAIN program_lines = 1 .. Len(program_lines)
  BY CurrentLineTyped DEF TypeOK
<1>3. \A k \in DOMAIN program_lines :
        /\ program_lines'[k].name = program_lines[k].name
        /\ \A place : Advance(program_lines'[k], place) = Advance(program_lines[k], place)
  BY AdvanceByShape DEF FirstStep, SameShape
<1>4. MarksFollowLines'
  <2>1. ASSUME NEW k \in DOMAIN mark', k < Len(mark')
        PROVE  /\ program_lines'[k].name # "end"
               /\ mark'[k + 1] = Advance(program_lines'[k], mark'[k])
    <3>1. k \in DOMAIN mark /\ k \in DOMAIN program_lines
      BY <1>1, <1>2, <2>1
    <3>2. CASE k < Len(mark)
      <4>1. k + 1 \in DOMAIN mark
        BY <1>1, <3>1, <3>2
      <4>. QED
        BY <1>1, <1>3, <3>1, <3>2, <4>1 DEF MarksFollowLines
    <3>3. CASE k = Len(mark)
      <4>1. program_lines[k].name # "end" /\ Here = Advance(program_lines[k], mark[k])
        BY <3>1, <3>3 DEF MarksFollowLines
      <4>2. mark'[k + 1] = Here
        BY <1>1, <1>2, <3>3
      <4>. QED
        BY <1>1, <1>3, <3>1, <4>1, <4>2
    <3>. QED
      BY <1>1, <3>1, <3>2, <3>3
  <2>2. ASSUME NEW k \in DOMAIN mark', ~(k < Len(mark'))
        PROVE  /\ program_lines'[k].name # "end"
               /\ Here' = Advance(program_lines'[k], mark'[k])
    <3>1. k = i
      BY <1>1, <1>2, <2>2
    <3>2. CurrentLine.name # "end" /\ Here' = Advance(CurrentLine, Here)
      BY DEF FirstStep
    <3>. QED
      BY <1>1, <1>2, <1>3, <3>1, <3>2 DEF CurrentLine
  <2>. QED
    BY <2>1, <2>2 DEF MarksFollowLines
<1>5. FirstPassAhead'
  <2>1. Len(mark') = i' - 1 /\ mark' # << >>
    BY <1>1, <1>2 DEF FirstStep
  <2>2. mark'[1] = [section |-> "none", counters |-> Zeroes]
    <3>1. CASE mark = << >>
      <4>1. i = 1
        BY <1>1, <1>2, <3>1
      <4>. QED
        BY <1>1, <3>1, <4>1 DEF FirstPassAhead
    <3>2. CASE mark # << >>
      <4>1. 1 \in DOMAIN mark
        BY <1>1, <3>2 DEF TypeOK
      <4>. QED
        BY <1>1, <3>2, <4>1 DEF FirstPassAhead
    <3>. QED
      BY <3>1, <3>2
  <2>3. ASSUME NEW k \in DOMAIN mark' PROVE Below(mark'[k].counters, location_counter')
    <3>1. location_counter \in Counters /\ location_counter' \in Counters
      BY DEF TypeOK
    <3>2. Below(location_counter, location_counter')
      BY DEF FirstStep
    <3>3. CASE k \in DOMAIN mark
      <4>1. mark[k].counters \in Counters
        BY <3>3, MarksTyped
      <4>2. Below(mark[k].counters, location_counter)
        BY <3>3 DEF FirstPassAhead
      <4>. QED
        BY <1>1, <3>1, <3>2, <3>3, <4>1, <4>2, BelowTransitive
    <3>4. CASE k = i
      BY <1>1, <3>2, <3>4 DEF Here
    <3>. QED
      BY <1>1, <1>2, <3>3, <3>4
  <2>4. \A s \in Sections : binary_buffer'[s] = << >>
    BY DEF FirstStep, FirstPassAhead
  <2>. QED
    BY <2>1, <2>2, <2>3, <2>4 DEF FirstPassAhead
<1>6. SecondPassOnMarks'
  BY DEF FirstStep, SecondPassOnMarks
<1>7. WithinBuffers'
  BY DEF FirstStep, FirstPassAhead, WithinBuffers
<1>. QED
  BY <1>4, <1>5, <1>6, <1>7

LEMMA EndFirstPassAgrees ==
    ASSUME TypeOK, PassesAgree, EndAhead', EndFirstPass
    PROVE  PassesAgree'
<1>. USE DEF PassesAgree
<1>1. /\ phase = "first" /\ phase' = "second" /\ i' = 1
      /\ program_lines' = program_lines /\ binary_buffer' = binary_buffer
      /\ buffer_size' = location_counter
      /\ Here' = [section |-> "none", counters |-> Zeroes]
      /\ program_lines[i].name = "end"
  BY DEF EndFirstPass, Here, CurrentLine
<1>2. /\ i \in Nat \ {0} /\ Len(mark) = i - 1
      /\ Len(mark') = i /\ DOMAIN mark = 1 .. i - 1 /\ DOMAIN mark' = 1 .. i
      /\ \A k \in DOMAIN mark : mark'[k] = mark[k]
      /\ mark'[i] = Here
  <2>1. i \in Nat \ {0} /\ Len(mark) = i - 1 /\ mark' = Append(mark, Here)
    BY DEF EndFirstPass, FirstPassAhead, TypeOK
  <2>2. mark \in Seq([section: Sections, counters: Counters])
    BY DEF TypeOK
  <2>. QED
    BY <2>1, <2>2, AppendedMark
<1>3. MarksFollowLines'
  <2>1. ASSUME NEW k \in DOMAIN mark', k < Len(mark')
        PROVE  /\ program_lines[k].name # "end"
               /\ mark'[k + 1] = Advance(program_lines[k], mark'[k])
    <3>1. k \in DOMAIN mark
      BY <1>2, <2>1
    <3>2. CASE k < Len(mark)
      <4>1. k + 1 \in DOMAIN mark
        BY <1>2, <3>1, <3>2
      <4>. QED
        BY <1>2, <3>1, <3>2, <4>1 DEF MarksFollowLines
    <3>3. CASE k = Len(mark)
      <4>1. program_lines[k].name # "end" /\ Here = Advance(program_lines[k], mark[k])
        BY <1>1, <3>1, <3>3 DEF MarksFollowLines
      <4>2. mark'[k + 1] = Here
        BY <1>2, <3>3
      <4>. QED
        BY <1>2, <3>1, <4>1, <4>2
    <3>. QED
      BY <1>2, <3>1, <3>2, <3>3
  <2>. QED
    BY <1>1, <2>1 DEF MarksFollowLines
<1>4. FirstPassAhead'
  BY <1>1 DEF FirstPassAhead
<1>5. SecondPassOnMarks'
  <2>1. Here' = mark'[i']
    <3>1. CASE i = 1
      <4>1. mark = << >>
        BY <1>2, <3>1 DEF TypeOK
      <4>. QED
        BY <1>1, <1>2, <3>1, <4>1 DEF FirstPassAhead
    <3>2. CASE i # 1
      <4>1. 1 \in DOMAIN mark /\ mark # << >>
        BY <1>2, <3>2
      <4>. QED
        BY <1>1, <1>2, <4>1 DEF FirstPassAhead
    <3>. QED
      BY <3>1, <3>2
  <2>2. ASSUME NEW k \in DOMAIN mark' PROVE Below(mark'[k].counters, location_counter)
    <3>1. CASE k \in DOMAIN mark
      BY <1>1, <1>2, <3>1 DEF FirstPassAhead
    <3>2. CASE k = i
      BY <1>2, <3>2 DEF Here, Below, TypeOK, Counters
    <3>. QED
      BY <1>2, <3>1, <3>2
  <2>3. buffer_size' = mark'[Len(mark')].counters
    BY <1>1, <1>2 DEF Here
  <2>. QED
    BY <1>1, <1>2, <2>1, <2>2, <2>3 DEF SecondPassOnMarks
<1>6. WithinBuffers'
  BY <1>1 DEF FirstPassAhead, WithinBuffers
<1>. QED
  BY <1>3, <1>4, <1>5, <1>6

\* A second pass round ends where Advance says, and what it emits lies
\* between the two places.
SecondStep ==
    /\ Here' = Advance(CurrentLine, Here)
    /\ CurrentLine.name # "end"
    /\ i' = i + 1
    /\ UNCHANGED <<program_lines, phase, buffer_size, mark>>
    /\ \/ UNCHANGED binary_buffer
       \/ \E bytes \in Nat : \E group :
             /\ Emit(bytes, group)
             /\ location_counter' = Bump(location_counter, current_section, bytes)

LEMMA SecondSteps ==
    ASSUME TypeOK, EndAhead, SecondPass
    PROVE  SecondStep \/ RejectSecond \/ WriteObject
<1>a. CurrentLine \in Line /\ CurrentLine.kind \in Kinds
  BY CurrentLineTyped DEF Line
<1>b. current_section \in Sections /\ location_counter \in Counters
  BY DEF TypeOK
<1>1. CASE EnterSection
  <2>1. /\ CurrentLine.name \in SectionNames /\ CurrentLine.name \in Sections
        /\ CurrentLine.kind = "directive" /\ CurrentLine.name # "end"
    BY <1>1 DEF EnterSection, InPass, SectionNames, Sections
  <2>2. Footprint(CurrentLine) = 0
    BY <2>1 DEF Footprint, DirectiveSize, UnitSize, SizelessDirectives, SectionNames
  <2>3. Here' = Advance(CurrentLine, Here)
    BY <1>1, <1>b, <2>1, <2>2, BumpZero DEF EnterSection, Advance, SectionAfter, Here
  <2>. QED
    BY <1>1, <2>1, <2>3 DEF EnterSection, NextLine, SecondStep
<1>2. CASE Export \/ PassOver
  <2>1. CurrentLine.name # "end" /\ Footprint(CurrentLine) = 0
    BY <1>2 DEF Export, PassOver, InPass, Footprint, DirectiveSize, UnitSize,
                SizelessDirectives, SectionNames
  <2>2. SectionAfter(CurrentLine, current_section) = current_section
    BY <1>2 DEF Export, PassOver, SectionAfter, SectionNames
  <2>3. Here' = Here
    BY <1>2 DEF Export, PassOver, Here
  <2>4. Here' = Advance(CurrentLine, Here)
    BY <1>b, <2>1, <2>2, <2>3, BumpZero DEF Advance, Here
  <2>. QED
    BY <1>2, <2>1, <2>4 DEF Export, PassOver, NextLine, SecondStep
<1>3. CASE EmitData
  <2>. DEFINE bytes == DirectiveSize(CurrentLine)
  <2>1. CurrentLine.kind = "directive" /\ CurrentLine.name # "end" /\ Reserves(CurrentLine)
    BY <1>3 DEF EmitData, InPass
  <2>2. ~BadDirective(CurrentLine)
    BY <2>1 DEF Reserves
  <2>3. bytes \in Nat /\ CurrentLine.name \notin SectionNames
    BY <1>a, <2>1, <2>2, DirectiveNames
  <2>4. Footprint(CurrentLine) = bytes
    BY <2>1 DEF Footprint
  <2>5. Emit(bytes, "datum")
    BY <1>3 DEF EmitData
  <2>6. UNCHANGED <<current_section, program_lines, phase, buffer_size, mark>> /\ i' = i + 1
    BY <1>3 DEF EmitData, NextLine
  <2>. HIDE DEF bytes
  <2>7. Here' = Advance(CurrentLine, Here)
    BY <2>3, <2>4, <2>5, <2>6 DEF Emit, Advance, SectionAfter, Here
  <2>. QED
    BY <2>1, <2>3, <2>5, <2>6, <2>7 DEF SecondStep, Emit
<1>4. CASE EncodeInstruction
  <2>. DEFINE bytes == EncodedSize(CurrentLine)
  <2>1. CurrentLine.kind = "instruction" /\ CurrentLine.name # "end"
    BY <1>4 DEF EncodeInstruction, InPass
  <2>2. bytes \in Nat
    BY <1>a, SizeTyped
  <2>3. Footprint(CurrentLine) = bytes
    BY <2>1 DEF Footprint
  <2>4. PICK group \in Decoded(CurrentLine.name) : Emit(bytes, group)
    BY <1>4 DEF EncodeInstruction
  <2>5. UNCHANGED <<current_section, program_lines, phase, buffer_size, mark>> /\ i' = i + 1
    BY <1>4 DEF EncodeInstruction, NextLine
  <2>. HIDE DEF bytes
  <2>6. Here' = Advance(CurrentLine, Here)
    BY <2>1, <2>3, <2>4, <2>5 DEF Emit, Advance, SectionAfter, Here
  <2>. QED
    BY <2>1, <2>2, <2>4, <2>5, <2>6 DEF SecondStep, Emit
<1>. QED
  BY <1>1, <1>2, <1>3, <1>4 DEF SecondPass

LEMMA SecondStepAgrees ==
    ASSUME TypeOK, TypeOK', PassesAgree, phase = "second", EndAhead', SecondStep
    PROVE  PassesAgree'
<1>. USE DEF PassesAgree
<1>1. /\ phase' = "second" /\ i' = i + 1
      /\ program_lines' = program_lines /\ buffer_size' = buffer_size /\ mark' = mark
  BY DEF SecondStep
<1>2. /\ i \in DOMAIN mark /\ Here = mark[i]
      /\ program_lines[i].name # "end" /\ program_lines[Len(mark)].name = "end"
      /\ DOMAIN mark = 1 .. Len(mark) /\ Len(mark) \in Nat
  BY DEF SecondPassOnMarks, SecondStep, CurrentLine, TypeOK
<1>3. i < Len(mark) /\ i + 1 \in DOMAIN mark
  BY <1>2
<1>4. Here' = mark[i + 1]
  <2>1. mark[i + 1] = Advance(program_lines[i], mark[i])
    BY <1>2, <1>3 DEF MarksFollowLines
  <2>2. Here' = Advance(CurrentLine, Here)
    BY DEF SecondStep
  <2>. QED
    BY <1>2, <2>1, <2>2 DEF CurrentLine
<1>5. MarksFollowLines'
  BY <1>1 DEF MarksFollowLines
<1>6. FirstPassAhead'
  BY <1>1 DEF FirstPassAhead
<1>7. SecondPassOnMarks'
  BY <1>1, <1>3, <1>4 DEF SecondPassOnMarks
<1>8. WithinBuffers'
  <2>1. CASE UNCHANGED binary_buffer
    BY <1>1, <2>1 DEF WithinBuffers
  <2>2. ASSUME NEW bytes \in Nat, NEW group, Emit(bytes, group),
               location_counter' = Bump(location_counter, current_section, bytes)
        PROVE  WithinBuffers'
    <3>. DEFINE chunk == [line |-> i, at |-> location_counter[current_section],
                          size |-> bytes, group |-> group]
    <3>1. current_section \in Sections /\ location_counter \in Counters
      BY DEF TypeOK
    <3>2. location_counter'[current_section] = chunk.at + chunk.size
      BY <2>2, <3>1 DEF Bump, Counters
    <3>3. Below(location_counter', buffer_size)
      BY <1>2, <1>3, <1>4 DEF SecondPassOnMarks, Here
    <3>4. chunk.at + chunk.size <= buffer_size[current_section]
      BY <3>1, <3>2, <3>3 DEF Below
    <3>5. binary_buffer' = [binary_buffer EXCEPT ![current_section] = Append(@, chunk)]
      BY <2>2 DEF Emit
    <3>6. binary_buffer[current_section] \in Seq(Chunk)
      BY <3>1 DEF TypeOK
    <3>. HIDE DEF chunk
    <3>7. ASSUME NEW s \in Sections, NEW k \in DOMAIN binary_buffer'[s]
          PROVE  binary_buffer'[s][k].at + binary_buffer'[s][k].size <= buffer_size[s]
      <4>1. CASE s # current_section
        <5>1. binary_buffer'[s] = binary_buffer[s]
          BY <3>5, <4>1 DEF TypeOK
        <5>. QED
          BY <3>7, <5>1 DEF WithinBuffers
      <4>2. CASE s = current_section
        <5>1. binary_buffer'[s] = Append(binary_buffer[s], chunk)
          BY <3>1, <3>5, <4>2 DEF TypeOK
        <5>2. CASE k \in DOMAIN binary_buffer[s]
          <6>1. binary_buffer'[s][k] = binary_buffer[s][k]
            BY <3>6, <4>2, <5>1, <5>2
          <6>. QED
            BY <5>2, <6>1 DEF WithinBuffers
        <5>3. CASE k \notin DOMAIN binary_buffer[s]
          <6>1. binary_buffer'[s][k] = chunk
            BY <3>6, <3>7, <4>2, <5>1, <5>3, LastAppended
          <6>. QED
            BY <3>4, <4>2, <6>1
        <5>. QED
          BY <5>2, <5>3
      <4>. QED
        BY <4>1, <4>2
    <3>. QED
      BY <1>1, <3>7 DEF WithinBuffers
  <2>. QED
    BY <2>1, <2>2 DEF SecondStep
<1>. QED
  BY <1>5, <1>6, <1>7, <1>8

LEMMA NextAgrees ==
    TypeOK /\ PassesAgree /\ [Next]_vars => PassesAgree'
<1>. SUFFICES ASSUME TypeOK, PassesAgree, [Next]_vars PROVE PassesAgree'
  OBVIOUS
<1>a. EndAhead /\ TypeOK' /\ EndAhead'
  BY NextTyped DEF PassesAgree
<1>1. CASE FirstPass
  <2>1. phase = "first"
    BY <1>1 DEF FirstPass, SwitchSection, DeclareExtern, ReserveItem, PassOverDirective,
                SizeInstruction, PassOverBlank, CarryLabel, RejectFirst, EndFirstPass, InPass
  <2>2. CASE FirstStep
    BY <1>a, <2>1, <2>2, FirstStepAgrees
  <2>3. CASE RejectFirst
    BY <1>a, <2>3 DEF RejectFirst, PassesAgree, MarksFollowLines, FirstPassAhead,
                      SecondPassOnMarks, WithinBuffers
  <2>4. CASE EndFirstPass
    BY <1>a, <2>4, EndFirstPassAgrees
  <2>. QED
    BY <1>a, <1>1, <2>2, <2>3, <2>4, FirstSteps
<1>2. CASE SecondPass
  <2>1. phase = "second"
    BY <1>2 DEF SecondPass, EnterSection, Export, EmitData, EncodeInstruction, PassOver,
                RejectSecond, WriteObject, InPass
  <2>2. CASE SecondStep
    BY <1>a, <2>1, <2>2, SecondStepAgrees
  <2>3. CASE RejectSecond
    BY <1>a, <2>1, <2>3 DEF RejectSecond, PassesAgree, MarksFollowLines, FirstPassAhead,
                            SecondPassOnMarks, WithinBuffers
  <2>4. CASE WriteObject
    <3>1. /\ phase' = "done" /\ Here' = Here
          /\ UNCHANGED <<program_lines, i, buffer_size, binary_buffer, mark>>
          /\ program_lines[i].name = "end"
      BY <2>4 DEF WriteObject, Here, CurrentLine
    <3>2. SecondPassOnMarks'
      BY <2>1, <3>1 DEF PassesAgree, SecondPassOnMarks
    <3>3. MarksFollowLines' /\ FirstPassAhead' /\ WithinBuffers'
      BY <2>1, <3>1 DEF PassesAgree, MarksFollowLines, FirstPassAhead, WithinBuffers
    <3>. QED
      BY <1>a, <3>2, <3>3 DEF PassesAgree
  <2>. QED
    BY <1>a, <1>2, <2>2, <2>3, <2>4, SecondSteps
<1>3. CASE UNCHANGED vars
  BY <1>3 DEF vars, PassesAgree, EndAhead, MarksFollowLines, FirstPassAhead,
              SecondPassOnMarks, WithinBuffers, Here
<1>. QED
  BY <1>1, <1>2, <1>3 DEF Next, Exited

\* The inductive invariant holds: the second pass is always where the first
\* pass was at the same line.
THEOREM PassesAgreeAlways == Spec => []PassesAgree
<1>1. Init => TypeOK /\ PassesAgree
  BY InitTyped, InitAgrees
<1>2. TypeOK /\ PassesAgree /\ [Next]_vars => TypeOK' /\ PassesAgree'
  BY NextTyped, NextAgrees DEF PassesAgree
<1>. QED
  BY <1>1, <1>2, PTL DEF Spec

\* No program makes the second pass copy beyond a buffer it allocated.
THEOREM NoOverrun == Spec => []WithinBuffers
<1>1. PassesAgree => WithinBuffers
  BY DEF PassesAgree
<1>. QED
  BY <1>1, PassesAgreeAlways, PTL

\* The section sizes the first pass computed are exact.
THEOREM SizesExact == Spec => []ExactSizes
<1>1. TypeOK /\ PassesAgree => ExactSizes
  <2>. SUFFICES ASSUME TypeOK, PassesAgree, phase = "done"
                PROVE  location_counter = buffer_size
    BY DEF ExactSizes
  <2>1. /\ i \in DOMAIN mark /\ Here = mark[i] /\ program_lines[i].name = "end"
        /\ buffer_size = mark[Len(mark)].counters
    BY DEF PassesAgree, SecondPassOnMarks
  <2>2. DOMAIN mark = 1 .. Len(mark) /\ Len(mark) \in Nat
    BY DEF TypeOK
  <2>3. ~(i < Len(mark))
    BY <2>1 DEF PassesAgree, MarksFollowLines
  <2>4. i = Len(mark)
    BY <2>1, <2>2, <2>3
  <2>. QED
    BY <2>1, <2>4 DEF Here
<1>. QED
  BY <1>1, PassesAgreeAlways, TypeCorrect, PTL

-----------------------------------------------------------------------------
(* Indexes are stable.  An action leaves the table alone, appends to it or  *)
(* (Export alone) rewrites scopes in place.                                 *)

Keeps(t, u) ==
    \A k \in DOMAIN t : k \in DOMAIN u /\ u[k] = [t[k] EXCEPT !.scope = u[k].scope]

LEMMA PrefixKeeps ==
    ASSUME NEW t \in Seq(Symbol(Names)), NEW u \in Seq(Symbol(Names)),
           \A k \in DOMAIN t : k \in DOMAIN u /\ u[k] = t[k]
    PROVE  Keeps(t, u)
<1>1. ASSUME NEW k \in DOMAIN t PROVE t[k] = [t[k] EXCEPT !.scope = t[k].scope]
  <2>1. t[k] \in Symbol(Names)
    BY ElementTyped
  <2>. QED
    BY <2>1 DEF Symbol
<1>. QED
  BY <1>1 DEF Keeps

LEMMA RoundKeeps ==
    ASSUME TypeOK, TypeOK', NEW section, NEW counters, NEW itemSize,
           NEW table \in Seq(Symbol(Names)),
           \A k \in DOMAIN symtable : k \in DOMAIN table /\ table[k] = symtable[k],
           FinishRound(section, counters, itemSize, table)
    PROVE  Keeps(symtable, symtable')
<1>1. symtable \in Seq(Symbol(Names)) /\ symtable' \in Seq(Symbol(Names))
  BY DEF TypeOK
<1>2. \E symbol : symtable' \in {table, Append(table, symbol)}
  BY DEF FinishRound, AddSymbol
<1>3. PICK symbol : symtable' \in {table, Append(table, symbol)}
  BY <1>2
<1>4. \A k \in DOMAIN table : k \in DOMAIN symtable' /\ symtable'[k] = table[k]
  <2>1. CASE symtable' = table
    BY <2>1
  <2>2. CASE symtable' = Append(table, symbol)
    <3>1. table \in Seq(Symbol(Names) \cup {symbol})
      OBVIOUS
    <3>. QED
      BY <2>2, <3>1
  <2>. QED
    BY <1>3, <2>1, <2>2
<1>. QED
  BY <1>1, <1>4, PrefixKeeps

LEMMA StepKeeps ==
    ASSUME TypeOK, EndAhead, [Next]_vars
    PROVE  Keeps(symtable, symtable')
<1>a. TypeOK' /\ symtable \in Seq(Symbol(Names))
  BY NextTyped DEF TypeOK
<1>1. CASE symtable' = symtable
  BY <1>1, <1>a, PrefixKeeps
<1>2. CASE \E section, counters, itemSize :
              FinishRound(section, counters, itemSize, symtable)
  BY <1>2, <1>a, RoundKeeps
<1>3. CASE DeclareExtern
  <2>. DEFINE externs == [k \in DOMAIN CurrentLine.args |->
                             ExternSymbol(CurrentLine.args[k].name)]
              table == symtable \o externs
  <2>1. FinishRound(current_section, location_counter, 0, table)
    BY <1>3 DEF DeclareExtern
  <2>2. externs \in Seq(Symbol(Names))
    <3>1. CurrentLine.args \in Seq(Operand)
      BY CurrentLineTyped DEF Line
    <3>2. \A k \in DOMAIN CurrentLine.args :
             ExternSymbol(CurrentLine.args[k].name) \in Symbol(Names)
      <4>1. \A k \in DOMAIN CurrentLine.args : CurrentLine.args[k].name \in Names
        BY <3>1, ArgumentNamed
      <4>. QED
        BY <4>1, SymbolsTyped, 0 \in Nat, 0 \in Int, "none" \in Sections DEF Sections
    <3>. QED
      BY <3>1, <3>2
  <2>3. /\ table \in Seq(Symbol(Names))
        /\ \A k \in DOMAIN symtable : k \in DOMAIN table /\ table[k] = symtable[k]
    <3>. HIDE DEF externs
    <3>. QED
      BY <1>a, <2>2
  <2>. HIDE DEF table
  <2>. QED
    BY <1>a, <2>1, <2>3, RoundKeeps
<1>4. CASE Export
  <2>1. PICK exported : symtable' = [k \in DOMAIN symtable |->
                                       IF k - 1 \in exported
                                       THEN [symtable[k] EXCEPT !.scope = "global"]
                                       ELSE symtable[k]]
    BY <1>4 DEF Export
  <2>2. ASSUME NEW k \in DOMAIN symtable
        PROVE  symtable'[k] = [symtable[k] EXCEPT !.scope = symtable'[k].scope]
    <3>1. symtable[k] \in Symbol(Names)
      BY <1>a, ElementTyped
    <3>2. CASE k - 1 \in exported
      <4>1. symtable'[k] = [symtable[k] EXCEPT !.scope = "global"]
        BY <2>1, <3>2
      <4>2. symtable'[k].scope = "global"
        BY <3>1, <4>1 DEF Symbol
      <4>. QED
        BY <4>1, <4>2
    <3>3. CASE k - 1 \notin exported
      <4>1. symtable'[k] = symtable[k]
        BY <2>1, <3>3
      <4>. QED
        BY <3>1, <4>1 DEF Symbol
    <3>. QED
      BY <3>2, <3>3
  <2>. QED
    BY <2>1, <2>2 DEF Keeps
<1>5. CASE FirstPass
  BY <1>1, <1>2, <1>3, <1>5
  DEF FirstPass, SwitchSection, ReserveItem, PassOverDirective, SizeInstruction,
      PassOverBlank, CarryLabel, RejectFirst, EndFirstPass
<1>6. CASE SecondPass
  BY <1>1, <1>4, <1>6
  DEF SecondPass, EnterSection, EmitData, EncodeInstruction, PassOver, RejectSecond,
      WriteObject
<1>7. CASE UNCHANGED vars
  BY <1>1, <1>7 DEF vars
<1>. QED
  BY <1>5, <1>6, <1>7 DEF Next, Exited

\* No step moves, drops or alters a symbol but for its scope, so an index in
\* the relocation table means the same symbol for good (the relocations hold
\* indexes, nas/as.c:67, and the table goes on growing and being exported).
THEOREM IndexesStableAlways == Spec => IndexesStable
<1>1. /\ Init => TypeOK /\ EndAhead
      /\ TypeOK /\ EndAhead /\ [Next]_vars => TypeOK' /\ EndAhead'
  BY InitTyped, NextTyped
<1>2. TypeOK /\ EndAhead /\ [Next]_vars =>
        [\A k \in DOMAIN symtable :
            /\ k \in DOMAIN symtable'
            /\ symtable'[k] = [symtable[k] EXCEPT !.scope = symtable'[k].scope]]_vars
  BY StepKeeps DEF Keeps
<1>. QED
  BY <1>1, <1>2, PTL DEF Spec, IndexesStable

-----------------------------------------------------------------------------
(***************************************************************************)
(* The two passes implement the abstract layout (module Layout), for every *)
(* set of programs.  PassesAgree says where the second pass stands; what   *)
(* has to be added is what it has written by then.                         *)
(***************************************************************************)

\* In the second pass the slots written are those planned for earlier lines.
WrittenAsPlanned ==
    /\ phase = "first" => \A s \in Sections : binary_buffer[s] = << >>
    /\ phase \in {"second", "done"} =>
          /\ \A slot \in WrittenSlots : \E k \in DOMAIN mark : \E s \in Sections :
                k < i /\ Abstract!Planned(k, s) /\ slot = Abstract!Slot(k, s)
          /\ \A k \in DOMAIN mark : \A s \in Sections :
                k < i /\ Abstract!Planned(k, s) => Abstract!Slot(k, s) \in WrittenSlots

-----------------------------------------------------------------------------
(* The plan is the marks' counters.                                        *)

LEMMA PlanIsMark ==
    ASSUME TypeOK
    PROVE  /\ PlannedPlaces \in Seq(Counters)
           /\ DOMAIN PlannedPlaces = DOMAIN mark
           /\ DOMAIN mark = 1 .. Len(mark)
           /\ Len(PlannedPlaces) = Len(mark)
           /\ Len(mark) \in Nat
           /\ \A k \in DOMAIN mark : PlannedPlaces[k] = mark[k].counters
<1>1. mark \in Seq([section: Sections, counters: Counters])
  BY DEF TypeOK
<1>2. \A k \in 1 .. Len(mark) : mark[k].counters \in Counters
  BY MarksTyped, <1>1
<1>3. PlannedPlaces = [k \in 1 .. Len(mark) |-> mark[k].counters]
  BY <1>1 DEF PlannedPlaces
<1>. QED
  BY <1>1, <1>2, <1>3

LEMMA VerdictOfPhase ==
    /\ phase = "first" => LayoutVerdict = "planning"
    /\ phase = "second" => LayoutVerdict = "writing"
    /\ phase = "done" => LayoutVerdict = "written"
    /\ phase = "failed" => LayoutVerdict = "refused"
BY DEF LayoutVerdict

LEMMA SlotOfChunk ==
    ASSUME NEW s \in Sections, NEW n \in DOMAIN binary_buffer[s]
    PROVE  [line |-> binary_buffer[s][n].line, part |-> s,
            at |-> binary_buffer[s][n].at, size |-> binary_buffer[s][n].size]
              \in WrittenSlots
BY DEF WrittenSlots

LEMMA ChunkOfSlot ==
    ASSUME NEW slot \in WrittenSlots
    PROVE  \E s \in Sections : \E n \in DOMAIN binary_buffer[s] :
              slot = [line |-> binary_buffer[s][n].line, part |-> s,
                      at |-> binary_buffer[s][n].at, size |-> binary_buffer[s][n].size]
BY DEF WrittenSlots

-----------------------------------------------------------------------------
(* First pass: a mark made is a place planned.                             *)

LEMMA MarkingPlans ==
    ASSUME TypeOK, TypeOK', PassesAgree, phase = "first",
           mark' = Append(mark, Here), phase' \in {"first", "second"},
           UNCHANGED binary_buffer
    PROVE  Abstract!Plan
<1>. DEFINE next == Len(mark) + 1
<1>1. /\ DOMAIN mark = 1 .. Len(mark) /\ Len(mark) \in Nat
      /\ DOMAIN mark' = 1 .. next
      /\ \A k \in DOMAIN mark : mark'[k] = mark[k]
      /\ mark'[next] = Here
  <2>1. mark \in Seq([section: Sections, counters: Counters])
    BY DEF TypeOK
  <2>2. Len(mark) \in Nat /\ next \in Nat /\ Len(mark) = next - 1
    BY <2>1
  <2>. HIDE DEF next
  <2>. QED
    BY <2>1, <2>2, AppendedMark
<1>2. /\ DOMAIN PlannedPlaces = 1 .. Len(mark)
      /\ Len(PlannedPlaces) = Len(mark)
      /\ \A k \in DOMAIN mark : PlannedPlaces[k] = mark[k].counters
  BY PlanIsMark
<1>3. /\ DOMAIN PlannedPlaces' = 1 .. next
      /\ \A k \in 1 .. next : PlannedPlaces'[k] = mark'[k].counters
  BY <1>1 DEF PlannedPlaces
<1>4. PlannedPlaces'[next] = location_counter /\ location_counter \in Counters
  BY <1>1, <1>3 DEF Here, TypeOK
<1>5. ASSUME PlannedPlaces # << >>
      PROVE  Abstract!Follows(PlannedPlaces[Len(mark)], location_counter)
  <2>. DEFINE k == Len(mark)
              section == SectionAfter(program_lines[k], mark[k].section)
  <2>1. k \in DOMAIN mark
    <3>1. k # 0
      BY <1>2, <1>5, PlanIsMark
    <3>. QED
      BY <1>1, <3>1
  <2>2. Here = Advance(program_lines[k], mark[k])
    BY <2>1 DEF PassesAgree, MarksFollowLines
  <2>3. location_counter = Bump(mark[k].counters, section, Footprint(program_lines[k]))
    BY <2>2 DEF Here, Advance
  <2>4. mark[k].section \in Sections /\ mark[k].counters \in Counters
    BY <2>1, MarksTyped
  <2>5. section \in Sections
    BY <2>4 DEF SectionAfter, SectionNames, Sections
  <2>6. Below(mark[k].counters, location_counter)
    BY <2>1 DEF PassesAgree, FirstPassAhead
  <2>7. \A t \in Sections \ {section} : location_counter[t] = mark[k].counters[t]
    BY <2>3, <2>4, <2>5 DEF Bump, Counters
  <2>. HIDE DEF section
  <2>8. PlannedPlaces[k] = mark[k].counters
    BY <1>2, <2>1
  <2>. QED
    BY <2>5, <2>6, <2>7, <2>8 DEF Below, Abstract!Follows
<1>6. WrittenSlots' = WrittenSlots
  BY DEF WrittenSlots
<1>7. LayoutVerdict = "planning" /\ LayoutVerdict' \in {"planning", "writing"}
  BY VerdictOfPhase DEF LayoutVerdict
<1>8. \A k \in DOMAIN PlannedPlaces : PlannedPlaces'[k] = PlannedPlaces[k]
  BY <1>1, <1>2, <1>3
<1>. QED
  BY <1>2, <1>3, <1>4, <1>5, <1>6, <1>7, <1>8 DEF Abstract!Plan, Counters

-----------------------------------------------------------------------------
(* Second pass: a round fills the slot of its line, if that has one.       *)

Fills ==
    \/ UNCHANGED <<binary_buffer, location_counter>>
    \/ \E bytes \in Nat \ {0} : \E group : Emit(bytes, group)

LEMMA SecondStepFills ==
    ASSUME TypeOK, EndAhead, SecondPass
    PROVE  Fills
<1>1. CASE EmitData
  BY <1>1, CurrentLineTyped, SizeTyped DEF EmitData, Fills
<1>2. CASE EncodeInstruction
  <2>1. EncodedSize(CurrentLine) \in Nat \ {0}
    BY DEF EncodedSize, InstructionSize
  <2>2. \E group : Emit(EncodedSize(CurrentLine), group)
    BY <1>2 DEF EncodeInstruction
  <2>. QED
    BY <2>1, <2>2 DEF Fills
<1>. QED
  BY <1>1, <1>2 DEF SecondPass, EnterSection, Export, PassOver, RejectSecond,
                    WriteObject, Fills

\* The slot of the line the second pass is at.
LEMMA NextPlace ==
    ASSUME TypeOK, PassesAgree, phase = "second", SecondStep
    PROVE  /\ i \in DOMAIN mark /\ i + 1 \in DOMAIN mark /\ i \in Nat
           /\ PlannedPlaces[i] = location_counter
           /\ PlannedPlaces[i + 1] = location_counter'
<1>1. /\ i \in DOMAIN mark /\ Here = mark[i]
      /\ program_lines[i].name # "end" /\ program_lines[Len(mark)].name = "end"
      /\ DOMAIN mark = 1 .. Len(mark) /\ Len(mark) \in Nat
  BY DEF PassesAgree, SecondPassOnMarks, SecondStep, CurrentLine, TypeOK
<1>2. i < Len(mark) /\ i + 1 \in DOMAIN mark
  BY <1>1
<1>3. Here' = mark[i + 1]
  BY <1>1, <1>2 DEF PassesAgree, MarksFollowLines, SecondStep, CurrentLine
<1>. QED
  BY <1>1, <1>2, <1>3, PlanIsMark DEF Here, TypeOK

LEMMA EmissionWrites ==
    ASSUME TypeOK, PassesAgree, WrittenAsPlanned, phase = "second", SecondStep,
           NEW bytes \in Nat \ {0}, NEW group, Emit(bytes, group)
    PROVE  /\ Abstract!Planned(i, current_section)
           /\ \A s \in Sections : Abstract!Planned(i, s) => s = current_section
           /\ Abstract!Slot(i, current_section) \notin WrittenSlots
           /\ WrittenSlots' = WrittenSlots \cup {Abstract!Slot(i, current_section)}
<1>. DEFINE here == current_section
            chunk == [line |-> i, at |-> location_counter[here],
                      size |-> bytes, group |-> group]
            slot == [line |-> i, part |-> here, at |-> location_counter[here],
                     size |-> bytes]
<1>1. /\ here \in Sections /\ location_counter \in [Sections -> Nat]
      /\ binary_buffer \in [Sections -> Seq(Chunk)]
  BY DEF TypeOK, Counters
<1>2. /\ location_counter'[here] = location_counter[here] + bytes
      /\ \A s \in Sections \ {here} : location_counter'[s] = location_counter[s]
  BY <1>1 DEF Emit, Bump
<1>3. /\ i \in Nat /\ i + 1 \in DOMAIN PlannedPlaces
      /\ PlannedPlaces[i] = location_counter /\ PlannedPlaces[i + 1] = location_counter'
  BY NextPlace, PlanIsMark
<1>4. Abstract!Planned(i, here)
  BY <1>1, <1>2, <1>3 DEF Abstract!Planned
<1>5. \A s \in Sections : Abstract!Planned(i, s) => s = here
  BY <1>1, <1>2, <1>3 DEF Abstract!Planned
<1>6. Abstract!Slot(i, here) = slot
  <2>1. location_counter'[here] - location_counter[here] = bytes
    BY <1>1, <1>2
  <2>. QED
    BY <1>3, <2>1 DEF Abstract!Slot
<1>7. slot \notin WrittenSlots
  <2>. SUFFICES ASSUME slot \in WrittenSlots PROVE FALSE
    OBVIOUS
  <2>1. PICK k \in DOMAIN mark : \E s \in Sections :
          k < i /\ slot = Abstract!Slot(k, s)
    BY DEF WrittenAsPlanned
  <2>2. slot.line = k
    BY <2>1 DEF Abstract!Slot
  <2>. QED
    BY <1>3, <2>1, <2>2
<1>8. /\ binary_buffer'[here] = Append(binary_buffer[here], chunk)
      /\ \A s \in Sections \ {here} : binary_buffer'[s] = binary_buffer[s]
  BY <1>1 DEF Emit
<1>9. /\ DOMAIN binary_buffer[here] \subseteq DOMAIN binary_buffer'[here]
      /\ \A n \in DOMAIN binary_buffer[here] : binary_buffer'[here][n] = binary_buffer[here][n]
      /\ \E n \in DOMAIN binary_buffer'[here] : binary_buffer'[here][n] = chunk
      /\ \A n \in DOMAIN binary_buffer'[here] \ DOMAIN binary_buffer[here] :
            binary_buffer'[here][n] = chunk
  <2>1. binary_buffer[here] \in Seq(Chunk)
    BY <1>1
  <2>. DEFINE b == binary_buffer[here]
              c == binary_buffer'[here]
  <2>2. b \in Seq(Chunk \cup {chunk}) /\ c = Append(b, chunk)
    BY <1>8, <2>1
  <2>. HIDE DEF b, c, chunk
  <2>3. /\ DOMAIN b = 1 .. Len(b) /\ Len(b) \in Nat /\ DOMAIN c = 1 .. Len(b) + 1
        /\ \A n \in 1 .. Len(b) : c[n] = b[n]
        /\ c[Len(b) + 1] = chunk
    BY <2>2
  <2>4. \A n \in DOMAIN c \ DOMAIN b : n = Len(b) + 1
    BY <2>3
  <2>5. Len(b) + 1 \in DOMAIN c /\ DOMAIN b \subseteq DOMAIN c
    BY <2>3
  <2>. QED
    BY <2>3, <2>4, <2>5 DEF b, c
<1>10. \A x \in WrittenSlots' : x \in WrittenSlots \/ x = slot
  <2>. SUFFICES ASSUME NEW x \in WrittenSlots' PROVE x \in WrittenSlots \/ x = slot
    OBVIOUS
  <2>. DEFINE Piece(s, c) == [line |-> c.line, part |-> s, at |-> c.at, size |-> c.size]
  <2>1. PICK s \in Sections : \E n \in DOMAIN binary_buffer'[s] :
          x = Piece(s, binary_buffer'[s][n])
    BY DEF WrittenSlots
  <2>2. PICK n \in DOMAIN binary_buffer'[s] : x = Piece(s, binary_buffer'[s][n])
    BY <2>1
  <2>3. CASE s = here /\ n \notin DOMAIN binary_buffer[s]
    BY <1>9, <2>2, <2>3
  <2>4. CASE s # here \/ n \in DOMAIN binary_buffer[s]
    <3>1. n \in DOMAIN binary_buffer[s] /\ binary_buffer'[s][n] = binary_buffer[s][n]
      BY <1>8, <1>9, <2>2, <2>4
    <3>. QED
      BY <2>2, <3>1, SlotOfChunk
  <2>. QED
    BY <2>3, <2>4
<1>11. \A x \in WrittenSlots : x \in WrittenSlots'
  <2>. SUFFICES ASSUME NEW x \in WrittenSlots PROVE x \in WrittenSlots'
    OBVIOUS
  <2>. DEFINE Piece(s, c) == [line |-> c.line, part |-> s, at |-> c.at, size |-> c.size]
  <2>1. PICK s \in Sections : \E n \in DOMAIN binary_buffer[s] :
          x = Piece(s, binary_buffer[s][n])
    BY ChunkOfSlot
  <2>2. PICK n \in DOMAIN binary_buffer[s] : x = Piece(s, binary_buffer[s][n])
    BY <2>1
  <2>3. n \in DOMAIN binary_buffer'[s] /\ binary_buffer'[s][n] = binary_buffer[s][n]
    BY <1>8, <1>9, <2>2
  <2>4. x = Piece(s, binary_buffer'[s][n])
    BY <2>2, <2>3
  <2>. QED
    BY <2>3, <2>4 DEF WrittenSlots
<1>12. slot \in WrittenSlots'
  <2>1. PICK n \in DOMAIN binary_buffer'[here] : binary_buffer'[here][n] = chunk
    BY <1>9
  <2>2. slot = [line |-> binary_buffer'[here][n].line, part |-> here,
                at |-> binary_buffer'[here][n].at, size |-> binary_buffer'[here][n].size]
    BY <2>1
  <2>. QED
    BY <1>1, <2>1, <2>2 DEF WrittenSlots
<1>. QED
  BY <1>4, <1>5, <1>6, <1>7, <1>10, <1>11, <1>12

-----------------------------------------------------------------------------
(* The invariant.                                                          *)

LEMMA NothingWritten ==
    ASSUME \A s \in Sections : binary_buffer[s] = << >>
    PROVE  WrittenSlots = {}
BY DEF WrittenSlots

LEMMA InitWritten == Init => WrittenAsPlanned
BY DEF Init, WrittenAsPlanned

\* In the second pass neither plan nor marks change.
LEMMA PlanStays ==
    ASSUME UNCHANGED mark
    PROVE  /\ PlannedPlaces' = PlannedPlaces
           /\ \A k, s : Abstract!Planned(k, s)' <=> Abstract!Planned(k, s)
           /\ \A k, s : Abstract!Slot(k, s)' = Abstract!Slot(k, s)
<1>1. PlannedPlaces' = PlannedPlaces
  BY DEF PlannedPlaces
<1>. QED
  BY <1>1 DEF Abstract!Planned, Abstract!Slot

LEMMA SecondStepWrites ==
    ASSUME TypeOK, EndAhead, PassesAgree, WrittenAsPlanned, phase = "second",
           SecondPass, SecondStep
    PROVE  WrittenAsPlanned' /\ (Abstract!Write \/ UNCHANGED Abstract!layoutVars)
<1>1. /\ UNCHANGED <<phase, mark>> /\ i' = i + 1
      /\ i \in DOMAIN mark /\ i \in Nat /\ DOMAIN mark = 1 .. Len(mark) /\ Len(mark) \in Nat
      /\ LayoutVerdict = "writing" /\ LayoutVerdict' = LayoutVerdict
  BY NextPlace, PlanIsMark, VerdictOfPhase DEF SecondStep, LayoutVerdict
<1>2. /\ PlannedPlaces' = PlannedPlaces
      /\ \A k, s : Abstract!Planned(k, s)' <=> Abstract!Planned(k, s)
      /\ \A k, s : Abstract!Slot(k, s)' = Abstract!Slot(k, s)
  BY <1>1, PlanStays
<1>3. CASE UNCHANGED <<binary_buffer, location_counter>>
  <2>1. WrittenSlots' = WrittenSlots
    BY <1>3 DEF WrittenSlots
  <2>2. \A s \in Sections : ~Abstract!Planned(i, s)
    <3>1. PlannedPlaces[i] = location_counter /\ PlannedPlaces[i + 1] = location_counter
      BY <1>3, NextPlace
    <3>2. \A s \in Sections : location_counter[s] \in Nat
      BY DEF TypeOK, Counters
    <3>. SUFFICES ASSUME NEW s \in Sections, Abstract!Planned(i, s) PROVE FALSE
      OBVIOUS
    <3>3. location_counter[s] < location_counter[s]
      BY <3>1 DEF Abstract!Planned
    <3>. QED
      BY <3>2, <3>3
  <2>3. ASSUME NEW k \in DOMAIN mark, NEW s \in Sections, Abstract!Planned(k, s)
        PROVE  k < i <=> k < i'
    BY <1>1, <2>2, <2>3
  <2>4. WrittenAsPlanned'
    BY <1>1, <1>2, <2>1, <2>3 DEF WrittenAsPlanned
  <2>. QED
    BY <1>1, <1>2, <2>1, <2>4 DEF Abstract!layoutVars
<1>4. CASE \E bytes \in Nat \ {0} : \E group : Emit(bytes, group)
  <2>1. PICK bytes \in Nat \ {0} : \E group : Emit(bytes, group)
    BY <1>4
  <2>2. PICK group : Emit(bytes, group)
    BY <2>1
  <2>3. /\ Abstract!Planned(i, current_section)
        /\ \A s \in Sections : Abstract!Planned(i, s) => s = current_section
        /\ Abstract!Slot(i, current_section) \notin WrittenSlots
        /\ WrittenSlots' = WrittenSlots \cup {Abstract!Slot(i, current_section)}
    BY <2>2, EmissionWrites
  <2>4. current_section \in Sections
    BY DEF TypeOK
  <2>5. ASSUME NEW slot \in WrittenSlots'
        PROVE  \E k \in DOMAIN mark : \E s \in Sections :
                  k < i' /\ Abstract!Planned(k, s) /\ slot = Abstract!Slot(k, s)
    <3>1. CASE slot \in WrittenSlots
      <4>1. PICK k \in DOMAIN mark : \E s \in Sections :
              k < i /\ Abstract!Planned(k, s) /\ slot = Abstract!Slot(k, s)
        BY <3>1 DEF WrittenAsPlanned
      <4>2. k < i'
        BY <1>1, <4>1
      <4>. QED
        BY <4>1, <4>2
    <3>2. CASE slot = Abstract!Slot(i, current_section)
      <4>1. i < i'
        BY <1>1
      <4>. QED
        BY <1>1, <2>3, <2>4, <3>2, <4>1
    <3>. QED
      BY <2>3, <3>1, <3>2
  <2>6. ASSUME NEW k \in DOMAIN mark, NEW s \in Sections, k < i', Abstract!Planned(k, s)
        PROVE  Abstract!Slot(k, s) \in WrittenSlots'
    <3>1. k < i \/ k = i
      BY <1>1, <2>6
    <3>2. CASE k < i
      BY <2>3, <2>6, <3>2 DEF WrittenAsPlanned
    <3>3. CASE k = i
      BY <2>3, <2>6, <3>3
    <3>. QED
      BY <3>1, <3>2, <3>3
  <2>7. WrittenAsPlanned'
    BY <1>1, <1>2, <2>5, <2>6 DEF WrittenAsPlanned
  <2>8. Abstract!Write
    BY <1>1, <1>2, <2>3, <2>4, PlanIsMark DEF Abstract!Write
  <2>. QED
    BY <2>7, <2>8
<1>. QED
  BY <1>3, <1>4, SecondStepFills DEF Fills

-----------------------------------------------------------------------------
(* Every step is a step of the layout, or none.                            *)

LEMMA NextLaysOut ==
    ASSUME TypeOK, PassesAgree, WrittenAsPlanned, [Next]_vars
    PROVE  WrittenAsPlanned' /\ [Abstract!Next]_(Abstract!layoutVars)
<1>a. EndAhead /\ TypeOK' /\ EndAhead'
  BY NextTyped DEF PassesAgree
<1>1. CASE FirstPass
  <2>1. phase = "first"
    BY <1>1 DEF FirstPass, SwitchSection, DeclareExtern, ReserveItem, PassOverDirective,
                SizeInstruction, PassOverBlank, CarryLabel, RejectFirst, EndFirstPass, InPass
  <2>2. CASE FirstStep
    <3>1. Abstract!Plan
      BY <1>a, <2>1, <2>2, MarkingPlans DEF FirstStep
    <3>2. WrittenAsPlanned'
      BY <2>1, <2>2 DEF FirstStep, WrittenAsPlanned
    <3>. QED
      BY <3>1, <3>2 DEF Abstract!Next
  <2>3. CASE RejectFirst
    <3>1. UNCHANGED <<PlannedPlaces, WrittenSlots>> /\ phase' = "failed"
      BY <2>3 DEF RejectFirst, PlannedPlaces, WrittenSlots
    <3>2. LayoutVerdict = "planning" /\ LayoutVerdict' = "refused"
      BY <2>1, <3>1 DEF LayoutVerdict
    <3>. QED
      BY <3>1, <3>2 DEF WrittenAsPlanned, Abstract!Next, Abstract!Refuse
  <2>4. CASE EndFirstPass
    <3>1. Abstract!Plan
      BY <1>a, <2>1, <2>4, MarkingPlans DEF EndFirstPass
    <3>2. i' = 1 /\ phase' = "second" /\ UNCHANGED binary_buffer
      BY <2>4 DEF EndFirstPass
    <3>3. WrittenSlots' = {}
      BY <2>1, <3>2 DEF WrittenAsPlanned, WrittenSlots
    <3>4. \A k \in DOMAIN mark' : ~(k < i')
      BY <1>a, <3>2 DEF TypeOK
    <3>5. WrittenAsPlanned'
      BY <3>2, <3>3, <3>4 DEF WrittenAsPlanned
    <3>. QED
      BY <3>1, <3>5 DEF Abstract!Next
  <2>. QED
    BY <1>a, <1>1, <2>2, <2>3, <2>4, FirstSteps
<1>2. CASE SecondPass
  <2>1. phase = "second"
    BY <1>2 DEF SecondPass, EnterSection, Export, EmitData, EncodeInstruction, PassOver,
                RejectSecond, WriteObject, InPass
  <2>2. CASE SecondStep
    BY <1>a, <1>2, <2>1, <2>2, SecondStepWrites DEF Abstract!Next
  <2>3. CASE RejectSecond
    <3>1. UNCHANGED <<PlannedPlaces, WrittenSlots>> /\ phase' = "failed"
      BY <2>3 DEF RejectSecond, PlannedPlaces, WrittenSlots
    <3>2. LayoutVerdict = "writing" /\ LayoutVerdict' = "refused"
      BY <2>1, <3>1 DEF LayoutVerdict
    <3>. QED
      BY <3>1, <3>2 DEF WrittenAsPlanned, Abstract!Next, Abstract!Refuse
  <2>4. CASE WriteObject
    <3>1. /\ phase' = "done" /\ UNCHANGED <<i, binary_buffer, mark>>
          /\ program_lines[i].name = "end"
      BY <2>4 DEF WriteObject, CurrentLine
    <3>2. UNCHANGED <<PlannedPlaces, WrittenSlots>>
      BY <3>1 DEF PlannedPlaces, WrittenSlots
    <3>3. LayoutVerdict = "writing" /\ LayoutVerdict' = "written"
      BY <2>1, <3>1 DEF LayoutVerdict
    <3>4. i = Len(mark) /\ DOMAIN mark = 1 .. Len(mark) /\ Len(mark) \in Nat
      <4>1. i \in DOMAIN mark /\ DOMAIN mark = 1 .. Len(mark) /\ Len(mark) \in Nat
        BY <2>1, PlanIsMark DEF PassesAgree, SecondPassOnMarks
      <4>2. ~(i < Len(mark))
        BY <3>1, <4>1 DEF PassesAgree, MarksFollowLines
      <4>. QED
        BY <4>1, <4>2
    <3>5. ASSUME NEW k \in DOMAIN PlannedPlaces, NEW s \in Sections, Abstract!Planned(k, s)
          PROVE  Abstract!Slot(k, s) \in WrittenSlots
      <4>1. k \in DOMAIN mark /\ k + 1 \in DOMAIN mark
        BY <3>5, PlanIsMark DEF Abstract!Planned
      <4>2. k < i
        BY <3>4, <4>1
      <4>. QED
        BY <2>1, <3>5, <4>1, <4>2 DEF WrittenAsPlanned
    <3>6. Abstract!Finish
      BY <3>2, <3>3, <3>5 DEF Abstract!Finish
    <3>7. WrittenAsPlanned'
      <4>1. /\ \A k, s : Abstract!Planned(k, s)' <=> Abstract!Planned(k, s)
            /\ \A k, s : Abstract!Slot(k, s)' = Abstract!Slot(k, s)
        BY <3>1, PlanStays
      <4>. QED
        BY <2>1, <3>1, <3>2, <4>1 DEF WrittenAsPlanned
    <3>. QED
      BY <3>6, <3>7 DEF Abstract!Next
  <2>. QED
    BY <1>a, <1>2, <2>2, <2>3, <2>4, SecondSteps
<1>3. CASE UNCHANGED vars
  <2>1. UNCHANGED <<phase, i, mark, binary_buffer>>
    BY <1>3 DEF vars
  <2>2. UNCHANGED <<PlannedPlaces, WrittenSlots, LayoutVerdict>>
    BY <2>1 DEF PlannedPlaces, WrittenSlots, LayoutVerdict
  <2>3. /\ \A k, s : Abstract!Planned(k, s)' <=> Abstract!Planned(k, s)
        /\ \A k, s : Abstract!Slot(k, s)' = Abstract!Slot(k, s)
    BY <2>1, PlanStays
  <2>4. WrittenAsPlanned'
    BY <2>1, <2>2, <2>3 DEF WrittenAsPlanned
  <2>. QED
    BY <2>2, <2>4 DEF Abstract!layoutVars
<1>. QED
  BY <1>1, <1>2, <1>3 DEF Next, Exited

LEMMA InitLaysOut == Init => Abstract!Init
<1>. SUFFICES ASSUME Init PROVE Abstract!Init
  OBVIOUS
<1>1. PlannedPlaces = << >>
  <2>1. mark = << >>
    BY DEF Init
  <2>. QED
    BY <2>1, PlanIsMark, InitTyped
<1>2. WrittenSlots = {}
  BY NothingWritten DEF Init
<1>3. LayoutVerdict = "planning"
  BY VerdictOfPhase DEF Init
<1>. QED
  BY <1>1, <1>2, <1>3 DEF Abstract!Init

\* The slots of the second pass are those the first pass planned, and each
\* is written once: nas.c:87 takes the sizes of the first pass as exact and
\* nas.c:217 copies to where the second one stands.
THEOREM WrittenAsPlannedAlways == Spec => []WrittenAsPlanned
<1>1. Init => TypeOK /\ PassesAgree /\ WrittenAsPlanned
  BY InitTyped, InitAgrees, InitWritten
<1>2. TypeOK /\ PassesAgree /\ WrittenAsPlanned /\ [Next]_vars
        => TypeOK' /\ PassesAgree' /\ WrittenAsPlanned'
  BY NextTyped, NextAgrees, NextLaysOut DEF PassesAgree
<1>. QED
  BY <1>1, <1>2, PTL DEF Spec

\* The two loops of nas.c, each with its own idea of what a line takes, act
\* as one plan and its execution: all that was planned is written, once, where
\* and as long as planned, before an object is made.
THEOREM LayoutImplemented == Spec => ImplementsLayout
<1>1. /\ Init => TypeOK /\ PassesAgree /\ WrittenAsPlanned
      /\ Init => Abstract!Init
  BY InitTyped, InitAgrees, InitWritten, InitLaysOut
<1>2. TypeOK /\ PassesAgree /\ WrittenAsPlanned /\ [Next]_vars
        => /\ TypeOK' /\ PassesAgree' /\ WrittenAsPlanned'
           /\ [Abstract!Next]_(Abstract!layoutVars)
  BY NextTyped, NextAgrees, NextLaysOut DEF PassesAgree
<1>. QED
  BY <1>1, <1>2, PTL DEF Spec, ImplementsLayout, Abstract!Spec

-----------------------------------------------------------------------------
(***************************************************************************)
(* For every set of programs: the objects nas writes are well formed, so   *)
(* that the assumption the linker makes of its inputs is a theorem about   *)
(* the assembler; they are read back as they were; and labels address the  *)
(* items they label.                                                       *)
(***************************************************************************)

\* The part of WellFormed that is about one symbol.  "room" is how far each
\* section has come, or its size.
SymbolFits(symbol, room) ==
    /\ symbol.type = "extern" => symbol.section = "none" /\ symbol.scope = "global"
    /\ symbol.type = "function" => symbol.section = "text"
    /\ symbol.size <= symbol.offset
    /\ symbol.section # "none" => symbol.offset <= room[symbol.section]

TableFits(table, room) ==
    /\ Len(table) >= 3
    /\ TailUnique(table)
    /\ \A k \in DOMAIN table :
          /\ (k <= 3) = (table[k].type = "section")
          /\ SymbolFits(table[k], room)

TableSound ==
    /\ phase = "first" => TableFits(symtable, location_counter)
    /\ phase \in {"second", "done"} => TableFits(symtable, buffer_size)

\* Why a label on a blank line cannot have a size beyond its offset.
SizeWithinSection == phase = "first" => size <= location_counter[current_section]

\* The second pass does not look at the section of an instruction; the marks
\* of the first pass say what it is.
CodeInText ==
    \A k \in DOMAIN mark :
        program_lines[k].name # "end" /\ program_lines[k].kind = "instruction" =>
            mark[k].section = "text"

\* The label of a line that takes room has a symbol that starts where the
\* first pass was before that line.
Labelled(line, place, table) ==
    line.name # "end" /\ line.label # NoName /\ Footprint(line) > 0 =>
        \E n \in DOMAIN table :
            /\ table[n].name = line.label
            /\ table[n].section = place.section
            /\ table[n].offset - table[n].size = place.counters[place.section]
LabelsPlaced == \A k \in DOMAIN mark : Labelled(program_lines[k], mark[k], symtable)

ChunksTiled ==
    phase \in {"second", "done"} =>
        \A s \in Sections : Tiled(binary_buffer[s], location_counter[s])

RelocSound(reloc, table, chunks, end) ==
    /\ HasIndex(table, reloc.index)
    /\ reloc.offset + InstructionSize <= end
    /\ \E n \in DOMAIN chunks : chunks[n].at = reloc.offset
RelocsSound ==
    /\ phase = "first" => reloctable = << >>
    /\ phase \in {"second", "done"} =>
          \A k \in DOMAIN reloctable :
              /\ RelocSound(reloctable[k], symtable, binary_buffer["text"],
                            location_counter["text"])
              /\ \A j \in 1 .. k - 1 : reloctable[j].offset < reloctable[k].offset

ObjectMade ==
    phase = "done" =>
        object = MakeObject(location_counter, binary_buffer, symtable, reloctable)

ObjectSound ==
    /\ TableSound
    /\ SizeWithinSection
    /\ CodeInText
    /\ LabelsPlaced
    /\ ChunksTiled
    /\ RelocsSound
    /\ ObjectMade

-----------------------------------------------------------------------------
(* Tables that grow, and rooms that do.                                    *)

LEMMA RoomGrows ==
    ASSUME NEW table \in Seq(Symbol(Names)), NEW room \in Counters, NEW more \in Counters,
           Below(room, more), TableFits(table, room)
    PROVE  TableFits(table, more)
<1>. SUFFICES ASSUME NEW k \in DOMAIN table, table[k].section # "none"
              PROVE  table[k].offset <= more[table[k].section]
  BY DEF TableFits, SymbolFits
<1>1. table[k] \in Symbol(Names)
  BY ElementTyped
<1>2. table[k].section \in Sections /\ table[k].offset \in Nat
  BY <1>1 DEF Symbol
<1>3. /\ room[table[k].section] \in Nat /\ more[table[k].section] \in Nat
      /\ room[table[k].section] <= more[table[k].section]
  BY <1>2 DEF Counters, Below
<1>4. table[k].offset <= room[table[k].section]
  BY DEF TableFits, SymbolFits
<1>. QED
  BY <1>2, <1>3, <1>4

LEMMA SymbolAppended ==
    ASSUME NEW table \in Seq(Symbol(Names)), NEW symbol \in Symbol(Names), NEW room,
           TableFits(table, room), ~Exists(table, symbol.name),
           symbol.type # "section", SymbolFits(symbol, room)
    PROVE  LET more == AddSymbol(table, symbol)
           IN  /\ TableFits(more, room)
               /\ \A k \in DOMAIN table : k \in DOMAIN more /\ more[k] = table[k]
               /\ \E k \in DOMAIN more : more[k] = symbol
<1>. DEFINE more == Append(table, symbol)
<1>1. AddSymbol(table, symbol) = more
  BY DEF AddSymbol
<1>2. TailUnique(more)
  BY <1>1, AdditionKeepsTailUnique DEF TableFits
<1>3. /\ Len(table) \in Nat /\ Len(more) = Len(table) + 1 /\ DOMAIN more = 1 .. Len(table) + 1
      /\ DOMAIN table = 1 .. Len(table)
      /\ \A k \in 1 .. Len(table) : more[k] = table[k]
      /\ more[Len(table) + 1] = symbol
  OBVIOUS
<1>4. Len(table) >= 3
  BY DEF TableFits
<1>. HIDE DEF more
<1>5. ASSUME NEW k \in DOMAIN more
      PROVE  (k <= 3) = (more[k].type = "section") /\ SymbolFits(more[k], room)
  <2>1. CASE k \in DOMAIN table
    BY <1>3, <2>1 DEF TableFits
  <2>2. CASE k = Len(table) + 1
    <3>1. ~(k <= 3)
      BY <1>3, <1>4, <2>2
    <3>. QED
      BY <1>3, <2>2, <3>1
  <2>. QED
    BY <1>3, <2>1, <2>2
<1>6. TableFits(more, room)
  BY <1>2, <1>3, <1>4, <1>5 DEF TableFits
<1>7. \A k \in DOMAIN table : k \in DOMAIN more /\ more[k] = table[k]
  BY <1>3
<1>8. \E k \in DOMAIN more : more[k] = symbol
  <2>1. Len(table) + 1 \in DOMAIN more
    BY <1>3
  <2>. QED
    BY <1>3, <2>1
<1>. QED
  BY <1>1, <1>6, <1>7, <1>8

LEMMA Joined ==
    ASSUME NEW s \in Seq(Symbol(Names)), NEW t \in Seq(Symbol(Names))
    PROVE  \E u \in Seq(Symbol(Names)) :
              /\ u = s \o t
              /\ Len(u) = Len(s) + Len(t)
              /\ DOMAIN u = 1 .. Len(s) + Len(t)
              /\ \A k \in 1 .. Len(s) : u[k] = s[k]
              /\ \A k \in Len(s) + 1 .. Len(s) + Len(t) : u[k] = t[k - Len(s)]
<1>1. Len(s) \in Nat /\ Len(t) \in Nat
  OBVIOUS
<1>2. s \o t \in Seq(Symbol(Names)) /\ Len(s \o t) = Len(s) + Len(t)
  OBVIOUS
<1>3. DOMAIN (s \o t) = 1 .. Len(s) + Len(t)
  BY <1>2
<1>4. ASSUME NEW k \in 1 .. Len(s) PROVE (s \o t)[k] = s[k]
  BY <1>1
<1>5. ASSUME NEW k \in Len(s) + 1 .. Len(s) + Len(t) PROVE (s \o t)[k] = t[k - Len(s)]
  BY <1>1
<1>. QED
  BY <1>2, <1>3, <1>4, <1>5

\* .extern appends all its symbols at once.
LEMMA ExternsAppended ==
    ASSUME NEW table \in Seq(Symbol(Names)), NEW room, TableFits(table, room),
           NEW args \in Seq(Operand),
           \A k \in DOMAIN args :
              /\ ~Exists(table, args[k].name)
              /\ \A j \in 1 .. k - 1 : args[j].name # args[k].name
    PROVE  LET more == table \o [k \in DOMAIN args |-> ExternSymbol(args[k].name)]
           IN  /\ more \in Seq(Symbol(Names))
               /\ TableFits(more, room)
               /\ \A k \in DOMAIN table : k \in DOMAIN more /\ more[k] = table[k]
<1>. DEFINE externs == [k \in DOMAIN args |-> ExternSymbol(args[k].name)]
            more == table \o externs
<1>1. DOMAIN args = 1 .. Len(args) /\ Len(args) \in Nat
  OBVIOUS
<1>2. \A k \in 1 .. Len(args) : ExternSymbol(args[k].name) \in Symbol(Names)
  <2>1. \A k \in DOMAIN args : args[k].name \in Names
    BY ArgumentNamed
  <2>. QED
    BY <1>1, <2>1 DEF ExternSymbol, Symbol, Sections, Scopes, Types
<1>3. externs = [k \in 1 .. Len(args) |-> ExternSymbol(args[k].name)]
  BY <1>1
<1>4. /\ externs \in Seq(Symbol(Names)) /\ Len(externs) = Len(args)
      /\ \A k \in 1 .. Len(args) : externs[k] = ExternSymbol(args[k].name)
  <2>. HIDE DEF externs
  <2>. QED
    BY <1>1, <1>2, <1>3
<1>. HIDE DEF externs
<1>5. /\ more \in Seq(Symbol(Names)) /\ Len(more) = Len(table) + Len(args)
      /\ Len(table) \in Nat /\ DOMAIN table = 1 .. Len(table)
      /\ DOMAIN more = 1 .. Len(table) + Len(args)
      /\ \A k \in 1 .. Len(table) : more[k] = table[k]
      /\ \A k \in Len(table) + 1 .. Len(table) + Len(args) :
            /\ k - Len(table) \in 1 .. Len(args)
            /\ more[k] = externs[k - Len(table)]
  <2>1. Len(table) \in Nat /\ DOMAIN table = 1 .. Len(table)
    OBVIOUS
  <2>2. \A k \in Len(table) + 1 .. Len(table) + Len(args) : k - Len(table) \in 1 .. Len(args)
    BY <1>1, <2>1
  <2>3. /\ more \in Seq(Symbol(Names)) /\ Len(more) = Len(table) + Len(externs)
        /\ DOMAIN more = 1 .. Len(table) + Len(externs)
        /\ \A k \in 1 .. Len(table) : more[k] = table[k]
        /\ \A k \in Len(table) + 1 .. Len(table) + Len(externs) :
              more[k] = externs[k - Len(table)]
    <3>1. PICK u \in Seq(Symbol(Names)) :
            /\ u = table \o externs
            /\ Len(u) = Len(table) + Len(externs)
            /\ DOMAIN u = 1 .. Len(table) + Len(externs)
            /\ \A k \in 1 .. Len(table) : u[k] = table[k]
            /\ \A k \in Len(table) + 1 .. Len(table) + Len(externs) :
                  u[k] = externs[k - Len(table)]
      BY <1>4, Joined
    <3>2. more = u
      BY <3>1
    <3>. HIDE DEF more
    <3>. QED
      BY <3>1, <3>2
  <2>. HIDE DEF more
  <2>. QED
    BY <1>4, <2>1, <2>2, <2>3
<1>. HIDE DEF more
<1>6. ASSUME NEW k \in Len(table) + 1 .. Len(table) + Len(args)
      PROVE  /\ k - Len(table) \in DOMAIN args
             /\ more[k] = ExternSymbol(args[k - Len(table)].name)
             /\ more[k].name = args[k - Len(table)].name
  BY <1>1, <1>4, <1>5 DEF ExternSymbol
<1>7. Len(table) >= 3
  BY DEF TableFits
<1>8. ASSUME NEW k \in DOMAIN more
      PROVE  (k <= 3) = (more[k].type = "section") /\ SymbolFits(more[k], room)
  <2>1. CASE k \in DOMAIN table
    BY <1>5, <2>1 DEF TableFits
  <2>2. CASE k \in Len(table) + 1 .. Len(table) + Len(args)
    <3>1. ~(k <= 3)
      BY <1>5, <1>7, <2>2
    <3>2. more[k] = ExternSymbol(args[k - Len(table)].name)
      BY <1>6, <2>2
    <3>. QED
      BY <3>1, <3>2 DEF ExternSymbol, SymbolFits
  <2>3. k \in DOMAIN table \/ k \in Len(table) + 1 .. Len(table) + Len(args)
    BY <1>1, <1>5
  <2>. QED
    BY <2>1, <2>2, <2>3
<1>9. ASSUME NEW j \in 2 .. Len(more), NEW k \in 2 .. Len(more), j < k
      PROVE  more[j].name # more[k].name
  <2>1. CASE k <= Len(table)
    <3>1. j \in 2 .. Len(table) /\ k \in 2 .. Len(table) /\ j # k
      BY <1>1, <1>5, <1>9, <2>1
    <3>2. table[j].name # table[k].name
      BY <3>1 DEF TableFits, TailUnique
    <3>3. more[j] = table[j] /\ more[k] = table[k]
      BY <1>5, <3>1
    <3>. QED
      BY <3>2, <3>3
  <2>2. CASE k > Len(table) /\ j <= Len(table)
    <3>1. k \in Len(table) + 1 .. Len(table) + Len(args) /\ j \in 2 .. Len(table)
      BY <1>1, <1>5, <2>2
    <3>2. k - Len(table) \in DOMAIN args /\ more[k].name = args[k - Len(table)].name
      BY <1>6, <3>1
    <3>3. table[j].name # more[k].name
      BY <3>1, <3>2 DEF Exists
    <3>. QED
      BY <1>5, <3>1, <3>3
  <2>3. CASE k > Len(table) /\ j > Len(table)
    <3>1. /\ k \in Len(table) + 1 .. Len(table) + Len(args)
          /\ j \in Len(table) + 1 .. Len(table) + Len(args)
      BY <1>1, <1>5, <2>3
    <3>2. /\ k - Len(table) \in DOMAIN args /\ more[k].name = args[k - Len(table)].name
          /\ more[j].name = args[j - Len(table)].name
      BY <1>6, <3>1
    <3>3. j - Len(table) \in 1 .. (k - Len(table)) - 1
      BY <1>5, <1>9, <3>1
    <3>. QED
      BY <3>2, <3>3
  <2>. QED
    BY <1>5, <2>1, <2>2, <2>3
<1>10. TailUnique(more)
  <2>. SUFFICES ASSUME NEW j \in 2 .. Len(more), NEW k \in 2 .. Len(more),
                       more[j].name = more[k].name
                PROVE  j = k
    BY DEF TailUnique
  <2>1. ~(j < k) /\ ~(k < j)
    BY <1>9
  <2>. QED
    BY <1>1, <1>5, <2>1
<1>11. TableFits(more, room)
  BY <1>1, <1>5, <1>7, <1>8, <1>10 DEF TableFits
<1>12. \A k \in DOMAIN table : k \in DOMAIN more /\ more[k] = table[k]
  BY <1>1, <1>5
<1>. QED
  BY <1>5, <1>11, <1>12 DEF more, externs

LEMMA ChunkAppended ==
    ASSUME NEW chunks \in Seq(Chunk), NEW chunk, Tiled(chunks, chunk.at)
    PROVE  /\ Tiled(Append(chunks, chunk), chunk.at + chunk.size)
           /\ \A n \in DOMAIN chunks :
                 n \in DOMAIN Append(chunks, chunk) /\ Append(chunks, chunk)[n] = chunks[n]
           /\ \E n \in DOMAIN Append(chunks, chunk) : Append(chunks, chunk)[n] = chunk
<1>. DEFINE more == Append(chunks, chunk)
<1>1. /\ Len(more) = Len(chunks) + 1 /\ DOMAIN more = 1 .. Len(chunks) + 1
      /\ Len(chunks) \in Nat /\ DOMAIN chunks = 1 .. Len(chunks)
      /\ \A k \in 1 .. Len(chunks) : more[k] = chunks[k]
      /\ more[Len(chunks) + 1] = chunk /\ more # << >>
  OBVIOUS
<1>. HIDE DEF more
<1>2. ASSUME NEW k \in DOMAIN more
      PROVE  more[k].at = IF k = 1 THEN 0 ELSE more[k - 1].at + more[k - 1].size
  <2>1. CASE k \in 1 .. Len(chunks)
    <3>1. chunks[k].at = IF k = 1 THEN 0 ELSE chunks[k - 1].at + chunks[k - 1].size
      BY <1>1, <2>1 DEF Tiled
    <3>2. k # 1 => k - 1 \in 1 .. Len(chunks)
      BY <2>1
    <3>. QED
      BY <1>1, <2>1, <3>1, <3>2
  <2>2. CASE k = Len(chunks) + 1
    <3>1. k = 1 <=> chunks = << >>
      BY <1>1, <2>2
    <3>2. chunk.at = IF k = 1 THEN 0 ELSE chunks[Len(chunks)].at + chunks[Len(chunks)].size
      BY <3>1 DEF Tiled
    <3>3. k # 1 => k - 1 = Len(chunks) /\ Len(chunks) \in 1 .. Len(chunks)
      BY <1>1, <2>2
    <3>. QED
      BY <1>1, <2>2, <3>2, <3>3
  <2>. QED
    BY <1>1, <2>1, <2>2
<1>3. Tiled(more, chunk.at + chunk.size)
  BY <1>1, <1>2 DEF Tiled
<1>4. Len(chunks) + 1 \in DOMAIN more
  BY <1>1
<1>. QED
  BY <1>1, <1>3, <1>4 DEF more

-----------------------------------------------------------------------------
(* First pass.                                                             *)

LEMMA InitSound == Init => ObjectSound
<1>. SUFFICES ASSUME Init PROVE ObjectSound
  OBVIOUS
<1>1. /\ symtable = <<SectionSymbol("text"), SectionSymbol("bss"), SectionSymbol("data")>>
      /\ phase = "first" /\ location_counter = Zeroes /\ mark = << >> /\ size = 0
      /\ reloctable = << >> /\ current_section = "none"
  BY DEF Init
<1>2. ASSUME NEW s \in SectionNames
      PROVE  /\ SectionSymbol(s).name = s /\ SectionSymbol(s).type = "section"
             /\ SymbolFits(SectionSymbol(s), Zeroes)
  BY DEF SectionSymbol, SymbolFits, Zeroes, SectionNames, Sections
<1>3. /\ Len(symtable) = 3 /\ DOMAIN symtable = 1 .. 3
      /\ symtable[1] = SectionSymbol("text") /\ symtable[2] = SectionSymbol("bss")
      /\ symtable[3] = SectionSymbol("data")
  BY <1>1
<1>4. symtable[2].name = "bss" /\ symtable[3].name = "data"
  BY <1>2, <1>3 DEF SectionNames
<1>5. TailUnique(symtable)
  <2>. SUFFICES ASSUME NEW j \in 2 .. 3, NEW k \in 2 .. 3, symtable[j].name = symtable[k].name
                PROVE  j = k
    BY <1>3 DEF TailUnique
  <2>1. (j = 2 \/ j = 3) /\ (k = 2 \/ k = 3)
    OBVIOUS
  <2>. QED
    BY <1>4, <2>1
<1>6. ASSUME NEW k \in DOMAIN symtable
      PROVE  (k <= 3) = (symtable[k].type = "section") /\ SymbolFits(symtable[k], Zeroes)
  <2>1. k = 1 \/ k = 2 \/ k = 3
    BY <1>3
  <2>2. \E s \in SectionNames : symtable[k] = SectionSymbol(s)
    BY <1>3, <2>1 DEF SectionNames
  <2>3. k <= 3
    BY <2>1
  <2>. QED
    BY <1>2, <2>2, <2>3
<1>7. TableSound
  BY <1>1, <1>3, <1>5, <1>6 DEF TableFits, TableSound
<1>8. SizeWithinSection
  BY <1>1 DEF SizeWithinSection, Zeroes, Sections
<1>. QED
  BY <1>1, <1>7, <1>8 DEF ObjectSound, CodeInText, LabelsPlaced, ChunksTiled, RelocsSound,
                          ObjectMade

\* A round that FinishRound closes, whatever it did before.
LEMMA RoundSound ==
    ASSUME TypeOK, TypeOK', PassesAgree, ObjectSound, phase = "first",
           CurrentLine.name # "end",
           NEW section \in Sections, NEW counters \in Counters, NEW itemSize \in Nat,
           NEW table \in Seq(Symbol(Names)),
           FinishRound(section, counters, itemSize, table),
           itemSize <= counters[section],
           TableFits(table, counters),
           \A k \in DOMAIN symtable : k \in DOMAIN table /\ table[k] = symtable[k],
           CurrentLine.kind = "instruction" => current_section = "text",
           Footprint(CurrentLine) > 0 =>
              /\ section = current_section
              /\ counters[section] - itemSize = location_counter[section]
    PROVE  ObjectSound'
<1>. DEFINE label == CurrentLine.label
            symbol == LabelSymbol(label, section, counters[section], itemSize)
<1>1. /\ CurrentLine \in Line /\ i \in DOMAIN program_lines
      /\ SecondWord(CurrentLine) \in Nat /\ counters[section] \in Nat
  BY CurrentLineTyped, SizeTyped DEF PassesAgree, Counters
<1>2. /\ location_counter' = Bump(counters, section, SecondWord(CurrentLine))
      /\ current_section' = section /\ size' = itemSize /\ mark' = Append(mark, Here)
      /\ UNCHANGED <<program_lines, phase, reloctable, buffer_size, binary_buffer, object>>
  BY DEF FinishRound
<1>3. Below(counters, location_counter')
  BY <1>1, <1>2, BumpGrows
<1>4. location_counter' \in Counters
  BY DEF TypeOK
<1>a. ASSUME label # NoName
      PROVE  /\ symbol \in Symbol(Names) /\ symbol.type # "section"
             /\ symbol.name = label /\ symbol.section = section
             /\ symbol.offset = counters[section] /\ symbol.size = itemSize
  <2>1. label \in Names
    BY <1>1, <1>a DEF Line
  <2>2. symbol \in Symbol(Names)
    BY <1>1, <2>1, SymbolsTyped
  <2>3. itemSize > 0 \/ itemSize = 0
    OBVIOUS
  <2>4. (IF itemSize > 0 THEN itemSize ELSE 0) = itemSize
    BY <2>3
  <2>. QED
    BY <2>2, <2>4 DEF LabelSymbol
<1>b. ASSUME label # NoName PROVE SymbolFits(symbol, counters)
  <2>1. symbol.type = "function" => section = "text"
    BY DEF LabelSymbol
  <2>2. symbol.type # "extern"
    BY DEF LabelSymbol
  <2>. HIDE DEF symbol
  <2>. QED
    BY <1>1, <1>a, <1>b, <2>1, <2>2 DEF SymbolFits
<1>5. /\ TableFits(symtable', counters)
      /\ \A k \in DOMAIN symtable : k \in DOMAIN symtable' /\ symtable'[k] = symtable[k]
      /\ label # NoName => \E k \in DOMAIN symtable' : symtable'[k] = symbol
  <2>1. CASE label = NoName
    <3>1. symtable' = table
      BY <2>1 DEF FinishRound
    <3>. QED
      BY <2>1, <3>1
  <2>2. CASE label # NoName
    <3>1. symtable' = AddSymbol(table, symbol) /\ ~Exists(table, label)
      BY <2>2 DEF FinishRound
    <3>. HIDE DEF symbol, label
    <3>2. /\ TableFits(symtable', counters)
          /\ \A k \in DOMAIN table : k \in DOMAIN symtable' /\ symtable'[k] = table[k]
          /\ \E k \in DOMAIN symtable' : symtable'[k] = symbol
      BY <1>a, <1>b, <2>2, <3>1, SymbolAppended
    <3>. QED
      BY <3>2
  <2>. QED
    BY <2>1, <2>2
<1>. HIDE DEF label, symbol
<1>6. TableSound'
  <2>1. symtable' \in Seq(Symbol(Names))
    BY DEF TypeOK
  <2>2. TableFits(symtable', location_counter')
    BY <1>3, <1>4, <1>5, <2>1, RoomGrows
  <2>. QED
    BY <1>2, <2>2 DEF TableSound
<1>7. SizeWithinSection'
  <2>1. counters[section] <= location_counter'[section] /\ location_counter'[section] \in Nat
    BY <1>3, <1>4 DEF Below, Counters
  <2>2. itemSize <= location_counter'[section]
    BY <1>1, <2>1
  <2>. QED
    BY <1>2, <2>2 DEF SizeWithinSection
<1>8. /\ DOMAIN mark = 1 .. Len(mark) /\ DOMAIN mark' = 1 .. i /\ Len(mark) = i - 1
      /\ i \in Nat
      /\ \A k \in DOMAIN mark : mark'[k] = mark[k]
      /\ mark'[i] = Here
  <2>1. i \in Nat /\ Len(mark) = i - 1
    BY DEF TypeOK, PassesAgree, FirstPassAhead
  <2>2. mark \in Seq([section: Sections, counters: Counters])
    BY DEF TypeOK
  <2>. QED
    BY <1>2, <2>1, <2>2, AppendedMark
<1>9. CodeInText'
  <2>. SUFFICES ASSUME NEW k \in DOMAIN mark', program_lines[k].name # "end",
                       program_lines[k].kind = "instruction"
                PROVE  mark'[k].section = "text"
    BY <1>2 DEF CodeInText
  <2>1. CASE k \in DOMAIN mark
    BY <1>8, <2>1 DEF ObjectSound, CodeInText
  <2>2. CASE k = i
    BY <1>8, <2>2 DEF CurrentLine, Here
  <2>. QED
    BY <1>8, <2>1, <2>2
<1>10. LabelsPlaced'
  <2>. SUFFICES ASSUME NEW k \in DOMAIN mark'
                PROVE  Labelled(program_lines[k], mark'[k], symtable')
    BY <1>2 DEF LabelsPlaced
  <2>1. CASE k \in DOMAIN mark
    <3>1. Labelled(program_lines[k], mark[k], symtable)
      BY <2>1 DEF ObjectSound, LabelsPlaced
    <3>. QED
      BY <1>5, <1>8, <2>1, <3>1 DEF Labelled
  <2>2. CASE k = i
    <3>. SUFFICES ASSUME label # NoName, Footprint(CurrentLine) > 0
                  PROVE  \E n \in DOMAIN symtable' :
                            /\ symtable'[n].name = label
                            /\ symtable'[n].section = Here.section
                            /\ symtable'[n].offset - symtable'[n].size
                                  = Here.counters[Here.section]
      BY <1>8, <2>2 DEF Labelled, CurrentLine, label
    <3>1. PICK n \in DOMAIN symtable' : symtable'[n] = symbol
      BY <1>5
    <3>2. Here.section = section /\ Here.counters = location_counter
      BY DEF Here
    <3>. QED
      BY <1>a, <3>1, <3>2
  <2>. QED
    BY <1>8, <2>1, <2>2
<1>11. ChunksTiled' /\ RelocsSound' /\ ObjectMade'
  BY <1>2 DEF ObjectSound, ChunksTiled, RelocsSound, ObjectMade
<1>. QED
  BY <1>6, <1>7, <1>9, <1>10, <1>11 DEF ObjectSound

LEMMA CarryLabelSound ==
    ASSUME TypeOK, TypeOK', PassesAgree, ObjectSound, CarryLabel
    PROVE  ObjectSound'
<1>1. /\ phase = "first" /\ phase' = "first" /\ i' = i + 1 /\ mark' = Append(mark, Here)
      /\ UNCHANGED <<current_section, location_counter, size, symtable,
                     reloctable, buffer_size, binary_buffer, object>>
      /\ CurrentLine.kind = "label" /\ CurrentLine = program_lines[i]
      /\ program_lines' = [program_lines EXCEPT ![i + 1].label = CurrentLine.label]
  BY DEF CarryLabel, InPass, CurrentLine
<1>2. /\ DOMAIN mark = 1 .. Len(mark) /\ DOMAIN mark' = 1 .. i /\ Len(mark) = i - 1
      /\ i \in Nat /\ i \in DOMAIN program_lines
      /\ \A k \in DOMAIN mark : mark'[k] = mark[k]
  <2>1. i \in Nat /\ Len(mark) = i - 1 /\ i \in DOMAIN program_lines
    BY <1>1, CurrentLineTyped DEF TypeOK, PassesAgree, FirstPassAhead
  <2>2. mark \in Seq([section: Sections, counters: Counters])
    BY DEF TypeOK
  <2>. QED
    BY <1>1, <2>1, <2>2, AppendedMark
<1>3. \A k \in 1 .. i : program_lines'[k] = program_lines[k]
  <2>1. program_lines \in Seq(Line)
    BY DEF TypeOK
  <2>2. \A k \in 1 .. i : k \in DOMAIN program_lines /\ k # i + 1
    BY <1>2, <2>1
  <2>. QED
    BY <1>1, <2>2
<1>4. CodeInText'
  <2>. SUFFICES ASSUME NEW k \in DOMAIN mark', program_lines[k].name # "end",
                       program_lines[k].kind = "instruction"
                PROVE  mark'[k].section = "text"
    BY <1>2, <1>3 DEF CodeInText
  <2>1. k \in DOMAIN mark
    BY <1>1, <1>2
  <2>. QED
    BY <1>2, <2>1 DEF ObjectSound, CodeInText
<1>5. LabelsPlaced'
  <2>. SUFFICES ASSUME NEW k \in DOMAIN mark'
                PROVE  Labelled(program_lines[k], mark'[k], symtable)
    BY <1>1, <1>2, <1>3 DEF LabelsPlaced
  <2>1. CASE k \in DOMAIN mark
    BY <1>2, <2>1 DEF ObjectSound, LabelsPlaced
  <2>2. CASE k = i
    <3>1. Footprint(program_lines[i]) = 0
      BY <1>1 DEF Footprint
    <3>. QED
      BY <2>2, <3>1 DEF Labelled
  <2>. QED
    BY <1>2, <2>1, <2>2
<1>6. TableSound' /\ SizeWithinSection' /\ ChunksTiled' /\ RelocsSound' /\ ObjectMade'
  BY <1>1 DEF ObjectSound, TableSound, SizeWithinSection, ChunksTiled, RelocsSound, ObjectMade
<1>. QED
  BY <1>4, <1>5, <1>6 DEF ObjectSound

LEMMA EndFirstPassSound ==
    ASSUME TypeOK, PassesAgree, ObjectSound, EndFirstPass
    PROVE  ObjectSound'
<1>1. /\ phase = "first" /\ phase' = "second" /\ mark' = Append(mark, Here)
      /\ buffer_size' = location_counter /\ location_counter' = Zeroes
      /\ UNCHANGED <<program_lines, size, symtable, reloctable, binary_buffer, object>>
      /\ program_lines[i].name = "end"
  BY DEF EndFirstPass, CurrentLine
<1>2. /\ DOMAIN mark = 1 .. Len(mark) /\ DOMAIN mark' = 1 .. i /\ Len(mark) = i - 1
      /\ i \in Nat
      /\ \A k \in DOMAIN mark : mark'[k] = mark[k]
  <2>1. i \in Nat /\ Len(mark) = i - 1
    BY <1>1 DEF TypeOK, PassesAgree, FirstPassAhead
  <2>2. mark \in Seq([section: Sections, counters: Counters])
    BY DEF TypeOK
  <2>. QED
    BY <1>1, <2>1, <2>2, AppendedMark
<1>3. \A k \in DOMAIN mark' : k \in DOMAIN mark \/ program_lines[k].name = "end"
  BY <1>1, <1>2
<1>4. CodeInText'
  BY <1>1, <1>2, <1>3 DEF ObjectSound, CodeInText
<1>5. LabelsPlaced'
  BY <1>1, <1>2, <1>3 DEF ObjectSound, LabelsPlaced, Labelled
<1>6. ChunksTiled'
  <2>1. \A s \in Sections : binary_buffer'[s] = << >> /\ location_counter'[s] = 0
    BY <1>1 DEF PassesAgree, FirstPassAhead, Zeroes
  <2>. QED
    BY <2>1 DEF ChunksTiled, Tiled
<1>7. RelocsSound'
  BY <1>1 DEF ObjectSound, RelocsSound
<1>8. TableSound' /\ SizeWithinSection' /\ ObjectMade'
  BY <1>1 DEF ObjectSound, TableSound, SizeWithinSection, ObjectMade
<1>. QED
  BY <1>4, <1>5, <1>6, <1>7, <1>8 DEF ObjectSound

LEMMA FirstPassSound ==
    ASSUME TypeOK, TypeOK', PassesAgree, ObjectSound, FirstPass
    PROVE  ObjectSound'
<1>a. /\ CurrentLine \in Line /\ current_section \in Sections
      /\ location_counter \in Counters /\ size \in Nat
      /\ symtable \in Seq(Symbol(Names))
      /\ \A s \in Sections : location_counter[s] \in Nat
  BY CurrentLineTyped DEF TypeOK, PassesAgree, Counters
<1>b. ASSUME phase = "first"
      PROVE  TableFits(symtable, location_counter) /\ size <= location_counter[current_section]
  BY <1>b DEF ObjectSound, TableSound, SizeWithinSection
<1>1. CASE SwitchSection
  <2>1. /\ CurrentLine.name \in Sections /\ CurrentLine.kind = "directive"
        /\ phase = "first" /\ CurrentLine.name # "end"
        /\ FinishRound(CurrentLine.name, location_counter, 0, symtable)
    BY <1>1 DEF SwitchSection, InPass, SectionNames, Sections
  <2>2. Footprint(CurrentLine) = 0
    BY <1>1, <2>1 DEF SwitchSection, Footprint, DirectiveSize, UnitSize,
                      SizelessDirectives, SectionNames
  <2>3. 0 <= location_counter[CurrentLine.name]
    BY <1>a, <2>1
  <2>. QED
    BY <1>a, <1>b, <2>1, <2>2, <2>3, RoundSound
<1>2. CASE DeclareExtern
  <2>1. /\ CurrentLine.kind = "directive" /\ phase = "first" /\ CurrentLine.name # "end"
        /\ CurrentLine.name = "extern" /\ CanDeclare(CurrentLine)
        /\ FinishRound(current_section, location_counter, 0,
             symtable \o [k \in DOMAIN CurrentLine.args |->
                            ExternSymbol(CurrentLine.args[k].name)])
    BY <1>2 DEF DeclareExtern, InPass
  <2>2. Footprint(CurrentLine) = 0
    BY <2>1 DEF Footprint, DirectiveSize, UnitSize, SizelessDirectives, SectionNames
  <2>3. 0 <= location_counter[current_section]
    BY <1>a
  <2>. DEFINE table == symtable \o [k \in DOMAIN CurrentLine.args |->
                                      ExternSymbol(CurrentLine.args[k].name)]
  <2>4. /\ table \in Seq(Symbol(Names)) /\ TableFits(table, location_counter)
        /\ \A k \in DOMAIN symtable : k \in DOMAIN table /\ table[k] = symtable[k]
    <3>1. CurrentLine.args \in Seq(Operand)
      BY <1>a DEF Line
    <3>2. \A k \in DOMAIN CurrentLine.args :
             /\ ~Exists(symtable, CurrentLine.args[k].name)
             /\ \A j \in 1 .. k - 1 : CurrentLine.args[j].name # CurrentLine.args[k].name
      BY <2>1 DEF CanDeclare
    <3>. QED
      BY <1>a, <1>b, <2>1, <3>1, <3>2, ExternsAppended
  <2>5. FinishRound(current_section, location_counter, 0, table)
    BY <2>1
  <2>. HIDE DEF table
  <2>. QED
    BY <1>a, <2>1, <2>2, <2>3, <2>4, <2>5, RoundSound
<1>3. CASE ReserveItem
  <2>. DEFINE bytes == DirectiveSize(CurrentLine)
              counters == Bump(location_counter, current_section, bytes)
  <2>1. /\ CurrentLine.kind = "directive" /\ phase = "first" /\ CurrentLine.name # "end"
        /\ FinishRound(current_section, counters, bytes, symtable)
        /\ Reserves(CurrentLine)
    BY <1>3 DEF ReserveItem, InPass
  <2>2. bytes \in Nat
    BY <1>a, <2>1, SizeTyped
  <2>. HIDE DEF bytes
  <2>3. counters \in Counters /\ Below(location_counter, counters)
    BY <1>a, <2>2, BumpTyped, BumpGrows
  <2>4. counters[current_section] = location_counter[current_section] + bytes
    BY <1>a DEF Bump, Counters
  <2>. HIDE DEF counters
  <2>5. /\ bytes <= counters[current_section]
        /\ counters[current_section] - bytes = location_counter[current_section]
    BY <1>a, <2>2, <2>4
  <2>6. TableFits(symtable, counters)
    BY <1>a, <1>b, <2>1, <2>3, RoomGrows
  <2>. QED
    BY <1>a, <2>1, <2>2, <2>3, <2>5, <2>6, RoundSound
<1>4. CASE PassOverDirective
  <2>1. /\ CurrentLine.kind = "directive" /\ phase = "first" /\ CurrentLine.name # "end"
        /\ FinishRound(current_section, location_counter, 0, symtable)
        /\ DirectiveSize(CurrentLine) = 0
    BY <1>4 DEF PassOverDirective, InPass
  <2>2. Footprint(CurrentLine) = 0
    BY <2>1 DEF Footprint
  <2>3. 0 <= location_counter[current_section]
    BY <1>a
  <2>. QED
    BY <1>a, <1>b, <2>1, <2>2, <2>3, RoundSound
<1>5. CASE SizeInstruction
  <2>. DEFINE counters == Bump(location_counter, current_section, InstructionSize)
  <2>1. /\ CurrentLine.kind = "instruction" /\ phase = "first" /\ CurrentLine.name # "end"
        /\ current_section = "text"
        /\ FinishRound(current_section, counters, InstructionSize, symtable)
    BY <1>5 DEF SizeInstruction, InPass
  <2>2. InstructionSize \in Nat
    BY DEF InstructionSize
  <2>3. counters \in Counters /\ Below(location_counter, counters)
    BY <1>a, <2>2, BumpTyped, BumpGrows
  <2>4. counters[current_section] = location_counter[current_section] + InstructionSize
    BY <1>a DEF Bump, Counters
  <2>. HIDE DEF counters
  <2>5. /\ InstructionSize <= counters[current_section]
        /\ counters[current_section] - InstructionSize = location_counter[current_section]
    BY <1>a, <2>2, <2>4
  <2>6. TableFits(symtable, counters)
    BY <1>a, <1>b, <2>1, <2>3, RoomGrows
  <2>. QED
    BY <1>a, <2>1, <2>2, <2>3, <2>5, <2>6, RoundSound
<1>6. CASE PassOverBlank
  <2>1. /\ CurrentLine.kind = "undefined" /\ phase = "first" /\ CurrentLine.name # "end"
        /\ FinishRound(current_section, location_counter, size, symtable)
    BY <1>6 DEF PassOverBlank, InPass
  <2>2. Footprint(CurrentLine) = 0
    BY <2>1 DEF Footprint
  <2>. QED
    BY <1>a, <1>b, <2>1, <2>2, RoundSound
<1>7. CASE CarryLabel
  BY <1>7, CarryLabelSound
<1>8. CASE RejectFirst
  BY <1>8 DEF RejectFirst, ObjectSound, TableSound, SizeWithinSection, CodeInText,
              LabelsPlaced, ChunksTiled, RelocsSound, ObjectMade
<1>9. CASE EndFirstPass
  BY <1>9, EndFirstPassSound
<1>. QED
  BY <1>1, <1>2, <1>3, <1>4, <1>5, <1>6, <1>7, <1>8, <1>9 DEF FirstPass

-----------------------------------------------------------------------------
(* Second pass.                                                            *)

\* What the second pass leaves alone of the table: all but scopes, and those
\* only become global.
Rescoped(table, after) ==
    /\ DOMAIN after = DOMAIN table
    /\ \A k \in DOMAIN table :
          after[k] \in {table[k], [table[k] EXCEPT !.scope = "global"]}

LEMMA RescopedEntry ==
    ASSUME NEW table \in Seq(Symbol(Names)), NEW after, Rescoped(table, after),
           NEW k \in DOMAIN table
    PROVE  /\ after[k].name = table[k].name /\ after[k].section = table[k].section
           /\ after[k].type = table[k].type /\ after[k].offset = table[k].offset
           /\ after[k].size = table[k].size
           /\ after[k].scope \in {table[k].scope, "global"}
<1>1. table[k] \in Symbol(Names)
  BY ElementTyped
<1>. QED
  BY <1>1 DEF Rescoped, Symbol

LEMMA RescopedFits ==
    ASSUME NEW table \in Seq(Symbol(Names)), NEW after \in Seq(Symbol(Names)), NEW room,
           Rescoped(table, after), TableFits(table, room)
    PROVE  TableFits(after, room)
<1>1. Len(after) = Len(table) /\ DOMAIN after = DOMAIN table /\ Len(table) \in Nat
      /\ DOMAIN table = 1 .. Len(table)
  BY DEF Rescoped
<1>2. TailUnique(after)
  <2>1. \A k \in 2 .. Len(table) : k \in DOMAIN table
    BY <1>1
  <2>2. \A k \in 2 .. Len(table) : after[k].name = table[k].name
    BY <2>1, RescopedEntry
  <2>. QED
    BY <1>1, <2>2 DEF TableFits, TailUnique
<1>3. ASSUME NEW k \in DOMAIN after
      PROVE  (k <= 3) = (after[k].type = "section") /\ SymbolFits(after[k], room)
  <2>1. (k <= 3) = (table[k].type = "section") /\ SymbolFits(table[k], room)
    BY <1>1 DEF TableFits
  <2>2. /\ after[k].section = table[k].section
        /\ after[k].type = table[k].type /\ after[k].offset = table[k].offset
        /\ after[k].size = table[k].size
        /\ after[k].scope \in {table[k].scope, "global"}
    BY <1>1, RescopedEntry
  <2>. QED
    BY <2>1, <2>2 DEF SymbolFits
<1>. QED
  BY <1>1, <1>2, <1>3 DEF TableFits

LEMMA SecondPassRescopes ==
    ASSUME TypeOK, SecondPass
    PROVE  Rescoped(symtable, symtable')
<1>1. CASE Export
  <2>1. PICK exported : symtable' = [k \in DOMAIN symtable |->
                                       IF k - 1 \in exported
                                       THEN [symtable[k] EXCEPT !.scope = "global"]
                                       ELSE symtable[k]]
    BY <1>1 DEF Export
  <2>. QED
    BY <2>1 DEF Rescoped
<1>2. CASE symtable' = symtable
  BY <1>2 DEF Rescoped
<1>. QED
  BY <1>1, <1>2 DEF SecondPass, EnterSection, EmitData, EncodeInstruction, PassOver,
                    RejectSecond, WriteObject

LEMMA MarksStand ==
    ASSUME TypeOK, ObjectSound, Rescoped(symtable, symtable'),
           UNCHANGED <<program_lines, mark>>
    PROVE  CodeInText' /\ LabelsPlaced'
<1>1. CodeInText'
  BY DEF ObjectSound, CodeInText
<1>2. ASSUME NEW k \in DOMAIN mark PROVE Labelled(program_lines[k], mark[k], symtable')
  <2>1. Labelled(program_lines[k], mark[k], symtable)
    BY DEF ObjectSound, LabelsPlaced
  <2>. SUFFICES ASSUME NEW n \in DOMAIN symtable
                PROVE  /\ n \in DOMAIN symtable'
                       /\ symtable'[n].name = symtable[n].name
                       /\ symtable'[n].section = symtable[n].section
                       /\ symtable'[n].offset = symtable[n].offset
                       /\ symtable'[n].size = symtable[n].size
    BY <2>1 DEF Labelled
  <2>2. symtable \in Seq(Symbol(Names))
    BY DEF TypeOK
  <2>3. n \in DOMAIN symtable'
    BY DEF Rescoped
  <2>. QED
    BY <2>2, <2>3, RescopedEntry
<1>3. LabelsPlaced'
  BY <1>2 DEF LabelsPlaced
<1>. QED
  BY <1>1, <1>3

\* What is in a buffer stays there, in front of what is added.
LEMMA ChunksGrow ==
    ASSUME TypeOK, ObjectSound, phase = "second", Fills
    PROVE  /\ \A s \in Sections : Tiled(binary_buffer'[s], location_counter'[s])
           /\ \A s \in Sections : location_counter[s] <= location_counter'[s]
           /\ \A s \in Sections : \A n \in DOMAIN binary_buffer[s] :
                 /\ n \in DOMAIN binary_buffer'[s]
                 /\ binary_buffer'[s][n] = binary_buffer[s][n]
<1>1. /\ binary_buffer \in [Sections -> Seq(Chunk)] /\ location_counter \in [Sections -> Nat]
      /\ current_section \in Sections /\ i \in Nat
  BY DEF TypeOK, Counters
<1>2. \A s \in Sections : Tiled(binary_buffer[s], location_counter[s])
  BY DEF ObjectSound, ChunksTiled
<1>3. CASE UNCHANGED <<binary_buffer, location_counter>>
  BY <1>1, <1>2, <1>3
<1>4. CASE \E bytes \in Nat \ {0} : \E group : Emit(bytes, group)
  <2>1. PICK bytes \in Nat \ {0} : \E group : Emit(bytes, group)
    BY <1>4
  <2>2. PICK group : Emit(bytes, group)
    BY <2>1
  <2>. DEFINE here == current_section
              chunk == [line |-> i, at |-> location_counter[here],
                        size |-> bytes, group |-> group]
  <2>3. /\ binary_buffer'[here] = Append(binary_buffer[here], chunk)
        /\ location_counter'[here] = chunk.at + chunk.size
        /\ \A s \in Sections \ {here} : /\ binary_buffer'[s] = binary_buffer[s]
                                        /\ location_counter'[s] = location_counter[s]
    BY <1>1, <2>2 DEF Emit, Bump
  <2>4. /\ Tiled(binary_buffer[here], chunk.at)
        /\ chunk.at \in Nat /\ chunk.size \in Nat
    BY <1>1, <1>2
  <2>. HIDE DEF chunk
  <2>5. /\ Tiled(binary_buffer'[here], chunk.at + chunk.size)
        /\ \A n \in DOMAIN binary_buffer[here] :
              n \in DOMAIN binary_buffer'[here] /\ binary_buffer'[here][n] = binary_buffer[here][n]
    BY <1>1, <2>3, <2>4, ChunkAppended
  <2>6. location_counter[here] <= location_counter'[here]
    BY <1>1, <2>3, <2>4 DEF chunk
  <2>. SUFFICES ASSUME NEW s \in Sections
                PROVE  /\ Tiled(binary_buffer'[s], location_counter'[s])
                       /\ location_counter[s] <= location_counter'[s]
                       /\ \A n \in DOMAIN binary_buffer[s] :
                             /\ n \in DOMAIN binary_buffer'[s]
                             /\ binary_buffer'[s][n] = binary_buffer[s][n]
    OBVIOUS
  <2>7. CASE s = here
    BY <2>3, <2>5, <2>6, <2>7
  <2>8. CASE s # here
    <3>1. location_counter[s] \in Nat
      BY <1>1
    <3>2. binary_buffer'[s] = binary_buffer[s] /\ location_counter'[s] = location_counter[s]
      BY <2>3, <2>8
    <3>. QED
      BY <1>2, <3>1, <3>2
  <2>. QED
    BY <2>7, <2>8
<1>. QED
  BY <1>3, <1>4 DEF Fills

LEMMA RelocStays ==
    ASSUME NEW reloc \in Relocation, NEW table, NEW after, NEW chunks, NEW more,
           NEW end \in Nat, NEW later \in Nat,
           RelocSound(reloc, table, chunks, end), end <= later,
           DOMAIN after = DOMAIN table,
           \A n \in DOMAIN chunks : n \in DOMAIN more /\ more[n] = chunks[n]
    PROVE  RelocSound(reloc, after, more, later)
<1>1. reloc.offset \in Nat
  BY DEF Relocation
<1>. QED
  BY <1>1 DEF RelocSound, HasIndex, InstructionSize

\* An instruction's relocation is of an entry and at the chunk it writes.
LEMMA EncodedSound ==
    ASSUME TypeOK, TypeOK', PassesAgree, ObjectSound, EncodeInstruction
    PROVE  RelocsSound'
<1>1. /\ phase = "second" /\ phase' = "second" /\ symtable' = symtable
      /\ CurrentLine.kind = "instruction" /\ CurrentLine.name # "end"
  BY DEF EncodeInstruction, InPass, NextLine
<1>2. current_section = "text"
  <2>1. i \in DOMAIN mark /\ mark[i].section = current_section
    BY <1>1 DEF PassesAgree, SecondPassOnMarks, Here
  <2>. QED
    BY <1>1, <2>1 DEF ObjectSound, CodeInText, CurrentLine
<1>. DEFINE bytes == EncodedSize(CurrentLine)
            here == location_counter["text"]
<1>3. PICK group \in Decoded(CurrentLine.name) :
        /\ Emit(bytes, group)
        /\ reloctable' =
              IF /\ NamesSymbol(CurrentLine, group)
                 /\ Defined(symtable, SymbolOperand(CurrentLine, group))
              THEN AddRelocation(reloctable,
                     IndexOfName(symtable, SymbolOperand(CurrentLine, group)),
                     location_counter[current_section])
              ELSE reloctable
  BY DEF EncodeInstruction
<1>4. bytes \in Nat \ {0} /\ bytes >= InstructionSize /\ InstructionSize \in Nat \ {0}
  BY DEF EncodedSize, InstructionSize
<1>. HIDE DEF bytes
<1>5. Fills
  BY <1>3, <1>4 DEF Fills
<1>. DEFINE chunk == [line |-> i, at |-> here, size |-> bytes, group |-> group]
<1>6. /\ binary_buffer \in [Sections -> Seq(Chunk)] /\ location_counter \in [Sections -> Nat]
      /\ "text" \in Sections /\ here \in Nat
  BY DEF TypeOK, Counters, Sections
<1>7. binary_buffer'["text"] = Append(binary_buffer["text"], chunk)
      /\ location_counter'["text"] = here + bytes
  BY <1>2, <1>3, <1>6 DEF Emit, Bump
<1>8. here + InstructionSize <= location_counter'["text"]
  BY <1>4, <1>6, <1>7
<1>9. \E n \in DOMAIN binary_buffer'["text"] : binary_buffer'["text"][n].at = here
  <2>1. chunk.at = here
    OBVIOUS
  <2>2. Tiled(binary_buffer["text"], chunk.at) /\ binary_buffer["text"] \in Seq(Chunk)
    BY <1>1, <1>6, <2>1 DEF ObjectSound, ChunksTiled
  <2>. HIDE DEF chunk
  <2>3. \E n \in DOMAIN binary_buffer'["text"] : binary_buffer'["text"][n] = chunk
    BY <1>7, <2>2, ChunkAppended
  <2>. QED
    BY <2>1, <2>3
<1>10. ASSUME NEW k \in DOMAIN reloctable
       PROVE  /\ RelocSound(reloctable[k], symtable', binary_buffer'["text"],
                            location_counter'["text"])
              /\ reloctable[k].offset < here
              /\ \A j \in 1 .. k - 1 : reloctable[j].offset < reloctable[k].offset
  <2>1. /\ RelocSound(reloctable[k], symtable, binary_buffer["text"], here)
        /\ reloctable[k] \in Relocation
        /\ \A j \in 1 .. k - 1 : reloctable[j].offset < reloctable[k].offset
    BY <1>1 DEF ObjectSound, RelocsSound, TypeOK
  <2>2. /\ here <= location_counter'["text"]
        /\ \A n \in DOMAIN binary_buffer["text"] :
              /\ n \in DOMAIN binary_buffer'["text"]
              /\ binary_buffer'["text"][n] = binary_buffer["text"][n]
    BY <1>1, <1>5, <1>6, ChunksGrow
  <2>3. location_counter'["text"] \in Nat
    BY <1>6 DEF TypeOK, Counters
  <2>4. reloctable[k].offset < here
    BY <1>4, <1>6, <2>1 DEF RelocSound, Relocation
  <2>. QED
    BY <1>1, <1>6, <2>1, <2>2, <2>3, <2>4, RelocStays
<1>11. CASE reloctable' = reloctable
  BY <1>1, <1>10, <1>11 DEF RelocsSound
<1>12. CASE reloctable' # reloctable
  <2>. DEFINE name == SymbolOperand(CurrentLine, group)
              reloc == [index |-> IndexOfName(symtable, name), offset |-> here]
  <2>1. Defined(symtable, name) /\ reloctable' = Append(reloctable, reloc)
    BY <1>2, <1>3, <1>12 DEF AddRelocation
  <2>. HIDE DEF name
  <2>2. HasIndex(symtable, IndexOfName(symtable, name))
    <3>1. symtable \in Seq(Symbol(Names))
      BY DEF TypeOK
    <3>. QED
      BY <2>1, <3>1, IndexOfNameFindsEntry
  <2>3. /\ RelocSound(reloc, symtable', binary_buffer'["text"], location_counter'["text"])
        /\ reloc.offset = here
    BY <1>1, <1>8, <1>9, <2>2 DEF RelocSound
  <2>. HIDE DEF reloc
  <2>4. /\ DOMAIN reloctable' = 1 .. Len(reloctable) + 1
        /\ DOMAIN reloctable = 1 .. Len(reloctable) /\ Len(reloctable) \in Nat
        /\ \A k \in 1 .. Len(reloctable) : reloctable'[k] = reloctable[k]
        /\ reloctable'[Len(reloctable) + 1] = reloc
    BY <2>1 DEF TypeOK
  <2>5. ASSUME NEW k \in DOMAIN reloctable'
        PROVE  /\ RelocSound(reloctable'[k], symtable', binary_buffer'["text"],
                             location_counter'["text"])
               /\ \A j \in 1 .. k - 1 : reloctable'[j].offset < reloctable'[k].offset
    <3>1. CASE k \in DOMAIN reloctable
      <4>1. \A j \in 1 .. k - 1 : j \in 1 .. Len(reloctable)
        BY <2>4, <3>1
      <4>. QED
        BY <1>10, <2>4, <3>1, <4>1
    <3>2. CASE k = Len(reloctable) + 1
      <4>1. \A j \in 1 .. k - 1 : j \in DOMAIN reloctable /\ reloctable'[j] = reloctable[j]
        BY <2>4, <3>2
      <4>. QED
        BY <1>10, <2>3, <2>4, <3>2, <4>1
    <3>. QED
      BY <2>4, <3>1, <3>2
  <2>. QED
    BY <1>1, <2>5 DEF RelocsSound
<1>. QED
  BY <1>11, <1>12

LEMMA SecondPassSound ==
    ASSUME TypeOK, TypeOK', PassesAgree, ObjectSound, SecondPass
    PROVE  ObjectSound'
<1>1. phase = "second" /\ EndAhead
  BY DEF SecondPass, EnterSection, Export, EmitData, EncodeInstruction, PassOver,
         RejectSecond, WriteObject, InPass, PassesAgree
<1>2. Fills /\ Rescoped(symtable, symtable')
  BY <1>1, SecondStepFills, SecondPassRescopes
<1>3. /\ phase' \in {"second", "done", "failed"}
      /\ UNCHANGED <<program_lines, mark, buffer_size>>
  BY <1>1 DEF SecondPass, EnterSection, Export, EmitData, EncodeInstruction, PassOver,
         RejectSecond, WriteObject, NextLine
<1>4. TableSound'
  <2>1. TableFits(symtable, buffer_size)
    BY <1>1 DEF ObjectSound, TableSound
  <2>2. symtable \in Seq(Symbol(Names)) /\ symtable' \in Seq(Symbol(Names))
    BY DEF TypeOK
  <2>3. TableFits(symtable', buffer_size)
    BY <1>2, <2>1, <2>2, RescopedFits
  <2>. QED
    BY <1>3, <2>3 DEF TableSound
<1>5. SizeWithinSection'
  BY <1>3 DEF SizeWithinSection
<1>6. CodeInText' /\ LabelsPlaced'
  BY <1>2, <1>3, MarksStand
<1>7. ChunksTiled'
  <2>1. \A s \in Sections : Tiled(binary_buffer'[s], location_counter'[s])
    BY <1>1, <1>2, ChunksGrow
  <2>. QED
    BY <2>1 DEF ChunksTiled
<1>8. RelocsSound'
  <2>1. CASE EncodeInstruction
    BY <2>1, EncodedSound
  <2>2. CASE reloctable' = reloctable
    <3>1. ASSUME NEW k \in DOMAIN reloctable
          PROVE  /\ RelocSound(reloctable[k], symtable', binary_buffer'["text"],
                               location_counter'["text"])
                 /\ \A j \in 1 .. k - 1 : reloctable[j].offset < reloctable[k].offset
      <4>1. /\ RelocSound(reloctable[k], symtable, binary_buffer["text"],
                          location_counter["text"])
            /\ \A j \in 1 .. k - 1 : reloctable[j].offset < reloctable[k].offset
            /\ reloctable[k] \in Relocation
        BY <1>1 DEF ObjectSound, RelocsSound, TypeOK
      <4>2. /\ location_counter["text"] <= location_counter'["text"]
            /\ \A n \in DOMAIN binary_buffer["text"] :
                  /\ n \in DOMAIN binary_buffer'["text"]
                  /\ binary_buffer'["text"][n] = binary_buffer["text"][n]
        BY <1>1, <1>2, ChunksGrow DEF Sections
      <4>3. location_counter["text"] \in Nat /\ location_counter'["text"] \in Nat
        BY DEF TypeOK, Counters, Sections
      <4>4. DOMAIN symtable' = DOMAIN symtable
        BY <1>2 DEF Rescoped
      <4>. QED
        BY <4>1, <4>2, <4>3, <4>4, RelocStays
    <3>. QED
      BY <1>3, <2>2, <3>1 DEF RelocsSound
  <2>. QED
    BY <2>1, <2>2 DEF SecondPass, EnterSection, Export, EmitData, PassOver, RejectSecond,
                      WriteObject
<1>9. ObjectMade'
  <2>1. CASE WriteObject
    BY <2>1 DEF WriteObject, ObjectMade
  <2>2. CASE phase' # "done"
    BY <2>2 DEF ObjectMade
  <2>. QED
    BY <1>1, <2>1, <2>2 DEF SecondPass, EnterSection, Export, EmitData, EncodeInstruction,
                            PassOver, RejectSecond, NextLine
<1>. QED
  BY <1>4, <1>5, <1>6, <1>7, <1>8, <1>9 DEF ObjectSound

LEMMA NextSound ==
    TypeOK /\ PassesAgree /\ ObjectSound /\ [Next]_vars => ObjectSound'
<1>. SUFFICES ASSUME TypeOK, PassesAgree, ObjectSound, [Next]_vars PROVE ObjectSound'
  OBVIOUS
<1>a. TypeOK'
  BY NextTyped DEF PassesAgree
<1>1. CASE FirstPass
  BY <1>a, <1>1, FirstPassSound
<1>2. CASE SecondPass
  BY <1>a, <1>2, SecondPassSound
<1>3. CASE UNCHANGED vars
  BY <1>3 DEF vars, ObjectSound, TableSound, SizeWithinSection, CodeInText, LabelsPlaced,
              ChunksTiled, RelocsSound, ObjectMade
<1>. QED
  BY <1>1, <1>2, <1>3 DEF Next, Exited

LEMMA ObjectSoundAlways == Spec => []ObjectSound
<1>1. Init => TypeOK /\ PassesAgree /\ ObjectSound
  BY InitTyped, InitAgrees, InitSound
<1>2. TypeOK /\ PassesAgree /\ ObjectSound /\ [Next]_vars
        => TypeOK' /\ PassesAgree' /\ ObjectSound'
  BY NextTyped, NextAgrees, NextSound DEF PassesAgree
<1>. QED
  BY <1>1, <1>2, PTL DEF Spec

-----------------------------------------------------------------------------
(* The object and what the loader makes of it.                             *)

LEMMA ExactDivision ==
    ASSUME NEW n \in Nat
    PROVE  (48 * n) \div 48 = n /\ (8 * n) \div 8 = n
OBVIOUS

LEMMA ObjectOfDone ==
    ASSUME TypeOK, ObjectSound, phase = "done"
    PROVE  /\ object = MakeObject(location_counter, binary_buffer, symtable, reloctable)
           /\ object.text_start - object.data_start = location_counter.data
           /\ object.symbol_start - object.text_start = location_counter.text
           /\ object.reloc_start - object.symbol_start = SymEntrySize * Len(symtable)
           /\ object.size - object.reloc_start = RelocEntrySize * Len(reloctable)
<1>1. object = MakeObject(location_counter, binary_buffer, symtable, reloctable)
  BY DEF ObjectSound, ObjectMade
<1>2. /\ location_counter.data \in Nat /\ location_counter.text \in Nat
      /\ Len(symtable) \in Nat /\ Len(reloctable) \in Nat
  <2>1. /\ location_counter \in Counters
        /\ symtable \in Seq(Symbol(Names)) /\ reloctable \in Seq(Relocation)
    BY DEF TypeOK
  <2>. QED
    BY <2>1 DEF Counters, Sections
<1>3. /\ object.data_start = 24
      /\ object.text_start = 24 + location_counter.data
      /\ object.symbol_start = 24 + location_counter.data + location_counter.text
      /\ object.reloc_start = object.symbol_start + 48 * Len(symtable)
      /\ object.size = object.reloc_start + 8 * Len(reloctable)
  BY <1>1 DEF MakeObject, SymbolStart, ElfSize, SymEntrySize, RelocEntrySize
<1>4. /\ object.text_start - object.data_start = location_counter.data
      /\ object.symbol_start - object.text_start = location_counter.text
  BY <1>2, <1>3
<1>5. /\ object.reloc_start - object.symbol_start = 48 * Len(symtable)
      /\ object.size - object.reloc_start = 8 * Len(reloctable)
  BY <1>2, <1>3
<1>. QED
  BY <1>1, <1>4, <1>5 DEF SymEntrySize, RelocEntrySize

\* Every object written is well formed: what module Linker assumes of its
\* inputs holds of everything nas.c:306 writes.
THEOREM ObjectWellFormedAlways == Spec => []ObjectWellFormed
<1>1. TypeOK /\ PassesAgree /\ ExactSizes /\ ObjectSound => ObjectWellFormed
  <2>. SUFFICES ASSUME TypeOK, PassesAgree, ExactSizes, ObjectSound, phase = "done"
                PROVE  WellFormed(object)
    BY DEF ObjectWellFormed
  <2>1. location_counter = buffer_size
    BY DEF ExactSizes
  <2>2. /\ object.data_start = ElfSize
        /\ object.bss_size = location_counter.bss
        /\ object.reloc_start = object.symbol_start + SymEntrySize * Len(object.symbols)
        /\ object.size = object.reloc_start + RelocEntrySize * Len(object.relocs)
        /\ object.symbols = symtable /\ object.relocs = reloctable
        /\ object.data = binary_buffer.data /\ object.text = binary_buffer.text
    BY ObjectOfDone DEF MakeObject
  <2>. DEFINE length == SectionLength(object)
  <2>3. length = [data |-> location_counter.data, text |-> location_counter.text,
                  bss |-> location_counter.bss]
    BY <2>2, ObjectOfDone DEF SectionLength
  <2>4. TableFits(symtable, location_counter)
    BY <2>1 DEF ObjectSound, TableSound
  <2>5. \A s \in Sections : Tiled(binary_buffer[s], location_counter[s])
    BY DEF ObjectSound, ChunksTiled
  <2>6. Tiled(object.data, length.data) /\ Tiled(object.text, length.text)
    BY <2>2, <2>3, <2>5 DEF Sections
  <2>7. ASSUME NEW k \in DOMAIN symtable
        PROVE  LET symbol == symtable[k]
               IN  /\ (k <= 3) = (symbol.type = "section")
                   /\ symbol.type = "extern" =>
                         symbol.section = "none" /\ symbol.scope = "global"
                   /\ symbol.type = "function" => symbol.section = "text"
                   /\ symbol.size <= symbol.offset
                   /\ symbol.section # "none" => symbol.offset <= length[symbol.section]
    <3>1. (k <= 3) = (symtable[k].type = "section") /\ SymbolFits(symtable[k], location_counter)
      BY <2>4 DEF TableFits
    <3>2. symtable[k].section \in Sections
      <4>1. symtable[k] \in Symbol(Names)
        BY ElementTyped DEF TypeOK
      <4>. QED
        BY <4>1 DEF Symbol
    <3>3. symtable[k].section # "none" =>
            length[symtable[k].section] = location_counter[symtable[k].section]
      BY <2>3, <3>2 DEF Sections
    <3>. QED
      BY <3>1, <3>3 DEF SymbolFits
  <2>8. ASSUME NEW k \in DOMAIN reloctable
        PROVE  /\ HasIndex(symtable, reloctable[k].index)
               /\ reloctable[k].offset + InstructionSize <= length.text
               /\ \A j \in 1 .. k - 1 : reloctable[j].offset < reloctable[k].offset
               /\ \E n \in DOMAIN object.text : object.text[n].at = reloctable[k].offset
    BY <2>2, <2>3 DEF ObjectSound, RelocsSound, RelocSound
  <2>9. Len(symtable) >= 3 /\ TailUnique(symtable)
    BY <2>4 DEF TableFits
  <2>. HIDE DEF length
  <2>. QED
    BY <2>2, <2>6, <2>7, <2>8, <2>9 DEF WellFormed, length
<1>. QED
  BY <1>1, ObjectSoundAlways, SizesExact, PassesAgreeAlways, TypeCorrect, PTL

\* The loader's context of an object (nas_util_load_context) is what the
\* assembler had, although the loader renumbers the symbols and derives every
\* length from the header.
THEOREM ObjectReadsBackAlways == Spec => []ObjectReadsBack
<1>1. TypeOK /\ PassesAgree /\ ExactSizes /\ ObjectSound => ObjectReadsBack
  <2>. SUFFICES ASSUME TypeOK, PassesAgree, ExactSizes, ObjectSound, phase = "done"
                PROVE  /\ Tiled(LoadContext(object).data, LoadContext(object).data_size)
                       /\ Tiled(LoadContext(object).text, LoadContext(object).text_size)
                       /\ LoadContext(object).bss_size = buffer_size.bss
                       /\ LoadContext(object).symtable = symtable
                       /\ LoadContext(object).reloctable = reloctable
    BY DEF ObjectReadsBack
  <2>1. location_counter = buffer_size
    BY DEF ExactSizes
  <2>2. /\ object.bss_size = location_counter.bss
        /\ object.symbols = symtable /\ object.relocs = reloctable
        /\ object.data = binary_buffer.data /\ object.text = binary_buffer.text
    BY ObjectOfDone DEF MakeObject
  <2>3. /\ Tiled(binary_buffer.data, location_counter.data)
        /\ Tiled(binary_buffer.text, location_counter.text)
    BY DEF ObjectSound, ChunksTiled, Sections
  <2>4. /\ symtable \in Seq(Symbol(Names)) /\ Len(symtable) \in Nat
        /\ reloctable \in Seq(Relocation) /\ Len(reloctable) \in Nat
    BY DEF TypeOK
  <2>5. Reload(SubSeq(symtable, 1, (object.reloc_start - object.symbol_start) \div SymEntrySize))
          = symtable
    <3>1. (object.reloc_start - object.symbol_start) \div SymEntrySize = Len(symtable)
      BY <2>4, ObjectOfDone, ExactDivision DEF SymEntrySize
    <3>2. SubSeq(symtable, 1, Len(symtable)) = symtable
      BY <2>4
    <3>3. TailUnique(symtable)
      BY DEF ObjectSound, TableSound, TableFits
    <3>4. Reload(symtable) = symtable
      BY <2>4, <3>3, ReloadFaithful
    <3>. QED
      BY <3>1, <3>2, <3>4
  <2>6. ReloadRelocations(reloctable, object.size - object.reloc_start) = reloctable
    <3>1. (object.size - object.reloc_start) \div RelocEntrySize = Len(reloctable)
      BY <2>4, ObjectOfDone, ExactDivision DEF RelocEntrySize
    <3>2. SubSeq(reloctable, 1, Len(reloctable)) = reloctable
      BY <2>4
    <3>. QED
      BY <3>1, <3>2 DEF ReloadRelocations
  <2>. QED
    BY <2>1, <2>2, <2>3, <2>5, <2>6, ObjectOfDone DEF LoadContext
<1>. QED
  BY <1>1, ObjectSoundAlways, SizesExact, PassesAgreeAlways, TypeCorrect, PTL

-----------------------------------------------------------------------------
(* Labels address the items they label.                                    *)

LEMMA FootprintTyped ==
    ASSUME NEW line \in Line
    PROVE  /\ Footprint(line) \in Int
           /\ Footprint(line) > 0 => \A s : SectionAfter(line, s) = s
<1>1. DirectiveSize(line) \in Int /\ EncodedSize(line) \in Nat
  BY SizeTyped
<1>2. Footprint(line) \in Int
  BY <1>1 DEF Footprint
<1>3. ASSUME line.kind = "directive", line.name \in SectionNames
      PROVE  Footprint(line) = 0
  BY <1>3 DEF Footprint, DirectiveSize, UnitSize, SizelessDirectives, SectionNames
<1>. QED
  BY <1>2, <1>3 DEF SectionAfter

\* A chunk is where the first pass was before its line.
LEMMA ChunkAtMark ==
    ASSUME TypeOK, PassesAgree, WrittenAsPlanned, phase \in {"second", "done"},
           NEW s \in Sections, NEW n \in DOMAIN binary_buffer[s]
    PROVE  LET k == binary_buffer[s][n].line
           IN  /\ k \in DOMAIN mark
               /\ mark[k].section = s
               /\ mark[k].counters[s] = binary_buffer[s][n].at
               /\ program_lines[k].name # "end"
               /\ Footprint(program_lines[k]) > 0
<1>. DEFINE chunk == binary_buffer[s][n]
            slot == [line |-> chunk.line, part |-> s, at |-> chunk.at, size |-> chunk.size]
<1>1. slot \in WrittenSlots
  BY SlotOfChunk
<1>2. PICK k \in DOMAIN mark :
        \E t \in Sections : k < i /\ Abstract!Planned(k, t) /\ slot = Abstract!Slot(k, t)
  BY <1>1 DEF WrittenAsPlanned
<1>3. PICK t \in Sections : k < i /\ Abstract!Planned(k, t) /\ slot = Abstract!Slot(k, t)
  BY <1>2
<1>4. /\ k + 1 \in DOMAIN mark /\ k \in Nat
      /\ DOMAIN mark = 1 .. Len(mark) /\ Len(mark) \in Nat
      /\ PlannedPlaces[k] = mark[k].counters
      /\ PlannedPlaces[k + 1] = mark[k + 1].counters
  <2>1. k + 1 \in DOMAIN PlannedPlaces
    BY <1>3 DEF Abstract!Planned
  <2>. QED
    BY <2>1, PlanIsMark
<1>5. chunk.line = k /\ t = s /\ chunk.at = mark[k].counters[s]
  <2>1. slot.line = k /\ slot.part = t /\ slot.at = PlannedPlaces[k][t]
    BY <1>3 DEF Abstract!Slot
  <2>. QED
    BY <1>4, <2>1
<1>6. mark[k].counters[s] < mark[k + 1].counters[s]
  BY <1>3, <1>4, <1>5 DEF Abstract!Planned
<1>7. /\ program_lines[k].name # "end"
      /\ mark[k + 1] = Advance(program_lines[k], mark[k])
  BY <1>4 DEF PassesAgree, MarksFollowLines
<1>8. program_lines[k] \in Line
  <2>1. PICK e \in DOMAIN program_lines : i <= e
    BY DEF PassesAgree, EndAhead
  <2>2. program_lines \in Seq(Line) /\ i \in Nat
    BY DEF TypeOK
  <2>3. k \in 1 .. e /\ e \in 1 .. Len(program_lines)
    BY <1>3, <1>4, <2>1, <2>2
  <2>. QED
    BY <2>2, <2>3
<1>. DEFINE line == program_lines[k]
            section == SectionAfter(line, mark[k].section)
<1>9. mark[k + 1].counters = Bump(mark[k].counters, section, Footprint(line))
  BY <1>7 DEF Advance
<1>10. mark[k].section \in Sections /\ mark[k].counters \in Counters
  BY MarksTyped
<1>11. section \in Sections
  BY <1>10 DEF SectionAfter, SectionNames, Sections
<1>12. Footprint(line) \in Int
  BY <1>8, FootprintTyped
<1>. HIDE DEF section
<1>13. section = s /\ Footprint(line) > 0
  <2>1. mark[k].counters \in [Sections -> Nat]
    BY <1>10 DEF Counters
  <2>2. section = s
    BY <1>6, <1>9, <1>11, <2>1 DEF Bump
  <2>3. mark[k + 1].counters[s] = mark[k].counters[s] + Footprint(line)
    BY <1>9, <2>1, <2>2 DEF Bump
  <2>4. mark[k].counters[s] \in Nat
    BY <2>1
  <2>. HIDE DEF line
  <2>. QED
    BY <1>6, <1>12, <2>2, <2>3, <2>4
<1>14. section = mark[k].section
  BY <1>8, <1>13, FootprintTyped DEF section
<1>. QED
  BY <1>5, <1>7, <1>13, <1>14

LEMMA LabelsAddress ==
    ASSUME TypeOK, PassesAgree, WrittenAsPlanned, ObjectSound, phase # "failed"
    PROVE  LabelsAddressItems
<1>. SUFFICES ASSUME NEW s \in Sections, NEW n \in DOMAIN binary_buffer[s],
                     program_lines[binary_buffer[s][n].line].label # NoName
              PROVE  \E symbol \in {symtable[m] : m \in DOMAIN symtable} :
                        /\ symbol.name = program_lines[binary_buffer[s][n].line].label
                        /\ symbol.section = s
                        /\ symbol.offset - symbol.size = binary_buffer[s][n].at
  BY DEF LabelsAddressItems
<1>. DEFINE k == binary_buffer[s][n].line
<1>1. phase \in {"second", "done"}
  BY DEF TypeOK, PassesAgree, FirstPassAhead
<1>2. /\ k \in DOMAIN mark /\ mark[k].section = s
      /\ mark[k].counters[s] = binary_buffer[s][n].at
      /\ program_lines[k].name # "end" /\ Footprint(program_lines[k]) > 0
  BY <1>1, ChunkAtMark
<1>. HIDE DEF k
<1>3. Labelled(program_lines[k], mark[k], symtable)
  BY <1>2 DEF ObjectSound, LabelsPlaced
<1>4. program_lines[k].label # NoName
  BY DEF k
<1>5. PICK m \in DOMAIN symtable :
        /\ symtable[m].name = program_lines[k].label
        /\ symtable[m].section = s
        /\ symtable[m].offset - symtable[m].size = binary_buffer[s][n].at
  BY <1>2, <1>3, <1>4 DEF Labelled
<1>. QED
  BY <1>5 DEF k

\* The symbol of a label lies, by its size, behind the first byte of the item
\* it labels: offset minus size, which nas_run.c computes, is its address.
THEOREM LabelsAddressItemsAlways == Spec => []LabelsAddressItems
<1>. DEFINE LabelInv == TypeOK /\ PassesAgree /\ WrittenAsPlanned /\ ObjectSound
<1>1. Init => LabelInv
  BY InitTyped, InitAgrees, InitWritten, InitSound
<1>2. LabelInv /\ [Next]_vars => LabelInv'
  BY NextTyped, NextAgrees, NextLaysOut, NextSound DEF PassesAgree
<1>a. LabelInv /\ phase # "failed" => LabelsAddressItems
  BY LabelsAddress
<1>b. (LabelInv /\ phase # "failed")' => LabelsAddressItems'
  BY <1>a, PTL
<1>3. Init => LabelsAddressItems
  BY <1>1, LabelsAddress DEF Init
<1>4. LabelInv /\ LabelsAddressItems /\ [Next]_vars => LabelsAddressItems'
  <2>. SUFFICES ASSUME LabelInv, LabelsAddressItems, [Next]_vars PROVE LabelsAddressItems'
    OBVIOUS
  <2>1. CASE phase' # "failed"
    BY <1>b, <1>2, <2>1
  <2>2. CASE UNCHANGED <<program_lines, symtable, binary_buffer>>
    BY <2>2 DEF LabelsAddressItems
  <2>3. phase' = "failed" => UNCHANGED <<program_lines, symtable, binary_buffer>>
    BY DEF TypeOK, Next, FirstPass, SecondPass, Exited, vars, SwitchSection, DeclareExtern,
           ReserveItem, PassOverDirective, SizeInstruction, PassOverBlank, FinishRound,
           CarryLabel, RejectFirst, EndFirstPass, EnterSection, Export, EmitData,
           EncodeInstruction, PassOver, RejectSecond, WriteObject, NextLine, InPass
  <2>. QED
    BY <2>1, <2>2, <2>3
<1>. QED
  BY <1>1, <1>2, <1>3, <1>4, PTL DEF Spec

-----------------------------------------------------------------------------
(***************************************************************************)
(* For every set of programs: what the assembler decides about a program.  *)
(* The relocations are those its operands ask for, the global symbols are  *)
(* those it declares, and it is refused exactly for a fault of its text.   *)
(***************************************************************************)

(* Relocations.                                                            *)

\* Scopes apart, the second pass asks the same table the same questions.
LEMMA RescopedAnswers ==
    ASSUME NEW table \in Seq(Symbol(Names)), NEW after, Rescoped(table, after)
    PROVE  /\ \A name : Defined(after, name) <=> Defined(table, name)
           /\ \A index : HasIndex(after, index) <=> HasIndex(table, index)
           /\ \A index : HasIndex(table, index) =>
                 SymbolAt(after, index).name = SymbolAt(table, index).name
<1>1. DOMAIN after = DOMAIN table
  BY DEF Rescoped
<1>2. \A k \in DOMAIN table : after[k].name = table[k].name
  BY RescopedEntry
<1>. QED
  BY <1>1, <1>2 DEF Defined, HasIndex, SymbolAt

\* RelocsMatchOperands of given chunks, relocations, lines and symbols.
Asks(chunk, lines, table) ==
    LET line == lines[chunk.line]
    IN  /\ NamesSymbol(line, chunk.group)
        /\ Defined(table, SymbolOperand(line, chunk.group))

Serves(reloc, chunk, lines, table) ==
    /\ reloc.offset = chunk.at
    /\ HasIndex(table, reloc.index)
    /\ SymbolAt(table, reloc.index).name = SymbolOperand(lines[chunk.line], chunk.group)

Matched(text, relocs, lines, table) ==
    /\ \A n \in DOMAIN text : Asks(text[n], lines, table) =>
          \E k \in DOMAIN relocs : Serves(relocs[k], text[n], lines, table)
    /\ \A k \in DOMAIN relocs : \E n \in DOMAIN text :
          Asks(text[n], lines, table) /\ Serves(relocs[k], text[n], lines, table)
    /\ \A k \in DOMAIN relocs : \A j \in 1 .. k - 1 : relocs[j].offset < relocs[k].offset

LEMMA MatchIsMatched ==
    RelocsMatchOperands <=>
        Matched(binary_buffer["text"], reloctable, program_lines, symtable)
BY DEF RelocsMatchOperands, Matched, Relocates, Asks, Patches, Serves

LEMMA InitMatches == Init => RelocsMatchOperands
<1>. SUFFICES ASSUME Init PROVE RelocsMatchOperands
  OBVIOUS
<1>1. binary_buffer["text"] = << >> /\ reloctable = << >>
  BY DEF Init, Sections
<1>. QED
  BY <1>1 DEF RelocsMatchOperands

\* Chunks that ask for nothing need no relocation.
LEMMA MatchedStays ==
    ASSUME NEW text, NEW more, NEW relocs, NEW lines, NEW after,
           NEW table \in Seq(Symbol(Names)),
           Matched(text, relocs, lines, table), Rescoped(table, after),
           \A n \in DOMAIN text : n \in DOMAIN more /\ more[n] = text[n],
           \A n \in DOMAIN more \ DOMAIN text : more[n].group = "datum"
    PROVE  Matched(more, relocs, lines, after)
<1>1. \A chunk : Asks(chunk, lines, after) <=> Asks(chunk, lines, table)
  BY RescopedAnswers DEF Asks
<1>2. \A reloc, chunk : Serves(reloc, chunk, lines, after) <=> Serves(reloc, chunk, lines, table)
  BY RescopedAnswers DEF Serves
<1>3. \A n \in DOMAIN more \ DOMAIN text : ~Asks(more[n], lines, table)
  BY DEF Asks, NamesSymbol, SymbolPosition
<1>. QED
  BY <1>1, <1>2, <1>3 DEF Matched

\* A chunk that asks for a relocation is given one, behind the others.
LEMMA MatchedGrows ==
    ASSUME NEW text \in Seq(Chunk), NEW chunk \in Chunk, NEW relocs \in Seq(Relocation),
           NEW lines, NEW table \in Seq(Symbol(Names)),
           Matched(text, relocs, lines, table),
           \A k \in DOMAIN relocs : relocs[k].offset < chunk.at
    PROVE  LET name == SymbolOperand(lines[chunk.line], chunk.group)
           IN  Matched(Append(text, chunk),
                       IF Asks(chunk, lines, table)
                       THEN AddRelocation(relocs, IndexOfName(table, name), chunk.at)
                       ELSE relocs,
                       lines, table)
<1>. DEFINE name == SymbolOperand(lines[chunk.line], chunk.group)
            more == Append(text, chunk)
            reloc == [index |-> IndexOfName(table, name), offset |-> chunk.at]
            patched == Append(relocs, reloc)
<1>1. /\ DOMAIN text = 1 .. Len(text) /\ Len(text) \in Nat
      /\ DOMAIN more = 1 .. Len(text) + 1
      /\ \A n \in DOMAIN text : n \in DOMAIN more /\ more[n] = text[n]
      /\ more[Len(text) + 1] = chunk /\ Len(text) + 1 \in DOMAIN more
      /\ \A n \in DOMAIN more : n \in DOMAIN text \/ n = Len(text) + 1
  OBVIOUS
<1>. HIDE DEF more
<1>2. CASE ~Asks(chunk, lines, table)
  <2>1. Matched(more, relocs, lines, table)
    BY <1>1, <1>2 DEF Matched
  <2>. QED
    BY <1>2, <2>1 DEF more
<1>3. CASE Asks(chunk, lines, table)
  <2>1. Serves(reloc, chunk, lines, table)
    <3>1. Defined(table, name)
      BY <1>3 DEF Asks
    <3>. HIDE DEF name
    <3>2. HasIndex(table, reloc.index) /\ SymbolAt(table, reloc.index).name = name
      BY <3>1, IndexOfNameFindsEntry
    <3>. QED
      BY <3>2 DEF Serves, name
  <2>. HIDE DEF reloc
  <2>2. reloc.offset = chunk.at
    BY DEF reloc
  <2>3. /\ DOMAIN relocs = 1 .. Len(relocs) /\ Len(relocs) \in Nat
        /\ DOMAIN patched = 1 .. Len(relocs) + 1
        /\ \A k \in DOMAIN relocs : k \in DOMAIN patched /\ patched[k] = relocs[k]
        /\ patched[Len(relocs) + 1] = reloc /\ Len(relocs) + 1 \in DOMAIN patched
        /\ \A k \in DOMAIN patched : k \in DOMAIN relocs \/ k = Len(relocs) + 1
    <3>1. relocs \in Seq(Relocation \cup {reloc})
      OBVIOUS
    <3>. QED
      BY <3>1
  <2>. HIDE DEF patched
  <2>4. ASSUME NEW n \in DOMAIN more, Asks(more[n], lines, table)
        PROVE  \E k \in DOMAIN patched : Serves(patched[k], more[n], lines, table)
    <3>1. CASE n \in DOMAIN text
      BY <1>1, <2>3, <2>4, <3>1 DEF Matched
    <3>2. CASE n = Len(text) + 1
      BY <1>1, <2>1, <2>3, <3>2
    <3>. QED
      BY <1>1, <3>1, <3>2
  <2>5. ASSUME NEW k \in DOMAIN patched
        PROVE  \E n \in DOMAIN more :
                  Asks(more[n], lines, table) /\ Serves(patched[k], more[n], lines, table)
    <3>1. CASE k \in DOMAIN relocs
      BY <1>1, <2>3, <3>1 DEF Matched
    <3>2. CASE k = Len(relocs) + 1
      BY <1>1, <1>3, <2>1, <2>3, <3>2
    <3>. QED
      BY <2>3, <3>1, <3>2
  <2>6. ASSUME NEW k \in DOMAIN patched, NEW j \in 1 .. k - 1
        PROVE  patched[j].offset < patched[k].offset
    <3>1. j \in DOMAIN relocs /\ patched[j] = relocs[j]
      BY <2>3
    <3>2. CASE k \in DOMAIN relocs
      BY <2>3, <3>1, <3>2 DEF Matched
    <3>3. CASE k = Len(relocs) + 1
      BY <2>2, <2>3, <3>1, <3>3
    <3>. QED
      BY <2>3, <3>2, <3>3
  <2>7. Matched(more, patched, lines, table)
    BY <2>4, <2>5, <2>6 DEF Matched
  <2>. QED
    BY <1>3, <2>7 DEF more, patched, reloc, AddRelocation
<1>. QED
  BY <1>2, <1>3

\* While the second pass emits, what it has emitted matches.
LEMMA SecondPassMatches ==
    ASSUME TypeOK, TypeOK', PassesAgree, ObjectSound, RelocsMatchOperands, SecondPass
    PROVE  RelocsMatchOperands'
<1>. DEFINE text == binary_buffer["text"]
<1>1. /\ symtable \in Seq(Symbol(Names)) /\ reloctable \in Seq(Relocation)
      /\ location_counter \in [Sections -> Nat] /\ i \in Nat
      /\ binary_buffer \in [Sections -> Seq(Chunk)] /\ text \in Seq(Chunk)
      /\ current_section \in Sections /\ "text" \in Sections
  BY DEF TypeOK, Counters, Sections
<1>2. Rescoped(symtable, symtable') /\ Matched(text, reloctable, program_lines, symtable)
  BY SecondPassRescopes, MatchIsMatched
<1>3. UNCHANGED program_lines
  BY DEF SecondPass, EnterSection, Export, EmitData, EncodeInstruction, PassOver,
         RejectSecond, WriteObject, NextLine
<1>a. Matched(text', reloctable', program_lines, symtable') => RelocsMatchOperands'
  BY <1>3 DEF RelocsMatchOperands, Matched, Relocates, Asks, Patches, Serves
<1>4. CASE UNCHANGED <<binary_buffer, reloctable>>
  BY <1>1, <1>2, <1>4, <1>a, MatchedStays
<1>5. CASE EmitData
  <2>. DEFINE chunk == [line |-> i, at |-> location_counter[current_section],
                        size |-> DirectiveSize(CurrentLine), group |-> "datum"]
  <2>1. /\ UNCHANGED reloctable
        /\ text' = text \/ text' = Append(text, chunk)
    BY <1>1, <1>5 DEF EmitData, Emit
  <2>2. chunk.group = "datum"
    OBVIOUS
  <2>. HIDE DEF chunk, text
  <2>3. \A n \in DOMAIN text : n \in DOMAIN text' /\ text'[n] = text[n]
    <3>1. text \in Seq(Chunk \cup {chunk})
      BY <1>1
    <3>. QED
      BY <2>1, <3>1
  <2>4. \A n \in DOMAIN text' \ DOMAIN text : text'[n] = chunk
    BY <1>1, <2>1, LastAppended
  <2>. QED
    BY <1>1, <1>2, <1>a, <2>1, <2>2, <2>3, <2>4, MatchedStays DEF text
<1>6. CASE EncodeInstruction
  <2>1. /\ phase = "second" /\ symtable' = symtable
        /\ CurrentLine.kind = "instruction" /\ CurrentLine.name # "end"
    BY <1>6 DEF EncodeInstruction, InPass, NextLine
  <2>2. current_section = "text"
    <3>1. i \in DOMAIN mark /\ mark[i].section = current_section
      BY <2>1 DEF PassesAgree, SecondPassOnMarks, Here
    <3>. QED
      BY <2>1, <3>1 DEF ObjectSound, CodeInText, CurrentLine
  <2>3. PICK group \in Decoded(CurrentLine.name) :
          /\ Emit(EncodedSize(CurrentLine), group)
          /\ reloctable' =
                IF /\ NamesSymbol(CurrentLine, group)
                   /\ Defined(symtable, SymbolOperand(CurrentLine, group))
                THEN AddRelocation(reloctable,
                       IndexOfName(symtable, SymbolOperand(CurrentLine, group)),
                       location_counter[current_section])
                ELSE reloctable
    BY <1>6 DEF EncodeInstruction
  <2>. DEFINE chunk == [line |-> i, at |-> location_counter["text"],
                        size |-> EncodedSize(CurrentLine), group |-> group]
  <2>4. text' = Append(text, chunk)
    BY <1>1, <2>2, <2>3 DEF Emit
  <2>5. chunk \in Chunk
    <3>1. EncodedSize(CurrentLine) \in Nat
      BY DEF EncodedSize, InstructionSize
    <3>2. group \in Groups \cup {"junk", "datum"}
      BY DEF Decoded
    <3>3. location_counter["text"] \in Nat
      BY <1>1
    <3>. QED
      BY <1>1, <3>1, <3>2, <3>3 DEF Chunk
  <2>6. \A k \in DOMAIN reloctable : reloctable[k].offset < chunk.at
    <3>. SUFFICES ASSUME NEW k \in DOMAIN reloctable PROVE reloctable[k].offset < chunk.at
      OBVIOUS
    <3>1. /\ RelocSound(reloctable[k], symtable, text, location_counter["text"])
          /\ reloctable[k] \in Relocation
      BY <2>1 DEF ObjectSound, RelocsSound, TypeOK
    <3>2. reloctable[k].offset \in Nat /\ location_counter["text"] \in Nat
      BY <1>1, <3>1 DEF Relocation
    <3>3. reloctable[k].offset + 4 <= location_counter["text"]
      BY <3>1 DEF RelocSound, InstructionSize
    <3>. QED
      BY <3>2, <3>3
  <2>7. /\ chunk.at = location_counter[current_section]
        /\ program_lines[chunk.line] = CurrentLine /\ chunk.group = group
    BY <2>2 DEF CurrentLine
  <2>. HIDE DEF chunk, text
  <2>8. reloctable' =
          IF Asks(chunk, program_lines, symtable)
          THEN AddRelocation(reloctable,
                 IndexOfName(symtable, SymbolOperand(program_lines[chunk.line], chunk.group)),
                 chunk.at)
          ELSE reloctable
    BY <2>3, <2>7 DEF Asks
  <2>9. Matched(text', reloctable', program_lines, symtable)
    BY <1>1, <1>2, <2>4, <2>5, <2>6, <2>8, MatchedGrows
  <2>. QED
    BY <1>a, <2>1, <2>9
<1>. QED
  BY <1>4, <1>5, <1>6 DEF SecondPass, EnterSection, Export, PassOver, RejectSecond,
                          WriteObject

LEMMA FirstPassMatches ==
    ASSUME PassesAgree, ObjectSound, FirstPass
    PROVE  RelocsMatchOperands'
<1>1. /\ phase = "first" /\ UNCHANGED <<binary_buffer, reloctable>>
  BY DEF FirstPass, SwitchSection, DeclareExtern, ReserveItem, PassOverDirective,
         SizeInstruction, PassOverBlank, CarryLabel, RejectFirst, EndFirstPass, InPass,
         FinishRound
<1>2. binary_buffer["text"] = << >> /\ reloctable = << >>
  BY <1>1 DEF PassesAgree, FirstPassAhead, ObjectSound, RelocsSound, Sections
<1>. QED
  BY <1>1, <1>2 DEF RelocsMatchOperands

\* The relocations that reach the object file are one for each instruction
\* whose operand is a defined symbol, in the order of the code, each with the
\* index of a symbol of that name (the relocations get_instruction records,
\* nas/as.c:67, of the table the first pass of nas.c left).
THEOREM RelocsMatchOperandsAlways == Spec => []RelocsMatchOperands
<1>1. TypeOK /\ PassesAgree /\ ObjectSound /\ RelocsMatchOperands /\ [Next]_vars
        => RelocsMatchOperands'
  <2>. SUFFICES ASSUME TypeOK, PassesAgree, ObjectSound, RelocsMatchOperands, [Next]_vars
                PROVE  RelocsMatchOperands'
    OBVIOUS
  <2>1. TypeOK'
    BY NextTyped DEF PassesAgree
  <2>2. CASE UNCHANGED vars
    BY <2>2 DEF vars, RelocsMatchOperands, Relocates, Patches
  <2>. QED
    BY <2>1, <2>2, FirstPassMatches, SecondPassMatches DEF Next, Exited
<1>. QED
  BY <1>1, InitMatches, TypeCorrect, PassesAgreeAlways, ObjectSoundAlways, PTL DEF Spec

-----------------------------------------------------------------------------
(* The lines of a program up to its first "end".                           *)

LEMMA EndLineFound ==
    ASSUME TypeOK, NEW e \in DOMAIN program_lines, program_lines[e].name = "end",
           \A j \in 1 .. e - 1 : program_lines[j].name # "end"
    PROVE  EndLine = e
<1>1. DOMAIN program_lines = 1 .. Len(program_lines)
  BY DEF TypeOK
<1>. DEFINE First(k) == /\ program_lines[k].name = "end"
                        /\ \A j \in 1 .. k - 1 : program_lines[j].name # "end"
<1>2. ASSUME NEW k \in DOMAIN program_lines, First(k) PROVE k = e
  <2>1. ~(k < e) /\ ~(e < k)
    BY <1>1, <1>2
  <2>. QED
    BY <1>1, <2>1
<1>3. First(e)
  OBVIOUS
<1>4. EndLine = CHOOSE k \in DOMAIN program_lines : First(k)
  BY DEF EndLine
<1>. HIDE DEF First
<1>. QED
  BY <1>2, <1>3, <1>4

\* The second pass ends where the first did: at the first "end".
LEMMA EndOfSecond ==
    ASSUME TypeOK, PassesAgree, phase \in {"second", "done"}
    PROVE  /\ EndLine = Len(mark) /\ Compiled = 1 .. Len(mark) - 1
           /\ EndLine \in DOMAIN program_lines
           /\ i \in 1 .. Len(mark) /\ Len(mark) \in Nat
           /\ phase = "done" => i = Len(mark)
<1>1. /\ DOMAIN mark = 1 .. Len(mark) /\ Len(mark) \in Nat /\ i \in DOMAIN mark
      /\ program_lines[Len(mark)].name = "end" /\ i \in Nat
      /\ DOMAIN program_lines = 1 .. Len(program_lines) /\ Len(program_lines) \in Nat
  BY DEF TypeOK, PassesAgree, SecondPassOnMarks
<1>2. \A k \in 1 .. Len(mark) - 1 : program_lines[k].name # "end"
  BY <1>1 DEF PassesAgree, MarksFollowLines
<1>3. Len(mark) \in DOMAIN program_lines
  <2>1. PICK k \in DOMAIN program_lines : i <= k /\ program_lines[k].name = "end"
    BY DEF PassesAgree, EndAhead
  <2>2. ~(k < Len(mark))
    BY <1>1, <1>2, <2>1
  <2>. QED
    BY <1>1, <2>1, <2>2
<1>4. EndLine = Len(mark)
  BY <1>1, <1>2, <1>3, EndLineFound
<1>5. phase = "done" => i = Len(mark)
  <2>1. phase = "done" => program_lines[i].name = "end"
    BY DEF PassesAgree, SecondPassOnMarks
  <2>. QED
    BY <1>1, <1>2, <2>1
<1>. QED
  BY <1>1, <1>3, <1>4, <1>5 DEF Compiled

LEMMA EndOfFirst ==
    ASSUME TypeOK, PassesAgree, phase = "first"
    PROVE  /\ EndLine \in DOMAIN program_lines /\ EndLine \in Nat /\ i <= EndLine
           /\ program_lines[EndLine].name = "end"
           /\ \A j \in 1 .. EndLine - 1 : program_lines[j].name # "end"
<1>1. /\ i \in Nat \ {0} /\ DOMAIN mark = 1 .. i - 1
      /\ DOMAIN program_lines = 1 .. Len(program_lines) /\ Len(program_lines) \in Nat
  BY DEF TypeOK, PassesAgree, FirstPassAhead
<1>2. \A k \in 1 .. i - 1 : program_lines[k].name # "end"
  BY <1>1 DEF PassesAgree, MarksFollowLines
<1>. DEFINE Ends == {k \in DOMAIN program_lines : program_lines[k].name = "end"}
<1>3. Ends # {}
  BY DEF PassesAgree, EndAhead
<1>4. PICK e \in Ends : \A j \in 0 .. e - 1 : j \notin Ends
  <2>1. Ends \in SUBSET Nat
    BY <1>1
  <2>. HIDE DEF Ends
  <2>. QED
    BY <1>3, <2>1, LeastNatural
<1>5. e \in DOMAIN program_lines /\ program_lines[e].name = "end" /\ e \in Nat
  BY <1>1
<1>6. \A j \in 1 .. e - 1 : program_lines[j].name # "end"
  <2>. SUFFICES ASSUME NEW j \in 1 .. e - 1, program_lines[j].name = "end" PROVE FALSE
    OBVIOUS
  <2>1. j \in DOMAIN program_lines /\ j \in 0 .. e - 1
    BY <1>1, <1>5
  <2>. QED
    BY <1>4, <2>1
<1>7. EndLine = e
  BY <1>5, <1>6, EndLineFound
<1>8. i <= e
  BY <1>1, <1>2, <1>5
<1>. QED
  BY <1>5, <1>6, <1>7, <1>8

-----------------------------------------------------------------------------
(* Global symbols.                                                         *)

\* IndexOfName leads to an entry when no entry before it has the name.
HeadOf(table, k) == \A j \in 1 .. k - 1 : table[j].name # table[k].name

LEMMA HeadHasIndex ==
    ASSUME NEW T, NEW t \in Seq(T), NEW k \in DOMAIN t
    PROVE  IndexOfName(t, t[k].name) = k - 1 <=> HeadOf(t, k)
<1>. DEFINE name == t[k].name
            First(index) == /\ SymbolAt(t, index).name = name
                            /\ \A j \in 0 .. index - 1 : SymbolAt(t, j).name # name
<1>1. IndexOfName(t, name) = CHOOSE index \in 0 .. Len(t) - 1 : First(index)
  BY DEF IndexOfName
<1>2. k \in 1 .. Len(t) /\ Len(t) \in Nat
  OBVIOUS
<1>3. First(k - 1) <=> HeadOf(t, k)
  <2>1. SymbolAt(t, k - 1) = t[k]
    BY <1>2 DEF SymbolAt
  <2>2. (\A j \in 0 .. (k - 1) - 1 : SymbolAt(t, j).name # name)
          <=> (\A j \in 1 .. k - 1 : t[j].name # name)
    <3>1. ASSUME \A j \in 0 .. (k - 1) - 1 : SymbolAt(t, j).name # name,
                 NEW j \in 1 .. k - 1
          PROVE  t[j].name # name
      <4>1. j - 1 \in 0 .. (k - 1) - 1 /\ (j - 1) + 1 = j
        BY <1>2
      <4>. QED
        BY <3>1, <4>1 DEF SymbolAt
    <3>2. ASSUME \A j \in 1 .. k - 1 : t[j].name # name,
                 NEW j \in 0 .. (k - 1) - 1
          PROVE  SymbolAt(t, j).name # name
      <4>1. j + 1 \in 1 .. k - 1
        BY <1>2
      <4>. QED
        BY <3>2, <4>1 DEF SymbolAt
    <3>. QED
      BY <3>1, <3>2
  <2>. QED
    BY <2>1, <2>2 DEF HeadOf
<1>4. ASSUME NEW m \in 0 .. Len(t) - 1, NEW n \in 0 .. Len(t) - 1, First(m), First(n)
      PROVE  m = n
  <2>1. ~(m < n) /\ ~(n < m)
    BY <1>4
  <2>. QED
    BY <2>1
<1>5. k - 1 \in 0 .. Len(t) - 1
  BY <1>2
<1>6. \E m \in 0 .. Len(t) - 1 : First(m)
  <2>. DEFINE Of == {n \in 0 .. Len(t) - 1 : SymbolAt(t, n).name = name}
  <2>1. k - 1 \in Of
    BY <1>2, <1>5 DEF SymbolAt
  <2>2. PICK m \in Of : \A j \in 0 .. m - 1 : j \notin Of
    <3>1. Of \in SUBSET Nat /\ Of # {}
      BY <1>2, <2>1
    <3>. HIDE DEF Of
    <3>. QED
      BY <3>1, LeastNatural
  <2>3. \A j \in 0 .. m - 1 : j \in 0 .. Len(t) - 1
    BY <1>2, <2>2
  <2>. QED
    BY <2>2, <2>3
<1>. HIDE DEF First, name
<1>7. IndexOfName(t, name) = k - 1 <=> First(k - 1)
  BY <1>1, <1>4, <1>5, <1>6
<1>. QED
  BY <1>3, <1>7 DEF name

Public(line) == line.kind = "directive" /\ line.name = "public"

DeclaredScope(symbol) == symbol.scope = "global" <=> symbol.type = "extern"

\* The scope of an entry in a pass that has executed the lines before n.
Exported(table, lines, n, k) ==
    /\ HeadOf(table, k)
    /\ \E m \in 1 .. n - 1 : Public(lines[m]) /\ table[k].name \in Arguments(lines[m])

ScopesFollow ==
    /\ phase = "first" => \A k \in DOMAIN symtable : DeclaredScope(symtable[k])
    /\ phase \in {"second", "done"} => \A k \in DOMAIN symtable :
          symtable[k].scope = "global" <=>
              symtable[k].type = "extern" \/ Exported(symtable, program_lines, i, k)

LEMMA RoundScopes ==
    ASSUME TypeOK, TypeOK', EndAhead, phase = "first", NEW table \in Seq(Symbol(Names)),
           \A k \in DOMAIN table : DeclaredScope(table[k]),
           NEW section, NEW counters, NEW itemSize,
           FinishRound(section, counters, itemSize, table)
    PROVE  ScopesFollow'
<1>. DEFINE symbol == LabelSymbol(CurrentLine.label, section, counters[section], itemSize)
<1>1. symtable' = table \/ symtable' = Append(table, symbol)
  BY DEF FinishRound, AddSymbol
<1>2. DeclaredScope(symbol)
  BY DEF DeclaredScope, LabelSymbol
<1>. HIDE DEF symbol
<1>3. \A k \in DOMAIN symtable' : DeclaredScope(symtable'[k])
  <2>1. CASE symtable' = table
    BY <2>1
  <2>2. CASE symtable' = Append(table, symbol)
    <3>1. table \in Seq(Symbol(Names) \cup {symbol})
      OBVIOUS
    <3>2. \A k \in DOMAIN symtable' : k \in DOMAIN table \/ k = Len(table) + 1
      BY <2>2, <3>1
    <3>3. /\ symtable'[Len(table) + 1] = symbol
          /\ \A k \in DOMAIN table : symtable'[k] = table[k]
      BY <2>2, <3>1
    <3>. QED
      BY <1>2, <3>2, <3>3
  <2>. QED
    BY <1>1, <2>1, <2>2
<1>4. phase' = "first"
  BY DEF FinishRound
<1>. QED
  BY <1>3, <1>4 DEF ScopesFollow

LEMMA FirstPassScopes ==
    ASSUME TypeOK, TypeOK', EndAhead, ScopesFollow, FirstPass
    PROVE  ScopesFollow'
<1>1. phase = "first" /\ symtable \in Seq(Symbol(Names))
  BY DEF TypeOK, FirstPass, SwitchSection, DeclareExtern, ReserveItem, PassOverDirective,
         SizeInstruction, PassOverBlank, CarryLabel, RejectFirst, EndFirstPass, InPass
<1>2. \A k \in DOMAIN symtable : DeclaredScope(symtable[k])
  BY <1>1 DEF ScopesFollow
<1>3. CASE \E section, counters, itemSize : FinishRound(section, counters, itemSize, symtable)
  BY <1>1, <1>2, <1>3, RoundScopes
<1>4. CASE DeclareExtern
  <2>. DEFINE args == CurrentLine.args
              externs == [k \in DOMAIN args |-> ExternSymbol(args[k].name)]
              table == symtable \o externs
  <2>1. FinishRound(current_section, location_counter, 0, table)
    BY <1>4 DEF DeclareExtern
  <2>2. args \in Seq(Operand) /\ \A k \in DOMAIN args : args[k].name \in Names
    BY CurrentLineTyped, ArgumentNamed DEF Line
  <2>3. \A k \in DOMAIN args :
           ExternSymbol(args[k].name) \in Symbol(Names) /\ DeclaredScope(ExternSymbol(args[k].name))
    BY <2>2 DEF ExternSymbol, DeclaredScope, Symbol, Sections, Scopes, Types
  <2>4. /\ externs \in Seq(Symbol(Names)) /\ DOMAIN externs = DOMAIN args
        /\ \A k \in DOMAIN externs : DeclaredScope(externs[k])
    BY <2>2, <2>3
  <2>. HIDE DEF externs
  <2>5. PICK u \in Seq(Symbol(Names)) :
          /\ u = symtable \o externs
          /\ Len(u) = Len(symtable) + Len(externs)
          /\ DOMAIN u = 1 .. Len(symtable) + Len(externs)
          /\ \A k \in 1 .. Len(symtable) : u[k] = symtable[k]
          /\ \A k \in Len(symtable) + 1 .. Len(symtable) + Len(externs) :
                u[k] = externs[k - Len(symtable)]
    BY <1>1, <2>4, Joined
  <2>6. ASSUME NEW k \in DOMAIN u PROVE DeclaredScope(u[k])
    <3>1. CASE k \in 1 .. Len(symtable)
      BY <1>1, <1>2, <2>5, <3>1
    <3>2. CASE k \in Len(symtable) + 1 .. Len(symtable) + Len(externs)
      <4>1. k - Len(symtable) \in DOMAIN externs
        BY <1>1, <2>4, <3>2
      <4>. QED
        BY <2>4, <2>5, <3>2, <4>1
    <3>. QED
      BY <1>1, <2>4, <2>5, <3>1, <3>2
  <2>7. table = u
    BY <2>5
  <2>. HIDE DEF table
  <2>. QED
    BY <1>1, <2>1, <2>5, <2>6, <2>7, RoundScopes
<1>5. CASE CarryLabel \/ RejectFirst
  BY <1>1, <1>2, <1>5 DEF CarryLabel, RejectFirst, ScopesFollow
<1>6. CASE EndFirstPass
  <2>1. symtable' = symtable /\ i' = 1 /\ phase' = "second"
    BY <1>6 DEF EndFirstPass
  <2>2. \A k : ~Exported(symtable', program_lines', i', k)
    BY <2>1 DEF Exported
  <2>. QED
    BY <1>2, <2>1, <2>2 DEF ScopesFollow, DeclaredScope
<1>. QED
  BY <1>3, <1>4, <1>5, <1>6 DEF FirstPass, SwitchSection, ReserveItem, PassOverDirective,
                                SizeInstruction, PassOverBlank

LEMMA ExportScopes ==
    ASSUME TypeOK, ScopesFollow, Export
    PROVE  ScopesFollow'
<1>. DEFINE named == Arguments(CurrentLine)
            exported == {IndexOfName(symtable, name) : name \in named}
<1>1. /\ phase = "second" /\ phase' = "second" /\ program_lines' = program_lines
      /\ i' = i + 1 /\ i \in Nat \ {0} /\ Public(CurrentLine)
      /\ symtable' = [k \in DOMAIN symtable |->
                        IF k - 1 \in exported
                        THEN [symtable[k] EXCEPT !.scope = "global"]
                        ELSE symtable[k]]
      /\ \A name \in named : Defined(symtable, name)
      /\ symtable \in Seq(Symbol(Names))
  BY DEF Export, InPass, NextLine, CanExport, TypeOK, Public
<1>. HIDE DEF named
<1>2. ASSUME NEW k \in DOMAIN symtable
      PROVE  k - 1 \in exported <=> HeadOf(symtable, k) /\ symtable[k].name \in named
  <2>1. ASSUME k - 1 \in exported PROVE HeadOf(symtable, k) /\ symtable[k].name \in named
    <3>1. PICK name \in named : k - 1 = IndexOfName(symtable, name)
      BY <2>1
    <3>2. SymbolAt(symtable, k - 1).name = name
      BY <1>1, <3>1, IndexOfNameFindsEntry
    <3>3. symtable[k].name = name
      <4>1. (k - 1) + 1 = k
        BY <1>1
      <4>. QED
        BY <3>2, <4>1 DEF SymbolAt
    <3>. QED
      BY <1>1, <3>1, <3>3, HeadHasIndex
  <2>2. ASSUME HeadOf(symtable, k), symtable[k].name \in named PROVE k - 1 \in exported
    <3>1. IndexOfName(symtable, symtable[k].name) = k - 1
      BY <1>1, <2>2, HeadHasIndex
    <3>. QED
      BY <2>2, <3>1
  <2>. QED
    BY <2>1, <2>2
<1>. HIDE DEF exported
<1>3. /\ DOMAIN symtable' = DOMAIN symtable
      /\ \A k \in DOMAIN symtable :
            /\ symtable'[k].name = symtable[k].name
            /\ symtable'[k].type = symtable[k].type
            /\ symtable'[k].scope = "global" <=>
                  symtable[k].scope = "global" \/ k - 1 \in exported
  <2>1. \A k \in DOMAIN symtable : symtable[k] \in Symbol(Names)
    BY <1>1, ElementTyped
  <2>. QED
    BY <1>1, <2>1 DEF Symbol
<1>4. ASSUME NEW k \in DOMAIN symtable
      PROVE  HeadOf(symtable', k) <=> HeadOf(symtable, k)
  <2>1. \A j \in 1 .. k - 1 : j \in DOMAIN symtable
    BY <1>1
  <2>. QED
    BY <1>3, <2>1 DEF HeadOf
<1>5. \A m \in 1 .. i' - 1 : m \in 1 .. i - 1 \/ m = i
  BY <1>1
<1>6. i \in 1 .. i' - 1 /\ \A m \in 1 .. i - 1 : m \in 1 .. i' - 1
  BY <1>1
<1>7. program_lines[i] = CurrentLine
  BY DEF CurrentLine
<1>8. ASSUME NEW k \in DOMAIN symtable
      PROVE  Exported(symtable', program_lines', i', k) <=>
                 Exported(symtable, program_lines, i, k) \/ k - 1 \in exported
  BY <1>1, <1>2, <1>3, <1>4, <1>5, <1>6, <1>7 DEF Exported, named
<1>. QED
  BY <1>1, <1>3, <1>8 DEF ScopesFollow

LEMMA SecondPassScopes ==
    ASSUME TypeOK, ScopesFollow, SecondPass
    PROVE  ScopesFollow'
<1>1. phase = "second" /\ i \in Nat \ {0}
  BY DEF TypeOK, SecondPass, EnterSection, Export, EmitData, EncodeInstruction, PassOver,
         RejectSecond, WriteObject, InPass
<1>2. CASE EnterSection \/ EmitData \/ EncodeInstruction \/ PassOver
  <2>1. /\ symtable' = symtable /\ program_lines' = program_lines /\ i' = i + 1
        /\ phase' = "second" /\ ~Public(CurrentLine)
    BY <1>1, <1>2 DEF EnterSection, EmitData, EncodeInstruction, PassOver, NextLine, InPass,
                      Public, SectionNames, Reserves, DirectiveSize, UnitSize,
                      SizelessDirectives
  <2>2. \A m \in 1 .. i' - 1 : m \in 1 .. i - 1 \/ m = i
    BY <1>1, <2>1
  <2>3. \A m \in 1 .. i - 1 : m \in 1 .. i' - 1
    BY <1>1, <2>1
  <2>4. \A k : Exported(symtable', program_lines', i', k) <=>
                   Exported(symtable, program_lines, i, k)
    BY <2>1, <2>2, <2>3 DEF Exported, CurrentLine
  <2>. QED
    BY <1>1, <2>1, <2>4 DEF ScopesFollow
<1>3. CASE RejectSecond \/ WriteObject
  BY <1>1, <1>3 DEF RejectSecond, WriteObject, ScopesFollow
<1>. QED
  BY <1>2, <1>3, ExportScopes DEF SecondPass

\* The global symbols of an object are the externs and the first entries of
\* the names that .public lines list (nas.c: the second pass walks over every
\* line, so a .public may stand before or after what it exports).
THEOREM GlobalsAreDeclaredAlways == Spec => []GlobalsAreDeclared
<1>1. Init => ScopesFollow
  <2>. SUFFICES ASSUME Init PROVE ScopesFollow
    OBVIOUS
  <2>1. symtable = <<SectionSymbol("text"), SectionSymbol("bss"), SectionSymbol("data")>>
        /\ phase = "first"
    BY DEF Init
  <2>2. /\ DeclaredScope(SectionSymbol("text"))
        /\ DeclaredScope(SectionSymbol("bss"))
        /\ DeclaredScope(SectionSymbol("data"))
    BY DEF DeclaredScope, SectionSymbol
  <2>. HIDE DEF DeclaredScope
  <2>3. /\ DOMAIN symtable = 1 .. 3 /\ symtable[1] = SectionSymbol("text")
        /\ symtable[2] = SectionSymbol("bss") /\ symtable[3] = SectionSymbol("data")
    BY <2>1
  <2>4. \A k \in DOMAIN symtable : k = 1 \/ k = 2 \/ k = 3
    BY <2>3
  <2>5. \A k \in DOMAIN symtable : DeclaredScope(symtable[k])
    BY <2>2, <2>3, <2>4
  <2>. QED
    BY <2>1, <2>5 DEF ScopesFollow
<1>2. TypeOK /\ EndAhead /\ ScopesFollow /\ [Next]_vars => ScopesFollow'
  <2>. SUFFICES ASSUME TypeOK, EndAhead, ScopesFollow, [Next]_vars PROVE ScopesFollow'
    OBVIOUS
  <2>1. CASE UNCHANGED vars
    BY <2>1 DEF vars, ScopesFollow
  <2>. QED
    BY <2>1, NextTyped, FirstPassScopes, SecondPassScopes DEF Next, Exited
<1>3. TypeOK /\ PassesAgree /\ ScopesFollow => GlobalsAreDeclared
  <2>. SUFFICES ASSUME TypeOK, PassesAgree, ScopesFollow, phase = "done",
                       NEW k \in DOMAIN symtable
                PROVE  symtable[k].scope = "global" <=>
                         \/ symtable[k].type = "extern"
                         \/ /\ symtable[k].name \in
                                 UNION {Arguments(program_lines[m]) :
                                          m \in {n \in Compiled : IsDirective(n, "public")}}
                            /\ IndexOfName(symtable, symtable[k].name) = k - 1
    BY DEF GlobalsAreDeclared
  <2>1. Compiled = 1 .. i - 1
    BY EndOfSecond
  <2>2. IndexOfName(symtable, symtable[k].name) = k - 1 <=> HeadOf(symtable, k)
    BY HeadHasIndex DEF TypeOK
  <2>3. \A n : IsDirective(n, "public") <=> Public(program_lines[n])
    BY DEF IsDirective, Public
  <2>. QED
    BY <2>1, <2>2, <2>3 DEF ScopesFollow, Exported
<1>. QED
  BY <1>1, <1>2, <1>3, TypeCorrect, PassesAgreeAlways, PTL DEF Spec

-----------------------------------------------------------------------------
(* The section a line of the text is in.                                   *)

Switch(line) == line.kind = "directive" /\ line.name \in SectionNames
SwitchesIn(lines, k) == {j \in 1 .. k - 1 : Switch(lines[j])}
LastOf(switches) == CHOOSE j \in switches : \A n \in switches : n <= j
SectionIn(lines, k) ==
    IF SwitchesIn(lines, k) = {} THEN "none" ELSE lines[LastOf(SwitchesIn(lines, k))].name

LEMMA SectionAtIsIn == \A k : SectionAt(k) = SectionIn(program_lines, k)
<1>. SUFFICES ASSUME NEW k PROVE SectionAt(k) = SectionIn(program_lines, k)
  OBVIOUS
<1>. DEFINE S == {j \in 1 .. k - 1 : \E s \in SectionNames : IsDirective(j, s)}
<1>1. S = SwitchesIn(program_lines, k)
  BY DEF IsDirective, SwitchesIn, Switch
<1>2. SectionAt(k) = IF S = {} THEN "none" ELSE program_lines[LastOf(S)].name
  BY DEF SectionAt, LastOf
<1>. HIDE DEF S
<1>. QED
  BY <1>1, <1>2 DEF SectionIn

LEMMA LastSwitch ==
    ASSUME NEW lines, NEW k \in Nat, SwitchesIn(lines, k) # {}
    PROVE  \E j \in SwitchesIn(lines, k) : \A n \in SwitchesIn(lines, k) : n <= j
<1>. DEFINE S == SwitchesIn(lines, k)
            Behind == {k - j : j \in S}
<1>1. S \subseteq 1 .. k - 1
  BY DEF SwitchesIn
<1>. HIDE DEF S
<1>2. Behind \in SUBSET Nat /\ Behind # {}
  BY <1>1 DEF S
<1>3. PICK m \in Behind : \A d \in 0 .. m - 1 : d \notin Behind
  <2>. HIDE DEF Behind
  <2>. QED
    BY <1>2, LeastNatural
<1>4. PICK j \in S : m = k - j
  BY <1>3
<1>5. ASSUME NEW n \in S PROVE n <= j
  <2>1. k - n \in Behind /\ k - n \in Nat
    BY <1>1
  <2>2. ~(k - n < m)
    <3>1. m \in Nat
      BY <1>2
    <3>. QED
      BY <1>3, <2>1, <3>1
  <2>. QED
    BY <1>1, <1>4, <2>1, <2>2
<1>. QED
  BY <1>4, <1>5 DEF S

\* A switch line decides what is behind it, any other line passes it on.
LEMMA SectionBehind ==
    ASSUME NEW lines, NEW k \in Nat \ {0}
    PROVE  /\ SectionIn(lines, 1) = "none"
           /\ SectionIn(lines, k + 1) = SectionAfter(lines[k], SectionIn(lines, k))
<1>1. SwitchesIn(lines, 1) = {}
  BY DEF SwitchesIn
<1>2. SwitchesIn(lines, k + 1) = SwitchesIn(lines, k) \cup
                                   (IF Switch(lines[k]) THEN {k} ELSE {})
  <2>1. \A j : j \in 1 .. (k + 1) - 1 <=> j \in 1 .. k - 1 \/ j = k
    OBVIOUS
  <2>. QED
    BY <2>1 DEF SwitchesIn
<1>3. CASE ~Switch(lines[k])
  <2>1. SwitchesIn(lines, k + 1) = SwitchesIn(lines, k)
    BY <1>2, <1>3
  <2>2. SectionIn(lines, k + 1) = SectionIn(lines, k)
    BY <2>1 DEF SectionIn
  <2>3. SectionIn(lines, 1) = "none"
    BY <1>1 DEF SectionIn
  <2>. QED
    BY <1>3, <2>2, <2>3 DEF SectionAfter, Switch
<1>4. CASE Switch(lines[k])
  <2>. DEFINE S == SwitchesIn(lines, k + 1)
  <2>1. k \in S /\ \A n \in S : n \in Nat /\ n <= k
    BY <1>2, <1>4 DEF SwitchesIn
  <2>2. SectionIn(lines, k + 1) = lines[LastOf(S)].name
    BY <2>1 DEF SectionIn
  <2>. HIDE DEF S
  <2>3. LastOf(S) = k
    <3>1. \A j \in S : (\A n \in S : n <= j) => j = k
      BY <2>1
    <3>. QED
      BY <2>1, <3>1 DEF LastOf
  <2>4. SectionIn(lines, 1) = "none"
    BY <1>1 DEF SectionIn
  <2>. QED
    BY <1>4, <2>2, <2>3, <2>4 DEF SectionAfter, Switch
<1>. QED
  BY <1>3, <1>4

LEMMA SectionByShape ==
    ASSUME NEW lines, NEW more, NEW k \in Nat,
           \A j \in 1 .. k - 1 : /\ more[j].kind = lines[j].kind
                                 /\ more[j].name = lines[j].name
    PROVE  SectionIn(more, k) = SectionIn(lines, k)
<1>1. SwitchesIn(more, k) = SwitchesIn(lines, k)
  BY DEF SwitchesIn, Switch
<1>2. CASE SwitchesIn(lines, k) = {}
  BY <1>1, <1>2 DEF SectionIn
<1>3. CASE SwitchesIn(lines, k) # {}
  <2>. DEFINE S == SwitchesIn(lines, k)
              last == LastOf(S)
  <2>1. last \in S
    BY <1>3, LastSwitch DEF LastOf
  <2>2. last \in 1 .. k - 1
    BY <2>1 DEF SwitchesIn
  <2>3. SectionIn(lines, k) = lines[last].name /\ SectionIn(more, k) = more[last].name
    BY <1>1, <1>3 DEF SectionIn
  <2>. HIDE DEF last
  <2>. QED
    BY <2>2, <2>3
<1>. QED
  BY <1>2, <1>3

-----------------------------------------------------------------------------
(* What a prefix of the lines introduces, and when a line clashes with it. *)

IsExtern(line) == line.kind = "directive" /\ line.name = "extern"

Introduces(line, name) ==
    \/ line.kind # "label" /\ line.label # NoName /\ name = line.label
    \/ IsExtern(line) /\ name \in Arguments(line)

Taken(lines, name, n) ==
    \/ name \in {"bss", "data"}
    \/ \E j \in 1 .. n - 1 : Introduces(lines[j], name)

SelfClash(line) ==
    /\ IsExtern(line)
    /\ \/ line.label # NoName /\ line.label \in Arguments(line)
       \/ \E k \in DOMAIN line.args : \E j \in 1 .. k - 1 :
             line.args[j].name = line.args[k].name

Clash(lines, k) ==
    \/ SelfClash(lines[k])
    \/ \E name : Introduces(lines[k], name) /\ Taken(lines, name, k)

\* What the first pass has checked of a line it has passed.
Accepted(lines, k) ==
    LET line == lines[k]
    IN  /\ line.kind = "directive" => ~BadDirective(line)
        /\ line.kind = "instruction" => SectionIn(lines, k) = "text"
        /\ IsExtern(line) => HasArguments(line)
        /\ line.kind = "label" => lines[k + 1].label = line.label
        /\ ~Clash(lines, k)

\* The table knows the names of the lines before n.
TableKnows(table, lines, n) ==
    /\ Len(table) >= 1 /\ table[1].name = "text"
    /\ \A name : Exists(table, name) <=> Taken(lines, name, n)

Exportable(table, line) ==
    HasArguments(line) /\ \A name \in Arguments(line) : Defined(table, name)

LinesAccepted ==
    /\ phase = "first" =>
          /\ \A k \in 1 .. i - 1 : Accepted(program_lines, k)
          /\ current_section = SectionIn(program_lines, i)
          /\ TableKnows(symtable, program_lines, i)
    /\ phase \in {"second", "done"} =>
          /\ \A k \in 1 .. Len(mark) - 1 : Accepted(program_lines, k)
          /\ TableKnows(symtable, program_lines, Len(mark))
          /\ \A k \in 1 .. i - 1 : Public(program_lines[k]) =>
                Exportable(symtable, program_lines[k])

Refused ==
    phase = "failed" =>
        \/ Faulty(i)
        \/ program_lines[i].kind = "label" /\ program_lines[i + 1].label # NoName

LEMMA TakenGrows ==
    ASSUME NEW lines, NEW name, NEW n \in Nat \ {0}
    PROVE  Taken(lines, name, n + 1) <=>
               Taken(lines, name, n) \/ Introduces(lines[n], name)
<1>1. \A j : j \in 1 .. (n + 1) - 1 <=> j \in 1 .. n - 1 \/ j = n
  OBVIOUS
<1>. QED
  BY <1>1 DEF Taken

\* The lines before n are all that acceptance up to n - 1 looks at.
LEMMA PrefixDecides ==
    ASSUME NEW lines, NEW more, NEW n \in Nat,
           \A j \in 1 .. n : more[j] = lines[j]
    PROVE  /\ \A name : Taken(more, name, n) <=> Taken(lines, name, n)
           /\ \A k \in 1 .. n - 1 : Accepted(more, k) <=> Accepted(lines, k)
           /\ SectionIn(more, n) = SectionIn(lines, n)
<1>1. ASSUME NEW k \in 1 .. n
      PROVE  /\ \A name : Taken(more, name, k) <=> Taken(lines, name, k)
             /\ SectionIn(more, k) = SectionIn(lines, k)
             /\ more[k] = lines[k]
  <2>1. k \in Nat /\ \A j \in 1 .. k - 1 : j \in 1 .. n
    OBVIOUS
  <2>2. \A j \in 1 .. k - 1 : more[j] = lines[j]
    BY <2>1
  <2>3. SectionIn(more, k) = SectionIn(lines, k)
    BY <2>1, <2>2, SectionByShape
  <2>. QED
    BY <2>2, <2>3 DEF Taken
<1>2. \A k \in 1 .. n - 1 : k \in 1 .. n /\ k + 1 \in 1 .. n
  OBVIOUS
<1>3. ASSUME NEW k \in 1 .. n - 1
      PROVE  Accepted(more, k) <=> Accepted(lines, k)
  BY <1>1, <1>2 DEF Accepted, Clash
<1>4. CASE n = 0
  <2>1. SwitchesIn(more, n) = {} /\ SwitchesIn(lines, n) = {}
    BY <1>4 DEF SwitchesIn
  <2>. QED
    BY <1>3, <1>4, <2>1 DEF Taken, SectionIn
<1>5. CASE n # 0
  BY <1>1, <1>3, <1>5
<1>. QED
  BY <1>4, <1>5

-----------------------------------------------------------------------------
(* First pass.                                                             *)

LEMMA ExistsAfterAddition ==
    ASSUME NEW table \in Seq(Symbol(Names)), Len(table) >= 1, NEW symbol
    PROVE  /\ Len(Append(table, symbol)) >= 1 /\ Append(table, symbol)[1] = table[1]
           /\ \A name : Exists(Append(table, symbol), name) <=>
                 Exists(table, name) \/ symbol.name = name
<1>. DEFINE more == Append(table, symbol)
<1>1. /\ Len(table) \in Nat /\ Len(more) = Len(table) + 1
      /\ \A k \in 1 .. Len(table) : more[k] = table[k]
      /\ more[Len(table) + 1] = symbol
  <2>1. table \in Seq(Symbol(Names) \cup {symbol})
    OBVIOUS
  <2>. QED
    BY <2>1
<1>. HIDE DEF more
<1>2. /\ \A k \in 2 .. Len(more) : k \in 2 .. Len(table) \/ k = Len(table) + 1
      /\ \A k \in 2 .. Len(table) : k \in 2 .. Len(more) /\ k \in 1 .. Len(table)
      /\ Len(table) + 1 \in 2 .. Len(more)
  BY <1>1
<1>3. \A name : Exists(more, name) <=> Exists(table, name) \/ symbol.name = name
  BY <1>1, <1>2 DEF Exists
<1>4. 1 \in 1 .. Len(table)
  BY <1>1
<1>. QED
  BY <1>1, <1>3, <1>4 DEF more

\* A round that the first pass goes through accepts its line.
LEMMA RoundAccepts ==
    ASSUME TypeOK, EndAhead, LinesAccepted, phase = "first",
           CurrentLine.kind # "label",
           CurrentLine.kind = "directive" => ~BadDirective(CurrentLine),
           CurrentLine.kind = "instruction" => current_section = "text",
           IsExtern(CurrentLine) => CanDeclare(CurrentLine),
           NEW table \in Seq(Symbol(Names)),
           Len(table) >= 1, table[1] = symtable[1],
           \A name : Exists(table, name) <=>
              \/ Exists(symtable, name)
              \/ IsExtern(CurrentLine) /\ name \in Arguments(CurrentLine),
           NEW counters, NEW itemSize,
           FinishRound(SectionAfter(CurrentLine, current_section), counters, itemSize, table)
    PROVE  LinesAccepted'
<1>. DEFINE section == SectionAfter(CurrentLine, current_section)
            label == CurrentLine.label
            symbol == LabelSymbol(label, section, counters[section], itemSize)
<1>1. /\ i \in Nat \ {0} /\ CurrentLine = program_lines[i] /\ CurrentLine \in Line
      /\ i' = i + 1 /\ program_lines' = program_lines /\ phase' = "first"
      /\ current_section' = section
  BY CurrentLineTyped DEF FinishRound, TypeOK, CurrentLine
<1>2. /\ \A k \in 1 .. i - 1 : Accepted(program_lines, k)
      /\ current_section = SectionIn(program_lines, i)
      /\ table[1].name = "text"
      /\ \A name : Exists(symtable, name) <=> Taken(program_lines, name, i)
  BY DEF LinesAccepted, TableKnows
<1>3. /\ label # NoName => ~Exists(table, label)
      /\ symtable' = IF label = NoName THEN table ELSE AddSymbol(table, symbol)
  BY DEF FinishRound
<1>4. symbol.name = label
  BY DEF LabelSymbol
<1>5. SectionIn(program_lines, i + 1) = section
  BY <1>1, <1>2, SectionBehind
<1>. HIDE DEF symbol, section
<1>6. /\ Len(symtable') >= 1 /\ symtable'[1].name = "text"
      /\ \A name : Exists(symtable', name) <=>
            Exists(table, name) \/ (label # NoName /\ name = label)
  <2>1. CASE label = NoName
    BY <1>2, <1>3, <2>1
  <2>2. CASE label # NoName
    <3>1. symtable' = Append(table, symbol)
      BY <1>3, <1>4, <2>2 DEF AddSymbol
    <3>2. /\ Len(symtable') >= 1 /\ symtable'[1] = table[1]
          /\ \A name : Exists(symtable', name) <=> Exists(table, name) \/ symbol.name = name
      BY <3>1, ExistsAfterAddition
    <3>. QED
      BY <1>2, <1>4, <2>2, <3>2
  <2>. QED
    BY <2>1, <2>2
<1>. HIDE DEF label
<1>7. ASSUME NEW name
      PROVE  Exists(symtable', name) <=> Taken(program_lines, name, i + 1)
  <2>1. Introduces(CurrentLine, name) <=>
          \/ label # NoName /\ name = label
          \/ IsExtern(CurrentLine) /\ name \in Arguments(CurrentLine)
    BY DEF Introduces, label
  <2>2. Taken(program_lines, name, i + 1) <=>
          Taken(program_lines, name, i) \/ Introduces(CurrentLine, name)
    BY <1>1, TakenGrows
  <2>. QED
    BY <1>2, <1>6, <2>1, <2>2
<1>8. ~SelfClash(CurrentLine)
  <2>1. ASSUME IsExtern(CurrentLine), label # NoName, label \in Arguments(CurrentLine)
        PROVE  FALSE
    BY <1>3, <2>1
  <2>2. ASSUME IsExtern(CurrentLine), NEW k \in DOMAIN CurrentLine.args, NEW j \in 1 .. k - 1,
               CurrentLine.args[j].name = CurrentLine.args[k].name
        PROVE  FALSE
    BY <2>2 DEF CanDeclare
  <2>. QED
    BY <2>1, <2>2 DEF SelfClash, label
<1>9. ASSUME NEW name, Introduces(CurrentLine, name), Taken(program_lines, name, i)
      PROVE  FALSE
  <2>1. Exists(symtable, name)
    BY <1>2, <1>9
  <2>2. CASE label # NoName /\ name = label
    BY <1>3, <2>1, <2>2
  <2>3. CASE IsExtern(CurrentLine) /\ name \in Arguments(CurrentLine)
    <3>1. PICK k \in DOMAIN CurrentLine.args : CurrentLine.args[k].name = name
      BY <2>3 DEF Arguments
    <3>. QED
      BY <2>1, <2>3, <3>1 DEF CanDeclare
  <2>. QED
    BY <1>9, <2>2, <2>3 DEF Introduces, label
<1>10. ~Clash(program_lines, i)
  BY <1>1, <1>8, <1>9 DEF Clash
<1>11. Accepted(program_lines, i)
  <2>1. IsExtern(CurrentLine) => HasArguments(CurrentLine)
    BY DEF CanDeclare
  <2>. QED
    BY <1>1, <1>2, <1>10, <2>1 DEF Accepted
<1>12. \A k \in 1 .. (i + 1) - 1 : k \in 1 .. i - 1 \/ k = i
  BY <1>1
<1>13. \A k \in 1 .. i' - 1 : Accepted(program_lines', k)
  BY <1>1, <1>2, <1>11, <1>12
<1>14. TableKnows(symtable', program_lines', i')
  BY <1>1, <1>6, <1>7 DEF TableKnows
<1>. QED
  BY <1>1, <1>5, <1>13, <1>14 DEF LinesAccepted

LEMMA DeclarationKnown ==
    ASSUME TypeOK, EndAhead, Len(symtable) >= 1, DeclareExtern
    PROVE  LET args == CurrentLine.args
               table == symtable \o [k \in DOMAIN args |-> ExternSymbol(args[k].name)]
           IN  /\ table \in Seq(Symbol(Names))
               /\ Len(table) >= 1 /\ table[1] = symtable[1]
               /\ \A name : Exists(table, name) <=>
                     Exists(symtable, name) \/ name \in Arguments(CurrentLine)
<1>. DEFINE args == CurrentLine.args
            externs == [k \in DOMAIN args |-> ExternSymbol(args[k].name)]
            table == symtable \o externs
<1>1. symtable \in Seq(Symbol(Names)) /\ Len(symtable) \in Nat
  BY DEF TypeOK
<1>2. args \in Seq(Operand) /\ \A k \in DOMAIN args : args[k].name \in Names
  BY CurrentLineTyped, ArgumentNamed DEF Line
<1>3. \A k \in DOMAIN args : /\ ExternSymbol(args[k].name) \in Symbol(Names)
                             /\ ExternSymbol(args[k].name).name = args[k].name
  BY <1>2 DEF ExternSymbol, Symbol, Sections, Scopes, Types
<1>4. /\ externs \in Seq(Symbol(Names)) /\ DOMAIN externs = DOMAIN args
      /\ DOMAIN args = 1 .. Len(externs) /\ Len(externs) \in Nat
      /\ \A k \in DOMAIN externs : externs[k].name = args[k].name
  BY <1>2, <1>3
<1>. HIDE DEF externs
<1>5. PICK u \in Seq(Symbol(Names)) :
        /\ u = symtable \o externs
        /\ Len(u) = Len(symtable) + Len(externs)
        /\ DOMAIN u = 1 .. Len(symtable) + Len(externs)
        /\ \A k \in 1 .. Len(symtable) : u[k] = symtable[k]
        /\ \A k \in Len(symtable) + 1 .. Len(symtable) + Len(externs) :
              u[k] = externs[k - Len(symtable)]
  BY <1>1, <1>4, Joined
<1>6. ASSUME NEW name
      PROVE  Exists(u, name) <=> Exists(symtable, name) \/ name \in Arguments(CurrentLine)
  <2>1. ASSUME NEW k \in 2 .. Len(u), u[k].name = name
        PROVE  Exists(symtable, name) \/ name \in Arguments(CurrentLine)
    <3>1. CASE k <= Len(symtable)
      <4>1. k \in 2 .. Len(symtable) /\ k \in 1 .. Len(symtable)
        BY <1>1, <3>1
      <4>. QED
        BY <1>5, <2>1, <4>1 DEF Exists
    <3>2. CASE k > Len(symtable)
      <4>1. /\ k \in Len(symtable) + 1 .. Len(symtable) + Len(externs)
            /\ k - Len(symtable) \in DOMAIN args
        BY <1>1, <1>4, <1>5, <3>2
      <4>2. args[k - Len(symtable)].name = name
        BY <1>4, <1>5, <2>1, <4>1
      <4>. QED
        BY <4>1, <4>2 DEF Arguments
    <3>. QED
      BY <1>1, <3>1, <3>2
  <2>2. ASSUME NEW k \in 2 .. Len(symtable), symtable[k].name = name
        PROVE  Exists(u, name)
    <3>1. k \in 2 .. Len(u) /\ k \in 1 .. Len(symtable)
      BY <1>1, <1>4, <1>5
    <3>. QED
      BY <1>5, <2>2, <3>1 DEF Exists
  <2>3. ASSUME NEW k \in DOMAIN args, args[k].name = name
        PROVE  Exists(u, name)
    <3>1. /\ Len(symtable) + k \in 2 .. Len(u)
          /\ Len(symtable) + k \in Len(symtable) + 1 .. Len(symtable) + Len(externs)
          /\ (Len(symtable) + k) - Len(symtable) = k
      BY <1>1, <1>4, <1>5
    <3>2. u[Len(symtable) + k].name = name
      BY <1>4, <1>5, <2>3, <3>1
    <3>. QED
      BY <3>1, <3>2 DEF Exists
  <2>. QED
    BY <2>1, <2>2, <2>3 DEF Exists, Arguments
<1>7. Len(u) >= 1 /\ u[1] = symtable[1]
  <2>1. 1 \in 1 .. Len(symtable)
    BY <1>1
  <2>2. Len(u) >= 1
    BY <1>1, <1>4, <1>5
  <2>. QED
    BY <1>5, <2>1, <2>2
<1>8. table = u
  BY <1>5
<1>. HIDE DEF table
<1>9. table \in Seq(Symbol(Names)) /\ Len(table) >= 1 /\ table[1] = symtable[1]
      /\ \A name : Exists(table, name) <=>
            Exists(symtable, name) \/ name \in Arguments(CurrentLine)
  BY <1>5, <1>6, <1>7, <1>8
<1>. QED
  BY <1>9 DEF table, externs

LEMMA CarryAccepts ==
    ASSUME TypeOK, PassesAgree, LinesAccepted, CarryLabel
    PROVE  LinesAccepted'
<1>1. /\ phase = "first" /\ phase' = "first" /\ i' = i + 1 /\ i \in Nat \ {0}
      /\ CurrentLine.kind = "label" /\ CurrentLine = program_lines[i]
      /\ CurrentLine.name # "end"
      /\ program_lines' = [program_lines EXCEPT ![i + 1].label = CurrentLine.label]
      /\ UNCHANGED <<current_section, symtable>>
      /\ program_lines \in Seq(Line) /\ DOMAIN program_lines = 1 .. Len(program_lines)
  BY DEF CarryLabel, InPass, TypeOK, CurrentLine
<1>2. i + 1 \in DOMAIN program_lines /\ i \in DOMAIN program_lines
  <2>1. EndLine \in DOMAIN program_lines /\ i <= EndLine /\ i # EndLine
    BY <1>1, EndOfFirst
  <2>. QED
    BY <1>1, <2>1
<1>3. \A j \in 1 .. i : program_lines'[j] = program_lines[j]
  BY <1>1
<1>4. program_lines'[i + 1].label = CurrentLine.label
  <2>1. program_lines[i + 1] \in Line
    BY <1>1, <1>2
  <2>2. program_lines'[i + 1] = [program_lines[i + 1] EXCEPT !.label = CurrentLine.label]
    BY <1>1, <1>2
  <2>. QED
    BY <2>1, <2>2 DEF Line
<1>5. /\ \A name : Taken(program_lines', name, i) <=> Taken(program_lines, name, i)
      /\ \A k \in 1 .. i - 1 : Accepted(program_lines', k)
      /\ SectionIn(program_lines', i) = current_section
  <2>. DEFINE more == program_lines'
  <2>1. i \in Nat /\ \A j \in 1 .. i : more[j] = program_lines[j]
    BY <1>1, <1>3
  <2>. HIDE DEF more
  <2>2. /\ \A name : Taken(more, name, i) <=> Taken(program_lines, name, i)
        /\ \A k \in 1 .. i - 1 : Accepted(more, k) <=> Accepted(program_lines, k)
        /\ SectionIn(more, i) = SectionIn(program_lines, i)
    BY <2>1, PrefixDecides
  <2>3. /\ \A k \in 1 .. i - 1 : Accepted(program_lines, k)
        /\ SectionIn(program_lines, i) = current_section
    BY <1>1 DEF LinesAccepted
  <2>4. /\ \A k \in 1 .. i - 1 : Accepted(more, k)
        /\ SectionIn(more, i) = current_section
    BY <2>2, <2>3
  <2>. QED
    BY <2>2, <2>4 DEF more
<1>6. program_lines'[i] = CurrentLine
  BY <1>1, <1>3
<1>7. ~IsExtern(CurrentLine) /\ \A name : ~Introduces(CurrentLine, name)
  BY <1>1 DEF IsExtern, Introduces
<1>8. Accepted(program_lines', i)
  BY <1>1, <1>4, <1>6, <1>7 DEF Accepted, Clash, SelfClash
<1>9. SectionIn(program_lines', i + 1) = current_section
  <2>1. SectionAfter(CurrentLine, current_section) = current_section
    BY <1>1 DEF SectionAfter
  <2>. DEFINE more == program_lines'
  <2>2. more[i] = CurrentLine /\ SectionIn(more, i) = current_section /\ i \in Nat \ {0}
    BY <1>1, <1>5, <1>6
  <2>. HIDE DEF more
  <2>3. SectionIn(more, i + 1) = SectionAfter(more[i], SectionIn(more, i))
    BY <2>2, SectionBehind
  <2>4. SectionIn(more, i + 1) = current_section
    BY <2>1, <2>2, <2>3
  <2>. QED
    BY <2>4 DEF more
<1>10. ASSUME NEW name
       PROVE  Exists(symtable', name) <=> Taken(program_lines', name, i + 1)
  <2>1. Taken(program_lines', name, i + 1) <=> Taken(program_lines', name, i)
    BY <1>1, <1>6, <1>7, TakenGrows
  <2>. QED
    BY <1>1, <1>5, <2>1 DEF LinesAccepted, TableKnows
<1>11. TableKnows(symtable', program_lines', i')
  BY <1>1, <1>10 DEF LinesAccepted, TableKnows
<1>12. \A k \in 1 .. i' - 1 : k \in 1 .. i - 1 \/ k = i
  BY <1>1
<1>13. \A k \in 1 .. i' - 1 : Accepted(program_lines', k)
  BY <1>5, <1>8, <1>12
<1>. QED
  BY <1>1, <1>9, <1>11, <1>13 DEF LinesAccepted

LEMMA FirstPassAccepts ==
    ASSUME TypeOK, PassesAgree, LinesAccepted, FirstPass
    PROVE  LinesAccepted'
<1>1. /\ phase = "first" /\ EndAhead /\ symtable \in Seq(Symbol(Names))
      /\ i \in Nat \ {0}
  BY DEF TypeOK, PassesAgree, FirstPass, SwitchSection, DeclareExtern, ReserveItem,
         PassOverDirective, SizeInstruction, PassOverBlank, CarryLabel, RejectFirst,
         EndFirstPass, InPass
<1>2. Len(symtable) >= 1
  BY <1>1 DEF LinesAccepted, TableKnows
<1>a. CurrentLine \in Line /\ CurrentLine.kind \in Kinds
  BY <1>1, CurrentLineTyped DEF Line
<1>3. CASE DeclareExtern
  <2>. DEFINE args == CurrentLine.args
              table == symtable \o [k \in DOMAIN args |-> ExternSymbol(args[k].name)]
  <2>1. /\ CurrentLine.kind = "directive" /\ CurrentLine.name = "extern"
        /\ CanDeclare(CurrentLine)
        /\ FinishRound(current_section, location_counter, 0, table)
    BY <1>3 DEF DeclareExtern, InPass
  <2>2. IsExtern(CurrentLine) /\ ~BadDirective(CurrentLine)
        /\ SectionAfter(CurrentLine, current_section) = current_section
    BY <2>1 DEF IsExtern, BadDirective, DirectiveSize, UnitSize, SizelessDirectives,
                SectionNames, SectionAfter
  <2>3. /\ table \in Seq(Symbol(Names))
        /\ Len(table) >= 1 /\ table[1] = symtable[1]
        /\ \A name : Exists(table, name) <=>
              Exists(symtable, name) \/ name \in Arguments(CurrentLine)
    BY <1>1, <1>2, <1>3, DeclarationKnown
  <2>. HIDE DEF table
  <2>. QED
    BY <1>1, <2>1, <2>2, <2>3, RoundAccepts
<1>4. ASSUME NEW counters, NEW itemSize,
             FinishRound(SectionAfter(CurrentLine, current_section), counters, itemSize,
                         symtable),
             CurrentLine.kind # "label", ~IsExtern(CurrentLine),
             CurrentLine.kind = "directive" => ~BadDirective(CurrentLine),
             CurrentLine.kind = "instruction" => current_section = "text"
      PROVE  LinesAccepted'
  BY <1>1, <1>2, <1>4, RoundAccepts
<1>5. CASE SwitchSection
  <2>1. /\ CurrentLine.kind = "directive" /\ CurrentLine.name \in SectionNames
        /\ FinishRound(CurrentLine.name, location_counter, 0, symtable)
    BY <1>5 DEF SwitchSection, InPass
  <2>2. /\ SectionAfter(CurrentLine, current_section) = CurrentLine.name
        /\ ~IsExtern(CurrentLine) /\ ~BadDirective(CurrentLine)
    BY <2>1 DEF SectionAfter, IsExtern, BadDirective, DirectiveSize, UnitSize,
                SizelessDirectives, SectionNames
  <2>. QED
    BY <1>4, <2>1, <2>2
<1>6. CASE ReserveItem \/ PassOverDirective
  <2>1. /\ CurrentLine.kind = "directive" /\ ~BadDirective(CurrentLine)
        /\ CurrentLine.name \notin SectionNames \cup {"extern"}
        /\ \E counters, itemSize : FinishRound(current_section, counters, itemSize, symtable)
    BY <1>6 DEF ReserveItem, PassOverDirective, InPass, Reserves, BadDirective,
                DirectiveSize, UnitSize, SizelessDirectives, SectionNames
  <2>2. SectionAfter(CurrentLine, current_section) = current_section /\ ~IsExtern(CurrentLine)
    BY <2>1 DEF SectionAfter, IsExtern
  <2>. QED
    BY <1>4, <2>1, <2>2
<1>7. CASE SizeInstruction \/ PassOverBlank
  <2>1. /\ CurrentLine.kind \in {"instruction", "undefined"}
        /\ CurrentLine.kind = "instruction" => current_section = "text"
        /\ \E counters, itemSize : FinishRound(current_section, counters, itemSize, symtable)
    BY <1>7 DEF SizeInstruction, PassOverBlank, InPass
  <2>2. SectionAfter(CurrentLine, current_section) = current_section /\ ~IsExtern(CurrentLine)
    BY <2>1 DEF SectionAfter, IsExtern
  <2>. QED
    BY <1>4, <2>1, <2>2
<1>8. CASE CarryLabel
  BY <1>8, CarryAccepts
<1>9. CASE RejectFirst
  BY <1>9 DEF RejectFirst, LinesAccepted
<1>10. CASE EndFirstPass
  <2>1. /\ phase' = "second" /\ i' = 1 /\ UNCHANGED <<program_lines, symtable>>
        /\ mark' = Append(mark, Here)
    BY <1>10 DEF EndFirstPass
  <2>2. Len(mark') = i
    <3>1. mark \in Seq([section: Sections, counters: Counters]) /\ Len(mark) = i - 1
      BY <1>1 DEF TypeOK, PassesAgree, FirstPassAhead
    <3>. QED
      BY <1>1, <2>1, <3>1, AppendedMark
  <2>3. \A k \in 1 .. i' - 1 : FALSE
    BY <2>1
  <2>. QED
    BY <1>1, <2>1, <2>2, <2>3 DEF LinesAccepted
<1>. QED
  BY <1>3, <1>5, <1>6, <1>7, <1>8, <1>9, <1>10 DEF FirstPass

-----------------------------------------------------------------------------
(* Second pass.                                                            *)

LEMMA RescopedKnows ==
    ASSUME NEW table \in Seq(Symbol(Names)), NEW after, Len(after) = Len(table),
           Rescoped(table, after), NEW lines, NEW n, TableKnows(table, lines, n)
    PROVE  TableKnows(after, lines, n)
<1>1. /\ DOMAIN table = 1 .. Len(table) /\ Len(table) \in Nat
      /\ \A k \in 2 .. Len(table) : k \in DOMAIN table
      /\ 1 \in DOMAIN table
  BY DEF TableKnows
<1>2. \A k \in DOMAIN table : after[k].name = table[k].name
  BY RescopedEntry
<1>. QED
  BY <1>1, <1>2 DEF TableKnows, Exists

LEMMA SecondPassAccepts ==
    ASSUME TypeOK, TypeOK', LinesAccepted, SecondPass
    PROVE  LinesAccepted'
<1>1. /\ phase = "second" /\ i \in Nat \ {0} /\ symtable \in Seq(Symbol(Names))
      /\ symtable' \in Seq(Symbol(Names))
      /\ UNCHANGED <<program_lines, mark>>
  BY DEF TypeOK, SecondPass, EnterSection, Export, EmitData, EncodeInstruction, PassOver,
         RejectSecond, WriteObject, InPass, NextLine
<1>2. Rescoped(symtable, symtable')
  BY SecondPassRescopes
<1>3. Len(symtable') = Len(symtable)
  BY <1>1, <1>2 DEF Rescoped
<1>4. /\ \A k \in 1 .. Len(mark') - 1 : Accepted(program_lines', k)
      /\ TableKnows(symtable', program_lines', Len(mark'))
  BY <1>1, <1>2, <1>3, RescopedKnows DEF LinesAccepted
<1>5. \A line : Exportable(symtable, line) <=> Exportable(symtable', line)
  BY <1>1, <1>2, RescopedAnswers DEF Exportable
<1>6. \A k \in 1 .. i - 1 : Public(program_lines[k]) => Exportable(symtable', program_lines[k])
  BY <1>1, <1>5 DEF LinesAccepted
<1>7. CASE phase' # "second"
  <2>1. i' = i /\ phase' # "first"
    BY <1>1, <1>7 DEF SecondPass, EnterSection, Export, EmitData, EncodeInstruction,
                      PassOver, RejectSecond, WriteObject, NextLine
  <2>. QED
    BY <1>1, <1>4, <1>6, <2>1 DEF LinesAccepted
<1>8. CASE phase' = "second"
  <2>1. i' = i + 1
    BY <1>8 DEF SecondPass, EnterSection, Export, EmitData, EncodeInstruction,
                PassOver, RejectSecond, WriteObject, NextLine
  <2>2. Public(CurrentLine) => Exportable(symtable, CurrentLine)
    <3>1. CASE Export
      BY <3>1 DEF Export, CanExport, Exportable
    <3>2. CASE EnterSection \/ EmitData \/ EncodeInstruction \/ PassOver
      BY <1>1, <3>2 DEF EnterSection, EmitData, EncodeInstruction, PassOver, InPass,
                        Public, SectionNames, Reserves, DirectiveSize, UnitSize,
                        SizelessDirectives
    <3>. QED
      BY <1>8, <3>1, <3>2 DEF SecondPass, RejectSecond, WriteObject
  <2>3. Public(program_lines[i]) => Exportable(symtable', program_lines[i])
    BY <1>5, <2>2 DEF CurrentLine
  <2>4. \A k \in 1 .. i' - 1 : k \in 1 .. i - 1 \/ k = i
    BY <1>1, <2>1
  <2>5. \A k \in 1 .. i' - 1 :
           Public(program_lines'[k]) => Exportable(symtable', program_lines'[k])
    BY <1>1, <1>6, <2>3, <2>4
  <2>. QED
    BY <1>4, <1>8, <2>5 DEF LinesAccepted
<1>. QED
  BY <1>7, <1>8

-----------------------------------------------------------------------------
(* A clash is a redefinition.                                              *)

LEMMA IntroductionsAre ==
    ASSUME NEW x
    PROVE  x \in Introductions <=>
             \/ \E k \in Compiled : /\ program_lines[k].kind # "label"
                                    /\ program_lines[k].label # NoName
                                    /\ x = <<k, 0>>
             \/ \E k \in Compiled : \E slot \in DOMAIN program_lines[k].args :
                   IsDirective(k, "extern") /\ x = <<k, slot>>
BY DEF Introductions

LEMMA IntroducedName ==
    ASSUME TypeOK, NEW k \in Compiled, k \in DOMAIN program_lines
    PROVE  /\ Introduced(k, 0) = program_lines[k].label
           /\ \A slot \in DOMAIN program_lines[k].args :
                 slot # 0 /\ Introduced(k, slot) = program_lines[k].args[slot].name
           /\ DOMAIN program_lines[k].args = 1 .. Len(program_lines[k].args)
           /\ Len(program_lines[k].args) \in Nat
<1>1. program_lines[k] \in Line
  BY ElementTyped DEF TypeOK
<1>2. program_lines[k].args \in Seq(Operand)
  BY <1>1 DEF Line
<1>. QED
  BY <1>2 DEF Introduced

\* The slots of a line are what it introduces.
LEMMA SlotsIntroduce ==
    ASSUME TypeOK, NEW k \in Compiled, k \in DOMAIN program_lines
    PROVE  \A name : Introduces(program_lines[k], name) <=>
              \E x \in Introductions : x[1] = k /\ Introduced(x[1], x[2]) = name
<1>. SUFFICES ASSUME NEW name
              PROVE  Introduces(program_lines[k], name) <=>
                       \E x \in Introductions : x[1] = k /\ Introduced(x[1], x[2]) = name
  OBVIOUS
<1>1. ASSUME Introduces(program_lines[k], name)
      PROVE  \E x \in Introductions : x[1] = k /\ Introduced(x[1], x[2]) = name
  <2>1. CASE /\ program_lines[k].kind # "label" /\ program_lines[k].label # NoName
             /\ name = program_lines[k].label
    <3>1. <<k, 0>> \in Introductions /\ Introduced(k, 0) = name
      BY <2>1, IntroductionsAre, IntroducedName
    <3>. QED
      BY <3>1
  <2>2. CASE IsExtern(program_lines[k]) /\ name \in Arguments(program_lines[k])
    <3>1. PICK slot \in DOMAIN program_lines[k].args : program_lines[k].args[slot].name = name
      BY <2>2 DEF Arguments
    <3>2. <<k, slot>> \in Introductions
      BY <2>2, IntroductionsAre DEF IsExtern, IsDirective
    <3>3. Introduced(k, slot) = name
      BY <3>1, IntroducedName
    <3>. QED
      BY <3>2, <3>3
  <2>. QED
    BY <1>1, <2>1, <2>2 DEF Introduces
<1>2. ASSUME NEW x \in Introductions, x[1] = k, Introduced(x[1], x[2]) = name
      PROVE  Introduces(program_lines[k], name)
  <2>1. CASE \E n \in Compiled : /\ program_lines[n].kind # "label"
                                 /\ program_lines[n].label # NoName
                                 /\ x = <<n, 0>>
    BY <1>2, <2>1, IntroducedName DEF Introduces
  <2>2. CASE \E n \in Compiled : \E slot \in DOMAIN program_lines[n].args :
                IsDirective(n, "extern") /\ x = <<n, slot>>
    <3>1. PICK n \in Compiled : \E slot \in DOMAIN program_lines[n].args :
                IsDirective(n, "extern") /\ x = <<n, slot>>
      BY <2>2
    <3>2. n = k
      BY <1>2, <3>1
    <3>3. PICK slot \in DOMAIN program_lines[k].args : x = <<k, slot>>
      BY <3>1, <3>2
    <3>4. program_lines[k].args[slot].name = name
      BY <1>2, <3>3, IntroducedName
    <3>. QED
      BY <3>1, <3>2, <3>4 DEF Introduces, IsExtern, IsDirective, Arguments
  <2>. QED
    BY <2>1, <2>2, IntroductionsAre
<1>. QED
  BY <1>1, <1>2

LEMMA ClashRedefines ==
    ASSUME TypeOK, NEW k \in Compiled, EndLine \in DOMAIN program_lines,
           Clash(program_lines, k)
    PROVE  Redefines(k)
<1>1. /\ k \in Nat /\ EndLine \in Nat /\ k < EndLine
      /\ \A j \in 1 .. k : j \in Compiled /\ j \in DOMAIN program_lines /\ j <= k
      /\ k \in 1 .. k
  BY DEF Compiled, TypeOK
<1>. DEFINE line == program_lines[k]
            Name(x) == Introduced(x[1], x[2])
<1>2. ASSUME NEW x \in Introductions, NEW y \in Introductions, x # y,
             x[1] = k, y[1] <= k, Name(x) = Name(y)
      PROVE  Redefines(k)
  BY <1>2 DEF Redefines
<1>3. CASE SelfClash(line)
  <2>1. IsDirective(k, "extern") /\ line.kind # "label"
    BY <1>3 DEF SelfClash, IsExtern, IsDirective
  <2>2. \A slot \in DOMAIN line.args :
           /\ <<k, slot>> \in Introductions
           /\ slot # 0 /\ Introduced(k, slot) = line.args[slot].name
    BY <1>1, <2>1, IntroductionsAre, IntroducedName
  <2>3. CASE line.label # NoName /\ line.label \in Arguments(line)
    <3>1. PICK slot \in DOMAIN line.args : line.args[slot].name = line.label
      BY <2>3 DEF Arguments
    <3>. DEFINE x == <<k, 0>>
                y == <<k, slot>>
    <3>2. x \in Introductions /\ Introduced(k, 0) = line.label
      BY <1>1, <2>1, <2>3, IntroductionsAre, IntroducedName
    <3>3. y \in Introductions /\ x # y /\ Introduced(k, slot) = line.label
      BY <2>2, <3>1
    <3>4. x[1] = k /\ y[1] <= k /\ Name(x) = Name(y)
      BY <1>1, <3>2, <3>3
    <3>. QED
      BY <1>2, <3>2, <3>3, <3>4
  <2>4. CASE \E m \in DOMAIN line.args : \E j \in 1 .. m - 1 :
                line.args[j].name = line.args[m].name
    <3>1. PICK m \in DOMAIN line.args : \E j \in 1 .. m - 1 :
                line.args[j].name = line.args[m].name
      BY <2>4
    <3>2. PICK j \in 1 .. m - 1 : line.args[j].name = line.args[m].name
      BY <3>1
    <3>3. j \in DOMAIN line.args /\ j # m
      <4>1. DOMAIN line.args = 1 .. Len(line.args) /\ Len(line.args) \in Nat
        BY <1>1, IntroducedName
      <4>. QED
        BY <4>1
    <3>. DEFINE x == <<k, m>>
                y == <<k, j>>
    <3>4. x \in Introductions /\ y \in Introductions /\ x # y
      BY <2>2, <3>3
    <3>5. x[1] = k /\ y[1] <= k /\ Name(x) = Name(y)
      BY <1>1, <2>2, <3>2, <3>3
    <3>. QED
      BY <1>2, <3>4, <3>5
  <2>. QED
    BY <1>3, <2>3, <2>4 DEF SelfClash
<1>4. CASE \E name : Introduces(line, name) /\ Taken(program_lines, name, k)
  <2>1. PICK name : Introduces(line, name) /\ Taken(program_lines, name, k)
    BY <1>4
  <2>2. PICK x \in Introductions : x[1] = k /\ Name(x) = name
    BY <1>1, <2>1, SlotsIntroduce
  <2>3. CASE name \in {"bss", "data"}
    BY <2>2, <2>3 DEF Redefines
  <2>4. CASE \E j \in 1 .. k - 1 : Introduces(program_lines[j], name)
    <3>1. PICK j \in 1 .. k - 1 : Introduces(program_lines[j], name)
      BY <2>4
    <3>2. j \in Compiled /\ j \in DOMAIN program_lines /\ j <= k /\ j # k
      BY <1>1
    <3>3. PICK y \in Introductions : y[1] = j /\ Name(y) = name
      BY <3>1, <3>2, SlotsIntroduce
    <3>. QED
      BY <1>2, <2>2, <3>2, <3>3
  <2>. QED
    BY <2>1, <2>3, <2>4 DEF Taken
<1>. QED
  BY <1>3, <1>4 DEF Clash

LEMMA RedefinesClash ==
    ASSUME TypeOK, NEW k \in Compiled, EndLine \in DOMAIN program_lines, Redefines(k)
    PROVE  Clash(program_lines, k)
<1>1. /\ k \in Nat /\ EndLine \in Nat /\ k < EndLine /\ k \in DOMAIN program_lines
      /\ \A j \in Compiled : j \in DOMAIN program_lines /\ j \in Nat \ {0}
  BY DEF Compiled, TypeOK
<1>. DEFINE line == program_lines[k]
            Name(x) == Introduced(x[1], x[2])
<1>2. PICK x \in Introductions :
        /\ x[1] = k
        /\ \/ Name(x) \in {"bss", "data"}
           \/ \E y \in Introductions \ {x} : y[1] <= k /\ Name(y) = Name(x)
  BY DEF Redefines
<1>3. Introduces(line, Name(x))
  BY <1>1, <1>2, SlotsIntroduce
<1>4. CASE Name(x) \in {"bss", "data"}
  BY <1>3, <1>4 DEF Clash, Taken
<1>5. CASE \E y \in Introductions \ {x} : y[1] <= k /\ Name(y) = Name(x)
  <2>1. PICK y \in Introductions \ {x} : y[1] <= k /\ Name(y) = Name(x)
    BY <1>5
  <2>2. PICK j \in Compiled : y[1] = j
    BY <2>1, IntroductionsAre
  <2>3. CASE j # k
    <3>1. j \in Nat \ {0} /\ j <= k /\ j \in DOMAIN program_lines
      <4>1. j <= k
        BY <2>1, <2>2
      <4>. QED
        BY <1>1, <4>1
    <3>2. j \in 1 .. k - 1
      BY <1>1, <2>3, <3>1
    <3>3. Introduces(program_lines[j], Name(x))
      BY <2>1, <2>2, <3>1, SlotsIntroduce
    <3>. QED
      BY <1>3, <3>2, <3>3 DEF Clash, Taken
  <2>4. CASE y[1] = k
    <3>. DEFINE OfLabel(z) == z = <<k, 0>> /\ line.label # NoName
                OfSlot(z) == \E slot \in DOMAIN line.args :
                                IsExtern(line) /\ z = <<k, slot>>
    <3>1. ASSUME NEW z \in Introductions, z[1] = k PROVE OfLabel(z) \/ OfSlot(z)
      BY <3>1, IntroductionsAre DEF IsDirective, IsExtern
    <3>2. /\ DOMAIN line.args = 1 .. Len(line.args) /\ Len(line.args) \in Nat
          /\ Introduced(k, 0) = line.label
          /\ \A slot \in DOMAIN line.args : Introduced(k, slot) = line.args[slot].name
      BY <1>1, IntroducedName
    <3>3. ASSUME NEW u, NEW v, OfLabel(u), OfSlot(v), Name(u) = Name(v)
          PROVE  SelfClash(line)
      <4>1. PICK slot \in DOMAIN line.args : IsExtern(line) /\ v = <<k, slot>>
        BY <3>3
      <4>2. Name(u) = line.label /\ line.label # NoName /\ Name(v) = line.args[slot].name
        BY <3>2, <3>3, <4>1
      <4>. QED
        BY <3>3, <4>1, <4>2 DEF SelfClash, Arguments
    <3>4. ASSUME OfSlot(x), OfSlot(y) PROVE SelfClash(line)
      <4>1. PICK m \in DOMAIN line.args : IsExtern(line) /\ x = <<k, m>>
        BY <3>4
      <4>2. PICK n \in DOMAIN line.args : y = <<k, n>>
        BY <3>4
      <4>3. m # n /\ line.args[m].name = line.args[n].name
        BY <2>1, <3>2, <4>1, <4>2
      <4>4. m \in 1 .. n - 1 \/ n \in 1 .. m - 1
        BY <3>2, <4>3
      <4>. QED
        BY <4>1, <4>3, <4>4 DEF SelfClash
    <3>5. ~(OfLabel(x) /\ OfLabel(y))
      BY <2>1
    <3>6. (OfLabel(x) \/ OfSlot(x)) /\ (OfLabel(y) \/ OfSlot(y))
      BY <1>2, <2>1, <2>4, <3>1
    <3>. HIDE DEF OfLabel, OfSlot
    <3>7. SelfClash(line)
      BY <2>1, <3>3, <3>4, <3>5, <3>6
    <3>. QED
      BY <3>7 DEF Clash
  <2>. QED
    BY <2>2, <2>3, <2>4
<1>. QED
  BY <1>2, <1>4, <1>5

LEMMA NamesAreTaken ==
    ASSUME TypeOK, EndLine \in DOMAIN program_lines
    PROVE  \A name : Taken(program_lines, name, EndLine) <=>
              name \in {"bss", "data"} \/ name \in NamesIntroduced
<1>. SUFFICES ASSUME NEW name
              PROVE  (\E j \in 1 .. EndLine - 1 : Introduces(program_lines[j], name))
                       <=> name \in NamesIntroduced
  BY DEF Taken
<1>1. /\ Compiled = 1 .. EndLine - 1
      /\ \A j \in Compiled : j \in DOMAIN program_lines
  BY DEF Compiled, TypeOK
<1>2. \A x \in Introductions : x[1] \in Compiled
  BY IntroductionsAre
<1>3. name \in NamesIntroduced <=> \E x \in Introductions : Introduced(x[1], x[2]) = name
  BY DEF NamesIntroduced
<1>. QED
  BY <1>1, <1>2, <1>3, SlotsIntroduce

-----------------------------------------------------------------------------
(* The verdict.                                                            *)

LEMMA FirstRefusal ==
    ASSUME TypeOK, PassesAgree, LinesAccepted, RejectFirst
    PROVE  \/ Faulty(i)
           \/ program_lines[i].kind = "label" /\ program_lines[i + 1].label # NoName
<1>1. /\ phase = "first" /\ CurrentLine = program_lines[i] /\ CurrentLine.name # "end"
      /\ i \in Nat \ {0}
  BY DEF RejectFirst, CurrentLine, TypeOK
<1>2. EndLine \in DOMAIN program_lines /\ i \in Compiled
  <2>1. EndLine \in DOMAIN program_lines /\ EndLine \in Nat /\ i <= EndLine /\ i # EndLine
    BY <1>1, EndOfFirst
  <2>. QED
    BY <1>1, <2>1 DEF Compiled
<1>3. Clash(program_lines, i) => Faulty(i)
  BY <1>2, ClashRedefines DEF Faulty
<1>4. SectionAt(i) = current_section
  BY <1>1, SectionAtIsIn DEF LinesAccepted
<1>5. \A name : Exists(symtable, name) => Taken(program_lines, name, i)
  BY <1>1 DEF LinesAccepted, TableKnows
<1>6. CASE CurrentLine.kind = "directive" /\ BadDirective(CurrentLine)
  BY <1>1, <1>6 DEF Faulty
<1>7. CASE /\ CurrentLine.kind = "directive" /\ CurrentLine.name = "extern"
           /\ ~CanDeclare(CurrentLine)
  <2>1. IsExtern(CurrentLine) /\ IsDirective(i, "extern")
    BY <1>1, <1>7 DEF IsExtern, IsDirective
  <2>2. CASE ~HasArguments(CurrentLine)
    BY <1>1, <2>1, <2>2 DEF Faulty
  <2>3. ASSUME NEW k \in DOMAIN CurrentLine.args, Exists(symtable, CurrentLine.args[k].name)
        PROVE  Clash(program_lines, i)
    <3>1. Introduces(CurrentLine, CurrentLine.args[k].name)
      BY <2>1 DEF Introduces, Arguments
    <3>. QED
      BY <1>1, <1>5, <2>3, <3>1 DEF Clash
  <2>4. ASSUME NEW k \in DOMAIN CurrentLine.args, NEW j \in 1 .. k - 1,
               CurrentLine.args[j].name = CurrentLine.args[k].name
        PROVE  Clash(program_lines, i)
    BY <1>1, <2>1, <2>4 DEF Clash, SelfClash
  <2>. QED
    BY <1>3, <1>7, <2>2, <2>3, <2>4 DEF CanDeclare
<1>8. CASE CurrentLine.kind = "instruction" /\ current_section # "text"
  BY <1>1, <1>4, <1>8 DEF Faulty
<1>9. CASE CurrentLine.kind = "label" /\ program_lines[i + 1].label # NoName
  BY <1>1, <1>9
<1>10. CASE LabelClash
  <2>1. CurrentLine.kind # "label" /\ CurrentLine.label # NoName
    BY <1>10 DEF LabelClash
  <2>2. CASE Exists(symtable, CurrentLine.label)
    <3>1. Introduces(CurrentLine, CurrentLine.label)
      BY <2>1 DEF Introduces
    <3>. QED
      BY <1>1, <1>3, <1>5, <2>2, <3>1 DEF Clash
  <2>3. CASE /\ CurrentLine.kind = "directive" /\ CurrentLine.name = "extern"
             /\ CurrentLine.label \in Arguments(CurrentLine)
    BY <1>1, <1>3, <2>1, <2>3 DEF Clash, SelfClash, IsExtern
  <2>. QED
    BY <1>10, <2>2, <2>3 DEF LabelClash
<1>. QED
  BY <1>6, <1>7, <1>8, <1>9, <1>10 DEF RejectFirst

LEMMA SecondRefusal ==
    ASSUME TypeOK, PassesAgree, LinesAccepted, RejectSecond
    PROVE  Faulty(i)
<1>1. /\ phase = "second" /\ CurrentLine = program_lines[i]
      /\ CurrentLine.kind = "directive"
  BY DEF RejectSecond, InPass, CurrentLine
<1>2. CASE BadDirective(CurrentLine)
  BY <1>1, <1>2 DEF Faulty
<1>3. CASE CurrentLine.name = "public" /\ ~CanExport(CurrentLine)
  <2>1. IsDirective(i, "public")
    BY <1>1, <1>3 DEF IsDirective
  <2>2. CASE ~HasArguments(CurrentLine)
    BY <1>1, <2>1, <2>2 DEF Faulty
  <2>3. CASE HasArguments(CurrentLine)
    <3>1. PICK name \in Arguments(CurrentLine) : ~Defined(symtable, name)
      BY <1>3, <2>3 DEF CanExport
    <3>2. /\ TableKnows(symtable, program_lines, EndLine)
          /\ EndLine \in DOMAIN program_lines
      BY <1>1, EndOfSecond DEF LinesAccepted
    <3>3. /\ DOMAIN symtable = 1 .. Len(symtable) /\ Len(symtable) \in Nat
          /\ 1 \in DOMAIN symtable /\ symtable[1].name = "text"
          /\ \A k \in 2 .. Len(symtable) : k \in DOMAIN symtable
      BY <3>2 DEF TableKnows, TypeOK
    <3>4. name # "text" /\ ~Exists(symtable, name)
      BY <3>1, <3>3 DEF Defined, Exists
    <3>5. name \notin NamesIntroduced \cup SectionNames
      BY <3>2, <3>4, NamesAreTaken DEF TableKnows, SectionNames
    <3>. QED
      BY <1>1, <2>1, <3>1, <3>5 DEF Faulty
  <2>. QED
    BY <2>2, <2>3
<1>. QED
  BY <1>2, <1>3 DEF RejectSecond

LEMMA DoneIsFaultless ==
    ASSUME TypeOK, PassesAgree, LinesAccepted, phase = "done", NEW k \in Compiled
    PROVE  /\ ~Faulty(k)
           /\ program_lines[k].kind = "label" =>
                 program_lines[k + 1].label = program_lines[k].label
<1>1. /\ EndLine = Len(mark) /\ Compiled = 1 .. Len(mark) - 1 /\ i = Len(mark)
      /\ EndLine \in DOMAIN program_lines
  BY EndOfSecond
<1>2. Accepted(program_lines, k) /\ TableKnows(symtable, program_lines, EndLine)
  BY <1>1 DEF LinesAccepted
<1>3. ~Redefines(k)
  BY <1>1, <1>2, RedefinesClash DEF Accepted
<1>4. ASSUME IsDirective(k, "public")
      PROVE  /\ HasArguments(program_lines[k])
             /\ Arguments(program_lines[k]) \subseteq NamesIntroduced \cup SectionNames
  <2>1. Exportable(symtable, program_lines[k])
    BY <1>1, <1>4 DEF LinesAccepted, Public, IsDirective
  <2>2. ASSUME NEW name \in Arguments(program_lines[k])
        PROVE  name \in NamesIntroduced \cup SectionNames
    <3>1. PICK n \in DOMAIN symtable : symtable[n].name = name
      BY <2>1 DEF Exportable, Defined
    <3>2. n = 1 \/ n \in 2 .. Len(symtable)
      BY DEF TypeOK
    <3>3. name = "text" \/ Taken(program_lines, name, EndLine)
      BY <1>2, <3>1, <3>2 DEF TableKnows, Exists
    <3>. QED
      BY <1>1, <3>3, NamesAreTaken DEF SectionNames
  <2>. QED
    BY <2>1, <2>2 DEF Exportable
<1>5. program_lines[k].kind = "instruction" => SectionAt(k) = "text"
  BY <1>2, SectionAtIsIn DEF Accepted
<1>6. IsDirective(k, "extern") => HasArguments(program_lines[k])
  BY <1>2 DEF Accepted, IsExtern, IsDirective
<1>7. program_lines[k].kind = "directive" => ~BadDirective(program_lines[k])
  BY <1>2 DEF Accepted
<1>8. ~Faulty(k)
  BY <1>3, <1>4, <1>5, <1>6, <1>7 DEF Faulty
<1>. QED
  BY <1>2, <1>8 DEF Accepted

LEMMA InitAccepted == Init => LinesAccepted /\ Refused
<1>. SUFFICES ASSUME Init PROVE LinesAccepted /\ Refused
  OBVIOUS
<1>1. /\ symtable = <<SectionSymbol("text"), SectionSymbol("bss"), SectionSymbol("data")>>
      /\ phase = "first" /\ i = 1 /\ current_section = "none"
  BY DEF Init
<1>2. /\ Len(symtable) = 3 /\ symtable[1].name = "text"
      /\ symtable[2].name = "bss" /\ symtable[3].name = "data"
  BY <1>1 DEF SectionSymbol
<1>3. ASSUME NEW name
      PROVE  Exists(symtable, name) <=> Taken(program_lines, name, 1)
  <2>1. \A k : k \in 2 .. 3 <=> k = 2 \/ k = 3
    OBVIOUS
  <2>2. \A j : j \notin 1 .. 1 - 1
    OBVIOUS
  <2>. QED
    BY <1>2, <2>1, <2>2 DEF Exists, Taken
<1>4. TableKnows(symtable, program_lines, i)
  BY <1>1, <1>2, <1>3 DEF TableKnows
<1>5. SectionIn(program_lines, 1) = "none"
  BY SectionBehind
<1>6. \A k \in 1 .. 1 - 1 : FALSE
  OBVIOUS
<1>. QED
  BY <1>1, <1>4, <1>5, <1>6 DEF LinesAccepted, Refused

\* What a fault is, is read off the lines alone.
LEMMA FaultsStand ==
    ASSUME UNCHANGED program_lines
    PROVE  \A k : Faulty(k)' <=> Faulty(k)
<1>1. EndLine' = EndLine
  BY DEF EndLine
<1>2. Compiled' = Compiled
  BY <1>1 DEF Compiled
<1>3. \A k, name : IsDirective(k, name)' <=> IsDirective(k, name)
  BY DEF IsDirective
<1>4. \A k, slot : Introduced(k, slot)' = Introduced(k, slot)
  BY DEF Introduced
<1>5. Introductions' = Introductions
  BY <1>2 DEF Introductions, IsDirective
<1>6. NamesIntroduced' = NamesIntroduced
  BY <1>4, <1>5 DEF NamesIntroduced
<1>7. \A k : SectionAt(k)' = SectionAt(k)
  <2>1. \A k : SectionAt(k) = SectionIn(program_lines, k)
    BY SectionAtIsIn
  <2>2. (\A k : SectionAt(k) = SectionIn(program_lines, k))'
    BY SectionAtIsIn, PTL
  <2>. QED
    BY <2>1, <2>2
<1>8. \A k : Redefines(k)' <=> Redefines(k)
  BY <1>4, <1>5 DEF Redefines
<1>. QED
  BY <1>3, <1>6, <1>7, <1>8 DEF Faulty

LEMMA RefusalStands ==
    ASSUME TypeOK, PassesAgree, LinesAccepted, Refused, [Next]_vars
    PROVE  Refused'
<1>1. CASE UNCHANGED <<phase, i, program_lines>>
  <2>1. Faulty(i)' <=> Faulty(i)
    BY <1>1, FaultsStand
  <2>. QED
    BY <1>1, <2>1 DEF Refused
<1>2. CASE RejectFirst \/ RejectSecond
  <2>1. \/ Faulty(i)
        \/ program_lines[i].kind = "label" /\ program_lines[i + 1].label # NoName
    BY <1>2, FirstRefusal, SecondRefusal
  <2>2. UNCHANGED <<i, program_lines>>
    BY <1>2 DEF RejectFirst, RejectSecond
  <2>3. Faulty(i)' <=> Faulty(i)
    BY <2>2, FaultsStand
  <2>. QED
    BY <2>1, <2>2, <2>3 DEF Refused
<1>3. CASE phase' # "failed"
  BY <1>3 DEF Refused
<1>4. phase' = "failed" => RejectFirst \/ RejectSecond \/ UNCHANGED <<phase, i, program_lines>>
  BY DEF Next, FirstPass, SecondPass, Exited, vars, SwitchSection, DeclareExtern,
         ReserveItem, PassOverDirective, SizeInstruction, PassOverBlank, FinishRound,
         CarryLabel, EndFirstPass, EnterSection, Export, EmitData,
         EncodeInstruction, PassOver, WriteObject, NextLine, InPass
<1>. QED
  BY <1>1, <1>2, <1>3, <1>4

\* nas accepts a program exactly when its text has no fault, read off without
\* any pass, and refuses it at a line that has one: the order in which the two
\* passes of nas.c meet the lines, and the labels that lines hand on, make no
\* difference to the verdict.
THEOREM VerdictMatchesProgramAlways == Spec => []VerdictMatchesProgram
<1>1. Init => LinesAccepted /\ Refused
  BY InitAccepted
<1>2. TypeOK /\ PassesAgree /\ LinesAccepted /\ Refused /\ [Next]_vars
        => LinesAccepted' /\ Refused'
  <2>. SUFFICES ASSUME TypeOK, PassesAgree, LinesAccepted, Refused, [Next]_vars
                PROVE  LinesAccepted'
    BY RefusalStands
  <2>1. TypeOK'
    BY NextTyped DEF PassesAgree
  <2>2. CASE UNCHANGED vars
    BY <2>2 DEF vars, LinesAccepted
  <2>. QED
    BY <2>1, <2>2, FirstPassAccepts, SecondPassAccepts DEF Next, Exited
<1>3. TypeOK /\ PassesAgree /\ LinesAccepted /\ Refused => VerdictMatchesProgram
  BY DoneIsFaultless DEF VerdictMatchesProgram, Refused
<1>. QED
  BY <1>1, <1>2, <1>3, TypeCorrect, PassesAgreeAlways, PTL DEF Spec

=============================================================================
