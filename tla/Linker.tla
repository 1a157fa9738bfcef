------------------------------- MODULE Linker -------------------------------
(***************************************************************************)
(* The linking half of nas_run (nas_run/nas_run.c up to the resolution of  *)
(* globals): load every object, merge sections, symbols and relocations    *)
(* into one context, then let definitions replace externs.  A section of   *)
(* the merged context is a sequence of pieces, each the whole section of   *)
(* one file; file 0 is the end instruction that the linker adds itself.    *)
(* The script that nas_run reads in between does not touch this state.     *)
(***************************************************************************)
EXTENDS Integers, Sequences, SymbolTable, ObjectFile

CONSTANTS
    Names,     \* the names symbols may have
    Inputs     \* the command lines: sequences of objects, in link order

Contents == {"text", "data", "bss"}

Chunk == [line: Nat, at: Nat, size: Nat, group: STRING]
Image == [bss_size: Nat, data_start: Nat, text_start: Nat, symbol_start: Nat,
          reloc_start: Nat, size: Nat, data: Seq(Chunk), text: Seq(Chunk),
          symbols: Seq(Symbol(Names)), relocs: Seq(Relocation)]

\* At least one object is named, and nas wrote each of them.
ASSUME InputsAssumption ==
    \A files \in Inputs :
        /\ files \in Seq(Image)
        /\ files # << >>
        /\ \A f \in DOMAIN files : WellFormed(files[f])

-----------------------------------------------------------------------------
VARIABLES
    files,           \* argv[2], argv[3], ...
    i,               \* the file both loops are at
    phase,           \* "load", "merge", "resolve"; "linked", "failed", "crashed"
    context,         \* the contexts loaded so far
    total,           \* bss_size, data_size and text_size of all of them
    allocated,       \* the bytes behind each section pointer of final_context
    symtable, reloctable, sections,    \* final_context
    section_offset,  \* bss_offset, data_offset and text_offset
    symbol_offset,
    current          \* the entry the outer loop of resolve_globals is at

vars == <<files, i, phase, context, total, allocated, symtable, reloctable,
          sections, section_offset, symbol_offset, current>>

Init ==
    /\ files \in Inputs
    /\ i = 1
    /\ phase = "load"
    /\ context = << >>
    /\ total = [s \in Contents |-> 0]
    /\ allocated = [s \in Contents |-> 0]
    /\ symtable = << >>
    /\ reloctable = << >>
    /\ sections = [s \in Contents |-> << >>]
    /\ section_offset = [s \in Contents |-> 0]
    /\ symbol_offset = 0
    /\ current = 1

-----------------------------------------------------------------------------
(* Load and merge.                                                         *)

Length(ctx) == [text |-> ctx.text_size, data |-> ctx.data_size, bss |-> ctx.bss_size]

LoadFile ==
    /\ phase = "load"
    /\ i <= Len(files)
    /\ LET loaded == LoadContext(files[i])
       IN  /\ context' = Append(context, loaded)
           /\ total' = [s \in Contents |-> total[s] + Length(loaded)[s]]
    /\ i' = i + 1
    /\ UNCHANGED <<files, phase, allocated, symtable, reloctable, sections,
                   section_offset, symbol_offset, current>>

\* The text gets room for the end instruction.  The bss section comes from
\* calloc(0, n), a block of no bytes.
Allocate ==
    /\ phase = "load"
    /\ i > Len(files)
    /\ allocated' = [total EXCEPT !.text = @ + InstructionSize, !.bss = 0]
    /\ phase' = "merge"
    /\ i' = 1
    /\ UNCHANGED <<files, context, total, symtable, reloctable, sections,
                   section_offset, symbol_offset, current>>

\* The first three entries of a file are its section symbols; they stay out.
OwnSymbols(table) == SubSeq(table, 4, Len(table))

BugMovedSymbol(symbol, offsets) == symbol
MovedSymbol(symbol, offsets) ==
    IF symbol.section \in Contents
    THEN [symbol EXCEPT !.offset = @ + offsets[symbol.section]]
    ELSE symbol

\* The index is rebased by the symbols counted so far, this file's own among
\* them, but for the first file by none, and by three section symbols per
\* file.  An index that would be negative is a huge uint32_t in the code;
\* either way it is the index of no entry.
BugMovedRelocation(reloc, file, counted, offsets) ==
    [index |-> reloc.index + (IF file > 1 THEN counted ELSE 0) - 3 * file,
     offset |-> reloc.offset]
MovedRelocation(reloc, file, counted, offsets) ==
    [index |-> reloc.index + (IF file > 1 THEN counted ELSE 0) - 3 * file,
     offset |-> reloc.offset + offsets.text]

\* The pieces a file adds to a section.  The end instruction follows the
\* text of the first file, if that has any.
BugPieces(file, s, at, bytes) ==
    IF bytes = 0 THEN << >>
    ELSE <<[file |-> file, at |-> at, size |-> bytes]>> \o
         IF s = "text"
         THEN <<[file |-> 0, at |-> at + bytes, size |-> InstructionSize]>>
         ELSE << >>
Pieces(file, s, at, bytes) ==
    IF bytes = 0 THEN << >>
    ELSE <<[file |-> file, at |-> at, size |-> bytes]>> \o
         IF s = "text" /\ file = 1
         THEN <<[file |-> 0, at |-> at + bytes, size |-> InstructionSize]>>
         ELSE << >>

EndOf(pieces, start) ==
    IF pieces = << >> THEN start ELSE pieces[Len(pieces)].at + pieces[Len(pieces)].size

\* Symbols and relocations use the offsets from before this file's sections
\* are copied.
Merge(ctx) ==
    LET own == OwnSymbols(ctx.symtable)
        added == [s \in Contents |-> Pieces(i, s, section_offset[s], Length(ctx)[s])]
    IN  /\ symtable' = AddSymbolsForce(symtable,
                          [n \in DOMAIN own |-> MovedSymbol(own[n], section_offset)])
        /\ symbol_offset' = symbol_offset + Len(own)
        /\ reloctable' = reloctable \o
              [n \in DOMAIN ctx.reloctable |->
                  MovedRelocation(ctx.reloctable[n], i, symbol_offset + Len(own),
                                  section_offset)]
        /\ sections' = [s \in Contents |-> sections[s] \o added[s]]
        /\ section_offset' = [s \in Contents |-> EndOf(added[s], section_offset[s])]

\* Copying into and out of bss blocks of no bytes is undefined: when the
\* copy does no visible harm, the loop goes on.
MergeFile ==
    /\ phase = "merge"
    /\ i <= Len(files)
    /\ context[i].reloctable # << >>
    /\ Merge(context[i])
    /\ i' = i + 1
    /\ UNCHANGED <<files, phase, context, total, allocated, current>>

\* The head of an empty relocation table has a null value, which the loop
\* reads through; or the bss copy corrupts the heap.
CrashInMerge ==
    /\ phase = "merge"
    /\ i <= Len(files)
    /\ \/ context[i].reloctable = << >>
       \/ context[i].bss_size > 0
    /\ phase' = "crashed"
    /\ UNCHANGED <<files, i, context, total, allocated, symtable, reloctable, sections,
                   section_offset, symbol_offset, current>>

EndMerge ==
    /\ phase = "merge"
    /\ i > Len(files)
    /\ phase' = "resolve"
    /\ UNCHANGED <<files, i, context, total, allocated, symtable, reloctable, sections,
                   section_offset, symbol_offset, current>>

-----------------------------------------------------------------------------
(* symtable_resolve_globals on the merged table.                           *)

AtSymbol == phase = "resolve" /\ current <= Len(symtable)

PassOverSymbol ==
    /\ AtSymbol
    /\ ~IsDefinition(symtable[current])
    /\ current' = current + 1
    /\ UNCHANGED <<files, i, phase, context, total, allocated, symtable, reloctable,
                   sections, section_offset, symbol_offset>>

BugResolveSymbol ==
    /\ AtSymbol
    /\ IsDefinition(symtable[current])
    /\ ~Conflicts(symtable, symtable[current])
    /\ symtable' = Propagate(symtable, symtable[current])
    /\ current' = 1
    /\ UNCHANGED <<files, i, phase, context, total, allocated, reloctable, sections,
                   section_offset, symbol_offset>>
ResolveSymbol ==
    /\ AtSymbol
    /\ IsDefinition(symtable[current])
    /\ ~Conflicts(symtable, symtable[current])
    /\ symtable' = Propagate(symtable, symtable[current])
    /\ current' = current + 1
    /\ UNCHANGED <<files, i, phase, context, total, allocated, reloctable, sections,
                   section_offset, symbol_offset>>

RejectConflict ==
    /\ AtSymbol
    /\ IsDefinition(symtable[current])
    /\ Conflicts(symtable, symtable[current])
    /\ phase' = "failed"
    /\ UNCHANGED <<files, i, context, total, allocated, symtable, reloctable, sections,
                   section_offset, symbol_offset, current>>

\* An empty table has a head without a value, which the outer loop reads.
EndResolve ==
    /\ phase = "resolve"
    /\ current > Len(symtable)
    /\ phase' = IF symtable = << >> THEN "crashed" ELSE "linked"
    /\ UNCHANGED <<files, i, context, total, allocated, symtable, reloctable, sections,
                   section_offset, symbol_offset, current>>

Exited == phase \in {"linked", "failed", "crashed"} /\ UNCHANGED vars

Next ==
    \/ LoadFile \/ Allocate \/ MergeFile \/ CrashInMerge \/ EndMerge
    \/ PassOverSymbol \/ ResolveSymbol \/ RejectConflict \/ EndResolve \/ Exited

Spec == Init /\ [][Next]_vars

\* One sequential process.
FairSpec == Spec /\ WF_vars(Next)
-----------------------------------------------------------------------------
Piece == [file: Nat, at: Nat, size: Nat]

TypeOK ==
    /\ files \in Seq(Image)
    /\ i \in 1 .. Len(files) + 1
    /\ phase \in {"load", "merge", "resolve", "linked", "failed", "crashed"}
    /\ Len(context) = IF phase = "load" THEN i - 1 ELSE Len(files)
    /\ total \in [Contents -> Nat]
    /\ allocated \in [Contents -> Nat]
    /\ symtable \in Seq(Symbol(Names))
    /\ reloctable \in Seq(Relocation)
    /\ sections \in [Contents -> Seq(Piece)]
    /\ section_offset \in [Contents -> Nat]
    /\ symbol_offset = Len(symtable)
    /\ current \in 1 .. Len(symtable) + 1
=============================================================================
