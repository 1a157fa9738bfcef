----------------------------- MODULE ObjectFile -----------------------------
(***************************************************************************)
(* The object file nas writes (the end of nas/nas.c) and nas_run loads     *)
(* (nas_run/nas_util.c).  The image is a header of six words and four      *)
(* parts laid one after the other: data, text, symbols and relocations.    *)
(* The bss section has a size and no bytes.  Contents of a section are     *)
(* chunks, the pieces that one source line emits: a chunk lies "at" an     *)
(* offset of its section and is "size" bytes long.                         *)
(***************************************************************************)
EXTENDS Integers, Sequences, SymbolTable

ElfSize == 24         \* sizeof(struct elf), six uint32_t
SymEntrySize == 48    \* sizeof(struct sym_entry), 3 words, a name, 3 bytes
RelocEntrySize == 8   \* sizeof(struct reloc_entry), two uint32_t
InstructionSize == 4  \* sizeof(union instruction)

Relocation == [index: Int, offset: Nat]

\* The relocation table of nas/reloc.c, a linked list, is a sequence.  A new
\* table has a head without a value, which the first addition fills.
AddRelocation(table, index, offset) ==
    Append(table, [index |-> index, offset |-> offset])

\* reloc_table_create_from_buffer: as many entries as the bytes hold.
ReloadRelocations(entries, bytes) == SubSeq(entries, 1, bytes \div RelocEntrySize)

\* Chunks that follow one another from offset 0 and end at "end".
Tiled(chunks, end) ==
    /\ \A k \in DOMAIN chunks :
          chunks[k].at = IF k = 1 THEN 0 ELSE chunks[k - 1].at + chunks[k - 1].size
    /\ end = IF chunks = << >> THEN 0
             ELSE chunks[Len(chunks)].at + chunks[Len(chunks)].size

\* Where the symbols begin: after the header, the data and the text.
BugSymbolStart(counters) == ElfSize + counters.text
SymbolStart(counters) == ElfSize + counters.data + counters.text

\* The image: location_counter gives the section sizes.
MakeObject(location_counter, buffer, symtable, reloctable) ==
    LET text_start == ElfSize + location_counter.data
        symbol_start == SymbolStart(location_counter)
        reloc_start == symbol_start + SymEntrySize * Len(symtable)
    IN  [bss_size |-> location_counter.bss,
         data_start |-> ElfSize,
         text_start |-> text_start,
         symbol_start |-> symbol_start,
         reloc_start |-> reloc_start,
         size |-> reloc_start + RelocEntrySize * Len(reloctable),
         data |-> buffer.data, text |-> buffer.text,
         symbols |-> symtable, relocs |-> reloctable]

\* nas_util_load_context: every length is a difference of two header words.
LoadContext(object) ==
    [bss_size |-> object.bss_size,
     data_size |-> object.text_start - object.data_start,
     text_size |-> object.symbol_start - object.text_start,
     data |-> object.data, text |-> object.text,
     symtable |-> Reload(SubSeq(object.symbols, 1,
                   (object.reloc_start - object.symbol_start) \div SymEntrySize)),
     reloctable |-> ReloadRelocations(object.relocs, object.size - object.reloc_start)]

\* What nas promises of every object it writes and nas_run relies on: the
\* header fits the parts, the section symbols come first, no name is entered
\* twice behind the first, the item of a symbol lies within its section, and
\* relocations follow the order of the instructions in the text, one for an
\* instruction at most, each to an entry of the symbol table.
SectionLength(object) ==
    [data |-> object.text_start - object.data_start,
     text |-> object.symbol_start - object.text_start,
     bss |-> object.bss_size]

WellFormed(object) ==
    LET length == SectionLength(object)
        entries == object.symbols
    IN  /\ object.data_start = ElfSize
        /\ Tiled(object.data, length.data) /\ Tiled(object.text, length.text)
        /\ object.reloc_start = object.symbol_start + SymEntrySize * Len(entries)
        /\ object.size = object.reloc_start + RelocEntrySize * Len(object.relocs)
        /\ Len(entries) >= 3
        /\ TailUnique(entries)
        /\ \A k \in DOMAIN entries :
              LET symbol == entries[k]
              IN  /\ (k <= 3) = (symbol.type = "section")
                  /\ symbol.type = "extern" =>
                        symbol.section = "none" /\ symbol.scope = "global"
                  /\ symbol.type = "function" => symbol.section = "text"
                  /\ symbol.size <= symbol.offset
                  /\ symbol.section # "none" => symbol.offset <= length[symbol.section]
        /\ \A k \in DOMAIN object.relocs :
              /\ HasIndex(entries, object.relocs[k].index)
              /\ object.relocs[k].offset + InstructionSize <= length.text
              /\ \A j \in 1 .. k - 1 : object.relocs[j].offset < object.relocs[k].offset
              /\ \E n \in DOMAIN object.text : object.text[n].at = object.relocs[k].offset
=============================================================================
