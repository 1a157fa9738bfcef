-------------------------- MODULE LoaderProperties --------------------------
(***************************************************************************)
(* What makes a load correct, judged from the script and the linked        *)
(* context.  A script can place sections over one another; the properties  *)
(* are about scripts that name each section and only move "." forward,     *)
(* within the range of an address.                                         *)
(***************************************************************************)
EXTENDS Loader

ContentsOf(lines) == [k \in DOMAIN lines |-> ReadScriptLine(lines[k])]
Contents == ContentsOf(script)

Places(k, s) == Contents[k].type = "section" /\ Contents[k].name = s

MovesForward(content) ==
    /\ content.args[1].type \in {"symbol", "align"} /\ content.args[1].name = "."
    /\ \A j \in DOMAIN content.op : content.op[j] = "+" /\ content.args[j + 1].type = "number"

\* How far a line can move "." at most.
Added(content) ==
    LET upTo[j \in 0 .. Len(content.op)] ==
            IF j = 0
            THEN IF content.args[1].type = "align" THEN content.args[1].number ELSE 0
            ELSE upTo[j - 1] + content.args[j + 1].number
    IN  upTo[Len(content.op)]

Growth(content, lengths) ==
    IF content.type = "section" /\ content.name \in Placed THEN lengths[content.name]
    ELSE IF content.type = "expression" /\ content.name = "." THEN Added(content)
    ELSE 0

\* Where "." can be after each line.
Reach(lines, lengths) ==
    LET contents == ContentsOf(lines)
        after[k \in 0 .. Len(lines)] ==
            IF k = 0 THEN FirstLocation
            ELSE after[k - 1] + Growth(contents[k], lengths)
    IN  after

\* A script that places every section, moves "." only forward, and never so
\* far that the 32 bits of the location wrap.
Orderly ==
    /\ \A s \in Placed : \E k \in DOMAIN script : Places(k, s)
    /\ \A k \in DOMAIN script :
          Contents[k].type = "expression" /\ Contents[k].name = "." => MovesForward(Contents[k])
    /\ Reach(script, sizes)[Len(script)] < Modulus

Holds(address, length, origin, from) ==
    \A k \in 0 .. length - 1 : ByteAt(address + k) = <<origin, from + k>>

\* The copies into memory, three sections, the first vector and the boot
\* routine, one after the other and unchecked, leave each other whole, for
\* any order of the sections and any gaps.
SectionsIntact ==
    Orderly =>
        /\ stage \in {"entry", "patch", "boot", "loaded"} =>
              \A s \in Placed : Holds(start[s], sizes[s], s, 0)
        /\ stage = "loaded" =>
              Holds(0, WordSize, "ivt", 0) /\ Holds(registers["pc"], BootBytes, "boot", 0)

\* Aligning "." between two sections puts the second on a multiple of the
\* unit, at most one unit behind the end of the first, if the location does
\* not wrap there.
AlignedSections ==
    stage \in {"copy", "entry", "patch", "boot", "loaded"} =>
        \A k \in 1 .. Len(script) - 2 : \A s, t \in Placed :
            (/\ Places(k, s)
             /\ Contents[k + 1].name = "." /\ Len(Contents[k + 1].args) = 1
             /\ Contents[k + 1].args[1].type = "align" /\ Contents[k + 1].args[1].name = "."
             /\ Places(k + 2, t)
             /\ \A j \in DOMAIN script \ {k, k + 2} : ~Places(j, s) /\ ~Places(j, t)
             /\ s # t
             /\ start[s] + sizes[s] + Contents[k + 1].args[1].number < Modulus)
            => /\ start[t] % Contents[k + 1].args[1].number = 0
               /\ start[t] - (start[s] + sizes[s]) \in 1 .. Contents[k + 1].args[1].number

\* Bit b of the integer of that many bytes at a place of a section: the sign
\* stands above the last byte.
ItemBit(section, place, size, b) ==
    IF b < 8 * size THEN <<<<section, place + b \div 8>>, b % 8>>
    ELSE <<<<section, place + size - 1>>, 7>>

\* A field of that width holds the item of the symbol.
IsDatumOf(symbol, section) == symbol.section = section /\ symbol.size \in {1, 2, 4}
HasItem(symbol, width, value) ==
    value.bits = [b \in 0 .. width - 1 |->
                     ItemBit(symbol.section, symbol.offset - symbol.size, symbol.size, b)]

\* What the machine will see behind a patched operand is what its symbol
\* stands for.  A call goes to the first byte of the function.  A number of
\* section data fills the field of the instruction bit by bit, with its sign
\* above it, so that it is whole where the field is wide enough and loses
\* its upper bits, and nothing else, where it is not.  An extern that no file
\* defines has the value the script gave it, as much as the field holds.
\* Numbers of section bss are left out: the branch at nas_run.c:322 reads them
\* where their items end, so an operand there is not its item.
OperandsReachItems ==
    stage = "loaded" /\ Orderly =>
        \A n \in DOMAIN final.reloctable :
            LET reloc == final.reloctable[n]
                group == final.code[reloc.offset]
                symbol == SymbolAt(final.symtable, reloc.index)
                value == operand[reloc.offset]
            IN  /\ symbol.type = "function" =>
                      Holds(value.number, symbol.size, "text", symbol.offset - symbol.size)
                /\ IsDatumOf(symbol, "data") => HasItem(symbol, FieldBits[group], value)
                /\ symbol.type = "extern" =>
                      value.number = InField(global_table[symbol.name], FieldValues[group])

\* The boot routine returns through the link register: to the instruction
\* that main labels, however the script ordered the sections.
BootReachesMain ==
    stage = "loaded" /\ Orderly =>
        LET main == SymbolAt(final.symtable, IndexOfName(final.symtable, EntryPoint))
        IN  main.type = "function" /\ main.size = InstructionBytes =>
                Holds(registers["lr"], main.size, "text", main.offset - main.size)
=============================================================================
