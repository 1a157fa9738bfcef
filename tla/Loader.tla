------------------------------- MODULE Loader -------------------------------
(***************************************************************************)
(* The loading half of nas_run (nas_run/nas_run.c from the copy to memory  *)
(* to the start of the processor): sections are copied to where the script *)
(* put them, relocated instructions are patched, and a boot routine is     *)
(* installed behind the last section.                                      *)
(*                                                                         *)
(* A byte of memory is known by where it came from: byte k of a section,   *)
(* of the boot routine or of the vector table.  What the patch leaves in   *)
(* an instruction is kept beside memory, by the offset of the instruction. *)
(***************************************************************************)
EXTENDS Integers, Sequences, Word, SymbolTable, Script

CONSTANTS
    MemorySize,   \* MAX_USER_MEMORY
    Commands      \* what is loaded: a script and a linked context

EntryPoint == "main"                             \* ENTRY_POINT_LABEL
InstructionBytes == 4
BootBytes == 4 * InstructionBytes    \* interrupt_routine_set_processor

\* What the linker leaves (ContextSound of module LinkerProperties): symbols
\* with their items in their sections, and one relocation at most for an
\* instruction.  "code" gives the opcode group of each instruction in the text.
Contexts(command) ==
    LET final == command.final
    IN  /\ command.script \in Seq(Seq(Lexemes))
        /\ final.sizes \in [Placed -> Nat]
        /\ final.symtable \in Seq(Symbol(STRING))
        /\ \A k \in DOMAIN final.symtable : Sound(final.symtable[k], final.sizes)
        /\ final.reloctable \in Seq([index: Int, offset: Nat])
        /\ \A k \in DOMAIN final.reloctable :
              /\ final.reloctable[k].offset \in DOMAIN final.code
              /\ \A j \in 1 .. k - 1 :
                    final.reloctable[j].offset # final.reloctable[k].offset
        /\ \A offset \in DOMAIN final.code :
              offset \in Nat /\ offset + InstructionBytes <= final.sizes["text"]

\* All of memory has an address that the field of a call can hold.
ASSUME CommandsAssumption ==
    /\ MemorySize \in FirstLocation .. 2 ^ 18
    /\ \A command \in Commands : Contexts(command)

-----------------------------------------------------------------------------
VARIABLES
    final,       \* final_context: symbols, relocations, opcodes
    memory,      \* memory_buffer
    registers,   \* the registers the loader sets
    node,        \* the relocation the loop is at
    operand      \* what was patched, by offset in the text

loadVars == <<final, memory, registers, node, operand>>
vars == <<script, sizes, line, stage, memory_location, start, global_table,
          final, memory, registers, node, operand>>

Junk == <<"none", 0>>

InitLoad ==
    /\ memory = [a \in 0 .. MemorySize - 1 |-> Junk]
    /\ registers = [r \in {"pc", "lr", "sp"} |-> 0]
    /\ node = 1
    /\ operand = << >>

Init ==
    /\ \E command \in Commands :
          script = command.script /\ final = command.final /\ sizes = command.final.sizes
    /\ InitScript
    /\ InitLoad

-----------------------------------------------------------------------------
(* Copy and entry point.                                                   *)

\* length bytes of that origin, copied to an address.
Copy(bytes, origin, address, length) ==
    [a \in DOMAIN bytes |->
        IF a - address \in 0 .. length - 1 THEN <<origin, a - address>> ELSE bytes[a]]
Fits(address, length) == length = 0 \/ address + length <= MemorySize

CopySections ==
    /\ stage = "copy"
    /\ \A s \in Placed : Fits(start[s], sizes[s])
    /\ LET data == Copy(memory, "data", start["data"], sizes["data"])
           bss == Copy(data, "bss", start["bss"], sizes["bss"])
       IN  memory' = Copy(bss, "text", start["text"], sizes["text"])
    /\ stage' = "entry"
    /\ UNCHANGED <<script, sizes, line, memory_location, start, global_table,
                   final, registers, node, operand>>

\* The copies are unchecked, and the source of bss is a block of no bytes.
LoseMemory ==
    /\ stage = "copy"
    /\ sizes["bss"] > 0 \/ \E s \in Placed : ~Fits(start[s], sizes[s])
    /\ stage' = "undefined"
    /\ UNCHANGED <<script, sizes, line, memory_location, start, global_table,
                   final, memory, registers, node, operand>>

\* "main" is taken for the label of one instruction.
BugFindMain ==
    /\ stage = "entry"
    /\ Defined(final.symtable, EntryPoint)
    /\ LET main == SymbolAt(final.symtable, IndexOfName(final.symtable, EntryPoint))
       IN  registers' = [registers EXCEPT !["pc"] = start["text"] + main.offset]
    /\ stage' = "patch"
    /\ UNCHANGED <<script, sizes, line, memory_location, start, global_table,
                   final, memory, node, operand>>
FindMain ==
    /\ stage = "entry"
    /\ Defined(final.symtable, EntryPoint)
    /\ LET main == SymbolAt(final.symtable, IndexOfName(final.symtable, EntryPoint))
       IN  registers' = [registers EXCEPT !["pc"] = start["text"] + main.offset - 4]
    /\ stage' = "patch"
    /\ UNCHANGED <<script, sizes, line, memory_location, start, global_table,
                   final, memory, node, operand>>

NoMain ==
    /\ stage = "entry"
    /\ ~Defined(final.symtable, EntryPoint)
    /\ stage' = "failed"
    /\ UNCHANGED <<script, sizes, line, memory_location, start, global_table,
                   final, memory, registers, node, operand>>

-----------------------------------------------------------------------------
(* Relocations.                                                            *)

\* The immediate fields that are patched: their bits and how many values
\* they have.  All are signed, but for that of a shift.
FieldBits == [arith |-> 18, ldst |-> 10, call |-> 19, mov |-> 5]
FieldValues == [arith |-> 2 ^ 18, ldst |-> 2 ^ 10, call |-> 2 ^ 19, mov |-> 2 ^ 5]

Entry == final.reloctable[node]
Opcode == final.code[Entry.offset]
Known == HasIndex(final.symtable, Entry.index)
Target == SymbolAt(final.symtable, Entry.index)

\* An extern that no file defined is looked up among the script globals.
External == Target.section = "none" /\ Target.type = "extern"
Dangling == External /\ Target.name \notin DOMAIN global_table

Accepted ==
    CASE Opcode \in {"arith", "ldst"} -> External \/ Target.type = "data"
      [] Opcode = "mov" -> Target.type = "data"
      [] Opcode = "call" -> Target.type = "function"
      [] OTHER -> FALSE

\* What is left in a field: a number that the loader knows, or bits of bytes
\* that it found in memory.
Number(n, values) == [number |-> InField(n, values), bits |-> << >>]

\* A field keeps the low bits of an integer; above its last byte an integer
\* repeats its sign.  Bytes lie in the order of a little-endian host.
BitOf(bytes, b) ==
    IF b \div 8 < Len(bytes) THEN <<bytes[b \div 8 + 1], b % 8>> ELSE <<bytes[Len(bytes)], 7>>
Kept(bytes, width) ==
    IF bytes = << >> THEN Number(0, 2)
    ELSE [number |-> 0, bits |-> [b \in 0 .. width - 1 |-> BitOf(bytes, b)]]

\* read_int: the bytes found in memory, if there are integers of that size.
ByteAt(address) == IF address \in DOMAIN memory THEN memory[address] ELSE Junk
ReadInt(address, size) ==
    IF size \in {1, 2, 4} THEN [k \in 1 .. size |-> ByteAt(address + k - 1)] ELSE << >>

\* A datum is read where it begins, but in bss, and in no section, where it
\* ends.
BugDatum(symbol) == ReadInt(start["data"] + symbol.offset, symbol.size)
Datum(symbol) ==
    IF symbol.section = "data"
    THEN ReadInt(start["data"] + symbol.offset - symbol.size, symbol.size)
    ELSE ReadInt(start["bss"] + symbol.offset, symbol.size)

Patched ==
    CASE Opcode = "call" ->
            Number(start["text"] + Target.offset - Target.size, FieldValues["call"])
      [] External -> Number(global_table[Target.name], FieldValues[Opcode])
      [] OTHER -> Kept(Datum(Target), FieldBits[Opcode])

AtRelocation == stage = "patch" /\ node <= Len(final.reloctable)

PatchInstruction ==
    /\ AtRelocation
    /\ Known /\ ~Dangling /\ Accepted
    /\ operand' = [offset \in DOMAIN operand \cup {Entry.offset} |->
                      IF offset = Entry.offset THEN Patched ELSE operand[offset]]
    /\ node' = node + 1
    /\ UNCHANGED <<script, sizes, line, stage, memory_location, start, global_table,
                   final, memory, registers>>

RejectRelocation ==
    /\ AtRelocation
    /\ Known => ~Dangling /\ ~Accepted
    /\ stage' = "failed"
    /\ UNCHANGED <<script, sizes, line, memory_location, start, global_table,
                   final, memory, registers, node, operand>>

\* The value of a script global that does not exist, or of the head of an
\* empty table, is read through a null pointer.
CrashOnRelocation ==
    /\ stage = "patch"
    /\ \/ AtRelocation /\ Known /\ Dangling
       \/ final.reloctable = << >>
    /\ stage' = "crashed"
    /\ UNCHANGED <<script, sizes, line, memory_location, start, global_table,
                   final, memory, registers, node, operand>>

EndRelocations ==
    /\ stage = "patch"
    /\ final.reloctable # << >>
    /\ node > Len(final.reloctable)
    /\ stage' = "boot"
    /\ UNCHANGED <<script, sizes, line, memory_location, start, global_table,
                   final, memory, registers, node, operand>>

-----------------------------------------------------------------------------
(* Boot.                                                                   *)

\* The routine that clears the status word and returns to main lies behind
\* the last section placed; the first vector points to it, and the stack
\* grows up from its end.
InstallBoot ==
    /\ stage = "boot"
    /\ Fits(memory_location, BootBytes)
    /\ memory' = Copy(Copy(memory, "ivt", 0, WordSize), "boot", memory_location, BootBytes)
    /\ registers' = [registers EXCEPT !["lr"] = registers["pc"], !["pc"] = memory_location,
                                       !["sp"] = memory_location + BootBytes]
    /\ stage' = "loaded"
    /\ UNCHANGED <<script, sizes, line, memory_location, start, global_table,
                   final, node, operand>>

NoRoomForBoot ==
    /\ stage = "boot"
    /\ ~Fits(memory_location, BootBytes)
    /\ stage' = "undefined"
    /\ UNCHANGED <<script, sizes, line, memory_location, start, global_table,
                   final, memory, registers, node, operand>>

Ended == {"loaded", "failed", "crashed", "undefined"}
Exited == stage \in Ended /\ UNCHANGED vars

Load ==
    \/ CopySections \/ LoseMemory \/ FindMain \/ NoMain
    \/ PatchInstruction \/ RejectRelocation \/ CrashOnRelocation \/ EndRelocations
    \/ InstallBoot \/ NoRoomForBoot

Next == (ScriptNext /\ UNCHANGED loadVars) \/ Load \/ Exited

Spec == Init /\ [][Next]_vars
-----------------------------------------------------------------------------
Origins == Placed \cup {"none", "ivt", "boot"}

TypeOK ==
    /\ script \in Seq(Seq(Lexemes))
    /\ line \in 1 .. Len(script) + 1
    /\ stage \in {"script", "copy", "entry", "patch", "boot"} \cup Ended
    /\ memory_location \in 0 .. Modulus - 1
    /\ start \in [Placed -> 0 .. Modulus - 1]
    /\ "." \in DOMAIN global_table
    /\ \A name \in DOMAIN global_table : global_table[name] \in Words
    /\ memory \in [0 .. MemorySize - 1 -> Origins \X Nat]
    /\ registers \in [{"pc", "lr", "sp"} -> Int]
    /\ node \in 1 .. Len(final.reloctable) + 1
    /\ DOMAIN operand = {final.reloctable[k].offset : k \in 1 .. node - 1}
=============================================================================
