---------------------------- MODULE Instruction ----------------------------
(***************************************************************************)
(* Instructions: the names and fields of nas/instruction.h, and what       *)
(* nas/as.c makes of a mnemonic and its arguments.                         *)
(*                                                                         *)
(* union instruction is a record with all fields that some format has;     *)
(* "dst" and "src" are also r and a of a load, "imm" is also c of a load   *)
(* of half a word.  The conditions, eq to none, are 0 to 7.                *)
(***************************************************************************)
EXTENDS Integers, Sequences, Word

PC == 16
LR == 17
SP == 18
PSW == 19
General == 0 .. 11     \* read_argument accepts AS_REGISTER_GENERAL_END too
SpecialRegisters == [pc |-> PC, lr |-> LR, sp |-> SP, psw |-> PSW]
Registers == General \cup {PC, LR, SP, PSW}

Extras == [postinc |-> 2, postdec |-> 3, preinc |-> 4, predec |-> 5]

Conditions == <<"eq", "ne", "gt", "ge", "lt", "le", "unused", "">>
NoCondition == 7

\* The operations that share an opcode.
Arithmetic == {"add", "sub", "mul", "div", "cmp"}
Logic == {"and", "or", "not", "test"}
SharedOpcode ==
    [ldr |-> "ldst", str |-> "ldst", in |-> "io", out |-> "io",
     mov |-> "mov", shr |-> "mov", shl |-> "mov", ldch |-> "ldlh", ldcl |-> "ldlh"]
Opcodes == {"int", "call", "0xB"} \cup Arithmetic \cup Logic
           \cup {SharedOpcode[m] : m \in DOMAIN SharedOpcode}
OpcodeOf(mnemonic) ==
    IF mnemonic \in DOMAIN SharedOpcode THEN SharedOpcode[mnemonic] ELSE mnemonic

\* The rows of instruction_info; a trailing s sets the flag bit.
Mnemonics == {"int", "call"} \cup Arithmetic \cup Logic \cup DOMAIN SharedOpcode
Flagging == {"call", "mov", "shr", "shl"} \cup Arithmetic \cup Logic
Rows == {[name |-> m, opcode |-> OpcodeOf(m), cf |-> 0] : m \in Mnemonics}
        \cup {[name |-> m \o "s", opcode |-> OpcodeOf(m), cf |-> 1] : m \in Flagging}

Fields == {"dst", "src", "imm", "direct", "f", "ls", "io", "lr", "hl"}
NoFields == [field \in {} |-> 0]

\* Some fields get values, and all others stay.
Field(field, v) == [f \in {field} |-> v]
Over(new, old) ==
    [f \in DOMAIN new \cup DOMAIN old |-> IF f \in DOMAIN new THEN new[f] ELSE old[f]]

\* Uninitialised instructions: any opcode, and a bit in all other fields.
Uninitialised(opcode, bit) ==
    Over([opcode |-> opcode, cf |-> bit, condition |-> bit], [field \in Fields |-> bit])

-----------------------------------------------------------------------------
(* read_operation.                                                         *)

Readings(name) ==
    {reading \in Rows \X (0 .. NoCondition) :
        reading[1].name \o Conditions[reading[2] + 1] = name}

\* strutil_begins_with has its arguments the other way round: it asks
\* whether the whole name is a beginning of "ldr", which of all names with a
\* reading only "ldr" is.  A suffix makes a load a store, an input an output,
\* a shift one of unset direction, and an upper half a lower one.
Direction(name, opcode) ==
    CASE opcode = "ldst" -> [ls |-> IF name = "ldr" THEN 1 ELSE 0]
      [] opcode = "io" -> [io |-> IF name = "in" THEN 1 ELSE 0]
      [] opcode = "mov" /\ name = "shr" -> [lr |-> 0]
      [] opcode = "mov" /\ name = "shl" -> [lr |-> 1]
      [] opcode = "mov" /\ name \notin {"shr", "shl"} -> [imm |-> 0]
      [] opcode = "ldlh" -> [hl |-> IF name = "ldch" THEN 1 ELSE 0]
      [] OTHER -> NoFields

\* What a reading writes over the bits of an instruction.
Named(instruction, name, reading) ==
    LET row == [opcode |-> reading[1].opcode, cf |-> reading[1].cf, condition |-> reading[2]]
    IN  Over(Direction(name, reading[1].opcode), Over(row, instruction))

-----------------------------------------------------------------------------
(* read_argument, check_register, check_extra.                             *)

\* An argument is known by its form: "r" and a number, a number, a word of
\* letters and digits, or a text with other characters.  A word that begins
\* with "r" and is no register is of the last form: it cannot be a symbol.
Argument == [form: {"register", "number", "word", "other"}, number: Int, word: STRING]

BugReadArgument(argument) ==
    CASE argument.form = "register" /\ argument.number < 10 ->
            [type |-> "register", value |-> argument.number]
      [] argument.form = "number" -> [type |-> "immediate", value |-> argument.number]
      [] argument.form = "word" /\ argument.word \in DOMAIN SpecialRegisters ->
            [type |-> "register", value |-> SpecialRegisters[argument.word]]
      [] argument.form = "word" /\ argument.word \in DOMAIN Extras ->
            [type |-> "extra", value |-> Extras[argument.word]]
      [] argument.form = "word" /\ argument.word \notin DOMAIN SpecialRegisters \cup DOMAIN Extras ->
            [type |-> "symbol", value |-> 0]
      [] OTHER -> [type |-> "error", value |-> 0]
ReadArgument(argument) ==
    CASE argument.form = "register" /\ argument.number \in General ->
            [type |-> "register", value |-> argument.number]
      [] argument.form = "number" -> [type |-> "immediate", value |-> argument.number]
      [] argument.form = "word" /\ argument.word \in DOMAIN SpecialRegisters ->
            [type |-> "register", value |-> SpecialRegisters[argument.word]]
      [] argument.form = "word" /\ argument.word \in DOMAIN Extras ->
            [type |-> "extra", value |-> Extras[argument.word]]
      [] argument.form = "word" /\ argument.word \notin DOMAIN SpecialRegisters \cup DOMAIN Extras ->
            [type |-> "symbol", value |-> 0]
      [] OTHER -> [type |-> "error", value |-> 0]

Read(args, k) ==
    IF k \in DOMAIN args THEN ReadArgument(args[k]) ELSE [type |-> "none", value |-> 0]
TypesOf(args, n) == [k \in 1 .. n |-> Read(args, k).type]

-----------------------------------------------------------------------------
(* get_instruction.                                                        *)

\* How many values the operand fields have in the format of an opcode.
RegisterValues(opcode, field) ==
    IF opcode \in {"io", "int"} \/ (opcode = "ldlh" /\ field = "dst") THEN 16 ELSE 32
ImmediateValues(opcode) ==
    CASE opcode \in Arithmetic -> 2 ^ 18
      [] opcode = "ldst" -> 2 ^ 10
      [] opcode = "call" -> 2 ^ 19
      [] opcode = "ldlh" -> Half
      [] OTHER -> 32
Immediate(opcode, v) ==
    IF opcode = "mov" THEN v % ImmediateValues(opcode) ELSE InField(v, ImmediateValues(opcode))

\* The immediate of a symbol is cleared, for a call and a half word through
\* the field of another format, which leaves some bits.
Cleared(opcode, old) ==
    CASE opcode = "call" -> old % 2
      [] opcode = "ldlh" -> old - 4 * ((old \div 4) % 32)
      [] OTHER -> 0

RegisterField(opcode, args, field, k) ==
    Field(field, Read(args, k).value % RegisterValues(opcode, field))
ImmediateField(instruction, args, k, defined) ==
    LET opcode == instruction.opcode
    IN  CASE Read(args, k).type = "immediate" ->
                Field("imm", Immediate(opcode, Read(args, k).value))
          [] Read(args, k).type = "symbol" /\ (defined \/ opcode = "ldst") ->
                Field("imm", Cleared(opcode, instruction.imm))
          [] OTHER -> NoFields

\* The operand fields a line sets.  An operand that has no meaning in its
\* place leaves the fields as they are, and so does a symbol that is not
\* defined, except in a load or store.  The operand of "int" is stored as its
\* type, which is 0.
Operands(instruction, args, defined) ==
    LET opcode == instruction.opcode
        register(field, k) == RegisterField(opcode, args, field, k)
        immediate(k) == ImmediateField(instruction, args, k, defined)
        both == Over(register("dst", 1), register("src", 2))
        types == TypesOf(args, 4)
        twoRegisters == types[1] = "register" /\ types[2] = "register"
        registerAndNumber == types[1] = "register" /\ types[2] \in {"immediate", "symbol"}
    IN  CASE opcode = "int" ->
                IF types[1] = "immediate" \/ (types[1] = "symbol" /\ defined)
                THEN Field("src", 0) ELSE NoFields
          [] opcode \in Arithmetic /\ twoRegisters -> Over(Field("direct", 0), both)
          [] opcode \in Arithmetic /\ registerAndNumber ->
                Over(Field("direct", 1), Over(register("dst", 1), immediate(2)))
          [] opcode \in Logic \cup {"io"} /\ twoRegisters -> both
          [] opcode = "ldst" /\ twoRegisters ->
                Over(IF types[4] \in {"extra", "none"} THEN Field("f", Read(args, 4).value)
                     ELSE NoFields,
                     Over(both, immediate(3)))
          [] opcode \in {"call", "ldlh"} /\ registerAndNumber ->
                Over(register("dst", 1), immediate(2))
          [] opcode = "mov" /\ twoRegisters /\ types[3] \in {"immediate", "symbol", "none"} ->
                Over(both, IF types[3] = "none" THEN Field("imm", 0) ELSE immediate(3))
          [] OTHER -> NoFields

WithOperands(instruction, args, defined) ==
    Over(Operands(instruction, args, defined), instruction)

-----------------------------------------------------------------------------
(* "ldc", which nas.c writes as two words, and what the processor makes of *)
(* them.                                                                   *)

Atoi(args, k) ==
    IF k \in DOMAIN args /\ args[k].form \in {"number", "other"} THEN args[k].number ELSE 0
HalfWord(instruction, args, high, c) ==
    Over([opcode |-> "ldlh", condition |-> NoCondition, cf |-> 0, hl |-> high,
          dst |-> Read(args, 1).value % RegisterValues("ldlh", "dst"),
          imm |-> Immediate("ldlh", c)],
         instruction)
BugConstantWords(instruction, args) ==
    <<HalfWord(instruction, args, 1, Atoi(args, 2) \div Half + 1),
      HalfWord(instruction, args, 0, Atoi(args, 2))>>
ConstantWords(instruction, args) ==
    <<HalfWord(instruction, args, 1, Atoi(args, 2) \div Half),
      HalfWord(instruction, args, 0, Atoi(args, 2))>>

\* OP_LDCH: one half of the register is replaced.
LoadHalf(instruction, old) ==
    IF instruction.hl = 1 THEN Join(instruction.imm, LowHalf(old))
    ELSE Join(HighHalf(old), instruction.imm)
=============================================================================
