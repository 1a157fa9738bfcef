------------------------------ MODULE Encoder ------------------------------
(***************************************************************************)
(* One instruction line on its way from text to words: get_instruction of  *)
(* nas/as.c and the case LINE_TYPE_INSTRUCTION of the second pass.  The    *)
(* union starts uninitialised, and each step writes some of its bits.      *)
(***************************************************************************)
EXTENDS Instruction

CONSTANT InstructionLines     \* the lines considered, of a name and arguments

ASSUME LinesAssumption ==
    InstructionLines \subseteq [name: STRING, args: Seq(Argument)]

VARIABLES
    line,
    instruction,
    words,            \* what goes to the buffer
    step              \* "operation", "operands", "write" or "done"

vars == <<line, instruction, words, step>>

-----------------------------------------------------------------------------

Init ==
    /\ line \in InstructionLines
    /\ \E bit \in {0, 1} : instruction = Uninitialised("0xB", bit)
    /\ words = << >>
    /\ step = "operation"

ReadOperation ==
    /\ step = "operation"
    /\ \E reading \in Readings(line.name) : instruction' = Named(instruction, line.name, reading)
    /\ step' = "operands"
    /\ UNCHANGED <<line, words>>

\* No row matches: the operation is whatever the bits were.
UnknownOperation ==
    /\ step = "operation"
    /\ Readings(line.name) = {}
    /\ \E opcode \in Opcodes : instruction' = [instruction EXCEPT !.opcode = opcode]
    /\ step' = "operands"
    /\ UNCHANGED <<line, words>>

ReadOperands ==
    /\ step = "operands"
    /\ \E defined \in BOOLEAN : instruction' = WithOperands(instruction, line.args, defined)
    /\ step' = "write"
    /\ UNCHANGED <<line, words>>

WriteInstruction ==
    /\ step = "write"
    /\ words' = IF line.name = "ldc" THEN ConstantWords(instruction, line.args)
                ELSE <<instruction>>
    /\ step' = "done"
    /\ UNCHANGED <<line, instruction>>

Next == ReadOperation \/ UnknownOperation \/ ReadOperands \/ WriteInstruction

Spec == Init /\ [][Next]_vars

-----------------------------------------------------------------------------
(* What the words mean to the processor.                                   *)

Reading == CHOOSE reading \in Readings(line.name) : TRUE
Written == step = "done" /\ line.name # "ldc" /\ Readings(line.name) # {}

\* What an argument means, by its text alone.
Means(argument) ==
    CASE argument.form \in {"register", "number"} -> argument.number
      [] argument.form = "word" /\ argument.word \in DOMAIN SpecialRegisters ->
            SpecialRegisters[argument.word]
      [] argument.form = "word" /\ argument.word \in DOMAIN Extras -> Extras[argument.word]
      [] OTHER -> 0
IsRegister(argument) ==
    \/ argument.form = "register" /\ argument.number \in General
    \/ argument.form = "word" /\ argument.word \in DOMAIN SpecialRegisters
IsExtra(argument) == argument.form = "word" /\ argument.word \in DOMAIN Extras

\* What an operation takes for a register: "int" has the number of the one
\* with the vector's offset (get_instruction reads no register there).
NamesRegister(opcode, argument) ==
    IF opcode = "int" THEN argument.form = "number" ELSE IsRegister(argument)

\* The operands that each operation reads, as fields in the order of the text.
Signature(opcode, args) ==
    CASE opcode \in Arithmetic ->
            IF Len(args) > 1 /\ IsRegister(args[2]) THEN <<"dst", "src">> ELSE <<"dst", "imm">>
      [] opcode \in {"call", "ldlh"} -> <<"dst", "imm">>
      [] opcode = "ldst" -> <<"dst", "src", "imm", "f">>
      [] opcode = "mov" -> <<"dst", "src", "imm">>
      [] opcode = "int" -> <<"src">>
      [] OTHER -> <<"dst", "src">>
MayLack(opcode, field) == field = "f" \/ (opcode = "mov" /\ field = "imm")

\* An argument that the field of the format can hold.
Holds(opcode, field, argument) ==
    CASE field \in {"dst", "src"} ->
            /\ NamesRegister(opcode, argument)
            /\ Means(argument) \in 0 .. RegisterValues(opcode, field) - 1
      [] field = "f" -> IsExtra(argument)
      [] field = "imm" /\ opcode = "mov" -> argument.form = "number" /\ argument.number \in 0 .. 31
      [] OTHER -> /\ argument.form = "number"
                  /\ InField(argument.number, ImmediateValues(opcode)) = argument.number

WellFormed(opcode, args) ==
    LET fields == Signature(opcode, args)
    IN  \A k \in DOMAIN fields :
            IF k \in DOMAIN args THEN Holds(opcode, fields[k], args[k])
            ELSE MayLack(opcode, fields[k])
Carries(word, args) ==
    LET fields == Signature(word.opcode, args)
    IN  /\ \A k \in DOMAIN fields :
              word[fields[k]] = IF k \in DOMAIN args THEN Means(args[k]) ELSE 0
        /\ word.opcode \in Arithmetic => (word.direct = 0 <=> fields[2] = "src")

\* The processor finds in the word of a well formed line, of any operation but
\* a software interrupt (see LinesCompiled), exactly the registers, numbers and side effects that
\* the line names: the assembler reads the general registers up to r11 and the
\* special ones, puts each into the field of the operation's own format, and
\* leaves no uninitialised bits behind in the field of an operand that the
\* line may leave out.
OperandsSurvive ==
    Written /\ words[1].opcode # "int" /\ WellFormed(words[1].opcode, line.args) =>
        Carries(words[1], line.args)

\* The parts of LinesCompiled: the operand of a software interrupt is in its
\* word (as.c:61 stores the argument's type there, 0 for every number); r0 to
\* r15 are registers, as at as.c:299 (r12 to r15 are errors of which nobody is
\* told, and the fields keep their uninitialised bits); and the bit that tells
\* a load from a store, an input from an output, the shifts and the halves of a
\* word, of which as.c:250 and instruction.h:143 speak, is that of the mnemonic
\* whatever flag and condition follow it (the tests from as.c:252 on have their
\* arguments the other way round, so that "ldreq" stores).
InterruptCompiled ==
    words[1].opcode = "int" /\ WellFormed("int", line.args) => Carries(words[1], line.args)

DocumentedRegister(argument) == argument.form = "register" /\ argument.number \in 0 .. 15
RegistersCompiled ==
    /\ words[1].opcode \in Arithmetic \cup Logic
    /\ Len(line.args) = 2 /\ \A k \in 1 .. 2 : DocumentedRegister(line.args[k])
    => words[1].dst = line.args[1].number /\ words[1].src = line.args[2].number

DirectionBit ==
    [ldr |-> <<"ls", 1>>, str |-> <<"ls", 0>>, in |-> <<"io", 1>>, out |-> <<"io", 0>>,
     shr |-> <<"lr", 0>>, shl |-> <<"lr", 1>>, ldch |-> <<"hl", 1>>, ldcl |-> <<"hl", 0>>]
DirectionCompiled ==
    \A m \in DOMAIN DirectionBit :
        Reading[1].name \in {m, m \o "s"} =>
            words[1][DirectionBit[m][1]] = DirectionBit[m][2]

\* The comment at nas.c:171 says that each instruction is compiled: what a line
\* names by the documented rules is in the word written for it.  The code
\* breaks each of the three parts.
LinesCompiled == Written => InterruptCompiled /\ RegistersCompiled /\ DirectionCompiled

\* The two words of "ldc" put the whole constant into the register named,
\* whatever it held, whatever the condition bits were before, and also where
\* the lower half is negative and must not carry into the upper one.
ConstantsWhole ==
    step = "done" /\ line.name = "ldc" /\ TypesOf(line.args, 2) = <<"register", "immediate">>
    /\ line.args[1].form = "register" /\ line.args[2].number \in Words =>
        /\ \A k \in 1 .. 2 : /\ words[k].opcode = "ldlh" /\ words[k].condition = NoCondition
                             /\ words[k].dst = line.args[1].number
        /\ \A old \in Words : LoadHalf(words[2], LoadHalf(words[1], old)) = line.args[2].number
=============================================================================
