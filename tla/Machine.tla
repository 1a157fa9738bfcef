------------------------------ MODULE Machine ------------------------------
(***************************************************************************)
(* The emulated processor: the loop of nas_run/nas_run.c that fetches an   *)
(* instruction, looks at the clock, and executes.  One action is one round *)
(* of the loop.                                                            *)
(*                                                                         *)
(* Memory is a function on the addresses of words; a word is a number or   *)
(* an instruction.  A round that leaves this picture (an address that is   *)
(* no word's, a number fetched, an instruction read as data) makes the     *)
(* stage "wild".  The clock may tick at any instruction; MaxTicks bounds   *)
(* the interrupts.                                                         *)
(***************************************************************************)
EXTENDS Instruction, SequencesExt

CONSTANTS
    Images,                 \* loaded memories, as the loader leaves them
    IoSize,                 \* length of io_memory
    InputPort, OutputPort,  \* 0x1000 and 0x2000
    Characters,             \* what getchar may return
    MaxTicks

ASSUME MachineAssumption ==
    /\ IoSize \in Nat /\ MaxTicks \in Nat
    /\ {InputPort, OutputPort} \subseteq 0 .. IoSize - 1
    /\ Characters \subseteq Words

RegisterFile == 0 .. PSW
WordBytes == 4
InstructionBytes == 4
TimerVector == WordBytes        \* start_ivt + sizeof(uint32_t) * 1
Shifts == 0 .. 31

\* The words of memory.
Number(n) == [type |-> "number", number |-> n]
Code(i) == [type |-> "code", instruction |-> i]

\* What the assembler makes of well formed lines: operands are registers that
\* exist, and a shift is by less than a word.
Instructions ==
    {i \in [opcode: Opcodes, cf: {0, 1}, condition: 0 .. NoCondition,
            dst: RegisterFile, src: RegisterFile, imm: Int, direct: {0, 1}, f: 0 .. 7,
            ls: {0, 1}, io: {0, 1}, lr: {0, 1}, hl: {0, 1}] :
        i.opcode = "mov" => i.imm \in Shifts}
MemoryWords ==
    [type: {"number"}, number: Words] \cup [type: {"code"}, instruction: Instructions]

\* load_instructions: the boot routine clears the status word and goes to
\* main; a call of 32767 ends the run.
Always(opcode, fields) ==
    Over(fields, Over([condition |-> NoCondition], Uninitialised(opcode, 0)))
BootRoutine ==
    <<Always("ldlh", [dst |-> 0, imm |-> 0, hl |-> 1]),
      Always("ldlh", [dst |-> 0, imm |-> 0, hl |-> 0]),
      Always("mov", [dst |-> PSW, src |-> 0]),
      Always("mov", [dst |-> PC, src |-> LR])>>
EndInstruction == Always("call", [dst |-> 0, imm |-> 32767])

\* The stack begins behind the boot routine.
StackStart(loaded) == loaded.boot + InstructionBytes * Len(BootRoutine)

\* All of memory, and the word behind it, have addresses.
ASSUME ImagesAssumption ==
    \A loaded \in Images :
        /\ DOMAIN loaded.memory \subseteq 0 .. Modulus \div 2 - 1 - WordBytes
        /\ loaded.memory \in [DOMAIN loaded.memory -> MemoryWords]
        /\ TimerVector \in DOMAIN loaded.memory
        /\ loaded.memory[TimerVector].type = "number"
        /\ loaded.boot \in Nat /\ StackStart(loaded) \in Words
        /\ loaded.main \in Words

VARIABLES
    image,             \* what was loaded
    registers,
    memory,            \* memory_buffer
    io_memory,
    evaluated_logic,   \* the last comparison
    stage,             \* "run", or how the loop was left
    ticks,             \* timer interrupts so far, to bound them
    entered,           \* auxiliary: the routines entered and not left
    returned,          \* auxiliary: status saved and got by the last return
    unmatched,         \* auxiliary: the returns with no routine entered
    disturbed          \* auxiliary: an interrupt hit a jump or a routine

processor == <<registers, memory, io_memory, evaluated_logic>>
vars == <<image, registers, memory, io_memory, evaluated_logic, stage, ticks,
          entered, returned, unmatched, disturbed>>

Init ==
    /\ image \in Images
    /\ registers = [r \in RegisterFile |->
                      CASE r = PC -> image.boot
                        [] r = LR -> image.main
                        [] r = SP -> StackStart(image)
                        [] OTHER -> 0]
    /\ memory = image.memory
    /\ io_memory = [port \in 0 .. IoSize - 1 |-> 0]
    /\ evaluated_logic = NoCondition
    /\ stage = "run"
    /\ ticks = 0
    /\ entered = << >>
    /\ returned = << >>
    /\ unmatched = 0
    /\ disturbed = FALSE

-----------------------------------------------------------------------------
(* Fetch, timer and condition.                                             *)

HasNumber(bytes, address) == address \in DOMAIN bytes /\ bytes[address].type = "number"

Fetches == registers[PC] \in DOMAIN memory /\ memory[registers[PC]].type = "code"
Fetched == memory[registers[PC]].instruction

\* Whatever its condition and flag.
Ends(i) == i.opcode = "call" /\ i.dst = EndInstruction.dst /\ i.imm = EndInstruction.imm

TimerEnabled == (Unsigned(registers[PSW]) \div (Modulus \div 4)) % 2 = 1
Ticks == IF TimerEnabled /\ ticks < MaxTicks THEN BOOLEAN ELSE {FALSE}
Handler == memory[TimerVector].number
Handled(tick) == tick /\ Handler # 0
CanTick(tick) == Handled(tick) => registers[SP] \in DOMAIN memory

\* A store of registers and memory, in which an instruction executes.
Push(m) ==
    [m EXCEPT !.memory[m.registers[SP]] = Number(m.registers[PSW]),
              !.registers[SP] = Signed(@ + WordBytes)]
Set(m, r, v) == [m EXCEPT !.registers[r] = Signed(v)]

\* After the fetch, and the interrupt if the clock ticked: the fetched
\* instruction will still execute, with the program counter at the handler.
\* Without a handler r1 counts.
Advanced ==
    Set([registers |-> registers, memory |-> memory], PC, registers[PC] + InstructionBytes)
BugInterrupted(tick) ==
    CASE Handled(tick) ->
            Set(Set(Push(Advanced), LR, registers[PC]), PC, Handler)
      [] tick /\ ~Handled(tick) -> Set(Advanced, 1, registers[1] + 1)
      [] OTHER -> Advanced
Interrupted(tick) ==
    CASE Handled(tick) ->
            Set(Set(Push(Advanced), LR, Advanced.registers[PC]), PC, Handler)
      [] tick /\ ~Handled(tick) -> Set(Advanced, 1, registers[1] + 1)
      [] OTHER -> Advanced

\* A condition that the last comparison does not meet.  "gt" is never met,
\* "ge" by all but an unequal comparison, and the later ones always.
Skips(i) ==
    \/ i.condition = 0 /\ evaluated_logic # 0
    \/ i.condition = 1 /\ evaluated_logic = 0
    \/ i.condition = 2
    \/ i.condition = 3 /\ evaluated_logic \in {-1, 1}

-----------------------------------------------------------------------------
(* Operations.                                                             *)

\* C division truncates.
Abs(a) == IF a < 0 THEN -a ELSE a
Quotient(a, b) ==
    IF (a >= 0) = (b > 0) THEN Abs(a) \div Abs(b) ELSE -(Abs(a) \div Abs(b))

SecondOperand(file, i) == IF i.direct = 1 THEN i.imm ELSE file[i.src]
Computed(file, i) ==
    LET a == file[i.dst]
        b == SecondOperand(file, i)
    IN  CASE i.opcode = "add" -> a + b
          [] i.opcode = "sub" -> a - b
          [] i.opcode = "mul" -> a * b
          [] i.opcode = "div" -> Quotient(a, b)
\* Bitwise conjunction, from the weight of the highest bit down.
BitAnd(a, b) ==
    LET from[weight \in 0 .. Modulus - 1] ==
            IF weight = 0 THEN 0
            ELSE from[weight \div 2] + weight * (((a \div weight) % 2) * ((b \div weight) % 2))
    IN  from[Modulus \div 2]
BitOr(a, b) == a + b - BitAnd(a, b)
Combined(file, i) ==
    LET a == Unsigned(file[i.dst])
        b == Unsigned(file[i.src])
    IN  CASE i.opcode \in {"and", "test"} -> Signed(BitAnd(a, b))
          [] i.opcode = "or" -> Signed(BitOr(a, b))
          [] i.opcode = "not" -> Signed(-1 - b)
PowerOfTwo[n \in Shifts] == IF n = 0 THEN 1 ELSE 2 * PowerOfTwo[n - 1]
Shifted(v, i) ==
    CASE i.imm = 0 -> v
      [] i.imm # 0 /\ i.lr = 1 -> Signed(v * PowerOfTwo[i.imm])
      [] i.imm # 0 /\ i.lr = 0 -> v \div PowerOfTwo[i.imm]

\* psw_t: z, o, c and n are the low bits.  o and c are the same condition.
Flag(b, bit) == IF b THEN bit ELSE 0
Status(i, psw, e) ==
    LET u == Unsigned(psw)
        z == Flag(Signed(e) = 0, 1)
        n == Flag(e < 0, 8)
    IN  CASE i.cf = 1 /\ i.opcode \in {"add", "sub", "cmp"} ->
                Signed(u - (u % 16) + z + Flag(e \notin Words, 2 + 4) + n)
          [] i.cf = 1 /\ i.opcode \in {"mul", "div"} \cup Logic ->
                Signed(u - (u % 16) + z + ((u % 8) - (u % 2)) + n)
          [] OTHER -> psw

\* The address of a load or store, and its base register before and after.
Before(i) == CASE i.f = Extras.preinc -> WordBytes [] i.f = Extras.predec -> -WordBytes [] OTHER -> 0
Behind(i) == CASE i.f = Extras.postinc -> WordBytes [] i.f = Extras.postdec -> -WordBytes [] OTHER -> 0
Address(file, i) == Signed(file[i.src] + Before(i)) + i.imm

\* Words that an instruction reads as numbers, and words it writes.
Reads(file, i) ==
    CASE i.opcode = "int" -> {file[i.src]}
      [] i.opcode = "ldst" /\ i.ls = 1 -> {Address(file, i)}
      [] i.opcode = "mov" /\ i.dst = PC -> {file[SP]}
      [] OTHER -> {}
Writes(file, i) ==
    CASE i.opcode = "int" \/ (i.opcode = "call" /\ i.cf = 0) -> {file[SP]}
      [] i.opcode = "ldst" /\ i.ls = 0 -> {Address(file, i)}
      [] OTHER -> {}
Stays(m, i) ==
    /\ \A address \in Reads(m.registers, i) : HasNumber(m.memory, address)
    /\ Writes(m.registers, i) \subseteq DOMAIN m.memory
    /\ i.opcode = "io" => m.registers[i.src] \in DOMAIN io_memory

-----------------------------------------------------------------------------
(* Rounds of the loop.                                                     *)

Jumps(i) == i.opcode \in {"int", "call"} \/ (i.opcode = "mov" /\ i.dst = PC)

Routine(psw, saved) == [psw |-> psw, saved |-> saved]
EnteredBy(tick) ==
    IF Handled(tick) THEN Append(entered, Routine(registers[PSW], TRUE)) ELSE entered

Observe(tick, jumps) ==
    /\ ticks' = IF tick THEN ticks + 1 ELSE ticks
    /\ disturbed' = (disturbed \/ (Handled(tick) /\ (jumps \/ entered # << >>)))
    /\ UNCHANGED image

Round(tick) == stage = "run" /\ Fetches /\ tick \in Ticks /\ CanTick(tick) /\ ~Ends(Fetched)
Executes(tick, opcodes) ==
    /\ Round(tick)
    /\ ~Skips(Fetched)
    /\ Fetched.opcode \in opcodes
    /\ Stays(Interrupted(tick), Fetched)
Continue(tick, m) ==
    /\ registers' = m.registers
    /\ memory' = m.memory
    /\ UNCHANGED <<stage>>
    /\ Observe(tick, Jumps(Fetched))
Straight(tick) == entered' = EnteredBy(tick) /\ returned' = << >> /\ UNCHANGED unmatched

Skip ==
    \E tick \in BOOLEAN :
        /\ Round(tick)
        /\ Skips(Fetched)
        /\ registers' = Interrupted(tick).registers
        /\ memory' = Interrupted(tick).memory
        /\ Observe(tick, FALSE)
        /\ Straight(tick)
        /\ UNCHANGED <<io_memory, evaluated_logic, stage>>

\* OP_ADD, OP_SUB, OP_MUL, OP_DIV.
BugCompute ==
    \E tick \in BOOLEAN :
        LET i == Fetched
            m == Interrupted(tick)
            e == Computed(m.registers, i)
        IN  /\ Executes(tick, Arithmetic \ {"cmp"})
            /\ i.opcode = "div" => SecondOperand(m.registers, i) # 0
            /\ Continue(tick, Set([m EXCEPT !.registers[i.dst] = e], PSW,
                                  Status(i, m.registers[PSW], e)))
            /\ Straight(tick)
            /\ UNCHANGED <<io_memory, evaluated_logic>>
Compute ==
    \E tick \in BOOLEAN :
        LET i == Fetched
            m == Interrupted(tick)
            e == Computed(m.registers, i)
            result == Set(m, i.dst, e)
        IN  /\ Executes(tick, Arithmetic \ {"cmp"})
            /\ i.opcode = "div" => SecondOperand(m.registers, i) # 0
            /\ Continue(tick, Set(result, PSW, Status(i, result.registers[PSW], e)))
            /\ Straight(tick)
            /\ UNCHANGED <<io_memory, evaluated_logic>>

\* SIGFPE.
DivideByZero ==
    \E tick \in BOOLEAN :
        /\ Executes(tick, {"div"})
        /\ SecondOperand(Interrupted(tick).registers, Fetched) = 0
        /\ stage' = "crashed"
        /\ Observe(tick, FALSE)
        /\ UNCHANGED <<processor, entered, returned, unmatched>>

\* OP_CMP: with the flag, the status is that of the operand.
Compare ==
    \E tick \in BOOLEAN :
        LET i == Fetched
            m == Interrupted(tick)
            e == SecondOperand(m.registers, i)
            a == m.registers[i.dst]
        IN  /\ Executes(tick, {"cmp"})
            /\ evaluated_logic' = IF a = e THEN 0 ELSE IF a > e THEN 1 ELSE -1
            /\ Continue(tick, Set(m, PSW, Status(i, m.registers[PSW], e)))
            /\ Straight(tick)
            /\ UNCHANGED io_memory

\* OP_AND, OP_OR, OP_NOT, OP_TEST.
Combine ==
    \E tick \in BOOLEAN :
        LET i == Fetched
            m == Interrupted(tick)
            e == Combined(m.registers, i)
            result == IF i.opcode = "test" THEN m ELSE Set(m, i.dst, e)
        IN  /\ Executes(tick, Logic)
            /\ Continue(tick, Set(result, PSW, Status(i, result.registers[PSW], e)))
            /\ Straight(tick)
            /\ UNCHANGED <<io_memory, evaluated_logic>>

\* OP_IN, OP_OUT.
Input ==
    \E tick \in BOOLEAN, c \in Characters :
        LET i == Fetched
            m == Interrupted(tick)
            port == m.registers[i.src]
        IN  /\ Executes(tick, {"io"})
            /\ i.io = 1
            /\ io_memory' = IF port = InputPort THEN [io_memory EXCEPT ![port] = c] ELSE io_memory
            /\ Continue(tick, Set(m, i.dst, io_memory'[port]))
            /\ Straight(tick)
            /\ UNCHANGED evaluated_logic
Output ==
    \E tick \in BOOLEAN :
        LET i == Fetched
            m == Interrupted(tick)
        IN  /\ Executes(tick, {"io"})
            /\ i.io = 0
            /\ io_memory' = [io_memory EXCEPT ![m.registers[i.src]] = m.registers[i.dst]]
            /\ Continue(tick, m)
            /\ Straight(tick)
            /\ UNCHANGED evaluated_logic

\* OP_LDR, OP_STR.
LoadOrStore ==
    \E tick \in BOOLEAN :
        LET i == Fetched
            m == Interrupted(tick)
            base == Set(m, i.src, m.registers[i.src] + Before(i))
            address == Address(m.registers, i)
            moved == IF i.ls = 1 THEN Set(base, i.dst, base.memory[address].number)
                     ELSE [base EXCEPT !.memory[address] = Number(base.registers[i.dst])]
        IN  /\ Executes(tick, {"ldst"})
            /\ Continue(tick, Set(moved, i.src, moved.registers[i.src] + Behind(i)))
            /\ Straight(tick)
            /\ UNCHANGED <<io_memory, evaluated_logic>>

\* OP_CALL: only without the flag the status is pushed.
Call ==
    \E tick \in BOOLEAN :
        LET i == Fetched
            m == Interrupted(tick)
            saved == IF i.cf = 0 THEN Push(m) ELSE m
            linked == Set(saved, LR, m.registers[PC])
        IN  /\ Executes(tick, {"call"})
            /\ Continue(tick, Set(linked, PC, linked.registers[i.dst] + i.imm))
            /\ entered' = Append(EnteredBy(tick), Routine(m.registers[PSW], i.cf = 0))
            /\ returned' = << >>
            /\ UNCHANGED <<io_memory, evaluated_logic, unmatched>>

\* OP_INT: the register holds the offset of the vector.
SoftwareInterrupt ==
    \E tick \in BOOLEAN :
        LET i == Fetched
            m == Interrupted(tick)
            linked == Set(Push(m), LR, m.registers[PC])
        IN  /\ Executes(tick, {"int"})
            /\ Continue(tick, Set(linked, PC, linked.memory[m.registers[i.src]].number))
            /\ entered' = Append(EnteredBy(tick), Routine(m.registers[PSW], TRUE))
            /\ returned' = << >>
            /\ UNCHANGED <<io_memory, evaluated_logic, unmatched>>

\* OP_MOV, OP_SHR, OP_SHL.
Move ==
    \E tick \in BOOLEAN :
        LET i == Fetched
            m == Interrupted(tick)
            e == Shifted(m.registers[i.src], i)
        IN  /\ Executes(tick, {"mov"})
            /\ i.dst # PC
            /\ Continue(tick, Set(m, i.dst, e))
            /\ Straight(tick)
            /\ UNCHANGED <<io_memory, evaluated_logic>>

\* A move to the program counter pops the status word: it takes the word at
\* the stack pointer, which is above the one pushed last, and then steps
\* back.
BugReturn ==
    \E tick \in BOOLEAN :
        LET i == Fetched
            m == Interrupted(tick)
            e == Shifted(m.registers[i.src], i)
            frames == EnteredBy(tick)
            psw == m.memory[m.registers[SP]].number
        IN  /\ Executes(tick, {"mov"})
            /\ i.dst = PC
            /\ Continue(tick, Set(Set(Set(m, PC, e), PSW, psw), SP, m.registers[SP] - 2 * WordBytes))
            /\ entered' = IF frames = << >> THEN frames ELSE Front(frames)
            /\ returned' = IF frames = << >> \/ ~Last(frames).saved THEN << >>
                           ELSE <<Last(frames).psw, psw>>
            /\ unmatched' = IF frames = << >> THEN unmatched + 1 ELSE unmatched
            /\ UNCHANGED <<io_memory, evaluated_logic>>
Return ==
    \E tick \in BOOLEAN :
        LET i == Fetched
            m == Interrupted(tick)
            e == Shifted(m.registers[i.src], i)
            frames == EnteredBy(tick)
            psw == m.memory[m.registers[SP]].number
        IN  /\ Executes(tick, {"mov"})
            /\ i.dst = PC
            /\ Continue(tick, Set(Set(Set(m, PC, e), PSW, psw), SP, m.registers[SP] - WordBytes))
            /\ entered' = IF frames = << >> THEN frames ELSE Front(frames)
            /\ returned' = IF frames = << >> \/ ~Last(frames).saved THEN << >>
                           ELSE <<Last(frames).psw, psw>>
            /\ unmatched' = IF frames = << >> THEN unmatched + 1 ELSE unmatched
            /\ UNCHANGED <<io_memory, evaluated_logic>>

\* OP_LDCH, OP_LDCL; and the opcode that no instruction has.
LoadHalfWord ==
    \E tick \in BOOLEAN :
        LET i == Fetched
            m == Interrupted(tick)
        IN  /\ Executes(tick, {"ldlh"})
            /\ Continue(tick, Set(m, i.dst, LoadHalf(i, m.registers[i.dst])))
            /\ Straight(tick)
            /\ UNCHANGED <<io_memory, evaluated_logic>>
NoOperation ==
    \E tick \in BOOLEAN :
        /\ Executes(tick, {"0xB"})
        /\ Continue(tick, Interrupted(tick))
        /\ Straight(tick)
        /\ UNCHANGED <<io_memory, evaluated_logic>>

EndRun ==
    \E tick \in Ticks :
        /\ stage = "run" /\ Fetches /\ CanTick(tick)
        /\ Ends(Fetched)
        /\ stage' = "ended"
        /\ registers' = Interrupted(tick).registers
        /\ memory' = Interrupted(tick).memory
        /\ Observe(tick, FALSE)
        /\ Straight(tick)
        /\ UNCHANGED <<io_memory, evaluated_logic>>

LoseControl ==
    \E tick \in BOOLEAN :
        /\ stage = "run"
        /\ tick \in Ticks
        /\ \/ ~Fetches
           \/ Fetches /\ ~CanTick(tick)
           \/ Round(tick) /\ ~Skips(Fetched) /\ ~Stays(Interrupted(tick), Fetched)
        /\ stage' = "wild"
        /\ Observe(tick, FALSE)
        /\ UNCHANGED <<processor, entered, returned, unmatched>>

Stopped == stage # "run" /\ UNCHANGED vars

Next ==
    \/ Skip \/ Compute \/ DivideByZero \/ Compare \/ Combine \/ Input \/ Output
    \/ LoadOrStore \/ Call \/ SoftwareInterrupt \/ Move \/ Return \/ LoadHalfWord
    \/ NoOperation \/ EndRun \/ LoseControl \/ Stopped

Spec == Init /\ [][Next]_vars
-----------------------------------------------------------------------------
TypeOK ==
    /\ registers \in [RegisterFile -> Words]
    /\ memory \in [DOMAIN image.memory -> MemoryWords]
    /\ io_memory \in [0 .. IoSize - 1 -> Words]
    /\ evaluated_logic \in {-1, 0, 1, NoCondition}
    /\ stage \in {"run", "ended", "crashed", "wild"}
    /\ ticks \in 0 .. MaxTicks
    /\ entered \in Seq([psw: Words, saved: BOOLEAN])
    /\ returned \in {<< >>} \cup (Words \X Words)
    /\ unmatched \in Nat
    /\ disturbed \in BOOLEAN
=============================================================================
