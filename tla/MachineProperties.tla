------------------------- MODULE MachineProperties -------------------------
(***************************************************************************)
(* What a program can rely on while it runs.                               *)
(***************************************************************************)
EXTENDS Machine

InstructionsOf(loaded) ==
    {loaded.memory[a].instruction :
        a \in {b \in DOMAIN loaded.memory : loaded.memory[b].type = "code"}}

\* Programs that leave memory and the stack pointer to calls that save the
\* status, to interrupts and to returns.
Balanced(loaded) ==
    \A i \in InstructionsOf(loaded) :
        /\ i.opcode = "call" => i.cf = 0
        /\ i.opcode = "ldst" => i.ls = 1 /\ i.src # SP
        /\ i.opcode \notin {"int", "call"} => i.dst # SP

\* The stack lies directly behind the program and the boot routine.  Each
\* call, interrupt and return moves it by its word, also where an interrupt
\* hits a routine or a jump; only a return from nothing, as the last
\* instruction of the boot routine is one, takes it a word down into the
\* code.  What is below the lowest place it ever began at is as loaded.
StackSparesProgram ==
    LET bottom == StackStart(image) - WordBytes * unmatched
    IN  Balanced(image) =>
            /\ registers[SP] = bottom + WordBytes * Len(entered)
            /\ \A a \in DOMAIN memory : a < bottom => memory[a] = image.memory[a]

\* A program that ends has computed what it computes without a timer, and
\* each interrupt was served exactly once: by the handler, or by r1 where
\* there is none (one that hits the end instruction is lost).  An interrupt
\* comes between the fetch and the execution of an instruction, and that is
\* invisible unless it hits a jump, which then executes in place of the
\* handler, or a routine whose link register it overwrites; those runs are
\* excepted.
InterruptsServed ==
    stage = "ended" /\ ~disturbed =>
        /\ \A r \in DOMAIN image.result : registers[r] = image.result[r]
        /\ image.counter # << >> => registers[image.counter[1]] = ticks - Len(entered)

-----------------------------------------------------------------------------
(* A claim of a comment that the code does not keep.                       *)

\* "return psw from stack" (nas_run/nas_run.c:571): a return restores the
\* status word that the call or interrupt had put on the stack.
StatusRestored == returned # << >> => returned[1] = returned[2]
=============================================================================
