----------------------------- MODULE MCMachine -----------------------------
(***************************************************************************)
(* Loaded programs for the model checker.  A program is a sequence of      *)
(* lines, encoded by the operators of the assembler from the first word    *)
(* behind two vectors on, with its operands already relocated.             *)
(***************************************************************************)
EXTENDS MachineProperties

CONSTANTS StackWords, Garbage   \* words above the boot routine, and what they hold

Reg(n) == [form |-> "register", number |-> n, word |-> ""]
Num(n) == [form |-> "number", number |-> n, word |-> ""]
Name(w) == [form |-> "word", number |-> 0, word |-> w]

Blank == Uninitialised("0xB", 0)
Assembled(line) ==
    LET reading == CHOOSE r \in Readings(line[1]) : TRUE
    IN  CASE line[1] = "ldc" -> ConstantWords(Blank, line[2])
          [] line[1] = "bogus" -> <<Uninitialised("0xB", 1)>>
          [] OTHER -> <<WithOperands(Named(Blank, line[1], reading), line[2], TRUE)>>

First == 2 * WordBytes
At(k) == First + WordBytes * k

\* What follows: the end instruction, the boot routine and the stack.
Load(lines, main, vector, garbage, result, counter) ==
    LET text == Append(FlattenSeq([k \in DOMAIN lines |-> Assembled(lines[k])]), EndInstruction)
        boot == At(Len(text))
        code == text \o BootRoutine
        word(k) == CASE k = 0 -> Number(boot)
                     [] k = 1 -> Number(vector)
                     [] k - 1 \in DOMAIN code -> Code(code[k - 1])
                     [] OTHER -> Number(garbage)
    IN  [memory |-> [a \in {WordBytes * k : k \in 0 .. Len(code) + 1 + StackWords}
                        |-> word(a \div WordBytes)],
         boot |-> boot, main |-> main, result |-> result, counter |-> counter]

TimerBit == Modulus \div 4
EnableTimer == << <<"ldc", <<Reg(0), Num(TimerBit)>> >>, <<"mov", <<Name("psw"), Reg(0)>> >> >>
ReturnLine == <<"mov", <<Name("pc"), Name("lr")>> >>
NoResult == [r \in {} |-> 0]

\* A loop-free main under a timer, with a handler that counts in r6.
Counting(vector, garbage, counter) ==
    Load(<< <<"add", <<Reg(6), Num(1)>> >>, ReturnLine >> \o EnableTimer \o
         << <<"add", <<Reg(5), Num(3)>> >>, <<"cmp", <<Reg(5), Num(3)>> >>,
            <<"muleq", <<Reg(5), Reg(5)>> >>, <<"addgt", <<Reg(5), Num(1)>> >>,
            <<"sub", <<Reg(5), Num(2)>> >> >>,
         At(2), vector, garbage, (5 :> 7), counter)

\* main calls a routine, which is entered while the timer is on.
Calling(vector, garbage) ==
    Load(<< <<"add", <<Reg(6), Num(1)>> >>, ReturnLine,
            <<"muls", <<Reg(5), Reg(5)>> >>, ReturnLine >> \o EnableTimer \o
         << <<"add", <<Reg(5), Num(3)>> >>, <<"call", <<Reg(2), Num(At(2))>> >>,
            <<"ors", <<Reg(5), Reg(5)>> >> >>,
         At(4), vector, garbage, (5 :> 9), <<6>>)

\* The factorial of examples/rekurzija.s, which saves its link register.
Factorial(n, value) ==
    Load(<< <<"str", <<Name("lr"), Name("sp"), Num(0), Name("postinc")>> >>,
            <<"muls", <<Reg(5), Reg(0)>> >>, <<"sub", <<Reg(0), Num(1)>> >>,
            <<"cmps", <<Reg(0), Num(1)>> >>, <<"callne", <<Reg(2), Num(At(0))>> >>,
            <<"ldr", <<Name("lr"), Name("sp"), Num(0), Name("predec")>> >>, ReturnLine,
            <<"ldc", <<Reg(0), Num(n)>> >>, <<"ldc", <<Reg(5), Num(1)>> >>,
            <<"call", <<Reg(2), Num(At(0))>> >> >>,
         At(7), 0, 0, (5 :> value), << >>)

\* A software interrupt through the second vector, whose offset is in r0, and
\* one through the first, to the boot routine: its push overwrites the end
\* of that routine, and it does not come back.
Interrupting ==
    Load(<< <<"add", <<Reg(6), Num(1)>> >>, ReturnLine,
            <<"ldc", <<Reg(0), Num(TimerVector)>> >>, <<"int", <<Num(0)>> >>, <<"int", <<Num(0)>> >> >>,
         At(2), At(0), 0, (6 :> 2), << >>)
BootingAgain ==
    Load(<< <<"add", <<Reg(3), Num(2)>> >>, <<"int", <<Num(0)>> >> >>, At(0), 0, 0, NoResult, << >>)

\* "calls" saves no status, and the return takes one all the same.
Unbalanced ==
    Load(<<ReturnLine, <<"calls", <<Reg(2), Num(At(0))>> >>, <<"calls", <<Reg(2), Num(At(0))>> >> >>,
         At(1), 0, 0, NoResult, << >>)

\* Every operation once, at the limits of its operands.
Limit == Modulus \div 2 - 1
Mixed ==
    Load(<< <<"ldc", <<Reg(1), Num(Limit)>> >>, <<"adds", <<Reg(1), Num(1)>> >>,
            <<"ldc", <<Reg(2), Num(-7)>> >>, <<"divs", <<Reg(2), Num(2)>> >>,
            <<"nots", <<Reg(3), Reg(1)>> >>, <<"ands", <<Reg(3), Reg(2)>> >>,
            <<"tests", <<Reg(3), Reg(9)>> >>, <<"shl", <<Reg(4), Reg(2), Num(1)>> >>,
            <<"shr", <<Reg(7), Reg(2), Num(1)>> >>, <<"bogus", << >> >>,
            <<"ldc", <<Reg(8), Num(InputPort)>> >>, <<"in", <<Reg(10), Reg(8)>> >>,
            <<"ldc", <<Reg(8), Num(OutputPort)>> >>, <<"out", <<Reg(4), Reg(8)>> >>,
            <<"in", <<Reg(11), Reg(8)>> >>, <<"cmpge", <<Reg(2), Reg(4)>> >>,
            <<"cmps", <<Reg(4), Reg(2)>> >>, <<"addne", <<Reg(9), Num(6)>> >> >>,
         At(0), 0, 0,
         (1 :> -Limit - 1) @@ (2 :> -3) @@ (3 :> Limit - 2) @@ (4 :> -6) @@ (7 :> -2)
            @@ (9 :> 6) @@ (11 :> -6),
         << >>)
Dividing == Load(<< <<"div", <<Reg(1), Reg(2)>> >> >>, At(0), 0, 0, NoResult, << >>)
Straying == Load(<< <<"ldr", <<Reg(1), Reg(2), Num(8)>> >> >>, At(0), 0, 0, NoResult, << >>)

MCCharacters == {-1, 65}       \* EOF and a letter
MCImages ==
    {Counting(vector, garbage, IF vector = 0 THEN <<1>> ELSE <<6>>) :
        vector \in {0, At(0)}, garbage \in Garbage}
    \cup {Calling(At(0), garbage) : garbage \in Garbage}
    \cup {Factorial(2, 2), Factorial(4, 24), Factorial(5, 120)}
    \cup {Interrupting, BootingAgain, Unbalanced, Mixed, Dividing, Straying}
=============================================================================
