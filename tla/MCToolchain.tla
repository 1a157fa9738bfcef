----------------------------- MODULE MCToolchain ----------------------------
(***************************************************************************)
(* Two source files for the model checker, each with a few programs it may *)
(* hold: the first uses items of its own or of the second, the second      *)
(* defines them in one section or another; either may be faulty.           *)
(***************************************************************************)
EXTENDS Toolchain

MCNames == {"a", "b", "c", "r1", "text", "bss", "data"}

Reg == [type |-> "register", name |-> "r1"]
Sym(name) == [type |-> "symbol", name |-> name]
Row(kind, label, name, args, n) ==
    [kind |-> kind, label |-> label, name |-> name, args |-> args, n |-> n]
Dir(label, name, args) == Row("directive", label, name, args, 0)
Ins(label, name, args) == Row("instruction", label, name, args, 0)

Text == Dir("", "text", << >>)
Data == Dir("", "data", << >>)
Bss == Dir("", "bss", << >>)
Extern(name) == Dir("", "extern", <<Sym(name)>>)
Public(name) == Dir("", "public", <<Sym(name)>>)
Long(label) == Dir(label, "long", << >>)
Use(label, name) == Ins(label, "arith", <<Reg, Sym(name)>>)
End == Dir("", "end", << >>)

Users ==
    {<<Extern("a"), Text, Use("b", "a"), End>>,
     <<Extern("a"), Text, Ins("", "ldst", <<Reg, Reg, Sym("a")>>), Use("", "b"), Data,
       Long("b"), End>>,
     <<Text, Use("b", "a"), Use("", "b"), Data, Long("c"), Long("a"), Public("a"), End>>,
     <<Text, Use("b", "a"), Dir("", "typo", << >>), End>>}
Definers ==
    {<<Data, Long("c"), Long("a"), Public("a"), Text, Use("", "c"), End>>,
     <<Text, Use("", "a"), Use("a", "a"), Public("a"), End>>,
     <<Bss, Long("a"), Public("a"), Text, Use("c", "a"), End>>,
     <<Data, Long("a"), Text, Use("", "a"), End>>,
     <<Text, Use("c", "c"), Dir("", "public", << >>), End>>}

MCSources == <<Users, Definers>>
MCPrograms == Users \cup Definers
=============================================================================
