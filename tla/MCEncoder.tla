----------------------------- MODULE MCEncoder -----------------------------
(***************************************************************************)
(* Lines for the model checker: every mnemonic, bare and with a            *)
(* condition, with every pair of a menu of arguments; longer argument      *)
(* lists for the operations that read them; constants.                     *)
(***************************************************************************)
EXTENDS Encoder

Reg(n) == [form |-> "register", number |-> n, word |-> ""]
Num(n) == [form |-> "number", number |-> n, word |-> ""]
Word(w) == [form |-> "word", number |-> 0, word |-> w]
Other(n) == [form |-> "other", number |-> n, word |-> "rx"]

Menu == {Reg(0), Reg(11), Reg(12), Num(-1), Num(5), Num(17), Num(513),
         Word("psw"), Word("x"), Word("predec"), Other(7)}

Names == {row.name \o c : row \in Rows, c \in {"", "eq"}} \cup {"bogus"}
LongNames == {"ldr", "str", "ldreq", "mov", "movs", "shr", "shl", "shlsle", "bogus"}
Constants == {0, 1, -1, 7, 8, -8, 100, 127, -128}

PairLines == {<<a, b>> : a \in Menu, b \in Menu}
ShortLines == {<< >>} \cup {<<a>> : a \in Menu}
LongLines ==
    {<<a, b, c>> : a \in {Reg(1), Word("sp")}, b \in {Reg(11), Word("pc"), Num(3)}, c \in Menu}
    \cup {<<Reg(1), Word("sp"), c, d>> : c \in Menu, d \in Menu \cup {Word("postinc")}}

Line(name, args) == [name |-> name, args |-> args]

MCLines ==
    {Line(name, args) : name \in Names, args \in PairLines \cup ShortLines}
    \cup {Line(name, args) : name \in LongNames, args \in LongLines}
    \cup {Line("ldc", <<a, Num(c)>>) : a \in {Reg(0), Reg(11), Word("pc")}, c \in Constants}
    \cup {Line("ldc", args) : args \in {<< >>, <<Reg(2)>>, <<Reg(2), Other(7)>>, <<Other(1), Reg(3)>>}}
=============================================================================
