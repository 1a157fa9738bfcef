------------------------------ MODULE MCLoader ------------------------------
(***************************************************************************)
(* Scripts and linked contexts for the model checker: every script of a    *)
(* menu with two contexts, and every context of a menu with two scripts.   *)
(***************************************************************************)
EXTENDS LoaderProperties

CONSTANT MaxScript     \* lines of a script

Section(name) == <<Lexeme("section", name, 0)>>
Name(name) == Lexeme("symbol", name, 0)
Num(n) == Lexeme("number", "", n)
Align(name, n) == Lexeme("align", name, n)
Sign(s) == Lexeme(s, "", 0)
Set(name, operands) == <<Name(name), Sign("=")>> \o operands

ScriptMenu ==
    {Section("text"), Section("data"), Section("bss"),
     Set(".", <<Align(".", 4)>>),
     Set(".", <<Name("."), Sign("+"), Num(3)>>)}

OddLines ==
    {Section("text.main"), <<Lexeme("cut", "text", 0)>>, << >>,
     Set("g", <<Name(".")>>),
     Set("g", <<Name("."), Sign("+"), Align(".", 8), Sign("-"), Name("g")>>),
     Set("g", <<Sign("-"), Num(9)>>),
     Set("g", <<Name("."), Sign("-"), Name("h")>>),
     Set("g", <<Align("g", 0)>>), Set(".", <<Align(".", 0)>>),
     Set(".", <<Num(6)>>),
     Set(".", <<Name("."), Sign("+"), Num(Modulus - 6)>>),
     Set(".", <<Sign("-"), Num(1)>>)}

InOrder == <<Section("text"), Section("data"), Section("bss")>>
FullScripts ==
    UNION {[1 .. n -> ScriptMenu] : n \in 0 .. MaxScript}
    \cup {<<odd>> \o InOrder : odd \in OddLines}
    \cup {<<odd, other>> \o InOrder : odd \in OddLines, other \in OddLines}
    \cup {Append(InOrder, odd) : odd \in OddLines}
    \cup {<<Set(".", <<Name("."), Sign("+"), Num(far)>>), Section("text"),
            Set(".", <<Align(".", 4)>>), Section("data"), Section("bss")>> :
              far \in Modulus - 30 .. Modulus - 20}
FewScripts ==
    {<<Set("g", <<Num(700)>>), Section("data"), Section("text"), Section("bss")>>,
     <<Section("bss"), Set(".", <<Align(".", 4)>>), Section("text"), Section("data")>>}

Entry5(name, section, type, offset, size) ==
    [name |-> name, section |-> section, scope |-> "global", type |-> type,
     offset |-> offset, size |-> size]
Context(symbols, group, index, bss) ==
    [symtable |-> symbols,
     reloctable |-> IF index < 0 THEN << >> ELSE <<[index |-> index, offset |-> 8]>>,
     code |-> [offset \in {0, 4, 8} |-> IF offset = 8 THEN group ELSE "logic"],
     sizes |-> [text |-> 12, data |-> 4, bss |-> bss]]

Mains == {Entry5("main", "text", "function", 4, 4), Entry5("main", "text", "function", 8, 8),
          Entry5("other", "text", "function", 8, 4)}
Targets == {Entry5("g", "data", "data", 4, 4), Entry5("g", "data", "data", 2, 2),
            Entry5("g", "data", "data", 4, 1),
            Entry5("g", "data", "data", 3, 3),
            Entry5("g", "text", "function", 12, 4), Entry5("g", "none", "extern", 0, 0)}
Reserved == {Entry5("g", "bss", "data", 2, 2)}
ContextMenu ==
    {Context(<<main, target>>, group, index, bss) :
        main \in Mains, target \in Targets, bss \in {0, 2},
        group \in {"arith", "cmp", "ldst", "call", "mov", "logic"}, index \in {-1, 0, 1, 2}}
    \cup {Context(<<main, target>>, group, index, 2) :
        main \in Mains, target \in Reserved,
        group \in {"arith", "cmp", "ldst", "call", "mov", "logic"}, index \in {-1, 0, 1, 2}}
FewContexts ==
    {Context(<<Entry5("main", "text", "function", 8, 4), Entry5("g", "data", "data", 4, 2)>>,
             "arith", 1, 2),
     Context(<<Entry5("main", "text", "function", 4, 4)>>, "call", 0, 0)}

MCCommands ==
    [script: FullScripts, final: FewContexts] \cup [script: FewScripts, final: ContextMenu]
=============================================================================
