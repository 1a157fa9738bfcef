---------------------------- MODULE MCAssembler ----------------------------
(***************************************************************************)
(* Programs for the model checker: every sequence of fewer than MaxLines    *)
(* lines from a menu and every one of MaxLines lines in the text section,   *)
(* up to ".end".                                                            *)
(* Two menus: one for sections, sizes, labels and relocations, one for the  *)
(* symbol table and the errors.                                             *)
(***************************************************************************)
EXTENDS AssemblerProperties

CONSTANT MaxLines

MCNames == {"a", "b", "r1", "text", "bss", "data"}

Reg == [type |-> "register", name |-> "r1"]
Sym(name) == [type |-> "symbol", name |-> name]

Plain(kind, label, name, args, n) ==
    [kind |-> kind, label |-> label, name |-> name, args |-> args, n |-> n]
Blank(label) == Plain("undefined", label, "", << >>, 0)
LabelOnly(label) == Plain("label", label, "", << >>, 0)
Directive(label, name, args) == Plain("directive", label, name, args, 0)
Skip(n) == Plain("directive", "", "skip", << >>, n)
Instruction(label, name, args) == Plain("instruction", label, name, args, 0)

EndDirective == Directive("", "end", << >>)

LayoutMenu ==
    {Directive("", "text", << >>), Directive("", "data", << >>),
     Directive("a", "long", << >>), Directive("", "align", << >>),
     Skip(3), Skip(-1),
     Blank("b"), Blank("text"), LabelOnly("a"),
     Instruction("b", "arith", <<Reg, Sym("a")>>),
     Instruction("a", "ldc", <<Reg, Sym("b")>>),
     Instruction("", "ldst", <<Reg, Reg, Sym("b")>>),
     Instruction("", "int", <<Sym("text")>>)}

SymbolMenu ==
    {Directive("", "text", << >>), Directive("", "bss", << >>),
     Directive("", "extern", <<Sym("a")>>), Directive("b", "extern", <<Sym("b"), Sym("a")>>),
     Directive("", "extern", << >>),
     Directive("", "public", <<Sym("a"), Sym("text")>>), Directive("", "public", << >>),
     Directive("", "global", <<Sym("a")>>), Skip(-1),
     Directive("data", "char", << >>), Directive("", "typo", << >>),
     LabelOnly("a"), LabelOnly("b"),
     Instruction("text", "logic", <<Reg, Reg>>),
     Instruction("a", "call", <<Reg, Sym("text")>>),
     Instruction("b", "extern", <<Sym("b")>>)}

\* One comprehension over sets of functions, which TLC enumerates without a
\* search for duplicates.  The menus have ".text" too, so no shorter program is
\* missing.
ProgramsOf(menus) ==
    LET bodies == UNION {[1 .. k -> menu] : k \in 0 .. MaxLines, menu \in menus}
        start(lines) == IF Len(lines) = MaxLines THEN <<Directive("", "text", << >>)>> ELSE << >>
    IN  {Append(start(lines) \o lines, EndDirective) : lines \in bodies}

LayoutPrograms == ProgramsOf({LayoutMenu})
SymbolPrograms == ProgramsOf({SymbolMenu})
MCPrograms == ProgramsOf({LayoutMenu, SymbolMenu})
=============================================================================
