---------------------------- MODULE SymbolTable ----------------------------
(***************************************************************************)
(* The symbol table of nas/symbol.c: a linked list of entries, appended at *)
(* its end.  The list is a sequence of records.  The "index" field of an   *)
(* entry is always its distance from the head (the head gets 0, every      *)
(* other entry its predecessor's index plus one), so it is not stored: the *)
(* entry with index k is table[k + 1].                                     *)
(***************************************************************************)
EXTENDS Integers, Sequences

Sections == {"text", "data", "bss", "none"}
Scopes == {"global", "local"}
Types == {"section", "extern", "data", "function"}

Symbol(Names) ==
    [name: Names, section: Sections, scope: Scopes, type: Types,
     offset: Nat, size: Nat]

\* What is always true of a symbol of a program: where its section has the
\* length, the item lies within it.
Sound(symbol, lengths) ==
    /\ symbol.type = "extern" => symbol.section = "none"
    /\ symbol.type = "function" => symbol.section = "text"
    /\ symbol.section # "none" =>
          symbol.size <= symbol.offset /\ symbol.offset <= lengths[symbol.section]

\* The comparison loop starts at the element after the head: the name of
\* the head entry is never compared.
Exists(table, name) == \E k \in 2 .. Len(table) : table[k].name = name

\* What an addition leaves behind: a table that refuses the symbol is
\* unchanged.
BugAddSymbol(table, symbol) ==
    IF Exists(table, symbol.name) THEN table ELSE <<symbol>> \o table
AddSymbol(table, symbol) ==
    IF Exists(table, symbol.name) THEN table ELSE Append(table, symbol)

\* What unforced additions keep: no two entries behind the head share a name.
TailUnique(table) ==
    \A j, k \in 2 .. Len(table) : table[j].name = table[k].name => j = k

\* Forced additions compare no names.
BugAddSymbolsForce(table, symbols) ==
    table \o SelectSeq(symbols, LAMBDA symbol : ~Exists(table, symbol.name))
AddSymbolsForce(table, symbols) == table \o symbols

\* symtable_get_symdata answers NULL when no entry has the index.
HasIndex(table, index) == index + 1 \in DOMAIN table
SymbolAt(table, index) == table[index + 1]

\* symtable_get_symdata_by_name: the first entry of the name, head included.
Defined(table, name) == \E k \in DOMAIN table : table[k].name = name
BugIndexOfName(table, name) == CHOOSE k \in 1 .. Len(table) : table[k].name = name
IndexOfName(table, name) ==
    CHOOSE index \in 0 .. Len(table) - 1 :
        /\ SymbolAt(table, index).name = name
        /\ \A k \in 0 .. index - 1 : SymbolAt(table, k).name # name

\* symtable_create_from_buffer: the entries of a dumped table are added one
\* by one, unforced, to an empty table and so are numbered anew.
Reload(entries) ==
    LET after[n \in 0 .. Len(entries)] ==
          IF n = 0 THEN << >> ELSE AddSymbol(after[n - 1], entries[n])
    IN  after[Len(entries)]

-----------------------------------------------------------------------------
(* symtable_resolve_globals, one entry of the outer loop at a time.        *)

IsDefinition(symbol) ==
    /\ symbol.scope = "global"
    /\ symbol.section # "none"
    /\ symbol.type # "extern"

IsUnresolved(symbol) == symbol.section = "none" /\ symbol.type = "extern"

SameDefinition(s, t) ==
    /\ s.section = t.section /\ s.type = t.type
    /\ s.offset = t.offset /\ s.size = t.size

\* The entries the inner loop looks at for a definition: global entries of
\* the same name, itself among them.
Namesakes(table, symbol) ==
    {k \in DOMAIN table : table[k].name = symbol.name /\ table[k].scope = "global"}

\* "return -1": a namesake that is neither unresolved nor the same.
BugConflicts(table, symbol) ==
    \E k \in Namesakes(table, symbol) :
        ~IsUnresolved(table[k]) /\ table[k].section # symbol.section
Conflicts(table, symbol) ==
    \E k \in Namesakes(table, symbol) :
        ~IsUnresolved(table[k]) /\ ~SameDefinition(table[k], symbol)

\* A namesake still unresolved takes over the definition (the others equal
\* it already when there is no conflict).
BugPropagate(table, symbol) ==
    [k \in DOMAIN table |->
        IF k \in Namesakes(table, symbol) /\ IsUnresolved(table[k])
        THEN [table[k] EXCEPT !.section = symbol.section, !.type = symbol.type]
        ELSE table[k]]
Propagate(table, symbol) ==
    [k \in DOMAIN table |->
        IF k \in Namesakes(table, symbol) /\ IsUnresolved(table[k])
        THEN [symbol EXCEPT !.name = table[k].name, !.scope = table[k].scope]
        ELSE table[k]]
=============================================================================
