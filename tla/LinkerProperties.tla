-------------------------- MODULE LinkerProperties --------------------------
(***************************************************************************)
(* What makes a link correct, judged from the objects on the command line. *)
(***************************************************************************)
EXTENDS Linker

Merged == IF phase = "load" THEN {} ELSE 1 .. i - 1

Own(f) == OwnSymbols(files[f].symbols)

\* Positions in the merged tables of what file f brought.
CountBefore(f, count) ==
    LET before[g \in 1 .. f] == IF g = 1 THEN 0 ELSE before[g - 1] + count[g - 1]
    IN  before[f]
SymbolPosition(f, n) == CountBefore(f, [g \in DOMAIN files |-> Len(Own(g))]) + n
RelocPosition(f, n) == CountBefore(f, [g \in DOMAIN files |-> Len(files[g].relocs)]) + n

\* Section s of file f lies at "at" in the merged section.
CopiedTo(f, s, at) ==
    \E k \in DOMAIN sections[s] : sections[s][k].file = f /\ sections[s][k].at = at

\* The unchecked memcpy calls that merge sections lay the files end to end,
\* each whole and once, with one end instruction, and stay within what was
\* allocated before; bss has no bytes to stay within.
SectionsFit ==
    \A s \in Contents :
        LET filled == {f \in Merged : SectionLength(files[f])[s] > 0}
            Size(f) == IF f = 0 THEN InstructionSize ELSE SectionLength(files[f])[s]
        IN  /\ Tiled(sections[s], section_offset[s])
            /\ s # "bss" => section_offset[s] <= allocated[s]
            /\ \A k \in DOMAIN sections[s] : sections[s][k].size = Size(sections[s][k].file)
            /\ {sections[s][k].file : k \in DOMAIN sections[s]} \ {0} = filled
            /\ \A j, k \in DOMAIN sections[s] :
                  sections[s][j].file = sections[s][k].file => j = k

\* A symbol still stands for the same item of the same file: its offset from
\* where its file's section was copied is the offset nas gave it, although
\* offsets advance while symbols are added.
SymbolsFollowSections ==
    \A f \in Merged : \A n \in DOMAIN Own(f) :
        LET symbol == Own(f)[n]
            placed == symtable[SymbolPosition(f, n)]
        IN  /\ placed.name = symbol.name /\ placed.scope = symbol.scope
            /\ symbol.section # "none" =>
                  placed.section = symbol.section /\ placed.size = symbol.size
            /\ symbol.section # "none" /\ SectionLength(files[f])[symbol.section] > 0 =>
                  CopiedTo(f, symbol.section, placed.offset - symbol.offset)

\* A relocation still lies on the same instruction of the same file, and one
\* of the first file still has the index of the same symbol, if that is not
\* a section symbol.
RelocsFollowText ==
    \A f \in Merged : \A n \in DOMAIN files[f].relocs :
        LET reloc == files[f].relocs[n]
            placed == reloctable[RelocPosition(f, n)]
        IN  /\ CopiedTo(f, "text", placed.offset - reloc.offset)
            /\ f = 1 /\ reloc.index >= 3 =>
                  SymbolAt(symtable, placed.index).name
                      = SymbolAt(files[1].symbols, reloc.index).name

\* What the loader builds on, which reads nothing but the merged context: the
\* item of every symbol, resolved or not, lies within its merged section, and
\* no two relocations patch the same instruction.
ContextSound ==
    phase # "load" =>
        /\ \A k \in DOMAIN symtable : Sound(symtable[k], section_offset)
        /\ \A k \in DOMAIN reloctable :
              /\ reloctable[k].offset + InstructionSize <= section_offset["text"]
              /\ \A j \in 1 .. k - 1 : reloctable[j].offset < reloctable[k].offset

\* Two files both lay claim to a global name: one defines it, the other does
\* not merely import it, and one of the items has a size of at least "least".
Claims(s, t) ==
    /\ s.name = t.name /\ t.scope = "global"
    /\ IsDefinition(s) /\ ~IsUnresolved(t)
Rivals(f, g, least) ==
    \E m \in DOMAIN Own(f), n \in DOMAIN Own(g) :
        /\ Claims(Own(f)[m], Own(g)[n])
        /\ Own(f)[m].size >= least \/ Own(g)[n].size >= least

\* Files that define the same global item are refused (nas_run.c:277), and
\* nothing else is.  Only items of no size may coincide.
LinkVerdict ==
    /\ phase = "linked" => \A f, g \in DOMAIN files : f # g => ~Rivals(f, g, 1)
    /\ phase = "failed" => \E f, g \in DOMAIN files : f # g /\ Rivals(f, g, 0)

\* After a link all global entries of a defined name are that definition,
\* whichever file came first.
GlobalsAgree ==
    phase = "linked" =>
        \A j, k \in DOMAIN symtable :
            (/\ IsDefinition(symtable[j])
             /\ symtable[k].scope = "global"
             /\ symtable[k].name = symtable[j].name)
            => SameDefinition(symtable[j], symtable[k])

\* The link always ends.
Termination == <>(phase \in {"linked", "failed", "crashed"})

-----------------------------------------------------------------------------
(* The link as the binding of names (module Binding).                      *)

PlaceOf(symbol) ==
    [section |-> symbol.section, type |-> symbol.type,
     offset |-> symbol.offset, size |-> symbol.size]
Nowhere == [section |-> "none", type |-> "extern", offset |-> 0, size |-> 0]

\* The position in the merged table of each global symbol a file brought, with the
\* symbol as nas wrote it.
Brought ==
    UNION {{<<SymbolPosition(f, n), Own(f)[n]>> :
               n \in {m \in DOMAIN Own(f) : Own(f)[m].scope = "global"}} : f \in Merged}

\* What a global symbol that is no import stands for does not change after
\* the merge.
ClaimsLaid ==
    {<<b[2].name, IF b[2].section = "none" THEN Nowhere ELSE PlaceOf(symtable[b[1]])>> :
        b \in {c \in Brought : ~IsUnresolved(c[2])}}
ImportsMade == {<<b[1], b[2].name>> : b \in {c \in Brought : IsUnresolved(c[2])}}
ImportsBound ==
    {<<m[1], m[2], PlaceOf(symtable[m[1]])>> :
        m \in {n \in ImportsMade : ~IsUnresolved(symtable[n[1]])}}

BindingVerdict ==
    CASE phase = "linked" -> "linked"
      [] phase = "failed" -> "refused"
      [] OTHER -> "open"

Abstract == INSTANCE Binding WITH
    NoPlace <- Nowhere, claims <- ClaimsLaid, imports <- ImportsMade,
    bound <- ImportsBound, verdict <- BindingVerdict

\* The linker implements the binding of names: whatever the order of the
\* files, all imports of a name go to its one claim, in one step and for
\* good, the link succeeds only when none is left out, and it is refused only
\* over a name that two files claim.
ImplementsBinding == Abstract!Spec

-----------------------------------------------------------------------------
(* What the comments of the code say of it.                                *)

\* nas_run.c:154 says that the merge updates the indexes of relocations: the
\* merged index is that of the symbol the file's own index meant.
RelocsKeepTarget ==
    \A f \in Merged : \A n \in DOMAIN files[f].relocs :
        LET index == files[f].relocs[n].index
            placed == reloctable[RelocPosition(f, n)].index
        IN  index >= 3 => placed = SymbolPosition(f, index - 2) - 1
=============================================================================
