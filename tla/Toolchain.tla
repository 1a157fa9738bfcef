------------------------------ MODULE Toolchain -----------------------------
(***************************************************************************)
(* The two programs at work on one set of files: nas compiles one source   *)
(* file after another, as often as its user likes, and nas_run links the   *)
(* objects it finds.  The programs share nothing but the files.  nas       *)
(* opens, and so empties, its output before it reads a line, and reports   *)
(* every error with the exit status of success (ASSERT_AND_EXIT, nas.h),   *)
(* so that whatever started it goes on to the next step.                   *)
(*                                                                         *)
(* A run of nas is a run of module Assembler, a link a run of Linker, whose *)
(* variables carry the names final_context has.                            *)
(***************************************************************************)
EXTENDS AssemblerProperties

CONSTANTS
    Sources,   \* for each file, in link order, the programs it may hold
    MaxRuns    \* how often nas is run

ASSUME SourcesAssumption ==
    /\ Sources # << >>
    /\ \A f \in DOMAIN Sources : Sources[f] \subseteq Programs
    /\ MaxRuns \in Nat

VARIABLES
    disk,       \* the objects that exist, by file
    tool,       \* "none", "nas" or "nas_run": the program that runs
    output,     \* the file nas writes to
    runs,       \* how often nas was run
    latest,     \* auxiliary: the program nas last compiled, by file; a file
                \* that did not parse has none; no action reads it
    files, file, link, context, total, allocated, final_symtable,
    final_reloctable, final_sections, section_offset, symbol_offset, entry

linkVars == <<files, file, link, context, total, allocated, final_symtable,
              final_reloctable, final_sections, section_offset, symbol_offset, entry>>
toolVars == <<disk, tool, output, runs, latest>>
allVars == <<vars, toolVars, linkVars>>

L == INSTANCE Linker WITH
        Inputs <- {}, i <- file, phase <- link, symtable <- final_symtable,
        reloctable <- final_reloctable, sections <- final_sections, current <- entry

Files == DOMAIN Sources

\* What nas_run reads from an empty file: the block it allocates for the
\* contents has no bytes, and the header is the zeroes behind it.
Blank == [bss_size |-> 0, data_start |-> 0, text_start |-> 0, symbol_start |-> 0,
          reloc_start |-> 0, size |-> 0, data |-> << >>, text |-> << >>,
          symbols |-> << >>, relocs |-> << >>]

Store(f, contents) ==
    disk' = [g \in DOMAIN disk \cup {f} |-> IF g = f THEN contents ELSE disk[g]]

ToolchainInit ==
    /\ Init
    /\ disk = << >> /\ tool = "none" /\ output = 1 /\ runs = 0 /\ latest = << >>
    /\ files = << >> /\ file = 1 /\ link = "load" /\ context = << >>
    /\ total = [s \in L!Contents |-> 0] /\ allocated = total
    /\ final_symtable = << >> /\ final_reloctable = << >>
    /\ final_sections = [s \in L!Contents |-> << >>]
    /\ section_offset = total /\ symbol_offset = 0 /\ entry = 1

-----------------------------------------------------------------------------
(* nas.                                                                    *)

CanStart == tool = "none" /\ link = "load" /\ runs < MaxRuns

\* The output is opened for writing, then the source is parsed and the
\* tables are set up as Init of the assembler says.
BugStartAssembler(f, source) ==
    /\ CanStart
    /\ disk' = disk
    /\ tool' = "nas" /\ output' = f /\ runs' = runs + 1
    /\ latest' = [g \in DOMAIN latest \cup {f} |-> IF g = f THEN source ELSE latest[g]]
    /\ program_lines' = source /\ i' = 1 /\ phase' = "first"
    /\ current_section' = "none" /\ location_counter' = Zeroes /\ size' = 0
    /\ symtable' = <<SectionSymbol("text"), SectionSymbol("bss"), SectionSymbol("data")>>
    /\ reloctable' = << >> /\ buffer_size' = Zeroes
    /\ binary_buffer' = [s \in Sections |-> << >>] /\ object' = << >> /\ mark' = << >>
    /\ UNCHANGED linkVars
StartAssembler(f, source) ==
    /\ CanStart
    /\ Store(f, Blank)
    /\ tool' = "nas" /\ output' = f /\ runs' = runs + 1
    /\ latest' = [g \in DOMAIN latest \cup {f} |-> IF g = f THEN source ELSE latest[g]]
    /\ program_lines' = source /\ i' = 1 /\ phase' = "first"
    /\ current_section' = "none" /\ location_counter' = Zeroes /\ size' = 0
    /\ symtable' = <<SectionSymbol("text"), SectionSymbol("bss"), SectionSymbol("data")>>
    /\ reloctable' = << >> /\ buffer_size' = Zeroes
    /\ binary_buffer' = [s \in Sections |-> << >>] /\ object' = << >> /\ mark' = << >>
    /\ UNCHANGED linkVars

\* The parser refuses the source: the process ends there.
RefuseSource(f) ==
    /\ CanStart
    /\ Store(f, Blank)
    /\ runs' = runs + 1
    /\ latest' = [g \in DOMAIN latest \ {f} |-> latest[g]]
    /\ UNCHANGED <<tool, output, vars, linkVars>>

\* There is no source to open: the process ends before it opens its output.
MissSource ==
    /\ CanStart
    /\ runs' = runs + 1
    /\ UNCHANGED <<disk, tool, output, latest, vars, linkVars>>

Assemble ==
    /\ tool = "nas"
    /\ FirstPass \/ SecondPass
    /\ UNCHANGED <<toolVars, linkVars>>

\* Only an object that was completed reaches the file.
EndAssembler ==
    /\ tool = "nas"
    /\ phase \in {"done", "failed"}
    /\ IF phase = "done" THEN Store(output, object) ELSE disk' = disk
    /\ tool' = "none"
    /\ UNCHANGED <<output, runs, latest, vars, linkVars>>

-----------------------------------------------------------------------------
(* nas_run.                                                                *)

StartLinker ==
    /\ tool = "none" /\ link = "load"
    /\ DOMAIN disk = Files
    /\ tool' = "nas_run"
    /\ files' = [f \in Files |-> disk[f]]
    /\ UNCHANGED <<disk, output, runs, latest, vars, file, link, context, total, allocated,
                   final_symtable, final_reloctable, final_sections, section_offset,
                   symbol_offset, entry>>

\* A file that cannot be opened is used all the same.
LinkMissingObject ==
    /\ tool = "none" /\ link = "load"
    /\ DOMAIN disk # Files
    /\ link' = "crashed"
    /\ UNCHANGED <<toolVars, vars, files, file, context, total, allocated, final_symtable,
                   final_reloctable, final_sections, section_offset, symbol_offset, entry>>

LinkObjects ==
    /\ tool = "nas_run"
    /\ \/ L!LoadFile \/ L!Allocate \/ L!MergeFile \/ L!CrashInMerge \/ L!EndMerge
       \/ L!PassOverSymbol \/ L!ResolveSymbol \/ L!RejectConflict \/ L!EndResolve
    /\ UNCHANGED <<toolVars, vars>>

Ended == link \in {"linked", "failed", "crashed"} /\ UNCHANGED allVars

ToolchainNext ==
    \/ \E f \in Files : RefuseSource(f) \/ \E source \in Sources[f] : StartAssembler(f, source)
    \/ MissSource \/ Assemble \/ EndAssembler
    \/ StartLinker \/ LinkMissingObject \/ LinkObjects \/ Ended

ToolchainSpec == ToolchainInit /\ [][ToolchainNext]_allVars

-----------------------------------------------------------------------------
(* What the user gets, judged from the sources alone.                      *)

\* The place before line k of a program, in sections that start at zero.
PlaceBefore(source, k) ==
    LET place[n \in 1 .. k] ==
          IF n = 1 THEN [section |-> "none", counters |-> Zeroes]
          ELSE Advance(source[n - 1], place[n - 1])
    IN  place[k]

LastLine(source) == CHOOSE k \in DOMAIN source :
                        source[k].name = "end" /\ \A j \in 1 .. k - 1 : source[j].name # "end"

\* The item of line k of file f begins at that offset of the merged section.
Lies(f, k, section, offset) ==
    LET place == PlaceBefore(latest[f], k)
    IN  /\ place.section = section
        /\ \E n \in DOMAIN final_sections[section] :
              LET piece == final_sections[section][n]
              IN  piece.file = f /\ offset = piece.at + place.counters[section]

\* The lines whose item has the name.
Labelled(f, name) ==
    {k \in 1 .. LastLine(latest[f]) - 1 :
        /\ latest[f][k].label = name /\ latest[f][k].kind # "label"
        /\ Footprint(latest[f][k]) > 0}

Says(f, directive, name) ==
    \E k \in 1 .. LastLine(latest[f]) - 1 :
        /\ latest[f][k].kind = "directive" /\ latest[f][k].name = directive
        /\ name \in Arguments(latest[f][k])

\* Nothing stale is ever linked: whatever failed in between, a link that
\* succeeds is one of the sources as nas last opened them, every section in
\* full and every label at its own item.  (A run of nas that finds no source
\* leaves the object of the last one it opened, and that one is linked.)
LinkedFromSources ==
    link = "linked" =>
        /\ DOMAIN latest = Files
        /\ \A f \in Files, s \in L!Contents :
              LET bytes == PlaceBefore(latest[f], LastLine(latest[f])).counters[s]
                  pieces == {final_sections[s][n] : n \in DOMAIN final_sections[s]}
              IN  {piece.size : piece \in {p \in pieces : p.file = f}}
                    = (IF bytes = 0 THEN {} ELSE {bytes})
        /\ \A f \in Files, name \in Names : \A k \in Labelled(f, name) :
              \E n \in DOMAIN final_symtable :
                 LET symbol == final_symtable[n]
                 IN  symbol.name = name /\ Lies(f, k, symbol.section, symbol.offset - symbol.size)

\* From the source of the operand to the merged tables: an instruction of
\* the first file that names an item has its relocation at that instruction,
\* and its symbol is at the item, be it the file's own or, for an extern, the
\* one that another file makes public.
OperandsReachDefinitions ==
    link = "linked" =>
        \A k \in 1 .. LastLine(latest[1]) - 1 :
            LET line == latest[1][k]
                name == SymbolOperand(line, line.name)
            IN  line.kind = "instruction" /\ NamesSymbol(line, line.name) =>
                   \A g \in Files : \A j \in Labelled(g, name) :
                      (g # 1 => Says(1, "extern", name) /\ Says(g, "public", name)) =>
                         \E n \in DOMAIN final_reloctable :
                            LET reloc == final_reloctable[n]
                                symbol == SymbolAt(final_symtable, reloc.index)
                            IN  /\ Lies(1, k, "text", reloc.offset)
                                /\ HasIndex(final_symtable, reloc.index)
                                /\ symbol.name = name
                                /\ Lies(g, j, symbol.section, symbol.offset - symbol.size)
=============================================================================
