------------------------------- MODULE Script -------------------------------
(***************************************************************************)
(* The linker script: parse_script (parser/parser.c) and the loop of       *)
(* nas_run/nas_run.c that runs it.  A script moves the location ".", gives *)
(* values to names, and places the three merged sections.                  *)
(*                                                                         *)
(* A line is the sequence of its lexemes.  The line ".text" is the one     *)
(* lexeme of type "section"; in an expression names, numbers and           *)
(* "align(name, number)" stand between the signs =, + and -.  "cut" is the *)
(* line ".text" without a newline at the end of the file, which the parser *)
(* skips as it means to skip ".text.name".                                 *)
(***************************************************************************)
EXTENDS Integers, Sequences, Word

CONSTANT IvtEntries     \* IVT_ENTRIES, words before the first section


WordSize == 4       \* sizeof(uint32_t)
FirstLocation == IvtEntries * WordSize

ASSUME IvtAssumption == IvtEntries \in Nat \ {0} /\ FirstLocation < Modulus \div 2

Placed == {"text", "data", "bss"}

Signs == {"+", "-"}
Lexeme(t, name, number) == [type |-> t, name |-> name, number |-> number]
LexemeTypes ==
    Signs \cup {"=", "section", "cut", "symbol", "number", "align", "unknown"}
Lexemes == [type: LexemeTypes, name: STRING, number: Nat]

-----------------------------------------------------------------------------
(* parse_script.                                                           *)

\* Between two signs stands one lexeme or nothing, which is an argument of
\* no type that check_type knows.
Nothing == Lexeme("unknown", "", 0)
ArgumentBefore(line, cut) ==
    IF cut = 1 \/ line[cut - 1].type \in Signs \cup {"="} THEN Nothing ELSE line[cut - 1]

\* The places of the signs, which end an argument each; the last one ends
\* with the line.
SignPlaces(line) ==
    LET places[k \in 0 .. Len(line)] ==
            IF k = 0 THEN << >>
            ELSE IF line[k].type \in Signs THEN Append(places[k - 1], k)
            ELSE places[k - 1]
    IN  places[Len(line)]
Cuts(line) == Append(SignPlaces(line), Len(line) + 1)

\* One entry of script_content.  A line without "=" is neither section nor
\* expression and has no effect.
ReadScriptLine(line) ==
    IF line # << >> /\ line[1].type = "section"
    THEN [type |-> "section", name |-> line[1].name, args |-> << >>, op |-> << >>]
    ELSE IF \E k \in DOMAIN line : line[k].type = "="
    THEN [type |-> "expression", name |-> line[1].name,
          args |-> [n \in DOMAIN Cuts(line) |-> ArgumentBefore(line, Cuts(line)[n])],
          op |-> [n \in DOMAIN SignPlaces(line) |-> line[SignPlaces(line)[n]].type]]
    ELSE [type |-> "none", name |-> "", args |-> << >>, op |-> << >>]

-----------------------------------------------------------------------------
VARIABLES
    script,            \* the file argv[1]
    sizes,             \* sizes of the merged sections
    line,              \* the entry of script_content the loop is at
    stage,             \* "script", then what the loader makes of it
    memory_location,
    start,             \* start_text, start_data and start_bss
    global_table       \* script globals, by name

scriptVars == <<script, sizes, line, stage, memory_location, start, global_table>>

\* The loop starts with a script and the sizes the merge has left.
InitScript ==
    /\ line = 1
    /\ stage = "script"
    /\ memory_location = FirstLocation
    /\ start = [s \in Placed |-> FirstLocation]
    /\ global_table = [name \in {"."} |-> FirstLocation]

\* add_script_global: the value of the name is replaced or the name added.
AddScriptGlobal(table, name, value) ==
    [n \in DOMAIN table \cup {name} |-> IF n = name THEN value ELSE table[n]]

Content == ReadScriptLine(script[line])
AtContent(type) == stage = "script" /\ line <= Len(script) /\ Content.type = type

\* A section goes to ".", and "." goes behind it.  Names other than the
\* three, such as "text.main", place nothing.
BugPlaceSection ==
    /\ AtContent("section")
    /\ LET here == Unsigned(global_table["."])
           known == Content.name \in Placed
       IN  /\ start' = IF known THEN [start EXCEPT ![Content.name] = here] ELSE start
           /\ memory_location' = here
           /\ global_table' = AddScriptGlobal(global_table, ".", Signed(memory_location'))
    /\ line' = line + 1
    /\ UNCHANGED <<script, sizes, stage>>
PlaceSection ==
    /\ AtContent("section")
    /\ LET here == Unsigned(global_table["."])
           known == Content.name \in Placed
       IN  /\ start' = IF known THEN [start EXCEPT ![Content.name] = here] ELSE start
           /\ memory_location' = Unsigned(here + IF known THEN sizes[Content.name] ELSE 0)
           /\ global_table' = AddScriptGlobal(global_table, ".", Signed(memory_location'))
    /\ line' = line + 1
    /\ UNCHANGED <<script, sizes, stage>>

NamesGlobal(lexeme) == lexeme.type \in {"symbol", "align"}
Undefined(lexeme) == NamesGlobal(lexeme) /\ lexeme.name \notin DOMAIN global_table

\* "align" adds what is missing to a whole unit; a value that has none
\* missing gets another unit.
BugAlignUp(value, unit) == value - (Unsigned(value) % unit)
AlignUp(value, unit) == value + unit - (Unsigned(value) % unit)

FirstValue(lexeme) ==
    CASE lexeme.type = "symbol" -> global_table[lexeme.name]
      [] lexeme.type = "number" -> lexeme.number
      [] lexeme.type = "align" -> AlignUp(global_table[lexeme.name], lexeme.number)
      [] OTHER -> 0

\* Operands after the first: one of another type, "align" among them, stands
\* for the operand before it.
NextValue(lexeme, previous) ==
    CASE lexeme.type = "symbol" -> global_table[lexeme.name]
      [] lexeme.type = "number" -> lexeme.number
      [] OTHER -> previous

Value(content) ==
    LET operand[j \in 0 .. Len(content.op)] ==
            IF j = 0 THEN 0 ELSE NextValue(content.args[j + 1], operand[j - 1])
        sum[j \in 0 .. Len(content.op)] ==
            IF j = 0 THEN FirstValue(content.args[1])
            ELSE IF content.op[j] = "+" THEN sum[j - 1] + operand[j]
            ELSE sum[j - 1] - operand[j]
    IN  Signed(sum[Len(content.op)])

\* Only a name among the operands can be undefined: a later "align" is not
\* looked at.
FaultyExpression(content) ==
    \/ Undefined(content.args[1])
    \/ \E j \in 2 .. Len(content.args) :
          content.args[j].type = "symbol" /\ Undefined(content.args[j])

DividesByZero(content) == content.args[1].type = "align" /\ content.args[1].number = 0

Evaluate ==
    /\ AtContent("expression")
    /\ ~FaultyExpression(Content) /\ ~DividesByZero(Content)
    /\ global_table' = AddScriptGlobal(global_table, Content.name, Value(Content))
    /\ line' = line + 1
    /\ UNCHANGED <<script, sizes, stage, memory_location, start>>

\* A unit of zero is a division by zero, which comes before later operands.
StopInExpression ==
    /\ AtContent("expression")
    /\ FaultyExpression(Content) \/ DividesByZero(Content)
    /\ stage' = IF DividesByZero(Content) /\ ~Undefined(Content.args[1])
                THEN "crashed" ELSE "failed"
    /\ UNCHANGED <<script, sizes, line, memory_location, start, global_table>>

PassOverLine ==
    /\ AtContent("none")
    /\ line' = line + 1
    /\ UNCHANGED <<script, sizes, stage, memory_location, start, global_table>>

EndScript ==
    /\ stage = "script"
    /\ line > Len(script)
    /\ stage' = "copy"
    /\ UNCHANGED <<script, sizes, line, memory_location, start, global_table>>

ScriptNext ==
    PlaceSection \/ Evaluate \/ StopInExpression \/ PassOverLine \/ EndScript
=============================================================================
