------------------------------- MODULE Parser -------------------------------
(***************************************************************************)
(* The line parser: parse_file and its three readers (parser/parser.c).    *)
(* Each reader walks over a line with a vector of character tests; one     *)
(* action is one round of its loop.                                        *)
(*                                                                         *)
(* A line is a sequence of pieces.  A piece is a run of letters, of digits *)
(* or of blanks, or one other character: the tests cannot tell the         *)
(* characters of a run apart.  Positions count pieces, from 1.  A name is  *)
(* the pieces it was copied from.                                          *)
(***************************************************************************)
EXTENDS Integers, Sequences

CONSTANTS
    Files,                  \* the input files considered
    ProgramLinesLength      \* MAX_PROGRAM_SIZE

MaxArguments == 4           \* MAX_INSTRUCTON_ARGUMENTS

PieceClasses == {"letters", "digits", "blank", ".", ",", ":", ";", "sign", "newline", "other"}
Piece(class, text) == [class |-> class, text |-> text]
Dot == Piece(".", ".")
Pieces == [class: PieceClasses, text: STRING]

\* fgets keeps the newline, which only the last line may lack.
ASSUME FilesAssumption ==
    /\ \A file \in Files :
          /\ file \in Seq(Seq(Pieces))
          /\ \A k \in DOMAIN file : \A p \in DOMAIN file[k] :
                file[k][p].class = "newline" => p = Len(file[k])
          /\ \A k \in DOMAIN file :
                file[k] # << >> /\ (k < Len(file) => file[k][Len(file[k])].class = "newline")
    /\ ProgramLinesLength \in Nat

-----------------------------------------------------------------------------
(* The test vectors.                                                       *)

BugPassed ==
    [isblank |-> {"blank"}, isalpha |-> {"letters"}, isalnum |-> {"letters", "digits"},
     isalnumsymbol |-> {"letters", "digits"}, isdot |-> {"."}, iscoma |-> {","}]
Passed ==
    [isblank |-> {"blank"}, isalpha |-> {"letters"}, isalnum |-> {"letters", "digits"},
     isalnumsymbol |-> {"letters", "digits", "sign"}, isdot |-> {"."}, iscoma |-> {","}]
TestFunc ==
    [label |-> <<"isblank", "isalnum">>,
     directive |-> <<"isblank", "isdot", "isalpha", "isblank", "isalnumsymbol", "iscoma">>,
     instruction |-> <<"isblank", "isalpha", "isblank", "isalnumsymbol", "iscoma">>]
\* The tests after which a name, and an argument, has been passed.
NameTest == [directive |-> 3, instruction |-> 2]
ArgumentTest == [directive |-> 5, instruction |-> 4]

VARIABLES
    lines,                \* the file
    program_lines,        \* what is parsed so far
    stage,                \* "read", or "parsed", "failed", "overrun"
    reader,               \* whose loop runs, or "none" between two lines
    position, last_test_position, current_func,
    content,              \* program_lines[line_number]
    status                \* what the readers returned; a label's is where it ends

readerVars == <<position, last_test_position, current_func>>
vars == <<lines, program_lines, stage, reader, position, last_test_position, current_func,
          content, status>>

NoStatus == [label |-> -1, directive |-> -1, instruction |-> -1]
NoContent == [type |-> "undefined", label |-> << >>, name |-> << >>, args |-> << >>]

Init ==
    /\ lines \in Files
    /\ program_lines = << >>
    /\ stage = "read"
    /\ reader = "none"
    /\ position = 1 /\ last_test_position = 1 /\ current_func = 1
    /\ content = NoContent
    /\ status = NoStatus

line_number == Len(program_lines) + 1
line == lines[line_number]

\* Where the directive and the instruction begin: behind the label.
Rest == IF status.label > 0 THEN status.label ELSE 1

Enter(next, from) ==
    /\ reader' = next
    /\ position' = from /\ last_test_position' = from /\ current_func' = 1

-----------------------------------------------------------------------------
(* parse_file.                                                             *)

StartLine ==
    /\ stage = "read" /\ reader = "none"
    /\ line_number <= Len(lines)
    /\ line_number <= ProgramLinesLength
    /\ content' = NoContent
    /\ status' = NoStatus
    /\ Enter("label", 1)
    /\ UNCHANGED <<lines, program_lines, stage>>

TooManyLines ==
    /\ stage = "read" /\ reader = "none"
    /\ line_number <= Len(lines)
    /\ line_number > ProgramLinesLength
    /\ stage' = "failed"
    /\ UNCHANGED <<lines, program_lines, reader, readerVars, content, status>>

EndOfFile ==
    /\ stage = "read" /\ reader = "none"
    /\ line_number > Len(lines)
    /\ stage' = "parsed"
    /\ UNCHANGED <<lines, program_lines, reader, readerVars, content, status>>

Type ==
    CASE status.directive = -1 /\ status.instruction = -1 /\ status.label > 0 -> "label"
      [] status.directive = 0 -> "directive"
      [] status.directive = -1 /\ status.instruction = 0 -> "instruction"
      [] OTHER -> "undefined"
Classify ==
    /\ stage = "read" /\ reader = "classify"
    /\ stage' = IF status.directive = 0 /\ status.instruction = 0 THEN "failed" ELSE stage
    /\ program_lines' = Append(program_lines, [content EXCEPT !.type = Type])
    /\ reader' = "none"
    /\ UNCHANGED <<lines, readerVars, content, status>>

-----------------------------------------------------------------------------
(* Rounds of the readers.                                                  *)

Reading(readers) == stage = "read" /\ reader \in readers
InText == position <= Len(line) /\ line[position].class # ";"
Test == TestFunc[reader][current_func]
Passes == line[position].class \in Passed[Test]
LastTest == current_func = Len(TestFunc[reader])
Token == SubSeq(line, last_test_position, position - 1)

\* A line whose rest is a beginning of ".text." is taken for a section; the
\* check is meant the other way round.  With its newline no line is one.
CutSection ==
    LET rest == SubSeq(line, Rest, Len(line))
    IN  \/ rest \in {<< >>, <<Dot>>, <<Dot, Piece("letters", "text"), Dot>>}
        \/ \E word \in {"t", "te", "tex", "text"} : rest = <<Dot, Piece("letters", word)>>
CheckSection ==
    /\ Reading({"directive"})
    /\ CutSection
    /\ content' = [content EXCEPT !.name = <<Dot, Piece("letters", "text")>>]
    /\ status' = [status EXCEPT !.directive = 0]
    /\ Enter("instruction", Rest)
    /\ UNCHANGED <<lines, program_lines, stage>>

Readers == {"label", "directive", "instruction"}
Loop(readers) == Reading(readers) /\ (reader = "directive" => ~CutSection)

\* After a coma comes a blank or the next argument.
BugPassTest ==
    /\ Loop(Readers)
    /\ InText /\ Passes
    /\ position' = IF Test = "iscoma" THEN position ELSE position + 1
    /\ current_func' = IF Test = "iscoma" THEN current_func - 2 ELSE current_func
    /\ UNCHANGED <<lines, program_lines, stage, reader, last_test_position, content, status>>
PassTest ==
    /\ Loop(Readers)
    /\ InText /\ Passes
    /\ position' = position + 1
    /\ current_func' = IF Test = "iscoma" THEN current_func - 2 ELSE current_func
    /\ UNCHANGED <<lines, program_lines, stage, reader, last_test_position, content, status>>

\* The first character of a label is not tested.
StartLabel ==
    /\ Loop({"label"})
    /\ InText /\ ~Passes /\ ~LastTest
    /\ current_func' = current_func + 1
    /\ last_test_position' = position
    /\ position' = position + 1
    /\ UNCHANGED <<lines, program_lines, stage, reader, content, status>>

EndLabel ==
    /\ Loop({"label"})
    /\ InText => ~Passes /\ LastTest
    /\ IF InText /\ line[position].class = ":"
       THEN /\ content' = [content EXCEPT !.label = Token]
            /\ status' = [status EXCEPT !.label = position + 1]
       ELSE UNCHANGED <<content, status>>
    /\ Enter("directive", IF status'.label > 0 THEN status'.label ELSE 1)
    /\ UNCHANGED <<lines, program_lines, stage>>

\* A directive has a dot where the tests look for it first.
NoDot == Test = "isdot" /\ position = last_test_position

NextTest ==
    /\ Loop({"directive", "instruction"})
    /\ InText /\ ~Passes /\ ~NoDot /\ ~LastTest
    /\ current_func' = current_func + 1
    /\ last_test_position' = position
    /\ UNCHANGED <<lines, program_lines, reader, position>>

\* A name or argument is copied when the test after it is reached, which
\* takes another character in the line.  A fifth argument is written behind
\* the content.
BugCopyToken ==
    LET copies == position # last_test_position
    IN  IF copies /\ current_func = NameTest[reader]
        THEN /\ content' = [content EXCEPT !.name = Token]
             /\ status' = [status EXCEPT ![reader] = 0]
             /\ UNCHANGED stage
        ELSE IF copies /\ current_func = ArgumentTest[reader]
        THEN /\ stage' = IF Len(content.args) = MaxArguments THEN "overrun" ELSE stage
             /\ content' = [content EXCEPT !.args = <<Token>> \o @]
             /\ UNCHANGED status
        ELSE UNCHANGED <<content, status, stage>>
CopyToken ==
    LET copies == position # last_test_position
    IN  IF copies /\ current_func = NameTest[reader]
        THEN /\ content' = [content EXCEPT !.name = Token]
             /\ status' = [status EXCEPT ![reader] = 0]
             /\ UNCHANGED stage
        ELSE IF copies /\ current_func = ArgumentTest[reader]
        THEN /\ stage' = IF Len(content.args) = MaxArguments THEN "overrun" ELSE stage
             /\ content' = IF Len(content.args) = MaxArguments THEN content
                           ELSE [content EXCEPT !.args = Append(@, Token)]
             /\ UNCHANGED status
        ELSE UNCHANGED <<content, status, stage>>

FailTest == NextTest /\ CopyToken

EndReader ==
    /\ Loop({"directive", "instruction"})
    /\ InText => ~Passes /\ (NoDot \/ LastTest)
    /\ IF reader = "directive" THEN Enter("instruction", Rest)
       ELSE reader' = "classify" /\ UNCHANGED readerVars
    /\ UNCHANGED <<lines, program_lines, stage, content, status>>

Stopped == stage # "read" /\ UNCHANGED vars

Parse ==
    \/ StartLine \/ TooManyLines \/ EndOfFile \/ Classify
    \/ CheckSection \/ PassTest \/ StartLabel \/ EndLabel \/ FailTest \/ EndReader
Next == Parse \/ Stopped

Spec == Init /\ [][Next]_vars
FairSpec == Spec /\ WF_vars(Parse)

=============================================================================
