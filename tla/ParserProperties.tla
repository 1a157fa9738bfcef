-------------------------- MODULE ParserProperties --------------------------
(***************************************************************************)
(* What the parser makes of lines, judged from how a line is written.      *)
(***************************************************************************)
EXTENDS Parser, SequencesExt

CONSTANTS
    Contents,     \* what one can want to write on a line
    Styles        \* and ways to write it: [indent, comas, tail]

Blank == Piece("blank", " ")
Newline == Piece("newline", "n")

\* How a content is written: comas tight or with a blank behind them; at the
\* end a newline, a blank before it, or a blank and a comment.
Ending(style) ==
    CASE style.tail = "newline" -> <<Newline>>
      [] style.tail = "blank" -> <<Blank, Newline>>
      [] style.tail = "comment" -> <<Blank, Piece(";", ";"), Piece("letters", "note"), Newline>>
Coma(style) ==
    IF style.comas = "tight" THEN <<Piece(",", ",")>> ELSE <<Piece(",", ","), Blank>>
Rendered(c, style) ==
    LET indent == IF style.indent THEN <<Blank>> ELSE << >>
        label == IF c.label = << >> THEN << >> ELSE c.label \o <<Piece(":", ":")>> \o indent
        dot == IF c.type = "directive" THEN <<Dot>> ELSE << >>
        argument(k) == (IF k = 1 THEN <<Blank>> ELSE Coma(style)) \o c.args[k]
    IN  indent \o label \o dot \o c.name
        \o FlattenSeq([k \in DOMAIN c.args |-> argument(k)]) \o Ending(style)

Writings == {<<Rendered(c, s), c>> : c \in Contents, s \in Styles}

\* A well written line is understood as it was meant: the label, the name
\* and all arguments arrive, in their places, and the line is of its kind,
\* whether it is indented, spaced, labelled or commented.  Blanks before a
\* coma, and a comment directly behind an argument, are not well written:
\* the parser drops what follows the one and what precedes the other.
LinesUnderstood ==
    stage = "parsed" =>
        \A writing \in Writings : \A k \in DOMAIN lines :
            lines[k] = writing[1] => program_lines[k] = writing[2]

\* The tokens of a line, found one after the other; an empty one is found
\* everywhere.
NextEnd(token, text, before) ==
    LET n == Len(token)
        places == {p \in before + 1 .. Len(text) - n + 1 : SubSeq(text, p, p + n - 1) = token}
    IN  IF places = {} THEN Len(text) + 1
        ELSE (CHOOSE p \in places : \A q \in places : p <= q) + n - 1
EndsOf(tokens, text) ==
    LET end[j \in 0 .. Len(tokens)] ==
            IF j = 0 THEN 0 ELSE NextEnd(tokens[j], text, end[j - 1])
    IN  end[Len(tokens)]

\* Whatever a line looks like, the parser makes up nothing: its label, its
\* name and its arguments stand in the line, whole, apart and in this order;
\* a line is never taken for a directive and an instruction, so the error for
\* that is never given.  A last line without its newline is excepted.
Tokens(row) == <<row.label, row.name>> \o row.args
NothingInvented ==
    /\ stage = "parsed" =>
          \A k \in DOMAIN lines :
              lines[k][Len(lines[k])] = Newline =>
                  EndsOf(Tokens(program_lines[k]), lines[k]) <= Len(lines[k])
    /\ ~(status.directive = 0 /\ status.instruction = 0)

\* Every file is read to its end or given up: the readers step back in their
\* vectors at each coma, but never without a step in the line.
Termination == <>(stage # "read")
=============================================================================
