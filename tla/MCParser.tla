------------------------------ MODULE MCParser ------------------------------
(***************************************************************************)
(* Files for the model checker: every well written line of a menu, every   *)
(* line of up to MaxPieces pieces, and files of two and more lines.        *)
(***************************************************************************)
EXTENDS ParserProperties

CONSTANT MaxPieces

Word(text) == Piece("letters", text)
Digits == Piece("digits", "1")
Arguments == {<<Word("r"), Digits>>, <<Word("x")>>, <<Piece("sign", "-"), Digits>>}

MCStyles == [indent: BOOLEAN, comas: {"tight", "spaced"}, tail: {"newline", "blank", "comment"}]

\* Up to three arguments, and four once.
ArgumentLists ==
    UNION {[1 .. n -> Arguments] : n \in 0 .. 3}
    \cup {<<a, b, b, a>> : a \in Arguments, b \in Arguments}
MCContents ==
    [type: {"directive", "instruction"}, label: {<< >>, <<Word("l"), Digits>>},
     name: {<<Word("text")>>}, args: ArgumentLists]
    \cup [type: {"label"}, label: {<<Word("l"), Digits>>}, name: {<< >>}, args: {<< >>}]

Menu == {Word("text"), Digits, Blank, Dot, Piece(",", ","), Piece(":", ":"), Piece(";", ";"),
         Piece("other", "*")}
AnyLines == {l \o end : l \in UNION {[1 .. n -> Menu] : n \in 1 .. MaxPieces}, end \in {<< >>, <<Newline>>}}

FiveArguments ==
    <<Word("text"), Blank>> \o FlattenSeq([k \in 1 .. 5 |-> <<Word("x"), Piece(",", ",")>>])
    \o <<Newline>>
Short == Rendered([type |-> "label", label |-> <<Word("l")>>, name |-> << >>, args |-> << >>],
                  [indent |-> FALSE, comas |-> "tight", tail |-> "newline"])

MCFiles ==
    {<<l>> : l \in {w[1] : w \in Writings}} \cup {<<l>> : l \in AnyLines}
    \cup {<<FiveArguments>>, << >>, <<Short, Short, Short>>}
    \cup {<<Short, l>> : l \in {Rendered(c, [indent |-> TRUE, comas |-> "spaced", tail |-> "blank"]) :
                                   c \in MCContents}}
=============================================================================
