---------------------------- MODULE ParserProofs ----------------------------
(***************************************************************************)
(* What the parser makes of every file: nothing that does not stand in it. *)
(***************************************************************************)
EXTENDS ParserProperties, SymbolTableProofs

-----------------------------------------------------------------------------
(* Tokens that stand in a text, one behind the other.                      *)

\* Each token lies between two borders of pieces, the first before the next,
\* and none reaches over the limit.
Lie(tokens, text, from, to, limit) ==
    \A j \in DOMAIN tokens :
        /\ from[j] \in Nat /\ to[j] \in Nat
        /\ 1 <= from[j] /\ from[j] <= to[j] /\ to[j] <= limit
        /\ Len(tokens[j]) = to[j] - from[j]
        /\ tokens[j] = SubSeq(text, from[j], to[j] - 1)
        /\ j > 1 => to[j - 1] <= from[j]
Placed(tokens, text, limit) ==
    \E from, to \in [DOMAIN tokens -> Nat] : Lie(tokens, text, from, to, limit)

\* A token that is found behind the others.
LEMMA NextEndFound ==
    ASSUME NEW token, Len(token) \in Nat, NEW text, Len(text) \in Nat, NEW before \in Nat,
           NEW p \in Nat, p >= before + 1, p + Len(token) <= Len(text) + 1,
           token = SubSeq(text, p, p + Len(token) - 1)
    PROVE  NextEnd(token, text, before) \in Nat /\ NextEnd(token, text, before) <= p + Len(token) - 1
<1>. DEFINE n == Len(token)
            places == {q \in before + 1 .. Len(text) - n + 1 : SubSeq(text, q, q + n - 1) = token}
<1>1. p \in places /\ places \in SUBSET Nat
  OBVIOUS
<1>2. PICK m \in places : \A k \in 0 .. m - 1 : k \notin places
  <2>. HIDE DEF places
  <2>. QED
    BY <1>1, LeastNatural
<1>. HIDE DEF places
<1>3. \A q \in places : m <= q
  BY <1>1, <1>2
<1>. DEFINE c == CHOOSE q \in places : \A r \in places : q <= r
<1>4. c \in places /\ c <= p
  BY <1>1, <1>2, <1>3
<1>5. c >= 1 /\ c \in Nat
  BY <1>1, <1>4 DEF places
<1>6. NextEnd(token, text, before) = c + n - 1
  BY <1>1 DEF NextEnd, places
<1>. HIDE DEF c
<1>. QED
  BY <1>4, <1>5, <1>6

\* The ends that NextEnd finds, as a function.
Ends(tokens, text, n, end) ==
    \A j \in 0 .. n : end[j] = IF j = 0 THEN 0 ELSE NextEnd(tokens[j], text, end[j - 1])

Searches(tokens, text, N, end) ==
    end = [j \in 0 .. N |-> IF j = 0 THEN 0 ELSE NextEnd(tokens[j], text, end[j - 1])]

LEMMA EndsExist ==
    ASSUME NEW tokens, NEW text, NEW N \in Nat
    PROVE  \E end : Searches(tokens, text, N, end)
<1>. DEFINE Start == {n \in Nat : \E end : DOMAIN end = 0 .. n /\ end = [j \in 0 .. n |-> end[j]]
                                            /\ Ends(tokens, text, n, end)}
<1>1. 0 \in Start
  <2>. DEFINE end == [j \in 0 .. 0 |-> 0]
  <2>1. DOMAIN end = 0 .. 0 /\ end = [j \in 0 .. 0 |-> end[j]] /\ Ends(tokens, text, 0, end)
    BY DEF Ends
  <2>. QED
    BY <2>1
<1>2. ASSUME NEW n \in 1 .. N, n - 1 \in Start PROVE n \in Start
  <2>1. PICK end : DOMAIN end = 0 .. n - 1 /\ Ends(tokens, text, n - 1, end)
    BY <1>2
  <2>. DEFINE next == [j \in 0 .. n |-> IF j = n THEN NextEnd(tokens[n], text, end[n - 1]) ELSE end[j]]
  <2>2. ASSUME NEW j \in 0 .. n
        PROVE  next[j] = IF j = 0 THEN 0 ELSE NextEnd(tokens[j], text, next[j - 1])
    <3>1. CASE j = n
      <4>1. next[n] = NextEnd(tokens[n], text, end[n - 1]) /\ next[n - 1] = end[n - 1]
        OBVIOUS
      <4>. QED
        BY <3>1, <4>1
    <3>2. CASE j # n
      <4>1. j \in 0 .. n - 1 /\ next[j] = end[j] /\ (j # 0 => next[j - 1] = end[j - 1])
        BY <3>2
      <4>2. end[j] = IF j = 0 THEN 0 ELSE NextEnd(tokens[j], text, end[j - 1])
        BY <2>1, <4>1 DEF Ends
      <4>. HIDE DEF next
      <4>. QED
        BY <4>1, <4>2
    <3>. QED
      BY <3>1, <3>2
  <2>3. Ends(tokens, text, n, next) /\ DOMAIN next = 0 .. n /\ next = [j \in 0 .. n |-> next[j]]
    BY <2>2 DEF Ends
  <2>. QED
    BY <2>3
<1>3. \A n \in 0 .. N : n \in Start
  <2>. HIDE DEF Start
  <2>. QED
    BY <1>1, <1>2, UpTo
<1>4. PICK end : DOMAIN end = 0 .. N /\ end = [j \in 0 .. N |-> end[j]] /\ Ends(tokens, text, N, end)
  BY <1>3
<1>5. Searches(tokens, text, N, end)
  BY <1>4 DEF Ends, Searches
<1>. QED
  BY <1>5

\* Tokens that stand in a text one behind the other are found there.
LEMMA PlacedFound ==
    ASSUME NEW T, NEW text \in Seq(T), NEW U, NEW tokens \in Seq(U),
           Placed(tokens, text, Len(text) + 1)
    PROVE  EndsOf(tokens, text) <= Len(text)
<1>. DEFINE N == Len(tokens)
            end == CHOOSE h : Searches(tokens, text, N, h)
<1>1. N \in Nat /\ DOMAIN tokens = 1 .. N
  OBVIOUS
<1>2. Searches(tokens, text, N, end)
  <2>1. \E h : Searches(tokens, text, N, h)
    <3>. HIDE DEF N
    <3>. QED
      BY <1>1, EndsExist
  <2>. QED
    BY <2>1, Zenon
<1>3. EndsOf(tokens, text) = end[N]
  BY DEF EndsOf, Searches
<1>. HIDE DEF end
<1>4. \A j \in 0 .. N : end[j] = IF j = 0 THEN 0 ELSE NextEnd(tokens[j], text, end[j - 1])
  <2>. HIDE DEF N
  <2>. QED
    BY <1>2 DEF Searches
<1>5. PICK from, to \in [DOMAIN tokens -> Nat] : Lie(tokens, text, from, to, Len(text) + 1)
  BY DEF Placed
<1>. DEFINE Reached == {n \in Nat : end[n] \in Nat /\ IF n = 0 THEN end[n] = 0 ELSE end[n] <= to[n] - 1}
<1>6. 0 \in Reached
  BY <1>1, <1>4
<1>7. ASSUME NEW n \in 1 .. N, n - 1 \in Reached PROVE n \in Reached
  <2>. DEFINE before == end[n - 1]
  <2>1. n \in DOMAIN tokens /\ Len(text) \in Nat
    OBVIOUS
  <2>2. /\ from[n] \in Nat /\ to[n] \in Nat
        /\ 1 <= from[n] /\ from[n] <= to[n] /\ to[n] <= Len(text) + 1
        /\ Len(tokens[n]) = to[n] - from[n]
        /\ tokens[n] = SubSeq(text, from[n], to[n] - 1)
        /\ n > 1 => to[n - 1] <= from[n]
    BY <1>5, <2>1 DEF Lie
  <2>3. before \in Nat /\ from[n] >= before + 1
    <3>1. CASE n = 1
      BY <1>7, <2>2, <3>1
    <3>2. CASE n # 1
      <4>1. n - 1 # 0 /\ n - 1 \in DOMAIN tokens /\ to[n - 1] \in Nat
        BY <3>2
      <4>2. before \in Nat /\ before <= to[n - 1] - 1
        BY <1>7, <4>1
      <4>. QED
        BY <2>2, <3>2, <4>1, <4>2
    <3>. QED
      BY <3>1, <3>2
  <2>4. end[n] = NextEnd(tokens[n], text, before)
    <3>1. n \in 0 .. N /\ n # 0
      BY <1>1
    <3>. QED
      BY <1>4, <3>1
  <2>. DEFINE p == from[n]
              length == Len(tokens[n])
  <2>5. /\ length \in Nat /\ p \in Nat /\ p + length = to[n] /\ p + length - 1 = to[n] - 1
    BY <2>2
  <2>. HIDE DEF before
  <2>6. NextEnd(tokens[n], text, before) \in Nat /\ NextEnd(tokens[n], text, before) <= p + length - 1
    BY <2>1, <2>2, <2>3, <2>5, NextEndFound
  <2>. QED
    BY <2>4, <2>5, <2>6
<1>8. \A n \in 0 .. N : n \in Reached
  <2>1. N \in Nat
    OBVIOUS
  <2>. HIDE DEF Reached, N
  <2>. QED
    BY <1>6, <1>7, <2>1, UpTo
<1>9. N \in Reached /\ N \in Nat
  BY <1>8
<1>10. CASE N = 0
  BY <1>3, <1>9, <1>10
<1>11. CASE N # 0
  <2>1. end[N] <= to[N] - 1 /\ end[N] \in Nat
    BY <1>9, <1>11
  <2>2. to[N] \in Nat /\ to[N] <= Len(text) + 1
    BY <1>5, <1>11 DEF Lie
  <2>. QED
    BY <1>3, <2>1, <2>2
<1>. QED
  BY <1>10, <1>11
-----------------------------------------------------------------------------
(* How tokens come to stand in a text.                                     *)

LEMMA NothingPlaced ==
    ASSUME NEW text
    PROVE  Placed(<< >>, text, 1)
<1>. DEFINE borders == [j \in DOMAIN << >> |-> 1]
<1>1. borders \in [DOMAIN << >> -> Nat] /\ Lie(<< >>, text, borders, borders, 1)
  BY DEF Lie
<1>. QED
  BY <1>1 DEF Placed

LEMMA PlacedWider ==
    ASSUME NEW tokens, NEW text, NEW limit \in Nat, NEW wider \in Nat, limit <= wider,
           Placed(tokens, text, limit)
    PROVE  Placed(tokens, text, wider)
<1>1. PICK from, to \in [DOMAIN tokens -> Nat] : Lie(tokens, text, from, to, limit)
  BY DEF Placed
<1>2. Lie(tokens, text, from, to, wider)
  BY <1>1 DEF Lie
<1>. QED
  BY <1>2 DEF Placed

\* One more token, cut out of the text behind the others.
LEMMA TokenPlaced ==
    ASSUME NEW T, NEW text \in Seq(T), NEW U, NEW tokens \in Seq(U), NEW limit \in Nat,
           Placed(tokens, text, limit),
           NEW a \in Nat, NEW b \in Nat, 1 <= a, limit <= a, a <= b, b <= Len(text) + 1
    PROVE  Placed(Append(tokens, SubSeq(text, a, b - 1)), text, b)
<1>. DEFINE token == SubSeq(text, a, b - 1)
            more == Append(tokens, token)
            N == Len(tokens)
<1>1. PICK from, to \in [DOMAIN tokens -> Nat] : Lie(tokens, text, from, to, limit)
  BY DEF Placed
<1>. DEFINE start == [j \in DOMAIN more |-> IF j = N + 1 THEN a ELSE from[j]]
            end == [j \in DOMAIN more |-> IF j = N + 1 THEN b ELSE to[j]]
<1>2. N \in Nat /\ DOMAIN tokens = 1 .. N /\ DOMAIN more = 1 .. N + 1
  OBVIOUS
<1>3. more[N + 1] = token /\ \A j \in 1 .. N : more[j] = tokens[j]
  OBVIOUS
<1>4. Len(token) = b - a
  OBVIOUS
<1>. HIDE DEF more, token
<1>5. start \in [DOMAIN more -> Nat] /\ end \in [DOMAIN more -> Nat]
  BY <1>2
<1>6. /\ start[N + 1] = a /\ end[N + 1] = b
      /\ \A j \in 1 .. N : start[j] = from[j] /\ end[j] = to[j]
  BY <1>2
<1>. HIDE DEF N, start, end
<1>7. ASSUME NEW j \in 1 .. N + 1
      PROVE  /\ start[j] \in Nat /\ end[j] \in Nat
             /\ 1 <= start[j] /\ start[j] <= end[j] /\ end[j] <= b
             /\ Len(more[j]) = end[j] - start[j]
             /\ more[j] = SubSeq(text, start[j], end[j] - 1)
             /\ j > 1 => end[j - 1] <= start[j]
  <2>1. CASE j = N + 1
    <3>0. j > 1 => N \in DOMAIN tokens /\ N \in 1 .. N /\ j - 1 = N
      BY <1>2, <2>1
    <3>1. j > 1 => end[j - 1] = to[N] /\ to[N] \in Nat /\ to[N] <= limit
      BY <1>1, <1>6, <3>0 DEF Lie
    <3>2. start[j] = a /\ end[j] = b /\ more[j] = SubSeq(text, a, b - 1) /\ Len(more[j]) = b - a
      BY <1>3, <1>4, <1>6, <2>1 DEF token
    <3>. QED
      BY <3>1, <3>2
  <2>2. CASE j # N + 1
    <3>1. j \in 1 .. N /\ (j > 1 => j - 1 \in 1 .. N)
      BY <1>2, <2>2
    <3>2. /\ start[j] = from[j] /\ end[j] = to[j] /\ more[j] = tokens[j]
          /\ j > 1 => end[j - 1] = to[j - 1]
      BY <1>3, <1>6, <3>1
    <3>3. /\ from[j] \in Nat /\ to[j] \in Nat
          /\ 1 <= from[j] /\ from[j] <= to[j] /\ to[j] <= limit
          /\ Len(tokens[j]) = to[j] - from[j]
          /\ tokens[j] = SubSeq(text, from[j], to[j] - 1)
          /\ j > 1 => to[j - 1] <= from[j]
      BY <1>1, <1>2, <3>1 DEF Lie
    <3>4. start[j] \in Nat /\ end[j] \in Nat /\ 1 <= start[j] /\ start[j] <= end[j] /\ end[j] <= b
      BY <3>2, <3>3
    <3>5. Len(more[j]) = end[j] - start[j] /\ more[j] = SubSeq(text, start[j], end[j] - 1)
      BY <3>2, <3>3, Zenon
    <3>. QED
      BY <3>2, <3>3, <3>4, <3>5
  <2>. QED
    BY <2>1, <2>2
<1>8. Lie(more, text, start, end, b)
  BY <1>2, <1>7 DEF Lie
<1>9. Placed(more, text, b)
  BY <1>5, <1>8 DEF Placed
<1>. QED
  BY <1>9 DEF more, token

\* An empty token, which stands everywhere.
LEMMA EmptyPlaced ==
    ASSUME NEW T, NEW text \in Seq(T), NEW U, NEW tokens \in Seq(U),
           NEW limit \in 1 .. Len(text) + 1, Placed(tokens, text, limit)
    PROVE  Placed(Append(tokens, << >>), text, limit)
<1>1. limit \in Nat /\ 1 <= limit /\ limit <= limit /\ limit <= Len(text) + 1
  OBVIOUS
<1>2. Placed(Append(tokens, SubSeq(text, limit, limit - 1)), text, limit)
  BY <1>1, TokenPlaced, Zenon
<1>3. SubSeq(text, limit, limit - 1) = << >>
  OBVIOUS
<1>. QED
  BY <1>2, <1>3

\* The tokens before the last.
LEMMA FrontPlaced ==
    ASSUME NEW U, NEW tokens \in Seq(U), NEW token \in U, NEW text, NEW limit \in Nat,
           Placed(Append(tokens, token), text, limit)
    PROVE  Placed(tokens, text, limit)
<1>. DEFINE more == Append(tokens, token)
<1>1. PICK from, to \in [DOMAIN more -> Nat] : Lie(more, text, from, to, limit)
  BY DEF Placed
<1>2. /\ DOMAIN tokens \in SUBSET (DOMAIN more)
      /\ \A j \in DOMAIN tokens : more[j] = tokens[j]
      /\ \A j \in DOMAIN tokens : j \in Nat /\ (j > 1 => j - 1 \in DOMAIN tokens)
  OBVIOUS
<1>. HIDE DEF more
<1>. DEFINE start == [j \in DOMAIN tokens |-> from[j]]
            end == [j \in DOMAIN tokens |-> to[j]]
<1>3. start \in [DOMAIN tokens -> Nat] /\ end \in [DOMAIN tokens -> Nat]
  BY <1>2
<1>4. Lie(tokens, text, start, end, limit)
  BY <1>1, <1>2 DEF Lie
<1>. QED
  BY <1>3, <1>4 DEF Placed

-----------------------------------------------------------------------------
(* The tokens of a row.                                                    *)

Copied == Pieces \cup {Dot, Piece("letters", "text")}
RowTypes == {"undefined", "label", "directive", "instruction"}
Row == [type: RowTypes, label: Seq(Copied), name: Seq(Copied), args: Seq(Seq(Copied))]

LEMMA FilesCopied ==
    ASSUME NEW file \in Files
    PROVE  file \in Seq(Seq(Copied))
<1>1. \A text \in Seq(Pieces) : text \in Seq(Copied)
  <2>. SUFFICES ASSUME NEW text \in Seq(Pieces) PROVE text \in Seq(Copied)
    OBVIOUS
  <2>1. Pieces \subseteq Copied
    BY DEF Copied
  <2>. QED
    BY <2>1
<1>2. file \in Seq(Seq(Pieces))
  BY FilesAssumption
<1>3. \A k \in DOMAIN file : file[k] \in Seq(Copied)
  BY <1>1, <1>2
<1>. DEFINE S == Seq(Copied)
<1>. HIDE DEF S
<1>4. \A k \in DOMAIN file : file[k] \in S
  BY <1>3 DEF S
<1>5. file \in Seq(S)
  BY <1>2, <1>4
<1>. QED
  BY <1>5 DEF S

LEMMA RowTokens ==
    ASSUME NEW row \in Row
    PROVE  /\ Tokens(row) \in Seq(Seq(Copied))
           /\ <<row.label>> \in Seq(Seq(Copied))
           /\ row.args = << >> => Tokens(row) = Append(<<row.label>>, row.name)
<1>1. row.label \in Seq(Copied) /\ row.name \in Seq(Copied) /\ row.args \in Seq(Seq(Copied))
  BY DEF Row
<1>. DEFINE S == Seq(Copied)
<1>. HIDE DEF S
<1>2. row.label \in S /\ row.name \in S /\ row.args \in Seq(S)
  BY <1>1 DEF S
<1>3. Tokens(row) \in Seq(S) /\ <<row.label>> \in Seq(S)
  BY <1>2 DEF Tokens
<1>4. row.args = << >> => Tokens(row) = Append(<<row.label>>, row.name)
  BY <1>2 DEF Tokens
<1>. QED
  BY <1>3, <1>4 DEF S

LEMMA ArgumentTokens ==
    ASSUME NEW row \in Row, NEW token \in Seq(Copied)
    PROVE  /\ [row EXCEPT !.args = Append(@, token)] \in Row
           /\ Tokens([row EXCEPT !.args = Append(@, token)]) = Append(Tokens(row), token)
<1>. DEFINE S == Seq(Copied)
            next == [row EXCEPT !.args = Append(@, token)]
<1>0. /\ row \in [type: RowTypes, label: S, name: S, args: Seq(S)]
      /\ token \in S
  BY DEF Row
<1>1. /\ row.label \in S /\ row.name \in S /\ row.args \in Seq(S) /\ token \in S
      /\ next.label = row.label /\ next.name = row.name /\ next.args = Append(row.args, token)
      /\ next \in Row
  <2>. HIDE DEF S
  <2>1. Append(row.args, token) \in Seq(S)
    BY <1>0
  <2>2. next \in [type: RowTypes, label: S, name: S, args: Seq(S)]
    BY <1>0, <2>1
  <2>3. next \in Row
    BY <2>2 DEF S, Row
  <2>. QED
    BY <1>0, <2>3
<1>. HIDE DEF S, next
<1>2. <<row.label, row.name>> \in Seq(S)
  BY <1>1
<1>. DEFINE two == <<row.label, row.name>>
<1>. HIDE DEF two
<1>3. two \o Append(row.args, token) = Append(two \o row.args, token)
  BY <1>1, <1>2 DEF two
<1>4. Tokens(next) = Append(Tokens(row), token)
  BY <1>1, <1>3 DEF Tokens, two
<1>. QED
  BY <1>1, <1>4 DEF next
-----------------------------------------------------------------------------
(* The vectors of tests.                                                   *)

LEMMA LabelTests ==
    ASSUME reader = "label", current_func \in DOMAIN TestFunc[reader]
    PROVE  /\ current_func \in {1, 2}
           /\ LastTest <=> current_func = 2
           /\ Test # "iscoma"
BY DEF TestFunc, Test, LastTest

LEMMA DirectiveTests ==
    ASSUME reader = "directive", current_func \in DOMAIN TestFunc[reader]
    PROVE  /\ current_func \in 1 .. 6
           /\ LastTest <=> current_func = 6
           /\ Test = "iscoma" <=> current_func = 6
           /\ Test = "isdot" <=> current_func = 2
           /\ current_func = 1 => Passed[Test] = {"blank"}
           /\ current_func = 2 => Passed[Test] = {"."}
           /\ NameTest[reader] = 3 /\ ArgumentTest[reader] = 5
<1>1. TestFunc[reader] =
          <<"isblank", "isdot", "isalpha", "isblank", "isalnumsymbol", "iscoma">>
  BY DEF TestFunc
<1>2. current_func \in 1 .. 6 /\ (LastTest <=> current_func = 6)
  BY <1>1 DEF LastTest
<1>3. /\ current_func = 1 => Test = "isblank"
      /\ current_func = 2 => Test = "isdot"
      /\ current_func = 3 => Test = "isalpha"
      /\ current_func = 4 => Test = "isblank"
      /\ current_func = 5 => Test = "isalnumsymbol"
      /\ current_func = 6 => Test = "iscoma"
  BY <1>1, <1>2 DEF Test
<1>4. Passed["isblank"] = {"blank"} /\ Passed["isdot"] = {"."}
  BY DEF Passed
<1>5. NameTest[reader] = 3 /\ ArgumentTest[reader] = 5
  BY DEF NameTest, ArgumentTest
<1>6. current_func \in {1, 2, 3, 4, 5, 6}
  BY <1>2
<1>. QED
  BY <1>2, <1>3, <1>4, <1>5, <1>6

LEMMA InstructionTests ==
    ASSUME reader = "instruction", current_func \in DOMAIN TestFunc[reader]
    PROVE  /\ current_func \in 1 .. 5
           /\ LastTest <=> current_func = 5
           /\ Test = "iscoma" <=> current_func = 5
           /\ Test # "isdot"
           /\ current_func = 1 => Passed[Test] = {"blank"}
           /\ current_func > 1 => "." \notin Passed[Test]
           /\ NameTest[reader] = 2 /\ ArgumentTest[reader] = 4
<1>1. TestFunc[reader] = <<"isblank", "isalpha", "isblank", "isalnumsymbol", "iscoma">>
  BY DEF TestFunc
<1>2. current_func \in 1 .. 5 /\ (LastTest <=> current_func = 5)
  BY <1>1 DEF LastTest
<1>3. /\ current_func = 1 => Test = "isblank"
      /\ current_func = 2 => Test = "isalpha"
      /\ current_func = 3 => Test = "isblank"
      /\ current_func = 4 => Test = "isalnumsymbol"
      /\ current_func = 5 => Test = "iscoma"
  BY <1>1, <1>2 DEF Test
<1>4. /\ Passed["isblank"] = {"blank"}
      /\ "." \notin Passed["isblank"] /\ "." \notin Passed["isalpha"]
      /\ "." \notin Passed["isalnumsymbol"] /\ "." \notin Passed["iscoma"]
  BY DEF Passed
<1>5. NameTest[reader] = 2 /\ ArgumentTest[reader] = 4
  BY DEF NameTest, ArgumentTest
<1>6. current_func \in {1, 2, 3, 4, 5}
  BY <1>2
<1>. QED
  BY <1>2, <1>3, <1>4, <1>5, <1>6

-----------------------------------------------------------------------------
(* The inductive invariant: how far each reader has come.                  *)

BlankUpTo(text, from, to) == \A q \in from .. to - 1 : text[q].class = "blank"

\* Behind nothing but blanks comes a dot, or the end.
DotAt(text, from, d) ==
    /\ d \in from .. Len(text) + 1
    /\ BlankUpTo(text, from, d)
    /\ d <= Len(text) => text[d].class = "."

Ended(text) == text[Len(text)] = Newline

RowsPlaced ==
    \A k \in DOMAIN program_lines :
        /\ k \in DOMAIN lines
        /\ Ended(lines[k]) =>
              Placed(Tokens(program_lines[k]), lines[k], Len(lines[k]) + 1)

Statuses == [label: Int, directive: {-1, 0}, instruction: {-1, 0}]

Typed ==
    /\ lines \in Files
    /\ program_lines \in Seq(Row)
    /\ content \in Row
    /\ status \in Statuses
    /\ reader \in {"none", "label", "directive", "instruction", "classify"}
    /\ reader # "none" => line_number <= Len(lines)
    /\ stage = "parsed" => Len(lines) <= Len(program_lines)

Cursor ==
    reader \in Readers =>
        /\ current_func \in DOMAIN TestFunc[reader]
        /\ last_test_position \in Nat /\ position \in Nat
        /\ 1 <= last_test_position /\ last_test_position <= position
        /\ position <= Len(line) + 1

LabelRead == reader = "label" => content = NoContent /\ status = NoStatus

Labelled ==
    reader \in {"directive", "instruction"} =>
        /\ Rest \in 1 .. Len(line) + 1 /\ Rest <= last_test_position
        /\ Ended(line) => Rest <= Len(line) /\ Placed(<<content.label>>, line, Rest)

\* Before its dot the directive reader has copied nothing.
DirectiveRead ==
    reader = "directive" =>
        /\ status.instruction = -1
        /\ current_func <= 3 =>
              content.name = << >> /\ content.args = << >> /\ status.directive = -1
        /\ Ended(line) => Placed(Tokens(content), line, last_test_position)
        /\ current_func = 1 => BlankUpTo(line, Rest, position)
        /\ current_func = 2 =>
              /\ BlankUpTo(line, Rest, last_test_position)
              /\ position > last_test_position => line[last_test_position].class = "."
        /\ current_func >= 3 => \E d \in Nat : DotAt(line, Rest, d)

\* Either there was no directive, or the instruction reader comes to its dot
\* and no further.
Reads ==
    /\ status.directive = -1
    /\ current_func <= 2 => content.name = << >> /\ content.args = << >>
    /\ Ended(line) => Placed(Tokens(content), line, last_test_position)
Held ==
    /\ status.instruction = -1
    /\ Ended(line) => Placed(Tokens(content), line, Len(line) + 1)
    /\ \E d \in Nat :
          /\ DotAt(line, Rest, d)
          /\ current_func = 1 => position <= d
          /\ current_func > 1 => position = d /\ last_test_position = d
InstructionRead == reader = "instruction" => Reads \/ Held

LineRead ==
    reader = "classify" => (Ended(line) => Placed(Tokens(content), line, Len(line) + 1))

NotBoth == ~(status.directive = 0 /\ status.instruction = 0)

ParserInv ==
    /\ Typed /\ RowsPlaced /\ Cursor /\ LabelRead /\ Labelled
    /\ DirectiveRead /\ InstructionRead /\ LineRead /\ NotBoth

\* The invariant holds what the property says.
LEMMA InvariantSuffices == ParserInv => NothingInvented
<1>. SUFFICES ASSUME ParserInv PROVE NothingInvented
  OBVIOUS
<1>1. ASSUME stage = "parsed", NEW k \in DOMAIN lines, lines[k][Len(lines[k])] = Newline
      PROVE  EndsOf(Tokens(program_lines[k]), lines[k]) <= Len(lines[k])
  <2>1. lines \in Seq(Seq(Copied))
    BY FilesCopied DEF ParserInv, Typed
  <2>2. k \in DOMAIN program_lines /\ program_lines[k] \in Row
    BY <1>1, <2>1 DEF ParserInv, Typed
  <2>3. Placed(Tokens(program_lines[k]), lines[k], Len(lines[k]) + 1)
    BY <1>1, <2>2 DEF ParserInv, RowsPlaced, Ended
  <2>4. Tokens(program_lines[k]) \in Seq(Seq(Copied))
    BY <2>2, RowTokens
  <2>5. lines[k] \in Seq(Copied)
    BY <1>1, <2>1
  <2>. QED
    BY <2>3, <2>4, <2>5, PlacedFound
<1>. QED
  BY <1>1 DEF ParserInv, NotBoth, NothingInvented

LEMMA EmptyRow == NoContent \in Row /\ NoStatus \in Statuses
<1>1. << >> \in Seq(Copied) /\ << >> \in Seq(Seq(Copied))
  OBVIOUS
<1>. QED
  BY <1>1 DEF NoContent, NoStatus, Row, RowTypes, Statuses

LEMMA InitialInvariant == Init => ParserInv
<1>. SUFFICES ASSUME Init PROVE ParserInv
  OBVIOUS
<1>1. Typed
  BY EmptyRow DEF Init, Typed
<1>2. RowsPlaced /\ Cursor /\ LabelRead /\ Labelled /\ DirectiveRead /\ InstructionRead /\ LineRead
  BY DEF Init, RowsPlaced, Cursor, LabelRead, Labelled, DirectiveRead, InstructionRead, LineRead,
         Readers
<1>3. NotBoth
  BY DEF Init, NotBoth, NoStatus
<1>. QED
  BY <1>1, <1>2, <1>3 DEF ParserInv

-----------------------------------------------------------------------------
(* The steps between two lines.                                            *)

\* A line, and what it is made of.
LEMMA LineType ==
    ASSUME ParserInv, line_number <= Len(lines)
    PROVE  /\ line_number \in DOMAIN lines
           /\ line \in Seq(Copied) /\ line # << >>
           /\ \A p \in DOMAIN line : line[p].class = "newline" => p = Len(line)
<1>1. lines \in Seq(Seq(Copied)) /\ program_lines \in Seq(Row)
  BY FilesCopied DEF ParserInv, Typed
<1>2. line_number \in DOMAIN lines
  BY <1>1 DEF line_number
<1>. QED
  BY <1>1, <1>2, FilesAssumption DEF ParserInv, Typed, line

LEMMA StartLineKeeps == ParserInv /\ StartLine => ParserInv'
<1>. SUFFICES ASSUME ParserInv, StartLine PROVE ParserInv'
  OBVIOUS
<1>1. /\ reader' = "label" /\ content' = NoContent /\ status' = NoStatus /\ stage = "read"
      /\ position' = 1 /\ last_test_position' = 1 /\ current_func' = 1
      /\ UNCHANGED <<lines, program_lines, stage>>
      /\ line_number <= Len(lines)
  BY DEF StartLine, Enter
<1>2. Typed'
  BY <1>1, EmptyRow DEF ParserInv, Typed, line_number
<1>3. RowsPlaced'
  BY <1>1 DEF ParserInv, RowsPlaced
<1>4. Cursor'
  BY <1>1, LineType DEF Cursor, TestFunc, line, line_number
<1>5. LabelRead' /\ Labelled' /\ DirectiveRead' /\ InstructionRead' /\ LineRead' /\ NotBoth'
  BY <1>1 DEF LabelRead, Labelled, DirectiveRead, InstructionRead, LineRead, NotBoth, NoStatus
<1>. QED
  BY <1>2, <1>3, <1>4, <1>5 DEF ParserInv

LEMMA EndingKeeps == ParserInv /\ (TooManyLines \/ EndOfFile) => ParserInv'
<1>. SUFFICES ASSUME ParserInv, TooManyLines \/ EndOfFile PROVE ParserInv'
  OBVIOUS
<1>1. /\ reader = "none" /\ reader' = "none"
      /\ UNCHANGED <<lines, program_lines, content, status>>
      /\ stage' = "parsed" => line_number > Len(lines)
  BY DEF TooManyLines, EndOfFile
<1>2. lines \in Seq(Seq(Copied)) /\ program_lines \in Seq(Row)
  BY FilesCopied DEF ParserInv, Typed
<1>3. Typed'
  BY <1>1, <1>2 DEF ParserInv, Typed, line_number
<1>4. RowsPlaced' /\ NotBoth'
  BY <1>1 DEF ParserInv, RowsPlaced, NotBoth
<1>5. Cursor' /\ LabelRead' /\ Labelled' /\ DirectiveRead' /\ InstructionRead' /\ LineRead'
  BY <1>1 DEF Cursor, Readers, LabelRead, Labelled, DirectiveRead, InstructionRead, LineRead
<1>. QED
  BY <1>3, <1>4, <1>5 DEF ParserInv

LEMMA ClassifyKeeps == ParserInv /\ Classify => ParserInv'
<1>. SUFFICES ASSUME ParserInv, Classify PROVE ParserInv'
  OBVIOUS
<1>. DEFINE row == [content EXCEPT !.type = Type]
<1>1. /\ reader = "classify" /\ reader' = "none" /\ stage = "read" /\ stage' \in {"read", "failed"}
      /\ program_lines' = Append(program_lines, row)
      /\ UNCHANGED <<lines, content, status>>
  BY DEF Classify
<1>2. Type \in RowTypes
  <2>1. CASE status.directive = -1 /\ status.instruction = -1 /\ status.label > 0
    BY <2>1 DEF Type, RowTypes
  <2>2. CASE status.directive = 0
    BY <2>2 DEF Type, RowTypes
  <2>3. CASE status.directive = -1 /\ status.instruction = 0
    BY <2>3 DEF Type, RowTypes
  <2>4. CASE /\ ~(status.directive = -1 /\ status.instruction = -1 /\ status.label > 0)
             /\ status.directive # 0
             /\ ~(status.directive = -1 /\ status.instruction = 0)
    BY <2>4 DEF Type, RowTypes
  <2>. QED
    BY <2>1, <2>2, <2>3, <2>4
<1>3. row \in Row /\ row.label = content.label /\ row.name = content.name /\ row.args = content.args
  BY <1>2 DEF ParserInv, Typed, Row
<1>4. Tokens(row) = Tokens(content)
  BY <1>3 DEF Tokens
<1>. HIDE DEF row
<1>5. program_lines' \in Seq(Row)
  BY <1>1, <1>3 DEF ParserInv, Typed
<1>6. Typed'
  BY <1>1, <1>5 DEF ParserInv, Typed
<1>7. RowsPlaced'
  <2>. SUFFICES ASSUME NEW k \in DOMAIN program_lines'
                PROVE  /\ k \in DOMAIN lines
                       /\ Ended(lines[k]) =>
                             Placed(Tokens(program_lines'[k]), lines[k], Len(lines[k]) + 1)
    BY <1>1 DEF RowsPlaced
  <2>1. program_lines \in Seq(Row)
    BY DEF ParserInv, Typed
  <2>2. CASE k \in DOMAIN program_lines
    <3>1. program_lines'[k] = program_lines[k]
      BY <1>1, <2>1, <2>2
    <3>. QED
      BY <2>2, <3>1 DEF ParserInv, RowsPlaced
  <2>3. CASE k \notin DOMAIN program_lines
    <3>1. k = line_number /\ program_lines'[k] = row
      BY <1>1, <2>1, <2>3 DEF line_number
    <3>2. k \in DOMAIN lines /\ lines[k] = line
      BY <1>1, <3>1, LineType DEF ParserInv, Typed, line
    <3>3. Ended(line) => Placed(Tokens(content), line, Len(line) + 1)
      BY <1>1 DEF ParserInv, LineRead
    <3>. QED
      BY <1>4, <3>1, <3>2, <3>3
  <2>. QED
    BY <2>2, <2>3
<1>8. Cursor' /\ LabelRead' /\ Labelled' /\ DirectiveRead' /\ InstructionRead' /\ LineRead'
  BY <1>1 DEF Cursor, Readers, LabelRead, Labelled, DirectiveRead, InstructionRead, LineRead
<1>9. NotBoth'
  BY <1>1 DEF ParserInv, NotBoth
<1>. QED
  BY <1>6, <1>7, <1>8, <1>9 DEF ParserInv
-----------------------------------------------------------------------------
(* The rounds of the readers.                                              *)

\* A row without a name and arguments, and one that gets its name.
LEMMA EmptyName ==
    ASSUME NEW row \in Row, row.name = << >>, row.args = << >>, NEW text \in Seq(Copied),
           NEW limit \in 1 .. Len(text) + 1, Placed(<<row.label>>, text, limit)
    PROVE  Placed(Tokens(row), text, limit)
<1>1. <<row.label>> \in Seq(Seq(Copied))
  BY RowTokens
<1>2. Placed(Append(<<row.label>>, << >>), text, limit)
  BY <1>1, EmptyPlaced
<1>. QED
  BY <1>2, RowTokens

LEMMA NewName ==
    ASSUME NEW row \in Row, row.name = << >>, row.args = << >>, NEW text \in Seq(Copied),
           NEW limit \in Nat, Placed(Tokens(row), text, limit),
           NEW a \in Nat, NEW b \in Nat, 1 <= a, limit <= a, a <= b, b <= Len(text) + 1
    PROVE  Placed(Tokens([row EXCEPT !.name = SubSeq(text, a, b - 1)]), text, b)
<1>. DEFINE token == SubSeq(text, a, b - 1)
            next == [row EXCEPT !.name = token]
<1>1. token \in Seq(Copied)
  OBVIOUS
<1>2. next \in Row /\ next.label = row.label /\ next.name = token /\ next.args = << >>
  <2>. HIDE DEF token
  <2>. QED
    BY <1>1 DEF Row
<1>. HIDE DEF next
<1>3. <<row.label>> \in Seq(Seq(Copied)) /\ row.name \in Seq(Copied)
  BY RowTokens DEF Row
<1>4. Placed(Append(<<row.label>>, row.name), text, limit)
  BY RowTokens
<1>5. Placed(<<row.label>>, text, limit)
  BY <1>3, <1>4, FrontPlaced
<1>6. Placed(Append(<<row.label>>, token), text, b)
  BY <1>3, <1>5, TokenPlaced
<1>7. Tokens(next) = Append(<<row.label>>, token)
  BY <1>2, RowTokens
<1>. QED
  BY <1>6, <1>7 DEF next

\* What every round leaves alone.
LEMMA RoundFrame ==
    ASSUME ParserInv, stage = "read", stage' # "parsed", reader \in Readers,
           UNCHANGED <<lines, program_lines>>, content' \in Row, status' \in Statuses,
           reader' \in {"label", "directive", "instruction", "classify"}
    PROVE  /\ Typed' /\ RowsPlaced'
           /\ line' = line /\ line \in Seq(Copied) /\ Len(line) \in Nat
<1>1. line' = line
  BY DEF line, line_number
<1>2. Typed'
  BY DEF ParserInv, Typed, line_number, Readers
<1>3. RowsPlaced'
  BY DEF ParserInv, RowsPlaced
<1>4. line \in Seq(Copied)
  BY LineType DEF ParserInv, Typed, Readers
<1>. QED
  BY <1>1, <1>2, <1>3, <1>4

LEMMA StartLabelKeeps == ParserInv /\ StartLabel => ParserInv'
<1>. SUFFICES ASSUME ParserInv, StartLabel PROVE ParserInv'
  OBVIOUS
<1>1. /\ reader = "label" /\ reader' = "label" /\ stage = "read" /\ stage' = "read"
      /\ UNCHANGED <<lines, program_lines, content, status>>
      /\ current_func' = current_func + 1 /\ ~LastTest /\ InText
      /\ last_test_position' = position /\ position' = position + 1
  BY DEF StartLabel, Loop, Reading
<1>2. Typed' /\ RowsPlaced' /\ line' = line /\ line \in Seq(Copied) /\ Len(line) \in Nat
  BY <1>1, RoundFrame DEF ParserInv, Typed, Readers
<1>3. Cursor'
  <2>1. current_func' = 2 /\ current_func' \in DOMAIN TestFunc["label"]
    BY <1>1, LabelTests DEF ParserInv, Cursor, Readers, TestFunc
  <2>2. position \in Nat /\ 1 <= position
    <3>1. 1 <= last_test_position /\ last_test_position <= position
          /\ last_test_position \in Nat /\ position \in Nat
      BY <1>1 DEF ParserInv, Cursor, Readers
    <3>. QED
      BY <3>1
  <2>3. position <= Len(line)
    BY <1>1 DEF InText
  <2>. QED
    BY <1>1, <1>2, <2>1, <2>2, <2>3 DEF Cursor
<1>4. LabelRead' /\ Labelled' /\ DirectiveRead' /\ InstructionRead' /\ LineRead' /\ NotBoth'
  BY <1>1 DEF ParserInv, LabelRead, Labelled, DirectiveRead, InstructionRead, LineRead, NotBoth
<1>. QED
  BY <1>2, <1>3, <1>4 DEF ParserInv

LEMMA EndLabelKeeps == ParserInv /\ EndLabel => ParserInv'
<1>. SUFFICES ASSUME ParserInv, EndLabel PROVE ParserInv'
  OBVIOUS
<1>1. /\ reader = "label" /\ stage = "read" /\ stage' = "read" /\ reader' = "directive"
      /\ UNCHANGED <<lines, program_lines>>
      /\ content = NoContent /\ status = NoStatus
      /\ content \in Row /\ status \in Statuses
      /\ position' = Rest' /\ last_test_position' = Rest' /\ current_func' = 1
  BY DEF EndLabel, Loop, Reading, ParserInv, Typed, LabelRead, Enter, Rest
<1>2. /\ last_test_position \in Nat /\ position \in Nat
      /\ 1 <= last_test_position /\ last_test_position <= position
      /\ position <= Len(line) + 1
  BY <1>1 DEF ParserInv, Cursor, Readers
<1>3. /\ line \in Seq(Copied) /\ Len(line) \in Nat /\ Len(line) >= 1 /\ line' = line
      /\ line[Len(line)] = Newline => \A p \in DOMAIN line : line[p].class = ":" => p # Len(line)
  <2>1. line \in Seq(Copied) /\ line # << >>
    BY <1>1, LineType DEF ParserInv, Typed
  <2>. QED
    BY <1>1, <2>1 DEF line, line_number, Newline, Piece
<1>4. /\ content' \in Row /\ status' \in Statuses
      /\ content'.name = << >> /\ content'.args = << >>
      /\ status'.directive = -1 /\ status'.instruction = -1
      /\ Rest' \in 1 .. Len(line) + 1
      /\ Ended(line) => Rest' <= Len(line) /\ Placed(<<content'.label>>, line, Rest')
  <2>1. CASE InText /\ line[position].class = ":"
    <3>1. content' = [content EXCEPT !.label = Token] /\ status' = [status EXCEPT !.label = position + 1]
      BY <2>1 DEF EndLabel
    <3>2. Token \in Seq(Copied)
      BY <1>2, <1>3 DEF Token
    <3>3. /\ content' \in Row /\ content'.label = Token
          /\ content'.name = << >> /\ content'.args = << >>
      <4>1. content.name = << >> /\ content.args = << >>
        BY <1>1 DEF NoContent
      <4>. QED
        BY <1>1, <3>1, <3>2, <4>1 DEF Row
    <3>4. /\ status' \in Statuses /\ status'.label = position + 1
          /\ status'.directive = -1 /\ status'.instruction = -1
      BY <1>1, <1>2, <3>1 DEF NoStatus, Statuses
    <3>5. Rest' = position + 1 /\ position <= Len(line)
      BY <1>2, <2>1, <3>4 DEF Rest, InText
    <3>6. ASSUME Ended(line) PROVE position + 1 <= Len(line)
      BY <1>2, <1>3, <2>1, <3>5, <3>6 DEF Ended
    <3>7. Placed(<<Token>>, line, position + 1)
      <4>1. Placed(Append(<< >>, SubSeq(line, last_test_position, position - 1)), line, position)
        <5>1. << >> \in Seq(Seq(Copied)) /\ Placed(<< >>, line, 1)
          BY NothingPlaced
        <5>. QED
          BY <1>2, <1>3, <5>1, TokenPlaced
      <4>2. Append(<< >>, Token) = <<Token>>
        BY <3>2
      <4>3. Placed(<<Token>>, line, position)
        BY <4>1, <4>2 DEF Token
      <4>. QED
        BY <1>2, <4>3, PlacedWider
    <3>. QED
      BY <1>2, <1>3, <3>3, <3>4, <3>5, <3>6, <3>7
  <2>2. CASE ~(InText /\ line[position].class = ":")
    <3>1. content' = content /\ status' = status
      BY <2>2 DEF EndLabel
    <3>2. Rest' = 1
      BY <1>1, <3>1 DEF Rest, NoStatus
    <3>3. Placed(<<content'.label>>, line, 1)
      <4>1. << >> \in Seq(Seq(Copied)) /\ Placed(<< >>, line, 1) /\ 1 \in 1 .. Len(line) + 1
        BY <1>3, NothingPlaced
      <4>2. Placed(Append(<< >>, << >>), line, 1)
        BY <1>3, <4>1, EmptyPlaced
      <4>3. Append(<< >>, << >>) = << << >> >> /\ content'.label = << >>
        BY <1>1, <3>1 DEF NoContent
      <4>. QED
        BY <4>2, <4>3
    <3>. QED
      BY <1>1, <1>3, <3>1, <3>2, <3>3 DEF NoContent, NoStatus
  <2>. QED
    BY <2>1, <2>2
<1>5. Typed' /\ RowsPlaced'
  BY <1>1, <1>4, RoundFrame DEF Readers
<1>6. Cursor'
  BY <1>1, <1>3, <1>4 DEF Cursor, TestFunc
<1>7. Labelled'
  BY <1>1, <1>3, <1>4 DEF Labelled
<1>8. DirectiveRead'
  <2>1. Ended(line) => Placed(Tokens(content'), line, Rest')
    BY <1>3, <1>4, EmptyName
  <2>2. (Tokens(content))' = Tokens(content')
    BY DEF Tokens
  <2>3. BlankUpTo(line, Rest', Rest')
    BY <1>3, <1>4 DEF BlankUpTo
  <2>. QED
    BY <1>1, <1>3, <1>4, <2>1, <2>2, <2>3 DEF DirectiveRead
<1>9. LabelRead' /\ InstructionRead' /\ LineRead' /\ NotBoth'
  BY <1>1, <1>4 DEF LabelRead, InstructionRead, LineRead, NotBoth
<1>. QED
  BY <1>5, <1>6, <1>7, <1>8, <1>9 DEF ParserInv
\* Where a reader stands, and on what.
LEMMA Standing ==
    ASSUME ParserInv, stage = "read", reader \in Readers
    PROVE  /\ last_test_position \in Nat /\ position \in Nat
           /\ 1 <= last_test_position /\ last_test_position <= position
           /\ position <= Len(line) + 1
           /\ current_func \in DOMAIN TestFunc[reader]
           /\ line \in Seq(Copied) /\ Len(line) \in Nat
           /\ content \in Row /\ status \in Statuses
           /\ lines \in Files /\ program_lines \in Seq(Row)
<1>1. line \in Seq(Copied)
  BY LineType DEF ParserInv, Typed, Readers
<1>2. Len(line) \in Nat
  BY <1>1
<1>. QED
  BY <1>1, <1>2 DEF ParserInv, Cursor, Typed

\* A held instruction reader stands at its dot as soon as a test fails, and
\* passes nothing but blanks.
LEMMA HeldStands ==
    ASSUME ParserInv, stage = "read", reader = "instruction", InText,
           NEW d \in Nat, DotAt(line, Rest, d),
           current_func = 1 => position <= d,
           current_func > 1 => position = d /\ last_test_position = d
    PROVE  /\ Passes => current_func = 1 /\ position < d
           /\ ~Passes => position = d
<1>1. /\ position \in Nat /\ position <= Len(line) /\ Len(line) \in Nat
      /\ Rest \in Nat /\ Rest <= position
      /\ current_func \in 1 .. 5
      /\ current_func = 1 => Passed[Test] = {"blank"}
      /\ current_func > 1 => "." \notin Passed[Test]
  <2>1. /\ last_test_position \in Nat /\ position \in Nat /\ last_test_position <= position
        /\ current_func \in DOMAIN TestFunc[reader] /\ Len(line) \in Nat
    BY Standing DEF Readers
  <2>2. Rest \in Nat /\ Rest <= last_test_position
    BY <2>1 DEF ParserInv, Labelled
  <2>3. position <= Len(line)
    BY DEF InText
  <2>. QED
    BY <2>1, <2>2, <2>3, InstructionTests
<1>2. /\ d <= Len(line) => line[d].class = "."
      /\ \A q \in Rest .. d - 1 : line[q].class = "blank"
  BY DEF DotAt, BlankUpTo
<1>3. CASE current_func = 1
  <2>1. Passes <=> line[position].class = "blank"
    BY <1>1, <1>3 DEF Passes
  <2>2. position < d => position \in Rest .. d - 1
    BY <1>1
  <2>. QED
    BY <1>1, <1>2, <1>3, <2>1, <2>2
<1>4. CASE current_func > 1
  <2>1. position = d /\ line[position].class = "."
    BY <1>1, <1>2, <1>4
  <2>2. ~Passes
    BY <1>1, <1>4, <2>1 DEF Passes
  <2>. QED
    BY <2>1, <2>2
<1>. QED
  BY <1>1, <1>3, <1>4

LEMMA PassTestKeeps == ParserInv /\ PassTest => ParserInv'
<1>. SUFFICES ASSUME ParserInv, PassTest PROVE ParserInv'
  OBVIOUS
<1>1. /\ reader \in Readers /\ reader' = reader /\ stage = "read" /\ stage' = "read"
      /\ UNCHANGED <<lines, program_lines, content, status, last_test_position>>
      /\ InText /\ Passes
      /\ position' = position + 1
      /\ current_func' = IF Test = "iscoma" THEN current_func - 2 ELSE current_func
  BY DEF PassTest, Loop, Reading
<1>2. /\ last_test_position \in Nat /\ position \in Nat
      /\ 1 <= last_test_position /\ last_test_position <= position
      /\ position <= Len(line) /\ Len(line) \in Nat
      /\ current_func \in DOMAIN TestFunc[reader]
  BY <1>1, Standing DEF InText
<1>3. Typed' /\ RowsPlaced' /\ line' = line /\ Rest' = Rest /\ Tokens(content)' = Tokens(content)
  <2>1. Typed' /\ RowsPlaced' /\ line' = line
    BY <1>1, Standing, RoundFrame DEF Readers
  <2>. QED
    BY <1>1, <2>1 DEF Rest, Tokens
<1>4. current_func' \in DOMAIN TestFunc[reader]
  <2>1. CASE reader = "label"
    BY <1>1, <1>2, <2>1, LabelTests
  <2>2. CASE reader = "directive"
    BY <1>1, <1>2, <2>2, DirectiveTests DEF TestFunc
  <2>3. CASE reader = "instruction"
    BY <1>1, <1>2, <2>3, InstructionTests DEF TestFunc
  <2>. QED
    BY <1>1, <2>1, <2>2, <2>3 DEF Readers
<1>5. Cursor'
  BY <1>1, <1>2, <1>3, <1>4 DEF Cursor
<1>6. LabelRead' /\ LineRead' /\ NotBoth'
  BY <1>1 DEF ParserInv, LabelRead, LineRead, NotBoth, Readers
<1>7. Labelled'
  BY <1>1, <1>3 DEF ParserInv, Labelled
<1>8. DirectiveRead'
  <2>. SUFFICES ASSUME reader = "directive" PROVE DirectiveRead'
    BY <1>1 DEF DirectiveRead
  <2>1. /\ current_func \in 1 .. 6
        /\ Test = "iscoma" <=> current_func = 6
        /\ current_func = 1 => Passed[Test] = {"blank"}
        /\ current_func = 2 => Passed[Test] = {"."}
    BY <1>2, DirectiveTests
  <2>2. /\ current_func = 6 => current_func' = 4
        /\ current_func # 6 => current_func' = current_func
    BY <1>1, <2>1
  <2>3. current_func = 1 => BlankUpTo(line, Rest, position + 1)
    <3>. SUFFICES ASSUME current_func = 1, NEW q \in Rest .. position
                  PROVE  line[q].class = "blank"
      BY <1>2 DEF BlankUpTo
    <3>1. BlankUpTo(line, Rest, position) /\ line[position].class = "blank" /\ Rest \in Nat
      BY <1>1, <2>1 DEF ParserInv, DirectiveRead, Labelled, Passes
    <3>. QED
      BY <1>2, <3>1 DEF BlankUpTo
  <2>4. current_func = 2 => line[last_test_position].class = "."
    BY <1>1, <1>2, <2>1 DEF ParserInv, DirectiveRead, Passes
  <2>. QED
    BY <1>1, <1>2, <1>3, <2>1, <2>2, <2>3, <2>4 DEF ParserInv, DirectiveRead
<1>9. InstructionRead'
  <2>. SUFFICES ASSUME reader = "instruction" PROVE (Reads \/ Held)'
    BY <1>1 DEF InstructionRead
  <2>1. /\ current_func \in 1 .. 5
        /\ Test = "iscoma" <=> current_func = 5
    BY <1>2, InstructionTests
  <2>2. /\ current_func = 5 => current_func' = 3
        /\ current_func # 5 => current_func' = current_func
    BY <1>1, <2>1
  <2>3. CASE Reads
    BY <1>1, <1>3, <2>1, <2>2, <2>3 DEF Reads
  <2>4. CASE Held
    <3>1. PICK d \in Nat : /\ DotAt(line, Rest, d)
                           /\ current_func = 1 => position <= d
                           /\ current_func > 1 => position = d /\ last_test_position = d
      BY <2>4 DEF Held
    <3>2. current_func = 1 /\ position < d
      BY <1>1, <3>1, HeldStands
    <3>3. current_func' = 1 /\ position' <= d
      BY <1>1, <1>2, <2>2, <3>2
    <3>. QED
      BY <1>1, <1>3, <2>4, <3>1, <3>3 DEF Held
  <2>. QED
    BY <2>3, <2>4 DEF ParserInv, InstructionRead
<1>. QED
  BY <1>3, <1>5, <1>6, <1>7, <1>8, <1>9 DEF ParserInv
\* What is copied stands in the line, behind what was copied before.
LEMMA CopyPlaced ==
    ASSUME ParserInv, stage = "read", reader \in {"directive", "instruction"}, CopyToken,
           NameTest[reader] # ArgumentTest[reader],
           current_func = NameTest[reader] => content.name = << >> /\ content.args = << >>,
           Ended(line) => Placed(Tokens(content), line, last_test_position)
    PROVE  /\ content' \in Row /\ status' \in Statuses
           /\ content'.label = content.label /\ status'.label = status.label
           /\ Ended(line) => Placed(Tokens(content'), line, position)
           /\ status' = status \/ status' = [status EXCEPT ![reader] = 0]
           /\ stage' \in {"read", "overrun"}
           /\ (position = last_test_position
                  \/ current_func \notin {NameTest[reader], ArgumentTest[reader]})
              => content' = content /\ status' = status
           /\ current_func # NameTest[reader] => status' = status
<1>1. /\ last_test_position \in Nat /\ position \in Nat
      /\ 1 <= last_test_position /\ last_test_position <= position
      /\ position <= Len(line) + 1
      /\ line \in Seq(Copied) /\ Len(line) \in Nat
      /\ content \in Row /\ status \in Statuses
  BY Standing DEF Readers
<1>2. Token \in Seq(Copied) /\ Token = SubSeq(line, last_test_position, position - 1)
  BY <1>1 DEF Token
<1>3. Ended(line) => Placed(Tokens(content), line, position)
  BY <1>1, PlacedWider
<1>4. CASE position # last_test_position /\ current_func = NameTest[reader]
  <2>1. content' = [content EXCEPT !.name = Token] /\ status' = [status EXCEPT ![reader] = 0]
        /\ stage' = stage
    BY <1>4 DEF CopyToken
  <2>2. content' \in Row /\ content'.label = content.label
    BY <1>1, <1>2, <2>1 DEF Row
  <2>3. status' \in Statuses /\ status'.label = status.label
    BY <1>1, <2>1 DEF Statuses
  <2>4. ASSUME Ended(line) PROVE Placed(Tokens(content'), line, position)
    <3>1. content.name = << >> /\ content.args = << >> /\ last_test_position <= last_test_position
      BY <1>1, <1>4
    <3>2. Placed(Tokens(content), line, last_test_position)
      BY <2>4
    <3>3. Placed(Tokens([content EXCEPT !.name = SubSeq(line, last_test_position, position - 1)]),
                 line, position)
      BY <1>1, <3>1, <3>2, NewName, Zenon
    <3>. QED
      BY <1>2, <2>1, <3>3
  <2>. QED
    BY <1>4, <2>1, <2>2, <2>3, <2>4
<1>5. CASE /\ position # last_test_position /\ current_func # NameTest[reader]
           /\ current_func = ArgumentTest[reader] /\ Len(content.args) # MaxArguments
  <2>1. content' = [content EXCEPT !.args = Append(@, Token)] /\ status' = status /\ stage' = stage
    BY <1>5 DEF CopyToken
  <2>2. content' \in Row /\ Tokens(content') = Append(Tokens(content), Token)
    BY <1>1, <1>2, <2>1, ArgumentTokens
  <2>3. content'.label = content.label
    BY <1>1, <2>1 DEF Row
  <2>4. ASSUME Ended(line) PROVE Placed(Append(Tokens(content), Token), line, position)
    <3>1. Tokens(content) \in Seq(Seq(Copied))
      BY <1>1, RowTokens
    <3>2. last_test_position <= last_test_position
      BY <1>1
    <3>3. Placed(Tokens(content), line, last_test_position)
      BY <2>4
    <3>4. Placed(Append(Tokens(content), SubSeq(line, last_test_position, position - 1)), line,
                 position)
      BY <1>1, <3>1, <3>2, <3>3, TokenPlaced, Zenon
    <3>. QED
      BY <1>2, <3>4
  <2>. QED
    BY <1>1, <1>5, <2>1, <2>2, <2>3, <2>4
<1>6. CASE /\ position # last_test_position /\ current_func # NameTest[reader]
           /\ current_func = ArgumentTest[reader] /\ Len(content.args) = MaxArguments
  BY <1>1, <1>3, <1>6 DEF CopyToken
<1>7. CASE position = last_test_position
           \/ current_func \notin {NameTest[reader], ArgumentTest[reader]}
  BY <1>1, <1>3, <1>7 DEF CopyToken
<1>. QED
  BY <1>4, <1>5, <1>6, <1>7

LEMMA FailTestKeeps == ParserInv /\ FailTest => ParserInv'
<1>. SUFFICES ASSUME ParserInv, FailTest PROVE ParserInv'
  OBVIOUS
<1>1. /\ reader \in {"directive", "instruction"} /\ reader' = reader /\ stage = "read"
      /\ UNCHANGED <<lines, program_lines, position>>
      /\ InText /\ ~Passes /\ ~NoDot /\ ~LastTest /\ CopyToken
      /\ current_func' = current_func + 1 /\ last_test_position' = position
  BY DEF FailTest, NextTest, Loop, Reading
<1>2. /\ last_test_position \in Nat /\ position \in Nat
      /\ 1 <= last_test_position /\ last_test_position <= position
      /\ position <= Len(line) /\ Len(line) \in Nat
      /\ current_func \in DOMAIN TestFunc[reader]
      /\ status \in Statuses
  BY <1>1, Standing DEF InText, Readers
<1>3. line' = line
  BY <1>1 DEF line, line_number
<1>4. Rest \in Nat /\ Rest <= last_test_position
  BY <1>1, <1>2 DEF ParserInv, Labelled
<1>5. Tokens(content)' = Tokens(content')
  BY DEF Tokens
<1>6. CASE reader = "directive"
  <2>1. /\ current_func \in 1 .. 6 /\ current_func # 6
        /\ Test = "isdot" <=> current_func = 2
        /\ current_func = 1 => Passed[Test] = {"blank"}
        /\ NameTest[reader] = 3 /\ ArgumentTest[reader] = 5
    BY <1>1, <1>2, <1>6, DirectiveTests
  <2>2. DirectiveRead /\ status.instruction = -1
    BY <1>6 DEF ParserInv, DirectiveRead
  <2>3. /\ content' \in Row /\ status' \in Statuses
        /\ content'.label = content.label /\ status'.label = status.label
        /\ Ended(line) => Placed(Tokens(content'), line, position)
        /\ status' = status \/ status' = [status EXCEPT !["directive"] = 0]
        /\ stage' \in {"read", "overrun"}
        /\ current_func \notin {3, 5} => content' = content /\ status' = status
    BY <1>1, <1>6, <2>1, <2>2, CopyPlaced DEF DirectiveRead
  <2>4. Typed' /\ RowsPlaced'
    BY <1>1, <2>3, RoundFrame DEF Readers
  <2>5. Rest' = Rest
    BY <2>3 DEF Rest
  <2>6. Cursor'
    BY <1>1, <1>2, <1>3, <1>6, <2>1 DEF Cursor, TestFunc
  <2>7. Labelled'
    BY <1>1, <1>2, <1>3, <1>4, <1>6, <2>3, <2>5 DEF ParserInv, Labelled
  <2>8. status'.instruction = -1
    BY <1>2, <2>2, <2>3 DEF Statuses
  <2>9. DirectiveRead'
    <3>1. CASE current_func = 1
      BY <1>1, <1>2, <1>3, <1>5, <2>2, <2>3, <2>5, <2>8, <3>1 DEF DirectiveRead
    <3>2. CASE current_func = 2
      <4>1. position > last_test_position
        BY <1>1, <1>2, <2>1, <3>2 DEF NoDot
      <4>2. line[last_test_position].class = "." /\ BlankUpTo(line, Rest, last_test_position)
        BY <1>6, <2>2, <3>2, <4>1 DEF DirectiveRead
      <4>3. DotAt(line, Rest, last_test_position)
        BY <1>2, <1>4, <4>2 DEF DotAt
      <4>. QED
        BY <1>1, <1>2, <1>3, <1>5, <1>6, <2>2, <2>3, <2>5, <2>8, <3>2, <4>3 DEF DirectiveRead
    <3>3. CASE current_func >= 3
      BY <1>1, <1>2, <1>3, <1>5, <1>6, <2>1, <2>2, <2>3, <2>5, <2>8, <3>3 DEF DirectiveRead
    <3>. QED
      BY <2>1, <3>1, <3>2, <3>3
  <2>10. LabelRead' /\ InstructionRead' /\ LineRead' /\ NotBoth'
    BY <1>1, <1>6, <2>8 DEF LabelRead, InstructionRead, LineRead, NotBoth
  <2>. QED
    BY <2>4, <2>6, <2>7, <2>9, <2>10 DEF ParserInv
<1>7. CASE reader = "instruction"
  <2>1. /\ current_func \in 1 .. 5 /\ current_func # 5
        /\ NameTest[reader] = 2 /\ ArgumentTest[reader] = 4
    BY <1>1, <1>2, <1>7, InstructionTests
  <2>2. /\ content' \in Row /\ status' \in Statuses
        /\ content'.label = content.label /\ status'.label = status.label
        /\ stage' \in {"read", "overrun"}
        /\ (Reads \/ Held)' /\ NotBoth'
    <3>1. CASE Reads
      <4>1. /\ content' \in Row /\ status' \in Statuses
            /\ content'.label = content.label /\ status'.label = status.label
            /\ Ended(line) => Placed(Tokens(content'), line, position)
            /\ status' = status \/ status' = [status EXCEPT !["instruction"] = 0]
            /\ stage' \in {"read", "overrun"}
            /\ current_func \notin {2, 4} => content' = content /\ status' = status
        BY <1>1, <1>7, <2>1, <3>1, CopyPlaced DEF Reads
      <4>2. status'.directive = -1
        BY <1>2, <3>1, <4>1 DEF Reads, Statuses
      <4>3. Reads'
        BY <1>1, <1>3, <1>5, <2>1, <3>1, <4>1, <4>2 DEF Reads
      <4>. QED
        BY <4>1, <4>2, <4>3 DEF NotBoth
    <3>2. CASE Held
      <4>1. PICK d \in Nat : /\ DotAt(line, Rest, d)
                             /\ current_func = 1 => position <= d
                             /\ current_func > 1 => position = d /\ last_test_position = d
        BY <3>2 DEF Held
      <4>2. position = d
        BY <1>1, <1>7, <4>1, HeldStands
      <4>3. position = last_test_position \/ current_func \notin {2, 4}
        BY <2>1, <4>1, <4>2
      <4>4. content' = content /\ status' = status /\ stage' \in {"read", "overrun"}
        BY <1>1, <2>1, <4>3 DEF CopyToken
      <4>5. current_func' > 1 /\ position' = d /\ last_test_position' = d
        BY <1>1, <2>1, <4>2
      <4>6. Rest' = Rest
        BY <4>4 DEF Rest
      <4>7. Held'
        BY <1>1, <1>3, <1>5, <2>1, <3>2, <4>1, <4>4, <4>5, <4>6 DEF Held
      <4>. QED
        BY <1>1, <1>2, <4>4, <4>7, Standing DEF ParserInv, NotBoth, Readers
    <3>. QED
      BY <1>7, <3>1, <3>2 DEF ParserInv, InstructionRead
  <2>3. Typed' /\ RowsPlaced'
    BY <1>1, <2>2, RoundFrame DEF Readers
  <2>4. Rest' = Rest
    BY <2>2 DEF Rest
  <2>5. Cursor'
    BY <1>1, <1>2, <1>3, <1>7, <2>1 DEF Cursor, TestFunc
  <2>6. Labelled'
    BY <1>1, <1>2, <1>3, <1>4, <1>7, <2>2, <2>4 DEF ParserInv, Labelled
  <2>7. LabelRead' /\ DirectiveRead' /\ InstructionRead' /\ LineRead'
    BY <1>1, <1>7, <2>2 DEF LabelRead, DirectiveRead, InstructionRead, LineRead
  <2>. QED
    BY <2>2, <2>3, <2>5, <2>6, <2>7 DEF ParserInv
<1>. QED
  BY <1>1, <1>6, <1>7
LEMMA EndReaderKeeps == ParserInv /\ EndReader => ParserInv'
<1>. SUFFICES ASSUME ParserInv, EndReader PROVE ParserInv'
  OBVIOUS
<1>1. /\ reader \in {"directive", "instruction"} /\ stage = "read" /\ stage' = "read"
      /\ UNCHANGED <<lines, program_lines, content, status>>
  BY DEF EndReader, Loop, Reading
<1>2. /\ last_test_position \in Nat /\ position \in Nat
      /\ 1 <= last_test_position /\ last_test_position <= position
      /\ position <= Len(line) + 1 /\ Len(line) \in Nat /\ line \in Seq(Copied)
      /\ current_func \in DOMAIN TestFunc[reader]
      /\ content \in Row /\ status \in Statuses
  BY <1>1, Standing DEF Readers
<1>3. line' = line /\ Rest' = Rest /\ Tokens(content)' = Tokens(content)
  BY <1>1 DEF line, line_number, Rest, Tokens
<1>4. NotBoth'
  BY <1>1 DEF ParserInv, NotBoth
<1>5. CASE reader = "directive"
  <2>1. /\ reader' = "instruction"
        /\ position' = Rest /\ last_test_position' = Rest /\ current_func' = 1
    BY <1>5 DEF EndReader, Enter
  <2>2. /\ Rest \in 1 .. Len(line) + 1 /\ Rest \in Nat
        /\ Ended(line) => Placed(<<content.label>>, line, Rest)
    BY <1>2, <1>5 DEF ParserInv, Labelled
  <2>3. DirectiveRead
    BY DEF ParserInv
  <2>4. Reads' \/ Held'
    <3>1. CASE current_func <= 2
      <4>1. content.name = << >> /\ content.args = << >> /\ status.directive = -1
        <5>1. current_func <= 3
          BY <1>2, <1>5, <3>1, DirectiveTests
        <5>. QED
          BY <1>5, <2>3, <5>1 DEF DirectiveRead
      <4>2. Ended(line) => Placed(Tokens(content), line, Rest)
        BY <1>2, <2>2, <4>1, EmptyName
      <4>. QED
        BY <1>1, <1>3, <2>1, <4>1, <4>2 DEF Reads
    <3>2. CASE current_func > 2
      <4>1. PICK d \in Nat : DotAt(line, Rest, d)
        <5>1. current_func >= 3
          BY <1>2, <1>5, <3>2, DirectiveTests
        <5>. QED
          BY <1>5, <2>3, <5>1 DEF DirectiveRead
      <4>2. Rest <= d
        BY <2>2, <4>1 DEF DotAt
      <4>3. Ended(line) => Placed(Tokens(content), line, Len(line) + 1)
        <5>1. Ended(line) => Placed(Tokens(content), line, last_test_position)
          BY <1>5, <2>3 DEF DirectiveRead
        <5>2. last_test_position <= Len(line) + 1 /\ Len(line) + 1 \in Nat
          BY <1>2
        <5>. QED
          BY <1>2, <5>1, <5>2, PlacedWider
      <4>4. status.instruction = -1
        BY <1>5, <2>3 DEF DirectiveRead
      <4>. QED
        BY <1>1, <1>3, <2>1, <4>1, <4>2, <4>3, <4>4 DEF Held
    <3>. QED
      BY <1>2, <1>5, <3>1, <3>2, DirectiveTests
  <2>5. Typed' /\ RowsPlaced'
    BY <1>1, <1>2, <2>1, RoundFrame DEF Readers
  <2>6. Cursor'
    BY <1>2, <1>3, <2>1, <2>2 DEF Cursor, TestFunc
  <2>7. Labelled'
    BY <1>1, <1>2, <1>3, <1>5, <2>1, <2>2 DEF ParserInv, Labelled
  <2>8. LabelRead' /\ DirectiveRead' /\ InstructionRead' /\ LineRead'
    BY <2>1, <2>4 DEF LabelRead, DirectiveRead, InstructionRead, LineRead
  <2>. QED
    BY <1>4, <2>5, <2>6, <2>7, <2>8 DEF ParserInv
<1>6. CASE reader = "instruction"
  <2>1. reader' = "classify"
    BY <1>6 DEF EndReader
  <2>2. Typed' /\ RowsPlaced'
    BY <1>1, <1>2, <2>1, RoundFrame DEF Readers
  <2>3. Ended(line) => Placed(Tokens(content), line, Len(line) + 1)
    <3>1. CASE Reads
      <4>1. last_test_position <= Len(line) + 1 /\ Len(line) + 1 \in Nat
        BY <1>2
      <4>. QED
        BY <1>2, <3>1, <4>1, PlacedWider DEF Reads
    <3>2. CASE Held
      BY <3>2 DEF Held
    <3>. QED
      BY <1>6, <3>1, <3>2 DEF ParserInv, InstructionRead
  <2>4. Cursor' /\ LabelRead' /\ Labelled' /\ DirectiveRead' /\ InstructionRead' /\ LineRead'
    BY <1>3, <2>1, <2>3 DEF Cursor, Readers, LabelRead, Labelled, DirectiveRead, InstructionRead,
                            LineRead
  <2>. QED
    BY <1>4, <2>2, <2>4 DEF ParserInv
<1>. QED
  BY <1>1, <1>5, <1>6

\* A line that is cut short has no newline, and what is left of it begins
\* with the dot, or is nothing.
LEMMA CutAtDot ==
    ASSUME NEW text \in Seq(Copied), NEW from \in 1 .. Len(text) + 1,
           LET rest == SubSeq(text, from, Len(text))
           IN  \/ rest \in {<< >>, <<Dot>>, <<Dot, Piece("letters", "text"), Dot>>}
               \/ \E word \in {"t", "te", "tex", "text"} : rest = <<Dot, Piece("letters", word)>>
    PROVE  /\ DotAt(text, from, from)
           /\ from <= Len(text) => ~Ended(text)
<1>. DEFINE rest == SubSeq(text, from, Len(text))
<1>1. from \in Nat /\ from >= 1 /\ Len(text) \in Nat /\ from <= Len(text) + 1
  OBVIOUS
<1>2. CASE from > Len(text)
  BY <1>1, <1>2 DEF DotAt, BlankUpTo
<1>3. CASE from <= Len(text)
  <2>1. Len(rest) >= 1 /\ rest[1] = text[from] /\ rest[Len(rest)] = text[Len(text)]
    BY <1>1, <1>3
  <2>2. rest[1].class = "." /\ rest[Len(rest)].class \in {".", "letters"}
    <3>1. CASE rest = << >>
      BY <2>1, <3>1
    <3>2. CASE rest = <<Dot>>
      <4>. HIDE DEF rest
      <4>. QED
        BY <3>2 DEF Dot, Piece
    <3>3. CASE rest = <<Dot, Piece("letters", "text"), Dot>>
      <4>. HIDE DEF rest
      <4>. QED
        BY <3>3 DEF Dot, Piece
    <3>4. ASSUME NEW word \in {"t", "te", "tex", "text"}, rest = <<Dot, Piece("letters", word)>>
          PROVE  rest[1].class = "." /\ rest[Len(rest)].class \in {".", "letters"}
      <4>. HIDE DEF rest
      <4>. QED
        BY <3>4 DEF Dot, Piece
    <3>. QED
      BY <3>1, <3>2, <3>3, <3>4
  <2>. HIDE DEF rest
  <2>3. ~Ended(text)
    BY <2>1, <2>2 DEF Ended, Newline, Piece
  <2>4. DotAt(text, from, from)
    BY <1>1, <1>3, <2>1, <2>2 DEF DotAt, BlankUpTo
  <2>. QED
    BY <2>3, <2>4
<1>. QED
  BY <1>1, <1>2, <1>3

LEMMA CheckSectionKeeps == ParserInv /\ CheckSection => ParserInv'
<1>. SUFFICES ASSUME ParserInv, CheckSection PROVE ParserInv'
  OBVIOUS
<1>1. /\ reader = "directive" /\ reader' = "instruction" /\ stage = "read" /\ stage' = "read"
      /\ UNCHANGED <<lines, program_lines>>
      /\ CutSection
      /\ content' = [content EXCEPT !.name = <<Dot, Piece("letters", "text")>>]
      /\ status' = [status EXCEPT !.directive = 0]
      /\ position' = Rest /\ last_test_position' = Rest /\ current_func' = 1
  BY DEF CheckSection, Reading, Enter
<1>2. /\ line \in Seq(Copied) /\ Len(line) \in Nat /\ content \in Row /\ status \in Statuses
  BY <1>1, Standing DEF Readers
<1>3. /\ Rest \in 1 .. Len(line) + 1 /\ Rest \in Nat
      /\ Ended(line) => Rest <= Len(line)
      /\ status.instruction = -1
  BY <1>1, <1>2 DEF ParserInv, Labelled, DirectiveRead
<1>4. DotAt(line, Rest, Rest) /\ ~Ended(line)
  <2>1. DotAt(line, Rest, Rest) /\ (Rest <= Len(line) => ~Ended(line))
    BY <1>1, <1>2, <1>3, CutAtDot DEF CutSection
  <2>. QED
    BY <1>3, <2>1
<1>5. content' \in Row /\ content'.label = content.label
  <2>1. <<Dot, Piece("letters", "text")>> \in Seq(Copied)
    <3>1. Dot \in Copied /\ Piece("letters", "text") \in Copied
      BY DEF Copied
    <3>. QED
      BY <3>1
  <2>. QED
    BY <1>1, <1>2, <2>1 DEF Row
<1>6. /\ status' \in Statuses /\ status'.instruction = -1 /\ status'.label = status.label
  BY <1>1, <1>2, <1>3 DEF Statuses
<1>7. line' = line /\ Rest' = Rest
  BY <1>1, <1>6 DEF line, line_number, Rest
<1>8. Typed' /\ RowsPlaced'
  BY <1>1, <1>5, <1>6, RoundFrame DEF Readers
<1>9. Cursor'
  BY <1>1, <1>2, <1>3, <1>7 DEF Cursor, TestFunc
<1>10. Labelled'
  BY <1>1, <1>3, <1>4, <1>7 DEF Labelled
<1>11. Held'
  BY <1>1, <1>3, <1>4, <1>6, <1>7 DEF Held
<1>12. LabelRead' /\ DirectiveRead' /\ InstructionRead' /\ LineRead' /\ NotBoth'
  BY <1>1, <1>6, <1>11 DEF LabelRead, DirectiveRead, InstructionRead, LineRead, NotBoth
<1>. QED
  BY <1>8, <1>9, <1>10, <1>12 DEF ParserInv

LEMMA StutterKeeps == ParserInv /\ UNCHANGED vars => ParserInv'
<1>. SUFFICES ASSUME ParserInv, UNCHANGED vars PROVE ParserInv'
  OBVIOUS
<1>1. /\ UNCHANGED <<lines, program_lines, stage, reader, position, last_test_position>>
      /\ UNCHANGED <<current_func, content, status>>
  BY DEF vars
<1>2. line' = line /\ line_number' = line_number /\ Rest' = Rest /\ Tokens(content)' = Tokens(content)
  BY <1>1 DEF line, line_number, Rest, Tokens
<1>3. Typed' /\ RowsPlaced' /\ Cursor' /\ LabelRead' /\ Labelled' /\ LineRead' /\ NotBoth'
  BY <1>1, <1>2 DEF ParserInv, Typed, RowsPlaced, Cursor, LabelRead, Labelled, LineRead, NotBoth
<1>4. DirectiveRead' /\ InstructionRead'
  BY <1>1, <1>2 DEF ParserInv, DirectiveRead, InstructionRead, Reads, Held
<1>. QED
  BY <1>3, <1>4 DEF ParserInv

\* Whatever the file, nothing is made up: the label, the name and the
\* arguments of every row stand in its line, apart and in this order, and no
\* line is a directive and an instruction at once (parse_file).
THEOREM NothingMadeUp == Spec => []NothingInvented
<1>1. ParserInv /\ [Next]_vars => ParserInv'
  BY StartLineKeeps, EndingKeeps, ClassifyKeeps, CheckSectionKeeps, PassTestKeeps, StartLabelKeeps,
     EndLabelKeeps, FailTestKeeps, EndReaderKeeps, StutterKeeps DEF Next, Parse, Stopped
<1>. QED
  BY InitialInvariant, InvariantSuffices, <1>1, PTL DEF Spec
=============================================================================
