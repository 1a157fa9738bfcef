---------------------------- MODULE LoaderProofs ----------------------------
(***************************************************************************)
(* What the loader leaves in memory, for every linked context and every    *)
(* script: sections, vector and boot routine whole, operands and entry     *)
(* point on the items they are meant for.                                  *)
(***************************************************************************)
EXTENDS LoaderProperties, SymbolTableProofs, WordProofs

-----------------------------------------------------------------------------
(* Words.                                                                  *)

\* Moving on by d moves the address by d, as long as it does not wrap.
LEMMA MovesBy ==
    ASSUME NEW v \in Int, NEW d \in Nat, Unsigned(v) + d < Modulus
    PROVE  Unsigned(v + d) = Unsigned(v) + d
<1>1. Modulus \in Nat /\ Modulus > 0
  BY ModulusIsEven
<1>. HIDE DEF Modulus
<1>2. PICK q \in Int : v = q * Modulus + Unsigned(v)
  BY <1>1, Division DEF Unsigned
<1>. DEFINE r == Unsigned(v) + d
<1>3. Unsigned(v) \in 0 .. Modulus - 1
  BY <1>1, Remainder DEF Unsigned
<1>4. r \in 0 .. Modulus - 1 /\ v + d \in Int
  BY <1>1, <1>3
<1>5. v + d = q * Modulus + r
  <2>. DEFINE p == q * Modulus
  <2>1. p \in Int /\ v = p + Unsigned(v)
    BY <1>1, <1>2
  <2>. HIDE DEF p
  <2>2. v + d = p + r
    BY <1>3, <2>1
  <2>. QED
    BY <2>2 DEF p
<1>. HIDE DEF r
<1>6. (v + d) % Modulus = r
  BY <1>1, <1>4, <1>5, SameRemainder
<1>. QED
  BY <1>6 DEF Unsigned, r

\* What align adds.
LEMMA AlignFacts ==
    ASSUME NEW v \in Int, NEW unit \in Nat, unit # 0
    PROVE  /\ AlignUp(v, unit) - v \in 1 .. unit
           /\ AlignUp(v, unit) \in Int
           /\ (Unsigned(v) + (AlignUp(v, unit) - v)) % unit = 0
<1>. DEFINE u == Unsigned(v)
            r == u % unit
<1>1. u \in Nat
  <2>1. u \in 0 .. Modulus - 1 /\ Modulus \in Nat
    BY SignedFacts, ModulusIsEven
  <2>. HIDE DEF u
  <2>. QED
    BY <2>1
<1>2. AlignUp(v, unit) = v + unit - r
  BY DEF AlignUp
<1>. HIDE DEF u
<1>3. r \in 0 .. unit - 1
  BY <1>1, Remainder
<1>4. PICK p \in Int : u = p * unit + r
  <2>1. unit > 0 /\ u \in Int
    BY <1>1
  <2>2. \E p \in Int : u = p * unit + (u % unit)
    BY <2>1, Division, Zenon
  <2>. QED
    BY <2>2
<1>. HIDE DEF r
<1>5. AlignUp(v, unit) - v = unit - r
  BY <1>2, <1>3
<1>6. u + (unit - r) = (p + 1) * unit + 0
  BY <1>1, <1>3, <1>4
<1>7. (u + (unit - r)) % unit = 0
  BY <1>1, <1>3, <1>6, SameRemainder
<1>. QED
  BY <1>2, <1>3, <1>5, <1>7 DEF u

-----------------------------------------------------------------------------
(* Functions defined by recursion over a line or a script.                 *)

\* A first value and a step for each number make a function.
Iterates(f, N, D, first, step) ==
    /\ f \in [0 .. N -> D]
    /\ f[0] = first
    /\ \A n \in 1 .. N : f[n] = step[n][f[n - 1]]

LEMMA Iterated ==
    ASSUME NEW N \in Nat, NEW D, NEW first \in D, NEW step \in [1 .. N -> [D -> D]]
    PROVE  \E f : Iterates(f, N, D, first, step)
<1>. DEFINE Runs(f, m) == /\ f \in [0 .. m -> D] /\ f[0] = first
                          /\ \A n \in 1 .. m : f[n] = step[n][f[n - 1]]
            S == {m \in 0 .. N : \E f : Runs(f, m)}
<1>1. 0 \in S
  <2>1. Runs([n \in 0 .. 0 |-> first], 0)
    OBVIOUS
  <2>. HIDE DEF Runs
  <2>. QED
    BY <2>1
<1>2. ASSUME NEW m \in 1 .. N, m - 1 \in S PROVE m \in S
  <2>1. PICK f : Runs(f, m - 1)
    BY <1>2
  <2>. DEFINE g == [n \in 0 .. m |-> IF n = m THEN step[m][f[m - 1]] ELSE f[n]]
  <2>2. f[m - 1] \in D /\ step[m] \in [D -> D]
    BY <2>1
  <2>3. \A n \in 0 .. m : n # m => n \in 0 .. m - 1 /\ f[n] \in D
    BY <2>1
  <2>4. g \in [0 .. m -> D] /\ g[0] = first
    BY <2>1, <2>2, <2>3
  <2>5. ASSUME NEW n \in 1 .. m PROVE g[n] = step[n][g[n - 1]]
    <3>1. n - 1 \in 0 .. m /\ n - 1 # m /\ g[n - 1] = f[n - 1]
      OBVIOUS
    <3>2. n # m => n \in 1 .. m - 1 /\ g[n] = f[n]
      OBVIOUS
    <3>3. n # m => f[n] = step[n][f[n - 1]]
      BY <2>1, <3>2
    <3>4. n = m => g[n] = step[m][f[m - 1]]
      OBVIOUS
    <3>. HIDE DEF g
    <3>. QED
      BY <3>1, <3>2, <3>3, <3>4
  <2>6. Runs(g, m)
    BY <2>4, <2>5
  <2>. HIDE DEF Runs, g
  <2>. QED
    BY <2>6
<1>. HIDE DEF S
<1>3. \A n \in 0 .. N : n \in S
  BY <1>1, <1>2, UpTo
<1>4. PICK f : Runs(f, N)
  BY <1>3 DEF S
<1>. QED
  BY <1>4 DEF Iterates

LEMMA SignPlacesTyped ==
    ASSUME NEW lexemes \in Seq(Lexemes)
    PROVE  SignPlaces(lexemes) \in Seq(1 .. Len(lexemes))
<1>. DEFINE N == Len(lexemes)
            D == Seq(1 .. N)
            next == [k \in 1 .. N |-> [p \in D |->
                        IF lexemes[k].type \in Signs THEN Append(p, k) ELSE p]]
            Collects(f) == f = [k \in 0 .. N |->
                        IF k = 0 THEN << >>
                        ELSE IF lexemes[k].type \in Signs THEN Append(f[k - 1], k)
                        ELSE f[k - 1]]
<1>1. /\ N \in Nat /\ << >> \in D
      /\ \A k \in 1 .. N, p \in D : Append(p, k) \in D
  OBVIOUS
<1>. HIDE DEF D, N
<1>2. next \in [1 .. N -> [D -> D]]
  BY <1>1
<1>3. \A k \in 1 .. N, p \in D :
         next[k][p] = IF lexemes[k].type \in Signs THEN Append(p, k) ELSE p
  OBVIOUS
<1>. HIDE DEF next
<1>4. PICK f : Iterates(f, N, D, << >>, next)
  BY <1>1, <1>2, Iterated
<1>5. Collects(f)
  <2>1. ASSUME NEW k \in 0 .. N
        PROVE  f[k] = IF k = 0 THEN << >>
                      ELSE IF lexemes[k].type \in Signs THEN Append(f[k - 1], k)
                      ELSE f[k - 1]
    <3>1. k # 0 => k \in 1 .. N /\ k - 1 \in 0 .. N
      BY <1>1
    <3>. QED
      BY <1>3, <1>4, <3>1 DEF Iterates
  <2>. QED
    BY <1>4, <2>1 DEF Iterates
<1>. DEFINE places == CHOOSE p : Collects(p)
<1>6. Collects(places)
  BY <1>5
<1>7. SignPlaces(lexemes) = places[N]
  BY DEF SignPlaces, N
<1>. HIDE DEF places
<1>8. ASSUME NEW k \in 0 .. N
      PROVE  places[k] = IF k = 0 THEN << >>
                         ELSE IF lexemes[k].type \in Signs THEN Append(places[k - 1], k)
                         ELSE places[k - 1]
  BY <1>6
<1>. DEFINE S == {k \in 0 .. N : places[k] \in D}
<1>9. 0 \in S
  BY <1>1, <1>8
<1>10. ASSUME NEW k \in 1 .. N, k - 1 \in S PROVE k \in S
  <2>1. k \in 0 .. N /\ k # 0 /\ places[k - 1] \in D
    BY <1>1, <1>10
  <2>. QED
    BY <1>1, <1>8, <2>1
<1>11. \A k \in 0 .. N : k \in S
  <2>. HIDE DEF S
  <2>. QED
    BY <1>1, <1>9, <1>10, UpTo
<1>. QED
  BY <1>1, <1>7, <1>11 DEF D, N

-----------------------------------------------------------------------------
(* What a line of the script means.                                        *)

IsExpression(content) ==
    /\ content.op \in Seq(LexemeTypes)
    /\ Len(content.op) \in Nat
    /\ DOMAIN content.args = 1 .. Len(content.op) + 1
    /\ Len(content.args) = Len(content.op) + 1
    /\ \A n \in DOMAIN content.args : content.args[n].number \in Nat

LEMMA ContentTyped ==
    ASSUME NEW lexemes \in Seq(Lexemes), NEW content, content = ReadScriptLine(lexemes)
    PROVE  /\ content.type \in {"section", "expression", "none"}
           /\ content.type = "expression" => IsExpression(content)
           /\ content.type # "expression" => content.args = << >>
<1>. DEFINE places == SignPlaces(lexemes)
            cuts == Cuts(lexemes)
<1>1. places \in Seq(1 .. Len(lexemes)) /\ Len(lexemes) \in Nat
  BY SignPlacesTyped
<1>. HIDE DEF places
<1>2. cuts = Append(places, Len(lexemes) + 1)
  BY DEF Cuts, places
<1>3. cuts \in Seq(1 .. Len(lexemes) + 1) /\ Len(cuts) = Len(places) + 1
  BY <1>1, <1>2
<1>. HIDE DEF cuts
<1>4. CASE lexemes # << >> /\ lexemes[1].type = "section"
  BY <1>4 DEF ReadScriptLine
<1>5. CASE /\ ~(lexemes # << >> /\ lexemes[1].type = "section")
           /\ \E k \in DOMAIN lexemes : lexemes[k].type = "="
  <2>1. /\ content.type = "expression"
        /\ content.args = [n \in DOMAIN cuts |-> ArgumentBefore(lexemes, cuts[n])]
        /\ content.op = [n \in DOMAIN places |-> lexemes[places[n]].type]
    BY <1>5 DEF ReadScriptLine, places, cuts
  <2>2. ASSUME NEW n \in DOMAIN cuts
        PROVE  ArgumentBefore(lexemes, cuts[n]).number \in Nat
    <3>1. cuts[n] \in 1 .. Len(lexemes) + 1
      BY <1>3
    <3>2. cuts[n] # 1 => lexemes[cuts[n] - 1] \in Lexemes
      BY <3>1
    <3>3. Nothing.number \in Nat
      BY DEF Nothing, Lexeme
    <3>. QED
      BY <3>2, <3>3 DEF ArgumentBefore, Lexemes
  <2>3. /\ DOMAIN content.args = 1 .. Len(places) + 1
        /\ \A n \in DOMAIN content.args : content.args[n].number \in Nat
    BY <1>3, <2>1, <2>2
  <2>. DEFINE taken == {ArgumentBefore(lexemes, cuts[n]) : n \in DOMAIN cuts}
  <2>6. content.args \in Seq(taken) /\ Len(content.args) = Len(places) + 1
    <3>1. DOMAIN cuts = 1 .. Len(places) + 1 /\ Len(places) + 1 \in Nat
      BY <1>1, <1>3
    <3>2. \A n \in DOMAIN cuts : ArgumentBefore(lexemes, cuts[n]) \in taken
      OBVIOUS
    <3>. HIDE DEF taken
    <3>. QED
      BY <2>1, <3>1, <3>2
  <2>4. ASSUME NEW n \in DOMAIN places PROVE lexemes[places[n]].type \in LexemeTypes
    <3>1. places[n] \in 1 .. Len(lexemes)
      BY <1>1
    <3>2. lexemes[places[n]] \in Lexemes
      BY <3>1
    <3>. QED
      BY <3>2 DEF Lexemes
  <2>5. content.op \in Seq(LexemeTypes) /\ Len(content.op) = Len(places)
    BY <1>1, <2>1, <2>4
  <2>. QED
    BY <1>3, <2>1, <2>3, <2>5, <2>6 DEF IsExpression
<1>6. CASE /\ ~(lexemes # << >> /\ lexemes[1].type = "section")
           /\ ~(\E k \in DOMAIN lexemes : lexemes[k].type = "=")
  BY <1>6 DEF ReadScriptLine
<1>. QED
  BY <1>4, <1>5, <1>6

\* The sums the loop over the operators makes, one after the other.
LEMMA ValueSteps ==
    ASSUME NEW content, IsExpression(content), FirstValue(content.args[1]) \in Int,
           \A j \in 1 .. Len(content.op) : content.args[j + 1].type = "symbol" =>
              global_table[content.args[j + 1].name] \in Int
    PROVE  \E sum :
              /\ sum[0] = FirstValue(content.args[1])
              /\ \A j \in 0 .. Len(content.op) : sum[j] \in Int
              /\ \A j \in 1 .. Len(content.op) :
                    content.op[j] = "+" /\ content.args[j + 1].type = "number" =>
                       sum[j] = sum[j - 1] + content.args[j + 1].number
              /\ Value(content) = Signed(sum[Len(content.op)])
<1>. DEFINE N == Len(content.op)
            op == content.op
            args == content.args
            first == FirstValue(args[1])
            IsOperand(f) == f = [j \in 0 .. N |-> IF j = 0 THEN 0
                                                  ELSE NextValue(args[j + 1], f[j - 1])]
            operands == CHOOSE f : IsOperand(f)
            IsSum(f) == f = [j \in 0 .. N |-> IF j = 0 THEN first
                                              ELSE IF op[j] = "+" THEN f[j - 1] + operands[j]
                                              ELSE f[j - 1] - operands[j]]
            sums == CHOOSE f : IsSum(f)
<1>1. Value(content) = Signed(sums[N])
  BY DEF Value
<1>2. /\ N \in Nat /\ first \in Int
      /\ \A j \in 1 .. N : j + 1 \in DOMAIN args
  BY DEF IsExpression
<1>. HIDE DEF N, op, args, first
<1>3. \A j \in 1 .. N : \A x \in Int : NextValue(args[j + 1], x) \in Int
  <2>1. \A j \in 1 .. N : args[j + 1].number \in Nat
    BY <1>2 DEF IsExpression, args
  <2>2. \A j \in 1 .. N : args[j + 1].type = "symbol" => global_table[args[j + 1].name] \in Int
    BY DEF N, args
  <2>. QED
    BY <2>1, <2>2 DEF NextValue
<1>4. IsOperand(operands)
  <2>. DEFINE next == [j \in 1 .. N |-> [x \in Int |-> NextValue(args[j + 1], x)]]
  <2>1. next \in [1 .. N -> [Int -> Int]] /\ 0 \in Int
    BY <1>3, SMTT(20)
  <2>2. \A j \in 1 .. N, x \in Int : next[j][x] = NextValue(args[j + 1], x)
    OBVIOUS
  <2>. HIDE DEF next
  <2>3. PICK f : Iterates(f, N, Int, 0, next)
    BY <1>2, <2>1, Iterated
  <2>4. ASSUME NEW j \in 0 .. N
        PROVE  f[j] = IF j = 0 THEN 0 ELSE NextValue(args[j + 1], f[j - 1])
    <3>1. j # 0 => j \in 1 .. N /\ j - 1 \in 0 .. N
      BY <1>2
    <3>. QED
      BY <2>2, <2>3, <3>1 DEF Iterates
  <2>5. IsOperand(f)
    BY <2>3, <2>4 DEF Iterates
  <2>. QED
    BY <2>5
<1>. HIDE DEF operands
<1>5. ASSUME NEW j \in 0 .. N PROVE operands[j] \in Int
  <2>. DEFINE S == {k \in 0 .. N : operands[k] \in Int}
  <2>1. ASSUME NEW k \in 0 .. N
        PROVE  operands[k] = IF k = 0 THEN 0 ELSE NextValue(args[k + 1], operands[k - 1])
    BY <1>4
  <2>2. 0 \in S
    BY <1>2, <2>1
  <2>3. ASSUME NEW k \in 1 .. N, k - 1 \in S PROVE k \in S
    <3>1. k \in 0 .. N /\ k # 0 /\ operands[k - 1] \in Int
      BY <1>2, <2>3
    <3>. QED
      BY <1>3, <2>1, <3>1
  <2>4. \A k \in 0 .. N : k \in S
    <3>. HIDE DEF S
    <3>. QED
      BY <1>2, <2>2, <2>3, UpTo
  <2>. QED
    BY <2>4
<1>6. IsSum(sums)
  <2>. DEFINE next == [j \in 1 .. N |-> [x \in Int |->
                         IF op[j] = "+" THEN x + operands[j] ELSE x - operands[j]]]
  <2>1. next \in [1 .. N -> [Int -> Int]]
    BY <1>2, <1>5
  <2>2. \A j \in 1 .. N, x \in Int :
           next[j][x] = IF op[j] = "+" THEN x + operands[j] ELSE x - operands[j]
    OBVIOUS
  <2>. HIDE DEF next
  <2>3. PICK f : Iterates(f, N, Int, first, next)
    BY <1>2, <2>1, Iterated
  <2>4. ASSUME NEW j \in 0 .. N
        PROVE  f[j] = IF j = 0 THEN first ELSE IF op[j] = "+" THEN f[j - 1] + operands[j]
                      ELSE f[j - 1] - operands[j]
    <3>1. j # 0 => j \in 1 .. N /\ j - 1 \in 0 .. N
      BY <1>2
    <3>. QED
      BY <2>2, <2>3, <3>1 DEF Iterates
  <2>5. IsSum(f)
    BY <2>3, <2>4 DEF Iterates
  <2>. QED
    BY <2>5
<1>. HIDE DEF sums
<1>7. ASSUME NEW j \in 0 .. N
      PROVE  sums[j] = IF j = 0 THEN first ELSE IF op[j] = "+" THEN sums[j - 1] + operands[j]
                       ELSE sums[j - 1] - operands[j]
  BY <1>6
<1>8. ASSUME NEW j \in 0 .. N PROVE sums[j] \in Int
  <2>. DEFINE S == {k \in 0 .. N : sums[k] \in Int}
  <2>1. 0 \in S
    BY <1>2, <1>7
  <2>2. ASSUME NEW k \in 1 .. N, k - 1 \in S PROVE k \in S
    <3>1. k \in 0 .. N /\ k # 0 /\ sums[k - 1] \in Int /\ operands[k] \in Int
      BY <1>2, <1>5, <2>2
    <3>. QED
      BY <1>7, <3>1
  <2>3. \A k \in 0 .. N : k \in S
    <3>. HIDE DEF S
    <3>. QED
      BY <1>2, <2>1, <2>2, UpTo
  <2>. QED
    BY <2>3
<1>9. ASSUME NEW j \in 1 .. N, op[j] = "+", args[j + 1].type = "number"
      PROVE  sums[j] = sums[j - 1] + args[j + 1].number
  <2>1. j \in 0 .. N /\ j # 0
    BY <1>2
  <2>2. operands[j] = NextValue(args[j + 1], operands[j - 1])
    BY <1>4, <2>1
  <2>3. operands[j] = args[j + 1].number
    BY <1>9, <2>2 DEF NextValue
  <2>. QED
    BY <1>7, <1>9, <2>1, <2>3
<1>10. sums[0] = first
  BY <1>2, <1>7
<1>. QED
  BY <1>1, <1>8, <1>9, <1>10 DEF N, op, args, first

LEMMA AddedSteps ==
    ASSUME NEW content, IsExpression(content)
    PROVE  \E upTo :
              /\ upTo[0] = IF content.args[1].type = "align" THEN content.args[1].number ELSE 0
              /\ \A j \in 0 .. Len(content.op) : upTo[j] \in Nat
              /\ \A j \in 1 .. Len(content.op) :
                    upTo[j] = upTo[j - 1] + content.args[j + 1].number
              /\ Added(content) = upTo[Len(content.op)]
<1>. DEFINE N == Len(content.op)
            first == IF content.args[1].type = "align" THEN content.args[1].number ELSE 0
            more(j) == content.args[j + 1].number
            IsTotal(f) == f = [j \in 0 .. N |-> IF j = 0 THEN first ELSE f[j - 1] + more(j)]
            totals == CHOOSE f : IsTotal(f)
<1>1. Added(content) = totals[N]
  BY DEF Added
<1>2. N \in Nat /\ first \in Nat /\ \A j \in 1 .. N : more(j) \in Nat
  <2>1. /\ N \in Nat /\ DOMAIN content.args = 1 .. N + 1
        /\ \A n \in DOMAIN content.args : content.args[n].number \in Nat
    BY DEF IsExpression
  <2>. HIDE DEF N
  <2>2. 1 \in DOMAIN content.args /\ \A j \in 1 .. N : j + 1 \in DOMAIN content.args
    BY <2>1
  <2>. QED
    BY <2>1, <2>2
<1>. HIDE DEF N, first, more
<1>3. IsTotal(totals)
  <2>. DEFINE next == [j \in 1 .. N |-> [x \in Nat |-> x + more(j)]]
  <2>1. next \in [1 .. N -> [Nat -> Nat]]
    BY <1>2
  <2>2. \A j \in 1 .. N, x \in Nat : next[j][x] = x + more(j)
    OBVIOUS
  <2>. HIDE DEF next
  <2>3. PICK f : Iterates(f, N, Nat, first, next)
    BY <1>2, <2>1, Iterated
  <2>4. ASSUME NEW j \in 0 .. N
        PROVE  f[j] = IF j = 0 THEN first ELSE f[j - 1] + more(j)
    <3>1. j # 0 => j \in 1 .. N /\ j - 1 \in 0 .. N
      BY <1>2
    <3>. QED
      BY <2>2, <2>3, <3>1 DEF Iterates
  <2>5. IsTotal(f)
    BY <2>3, <2>4 DEF Iterates
  <2>. QED
    BY <2>5
<1>. HIDE DEF totals
<1>4. ASSUME NEW j \in 0 .. N
      PROVE  totals[j] = IF j = 0 THEN first ELSE totals[j - 1] + more(j)
  BY <1>3
<1>5. ASSUME NEW j \in 0 .. N PROVE totals[j] \in Nat
  <2>. DEFINE S == {k \in 0 .. N : totals[k] \in Nat}
  <2>1. 0 \in S
    BY <1>2, <1>4
  <2>2. ASSUME NEW k \in 1 .. N, k - 1 \in S PROVE k \in S
    <3>1. k \in 0 .. N /\ k # 0 /\ totals[k - 1] \in Nat /\ more(k) \in Nat
      BY <1>2, <2>2
    <3>. QED
      BY <1>4, <3>1
  <2>3. \A k \in 0 .. N : k \in S
    <3>. HIDE DEF S
    <3>. QED
      BY <1>2, <2>1, <2>2, UpTo
  <2>. QED
    BY <2>3
<1>6. totals[0] = first /\ \A j \in 1 .. N : j \in 0 .. N /\ j # 0
  BY <1>2, <1>4
<1>. QED
  BY <1>1, <1>4, <1>5, <1>6 DEF N, first, more

LEMMA GrowthTyped ==
    ASSUME NEW lexemes \in Seq(Lexemes), NEW lengths \in [Placed -> Nat]
    PROVE  Growth(ReadScriptLine(lexemes), lengths) \in Nat
<1>. DEFINE content == ReadScriptLine(lexemes)
<1>1. content.type = "expression" => IsExpression(content)
  BY ContentTyped
<1>. HIDE DEF content
<1>2. content.type = "expression" => Added(content) \in Nat
  <2>. SUFFICES ASSUME IsExpression(content) PROVE Added(content) \in Nat
    BY <1>1
  <2>1. PICK upTo :
          /\ \A j \in 0 .. Len(content.op) : upTo[j] \in Nat
          /\ Added(content) = upTo[Len(content.op)]
    BY AddedSteps
  <2>2. Len(content.op) \in 0 .. Len(content.op)
    BY DEF IsExpression
  <2>. QED
    BY <2>1, <2>2
<1>3. Growth(content, lengths) \in Nat
  BY <1>2 DEF Growth
<1>. QED
  BY <1>3 DEF content

LEMMA ReachSteps ==
    ASSUME NEW lines \in Seq(Seq(Lexemes)), NEW lengths \in [Placed -> Nat]
    PROVE  /\ Reach(lines, lengths)[0] = FirstLocation
           /\ \A k \in 1 .. Len(lines) :
                 Reach(lines, lengths)[k] =
                    Reach(lines, lengths)[k - 1] + Growth(ReadScriptLine(lines[k]), lengths)
           /\ \A k \in 0 .. Len(lines) :
                 /\ Reach(lines, lengths)[k] \in Nat
                 /\ Reach(lines, lengths)[k] <= Reach(lines, lengths)[Len(lines)]
<1>. DEFINE N == Len(lines)
            more(k) == Growth(ContentsOf(lines)[k], lengths)
            IsReach(f) == f = [k \in 0 .. N |-> IF k = 0 THEN FirstLocation
                                                ELSE f[k - 1] + more(k)]
            far == CHOOSE f : IsReach(f)
<1>1. Reach(lines, lengths) = far
  BY DEF Reach
<1>2. N \in Nat /\ FirstLocation \in Nat
  BY IvtAssumption DEF FirstLocation, WordSize
<1>3. \A k \in 1 .. N : /\ more(k) = Growth(ReadScriptLine(lines[k]), lengths)
                        /\ more(k) \in Nat
  <2>. SUFFICES ASSUME NEW k \in 1 .. N
                PROVE  /\ more(k) = Growth(ReadScriptLine(lines[k]), lengths)
                       /\ more(k) \in Nat
    OBVIOUS
  <2>1. ContentsOf(lines)[k] = ReadScriptLine(lines[k]) /\ lines[k] \in Seq(Lexemes)
    BY DEF ContentsOf
  <2>. QED
    BY <2>1, GrowthTyped
<1>. HIDE DEF N, more
<1>4. IsReach(far)
  <2>. DEFINE next == [k \in 1 .. N |-> [x \in Nat |-> x + more(k)]]
  <2>1. next \in [1 .. N -> [Nat -> Nat]]
    BY <1>3
  <2>2. \A k \in 1 .. N, x \in Nat : next[k][x] = x + more(k)
    OBVIOUS
  <2>. HIDE DEF next
  <2>3. PICK f : Iterates(f, N, Nat, FirstLocation, next)
    BY <1>2, <2>1, Iterated
  <2>4. ASSUME NEW k \in 0 .. N
        PROVE  f[k] = IF k = 0 THEN FirstLocation ELSE f[k - 1] + more(k)
    <3>1. k # 0 => k \in 1 .. N /\ k - 1 \in 0 .. N
      BY <1>2
    <3>. QED
      BY <2>2, <2>3, <3>1 DEF Iterates
  <2>5. IsReach(f)
    BY <2>3, <2>4 DEF Iterates
  <2>. QED
    BY <2>5
<1>. HIDE DEF far
<1>5. ASSUME NEW k \in 0 .. N
      PROVE  far[k] = IF k = 0 THEN FirstLocation ELSE far[k - 1] + more(k)
  BY <1>4
<1>6. \A k \in 0 .. N : far[k] \in Nat
  <2>. DEFINE S == {k \in 0 .. N : far[k] \in Nat}
  <2>1. 0 \in S
    BY <1>2, <1>5
  <2>2. ASSUME NEW k \in 1 .. N, k - 1 \in S PROVE k \in S
    <3>1. k \in 0 .. N /\ k # 0 /\ far[k - 1] \in Nat /\ more(k) \in Nat
      BY <1>2, <1>3, <2>2
    <3>. QED
      BY <1>5, <3>1
  <2>3. \A k \in 0 .. N : k \in S
    <3>. HIDE DEF S
    <3>. QED
      BY <1>2, <2>1, <2>2, UpTo
  <2>. QED
    BY <2>3
<1>7. \A k \in 0 .. N : far[k] <= far[N]
  <2>. DEFINE S == {d \in 0 .. N : far[N - d] <= far[N]}
  <2>1. 0 \in S
    BY <1>2, <1>6
  <2>2. ASSUME NEW d \in 1 .. N, d - 1 \in S PROVE d \in S
    <3>. DEFINE k == N - (d - 1)
    <3>1. k \in 1 .. N /\ k \in 0 .. N /\ k # 0 /\ k - 1 = N - d /\ k - 1 \in 0 .. N
      BY <1>2
    <3>2. far[k] <= far[N] /\ far[k] \in Nat /\ far[N] \in Nat /\ far[k - 1] \in Nat
      BY <1>2, <1>6, <2>2, <3>1
    <3>. HIDE DEF k
    <3>3. far[k] = far[k - 1] + more(k) /\ more(k) \in Nat
      BY <1>3, <1>5, <3>1
    <3>4. far[k - 1] <= far[N]
      BY <3>2, <3>3
    <3>. QED
      BY <3>1, <3>4
  <2>3. \A d \in 0 .. N : d \in S
    <3>. HIDE DEF S
    <3>. QED
      BY <1>2, <2>1, <2>2, UpTo
  <2>4. ASSUME NEW k \in 0 .. N PROVE far[k] <= far[N]
    <3>1. N - k \in 0 .. N /\ N - (N - k) = k
      BY <1>2
    <3>2. far[N - (N - k)] <= far[N]
      BY <2>3, <3>1
    <3>. QED
      BY <3>1, <3>2
  <2>. QED
    BY <2>4
<1>8. far[0] = FirstLocation
  BY <1>2, <1>5
<1>9. ASSUME NEW k \in 1 .. N
      PROVE  far[k] = far[k - 1] + Growth(ReadScriptLine(lines[k]), lengths)
  <2>1. k \in 0 .. N /\ k # 0
    BY <1>2
  <2>. QED
    BY <1>3, <1>5, <2>1
<1>. QED
  BY <1>1, <1>6, <1>7, <1>8, <1>9 DEF N

\* An expression that moves "." forward moves it by no more than it adds up.
LEMMA ForwardValue ==
    ASSUME NEW content, IsExpression(content), MovesForward(content),
           global_table["."] \in Int, ~DividesByZero(content)
    PROVE  \E d \in Nat : /\ d <= Added(content)
                          /\ Value(content) = Signed(global_table["."] + d)
<1>. DEFINE v == global_table["."]
            N == Len(content.op)
            args == content.args
            first == FirstValue(args[1])
<1>1. /\ N \in Nat /\ 1 \in DOMAIN args /\ args[1].number \in Nat
      /\ \A j \in 1 .. N : /\ j \in DOMAIN content.op /\ args[j + 1].number \in Nat
                           /\ content.op[j] = "+" /\ args[j + 1].type = "number"
  <2>1. /\ N \in Nat /\ DOMAIN args = 1 .. N + 1
        /\ \A n \in DOMAIN args : args[n].number \in Nat
    BY DEF IsExpression
  <2>2. DOMAIN content.op = 1 .. N
    BY DEF IsExpression
  <2>3. \A j \in DOMAIN content.op : content.op[j] = "+" /\ args[j + 1].type = "number"
    BY DEF MovesForward
  <2>. HIDE DEF N, args
  <2>4. 1 \in DOMAIN args /\ \A j \in 1 .. N : j + 1 \in DOMAIN args
    BY <2>1
  <2>. QED
    BY <2>1, <2>2, <2>3, <2>4
<1>2. /\ first \in Int
      /\ first - v \in Nat
      /\ first - v <= IF args[1].type = "align" THEN args[1].number ELSE 0
  <2>1. CASE args[1].type = "symbol"
    <3>1. first = v
      BY <2>1 DEF FirstValue, MovesForward
    <3>. QED
      BY <2>1, <3>1
  <2>2. CASE args[1].type = "align"
    <3>1. first = AlignUp(v, args[1].number) /\ args[1].number # 0
      BY <2>2 DEF FirstValue, MovesForward, DividesByZero
    <3>2. first \in Int /\ first - v \in 1 .. args[1].number
      BY <1>1, <3>1, AlignFacts
    <3>. QED
      BY <1>1, <2>2, <3>2
  <2>. QED
    BY <2>1, <2>2 DEF MovesForward
<1>3. PICK sum :
        /\ sum[0] = first
        /\ \A j \in 0 .. N : sum[j] \in Int
        /\ \A j \in 1 .. N : content.op[j] = "+" /\ args[j + 1].type = "number" =>
              sum[j] = sum[j - 1] + args[j + 1].number
        /\ Value(content) = Signed(sum[N])
  <2>1. \A j \in 1 .. N : args[j + 1].type # "symbol"
    BY <1>1
  <2>. QED
    BY <1>2, <2>1, ValueSteps
<1>4. PICK upTo :
        /\ upTo[0] = IF args[1].type = "align" THEN args[1].number ELSE 0
        /\ \A j \in 0 .. N : upTo[j] \in Nat
        /\ \A j \in 1 .. N : upTo[j] = upTo[j - 1] + args[j + 1].number
        /\ Added(content) = upTo[N]
  BY AddedSteps
<1>. HIDE DEF v, N, args, first
<1>. DEFINE S == {j \in 0 .. N : sum[j] - v \in Nat /\ sum[j] - v <= upTo[j]}
<1>5. 0 \in S
  BY <1>1, <1>2, <1>3, <1>4
<1>6. v \in Int
  BY DEF v
<1>7. ASSUME NEW j \in 1 .. N, j - 1 \in S PROVE j \in S
  <2>1. j \in 0 .. N /\ j - 1 \in 0 .. N
    BY <1>1
  <2>2. /\ sum[j] = sum[j - 1] + args[j + 1].number
        /\ upTo[j] = upTo[j - 1] + args[j + 1].number
        /\ args[j + 1].number \in Nat
        /\ sum[j - 1] \in Int /\ upTo[j - 1] \in Nat
    BY <1>1, <1>3, <1>4, <2>1
  <2>3. sum[j - 1] - v \in Nat /\ sum[j - 1] - v <= upTo[j - 1]
    BY <1>7
  <2>4. sum[j] - v \in Nat /\ sum[j] - v <= upTo[j]
    BY <1>6, <2>2, <2>3
  <2>. QED
    BY <2>1, <2>4
<1>8. N \in S
  <2>1. \A j \in 0 .. N : j \in S
    <3>. HIDE DEF S
    <3>. QED
      BY <1>1, <1>5, <1>7, UpTo
  <2>. QED
    BY <1>1, <2>1
<1>9. sum[N] = v + (sum[N] - v)
  BY <1>1, <1>3, <1>6
<1>10. sum[N] - v \in Nat /\ sum[N] - v <= Added(content)
  BY <1>4, <1>8
<1>. QED
  BY <1>3, <1>9, <1>10 DEF v

-----------------------------------------------------------------------------
(* Types.                                                                  *)

\* What is loaded never changes.
Given ==
    \E command \in Commands :
        /\ script = command.script
        /\ final = command.final
        /\ sizes = command.final.sizes

LEMMA GivenFacts ==
    ASSUME Given
    PROVE  /\ script \in Seq(Seq(Lexemes))
           /\ sizes \in [Placed -> Nat]
           /\ final.symtable \in Seq(Symbol(STRING))
           /\ \A k \in DOMAIN final.symtable : Sound(final.symtable[k], sizes)
           /\ final.reloctable \in Seq([index: Int, offset: Nat])
           /\ \A k \in DOMAIN final.reloctable :
                 /\ final.reloctable[k].offset \in DOMAIN final.code
                 /\ \A j \in 1 .. k - 1 :
                       final.reloctable[j].offset # final.reloctable[k].offset
<1>1. PICK command \in Commands : /\ script = command.script /\ final = command.final
                                  /\ sizes = command.final.sizes
  BY DEF Given
<1>2. Contexts(command)
  BY CommandsAssumption
<1>. QED
  BY <1>1, <1>2 DEF Contexts

LEMMA MemoryBounds ==
    /\ MemorySize \in Nat /\ FirstLocation \in Nat
    /\ WordSize <= FirstLocation /\ FirstLocation <= MemorySize
    /\ MemorySize <= 262144
    /\ FirstLocation \in Words /\ FirstLocation < Modulus
    /\ Unsigned(FirstLocation) = FirstLocation
<1>1. IvtEntries \in Nat \ {0} /\ FirstLocation = IvtEntries * 4 /\ WordSize = 4
  BY IvtAssumption DEF FirstLocation, WordSize
<1>2. FirstLocation \in Nat /\ WordSize <= FirstLocation
  BY <1>1
<1>3. Modulus \in Nat /\ 2 * (Modulus \div 2) = Modulus /\ FirstLocation < Modulus \div 2
  BY ModulusIsEven, IvtAssumption
<1>. HIDE DEF Modulus, FirstLocation
<1>4. FirstLocation \in Words /\ FirstLocation < Modulus
  BY <1>2, <1>3 DEF Words
<1>5. Unsigned(FirstLocation) = FirstLocation
  BY <1>2, <1>3, <1>4, SignedFacts
<1>6. MemorySize \in FirstLocation .. 2 ^ 18 /\ 2 ^ 18 = 262144
  BY CommandsAssumption
<1>7. MemorySize \in Nat /\ FirstLocation <= MemorySize /\ MemorySize <= 262144
  BY <1>2, <1>6
<1>. QED
  BY <1>2, <1>4, <1>5, <1>7

LEMMA GlobalsTyped ==
    ASSUME NEW table, NEW name, NEW value \in Words, "." \in DOMAIN table,
           \A n \in DOMAIN table : table[n] \in Words
    PROVE  /\ "." \in DOMAIN AddScriptGlobal(table, name, value)
           /\ \A n \in DOMAIN AddScriptGlobal(table, name, value) :
                 AddScriptGlobal(table, name, value)[n] \in Words
           /\ AddScriptGlobal(table, name, value)[name] = value
           /\ \A n \in DOMAIN table : n # name =>
                 AddScriptGlobal(table, name, value)[n] = table[n]
BY DEF AddScriptGlobal

\* What memory can hold.
Images == [0 .. MemorySize - 1 -> Origins \X Nat]

LEMMA CopyTyped ==
    ASSUME NEW bytes \in Images, NEW origin \in Origins,
           NEW address \in Nat, NEW length \in Nat
    PROVE  Copy(bytes, origin, address, length) \in Images
<1>1. ASSUME NEW a \in 0 .. MemorySize - 1, a - address \in 0 .. length - 1
      PROVE  <<origin, a - address>> \in Origins \X Nat
  BY <1>1
<1>. QED
  BY <1>1 DEF Copy, Images

LEMMA InitTyped == Init => TypeOK /\ Given
<1>. SUFFICES ASSUME Init PROVE TypeOK /\ Given
  OBVIOUS
<1>1. Given
  BY DEF Init, Given
<1>2. FirstLocation \in 0 .. Modulus - 1 /\ FirstLocation \in Words /\ MemorySize \in Nat
  <2>1. FirstLocation \in Nat /\ FirstLocation < Modulus /\ Modulus \in Nat
    BY MemoryBounds, ModulusIsEven
  <2>. HIDE DEF FirstLocation, Modulus
  <2>. QED
    BY <2>1, MemoryBounds
<1>. HIDE DEF FirstLocation
<1>3. script \in Seq(Seq(Lexemes)) /\ line \in 1 .. Len(script) + 1
  BY <1>1, GivenFacts DEF Init, InitScript
<1>4. start \in [Placed -> 0 .. Modulus - 1] /\ memory_location \in 0 .. Modulus - 1
  BY <1>2 DEF Init, InitScript
<1>5. "." \in DOMAIN global_table /\ \A name \in DOMAIN global_table : global_table[name] \in Words
  BY <1>2 DEF Init, InitScript
<1>6. memory \in [0 .. MemorySize - 1 -> Origins \X Nat]
  BY DEF Init, InitLoad, Junk, Origins
<1>7. registers \in [{"pc", "lr", "sp"} -> Int]
  BY DEF Init, InitLoad
<1>8. node \in 1 .. Len(final.reloctable) + 1
  BY <1>1, GivenFacts DEF Init, InitLoad
<1>9. DOMAIN operand = {final.reloctable[k].offset : k \in 1 .. node - 1}
  <2>1. node = 1 /\ operand = << >>
    BY DEF Init, InitLoad
  <2>2. 1 .. node - 1 = {} /\ DOMAIN operand = {}
    BY <2>1
  <2>. QED
    BY <2>2
<1>10. stage \in {"script", "copy", "entry", "patch", "boot"} \cup Ended
  BY DEF Init, InitScript
<1>. QED
  BY <1>1, <1>3, <1>4, <1>5, <1>6, <1>7, <1>8, <1>9, <1>10 DEF TypeOK

LEMMA ContentFacts ==
    ASSUME TypeOK, line <= Len(script)
    PROVE  /\ line \in DOMAIN script
           /\ Content.type = "expression" => IsExpression(Content)
           /\ Content.type # "expression" => Content.args = << >>
<1>1. line \in DOMAIN script /\ script[line] \in Seq(Lexemes)
  BY DEF TypeOK
<1>. QED
  BY <1>1, ContentTyped DEF Content

LEMMA FirstValueTyped ==
    ASSUME TypeOK, NEW content, IsExpression(content), ~FaultyExpression(content),
           ~DividesByZero(content)
    PROVE  FirstValue(content.args[1]) \in Int
<1>. DEFINE lexeme == content.args[1]
<1>1. lexeme.number \in Nat
  BY DEF IsExpression
<1>2. NamesGlobal(lexeme) => global_table[lexeme.name] \in Int
  <2>1. NamesGlobal(lexeme) => lexeme.name \in DOMAIN global_table
    BY DEF FaultyExpression, Undefined
  <2>. QED
    BY <2>1, SignedFacts DEF TypeOK
<1>3. lexeme.type = "align" => lexeme.number # 0
  BY DEF DividesByZero
<1>. HIDE DEF lexeme
<1>4. lexeme.type = "align" => AlignUp(global_table[lexeme.name], lexeme.number) \in Int
  BY <1>1, <1>2, <1>3, AlignFacts DEF NamesGlobal
<1>5. lexeme.type = "symbol" => global_table[lexeme.name] \in Int
  BY <1>2 DEF NamesGlobal
<1>6. FirstValue(lexeme) \in Int
  BY <1>1, <1>4, <1>5 DEF FirstValue
<1>. QED
  BY <1>6 DEF lexeme

LEMMA ValueTyped ==
    ASSUME TypeOK, NEW content, IsExpression(content), ~FaultyExpression(content),
           ~DividesByZero(content)
    PROVE  Value(content) \in Words
<1>1. ASSUME NEW j \in 1 .. Len(content.op), content.args[j + 1].type = "symbol"
      PROVE  global_table[content.args[j + 1].name] \in Int
  <2>1. j + 1 \in 2 .. Len(content.args)
    BY DEF IsExpression
  <2>2. content.args[j + 1].name \in DOMAIN global_table
    BY <1>1, <2>1 DEF FaultyExpression, Undefined, NamesGlobal
  <2>. QED
    BY <2>2, SignedFacts DEF TypeOK
<1>2. FirstValue(content.args[1]) \in Int
  BY FirstValueTyped
<1>3. PICK sum : /\ \A j \in 0 .. Len(content.op) : sum[j] \in Int
                 /\ Value(content) = Signed(sum[Len(content.op)])
  BY <1>1, <1>2, ValueSteps
<1>4. Len(content.op) \in 0 .. Len(content.op)
  BY DEF IsExpression
<1>. DEFINE total == sum[Len(content.op)]
<1>5. total \in Int /\ Value(content) = Signed(total)
  BY <1>3, <1>4
<1>. HIDE DEF total
<1>. QED
  BY <1>5, SignedFacts

LEMMA ScriptTyped ==
    ASSUME TypeOK, Given, ScriptNext, UNCHANGED loadVars
    PROVE  TypeOK'
<1>1. UNCHANGED <<script, sizes, final, memory, registers, node, operand>>
  BY DEF ScriptNext, loadVars, PlaceSection, Evaluate, StopInExpression, PassOverLine, EndScript
<1>2. sizes \in [Placed -> Nat] /\ Len(script) \in Nat
  BY GivenFacts DEF TypeOK
<1>3. CASE PlaceSection
  <2>. DEFINE here == Unsigned(global_table["."])
              length == IF Content.name \in Placed THEN sizes[Content.name] ELSE 0
  <2>1. global_table["."] \in Int
    BY SignedFacts DEF TypeOK
  <2>2. here \in 0 .. Modulus - 1 /\ here \in Int /\ length \in Nat
    <3>1. here \in 0 .. Modulus - 1
      BY <2>1, SignedFacts
    <3>2. Modulus \in Nat
      BY ModulusIsEven
    <3>3. length \in Nat
      BY <1>2
    <3>. HIDE DEF here, length, Modulus
    <3>. QED
      BY <3>1, <3>2, <3>3
  <2>3. memory_location' = Unsigned(here + length)
    BY <1>3 DEF PlaceSection
  <2>4. /\ start' = IF Content.name \in Placed THEN [start EXCEPT ![Content.name] = here] ELSE start
        /\ global_table' = AddScriptGlobal(global_table, ".", Signed(memory_location'))
        /\ line' = line + 1 /\ stage' = stage
        /\ stage = "script" /\ line <= Len(script)
    BY <1>3 DEF PlaceSection, AtContent
  <2>. HIDE DEF here, length
  <2>5. memory_location' \in 0 .. Modulus - 1
    BY <2>2, <2>3, SignedFacts
  <2>6. memory_location' \in Int
    BY <2>5, ModulusIsEven
  <2>7. Signed(memory_location') \in Words
    BY <2>6, SignedFacts
  <2>8. /\ "." \in DOMAIN global_table'
        /\ \A name \in DOMAIN global_table' : global_table'[name] \in Words
    BY <2>4, <2>7, GlobalsTyped DEF TypeOK
  <2>9. start' \in [Placed -> 0 .. Modulus - 1]
    BY <2>2, <2>4 DEF TypeOK
  <2>10. line' \in 1 .. Len(script) + 1
    BY <1>2, <2>4 DEF TypeOK
  <2>11. stage' \in {"script", "copy", "entry", "patch", "boot"} \cup Ended
    BY <2>4
  <2>12. (DOMAIN operand = {final.reloctable[k].offset : k \in 1 .. node - 1})'
    BY <1>1 DEF TypeOK
  <2>. QED
    BY <1>1, <2>5, <2>8, <2>9, <2>10, <2>11, <2>12 DEF TypeOK
<1>4. CASE Evaluate
  <2>1. /\ global_table' = AddScriptGlobal(global_table, Content.name, Value(Content))
        /\ line' = line + 1 /\ UNCHANGED <<stage, memory_location, start>>
        /\ line <= Len(script) /\ Content.type = "expression"
        /\ ~FaultyExpression(Content) /\ ~DividesByZero(Content)
    BY <1>4 DEF Evaluate, AtContent
  <2>2. Value(Content) \in Words
    BY <2>1, ContentFacts, ValueTyped
  <2>3. /\ "." \in DOMAIN global_table'
        /\ \A name \in DOMAIN global_table' : global_table'[name] \in Words
    BY <2>1, <2>2, GlobalsTyped DEF TypeOK
  <2>4. line' \in 1 .. Len(script) + 1
    BY <1>2, <2>1 DEF TypeOK
  <2>. QED
    BY <1>1, <2>1, <2>3, <2>4 DEF TypeOK
<1>5. CASE PassOverLine
  <2>1. /\ line' = line + 1 /\ line <= Len(script)
        /\ UNCHANGED <<stage, memory_location, start, global_table>>
    BY <1>5 DEF PassOverLine, AtContent
  <2>2. line' \in 1 .. Len(script) + 1
    BY <1>2, <2>1 DEF TypeOK
  <2>. QED
    BY <1>1, <2>1, <2>2 DEF TypeOK
<1>6. CASE StopInExpression \/ EndScript
  <2>1. /\ stage' \in {"crashed", "failed", "copy"}
        /\ UNCHANGED <<line, memory_location, start, global_table>>
    BY <1>6 DEF StopInExpression, EndScript
  <2>. QED
    BY <1>1, <2>1 DEF TypeOK, Ended
<1>. QED
  BY <1>3, <1>4, <1>5, <1>6 DEF ScriptNext

LEMMA LoadTyped ==
    ASSUME TypeOK, Given, Load
    PROVE  TypeOK'
<1>1. /\ UNCHANGED <<script, sizes, line, memory_location, start, global_table, final>>
      /\ stage' \in {"copy", "entry", "patch", "boot"} \cup Ended
  BY DEF Load, CopySections, LoseMemory, FindMain, NoMain, PatchInstruction,
         RejectRelocation, CrashOnRelocation, EndRelocations, InstallBoot, NoRoomForBoot,
         AtRelocation, Ended
<1>2. /\ sizes \in [Placed -> Nat]
      /\ \A s \in Placed : start[s] \in Nat
      /\ memory_location \in Nat
      /\ Len(final.reloctable) \in Nat
  <2>1. Modulus \in Nat
    BY ModulusIsEven
  <2>. HIDE DEF Modulus
  <2>. QED
    BY <2>1, GivenFacts DEF TypeOK
<1>3. CASE CopySections
  <2>. DEFINE data == Copy(memory, "data", start["data"], sizes["data"])
              bss == Copy(data, "bss", start["bss"], sizes["bss"])
  <2>1. /\ memory' = Copy(bss, "text", start["text"], sizes["text"])
        /\ UNCHANGED <<registers, node, operand>>
    BY <1>3 DEF CopySections
  <2>2. \A s \in Placed : s \in Origins /\ start[s] \in Nat /\ sizes[s] \in Nat
    BY <1>2 DEF Origins
  <2>3. "text" \in Placed /\ "data" \in Placed /\ "bss" \in Placed
    BY DEF Placed
  <2>4. data \in Images
    BY <2>2, <2>3, CopyTyped DEF TypeOK, Images
  <2>. HIDE DEF data
  <2>5. bss \in Images
    BY <2>2, <2>3, <2>4, CopyTyped
  <2>. HIDE DEF bss
  <2>6. memory' \in Images
    BY <2>1, <2>2, <2>3, <2>5, CopyTyped
  <2>. QED
    BY <1>1, <2>1, <2>6 DEF TypeOK, Images
<1>4. CASE FindMain
  <2>1. UNCHANGED <<memory, node, operand>>
    BY <1>4 DEF FindMain
  <2>. DEFINE main == SymbolAt(final.symtable, IndexOfName(final.symtable, EntryPoint))
  <2>2. registers' = [registers EXCEPT !["pc"] = start["text"] + main.offset - 4]
    BY <1>4 DEF FindMain
  <2>3. main \in Symbol(STRING)
    <3>1. Defined(final.symtable, EntryPoint) /\ final.symtable \in Seq(Symbol(STRING))
      BY <1>4, GivenFacts DEF FindMain
    <3>2. HasIndex(final.symtable, IndexOfName(final.symtable, EntryPoint))
      BY <3>1, IndexOfNameFindsEntry
    <3>. QED
      BY <3>1, <3>2 DEF HasIndex, SymbolAt
  <2>. HIDE DEF main
  <2>4. start["text"] + main.offset - 4 \in Int
    BY <1>2, <2>3 DEF Symbol, Placed
  <2>5. registers' \in [{"pc", "lr", "sp"} -> Int]
    BY <2>2, <2>4 DEF TypeOK
  <2>. QED
    BY <1>1, <2>1, <2>5 DEF TypeOK
<1>5. CASE PatchInstruction
  <2>1. /\ node' = node + 1 /\ node <= Len(final.reloctable)
        /\ DOMAIN operand' = DOMAIN operand \cup {final.reloctable[node].offset}
        /\ UNCHANGED <<memory, registers>>
    BY <1>5 DEF PatchInstruction, AtRelocation, Entry
  <2>2. node \in Nat \ {0} /\ node' \in 1 .. Len(final.reloctable) + 1
    BY <1>2, <2>1 DEF TypeOK
  <2>3. \A k : k \in 1 .. node' - 1 <=> k \in 1 .. node - 1 \/ k = node
    BY <2>1, <2>2
  <2>4. DOMAIN operand = {final.reloctable[k].offset : k \in 1 .. node - 1}
    BY DEF TypeOK
  <2>5. DOMAIN operand' = {final.reloctable[k].offset : k \in 1 .. node' - 1}
    <3>1. ASSUME NEW offset
          PROVE  offset \in DOMAIN operand' <=>
                   \E k \in 1 .. node' - 1 : offset = final.reloctable[k].offset
      BY <2>1, <2>3, <2>4
    <3>. QED
      BY <3>1
  <2>6. (DOMAIN operand = {final.reloctable[k].offset : k \in 1 .. node - 1})'
    BY <1>1, <2>5
  <2>7. (node \in 1 .. Len(final.reloctable) + 1)'
    BY <1>1, <2>2
  <2>8. (memory \in [0 .. MemorySize - 1 -> Origins \X Nat])'
    BY <2>1 DEF TypeOK
  <2>. QED
    BY <1>1, <2>1, <2>6, <2>7, <2>8, Zenon DEF TypeOK
<1>6. CASE InstallBoot
  <2>1. /\ memory' = Copy(Copy(memory, "ivt", 0, WordSize), "boot", memory_location, BootBytes)
        /\ registers' = [registers EXCEPT !["lr"] = registers["pc"], !["pc"] = memory_location,
                                          !["sp"] = memory_location + BootBytes]
        /\ UNCHANGED <<node, operand>>
    BY <1>6 DEF InstallBoot
  <2>2. /\ "ivt" \in Origins /\ "boot" \in Origins /\ WordSize \in Nat /\ BootBytes \in Nat
        /\ 0 \in Nat
    BY DEF Origins, WordSize, BootBytes, InstructionBytes
  <2>3. Copy(memory, "ivt", 0, WordSize) \in Images
    BY <2>2, CopyTyped DEF TypeOK, Images
  <2>4. memory' \in Images
    BY <1>2, <2>1, <2>2, <2>3, CopyTyped
  <2>5. registers' \in [{"pc", "lr", "sp"} -> Int]
    BY <1>2, <2>1, <2>2 DEF TypeOK
  <2>. QED
    BY <1>1, <2>1, <2>4, <2>5 DEF TypeOK, Images
<1>7. CASE LoseMemory \/ NoMain \/ RejectRelocation \/ CrashOnRelocation \/ EndRelocations
             \/ NoRoomForBoot
  <2>1. UNCHANGED <<memory, registers, node, operand>>
    BY <1>7 DEF LoseMemory, NoMain, RejectRelocation, CrashOnRelocation, EndRelocations,
                NoRoomForBoot
  <2>. QED
    BY <1>1, <2>1 DEF TypeOK
<1>. QED
  BY <1>3, <1>4, <1>5, <1>6, <1>7 DEF Load

LEMMA NextGiven == Given /\ [Next]_vars => Given'
BY DEF Given, Next, vars, ScriptNext, loadVars, PlaceSection, Evaluate, StopInExpression,
       PassOverLine, EndScript, Load, CopySections, LoseMemory, FindMain, NoMain,
       PatchInstruction, RejectRelocation, CrashOnRelocation, EndRelocations, InstallBoot,
       NoRoomForBoot, Exited

LEMMA NextTyped == TypeOK /\ Given /\ [Next]_vars => TypeOK'
<1>. SUFFICES ASSUME TypeOK, Given, [Next]_vars PROVE TypeOK'
  OBVIOUS
<1>1. CASE UNCHANGED vars
  BY <1>1 DEF vars, TypeOK
<1>. QED
  BY <1>1, ScriptTyped, LoadTyped DEF Next, Exited

\* The location, the script globals, memory and registers keep their types and
\* the loops stay within the script and the relocation table, for every script
\* and context.
THEOREM TypeCorrect == Spec => []TypeOK
<1>1. Init => TypeOK /\ Given
  BY InitTyped
<1>2. TypeOK /\ Given /\ [Next]_vars => TypeOK' /\ Given'
  BY NextTyped, NextGiven
<1>. QED
  BY <1>1, <1>2, PTL DEF Spec


-----------------------------------------------------------------------------
(* Where the script puts the sections.                                     *)

Location == Unsigned(global_table["."])
PlacedBefore(s) == \E k \in 1 .. line - 1 : Places(k, s)

\* Every placement is behind the ones before it and ahead of the location.
Ahead ==
    /\ FirstLocation <= memory_location /\ memory_location <= Location
    /\ Location <= Reach(script, sizes)[line - 1]
    /\ \A s \in Placed : FirstLocation <= start[s]
    /\ \A s \in Placed : PlacedBefore(s) => start[s] + sizes[s] <= memory_location
    /\ \A s, t \in Placed : PlacedBefore(s) /\ PlacedBefore(t) /\ s # t =>
          start[s] + sizes[s] <= start[t] \/ start[t] + sizes[t] <= start[s]

\* Only a script that was run to its end is loaded.
ScriptDone == stage \in {"copy", "entry", "patch", "boot", "loaded"} => line = Len(script) + 1

PlacementInv == ScriptDone /\ (Orderly => Ahead)

LEMMA OrderlyStays ==
    ASSUME UNCHANGED <<script, sizes>>
    PROVE  /\ Orderly' <=> Orderly
           /\ \A k, s : Places(k, s)' <=> Places(k, s)
           /\ \A k : Contents[k]' = Contents[k]
BY DEF Orderly, Places, Contents, ContentsOf

\* What an orderly script asks of the line the loop is at.
LEMMA OrderlyLine ==
    ASSUME TypeOK, Given, Orderly, line <= Len(script)
    PROVE  LET before == Reach(script, sizes)[line - 1]
               after == Reach(script, sizes)[line]
           IN  /\ Contents[line] = Content
               /\ after = before + Growth(Content, sizes)
               /\ before \in Nat /\ after \in Nat /\ after < Modulus
               /\ \A s : Places(line, s) <=> Content.type = "section" /\ Content.name = s
               /\ Content.type = "expression" /\ Content.name = "." => MovesForward(Content)
<1>1. /\ script \in Seq(Seq(Lexemes)) /\ sizes \in [Placed -> Nat]
      /\ line \in DOMAIN script /\ line \in 1 .. Len(script)
      /\ line \in 0 .. Len(script) /\ line - 1 \in 0 .. Len(script)
      /\ Len(script) \in 0 .. Len(script)
  <2>1. script \in Seq(Seq(Lexemes)) /\ sizes \in [Placed -> Nat]
    BY GivenFacts
  <2>2. line \in 1 .. Len(script) + 1
    BY DEF TypeOK
  <2>. QED
    BY <2>1, <2>2
<1>2. Contents[line] = Content
  BY <1>1 DEF Contents, ContentsOf, Content
<1>3. /\ Reach(script, sizes)[line]
            = Reach(script, sizes)[line - 1] + Growth(ReadScriptLine(script[line]), sizes)
      /\ Reach(script, sizes)[line - 1] \in Nat
      /\ Reach(script, sizes)[line] \in Nat
      /\ Reach(script, sizes)[line] <= Reach(script, sizes)[Len(script)]
      /\ Reach(script, sizes)[Len(script)] \in Nat
  BY <1>1, ReachSteps
<1>4. Reach(script, sizes)[Len(script)] < Modulus /\ Modulus \in Nat
  BY ModulusIsEven DEF Orderly
<1>5. Reach(script, sizes)[line] < Modulus
  <2>. HIDE DEF Modulus
  <2>. QED
    BY <1>3, <1>4
<1>6. Content.type = "expression" /\ Content.name = "." => MovesForward(Content)
  BY <1>1, <1>2 DEF Orderly
<1>. QED
  BY <1>2, <1>3, <1>5, <1>6 DEF Content, Places

LEMMA PlacementInitially == Init => PlacementInv
<1>. SUFFICES ASSUME Init PROVE PlacementInv
  OBVIOUS
<1>1. /\ line = 1 /\ stage = "script" /\ memory_location = FirstLocation
      /\ \A s \in Placed : start[s] = FirstLocation
      /\ global_table["."] = FirstLocation
  BY DEF Init, InitScript
<1>2. script \in Seq(Seq(Lexemes)) /\ sizes \in [Placed -> Nat]
  BY InitTyped, GivenFacts
<1>3. Reach(script, sizes)[0] = FirstLocation
  BY <1>2, ReachSteps
<1>4. Location = FirstLocation /\ FirstLocation \in Nat
  BY <1>1, MemoryBounds DEF Location
<1>5. \A s : ~PlacedBefore(s)
  BY <1>1 DEF PlacedBefore
<1>. HIDE DEF FirstLocation
<1>6. Reach(script, sizes)[line - 1] = FirstLocation
  BY <1>1, <1>3
<1>. QED
  BY <1>1, <1>4, <1>5, <1>6 DEF PlacementInv, Ahead, ScriptDone

\* A section is put to the location, and the location behind it.
LEMMA SectionPlaced ==
    ASSUME TypeOK, PlaceSection, TypeOK'
    PROVE  /\ start' = IF Content.name \in Placed
                       THEN [start EXCEPT ![Content.name] = Location] ELSE start
           /\ memory_location' =
                 Unsigned(Location + IF Content.name \in Placed THEN sizes[Content.name] ELSE 0)
           /\ Location' = memory_location'
<1>1. memory_location' \in 0 .. Modulus - 1 /\ memory_location' \in Int
  <2>1. Modulus \in Nat
    BY ModulusIsEven
  <2>. HIDE DEF Modulus
  <2>. QED
    BY <2>1 DEF TypeOK
<1>2. global_table'["."] = Signed(memory_location')
  BY DEF PlaceSection, AddScriptGlobal
<1>3. Location' = memory_location'
  BY <1>1, <1>2, SignedFacts DEF Location
<1>. QED
  BY <1>3 DEF PlaceSection, Location

\* A line that places nothing and moves the location forward, if at all,
\* within the reach of the script.
LEMMA AheadPassesLine ==
    ASSUME TypeOK, Given, Orderly, Ahead, line <= Len(script), line' = line + 1,
           UNCHANGED <<script, sizes, start, memory_location>>,
           \A s \in Placed : ~Places(line, s),
           Location' >= Location, Location' \in Nat,
           Location' <= Reach(script, sizes)[line]
    PROVE  Ahead'
<1>1. line \in Nat \ {0}
  BY GivenFacts DEF TypeOK
<1>2. \A s \in Placed : PlacedBefore(s)' <=> PlacedBefore(s)
  <2>1. \A k : k \in 1 .. line' - 1 <=> k \in 1 .. line - 1 \/ k = line
    BY <1>1
  <2>. QED
    BY <2>1, OrderlyStays DEF PlacedBefore
<1>3. line' - 1 = line
  BY <1>1
<1>4. Location \in Nat /\ memory_location \in Nat
  <2>1. Modulus \in Nat /\ global_table["."] \in Int
    BY ModulusIsEven, SignedFacts DEF TypeOK
  <2>2. Location \in 0 .. Modulus - 1 /\ memory_location \in 0 .. Modulus - 1
    BY <2>1, SignedFacts DEF Location, TypeOK
  <2>. HIDE DEF Modulus, Location
  <2>. QED
    BY <2>1, <2>2
<1>5. memory_location' <= Location'
  <2>. HIDE DEF Location
  <2>. QED
    BY <1>4 DEF Ahead
<1>6. Location' <= (Reach(script, sizes)[line - 1])'
  BY <1>3
<1>. QED
  BY <1>2, <1>5, <1>6 DEF Ahead

LEMMA AheadPassesSection ==
    ASSUME TypeOK, Given, Orderly, Ahead, PlaceSection, TypeOK'
    PROVE  Ahead'
<1>. DEFINE here == Location
            known == Content.name \in Placed
            length == IF known THEN sizes[Content.name] ELSE 0
            after == Reach(script, sizes)[line]
            before == Reach(script, sizes)[line - 1]
<1>1. /\ start' = IF known THEN [start EXCEPT ![Content.name] = here] ELSE start
      /\ memory_location' = Unsigned(here + length)
      /\ line' = line + 1 /\ UNCHANGED <<script, sizes>>
      /\ line <= Len(script) /\ Content.type = "section"
  BY DEF PlaceSection, Location, AtContent
<1>2. /\ after = before + Growth(Content, sizes)
      /\ before \in Nat /\ after \in Nat /\ after < Modulus
      /\ \A s : Places(line, s) <=> Content.name = s
  BY <1>1, OrderlyLine
<1>3. Growth(Content, sizes) = length /\ length \in Nat
  <2>1. sizes \in [Placed -> Nat]
    BY GivenFacts
  <2>. QED
    BY <1>1, <2>1 DEF Growth
<1>4. Modulus \in Nat /\ Modulus > 0 /\ FirstLocation \in Nat
  BY ModulusIsEven, MemoryBounds
<1>5. here \in 0 .. Modulus - 1 /\ memory_location \in 0 .. Modulus - 1
  <2>1. global_table["."] \in Int
    BY SignedFacts DEF TypeOK
  <2>. QED
    BY <2>1, SignedFacts DEF Location, TypeOK
<1>6. \A s \in Placed : start[s] \in 0 .. Modulus - 1 /\ sizes[s] \in Nat
  BY GivenFacts DEF TypeOK
<1>7. here <= before /\ FirstLocation <= memory_location /\ memory_location <= here
  BY DEF Ahead
<1>8. memory_location' = here + length
  <2>1. here + length \in 0 .. Modulus - 1
    <3>. HIDE DEF Modulus, here, length, before, after
    <3>. QED
      BY <1>2, <1>3, <1>4, <1>5, <1>7
  <2>2. here + length \in Int
    <3>. HIDE DEF Modulus, here, length
    <3>. QED
      BY <1>3, <1>4, <1>5
  <2>. HIDE DEF here, length
  <2>. QED
    BY <1>1, <2>1, <2>2, SignedFacts
<1>9. Location' = memory_location'
  BY SectionPlaced
<1>10. line \in Nat /\ line' - 1 = line
  <2>1. line \in 1 .. Len(script) + 1
    BY DEF TypeOK
  <2>. QED
    BY <1>1, <2>1
<1>11. ASSUME NEW s \in Placed, PlacedBefore(s)'
       PROVE  \/ known /\ s = Content.name
              \/ PlacedBefore(s) /\ (known => s # Content.name)
  <2>1. PICK k \in 1 .. line' - 1 : Places(k, s)
    BY <1>1, <1>11, OrderlyStays DEF PlacedBefore
  <2>2. k \in 1 .. line - 1 \/ k = line
    BY <1>10
  <2>3. CASE k = line
    BY <1>2, <2>1, <2>3
  <2>4. CASE k \in 1 .. line - 1
    BY <2>1, <2>4 DEF PlacedBefore
  <2>. QED
    BY <2>2, <2>3, <2>4
<1>12. \A s \in Placed :
          /\ known /\ s = Content.name => start'[s] = here /\ sizes[s] = length
          /\ ~(known /\ s = Content.name) => start'[s] = start[s]
  BY <1>1 DEF TypeOK
<1>13. \A s \in Placed : PlacedBefore(s) => start[s] + sizes[s] <= memory_location
  BY DEF Ahead
<1>14. \A s \in Placed : FirstLocation <= start[s]
  BY DEF Ahead
<1>15. \A s, t \in Placed : PlacedBefore(s) /\ PlacedBefore(t) /\ s # t =>
          start[s] + sizes[s] <= start[t] \/ start[t] + sizes[t] <= start[s]
  BY DEF Ahead
<1>. HIDE DEF Modulus, here, length, before, after, FirstLocation, known
<1>16. FirstLocation <= memory_location' /\ memory_location <= memory_location'
  BY <1>3, <1>4, <1>5, <1>7, <1>8
<1>17. Location' <= after
  BY <1>2, <1>3, <1>4, <1>5, <1>7, <1>8, <1>9
<1>18. ASSUME NEW s \in Placed PROVE FirstLocation <= start'[s]
  BY <1>4, <1>5, <1>7, <1>12, <1>14
<1>19. ASSUME NEW s \in Placed, PlacedBefore(s)'
       PROVE  start'[s] + sizes[s] <= memory_location'
  <2>1. CASE known /\ s = Content.name
    BY <1>8, <1>12, <2>1, <1>3, <1>4, <1>5
  <2>2. CASE ~(known /\ s = Content.name)
    <3>1. start'[s] = start[s] /\ start[s] + sizes[s] <= memory_location
      BY <1>11, <1>12, <1>13, <1>19, <2>2
    <3>2. start[s] + sizes[s] \in Int /\ memory_location' \in Int
      BY <1>3, <1>4, <1>5, <1>6, <1>8
    <3>. QED
      BY <1>4, <1>5, <1>16, <3>1, <3>2
  <2>. QED
    BY <2>1, <2>2
<1>20. ASSUME NEW s \in Placed, PlacedBefore(s), ~(known /\ s = Content.name)
       PROVE  start'[s] + sizes[s] <= here
  <2>1. start'[s] = start[s] /\ start[s] + sizes[s] <= memory_location
    BY <1>12, <1>13, <1>20
  <2>. QED
    BY <1>4, <1>5, <1>6, <1>7, <2>1
<1>21. ASSUME NEW s \in Placed, NEW t \in Placed, PlacedBefore(s)', PlacedBefore(t)', s # t
       PROVE  start'[s] + sizes[s] <= start'[t] \/ start'[t] + sizes[t] <= start'[s]
  <2>1. CASE known /\ s = Content.name
    BY <1>11, <1>12, <1>20, <1>21, <2>1
  <2>2. CASE known /\ t = Content.name
    BY <1>11, <1>12, <1>20, <1>21, <2>2
  <2>3. CASE ~(known /\ s = Content.name) /\ ~(known /\ t = Content.name)
    BY <1>11, <1>12, <1>15, <1>21, <2>3
  <2>. QED
    BY <2>1, <2>2, <2>3
<1>22. sizes' = sizes /\ (Reach(script, sizes)[line - 1])' = after
  BY <1>1, <1>10 DEF after
<1>23. memory_location' <= Location'
  BY <1>3, <1>4, <1>5, <1>8, <1>9
<1>. QED
  BY <1>16, <1>17, <1>18, <1>19, <1>21, <1>22, <1>23 DEF Ahead

\* An expression moves the location only if it names it, and then forward.
LEMMA AheadPassesExpression ==
    ASSUME TypeOK, Given, Orderly, Ahead, Evaluate
    PROVE  Ahead'
<1>. DEFINE v == global_table["."]
            after == Reach(script, sizes)[line]
            before == Reach(script, sizes)[line - 1]
<1>1. /\ global_table' = AddScriptGlobal(global_table, Content.name, Value(Content))
      /\ line' = line + 1 /\ UNCHANGED <<script, sizes, start, memory_location>>
      /\ line <= Len(script) /\ Content.type = "expression"
      /\ ~FaultyExpression(Content) /\ ~DividesByZero(Content)
  BY DEF Evaluate, AtContent
<1>2. /\ after = before + Growth(Content, sizes)
      /\ before \in Nat /\ after \in Nat /\ after < Modulus
      /\ \A s : ~Places(line, s)
      /\ Content.name = "." => MovesForward(Content)
  BY <1>1, OrderlyLine
<1>3. IsExpression(Content)
  BY <1>1, ContentFacts
<1>4. v \in Int /\ Location = Unsigned(v) /\ Location \in 0 .. Modulus - 1
  <2>1. v \in Int
    BY SignedFacts DEF TypeOK
  <2>. QED
    BY <2>1, SignedFacts DEF Location
<1>5. Location <= before
  BY DEF Ahead
<1>6. Modulus \in Nat
  BY ModulusIsEven
<1>7. Location' >= Location /\ Location' \in Nat /\ Location' <= after
  <2>1. CASE Content.name = "."
    <3>1. Growth(Content, sizes) = Added(Content)
      BY <1>1, <2>1 DEF Growth
    <3>2. PICK d \in Nat : d <= Added(Content) /\ Value(Content) = Signed(v + d)
      BY <1>1, <1>2, <1>3, <1>4, <2>1, ForwardValue
    <3>3. Added(Content) \in Int
      <4>1. PICK upTo : /\ \A j \in 0 .. Len(Content.op) : upTo[j] \in Nat
                        /\ Added(Content) = upTo[Len(Content.op)]
        BY <1>3, AddedSteps
      <4>2. Len(Content.op) \in 0 .. Len(Content.op)
        BY <1>3 DEF IsExpression
      <4>. QED
        BY <4>1, <4>2
    <3>4. global_table'["."] = Signed(v + d)
      BY <1>1, <2>1, <3>2 DEF AddScriptGlobal
    <3>5. v + d \in Int
      BY <1>4, <3>2
    <3>6. Location' = Unsigned(v + d)
      BY <3>4, <3>5, SignedFacts DEF Location
    <3>7. Location + d <= after /\ Location + d < Modulus
      <4>. HIDE DEF Modulus, Location, v, before, after
      <4>. QED
        BY <1>2, <1>4, <1>5, <1>6, <3>1, <3>2, <3>3
    <3>8. Location' = Location + d
      BY <1>4, <3>6, <3>7, MovesBy
    <3>. HIDE DEF Modulus, Location
    <3>. QED
      BY <1>4, <1>6, <3>7, <3>8
  <2>2. CASE Content.name # "."
    <3>1. Growth(Content, sizes) = 0
      BY <1>1, <2>2 DEF Growth
    <3>2. Location' = Location
      BY <1>1, <2>2 DEF Location, AddScriptGlobal, TypeOK
    <3>. HIDE DEF Modulus, Location
    <3>. QED
      BY <1>2, <1>4, <1>5, <1>6, <3>1, <3>2
  <2>. QED
    BY <2>1, <2>2
<1>. QED
  BY <1>1, <1>2, <1>7, AheadPassesLine

LEMMA PlacementKept == TypeOK /\ Given /\ PlacementInv /\ [Next]_vars => PlacementInv'
<1>. SUFFICES ASSUME TypeOK, Given, PlacementInv, [Next]_vars PROVE PlacementInv'
  OBVIOUS
<1>1. TypeOK' /\ UNCHANGED <<script, sizes>>
  <2>1. UNCHANGED <<script, sizes>>
    BY DEF Next, vars, ScriptNext, loadVars, PlaceSection, Evaluate, StopInExpression,
           PassOverLine, EndScript, Load, CopySections, LoseMemory, FindMain, NoMain,
           PatchInstruction, RejectRelocation, CrashOnRelocation, EndRelocations,
           InstallBoot, NoRoomForBoot, Exited
  <2>. QED
    BY <2>1, NextTyped
<1>2. ScriptDone'
  <2>1. CASE PlaceSection \/ Evaluate \/ PassOverLine
    BY <2>1 DEF PlaceSection, Evaluate, PassOverLine, AtContent, ScriptDone
  <2>2. CASE StopInExpression \/ EndScript
    <3>1. line \in 1 .. Len(script) + 1 /\ Len(script) \in Nat
      BY GivenFacts DEF TypeOK
    <3>. QED
      BY <2>2, <3>1 DEF StopInExpression, EndScript, ScriptDone
  <2>3. CASE Load \/ UNCHANGED vars
    BY <2>3 DEF Load, CopySections, LoseMemory, FindMain, NoMain, PatchInstruction,
                RejectRelocation, CrashOnRelocation, EndRelocations, InstallBoot,
                NoRoomForBoot, AtRelocation, vars, ScriptDone, PlacementInv
  <2>. QED
    BY <2>1, <2>2, <2>3 DEF Next, ScriptNext, Exited
<1>3. ASSUME Orderly PROVE Ahead'
  <2>1. Ahead
    BY <1>3 DEF PlacementInv
  <2>2. CASE PlaceSection
    BY <1>1, <1>3, <2>1, <2>2, AheadPassesSection
  <2>3. CASE Evaluate
    BY <1>3, <2>1, <2>3, AheadPassesExpression
  <2>4. CASE PassOverLine
    <3>1. /\ line <= Len(script) /\ line' = line + 1 /\ Content.type = "none"
          /\ UNCHANGED <<script, sizes, start, memory_location, global_table>>
      BY <2>4 DEF PassOverLine, AtContent
    <3>2. /\ Reach(script, sizes)[line] = Reach(script, sizes)[line - 1]
          /\ \A s \in Placed : ~Places(line, s)
      <4>1. Growth(Content, sizes) = 0
        BY <3>1 DEF Growth
      <4>. QED
        BY <1>3, <3>1, <4>1, OrderlyLine
    <3>3. Location' = Location /\ Location \in Nat
      <4>1. Modulus \in Nat /\ global_table["."] \in Int
        BY ModulusIsEven, SignedFacts DEF TypeOK
      <4>2. Location \in 0 .. Modulus - 1
        BY <4>1, SignedFacts DEF Location
      <4>3. Location' = Location
        BY <3>1 DEF Location
      <4>. HIDE DEF Modulus, Location
      <4>. QED
        BY <4>1, <4>2, <4>3
    <3>4. Location' <= Reach(script, sizes)[line]
      BY <2>1, <3>2, <3>3 DEF Ahead
    <3>. HIDE DEF Location
    <3>5. Location' >= Location /\ Location' \in Nat
      BY <3>3
    <3>. QED
      BY <1>3, <2>1, <3>1, <3>2, <3>4, <3>5, AheadPassesLine
  <2>5. CASE UNCHANGED <<script, sizes, line, memory_location, start, global_table>>
    BY <2>1, <2>5 DEF Ahead, Location, PlacedBefore, Places, Contents, ContentsOf
  <2>. QED
    BY <2>2, <2>3, <2>4, <2>5
    DEF Next, vars, ScriptNext, StopInExpression, EndScript, Load, CopySections, LoseMemory,
        FindMain, NoMain, PatchInstruction, RejectRelocation, CrashOnRelocation,
        EndRelocations, InstallBoot, NoRoomForBoot, Exited
<1>. QED
  BY <1>1, <1>2, <1>3, OrderlyStays DEF PlacementInv

-----------------------------------------------------------------------------
(* What is in memory.                                                      *)

\* A part of an area that is whole is whole.
LEMMA HoldsPart ==
    ASSUME NEW address \in Int, NEW length \in Nat, NEW origin,
           Holds(address, length, origin, 0),
           NEW from \in Nat, NEW part \in Nat, from + part <= length
    PROVE  Holds(address + from, part, origin, from)
<1>. SUFFICES ASSUME NEW k \in 0 .. part - 1
              PROVE  ByteAt(address + from + k) = <<origin, from + k>>
  BY DEF Holds
<1>1. from + k \in 0 .. length - 1 /\ address + from + k = address + (from + k)
  OBVIOUS
<1>2. ByteAt(address + (from + k)) = <<origin, 0 + (from + k)>>
  BY <1>1 DEF Holds
<1>. QED
  BY <1>1, <1>2

\* Everything the copies and the search for main establish, up to the loaded
\* program.
CopiesFit ==
    stage \in {"entry", "patch", "boot", "loaded"} =>
        \A s \in Placed : Fits(start[s], sizes[s])

Main == SymbolAt(final.symtable, IndexOfName(final.symtable, EntryPoint))

EntryFound ==
    /\ stage \in {"patch", "boot", "loaded"} => Defined(final.symtable, EntryPoint)
    /\ stage \in {"patch", "boot"} => registers["pc"] = start["text"] + Main.offset - 4
    /\ stage = "loaded" => registers["lr"] = start["text"] + Main.offset - 4

ImageInv == CopiesFit /\ EntryFound /\ SectionsIntact

\* An area in memory, and what a copy to another place leaves of it.
Byte(origin, k) == <<origin, k>>

LEMMA CopyHolds ==
    ASSUME NEW bytes \in Images, NEW origin,
           NEW address \in Nat, NEW length \in Nat, NEW a \in 0 .. MemorySize - 1,
           address <= a, a < address + length
    PROVE  Copy(bytes, origin, address, length)[a] = Byte(origin, a - address)
<1>1. a - address \in 0 .. length - 1
  BY MemoryBounds
<1>2. Copy(bytes, origin, address, length)[a] =
         IF a - address \in 0 .. length - 1 THEN <<origin, a - address>> ELSE bytes[a]
  BY DEF Copy, Images
<1>. QED
  BY <1>1, <1>2 DEF Byte

LEMMA CopySpares ==
    ASSUME NEW bytes \in Images, NEW origin,
           NEW address \in Nat, NEW length \in Nat, NEW a \in 0 .. MemorySize - 1,
           a < address \/ address + length <= a
    PROVE  Copy(bytes, origin, address, length)[a] = bytes[a]
<1>1. a - address \notin 0 .. length - 1
  BY MemoryBounds
<1>2. Copy(bytes, origin, address, length)[a] =
         IF a - address \in 0 .. length - 1 THEN <<origin, a - address>> ELSE bytes[a]
  BY DEF Copy, Images
<1>. QED
  BY <1>1, <1>2

LEMMA SectionsApart ==
    ASSUME TypeOK, Given, PlacementInv, Orderly,
           stage \in {"copy", "entry", "patch", "boot", "loaded"}
    PROVE  /\ WordSize <= memory_location
           /\ \A s \in Placed : WordSize <= start[s] /\ start[s] + sizes[s] <= memory_location
           /\ \A s, t \in Placed : s # t =>
                 start[s] + sizes[s] <= start[t] \/ start[t] + sizes[t] <= start[s]
<1>1. Ahead /\ line = Len(script) + 1
  BY DEF PlacementInv, ScriptDone
<1>2. ASSUME NEW s \in Placed PROVE PlacedBefore(s)
  <2>1. PICK k \in DOMAIN script : Places(k, s)
    BY DEF Orderly
  <2>2. script \in Seq(Seq(Lexemes))
    BY GivenFacts
  <2>3. k \in 1 .. line - 1
    BY <1>1, <2>1, <2>2
  <2>. QED
    BY <2>1, <2>3 DEF PlacedBefore
<1>3. Modulus \in Nat /\ FirstLocation \in Nat /\ WordSize <= FirstLocation /\ WordSize \in Nat
  BY ModulusIsEven, MemoryBounds DEF WordSize
<1>4. /\ memory_location \in 0 .. Modulus - 1
      /\ \A s \in Placed : start[s] \in 0 .. Modulus - 1
  BY DEF TypeOK
<1>5. /\ FirstLocation <= memory_location
      /\ \A s \in Placed : FirstLocation <= start[s]
  BY <1>1 DEF Ahead
<1>. HIDE DEF Modulus, FirstLocation, WordSize
<1>6. WordSize <= memory_location /\ \A s \in Placed : WordSize <= start[s]
  BY <1>3, <1>4, <1>5
<1>. QED
  BY <1>1, <1>2, <1>6 DEF Ahead

\* The three copies leave each other whole.
LEMMA CopiesWhole ==
    ASSUME TypeOK, Given, PlacementInv, Orderly, CopySections, NEW s \in Placed
    PROVE  Holds(start[s], sizes[s], s, 0)'
<1>. DEFINE data == Copy(memory, "data", start["data"], sizes["data"])
            bss == Copy(data, "bss", start["bss"], sizes["bss"])
            text == Copy(bss, "text", start["text"], sizes["text"])
<1>1. /\ memory' = text /\ UNCHANGED <<start, sizes>>
      /\ stage = "copy" /\ \A t \in Placed : Fits(start[t], sizes[t])
  BY DEF CopySections
<1>2. \A t \in Placed : t \in Origins /\ start[t] \in Nat /\ sizes[t] \in Nat
  <2>1. Modulus \in Nat /\ sizes \in [Placed -> Nat] /\ start \in [Placed -> 0 .. Modulus - 1]
    BY ModulusIsEven, GivenFacts DEF TypeOK
  <2>. HIDE DEF Modulus
  <2>. QED
    BY <2>1 DEF Origins
<1>3. \A t, u \in Placed : t # u =>
         start[t] + sizes[t] <= start[u] \/ start[u] + sizes[u] <= start[t]
  BY <1>1, SectionsApart
<1>4. /\ "text" \in Placed /\ "data" \in Placed /\ "bss" \in Placed
      /\ s \in {"text", "data", "bss"}
  BY DEF Placed
<1>5. memory \in Images
  BY DEF TypeOK, Images
<1>6. data \in Images
  BY <1>2, <1>4, <1>5, CopyTyped
<1>. HIDE DEF data
<1>7. bss \in Images
  BY <1>2, <1>4, <1>6, CopyTyped
<1>. HIDE DEF bss
<1>8. text \in Images
  BY <1>2, <1>4, <1>7, CopyTyped
<1>9. ASSUME NEW k \in 0 .. sizes[s] - 1
      PROVE  text[start[s] + k] = <<s, k>> /\ start[s] + k \in 0 .. MemorySize - 1
  <2>. DEFINE a == start[s] + k
  <2>1. a \in 0 .. MemorySize - 1
    <3>1. Fits(start[s], sizes[s]) /\ start[s] \in Nat /\ sizes[s] \in Nat /\ MemorySize \in Nat
      BY <1>1, <1>2, MemoryBounds
    <3>. QED
      BY <3>1 DEF Fits
  <2>2. \A t \in Placed : t # s => a < start[t] \/ start[t] + sizes[t] <= a
    <3>. SUFFICES ASSUME NEW t \in Placed, t # s
                  PROVE  a < start[t] \/ start[t] + sizes[t] <= a
      OBVIOUS
    <3>1. start[t] + sizes[t] <= start[s] \/ start[s] + sizes[s] <= start[t]
      BY <1>3
    <3>2. start[s] \in Nat /\ sizes[s] \in Nat /\ start[t] \in Nat /\ sizes[t] \in Nat
      BY <1>2
    <3>. QED
      BY <3>1, <3>2
  <2>3. s = "data" => data[a] = <<s, k>>
    <3>. SUFFICES ASSUME s = "data" PROVE data[a] = <<s, k>>
      OBVIOUS
    <3>1. /\ start["data"] \in Nat /\ sizes["data"] \in Nat
          /\ start["data"] <= a /\ a < start["data"] + sizes["data"] /\ a - start["data"] = k
      BY <1>2, <1>4
    <3>. HIDE DEF a
    <3>2. data[a] = Byte("data", a - start["data"])
      BY <1>5, <2>1, <3>1, CopyHolds DEF data
    <3>. QED
      BY <3>1, <3>2 DEF Byte
  <2>4. s # "bss" => bss[a] = data[a]
    <3>. SUFFICES ASSUME s # "bss" PROVE bss[a] = data[a]
      OBVIOUS
    <3>1. /\ a < start["bss"] \/ start["bss"] + sizes["bss"] <= a
          /\ start["bss"] \in Nat /\ sizes["bss"] \in Nat
      BY <1>2, <1>4, <2>2
    <3>. HIDE DEF a
    <3>. QED
      BY <1>6, <2>1, <3>1, CopySpares DEF bss
  <2>5. s = "bss" => bss[a] = <<s, k>>
    <3>. SUFFICES ASSUME s = "bss" PROVE bss[a] = <<s, k>>
      OBVIOUS
    <3>1. /\ start["bss"] \in Nat /\ sizes["bss"] \in Nat
          /\ start["bss"] <= a /\ a < start["bss"] + sizes["bss"] /\ a - start["bss"] = k
      BY <1>2, <1>4
    <3>. HIDE DEF a
    <3>2. bss[a] = Byte("bss", a - start["bss"])
      BY <1>6, <2>1, <3>1, CopyHolds DEF bss
    <3>. QED
      BY <3>1, <3>2 DEF Byte
  <2>6. s # "text" => text[a] = bss[a]
    <3>. SUFFICES ASSUME s # "text" PROVE text[a] = bss[a]
      OBVIOUS
    <3>1. /\ a < start["text"] \/ start["text"] + sizes["text"] <= a
          /\ start["text"] \in Nat /\ sizes["text"] \in Nat
      BY <1>2, <1>4, <2>2
    <3>. HIDE DEF a
    <3>. QED
      BY <1>7, <2>1, <3>1, CopySpares
  <2>7. s = "text" => text[a] = <<s, k>>
    <3>. SUFFICES ASSUME s = "text" PROVE text[a] = <<s, k>>
      OBVIOUS
    <3>1. /\ start["text"] \in Nat /\ sizes["text"] \in Nat
          /\ start["text"] <= a /\ a < start["text"] + sizes["text"] /\ a - start["text"] = k
      BY <1>2, <1>4
    <3>. HIDE DEF a
    <3>2. text[a] = Byte("text", a - start["text"])
      BY <1>7, <2>1, <3>1, CopyHolds
    <3>. QED
      BY <3>1, <3>2 DEF Byte
  <2>. HIDE DEF a, text
  <2>8. text[a] = <<s, k>>
    BY <1>4, <2>3, <2>4, <2>5, <2>6, <2>7
  <2>. QED
    BY <2>1, <2>8 DEF a
<1>10. DOMAIN memory' = 0 .. MemorySize - 1
  BY <1>1, <1>8 DEF Images
<1>11. \A k \in 0 .. sizes[s] - 1 : ByteAt(start[s] + k)' = <<s, 0 + k>>
  <2>. SUFFICES ASSUME NEW k \in 0 .. sizes[s] - 1
                PROVE  ByteAt(start[s] + k)' = <<s, 0 + k>>
    OBVIOUS
  <2>1. text[start[s] + k] = <<s, k>> /\ start[s] + k \in 0 .. MemorySize - 1
    BY <1>9
  <2>2. 0 + k = k
    OBVIOUS
  <2>. HIDE DEF text
  <2>. QED
    BY <1>1, <1>10, <2>1, <2>2 DEF ByteAt
<1>. QED
  BY <1>1, <1>11 DEF Holds

\* The boot routine behind the sections and the vector before them spare them
\* and one another.
LEMMA BootSpares ==
    ASSUME TypeOK, Given, PlacementInv, Orderly, SectionsIntact, CopiesFit, InstallBoot
    PROVE  /\ \A s \in Placed : Holds(start[s], sizes[s], s, 0)'
           /\ Holds(0, WordSize, "ivt", 0)'
           /\ Holds(registers["pc"], BootBytes, "boot", 0)'
<1>. DEFINE ivt == Copy(memory, "ivt", 0, WordSize)
            boot == Copy(ivt, "boot", memory_location, BootBytes)
<1>1. /\ memory' = boot /\ UNCHANGED <<start, sizes>>
      /\ stage = "boot" /\ Fits(memory_location, BootBytes)
      /\ registers'["pc"] = memory_location
  BY DEF InstallBoot, TypeOK
<1>2. /\ "ivt" \in Origins /\ "boot" \in Origins /\ 0 \in Nat
      /\ WordSize \in Nat /\ WordSize = 4 /\ BootBytes \in Nat
      /\ MemorySize \in Nat /\ WordSize <= MemorySize
  BY MemoryBounds DEF Origins, WordSize, BootBytes, InstructionBytes
<1>3. /\ memory_location \in Nat
      /\ \A s \in Placed : start[s] \in Nat /\ sizes[s] \in Nat
  <2>1. /\ Modulus \in Nat /\ sizes \in [Placed -> Nat] /\ start \in [Placed -> 0 .. Modulus - 1]
        /\ memory_location \in 0 .. Modulus - 1
    BY ModulusIsEven, GivenFacts DEF TypeOK
  <2>. HIDE DEF Modulus
  <2>. QED
    BY <2>1
<1>4. /\ WordSize <= memory_location
      /\ \A s \in Placed : WordSize <= start[s] /\ start[s] + sizes[s] <= memory_location
  BY <1>1, SectionsApart
<1>5. memory \in Images
  BY DEF TypeOK, Images
<1>6. ivt \in Images
  BY <1>2, <1>5, CopyTyped
<1>. HIDE DEF ivt
<1>7. boot \in Images
  BY <1>2, <1>3, <1>6, CopyTyped
<1>8. DOMAIN memory' = 0 .. MemorySize - 1 /\ DOMAIN memory = 0 .. MemorySize - 1
  BY <1>1, <1>5, <1>7 DEF Images
<1>9. ASSUME NEW s \in Placed, NEW k \in 0 .. sizes[s] - 1
      PROVE  ByteAt(start[s] + k)' = <<s, 0 + k>>
  <2>. DEFINE a == start[s] + k
  <2>1. a \in 0 .. MemorySize - 1 /\ WordSize <= a /\ a < memory_location
    <3>1. Fits(start[s], sizes[s]) /\ start[s] \in Nat /\ sizes[s] \in Nat
      BY <1>1, <1>3 DEF CopiesFit
    <3>2. WordSize <= start[s] /\ start[s] + sizes[s] <= memory_location
      BY <1>4
    <3>. HIDE DEF WordSize
    <3>. QED
      BY <1>2, <1>3, <3>1, <3>2 DEF Fits
  <2>2. memory[a] = <<s, 0 + k>>
    <3>1. \A t \in Placed : Holds(start[t], sizes[t], t, 0)
      BY <1>1 DEF SectionsIntact
    <3>2. ByteAt(start[s] + k) = <<s, 0 + k>>
      BY <3>1 DEF Holds
    <3>. QED
      BY <1>8, <2>1, <3>2 DEF ByteAt
  <2>. HIDE DEF a
  <2>3. ivt[a] = memory[a]
    <3>1. 0 + WordSize <= a
      BY <1>2, <2>1
    <3>. QED
      BY <1>2, <1>5, <2>1, <3>1, CopySpares DEF ivt
  <2>4. boot[a] = ivt[a]
    BY <1>2, <1>3, <1>6, <2>1, CopySpares
  <2>. HIDE DEF boot
  <2>5. memory'[a] = <<s, 0 + k>>
    BY <1>1, <2>2, <2>3, <2>4
  <2>6. start' = start
    BY <1>1
  <2>. QED
    BY <1>8, <2>1, <2>5, <2>6 DEF ByteAt, a
<1>10. ASSUME NEW k \in 0 .. WordSize - 1 PROVE ByteAt(0 + k)' = <<"ivt", 0 + k>>
  <2>1. 0 + k = k /\ k \in 0 .. MemorySize - 1 /\ k < memory_location
    <3>. HIDE DEF WordSize
    <3>. QED
      BY <1>2, <1>3, <1>4
  <2>2. ivt[k] = <<"ivt", k>>
    <3>1. 0 <= k /\ k < 0 + WordSize /\ k - 0 = k
      BY <1>2
    <3>2. ivt[k] = Byte("ivt", k - 0)
      BY <1>2, <1>5, <2>1, <3>1, CopyHolds DEF ivt
    <3>. QED
      BY <3>1, <3>2 DEF Byte
  <2>3. boot[k] = ivt[k]
    BY <1>2, <1>3, <1>6, <2>1, CopySpares
  <2>. HIDE DEF boot
  <2>4. memory'[k] = <<"ivt", k>>
    BY <1>1, <2>2, <2>3
  <2>. QED
    BY <1>8, <2>1, <2>4 DEF ByteAt
<1>11. ASSUME NEW k \in 0 .. BootBytes - 1
       PROVE  ByteAt(registers["pc"] + k)' = <<"boot", 0 + k>>
  <2>. DEFINE a == memory_location + k
  <2>1. /\ a \in 0 .. MemorySize - 1 /\ memory_location <= a
        /\ a < memory_location + BootBytes /\ a - memory_location = k /\ 0 + k = k
    BY <1>1, <1>2, <1>3 DEF Fits
  <2>. HIDE DEF a
  <2>2. boot[a] = Byte("boot", a - memory_location)
    BY <1>2, <1>3, <1>6, <2>1, CopyHolds
  <2>. HIDE DEF boot
  <2>3. memory'[a] = <<"boot", 0 + k>>
    BY <1>1, <2>1, <2>2 DEF Byte
  <2>4. registers'["pc"] + k = a
    BY <1>1 DEF a
  <2>. QED
    BY <1>8, <2>1, <2>3, <2>4 DEF ByteAt
<1>. QED
  BY <1>1, <1>9, <1>10, <1>11 DEF Holds

LEMMA ImageInitially == Init => ImageInv
BY DEF Init, InitScript, ImageInv, CopiesFit, EntryFound, SectionsIntact

LEMMA ImageKept == TypeOK /\ Given /\ PlacementInv /\ ImageInv /\ [Next]_vars => ImageInv'
<1>. SUFFICES ASSUME TypeOK, Given, PlacementInv, ImageInv, [Next]_vars PROVE ImageInv'
  OBVIOUS
<1>1. CASE ScriptNext /\ UNCHANGED loadVars
  <2>1. stage' \notin {"entry", "patch", "boot", "loaded"}
    BY <1>1 DEF ScriptNext, PlaceSection, Evaluate, StopInExpression, PassOverLine, EndScript,
                AtContent
  <2>. QED
    BY <2>1 DEF ImageInv, CopiesFit, EntryFound, SectionsIntact
<1>2. CASE CopySections
  <2>1. /\ stage' = "entry" /\ UNCHANGED <<script, start, sizes>>
        /\ \A s \in Placed : Fits(start[s], sizes[s])
    BY <1>2 DEF CopySections
  <2>2. Orderly' => \A s \in Placed : Holds(start[s], sizes[s], s, 0)'
    BY <1>2, <2>1, CopiesWhole, OrderlyStays
  <2>. QED
    BY <2>1, <2>2 DEF ImageInv, CopiesFit, EntryFound, SectionsIntact
<1>3. CASE FindMain
  <2>1. /\ stage = "entry" /\ stage' = "patch" /\ Defined(final.symtable, EntryPoint)
        /\ UNCHANGED <<script, start, sizes, final, memory>>
        /\ registers'["pc"] = start["text"] + Main.offset - 4
    BY <1>3 DEF FindMain, TypeOK, Main
  <2>2. \A address, length, origin : Holds(address, length, origin, 0)' <=>
                                     Holds(address, length, origin, 0)
    BY <2>1 DEF Holds, ByteAt
  <2>. QED
    BY <2>1, <2>2, OrderlyStays DEF ImageInv, CopiesFit, EntryFound, SectionsIntact, Main
<1>4. CASE InstallBoot
  <2>1. /\ stage = "boot" /\ stage' = "loaded"
        /\ UNCHANGED <<script, start, sizes, final>>
        /\ registers'["lr"] = registers["pc"]
    BY <1>4 DEF InstallBoot, TypeOK
  <2>2. Orderly' => /\ \A s \in Placed : Holds(start[s], sizes[s], s, 0)'
                    /\ Holds(0, WordSize, "ivt", 0)'
                    /\ Holds(registers["pc"], BootBytes, "boot", 0)'
    BY <1>4, <2>1, BootSpares, OrderlyStays DEF ImageInv
  <2>. QED
    BY <2>1, <2>2 DEF ImageInv, CopiesFit, EntryFound, SectionsIntact, Main
<1>5. CASE LoseMemory \/ NoMain \/ RejectRelocation \/ CrashOnRelocation \/ NoRoomForBoot
  <2>1. stage' \notin {"entry", "patch", "boot", "loaded"}
    BY <1>5 DEF LoseMemory, NoMain, RejectRelocation, CrashOnRelocation, NoRoomForBoot
  <2>. QED
    BY <2>1 DEF ImageInv, CopiesFit, EntryFound, SectionsIntact
<1>6. CASE PatchInstruction \/ EndRelocations \/ UNCHANGED vars
  <2>1. /\ UNCHANGED <<script, start, sizes, final, memory, registers>>
        /\ (stage' = stage) \/ (stage = "patch" /\ stage' = "boot")
    BY <1>6 DEF PatchInstruction, EndRelocations, vars
  <2>2. \A address, length, origin : Holds(address, length, origin, 0)' <=>
                                     Holds(address, length, origin, 0)
    BY <2>1 DEF Holds, ByteAt
  <2>. QED
    BY <2>1, <2>2, OrderlyStays DEF ImageInv, CopiesFit, EntryFound, SectionsIntact, Main
<1>. QED
  BY <1>1, <1>2, <1>3, <1>4, <1>5, <1>6 DEF Next, Load, Exited

\* What an item's bytes are, once its section is whole.
LEMMA ItemWhole ==
    ASSUME TypeOK, Given, SectionsIntact, Orderly,
           stage \in {"entry", "patch", "boot", "loaded"},
           NEW symbol \in Symbol(STRING), Sound(symbol, sizes), symbol.section \in Placed
    PROVE  LET item == symbol.offset - symbol.size
           IN  /\ item \in Nat
               /\ Holds(start[symbol.section] + item, symbol.size, symbol.section, item)
<1>. DEFINE s == symbol.section
            item == symbol.offset - symbol.size
<1>1. symbol.offset \in Nat /\ symbol.size \in Nat
  BY DEF Symbol
<1>2. symbol.size <= symbol.offset /\ symbol.offset <= sizes[s]
  BY DEF Sound, Placed
<1>3. sizes[s] \in Nat /\ start[s] \in Nat
  <2>1. Modulus \in Nat /\ sizes \in [Placed -> Nat] /\ start \in [Placed -> 0 .. Modulus - 1]
    BY ModulusIsEven, GivenFacts DEF TypeOK
  <2>. HIDE DEF Modulus
  <2>. QED
    BY <2>1
<1>4. Holds(start[s], sizes[s], s, 0)
  BY DEF SectionsIntact
<1>5. item \in Nat /\ item + symbol.size <= sizes[s]
  BY <1>1, <1>2, <1>3
<1>. HIDE DEF s, item
<1>6. Holds(start[s] + item, symbol.size, s, item)
  BY <1>1, <1>3, <1>4, <1>5, HoldsPart
<1>. QED
  BY <1>5, <1>6 DEF s, item

LEMMA MainReached ==
    TypeOK /\ Given /\ ImageInv => BootReachesMain
<1>. SUFFICES ASSUME TypeOK, Given, ImageInv, stage = "loaded", Orderly,
                     Main.type = "function", Main.size = InstructionBytes
              PROVE  Holds(registers["lr"], Main.size, "text", Main.offset - Main.size)
  BY DEF BootReachesMain, Main
<1>1. /\ Defined(final.symtable, EntryPoint)
      /\ registers["lr"] = start["text"] + Main.offset - 4
  BY DEF ImageInv, EntryFound
<1>2. Main \in Symbol(STRING) /\ Sound(Main, sizes)
  <2>1. /\ final.symtable \in Seq(Symbol(STRING))
        /\ \A k \in DOMAIN final.symtable : Sound(final.symtable[k], sizes)
    BY GivenFacts
  <2>2. HasIndex(final.symtable, IndexOfName(final.symtable, EntryPoint))
    BY <1>1, <2>1, IndexOfNameFindsEntry
  <2>. QED
    BY <2>1, <2>2 DEF HasIndex, SymbolAt, Main
<1>3. Main.section = "text" /\ "text" \in Placed
  BY <1>2 DEF Sound, Placed
<1>. HIDE DEF Main
<1>4. Holds(start["text"] + (Main.offset - Main.size), Main.size, "text",
            Main.offset - Main.size)
  BY <1>2, <1>3, ItemWhole DEF ImageInv
<1>5. start["text"] + (Main.offset - Main.size) = start["text"] + Main.offset - 4
  <2>1. Main.offset \in Nat
    BY <1>2 DEF Symbol
  <2>2. start["text"] \in Int
    <3>1. Modulus \in Nat /\ start["text"] \in 0 .. Modulus - 1
      BY <1>3, ModulusIsEven DEF TypeOK
    <3>. HIDE DEF Modulus
    <3>. QED
      BY <3>1
  <2>. QED
    BY <2>1, <2>2 DEF InstructionBytes
<1>. QED
  BY <1>1, <1>4, <1>5

-----------------------------------------------------------------------------
(* What the machine will find behind the operands.                         *)

\* What a relocation is patched with leads to its symbol's item.
ReachedBy(reloc, symbol, value) ==
    /\ symbol.type = "function" /\ symbol.size > 0 =>
          value.number = start["text"] + (symbol.offset - symbol.size)
    /\ IsDatumOf(symbol, "data") => HasItem(symbol, FieldBits[final.code[reloc.offset]], value)
    /\ symbol.type = "extern" =>
          value.number = InField(global_table[symbol.name],
                                 FieldValues[final.code[reloc.offset]])

Reached(reloc) ==
    /\ HasIndex(final.symtable, reloc.index)
    /\ ReachedBy(reloc, SymbolAt(final.symtable, reloc.index), operand[reloc.offset])

\* The loop has patched every relocation it has passed, and passes all.
OperandsInv ==
    /\ stage \in {"script", "copy", "entry"} => node = 1
    /\ stage \in {"boot", "loaded"} => node = Len(final.reloctable) + 1
    /\ Orderly => \A n \in 1 .. node - 1 : Reached(final.reloctable[n])

LEMMA SymbolFacts ==
    ASSUME Given, NEW index, HasIndex(final.symtable, index)
    PROVE  /\ SymbolAt(final.symtable, index) \in Symbol(STRING)
           /\ Sound(SymbolAt(final.symtable, index), sizes)
BY GivenFacts DEF HasIndex, SymbolAt

\* The field of a call holds the address of every function in memory.
LEMMA CallReaches ==
    ASSUME TypeOK, Given, CopiesFit, stage = "patch",
           NEW symbol \in Symbol(STRING), Sound(symbol, sizes),
           symbol.type = "function", symbol.size > 0
    PROVE  Number(start["text"] + symbol.offset - symbol.size, FieldValues["call"]).number =
              start["text"] + (symbol.offset - symbol.size)
<1>. DEFINE from == start["text"]
            address == from + symbol.offset - symbol.size
<1>1. /\ symbol.offset \in Nat /\ symbol.size \in Nat
      /\ symbol.size <= symbol.offset /\ symbol.offset <= sizes["text"]
  BY DEF Symbol, Sound
<1>2. /\ from \in Nat /\ sizes["text"] \in Nat /\ Fits(from, sizes["text"])
  <2>1. /\ Modulus \in Nat /\ sizes \in [Placed -> Nat] /\ start \in [Placed -> 0 .. Modulus - 1]
        /\ "text" \in Placed
    BY ModulusIsEven, GivenFacts DEF TypeOK, Placed
  <2>. HIDE DEF Modulus
  <2>. QED
    BY <2>1 DEF CopiesFit
<1>3. from + sizes["text"] <= MemorySize /\ MemorySize \in Nat /\ MemorySize <= 262144
  BY <1>1, <1>2, MemoryBounds DEF Fits
<1>. HIDE DEF from
<1>4. address \in Nat /\ address < 262144 /\ address = from + (symbol.offset - symbol.size)
  BY <1>1, <1>2, <1>3
<1>. HIDE DEF address
<1>. DEFINE values == FieldValues["call"]
<1>5. values = 524288
  BY DEF FieldValues
<1>. HIDE DEF values
<1>. DEFINE half == values \div 2
<1>6. values \in Nat /\ values > 0 /\ half \in Nat /\ 2 * half = values /\ address < half
  BY <1>4, <1>5
<1>. HIDE DEF half
<1>7. address \in Int /\ address \in 0 .. half - 1
  BY <1>4, <1>6
<1>8. InField(address, values) = address
  BY <1>6, <1>7, FieldRange DEF half
<1>9. Number(address, values).number = address
  BY <1>8 DEF Number
<1>. QED
  BY <1>4, <1>9 DEF address, from, values

\* A datum is read from all of its bytes.
LEMMA DatumReaches ==
    ASSUME TypeOK, Given, SectionsIntact, Orderly, stage = "patch",
           NEW symbol \in Symbol(STRING), Sound(symbol, sizes),
           symbol.section = "data", symbol.size \in {1, 2, 4}
    PROVE  Datum(symbol) = [k \in 1 .. symbol.size |->
                              <<"data", symbol.offset - symbol.size + k - 1>>]
<1>. DEFINE item == symbol.offset - symbol.size
            address == start["data"] + symbol.offset - symbol.size
<1>1. /\ item \in Nat
      /\ Holds(start["data"] + item, symbol.size, "data", item)
  <2>1. symbol.section \in Placed
    BY DEF Placed
  <2>. QED
    BY <2>1, ItemWhole
<1>2. symbol.offset \in Nat /\ symbol.size \in Nat
  BY DEF Symbol
<1>3. start["data"] \in Int
  <2>1. Modulus \in Nat /\ start \in [Placed -> 0 .. Modulus - 1] /\ "data" \in Placed
    BY ModulusIsEven DEF TypeOK, Placed
  <2>. HIDE DEF Modulus
  <2>. QED
    BY <2>1
<1>4. Datum(symbol) = [k \in 1 .. symbol.size |-> ByteAt(address + k - 1)]
  BY DEF Datum, ReadInt
<1>5. ASSUME NEW k \in 1 .. symbol.size
      PROVE  ByteAt(address + k - 1) = <<"data", item + k - 1>>
  <2>1. k - 1 \in 0 .. symbol.size - 1
    BY <1>2
  <2>2. ByteAt(start["data"] + item + (k - 1)) = <<"data", item + (k - 1)>>
    BY <1>1, <2>1 DEF Holds
  <2>3. /\ start["data"] + item + (k - 1) = address + k - 1
        /\ item + (k - 1) = item + k - 1
    BY <1>2, <1>3
  <2>. HIDE DEF address, item
  <2>. QED
    BY <2>2, <2>3
<1>. HIDE DEF address
<1>. QED
  BY <1>4, <1>5

\* A field of any width keeps the bits of those bytes, and the sign above.
LEMMA BitsReach ==
    ASSUME NEW symbol \in Symbol(STRING), symbol.size \in {1, 2, 4},
           NEW width \in Nat,
           NEW bytes, bytes = [k \in 1 .. symbol.size |->
                                  <<symbol.section, symbol.offset - symbol.size + k - 1>>]
    PROVE  HasItem(symbol, width, Kept(bytes, width))
<1>. DEFINE item == symbol.offset - symbol.size
            size == symbol.size
            section == symbol.section
<1>1. symbol.offset \in Nat /\ size \in {1, 2, 4} /\ item \in Int
  BY DEF Symbol
<1>2. bytes = [k \in 1 .. size |-> <<section, item + k - 1>>]
  OBVIOUS
<1>. HIDE DEF item, size, section
<1>3. Len(bytes) = size /\ bytes # << >>
  BY <1>1, <1>2
<1>4. ASSUME NEW b \in 0 .. width - 1
      PROVE  BitOf(bytes, b) = ItemBit(section, item, size, b)
  <2>1. b \in Nat /\ b \div 8 \in Nat /\ (b \div 8 < size <=> b < 8 * size)
    BY <1>1
  <2>. DEFINE j == b \div 8
  <2>. HIDE DEF j
  <2>2. CASE j < size
    <3>1. j + 1 \in 1 .. size /\ item + (j + 1) - 1 = item + j
      BY <1>1, <2>1, <2>2 DEF j
    <3>2. bytes[j + 1] = <<section, item + j>>
      BY <1>2, <3>1
    <3>3. BitOf(bytes, b) = <<bytes[j + 1], b % 8>>
      BY <1>3, <2>2, Zenon DEF BitOf, j
    <3>4. b < 8 * size
      BY <2>1, <2>2 DEF j
    <3>5. ItemBit(section, item, size, b) = <<<<section, item + j>>, b % 8>>
      BY <3>4, Zenon DEF ItemBit, j
    <3>. QED
      BY <3>2, <3>3, <3>5, Zenon
  <2>3. CASE ~(j < size)
    <3>1. size \in 1 .. size
      BY <1>1
    <3>2. bytes[size] = <<section, item + size - 1>>
      BY <1>2, <3>1
    <3>3. BitOf(bytes, b) = <<bytes[size], 7>>
      BY <1>3, <2>3, Zenon DEF BitOf, j
    <3>4. ~(b < 8 * size)
      BY <2>1, <2>3 DEF j
    <3>5. ItemBit(section, item, size, b) = <<<<section, item + size - 1>>, 7>>
      BY <3>4, Zenon DEF ItemBit
    <3>. QED
      BY <3>2, <3>3, <3>5, Zenon
  <2>. QED
    BY <2>2, <2>3
<1>5. Kept(bytes, width).bits = [b \in 0 .. width - 1 |-> BitOf(bytes, b)]
  BY <1>3 DEF Kept
<1>6. Kept(bytes, width).bits = [b \in 0 .. width - 1 |-> ItemBit(section, item, size, b)]
  BY <1>4, <1>5
<1>. QED
  BY <1>6 DEF HasItem, item, size, section

LEMMA PatchReaches ==
    ASSUME TypeOK, Given, ImageInv, Orderly, PatchInstruction
    PROVE  ReachedBy(Entry, Target, Patched)
<1>1. Known /\ ~Dangling /\ Accepted /\ stage = "patch"
  BY DEF PatchInstruction, AtRelocation
<1>2. Target \in Symbol(STRING) /\ Sound(Target, sizes)
  BY <1>1, SymbolFacts DEF Known, Target
<1>3. ASSUME Target.type = "function", Target.size > 0
      PROVE  Patched.number = start["text"] + (Target.offset - Target.size)
  <2>1. ~External /\ Opcode = "call"
    BY <1>1, <1>3 DEF External, Accepted
  <2>2. Patched = Number(start["text"] + Target.offset - Target.size, FieldValues["call"])
    BY <2>1 DEF Patched
  <2>. QED
    BY <1>1, <1>2, <1>3, <2>2, CallReaches DEF ImageInv
<1>4. ASSUME IsDatumOf(Target, "data")
      PROVE  HasItem(Target, FieldBits[final.code[Entry.offset]], Patched)
  <2>1. Target.section = "data" /\ Target.size \in {1, 2, 4}
    BY <1>4 DEF IsDatumOf
  <2>2. ~External /\ Opcode \in {"arith", "ldst", "mov"}
    BY <1>1, <1>2, <2>1 DEF External, Accepted, Sound
  <2>3. Patched = Kept(Datum(Target), FieldBits[Opcode])
    BY <2>2 DEF Patched
  <2>4. Datum(Target) = [k \in 1 .. Target.size |->
                           <<Target.section, Target.offset - Target.size + k - 1>>]
    BY <1>1, <1>2, <2>1, DatumReaches DEF ImageInv
  <2>5. FieldBits[Opcode] \in Nat
    BY <2>2 DEF FieldBits
  <2>6. HasItem(Target, FieldBits[Opcode], Kept(Datum(Target), FieldBits[Opcode]))
    BY <1>2, <2>1, <2>4, <2>5, BitsReach
  <2>. QED
    BY <2>3, <2>6 DEF Opcode
<1>5. ASSUME Target.type = "extern"
      PROVE  Patched.number = InField(global_table[Target.name],
                                      FieldValues[final.code[Entry.offset]])
  <2>1. External /\ Opcode # "call"
    BY <1>1, <1>2, <1>5 DEF External, Accepted, Sound
  <2>2. Patched = Number(global_table[Target.name], FieldValues[Opcode])
    BY <2>1 DEF Patched
  <2>. QED
    BY <2>2 DEF Number, Opcode
<1>. QED
  BY <1>3, <1>4, <1>5 DEF ReachedBy

LEMMA OperandsInitially == Init => OperandsInv
BY DEF Init, InitScript, InitLoad, OperandsInv

\* The instructions of two relocations are two, so that no patch undoes
\* another.
LEMMA PatchKeepsReached ==
    ASSUME TypeOK, Given, ImageInv, OperandsInv, Orderly, PatchInstruction
    PROVE  \A n \in 1 .. node' - 1 : Reached(final.reloctable[n])'
<1>1. /\ node' = node + 1 /\ node \in 1 .. Len(final.reloctable)
      /\ operand' = [offset \in DOMAIN operand \cup {Entry.offset} |->
                        IF offset = Entry.offset THEN Patched ELSE operand[offset]]
      /\ UNCHANGED <<start, global_table, final>> /\ Known
  <2>1. Len(final.reloctable) \in Nat
    BY GivenFacts
  <2>. QED
    BY <2>1 DEF PatchInstruction, AtRelocation, TypeOK
<1>2. Entry = final.reloctable[node]
  BY DEF Entry
<1>3. \A reloc, symbol, value : ReachedBy(reloc, symbol, value)' <=>
                                ReachedBy(reloc, symbol, value)
  BY <1>1 DEF ReachedBy
<1>4. ASSUME NEW n \in 1 .. node' - 1 PROVE Reached(final.reloctable[n])'
  <2>1. n = node \/ n \in 1 .. node - 1
    BY <1>1
  <2>2. CASE n = node
    <3>1. operand'[Entry.offset] = Patched
      BY <1>1
    <3>2. ReachedBy(Entry, Target, operand'[Entry.offset])
      BY <3>1, PatchReaches
    <3>3. final'.reloctable[n] = Entry /\ Target = SymbolAt(final'.symtable, Entry.index)
      BY <1>1, <1>2, <2>2 DEF Target
    <3>4. HasIndex(final'.symtable, Entry.index)
      BY <1>1 DEF Known
    <3>. QED
      BY <1>3, <3>2, <3>3, <3>4 DEF Reached
  <2>3. CASE n \in 1 .. node - 1
    <3>. DEFINE offset == final.reloctable[n].offset
    <3>1. Reached(final.reloctable[n])
      BY <2>3 DEF OperandsInv
    <3>2. offset # Entry.offset
      <4>1. node \in DOMAIN final.reloctable
        BY <1>1, GivenFacts
      <4>. QED
        BY <1>2, <2>3, <4>1, GivenFacts
    <3>3. offset \in DOMAIN operand
      BY <2>3 DEF TypeOK
    <3>4. operand'[offset] = operand[offset]
      BY <1>1, <3>2, <3>3
    <3>5. final' = final
      BY <1>1
    <3>. QED
      BY <1>3, <3>1, <3>4, <3>5 DEF Reached
  <2>. QED
    BY <2>1, <2>2, <2>3
<1>. QED
  BY <1>4

LEMMA OperandsKept == TypeOK /\ Given /\ ImageInv /\ OperandsInv /\ [Next]_vars => OperandsInv'
<1>. SUFFICES ASSUME TypeOK, Given, ImageInv, OperandsInv, [Next]_vars PROVE OperandsInv'
  OBVIOUS
<1>1. CASE ScriptNext /\ UNCHANGED loadVars
  <2>1. /\ stage = "script" /\ stage' \notin {"boot", "loaded"}
        /\ node = 1 /\ node' = node
    BY <1>1 DEF ScriptNext, loadVars, PlaceSection, Evaluate, StopInExpression, PassOverLine,
                EndScript, AtContent, OperandsInv
  <2>. QED
    BY <2>1 DEF OperandsInv
<1>2. CASE PatchInstruction
  <2>1. stage = "patch" /\ stage' = stage /\ UNCHANGED <<script, sizes>>
    BY <1>2 DEF PatchInstruction, AtRelocation
  <2>2. Orderly' => \A n \in 1 .. node' - 1 : Reached(final.reloctable[n])'
    BY <1>2, <2>1, PatchKeepsReached, OrderlyStays
  <2>. QED
    BY <2>1, <2>2 DEF OperandsInv
<1>3. CASE \/ UNCHANGED vars
           \/ Load /\ UNCHANGED <<script, sizes, start, global_table, final, node, operand>>
  <2>1. UNCHANGED <<script, sizes, start, global_table, final, node, operand>>
    BY <1>3 DEF vars
  <2>2. /\ stage' \in {"script", "copy", "entry"} => stage = stage' \/ stage = "copy"
        /\ stage' \in {"boot", "loaded"} =>
              stage \in {"boot", "loaded"} \/ (stage = "patch" /\ node > Len(final.reloctable))
        /\ stage' = "entry" => stage \in {"entry", "copy"}
    BY <1>3 DEF vars, Load, CopySections, LoseMemory, FindMain, NoMain, PatchInstruction,
                RejectRelocation, CrashOnRelocation, EndRelocations, InstallBoot,
                NoRoomForBoot, AtRelocation
  <2>3. node > Len(final.reloctable) => node = Len(final.reloctable) + 1
    <3>1. Len(final.reloctable) \in Nat /\ node \in 1 .. Len(final.reloctable) + 1
      BY GivenFacts DEF TypeOK
    <3>. QED
      BY <3>1
  <2>4. /\ stage' \in {"script", "copy", "entry"} => node' = 1
        /\ stage' \in {"boot", "loaded"} => node' = Len(final'.reloctable) + 1
    BY <2>1, <2>2, <2>3 DEF OperandsInv
  <2>5. Orderly' => \A n \in 1 .. node' - 1 : Reached(final.reloctable[n])'
    <3>1. \A reloc : Reached(reloc)' <=> Reached(reloc)
      BY <2>1 DEF Reached, ReachedBy
    <3>. QED
      BY <2>1, <3>1, OrderlyStays DEF OperandsInv
  <2>. QED
    BY <2>4, <2>5 DEF OperandsInv
<1>. QED
  BY <1>1, <1>2, <1>3
  DEF Next, vars, Load, CopySections, LoseMemory, FindMain, NoMain, RejectRelocation,
      CrashOnRelocation, EndRelocations, InstallBoot, NoRoomForBoot, Exited

LEMMA OperandsReached ==
    TypeOK /\ Given /\ ImageInv /\ OperandsInv => OperandsReachItems
<1>. SUFFICES ASSUME TypeOK, Given, ImageInv, OperandsInv, stage = "loaded", Orderly,
                     NEW n \in DOMAIN final.reloctable
              PROVE  LET reloc == final.reloctable[n]
                         group == final.code[reloc.offset]
                         symbol == SymbolAt(final.symtable, reloc.index)
                         value == operand[reloc.offset]
                     IN  /\ symbol.type = "function" =>
                               Holds(value.number, symbol.size, "text",
                                     symbol.offset - symbol.size)
                         /\ IsDatumOf(symbol, "data") => HasItem(symbol, FieldBits[group], value)
                         /\ symbol.type = "extern" =>
                               value.number = InField(global_table[symbol.name],
                                                      FieldValues[group])
  BY DEF OperandsReachItems
<1>. DEFINE reloc == final.reloctable[n]
            symbol == SymbolAt(final.symtable, reloc.index)
            value == operand[reloc.offset]
            item == symbol.offset - symbol.size
<1>1. Reached(reloc)
  <2>1. n \in 1 .. node - 1
    <3>1. final.reloctable \in Seq([index: Int, offset: Nat])
      BY GivenFacts
    <3>2. node = Len(final.reloctable) + 1
      BY DEF OperandsInv
    <3>3. n \in 1 .. Len(final.reloctable) /\ Len(final.reloctable) \in Nat
      BY <3>1
    <3>. QED
      BY <3>2, <3>3
  <2>. QED
    BY <2>1 DEF OperandsInv
<1>2. symbol \in Symbol(STRING) /\ Sound(symbol, sizes)
  BY <1>1, SymbolFacts DEF Reached
<1>3. ReachedBy(reloc, symbol, value)
  BY <1>1 DEF Reached
<1>. HIDE DEF reloc, symbol, value
<1>4. ASSUME symbol.type = "function"
      PROVE  Holds(value.number, symbol.size, "text", item)
  <2>1. CASE symbol.size > 0
    <3>1. value.number = start["text"] + item
      BY <1>3, <1>4, <2>1 DEF ReachedBy
    <3>2. symbol.section = "text" /\ symbol.section \in Placed
      BY <1>2, <1>4 DEF Sound, Placed
    <3>. QED
      BY <1>2, <3>1, <3>2, ItemWhole DEF ImageInv
  <2>2. CASE ~(symbol.size > 0)
    <3>1. symbol.size = 0
      BY <1>2, <2>2 DEF Symbol
    <3>. QED
      BY <3>1 DEF Holds
  <2>. QED
    BY <2>1, <2>2
<1>. QED
  BY <1>3, <1>4 DEF ReachedBy, reloc, symbol, value

-----------------------------------------------------------------------------
(* Alignment.                                                              *)

\* Line k places s, the next aligns "." and the one after that places t.
AlignedBetween(k, s, t) ==
    /\ Places(k, s)
    /\ Contents[k + 1].name = "." /\ Len(Contents[k + 1].args) = 1
    /\ Contents[k + 1].args[1].type = "align" /\ Contents[k + 1].args[1].name = "."
    /\ Places(k + 2, t)
    /\ \A j \in DOMAIN script \ {k, k + 2} : ~Places(j, s) /\ ~Places(j, t)
    /\ s # t

IsAligned(address, end, unit) ==
    end + unit < Modulus => address % unit = 0 /\ address - end \in 1 .. unit

\* What the three lines leave, one after the other.
AlignedUpTo(k, s, t) ==
    LET unit == Contents[k + 1].args[1].number
        end == start[s] + sizes[s]
    IN  /\ line = k + 1 => Location = Unsigned(end)
        /\ line = k + 2 => IsAligned(Location, end, unit)
        /\ line >= k + 3 => IsAligned(start[t], end, unit)

AlignInv ==
    \A k \in 1 .. Len(script) - 2 : \A s, t \in Placed :
        AlignedBetween(k, s, t) => AlignedUpTo(k, s, t)

LEMMA AlignInitially == Init => AlignInv
<1>. SUFFICES ASSUME Init, NEW k \in 1 .. Len(script) - 2, NEW s \in Placed, NEW t \in Placed
              PROVE  AlignedUpTo(k, s, t)
  BY DEF AlignInv
<1>1. line = 1
  BY DEF Init, InitScript
<1>2. k >= 1 /\ k \in Int
  OBVIOUS
<1>. QED
  BY <1>1, <1>2 DEF AlignedUpTo

\* What the line the loop is at is to three such lines.
LEMMA AlignedLine ==
    ASSUME TypeOK, Given, line <= Len(script), NEW k \in 1 .. Len(script) - 2,
           NEW s \in Placed, NEW t \in Placed, AlignedBetween(k, s, t)
    PROVE  /\ line \in Nat /\ Contents[line] = Content
           /\ line = k => Content.type = "section" /\ Content.name = s
           /\ line = k + 1 => Content.type = "expression" /\ Content = Contents[k + 1]
           /\ line = k + 2 => Content.type = "section" /\ Content.name = t
           /\ line >= k + 3 => ~(Content.type = "section" /\ Content.name \in {s, t})
<1>1. script \in Seq(Seq(Lexemes)) /\ line \in 1 .. Len(script)
  <2>1. script \in Seq(Seq(Lexemes)) /\ line \in 1 .. Len(script) + 1
    BY GivenFacts DEF TypeOK
  <2>. QED
    BY <2>1
<1>2. Contents[line] = Content
  BY <1>1 DEF Contents, ContentsOf, Content
<1>3. line = k + 1 => Content.type = "expression"
  <2>. SUFFICES ASSUME line = k + 1, Content.type # "expression" PROVE FALSE
    OBVIOUS
  <2>1. Content.args = << >>
    BY ContentFacts
  <2>. QED
    BY <1>2, <2>1 DEF AlignedBetween
<1>4. line >= k + 3 => line \in DOMAIN script \ {k, k + 2}
  BY <1>1
<1>. QED
  BY <1>1, <1>2, <1>3, <1>4 DEF AlignedBetween, Places

\* Aligning "." adds what is missing to a whole unit.
LEMMA AlignEvaluated ==
    ASSUME TypeOK, Given, Evaluate, NEW end \in Nat, Location = Unsigned(end),
           Content.name = ".", Len(Content.args) = 1,
           Content.args[1].type = "align", Content.args[1].name = "."
    PROVE  IsAligned(Location', end, Content.args[1].number)
<1>. DEFINE unit == Content.args[1].number
            v == global_table["."]
<1>1. /\ global_table' = AddScriptGlobal(global_table, Content.name, Value(Content))
      /\ line <= Len(script) /\ Content.type = "expression"
      /\ ~FaultyExpression(Content) /\ ~DividesByZero(Content)
  BY DEF Evaluate, AtContent
<1>2. IsExpression(Content)
  BY <1>1, ContentFacts
<1>3. unit \in Nat /\ unit # 0 /\ Len(Content.op) = 0
  <2>1. /\ Len(Content.op) \in Nat /\ Len(Content.args) = Len(Content.op) + 1
        /\ DOMAIN Content.args = 1 .. Len(Content.op) + 1
        /\ \A n \in DOMAIN Content.args : Content.args[n].number \in Nat
    BY <1>2 DEF IsExpression
  <2>2. Len(Content.op) = 0
    <3>. DEFINE signs == Len(Content.op)
                arguments == Len(Content.args)
    <3>1. signs \in Nat /\ arguments = signs + 1 /\ arguments = 1
      BY <2>1
    <3>. HIDE DEF signs, arguments
    <3>2. signs = 0
      BY <3>1
    <3>. QED
      BY <3>2 DEF signs
  <2>3. 1 \in DOMAIN Content.args
    BY <2>1
  <2>. QED
    BY <1>1, <2>1, <2>2, <2>3 DEF DividesByZero
<1>4. v \in Int /\ Location = Unsigned(v) /\ Location \in 0 .. Modulus - 1
  <2>1. v \in Int
    BY SignedFacts DEF TypeOK
  <2>. QED
    BY <2>1, SignedFacts DEF Location
<1>5. FirstValue(Content.args[1]) = AlignUp(v, unit)
  BY DEF FirstValue
<1>. DEFINE d == AlignUp(v, unit) - v
<1>6. d \in 1 .. unit /\ AlignUp(v, unit) \in Int /\ (Location + d) % unit = 0
  BY <1>3, <1>4, AlignFacts
<1>7. Value(Content) = Signed(AlignUp(v, unit))
  <2>1. FirstValue(Content.args[1]) \in Int
    BY <1>5, <1>6
  <2>2. PICK sum : /\ sum[0] = FirstValue(Content.args[1])
                   /\ Value(Content) = Signed(sum[Len(Content.op)])
    <3>1. \A j \in 1 .. Len(Content.op) : Content.args[j + 1].type = "symbol" =>
             global_table[Content.args[j + 1].name] \in Int
      BY <1>3
    <3>. QED
      BY <1>2, <2>1, <3>1, ValueSteps
  <2>. QED
    BY <1>3, <1>5, <2>2
<1>8. Location' = Unsigned(AlignUp(v, unit))
  <2>1. global_table'["."] = Signed(AlignUp(v, unit))
    BY <1>1, <1>7 DEF AddScriptGlobal
  <2>. QED
    BY <1>6, <2>1, SignedFacts DEF Location
<1>. SUFFICES ASSUME end + unit < Modulus
              PROVE  Location' % unit = 0 /\ Location' - end \in 1 .. unit
  BY DEF IsAligned
<1>9. Modulus \in Nat
  BY ModulusIsEven
<1>10. Location = end
  <2>1. end \in 0 .. Modulus - 1
    <3>. HIDE DEF Modulus, unit
    <3>. QED
      BY <1>3, <1>9
  <2>. QED
    BY <2>1, SignedFacts
<1>. HIDE DEF unit, v
<1>11. AlignUp(v, unit) = v + d /\ d \in Nat
  <2>1. v \in Int /\ AlignUp(v, unit) \in Int
    BY <1>4, <1>6
  <2>2. AlignUp(v, unit) = v + d
    BY <2>1
  <2>. HIDE DEF d
  <2>. QED
    BY <1>3, <1>6, <2>2
<1>. HIDE DEF d
<1>12. Location + d < Modulus
  <2>. HIDE DEF Modulus, Location
  <2>. QED
    BY <1>3, <1>6, <1>9, <1>10, <1>11
<1>13. Location' = Location + d
  BY <1>4, <1>8, <1>11, <1>12, MovesBy
<1>14. Location' % unit = 0
  BY <1>6, <1>13
<1>15. Location' - end \in 1 .. unit
  <2>. HIDE DEF Location
  <2>. QED
    BY <1>3, <1>6, <1>10, <1>11, <1>13
<1>. QED
  BY <1>14, <1>15 DEF unit

LEMMA AlignPassesLine ==
    ASSUME TypeOK, TypeOK', Given, PlaceSection \/ Evaluate \/ PassOverLine,
           NEW k \in 1 .. Len(script) - 2, NEW s \in Placed, NEW t \in Placed,
           AlignedBetween(k, s, t), AlignedUpTo(k, s, t)
    PROVE  AlignedUpTo(k, s, t)'
<1>. DEFINE end == start[s] + sizes[s]
            unit == Contents[k + 1].args[1].number
<1>1. /\ line' = line + 1 /\ line <= Len(script) /\ UNCHANGED <<script, sizes>>
      /\ Content.type = "section" => PlaceSection
      /\ Content.type = "expression" => Evaluate
      /\ Content.type # "section" => start' = start
  BY DEF PlaceSection, Evaluate, PassOverLine, AtContent
<1>2. unit' = unit /\ sizes' = sizes
  BY <1>1 DEF Contents, ContentsOf
<1>3. line \in Nat /\ k \in Nat
  <2>1. line \in Nat
    BY <1>1, AlignedLine
  <2>. QED
    BY <2>1
<1>4. CASE line < k
  <2>1. line' < k + 1
    BY <1>1, <1>3, <1>4
  <2>. QED
    BY <1>1, <1>3, <2>1 DEF AlignedUpTo
<1>5. CASE line = k
  <2>1. PlaceSection /\ Content.name = s
    BY <1>1, <1>5, AlignedLine
  <2>2. start'[s] = Location /\ Location' = Unsigned(Location + sizes[s])
    BY <2>1, SectionPlaced DEF TypeOK
  <2>3. Location' = Unsigned(end')
    BY <1>2, <2>2
  <2>4. line' = k + 1 /\ ~(line' = k + 2) /\ ~(line' >= k + 3)
    BY <1>1, <1>3, <1>5
  <2>. QED
    BY <2>3, <2>4 DEF AlignedUpTo
<1>6. CASE line = k + 1
  <2>1. Evaluate /\ Content = Contents[k + 1] /\ start' = start
    BY <1>1, <1>6, AlignedLine
  <2>2. end \in Nat
    <3>1. Modulus \in Nat /\ sizes \in [Placed -> Nat] /\ start \in [Placed -> 0 .. Modulus - 1]
      BY ModulusIsEven, GivenFacts DEF TypeOK
    <3>. HIDE DEF Modulus
    <3>. QED
      BY <3>1
  <2>3. Location = Unsigned(end)
    BY <1>6 DEF AlignedUpTo
  <2>. HIDE DEF end
  <2>4. IsAligned(Location', end, unit)
    BY <2>1, <2>2, <2>3, AlignEvaluated DEF AlignedBetween
  <2>5. end' = end
    BY <1>2, <2>1 DEF end
  <2>6. line' = k + 2 /\ ~(line' = k + 1) /\ ~(line' >= k + 3)
    BY <1>1, <1>3, <1>6
  <2>7. IsAligned(Location, end, unit)'
    BY <1>2, <2>4, <2>5 DEF IsAligned
  <2>. HIDE DEF unit
  <2>. QED
    BY <2>6, <2>7 DEF AlignedUpTo, end, unit
<1>7. CASE line = k + 2
  <2>1. PlaceSection /\ Content.name = t
    BY <1>1, <1>7, AlignedLine
  <2>2. start'[t] = Location /\ start'[s] = start[s]
    BY <2>1, SectionPlaced DEF TypeOK, AlignedBetween
  <2>3. IsAligned(Location, end, unit)
    BY <1>7 DEF AlignedUpTo
  <2>4. line' = k + 3 /\ ~(line' = k + 1) /\ ~(line' = k + 2)
    BY <1>1, <1>3, <1>7
  <2>5. IsAligned(start[t], end, unit)'
    BY <1>2, <2>2, <2>3 DEF IsAligned
  <2>. QED
    BY <2>4, <2>5 DEF AlignedUpTo
<1>8. CASE line >= k + 3
  <2>1. start'[s] = start[s] /\ start'[t] = start[t]
    <3>1. CASE Content.type = "section"
      <4>1. Content.name \notin {s, t}
        BY <1>1, <1>8, <3>1, AlignedLine
      <4>. QED
        BY <1>1, <3>1, <4>1, SectionPlaced DEF TypeOK
    <3>. QED
      BY <1>1, <3>1
  <2>2. IsAligned(start[t], end, unit)
    BY <1>8 DEF AlignedUpTo
  <2>3. line' >= k + 3 /\ ~(line' = k + 1) /\ ~(line' = k + 2)
    BY <1>1, <1>3, <1>8
  <2>4. IsAligned(start[t], end, unit)'
    BY <1>2, <2>1, <2>2 DEF IsAligned
  <2>. QED
    BY <2>3, <2>4 DEF AlignedUpTo
<1>. QED
  BY <1>3, <1>4, <1>5, <1>6, <1>7, <1>8

LEMMA AlignKept == TypeOK /\ Given /\ AlignInv /\ [Next]_vars => AlignInv'
<1>. SUFFICES ASSUME TypeOK, Given, AlignInv, [Next]_vars PROVE AlignInv'
  OBVIOUS
<1>1. TypeOK' /\ UNCHANGED <<script, sizes>>
  <2>1. UNCHANGED <<script, sizes>>
    BY DEF Next, vars, ScriptNext, loadVars, PlaceSection, Evaluate, StopInExpression,
           PassOverLine, EndScript, Load, CopySections, LoseMemory, FindMain, NoMain,
           PatchInstruction, RejectRelocation, CrashOnRelocation, EndRelocations,
           InstallBoot, NoRoomForBoot, Exited
  <2>. QED
    BY <2>1, NextTyped
<1>. SUFFICES ASSUME NEW k \in 1 .. Len(script) - 2, NEW s \in Placed, NEW t \in Placed,
                     AlignedBetween(k, s, t)
              PROVE  AlignedUpTo(k, s, t)'
  BY <1>1, OrderlyStays DEF AlignInv, AlignedBetween
<1>2. AlignedUpTo(k, s, t)
  BY DEF AlignInv
<1>3. CASE PlaceSection \/ Evaluate \/ PassOverLine
  BY <1>1, <1>2, <1>3, AlignPassesLine
<1>4. CASE UNCHANGED <<line, start, global_table>>
  <2>1. Contents' = Contents /\ sizes' = sizes /\ Location' = Location
    BY <1>1, <1>4 DEF Contents, ContentsOf, Location
  <2>. QED
    BY <1>2, <1>4, <2>1 DEF AlignedUpTo
<1>. QED
  BY <1>3, <1>4
  DEF Next, vars, ScriptNext, StopInExpression, EndScript, Load, CopySections, LoseMemory,
      FindMain, NoMain, PatchInstruction, RejectRelocation, CrashOnRelocation,
      EndRelocations, InstallBoot, NoRoomForBoot, Exited

LEMMA AlignmentSeen == TypeOK /\ Given /\ ScriptDone /\ AlignInv => AlignedSections
<1>. SUFFICES ASSUME TypeOK, Given, ScriptDone, AlignInv,
                     stage \in {"copy", "entry", "patch", "boot", "loaded"},
                     NEW k \in 1 .. Len(script) - 2, NEW s \in Placed, NEW t \in Placed,
                     AlignedBetween(k, s, t),
                     start[s] + sizes[s] + Contents[k + 1].args[1].number < Modulus
              PROVE  /\ start[t] % Contents[k + 1].args[1].number = 0
                     /\ start[t] - (start[s] + sizes[s]) \in 1 .. Contents[k + 1].args[1].number
  <2>1. SUFFICES ASSUME TypeOK, Given, ScriptDone, AlignInv PROVE AlignedSections
    OBVIOUS
  <2>2. SUFFICES ASSUME stage \in {"copy", "entry", "patch", "boot", "loaded"},
                        NEW k \in 1 .. Len(script) - 2, NEW s \in Placed, NEW t \in Placed,
                        AlignedBetween(k, s, t)
                 PROVE  start[s] + sizes[s] + Contents[k + 1].args[1].number < Modulus =>
                           /\ start[t] % Contents[k + 1].args[1].number = 0
                           /\ start[t] - (start[s] + sizes[s])
                                 \in 1 .. Contents[k + 1].args[1].number
    BY DEF AlignedSections, AlignedBetween
  <2>. QED
    BY <2>1, <2>2
<1>1. line >= k + 3
  <2>1. line = Len(script) + 1 /\ Len(script) \in Nat
    BY GivenFacts DEF ScriptDone
  <2>. QED
    BY <2>1
<1>2. AlignedUpTo(k, s, t)
  BY DEF AlignInv
<1>. QED
  BY <1>1, <1>2 DEF AlignedUpTo, IsAligned

-----------------------------------------------------------------------------
(* The theorems.                                                           *)

LoadInv == TypeOK /\ Given /\ PlacementInv /\ ImageInv /\ OperandsInv /\ AlignInv

LEMMA LoadInvAlways == Spec => []LoadInv
<1>1. Init => LoadInv
  BY InitTyped, PlacementInitially, ImageInitially, OperandsInitially, AlignInitially DEF LoadInv
<1>2. LoadInv /\ [Next]_vars => LoadInv'
  BY NextTyped, NextGiven, PlacementKept, ImageKept, OperandsKept, AlignKept DEF LoadInv
<1>. QED
  BY <1>1, <1>2, PTL DEF Spec

\* For every script that names each section and moves "." only forward within
\* 32 bits, and every linked context: nothing the loader copies into memory,
\* sections, vector or boot routine, overwrites another part of it.
THEOREM SectionsAlwaysIntact == Spec => []SectionsIntact
<1>1. LoadInv => SectionsIntact
  BY DEF LoadInv, ImageInv
<1>. QED
  BY <1>1, LoadInvAlways, PTL

\* For every script: "." aligned between two sections puts the second on a
\* multiple of the unit, at most one unit behind the end of the first, where
\* the location does not wrap.
THEOREM AlignedSectionsAlways == Spec => []AlignedSections
<1>1. LoadInv => AlignedSections
  BY AlignmentSeen DEF LoadInv, PlacementInv
<1>. QED
  BY <1>1, LoadInvAlways, PTL

\* For every relocation table, however long: each patched call leads to its
\* function, each operand of section data has the bits of its item that the
\* field has room for, with the sign above them, each extern the value of the
\* script, and no patch undoes another.
THEOREM OperandsAlwaysReachItems == Spec => []OperandsReachItems
<1>1. LoadInv => OperandsReachItems
  BY OperandsReached DEF LoadInv
<1>. QED
  BY <1>1, LoadInvAlways, PTL

\* For every script that places its sections in order and every context: the
\* boot routine returns to the instruction that main labels.
THEOREM BootAlwaysReachesMain == Spec => []BootReachesMain
<1>1. LoadInv => BootReachesMain
  BY MainReached DEF LoadInv
<1>. QED
  BY <1>1, LoadInvAlways, PTL
=============================================================================
