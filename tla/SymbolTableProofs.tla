------------------------- MODULE SymbolTableProofs -------------------------
(***************************************************************************)
(* What the symbol table's operators return and preserve, for tables of    *)
(* any length.                                                             *)
(***************************************************************************)
EXTENDS SymbolTable, WellFoundedInduction, TLAPS

\* A non-empty set of natural numbers has a least element.
LEMMA LeastNatural ==
    ASSUME NEW S \in SUBSET Nat, S # {}
    PROVE  \E m \in S : \A k \in 0 .. m - 1 : k \notin S
<1>. DEFINE R == {pair \in Nat \X Nat : pair[1] < pair[2]}
<1>1. IsWellFoundedOn(R, Nat)
  BY NatLessThanWellFounded DEF OpToRel
<1>2. PICK m \in S : \A y \in S : <<y, m>> \notin R
  BY <1>1, WFMin, Zenon
<1>3. ASSUME NEW k \in 0 .. m - 1, k \in S PROVE FALSE
  <2>1. k \in Nat /\ m \in Nat /\ k < m
    BY <1>3
  <2>2. <<k, m>> \in R
    BY <2>1
  <2>. QED
    BY <1>2, <1>3, <2>2
<1>. QED
  BY <1>3

\* symtable_get_symdata_by_name finds an entry whenever there is one: the
\* index it leads to is an index of the table and its entry has the name.
THEOREM IndexOfNameFindsEntry ==
    ASSUME NEW T, NEW t \in Seq(T), NEW name, Defined(t, name)
    PROVE  /\ IndexOfName(t, name) \in 0 .. Len(t) - 1
           /\ HasIndex(t, IndexOfName(t, name))
           /\ SymbolAt(t, IndexOfName(t, name)).name = name
<1>. DEFINE Of == {n \in 0 .. Len(t) - 1 : t[n + 1].name = name}
<1>1. Of # {}
  <2>1. PICK k \in DOMAIN t : t[k].name = name
    BY DEF Defined
  <2>2. k - 1 \in Of
    BY <2>1
  <2>. QED
    BY <2>2
<1>2. PICK m \in Of : \A k \in 0 .. m - 1 : k \notin Of
  <2>1. Of \in SUBSET Nat
    OBVIOUS
  <2>. HIDE DEF Of
  <2>. QED
    BY <1>1, <2>1, LeastNatural
<1>3. \A k \in 0 .. m - 1 : SymbolAt(t, k).name # name
  BY <1>2 DEF SymbolAt
<1>4. \E index \in 0 .. Len(t) - 1 :
        /\ SymbolAt(t, index).name = name
        /\ \A k \in 0 .. index - 1 : SymbolAt(t, k).name # name
  BY <1>2, <1>3 DEF SymbolAt
<1>. QED
  BY <1>4 DEF IndexOfName, HasIndex

\* An unforced addition keeps every entry at its index: the indices that
\* relocations hold stay good.
THEOREM AdditionKeepsIndexes ==
    ASSUME NEW T, NEW t \in Seq(T), NEW symbol \in T, NEW k \in DOMAIN t
    PROVE  /\ k \in DOMAIN AddSymbol(t, symbol)
           /\ AddSymbol(t, symbol)[k] = t[k]
BY DEF AddSymbol

\* What holds of zero and passes from each number to the next holds up to N.
LEMMA UpTo ==
    ASSUME NEW N \in Nat, NEW S, 0 \in S, \A n \in 1 .. N : n - 1 \in S => n \in S
    PROVE  \A n \in 0 .. N : n \in S
<1>. DEFINE Missed == {n \in 0 .. N : n \notin S}
<1>1. Missed = {}
  <2>. SUFFICES ASSUME Missed # {} PROVE FALSE
    OBVIOUS
  <2>1. PICK m \in Missed : \A k \in 0 .. m - 1 : k \notin Missed
    <3>1. Missed \in SUBSET Nat
      OBVIOUS
    <3>. HIDE DEF Missed
    <3>. QED
      BY <3>1, LeastNatural
  <2>2. m \in 1 .. N /\ m - 1 \in 0 .. m - 1 /\ m - 1 \in 0 .. N
    BY <2>1
  <2>. QED
    BY <2>1, <2>2
<1>. QED
  BY <1>1

-----------------------------------------------------------------------------
(* Reading a dumped table back.  Reload is a function defined by recursion  *)
(* on the number of entries: that it is one, and what it computes, is shown *)
(* from the least number at which it would fail.                           *)

LEMMA ReloadSteps ==
    ASSUME NEW entries, Len(entries) \in Nat
    PROVE  \E after :
              /\ after = [n \in 0 .. Len(entries) |->
                            IF n = 0 THEN << >> ELSE AddSymbol(after[n - 1], entries[n])]
              /\ Reload(entries) = after[Len(entries)]
<1>. DEFINE Reaches(f, m) ==
              f = [n \in 0 .. m |-> IF n = 0 THEN << >> ELSE AddSymbol(f[n - 1], entries[n])]
            Missed == {m \in Nat : ~(\E f : Reaches(f, m))}
<1>1. Missed = {}
  <2>. SUFFICES ASSUME Missed # {} PROVE FALSE
    OBVIOUS
  <2>1. PICK m \in Missed : \A k \in 0 .. m - 1 : k \notin Missed
    <3>1. Missed \in SUBSET Nat
      OBVIOUS
    <3>. HIDE DEF Missed
    <3>. QED
      BY <3>1, LeastNatural
  <2>2. CASE m = 0
    <3>1. Reaches([n \in 0 .. 0 |-> << >>], 0)
      OBVIOUS
    <3>. QED
      BY <2>2, <3>1
  <2>3. CASE m # 0
    <3>1. m - 1 \in Nat /\ m - 1 \in 0 .. m - 1
      BY <2>3
    <3>2. PICK f : Reaches(f, m - 1)
      BY <2>1, <3>1
    <3>. DEFINE g == [n \in 0 .. m |-> IF n = m THEN AddSymbol(f[m - 1], entries[m]) ELSE f[n]]
    <3>3. ASSUME NEW n \in 0 .. m
          PROVE  g[n] = IF n = 0 THEN << >> ELSE AddSymbol(g[n - 1], entries[n])
      <4>1. CASE n = m
        <5>1. n - 1 \in 0 .. m /\ n - 1 # m /\ n # 0
          BY <2>3, <4>1
        <5>2. g[n] = AddSymbol(f[m - 1], entries[m]) /\ g[n - 1] = f[n - 1]
          BY <4>1, <5>1
        <5>. QED
          BY <4>1, <5>1, <5>2
      <4>2. CASE n # m
        <5>1. n \in 0 .. m - 1 /\ g[n] = f[n]
          BY <4>2
        <5>2. f[n] = IF n = 0 THEN << >> ELSE AddSymbol(f[n - 1], entries[n])
          BY <3>2, <5>1
        <5>3. n # 0 => n - 1 \in 0 .. m /\ n - 1 # m /\ g[n - 1] = f[n - 1]
          BY <5>1
        <5>. QED
          BY <5>1, <5>2, <5>3
      <4>. QED
        BY <4>1, <4>2
    <3>4. Reaches(g, m)
      BY <3>3
    <3>. QED
      BY <3>4
  <2>. QED
    BY <2>2, <2>3
<1>2. \E f : Reaches(f, Len(entries))
  BY <1>1
<1>. QED
  BY <1>2 DEF Reload

LEMMA AdditionTyped ==
    ASSUME NEW T, NEW t \in Seq(T), NEW symbol \in T
    PROVE  AddSymbol(t, symbol) \in Seq(T)
BY DEF AddSymbol

\* A table read back has no entry that the dump had not.
THEOREM ReloadTyped ==
    ASSUME NEW T, NEW entries \in Seq(T)
    PROVE  Reload(entries) \in Seq(T)
<1>1. PICK after :
        /\ after = [n \in 0 .. Len(entries) |->
                      IF n = 0 THEN << >> ELSE AddSymbol(after[n - 1], entries[n])]
        /\ Reload(entries) = after[Len(entries)]
  BY ReloadSteps
<1>. DEFINE S == {n \in 0 .. Len(entries) : after[n] \in Seq(T)}
<1>2. 0 \in S
  BY <1>1
<1>3. ASSUME NEW n \in 1 .. Len(entries), n - 1 \in S PROVE n \in S
  <2>1. n \in 0 .. Len(entries) /\ n # 0 /\ entries[n] \in T /\ after[n - 1] \in Seq(T)
    BY <1>3
  <2>2. after[n] = AddSymbol(after[n - 1], entries[n])
    BY <1>1, <2>1
  <2>3. AddSymbol(after[n - 1], entries[n]) \in Seq(T)
    BY <2>1, AdditionTyped
  <2>. QED
    BY <2>1, <2>2, <2>3
<1>4. Len(entries) \in S
  <2>1. Len(entries) \in Nat
    OBVIOUS
  <2>2. \A n \in 1 .. Len(entries) : n - 1 \in S => n \in S
    BY <1>3
  <2>. HIDE DEF S
  <2>3. \A n \in 0 .. Len(entries) : n \in S
    BY <1>2, <2>1, <2>2, UpTo
  <2>. QED
    BY <2>1, <2>3
<1>. QED
  BY <1>1, <1>4

\* An unforced addition cannot bring a name twice behind the head.
THEOREM AdditionKeepsTailUnique ==
    ASSUME NEW T, NEW t \in Seq(T), NEW symbol \in T, TailUnique(t)
    PROVE  TailUnique(AddSymbol(t, symbol))
BY DEF AddSymbol, TailUnique, Exists

\* A table in which no name stands twice behind the head is read back as it
\* was dumped, entry by entry at the same index, although reading it back
\* compares every entry with those before it.
THEOREM ReloadFaithful ==
    ASSUME NEW T, NEW entries \in Seq(T), TailUnique(entries)
    PROVE  Reload(entries) = entries
<1>1. PICK after :
        /\ after = [n \in 0 .. Len(entries) |->
                      IF n = 0 THEN << >> ELSE AddSymbol(after[n - 1], entries[n])]
        /\ Reload(entries) = after[Len(entries)]
  BY ReloadSteps
<1>. DEFINE S == {n \in 0 .. Len(entries) : after[n] = SubSeq(entries, 1, n)}
<1>2. 0 \in S
  BY <1>1
<1>3. ASSUME NEW n \in 1 .. Len(entries), n - 1 \in S PROVE n \in S
  <2>1. n \in 0 .. Len(entries) /\ n # 0 /\ after[n - 1] = SubSeq(entries, 1, n - 1)
    BY <1>3
  <2>2. after[n] = AddSymbol(SubSeq(entries, 1, n - 1), entries[n])
    BY <1>1, <2>1
  <2>3. ~Exists(SubSeq(entries, 1, n - 1), entries[n].name)
    <3>1. Len(SubSeq(entries, 1, n - 1)) = n - 1
      OBVIOUS
    <3>2. ASSUME NEW k \in 2 .. n - 1
          PROVE  /\ k \in 2 .. Len(entries) /\ n \in 2 .. Len(entries) /\ k # n
                 /\ SubSeq(entries, 1, n - 1)[k] = entries[k]
      OBVIOUS
    <3>. QED
      BY <3>1, <3>2 DEF Exists, TailUnique
  <2>4. Append(SubSeq(entries, 1, n - 1), entries[n]) = SubSeq(entries, 1, n)
    OBVIOUS
  <2>. QED
    BY <2>1, <2>2, <2>3, <2>4 DEF AddSymbol
<1>4. Len(entries) \in S
  <2>1. Len(entries) \in Nat
    OBVIOUS
  <2>2. \A n \in 1 .. Len(entries) : n - 1 \in S => n \in S
    BY <1>3
  <2>. HIDE DEF S
  <2>3. \A n \in 0 .. Len(entries) : n \in S
    BY <1>2, <2>1, <2>2, UpTo
  <2>. QED
    BY <2>1, <2>3
<1>5. SubSeq(entries, 1, Len(entries)) = entries
  OBVIOUS
<1>. QED
  BY <1>1, <1>4, <1>5
=============================================================================
