----------------------------- MODULE WordProofs -----------------------------
(***************************************************************************)
(* Arithmetic of machine words, for every width of a word.                 *)
(***************************************************************************)
EXTENDS Word, TLAPS

LEMMA ModulusIsEven ==
    Modulus \in Nat /\ Modulus > 0 /\ 2 * (Modulus \div 2) = Modulus
<1>1. Half \in Nat /\ Half >= 4 /\ Half % 2 = 0
  BY HalfAssumption
<1>2. Modulus \in Nat /\ Modulus > 0 /\ Modulus % 2 = 0
  BY <1>1 DEF Modulus
<1>. QED
  BY <1>2

LEMMA Remainder ==
    ASSUME NEW M \in Nat, M > 0, NEW v \in Int
    PROVE  /\ v % M \in 0 .. M - 1
           /\ v \in 0 .. M - 1 => v % M = v
OBVIOUS

\* Numbers that differ by a multiple have the same remainder.
LEMMA SameRemainder ==
    ASSUME NEW M \in Nat, M > 0, NEW v \in Int, NEW r \in 0 .. M - 1,
           NEW q \in Int, v = q * M + r
    PROVE  v % M = r
OBVIOUS

LEMMA Division ==
    ASSUME NEW M \in Nat, M > 0, NEW v \in Int
    PROVE  \E q \in Int : v = q * M + (v % M)
<1>. WITNESS v \div M \in Int
<1>. QED
  OBVIOUS

LEMMA FieldRange ==
    ASSUME NEW M \in Nat, M > 0, 2 * (M \div 2) = M, NEW v \in Int
    PROVE  /\ InField(v, M) \in -(M \div 2) .. (M \div 2 - 1)
           /\ v \in 0 .. (M \div 2) - 1 => InField(v, M) = v
           /\ InField(v, M) % M = v % M
<1>. DEFINE low == v % M
            h == M \div 2
<1>1. low \in 0 .. M - 1 /\ h \in Nat /\ 2 * h = M
  BY Remainder
<1>2. InField(v, M) = IF low >= h THEN low - M ELSE low
  BY DEF InField
<1>3. v \in 0 .. h - 1 => low = v
  BY <1>1, Remainder
<1>4. (low - M) % M = low
  <2>1. low - M \in Int /\ low - M = (-1) * M + low
    BY <1>1
  <2>. HIDE DEF low
  <2>. QED
    BY <1>1, <2>1, SameRemainder
<1>5. low % M = low
  BY <1>1, Remainder
<1>. HIDE DEF low, h
<1>6. InField(v, M) \in -h .. h - 1
  BY <1>1, <1>2
<1>7. v \in 0 .. h - 1 => InField(v, M) = v
  BY <1>1, <1>2, <1>3
<1>8. InField(v, M) % M = low
  BY <1>2, <1>4, <1>5
<1>. QED
  BY <1>6, <1>7, <1>8 DEF low, h

\* A conversion to int32_t and back.
LEMMA SignedFacts ==
    ASSUME NEW v \in Int
    PROVE  /\ Signed(v) \in Words /\ Words \subseteq Int
           /\ Unsigned(v) \in 0 .. Modulus - 1
           /\ Unsigned(Signed(v)) = Unsigned(v)
           /\ v \in 0 .. Modulus - 1 => Unsigned(v) = v
<1>1. Modulus \in Nat /\ Modulus > 0 /\ 2 * (Modulus \div 2) = Modulus
  BY ModulusIsEven
<1>. HIDE DEF Modulus
<1>2. Signed(v) \in Words /\ Unsigned(Signed(v)) = Unsigned(v)
  BY <1>1, FieldRange DEF Signed, Words, Unsigned
<1>3. Words \subseteq Int
  BY <1>1 DEF Words
<1>. QED
  BY <1>1, <1>2, <1>3, Remainder DEF Unsigned

\* A number that fits is its own conversion.
LEMMA WordsAreSigned ==
    ASSUME NEW v \in Words
    PROVE  v \in Int /\ Signed(v) = v
<1>. DEFINE M == Modulus
            h == Modulus \div 2
<1>1. M \in Nat /\ M > 0 /\ h \in Nat /\ 2 * h = M
  BY ModulusIsEven
<1>2. v \in -h .. h - 1
  BY DEF Words
<1>. HIDE DEF M, h
<1>3. v \in Int
  BY <1>1, <1>2
<1>4. CASE v >= 0
  <2>1. v \in 0 .. h - 1
    BY <1>1, <1>2, <1>4
  <2>. QED
    BY <1>1, <1>3, <2>1, FieldRange DEF Signed, M, h
<1>5. CASE v < 0
  <2>. DEFINE u == v + M
  <2>1. u \in 0 .. M - 1 /\ u >= h /\ v = (-1) * M + u
    BY <1>1, <1>2, <1>5
  <2>2. v % M = u
    <3>. HIDE DEF u
    <3>. QED
      BY <1>1, <1>3, <2>1, SameRemainder
  <2>3. Signed(v) = IF u >= h THEN u - M ELSE u
    BY <2>2 DEF Signed, InField, M, h
  <2>. QED
    BY <1>1, <1>3, <2>1, <2>3
<1>. QED
  BY <1>3, <1>4, <1>5
=============================================================================
