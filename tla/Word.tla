-------------------------------- MODULE Word --------------------------------
(***************************************************************************)
(* Machine integers: uint32_t as 0 .. Modulus - 1, int32_t as two's        *)
(* complement, their halves, and signed bit fields of a given number of    *)
(* values.                                                                 *)
(***************************************************************************)
EXTENDS Integers

CONSTANT Half       \* the number of values of half a word, 2^16 in the code

ASSUME HalfAssumption == Half \in Nat /\ Half >= 4 /\ Half % 2 = 0

Modulus == Half * Half

InField(v, values) ==
    LET low == v % values
    IN  IF low >= values \div 2 THEN low - values ELSE low

BugUnsigned(v) == v
Unsigned(v) == v % Modulus
Signed(v) == InField(v, Modulus)

\* The halves of a word, as int_lh gives them.
LowHalf(v) == InField(v, Half)
HighHalf(v) == InField(v \div Half, Half)
Join(high, low) == Signed((high % Half) * Half + (low % Half))

Words == -(Modulus \div 2) .. (Modulus \div 2 - 1)
=============================================================================
