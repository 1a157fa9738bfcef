--------------------------- MODULE EncoderProofs ---------------------------
(***************************************************************************)
(* What the words of every instruction line carry, whatever its text and   *)
(* whatever bits the instruction began with.                               *)
(***************************************************************************)
EXTENDS Encoder, WordProofs

-----------------------------------------------------------------------------
(* Constants: two halves make a word.                                      *)

LEMMA HalfFacts ==
    /\ Half \in Nat /\ Half > 0 /\ 2 * (Half \div 2) = Half
    /\ Modulus \in Nat /\ Modulus > 0 /\ Modulus = Half * Half
<1>1. Half \in Nat /\ Half > 0 /\ 2 * (Half \div 2) = Half
  BY HalfAssumption
<1>. QED
  BY <1>1, ModulusIsEven DEF Modulus

\* A number of two digits to the base Half.
LEMMA TwoDigits ==
    ASSUME NEW high \in 0 .. Half - 1, NEW low \in 0 .. Half - 1
    PROVE  /\ high * Half + low \in 0 .. Modulus - 1
           /\ \A k \in Int : k * Modulus + (high * Half + low) = (k * Half + high) * Half + low
<1>1. Half \in Nat /\ Half > 0 /\ Modulus = Half * Half
  BY HalfFacts
<1>2. high * Half \in Nat /\ high * Half <= (Half - 1) * Half
  BY <1>1
<1>3. (Half - 1) * Half = Half * Half - Half /\ Half * Half \in Nat
  BY <1>1
<1>4. high * Half + low \in 0 .. Modulus - 1
  BY <1>1, <1>2, <1>3
<1>5. ASSUME NEW k \in Int
      PROVE  k * Modulus + (high * Half + low) = (k * Half + high) * Half + low
  BY <1>1
<1>. QED
  BY <1>4, <1>5

LEMMA UpperDigit ==
    ASSUME NEW q \in Int, NEW low \in 0 .. Half - 1
    PROVE  (q * Half + low) \div Half = q /\ (q * Half + low) % Half = low
<1>1. Half \in Nat /\ Half > 0
  BY HalfFacts
<1>. QED
  BY <1>1

\* The digits of a number are those of its remainder.
LEMMA DigitsOfWord ==
    ASSUME NEW c \in Int
    PROVE  ((c \div Half) % Half) * Half + (c % Half) = c % Modulus
<1>1. Half \in Nat /\ Half > 0
  BY HalfFacts
<1>. DEFINE q == c \div Half
            low == c % Half
            high == q % Half
<1>2. q \in Int /\ low \in 0 .. Half - 1 /\ c = q * Half + low
  BY <1>1
<1>3. high \in 0 .. Half - 1 /\ \E k \in Int : q = k * Half + high
  <2>. HIDE DEF q
  <2>. QED
    BY <1>1, <1>2, Remainder, Division
<1>. HIDE DEF q, low, high
<1>4. PICK k \in Int : q = k * Half + high
  BY <1>3
<1>5. c = k * Modulus + (high * Half + low)
  BY <1>2, <1>3, <1>4, TwoDigits
<1>6. c % Modulus = high * Half + low
  <2>. DEFINE r == high * Half + low
  <2>1. r \in 0 .. Modulus - 1 /\ c = k * Modulus + r
    BY <1>2, <1>3, <1>5, TwoDigits
  <2>. HIDE DEF r
  <2>2. c % Modulus = r
    BY <2>1, HalfFacts, SameRemainder
  <2>. QED
    BY <2>2 DEF r
<1>. QED
  BY <1>6 DEF q, low, high

LEMMA SignedByRemainder ==
    ASSUME NEW c \in Int
    PROVE  Signed(c % Modulus) = Signed(c)
<1>1. (c % Modulus) % Modulus = c % Modulus
  BY HalfFacts, Remainder
<1>. QED
  BY <1>1 DEF Signed, InField

\* The upper half of a word of two halves.
LEMMA UpperOfJoin ==
    ASSUME NEW high \in Int, NEW low \in Int
    PROVE  HighHalf(Join(high, low)) % Half = high % Half
<1>. DEFINE h == high % Half
            l == low % Half
            u == h * Half + l
            x == Signed(u)
<1>1. Half \in Nat /\ Half > 0 /\ 2 * (Half \div 2) = Half
  BY HalfFacts
<1>2. h \in 0 .. Half - 1 /\ l \in 0 .. Half - 1
  BY <1>1, Remainder
<1>3. Join(high, low) = x
  BY DEF Join
<1>. HIDE DEF h, l
<1>4. u \in 0 .. Modulus - 1
  BY <1>2, TwoDigits
<1>5. x = u \/ x = (-1) * Modulus + u
  <2>. HIDE DEF u
  <2>1. u % Modulus = u /\ u \in Int /\ Modulus \in Int
    BY <1>4, HalfFacts, Remainder
  <2>. QED
    BY <2>1 DEF Signed, InField
<1>6. \E k \in Int : x = (k * Half + h) * Half + l
  <2>1. CASE x = u
    <3>1. x = (0 * Half + h) * Half + l
      BY <1>1, <1>2, <2>1
    <3>. QED
      BY <3>1
  <2>2. CASE x = (-1) * Modulus + u
    <3>1. x = ((-1) * Half + h) * Half + l
      BY <1>2, <2>2, TwoDigits
    <3>. QED
      BY <3>1
  <2>. QED
    BY <1>5, <2>1, <2>2
<1>. HIDE DEF u, x
<1>7. PICK k \in Int : x = (k * Half + h) * Half + l
  BY <1>6
<1>8. k * Half + h \in Int /\ (k * Half + h) % Half = h
  <2>. DEFINE q == k * Half + h
  <2>1. q \in Int
    BY <1>1, <1>2
  <2>2. q % Half = h
    BY <1>1, <1>2, <2>1, SameRemainder
  <2>. QED
    BY <2>1, <2>2
<1>9. x \div Half = k * Half + h
  <2>. DEFINE q == k * Half + h
  <2>1. q \in Int /\ x = q * Half + l
    BY <1>7, <1>8
  <2>. HIDE DEF q
  <2>2. x \div Half = q
    BY <1>2, <2>1, UpperDigit
  <2>. QED
    BY <2>2 DEF q
<1>10. HighHalf(x) % Half = (x \div Half) % Half
  BY <1>1, <1>8, <1>9, FieldRange DEF HighHalf
<1>. QED
  BY <1>3, <1>8, <1>9, <1>10 DEF h

\* Two half words put a constant together in a register that held anything.
LEMMA HalvesMakeWord ==
    ASSUME NEW c \in Words, NEW old \in Words
    PROVE  Join(HighHalf(Join(InField(c \div Half, Half), LowHalf(old))), InField(c, Half)) = c
<1>1. Half \in Nat /\ Half > 0 /\ 2 * (Half \div 2) = Half
  BY HalfFacts
<1>2. c \in Int /\ old \in Int /\ Signed(c) = c
  BY WordsAreSigned
<1>. DEFINE q == c \div Half
<1>3. q \in Int
  BY <1>1, <1>2
<1>. HIDE DEF q
<1>4. InField(q, Half) % Half = q % Half /\ InField(c, Half) % Half = c % Half
  BY <1>1, <1>2, <1>3, FieldRange
<1>5. InField(q, Half) \in Int /\ LowHalf(old) \in Int
  <2>1. InField(q, Half) \in -(Half \div 2) .. (Half \div 2 - 1)
    BY <1>1, <1>3, FieldRange
  <2>2. InField(old, Half) \in -(Half \div 2) .. (Half \div 2 - 1)
    BY <1>1, <1>2, FieldRange
  <2>. QED
    BY <1>1, <2>1, <2>2 DEF LowHalf
<1>. DEFINE first == Join(InField(q, Half), LowHalf(old))
<1>6. HighHalf(first) % Half = q % Half
  BY <1>4, <1>5, UpperOfJoin
<1>. HIDE DEF first
<1>7. Join(HighHalf(first), InField(c, Half)) = Signed((q % Half) * Half + (c % Half))
  BY <1>4, <1>6 DEF Join
<1>8. (q % Half) * Half + (c % Half) = c % Modulus
  BY <1>2, DigitsOfWord DEF q
<1>9. Join(HighHalf(first), InField(c, Half)) = c
  BY <1>2, <1>7, <1>8, SignedByRemainder
<1>. QED
  BY <1>9 DEF first, q

-----------------------------------------------------------------------------
(* Arguments.                                                              *)

LEMMA ReadFacts ==
    ASSUME NEW a \in Argument
    PROVE  /\ a.form = "register" /\ a.number \in General =>
                ReadArgument(a) = [type |-> "register", value |-> a.number]
           /\ a.form = "register" /\ a.number \notin General =>
                ReadArgument(a) = [type |-> "error", value |-> 0]
           /\ a.form = "number" => ReadArgument(a) = [type |-> "immediate", value |-> a.number]
           /\ a.form = "word" /\ a.word \in DOMAIN SpecialRegisters =>
                ReadArgument(a) = [type |-> "register", value |-> SpecialRegisters[a.word]]
           /\ a.form = "word" /\ a.word \in DOMAIN Extras =>
                ReadArgument(a) = [type |-> "extra", value |-> Extras[a.word]]
           /\ ReadArgument(a).type = "immediate" => a.form = "number"
<1>1. DOMAIN SpecialRegisters = {"pc", "lr", "sp", "psw"}
  BY DEF SpecialRegisters
<1>2. DOMAIN Extras = {"postinc", "postdec", "preinc", "predec"}
  BY DEF Extras
<1>. HIDE DEF SpecialRegisters, Extras
<1>. QED
  BY <1>1, <1>2 DEF ReadArgument

LEMMA OverAt ==
    ASSUME NEW new, NEW old, NEW f
    PROVE  /\ f \in DOMAIN new => Over(new, old)[f] = new[f]
           /\ f \in DOMAIN old /\ f \notin DOMAIN new => Over(new, old)[f] = old[f]
           /\ DOMAIN Over(new, old) = DOMAIN new \cup DOMAIN old
BY DEF Over

LEMMA FieldAt ==
    ASSUME NEW f, NEW v
    PROVE  DOMAIN Field(f, v) = {f} /\ Field(f, v)[f] = v
BY DEF Field

LEMMA HalfWordFields ==
    ASSUME NEW i, NEW args, NEW high, NEW c
    PROVE  LET w == HalfWord(i, args, high, c)
           IN  /\ w.opcode = "ldlh" /\ w.condition = NoCondition /\ w.hl = high
               /\ w.dst = Read(args, 1).value % 16
               /\ w.imm = InField(c, Half)
<1>. DEFINE fields == [opcode |-> "ldlh", condition |-> NoCondition, cf |-> 0, hl |-> high,
                       dst |-> Read(args, 1).value % RegisterValues("ldlh", "dst"),
                       imm |-> Immediate("ldlh", c)]
            w == HalfWord(i, args, high, c)
<1>1. w = Over(fields, i)
  BY DEF HalfWord
<1>2. \A f \in DOMAIN fields : w[f] = fields[f]
  <2>. HIDE DEF fields, w
  <2>. QED
    BY <1>1, OverAt
<1>. HIDE DEF w
<1>3. /\ w.opcode = "ldlh" /\ w.condition = NoCondition /\ w.hl = high
      /\ w.dst = Read(args, 1).value % RegisterValues("ldlh", "dst")
      /\ w.imm = Immediate("ldlh", c)
  <2>. DEFINE d == Read(args, 1).value % RegisterValues("ldlh", "dst")
              v == Immediate("ldlh", c)
  <2>. HIDE DEF d, v
  <2>. QED
    BY <1>2 DEF d, v
<1>4. Immediate("ldlh", c) = InField(c, Half)
  BY DEF Immediate, ImmediateValues, Arithmetic
<1>5. RegisterValues("ldlh", "dst") = 16
  BY DEF RegisterValues
<1>. QED
  BY <1>3, <1>4, <1>5 DEF w

\* Of a line "ldc register number".
LEMMA ConstantCarried ==
    ASSUME NEW i, NEW args \in Seq(Argument),
           TypesOf(args, 2) = <<"register", "immediate">>, args[1].form = "register",
           args[2].number \in Words
    PROVE  LET w == ConstantWords(i, args)
           IN  /\ \A k \in 1 .. 2 : /\ w[k].opcode = "ldlh" /\ w[k].condition = NoCondition
                                    /\ w[k].dst = args[1].number
               /\ \A old \in Words : LoadHalf(w[2], LoadHalf(w[1], old)) = args[2].number
<1>. DEFINE c == args[2].number
            first == HalfWord(i, args, 1, c \div Half)
            second == HalfWord(i, args, 0, c)
<1>1. Read(args, 1).type = "register" /\ Read(args, 2).type = "immediate"
  <2>1. TypesOf(args, 2)[1] = Read(args, 1).type /\ TypesOf(args, 2)[2] = Read(args, 2).type
    BY DEF TypesOf
  <2>2. TypesOf(args, 2)[1] = "register" /\ TypesOf(args, 2)[2] = "immediate"
    OBVIOUS
  <2>. QED
    BY <2>1, <2>2
<1>2. 1 \in DOMAIN args /\ 2 \in DOMAIN args
  BY <1>1 DEF Read
<1>3. args[1] \in Argument /\ args[2] \in Argument
  BY <1>2
<1>4. Read(args, 1) = ReadArgument(args[1]) /\ Read(args, 2) = ReadArgument(args[2])
  BY <1>2 DEF Read
<1>5. args[2].form = "number"
  BY <1>1, <1>3, <1>4, ReadFacts
<1>6. args[1].number \in General /\ Read(args, 1).value = args[1].number
  BY <1>1, <1>3, <1>4, ReadFacts
<1>7. Atoi(args, 2) = c
  BY <1>2, <1>5 DEF Atoi
<1>8. ConstantWords(i, args) = <<first, second>>
  BY <1>7 DEF ConstantWords
<1>9. args[1].number % 16 = args[1].number
  BY <1>6 DEF General
<1>10. /\ first.opcode = "ldlh" /\ first.condition = NoCondition /\ first.hl = 1
       /\ first.dst = args[1].number /\ first.imm = InField(c \div Half, Half)
  BY <1>6, <1>9, HalfWordFields
<1>11. /\ second.opcode = "ldlh" /\ second.condition = NoCondition /\ second.hl = 0
       /\ second.dst = args[1].number /\ second.imm = InField(c, Half)
  BY <1>6, <1>9, HalfWordFields
<1>. HIDE DEF first, second
<1>12. ASSUME NEW old \in Words PROVE LoadHalf(second, LoadHalf(first, old)) = c
  BY <1>10, <1>11, HalvesMakeWord DEF LoadHalf
<1>. QED
  BY <1>8, <1>10, <1>11, <1>12

-----------------------------------------------------------------------------
(* Operands.                                                               *)

LEMMA MeaningRead ==
    ASSUME NEW a \in Argument
    PROVE  LET r == ReadArgument(a)
           IN  /\ IsRegister(a) => r.type = "register" /\ r.value = Means(a) /\ Means(a) \in Nat
               /\ IsExtra(a) => r.type = "extra" /\ r.value = Means(a)
               /\ a.form = "number" =>
                    r.type = "immediate" /\ r.value = Means(a) /\ Means(a) = a.number
<1>1. DOMAIN SpecialRegisters = {"pc", "lr", "sp", "psw"}
  BY DEF SpecialRegisters
<1>2. DOMAIN Extras = {"postinc", "postdec", "preinc", "predec"}
  BY DEF Extras
<1>3. \A w \in {"pc", "lr", "sp", "psw"} : SpecialRegisters[w] \in Nat
  BY DEF SpecialRegisters, PC, LR, SP, PSW
<1>4. ASSUME a.form = "register", a.number \in General
      PROVE  ReadArgument(a).type = "register" /\ ReadArgument(a).value = Means(a) /\ Means(a) \in Nat
  BY <1>4, ReadFacts DEF Means, General
<1>5. ASSUME a.form = "word", a.word \in DOMAIN SpecialRegisters
      PROVE  ReadArgument(a).type = "register" /\ ReadArgument(a).value = Means(a) /\ Means(a) \in Nat
  <2>. HIDE DEF SpecialRegisters, Extras
  <2>1. ReadArgument(a) = [type |-> "register", value |-> SpecialRegisters[a.word]]
    BY <1>5, ReadFacts
  <2>2. Means(a) = SpecialRegisters[a.word]
    BY <1>1, <1>2, <1>5 DEF Means
  <2>3. SpecialRegisters[a.word] \in Nat
    BY <1>1, <1>3, <1>5
  <2>. QED
    BY <2>1, <2>2, <2>3
<1>6. ASSUME a.form = "word", a.word \in DOMAIN Extras
      PROVE  ReadArgument(a).type = "extra" /\ ReadArgument(a).value = Means(a)
  <2>. HIDE DEF SpecialRegisters, Extras
  <2>1. ReadArgument(a) = [type |-> "extra", value |-> Extras[a.word]]
    BY <1>6, ReadFacts
  <2>2. Means(a) = Extras[a.word]
    BY <1>1, <1>2, <1>6 DEF Means
  <2>. QED
    BY <2>1, <2>2
<1>7. ASSUME a.form = "number"
      PROVE  ReadArgument(a).type = "immediate" /\ ReadArgument(a).value = Means(a) /\ Means(a) = a.number
  BY <1>7, ReadFacts DEF Means
<1>. QED
  BY <1>4, <1>5, <1>6, <1>7 DEF IsRegister, IsExtra

\* An argument that its field can hold is read as what it means.
LEMMA HeldOperand ==
    ASSUME NEW opcode, NEW args \in Seq(Argument), NEW k \in DOMAIN args
    PROVE  LET r == Read(args, k)
               meaning == Means(args[k])
           IN  /\ \A field \in {"dst", "src"} :
                    opcode # "int" /\ Holds(opcode, field, args[k]) =>
                        r.type = "register" /\ r.value % RegisterValues(opcode, field) = meaning
               /\ Holds(opcode, "imm", args[k]) =>
                    r.type = "immediate" /\ Immediate(opcode, r.value) = meaning
               /\ Holds(opcode, "f", args[k]) => r.type = "extra" /\ r.value = meaning
<1>. DEFINE a == args[k]
            r == Read(args, k)
<1>1. a \in Argument /\ r = ReadArgument(a)
  BY DEF Read
<1>2. ASSUME opcode # "int", NEW field \in {"dst", "src"}, Holds(opcode, field, a)
      PROVE  r.type = "register" /\ r.value % RegisterValues(opcode, field) = Means(a)
  <2>1. IsRegister(a) /\ Means(a) < RegisterValues(opcode, field)
    BY <1>2 DEF Holds, NamesRegister, RegisterValues
  <2>2. r.type = "register" /\ r.value = Means(a) /\ Means(a) \in Nat
    BY <1>1, <2>1, MeaningRead
  <2>3. RegisterValues(opcode, field) \in {16, 32}
    BY DEF RegisterValues
  <2>4. Means(a) % RegisterValues(opcode, field) = Means(a)
    BY <2>1, <2>2, <2>3
  <2>. QED
    BY <2>2, <2>4
<1>3. ASSUME Holds(opcode, "imm", a)
      PROVE  r.type = "immediate" /\ Immediate(opcode, r.value) = Means(a)
  <2>1. a.form = "number"
    BY <1>3 DEF Holds
  <2>2. r.type = "immediate" /\ r.value = a.number /\ Means(a) = a.number
    BY <1>1, <2>1, MeaningRead
  <2>3. Immediate(opcode, a.number) = a.number
    <3>1. CASE opcode = "mov"
      <4>1. a.number \in 0 .. 31
        BY <1>3, <3>1 DEF Holds
      <4>2. ImmediateValues(opcode) = 32
        BY <3>1 DEF ImmediateValues, Arithmetic
      <4>3. a.number % 32 = a.number
        <5>. DEFINE v == a.number
        <5>1. v \in 0 .. 31
          BY <4>1
        <5>. HIDE DEF v
        <5>2. v % 32 = v
          BY <5>1
        <5>. QED
          BY <5>2 DEF v
      <4>. QED
        BY <3>1, <4>2, <4>3 DEF Immediate
    <3>2. CASE opcode # "mov"
      BY <1>3, <3>2 DEF Holds, Immediate
    <3>. QED
      BY <3>1, <3>2
  <2>. QED
    BY <2>2, <2>3
<1>4. ASSUME Holds(opcode, "f", a)
      PROVE  r.type = "extra" /\ r.value = Means(a)
  BY <1>1, <1>4, MeaningRead DEF Holds
<1>. QED
  BY <1>2, <1>3, <1>4

LEMMA ImmediateFieldDomain ==
    ASSUME NEW i, NEW args, NEW k, NEW defined
    PROVE  DOMAIN ImmediateField(i, args, k, defined) \subseteq {"imm"}
<1>1. DOMAIN NoFields = {}
  BY DEF NoFields
<1>. HIDE DEF NoFields
<1>2. \A v : DOMAIN Field("imm", v) = {"imm"}
  BY FieldAt
<1>. DEFINE a == Immediate(i.opcode, Read(args, k).value)
            b == Cleared(i.opcode, i.imm)
<1>3. ImmediateField(i, args, k, defined) \in {Field("imm", a), Field("imm", b), NoFields}
  BY DEF ImmediateField
<1>. HIDE DEF a, b
<1>. QED
  BY <1>1, <1>2, <1>3

LEMMA OperandFields ==
    ASSUME NEW i, NEW args, NEW defined
    PROVE  DOMAIN Operands(i, args, defined) \subseteq Fields
<1>. DEFINE dst == RegisterField(i.opcode, args, "dst", 1)
            src == RegisterField(i.opcode, args, "src", 2)
            second == ImmediateField(i, args, 2, defined)
            third == ImmediateField(i, args, 3, defined)
            both == Over(dst, src)
            extra == Field("f", Read(args, 4).value)
<1>1. DOMAIN NoFields = {}
  BY DEF NoFields
<1>2. \A f, v : DOMAIN Field(f, v) = {f}
  BY FieldAt
<1>3. DOMAIN dst = {"dst"} /\ DOMAIN src = {"src"}
  BY FieldAt DEF RegisterField
<1>4. DOMAIN second \subseteq {"imm"} /\ DOMAIN third \subseteq {"imm"}
  BY ImmediateFieldDomain
<1>6. Operands(i, args, defined) \in
        {Field("src", 0), NoFields, Over(Field("direct", 0), both),
         Over(Field("direct", 1), Over(dst, second)), both,
         Over(extra, Over(both, third)), Over(NoFields, Over(both, third)),
         Over(dst, second), Over(both, Field("imm", 0)), Over(both, third)}
  <2>. HIDE DEF dst, src, second, third, extra
  <2>. QED
    BY DEF Operands, dst, src, second, third, extra
<1>. HIDE DEF dst, src, second, third, both, extra, NoFields
<1>7. DOMAIN both = {"dst", "src"}
  <2>1. DOMAIN both = DOMAIN dst \cup DOMAIN src
    BY OverAt DEF both
  <2>. QED
    BY <1>3, <2>1
<1>8. DOMAIN extra = {"f"}
  BY FieldAt DEF extra
<1>9. /\ DOMAIN Over(both, third) \subseteq {"dst", "src", "imm"}
      /\ DOMAIN Over(dst, second) \subseteq {"dst", "imm"}
      /\ DOMAIN Over(both, Field("imm", 0)) = {"dst", "src", "imm"}
      /\ DOMAIN Over(Field("direct", 0), both) = {"direct", "dst", "src"}
  <2>1. /\ DOMAIN Over(both, third) = DOMAIN both \cup DOMAIN third
        /\ DOMAIN Over(dst, second) = DOMAIN dst \cup DOMAIN second
        /\ DOMAIN Over(both, Field("imm", 0)) = DOMAIN both \cup DOMAIN Field("imm", 0)
        /\ DOMAIN Over(Field("direct", 0), both) = DOMAIN Field("direct", 0) \cup DOMAIN both
    BY OverAt
  <2>2. DOMAIN Field("imm", 0) = {"imm"} /\ DOMAIN Field("direct", 0) = {"direct"}
    BY FieldAt
  <2>. QED
    BY <1>3, <1>4, <1>7, <2>1, <2>2
<1>. DEFINE low == Over(dst, second)
            wide == Over(both, third)
<1>10. /\ DOMAIN Over(Field("direct", 1), low) \subseteq {"direct", "dst", "imm"}
       /\ DOMAIN Over(extra, wide) \subseteq {"f", "dst", "src", "imm"}
       /\ DOMAIN Over(NoFields, wide) \subseteq {"dst", "src", "imm"}
  <2>. HIDE DEF low, wide
  <2>1. /\ DOMAIN Over(Field("direct", 1), low) = DOMAIN Field("direct", 1) \cup DOMAIN low
        /\ DOMAIN Over(extra, wide) = DOMAIN extra \cup DOMAIN wide
        /\ DOMAIN Over(NoFields, wide) = DOMAIN NoFields \cup DOMAIN wide
    BY OverAt
  <2>2. DOMAIN Field("direct", 1) = {"direct"} /\ DOMAIN Field("src", 0) = {"src"}
    BY FieldAt
  <2>3. DOMAIN low \subseteq {"dst", "imm"} /\ DOMAIN wide \subseteq {"dst", "src", "imm"}
    BY <1>9 DEF low, wide
  <2>. QED
    BY <1>1, <1>8, <2>1, <2>2, <2>3
<1>11. DOMAIN Field("src", 0) = {"src"}
  BY FieldAt
<1>. QED
  BY <1>1, <1>6, <1>7, <1>9, <1>10, <1>11 DEF Fields

\* An operand that may not be left out is there.
LEMMA SlotFilled ==
    ASSUME NEW opcode, NEW args \in Seq(Argument), WellFormed(opcode, args),
           NEW fields, fields = Signature(opcode, args), NEW k \in DOMAIN fields,
           k \in DOMAIN args \/ ~MayLack(opcode, fields[k])
    PROVE  k \in DOMAIN args /\ Holds(opcode, fields[k], args[k])
BY DEF WellFormed

LEMMA TypesAt ==
    ASSUME NEW args, NEW k \in 1 .. 4
    PROVE  TypesOf(args, 4)[k] = Read(args, k).type
BY DEF TypesOf

LEMMA RegistersRead ==
    ASSUME NEW opcode, opcode # "int", NEW args \in Seq(Argument), WellFormed(opcode, args),
           NEW fields, fields = Signature(opcode, args), {1, 2} \subseteq DOMAIN fields,
           fields[1] = "dst", fields[2] = "src"
    PROVE  /\ {1, 2} \subseteq DOMAIN args
           /\ Read(args, 1).type = "register" /\ Read(args, 2).type = "register"
           /\ RegisterField(opcode, args, "dst", 1) = Field("dst", Means(args[1]))
           /\ RegisterField(opcode, args, "src", 2) = Field("src", Means(args[2]))
<1>1. ~MayLack(opcode, "dst") /\ ~MayLack(opcode, "src")
  BY DEF MayLack
<1>2. /\ 1 \in DOMAIN args /\ Holds(opcode, "dst", args[1])
      /\ 2 \in DOMAIN args /\ Holds(opcode, "src", args[2])
  BY <1>1, SlotFilled
<1>. QED
  BY <1>2, HeldOperand DEF RegisterField

LEMMA NumberRead ==
    ASSUME NEW i, NEW args \in Seq(Argument), NEW k \in DOMAIN args, NEW defined,
           Holds(i.opcode, "imm", args[k])
    PROVE  /\ Read(args, k).type = "immediate"
           /\ ImmediateField(i, args, k, defined) = Field("imm", Means(args[k]))
<1>1. Read(args, k).type = "immediate" /\ Immediate(i.opcode, Read(args, k).value) = Means(args[k])
  BY HeldOperand
<1>. QED
  BY <1>1 DEF ImmediateField

LEMMA RegisterAndNumberRead ==
    ASSUME NEW i, NEW args \in Seq(Argument), WellFormed(i.opcode, args), NEW defined,
           Signature(i.opcode, args) = <<"dst", "imm">>, i.opcode # "mov", i.opcode # "int"
    PROVE  /\ {1, 2} \subseteq DOMAIN args
           /\ Read(args, 1).type = "register" /\ Read(args, 2).type = "immediate"
           /\ RegisterField(i.opcode, args, "dst", 1) = Field("dst", Means(args[1]))
           /\ ImmediateField(i, args, 2, defined) = Field("imm", Means(args[2]))
<1>. DEFINE fields == <<"dst", "imm">>
<1>1. ~MayLack(i.opcode, "dst") /\ ~MayLack(i.opcode, "imm")
  BY DEF MayLack
<1>2. /\ fields = Signature(i.opcode, args) /\ {1, 2} \subseteq DOMAIN fields
      /\ fields[1] = "dst" /\ fields[2] = "imm"
  OBVIOUS
<1>. HIDE DEF fields
<1>3. /\ 1 \in DOMAIN args /\ Holds(i.opcode, "dst", args[1])
      /\ 2 \in DOMAIN args /\ Holds(i.opcode, "imm", args[2])
  BY <1>1, <1>2, SlotFilled
<1>4. /\ Read(args, 1).type = "register"
      /\ Read(args, 1).value % RegisterValues(i.opcode, "dst") = Means(args[1])
  BY <1>3, HeldOperand
<1>5. /\ Read(args, 2).type = "immediate"
      /\ ImmediateField(i, args, 2, defined) = Field("imm", Means(args[2]))
  BY <1>3, NumberRead
<1>. QED
  BY <1>3, <1>4, <1>5 DEF RegisterField

-----------------------------------------------------------------------------
(* The words of the formats.                                               *)

\* What was there is overwritten in all the fields that get values.
LEMMA FieldsCarried ==
    ASSUME NEW i, "opcode" \in DOMAIN i, NEW args, NEW defined,
           NEW ops, ops = Operands(i, args, defined),
           NEW fields, fields = Signature(i.opcode, args),
           \A k \in DOMAIN fields :
              /\ fields[k] \in DOMAIN ops
              /\ ops[fields[k]] = IF k \in DOMAIN args THEN Means(args[k]) ELSE 0,
           i.opcode \in Arithmetic =>
              "direct" \in DOMAIN ops /\ (ops["direct"] = 0 <=> fields[2] = "src")
    PROVE  Carries(WithOperands(i, args, defined), args)
<1>. DEFINE word == WithOperands(i, args, defined)
<1>1. word = Over(ops, i)
  BY DEF WithOperands
<1>2. "opcode" \notin DOMAIN ops
  BY OperandFields DEF Fields
<1>. HIDE DEF word
<1>3. word.opcode = i.opcode
  BY <1>1, <1>2 DEF Over
<1>4. \A f \in DOMAIN ops : word[f] = ops[f]
  BY <1>1 DEF Over
<1>5. i.opcode \in Arithmetic => word.direct = ops["direct"]
  BY <1>4
<1>. QED
  BY <1>3, <1>4, <1>5 DEF Carries, word

LEMMA PlainCarried ==
    ASSUME NEW i, "opcode" \in DOMAIN i, NEW args \in Seq(Argument), NEW defined,
           WellFormed(i.opcode, args), i.opcode \in Logic \cup {"io"}
    PROVE  Carries(WithOperands(i, args, defined), args)
<1>. DEFINE o == i.opcode
            a == Means(args[1])
            b == Means(args[2])
            fields == <<"dst", "src">>
            both == Over(Field("dst", a), Field("src", b))
<1>1. o \in {"and", "or", "not", "test", "io"}
  BY DEF Logic
<1>2. Signature(o, args) = fields
  BY <1>1 DEF Signature, Arithmetic
<1>3. /\ {1, 2} \subseteq DOMAIN args
      /\ Read(args, 1).type = "register" /\ Read(args, 2).type = "register"
      /\ RegisterField(o, args, "dst", 1) = Field("dst", a)
      /\ RegisterField(o, args, "src", 2) = Field("src", b)
  BY <1>1, <1>2, RegistersRead
<1>. HIDE DEF a, b
<1>4. both = Operands(i, args, defined)
  <2>1. TypesOf(args, 4)[1] = "register" /\ TypesOf(args, 4)[2] = "register"
    BY <1>3, TypesAt
  <2>. QED
    BY <1>1, <1>3, <2>1 DEF Operands, Arithmetic, Logic
<1>5. DOMAIN both = {"dst", "src"} /\ both["dst"] = a /\ both["src"] = b
  BY DEF Over, Field
<1>. HIDE DEF both
<1>6. \A k \in DOMAIN fields :
          /\ fields[k] \in DOMAIN both
          /\ both[fields[k]] = IF k \in DOMAIN args THEN Means(args[k]) ELSE 0
  BY <1>3, <1>5 DEF a, b
<1>7. o \notin Arithmetic
  BY <1>1 DEF Arithmetic
<1>. HIDE DEF fields
<1>. QED
  BY <1>2, <1>4, <1>6, <1>7, FieldsCarried

LEMMA TargetCarried ==
    ASSUME NEW i, "opcode" \in DOMAIN i, NEW args \in Seq(Argument), NEW defined,
           WellFormed(i.opcode, args), i.opcode \in {"call", "ldlh"}
    PROVE  Carries(WithOperands(i, args, defined), args)
<1>. DEFINE o == i.opcode
            a == Means(args[1])
            b == Means(args[2])
            fields == <<"dst", "imm">>
            both == Over(Field("dst", a), Field("imm", b))
<1>1. o \notin Arithmetic \cup Logic
  BY DEF Arithmetic, Logic
<1>2. Signature(o, args) = fields
  BY <1>1 DEF Signature
<1>3. /\ {1, 2} \subseteq DOMAIN args
      /\ Read(args, 1).type = "register" /\ Read(args, 2).type = "immediate"
      /\ RegisterField(o, args, "dst", 1) = Field("dst", a)
      /\ ImmediateField(i, args, 2, defined) = Field("imm", b)
  BY <1>2, RegisterAndNumberRead
<1>. HIDE DEF a, b
<1>4. both = Operands(i, args, defined)
  <2>1. TypesOf(args, 4)[1] = "register" /\ TypesOf(args, 4)[2] = "immediate"
    BY <1>3, TypesAt
  <2>. QED
    BY <1>1, <1>3, <2>1 DEF Operands
<1>5. DOMAIN both = {"dst", "imm"} /\ both["dst"] = a /\ both["imm"] = b
  BY DEF Over, Field
<1>. HIDE DEF both
<1>6. \A k \in DOMAIN fields :
          /\ fields[k] \in DOMAIN both
          /\ both[fields[k]] = IF k \in DOMAIN args THEN Means(args[k]) ELSE 0
  BY <1>3, <1>5 DEF a, b
<1>. HIDE DEF fields
<1>. QED
  BY <1>1, <1>2, <1>4, <1>6, FieldsCarried

LEMMA ArithmeticCarried ==
    ASSUME NEW i, "opcode" \in DOMAIN i, NEW args \in Seq(Argument), NEW defined,
           WellFormed(i.opcode, args), i.opcode \in Arithmetic
    PROVE  Carries(WithOperands(i, args, defined), args)
<1>. DEFINE o == i.opcode
            a == Means(args[1])
            b == Means(args[2])
<1>1. o # "int" /\ o \notin Logic \cup {"io"} /\ o \notin {"call", "ldlh"} /\ o # "ldst" /\ o # "mov"
  BY DEF Arithmetic, Logic
<1>2. CASE Len(args) > 1 /\ IsRegister(args[2])
  <2>. DEFINE fields == <<"dst", "src">>
              ops == Over(Field("direct", 0), Over(Field("dst", a), Field("src", b)))
  <2>1. Signature(o, args) = fields
    BY <1>1, <1>2 DEF Signature
  <2>2. /\ {1, 2} \subseteq DOMAIN args
        /\ Read(args, 1).type = "register" /\ Read(args, 2).type = "register"
        /\ RegisterField(o, args, "dst", 1) = Field("dst", a)
        /\ RegisterField(o, args, "src", 2) = Field("src", b)
    BY <1>1, <2>1, RegistersRead
  <2>. HIDE DEF a, b
  <2>3. ops = Operands(i, args, defined)
    <3>1. TypesOf(args, 4)[1] = "register" /\ TypesOf(args, 4)[2] = "register"
      BY <2>2, TypesAt
    <3>. QED
      BY <1>1, <2>2, <3>1 DEF Operands
  <2>4. /\ DOMAIN ops = {"direct", "dst", "src"}
        /\ ops["direct"] = 0 /\ ops["dst"] = a /\ ops["src"] = b
    BY DEF Over, Field
  <2>. HIDE DEF ops
  <2>5. /\ \A k \in DOMAIN fields :
             /\ fields[k] \in DOMAIN ops
             /\ ops[fields[k]] = IF k \in DOMAIN args THEN Means(args[k]) ELSE 0
        /\ fields[2] = "src"
    BY <2>2, <2>4 DEF a, b
  <2>. HIDE DEF fields
  <2>6. "direct" \in DOMAIN ops /\ (ops["direct"] = 0 <=> fields[2] = "src")
    BY <2>4, <2>5
  <2>. QED
    BY <2>1, <2>3, <2>5, <2>6, FieldsCarried
<1>3. CASE ~(Len(args) > 1 /\ IsRegister(args[2]))
  <2>. DEFINE fields == <<"dst", "imm">>
              ops == Over(Field("direct", 1), Over(Field("dst", a), Field("imm", b)))
  <2>1. Signature(o, args) = fields
    BY <1>1, <1>3 DEF Signature
  <2>2. /\ {1, 2} \subseteq DOMAIN args
        /\ Read(args, 1).type = "register" /\ Read(args, 2).type = "immediate"
        /\ RegisterField(o, args, "dst", 1) = Field("dst", a)
        /\ ImmediateField(i, args, 2, defined) = Field("imm", b)
    BY <1>1, <2>1, RegisterAndNumberRead
  <2>. HIDE DEF a, b
  <2>3. ops = Operands(i, args, defined)
    <3>1. TypesOf(args, 4)[1] = "register" /\ TypesOf(args, 4)[2] = "immediate"
      BY <2>2, TypesAt
    <3>. QED
      BY <1>1, <2>2, <3>1 DEF Operands
  <2>4. /\ DOMAIN ops = {"direct", "dst", "imm"}
        /\ ops["direct"] = 1 /\ ops["dst"] = a /\ ops["imm"] = b
    BY DEF Over, Field
  <2>. HIDE DEF ops
  <2>5. /\ \A k \in DOMAIN fields :
             /\ fields[k] \in DOMAIN ops
             /\ ops[fields[k]] = IF k \in DOMAIN args THEN Means(args[k]) ELSE 0
        /\ fields[2] = "imm"
    BY <2>2, <2>4 DEF a, b
  <2>. HIDE DEF fields
  <2>6. "direct" \in DOMAIN ops /\ (ops["direct"] = 0 <=> fields[2] = "src")
    BY <2>4, <2>5
  <2>. QED
    BY <2>1, <2>3, <2>5, <2>6, FieldsCarried
<1>. QED
  BY <1>2, <1>3

\* A move without its third argument does not shift.
LEMMA MoveCarried ==
    ASSUME NEW i, "opcode" \in DOMAIN i, NEW args \in Seq(Argument), NEW defined,
           WellFormed(i.opcode, args), i.opcode = "mov"
    PROVE  Carries(WithOperands(i, args, defined), args)
<1>. DEFINE o == i.opcode
            a == Means(args[1])
            b == Means(args[2])
            c == IF 3 \in DOMAIN args THEN Means(args[3]) ELSE 0
            fields == <<"dst", "src", "imm">>
            ops == Over(Over(Field("dst", a), Field("src", b)), Field("imm", c))
<1>1. o \notin Arithmetic \cup Logic \cup {"io"}
  BY DEF Arithmetic, Logic
<1>2. Signature(o, args) = fields
  BY <1>1 DEF Signature
<1>3. DOMAIN fields = 1 .. 3 /\ fields[1] = "dst" /\ fields[2] = "src" /\ fields[3] = "imm"
  OBVIOUS
<1>. HIDE DEF fields
<1>4. /\ {1, 2} \subseteq DOMAIN args
      /\ Read(args, 1).type = "register" /\ Read(args, 2).type = "register"
      /\ RegisterField(o, args, "dst", 1) = Field("dst", a)
      /\ RegisterField(o, args, "src", 2) = Field("src", b)
  BY <1>2, <1>3, RegistersRead
<1>5. IF 3 \in DOMAIN args
      THEN /\ Read(args, 3).type = "immediate"
           /\ ImmediateField(i, args, 3, defined) = Field("imm", Means(args[3]))
      ELSE Read(args, 3).type = "none"
  <2>1. ASSUME 3 \in DOMAIN args
        PROVE  /\ Read(args, 3).type = "immediate"
               /\ ImmediateField(i, args, 3, defined) = Field("imm", Means(args[3]))
    <3>1. Holds(o, "imm", args[3])
      BY <1>2, <1>3, <2>1, SlotFilled
    <3>. QED
      BY <2>1, <3>1, NumberRead
  <2>2. ASSUME 3 \notin DOMAIN args PROVE Read(args, 3).type = "none"
    BY <2>2 DEF Read
  <2>. QED
    BY <2>1, <2>2
<1>. HIDE DEF a, b
<1>6. ops = Operands(i, args, defined)
  <2>1. /\ TypesOf(args, 4)[1] = "register" /\ TypesOf(args, 4)[2] = "register"
        /\ TypesOf(args, 4)[3] = Read(args, 3).type
    BY <1>4, TypesAt
  <2>2. Operands(i, args, defined) =
          Over(Over(Field("dst", a), Field("src", b)),
               IF Read(args, 3).type = "none" THEN Field("imm", 0)
               ELSE ImmediateField(i, args, 3, defined))
    BY <1>1, <1>4, <1>5, <2>1 DEF Operands
  <2>. QED
    BY <1>5, <2>2
<1>7. 3 \in DOMAIN args => c = Means(args[3])
  OBVIOUS
<1>8. 3 \notin DOMAIN args => c = 0
  OBVIOUS
<1>. HIDE DEF c
<1>9. /\ DOMAIN ops = {"dst", "src", "imm"}
      /\ ops["dst"] = a /\ ops["src"] = b /\ ops["imm"] = c
  BY DEF Over, Field
<1>. HIDE DEF ops
<1>10. \A k \in DOMAIN fields :
          /\ fields[k] \in DOMAIN ops
          /\ ops[fields[k]] = IF k \in DOMAIN args THEN Means(args[k]) ELSE 0
  BY <1>3, <1>4, <1>7, <1>8, <1>9 DEF a, b
<1>. QED
  BY <1>1, <1>2, <1>6, <1>10, FieldsCarried

LEMMA LoadOrStoreCarried ==
    ASSUME NEW i, "opcode" \in DOMAIN i, NEW args \in Seq(Argument), NEW defined,
           WellFormed(i.opcode, args), i.opcode = "ldst"
    PROVE  Carries(WithOperands(i, args, defined), args)
<1>. DEFINE o == i.opcode
            a == Means(args[1])
            b == Means(args[2])
            c == Means(args[3])
            d == IF 4 \in DOMAIN args THEN Means(args[4]) ELSE 0
            fields == <<"dst", "src", "imm", "f">>
            ops == Over(Field("f", d),
                        Over(Over(Field("dst", a), Field("src", b)), Field("imm", c)))
<1>1. o \notin Arithmetic \cup Logic \cup {"io", "int", "call", "ldlh", "mov"}
  BY DEF Arithmetic, Logic
<1>2. Signature(o, args) = fields
  BY <1>1 DEF Signature
<1>3. DOMAIN fields = 1 .. 4 /\ fields[1] = "dst" /\ fields[2] = "src" /\ fields[3] = "imm" /\ fields[4] = "f"
  OBVIOUS
<1>. HIDE DEF fields
<1>4. /\ {1, 2} \subseteq DOMAIN args
      /\ Read(args, 1).type = "register" /\ Read(args, 2).type = "register"
      /\ RegisterField(o, args, "dst", 1) = Field("dst", a)
      /\ RegisterField(o, args, "src", 2) = Field("src", b)
  BY <1>2, <1>3, RegistersRead
<1>5. /\ 3 \in DOMAIN args
      /\ ImmediateField(i, args, 3, defined) = Field("imm", c)
  <2>1. ~MayLack(o, "imm")
    BY DEF MayLack
  <2>2. 3 \in DOMAIN args /\ Holds(o, "imm", args[3])
    BY <1>2, <1>3, <2>1, SlotFilled
  <2>. QED
    BY <2>2, NumberRead
<1>6. Read(args, 4).type \in {"extra", "none"} /\ Read(args, 4).value = d
  <2>1. ASSUME 4 \in DOMAIN args
        PROVE  Read(args, 4).type = "extra" /\ Read(args, 4).value = Means(args[4])
    <3>1. Holds(o, "f", args[4])
      BY <1>2, <1>3, <2>1, SlotFilled
    <3>. QED
      BY <2>1, <3>1, HeldOperand
  <2>2. ASSUME 4 \notin DOMAIN args
        PROVE  Read(args, 4).type = "none" /\ Read(args, 4).value = 0
    BY <2>2 DEF Read
  <2>. QED
    BY <2>1, <2>2
<1>7. (4 \in DOMAIN args => d = Means(args[4])) /\ (4 \notin DOMAIN args => d = 0)
  OBVIOUS
<1>. HIDE DEF a, b, c, d
<1>8. ops = Operands(i, args, defined)
  <2>1. /\ TypesOf(args, 4)[1] = "register" /\ TypesOf(args, 4)[2] = "register"
        /\ TypesOf(args, 4)[4] = Read(args, 4).type
    BY <1>4, TypesAt
  <2>2. Operands(i, args, defined) =
          Over(IF TypesOf(args, 4)[4] \in {"extra", "none"} THEN Field("f", Read(args, 4).value)
               ELSE NoFields,
               Over(Over(Field("dst", a), Field("src", b)), ImmediateField(i, args, 3, defined)))
    BY <1>1, <1>4, <2>1 DEF Operands
  <2>. QED
    BY <1>5, <1>6, <2>1, <2>2
<1>9. /\ DOMAIN ops = {"dst", "src", "imm", "f"}
      /\ ops["dst"] = a /\ ops["src"] = b /\ ops["imm"] = c /\ ops["f"] = d
  BY DEF Over, Field
<1>. HIDE DEF ops
<1>10. \A k \in DOMAIN fields :
          /\ fields[k] \in DOMAIN ops
          /\ ops[fields[k]] = IF k \in DOMAIN args THEN Means(args[k]) ELSE 0
  BY <1>3, <1>4, <1>5, <1>7, <1>9 DEF a, b, c
<1>. QED
  BY <1>1, <1>2, <1>8, <1>10, FieldsCarried

-----------------------------------------------------------------------------
(* The steps of a line.                                                    *)

Operations == Arithmetic \cup Logic \cup {"int", "call", "ldst", "io", "mov", "ldlh"}

\* Every row of the table has an opcode that the encoder knows.
LEMMA RowOpcodes ==
    ASSUME NEW row \in Rows
    PROVE  row.opcode \in Operations
<1>1. DOMAIN SharedOpcode = {"ldr", "str", "in", "out", "mov", "shr", "shl", "ldch", "ldcl"}
  BY DEF SharedOpcode
<1>2. \A m \in DOMAIN SharedOpcode : SharedOpcode[m] \in {"ldst", "io", "mov", "ldlh"}
  BY DEF SharedOpcode
<1>. HIDE DEF SharedOpcode
<1>3. \A m \in Mnemonics : OpcodeOf(m) \in Operations
  BY <1>2 DEF Mnemonics, OpcodeOf, Operations
<1>4. Flagging \subseteq Mnemonics
  BY <1>1 DEF Flagging, Mnemonics
<1>5. \E m \in Mnemonics : row.opcode = OpcodeOf(m)
  BY <1>4 DEF Rows
<1>. QED
  BY <1>3, <1>5

LEMMA NamedOpcode ==
    ASSUME NEW i, NEW name, NEW reading
    PROVE  LET word == Named(i, name, reading)
           IN  "opcode" \in DOMAIN word /\ word.opcode = reading[1].opcode
<1>. DEFINE row == [opcode |-> reading[1].opcode, cf |-> reading[1].cf, condition |-> reading[2]]
            direction == Direction(name, reading[1].opcode)
            word == Named(i, name, reading)
<1>1. "opcode" \notin DOMAIN direction
  BY DEF Direction, NoFields
<1>2. "opcode" \in DOMAIN row /\ row["opcode"] = reading[1].opcode
  OBVIOUS
<1>3. word = Over(direction, Over(row, i))
  BY DEF Named
<1>. HIDE DEF row, direction, word
<1>4. "opcode" \in DOMAIN word /\ word["opcode"] = reading[1].opcode
  BY <1>1, <1>2, <1>3 DEF Over
<1>. QED
  BY <1>4 DEF word

LEMMA OperandsKeepOpcode ==
    ASSUME NEW i, "opcode" \in DOMAIN i, NEW args, NEW defined
    PROVE  LET word == WithOperands(i, args, defined)
           IN  "opcode" \in DOMAIN word /\ word.opcode = i.opcode
<1>. DEFINE ops == Operands(i, args, defined)
            word == WithOperands(i, args, defined)
<1>1. "opcode" \notin DOMAIN ops
  BY OperandFields DEF Fields
<1>2. word = Over(ops, i)
  BY DEF WithOperands
<1>. HIDE DEF ops, word
<1>3. "opcode" \in DOMAIN word /\ word["opcode"] = i["opcode"]
  BY <1>1, <1>2 DEF Over
<1>. QED
  BY <1>3 DEF word

\* Every format but that of a software interrupt carries the operands of its
\* lines.
LEMMA OperandsCarried ==
    ASSUME NEW i, "opcode" \in DOMAIN i, i.opcode \in Operations \ {"int"},
           NEW args \in Seq(Argument), NEW defined, WellFormed(i.opcode, args)
    PROVE  Carries(WithOperands(i, args, defined), args)
<1>1. CASE i.opcode \in Arithmetic
  BY <1>1, ArithmeticCarried
<1>2. CASE i.opcode \in Logic \cup {"io"}
  BY <1>2, PlainCarried
<1>3. CASE i.opcode \in {"call", "ldlh"}
  BY <1>3, TargetCarried
<1>4. CASE i.opcode = "ldst"
  BY <1>4, LoadOrStoreCarried
<1>5. CASE i.opcode = "mov"
  BY <1>5, MoveCarried
<1>. QED
  BY <1>1, <1>2, <1>3, <1>4, <1>5 DEF Operations

EncoderInv ==
    /\ line \in InstructionLines
    /\ "opcode" \in DOMAIN instruction
    /\ step # "operation" /\ Readings(line.name) # {} => instruction.opcode \in Operations
    /\ step \in {"write", "done"} /\ Readings(line.name) # {} =>
            (instruction.opcode # "int" /\ WellFormed(instruction.opcode, line.args)
                => Carries(instruction, line.args))
    /\ step = "done" => words = IF line.name = "ldc" THEN ConstantWords(instruction, line.args)
                                ELSE <<instruction>>

LEMMA EncoderInit ==
    ASSUME Init
    PROVE  EncoderInv
<1>1. PICK bit \in {0, 1} : instruction = Uninitialised("0xB", bit)
  BY DEF Init
<1>2. "opcode" \in DOMAIN instruction
  BY <1>1 DEF Uninitialised, Over
<1>3. step = "operation" /\ line \in InstructionLines
  BY DEF Init
<1>. QED
  BY <1>2, <1>3 DEF EncoderInv

LEMMA EncoderStep ==
    ASSUME EncoderInv, [Next]_vars
    PROVE  EncoderInv'
<1>1. CASE ReadOperation
  <2>1. PICK reading \in Readings(line.name) : instruction' = Named(instruction, line.name, reading)
    BY <1>1 DEF ReadOperation
  <2>2. step' = "operands" /\ line' = line
    BY <1>1 DEF ReadOperation
  <2>3. reading[1] \in Rows
    BY <2>1 DEF Readings
  <2>4. "opcode" \in DOMAIN instruction' /\ instruction'.opcode = reading[1].opcode
    BY <2>1, NamedOpcode
  <2>5. instruction'.opcode \in Operations
    BY <2>3, <2>4, RowOpcodes
  <2>. QED
    BY <2>2, <2>4, <2>5 DEF EncoderInv
<1>2. CASE UnknownOperation
  <2>1. /\ Readings(line.name) = {} /\ step' = "operands" /\ line' = line
        /\ DOMAIN instruction' = DOMAIN instruction
    BY <1>2 DEF UnknownOperation
  <2>. QED
    BY <2>1 DEF EncoderInv
<1>3. CASE ReadOperands
  <2>1. PICK defined \in BOOLEAN : instruction' = WithOperands(instruction, line.args, defined)
    BY <1>3 DEF ReadOperands
  <2>2. step = "operands" /\ step' = "write" /\ line' = line
    BY <1>3 DEF ReadOperands
  <2>3. "opcode" \in DOMAIN instruction' /\ instruction'.opcode = instruction.opcode
    BY <2>1, OperandsKeepOpcode DEF EncoderInv
  <2>4. line.args \in Seq(Argument)
    BY LinesAssumption DEF EncoderInv
  <2>5. ASSUME Readings(line.name) # {}, instruction.opcode # "int",
               WellFormed(instruction.opcode, line.args)
        PROVE  Carries(instruction', line.args)
    BY <2>1, <2>2, <2>4, <2>5, OperandsCarried DEF EncoderInv
  <2>. QED
    BY <2>2, <2>3, <2>5 DEF EncoderInv
<1>4. CASE WriteInstruction
  BY <1>4 DEF WriteInstruction, EncoderInv
<1>5. CASE UNCHANGED vars
  BY <1>5 DEF vars, EncoderInv
<1>. QED
  BY <1>1, <1>2, <1>3, <1>4, <1>5 DEF Next

LEMMA EncoderAlways == Spec => []EncoderInv
<1>. QED
  BY EncoderInit, EncoderStep, PTL DEF Spec

\* For every line that has a reading, is no software interrupt and whose
\* arguments the formats can hold, with any bits in the instruction before,
\* the word carries the registers, numbers and side effects of the line.
THEOREM OperandsReachProcessor == Spec => []OperandsSurvive
<1>1. EncoderInv => OperandsSurvive
  <2>. SUFFICES ASSUME EncoderInv, Written, words[1].opcode # "int",
                       WellFormed(words[1].opcode, line.args)
                PROVE  Carries(words[1], line.args)
    BY DEF OperandsSurvive
  <2>1. words = <<instruction>> /\ step = "done" /\ Readings(line.name) # {}
    BY DEF EncoderInv, Written
  <2>2. words[1] = instruction
    BY <2>1
  <2>. QED
    BY <2>1, <2>2 DEF EncoderInv
<1>. QED
  BY <1>1, EncoderAlways, PTL

\* For every width of a word and every constant that fits one, the two words
\* of "ldc" leave exactly that constant in the register, whatever it held.
THEOREM ConstantsReachProcessor == Spec => []ConstantsWhole
<1>1. EncoderInv => ConstantsWhole
  <2>. SUFFICES ASSUME EncoderInv, step = "done", line.name = "ldc",
                       TypesOf(line.args, 2) = <<"register", "immediate">>,
                       line.args[1].form = "register", line.args[2].number \in Words
                PROVE  /\ \A k \in 1 .. 2 : /\ words[k].opcode = "ldlh"
                                            /\ words[k].condition = NoCondition
                                            /\ words[k].dst = line.args[1].number
                       /\ \A old \in Words :
                             LoadHalf(words[2], LoadHalf(words[1], old)) = line.args[2].number
    BY DEF ConstantsWhole
  <2>1. words = ConstantWords(instruction, line.args)
    BY DEF EncoderInv
  <2>2. line.args \in Seq(Argument)
    BY LinesAssumption DEF EncoderInv
  <2>. QED
    BY <2>1, <2>2, ConstantCarried
<1>. QED
  BY <1>1, EncoderAlways, PTL
=============================================================================
